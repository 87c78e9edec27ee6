------------------------------- MODULE MCBoard -------------------------------
(* Board for TLC: the code's number of retries, and the codec at the        *)
(* fallback address, so that the first attempt fails.                       *)
EXTENDS Board
=============================================================================
