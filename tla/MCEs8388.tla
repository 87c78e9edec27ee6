------------------------------ MODULE MCEs8388 ------------------------------
(* Es8388 for TLC: the codec alone, with the chip at its primary address.   *)
EXTENDS Es8388
=============================================================================
