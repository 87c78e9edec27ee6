---------------------------- MODULE MCMp3Stream ----------------------------
(* Mp3Playback for TLC: frames of 4 bytes with headers of 2 in a buffer of  *)
(* 14 that is filled in chunks of up to 5, so that more than one whole frame *)
(* is still buffered when the body ends, and bodies that exceed the buffer.  *)
(* Pieces of sound are played faster, slower, as they are and, one of them,  *)
(* too short for a whole output frame; most take two blocks or three.        *)
EXTENDS Mp3Playback

MCSounds == {[count |-> cr[1], rate |-> cr[2]] :
                cr \in {<<1, 7>>, <<4, 3>>, <<3, 2>>, <<7, 4>>, <<5, 5>>}}
=============================================================================
