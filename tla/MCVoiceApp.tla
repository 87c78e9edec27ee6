----------------------------- MODULE MCVoiceApp -----------------------------
(* VoiceApp for TLC: two stacks, so that a task on its way out and its      *)
(* successor coexist.                                                       *)
EXTENDS VoiceApp

CONSTANTS t1, t2
=============================================================================
