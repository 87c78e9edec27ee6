--------------------------- MODULE MCVoiceSession ---------------------------
(* VoiceSession for TLC: messages of up to three bytes, read two at a time  *)
(* at most, into a reply buffer with room for two and the NUL, so that a    *)
(* reply comes in one to three events and fits or is cut; and any number of *)
(* reconnects.                                                              *)
EXTENDS VoiceSession
=============================================================================
