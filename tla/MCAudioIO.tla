----------------------------- MODULE MCAudioIO -----------------------------
(* AudioIO for TLC.  The firmware only ever calls audio_io_set_playing     *)
(* with false; the component's header allows both values, and only TRUE    *)
(* makes saving and restoring the flag around a stream interesting.        *)
EXTENDS AudioIO

MCPlayRequests == BOOLEAN
=============================================================================
