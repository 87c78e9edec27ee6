----------------------------- MODULE Mp3Playback -----------------------------
(***************************************************************************)
(* voice_stream_mp3_url together with audio_io_playback_write_pcm: the     *)
(* samples of a decoded frame go through the Resampler, block by block,    *)
(* before the loop of Mp3Stream goes on; a block that fails ends the reply.*)
(***************************************************************************)
EXTENDS Mp3Stream, Resampler

all == <<vars, sound_vars>>

PlayInit == Init /\ Silent

Download ==        \* everything before and between the frames
    /\ \/ InitClient \/ Open \/ FetchHeaders \/ BeginPlayback \/ AllocPcm \/ AllocBuf
       \/ Outer \/ (\E n \in 1..ChunkSize : Read(n)) \/ ReadEnd \/ ReadFailed \/ Filled
       \/ DecodeNothing \/ Finish
    /\ UNCHANGED sound_vars

Decode ==          \* the info of the frame says how much sound it is
    /\ DecodeFrame
    /\ IF pc' = "write" THEN \E s \in Sounds : Begin(s) ELSE UNCHANGED sound_vars

WriteBlock ==
    /\ pc = "write" /\ Unwritten
    /\ \E n \in 0..Todo : Transmit(n)
    /\ UNCHANGED vars

Written == pc = "write" /\ ~Unwritten /\ WriteOk /\ Begin(NoSound)

BlockFailed == pc = "write" /\ Unwritten /\ WriteFailed /\ Begin(NoSound)

PlayStep == Download \/ Decode \/ WriteBlock \/ Written \/ BlockFailed

PlayNext == PlayStep \/ (Again /\ UNCHANGED sound_vars)

PlaySpec == PlayInit /\ [][PlayNext]_all

\* As in Mp3Stream; a write has a timeout.
FairPlaySpec == PlaySpec /\ WF_all(PlayStep)
=============================================================================
