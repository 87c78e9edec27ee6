------------------------------ MODULE Mp3Stream ------------------------------
(***************************************************************************)
(* voice_stream_mp3_url (main.c): downloads the spoken reply chunk by      *)
(* chunk into one buffer and plays the MP3 frames found in it.             *)
(*                                                                         *)
(* The body is a run of frames of FrameSize bytes, the last one perhaps    *)
(* cut short; bytes are counted, not represented.  The network decides how *)
(* many bytes each read returns, when it ends and whether it fails; every  *)
(* call that can fail may fail.                                            *)
(***************************************************************************)
EXTENDS Naturals

CONSTANTS
    BufferSize,   \* VOICE_MP3_STREAM_BUFFER_SIZE (16384)
    ChunkSize,    \* VOICE_HTTP_READ_CHUNK_SIZE (2048)
    FrameSize,    \* bytes of an MP3 frame (at most 2304)
    HeaderSize,   \* HDR_SIZE of minimp3.h (4)
    MaxBody       \* longest body; a bound for TLC

\* A frame begins with its header; it and the header behind it fit in what is
\* buffered before decoding.
ASSUME SizesAssumption ==
    /\ BufferSize \in Nat /\ ChunkSize \in Nat \ {0}
    /\ FrameSize \in Nat \ {0} /\ HeaderSize \in 1..FrameSize /\ MaxBody \in Nat
    /\ FrameSize + HeaderSize + ChunkSize <= BufferSize + 1

VARIABLES
    pc,           \* where the function is
    owned,        \* what it has acquired and must give back
    have,         \* bytes in mp3_buf
    total_read,   \* bytes read from the server
    eof,          \* no more is read
    play_err,     \* "ok", or what failed last: "read", "write"
    result,       \* the value returned: "none" while it runs
    decoded,      \* history: frames decoded
    frame_index,  \* frames played
    dropped       \* history: bytes that the decoder threw away

ring    == <<have, total_read, eof>>
history == <<decoded, frame_index, dropped>>
vars    == <<pc, owned, ring, play_err, result, history>>

Resources == {"client", "connection", "playback", "pcm", "mp3_buf"}

\* The buffer is never overrun; the rest is the variables' ranges.
TypeOK ==
    /\ pc \in {"init", "open", "headers", "begin", "alloc_pcm", "alloc_buf",
               "outer", "fill", "decode", "write", "finish", "done"}
    /\ owned \subseteq Resources
    /\ have \in 0..BufferSize /\ total_read \in 0..MaxBody /\ eof \in BOOLEAN
    /\ play_err \in {"ok", "read", "write"}
    /\ result \in {"none", "ok", "read", "write", "refused"}
    /\ decoded \in Nat /\ frame_index \in Nat /\ dropped \in Nat

Init ==
    /\ pc = "init" /\ owned = {}
    /\ have = 0 /\ total_read = 0 /\ eof = FALSE
    /\ play_err = "ok" /\ result = "none"
    /\ decoded = 0 /\ frame_index = 0 /\ dropped = 0

-----------------------------------------------------------------------------
(* Setting up: each step acquires something, or gives up what was acquired. *)

Acquire(from, r, to) ==
    /\ pc = from /\ pc' = to
    /\ owned' = owned \cup {r}
    /\ UNCHANGED <<ring, play_err, result, history>>

Refuse(from, released) ==
    /\ pc = from /\ pc' = "done"
    /\ owned' = owned \ released
    /\ result' = "refused"
    /\ UNCHANGED <<ring, play_err, history>>

InitClient == Acquire("init", "client", "open") \/ Refuse("init", {})

Open == Acquire("open", "connection", "headers") \/ Refuse("open", {"client"})

FetchHeaders ==    \* status 200, or any other
    \/ pc = "headers" /\ pc' = "begin"
       /\ UNCHANGED <<owned, ring, play_err, result, history>>
    \/ Refuse("headers", {"client", "connection"})

BeginPlayback ==   \* audio_io_playback_begin
    \/ Acquire("begin", "playback", "alloc_pcm")
    \/ Refuse("begin", {"client", "connection"})

AllocPcm ==
    \/ Acquire("alloc_pcm", "pcm", "alloc_buf")
    \/ Refuse("alloc_pcm", {"client", "connection", "playback"})

\* Mutant: the session with the speaker is not ended.
AllocBufKeepsSession ==
    \/ Acquire("alloc_buf", "mp3_buf", "outer")
    \/ Refuse("alloc_buf", {"client", "connection", "pcm"})

AllocBuf ==
    \/ Acquire("alloc_buf", "mp3_buf", "outer")
    \/ Refuse("alloc_buf", {"client", "connection", "playback", "pcm"})

-----------------------------------------------------------------------------
(* The loop *)

\* Mutant: what is still buffered at the end of the body is not played.
OuterStopsAtEof ==
    /\ pc = "outer"
    /\ pc' = IF ~eof THEN "fill" ELSE "finish"
    /\ UNCHANGED <<owned, ring, play_err, result, history>>

Outer ==           \* while (!eof || have > 0)
    /\ pc = "outer"
    /\ pc' = IF ~eof \/ have > 0 THEN "fill" ELSE "finish"
    /\ UNCHANGED <<owned, ring, play_err, result, history>>

\* Mutant: a chunk is read whenever there is any room.
WantsMoreAnyRoom == ~eof /\ have < BufferSize

WantsMore == ~eof /\ have <= BufferSize - ChunkSize

Read(n) ==         \* n bytes of the chunk asked for
    /\ pc = "fill" /\ WantsMore /\ n <= MaxBody - total_read
    /\ have' = have + n /\ total_read' = total_read + n
    /\ UNCHANGED <<pc, owned, eof, play_err, result, history>>

\* Mutant: the end of the body is not remembered.
ReadEndForgotten ==
    /\ pc = "fill" /\ WantsMore
    /\ pc' = IF have = 0 THEN "outer" ELSE "decode"
    /\ UNCHANGED <<owned, ring, play_err, result, history>>

ReadEnd ==         \* 0: the body is complete, or the server has closed early
    /\ pc = "fill" /\ WantsMore
    /\ eof' = TRUE
    /\ UNCHANGED <<pc, owned, have, total_read, play_err, result, history>>

ReadFailed ==      \* what is buffered is played nevertheless
    /\ pc = "fill" /\ WantsMore
    /\ eof' = TRUE /\ play_err' = "read"
    /\ UNCHANGED <<pc, owned, have, total_read, result, history>>

Filled ==
    /\ pc = "fill" /\ ~WantsMore
    /\ pc' = IF have = 0 THEN "outer" ELSE "decode"
    /\ UNCHANGED <<owned, ring, play_err, result, history>>

\* mp3dec_decode_frame finds a frame at the start of the data when the header
\* behind it is there too, or when the data end with the frame.
FrameFound == have = FrameSize \/ have >= FrameSize + HeaderSize

DecodeFrame ==     \* it yields samples, or none (a first frame may lack data)
    /\ pc = "decode" /\ FrameFound
    /\ have' = have - FrameSize
    /\ decoded' = decoded + 1
    /\ pc' \in {"write", "outer"}
    /\ UNCHANGED <<owned, total_read, eof, play_err, result, frame_index, dropped>>

DecodeNothing ==   \* without a frame frame_bytes is all the data there are
    /\ pc = "decode" /\ ~FrameFound
    /\ dropped' = dropped + have
    /\ have' = 0
    /\ pc' = "outer"
    /\ UNCHANGED <<owned, total_read, eof, play_err, result, decoded, frame_index>>

\* Mutant: the error of the last call is kept rather than of the last failure.
WriteOkClears ==
    /\ pc = "write" /\ pc' = "outer"
    /\ frame_index' = frame_index + 1
    /\ play_err' = "ok"
    /\ UNCHANGED <<owned, ring, result, decoded, dropped>>

WriteOk ==         \* audio_io_playback_write_pcm
    /\ pc = "write" /\ pc' = "outer"
    /\ frame_index' = frame_index + 1
    /\ UNCHANGED <<owned, ring, play_err, result, decoded, dropped>>

WriteFailed ==
    /\ pc = "write" /\ pc' = "finish"
    /\ play_err' = "write"
    /\ UNCHANGED <<owned, ring, result, history>>

Finish ==
    /\ pc = "finish" /\ pc' = "done"
    /\ owned' = owned \ {"mp3_buf", "pcm", "playback", "connection", "client"}
    /\ result' = play_err
    /\ UNCHANGED <<ring, play_err, history>>

Again ==           \* the next reply
    /\ pc = "done" /\ pc' = "init"
    /\ have' = 0 /\ total_read' = 0 /\ eof' = FALSE
    /\ play_err' = "ok" /\ result' = "none"
    /\ decoded' = 0 /\ frame_index' = 0 /\ dropped' = 0
    /\ UNCHANGED owned

Step ==
    \/ InitClient \/ Open \/ FetchHeaders \/ BeginPlayback \/ AllocPcm \/ AllocBuf
    \/ Outer \/ (\E n \in 1..ChunkSize : Read(n)) \/ ReadEnd \/ ReadFailed \/ Filled
    \/ DecodeFrame \/ DecodeNothing \/ WriteOk \/ WriteFailed \/ Finish

Next == Step \/ Again

Spec == Init /\ [][Next]_vars

\* Every call has a timeout, so the function goes on.
FairSpec == Spec /\ WF_vars(Step)

-----------------------------------------------------------------------------
(* Properties *)

\* On every return, the early ones included, all that was acquired (client,
\* connection, session with the speaker, both buffers) has been given back.
NothingLeft == pc = "done" => owned = {}

\* How many frames of n bytes of MP3 data can be told: one whose successor is
\* cut inside its header cannot.
Frames(n) ==
    LET tail == n % FrameSize IN
    IF n >= FrameSize /\ tail \in 1..(HeaderSize - 1)
    THEN n \div FrameSize - 1 ELSE n \div FrameSize

\* However the network cuts the body into reads, every frame of what was read
\* is decoded, in a body that ends or fails under way as well; only a speaker
\* that fails ends the reply before.
EveryFrameDecoded == result \in {"ok", "read"} => decoded = Frames(total_read)

\* Data are thrown away only at the end of the body, and less than a frame and
\* the header of its successor.
DropsOnlyTail ==
    [][dropped' > dropped => eof /\ have < FrameSize + HeaderSize]_vars

\* A failure of the download or of the speaker is told to the caller, whatever
\* succeeds after it.
FailureReported ==
    [][pc # "done" /\ play_err # "ok" =>
          play_err' # "ok" /\ (pc' = "done" => result' # "ok")]_vars

\* Every reply is played to an end.
StreamEnds == pc = "init" ~> pc = "done"
=============================================================================
