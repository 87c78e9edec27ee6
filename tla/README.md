# Verification of the ESP32-S3 voice assistant firmware

TLA+ models of the firmware in `src/`, model-checked with TLC and partly proved
with TLAPS. Source references are to `src/`; `main.c`, `audio_io.c`,
`es8388_hw.c`, `xl9555.c` and `esp_websocket_client.c` need no longer path.
`PROJECT.json` maps every definition to its lines.

## 1. Inventory

The device waits for a key, streams the microphone over a WebSocket to a
server, receives a JSON reply, and plays the MP3 the reply points to. It runs
on FreeRTOS with two cores. Tasks: the main task (`app_main`, key loop), one
voice task per session, the background audio task, the WebSocket client's own
task, and the system event loop (Wi-Fi events).

| Component | State it keeps | Operations | Interacts with |
| --- | --- | --- | --- |
| Application (`main.c` 832-928, 1009-1128) | previous key levels, servo angle, `s_voice_task_running` | boot, key loop, `voice_chat_task` | creates voice tasks; calls every driver |
| Voice session (`main.c` 438-667) | a context on the stack, reply buffer, event group, client handle | `voice_stream_pcm_websocket`, the event handler | WebSocket client (calls one way, callbacks from its task the other), microphone, KEY2 |
| Reply playback (`main.c` 669-830) | HTTP client, PCM stream, stream buffer, counters | `voice_stream_mp3_url` | HTTP client, minimp3, audio_io |
| Wi-Fi station (`main.c` 930-1007) | retry count, event group | two event handlers, the wait at boot | Wi-Fi driver through events |
| WebSocket client (`esp_websocket_client.c`) | connection state, `run`, status bits, one recursive lock, a one-place event queue; the blocks of memory behind its handle | its task; init, set_uri, append_header, start, send, stop, destroy | the application's calls and handler |
| Audio at run time (`audio_io.c` 59-210, 352-611) | `s_playing`, `s_stream_active`, saved flag, transmitter mutex | `audio_task`; set_playing, begin, write, end | ES8388, XL9555, I2S driver |
| Audio initialisation (`audio_io.c` 212-350) | ready flags, channels, mutex, task | `audio_io_init` | ES8388, I2S driver |
| ES8388 driver (`es8388_hw.c`) | bus address; the chip's registers | init, mute | I2C |
| XL9555 driver (`xl9555.c`) | output shadow; the chip's latch and directions | init, pin_write, pin_read | I2C; restarts the processor |
| I2C bus (`iic.c`) | the installed driver | `iic_init`, `i2c_transfer` | both chips' drivers |
| MP3 decoder (`minimp3.h`, vendored) | the header of the last frame, the bit reservoir | `mp3dec_init`, `mp3dec_decode_frame` | called by the reply playback |
| Servo, WS2812B, LED group, board pins | little or none | thin wrappers | IDF drivers |

What is hard in it:

- **Two tasks in one client.** The handler runs in the client's task and uses
  memory of the voice task; stop and destroy wait without timeout; the event
  queue is drained by whichever task posted; a send checks the connection
  without the lock it then takes.
- **Flags without locks.** `s_stream_active`, `s_playing` and
  `s_voice_task_running` are plain variables read and written by two tasks.
- **Failures half way.** Every allocation, transfer and creation may fail, and
  each function has its own way back.
- **Chips that outlive the processor.** Codec and expander keep their registers
  over a restart, and a failed transfer may have reached them.
- **Timeouts and retries.** The client reconnects by itself, the station retries
  twenty times, the expander driver three times before it restarts the device.
- **Moving windows.** Reply and MP3 stream are put together from chunks of any
  size in buffers that must not be overrun; the decoder finds its frames in
  whatever window it is given, and a frame may need bytes of those before it.
- **Pieces of pieces.** A message goes out in frames, with other tasks sending on
  the same connection; a frame of sound goes out in blocks at another rate.

What makes each part correct is stated with the module below; `hazards` in
`PROJECT.json` lists where each can go wrong and which property would tell.

## 2. Modules

```
Transmitter  <=implements=  AudioIO  <- AudioIOProofs
WsClient              <- VoiceSession <- VoiceSessionProofs
WsSend, ReplyBuffer   <- WsMessages   <- WsMessagesProofs
WsHandle                              <- WsMessagesProofs
Mp3Stream, Resampler  <- Mp3Playback  <- Mp3PlaybackProofs
Mp3Decoder            <- Mp3DecoderProofs
AudioInit             <- VoiceApp     <- VoiceAppProofs
Xl9555, Es8388 (INSTANCE) <- Board    <- BoardProofs
WifiSta                               <- WifiStaProofs
```

`<-` is EXTENDS. Every `MC...` module gives its module to TLC. Definitions whose
comment begins "Mutant:" are bugs the code could have had; no specification uses
them. They stand beside the definition they replace, and each property fails
when its mutant does.

**AudioIO** — the background task and one client. Program counters `bg_pc` and
`app_pc` name the next load, store, mutex operation or I2C transfer, each a step
of its own; `amp` and `dac_muted` are the two chips; `late_writes` and
`late_tones` count background buffers begun after a flag changed. Buffers are
kept only as tone or silence.

**Transmitter** — what audio_io promises: one writer at a time; from the moment a
session is asked for at most one more background buffer; none while it is open.
AudioIO implements it with the mapping at the end of AudioIO.tla.

**WsClient** — the client's task line by line as far as locks, state, status bits
and events go, and start, send, stop and destroy as the firmware calls them. The
network is a nondeterministic choice at connect, poll, read and write. A message
is its opcode and its length in bytes, read up to a receive buffer at a time.
`disp` holds, per task, where its dispatch of an event is, since posting, draining
and handling are separate steps of whichever task does them. An abort is two steps
in either task (`AbortClose`, `AbortTell`): the transport is closed (line 269)
before the state says so (line 277), and a send that looks at the state without
the lock (line 694) may come between.

**VoiceSession** — the voice task's calls in order, what it owns, and the event
handler, over WsClient. `server` is what the peer has seen. `reply` is the message
in the reply buffer, how many of its bytes the buffer of `ReplyCap` has taken and
whether it was cut. After a session returns the next may begin (`Again`).

**WsSend** — the loop of `esp_websocket_client_send_with_exact_opcode` (`call`:
per task the bytes sent, the opcode and where it is) with any number of senders,
against a connection that is made, lost and closed by the client's task between
the unlocked test and the lock. A frame is the part of its message that it
carries; `wire` is what the server can put together. **ReplyBuffer** — the
handler's DATA branch with bytes counted against the buffer's capacity.
**WsMessages** puts the two under the one lock that they share.

**WsHandle** — for each pointer of the client handle, where it points and how
many blocks allocated for it are alive. A call (`Calls`) is the list of its steps
in the code's order: `New` is an allocation, `Renew` one behind the free of what
was there, `Drop` a free, `Check` a test that may fail, each with the members of
the configuration (`given`) or the parts of the URI (`parts`) without which it is
left out. `step` is the place in the list. Every allocation may fail, and then the
call's own way out runs (`GiveUp`).

**Mp3Stream** — the download and decode loops over a buffer of which only the
number of bytes is kept; the body is a run of frames, its end possibly torn.
`owned` is what the function must give back. **Resampler** — one call of
`audio_io_playback_write_pcm`: which source frame each output frame is taken
from, block by block. **Mp3Playback** — Mp3Stream with its write step replaced by
the Resampler's blocks; it implements Mp3Stream.

**Mp3Decoder** — how `mp3dec_decode_frame` finds a frame (the chain of headers of
one kind behind a candidate, with the windows the caller gives), and how the bit
reservoir is filled, cut, used and dropped. Bytes of main data are numbered, so
that the reservoir's content tells where it came from. Mp3Stream takes from it
that a whole frame with its successor's header is found and that nothing shorter
than a frame is; FindsWhatStreamAssumes proves that.

**AudioInit**, **VoiceApp** — the ladder of audio_io_init with a failure at each
rung, then the key loop against the voice tasks. A recording and a playback are
one step each there; their insides are VoiceSession and Mp3Stream, whose
termination is VoiceApp's fairness.

**Es8388**, **Xl9555** — the drivers together with their chip. A transfer can
fail before or after the chip took it; a restart leaves the chip as it is.
**Board** — app_main's order of them on one bus (`iic_init`, the expander, the
codec, then what audio_io asks of both), with restarts anywhere: what neither
driver can promise alone is that a boot makes no sound once the expander has
acknowledged a transfer and as long as it acknowledges them.

**WifiSta** — the two event handlers, the event queue, the wait at boot, and an
external driver that posts events in the order the handlers rely on.

## 3. Runs

| Run | Configuration | Shows |
| --- | --- | --- |
| `audio_io` | both arguments of set_playing, history counters to 3 | never two writers; the play flag survives all streams and timeouts; amplifier and codec follow the mode unless their transfer failed; Transmitter is implemented; the background task resumes |
| `voice_session` | messages up to 3 bytes, receive buffer 2, reply buffer 3 with its NUL, polite server, prompt start | no handler runs on freed memory; nothing leaked; lock discipline; where CONNECTED may be stale; a reply is the beginning of one text that answers the end marker, and all of it unless it is longer than the buffer; sessions end, so no stop waits for ever |
| `voice_reply` (violation) | any server | a reply need not be the answer |
| `ws_messages` | two senders, buffer 2, messages of 0, 2, 3 and 4 bytes; reply buffer 3, replies to 4 | frames written whole form messages; success means all was sent, and nothing follows a message broken off; the reply buffer holds one message and reports its cut; announced when complete |
| `ws_handle` | six members of the configuration, every shape of URI, one redirect beyond it | no dangling or twice freed pointer and no missing part, whatever allocation fails; destroy gives all back but two known leaks |
| `mp3_stream` | buffer 14, chunks 5, frames 4, body to 22; five kinds of sound at four rates | bounds; all released; each whole frame is decoded; sound keeps its time and its length; failures reach the caller; termination |
| `mp3_decoder` | all streams to 5 bytes, damaged runs of frames to 9 | the reservoir stays in range; a frame is decoded with its own bytes; silence only behind a gap; a clean stream is decoded whole, wherever it is cut |
| `es8388_registers` (violation) | chip at the first address | what is written under one register name is overwritten under another |
| `board` | 3 retries, codec at the second address | expander and codec configured behind their inits; latch as the shadow; a silent boot while the expander acknowledges; boots when the bus works |
| `voice_app` | two stacks, failing key reads | channels are used only when enabled; one session; exact busy flag; it always falls |
| `phantom_key` (violation) | failing key reads | a recording without a press |
| `wifi_sta` | 20 retries, 3 events | never idle silently; all retries for each outage; gives up and tells |

**Bounds and why they are enough.** In the session's run a message of up to three
bytes is read at most two at a time, in one, two or three events, into a buffer
with room for two and the NUL: a reply is shorter than the buffer, fills it
exactly, or is cut, before its last event or in the middle of it. The proofs hold for
buffers and messages of any length. The event queue has the code's own size, 1.
Histories saturate one above the value the property allows. The stream buffer
holds three frames and a bit, so a frame straddles its end, is moved to its front,
and is torn at the end of the body, and more than one whole frame is still
buffered when the body ends; body and reply exceed their buffers. Sounds are
played faster, slower and as they are, in two blocks or three, one of them shorter
than an output frame. Messages sent are empty, fill the buffer exactly, need a
frame more, and fill two; with two senders one waits for the lock while the other
loses the connection. `MaxBlocks` of WsHandle only stops a second redirect. The
decoder's sizes are scaled down together: two bits to a byte, a reservoir of two
bytes, a chain of two headers, so that the reservoir is cut, too short and empty,
and the chain reaches past the window. The codec at the second address makes the
first attempt fail in every way. Two stacks let a finished task coexist with its
successor, the most the busy flag allows. The driver can post three events before
it needs another connect. Retries are the code's values. The run of the session
assumes a polite server, which only ReplyAnswersMarker needs, and prompt
scheduling, which only SessionEnds needs: its other properties are proved without
either.

**Fairness.** AudioIO: both tasks run (equal priority, blocking calls have
timeouts); when the client starts a call is free. VoiceSession: both tasks run;
strong fairness of the lock because each task leaves it for a socket or
microphone wait between uses and FreeRTOS hands mutexes over by priority; a
message under way goes on or fails, a peer that stalls inside one being bounded
only by the transport's timeout. `PromptStart` says that a task made ready
reaches its loop before its creator has gone through a connection or waited ten
seconds; without it stop can overtake the start and hang (line 1440 of the client
clears STOPPED after the task was created). Mp3Playback: the function runs, reads
and writes return. VoiceApp: main and voice tasks run. Board: app_main runs,
transfers and delays return; that the driver installs, the bus comes back and
the restarts from outside end is a hypothesis of the property. WifiSta: the
handlers run, the driver gets through to an access point that stays and notices
one that has gone.

Two runs switch the deadlock check off: a decoder ends with its stream and a
handle with destroy.

## 4. Findings

- `voice_reply` — the response bit is sticky and set by any data event of any
  opcode: an early frame is returned as the reply (main.c:486 against the message
  at main.c:642).
- `es8388_registers` — DACCONTROL24 and DACCONTROL25 are defined as 0x08, the
  number of MASTERMODE, although line 9 says that the numbers are the data sheet's,
  and they stand between 0x2d and 0x30. What lines 156 and 157 mean for the output
  volumes goes to MASTERMODE, over the 0x00 of line 143, and those volumes are
  never written (es8388_hw.c:9, 33-34, 143, 156-157). Whether the codec is slave or
  master is not affected: the bit that decides is clear in 0x1e too.
- `phantom_key` — a failed key read returns a bit of uninitialised memory and can
  start a recording (xl9555.c:109-119 against main.c:1026).

Remarks, which promise nothing that a run could refute, or are not reached by this
firmware:

- After the last Wi-Fi retry nothing reconnects, ever (main.c:946-949), although
  main.c:1036 announces uploads that fail "until network is ready".
- SERVO_3 moves to 15 degrees at boot without KEY0, because its previous level
  starts as 0 (main.c:1061 against 操控文档.md:89).
- While the client is CLOSING, a failed send does not take the connection down
  (abort_connection leaves a CLOSING connection alone, line 263), so that a second
  task which waits for the lock may send a message behind a broken one
  (esp_websocket_client.c:694, 749-758). WsSend's properties hold until the
  server's CLOSE. This firmware has one sender.
- A host given beside an URI is lost (esp_websocket_client.c:374), and so is the
  copy of an URI's credentials when the user name or the password finds no memory
  (lines 993 and following). AllGivenBack names them, the second only for a call
  that really broke off there. This firmware gives neither.
- The last esp_transport_close of the client's task (esp_websocket_client.c:1407)
  is made without the lock. After a CLOSE of the server's it may overlap a send
  that passed its check before. What the transport does then is not modelled.
- A reply of 4096 bytes or more is cut to 4095; this is logged, and the cut text
  is returned as the reply (main.c:474-479, 652-657). ReplyAnswersMarker says so.
- The handler does not look at `fin`: of a reply in two WebSocket frames the
  second overwrites the first (main.c:469). A piece is a whole message in
  ReplyBuffer.

操控文档.md also describes an older program in places where no run is needed to
see it: KEY2 as a toggle of a sound test (line 40), KEY1 for SERVO_1 (line 89),
and SPK_EN active high (lines 29 and 72), where the code drives it low to enable.

## 5. Proofs

All theorems hold for every value of the constants their modules assume.

- **AudioIOProofs.** The inductive invariant adds to the checked invariants what
  each program counter knows: which flags a call in progress has set, what is
  saved, and that a late buffer is only counted with a snapshot taken before the
  flag. From it: types, TxExclusive, MutexMatchesHolder, the bounds on late
  buffers, PlayFlagPreserved, and the refinement of Transmitter, step by step. For
  OutputFollowsMode it says besides what the call in progress has put in each
  chip by now.
- **WsMessagesProofs.** For every capacity, any number of senders and messages of
  any length. Receiving: bounds, one message at a time, announcement only of
  complete messages; every step of the composition is one of ReplyBuffer or leaves
  it alone. Sending: the invariant says who holds the lock by where each call is,
  that in the middle of a message the last frame ends where the holder's progress
  stands, and that otherwise the wire is finished unless the connection is not the
  one the message was begun on. The handle: for every configuration, URI and
  number of redirects, NoDanglingPointer and AllGivenBack. The invariant
  (`HandleInv`) counts blocks: a pointer is NULL with none or points to its only
  one, but for the two that leak; a userinfo is there only between its two places
  in set_uri (`InHand`), unless a call broke off in between. While a handle is
  made it adds which pointers the steps so far have set (`Place`), since `destroy`
  frees the strings only through `config`, and while it is started which
  transports there are. Each list of steps is first described entry by entry
  (`InitFact`, `StartList`, `RedirectFact`), and the proof of a step speaks of any
  entry so described. The handle is a specification of its own (HandleSpec) and
  shares no variable with the messages; it is proved there because it belongs to
  the same component.
- **Mp3PlaybackProofs.** Of the stream: no read overruns the buffer, everything
  is released, every whole frame of what was read is decoded when the download
  ends by itself, failures are told. The invariant relates the program counter to
  what is owned and the fill level to the room the loop leaves, and accounts for
  all bytes: `total_read = decoded * FrameSize + have + dropped`, from which the
  number of frames follows by a lemma about the quotient. Assumptions: a frame,
  the next header and one chunk fit the buffer, as 16384 bytes do, and a header
  fits in a frame. Of the sound, for all rates and block sizes: the frame heard
  at a time is the one that sounds then, and the length is right to an output
  frame; here the invariant says that `played` is the resampling function cut at
  `out_pos`. The playback implements the stream, so what holds of the stream
  holds of it. A reply ends because `Remaining` falls with every step: a byte not
  yet read weighs five, one in the buffer four, and the rest says how far a turn of
  the loop is. It needs that the decoder is never called with an empty buffer.
- **Mp3DecoderProofs.** For streams, header sets and sizes of any kind: the
  reservoir stays in range, holds the last bytes of main data before the frame,
  and a silent frame begins before the gap. The invariant says that the reservoir
  is a suffix of what was given since the decoder was cleared, and how long it is
  least when all frames so far were an encoder's; for this the search is used only
  through its type, and frames may be found anywhere. CleanStreamDecoded is about
  the search itself: behind the header of a clean stream's frame the next ones
  follow at its distance, so that the first position from which the chain holds,
  the least one by a well-founded induction over positions, is the frame's own
  whenever it and the next header are in the window. The invariant (`Aligned`)
  says that from the first frame on the decoder stands at a frame's start with the
  header of the last one kept, and that exactly the frames before it were taken.
  It needs that no frame is shorter than its header, which no combination of bit
  rate, sample rate and layer gives (minimp3.h:301-309).
  The same search gives what Mp3Stream takes for granted, about a buffer that begins
  with a frame of a run (FindsWhatStreamAssumes), and that a run torn at its end has
  exactly its whole frames taken (TornRunDecoded).
- **VoiceAppProofs.** For any number of tasks and with failing reads: the flags of
  audio_io_init tell the truth, the busy flag is exact, one session at a time.
  The strengthening is the ladder (what each rung of audio_io_init implies), that
  no task exists before the loop and none is in a session while one is created.
- **VoiceSessionProofs.** For messages of any length, any scheduling
  (`PromptStart` or not) and any server: types, LockDiscipline,
  ConnectedMeansOpen, NoUseAfterFree, NothingLeaked and DataHandledByClientTask.
  ConnectedMeansOpen names the two places where the state still says CONNECTED of
  a closed connection: inside an abort, whose task has the lock, and while the
  client's task goes down under stop or destroy.
  The invariant has four parts. Life: what the session owns by where it is, which
  call is made from where, and that STOPPED, once start has cleared it, is in the
  status bits only after the client's task has made its last step, so that
  whoever passes destroy's wait may free. Lock: who holds it, by program counter.
  Data: a DATA event is in the queue only while the client's task, holding the
  lock, drains it, and the voice task drains only under the lock. Run: the run
  flag falls only under stop, destroy or the close handshake. Every step is either
  one of the client, with what the session owns unchanged, or one of the session,
  which the client sees as a call, a new handle or nothing.
  For ReplyAnswersMarker, under the assumption `Polite` about the server but under
  any scheduling, there is a second invariant: one marker is sent in a session and
  a connection made anew has not read it, so that there is one text at most; the
  handler has had every piece of it but the one on its way, so that the buffer
  holds as much of them as it has room for and says whether that was all;
  RESPONSE is only up when it had every piece. This holds for buffers of any size,
  the reply's and the receive buffer.
  Under `PromptStart` a third one (`WaitInv`) says that a task that is over has told
  and will not be untold, that whoever posted an event is about to take one, and
  that the task is past its first line when stop is called. So no wait without a
  timeout is for a task that waits itself or is gone (NobodyWaitsForEver). While
  stop or destroy waits `Way`, `Rest` and `Stage`, in this order, fall with every
  step of the client's task that is not a stalled read (StopReturns).
- **BoardProofs.** For any number of retries, restarts anywhere and the codec at
  either address: LatchFollowsShadow, BootedConfigured, QuietBoot, which speaks of
  boots whose last transfer to the expander was acknowledged. The invariant
  says that the shadow keeps the amplifier's pin high until audio_io may ask for
  it and that the latch is the shadow when the last write was acknowledged. Of the
  codec's sequence it uses only the length, the first entry, which mutes, and that
  no other entry writes that register. On a working bus `BootLeft`, at most 90,
  falls with every step of the boot.
- **WifiStaProofs.** For any number of retries: NeverIdleSilently and
  GivesUpOnlyAfterAll. The invariant says that an event that makes the station go
  on (STA_START or DISCONNECTED) is the last in the queue exactly while the link is
  idle, and that the retries counted were made. While the access point stays away
  every step lowers, in this order, the starts, the place of the last GOT_IP in the
  queue, the retries, the link and the events left (Settles).

Some theorems belong to no run's property: the types of each module, the place
of the transmitter mutex and the bounds on late buffers. As properties of a run
they would repeat what the others need anyway.

Only model-checked: all liveness (BackgroundResumes, SessionEnds, StreamEnds,
BusyFlagFalls, BootsWhenBusWorks, GivesUp), which the prover cannot derive from
fairness, and that a step is possible where one is needed (ENABLED). Proved for all
sizes is the other half of four of them: that every step lowers a measure
(RepliesEnd and BlocksEnd, BootEnds, Settles, and StopReturns for the waits of
SessionEnds). Every invariant and every action property of the passing runs is
proved.

## 6. Not modelled, and why

- The inside of minimp3 beyond frames and reservoir: Huffman decoding,
  transforms and the search for the size of free-format frames are arithmetic
  without state between frames.
- Of the client: pause, resume, close with a code, destroy_on_exit and the
  setters and getters of single numbers, which nobody calls; the separate
  transmit lock and dynamic buffers, which the build leaves out.
- The call that pairs `frame_bytes == 0` with skipping a byte (main.c:783-792):
  the vendored decoder never returns 0 for a non-empty buffer
  (minimp3.h:1704-1735).
- A body cut short by the server reads as its end; content_len is not compared.
  The code reports ESP_OK, and no property says otherwise.
- WAV and HTTP upload helpers (main.c:150-391), `json_ok_true`, `mic_read_pcm`,
  `play_pcm` and `xl9555_key_scan`: nobody calls them.
- `json_get_string`, tone synthesis, the scaling of microphone samples, the duty
  of a servo angle: pure formatting of data that no property distinguishes.
- WS2812B, LED group and board pins: straight-line writes from one task with
  nothing that waits for them or reads them back.
- The IDF drivers and I2C timing.

## 7. Plan

Done, in this order: AudioIO with Transmitter and proofs; WsClient and
VoiceSession with proofs; ReplyBuffer and proofs; Mp3Stream and proofs; Es8388;
AudioInit and VoiceApp with proofs; Xl9555; WifiSta; Mp3Decoder and proofs;
Resampler, Mp3Playback and proofs; WsSend, WsMessages and proofs; WsHandle and
proofs; Board and proofs; the proofs of WifiSta.

Next:

1. Proofs: a measure for the rest of a session, and for the time a background
   block waits for the mutex.
2. Models: messages of more than one WebSocket frame in VoiceSession, the ping
   timeouts.
