------------------------------ MODULE AudioIO ------------------------------
(***************************************************************************)
(* The run-time half of components/audio_io: the background task that      *)
(* keeps the I2S transmitter fed (audio_task) and the calls one client     *)
(* task makes into it (audio_io_set_playing, audio_io_playback_begin,      *)
(* audio_io_playback_write_pcm, audio_io_playback_end), once               *)
(* audio_io_init has succeeded.                                            *)
(*                                                                         *)
(* The two tasks share plain flags and one FreeRTOS mutex.  Every load and *)
(* store of a shared flag, every mutex operation and every I2C write is a  *)
(* step of its own, so that all their interleavings are explored.          *)
(* Sample values are left out: what is kept of a buffer is only whether it *)
(* carries tone (s_playing was seen TRUE) or silence.                      *)
(***************************************************************************)
EXTENDS Naturals

CONSTANTS
    PlayRequests,   \* arguments audio_io_set_playing is called with
    LateCap         \* where the two history counters saturate

ASSUME PlayRequestsAssumption == PlayRequests \subseteq BOOLEAN
ASSUME LateCapAssumption == LateCap \in Nat \ {0, 1}

VARIABLES
    s_playing,             \* tone requested (volatile flag read by audio_task)
    s_stream_active,       \* a PCM stream owns the transmitter
    s_stream_old_playing,  \* s_playing as playback_begin found it
    s_tx_mutex,            \* holder of the transmitter: "none", "bg", "app"
    bg_pc,                 \* where audio_task is
    bg_play,               \* its local snapshot of s_playing
    app_pc,                \* where the client's call is
    req,                   \* the argument of the audio_io_set_playing call
    amp,                   \* TRUE: SPK_EN is low, the amplifier is powered
    dac_muted,             \* ES8388 DACCONTROL3 mute bit
    amp_ok,                \* history: the last SPK_EN write was acknowledged
    dac_ok,                \* history: the last mute update was acknowledged
    wanted,                \* history: argument of the last completed set_playing
    late_writes,           \* history: background writes begun since the stream flag rose
    late_tones             \* history: tone buffers begun since s_playing fell

flags   == <<s_playing, s_stream_active, s_stream_old_playing>>
chips   == <<amp, dac_muted, amp_ok, dac_ok>>
history == <<wanted, late_writes, late_tones>>
bg      == <<bg_pc, bg_play>>
app     == <<app_pc, req>>
vars    == <<flags, s_tx_mutex, bg, app, chips, history>>

BgStates  == {"check", "snapshot", "take", "write"}
AppStates ==
    {"idle", "set_amp", "set_flag", "set_mute",
     "begin_active", "begin_amp", "begin_unmute", "begin_take",
     "timeout_active", "streaming", "pcm_write", "end_active", "end_give",
     "restore_mute", "restore_amp", "restore_flag"}

TypeOK ==
    /\ s_playing \in BOOLEAN /\ s_stream_active \in BOOLEAN
    /\ s_stream_old_playing \in BOOLEAN
    /\ s_tx_mutex \in {"none", "bg", "app"}
    /\ bg_pc \in BgStates /\ bg_play \in BOOLEAN
    /\ app_pc \in AppStates /\ req \in BOOLEAN
    /\ amp \in BOOLEAN /\ dac_muted \in BOOLEAN
    /\ amp_ok \in BOOLEAN /\ dac_ok \in BOOLEAN
    /\ wanted \in BOOLEAN
    /\ late_writes \in 0..LateCap /\ late_tones \in 0..LateCap

(***************************************************************************)
(* audio_io_init has returned ESP_OK: nothing plays, the amplifier is off; *)
(* its final es8388_hw_mute(true) may have failed, its result is ignored.  *)
(***************************************************************************)
Init ==
    /\ s_playing = FALSE /\ s_stream_active = FALSE
    /\ s_stream_old_playing = FALSE
    /\ s_tx_mutex = "none"
    /\ bg_pc = "check" /\ bg_play = FALSE
    /\ app_pc = "idle" /\ req = FALSE
    /\ amp = FALSE /\ amp_ok = TRUE
    /\ dac_ok \in BOOLEAN /\ dac_muted \in BOOLEAN /\ (dac_ok => dac_muted)
    /\ wanted = FALSE
    /\ late_writes = 0 /\ late_tones = 0

Bump(n) == IF n < LateCap THEN n + 1 ELSE n

-----------------------------------------------------------------------------
(* The two chips.  A failed transfer may or may not have reached the chip. *)

\* xl9555_pin_write(SPK_EN_IO, ...): the result is never looked at.
SpkEn(on) ==
    \/ amp' = on /\ amp_ok' = TRUE
    \/ amp' \in {amp, on} /\ amp_ok' = FALSE

\* es8388_hw_mute(s_i2c, m): read-modify-write of one bit, errors only logged.
Mute(m) ==
    \/ dac_muted' = m /\ dac_ok' = TRUE
    \/ dac_muted' \in {dac_muted, m} /\ dac_ok' = FALSE

-----------------------------------------------------------------------------
(* audio_task *)

BgCheck ==     \* while a stream is active the task sleeps 5 ms and looks again
    /\ bg_pc = "check" /\ ~s_stream_active
    /\ bg_pc' = "snapshot"
    /\ UNCHANGED <<flags, s_tx_mutex, bg_play, app, chips, history>>

BgSnapshot ==  \* play = s_playing; the buffer is filled from the snapshot
    /\ bg_pc = "snapshot"
    /\ bg_play' = s_playing
    /\ bg_pc' = "take"
    /\ UNCHANGED <<flags, s_tx_mutex, app, chips, history>>

\* Mutant: the result of xSemaphoreTake is ignored.
BgTakeIgnored ==
    /\ bg_pc = "take"
    /\ s_tx_mutex' = "bg"
    /\ bg_pc' = "write"
    /\ UNCHANGED <<flags, bg_play, app, chips, history>>

BgTake ==
    /\ bg_pc = "take" /\ s_tx_mutex = "none"
    /\ s_tx_mutex' = "bg"
    /\ bg_pc' = "write"
    /\ late_writes' = Bump(late_writes)
    /\ late_tones' = IF bg_play THEN Bump(late_tones) ELSE late_tones
    /\ UNCHANGED <<flags, bg_play, app, chips, wanted>>

BgTakeTimeout ==   \* 20 ms without the mutex: drop the buffer
    /\ bg_pc = "take" /\ s_tx_mutex # "none"
    /\ bg_pc' = "check"
    /\ UNCHANGED <<flags, s_tx_mutex, bg_play, app, chips, history>>

BgWrite ==         \* the write returns, ESP_OK or not; the mutex is given back
    /\ bg_pc = "write"
    /\ s_tx_mutex' = "none"
    /\ bg_pc' = "check"
    /\ UNCHANGED <<flags, bg_play, app, chips, history>>

BgNext == BgCheck \/ BgSnapshot \/ BgTake \/ BgTakeTimeout \/ BgWrite

-----------------------------------------------------------------------------
(* audio_io_set_playing *)

SetPlaying(play) ==
    /\ app_pc = "idle"
    /\ req' = play
    /\ app_pc' = "set_amp"
    /\ UNCHANGED <<flags, s_tx_mutex, bg, chips, history>>

SetAmp ==
    /\ app_pc = "set_amp"
    /\ SpkEn(req)
    /\ app_pc' = "set_flag"
    /\ UNCHANGED <<flags, s_tx_mutex, bg, req, dac_muted, dac_ok, history>>

SetFlag ==
    /\ app_pc = "set_flag"
    /\ s_playing' = req
    /\ late_tones' = IF s_playing /\ ~req THEN 0 ELSE late_tones
    /\ app_pc' = "set_mute"
    /\ UNCHANGED <<s_stream_active, s_stream_old_playing, s_tx_mutex, bg, req,
                   chips, wanted, late_writes>>

SetMute ==
    /\ app_pc = "set_mute"
    /\ Mute(~req)
    /\ wanted' = req
    /\ app_pc' = "idle"
    /\ UNCHANGED <<flags, s_tx_mutex, bg, req, amp, amp_ok, late_writes, late_tones>>

-----------------------------------------------------------------------------
(* audio_io_playback_begin *)

Begin ==           \* the flag checks, then s_playing saved and cleared
    /\ app_pc = "idle" /\ ~s_stream_active
    /\ s_stream_old_playing' = s_playing
    /\ s_playing' = FALSE
    /\ late_tones' = IF s_playing THEN 0 ELSE late_tones
    /\ app_pc' = "begin_active"
    /\ UNCHANGED <<s_stream_active, s_tx_mutex, bg, req, chips, wanted, late_writes>>

BeginActive ==
    /\ app_pc = "begin_active"
    /\ s_stream_active' = TRUE
    /\ late_writes' = 0
    /\ app_pc' = "begin_amp"
    /\ UNCHANGED <<s_playing, s_stream_old_playing, s_tx_mutex, bg, req, chips,
                   wanted, late_tones>>

BeginAmp ==
    /\ app_pc = "begin_amp"
    /\ SpkEn(TRUE)
    /\ app_pc' = "begin_unmute"
    /\ UNCHANGED <<flags, s_tx_mutex, bg, req, dac_muted, dac_ok, history>>

BeginUnmute ==
    /\ app_pc = "begin_unmute"
    /\ Mute(FALSE)
    /\ app_pc' = "begin_take"
    /\ UNCHANGED <<flags, s_tx_mutex, bg, req, amp, amp_ok, history>>

\* Mutant: the result of xSemaphoreTake is ignored.
BeginTakeIgnored ==
    /\ app_pc = "begin_take"
    /\ s_tx_mutex' = "app"
    /\ app_pc' = "streaming"
    /\ UNCHANGED <<flags, bg, req, chips, history>>

BeginTake ==
    /\ app_pc = "begin_take" /\ s_tx_mutex = "none"
    /\ s_tx_mutex' = "app"
    /\ app_pc' = "streaming"
    /\ UNCHANGED <<flags, bg, req, chips, history>>

BeginTimeout ==    \* 3 s without the mutex: ESP_ERR_TIMEOUT
    /\ app_pc = "begin_take" /\ s_tx_mutex # "none"
    /\ app_pc' = "timeout_active"
    /\ UNCHANGED <<flags, s_tx_mutex, bg, req, chips, history>>

\* Mutant: the timeout path returns without undoing the preparations.
TimeoutReturns ==
    /\ app_pc = "timeout_active"
    /\ s_stream_active' = FALSE
    /\ app_pc' = "idle"
    /\ UNCHANGED <<s_playing, s_stream_old_playing, s_tx_mutex, bg, req, chips, history>>

TimeoutActive ==
    /\ app_pc = "timeout_active"
    /\ s_stream_active' = FALSE
    /\ app_pc' = "restore_mute"
    /\ UNCHANGED <<s_playing, s_stream_old_playing, s_tx_mutex, bg, req, chips, history>>

-----------------------------------------------------------------------------
(* audio_io_playback_write_pcm and audio_io_playback_end *)

WritePcm ==        \* hand one chunk to i2s_channel_write
    /\ app_pc = "streaming" /\ s_stream_active
    /\ app_pc' = "pcm_write"
    /\ UNCHANGED <<flags, s_tx_mutex, bg, req, chips, history>>

WritePcmDone ==    \* it returns, ESP_OK or not; the client writes on or ends
    /\ app_pc = "pcm_write"
    /\ app_pc' = "streaming"
    /\ UNCHANGED <<flags, s_tx_mutex, bg, req, chips, history>>

End ==
    /\ app_pc = "streaming" /\ s_stream_active
    /\ app_pc' = "end_active"
    /\ UNCHANGED <<flags, s_tx_mutex, bg, req, chips, history>>

EndActive ==
    /\ app_pc = "end_active"
    /\ s_stream_active' = FALSE
    /\ app_pc' = "end_give"
    /\ UNCHANGED <<s_playing, s_stream_old_playing, s_tx_mutex, bg, req, chips, history>>

\* Mutant: the mutex is not given back.
EndGiveForgotten ==
    /\ app_pc = "end_give"
    /\ app_pc' = "restore_mute"
    /\ UNCHANGED <<flags, s_tx_mutex, bg, req, chips, history>>

EndGive ==
    /\ app_pc = "end_give"
    /\ s_tx_mutex' = "none"
    /\ app_pc' = "restore_mute"
    /\ UNCHANGED <<flags, bg, req, chips, history>>

\* Mutant: the polarity of the saved flag is wrong.
RestoreMuteInverted ==
    /\ app_pc = "restore_mute"
    /\ Mute(s_stream_old_playing)
    /\ app_pc' = "restore_amp"
    /\ UNCHANGED <<flags, s_tx_mutex, bg, req, amp, amp_ok, history>>

RestoreMute ==     \* the tail both the timeout and the end share
    /\ app_pc = "restore_mute"
    /\ Mute(~s_stream_old_playing)
    /\ app_pc' = "restore_amp"
    /\ UNCHANGED <<flags, s_tx_mutex, bg, req, amp, amp_ok, history>>

RestoreAmp ==
    /\ app_pc = "restore_amp"
    /\ IF s_stream_old_playing THEN UNCHANGED <<amp, amp_ok>> ELSE SpkEn(FALSE)
    /\ app_pc' = "restore_flag"
    /\ UNCHANGED <<flags, s_tx_mutex, bg, req, dac_muted, dac_ok, history>>

RestoreFlag ==
    /\ app_pc = "restore_flag"
    /\ s_playing' = s_stream_old_playing
    /\ app_pc' = "idle"
    /\ UNCHANGED <<s_stream_active, s_stream_old_playing, s_tx_mutex, bg, req,
                   chips, history>>

\* Steps of a call that has begun and runs to its end by itself.
AppContinue ==
    \/ SetAmp \/ SetFlag \/ SetMute
    \/ BeginActive \/ BeginAmp \/ BeginUnmute \/ BeginTake \/ BeginTimeout
    \/ TimeoutActive \/ WritePcmDone \/ EndActive \/ EndGive
    \/ RestoreMute \/ RestoreAmp \/ RestoreFlag

AppNext ==
    \/ \E play \in PlayRequests : SetPlaying(play)
    \/ Begin \/ WritePcm \/ End
    \/ AppContinue

Next == BgNext \/ AppNext

Spec == Init /\ [][Next]_vars

\* The scheduler runs both tasks, which have the same priority and block only
\* in calls with a timeout; when the client starts a call is its own business.
Fairness == WF_vars(BgNext) /\ WF_vars(AppContinue)
FairSpec == Spec /\ Fairness

-----------------------------------------------------------------------------
(* Properties *)

StreamStates == {"streaming", "pcm_write", "end_active", "end_give"}

\* Never two tasks inside i2s_channel_write: a PCM chunk is not interleaved
\* with a background buffer although audio_task tests s_stream_active without
\* the mutex.  (audio_io.c:160, 182, 491, 551)
TxExclusive == ~(bg_pc = "write" /\ app_pc = "pcm_write")

\* The transmitter mutex is held by the client exactly between a successful
\* playback_begin and playback_end, and by audio_task exactly around its write:
\* no path, the timeout of begin included, leaks it or gives it back twice.
MutexMatchesHolder ==
    /\ s_tx_mutex = "app" <=> app_pc \in StreamStates
    /\ s_tx_mutex = "bg" <=> bg_pc = "write"

\* audio_task works from flags it read before it got the mutex.  After
\* playback_begin raises s_stream_active at most one more background buffer
\* starts, so its wait for the mutex is one buffer long, not open-ended; after
\* s_playing falls at most one more tone buffer starts.
AtMostOneLate ==
    /\ s_stream_active => late_writes <= 1
    /\ ~s_playing => late_tones <= 1

\* Whatever sequence of streams, failed begins and set_playing calls ran, the
\* play flag between calls is what set_playing was last asked for.
PlayFlagPreserved == app_pc = "idle" => s_playing = wanted

\* Between calls the amplifier and the codec follow the play flag, and while
\* PCM is written both are open, unless the last transfer to that chip failed.
OutputFollowsMode ==
    /\ app_pc = "idle" => /\ amp_ok => (amp <=> s_playing)
                          /\ dac_ok => (dac_muted <=> ~s_playing)
    /\ app_pc = "pcm_write" => /\ amp_ok => amp
                               /\ dac_ok => ~dac_muted

(***************************************************************************)
(* What the component promises its client, module Transmitter, and how its *)
(* state is read off the code's: a session is open while the client holds  *)
(* the mutex and asked for while only the flag is up.                      *)
(***************************************************************************)
promisedSession ==
    IF s_tx_mutex = "app" THEN "open"
    ELSE IF s_stream_active THEN "asked" ELSE "closed"
promisedWriter ==
    IF bg_pc = "write" THEN "bg"
    ELSE IF app_pc = "pcm_write" THEN "stream" ELSE "none"
promisedLate == IF promisedSession = "asked" THEN late_writes ELSE 0

Promise == INSTANCE Transmitter
    WITH session <- promisedSession, writer <- promisedWriter, late <- promisedLate

\* audio_io.c implements the transmitter promised to its client: nobody else
\* writes during an open session and an asked-for session waits for one
\* background buffer at most.
ImplementsTransmitter == Promise!Spec

\* When no stream is active any more the background task writes again and
\* again: a lost mutex would silence the transmitter for good.
BackgroundResumes == <>[](~s_stream_active) => []<>(bg_pc = "write")
=============================================================================
