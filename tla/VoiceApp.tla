------------------------------ MODULE VoiceApp ------------------------------
(***************************************************************************)
(* app_main: audio_io_init, then the key loop, against the voice tasks it  *)
(* creates and the hand on the keys.  A voice task is followed from its    *)
(* creation to vTaskDelete; the recording and the playback in it are the   *)
(* modules VoiceSession and Mp3Stream, here one step each.                 *)
(***************************************************************************)
EXTENDS AudioInit, Naturals

CONSTANTS
    Tasks,     \* stacks there is memory for
    Flaky      \* may an I2C read of the keys fail?

ASSUME FlakyAssumption == Flaky \in BOOLEAN

AngleStep == 15
AngleMax  == 180
Keys      == {"KEY0", "KEY1", "KEY2"}     \* 1 released, 0 pressed

VARIABLES
    main_pc,                 \* where app_main is
    last,                    \* last_key0, last_key1, last_key2
    angle_s3,
    s_voice_task_running,
    task,                    \* where each voice task is
    key,                     \* the level of each key
    pressed1                 \* history: KEY1 was pressed
                             \* since the last recording was started

main  == <<main_pc, last, angle_s3>>
hand  == <<key, pressed1>>
vars  == <<initVars, main, s_voice_task_running, task, hand>>

TaskStates == {"none", "begin", "recording", "streaming", "finish", "exiting"}

TypeOK ==
    /\ InitTypeOK
    /\ main_pc \in {"boot", "key1", "create", "key0", "key2"}
    /\ last \in [Keys -> 0..1] /\ key \in [Keys -> 0..1]
    /\ angle_s3 \in {AngleStep * i : i \in 0..(AngleMax \div AngleStep)}
    /\ s_voice_task_running \in BOOLEAN
    /\ task \in [Tasks -> TaskStates]
    /\ pressed1 \in BOOLEAN

Init ==
    /\ InitAudio
    /\ main_pc = "boot"
    /\ last = [k \in Keys |-> IF k = "KEY0" THEN 0 ELSE 1]
    /\ angle_s3 = 0
    /\ s_voice_task_running = FALSE
    /\ task = [t \in Tasks |-> "none"]
    /\ key \in [Keys -> 0..1]
    /\ pressed1 = (key["KEY1"] = 0)

-----------------------------------------------------------------------------
(* The keys *)

Press(k) ==
    /\ key[k] = 1
    /\ key' = [key EXCEPT ![k] = 0]
    /\ pressed1' = (pressed1 \/ k = "KEY1")
    /\ UNCHANGED <<initVars, main, s_voice_task_running, task>>

Release(k) ==
    /\ key[k] = 0
    /\ key' = [key EXCEPT ![k] = 1]
    /\ UNCHANGED <<initVars, main, s_voice_task_running, task, pressed1>>

\* xl9555_pin_read: when the transfer fails the two bytes it returns a bit of
\* were never written.
PinRead(k) == IF Flaky THEN 0..1 ELSE {key[k]}

-----------------------------------------------------------------------------
(* app_main *)

BootAudio == main_pc = "boot" /\ AudioInitNext
             /\ UNCHANGED <<main, s_voice_task_running, task, hand>>

Booted ==          \* app_main goes on whatever audio_io_init returned
    /\ main_pc = "boot" /\ init_pc \in {"ok", "failed"}
    /\ main_pc' = "key1"
    /\ UNCHANGED <<initVars, last, angle_s3, s_voice_task_running, task, hand>>

FallingEdge(k, cur) == last[k] = 1 /\ cur = 0
RisingEdge(k, cur)  == last[k] = 0 /\ cur = 1

\* Mutant: the busy flag is not looked at.
Key1Blind ==
    /\ main_pc = "key1"
    /\ \E cur \in PinRead("KEY1") :
        /\ last' = [last EXCEPT !["KEY1"] = cur]
        /\ IF FallingEdge("KEY1", cur)
           THEN /\ s_voice_task_running' = TRUE
                /\ main_pc' = "create" /\ pressed1' = FALSE
           ELSE main_pc' = "key0" /\ UNCHANGED <<s_voice_task_running, pressed1>>
    /\ UNCHANGED <<initVars, angle_s3, task, key>>

Key1 ==            \* an edge while a voice task runs is dropped
    /\ main_pc = "key1"
    /\ \E cur \in PinRead("KEY1") :
        /\ last' = [last EXCEPT !["KEY1"] = cur]
        /\ IF FallingEdge("KEY1", cur) /\ ~s_voice_task_running
           THEN /\ s_voice_task_running' = TRUE
                /\ main_pc' = "create" /\ pressed1' = FALSE
           ELSE main_pc' = "key0" /\ UNCHANGED <<s_voice_task_running, pressed1>>
    /\ UNCHANGED <<initVars, angle_s3, task, key>>

CreateOk(t) ==
    /\ main_pc = "create" /\ task[t] = "none"
    /\ task' = [task EXCEPT ![t] = "begin"]
    /\ main_pc' = "key0"
    /\ UNCHANGED <<initVars, last, angle_s3, s_voice_task_running, hand>>

\* Mutant: the busy flag stays up when there is no task.
CreateFailedBusy ==
    /\ main_pc = "create"
    /\ main_pc' = "key0"
    /\ UNCHANGED <<initVars, last, angle_s3, s_voice_task_running, task, hand>>

CreateFailed ==    \* xTaskCreatePinnedToCore # pdPASS
    /\ main_pc = "create"
    /\ s_voice_task_running' = FALSE
    /\ main_pc' = "key0"
    /\ UNCHANGED <<initVars, last, angle_s3, task, hand>>

Turned == IF angle_s3 + AngleStep > AngleMax THEN AngleMax ELSE angle_s3 + AngleStep

Key0 ==
    /\ main_pc = "key0"
    /\ \E cur \in PinRead("KEY0") :
        /\ last' = [last EXCEPT !["KEY0"] = cur]
        /\ angle_s3' = IF RisingEdge("KEY0", cur) THEN Turned ELSE angle_s3
    /\ main_pc' = "key2"
    /\ UNCHANGED <<initVars, s_voice_task_running, task, hand>>

Key2 ==            \* here KEY2 is only logged; then the 10 ms delay
    /\ main_pc = "key2"
    /\ \E cur \in PinRead("KEY2") : last' = [last EXCEPT !["KEY2"] = cur]
    /\ main_pc' = "key1"
    /\ UNCHANGED <<initVars, angle_s3, s_voice_task_running, task, hand>>

MainNext ==
    \/ BootAudio \/ Booted \/ Key1 \/ (\E t \in Tasks : CreateOk(t)) \/ CreateFailed
    \/ Key0 \/ Key2

-----------------------------------------------------------------------------
(* voice_chat_task *)

Goes(t, from, to) == task[t] = from /\ task' = [task EXCEPT ![t] = to]

\* Mutant: the recording begins although the microphone is not ready.
CheckMicBlind(t) ==
    /\ Goes(t, "begin", "recording")
    /\ UNCHANGED <<initVars, main, s_voice_task_running, hand>>

CheckMic(t) ==     \* after audio_io_set_playing(false)
    /\ Goes(t, "begin", IF s_mic_ready THEN "recording" ELSE "finish")
    /\ UNCHANGED <<initVars, main, s_voice_task_running, hand>>

NoAudio(t) ==      \* no reply, a reply without audio_url, or no speaker
    /\ Goes(t, "recording", "finish")
    /\ UNCHANGED <<initVars, main, s_voice_task_running, hand>>

StreamReply(t) ==
    /\ s_ready
    /\ Goes(t, "recording", "streaming")
    /\ UNCHANGED <<initVars, main, s_voice_task_running, hand>>

StreamDone(t) ==   \* voice_stream_mp3_url returns, its error is only logged
    /\ Goes(t, "streaming", "finish")
    /\ UNCHANGED <<initVars, main, s_voice_task_running, hand>>

Finish(t) ==
    /\ Goes(t, "finish", "exiting")
    /\ s_voice_task_running' = FALSE
    /\ UNCHANGED <<initVars, main, hand>>

Exit(t) ==         \* vTaskDelete(NULL)
    /\ Goes(t, "exiting", "none")
    /\ UNCHANGED <<initVars, main, s_voice_task_running, hand>>

VoiceNext(t) ==
    \/ CheckMic(t) \/ NoAudio(t) \/ StreamReply(t) \/ StreamDone(t)
    \/ Finish(t) \/ Exit(t)

Next ==
    \/ MainNext
    \/ \E t \in Tasks : VoiceNext(t)
    \/ \E k \in Keys : Press(k) \/ Release(k)

Spec == Init /\ [][Next]_vars

\* Both cores run; a voice session ends (VoiceSession!SessionEnds) and so does
\* the playback (Mp3Stream!StreamEnds).
Fairness == WF_vars(MainNext) /\ \A t \in Tasks : WF_vars(VoiceNext(t))
FairSpec == Spec /\ Fairness

-----------------------------------------------------------------------------
(* Properties *)

InSession(t) == task[t] \in {"begin", "recording", "streaming", "finish"}

\* Two voice tasks may exist, one of them on its way out, but only one at a
\* time uses the microphone, the WebSocket client and the PCM stream, none of
\* which has a lock of its own.
OneSession == \A t, u \in Tasks : InSession(t) /\ InSession(u) => t = u

\* The busy flag, written by both tasks without a lock, is up exactly while a
\* session runs or is about to be created.
BusyFlagTruthful ==
    s_voice_task_running <=> (main_pc = "create" \/ \E t \in Tasks : InSession(t))

\* Whatever broke in audio_io_init, the voice task reads the microphone and
\* plays only over channels that are up.
ChannelsUsedWhenEnabled ==
    \A t \in Tasks :
        /\ task[t] = "recording" => rx = "enabled"
        /\ task[t] = "streaming" => tx = "enabled" /\ tx_mutex /\ audio_task

\* KEY1 starts recordings: each one is started by a press of its own.
\* (main.c:1026)
StartsOnPress == [][~s_voice_task_running /\ s_voice_task_running' => pressed1]_vars

\* The device never stays busy: KEY1 works again after every session and after
\* every failure to create one.
BusyFlagFalls == s_voice_task_running ~> ~s_voice_task_running
=============================================================================
