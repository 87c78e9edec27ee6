--------------------------- MODULE VoiceAppProofs ---------------------------
(***************************************************************************)
(* Theorems about VoiceApp, for every set of task stacks and with I2C      *)
(* reads that may fail or not: the flags audio_io_init leaves are true,    *)
(* the busy flag is exact, and one session runs at a time.                 *)
(***************************************************************************)
EXTENDS VoiceApp, TLAPS

\* How far audio_io_init has come is read off its next rung.
Ladder ==
    /\ init_pc \in Rungs => ~s_ready /\ ~audio_task
    /\ init_pc \in {"codec", "mutex", "channels", "tx_init", "tx_enable"} => ~s_tx_enabled
    /\ init_pc \in Rungs \ {"task"} => ~s_mic_ready
    /\ init_pc \in Rungs \ {"codec", "mutex"} => tx_mutex
    /\ init_pc \in {"rx_init", "rx_enable", "task"} => s_tx_enabled

AudioInv == InitTypeOK /\ FlagsTruthful /\ Ladder

\* There is no voice task before the key loop.
NoTaskAtBoot == main_pc = "boot" => \A t \in Tasks : task[t] = "none"

\* A task is created only while none is in a session.
NoneWhileCreating == main_pc = "create" => \A t \in Tasks : ~InSession(t)

IInv ==
    /\ TypeOK /\ AudioInv /\ NoTaskAtBoot /\ NoneWhileCreating
    /\ OneSession /\ BusyFlagTruthful /\ ChannelsUsedWhenEnabled

-----------------------------------------------------------------------------

\* Every rung of audio_io_init, failed or not, keeps the flags true.
LEMMA RungKeepsFlags ==
    ASSUME AudioInv, AudioInitNext
    PROVE  AudioInv'
<1> USE DEF AudioInv, InitTypeOK, FlagsTruthful, Ladder, Rungs, Channel, channels, flags
<1>1. CASE Codec BY <1>1 DEF Codec
<1>2. CASE CreateMutex BY <1>2 DEF CreateMutex
<1>3. CASE NewChannels BY <1>3 DEF NewChannels
<1>4. CASE TxInit
  <2>1. InitTypeOK' BY <1>4 DEF TxInit, TxFailed
  <2>2. FlagsTruthful' BY <1>4 DEF TxInit, TxFailed
  <2>3. Ladder' BY <1>4 DEF TxInit, TxFailed
  <2> QED BY <2>1, <2>2, <2>3
<1>5. CASE TxEnable
  <2>1. InitTypeOK' BY <1>5 DEF TxEnable, TxFailed
  <2>2. FlagsTruthful' BY <1>5 DEF TxEnable, TxFailed
  <2>3. Ladder' BY <1>5 DEF TxEnable, TxFailed
  <2> QED BY <2>1, <2>2, <2>3
<1>6. CASE RxInit
  <2>1. ~s_ready /\ ~audio_task /\ ~s_mic_ready /\ tx_mutex /\ s_tx_enabled /\ tx = "enabled"
    BY <1>6 DEF RxInit
  <2>2. CASE RxFailed BY <1>6, <2>1, <2>2 DEF RxInit, RxFailed
  <2>3. CASE ~RxFailed
    <3>1. init_pc' = "rx_enable" /\ rx' = "configured" /\ tx' = "enabled"
      BY <1>6, <2>1, <2>3 DEF RxInit
    <3>2. ~s_ready' /\ ~audio_task' /\ ~s_mic_ready' /\ tx_mutex' /\ s_tx_enabled'
      <4>1. UNCHANGED <<tx, flags, tx_mutex, audio_task>> BY <1>6, <2>3 DEF RxInit
      <4>2. /\ s_ready' = s_ready /\ audio_task' = audio_task /\ s_mic_ready' = s_mic_ready
            /\ tx_mutex' = tx_mutex /\ s_tx_enabled' = s_tx_enabled
        BY <4>1
      <4> HIDE DEF AudioInv
      <4> QED BY <4>2, <2>1, Zenon
    <3>3. InitTypeOK' BY <1>6, <2>3 DEF RxInit
    <3> QED BY <3>1, <3>2, <3>3
  <2> QED BY <2>2, <2>3
<1>7. CASE RxEnable
  <2>1. ~s_ready /\ ~audio_task /\ tx_mutex /\ s_tx_enabled /\ tx = "enabled"
    BY <1>7 DEF RxEnable
  <2>2. CASE RxFailed BY <1>7, <2>1, <2>2 DEF RxEnable, RxFailed
  <2>3. CASE ~RxFailed
    <3>1. init_pc' = "task" /\ rx' = "enabled" /\ tx' = "enabled"
      BY <1>7, <2>1, <2>3 DEF RxEnable
    <3>2. ~s_ready' /\ ~audio_task' /\ s_mic_ready' /\ tx_mutex' /\ s_tx_enabled'
      <4>1. /\ s_ready' = s_ready /\ audio_task' = audio_task /\ s_mic_ready' = TRUE
            /\ tx_mutex' = tx_mutex /\ s_tx_enabled' = s_tx_enabled
        BY <1>7, <2>3 DEF RxEnable
      <4> HIDE DEF AudioInv
      <4> QED BY <4>1, <2>1, Zenon
    <3>3. InitTypeOK' BY <1>7, <2>3 DEF RxEnable
    <3> QED BY <3>1, <3>2, <3>3
  <2> QED BY <2>2, <2>3
<1>8. CASE CreateAudioTask
  <2>1. InitTypeOK' BY <1>8 DEF CreateAudioTask
  <2>2. FlagsTruthful'
    <3>1. CASE init_pc' = "ok" BY <1>8, <3>1 DEF CreateAudioTask
    <3>2. CASE init_pc' = "failed" BY <1>8, <3>2 DEF CreateAudioTask
    <3> QED BY <1>8, <3>1, <3>2 DEF CreateAudioTask
  <2>3. Ladder' BY <1>8 DEF CreateAudioTask
  <2> QED BY <2>1, <2>2, <2>3
<1> QED BY <1>1, <1>2, <1>3, <1>4, <1>5, <1>6, <1>7, <1>8 DEF AudioInitNext

\* A turn of SERVO_3 by one step ends at a multiple of the step, 180 at most.
LEMMA TurnInRange ==
    ASSUME NEW a \in {AngleStep * i : i \in 0..(AngleMax \div AngleStep)}
    PROVE  (IF a + AngleStep > AngleMax THEN AngleMax ELSE a + AngleStep)
               \in {AngleStep * i : i \in 0..(AngleMax \div AngleStep)}
<1>1. AngleMax \div AngleStep = 12 BY DEF AngleMax, AngleStep
<1>2. PICK i \in 0..12 : a = 15 * i BY <1>1 DEF AngleStep
<1>3. CASE i = 12
  <2>1. a + 15 > 180 /\ 180 = 15 * 12 BY <1>2, <1>3
  <2> QED BY <2>1, <1>1 DEF AngleStep, AngleMax
<1>4. CASE i # 12
  <2>1. i + 1 \in 0..12 /\ a + 15 = 15 * (i + 1) /\ ~(a + 15 > 180) BY <1>2, <1>4
  <2> QED BY <2>1, <1>1 DEF AngleStep, AngleMax
<1> QED BY <1>3, <1>4

LEMMA InitHolds == Init => IInv
<1> SUFFICES ASSUME Init PROVE IInv OBVIOUS
<1>1. angle_s3 \in {AngleStep * i : i \in 0..(AngleMax \div AngleStep)}
  <2>1. AngleMax \div AngleStep = 12 /\ AngleStep * 0 = 0 BY DEF AngleMax, AngleStep
  <2> QED BY <2>1 DEF Init
<1>2. TypeOK
  <2>1. InitTypeOK BY DEF Init, InitAudio, InitTypeOK, Rungs, Channel
  <2>2. last \in [Keys -> 0..1] /\ key \in [Keys -> 0..1] /\ task \in [Tasks -> TaskStates]
    BY DEF Init, Keys, TaskStates
  <2>3. pressed1 \in BOOLEAN BY Zenon DEF Init
  <2> QED BY <1>1, <2>1, <2>2, <2>3 DEF Init, TypeOK
<1>3. AudioInv
  BY DEF Init, InitAudio, AudioInv, InitTypeOK, FlagsTruthful, Ladder, Rungs, Channel
<1>4. NoTaskAtBoot /\ NoneWhileCreating /\ OneSession /\ BusyFlagTruthful /\ ChannelsUsedWhenEnabled
  BY DEF Init, NoTaskAtBoot, NoneWhileCreating, OneSession, BusyFlagTruthful,
    ChannelsUsedWhenEnabled, InSession
<1> QED BY <1>2, <1>3, <1>4 DEF IInv

-----------------------------------------------------------------------------

\* Each step keeps the ranges.
LEMMA TypeStep == IInv /\ [Next]_vars => TypeOK'
<1> SUFFICES ASSUME IInv, [Next]_vars PROVE TypeOK' OBVIOUS
<1> USE DEF IInv, TypeOK, InitTypeOK, TaskStates, main, hand
<1>1. CASE UNCHANGED vars
  BY <1>1 DEF vars, initVars, channels, flags
<1>2. CASE BootAudio
  <2>1. InitTypeOK' BY <1>2, RungKeepsFlags DEF BootAudio, AudioInv
  <2> QED BY <1>2, <2>1 DEF BootAudio
<1> USE DEF initVars, channels, flags
<1>3. CASE Booted BY <1>3 DEF Booted
<1>4. CASE Key1
  <2>1. \A k : PinRead(k) \cap (0..1) \subseteq 0..1 OBVIOUS
  <2>2. PinRead("KEY1") \subseteq 0..1 BY DEF PinRead, Keys
  <2> QED BY <1>4, <2>2 DEF Key1, Keys
<1>5. CASE \E t \in Tasks : CreateOk(t) BY <1>5 DEF CreateOk
<1>6. CASE CreateFailed BY <1>6 DEF CreateFailed
<1>7. CASE Key0
  <2>1. PinRead("KEY0") \subseteq 0..1 BY DEF PinRead, Keys
  <2>2. angle_s3' \in {AngleStep * i : i \in 0..(AngleMax \div AngleStep)}
    BY <1>7, TurnInRange DEF Key0, Turned
  <2> QED BY <1>7, <2>1, <2>2 DEF Key0, Keys
<1>8. CASE Key2
  <2>1. PinRead("KEY2") \subseteq 0..1 BY DEF PinRead, Keys
  <2> QED BY <1>8, <2>1 DEF Key2, Keys
<1>9. ASSUME NEW t \in Tasks, VoiceNext(t) PROVE TypeOK'
  <2>1. s_voice_task_running' \in BOOLEAN /\ UNCHANGED <<initVars, main, hand>>
    BY <1>9 DEF VoiceNext, CheckMic, NoAudio, StreamReply, StreamDone, Finish, Exit
  <2>2. \E to \in TaskStates : task' = [task EXCEPT ![t] = to]
    BY <1>9 DEF VoiceNext, CheckMic, NoAudio, StreamReply, StreamDone, Finish, Exit, Goes
  <2>3. task' \in [Tasks -> TaskStates] BY <2>2
  <2> QED BY <2>1, <2>3
<1>10. ASSUME NEW k \in Keys, Press(k) \/ Release(k) PROVE TypeOK'
  <2>1. key' \in [Keys -> 0..1] BY <1>10 DEF Press, Release
  <2>2. pressed1' \in BOOLEAN
    <3>1. CASE Press(k) BY <3>1, Zenon DEF Press
    <3>2. CASE Release(k) BY <3>2 DEF Release
    <3> QED BY <1>10, <3>1, <3>2
  <2> QED BY <1>10, <2>1, <2>2 DEF Press, Release
<1> QED BY <1>1, <1>2, <1>3, <1>4, <1>5, <1>6, <1>7, <1>8, <1>9, <1>10 DEF Next, MainNext

\* Only the boot touches what audio_io_init keeps.
LEMMA AudioStep == IInv /\ [Next]_vars => AudioInv'
<1> SUFFICES ASSUME IInv, [Next]_vars PROVE AudioInv' OBVIOUS
<1>1. CASE BootAudio BY <1>1, RungKeepsFlags DEF BootAudio, IInv
<1>2. CASE UNCHANGED initVars
  BY <1>2 DEF IInv, AudioInv, InitTypeOK, FlagsTruthful, Ladder, initVars, channels, flags
<1>3. [Next]_vars => BootAudio \/ UNCHANGED initVars
  BY DEF Next, MainNext, VoiceNext, vars, Booted, Key1, CreateOk, CreateFailed, Key0, Key2,
         CheckMic, NoAudio, StreamReply, StreamDone, Finish, Exit, Press, Release
<1> QED BY <1>1, <1>2, <1>3

\* The busy flag goes up before a task exists and down when its session is
\* over, so it is exact, and no second session starts beside one.
LEMMA SessionStep ==
    IInv /\ [Next]_vars =>
        (NoTaskAtBoot /\ NoneWhileCreating /\ OneSession /\ BusyFlagTruthful /\ ChannelsUsedWhenEnabled)'
<1> SUFFICES ASSUME IInv, [Next]_vars
             PROVE  (NoTaskAtBoot /\ NoneWhileCreating /\ OneSession /\ BusyFlagTruthful /\ ChannelsUsedWhenEnabled)'
  OBVIOUS
<1> USE DEF IInv, TypeOK, NoTaskAtBoot, NoneWhileCreating, OneSession,
            BusyFlagTruthful,
            ChannelsUsedWhenEnabled, InSession, main, hand
<1>1. CASE UNCHANGED vars BY <1>1 DEF vars, initVars, channels, flags
<1>2. CASE BootAudio BY <1>2 DEF BootAudio
<1> USE DEF initVars, channels, flags
<1>3. CASE Booted BY <1>3 DEF Booted
<1>4. CASE Key1 BY <1>4 DEF Key1
<1>5. ASSUME NEW t \in Tasks, CreateOk(t)
      PROVE (NoTaskAtBoot /\ NoneWhileCreating /\ OneSession /\ BusyFlagTruthful /\ ChannelsUsedWhenEnabled)'
  <2>1. (NoTaskAtBoot /\ NoneWhileCreating)' BY <1>5 DEF CreateOk
  <2>2. OneSession' BY <1>5 DEF CreateOk
  <2>3. BusyFlagTruthful' BY <1>5 DEF CreateOk
  <2>4. ChannelsUsedWhenEnabled' BY <1>5 DEF CreateOk
  <2> QED BY <2>1, <2>2, <2>3, <2>4
<1>6. CASE CreateFailed
  <2>1. (NoTaskAtBoot /\ NoneWhileCreating)' BY <1>6 DEF CreateFailed
  <2>2. OneSession' BY <1>6 DEF CreateFailed
  <2>3. BusyFlagTruthful' BY <1>6 DEF CreateFailed
  <2>4. ChannelsUsedWhenEnabled' BY <1>6 DEF CreateFailed
  <2> QED BY <2>1, <2>2, <2>3, <2>4
<1>7. CASE Key0 BY <1>7 DEF Key0
<1>8. CASE Key2 BY <1>8 DEF Key2
<1>9. ASSUME NEW t \in Tasks, VoiceNext(t)
      PROVE (NoTaskAtBoot /\ NoneWhileCreating /\ OneSession /\ BusyFlagTruthful /\ ChannelsUsedWhenEnabled)'
  <2> USE DEF Goes
  <2>1. CASE CheckMic(t) BY <2>1 DEF CheckMic, AudioInv, FlagsTruthful
  <2>2. CASE NoAudio(t) BY <2>2 DEF NoAudio
  <2>3. CASE StreamReply(t) BY <2>3 DEF StreamReply, AudioInv, FlagsTruthful
  <2>4. CASE StreamDone(t) BY <2>4 DEF StreamDone
  <2>5. CASE Finish(t)
    <3>1. (NoTaskAtBoot /\ NoneWhileCreating)' BY <2>5 DEF Finish
    <3>2. OneSession' BY <2>5 DEF Finish
    <3>3. BusyFlagTruthful' BY <2>5 DEF Finish
    <3>4. ChannelsUsedWhenEnabled' BY <2>5 DEF Finish
    <3> QED BY <3>1, <3>2, <3>3, <3>4
  <2>6. CASE Exit(t) BY <2>6 DEF Exit
  <2> QED BY <1>9, <2>1, <2>2, <2>3, <2>4, <2>5, <2>6 DEF VoiceNext
<1>10. CASE \E k \in Keys : Press(k) \/ Release(k) BY <1>10 DEF Press, Release
<1> QED BY <1>1, <1>2, <1>3, <1>4, <1>5, <1>6, <1>7, <1>8, <1>9, <1>10 DEF Next, MainNext

-----------------------------------------------------------------------------

\* The invariant of the key loop, the voice tasks and audio_io_init.
THEOREM InductiveInvariant == Spec => []IInv
<1>1. IInv /\ [Next]_vars => IInv'
  BY TypeStep, AudioStep, SessionStep DEF IInv
<1> QED BY InitHolds, <1>1, PTL DEF Spec

\* Every variable keeps its range; SERVO_3 is never turned beyond 180 degrees.
THEOREM TypeCorrect == Spec => []TypeOK
BY InductiveInvariant, PTL DEF IInv

\* Wherever audio_io_init breaks off, its flags tell the truth and the voice
\* task uses only channels that are up.
THEOREM FlagsTrue == Spec => [](FlagsTruthful /\ ChannelsUsedWhenEnabled)
BY InductiveInvariant, PTL DEF IInv, AudioInv

\* At most one session at a time, for any number of voice tasks.
THEOREM SingleSession == Spec => []OneSession
BY InductiveInvariant, PTL DEF IInv

\* The busy flag is up exactly while a session runs or is about to.
THEOREM FlagExact == Spec => []BusyFlagTruthful
BY InductiveInvariant, PTL DEF IInv
=============================================================================
