---------------------------- MODULE AudioIOProofs ----------------------------
(* The safety properties of AudioIO for every set of requests, and that it  *)
(* implements Transmitter.                                                  *)
EXTENDS AudioIO, TLAPS

\* The stream flag is up exactly from BeginActive to the store that lowers it.
FlagMatchesCall ==
    s_stream_active <=>
        app_pc \in {"begin_amp", "begin_unmute", "begin_take", "timeout_active",
                    "streaming", "pcm_write", "end_active"}

\* A background task past its look at the flag still owes its one late buffer.
LateWriteBudget ==
    s_stream_active =>
        /\ late_writes <= 1
        /\ bg_pc \in {"snapshot", "take"} => late_writes = 0

\* A background task with a tone snapshot still owes its one late buffer.
LateToneBudget ==
    ~s_playing =>
        /\ late_tones <= 1
        /\ bg_pc = "take" /\ bg_play => late_tones = 0

\* Where the requested play flag is kept, at each point of a call.
FlagKept ==
    /\ app_pc \in {"idle", "set_amp", "set_flag"} => s_playing = wanted
    /\ app_pc = "set_mute" => s_playing = req
    /\ app_pc \in StreamStates \cup
          {"begin_active", "begin_amp", "begin_unmute", "begin_take",
           "timeout_active", "restore_mute", "restore_amp", "restore_flag"}
         => s_stream_old_playing = wanted /\ s_playing = FALSE

IInv == /\ TypeOK
        /\ MutexMatchesHolder
        /\ FlagMatchesCall
        /\ LateWriteBudget
        /\ LateToneBudget
        /\ FlagKept

LEMMA BumpFacts ==
    ASSUME NEW n \in 0..LateCap
    PROVE  /\ Bump(n) \in 0..LateCap
           /\ n = 0 => Bump(n) = 1
  BY LateCapAssumption DEF Bump

LEMMA InitIInv == Init => IInv
<1> SUFFICES ASSUME Init PROVE IInv
  OBVIOUS
<1> USE LateCapAssumption DEF Init, StreamStates, BgStates, AppStates
<1>1. TypeOK
  <2>1. s_playing \in BOOLEAN /\ s_tx_mutex \in {"none", "bg", "app"}
        /\ bg_pc \in BgStates /\ app_pc \in AppStates
    OBVIOUS
  <2>2. amp \in BOOLEAN /\ dac_muted \in BOOLEAN /\ amp_ok \in BOOLEAN /\ dac_ok \in BOOLEAN
    OBVIOUS
  <2>3. s_stream_active \in BOOLEAN /\ s_stream_old_playing \in BOOLEAN
        /\ bg_play \in BOOLEAN /\ req \in BOOLEAN /\ wanted \in BOOLEAN
    OBVIOUS
  <2>4. late_writes \in 0..LateCap /\ late_tones \in 0..LateCap
    OBVIOUS
  <2>. QED
    BY ONLY <2>1, <2>2, <2>3, <2>4 DEF TypeOK
<1>2. MutexMatchesHolder /\ FlagMatchesCall
  BY DEF MutexMatchesHolder, FlagMatchesCall
<1>3. LateWriteBudget /\ LateToneBudget
  BY DEF LateWriteBudget, LateToneBudget
<1>4. FlagKept
  BY DEF FlagKept
<1>. QED
  BY <1>1, <1>2, <1>3, <1>4 DEF IInv

\* Steps of audio_task.
LEMMA BgPreserves == ASSUME IInv, BgNext PROVE IInv'
<1> USE DEF IInv, MutexMatchesHolder, FlagMatchesCall, LateWriteBudget,
            LateToneBudget, FlagKept, StreamStates, flags, bg, app, chips, history
<1>1. CASE BgCheck
  BY <1>1 DEF BgCheck, TypeOK, BgStates, AppStates
<1>2. CASE BgSnapshot
  BY <1>2 DEF BgSnapshot, TypeOK, BgStates, AppStates
<1>3. CASE BgTake
  <2>1. late_writes \in 0..LateCap /\ late_tones \in 0..LateCap
    BY DEF TypeOK
  <2>2. late_writes' = Bump(late_writes) /\ late_tones' \in {late_tones, Bump(late_tones)}
    BY <1>3 DEF BgTake
  <2>3. TypeOK'
    BY <1>3, <2>1, <2>2, BumpFacts DEF BgTake, TypeOK, BgStates, AppStates
  <2>4. MutexMatchesHolder' /\ FlagMatchesCall' /\ FlagKept'
    BY <1>3 DEF BgTake, TypeOK
  <2>5. LateWriteBudget'
    BY <1>3, <2>1, BumpFacts DEF BgTake, TypeOK
  <2>6. LateToneBudget'
    BY <1>3, <2>1, BumpFacts DEF BgTake, TypeOK
  <2>. QED
    BY <2>3, <2>4, <2>5, <2>6
<1>4. CASE BgTakeTimeout
  BY <1>4 DEF BgTakeTimeout, TypeOK, BgStates, AppStates
<1>5. CASE BgWrite
  BY <1>5 DEF BgWrite, TypeOK, BgStates, AppStates
<1>. QED
  BY <1>1, <1>2, <1>3, <1>4, <1>5 DEF BgNext

\* Steps of the client's calls.
LEMMA AppPreserves == ASSUME IInv, AppNext PROVE IInv'
<1> USE LateCapAssumption
    DEF IInv, TypeOK, BgStates, AppStates, MutexMatchesHolder, FlagMatchesCall,
        LateWriteBudget, LateToneBudget, FlagKept, StreamStates,
        flags, bg, app, chips, history
<1>1. ASSUME NEW play \in PlayRequests, SetPlaying(play) PROVE IInv'
  BY <1>1, PlayRequestsAssumption DEF SetPlaying
<1>2. CASE SetAmp
  BY <1>2 DEF SetAmp, SpkEn
<1>3. CASE SetFlag
  BY <1>3 DEF SetFlag
<1>4. CASE SetMute
  BY <1>4 DEF SetMute, Mute
<1>5. CASE Begin
  <2>1. TypeOK'
    <3>1. s_playing' \in BOOLEAN /\ app_pc' \in AppStates
      BY <1>5 DEF Begin
    <3>4. late_tones' \in 0..LateCap
      <4>1. late_tones' \in {0, late_tones}
        BY <1>5 DEF Begin
      <4>2. late_tones \in 0..LateCap
        OBVIOUS
      <4>. QED
        BY ONLY <4>1, <4>2, LateCapAssumption
    <3>2. s_stream_old_playing' \in BOOLEAN
      BY <1>5 DEF Begin
    <3>3. UNCHANGED <<s_stream_active, s_tx_mutex, bg, req, chips, wanted, late_writes>>
      BY <1>5 DEF Begin
    <3>. QED
      BY <3>1, <3>2, <3>3, <3>4
  <2>2. MutexMatchesHolder' /\ FlagMatchesCall' /\ LateWriteBudget'
    BY <1>5 DEF Begin
  <2>3. LateToneBudget'
    BY <1>5 DEF Begin
  <2>4. FlagKept'
    BY <1>5 DEF Begin
  <2>. QED
    BY <2>1, <2>2, <2>3, <2>4
<1>6. CASE BeginActive
  BY <1>6 DEF BeginActive
<1>7. CASE BeginAmp
  BY <1>7 DEF BeginAmp, SpkEn
<1>8. CASE BeginUnmute
  BY <1>8 DEF BeginUnmute, Mute
<1>9. CASE BeginTake
  BY <1>9 DEF BeginTake
<1>91. CASE BeginTimeout
  BY <1>91 DEF BeginTimeout
<1>92. CASE TimeoutActive
  BY <1>92 DEF TimeoutActive
<1>10. CASE WritePcm \/ WritePcmDone \/ End
  BY <1>10 DEF WritePcm, WritePcmDone, End
<1>11. CASE EndActive
  BY <1>11 DEF EndActive
<1>93. CASE EndGive
  BY <1>93 DEF EndGive
<1>12. CASE RestoreMute
  BY <1>12 DEF RestoreMute, Mute
<1>13. CASE RestoreAmp
  BY <1>13 DEF RestoreAmp, SpkEn
<1>14. CASE RestoreFlag
  BY <1>14 DEF RestoreFlag
<1>. QED
  BY <1>1, <1>2, <1>3, <1>4, <1>5, <1>6, <1>7, <1>8, <1>9, <1>91, <1>92,
     <1>10, <1>11, <1>93, <1>12, <1>13, <1>14 DEF AppNext, AppContinue

LEMMA Inductive == IInv /\ [Next]_vars => IInv'
<1> SUFFICES ASSUME IInv, [Next]_vars PROVE IInv'
  OBVIOUS
<1>1. CASE Next
  BY <1>1, BgPreserves, AppPreserves DEF Next
<1>2. CASE UNCHANGED vars
  BY <1>2 DEF vars, flags, bg, app, chips, history, IInv, TypeOK, MutexMatchesHolder,
     FlagMatchesCall, LateWriteBudget, LateToneBudget, FlagKept
<1>. QED
  BY <1>1, <1>2

\* IInv holds throughout: the invariant every theorem below rests on.
THEOREM InductiveInvariant == Spec => []IInv
  BY InitIInv, Inductive, PTL DEF Spec

\* Every variable of audio_io.c keeps its type.
THEOREM TypeCorrect == Spec => []TypeOK
  BY InductiveInvariant, PTL DEF IInv

\* audio_task and the streaming client are never both inside i2s_channel_write,
\* although audio_task tests s_stream_active without the mutex.
THEOREM MutualExclusion == Spec => []TxExclusive
<1>1. IInv => TxExclusive
  BY DEF IInv, MutexMatchesHolder, TxExclusive, StreamStates
<1>. QED
  BY <1>1, InductiveInvariant, PTL

\* The transmitter mutex is neither leaked nor given back twice on any path.
THEOREM MutexDiscipline == Spec => []MutexMatchesHolder
  BY InductiveInvariant, PTL DEF IInv

\* A begin waits for one background buffer at most, a cleared play flag is
\* followed by one tone buffer at most, and the flag survives every stream.
THEOREM BoundedInterference ==
    Spec => [](AtMostOneLate /\ PlayFlagPreserved)
<1>1. IInv => AtMostOneLate /\ PlayFlagPreserved
  BY DEF IInv, LateWriteBudget, LateToneBudget, FlagKept, AtMostOneLate,
     PlayFlagPreserved
<1>. QED
  BY <1>1, InductiveInvariant, PTL

-----------------------------------------------------------------------------
(* The chips *)

\* What a call has put in each chip by now, if the transfers were acknowledged:
\* the mode wanted, the mode requested, or open for a stream.
ChipsFollowCall ==
    /\ amp_ok =>
          amp = CASE app_pc \in {"idle", "set_amp", "begin_active", "begin_amp",
                                 "restore_flag"} -> wanted
                  [] app_pc \in {"set_flag", "set_mute"} -> req
                  [] OTHER -> TRUE
    /\ dac_ok =>
          dac_muted = CASE app_pc \in {"idle", "set_amp", "set_flag", "set_mute",
                                       "begin_active", "begin_amp", "begin_unmute",
                                       "restore_amp", "restore_flag"} -> ~wanted
                        [] OTHER -> FALSE

LEMMA InitChips == Init => ChipsFollowCall
  BY DEF Init, ChipsFollowCall

LEMMA ChipsStep ==
    ASSUME IInv, ChipsFollowCall, [Next]_vars
    PROVE  ChipsFollowCall'
<1> USE DEF ChipsFollowCall, flags, bg, app, chips, history
<1>0. /\ FlagKept /\ wanted \in BOOLEAN /\ req \in BOOLEAN /\ s_stream_old_playing \in BOOLEAN
      /\ amp \in BOOLEAN /\ dac_muted \in BOOLEAN /\ app_pc \in AppStates
  BY DEF IInv, TypeOK
<1>1. CASE BgNext \/ UNCHANGED vars
  <2>1. UNCHANGED <<app, chips, wanted>>
    <3>1. CASE UNCHANGED vars
      BY <3>1 DEF vars
    <3>2. CASE BgCheck
      BY <3>2 DEF BgCheck
    <3>3. CASE BgSnapshot
      BY <3>3 DEF BgSnapshot
    <3>4. CASE BgTake
      BY <3>4 DEF BgTake
    <3>5. CASE BgTakeTimeout \/ BgWrite
      BY <3>5 DEF BgTakeTimeout, BgWrite
    <3>. QED BY <1>1, <3>1, <3>2, <3>3, <3>4, <3>5 DEF BgNext
  <2>. QED BY <2>1
<1>2. ASSUME NEW play \in PlayRequests, SetPlaying(play) PROVE ChipsFollowCall'
  BY <1>2 DEF SetPlaying
<1>3. CASE SetAmp
  BY <1>0, <1>3 DEF SetAmp, SpkEn
<1>4. CASE SetFlag
  BY <1>0, <1>4 DEF SetFlag
<1>5. CASE SetMute
  BY <1>0, <1>5 DEF SetMute, Mute
<1>6. CASE Begin
  BY <1>6 DEF Begin
<1>14. CASE BeginActive
  BY <1>14 DEF BeginActive
<1>7. CASE BeginAmp
  BY <1>0, <1>7 DEF BeginAmp, SpkEn
<1>8. CASE BeginUnmute
  BY <1>0, <1>8 DEF BeginUnmute, Mute
<1>9. CASE BeginTake
  BY <1>9 DEF BeginTake
<1>15. CASE BeginTimeout
  BY <1>15 DEF BeginTimeout
<1>16. CASE TimeoutActive
  BY <1>16 DEF TimeoutActive
<1>10. CASE WritePcm
  BY <1>10 DEF WritePcm
<1>17. CASE WritePcmDone
  BY <1>17 DEF WritePcmDone
<1>18. CASE End
  BY <1>18 DEF End
<1>19. CASE EndActive
  BY <1>19 DEF EndActive
<1>20. CASE EndGive
  BY <1>20 DEF EndGive
<1>11. CASE RestoreMute
  BY <1>0, <1>11 DEF RestoreMute, Mute, FlagKept
<1>12. CASE RestoreAmp
  BY <1>0, <1>12 DEF RestoreAmp, SpkEn, FlagKept
<1>13. CASE RestoreFlag
  BY <1>0, <1>13 DEF RestoreFlag
<1>. QED
  BY <1>1, <1>2, <1>3, <1>4, <1>5, <1>6, <1>7, <1>8, <1>9, <1>10, <1>11, <1>12, <1>13,
     <1>14, <1>15, <1>16, <1>17, <1>18, <1>19, <1>20 DEF Next, AppNext, AppContinue

\* Amplifier and codec follow the play flag between calls, and are open while
\* PCM is written, unless the last transfer to that chip failed.
THEOREM ChipsFollowMode == Spec => []OutputFollowsMode
<1>1. IInv /\ ChipsFollowCall => OutputFollowsMode
  BY DEF IInv, TypeOK, FlagKept, ChipsFollowCall, OutputFollowsMode
<1>2. Spec => []ChipsFollowCall
  BY InitChips, ChipsStep, InductiveInvariant, PTL DEF Spec
<1>. QED
  BY <1>1, <1>2, InductiveInvariant, PTL

-----------------------------------------------------------------------------
(* Refinement: every step of the code is a step of Transmitter or a stutter. *)

LEMMA InitRefines == Init => Promise!Init
  BY DEF Init, Promise!Init, promisedSession, promisedWriter, promisedLate

LEMMA BgRefines == ASSUME IInv, BgNext PROVE [Promise!Next]_(Promise!vars)
<1> USE DEF IInv, TypeOK, MutexMatchesHolder, LateWriteBudget, StreamStates,
            flags, bg, app, chips, history,
            promisedSession, promisedWriter, promisedLate, Promise!vars
<1>1. CASE BgCheck
  BY <1>1 DEF BgCheck
<1>4. CASE BgSnapshot
  BY <1>4 DEF BgSnapshot
<1>5. CASE BgTakeTimeout
  BY <1>5 DEF BgTakeTimeout
<1>2. CASE BgTake
  <2>1. late_writes = 0 => Bump(late_writes) = 1
    BY BumpFacts
  <2>2. Promise!BackgroundStart
    BY <1>2, <2>1 DEF BgTake, Promise!BackgroundStart
  <2>. QED
    BY <2>2 DEF Promise!Next
<1>3. CASE BgWrite
  BY <1>3 DEF BgWrite, Promise!Finish, Promise!Next
<1>. QED
  BY <1>1, <1>2, <1>3, <1>4, <1>5 DEF BgNext

LEMMA AppRefines == ASSUME IInv, AppNext PROVE [Promise!Next]_(Promise!vars)
<1> USE DEF IInv, TypeOK, AppStates, MutexMatchesHolder, FlagMatchesCall, StreamStates,
            flags, bg, app, chips, history,
            promisedSession, promisedWriter, promisedLate, Promise!vars
<1>1. ASSUME \/ \E play \in PlayRequests : SetPlaying(play)
             \/ SetAmp \/ SetFlag \/ SetMute
      PROVE  UNCHANGED Promise!vars
  BY <1>1 DEF SetPlaying, SetAmp, SetFlag, SetMute
<1>2. CASE Begin
  BY <1>2 DEF Begin
<1>11. CASE BeginAmp
  BY <1>11 DEF BeginAmp
<1>12. CASE BeginUnmute
  BY <1>12 DEF BeginUnmute
<1>13. CASE BeginTimeout
  BY <1>13 DEF BeginTimeout
<1>10. CASE End \/ EndActive
  BY <1>10 DEF End, EndActive
<1>3. CASE RestoreMute
  BY <1>3 DEF RestoreMute
<1>14. CASE RestoreAmp
  BY <1>14 DEF RestoreAmp
<1>15. CASE RestoreFlag
  BY <1>15 DEF RestoreFlag
<1>4. CASE BeginActive
  BY <1>4 DEF BeginActive, Promise!Ask, Promise!Next
<1>5. CASE BeginTake
  BY <1>5 DEF BeginTake, Promise!Grant, Promise!Next
<1>6. CASE TimeoutActive
  BY <1>6 DEF TimeoutActive, Promise!GiveUp, Promise!Next
<1>7. CASE WritePcm
  BY <1>7 DEF WritePcm, Promise!StreamStart, Promise!Next
<1>8. CASE WritePcmDone
  BY <1>8 DEF WritePcmDone, Promise!Finish, Promise!Next
<1>9. CASE EndGive
  BY <1>9 DEF EndGive, Promise!Close, Promise!Next
<1>. QED
  BY <1>1, <1>2, <1>3, <1>4, <1>5, <1>6, <1>7, <1>8, <1>9, <1>10, <1>11,
     <1>12, <1>13, <1>14, <1>15 DEF AppNext, AppContinue

\* audio_io.c keeps the promise of Transmitter: one writer at a time, one late
\* background buffer, and an open session written by the client alone.
THEOREM Refinement == Spec => ImplementsTransmitter
<1>1. ASSUME IInv, [Next]_vars PROVE [Promise!Next]_(Promise!vars)
  <2>1. CASE Next
    BY <1>1, <2>1, BgRefines, AppRefines DEF Next
  <2>2. CASE UNCHANGED vars
    BY <2>2 DEF vars, flags, bg, app, chips, history, promisedSession,
       promisedWriter, promisedLate, Promise!vars
  <2>. QED
    BY <1>1, <2>1, <2>2
<1>. QED
  BY <1>1, InitRefines, InductiveInvariant, PTL
     DEF Spec, ImplementsTransmitter, Promise!Spec
=============================================================================
