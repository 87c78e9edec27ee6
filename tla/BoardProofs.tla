----------------------------- MODULE BoardProofs -----------------------------
(***************************************************************************)
(* Proofs about Board: for every number of retries and wherever the codec  *)
(* answers, both chips are configured behind their initialisation, the     *)
(* expander's latch is the shadow, and a boot makes no sound.  Of the      *)
(* codec's sequence only its length, its first entry and that no other     *)
(* writes the mute register are used.  On a working bus a boot ends.       *)
(***************************************************************************)
EXTENDS Board, Integers, Sequences, TLAPS

Seqn == Codec!InitSequence
DacControl3 == Codec!ES8388_DACCONTROL3

LEMMA SequenceFacts ==
    /\ Len(Seqn) = 36 /\ DOMAIN Seqn = 1..36
    /\ Seqn[1] = <<DacControl3, 4>>
    /\ \A i \in 2..36 : Seqn[i][1] # DacControl3
<1>1. Len(Seqn) = 36 /\ DOMAIN Seqn = 1..36
  BY DEF Seqn, Codec!InitSequence
<1>2. Seqn[1] = <<DacControl3, 4>>
  BY DEF Seqn, DacControl3, Codec!InitSequence, Codec!ES8388_DACCONTROL3
<1>3. \A i \in 2..36 : Seqn[i][1] # DacControl3
  BY DEF Seqn, DacControl3, Codec!InitSequence, Codec!ES8388_DACCONTROL3
<1>. QED BY <1>1, <1>2, <1>3

LEMMA EntriesTyped == \A i \in 1..36 : Seqn[i][1] \in Codec!Regs /\ Seqn[i][2] \in Int
<1>1. \A i \in 1..36 : Seqn[i][2] \in Int
  BY DEF Seqn, Codec!InitSequence
<1>. QED BY <1>1, SequenceFacts DEF Seqn, Codec!Regs

LEMMA MuteTyped == \A v \in Int, m \in BOOLEAN : Codec!WithMute(v, m) \in Int
  BY DEF Codec!WithMute, Codec!MuteBit

LEMMA MuteRegister == DacControl3 \in Codec!Regs
  BY EntriesTyped, SequenceFacts

-----------------------------------------------------------------------------
(* The inductive invariant *)

\* The expander by where its initialisation is: the amplifier's pin is low in
\* the shadow only when audio_io may have asked for it.
ExpanderInv ==
    /\ LatchFollowsShadow
    /\ pc \in {"beep", "speaker", "run"} => driven
    /\ stage \in {"codec", "run"} => pc = "run"
    /\ stage # "run" => SPK_EN \in shadow

\* What the first k entries of the sequence leave in the chip.
Held(k) ==
    \A i \in 1..k :
        /\ \A j \in 1..k : j > i => Seqn[j][1] # Seqn[i][1]
        /\ Seqn[i][1] # DacControl3
        => reg[Seqn[i][1]] = Seqn[i][2]

\* The codec by how far the attempt has come.
CodecInv ==
    /\ codec \in {"write", "open", "ok", "failed"}
    /\ step \in 1..36 /\ reg \in [Codec!Regs -> Int]
    /\ codec = "write" => Held(step - 1)
    /\ codec \in {"open", "ok"} => Held(36)
    /\ codec = "write" /\ step > 1 => reg[DacControl3] = 4

IInv == ExpanderInv /\ CodecInv

-----------------------------------------------------------------------------
(* The expander *)

LEMMA PinWriteFollows ==
    ASSUME NEW pin, NEW val, PinWrite(pin, val)
    PROVE  /\ LatchFollowsShadow'
           /\ val = 1 /\ SPK_EN \in shadow => SPK_EN \in shadow'
  BY DEF PinWrite, WriteOutputs, LatchFollowsShadow, Level

LEMMA ExpanderStep ==
    ASSUME ExpanderInv, Expander
    PROVE  ExpanderInv'
<1> USE DEF Expander, ExpanderInv
<1>1. CASE DefaultOutputs
  BY <1>1 DEF DefaultOutputs, WriteOutputs, LatchFollowsShadow
<1>2. CASE ConfigOk
  BY <1>2 DEF ConfigOk, LatchFollowsShadow
<1>3. CASE ConfigFailed
  BY <1>3 DEF ConfigFailed, Start, Pins, LatchFollowsShadow
<1>4. CASE Retry
  BY <1>4 DEF Retry, LatchFollowsShadow
<1>5. CASE Beep
  BY <1>5, PinWriteFollows DEF Beep
<1>6. CASE Speaker
  BY <1>6, PinWriteFollows DEF Speaker
<1>. QED BY <1>1, <1>2, <1>3, <1>4, <1>5, <1>6 DEF InitSteps

-----------------------------------------------------------------------------
(* The codec *)

\* A register write keeps the registers a function into the numbers.
LEMMA WrittenTyped ==
    ASSUME CodecInv, NEW r \in Codec!Regs, NEW v \in Int, Codec!Written(r, v)
    PROVE  reg' \in [Codec!Regs -> Int]
  BY DEF CodecInv, Codec!Written

\* One more entry: the registers of the earlier ones that are not written again
\* keep their values.
LEMMA HeldGrows ==
    ASSUME CodecInv, Held(step - 1), Codec!Written(Seqn[step][1], Seqn[step][2])
    PROVE  \A i \in 1..step :
               /\ \A j \in 1..step : j > i => Seqn[j][1] # Seqn[i][1]
               /\ Seqn[i][1] # DacControl3
               => reg'[Seqn[i][1]] = Seqn[i][2]
<1> SUFFICES ASSUME NEW i \in 1..step,
                    \A j \in 1..step : j > i => Seqn[j][1] # Seqn[i][1],
                    Seqn[i][1] # DacControl3
             PROVE  reg'[Seqn[i][1]] = Seqn[i][2]
  OBVIOUS
<1>1. step \in 1..36 /\ reg \in [Codec!Regs -> Int]
  BY DEF CodecInv
<1>2. Seqn[i][1] \in Codec!Regs /\ Seqn[step][1] \in Codec!Regs
  BY <1>1, EntriesTyped
<1>3. CASE i = step
  BY <1>1, <1>2, <1>3 DEF Codec!Written
<1>4. CASE i # step
  <2>1. i \in 1..(step - 1) /\ Seqn[step][1] # Seqn[i][1]
    BY <1>1, <1>4
  <2>2. reg[Seqn[i][1]] = Seqn[i][2]
    BY <1>1, <2>1 DEF Held
  <2>. QED BY <1>1, <1>2, <2>1, <2>2 DEF Codec!Written
<1>. QED BY <1>3, <1>4

LEMMA WriteOkPreserves ==
    ASSUME CodecInv, Codec!WriteOk
    PROVE  CodecInv'
<1>1. /\ codec = "write" /\ step \in 1..36 /\ Held(step - 1)
      /\ Codec!Written(Seqn[step][1], Seqn[step][2])
      /\ \/ step < 36 /\ step' = step + 1 /\ codec' = codec
         \/ step = 36 /\ codec' = "open" /\ step' = step
  BY SequenceFacts DEF CodecInv, Codec!WriteOk, Seqn
<1>2. Seqn[step][1] \in Codec!Regs /\ Seqn[step][2] \in Int
  BY <1>1, EntriesTyped
<1>3. reg' \in [Codec!Regs -> Int]
  BY <1>1, <1>2, WrittenTyped
<1>4. codec' = "write" => Held(step - 1)'
  BY <1>1, HeldGrows DEF Held
<1>5. codec' \in {"open", "ok"} => Held(36)'
  BY <1>1, HeldGrows DEF Held
<1>6. codec' = "write" => reg'[DacControl3] = 4
  <2>1. CASE step = 1
    BY <1>1, <2>1, SequenceFacts, MuteRegister DEF Codec!Written, CodecInv
  <2>2. CASE step # 1
    <3>1. Seqn[step][1] # DacControl3 /\ reg[DacControl3] = 4
      BY <1>1, <2>2, SequenceFacts DEF CodecInv
    <3>. QED BY <1>1, <1>2, <3>1, MuteRegister DEF Codec!Written, CodecInv
  <2>. QED BY <2>1, <2>2
<1>. QED BY <1>1, <1>3, <1>4, <1>5, <1>6 DEF CodecInv

\* Every other step starts an attempt from its first entry, gives up, or only
\* moves the mute bit.
LEMMA MutePreserves ==
    ASSUME CodecInv, NEW m \in BOOLEAN, Codec!SetMute(m)
    PROVE  /\ reg' \in [Codec!Regs -> Int]
           /\ Held(36) => Held(36)'
<1>1. reg[DacControl3] \in Int /\ reg \in [Codec!Regs -> Int]
  BY MuteRegister DEF CodecInv
<1>2. Codec!Written(DacControl3, Codec!WithMute(reg[DacControl3], m))
  BY DEF Codec!SetMute, DacControl3
<1>3. reg' \in [Codec!Regs -> Int]
  BY <1>1, <1>2, MuteTyped, MuteRegister, WrittenTyped
<1>4. ASSUME Held(36) PROVE Held(36)'
  BY <1>1, <1>2, <1>4, EntriesTyped, MuteRegister DEF Held, Codec!Written
<1>. QED BY <1>3, <1>4

LEMMA AttemptStarts ==
    ASSUME CodecInv, reg' \in [Codec!Regs -> Int], Codec!NextAddress
    PROVE  CodecInv'
  BY DEF CodecInv, Codec!NextAddress, Codec!FirstStep, Held

LEMMA CodecActions ==
    ASSUME CodecInv,
           \/ Codec!WriteOk \/ Codec!WriteFailed \/ Codec!OpenOk \/ Codec!OpenFailed
           \/ (\E m \in BOOLEAN : Codec!Mute(m)) \/ Codec!Restart
    PROVE  CodecInv'
<1>1. CASE Codec!WriteFailed
  <2>1. step \in 1..36 /\ reg \in [Codec!Regs -> Int]
    BY DEF CodecInv
  <2>2. Seqn[step][1] \in Codec!Regs /\ Seqn[step][2] \in Int
    BY <2>1, EntriesTyped
  <2>3. reg' \in [Codec!Regs -> Int]
    BY <1>1, <2>1, <2>2, WrittenTyped DEF Codec!WriteFailed, Seqn
  <2>. QED BY <1>1, <2>3, AttemptStarts DEF Codec!WriteFailed
<1>2. CASE Codec!OpenOk
  BY <1>2, MutePreserves DEF CodecInv, Codec!OpenOk
<1>3. CASE Codec!OpenFailed
  <2>1. reg' \in [Codec!Regs -> Int]
    BY <1>3, MutePreserves DEF CodecInv, Codec!OpenFailed
  <2>. QED BY <1>3, <2>1, AttemptStarts DEF Codec!OpenFailed
<1>4. CASE \E m \in BOOLEAN : Codec!Mute(m)
  <2> PICK m \in BOOLEAN : Codec!Mute(m)
    BY <1>4
  <2>1. CASE Codec!SetMute(m)
    BY <2>1, MutePreserves DEF CodecInv, Codec!Mute
  <2>2. CASE reg' = reg
    BY <2>2 DEF CodecInv, Codec!Mute, Held
  <2>. QED BY <2>1, <2>2 DEF Codec!Mute
<1>5. CASE Codec!Restart
  BY <1>5 DEF CodecInv, Codec!Restart, Codec!FirstStep, Held
<1>. QED BY <1>1, <1>2, <1>3, <1>4, <1>5, WriteOkPreserves

-----------------------------------------------------------------------------
(* The board *)

LEMMA InitIInv == BoardInit => IInv
<1> SUFFICES ASSUME BoardInit PROVE IInv
  OBVIOUS
<1>1. ExpanderInv
  BY DEF BoardInit, Init, Pins, ExpanderInv, LatchFollowsShadow
<1>2. CodecInv
  BY DEF BoardInit, Codec!Init, Codec!FirstStep, CodecInv, Held
<1>. QED BY <1>1, <1>2 DEF IInv

LEMMA Untouched ==
    /\ CodecInv /\ UNCHANGED codec_vars => CodecInv'
    /\ ExpanderInv /\ UNCHANGED vars /\ stage' = stage => ExpanderInv'
<1>1. CodecInv /\ UNCHANGED codec_vars => CodecInv'
  BY DEF CodecInv, codec_vars, Held
<1>2. ExpanderInv /\ UNCHANGED vars /\ stage' = stage => ExpanderInv'
  BY DEF ExpanderInv, vars, LatchFollowsShadow
<1>. QED BY <1>1, <1>2

LEMMA Inductive == IInv /\ [BoardNext]_board_vars => IInv'
<1> SUFFICES ASSUME ExpanderInv, CodecInv, [BoardNext]_board_vars
             PROVE  ExpanderInv' /\ CodecInv'
  BY DEF IInv
<1>1. CASE InstallOk \/ InstallFailed
  <2>1. CodecInv'
    BY <1>1, Untouched DEF InstallOk, InstallFailed
  <2>2. ExpanderInv'
    BY <1>1 DEF InstallOk, InstallFailed, ExpanderInv, vars, LatchFollowsShadow
  <2>. QED BY <2>1, <2>2
<1>2. CASE Expander
  BY <1>2, ExpanderStep, Untouched DEF Expander
<1>3. CASE CodecStep
  <2>1. CodecInv'
    BY <1>3, CodecActions DEF CodecStep
  <2>2. ExpanderInv'
    BY <1>3 DEF CodecStep, ExpanderInv, vars, LatchFollowsShadow
  <2>. QED BY <2>1, <2>2
<1>4. CASE AudioIo
  <2>1. CASE (\E val \in 0..1 : Amplifier(val)) /\ UNCHANGED codec_vars
    BY <1>4, <2>1, Untouched, PinWriteFollows DEF AudioIo, Amplifier, ExpanderInv
  <2>2. CASE (\E m \in BOOLEAN : Codec!Mute(m)) /\ UNCHANGED vars
    BY <1>4, <2>2, Untouched, CodecActions DEF AudioIo
  <2>. QED BY <1>4, <2>1, <2>2 DEF AudioIo
<1>5. CASE Reset
  <2>1. CodecInv'
    BY <1>5, CodecActions DEF Reset
  <2>2. ExpanderInv'
    BY <1>5 DEF Reset, Restart, Start, Pins, ExpanderInv, LatchFollowsShadow
  <2>. QED BY <2>1, <2>2
<1>6. CASE BusChanges /\ UNCHANGED <<stage, codec_vars>>
  <2>1. CodecInv'
    BY <1>6, Untouched
  <2>2. ExpanderInv'
    BY <1>6 DEF BusChanges, ExpanderInv, LatchFollowsShadow
  <2>. QED BY <2>1, <2>2
<1>7. CASE UNCHANGED board_vars
  BY <1>7, Untouched DEF board_vars
<1>. QED BY <1>1, <1>2, <1>3, <1>4, <1>5, <1>6, <1>7 DEF BoardNext

\* Expander and codec keep their joint invariant through failures, restarts and
\* second attempts, for every number of retries and wherever the codec answers.
THEOREM InductiveInvariant == BoardSpec => []IInv
  BY InitIInv, Inductive, PTL DEF BoardSpec

\* The latch is the shadow whenever the last write was acknowledged.
THEOREM LatchRight == BoardSpec => []LatchFollowsShadow
<1>1. IInv => LatchFollowsShadow
  BY DEF IInv, ExpanderInv
<1>. QED BY <1>1, InductiveInvariant, PTL

\* Both chips are configured behind their initialisation, broken off attempts
\* and restarts before it notwithstanding.
THEOREM Configured == BoardSpec => []BootedConfigured
<1>1. IInv => BootedConfigured
  <2> SUFFICES ASSUME IInv PROVE BootedConfigured
    OBVIOUS
  <2>1. stage \in {"codec", "run"} => driven
    BY DEF IInv, ExpanderInv
  <2>2. Codec!ConfiguredWhenOk
    <3> SUFFICES ASSUME codec = "ok", NEW i \in 1..36,
                        Codec!Lasting(i), Seqn[i][1] # DacControl3
                 PROVE  reg[Seqn[i][1]] = Seqn[i][2]
      BY SequenceFacts DEF Codec!ConfiguredWhenOk, Seqn, DacControl3
    <3>1. Held(36)
      BY DEF IInv, CodecInv
    <3>2. \A j \in 1..36 : j > i => Seqn[j][1] # Seqn[i][1]
      BY SequenceFacts DEF Codec!Lasting, Seqn
    <3>. QED BY <3>1, <3>2 DEF Held
  <2>. QED BY <2>1, <2>2 DEF BootedConfigured
<1>. QED BY <1>1, InductiveInvariant, PTL

\* A boot, also one after a restart in the middle of a sound, is silent while the
\* expander acknowledges, and while the codec is written even if it does not.
THEOREM BootsQuietly == BoardSpec => []QuietBoot
<1>1. IInv => QuietBoot
  <2> SUFFICES ASSUME IInv PROVE QuietBoot
    OBVIOUS
  <2>1. stage \in {"expander", "codec"} /\ acked => ~Audible
    BY DEF IInv, ExpanderInv, LatchFollowsShadow, Audible, AmpOn
  <2>2. stage = "codec" /\ codec = "write" /\ attempt = ChipAt /\ step > 1 => ~Audible
    <3> SUFFICES ASSUME codec = "write", step > 1 PROVE Codec!Muted
      BY DEF Audible
    <3>1. reg[DacControl3] = 4
      BY DEF IInv, CodecInv
    <3>. QED BY <3>1 DEF Codec!Muted, Codec!MuteBit, DacControl3
  <2>. QED BY <2>1, <2>2 DEF QuietBoot
<1>. QED BY <1>1, InductiveInvariant, PTL

-----------------------------------------------------------------------------
(* Why a boot ends: on a working bus every step brings it nearer.           *)

ExpanderLeft ==
    IF pc = "outputs" THEN 5 ELSE IF pc = "retry" THEN 4 ELSE IF pc = "config" THEN 3
    ELSE IF pc = "beep" THEN 2 ELSE IF pc = "speaker" THEN 1 ELSE 0

\* The entries still to be written at this address and at the one after it.
CodecLeft == 40 * (2 - attempt) + IF codec = "write" THEN 38 - step ELSE 1

BootLeft ==
    IF stage = "bus" THEN 90
    ELSE IF stage = "expander" THEN 80 + ExpanderLeft
    ELSE IF stage = "codec" THEN CodecLeft ELSE 0

Attempts == attempt \in 1..2

LEMMA AttemptsStep == Attempts /\ [BoardNext]_board_vars => Attempts'
<1> SUFFICES ASSUME Attempts, [BoardNext]_board_vars PROVE Attempts'
  OBVIOUS
<1>1. CASE CodecStep
  <2>1. ASSUME Codec!NextAddress PROVE Attempts'
    BY <2>1 DEF Codec!NextAddress, Attempts
  <2>2. CASE Codec!WriteOk \/ Codec!OpenOk
    BY <2>2 DEF Codec!WriteOk, Codec!OpenOk, Attempts
  <2>3. CASE Codec!WriteFailed \/ Codec!OpenFailed
    BY <2>1, <2>3 DEF Codec!WriteFailed, Codec!OpenFailed
  <2> QED BY <1>1, <2>2, <2>3 DEF CodecStep
<1>2. CASE AudioIo \/ Reset
  BY <1>2 DEF AudioIo, Codec!Mute, Reset, Codec!Restart, codec_vars, Attempts
<1>3. CASE attempt' = attempt
  BY <1>3 DEF Attempts
<1> QED BY <1>1, <1>2, <1>3 DEF BoardNext, InstallOk, InstallFailed, Expander, codec_vars,
        board_vars

LEMMA CodecLeftRange ==
    ASSUME Attempts, step \in 1..36
    PROVE  CodecLeft \in 1..77
<1>1. PICK a \in 1..2, k \in 1..36 : a = attempt /\ k = step
  BY DEF Attempts
<1>2. CodecLeft = 40 * (2 - a) + IF codec = "write" THEN 38 - k ELSE 1
  BY <1>1, Zenon DEF CodecLeft
<1> QED BY <1>1, <1>2

\* The codec goes on in its sequence, to the other address, or is through.
LEMMA CodecNearer ==
    ASSUME Attempts, step \in 1..36, CodecStep
    PROVE  codec' \in {"ok", "failed"} \/ CodecLeft' < CodecLeft
<1>1. PICK a \in 1..2, k \in 1..36 : a = attempt /\ k = step
  BY DEF Attempts
<1>2. CASE Codec!WriteOk
  <2>1. /\ codec = "write" /\ attempt' = a
        /\ (codec' = "write" /\ step' = k + 1) \/ codec' = "open"
    BY <1>1, <1>2 DEF Codec!WriteOk
  <2>2. CodecLeft = 40 * (2 - a) + (38 - k)
    BY <1>1, <2>1 DEF CodecLeft
  <2>3. CodecLeft' = 40 * (2 - a) + (38 - (k + 1)) \/ CodecLeft' = 40 * (2 - a) + 1
    BY <2>1 DEF CodecLeft
  <2> QED BY <1>1, <2>2, <2>3
<1>3. CASE Codec!WriteFailed \/ Codec!OpenFailed
  <2>0. Codec!NextAddress
    BY <1>3 DEF Codec!WriteFailed, Codec!OpenFailed
  <2>1. CASE a = 2
    BY <1>1, <2>0, <2>1 DEF Codec!NextAddress
  <2>2. CASE a = 1
    <3>1. attempt' = 2 /\ codec' = "write" /\ step' = 1
      BY <1>1, <2>0, <2>2 DEF Codec!NextAddress, Codec!FirstStep
    <3>2. CodecLeft' = 37
      BY <3>1 DEF CodecLeft
    <3>3. CodecLeft = 40 + IF codec = "write" THEN 38 - k ELSE 1
      BY <1>1, <2>2 DEF CodecLeft
    <3> QED BY <1>1, <3>2, <3>3
  <2> QED BY <2>1, <2>2
<1>4. CASE Codec!OpenOk
  BY <1>4 DEF Codec!OpenOk
<1> QED BY <1>2, <1>3, <1>4 DEF CodecStep

\* With the bus working a boot is over after at most 90 steps, at whichever
\* address the codec answers and wherever the initialisation stood before.
THEOREM BootEnds ==
    BoardSpec => /\ [](BootLeft \in 0..90)
                 /\ [][bus /\ (InstallOk \/ Expander \/ CodecStep) =>
                         BootLeft' < BootLeft]_board_vars
<1>1. BoardInit => Attempts
  BY DEF BoardInit, Codec!Init, Attempts
<1>2. IInv /\ Attempts => CodecLeft \in 1..77 /\ step \in 1..36
  BY CodecLeftRange DEF IInv, CodecInv
<1>3. CodecLeft \in 1..77 => BootLeft \in 0..90
  BY DEF BootLeft, ExpanderLeft
<1>4. IInv /\ Attempts /\ CodecLeft \in 1..77 /\ (CodecLeft \in 1..77)' =>
        [bus /\ (InstallOk \/ Expander \/ CodecStep) => BootLeft' < BootLeft]_board_vars
  <2> SUFFICES ASSUME IInv, Attempts, CodecLeft \in 1..77, (CodecLeft \in 1..77)',
                      bus, InstallOk \/ Expander \/ CodecStep
               PROVE  BootLeft' < BootLeft
    OBVIOUS
  <2>1. CodecLeft \in 1..77 /\ CodecLeft' \in 1..77
    OBVIOUS
  <2>2. CASE InstallOk
    BY <2>2 DEF InstallOk, BootLeft, ExpanderLeft
  <2>3. CASE Expander
    <3>1. PICK e \in 0..5, e1 \in 0..5 : e = ExpanderLeft /\ e1 = ExpanderLeft'
      BY DEF ExpanderLeft
    <3>2. e1 < e /\ pc' # "outputs"
      <4>1. ~ConfigFailed
        BY DEF ConfigFailed
      <4>2. ExpanderLeft' < ExpanderLeft /\ pc' # "outputs"
        <5> USE DEF ExpanderLeft
        <5>1. CASE DefaultOutputs BY <5>1 DEF DefaultOutputs
        <5>2. CASE ConfigOk BY <5>2 DEF ConfigOk
        <5>3. CASE Retry BY <5>3 DEF Retry
        <5>4. CASE Beep BY <5>4 DEF Beep
        <5>5. CASE Speaker BY <5>5 DEF Speaker
        <5> QED BY <2>3, <4>1, <5>1, <5>2, <5>3, <5>4, <5>5 DEF Expander, InitSteps
      <4> QED BY <3>1, <4>2
    <3>3. stage = "expander" /\ stage' \in {"codec", "expander"}
      BY <2>3, <3>2 DEF Expander
    <3>4. BootLeft = 80 + e
      BY <3>1, <3>3 DEF BootLeft
    <3>5. CASE stage' = "codec"
      <4>1. BootLeft' = CodecLeft'
        BY <3>5 DEF BootLeft
      <4> QED BY <2>1, <3>4, <4>1
    <3>6. CASE stage' = "expander"
      <4>1. BootLeft' = 80 + e1
        BY <3>1, <3>6 DEF BootLeft
      <4> QED BY <3>2, <3>4, <4>1
    <3> QED BY <3>3, <3>5, <3>6
  <2>4. CASE CodecStep
    <3>1. stage = "codec" /\ BootLeft = CodecLeft
      BY <2>4 DEF CodecStep, BootLeft
    <3>2. CASE codec' \in {"ok", "failed"}
      <4>1. BootLeft' = 0
        BY <2>4, <3>2 DEF CodecStep, BootLeft
      <4>2. CodecLeft > 0
        BY <2>1
      <4> QED BY <3>1, <4>1, <4>2
    <3>3. CASE codec' \notin {"ok", "failed"}
      <4>1. stage' = "codec" /\ CodecLeft' < CodecLeft
        BY <1>2, <2>4, <3>1, <3>3, CodecNearer DEF CodecStep
      <4> QED BY <3>1, <4>1 DEF BootLeft
    <3> QED BY <3>2, <3>3
  <2> QED BY <2>2, <2>3, <2>4
<1> QED BY <1>1, <1>2, <1>3, <1>4, AttemptsStep, InductiveInvariant, PTL DEF BoardSpec
=============================================================================
