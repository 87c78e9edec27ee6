------------------------------- MODULE Es8388 -------------------------------
(***************************************************************************)
(* components/audio_io/es8388_hw.c: the codec is programmed register by    *)
(* register over I2C, at one of two bus addresses, and muted and opened    *)
(* afterwards.  A transfer may fail, and a failed one may have reached the *)
(* chip.  The chip keeps its registers when the processor restarts.        *)
(***************************************************************************)
EXTENDS Naturals, Sequences

CONSTANTS ChipAt    \* where the chip answers: 1 primary, 2 fallback, 0 nowhere

ES8388_DACCONTROL3 == \h19

\* The calls of W(reg, value) in order, by register number.
InitSequence ==
    << <<\h19, \h04>>, <<\h01, \h50>>, <<\h02, \h00>>, <<\h35, \hA0>>, <<\h37, \hD0>>,
       <<\h39, \hD0>>, <<\h08, \h00>>, <<\h04, \hC0>>, <<\h00, \h12>>, <<\h17, \h18>>,
       <<\h18, \h02>>, <<\h26, \h00>>, <<\h27, \hB8>>, <<\h2A, \hB8>>, <<\h2B, \h80>>,
       <<\h2D, \h00>>, <<\h1A, \h00>>, <<\h1B, \h00>>, <<\h08, \h1E>>, <<\h08, \h1E>>,
       <<\h30, \h14>>, <<\h31, \h14>>, <<\h04, \h3C>>, <<\h03, \hFF>>, <<\h09, \h88>>,
       <<\h0A, \h00>>, <<\h0B, \h02>>, <<\h0C, \h0C>>, <<\h0D, \h02>>, <<\h10, \h18>>,
       <<\h11, \h18>>, <<\h03, \h09>>, <<\h2B, \h80>>, <<\h02, \hF0>>, <<\h02, \h00>>,
       <<\h04, \h3C>> >>

\* The entries that write ES8388_DACCONTROL24 and _DACCONTROL25, the output
\* volumes.  Both names are defined as 0x08, the number of ES8388_MASTERMODE.
Misnumbered == {19, 20}

Regs == {InitSequence[i][1] : i \in DOMAIN InitSequence}

VARIABLES
    pc,       \* "write": in the sequence, "open": at its final unmute, then
              \* "ok" or "failed" as es8388_hw_init_for_speaker returned
    attempt,  \* index into addrs, and so s_es8388_addr
    step,     \* the next entry of InitSequence
    reg       \* the chip's registers

vars == <<pc, attempt, step, reg>>

MuteBit(v) == (v \div 4) % 2
WithMute(v, m) == v - 4 * MuteBit(v) + IF m THEN 4 ELSE 0
Muted == MuteBit(reg[ES8388_DACCONTROL3]) = 1

\* Mutant: the sequence begins after its first entry, which mutes the DAC.
FirstStepUnmuted == 2

FirstStep == 1

\* The chip has just got power, or holds what an earlier run left in it.
Init ==
    /\ pc = "write" /\ attempt = 1 /\ step = FirstStep
    /\ reg \in {[r \in Regs |-> v] : v \in {\h00, \hFF}}

NextAddress ==
    IF attempt = 2
    THEN pc' = "failed" /\ UNCHANGED <<attempt, step>>
    ELSE pc' = "write" /\ attempt' = 2 /\ step' = FirstStep

\* Can the transfer have changed the chip?
Reaches == attempt = ChipAt

Written(r, v) == reg' = [reg EXCEPT ![r] = v]

WriteOk ==         \* wseq: the value read back is only logged
    /\ pc = "write" /\ Reaches
    /\ Written(InitSequence[step][1], InitSequence[step][2])
    /\ \/ step < Len(InitSequence) /\ step' = step + 1 /\ UNCHANGED pc
       \/ step = Len(InitSequence) /\ pc' = "open" /\ UNCHANGED step
    /\ UNCHANGED attempt

WriteFailed ==
    /\ pc = "write"
    /\ UNCHANGED reg \/ (Reaches /\ Written(InitSequence[step][1], InitSequence[step][2]))
    /\ NextAddress

SetMute(m) == Written(ES8388_DACCONTROL3, WithMute(reg[ES8388_DACCONTROL3], m))

OpenOk ==          \* es8388_hw_mute(i2c, false)
    /\ pc = "open" /\ Reaches
    /\ SetMute(FALSE)
    /\ pc' = "ok"
    /\ UNCHANGED <<attempt, step>>

OpenFailed ==
    /\ pc = "open"
    /\ UNCHANGED reg \/ SetMute(FALSE)
    /\ NextAddress

Mute(m) ==         \* es8388_hw_mute called by audio_io at run time
    /\ pc = "ok"
    /\ UNCHANGED reg \/ SetMute(m)
    /\ UNCHANGED <<pc, attempt, step>>

Restart ==         \* the processor restarts; s_es8388_addr has no initial role
    /\ pc' = "write" /\ attempt' = 1 /\ step' = FirstStep
    /\ UNCHANGED reg

Next ==
    \/ WriteOk \/ WriteFailed \/ OpenOk \/ OpenFailed
    \/ (\E m \in BOOLEAN : Mute(m)) \/ Restart

Spec == Init /\ [][Next]_vars

-----------------------------------------------------------------------------
(* Properties *)

\* No later entry of the sequence writes the register of entry i.
Lasting(i) ==
    \A j \in DOMAIN InitSequence :
        j > i => InitSequence[j][1] # InitSequence[i][1]

\* ESP_OK means that the whole sequence is in the chip, although an attempt
\* before may have broken off anywhere in it, at the other address or in an
\* earlier run; only the mute bit moves afterwards.
ConfiguredWhenOk ==
    pc = "ok" =>
        \A i \in DOMAIN InitSequence :
            Lasting(i) /\ InitSequence[i][1] # ES8388_DACCONTROL3 =>
                reg[InitSequence[i][1]] = InitSequence[i][2]

\* Entries i and j name the same register: of those with one number only the two
\* misnumbered ones bear names of their own.
SameName(i, j) ==
    /\ InitSequence[i][1] = InitSequence[j][1]
    /\ i \in Misnumbered \/ j \in Misnumbered => i = j

\* "The register numbers agree with those of the data sheet" (es8388_hw.c:9): what
\* the sequence writes under a name, "I2S slave" under ES8388_MASTERMODE (143) as
\* any other, it does not overwrite under another; at its end each register but
\* the one with the mute bit holds the last value written under its name.
NamesAreRegisters ==
    pc = "ok" =>
        \A i \in DOMAIN InitSequence :
            \/ InitSequence[i][1] = ES8388_DACCONTROL3
            \/ \E j \in DOMAIN InitSequence : j > i /\ SameName(i, j)
            \/ reg[InitSequence[i][1]] = InitSequence[i][2]
=============================================================================
