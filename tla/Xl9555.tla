------------------------------- MODULE Xl9555 -------------------------------
(***************************************************************************)
(* components/XL9555: the port expander that drives the amplifier enable   *)
(* (SPK_EN, low is on) and the buzzer (BEEP).  The driver writes all its   *)
(* outputs from a shadow in memory; a transfer may fail and may have       *)
(* reached the chip all the same.  The chip keeps its latch and directions *)
(* when only the processor restarts, which xl9555_ioconfig itself makes    *)
(* happen when it cannot reach the chip.                                   *)
(***************************************************************************)
EXTENDS Naturals

CONSTANT Retries      \* int retry = 3

ASSUME RetriesAssumption == Retries \in Nat \ {0}

SPK_EN == "SPK_EN"
BEEP   == "BEEP"
Pins   == {SPK_EN, BEEP, "others"}      \* the output pins

VARIABLES
    pc,          \* "outputs", "config", "retry", "beep", "speaker": xl9555_init;
                 \* "run": it has returned
    retry,
    shadow,      \* s_xl9555_output_shadow, as the set of its high pins
    latch,       \* the chip's output register
    driven,      \* the chip's direction register is 0xF003
    bus,         \* does the bus work?
    acked        \* history: the last output write was acknowledged

vars == <<pc, retry, shadow, latch, driven, bus, acked>>

\* The amplifier is powered: SPK_EN is an output and low.
AmpOn == driven /\ SPK_EN \notin latch

Start ==           \* the statics get their initial values
    /\ pc' = "outputs" /\ retry' = Retries /\ shadow' = Pins /\ acked' = FALSE

Init ==            \* power on
    /\ pc = "outputs" /\ retry = Retries /\ shadow = Pins
    /\ latch = Pins /\ driven = FALSE
    /\ bus \in BOOLEAN /\ acked = FALSE

\* xl9555_write_byte(XL9555_OUTPUT_PORT0_REG, out): the caller ignores the result.
WriteOutputs(out) ==
    \/ bus /\ latch' = out /\ acked' = TRUE
    \/ ~bus /\ latch' \in {latch, out} /\ acked' = FALSE

Level(pin, val) == IF val = 1 THEN shadow \cup {pin} ELSE shadow \ {pin}

\* Mutant: the shadow keeps its bit.
PinWriteKeepsShadow(pin, val) ==
    WriteOutputs(Level(pin, val)) /\ UNCHANGED shadow

PinWrite(pin, val) ==
    /\ shadow' = Level(pin, val)
    /\ WriteOutputs(shadow')

DefaultOutputs ==
    /\ pc = "outputs"
    /\ WriteOutputs(shadow)
    /\ pc' = "config"
    /\ UNCHANGED <<retry, shadow, driven, bus>>

ConfigOk ==
    /\ pc = "config" /\ bus
    /\ driven' = TRUE
    /\ pc' = "beep"
    /\ UNCHANGED <<retry, shadow, latch, bus, acked>>

\* Mutant: out of retries the driver goes on.
ConfigGivesUp ==
    /\ pc = "config" /\ ~bus
    /\ driven' \in {driven, TRUE}
    /\ IF retry > 1 THEN retry' = retry - 1 /\ pc' = "retry"
                    ELSE pc' = "beep" /\ UNCHANGED retry
    /\ UNCHANGED <<shadow, latch, bus, acked>>

ConfigFailed ==    \* after the last retry: 5000 ticks, then esp_restart
    /\ pc = "config" /\ ~bus
    /\ driven' \in {driven, TRUE}
    /\ IF retry > 1
       THEN retry' = retry - 1 /\ pc' = "retry" /\ UNCHANGED <<shadow, acked>>
       ELSE Start
    /\ UNCHANGED <<latch, bus>>

\* Mutant: the loop ends after a failure.
RetryEnds ==
    /\ pc = "retry" /\ retry = Retries
    /\ pc' = "config"
    /\ UNCHANGED <<retry, shadow, latch, driven, bus, acked>>

Retry ==
    /\ pc = "retry"
    /\ pc' = "config"
    /\ UNCHANGED <<retry, shadow, latch, driven, bus, acked>>

Beep ==
    /\ pc = "beep"
    /\ PinWrite(BEEP, 1)
    /\ pc' = "speaker"
    /\ UNCHANGED <<retry, driven, bus>>

Speaker ==         \* "SPK_EN_IO default high/off"
    /\ pc = "speaker"
    /\ PinWrite(SPK_EN, 1)
    /\ pc' = "run"
    /\ UNCHANGED <<retry, driven, bus>>

Amplifier(val) ==  \* audio_io's xl9555_pin_write(SPK_EN_IO, val)
    /\ pc = "run"
    /\ PinWrite(SPK_EN, val)
    /\ UNCHANGED <<pc, retry, driven, bus>>

Restart ==         \* panic, brown-out or reset button: the chip keeps its power
    /\ Start
    /\ UNCHANGED <<latch, driven, bus>>

BusChanges ==
    /\ bus' = ~bus
    /\ UNCHANGED <<pc, retry, shadow, latch, driven, acked>>

InitSteps == DefaultOutputs \/ ConfigOk \/ ConfigFailed \/ Retry \/ Beep \/ Speaker

-----------------------------------------------------------------------------
(* Property *)

\* The other outputs stay as xl9555_init left them and the amplifier is where
\* the last call put it, as soon as one transfer was acknowledged: nothing of a
\* failed write or of the run before the restart is left in the latch.
LatchFollowsShadow == acked => latch = shadow
=============================================================================
