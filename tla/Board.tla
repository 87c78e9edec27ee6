-------------------------------- MODULE Board --------------------------------
(***************************************************************************)
(* The boot of app_main (main.c) as far as it is done over the I2C bus:    *)
(* iic_init, xl9555_init and the codec's part of audio_io_init one after   *)
(* the other on one bus that fails and recovers anywhere, restarts in      *)
(* between, and afterwards what audio_io asks of the two chips at run      *)
(* time.                                                                   *)
(***************************************************************************)
EXTENDS Xl9555

CONSTANT ChipAt       \* where the codec answers: 1 primary, 2 fallback, 0 nowhere

ASSUME ChipAtAssumption == ChipAt \in 0..2

VARIABLES
    stage,       \* "bus": iic_init, "expander": xl9555_init, "codec":
                 \* es8388_hw_init_for_speaker, "run": behind them;
                 \* "stuck": iic_init reports an error for ever
    codec, attempt, step, reg

Codec == INSTANCE Es8388 WITH pc <- codec

codec_vars == <<codec, attempt, step, reg>>
board_vars == <<stage, vars, codec_vars>>

BoardInit == stage = "bus" /\ Init /\ Codec!Init

InstallOk ==         \* i2c_driver_install
    /\ stage = "bus"
    /\ stage' = "expander"
    /\ UNCHANGED <<vars, codec_vars>>

InstallFailed ==     \* while(1): it is not tried again
    /\ stage = "bus"
    /\ stage' = "stuck"
    /\ UNCHANGED <<vars, codec_vars>>

Expander ==          \* esp_restart begins again at app_main
    /\ stage = "expander"
    /\ InitSteps
    /\ stage' = CASE pc' = "run" -> "codec" [] pc' = "outputs" -> "bus" [] OTHER -> stage
    /\ UNCHANGED codec_vars

CodecStep ==
    /\ stage = "codec"
    /\ \/ bus /\ (Codec!WriteOk \/ Codec!OpenOk)
       \/ ~(bus /\ Codec!Reaches) /\ (Codec!WriteFailed \/ Codec!OpenFailed)
    /\ stage' = IF codec' \in {"ok", "failed"} THEN "run" ELSE stage
    /\ UNCHANGED vars

AudioIo ==           \* audio_io: SPK_EN and mute at run time
    /\ stage = "run"
    /\ \/ (\E val \in 0..1 : Amplifier(val)) /\ UNCHANGED codec_vars
       \/ (\E m \in BOOLEAN : Codec!Mute(m)) /\ UNCHANGED vars
    /\ UNCHANGED stage

Reset ==
    /\ stage' = "bus"
    /\ Restart /\ Codec!Restart

BoardNext ==
    \/ InstallOk \/ InstallFailed \/ Expander \/ CodecStep \/ AudioIo \/ Reset
    \/ BusChanges /\ UNCHANGED <<stage, codec_vars>>

BoardSpec == BoardInit /\ [][BoardNext]_board_vars

\* app_main runs on: every transfer and every delay returns.
FairBoardSpec == BoardSpec /\ WF_board_vars(InstallOk \/ Expander \/ CodecStep)

-----------------------------------------------------------------------------
(* Properties *)

\* Behind xl9555_init the outputs are driven, whatever failed on the way and
\* however often, and ESP_OK of the codec means that its whole sequence is in
\* the chip, although attempts before broke off anywhere.
BootedConfigured ==
    /\ stage \in {"codec", "run"} => driven
    /\ Codec!ConfiguredWhenOk

Audible == AmpOn /\ ~Codec!Muted

\* No boot goes on with a sound in the middle of which the processor restarted:
\* once the expander has acknowledged a transfer, and as long as its last one was
\* acknowledged, the amplifier is off until audio_io asks for it; and whatever the
\* expander did, the codec is muted from its first register written on until all
\* are.  Before, and while the expander does not answer, the old sound may go on.
QuietBoot ==
    /\ stage \in {"expander", "codec"} /\ acked => ~Audible
    /\ stage = "codec" /\ codec = "write" /\ attempt = ChipAt /\ step > 1 => ~Audible

\* A bus that comes back lets the program boot: the retries, the restarts and
\* the two addresses come to an end.
BootsWhenBusWorks ==
    <>[](bus /\ stage # "stuck") /\ <>[][~Reset]_board_vars => <>(stage = "run")
=============================================================================
