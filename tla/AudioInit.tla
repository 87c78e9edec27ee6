------------------------------ MODULE AudioInit ------------------------------
(***************************************************************************)
(* audio_io_init: the ladder that brings up the codec, the transmitter     *)
(* mutex, the two I2S channels and the background task.  Every rung may    *)
(* fail; what it has to undo, and which flags it leaves, differs.          *)
(***************************************************************************)

VARIABLES
    init_pc,        \* the next rung, then "ok" or "failed"
    tx, rx,         \* the channels s_tx and s_rx: "none", "created",
                    \* "configured" or "enabled"
    s_tx_enabled, s_ready, s_mic_ready,
    tx_mutex,       \* s_tx_mutex # NULL
    audio_task      \* audio_task exists

channels == <<tx, rx>>
flags    == <<s_tx_enabled, s_ready, s_mic_ready>>
initVars == <<init_pc, channels, flags, tx_mutex, audio_task>>

Rungs    == {"codec", "mutex", "channels", "tx_init", "tx_enable", "rx_init",
             "rx_enable", "task"}
Channel  == {"none", "created", "configured", "enabled"}

InitTypeOK ==
    /\ init_pc \in Rungs \cup {"ok", "failed"}
    /\ tx \in Channel /\ rx \in Channel
    /\ s_tx_enabled \in BOOLEAN /\ s_ready \in BOOLEAN /\ s_mic_ready \in BOOLEAN
    /\ tx_mutex \in BOOLEAN /\ audio_task \in BOOLEAN

InitAudio ==
    /\ init_pc = "codec"
    /\ tx = "none" /\ rx = "none"
    /\ s_tx_enabled = FALSE /\ s_ready = FALSE /\ s_mic_ready = FALSE
    /\ tx_mutex = FALSE /\ audio_task = FALSE

Codec ==           \* es8388_hw_init_for_speaker, module Es8388
    /\ init_pc = "codec"
    /\ init_pc' \in {"mutex", "failed"}
    /\ UNCHANGED <<channels, flags, tx_mutex, audio_task>>

CreateMutex ==
    /\ init_pc = "mutex"
    /\ \/ init_pc' = "channels" /\ tx_mutex' = TRUE
       \/ init_pc' = "failed" /\ UNCHANGED tx_mutex
    /\ UNCHANGED <<channels, flags, audio_task>>

NewChannels ==
    /\ init_pc = "channels"
    /\ \/ init_pc' = "tx_init" /\ tx' = "created" /\ rx' = "created"
       \/ init_pc' = "failed" /\ UNCHANGED channels
    /\ UNCHANGED <<flags, tx_mutex, audio_task>>

\* A failure of the transmitter deletes s_tx alone: s_rx stays created.
TxFailed ==
    /\ init_pc' = "failed" /\ tx' = "none" /\ UNCHANGED s_tx_enabled

TxInit ==
    /\ init_pc = "tx_init"
    /\ \/ init_pc' = "tx_enable" /\ tx' = "configured" /\ UNCHANGED s_tx_enabled
       \/ TxFailed
    /\ UNCHANGED <<rx, s_ready, s_mic_ready, tx_mutex, audio_task>>

TxEnable ==
    /\ init_pc = "tx_enable"
    /\ \/ init_pc' = "rx_init" /\ tx' = "enabled" /\ s_tx_enabled' = TRUE
       \/ TxFailed
    /\ UNCHANGED <<rx, s_ready, s_mic_ready, tx_mutex, audio_task>>

RxFailed ==        \* a failure of the receiver takes both channels down
    /\ init_pc' = "failed"
    /\ tx' = "none" /\ s_tx_enabled' = FALSE
    /\ rx' = "none"
    /\ s_ready' = FALSE /\ s_mic_ready' = FALSE

RxInit ==
    /\ init_pc = "rx_init"
    /\ \/ init_pc' = "rx_enable" /\ rx' = "configured" /\ UNCHANGED <<tx, flags>>
       \/ RxFailed
    /\ UNCHANGED <<tx_mutex, audio_task>>

RxEnable ==        \* then the codec is muted, its result only logged
    /\ init_pc = "rx_enable"
    /\ \/ /\ init_pc' = "task" /\ rx' = "enabled" /\ s_mic_ready' = TRUE
          /\ UNCHANGED <<tx, s_tx_enabled, s_ready>>
       \/ RxFailed
    /\ UNCHANGED <<tx_mutex, audio_task>>

CreateAudioTask == \* on failure the receiver keeps running
    /\ init_pc = "task"
    /\ \/ init_pc' = "ok" /\ audio_task' = TRUE /\ s_ready' = TRUE
          /\ UNCHANGED <<tx, s_tx_enabled>>
       \/ init_pc' = "failed" /\ tx' = "none" /\ s_tx_enabled' = FALSE
          /\ s_ready' = FALSE /\ UNCHANGED audio_task
    /\ UNCHANGED <<rx, s_mic_ready, tx_mutex>>

AudioInitNext ==
    \/ Codec \/ CreateMutex \/ NewChannels \/ TxInit \/ TxEnable
    \/ RxInit \/ RxEnable \/ CreateAudioTask

\* What the flags promise the rest of the program, wherever the ladder broke:
\* the speaker can be used (channel, mutex and feeding task) when s_ready, the
\* microphone when s_mic_ready; and the task never runs on a deleted channel.
FlagsTruthful ==
    /\ s_tx_enabled <=> tx = "enabled"
    /\ s_ready => s_tx_enabled /\ tx_mutex /\ audio_task
    /\ s_mic_ready => rx = "enabled"
    /\ audio_task => tx = "enabled" /\ tx_mutex
=============================================================================
