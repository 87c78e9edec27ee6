------------------------------ MODULE Resampler ------------------------------
(***************************************************************************)
(* The loop of audio_io_playback_write_pcm (audio_io.c): a piece of sound  *)
(* is resampled to the rate of the transmitter and handed to it in blocks. *)
(*                                                                         *)
(* A frame of the sound is its index; that its one or two channels become  *)
(* one value for both sides is left out.  All products are of 64 bits.     *)
(***************************************************************************)
EXTENDS Integers, Sequences

CONSTANTS
    OutRate,        \* AUDIO_SAMPLE_RATE_HZ (16000)
    FramesPerWrite, \* FRAMES_PER_WRITE
    Sounds          \* pieces that occur: [count : frame_count, rate : sample_rate_hz]

ASSUME RatesAssumption ==
    /\ OutRate \in Nat \ {0} /\ FramesPerWrite \in Nat \ {0}
    /\ Sounds \subseteq [count : Nat \ {0}, rate : Nat \ {0}]

VARIABLES
    sound,          \* the piece being written
    out_pos,        \* frames handed to the transmitter, accepted or not
    played,         \* history: source frames it accepted, in order
    whole           \* history: it accepted all of each block

sound_vars == <<sound, out_pos, played, whole>>

Smaller(a, b) == IF a < b THEN a ELSE b
Larger(a, b)  == IF a > b THEN a ELSE b

\* out_frames_total
OutTotal == Larger(1, (sound.count * OutRate) \div sound.rate)

\* Mutant: the last block is as long as the others.
TodoFull == FramesPerWrite

Todo == Smaller(OutTotal - out_pos, FramesPerWrite)

\* src_frame of output frame p
SrcFrame(p) == Smaller((p * sound.rate) \div OutRate, sound.count - 1)

\* Mutant: each block starts again at the beginning of the piece.
BlockRestarts == [i \in 1..Todo |-> SrcFrame(i - 1)]

Block == [i \in 1..Todo |-> SrcFrame(out_pos + i - 1)]

Begin(s) ==
    /\ sound' = s
    /\ out_pos' = 0 /\ played' = <<>> /\ whole' = TRUE

NoSound == [count |-> 0, rate |-> 1]

Silent ==
    /\ sound = NoSound
    /\ out_pos = 0 /\ played = <<>> /\ whole = TRUE

Unwritten == out_pos < OutTotal

\* i2s_channel_write returns ESP_OK for n frames; a short write is only logged.
Transmit(n) ==
    /\ played' = played \o SubSeq(Block, 1, n)
    /\ whole' = (whole /\ n = Todo)
    /\ out_pos' = out_pos + Todo
    /\ UNCHANGED sound

-----------------------------------------------------------------------------
(* Properties *)

\* Of a piece that was accepted whole, the frame heard at any time of the output
\* is the one that sounds at that time in the source: across the blocks, and
\* without ever needing the clamp to the last frame.
SoundInTime ==
    whole => \A p \in 1..Len(played) :
                 /\ played[p] * OutRate <= (p - 1) * sound.rate
                 /\ (p - 1) * sound.rate < (played[p] + 1) * OutRate

\* Once it is written, less than one output frame of it is missing, and nothing
\* is added unless the whole piece is shorter than that.
SoundComplete ==
    whole /\ ~Unwritten =>
        /\ (Len(played) + 1) * sound.rate > sound.count * OutRate
        /\ \/ Len(played) * sound.rate <= sound.count * OutRate
           \/ Len(played) = 1
=============================================================================
