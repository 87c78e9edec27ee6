-------------------------- MODULE Mp3PlaybackProofs --------------------------
(***************************************************************************)
(* voice_stream_mp3_url for all sizes of buffer, chunk, frame and body for *)
(* which a frame and the next header fit in what is buffered (Spec, of     *)
(* Mp3Stream); and with the resampler in it for every rate, every size of  *)
(* block and every piece of sound (PlaySpec, of Mp3Playback): the sound    *)
(* keeps its time, and the whole implements Mp3Stream.  Either way every   *)
(* step brings the reply nearer to its end.                                *)
(***************************************************************************)
EXTENDS Mp3Playback, TLAPS

LEMMA Division ==
    ASSUME NEW a \in Nat, NEW b \in Nat \ {0}
    PROVE  /\ a \div b \in Nat
           /\ (a \div b) * b <= a /\ a < (a \div b + 1) * b
<1> DEFINE q == a \div b
<1>1. q \in Int /\ q * b <= a /\ a < (q + 1) * b
  BY SMT
<1>2. q >= 0
  <2> HIDE DEF q
  <2> QED BY <1>1, SMT
<1> QED BY <1>1, <1>2

-----------------------------------------------------------------------------
(* The stream *)

\* What has been acquired at label l.
OwnedAt(l) ==
    IF l \in {"init", "done"} THEN {}
    ELSE IF l = "open" THEN {"client"}
    ELSE IF l \in {"headers", "begin"} THEN {"client", "connection"}
    ELSE IF l = "alloc_pcm" THEN {"client", "connection", "playback"}
    ELSE IF l = "alloc_buf" THEN {"client", "connection", "playback", "pcm"}
    ELSE Resources

OwnedMatches == owned = OwnedAt(pc)

\* The decoder gets all that is left, or more than a frame and a header.
DecodeFed == pc = "decode" => eof \/ have > BufferSize - ChunkSize

IInv == TypeOK /\ OwnedMatches /\ DecodeFed

LEMMA InitIInv == Init => IInv
<1> SUFFICES ASSUME Init PROVE IInv
  OBVIOUS
<1>1. TypeOK
  <2>1. 0 \in 0..BufferSize /\ 0 \in 0..MaxBody
    BY SizesAssumption
  <2>. QED
    BY <2>1 DEF Init, TypeOK
<1>2. OwnedMatches /\ DecodeFed
  BY DEF Init, OwnedMatches, OwnedAt, DecodeFed
<1>. QED
  BY <1>1, <1>2 DEF IInv

\* The steps that acquire a resource or give up.
Setup == InitClient \/ Open \/ FetchHeaders \/ BeginPlayback \/ AllocPcm \/ AllocBuf

LEMMA SetupPreserves == IInv /\ Setup => IInv'
<1> SUFFICES ASSUME IInv, Setup PROVE IInv'
  OBVIOUS
<1>1. ring' = ring /\ history' = history /\ play_err' = play_err
  BY DEF Setup, InitClient, Open, FetchHeaders, BeginPlayback, AllocPcm, AllocBuf,
         Acquire, Refuse
<1>2. pc' \in {"open", "headers", "begin", "alloc_pcm", "alloc_buf", "outer", "done"}
  BY DEF Setup, InitClient, Open, FetchHeaders, BeginPlayback, AllocPcm, AllocBuf,
         Acquire, Refuse
<1>3. result' \in {"none", "ok", "read", "write", "refused"}
  BY DEF Setup, InitClient, Open, FetchHeaders, BeginPlayback, AllocPcm, AllocBuf,
         Acquire, Refuse, IInv, TypeOK
<1>4. OwnedMatches'
  <2> USE DEF IInv, OwnedMatches, OwnedAt, Acquire, Refuse, Resources
  <2>1. CASE InitClient
    BY <2>1 DEF InitClient
  <2>2. CASE Open
    BY <2>2 DEF Open
  <2>3. CASE FetchHeaders
    BY <2>3 DEF FetchHeaders
  <2>4. CASE BeginPlayback
    BY <2>4 DEF BeginPlayback
  <2>5. CASE AllocPcm
    BY <2>5 DEF AllocPcm
  <2>6. CASE AllocBuf
    BY <2>6 DEF AllocBuf
  <2>. QED
    BY <2>1, <2>2, <2>3, <2>4, <2>5, <2>6 DEF Setup
<1>5. owned' \subseteq Resources
  BY <1>4 DEF OwnedMatches, OwnedAt, Resources
<1>6. TypeOK'
  BY <1>1, <1>2, <1>3, <1>5 DEF IInv, TypeOK, ring, history
<1>. QED
  BY <1>2, <1>4, <1>6 DEF IInv, DecodeFed

\* The steps of the loop between acquiring and releasing.
InLoop ==
    \/ Outer \/ (\E n \in 1..ChunkSize : Read(n)) \/ ReadEnd \/ ReadFailed \/ Filled
    \/ DecodeFrame \/ DecodeNothing \/ WriteOk \/ WriteFailed

LEMMA LoopPreserves == IInv /\ InLoop => IInv'
<1> SUFFICES ASSUME IInv, InLoop PROVE IInv'
  OBVIOUS
<1>1. /\ pc \in {"outer", "fill", "decode", "write"}
      /\ pc' \in {"outer", "fill", "decode", "write", "finish"}
      /\ owned' = owned /\ result' = result
  BY DEF InLoop, Outer, Read, ReadEnd, ReadFailed, Filled, DecodeFrame, DecodeNothing,
         WriteOk, WriteFailed, ring, history
<1>2. play_err' \in {"ok", "read", "write"} /\ eof' \in BOOLEAN
  BY DEF InLoop, Outer, Read, ReadEnd, ReadFailed, Filled, DecodeFrame, DecodeNothing,
         WriteOk, WriteFailed, ring, history, IInv, TypeOK
<1>3. have' \in 0..BufferSize /\ total_read' \in 0..MaxBody
  <2>1. ASSUME NEW n \in 1..ChunkSize, Read(n)
        PROVE  have' \in 0..BufferSize /\ total_read' \in 0..MaxBody
    BY <2>1, SizesAssumption DEF Read, WantsMore, IInv, TypeOK
  <2>2. CASE DecodeFrame
    BY <2>2, SizesAssumption DEF DecodeFrame, FrameFound, IInv, TypeOK
  <2>3. CASE DecodeNothing
    BY <2>3, SizesAssumption DEF DecodeNothing, IInv, TypeOK
  <2>4. CASE Outer \/ ReadEnd \/ ReadFailed \/ Filled \/ WriteOk \/ WriteFailed
    BY <2>4 DEF Outer, ReadEnd, ReadFailed, Filled, WriteOk, WriteFailed, ring,
                history, IInv, TypeOK
  <2>. QED
    BY <2>1, <2>2, <2>3, <2>4 DEF InLoop
<1>4. decoded' \in Nat /\ frame_index' \in Nat /\ dropped' \in Nat
  BY SizesAssumption
     DEF InLoop, Outer, Read, ReadEnd, ReadFailed, Filled, DecodeFrame, DecodeNothing,
         WriteOk, WriteFailed, ring, history, IInv, TypeOK
<1>5. OwnedMatches'
  BY <1>1 DEF IInv, OwnedMatches, OwnedAt
<1>6. DecodeFed'
  <2>1. CASE Filled
    BY <2>1, SizesAssumption DEF Filled, WantsMore, ring, DecodeFed, IInv, TypeOK
  <2>2. CASE ~Filled
    BY <2>2 DEF InLoop, Outer, Read, ReadEnd, ReadFailed, DecodeFrame, DecodeNothing,
                WriteOk, WriteFailed, DecodeFed
  <2>. QED
    BY <2>1, <2>2
<1>7. TypeOK'
  BY <1>1, <1>2, <1>3, <1>4 DEF IInv, TypeOK
<1>. QED
  BY <1>5, <1>6, <1>7 DEF IInv

LEMMA EndPreserves == IInv /\ (Finish \/ Again) => IInv'
<1> SUFFICES ASSUME IInv, Finish \/ Again PROVE IInv'
  OBVIOUS
<1>1. CASE Finish
  <2>1. owned' = {}
    BY <1>1 DEF Finish, IInv, TypeOK, Resources
  <2>. QED
    BY <1>1, <2>1
       DEF Finish, IInv, TypeOK, OwnedMatches, OwnedAt, DecodeFed, ring, history, Resources
<1>2. CASE Again
  <2>1. TypeOK'
    <3>1. 0 \in 0..BufferSize /\ 0 \in 0..MaxBody
      BY SizesAssumption
    <3>. QED
      BY <1>2, <3>1 DEF Again, IInv, TypeOK
  <2>. QED
    BY <1>2, <2>1 DEF Again, IInv, OwnedMatches, OwnedAt, DecodeFed
<1>. QED
  BY <1>1, <1>2

LEMMA Inductive == IInv /\ [Next]_vars => IInv'
<1> SUFFICES ASSUME IInv, [Next]_vars PROVE IInv'
  OBVIOUS
<1>1. CASE UNCHANGED vars
  BY <1>1 DEF vars, ring, history, IInv, TypeOK, OwnedMatches, OwnedAt, DecodeFed, Resources
<1>2. CASE Next
  BY <1>2, SetupPreserves, LoopPreserves, EndPreserves DEF Next, Step, Setup, InLoop
<1>. QED
  BY <1>1, <1>2

\* IInv holds throughout.
THEOREM InductiveInvariant == Spec => []IInv
  BY InitIInv, Inductive, PTL DEF Spec

\* No read overruns the buffer, whatever the chunks the network delivers.
THEOREM InBounds == Spec => []TypeOK
  BY InductiveInvariant, PTL DEF IInv

\* Whatever fails on the way, nothing is left acquired on return.
THEOREM ResourcesReleased == Spec => []NothingLeft
<1>1. IInv => NothingLeft
  BY DEF IInv, OwnedMatches, OwnedAt, NothingLeft
<1>. QED
  BY <1>1, InductiveInvariant, PTL

\* A frame that arrives in full is never thrown away.
THEOREM NoFrameLost == Spec => DropsOnlyTail
<1>1. ASSUME IInv, Next PROVE dropped' > dropped => eof /\ have < FrameSize + HeaderSize
  <2>1. CASE DecodeNothing
    BY <1>1, <2>1, SizesAssumption DEF DecodeNothing, FrameFound, IInv, TypeOK, DecodeFed
  <2>2. CASE Again
    BY <1>1, <2>2 DEF Again, IInv, TypeOK
  <2>3. CASE ~DecodeNothing /\ ~Again
    <3>1. dropped' = dropped
      BY <1>1, <2>3 DEF Next, Step, InitClient, Open, FetchHeaders, BeginPlayback,
         AllocPcm, AllocBuf, Acquire, Refuse, Outer, Read, ReadEnd, ReadFailed, Filled,
         DecodeFrame, WriteOk, WriteFailed, Finish, history
    <3>. QED
      BY <1>1, <3>1 DEF IInv, TypeOK
  <2>. QED
    BY <2>1, <2>2, <2>3
<1>2. IInv /\ [Next]_vars =>
        [dropped' > dropped => eof /\ have < FrameSize + HeaderSize]_vars
  BY <1>1
<1>. QED
  BY <1>2, InductiveInvariant, PTL DEF Spec, DropsOnlyTail

\* A failure is told to the caller.
THEOREM FailuresTold == Spec => FailureReported
<1>1. ASSUME IInv, Next
      PROVE  pc # "done" /\ play_err # "ok" =>
               play_err' # "ok" /\ (pc' = "done" => result' # "ok")
  <2>1. CASE Setup
    BY <2>1 DEF Setup, InitClient, Open, FetchHeaders, BeginPlayback, AllocPcm, AllocBuf,
                Acquire, Refuse
  <2>2. CASE InLoop
    BY <2>2 DEF InLoop, Outer, Read, ReadEnd, ReadFailed, Filled, DecodeFrame,
                DecodeNothing, WriteOk, WriteFailed, ring, history
  <2>3. CASE Finish \/ Again
    BY <2>3 DEF Finish, Again
  <2>. QED
    BY <1>1, <2>1, <2>2, <2>3 DEF Next, Step, Setup, InLoop
<1>2. IInv /\ [Next]_vars =>
        [pc # "done" /\ play_err # "ok" =>
            play_err' # "ok" /\ (pc' = "done" => result' # "ok")]_vars
  BY <1>1
<1>. QED
  BY <1>2, InductiveInvariant, PTL DEF Spec, FailureReported

-----------------------------------------------------------------------------
(* Every byte read is in a frame decoded, in the buffer or dropped. *)

Account ==
    /\ total_read = decoded * FrameSize + have + dropped
    /\ dropped > 0 =>
          /\ pc \in {"outer", "finish", "done"} /\ eof /\ have = 0
          /\ dropped # FrameSize /\ dropped < FrameSize + HeaderSize
    /\ decoded > 0 => (eof /\ have + dropped = 0) \/ have + dropped >= HeaderSize
    /\ pc = "finish" => have = 0 \/ play_err = "write"
    /\ pc = "done" /\ result \in {"ok", "read"} => have = 0
    /\ pc \in {"init", "open", "headers", "begin", "alloc_pcm", "alloc_buf"} =>
          have = 0 /\ decoded = 0 /\ dropped = 0
    /\ pc # "done" => result = "none"

LEMMA InitAccount == Init => Account
  BY SizesAssumption DEF Init, Account

LEMMA AccountStep ==
    ASSUME IInv, Account, [Next]_vars
    PROVE  Account'
<1> USE SizesAssumption
<1>0. /\ have \in 0..BufferSize /\ total_read \in Nat /\ decoded \in Nat /\ dropped \in Nat
      /\ eof \in BOOLEAN /\ play_err \in {"ok", "read", "write"}
  BY DEF IInv, TypeOK
<1>1. CASE UNCHANGED vars
  BY <1>1 DEF vars, ring, history, Account
<1>2. CASE Setup
  <2>1. ring' = ring /\ history' = history /\ play_err' = play_err
    BY <1>2 DEF Setup, InitClient, Open, FetchHeaders, BeginPlayback, AllocPcm,
           AllocBuf, Acquire, Refuse
  <2>2. /\ pc \in {"init", "open", "headers", "begin", "alloc_pcm", "alloc_buf"}
        /\ \/ /\ pc' \in {"open", "headers", "begin", "alloc_pcm", "alloc_buf", "outer"}
              /\ result' = result
           \/ pc' = "done" /\ result' = "refused"
    BY <1>2 DEF Setup, InitClient, Open, FetchHeaders, BeginPlayback, AllocPcm,
           AllocBuf, Acquire, Refuse
  <2>. QED BY <1>0, <2>1, <2>2 DEF Account, ring, history
<1>3. ASSUME NEW n \in 1..ChunkSize, Read(n) PROVE Account'
  BY <1>0, <1>3 DEF Account, Read, WantsMore, history
<1>4. CASE Outer \/ Filled
  BY <1>0, <1>4 DEF Account, Outer, Filled, WantsMore, ring, history
<1>5. CASE ReadEnd \/ ReadFailed
  BY <1>0, <1>5 DEF Account, ReadEnd, ReadFailed, WantsMore, history
<1>6. CASE DecodeFrame
  <2>1. /\ have' = have - FrameSize /\ decoded' = decoded + 1 /\ FrameFound
        /\ total_read' = total_read /\ dropped' = dropped /\ eof' = eof
        /\ pc = "decode" /\ pc' \in {"write", "outer"} /\ result' = result
    BY <1>6 DEF DecodeFrame
  <2>2. dropped = 0
    BY <1>0, <2>1 DEF Account
  <2>3. have' = 0 => eof
    BY <1>0, <2>1 DEF IInv, DecodeFed
  <2>4. (decoded + 1) * FrameSize = decoded * FrameSize + FrameSize
    BY <1>0
  <2>5. total_read' = decoded' * FrameSize + have' + dropped'
    BY <1>0, <2>1, <2>4 DEF Account
  <2>6. have' = 0 \/ have' >= HeaderSize
    BY <1>0, <2>1 DEF FrameFound
  <2>. QED BY <1>0, <2>1, <2>2, <2>3, <2>5, <2>6 DEF Account
<1>7. CASE DecodeNothing
  <2>1. dropped = 0
    BY <1>0, <1>7 DEF Account, DecodeNothing
  <2>2. have > 0 => eof /\ have # FrameSize /\ have < FrameSize + HeaderSize
    BY <1>0, <1>7 DEF DecodeNothing, FrameFound, IInv, DecodeFed
  <2>. QED BY <1>0, <1>7, <2>1, <2>2 DEF Account, DecodeNothing
<1>8. CASE WriteOk \/ WriteFailed
  BY <1>0, <1>8 DEF Account, WriteOk, WriteFailed, ring, history
<1>9. CASE Finish
  BY <1>0, <1>9 DEF Account, Finish, ring, history
<1>10. CASE Again
  BY <1>0, <1>10 DEF Account, Again
<1>. QED
  BY <1>1, <1>2, <1>3, <1>4, <1>5, <1>6, <1>7, <1>8, <1>9, <1>10 DEF Next, Step, Setup

\* Quotient and remainder of a body of d frames and r bytes.
LEMMA Quotient ==
    ASSUME NEW d \in Nat, NEW r \in Nat, NEW f \in Nat \ {0}, r < f
    PROVE  (d * f + r) \div f = d /\ (d * f + r) % f = r
  BY SMT

\* Every frame of what was read is decoded, however the network cuts the body.
THEOREM AllDecoded == Spec => []EveryFrameDecoded
<1>1. ASSUME IInv, Account PROVE EveryFrameDecoded
  <2> SUFFICES ASSUME result \in {"ok", "read"} PROVE decoded = Frames(total_read)
    BY DEF EveryFrameDecoded
  <2>1. /\ total_read = decoded * FrameSize + dropped
        /\ decoded \in Nat /\ dropped \in Nat
        /\ dropped # FrameSize /\ dropped < FrameSize + HeaderSize
        /\ decoded > 0 => dropped = 0 \/ dropped >= HeaderSize
    BY <1>1, SizesAssumption DEF Account, IInv, TypeOK
  <2>2. CASE dropped < FrameSize
    <3>1. total_read \div FrameSize = decoded /\ total_read % FrameSize = dropped
      BY <2>1, <2>2, Quotient, SizesAssumption
    <3>2. decoded = 0 => total_read < FrameSize
      BY <2>1, <2>2, SizesAssumption
    <3>. QED BY <2>1, <3>1, <3>2, SizesAssumption DEF Frames
  <2>3. CASE dropped > FrameSize
    <3>1. PICK r \in 1..(HeaderSize - 1) : dropped = FrameSize + r
      <4>1. dropped - FrameSize \in 1..(HeaderSize - 1)
        BY <2>1, <2>3, SizesAssumption
      <4>. QED BY <2>1, <4>1, SizesAssumption
    <3>2. total_read = (decoded + 1) * FrameSize + r
      BY <2>1, <3>1, SizesAssumption
    <3>3. /\ total_read \div FrameSize = decoded + 1 /\ total_read % FrameSize = r
      BY <2>1, <3>1, <3>2, Quotient, SizesAssumption
    <3>4. total_read >= FrameSize
      BY <2>1, <2>3, SizesAssumption
    <3>. QED BY <2>1, <3>1, <3>3, <3>4, SizesAssumption DEF Frames
  <2>. QED BY <2>1, <2>2, <2>3, SizesAssumption
<1>2. Spec => []Account
  BY InitAccount, AccountStep, InductiveInvariant, PTL DEF Spec
<1>. QED BY <1>1, <1>2, InductiveInvariant, PTL

-----------------------------------------------------------------------------
(* The sound *)

Piece == [count : Nat, rate : Nat \ {0}]

InTime(k, p) ==
    /\ k * OutRate <= (p - 1) * sound.rate
    /\ (p - 1) * sound.rate < (k + 1) * OutRate

SoundInv ==
    /\ sound \in Piece /\ out_pos \in Nat /\ out_pos <= OutTotal
    /\ played \in Seq(Int)
    /\ whole \in BOOLEAN
    /\ pc = "write" => sound \in Sounds
    /\ whole => /\ Len(played) = out_pos
                /\ \A p \in 1..Len(played) : InTime(played[p], p)

\* The index of a source frame falls behind the last one for no output frame
\* that is computed: the clamp has no effect.
LEMMA ClampUnused ==
    ASSUME sound \in Sounds, NEW p \in Nat, p < OutTotal
    PROVE  /\ SrcFrame(p) \in Nat
           /\ SrcFrame(p) * OutRate <= p * sound.rate
           /\ p * sound.rate < (SrcFrame(p) + 1) * OutRate
<1>1. PICK c \in Nat \ {0}, r \in Nat \ {0} : sound.count = c /\ sound.rate = r
  BY RatesAssumption
<1>2. OutRate \in Nat \ {0}
  BY RatesAssumption
<1>3. PICK k \in Nat : k = (p * r) \div OutRate /\ k * OutRate <= p * r
                       /\ p * r < (k + 1) * OutRate
  <2>1. p * r \in Nat
    BY <1>1
  <2> QED BY <1>2, <2>1, Division
<1>4. PICK q \in Nat : q = (c * OutRate) \div r /\ q * r <= c * OutRate
  <2>1. c * OutRate \in Nat
    BY <1>1, <1>2
  <2> QED BY <1>1, <2>1, Division
<1>5. p < Larger(1, q)
  BY <1>1, <1>4 DEF OutTotal
<1>6. k < c
  <2>1. CASE p = 0
    <3>1. k * OutRate <= 0
      BY <1>1, <1>3, <2>1
    <3>2. k = 0
      BY <1>2, <1>3, <3>1, SMT
    <3> QED BY <1>1, <3>2
  <2>2. CASE p # 0
    <3>1. p + 1 <= q
      BY <1>5, <2>2 DEF Larger
    <3>2. (p + 1) * r <= q * r
      BY <1>1, <1>4, <3>1, SMT
    <3>3. p * r < c * OutRate
      BY <1>1, <1>2, <1>4, <3>2, SMT
    <3>4. k * OutRate < c * OutRate
      BY <1>1, <1>2, <1>3, <3>3, SMT
    <3> QED BY <1>1, <1>2, <1>3, <3>4, SMT
  <2> QED BY <2>1, <2>2
<1>7. SrcFrame(p) = k
  BY <1>1, <1>3, <1>6 DEF SrcFrame, Smaller
<1> QED BY <1>1, <1>3, <1>7

LEMMA BeginStep ==
    ASSUME NEW s \in Piece, Begin(s), pc' = "write" => s \in Sounds
    PROVE  SoundInv'
<1>1. /\ sound' = s /\ out_pos' = 0 /\ played' = <<>> /\ whole' = TRUE
  BY DEF Begin
<1>2. 0 <= OutTotal'
  <2>1. s.count \in Nat /\ s.rate \in Nat \ {0} /\ OutRate \in Nat
    BY RatesAssumption DEF Piece
  <2>2. (s.count * OutRate) \div s.rate \in Nat
    <3>1. s.count * OutRate \in Nat
      BY <2>1
    <3> QED BY <2>1, <3>1, Division
  <2> QED BY <1>1, <2>2 DEF OutTotal, Larger
<1> QED BY <1>1, <1>2 DEF SoundInv

LEMMA TransmitStep ==
    ASSUME SoundInv, pc = "write", Unwritten, NEW n \in 0..Todo, Transmit(n),
           pc' = pc
    PROVE  SoundInv'
<1>1. /\ sound' = sound /\ out_pos' = out_pos + Todo
      /\ played' = played \o SubSeq(Block, 1, n)
      /\ whole' = (whole /\ n = Todo)
  BY DEF Transmit
<1>2. sound \in Sounds /\ sound \in Piece /\ out_pos \in Nat /\ played \in Seq(Int)
  BY DEF SoundInv
<1>3. OutTotal \in Nat /\ OutTotal' = OutTotal
  <2>1. sound.count \in Nat /\ sound.rate \in Nat \ {0} /\ OutRate \in Nat
    BY <1>2, RatesAssumption DEF Piece
  <2>2. (sound.count * OutRate) \div sound.rate \in Nat
    <3>1. sound.count * OutRate \in Nat
      BY <2>1
    <3> QED BY <2>1, <3>1, Division
  <2> QED BY <1>1, <2>2 DEF OutTotal, Larger
<1>4. Todo \in Nat /\ out_pos + Todo <= OutTotal
  BY <1>2, <1>3, RatesAssumption DEF Unwritten, Todo, Smaller
<1>5. ASSUME NEW i \in 1..Todo
      PROVE  /\ Block[i] \in Int
             /\ InTime(Block[i], out_pos + i)
  <2>1. PICK t \in Nat : t = out_pos + i - 1
    BY <1>2, <1>4
  <2>2. Block[i] = SrcFrame(t)
    BY <2>1 DEF Block
  <2>3. t < OutTotal
    BY <1>2, <1>3, <1>4, <2>1
  <2>4. PICK k \in Nat : /\ k = SrcFrame(t)
                         /\ k * OutRate <= t * sound.rate
                         /\ t * sound.rate < (k + 1) * OutRate
    BY <1>2, <2>3, ClampUnused
  <2>5. t = (out_pos + i) - 1
    BY <1>2, <2>1
  <2>6. InTime(k, out_pos + i)
    BY <2>4, <2>5 DEF InTime
  <2> QED BY <2>2, <2>4, <2>6
<1>6. Block \in Seq(Int) /\ Len(Block) = Todo
  <2> HIDE DEF Todo
  <2>1. Block \in [1..Todo -> Int]
    BY <1>5 DEF Block
  <2> QED BY <1>4, <2>1
<1>7. PICK b \in Seq(Int) : b = SubSeq(Block, 1, n) /\ Len(b) = n
                            /\ \A i \in 1..n : b[i] = Block[i]
  <2> HIDE DEF Todo, Block
  <2>1. n \in Nat /\ n <= Len(Block)
    BY <1>4, <1>6
  <2>2. PICK l \in Seq(Int) : l = Block /\ n <= Len(l)
    BY <1>6, <2>1
  <2>3. SubSeq(l, 1, n) \in Seq(Int) /\ Len(SubSeq(l, 1, n)) = n
    BY <2>1, <2>2
  <2>4. \A i \in 1..n : SubSeq(l, 1, n)[i] = l[i]
    BY <2>1, <2>2
  <2> QED BY <2>2, <2>3, <2>4
<1>8. played' \in Seq(Int) /\ Len(played') = Len(played) + n
  BY <1>1, <1>2, <1>7
<1>9. ASSUME whole'
      PROVE  /\ Len(played') = out_pos'
             /\ \A p \in 1..Len(played') : InTime(played[p], p)'
  <2>1. whole /\ n = Todo /\ Len(played) = out_pos
    BY <1>1, <1>9 DEF SoundInv
  <2>2. Len(played') = out_pos'
    BY <1>1, <1>8, <2>1
  <2>3. ASSUME NEW p \in 1..Len(played') PROVE InTime(played[p], p)'
    <3>1. CASE p <= Len(played)
      <4>1. p \in 1..Len(played) /\ played'[p] = played[p]
        BY <1>1, <1>2, <1>7, <3>1
      <4>2. InTime(played[p], p)
        BY <2>1, <4>1 DEF SoundInv
      <4> QED BY <1>1, <4>1, <4>2 DEF InTime
    <3>2. CASE p > Len(played)
      <4>1. p - out_pos \in 1..Todo
        BY <1>2, <1>4, <1>8, <2>1, <3>2
      <4>2. played'[p] = Block[p - out_pos]
        <5>1. played' = played \o b /\ p - Len(played) \in 1..Len(b) /\ Len(b) = Todo
          BY <1>1, <1>7, <2>1, <4>1
        <5>2. (played \o b)[p] = b[p - Len(played)]
          BY <1>2, <1>7, <3>2, <5>1
        <5> QED BY <1>7, <2>1, <4>1, <5>1, <5>2
      <4>3. InTime(Block[p - out_pos], out_pos + (p - out_pos))
        BY <1>5, <4>1
      <4>4. out_pos + (p - out_pos) = p
        BY <1>2, <1>8
      <4> QED BY <1>1, <4>2, <4>3, <4>4 DEF InTime
    <3> QED BY <1>8, <1>2, <3>1, <3>2
  <2> QED BY <2>2, <2>3
<1>10. sound' \in Piece /\ out_pos' \in Nat /\ out_pos' <= OutTotal'
  BY <1>1, <1>2, <1>3, <1>4
<1>11. whole' \in BOOLEAN
  BY <1>1
<1> QED BY <1>1, <1>2, <1>8, <1>9, <1>10, <1>11 DEF SoundInv

LEMMA PlayNextStep ==
    ASSUME SoundInv, [PlayNext]_all
    PROVE  SoundInv'
<1>1. CASE UNCHANGED all
  BY <1>1 DEF all, vars, sound_vars, SoundInv, InTime, OutTotal
<1>2. CASE Download
  <2>1. UNCHANGED sound_vars
    BY <1>2 DEF Download
  <2>2. pc' # "write"
    BY <1>2 DEF Download, InitClient, Open, FetchHeaders, BeginPlayback, AllocPcm,
       AllocBuf, Acquire, Refuse, Outer, Read, ReadEnd, ReadFailed, Filled,
       DecodeNothing, Finish
  <2> QED BY <2>1, <2>2 DEF sound_vars, SoundInv, InTime, OutTotal
<1>3. CASE Decode
  <2>1. CASE pc' = "write"
    <3>1. PICK s \in Sounds : Begin(s)
      BY <1>3, <2>1 DEF Decode
    <3>2. s \in Piece
      BY RatesAssumption DEF Piece
    <3> QED BY <3>1, <3>2, BeginStep
  <2>2. CASE pc' # "write"
    BY <1>3, <2>2 DEF Decode, sound_vars, SoundInv, InTime, OutTotal
  <2> QED BY <2>1, <2>2
<1>4. CASE WriteBlock
  <2>1. PICK n \in 0..Todo : Transmit(n)
    BY <1>4 DEF WriteBlock
  <2> QED BY <1>4, <2>1, TransmitStep DEF WriteBlock, vars
<1>5. CASE Written \/ BlockFailed
  <2>1. NoSound \in Piece
    BY DEF NoSound, Piece
  <2>2. Begin(NoSound) /\ pc' # "write"
    BY <1>5 DEF Written, BlockFailed, WriteOk, WriteFailed
  <2> QED BY <2>1, <2>2, BeginStep
<1>6. CASE Again /\ UNCHANGED sound_vars
  BY <1>6 DEF Again, sound_vars, SoundInv, InTime, OutTotal
<1> QED BY <1>1, <1>2, <1>3, <1>4, <1>5, <1>6 DEF PlayNext, PlayStep

LEMMA PlayInitOk == PlayInit => SoundInv
<1>1. SUFFICES ASSUME PlayInit PROVE SoundInv
  OBVIOUS
<1>2. sound = NoSound /\ out_pos = 0 /\ played = <<>> /\ whole = TRUE /\ pc = "init"
  BY <1>1 DEF PlayInit, Silent, Init
<1>3. NoSound \in Piece
  BY DEF NoSound, Piece
<1>4. 0 <= OutTotal
  <2>1. (0 * OutRate) \div 1 \in Nat
    BY RatesAssumption
  <2> QED BY <1>2, <2>1 DEF OutTotal, NoSound, Larger
<1> QED BY <1>2, <1>3, <1>4 DEF SoundInv

\* What is played, block by block, of every piece of sound.
THEOREM SoundInvariant == PlaySpec => []SoundInv
<1> QED BY PlayInitOk, PlayNextStep, PTL DEF PlaySpec

\* The frame heard is the one that sounds at that time, at every pair of rates.
THEOREM KeepsTime == PlaySpec => []SoundInTime
<1>1. SoundInv => SoundInTime
  BY DEF SoundInv, SoundInTime, InTime
<1> QED BY <1>1, SoundInvariant, PTL

\* Less than one output frame is missing or added at the end of a piece.
THEOREM Complete == PlaySpec => []SoundComplete
<1>1. SoundInv => SoundComplete
  <2>1. SUFFICES ASSUME SoundInv, whole, ~Unwritten
                 PROVE  /\ (Len(played) + 1) * sound.rate > sound.count * OutRate
                        /\ \/ Len(played) * sound.rate <= sound.count * OutRate
                           \/ Len(played) = 1
    BY DEF SoundComplete
  <2>2. PICK c \in Nat, r \in Nat \ {0} : sound.count = c /\ sound.rate = r
    BY <2>1 DEF SoundInv, Piece
  <2>3. OutRate \in Nat \ {0}
    BY RatesAssumption
  <2>4. PICK q \in Nat : q = (c * OutRate) \div r /\ q * r <= c * OutRate
                         /\ c * OutRate < (q + 1) * r
    <3>1. c * OutRate \in Nat
      BY <2>2, <2>3
    <3> QED BY <2>2, <3>1, Division
  <2>5. Len(played) = Larger(1, q)
    <3>1. OutTotal = Larger(1, q) /\ OutTotal \in Nat
      BY <2>2, <2>4 DEF OutTotal, Larger
    <3>2. Len(played) = out_pos /\ out_pos \in Nat /\ out_pos <= OutTotal
      BY <2>1 DEF SoundInv
    <3> QED BY <2>1, <3>1, <3>2 DEF Unwritten
  <2>6. CASE q >= 1
    BY <2>2, <2>4, <2>5, <2>6 DEF Larger
  <2>7. CASE q = 0
    <3>1. Len(played) = 1 /\ c * OutRate < r
      BY <2>2, <2>3, <2>4, <2>5, <2>7 DEF Larger
    <3>2. (1 + 1) * r > c * OutRate
      <4>1. PICK z \in Nat : z = c * OutRate
        BY <2>2, <2>3
      <4> QED BY <2>2, <3>1, <4>1
    <3> QED BY <2>2, <3>1, <3>2
  <2> QED BY <2>4, <2>6, <2>7
<1> QED BY <1>1, SoundInvariant, PTL

\* With the resampler in it the function still does what Mp3Stream says, so that
\* the theorems about Mp3Stream hold of it.
THEOREM ImplementsStream == PlaySpec => Spec
<1>1. PlayInit => Init
  BY DEF PlayInit
<1>2. [PlayNext]_all => [Next]_vars
  BY DEF PlayNext, PlayStep, Download, Decode, WriteBlock, Written, BlockFailed, all,
     Next, Step
<1> QED BY <1>1, <1>2, PTL DEF PlaySpec, Spec

\* What the stream promises holds of the playback, too: no overrun, everything
\* released, no frame lost, failures told.
THEOREM PlaybackKeepsPromises ==
    PlaySpec => [](TypeOK /\ NothingLeft /\ EveryFrameDecoded) /\ FailureReported
  BY ImplementsStream, InBounds, ResourcesReleased, AllDecoded, FailuresTold, PTL

-----------------------------------------------------------------------------
(* Why a reply ends: every step lowers a measure.  With the fairness of       *)
(* FairPlaySpec, and a next step in each state but the last, this is the      *)
(* argument for StreamEnds, for bodies and buffers of any size.               *)

Place ==
    IF pc = "init" THEN 10 ELSE IF pc = "open" THEN 9 ELSE IF pc = "headers" THEN 8
    ELSE IF pc = "begin" THEN 7 ELSE IF pc = "alloc_pcm" THEN 6
    ELSE IF pc = "alloc_buf" \/ pc = "write" THEN 5
    ELSE IF pc = "outer" THEN IF eof /\ have = 0 THEN 2 ELSE 4
    ELSE IF pc = "fill" THEN 3 ELSE IF pc = "decode" THEN 2
    ELSE IF pc = "finish" THEN 1 ELSE 0

\* A byte not yet read weighs more than one in the buffer, which weighs more than
\* a turn of the loop.
Unended == IF eof THEN 0 ELSE 1

Remaining == 5 * (MaxBody - total_read) + Unended + 4 * have + Place

\* The decoder is never called with an empty buffer.
DecodesSome == pc = "decode" => have > 0

LEMMA PlaceRange == Place \in 0..10 /\ Unended \in 0..1
  BY DEF Place, Unended

LEMMA RemainingRange ==
    ASSUME IInv, Account
    PROVE  Remaining \in Nat /\ (pc = "init" => Remaining <= 5 * MaxBody + 11)
<1>1. /\ total_read \in 0..MaxBody /\ have \in 0..BufferSize
      /\ MaxBody \in Nat /\ BufferSize \in Nat
  BY SizesAssumption DEF IInv, TypeOK
<1>2. Remaining \in Nat
  <2>1. PICK p \in 0..10, u \in 0..1 : p = Place /\ u = Unended
    BY PlaceRange
  <2>2. Remaining = 5 * (MaxBody - total_read) + u + 4 * have + p
    BY <2>1 DEF Remaining
  <2> QED BY <1>1, <2>1, <2>2
<1>3. ASSUME pc = "init" PROVE have = 0 /\ Place = 10
  BY <1>3 DEF Account, Place
<1>4. ASSUME pc = "init" PROVE Remaining <= 5 * MaxBody + 11
  <2>1. PICK u \in 0..1 : u = Unended
    BY PlaceRange
  <2>2. Remaining = 5 * (MaxBody - total_read) + u + 4 * 0 + 10
    BY <1>3, <1>4, <2>1 DEF Remaining
  <2> QED BY <1>1, <2>2
<1> QED BY <1>2, <1>4

\* The measure by its parts, before and after a step.
LEMMA Weights ==
    ASSUME NEW m \in Nat, NEW t \in Nat, NEW t1 \in Nat, NEW u \in Nat, NEW u1 \in Nat,
           NEW h \in Nat, NEW h1 \in Nat, NEW p \in Nat, NEW p1 \in Nat,
           5 * t + u1 + 4 * h1 + p1 < 5 * t1 + u + 4 * h + p
    PROVE  5 * (m - t1) + u1 + 4 * h1 + p1 < 5 * (m - t) + u + 4 * h + p
  OBVIOUS

LEMMA Lowered ==
    ASSUME NEW t \in Nat, NEW t1 \in Nat, NEW u \in Nat, NEW u1 \in Nat,
           NEW h \in Nat, NEW h1 \in Nat, NEW p \in Nat, NEW p1 \in Nat,
           t = total_read /\ u = Unended /\ h = have /\ p = Place,
           t1 = total_read' /\ u1 = Unended' /\ h1 = have' /\ p1 = Place',
           5 * t + u1 + 4 * h1 + p1 < 5 * t1 + u + 4 * h + p
    PROVE  Remaining' < Remaining
<1>1. Remaining = 5 * (MaxBody - t) + u + 4 * h + p
  BY Zenon DEF Remaining
<1>2. Remaining' = 5 * (MaxBody - t1) + u1 + 4 * h1 + p1
  BY Zenon DEF Remaining
<1>3. MaxBody \in Nat
  BY SizesAssumption
<1>4. 5 * (MaxBody - t1) + u1 + 4 * h1 + p1 < 5 * (MaxBody - t) + u + 4 * h + p
  BY <1>3, Weights
<1> QED BY <1>1, <1>2, <1>4, Zenon

LEMMA DecodesSomeStep == IInv /\ DecodesSome /\ [Next]_vars => DecodesSome'
<1>1. SUFFICES ASSUME IInv, DecodesSome, [Next]_vars PROVE DecodesSome'
  OBVIOUS
<1>2. have \in Nat
  BY <1>1, SizesAssumption DEF IInv, TypeOK
<1>3. CASE UNCHANGED vars
  BY <1>1, <1>3 DEF vars, ring, DecodesSome
<1>4. CASE Filled
  BY <1>2, <1>4 DEF Filled, ring, DecodesSome
<1>5. CASE Next /\ ~Filled
  <2>1. pc' # "decode"
    BY <1>5 DEF Next, Step, InitClient, Open, FetchHeaders, BeginPlayback, AllocPcm,
       AllocBuf, Acquire, Refuse, Outer, Read, ReadEnd, ReadFailed, DecodeFrame,
       DecodeNothing, WriteOk, WriteFailed, Finish, Again
  <2> QED BY <2>1 DEF DecodesSome
<1> QED BY <1>1, <1>3, <1>4, <1>5

LEMMA StepLowers ==
    ASSUME IInv, DecodesSome, Step
    PROVE  Remaining' < Remaining
<1>1. /\ total_read \in 0..MaxBody /\ have \in 0..BufferSize /\ eof \in BOOLEAN
      /\ MaxBody \in Nat /\ BufferSize \in Nat
  BY SizesAssumption DEF IInv, TypeOK
<1>2. CASE Setup
  <2>1. have' = have /\ total_read' = total_read /\ eof' = eof
    BY <1>2 DEF Setup, InitClient, Open, FetchHeaders, BeginPlayback, AllocPcm,
       AllocBuf, Acquire, Refuse, ring
  <2>2. Place' < Place
    <3> USE DEF Acquire, Refuse, Place
    <3>1. CASE InitClient
      BY <3>1 DEF InitClient
    <3>2. CASE Open
      BY <3>2 DEF Open
    <3>3. CASE FetchHeaders
      BY <3>3 DEF FetchHeaders
    <3>4. CASE BeginPlayback
      BY <3>4 DEF BeginPlayback
    <3>5. CASE AllocPcm
      BY <3>5 DEF AllocPcm
    <3>6. CASE AllocBuf
      BY <3>6 DEF AllocBuf
    <3> QED BY <1>2, <3>1, <3>2, <3>3, <3>4, <3>5, <3>6 DEF Setup
  <2>3. Place \in 0..10 /\ Place' \in 0..10
    BY DEF Place
  <2>4. Unended' = Unended /\ Unended \in 0..1
    BY <2>1 DEF Unended
  <2>5. total_read \in Nat /\ have \in Nat
    BY <1>1
  <2>6. PICK a \in 0..10, b \in 0..10 : a = Place /\ b = Place' /\ b < a
    BY <2>2, <2>3
  <2>7. PICK t \in Nat, h \in Nat, u \in Nat : t = total_read /\ h = have /\ u = Unended
    BY <2>4, <2>5
  <2>8. 5 * t + u + 4 * h + b < 5 * t + u + 4 * h + a /\ a \in Nat /\ b \in Nat
    <3>1. b < a
      BY <2>6, Zenon
    <3> QED BY <3>1
  <2>9. t = total_read' /\ h = have' /\ u = Unended'
    BY <2>1, <2>4, <2>7, Zenon
  <2> QED BY <2>6, <2>7, <2>8, <2>9, Lowered
<1>3. ASSUME NEW n \in 1..ChunkSize, Read(n) PROVE Remaining' < Remaining
  <2>1. /\ have' = have + n /\ total_read' = total_read + n /\ eof' = eof
        /\ pc = "fill" /\ pc' = "fill" /\ n \in Nat /\ n > 0
    BY <1>3, SizesAssumption DEF Read
  <2>2. Place = 3 /\ Place' = 3
    BY <2>1 DEF Place
  <2>3. Unended' = Unended /\ Unended \in 0..1
    BY <2>1 DEF Unended
  <2> QED BY <1>1, <2>1, <2>2, <2>3 DEF Remaining
<1>4. CASE ReadEnd \/ ReadFailed
  <2>1. /\ have' = have /\ total_read' = total_read /\ ~eof /\ eof'
        /\ pc = "fill" /\ pc' = "fill"
    BY <1>4 DEF ReadEnd, ReadFailed, WantsMore
  <2>2. Place = 3 /\ Place' = 3
    BY <2>1 DEF Place
  <2>3. Unended' = 0 /\ Unended = 1
    BY <2>1 DEF Unended
  <2> QED BY <1>1, <2>1, <2>2, <2>3 DEF Remaining
<1>5. CASE Outer \/ Filled \/ WriteOk \/ WriteFailed \/ Finish
  <2>1. have' = have /\ total_read' = total_read /\ eof' = eof
    BY <1>5 DEF Outer, Filled, WriteOk, WriteFailed, Finish, ring
  <2>2. Place' < Place
    <3>1. CASE Outer
      BY <2>1, <3>1 DEF Outer, Place
    <3>2. CASE Filled
      <4>1. have = 0 => eof
        BY <1>1, <3>2, SizesAssumption DEF Filled, WantsMore
      <4> QED BY <2>1, <3>2, <4>1 DEF Filled, Place
    <3>3. CASE WriteOk
      BY <2>1, <3>3 DEF WriteOk, Place
    <3>4. CASE WriteFailed
      BY <3>4 DEF WriteFailed, Place
    <3>5. CASE Finish
      BY <3>5 DEF Finish, Place
    <3> QED BY <1>5, <3>1, <3>2, <3>3, <3>4, <3>5
  <2>3. Place \in 0..10 /\ Place' \in 0..10
    BY DEF Place
  <2>4. Unended' = Unended /\ Unended \in 0..1
    BY <2>1 DEF Unended
  <2>5. total_read \in Nat /\ have \in Nat
    BY <1>1
  <2>6. PICK a \in 0..10, b \in 0..10 : a = Place /\ b = Place' /\ b < a
    BY <2>2, <2>3
  <2>7. PICK t \in Nat, h \in Nat, u \in Nat : t = total_read /\ h = have /\ u = Unended
    BY <2>4, <2>5
  <2>8. 5 * t + u + 4 * h + b < 5 * t + u + 4 * h + a /\ a \in Nat /\ b \in Nat
    <3>1. b < a
      BY <2>6, Zenon
    <3> QED BY <3>1
  <2>9. t = total_read' /\ h = have' /\ u = Unended'
    BY <2>1, <2>4, <2>7, Zenon
  <2> QED BY <2>6, <2>7, <2>8, <2>9, Lowered
<1>6. CASE DecodeFrame \/ DecodeNothing
  <2>1. /\ have' \in Nat /\ have' < have /\ total_read' = total_read /\ eof' = eof
        /\ pc = "decode" /\ pc' \in {"write", "outer"}
    BY <1>1, <1>6, SizesAssumption
       DEF DecodeFrame, DecodeNothing, FrameFound, DecodesSome
  <2>2. Place = 2 /\ Place' \in 0..5
    BY <2>1 DEF Place
  <2>3. Unended' = Unended /\ Unended \in 0..1
    BY <2>1 DEF Unended
  <2>4. PICK b \in 0..5 : b = Place'
    BY <2>2
  <2>5. PICK t \in Nat, h \in Nat, h1 \in Nat, u \in Nat :
           t = total_read /\ h = have /\ h1 = have' /\ u = Unended
    BY <1>1, <2>1, <2>3
  <2>6. h1 < h
    BY <2>1, <2>5, Zenon
  <2>7. 5 * t + u + 4 * h1 + b < 5 * t + u + 4 * h + 2 /\ b \in Nat /\ 2 \in Nat
    BY <2>6
  <2>8. t = total_read' /\ u = Unended'
    BY <2>1, <2>3, <2>5, Zenon
  <2> QED BY <2>2, <2>4, <2>5, <2>7, <2>8, Lowered
<1> QED BY <1>2, <1>3, <1>4, <1>5, <1>6 DEF Step, Setup

\* Whatever the network delivers and whatever fails, a reply takes no more than
\* five steps for each byte of its body, and eleven.
THEOREM RepliesEnd ==
    Spec => /\ [](Remaining \in Nat /\ (pc = "init" => Remaining <= 5 * MaxBody + 11))
            /\ [][Step => Remaining' < Remaining]_vars
<1>1. Init => DecodesSome
  BY DEF Init, DecodesSome
<1>2. IInv /\ Account => Remaining \in Nat /\ (pc = "init" => Remaining <= 5 * MaxBody + 11)
  BY RemainingRange
<1>3. IInv /\ DecodesSome /\ [Next]_vars => [Step => Remaining' < Remaining]_vars
  BY StepLowers
<1>4. Spec => []Account
  BY InitAccount, AccountStep, InductiveInvariant, PTL DEF Spec
<1> QED BY <1>1, <1>2, <1>3, <1>4, DecodesSomeStep, InductiveInvariant, PTL DEF Spec

Blocks == OutTotal - out_pos

\* With the sound as well: between two steps of the stream there are only as many
\* writes as the piece of sound has output frames.
THEOREM BlocksEnd ==
    PlaySpec => /\ [](Blocks \in Nat)
                /\ [][PlayStep => \/ Remaining' < Remaining
                                  \/ Remaining' = Remaining /\ Blocks' < Blocks]_all
<1>1. SoundInv => Blocks \in Nat /\ OutTotal \in Nat
  <2>1. SUFFICES ASSUME SoundInv PROVE OutTotal \in Nat /\ out_pos \in Nat /\ out_pos <= OutTotal
    BY DEF Blocks
  <2>2. sound.count \in Nat /\ sound.rate \in Nat \ {0} /\ OutRate \in Nat
    BY <2>1, RatesAssumption DEF SoundInv, Piece
  <2>3. (sound.count * OutRate) \div sound.rate \in Nat
    <3>1. sound.count * OutRate \in Nat
      BY <2>2
    <3> QED BY <2>2, <3>1, Division
  <2> QED BY <2>1, <2>3 DEF OutTotal, Larger, SoundInv
<1>2. ASSUME IInv, DecodesSome, SoundInv, PlayStep
      PROVE  Remaining' < Remaining \/ (Remaining' = Remaining /\ Blocks' < Blocks)
  <2>1. CASE WriteBlock
    <3>1. PICK n \in 0..Todo : Transmit(n)
      BY <2>1 DEF WriteBlock
    <3>2. OutTotal' = OutTotal /\ out_pos' = out_pos + Todo /\ out_pos < OutTotal
      BY <2>1, <3>1 DEF Transmit, WriteBlock, Unwritten, OutTotal
    <3>3. OutTotal \in Nat /\ out_pos \in Nat
      BY <1>1, <1>2 DEF SoundInv
    <3>4. Todo \in Nat /\ Todo > 0
      BY <3>2, <3>3, RatesAssumption DEF Todo, Smaller
    <3>5. Remaining' = Remaining
      BY <2>1 DEF WriteBlock, vars, ring, Remaining, Unended, Place
    <3> QED BY <3>2, <3>3, <3>4, <3>5 DEF Blocks
  <2>2. CASE ~WriteBlock
    <3>1. Step
      BY <1>2, <2>2 DEF PlayStep, Download, Decode, Written, BlockFailed, Step
    <3> QED BY <1>2, <3>1, StepLowers
  <2> QED BY <2>1, <2>2
<1>3. IInv /\ DecodesSome /\ SoundInv /\ [PlayNext]_all =>
         [PlayStep => \/ Remaining' < Remaining
                      \/ Remaining' = Remaining /\ Blocks' < Blocks]_all
  BY <1>2
<1>4. Init => DecodesSome
  BY DEF Init, DecodesSome
<1>5. Spec => []DecodesSome
  BY <1>4, DecodesSomeStep, InductiveInvariant, PTL DEF Spec
<1> QED BY <1>1, <1>3, <1>5, ImplementsStream, InductiveInvariant, SoundInvariant, PTL
        DEF PlaySpec
=============================================================================
