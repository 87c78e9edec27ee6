--------------------------- MODULE Mp3DecoderProofs ---------------------------
(***************************************************************************)
(* Mp3Decoder for streams, frames and sizes of any kind.                   *)
(*                                                                         *)
(* The invariant of the bit reservoir says which numbers it holds (Suffix) *)
(* and that it reaches back far enough for whatever an encoder may ask for *)
(* (Reach).  How frames are found does not matter to it, only that dec is  *)
(* cleared whenever the frame taken is not the successor of the last one.  *)
(* That a stream without errors is taken frame by frame (Aligned) rests on *)
(* the search, and not on what the frames contain.  So does what Mp3Stream *)
(* takes for granted of the decoder.                                       *)
(***************************************************************************)
EXTENDS Mp3Decoder, WellFoundedInduction, TLAPS

Bufs == UNION {[0..(n - 1) -> Int] : n \in Nat}
Decs == [header : Cells, free : Nat, reserv : 0..MaxReservoir, buf : Bufs]

\* A set of numbers that is not empty has a least one.
LEMMA LeastIn ==
    ASSUME NEW S \in SUBSET Nat, S # {}
    PROVE  Least(S) \in S /\ \A y \in S : Least(S) <= y
<1> DEFINE R == OpToRel(<, Nat)
<1>1. IsWellFoundedOn(R, Nat)
  BY NatLessThanWellFounded
<1>2. PICK x \in S : \A y \in S : ~(<<y, x>> \in R)
  <2> HIDE DEF R
  <2> QED BY <1>1, WFMin
<1>3. \A y \in S : <<y, x>> \in Nat \X Nat /\ ~(y < x)
  BY <1>2 DEF OpToRel
<1>4. ASSUME NEW y \in S PROVE x <= y
  <2>1. x \in Nat /\ y \in Nat
    OBVIOUS
  <2>2. ~(y < x)
    BY <1>3
  <2> QED BY <2>1, <2>2
<1> QED BY <1>4, Zenon DEF Least

\* What holds of the decoder d before a frame, when it was cleared at first and
\* the frame before ended at end.
Suffix(d, first) ==
    /\ d.reserv <= count - first
    /\ \A j \in 0..(d.reserv - 1) : d.buf[j] = count - d.reserv + j
Reach(d, first, end) ==
    d.reserv >= MinOf(MaxReservoir, count - MaxOf(first, end))

TypeInv ==
    /\ data \in Seq(Cells) /\ here \in Nat
    /\ dec \in Decs
    /\ count \in Nat /\ origin \in Nat /\ ended \in Int
    /\ conform \in BOOLEAN

IInv ==
    /\ TypeInv
    /\ HdrValid(dec.header) => Suffix(dec, origin)
    /\ HdrValid(dec.header) /\ conform => Reach(dec, origin, ended)
    /\ ~lost

\* A run of bits that fits in n bytes reaches into no more than n.
LEMMA BytesBound ==
    ASSUME NEW bits \in Nat, NEW n \in Nat, bits <= n * ByteBits
    PROVE  /\ Bytes(bits) \in Nat
           /\ Bytes(bits) <= n
<1>1. ByteBits \in Nat /\ ByteBits > 0
  BY SizesAssumption
<1> DEFINE q == (bits + ByteBits - 1) \div ByteBits
<1>2. q \in Int /\ q * ByteBits <= bits + ByteBits - 1 /\ bits + ByteBits - 1 < (q + 1) * ByteBits
  BY <1>1, SMT
<1>3. q >= 0
  BY <1>1, <1>2, SMT
<1>4. q <= n
  <2>1. q * ByteBits < (n + 1) * ByteBits
    BY <1>1, <1>2, SMT
  <2> QED BY <1>1, <1>2, <2>1, SMT
<1> QED BY <1>2, <1>3, <1>4 DEF Bytes

LEMMA BytesZero == Bytes(0) = 0
<1>1. Bytes(0) \in Nat /\ Bytes(0) <= 0
  BY BytesBound, SizesAssumption
<1> QED BY <1>1

\* The main data of a frame are the bytes up to its own, and its own.
LEMMA Restored ==
    ASSUME NEW d \in Decs, NEW first \in Nat, count \in Nat, Suffix(d, first),
           NEW begin \in Nat, NEW len \in Nat
    PROVE  RestoreReservoir(d, begin, len)
             = [j \in 0..(MinOf(d.reserv, begin) + len - 1) |->
                   count - MinOf(d.reserv, begin) + j]
<1> DEFINE have == MinOf(d.reserv, begin)
<1>1. have \in Nat /\ have <= d.reserv /\ MaxOf(0, d.reserv - begin) = d.reserv - have
  BY SizesAssumption DEF MinOf, MaxOf, Decs
<1>2. ASSUME NEW j \in 0..(have + len - 1), j < have
      PROVE  d.buf[MaxOf(0, d.reserv - begin) + j] = count - have + j
  <2>1. d.reserv \in Nat /\ d.reserv - have + j \in 0..(d.reserv - 1)
    BY <1>1, <1>2 DEF Decs
  <2>2. d.buf[d.reserv - have + j] = count - d.reserv + (d.reserv - have + j)
    BY <2>1 DEF Suffix
  <2> QED BY <1>1, <2>1, <2>2
<1>3. ASSUME NEW j \in 0..(have + len - 1)
      PROVE  count + j - have = count - have + j
  BY <1>1
<1> QED BY <1>2, <1>3 DEF RestoreReservoir

\* What is kept is the end of it.
LEMMA Saved ==
    ASSUME NEW d \in Decs, count \in Nat,
           NEW have \in Nat, NEW n \in Nat, NEW bits \in Nat,
           bits <= n * ByteBits,
           NEW main,
           \A j \in 0..(n - 1) : main[j] = count - have + j,
           NEW e, e = SaveReservoir(d, main, n, bits)
    PROVE  /\ e \in Decs /\ e.header = d.header
           /\ e.reserv = Kept(n, bits)
           /\ \A j \in 0..(e.reserv - 1) : e.buf[j] = count + n - have - e.reserv + j
<1> DEFINE remains == Kept(n, bits)
           from == n - remains
           kept == [j \in 0..(remains - 1) |-> main[from + j]]
<1>1. Bytes(bits) \in Nat /\ Bytes(bits) <= n
  BY BytesBound
<1>2. remains \in 0..MaxReservoir /\ from \in Nat
  BY <1>1, SizesAssumption DEF Kept, MinOf
<1>3. ASSUME NEW j \in 0..(remains - 1)
      PROVE  kept[j] = count + n - have - remains + j /\ kept[j] \in Int
  <2> HIDE DEF remains
  <2>1. from + j \in 0..(n - 1)
    BY <1>2
  <2>2. main[from + j] = count - have + (from + j)
    BY <2>1
  <2> QED BY <1>2, <2>1, <2>2
<1>4. e = [header |-> d.header, free |-> d.free, reserv |-> remains, buf |-> kept]
  BY Zenon DEF SaveReservoir
<1>5. kept \in [0..(remains - 1) -> Int]
  <2> HIDE DEF remains, from
  <2>1. \A j \in 0..(remains - 1) : main[from + j] \in Int
    BY <1>3
  <2> QED BY <2>1
<1>6. kept \in Bufs
  <2> HIDE DEF kept, remains
  <2>1. remains \in Nat
    BY <1>2, SizesAssumption
  <2> QED BY <1>5, <2>1 DEF Bufs
<1>7. e \in Decs
  <2> HIDE DEF kept, remains
  <2> QED BY <1>2, <1>4, <1>6 DEF Decs
<1>8. e.header = d.header /\ e.reserv = remains /\ e.buf = kept
  <2> HIDE DEF kept, remains
  <2> QED BY <1>4
<1>9. \A j \in 0..(e.reserv - 1) : e.buf[j] = count + n - have - e.reserv + j
  <2> HIDE DEF kept, remains
  <2> QED BY <1>3, <1>8
<1> QED BY <1>7, <1>8, <1>9

\* A frame keeps the invariant when it holds of the decoder it is given to.
LEMMA DecodeStep ==
    ASSUME TypeInv, ~lost, NEW d \in Decs, HdrValid(d.header),
           NEW s \in SideInfo, NEW len \in Int,
           NEW first \in Nat, NEW end \in Int, NEW c \in BOOLEAN,
           Suffix(d, first), c => Reach(d, first, end),
           SideInfoOk(s, len), DecodeL3(d, s, len, first, end, c), origin' = first
    PROVE  /\ dec' \in Decs /\ count' \in Nat /\ ended' \in Int /\ conform' \in BOOLEAN
           /\ Suffix(dec, origin)'
           /\ conform' => Reach(dec, origin, ended)'
           /\ ~lost'
<1> DEFINE have == MinOf(d.reserv, s.begin)
           success == d.reserv >= s.begin
           main == RestoreReservoir(d, s.begin, len)
           bits == IF success THEN s.bits ELSE 0
<1>1. /\ s.begin \in Nat /\ s.bits \in Nat /\ len \in Nat
      /\ s.bits <= (len + s.begin) * ByteBits
  BY SizesAssumption DEF SideInfo, SideInfoOk
<1>2. count \in Nat /\ d.reserv \in 0..MaxReservoir /\ have \in Nat /\ have <= d.reserv
  BY <1>1, SizesAssumption DEF TypeInv, Decs, MinOf
<1>3. main = [j \in 0..(have + len - 1) |-> count - have + j]
  BY <1>1, <1>2, Restored
<1>4. success => have = s.begin
  BY <1>1, <1>2 DEF MinOf
<1>5. ~success => have = d.reserv
  BY <1>1, <1>2 DEF MinOf
<1>6. bits \in Nat /\ bits <= (have + len) * ByteBits
  <2>1. CASE success
    BY <1>1, <1>4, <2>1
  <2>2. CASE ~success
    BY <1>1, <1>2, <2>2, SizesAssumption
  <2> QED BY <2>1, <2>2
<1>7. dec' = SaveReservoir(d, main, have + len, bits)
  BY DEF DecodeL3
<1>8. /\ dec' \in Decs
      /\ dec'.reserv = Kept(have + len, bits)
      /\ \A j \in 0..(dec'.reserv - 1) : dec'.buf[j] = count + len - dec'.reserv + j
  <2> HIDE DEF have, main, bits
  <2>1. PICK n \in Nat : n = have + len
    BY <1>1, <1>2
  <2>2. bits <= n * ByteBits /\ \A j \in 0..(n - 1) : main[j] = count - have + j
    <3>1. ASSUME NEW j \in 0..(n - 1) PROVE main[j] = count - have + j
      <4>1. j \in 0..(have + len - 1)
        BY <1>1, <1>2, <2>1
      <4> QED BY <1>3, <4>1
    <3> QED BY <1>6, <2>1, <3>1
  <2>3. dec' = SaveReservoir(d, main, n, bits)
    BY <1>7, <2>1
  <2>4. count + n - have = count + len
    BY <1>1, <1>2, <2>1
  <2>5. /\ dec' \in Decs /\ dec'.reserv = Kept(n, bits)
        /\ \A j \in 0..(dec'.reserv - 1) :
              dec'.buf[j] = count + n - have - dec'.reserv + j
    BY <1>2, <1>6, <2>2, <2>3, Saved
  <2>6. dec'.reserv \in Int
    BY <2>5, SizesAssumption DEF Decs
  <2>7. ASSUME NEW j \in 0..(dec'.reserv - 1)
        PROVE  dec'.buf[j] = count + len - dec'.reserv + j
    BY <1>1, <1>2, <2>1, <2>5, <2>6
  <2> QED BY <2>1, <2>5, <2>7
<1>9. Bytes(bits) \in Nat /\ Bytes(bits) <= have + len
  BY <1>1, <1>2, <1>6, BytesBound
<1>10. /\ count' = count + len
       /\ ended' = count - s.begin + Bytes(s.bits)
       /\ conform' = (c /\ Encoded(s, end))
       /\ lost' = (lost \/ (conform' /\ ~success /\ count - s.begin >= first))
  BY DEF DecodeL3
<1>11. Bytes(s.bits) \in Nat
  BY <1>1, BytesBound
<1>12. count' \in Nat /\ ended' \in Int /\ conform' \in BOOLEAN
  <2>1. count' \in Nat /\ ended' \in Int
    BY <1>1, <1>2, <1>10, <1>11
  <2>2. conform' \in BOOLEAN
    BY <1>10
  <2> QED BY <2>1, <2>2
<1>13. dec'.reserv <= have + len - Bytes(bits) /\ dec'.reserv \in Nat
  BY <1>1, <1>2, <1>8, <1>9, SizesAssumption DEF Kept, MinOf
<1>14. Suffix(dec, origin)'
  BY <1>1, <1>2, <1>8, <1>9, <1>10, <1>13 DEF Suffix
<1>15. ASSUME conform' PROVE Reach(dec, origin, ended)'
  <2>1. /\ d.reserv >= MinOf(MaxReservoir, count - MaxOf(first, end))
        /\ s.begin <= MaxReservoir /\ count - s.begin >= end
    BY <1>10, <1>15 DEF Reach, Encoded
  <2>2. CASE success
    BY <1>1, <1>2, <1>4, <1>8, <1>9, <1>10, <2>2, SizesAssumption DEF Reach, Kept, MinOf, MaxOf
  <2>3. CASE ~success
    <3>1. Bytes(bits) = 0
      BY <2>3, BytesZero
    <3> QED BY <1>1, <1>2, <1>5, <1>8, <1>10, <1>11, <2>1, <2>3, <3>1, SizesAssumption
            DEF Reach, Kept, MinOf, MaxOf
  <2> QED BY <2>2, <2>3
<1>16. ~lost'
  <2>1. SUFFICES ASSUME conform', ~success, count - s.begin >= first PROVE FALSE
    BY <1>10
  <2>2. /\ d.reserv >= MinOf(MaxReservoir, count - MaxOf(first, end))
        /\ s.begin <= MaxReservoir /\ count - s.begin >= end
    BY <1>10, <2>1 DEF Reach, Encoded
  <2> QED BY <1>1, <1>2, <2>1, <2>2, SizesAssumption DEF MinOf, MaxOf
<1> QED BY <1>8, <1>12, <1>14, <1>15, <1>16

LEMMA ClearedOk ==
    ASSUME TypeInv
    PROVE  /\ Cleared \in Decs
           /\ Suffix(Cleared, count)
           /\ Reach(Cleared, count, count - MaxReservoir)
<1>1. Cleared \in Decs
  <2>1. <<>> \in [0..(0 - 1) -> Int]
    OBVIOUS
  <2>2. <<>> \in Bufs
    BY <2>1 DEF Bufs
  <2>3. None \in Cells
    BY DEF Cells
  <2> QED BY <2>2, <2>3, SizesAssumption DEF Cleared, Decs
<1>2. count \in Nat /\ MaxReservoir \in Nat
  BY SizesAssumption DEF TypeInv
<1>3. Suffix(Cleared, count)
  BY <1>2 DEF Suffix, Cleared
<1>4. Reach(Cleared, count, count - MaxReservoir)
  BY <1>2 DEF Reach, Cleared, MinOf, MaxOf
<1> QED BY <1>1, <1>3, <1>4

\* What is looked at as a header is one, or is none.
LEMMA CellAt ==
    ASSUME TypeInv, NEW n \in Given, NEW i \in 0..(n - 1)
    PROVE  At(i) \in Cells /\ At(i).size \in Nat
<1>1. n \in Nat /\ n <= Len(data) - here /\ here \in Nat /\ data \in Seq(Cells)
  BY DEF Given, Total, TypeInv
<1>2. here + i + 1 \in 1..Len(data)
  BY <1>1
<1>3. At(i) \in Cells
  BY <1>1, <1>2 DEF At, Byte
<1>4. \A h \in Headers : h.size \in Nat
  BY HeadersAssumption
<1>5. None.size \in Nat
  BY DEF None
<1> QED BY <1>3, <1>4, <1>5 DEF Cells

LEMMA FreeTyped == \A i, n : FreeAt(i, n) \in Nat
<1>1. SUFFICES ASSUME NEW i, NEW n PROVE FreeAt(i, n) \in Nat
  OBVIOUS
<1>2. FreeSizes(i, n) \in SUBSET Nat
  BY SizesAssumption DEF FreeSizes
<1>3. CASE FreeSizes(i, n) = {}
  BY <1>3 DEF FreeAt
<1>4. CASE FreeSizes(i, n) # {}
  BY <1>2, <1>4, LeastIn DEF FreeAt
<1> QED BY <1>3, <1>4

LEMMA FrameStep ==
    ASSUME TypeInv, ~lost, NEW n \in Given, NEW i \in 0..(n - 1), NEW d \in Decs,
           NEW size \in Nat, NEW s \in SideInfo,
           NEW first \in Nat, NEW end \in Int, NEW c \in BOOLEAN,
           Suffix(d, first), c => Reach(d, first, end), HdrValid(At(i)),
           Frame(d, i, size, s, first, end, c), data' = data
    PROVE  IInv'
<1> DEFINE d1 == [d EXCEPT !.header = At(i)]
           len == size - HdrSize - SideSize
<1>1. /\ d1 \in Decs /\ d1.reserv = d.reserv /\ d1.buf = d.buf
      /\ d1.header = At(i)
  BY CellAt DEF Decs
<1>2. Suffix(d1, first) /\ (c => Reach(d1, first, end))
  BY <1>1 DEF Suffix, Reach
<1>3. len \in Int /\ here' \in Nat /\ origin' = first /\ data' \in Seq(Cells)
  <2>1. here' = here + i + size /\ origin' = first
    BY DEF Frame
  <2>2. here \in Nat /\ i \in Nat /\ data \in Seq(Cells)
    BY DEF TypeInv, Given
  <2> QED BY <2>1, <2>2, SizesAssumption
<1> HIDE DEF d1, len
<1>4. CASE /\ dec' = d1 /\ ended' = end /\ conform' = c
           /\ UNCHANGED <<count, lost>>
  <2>1. TypeInv'
    BY <1>1, <1>3, <1>4 DEF TypeInv
  <2>2. Suffix(dec, origin)'
    BY <1>2, <1>3, <1>4 DEF Suffix
  <2>3. conform' => Reach(dec, origin, ended)'
    BY <1>2, <1>3, <1>4 DEF Reach
  <2> QED BY <1>4, <2>1, <2>2, <2>3 DEF IInv
<1>5. CASE Reject(d1)
  <2>1. dec'.header = None /\ dec' \in Decs
    BY <1>1, <1>5 DEF Reject, Decs, Cells
  <2>2. TypeInv'
    BY <1>3, <1>5, <2>1 DEF TypeInv, Reject
  <2>3. ~HdrValid(dec.header)'
    BY <2>1 DEF HdrValid, None
  <2> QED BY <1>5, <2>2, <2>3 DEF IInv, Reject
<1>6. CASE SideInfoOk(s, len) /\ DecodeL3(d1, s, len, first, end, c)
  <2>1. /\ dec' \in Decs /\ count' \in Nat /\ ended' \in Int /\ conform' \in BOOLEAN
        /\ Suffix(dec, origin)'
        /\ conform' => Reach(dec, origin, ended)'
        /\ ~lost'
    BY <1>1, <1>2, <1>3, <1>6, DecodeStep
  <2>2. TypeInv'
    BY <1>3, <2>1 DEF TypeInv
  <2> QED BY <2>1, <2>2 DEF IInv
<1> QED BY <1>4, <1>5, <1>6 DEF Frame, d1, len

LEMMA NextStep ==
    ASSUME IInv, [Next]_vars
    PROVE  IInv'
<1> USE DEF IInv
<1>1. CASE UNCHANGED vars
  BY <1>1 DEF vars, history, TypeInv, Suffix, Reach
<1>2. ASSUME NEW n \in Given, Expected(n) PROVE IInv'
  <2>1. NextFrame(n) # 0
    BY <1>2 DEF Expected
  <2>2. n > HdrSize /\ HdrValid(dec.header) /\ HdrCompare(dec.header, At(0))
    BY <2>1, SizesAssumption DEF NextFrame, Given
  <2>3. 0 \in 0..(n - 1) /\ HdrValid(At(0))
    BY <2>2, SizesAssumption DEF HdrCompare, Given
  <2>4. At(0).size \in Nat /\ dec.free \in Nat
    BY <2>3, CellAt DEF TypeInv, Decs
  <2>5. NextFrame(n) \in Nat
    BY <2>4 DEF NextFrame, FrameSize
  <2>6. PICK s \in SideInfo : Frame(dec, 0, NextFrame(n), s, origin, ended, conform)
    BY <1>2 DEF Expected
  <2>7. /\ TypeInv /\ ~lost /\ dec \in Decs /\ data' = data
        /\ origin \in Nat /\ ended \in Int /\ conform \in BOOLEAN
        /\ Suffix(dec, origin) /\ (conform => Reach(dec, origin, ended))
    BY <1>2, <2>2 DEF TypeInv, Expected
  <2> HIDE DEF IInv
  <2> QED BY <2>3, <2>5, <2>6, <2>7, FrameStep
<1>3. ASSUME NEW n \in Given, Resync(n) PROVE IInv'
  <2> DEFINE i == Least(FrameStarts(n))
             d == [Cleared EXCEPT !.free = FreeAt(i, n)]
             sz == SizeAt(i, n)
  <2>1. FrameStarts(n) \in SUBSET Nat /\ FrameStarts(n) # {}
    BY <1>3, SizesAssumption DEF FrameStarts, Resync, Given
  <2>2. i \in FrameStarts(n)
    BY <2>1, LeastIn
  <2>3. PICK s \in SideInfo : Frame(d, i, sz, s, count, count - MaxReservoir, TRUE)
    BY <1>3 DEF Resync
  <2> HIDE DEF i
  <2>4. i \in 0..(n - 1) /\ HdrValid(At(i))
    BY <2>2, SizesAssumption DEF FrameStarts, IsFrame, Given
  <2>5. sz \in Nat
    BY <2>4, CellAt, FreeTyped DEF SizeAt, FrameSize
  <2>6. d \in Decs /\ d.reserv = Cleared.reserv /\ d.buf = Cleared.buf
    BY ClearedOk, FreeTyped DEF Decs
  <2>7. /\ Suffix(d, count)
        /\ Reach(d, count, count - MaxReservoir)
    BY <2>6, ClearedOk DEF Suffix, Reach
  <2>8. TypeInv /\ ~lost /\ data' = data /\ count \in Nat /\ count - MaxReservoir \in Int
    BY <1>3, SizesAssumption DEF TypeInv, Resync
  <2> HIDE DEF IInv, d, sz
  <2> QED BY <2>3, <2>4, <2>5, <2>6, <2>7, <2>8, FrameStep
<1>4. ASSUME NEW n \in Given, NoFrame(n) PROVE IInv'
  <2>1. /\ dec' = Cleared /\ data' = data /\ count' = count /\ lost' = lost
        /\ here' = here + n /\ origin' = count /\ ended' = count - MaxReservoir
        /\ conform' = TRUE
    BY <1>4 DEF NoFrame
  <2>2. TypeInv'
    BY <2>1, ClearedOk, SizesAssumption DEF TypeInv, Given
  <2>3. ~HdrValid(dec.header)'
    BY <2>1 DEF HdrValid, Cleared, None
  <2> QED BY <2>1, <2>2, <2>3
<1> QED BY <1>1, <1>2, <1>3, <1>4 DEF Next

LEMMA InitOk == Init => IInv
<1>1. SUFFICES ASSUME Init PROVE IInv
  OBVIOUS
<1>2. TypeInv
  <2>1. Cleared \in Decs
    <3>1. <<>> \in [0..(0 - 1) -> Int]
      OBVIOUS
    <3>2. <<>> \in Bufs
      BY <3>1 DEF Bufs
    <3>3. None \in Cells
      BY DEF Cells
    <3> QED BY <3>2, <3>3, SizesAssumption DEF Cleared, Decs
  <2> QED BY <1>1, <2>1, StreamsAssumption, SizesAssumption DEF Init, TypeInv
<1>3. ~HdrValid(dec.header) /\ ~lost
  BY <1>1 DEF Init, HdrValid, Cleared, None
<1> QED BY <1>2, <1>3 DEF IInv

\* Types, what the reservoir holds, how far back it reaches, and that nothing
\* was lost, for every stream.
THEOREM InductiveInvariant == Spec => []IInv
<1> QED BY InitOk, NextStep, PTL DEF Spec

\* No length of a copy into or out of reserv_buf is negative or too large.
THEOREM InRange == Spec => []ReservoirInRange
<1>1. IInv => ReservoirInRange
  BY DEF IInv, TypeInv, Decs, ReservoirInRange
<1> QED BY <1>1, InductiveInvariant, PTL

\* A frame is decoded with the bytes that came right before its own.
THEOREM OwnData == Spec => []FramesReadOwnData
<1>1. IInv => FramesReadOwnData
  <2>1. SUFFICES ASSUME IInv, HdrValid(dec.header)
                 PROVE  /\ dec.reserv <= count - origin
                        /\ \A b \in 0..dec.reserv :
                              \A j \in 0..b : RestoreReservoir(dec, b, 1)[j] = count - b + j
    BY DEF FramesReadOwnData
  <2>2. /\ dec \in Decs /\ count \in Nat /\ origin \in Nat /\ Suffix(dec, origin)
        /\ dec.reserv \in Nat
    BY <2>1, SizesAssumption DEF IInv, TypeInv, Decs
  <2>3. ASSUME NEW b \in 0..dec.reserv, NEW j \in 0..b
        PROVE  RestoreReservoir(dec, b, 1)[j] = count - b + j
    <3>1. b \in Nat /\ MinOf(dec.reserv, b) = b
      BY <2>2, <2>3 DEF MinOf
    <3>2. RestoreReservoir(dec, b, 1)
            = [k \in 0..(MinOf(dec.reserv, b) + 1 - 1) |-> count - MinOf(dec.reserv, b) + k]
      BY <2>2, <3>1, Restored
    <3>3. j \in 0..(MinOf(dec.reserv, b) + 1 - 1)
      BY <2>3, <3>1
    <3> QED BY <3>1, <3>2, <3>3
  <2> QED BY <2>2, <2>3 DEF Suffix
<1> QED BY <1>1, InductiveInvariant, PTL

\* A frame whose main data all came after the last gap is never silent.
THEOREM NothingLost == Spec => []NoFrameLost
<1>1. IInv => NoFrameLost
  BY DEF IInv, NoFrameLost
<1> QED BY <1>1, InductiveInvariant, PTL

-----------------------------------------------------------------------------
(* A stream of nothing but frames of one size: by induction over the frames  *)
(* taken, those up to where the caller is are all taken and no others.  That *)
(* the search for a frame succeeds at each of them is shown for any number of *)
(* frames that are looked at behind it.                                      *)

\* The caller is at the beginning, or behind a frame with all before it taken.
Aligned(f) ==
    \/ here = 0 /\ taken = {}
    \/ /\ here > f /\ here <= Total /\ (here - f) % Byte(f).size = 0
       /\ taken = {p \in f..(here - 1) : (p - f) % Byte(f).size = 0}

CleanInv == \A f \in 0..(Total - 1) : CleanFrom(f) => Aligned(f)

LEMMA Multiple ==
    ASSUME NEW s \in Nat \ {0}
    PROVE  /\ \A q \in Nat : q * s \in Nat /\ (q * s) % s = 0
           /\ \A x \in Nat : x % s = 0 => \E q \in Nat : x = q * s
<1>1. ASSUME NEW q \in Nat PROVE q * s \in Nat /\ (q * s) % s = 0
  BY SMT
<1>2. ASSUME NEW x \in Nat, x % s = 0 PROVE \E q \in Nat : x = q * s
  <2>1. s \in Int /\ s > 0 /\ x \in Int /\ x >= 0
    OBVIOUS
  <2>2. PICK q \in Int : q = x \div s
    BY <2>1, SMT
  <2>3. x = s * q + (x % s)
    BY <2>1, <2>2, SMT
  <2>4. q >= 0
    BY <2>1, <2>2, SMT
  <2> QED BY <1>2, <2>3, <2>4
<1> QED BY <1>1, <1>2

\* Multiples of s: their sum is one, and the next one is s away.
LEMMA Multiples ==
    ASSUME NEW s \in Nat \ {0}, NEW x \in Nat, NEW y \in Nat, x % s = 0, y % s = 0
    PROVE  /\ (x + y) % s = 0
           /\ x < y => x + s <= y
<1>1. PICK a \in Nat : x = a * s
  BY Multiple
<1>2. PICK b \in Nat : y = b * s
  BY Multiple
<1>3. (x + y) % s = 0
  <2>1. x + y = (a + b) * s /\ a + b \in Nat
    BY <1>1, <1>2, SMT
  <2>2. PICK c \in Nat : x + y = c * s
    BY <2>1
  <2>3. (c * s) % s = 0
    BY Multiple
  <2> QED BY <2>2, <2>3, Zenon
<1>4. ASSUME x < y PROVE x + s <= y
  <2>1. a < b
    BY <1>1, <1>2, <1>4, SMT
  <2>2. b = a + 1 + (b - a - 1) /\ b - a - 1 \in Nat
    BY <2>1
  <2>3. y = a * s + s + (b - a - 1) * s
    BY <1>2, <2>2, SMT
  <2>4. (b - a - 1) * s \in Nat
    BY <2>2, Multiple
  <2> QED BY <1>1, <2>3, <2>4
<1> QED BY <1>3, <1>4

FramesFrom(i, n, s) ==
    \A k \in Nat : i + k * s + HdrSize <= n => At(i + k * s).size = s

\* Where the search gets to when a frame of size s is at each place it looks at.
LEMMA HopAlong ==
    ASSUME NEW n \in Nat, NEW i \in Nat, NEW s \in Nat \ {0}, NEW free,
           i + HdrSize <= n, FramesFrom(i, n, s)
    PROVE  \A k \in 0..MaxMatches :
              /\ i + k * s + HdrSize <= n => Hop(i, n, free)[k] = i + k * s
              /\ ~(i + k * s + HdrSize <= n) => Hop(i, n, free)[k] = n
<1> DEFINE Step(h, k) ==
              IF k = 0 THEN i
              ELSE IF h[k - 1] = n THEN n
              ELSE LET next == h[k - 1] + FrameSize(At(h[k - 1]), free)
                   IN  IF next + HdrSize > n THEN n ELSE next
           Val(k) == IF i + k * s + HdrSize <= n THEN i + k * s ELSE n
           G == [k \in 0..MaxMatches |-> Val(k)]
           hop == Hop(i, n, free)
<1>1. HdrSize \in Nat \ {0} /\ MaxMatches \in Nat \ {0}
  BY SizesAssumption
<1>2. ASSUME NEW h, NEW k \in 0..MaxMatches, k # 0 => h[k - 1] = Val(k - 1)
      PROVE  Step(h, k) = Val(k)
  <2>1. CASE k = 0
    BY <1>1, <2>1
  <2>2. CASE k # 0
    <3>1. PICK j \in Nat : k = j + 1
      BY <1>1, <2>2
    <3>2. h[k - 1] = Val(j)
      BY <1>2, <2>2, <3>1
    <3>3. j * s \in Nat /\ k * s = j * s + s
      BY <3>1, Multiple, SMT
    <3>4. CASE i + j * s + HdrSize <= n
      <4>1. h[k - 1] = i + j * s /\ h[k - 1] # n
        BY <1>1, <3>2, <3>3, <3>4
      <4>2. FrameSize(At(h[k - 1]), free) = s
        BY <3>4, <4>1 DEF FrameSize, FramesFrom
      <4>3. Step(h, k) = IF i + j * s + s + HdrSize > n THEN n ELSE i + j * s + s
        BY <2>2, <4>1, <4>2
      <4>4. Val(k) = IF i + j * s + s + HdrSize <= n THEN i + j * s + s ELSE n
        BY <3>3
      <4> HIDE DEF Step, Val
      <4> QED BY <1>1, <3>3, <4>3, <4>4
    <3>5. CASE ~(i + j * s + HdrSize <= n)
      <4>1. Val(j) = n
        BY <3>5
      <4>2. Step(h, k) = n
        BY <2>2, <3>2, <4>1
      <4>3. Val(k) = n
        <5>1. ~(i + k * s + HdrSize <= n)
          BY <1>1, <3>3, <3>5
        <5> QED BY <5>1
      <4> QED BY <4>2, <4>3
    <3> QED BY <3>4, <3>5
  <2> QED BY <2>1, <2>2
<1> HIDE DEF Val
<1>3. G = [k \in 0..MaxMatches |-> Step(G, k)]
  <2>1. ASSUME NEW k \in 0..MaxMatches PROVE Step(G, k) = Val(k)
    <3>1. k # 0 => G[k - 1] = Val(k - 1)
      BY <1>1
    <3> HIDE DEF G, Step
    <3> QED BY <1>2, <3>1
  <2> HIDE DEF Step
  <2> QED BY <2>1
<1>4. hop = [k \in 0..MaxMatches |-> Step(hop, k)]
  <2>1. hop = CHOOSE h : h = [k \in 0..MaxMatches |-> Step(h, k)]
    BY DEF Hop
  <2>2. \E h : h = [k \in 0..MaxMatches |-> Step(h, k)]
    <3> HIDE DEF G, Step
    <3> QED BY <1>3
  <2> HIDE DEF hop, Step
  <2> QED BY <2>1, <2>2
<1> HIDE DEF Step, hop
<1> DEFINE Wrong == {k \in 0..MaxMatches : hop[k] # Val(k)}
<1>5. Wrong = {}
  <2>1. SUFFICES ASSUME Wrong # {} PROVE FALSE
    OBVIOUS
  <2>2. PICK k \in Wrong : \A y \in Wrong : k <= y
    <3>1. Wrong \in SUBSET Nat
      BY <1>1
    <3> QED BY <2>1, <3>1, LeastIn
  <2>3. k # 0 => hop[k - 1] = Val(k - 1)
    <3>1. ASSUME k # 0 PROVE k - 1 \in 0..MaxMatches /\ ~(k <= k - 1)
      BY <1>1, <3>1
    <3> QED BY <2>2, <3>1
  <2>4. hop[k] = Step(hop, k)
    BY <1>4
  <2> QED BY <1>2, <2>3, <2>4
<1> QED BY <1>5 DEF Val, hop

\* From f on there are frames of one size, the last one perhaps torn, and before
\* it no header.
RunFrom(f) ==
    /\ HdrValid(Byte(f)) /\ Byte(f).size > 0
    /\ \A p \in 0..(Total - 1) :
          Byte(p) = IF p >= f /\ (p - f) % Byte(f).size = 0 THEN Byte(f) ELSE None

LEMMA RunCell ==
    ASSUME TypeInv, NEW f \in 0..(Total - 1), RunFrom(f)
    PROVE  /\ Total \in Nat
           /\ Byte(f).size \in Nat \ {0} /\ Byte(f).size > HdrSize
           /\ Byte(f).class # "none"
           /\ \A p \in 0..(Total - 1) :
                 Byte(p) = IF p >= f /\ (p - f) % Byte(f).size = 0 THEN Byte(f) ELSE None
<1>1. Total \in Nat
  BY DEF Total, TypeInv
<1>2. f + 1 \in 1..Len(data)
  BY <1>1 DEF Total
<1>3. Byte(f) \in Cells
  BY <1>2 DEF Byte, TypeInv
<1>4. Byte(f).class # "none" /\ Byte(f).size > 0
  BY DEF RunFrom, HdrValid
<1>5. Byte(f) \in Headers
  BY <1>3, <1>4 DEF Cells, None
<1>6. Byte(f).size \in Nat /\ Byte(f).size > HdrSize
  <2>1. Byte(f).size \in Nat
    BY <1>5, HeadersAssumption
  <2>2. Byte(f).size = 0 \/ Byte(f).size > HdrSize
    BY <1>5, HeadersAssumption
  <2> QED BY <1>4, <2>1, <2>2
<1> QED BY <1>1, <1>4, <1>6 DEF RunFrom

\* A clean stream is such a run, and no frame of it is torn.
LEMMA CleanCell ==
    ASSUME TypeInv, NEW f \in 0..(Total - 1), CleanFrom(f)
    PROVE  /\ RunFrom(f)
           /\ Total \in Nat
           /\ Byte(f).size \in Nat \ {0} /\ Byte(f).size > HdrSize
           /\ Byte(f).class # "none"
           /\ (Total - f) % Byte(f).size = 0
           /\ \A p \in 0..(Total - 1) :
                 Byte(p) = IF p >= f /\ (p - f) % Byte(f).size = 0 THEN Byte(f) ELSE None
<1>1. RunFrom(f)
  BY DEF CleanFrom, RunFrom
<1> QED BY <1>1, RunCell DEF CleanFrom

\* Of the n bytes given, the frame at i is all, or a header follows it.
LEMMA FrameInRun ==
    ASSUME TypeInv, NEW f \in 0..(Total - 1), RunFrom(f), NEW n \in Nat,
           NEW i \in Nat, here + i \in f..(Total - 1), n <= Total - here,
           (here + i - f) % Byte(f).size = 0,
           \/ i + Byte(f).size + HdrSize <= n
           \/ i = 0 /\ n = Byte(f).size
    PROVE  At(i) = Byte(f) /\ SizeAt(i, n) = Byte(f).size /\ IsFrame(i, n)
<1> DEFINE s == Byte(f).size
           free == FreeAt(i, n)
<1>1. /\ Total \in Nat /\ s \in Nat \ {0} /\ s > HdrSize /\ Byte(f).class # "none"
      /\ \A p \in 0..(Total - 1) :
            Byte(p) = IF p >= f /\ (p - f) % s = 0 THEN Byte(f) ELSE None
  BY RunCell
<1>2. here \in Nat /\ HdrSize \in Nat \ {0} /\ MaxMatches \in Nat \ {0}
  BY SizesAssumption DEF TypeInv
<1> HIDE DEF s
<1>3. At(i) = Byte(f)
  BY <1>1, <1>2 DEF At, s
<1>4. At(i).size = s /\ s # 0
  BY <1>1, <1>3 DEF s
<1>5. SizeAt(i, n) = s /\ HdrValid(At(i))
  BY <1>1, <1>3, <1>4 DEF SizeAt, FrameSize, HdrValid
<1>6. ASSUME NEW k \in Nat, i + k * s + HdrSize <= n PROVE At(i + k * s) = Byte(f)
  <2>1. PICK j \in Nat : j = k * s
    BY <1>1, Multiple
  <2>2. j % s = 0
    <3>1. (k * s) % s = 0
      BY <1>1, Multiple
    <3> QED BY <2>1, <3>1, Zenon
  <2>3. PICK x \in Nat : x = here + i - f
    BY <1>1, <1>2
  <2>4. (x + j) % s = 0
    BY <1>1, <2>2, <2>3, Multiples DEF s
  <2>5. PICK p \in 0..(Total - 1) : p = here + (i + j)
    BY <1>1, <1>2, <1>6, <2>1
  <2>6. p >= f /\ p - f = x + j
    BY <1>1, <1>2, <2>3, <2>5
  <2>7. (p - f) % s = 0
    BY <2>4, <2>6, Zenon
  <2>8. Byte(p) = Byte(f)
    BY <1>1, <2>6, <2>7, Zenon
  <2> QED BY <2>1, <2>5, <2>8 DEF At
<1>7. CASE i + s + HdrSize <= n
  <2> DEFINE hop == Hop(i, n, free)
             Past == {k \in 1..MaxMatches : ~(i + k * s + HdrSize <= n)}
  <2>1. \A k \in 0..MaxMatches :
           /\ i + k * s + HdrSize <= n => hop[k] = i + k * s
           /\ ~(i + k * s + HdrSize <= n) => hop[k] = n
    <3>1. i + HdrSize <= n
      BY <1>1, <1>2, <1>7
    <3>2. FramesFrom(i, n, s)
      BY <1>6 DEF s, FramesFrom
    <3>3. s \in Nat \ {0}
      BY <1>1
    <3> HIDE DEF free
    <3>4. ASSUME NEW k \in 0..MaxMatches, i + k * s + HdrSize <= n
          PROVE  hop[k] = i + k * s
      BY <3>1, <3>2, <3>3, <3>4, HopAlong
    <3>5. ASSUME NEW k \in 0..MaxMatches, ~(i + k * s + HdrSize <= n)
          PROVE  hop[k] = n
      BY <3>1, <3>2, <3>3, <3>5, HopAlong
    <3> HIDE DEF hop
    <3> QED BY <3>4, <3>5
  <2> HIDE DEF hop
  <2>2. ASSUME NEW k \in 1..MaxMatches, i + k * s + HdrSize <= n
        PROVE  hop[k] # n /\ HdrCompare(At(i), At(hop[k]))
    <3>1. k \in Nat /\ k \in 0..MaxMatches
      BY <1>2
    <3>2. hop[k] = i + k * s /\ At(hop[k]) = Byte(f)
      BY <1>6, <2>1, <2>2, <3>1
    <3>3. k * s \in Nat
      BY <1>1, <3>1, Multiple
    <3>4. hop[k] # n
      BY <1>2, <2>2, <3>2, <3>3
    <3> QED BY <1>1, <1>3, <3>2, <3>4 DEF HdrCompare, HdrValid
  <2>3. \E m \in 1..MaxMatches :
           /\ \A k \in 1..m : hop[k] # n /\ HdrCompare(At(i), At(hop[k]))
           /\ m = MaxMatches \/ hop[m + 1] = n
    <3>1. CASE Past = {}
      <4>1. \A k \in 1..MaxMatches : hop[k] # n /\ HdrCompare(At(i), At(hop[k]))
        BY <2>2, <3>1
      <4>2. MaxMatches \in 1..MaxMatches
        BY <1>2
      <4> QED BY <4>1, <4>2
    <3>2. CASE Past # {}
      <4>1. PICK m1 \in Past : \A y \in Past : m1 <= y
        <5>1. Past \in SUBSET Nat
          BY <1>2
        <5> QED BY <3>2, <5>1, LeastIn
      <4>2. 1 * s = s /\ ~(1 \in Past)
        BY <1>1, <1>7
      <4>3. PICK m \in 1..MaxMatches : m1 = m + 1
        BY <1>2, <4>1, <4>2
      <4>4. ASSUME NEW k \in 1..m PROVE hop[k] # n /\ HdrCompare(At(i), At(hop[k]))
        <5>1. k \in 1..MaxMatches /\ ~(m1 <= k)
          BY <1>2, <4>3
        <5>2. ~(k \in Past)
          BY <4>1, <5>1
        <5> QED BY <2>2, <5>1, <5>2
      <4>5. hop[m + 1] = n
        <5>1. m1 \in 0..MaxMatches /\ ~(i + m1 * s + HdrSize <= n)
          BY <1>2, <4>1
        <5> QED BY <2>1, <4>3, <5>1
      <4> QED BY <4>3, <4>4, <4>5
    <3> QED BY <3>1, <3>2
  <2>4. MatchFrame(i, n, free)
    BY <2>3 DEF MatchFrame, hop
  <2>5. i + s <= n
    BY <1>1, <1>2, <1>7
  <2> QED BY <1>3, <1>4, <1>5, <2>4, <2>5 DEF IsFrame, s
<1>8. CASE i = 0 /\ n = s
  BY <1>3, <1>5, <1>8 DEF IsFrame, s
<1> QED BY <1>7, <1>8 DEF s

\* Taking the frame at the first place that has one not yet taken.
LEMMA TakenStep ==
    ASSUME TypeInv, NEW f \in 0..(Total - 1), CleanFrom(f), Aligned(f),
           NEW i \in Nat, i = IF here = 0 THEN f ELSE 0,
           (here + i - f) % Byte(f).size = 0, here + i \in f..(Total - 1),
           data' = data, here' = here + i + Byte(f).size, taken' = taken \cup {here + i}
    PROVE  Aligned(f)'
<1> DEFINE s == Byte(f).size
<1>1. Total \in Nat /\ s \in Nat \ {0} /\ (Total - f) % s = 0
  BY CleanCell
<1>2. Byte(f)' = Byte(f) /\ Total' = Total
  BY DEF Byte, Total
<1>3. here \in Nat
  BY DEF TypeInv
<1> HIDE DEF s
<1>4. PICK pos \in f..(Total - 1) : pos = here + i
  OBVIOUS
<1>5. PICK x \in Nat : x = pos - f
  BY <1>1, <1>4
<1>6. x % s = 0
  <2>1. x = here + i - f
    BY <1>3, <1>4, <1>5
  <2> QED BY <2>1, Zenon DEF s
<1>7. s % s = 0
  BY <1>1, SMT
<1> DEFINE e == pos + s
<1>e. e \in Nat /\ e = pos + s /\ e > f
  BY <1>1, <1>4
<1> HIDE DEF e
<1>8. here' = e /\ (e - f) % s = 0
  <2>1. (x + s) % s = 0
    BY <1>1, <1>6, <1>7, Multiples
  <2>2. e - f = x + s
    BY <1>1, <1>4, <1>5, <1>e
  <2>3. here' = e
    BY <1>4 DEF s, e
  <2> QED BY <2>1, <2>2, <2>3, Zenon
<1>9. e <= Total
  <2>1. PICK y \in Nat : y = Total - f
    BY <1>1
  <2>2. y % s = 0 /\ x < y
    BY <1>1, <1>4, <1>5, <2>1
  <2>3. x + s <= y
    BY <1>1, <1>6, <2>2, Multiples
  <2> QED BY <1>1, <1>4, <1>5, <1>e, <2>1, <2>3
<1>10. taken = {p \in f..(pos - 1) : (p - f) % s = 0}
  <2>1. CASE here = 0
    <3>1. taken = {} /\ pos = f
      BY <1>4, <2>1 DEF Aligned
    <3> QED BY <3>1
  <2>2. CASE here # 0
    <3>1. pos = here
      BY <1>3, <1>4, <2>2
    <3> QED BY <2>2, <3>1 DEF Aligned, s
  <2> QED BY <2>1, <2>2
<1>11. ASSUME NEW p \in f..(e - 1), (p - f) % s = 0 PROVE p <= pos
  <2>1. PICK y \in Nat : y = p - f
    BY <1>1, <1>4, <1>e
  <2>2. y % s = 0
    BY <1>11, <2>1
  <2>3. x < y => x + s <= y
    BY <1>1, <1>6, <2>2, Multiples
  <2> QED BY <1>1, <1>4, <1>5, <1>e, <2>1, <2>3
<1>12. (pos - f) % s = 0
  BY <1>5, <1>6
<1>13. taken' = {p \in f..(e - 1) : (p - f) % s = 0}
  <2>1. taken' = taken \cup {pos}
    BY <1>4
  <2>2. f..(pos - 1) \subseteq f..(e - 1) /\ pos \in f..(e - 1)
    BY <1>1, <1>4, <1>e
  <2>3. ASSUME NEW p \in f..(e - 1), p <= pos
        PROVE  p \in f..(pos - 1) \/ p = pos
    BY <1>4, <1>e, <2>3
  <2> QED BY <1>10, <1>11, <1>12, <2>1, <2>2, <2>3, Zenon
<1>14. /\ here' > f /\ here' <= Total' /\ (here' - f) % s = 0
       /\ taken' = {p \in f..(here' - 1) : (p - f) % s = 0}
  BY <1>2, <1>8, <1>9, <1>13, <1>e, Zenon
<1>15. Byte(f)'.size = s
  BY <1>2 DEF s
<1> HIDE DEF Total, Byte
<1> QED BY <1>14, <1>15, Zenon DEF Aligned

LEMMA CleanStep ==
    ASSUME TypeInv, [Next]_vars, NEW f \in 0..(Total - 1), CleanFrom(f), Aligned(f)
    PROVE  Aligned(f)'
<1> DEFINE s == Byte(f).size
<1>1. /\ Total \in Nat /\ s \in Nat \ {0} /\ s > HdrSize /\ (Total - f) % s = 0
      /\ Byte(f).class # "none"
      /\ \A p \in 0..(Total - 1) :
            Byte(p) = IF p >= f /\ (p - f) % s = 0 THEN Byte(f) ELSE None
  BY CleanCell
<1>2. here \in Nat /\ HdrSize \in Nat \ {0} /\ Window \in Nat
  BY SizesAssumption DEF TypeInv
<1>3. CASE UNCHANGED vars
  BY <1>3, Zenon DEF vars, history, Aligned, Byte, Total
<1>4. ASSUME NEW n \in Given, Expected(n) \/ Resync(n) \/ NoFrame(n)
      PROVE  Aligned(f)'
  <2> DEFINE i == IF here = 0 THEN f ELSE 0
  <2>1. n \in Nat /\ n > 0 /\ n <= Total - here /\ (n >= Window \/ n = Total - here)
    BY <1>1, <1>2 DEF Given
  <2>2. i \in Nat /\ here + i \in f..(Total - 1) /\ (here + i - f) % s = 0
    <3>1. CASE here = 0
      <4>1. 0 % s = 0
        BY <1>1, SMT
      <4>2. i \in Nat /\ here + i \in f..(Total - 1) /\ here + i - f = 0
        BY <1>1, <3>1
      <4> QED BY <4>1, <4>2, Zenon
    <3>2. CASE here # 0
      <4>1. here > f /\ (here - f) % s = 0 /\ here + i \in f..(Total - 1)
        BY <1>1, <1>2, <2>1, <3>2 DEF Aligned
      <4>2. i \in Nat /\ here + i - f = here - f
        BY <1>2, <3>2
      <4> QED BY <4>1, <4>2, Zenon
    <3> QED BY <3>1, <3>2
  <2>3. i + s + HdrSize <= n \/ (i = 0 /\ n = s)
    <3> HIDE DEF s
    <3>0. PICK x \in Nat : x = here + i - f
      BY <1>1, <1>2, <2>2
    <3>1. PICK y \in Nat : y = Total - f
      BY <1>1
    <3>2. x % s = 0 /\ y % s = 0 /\ x < y
      <4>1. x % s = 0
        BY <2>2, <3>0, Zenon
      <4>2. y % s = 0
        BY <1>1, <3>1, Zenon
      <4> QED BY <1>1, <1>2, <2>2, <3>0, <3>1, <4>1, <4>2
    <3>3. x + s <= y
      BY <1>1, <3>2, Multiples
    <3>4. (x + s) % s = 0
      <4>1. s % s = 0
        BY <1>1, SMT
      <4> QED BY <1>1, <3>2, <4>1, Multiples
    <3>5. x + s < y => x + s + s <= y
      BY <1>1, <3>2, <3>4, Multiples
    <3>6. f + s + HdrSize <= Window /\ (Total - f > s \/ f = 0)
      BY DEF CleanFrom, s
    <3>7. CASE here = 0
      <4>1. x = 0 /\ i = f
        BY <3>0, <3>7
      <4> QED BY <1>1, <1>2, <2>1, <3>1, <3>3, <3>5, <3>6, <3>7, <4>1
    <3>8. CASE here # 0
      <4>1. x = here - f /\ i = 0
        BY <1>2, <3>0, <3>8
      <4> HIDE DEF i
      <4> QED BY <1>1, <1>2, <2>1, <3>1, <3>3, <3>5, <3>6, <3>8, <4>1
    <3> QED BY <3>7, <3>8
  <2>4. At(i) = Byte(f) /\ SizeAt(i, n) = s /\ IsFrame(i, n)
    <3> HIDE DEF i
    <3> QED BY <2>1, <2>2, <2>3, CleanCell, FrameInRun
  <2>5. ASSUME NEW j \in Nat, j < i PROVE ~HdrValid(At(j))
    <3>1. here = 0 /\ j < f /\ here + j \in 0..(Total - 1)
      BY <1>1, <2>5
    <3>2. At(j) = None
      BY <1>1, <3>1 DEF At
    <3> QED BY <3>2 DEF HdrValid, None
  <2>6. ASSUME NEW d, NEW e, NEW first, NEW end, NEW c, data' = data,
               Frame(d, i, s, e, first, end, c)
        PROVE  Aligned(f)'
    <3>1. here' = here + i + s /\ taken' = taken \cup {here + i}
      BY <2>6 DEF Frame
    <3> QED BY <2>2, <2>6, <3>1, TakenStep
  <2> HIDE DEF i
  <2>7. CASE Expected(n)
    <3>1. NextFrame(n) # 0
      BY <2>7 DEF Expected
    <3>2. HdrValid(At(0))
      BY <3>1 DEF NextFrame, HdrCompare
    <3>3. i = 0
      BY <2>2, <2>5, <3>2
    <3>4. NextFrame(n) = s
      <4>1. FrameSize(At(0), dec.free) = s
        BY <1>1, <2>4, <3>3 DEF FrameSize
      <4> QED BY <3>1, <4>1 DEF NextFrame
    <3>5. data' = data
      BY <2>7 DEF Expected
    <3>6. PICK e \in SideInfo : Frame(dec, 0, NextFrame(n), e, origin, ended, conform)
      BY <2>7 DEF Expected
    <3>7. Frame(dec, i, s, e, origin, ended, conform)
      BY <3>3, <3>4, <3>6, Zenon
    <3> QED BY <2>6, <3>5, <3>7
  <2>8. i \in FrameStarts(n)
    BY <1>1, <1>2, <2>1, <2>2, <2>3, <2>4 DEF FrameStarts
  <2>9. CASE Resync(n)
    <3>1. FrameStarts(n) \in SUBSET Nat
      BY <1>2, <2>1 DEF FrameStarts
    <3>2. /\ Least(FrameStarts(n)) \in FrameStarts(n)
          /\ Least(FrameStarts(n)) <= i
      BY <2>8, <3>1, LeastIn
    <3>3. Least(FrameStarts(n)) = i
      <4>1. PICK j \in Nat : j = Least(FrameStarts(n))
        BY <3>1, <3>2
      <4>2. j <= i /\ HdrValid(At(j))
        BY <3>2, <4>1 DEF FrameStarts, IsFrame
      <4> QED BY <2>2, <2>5, <4>1, <4>2
    <3>4. data' = data
      BY <2>9 DEF Resync
    <3>5. PICK e \in SideInfo :
             Frame([Cleared EXCEPT !.free = FreeAt(i, n)], i, SizeAt(i, n), e, count,
                   count - MaxReservoir, TRUE)
      BY <2>9, <3>3 DEF Resync
    <3>6. Frame([Cleared EXCEPT !.free = FreeAt(i, n)], i, s, e, count,
                count - MaxReservoir, TRUE)
      BY <2>4, <3>5, Zenon
    <3> QED BY <2>6, <3>4, <3>6
  <2>10. CASE NoFrame(n)
    BY <2>8, <2>10 DEF NoFrame
  <2> QED BY <1>4, <2>7, <2>9, <2>10
<1> QED BY <1>3, <1>4 DEF Next

\* Every frame of a clean stream is taken, and nothing that is no frame.
THEOREM AllTaken == Spec => []CleanStreamDecoded
<1>1. Init => CleanInv
  <2>1. SUFFICES ASSUME Init, NEW f \in 0..(Total - 1) PROVE Aligned(f)
    BY DEF CleanInv
  <2> QED BY <2>1 DEF Init, Aligned
<1>2. TypeInv /\ CleanInv /\ [Next]_vars => CleanInv'
  <2>1. SUFFICES ASSUME TypeInv, CleanInv, [Next]_vars PROVE CleanInv'
    OBVIOUS
  <2>2. data' = data
    BY <2>1 DEF Next, vars, Expected, Resync, NoFrame
  <2>3. Total' = Total /\ \A f : CleanFrom(f)' = CleanFrom(f)
    BY <2>2 DEF Total, CleanFrom, Byte, HdrValid
  <2>4. SUFFICES ASSUME NEW f \in 0..(Total - 1), CleanFrom(f) PROVE Aligned(f)'
    BY <2>3 DEF CleanInv
  <2> QED BY <2>1, <2>4, CleanStep DEF CleanInv
<1>3. TypeInv /\ CleanInv => CleanStreamDecoded
  <2>1. SUFFICES ASSUME TypeInv, CleanInv, NEW f \in 0..(Total - 1), CleanFrom(f), here = Total
                 PROVE  taken = {p \in f..(Total - 1) : (p - f) % Byte(f).size = 0}
    BY DEF CleanStreamDecoded
  <2>2. Total \in Nat
    BY <2>1 DEF Total, TypeInv
  <2>3. here # 0 /\ Aligned(f)
    BY <2>1, <2>2 DEF CleanInv
  <2> QED BY <2>1, <2>3 DEF Aligned
<1>4. IInv => TypeInv
  BY DEF IInv
<1> QED BY <1>1, <1>2, <1>3, <1>4, InductiveInvariant, PTL DEF Spec

-----------------------------------------------------------------------------
(* What Mp3Stream takes from the decoder (FrameFound, DecodeFrame and         *)
(* DecodeNothing there): the caller gives what it has buffered from the start *)
(* of a frame on, and the last frame may be torn.                             *)

\* The frame is there whole, with the header of the next one or as the last.
Whole(f, n) == n = Byte(f).size \/ n >= Byte(f).size + HdrSize

\* It is taken off if it is whole; otherwise all that is given is dropped.
TakesFirst(f, n) ==
    /\ data' = data
    /\ Whole(f, n) => here' = here + Byte(f).size /\ taken' = taken \cup {here}
    /\ ~Whole(f, n) => here' = here + n /\ taken' = taken

LEMMA NoneInTorn ==
    ASSUME TypeInv, NEW f \in 0..(Total - 1), RunFrom(f), here >= f,
           (here - f) % Byte(f).size = 0, NEW n \in Given, ~Whole(f, n)
    PROVE  NextFrame(n) = 0 /\ FrameStarts(n) = {}
<1> DEFINE s == Byte(f).size
<1>1. /\ Total \in Nat /\ s \in Nat \ {0} /\ s > HdrSize /\ Byte(f).class # "none"
      /\ \A p \in 0..(Total - 1) :
            Byte(p) = IF p >= f /\ (p - f) % s = 0 THEN Byte(f) ELSE None
  BY RunCell
<1>2. here \in Nat /\ HdrSize \in Nat \ {0} /\ MaxMatches \in Nat \ {0}
  BY SizesAssumption DEF TypeInv
<1>3. n \in Nat /\ n > 0 /\ n <= Total - here /\ n # s /\ n < s + HdrSize
  BY <1>1, <1>2 DEF Given, Whole
<1>4. PICK x \in Nat : x = here - f
  BY <1>1, <1>2
<1>5. x % s = 0
  BY <1>4, Zenon
<1> HIDE DEF s
<1>6. At(0) = Byte(f) /\ FrameSize(At(0), dec.free) = s
  <2>1. here \in 0..(Total - 1) /\ here + 0 = here
    BY <1>1, <1>2, <1>3
  <2>2. Byte(here) = Byte(f)
    BY <1>1, <2>1 DEF s
  <2>3. At(0) = Byte(f)
    BY <2>1, <2>2, Zenon DEF At
  <2> QED BY <1>1, <2>3 DEF FrameSize, s
<1>7. NextFrame(n) = 0
  BY <1>1, <1>2, <1>3, <1>6 DEF NextFrame
<1>8. ASSUME NEW i \in 1..(n - HdrSize - 1) PROVE ~HdrValid(At(i))
  <2>1. PICK p \in 0..(Total - 1) : p = here + i
    BY <1>1, <1>2, <1>3
  <2>2. PICK y \in Nat : y = p - f
    BY <1>1, <1>2, <2>1
  <2>3. x < y /\ y < x + s
    BY <1>1, <1>2, <1>3, <1>4, <2>1, <2>2
  <2>4. y % s # 0
    BY <1>1, <1>5, <2>3, Multiples
  <2>5. (p - f) % s # 0
    BY <2>2, <2>4, Zenon
  <2>6. At(i) = None
    BY <1>1, <2>1, <2>5 DEF At
  <2> QED BY <2>6 DEF HdrValid, None
<1>9. ~IsFrame(0, n)
  <2>1. SizeAt(0, n) = s /\ At(0).size = s
    BY <1>1, <1>6 DEF SizeAt, FrameSize, s
  <2>2. CASE n < s
    BY <1>1, <1>3, <2>1, <2>2 DEF IsFrame
  <2>3. CASE n > s
    <3> DEFINE free == FreeAt(0, n)
               hop == Hop(0, n, free)
    <3>1. hop[1] = n
      <4>1. FramesFrom(0, n, s)
        <5>1. SUFFICES ASSUME NEW k \in Nat, 0 + k * s + HdrSize <= n
                       PROVE  At(0 + k * s).size = s
          BY DEF FramesFrom
        <5>2. k = 0
          <6>1. SUFFICES ASSUME k # 0 PROVE FALSE
            OBVIOUS
          <6>2. PICK j \in Nat : k = j + 1
            BY <6>1
          <6>3. j * s \in Nat /\ k * s = j * s + s
            BY <1>1, <6>2, Multiple, SMT
          <6> QED BY <1>1, <1>2, <1>3, <5>1, <6>3
        <5>3. 0 + k * s = 0
          BY <1>1, <5>2
        <5> QED BY <2>1, <5>3
      <4>2. 1 \in 0..MaxMatches /\ 0 + 1 * s = s
        BY <1>1, <1>2
      <4>3. ~(0 + 1 * s + HdrSize <= n)
        BY <1>1, <1>2, <1>3, <4>2
      <4> HIDE DEF free
      <4>4. 0 \in Nat /\ 0 + HdrSize <= n /\ s \in Nat \ {0}
        BY <1>1, <1>2, <1>3, <2>3
      <4> QED BY <1>3, <4>1, <4>2, <4>3, <4>4, HopAlong
    <3>2. ~MatchFrame(0, n, free)
      <4> HIDE DEF free
      <4>1. ASSUME NEW m \in 1..MaxMatches PROVE 1 \in 1..m
        BY <1>2
      <4> QED BY <3>1, <4>1 DEF MatchFrame
    <3> QED BY <1>3, <2>1, <3>2 DEF IsFrame
  <2> QED BY <1>1, <1>3, <2>2, <2>3
<1>10. FrameStarts(n) = {}
  <2>1. SUFFICES ASSUME NEW i \in 0..(n - HdrSize - 1), IsFrame(i, n) PROVE FALSE
    BY DEF FrameStarts
  <2>2. i # 0
    BY <1>9, <2>1
  <2>3. i \in 1..(n - HdrSize - 1)
    BY <1>2, <1>3, <2>1, <2>2
  <2> QED BY <1>8, <2>1, <2>3 DEF IsFrame
<1> QED BY <1>7, <1>10

LEMMA RunStep ==
    ASSUME TypeInv, NEW f \in 0..(Total - 1), RunFrom(f), here >= f,
           (here - f) % Byte(f).size = 0, NEW n \in Given,
           Expected(n) \/ Resync(n) \/ NoFrame(n)
    PROVE  TakesFirst(f, n)
<1> DEFINE s == Byte(f).size
<1>1. Total \in Nat /\ s \in Nat \ {0} /\ s > HdrSize
  BY RunCell
<1>2. here \in Nat /\ HdrSize \in Nat \ {0}
  BY SizesAssumption DEF TypeInv
<1>3. n \in Nat /\ n > 0 /\ n <= Total - here
  BY <1>1, <1>2 DEF Given
<1>4. data' = data
  BY DEF Expected, Resync, NoFrame
<1>5. CASE ~Whole(f, n)
  <2>1. NoFrame(n)
    BY <1>5, NoneInTorn DEF Expected, Resync
  <2> QED BY <1>4, <1>5, <2>1 DEF NoFrame, TakesFirst
<1>6. CASE Whole(f, n)
  <2>1. At(0) = Byte(f) /\ SizeAt(0, n) = s /\ IsFrame(0, n)
    <3>1. here + 0 \in f..(Total - 1) /\ here + 0 = here
      BY <1>1, <1>2, <1>3
    <3>2. (here + 0 - f) % s = 0
      <4>1. here + 0 - f = here - f
        BY <1>2, <3>1
      <4> QED BY <4>1, Zenon
    <3>3. 0 + s + HdrSize <= n \/ (0 = 0 /\ n = s)
      BY <1>1, <1>2, <1>3, <1>6 DEF Whole
    <3> QED BY <1>3, <3>1, <3>2, <3>3, FrameInRun
  <2>2. ASSUME NEW d, NEW e, NEW first, NEW end, NEW c,
               Frame(d, 0, s, e, first, end, c)
        PROVE  here' = here + s /\ taken' = taken \cup {here}
    BY <1>1, <1>2, <2>2 DEF Frame
  <2>3. CASE Expected(n)
    <3>1. NextFrame(n) = s
      <4>1. FrameSize(At(0), dec.free) = s /\ NextFrame(n) # 0
        BY <1>1, <2>1, <2>3 DEF FrameSize, Expected
      <4> QED BY <4>1 DEF NextFrame
    <3>2. PICK e \in SideInfo : Frame(dec, 0, s, e, origin, ended, conform)
      BY <2>3, <3>1 DEF Expected
    <3> QED BY <1>4, <1>6, <2>2, <3>2 DEF TakesFirst
  <2>4. 0 \in FrameStarts(n)
    BY <1>1, <1>2, <1>3, <1>6, <2>1 DEF FrameStarts, Whole
  <2>5. CASE Resync(n)
    <3>1. FrameStarts(n) \in SUBSET Nat
      BY <1>2, <1>3 DEF FrameStarts
    <3>2. Least(FrameStarts(n)) = 0
      BY <2>4, <3>1, LeastIn
    <3>3. PICK e \in SideInfo :
             Frame([Cleared EXCEPT !.free = FreeAt(0, n)], 0, s, e, count,
                   count - MaxReservoir, TRUE)
      BY <2>1, <2>5, <3>2 DEF Resync
    <3> QED BY <1>4, <1>6, <2>2, <3>3 DEF TakesFirst
  <2> QED BY <2>3, <2>4, <2>5 DEF NoFrame
<1> QED BY <1>5, <1>6

\* Mp3Stream's account of the decoder is right: given a run of frames from the
\* start of one on, the decoder takes exactly that frame if it and the header
\* behind it are there, or if the data end with it, and otherwise skips all.
THEOREM FindsWhatStreamAssumes ==
    Spec => [][\A f \in 0..(Total - 1) :
                  RunFrom(f) /\ here >= f /\ (here - f) % Byte(f).size = 0 =>
                     \E n \in Given : TakesFirst(f, n)]_vars
<1>1. TypeInv /\ [Next]_vars =>
         [\A f \in 0..(Total - 1) :
             RunFrom(f) /\ here >= f /\ (here - f) % Byte(f).size = 0 =>
                \E n \in Given : TakesFirst(f, n)]_vars
  <2>1. SUFFICES ASSUME TypeInv, Next, NEW f \in 0..(Total - 1), RunFrom(f), here >= f,
                        (here - f) % Byte(f).size = 0
                 PROVE  \E n \in Given : TakesFirst(f, n)
    OBVIOUS
  <2> QED BY <2>1, RunStep DEF Next
<1>2. IInv => TypeInv
  BY DEF IInv
<1> QED BY <1>1, <1>2, InductiveInvariant, PTL DEF Spec

-----------------------------------------------------------------------------
(* A whole reply that is a run of frames, the last one perhaps torn.          *)

RunGiven == Total > 0 /\ RunFrom(0) /\ Byte(0).size + HdrSize <= Window

FirstFrames(m) == {p \in 0..(m - 1) : p % Byte(0).size = 0}

\* All frames but one that is torn or whose successor is, inside its header.
WholeFrames ==
    {p \in FirstFrames(Total) :
        p + Byte(0).size = Total \/ p + Byte(0).size + HdrSize <= Total}

RunInv ==
    RunGiven =>
        \/ /\ here <= Total /\ here % Byte(0).size = 0 /\ taken = FirstFrames(here)
           /\ here \in {0, Total} \/ here + HdrSize <= Total
        \/ here = Total /\ taken = WholeFrames

LEMMA RunInvStep ==
    ASSUME TypeInv, RunInv, RunGiven, [Next]_vars
    PROVE  RunInv'
<1> DEFINE s == Byte(0).size
<1>1. /\ Total \in Nat /\ 0 \in 0..(Total - 1) /\ RunFrom(0)
      /\ s \in Nat \ {0} /\ s > HdrSize
  <2>1. Total \in Nat
    BY DEF Total, TypeInv
  <2>2. 0 \in 0..(Total - 1) /\ RunFrom(0)
    BY <2>1 DEF RunGiven
  <2> QED BY <2>1, <2>2, RunCell
<1>2. /\ here \in Nat /\ HdrSize \in Nat \ {0} /\ Window \in Nat
      /\ s + HdrSize <= Window
  BY SizesAssumption DEF TypeInv, RunGiven
<1>3. CASE UNCHANGED vars
  BY <1>3, Zenon DEF vars, history, RunInv, RunGiven, RunFrom, FirstFrames, WholeFrames, Byte, Total
<1>4. ASSUME NEW n \in Given, Expected(n) \/ Resync(n) \/ NoFrame(n)
      PROVE  RunInv'
  <2>1. n \in Nat /\ n > 0 /\ n <= Total - here /\ (n >= Window \/ n = Total - here)
    BY <1>1, <1>2 DEF Given
  <2>2. /\ here < Total /\ here % s = 0 /\ taken = FirstFrames(here)
        /\ here = 0 \/ here + HdrSize <= Total
    BY <1>1, <1>2, <2>1 DEF RunInv
  <2>3. TakesFirst(0, n)
    <3>1. here >= 0 /\ here - 0 = here
      BY <1>2
    <3>2. (here - 0) % s = 0
      BY <2>2, <3>1, Zenon
    <3> QED BY <1>1, <1>4, <3>1, <3>2, RunStep
  <2>4. /\ Byte(0)' = Byte(0) /\ Total' = Total
        /\ FirstFrames(here)' = FirstFrames(here')
        /\ WholeFrames' = WholeFrames
    BY <2>3 DEF TakesFirst, Byte, Total, FirstFrames, WholeFrames
  <2> HIDE DEF s
  <2>5. s % s = 0
    BY <1>1, SMT
  <2>6. ASSUME NEW p \in Nat, p % s = 0, NEW q \in Nat, q % s = 0, p < q
        PROVE  p + s <= q
    BY <1>1, <2>6, Multiples
  <2>7. CASE Whole(0, n)
    <3>1. PICK e \in Nat : e = here + s
      BY <1>1, <1>2
    <3>2. here' = e /\ taken' = taken \cup {here} /\ e <= Total
      BY <1>1, <1>2, <2>1, <2>3, <2>7, <3>1 DEF TakesFirst, Whole, s
    <3>3. e % s = 0
      <4>1. (here + s) % s = 0
        BY <1>1, <1>2, <2>2, <2>5, Multiples
      <4> QED BY <3>1, <4>1, Zenon
    <3>4. e = Total \/ e + HdrSize <= Total
      BY <1>1, <1>2, <2>1, <2>7, <3>1 DEF Whole, s
    <3>5. taken' = FirstFrames(e)
      <4>1. ASSUME NEW p \in 0..(e - 1), p % s = 0 PROVE p \in 0..(here - 1) \/ p = here
        <5>1. here < p => here + s <= p
          BY <1>2, <2>2, <2>6, <4>1
        <5> QED BY <1>1, <1>2, <3>1, <4>1, <5>1
      <4>2. 0..(here - 1) \subseteq 0..(e - 1) /\ here \in 0..(e - 1)
        BY <1>1, <1>2, <3>1
      <4>3. FirstFrames(e) = FirstFrames(here) \cup {here}
        BY <2>2, <4>1, <4>2, Zenon DEF FirstFrames, s
      <4> QED BY <2>2, <3>2, <4>3
    <3> QED BY <2>4, <3>2, <3>3, <3>4, <3>5, Zenon DEF RunInv, s
  <2>8. CASE ~Whole(0, n)
    <3>1. here' = Total /\ taken' = taken /\ n = Total - here
          /\ n # s /\ n < s + HdrSize
      BY <1>1, <1>2, <2>1, <2>3, <2>8 DEF TakesFirst, Whole, s
    <3>2. ASSUME NEW p \in 0..(here - 1), p % s = 0
          PROVE  p \in 0..(Total - 1) /\ p + s + HdrSize <= Total
      <4>1. p + s <= here
        BY <1>2, <2>2, <2>6, <3>2
      <4> QED BY <1>1, <1>2, <2>2, <3>2, <4>1
    <3>3. ASSUME NEW p \in 0..(Total - 1), p % s = 0,
                 p + s = Total \/ p + s + HdrSize <= Total
          PROVE  p \in 0..(here - 1)
      <4>1. CASE p = here
        BY <1>1, <1>2, <3>1, <3>3, <4>1
      <4>2. CASE here < p
        <5>1. here + s <= p
          BY <1>2, <2>2, <2>6, <3>3, <4>2
        <5> QED BY <1>1, <1>2, <3>1, <3>3, <5>1
      <4> QED BY <1>1, <1>2, <3>3, <4>1, <4>2
    <3>4. FirstFrames(here) = WholeFrames
      BY <3>2, <3>3 DEF FirstFrames, WholeFrames, s
    <3> QED BY <2>2, <2>4, <3>1, <3>4, Zenon DEF RunInv
  <2> QED BY <2>7, <2>8
<1> QED BY <1>3, <1>4 DEF Next

\* Of a reply that is a run of frames all are decoded but one that is torn or
\* whose successor is torn inside its header, wherever the caller's windows end:
\* as many as EveryFrameDecoded of Mp3Stream counts.
THEOREM TornRunDecoded ==
    Spec => [](RunGiven /\ here = Total => taken = WholeFrames)
<1>1. Init => RunInv
  <2>1. SUFFICES ASSUME Init, RunGiven PROVE RunInv
    BY DEF RunInv
  <2>2. Total \in Nat /\ 0 \in 0..(Total - 1)
    <3>1. data \in Seq(Cells)
      BY <2>1, StreamsAssumption DEF Init
    <3> QED BY <2>1, <3>1 DEF Total, RunGiven
  <2>3. 0 % Byte(0).size = 0
    <3>1. TypeInv
      BY <2>1, InitOk DEF IInv
    <3>2. Byte(0).size \in Nat \ {0}
      BY <2>1, <2>2, <3>1, RunCell DEF RunGiven
    <3> QED BY <3>2, SMT
  <2>4. FirstFrames(0) = {}
    BY DEF FirstFrames
  <2> QED BY <2>1, <2>2, <2>3, <2>4 DEF Init, RunInv
<1>2. TypeInv /\ RunInv /\ [Next]_vars => RunInv'
  <2>1. SUFFICES ASSUME TypeInv, RunInv, [Next]_vars PROVE RunInv'
    OBVIOUS
  <2>2. data' = data
    BY <2>1 DEF Next, vars, Expected, Resync, NoFrame
  <2>3. RunGiven' = RunGiven
    BY <2>2 DEF RunGiven, RunFrom, Byte, Total
  <2>4. CASE RunGiven
    BY <2>1, <2>4, RunInvStep
  <2> QED BY <2>3, <2>4 DEF RunInv
<1>3. TypeInv /\ RunInv => (RunGiven /\ here = Total => taken = WholeFrames)
  <2>1. SUFFICES ASSUME TypeInv, RunInv, RunGiven, here = Total,
                        here % Byte(0).size = 0, taken = FirstFrames(here)
                 PROVE  taken = WholeFrames
    BY DEF RunInv
  <2> DEFINE s == Byte(0).size
  <2>2. Total \in Nat /\ 0 \in 0..(Total - 1) /\ s \in Nat \ {0} /\ s > HdrSize
    <3>1. Total \in Nat
      BY <2>1 DEF Total, TypeInv
    <3>2. 0 \in 0..(Total - 1) /\ RunFrom(0)
      BY <2>1, <3>1 DEF RunGiven
    <3> QED BY <2>1, <3>1, <3>2, RunCell
  <2> HIDE DEF s
  <2>3. Total % s = 0 /\ s % s = 0 /\ HdrSize \in Nat
    BY <2>1, <2>2, SizesAssumption, SMT DEF s
  <2>4. ASSUME NEW p \in 0..(Total - 1), p % s = 0
        PROVE  p + s = Total \/ p + s + HdrSize <= Total
    <3>0. PICK t \in Nat : t = Total /\ p \in Nat /\ p < t
      BY <2>2
    <3>1. p + s <= Total
      <4>1. t % s = 0
        BY <2>3, <3>0, Zenon
      <4>2. p + s <= t
        BY <2>2, <2>4, <3>0, <4>1, Multiples
      <4> QED BY <3>0, <4>2
    <3>2. PICK q \in Nat : q = p + s
      BY <2>2
    <3>3. (p + s) % s = 0
      <4>1. p \in Nat /\ s \in Nat \ {0} /\ p % s = 0 /\ s % s = 0
        BY <2>2, <2>3, <2>4, <3>0
      <4> QED BY <4>1, Multiples
    <3>4. q % s = 0
      BY <3>2, <3>3, Zenon
    <3>5. q < Total => q + s <= Total
      BY <2>2, <2>3, <3>4, Multiples
    <3> QED BY <2>2, <2>3, <3>1, <3>2, <3>5
  <2> QED BY <2>1, <2>4 DEF FirstFrames, WholeFrames, s
<1>4. IInv => TypeInv
  BY DEF IInv
<1> QED BY <1>1, <1>2, <1>3, <1>4, InductiveInvariant, PTL DEF Spec
=============================================================================
