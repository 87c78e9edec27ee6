------------------------------ MODULE Mp3Decoder ------------------------------
(***************************************************************************)
(* mp3dec_decode_frame of minimp3.h, without the arithmetic of the sound:  *)
(* how a frame is found in the bytes given, and how the bits that a frame  *)
(* left in the frames before it (the bit reservoir) reach the decoder.     *)
(* The build is MINIMP3_ONLY_MP3.                                          *)
(*                                                                         *)
(* A stream is a header or none at each byte.  Of a header only what       *)
(* hdr_compare looks at (its class), its layer and its size with padding   *)
(* are kept; a free-format header has size 0.  Of the side information     *)
(* only main_data_begin, the sum of the part_23_lengths and whether it is  *)
(* sound are kept.  Bytes of main data are numbered in order of arrival,   *)
(* so that the content of a buffer tells where it came from.               *)
(***************************************************************************)
EXTENDS Integers, Sequences

CONSTANTS
    Headers,        \* the headers that occur: [class, layer, size]
    HdrSize,        \* HDR_SIZE (4)
    SideSize,       \* bytes of checksum and side information
    ByteBits,       \* bits of a byte (8)
    MaxReservoir,   \* MAX_BITRESERVOIR_BYTES (511)
    MaxMatches,     \* MAX_FRAME_SYNC_MATCHES (10)
    MaxFree,        \* MAX_FREE_FORMAT_FRAME_SIZE (2304)
    MaxBegin,       \* largest main_data_begin: 9 bits (511)
    MaxBits,        \* largest sum of part_23_lengths: four of 12 bits (16380)
    Window,         \* bytes the caller gives at least, unless at the end
    Streams         \* the streams that occur

None  == [class |-> "none", layer |-> 3, size |-> 0]
Cells == Headers \cup {None}

ASSUME HeadersAssumption ==
    /\ Headers \subseteq [class : STRING, layer : 1..3, size : Nat]
    /\ \A h \in Headers : h.class # "none"
    /\ \A h \in Headers : h.size = 0 \/ h.size > HdrSize   \* no frame below 24 bytes
ASSUME StreamsAssumption ==
    Streams \subseteq Seq(Cells)
ASSUME SizesAssumption ==
    /\ HdrSize \in Nat \ {0} /\ SideSize \in Nat /\ ByteBits \in Nat \ {0}
    /\ MaxReservoir \in Nat /\ MaxMatches \in Nat \ {0} /\ MaxFree \in Nat
    /\ MaxBegin \in Nat /\ MaxBits \in Nat
    /\ Window \in Nat \ {0}

VARIABLES
    data,       \* the stream
    here,       \* how much of it the caller has taken off
    dec,        \* mp3dec_t
    taken,      \* history: offsets of the frames taken
    count,      \* history: bytes of main data given to dec
    origin,     \* history: count when dec was cleared last
    ended,      \* history: where the main data of the last frame ended, as
                \* far back as possible when that is not known
    conform,    \* history: since dec was cleared all frames were such as an
                \* encoder writes
    lost        \* history: one of them gave no samples although all its main
                \* data had been given

history == <<taken, count, origin, ended, conform, lost>>
vars == <<data, here, dec, history>>

MinOf(a, b) == IF a > b THEN b ELSE a
MaxOf(a, b) == IF a < b THEN b ELSE a
Least(S) == CHOOSE x \in S : \A y \in S : x <= y

\* Of reserv_buf only what is in use is kept.
\* memset(dec, 0): only the first byte of dec->header says that there is none.
Cleared == [header |-> None, free |-> 0, reserv |-> 0, buf |-> <<>>]

\* The stream's bytes are counted from 0.
Total   == Len(data)
Byte(p) == data[p + 1]

Init ==
    /\ data \in Streams
    /\ here = 0 /\ dec = Cleared
    /\ taken = {} /\ count = 0 /\ origin = 0 /\ ended = -MaxReservoir
    /\ conform = TRUE /\ lost = FALSE

-----------------------------------------------------------------------------
(* Finding a frame.  Offsets are relative to the n bytes given.             *)

At(i) == Byte(here + i)

HdrValid(h) == h.class # "none"
HdrCompare(h1, h2) == HdrValid(h2) /\ h1.class = h2.class

\* hdr_frame_bytes + hdr_padding
FrameSize(h, free) == IF h.size # 0 THEN h.size ELSE free

\* Where the search for the frames behind the one at i gets to in k steps,
\* n once it is too near the end of the data.
Hop(i, n, free) ==
    LET hop[k \in 0..MaxMatches] ==
            IF k = 0 THEN i
            ELSE IF hop[k - 1] = n THEN n
            ELSE LET next == hop[k - 1] + FrameSize(At(hop[k - 1]), free)
                 IN  IF next + HdrSize > n THEN n ELSE next
    IN  hop

\* mp3d_match_frame: as many frames of the same class as are looked for, or at
\* least one and then the end of the data.
MatchFrame(i, n, free) ==
    LET hop == Hop(i, n, free) IN
    \E m \in 1..MaxMatches :
        /\ \A k \in 1..m : hop[k] # n /\ HdrCompare(At(i), At(hop[k]))
        /\ m = MaxMatches \/ hop[m + 1] = n

\* The distances that could be the size of a free-format frame at i.
FreeSizes(i, n) ==
    {k \in HdrSize..(MaxFree - 1) :
        /\ i + 2 * k < n - HdrSize
        /\ HdrCompare(At(i), At(i + k))
        /\ i + 2 * k + HdrSize <= n /\ HdrCompare(At(i), At(i + 2 * k))}

\* free_format_bytes when a frame is looked for at i
FreeAt(i, n) ==
    IF At(i).size # 0 \/ FreeSizes(i, n) = {} THEN 0 ELSE Least(FreeSizes(i, n))

SizeAt(i, n) == FrameSize(At(i), FreeAt(i, n))

\* Mutant: a frame that is all there is, is not taken.
IsFrameWithSuccessor(i, n) ==
    /\ HdrValid(At(i))
    /\ SizeAt(i, n) # 0 /\ i + SizeAt(i, n) <= n
    /\ MatchFrame(i, n, FreeAt(i, n))

IsFrame(i, n) ==
    /\ HdrValid(At(i))
    /\ \/ /\ SizeAt(i, n) # 0 /\ i + SizeAt(i, n) <= n
          /\ MatchFrame(i, n, FreeAt(i, n))
       \/ i = 0 /\ SizeAt(i, n) = n

\* mp3d_find_frame
FrameStarts(n) == {i \in 0..(n - HdrSize - 1) : IsFrame(i, n)}

\* The frame that is expected at the start; 0 if it is not there whole, with
\* the header of its successor or as the last one.
NextFrame(n) ==
    IF n <= HdrSize \/ ~HdrValid(dec.header) \/ ~HdrCompare(dec.header, At(0))
    THEN 0
    ELSE LET size == FrameSize(At(0), dec.free) IN
         IF size = n \/ (size + HdrSize <= n /\ HdrCompare(At(0), At(size)))
         THEN size ELSE 0

-----------------------------------------------------------------------------
(* The bit reservoir *)

\* L3_restore_reservoir: what was kept, as far back as the frame wants it, and
\* the len bytes of the frame itself.
RestoreReservoir(d, begin, len) ==
    LET have == MinOf(d.reserv, begin)
    IN  [j \in 0..(have + len - 1) |->
            IF j < have THEN d.buf[MaxOf(0, d.reserv - begin) + j]
                        ELSE count + j - have]

\* Whole bytes that n bits reach into.
Bytes(n) == (n + ByteBits - 1) \div ByteBits

\* How many of len bytes are kept when some bits of them were read.
Kept(len, bits) == MinOf(len - Bytes(bits), MaxReservoir)

\* Mutant: what does not fit is cut off at the end.
SaveReservoirFront(d, main, len, bits) ==
    [header |-> d.header, free |-> d.free, reserv |-> Kept(len, bits),
     buf |-> [j \in 0..(Kept(len, bits) - 1) |-> main[Bytes(bits) + j]]]

\* L3_save_reservoir: of what the frame has not read, the end.
SaveReservoir(d, main, len, bits) ==
    [header |-> d.header, free |-> d.free, reserv |-> Kept(len, bits),
     buf |-> [j \in 0..(Kept(len, bits) - 1) |-> main[len - Kept(len, bits) + j]]]

\* What L3_read_side_info reads, and whether it is accepted for a frame that
\* has len bytes of main data itself.
SideInfo == [sound : BOOLEAN, begin : 0..MaxBegin, bits : 0..MaxBits]

\* Mutant: the length of the main data is not compared with what there is.
SideInfoOkUnchecked(s, len) == s.sound /\ len >= 0

SideInfoOk(s, len) ==
    /\ s.sound /\ len >= 0
    /\ s.bits <= (len + s.begin) * ByteBits

\* Does an encoder write this?  The main data begin no further back than the
\* reservoir reaches, and behind those of the frame before.
Encoded(s, end) == s.begin <= MaxReservoir /\ count - s.begin >= end

Reject(d) ==       \* mp3dec_init, and no samples
    /\ dec' = [d EXCEPT !.header = None]
    /\ conform' = FALSE
    /\ UNCHANGED <<count, ended, lost>>

\* Mutant: nothing is kept of a frame that cannot be decoded.
DecodeL3Drops(d, s, len, first, end, c) ==
    LET success == d.reserv >= s.begin
        main    == RestoreReservoir(d, s.begin, len)
    IN  /\ dec' = IF success
                  THEN SaveReservoir(d, main, MinOf(d.reserv, s.begin) + len, s.bits)
                  ELSE [d EXCEPT !.reserv = 0]
        /\ count' = count + len
        /\ ended' = count - s.begin + Bytes(s.bits)
        /\ conform' = (c /\ Encoded(s, end))
        /\ lost' = (lost \/ (conform' /\ ~success /\ count - s.begin >= first))

\* The main data of a frame: samples only if all of them are there.
DecodeL3(d, s, len, first, end, c) ==
    LET success == d.reserv >= s.begin
        main    == RestoreReservoir(d, s.begin, len)
    IN  /\ dec' = SaveReservoir(d, main, MinOf(d.reserv, s.begin) + len,
                                IF success THEN s.bits ELSE 0)
        /\ count' = count + len
        /\ ended' = count - s.begin + Bytes(s.bits)
        /\ conform' = (c /\ Encoded(s, end))
        /\ lost' = (lost \/ (conform' /\ ~success /\ count - s.begin >= first))

\* The frame of the given size at i; first, end and c are origin, ended and
\* conform as they are before it.
Frame(d, i, size, s, first, end, c) ==
    LET h   == At(i)
        d1  == [d EXCEPT !.header = h]
        len == size - HdrSize - SideSize
    IN  /\ here' = here + i + size
        /\ taken' = taken \cup {here + i}
        /\ origin' = first
        /\ \/ /\ h.layer # 3       \* MINIMP3_ONLY_MP3
              /\ dec' = d1 /\ ended' = end /\ conform' = c
              /\ UNCHANGED <<count, lost>>
           \/ h.layer = 3 /\ ~SideInfoOk(s, len) /\ Reject(d1)
           \/ h.layer = 3 /\ SideInfoOk(s, len) /\ DecodeL3(d1, s, len, first, end, c)

Expected(n) ==     \* the frame follows the one before
    /\ NextFrame(n) # 0
    /\ \E s \in SideInfo : Frame(dec, 0, NextFrame(n), s, origin, ended, conform)
    /\ UNCHANGED data

Resync(n) ==       \* memset, then the first frame found
    /\ NextFrame(n) = 0 /\ FrameStarts(n) # {}
    /\ LET i  == Least(FrameStarts(n))
           d  == [Cleared EXCEPT !.free = FreeAt(i, n)]
           sz == SizeAt(i, n)
       IN  \E s \in SideInfo : Frame(d, i, sz, s, count, count - MaxReservoir, TRUE)
    /\ UNCHANGED data

NoFrame(n) ==      \* memset, and all the data are to be skipped
    /\ NextFrame(n) = 0 /\ FrameStarts(n) = {}
    /\ dec' = Cleared /\ here' = here + n
    /\ origin' = count /\ ended' = count - MaxReservoir /\ conform' = TRUE
    /\ UNCHANGED <<data, taken, count, lost>>

\* mp3_bytes as main.c gives them: at least Window, or all that is left.
Given == {n \in 1..(Total - here) : n >= Window \/ n = Total - here}

Next == \E n \in Given : Expected(n) \/ Resync(n) \/ NoFrame(n)

Spec == Init /\ [][Next]_vars

-----------------------------------------------------------------------------
(* Properties *)

\* h->reserv stays within reserv_buf.  What a frame leaves over is a difference
\* of two lengths of which one comes from the frame; negative, it would be the
\* length of a memcpy at the next frame.
ReservoirInRange == dec.reserv \in 0..MaxReservoir

\* Whatever was cut, rejected or searched for before, the bytes in front of a
\* frame's own are those that came right before them: nothing stale of a frame
\* before a gap is decoded.
FramesReadOwnData ==
    HdrValid(dec.header) =>
        /\ dec.reserv <= count - origin
        /\ \A b \in 0..dec.reserv :
              \A j \in 0..b : RestoreReservoir(dec, b, 1)[j] = count - b + j

\* After the decoder was cleared, a frame is silent only if its main data begin
\* before the gap.  A frame that cannot be decoded does not cost those behind it.
NoFrameLost == ~lost

\* A stream that is nothing but frames of one size, behind at most so many other
\* bytes that the first frame is found in the first Window bytes.
CleanFrom(f) ==
    /\ HdrValid(Byte(f)) /\ Byte(f).size > 0
    /\ f + Byte(f).size + HdrSize <= Window
    /\ (Total - f) % Byte(f).size = 0 /\ (Total - f > Byte(f).size \/ f = 0)
    /\ \A p \in 0..(Total - 1) :
          Byte(p) = IF p >= f /\ (p - f) % Byte(f).size = 0 THEN Byte(f) ELSE None

\* Of such a stream every frame is taken, wherever the caller's windows end.
CleanStreamDecoded ==
    \A f \in 0..(Total - 1) :
        CleanFrom(f) /\ here = Total =>
            taken = {p \in f..(Total - 1) : (p - f) % Byte(f).size = 0}
=============================================================================
