---------------------------- MODULE MCMp3Decoder ----------------------------
(* Mp3Decoder for TLC.  Bytes have two bits, a header takes one byte and the *)
(* reservoir holds two.  The streams are all short ones, and longer runs of  *)
(* frames of two and three bytes of which any one byte may be damaged.       *)
EXTENDS Mp3Decoder

CONSTANTS MaxShort, MaxLong

Rate1(s) == [class |-> "rate1", layer |-> 3, size |-> s]

MCHeaders ==
    {Rate1(2), Rate1(3),
     [class |-> "layer2", layer |-> 2, size |-> 2],
     [class |-> "free", layer |-> 3, size |-> 0]}

Run(s, n) ==
    [p \in 1..n |-> IF (p - 1) % s = 0 THEN Rate1(s) ELSE None]

MCStreams ==
    UNION {[1..n -> Cells] : n \in 1..MaxShort}
    \cup {[Run(sn[1], sn[2]) EXCEPT ![p] = c] :
             sn \in (2..3) \X ((MaxShort + 1)..MaxLong),
             p \in 1..(MaxShort + 1), c \in Cells}
=============================================================================
