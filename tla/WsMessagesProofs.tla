-------------------------- MODULE WsMessagesProofs --------------------------
(* Both directions of a connection: the reply buffer for every capacity and *)
(* every length of message, and the frames sent for any number of senders,  *)
(* any size of buffer and any messages.  Last, the memory of the handle, for *)
(* every configuration and every allocation that may fail.                  *)
EXTENDS WsMessages, WsHandle, TLAPS

-----------------------------------------------------------------------------
(* What is received *)

\* Between events the data held belong to the message being received, unless
\* none of it has arrived yet.
HeldMatchesOffset == payload_offset # 0 => held = payload_offset

IInv == TypeOK /\ HoldsOneMessage /\ HeldMatchesOffset

LEMMA InitIInv == Init => IInv
<1> SUFFICES ASSUME Init PROVE IInv
  OBVIOUS
<1>1. TypeOK
  <2>1. response_overflow \in BOOLEAN /\ announced \in BOOLEAN
    BY DEF Init
  <2>2. 0 \in 0..(Cap - 1) /\ 0 \in 0..MaxLen /\ 0 \in 0..0
    BY CapAssumption, MaxLenAssumption
  <2>. QED
    BY <2>1, <2>2 DEF Init, TypeOK
<1>2. ~(0 > Cap - 1)
  BY CapAssumption
<1>3. HoldsOneMessage
  BY <1>2 DEF Init, HoldsOneMessage
<1>. QED
  BY <1>1, <1>3 DEF Init, IInv, HeldMatchesOffset

LEMMA NewMessagePreserves ==
    ASSUME IInv, NEW len \in 0..MaxLen, NewMessage(len)
    PROVE  IInv'
  BY CapAssumption, MaxLenAssumption
     DEF NewMessage, IInv, TypeOK, HoldsOneMessage, HeldMatchesOffset

LEMMA AppendPreserves ==
    ASSUME IInv, NEW n \in 1..MaxLen, AppendData(n)
    PROVE  IInv'
<1> USE CapAssumption, MaxLenAssumption DEF IInv, TypeOK, Start, Room, HeldMatchesOffset
<1>1. /\ n \in 1..(payload_len - payload_offset)
      /\ payload_offset' = payload_offset + n /\ payload_len' = payload_len
      /\ held' = payload_offset + n
      /\ announced' \in BOOLEAN
  BY DEF AppendData, Last
<1>2. CASE payload_offset = 0
  <2>1. /\ response_len' = IF n > Cap - 1 THEN Cap - 1 ELSE n
        /\ response_overflow' = (n > Cap - 1)
        /\ Cap > 1 => nul' = response_len'
        /\ Cap = 1 => nul' = nul
    BY <1>2 DEF AppendData, Store
  <2>2. nul' \in 0..(Cap - 1)
    BY <1>1, <1>2, <2>1
  <2>3. TypeOK'
    BY <1>1, <1>2, <2>1, <2>2
  <2>4. HoldsOneMessage'
    <3>1. held' = n
      BY <1>1, <1>2
    <3>2. response_overflow' <=> held' > Cap - 1
      BY <2>1, <3>1
    <3>. QED
      BY <2>1, <3>1, <3>2 DEF HoldsOneMessage
  <2>. QED
    BY <1>1, <1>2, <2>3, <2>4
<1>3. CASE payload_offset # 0
  <2>1. /\ held = payload_offset /\ held > 0
        /\ response_len = IF held > Cap - 1 THEN Cap - 1 ELSE held
        /\ response_overflow <=> held > Cap - 1
        /\ Cap > 1 => nul = response_len
    BY <1>3 DEF HoldsOneMessage
  <2>2. /\ response_len' = IF n > Cap - response_len - 1 THEN Cap - 1 ELSE response_len + n
        /\ response_overflow' = (n > Cap - response_len - 1 \/ response_overflow)
        /\ nul' = IF Cap - response_len - 1 > 0 THEN response_len' ELSE nul
    BY <1>3 DEF AppendData, Store
  <2>3. /\ response_len' = IF held' > Cap - 1 THEN Cap - 1 ELSE held'
        /\ n > Cap - response_len - 1 \/ response_overflow <=> held' > Cap - 1
    <3>1. CASE held > Cap - 1
      BY <1>1, <2>1, <2>2, <3>1
    <3>2. CASE ~(held > Cap - 1)
      BY <1>1, <2>1, <2>2, <3>2
    <3>. QED
      BY <3>1, <3>2
  <2>4. response_overflow' <=> held' > Cap - 1
    BY <2>2, <2>3
  <2>5. Cap > 1 => nul' = response_len'
    BY <1>1, <2>1, <2>2, <2>3
  <2>6. nul' \in 0..(Cap - 1)
    BY <1>1, <2>1, <2>2, <2>3
  <2>7. TypeOK'
    BY <1>1, <2>2, <2>3, <2>6
  <2>8. HoldsOneMessage'
    BY <1>1, <2>3, <2>4, <2>5 DEF HoldsOneMessage
  <2>. QED
    BY <1>1, <2>1, <2>7, <2>8
<1>. QED
  BY <1>2, <1>3

LEMMA Inductive == IInv /\ [Next]_vars => IInv'
<1> SUFFICES ASSUME IInv, [Next]_vars PROVE IInv'
  OBVIOUS
<1>1. CASE Next
  BY <1>1, NewMessagePreserves, AppendPreserves DEF Next
<1>2. CASE UNCHANGED vars
  BY <1>2 DEF vars, IInv, TypeOK, HoldsOneMessage, HeldMatchesOffset
<1>. QED
  BY <1>1, <1>2

\* To the reply buffer every step of the connection is one of its own or none.
LEMMA BothStep ==
    ASSUME IInv, [BothNext]_both
    PROVE  [Next]_vars
<1>1. ASSUME NEW n \in 1..BufferSize, AppendData(n) PROVE n \in 1..MaxLen
  BY <1>1, MaxLenAssumption, SendAssumption DEF AppendData, IInv, TypeOK
<1>2. CASE Receive
  BY <1>2 DEF Receive, Next
<1>3. CASE Piece
  BY <1>1, <1>3 DEF Piece, Next
<1>4. CASE ReadFailed \/ Received
  BY <1>4 DEF ReadFailed, Received, vars
<1>5. CASE UNCHANGED vars
  BY <1>5
<1>. QED
  BY <1>2, <1>3, <1>4, <1>5 DEF BothNext, both

\* IInv holds throughout.
THEOREM InductiveInvariant == BothSpec => []IInv
<1>1. BothInit => IInv
  BY InitIInv DEF BothInit
<1>2. IInv /\ [BothNext]_both => IInv'
  BY BothStep, Inductive
<1>. QED
  BY <1>1, <1>2, PTL DEF BothSpec

\* Reply data and their NUL stay inside response[0 .. response_cap - 1].
THEOREM InBounds == BothSpec => []TypeOK
  BY InductiveInvariant, PTL DEF IInv

\* The buffer holds the data of one message, cut at the capacity, and reports
\* the overflow exactly when it was cut.
THEOREM OneMessage == BothSpec => []HoldsOneMessage
  BY InductiveInvariant, PTL DEF IInv

\* The first reply announced is a complete message.
THEOREM Announced == BothSpec => AnnouncedWhenComplete
<1>1. ASSUME IInv, [Next]_vars PROVE [~announced /\ announced' => held' = payload_len']_vars
  <2>1. ASSUME NEW n \in 1..MaxLen, AppendData(n), ~announced, announced'
        PROVE  held' = payload_len'
    BY <1>1, <2>1 DEF AppendData, Last, IInv, TypeOK, HeldMatchesOffset
  <2>2. ASSUME NEW len \in 0..MaxLen, NewMessage(len) PROVE announced' = announced
    BY <2>2 DEF NewMessage
  <2>. QED
    BY <1>1, <2>1, <2>2 DEF Next
<1>2. IInv /\ [BothNext]_both => [~announced /\ announced' => held' = payload_len']_vars
  BY <1>1, BothStep
<1>. QED
  BY <1>2, InductiveInvariant, PTL DEF BothSpec, AnnouncedWhenComplete

-----------------------------------------------------------------------------
(* What is sent *)

Frame == [first : BOOLEAN, fin : BOOLEAN, from : Nat, to : Nat]

Call == [at : {"idle", "lock", "write"}, len : Nat, widx : Nat, opcode : BOOLEAN]

SendTypeOK ==
    /\ state \in {"connected", "closing", "down"}
    /\ holder \in Senders \cup {"none", "task"}
    /\ call \in [Senders -> Call]
    /\ wire \in Seq(Frame)
    /\ torn \in BOOLEAN

\* A call begins with its opcode, and who writes holds the lock.
CallsInOrder ==
    \A s \in Senders :
        /\ call[s].at = "write" <=> holder = s
        /\ call[s].at = "lock" => call[s].opcode /\ call[s].widx = 0

LastSent == wire[Len(wire)]

\* A call that has sent a frame finds it at the end of the wire, with FIN if it
\* was the last; one that has not finds a finished message there.
WireInStep ==
    ~torn =>
        /\ state = "connected" /\ holder \notin Senders => Finished
        /\ \A s \in Senders : call[s].at = "write" =>
              /\ call[s].widx <= call[s].len
              /\ call[s].opcode => call[s].widx = 0 /\ (state = "connected" => Finished)
              /\ ~call[s].opcode =>
                    /\ wire # <<>> /\ LastSent.to = call[s].widx
                    /\ LastSent.fin <=> call[s].widx = call[s].len

SInv == SendTypeOK /\ CallsInOrder /\ WireInStep /\ FramesFormMessages

LEMMA InitSInv == BothInit => SInv
<1> SUFFICES ASSUME SendInit PROVE SInv
  BY DEF BothInit
<1>1. SendTypeOK
  <2>1. Idle \in Call BY DEF Idle, Call
  <2>2. call \in [Senders -> Call] BY <2>1 DEF SendInit
  <2>3. wire \in Seq(Frame) BY DEF SendInit
  <2>4. torn \in BOOLEAN BY DEF SendInit
  <2>. QED BY <2>2, <2>3, <2>4 DEF SendInit, SendTypeOK
<1>2. CallsInOrder
  BY SendAssumption DEF SendInit, CallsInOrder, Idle
<1>3. WireInStep /\ FramesFormMessages
  BY DEF SendInit, WireInStep, FramesFormMessages, Idle
<1>. QED
  BY <1>1, <1>2, <1>3 DEF SInv

\* The frame that a write puts on the wire.
Sent(c, n) == [first |-> c.opcode, fin |-> Fits(c), from |-> c.widx, to |-> c.widx + n]

LEMMA WritePreserves ==
    ASSUME SInv, NEW s \in Senders, NEW n \in 0..BufferSize, Write(s, n)
    PROVE  SInv'
<1> DEFINE c == call[s]
           frame == Sent(c, n)
<1>1. /\ c.at = "write" /\ More(c) /\ n <= NeedWrite(c) /\ state' = state
      /\ Put(frame) /\ torn' = (torn \/ n < NeedWrite(c))
      /\ call' = [call EXCEPT ![s] = AfterFrame(c, n)] /\ holder' = holder
      /\ holder = s
  BY DEF Write, Sent, SInv, CallsInOrder
<1>2. /\ c \in Call /\ c.len \in Nat /\ c.widx \in Nat /\ c.opcode \in BOOLEAN
      /\ n \in Nat /\ BufferSize \in Nat
  BY SendAssumption DEF SInv, SendTypeOK, Call
<1>3. frame \in Frame
  <2>1. Fits(c) \in BOOLEAN BY DEF Fits
  <2>. QED BY <1>2, <2>1 DEF Sent, Frame
<1>4. /\ call'[s] = [at |-> "write", len |-> c.len, widx |-> c.widx + n, opcode |-> FALSE]
      /\ \A t \in Senders \ {s} : call'[t] = call[t] /\ call[t].at # "write"
  BY <1>1, <1>2 DEF AfterFrame, SInv, SendTypeOK, CallsInOrder, Call
<1>5. wire' \in Seq(Frame) /\ wire' # <<>> /\ wire'[Len(wire')] = frame
  <2>1. wire \in Seq(Frame) BY DEF SInv, SendTypeOK
  <2>2. CASE wire' = <<frame>> BY <1>3, <2>2
  <2>3. CASE wire' = Append(wire, frame) BY <1>3, <2>1, <2>3
  <2>. QED BY <1>1, <2>2, <2>3 DEF Put
<1>6. SendTypeOK'
  <2>1. torn' \in BOOLEAN BY <1>1 DEF SInv, SendTypeOK
  <2>2. AfterFrame(c, n) \in Call
    <3>1. AfterFrame(c, n) = [at |-> "write", len |-> c.len, widx |-> c.widx + n,
                              opcode |-> FALSE]
      BY <1>1, <1>2 DEF AfterFrame, Call
    <3>2. c.widx + n \in Nat BY <1>2
    <3>. QED BY <1>2, <3>1, <3>2 DEF Call
  <2>3. call' \in [Senders -> Call]
    BY <1>1, <2>2 DEF SInv, SendTypeOK
  <2>. QED BY <1>1, <1>5, <2>1, <2>3 DEF SInv, SendTypeOK
<1>7. CallsInOrder'
  BY <1>1, <1>4 DEF SInv, CallsInOrder
<1>8. ASSUME ~torn' PROVE ~torn /\ n = NeedWrite(c) /\ c.widx <= c.len
  <2>1. ~torn /\ ~(n < NeedWrite(c)) BY <1>1, <1>8
  <2>2. NeedWrite(c) \in Int BY <1>2 DEF NeedWrite
  <2>3. n = NeedWrite(c) BY <1>1, <1>2, <2>1, <2>2
  <2>4. c.widx <= c.len BY <1>1, <2>1 DEF SInv, WireInStep
  <2>. QED BY <2>1, <2>3, <2>4
<1>9. WireInStep'
  <2>1. ASSUME ~torn' PROVE c.widx + n <= c.len /\ (Fits(c) <=> c.widx + n = c.len)
    BY <1>2, <1>8, <2>1 DEF Fits, NeedWrite
  <2>. QED
    BY <1>1, <1>4, <1>5, <2>1 DEF WireInStep, LastSent, Sent
<1>10. FramesFormMessages'
  <2> SUFFICES ASSUME state = "connected", ~torn', NEW i \in 1..Len(wire')
               PROVE  /\ wire'[i].first <=> i = 1
                      /\ wire'[i].from = IF i = 1 THEN 0 ELSE wire'[i - 1].to
                      /\ wire'[i].to - wire'[i].from <= BufferSize
    BY <1>1 DEF FramesFormMessages
  <2>1. CASE c.opcode
    <3>1. Finished /\ c.widx = 0 BY <1>1, <1>8, <2>1 DEF SInv, WireInStep
    <3>2. wire' = <<frame>> BY <1>1, <3>1 DEF Put
    <3>. QED BY <1>2, <2>1, <3>1, <3>2 DEF Sent
  <2>2. CASE ~c.opcode
    <3>1. /\ wire # <<>> /\ LastSent.to = c.widx
          /\ LastSent.fin <=> c.widx = c.len
      BY <1>1, <1>8, <2>2 DEF SInv, WireInStep
    <3>2. ~Finished BY <1>1, <1>2, <1>8, <2>2, <3>1 DEF More, Finished, LastSent
    <3>3. wire' = Append(wire, frame) BY <1>1, <3>2 DEF Put
    <3>4. wire \in Seq(Frame) BY DEF SInv, SendTypeOK
    <3>5. CASE i = Len(wire')
      <4>1. wire'[i] = frame /\ i # 1 /\ wire'[i - 1] = LastSent
        BY <3>1, <3>3, <3>4, <3>5 DEF LastSent
      <4>. QED BY <1>2, <2>2, <3>1, <4>1 DEF Sent
    <3>6. CASE i # Len(wire')
      <4>1. /\ i \in 1..Len(wire) /\ wire'[i] = wire[i]
            /\ i # 1 => wire'[i - 1] = wire[i - 1]
        BY <3>3, <3>4, <3>6
      <4>. QED BY <1>8, <4>1 DEF SInv, FramesFormMessages
    <3>. QED BY <3>5, <3>6
  <2>. QED BY <2>1, <2>2
<1>. QED
  BY <1>6, <1>7, <1>9, <1>10 DEF SInv

\* The other steps of a call leave the wire alone.
LEMMA CallPreserves ==
    ASSUME SInv, NEW s \in Senders,
           \/ \E n \in Lengths : Send(s, n)
           \/ Lock(s) \/ LockTimeout(s) \/ WriteFailed(s) \/ Return(s)
    PROVE  SInv'
<1> USE SendAssumption DEF SInv
<1>1. wire' = wire /\ torn' = torn
  BY DEF Send, Lock, LockTimeout, WriteFailed, Return
<1>2. SendTypeOK'
  <2>1. Idle \in Call BY DEF Idle, Call
  <2>2. ASSUME NEW n \in Lengths
        PROVE  [at |-> "lock", len |-> n, widx |-> 0, opcode |-> TRUE] \in Call
    BY DEF Call
  <2>3. [call[s] EXCEPT !.at = "write"] \in Call BY DEF SendTypeOK, Call
  <2>4. call' \in [Senders -> Call]
    BY <2>1, <2>2, <2>3 DEF SendTypeOK, Send, Lock, LockTimeout, WriteFailed, Return
  <2>5. state' \in {"connected", "closing", "down"} /\ holder' \in Senders \cup {"none", "task"}
    BY DEF SendTypeOK, Send, Lock, LockTimeout, WriteFailed, Return
  <2>. QED BY <1>1, <2>4, <2>5 DEF SendTypeOK
<1>3. state' = "connected" => state = "connected"
  BY DEF Send, Lock, LockTimeout, WriteFailed, Return
<1>4. FramesFormMessages'
  BY <1>1, <1>3 DEF FramesFormMessages
<1>5. CASE \E n \in Lengths : Send(s, n)
  BY <1>2, <1>4, <1>5 DEF Send, SendTypeOK, Call, CallsInOrder, WireInStep, LastSent, Finished
<1>6. CASE Lock(s)
  BY <1>2, <1>4, <1>6 DEF Lock, SendTypeOK, Call, CallsInOrder, WireInStep, LastSent, Finished
<1>7. CASE LockTimeout(s)
  BY <1>2, <1>4, <1>7 DEF LockTimeout, Idle, SendTypeOK, Call, CallsInOrder, WireInStep, LastSent, Finished
<1>8. CASE WriteFailed(s) \/ Return(s)
  <2>1. holder = s /\ holder' = "none" /\ call' = [call EXCEPT ![s] = Idle]
    BY <1>8 DEF WriteFailed, Return, CallsInOrder
  <2>2. CallsInOrder'
    BY <2>1 DEF CallsInOrder, SendTypeOK, Call, Idle
  <2>3. \A t \in Senders : call'[t].at # "write"
    BY <2>1 DEF CallsInOrder, SendTypeOK, Call, Idle
  <2>4. state' = "connected" /\ ~torn => Finished
    <3>1. CASE WriteFailed(s)
      BY <3>1 DEF WriteFailed
    <3>2. CASE Return(s)
      BY <3>2 DEF Return, More, WireInStep, LastSent, Finished, SendTypeOK, Call
    <3>. QED BY <1>8, <3>1, <3>2
  <2>5. WireInStep'
    BY <1>1, <2>3, <2>4 DEF WireInStep, Finished
  <2>. QED BY <1>2, <1>4, <2>2, <2>5
<1>. QED
  BY <1>5, <1>6, <1>7, <1>8

\* Nor do the steps of the client's task, but for a new connection.
LEMMA TaskPreserves ==
    ASSUME SInv, Connect \/ Lose \/ Closed \/ Receive \/ Piece \/ ReadFailed \/ Received
    PROVE  SInv'
<1> USE SendAssumption DEF SInv
<1>1. CASE Connect
  <2>1. wire' = <<>> /\ torn' = FALSE /\ holder' = "none" /\ call' = call
        /\ state' = "connected" /\ holder = "none"
    BY <1>1 DEF Connect
  <2>. QED
    <3>1. wire' \in Seq(Frame) BY <2>1
    <3>2. torn' \in BOOLEAN BY <2>1
    <3>3. SendTypeOK' /\ CallsInOrder' BY <2>1, <3>1, <3>2 DEF SendTypeOK, CallsInOrder
    <3>4. WireInStep' BY <2>1, <3>3 DEF CallsInOrder, WireInStep, Finished
    <3>5. FramesFormMessages' BY <2>1 DEF FramesFormMessages
    <3>. QED BY <3>3, <3>4, <3>5
<1>2. CASE Lose \/ Closed \/ Receive \/ Piece \/ ReadFailed \/ Received
  <2>1. wire' = wire /\ torn' = torn /\ call' = call
    BY <1>2 DEF Lose, Closed, Receive, Piece, ReadFailed, Received, send_vars
  <2>2. /\ state' \in {"connected", "closing", "down"}
        /\ state' = "connected" => state = "connected"
    BY <1>2 DEF Lose, Closed, Receive, Piece, ReadFailed, Received, send_vars, SendTypeOK
  <2>3. holder' = holder \/ (holder \in {"none", "task"} /\ holder' \in {"none", "task"})
    BY <1>2 DEF Lose, Closed, Receive, Piece, ReadFailed, Received, send_vars
  <2>4. SendTypeOK' /\ CallsInOrder'
    BY <2>1, <2>2, <2>3 DEF SendTypeOK, CallsInOrder
  <2>5. WireInStep' /\ FramesFormMessages'
    BY <2>1, <2>2, <2>3 DEF WireInStep, FramesFormMessages, LastSent, Finished
  <2>. QED BY <2>4, <2>5
<1>. QED
  BY <1>1, <1>2

LEMMA SendInductive == SInv /\ [BothNext]_both => SInv'
<1> SUFFICES ASSUME SInv, [BothNext]_both PROVE SInv'
  OBVIOUS
<1>1. CASE UNCHANGED both
  BY <1>1 DEF both, send_vars, SInv, SendTypeOK, CallsInOrder, WireInStep,
              FramesFormMessages, LastSent, Finished
<1>. QED
  BY <1>1, WritePreserves, CallPreserves, TaskPreserves DEF BothNext, SendStep

\* What has been sent stays in step with the calls.
THEOREM SendInvariant == BothSpec => []SInv
  BY InitSInv, SendInductive, PTL DEF BothSpec

\* Until the server closes, frames written whole make up messages.
THEOREM FramesInOrder == BothSpec => []FramesFormMessages
  BY SendInvariant, PTL DEF SInv

\* A call that succeeds has sent all its data and FIN, and a connection on which
\* a message was broken off is not sent on again.
THEOREM WholeMessages == BothSpec => []NothingHalfSent
<1>1. SInv => NothingHalfSent
  <2> SUFFICES ASSUME SInv, ~torn PROVE NothingHalfSent
    BY DEF NothingHalfSent
  <2>1. holder = "none" /\ state = "connected" => Finished
    BY SendAssumption DEF SInv, WireInStep
  <2>2. ASSUME NEW s \in Senders, call[s].at = "write", ~More(call[s])
        PROVE  Finished /\ wire[Len(wire)].to = call[s].len
    BY <2>2 DEF SInv, SendTypeOK, Call, WireInStep, LastSent, Finished, More
  <2>. QED
    BY <2>1, <2>2 DEF NothingHalfSent
<1>. QED
  BY <1>1, SendInvariant, PTL

-----------------------------------------------------------------------------
(* The memory of a handle *)

\* No block is alive for a pointer, or the one it points to.
Empty(p) == p.ptr = "null" /\ p.blocks = 0
One(p)   == p.ptr = "block" /\ p.blocks = 1

\* The pointers whose blocks are counted exactly: all but the two that leak.
Exact(f) == f # "user_info" /\ ~(f = "host" /\ {"host", "uri"} \subseteq given)

Mems == [Fields -> [ptr : {"null", "block"}, blocks : Nat]]

\* In between, some may have been freed.
Mids == [Fields -> [ptr : {"null", "block", "freed"}, blocks : Int]]

Account(m) ==
    /\ m \in Mems
    /\ \A f \in Fields : m[f].ptr = "block" => m[f].blocks > 0
    /\ \A f \in Fields : Exact(f) => Empty(m[f]) \/ One(m[f])
    /\ m["user_info"].blocks > 0 => "uri_userinfo" \in UriParts

LEMMA FieldSets ==
    /\ ConfigFields \subseteq Fields
    /\ Transports \subseteq Fields
    /\ {"client", "user_info", "headers", "errormsg_buffer", "scheme"} \subseteq Fields
  BY DEF Fields, ConfigFields, Transports

LEMMA Settled ==
    ASSUME NEW n \in Mids,
           \A f \in Fields : n[f].ptr \in {"null", "block"} /\ n[f].blocks \in Nat
    PROVE  n \in Mems
<1>1. \A f \in Fields : n[f] \in [ptr : {"null", "block", "freed"}, blocks : Int]
  BY DEF Mids
<1>2. \A f \in Fields : n[f] \in [ptr : {"null", "block"}, blocks : Nat]
  BY <1>1
<1> QED BY <1>2 DEF Mids, Mems

LEMMA Pointers ==
    ASSUME NEW m, Account(m), NEW f \in Fields
    PROVE  m[f].ptr \in {"null", "block"} /\ m[f].blocks \in Nat
  BY DEF Account, Mems

\* What each helper makes of one pointer.
LEMMA FreedAt ==
    ASSUME NEW m, Account(m), NEW F, NEW f \in Fields
    PROVE  /\ m[f].ptr \in {"null", "block"} /\ m[f].blocks \in Nat
           /\ f \notin F \/ m[f].ptr = "null" => Freed(m, F)[f] = m[f]
           /\ f \in F /\ m[f].ptr = "block" =>
                 Freed(m, F)[f] = [ptr |-> "freed", blocks |-> m[f].blocks - 1]
  BY DEF Freed, Account, Mems

LEMMA GotAt ==
    ASSUME NEW m, Account(m), NEW F, NEW f \in Fields, NEW n,
           n = Got(Freed(m, F), f)
    PROVE  /\ n \in Mids
           /\ n[f].ptr = "block" /\ n[f].blocks = Freed(m, F)[f].blocks + 1
           /\ \A g \in Fields \ {f} : n[g] = Freed(m, F)[g]
<1> DEFINE fr == Freed(m, F)
<1>1. \A g \in Fields :
         /\ m[g].ptr \in {"null", "block"} /\ m[g].blocks \in Nat
         /\ g \notin F \/ m[g].ptr = "null" => fr[g] = m[g]
         /\ g \in F /\ m[g].ptr = "block" =>
               fr[g] = [ptr |-> "freed", blocks |-> m[g].blocks - 1]
  BY FreedAt
<1>2. \A g \in Fields : fr[g] \in [ptr : {"null", "block", "freed"}, blocks : Int]
  <2>1. SUFFICES ASSUME NEW g \in Fields
                 PROVE  fr[g] \in [ptr : {"null", "block", "freed"}, blocks : Int]
    OBVIOUS
  <2>2. m[g] \in [ptr : {"null", "block"}, blocks : Nat]
    BY DEF Account, Mems
  <2> HIDE DEF fr
  <2>3. CASE g \in F /\ m[g].ptr = "block"
    <3>1. fr[g] = [ptr |-> "freed", blocks |-> m[g].blocks - 1]
      BY <1>1, <2>3
    <3> QED BY <2>2, <3>1
  <2>4. CASE ~(g \in F /\ m[g].ptr = "block")
    <3>1. fr[g] = m[g]
      BY <1>1, <2>4
    <3> QED BY <2>2, <3>1
  <2> QED BY <2>3, <2>4
<1>3. fr \in Mids
  <2>1. fr = [g \in Fields |-> fr[g]]
    BY DEF Freed
  <2> HIDE DEF fr
  <2> QED BY <1>2, <2>1 DEF Mids
<1> HIDE DEF fr
<1>4. n = [fr EXCEPT ![f] = [ptr |-> "block", blocks |-> fr[f].blocks + 1]]
  BY DEF fr, Got
<1>5. fr[f].blocks + 1 \in Int
  BY <1>2
<1> QED BY <1>3, <1>4, <1>5 DEF fr, Mids

\* strdup, malloc or calloc for a pointer that has nothing.
LEMMA NewOk ==
    ASSUME NEW m, Account(m), NEW f \in Fields, Exact(f) => Empty(m[f]),
           f = "user_info" => "uri_userinfo" \in UriParts,
           NEW n, n = Got(Freed(m, {}), f)
    PROVE  /\ Account(n)
           /\ \A g \in Fields \ {f} : n[g] = m[g]
           /\ Exact(f) => One(n[f])
<1>1. \A g \in Fields : Freed(m, {})[g] = m[g]
  BY FreedAt
<1>2. /\ n \in Mids
      /\ n[f].ptr = "block" /\ n[f].blocks = m[f].blocks + 1
      /\ \A g \in Fields \ {f} : n[g] = m[g]
  <2>1. /\ n \in Mids
        /\ n[f].ptr = "block" /\ n[f].blocks = Freed(m, {})[f].blocks + 1
        /\ \A g \in Fields \ {f} : n[g] = Freed(m, {})[g]
    BY GotAt
  <2> QED BY <1>1, <2>1, Zenon
<1>3. /\ n[f].ptr = "block" /\ n[f].blocks = m[f].blocks + 1
      /\ n[f].blocks \in Nat /\ n[f].blocks > 0
  BY <1>2 DEF Account, Mems
<1>4. Exact(f) => One(n[f])
  BY <1>3 DEF Empty, One
<1>5. n \in Mems
  <2>1. ASSUME NEW g \in Fields
        PROVE  n[g].ptr \in {"null", "block"} /\ n[g].blocks \in Nat
    BY <1>2, <1>3, Pointers
  <2> QED BY <1>2, <2>1, Settled
<1>6. "user_info" \in Fields
  BY FieldSets
<1> QED BY <1>2, <1>3, <1>4, <1>5, <1>6 DEF Account

\* The same for a pointer that is freed before.
LEMMA RenewOk ==
    ASSUME NEW m, Account(m), NEW f \in Fields, f # "user_info",
           NEW n, n = Got(Freed(m, {f}), f)
    PROVE  /\ Account(n)
           /\ \A g \in Fields \ {f} : n[g] = m[g]
           /\ Exact(f) => One(n[f])
<1>1. ASSUME NEW g \in Fields \ {f} PROVE Freed(m, {f})[g] = m[g]
  BY FreedAt
<1>2. Freed(m, {f})[f].blocks = IF m[f].ptr = "null" THEN m[f].blocks ELSE m[f].blocks - 1
  <2>1. CASE m[f].ptr = "null"
    <3>1. Freed(m, {f})[f] = m[f]
      BY <2>1, FreedAt
    <3> QED BY <2>1, <3>1
  <2>2. CASE m[f].ptr = "block"
    <3>1. Freed(m, {f})[f] = [ptr |-> "freed", blocks |-> m[f].blocks - 1]
      BY <2>2 DEF Freed
    <3> QED BY <2>2, <3>1
  <2> QED BY <2>1, <2>2, FreedAt
<1>3. /\ n \in Mids
      /\ n[f].ptr = "block" /\ n[f].blocks = Freed(m, {f})[f].blocks + 1
      /\ \A g \in Fields \ {f} : n[g] = m[g]
  <2>1. /\ n \in Mids
        /\ n[f].ptr = "block" /\ n[f].blocks = Freed(m, {f})[f].blocks + 1
        /\ \A g \in Fields \ {f} : n[g] = Freed(m, {f})[g]
    BY GotAt
  <2> QED BY <1>1, <2>1, Zenon
<1>4. n[f].ptr = "block" /\ n[f].blocks = Freed(m, {f})[f].blocks + 1
  BY <1>3
<1>5. n[f].blocks \in Nat /\ n[f].blocks > 0
  BY <1>2, <1>4 DEF Account, Mems
<1>6. Exact(f) => One(n[f])
  BY <1>2, <1>4 DEF Account, Mems, Empty, One
<1>7. n \in Mems
  <2>1. ASSUME NEW g \in Fields
        PROVE  n[g].ptr \in {"null", "block"} /\ n[g].blocks \in Nat
    BY <1>3, <1>4, <1>5, Pointers
  <2> QED BY <1>3, <2>1, Settled
<1>8. "user_info" \in Fields
  BY FieldSets
<1> QED BY <1>3, <1>4, <1>5, <1>6, <1>7, <1>8 DEF Account

\* The pointers of F are freed and those of G are set to NULL.
LEMMA DropOk ==
    ASSUME NEW m, Account(m), NEW F, NEW G, F \subseteq G,
           \A g \in Fields : g \in G /\ g \notin F /\ Exact(g) => Empty(m[g]),
           NEW n, n = Cleared(Freed(m, F), G)
    PROVE  /\ Account(n)
           /\ \A g \in Fields \ G : n[g] = m[g]
           /\ \A g \in Fields \cap G : n[g].ptr = "null" /\ (Exact(g) => Empty(n[g]))
<1> DEFINE fr == Freed(m, F)
<1>1. \A g \in Fields :
         /\ m[g].ptr \in {"null", "block"} /\ m[g].blocks \in Nat
         /\ g \notin F \/ m[g].ptr = "null" => fr[g] = m[g]
         /\ g \in F /\ m[g].ptr = "block" =>
               fr[g] = [ptr |-> "freed", blocks |-> m[g].blocks - 1]
  BY FreedAt
<1> HIDE DEF fr
<1>2. n = [g \in Fields |-> IF g \in G /\ fr[g].ptr # "freed twice"
                                   THEN [fr[g] EXCEPT !.ptr = "null"] ELSE fr[g]]
  BY Zenon DEF fr, Cleared
<1>3. \A g \in Fields \ G : n[g] = m[g]
  BY <1>1, <1>2
<1>4. ASSUME NEW g \in Fields, g \in G
      PROVE  /\ n[g].ptr = "null"
             /\ n[g].blocks = IF g \in F /\ m[g].ptr = "block" THEN m[g].blocks - 1
                              ELSE m[g].blocks
             /\ n[g] \in [ptr : {"null", "block", "freed"}, blocks : Int]
  <2>1. m[g] \in [ptr : {"null", "block"}, blocks : Nat]
    BY DEF Account, Mems
  <2>2. n[g] = IF fr[g].ptr # "freed twice" THEN [fr[g] EXCEPT !.ptr = "null"] ELSE fr[g]
    BY <1>2, <1>4
  <2>3. CASE ~(g \in F /\ m[g].ptr = "block")
    <3>1. fr[g] = m[g]
      BY <1>1, <2>3
    <3>2. n[g] = [m[g] EXCEPT !.ptr = "null"]
      BY <2>1, <2>2, <3>1
    <3> QED BY <2>1, <2>3, <3>2
  <2>4. CASE g \in F /\ m[g].ptr = "block"
    <3>1. fr[g] = [ptr |-> "freed", blocks |-> m[g].blocks - 1]
      BY <1>1, <2>4
    <3> QED BY <2>1, <2>2, <2>4, <3>1
  <2> QED BY <2>3, <2>4
<1>5. ASSUME NEW g \in Fields, g \in G
      PROVE  /\ n[g].blocks \in Nat /\ n[g].blocks <= m[g].blocks
             /\ Exact(g) => Empty(n[g])
  <2>1. m[g].blocks \in Nat /\ m[g].ptr \in {"null", "block"}
    BY Pointers
  <2>2. /\ m[g].ptr = "block" => m[g].blocks > 0
        /\ Exact(g) => Empty(m[g]) \/ One(m[g])
    BY DEF Account
  <2>3. n[g].blocks \in Nat /\ n[g].blocks <= m[g].blocks
    BY <1>4, <1>5, <2>1, <2>2
  <2>4. Exact(g) => Empty(n[g])
    <3>1. Exact(g) /\ g \notin F => Empty(m[g])
      BY <1>5
    <3> QED BY <1>4, <1>5, <2>1, <2>2, <3>1 DEF Empty, One
  <2> QED BY <2>3, <2>4
<1>6. n \in Mems
  <2>1. ASSUME NEW g \in Fields
        PROVE  n[g] \in [ptr : {"null", "block", "freed"}, blocks : Int]
    <3>1. CASE g \in G
      BY <1>4, <3>1
    <3>2. CASE g \notin G
      <4>1. n[g] = m[g]
        BY <1>3, <3>2
      <4>2. m[g] \in [ptr : {"null", "block"}, blocks : Nat]
        BY DEF Account, Mems
      <4> QED BY <4>1, <4>2
    <3> QED BY <3>1, <3>2
  <2>2. n \in Mids
    BY <1>2, <2>1 DEF Mids
  <2>3. ASSUME NEW g \in Fields
        PROVE  n[g].ptr \in {"null", "block"} /\ n[g].blocks \in Nat
    BY <1>3, <1>4, <1>5, Pointers
  <2> QED BY <2>2, <2>3, Settled
<1>7. n["user_info"].blocks > 0 => "uri_userinfo" \in UriParts
  <2>1. "user_info" \in Fields /\ n["user_info"].blocks \in Int
    BY <1>6, FieldSets DEF Mems
  <2>2. m["user_info"].blocks \in Nat /\ n["user_info"].blocks <= m["user_info"].blocks
    BY <1>3, <1>5, <2>1 DEF Account, Mems
  <2> QED BY <2>1, <2>2 DEF Account
<1> QED BY <1>3, <1>4, <1>5, <1>6, <1>7 DEF Account

LEMMA DestroyedOk ==
    ASSUME NEW m, Account(m),
           m["config"].ptr = "null" =>
               \A f \in ConfigFields : Exact(f) => Empty(m[f])
    PROVE  LET n == Destroyed(m) IN
           /\ Account(n)
           /\ \A f \in Fields : n[f].ptr = "null" /\ (Exact(f) => Empty(n[f]))
<1> DEFINE n == Destroyed(m)
           F == (Fields \ (ConfigFields \cup {"user_info", "auth"}))
                \cup (IF m["config"].ptr = "block" THEN ConfigFields ELSE {})
<1>1. n = Cleared(Freed(m, F), Fields)
  BY DEF Destroyed
<1>2. F \subseteq Fields
  BY FieldSets
<1>3. "config" \in Fields /\ "auth" \in ConfigFields
  BY DEF Fields, ConfigFields
<1>4. m["config"].ptr \in {"null", "block"}
  BY <1>3, Pointers
<1>5. ASSUME NEW f \in Fields, f \notin F, Exact(f) PROVE Empty(m[f])
  <2>1. f # "user_info"
    BY <1>5 DEF Exact
  <2>2. f \in ConfigFields /\ m["config"].ptr = "null"
    BY <1>3, <1>4, <1>5, <2>1
  <2> QED BY <1>5, <2>2
<1> HIDE DEF n, F
<1> QED BY <1>1, <1>2, <1>5, DropOk DEF n

\* The step of init that sets a pointer first, and the parts no handle lacks.
Place == [client |-> 1, event_handle |-> 2, if_name |-> 3, lock |-> 4, config |-> 5,
          scheme |-> 6, rx_buffer |-> 24, tx_buffer |-> 25, status_bits |-> 26]
Essential == {"client", "event_handle", "lock", "config", "rx_buffer", "tx_buffer",
              "status_bits"}

InitFact(e, k) ==
    /\ e.field \in Fields \ (Transports \cup {"errormsg_buffer"})
    /\ k < 5 => e.field \notin ConfigFields
    /\ e.field \in DOMAIN Place /\ e.do # "check" => k >= Place[e.field]
    /\ e.field \in Essential /\ e.do # "check" => k = Place[e.field]
    /\ \/ e.do = "new" /\ e.field \in DOMAIN Place /\ k = Place[e.field]
       \/ e = New("host", {"host"}) /\ k = 16
       \/ e = New("user_info", {"uri_userinfo"})
       \/ e = Drop("user_info", {"uri_userinfo"})
       \/ e.do = "renew" /\ e.field # "user_info"
          /\ (e.field = "host" => e.needs = {"uri_host"})
       \/ e.do = "auth" /\ e.field = "auth"
       \/ e.do = "default" /\ e.field = "scheme"
       \/ e.do = "check"

LEMMA InitList ==
    /\ Len(ClientInit) = 26
    /\ \A f \in Essential : ClientInit[Place[f]] = New(f, {})
    /\ \A f \in DOMAIN Place : Place[f] \in 1..26 /\ Exact(f)
    /\ \A k \in 1..26 : InitFact(ClientInit[k], k)
<1>1. Len(ClientInit) = 26
  BY DEF ClientInit, SetUri, SetConfig
<1>2. ASSUME NEW f \in Essential PROVE ClientInit[Place[f]] = New(f, {})
  <2>1. /\ ClientInit[1] = New("client", {})
        /\ ClientInit[2] = New("event_handle", {})
        /\ ClientInit[4] = New("lock", {})
        /\ ClientInit[5] = New("config", {})
    BY DEF ClientInit, SetUri, SetConfig
  <2>2. /\ ClientInit[24] = New("rx_buffer", {})
        /\ ClientInit[25] = New("tx_buffer", {})
        /\ ClientInit[26] = New("status_bits", {})
    BY DEF ClientInit, SetUri, SetConfig
  <2> QED BY <2>1, <2>2 DEF Essential, Place
<1>3. \A f \in DOMAIN Place : Place[f] \in 1..26 /\ Exact(f)
  BY DEF Exact, Place
<1>4. ASSUME NEW k \in 1..26 PROVE InitFact(ClientInit[k], k)
  <2>1. \A j \in 1..4 : InitFact(ClientInit[j], j)
    BY DEF InitFact, Essential, Place, Fields, ConfigFields,
           Transports, ClientInit,
           SetUri, SetConfig, New, Renew, Drop, Check
  <2>2. \A j \in 5..6 : InitFact(ClientInit[j], j)
    BY DEF InitFact, Essential, Place, Fields, ConfigFields,
           Transports, ClientInit,
           SetUri, SetConfig, New, Renew, Drop, Check
  <2>3. \A j \in 7..8 : InitFact(ClientInit[j], j)
    BY DEF InitFact, Essential, Place, Fields, ConfigFields,
           Transports, ClientInit,
           SetUri, SetConfig, New, Renew, Drop, Check
  <2>4. \A j \in 9..15 : InitFact(ClientInit[j], j)
    <3>1. \A j \in 9..15 : ClientInit[j] = SetUri[j - 8]
      BY DEF ClientInit, SetUri, SetConfig
    <3>2. /\ InitFact(SetUri[1], 9) /\ InitFact(SetUri[2], 10)
          /\ InitFact(SetUri[3], 11) /\ InitFact(SetUri[4], 12)
      BY DEF InitFact, Essential, Place, Fields, ConfigFields,
             Transports, SetUri, New, Renew, Drop, Check
    <3>3. /\ InitFact(SetUri[5], 13) /\ InitFact(SetUri[6], 14)
          /\ InitFact(SetUri[7], 15)
      BY DEF InitFact, Essential, Place, Fields, ConfigFields,
             Transports, SetUri, New, Renew, Drop, Check
    <3> QED BY <3>1, <3>2, <3>3
  <2>5. \A j \in 16..22 : InitFact(ClientInit[j], j)
    <3>1. \A j \in 16..22 : ClientInit[j] = SetConfig[j - 15]
      BY DEF ClientInit, SetUri, SetConfig
    <3>2. /\ InitFact(SetConfig[1], 16) /\ InitFact(SetConfig[2], 17)
          /\ InitFact(SetConfig[3], 18) /\ InitFact(SetConfig[4], 19)
      BY DEF InitFact, Essential, Place, Fields, ConfigFields,
             Transports, SetConfig, New, Renew, Drop, Check
    <3>3. /\ InitFact(SetConfig[5], 20) /\ InitFact(SetConfig[6], 21)
          /\ InitFact(SetConfig[7], 22)
      BY DEF InitFact, Essential, Place, Fields, ConfigFields,
             Transports, SetConfig, New, Renew, Drop, Check
    <3> QED BY <3>1, <3>2, <3>3
  <2>6. \A j \in 23..26 : InitFact(ClientInit[j], j)
    BY DEF InitFact, Essential, Place, Fields, ConfigFields,
           Transports, ClientInit,
           SetUri, SetConfig, New, Renew, Drop, Check
  <2> QED BY <2>1, <2>2, <2>3, <2>4, <2>5, <2>6
<1> QED BY <1>1, <1>2, <1>3, <1>4

\* A redirect renews strings of the configuration, and start makes the
\* transports anew.
RedirectFact(e) ==
    \/ e = New("user_info", {"uri_userinfo"})
    \/ e = Drop("user_info", {"uri_userinfo"})
    \/ e.do = "renew" /\ e.field \in Fields \ (Essential \cup Transports)
       /\ e.field # "user_info"
    \/ e = Check({})

LEMMA RedirectList ==
    Len(Redirected) = 9 /\ \A k \in 1..9 : RedirectFact(Redirected[k])
<1>1. Len(Redirected) = 9
  BY DEF Redirected, SetUri
<1>2. RedirectFact(Redirected[1]) /\ RedirectFact(Redirected[2])
  BY DEF RedirectFact, Essential, Redirected, SetUri, Renew, Check,
         Fields, ConfigFields, Transports
<1>3. \A k \in 3..9 : Redirected[k] = SetUri[k - 2]
  BY DEF Redirected, SetUri
<1>4. /\ RedirectFact(SetUri[1]) /\ RedirectFact(SetUri[2])
      /\ RedirectFact(SetUri[3]) /\ RedirectFact(SetUri[4])
  BY DEF RedirectFact, Essential, SetUri, Renew, New,
         Fields, ConfigFields, Transports
<1>5. /\ RedirectFact(SetUri[5]) /\ RedirectFact(SetUri[6])
      /\ RedirectFact(SetUri[7])
  BY DEF RedirectFact, Essential, SetUri, Renew, Drop,
         Fields, ConfigFields, Transports
<1> QED BY <1>1, <1>2, <1>3, <1>4, <1>5

LEMMA StartList ==
    /\ Len(ClientStart) = 6
    /\ ClientStart[1] = Drop("list", {})
    /\ ClientStart[2] = New("list", {})
    /\ ClientStart[3] = New("tcp", {})
    /\ ClientStart[4] = New("ws", {})
    /\ ClientStart[5] = Check({})
    /\ ClientStart[6] = Check({})
  BY DEF ClientStart

-----------------------------------------------------------------------------
(* One step of a call *)

StepFits(e) ==
    /\ e.field \in Fields
    /\ \/ /\ e.do = "new"
          /\ e.field = "user_info" => e.needs = {"uri_userinfo"}
          /\ Skipped \/ (Exact(e.field) => Empty(mem[e.field]))
       \/ e.do \in {"renew", "auth"} /\ e.field # "user_info"
       \/ e.do = "default" /\ e.field = "scheme"
       \/ e.do = "drop" /\ e.field \in {"list", "user_info"}
       \/ e.do = "check"

LEMMA StepOkMem ==
    ASSUME Account(mem), given \subseteq Given,
           parts \subseteq UriParts, StepOk,
           NEW e, e = Step, StepFits(e)
    PROVE  /\ Account(mem')
           /\ Skipped \/ e.do = "check" => mem' = mem
           /\ \A g \in Fields :
                 g # e.field /\ ~(e.do = "drop" /\ e.field = "list" /\ g \in Transports) =>
                    mem'[g] = mem[g]
           /\ ~Skipped /\ e.do = "new" /\ Exact(e.field) => One(mem'[e.field])
           /\ ~Skipped /\ e.do = "drop" /\ e.field = "list" =>
                 \A g \in Transports : Empty(mem'[g])
<1>1. mem' = IF Skipped \/ e.do = "check" THEN mem
             ELSE IF e.do = "drop"
             THEN Cleared(Freed(mem, Old), Old)
             ELSE Got(Freed(mem, Old), e.field)
  BY DEF StepOk
<1>2. e.field \in Fields
  BY DEF StepFits
<1>3. CASE Skipped \/ e.do = "check"
  BY <1>1, <1>3
<1>4. ASSUME ~Skipped, e.do = "new",
             Exact(e.field) => Empty(mem[e.field]),
             e.field = "user_info" => e.needs = {"uri_userinfo"}
      PROVE  /\ Account(mem')
             /\ \A g \in Fields \ {e.field} : mem'[g] = mem[g]
             /\ Exact(e.field) => One(mem'[e.field])
  <2>1. Old = {}
    BY <1>4 DEF Old
  <2>2. mem' = Got(Freed(mem, {}), e.field)
    BY <1>1, <1>4, <2>1
  <2>3. e.field = "user_info" => "uri_userinfo" \in UriParts
    BY <1>4, HandleAssumption DEF Skipped
  <2> QED BY <1>2, <1>4, <2>2, <2>3, NewOk
<1>5. ASSUME ~Skipped, e.do \in {"renew", "auth"}, e.field # "user_info"
      PROVE  Account(mem') /\ \A g \in Fields \ {e.field} : mem'[g] = mem[g]
  <2>1. Old = {e.field}
    BY <1>5 DEF Old
  <2>2. mem' = Got(Freed(mem, {e.field}), e.field)
    BY <1>1, <1>5, <2>1
  <2> QED BY <1>2, <1>5, <2>2, RenewOk
<1>6. ASSUME ~Skipped, e.do = "default", e.field = "scheme"
      PROVE  Account(mem') /\ \A g \in Fields \ {e.field} : mem'[g] = mem[g]
  <2>1. Old = {}
    BY <1>6 DEF Old
  <2>2. mem' = Got(Freed(mem, {}), e.field)
    BY <1>1, <1>6, <2>1
  <2>3. Empty(mem[e.field])
    BY <1>2, <1>6 DEF Skipped, Account, Exact, Empty, One
  <2> QED BY <1>2, <1>6, <2>2, <2>3, NewOk
<1>7. ASSUME ~Skipped, e.do = "drop", e.field \in {"list", "user_info"}
      PROVE  /\ Account(mem')
             /\ \A g \in Fields :
                   g # e.field /\ ~(e.field = "list" /\ g \in Transports) =>
                      mem'[g] = mem[g]
             /\ e.field = "list" => \A g \in Transports : Empty(mem'[g])
  <2>1. Old = IF e.field = "list" THEN Transports ELSE {e.field}
    BY <1>7 DEF Old
  <2>2. mem' = Cleared(Freed(mem, Old), Old)
    BY <1>1, <1>7
  <2>3. /\ Account(mem')
        /\ \A g \in Fields \ Old : mem'[g] = mem[g]
        /\ \A g \in Fields \cap Old : Exact(g) => Empty(mem'[g])
    BY <2>2, DropOk
  <2>4. \A g \in Transports : g \in Fields /\ Exact(g)
    BY DEF Transports, Fields, Exact
  <2> QED BY <2>1, <2>3, <2>4
<1> QED BY <1>3, <1>4, <1>5, <1>6, <1>7 DEF StepFits

LEMMA NotFoundMem ==
    ASSUME Account(mem), ~Skipped, NEW e, e = Step, StepFits(e), e.do # "drop",
           NEW m, m = IF e.do = "check" THEN mem
                      ELSE NoMem(Freed(mem, Old), e.field)
    PROVE  /\ Account(m)
           /\ e.do = "check" => m = mem
           /\ \A g \in Fields \ {e.field} : m[g] = mem[g]
           /\ e.do # "check" /\ Exact(e.field) => Empty(m[e.field])
<1>1. e.field \in Fields
  BY DEF StepFits
<1>2. CASE e.do = "check"
  BY <1>2
<1>3. ASSUME e.do # "check" PROVE
           /\ Account(m)
           /\ \A g \in Fields \ {e.field} : m[g] = mem[g]
           /\ Exact(e.field) => Empty(m[e.field])
  <2>1. m = Cleared(Freed(mem, Old), {e.field})
    BY <1>3 DEF NoMem
  <2>2. Old \subseteq {e.field}
    BY DEF StepFits, Old
  <2>3. \A g \in Fields : g \in {e.field} /\ g \notin Old /\ Exact(g) => Empty(mem[g])
    <3>1. CASE e.do = "new"
      BY <3>1 DEF StepFits
    <3>2. CASE e.do \in {"renew", "auth"}
      BY <3>2 DEF Old
    <3>3. CASE e.do = "default" /\ e.field = "scheme"
      BY <1>1, <3>3 DEF Skipped, Account, Exact, Empty, One
    <3> QED BY <1>3, <3>1, <3>2, <3>3 DEF StepFits
  <2> QED BY <1>1, <2>1, <2>2, <2>3, DropOk
<1> QED BY <1>2, <1>3

-----------------------------------------------------------------------------
(* The inductive invariant of the handle *)

HandleTyped ==
    /\ given \subseteq Given /\ parts \subseteq UriParts
    /\ at \in {"none", "ready", "running", "gone"} \cup DOMAIN Calls
    /\ at \in DOMAIN Calls => step \in 1..Len(Calls[at])
    /\ at \notin DOMAIN Calls => step = 0 /\ parts = {}

\* While a handle is made: what has been set so far, and what has not.
Making ==
    at = "init" =>
        /\ \A f \in DOMAIN Place : step <= Place[f] => Empty(mem[f])
        /\ \A f \in Essential : step > Place[f] => One(mem[f])
        /\ step <= 5 => \A f \in ConfigFields : Empty(mem[f])
        /\ "uri" \notin given => parts = {} /\ (step <= 16 => Empty(mem["host"]))

StartPlace == [list |-> 2, tcp |-> 3, ws |-> 4]

Usable ==
    /\ at \in {"ready", "start", "running", "redirect"} =>
           \A f \in Essential : One(mem[f])
    /\ at = "start" /\ step > 1 =>
           \A f \in Transports :
               IF step <= StartPlace[f] THEN Empty(mem[f]) ELSE One(mem[f])
    /\ at \in {"running", "redirect"} => \A f \in Transports : One(mem[f])

\* Before it is made and once it is gone.
Outside ==
    /\ at = "none" => \A f \in Fields : Empty(mem[f])
    /\ at = "gone" =>
           \A f \in Fields : mem[f].ptr = "null" /\ (Exact(f) => Empty(mem[f]))

HandleInv == HandleTyped /\ Account(mem) /\ Making /\ Usable /\ Outside

LEMMA CallNames ==
    /\ DOMAIN Calls = {"init", "start", "redirect"}
    /\ Calls["init"] = ClientInit
    /\ Calls["start"] = ClientStart
    /\ Calls["redirect"] = Redirected
  BY DEF Calls

LEMMA EssentialFields ==
    /\ Essential \subseteq Fields
    /\ Essential \cap Transports = {}
    /\ Essential \subseteq DOMAIN Place
    /\ \A f \in Essential : Exact(f)
    /\ DOMAIN Place \subseteq Fields
    /\ "config" \in Essential /\ Place["config"] = 5
    /\ {"headers", "errormsg_buffer"} \cap (Essential \cup Transports) = {}
  BY DEF Essential, Exact, Place, Fields, Transports, ConfigFields

\* The account depends on what is given only, and that does not change.
LEMMA AccountNext ==
    ASSUME given' = given, Account(mem')
    PROVE  Account(mem)'
  BY DEF Account, Exact, Mems

LEMMA HandleInitOk == HandleInit => HandleInv
<1>1. SUFFICES ASSUME HandleInit PROVE HandleInv
  OBVIOUS
<1>2. given \subseteq Given /\ at = "none" /\ parts = {} /\ step = 0
  BY <1>1 DEF HandleInit
<1>3. mem = [f \in Fields |-> [ptr |-> "null", blocks |-> 0]]
  BY <1>1 DEF HandleInit
<1>4. \A f \in Fields : Empty(mem[f])
  BY <1>3 DEF Empty
<1>5. mem \in Mems
  BY <1>3 DEF Mems
<1>6. Account(mem)
  BY <1>4, <1>5, FieldSets DEF Account, Empty
<1>7. "none" \notin DOMAIN Calls
  BY CallNames
<1> QED BY <1>2, <1>4, <1>6, <1>7 DEF HandleInv, HandleTyped, Making, Usable, Outside

LEMMA InitEntry ==
    ASSUME HandleInv, at = "init"
    PROVE  /\ step \in 1..26 /\ Step = ClientInit[step]
           /\ InitFact(Step, step)
           /\ StepFits(Step)
<1>1. step \in 1..26 /\ Step = ClientInit[step]
  BY CallNames, InitList DEF HandleInv, HandleTyped, Step
<1>2. InitFact(Step, step)
  BY <1>1, InitList
<1>3. PICK e : e = Step /\ InitFact(e, step)
  BY <1>2
<1>4. e.field \in Fields
  BY <1>3 DEF InitFact
<1>5. StepFits(e)
  <2>1. CASE e.do = "new" /\ e.field \in DOMAIN Place /\ step = Place[e.field]
    <3>1. Empty(mem[e.field])
      BY <1>1, <2>1 DEF HandleInv, Making
    <3>2. e.field # "user_info"
      BY <2>1 DEF Place
    <3> QED BY <1>4, <2>1, <3>1, <3>2 DEF StepFits
  <2>2. CASE e = New("host", {"host"}) /\ step = 16
    <3>1. e.do = "new" /\ e.field = "host" /\ e.needs = {"host"} /\ e.field \in Fields
      BY <1>4, <2>2 DEF New
    <3>2. ASSUME ~Skipped, Exact("host") PROVE Empty(mem["host"])
      <4>1. "host" \in given
        BY <1>3, <3>1, <3>2, HandleAssumption DEF Skipped, HandleInv, HandleTyped
      <4>2. "uri" \notin given
        BY <3>2, <4>1 DEF Exact
      <4> QED BY <2>2, <4>2 DEF HandleInv, Making
    <3> QED BY <3>1, <3>2 DEF StepFits
  <2>3. CASE e = New("user_info", {"uri_userinfo"})
    BY <1>4, <2>3 DEF StepFits, Exact, New
  <2>4. CASE e = Drop("user_info", {"uri_userinfo"})
    BY <1>4, <2>4 DEF StepFits, Drop
  <2>5. CASE \/ e.do = "renew" /\ e.field # "user_info"
             \/ e.do = "auth" /\ e.field = "auth"
             \/ e.do = "default" /\ e.field = "scheme"
             \/ e.do = "check"
    BY <1>4, <2>5 DEF StepFits
  <2> QED BY <1>3, <2>1, <2>2, <2>3, <2>4, <2>5 DEF InitFact
<1> QED BY <1>1, <1>2, <1>3, <1>5

LEMMA StartEntry ==
    ASSUME HandleInv, at = "start"
    PROVE  /\ step \in 1..6 /\ Step = ClientStart[step]
           /\ StepFits(Step)
<1>1. step \in 1..6 /\ Step = ClientStart[step]
  BY CallNames, StartList DEF HandleInv, HandleTyped, Step
<1>2. CASE step = 1
  BY <1>1, <1>2, StartList DEF Drop, StepFits, Fields, Transports
<1>3. CASE step \in 2..4
  <2>1. /\ Step.do = "new" /\ Step.field \in Transports
        /\ StartPlace[Step.field] = step
    BY <1>1, <1>3, StartList DEF New, StartPlace, Transports
  <2>2. Empty(mem[Step.field])
    BY <1>3, <2>1 DEF HandleInv, Usable
  <2>3. Step.field # "user_info"
    BY <2>1 DEF Transports
  <2> QED BY <1>1, <2>1, <2>2, <2>3, FieldSets DEF StepFits
<1>4. CASE step \in 5..6
  BY <1>1, <1>4, StartList, FieldSets DEF Check, StepFits
<1> QED BY <1>1, <1>2, <1>3, <1>4

LEMMA RedirectEntry ==
    ASSUME HandleInv, at = "redirect"
    PROVE  /\ step \in 1..9 /\ StepFits(Step)
           /\ Step.field \notin Essential \cup Transports \/ Step.do = "check"
<1>1. step \in 1..9 /\ Step = Redirected[step]
  BY CallNames, RedirectList DEF HandleInv, HandleTyped, Step
<1>2. RedirectFact(Step)
  BY <1>1, RedirectList
<1>3. "user_info" \in Fields \ (Essential \cup Transports)
  BY DEF Fields, Essential, Transports
<1> QED BY <1>1, <1>2, <1>3, FieldSets
        DEF RedirectFact, StepFits, Exact, New, Drop, Check

LEMMA InitStepOk ==
    ASSUME HandleInv, at = "init", StepOk
    PROVE  HandleInv'
<1> DEFINE e == Step
<1>1. /\ step \in 1..26 /\ e = ClientInit[step]
      /\ InitFact(e, step) /\ StepFits(e)
  BY InitEntry
<1>2. /\ given' = given
      /\ IF step = 26 THEN at' = "ready" /\ step' = 0 /\ parts' = {}
         ELSE step' = step + 1 /\ at' = at /\ parts' = parts
  BY CallNames, InitList DEF StepOk, Leave
<1>3. given \subseteq Given /\ parts \subseteq UriParts /\ Account(mem)
  BY DEF HandleInv, HandleTyped
<1> HIDE DEF e
<1>4. /\ Account(mem')
      /\ Skipped \/ e.do = "check" => mem' = mem
      /\ \A g \in Fields :
            g # e.field /\ ~(e.field = "list" /\ g \in Transports) => mem'[g] = mem[g]
      /\ ~Skipped /\ e.do = "new" /\ Exact(e.field) => One(mem'[e.field])
  BY <1>1, <1>3, StepOkMem DEF e
<1>5. /\ e.field \in Fields /\ e.field # "list"
      /\ step < 5 => e.field \notin ConfigFields
  BY <1>1 DEF InitFact, Transports
<1>6. \A g \in Fields : g # e.field => mem'[g] = mem[g]
  BY <1>4, <1>5
<1>7. Account(mem)'
  BY <1>2, <1>4, AccountNext
<1>8. ASSUME NEW f \in DOMAIN Place, step < Place[f] PROVE Empty(mem'[f])
  <2>1. Empty(mem[f]) /\ f \in Fields
    BY <1>1, <1>8, InitList, EssentialFields DEF HandleInv, Making
  <2>2. f # e.field \/ e.do = "check"
    BY <1>1, <1>8, InitList DEF InitFact
  <2> QED BY <1>4, <1>6, <2>1, <2>2
<1>9. ASSUME NEW f \in Essential, step >= Place[f] PROVE One(mem'[f])
  <2>1. f \in Fields /\ f \in DOMAIN Place /\ Place[f] \in 1..26 /\ Exact(f)
    BY InitList, EssentialFields
  <2>2. CASE step = Place[f]
    <3>0. e = New(f, {})
      BY <1>1, <1>9, <2>2, InitList
    <3>1. e.do = "new" /\ e.field = f /\ e.needs = {}
      BY <3>0 DEF New
    <3>2. ~Skipped
      BY <3>1 DEF Skipped, e
    <3> QED BY <1>4, <2>1, <3>1, <3>2
  <2>3. CASE step > Place[f]
    <3>1. One(mem[f])
      BY <2>3 DEF HandleInv, Making
    <3>2. f # e.field \/ e.do = "check"
      BY <1>1, <2>1, <2>3 DEF InitFact
    <3> QED BY <1>4, <1>6, <2>1, <3>1, <3>2
  <2> QED BY <1>1, <1>9, <2>1, <2>2, <2>3
<1>10. CASE step = 26
  <2>1. ASSUME NEW f \in Essential PROVE One(mem'[f])
    <3>1. f \in DOMAIN Place /\ Place[f] \in 1..26
      BY InitList, EssentialFields
    <3> QED BY <1>9, <1>10, <3>1
  <2>2. HandleTyped'
    BY <1>2, <1>3, <1>10, CallNames DEF HandleTyped
  <2> QED BY <1>2, <1>7, <1>10, <2>1, <2>2 DEF HandleInv, Making, Usable, Outside
<1>11. CASE step # 26
  <2>1. step' = step + 1 /\ at' = "init" /\ parts' = parts /\ step' \in 1..26
    BY <1>1, <1>2, <1>11
  <2>2. HandleTyped'
    BY <1>2, <1>3, <2>1, CallNames, InitList DEF HandleTyped
  <2>3. \A f \in DOMAIN Place : step' <= Place[f] => Empty(mem'[f])
    BY <1>1, <1>8, <2>1, InitList
  <2>4. \A f \in Essential : step' > Place[f] => One(mem'[f])
    BY <1>1, <1>9, <2>1, InitList, EssentialFields
  <2>5. step' <= 5 => \A f \in ConfigFields : Empty(mem'[f])
    <3>1. SUFFICES ASSUME step < 5, NEW f \in ConfigFields PROVE Empty(mem'[f])
      BY <1>1, <2>1
    <3>2. Empty(mem[f]) /\ f \in Fields
      BY <1>1, <3>1, FieldSets DEF HandleInv, Making
    <3> QED BY <1>5, <1>6, <3>1, <3>2
  <2>6. ASSUME "uri" \notin given'
        PROVE  parts' = {} /\ (step' <= 16 => Empty(mem'["host"]))
    <3>1. parts = {} /\ "uri" \notin given
      BY <1>2, <2>6 DEF HandleInv, Making
    <3>2. SUFFICES ASSUME step < 16 PROVE Empty(mem'["host"])
      BY <1>1, <2>1, <3>1
    <3>3. Empty(mem["host"]) /\ "host" \in Fields
      BY <1>1, <3>1, <3>2, FieldSets DEF HandleInv, Making, ConfigFields
    <3>4. CASE e.field = "host"
      <4>1. "host" \notin DOMAIN Place /\ "host" \notin {"user_info", "auth", "scheme"}
        BY DEF Place
      <4>2. e.do = "check" \/ e.needs = {"uri_host"}
        BY <1>1, <3>2, <3>4, <4>1 DEF InitFact, New, Drop
      <4>3. e.needs = {"uri_host"} => Skipped
        BY <1>3, <3>1, HandleAssumption DEF Skipped, e
      <4> QED BY <1>4, <3>3, <4>2, <4>3
    <3>5. CASE e.field # "host"
      BY <1>6, <3>3, <3>5
    <3> QED BY <3>4, <3>5
  <2>7. Making'
    BY <2>3, <2>4, <2>5, <2>6 DEF Making
  <2> QED BY <1>7, <2>1, <2>2, <2>7 DEF HandleInv, Usable, Outside
<1> QED BY <1>10, <1>11

LEMMA InitNotFound ==
    ASSUME HandleInv, at = "init", NotFound
    PROVE  HandleInv'
<1> DEFINE e == Step
           m == IF e.do = "check" THEN mem
                ELSE NoMem(Freed(mem, Old), e.field)
<1>1. /\ step \in 1..26 /\ InitFact(e, step) /\ StepFits(e)
  BY InitEntry
<1>2. /\ mem' = Destroyed(m)
      /\ given' = given /\ at' = "gone" /\ step' = 0 /\ parts' = {}
      /\ ~Skipped /\ e.do # "drop"
  BY DEF NotFound, GiveUp, Leave
<1>3. given \subseteq Given /\ Account(mem)
  BY DEF HandleInv, HandleTyped
<1> HIDE DEF e
<1>4. /\ Account(m)
      /\ e.do = "check" => m = mem
      /\ \A g \in Fields \ {e.field} : m[g] = mem[g]
      /\ e.do # "check" /\ Exact(e.field) => Empty(m[e.field])
  BY <1>1, <1>2, <1>3, NotFoundMem DEF e
<1> HIDE DEF m
<1>5. ASSUME m["config"].ptr = "null", NEW f \in ConfigFields, Exact(f)
      PROVE  Empty(m[f])
  <2>1. f \in Fields
    BY FieldSets
  <2>2. CASE step <= 5
    <3>1. Empty(mem[f])
      BY <2>2 DEF HandleInv, Making
    <3> QED BY <1>4, <1>5, <2>1, <3>1
  <2>3. CASE step > 5
    <3>1. One(mem["config"]) /\ "config" \in Fields
      BY <2>3, EssentialFields DEF HandleInv, Making
    <3>2. e.field # "config" \/ e.do = "check"
      BY <1>1, <2>3, EssentialFields DEF InitFact
    <3>3. m["config"] = mem["config"]
      BY <1>4, <3>1, <3>2
    <3> QED BY <1>5, <3>1, <3>3 DEF One
  <2> QED BY <1>1, <2>2, <2>3
<1>6. /\ Account(mem')
      /\ \A f \in Fields : mem'[f].ptr = "null" /\ (Exact(f) => Empty(mem'[f]))
  BY <1>2, <1>4, <1>5, DestroyedOk
<1>7. Account(mem)'
  BY <1>2, <1>6, AccountNext
<1>8. \A f : Exact(f)' = Exact(f)
  BY <1>2 DEF Exact
<1>9. HandleTyped'
  BY <1>2, <1>3, CallNames DEF HandleTyped
<1> QED BY <1>2, <1>6, <1>7, <1>8, <1>9 DEF HandleInv, Making, Usable, Outside

LEMMA StartStepOk ==
    ASSUME HandleInv, at = "start", StepOk
    PROVE  HandleInv'
<1> DEFINE e == Step
<1>1. step \in 1..6 /\ e = ClientStart[step] /\ StepFits(e)
  BY StartEntry
<1>2. /\ given' = given
      /\ IF step = 6 THEN at' = "running" /\ step' = 0 /\ parts' = {}
         ELSE step' = step + 1 /\ at' = at /\ parts' = parts
  BY CallNames, StartList DEF StepOk, Leave
<1>3. given \subseteq Given /\ parts \subseteq UriParts /\ Account(mem)
  BY DEF HandleInv, HandleTyped
<1> HIDE DEF e
<1>4. /\ Account(mem')
      /\ Skipped \/ e.do = "check" => mem' = mem
      /\ \A g \in Fields :
            g # e.field /\ ~(e.do = "drop" /\ e.field = "list" /\ g \in Transports) =>
               mem'[g] = mem[g]
      /\ ~Skipped /\ e.do = "new" /\ Exact(e.field) => One(mem'[e.field])
      /\ ~Skipped /\ e.do = "drop" /\ e.field = "list" =>
            \A g \in Transports : Empty(mem'[g])
  BY <1>1, <1>3, StepOkMem DEF e
<1>5. Account(mem)'
  BY <1>2, <1>4, AccountNext
<1>6. /\ step = 1 => e.do = "drop" /\ e.field = "list"
      /\ step \in 2..4 => /\ e.do = "new" /\ e.field \in Transports
                          /\ StartPlace[e.field] = step
      /\ step \in 5..6 => e.do = "check"
      /\ e.needs = {}
  BY <1>1, StartList DEF Drop, New, Check, StartPlace, Transports
<1>7. ~Skipped \/ e.do = "check"
  BY <1>1, <1>6 DEF Skipped, e
<1>8. /\ Transports = {"list", "tcp", "ws"}
      /\ \A f, g \in Transports : StartPlace[f] = StartPlace[g] => f = g
      /\ \A f \in Transports : StartPlace[f] \in 2..4 /\ Exact(f) /\ f \in Fields
  BY DEF Transports, Fields, StartPlace, Exact
<1>9. ASSUME NEW f \in Transports
      PROVE  /\ step < StartPlace[f] => Empty(mem'[f])
             /\ step >= StartPlace[f] => One(mem'[f])
  <2>1. CASE step = 1
    BY <1>4, <1>6, <1>7, <1>8, <2>1
  <2>2. CASE step = StartPlace[f]
    <3>1. e.do = "new" /\ e.field = f
      BY <1>6, <1>8, <2>2
    <3> QED BY <1>4, <1>7, <1>8, <2>2, <3>1
  <2>3. CASE step # 1 /\ step # StartPlace[f]
    <3>1. mem'[f] = mem[f]
      <4>1. f # e.field \/ e.do = "check"
        BY <1>1, <1>6, <2>3
      <4>2. ~(e.do = "drop" /\ e.field = "list")
        BY <1>1, <1>6, <2>3
      <4> QED BY <1>4, <1>8, <4>1, <4>2
    <3>2. /\ step <= StartPlace[f] => Empty(mem[f])
          /\ step > StartPlace[f] => One(mem[f])
      BY <1>1, <1>8, <2>3 DEF HandleInv, Usable
    <3> QED BY <1>1, <1>8, <2>3, <3>1, <3>2
  <2> QED BY <1>1, <2>1, <2>2, <2>3
<1>10. ASSUME NEW f \in Essential PROVE One(mem'[f])
  <2>1. One(mem[f]) /\ f \in Fields /\ f \notin Transports
    BY EssentialFields DEF HandleInv, Usable
  <2>2. e.do = "check" \/ e.field \in Transports
    BY <1>1, <1>6, <1>8
  <2> QED BY <1>4, <2>1, <2>2
<1>11. CASE step = 6
  <2>1. HandleTyped'
    BY <1>2, <1>3, <1>11, CallNames DEF HandleTyped
  <2>2. \A f \in Transports : One(mem'[f])
    BY <1>8, <1>9, <1>11
  <2> QED BY <1>2, <1>5, <1>10, <1>11, <2>1, <2>2 DEF HandleInv, Making, Usable, Outside
<1>12. CASE step # 6
  <2>1. step' = step + 1 /\ at' = "start" /\ parts' = parts /\ step' \in 1..6
    BY <1>1, <1>2, <1>12
  <2>2. HandleTyped'
    BY <1>2, <1>3, <2>1, CallNames, StartList DEF HandleTyped
  <2>3. \A f \in Transports :
           IF step' <= StartPlace[f] THEN Empty(mem'[f]) ELSE One(mem'[f])
    BY <1>1, <1>8, <1>9, <2>1
  <2>4. Usable'
    BY <1>10, <2>1, <2>3 DEF Usable
  <2> QED BY <1>5, <2>1, <2>2, <2>4 DEF HandleInv, Making, Outside
<1> QED BY <1>11, <1>12

LEMMA StartNotFound ==
    ASSUME HandleInv, at = "start", NotFound
    PROVE  HandleInv'
<1> DEFINE e == Step
           m == IF e.do = "check" THEN mem
                ELSE NoMem(Freed(mem, Old), e.field)
<1>1. step \in 1..6 /\ e = ClientStart[step] /\ StepFits(e)
  BY StartEntry
<1>2. /\ mem' = m
      /\ given' = given /\ at' = "ready" /\ step' = 0 /\ parts' = {}
      /\ ~Skipped /\ e.do # "drop"
  BY DEF NotFound, GiveUp, Leave
<1>3. given \subseteq Given /\ Account(mem)
  BY DEF HandleInv, HandleTyped
<1>4. e.field \in Transports \/ e.do = "check"
  BY <1>1, StartList DEF Drop, New, Check, Transports
<1> HIDE DEF e
<1>5. /\ Account(m)
      /\ e.do = "check" => m = mem
      /\ \A g \in Fields \ {e.field} : m[g] = mem[g]
  BY <1>1, <1>2, <1>3, NotFoundMem DEF e
<1> HIDE DEF m
<1>6. ASSUME NEW f \in Essential PROVE One(mem'[f])
  <2>1. One(mem[f]) /\ f \in Fields /\ f \notin Transports
    BY EssentialFields DEF HandleInv, Usable
  <2> QED BY <1>2, <1>4, <1>5, <2>1
<1>7. Account(mem)'
  BY <1>2, <1>5, AccountNext
<1>8. HandleTyped'
  BY <1>2, <1>3, CallNames DEF HandleTyped
<1> QED BY <1>2, <1>6, <1>7, <1>8 DEF HandleInv, Making, Usable, Outside

LEMMA RedirectOk ==
    ASSUME HandleInv, at = "redirect",
           StepOk \/ NotFound
    PROVE  HandleInv'
<1> DEFINE e == Step
<1>1. /\ step \in 1..9 /\ StepFits(e)
      /\ e.field \notin Essential \cup Transports \/ e.do = "check"
  BY RedirectEntry
<1>2. given \subseteq Given /\ parts \subseteq UriParts /\ Account(mem)
  BY DEF HandleInv, HandleTyped
<1>3. "list" \in Transports
  BY DEF Transports
<1>4. /\ Account(mem')
      /\ \A g \in Essential \cup Transports : mem'[g] = mem[g]
  <2>1. CASE StepOk
    <3>1. e = Step
      OBVIOUS
    <3> HIDE DEF e
    <3>2. /\ Account(mem')
          /\ e.do = "check" => mem' = mem
          /\ \A g \in Fields :
                g # e.field /\ ~(e.field = "list" /\ g \in Transports) =>
                   mem'[g] = mem[g]
      BY <1>1, <1>2, <2>1, <3>1, StepOkMem
    <3> QED BY <1>1, <1>3, <3>2, EssentialFields, FieldSets
  <2>2. CASE NotFound
    <3> DEFINE m == IF e.do = "check" THEN mem
                    ELSE NoMem(Freed(mem, Old), e.field)
    <3>1. mem' = m /\ ~Skipped /\ e.do # "drop"
      BY <2>2 DEF NotFound, GiveUp
    <3>2. e = Step
      OBVIOUS
    <3> HIDE DEF e
    <3>3. /\ Account(m)
          /\ e.do = "check" => m = mem
          /\ \A g \in Fields \ {e.field} : m[g] = mem[g]
      BY <1>1, <1>2, <3>1, <3>2, NotFoundMem
    <3> HIDE DEF m
    <3> QED BY <1>1, <3>1, <3>3, EssentialFields, FieldSets
  <2> QED BY <2>1, <2>2
<1>5. /\ given' = given
      /\ \/ at' = "running" /\ step' = 0 /\ parts' = {}
         \/ step # 9 /\ step' = step + 1 /\ at' = at /\ parts' = parts
  BY CallNames, RedirectList
     DEF StepOk, NotFound, GiveUp, Leave
<1>6. Account(mem)'
  BY <1>4, <1>5, AccountNext
<1>7. \A f \in Essential \cup Transports : One(mem'[f])
  BY <1>4 DEF HandleInv, Usable
<1>8. HandleTyped'
  <2>1. step # 9 /\ step' = step + 1 => step' \in 1..9
    BY <1>1
  <2> QED BY <1>2, <1>5, <2>1, CallNames, RedirectList DEF HandleTyped
<1> QED BY <1>5, <1>6, <1>7, <1>8 DEF HandleInv, Making, Usable, Outside

-----------------------------------------------------------------------------
(* The other actions *)

LEMMA BeginOk ==
    ASSUME HandleInv, InitCall \/ StartCall \/ Redirect
    PROVE  HandleInv'
<1>1. PICK name \in DOMAIN Calls, uriParts \in SUBSET UriParts :
         /\ given' = given /\ mem' = mem
         /\ at' = name /\ step' = 1 /\ parts' = uriParts
         /\ \/ name = "init" /\ at = "none" /\ ("uri" \in given \/ uriParts = {})
            \/ name = "start" /\ at = "ready"
            \/ name = "redirect" /\ at = "running"
  <2>1. CASE InitCall
    BY <2>1, CallNames DEF InitCall, Begin
  <2>2. CASE StartCall
    BY <2>2, CallNames DEF StartCall, Begin
  <2>3. CASE Redirect
    BY <2>3, CallNames DEF Redirect, Begin
  <2> QED BY <2>1, <2>2, <2>3
<1>2. Account(mem)'
  BY <1>1, AccountNext DEF HandleInv
<1>3. HandleTyped'
  <2>1. Len(Calls[name]) \in {26, 6, 9}
    BY <1>1, CallNames, InitList, StartList, RedirectList
  <2>2. PICK k \in {26, 6, 9} : k = Len(Calls[name])
    BY <2>1
  <2>3. 1 \in 1..k
    BY <2>2
  <2> QED BY <1>1, <2>2, <2>3 DEF HandleInv, HandleTyped
<1>4. Making'
  <2>1. CASE name = "init"
    <3>1. \A f \in Fields : Empty(mem'[f])
      BY <1>1, <2>1 DEF HandleInv, Outside
    <3>2. "host" \in Fields /\ \A f \in DOMAIN Place : Place[f] \in 1..26
      BY InitList DEF Fields, ConfigFields
    <3>3. \A f \in Essential : Place[f] \in 1..26
      BY <3>2, EssentialFields
    <3> QED BY <1>1, <2>1, <3>1, <3>2, <3>3, EssentialFields, FieldSets DEF Making
  <2> QED BY <1>1, <2>1 DEF Making
<1>5. Usable'
  <2>1. at \in {"ready", "running"} => \A f \in Essential : One(mem'[f])
    BY <1>1 DEF HandleInv, Usable
  <2>2. at = "running" => \A f \in Transports : One(mem'[f])
    BY <1>1 DEF HandleInv, Usable
  <2> QED BY <1>1, <2>1, <2>2 DEF Usable
<1> QED BY <1>1, <1>2, <1>3, <1>4, <1>5 DEF HandleInv, Outside

\* What is set in a handle that is in use, but for the pointers named here, may
\* be changed by any step that keeps the account.
LEMMA InUseOk ==
    ASSUME HandleInv, at \in {"ready", "running"}, UNCHANGED <<given, at, parts, step>>,
           NEW f \in {"headers", "errormsg_buffer"}, Account(mem'),
           \A g \in Fields \ {f} : mem'[g] = mem[g]
    PROVE  HandleInv'
<1>1. \A g \in Essential \cup Transports : mem'[g] = mem[g]
  BY EssentialFields, FieldSets
<1>2. Account(mem)'
  BY AccountNext
<1>3. HandleTyped'
  BY DEF HandleInv, HandleTyped
<1>4. Usable'
  BY <1>1 DEF HandleInv, Usable
<1> QED BY <1>2, <1>3, <1>4 DEF HandleInv, Making, Outside

LEMMA InUseNext ==
    ASSUME HandleInv, AppendHeader \/ Error \/ Abort
    PROVE  HandleInv'
<1>1. Account(mem) /\ "headers" \in Fields /\ "errormsg_buffer" \in Fields
  BY FieldSets DEF HandleInv
<1>2. ASSUME NEW f \in {"headers", "errormsg_buffer"},
             mem' = Got(Freed(mem, {f}), f)
      PROVE  Account(mem') /\ \A g \in Fields \ {f} : mem'[g] = mem[g]
  BY <1>1, <1>2, RenewOk
<1>3. ASSUME NEW f \in {"headers", "errormsg_buffer"},
             mem' = Cleared(Freed(mem, {f}), {f})
      PROVE  Account(mem') /\ \A g \in Fields \ {f} : mem'[g] = mem[g]
  BY <1>1, <1>3, DropOk
<1>4. CASE AppendHeader
  BY <1>2, <1>4, InUseOk DEF AppendHeader
<1>5. CASE Error
  <2>1. \/ mem' = Got(Freed(mem, {"errormsg_buffer"}), "errormsg_buffer")
        \/ mem' = Cleared(Freed(mem, {"errormsg_buffer"}), {"errormsg_buffer"})
    BY <1>5 DEF Error
  <2> QED BY <1>2, <1>3, <1>5, <2>1, InUseOk DEF Error
<1>6. CASE Abort
  BY <1>3, <1>6, InUseOk DEF Abort
<1> QED BY <1>4, <1>5, <1>6

LEMMA StopOk ==
    ASSUME HandleInv, Stop
    PROVE  HandleInv'
<1>1. at = "running" /\ at' = "ready" /\ UNCHANGED <<given, parts, step, mem>>
  BY DEF Stop
<1>2. Account(mem)'
  BY <1>1, AccountNext DEF HandleInv
<1>3. HandleTyped'
  BY <1>1, CallNames DEF HandleInv, HandleTyped
<1> QED BY <1>1, <1>2, <1>3 DEF HandleInv, Making, Usable, Outside

LEMMA DestroyOk ==
    ASSUME HandleInv, Destroy
    PROVE  HandleInv'
<1>1. /\ at = "ready" /\ at' = "gone" /\ mem' = Destroyed(mem)
      /\ UNCHANGED <<given, parts, step>>
  BY DEF Destroy
<1>2. Account(mem) /\ One(mem["config"])
  BY <1>1, EssentialFields DEF HandleInv, Usable
<1>3. /\ Account(mem')
      /\ \A f \in Fields : mem'[f].ptr = "null" /\ (Exact(f) => Empty(mem'[f]))
  BY <1>1, <1>2, DestroyedOk DEF One
<1>4. \A f : Exact(f)' = Exact(f)
  BY <1>1 DEF Exact
<1>5. Account(mem)'
  BY <1>1, <1>3, AccountNext
<1>6. HandleTyped'
  BY <1>1, CallNames DEF HandleInv, HandleTyped
<1> QED BY <1>1, <1>3, <1>4, <1>5, <1>6 DEF HandleInv, Making, Usable, Outside

LEMMA HandleNextOk ==
    ASSUME HandleInv, [HandleNext]_handle_vars
    PROVE  HandleInv'
<1>1. ASSUME StepOk \/ NotFound PROVE HandleInv'
  <2>1. at \in {"init", "start", "redirect"}
    BY <1>1, CallNames DEF StepOk, NotFound
  <2> QED BY <1>1, <2>1, InitStepOk, InitNotFound, StartStepOk, StartNotFound, RedirectOk
<1>2. CASE InitCall \/ StartCall \/ Redirect
  BY <1>2, BeginOk
<1>3. CASE AppendHeader \/ Error \/ Abort
  BY <1>3, InUseNext
<1>4. CASE Stop
  BY <1>4, StopOk
<1>5. CASE Destroy
  BY <1>5, DestroyOk
<1>6. CASE UNCHANGED handle_vars
  BY <1>6 DEF handle_vars, HandleInv, HandleTyped, Account, Exact, Making, Usable, Outside
<1> QED BY <1>1, <1>2, <1>3, <1>4, <1>5, <1>6 DEF HandleNext

\* Where set_uri stands in init and in a redirect.
LEMMA UserInfoPlaces ==
    /\ \A k \in 1..26 : ClientInit[k].field = "user_info" => k \in {12, 15}
    /\ ClientInit[12] = New("user_info", {"uri_userinfo"})
    /\ ClientInit[15] = Drop("user_info", {"uri_userinfo"})
    /\ \A k \in 1..9 : Redirected[k].field = "user_info" => k \in {6, 9}
    /\ Redirected[6] = New("user_info", {"uri_userinfo"})
    /\ Redirected[9] = Drop("user_info", {"uri_userinfo"})
    /\ \A k \in 1..6 : ClientStart[k].field # "user_info"
<1> USE DEF New, Renew, Drop, Check
<1>1. \A k \in 1..7 : SetUri[k].field = "user_info" => k \in {4, 7}
  BY DEF SetUri
<1>2. \A k \in 9..15 : ClientInit[k] = SetUri[k - 8]
  BY DEF ClientInit, SetUri, SetConfig
<1>3. \A k \in 3..9 : Redirected[k] = SetUri[k - 2]
  BY DEF Redirected, SetUri
<1>4. \A k \in 1..8 : ClientInit[k].field # "user_info"
  BY DEF ClientInit, SetUri, SetConfig
<1>5. \A k \in 16..22 : ClientInit[k].field # "user_info"
  <2>1. \A k \in 16..22 : ClientInit[k] = SetConfig[k - 15]
    BY DEF ClientInit, SetUri, SetConfig
  <2>2. \A k \in 1..7 : SetConfig[k].field # "user_info"
    BY DEF SetConfig
  <2> QED BY <2>1, <2>2
<1>6. \A k \in 23..26 : ClientInit[k].field # "user_info"
  BY DEF ClientInit, SetUri, SetConfig
<1>7. \A k \in 1..26 : ClientInit[k].field = "user_info" => k \in {12, 15}
  <2> SUFFICES ASSUME NEW k \in 1..26, ClientInit[k].field = "user_info"
               PROVE  k \in {12, 15}
    OBVIOUS
  <2>1. k \in 9..15 BY <1>4, <1>5, <1>6
  <2>2. SetUri[k - 8].field = "user_info" BY <1>2, <2>1
  <2> QED BY <1>1, <2>1, <2>2
<1>8. \A k \in 1..9 : Redirected[k].field = "user_info" => k \in {6, 9}
  <2> SUFFICES ASSUME NEW k \in 1..9, Redirected[k].field = "user_info"
               PROVE  k \in {6, 9}
    OBVIOUS
  <2>1. k \in 3..9 BY DEF Redirected, SetUri
  <2>2. SetUri[k - 2].field = "user_info" BY <1>3, <2>1
  <2> QED BY <1>1, <2>1, <2>2
<1>9. /\ SetUri[4] = New("user_info", {"uri_userinfo"})
      /\ SetUri[7] = Drop("user_info", {"uri_userinfo"})
  BY DEF SetUri
<1>10. \A k \in 1..6 : ClientStart[k].field # "user_info"
  BY DEF ClientStart
<1> QED BY <1>2, <1>3, <1>7, <1>8, <1>9, <1>10

\* Unless a call has broken off with it, the userinfo of an URI is there only
\* between its two places in set_uri.
InHand ==
    mem["user_info"].blocks > 0 /\ ~starved =>
        /\ One(mem["user_info"]) /\ "uri_userinfo" \in parts
        /\ \/ at = "init" /\ step \in 13..15
           \/ at = "redirect" /\ step \in 7..9

LEMMA ClearedAt ==
    ASSUME NEW m, NEW F, NEW f \in Fields,
           m[f] \in [ptr : {"null", "block", "freed"}, blocks : Int]
    PROVE  /\ Cleared(m, F)[f].blocks = m[f].blocks
           /\ m[f].ptr = "null" => Cleared(m, F)[f] = m[f]
<1>1. m[f].ptr = "null" => [m[f] EXCEPT !.ptr = "null"] = m[f] OBVIOUS
<1>2. Cleared(m, F)[f] = m[f] \/ Cleared(m, F)[f] = [m[f] EXCEPT !.ptr = "null"]
  BY DEF Cleared
<1> QED BY <1>1, <1>2

LEMMA InHandStepOk ==
    ASSUME HandleInv, InHand, StepOk, UNCHANGED starved
    PROVE  InHand'
<1> DEFINE e == Step
           u == "user_info"
<1>1. u \in Fields /\ u \notin Transports BY DEF Fields, Transports
<1>2. /\ mem[u].ptr \in {"null", "block"} /\ mem[u].blocks \in Nat
      /\ mem[u].ptr = "block" => mem[u].blocks > 0
  BY <1>1, Pointers DEF HandleInv, Account
<1>3. at \in {"init", "start", "redirect"} BY CallNames DEF StepOk
<1>4. /\ StepFits(e)
      /\ at = "init" => step \in 1..26 /\ e = ClientInit[step]
      /\ at = "start" => step \in 1..6 /\ e = ClientStart[step]
      /\ at = "redirect" => step \in 1..9 /\ e = Redirected[step]
  <2>1. at = "redirect" => step \in 1..9 /\ e = Redirected[step]
    BY CallNames, RedirectList DEF HandleInv, HandleTyped, Step
  <2> QED BY <1>3, <2>1, InitEntry, StartEntry, RedirectEntry
<1>5. \/ at = "init" /\ step \in {12, 15}
      \/ at = "redirect" /\ step \in {6, 9}
      \/ e.field # u
  BY <1>3, <1>4, UserInfoPlaces
<1>6. /\ (at = "init" /\ step = 12) \/ (at = "redirect" /\ step = 6) =>
            e = New(u, {"uri_userinfo"})
      /\ (at = "init" /\ step = 15) \/ (at = "redirect" /\ step = 9) =>
            e = Drop(u, {"uri_userinfo"})
  BY <1>4, UserInfoPlaces
<1>7. /\ at = "init" /\ step < 26 => at' = at /\ step' = step + 1 /\ parts' = parts
      /\ at = "redirect" /\ step < 9 => at' = at /\ step' = step + 1 /\ parts' = parts
  <2>1. IF step = Len(Calls[at])
        THEN Leave(IF at = "init" THEN "ready" ELSE "running")
        ELSE step' = step + 1 /\ UNCHANGED <<given, at, parts>>
    BY DEF StepOk
  <2>2. CASE at = "init" /\ step < 26
    <3>1. Len(Calls[at]) = 26 /\ step # 26 BY <2>2, CallNames, InitList
    <3> QED BY <2>1, <2>2, <3>1
  <2>3. CASE at = "redirect" /\ step < 9
    <3>1. Len(Calls[at]) = 9 /\ step # 9 BY <2>3, CallNames, RedirectList
    <3> QED BY <2>1, <2>3, <3>1
  <2> QED BY <2>2, <2>3
<1>8. ~Skipped /\ e.needs = {"uri_userinfo"} => "uri_userinfo" \in parts
  BY HandleAssumption DEF HandleInv, HandleTyped, Skipped
<1>9. Skipped /\ e = Drop(u, {"uri_userinfo"}) => "uri_userinfo" \notin parts
  BY DEF Skipped, Drop
<1>10. CASE e.field # u \/ Skipped
  <2>1. mem'[u] = mem[u]
    <3>1. Account(mem) /\ given \subseteq Given /\ parts \subseteq UriParts
      BY DEF HandleInv, HandleTyped
    <3> QED BY <1>1, <1>4, <1>10, <3>1, StepOkMem
  <2>2. SUFFICES ASSUME mem[u].blocks > 0, ~starved
                 PROVE  InHand'
    BY <2>1 DEF InHand
  <2>3. /\ One(mem[u]) /\ "uri_userinfo" \in parts
        /\ \/ at = "init" /\ step \in 13..15
           \/ at = "redirect" /\ step \in 7..9
    BY <2>2 DEF InHand
  <2>4. ~(at = "init" /\ step = 15) /\ ~(at = "redirect" /\ step = 9)
    BY <1>6, <1>9, <1>10, <2>3 DEF Drop
  <2> QED BY <1>7, <2>1, <2>3, <2>4 DEF InHand, One
<1>11. CASE e.field = u /\ ~Skipped
  <2>1. CASE (at = "init" /\ step = 12) \/ (at = "redirect" /\ step = 6)
    <3>1. e.do = "new" /\ e.needs = {"uri_userinfo"} BY <1>6, <2>1 DEF New
    <3>2. mem' = Got(Freed(mem, {}), u) BY <1>11, <3>1 DEF StepOk, Old
    <3>3. mem'[u].ptr = "block" /\ mem'[u].blocks = mem[u].blocks + 1
      <4>1. Account(mem) BY DEF HandleInv
      <4>2. Freed(mem, {})[u] = mem[u] BY <1>1, <4>1, FreedAt
      <4> QED BY <1>1, <3>2, <4>1, <4>2, GotAt
    <3>4. starved \/ mem[u].blocks = 0 BY <1>2, <2>1 DEF InHand
    <3>5. "uri_userinfo" \in parts BY <1>8, <1>11, <3>1
    <3> QED BY <1>7, <2>1, <3>3, <3>4, <3>5 DEF InHand, One
  <2>2. CASE (at = "init" /\ step = 15) \/ (at = "redirect" /\ step = 9)
    <3>1. e.do = "drop" BY <1>6, <2>2 DEF Drop
    <3>2. mem' = Cleared(Freed(mem, {u}), {u}) BY <1>11, <3>1 DEF StepOk, Old
    <3>3. Account(mem) /\ mem[u] \in [ptr : {"null", "block"}, blocks : Nat]
      BY <1>1 DEF HandleInv, Account, Mems
    <3>4. CASE mem[u].ptr = "null"
      <4>1. ~(mem[u].blocks > 0) \/ starved BY <3>4 DEF InHand, One
      <4>2. Freed(mem, {u})[u] = mem[u] BY <1>1, <3>3, <3>4, FreedAt
      <4>3. mem[u] \in [ptr : {"null", "block", "freed"}, blocks : Int] BY <3>3
      <4>4. mem'[u].blocks = mem[u].blocks BY <1>1, <3>2, <4>2, <4>3, ClearedAt
      <4> QED BY <4>1, <4>4 DEF InHand
    <3>5. CASE mem[u].ptr = "block"
      <4>1. mem[u].blocks = 1 \/ starved BY <1>2, <3>5 DEF InHand, One
      <4>2. Freed(mem, {u})[u] = [ptr |-> "freed", blocks |-> mem[u].blocks - 1]
        BY <1>1, <3>3, <3>5, FreedAt
      <4>3. mem[u].blocks - 1 \in Int BY <1>2
      <4>4. mem'[u].blocks = mem[u].blocks - 1 BY <1>1, <3>2, <4>2, <4>3, ClearedAt
      <4> QED BY <4>1, <4>4 DEF InHand
    <3> QED BY <1>2, <3>4, <3>5
  <2> QED BY <1>5, <1>11, <2>1, <2>2
<1> QED BY <1>10, <1>11

LEMMA InHandNext ==
    ASSUME HandleInv, InHand, [HandleNext]_handle_vars
    PROVE  InHand'
<1> DEFINE u == "user_info"
<1>1. u \in Fields /\ u \notin Transports \cup ConfigFields
  BY DEF Fields, Transports, ConfigFields
<1>2. /\ mem[u].ptr \in {"null", "block"} /\ mem[u].blocks \in Nat
      /\ mem[u].ptr = "block" => mem[u].blocks > 0
  BY <1>1, Pointers DEF HandleInv, Account
<1>3. \A F : mem[u].ptr = "null" \/ u \notin F => Freed(mem, F)[u] = mem[u]
  BY <1>1 DEF Freed
<1>4. mem[u] \in [ptr : {"null", "block"}, blocks : Nat]
  BY <1>1 DEF HandleInv, Account, Mems
<1>5. ASSUME NEW m, NEW F, NEW G, m[u] = mem[u], mem[u].ptr = "null" \/ u \notin F
      PROVE  Cleared(Freed(m, F), G)[u].blocks = mem[u].blocks
  <2>1. Freed(m, F)[u] = mem[u] BY <1>1, <1>5 DEF Freed
  <2>2. mem[u] \in [ptr : {"null", "block", "freed"}, blocks : Int] BY <1>4
  <2> QED BY <1>1, <2>1, <2>2, ClearedAt
<1>6. CASE NotFound
  <2>1. CASE starved \/ mem[u].blocks > 0
    <3>1. starved'
      BY <1>6, <2>1 DEF NotFound, InHand, One
    <3> QED BY <3>1 DEF InHand
  <2>2. CASE ~starved /\ ~(mem[u].blocks > 0)
    <3>1. mem[u].ptr = "null" /\ mem[u].blocks = 0 BY <1>2, <2>2
    <3>2. PICK m : /\ m = mem \/ m = NoMem(Freed(mem, Old), Step.field)
                   /\ mem' = m \/ mem' = Destroyed(m)
      BY <1>6 DEF NotFound, GiveUp
    <3>3. m[u] = mem[u]
      <4>1. mem[u] = [ptr |-> "null", blocks |-> 0] BY <1>4, <3>1
      <4>2. Freed(mem, Old)[u] = mem[u] BY <1>3, <3>1
      <4>3. NoMem(Freed(mem, Old), Step.field)[u] = mem[u]
        <5>1. Freed(mem, Old)[u] \in [ptr : {"null", "block", "freed"}, blocks : Int]
          BY <4>1, <4>2
        <5> QED BY <1>1, <3>1, <4>2, <5>1, ClearedAt DEF NoMem
      <4> QED BY <3>2, <4>3
    <3>4. mem'[u].blocks = 0 BY <1>5, <3>1, <3>2, <3>3 DEF Destroyed
    <3> QED BY <3>4 DEF InHand
  <2> QED BY <2>1, <2>2
<1>7. CASE StepOk /\ UNCHANGED starved BY <1>7, InHandStepOk
<1>8. CASE /\ InitCall \/ StartCall \/ Redirect \/ AppendHeader \/ Error \/ Abort \/ Stop \/ Destroy
           /\ UNCHANGED starved
  <2>1. at \in {"none", "ready", "running"}
    BY <1>8 DEF InitCall, StartCall, Redirect, AppendHeader, Error, Abort, Stop, Destroy
  <2>2. mem'[u].blocks = mem[u].blocks
    <3>1. CASE InitCall \/ StartCall \/ Redirect \/ Stop
      BY <3>1 DEF InitCall, StartCall, Redirect, Stop, Begin
    <3>2. CASE AppendHeader BY <1>1, <1>3, <3>2 DEF AppendHeader, Got
    <3>3. CASE Error
      <4>1. u \notin {"errormsg_buffer"} OBVIOUS
      <4>2. Got(Freed(mem, {"errormsg_buffer"}), "errormsg_buffer")[u] = mem[u]
        BY <1>1, <1>3, <4>1 DEF Got, Freed
      <4> QED BY <1>5, <3>3, <4>1, <4>2 DEF Error
    <3>4. CASE Abort
      <4>1. u \notin {"errormsg_buffer"} OBVIOUS
      <4> QED BY <1>5, <3>4, <4>1 DEF Abort
    <3>5. CASE Destroy
      <4>1. mem' = Destroyed(mem) BY <3>5 DEF Destroy
      <4> QED BY <1>1, <1>5, <4>1 DEF Destroyed
    <3> QED BY <1>8, <3>1, <3>2, <3>3, <3>4, <3>5
  <2> QED BY <1>8, <2>1, <2>2 DEF InHand
<1>9. CASE UNCHANGED handle_vars BY <1>9 DEF handle_vars, InHand
<1> QED BY <1>6, <1>7, <1>8, <1>9 DEF HandleNext

\* Whatever a configuration sets, whatever URI it or a redirect names and
\* whichever allocation fails: pointers and the blocks alive for them agree, and
\* each step of init and of start finds what the steps before it have set; the
\* userinfo of an URI outlives set_uri only in a call that broke off inside.
THEOREM HandleInvariant == HandleSpec => [](HandleInv /\ InHand)
<1>1. HandleInit => HandleInv /\ InHand
  <2>1. HandleInit => InHand BY DEF HandleInit, InHand, Fields
  <2> QED BY <2>1, HandleInitOk
<1>2. HandleInv /\ InHand /\ [HandleNext]_handle_vars => HandleInv' /\ InHand'
  BY HandleNextOk, InHandNext
<1> QED BY <1>1, <1>2, PTL DEF HandleSpec

LEMMA HandleSafe ==
    ASSUME HandleInv, InHand
    PROVE  NoDanglingPointer /\ AllGivenBack
<1>1. \A f \in Fields : mem[f].ptr \in {"null", "block"}
  BY Pointers DEF HandleInv
<1>2. at \in {"ready", "running"} => \A f \in Essential : mem[f].ptr = "block"
  BY DEF HandleInv, Usable, One
<1>3. at = "running" => \A f \in Transports : mem[f].ptr = "block"
  BY DEF HandleInv, Usable, One
<1>4. NoDanglingPointer
  BY <1>1, <1>2, <1>3 DEF NoDanglingPointer, Essential
<1>5. ASSUME at = "gone", NEW f \in Fields, mem[f].blocks > 0
      PROVE  \/ f = "host" /\ {"host", "uri"} \subseteq given
             \/ f = "user_info" /\ starved
  <2>1. ~Exact(f)
    BY <1>5 DEF HandleInv, Outside, Empty
  <2> QED BY <1>5, <2>1 DEF Exact, InHand
<1> QED BY <1>4, <1>5 DEF AllGivenBack

\* No pointer of a handle is left to a freed block when a call returns, none is
\* freed twice by init, set_uri, set_config, start, a redirect, the error message
\* or destroy, and a handle in use has the parts its task uses unasked.
THEOREM NoPointerDangles == HandleSpec => []NoDanglingPointer
<1>1. HandleInv /\ InHand => NoDanglingPointer
  BY HandleSafe
<1> QED BY <1>1, HandleInvariant, PTL

\* A failed init and destroy give every block back, but for the host named twice
\* and the userinfo of an URI that a call had in hand when it broke off.
THEOREM MemoryGivenBack == HandleSpec => []AllGivenBack
<1>1. HandleInv /\ InHand => AllGivenBack
  BY HandleSafe
<1> QED BY <1>1, HandleInvariant, PTL
=============================================================================
