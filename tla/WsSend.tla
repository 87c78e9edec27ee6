-------------------------------- MODULE WsSend --------------------------------
(***************************************************************************)
(* esp_websocket_client_send_with_exact_opcode: how a message becomes      *)
(* frames on the connection while other tasks send, and the client's own   *)
(* task loses, closes and makes the connection.                            *)
(*                                                                         *)
(* A frame is the part of its message it carries; wire holds the data      *)
(* frames since the last one that began a message behind a finished one    *)
(* (control frames are left out: they may stand between any two).  All     *)
(* calls are whole messages (send_text, send_bin: the opcode has FIN set). *)
(***************************************************************************)
EXTENDS Integers, Sequences

CONSTANTS
    Senders,     \* tasks that call send
    BufferSize,  \* client->buffer_size (1024)
    Lengths      \* lengths of the messages sent

ASSUME SendAssumption ==
    /\ {"none", "task"} \cap Senders = {}
    /\ BufferSize \in Nat \ {0} /\ Lengths \subseteq Nat

VARIABLES
    state,       \* client->state: "connected", "closing", or "down"
    holder,      \* who holds client->lock: a sender, "task" or "none"
    call,        \* per sender: where it is, and len, widx and opcode
    wire,        \* history: the frames of the message sent last
    torn         \* history: a frame of this connection was written in part

send_vars == <<state, holder, call, wire, torn>>

Idle == [at |-> "idle", len |-> 0, widx |-> 0, opcode |-> FALSE]

SendInit ==
    /\ state = "down" /\ holder = "none"
    /\ call = [s \in Senders |-> Idle]
    /\ wire = <<>> /\ torn = FALSE

Finished == wire = <<>> \/ wire[Len(wire)].fin

Put(frame) == wire' = IF Finished THEN <<frame>> ELSE Append(wire, frame)

Send(s, n) ==      \* the connection is looked at without the lock
    /\ call[s].at = "idle" /\ state = "connected"
    /\ call' = [call EXCEPT ![s] = [at |-> "lock", len |-> n, widx |-> 0, opcode |-> TRUE]]
    /\ UNCHANGED <<state, holder, wire, torn>>

Lock(s) ==
    /\ call[s].at = "lock" /\ holder = "none"
    /\ holder' = s
    /\ call' = [call EXCEPT ![s].at = "write"]
    /\ UNCHANGED <<state, wire, torn>>

LockTimeout(s) ==
    /\ call[s].at = "lock" /\ holder # "none"
    /\ call' = [call EXCEPT ![s] = Idle]
    /\ UNCHANGED <<state, holder, wire, torn>>

More(c) == c.widx < c.len \/ c.opcode

\* Does what is left fit in one frame, which gets FIN then?
Fits(c) == c.len - c.widx <= BufferSize

NeedWrite(c) == IF Fits(c) THEN c.len - c.widx ELSE BufferSize

\* Mutant: every frame begins a message.
AfterFrameKeepsOpcode(c, n) ==
    [at |-> c.at, len |-> c.len, widx |-> c.widx + n, opcode |-> c.widx + n < c.len]

\* The frames behind the first are continuations.
AfterFrame(c, n) ==
    [at |-> c.at, len |-> c.len, widx |-> c.widx + n, opcode |-> FALSE]

Write(s, n) ==     \* esp_transport_ws_send_raw takes n bytes, perhaps not all
    LET c == call[s] IN
    /\ c.at = "write" /\ More(c) /\ state # "down"
    /\ n <= NeedWrite(c) /\ (n = 0 => NeedWrite(c) = 0)
    /\ Put([first |-> c.opcode, fin |-> Fits(c), from |-> c.widx, to |-> c.widx + n])
    /\ torn' = (torn \/ n < NeedWrite(c))
    /\ call' = [call EXCEPT ![s] = AfterFrame(c, n)]
    /\ UNCHANGED <<state, holder>>

\* Mutant: the call fails and the connection stays.
WriteFailedOnly(s) ==
    /\ call[s].at = "write" /\ More(call[s])
    /\ holder' = "none"
    /\ call' = [call EXCEPT ![s] = Idle]
    /\ UNCHANGED <<state, wire, torn>>

WriteFailed(s) ==  \* abort_connection, which leaves a closing one alone
    /\ call[s].at = "write" /\ More(call[s])
    /\ state' = IF state = "connected" THEN "down" ELSE state
    /\ holder' = "none"
    /\ call' = [call EXCEPT ![s] = Idle]
    /\ UNCHANGED <<wire, torn>>

Return(s) ==       \* widx
    /\ call[s].at = "write" /\ ~More(call[s])
    /\ holder' = "none"
    /\ call' = [call EXCEPT ![s] = Idle]
    /\ UNCHANGED <<state, wire, torn>>

Connect ==
    /\ holder = "none" /\ state = "down"
    /\ state' = "connected" /\ wire' = <<>> /\ torn' = FALSE
    /\ UNCHANGED <<holder, call>>

Lose ==            \* the poll failed or no PONG came in time
    /\ holder = "none" /\ state = "connected"
    /\ state' = "down"
    /\ UNCHANGED <<holder, call, wire, torn>>

Closed ==          \* the task ends and closes the transport without the lock
    /\ state = "closing"
    /\ state' = "down"
    /\ UNCHANGED <<holder, call, wire, torn>>

SendStep ==
    \E s \in Senders :
        \/ \E n \in Lengths : Send(s, n)
        \/ Lock(s) \/ LockTimeout(s)
        \/ \E n \in 0..BufferSize : Write(s, n)
        \/ WriteFailed(s) \/ Return(s)

-----------------------------------------------------------------------------
(* Properties *)

\* Until the server closes, frames written whole make up messages: the first has
\* an opcode and the others continue it where the one before stopped, none is
\* larger than the buffer, and nobody's frames come between.
FramesFormMessages ==
    state = "connected" /\ ~torn =>
        \A i \in 1..Len(wire) :
            /\ wire[i].first <=> i = 1
            /\ wire[i].from = IF i = 1 THEN 0 ELSE wire[i - 1].to
            /\ wire[i].to - wire[i].from <= BufferSize

\* A call that is about to return success has sent all its data and FIN, and a
\* connection on which a message was broken off is not sent on again.
NothingHalfSent ==
    ~torn =>
        /\ holder = "none" /\ state = "connected" => Finished
        /\ \A s \in Senders :
              call[s].at = "write" /\ ~More(call[s]) =>
                  Finished /\ wire[Len(wire)].to = call[s].len
=============================================================================
