------------------------------ MODULE WsMessages ------------------------------
(***************************************************************************)
(* Both directions of one connection: the tasks that send (WsSend), and    *)
(* the client's task, which receives a message under the same lock and     *)
(* hands it to the handler piece by piece (ReplyBuffer).                   *)
(***************************************************************************)
EXTENDS WsSend, ReplyBuffer

both == <<send_vars, vars>>

BothInit == SendInit /\ Init

Receive ==         \* esp_websocket_client_recv begins
    /\ holder = "none" /\ state = "connected"
    /\ holder' = "task"
    /\ \E len \in 0..MaxLen : NewMessage(len)
    /\ UNCHANGED <<state, call, wire, torn>>

Piece ==           \* one read of at most a buffer
    /\ holder = "task"
    /\ \E n \in 1..BufferSize : AppendData(n)
    /\ UNCHANGED send_vars

ReadFailed ==
    /\ holder = "task"
    /\ state' = IF state = "connected" THEN "down" ELSE state
    /\ holder' = "none"
    /\ UNCHANGED <<call, wire, torn, vars>>

Received ==        \* a CLOSE of the server's changes the state
    /\ holder = "task" /\ payload_offset >= payload_len
    /\ holder' = "none"
    /\ state' = state \/ state' = "closing"
    /\ UNCHANGED <<call, wire, torn, vars>>

BothNext ==
    \/ (SendStep \/ Connect \/ Lose \/ Closed) /\ UNCHANGED vars
    \/ Receive \/ Piece \/ ReadFailed \/ Received

BothSpec == BothInit /\ [][BothNext]_both
=============================================================================
