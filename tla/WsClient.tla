------------------------------ MODULE WsClient ------------------------------
(***************************************************************************)
(* esp_websocket_client.c as the firmware uses it: the client's own task   *)
(* (esp_websocket_client_task) and one application task calling start,     *)
(* send, stop and destroy.  Both tasks dispatch events through an event    *)
(* loop whose queue holds one event; the handler of an event runs in       *)
(* whichever of the two tasks takes it from the queue.                     *)
(*                                                                         *)
(* Build configuration of sdkconfig: one recursive lock (no separate TX    *)
(* lock), static buffers.  Client configuration of main.c: auto_reconnect, *)
(* no close_reconnect, a ws:// URI that always yields a transport.         *)
(* What the network does is a nondeterministic choice; of a payload only   *)
(* the number of bytes is kept.                                            *)
(*                                                                         *)
(* This module has the actions; modules that use the client supply the     *)
(* event handler and the order of calls (VoiceSession).                    *)
(***************************************************************************)
EXTENDS Naturals, Sequences

CONSTANTS
    BufSize,       \* config->buffer_size (1024)
    MaxLen,        \* longest message received, in bytes; a bound for TLC
    PromptStart    \* TRUE: a task just made ready runs its next lines before
                   \* the other has waited 10 s or has gone through a whole
                   \* connection; FALSE: it may be kept from the CPU for longer

ASSUME BufSizeAssumption == BufSize \in Nat \ {0}
ASSUME MaxLenAssumption == MaxLen \in Nat \ {0}
ASSUME PromptStartAssumption == PromptStart \in BOOLEAN

VARIABLES
    state,       \* client->state
    run,         \* client->run
    status,      \* client->status_bits
    wait_pong,   \* client->wait_for_pong_resp
    transport,   \* "open" while a connection is up
    lock,        \* holder of client->lock: "none", "ws", "app"
    queue,       \* the event loop's queue, at most one event
    disp,        \* per task: where its esp_websocket_client_dispatch_event is
    rx,          \* the message being received: opcode, length, payload_offset
    ws_pc,       \* where esp_websocket_client_task is
    ws_back,     \* where it goes on after a receive or an abort
    call,        \* where the application's API call is, "none" outside calls
    ret          \* result of the last API call: "ok" or "fail"

client  == <<state, run, status, wait_pong, transport>>
loop    == <<queue, disp>>
wsTask  == <<rx, ws_pc, ws_back>>
appCall == <<call, ret>>
wsVars  == <<client, lock, loop, wsTask, appCall>>

Tasks == {"ws", "app"}
States == {"UNKNOW", "INIT", "CONNECTED", "WAIT_TIMEOUT", "CLOSING"}
Opcodes == {"text", "ping", "pong", "close"}
Plain == {"BEGIN", "BEFORE_CONNECT", "CONNECTED", "ERROR", "DISCONNECTED",
          "CLOSED", "FINISH"}

\* An event as posted; only DATA events carry a payload: n of the len bytes
\* of a message, from offset off.
Event(name) == [name |-> name, op |-> "none", off |-> 0, len |-> 0, n |-> 0]
Data(op, off, len, n) ==
    [name |-> "DATA", op |-> op, off |-> off, len |-> len, n |-> n]
Events == [name : Plain \cup {"DATA"}, op : Opcodes \cup {"none"},
           off : 0..MaxLen, len : 0..MaxLen, n : 0..BufSize]

NoRx == [op |-> "none", len |-> 0, off |-> 0]
NoEvent == Event("FINISH")
Quiet == [stage |-> "off", ev |-> NoEvent]

WsStates ==
    {"absent", "enter", "init", "loop", "lock", "switch", "connect", "pending",
     "abort", "aborted", "recv", "recv_next", "recv_done", "relock", "unlock", "select",
     "poll", "lock_err", "lock_recv", "finish", "leave", "forget", "mark",
     "gone"}
CallStates ==
    {"none", "start_create", "start_clear",
     "send_check", "send_lock", "send_write", "send_abort", "send_aborted",
     "send_unlock",
     "stop_check", "stop_run", "stop_bit", "stop_wait",
     "destroy_check", "destroy_run", "destroy_bit", "destroy_wait", "destroy_free"}

WsTypeOK ==
    /\ state \in States /\ run \in BOOLEAN
    /\ status \subseteq {"STOPPED", "CLOSE_SENT", "REQUESTED_STOP"}
    /\ wait_pong \in BOOLEAN /\ transport \in {"open", "closed"}
    /\ lock \in {"none", "ws", "app"}
    /\ queue \in Seq(Events) /\ Len(queue) <= 1
    /\ disp \in [Tasks -> [stage : {"off", "post", "drain", "handle"}, ev : Events]]
    /\ rx \in [op : Opcodes \cup {"none"}, len : 0..MaxLen, off : 0..MaxLen]
    /\ ws_pc \in WsStates /\ ws_back \in {"select", "loop", "relock"}
    /\ call \in CallStates /\ ret \in {"ok", "fail"}

\* esp_websocket_client_init has succeeded.
WsInit ==
    /\ state = "UNKNOW" /\ run = FALSE /\ status = {"STOPPED"}
    /\ wait_pong = FALSE /\ transport = "closed"
    /\ lock = "none"
    /\ queue = <<>> /\ disp = [t \in Tasks |-> Quiet]
    /\ rx = NoRx /\ ws_pc = "absent" /\ ws_back = "select"
    /\ call = "none" /\ ret = "ok"

\* A new handle from esp_websocket_client_init.
WsRenew ==
    /\ state' = "UNKNOW" /\ run' = FALSE /\ status' = {"STOPPED"}
    /\ wait_pong' = FALSE /\ transport' = "closed"
    /\ lock' = "none"
    /\ queue' = <<>> /\ disp' = [t \in Tasks |-> Quiet]
    /\ rx' = NoRx /\ ws_pc' = "absent" /\ ws_back' = "select"
    /\ call' = "none" /\ ret' = "ok"

-----------------------------------------------------------------------------
(* Event dispatch: post to the queue (blocking while it is full), then run  *)
(* the loop until the queue is empty.                                       *)

Dispatch(t, e) == disp' = [disp EXCEPT ![t] = [stage |-> "post", ev |-> e]]
At(t) == disp[t].stage = "off"     \* the task is not inside a dispatch

\* esp_websocket_client_error: without memory for the message, no event.
Error(t) == Dispatch(t, Event("ERROR")) \/ UNCHANGED disp

Post(t) ==
    /\ disp[t].stage = "post" /\ queue = <<>>
    /\ queue' = <<disp[t].ev>>
    /\ disp' = [disp EXCEPT ![t].stage = "drain"]
    /\ UNCHANGED <<client, lock, wsTask, appCall>>

Take(t) ==         \* one event leaves the queue, whoever posted it
    /\ disp[t].stage = "drain" /\ queue # <<>>
    /\ disp' = [disp EXCEPT ![t] = [stage |-> "handle", ev |-> Head(queue)]]
    /\ queue' = Tail(queue)
    /\ UNCHANGED <<client, lock, wsTask, appCall>>

Handled(t) ==      \* the registered handler has run on disp[t].ev
    /\ disp[t].stage = "handle"
    /\ disp' = [disp EXCEPT ![t].stage = "drain"]
    /\ UNCHANGED <<client, lock, queue, wsTask, appCall>>

Drained(t) ==
    /\ disp[t].stage = "drain" /\ queue = <<>>
    /\ disp' = [disp EXCEPT ![t] = Quiet]
    /\ UNCHANGED <<client, lock, queue, wsTask, appCall>>

\* esp_websocket_client_abort_connection by a task that holds the lock, unless
\* the connection is on its way out already.  First the transport is closed;
\* only behind that call the state tells.
Abortable == state \notin {"CLOSING", "UNKNOW", "WAIT_TIMEOUT"}

AbortClose ==
    /\ transport' = "closed"
    /\ UNCHANGED <<state, run, status, wait_pong>>

\* Mutant: the state is left as it was when the connection is aborted.
AbortTellKeepsState(t) ==
    /\ Dispatch(t, Event("DISCONNECTED"))
    /\ UNCHANGED client

AbortTell(t) ==
    /\ state' = "WAIT_TIMEOUT"
    /\ Dispatch(t, Event("DISCONNECTED"))
    /\ UNCHANGED <<run, status, wait_pong, transport>>

-----------------------------------------------------------------------------
(* esp_websocket_client_task *)

WsAt(l) == ws_pc = l /\ At("ws")
Goto(l) == ws_pc' = l

Enter ==
    /\ WsAt("enter") /\ Goto("init")
    /\ run' = TRUE
    /\ UNCHANGED <<state, status, wait_pong, transport, lock, loop, rx, ws_back, appCall>>

EnterInit ==
    /\ WsAt("init") /\ Goto("loop")
    /\ state' = "INIT"
    /\ status' = status \ {"STOPPED", "CLOSE_SENT"}
    /\ Dispatch("ws", Event("BEGIN"))
    /\ UNCHANGED <<run, wait_pong, transport, lock, queue, rx, ws_back, appCall>>

Loop ==            \* while (client->run)
    /\ WsAt("loop")
    /\ \/ run /\ Goto("lock") /\ UNCHANGED disp
       \/ ~run /\ Goto("leave") /\ Dispatch("ws", Event("FINISH"))
    /\ UNCHANGED <<client, lock, queue, rx, ws_back, appCall>>

TakeLock(from, to) ==
    /\ WsAt(from) /\ Goto(to)
    /\ lock = "none" /\ lock' = "ws"

LoopLock ==
    /\ TakeLock("lock", "switch")
    /\ UNCHANGED <<client, loop, rx, ws_back, appCall>>

SwitchInit ==
    /\ WsAt("switch") /\ state = "INIT" /\ Goto("connect")
    /\ Dispatch("ws", Event("BEFORE_CONNECT"))
    /\ UNCHANGED <<client, lock, queue, rx, ws_back, appCall>>

ConnectOk ==
    /\ WsAt("connect") /\ Goto("pending")
    /\ state' = "CONNECTED" /\ transport' = "open" /\ wait_pong' = FALSE
    /\ Dispatch("ws", Event("CONNECTED"))
    /\ UNCHANGED <<run, status, lock, queue, rx, ws_back, appCall>>

ConnectRedirect ==   \* a 3xx answer: the state stays INIT, the loop tries again
    /\ WsAt("connect") /\ Goto("unlock")
    /\ UNCHANGED <<client, lock, loop, rx, ws_back, appCall>>

ConnectFail ==
    /\ WsAt("connect") /\ Goto("abort")
    /\ ws_back' = "select"
    /\ Error("ws")
    /\ UNCHANGED <<client, lock, queue, rx, appCall>>

Pending ==         \* data that came with the handshake is received at once
    /\ WsAt("pending")
    /\ \/ Goto("unlock") /\ UNCHANGED ws_back
       \/ Goto("recv") /\ ws_back' = "relock"
    /\ UNCHANGED <<client, lock, loop, rx, appCall>>

Relock ==          \* after one run of the event loop without the lock
    /\ TakeLock("relock", "unlock")
    /\ UNCHANGED <<client, loop, rx, ws_back, appCall>>

SwitchConnected == \* maybe PING, maybe find the PONG overdue
    /\ WsAt("switch") /\ state = "CONNECTED" /\ "CLOSE_SENT" \notin status
    /\ wait_pong' \in {wait_pong, TRUE}
    /\ \/ Goto("unlock") /\ UNCHANGED <<disp, ws_back>>
       \/ /\ wait_pong'
          /\ Goto("abort") /\ ws_back' = "select"
          /\ Error("ws")
    /\ UNCHANGED <<state, run, status, transport, lock, queue, rx, appCall>>

SwitchWait ==      \* the reconnect delay has passed, or not yet
    /\ WsAt("switch") /\ state = "WAIT_TIMEOUT" /\ Goto("unlock")
    /\ state' \in {"WAIT_TIMEOUT", "INIT"}
    /\ UNCHANGED <<run, status, wait_pong, transport, lock, loop, rx, ws_back, appCall>>

SwitchClosing ==   \* echo the server's close frame
    /\ WsAt("switch") /\ state = "CLOSING" /\ Goto("unlock")
    /\ status' = status \cup {"CLOSE_SENT"}
    /\ UNCHANGED <<state, run, wait_pong, transport, lock, loop, rx, ws_back, appCall>>

GotoBack == Goto(IF ws_back = "loop" THEN "recv_done" ELSE "unlock")

AbortWs ==
    /\ WsAt("abort")
    /\ \/ Abortable /\ AbortClose /\ Goto("aborted")
       \/ ~Abortable /\ UNCHANGED client /\ GotoBack
    /\ UNCHANGED <<lock, loop, rx, ws_back, appCall>>

AbortedWs ==
    /\ WsAt("aborted") /\ GotoBack
    /\ AbortTell("ws")
    /\ UNCHANGED <<lock, queue, rx, ws_back, appCall>>

Unlock ==
    /\ WsAt("unlock") /\ Goto("select")
    /\ lock' = "none"
    /\ UNCHANGED <<client, loop, rx, ws_back, appCall>>

Select ==          \* what to do without the lock, by the state just left
    /\ WsAt("select")
    /\ Goto(IF state = "CONNECTED" THEN "poll" ELSE "loop")
    /\ ~(state = "CLOSING" /\ "CLOSE_SENT" \in status)
    /\ UNCHANGED <<client, lock, loop, rx, ws_back, appCall>>

SelectClosed ==    \* the close handshake is over: leave the loop
    /\ WsAt("select") /\ state = "CLOSING" /\ "CLOSE_SENT" \in status
    /\ Goto("finish")
    /\ run' = FALSE /\ state' = "UNKNOW"
    /\ Dispatch("ws", Event("CLOSED"))
    /\ UNCHANGED <<status, wait_pong, transport, lock, queue, rx, ws_back, appCall>>

Finish ==
    /\ WsAt("finish") /\ Goto("leave")
    /\ Dispatch("ws", Event("FINISH"))
    /\ UNCHANGED <<client, lock, queue, rx, ws_back, appCall>>

Poll ==            \* poll_read without the lock: failure, data or nothing
    /\ WsAt("poll")
    /\ Goto("lock_err") \/ Goto("lock_recv") \/ Goto("loop")
    /\ UNCHANGED <<client, lock, loop, rx, ws_back, appCall>>

PollFailed ==
    /\ TakeLock("lock_err", "abort") /\ ws_back' = "loop"
    /\ Error("ws")
    /\ UNCHANGED <<client, queue, rx, appCall>>

\* Mutant: received without the lock, as the poll before it.
PollDataUnlocked ==
    /\ WsAt("lock_recv") /\ Goto("recv") /\ ws_back' = "loop"
    /\ UNCHANGED <<client, lock, loop, rx, appCall>>

PollData ==
    /\ TakeLock("lock_recv", "recv") /\ ws_back' = "loop"
    /\ UNCHANGED <<client, loop, rx, appCall>>

\* esp_websocket_client_recv: one read of at most one buffer.
ReadFailed ==
    /\ WsAt("recv") /\ Goto("abort")
    /\ ws_back' = IF ws_back = "relock" THEN "select" ELSE ws_back
    /\ rx' = NoRx
    /\ Error("ws")
    /\ UNCHANGED <<client, lock, queue, appCall>>

ReadNothing ==     \* a timeout between messages
    /\ WsAt("recv") /\ transport = "open" /\ rx = NoRx /\ Goto("recv_done")
    /\ UNCHANGED <<client, lock, loop, rx, ws_back, appCall>>

\* What a read may bring of the bytes that are left of a message.
Chunks(left) == {n \in 1..BufSize : n <= left}

ReadStart(op, len) ==    \* the header of a message, and its first bytes
    /\ WsAt("recv") /\ transport = "open" /\ rx = NoRx /\ Goto("recv_next")
    /\ \E n \in IF len = 0 THEN {0} ELSE Chunks(len) :
           /\ rx' = [op |-> op, len |-> len, off |-> n]
           /\ Dispatch("ws", Data(op, 0, len, n))
    /\ UNCHANGED <<client, lock, queue, ws_back, appCall>>

ReadMore ==        \* more bytes of the same message
    /\ WsAt("recv") /\ transport = "open" /\ rx # NoRx /\ Goto("recv_next")
    /\ \E n \in Chunks(rx.len - rx.off) :
           /\ rx' = [rx EXCEPT !.off = @ + n]
           /\ Dispatch("ws", Data(rx.op, rx.off, rx.len, n))
    /\ UNCHANGED <<client, lock, queue, ws_back, appCall>>

ReadStalled ==     \* a timeout inside a message is an event without data
    /\ WsAt("recv") /\ transport = "open" /\ rx # NoRx /\ Goto("recv_next")
    /\ Dispatch("ws", Data(rx.op, rx.off, rx.len, 0))
    /\ UNCHANGED <<client, lock, queue, rx, ws_back, appCall>>

RecvNext ==        \* while (payload_offset < payload_len), then by opcode
    /\ WsAt("recv_next")
    /\ \/ rx.off < rx.len /\ Goto("recv") /\ UNCHANGED <<state, wait_pong, rx>>
       \/ /\ rx.off >= rx.len /\ Goto("recv_done")
          /\ rx' = NoRx
          /\ wait_pong' = (wait_pong /\ rx.op # "pong")
          /\ state' = IF rx.op = "close" THEN "CLOSING" ELSE state
    /\ UNCHANGED <<run, status, transport, lock, loop, ws_back, appCall>>

RecvDone ==        \* the caller of recv gives the lock back
    /\ WsAt("recv_done") /\ Goto(ws_back)
    /\ lock' = "none"
    /\ disp' = IF ws_back = "relock" THEN [disp EXCEPT !["ws"].stage = "drain"] ELSE disp
    /\ UNCHANGED <<client, queue, rx, ws_back, appCall>>

Close ==           \* after FINISH, without the lock
    /\ WsAt("leave") /\ Goto("forget")
    /\ transport' = "closed"
    /\ UNCHANGED <<state, run, status, wait_pong, lock, loop, rx, ws_back, appCall>>

Forget ==
    /\ WsAt("forget") /\ Goto("mark")
    /\ state' = "UNKNOW"
    /\ UNCHANGED <<run, status, wait_pong, transport, lock, loop, rx, ws_back, appCall>>

MarkStopped ==     \* the last thing the task does before it deletes itself
    /\ WsAt("mark") /\ Goto("gone")
    /\ PromptStart => call # "start_clear"
    /\ status' = status \cup {"STOPPED"}
    /\ UNCHANGED <<state, run, wait_pong, transport, lock, loop, rx, ws_back, appCall>>

-----------------------------------------------------------------------------
(* The application's calls.  Call(f) begins one; ret holds its result when  *)
(* call is "none" again.                                                    *)

AppAt(l) == call = l /\ At("app")
AppFree == AppAt("none")
Step(l) == call' = l
Return(r) == call' = "none" /\ ret' = r

Call(first) ==
    /\ AppFree /\ Step(first)
    /\ UNCHANGED <<client, lock, loop, wsTask, ret>>

StartCreate ==     \* esp_websocket_client_start up to the task's creation
    /\ AppAt("start_create")
    /\ \/ state = "UNKNOW" /\ ws_pc' = "enter" /\ Step("start_clear") /\ UNCHANGED ret
       \/ Return("fail") /\ UNCHANGED ws_pc
    /\ UNCHANGED <<client, lock, loop, rx, ws_back>>

StartClear ==      \* the bits are cleared when the task already runs
    /\ AppAt("start_clear") /\ Return("ok")
    /\ status' = {}
    /\ UNCHANGED <<state, run, wait_pong, transport, lock, loop, wsTask>>

SendCheck ==       \* is the client connected?  Asked without the lock.
    /\ AppAt("send_check")
    /\ IF state = "CONNECTED" THEN Step("send_lock") /\ UNCHANGED ret ELSE Return("fail")
    /\ UNCHANGED <<client, lock, loop, wsTask>>

SendLock ==
    /\ AppAt("send_lock") /\ lock = "none"
    /\ lock' = "app" /\ Step("send_write")
    /\ UNCHANGED <<client, loop, wsTask, ret>>

SendLockTimeout ==
    /\ AppAt("send_lock") /\ lock # "none" /\ Return("fail")
    /\ UNCHANGED <<client, lock, loop, wsTask>>

SendWritten ==     \* every fragment went out
    /\ AppAt("send_write") /\ transport = "open"
    /\ Step("send_unlock") /\ ret' = "ok"
    /\ UNCHANGED <<client, lock, loop, wsTask>>

SendFailed ==
    /\ AppAt("send_write") /\ Step("send_abort") /\ ret' = "fail"
    /\ Error("app")
    /\ UNCHANGED <<client, lock, queue, wsTask>>

SendAbort ==
    /\ AppAt("send_abort")
    /\ \/ Abortable /\ AbortClose /\ Step("send_aborted")
       \/ ~Abortable /\ UNCHANGED client /\ Step("send_unlock")
    /\ UNCHANGED <<lock, loop, wsTask, ret>>

\* Mutant: the failure path returns with the lock held.
SendAbortedReturns ==
    /\ AppAt("send_aborted") /\ Step("none")
    /\ AbortTell("app")
    /\ UNCHANGED <<lock, queue, wsTask, ret>>

SendAborted ==
    /\ AppAt("send_aborted") /\ Step("send_unlock")
    /\ AbortTell("app")
    /\ UNCHANGED <<lock, queue, wsTask, ret>>

SendUnlock ==
    /\ AppAt("send_unlock") /\ Step("none")
    /\ lock' = "none"
    /\ UNCHANGED <<client, loop, wsTask, ret>>

\* esp_websocket_client_stop and esp_websocket_client_destroy share
\* stop_wait_task; f is the caller, and so the prefix of its labels.
StopCheck ==
    /\ AppAt("stop_check")
    /\ IF "STOPPED" \in status THEN Return("fail") ELSE Step("stop_run") /\ UNCHANGED ret
    /\ UNCHANGED <<client, lock, loop, wsTask>>

DestroyCheck ==
    /\ AppAt("destroy_check")
    /\ Step(IF "STOPPED" \in status THEN "destroy_free" ELSE "destroy_run")
    /\ UNCHANGED <<client, lock, loop, wsTask, ret>>

StopRun ==
    /\ AppAt("stop_run") \/ AppAt("destroy_run")
    /\ Step(IF call = "stop_run" THEN "stop_bit" ELSE "destroy_bit")
    /\ run' = FALSE
    /\ UNCHANGED <<state, status, wait_pong, transport, lock, loop, wsTask, ret>>

StopBit ==
    /\ AppAt("stop_bit") \/ AppAt("destroy_bit")
    /\ Step(IF call = "stop_bit" THEN "stop_wait" ELSE "destroy_wait")
    /\ status' = status \cup {"REQUESTED_STOP"}
    /\ UNCHANGED <<state, run, wait_pong, transport, lock, loop, wsTask, ret>>

StopWait ==        \* portMAX_DELAY
    /\ AppAt("stop_wait") \/ AppAt("destroy_wait")
    /\ "STOPPED" \in status
    /\ IF call = "stop_wait" THEN Return("ok") ELSE Step("destroy_free") /\ UNCHANGED ret
    /\ state' = "UNKNOW"
    /\ UNCHANGED <<run, status, wait_pong, transport, lock, loop, wsTask>>

DestroyFree ==     \* destroy_and_free_resources: the handle is gone
    /\ AppAt("destroy_free") /\ Return("ok")
    /\ UNCHANGED <<client, lock, loop, wsTask>>

-----------------------------------------------------------------------------
\* Steps of the client's task that need nothing from the network.
WsLocal ==
    \/ Enter \/ EnterInit \/ Loop \/ LoopLock \/ SwitchInit \/ Pending \/ Relock
    \/ SwitchConnected \/ SwitchWait \/ SwitchClosing \/ AbortWs \/ AbortedWs
    \/ Unlock \/ Select \/ SelectClosed \/ Finish \/ Poll \/ PollFailed \/ PollData
    \/ RecvNext \/ RecvDone \/ Close \/ Forget \/ MarkStopped
    \/ Post("ws") \/ Take("ws") \/ Drained("ws")

WsConnect == ConnectOk \/ ConnectRedirect \/ ConnectFail

\* Steps of a call under way; StartCreate and DestroyFree also change what the
\* caller owns and are composed with it by the module that uses the client.
CallStep ==
    \/ StartClear
    \/ SendCheck \/ SendLock \/ SendLockTimeout \/ SendFailed \/ SendAbort
    \/ SendAborted \/ SendUnlock
    \/ StopCheck \/ DestroyCheck \/ StopRun \/ StopBit \/ StopWait
    \/ Post("app") \/ Take("app") \/ Drained("app")

-----------------------------------------------------------------------------
(* Properties of the client by itself *)

LockedBySelf == {"switch", "connect", "pending", "abort", "aborted", "recv",
                 "recv_next", "recv_done", "unlock"}

\* Connecting, receiving, writing and aborting are done under the lock in either
\* task, which gives it back through every early exit: a receive and a send never
\* overlap.  Outside of it the task only polls, and closes at its end.
LockDiscipline ==
    /\ lock = "ws" <=> ws_pc \in LockedBySelf
    /\ lock = "app" <=> call \in {"send_write", "send_abort", "send_aborted", "send_unlock"}

\* The state says CONNECTED without a connection at two places only: between the
\* two lines of an abort, to which the lock belongs, and while the client's task
\* goes down under the call that stops it.  A send may be let through by its check
\* there, which is made without the lock; but whoever then gets the lock and still
\* finds CONNECTED writes or reads on a connection that is open.
ConnectedMeansOpen ==
    state = "CONNECTED" /\ transport = "closed" =>
        \/ ws_pc = "aborted" /\ lock = "ws"
        \/ call = "send_aborted" /\ lock = "app"
        \/ call \in {"stop_bit", "stop_wait", "destroy_bit", "destroy_wait"}
=============================================================================
