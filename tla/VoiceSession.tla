---------------------------- MODULE VoiceSession ----------------------------
(***************************************************************************)
(* One voice session of main.c: voice_stream_pcm_websocket in the voice    *)
(* task and voice_ws_event_handler, which runs in whichever task drains    *)
(* the client's event loop, composed with the client of WsClient.          *)
(* Audio is left out; a reply is kept as the message it came from and the  *)
(* number of its bytes that the buffer has taken.                          *)
(***************************************************************************)
EXTENDS WsClient

CONSTANTS
    ReplyCap, \* response_cap (4096), one byte of which is for the NUL
    Polite    \* TRUE: the server sends one text message per connection, after
              \* it has read the end marker, and control frames without payload

ASSUME ReplyCapAssumption == ReplyCap \in Nat \ {0}
ASSUME PoliteAssumption == Polite \in BOOLEAN

VARIABLES
    v_pc,         \* where voice_stream_pcm_websocket is
    response,     \* the reply buffer: "none", "live", "handed" to the caller, "freed"
    events,       \* the event group: "none", "live", "freed"
    handle,       \* the client handle: "none", "live", "freed"
    bits,         \* VOICE_WS_*_BITs of the event group
    reply,        \* the buffer: of which message, response_len, response_overflow
    result,       \* what the function is going to return: "none", "null", "reply"
    server,       \* the peer: has read the end marker, has answered
    asked         \* history: the message being received began after the marker

owned == <<response, events, handle>>
voice == <<v_pc, owned, result>>
peer  == <<server, asked>>
vars  == <<wsVars, voice, bits, reply, peer>>

Bits == {"CONNECTED", "RESPONSE", "DISCONNECTED", "ERROR"}
NoReply == [op |-> "none", len |-> 0, got |-> 0, cut |-> FALSE, asked |-> FALSE]
NewServer == [marker |-> FALSE, answered |-> FALSE]

VStates == {"alloc", "events", "init", "register", "start", "started", "wait_conn",
            "record", "mic", "sent", "key", "end", "ended", "wait_resp",
            "stop", "destroy", "delete", "free", "returned"}

TypeOK ==
    /\ WsTypeOK
    /\ v_pc \in VStates
    /\ response \in {"none", "live", "handed", "freed"}
    /\ events \in {"none", "live", "freed"} /\ handle \in {"none", "live", "freed"}
    /\ bits \subseteq Bits
    /\ reply \in [op : Opcodes \cup {"none"}, len : 0..MaxLen, got : 0..(ReplyCap - 1),
                  cut : BOOLEAN, asked : BOOLEAN]
    /\ result \in {"none", "null", "reply"}
    /\ server \in [marker : BOOLEAN, answered : BOOLEAN] /\ asked \in BOOLEAN

VoiceInit ==
    /\ v_pc = "alloc"
    /\ response = "none" /\ events = "none" /\ handle = "none"
    /\ bits = {} /\ reply = NoReply /\ result = "none"
    /\ server = NewServer /\ asked = FALSE

Init == WsInit /\ VoiceInit

-----------------------------------------------------------------------------
(* voice_ws_event_handler on event e *)

\* The data of event e is appended, or put at the start if its message begins
\* with it; what has no room is dropped.
AppendData(e) ==
    LET start == IF e.off = 0 THEN 0 ELSE reply.got
        room  == ReplyCap - start - 1
        from  == IF e.off = 0
                 THEN [NoReply EXCEPT !.op = e.op, !.len = e.len, !.asked = asked]
                 ELSE reply
    IN  reply' = [from EXCEPT !.got = IF e.n > room THEN ReplyCap - 1 ELSE start + e.n,
                              !.cut = @ \/ e.n > room]

Announce(name) == bits' = bits \cup {name}

\* Mutant: every DATA event with data is taken for the end of a reply.
LastEager(e) == e.n > 0

Last(e) == e.len <= e.off + e.n

HandleEvent(e) ==
    \/ /\ e.name \in {"CONNECTED", "DISCONNECTED", "ERROR"}
       /\ Announce(e.name)
       /\ UNCHANGED reply
    \/ /\ e.name = "DATA" /\ e.n > 0
       /\ AppendData(e)
       /\ IF Last(e) THEN Announce("RESPONSE") ELSE UNCHANGED bits
    \/ /\ e.name \notin {"CONNECTED", "DISCONNECTED", "ERROR"}
       /\ ~(e.name = "DATA" /\ e.n > 0)
       /\ UNCHANGED <<bits, reply>>

Handle(t) == Handled(t) /\ HandleEvent(disp[t].ev) /\ UNCHANGED <<voice, peer>>

-----------------------------------------------------------------------------
(* The client's task and its peer *)

Connect ==
    /\ WsConnect
    /\ server' = IF state' = "CONNECTED" THEN NewServer ELSE server
    /\ UNCHANGED <<voice, bits, reply, asked>>

\* The server begins a message.
Receive(op, len) ==
    /\ ReadStart(op, len)
    /\ Polite => IF op = "text" THEN server.marker /\ ~server.answered /\ len > 0
                 ELSE len = 0
    /\ server' = [server EXCEPT !.answered = @ \/ op = "text"]
    /\ asked' = server.marker
    /\ UNCHANGED <<voice, bits, reply>>

ReceiveMore == ReadMore \/ ReadFailed
ReceiveIdle == ReadNothing \/ ReadStalled

WsTask ==
    \/ (WsLocal \/ ReceiveMore \/ ReceiveIdle) /\ UNCHANGED <<voice, bits, reply, peer>>
    \/ Connect
    \/ \E op \in Opcodes, len \in 0..MaxLen : Receive(op, len)
    \/ Handle("ws")

-----------------------------------------------------------------------------
(* voice_stream_pcm_websocket; wsVars change only inside client calls *)

V(from, to) == v_pc = from /\ AppFree /\ v_pc' = to
VCall(from, first, to) ==
    /\ v_pc = from /\ v_pc' = to /\ Call(first)
    /\ UNCHANGED <<owned, bits, reply, result, peer>>
VOnly == UNCHANGED <<wsVars, owned, bits, reply, result, peer>>

AllocResponse ==
    /\ \/ V("alloc", "events") /\ response' = "live" /\ UNCHANGED result
       \/ V("alloc", "returned") /\ result' = "null" /\ UNCHANGED response
    /\ UNCHANGED <<wsVars, events, handle, bits, reply, peer>>

CreateEvents ==
    /\ \/ V("events", "init") /\ events' = "live" /\ UNCHANGED <<response, result>>
       \/ /\ V("events", "returned") /\ response' = "freed" /\ result' = "null"
          /\ UNCHANGED events
    /\ UNCHANGED <<wsVars, handle, bits, reply, peer>>

\* Mutant: the event group is forgotten when the client cannot be made.
InitClientLeaks ==
    /\ \/ V("init", "register") /\ handle' = "live" /\ UNCHANGED <<response, result>>
       \/ /\ V("init", "returned") /\ response' = "freed"
          /\ result' = "null" /\ UNCHANGED handle
    /\ UNCHANGED <<wsVars, events, bits, reply, peer>>

InitClient ==
    /\ \/ V("init", "register") /\ handle' = "live" /\ UNCHANGED <<response, events, result>>
       \/ /\ V("init", "returned") /\ events' = "freed" /\ response' = "freed"
          /\ result' = "null" /\ UNCHANGED handle
    /\ UNCHANGED <<wsVars, bits, reply, peer>>

Register == (V("register", "start") \/ V("register", "destroy")) /\ VOnly

Start == VCall("start", "start_create", "started")

Started == V("started", IF ret = "ok" THEN "wait_conn" ELSE "destroy") /\ VOnly

WaitConnected ==   \* any of three bits, or 10 s
    /\ \/ bits \cap {"CONNECTED", "ERROR", "DISCONNECTED"} # {}
       \/ PromptStart => ws_pc \notin {"enter", "init"}
    /\ V("wait_conn", IF "CONNECTED" \in bits THEN "record" ELSE "stop")
    /\ VOnly

\* Mutant: a broken link does not end the recording.
RecordBlind == V("record", "mic") /\ VOnly

Record ==
    /\ V("record", IF bits \cap {"DISCONNECTED", "ERROR"} # {} THEN "end" ELSE "mic")
    /\ VOnly

MicFailed  == V("mic", "end") /\ VOnly
MicNothing == V("mic", "key") /\ VOnly
MicSamples == VCall("mic", "send_check", "sent")

Sent == V("sent", IF ret = "ok" THEN "key" ELSE "end") /\ VOnly

KeyPressed == V("key", "end") /\ VOnly
KeyIdle    == V("key", "record") /\ VOnly

SendMarker == VCall("end", "send_check", "ended")

\* Mutant: the client is not stopped when the end marker cannot be sent.
EndedNoStop == V("ended", IF ret = "ok" THEN "wait_resp" ELSE "delete") /\ VOnly

Ended == V("ended", IF ret = "ok" THEN "wait_resp" ELSE "stop") /\ VOnly

WaitResponse ==    \* any of three bits, or 90 s
    /\ V("wait_resp", "stop")
    /\ result' = IF "RESPONSE" \in bits THEN "reply" ELSE "null"
    /\ UNCHANGED <<wsVars, owned, bits, reply, peer>>

Stop    == VCall("stop", "stop_check", "destroy")
Destroy == VCall("destroy", "destroy_check", "delete")

DeleteEvents ==
    /\ V("delete", "free")
    /\ events' = "freed"
    /\ UNCHANGED <<wsVars, response, handle, bits, reply, result, peer>>

FreeResponse ==
    /\ V("free", "returned")
    /\ response' = IF result = "reply" THEN "handed" ELSE "freed"
    /\ result' = IF result = "reply" THEN "reply" ELSE "null"
    /\ UNCHANGED <<wsVars, events, handle, bits, reply, peer>>

Again ==           \* the next session starts from nothing
    /\ v_pc = "returned" /\ AppFree
    /\ WsRenew
    /\ v_pc' = "alloc"
    /\ response' = "none" /\ events' = "none" /\ handle' = "none"
    /\ bits' = {} /\ reply' = NoReply /\ result' = "none"
    /\ server' = NewServer /\ asked' = FALSE

\* Calls into the client.
CreateTask == StartCreate /\ UNCHANGED <<voice, bits, reply, peer>>

Written ==
    /\ SendWritten
    /\ server' = [server EXCEPT !.marker = @ \/ v_pc = "ended"]
    /\ UNCHANGED <<voice, bits, reply, asked>>

FreeHandle ==
    /\ DestroyFree
    /\ handle' = "freed"
    /\ UNCHANGED <<v_pc, response, events, bits, reply, result, peer>>

InCall ==
    \/ CallStep /\ UNCHANGED <<voice, bits, reply, peer>>
    \/ CreateTask \/ Written \/ FreeHandle
    \/ Handle("app")

VoiceTask ==
    \/ InCall
    \/ AllocResponse \/ CreateEvents \/ InitClient \/ Register \/ Start \/ Started
    \/ WaitConnected \/ Record \/ MicFailed \/ MicNothing \/ MicSamples \/ Sent
    \/ KeyPressed \/ KeyIdle \/ SendMarker \/ Ended \/ WaitResponse
    \/ Stop \/ Destroy \/ DeleteEvents \/ FreeResponse

Next == WsTask \/ VoiceTask \/ Again

Spec == Init /\ [][Next]_vars

\* Both tasks run.  A mutex waiter is not passed over for ever: the other task
\* blocks in the microphone or the socket between its uses of the lock.  A
\* message under way goes on or its connection fails: a peer that stalls in
\* the middle of one for ever is outside this assumption.
Fairness ==
    /\ WF_vars(WsTask) /\ WF_vars(VoiceTask)
    /\ SF_vars(LoopLock /\ UNCHANGED <<voice, bits, reply, peer>>)
    /\ SF_vars((Relock \/ PollFailed \/ PollData) /\ UNCHANGED <<voice, bits, reply, peer>>)
    /\ SF_vars(ReceiveMore /\ UNCHANGED <<voice, bits, reply, peer>>)

FairSpec == Spec /\ Fairness

-----------------------------------------------------------------------------
(* Properties *)

\* An event handler, and any code of either task that uses the client, runs
\* only while the context it uses exists: main.c deletes the event group and
\* the buffer after esp_websocket_client_destroy, which waits for the task.
NoUseAfterFree ==
    /\ \A t \in Tasks : disp[t].stage # "off" =>
          response = "live" /\ events = "live" /\ handle = "live"
    /\ ws_pc \notin {"absent", "gone"} =>
          response = "live" /\ events = "live" /\ handle = "live"
    /\ call # "none" => handle = "live"

\* On every return, the failures half way included, everything allocated is
\* freed except a reply handed to the caller, and the client's task is over.
NothingLeaked ==
    v_pc = "returned" =>
        /\ events \in {"none", "freed"} /\ handle \in {"none", "freed"}
        /\ response = IF result = "reply" THEN "handed"
                      ELSE IF response = "none" THEN "none" ELSE "freed"
        /\ ws_pc \in {"absent", "gone"} /\ lock = "none"

\* DATA events reach the handler in the client's own task, in order, although
\* the voice task drains the same queue when one of its sends fails.
DataHandledByClientTask == disp["app"].stage = "handle" => disp["app"].ev.name # "DATA"

\* How much the buffer holds of the first n bytes of a message, and whether
\* response_overflow is set.
Kept(n) == /\ reply.got = IF n < ReplyCap THEN n ELSE ReplyCap - 1
           /\ reply.cut <=> n >= ReplyCap

\* A returned reply is the beginning of one text message that the server sent
\* after it had read the end marker, and all of it unless the message is longer
\* than the buffer: then the buffer is full and response_overflow says so, which
\* main.c logs before it returns the text all the same.
ReplyAnswersMarker ==
    v_pc = "returned" /\ result = "reply" =>
        reply.op = "text" /\ reply.asked /\ Kept(reply.len)

\* Once the recording is over, or the link has failed under it, the session
\* comes to its end; esp_websocket_client_stop and _destroy, which wait without
\* a timeout, return.
SessionEnds == /\ v_pc = "end" ~> v_pc = "returned"
               /\ bits \cap {"DISCONNECTED", "ERROR"} # {} ~> v_pc = "returned"
=============================================================================
