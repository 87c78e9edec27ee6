------------------------- MODULE VoiceSessionProofs -------------------------
(***************************************************************************)
(* Theorems about a voice session and the WebSocket client under it, for   *)
(* messages of every length, any scheduling of the two tasks and any       *)
(* server: types, who holds the lock, that nothing is used after it was    *)
(* freed, that nothing is leaked, and who handles the reply; and of a      *)
(* polite server that the reply returned is the answer.  With prompt       *)
(* scheduling nobody waits for ever, and stop and destroy return.          *)
(***************************************************************************)
EXTENDS VoiceSession, TLAPS

Sending    == {"send_check", "send_lock", "send_write", "send_abort", "send_aborted",
               "send_unlock"}
Stopping   == {"stop_check", "stop_run", "stop_bit", "stop_wait"}
Destroying == {"destroy_check", "destroy_run", "destroy_bit", "destroy_wait", "destroy_free"}
StopSet    == {"stop_bit", "stop_wait", "destroy_bit", "destroy_wait"}

\* Where the session holds the event group, the buffer and the client.
Using == {"register", "start", "started", "wait_conn", "record", "mic", "sent", "key",
          "end", "ended", "wait_resp", "stop", "destroy"}

\* An event names a part of its message.
EventOK(e) == e \in Events /\ e.off + e.n <= e.len

EventsOK ==
    /\ \A t \in Tasks : EventOK(disp[t].ev)
    /\ \A i \in 1..Len(queue) : EventOK(queue[i])

\* Between two reads there is more of the message, outside of receive nothing.
Receiving ==
    /\ rx.off <= rx.len
    /\ ws_pc = "recv" /\ rx # NoRx => rx.off < rx.len
    /\ ws_pc \notin {"recv", "recv_next"} => rx = NoRx

TypeInv == TypeOK /\ EventsOK /\ Receiving

\* Which call of the client is made from where.
CallPhase ==
    /\ call \in {"start_create", "start_clear"} => v_pc = "started"
    /\ call \in Sending => v_pc \in {"sent", "ended"}
    /\ call \in Stopping => v_pc = "destroy"
    /\ call \in Destroying => v_pc = "delete"

\* What the session holds, by where it is.
Ownership ==
    /\ v_pc = "alloc"  => response = "none" /\ events = "none" /\ handle = "none"
    /\ v_pc = "events" => response = "live" /\ events = "none" /\ handle = "none"
    /\ v_pc = "init"   => response = "live" /\ events = "live" /\ handle = "none"
    /\ v_pc \in Using  => response = "live" /\ events = "live" /\ handle = "live"
    /\ v_pc = "delete" => /\ response = "live" /\ events = "live"
                          /\ handle = IF call = "none" THEN "freed" ELSE "live"
    /\ v_pc = "free"   => response = "live" /\ events = "freed" /\ handle = "freed"
    /\ v_pc = "returned" =>
          /\ events \in {"none", "freed"} /\ handle \in {"none", "freed"}
          /\ IF result = "reply" THEN response = "handed" ELSE response \in {"none", "freed"}

\* The client's task exists only between start and the end of destroy, and
\* STOPPED, once start has cleared it, is set by its last step.
TaskLife ==
    /\ v_pc \in {"alloc", "events", "init", "register", "start"} => ws_pc = "absent"
    /\ call = "start_create" => ws_pc = "absent"
    /\ v_pc \in {"free", "returned"} => ws_pc \in {"absent", "gone"}
    /\ v_pc = "delete" /\ call \in {"none", "destroy_free"} => ws_pc \in {"absent", "gone"}
    /\ "STOPPED" \in status => ws_pc \in {"absent", "gone"} \/ call = "start_clear"

\* A task dispatches events only while it lives, the caller only in a failed send.
Dispatching ==
    /\ disp["ws"].stage # "off" => ws_pc \notin {"absent", "gone"}
    /\ disp["app"].stage # "off" => call \in {"send_abort", "send_aborted", "send_unlock"}

LifeInv == LockDiscipline /\ CallPhase /\ Ownership /\ TaskLife /\ Dispatching

\* A DATA event is in the queue only while the client's task, which holds the
\* lock, is about to take it out again.
DataInv ==
    /\ disp["app"].ev.name # "DATA"
    /\ disp["ws"].stage = "post" /\ disp["ws"].ev.name = "DATA" => ws_pc = "recv_next"
    /\ queue # <<>> /\ Head(queue).name = "DATA" =>
          ws_pc = "recv_next" /\ disp["ws"].stage = "drain"

\* run falls only under stop and destroy, or after the close handshake.  Between
\* the lines of an abort the state cannot become one that is not aborted.
RunInv ==
    /\ ~run /\ ws_pc \notin {"absent", "enter", "mark", "gone"} =>
          \/ call \in StopSet
          \/ state = "UNKNOW" /\ ws_pc \in {"finish", "leave", "forget"}
    /\ ws_pc \in {"finish", "leave", "forget"} => ~run
    /\ state = "CONNECTED" /\ transport = "closed" =>
          ws_pc \in {"aborted", "forget"} \/ call = "send_aborted"
    /\ ws_pc = "aborted" \/ call = "send_aborted" => Abortable

IInv == TypeInv /\ LifeInv /\ DataInv /\ RunInv

\* A step of the client's task or of a call, with one event of either handled.
ClientStep ==
    \/ WsLocal \/ WsConnect \/ ReceiveMore \/ ReceiveIdle \/ CallStep
    \/ StartCreate \/ SendWritten
    \/ \E t \in Tasks : Handled(t)
    \/ \E op \in Opcodes, len \in 0..MaxLen : ReadStart(op, len)

\* The calls a session makes.
Calls == {"start_create", "send_check", "stop_check", "destroy_check"}

WsType == WsTypeOK /\ EventsOK /\ Receiving

-----------------------------------------------------------------------------

\* Every step of the client keeps the types; rx never runs past its message.
LEMMA ClientTypes ==
    ASSUME WsType, TaskLife, ClientStep
    PROVE  WsType'
<1> USE MaxLenAssumption, BufSizeAssumption DEF Dispatch, Event, Data, Plain, Opcodes, Tasks,
        WsAt, At, AppAt, AppFree, Step, Return, Goto, TakeLock, Error, Abortable,
        AbortClose, AbortTell, GotoBack,
        NoRx, client, loop, wsTask, appCall, Quiet, NoEvent, WsTypeOK,
        EventsOK, EventOK, Receiving, Events, States, WsStates, CallStates,
        WsType, TaskLife
<1>1. CASE Enter BY <1>1 DEF Enter
<1>2. CASE EnterInit BY <1>2 DEF EnterInit
<1>3. CASE Loop BY <1>3 DEF Loop
<1>4. CASE LoopLock BY <1>4 DEF LoopLock
<1>5. CASE SwitchInit BY <1>5 DEF SwitchInit
<1>6. CASE ConnectOk
  <2>1. run' \in BOOLEAN /\ wait_pong' \in BOOLEAN BY <1>6 DEF ConnectOk
  <2>2. disp' \in [Tasks -> [stage : {"off", "post", "drain", "handle"}, ev : Events]]
    BY <1>6 DEF ConnectOk
  <2>3. EventsOK' /\ Receiving' BY <1>6 DEF ConnectOk
  <2> HIDE DEF EventsOK, Receiving
  <2> QED BY <1>6, <2>1, <2>2, <2>3 DEF ConnectOk
<1>7. CASE ConnectRedirect BY <1>7 DEF ConnectRedirect
<1>8. CASE ConnectFail BY <1>8 DEF ConnectFail
<1>9. CASE Pending BY <1>9 DEF Pending
<1>10. CASE Relock BY <1>10 DEF Relock
<1>11. CASE SwitchConnected
  <2>1. run' \in BOOLEAN /\ wait_pong' \in BOOLEAN BY <1>11 DEF SwitchConnected
  <2>2. disp' \in [Tasks -> [stage : {"off", "post", "drain", "handle"}, ev : Events]]
    BY <1>11 DEF SwitchConnected
  <2>3. EventsOK' /\ Receiving' BY <1>11 DEF SwitchConnected
  <2> HIDE DEF EventsOK, Receiving
  <2> QED BY <1>11, <2>1, <2>2, <2>3 DEF SwitchConnected
<1>12. CASE SwitchWait BY <1>12 DEF SwitchWait
<1>13. CASE SwitchClosing BY <1>13 DEF SwitchClosing
<1>14. CASE AbortWs
  <2>1. /\ run' \in BOOLEAN /\ wait_pong' \in BOOLEAN
        /\ state' \in States /\ transport' \in {"open", "closed"}
        /\ status' \subseteq {"STOPPED", "CLOSE_SENT", "REQUESTED_STOP"}
    BY <1>14 DEF AbortWs
  <2>2. disp' \in [Tasks -> [stage : {"off", "post", "drain", "handle"}, ev : Events]]
    BY <1>14 DEF AbortWs
  <2>3. EventsOK' /\ Receiving' BY <1>14 DEF AbortWs
  <2> HIDE DEF EventsOK, Receiving, AbortTell
  <2> QED BY <1>14, <2>1, <2>2, <2>3 DEF AbortWs
<1>15. CASE Unlock BY <1>15 DEF Unlock
<1>16. CASE Select BY <1>16 DEF Select
<1>17. CASE SelectClosed
  <2>1. run' \in BOOLEAN /\ wait_pong' \in BOOLEAN BY <1>17 DEF SelectClosed
  <2>2. disp' \in [Tasks -> [stage : {"off", "post", "drain", "handle"}, ev : Events]]
    BY <1>17 DEF SelectClosed
  <2>3. EventsOK' /\ Receiving' BY <1>17 DEF SelectClosed
  <2> HIDE DEF EventsOK, Receiving
  <2> QED BY <1>17, <2>1, <2>2, <2>3 DEF SelectClosed
<1>18. CASE Finish BY <1>18 DEF Finish
<1>19. CASE Poll BY <1>19 DEF Poll
<1>20. CASE PollFailed BY <1>20 DEF PollFailed
<1>21. CASE PollData BY <1>21 DEF PollData
<1>22. CASE ReadFailed BY <1>22 DEF ReadFailed
<1>23. CASE ReadNothing BY <1>23 DEF ReadNothing
<1>24. CASE ReadMore
  <2>1. PICK n \in Chunks(rx.len - rx.off) :
           /\ rx' = [rx EXCEPT !.off = @ + n]
           /\ Dispatch("ws", Data(rx.op, rx.off, rx.len, n))
    BY <1>24 DEF ReadMore
  <2>2. n \in 1..BufSize /\ n <= rx.len - rx.off BY <2>1 DEF Chunks
  <2>3. /\ n \in Nat /\ n \in 0..BufSize /\ rx.off \in 0..MaxLen /\ rx.len \in 0..MaxLen
        /\ rx.off + n \in 0..MaxLen /\ rx.off + n <= rx.len
    BY <2>2
  <2>4. EventOK(Data(rx.op, rx.off, rx.len, n)) BY <2>3
  <2>5. rx' = [rx EXCEPT !.off = rx.off + n] /\ ws_pc' = "recv_next"
        /\ UNCHANGED <<client, lock, queue, ws_back, appCall>>
    BY <1>24, <2>1 DEF ReadMore
  <2>6. disp' = [disp EXCEPT !["ws"] =
                   [stage |-> "post", ev |-> Data(rx.op, rx.off, rx.len, n)]]
    BY <2>1
  <2>7. Receiving' BY <2>3, <2>5
  <2>8. EventsOK' BY <2>4, <2>5, <2>6
  <2>9. disp' \in [Tasks -> [stage : {"off", "post", "drain", "handle"}, ev : Events]]
    BY <2>4, <2>6
  <2>10. rx' \in [op : Opcodes \cup {"none"}, len : 0..MaxLen, off : 0..MaxLen]
    BY <2>3, <2>5
  <2> HIDE DEF EventsOK, EventOK, Receiving
  <2> QED BY <2>5, <2>7, <2>8, <2>9, <2>10
<1>25. CASE ReadStalled BY <1>25 DEF ReadStalled
<1>26. CASE RecvNext
  <2>1. run' \in BOOLEAN /\ wait_pong' \in BOOLEAN BY <1>26 DEF RecvNext
  <2>2. disp' \in [Tasks -> [stage : {"off", "post", "drain", "handle"}, ev : Events]]
    BY <1>26 DEF RecvNext
  <2>3. EventsOK' /\ Receiving' BY <1>26 DEF RecvNext
  <2> HIDE DEF EventsOK, Receiving
  <2> QED BY <1>26, <2>1, <2>2, <2>3 DEF RecvNext
<1>27. CASE RecvDone BY <1>27 DEF RecvDone
<1>28. CASE Close BY <1>28 DEF Close
<1>29. CASE Forget BY <1>29 DEF Forget
<1>30. CASE MarkStopped BY <1>30 DEF MarkStopped
<1>31. CASE StartCreate
  <2>1. run' \in BOOLEAN /\ wait_pong' \in BOOLEAN BY <1>31 DEF StartCreate
  <2>2. disp' \in [Tasks -> [stage : {"off", "post", "drain", "handle"}, ev : Events]]
    BY <1>31 DEF StartCreate
  <2>3. EventsOK' /\ Receiving' BY <1>31 DEF StartCreate
  <2> HIDE DEF EventsOK, Receiving
  <2> QED BY <1>31, <2>1, <2>2, <2>3 DEF StartCreate
<1>32. CASE StartClear BY <1>32 DEF StartClear
<1>33. CASE SendCheck BY <1>33 DEF SendCheck
<1>34. CASE SendLock BY <1>34 DEF SendLock
<1>35. CASE SendLockTimeout BY <1>35 DEF SendLockTimeout
<1>36. CASE SendWritten BY <1>36 DEF SendWritten
<1>37. CASE SendFailed BY <1>37 DEF SendFailed
<1>38. CASE SendAbort
  <2>1. /\ run' \in BOOLEAN /\ wait_pong' \in BOOLEAN
        /\ state' \in States /\ transport' \in {"open", "closed"}
        /\ status' \subseteq {"STOPPED", "CLOSE_SENT", "REQUESTED_STOP"}
    BY <1>38 DEF SendAbort
  <2>2. disp' \in [Tasks -> [stage : {"off", "post", "drain", "handle"}, ev : Events]]
    BY <1>38 DEF SendAbort
  <2>3. EventsOK' /\ Receiving' BY <1>38 DEF SendAbort
  <2> HIDE DEF EventsOK, Receiving, AbortTell
  <2> QED BY <1>38, <2>1, <2>2, <2>3 DEF SendAbort
<1>39. CASE SendUnlock BY <1>39 DEF SendUnlock
<1>40. CASE StopCheck BY <1>40 DEF StopCheck
<1>41. CASE DestroyCheck BY <1>41 DEF DestroyCheck
<1>42. CASE StopRun
  <2>1. run' \in BOOLEAN /\ wait_pong' \in BOOLEAN BY <1>42 DEF StopRun
  <2>2. disp' \in [Tasks -> [stage : {"off", "post", "drain", "handle"}, ev : Events]]
    BY <1>42 DEF StopRun
  <2>3. EventsOK' /\ Receiving' BY <1>42 DEF StopRun
  <2> HIDE DEF EventsOK, Receiving
  <2> QED BY <1>42, <2>1, <2>2, <2>3 DEF StopRun
<1>43. CASE StopBit BY <1>43 DEF StopBit
<1>44. CASE StopWait BY <1>44 DEF StopWait
<1>45. CASE \E t \in Tasks : Post(t) BY <1>45 DEF Post
<1>46. CASE \E t \in Tasks : Take(t) BY <1>46 DEF Take
<1>47. CASE \E t \in Tasks : Handled(t) BY <1>47 DEF Handled
<1>48. CASE \E t \in Tasks : Drained(t) BY <1>48 DEF Drained
<1>49. CASE \E op \in Opcodes, len \in 0..MaxLen : ReadStart(op, len)
  <2>1. PICK op \in Opcodes, len \in 0..MaxLen : ReadStart(op, len) BY <1>49
  <2>2. PICK n \in IF len = 0 THEN {0} ELSE Chunks(len) :
           /\ rx' = [op |-> op, len |-> len, off |-> n]
           /\ Dispatch("ws", Data(op, 0, len, n))
    BY <2>1 DEF ReadStart
  <2>3. n \in 0..BufSize /\ n <= len /\ n \in 0..MaxLen BY <2>2 DEF Chunks
  <2> QED BY <2>1, <2>2, <2>3 DEF ReadStart
<1>50. CASE AbortedWs BY <1>50 DEF AbortedWs
<1>51. CASE SendAborted BY <1>51 DEF SendAborted
<1> QED BY <1>1, <1>2, <1>3, <1>4, <1>5, <1>6, <1>7, <1>8, <1>9, <1>10, <1>11,
        <1>12, <1>13, <1>14, <1>15, <1>16, <1>17, <1>18, <1>19, <1>20, <1>21,
        <1>22, <1>23, <1>24, <1>25, <1>26, <1>27, <1>28, <1>29, <1>30, <1>31,
        <1>32, <1>33, <1>34, <1>35, <1>36, <1>37, <1>38, <1>39, <1>40, <1>41,
        <1>42, <1>43, <1>44, <1>45, <1>46, <1>47, <1>48, <1>49, <1>50, <1>51 DEF ClientStep,
        WsLocal, WsConnect, ReceiveMore, ReceiveIdle, CallStep

\* Every step of the client keeps the lock discipline and the life of its task.
LEMMA ClientLife ==
    ASSUME WsTypeOK, LifeInv, ClientStep, UNCHANGED <<v_pc, owned, result>>
    PROVE  LifeInv'
<1> USE DEF Dispatch, Event, Data, Plain, Opcodes, Tasks, WsAt, At, AppAt,
        AppFree, Step, Return, Goto, TakeLock, Error, Abortable, AbortClose, AbortTell,
        GotoBack, NoRx, client,
        loop, wsTask, appCall, Quiet, NoEvent, WsTypeOK, LifeInv,
        LockDiscipline, LockedBySelf, CallPhase, Ownership, TaskLife,
        Dispatching, Sending, Stopping, Destroying, Using, owned
<1>1. CASE Enter BY <1>1 DEF Enter
<1>2. CASE EnterInit BY <1>2 DEF EnterInit
<1>3. CASE Loop BY <1>3 DEF Loop
<1>4. CASE LoopLock BY <1>4 DEF LoopLock
<1>5. CASE SwitchInit BY <1>5 DEF SwitchInit
<1>6. CASE ConnectOk BY <1>6 DEF ConnectOk
<1>7. CASE ConnectRedirect BY <1>7 DEF ConnectRedirect
<1>8. CASE ConnectFail BY <1>8 DEF ConnectFail
<1>9. CASE Pending BY <1>9 DEF Pending
<1>10. CASE Relock BY <1>10 DEF Relock
<1>11. CASE SwitchConnected BY <1>11 DEF SwitchConnected
<1>12. CASE SwitchWait BY <1>12 DEF SwitchWait
<1>13. CASE SwitchClosing BY <1>13 DEF SwitchClosing
<1>14. CASE AbortWs BY <1>14 DEF AbortWs
<1>15. CASE Unlock BY <1>15 DEF Unlock
<1>16. CASE Select BY <1>16 DEF Select
<1>17. CASE SelectClosed BY <1>17 DEF SelectClosed
<1>18. CASE Finish BY <1>18 DEF Finish
<1>19. CASE Poll BY <1>19 DEF Poll
<1>20. CASE PollFailed BY <1>20 DEF PollFailed
<1>21. CASE PollData BY <1>21 DEF PollData
<1>22. CASE ReadFailed BY <1>22 DEF ReadFailed
<1>23. CASE ReadNothing BY <1>23 DEF ReadNothing
<1>24. CASE ReadMore BY <1>24 DEF ReadMore
<1>25. CASE ReadStalled BY <1>25 DEF ReadStalled
<1>26. CASE RecvNext BY <1>26 DEF RecvNext
<1>27. CASE RecvDone BY <1>27 DEF RecvDone
<1>28. CASE Close BY <1>28 DEF Close
<1>29. CASE Forget BY <1>29 DEF Forget
<1>30. CASE MarkStopped BY <1>30 DEF MarkStopped
<1>31. CASE StartCreate BY <1>31 DEF StartCreate
<1>32. CASE StartClear BY <1>32 DEF StartClear
<1>33. CASE SendCheck BY <1>33 DEF SendCheck
<1>34. CASE SendLock BY <1>34 DEF SendLock
<1>35. CASE SendLockTimeout BY <1>35 DEF SendLockTimeout
<1>36. CASE SendWritten BY <1>36 DEF SendWritten
<1>37. CASE SendFailed BY <1>37 DEF SendFailed
<1>38. CASE SendAbort BY <1>38 DEF SendAbort
<1>39. CASE SendUnlock BY <1>39 DEF SendUnlock
<1>40. CASE StopCheck BY <1>40 DEF StopCheck
<1>41. CASE DestroyCheck BY <1>41 DEF DestroyCheck
<1>42. CASE StopRun BY <1>42 DEF StopRun
<1>43. CASE StopBit BY <1>43 DEF StopBit
<1>44. CASE StopWait BY <1>44 DEF StopWait
<1>45. CASE \E t \in Tasks : Post(t) BY <1>45 DEF Post
<1>46. CASE \E t \in Tasks : Take(t) BY <1>46 DEF Take
<1>47. CASE \E t \in Tasks : Handled(t) BY <1>47 DEF Handled
<1>48. CASE \E t \in Tasks : Drained(t) BY <1>48 DEF Drained
<1>49. CASE \E op \in Opcodes, len \in 0..MaxLen : ReadStart(op, len)
  BY <1>49 DEF ReadStart
<1>50. CASE AbortedWs BY <1>50 DEF AbortedWs
<1>51. CASE SendAborted BY <1>51 DEF SendAborted
<1> QED BY <1>1, <1>2, <1>3, <1>4, <1>5, <1>6, <1>7, <1>8, <1>9, <1>10, <1>11,
        <1>12, <1>13, <1>14, <1>15, <1>16, <1>17, <1>18, <1>19, <1>20, <1>21,
        <1>22, <1>23, <1>24, <1>25, <1>26, <1>27, <1>28, <1>29, <1>30, <1>31,
        <1>32, <1>33, <1>34, <1>35, <1>36, <1>37, <1>38, <1>39, <1>40, <1>41,
        <1>42, <1>43, <1>44, <1>45, <1>46, <1>47, <1>48, <1>49, <1>50, <1>51 DEF ClientStep,
        WsLocal, WsConnect, ReceiveMore, ReceiveIdle, CallStep

\* A DATA event is posted and taken by the client's task under the lock.
LEMMA ClientData ==
    ASSUME WsTypeOK, LifeInv, DataInv, ClientStep
    PROVE  DataInv'
<1> USE DEF Dispatch, Event, Data, Plain, Opcodes, Tasks, WsAt, At, AppAt,
        AppFree, Step, Return, Goto, TakeLock, Error, Abortable, AbortClose, AbortTell,
        GotoBack, NoRx, client,
        loop, wsTask, appCall, Quiet, NoEvent, WsTypeOK, LifeInv,
        LockDiscipline, LockedBySelf, TaskLife, Dispatching, DataInv
<1>1. CASE Enter BY <1>1 DEF Enter
<1>2. CASE EnterInit BY <1>2 DEF EnterInit
<1>3. CASE Loop BY <1>3 DEF Loop
<1>4. CASE LoopLock BY <1>4 DEF LoopLock
<1>5. CASE SwitchInit BY <1>5 DEF SwitchInit
<1>6. CASE ConnectOk BY <1>6 DEF ConnectOk
<1>7. CASE ConnectRedirect BY <1>7 DEF ConnectRedirect
<1>8. CASE ConnectFail BY <1>8 DEF ConnectFail
<1>9. CASE Pending BY <1>9 DEF Pending
<1>10. CASE Relock BY <1>10 DEF Relock
<1>11. CASE SwitchConnected BY <1>11 DEF SwitchConnected
<1>12. CASE SwitchWait BY <1>12 DEF SwitchWait
<1>13. CASE SwitchClosing BY <1>13 DEF SwitchClosing
<1>14. CASE AbortWs BY <1>14 DEF AbortWs
<1>15. CASE Unlock BY <1>15 DEF Unlock
<1>16. CASE Select BY <1>16 DEF Select
<1>17. CASE SelectClosed BY <1>17 DEF SelectClosed
<1>18. CASE Finish BY <1>18 DEF Finish
<1>19. CASE Poll BY <1>19 DEF Poll
<1>20. CASE PollFailed BY <1>20 DEF PollFailed
<1>21. CASE PollData BY <1>21 DEF PollData
<1>22. CASE ReadFailed BY <1>22 DEF ReadFailed
<1>23. CASE ReadNothing BY <1>23 DEF ReadNothing
<1>24. CASE ReadMore BY <1>24 DEF ReadMore
<1>25. CASE ReadStalled BY <1>25 DEF ReadStalled
<1>26. CASE RecvNext BY <1>26 DEF RecvNext
<1>27. CASE RecvDone BY <1>27 DEF RecvDone
<1>28. CASE Close BY <1>28 DEF Close
<1>29. CASE Forget BY <1>29 DEF Forget
<1>30. CASE MarkStopped BY <1>30 DEF MarkStopped
<1>31. CASE StartCreate BY <1>31 DEF StartCreate
<1>32. CASE StartClear BY <1>32 DEF StartClear
<1>33. CASE SendCheck BY <1>33 DEF SendCheck
<1>34. CASE SendLock BY <1>34 DEF SendLock
<1>35. CASE SendLockTimeout BY <1>35 DEF SendLockTimeout
<1>36. CASE SendWritten BY <1>36 DEF SendWritten
<1>37. CASE SendFailed BY <1>37 DEF SendFailed
<1>38. CASE SendAbort BY <1>38 DEF SendAbort
<1>39. CASE SendUnlock BY <1>39 DEF SendUnlock
<1>40. CASE StopCheck BY <1>40 DEF StopCheck
<1>41. CASE DestroyCheck BY <1>41 DEF DestroyCheck
<1>42. CASE StopRun BY <1>42 DEF StopRun
<1>43. CASE StopBit BY <1>43 DEF StopBit
<1>44. CASE StopWait BY <1>44 DEF StopWait
<1>45. CASE \E t \in Tasks : Post(t) BY <1>45 DEF Post
<1>46. CASE \E t \in Tasks : Take(t) BY <1>46 DEF Take
<1>47. CASE \E t \in Tasks : Handled(t) BY <1>47 DEF Handled
<1>48. CASE \E t \in Tasks : Drained(t) BY <1>48 DEF Drained
<1>49. CASE \E op \in Opcodes, len \in 0..MaxLen : ReadStart(op, len)
  BY <1>49 DEF ReadStart
<1>50. CASE AbortedWs BY <1>50 DEF AbortedWs
<1>51. CASE SendAborted BY <1>51 DEF SendAborted
<1> QED BY <1>1, <1>2, <1>3, <1>4, <1>5, <1>6, <1>7, <1>8, <1>9, <1>10, <1>11,
        <1>12, <1>13, <1>14, <1>15, <1>16, <1>17, <1>18, <1>19, <1>20, <1>21,
        <1>22, <1>23, <1>24, <1>25, <1>26, <1>27, <1>28, <1>29, <1>30, <1>31,
        <1>32, <1>33, <1>34, <1>35, <1>36, <1>37, <1>38, <1>39, <1>40, <1>41,
        <1>42, <1>43, <1>44, <1>45, <1>46, <1>47, <1>48, <1>49, <1>50, <1>51 DEF ClientStep,
        WsLocal, WsConnect, ReceiveMore, ReceiveIdle, CallStep

\* run and state fall together.
LEMMA ClientRun ==
    ASSUME WsTypeOK, LockDiscipline, TaskLife, RunInv, ClientStep
    PROVE  RunInv'
<1> USE DEF Dispatch, Event, Data, Plain, Opcodes, Tasks, WsAt, At, AppAt,
        AppFree, Step, Return, Goto, TakeLock, Error, Abortable, AbortClose, AbortTell,
        GotoBack, NoRx, client,
        loop, wsTask, appCall, Quiet, NoEvent, WsTypeOK, LockDiscipline,
        LockedBySelf, TaskLife, RunInv, StopSet
<1>1. CASE Enter BY <1>1 DEF Enter
<1>2. CASE EnterInit BY <1>2 DEF EnterInit
<1>3. CASE Loop BY <1>3 DEF Loop
<1>4. CASE LoopLock BY <1>4 DEF LoopLock
<1>5. CASE SwitchInit BY <1>5 DEF SwitchInit
<1>6. CASE ConnectOk BY <1>6 DEF ConnectOk
<1>7. CASE ConnectRedirect BY <1>7 DEF ConnectRedirect
<1>8. CASE ConnectFail BY <1>8 DEF ConnectFail
<1>9. CASE Pending BY <1>9 DEF Pending
<1>10. CASE Relock BY <1>10 DEF Relock
<1>11. CASE SwitchConnected BY <1>11 DEF SwitchConnected
<1>12. CASE SwitchWait BY <1>12 DEF SwitchWait
<1>13. CASE SwitchClosing BY <1>13 DEF SwitchClosing
<1>14. CASE AbortWs BY <1>14 DEF AbortWs
<1>15. CASE Unlock BY <1>15 DEF Unlock
<1>16. CASE Select BY <1>16 DEF Select
<1>17. CASE SelectClosed BY <1>17 DEF SelectClosed
<1>18. CASE Finish BY <1>18 DEF Finish
<1>19. CASE Poll BY <1>19 DEF Poll
<1>20. CASE PollFailed BY <1>20 DEF PollFailed
<1>21. CASE PollData BY <1>21 DEF PollData
<1>22. CASE ReadFailed BY <1>22 DEF ReadFailed
<1>23. CASE ReadNothing BY <1>23 DEF ReadNothing
<1>24. CASE ReadMore BY <1>24 DEF ReadMore
<1>25. CASE ReadStalled BY <1>25 DEF ReadStalled
<1>26. CASE RecvNext BY <1>26 DEF RecvNext
<1>27. CASE RecvDone BY <1>27 DEF RecvDone
<1>28. CASE Close BY <1>28 DEF Close
<1>29. CASE Forget BY <1>29 DEF Forget
<1>30. CASE MarkStopped BY <1>30 DEF MarkStopped
<1>31. CASE StartCreate BY <1>31 DEF StartCreate
<1>32. CASE StartClear BY <1>32 DEF StartClear
<1>33. CASE SendCheck BY <1>33 DEF SendCheck
<1>34. CASE SendLock BY <1>34 DEF SendLock
<1>35. CASE SendLockTimeout BY <1>35 DEF SendLockTimeout
<1>36. CASE SendWritten BY <1>36 DEF SendWritten
<1>37. CASE SendFailed BY <1>37 DEF SendFailed
<1>38. CASE SendAbort BY <1>38 DEF SendAbort
<1>39. CASE SendUnlock BY <1>39 DEF SendUnlock
<1>40. CASE StopCheck BY <1>40 DEF StopCheck
<1>41. CASE DestroyCheck BY <1>41 DEF DestroyCheck
<1>42. CASE StopRun BY <1>42 DEF StopRun
<1>43. CASE StopBit BY <1>43 DEF StopBit
<1>44. CASE StopWait BY <1>44 DEF StopWait
<1>45. CASE \E t \in Tasks : Post(t) BY <1>45 DEF Post
<1>46. CASE \E t \in Tasks : Take(t) BY <1>46 DEF Take
<1>47. CASE \E t \in Tasks : Handled(t) BY <1>47 DEF Handled
<1>48. CASE \E t \in Tasks : Drained(t) BY <1>48 DEF Drained
<1>49. CASE \E op \in Opcodes, len \in 0..MaxLen : ReadStart(op, len)
  BY <1>49 DEF ReadStart
<1>50. CASE AbortedWs BY <1>50 DEF AbortedWs
<1>51. CASE SendAborted BY <1>51 DEF SendAborted
<1> QED BY <1>1, <1>2, <1>3, <1>4, <1>5, <1>6, <1>7, <1>8, <1>9, <1>10, <1>11,
        <1>12, <1>13, <1>14, <1>15, <1>16, <1>17, <1>18, <1>19, <1>20, <1>21,
        <1>22, <1>23, <1>24, <1>25, <1>26, <1>27, <1>28, <1>29, <1>30, <1>31,
        <1>32, <1>33, <1>34, <1>35, <1>36, <1>37, <1>38, <1>39, <1>40, <1>41,
        <1>42, <1>43, <1>44, <1>45, <1>46, <1>47, <1>48, <1>49, <1>50, <1>51 DEF ClientStep,
        WsLocal, WsConnect, ReceiveMore, ReceiveIdle, CallStep

-----------------------------------------------------------------------------

\* A step of the session outside the client's calls, the freeing of the handle
\* and the next session included.
SessionStep ==
    \/ AllocResponse \/ CreateEvents \/ InitClient \/ Register \/ Start \/ Started
    \/ WaitConnected \/ Record \/ MicFailed \/ MicNothing \/ MicSamples \/ Sent
    \/ KeyPressed \/ KeyIdle \/ SendMarker \/ Ended \/ WaitResponse
    \/ Stop \/ Destroy \/ DeleteEvents \/ FreeResponse \/ FreeHandle \/ Again

\* For the client a session's step is a call, a new handle or nothing.
SessionSeen ==
    \/ UNCHANGED wsVars
    \/ DestroyFree
    \/ \E f \in Calls : Call(f)
    \/ WsRenew

\* Every step is one of the client or one of the session.
LEMMA StepKinds ==
    ASSUME Next
    PROVE  (ClientStep /\ UNCHANGED <<v_pc, owned, result>>) \/ SessionStep
<1>1. CASE WsTask
  <2>1. CASE (WsLocal \/ ReceiveMore \/ ReceiveIdle) /\ UNCHANGED <<voice, bits, reply, peer>>
    BY <2>1 DEF ClientStep, voice
  <2>2. CASE Connect BY <2>2 DEF Connect, ClientStep, voice
  <2>3. CASE \E op \in Opcodes, len \in 0..MaxLen : Receive(op, len)
    BY <2>3 DEF Receive, ClientStep, voice
  <2>4. CASE Handle("ws") BY <2>4 DEF Handle, ClientStep, voice, Tasks
  <2> QED BY <1>1, <2>1, <2>2, <2>3, <2>4 DEF WsTask
<1>2. CASE InCall
  <2>1. CASE CallStep /\ UNCHANGED <<voice, bits, reply, peer>> BY <2>1 DEF ClientStep, voice
  <2>2. CASE CreateTask BY <2>2 DEF CreateTask, ClientStep, voice
  <2>3. CASE Written BY <2>3 DEF Written, ClientStep, voice
  <2>4. CASE FreeHandle BY <2>4 DEF SessionStep
  <2>5. CASE Handle("app") BY <2>5 DEF Handle, ClientStep, voice, Tasks
  <2> QED BY <1>2, <2>1, <2>2, <2>3, <2>4, <2>5 DEF InCall
<1>3. CASE VoiceTask /\ ~InCall BY <1>3 DEF VoiceTask, SessionStep
<1>4. CASE Again BY <1>4 DEF SessionStep
<1> QED BY <1>1, <1>2, <1>3, <1>4 DEF Next, VoiceTask

\* What a step of the session does to the client's variables.
LEMMA SessionIsSeen ==
    ASSUME SessionStep
    PROVE  SessionSeen
<1> USE DEF SessionSeen, VOnly, Calls
<1>1. CASE AllocResponse \/ CreateEvents \/ InitClient \/ Register \/ Started
  BY <1>1 DEF AllocResponse, CreateEvents, InitClient, Register, Started
<1>2. CASE WaitConnected \/ Record \/ MicFailed \/ MicNothing \/ Sent \/ KeyPressed \/ KeyIdle
  BY <1>2 DEF WaitConnected, Record, MicFailed, MicNothing, Sent, KeyPressed, KeyIdle
<1>3. CASE Ended \/ WaitResponse \/ DeleteEvents \/ FreeResponse
  BY <1>3 DEF Ended, WaitResponse, DeleteEvents, FreeResponse
<1>4. CASE Start \/ MicSamples \/ SendMarker \/ Stop \/ Destroy
  BY <1>4 DEF Start, MicSamples, SendMarker, Stop, Destroy, VCall
<1>5. CASE FreeHandle \/ Again BY <1>5 DEF FreeHandle, Again
<1> QED BY <1>1, <1>2, <1>3, <1>4, <1>5 DEF SessionStep

\* What a new handle and a new session start from is in range.
LEMMA InitialValues ==
    /\ Quiet \in [stage : {"off", "post", "drain", "handle"}, ev : Events]
    /\ EventOK(Quiet.ev)
    /\ NoRx \in [op : Opcodes \cup {"none"}, len : 0..MaxLen, off : 0..MaxLen]
    /\ NoRx.off <= NoRx.len
    /\ NoReply \in [op : Opcodes \cup {"none"}, len : 0..MaxLen,
                    got : 0..(ReplyCap - 1), cut : BOOLEAN, asked : BOOLEAN]
    /\ NewServer \in [marker : BOOLEAN, answered : BOOLEAN]
BY MaxLenAssumption, BufSizeAssumption, ReplyCapAssumption DEF Quiet, NoEvent, Event,
    EventOK, Events, Plain, Opcodes, NoRx,
   NoReply, NewServer

\* Calls, new handles and the freeing of one keep what holds of the client.
LEMMA SeenKeeps ==
    ASSUME WsType, DataInv, RunInv, Dispatching, SessionSeen
    PROVE  WsType' /\ DataInv' /\ RunInv'
<1> USE DEF WsType, WsTypeOK, EventsOK, EventOK, Receiving, DataInv, RunInv, StopSet,
            Abortable, client, loop, wsTask, appCall
<1>1. CASE UNCHANGED wsVars BY <1>1 DEF wsVars
<1>2. CASE DestroyFree BY <1>2 DEF DestroyFree, AppAt, Return, CallStates
<1>3. CASE \E f \in Calls : Call(f)
  BY <1>3 DEF Calls, Call, Step, AppFree, AppAt, CallStates
<1>4. CASE WsRenew
  <2>1. disp' = [t \in Tasks |-> Quiet] /\ queue' = <<>> /\ rx' = NoRx
    BY <1>4 DEF WsRenew
  <2>2. EventsOK' BY <2>1, InitialValues
  <2>3. Receiving' BY <1>4, InitialValues DEF WsRenew
  <2>4. WsTypeOK'
    <3>1. run' \in BOOLEAN /\ wait_pong' \in BOOLEAN BY <1>4 DEF WsRenew
    <3>2. disp' \in [Tasks -> [stage : {"off", "post", "drain", "handle"}, ev : Events]]
      BY <2>1, InitialValues
    <3>3. queue' \in Seq(Events) /\ Len(queue') <= 1 BY <2>1
    <3>4. rx' \in [op : Opcodes \cup {"none"}, len : 0..MaxLen, off : 0..MaxLen]
      BY <2>1, InitialValues
    <3> QED BY <1>4, <3>1, <3>2, <3>3, <3>4 DEF WsRenew, States, WsStates, CallStates
  <2>5. WsType' BY <2>2, <2>3, <2>4
  <2>6. DataInv' BY <1>4 DEF WsRenew, Quiet, NoEvent, Event, Tasks
  <2>7. RunInv' BY <1>4 DEF WsRenew
  <2> QED BY <2>5, <2>6, <2>7
<1> QED BY <1>1, <1>2, <1>3, <1>4 DEF SessionSeen

\* Every step of the session keeps what it holds and when the task lives: the
\* handle is freed behind the wait for STOPPED, the rest after it.
LEMMA SessionLife ==
    ASSUME TypeOK, LifeInv, SessionStep
    PROVE  LifeInv'
<1> USE DEF LifeInv, LockDiscipline, LockedBySelf, CallPhase, Ownership, TaskLife,
            Dispatching, Sending, Stopping, Destroying, Using, owned, wsVars, client,
            loop, wsTask, appCall, V, VCall, VOnly, AppFree, AppAt, At, Step, Call
<1>1. CASE AllocResponse BY <1>1 DEF AllocResponse
<1>2. CASE CreateEvents BY <1>2 DEF CreateEvents
<1>3. CASE InitClient BY <1>3 DEF InitClient
<1>4. CASE Register BY <1>4 DEF Register
<1>5. CASE Start BY <1>5 DEF Start
<1>6. CASE Started BY <1>6 DEF Started
<1>7. CASE WaitConnected BY <1>7 DEF WaitConnected
<1>8. CASE Record BY <1>8 DEF Record
<1>9. CASE MicFailed BY <1>9 DEF MicFailed
<1>10. CASE MicNothing BY <1>10 DEF MicNothing
<1>11. CASE MicSamples BY <1>11 DEF MicSamples
<1>12. CASE Sent BY <1>12 DEF Sent
<1>13. CASE KeyPressed BY <1>13 DEF KeyPressed
<1>14. CASE KeyIdle BY <1>14 DEF KeyIdle
<1>15. CASE SendMarker BY <1>15 DEF SendMarker
<1>16. CASE Ended BY <1>16 DEF Ended
<1>17. CASE WaitResponse BY <1>17 DEF WaitResponse
<1>18. CASE Stop BY <1>18 DEF Stop
<1>19. CASE Destroy BY <1>19 DEF Destroy
<1>20. CASE DeleteEvents BY <1>20 DEF DeleteEvents
<1>21. CASE FreeResponse BY <1>21 DEF FreeResponse
<1>22. CASE FreeHandle BY <1>22 DEF FreeHandle, DestroyFree, Return
<1>23. CASE Again BY <1>23 DEF Again, WsRenew, Quiet, Tasks
<1> QED BY <1>1, <1>2, <1>3, <1>4, <1>5, <1>6, <1>7, <1>8, <1>9, <1>10, <1>11,
        <1>12, <1>13, <1>14, <1>15, <1>16, <1>17, <1>18, <1>19, <1>20, <1>21,
        <1>22, <1>23 DEF SessionStep

-----------------------------------------------------------------------------

\* The session's own variables.
VoiceTypeOK ==
    /\ v_pc \in VStates
    /\ response \in {"none", "live", "handed", "freed"}
    /\ events \in {"none", "live", "freed"} /\ handle \in {"none", "live", "freed"}
    /\ bits \subseteq Bits
    /\ reply \in [op : Opcodes \cup {"none"}, len : 0..MaxLen,
                  got : 0..(ReplyCap - 1), cut : BOOLEAN, asked : BOOLEAN]
    /\ result \in {"none", "null", "reply"}
    /\ server \in [marker : BOOLEAN, answered : BOOLEAN] /\ asked \in BOOLEAN

\* The handler writes into the reply at most what the event carries.
LEMMA HandlerTypes ==
    ASSUME TypeInv, NEW t \in Tasks, Handle(t)
    PROVE  VoiceTypeOK'
<1> DEFINE e == disp[t].ev
<1>1. EventOK(e) BY DEF TypeInv, EventsOK
<1>2. VoiceTypeOK BY DEF TypeInv, TypeOK, VoiceTypeOK
<1>3. HandleEvent(e) /\ UNCHANGED <<voice, peer>> BY DEF Handle
<1>4. e \in Events /\ e.off + e.n \in 0..MaxLen /\ e.n \in 0..MaxLen /\ e.len \in 0..MaxLen
  BY <1>1, MaxLenAssumption, BufSizeAssumption DEF EventOK, Events
<1>5. e.op \in Opcodes \cup {"none"} BY <1>1 DEF EventOK, Events
<1> HIDE DEF e
<1>6. bits' \subseteq Bits
  BY <1>2, <1>3 DEF HandleEvent, Announce, VoiceTypeOK, Bits
<1>7. reply' \in [op : Opcodes \cup {"none"}, len : 0..MaxLen,
                  got : 0..(ReplyCap - 1), cut : BOOLEAN, asked : BOOLEAN]
  <2>1. CASE UNCHANGED reply BY <1>2, <2>1 DEF VoiceTypeOK
  <2>2. CASE AppendData(e)
    <3> DEFINE start == IF e.off = 0 THEN 0 ELSE reply.got
               room  == ReplyCap - start - 1
               from  == IF e.off = 0
                        THEN [NoReply EXCEPT !.op = e.op, !.len = e.len, !.asked = asked]
                        ELSE reply
               got   == IF e.n > room THEN ReplyCap - 1 ELSE start + e.n
               cut   == from.cut \/ e.n > room
    <3>1. start \in 0..(ReplyCap - 1) BY <1>2, ReplyCapAssumption DEF VoiceTypeOK
    <3>2. from \in [op : Opcodes \cup {"none"}, len : 0..MaxLen,
                    got : 0..(ReplyCap - 1), cut : BOOLEAN, asked : BOOLEAN]
      <4>1. asked \in BOOLEAN BY <1>2 DEF VoiceTypeOK
      <4>2. CASE e.off = 0 BY <1>4, <1>5, <4>1, <4>2, InitialValues
      <4>3. CASE e.off # 0 BY <1>2, <4>3 DEF VoiceTypeOK
      <4> QED BY <4>2, <4>3
    <3>3. got \in 0..(ReplyCap - 1) BY <1>4, <3>1, ReplyCapAssumption
    <3>4. cut \in BOOLEAN BY <3>2
    <3>5. reply' = [from EXCEPT !.got = got, !.cut = cut] BY <2>2 DEF AppendData
    <3> HIDE DEF start, room, from, got, cut
    <3> QED BY <3>2, <3>3, <3>4, <3>5
  <2> QED BY <1>3, <2>1, <2>2 DEF HandleEvent
<1> QED BY <1>2, <1>3, <1>6, <1>7 DEF VoiceTypeOK, voice, owned, peer

\* Every step keeps the session's own types.
LEMMA VoiceTypes ==
    ASSUME TypeInv, Next
    PROVE  VoiceTypeOK'
<1>0. VoiceTypeOK BY DEF TypeInv, TypeOK, VoiceTypeOK
<1> USE <1>0 DEF VoiceTypeOK, VStates, Bits, voice, owned, peer
<1>1. CASE UNCHANGED <<voice, bits, reply, peer>> BY <1>1
<1>2. CASE Connect BY <1>2 DEF Connect, NewServer
<1>3. CASE \E op \in Opcodes, len \in 0..MaxLen : Receive(op, len)
  <2>1. UNCHANGED <<voice, bits, reply>> BY <1>3 DEF Receive
  <2>2. PICK op \in Opcodes : asked' = server.marker
                             /\ server' = [server EXCEPT !.answered = @ \/ op = "text"]
    BY <1>3 DEF Receive
  <2>3. server' \in [marker : BOOLEAN, answered : BOOLEAN] /\ asked' \in BOOLEAN
    BY <2>2
  <2> QED BY <2>1, <2>3
<1>4. CASE \E t \in Tasks : Handle(t) BY <1>4, HandlerTypes
<1>5. CASE Written
  <2>1. server' \in [marker : BOOLEAN, answered : BOOLEAN] BY <1>5 DEF Written
  <2> QED BY <1>5, <2>1 DEF Written
<1>6. CASE SessionStep
  <2> USE DEF V, VCall, VOnly
  <2>1. CASE AllocResponse BY <2>1 DEF AllocResponse
  <2>2. CASE CreateEvents BY <2>2 DEF CreateEvents
  <2>3. CASE InitClient BY <2>3 DEF InitClient
  <2>4. CASE Register BY <2>4 DEF Register
  <2>5. CASE Start BY <2>5 DEF Start
  <2>6. CASE Started BY <2>6 DEF Started
  <2>7. CASE WaitConnected BY <2>7 DEF WaitConnected
  <2>8. CASE Record BY <2>8 DEF Record
  <2>9. CASE MicFailed BY <2>9 DEF MicFailed
  <2>10. CASE MicNothing BY <2>10 DEF MicNothing
  <2>11. CASE MicSamples BY <2>11 DEF MicSamples
  <2>12. CASE Sent BY <2>12 DEF Sent
  <2>13. CASE KeyPressed BY <2>13 DEF KeyPressed
  <2>14. CASE KeyIdle BY <2>14 DEF KeyIdle
  <2>15. CASE SendMarker BY <2>15 DEF SendMarker
  <2>16. CASE Ended BY <2>16 DEF Ended
  <2>17. CASE WaitResponse BY <2>17 DEF WaitResponse
  <2>18. CASE Stop BY <2>18 DEF Stop
  <2>19. CASE Destroy BY <2>19 DEF Destroy
  <2>20. CASE DeleteEvents BY <2>20 DEF DeleteEvents
  <2>21. CASE FreeResponse BY <2>21 DEF FreeResponse
  <2>22. CASE FreeHandle BY <2>22 DEF FreeHandle
  <2>23. CASE Again
    BY <2>23, InitialValues DEF Again
  <2> QED BY <1>6, <2>1, <2>2, <2>3, <2>4, <2>5, <2>6, <2>7, <2>8, <2>9,
          <2>10, <2>11, <2>12, <2>13, <2>14, <2>15, <2>16, <2>17, <2>18,
          <2>19, <2>20, <2>21, <2>22, <2>23 DEF SessionStep
<1> QED
  BY <1>1, <1>2, <1>3, <1>4, <1>5, <1>6
     DEF Next, WsTask, VoiceTask, InCall, CreateTask, SessionStep, Tasks

-----------------------------------------------------------------------------

LEMMA InitHolds == Init => IInv
<1> SUFFICES ASSUME Init PROVE IInv OBVIOUS
<1> USE DEF Init, WsInit, VoiceInit
<1>1. WsType
  <2>1. EventsOK BY InitialValues DEF EventsOK
  <2>2. Receiving BY InitialValues DEF Receiving
  <2>3. run \in BOOLEAN /\ wait_pong \in BOOLEAN OBVIOUS
  <2>4. disp \in [Tasks -> [stage : {"off", "post", "drain", "handle"}, ev : Events]]
    BY InitialValues
  <2>5. queue \in Seq(Events) /\ Len(queue) <= 1 OBVIOUS
  <2>6. rx \in [op : Opcodes \cup {"none"}, len : 0..MaxLen, off : 0..MaxLen]
    BY InitialValues
  <2>7. WsTypeOK BY <2>3, <2>4, <2>5, <2>6 DEF WsTypeOK, States, WsStates, CallStates
  <2> QED BY <2>1, <2>2, <2>7 DEF WsType
<1>2. VoiceTypeOK BY InitialValues DEF VoiceTypeOK, VStates
<1>3. LifeInv
  BY DEF LifeInv, LockDiscipline, LockedBySelf, CallPhase, Ownership, TaskLife,
     Dispatching, Sending, Stopping, Destroying, Using, Quiet, Tasks
<1>4. DataInv BY DEF DataInv, Quiet, NoEvent, Event, Tasks
<1>5. RunInv BY DEF RunInv
<1> QED BY <1>1, <1>2, <1>3, <1>4, <1>5 DEF IInv, TypeInv, TypeOK, WsType, VoiceTypeOK

LEMMA StepHolds == IInv /\ [Next]_vars => IInv'
<1> SUFFICES ASSUME IInv, [Next]_vars PROVE IInv' OBVIOUS
<1>0. /\ TypeOK /\ WsTypeOK /\ WsType /\ TypeInv /\ LifeInv /\ DataInv /\ RunInv
      /\ LockDiscipline /\ TaskLife /\ Dispatching
  BY DEF IInv, TypeInv, TypeOK, WsType, LifeInv
<1>1. CASE UNCHANGED vars
  BY <1>1 DEF IInv, TypeInv, TypeOK, WsTypeOK, EventsOK, EventOK, Receiving, LifeInv,
     LockDiscipline, CallPhase, Ownership, TaskLife, Dispatching, DataInv, RunInv,
     Abortable, vars,
     wsVars, client, loop, wsTask, appCall, voice, owned, peer
<1>2. CASE Next
  <2>1. VoiceTypeOK' BY <1>0, <1>2, VoiceTypes
  <2>2. WsType' /\ LifeInv' /\ DataInv' /\ RunInv'
    <3>1. CASE ClientStep /\ UNCHANGED <<v_pc, owned, result>>
      BY <1>0, <3>1, ClientTypes, ClientLife, ClientData, ClientRun
    <3>2. CASE SessionStep
      BY <1>0, <3>2, SessionIsSeen, SeenKeeps, SessionLife
    <3> QED BY <1>2, <3>1, <3>2, StepKinds
  <2> QED BY <2>1, <2>2 DEF IInv, TypeInv, TypeOK, WsType, VoiceTypeOK
<1> QED BY <1>1, <1>2

\* Of whatever length the messages, whatever the server and however the two
\* tasks are scheduled, IInv holds.
THEOREM InductiveInvariant == Spec => []IInv
<1>1. Init => IInv BY InitHolds
<1>2. IInv /\ [Next]_vars => IInv' BY StepHolds
<1> QED BY <1>1, <1>2, PTL DEF Spec

-----------------------------------------------------------------------------

\* IInv says what the properties need of the moments they speak about.
LEMMA InvariantSuffices ==
    IInv => /\ TypeOK /\ LockDiscipline /\ ConnectedMeansOpen
            /\ NoUseAfterFree /\ NothingLeaked /\ DataHandledByClientTask
<1> SUFFICES ASSUME IInv
             PROVE  /\ TypeOK /\ LockDiscipline /\ ConnectedMeansOpen
                    /\ NoUseAfterFree /\ NothingLeaked /\ DataHandledByClientTask
    OBVIOUS
<1> USE DEF IInv, TypeInv, LifeInv
<1>1. TypeOK /\ LockDiscipline OBVIOUS
<1>2. ConnectedMeansOpen
  BY DEF RunInv, ConnectedMeansOpen, StopSet, LockDiscipline, LockedBySelf
<1>3. ws_pc \notin {"absent", "gone"} =>
        response = "live" /\ events = "live" /\ handle = "live"
  BY DEF TypeOK, VStates, TaskLife, Ownership, Using
<1>4. call # "none" => response = "live" /\ events = "live" /\ handle = "live"
  BY DEF TypeOK, WsTypeOK, CallStates, CallPhase, Ownership, Using, Sending, Stopping,
     Destroying
<1>5. NoUseAfterFree
  BY <1>3, <1>4 DEF NoUseAfterFree, Dispatching, Tasks
<1>6. NothingLeaked
  <2> SUFFICES ASSUME v_pc = "returned"
               PROVE  /\ events \in {"none", "freed"} /\ handle \in {"none", "freed"}
                      /\ response = IF result = "reply" THEN "handed"
                                    ELSE IF response = "none" THEN "none" ELSE "freed"
                      /\ ws_pc \in {"absent", "gone"} /\ lock = "none"
    BY DEF NothingLeaked
  <2>1. call = "none"
    BY DEF TypeOK, WsTypeOK, CallStates, CallPhase, Sending, Stopping, Destroying
  <2>2. ws_pc \in {"absent", "gone"} BY DEF TaskLife
  <2>3. lock = "none"
    BY <2>1, <2>2 DEF LockDiscipline, LockedBySelf, TypeOK, WsTypeOK
  <2> QED BY <2>2, <2>3 DEF Ownership
<1>7. DataHandledByClientTask BY DEF DataInv, DataHandledByClientTask
<1> QED BY <1>1, <1>2, <1>5, <1>6, <1>7

\* Types hold of client and session.
THEOREM TypeCorrect == Spec => []TypeOK
<1>1. IInv => TypeOK BY InvariantSuffices
<1> QED BY <1>1, InductiveInvariant, PTL

\* Receive and send never overlap: each task (esp_websocket_client.c) connects,
\* receives, writes and aborts under the lock and gives it back whichever way it
\* leaves; only the poll and the last close are outside.
THEOREM LocksBalanced == Spec => []LockDiscipline
<1>1. IInv => LockDiscipline BY InvariantSuffices
<1> QED BY <1>1, InductiveInvariant, PTL

\* Outside of stop and destroy the state says CONNECTED of a closed connection only
\* between the two lines of abort_connection, to which the lock belongs: a send let
\* through by its check there does not find that state under the lock.
THEOREM OpenWhileConnected == Spec => []ConnectedMeansOpen
<1>1. IInv => ConnectedMeansOpen BY InvariantSuffices
<1> QED BY <1>1, InductiveInvariant, PTL

\* No handler and no task uses the session's memory after it was freed.
THEOREM MemorySafe == Spec => []NoUseAfterFree
<1>1. IInv => NoUseAfterFree BY InvariantSuffices
<1> QED BY <1>1, InductiveInvariant, PTL

\* Every way out of voice_stream_pcm_websocket frees what it allocated, and the
\* client's task is over.
THEOREM AllReleased == Spec => []NothingLeaked
<1>1. IInv => NothingLeaked BY InvariantSuffices
<1> QED BY <1>1, InductiveInvariant, PTL

\* The voice task, draining the shared queue, never handles a DATA event.
THEOREM DataByClientTask == Spec => []DataHandledByClientTask
<1>1. IInv => DataHandledByClientTask BY InvariantSuffices
<1> QED BY <1>1, InductiveInvariant, PTL
-----------------------------------------------------------------------------
(* The reply under a polite server.  What is peculiar to it is that one     *)
(* text message comes per session at most: a marker is sent once, and a     *)
(* connection made after it was lost has not read it.                       *)

\* The end marker has been sent, or will not be any more.
AfterMarker ==
    \/ v_pc \in {"wait_resp", "stop", "destroy", "delete", "free", "returned"}
    \/ v_pc = "ended" /\ call \in {"none", "send_abort", "send_aborted", "send_unlock"}

\* Events that carry a piece of a message, on their way to the handler.
Piece(e) == e.name = "DATA" /\ e.n > 0
AtTask   == disp["ws"].stage \in {"post", "handle"} /\ Piece(disp["ws"].ev)
InQueue  == queue # <<>> /\ Piece(Head(queue))

\* e is the last piece read of the message being received.
LastRead(e) == /\ ws_pc = "recv_next" /\ rx.op = "text" /\ e.op = "text"
               /\ e.len = rx.len /\ e.off + e.n = rx.off

\* The buffer has taken the first n bytes of that message.
Holds(n) == IF n = 0 THEN reply.op = "none"
            ELSE reply.op = "text" /\ reply.asked /\ reply.len = rx.len /\ Kept(n)

\* Text comes after the marker only, and once.
TextOnce ==
    /\ server.marker => AfterMarker
    /\ ~AfterMarker \/ (server.marker /\ ~server.answered) =>
          reply.op = "none" /\ rx.op # "text"
    /\ rx.op # "text" => rx.len = 0

\* Of a text being received the handler has had every piece but the last read.
InOrder ==
    /\ AtTask  => LastRead(disp["ws"].ev) /\ Holds(disp["ws"].ev.off)
    /\ InQueue => LastRead(Head(queue)) /\ Holds(Head(queue).off)
    /\ rx.op = "text" => /\ asked /\ rx.off > 0 /\ rx.len > 0
                         /\ ~AtTask /\ ~InQueue => Holds(rx.off)

\* RESPONSE announces a text that was received to its end.
AnnouncedWhole ==
    /\ "RESPONSE" \in bits => reply.op = "text" /\ reply.asked /\ Kept(reply.len)
    /\ result = "reply" => "RESPONSE" \in bits

AnswerInv == TextOnce /\ InOrder /\ AnnouncedWhole

\* The client, with its variables and the calls made of it, but for the steps
\* that the server or the handler see.
LEMMA AnswerClient ==
    ASSUME WsType, LifeInv, DataInv, AnswerInv,
           WsLocal \/ ReceiveMore \/ ReceiveIdle \/ CallStep \/ StartCreate,
           UNCHANGED <<voice, bits, reply, peer>>
    PROVE  AnswerInv'
<1> USE DEF Dispatch, Event, Data, Plain, Opcodes, Tasks, WsAt, At, AppAt, AppFree,
        Step, Return, Goto, TakeLock, Error, Abortable, AbortClose, AbortTell, GotoBack,
        NoRx, client, loop, wsTask,
        appCall, Quiet, NoEvent, WsType, WsTypeOK, EventsOK, EventOK,
        Receiving, LifeInv, LockDiscipline, LockedBySelf, CallPhase, Sending,
        Stopping, Destroying, Dispatching, DataInv, AnswerInv, TextOnce,
        InOrder, AnnouncedWhole, AfterMarker, Piece, AtTask, InQueue, LastRead,
        Holds, Kept, voice, peer
<1>1. CASE Enter BY <1>1 DEF Enter
<1>2. CASE EnterInit BY <1>2 DEF EnterInit
<1>3. CASE Loop BY <1>3 DEF Loop
<1>4. CASE LoopLock BY <1>4 DEF LoopLock
<1>5. CASE SwitchInit BY <1>5 DEF SwitchInit
<1>6. CASE Pending BY <1>6 DEF Pending
<1>7. CASE Relock BY <1>7 DEF Relock
<1>8. CASE SwitchConnected BY <1>8 DEF SwitchConnected
<1>9. CASE SwitchWait BY <1>9 DEF SwitchWait
<1>10. CASE SwitchClosing BY <1>10 DEF SwitchClosing
<1>11. CASE AbortWs BY <1>11 DEF AbortWs
<1>12. CASE Unlock BY <1>12 DEF Unlock
<1>13. CASE Select BY <1>13 DEF Select
<1>14. CASE SelectClosed BY <1>14 DEF SelectClosed
<1>15. CASE Finish BY <1>15 DEF Finish
<1>16. CASE Poll BY <1>16 DEF Poll
<1>17. CASE PollFailed BY <1>17 DEF PollFailed
<1>18. CASE PollData BY <1>18 DEF PollData
<1>19. CASE ReadFailed BY <1>19 DEF ReadFailed
<1>20. CASE ReadNothing BY <1>20 DEF ReadNothing
<1>21. CASE ReadMore
  <2>1. PICK n \in Chunks(rx.len - rx.off) :
           /\ rx' = [rx EXCEPT !.off = @ + n]
           /\ Dispatch("ws", Data(rx.op, rx.off, rx.len, n))
    BY <1>21 DEF ReadMore
  <2>2. n \in 1..BufSize /\ n <= rx.len - rx.off BY <2>1 DEF Chunks
  <2>3. rx.off \in Nat /\ rx.len \in Nat /\ n \in Nat
    BY <2>2, MaxLenAssumption, BufSizeAssumption
  <2>4. rx.op = "text" BY <2>2, <2>3
  <2>5. ~AtTask /\ ~InQueue /\ Holds(rx.off) /\ asked BY <1>21, <2>4 DEF ReadMore
  <2>6. rx' = [rx EXCEPT !.off = rx.off + n] /\ ws_pc' = "recv_next"
        /\ disp' = [disp EXCEPT !["ws"] =
                       [stage |-> "post", ev |-> Data(rx.op, rx.off, rx.len, n)]]
    BY <1>21, <2>1 DEF ReadMore
  <2>7. LastRead(disp["ws"].ev)' BY <2>3, <2>4, <2>6
  <2> QED BY <1>21, <2>3, <2>4, <2>5, <2>6, <2>7 DEF ReadMore
<1>22. CASE ReadStalled BY <1>22 DEF ReadStalled
<1>23. CASE RecvNext BY <1>23 DEF RecvNext
<1>24. CASE RecvDone BY <1>24 DEF RecvDone
<1>25. CASE Close BY <1>25 DEF Close
<1>26. CASE Forget BY <1>26 DEF Forget
<1>27. CASE MarkStopped BY <1>27 DEF MarkStopped
<1>28. CASE StartCreate BY <1>28 DEF StartCreate
<1>29. CASE StartClear BY <1>29 DEF StartClear
<1>30. CASE SendCheck BY <1>30 DEF SendCheck
<1>31. CASE SendLock BY <1>31 DEF SendLock
<1>32. CASE SendLockTimeout BY <1>32 DEF SendLockTimeout
<1>33. CASE SendFailed BY <1>33 DEF SendFailed
<1>34. CASE SendAbort BY <1>34 DEF SendAbort
<1>35. CASE SendUnlock BY <1>35 DEF SendUnlock
<1>36. CASE StopCheck BY <1>36 DEF StopCheck
<1>37. CASE DestroyCheck BY <1>37 DEF DestroyCheck
<1>38. CASE StopRun BY <1>38 DEF StopRun
<1>39. CASE StopBit BY <1>39 DEF StopBit
<1>40. CASE StopWait BY <1>40 DEF StopWait
<1>41. CASE \E t \in Tasks : Post(t) BY <1>41 DEF Post
<1>42. CASE \E t \in Tasks : Take(t) BY <1>42 DEF Take
<1>43. CASE \E t \in Tasks : Drained(t) BY <1>43 DEF Drained
<1>44. CASE AbortedWs BY <1>44 DEF AbortedWs
<1>45. CASE SendAborted BY <1>45 DEF SendAborted
<1> HIDE DEF WsType, LifeInv, DataInv, AnswerInv, voice, peer
<1> QED BY <1>1, <1>2, <1>3, <1>4, <1>5, <1>6, <1>7, <1>8, <1>9, <1>10, <1>11,
        <1>12, <1>13, <1>14, <1>15, <1>16, <1>17, <1>18, <1>19, <1>20, <1>21,
        <1>22, <1>23, <1>24, <1>25, <1>26, <1>27, <1>28, <1>29, <1>30, <1>31,
        <1>32, <1>33, <1>34, <1>35, <1>36, <1>37, <1>38, <1>39, <1>40, <1>41,
        <1>42, <1>43, <1>44, <1>45 DEF WsLocal, ReceiveMore, ReceiveIdle, CallStep

\* The server answers once, and what it sends reaches the client in a piece
\* that starts a message.
LEMMA AnswerServer ==
    ASSUME Polite, TypeInv, LifeInv, DataInv, AnswerInv,
           \/ Connect
           \/ \E op \in Opcodes, len \in 0..MaxLen : Receive(op, len)
           \/ Written
    PROVE  AnswerInv'
<1>0. server \in [marker : BOOLEAN, answered : BOOLEAN]
  BY DEF TypeInv, TypeOK
<1> USE DEF TypeInv, TypeOK, WsTypeOK, EventsOK, EventOK, Receiving, LifeInv, LockDiscipline,
        LockedBySelf, CallPhase, Sending, Dispatching, DataInv, AnswerInv, TextOnce,
        InOrder, AnnouncedWhole, AfterMarker, Piece, AtTask, InQueue, LastRead, Holds,
        Kept, Tasks, Dispatch, Event, client, loop, wsTask, appCall, voice, peer, WsAt, AppAt, At,
        Goto, Step, NoRx
<1>1. CASE Connect
  <2>1. CASE ConnectOk BY <1>1, <2>1 DEF Connect, ConnectOk, NewServer
  <2>2. CASE ConnectRedirect BY <1>1, <2>2 DEF Connect, ConnectRedirect, NewServer
  <2>3. CASE ConnectFail BY <1>1, <2>3 DEF Connect, ConnectFail, NewServer, Error
  <2> QED BY <1>1, <2>1, <2>2, <2>3 DEF Connect, WsConnect
<1>2. CASE Written
  <2>1. server' = [server EXCEPT !.marker = @ \/ v_pc = "ended"] BY <1>2 DEF Written
  <2>2. (server'.marker => server.marker \/ v_pc = "ended") BY <1>0, <2>1
  <2>3. UNCHANGED <<voice, bits, reply, asked, disp, queue, rx, ws_pc>>
        /\ call = "send_write" /\ call' = "send_unlock"
    BY <1>2 DEF Written, SendWritten
  <2>4. ~AfterMarker /\ v_pc \in {"sent", "ended"} BY <2>3
  <2>5. TextOnce' BY <2>2, <2>3, <2>4
  <2>6. InOrder' BY <2>3
  <2>7. AnnouncedWhole' BY <2>3
  <2> QED BY <2>5, <2>6, <2>7
<1>3. CASE \E op \in Opcodes, len \in 0..MaxLen : Receive(op, len)
  <2>1. PICK op \in Opcodes, len \in 0..MaxLen : Receive(op, len) BY <1>3
  <2>2. server' = [server EXCEPT !.answered = @ \/ op = "text"] /\ asked' = server.marker
    BY <2>1 DEF Receive
  <2>3. server'.marker = server.marker BY <1>0, <2>2
  <2>4. server.answered \/ op = "text" => server'.answered BY <1>0, <2>2
  <2>5. UNCHANGED <<voice, bits, reply, queue, call>> /\ rx = NoRx /\ ReadStart(op, len)
    BY <2>1 DEF Receive, ReadStart
  <2>6. ~AtTask /\ ~InQueue BY <2>5
  <2>7. CASE op = "text"
    <3>1. server.marker /\ ~server.answered /\ len > 0 BY <2>1, <2>7 DEF Receive
    <3>2. TextOnce'
      <4>1. AfterMarker' BY <2>5, <3>1
      <4>2. server'.answered BY <2>4, <2>7
      <4>3. rx'.op = "text" BY <2>5, <2>7 DEF ReadStart
      <4> QED BY <4>1, <4>2, <4>3
    <3>3. PICK n \in Chunks(len) :
             /\ rx' = [op |-> "text", len |-> len, off |-> n] /\ ws_pc' = "recv_next"
             /\ disp' = [disp EXCEPT !["ws"] =
                            [stage |-> "post", ev |-> Data("text", 0, len, n)]]
      BY <2>5, <2>7, <3>1, len # 0 DEF ReadStart
    <3>4. n \in Nat \ {0} BY <3>3, BufSizeAssumption DEF Chunks
    <3>5. AtTask' /\ LastRead(disp["ws"].ev)' /\ disp'["ws"].ev.off = 0
      BY <3>3, <3>4 DEF Data
    <3>6. ~InQueue' BY <2>5, <2>6
    <3>7. reply'.op = "none" BY <2>5, <3>1
    <3>8. asked' BY <2>2, <3>1
    <3>9. InOrder'
      <4>1. rx'.off > 0 /\ rx'.len > 0 BY <3>1, <3>3, <3>4
      <4>2. Holds(disp["ws"].ev.off)' BY <3>5, <3>7
      <4> QED BY <3>5, <3>6, <3>8, <4>1, <4>2
    <3>10. AnnouncedWhole' BY <2>5, <3>1
    <3> QED BY <3>2, <3>9, <3>10
  <2>8. CASE op # "text"
    <3>1. len = 0 BY <2>1, <2>8 DEF Receive
    <3>2. /\ rx'.op # "text" /\ rx'.len = 0 /\ disp'["ws"].ev.n = 0
      BY <2>5, <2>8, <3>1 DEF ReadStart, Data
    <3>3. TextOnce' BY <2>3, <2>4, <2>5, <3>2
    <3>4. ~AtTask' /\ ~InQueue' BY <2>5, <2>6, <3>2
    <3>5. InOrder' BY <3>2, <3>4
    <3>6. AnnouncedWhole' BY <2>5
    <3> QED BY <3>3, <3>5, <3>6
  <2> QED BY <2>7, <2>8
<1> QED BY <1>1, <1>2, <1>3

\* A piece is put behind those before it, as far as there is room.
LEMMA PieceKept ==
    ASSUME NEW e, e.off \in Nat, e.n \in Nat \ {0}, AppendData(e),
           e.off = 0 \/ (Kept(e.off) /\ reply.op = "text" /\ reply.asked /\ reply.len = e.len),
           e.off = 0 => e.op = "text" /\ asked,
           reply \in [op : Opcodes \cup {"none"}, len : 0..MaxLen,
                      got : 0..(ReplyCap - 1), cut : BOOLEAN, asked : BOOLEAN]
    PROVE  /\ reply'.op = "text" /\ reply'.asked /\ reply'.len = e.len
           /\ reply'.got = IF e.off + e.n < ReplyCap THEN e.off + e.n ELSE ReplyCap - 1
           /\ reply'.cut <=> e.off + e.n >= ReplyCap
<1>1. CASE e.off = 0
  <2> DEFINE from == [NoReply EXCEPT !.op = e.op, !.len = e.len, !.asked = asked]
             got  == IF e.n > ReplyCap - 0 - 1 THEN ReplyCap - 1 ELSE 0 + e.n
             cut  == from.cut \/ e.n > ReplyCap - 0 - 1
  <2>1. reply' = [from EXCEPT !.got = got, !.cut = cut] BY <1>1 DEF AppendData
  <2>2. /\ from.op = "text" /\ from.len = e.len /\ from.asked = asked /\ from.cut = FALSE
        /\ DOMAIN from = {"op", "len", "got", "cut", "asked"}
    BY <1>1 DEF NoReply
  <2>3. got = IF e.n < ReplyCap THEN e.n ELSE ReplyCap - 1 BY ReplyCapAssumption
  <2>4. cut <=> e.n >= ReplyCap BY <2>2, ReplyCapAssumption
  <2> HIDE DEF from, got, cut
  <2>5. /\ reply'.op = from.op /\ reply'.len = from.len /\ reply'.asked = from.asked
        /\ reply'.got = got /\ reply'.cut = cut
    BY <2>1, <2>2
  <2>6. e.off + e.n = e.n BY <1>1
  <2> QED BY <1>1, <2>2, <2>3, <2>4, <2>5, <2>6
<1>2. CASE e.off # 0
  <2>1. reply' = [reply EXCEPT !.got = IF e.n > ReplyCap - reply.got - 1 THEN ReplyCap - 1
                                       ELSE reply.got + e.n,
                               !.cut = reply.cut \/ e.n > ReplyCap - reply.got - 1]
    BY <1>2 DEF AppendData
  <2>2. /\ reply'.op = reply.op /\ reply'.asked = reply.asked /\ reply'.len = reply.len
        /\ reply'.got = IF e.n > ReplyCap - reply.got - 1 THEN ReplyCap - 1
                        ELSE reply.got + e.n
        /\ reply'.cut = (reply.cut \/ e.n > ReplyCap - reply.got - 1)
    BY <2>1
  <2>3. CASE e.off < ReplyCap
    <3>1. reply.got = e.off /\ ~reply.cut BY <1>2, <2>3, ReplyCapAssumption DEF Kept
    <3> QED BY <1>2, <2>2, <2>3, <3>1, ReplyCapAssumption
  <2>4. CASE e.off >= ReplyCap
    <3>1. reply.got = ReplyCap - 1 /\ reply.cut BY <1>2, <2>4, ReplyCapAssumption DEF Kept
    <3> QED BY <1>2, <2>2, <2>4, <3>1, ReplyCapAssumption
  <2> QED BY <2>3, <2>4, ReplyCapAssumption
<1> QED BY <1>1, <1>2

\* The handler puts each piece behind those before it.
LEMMA AnswerHandler ==
    ASSUME TypeInv, LifeInv, DataInv, AnswerInv, NEW t \in Tasks, Handle(t)
    PROVE  AnswerInv'
<1> USE DEF TypeInv, TypeOK, WsTypeOK, EventsOK, EventOK, Receiving, LifeInv,
        Dispatching, DataInv, AnswerInv, TextOnce, InOrder, AnnouncedWhole,
        AfterMarker, Piece, AtTask, InQueue, LastRead, Holds, Kept, Tasks, Handle, Handled,
        client, loop, wsTask, appCall, voice, peer
<1>1. CASE Piece(disp[t].ev)
  <2> DEFINE e == disp["ws"].ev
  <2>1. t = "ws" /\ disp["ws"].stage = "handle" BY <1>1
  <2>2. LastRead(e) /\ asked /\ Holds(e.off)
    BY <1>1, <2>1
  <2>3. /\ e.off \in Nat /\ e.len \in Nat /\ e.n \in Nat \ {0} /\ e.op = "text"
        /\ e.off + e.n = rx.off /\ e.len = rx.len /\ rx.off <= rx.len /\ rx.op = "text"
    BY <1>1, <2>1, <2>2, MaxLenAssumption, BufSizeAssumption DEF Events
  <2>4. AppendData(e) BY <1>1, <2>1 DEF HandleEvent
  <2>5. "RESPONSE" \in bits' => "RESPONSE" \in bits \/ rx.len <= rx.off
    BY <1>1, <2>1, <2>3 DEF HandleEvent, Announce, Last
  <2>6. bits \subseteq bits' BY <1>1, <2>1 DEF HandleEvent, Announce
  <2>7. UNCHANGED <<voice, peer, rx, ws_pc, queue, call>> /\ disp'["ws"].stage = "drain"
    BY <2>1
  <2> HIDE DEF e
  <2>8. /\ reply'.op = "text" /\ reply'.asked /\ reply'.len = rx.len
        /\ Kept(rx.off)'
    BY <2>2, <2>3, <2>4, <2>7, PieceKept
  <2>9. ~AtTask' /\ ~InQueue' BY <2>1, <2>2, <2>7
  <2>10. Holds(rx.off)' BY <2>3, <2>7, <2>8
  <2>11. TextOnce' BY <2>3, <2>7
  <2>12. InOrder' BY <2>2, <2>3, <2>7, <2>9, <2>10
  <2>13. AnnouncedWhole'
    <3>1. ASSUME "RESPONSE" \in bits PROVE Kept(rx.len)'
      <4>1. reply.op = "text" /\ Kept(reply.len) BY <3>1
      <4>2. e.off # 0 /\ reply.len = rx.len BY <2>2, <4>1
      <4>3. Kept(e.off) /\ Kept(rx.len) BY <2>2, <4>1, <4>2
      <4>4. e.off >= ReplyCap \/ e.off = rx.len BY <2>3, <4>3, ReplyCapAssumption
      <4>5. rx.off >= ReplyCap /\ rx.len >= ReplyCap BY <2>3, <4>4, ReplyCapAssumption
      <4> QED BY <2>7, <2>8, <4>5, ReplyCapAssumption
    <3>2. "RESPONSE" \in bits' => Kept(rx.len)' BY <2>3, <2>5, <2>7, <2>8, <3>1
    <3> QED BY <2>6, <2>7, <2>8, <3>2
  <2> QED BY <2>11, <2>12, <2>13
<1>2. CASE ~Piece(disp[t].ev)
  BY <1>2 DEF HandleEvent, Announce
<1> QED BY <1>1, <1>2

\* The session sends the marker once and takes no reply that was not announced.
LEMMA AnswerSession ==
    ASSUME WsType, LifeInv, AnswerInv, SessionStep
    PROVE  AnswerInv'
<1> USE DEF AnswerInv, TextOnce, InOrder, AnnouncedWhole, AfterMarker, Piece, AtTask,
        InQueue, LastRead, Holds, Kept, LifeInv, CallPhase, wsVars, client, loop, wsTask,
        appCall, owned, peer, V, VCall, VOnly, AppFree, AppAt, At, Step, Call
<1>1. CASE AllocResponse BY <1>1 DEF AllocResponse
<1>2. CASE CreateEvents BY <1>2 DEF CreateEvents
<1>3. CASE InitClient BY <1>3 DEF InitClient
<1>4. CASE Register BY <1>4 DEF Register
<1>5. CASE Start BY <1>5 DEF Start
<1>6. CASE Started BY <1>6 DEF Started
<1>7. CASE WaitConnected BY <1>7 DEF WaitConnected
<1>8. CASE Record BY <1>8 DEF Record
<1>9. CASE MicFailed BY <1>9 DEF MicFailed
<1>10. CASE MicNothing BY <1>10 DEF MicNothing
<1>11. CASE MicSamples BY <1>11 DEF MicSamples
<1>12. CASE Sent BY <1>12 DEF Sent
<1>13. CASE KeyPressed BY <1>13 DEF KeyPressed
<1>14. CASE KeyIdle BY <1>14 DEF KeyIdle
<1>15. CASE SendMarker BY <1>15 DEF SendMarker
<1>16. CASE Ended BY <1>16 DEF Ended
<1>17. CASE WaitResponse BY <1>17 DEF WaitResponse
<1>18. CASE Stop BY <1>18 DEF Stop
<1>19. CASE Destroy BY <1>19 DEF Destroy
<1>20. CASE DeleteEvents BY <1>20 DEF DeleteEvents
<1>21. CASE FreeResponse BY <1>21 DEF FreeResponse
<1>22. CASE FreeHandle BY <1>22 DEF FreeHandle, DestroyFree, Return
<1>23. CASE Again
  BY <1>23 DEF Again, WsRenew, NewServer, NoReply, NoRx, Quiet, Tasks
<1> QED BY <1>1, <1>2, <1>3, <1>4, <1>5, <1>6, <1>7, <1>8, <1>9, <1>10, <1>11,
        <1>12, <1>13, <1>14, <1>15, <1>16, <1>17, <1>18, <1>19, <1>20, <1>21,
        <1>22, <1>23 DEF SessionStep

LEMMA AnswerStep ==
    ASSUME Polite, IInv, AnswerInv, [Next]_vars
    PROVE  AnswerInv'
<1>0. TypeInv /\ WsType /\ LifeInv /\ DataInv
  BY DEF IInv, TypeInv, TypeOK, WsType
<1>1. CASE UNCHANGED vars
  BY <1>1 DEF AnswerInv, TextOnce, InOrder, AnnouncedWhole, AfterMarker, Piece, AtTask,
     InQueue, LastRead, Holds, Kept, vars, wsVars, client, loop, wsTask, appCall, voice,
     owned, peer
<1>2. CASE /\ WsLocal \/ ReceiveMore \/ ReceiveIdle \/ CallStep \/ StartCreate
           /\ UNCHANGED <<voice, bits, reply, peer>>
  BY <1>0, <1>2, AnswerClient
<1>3. CASE Connect \/ (\E op \in Opcodes, len \in 0..MaxLen : Receive(op, len)) \/ Written
  BY <1>0, <1>3, AnswerServer
<1>4. CASE \E t \in Tasks : Handle(t) BY <1>0, <1>4, AnswerHandler
<1>5. CASE SessionStep BY <1>0, <1>5, AnswerSession
<1> QED BY <1>1, <1>2, <1>3, <1>4, <1>5
        DEF Next, WsTask, VoiceTask, InCall, CreateTask, SessionStep, Tasks

\* A server that speaks once, after the marker, is understood, however often the
\* connection was lost: a reply returned is the beginning of its text, and all of
\* it unless it is longer than the buffer, in which case it is marked as cut.
THEOREM AnswerReturned == Polite /\ Spec => []ReplyAnswersMarker
<1> SUFFICES ASSUME Polite PROVE Spec => []ReplyAnswersMarker
  OBVIOUS
<1>1. Init => AnswerInv
  BY DEF Init, WsInit, VoiceInit, AnswerInv, TextOnce, InOrder, AnnouncedWhole,
     AfterMarker, Piece, AtTask, InQueue, NewServer, NoReply, NoRx, Quiet, Tasks
<1>2. IInv /\ AnswerInv /\ [Next]_vars => AnswerInv'
  BY AnswerStep
<1>3. AnswerInv => ReplyAnswersMarker
  BY DEF AnswerInv, AnnouncedWhole, ReplyAnswersMarker
<1> QED BY <1>1, <1>2, <1>3, InductiveInvariant, PTL DEF Spec
-----------------------------------------------------------------------------
(* Waiting.  stop and destroy wait for STOPPED and a dispatch for room in   *)
(* the queue, all of them without a timeout.                                *)

\* A task in its own wait: for the lock or for room in the queue.
WsWaits ==
    \/ At("ws") /\ ws_pc \in {"lock", "relock", "lock_err", "lock_recv"} /\ lock # "none"
    \/ disp["ws"].stage = "post" /\ queue # <<>>

Stopped == AppAt("stop_wait") \/ AppAt("destroy_wait")
AppWaits ==
    \/ Stopped /\ "STOPPED" \notin status
    \/ disp["app"].stage = "post" /\ queue # <<>>

\* Who waits, waits for a task that exists and does not wait itself, and the
\* order to stop is not taken back by the task's first line.
WaitsAnswered ==
    /\ AppWaits => ~WsWaits /\ ws_pc \notin {"absent", "gone"}
    /\ Stopped => ~run

\* No task, or none any more: then it has told, and start does not wipe that out.
Told == ws_pc \in {"absent", "gone"} => "STOPPED" \in status /\ call # "start_clear"

\* Whoever has posted into the queue is about to take out of it.
QueueTaken == queue # <<>> => \E t \in Tasks : disp[t].stage = "drain"

\* Beyond the wait for the connection the task is past its first lines.
Begun ==
    /\ disp["ws"].stage # "off" => ws_pc \notin {"enter", "init"}
    /\ v_pc = "started" /\ call = "none" /\ ret # "ok" => ws_pc \notin {"enter", "init"}
    /\ v_pc \notin {"started", "wait_conn"} => ws_pc \notin {"enter", "init"}
    /\ call \in StopSet => ~run

\* Bits are set by events, and so not before the task's first event.
BitsLate ==
    /\ v_pc \in {"alloc", "events", "init", "register", "start"} => bits = {}
    /\ call = "start_create" => bits = {}
    /\ bits # {} => ws_pc \notin {"enter", "init"}

WaitInv == Told /\ QueueTaken /\ Begun /\ BitsLate

LEMMA WaitClient ==
    ASSUME PromptStart, WsTypeOK, LifeInv, Told, QueueTaken, Begun, ClientStep, v_pc' = v_pc
    PROVE  /\ Told' /\ QueueTaken' /\ Begun'
           /\ call' = "start_create" => call = "start_create"
           /\ ws_pc' \in {"enter", "init"} =>
                 ws_pc \in {"enter", "init"} \/ call = "start_create"
<1> USE DEF Dispatch, Tasks, WsAt, At, AppAt, AppFree, Step, Return, Goto, TakeLock,
        Error, Abortable, AbortClose, AbortTell, GotoBack, client, loop, wsTask, appCall,
        Quiet, NoEvent, WsTypeOK, LifeInv,
        CallPhase, TaskLife, Dispatching, Sending, Stopping, Destroying, StopSet, Told,
        QueueTaken, Begun
<1>1. CASE Enter BY <1>1 DEF Enter
<1>2. CASE EnterInit BY <1>2 DEF EnterInit
<1>3. CASE Loop BY <1>3 DEF Loop
<1>4. CASE LoopLock BY <1>4 DEF LoopLock
<1>5. CASE SwitchInit BY <1>5 DEF SwitchInit
<1>6. CASE ConnectOk BY <1>6 DEF ConnectOk
<1>7. CASE ConnectRedirect BY <1>7 DEF ConnectRedirect
<1>8. CASE ConnectFail BY <1>8 DEF ConnectFail
<1>9. CASE Pending BY <1>9 DEF Pending
<1>10. CASE Relock BY <1>10 DEF Relock
<1>11. CASE SwitchConnected BY <1>11 DEF SwitchConnected
<1>12. CASE SwitchWait BY <1>12 DEF SwitchWait
<1>13. CASE SwitchClosing BY <1>13 DEF SwitchClosing
<1>14. CASE AbortWs BY <1>14 DEF AbortWs
<1>15. CASE Unlock BY <1>15 DEF Unlock
<1>16. CASE Select BY <1>16 DEF Select
<1>17. CASE SelectClosed BY <1>17 DEF SelectClosed
<1>18. CASE Finish BY <1>18 DEF Finish
<1>19. CASE Poll BY <1>19 DEF Poll
<1>20. CASE PollFailed BY <1>20 DEF PollFailed
<1>21. CASE PollData BY <1>21 DEF PollData
<1>22. CASE ReadFailed BY <1>22 DEF ReadFailed
<1>23. CASE ReadNothing BY <1>23 DEF ReadNothing
<1>24. CASE ReadMore BY <1>24 DEF ReadMore
<1>25. CASE ReadStalled BY <1>25 DEF ReadStalled
<1>26. CASE RecvNext BY <1>26 DEF RecvNext
<1>27. CASE RecvDone BY <1>27 DEF RecvDone
<1>28. CASE Close BY <1>28 DEF Close
<1>29. CASE Forget BY <1>29 DEF Forget
<1>30. CASE MarkStopped BY <1>30 DEF MarkStopped
<1>31. CASE StartCreate BY <1>31 DEF StartCreate
<1>32. CASE StartClear BY <1>32 DEF StartClear
<1>33. CASE SendCheck BY <1>33 DEF SendCheck
<1>34. CASE SendLock BY <1>34 DEF SendLock
<1>35. CASE SendLockTimeout BY <1>35 DEF SendLockTimeout
<1>36. CASE SendWritten BY <1>36 DEF SendWritten
<1>37. CASE SendFailed BY <1>37 DEF SendFailed
<1>38. CASE SendAbort BY <1>38 DEF SendAbort
<1>39. CASE SendUnlock BY <1>39 DEF SendUnlock
<1>40. CASE StopCheck BY <1>40 DEF StopCheck
<1>41. CASE DestroyCheck BY <1>41 DEF DestroyCheck
<1>42. CASE StopRun BY <1>42 DEF StopRun
<1>43. CASE StopBit BY <1>43 DEF StopBit
<1>44. CASE StopWait BY <1>44 DEF StopWait
<1>45. CASE \E t \in Tasks : Post(t) BY <1>45 DEF Post
<1>46. CASE \E t \in Tasks : Take(t) BY <1>46 DEF Take
<1>47. CASE \E t \in Tasks : Handled(t) BY <1>47 DEF Handled
<1>48. CASE \E t \in Tasks : Drained(t) BY <1>48 DEF Drained
<1>49. CASE \E op \in Opcodes, len \in 0..MaxLen : ReadStart(op, len)
  BY <1>49 DEF ReadStart
<1>50. CASE AbortedWs BY <1>50 DEF AbortedWs
<1>51. CASE SendAborted BY <1>51 DEF SendAborted
<1> QED BY <1>1, <1>2, <1>3, <1>4, <1>5, <1>6, <1>7, <1>8, <1>9, <1>10, <1>11, <1>12,
        <1>13, <1>14, <1>15, <1>16, <1>17, <1>18, <1>19, <1>20, <1>21, <1>22, <1>23,
        <1>24, <1>25, <1>26, <1>27, <1>28, <1>29, <1>30, <1>31, <1>32, <1>33, <1>34,
        <1>35, <1>36, <1>37, <1>38, <1>39, <1>40, <1>41, <1>42, <1>43, <1>44, <1>45,
        <1>46, <1>47, <1>48, <1>49, <1>50, <1>51 DEF ClientStep, WsLocal, WsConnect, ReceiveMore,
        ReceiveIdle, CallStep

LEMMA WaitSession ==
    ASSUME PromptStart, LifeInv, WaitInv, SessionStep
    PROVE  WaitInv'
<1> USE DEF WaitInv, Told, QueueTaken, Begun, BitsLate, StopSet, LifeInv, CallPhase,
        TaskLife, Dispatching, Sending, Stopping, Destroying, wsVars, client, loop,
        wsTask, appCall, V, VCall, VOnly, AppFree, AppAt, At, Step, Call
<1>1. CASE AllocResponse BY <1>1 DEF AllocResponse
<1>2. CASE CreateEvents BY <1>2 DEF CreateEvents
<1>3. CASE InitClient BY <1>3 DEF InitClient
<1>4. CASE Register BY <1>4 DEF Register
<1>5. CASE Start BY <1>5 DEF Start
<1>6. CASE Started BY <1>6 DEF Started
<1>7. CASE WaitConnected BY <1>7 DEF WaitConnected
<1>8. CASE Record BY <1>8 DEF Record
<1>9. CASE MicFailed BY <1>9 DEF MicFailed
<1>10. CASE MicNothing BY <1>10 DEF MicNothing
<1>11. CASE MicSamples BY <1>11 DEF MicSamples
<1>12. CASE Sent BY <1>12 DEF Sent
<1>13. CASE KeyPressed BY <1>13 DEF KeyPressed
<1>14. CASE KeyIdle BY <1>14 DEF KeyIdle
<1>15. CASE SendMarker BY <1>15 DEF SendMarker
<1>16. CASE Ended BY <1>16 DEF Ended
<1>17. CASE WaitResponse BY <1>17 DEF WaitResponse
<1>18. CASE Stop BY <1>18 DEF Stop
<1>19. CASE Destroy BY <1>19 DEF Destroy
<1>20. CASE DeleteEvents BY <1>20 DEF DeleteEvents
<1>21. CASE FreeResponse BY <1>21 DEF FreeResponse
<1>22. CASE FreeHandle BY <1>22 DEF FreeHandle, DestroyFree, Return
<1>23. CASE Again BY <1>23 DEF Again, WsRenew, Quiet, Tasks
<1> QED BY <1>1, <1>2, <1>3, <1>4, <1>5, <1>6, <1>7, <1>8, <1>9, <1>10, <1>11,
        <1>12, <1>13, <1>14, <1>15, <1>16, <1>17, <1>18, <1>19, <1>20, <1>21,
        <1>22, <1>23 DEF SessionStep

\* A client's step leaves the bits alone or is a handler, in a live dispatch.
LEMMA WaitBits ==
    ASSUME LifeInv, Begun, BitsLate, Next, ~SessionStep, v_pc' = v_pc,
           call' = "start_create" => call = "start_create",
           ws_pc' \in {"enter", "init"} => ws_pc \in {"enter", "init"} \/ call = "start_create"
    PROVE  BitsLate'
<1>1. CASE bits' = bits
  BY <1>1 DEF BitsLate
<1>2. CASE Handle("ws")
  <2>1. disp["ws"].stage # "off" /\ ws_pc' = ws_pc /\ call' = call
    BY <1>2 DEF Handle, Handled, wsTask, appCall
  <2>2. ws_pc \notin {"absent", "gone", "enter", "init"}
    BY <2>1 DEF LifeInv, Dispatching, Begun
  <2> QED BY <2>1, <2>2 DEF BitsLate, LifeInv, TaskLife
<1>3. CASE Handle("app")
  <2>1. call \in {"send_abort", "send_aborted", "send_unlock"} /\ ws_pc' = ws_pc /\ call' = call
    BY <1>3 DEF Handle, Handled, wsTask, appCall, LifeInv, Dispatching
  <2> QED BY <2>1 DEF BitsLate, LifeInv, CallPhase, Sending, Begun
<1> QED BY <1>1, <1>2, <1>3 DEF Next, WsTask, Connect, Receive, VoiceTask, InCall,
        CreateTask, Written, SessionStep, Tasks

LEMMA WaitStep == PromptStart /\ IInv /\ WaitInv /\ [Next]_vars => WaitInv'
<1> SUFFICES ASSUME PromptStart, IInv, WaitInv, [Next]_vars PROVE WaitInv' OBVIOUS
<1>0. WsTypeOK /\ LifeInv /\ Told /\ QueueTaken /\ Begun /\ BitsLate
  BY DEF IInv, TypeInv, TypeOK, WaitInv
<1>1. CASE UNCHANGED vars
  BY <1>1 DEF WaitInv, Told, QueueTaken, Begun, BitsLate, vars, wsVars, client, loop,
     wsTask, appCall, voice
<1>2. CASE SessionStep
  BY <1>0, <1>2, WaitSession
<1>3. CASE Next /\ ~SessionStep
  <2>1. ClientStep /\ v_pc' = v_pc
    BY <1>3, StepKinds
  <2>2. Told' /\ QueueTaken' /\ Begun'
    BY <1>0, <2>1, WaitClient
  <2>3. BitsLate'
    BY <1>0, <1>3, <2>1, WaitClient, WaitBits
  <2> QED BY <2>2, <2>3 DEF WaitInv
<1> QED BY <1>1, <1>2, <1>3

LEMMA WaitHolds == PromptStart /\ Spec => []WaitInv
<1> SUFFICES ASSUME PromptStart PROVE Spec => []WaitInv
  OBVIOUS
<1>1. Init => WaitInv
  BY DEF Init, WsInit, VoiceInit, WaitInv, Told, QueueTaken, Begun, BitsLate, StopSet,
     Quiet, Tasks
<1>2. IInv /\ WaitInv /\ [Next]_vars => WaitInv'
  BY WaitStep
<1> QED BY <1>1, <1>2, InductiveInvariant, PTL DEF Spec

\* Voice task and client's task never wait for each other, and STOPPED, which
\* stop and destroy wait for, has a task that is still to set it.
THEOREM NobodyWaitsForEver == PromptStart /\ Spec => []WaitsAnswered
<1>1. IInv /\ WaitInv => WaitsAnswered
  <2> SUFFICES ASSUME IInv, WaitInv PROVE WaitsAnswered
    OBVIOUS
  <2>1. WsTypeOK /\ LockDiscipline /\ Dispatching /\ Told /\ QueueTaken /\ Begun
    BY DEF IInv, TypeInv, TypeOK, LifeInv, WaitInv
  <2>2. Stopped => ~run
    BY <2>1 DEF Stopped, AppAt, Begun, StopSet
  <2>3. ASSUME Stopped, "STOPPED" \notin status
        PROVE  ~WsWaits /\ ws_pc \notin {"absent", "gone"}
    BY <2>1, <2>3 DEF Stopped, AppAt, At, WsWaits, WsTypeOK, LockDiscipline, LockedBySelf,
       Told, QueueTaken, Tasks
  <2>4. ASSUME disp["app"].stage = "post", queue # <<>>
        PROVE  ~WsWaits /\ ws_pc \notin {"absent", "gone"}
    BY <2>1, <2>4 DEF At, WsWaits, Dispatching, QueueTaken, Tasks
  <2> QED BY <2>2, <2>3, <2>4 DEF WaitsAnswered, AppWaits
<1> QED BY <1>1, WaitHolds, InductiveInvariant, PTL

\* How far the client's task is from its end, once told to stop: the places it
\* passes, the rest of the message being received, the stages of a dispatch.
Late == ws_back = "loop"

Way ==
    IF ws_pc = "lock" THEN 21 ELSE IF ws_pc = "switch" THEN 20
    ELSE IF ws_pc = "connect" THEN 19 ELSE IF ws_pc = "pending" THEN 18
    ELSE IF ws_pc \in {"recv", "recv_next"} THEN
            IF ws_pc = "recv" /\ rx = NoRx THEN IF Late THEN 9 ELSE 17
            ELSE IF Late THEN 8 ELSE 16
    ELSE IF ws_pc = "recv_done" THEN IF Late THEN 5 ELSE 15
    ELSE IF ws_pc = "abort" THEN IF Late THEN 7 ELSE 15
    ELSE IF ws_pc = "aborted" THEN IF Late THEN 6 ELSE 14
    ELSE IF ws_pc = "relock" THEN 14 ELSE IF ws_pc = "unlock" THEN 13
    ELSE IF ws_pc = "select" THEN 12 ELSE IF ws_pc = "poll" THEN 11
    ELSE IF ws_pc \in {"lock_err", "lock_recv"} THEN 10
    ELSE IF ws_pc \in {"loop", "finish"} THEN 4 ELSE IF ws_pc = "leave" THEN 3
    ELSE IF ws_pc = "forget" THEN 2 ELSE IF ws_pc = "mark" THEN 1 ELSE 0

Rest == 2 * (rx.len - rx.off) + IF ws_pc = "recv" THEN 0 ELSE 1

Stage ==
    IF disp["ws"].stage = "post" THEN 4
    ELSE IF disp["ws"].stage = "drain" THEN IF queue = <<>> THEN 1 ELSE 3
    ELSE IF disp["ws"].stage = "handle" THEN 2 ELSE 0

Nearer ==
    \/ Way' < Way
    \/ Way' = Way /\ Rest' < Rest
    \/ Way' = Way /\ Rest' = Rest /\ Stage' < Stage

\* A read that times out in the middle of a message is the one step that gets it
\* no further.
Stalled == ReadStalled /\ UNCHANGED <<voice, bits, reply, peer>>

LEMMA MeasureRange == IInv => Way \in 0..21 /\ Rest \in Nat /\ Stage \in 0..4
<1> SUFFICES ASSUME IInv PROVE Rest \in Nat /\ Way \in 0..21 /\ Stage \in 0..4
  OBVIOUS
<1>1. Way \in 0..21
  BY DEF Way
<1>2. Stage \in 0..4
  BY DEF Stage
<1>3. PICK l \in Nat, o \in Nat : l = rx.len /\ o = rx.off /\ o <= l
  BY MaxLenAssumption, BufSizeAssumption DEF IInv, TypeInv, TypeOK, WsTypeOK, Receiving
<1>4. Rest = 2 * (l - o) + IF ws_pc = "recv" THEN 0 ELSE 1
  BY <1>3, Zenon DEF Rest
<1> QED BY <1>1, <1>2, <1>3, <1>4

LEMMA StepNears ==
    ASSUME WsTypeOK, Receiving, QueueTaken, ~run, At("app"), ws_pc \notin {"enter", "init"},
           WsTask, ~Stalled
    PROVE  Nearer
<1> USE DEF WsAt, At, Goto, TakeLock
<1>1. CASE Loop \/ LoopLock \/ SwitchInit \/ Pending \/ Relock \/ SwitchConnected
           \/ SwitchWait \/ SwitchClosing \/ AbortWs \/ AbortedWs \/ Unlock
  <2> USE DEF Way, Late, Nearer
  <2>1. CASE Loop BY <2>1 DEF Loop
  <2>2. CASE LoopLock BY <2>2 DEF LoopLock
  <2>3. CASE SwitchInit BY <2>3 DEF SwitchInit
  <2>4. CASE Pending BY <2>4 DEF Pending
  <2>5. CASE Relock BY <2>5 DEF Relock
  <2>6. CASE SwitchConnected BY <2>6 DEF SwitchConnected
  <2>7. CASE SwitchWait BY <2>7 DEF SwitchWait
  <2>8. CASE SwitchClosing BY <2>8 DEF SwitchClosing
  <2>9. CASE AbortWs BY <2>9 DEF AbortWs, GotoBack
  <2>10. CASE AbortedWs BY <2>10 DEF AbortedWs, GotoBack
  <2>11. CASE Unlock BY <2>11 DEF Unlock
  <2> QED BY <1>1, <2>1, <2>2, <2>3, <2>4, <2>5, <2>6, <2>7, <2>8, <2>9, <2>10, <2>11
<1>2. CASE Select \/ SelectClosed \/ Finish \/ Poll \/ PollFailed \/ PollData
           \/ Close \/ Forget \/ MarkStopped
  <2> USE DEF Way, Late, Nearer
  <2>1. CASE Select BY <2>1 DEF Select
  <2>2. CASE SelectClosed BY <2>2 DEF SelectClosed
  <2>3. CASE Finish BY <2>3 DEF Finish
  <2>4. CASE Poll BY <2>4 DEF Poll
  <2>5. CASE PollFailed BY <2>5 DEF PollFailed
  <2>6. CASE PollData BY <2>6 DEF PollData
  <2>7. CASE Close BY <2>7 DEF Close
  <2>8. CASE Forget BY <2>8 DEF Forget
  <2>9. CASE MarkStopped BY <2>9 DEF MarkStopped
  <2> QED BY <1>2, <2>1, <2>2, <2>3, <2>4, <2>5, <2>6, <2>7, <2>8, <2>9
<1>3. CASE WsConnect
  <2> USE DEF Way, Late, Nearer
  <2>1. CASE ConnectOk BY <2>1 DEF ConnectOk
  <2>2. CASE ConnectRedirect BY <2>2 DEF ConnectRedirect
  <2>3. CASE ConnectFail BY <2>3 DEF ConnectFail
  <2> QED BY <1>3, <2>1, <2>2, <2>3 DEF WsConnect
<1>4. CASE ReadFailed \/ ReadNothing \/ RecvDone
  <2> USE DEF Way, Late, Nearer
  <2>1. CASE ReadFailed BY <2>1 DEF ReadFailed
  <2>2. CASE ReadNothing BY <2>2 DEF ReadNothing
  <2>3. CASE RecvDone BY <2>3 DEF RecvDone, WsTypeOK
  <2> QED BY <1>4, <2>1, <2>2, <2>3
<1>5. ASSUME NEW op \in Opcodes, NEW len \in 0..MaxLen, ReadStart(op, len)
      PROVE  Nearer
  BY <1>5 DEF ReadStart, Way, Late, Nearer
<1>6. PICK l \in Nat, o \in Nat : l = rx.len /\ o = rx.off /\ o <= l
  BY MaxLenAssumption, BufSizeAssumption DEF WsTypeOK, Receiving
<1>7. CASE ReadMore
  <2>1. ws_pc = "recv" /\ ws_pc' = "recv_next" /\ rx # NoRx /\ ws_back' = ws_back
    BY <1>7 DEF ReadMore
  <2>2. PICK n \in 1..BufSize : n <= l - o /\ rx'.len = l /\ rx'.off = o + n
    BY <1>6, <1>7 DEF ReadMore, WsTypeOK, Chunks
  <2>3. Way' = Way
    BY <2>1 DEF Way, Late
  <2>4. Rest = 2 * (l - o) + 0 /\ Rest' = 2 * (l - (o + n)) + 1
    BY <1>6, <2>1, <2>2, Zenon DEF Rest
  <2>5. Rest' < Rest
    BY <1>6, <2>2, <2>4, BufSizeAssumption
  <2> QED BY <2>3, <2>5 DEF Nearer
<1>8. CASE RecvNext
  <2>1. CASE ws_pc' = "recv_done"
    BY <1>8, <2>1 DEF RecvNext, Way, Late, Nearer
  <2>2. CASE ws_pc' # "recv_done"
    <3>1. /\ ws_pc = "recv_next" /\ ws_pc' = "recv" /\ rx' = rx /\ ws_back' = ws_back
          /\ rx # NoRx
      BY <1>6, <1>8, <2>2 DEF RecvNext, NoRx
    <3>2. Way' = Way
      BY <3>1 DEF Way, Late
    <3>3. Rest = 2 * (l - o) + 1 /\ Rest' = 2 * (l - o) + 0
      BY <1>6, <3>1, Zenon DEF Rest
    <3>4. Rest' < Rest
      BY <1>6, <3>3
    <3> QED BY <3>2, <3>4 DEF Nearer
  <2> QED BY <2>1, <2>2
<1>9. CASE Post("ws") \/ Take("ws") \/ Handled("ws") \/ Drained("ws")
  <2>1. Way' = Way /\ Rest' = Rest
    BY <1>9 DEF Post, Take, Handled, Drained, wsTask, Way, Late, Rest
  <2>2. Stage' < Stage
    <3> USE DEF Stage, Tasks, WsTypeOK, QueueTaken
    <3>1. CASE Post("ws") BY <3>1 DEF Post
    <3>2. CASE Take("ws") BY <3>2 DEF Take
    <3>3. CASE Handled("ws") BY <3>3 DEF Handled
    <3>4. CASE Drained("ws") BY <3>4 DEF Drained, Quiet
    <3> QED BY <1>9, <3>1, <3>2, <3>3, <3>4
  <2> QED BY <2>1, <2>2 DEF Nearer
<1> QED BY <1>1, <1>2, <1>3, <1>4, <1>5, <1>7, <1>8, <1>9
        DEF WsTask, WsLocal, ReceiveMore, ReceiveIdle, Connect, Receive, Handle, Stalled,
            Enter, EnterInit

\* Every step of the client's task brings it nearer to its end while stop or
\* destroy waits for it, but for a peer that stalls in the middle of a message.
THEOREM StopReturns ==
    PromptStart /\ Spec =>
        /\ [](Way \in 0..21 /\ Rest \in Nat /\ Stage \in 0..4)
        /\ [][Stopped /\ WsTask /\ ~Stalled => Nearer]_vars
<1>1. IInv => Way \in 0..21 /\ Rest \in Nat /\ Stage \in 0..4
  BY MeasureRange
<1>2. IInv /\ WaitInv => [Stopped /\ WsTask /\ ~Stalled => Nearer]_vars
  <2> SUFFICES ASSUME IInv, WaitInv, Stopped, WsTask, ~Stalled PROVE Nearer
    OBVIOUS
  <2>1. WsTypeOK /\ Receiving /\ QueueTaken
    BY DEF IInv, TypeInv, TypeOK, WaitInv
  <2>2. ~run /\ At("app") /\ v_pc \in {"destroy", "delete"}
    BY DEF Stopped, AppAt, WaitInv, Begun, StopSet, IInv, LifeInv, CallPhase, Stopping,
       Destroying
  <2>3. ws_pc \notin {"enter", "init"}
    BY <2>2 DEF WaitInv, Begun
  <2> QED BY <2>1, <2>2, <2>3, StepNears
<1> QED BY <1>1, <1>2, WaitHolds, InductiveInvariant, PTL DEF Spec
=============================================================================
