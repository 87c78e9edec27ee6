---------------------------- MODULE WifiStaProofs ----------------------------
(***************************************************************************)
(* WifiSta for every number of retries and every length of the event       *)
(* queue: the station is never down with nothing under way unless it has   *)
(* made all its retries and said so.  While the access point stays away    *)
(* every step brings it nearer to that rest.                               *)
(***************************************************************************)
EXTENDS WifiSta, WellFoundedInduction, TLAPS

\* The events whose handlers connect or give up: the driver posts nothing more
\* until one of them has been handled.
Final == {"STA_START", "DISCONNECTED"}

QueueFitsLink ==
    /\ \A i \in 1..Len(events) :
          events[i] \in Final => i = Len(events) /\ link = "idle"
    /\ link = "idle" /\ events # << >> => events[Len(events)] \in Final
    /\ \A i \in 1..Len(events) : events[i] = "STA_START" => attempts = 0

\* Retries counted and calls made since the last address.
Counted ==
    /\ s_wifi_retry_num \in 0..WIFI_MAXIMUM_RETRY
    /\ attempts \in Nat /\ s_wifi_retry_num <= attempts
    /\ attempts <= s_wifi_retry_num + 1

IInv == TypeOK /\ QueueFitsLink /\ Counted /\ NeverIdleSilently /\ GivesUpOnlyAfterAll

LEMMA InitIInv == Init => IInv
<1> SUFFICES ASSUME Init PROVE IInv
  OBVIOUS
<1>1. events \in Seq(Events) /\ Len(events) = 1 /\ events[1] = "STA_START"
  BY DEF Init, Events
<1>2. events # << >>
  BY <1>1
<1>3. TypeOK
  BY <1>1, RetryAssumption, MaxEventsAssumption DEF Init, TypeOK
<1>4. QueueFitsLink
  BY <1>1 DEF Init, QueueFitsLink, Final
<1>5. Counted
  BY RetryAssumption DEF Init, Counted
<1>. QED
  BY <1>2, <1>3, <1>4, <1>5 DEF IInv, NeverIdleSilently, GivesUpOnlyAfterAll

-----------------------------------------------------------------------------
(* The queue *)

LEMMA Posted ==
    ASSUME NEW s \in Seq(Events), NEW e \in Events
    PROVE  /\ Append(s, e) \in Seq(Events) /\ Len(Append(s, e)) = Len(s) + 1
           /\ Append(s, e)[Len(s) + 1] = e /\ \A i \in 1..Len(s) : Append(s, e)[i] = s[i]
           /\ Append(s, e) # << >>
  OBVIOUS

LEMMA Taken ==
    ASSUME NEW s \in Seq(Events), s # << >>
    PROVE  /\ Len(s) \in Nat \ {0} /\ Head(s) = s[1]
           /\ Tail(s) \in Seq(Events) /\ Len(Tail(s)) = Len(s) - 1
           /\ \A i \in 1..(Len(s) - 1) : Tail(s)[i] = s[i + 1]
           /\ (Tail(s) = << >> <=> Len(s) = 1)
<1>1. /\ Len(s) \in Nat \ {0} /\ Head(s) = s[1]
      /\ Tail(s) \in Seq(Events) /\ Len(Tail(s)) = Len(s) - 1
  OBVIOUS
<1>2. \A i \in 1..(Len(s) - 1) : Tail(s)[i] = s[i + 1]
  OBVIOUS
<1>3. \A t \in Seq(Events) : t = << >> <=> Len(t) = 0
  OBVIOUS
<1>4. Tail(s) = << >> <=> Len(s) = 1
  BY <1>1, <1>3
<1>. QED BY <1>1, <1>2, <1>4

\* The driver posts e from a state in which it has not stopped yet, and stops
\* where e is a final event.
LEMMA DriverStep ==
    ASSUME IInv, Associate \/ GetIp \/ Lose
    PROVE  IInv'
<1>1. PICK from \in {"connecting", "associated", "up"},
           to \in {"associated", "up", "idle"}, e \in Events :
         Goes(from, to, e) /\ (e \in Final <=> to = "idle") /\ e # "STA_START"
  <2>1. CASE Associate
    BY <2>1 DEF Associate, Events, Final
  <2>2. CASE GetIp
    BY <2>2 DEF GetIp, Events, Final
  <2>3. CASE Lose
    BY <2>3 DEF Lose, Events, Final
  <2>. QED BY <2>1, <2>2, <2>3
<1>2. /\ events \in Seq(Events) /\ events' = Append(events, e)
      /\ link = from /\ link' = to /\ Len(events) < MaxEvents
      /\ UNCHANGED <<ap, s_wifi_retry_num, bits, main_pc, attempts>>
  BY <1>1 DEF Goes, IInv, TypeOK
<1>3. /\ events' \in Seq(Events) /\ Len(events') = Len(events) + 1 /\ events' # << >>
      /\ events'[Len(events) + 1] = e
      /\ \A i \in 1..Len(events) : events'[i] = events[i]
  BY <1>2, Posted
<1>4. Len(events) \in Nat
  BY <1>2
<1>5. TypeOK'
  BY <1>2, <1>3, <1>4, MaxEventsAssumption DEF IInv, TypeOK
<1>6. QueueFitsLink'
  BY <1>1, <1>2, <1>3, <1>4 DEF IInv, QueueFitsLink
<1>. QED
  BY <1>2, <1>3, <1>5, <1>6 DEF IInv, Counted, NeverIdleSilently, GivesUpOnlyAfterAll

\* A handler of a final event leaves the queue empty, another one does not take
\* the final event away.
LEMMA HandlerTakes ==
    ASSUME IInv, NEW e \in Events, Handling(e)
    PROVE  /\ events' \in Seq(Events) /\ Len(events') <= MaxEvents
           /\ e \in Final => link = "idle" /\ Len(events') = 0 /\ events' = << >>
           /\ e \notin Final =>
                 /\ \A i \in 1..Len(events') :
                       events'[i] \in Final => i = Len(events') /\ link = "idle"
                 /\ link = "idle" => events' # << >> /\ events'[Len(events')] \in Final
           /\ e = "STA_START" => attempts = 0
           /\ \A i \in 1..Len(events') : events'[i] = "STA_START" => attempts = 0
<1>1. /\ events \in Seq(Events) /\ events # << >> /\ e = Head(events)
      /\ events' = Tail(events) /\ Len(events) <= MaxEvents
  BY DEF IInv, TypeOK, Handling
<1>2. /\ Len(events) \in Nat \ {0} /\ e = events[1]
      /\ events' \in Seq(Events) /\ Len(events') = Len(events) - 1
      /\ \A i \in 1..(Len(events) - 1) : events'[i] = events[i + 1]
      /\ events' = << >> <=> Len(events) = 1
  BY <1>1, Taken
<1>3. \A i \in 1..Len(events') :
         i + 1 \in 1..Len(events) /\ events'[i] = events[i + 1]
  BY <1>2
<1>4. 1 \in 1..Len(events)
  BY <1>2
<1>5. e \in Final => link = "idle" /\ Len(events) = 1
  BY <1>2, <1>4 DEF IInv, QueueFitsLink
<1>6. ASSUME e \notin Final, link = "idle"
      PROVE  events' # << >> /\ events'[Len(events')] \in Final
  <2>1. events[Len(events)] \in Final
    BY <1>1, <1>6 DEF IInv, QueueFitsLink
  <2>2. Len(events) # 1
    BY <1>2, <1>6, <2>1
  <2>. QED BY <1>2, <2>1, <2>2
<1>7. \A i \in 1..Len(events') :
         /\ events'[i] \in Final => i = Len(events') /\ link = "idle"
         /\ events'[i] = "STA_START" => attempts = 0
  BY <1>2, <1>3 DEF IInv, QueueFitsLink
<1>8. e = "STA_START" => attempts = 0
  BY <1>2, <1>4 DEF IInv, QueueFitsLink
<1>9. Len(events') <= MaxEvents
  BY <1>1, <1>2, MaxEventsAssumption
<1>. QED BY <1>2, <1>5, <1>6, <1>7, <1>8, <1>9

LEMMA HandlerStep ==
    ASSUME IInv, HandleEvent
    PROVE  IInv'
<1> USE RetryAssumption DEF Counted, NeverIdleSilently, GivesUpOnlyAfterAll, MayRetry
<1>1. CASE HandleStart
  <2>1. /\ link = "idle" /\ Len(events') = 0 /\ events' \in Seq(Events) /\ attempts = 0
        /\ Len(events') <= MaxEvents
    BY <1>1, HandlerTakes DEF HandleStart, Events, Final
  <2>2. TypeOK'
    BY <1>1, <2>1 DEF HandleStart, Connect, IInv, TypeOK
  <2>3. QueueFitsLink'
    BY <1>1, <2>1 DEF HandleStart, Connect, QueueFitsLink
  <2>. QED BY <1>1, <2>1, <2>2, <2>3 DEF HandleStart, Connect, IInv
<1>2. CASE HandleConnected
  <2>1. /\ events' \in Seq(Events) /\ Len(events') <= MaxEvents
        /\ \A i \in 1..Len(events') :
              /\ events'[i] \in Final => i = Len(events') /\ link = "idle"
              /\ events'[i] = "STA_START" => attempts = 0
        /\ link = "idle" => events' # << >> /\ events'[Len(events')] \in Final
    BY <1>2, HandlerTakes DEF HandleConnected, Events, Final
  <2>2. TypeOK'
    BY <1>2, <2>1 DEF HandleConnected, IInv, TypeOK
  <2>3. QueueFitsLink'
    BY <1>2, <2>1 DEF HandleConnected, QueueFitsLink
  <2>. QED BY <1>2, <2>1, <2>2, <2>3 DEF HandleConnected, IInv
<1>3. CASE HandleRetry
  <2>1. /\ link = "idle" /\ Len(events') = 0 /\ events' \in Seq(Events)
        /\ Len(events') <= MaxEvents
    BY <1>3, HandlerTakes DEF HandleRetry, Events, Final
  <2>2. s_wifi_retry_num' \in 0..WIFI_MAXIMUM_RETRY /\ Counted'
    BY <1>3 DEF HandleRetry, Connect, IInv
  <2>3. TypeOK'
    BY <1>3, <2>1, <2>2 DEF HandleRetry, Connect, IInv, TypeOK
  <2>4. QueueFitsLink'
    BY <1>3, <2>1 DEF HandleRetry, Connect, QueueFitsLink
  <2>. QED BY <1>3, <2>1, <2>2, <2>3, <2>4 DEF HandleRetry, Connect, IInv
<1>4. CASE HandleGiveUp
  <2>1. Len(events') = 0 /\ events' \in Seq(Events) /\ events' = << >>
        /\ Len(events') <= MaxEvents
    BY <1>4, HandlerTakes DEF HandleGiveUp, Events, Final
  <2>2. TypeOK'
    BY <1>4, <2>1 DEF HandleGiveUp, IInv, TypeOK
  <2>3. QueueFitsLink'
    BY <1>4, <2>1 DEF HandleGiveUp, QueueFitsLink
  <2>4. attempts >= WIFI_MAXIMUM_RETRY
    BY <1>4 DEF HandleGiveUp, IInv
  <2>. QED BY <1>4, <2>1, <2>2, <2>3, <2>4 DEF HandleGiveUp, IInv
<1>5. CASE HandleGotIp
  <2>1. /\ events' \in Seq(Events) /\ Len(events') <= MaxEvents
        /\ \A i \in 1..Len(events') :
              events'[i] \in Final => i = Len(events') /\ link = "idle"
        /\ link = "idle" => events' # << >> /\ events'[Len(events')] \in Final
    BY <1>5, HandlerTakes DEF HandleGotIp, Events, Final
  <2>2. TypeOK'
    BY <1>5, <2>1 DEF HandleGotIp, IInv, TypeOK
  <2>3. QueueFitsLink'
    BY <1>5, <2>1 DEF HandleGotIp, QueueFitsLink
  <2>. QED BY <1>5, <2>1, <2>2, <2>3 DEF HandleGotIp, IInv
<1>. QED BY <1>1, <1>2, <1>3, <1>4, <1>5 DEF HandleEvent

LEMMA Inductive == IInv /\ [Next]_vars => IInv'
<1> SUFFICES ASSUME IInv, [Next]_vars PROVE IInv'
  OBVIOUS
<1>1. CASE ApChanges \/ BitSet \/ WaitTimeout \/ UNCHANGED vars
  BY <1>1 DEF ApChanges, BitSet, WaitTimeout, vars, IInv, TypeOK, QueueFitsLink,
              Counted, NeverIdleSilently, GivesUpOnlyAfterAll
<1>. QED BY <1>1, DriverStep, HandlerStep DEF Next

-----------------------------------------------------------------------------
(* The theorems *)

\* Link, queue, count and bits keep their joint invariant.
THEOREM InductiveInvariant == Spec => []IInv
  BY InitIInv, Inductive, PTL DEF Spec

\* The queue never overflows and the count never passes the maximum.
THEOREM TypeCorrect == Spec => []TypeOK
  BY InductiveInvariant, PTL DEF IInv

\* The station never rests without having said so.
THEOREM NoSilentRest == Spec => []NeverIdleSilently
  BY InductiveInvariant, PTL DEF IInv

\* It rests only after all the retries since the last address.
THEOREM AllRetriesMade == Spec => []GivesUpOnlyAfterAll
  BY InductiveInvariant, PTL DEF IInv

-----------------------------------------------------------------------------
(* Why it settles when the access point stays away: every step lowers a     *)
(* measure.  Only a GOT_IP posted before gives the retries back, and only   *)
(* the start connects without using one up.                                 *)

\* Where the queue may be cut so that no GOT_IP comes behind.
Cuts(s) == {n \in 0..Len(s) : \A i \in 1..Len(s) : i > n => s[i] # "GOT_IP"}

\* The place of the last GOT_IP in the queue, 0 without one.
LastGotIp == CHOOSE n \in Cuts(events) : \A m \in Cuts(events) : n <= m

StartsLeft  == IF \E i \in 1..Len(events) : events[i] = "STA_START" THEN 1 ELSE 0
RetriesLeft == WIFI_MAXIMUM_RETRY - s_wifi_retry_num
LinkLeft    == IF link = "idle" THEN 0 ELSE 1
EventsLeft  == Len(events) + IF main_pc = "waiting" THEN 1 ELSE 0

Settling ==
    \/ StartsLeft' < StartsLeft
    \/ /\ StartsLeft' = StartsLeft
       /\ \/ LastGotIp' < LastGotIp
          \/ /\ LastGotIp' = LastGotIp
             /\ \/ RetriesLeft' < RetriesLeft
                \/ /\ RetriesLeft' = RetriesLeft
                   /\ \/ LinkLeft' < LinkLeft
                      \/ LinkLeft' = LinkLeft /\ EventsLeft' < EventsLeft

LEMMA LeastCut ==
    ASSUME NEW s \in Seq(Events)
    PROVE  \E n \in Cuts(s) : \A m \in Cuts(s) : n <= m
<1> DEFINE R == OpToRel(<, Nat)
<1>1. Cuts(s) \subseteq Nat
  BY DEF Cuts
<1>2. Len(s) \in Cuts(s)
  BY DEF Cuts
<1>3. IsWellFoundedOn(R, Nat)
  BY NatLessThanWellFounded
<1>4. PICK x \in Cuts(s) : \A y \in Cuts(s) : ~(<<y, x>> \in R)
  <2> HIDE DEF R, Cuts
  <2> QED BY <1>1, <1>2, <1>3, WFMin
<1>5. ASSUME NEW y \in Cuts(s) PROVE x <= y
  <2>1. x \in Nat /\ y \in Nat
    BY <1>1
  <2>2. ~(y < x)
    BY <1>4, <2>1 DEF OpToRel
  <2> QED BY <2>1, <2>2
<1> QED BY <1>5

LEMMA LastGotIpLeast ==
    ASSUME events \in Seq(Events)
    PROVE  LastGotIp \in Cuts(events) /\ \A m \in Cuts(events) : LastGotIp <= m
  BY LeastCut, Zenon DEF LastGotIp

\* What a step does to the queue lowers the first two parts or keeps them.
LEMMA QueueLowers ==
    ASSUME events \in Seq(Events), events' \in Seq(Events),
           \/ \E e \in Events \ {"STA_START", "GOT_IP"} : events' = Append(events, e)
           \/ events # << >> /\ events' = Tail(events)
           \/ events' = events
    PROVE  /\ StartsLeft \in 0..1 /\ StartsLeft' \in 0..1 /\ StartsLeft' <= StartsLeft
           /\ LastGotIp \in Nat /\ LastGotIp' \in Nat /\ LastGotIp' <= LastGotIp
           /\ Handling("GOT_IP") => LastGotIp' < LastGotIp
<1>1. /\ LastGotIp \in Cuts(events) /\ \A m \in Cuts(events) : LastGotIp <= m
      /\ LastGotIp' \in Cuts(events') /\ \A m \in Cuts(events') : LastGotIp' <= m
  <2>1. LastGotIp' = CHOOSE n \in Cuts(events') : \A m \in Cuts(events') : n <= m
    BY DEF LastGotIp, Cuts
  <2> QED BY <2>1, LastGotIpLeast, LeastCut, Zenon
<1>2. PICK a \in Nat, b \in Nat : a = LastGotIp /\ b = LastGotIp'
  BY <1>1 DEF Cuts
<1>3. Len(events) \in Nat /\ Len(events') \in Nat
  OBVIOUS
<1>4. CASE \E e \in Events \ {"STA_START", "GOT_IP"} : events' = Append(events, e)
  <2>1. PICK e \in Events \ {"STA_START", "GOT_IP"} : events' = Append(events, e)
    BY <1>4
  <2>2. /\ Len(events') = Len(events) + 1 /\ events'[Len(events) + 1] = e
        /\ \A i \in 1..Len(events) : events'[i] = events[i]
    BY <2>1, Posted
  <2>3. a \in Cuts(events')
    <3>1. a \in 0..Len(events) /\ \A i \in 1..Len(events) : i > a => events[i] # "GOT_IP"
      BY <1>1, <1>2 DEF Cuts
    <3>2. a \in 0..Len(events')
      BY <1>3, <2>2, <3>1
    <3>3. ASSUME NEW i \in 1..Len(events'), i > a PROVE events'[i] # "GOT_IP"
      <4>1. CASE i = Len(events) + 1
        BY <2>2, <4>1
      <4>2. CASE i # Len(events) + 1
        <5>1. i \in 1..Len(events)
          BY <1>3, <2>2, <4>2
        <5> QED BY <2>2, <3>1, <3>3, <5>1
      <4> QED BY <4>1, <4>2
    <3> QED BY <3>2, <3>3 DEF Cuts
  <2>4. StartsLeft' <= StartsLeft
    BY <1>3, <2>2 DEF StartsLeft
  <2>5. ~Handling("GOT_IP")
    <3>1. events' # Tail(events) \/ events = << >>
      BY <1>3, <2>2, Taken
    <3> QED BY <3>1 DEF Handling
  <2> QED BY <1>1, <1>2, <2>3, <2>4, <2>5 DEF StartsLeft
<1>5. CASE events # << >> /\ events' = Tail(events)
  <2>1. /\ Len(events) \in Nat \ {0} /\ Head(events) = events[1]
        /\ Len(events') = Len(events) - 1
        /\ \A i \in 1..(Len(events) - 1) : events'[i] = events[i + 1]
    BY <1>5, Taken
  <2>2. \A i \in 1..Len(events') : i + 1 \in 1..Len(events) /\ events'[i] = events[i + 1]
    BY <2>1
  <2>3. StartsLeft' <= StartsLeft
    BY <2>2 DEF StartsLeft
  <2>4. a \in 0..Len(events) /\ \A i \in 1..Len(events) : i > a => events[i] # "GOT_IP"
    BY <1>1, <1>2 DEF Cuts
  <2>5. CASE a = 0
    <3>1. 0 \in Cuts(events')
      BY <1>3, <2>2, <2>4, <2>5 DEF Cuts
    <3>2. events[1] # "GOT_IP"
      BY <2>1, <2>4, <2>5
    <3> QED BY <1>1, <1>2, <2>1, <2>3, <2>5, <3>1, <3>2 DEF Handling, StartsLeft
  <2>6. CASE a # 0
    <3>1. a - 1 \in Cuts(events')
      <4>1. a - 1 \in 0..Len(events')
        BY <2>1, <2>4, <2>6
      <4>2. ASSUME NEW i \in 1..Len(events'), i > a - 1 PROVE events'[i] # "GOT_IP"
        BY <1>2, <2>2, <2>4, <4>2
      <4> QED BY <4>1, <4>2 DEF Cuts
    <3>2. b <= a - 1
      BY <1>1, <1>2, <3>1
    <3> QED BY <1>2, <2>3, <2>6, <3>2 DEF StartsLeft
  <2> QED BY <2>5, <2>6
<1>6. CASE events' = events
  <2>1. LastGotIp' = LastGotIp /\ StartsLeft' = StartsLeft
    BY <1>6 DEF LastGotIp, StartsLeft, Cuts
  <2>2. ~Handling("GOT_IP")
    <3>1. events # Tail(events) \/ events = << >>
      BY <1>3, Taken
    <3> QED BY <1>6, <3>1 DEF Handling
  <2> QED BY <1>2, <2>1, <2>2 DEF StartsLeft
<1> QED BY <1>4, <1>5, <1>6

LEMMA StepSettles ==
    ASSUME IInv, Next, ~ap, ~ap'
    PROVE  Settling
<1>1. events \in Seq(Events) /\ events' \in Seq(Events) /\ Len(events) \in Nat
  <2>1. IInv'
    BY Inductive
  <2> QED BY <2>1 DEF IInv, TypeOK
<1>2. /\ StartsLeft \in 0..1 /\ StartsLeft' \in 0..1 /\ StartsLeft' <= StartsLeft
      /\ LastGotIp \in Nat /\ LastGotIp' \in Nat /\ LastGotIp' <= LastGotIp
      /\ Handling("GOT_IP") => LastGotIp' < LastGotIp
  <2>1. \/ \E e \in Events \ {"STA_START", "GOT_IP"} : events' = Append(events, e)
        \/ events # << >> /\ events' = Tail(events)
        \/ events' = events
    BY DEF Next, Associate, GetIp, Lose, Goes, ApChanges, HandleEvent, HandleStart,
       HandleConnected, HandleRetry, HandleGiveUp, HandleGotIp, Handling, BitSet,
       WaitTimeout, Events
  <2> QED BY <1>1, <2>1, QueueLowers
<1>3. s_wifi_retry_num \in Nat /\ WIFI_MAXIMUM_RETRY \in Nat
  BY RetryAssumption DEF IInv, Counted
<1>4. ASSUME StartsLeft' < StartsLeft \/ LastGotIp' < LastGotIp PROVE Settling
  BY <1>2, <1>4 DEF Settling
<1>5. ASSUME RetriesLeft' < RetriesLeft PROVE Settling
  BY <1>2, <1>5 DEF Settling
<1>6. ASSUME RetriesLeft' = RetriesLeft, LinkLeft' < LinkLeft PROVE Settling
  BY <1>2, <1>6 DEF Settling
<1>7. ASSUME RetriesLeft' = RetriesLeft, LinkLeft' = LinkLeft, EventsLeft' < EventsLeft
      PROVE  Settling
  BY <1>2, <1>7 DEF Settling
<1>8. CASE Lose
  <2>1. link # "idle" /\ link' = "idle" /\ s_wifi_retry_num' = s_wifi_retry_num
    BY <1>8 DEF Lose, Goes
  <2> QED BY <1>6, <2>1 DEF RetriesLeft, LinkLeft
<1>9. CASE HandleStart
  <2>1. Handling("STA_START") /\ events # << >> /\ events[1] = "STA_START"
    BY <1>1, <1>9, Taken DEF HandleStart, Handling
  <2>2. Len(events') = 0
    BY <2>1, HandlerTakes DEF Events, Final
  <2>3. StartsLeft = 1 /\ StartsLeft' = 0
    <3>1. 1 \in 1..Len(events)
      BY <1>1, <2>1, Taken
    <3> QED BY <2>1, <2>2, <3>1 DEF StartsLeft
  <2> QED BY <1>4, <2>3
<1>10. CASE HandleConnected \/ HandleGiveUp
  <2>1. /\ s_wifi_retry_num' = s_wifi_retry_num /\ link' = link /\ main_pc' = main_pc
        /\ events # << >> /\ events' = Tail(events)
    BY <1>10 DEF HandleConnected, HandleGiveUp, Handling
  <2>2. Len(events') = Len(events) - 1
    BY <1>1, <2>1, Taken
  <2>3. EventsLeft' < EventsLeft
    BY <1>1, <2>1, <2>2 DEF EventsLeft
  <2> QED BY <1>7, <2>1, <2>3 DEF RetriesLeft, LinkLeft
<1>11. CASE HandleRetry
  BY <1>3, <1>5, <1>11 DEF HandleRetry, RetriesLeft
<1>12. CASE HandleGotIp
  BY <1>2, <1>4, <1>12 DEF HandleGotIp
<1>13. CASE BitSet \/ WaitTimeout
  <2>1. /\ s_wifi_retry_num' = s_wifi_retry_num /\ link' = link /\ events' = events
        /\ main_pc = "waiting" /\ main_pc' # "waiting"
    BY <1>13 DEF BitSet, WaitTimeout
  <2>2. EventsLeft' < EventsLeft
    BY <1>1, <2>1 DEF EventsLeft
  <2> QED BY <1>7, <2>1, <2>2 DEF RetriesLeft, LinkLeft
<1> QED BY <1>8, <1>9, <1>10, <1>11, <1>12, <1>13
        DEF Next, HandleEvent, Associate, GetIp, ApChanges

\* While the access point stays away everything that happens brings the station
\* nearer to the state in which nothing is under way; there it has told (NoSilentRest).
THEOREM Settles ==
    Spec => /\ [](/\ StartsLeft \in 0..1 /\ LastGotIp \in Nat /\ RetriesLeft \in Nat
                  /\ LinkLeft \in 0..1 /\ EventsLeft \in Nat)
            /\ [][Next /\ ~ap /\ ~ap' => Settling]_vars
<1>1. IInv => /\ StartsLeft \in 0..1 /\ LastGotIp \in Nat /\ RetriesLeft \in Nat
              /\ LinkLeft \in 0..1 /\ EventsLeft \in Nat
  <2> SUFFICES ASSUME IInv
               PROVE  /\ StartsLeft \in 0..1 /\ LastGotIp \in Nat /\ RetriesLeft \in Nat
                      /\ LinkLeft \in 0..1 /\ EventsLeft \in Nat
    OBVIOUS
  <2>1. events \in Seq(Events) /\ Len(events) \in Nat
    BY DEF IInv, TypeOK
  <2>2. LastGotIp \in Nat
    BY <2>1, LastGotIpLeast DEF Cuts
  <2>3. RetriesLeft \in Nat
    BY RetryAssumption DEF RetriesLeft, IInv, Counted
  <2>4. EventsLeft \in Nat
    BY <2>1 DEF EventsLeft
  <2> QED BY <2>2, <2>3, <2>4 DEF StartsLeft, LinkLeft
<1>2. IInv => [Next /\ ~ap /\ ~ap' => Settling]_vars
  BY StepSettles
<1> QED BY <1>1, <1>2, InductiveInvariant, PTL
=============================================================================
