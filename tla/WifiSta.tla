------------------------------- MODULE WifiSta -------------------------------
(***************************************************************************)
(* The Wi-Fi station of main.c: the driver (external) connects and loses   *)
(* the access point and posts events, which wifi_event_handler and         *)
(* ip_event_handler handle one at a time in the event loop task; app_main  *)
(* waits for one of two bits.                                              *)
(***************************************************************************)
EXTENDS Naturals, Sequences

CONSTANTS
    WIFI_MAXIMUM_RETRY,
    MaxEvents              \* events posted and not yet handled

ASSUME RetryAssumption == WIFI_MAXIMUM_RETRY \in Nat
ASSUME MaxEventsAssumption == MaxEvents \in Nat \ {0}

VARIABLES
    link,                  \* the driver: "idle", "connecting", "associated", "up"
    ap,                    \* is there an access point that takes the station?
    events,                \* event queue of the default loop
    s_wifi_retry_num,
    bits,                  \* s_wifi_event_group
    main_pc,               \* "waiting" or "ready" or "not_connected"
    attempts               \* history: esp_wifi_connect calls since the last address

vars == <<link, ap, events, s_wifi_retry_num, bits, main_pc, attempts>>

Events == {"STA_START", "CONNECTED", "DISCONNECTED", "GOT_IP"}

TypeOK ==
    /\ link \in {"idle", "connecting", "associated", "up"} /\ ap \in BOOLEAN
    /\ events \in Seq(Events) /\ Len(events) <= MaxEvents
    /\ s_wifi_retry_num \in 0..WIFI_MAXIMUM_RETRY
    /\ bits \subseteq {"CONNECTED", "FAIL"}
    /\ main_pc \in {"waiting", "ready", "not_connected"}
    /\ attempts \in 0..(WIFI_MAXIMUM_RETRY + 1)

Init ==            \* esp_wifi_start has returned, app_main waits
    /\ link = "idle" /\ ap \in BOOLEAN
    /\ events = <<"STA_START">>
    /\ s_wifi_retry_num = 0 /\ bits = {}
    /\ main_pc = "waiting" /\ attempts = 0

-----------------------------------------------------------------------------
(* The driver: posting waits for room in the queue. *)

Goes(from, to, event) ==
    /\ link = from /\ Len(events) < MaxEvents
    /\ link' = to /\ events' = Append(events, event)
    /\ UNCHANGED <<ap, s_wifi_retry_num, bits, main_pc, attempts>>

Associate == ap /\ Goes("connecting", "associated", "CONNECTED")
GetIp     == ap /\ Goes("associated", "up", "GOT_IP")
Lose      == ~ap /\ \E from \in {"connecting", "associated", "up"} :
                        Goes(from, "idle", "DISCONNECTED")

ApChanges ==
    /\ ap' = ~ap
    /\ UNCHANGED <<link, events, s_wifi_retry_num, bits, main_pc, attempts>>

-----------------------------------------------------------------------------
(* The event handlers *)

Handling(event) == events # << >> /\ Head(events) = event /\ events' = Tail(events)

Connect == link' = "connecting" /\ attempts' = attempts + 1

HandleStart ==
    /\ Handling("STA_START")
    /\ Connect
    /\ UNCHANGED <<ap, s_wifi_retry_num, bits, main_pc>>

HandleConnected == \* only logged
    /\ Handling("CONNECTED")
    /\ UNCHANGED <<link, ap, s_wifi_retry_num, bits, main_pc, attempts>>

MayRetry == s_wifi_retry_num < WIFI_MAXIMUM_RETRY

HandleRetry ==
    /\ Handling("DISCONNECTED") /\ MayRetry
    /\ s_wifi_retry_num' = s_wifi_retry_num + 1
    /\ Connect
    /\ UNCHANGED <<ap, bits, main_pc>>

\* Mutant: giving up is not told.
HandleGiveUpSilently ==
    /\ Handling("DISCONNECTED") /\ ~MayRetry
    /\ UNCHANGED <<link, ap, s_wifi_retry_num, bits, main_pc, attempts>>

HandleGiveUp ==
    /\ Handling("DISCONNECTED") /\ ~MayRetry
    /\ bits' = bits \cup {"FAIL"}
    /\ UNCHANGED <<link, ap, s_wifi_retry_num, main_pc, attempts>>

\* Mutant: the count of retries is not reset.
HandleGotIpKeepsCount ==
    /\ Handling("GOT_IP")
    /\ bits' = bits \cup {"CONNECTED"} /\ attempts' = 0
    /\ UNCHANGED <<link, ap, s_wifi_retry_num, main_pc>>

HandleGotIp ==
    /\ Handling("GOT_IP")
    /\ s_wifi_retry_num' = 0 /\ attempts' = 0
    /\ bits' = bits \cup {"CONNECTED"}
    /\ UNCHANGED <<link, ap, main_pc>>

HandleEvent ==
    HandleStart \/ HandleConnected \/ HandleRetry \/ HandleGiveUp \/ HandleGotIp

-----------------------------------------------------------------------------
(* app_main *)

BitSet ==          \* xEventGroupWaitBits returns with a bit set
    /\ main_pc = "waiting" /\ bits # {}
    /\ main_pc' = IF "CONNECTED" \in bits THEN "ready" ELSE "not_connected"
    /\ UNCHANGED <<link, ap, events, s_wifi_retry_num, bits, attempts>>

WaitTimeout ==     \* after 30 s; app_main goes on to the key loop either way
    /\ main_pc = "waiting" /\ bits = {}
    /\ main_pc' = "not_connected"
    /\ UNCHANGED <<link, ap, events, s_wifi_retry_num, bits, attempts>>

Next ==
    \/ Associate \/ GetIp \/ Lose \/ ApChanges
    \/ HandleEvent
    \/ BitSet \/ WaitTimeout

Spec == Init /\ [][Next]_vars

\* The event loop task and app_main run; the driver gets through to an access
\* point that stays and notices one that is gone.
Fairness ==
    /\ WF_vars(HandleEvent) /\ WF_vars(BitSet \/ WaitTimeout)
    /\ WF_vars(Associate \/ GetIp) /\ WF_vars(Lose)
FairSpec == Spec /\ Fairness

-----------------------------------------------------------------------------
(* Properties *)

\* The station is never down with nothing under way unless it has given up and
\* said so: no order of events, stale ones included, loses the reconnect.
NeverIdleSilently == link = "idle" /\ events = << >> => "FAIL" \in bits

\* It gives up only after all the retries were made since the last address:
\* an outage never has fewer because of those before it or of stale events.
GivesUpOnlyAfterAll == link = "idle" /\ events = << >> => attempts >= WIFI_MAXIMUM_RETRY

\* When the access point stays away the station settles and tells.
GivesUp == <>[]~ap => <>(link = "idle" /\ "FAIL" \in bits)
=============================================================================
