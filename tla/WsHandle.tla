------------------------------- MODULE WsHandle -------------------------------
(***************************************************************************)
(* The memory of a client handle of esp_websocket_client.c: what           *)
(* esp_websocket_client_init, set_uri, set_config, start, append_header, a *)
(* redirect and the error message allocate, any of which may find no       *)
(* memory, and what destroy gives back.                                    *)
(*                                                                         *)
(* A call is a list of steps, of which those are left out that the members *)
(* set in the configuration or the parts of the URI do not ask for.  Of    *)
(* each pointer mem has where it points and how many blocks allocated for  *)
(* it are alive.                                                           *)
(***************************************************************************)
EXTENDS Naturals, Sequences

CONSTANTS
    Given,       \* members of esp_websocket_client_config_t that may be set
    UriParts,    \* parts an URI may have
    MaxBlocks    \* a bound: no redirect with more blocks of one pointer alive

ASSUME HandleAssumption ==
    /\ Given \subseteq {"if_name", "transport", "uri", "host", "username",
                        "password", "path", "headers"}
    /\ UriParts \subseteq {"uri_schema", "uri_host", "uri_path", "uri_userinfo",
                           "uri_password"}
    /\ MaxBlocks \in Nat

VARIABLES
    given,       \* what of Given is set
    at,          \* "none", the call under way, "ready", "running" or "gone"
    parts,       \* those of the URI the call under way is given
    step,        \* which step of the call is next, or 0
    mem,         \* the pointers of the handle
    starved      \* history: a call failed with the userinfo of an URI in hand

handle_vars == <<given, at, parts, step, mem, starved>>

\* Mutant: one string is forgotten.
ConfigFieldsButAuth ==
    {"host", "uri", "path", "scheme", "username", "password", "headers", "config"}

\* What destroy_config frees, the structure itself last.
ConfigFields ==
    {"host", "uri", "path", "scheme", "username", "password", "auth", "headers",
     "config"}

Transports == {"list", "tcp", "ws"}    \* the list owns the transports in it

Fields == {"client", "event_handle", "if_name", "lock", "rx_buffer", "tx_buffer",
           "errormsg_buffer", "status_bits", "user_info", "auth"}
          \cup ConfigFields \cup Transports

HandleInit ==
    /\ given \in SUBSET Given
    /\ at = "none" /\ parts = {} /\ step = 0
    /\ mem = [f \in Fields |-> [ptr |-> "null", blocks |-> 0]]
    /\ starved = FALSE

-----------------------------------------------------------------------------
(* free and the allocations *)

Freed(m, F) ==
    [f \in Fields |->
        IF f \notin F \/ m[f].ptr = "null" THEN m[f]
        ELSE IF m[f].ptr = "block" THEN [ptr |-> "freed", blocks |-> m[f].blocks - 1]
        ELSE [m[f] EXCEPT !.ptr = "freed twice"]]

Cleared(m, F) ==
    [f \in Fields |-> IF f \in F /\ m[f].ptr # "freed twice"
                      THEN [m[f] EXCEPT !.ptr = "null"] ELSE m[f]]

\* The pointer is overwritten, whatever it was.
Got(m, f) == [m EXCEPT ![f] = [ptr |-> "block", blocks |-> m[f].blocks + 1]]

\* Mutant: after a failed asprintf the old pointer stays.
NoMemKeeps(m, f) == m

\* strdup, malloc and calloc return NULL, and set_uri writes it after asprintf.
NoMem(m, f) == Cleared(m, {f})

-----------------------------------------------------------------------------
(* The calls *)

\* What is done to which pointer, and what must be given for it to be done.
New(f, needs) == [do |-> "new", field |-> f, needs |-> needs]
Renew(f, needs) == [do |-> "renew", field |-> f, needs |-> needs]
Drop(f, needs) == [do |-> "drop", field |-> f, needs |-> needs]
Check(needs) == [do |-> "check", field |-> "client", needs |-> needs]

SetUri ==
    <<Renew("scheme", {"uri_schema"}),
      Renew("host", {"uri_host"}),
      Renew("path", {"uri_path"}),
      New("user_info", {"uri_userinfo"}),
      Renew("password", {"uri_userinfo", "uri_password"}),
      Renew("username", {"uri_userinfo"}),
      Drop("user_info", {"uri_userinfo"})>>

\* config->host alone is not freed before it is set.
SetConfig ==
    <<New("host", {"host"}),
      Renew("username", {"username"}),
      Renew("password", {"password"}),
      [do |-> "auth", field |-> "auth", needs |-> {}],
      Renew("uri", {"uri"}),
      Renew("path", {"path"}),
      Renew("headers", {"headers"})>>

ClientInit ==
    <<New("client", {}), New("event_handle", {}), New("if_name", {"if_name"}),
      New("lock", {}), New("config", {}), New("scheme", {"transport"}),
      Check({}), Check({"uri"})>>
    \o SetUri \o SetConfig
    \o <<[do |-> "default", field |-> "scheme", needs |-> {}],
         New("rx_buffer", {}), New("tx_buffer", {}), New("status_bits", {})>>

ClientStart ==
    <<Drop("list", {}), New("list", {}), New("tcp", {}), New("ws", {}),
      Check({}), Check({})>>

Redirected == <<Renew("uri", {}), Check({})>> \o SetUri

Calls == [init |-> ClientInit, start |-> ClientStart, redirect |-> Redirected]

Begin(name, uriParts) ==
    /\ at' = name /\ step' = 1 /\ parts' = uriParts
    /\ UNCHANGED <<given, mem>>

InitCall ==
    /\ at = "none"
    /\ \E uriParts \in SUBSET UriParts :
           /\ "uri" \in given \/ uriParts = {}
           /\ Begin("init", uriParts)

StartCall ==
    /\ at = "ready" /\ mem["scheme"].ptr = "block"
    /\ Begin("start", {})

Redirect ==
    /\ at = "running" /\ \A f \in Fields : mem[f].blocks <= MaxBlocks
    /\ \E uriParts \in SUBSET UriParts : Begin("redirect", uriParts)

AppendHeader ==      \* the new text is there before the old one is freed
    /\ at \in {"ready", "running"}
    /\ mem' = Got(Freed(mem, {"headers"}), "headers")
    /\ UNCHANGED <<given, at, parts, step>>

Error ==             \* the message needs more room than the last one
    /\ at = "running"
    /\ LET freed == Freed(mem, {"errormsg_buffer"})
       IN  mem' \in {Got(freed, "errormsg_buffer"), Cleared(freed, {"errormsg_buffer"})}
    /\ UNCHANGED <<given, at, parts, step>>

Abort ==
    /\ at = "running"
    /\ mem' = Cleared(Freed(mem, {"errormsg_buffer"}), {"errormsg_buffer"})
    /\ UNCHANGED <<given, at, parts, step>>

Stop == at = "running" /\ at' = "ready" /\ UNCHANGED <<given, parts, step, mem>>

Destroyed(m) ==      \* destroy_and_free_resources
    Cleared(Freed(m, (Fields \ (ConfigFields \cup {"user_info", "auth"}))
                     \cup (IF m["config"].ptr = "block" THEN ConfigFields ELSE {})),
            Fields)

Destroy ==
    /\ at = "ready"
    /\ at' = "gone" /\ mem' = Destroyed(mem)
    /\ UNCHANGED <<given, parts, step>>

-----------------------------------------------------------------------------
(* One step of the call under way *)

Step == Calls[at][step]

\* May the step be left out because there is nothing to do?
Skipped ==
    \/ ~(Step.needs \subseteq given \cup parts)
    \/ Step.do = "auth" /\ \E f \in {"username", "password"} : mem[f].ptr = "null"
    \/ Step.do = "default" /\ mem["scheme"].ptr # "null"

Old ==               \* what the step frees first
    CASE Step.do \in {"renew", "auth"} -> {Step.field}
      [] Step.do = "drop" -> IF Step.field = "list" THEN Transports ELSE {Step.field}
      [] OTHER -> {}

Leave(next) == at' = next /\ step' = 0 /\ parts' = {} /\ UNCHANGED given

StepOk ==
    /\ at \in DOMAIN Calls
    /\ mem' = IF Skipped \/ Step.do = "check" THEN mem
              ELSE IF Step.do = "drop" THEN Cleared(Freed(mem, Old), Old)
              ELSE Got(Freed(mem, Old), Step.field)
    /\ IF step = Len(Calls[at])
       THEN Leave(IF at = "init" THEN "ready" ELSE "running")
       ELSE step' = step + 1 /\ UNCHANGED <<given, at, parts>>

GiveUp(m) ==         \* only esp_websocket_client_init cleans up
    /\ mem' = IF at = "init" THEN Destroyed(m) ELSE m
    /\ Leave(CASE at = "init" -> "gone" [] at = "start" -> "ready" [] OTHER -> "running")

NotFound ==          \* no memory, or a check fails
    /\ at \in DOMAIN Calls
    /\ ~Skipped /\ Step.do # "drop"
    /\ GiveUp(IF Step.do = "check" THEN mem ELSE NoMem(Freed(mem, Old), Step.field))
    /\ starved' = (starved \/ mem["user_info"].ptr = "block")

HandleNext ==
    \/ NotFound
    \/ /\ \/ InitCall \/ StartCall \/ StepOk
          \/ Redirect \/ AppendHeader \/ Error \/ Abort
          \/ Stop \/ Destroy
       /\ UNCHANGED starved

HandleSpec == HandleInit /\ [][HandleNext]_handle_vars

-----------------------------------------------------------------------------
(* Properties *)

\* Whichever step of whichever call finds no memory, no pointer is left to a
\* freed block, none is freed twice, and a handle that can be used, or runs, has
\* the parts that the calls and the task use unasked.
NoDanglingPointer ==
    /\ \A f \in Fields : mem[f].ptr # "freed twice"
    /\ step = 0 => \A f \in Fields : mem[f].ptr # "freed"
    /\ at \in {"ready", "running"} =>
           \A f \in {"client", "event_handle", "lock", "config", "rx_buffer",
                     "tx_buffer", "status_bits"} \cup
                    (IF at = "running" THEN Transports ELSE {}) :
               mem[f].ptr = "block"

\* Every way out gives all memory back, but for a host that config and URI both
\* name, and the userinfo of an URI if a call broke off while set_uri had it in
\* hand: between its strdup and its free two more allocations may fail.
AllGivenBack ==
    at = "gone" =>
        \A f \in Fields : mem[f].blocks > 0 =>
            \/ f = "host" /\ {"host", "uri"} \subseteq given
            \/ f = "user_info" /\ starved
=============================================================================
