----------------------------- MODULE ReplyBuffer -----------------------------
(***************************************************************************)
(* The reply buffer of voice_ws_event_handler (main.c): how the pieces of  *)
(* a message that esp_websocket_client_recv delivers are put together in   *)
(* ctx->response, of response_cap bytes, and when the reply is announced.  *)
(* Bytes are counted, not represented: what matters is how many bytes of   *)
(* which message the buffer holds.  Messages follow each other, and one is *)
(* cut short where the connection breaks; an event may carry no data.      *)
(***************************************************************************)
EXTENDS Naturals

CONSTANTS
    Cap,       \* response_cap (4096)
    MaxLen     \* longest message a server sends; a bound for TLC

ASSUME CapAssumption == Cap \in Nat \ {0}
ASSUME MaxLenAssumption == MaxLen \in Nat \ {0}

VARIABLES
    response_len,        \* ctx->response_len
    response_overflow,   \* ctx->response_overflow
    nul,                 \* index of the terminating NUL last written
    announced,           \* VOICE_WS_RESPONSE_BIT: set once, never cleared
    payload_len,         \* length of the message being received
    payload_offset,      \* client->payload_offset: bytes of it read so far
    held                 \* history: data bytes delivered of the message held

vars == <<response_len, response_overflow, nul, announced,
          payload_len, payload_offset, held>>

\* The bytes copied and the NUL behind them stay inside the buffer, however
\* long the messages and wherever they are cut.
TypeOK ==
    /\ response_len \in 0..(Cap - 1) /\ nul \in 0..(Cap - 1)
    /\ response_overflow \in BOOLEAN /\ announced \in BOOLEAN
    /\ payload_len \in 0..MaxLen /\ payload_offset \in 0..payload_len
    /\ held \in 0..MaxLen

Init ==
    /\ response_len = 0 /\ response_overflow = FALSE /\ nul = 0
    /\ announced = FALSE
    /\ payload_len = 0 /\ payload_offset = 0
    /\ held = 0

\* A new message begins: the last one is complete or its connection has gone.
NewMessage(len) ==
    /\ payload_len' = len
    /\ payload_offset' = 0
    /\ UNCHANGED <<response_len, response_overflow, nul, announced, held>>

\* n bytes of data are stored from index start where room bytes are left.
Store(n, start, room) ==
    LET copy == IF n > room THEN room ELSE n
    IN  /\ response_overflow' =
               (n > room \/ (payload_offset # 0 /\ response_overflow))
        /\ response_len' = start + copy
        /\ nul' = IF copy > 0 THEN start + copy ELSE nul

\* Mutant: the old reply is not dropped when a new message begins.
StartKeeps == response_len

\* Where the data of an event goes: a message starts at the buffer's start.
Start == IF payload_offset = 0 THEN 0 ELSE response_len

\* Room for data behind index start, one byte being kept for the NUL.
Room(start) == Cap - start - 1

\* Mutant: the last byte is taken to have come one byte early.
LastEarly(n) == payload_len <= payload_offset + n + 1

\* Are the n bytes at payload_offset the last of their message?
Last(n) == payload_len <= payload_offset + n

\* A DATA event with n > 0 bytes, and the read loop's payload_offset += rlen.
AppendData(n) ==
    /\ n \in 1..(payload_len - payload_offset)
    /\ Store(n, Start, Room(Start))
    /\ held' = IF payload_offset = 0 THEN n ELSE held + n
    /\ announced' = (announced \/ Last(n))
    /\ payload_offset' = payload_offset + n
    /\ UNCHANGED payload_len

\* A DATA event without data (an empty message, a stalled read) is ignored.
Next ==
    \/ \E len \in 0..MaxLen : NewMessage(len)
    \/ \E n \in 1..MaxLen : AppendData(n)

Spec == Init /\ [][Next]_vars

-----------------------------------------------------------------------------
\* The buffer holds exactly the data delivered of one message, cut at the
\* capacity, NUL-terminated, and overflow is reported exactly when it was cut.
HoldsOneMessage ==
    /\ response_len = IF held > Cap - 1 THEN Cap - 1 ELSE held
    /\ response_overflow <=> held > Cap - 1
    /\ held > 0 /\ Cap > 1 => nul = response_len

\* The handler announces the first reply only when every byte of its message
\* has been delivered.
AnnouncedWhenComplete == [][~announced /\ announced' => held' = payload_len']_vars
=============================================================================
