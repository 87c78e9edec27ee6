---------------------------- MODULE MCWsMessages ----------------------------
(* WsMessages for TLC: two senders of messages that are empty, exactly fill *)
(* the buffer of two bytes, need a frame more, or fill two; messages of the *)
(* server on both sides of the capacity of a reply buffer of three bytes.   *)
EXTENDS WsMessages
=============================================================================
