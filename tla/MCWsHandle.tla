---------------------------- MODULE MCWsHandle ----------------------------
(* WsHandle for TLC: the members of the configuration this firmware sets,  *)
(* and every other one that has a way of its own through the memory.       *)
EXTENDS WsHandle
=============================================================================
