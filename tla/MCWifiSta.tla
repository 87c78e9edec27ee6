----------------------------- MODULE MCWifiSta -----------------------------
(* WifiSta for TLC: room for all the events the driver can post before the  *)
(* handlers have to call it again (connected, address, disconnected).       *)
EXTENDS WifiSta
=============================================================================
