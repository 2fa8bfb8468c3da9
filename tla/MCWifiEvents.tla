---------------------------- MODULE MCWifiEvents ----------------------------
(* TLC instance of WifiEvents: WifiEvents.cfg chooses the constants. *)
EXTENDS WifiEvents
=============================================================================
