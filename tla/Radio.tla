------------------------------- MODULE Radio --------------------------------
(***************************************************************************)
(* What the WiFi controller promises about the one radio, wlan0: it is used *)
(* as an access point or as a station of one network, never as both, and it *)
(* goes from one use to another only through being off.                    *)
(***************************************************************************)
CONSTANT Ssids

VARIABLE users     \* who uses the radio: role and network

Uses == {"ap", "sta"} \X Ssids

Init == users = {}

On(u) == users = {} /\ users' = {u}

Off == users' = {}

Next == Off \/ \E u \in Uses : On(u)

Spec == Init /\ [][Next]_users
=============================================================================
