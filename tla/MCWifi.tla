------------------------------- MODULE MCWifi -------------------------------
(* TLC instances of WifiController: the cfg files choose the constants. *)
EXTENDS WifiController, TLC

\* Networks and threads are interchangeable.
Symmetry == Permutations(Ssids) \cup Permutations(Threads)

\* Programs that may be missing: none, or any one of them.
AllInstalled == {{}}
OneMissing == {{}, {"hostapd"}, {"dnsmasq"}, {"wpa_supplicant"}}
=============================================================================
