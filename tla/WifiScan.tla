------------------------------ MODULE WifiScan ------------------------------
(***************************************************************************)
(* scan (pi/wifi_controller.py): the output of iw is read line by line, and *)
(* the networks found are sorted.                                          *)
(*                                                                         *)
(* A network is what iw prints: a BSS line, then a line for the signal, one *)
(* for the name, and one for each kind of security, in any order.           *)
(***************************************************************************)
EXTENDS Integers, Sequences, FiniteSets, Functions

CONSTANTS
    Ssids, Hidden,      \* names of networks; Hidden is the empty one
    Signals,            \* dBm
    MaxNetworks         \* bound: networks iw prints

ASSUME ScanAssumption == Signals \subseteq Int /\ Hidden \notin Ssids

VARIABLES
    air, todo,          \* the networks iw has printed; the lines to come of the last one
    networks, current,  \* the variables of scan
    scanned, found      \* it has returned, and what

scanVars == <<air, todo, networks, current, found, scanned>>

Protocols == {"RSN", "WPA", "WEP"}
AuthOf == [RSN |-> "WPA2", WPA |-> "WPA", WEP |-> "WEP"]

Bss == [ssid : Ssids \cup {Hidden}, rssi : Signals, security : SUBSET Protocols]
Network ==
    [ssid : Ssids \cup {Hidden}, rssi : Signals \cup {0}, auth : {"OPEN", "WPA2", "WPA", "WEP"}]

ScanTypeOK ==
    /\ air \in Seq(Bss) /\ todo \subseteq Protocols \cup {"SSID", "signal"}
    /\ networks \in Seq(Network) /\ current \in Network
    /\ found \in Seq(Network) /\ scanned \in BOOLEAN

Nothing == [ssid |-> Hidden, rssi |-> 0, auth |-> "OPEN"]

ScanInit ==
    /\ air = <<>> /\ todo = {} /\ networks = <<>> /\ current = Nothing
    /\ found = <<>> /\ scanned = FALSE

-----------------------------------------------------------------------------

\* A network is complete when the next begins; hidden ones are left out.
Flush == IF current.ssid = Hidden THEN networks ELSE Append(networks, current)

\* Mutant: a new network keeps what it does not set itself.
BssLineKeeps(b) ==
    /\ ~scanned /\ todo = {} /\ Len(air) < MaxNetworks
    /\ air' = Append(air, b) /\ todo' = b.security \cup {"SSID", "signal"}
    /\ networks' = Flush
    /\ UNCHANGED <<current, found, scanned>>

BssLine(b) ==
    /\ ~scanned /\ todo = {} /\ Len(air) < MaxNetworks
    /\ air' = Append(air, b) /\ todo' = b.security \cup {"SSID", "signal"}
    /\ networks' = Flush /\ current' = Nothing
    /\ UNCHANGED <<found, scanned>>

DetailLine(tag) ==
    /\ todo' = todo \ {tag}
    /\ LET b == air[Len(air)]
       IN  current' = IF tag = "SSID" THEN [current EXCEPT !.ssid = b.ssid]
                      ELSE IF tag = "signal" THEN [current EXCEPT !.rssi = b.rssi]
                      ELSE [current EXCEPT !.auth = AuthOf[tag]]
    /\ UNCHANGED <<air, networks, found, scanned>>

\* sort(key=rssi, reverse=True) is stable: where an element goes depends on those that
\* are stronger, and on those as strong that come first.
Ahead(s, i) ==
    {j \in 1 .. Len(s) : s[j].rssi > s[i].rssi \/ (s[j].rssi = s[i].rssi /\ j <= i)}
ByStrength(s) ==
    [k \in 1 .. Len(s) |-> s[CHOOSE i \in 1 .. Len(s) : Cardinality(Ahead(s, i)) = k]]

EndOfOutput ==
    /\ ~scanned /\ todo = {}
    /\ found' = ByStrength(Flush) /\ scanned' = TRUE
    /\ UNCHANGED <<air, todo, networks, current>>

ScanNext ==
    \/ \E b \in Bss : BssLine(b)
    \/ \E tag \in todo : DetailLine(tag)
    \/ EndOfOutput

ScanSpec == ScanInit /\ [][ScanNext]_scanVars

-----------------------------------------------------------------------------
(* Properties *)

\* Networks with a name, of the first n.
Named(n) == {i \in 1 .. n : air[i].ssid # Hidden}

\* How a network may be listed: with one of its kinds of security.
Auths(b) == IF b.security = {} THEN {"OPEN"} ELSE {AuthOf[p] : p \in b.security}
Lists(x, b) == x.ssid = b.ssid /\ x.rssi = b.rssi /\ x.auth \in Auths(b)

\* A scan lists every network with a name once, with its own signal and security, and
\* nothing else, the strongest first.
ScanListsNetworks ==
    scanned =>
        /\ \E place \in Bijection(Named(Len(air)), 1 .. Len(found)) :
              \A i \in Named(Len(air)) : Lists(found[place[i]], air[i])
        /\ \A k, l \in 1 .. Len(found) : k <= l => found[k].rssi >= found[l].rssi
=============================================================================
