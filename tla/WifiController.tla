--------------------------- MODULE WifiController ---------------------------
(***************************************************************************)
(* The WiFi controller of the portal (pi/wifi_controller.py): the module    *)
(* state behind its lock, the HTTP handler threads that work on it, and the *)
(* programs they start on wlan0 (hostapd, dnsmasq, wpa_supplicant).         *)
(*                                                                         *)
(* One action is the code of one thread from a point where it waits (for    *)
(* the lock, a program, the network) to the next.  A flag and the name that *)
(* goes with it are one variable: NoSsid stands for "not active".           *)
(***************************************************************************)
EXTENDS Naturals

CONSTANTS
    Threads,       \* HTTP handler threads
    Ssids,         \* network names
    NoThread, NoSsid,
    Programs,      \* which sets of programs may be missing on the Pi
    Requests,      \* the client requests that may arrive
    Faults,        \* what may fail
    MaxRequests    \* bound: client requests

RequestKinds == {"ap_start", "ap_stop", "sta_join", "sta_leave", "serial", "testing"}
FaultKinds == {"hostapd", "dnsmasq", "hang", "join", "crash", "shutdown"}

ASSUME NamesAssumption ==
    /\ NoThread \notin Threads
    /\ NoSsid \notin Ssids
ASSUME SwitchesAssumption ==
    /\ Programs \subseteq SUBSET {"hostapd", "dnsmasq", "wpa_supplicant"}
    /\ Requests \subseteq RequestKinds
    /\ Faults \subseteq FaultKinds
    /\ MaxRequests \in Nat

VARIABLES
    \* module state
    modeSsid,      \* _mode and _mode_ssid: NoSsid in wifi-testing mode
    ap,            \* _ap_active and _ap_ssid
    sta,           \* _sta_active and _sta_ssid
    saved,         \* _saved_ap
    lock,          \* who holds _lock
    \* the threads
    pc, ssid,      \* where each thread is, and the network it works for
    \* the programs on wlan0
    hostapd,       \* the network hostapd serves
    dnsmasq,       \* dnsmasq runs
    wpa,           \* the network wpa_supplicant is configured for
    missing,       \* programs that are not installed
    serving, requests

controlVars == <<modeSsid, saved>>
apVars == <<ap, hostapd, dnsmasq>>
staVars == <<sta, wpa>>
envVars == <<missing, serving, requests>>
vars == <<controlVars, apVars, staVars, lock, pc, ssid, envVars>>

\* Points where a thread waits for the lock, and points where it holds it.  An
\* "i_" marks the join that set_mode makes (_internal=True).
Waiting == {"ap_start", "ap_stop", "sta_join", "i_join", "sta_leave", "serial",
            "testing", "revert"}
Locked == {"hostapd", "dnsmasq", "wpa", "i_wpa", "connect", "i_connect"}
Points == Waiting \cup Locked \cup {"idle", "restore"}

Networks == Ssids \cup {NoSsid}

TypeOK ==
    /\ modeSsid \in Networks /\ ap \in Networks /\ sta \in Networks
    /\ saved \in Networks /\ hostapd \in Networks /\ wpa \in Networks
    /\ dnsmasq \in BOOLEAN /\ serving \in BOOLEAN
    /\ lock \in Threads \cup {NoThread}
    /\ pc \in [Threads -> Points]
    /\ ssid \in [Threads -> Networks]
    /\ missing \in SUBSET {"hostapd", "dnsmasq", "wpa_supplicant"}
    /\ requests \in 0 .. MaxRequests

Init ==
    /\ modeSsid = NoSsid /\ ap = NoSsid /\ sta = NoSsid /\ saved = NoSsid
    /\ hostapd = NoSsid /\ dnsmasq = FALSE /\ wpa = NoSsid
    /\ lock = NoThread
    /\ pc = [t \in Threads |-> "idle"]
    /\ ssid = [t \in Threads |-> NoSsid]
    /\ missing \in Programs
    /\ serving = TRUE /\ requests = 0

-----------------------------------------------------------------------------
(* Helpers *)

\* _mode == "wifi-testing"
Testing == modeSsid = NoSsid

Goto(t, p) == pc' = [pc EXCEPT ![t] = p]

Return(t) == /\ pc' = [pc EXCEPT ![t] = "idle"]
             /\ ssid' = [ssid EXCEPT ![t] = NoSsid]

\* Thread t, which waits at w, finds the lock free.
LockFree(t, w) == pc[t] = w /\ lock = NoThread

\* An exception leaves sta_join: set_mode catches the one of its own join.
JoinRaises(t) ==
    /\ lock' = NoThread
    /\ IF pc[t] \in {"i_wpa", "i_connect"} THEN Goto(t, "revert") /\ UNCHANGED ssid
                                          ELSE Return(t)

\* _ap_stop_unlocked
ApStopUnlocked == hostapd' = NoSsid /\ dnsmasq' = FALSE /\ ap' = NoSsid

\* _sta_stop_unlocked
StaStopUnlocked == wpa' = NoSsid /\ sta' = NoSsid

StopAllUnlocked == ApStopUnlocked /\ StaStopUnlocked

-----------------------------------------------------------------------------
(* ap_start and ap_stop *)

\* Mutant: ap_start stops a running AP only.
ApStartKeepsSta(t) ==
    /\ LockFree(t, "ap_start")
    /\ lock' = t
    /\ ApStopUnlocked
    /\ Goto(t, "hostapd")
    /\ UNCHANGED <<controlVars, staVars, ssid, envVars>>

\* Stop what runs, write the configuration, take over wlan0.
ApStart(t) ==
    /\ LockFree(t, "ap_start")
    /\ lock' = t
    /\ StopAllUnlocked
    /\ Goto(t, "hostapd")
    /\ UNCHANGED <<controlVars, ssid, envVars>>

\* hostapd runs after 1.5 s.
HostapdStarts(t) ==
    /\ pc[t] = "hostapd" /\ "hostapd" \notin missing
    /\ hostapd' = ssid[t]
    /\ Goto(t, "dnsmasq")
    /\ UNCHANGED <<controlVars, ap, dnsmasq, staVars, lock, ssid, envVars>>

\* It has exited, or Popen raises.
HostapdFails(t) ==
    /\ pc[t] = "hostapd" /\ ("hostapd" \in Faults \/ "hostapd" \in missing)
    /\ lock' = NoThread /\ Return(t)
    /\ UNCHANGED <<controlVars, apVars, staVars, envVars>>

DnsmasqStarts(t) ==
    /\ pc[t] = "dnsmasq" /\ "dnsmasq" \notin missing
    /\ dnsmasq' = TRUE /\ ap' = ssid[t]
    /\ lock' = NoThread /\ Return(t)
    /\ UNCHANGED <<controlVars, hostapd, staVars, envVars>>

\* Mutant: the error path forgets hostapd.
DnsmasqFailsHostapdStays(t) ==
    /\ pc[t] = "dnsmasq" /\ "dnsmasq" \in Faults
    /\ lock' = NoThread /\ Return(t)
    /\ UNCHANGED <<controlVars, apVars, staVars, envVars>>

\* It has exited after 0.5 s.
DnsmasqFails(t) ==
    /\ pc[t] = "dnsmasq" /\ "dnsmasq" \in Faults
    /\ hostapd' = NoSsid
    /\ lock' = NoThread /\ Return(t)
    /\ UNCHANGED <<controlVars, ap, dnsmasq, staVars, envVars>>

\* Popen raises: nothing stops hostapd.
DnsmasqMissing(t) ==
    /\ pc[t] = "dnsmasq" /\ "dnsmasq" \in missing
    /\ lock' = NoThread /\ Return(t)
    /\ UNCHANGED <<controlVars, apVars, staVars, envVars>>

ApStop(t) ==
    /\ LockFree(t, "ap_stop")
    /\ ApStopUnlocked
    /\ Return(t)
    /\ UNCHANGED <<controlVars, staVars, lock, envVars>>

-----------------------------------------------------------------------------
(* sta_join and sta_leave *)

\* Remember the AP, if there is one, and stop what runs.
StaJoin(t) ==
    /\ LockFree(t, "sta_join") \/ LockFree(t, "i_join")
    /\ lock' = t
    /\ saved' = ap
    /\ StopAllUnlocked
    /\ Goto(t, IF pc[t] = "i_join" THEN "i_wpa" ELSE "wpa")
    /\ UNCHANGED <<modeSsid, ssid, envVars>>

\* wpa_supplicant goes into the background, or ends with an error that nobody reads.
WpaStarts(t) ==
    /\ pc[t] \in {"wpa", "i_wpa"} /\ "wpa_supplicant" \notin missing
    /\ wpa' \in {ssid[t]} \cup (IF "join" \in Faults THEN {NoSsid} ELSE {})
    /\ Goto(t, IF pc[t] = "i_wpa" THEN "i_connect" ELSE "connect")
    /\ UNCHANGED <<controlVars, apVars, sta, lock, ssid, envVars>>

\* wait(timeout=5) raises while wpa_supplicant runs; nothing stops it.
WpaHangs(t) ==
    /\ pc[t] \in {"wpa", "i_wpa"} /\ "wpa_supplicant" \notin missing /\ "hang" \in Faults
    /\ wpa' = ssid[t]
    /\ JoinRaises(t)
    /\ UNCHANGED <<controlVars, apVars, sta, envVars>>

WpaMissing(t) ==
    /\ pc[t] \in {"wpa", "i_wpa"} /\ "wpa_supplicant" \in missing
    /\ JoinRaises(t)
    /\ UNCHANGED <<controlVars, apVars, staVars, envVars>>

\* Associated, and an address obtained.
Connects(t) ==
    /\ pc[t] \in {"connect", "i_connect"} /\ wpa # NoSsid
    /\ sta' = ssid[t]
    /\ lock' = NoThread /\ Return(t)
    /\ UNCHANGED <<controlVars, apVars, wpa, envVars>>

\* Not associated in time, or no address.
ConnectFails(t) ==
    /\ pc[t] \in {"connect", "i_connect"} /\ ("join" \in Faults \/ wpa = NoSsid)
    /\ StaStopUnlocked
    /\ JoinRaises(t)
    /\ UNCHANGED <<controlVars, apVars, envVars>>

\* Mutant: the AP is restored with the lock held.
StaLeaveKeepsLock(t) ==
    /\ LockFree(t, "sta_leave")
    /\ StaStopUnlocked
    /\ saved' = NoSsid
    /\ Goto(t, IF saved # NoSsid THEN "restore" ELSE "idle")
    /\ ssid' = [ssid EXCEPT ![t] = saved]
    /\ lock' = IF saved # NoSsid THEN t ELSE NoThread
    /\ UNCHANGED <<modeSsid, apVars, envVars>>

StaLeave(t) ==
    /\ LockFree(t, "sta_leave")
    /\ StaStopUnlocked
    /\ saved' = NoSsid
    /\ Goto(t, IF saved # NoSsid THEN "restore" ELSE "idle")
    /\ ssid' = [ssid EXCEPT ![t] = saved]
    /\ UNCHANGED <<modeSsid, apVars, lock, envVars>>

\* sta_leave calls ap_start, which looks at the mode first.
Restore(t) ==
    /\ pc[t] = "restore"
    /\ IF Testing THEN Goto(t, "ap_start") /\ UNCHANGED ssid ELSE Return(t)
    /\ UNCHANGED <<controlVars, apVars, staVars, lock, envVars>>

-----------------------------------------------------------------------------
(* set_mode *)

ModeSerial(t) ==
    /\ LockFree(t, "serial") /\ Testing
    /\ StopAllUnlocked
    /\ modeSsid' = ssid[t]
    /\ Goto(t, "i_join")
    /\ UNCHANGED <<saved, lock, ssid, envVars>>

ModeTesting(t) ==
    /\ LockFree(t, "testing") /\ ~Testing
    /\ StopAllUnlocked
    /\ modeSsid' = NoSsid
    /\ Return(t)
    /\ UNCHANGED <<saved, lock, envVars>>

\* if mode == _mode
ModeUnchanged(t) ==
    /\ \/ LockFree(t, "serial") /\ ~Testing
       \/ LockFree(t, "testing") /\ Testing
    /\ Return(t)
    /\ UNCHANGED <<controlVars, apVars, staVars, lock, envVars>>

\* "Revert on failure"
ModeRevert(t) ==
    /\ LockFree(t, "revert")
    /\ modeSsid' = NoSsid
    /\ Return(t)
    /\ UNCHANGED <<saved, apVars, staVars, lock, envVars>>

-----------------------------------------------------------------------------
(* Client requests; a request that the mode forbids changes nothing. *)

Request(t, kind, n) ==
    /\ kind \in Requests /\ serving /\ requests < MaxRequests
    /\ requests' = requests + 1
    /\ pc[t] = "idle"
    /\ Goto(t, kind)
    /\ ssid' = [ssid EXCEPT ![t] = n]
    /\ UNCHANGED <<controlVars, apVars, staVars, lock, missing, serving>>

\* ap_start and sta_join call _check_wifi_testing_mode before they wait for the lock.
RequestRadio(t) ==
    \E n \in Ssids : Testing /\ (Request(t, "ap_start", n) \/ Request(t, "sta_join", n))

RequestStop(t) ==
    \/ Request(t, "ap_stop", NoSsid) \/ Request(t, "sta_leave", NoSsid)
    \/ Request(t, "testing", NoSsid)

RequestSerial(t) == \E n \in Ssids : Request(t, "serial", n)

-----------------------------------------------------------------------------
(* The environment *)

\* A program ends by itself; nobody watches it.
ProgramDies ==
    /\ "crash" \in Faults
    /\ \/ hostapd # NoSsid /\ hostapd' = NoSsid /\ UNCHANGED <<dnsmasq, wpa>>
       \/ dnsmasq /\ dnsmasq' = FALSE /\ UNCHANGED <<hostapd, wpa>>
       \/ wpa # NoSsid /\ wpa' = NoSsid /\ UNCHANGED <<hostapd, dnsmasq>>
    /\ UNCHANGED <<controlVars, ap, sta, lock, pc, ssid, envVars>>

\* The portal is interrupted: no further requests; those under way go on.
Shutdown ==
    /\ "shutdown" \in Faults /\ serving /\ lock = NoThread
    /\ serving' = FALSE
    /\ StopAllUnlocked
    /\ modeSsid' = NoSsid
    /\ UNCHANGED <<saved, lock, pc, ssid, missing, requests>>

-----------------------------------------------------------------------------
(* The specification *)

Arrive(t) == RequestRadio(t) \/ RequestStop(t) \/ RequestSerial(t)

\* Steps that need the lock, and steps that do not or that have it already.
LockStep(t) ==
    \/ ApStart(t) \/ ApStop(t) \/ StaJoin(t) \/ StaLeave(t)
    \/ ModeSerial(t) \/ ModeTesting(t) \/ ModeUnchanged(t) \/ ModeRevert(t)

RunStep(t) ==
    \/ HostapdStarts(t) \/ HostapdFails(t)
    \/ DnsmasqStarts(t) \/ DnsmasqFails(t) \/ DnsmasqMissing(t)
    \/ WpaStarts(t) \/ WpaHangs(t) \/ WpaMissing(t)
    \/ Connects(t) \/ ConnectFails(t)
    \/ Restore(t)

Next ==
    \/ \E t \in Threads : Arrive(t) \/ LockStep(t) \/ RunStep(t)
    \/ ProgramDies \/ Shutdown

Spec == Init /\ [][Next]_vars

\* Every wait with the lock held has a time limit, and a thread that waits for a
\* lock that is released again and again gets it.
FairSpec ==
    /\ Spec
    /\ \A t \in Threads : WF_vars(RunStep(t)) /\ SF_vars(LockStep(t))

-----------------------------------------------------------------------------
(* Properties *)

Quiescent == \A t \in Threads : pc[t] = "idle"

\* The refinement: who uses the radio.
Users ==
    (IF hostapd = NoSsid THEN {} ELSE {<<"ap", hostapd>>})
        \cup (IF wpa = NoSsid THEN {} ELSE {<<"sta", wpa>>})

R == INSTANCE Radio WITH users <- Users

\* ap_start, sta_join, set_mode and their failures, in any interleaving, use the radio
\* as Radio says: AP and STA exclude each other, and a change of use stops first.
RefinesRadio == R!Spec

(* The inductive invariant behind the properties *)

\* The holder of the lock is the one thread inside a locked section.
LockHeld == \A t \in Threads : pc[t] \in Locked <=> lock = t

\* Threads that are to start a program have a network to start it for.
HasNetwork ==
    \A t \in Threads :
        pc[t] \in Locked \cup {"ap_start", "sta_join", "i_join", "serial", "restore"}
            => ssid[t] # NoSsid

\* What each point of ap_start and sta_join may rely on.
Progress ==
    /\ lock = NoThread => hostapd = NoSsid \/ wpa = NoSsid
    /\ \A t \in Threads :
          /\ pc[t] \in Locked => ap = NoSsid /\ sta = NoSsid /\ ~dnsmasq
          /\ pc[t] \in Locked \ {"dnsmasq"} => hostapd = NoSsid
          /\ pc[t] \in Locked \ {"connect", "i_connect"} => wpa = NoSsid
          /\ pc[t] = "dnsmasq" => hostapd \in {ssid[t], NoSsid}
          /\ pc[t] \in {"connect", "i_connect"} => wpa \in {ssid[t], NoSsid}

\* What ap_status and the station state say is true of the radio whenever nobody is
\* working on it: never both active, a hostapd or dnsmasq that runs belongs to the AP
\* that is reported (a failed ap_start leaves none behind), and a station session is on
\* the network it is reported on.  Popen raising for a missing dnsmasq is excepted.
StatusTruthful ==
    lock = NoThread /\ "dnsmasq" \notin missing =>
        /\ ap = NoSsid \/ sta = NoSsid
        /\ hostapd # NoSsid => ap = hostapd
        /\ dnsmasq => ap # NoSsid
        /\ sta # NoSsid /\ wpa # NoSsid => sta = wpa

\* Every request comes to an end: no path calls ap_start, sta_join or set_mode, which
\* take the lock, with the lock held.
RequestsEnd == \A t \in Threads : pc[t] # "idle" ~> pc[t] = "idle"
=============================================================================
