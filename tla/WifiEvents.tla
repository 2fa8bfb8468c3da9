----------------------------- MODULE WifiEvents -----------------------------
(***************************************************************************)
(* Stations and their events (pi/wifi_controller.py, the lease script and   *)
(* the test driver).  dnsmasq announces leases through a script, which posts *)
(* them to the portal; the portal keeps the station table and a queue of    *)
(* events without a lock; clients drain the queue by long polls.  The AP    *)
(* is started and stopped by one thread at a time (see WifiController).     *)
(*                                                                         *)
(* The queue is the part of `log' after `head'; a batch is the set of log   *)
(* positions that one poll has taken.                                      *)
(***************************************************************************)
EXTENDS Naturals, Sequences, FiniteSets

CONSTANTS
    Macs,          \* stations
    Polls,         \* handler threads of GET /api/wifi/events
    Drivers,       \* test scripts
    NoDriver, NoMac,
    Faults,        \* what may fail: "lost" posts, "slow" answers, the AP's "start"
    MaxAps,        \* bound: AP starts
    MaxLeases      \* bound: leases granted and ended

ASSUME NamesAssumption == NoDriver \notin Drivers /\ NoMac \notin Macs
ASSUME SwitchesAssumption ==
    /\ Faults \subseteq {"lost", "slow", "start"}
    /\ MaxAps \in Nat /\ MaxLeases \in Nat

Actions == {"add", "old", "del"}
Types == {"STA_CONNECT", "STA_DISCONNECT"}
Calls == Types \cup {"drain"}      \* wait_for_event(type), drain_events()

VARIABLES
    ap,            \* "off", "starting", "dhcp" (dnsmasq runs) or "on" (_ap_active)
    gen,           \* how many times the AP was started
    leases,        \* dnsmasq's leases; the file outlives it
    changes,       \* leases granted and ended so far
    script,        \* for each station the announcements still to be posted
    handler,       \* the station and event the lease handler is about to queue
    stations,      \* _stations: for each station the AP it was announced by, 0: not listed
    last,          \* for each station its latest announcement handled
    excused,       \* stations whose latest announcement was lost or wiped
    log, head,     \* _event_queue
    pc, owner, batch,      \* the polls
    call, result,  \* what each script waits for, and the event its last wait returned
    received, dropped      \* events that reached a script, or that nobody read

apVars == <<ap, gen>>
dhcpVars == <<leases, changes, script>>
tableVars == <<handler, stations, last, excused>>
queueVars == <<log, head>>
pollVars == <<pc, owner, batch>>
driverVars == <<call, result, received, dropped>>
vars == <<apVars, dhcpVars, tableVars, queueVars, pollVars, driverVars>>

Announcement == [action : Actions, ap : Nat]
Event == [type : Types, mac : Macs, up : Nat, id : Nat]

ASSUME HandlerAssumption == NoMac \notin Event

TypeOK ==
    /\ ap \in {"off", "starting", "dhcp", "on"} /\ gen \in 0 .. MaxAps
    /\ leases \in SUBSET Macs /\ changes \in 0 .. MaxLeases
    /\ script \in [Macs -> Seq(Announcement)]
    /\ handler \in {NoMac} \cup Event
    /\ stations \in [Macs -> Nat] /\ last \in [Macs -> Nat]
    /\ excused \in SUBSET Macs
    /\ log \in Seq(Event) /\ head \in 0 .. Len(log)
    /\ pc \in [Polls -> {"idle", "wait", "drain", "respond"}]
    /\ owner \in [Polls -> Drivers \cup {NoDriver}]
    /\ batch \in [Polls -> SUBSET Nat]
    /\ call \in [Drivers -> Calls \cup {"none"}]
    /\ result \in [Drivers -> Nat]
    /\ received \in SUBSET Nat /\ dropped \in SUBSET Nat

Init ==
    /\ ap = "off" /\ gen = 0
    /\ leases = {} /\ changes = 0 /\ script = [m \in Macs |-> <<>>]
    /\ handler = NoMac
    /\ stations = [m \in Macs |-> 0] /\ last = [m \in Macs |-> 0] /\ excused = {}
    /\ log = <<>> /\ head = 0
    /\ pc = [p \in Polls |-> "idle"] /\ owner = [p \in Polls |-> NoDriver]
    /\ batch = [p \in Polls |-> {}]
    /\ call = [d \in Drivers |-> "none"] /\ result = [d \in Drivers |-> 0]
    /\ received = {} /\ dropped = {}

-----------------------------------------------------------------------------
(* The AP: ap_start, ap_stop *)

\* _stations.clear()
ClearStations == stations' = [m \in Macs |-> 0]

\* ap_start stops what runs and starts hostapd.
ApStart ==
    /\ gen < MaxAps /\ ap \in {"off", "on"}
    /\ ap' = "starting" /\ gen' = gen + 1
    /\ ClearStations
    /\ UNCHANGED <<dhcpVars, handler, last, excused, queueVars, pollVars, driverVars>>

\* dnsmasq runs and announces the leases in its file as "old".
DnsmasqStarts ==
    /\ ap = "starting"
    /\ ap' = "dhcp"
    /\ script' = [m \in Macs |->
                    IF m \in leases THEN Append(script[m], [action |-> "old", ap |-> gen])
                    ELSE script[m]]
    /\ UNCHANGED <<gen, leases, changes, tableVars, queueVars, pollVars, driverVars>>

\* hostapd or dnsmasq has exited soon after its start: ap_start raises, and the table is
\* left as it is.
StartFails ==
    /\ ap \in {"starting", "dhcp"} /\ "start" \in Faults
    /\ ap' = "off"
    /\ UNCHANGED <<gen, dhcpVars, tableVars, queueVars, pollVars, driverVars>>

\* No announcement of a former AP is still on its way: ap_start takes the 2 s that the
\* script's curl has at most.
OnlyCurrent == \A m \in Macs : \A i \in 1 .. Len(script[m]) : script[m][i].ap = gen

\* Mutant: ap_start does not clear the table.
ApUpKeepsStations ==
    /\ ap = "dhcp" /\ OnlyCurrent
    /\ ap' = "on"
    /\ excused' = leases
    /\ UNCHANGED <<gen, dhcpVars, handler, stations, last, queueVars, pollVars, driverVars>>

\* ap_start ends: the AP is active.  The table is cleared now: what dnsmasq announced in
\* the meantime is forgotten.
ApUp ==
    /\ ap = "dhcp" /\ OnlyCurrent
    /\ ap' = "on"
    /\ ClearStations
    /\ excused' = leases
    /\ UNCHANGED <<gen, dhcpVars, handler, last, queueVars, pollVars, driverVars>>

\* ap_stop, or a sta_join or set_mode that stops the AP.
ApStop ==
    /\ ap = "on"
    /\ ap' = "off"
    /\ ClearStations
    /\ UNCHANGED <<gen, dhcpVars, handler, last, excused, queueVars, pollVars, driverVars>>

-----------------------------------------------------------------------------
(* dnsmasq and its script *)

\* A station gets a lease, or gives it up, or it expires.
LeaseChanges(m) ==
    /\ ap \in {"dhcp", "on"} /\ changes < MaxLeases
    /\ changes' = changes + 1
    /\ leases' = IF m \in leases THEN leases \ {m} ELSE leases \cup {m}
    /\ script' = [script EXCEPT ![m] =
                    Append(@, [action |-> IF m \in leases THEN "del" ELSE "add", ap |-> gen])]
    /\ UNCHANGED <<apVars, tableVars, queueVars, pollVars, driverVars>>

\* The post fails: the script ignores that.
PostLost(m) ==
    /\ "lost" \in Faults /\ script[m] # <<>>
    /\ script' = [script EXCEPT ![m] = Tail(@)]
    /\ excused' = excused \cup {m}
    /\ UNCHANGED <<apVars, leases, changes, handler, stations, last, queueVars, pollVars,
                   driverVars>>

-----------------------------------------------------------------------------
(* handle_lease_event: first the table, then the queue.  dnsmasq runs one script at a
   time, and curl waits for the answer. *)

\* The number of the next announcement, and the AP that is active, if one is.
NextId == Len(log) + 1
UpNow == IF ap = "on" THEN gen ELSE 0

\* Mutant: only new leases are entered, not the old ones.
HandleTableAddOnly(m) ==
    /\ script[m] # <<>> /\ handler = NoMac
    /\ LET a == Head(script[m])
           type == IF a.action = "del" THEN "STA_DISCONNECT" ELSE "STA_CONNECT"
       IN  /\ stations' = [stations EXCEPT ![m] = IF a.action = "del" THEN 0
                                                 ELSE IF a.action = "add" THEN a.ap ELSE @]
           /\ handler' = [type |-> type, mac |-> m, up |-> UpNow, id |-> NextId]
    /\ script' = [script EXCEPT ![m] = Tail(@)]
    /\ last' = [last EXCEPT ![m] = NextId]
    /\ excused' = excused \ {m}
    /\ UNCHANGED <<apVars, leases, changes, queueVars, pollVars, driverVars>>

\* Mutant: a station that leaves stays in the table.
HandleTableKeeps(m) ==
    /\ script[m] # <<>> /\ handler = NoMac
    /\ LET a == Head(script[m])
           type == IF a.action = "del" THEN "STA_DISCONNECT" ELSE "STA_CONNECT"
       IN  /\ stations' = [stations EXCEPT ![m] = IF a.action = "del" THEN @ ELSE a.ap]
           /\ handler' = [type |-> type, mac |-> m, up |-> UpNow, id |-> NextId]
    /\ script' = [script EXCEPT ![m] = Tail(@)]
    /\ last' = [last EXCEPT ![m] = NextId]
    /\ excused' = excused \ {m}
    /\ UNCHANGED <<apVars, leases, changes, queueVars, pollVars, driverVars>>

HandleTable(m) ==
    /\ script[m] # <<>> /\ handler = NoMac
    /\ LET a == Head(script[m])
           type == IF a.action = "del" THEN "STA_DISCONNECT" ELSE "STA_CONNECT"
       IN  /\ stations' = [stations EXCEPT ![m] = IF a.action = "del" THEN 0 ELSE a.ap]
           /\ handler' = [type |-> type, mac |-> m, up |-> UpNow, id |-> NextId]
    /\ script' = [script EXCEPT ![m] = Tail(@)]
    /\ last' = [last EXCEPT ![m] = NextId]
    /\ excused' = excused \ {m}
    /\ UNCHANGED <<apVars, leases, changes, queueVars, pollVars, driverVars>>

HandleQueue ==
    /\ handler # NoMac
    /\ log' = Append(log, handler)
    /\ handler' = NoMac
    /\ UNCHANGED <<apVars, dhcpVars, stations, last, excused, head, pollVars, driverVars>>

-----------------------------------------------------------------------------
(* get_events *)

Empty == head = Len(log)

\* Mutant: the event that ends the long poll is not put into the answer.
WaitGetsOnly(p) ==
    /\ pc[p] = "wait" /\ ~Empty
    /\ head' = head + 1
    /\ pc' = [pc EXCEPT ![p] = "drain"]
    /\ UNCHANGED <<apVars, dhcpVars, tableVars, log, owner, batch, driverVars>>

\* The long poll gets its first event.
WaitGets(p) ==
    /\ pc[p] = "wait" /\ ~Empty
    /\ head' = head + 1
    /\ batch' = [batch EXCEPT ![p] = @ \cup {head + 1}]
    /\ pc' = [pc EXCEPT ![p] = "drain"]
    /\ UNCHANGED <<apVars, dhcpVars, tableVars, log, owner, driverVars>>

\* Mutant: get() without a timeout.
WaitForEver(p) == FALSE /\ UNCHANGED vars

WaitTimesOut(p) ==
    /\ pc[p] = "wait" /\ Empty
    /\ pc' = [pc EXCEPT ![p] = "respond"]
    /\ UNCHANGED <<apVars, dhcpVars, tableVars, queueVars, owner, batch, driverVars>>

\* get_nowait until the queue is empty
Drain(p) ==
    /\ pc[p] = "drain" /\ ~Empty
    /\ head' = head + 1
    /\ batch' = [batch EXCEPT ![p] = @ \cup {head + 1}]
    /\ UNCHANGED <<apVars, dhcpVars, tableVars, log, pc, owner, driverVars>>

DrainEnds(p) ==
    /\ pc[p] = "drain" /\ Empty
    /\ pc' = [pc EXCEPT ![p] = "respond"]
    /\ UNCHANGED <<apVars, dhcpVars, tableVars, queueVars, owner, batch, driverVars>>

-----------------------------------------------------------------------------
(* The test driver *)

PollOf(d) == {p \in Polls : owner[p] = d}

\* A script calls wait_for_event (wait_for_station) or drain_events.
Call(d, c) ==
    /\ call[d] = "none"
    /\ call' = [call EXCEPT ![d] = c] /\ result' = [result EXCEPT ![d] = 0]
    /\ UNCHANGED <<apVars, dhcpVars, tableVars, queueVars, pollVars, received, dropped>>

\* The driver sends a poll: with a timeout, or without one to drain.
Poll(d, p) ==
    /\ call[d] # "none" /\ PollOf(d) = {} /\ pc[p] = "idle"
    /\ pc' = [pc EXCEPT ![p] = IF call[d] # "drain" /\ Empty THEN "wait" ELSE "drain"]
    /\ owner' = [owner EXCEPT ![p] = d]
    /\ UNCHANGED <<apVars, dhcpVars, tableVars, queueVars, batch, driverVars>>

\* Positions of the events in a batch that a call returns: the first that matches.
Matches(c, b) == {i \in b : log[i].type = c}
First(S) == CHOOSE i \in S : \A j \in S : i <= j

\* The answer reaches the driver.  wait_for_event returns the first event of the type
\* and drops the others; without one it polls again.
Respond(p) ==
    /\ pc[p] = "respond" /\ owner[p] # NoDriver
    /\ LET d == owner[p]
           found == Matches(call[d], batch[p])
       IN  /\ call' = [call EXCEPT ![d] = IF @ = "drain" \/ found # {} THEN "none" ELSE @]
           /\ result' = [result EXCEPT ![d] = IF found # {} THEN First(found) ELSE 0]
    /\ received' = received \cup batch[p]
    /\ pc' = [pc EXCEPT ![p] = "idle"] /\ owner' = [owner EXCEPT ![p] = NoDriver]
    /\ batch' = [batch EXCEPT ![p] = {}]
    /\ UNCHANGED <<apVars, dhcpVars, tableVars, queueVars, dropped>>

\* Nobody reads the answer.
RespondNobody(p) ==
    /\ pc[p] = "respond" /\ owner[p] = NoDriver
    /\ dropped' = dropped \cup batch[p]
    /\ pc' = [pc EXCEPT ![p] = "idle"] /\ batch' = [batch EXCEPT ![p] = {}]
    /\ UNCHANGED <<apVars, dhcpVars, tableVars, queueVars, owner, call, result, received>>

\* The HTTP request times out, 5 s after the poll should have ended: wait_for_event goes
\* on with a new poll, drain_events returns nothing.
GiveUp(p) ==
    /\ "slow" \in Faults
    /\ pc[p] \in {"drain", "respond"} /\ owner[p] # NoDriver
    /\ call' = [call EXCEPT ![owner[p]] = IF @ = "drain" THEN "none" ELSE @]
    /\ owner' = [owner EXCEPT ![p] = NoDriver]
    /\ UNCHANGED <<apVars, dhcpVars, tableVars, queueVars, pc, batch, result, received,
                   dropped>>

\* wait_for_event raises TimeoutError.
Deadline(d) ==
    /\ call[d] \in Types /\ PollOf(d) = {}
    /\ call' = [call EXCEPT ![d] = "none"]
    /\ UNCHANGED <<apVars, dhcpVars, tableVars, queueVars, pollVars, result, received,
                   dropped>>

-----------------------------------------------------------------------------
(* The specification *)

ApStep == ApStart \/ DnsmasqStarts \/ StartFails \/ ApUp \/ ApStop

LeaseStep(m) == LeaseChanges(m) \/ PostLost(m) \/ HandleTable(m)

PollStep(p) ==
    \/ WaitGets(p) \/ WaitTimesOut(p) \/ Drain(p) \/ DrainEnds(p)
    \/ Respond(p) \/ RespondNobody(p)

Next ==
    \/ ApStep \/ HandleQueue
    \/ \E m \in Macs : LeaseStep(m)
    \/ \E p \in Polls : PollStep(p) \/ GiveUp(p) \/ \E d \in Drivers : Poll(d, p)
    \/ \E d \in Drivers : Deadline(d) \/ \E c \in Calls : Call(d, c)

Spec == Init /\ [][Next]_vars

\* Poll handlers run, and end after the poll's timeout; the driver sends its polls, and
\* its deadline passes.
FairSpec ==
    /\ Spec
    /\ \A p \in Polls : WF_vars(PollStep(p))
    /\ \A d \in Drivers : SF_vars(Deadline(d)) /\ SF_vars(\E p \in Polls : Poll(d, p))

-----------------------------------------------------------------------------
(* Properties *)

\* Every event that was queued is in one place: still queued, in the batch of one poll,
\* received by a script or in an answer that nobody read.  None is lost in the portal,
\* and none is delivered twice, however many polls compete.
EventsAccounted ==
    /\ (UNION {batch[p] : p \in Polls}) \cup received \cup dropped = 1 .. head
    /\ received \cap dropped = {}
    /\ \A p \in Polls :
          /\ batch[p] \cap (received \cup dropped) = {}
          /\ \A q \in Polls \ {p} : batch[p] \cap batch[q] = {}

\* The table lists no station of a former AP once an AP is active, although announcements
\* of the former AP may have been handled after it was stopped.
NoFormerStation == ap = "on" => \A m \in Macs : stations[m] \in {0, gen}

\* WT-302: a station whose STA_CONNECT a script has received is listed by ap_status, if
\* that was announced while the AP was active, it is still active, and no later
\* announcement about the station has been handled.
AnnouncedIsListed ==
    \A d \in Drivers :
        result[d] # 0 =>
            LET e == log[result[d]] IN
            /\ e.type = "STA_CONNECT" /\ e.id = last[e.mac]
            /\ ap = "on" /\ e.up = gen
            => stations[e.mac] # 0

\* When no announcement is on its way, the active AP's table lists exactly the stations
\* with a lease, except those whose last announcement was lost, or was made before
\* ap_start cleared the table.
TableMatchesLeases ==
    ap = "on" /\ (\A m \in Macs : script[m] = <<>>) =>
        \A m \in Macs \ excused : stations[m] # 0 <=> m \in leases

\* Every wait_for_event and drain_events ends.
CallsEnd == \A d \in Drivers : call[d] # "none" ~> call[d] = "none"
=============================================================================
