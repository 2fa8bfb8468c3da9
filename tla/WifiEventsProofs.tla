-------------------------- MODULE WifiEventsProofs --------------------------
(***************************************************************************)
(* Proofs about WifiEvents, for any number of stations, polls and scripts.  *)
(***************************************************************************)
EXTENDS WifiEvents, SequenceTheorems, WellFoundedInduction, TLAPS

\* Announcements on their way come from an AP that was started, and from the active one if
\* there is one.
ScriptsCurrent ==
    \A m \in Macs : \A i \in 1 .. Len(script[m]) :
        /\ script[m][i].ap \in 1 .. gen
        /\ ap = "on" => script[m][i].ap = gen

\* An AP that runs has been counted.
Started == ap # "off" => gen > 0

\* The last announcement on its way says whether the station has a lease.
LastSaysLease ==
    \A m \in Macs :
        script[m] # <<>> => (script[m][Len(script[m])].action = "del" <=> m \notin leases)

\* TableMatchesLeases, station by station.
StationMatchesLease ==
    ap = "on" =>
        \A m \in Macs \ excused : script[m] = <<>> => (stations[m] # 0 <=> m \in leases)

\* An event is queued at the position its number says.
Numbered ==
    /\ \A i \in 1 .. Len(log) : log[i].id = i
    /\ handler # NoMac => handler.id = Len(log) + 1
    /\ \A m \in Macs : last[m] <= Len(log) + (IF handler = NoMac THEN 0 ELSE 1)

\* The events that were queued, and the one about to be.
Issued == {log[i] : i \in 1 .. Len(log)} \cup ({handler} \ {NoMac})

\* No event was issued under an AP that is not active yet.
UpInPast == \A e \in Issued : e.up <= gen /\ (ap \in {"starting", "dhcp"} => e.up # gen)

\* AnnouncedIsListed, for every event that was issued.
IssuedIsListed ==
    \A e \in Issued :
        e.type = "STA_CONNECT" /\ e.id = last[e.mac] /\ ap = "on" /\ e.up = gen
            => stations[e.mac] # 0

\* Scripts get events that were queued.
ResultsQueued == \A d \in Drivers : result[d] <= Len(log)

TableInv == Started /\ ScriptsCurrent /\ NoFormerStation /\ LastSaysLease /\ StationMatchesLease
EventInv == Numbered /\ UpInPast /\ IssuedIsListed /\ ResultsQueued
IInv == TypeOK /\ EventsAccounted /\ TableInv /\ EventInv

-----------------------------------------------------------------------------
(* Types *)

\* A set of positions that is not empty has a first one.
LEMMA FirstIsMember ==
    ASSUME NEW S \in SUBSET Nat, S # {}
    PROVE  First(S) \in S
<1> DEFINE Less == {p \in Nat \X Nat : p[1] < p[2]}
<1>1. PICK x \in S : \A y \in S : <<y, x>> \notin Less
    BY NatLessThanWellFounded, WFMin DEF OpToRel
<1>2. ASSUME NEW y \in S PROVE x <= y
  <2>1. <<y, x>> \in Nat \X Nat /\ <<y, x>>[1] = y /\ <<y, x>>[2] = x
    OBVIOUS
  <2>2. ~(y < x)
    BY <1>1, <2>1
  <2> QED
    BY <2>2
<1> QED
    BY <1>2 DEF First

\* Every action keeps the types.
LEMMA TypeOKStep == TypeOK /\ [Next]_vars => TypeOK'
<1> SUFFICES ASSUME TypeOK, [Next]_vars PROVE TypeOK'
    OBVIOUS
<1> USE SwitchesAssumption
    DEF TypeOK, apVars, dhcpVars, tableVars, queueVars, pollVars, driverVars, Actions, Types, Calls
<1>1. \A m \in Macs : script[m] \in Seq(Announcement)
    OBVIOUS
<1>2. CASE ApStart \/ ApUp \/ ApStop \/ StartFails
  <2>1. CASE ApStart
    BY <2>1 DEF ApStart, ClearStations
  <2>2. CASE ApUp \/ ApStop
    <3>1. stations' \in [Macs -> Nat] /\ excused' \in SUBSET Macs
      BY <2>2 DEF ApUp, ApStop, ClearStations
    <3> QED
      BY <2>2, <3>1 DEF ApUp, ApStop
  <2>3. CASE StartFails
    BY <2>3 DEF StartFails
  <2> QED
    BY <1>2, <2>1, <2>2, <2>3
<1>3. CASE DnsmasqStarts
  <2>1. [action |-> "old", ap |-> gen] \in Announcement
    BY DEF Announcement
  <2>2. script' \in [Macs -> Seq(Announcement)]
    BY <1>1, <1>3, <2>1, AppendProperties DEF DnsmasqStarts
  <2> QED
    BY <1>3, <2>2 DEF DnsmasqStarts
<1>4. ASSUME NEW m \in Macs, LeaseChanges(m) PROVE TypeOK'
  <2>1. [action |-> IF m \in leases THEN "del" ELSE "add", ap |-> gen] \in Announcement
    BY DEF Announcement
  <2>2. script' \in [Macs -> Seq(Announcement)]
    BY <1>1, <1>4, <2>1, AppendProperties DEF LeaseChanges
  <2> QED
    BY <1>4, <2>2 DEF LeaseChanges
<1>5. ASSUME NEW m \in Macs, PostLost(m) PROVE TypeOK'
  <2>1. script' \in [Macs -> Seq(Announcement)]
    BY <1>1, <1>5, HeadTailProperties DEF PostLost
  <2> QED
    BY <1>5, <2>1 DEF PostLost
<1>6. ASSUME NEW m \in Macs, HandleTable(m) PROVE TypeOK'
  <2>1. /\ script' \in [Macs -> Seq(Announcement)]
        /\ Head(script[m]) \in Announcement
    BY <1>1, <1>6, HeadTailProperties DEF HandleTable
  <2>2. NextId \in Nat /\ UpNow \in Nat
    BY LenProperties DEF NextId, UpNow
  <2>3. handler' \in Event
    BY <1>6, <2>2 DEF HandleTable, Event
  <2>4. stations' \in [Macs -> Nat] /\ last' \in [Macs -> Nat]
    BY <1>6, <2>1, <2>2 DEF HandleTable, Announcement
  <2> QED
    BY <1>6, <2>1, <2>3, <2>4 DEF HandleTable
<1>7. CASE HandleQueue
  <2>1. log' \in Seq(Event) /\ Len(log') = Len(log) + 1 /\ Len(log) \in Nat
    BY <1>7, AppendProperties, LenProperties DEF HandleQueue
  <2> QED
    BY <1>7, <2>1 DEF HandleQueue
<1>8. ASSUME NEW p \in Polls, WaitGets(p) \/ Drain(p) PROVE TypeOK'
  <2>1. head + 1 \in 0 .. Len(log)
    BY <1>8, LenProperties DEF WaitGets, Drain, Empty
  <2>2. batch' \in [Polls -> SUBSET Nat]
    <3>1. batch' = [batch EXCEPT ![p] = batch[p] \cup {head + 1}]
      BY <1>8 DEF WaitGets, Drain
    <3>2. head + 1 \in Nat
      BY LenProperties
    <3>3. batch[p] \cup {head + 1} \in SUBSET Nat
      BY <3>2
    <3> QED
      BY <3>1, <3>3, Zenon
  <2> QED
    BY <1>8, <2>1, <2>2 DEF WaitGets, Drain
<1>9. ASSUME NEW p \in Polls, WaitTimesOut(p) \/ DrainEnds(p) \/ RespondNobody(p) PROVE TypeOK'
    BY <1>9 DEF WaitTimesOut, DrainEnds, RespondNobody
<1>10. ASSUME NEW p \in Polls, Respond(p) PROVE TypeOK'
  <2>1. PICK d \in Drivers : d = owner[p]
    BY <1>10 DEF Respond
  <2>2. Matches(call[d], batch[p]) # {} => First(Matches(call[d], batch[p])) \in Nat
    BY FirstIsMember, ZenonT(60) DEF Matches
  <2>3. result' \in [Drivers -> Nat] /\ call' \in [Drivers -> Calls \cup {"none"}]
    BY <1>10, <2>1, <2>2 DEF Respond
  <2> QED
    BY <1>10, <2>3 DEF Respond
<1>11. ASSUME NEW p \in Polls, GiveUp(p) PROVE TypeOK'
    BY <1>11 DEF GiveUp
<1>12. ASSUME NEW p \in Polls, NEW d \in Drivers, Poll(d, p) PROVE TypeOK'
    BY <1>12 DEF Poll
<1>13. ASSUME NEW d \in Drivers, Deadline(d) PROVE TypeOK'
    BY <1>13 DEF Deadline
<1>14. ASSUME NEW d \in Drivers, NEW c \in Calls, Call(d, c) PROVE TypeOK'
    BY <1>14 DEF Call
<1>15. CASE UNCHANGED vars
    BY <1>15 DEF vars
<1> QED
    BY <1>2, <1>3, <1>4, <1>5, <1>6, <1>7, <1>8, <1>9, <1>10, <1>11, <1>12, <1>13, <1>14, <1>15
    DEF Next, ApStep, LeaseStep, PollStep

-----------------------------------------------------------------------------
(* The queue *)

\* EventsAccounted, event by event.
Places ==
    /\ \A i : i \in 1 .. head <=> i \in received \/ i \in dropped \/ \E p \in Polls : i \in batch[p]
    /\ \A i \in received : i \notin dropped
    /\ \A p \in Polls : \A i \in batch[p] :
          /\ i \notin received /\ i \notin dropped
          /\ \A q \in Polls \ {p} : i \notin batch[q]

\* The two ways to say it are the same.
LEMMA PlacesIsAccounted == TypeOK => (Places <=> EventsAccounted)
<1> SUFFICES ASSUME TypeOK PROVE Places <=> EventsAccounted
    OBVIOUS
<1>1. \A i : i \in UNION {batch[p] : p \in Polls} <=> \E p \in Polls : i \in batch[p]
    OBVIOUS
<1>2. ASSUME Places PROVE EventsAccounted
    BY <1>1, <1>2 DEF Places, EventsAccounted
<1>3. ASSUME EventsAccounted PROVE Places
    BY <1>1, <1>3 DEF Places, EventsAccounted
<1> QED
    BY <1>2, <1>3

\* Every step moves events from one place to the next.
LEMMA PlacesStep == TypeOK /\ Places /\ [Next]_vars => Places'
<1> SUFFICES ASSUME TypeOK, Places, [Next]_vars PROVE Places'
    OBVIOUS
<1> USE DEF Places
<1>1. ASSUME NEW p \in Polls, WaitGets(p) \/ Drain(p) PROVE Places'
  <2>1. /\ head \in Nat /\ head' = head + 1 /\ batch'[p] = batch[p] \cup {head + 1}
        /\ \A q \in Polls \ {p} : batch'[q] = batch[q]
        /\ received' = received /\ dropped' = dropped
    BY <1>1 DEF TypeOK, WaitGets, Drain, driverVars
  <2>2. \A i : i \in 1 .. head' <=> i \in 1 .. head \/ i = head + 1
    BY <2>1
  <2>3. head + 1 \notin 1 .. head
    BY <2>1
  <2> QED
    BY <2>1, <2>2, <2>3
<1>2. ASSUME NEW p \in Polls, Respond(p) \/ RespondNobody(p) PROVE Places'
  <2>1. /\ head' = head /\ batch'[p] = {}
        /\ \A q \in Polls \ {p} : batch'[q] = batch[q]
        /\ \/ received' = received \cup batch[p] /\ dropped' = dropped
           \/ received' = received /\ dropped' = dropped \cup batch[p]
    BY <1>2 DEF TypeOK, Respond, RespondNobody, queueVars
  <2> QED
    BY <2>1
<1>3. CASE UNCHANGED <<head, batch, received, dropped>>
    BY <1>3
<1> QED
    BY <1>1, <1>2, <1>3
    DEF Next, ApStep, LeaseStep, PollStep, ApStart, DnsmasqStarts, StartFails, ApUp, ApStop,
        LeaseChanges, PostLost, HandleTable, HandleQueue, WaitTimesOut, DrainEnds, Poll, GiveUp,
        Deadline, Call, vars, queueVars, pollVars, driverVars

-----------------------------------------------------------------------------
(* The station table *)

\* What taking the first announcement leaves.
LEMMA TailOfScript ==
    ASSUME TypeOK, NEW m \in Macs, script[m] # <<>>
    PROVE  LET t == Tail(script[m]) IN
           /\ script[m] \in Seq(Announcement) /\ t \in Seq(Announcement)
           /\ Len(script[m]) \in Nat \ {0} /\ Len(t) = Len(script[m]) - 1
           /\ \A i \in 1 .. Len(t) : t[i] = script[m][i + 1]
           /\ t # <<>> => t[Len(t)] = script[m][Len(script[m])]
           /\ t = <<>> => Len(script[m]) = 1
           /\ Head(script[m]) = script[m][1] /\ Head(script[m]) \in Announcement
<1> DEFINE t == Tail(script[m])
<1>1. script[m] \in Seq(Announcement)
    BY DEF TypeOK
<1>2. /\ Head(script[m]) \in Announcement /\ t \in Seq(Announcement)
      /\ Len(t) = Len(script[m]) - 1
      /\ \A i \in 1 .. Len(t) : t[i] = script[m][i + 1]
    BY <1>1, HeadTailProperties
<1>3. Len(script[m]) \in Nat \ {0} /\ Len(t) \in Nat
    BY <1>1, <1>2, EmptySeq, LenProperties
<1>4. t # <<>> => Len(t) \in Nat \ {0}
    BY <1>2, EmptySeq
<1>5. t # <<>> => t[Len(t)] = script[m][Len(script[m])]
  <2> SUFFICES ASSUME t # <<>> PROVE t[Len(t)] = script[m][Len(script[m])]
    OBVIOUS
  <2>1. Len(t) \in 1 .. Len(t) /\ Len(t) + 1 = Len(script[m])
    BY <1>2, <1>3, <1>4
  <2> QED
    BY <1>2, <2>1
<1>6. t = <<>> => Len(script[m]) = 1
  <2>1. t = <<>> => Len(t) = 0
    BY EmptySeq
  <2> QED
    BY <1>2, <1>3, <2>1
<1>7. Head(script[m]) = script[m][1]
    BY <1>1
<1> QED
    BY <1>1, <1>2, <1>3, <1>5, <1>6, <1>7

\* HandleTable enters or removes the station that the announcement is about.
LEMMA HandleTableStep ==
    ASSUME TypeOK, TableInv, NEW m \in Macs, HandleTable(m)
    PROVE  TableInv'
<1> USE DEF TableInv
<1> DEFINE a == script[m][1]
           t == Tail(script[m])
<1>1. /\ UNCHANGED <<ap, gen, leases>>
      /\ script' = [script EXCEPT ![m] = t]
      /\ stations' = [stations EXCEPT ![m] = IF a.action = "del" THEN 0 ELSE a.ap]
      /\ excused' = excused \ {m}
      /\ script[m] # <<>>
    BY TailOfScript DEF HandleTable, apVars
<1>2. /\ Len(script[m]) \in Nat \ {0} /\ Len(t) = Len(script[m]) - 1
      /\ \A i \in 1 .. Len(t) : t[i] = script[m][i + 1]
      /\ t # <<>> => t[Len(t)] = script[m][Len(script[m])]
      /\ t = <<>> => Len(script[m]) = 1
    BY <1>1, TailOfScript
<1>3. script'[m] = t /\ \A o \in Macs \ {m} : script'[o] = script[o]
    BY <1>1 DEF TypeOK
<1>4. /\ stations'[m] = IF a.action = "del" THEN 0 ELSE a.ap
      /\ \A o \in Macs \ {m} : stations'[o] = stations[o]
    BY <1>1 DEF TypeOK
<1>5. a.ap \in 1 .. gen /\ (ap = "on" => a.ap = gen) /\ gen \in Nat
  <2>1. 1 \in 1 .. Len(script[m])
    BY <1>2
  <2>2. a.ap \in 1 .. gen /\ (ap = "on" => a.ap = gen)
    BY <2>1 DEF ScriptsCurrent
  <2>3. gen \in Nat
    BY SwitchesAssumption DEF TypeOK
  <2> QED
    BY <2>2, <2>3
<1>6. ScriptsCurrent'
  <2>1. \A i \in 1 .. Len(t) : i + 1 \in 1 .. Len(script[m])
    BY <1>2
  <2>2. \A i \in 1 .. Len(t) : t[i].ap \in 1 .. gen /\ (ap = "on" => t[i].ap = gen)
    BY <1>2, <2>1 DEF ScriptsCurrent
  <2> QED
    BY <1>1, <1>3, <2>2 DEF ScriptsCurrent
<1>7. NoFormerStation' /\ Started'
    BY <1>1, <1>4, <1>5 DEF NoFormerStation, Started
<1>8. LastSaysLease'
    BY <1>1, <1>2, <1>3 DEF LastSaysLease
<1>9. StationMatchesLease'
  <2>1. t = <<>> => (stations'[m] # 0 <=> m \in leases)
    BY <1>1, <1>2, <1>4, <1>5 DEF LastSaysLease
  <2> QED
    BY <1>1, <1>3, <1>4, <2>1 DEF StationMatchesLease
<1> QED
    BY <1>6, <1>7, <1>8, <1>9

\* A post that is lost excuses its station.
LEMMA PostLostStep ==
    ASSUME TypeOK, TableInv, NEW m \in Macs, PostLost(m)
    PROVE  TableInv'
<1> USE DEF TableInv
<1> DEFINE t == Tail(script[m])
<1>1. /\ UNCHANGED <<ap, gen, leases, stations>>
      /\ script' = [script EXCEPT ![m] = t]
      /\ excused' = excused \cup {m}
      /\ script[m] # <<>>
    BY DEF PostLost, apVars
<1>2. /\ Len(script[m]) \in Nat \ {0} /\ Len(t) = Len(script[m]) - 1
      /\ \A i \in 1 .. Len(t) : t[i] = script[m][i + 1]
      /\ t # <<>> => t[Len(t)] = script[m][Len(script[m])]
    BY <1>1, TailOfScript
<1>3. script'[m] = t /\ \A o \in Macs \ {m} : script'[o] = script[o]
    BY <1>1 DEF TypeOK
<1>4. ScriptsCurrent'
  <2>1. \A i \in 1 .. Len(t) : i + 1 \in 1 .. Len(script[m])
    BY <1>2
  <2>2. \A i \in 1 .. Len(t) : t[i].ap \in 1 .. gen /\ (ap = "on" => t[i].ap = gen)
    BY <1>2, <2>1 DEF ScriptsCurrent
  <2> QED
    BY <1>1, <1>3, <2>2 DEF ScriptsCurrent
<1>5. NoFormerStation' /\ Started'
    BY <1>1 DEF NoFormerStation, Started
<1>6. LastSaysLease'
    BY <1>1, <1>2, <1>3 DEF LastSaysLease
<1>7. StationMatchesLease'
    BY <1>1, <1>3 DEF StationMatchesLease
<1> QED
    BY <1>4, <1>5, <1>6, <1>7

\* What announcing a lease adds.
LEMMA AppendToScript ==
    ASSUME TypeOK, NEW m \in Macs, NEW a \in Announcement
    PROVE  LET s == Append(script[m], a) IN
           /\ s # <<>> /\ Len(s) = Len(script[m]) + 1 /\ s[Len(s)] = a
           /\ \A i \in 1 .. Len(s) :
                 (i \in 1 .. Len(script[m]) /\ s[i] = script[m][i]) \/ s[i] = a
<1>1. script[m] \in Seq(Announcement)
    BY DEF TypeOK
<1>2. Len(script[m]) \in Nat
    BY <1>1, LenProperties
<1> QED
    BY <1>1, <1>2, AppendProperties

\* A lease that is granted or ends is announced.
LEMMA LeaseChangesStep ==
    ASSUME TypeOK, TableInv, NEW m \in Macs, LeaseChanges(m)
    PROVE  TableInv'
<1> USE DEF TableInv
<1> DEFINE a == [action |-> IF m \in leases THEN "del" ELSE "add", ap |-> gen]
           s == Append(script[m], a)
<1>1. /\ UNCHANGED <<ap, gen, stations, excused>> /\ ap \in {"dhcp", "on"}
      /\ script' = [script EXCEPT ![m] = s]
      /\ leases' = IF m \in leases THEN leases \ {m} ELSE leases \cup {m}
    BY DEF LeaseChanges, apVars, tableVars
<1>2. a \in Announcement
    BY SwitchesAssumption DEF Announcement, Actions, TypeOK
<1>3. /\ s # <<>> /\ s[Len(s)] = a
      /\ \A i \in 1 .. Len(s) :
                 (i \in 1 .. Len(script[m]) /\ s[i] = script[m][i]) \/ s[i] = a
    BY <1>2, AppendToScript
<1>4. script'[m] = s /\ \A o \in Macs \ {m} : script'[o] = script[o]
    BY <1>1 DEF TypeOK
<1>5. gen \in 1 .. gen
    BY <1>1, SwitchesAssumption DEF TypeOK, Started
<1>6. ScriptsCurrent' /\ Started'
    BY <1>1, <1>3, <1>4, <1>5 DEF ScriptsCurrent, Started
<1>7. NoFormerStation'
    BY <1>1 DEF NoFormerStation
<1>8. LastSaysLease'
    BY <1>1, <1>3, <1>4 DEF LastSaysLease
<1>9. StationMatchesLease'
    BY <1>1, <1>3, <1>4 DEF StationMatchesLease
<1> QED
    BY <1>6, <1>7, <1>8, <1>9

\* The AP comes and goes.
LEMMA ApStepKeeps ==
    ASSUME TypeOK, TableInv, ApStep
    PROVE  TableInv'
<1> USE DEF TableInv
<1>1. gen \in Nat
    BY SwitchesAssumption DEF TypeOK
<1>2. CASE ApStart
  <2>1. /\ ap' = "starting" /\ gen' = gen + 1
        /\ UNCHANGED <<script, leases, excused>>
    BY <1>2 DEF ApStart, dhcpVars
  <2> QED
    BY <1>1, <2>1 DEF Started, ScriptsCurrent, NoFormerStation, LastSaysLease, StationMatchesLease
<1>3. CASE DnsmasqStarts
  <2> DEFINE a == [action |-> "old", ap |-> gen]
  <2>1. /\ UNCHANGED <<gen, leases, stations, excused>> /\ ap' = "dhcp" /\ ap = "starting"
        /\ \A m \in Macs : script'[m] = IF m \in leases THEN Append(script[m], a) ELSE script[m]
    BY <1>3 DEF DnsmasqStarts, tableVars
  <2>2. a \in Announcement
    BY <1>1 DEF Announcement, Actions
  <2>3. gen \in 1 .. gen
    BY <1>1, <2>1 DEF Started
  <2>4. ScriptsCurrent'
    <3> SUFFICES ASSUME NEW m \in Macs PROVE \A i \in 1 .. Len(script'[m]) : script'[m][i].ap \in 1 .. gen
      BY <2>1 DEF ScriptsCurrent
    <3>1. CASE m \in leases
      <4>1. script'[m] = Append(script[m], a)
        BY <2>1, <3>1
      <4>2. \A i \in 1 .. Len(script'[m]) :
              \/ i \in 1 .. Len(script[m]) /\ script'[m][i] = script[m][i]
              \/ script'[m][i] = a
        BY <2>2, <4>1, AppendToScript
      <4> QED
        BY <2>3, <4>2 DEF ScriptsCurrent
    <3>2. CASE m \notin leases
      BY <2>1, <3>2 DEF ScriptsCurrent
    <3> QED
      BY <3>1, <3>2
  <2>5. LastSaysLease'
    <3> SUFFICES ASSUME NEW m \in Macs, script'[m] # <<>>
                 PROVE  script'[m][Len(script'[m])].action = "del" <=> m \notin leases
      BY <2>1 DEF LastSaysLease
    <3>1. CASE m \in leases
      <4>1. script'[m] = Append(script[m], a)
        BY <2>1, <3>1
      <4>2. script'[m][Len(script'[m])] = a
        BY <2>2, <4>1, AppendToScript
      <4> QED
        BY <3>1, <4>2
    <3>2. CASE m \notin leases
      BY <2>1, <3>2 DEF LastSaysLease
    <3> QED
      BY <3>1, <3>2
  <2> QED
    BY <2>1, <2>4, <2>5 DEF Started, NoFormerStation, StationMatchesLease
<1>4. CASE StartFails \/ ApStop
  <2>1. ap' = "off" /\ UNCHANGED <<gen, script, leases, excused>>
    BY <1>4 DEF StartFails, ApStop, dhcpVars, tableVars
  <2> QED
    BY <2>1 DEF Started, ScriptsCurrent, NoFormerStation, LastSaysLease, StationMatchesLease
<1>5. CASE ApUp
  <2>1. /\ ap = "dhcp" /\ ap' = "on" /\ UNCHANGED <<gen, script, leases>> /\ excused' = leases
        /\ \A m \in Macs : stations'[m] = 0
        /\ OnlyCurrent
    BY <1>5 DEF ApUp, ClearStations, dhcpVars
  <2> QED
    BY <2>1 DEF Started, ScriptsCurrent, NoFormerStation, LastSaysLease, StationMatchesLease,
                OnlyCurrent
<1> QED
    BY <1>2, <1>3, <1>4, <1>5 DEF ApStep

\* Every step keeps what is known about the table.
LEMMA TableStep == TypeOK /\ TableInv /\ [Next]_vars => TableInv'
<1> SUFFICES ASSUME TypeOK, TableInv, [Next]_vars PROVE TableInv'
    OBVIOUS
<1>1. CASE UNCHANGED <<ap, gen, script, leases, stations, excused>>
    BY <1>1 DEF TableInv, Started, ScriptsCurrent, NoFormerStation, LastSaysLease,
                StationMatchesLease
<1> QED
    BY <1>1, ApStepKeeps, HandleTableStep, PostLostStep, LeaseChangesStep
    DEF Next, LeaseStep, PollStep, HandleQueue, WaitGets, WaitTimesOut, Drain, DrainEnds, Respond,
        RespondNobody, Poll, GiveUp, Deadline, Call, vars, apVars, dhcpVars, tableVars

-----------------------------------------------------------------------------
(* The events *)

\* A new announcement is about a station that is now listed, and outdates earlier ones.
LEMMA HandleTableIssues ==
    ASSUME TypeOK, TableInv, EventInv, NEW m \in Macs, HandleTable(m)
    PROVE  EventInv'
<1> USE DEF EventInv
<1> DEFINE a == script[m][1]
           n == Len(log) + 1
<1>1. /\ UNCHANGED <<ap, gen, log, result>> /\ handler = NoMac
      /\ stations' = [stations EXCEPT ![m] = IF a.action = "del" THEN 0 ELSE a.ap]
      /\ handler' = [type |-> IF a.action = "del" THEN "STA_DISCONNECT" ELSE "STA_CONNECT",
                     mac |-> m, up |-> UpNow, id |-> n]
      /\ last' = [last EXCEPT ![m] = n]
      /\ script[m] # <<>>
    BY TailOfScript DEF HandleTable, NextId, apVars, queueVars, driverVars
<1>2. Len(log) \in Nat /\ gen \in Nat /\ \A i \in 1 .. Len(log) : log[i] \in Event
    BY ElementOfSeq, LenProperties, SwitchesAssumption DEF TypeOK
<1>3. a.ap # 0
    BY <1>1, TailOfScript DEF TableInv, ScriptsCurrent
<1>4. /\ handler'.type = (IF a.action = "del" THEN "STA_DISCONNECT" ELSE "STA_CONNECT")
      /\ handler'.mac = m /\ handler'.up = UpNow /\ handler'.id = n
    BY <1>1
<1>5. handler' # NoMac
    BY <1>1, <1>2, HandlerAssumption DEF Event, Types, UpNow
<1>6. last'[m] = n /\ \A o \in Macs \ {m} : last'[o] = last[o] /\ last[o] <= Len(log)
    BY <1>1, <1>2 DEF TypeOK, Numbered
<1>7. \A o \in Macs : last[o] \in Nat
    BY DEF TypeOK
<1>8. Numbered'
    BY <1>1, <1>2, <1>4, <1>5, <1>6, <1>7 DEF Numbered
<1>9. Issued' = Issued \cup {handler'}
    BY <1>1, <1>5 DEF Issued
<1>10. UpNow <= gen /\ (ap # "on" => UpNow = 0) /\ UpNow \in Nat
    BY <1>2 DEF UpNow
<1>11. UpInPast'
  <2>1. ap \in {"starting", "dhcp"} => gen # 0
    BY <1>2 DEF TableInv, Started
  <2> QED
    BY <1>1, <1>2, <1>4, <1>9, <1>10, <2>1 DEF UpInPast
<1>12. IssuedIsListed'
  <2>1. ASSUME NEW e \in Issued, e.mac = m PROVE e.id # last'[m]
    BY <1>1, <1>2, <1>6 DEF Issued, Numbered
  <2>2. \A e \in Issued : e.mac \in Macs
    BY <1>1, <1>2 DEF Issued, Event
  <2>3. \A o \in Macs \ {m} : stations'[o] = stations[o]
    BY <1>1 DEF TypeOK
  <2>4. ASSUME NEW e \in Issued, e.type = "STA_CONNECT", e.id = last'[e.mac], ap = "on", e.up = gen
        PROVE  stations'[e.mac] # 0
    BY <1>6, <2>1, <2>2, <2>3, <2>4 DEF IssuedIsListed
  <2>5. handler'.type = "STA_CONNECT" => stations'[handler'.mac] # 0
    BY <1>1, <1>3, <1>4 DEF TypeOK
  <2> QED
    BY <1>1, <1>9, <2>4, <2>5 DEF IssuedIsListed
<1>13. ResultsQueued'
    BY <1>1 DEF ResultsQueued
<1> QED
    BY <1>8, <1>11, <1>12, <1>13

\* Queueing the announcement does not change what was issued.
LEMMA HandleQueueKeeps ==
    ASSUME TypeOK, EventInv, HandleQueue
    PROVE  EventInv'
<1> USE DEF EventInv
<1>1. UNCHANGED <<ap, gen, stations, last, result>> /\ handler # NoMac /\ handler' = NoMac
    BY DEF HandleQueue, apVars, driverVars
<1>2. /\ Len(log) \in Nat /\ Len(log') = Len(log) + 1
      /\ \A i \in 1 .. Len(log) : log'[i] = log[i]
      /\ log'[Len(log) + 1] = handler
    BY <1>1, AppendProperties, LenProperties DEF HandleQueue, TypeOK
<1>3. Issued' = Issued
  <2>1. {log'[i] : i \in 1 .. Len(log')} = {log[i] : i \in 1 .. Len(log)} \cup {handler}
    <3>1. \A i \in 1 .. Len(log') : i \in 1 .. Len(log) \/ i = Len(log) + 1
      BY <1>2
    <3>2. \A i \in 1 .. Len(log) : i \in 1 .. Len(log')
      BY <1>2
    <3>3. Len(log) + 1 \in 1 .. Len(log')
      BY <1>2
    <3> QED
      BY <1>2, <3>1, <3>2, <3>3
  <2> QED
    BY <1>1, <2>1 DEF Issued
<1>4. Numbered'
  <2>1. \A i \in 1 .. Len(log') : i \in 1 .. Len(log) \/ i = Len(log) + 1
    BY <1>2
  <2>2. \A i \in 1 .. Len(log') : log'[i].id = i
    BY <1>1, <1>2, <2>1 DEF Numbered
  <2>3. \A m \in Macs : last'[m] <= Len(log')
    BY <1>1, <1>2 DEF Numbered, TypeOK
  <2>4. Len(log') \in Nat /\ \A m \in Macs : last'[m] \in Nat
    BY <1>1, <1>2 DEF TypeOK
  <2> QED
    BY <1>1, <2>2, <2>3, <2>4 DEF Numbered
<1>5. UpInPast' /\ IssuedIsListed'
    BY <1>1, <1>3 DEF UpInPast, IssuedIsListed
<1>6. ResultsQueued'
    BY <1>1, <1>2 DEF ResultsQueued, TypeOK
<1> QED
    BY <1>4, <1>5, <1>6

\* An AP that becomes active has issued nothing yet.
LEMMA ApStepIssues ==
    ASSUME TypeOK, EventInv, ApStep
    PROVE  EventInv'
<1> USE DEF EventInv
<1>1. UNCHANGED <<log, handler, last, result>>
    BY DEF ApStep, ApStart, DnsmasqStarts, StartFails, ApUp, ApStop, tableVars, queueVars, driverVars
<1>2. Numbered' /\ ResultsQueued' /\ Issued' = Issued
    BY <1>1 DEF Numbered, ResultsQueued, Issued
<1>3. gen \in Nat /\ \A e \in Issued : e.up \in Nat
  <2>1. \A i \in 1 .. Len(log) : log[i] \in Event
    BY ElementOfSeq DEF TypeOK
  <2>2. \A e \in Issued : e \in Event
    BY <2>1 DEF TypeOK, Issued
  <2> QED
    BY <2>2, SwitchesAssumption DEF TypeOK, Event
<1>4. CASE ApStart
  <2>1. ap' = "starting" /\ gen' = gen + 1
    BY <1>4 DEF ApStart
  <2> QED
    BY <1>2, <1>3, <2>1 DEF UpInPast, IssuedIsListed
<1>5. CASE DnsmasqStarts \/ StartFails \/ ApUp \/ ApStop
  <2>1. gen' = gen /\ (ap' = "on" => ap = "dhcp") /\ (ap' = "dhcp" => ap = "starting") /\ ap' # "starting"
    BY <1>5 DEF DnsmasqStarts, StartFails, ApUp, ApStop
  <2> QED
    BY <1>2, <2>1 DEF UpInPast, IssuedIsListed
<1> QED
    BY <1>4, <1>5 DEF ApStep

\* A script gets events out of batches.
LEMMA RespondKeeps ==
    ASSUME TypeOK, Places, EventInv, NEW p \in Polls, Respond(p)
    PROVE  EventInv'
<1> USE DEF EventInv
<1>1. UNCHANGED <<ap, gen, stations, handler, last, log>>
    BY DEF Respond, apVars, tableVars, queueVars
<1>2. Numbered' /\ UpInPast' /\ IssuedIsListed'
    BY <1>1 DEF Numbered, UpInPast, IssuedIsListed, Issued
<1> DEFINE d == owner[p]
           found == Matches(call[d], batch[p])
<1>3. result' = [result EXCEPT ![d] = IF found # {} THEN First(found) ELSE 0]
    BY DEF Respond
<1>4. found # {} => First(found) \in batch[p]
  <2>1. found \subseteq batch[p] /\ batch[p] \subseteq Nat
    BY DEF Matches, TypeOK
  <2>2. found # {} => First(found) \in found
    BY <2>1, FirstIsMember
  <2> QED
    BY <2>1, <2>2
<1>5. head \in Nat /\ Len(log) \in Nat /\ head <= Len(log)
    BY LenProperties DEF TypeOK
<1>6. found # {} => First(found) <= Len(log)
    BY <1>4, <1>5 DEF Places
<1>7. ResultsQueued'
    BY <1>1, <1>3, <1>5, <1>6 DEF ResultsQueued, TypeOK
<1> QED
    BY <1>2, <1>7

\* Every step keeps what is known about the events.
LEMMA EventStep == TypeOK /\ Places /\ TableInv /\ EventInv /\ [Next]_vars => EventInv'
<1> SUFFICES ASSUME TypeOK, Places, TableInv, EventInv, [Next]_vars PROVE EventInv'
    OBVIOUS
<1>1. CASE UNCHANGED <<ap, gen, stations, handler, last, log, result>>
    BY <1>1 DEF EventInv, Numbered, UpInPast, IssuedIsListed, ResultsQueued, Issued
<1>2. ASSUME NEW d \in Drivers, NEW c \in Calls, Call(d, c) PROVE EventInv'
  <2>1. UNCHANGED <<ap, gen, stations, handler, last, log>>
    BY <1>2 DEF Call, apVars, tableVars, queueVars
  <2>2. ResultsQueued'
    BY <1>2, <2>1, LenProperties DEF Call, EventInv, ResultsQueued, TypeOK
  <2> QED
    BY <2>1, <2>2 DEF EventInv, Numbered, UpInPast, IssuedIsListed, Issued
<1> QED
    BY <1>1, <1>2, ApStepIssues, HandleTableIssues, HandleQueueKeeps, RespondKeeps
    DEF Next, LeaseStep, PollStep, LeaseChanges, PostLost, WaitGets, WaitTimesOut, Drain,
        DrainEnds, RespondNobody, Poll, GiveUp, Deadline, vars, apVars, dhcpVars, tableVars,
        queueVars, driverVars

-----------------------------------------------------------------------------
(* The theorems *)

\* The initial state satisfies the invariant.
LEMMA InitIInv == Init => IInv
<1> SUFFICES ASSUME Init PROVE IInv
    OBVIOUS
<1> USE SwitchesAssumption DEF Init
<1>1. Len(log) = 0 /\ log \in Seq(Event) /\ \A m \in Macs : script[m] = <<>> /\ Len(script[m]) = 0
    BY EmptySeq
<1>2. script \in [Macs -> Seq(Announcement)]
    BY EmptySeq
<1>3. TypeOK
    BY <1>1, <1>2 DEF TypeOK
<1>4. EventsAccounted
  <2>1. Places
    BY DEF Places
  <2> QED
    BY <1>3, <2>1, PlacesIsAccounted
<1>5. TableInv
    BY <1>1 DEF TableInv, Started, ScriptsCurrent, NoFormerStation, LastSaysLease,
                StationMatchesLease
<1>6. EventInv
  <2>1. Issued = {}
    BY <1>1 DEF Issued
  <2> QED
    BY <1>1, <2>1 DEF EventInv, Numbered, UpInPast, IssuedIsListed, ResultsQueued
<1> QED
    BY <1>3, <1>4, <1>5, <1>6 DEF IInv

\* The invariant holds in every state.
LEMMA Invariance == Spec => []IInv
<1>1. Init => IInv
    BY InitIInv
<1>2. IInv /\ [Next]_vars => IInv'
  <2> SUFFICES ASSUME IInv, [Next]_vars PROVE IInv'
    OBVIOUS
  <2>1. TypeOK' /\ Places'
    BY TypeOKStep, PlacesStep, PlacesIsAccounted DEF IInv
  <2>2. EventsAccounted'
    <3>1. (TypeOK => (Places <=> EventsAccounted))'
      BY PlacesIsAccounted, PTL
    <3> QED
      BY <2>1, <3>1
  <2>3. TableInv' /\ EventInv'
    BY TableStep, EventStep, PlacesIsAccounted DEF IInv
  <2> QED
    BY <2>1, <2>2, <2>3 DEF IInv
<1> QED
    BY <1>1, <1>2, PTL DEF Spec

\* The table, the queue and the polls keep their types.
THEOREM TypeCorrect == Spec => []TypeOK
<1>1. IInv => TypeOK
    BY DEF IInv
<1> QED
    BY <1>1, Invariance, PTL

\* Competing polls share out the queue: nothing is lost in the portal or delivered twice.
THEOREM EventsAreAccounted == Spec => []EventsAccounted
<1>1. IInv => EventsAccounted
    BY DEF IInv
<1> QED
    BY <1>1, Invariance, PTL

\* Late announcements of a former AP never show in the table of the active one.
THEOREM NoStationOfFormerAp == Spec => []NoFormerStation
<1>1. IInv => NoFormerStation
    BY DEF IInv, TableInv
<1> QED
    BY <1>1, Invariance, PTL

\* A script that saw a station connect finds it in ap_status.
THEOREM AnnouncedIsInTable == Spec => []AnnouncedIsListed
<1>1. IInv => AnnouncedIsListed
  <2> SUFFICES ASSUME IInv, NEW d \in Drivers, result[d] # 0
               PROVE  log[result[d]] \in Issued
    BY DEF AnnouncedIsListed, IInv, EventInv, IssuedIsListed
  <2>1. result[d] \in 1 .. Len(log)
    BY LenProperties DEF IInv, TypeOK, EventInv, ResultsQueued
  <2> QED
    BY <2>1 DEF Issued
<1> QED
    BY <1>1, Invariance, PTL

\* With no announcement on its way the table is the list of leases, save the stations
\* whose announcement was lost or wiped.
THEOREM TableIsLeases == Spec => []TableMatchesLeases
<1>1. IInv => TableMatchesLeases
    BY DEF IInv, TableInv, StationMatchesLease, TableMatchesLeases
<1> QED
    BY <1>1, Invariance, PTL
=============================================================================
