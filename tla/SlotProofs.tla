----------------------------- MODULE SlotProofs -----------------------------
(* Theorems about Slot, for every value of its constants. *)
EXTENDS Slot, TLAPS

USE DEF deviceVars, proxyVars, flapVars, windowVars, slotVars, threadVars, boundVars, envVars

\* A notification sent keeps the counts of notifications within their bound.
LEMMA EmitType ==
    ASSUME NEW a, NEW n, events \in [Events -> 0 .. MaxInFlight], Emit(a, n)
    PROVE  events' \in [Events -> 0 .. MaxInFlight]
<1> DEFINE k == [act |-> a, node |-> n]
           v == IF events[k] < MaxInFlight THEN events[k] + 1 ELSE events[k]
<1>1. events' = [events EXCEPT ![k] = v]
  BY DEF Emit
<1>2. k \in Events => v \in 0 .. MaxInFlight
  <2> HIDE DEF k
  <2> QED BY BoundsAssumption DEF BoundsAssumption
<1> HIDE DEF k, v
<1> QED BY <1>1, <1>2

\* So does one delivered or lost.
LEMMA ConsumeType ==
    ASSUME NEW e \in Events, events \in [Events -> 0 .. MaxInFlight], Consume(e)
    PROVE  events' \in [Events -> 0 .. MaxInFlight]
  BY BoundsAssumption DEF BoundsAssumption, Consume

\* The environment, a poll and an ignored notification keep the types.
LEMMA TypeEnvironment ==
    ASSUME TypeOK, Environment \/ GetDevices \/ HotplugIgnored
    PROVE  TypeOK'
<1> USE DEF TypeOK
<1>1. CASE Unplug
  BY <1>1, EmitType DEF Unplug
<1>2. CASE Plug
  BY <1>2, EmitType DEF Plug
<1>3. CASE LoseEvent
  BY <1>3, ConsumeType DEF LoseEvent
<1>4. CASE ProxyDies
  BY <1>4 DEF ProxyDies
<1>5. CASE Age
  <2>1. quiet' \in BOOLEAN
    BY <1>5, Zenon DEF Age
  <2>2. recent' \in 0 .. FLAP_THRESHOLD
    BY <1>5, BoundsAssumption DEF Age, BoundsAssumption
  <2> QED BY <1>5, <2>1, <2>2 DEF Age
<1>6. CASE GetDevices
  BY <1>6 DEF GetDevices, ProcessDied, EventsAgedOut, HasProxy, Settled, States
<1>7. CASE HotplugIgnored
  BY <1>7, ConsumeType DEF HotplugIgnored
<1> QED
  BY <1>1, <1>2, <1>3, <1>4, <1>5, <1>6, <1>7 DEF Environment

\* A thread without locals.
LEMMA NoLocalsType == NoLocals \in Locals
  BY BoundsAssumption DEF BoundsAssumption, NoLocals, Locals

\* A handler that returns.
LEMMA ReturnType ==
    ASSUME NEW t \in Threads, pc \in [Threads -> Points], loc \in [Threads -> Locals],
           Return(t)
    PROVE  pc' \in [Threads -> Points] /\ loc' \in [Threads -> Locals]
<1>1. "idle" \in Points
  BY DEF Points, Unlocked
<1> QED BY <1>1, NoLocalsType DEF Return

\* A thread that goes to another point.
LEMMA GotoType ==
    ASSUME NEW t \in Threads, NEW p \in Points, pc \in [Threads -> Points], Goto(t, p)
    PROVE  pc' \in [Threads -> Points]
  BY DEF Goto

\* A thread that gets the lock.
LEMMA AcquireType ==
    ASSUME NEW t \in Threads, NEW w \in Waiting, NEW p \in Points,
           pc \in [Threads -> Points], loc \in [Threads -> Locals],
           devnode \in Nodes \cup {NoNode}, Acquire(t, w, p)
    PROVE  pc' \in [Threads -> Points] /\ loc' \in [Threads -> Locals] /\ lock' = t
<1> DEFINE n == IF p = "spawn" /\ w # "api_start" THEN devnode ELSE loc[t].node
<1>1. loc' = [loc EXCEPT ![t] = [loc[t] EXCEPT !.op = w, !.node = n]]
  BY DEF Acquire, Locals
<1>2. n \in Nodes \cup {NoNode}
  BY DEF Locals
<1> HIDE DEF n
<1>3. [loc[t] EXCEPT !.op = w, !.node = n] \in Locals
  BY <1>2 DEF Locals
<1> QED BY <1>1, <1>3, ZenonT(60) DEF Acquire

\* The states a slot may be given.
LEMMA SettledType == Settled \in States
  BY DEF Settled, States

\* The steps of stop_proxy and start_proxy keep the types.
LEMMA TypeProxyStep ==
    ASSUME NEW t \in Threads, TypeOK, ProxyStep(t)
    PROVE  TypeOK'
<1> USE DEF TypeOK
<1> USE GotoType, ReturnType, SettledType DEF Points, Waiting, Locked, Unlocked
<1>1. CASE Kill(t)
  BY <1>1 DEF Kill
<1>2. CASE BgStartStopped(t)
  <2>1. [loc[t] EXCEPT !.node = devnode] \in Locals
    BY SMTT(30) DEF Locals
  <2>2. loc' \in [Threads -> Locals]
    BY <1>2, <2>1 DEF BgStartStopped
  <2> QED BY <1>2, <2>2, ZenonT(60) DEF BgStartStopped, Stopped
<1>3. CASE ApiStartStopped(t)
  BY <1>3 DEF ApiStartStopped, Stopped, Locals
<1>4. CASE BgStopDone(t)
  BY <1>4 DEF BgStopDone, Stopped
<1>5. CASE ApiStopDone(t)
  BY <1>5 DEF ApiStopDone, Stopped
<1>6. CASE ResetStopped(t)
  BY <1>6 DEF ResetStopped, Stopped, States
<1>7. CASE FlapStopped(t)
  BY <1>7 DEF FlapStopped, Stopped
<1>8. CASE SpawnProxy(t)
  BY <1>8 DEF SpawnProxy, Locals
<1>9. CASE SpawnFails(t)
  BY <1>9 DEF SpawnFails, StateAfterStart, States
<1>10. CASE ProxyListens(t)
  BY <1>10 DEF ProxyListens, StateAfterStart, States, Locals
<1>11. CASE ProxyFails(t)
  BY <1>11 DEF ProxyFails, StateAfterStart, States
<1> QED
  BY <1>1, <1>2, <1>3, <1>4, <1>5, <1>6, <1>7, <1>8, <1>9, <1>10, <1>11 DEF ProxyStep

\* Entering a locked section keeps the types.
LEMMA TypeLockStep ==
    ASSUME NEW t \in Threads, TypeOK, LockStep(t)
    PROVE  TypeOK'
<1> USE DEF TypeOK
<1> USE GotoType, ReturnType, SettledType DEF Points, Waiting, Locked, Unlocked
<1>1. CASE BgStart(t)
  BY <1>1, AcquireType, ZenonT(60) DEF BgStart, Acquire
<1>2. CASE BgStartGivesUp(t)
  BY <1>2 DEF BgStartGivesUp
<1>3. CASE BgStop(t)
  BY <1>3, AcquireType, ZenonT(60) DEF BgStop, Acquire
<1>4. CASE ApiStart(t)
  <2>1. devnode' \in Nodes \cup {NoNode} /\ present' \in BOOLEAN
    BY <1>4 DEF ApiStart, Locals
  <2> QED BY <1>4, <2>1, AcquireType, ZenonT(60) DEF ApiStart, Acquire
<1>5. CASE ApiStop(t)
  BY <1>5, AcquireType, ZenonT(60) DEF ApiStop, Acquire
<1>6. CASE ResetStop(t)
  BY <1>6, AcquireType, ZenonT(60) DEF ResetStop, Acquire
<1>7. CASE FlapStop(t)
  BY <1>7, AcquireType, ZenonT(60) DEF FlapStop, Acquire
<1>8. CASE FlapNothingToStop(t)
  BY <1>8 DEF FlapNothingToStop
<1>9. CASE ResetRestart(t)
  BY <1>9, AcquireType, ZenonT(60) DEF ResetRestart, Acquire
<1>10. CASE ResetAlreadyRunning(t)
  BY <1>10 DEF ResetAlreadyRunning
<1> QED
  BY <1>1, <1>2, <1>3, <1>4, <1>5, <1>6, <1>7, <1>8, <1>9, <1>10 DEF LockStep

\* Reset and monitor keep the types.
LEMMA TypeSerialStep ==
    ASSUME NEW t \in Threads, TypeOK, SerialStep(t)
    PROVE  TypeOK'
<1> USE DEF TypeOK
<1> USE GotoType, ReturnType, SettledType DEF Points, Waiting, Locked, Unlocked
<1>1. CASE ResetOpens(t)
  BY <1>1 DEF ResetOpens
<1>2. CASE ResetCannotOpen(t)
  BY <1>2 DEF ResetCannotOpen
<1>3. CASE ResetReads(t)
  BY <1>3 DEF ResetReads
<1>4. CASE ResetRaises(t)
  BY <1>4 DEF ResetRaises
<1>5. CASE MonitorOpens(t)
  BY <1>5 DEF MonitorOpens, States
<1>6. CASE MonitorCannotConnect(t)
  BY <1>6 DEF MonitorCannotConnect
<1>7. CASE MonitorDone(t)
  BY <1>7 DEF MonitorDone
<1> QED
  BY <1>1, <1>2, <1>3, <1>4, <1>5, <1>6, <1>7 DEF SerialStep

\* Starting a recovery and ending a release keep the types.
LEMMA TypeFlapStep ==
    ASSUME NEW t \in Threads, TypeOK, FlapStep(t)
    PROVE  TypeOK'
<1> USE DEF TypeOK
<1> USE GotoType, ReturnType, SettledType DEF Points, Waiting, Locked, Unlocked
<1>1. CASE FlapAlreadyRecovering(t)
  BY <1>1, NoLocalsType DEF FlapAlreadyRecovering, HotplugTail, Spawned, States, Locals
<1>2. CASE FlapEnter(t)
  BY <1>2 DEF FlapEnter, States
<1>3. CASE FlapUnbind(t)
  BY <1>3, EmitType DEF FlapUnbind
<1>4. CASE FlapCannotUnbind(t)
  BY <1>4, NoLocalsType DEF FlapCannotUnbind, HotplugTail, Spawned, States, Locals
<1>5. CASE FlapSpawn(t)
  BY <1>5, NoLocalsType, ZenonT(60) DEF FlapSpawn, HotplugTail, Spawned, States, Locals
<1>6. CASE ReleaseDone(t)
  BY <1>6, BoundsAssumption DEF ReleaseDone, BoundsAssumption, States
<1> QED
  BY <1>1, <1>2, <1>3, <1>4, <1>5, <1>6 DEF FlapStep

\* A recovery thread keeps the types.
LEMMA TypeRecovererStep ==
    ASSUME NEW u \in Threads, TypeOK, RetryBound, RecovererStep(u)
    PROVE  TypeOK'
<1> USE DEF TypeOK
<1> USE GotoType, ReturnType, SettledType DEF Points, Waiting, Locked, Unlocked
<1>1. CASE RecBegin(u)
  BY <1>1 DEF RecBegin, Locals
<1>2. CASE RecGivesUp(u)
  BY <1>2, ZenonT(60) DEF RecGivesUp, States
<1>3. CASE GpioBoot(u)
  BY <1>3 DEF GpioBoot
<1>4. CASE GpioFails(u)
  BY <1>4, ZenonT(60) DEF GpioFails, States
<1>5. CASE GpioRebind(u)
  BY <1>5, EmitType DEF GpioRebind, Rebind
<1>6. CASE GpioDone(u)
  <2>1. retries' \in 0 .. FLAP_MAX_RETRIES
    BY <1>6, BoundsAssumption DEF GpioDone, BoundsAssumption
  <2> QED BY <1>6, <2>1 DEF GpioDone, States
<1>7. CASE BackoffEnds(u)
  <2>1. retries' \in 0 .. FLAP_MAX_RETRIES
    BY <1>7, BoundsAssumption DEF BackoffEnds, BoundsAssumption, Locals, RetryBound
  <2>2. recent' \in 0 .. FLAP_THRESHOLD
    BY <1>7, BoundsAssumption DEF BackoffEnds, BoundsAssumption
  <2> QED BY <1>7, <2>1, <2>2, ZenonT(60) DEF BackoffEnds, States
<1>8. CASE BackoffRebind(u)
  BY <1>8, EmitType DEF BackoffRebind, Rebind
<1> QED
  BY <1>1, <1>2, <1>3, <1>4, <1>5, <1>6, <1>7, <1>8 DEF RecovererStep

\* What starts a handler keeps the types.
LEMMA TypeArrive ==
    ASSUME NEW t \in Threads, TypeOK, Arrive(t)
    PROVE  TypeOK'
<1> USE DEF TypeOK
<1> USE GotoType, SettledType, NoLocalsType DEF Points, Waiting, Locked, Unlocked
<1>1. CASE \E e \in Events : Hotplug(t, e)
  <2>1. PICK e \in Events : Hotplug(t, e)
    BY <1>1
  <2>2. e.act \in {"add", "remove"} /\ e.node \in Nodes
    BY DEF Events
  <2>3. recent' \in 0 .. FLAP_THRESHOLD
    BY <2>1, BoundsAssumption DEF Hotplug, Counted, BoundsAssumption
  <2>4. events' \in [Events -> 0 .. MaxInFlight]
    BY <2>1, ConsumeType DEF Hotplug
  <2>5. pc' \in [Threads -> Points]
    BY <2>1 DEF Hotplug, Spawned
  <2>6. present' \in BOOLEAN /\ devnode' \in Nodes \cup {NoNode} /\ state' \in States
    BY <2>1, <2>2 DEF Hotplug, HotplugTail, States
  <2>7. flapping' \in BOOLEAN
    BY <2>1 DEF Hotplug, StillFlapping
  <2> QED BY <2>1, <2>3, <2>4, <2>5, <2>6, <2>7 DEF Hotplug
<1>2. CASE \E e \in Events : HotplugFlap(t, e)
  <2>1. PICK e \in Events : HotplugFlap(t, e)
    BY <1>2
  <2>2. recent' \in 0 .. FLAP_THRESHOLD
    BY <2>1, BoundsAssumption DEF HotplugFlap, Counted, BoundsAssumption
  <2>3. events' \in [Events -> 0 .. MaxInFlight]
    BY <2>1, ConsumeType DEF HotplugFlap
  <2>4. [NoLocals EXCEPT !.act = e.act, !.node = e.node] \in Locals
    BY BoundsAssumption DEF NoLocals, Locals, Events, BoundsAssumption
  <2> QED BY <2>1, <2>2, <2>3, <2>4 DEF HotplugFlap, States
<1>3. ASSUME NEW k, NEW p \in Points, NEW l \in Locals, Request(t, k, p, l),
             retries' \in 0 .. FLAP_MAX_RETRIES, flapping' \in BOOLEAN,
             bootLow' \in BOOLEAN
      PROVE  TypeOK'
  BY <1>3 DEF Request
<1>4. CASE RequestStart(t)
  <2>1. ASSUME NEW n \in Nodes
        PROVE  [NoLocals EXCEPT !.node = n] \in Locals
    BY BoundsAssumption DEF NoLocals, Locals, BoundsAssumption
  <2> QED BY <1>3, <1>4, <2>1 DEF RequestStart
<1>5. CASE RequestStop(t)
  BY <1>3, <1>5 DEF RequestStop
<1>6. CASE RequestReset(t)
  <2>1. [NoLocals EXCEPT !.node = devnode] \in Locals
    BY BoundsAssumption DEF NoLocals, Locals, BoundsAssumption
  <2> QED BY <1>3, <1>6, <2>1 DEF RequestReset
<1>7. CASE RequestMonitor(t)
  BY <1>3, <1>7 DEF RequestMonitor
<1>8. CASE RequestRecover(t)
  <2>1. retries' \in 0 .. FLAP_MAX_RETRIES /\ flapping' \in BOOLEAN
    BY <1>8, BoundsAssumption DEF RequestRecover, BoundsAssumption
  <2> QED BY <1>3, <1>8, <2>1 DEF RequestRecover
<1>9. CASE RequestRelease(t)
  BY <1>3, <1>9 DEF RequestRelease
<1>10. CASE RequestReleaseFails(t)
  <2>1. bootLow' \in BOOLEAN
    BY <1>10, Zenon DEF RequestReleaseFails
  <2> QED BY <1>3, <1>10, <2>1 DEF RequestReleaseFails
<1> QED
  BY <1>1, <1>2, <1>4, <1>5, <1>6, <1>7, <1>8, <1>9, <1>10 DEF Arrive

\* Every step keeps the types.
LEMMA TypeNext ==
    ASSUME TypeOK, RetryBound, [Next]_vars
    PROVE  TypeOK'
<1>1. CASE UNCHANGED vars
  BY <1>1 DEF vars, TypeOK
<1>2. CASE Next
  BY <1>2, TypeEnvironment, TypeArrive, TypeProxyStep, TypeLockStep, TypeSerialStep,
    TypeFlapStep, TypeRecovererStep DEF Next, HandlerStep, Threads
<1> QED BY <1>1, <1>2

-----------------------------------------------------------------------------
\* Proxy processes: the environment, a poll and an ignored notification.
LEMMA ProxyEnvironment ==
    ASSUME TypeOK, LockHeld, ProxyRecorded,
           Environment \/ GetDevices \/ HotplugIgnored
    PROVE  LockHeld' /\ ProxyRecorded'
<1> USE ThreadsAssumption, NamesAssumption DEF TypeOK, LockHeld, ProxyRecorded,
  Waiting, Locked, HasProxy, ThreadsAssumption, NamesAssumption, Goto, Return, Threads
<1>1. CASE Unplug
  BY <1>1 DEF Unplug
<1>2. CASE Plug
  BY <1>2 DEF Plug
<1>3. CASE LoseEvent
  BY <1>3 DEF LoseEvent
<1>4. CASE ProxyDies
  BY <1>4 DEF ProxyDies
<1>5. CASE Age
  BY <1>5 DEF Age
<1>6. CASE GetDevices
  BY <1>6 DEF GetDevices, ProcessDied, EventsAgedOut
<1>7. CASE HotplugIgnored
  BY <1>7 DEF HotplugIgnored
<1> QED
  BY <1>1, <1>2, <1>3, <1>4, <1>5, <1>6, <1>7 DEF Environment

\* Proxy processes: what starts a handler.
LEMMA ProxyArrive ==
    ASSUME NEW t \in Handlers, TypeOK, LockHeld, ProxyRecorded,
           Arrive(t)
    PROVE  LockHeld' /\ ProxyRecorded'
<1> USE ThreadsAssumption, NamesAssumption DEF TypeOK, LockHeld, ProxyRecorded,
  Waiting, Locked, HasProxy, ThreadsAssumption, NamesAssumption, Goto, Return, Threads
<1>1. CASE \E e \in Events : Hotplug(t, e)
  BY <1>1 DEF Hotplug, HotplugTail, Spawned
<1>2. CASE \E e \in Events : HotplugFlap(t, e)
  BY <1>2 DEF HotplugFlap
<1>3. CASE RequestStart(t)
  BY <1>3 DEF RequestStart, Request
<1>4. CASE RequestStop(t)
  BY <1>4 DEF RequestStop, Request
<1>5. CASE RequestReset(t)
  BY <1>5 DEF RequestReset, Request
<1>6. CASE RequestMonitor(t)
  BY <1>6 DEF RequestMonitor, Request
<1>7. CASE RequestRecover(t)
  BY <1>7 DEF RequestRecover, Request
<1>8. CASE RequestRelease(t)
  BY <1>8 DEF RequestRelease, Request
<1>9. CASE RequestReleaseFails(t)
  BY <1>9 DEF RequestReleaseFails, Request
<1> QED
  BY <1>1, <1>2, <1>3, <1>4, <1>5, <1>6, <1>7, <1>8, <1>9 DEF Arrive

\* Proxy processes: stop_proxy and start_proxy.
LEMMA ProxyProxyStep ==
    ASSUME NEW t \in Handlers, TypeOK, LockHeld, ProxyRecorded,
           ProxyStep(t)
    PROVE  LockHeld' /\ ProxyRecorded'
<1> USE ThreadsAssumption, NamesAssumption DEF TypeOK, LockHeld, ProxyRecorded,
  Waiting, Locked, HasProxy, ThreadsAssumption, NamesAssumption, Goto, Return, Threads
<1>1. CASE Kill(t)
  BY <1>1 DEF Kill
<1>2. CASE BgStartStopped(t)
  BY <1>2 DEF BgStartStopped, Stopped
<1>3. CASE ApiStartStopped(t)
  BY <1>3 DEF ApiStartStopped, Stopped
<1>4. CASE BgStopDone(t)
  BY <1>4 DEF BgStopDone, Stopped
<1>5. CASE ApiStopDone(t)
  BY <1>5 DEF ApiStopDone, Stopped
<1>6. CASE ResetStopped(t)
  BY <1>6 DEF ResetStopped, Stopped
<1>7. CASE FlapStopped(t)
  BY <1>7 DEF FlapStopped, Stopped
<1>8. CASE SpawnProxy(t)
  BY <1>8 DEF SpawnProxy
<1>9. CASE SpawnFails(t)
  BY <1>9 DEF SpawnFails, StateAfterStart
<1>10. CASE ProxyListens(t)
  BY <1>10 DEF ProxyListens, StateAfterStart
<1>11. CASE ProxyFails(t)
  BY <1>11 DEF ProxyFails, StateAfterStart
<1> QED
  BY <1>1, <1>2, <1>3, <1>4, <1>5, <1>6, <1>7, <1>8, <1>9, <1>10, <1>11 DEF ProxyStep

\* Proxy processes: entering a locked section.
LEMMA ProxyLockStep ==
    ASSUME NEW t \in Handlers, TypeOK, LockHeld, ProxyRecorded,
           LockStep(t)
    PROVE  LockHeld' /\ ProxyRecorded'
<1> USE ThreadsAssumption, NamesAssumption DEF TypeOK, LockHeld, ProxyRecorded,
  Waiting, Locked, HasProxy, ThreadsAssumption, NamesAssumption, Goto, Return, Threads
<1>1. CASE BgStart(t)
  BY <1>1 DEF BgStart, Acquire
<1>2. CASE BgStartGivesUp(t)
  BY <1>2 DEF BgStartGivesUp
<1>3. CASE BgStop(t)
  BY <1>3 DEF BgStop, Acquire
<1>4. CASE ApiStart(t)
  BY <1>4 DEF ApiStart, Acquire
<1>5. CASE ApiStop(t)
  BY <1>5 DEF ApiStop, Acquire
<1>6. CASE ResetStop(t)
  BY <1>6 DEF ResetStop, Acquire
<1>7. CASE FlapStop(t)
  BY <1>7 DEF FlapStop, Acquire
<1>8. CASE FlapNothingToStop(t)
  BY <1>8 DEF FlapNothingToStop
<1>9. CASE ResetRestart(t)
  BY <1>9 DEF ResetRestart, Acquire
<1>10. CASE ResetAlreadyRunning(t)
  BY <1>10 DEF ResetAlreadyRunning
<1> QED
  BY <1>1, <1>2, <1>3, <1>4, <1>5, <1>6, <1>7, <1>8, <1>9, <1>10 DEF LockStep

\* Proxy processes: reset and monitor.
LEMMA ProxySerialStep ==
    ASSUME NEW t \in Handlers, TypeOK, LockHeld, ProxyRecorded,
           SerialStep(t)
    PROVE  LockHeld' /\ ProxyRecorded'
<1> USE ThreadsAssumption, NamesAssumption DEF TypeOK, LockHeld, ProxyRecorded,
  Waiting, Locked, HasProxy, ThreadsAssumption, NamesAssumption, Goto, Return, Threads
<1>1. CASE ResetOpens(t)
  BY <1>1 DEF ResetOpens
<1>2. CASE ResetCannotOpen(t)
  BY <1>2 DEF ResetCannotOpen
<1>3. CASE ResetReads(t)
  BY <1>3 DEF ResetReads
<1>4. CASE ResetRaises(t)
  BY <1>4 DEF ResetRaises
<1>5. CASE MonitorOpens(t)
  BY <1>5 DEF MonitorOpens
<1>6. CASE MonitorCannotConnect(t)
  BY <1>6 DEF MonitorCannotConnect
<1>7. CASE MonitorDone(t)
  BY <1>7 DEF MonitorDone
<1> QED
  BY <1>1, <1>2, <1>3, <1>4, <1>5, <1>6, <1>7 DEF SerialStep

\* Proxy processes: starting a recovery.
LEMMA ProxyFlapStep ==
    ASSUME NEW t \in Handlers, TypeOK, LockHeld, ProxyRecorded,
           FlapStep(t)
    PROVE  LockHeld' /\ ProxyRecorded'
<1> USE ThreadsAssumption, NamesAssumption DEF TypeOK, LockHeld, ProxyRecorded,
  Waiting, Locked, HasProxy, ThreadsAssumption, NamesAssumption, Goto, Return, Threads
<1>1. CASE FlapAlreadyRecovering(t)
  BY <1>1 DEF FlapAlreadyRecovering, HotplugTail, Spawned
<1>2. CASE FlapEnter(t)
  BY <1>2 DEF FlapEnter
<1>3. CASE FlapUnbind(t)
  BY <1>3 DEF FlapUnbind
<1>4. CASE FlapCannotUnbind(t)
  BY <1>4 DEF FlapCannotUnbind, HotplugTail, Spawned
<1>5. CASE FlapSpawn(t)
  BY <1>5 DEF FlapSpawn, HotplugTail, Spawned
<1>6. CASE ReleaseDone(t)
  BY <1>6 DEF ReleaseDone
<1> QED
  BY <1>1, <1>2, <1>3, <1>4, <1>5, <1>6 DEF FlapStep

\* Proxy processes: a recovery thread.
LEMMA ProxyRecovererStep ==
    ASSUME NEW u \in Recoverers, TypeOK, LockHeld, ProxyRecorded,
           RecovererStep(u)
    PROVE  LockHeld' /\ ProxyRecorded'
<1> USE ThreadsAssumption, NamesAssumption DEF TypeOK, LockHeld, ProxyRecorded,
  Waiting, Locked, HasProxy, ThreadsAssumption, NamesAssumption, Goto, Return, Threads
<1>1. CASE RecBegin(u)
  BY <1>1 DEF RecBegin
<1>2. CASE RecGivesUp(u)
  BY <1>2 DEF RecGivesUp
<1>3. CASE GpioBoot(u)
  BY <1>3 DEF GpioBoot
<1>4. CASE GpioFails(u)
  BY <1>4 DEF GpioFails
<1>5. CASE GpioRebind(u)
  BY <1>5 DEF GpioRebind, Rebind
<1>6. CASE GpioDone(u)
  BY <1>6 DEF GpioDone
<1>7. CASE BackoffEnds(u)
  BY <1>7 DEF BackoffEnds
<1>8. CASE BackoffRebind(u)
  BY <1>8 DEF BackoffRebind, Rebind
<1> QED
  BY <1>1, <1>2, <1>3, <1>4, <1>5, <1>6, <1>7, <1>8 DEF RecovererStep

\* Every step keeps the proxy process recorded.
LEMMA ProxyNext ==
    ASSUME TypeOK, LockHeld, ProxyRecorded, [Next]_vars
    PROVE  LockHeld' /\ ProxyRecorded'
<1>1. CASE UNCHANGED vars
  BY <1>1 DEF vars, LockHeld, ProxyRecorded, HasProxy
<1>2. CASE Next
  BY <1>2, ProxyEnvironment, ProxyArrive, ProxyProxyStep, ProxyLockStep,
    ProxySerialStep, ProxyFlapStep, ProxyRecovererStep DEF Next, HandlerStep, Threads
<1> QED BY <1>1, <1>2

-----------------------------------------------------------------------------
\* Recoveries and transient states: the environment, a poll and an ignored notification.
LEMMA RecoveryEnvironment ==
    ASSUME TypeOK, RecoveryExclusive, TransientStateBacked, RetryBound,
           Environment \/ GetDevices \/ HotplugIgnored
    PROVE  RecoveryExclusive' /\ TransientStateBacked' /\ RetryBound'
<1> USE ThreadsAssumption DEF TypeOK, RecoveryExclusive, TransientStateBacked,
  RetryBound, InRecovery, Settled, HasProxy, NoLocals, ThreadsAssumption, Goto, Return, Threads
<1>1. CASE Unplug
  BY <1>1 DEF Unplug
<1>2. CASE Plug
  BY <1>2 DEF Plug
<1>3. CASE LoseEvent
  BY <1>3 DEF LoseEvent
<1>4. CASE ProxyDies
  BY <1>4 DEF ProxyDies
<1>5. CASE Age
  BY <1>5 DEF Age
<1>6. CASE GetDevices
  BY <1>6 DEF GetDevices, ProcessDied, EventsAgedOut
<1>7. CASE HotplugIgnored
  BY <1>7 DEF HotplugIgnored
<1> QED
  BY <1>1, <1>2, <1>3, <1>4, <1>5, <1>6, <1>7 DEF Environment

\* Recoveries and transient states: what starts a handler.
LEMMA RecoveryArrive ==
    ASSUME NEW t \in Handlers, TypeOK, RecoveryExclusive, TransientStateBacked, RetryBound,
           Arrive(t)
    PROVE  RecoveryExclusive' /\ TransientStateBacked' /\ RetryBound'
<1> USE ThreadsAssumption DEF TypeOK, RecoveryExclusive, TransientStateBacked,
  RetryBound, InRecovery, Settled, HasProxy, NoLocals, ThreadsAssumption, Goto, Return, Threads
<1>1. CASE \E e \in Events : Hotplug(t, e)
  BY <1>1 DEF Hotplug, HotplugTail, Spawned
<1>2. CASE \E e \in Events : HotplugFlap(t, e)
  BY <1>2 DEF HotplugFlap
<1>3. CASE RequestStart(t)
  BY <1>3 DEF RequestStart, Request
<1>4. CASE RequestStop(t)
  BY <1>4 DEF RequestStop, Request
<1>5. CASE RequestReset(t)
  BY <1>5 DEF RequestReset, Request
<1>6. CASE RequestMonitor(t)
  BY <1>6 DEF RequestMonitor, Request
<1>7. CASE RequestRecover(t)
  BY <1>7 DEF RequestRecover, Request
<1>8. CASE RequestRelease(t)
  BY <1>8 DEF RequestRelease, Request
<1>9. CASE RequestReleaseFails(t)
  BY <1>9 DEF RequestReleaseFails, Request
<1> QED
  BY <1>1, <1>2, <1>3, <1>4, <1>5, <1>6, <1>7, <1>8, <1>9 DEF Arrive

\* Recoveries and transient states: stop_proxy and start_proxy.
LEMMA RecoveryProxyStep ==
    ASSUME NEW t \in Handlers, TypeOK, RecoveryExclusive, TransientStateBacked, RetryBound,
           ProxyStep(t)
    PROVE  RecoveryExclusive' /\ TransientStateBacked' /\ RetryBound'
<1> USE ThreadsAssumption DEF TypeOK, RecoveryExclusive, TransientStateBacked,
  RetryBound, InRecovery, Settled, HasProxy, NoLocals, ThreadsAssumption, Goto, Return, Threads
<1>1. CASE Kill(t)
  BY <1>1 DEF Kill
<1>2. CASE BgStartStopped(t)
  BY <1>2 DEF BgStartStopped, Stopped
<1>3. CASE ApiStartStopped(t)
  BY <1>3 DEF ApiStartStopped, Stopped
<1>4. CASE BgStopDone(t)
  BY <1>4 DEF BgStopDone, Stopped
<1>5. CASE ApiStopDone(t)
  BY <1>5 DEF ApiStopDone, Stopped
<1>6. CASE ResetStopped(t)
  BY <1>6 DEF ResetStopped, Stopped
<1>7. CASE FlapStopped(t)
  BY <1>7 DEF FlapStopped, Stopped
<1>8. CASE SpawnProxy(t)
  BY <1>8 DEF SpawnProxy
<1>9. CASE SpawnFails(t)
  BY <1>9 DEF SpawnFails, StateAfterStart
<1>10. CASE ProxyListens(t)
  BY <1>10 DEF ProxyListens, StateAfterStart
<1>11. CASE ProxyFails(t)
  BY <1>11 DEF ProxyFails, StateAfterStart
<1> QED
  BY <1>1, <1>2, <1>3, <1>4, <1>5, <1>6, <1>7, <1>8, <1>9, <1>10, <1>11 DEF ProxyStep

\* Recoveries and transient states: entering a locked section.
LEMMA RecoveryLockStep ==
    ASSUME NEW t \in Handlers, TypeOK, RecoveryExclusive, TransientStateBacked, RetryBound,
           LockStep(t)
    PROVE  RecoveryExclusive' /\ TransientStateBacked' /\ RetryBound'
<1> USE ThreadsAssumption DEF TypeOK, RecoveryExclusive, TransientStateBacked,
  RetryBound, InRecovery, Settled, HasProxy, NoLocals, ThreadsAssumption, Goto, Return, Threads
<1>1. CASE BgStart(t)
  BY <1>1 DEF BgStart, Acquire
<1>2. CASE BgStartGivesUp(t)
  BY <1>2 DEF BgStartGivesUp
<1>3. CASE BgStop(t)
  BY <1>3 DEF BgStop, Acquire
<1>4. CASE ApiStart(t)
  BY <1>4 DEF ApiStart, Acquire
<1>5. CASE ApiStop(t)
  BY <1>5 DEF ApiStop, Acquire
<1>6. CASE ResetStop(t)
  BY <1>6 DEF ResetStop, Acquire
<1>7. CASE FlapStop(t)
  BY <1>7 DEF FlapStop, Acquire
<1>8. CASE FlapNothingToStop(t)
  BY <1>8 DEF FlapNothingToStop
<1>9. CASE ResetRestart(t)
  BY <1>9 DEF ResetRestart, Acquire
<1>10. CASE ResetAlreadyRunning(t)
  BY <1>10 DEF ResetAlreadyRunning
<1> QED
  BY <1>1, <1>2, <1>3, <1>4, <1>5, <1>6, <1>7, <1>8, <1>9, <1>10 DEF LockStep

\* Recoveries and transient states: reset and monitor.
LEMMA RecoverySerialStep ==
    ASSUME NEW t \in Handlers, TypeOK, RecoveryExclusive, TransientStateBacked, RetryBound,
           SerialStep(t)
    PROVE  RecoveryExclusive' /\ TransientStateBacked' /\ RetryBound'
<1> USE ThreadsAssumption DEF TypeOK, RecoveryExclusive, TransientStateBacked,
  RetryBound, InRecovery, Settled, HasProxy, NoLocals, ThreadsAssumption, Goto, Return, Threads
<1>1. CASE ResetOpens(t)
  BY <1>1 DEF ResetOpens
<1>2. CASE ResetCannotOpen(t)
  BY <1>2 DEF ResetCannotOpen
<1>3. CASE ResetReads(t)
  BY <1>3 DEF ResetReads
<1>4. CASE ResetRaises(t)
  BY <1>4 DEF ResetRaises
<1>5. CASE MonitorOpens(t)
  BY <1>5 DEF MonitorOpens
<1>6. CASE MonitorCannotConnect(t)
  BY <1>6 DEF MonitorCannotConnect
<1>7. CASE MonitorDone(t)
  BY <1>7 DEF MonitorDone
<1> QED
  BY <1>1, <1>2, <1>3, <1>4, <1>5, <1>6, <1>7 DEF SerialStep

\* Recoveries and transient states: starting a recovery.
LEMMA RecoveryFlapStep ==
    ASSUME NEW t \in Handlers, TypeOK, RecoveryExclusive, TransientStateBacked, RetryBound,
           FlapStep(t)
    PROVE  RecoveryExclusive' /\ TransientStateBacked' /\ RetryBound'
<1> USE ThreadsAssumption DEF TypeOK, RecoveryExclusive, TransientStateBacked,
  RetryBound, InRecovery, Settled, HasProxy, NoLocals, ThreadsAssumption, Goto, Return, Threads
<1>1. CASE FlapAlreadyRecovering(t)
  BY <1>1 DEF FlapAlreadyRecovering, HotplugTail, Spawned
<1>2. CASE FlapEnter(t)
  BY <1>2 DEF FlapEnter
<1>3. CASE FlapUnbind(t)
  BY <1>3 DEF FlapUnbind
<1>4. CASE FlapCannotUnbind(t)
  BY <1>4 DEF FlapCannotUnbind, HotplugTail, Spawned
<1>5. CASE FlapSpawn(t)
  BY <1>5 DEF FlapSpawn, HotplugTail, Spawned
<1>6. CASE ReleaseDone(t)
  BY <1>6 DEF ReleaseDone
<1> QED
  BY <1>1, <1>2, <1>3, <1>4, <1>5, <1>6 DEF FlapStep

\* Recoveries and transient states: a recovery thread.
LEMMA RecoveryRecovererStep ==
    ASSUME NEW u \in Recoverers, TypeOK, RecoveryExclusive, TransientStateBacked, RetryBound,
           RecovererStep(u)
    PROVE  RecoveryExclusive' /\ TransientStateBacked' /\ RetryBound'
<1> USE ThreadsAssumption DEF TypeOK, RecoveryExclusive, TransientStateBacked,
  RetryBound, InRecovery, Settled, HasProxy, NoLocals, ThreadsAssumption, Goto, Return, Threads
<1>1. CASE RecBegin(u)
  BY <1>1 DEF RecBegin
<1>2. CASE RecGivesUp(u)
  BY <1>2 DEF RecGivesUp
<1>3. CASE GpioBoot(u)
  BY <1>3 DEF GpioBoot
<1>4. CASE GpioFails(u)
  BY <1>4 DEF GpioFails
<1>5. CASE GpioRebind(u)
  BY <1>5 DEF GpioRebind, Rebind
<1>6. CASE GpioDone(u)
  BY <1>6 DEF GpioDone
<1>7. CASE BackoffEnds(u)
  BY <1>7 DEF BackoffEnds
<1>8. CASE BackoffRebind(u)
  BY <1>8 DEF BackoffRebind, Rebind
<1> QED
  BY <1>1, <1>2, <1>3, <1>4, <1>5, <1>6, <1>7, <1>8 DEF RecovererStep

\* Every step keeps recoveries exclusive.
LEMMA RecoveryNext ==
    ASSUME TypeOK, RecoveryExclusive, TransientStateBacked, RetryBound, [Next]_vars
    PROVE  RecoveryExclusive' /\ TransientStateBacked' /\ RetryBound'
<1>1. CASE UNCHANGED vars
  BY <1>1 DEF vars, RecoveryExclusive,
    TransientStateBacked, RetryBound, InRecovery
<1>2. CASE Next
  BY <1>2, RecoveryEnvironment, RecoveryArrive, RecoveryProxyStep, RecoveryLockStep,
    RecoverySerialStep, RecoveryFlapStep, RecoveryRecovererStep DEF Next, HandlerStep,
    Threads
<1> QED BY <1>1, <1>2

-----------------------------------------------------------------------------
\* The BOOT pin: the environment, a poll and an ignored notification.
LEMMA BootEnvironment ==
    ASSUME "release" \notin Faults, TypeOK, RecoveryExclusive, BootHeld,
           DownloadModeHoldsBoot,
           Environment \/ GetDevices \/ HotplugIgnored
    PROVE  BootHeld' /\ DownloadModeHoldsBoot'
<1> USE ThreadsAssumption DEF TypeOK, RecoveryExclusive, BootHeld,
  DownloadModeHoldsBoot, InRecovery, Settled, HasProxy, ThreadsAssumption, Goto, Return, Threads
<1>1. CASE Unplug
  BY <1>1 DEF Unplug
<1>2. CASE Plug
  BY <1>2 DEF Plug
<1>3. CASE LoseEvent
  BY <1>3 DEF LoseEvent
<1>4. CASE ProxyDies
  BY <1>4 DEF ProxyDies
<1>5. CASE Age
  BY <1>5 DEF Age
<1>6. CASE GetDevices
  BY <1>6 DEF GetDevices, ProcessDied, EventsAgedOut
<1>7. CASE HotplugIgnored
  BY <1>7 DEF HotplugIgnored
<1> QED
  BY <1>1, <1>2, <1>3, <1>4, <1>5, <1>6, <1>7 DEF Environment

\* The BOOT pin: what starts a handler.
LEMMA BootArrive ==
    ASSUME NEW t \in Handlers, "release" \notin Faults, TypeOK, RecoveryExclusive, BootHeld,
           DownloadModeHoldsBoot,
           Arrive(t)
    PROVE  BootHeld' /\ DownloadModeHoldsBoot'
<1> USE ThreadsAssumption DEF TypeOK, RecoveryExclusive, BootHeld,
  DownloadModeHoldsBoot, InRecovery, Settled, HasProxy, ThreadsAssumption, Goto, Return, Threads
<1>1. CASE \E e \in Events : Hotplug(t, e)
  BY <1>1 DEF Hotplug, HotplugTail, Spawned
<1>2. CASE \E e \in Events : HotplugFlap(t, e)
  BY <1>2 DEF HotplugFlap
<1>3. CASE RequestStart(t)
  BY <1>3 DEF RequestStart, Request
<1>4. CASE RequestStop(t)
  BY <1>4 DEF RequestStop, Request
<1>5. CASE RequestReset(t)
  BY <1>5 DEF RequestReset, Request
<1>6. CASE RequestMonitor(t)
  BY <1>6 DEF RequestMonitor, Request
<1>7. CASE RequestRecover(t)
  BY <1>7 DEF RequestRecover, Request
<1>8. CASE RequestRelease(t)
  BY <1>8 DEF RequestRelease, Request
<1>9. CASE RequestReleaseFails(t)
  BY <1>9 DEF RequestReleaseFails, Request
<1> QED
  BY <1>1, <1>2, <1>3, <1>4, <1>5, <1>6, <1>7, <1>8, <1>9 DEF Arrive

\* The BOOT pin: stop_proxy and start_proxy.
LEMMA BootProxyStep ==
    ASSUME NEW t \in Handlers, "release" \notin Faults, TypeOK, RecoveryExclusive, BootHeld,
           DownloadModeHoldsBoot,
           ProxyStep(t)
    PROVE  BootHeld' /\ DownloadModeHoldsBoot'
<1> USE ThreadsAssumption DEF TypeOK, RecoveryExclusive, BootHeld,
  DownloadModeHoldsBoot, InRecovery, Settled, HasProxy, ThreadsAssumption, Goto, Return, Threads
<1>1. CASE Kill(t)
  BY <1>1 DEF Kill
<1>2. CASE BgStartStopped(t)
  BY <1>2 DEF BgStartStopped, Stopped
<1>3. CASE ApiStartStopped(t)
  BY <1>3 DEF ApiStartStopped, Stopped
<1>4. CASE BgStopDone(t)
  BY <1>4 DEF BgStopDone, Stopped
<1>5. CASE ApiStopDone(t)
  BY <1>5 DEF ApiStopDone, Stopped
<1>6. CASE ResetStopped(t)
  BY <1>6 DEF ResetStopped, Stopped
<1>7. CASE FlapStopped(t)
  BY <1>7 DEF FlapStopped, Stopped
<1>8. CASE SpawnProxy(t)
  BY <1>8 DEF SpawnProxy
<1>9. CASE SpawnFails(t)
  BY <1>9 DEF SpawnFails, StateAfterStart
<1>10. CASE ProxyListens(t)
  BY <1>10 DEF ProxyListens, StateAfterStart
<1>11. CASE ProxyFails(t)
  BY <1>11 DEF ProxyFails, StateAfterStart
<1> QED
  BY <1>1, <1>2, <1>3, <1>4, <1>5, <1>6, <1>7, <1>8, <1>9, <1>10, <1>11 DEF ProxyStep

\* The BOOT pin: entering a locked section.
LEMMA BootLockStep ==
    ASSUME NEW t \in Handlers, "release" \notin Faults, TypeOK, RecoveryExclusive, BootHeld,
           DownloadModeHoldsBoot,
           LockStep(t)
    PROVE  BootHeld' /\ DownloadModeHoldsBoot'
<1> USE ThreadsAssumption DEF TypeOK, RecoveryExclusive, BootHeld,
  DownloadModeHoldsBoot, InRecovery, Settled, HasProxy, ThreadsAssumption, Goto, Return, Threads
<1>1. CASE BgStart(t)
  BY <1>1 DEF BgStart, Acquire
<1>2. CASE BgStartGivesUp(t)
  BY <1>2 DEF BgStartGivesUp
<1>3. CASE BgStop(t)
  BY <1>3 DEF BgStop, Acquire
<1>4. CASE ApiStart(t)
  BY <1>4 DEF ApiStart, Acquire
<1>5. CASE ApiStop(t)
  BY <1>5 DEF ApiStop, Acquire
<1>6. CASE ResetStop(t)
  BY <1>6 DEF ResetStop, Acquire
<1>7. CASE FlapStop(t)
  BY <1>7 DEF FlapStop, Acquire
<1>8. CASE FlapNothingToStop(t)
  BY <1>8 DEF FlapNothingToStop
<1>9. CASE ResetRestart(t)
  BY <1>9 DEF ResetRestart, Acquire
<1>10. CASE ResetAlreadyRunning(t)
  BY <1>10 DEF ResetAlreadyRunning
<1> QED
  BY <1>1, <1>2, <1>3, <1>4, <1>5, <1>6, <1>7, <1>8, <1>9, <1>10 DEF LockStep

\* The BOOT pin: reset and monitor.
LEMMA BootSerialStep ==
    ASSUME NEW t \in Handlers, "release" \notin Faults, TypeOK, RecoveryExclusive, BootHeld,
           DownloadModeHoldsBoot,
           SerialStep(t)
    PROVE  BootHeld' /\ DownloadModeHoldsBoot'
<1> USE ThreadsAssumption DEF TypeOK, RecoveryExclusive, BootHeld,
  DownloadModeHoldsBoot, InRecovery, Settled, HasProxy, ThreadsAssumption, Goto, Return, Threads
<1>1. CASE ResetOpens(t)
  BY <1>1 DEF ResetOpens
<1>2. CASE ResetCannotOpen(t)
  BY <1>2 DEF ResetCannotOpen
<1>3. CASE ResetReads(t)
  BY <1>3 DEF ResetReads
<1>4. CASE ResetRaises(t)
  BY <1>4 DEF ResetRaises
<1>5. CASE MonitorOpens(t)
  BY <1>5 DEF MonitorOpens
<1>6. CASE MonitorCannotConnect(t)
  BY <1>6 DEF MonitorCannotConnect
<1>7. CASE MonitorDone(t)
  BY <1>7 DEF MonitorDone
<1> QED
  BY <1>1, <1>2, <1>3, <1>4, <1>5, <1>6, <1>7 DEF SerialStep

\* The BOOT pin: starting a recovery.
LEMMA BootFlapStep ==
    ASSUME NEW t \in Handlers, "release" \notin Faults, TypeOK, RecoveryExclusive, BootHeld,
           DownloadModeHoldsBoot,
           FlapStep(t)
    PROVE  BootHeld' /\ DownloadModeHoldsBoot'
<1> USE ThreadsAssumption DEF TypeOK, RecoveryExclusive, BootHeld,
  DownloadModeHoldsBoot, InRecovery, Settled, HasProxy, ThreadsAssumption, Goto, Return, Threads
<1>1. CASE FlapAlreadyRecovering(t)
  BY <1>1 DEF FlapAlreadyRecovering, HotplugTail, Spawned
<1>2. CASE FlapEnter(t)
  BY <1>2 DEF FlapEnter
<1>3. CASE FlapUnbind(t)
  BY <1>3 DEF FlapUnbind
<1>4. CASE FlapCannotUnbind(t)
  BY <1>4 DEF FlapCannotUnbind, HotplugTail, Spawned
<1>5. CASE FlapSpawn(t)
  BY <1>5 DEF FlapSpawn, HotplugTail, Spawned
<1>6. CASE ReleaseDone(t)
  BY <1>6 DEF ReleaseDone
<1> QED
  BY <1>1, <1>2, <1>3, <1>4, <1>5, <1>6 DEF FlapStep

\* The BOOT pin: a recovery thread.
LEMMA BootRecovererStep ==
    ASSUME NEW u \in Recoverers, "release" \notin Faults, TypeOK, RecoveryExclusive, BootHeld,
           DownloadModeHoldsBoot,
           RecovererStep(u)
    PROVE  BootHeld' /\ DownloadModeHoldsBoot'
<1> USE ThreadsAssumption DEF TypeOK, RecoveryExclusive, BootHeld,
  DownloadModeHoldsBoot, InRecovery, Settled, HasProxy, ThreadsAssumption, Goto, Return, Threads
<1>1. CASE RecBegin(u)
  BY <1>1 DEF RecBegin
<1>2. CASE RecGivesUp(u)
  BY <1>2 DEF RecGivesUp
<1>3. CASE GpioBoot(u)
  BY <1>3 DEF GpioBoot
<1>4. CASE GpioFails(u)
  BY <1>4 DEF GpioFails
<1>5. CASE GpioRebind(u)
  BY <1>5 DEF GpioRebind, Rebind
<1>6. CASE GpioDone(u)
  BY <1>6 DEF GpioDone
<1>7. CASE BackoffEnds(u)
  BY <1>7 DEF BackoffEnds
<1>8. CASE BackoffRebind(u)
  BY <1>8 DEF BackoffRebind, Rebind
<1> QED
  BY <1>1, <1>2, <1>3, <1>4, <1>5, <1>6, <1>7, <1>8 DEF RecovererStep

\* Every step keeps the BOOT pin and the state together.
LEMMA BootNext ==
    ASSUME "release" \notin Faults, TypeOK, RecoveryExclusive, BootHeld,
           DownloadModeHoldsBoot, [Next]_vars
    PROVE  BootHeld' /\ DownloadModeHoldsBoot'
<1>1. CASE UNCHANGED vars
  BY <1>1 DEF vars, BootHeld, DownloadModeHoldsBoot
<1>2. CASE Next
  BY <1>2, BootEnvironment, BootArrive, BootProxyStep, BootLockStep, BootSerialStep,
    BootFlapStep, BootRecovererStep DEF Next, HandlerStep, Threads
<1> QED BY <1>1, <1>2

-----------------------------------------------------------------------------
\* No proxy during a recovery: the environment, a poll and an ignored notification.
LEMMA NoProxyEnvironment ==
    ASSUME Requests \cap {"start", "reset"} = {}, TypeOK, LockHeld,
           ProxyRecorded, RecoveryExclusive, OnlyHotplugStarts, RecoveryAlone,
           Environment \/ GetDevices \/ HotplugIgnored
    PROVE  OnlyHotplugStarts' /\ RecoveryAlone'
<1> USE ThreadsAssumption, NamesAssumption DEF TypeOK, LockHeld, ProxyRecorded,
  RecoveryExclusive, OnlyHotplugStarts, RecoveryAlone, PastStop, InRecovery, HasProxy,
  Waiting, Locked, NoLocals, ThreadsAssumption, NamesAssumption, Goto, Return, Threads
<1>1. CASE Unplug
  BY <1>1 DEF Unplug
<1>2. CASE Plug
  BY <1>2 DEF Plug
<1>3. CASE LoseEvent
  BY <1>3 DEF LoseEvent
<1>4. CASE ProxyDies
  BY <1>4 DEF ProxyDies
<1>5. CASE Age
  BY <1>5 DEF Age
<1>6. CASE GetDevices
  BY <1>6 DEF GetDevices, ProcessDied, EventsAgedOut
<1>7. CASE HotplugIgnored
  BY <1>7 DEF HotplugIgnored
<1> QED
  BY <1>1, <1>2, <1>3, <1>4, <1>5, <1>6, <1>7 DEF Environment

\* No proxy during a recovery: what starts a handler.
LEMMA NoProxyArrive ==
    ASSUME NEW t \in Handlers, Requests \cap {"start", "reset"} = {}, TypeOK, LockHeld,
           ProxyRecorded, RecoveryExclusive, OnlyHotplugStarts, RecoveryAlone,
           Arrive(t)
    PROVE  OnlyHotplugStarts' /\ RecoveryAlone'
<1> USE ThreadsAssumption, NamesAssumption DEF TypeOK, LockHeld, ProxyRecorded,
  RecoveryExclusive, OnlyHotplugStarts, RecoveryAlone, PastStop, InRecovery, HasProxy,
  Waiting, Locked, NoLocals, ThreadsAssumption, NamesAssumption, Goto, Return, Threads
<1>1. CASE \E e \in Events : Hotplug(t, e)
  BY <1>1 DEF Hotplug, HotplugTail, Spawned
<1>2. CASE \E e \in Events : HotplugFlap(t, e)
  BY <1>2 DEF HotplugFlap
<1>3. CASE RequestStart(t)
  BY <1>3 DEF RequestStart, Request
<1>4. CASE RequestStop(t)
  BY <1>4 DEF RequestStop, Request
<1>5. CASE RequestReset(t)
  BY <1>5 DEF RequestReset, Request
<1>6. CASE RequestMonitor(t)
  BY <1>6 DEF RequestMonitor, Request
<1>7. CASE RequestRecover(t)
  BY <1>7 DEF RequestRecover, Request
<1>8. CASE RequestRelease(t)
  BY <1>8 DEF RequestRelease, Request
<1>9. CASE RequestReleaseFails(t)
  BY <1>9 DEF RequestReleaseFails, Request
<1> QED
  BY <1>1, <1>2, <1>3, <1>4, <1>5, <1>6, <1>7, <1>8, <1>9 DEF Arrive

\* No proxy during a recovery: stop_proxy and start_proxy.
LEMMA NoProxyProxyStep ==
    ASSUME NEW t \in Handlers, Requests \cap {"start", "reset"} = {}, TypeOK, LockHeld,
           ProxyRecorded, RecoveryExclusive, OnlyHotplugStarts, RecoveryAlone,
           ProxyStep(t)
    PROVE  OnlyHotplugStarts' /\ RecoveryAlone'
<1> USE ThreadsAssumption, NamesAssumption DEF TypeOK, LockHeld, ProxyRecorded,
  RecoveryExclusive, OnlyHotplugStarts, RecoveryAlone, PastStop, InRecovery, HasProxy,
  Waiting, Locked, NoLocals, ThreadsAssumption, NamesAssumption, Goto, Return, Threads
<1>1. CASE Kill(t)
  BY <1>1 DEF Kill
<1>2. CASE BgStartStopped(t)
  BY <1>2 DEF BgStartStopped, Stopped
<1>3. CASE ApiStartStopped(t)
  BY <1>3 DEF ApiStartStopped, Stopped
<1>4. CASE BgStopDone(t)
  BY <1>4 DEF BgStopDone, Stopped
<1>5. CASE ApiStopDone(t)
  BY <1>5 DEF ApiStopDone, Stopped
<1>6. CASE ResetStopped(t)
  BY <1>6 DEF ResetStopped, Stopped
<1>7. CASE FlapStopped(t)
  BY <1>7 DEF FlapStopped, Stopped
<1>8. CASE SpawnProxy(t)
  BY <1>8 DEF SpawnProxy
<1>9. CASE SpawnFails(t)
  BY <1>9 DEF SpawnFails, StateAfterStart
<1>10. CASE ProxyListens(t)
  BY <1>10 DEF ProxyListens, StateAfterStart
<1>11. CASE ProxyFails(t)
  BY <1>11 DEF ProxyFails, StateAfterStart
<1> QED
  BY <1>1, <1>2, <1>3, <1>4, <1>5, <1>6, <1>7, <1>8, <1>9, <1>10, <1>11 DEF ProxyStep

\* No proxy during a recovery: entering a locked section.
LEMMA NoProxyLockStep ==
    ASSUME NEW t \in Handlers, Requests \cap {"start", "reset"} = {}, TypeOK, LockHeld,
           ProxyRecorded, RecoveryExclusive, OnlyHotplugStarts, RecoveryAlone,
           LockStep(t)
    PROVE  OnlyHotplugStarts' /\ RecoveryAlone'
<1> USE ThreadsAssumption, NamesAssumption DEF TypeOK, LockHeld, ProxyRecorded,
  RecoveryExclusive, OnlyHotplugStarts, RecoveryAlone, PastStop, InRecovery, HasProxy,
  Waiting, Locked, NoLocals, ThreadsAssumption, NamesAssumption, Goto, Return, Threads
<1>1. CASE BgStart(t)
  BY <1>1 DEF BgStart, Acquire
<1>2. CASE BgStartGivesUp(t)
  BY <1>2 DEF BgStartGivesUp
<1>3. CASE BgStop(t)
  BY <1>3 DEF BgStop, Acquire
<1>4. CASE ApiStart(t)
  BY <1>4 DEF ApiStart, Acquire
<1>5. CASE ApiStop(t)
  BY <1>5 DEF ApiStop, Acquire
<1>6. CASE ResetStop(t)
  BY <1>6 DEF ResetStop, Acquire
<1>7. CASE FlapStop(t)
  BY <1>7 DEF FlapStop, Acquire
<1>8. CASE FlapNothingToStop(t)
  BY <1>8 DEF FlapNothingToStop
<1>9. CASE ResetRestart(t)
  BY <1>9 DEF ResetRestart, Acquire
<1>10. CASE ResetAlreadyRunning(t)
  BY <1>10 DEF ResetAlreadyRunning
<1> QED
  BY <1>1, <1>2, <1>3, <1>4, <1>5, <1>6, <1>7, <1>8, <1>9, <1>10 DEF LockStep

\* No proxy during a recovery: reset and monitor.
LEMMA NoProxySerialStep ==
    ASSUME NEW t \in Handlers, Requests \cap {"start", "reset"} = {}, TypeOK, LockHeld,
           ProxyRecorded, RecoveryExclusive, OnlyHotplugStarts, RecoveryAlone,
           SerialStep(t)
    PROVE  OnlyHotplugStarts' /\ RecoveryAlone'
<1> USE ThreadsAssumption, NamesAssumption DEF TypeOK, LockHeld, ProxyRecorded,
  RecoveryExclusive, OnlyHotplugStarts, RecoveryAlone, PastStop, InRecovery, HasProxy,
  Waiting, Locked, NoLocals, ThreadsAssumption, NamesAssumption, Goto, Return, Threads
<1>1. CASE ResetOpens(t)
  BY <1>1 DEF ResetOpens
<1>2. CASE ResetCannotOpen(t)
  BY <1>2 DEF ResetCannotOpen
<1>3. CASE ResetReads(t)
  BY <1>3 DEF ResetReads
<1>4. CASE ResetRaises(t)
  BY <1>4 DEF ResetRaises
<1>5. CASE MonitorOpens(t)
  BY <1>5 DEF MonitorOpens
<1>6. CASE MonitorCannotConnect(t)
  BY <1>6 DEF MonitorCannotConnect
<1>7. CASE MonitorDone(t)
  BY <1>7 DEF MonitorDone
<1> QED
  BY <1>1, <1>2, <1>3, <1>4, <1>5, <1>6, <1>7 DEF SerialStep

\* No proxy during a recovery: starting a recovery.
LEMMA NoProxyFlapStep ==
    ASSUME NEW t \in Handlers, Requests \cap {"start", "reset"} = {}, TypeOK, LockHeld,
           ProxyRecorded, RecoveryExclusive, OnlyHotplugStarts, RecoveryAlone,
           FlapStep(t)
    PROVE  OnlyHotplugStarts' /\ RecoveryAlone'
<1> USE ThreadsAssumption, NamesAssumption DEF TypeOK, LockHeld, ProxyRecorded,
  RecoveryExclusive, OnlyHotplugStarts, RecoveryAlone, PastStop, InRecovery, HasProxy,
  Waiting, Locked, NoLocals, ThreadsAssumption, NamesAssumption, Goto, Return, Threads
<1>1. CASE FlapAlreadyRecovering(t)
  BY <1>1 DEF FlapAlreadyRecovering, HotplugTail, Spawned
<1>2. CASE FlapEnter(t)
  BY <1>2 DEF FlapEnter
<1>3. CASE FlapUnbind(t)
  BY <1>3 DEF FlapUnbind
<1>4. CASE FlapCannotUnbind(t)
  BY <1>4 DEF FlapCannotUnbind, HotplugTail, Spawned
<1>5. CASE FlapSpawn(t)
  BY <1>5 DEF FlapSpawn, HotplugTail, Spawned
<1>6. CASE ReleaseDone(t)
  BY <1>6 DEF ReleaseDone
<1> QED
  BY <1>1, <1>2, <1>3, <1>4, <1>5, <1>6 DEF FlapStep

\* No proxy during a recovery: a recovery thread.
LEMMA NoProxyRecovererStep ==
    ASSUME NEW u \in Recoverers, Requests \cap {"start", "reset"} = {}, TypeOK, LockHeld,
           ProxyRecorded, RecoveryExclusive, OnlyHotplugStarts, RecoveryAlone,
           RecovererStep(u)
    PROVE  OnlyHotplugStarts' /\ RecoveryAlone'
<1> USE ThreadsAssumption, NamesAssumption DEF TypeOK, LockHeld, ProxyRecorded,
  RecoveryExclusive, OnlyHotplugStarts, RecoveryAlone, PastStop, InRecovery, HasProxy,
  Waiting, Locked, NoLocals, ThreadsAssumption, NamesAssumption, Goto, Return, Threads
<1>1. CASE RecBegin(u)
  BY <1>1 DEF RecBegin
<1>2. CASE RecGivesUp(u)
  BY <1>2 DEF RecGivesUp
<1>3. CASE GpioBoot(u)
  BY <1>3 DEF GpioBoot
<1>4. CASE GpioFails(u)
  BY <1>4 DEF GpioFails
<1>5. CASE GpioRebind(u)
  BY <1>5 DEF GpioRebind, Rebind
<1>6. CASE GpioDone(u)
  BY <1>6 DEF GpioDone
<1>7. CASE BackoffEnds(u)
  BY <1>7 DEF BackoffEnds
<1>8. CASE BackoffRebind(u)
  BY <1>8 DEF BackoffRebind, Rebind
<1> QED
  BY <1>1, <1>2, <1>3, <1>4, <1>5, <1>6, <1>7, <1>8 DEF RecovererStep

\* Every step keeps recoveries alone.
LEMMA NoProxyNext ==
    ASSUME Requests \cap {"start", "reset"} = {}, TypeOK, LockHeld,
           ProxyRecorded, RecoveryExclusive, OnlyHotplugStarts, RecoveryAlone, [Next]_vars
    PROVE  OnlyHotplugStarts' /\ RecoveryAlone'
<1>1. CASE UNCHANGED vars
  BY <1>1 DEF vars, OnlyHotplugStarts, RecoveryAlone,
    PastStop, InRecovery
<1>2. CASE Next
  BY <1>2, NoProxyEnvironment, NoProxyArrive, NoProxyProxyStep, NoProxyLockStep,
    NoProxySerialStep, NoProxyFlapStep, NoProxyRecovererStep DEF Next, HandlerStep,
    Threads
<1> QED BY <1>1, <1>2

-----------------------------------------------------------------------------
(* The theorems *)

\* The inductive invariant: types, the lock, the proxy process and the recoveries.
IInv ==
    /\ TypeOK /\ LockHeld /\ ProxyRecorded
    /\ RecoveryExclusive /\ TransientStateBacked /\ RetryBound

\* It holds when the portal starts serving.
LEMMA InitIInv == Init => IInv
<1> SUFFICES ASSUME Init PROVE IInv
  OBVIOUS
<1>1. TypeOK
  <2>1. loc \in [Threads -> Locals]
    BY NoLocalsType DEF Init
  <2>2. events \in [Events -> 0 .. MaxInFlight]
    BY BoundsAssumption DEF Init, BoundsAssumption
  <2>3. retries \in 0 .. FLAP_MAX_RETRIES /\ recent \in 0 .. FLAP_THRESHOLD
    BY BoundsAssumption DEF Init, BoundsAssumption
  <2>4. config \in Config
    BY SwitchesAssumption DEF Init, SwitchesAssumption
  <2>5. present \in BOOLEAN /\ running \in BOOLEAN /\ devnode \in Nodes \cup {NoNode}
    BY DEF Init
  <2> QED
    BY <2>1, <2>2, <2>3, <2>4, <2>5
    DEF Init, TypeOK, Points, Unlocked, Settled, States
<1>2. LockHeld
  BY ThreadsAssumption DEF Init, LockHeld, Locked, ThreadsAssumption
<1>3. ProxyRecorded
  BY DEF Init, ProxyRecorded
<1>4. RecoveryExclusive /\ TransientStateBacked /\ RetryBound
  BY DEF Init, RecoveryExclusive, TransientStateBacked, RetryBound, InRecovery, Settled
<1> QED BY <1>1, <1>2, <1>3, <1>4 DEF IInv

\* Every slot, whatever its configuration, its clients and its failures, keeps the
\* inductive invariant.
THEOREM SlotInvariant == Spec => []IInv
<1>1. IInv /\ [Next]_vars => IInv'
  BY TypeNext, ProxyNext, RecoveryNext DEF IInv
<1> QED BY InitIInv, <1>1, PTL DEF Spec

\* Types; in particular the retry counter of a recovery never passes
\* FLAP_MAX_RETRIES, although it is written without the lock.
THEOREM TypeCorrect == Spec => []TypeOK
<1>1. IInv => TypeOK
  BY DEF IInv
<1> QED BY SlotInvariant, <1>1, PTL

\* No proxy process is ever leaked and there are never two.
THEOREM ProxyAlwaysOwned == Spec => []ProxyOwned
<1>1. IInv => ProxyOwned
  <2> SUFFICES ASSUME IInv PROVE ProxyOwned
    OBVIOUS
  <2> USE ThreadsAssumption
      DEF IInv, TypeOK, LockHeld, ProxyRecorded, ProxyOwned, Locked, ThreadsAssumption
  <2>1. CASE \A t \in Threads : pc[t] # "listen"
    BY <2>1
  <2>2. CASE \E t \in Threads : pc[t] = "listen"
    BY <2>2
  <2> QED BY <2>1, <2>2
<1> QED BY SlotInvariant, <1>1, PTL

\* At most one recovery works on a slot, and the flag says so.
THEOREM RecoveryAlwaysExclusive == Spec => []RecoveryExclusive
<1>1. IInv => RecoveryExclusive
  BY DEF IInv
<1> QED BY SlotInvariant, <1>1, PTL

\* No transient state outlives the thread that set it.
THEOREM TransientStatesBacked == Spec => []TransientStateBacked
<1>1. IInv => TransientStateBacked
  BY DEF IInv
<1> QED BY SlotInvariant, <1>1, PTL

\* Unless a release fails half way, download_mode means that BOOT is held low.
THEOREM DownloadModeMeansBootHeld ==
    ASSUME "release" \notin Faults
    PROVE  Spec => []DownloadModeHoldsBoot
<1> DEFINE B == IInv /\ BootHeld /\ DownloadModeHoldsBoot
<1>1. Init => B
  <2> SUFFICES ASSUME Init PROVE BootHeld /\ DownloadModeHoldsBoot
    BY InitIInv
  <2> QED BY DEF Init, BootHeld, DownloadModeHoldsBoot, Settled
<1>2. B /\ [Next]_vars => B'
  BY TypeNext, ProxyNext, RecoveryNext, BootNext DEF IInv
<1>3. B => DownloadModeHoldsBoot
  OBVIOUS
<1> QED BY <1>1, <1>2, <1>3, PTL DEF Spec

\* Where clients neither start nor reset, no proxy runs while a recovery works.
THEOREM RecoveryWithoutProxy ==
    ASSUME Requests \cap {"start", "reset"} = {}
    PROVE  Spec => []RecoveryHasNoProxy
<1> DEFINE R == IInv /\ OnlyHotplugStarts /\ RecoveryAlone
<1>1. Init => R
  <2> SUFFICES ASSUME Init PROVE OnlyHotplugStarts /\ RecoveryAlone
    BY InitIInv
  <2> QED BY DEF Init, OnlyHotplugStarts, RecoveryAlone, PastStop, InRecovery, Locked
<1>2. R /\ [Next]_vars => R'
  BY TypeNext, ProxyNext, RecoveryNext, NoProxyNext DEF IInv
<1>3. R => RecoveryHasNoProxy
  BY DEF RecoveryHasNoProxy, RecoveryAlone
<1> QED BY <1>1, <1>2, <1>3, PTL DEF Spec
=============================================================================
