-------------------------------- MODULE Slot --------------------------------
(***************************************************************************)
(* One serial slot of the portal (pi/portal.py): the slot dictionary, the  *)
(* per-slot lock, the HTTP handler threads and the background threads that *)
(* work on it, and the environment they talk to (the USB port, the udev    *)
(* notifications, the proxy processes, the BOOT pin).                      *)
(*                                                                         *)
(* One action is the code of one thread from a point where it can lose the *)
(* processor for a noticeable time (waiting for the slot lock, a sleep, a  *)
(* subprocess, serial, sysfs or log I/O) to the next such point.           *)
(***************************************************************************)
EXTENDS Integers, FiniteSets

CONSTANTS
    Handlers,          \* threads of the HTTP server and the _bg_start/_bg_stop they spawn
    Recoverers,        \* background threads that run a flap recovery
    Pids,              \* process ids of proxy processes
    Nodes,             \* device nodes (/dev/ttyACM0, /dev/ttyUSB0, ...)
    NoThread, NoPid, NoNode,
    Configs,           \* what the slot's entry in slots.json may be, see Config
    FLAP_THRESHOLD, FLAP_MAX_RETRIES,
    Requests,          \* the client requests that may arrive
    Faults,            \* operations that may fail although the device is there
    InOrder,           \* udev notifications arrive one by one, in order, never lost
    MaxPlugs,          \* bound: plug and unplug steps of the environment
    MaxRequests,       \* bound: client requests
    MaxInFlight        \* bound: notifications of one kind on their way

Threads == Handlers \cup Recoverers
RequestKinds == {"start", "stop", "reset", "monitor", "recover", "release"}
FaultKinds == {"proxy", "crash", "unbind", "rebind", "hold", "release", "connect"}
\* gpio_boot: the pin is configured; usb_device: _slot_key_to_usb_device can parse
\* the slot key.
Config == [gpio_boot : BOOLEAN, usb_device : BOOLEAN]

ASSUME ThreadsAssumption ==
    /\ NoThread \notin Threads
    /\ Handlers \cap Recoverers = {}
ASSUME NamesAssumption ==
    /\ NoPid \notin Pids
    /\ NoNode \notin Nodes
    /\ Nodes \cap {"unplugged", "unbound"} = {}
ASSUME BoundsAssumption ==
    /\ FLAP_THRESHOLD \in Nat /\ FLAP_THRESHOLD >= 2
    /\ FLAP_MAX_RETRIES \in Nat
    /\ MaxPlugs \in Nat /\ MaxRequests \in Nat
    /\ MaxInFlight \in Nat \ {0}
ASSUME SwitchesAssumption ==
    /\ Configs \subseteq Config
    /\ InOrder \in BOOLEAN
    /\ Requests \subseteq RequestKinds
    /\ Faults \subseteq FaultKinds

VARIABLES
    \* the slot dictionary
    present, devnode, running, pid, flapping, recovering, retries, state,
    recent,            \* events in the window, counted up to FLAP_THRESHOLD
    quiet,             \* the last event is at least FLAP_COOLDOWN_S old
    \* the threads
    lock,              \* who holds slot["_lock"]
    pc, loc,           \* where each thread is, and its local variables
    \* the environment
    config,            \* the slot's entry in slots.json, read once by load_config
    usb,               \* "unplugged", "unbound", or the device node it is enumerated as
    events,            \* udev notifications on their way: how many of each
    live,              \* proxy processes that exist
    bootLow,           \* the BOOT pin is driven low
    plugs, requests    \* how much of the bounds is used

deviceVars == <<present, devnode>>
proxyVars == <<running, pid>>
flapVars == <<flapping, recovering, retries>>
windowVars == <<recent, quiet>>
slotVars == <<deviceVars, proxyVars, flapVars, state, windowVars>>
threadVars == <<lock, pc, loc>>
boundVars == <<config, plugs, requests>>
envVars == <<usb, events, live, bootLow, boundVars>>
vars == <<slotVars, threadVars, envVars>>

States == {"absent", "idle", "resetting", "monitoring", "flapping",
           "recovering", "download_mode"}
Events == [act : {"add", "remove"}, node : Nodes]

\* Points where a thread waits for the slot lock, and points where it holds it.
Waiting == {"bg_start", "bg_stop", "api_start", "api_stop", "reset_stop",
            "reset_restart", "flap_stop"}
Locked == {"kill", "clear", "spawn", "listen"}
Unlocked == {"idle", "reset_open", "reset_read", "mon_open", "mon_read",
             "flap_enter", "flap_unbind", "flap_spawn", "rel_en",
             "rec_begin", "rec_cool", "rec_rebind", "rec_done"}
Points == Waiting \cup Locked \cup Unlocked

\* Local variables: the caller of start_proxy/stop_proxy, the hotplug action and
\* device node, the Popen object, and the retry number of a recovery thread.
Locals == [op : Waiting \cup {"none"}, act : {"add", "remove", "none"},
           node : Nodes \cup {NoNode}, proc : Pids \cup {NoPid},
           retry : 0 .. FLAP_MAX_RETRIES]
NoLocals == [op |-> "none", act |-> "none", node |-> NoNode, proc |-> NoPid,
             retry |-> 0]

TypeOK ==
    /\ config \in Config
    /\ present \in BOOLEAN /\ running \in BOOLEAN /\ flapping \in BOOLEAN
    /\ recovering \in BOOLEAN /\ quiet \in BOOLEAN /\ bootLow \in BOOLEAN
    /\ devnode \in Nodes \cup {NoNode}
    /\ pid \in Pids \cup {NoPid}
    /\ retries \in 0 .. FLAP_MAX_RETRIES
    /\ state \in States
    /\ recent \in 0 .. FLAP_THRESHOLD
    /\ lock \in Threads \cup {NoThread}
    /\ pc \in [Threads -> Points]
    /\ loc \in [Threads -> Locals]
    /\ usb \in Nodes \cup {"unplugged", "unbound"}
    /\ events \in [Events -> 0 .. MaxInFlight]
    /\ live \in SUBSET Pids
    /\ plugs \in Nat /\ requests \in Nat

-----------------------------------------------------------------------------
(* Helpers *)

\* STATE_IDLE if slot["present"] else STATE_ABSENT
Settled == IF present THEN "idle" ELSE "absent"

\* slot["running"] and slot["pid"]
HasProxy == running /\ pid # NoPid

Goto(t, p) == pc' = [pc EXCEPT ![t] = p]

Return(t) == /\ pc' = [pc EXCEPT ![t] = "idle"]
             /\ loc' = [loc EXCEPT ![t] = NoLocals]

\* A notification beyond MaxInFlight of its kind counts as one of the lost ones.
Emit(a, n) ==
    events' = [events EXCEPT ![[act |-> a, node |-> n]] =
                  IF @ < MaxInFlight THEN @ + 1 ELSE @]

Consume(e) == /\ events[e] > 0
              /\ events' = [events EXCEPT ![e] = @ - 1]

\* The portal starts serving after scan_existing_devices: a device that is there
\* is present, with its proxy running unless start_proxy failed.
Init ==
    /\ config \in Configs
    /\ usb \in Nodes \cup {"unplugged"}
    /\ present = (usb # "unplugged")
    /\ devnode = IF present THEN usb ELSE NoNode
    /\ state = Settled
    /\ running \in IF "proxy" \in Faults THEN {FALSE, present} ELSE {present}
    /\ pid \in Pids \cup {NoPid} /\ (running <=> pid # NoPid)
    /\ live = IF running THEN {pid} ELSE {}
    /\ flapping = FALSE /\ recovering = FALSE /\ retries = 0
    /\ recent = 0 /\ quiet = TRUE
    /\ lock = NoThread
    /\ pc = [t \in Threads |-> "idle"]
    /\ loc = [t \in Threads |-> NoLocals]
    /\ events = [e \in Events |-> 0]
    /\ bootLow = FALSE
    /\ plugs = 0 /\ requests = 0

-----------------------------------------------------------------------------
(* The environment *)

Calm == InOrder => \A e \in Events : events[e] = 0

\* The cable is pulled, or the firmware drops off the bus.
Unplug ==
    /\ usb # "unplugged" /\ plugs < MaxPlugs /\ Calm
    /\ usb' = "unplugged" /\ plugs' = plugs + 1
    /\ IF usb \in Nodes THEN Emit("remove", usb) ELSE UNCHANGED events
    /\ UNCHANGED <<slotVars, threadVars, live, bootLow, requests, config>>

\* The device enumerates, as a device node of the kernel's choice.
Plug ==
    /\ usb = "unplugged" /\ plugs < MaxPlugs /\ Calm
    /\ plugs' = plugs + 1
    /\ \E n \in Nodes : usb' = n /\ Emit("add", n)
    /\ UNCHANGED <<slotVars, threadVars, live, bootLow, requests, config>>

\* curl -m 10 ... || true: a notification that cannot be delivered is dropped.
LoseEvent ==
    /\ ~InOrder
    /\ \E e \in Events : Consume(e)
    /\ UNCHANGED <<slotVars, threadVars, usb, live, bootLow, boundVars>>

\* A proxy process ends by itself.
ProxyDies ==
    /\ "crash" \in Faults
    /\ \E p \in live : live' = live \ {p}
    /\ UNCHANGED <<slotVars, threadVars, usb, events, bootLow, boundVars>>

\* Time passes: events leave the window, the slot has been quiet for long enough.
Age ==
    /\ recent > 0
    /\ recent' \in 0 .. recent
    /\ quiet' \in {quiet, TRUE}
    /\ UNCHANGED <<deviceVars, proxyVars, flapVars, state, threadVars, envVars>>

-----------------------------------------------------------------------------
(* POST /api/hotplug *)

\* The end of _handle_hotplug for notification (a, n), with flap and st the values
\* of slot["flapping"] and slot["state"] at that point: record the device.  After a
\* manual recovery request (a = "none") there is nothing to record.
HotplugTail(a, n, flap, st) ==
    /\ present' = IF a = "none" THEN present ELSE a = "add"
    /\ devnode' = IF a = "add" THEN n ELSE devnode
    /\ state' = IF flap \/ a = "none" THEN st ELSE IF a = "add" THEN "idle" ELSE "absent"

\* ... and spawn _bg_start or _bg_stop: the handler thread stands for the thread
\* it spawns.
Spawned(a, flap) ==
    IF a = "add" /\ ~flap THEN "bg_start"
    ELSE IF a = "remove" /\ running THEN "bg_stop"
    ELSE "idle"

\* "ignored (recovery in progress)"
HotplugIgnored ==
    /\ recovering
    /\ \E e \in Events : Consume(e)
    /\ UNCHANGED <<slotVars, threadVars, usb, live, bootLow, boundVars>>

\* Flap detection: count the event, clear an old flap after a quiet period, detect
\* a new one.
Counted == IF recent < FLAP_THRESHOLD THEN recent + 1 ELSE recent
FlapCleared == flapping /\ (Counted < 2 \/ quiet)
StillFlapping == flapping /\ ~FlapCleared

Hotplug(t, e) ==
    /\ pc[t] = "idle" /\ ~recovering
    /\ Consume(e)
    /\ StillFlapping \/ Counted < FLAP_THRESHOLD
    /\ recent' = Counted /\ quiet' = FALSE
    /\ flapping' = StillFlapping
    /\ HotplugTail(e.act, e.node, StillFlapping,
                   IF FlapCleared THEN Settled ELSE state)
    /\ Goto(t, Spawned(e.act, StillFlapping))
    /\ UNCHANGED <<proxyVars, recovering, retries, lock, loc, usb, live, bootLow,
                   boundVars>>

HotplugFlap(t, e) ==
    /\ pc[t] = "idle" /\ ~recovering
    /\ Consume(e)
    /\ ~StillFlapping /\ Counted >= FLAP_THRESHOLD
    /\ recent' = Counted /\ quiet' = FALSE
    /\ flapping' = TRUE /\ state' = "flapping"
    /\ Goto(t, "flap_enter")
    /\ loc' = [loc EXCEPT ![t] = [NoLocals EXCEPT !.act = e.act, !.node = e.node]]
    /\ UNCHANGED <<deviceVars, proxyVars, recovering, retries, lock, usb, live,
                   bootLow, boundVars>>

-----------------------------------------------------------------------------
(* stop_proxy and start_proxy: the caller holds the lock and loc[t].op names it. *)

\* _is_process_alive, then _stop_pid
Kill(t) ==
    /\ pc[t] = "kill"
    /\ live' = live \ {pid}
    /\ Goto(t, "clear")
    /\ UNCHANGED <<slotVars, lock, loc, usb, events, bootLow, boundVars>>

\* The rest of stop_proxy, and its caller up to the next call of start_proxy or
\* the release of the lock.
Stopped(t, o) ==
    /\ pc[t] = "clear" /\ loc[t].op = o
    /\ running' = FALSE /\ pid' = NoPid
    /\ UNCHANGED <<flapVars, windowVars, envVars>>

\* Thread t calls start_proxy, which reads slot["devnode"].
BgStartStopped(t) ==
    /\ Stopped(t, "bg_start")
    /\ Goto(t, "spawn")
    /\ loc' = [loc EXCEPT ![t].node = devnode]
    /\ UNCHANGED <<deviceVars, state, lock>>

ApiStartStopped(t) ==
    /\ Stopped(t, "api_start")
    /\ present' = TRUE /\ devnode' = loc[t].node
    /\ Goto(t, "spawn")
    /\ UNCHANGED <<state, lock, loc>>

BgStopDone(t) ==
    /\ Stopped(t, "bg_stop")
    /\ lock' = NoThread /\ Return(t)
    /\ UNCHANGED <<deviceVars, state>>

ApiStopDone(t) ==
    /\ Stopped(t, "api_stop")
    /\ state' = Settled
    /\ lock' = NoThread /\ Return(t)
    /\ UNCHANGED deviceVars

ResetStopped(t) ==
    /\ Stopped(t, "reset_stop")
    /\ state' = "resetting"
    /\ lock' = NoThread /\ Goto(t, "reset_open")
    /\ UNCHANGED <<deviceVars, loc>>

FlapStopped(t) ==
    /\ Stopped(t, "flap_stop")
    /\ lock' = NoThread /\ Goto(t, "flap_unbind")
    /\ UNCHANGED <<deviceVars, state, loc>>

\* What the caller makes of slot["state"] when start_proxy returns ok.
StateAfterStart(o, ok) ==
    IF ok THEN "idle"
    ELSE IF o = "api_start" /\ state \notin {"idle", "flapping"} THEN "idle"
    ELSE IF o = "reset_restart" /\ state = "resetting" THEN Settled
    ELSE state

\* wait_for_device, then Popen
SpawnProxy(t) ==
    /\ pc[t] = "spawn" /\ loc[t].node = usb
    /\ \E p \in Pids \ (live \cup {pid}) :
          /\ live' = live \cup {p}
          /\ loc' = [loc EXCEPT ![t].proc = p]
    /\ Goto(t, "listen")
    /\ UNCHANGED <<slotVars, lock, usb, events, bootLow, boundVars>>

\* Device not ready, or no proxy executable, or Popen fails.
SpawnFails(t) ==
    /\ pc[t] = "spawn" /\ (loc[t].node # usb \/ "proxy" \in Faults)
    /\ state' = StateAfterStart(loc[t].op, FALSE)
    /\ lock' = NoThread /\ Return(t)
    /\ UNCHANGED <<deviceVars, proxyVars, flapVars, windowVars, envVars>>

\* The process is still alive after 0.5 s and its port is listening.
ProxyListens(t) ==
    /\ pc[t] = "listen" /\ loc[t].proc \in live
    /\ running' = TRUE /\ pid' = loc[t].proc
    /\ state' = StateAfterStart(loc[t].op, TRUE)
    /\ lock' = NoThread /\ Return(t)
    /\ UNCHANGED <<deviceVars, flapVars, windowVars, envVars>>

\* It exited, or the port never comes up and _stop_pid ends it.
ProxyFails(t) ==
    /\ pc[t] = "listen" /\ (loc[t].proc \notin live \/ "proxy" \in Faults)
    /\ live' = live \ {loc[t].proc}
    /\ state' = StateAfterStart(loc[t].op, FALSE)
    /\ lock' = NoThread /\ Return(t)
    /\ UNCHANGED <<deviceVars, proxyVars, flapVars, windowVars, usb, events,
                   bootLow, boundVars>>

-----------------------------------------------------------------------------
(* Entering a section that the slot lock protects. *)

\* Thread t, waiting at w for the lock, gets it and goes on at p.  start_proxy reads
\* slot["devnode"], which /api/start has set to its own loc[t].node.
Acquire(t, w, p) ==
    /\ pc[t] = w /\ lock = NoThread
    /\ lock' = t
    /\ pc' = [pc EXCEPT ![t] = p]
    /\ loc' = [loc EXCEPT ![t].op = w,
                         ![t].node = IF p = "spawn" /\ w # "api_start" THEN devnode ELSE @]
    /\ UNCHANGED envVars

\* Mutant: _bg_start does not look for a recovery once it has the lock.
BgStartUnchecked(t) ==
    /\ Acquire(t, "bg_start", IF HasProxy THEN "kill" ELSE "spawn")
    /\ UNCHANGED slotVars

BgStart(t) ==
    /\ ~flapping /\ ~recovering
    /\ Acquire(t, "bg_start", IF HasProxy THEN "kill" ELSE "spawn")
    /\ UNCHANGED slotVars

\* Mutant: the early return keeps the lock.
BgStartKeepsLock(t) ==
    /\ pc[t] = "bg_start" /\ lock = NoThread
    /\ flapping \/ recovering
    /\ lock' = t /\ Return(t)
    /\ UNCHANGED <<slotVars, envVars>>

\* "Recovery in progress"
BgStartGivesUp(t) ==
    /\ pc[t] = "bg_start" /\ lock = NoThread
    /\ flapping \/ recovering
    /\ Return(t)
    /\ UNCHANGED <<slotVars, lock, envVars>>

BgStop(t) == Acquire(t, "bg_stop", "kill") /\ UNCHANGED slotVars

ApiStart(t) ==
    /\ Acquire(t, "api_start", IF HasProxy THEN "kill" ELSE "spawn")
    /\ IF HasProxy THEN UNCHANGED deviceVars
                   ELSE present' = TRUE /\ devnode' = loc[t].node
    /\ UNCHANGED <<proxyVars, flapVars, state, windowVars>>

ApiStop(t) == Acquire(t, "api_stop", "kill") /\ UNCHANGED slotVars

ResetStop(t) == Acquire(t, "reset_stop", "kill") /\ UNCHANGED slotVars

FlapStop(t) ==
    /\ HasProxy
    /\ Acquire(t, "flap_stop", "kill")
    /\ UNCHANGED slotVars

FlapNothingToStop(t) ==
    /\ pc[t] = "flap_stop" /\ lock = NoThread /\ ~HasProxy
    /\ Goto(t, "flap_unbind")
    /\ UNCHANGED <<slotVars, lock, loc, envVars>>

\* Mutant: serial_reset restarts the proxy without "if not running".
ResetRestartAlways(t) ==
    /\ Acquire(t, "reset_restart", "spawn")
    /\ UNCHANGED slotVars

ResetRestart(t) ==
    /\ ~running
    /\ Acquire(t, "reset_restart", "spawn")
    /\ UNCHANGED slotVars

ResetAlreadyRunning(t) ==
    /\ pc[t] = "reset_restart" /\ lock = NoThread /\ running
    /\ state' = IF state = "resetting" THEN Settled ELSE state
    /\ Return(t)
    /\ UNCHANGED <<deviceVars, proxyVars, flapVars, windowVars, lock, envVars>>

-----------------------------------------------------------------------------
(* serial_reset and serial_monitor outside the lock *)

ResetOpens(t) ==
    /\ pc[t] = "reset_open" /\ usb = loc[t].node
    /\ Goto(t, "reset_read")
    /\ UNCHANGED <<slotVars, lock, loc, envVars>>

ResetCannotOpen(t) ==
    /\ pc[t] = "reset_open" /\ usb # loc[t].node
    /\ state' = Settled
    /\ Return(t)
    /\ UNCHANGED <<deviceVars, proxyVars, flapVars, windowVars, lock, envVars>>

\* Pulse, read the boot output, close, sleep.
ResetReads(t) ==
    /\ pc[t] = "reset_read"
    /\ Goto(t, "reset_restart")
    /\ UNCHANGED <<slotVars, lock, loc, envVars>>

\* pyserial raises when the device has gone or another process reads the port;
\* nothing catches it and nothing after it runs.
ResetRaises(t) ==
    /\ pc[t] = "reset_read" /\ (usb # loc[t].node \/ live # {})
    /\ Return(t)
    /\ UNCHANGED <<slotVars, lock, envVars>>

MonitorOpens(t) ==
    /\ pc[t] = "mon_open" /\ live # {}
    /\ state' = "monitoring"
    /\ Goto(t, "mon_read")
    /\ UNCHANGED <<deviceVars, proxyVars, flapVars, windowVars, lock, loc, envVars>>

MonitorCannotConnect(t) ==
    /\ pc[t] = "mon_open" /\ (live = {} \/ "connect" \in Faults)
    /\ Return(t)
    /\ UNCHANGED <<slotVars, lock, envVars>>

\* Mutant: serial_monitor without the finally clause.
MonitorDoneWithoutFinally(t) ==
    /\ pc[t] = "mon_read"
    /\ Return(t)
    /\ UNCHANGED <<slotVars, lock, envVars>>

\* Match, timeout or exception: the finally clause runs.
MonitorDone(t) ==
    /\ pc[t] = "mon_read"
    /\ state' = Settled
    /\ Return(t)
    /\ UNCHANGED <<deviceVars, proxyVars, flapVars, windowVars, lock, envVars>>

-----------------------------------------------------------------------------
(* Flap recovery *)

\* _start_flap_recovery finds a recovery in progress; its caller goes on.
FlapAlreadyRecovering(t) ==
    /\ pc[t] = "flap_enter" /\ recovering
    /\ HotplugTail(loc[t].act, loc[t].node, flapping, state)
    /\ Goto(t, Spawned(loc[t].act, flapping))
    /\ loc' = [loc EXCEPT ![t] = NoLocals]
    /\ UNCHANGED <<proxyVars, flapVars, windowVars, lock, envVars>>

\* Mutant: _start_flap_recovery does not look at _recovering.
FlapEnterUnchecked(t) ==
    /\ pc[t] = "flap_enter"
    /\ recovering' = TRUE /\ state' = "recovering"
    /\ Goto(t, "flap_stop")
    /\ UNCHANGED <<deviceVars, proxyVars, flapping, retries, windowVars, lock, loc,
                   envVars>>

FlapEnter(t) ==
    /\ pc[t] = "flap_enter" /\ ~recovering
    /\ recovering' = TRUE /\ state' = "recovering"
    /\ Goto(t, "flap_stop")
    /\ UNCHANGED <<deviceVars, proxyVars, flapping, retries, windowVars, lock, loc,
                   envVars>>

\* _usb_unbind; its result is ignored.
FlapUnbind(t) ==
    /\ pc[t] = "flap_unbind" /\ config.usb_device
    /\ \/ /\ usb \in Nodes
          /\ usb' = "unbound" /\ Emit("remove", usb)
       \/ /\ usb \notin Nodes \/ "unbind" \in Faults
          /\ UNCHANGED <<usb, events>>
    /\ Goto(t, "flap_spawn")
    /\ UNCHANGED <<slotVars, lock, loc, live, bootLow, boundVars>>

\* "cannot determine USB device from slot_key"
FlapCannotUnbind(t) ==
    /\ pc[t] = "flap_unbind" /\ ~config.usb_device
    /\ recovering' = FALSE
    /\ HotplugTail(loc[t].act, loc[t].node, flapping, "flapping")
    /\ Goto(t, Spawned(loc[t].act, flapping))
    /\ loc' = [loc EXCEPT ![t] = NoLocals]
    /\ UNCHANGED <<proxyVars, flapping, retries, windowVars, lock, envVars>>

\* Start thread u for the recovery; the caller goes on.
FlapSpawn(t) ==
    /\ pc[t] = "flap_spawn"
    /\ HotplugTail(loc[t].act, loc[t].node, flapping, state)
    /\ \E u \in Recoverers :
          /\ pc[u] = "idle"
          /\ pc' = [pc EXCEPT ![t] = Spawned(loc[t].act, flapping), ![u] = "rec_begin"]
    /\ loc' = [loc EXCEPT ![t] = NoLocals]
    /\ UNCHANGED <<proxyVars, flapVars, windowVars, lock, envVars>>

\* Mutant: the retry limit is off by one.
RecBeginOffByOne(u) ==
    /\ pc[u] = "rec_begin"
    /\ config.gpio_boot \/ retries <= FLAP_MAX_RETRIES
    /\ Goto(u, "rec_cool")
    /\ loc' = [loc EXCEPT ![u].retry = retries]
    /\ UNCHANGED <<slotVars, lock, envVars>>

\* _recover_with_gpio and _recover_without_gpio up to the cooldown
RecBegin(u) ==
    /\ pc[u] = "rec_begin"
    /\ config.gpio_boot \/ retries < FLAP_MAX_RETRIES
    /\ Goto(u, "rec_cool")
    /\ loc' = [loc EXCEPT ![u].retry = retries]
    /\ UNCHANGED <<slotVars, lock, envVars>>

RecGivesUp(u) ==
    /\ pc[u] = "rec_begin" /\ ~config.gpio_boot /\ retries >= FLAP_MAX_RETRIES
    /\ recovering' = FALSE /\ state' = "flapping"
    /\ Return(u)
    /\ UNCHANGED <<deviceVars, proxyVars, flapping, retries, windowVars, lock,
                   envVars>>

\* _usb_rebind; its result is ignored.
Rebind ==
    \/ /\ usb = "unbound"
       /\ \E n \in Nodes : usb' = n /\ Emit("add", n)
    \/ /\ usb # "unbound" \/ "rebind" \in Faults
       /\ UNCHANGED <<usb, events>>

\* Hold BOOT low.  The EN pulse only resets the device.
GpioBoot(u) ==
    /\ pc[u] = "rec_cool" /\ config.gpio_boot
    /\ bootLow' = TRUE
    /\ Goto(u, "rec_rebind")
    /\ UNCHANGED <<slotVars, lock, loc, usb, events, live, boundVars>>

\* Mutant: the error path of the BOOT pin forgets _recovering.
GpioFailsStillRecovering(u) ==
    /\ pc[u] = "rec_cool" /\ config.gpio_boot /\ "hold" \in Faults
    /\ state' = "flapping"
    /\ Return(u)
    /\ UNCHANGED <<deviceVars, proxyVars, flapVars, windowVars, lock, envVars>>

GpioFails(u) ==
    /\ pc[u] = "rec_cool" /\ config.gpio_boot /\ "hold" \in Faults
    /\ recovering' = FALSE /\ state' = "flapping"
    /\ Return(u)
    /\ UNCHANGED <<deviceVars, proxyVars, flapping, retries, windowVars, lock,
                   envVars>>

GpioRebind(u) ==
    /\ pc[u] = "rec_rebind" /\ config.gpio_boot
    /\ Rebind
    /\ Goto(u, "rec_done")
    /\ UNCHANGED <<slotVars, lock, loc, live, bootLow, boundVars>>

\* After time.sleep(2), "Let kernel enumerate".
GpioDone(u) ==
    /\ pc[u] = "rec_done" /\ Calm
    /\ recovering' = FALSE /\ flapping' = FALSE /\ retries' = 0
    /\ state' = "download_mode"
    /\ Return(u)
    /\ UNCHANGED <<deviceVars, proxyVars, windowVars, lock, envVars>>

\* Without GPIO: the slot leaves recovery, then USB is rebound.
BackoffEnds(u) ==
    /\ pc[u] = "rec_cool" /\ ~config.gpio_boot
    /\ retries' = loc[u].retry + 1
    /\ recovering' = FALSE /\ flapping' = FALSE /\ recent' = 0 /\ state' = "idle"
    /\ Goto(u, "rec_rebind")
    /\ UNCHANGED <<deviceVars, proxyVars, quiet, lock, loc, envVars>>

BackoffRebind(u) ==
    /\ pc[u] = "rec_rebind" /\ ~config.gpio_boot
    /\ Rebind
    /\ Return(u)
    /\ UNCHANGED <<slotVars, lock, live, bootLow, boundVars>>

\* Mutant: the release leaves the slot in download_mode.
ReleaseKeepsState(t) ==
    /\ pc[t] = "rel_en"
    /\ retries' = 0
    /\ Return(t)
    /\ UNCHANGED <<deviceVars, proxyVars, flapping, recovering, state, windowVars,
                   lock, envVars>>

\* The end of _release_slot_gpio, after the EN pulse.
ReleaseDone(t) ==
    /\ pc[t] = "rel_en"
    /\ state' = "idle" /\ retries' = 0
    /\ Return(t)
    /\ UNCHANGED <<deviceVars, proxyVars, flapping, recovering, windowVars, lock,
                   envVars>>

-----------------------------------------------------------------------------
(* Client requests *)

Request(t, kind, p, l) ==
    /\ kind \in Requests /\ requests < MaxRequests
    /\ requests' = requests + 1
    /\ pc[t] = "idle" /\ Calm
    /\ Goto(t, p)
    /\ loc' = [loc EXCEPT ![t] = l]
    /\ UNCHANGED <<deviceVars, proxyVars, recovering, state, windowVars, lock, usb,
                   events, live, plugs, config>>

\* POST /api/start names a device node.
RequestStart(t) ==
    /\ \E n \in Nodes : Request(t, "start", "api_start", [NoLocals EXCEPT !.node = n])
    /\ UNCHANGED <<flapping, retries, bootLow>>

RequestStop(t) ==
    /\ Request(t, "stop", "api_stop", NoLocals)
    /\ UNCHANGED <<flapping, retries, bootLow>>

RequestReset(t) ==
    /\ devnode # NoNode /\ present
    /\ Request(t, "reset", "reset_stop", [NoLocals EXCEPT !.node = devnode])
    /\ UNCHANGED <<flapping, retries, bootLow>>

RequestMonitor(t) ==
    /\ running
    /\ Request(t, "monitor", "mon_open", NoLocals)
    /\ UNCHANGED <<flapping, retries, bootLow>>

RequestRecover(t) ==
    /\ Request(t, "recover", "flap_enter", NoLocals)
    /\ retries' = 0 /\ flapping' = TRUE
    /\ UNCHANGED bootLow

\* The check of slot["state"] and the release of the BOOT pin follow each other
\* without a wait.
RequestRelease(t) ==
    /\ config.gpio_boot /\ state = "download_mode"
    /\ bootLow' = FALSE
    /\ Request(t, "release", "rel_en", NoLocals)
    /\ UNCHANGED <<flapping, retries>>

\* _gpio_set raises, before or after it has given up the pin.
RequestReleaseFails(t) ==
    /\ config.gpio_boot /\ state = "download_mode" /\ "release" \in Faults
    /\ bootLow' \in {bootLow, FALSE}
    /\ Request(t, "release", "idle", NoLocals)
    /\ UNCHANGED <<flapping, retries>>

\* GET /api/devices: _refresh_slot_health, then _slot_info.
ProcessDied == HasProxy /\ pid \notin live
EventsAgedOut == flapping /\ ~recovering /\ recent < FLAP_THRESHOLD

GetDevices ==
    /\ running' = (running /\ ~ProcessDied)
    /\ pid' = IF ProcessDied THEN NoPid ELSE pid
    /\ flapping' = (flapping /\ ~EventsAgedOut)
    /\ state' = IF ProcessDied \/ EventsAgedOut THEN Settled ELSE state
    /\ UNCHANGED <<deviceVars, recovering, retries, windowVars, threadVars, envVars>>

-----------------------------------------------------------------------------
(* The specification *)

Environment == Unplug \/ Plug \/ LoseEvent \/ ProxyDies \/ Age

\* What starts a handler thread.
Arrive(t) ==
    \/ \E e \in Events : Hotplug(t, e) \/ HotplugFlap(t, e)
    \/ RequestStart(t) \/ RequestStop(t) \/ RequestReset(t)
    \/ RequestMonitor(t) \/ RequestRecover(t)
    \/ RequestRelease(t) \/ RequestReleaseFails(t)

\* What a handler thread does until it is done.
ProxyStep(t) ==
    \/ Kill(t)
    \/ BgStartStopped(t) \/ ApiStartStopped(t) \/ BgStopDone(t) \/ ApiStopDone(t)
    \/ ResetStopped(t) \/ FlapStopped(t)
    \/ SpawnProxy(t) \/ SpawnFails(t) \/ ProxyListens(t) \/ ProxyFails(t)

LockStep(t) ==
    \/ BgStart(t) \/ BgStartGivesUp(t) \/ BgStop(t) \/ ApiStart(t) \/ ApiStop(t)
    \/ ResetStop(t) \/ FlapStop(t) \/ FlapNothingToStop(t)
    \/ ResetRestart(t) \/ ResetAlreadyRunning(t)

SerialStep(t) ==
    \/ ResetOpens(t) \/ ResetCannotOpen(t) \/ ResetReads(t) \/ ResetRaises(t)
    \/ MonitorOpens(t) \/ MonitorCannotConnect(t) \/ MonitorDone(t)

FlapStep(t) ==
    \/ FlapAlreadyRecovering(t) \/ FlapEnter(t) \/ FlapUnbind(t)
    \/ FlapCannotUnbind(t) \/ FlapSpawn(t)
    \/ ReleaseDone(t)

HandlerStep(t) == ProxyStep(t) \/ LockStep(t) \/ SerialStep(t) \/ FlapStep(t)

RecovererStep(u) ==
    \/ RecBegin(u) \/ RecGivesUp(u)
    \/ GpioBoot(u) \/ GpioFails(u) \/ GpioRebind(u) \/ GpioDone(u)
    \/ BackoffEnds(u) \/ BackoffRebind(u)

Next ==
    \/ Environment \/ GetDevices \/ HotplugIgnored
    \/ \E t \in Handlers : Arrive(t) \/ HandlerStep(t)
    \/ \E u \in Recoverers : RecovererStep(u)

Spec == Init /\ [][Next]_vars

\* Threads that can run do run, since every wait in the code but the one for the
\* lock has a time limit; and a thread that waits for a lock that is released
\* again and again gets it.
FairSpec ==
    /\ Spec
    /\ \A t \in Handlers : WF_vars(HandlerStep(t)) /\ SF_vars(LockStep(t))
    /\ \A u \in Recoverers : WF_vars(RecovererStep(u))
    /\ WF_vars(HotplugIgnored)

-----------------------------------------------------------------------------
(* Properties *)

\* Thread t is inside a recovery: between setting and clearing slot["_recovering"].
InRecovery(t) ==
    \/ pc[t] \in {"flap_stop", "flap_unbind", "flap_spawn", "rec_begin", "rec_cool",
                  "rec_done"}
    \/ pc[t] \in {"kill", "clear"} /\ loc[t].op = "flap_stop"
    \/ pc[t] = "rec_rebind" /\ config.gpio_boot

\* Nothing runs and no notification is on its way.
Quiescent == /\ \A t \in Threads : pc[t] = "idle"
             /\ \A e \in Events : events[e] = 0

(* The inductive invariant behind the properties below *)

\* The holder of the lock is the one thread inside a locked section.
LockHeld == \A t \in Threads : pc[t] \in Locked <=> lock = t

\* What the lock holder may rely on at each point of stop_proxy and start_proxy;
\* whatever exists otherwise is recorded in the slot.
ProxyRecorded ==
    /\ running <=> pid # NoPid
    /\ (\A t \in Threads : pc[t] # "listen") => (\A p \in live : running /\ pid = p)
    /\ \A t \in Threads :
          /\ pc[t] = "clear" => live = {}
          /\ pc[t] = "spawn" => live = {} /\ ~running
          /\ pc[t] = "listen" => ~running /\ live \subseteq {loc[t].proc}

\* A recovery that has set the BOOT pin still has it, and a slot is not in
\* download_mode while it recovers: no release can get in between.
BootHeld ==
    /\ recovering => state # "download_mode"
    /\ \A u \in Threads :
          /\ pc[u] = "rec_done" => config.gpio_boot
          /\ pc[u] \in {"rec_rebind", "rec_done"} /\ config.gpio_boot => bootLow

\* Thread t is inside a recovery that has stopped the proxy.
PastStop(t) == InRecovery(t) /\ pc[t] \notin {"flap_stop", "kill", "clear"}

\* Without /api/start and /api/serial/reset, start_proxy is called by _bg_start only.
OnlyHotplugStarts ==
    \A t \in Threads :
        /\ pc[t] \notin {"api_start", "reset_stop", "reset_open", "reset_read",
                         "reset_restart"}
        /\ pc[t] \in Locked => loc[t].op \in {"bg_start", "bg_stop", "api_stop", "flap_stop"}

\* Past its stop, a recovery shares the slot with stopping threads at most.
RecoveryAlone ==
    \A t \in Threads : PastStop(t) =>
        /\ live = {} /\ ~running
        /\ \A h \in Threads : pc[h] \in Locked =>
              pc[h] \in {"kill", "clear"} /\ loc[h].op \in {"bg_stop", "api_stop"}

\* A recovery thread that waits out the cooldown has an attempt left.
RetryBound ==
    \A u \in Threads :
        pc[u] = "rec_cool" /\ ~config.gpio_boot => loc[u].retry < FLAP_MAX_RETRIES

\* Whatever starts, stops, resets, recoveries, polls and crashes do to each other,
\* there is never a second proxy process on the slot's port, and a proxy process
\* that exists is the one slot["pid"] names or the one the lock holder has just
\* spawned: no proxy is leaked, out of reach of stop_proxy.
ProxyOwned ==
    /\ \A p, q \in live : p = q
    /\ \A p \in live :
          \/ running /\ pid = p
          \/ lock # NoThread /\ pc[lock] = "listen" /\ loc[lock].proc = p

\* slot["_recovering"] is set exactly while one thread works on a recovery: two
\* triggers never run two recoveries, and no path out of a recovery leaves the flag
\* set, which would make the portal ignore every later hotplug event.
RecoveryExclusive ==
    /\ recovering <=> \E t \in Threads : InRecovery(t)
    /\ \A t, u \in Threads : InRecovery(t) /\ InRecovery(u) => t = u

\* A slot that says "monitoring" has a request reading its output, and one that
\* says "recovering" has a recovery: unlocked writes of slot["state"] by other
\* threads never leave a transient state behind.
TransientStateBacked ==
    /\ state = "monitoring" => \E t \in Handlers : pc[t] = "mon_read"
    /\ state = "recovering" => recovering

\* From the moment a recovery has stopped the proxy until it ends, no proxy has the
\* device open: a _bg_start queued before the recovery does not bring one back.
RecoveryHasNoProxy ==
    \A t \in Threads : PastStop(t) => live = {}

\* A slot that says "download_mode" has its BOOT pin held low, except while a
\* release is undoing both.
DownloadModeHoldsBoot ==
    state = "download_mode" =>
        bootLow \/ \E t \in Handlers : pc[t] = "rel_en"

\* Every handler and the background thread it spawns comes to an end: no early
\* return keeps the slot lock.
HandlersEnd == \A t \in Handlers : pc[t] # "idle" ~> pc[t] = "idle"

\* Every recovery ends and the portal listens to hotplug events again.
RecoveryEnds == recovering ~> ~recovering

\* FR-001, unplug flow: "Slot state becomes running=false", and TC-005, USB reset race:
\* 'No "stuck stopped" state'.  Once everything has been processed, a slot runs its proxy
\* exactly if its device is there.
Settles == Quiescent /\ ~flapping => (running <=> usb \in Nodes)
=============================================================================
