-------------------------------- MODULE Ble ---------------------------------
(***************************************************************************)
(* The BLE proxy of the portal (pi/ble_controller.py): HTTP handler threads *)
(* that share one recorded connection, the coroutines they start on the     *)
(* event loop, and the links to the peripherals.                            *)
(*                                                                         *)
(* Every section under _lock is one action.  Between two of them a handler  *)
(* waits for its coroutine, for 30 s at most.                               *)
(***************************************************************************)
CONSTANTS
    Threads,       \* HTTP handler threads
    Clients,       \* BleakClient objects; bound: a connect takes a new one
    Addresses,     \* peripherals
    NoClient, NoAddress,
    Faults         \* what may fail: "slow" (30 s are over), "drop" (no disconnect)

ASSUME NamesAssumption == NoClient \notin Clients /\ NoAddress \notin Addresses
ASSUME FaultsAssumption == Faults \subseteq {"slow", "drop"}

VARIABLES
    client,        \* _client
    address,       \* _address (and _name, which is never anything else)
    state,         \* _state
    pc, mine,      \* where each thread is, and the client it works with
    link,          \* what became of each client's link
    peer           \* the peripheral a client is for

recordVars == <<client, address, state>>
threadVars == <<pc, mine>>
linkVars == <<link, peer>>
vars == <<recordVars, threadVars, linkVars>>

TypeOK ==
    /\ client \in Clients \cup {NoClient}
    /\ address \in Addresses \cup {NoAddress}
    /\ state \in {"idle", "scanning", "connected"}
    /\ pc \in [Threads -> {"idle", "scan", "connect", "disconnect", "clear"}]
    /\ mine \in [Threads -> Clients \cup {NoClient}]
    /\ link \in [Clients -> {"new", "connecting", "up", "failed", "lost"}]
    /\ peer \in [Clients -> Addresses \cup {NoAddress}]

Init ==
    /\ client = NoClient /\ address = NoAddress /\ state = "idle"
    /\ pc = [t \in Threads |-> "idle"]
    /\ mine = [t \in Threads |-> NoClient]
    /\ link = [c \in Clients |-> "new"]
    /\ peer = [c \in Clients |-> NoAddress]

-----------------------------------------------------------------------------
(* Helpers *)

Goto(t, p) == pc' = [pc EXCEPT ![t] = p]

Return(t) == Goto(t, "idle") /\ mine' = [mine EXCEPT ![t] = NoClient]

Forget == client' = NoClient /\ address' = NoAddress /\ state' = "idle"

\* The links to peripheral a go down; clients of one peripheral share its link.
Down(a) == link' = [c \in Clients |->
                       IF link[c] = "up" /\ peer[c] = a THEN "lost" ELSE link[c]]

-----------------------------------------------------------------------------
(* scan *)

Scan(t) ==
    /\ pc[t] = "idle" /\ state # "scanning"
    /\ state' = "scanning"
    /\ Goto(t, "scan")
    /\ UNCHANGED <<client, address, mine, linkVars>>

\* Mutant: a scan that raises leaves the state as it is.
ScanEndsWithoutFinally(t) ==
    /\ pc[t] = "scan"
    /\ state' \in {state, IF state = "scanning" THEN "idle" ELSE state}
    /\ Return(t)
    /\ UNCHANGED <<client, address, linkVars>>

\* Results, an exception or the time limit: the finally clause.
ScanEnds(t) ==
    /\ pc[t] = "scan"
    /\ state' = IF state = "scanning" THEN "idle" ELSE state
    /\ Return(t)
    /\ UNCHANGED <<client, address, linkVars>>

-----------------------------------------------------------------------------
(* connect *)

Connect(t, c, a) ==
    /\ pc[t] = "idle"
    /\ ~(state = "connected" /\ address # NoAddress)
    /\ link[c] = "new"
    /\ link' = [link EXCEPT ![c] = "connecting"]
    /\ peer' = [peer EXCEPT ![c] = a]
    /\ mine' = [mine EXCEPT ![t] = c]
    /\ Goto(t, "connect")
    /\ UNCHANGED recordVars

\* The coroutine connects, or cannot; whether or not somebody still waits for it.
Coroutine(c) ==
    /\ link[c] = "connecting"
    /\ link' \in {[link EXCEPT ![c] = "up"], [link EXCEPT ![c] = "failed"]}
    /\ UNCHANGED <<recordVars, threadVars, peer>>

\* The handler gets the client, and records it.
ConnectDone(t) ==
    /\ pc[t] = "connect" /\ link[mine[t]] \in {"up", "lost"}
    /\ client' = mine[t] /\ address' = peer[mine[t]] /\ state' = "connected"
    /\ Return(t)
    /\ UNCHANGED linkVars

\* Mutant: no time limit.
ConnectRaisesWithoutLimit(t) ==
    /\ pc[t] = "connect" /\ link[mine[t]] \in {"failed", "lost"}
    /\ Return(t)
    /\ UNCHANGED <<recordVars, linkVars>>

\* The handler gets an exception, its own after 30 s included: the coroutine goes on.
ConnectRaises(t) ==
    /\ pc[t] = "connect"
    /\ link[mine[t]] \in {"failed", "lost"} \/ "slow" \in Faults
    /\ Return(t)
    /\ UNCHANGED <<recordVars, linkVars>>

-----------------------------------------------------------------------------
(* disconnect *)

Disconnect(t) ==
    /\ pc[t] = "idle" /\ client # NoClient
    /\ mine' = [mine EXCEPT ![t] = client]
    /\ Goto(t, "disconnect")
    /\ UNCHANGED <<recordVars, linkVars>>

DisconnectNothing(t) ==
    /\ pc[t] = "idle" /\ client = NoClient
    /\ state' = "idle"
    /\ UNCHANGED <<client, address, threadVars, linkVars>>

\* The coroutine disconnects; _on_disconnect runs before it returns.
Drop(t) ==
    /\ pc[t] = "disconnect" /\ link[mine[t]] = "up"
    /\ Down(peer[mine[t]]) /\ Forget
    /\ Goto(t, "clear")
    /\ UNCHANGED <<mine, peer>>

\* The client is not connected, or the disconnect fails, which is ignored.
DropNothing(t) ==
    /\ pc[t] = "disconnect" /\ (link[mine[t]] # "up" \/ "drop" \in Faults)
    /\ Goto(t, "clear")
    /\ UNCHANGED <<recordVars, mine, linkVars>>

Clear(t) ==
    /\ pc[t] = "clear"
    /\ Forget
    /\ Return(t)
    /\ UNCHANGED linkVars

-----------------------------------------------------------------------------
(* The environment *)

\* Mutant: the callback keeps the state.
LinkLostStillConnected(a) ==
    /\ \E c \in Clients : link[c] = "up" /\ peer[c] = a
    /\ Down(a)
    /\ client' = NoClient /\ address' = NoAddress
    /\ UNCHANGED <<state, threadVars, peer>>

\* A peripheral goes away; _on_disconnect forgets whatever is recorded.
LinkLost(a) ==
    /\ \E c \in Clients : link[c] = "up" /\ peer[c] = a
    /\ Down(a) /\ Forget
    /\ UNCHANGED <<threadVars, peer>>

-----------------------------------------------------------------------------
(* The specification *)

Arrive(t) ==
    \/ Scan(t) \/ Disconnect(t) \/ DisconnectNothing(t)
    \/ \E c \in Clients, a \in Addresses : Connect(t, c, a)

Run(t) ==
    \/ ScanEnds(t) \/ ConnectDone(t) \/ ConnectRaises(t)
    \/ Drop(t) \/ DropNothing(t) \/ Clear(t)

Next ==
    \/ \E t \in Threads : Arrive(t) \/ Run(t)
    \/ \E c \in Clients : Coroutine(c)
    \/ \E a \in Addresses : LinkLost(a)

Spec == Init /\ [][Next]_vars

\* Handlers wait 30 s at most.  Nothing is assumed of the radio.
FairSpec == Spec /\ \A t \in Threads : WF_vars(Run(t))

-----------------------------------------------------------------------------
(* Properties *)

\* What status() reports as connected is a client that a connect returned, with the
\* address it was made for: scan, disconnect and the callback of another client, in any
\* order, never leave "connected" over a client that is gone.
ReportedIsClient ==
    state = "connected" =>
        client # NoClient /\ address = peer[client] /\ link[client] \in {"up", "lost"}

\* The proxy says "scanning" only while a scan is under way, however scans, connects
\* and disconnects overlap: no scan locks out all later ones.
ScanningBacked == state = "scanning" => \E t \in Threads : pc[t] = "scan"

\* Every request ends, even if the radio never answers.
OperationsEnd == \A t \in Threads : pc[t] # "idle" ~> pc[t] = "idle"

(* The rest of the inductive invariant *)

\* The recorded client and address belong together, and a thread that connects or
\* disconnects has a client that was made for a peripheral.
ClientsKnown ==
    /\ client = NoClient <=> address = NoAddress
    /\ client # NoClient => address = peer[client] /\ link[client] \in {"up", "lost"}
    /\ \A t \in Threads : pc[t] \in {"connect", "disconnect"} =>
          mine[t] # NoClient /\ link[mine[t]] # "new"
    /\ \A c \in Clients : link[c] # "new" => peer[c] \in Addresses

\* FR-022, "Only one BLE connection at a time".
OneConnection ==
    \A c, d \in Clients : link[c] = "up" /\ link[d] = "up" => peer[c] = peer[d]
=============================================================================
