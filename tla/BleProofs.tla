----------------------------- MODULE BleProofs ------------------------------
(* Theorems about Ble, for every value of its constants. *)
EXTENDS Ble, TLAPS

\* The inductive invariant: ReportedIsClient holds because the recorded client and its
\* address are written together, which ClientsKnown says.
IInv == TypeOK /\ ClientsKnown /\ ReportedIsClient /\ ScanningBacked

\* It holds when the portal starts.
LEMMA InitIInv == Init => IInv
  BY NamesAssumption
     DEF Init, IInv, TypeOK, ClientsKnown, ReportedIsClient, ScanningBacked

\* Every step keeps it.
LEMMA NextIInv == IInv /\ [Next]_vars => IInv'
<1> SUFFICES ASSUME IInv, [Next]_vars PROVE IInv'
    OBVIOUS
<1> USE NamesAssumption
    DEF IInv, recordVars, threadVars, linkVars, Goto, Return, Forget, Down
<1>1. ASSUME NEW t \in Threads, Scan(t) PROVE IInv'
  <2>1. TypeOK'
    BY <1>1 DEF TypeOK, ClientsKnown, Scan
  <2>2. ClientsKnown'
    BY <1>1 DEF TypeOK, ClientsKnown, Scan
  <2>3. ReportedIsClient'
    BY <1>1 DEF TypeOK, ClientsKnown, ReportedIsClient, Scan
  <2>4. ScanningBacked'
    BY <1>1 DEF TypeOK, ScanningBacked, Scan
  <2> QED
    BY <2>1, <2>2, <2>3, <2>4
<1>2. ASSUME NEW t \in Threads, NEW c \in Clients, NEW a \in Addresses, Connect(t, c, a) PROVE IInv'
  <2>1. TypeOK'
    BY <1>2 DEF TypeOK, ClientsKnown, Connect
  <2>2. ClientsKnown'
    BY <1>2 DEF TypeOK, ClientsKnown, Connect
  <2>3. ReportedIsClient'
    BY <1>2 DEF TypeOK, ClientsKnown, ReportedIsClient, Connect
  <2>4. ScanningBacked'
    BY <1>2 DEF TypeOK, ScanningBacked, Connect
  <2> QED
    BY <2>1, <2>2, <2>3, <2>4
<1>3. ASSUME NEW t \in Threads, Disconnect(t) PROVE IInv'
  <2>1. TypeOK'
    BY <1>3 DEF TypeOK, ClientsKnown, Disconnect
  <2>2. ClientsKnown'
    BY <1>3 DEF TypeOK, ClientsKnown, Disconnect
  <2>3. ReportedIsClient'
    BY <1>3 DEF TypeOK, ClientsKnown, ReportedIsClient, Disconnect
  <2>4. ScanningBacked'
    BY <1>3 DEF TypeOK, ScanningBacked, Disconnect
  <2> QED
    BY <2>1, <2>2, <2>3, <2>4
<1>4. ASSUME NEW t \in Threads, DisconnectNothing(t) PROVE IInv'
  <2>1. TypeOK'
    BY <1>4 DEF TypeOK, ClientsKnown, DisconnectNothing
  <2>2. ClientsKnown'
    BY <1>4 DEF TypeOK, ClientsKnown, DisconnectNothing
  <2>3. ReportedIsClient'
    BY <1>4 DEF TypeOK, ClientsKnown, ReportedIsClient, DisconnectNothing
  <2>4. ScanningBacked'
    BY <1>4 DEF TypeOK, ScanningBacked, DisconnectNothing
  <2> QED
    BY <2>1, <2>2, <2>3, <2>4
<1>5. ASSUME NEW t \in Threads, ScanEnds(t) PROVE IInv'
  <2>1. TypeOK'
    BY <1>5 DEF TypeOK, ClientsKnown, ScanEnds
  <2>2. ClientsKnown'
    BY <1>5 DEF TypeOK, ClientsKnown, ScanEnds
  <2>3. ReportedIsClient'
    BY <1>5 DEF TypeOK, ClientsKnown, ReportedIsClient, ScanEnds
  <2>4. ScanningBacked'
    BY <1>5 DEF TypeOK, ScanningBacked, ScanEnds
  <2> QED
    BY <2>1, <2>2, <2>3, <2>4
<1>6. ASSUME NEW t \in Threads, ConnectDone(t) PROVE IInv'
  <2>1. TypeOK'
    BY <1>6 DEF TypeOK, ClientsKnown, ConnectDone
  <2>2. ClientsKnown'
    BY <1>6 DEF TypeOK, ClientsKnown, ConnectDone
  <2>3. ReportedIsClient'
    BY <1>6 DEF TypeOK, ClientsKnown, ReportedIsClient, ConnectDone
  <2>4. ScanningBacked'
    BY <1>6 DEF TypeOK, ScanningBacked, ConnectDone
  <2> QED
    BY <2>1, <2>2, <2>3, <2>4
<1>7. ASSUME NEW t \in Threads, ConnectRaises(t) PROVE IInv'
  <2>1. TypeOK'
    BY <1>7 DEF TypeOK, ClientsKnown, ConnectRaises
  <2>2. ClientsKnown'
    BY <1>7 DEF TypeOK, ClientsKnown, ConnectRaises
  <2>3. ReportedIsClient'
    BY <1>7 DEF TypeOK, ClientsKnown, ReportedIsClient, ConnectRaises
  <2>4. ScanningBacked'
    BY <1>7 DEF TypeOK, ScanningBacked, ConnectRaises
  <2> QED
    BY <2>1, <2>2, <2>3, <2>4
<1>8. ASSUME NEW t \in Threads, Drop(t) PROVE IInv'
  <2>1. TypeOK'
    BY <1>8 DEF TypeOK, ClientsKnown, Drop
  <2>2. ClientsKnown'
    BY <1>8 DEF TypeOK, ClientsKnown, Drop
  <2>3. ReportedIsClient'
    BY <1>8 DEF TypeOK, ClientsKnown, ReportedIsClient, Drop
  <2>4. ScanningBacked'
    BY <1>8 DEF TypeOK, ScanningBacked, Drop
  <2> QED
    BY <2>1, <2>2, <2>3, <2>4
<1>9. ASSUME NEW t \in Threads, DropNothing(t) PROVE IInv'
  <2>1. TypeOK'
    BY <1>9 DEF TypeOK, ClientsKnown, DropNothing
  <2>2. ClientsKnown'
    BY <1>9 DEF TypeOK, ClientsKnown, DropNothing
  <2>3. ReportedIsClient'
    BY <1>9 DEF TypeOK, ClientsKnown, ReportedIsClient, DropNothing
  <2>4. ScanningBacked'
    BY <1>9 DEF TypeOK, ScanningBacked, DropNothing
  <2> QED
    BY <2>1, <2>2, <2>3, <2>4
<1>10. ASSUME NEW t \in Threads, Clear(t) PROVE IInv'
  <2>1. TypeOK'
    BY <1>10 DEF TypeOK, ClientsKnown, Clear
  <2>2. ClientsKnown'
    BY <1>10 DEF TypeOK, ClientsKnown, Clear
  <2>3. ReportedIsClient'
    BY <1>10 DEF TypeOK, ClientsKnown, ReportedIsClient, Clear
  <2>4. ScanningBacked'
    BY <1>10 DEF TypeOK, ScanningBacked, Clear
  <2> QED
    BY <2>1, <2>2, <2>3, <2>4
<1>11. ASSUME NEW c \in Clients, Coroutine(c) PROVE IInv'
  <2>1. TypeOK'
    BY <1>11 DEF TypeOK, ClientsKnown, Coroutine
  <2>2. ClientsKnown'
    BY <1>11 DEF TypeOK, ClientsKnown, Coroutine
  <2>3. ReportedIsClient'
    BY <1>11 DEF TypeOK, ClientsKnown, ReportedIsClient, Coroutine
  <2>4. ScanningBacked'
    BY <1>11 DEF TypeOK, ScanningBacked, Coroutine
  <2> QED
    BY <2>1, <2>2, <2>3, <2>4
<1>12. ASSUME NEW a \in Addresses, LinkLost(a) PROVE IInv'
  <2>1. TypeOK'
    BY <1>12 DEF TypeOK, ClientsKnown, LinkLost
  <2>2. ClientsKnown'
    BY <1>12 DEF TypeOK, ClientsKnown, LinkLost
  <2>3. ReportedIsClient'
    BY <1>12 DEF TypeOK, ClientsKnown, ReportedIsClient, LinkLost
  <2>4. ScanningBacked'
    BY <1>12 DEF TypeOK, ScanningBacked, LinkLost
  <2> QED
    BY <2>1, <2>2, <2>3, <2>4
<1>13. CASE UNCHANGED vars
    BY <1>13 DEF vars, TypeOK, ClientsKnown, ReportedIsClient, ScanningBacked
<1> QED
    BY <1>1, <1>2, <1>3, <1>4, <1>5, <1>6, <1>7, <1>8, <1>9, <1>10, <1>11, <1>12, <1>13
       DEF Next, Arrive, Run

\* The invariant holds in every state, for any number of handlers and connects.
THEOREM BleInvariant == Spec => []IInv
<1> QED
    BY InitIInv, NextIInv, PTL DEF Spec

\* What status() reports as connected is a client that a connect returned, with its
\* address, whatever scans, disconnects and lost links interleave.
THEOREM ReportsClients == Spec => []ReportedIsClient
<1>1. IInv => ReportedIsClient
    BY DEF IInv
<1> QED
    BY <1>1, BleInvariant, PTL

\* "scanning" is never left behind: scan() can always be called again once the scans
\* under way have ended.
THEOREM ScanningAlwaysBacked == Spec => []ScanningBacked
<1>1. IInv => ScanningBacked
    BY DEF IInv
<1> QED
    BY <1>1, BleInvariant, PTL

-----------------------------------------------------------------------------
(* One connection at a time *)

\* A client that makes one request at a time, and scans only when nothing is recorded as
\* connected: what a step of a handler that arrives may then be.
Sequential ==
    \A t \in Threads :
        pc[t] = "idle" /\ pc'[t] # "idle" =>
            /\ \A u \in Threads : pc[u] = "idle"
            /\ pc'[t] = "scan" => client = NoClient

\* One handler runs, what is recorded is reported, and a link that is up or coming up is
\* the recorded one or that of the connect under way.
Linked ==
    /\ \A t, u \in Threads : pc[t] # "idle" /\ pc[u] # "idle" => t = u
    /\ client # NoClient => state = "connected"
    /\ \A c \in Clients : link[c] \in {"connecting", "up"} =>
          c = client \/ \E t \in Threads : pc[t] = "connect" /\ mine[t] = c
    /\ \A t \in Threads :
          /\ pc[t] \in {"connect", "scan"} => client = NoClient
          /\ pc[t] = "disconnect" => client \in {mine[t], NoClient}
          /\ pc[t] = "clear" /\ client # NoClient => link[client] # "up"

\* Without a time-out of a connect and without a failing disconnect, every step of such a
\* client keeps that.
LEMMA LinkedStep ==
    ASSUME Faults = {}, IInv, Linked, [Next]_vars, [Sequential]_vars
    PROVE  Linked'
<1> USE NamesAssumption
    DEF IInv, TypeOK, ClientsKnown, Linked, recordVars, threadVars, linkVars, Goto, Return, Forget
<1>1. ASSUME NEW t \in Threads, Scan(t) PROVE Linked'
  <2>1. Sequential
    BY <1>1 DEF Scan, vars
  <2> QED
    BY <1>1, <2>1 DEF Scan, Sequential
<1>2. ASSUME NEW t \in Threads, NEW c \in Clients, NEW a \in Addresses, Connect(t, c, a)
      PROVE  Linked'
  <2>1. Sequential
    BY <1>2 DEF Connect, vars
  <2>2. client = NoClient /\ \A u \in Threads : pc[u] = "idle"
    BY <1>2, <2>1 DEF Connect, Sequential
  <2> QED
    BY <1>2, <2>2 DEF Connect
<1>3. ASSUME NEW t \in Threads, Disconnect(t) PROVE Linked'
  <2>1. Sequential
    BY <1>3 DEF Disconnect, vars
  <2> QED
    BY <1>3, <2>1 DEF Disconnect, Sequential
<1>4. ASSUME NEW t \in Threads, DisconnectNothing(t) PROVE Linked'
    BY <1>4 DEF DisconnectNothing
<1>5. ASSUME NEW t \in Threads, ScanEnds(t) PROVE Linked'
    BY <1>5 DEF ScanEnds
<1>6. ASSUME NEW t \in Threads, ConnectDone(t) PROVE Linked'
    BY <1>6 DEF ConnectDone
<1>7. ASSUME NEW t \in Threads, ConnectRaises(t) PROVE Linked'
    BY <1>7 DEF ConnectRaises
<1>8. ASSUME NEW t \in Threads, Drop(t) PROVE Linked'
    BY <1>8 DEF Drop, Down
<1>9. ASSUME NEW t \in Threads, DropNothing(t) PROVE Linked'
    BY <1>9 DEF DropNothing
<1>10. ASSUME NEW t \in Threads, Clear(t) PROVE Linked'
    BY <1>10 DEF Clear
<1>11. ASSUME NEW c \in Clients, Coroutine(c) PROVE Linked'
    BY <1>11 DEF Coroutine
<1>12. ASSUME NEW a \in Addresses, LinkLost(a) PROVE Linked'
    BY <1>12 DEF LinkLost, Down
<1>13. CASE UNCHANGED vars
    BY <1>13 DEF vars
<1> QED
    BY <1>1, <1>2, <1>3, <1>4, <1>5, <1>6, <1>7, <1>8, <1>9, <1>10, <1>11, <1>12, <1>13
    DEF Next, Arrive, Run

\* FR-022 holds for a client that makes one request at a time and does not scan while
\* connected, if no connect runs into its 30 s and no disconnect fails.  Each condition
\* is needed: connect, scan, connect makes two links.
THEOREM OneConnectionIfSequential ==
    ASSUME Faults = {}
    PROVE  Spec /\ [][Sequential]_vars => []OneConnection
<1>1. Init => Linked
    BY DEF Init, Linked
<1>2. IInv /\ Linked /\ [Next]_vars /\ [Sequential]_vars => Linked'
    BY LinkedStep
<1>3. IInv /\ Linked => OneConnection
    BY NamesAssumption DEF IInv, TypeOK, Linked, OneConnection
<1> QED
    BY <1>1, <1>2, <1>3, BleInvariant, PTL DEF Spec
=============================================================================
