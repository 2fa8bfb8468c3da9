--------------------------- MODULE Rfc2217Server ----------------------------
(***************************************************************************)
(* The RFC2217 server of a native-USB slot (pi/plain_rfc2217_server.py):    *)
(* the main thread, which accepts one client after the other, and one       *)
(* reader thread per client.                                               *)
(*                                                                         *)
(* conn, pm and alive are variables of main() that every reader shares: a   *)
(* reader that is blocked in ser.read when its session ends wakes up to the *)
(* conn and the alive of a later session.  Sessions are numbered in the     *)
(* order the kernel accepts them, and so are their readers.  The device's   *)
(* output is numbered 1, 2, ...: bytes up to `taken' have been read.        *)
(***************************************************************************)
EXTENDS Naturals, Sequences

CONSTANTS
    MaxSessions,   \* bound: client connections
    MaxOutput,     \* bound: bytes the device sends
    Controls       \* what a client can change: DTR, RTS, the port settings

ASSUME BoundsAssumption == MaxSessions \in Nat /\ MaxOutput \in Nat

Sessions == 1 .. MaxSessions

VARIABLES
    main,          \* where the main thread is
    conn,          \* the variable conn: a session, 0 for None
    alive,         \* the variable alive
    sock,          \* the accepted socket that is open, 0 for none
    accepted,      \* sessions accepted so far
    reader,        \* where each reader is
    held, target,  \* what a reader has read (from .. to), and the conn it took for it
    client,        \* each client: "new", "connected" or "gone"
    got,           \* the output the latest client received
    delivered,     \* the output that any client received (history)
    present,       \* the device is there
    emitted, taken,
    port,          \* the controls that are not at their initial setting
    overlap        \* a reader of an earlier session was alive when conn was accepted

mainVars == <<main, conn, sock, accepted, overlap>>
readerVars == <<reader, held, target>>
outputVars == <<emitted, taken, got, delivered>>
vars == <<mainVars, alive, readerVars, client, outputVars, present, port>>

MainPoints == {"accept", "negotiate", "loop", "recv", "cleanup", "restore", "dead"}
ReaderPoints == {"none", "loop", "read", "send", "exit"}

TypeOK ==
    /\ main \in MainPoints
    /\ conn \in 0 .. MaxSessions /\ sock \in 0 .. MaxSessions
    /\ accepted \in 0 .. MaxSessions
    /\ alive \in BOOLEAN /\ present \in BOOLEAN /\ overlap \in BOOLEAN
    /\ reader \in [Sessions -> ReaderPoints]
    /\ held \in [Sessions -> Nat \X Nat]
    /\ target \in [Sessions -> 0 .. MaxSessions]
    /\ client \in [Sessions -> {"new", "connected", "gone"}]
    /\ got \in Seq(Nat) /\ delivered \in Seq(Nat)
    /\ emitted \in 0 .. MaxOutput /\ taken \in 0 .. MaxOutput
    /\ port \in SUBSET Controls

\* The port is open with DTR and RTS cleared, and the socket listens.
Init ==
    /\ main = "accept" /\ conn = 0 /\ alive = FALSE /\ sock = 0 /\ accepted = 0
    /\ reader = [s \in Sessions |-> "none"]
    /\ held = [s \in Sessions |-> <<0, 0>>] /\ target = [s \in Sessions |-> 0]
    /\ client = [s \in Sessions |-> "new"]
    /\ got = <<>> /\ delivered = <<>>
    /\ present = TRUE /\ emitted = 0 /\ taken = 0
    /\ port = {} /\ overlap = FALSE

-----------------------------------------------------------------------------
(* The main thread *)

NoReader == \A r \in Sessions : reader[r] = "none"

\* accept() returns the next connection, whose client may have gone already.
Accept ==
    /\ main = "accept" /\ accepted < MaxSessions
    /\ LET s == accepted + 1 IN
        /\ client[s] # "new"
        /\ accepted' = s /\ conn' = s /\ sock' = s
    /\ overlap' = ~NoReader /\ got' = <<>>
    /\ main' = "negotiate"
    /\ UNCHANGED <<alive, readerVars, client, emitted, taken, delivered, present,
                   port>>

\* The PortManager's offers are sent (Sender swallows errors); the reader starts.
Begin ==
    /\ main = "negotiate"
    /\ alive' = TRUE
    /\ reader' = [reader EXCEPT ![conn] = "loop"]
    /\ main' = "loop"
    /\ UNCHANGED <<conn, sock, accepted, overlap, held, target, client, outputVars,
                   present, port>>

\* while alive
MainLoop ==
    /\ main = "loop"
    /\ main' = IF alive THEN "recv" ELSE "cleanup"
    /\ UNCHANGED <<conn, sock, accepted, overlap, alive, readerVars, client, outputVars,
                   present, port>>

\* The client sends data or RFC2217 commands; pm.filter obeys the commands, and the rest
\* is written to the device.
Recv ==
    /\ main = "recv" /\ client[conn] = "connected" /\ present
    /\ port' \in SUBSET Controls
    /\ main' = "loop"
    /\ UNCHANGED <<conn, sock, accepted, overlap, alive, readerVars, client, outputVars,
                   present>>

\* The device is gone: an exception.
RecvFails ==
    /\ main = "recv" /\ client[conn] = "connected" /\ ~present
    /\ main' = "cleanup"
    /\ UNCHANGED <<conn, sock, accepted, overlap, alive, readerVars, client, outputVars,
                   present, port>>

\* Mutant: the end of the stream is taken for an empty chunk.
RecvEndIgnored ==
    /\ main = "recv" /\ client[conn] = "gone"
    /\ main' = "loop"
    /\ UNCHANGED <<conn, sock, accepted, overlap, alive, readerVars, client, outputVars,
                   present, port>>

\* The end of the stream, or a reset connection.
RecvEnd ==
    /\ main = "recv" /\ client[conn] = "gone"
    /\ main' = "cleanup"
    /\ UNCHANGED <<conn, sock, accepted, overlap, alive, readerVars, client, outputVars,
                   present, port>>

Cleanup ==
    /\ main = "cleanup"
    /\ alive' = FALSE /\ sock' = 0
    /\ main' = "restore"
    /\ UNCHANGED <<conn, accepted, overlap, readerVars, client, outputVars, present, port>>

\* Mutant: RTS stays as the last client left it.
RestoreKeepsRts ==
    /\ main = "restore" /\ present
    /\ port' = port \cap {"rts"} /\ conn' = 0
    /\ main' = "accept"
    /\ UNCHANGED <<sock, accepted, overlap, alive, readerVars, client, outputVars, present>>

\* DTR and RTS are released and the settings applied again; conn = None.
Restore ==
    /\ main = "restore" /\ present
    /\ port' = {} /\ conn' = 0
    /\ main' = "accept"
    /\ UNCHANGED <<sock, accepted, overlap, alive, readerVars, client, outputVars, present>>

\* Without the device that raises, and nothing catches it: the server ends, and the
\* daemon threads with it.
RestoreRaises ==
    /\ main = "restore" /\ ~present
    /\ main' = "dead"
    /\ reader' = [r \in Sessions |-> "none"]
    /\ UNCHANGED <<conn, sock, accepted, overlap, alive, held, target, client, outputVars,
                   present, port>>

-----------------------------------------------------------------------------
(* The readers *)

ReaderAt(r, p) == reader' = [reader EXCEPT ![r] = p]

\* Mutant: while True
ReaderLoopForever(r) ==
    /\ reader[r] = "loop"
    /\ ReaderAt(r, "read")
    /\ UNCHANGED <<mainVars, alive, held, target, client, outputVars, present, port>>

\* while alive
ReaderLoop(r) ==
    /\ reader[r] = "loop"
    /\ ReaderAt(r, IF alive THEN "read" ELSE "exit")
    /\ UNCHANGED <<mainVars, alive, held, target, client, outputVars, present, port>>

\* Output arrives, some or all of it, and the reader looks up conn.
Read(r) ==
    /\ reader[r] = "read" /\ taken < emitted /\ conn # 0
    /\ \E n \in taken + 1 .. emitted :
          /\ taken' = n
          /\ held' = [held EXCEPT ![r] = <<taken, n>>]
    /\ target' = [target EXCEPT ![r] = conn]
    /\ ReaderAt(r, "send")
    /\ UNCHANGED <<mainVars, alive, client, emitted, got, delivered, present, port>>

\* conn is None: an exception, and what was read is lost.
ReadForNobody(r) ==
    /\ reader[r] = "read" /\ taken < emitted /\ conn = 0
    /\ taken' \in taken + 1 .. emitted
    /\ ReaderAt(r, "exit")
    /\ UNCHANGED <<mainVars, alive, held, target, client, emitted, got, delivered, present,
                   port>>

\* Mutant: a read that times out ends the reader.
ReadTimesOutEnds(r) ==
    /\ reader[r] = "read" /\ taken = emitted
    /\ ReaderAt(r, "exit")
    /\ UNCHANGED <<mainVars, alive, held, target, client, outputVars, present, port>>

\* Nothing within 3 s.
ReadTimesOut(r) ==
    /\ reader[r] = "read" /\ taken = emitted
    /\ ReaderAt(r, "loop")
    /\ UNCHANGED <<mainVars, alive, held, target, client, outputVars, present, port>>

\* The device is gone, or another reader has taken what made the port readable, which
\* pyserial reports as "multiple access on port".
ReadRaises(r) ==
    /\ reader[r] = "read"
    /\ ~present \/ \E o \in Sessions \ {r} : reader[o] = "send"
    /\ ReaderAt(r, "exit")
    /\ UNCHANGED <<mainVars, alive, held, target, client, outputVars, present, port>>

\* A reader is done with what it read.
Drop(r) ==
    /\ held' = [held EXCEPT ![r] = <<0, 0>>]
    /\ target' = [target EXCEPT ![r] = 0]

\* The bytes a reader holds.
Chunk(r) == [i \in 1 .. held[r][2] - held[r][1] |-> held[r][1] + i]

\* Mutant: send instead of sendall: what does not fit is dropped.
SendPart(r) ==
    /\ reader[r] = "send" /\ sock = target[r]
    /\ IF client[target[r]] = "connected"
       THEN \E n \in 1 .. Len(Chunk(r)) :
               /\ got' = got \o SubSeq(Chunk(r), 1, n)
               /\ delivered' = delivered \o SubSeq(Chunk(r), 1, n)
       ELSE UNCHANGED <<got, delivered>>
    /\ ReaderAt(r, "loop") /\ Drop(r)
    /\ UNCHANGED <<mainVars, alive, client, emitted, taken, present, port>>

\* Mutant: what was sent stays in the reader's hands, and is sent again.
SendAgain(r) ==
    /\ reader[r] = "send" /\ sock = target[r]
    /\ IF client[target[r]] = "connected"
       THEN got' = got \o Chunk(r) /\ delivered' = delivered \o Chunk(r)
       ELSE UNCHANGED <<got, delivered>>
    /\ UNCHANGED <<mainVars, alive, readerVars, client, emitted, taken, present, port>>

\* sendall
Send(r) ==
    /\ reader[r] = "send" /\ sock = target[r]
    /\ IF client[target[r]] = "connected"
       THEN got' = got \o Chunk(r) /\ delivered' = delivered \o Chunk(r)
       ELSE UNCHANGED <<got, delivered>>
    /\ ReaderAt(r, "loop") /\ Drop(r)
    /\ UNCHANGED <<mainVars, alive, client, emitted, taken, present, port>>

\* The socket is closed or the client has gone.
SendRaises(r) ==
    /\ reader[r] = "send"
    /\ sock # target[r] \/ client[target[r]] = "gone"
    /\ ReaderAt(r, "exit") /\ Drop(r)
    /\ UNCHANGED <<mainVars, alive, client, outputVars, present, port>>

\* alive = False, whichever session that is
ReaderExits(r) ==
    /\ reader[r] = "exit"
    /\ alive' = FALSE
    /\ ReaderAt(r, "none")
    /\ UNCHANGED <<mainVars, held, target, client, outputVars, present, port>>

-----------------------------------------------------------------------------
(* Clients and the device *)

Connect(s) ==
    /\ main # "dead"
    /\ client[s] = "new" /\ \A o \in 1 .. s - 1 : client[o] # "new"
    /\ client' = [client EXCEPT ![s] = "connected"]
    /\ UNCHANGED <<mainVars, alive, readerVars, outputVars, present, port>>

Disconnect(s) ==
    /\ client[s] = "connected"
    /\ client' = [client EXCEPT ![s] = "gone"]
    /\ UNCHANGED <<mainVars, alive, readerVars, outputVars, present, port>>

Emit ==
    /\ present /\ emitted < MaxOutput
    /\ emitted' = emitted + 1
    /\ UNCHANGED <<mainVars, alive, readerVars, client, taken, got, delivered, present, port>>

Unplug ==
    /\ present
    /\ present' = FALSE
    /\ UNCHANGED <<mainVars, alive, readerVars, client, outputVars, port>>

-----------------------------------------------------------------------------
(* The specification *)

MainStep ==
    \/ Accept \/ Begin \/ MainLoop \/ RecvFails \/ RecvEnd
    \/ Cleanup \/ Restore \/ RestoreRaises

ReaderStep(r) ==
    \/ ReaderLoop(r) \/ Read(r) \/ ReadForNobody(r) \/ ReadTimesOut(r) \/ ReadRaises(r)
    \/ Send(r) \/ SendRaises(r) \/ ReaderExits(r)

Next ==
    \/ MainStep \/ Recv
    \/ \E s \in Sessions : ReaderStep(s) \/ Connect(s) \/ Disconnect(s)
    \/ Emit \/ Unplug

Spec == Init /\ [][Next]_vars

\* Both kinds of threads run when they can: a read ends after 3 s.  A client need not
\* send anything, nor go.
FairSpec == Spec /\ WF_vars(MainStep) /\ \A r \in Sessions : WF_vars(ReaderStep(r))

-----------------------------------------------------------------------------
(* Properties *)

\* Between two clients the device is neither held in reset nor in boot mode, and has the
\* port settings it started with, however the last session ended.
IdlePortReleased == main \in {"accept", "negotiate"} => port = {}

\* A client whose session no earlier reader runs into gets the device's output in order
\* and without gaps.
UndisturbedInOrder ==
    ~overlap => \A i \in 1 .. Len(got) - 1 : got[i + 1] = got[i] + 1

\* A session goes deaf (its reader has ended while main waits for the client to send)
\* only when the client has gone, the device has gone, or an earlier reader ran into it.
ServedUnlessOverlap ==
    main = "recv" /\ present /\ ~overlap /\ client[conn] = "connected"
        => reader[conn] \in {"loop", "read", "send"} /\ alive

\* Whatever readers overlap, every byte of the device reaches at most one client, once, in
\* the chunk it was read in: a reader that outlived its session never repeats output, nor
\* hands on a byte that another reader has taken.
D == INSTANCE Delivery WITH made <- emitted

HandedOnOnce == D!Spec

\* A client that goes frees the server for the next one (or the server has ended).
SessionEnds ==
    \A s \in Sessions : conn = s /\ client[s] = "gone" ~> conn # s \/ main = "dead"

\* A reader outlives its session at most as long as new sessions keep coming.
ReadersEnd == <>[](main = "accept") => <>[]NoReader
=============================================================================
