------------------------------- MODULE UdpLog -------------------------------
(***************************************************************************)
(* The UDP log of the portal (pi/portal.py): a receiver thread appends the   *)
(* lines of each datagram to a bounded deque; clients read it with `since', *)
(* `source' and `limit', and clear it.                                     *)
(*                                                                         *)
(* `log' is everything ever appended; the deque holds the positions after   *)
(* `start', which both eviction and clearing move.  A client follows the    *)
(* log the way the API is meant to be used: each read passes the timestamp  *)
(* of the last line it got.                                                *)
(***************************************************************************)
EXTENDS Naturals, Sequences, FiniteSets

CONSTANTS
    Readers, Sources, Any,   \* Any: no source filter
    Limits,        \* values of the parameter `limit'
    Capacity,      \* UDP_LOG_MAX_LINES
    MaxLines,      \* bound: lines received
    MaxClock       \* bound: clock ticks

ASSUME NamesAssumption == Any \notin Sources
ASSUME BoundsAssumption ==
    /\ Limits \subseteq Nat
    /\ Capacity \in Nat \ {0} /\ MaxLines \in Nat /\ MaxClock \in Nat \ {0}

VARIABLES
    clock,         \* time.time()
    log, start,    \* _udp_log
    packet,        \* the datagram being appended: its time, source and lines left
    filter, limit, \* what each reader asks for
    get,           \* each reader's request: "idle", "scan", or "broken"
    since, page, seen      \* its `since', the last answer and the ones before

logVars == <<clock, log, start, packet>>
askVars == <<filter, limit>>
readVars == <<get, since, page, seen>>
vars == <<logVars, askVars, readVars>>

Line == [ts : 1 .. MaxClock, source : Sources]

TypeOK ==
    /\ clock \in 1 .. MaxClock
    /\ log \in Seq(Line) /\ start \in 0 .. Len(log)
    /\ packet \in [ts : 1 .. MaxClock, source : Sources, left : Nat]
    /\ filter \in [Readers -> Sources \cup {Any}] /\ limit \in [Readers -> Limits]
    /\ get \in [Readers -> {"idle", "scan", "broken"}]
    /\ since \in [Readers -> 0 .. MaxClock]
    /\ page \in [Readers -> SUBSET (1 .. Len(log))]
    /\ seen \in [Readers -> SUBSET (1 .. Len(log))]

Init ==
    /\ clock = 1 /\ log = <<>> /\ start = 0
    /\ packet \in [ts : {1}, source : Sources, left : {0}]
    /\ filter \in [Readers -> Sources \cup {Any}] /\ limit \in [Readers -> Limits]
    /\ get = [r \in Readers |-> "idle"]
    /\ since = [r \in Readers |-> 0]
    /\ page = [r \in Readers |-> {}] /\ seen = [r \in Readers |-> {}]

-----------------------------------------------------------------------------
(* The receiver thread *)

Tick ==
    /\ clock < MaxClock
    /\ clock' = clock + 1
    /\ UNCHANGED <<log, start, packet, askVars, readVars>>

\* A datagram of n lines arrives; all of them get one timestamp.
Receive(s, n) ==
    /\ packet.left = 0 /\ Len(log) + n <= MaxLines
    /\ packet' = [ts |-> clock, source |-> s, left |-> n]
    /\ UNCHANGED <<clock, log, start, askVars, readVars>>

\* Changing the deque breaks the iterations under way.
BreakScans == get' = [r \in Readers |-> IF get[r] = "scan" THEN "broken" ELSE get[r]]

\* _udp_log.append: a full deque drops its oldest line.
AppendLine ==
    /\ packet.left > 0
    /\ log' = Append(log, [ts |-> packet.ts, source |-> packet.source])
    /\ start' = IF Len(log) - start < Capacity THEN start ELSE start + 1
    /\ packet' = [packet EXCEPT !.left = @ - 1]
    /\ BreakScans
    /\ UNCHANGED <<clock, askVars, since, page, seen>>

-----------------------------------------------------------------------------
(* The handlers *)

\* DELETE /api/udplog
Clear ==
    /\ start' = Len(log)
    /\ BreakScans
    /\ UNCHANGED <<clock, log, packet, askVars, since, page, seen>>

\* GET /api/udplog starts to go through the deque.
GetBegins(r) ==
    /\ get[r] = "idle"
    /\ get' = [get EXCEPT ![r] = "scan"]
    /\ UNCHANGED <<logVars, askVars, since, page, seen>>

Wanted(r, i) == filter[r] = Any \/ log[i].source = filter[r]

Buffered == start + 1 .. Len(log)

\* Mutant: lines of the time `since' are included.
FreshInclusive(r) == {i \in Buffered : log[i].ts >= since[r] /\ Wanted(r, i)}

\* The lines that pass both tests.
Fresh(r) == {i \in Buffered : log[i].ts > since[r] /\ Wanted(r, i)}

\* Mutant: the newest lines instead of the oldest.
Newest(r) == {i \in Fresh(r) : Cardinality({j \in Fresh(r) : j > i}) < limit[r]}

\* Mutant: the limit counts the lines looked at.
LookedAt(r) == {i \in Fresh(r) : Cardinality({j \in Buffered : j < i}) < limit[r]}

\* The first `limit' of them; the limit is tested after a line was added, so a limit of
\* 0 returns one.
Answer(r) ==
    {i \in Fresh(r) : LET before == Cardinality({j \in Fresh(r) : j < i})
                      IN  before = 0 \/ before < limit[r]}

\* Nothing has changed the deque: the answer reaches the client.
GetEnds(r) ==
    /\ get[r] = "scan"
    /\ get' = [get EXCEPT ![r] = "idle"]
    /\ IF Answer(r) = {} THEN UNCHANGED since
       ELSE \E l \in Answer(r) : /\ \A j \in Answer(r) : j <= l
                                 /\ since' = [since EXCEPT ![r] = log[l].ts]
    /\ seen' = [seen EXCEPT ![r] = @ \cup page[r]]
    /\ page' = [page EXCEPT ![r] = Answer(r)]
    /\ UNCHANGED <<logVars, askVars>>

\* "deque mutated during iteration": the request fails, and the client asks again.
GetFails(r) ==
    /\ get[r] = "broken"
    /\ get' = [get EXCEPT ![r] = "idle"]
    /\ UNCHANGED <<logVars, askVars, since, page, seen>>

-----------------------------------------------------------------------------
(* The specification *)

Next ==
    \/ Tick \/ AppendLine \/ Clear
    \/ \E s \in Sources, n \in 1 .. MaxLines : Receive(s, n)
    \/ \E r \in Readers : GetBegins(r) \/ GetEnds(r) \/ GetFails(r)

Spec == Init /\ [][Next]_vars

\* The receiver finishes a datagram; clients read again and again, and a request that
\* could end again and again does.
FairSpec ==
    /\ Spec
    /\ WF_vars(AppendLine)
    /\ \A r \in Readers :
          WF_vars(GetBegins(r)) /\ SF_vars(GetEnds(r)) /\ WF_vars(GetFails(r))

-----------------------------------------------------------------------------
(* Properties *)

Got(r) == seen[r] \cup page[r]

\* A client that follows `since' gets no line twice, and gets lines in their order: each
\* answer is later than all answers before.
NoRepeat == \A r \in Readers : \A i \in page[r], j \in seen[r] : j < i

\* A line in the buffer that the client wants and that no later read will return shares
\* its timestamp with a line the client got: nothing else is skipped, neither by the
\* limit, nor by eviction, clearing or failed reads in between.
MissedSharesTimestamp ==
    \A r \in Readers : \A i \in Buffered \ Got(r) :
        Wanted(r, i) /\ log[i].ts <= since[r]
            => \E j \in Got(r) : log[j].ts = log[i].ts

\* When no more lines come, the reads of a client reach the end of the
\* buffer, whatever the limit.
CatchesUp == \A r \in Readers : <>[](\A i \in Buffered : Wanted(r, i) => log[i].ts <= since[r])
=============================================================================
