--------------------------- MODULE Rfc2217Proofs ----------------------------
(***************************************************************************)
(* Proofs about Rfc2217Server, for any number of sessions and any output.   *)
(***************************************************************************)
EXTENDS Rfc2217Server, SequenceTheorems, TLAPS

InSession == main \in {"negotiate", "loop", "recv", "cleanup"}

\* During a session conn is the latest connection accepted, and its socket is open.
SessionOpen ==
    /\ InSession =>
          conn = accepted /\ sock = conn /\ conn \in Sessions /\ client[conn] # "new"
    /\ main = "restore" => conn = accepted /\ sock = 0 /\ conn \in Sessions
    /\ main \in {"accept", "dead"} => sock = 0

\* A reader that sends has a connection, and something to send.
SendingHolds ==
    \A r \in Sessions : reader[r] = "send" => target[r] # 0 /\ held[r][1] < held[r][2]

\* In a session that no earlier reader runs into, conn's reader is the only one, and what
\* it holds is the latest output read.
Alone ==
    ~overlap /\ (InSession \/ main = "restore") =>
        /\ \A r \in Sessions \ {conn} : reader[r] = "none"
        /\ main = "negotiate" => reader[conn] = "none"
        /\ reader[conn] = "send" => target[conn] = conn /\ held[conn][2] = taken

\* Whatever was delivered had been read, and readers that send hold chunks that were
\* read, not delivered, and not in another reader's hands: [a, b] and [c, d] are apart.
Apart(a, b, c, d) == b <= c \/ d <= a

ChunksApart ==
    /\ taken <= emitted
    /\ \A i \in 1 .. Len(delivered) : 0 < delivered[i] /\ delivered[i] <= taken
    /\ \A r \in Sessions :
          reader[r] = "send" =>
            /\ held[r][2] <= taken
            /\ \A i \in 1 .. Len(delivered) :
                  delivered[i] <= held[r][1] \/ held[r][2] < delivered[i]
            /\ \A o \in Sessions \ {r} :
                  reader[o] = "send" => Apart(held[r][1], held[r][2], held[o][1], held[o][2])

\* ServedUnlessOverlap, before each test of alive too.
Served ==
    main \in {"loop", "recv"} /\ present /\ ~overlap /\ client[conn] = "connected"
        => reader[conn] \in {"loop", "read", "send"} /\ alive

\* What a connected client has got ends where its reader goes on.
GotUpTo ==
    InSession /\ ~overlap /\ client[conn] = "connected" /\ got # <<>>
        => got[Len(got)] = IF reader[conn] = "send" THEN held[conn][1] ELSE taken

IInv ==
    /\ TypeOK /\ SessionOpen /\ SendingHolds /\ Alone /\ Served
    /\ GotUpTo /\ UndisturbedInOrder /\ IdlePortReleased /\ ChunksApart

-----------------------------------------------------------------------------
(* Types *)

\* What a reader holds is a sequence of consecutive numbers.
LEMMA ChunkIsSeq ==
    ASSUME TypeOK, NEW r \in Sessions, held[r][1] < held[r][2]
    PROVE  /\ Chunk(r) \in Seq(Nat)
           /\ Len(Chunk(r)) = held[r][2] - held[r][1]
           /\ \A i \in 1 .. Len(Chunk(r)) : Chunk(r)[i] = held[r][1] + i
<1>1. held[r][1] \in Nat /\ held[r][2] \in Nat
    BY DEF TypeOK
<1> DEFINE n == held[r][2] - held[r][1]
<1>2. n \in Nat
    BY <1>1
<1>3. Chunk(r) \in [1 .. n -> Nat]
    BY <1>1 DEF Chunk
<1>4. Chunk(r) \in Seq(Nat)
    BY <1>2, <1>3, SeqDef
<1>5. DOMAIN Chunk(r) = 1 .. n
    BY DEF Chunk
<1>6. Len(Chunk(r)) = n
    BY <1>2, <1>4, <1>5, LenProperties
<1> QED
    BY <1>1, <1>4, <1>6 DEF Chunk

\* Every action keeps the types; a reader that sends holds something.
LEMMA TypeOKStep == TypeOK /\ SessionOpen /\ SendingHolds /\ [Next]_vars => TypeOK'
<1> SUFFICES ASSUME TypeOK, SessionOpen, SendingHolds, [Next]_vars PROVE TypeOK'
    OBVIOUS
<1> USE BoundsAssumption
    DEF TypeOK, Sessions, MainPoints, ReaderPoints, mainVars, readerVars, outputVars
<1>1. CASE Accept
    BY <1>1 DEF Accept
<1>2. CASE Begin
    BY <1>2 DEF Begin, SessionOpen, InSession
<1>3. CASE MainLoop
    BY <1>3 DEF MainLoop
<1>4. CASE Recv
    BY <1>4 DEF Recv
<1>5. CASE RecvFails
    BY <1>5 DEF RecvFails
<1>6. CASE RecvEnd
    BY <1>6 DEF RecvEnd
<1>7. CASE Cleanup
  <2>1. sock' \in 0 .. MaxSessions /\ main' \in MainPoints
    BY <1>7 DEF Cleanup
  <2> QED
    BY <1>7, <2>1 DEF Cleanup
<1>8. CASE Restore
    BY <1>8, SMTT(30) DEF Restore
<1>9. CASE RestoreRaises
    BY <1>9 DEF RestoreRaises
<1>10. CASE Emit
    BY <1>10 DEF Emit
<1>11. CASE Unplug
    BY <1>11 DEF Unplug
<1>12. ASSUME NEW r \in Sessions, ReaderLoop(r) PROVE TypeOK'
    BY <1>12 DEF ReaderLoop, ReaderAt
<1>13. ASSUME NEW r \in Sessions, Read(r) PROVE TypeOK'
  <2>3. PICK n \in taken + 1 .. emitted : taken' = n /\ held' = [held EXCEPT ![r] = <<taken, n>>]
    BY <1>13 DEF Read
  <2>4. n \in Nat /\ taken \in Nat /\ n <= MaxOutput
    OBVIOUS
  <2>1. taken' \in 0 .. MaxOutput /\ held' \in [Sessions -> Nat \X Nat]
    <3>1. <<taken, n>> \in Nat \X Nat
      BY <2>4
    <3>2. held' \in [Sessions -> Nat \X Nat]
      BY <2>3, <3>1, Zenon
    <3> QED
      BY <2>3, <2>4, <3>2
  <2>2. target' \in [Sessions -> 0 .. MaxSessions] /\ reader' \in [Sessions -> ReaderPoints]
    BY <1>13 DEF Read, ReaderAt
  <2> QED
    BY <1>13, <2>1, <2>2 DEF Read
<1>14. ASSUME NEW r \in Sessions, ReadForNobody(r) PROVE TypeOK'
  <2>1. taken' \in 0 .. MaxOutput
    BY <1>14 DEF ReadForNobody
  <2>2. reader' \in [Sessions -> ReaderPoints]
    BY <1>14 DEF ReadForNobody, ReaderAt
  <2> QED
    BY <1>14, <2>1, <2>2 DEF ReadForNobody
<1>15. ASSUME NEW r \in Sessions, ReadTimesOut(r) PROVE TypeOK'
    BY <1>15 DEF ReadTimesOut, ReaderAt
<1>16. ASSUME NEW r \in Sessions, ReadRaises(r) PROVE TypeOK'
    BY <1>16 DEF ReadRaises, ReaderAt
<1>17. ASSUME NEW r \in Sessions, Send(r) PROVE TypeOK'
  <2>1. got \o Chunk(r) \in Seq(Nat) /\ delivered \o Chunk(r) \in Seq(Nat)
    BY <1>17, ChunkIsSeq, ConcatProperties DEF Send, SendingHolds
  <2>2. got' \in Seq(Nat) /\ delivered' \in Seq(Nat)
    BY <1>17, <2>1 DEF Send
  <2>3. held' \in [Sessions -> Nat \X Nat]
    <3>1. <<0, 0>> \in Nat \X Nat
      OBVIOUS
    <3> QED
      BY <1>17, <3>1, Zenon DEF Send, Drop
  <2>5. target' \in [Sessions -> 0 .. MaxSessions]
    BY <1>17 DEF Send, Drop
  <2>4. reader' \in [Sessions -> ReaderPoints]
    BY <1>17 DEF Send, ReaderAt
  <2> QED
    BY <1>17, <2>2, <2>3, <2>4, <2>5 DEF Send
<1>18. ASSUME NEW r \in Sessions, SendRaises(r) PROVE TypeOK'
    BY <1>18, SMTT(30) DEF SendRaises, ReaderAt, Drop
<1>19. ASSUME NEW r \in Sessions, ReaderExits(r) PROVE TypeOK'
    BY <1>19 DEF ReaderExits, ReaderAt
<1>20. ASSUME NEW r \in Sessions, Connect(r) PROVE TypeOK'
    BY <1>20 DEF Connect
<1>21. ASSUME NEW r \in Sessions, Disconnect(r) PROVE TypeOK'
    BY <1>21 DEF Disconnect
<1>22. CASE UNCHANGED vars
    BY <1>22 DEF vars
<1> QED
    BY <1>1, <1>2, <1>3, <1>4, <1>5, <1>6, <1>7, <1>8, <1>9, <1>10, <1>11, <1>12, <1>13,
       <1>14, <1>15, <1>16, <1>17, <1>18, <1>19, <1>20, <1>21, <1>22
    DEF Next, MainStep, ReaderStep
-----------------------------------------------------------------------------
(* Sessions and their readers *)

\* Every step keeps SessionOpen: only the main thread opens and closes sessions.
LEMMA SessionOpenStep == TypeOK /\ SessionOpen /\ [Next]_vars => SessionOpen'
<1> SUFFICES ASSUME TypeOK, SessionOpen, [Next]_vars PROVE SessionOpen'
    OBVIOUS
<1> USE BoundsAssumption DEF TypeOK, SessionOpen, InSession, Sessions
<1>1. CASE Accept
    BY <1>1 DEF Accept
<1>2. CASE Begin \/ MainLoop \/ Recv \/ RecvFails \/ RecvEnd
    BY <1>2 DEF Begin, MainLoop, Recv, RecvFails, RecvEnd
<1>3. CASE Cleanup \/ Restore \/ RestoreRaises
    BY <1>3 DEF Cleanup, Restore, RestoreRaises
<1>4. ASSUME NEW s \in Sessions, Connect(s) \/ Disconnect(s) PROVE SessionOpen'
    BY <1>4 DEF Connect, Disconnect, mainVars
<1>5. CASE UNCHANGED <<mainVars, client>>
    BY <1>5 DEF mainVars
<1> QED
    BY <1>1, <1>2, <1>3, <1>4, <1>5
    DEF Next, MainStep, ReaderStep, ReaderLoop, Read, ReadForNobody, ReadTimesOut, ReadRaises,
        Send, SendRaises, ReaderExits, Emit, Unplug, vars

\* Every step keeps SendingHolds.
LEMMA SendingHoldsStep == TypeOK /\ SendingHolds /\ SessionOpen /\ [Next]_vars => SendingHolds'
<1> SUFFICES ASSUME TypeOK, SendingHolds, SessionOpen, [Next]_vars PROVE SendingHolds'
    OBVIOUS
<1> USE BoundsAssumption DEF TypeOK, SendingHolds
<1>1. CASE Begin \/ RestoreRaises
    BY <1>1 DEF Begin, RestoreRaises
<1>2. ASSUME NEW r \in Sessions, Read(r) PROVE SendingHolds'
  <2>1. PICK n \in taken + 1 .. emitted : held' = [held EXCEPT ![r] = <<taken, n>>]
    BY <1>2 DEF Read
  <2>2. held'[r] = <<taken, n>> /\ taken < n
    BY <2>1
  <2>3. \A o \in Sessions \ {r} : held'[o] = held[o]
    BY <2>1
  <2> QED
    BY <1>2, <2>2, <2>3 DEF Read, ReaderAt
<1>3. ASSUME NEW r \in Sessions, Send(r) \/ SendRaises(r) PROVE SendingHolds'
    BY <1>3 DEF Send, SendRaises, ReaderAt, Drop
<1>4. ASSUME NEW r \in Sessions,
             \/ ReaderLoop(r) \/ ReadForNobody(r) \/ ReadTimesOut(r) \/ ReadRaises(r)
             \/ ReaderExits(r)
      PROVE  SendingHolds'
    BY <1>4 DEF ReaderLoop, ReadForNobody, ReadTimesOut, ReadRaises, ReaderExits, ReaderAt
<1>5. CASE UNCHANGED readerVars
    BY <1>5 DEF readerVars
<1> QED
    BY <1>1, <1>2, <1>3, <1>4, <1>5
    DEF Next, MainStep, ReaderStep, Accept, MainLoop, Recv, RecvFails, RecvEnd, Cleanup,
        Restore, Connect, Disconnect, Emit, Unplug, vars

\* Every step keeps Alone: only conn's reader can take a step.
LEMMA AloneStep ==
    TypeOK /\ SessionOpen /\ Alone /\ [Next]_vars => Alone'
<1> SUFFICES ASSUME TypeOK, SessionOpen, Alone, [Next]_vars PROVE Alone'
    OBVIOUS
<1> USE DEF TypeOK, SessionOpen, Alone, InSession
<1>1. CASE Accept
  <2>1. ~overlap' => NoReader
    BY <1>1, Zenon DEF Accept
  <2>2. main' = "negotiate" /\ reader' = reader /\ conn' = accepted + 1 /\ conn' \in Sessions
    BY <1>1, BoundsAssumption DEF Accept, readerVars, Sessions
  <2> QED
    BY <2>1, <2>2 DEF NoReader
<1>2. CASE Begin
    BY <1>2 DEF Begin
<1>3. CASE MainLoop \/ Recv \/ RecvFails \/ RecvEnd \/ Cleanup
    BY <1>3 DEF MainLoop, Recv, RecvFails, RecvEnd, Cleanup, readerVars, outputVars
<1>4. CASE Restore \/ RestoreRaises
    BY <1>4 DEF Restore, RestoreRaises
<1>5. ASSUME NEW r \in Sessions, ReaderStep(r) PROVE Alone'
  <2>1. UNCHANGED mainVars /\ reader[r] # "none"
    BY <1>5 DEF ReaderStep, ReaderLoop, Read, ReadForNobody, ReadTimesOut, ReadRaises, Send,
                SendRaises, ReaderExits
  <2>2. \E p \in ReaderPoints : reader' = [reader EXCEPT ![r] = p]
    BY <1>5 DEF ReaderStep, ReaderLoop, Read, ReadForNobody, ReadTimesOut, ReadRaises, Send,
                SendRaises, ReaderExits, ReaderAt, ReaderPoints
  <2>3. reader'[r] = "send" => target'[r] = conn /\ held'[r][2] = taken'
    BY <1>5 DEF ReaderStep, ReaderLoop, Read, ReadForNobody, ReadTimesOut, ReadRaises, Send,
                SendRaises, ReaderExits, ReaderAt
  <2> QED
    BY <2>1, <2>2, <2>3 DEF mainVars
<1>6. CASE UNCHANGED <<mainVars, readerVars, taken>>
    BY <1>6 DEF mainVars, readerVars
<1> QED
    BY <1>1, <1>2, <1>3, <1>4, <1>5, <1>6
    DEF Next, MainStep, Connect, Disconnect, Emit, Unplug, vars, outputVars

\* Every step keeps Served.
LEMMA ServedStep ==
    TypeOK /\ SessionOpen /\ Alone /\ Served /\ [Next]_vars => Served'
<1> SUFFICES ASSUME TypeOK, SessionOpen, Alone, Served, [Next]_vars PROVE Served'
    OBVIOUS
<1> USE DEF TypeOK, SessionOpen, Alone, InSession, Served
<1>1. CASE Begin
    BY <1>1 DEF Begin
<1>2. CASE Accept \/ RecvFails \/ RecvEnd \/ Cleanup \/ Restore \/ RestoreRaises
    BY <1>2 DEF Accept, RecvFails, RecvEnd, Cleanup, Restore, RestoreRaises
<1>3. CASE MainLoop \/ Recv
    BY <1>3 DEF MainLoop, Recv, readerVars
<1>4. ASSUME NEW r \in Sessions, ReaderStep(r) PROVE Served'
  <2> SUFFICES ASSUME main \in {"loop", "recv"}, present, ~overlap, client[conn] = "connected"
               PROVE  reader'[conn] \in {"loop", "read", "send"} /\ alive'
    BY <1>4 DEF ReaderStep, ReaderLoop, Read, ReadForNobody, ReadTimesOut, ReadRaises, Send,
                SendRaises, ReaderExits, mainVars
  <2>1. reader[r] # "none"
    BY <1>4 DEF ReaderStep, ReaderLoop, Read, ReadForNobody, ReadTimesOut, ReadRaises, Send,
                SendRaises, ReaderExits
  <2>2. r = conn /\ conn # 0 /\ alive /\ sock = conn
    BY <2>1, BoundsAssumption DEF Sessions
  <2>3. \A o \in Sessions \ {r} : reader[o] = "none"
    BY <2>2
  <2>4. CASE ReaderLoop(r) \/ Read(r) \/ ReadTimesOut(r) \/ Send(r)
    BY <2>2, <2>4 DEF ReaderLoop, Read, ReadTimesOut, Send, ReaderAt
  <2>5. ~ReadForNobody(r) /\ ~ReadRaises(r) /\ ~SendRaises(r) /\ ~ReaderExits(r)
    BY <2>2, <2>3 DEF ReadForNobody, ReadRaises, SendRaises, ReaderExits
  <2> QED
    BY <1>4, <2>4, <2>5 DEF ReaderStep
<1>5. ASSUME NEW s \in Sessions, Connect(s) \/ Disconnect(s) PROVE Served'
  <2>1. main \in {"loop", "recv"} /\ client'[conn] = "connected" => client[conn] = "connected"
    BY <1>5 DEF Connect, Disconnect
  <2> QED
    BY <1>5, <2>1 DEF Connect, Disconnect, mainVars, readerVars
<1>6. CASE Emit \/ Unplug \/ UNCHANGED vars
    BY <1>6 DEF Emit, Unplug, vars, mainVars, readerVars
<1> QED
    BY <1>1, <1>2, <1>3, <1>4, <1>5, <1>6 DEF Next, MainStep
-----------------------------------------------------------------------------
(* The output *)

\* Appending the numbers after the last one keeps a sequence of consecutive numbers.
LEMMA AppendConsecutive ==
    ASSUME NEW a \in Seq(Nat), NEW b \in Seq(Nat), NEW n \in Nat,
           \A i \in 1 .. Len(a) - 1 : a[i + 1] = a[i] + 1,
           a # <<>> => a[Len(a)] = n,
           \A i \in 1 .. Len(b) : b[i] = n + i
    PROVE  \A i \in 1 .. Len(a \o b) - 1 : (a \o b)[i + 1] = (a \o b)[i] + 1
<1> DEFINE c == a \o b
<1>1. /\ Len(a) \in Nat /\ Len(b) \in Nat
      /\ Len(c) = Len(a) + Len(b)
      /\ \A i \in 1 .. Len(a) + Len(b) :
            c[i] = IF i <= Len(a) THEN a[i] ELSE b[i - Len(a)]
    BY ConcatProperties, LenProperties
<1>2. a = <<>> \/ Len(a) > 0
    BY EmptySeq, LenProperties
<1> HIDE DEF c
<1> SUFFICES ASSUME NEW i \in 1 .. Len(c) - 1 PROVE c[i + 1] = c[i] + 1
    BY DEF c
<1>3. i \in 1 .. Len(a) + Len(b) /\ i + 1 \in 1 .. Len(a) + Len(b)
    BY <1>1
<1>4. CASE i + 1 <= Len(a)
  <2>1. c[i] = a[i] /\ c[i + 1] = a[i + 1] /\ i \in 1 .. Len(a) - 1
    BY <1>1, <1>3, <1>4
  <2> QED
    BY <2>1
<1>5. CASE i = Len(a)
  <2>1. c[i] = n /\ c[i + 1] = b[1] /\ 1 \in 1 .. Len(b)
    BY <1>1, <1>2, <1>3, <1>5
  <2> QED
    BY <2>1
<1>6. CASE i > Len(a)
  <2>1. c[i] = b[i - Len(a)] /\ c[i + 1] = b[i + 1 - Len(a)]
    BY <1>1, <1>3, <1>6
  <2>2. i - Len(a) \in 1 .. Len(b) /\ i + 1 - Len(a) \in 1 .. Len(b)
    BY <1>1, <1>3, <1>6
  <2>3. b[i - Len(a)] = n + (i - Len(a)) /\ b[i + 1 - Len(a)] = n + (i + 1 - Len(a))
    BY <2>2
  <2> QED
    BY <1>1, <2>1, <2>3
<1> QED
    BY <1>1, <1>3, <1>4, <1>5, <1>6

\* Send extends what an undisturbed client has got by the chunk that follows it.
LEMMA SendInOrder ==
    ASSUME IInv, NEW r \in Sessions, Send(r), ~overlap, client[target[r]] = "connected"
    PROVE  /\ r = conn /\ InSession
           /\ \A i \in 1 .. Len(got') - 1 : got'[i + 1] = got'[i] + 1
           /\ got'[Len(got')] = held[r][2]
<1> USE DEF IInv
<1>1. reader[r] = "send" /\ target[r] # 0 /\ sock = target[r] /\ held[r][1] < held[r][2]
    BY DEF Send, SendingHolds
<1>2. InSession
    BY <1>1 DEF SessionOpen, InSession, TypeOK, MainPoints
<1>3. r = conn /\ client[conn] = "connected"
    BY <1>1, <1>2 DEF Alone, SessionOpen
<1>4. got' = got \o Chunk(r)
    BY DEF Send
<1>5. /\ got \in Seq(Nat)
      /\ held[r][1] \in Nat /\ held[r][2] \in Nat
    BY DEF TypeOK
<1>6. /\ Chunk(r) \in Seq(Nat)
      /\ Len(Chunk(r)) = held[r][2] - held[r][1]
      /\ \A i \in 1 .. Len(Chunk(r)) : Chunk(r)[i] = held[r][1] + i
    BY <1>1, ChunkIsSeq
<1>7. \A i \in 1 .. Len(got) - 1 : got[i + 1] = got[i] + 1
    BY DEF UndisturbedInOrder
<1>8. got # <<>> => got[Len(got)] = held[r][1]
    BY <1>1, <1>2, <1>3 DEF GotUpTo
<1>9. \A i \in 1 .. Len(got') - 1 : got'[i + 1] = got'[i] + 1
    BY <1>4, <1>5, <1>6, <1>7, <1>8, AppendConsecutive
<1>10. got'[Len(got')] = held[r][2]
  <2>1. /\ Len(got') = Len(got) + Len(Chunk(r)) /\ Len(got) \in Nat
        /\ \A i \in 1 .. Len(got) + Len(Chunk(r)) :
              got'[i] = IF i <= Len(got) THEN got[i] ELSE Chunk(r)[i - Len(got)]
    BY <1>4, <1>5, <1>6, ConcatProperties, LenProperties
  <2>2. Len(Chunk(r)) \in Nat /\ Len(Chunk(r)) > 0
    BY <1>1, <1>5, <1>6
  <2>3. got'[Len(got')] = Chunk(r)[Len(Chunk(r))]
    BY <2>1, <2>2
  <2>4. Chunk(r)[Len(Chunk(r))] = held[r][1] + (held[r][2] - held[r][1])
    BY <1>6, <2>2
  <2>5. held[r][1] + (held[r][2] - held[r][1]) = held[r][2]
    BY <1>5
  <2> QED
    BY <2>3, <2>4, <2>5, Zenon
<1> QED
    BY <1>2, <1>3, <1>9, <1>10

\* Every step keeps GotUpTo and UndisturbedInOrder.
LEMMA OutputStep == IInv /\ [Next]_vars => GotUpTo' /\ UndisturbedInOrder'
<1> SUFFICES ASSUME IInv, [Next]_vars PROVE GotUpTo' /\ UndisturbedInOrder'
    OBVIOUS
<1> USE DEF IInv
<1>1. CASE Accept
  <2>1. got' = <<>> /\ Len(got') = 0
    BY <1>1 DEF Accept
  <2> QED
    BY <2>1 DEF GotUpTo, UndisturbedInOrder
<1>2. CASE Begin
    BY <1>2 DEF Begin, GotUpTo, UndisturbedInOrder, InSession, SessionOpen, Alone, TypeOK, outputVars
<1>3. CASE \/ MainLoop \/ Recv \/ RecvFails \/ RecvEnd \/ Cleanup \/ Restore
           \/ RestoreRaises
    BY <1>3 DEF MainLoop, Recv, RecvFails, RecvEnd, Cleanup, Restore, RestoreRaises, GotUpTo,
                UndisturbedInOrder, InSession, outputVars, readerVars
<1>4. ASSUME NEW r \in Sessions, Send(r) PROVE GotUpTo' /\ UndisturbedInOrder'
  <2>1. UNCHANGED <<mainVars, client, taken>> /\ reader'[r] = "loop"
    BY <1>4 DEF Send, ReaderAt, TypeOK
  <2>2. CASE ~overlap /\ client[target[r]] = "connected"
    <3>1. /\ r = conn /\ InSession
          /\ \A i \in 1 .. Len(got') - 1 : got'[i + 1] = got'[i] + 1
          /\ got'[Len(got')] = held[r][2]
      BY <1>4, <2>2, SendInOrder
    <3>2. held[r][2] = taken
      BY <1>4, <2>2, <3>1 DEF Alone, Send
    <3> QED
      BY <2>1, <3>1, <3>2 DEF GotUpTo, UndisturbedInOrder, mainVars
  <2>3. CASE ~overlap /\ client[target[r]] # "connected"
    <3>1. got' = got
      BY <1>4, <2>3 DEF Send
    <3>2. target[r] # 0 /\ sock = target[r]
      BY <1>4 DEF Send, SendingHolds
    <3>3. InSession /\ sock = conn
      BY <3>2 DEF SessionOpen, InSession, TypeOK, MainPoints
    <3> QED
      BY <2>1, <2>3, <3>1, <3>2, <3>3 DEF GotUpTo, UndisturbedInOrder, mainVars
  <2>4. CASE overlap
    BY <2>1, <2>4 DEF GotUpTo, UndisturbedInOrder, mainVars
  <2> QED
    BY <2>2, <2>3, <2>4 DEF TypeOK
<1>5. ASSUME NEW r \in Sessions, Read(r) PROVE GotUpTo' /\ UndisturbedInOrder'
  <2>1. UNCHANGED <<mainVars, client, got>> /\ reader'[r] = "send" /\ reader[r] = "read"
    BY <1>5 DEF Read, ReaderAt, TypeOK
  <2>2. held'[r][1] = taken
    BY <1>5 DEF Read, TypeOK
  <2>3. ~overlap /\ InSession => r = conn
    BY <2>1 DEF Alone
  <2> QED
    BY <2>1, <2>2, <2>3 DEF GotUpTo, UndisturbedInOrder, mainVars, InSession
<1>6. ASSUME NEW r \in Sessions, ReadForNobody(r) PROVE GotUpTo' /\ UndisturbedInOrder'
  <2>1. ~InSession
    BY <1>6, BoundsAssumption DEF ReadForNobody, SessionOpen, Sessions
  <2> QED
    BY <1>6, <2>1 DEF ReadForNobody, GotUpTo, UndisturbedInOrder, InSession, mainVars
<1>7. ASSUME NEW r \in Sessions, SendRaises(r) PROVE GotUpTo' /\ UndisturbedInOrder'
  <2>1. UNCHANGED <<mainVars, client, outputVars>> /\ reader[r] = "send"
    BY <1>7 DEF SendRaises
  <2>2. ~overlap /\ InSession => r = conn /\ client[conn] # "connected"
    BY <1>7, <2>1 DEF SendRaises, Alone, SessionOpen
  <2> QED
    BY <2>1, <2>2 DEF GotUpTo, UndisturbedInOrder, mainVars, outputVars, InSession
<1>8. ASSUME NEW r \in Sessions,
             ReaderLoop(r) \/ ReadTimesOut(r) \/ ReadRaises(r) \/ ReaderExits(r)
      PROVE  GotUpTo' /\ UndisturbedInOrder'
  <2>1. /\ UNCHANGED <<mainVars, client, outputVars, held>>
        /\ \E p \in ReaderPoints \ {"send"} : reader' = [reader EXCEPT ![r] = p]
        /\ reader[r] # "send"
    BY <1>8 DEF ReaderLoop, ReadTimesOut, ReadRaises, ReaderExits, ReaderAt, ReaderPoints
  <2>2. InSession => (reader'[conn] = "send" <=> reader[conn] = "send")
    BY <2>1 DEF TypeOK
  <2> QED
    BY <2>1, <2>2 DEF GotUpTo, UndisturbedInOrder, mainVars, outputVars, InSession
<1>9. ASSUME NEW s \in Sessions, Connect(s) \/ Disconnect(s)
      PROVE  GotUpTo' /\ UndisturbedInOrder'
  <2>1. InSession /\ client'[conn] = "connected" => client[conn] = "connected"
    BY <1>9 DEF Connect, Disconnect, SessionOpen, TypeOK
  <2> QED
    BY <1>9, <2>1 DEF Connect, Disconnect, GotUpTo, UndisturbedInOrder, mainVars, readerVars,
                      outputVars, InSession
<1>10. CASE Emit \/ Unplug \/ UNCHANGED vars
    BY <1>10 DEF Emit, Unplug, GotUpTo, UndisturbedInOrder, mainVars, readerVars, outputVars,
                 vars, InSession
<1> QED
    BY <1>1, <1>2, <1>3, <1>4, <1>5, <1>6, <1>7, <1>8, <1>9, <1>10
    DEF Next, MainStep, ReaderStep

-----------------------------------------------------------------------------
(* Delivery *)

\* The chunk a reader sends becomes the last part of what was delivered.
LEMMA DeliveredGrows ==
    ASSUME TypeOK, SendingHolds, NEW r \in Sessions, Send(r)
    PROVE  \A i \in 1 .. Len(delivered') :
              \/ \E j \in 1 .. Len(delivered) : delivered'[i] = delivered[j]
              \/ held[r][1] < delivered'[i] /\ delivered'[i] <= held[r][2]
<1>1. /\ Chunk(r) \in Seq(Nat)
      /\ Len(Chunk(r)) = held[r][2] - held[r][1]
      /\ \A i \in 1 .. Len(Chunk(r)) : Chunk(r)[i] = held[r][1] + i
    BY ChunkIsSeq DEF Send, SendingHolds
<1>2. delivered \in Seq(Nat) /\ held[r][1] \in Nat /\ held[r][2] \in Nat
    BY DEF TypeOK
<1>3. CASE delivered' = delivered
    BY <1>3
<1>4. CASE delivered' = delivered \o Chunk(r)
  <2>1. /\ Len(delivered) \in Nat /\ Len(Chunk(r)) \in Nat
        /\ Len(delivered') = Len(delivered) + Len(Chunk(r))
        /\ \A i \in 1 .. Len(delivered) + Len(Chunk(r)) :
              delivered'[i] = IF i <= Len(delivered) THEN delivered[i]
                              ELSE Chunk(r)[i - Len(delivered)]
    BY <1>1, <1>2, <1>4, ConcatProperties, LenProperties
  <2> SUFFICES ASSUME NEW i \in 1 .. Len(delivered')
               PROVE  \/ \E j \in 1 .. Len(delivered) : delivered'[i] = delivered[j]
                      \/ held[r][1] < delivered'[i] /\ delivered'[i] <= held[r][2]
    OBVIOUS
  <2>2. CASE i <= Len(delivered)
    BY <2>1, <2>2
  <2>3. CASE i > Len(delivered)
    <3>1. i - Len(delivered) \in 1 .. Len(Chunk(r))
      BY <2>1, <2>3
    <3>2. delivered'[i] = held[r][1] + (i - Len(delivered))
      BY <1>1, <2>1, <2>3, <3>1
    <3>3. ASSUME NEW a \in Nat, NEW b \in Nat, NEW k \in 1 .. b - a
          PROVE  a < a + k /\ a + k <= b
      BY <3>3
    <3>4. i - Len(delivered) \in 1 .. held[r][2] - held[r][1]
      BY <1>1, <3>1, Zenon
    <3> QED
      BY <1>2, <3>2, <3>3, <3>4, Zenon
  <2> QED
    BY <2>1, <2>2, <2>3
<1> QED
    BY <1>3, <1>4 DEF Send

\* What was delivered stays a sequence of numbers.
LEMMA DeliveredNat ==
    ASSUME TypeOK, SendingHolds, NEW r \in Sessions, Send(r)
    PROVE  \A i \in 1 .. Len(delivered') : delivered'[i] \in Nat
<1>1. delivered \in Seq(Nat) /\ Chunk(r) \in Seq(Nat)
    BY ChunkIsSeq DEF Send, SendingHolds, TypeOK
<1>2. delivered' \in Seq(Nat)
    BY <1>1, ConcatProperties DEF Send
<1> QED
    BY <1>2, ElementOfSeq

\* Every step keeps ChunksApart: a reader takes what nobody has taken.
LEMMA ChunksApartStep ==
    TypeOK /\ SendingHolds /\ ChunksApart /\ [Next]_vars => ChunksApart'
<1> SUFFICES ASSUME TypeOK, SendingHolds, ChunksApart, [Next]_vars PROVE ChunksApart'
    OBVIOUS
<1>0. /\ \A r \in Sessions : held[r][1] \in Nat /\ held[r][2] \in Nat
      /\ \A i \in 1 .. Len(delivered) : delivered[i] \in Nat
      /\ taken \in Nat /\ emitted \in Nat /\ reader \in [Sessions -> ReaderPoints]
      /\ held \in [Sessions -> Nat \X Nat]
    BY BoundsAssumption, ElementOfSeq DEF TypeOK
<1>1. ASSUME NEW r \in Sessions, Read(r) PROVE ChunksApart'
  <2>1. PICK n \in taken + 1 .. emitted :
           taken' = n /\ held' = [held EXCEPT ![r] = <<taken, n>>]
    BY <1>1 DEF Read
  <2>2. /\ delivered' = delivered /\ emitted' = emitted
        /\ reader'[r] = "send" /\ \A o \in Sessions \ {r} : reader'[o] = reader[o]
    BY <1>0, <1>1 DEF Read, ReaderAt
  <2>3. /\ held'[r][1] = taken /\ held'[r][2] = n
        /\ \A o \in Sessions \ {r} : held'[o] = held[o]
    BY <1>0, <2>1
  <2>4. n \in Nat /\ taken < n /\ n <= emitted
    BY <1>0, <2>1
  <2> QED
    BY <1>0, <2>1, <2>2, <2>3, <2>4 DEF ChunksApart, Apart
<1>2. ASSUME NEW r \in Sessions, Send(r) PROVE ChunksApart'
  <2>1. /\ reader[r] = "send" /\ taken' = taken /\ emitted' = emitted
        /\ reader'[r] = "loop"
        /\ \A o \in Sessions \ {r} : reader'[o] = reader[o] /\ held'[o] = held[o]
    BY <1>0, <1>2 DEF Send, ReaderAt, Drop
  <2>2. \A i \in 1 .. Len(delivered') :
              \/ \E j \in 1 .. Len(delivered) : delivered'[i] = delivered[j]
              \/ held[r][1] < delivered'[i] /\ delivered'[i] <= held[r][2]
    BY <1>2, DeliveredGrows
  <2>3. \A i \in 1 .. Len(delivered') : delivered'[i] \in Nat
    BY <1>0, <1>2, DeliveredNat
  <2>4. ASSUME NEW i \in 1 .. Len(delivered')
        PROVE  /\ 0 < delivered'[i] /\ delivered'[i] <= taken
               /\ \A o \in Sessions \ {r} :
                     reader[o] = "send" => \/ delivered'[i] <= held[o][1]
                                           \/ held[o][2] < delivered'[i]
    <3>1. ASSUME NEW j \in 1 .. Len(delivered), delivered'[i] = delivered[j]
          PROVE  /\ 0 < delivered'[i] /\ delivered'[i] <= taken
                 /\ \A o \in Sessions \ {r} :
                       reader[o] = "send" => \/ delivered'[i] <= held[o][1]
                                             \/ held[o][2] < delivered'[i]
      BY <3>1 DEF ChunksApart
    <3>2. CASE held[r][1] < delivered'[i] /\ delivered'[i] <= held[r][2]
      <4>1. delivered'[i] \in Nat
        BY <2>3
      <4>2. held[r][2] <= taken
        BY <2>1 DEF ChunksApart
      <4>3. \A o \in Sessions \ {r} :
               reader[o] = "send" => held[r][2] <= held[o][1] \/ held[o][2] <= held[r][1]
        BY <2>1 DEF ChunksApart, Apart
      <4>4. 0 < delivered'[i] /\ delivered'[i] <= taken
        BY <1>0, <3>2, <4>1, <4>2
      <4>5. ASSUME NEW o \in Sessions \ {r}, reader[o] = "send"
            PROVE  delivered'[i] <= held[o][1] \/ held[o][2] < delivered'[i]
        BY <1>0, <3>2, <4>1, <4>3, <4>5
      <4> QED
        BY <4>4, <4>5
    <3> QED
      BY <2>2, <3>1, <3>2
  <2> QED
    BY <2>1, <2>4 DEF ChunksApart
<1>3. ASSUME NEW r \in Sessions, ReadForNobody(r) PROVE ChunksApart'
  <2>1. /\ taken' \in taken + 1 .. emitted
        /\ UNCHANGED <<emitted, held, delivered>>
        /\ reader' = [reader EXCEPT ![r] = "exit"]
    BY <1>3 DEF ReadForNobody, ReaderAt
  <2> QED
    BY <1>0, <2>1 DEF ChunksApart
<1>4. ASSUME NEW r \in Sessions, SendRaises(r) PROVE ChunksApart'
  <2>1. /\ UNCHANGED <<taken, emitted, delivered>> /\ reader'[r] = "exit"
        /\ \A o \in Sessions \ {r} : reader'[o] = reader[o] /\ held'[o] = held[o]
    BY <1>0, <1>4 DEF SendRaises, ReaderAt, Drop, outputVars
  <2> QED
    BY <2>1 DEF ChunksApart
<1>5. CASE /\ taken' = taken /\ emitted' >= emitted /\ emitted' \in Nat
           /\ UNCHANGED <<held, delivered>>
           /\ \A o \in Sessions : reader'[o] = "send" => reader[o] = "send"
    BY <1>0, <1>5 DEF ChunksApart
<1>6. CASE Begin \/ RestoreRaises
  <2>1. \A o \in Sessions : reader'[o] = "send" => reader[o] = "send"
    BY <1>0, <1>6 DEF Begin, RestoreRaises
  <2> QED
    BY <1>0, <1>5, <1>6, <2>1 DEF Begin, RestoreRaises, outputVars
<1>7. ASSUME NEW r \in Sessions,
             ReaderLoop(r) \/ ReadTimesOut(r) \/ ReadRaises(r) \/ ReaderExits(r)
      PROVE  ChunksApart'
  <2>1. \A o \in Sessions : reader'[o] = "send" => reader[o] = "send"
    BY <1>0, <1>7 DEF ReaderLoop, ReadTimesOut, ReadRaises, ReaderExits, ReaderAt
  <2> QED
    BY <1>0, <1>5, <1>7, <2>1
    DEF ReaderLoop, ReadTimesOut, ReadRaises, ReaderExits, outputVars
<1>8. CASE UNCHANGED <<readerVars, outputVars>>
    BY <1>0, <1>5, <1>8 DEF readerVars, outputVars
<1>9. CASE Emit \/ Accept
    BY <1>0, <1>5, <1>9 DEF Emit, Accept, readerVars
<1> QED
    BY <1>1, <1>2, <1>3, <1>4, <1>6, <1>7, <1>8, <1>9
    DEF Next, MainStep, ReaderStep, MainLoop, Recv, RecvFails, RecvEnd, Cleanup, Restore,
        Connect, Disconnect, Unplug, vars

\* A send to a connected client hands on a chunk that nobody got before.
LEMMA SendDelivers ==
    ASSUME TypeOK, SendingHolds, ChunksApart, NEW r \in Sessions, Send(r)
    PROVE  [D!Next]_<<emitted, delivered>>
<1>1. /\ reader[r] = "send" /\ emitted' = emitted
      /\ held[r][1] \in Nat /\ held[r][2] \in Nat /\ held[r][1] < held[r][2]
    BY DEF Send, SendingHolds, TypeOK
<1>2. held[r][2] <= emitted /\ emitted \in Nat
    BY <1>1, BoundsAssumption DEF ChunksApart, TypeOK
<1>3. \A i \in 1 .. Len(delivered) : delivered[i] \notin held[r][1] + 1 .. held[r][2]
  <2>1. \A i \in 1 .. Len(delivered) : delivered[i] \in Nat
    BY ElementOfSeq DEF TypeOK
  <2>2. \A i \in 1 .. Len(delivered) : delivered[i] <= held[r][1] \/ held[r][2] < delivered[i]
    BY <1>1 DEF ChunksApart
  <2> QED
    BY <1>1, <2>1, <2>2
<1>4. CASE client[target[r]] = "connected"
  <2>1. delivered' = delivered \o [i \in 1 .. held[r][2] - held[r][1] |-> held[r][1] + i]
    BY <1>4 DEF Send, Chunk
  <2>2. D!Deliver(held[r][1], held[r][2])
    BY <1>1, <1>3, <2>1 DEF D!Deliver
  <2>3. held[r][2] \in 1 .. emitted /\ held[r][1] \in 0 .. held[r][2] - 1
    BY <1>1, <1>2
  <2> QED
    BY <2>2, <2>3 DEF D!Next
<1>5. CASE client[target[r]] # "connected"
    BY <1>1, <1>5 DEF Send
<1> QED
    BY <1>4, <1>5

-----------------------------------------------------------------------------
(* The theorems *)

\* The initial state satisfies the invariant.
LEMMA InitIInv == Init => IInv
<1> SUFFICES ASSUME Init PROVE IInv
    OBVIOUS
<1> USE BoundsAssumption DEF Init
<1>1. TypeOK
  <2>1. <<0, 0>> \in Nat \X Nat
    OBVIOUS
  <2>2. held \in [Sessions -> Nat \X Nat]
    BY <2>1, Zenon
  <2>3. got \in Seq(Nat) /\ delivered \in Seq(Nat)
    BY EmptySeq
  <2>4. /\ main \in MainPoints
        /\ conn \in 0 .. MaxSessions /\ sock \in 0 .. MaxSessions /\ accepted \in 0 .. MaxSessions
        /\ emitted \in 0 .. MaxOutput /\ taken \in 0 .. MaxOutput
    BY DEF MainPoints
  <2>5. /\ reader \in [Sessions -> ReaderPoints]
        /\ target \in [Sessions -> 0 .. MaxSessions]
        /\ client \in [Sessions -> {"new", "connected", "gone"}]
    BY DEF ReaderPoints
  <2>6. alive \in BOOLEAN /\ present \in BOOLEAN /\ overlap \in BOOLEAN /\ port \in SUBSET Controls
    OBVIOUS
  <2> QED
    BY <2>2, <2>3, <2>4, <2>5, <2>6, Zenon DEF TypeOK
<1>2. SessionOpen /\ SendingHolds /\ Alone
    BY DEF SessionOpen, SendingHolds, Alone, InSession
<1>3. Served /\ GotUpTo /\ UndisturbedInOrder /\ IdlePortReleased
    BY DEF Served, GotUpTo, UndisturbedInOrder, IdlePortReleased, InSession
<1>4. ChunksApart
    BY DEF ChunksApart
<1> QED
    BY <1>1, <1>2, <1>3, <1>4 DEF IInv

\* The port is touched by a session only.
LEMMA IdlePortStep == TypeOK /\ IdlePortReleased /\ [Next]_vars => IdlePortReleased'
<1> SUFFICES ASSUME TypeOK, IdlePortReleased, [Next]_vars PROVE IdlePortReleased'
    OBVIOUS
<1>1. CASE MainStep \/ Recv
    BY <1>1 DEF IdlePortReleased, MainStep, Accept, Begin, MainLoop, Recv, RecvFails, RecvEnd,
                Cleanup, Restore, RestoreRaises
<1>2. CASE UNCHANGED <<main, port>>
    BY <1>2 DEF IdlePortReleased
<1> QED
    BY <1>1, <1>2
    DEF Next, ReaderStep, ReaderLoop, Read, ReadForNobody, ReadTimesOut, ReadRaises, Send,
        SendRaises, ReaderExits, Connect, Disconnect, Emit, Unplug, vars, mainVars

\* Every step keeps the invariant.
LEMMA IInvStep == IInv /\ [Next]_vars => IInv'
    BY TypeOKStep, SessionOpenStep, SendingHoldsStep, AloneStep, ServedStep, OutputStep,
       IdlePortStep, ChunksApartStep DEF IInv

\* The invariant holds in every state.
LEMMA Invariance == Spec => []IInv
<1>1. Init => IInv
    BY InitIInv
<1>2. IInv /\ [Next]_vars => IInv'
    BY IInvStep
<1> QED
    BY <1>1, <1>2, PTL DEF Spec

\* Variables of main and of its readers keep their types.
THEOREM TypeCorrect == Spec => []TypeOK
<1>1. IInv => TypeOK
    BY DEF IInv
<1> QED
    BY <1>1, Invariance, PTL

\* However a session ended, and whatever readers are left, the next client finds the port
\* released.
THEOREM IdlePortIsReleased == Spec => []IdlePortReleased
<1>1. IInv => IdlePortReleased
    BY DEF IInv
<1> QED
    BY <1>1, Invariance, PTL

\* A connected client of a present device is served, unless an earlier reader ran into its
\* session.
THEOREM ClientsAreServed == Spec => []ServedUnlessOverlap
<1>1. IInv => ServedUnlessOverlap
    BY DEF IInv, Served, ServedUnlessOverlap
<1> QED
    BY <1>1, Invariance, PTL

\* The same exception is the only one to the order of the output.
THEOREM OutputInOrder == Spec => []UndisturbedInOrder
<1>1. IInv => UndisturbedInOrder
    BY DEF IInv
<1> QED
    BY <1>1, Invariance, PTL

\* The server implements Delivery, with any number of readers that outlive their sessions.
THEOREM HandsOnOnce == Spec => HandedOnOnce
<1>1. Init => D!Init
    BY DEF Init, D!Init
<1>2. IInv /\ [Next]_vars => [D!Next]_(D!vars)
  <2> SUFFICES ASSUME IInv, [Next]_vars PROVE [D!Next]_<<emitted, delivered>>
    BY DEF D!vars
  <2>1. ASSUME NEW r \in Sessions, Send(r) PROVE [D!Next]_<<emitted, delivered>>
    BY <2>1, SendDelivers DEF IInv
  <2>2. CASE Emit
    BY <2>2 DEF Emit, D!Next, D!Make
  <2>3. CASE UNCHANGED <<emitted, delivered>>
    BY <2>3
  <2> QED
    BY <2>1, <2>2, <2>3
    DEF Next, MainStep, ReaderStep, Accept, Begin, MainLoop, Recv, RecvFails, RecvEnd, Cleanup,
        Restore, RestoreRaises, ReaderLoop, Read, ReadForNobody, ReadTimesOut, ReadRaises,
        SendRaises, ReaderExits, Connect, Disconnect, Unplug, vars, outputVars
<1> QED
    BY <1>1, <1>2, Invariance, PTL DEF Spec, HandedOnOnce, D!Spec
=============================================================================
