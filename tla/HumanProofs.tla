---------------------------- MODULE HumanProofs -----------------------------
(***************************************************************************)
(* Proofs about HumanInteraction, for any number of requests and of polls.  *)
(***************************************************************************)
EXTENDS HumanInteraction, TLAPS

\* The inductive invariant: ClickRecorded ties the answer that a handler is about to
\* give to the click that the portal acknowledged.
IInv == TypeOK /\ PendingIsWaited /\ ClickRecorded /\ AnswerMatchesClick

\* What the properties of the requests depend on; the page changes none of it.
portalVars == <<event, isSet, confirmed, pc, responded, answer, acked>>

\* The initial state satisfies the invariant.
LEMMA InitIInv == Init => IInv
<1> SUFFICES ASSUME Init PROVE IInv
    OBVIOUS
<1>1. TypeOK
    BY DEF Init, TypeOK, Shown, NotClicked
<1>2. PendingIsWaited
    BY RequestsAssumption DEF Init, PendingIsWaited, Waiting
<1>3. ClickRecorded
    BY RequestsAssumption DEF Init, ClickRecorded
<1>4. AnswerMatchesClick
    BY DEF Init, AnswerMatchesClick
<1> QED
    BY <1>1, <1>2, <1>3, <1>4 DEF IInv

\* Every action keeps the types.
LEMMA TypeOKStep == TypeOK /\ [Next]_vars => TypeOK'
<1> SUFFICES ASSUME TypeOK, [Next]_vars PROVE TypeOK'
    OBVIOUS
<1> USE DEF TypeOK, Shown
<1>1. ASSUME NEW r \in Requests, Post(r) \/ PostBusy(r) PROVE TypeOK'
    BY <1>1, ZenonT(60) DEF Post, PostBusy, pageVars
<1>2. ASSUME NEW r \in Requests, Wake(r) \/ Timeout(r) PROVE TypeOK'
    BY <1>2 DEF Wake, Timeout, pageVars
<1>3. ASSUME NEW r \in Requests, Answer(r) PROVE TypeOK'
    BY <1>3 DEF Answer, pageVars
<1>4. CASE HandleStatus
    BY <1>4 DEF HandleStatus
<1>5. ASSUME NEW s \in Shown, ShowStatus(s) PROVE TypeOK'
    BY <1>5 DEF ShowStatus
<1>6. ASSUME NEW k \in Kinds, Click(k) PROVE TypeOK'
    BY <1>6 DEF Click
<1>7. ASSUME NEW k \in Kinds, HandleClick(k) PROVE TypeOK'
  <2>1. click[k].shown \in Shown /\ event \in Requests
    BY <1>7 DEF HandleClick
  <2>2. acked' \in [Requests -> Clicks \cup {NoClick}]
    BY <1>7, <2>1 DEF HandleClick, Clicks, NoClick
  <2>3. click' \in [Kinds -> [at : {"page", "sent", "ok", "error"}, shown : Shown]]
    BY <1>7 DEF HandleClick
  <2> QED
    BY <1>7, <2>2, <2>3 DEF HandleClick
<1>8. ASSUME NEW k \in Kinds, HandleClickTooLate(k) PROVE TypeOK'
    BY <1>8 DEF HandleClickTooLate
<1>9. ASSUME NEW k \in Kinds, ClickAnswered(k) PROVE TypeOK'
    BY <1>9 DEF ClickAnswered, NotClicked
<1>10. CASE UNCHANGED vars
    BY <1>10 DEF vars, pageVars
<1> QED
    BY <1>1, <1>2, <1>3, <1>4, <1>5, <1>6, <1>7, <1>8, <1>9, <1>10 DEF Next, Handler

\* Every step keeps the invariant.
LEMMA IInvStep == IInv /\ [Next]_vars => IInv'
<1> SUFFICES ASSUME IInv, [Next]_vars PROVE IInv'
    OBVIOUS
<1>0. TypeOK'
    BY TypeOKStep DEF IInv
<1> DEFINE Rest == PendingIsWaited /\ ClickRecorded /\ AnswerMatchesClick
<1>1. ASSUME NEW r \in Requests, Post(r) PROVE Rest'
  <2>1. PendingIsWaited'
    BY <1>1, RequestsAssumption DEF IInv, TypeOK, PendingIsWaited, Waiting, Post
  <2>2. ClickRecorded'
    BY <1>1, RequestsAssumption
       DEF IInv, TypeOK, PendingIsWaited, ClickRecorded, Waiting, Post
  <2>3. AnswerMatchesClick'
    BY <1>1 DEF IInv, AnswerMatchesClick, Post
  <2> QED
    BY <2>1, <2>2, <2>3
<1>2. ASSUME NEW r \in Requests, PostBusy(r) PROVE Rest'
  <2>1. PendingIsWaited'
    BY <1>2 DEF IInv, TypeOK, PendingIsWaited, Waiting, PostBusy
  <2>2. ClickRecorded'
    BY <1>2 DEF IInv, TypeOK, ClickRecorded, PostBusy
  <2>3. AnswerMatchesClick'
    BY <1>2 DEF IInv, TypeOK, AnswerMatchesClick, PostBusy
  <2> QED
    BY <2>1, <2>2, <2>3
<1>3. ASSUME NEW r \in Requests, Wake(r) \/ Timeout(r) PROVE Rest'
  <2>1. event = r
    BY <1>3 DEF IInv, PendingIsWaited, Waiting, Wake, Timeout
  <2>2. PendingIsWaited'
    BY <1>3 DEF IInv, TypeOK, PendingIsWaited, Waiting, Wake, Timeout
  <2>3. ClickRecorded'
    BY <1>3, <2>1 DEF IInv, TypeOK, ClickRecorded, Wake, Timeout
  <2>4. AnswerMatchesClick'
    BY <1>3 DEF IInv, AnswerMatchesClick, Wake, Timeout
  <2> QED
    BY <2>2, <2>3, <2>4
<1>4. ASSUME NEW r \in Requests, Answer(r) PROVE Rest'
  <2>1. event = r
    BY <1>4 DEF IInv, PendingIsWaited, Waiting, Answer
  <2>2. PendingIsWaited'
    BY <1>4, <2>1, RequestsAssumption DEF IInv, TypeOK, PendingIsWaited, Waiting, Answer
  <2>3. ClickRecorded'
    BY <1>4, <2>1, RequestsAssumption
       DEF IInv, TypeOK, PendingIsWaited, ClickRecorded, Waiting, Answer
  <2>4. answer'[r] \in {"confirmed", "cancelled"} => responded[r] /\ isSet
    BY <1>4, <2>1 DEF IInv, TypeOK, ClickRecorded, Answer
  <2>5. responded[r] /\ isSet => acked[r].kind = IF confirmed THEN "done" ELSE "cancel"
    BY <2>1 DEF IInv, TypeOK, ClickRecorded, Clicks, Kinds, NoClick
  <2>6. AnswerMatchesClick'
    BY <1>4, <2>4, <2>5 DEF IInv, TypeOK, AnswerMatchesClick, Answer
  <2> QED
    BY <2>2, <2>3, <2>6
<1>5. ASSUME NEW k \in Kinds, HandleClick(k) PROVE Rest'
  <2>1. event \in Requests /\ Waiting(event)
    BY <1>5 DEF IInv, TypeOK, Shown, PendingIsWaited, HandleClick
  <2>2. PendingIsWaited'
    BY <1>5 DEF IInv, PendingIsWaited, Waiting, HandleClick
  <2>3. acked'[event] = [kind |-> k, shown |-> click[k].shown] /\ acked'[event] # NoClick
    BY <1>5, <2>1 DEF IInv, TypeOK, HandleClick, NoClick, Kinds
  <2>4. ClickRecorded'
    BY <1>5, <2>1, <2>3 DEF IInv, TypeOK, ClickRecorded, Waiting, HandleClick, Kinds
  <2>5. AnswerMatchesClick'
    BY <1>5, <2>1 DEF IInv, TypeOK, ClickRecorded, AnswerMatchesClick, Waiting, HandleClick
  <2> QED
    BY <2>2, <2>4, <2>5
<1>6. ASSUME UNCHANGED portalVars PROVE Rest'
    BY <1>6 DEF IInv, PendingIsWaited, ClickRecorded, AnswerMatchesClick, Waiting, portalVars
<1>7. ASSUME NEW k \in Kinds, Click(k) \/ HandleClickTooLate(k) \/ ClickAnswered(k)
      PROVE UNCHANGED portalVars
    BY <1>7 DEF Click, HandleClickTooLate, ClickAnswered, portalVars
<1>8. ASSUME NEW s \in Shown, ShowStatus(s) PROVE UNCHANGED portalVars
    BY <1>8 DEF ShowStatus, portalVars
<1>9. HandleStatus \/ UNCHANGED vars => UNCHANGED portalVars
    BY DEF HandleStatus, vars, portalVars
<1> QED
    BY <1>0, <1>1, <1>2, <1>3, <1>4, <1>5, <1>6, <1>7, <1>8, <1>9
       DEF Next, Handler, IInv

\* The invariant holds in every state of every behaviour.
THEOREM HumanInvariant == Spec => []IInv
<1> QED
    BY InitIInv, IInvStep, PTL DEF Spec

\* The portal holds a request pending exactly while its handler waits for the operator
\* or is about to answer (_human_event between the two sections under _human_lock), so
\* no request blocks later ones for good and no two wait at a time.
THEOREM PendingAlwaysWaited == Spec => []PendingIsWaited
<1>1. IInv => PendingIsWaited
    BY DEF IInv
<1> QED
    BY <1>1, HumanInvariant, PTL

\* What a script is told is the first click that the portal acknowledged for its own
\* request, whatever clicks, polls, timeouts and other requests come in between.
THEOREM AnswersMatchClicks == Spec => []AnswerMatchesClick
<1>1. IInv => AnswerMatchesClick
    BY DEF IInv
<1> QED
    BY <1>1, HumanInvariant, PTL

\* The invariant about what the operator was shown, relative to IInv.
ShownInv == ShownPosted /\ ClickForShownOrLater

\* A request that was posted stays posted, and one that was answered stays answered.
LEMMA PcProgress ==
    ASSUME IInv, [Next]_vars, NEW r \in Requests
    PROVE  /\ pc[r] # "idle" => pc'[r] # "idle"
           /\ pc[r] = "done" => pc'[r] = "done"
<1> USE DEF IInv, TypeOK
<1>1. ASSUME NEW q \in Requests, Post(q) \/ PostBusy(q)
      PROVE  /\ pc[r] # "idle" => pc'[r] # "idle"
             /\ pc[r] = "done" => pc'[r] = "done"
    BY <1>1 DEF Post, PostBusy
<1>2. ASSUME NEW q \in Requests, Handler(q)
      PROVE  /\ pc[r] # "idle" => pc'[r] # "idle"
             /\ pc[r] = "done" => pc'[r] = "done"
    BY <1>2 DEF Handler, Wake, Timeout, Answer
<1>3. ASSUME NEW k \in Kinds,
             Click(k) \/ HandleClick(k) \/ HandleClickTooLate(k) \/ ClickAnswered(k)
      PROVE  pc' = pc
    BY <1>3 DEF Click, HandleClick, HandleClickTooLate, ClickAnswered
<1>4. ASSUME NEW s \in Shown, ShowStatus(s) PROVE pc' = pc
    BY <1>4 DEF ShowStatus
<1>5. HandleStatus \/ UNCHANGED vars => pc' = pc
    BY DEF HandleStatus, vars
<1> QED
    BY <1>1, <1>2, <1>3, <1>4, <1>5 DEF Next

\* The page only shows what the portal reported as pending.
LEMMA ShownPostedStep == IInv /\ ShownPosted /\ [Next]_vars => ShownPosted'
<1> SUFFICES ASSUME IInv, ShownPosted, [Next]_vars PROVE ShownPosted'
    OBVIOUS
<1> USE DEF IInv, TypeOK
<1>0. \A r \in Requests : pc[r] # "idle" => pc'[r] # "idle"
    BY PcProgress
<1>1. ASSUME UNCHANGED pageVars PROVE ShownPosted'
    BY <1>0, <1>1 DEF ShownPosted, pageVars
<1>2. ASSUME NEW r \in Requests, Post(r) \/ PostBusy(r) \/ Handler(r) PROVE UNCHANGED pageVars
    BY <1>2 DEF Post, PostBusy, Handler, Wake, Timeout, Answer
<1>3. CASE HandleStatus
  <2>1. event \in Requests => pc[event] # "idle"
    BY DEF PendingIsWaited, Waiting
  <2> QED
    BY <1>0, <1>3, <2>1, RequestsAssumption DEF ShownPosted, HandleStatus, Shown
<1>4. ASSUME NEW s \in Shown, ShowStatus(s) PROVE ShownPosted'
    BY <1>0, <1>4 DEF ShownPosted, ShowStatus, Shown
<1>5. ASSUME NEW k \in Kinds, Click(k) PROVE ShownPosted'
    BY <1>0, <1>5 DEF ShownPosted, Click, Shown
<1>6. ASSUME NEW k \in Kinds, HandleClick(k) \/ HandleClickTooLate(k) PROVE ShownPosted'
    BY <1>0, <1>6 DEF ShownPosted, HandleClick, HandleClickTooLate, Shown
<1>7. ASSUME NEW k \in Kinds, ClickAnswered(k) PROVE ShownPosted'
    BY <1>0, <1>7, RequestsAssumption DEF ShownPosted, ClickAnswered, Shown, NotClicked
<1>8. UNCHANGED vars => UNCHANGED pageVars
    BY DEF vars, pageVars
<1> QED
    BY <1>1, <1>2, <1>3, <1>4, <1>5, <1>6, <1>7, <1>8 DEF Next

\* A click that is taken for another request than the one shown finds that one answered,
\* since the portal keeps one request pending at a time.
LEMMA ClickForStep ==
    IInv /\ ShownPosted /\ ClickForShownOrLater /\ [Next]_vars => ClickForShownOrLater'
<1> SUFFICES ASSUME IInv, ShownPosted, ClickForShownOrLater, [Next]_vars
             PROVE  ClickForShownOrLater'
    OBVIOUS
<1> USE DEF IInv, TypeOK
<1>0. \A r \in Requests : pc[r] = "done" => pc'[r] = "done"
    BY PcProgress
<1>1. \A r \in Requests : acked[r] # NoClick => acked[r].shown \in Shown
    BY DEF Clicks
<1>2. ASSUME UNCHANGED acked PROVE ClickForShownOrLater'
    BY <1>0, <1>1, <1>2 DEF ClickForShownOrLater, Shown
<1>3. ASSUME NEW k \in Kinds, HandleClick(k) PROVE ClickForShownOrLater'
  <2>1. event \in Requests /\ pc' = pc
    BY <1>3 DEF HandleClick, Shown
  <2>2. acked' = [acked EXCEPT ![event] = [kind |-> k, shown |-> click[k].shown]]
    BY <1>3 DEF HandleClick
  <2>3. click[k].shown \in Requests /\ click[k].shown # event => pc[click[k].shown] = "done"
    BY <2>1 DEF ShownPosted, PendingIsWaited, Waiting
  <2>4. click[k].shown \in Shown
    BY <1>3
  <2> QED
    BY <1>1, <2>1, <2>2, <2>3, <2>4 DEF ClickForShownOrLater, Shown
<1>4. ASSUME NEW r \in Requests, Post(r) \/ PostBusy(r) \/ Handler(r) PROVE UNCHANGED acked
    BY <1>4 DEF Post, PostBusy, Handler, Wake, Timeout, Answer
<1>5. ASSUME NEW k \in Kinds, Click(k) \/ HandleClickTooLate(k) \/ ClickAnswered(k)
      PROVE  UNCHANGED acked
    BY <1>5 DEF Click, HandleClickTooLate, ClickAnswered
<1>6. ASSUME NEW s \in Shown, ShowStatus(s) PROVE UNCHANGED acked
    BY <1>6 DEF ShowStatus
<1>7. HandleStatus \/ UNCHANGED vars => UNCHANGED acked
    BY DEF HandleStatus, vars
<1> QED
    BY <1>2, <1>3, <1>4, <1>5, <1>6, <1>7 DEF Next

\* However late the page's polls are (fetchHuman), Done and Cancel answer the request
\* whose message is on the screen or a later one, never another while it is pending.
THEOREM ClicksForShownOrLater == Spec => []ClickForShownOrLater
<1>1. Init => ShownInv
    BY RequestsAssumption DEF Init, ShownInv, ShownPosted, ClickForShownOrLater, NotClicked
<1>2. IInv /\ ShownInv /\ [Next]_vars => ShownInv'
    BY ShownPostedStep, ClickForStep DEF ShownInv
<1>3. ShownInv => ClickForShownOrLater
    BY DEF ShownInv
<1> QED
    BY <1>1, <1>2, <1>3, HumanInvariant, PTL DEF Spec

-----------------------------------------------------------------------------
(* Refinement *)

\* The portal keeps what Questions promises, whatever clicks, timeouts and handlers
\* overtake each other: one question at a time, the first click counts, and no answer
\* comes from another request's click.
THEOREM HumanRefinesQuestions == Spec => RefinesQuestions
<1>1. Init => Q!Init
    BY DEF Init, Q!Init, Decision
<1>2. IInv /\ [Next]_vars => [Q!Next]_(Q!vars)
  <2> SUFFICES ASSUME IInv, [Next]_vars PROVE [Q!Next]_<<event, Decision, answer>>
    BY DEF Q!vars
  <2> USE RequestsAssumption DEF IInv, PendingIsWaited, Waiting, Decision
  <2>1. ASSUME NEW r \in Requests, Post(r) PROVE Q!Ask(r)
    BY <2>1 DEF Post, Q!Ask, ClickRecorded
  <2>2. ASSUME NEW r \in Requests, PostBusy(r) PROVE Q!Refuse(r)
    BY <2>2 DEF PostBusy, Q!Refuse, ClickRecorded
  <2>3. ASSUME NEW r \in Requests, Answer(r) PROVE Q!Tell(r)
    <3>1. event = r /\ (responded[r] => isSet)
      BY <2>3 DEF Answer, ClickRecorded
    <3>2. answer' = [answer EXCEPT ![r] = IF ~responded[r] THEN "timeout" ELSE Decision]
      BY <2>3, <3>1 DEF Answer
    <3>3. responded[r] => Decision # "none"
      BY <3>1
    <3>4. event' = NoRequest /\ Decision' = "none"
      BY <2>3 DEF Answer
    <3> QED
      BY <3>1, <3>2, <3>3, <3>4, Zenon DEF Q!Tell
  <2>4. ASSUME NEW k \in Kinds, HandleClick(k)
        PROVE  \E v \in Q!Verdicts : Q!Decide(v)
    BY <2>4 DEF HandleClick, Q!Verdicts, Q!Decide
  <2>5. CASE UNCHANGED <<event, isSet, confirmed, answer>>
    BY <2>5
  <2> QED
    BY <2>1, <2>2, <2>3, <2>4, <2>5
    DEF Next, Handler, Wake, Timeout, HandleStatus, ShowStatus, Click, HandleClickTooLate,
        ClickAnswered, vars, Q!Next
<1> QED
    BY <1>1, <1>2, HumanInvariant, PTL DEF Spec, RefinesQuestions, Q!Spec
=============================================================================
