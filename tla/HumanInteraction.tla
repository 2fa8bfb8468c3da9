-------------------------- MODULE HumanInteraction --------------------------
(***************************************************************************)
(* Human interaction (FR-017): test scripts block on                       *)
(* POST /api/human-interaction until the operator clicks Done or Cancel on  *)
(* the portal's page, or a timeout.  The page (the JavaScript in pi/portal.py) *)
(* polls for the pending request and shows its message in an overlay.       *)
(*                                                                         *)
(* A request stands for its handler thread, its threading.Event and its     *)
(* message.  Every section under _human_lock is one action.                 *)
(***************************************************************************)
EXTENDS Naturals, FiniteSets

CONSTANTS
    Requests, NoRequest,
    MaxPolls       \* bound: polls of the page that are under way at a time

ASSUME RequestsAssumption == NoRequest \notin Requests
ASSUME PollsAssumption == MaxPolls \in Nat

VARIABLES
    event,         \* _human_event and _human_message: the pending request
    isSet,         \* _human_event.is_set()
    confirmed,     \* _human_confirmed
    pc,            \* where each handler is
    responded,     \* what wait() returned to it
    answer,        \* what it answered
    overlay,       \* humanPending and the message the page shows
    status,        \* answers to the page's polls, on their way
    click,         \* the click of each button: where it is, and what was shown
    acked          \* the click that the portal acknowledged for each request

pageVars == <<overlay, status, click>>
vars == <<event, isSet, confirmed, pc, responded, answer, pageVars, acked>>

Kinds == {"done", "cancel"}
Shown == Requests \cup {NoRequest}
Clicks == [kind : Kinds, shown : Shown]
NoClick == [kind |-> "none", shown |-> NoRequest]
NotClicked == [at |-> "page", shown |-> NoRequest]

TypeOK ==
    /\ event \in Shown
    /\ isSet \in BOOLEAN /\ confirmed \in BOOLEAN
    /\ pc \in [Requests -> {"idle", "wait", "answer", "done"}]
    /\ responded \in [Requests -> BOOLEAN]
    /\ answer \in [Requests -> {"none", "busy", "confirmed", "cancelled", "timeout"}]
    /\ overlay \in Shown
    /\ status \in SUBSET Shown
    /\ click \in [Kinds -> [at : {"page", "sent", "ok", "error"}, shown : Shown]]
    /\ acked \in [Requests -> Clicks \cup {NoClick}]

Init ==
    /\ event = NoRequest /\ isSet = FALSE /\ confirmed = FALSE
    /\ pc = [r \in Requests |-> "idle"]
    /\ responded = [r \in Requests |-> FALSE]
    /\ answer = [r \in Requests |-> "none"]
    /\ overlay = NoRequest /\ status = {}
    /\ click = [k \in Kinds |-> NotClicked]
    /\ acked = [r \in Requests |-> NoClick]

-----------------------------------------------------------------------------
(* POST /api/human-interaction *)

\* Mutant: no look at the pending request.
PostUnchecked(r) ==
    /\ pc[r] = "idle"
    /\ event' = r /\ isSet' = FALSE /\ confirmed' = FALSE
    /\ pc' = [pc EXCEPT ![r] = "wait"]
    /\ UNCHANGED <<responded, answer, pageVars, acked>>

Post(r) ==
    /\ pc[r] = "idle" /\ event = NoRequest
    /\ event' = r /\ isSet' = FALSE /\ confirmed' = FALSE
    /\ pc' = [pc EXCEPT ![r] = "wait"]
    /\ UNCHANGED <<responded, answer, pageVars, acked>>

\* "another request pending"
PostBusy(r) ==
    /\ pc[r] = "idle" /\ event # NoRequest
    /\ pc' = [pc EXCEPT ![r] = "done"]
    /\ answer' = [answer EXCEPT ![r] = "busy"]
    /\ UNCHANGED <<event, isSet, confirmed, responded, pageVars, acked>>

\* wait() returns because the event is set.
Wake(r) ==
    /\ pc[r] = "wait" /\ isSet
    /\ pc' = [pc EXCEPT ![r] = "answer"]
    /\ responded' = [responded EXCEPT ![r] = TRUE]
    /\ UNCHANGED <<event, isSet, confirmed, answer, pageVars, acked>>

\* Mutant: wait() without a timeout.
NoTimeout(r) ==
    /\ FALSE
    /\ UNCHANGED vars

\* wait() gives up.
Timeout(r) ==
    /\ pc[r] = "wait" /\ ~isSet
    /\ pc' = [pc EXCEPT ![r] = "answer"]
    /\ UNCHANGED <<event, isSet, confirmed, responded, answer, pageVars, acked>>

\* Mutant: a request that timed out stays pending.
AnswerKeepsPending(r) ==
    /\ pc[r] = "answer"
    /\ event' = IF responded[r] THEN NoRequest ELSE event
    /\ pc' = [pc EXCEPT ![r] = "done"]
    /\ answer' = [answer EXCEPT ![r] =
           IF ~responded[r] THEN "timeout" ELSE IF confirmed THEN "confirmed" ELSE "cancelled"]
    /\ UNCHANGED <<isSet, confirmed, responded, pageVars, acked>>

\* The second section under the lock, and the answer.
Answer(r) ==
    /\ pc[r] = "answer"
    /\ event' = NoRequest
    /\ pc' = [pc EXCEPT ![r] = "done"]
    /\ answer' = [answer EXCEPT ![r] =
           IF ~responded[r] THEN "timeout" ELSE IF confirmed THEN "confirmed" ELSE "cancelled"]
    /\ UNCHANGED <<isSet, confirmed, responded, pageVars, acked>>

-----------------------------------------------------------------------------
(* The page: its requests and the answers to them take time, and may overtake
   each other. *)

\* _handle_human_status
HandleStatus ==
    /\ Cardinality(status) < MaxPolls
    /\ status' = status \cup {IF isSet THEN NoRequest ELSE event}
    /\ UNCHANGED <<event, isSet, confirmed, pc, responded, answer, overlay, click, acked>>

\* fetchHuman gets the answer: the text changes only if the overlay was hidden.
ShowStatus(s) ==
    /\ s \in status
    /\ status' = status \ {s}
    /\ overlay' = IF s # NoRequest /\ overlay # NoRequest THEN overlay ELSE s
    /\ UNCHANGED <<event, isSet, confirmed, pc, responded, answer, click, acked>>

\* The operator reads the overlay and clicks; the button is disabled until the
\* portal has answered.
Click(k) ==
    /\ overlay # NoRequest /\ click[k] = NotClicked
    /\ click' = [click EXCEPT ![k] = [at |-> "sent", shown |-> overlay]]
    /\ UNCHANGED <<event, isSet, confirmed, pc, responded, answer, overlay, status, acked>>

\* Mutant: no look at is_set().
HandleClickAgain(k) ==
    /\ click[k].at = "sent" /\ event # NoRequest
    /\ confirmed' = (k = "done") /\ isSet' = TRUE
    /\ acked' = [acked EXCEPT ![event] =
           IF @ = NoClick THEN [kind |-> k, shown |-> click[k].shown] ELSE @]
    /\ click' = [click EXCEPT ![k].at = "ok"]
    /\ UNCHANGED <<event, pc, responded, answer, overlay, status>>

\* _handle_human_done and _handle_human_cancel
HandleClick(k) ==
    /\ click[k].at = "sent" /\ event # NoRequest /\ ~isSet
    /\ confirmed' = (k = "done") /\ isSet' = TRUE
    /\ acked' = [acked EXCEPT ![event] = [kind |-> k, shown |-> click[k].shown]]
    /\ click' = [click EXCEPT ![k].at = "ok"]
    /\ UNCHANGED <<event, pc, responded, answer, overlay, status>>

\* "no pending request"
HandleClickTooLate(k) ==
    /\ click[k].at = "sent" /\ (event = NoRequest \/ isSet)
    /\ click' = [click EXCEPT ![k].at = "error"]
    /\ UNCHANGED <<event, isSet, confirmed, pc, responded, answer, overlay, status, acked>>

\* The page hides the overlay if the click was accepted, and enables the button.
ClickAnswered(k) ==
    /\ click[k].at \in {"ok", "error"}
    /\ overlay' = IF click[k].at = "ok" THEN NoRequest ELSE overlay
    /\ click' = [click EXCEPT ![k] = NotClicked]
    /\ UNCHANGED <<event, isSet, confirmed, pc, responded, answer, status, acked>>

-----------------------------------------------------------------------------
(* The specification *)

Handler(r) == Wake(r) \/ Timeout(r) \/ Answer(r)

Next ==
    \/ \E r \in Requests : Post(r) \/ PostBusy(r) \/ Handler(r)
    \/ HandleStatus \/ \E s \in Shown : ShowStatus(s)
    \/ \E k \in Kinds : Click(k) \/ HandleClick(k) \/ HandleClickTooLate(k) \/ ClickAnswered(k)

Spec == Init /\ [][Next]_vars

\* wait() has a timeout, and handlers run.
FairSpec == Spec /\ \A r \in Requests : WF_vars(Handler(r))

-----------------------------------------------------------------------------
(* Properties *)

Waiting(r) == pc[r] \in {"wait", "answer"}

\* A request is pending exactly while its handler waits for it or is about to answer:
\* the portal never refuses every later request because of one that is gone, and never
\* lets two scripts wait at a time.
PendingIsWaited == \A r \in Requests : event = r <=> Waiting(r)

(* The rest of the inductive invariant *)

\* The pending request has an acknowledged click exactly when its event is set, and
\* _human_confirmed says which.
ClickRecorded ==
    /\ \A r \in Requests :
          /\ pc[r] = "idle" => acked[r] = NoClick
          /\ answer[r] \in {"confirmed", "cancelled"} => pc[r] = "done"
          /\ event = r => (isSet <=> acked[r] # NoClick)
          /\ event = r /\ isSet => (confirmed <=> acked[r].kind = "done")
          /\ pc[r] = "wait" => ~responded[r]
          /\ pc[r] = "answer" /\ responded[r] => isSet
          /\ pc[r] = "idle" => ~responded[r] /\ answer[r] = "none"

\* A script is told "confirmed" or "cancelled" only if the operator clicked just that
\* while its request was pending, and the first click counts: neither an earlier
\* request's click nor a second click changes the answer.
AnswerMatchesClick ==
    \A r \in Requests :
        /\ answer[r] = "confirmed" => acked[r].kind = "done"
        /\ answer[r] = "cancelled" => acked[r].kind = "cancel"

\* The portal implements Questions: the open question is the pending request, and the
\* decision about it is _human_confirmed once the event is set.
Decision ==
    IF event = NoRequest \/ ~isSet THEN "none" ELSE IF confirmed THEN "confirmed" ELSE "cancelled"

Q == INSTANCE Questions WITH open <- event, verdict <- Decision

RefinesQuestions == Q!Spec

\* Every request is answered, whatever the operator does.
AllAnswered == \A r \in Requests : pc[r] = "wait" ~> pc[r] = "done"

\* Whatever polls are late or overtake each other, what the page shows was posted.
ShownPosted ==
    /\ \A s \in status \cup {overlay} : s \in Requests => pc[s] # "idle"
    /\ \A k \in Kinds : click[k].shown \in Requests => pc[click[k].shown] # "idle"

\* A click is taken for the request whose message the operator was shown, or for a later
\* one: never for another while the one shown is still pending.
ClickForShownOrLater ==
    \A r \in Requests :
        acked[r] # NoClick /\ acked[r].shown \notin {r, NoRequest}
            => pc[acked[r].shown] = "done"
=============================================================================
