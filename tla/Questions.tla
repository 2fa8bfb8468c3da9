----------------------------- MODULE Questions ------------------------------
(***************************************************************************)
(* What the operator's desk promises the test scripts: one question is open *)
(* at a time and others are refused, the first decision about it counts,    *)
(* and the script that asked is told that decision, or that nobody decided  *)
(* in time.  A decision that comes when the script has just given up is     *)
(* lost: the script is told of the timeout.                                *)
(***************************************************************************)
CONSTANTS Requests, NoRequest

VARIABLES
    open,          \* the question that is open, or NoRequest
    verdict,       \* the decision about it, if there is one
    answer         \* what each script was told

vars == <<open, verdict, answer>>

Verdicts == {"confirmed", "cancelled"}

Init ==
    /\ open = NoRequest /\ verdict = "none"
    /\ answer = [r \in Requests |-> "none"]

Ask(r) ==
    /\ open = NoRequest /\ answer[r] = "none"
    /\ open' = r
    /\ UNCHANGED <<verdict, answer>>

Refuse(r) ==
    /\ open \notin {r, NoRequest} /\ answer[r] = "none"
    /\ answer' = [answer EXCEPT ![r] = "busy"]
    /\ UNCHANGED <<open, verdict>>

Decide(v) ==
    /\ open # NoRequest /\ verdict = "none"
    /\ verdict' = v
    /\ UNCHANGED <<open, answer>>

\* The script that asked is answered, once; the next question finds no decision.
Tell(r) ==
    /\ open = r
    /\ \E v \in {verdict, "timeout"} \ {"none"} : answer' = [answer EXCEPT ![r] = v]
    /\ open' = NoRequest /\ verdict' = "none"

Next ==
    \/ \E r \in Requests : Ask(r) \/ Refuse(r) \/ Tell(r)
    \/ \E v \in Verdicts : Decide(v)

Spec == Init /\ [][Next]_vars
=============================================================================
