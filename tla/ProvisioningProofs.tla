------------------------- MODULE ProvisioningProofs -------------------------
(***************************************************************************)
(* Proofs about Provisioning, for any number of requests and credentials.   *)
(***************************************************************************)
EXTENDS Provisioning, TLAPS

Station == {"sta", "connected", "failed"}

\* A request at work knows its credentials.
Asked == \A q \in Seqs : pc[q] \in Working \cup {"tested"} => ask[q] # None

\* The handlers run when the DUT can have been reached; both are gone when it starts.
HandlersAlive ==
    /\ post # "none" => dut = "portal" /\ form # None
    /\ dut = "boot" => reset = "none"

\* How the DUT started is what the keys say, until they are changed.
ModeFitsKeys ==
    /\ dut \in Station /\ reset = "none" => HasCredentials
    /\ dut = "portal" /\ post = "none" => ~HasCredentials

\* The two keys do not contradict each other.
Agree == ssid = None \/ pass = None \/ ssid = pass

\* As long as every update was regular, each handler finds the keys as it left them, and
\* they do not run together.
AllRegular ==
    irregular = 0 =>
        /\ post = "none" \/ reset = "none"
        /\ post = "none" /\ reset \in {"none", "ssid"} => ssid = pass
        /\ reset = "pass" => ssid = None
        /\ reset = "restart" => ssid = None /\ pass = None
        /\ dut = "portal" /\ reset # "none" => ssid = None /\ pass = None
        /\ post = "ssid" => ssid = None /\ pass = None
        /\ post = "pass" => ssid = form /\ pass = None
        /\ post = "restart" => ssid = form /\ pass = form

\* One irregular update cannot make them contradict each other, except while the password
\* is about to be replaced; a handler that runs together with the other one found no keys.
OneIrregular ==
    irregular = 1 =>
        /\ post # "pass" => Agree
        /\ post = "pass" /\ reset = "none" => ssid = form
        /\ post # "none" /\ reset # "none" => ssid \in {None, form} /\ pass \in {None, form}

IInv ==
    /\ TypeOK /\ Asked /\ HandlersAlive /\ ModeFitsKeys /\ AllRegular /\ OneIrregular
    /\ BusyMeansWorking

-----------------------------------------------------------------------------
(* Types *)

\* Every action keeps the types: a request at work has credentials to submit.
LEMMA TypeOKStep == TypeOK /\ Asked /\ [Next]_vars => TypeOK'
<1> SUFFICES ASSUME TypeOK, Asked, [Next]_vars PROVE TypeOK'
    OBVIOUS
<1> USE BoundsAssumption DEF TypeOK, Working, SeqAt, seqVars, radioVars, linkVars, flashVars, dutVars
<1>1. ASSUME NEW q \in Seqs, NEW c \in Creds, Test(q, c) PROVE TypeOK'
    BY <1>1 DEF Test
<1>2. ASSUME NEW q \in Seqs, Refuse(q) \/ Claim(q) \/ Finish(q) PROVE TypeOK'
  <2>1. CASE Refuse(q)
    BY <2>1 DEF Refuse
  <2>2. CASE Claim(q)
    BY <2>2 DEF Claim
  <2>3. CASE Finish(q)
    <3>1. /\ pc' \in [Seqs -> Working \cup {"new", "tested", "refused", "done"}]
          /\ ask' \in [Seqs -> Creds \cup {None}]
      BY <2>3 DEF Finish
    <3>2. running' \in BOOLEAN
      BY <2>3 DEF Finish
    <3>3. UNCHANGED <<radioVars, dutVars, others, disturbed>>
      BY <2>3 DEF Finish
    <3> QED
      BY <3>1, <3>2, <3>3
  <2> QED
    BY <1>2, <2>1, <2>2, <2>3
<1>3. ASSUME NEW q \in Seqs, Join(q) \/ JoinFails(q) PROVE TypeOK'
    BY <1>3 DEF Join, JoinFails, SaveAp
<1>4. ASSUME NEW q \in Seqs, Post(q) PROVE TypeOK'
    BY <1>4 DEF Post, Goes
<1>5. ASSUME NEW q \in Seqs, PostFails(q) \/ PostReturns(q) PROVE TypeOK'
    BY <1>5 DEF PostFails, PostReturns
<1>6. ASSUME NEW q \in Seqs, Leave(q) \/ LeaveFails(q) PROVE TypeOK'
    BY <1>6 DEF Leave, LeaveFails, StaLeave
<1>7. ASSUME NEW q \in Seqs, StartAp(q) \/ StartApFails(q) PROVE TypeOK'
  <2>1. radio' \in Creds \cup {"off", "sta"}
    BY <1>7, NamesAssumption DEF StartAp, StartApFails, Asked
  <2>2. CASE StartAp(q)
    BY <2>1, <2>2 DEF StartAp
  <2>3. CASE StartApFails(q)
    BY <2>1, <2>3 DEF StartApFails
  <2> QED
    BY <1>7, <2>2, <2>3
<1>8. CASE OtherClient
  <2>1. radio' \in Creds \cup {"off", "sta"} /\ saved' \in Creds \cup {None}
    BY <1>8 DEF OtherClient, SaveAp, StaLeave
  <2> QED
    BY <1>8, <2>1 DEF OtherClient
<1>9. CASE Boot \/ Associate \/ Disconnected \/ GivesUp
    BY <1>9 DEF Boot, Associate, Disconnected, GivesUp
<1>10. ASSUME NEW e \in BOOLEAN, SetSsid(e) \/ SetPass(e) PROVE TypeOK'
    BY <1>10 DEF SetSsid, SetPass, Goes
<1>11. ASSUME NEW e \in BOOLEAN, EraseSsid(e) \/ ErasePass(e) PROVE TypeOK'
    BY <1>11 DEF EraseSsid, ErasePass, Goes
<1>12. CASE WifiReset
    BY <1>12 DEF WifiReset
<1>13. CASE Restart \/ PowerCut
  <2>1. Reboot /\ UNCHANGED <<seqVars, ask, radioVars, flashVars, others>> /\ disturbed' \in BOOLEAN
    BY <1>13 DEF Restart, PowerCut
  <2>2. irregular' \in 0 .. MaxIrregular
    BY <2>1 DEF Reboot
  <2> QED
    BY <2>1, <2>2 DEF Reboot
<1>14. CASE UNCHANGED vars
    BY <1>14 DEF vars
<1> QED
    BY <1>1, <1>2, <1>3, <1>4, <1>5, <1>6, <1>7, <1>8, <1>9, <1>10, <1>11, <1>12, <1>13, <1>14
    DEF Next, SeqStep, DutStep

-----------------------------------------------------------------------------
(* The requests *)

\* Every step keeps what is known about the requests: the flag is cleared by the request
\* that ends, and set by one that starts to work.
LEMMA SeqStepKeeps ==
    TypeOK /\ Asked /\ BusyMeansWorking /\ [Next]_vars => Asked' /\ BusyMeansWorking'
<1> SUFFICES ASSUME TypeOK, Asked, BusyMeansWorking, [Next]_vars
             PROVE  Asked' /\ BusyMeansWorking'
    OBVIOUS
<1> USE NamesAssumption DEF TypeOK, Asked, BusyMeansWorking, Working, SeqAt
<1>1. ASSUME NEW q \in Seqs, NEW c \in Creds, Test(q, c) PROVE Asked' /\ BusyMeansWorking'
    BY <1>1 DEF Test
<1>2. ASSUME NEW q \in Seqs, Refuse(q) PROVE Asked' /\ BusyMeansWorking'
    BY <1>2 DEF Refuse
<1>3. ASSUME NEW q \in Seqs, Claim(q) PROVE Asked' /\ BusyMeansWorking'
    BY <1>3 DEF Claim
<1>4. ASSUME NEW q \in Seqs, Finish(q) PROVE Asked' /\ BusyMeansWorking'
    BY <1>4 DEF Finish
<1>5. ASSUME NEW q \in Seqs,
             \/ Join(q) \/ JoinFails(q) \/ Post(q) \/ PostFails(q) \/ PostReturns(q)
             \/ Leave(q) \/ LeaveFails(q) \/ StartAp(q) \/ StartApFails(q)
      PROVE  Asked' /\ BusyMeansWorking'
  <2>1. /\ pc[q] \in Working /\ UNCHANGED ask
        /\ \E p \in Working : pc' = [pc EXCEPT ![q] = p]
    BY <1>5 DEF Join, JoinFails, Post, PostFails, PostReturns, Leave, LeaveFails, StartAp,
                StartApFails
  <2> QED
    BY <2>1
<1>6. CASE UNCHANGED <<seqVars, ask>>
    BY <1>6 DEF seqVars
<1> QED
    BY <1>1, <1>2, <1>3, <1>4, <1>5, <1>6
    DEF Next, SeqStep, DutStep, OtherClient, WifiReset, PowerCut, Boot, Associate,
        Disconnected, GivesUp, Restart, SetSsid, SetPass, EraseSsid, ErasePass, vars

-----------------------------------------------------------------------------
(* The stored credentials *)

KeysInv == HandlersAlive /\ ModeFitsKeys /\ AllRegular /\ OneIrregular

\* The number of irregular updates after one that went wrong, or not.
LEMMA GoesCounts ==
    ASSUME TypeOK, NEW wrong \in BOOLEAN, Goes(wrong)
    PROVE  /\ irregular' = 0 => irregular = 0 /\ ~wrong
           /\ irregular' = 1 => \/ irregular = 0 /\ wrong
                                \/ irregular = 1 /\ ~wrong
<1>1. irregular \in Nat
    BY BoundsAssumption DEF TypeOK
<1>2. CASE wrong
  <2>1. irregular' = irregular + 1
    BY <1>2 DEF Goes
  <2> QED
    BY <1>1, <1>2, <2>1
<1>3. CASE ~wrong
    BY <1>1, <1>3 DEF Goes
<1> QED
    BY <1>2, <1>3

\* The handler of POST /connect.
LEMMA PostKeeps ==
    ASSUME TypeOK, Asked, KeysInv,
           \/ \E q \in Seqs : Post(q)
           \/ \E e \in BOOLEAN : SetSsid(e) \/ SetPass(e)
    PROVE  KeysInv'
<1> USE DEF KeysInv, HandlersAlive, ModeFitsKeys, AllRegular, OneIrregular, HasCredentials, Agree,
            Station
<1>1. ASSUME NEW q \in Seqs, Post(q) PROVE KeysInv'
  <2>1. /\ UNCHANGED <<dut, reset, ssid, pass>> /\ dut = "portal" /\ post = "none"
        /\ post' = "ssid" /\ form' = ask[q] /\ ask[q] # None
    BY <1>1 DEF Post, Asked, Working, linkVars, flashVars
  <2>2. /\ irregular' = 0 => irregular = 0 /\ reset = "none"
        /\ irregular' = 1 => \/ irregular = 0 /\ reset # "none"
                             \/ irregular = 1 /\ reset = "none"
    BY <1>1, GoesCounts DEF Post
  <2> QED
    BY <2>1, <2>2
<1>2. ASSUME NEW e \in BOOLEAN, SetSsid(e) PROVE KeysInv'
  <2>1. /\ UNCHANGED <<dut, reset, form, pass>> /\ post = "ssid"
        /\ ssid' = IF e THEN ssid ELSE form
        /\ post' = IF e THEN "restart" ELSE "pass"
    BY <1>2 DEF SetSsid, linkVars
  <2>2. /\ irregular' = 0 => irregular = 0 /\ ~e
        /\ irregular' = 1 => (irregular = 0 /\ e) \/ (irregular = 1 /\ ~e)
    BY <1>2, GoesCounts DEF SetSsid
  <2> QED
    BY <2>1, <2>2
<1>3. ASSUME NEW e \in BOOLEAN, SetPass(e) PROVE KeysInv'
  <2>1. /\ UNCHANGED <<dut, reset, form, ssid>> /\ post = "pass"
        /\ pass' = (IF e THEN pass ELSE form) /\ post' = "restart"
    BY <1>3 DEF SetPass, linkVars
  <2>2. /\ irregular' = 0 => irregular = 0 /\ ~e
        /\ irregular' = 1 => (irregular = 0 /\ e) \/ (irregular = 1 /\ ~e)
    BY <1>3, GoesCounts DEF SetPass
  <2> QED
    BY <2>1, <2>2
<1> QED
    BY <1>1, <1>2, <1>3

\* The handler of POST /wifi-reset.
LEMMA ResetKeeps ==
    ASSUME TypeOK, KeysInv,
           WifiReset \/ \E e \in BOOLEAN : EraseSsid(e) \/ ErasePass(e)
    PROVE  KeysInv'
<1> USE DEF KeysInv, HandlersAlive, ModeFitsKeys, AllRegular, OneIrregular, HasCredentials, Agree,
            Station
<1>1. CASE WifiReset
  <2>1. /\ UNCHANGED <<dut, post, form, ssid, pass>> /\ reset = "none" /\ reset' = "ssid"
        /\ dut \in {"connected", "portal"}
    BY <1>1 DEF WifiReset, linkVars, flashVars
  <2>2. /\ irregular' = 0 => irregular = 0 /\ post = "none"
        /\ irregular' = 1 => \/ irregular = 0 /\ post # "none"
                             \/ irregular = 1 /\ post = "none"
    <3>1. irregular \in Nat
      BY BoundsAssumption DEF TypeOK
    <3>2. CASE post = "none"
      BY <1>1, <3>1, <3>2 DEF WifiReset
    <3>3. CASE post # "none"
      <4>1. irregular' = irregular + 1
        BY <1>1, <3>3 DEF WifiReset
      <4> QED
        BY <3>1, <3>3, <4>1
    <3> QED
      BY <3>2, <3>3
  <2>3. post' \in {"none", "ssid", "pass", "restart"}
    BY <2>1 DEF TypeOK
  <2> QED
    BY <2>1, <2>2, <2>3
<1>2. ASSUME NEW e \in BOOLEAN, EraseSsid(e) PROVE KeysInv'
  <2>1. /\ UNCHANGED <<dut, post, form, pass>> /\ reset = "ssid" /\ reset' = "pass"
        /\ ssid' = IF e THEN ssid ELSE None
    BY <1>2 DEF EraseSsid, linkVars
  <2>2. /\ irregular' = 0 => irregular = 0 /\ ~e
        /\ irregular' = 1 => (irregular = 0 /\ e) \/ (irregular = 1 /\ ~e)
    BY <1>2, GoesCounts DEF EraseSsid
  <2> QED
    BY <2>1, <2>2
<1>3. ASSUME NEW e \in BOOLEAN, ErasePass(e) PROVE KeysInv'
  <2>1. /\ UNCHANGED <<dut, post, form, ssid>> /\ reset = "pass" /\ reset' = "restart"
        /\ pass' = IF e THEN pass ELSE None
    BY <1>3 DEF ErasePass, linkVars
  <2>2. /\ irregular' = 0 => irregular = 0 /\ ~e
        /\ irregular' = 1 => (irregular = 0 /\ e) \/ (irregular = 1 /\ ~e)
    BY <1>3, GoesCounts DEF ErasePass
  <2> QED
    BY <2>1, <2>2
<1> QED
    BY <1>1, <1>2, <1>3

\* Starting, restarting and losing power; the link.
LEMMA BootKeeps ==
    ASSUME TypeOK, KeysInv,
           Boot \/ Restart \/ PowerCut \/ Associate \/ Disconnected \/ GivesUp
    PROVE  KeysInv'
<1> USE DEF KeysInv, HandlersAlive, ModeFitsKeys, AllRegular, OneIrregular, HasCredentials, Agree,
            Station
<1>1. CASE Boot
    BY <1>1 DEF Boot, flashVars
<1>2. CASE Restart \/ PowerCut
  <2>1. /\ UNCHANGED <<ssid, pass>> /\ dut' = "boot" /\ post' = "none" /\ reset' = "none"
    BY <1>2 DEF Restart, PowerCut, Reboot, flashVars
  <2>2. /\ irregular' = 0 => irregular = 0 /\ post # "pass" /\ reset # "pass"
        /\ irregular' = 1 => \/ irregular = 0 /\ (post = "pass" \/ reset = "pass")
                             \/ irregular = 1 /\ post # "pass" /\ reset # "pass"
    <3>1. irregular \in Nat /\ Reboot
      BY <1>2, BoundsAssumption DEF TypeOK, Restart, PowerCut
    <3>2. CASE post = "pass" \/ reset = "pass"
      <4>1. irregular' = irregular + 1
        BY <3>1, <3>2 DEF Reboot
      <4> QED
        BY <3>1, <3>2, <4>1
    <3>3. CASE post # "pass" /\ reset # "pass"
      BY <3>1, <3>3 DEF Reboot
    <3> QED
      BY <3>2, <3>3
  <2>3. /\ post \in {"none", "ssid", "pass", "restart"}
        /\ reset \in {"none", "ssid", "pass", "restart"}
    BY DEF TypeOK
  <2> QED
    BY <2>1, <2>2, <2>3
<1>3. CASE Associate \/ Disconnected \/ GivesUp
    BY <1>3 DEF Associate, Disconnected, GivesUp, flashVars
<1> QED
    BY <1>1, <1>2, <1>3

\* Every step keeps what is known about the keys.
LEMMA KeysStep == TypeOK /\ Asked /\ KeysInv /\ [Next]_vars => KeysInv'
<1> SUFFICES ASSUME TypeOK, Asked, KeysInv, [Next]_vars PROVE KeysInv'
    OBVIOUS
<1>1. CASE UNCHANGED dutVars
    BY <1>1 DEF KeysInv, HandlersAlive, ModeFitsKeys, AllRegular, OneIrregular, HasCredentials,
                Agree, dutVars, linkVars, flashVars
<1> QED
    BY <1>1, PostKeeps, ResetKeeps, BootKeeps
    DEF Next, SeqStep, DutStep, Test, Refuse, Claim, Finish, Join, JoinFails, PostFails,
        PostReturns, Leave, LeaveFails, StartAp, StartApFails, OtherClient, vars

-----------------------------------------------------------------------------
(* The theorems *)

\* The initial states satisfy the invariant.
LEMMA InitIInv == Init => IInv
<1> SUFFICES ASSUME Init PROVE IInv
    OBVIOUS
<1> USE BoundsAssumption DEF Init
<1>1. TypeOK
  <2>1. /\ pc \in [Seqs -> Working \cup {"new", "tested", "refused", "done"}]
        /\ ask \in [Seqs -> Creds \cup {None}]
        /\ radio \in Creds \cup {"off", "sta"} /\ saved \in Creds \cup {None}
        /\ ssid \in Creds \cup {None} /\ pass \in Creds \cup {None}
    OBVIOUS
  <2>2. /\ tries \in 0 .. MaxRetry /\ irregular \in 0 .. MaxIrregular /\ others \in 0 .. MaxOthers
        /\ dut \in {"boot", "portal", "sta", "connected", "failed"}
        /\ post \in {"none", "ssid", "pass", "restart"} /\ form \in Creds \cup {None}
        /\ reset \in {"none", "ssid", "pass", "restart"}
    OBVIOUS
  <2>3. running \in BOOLEAN /\ disturbed \in BOOLEAN
    OBVIOUS
  <2> QED
    BY <2>1, <2>2, <2>3, Zenon DEF TypeOK
<1>2. Asked /\ BusyMeansWorking
    BY DEF Asked, BusyMeansWorking, Working
<1>3. HandlersAlive /\ ModeFitsKeys /\ AllRegular /\ OneIrregular
    BY DEF HandlersAlive, ModeFitsKeys, AllRegular, OneIrregular, Station
<1> QED
    BY <1>1, <1>2, <1>3 DEF IInv

\* The invariant holds in every state.
LEMMA Invariance == Spec => []IInv
<1>1. Init => IInv
    BY InitIInv
<1>2. IInv /\ [Next]_vars => IInv'
    BY TypeOKStep, SeqStepKeeps, KeysStep DEF IInv, KeysInv
<1> QED
    BY <1>1, <1>2, PTL DEF Spec

\* The requests, the radio and the DUT stay in their ranges.
THEOREM TypeCorrect == Spec => []TypeOK
<1>1. IInv => TypeOK
    BY DEF IInv
<1> QED
    BY <1>1, Invariance, PTL

\* No way through an enter-portal sequence leaves the busy flag behind.
THEOREM BusyOnlyWhileWorking == Spec => []BusyMeansWorking
<1>1. IInv => BusyMeansWorking
    BY DEF IInv
<1> QED
    BY <1>1, Invariance, PTL

\* A single update that goes wrong never makes the DUT use a name with the password of
\* another network.
THEOREM CredentialsStayWhole == Spec => []CredentialsWhole
<1>1. IInv => CredentialsWhole
  <2> SUFFICES ASSUME IInv, dut \in Station, reset = "none", irregular < 2 PROVE ssid = pass
    BY DEF CredentialsWhole, Station
  <2>1. irregular = 0 \/ irregular = 1
    BY BoundsAssumption DEF IInv, TypeOK
  <2>2. post = "none" /\ ssid # None /\ pass # None
    BY DEF IInv, HandlersAlive, ModeFitsKeys, HasCredentials, Station
  <2> QED
    BY <2>1, <2>2 DEF IInv, AllRegular, OneIrregular, Agree
<1> QED
    BY <1>1, Invariance, PTL
=============================================================================
