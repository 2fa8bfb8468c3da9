---------------------------- MODULE Provisioning ----------------------------
(***************************************************************************)
(* Provisioning of a DUT: the enter-portal sequence of the workbench         *)
(* (pi/portal.py), and the test firmware that is provisioned (wifi_prov.c,  *)
(* nvs_store.c, app_main.c, http_server.c).                                *)
(*                                                                         *)
(* Credentials are a network name and the password that belongs to it: the  *)
(* element c of Creds stands for both.  The radio is used by other clients  *)
(* at any time; WifiController has the details of its operations.           *)
(***************************************************************************)
EXTENDS Naturals

CONSTANTS
    Seqs,          \* enter-portal requests, each with its thread
    Creds, None,
    InUse,         \* credentials the DUT or the workbench may have from before
    MaxRetry,      \* STA_MAX_RETRY
    MaxIrregular,  \* bound: updates of the stored credentials that go wrong
    MaxOthers      \* bound: uses of the radio by other clients

ASSUME NamesAssumption == None \notin Creds /\ {"off", "sta"} \cap Creds = {}
ASSUME BoundsAssumption ==
    InUse \subseteq Creds /\ MaxRetry \in Nat \ {0} /\ MaxIrregular \in Nat /\ MaxOthers \in Nat

VARIABLES
    pc, ask,       \* the requests: where they are, and the credentials they submit
    running,       \* _enter_portal_running
    radio,         \* "off", "sta" (joined to the DUT's SoftAP) or the credentials of the AP
    saved,         \* _saved_ap
    dut,           \* "boot", "portal", "sta", "connected" or "failed"
    tries,         \* s_retry_count
    post, form,    \* the handler of POST /connect, and what was posted
    reset,         \* the handler of POST /wifi-reset, in its own task
    ssid, pass,    \* the two keys in the flash
    irregular,     \* updates that were cut short, had an error or ran into the other
    others,        \* uses of the radio by other clients so far
    disturbed      \* something other than the one sequence has happened

seqVars == <<pc, running>>
radioVars == <<radio, saved>>
linkVars == <<dut, tries>>
flashVars == <<ssid, pass>>
dutVars == <<linkVars, post, form, reset, flashVars, irregular>>
vars == <<seqVars, ask, radioVars, dutVars, others, disturbed>>

Working == {"join", "post", "posted", "leave", "ap", "finish"}

TypeOK ==
    /\ pc \in [Seqs -> Working \cup {"new", "tested", "refused", "done"}]
    /\ ask \in [Seqs -> Creds \cup {None}]
    /\ running \in BOOLEAN /\ disturbed \in BOOLEAN
    /\ radio \in Creds \cup {"off", "sta"} /\ saved \in Creds \cup {None}
    /\ dut \in {"boot", "portal", "sta", "connected", "failed"}
    /\ tries \in 0 .. MaxRetry
    /\ post \in {"none", "ssid", "pass", "restart"} /\ form \in Creds \cup {None}
    /\ reset \in {"none", "ssid", "pass", "restart"}
    /\ ssid \in Creds \cup {None} /\ pass \in Creds \cup {None}
    /\ irregular \in 0 .. MaxIrregular /\ others \in 0 .. MaxOthers

\* The workbench may have an AP; the DUT is switched on, provisioned or not.
Init ==
    /\ pc = [q \in Seqs |-> "new"] /\ ask = [q \in Seqs |-> None] /\ running = FALSE
    /\ radio \in InUse \cup {"off"} /\ saved = None
    /\ dut = "boot" /\ tries = 0
    /\ post = "none" /\ form = None /\ reset = "none"
    /\ ssid \in InUse \cup {None} /\ pass = ssid
    /\ irregular = 0 /\ others = 0 /\ disturbed = FALSE

-----------------------------------------------------------------------------
(* _handle_enter_portal: the flag is tested, and set, without a lock *)

SeqAt(q, p) == pc' = [pc EXCEPT ![q] = p]

Test(q, c) ==
    /\ pc[q] = "new" /\ ~running
    /\ ask' = [ask EXCEPT ![q] = c]
    /\ SeqAt(q, "tested")
    /\ UNCHANGED <<running, radioVars, dutVars, others, disturbed>>

Refuse(q) ==
    /\ pc[q] = "new" /\ running
    /\ SeqAt(q, "refused")
    /\ UNCHANGED <<ask, running, radioVars, dutVars, others, disturbed>>

\* The flag is set and the thread starts.
Claim(q) ==
    /\ pc[q] = "tested"
    /\ running' = TRUE
    /\ SeqAt(q, "join")
    /\ disturbed' = (disturbed \/ \E o \in Seqs \ {q} : pc[o] \in Working \cup {"done"})
    /\ UNCHANGED <<ask, radioVars, dutVars, others>>

\* finally: _enter_portal_running = False
Finish(q) ==
    /\ pc[q] = "finish"
    /\ running' = FALSE
    /\ SeqAt(q, "done") /\ ask' = [ask EXCEPT ![q] = None]
    /\ UNCHANGED <<radioVars, dutVars, others, disturbed>>

-----------------------------------------------------------------------------
(* _do_enter_portal *)

\* sta_join remembers the AP that it stops.
SaveAp == saved' = IF radio \in Creds THEN radio ELSE None

Join(q) ==
    /\ pc[q] = "join" /\ dut = "portal"
    /\ SaveAp /\ radio' = "sta"
    /\ SeqAt(q, "post")
    /\ UNCHANGED <<ask, running, dutVars, others, disturbed>>

\* Mutant: the error path ends the thread without the finally clause.
JoinFailsReturns(q) ==
    /\ pc[q] = "join"
    /\ SaveAp /\ radio' = "off"
    /\ SeqAt(q, "done")
    /\ UNCHANGED <<ask, running, dutVars, others, disturbed>>

\* No association or no address in time; in serial-interface mode sta_join refuses before
\* it touches the radio.  The sequence ends.
JoinFails(q) ==
    /\ pc[q] = "join"
    /\ \/ SaveAp /\ radio' = "off"
       \/ UNCHANGED radioVars
    /\ SeqAt(q, "finish")
    /\ UNCHANGED <<ask, running, dutVars, others, disturbed>>

\* An update of the stored credentials goes wrong, or not.
Goes(wrong) ==
    /\ irregular' = irregular + (IF wrong THEN 1 ELSE 0)
    /\ irregular' <= MaxIrregular
    /\ disturbed' = (disturbed \/ wrong)

\* The DUT handles one request of its portal at a time, and restarts after it.
Post(q) ==
    /\ pc[q] = "post" /\ radio = "sta" /\ dut = "portal" /\ post = "none"
    /\ post' = "ssid" /\ form' = ask[q]
    /\ SeqAt(q, "posted")
    /\ Goes(reset # "none")
    /\ UNCHANGED <<ask, running, radioVars, linkVars, reset, flashVars, others>>

\* The request does not get through: the error is logged, and the sequence goes on.
PostFails(q) ==
    /\ pc[q] = "post"
    /\ SeqAt(q, "leave")
    /\ UNCHANGED <<ask, running, radioVars, dutVars, others, disturbed>>

\* The answer comes, or not within 10 s.
PostReturns(q) ==
    /\ pc[q] = "posted"
    /\ SeqAt(q, "leave")
    /\ UNCHANGED <<ask, running, radioVars, dutVars, others, disturbed>>

\* sta_leave starts the saved AP again, if there is one.
StaLeave ==
    /\ radio' = IF saved # None THEN saved ELSE IF radio = "sta" THEN "off" ELSE radio
    /\ saved' = None

Leave(q) ==
    /\ pc[q] = "leave"
    /\ StaLeave
    /\ SeqAt(q, "ap")
    /\ UNCHANGED <<ask, running, dutVars, others, disturbed>>

\* Mutant: the error is fatal.
LeaveFailsReturns(q) ==
    /\ pc[q] = "leave" /\ saved # None
    /\ radio' = "off" /\ saved' = None
    /\ SeqAt(q, "finish")
    /\ UNCHANGED <<ask, running, dutVars, others, disturbed>>

\* The saved AP does not start: not fatal.
LeaveFails(q) ==
    /\ pc[q] = "leave" /\ saved # None
    /\ radio' = "off" /\ saved' = None
    /\ SeqAt(q, "ap")
    /\ UNCHANGED <<ask, running, dutVars, others, disturbed>>

StartAp(q) ==
    /\ pc[q] = "ap"
    /\ radio' = ask[q]
    /\ SeqAt(q, "finish")
    /\ UNCHANGED <<ask, running, saved, dutVars, others, disturbed>>

\* hostapd or dnsmasq fails, or the mode was changed: the error is logged.
StartApFails(q) ==
    /\ pc[q] = "ap"
    /\ radio' \in {"off", radio}
    /\ disturbed' = TRUE
    /\ SeqAt(q, "finish")
    /\ UNCHANGED <<ask, running, saved, dutVars, others>>

\* Another client of the workbench joins, leaves, or starts or stops the AP.
OtherClient ==
    /\ others < MaxOthers
    /\ others' = others + 1
    /\ \/ dut = "portal" /\ SaveAp /\ radio' = "sta"
       \/ StaLeave
       \/ radio' \in Creds /\ UNCHANGED saved
       \/ radio \in Creds /\ radio' = "off" /\ UNCHANGED saved
    /\ disturbed' = TRUE
    /\ UNCHANGED <<seqVars, ask, dutVars>>

-----------------------------------------------------------------------------
(* The DUT: starting, and its link *)

\* Mutant: only the network name is needed.
HasCredentialsSsid == ssid # None

\* nvs_store_get_wifi
HasCredentials == ssid # None /\ pass # None

\* app_main, wifi_prov_init
Boot ==
    /\ dut = "boot"
    /\ dut' = IF HasCredentials THEN "sta" ELSE "portal"
    /\ UNCHANGED <<seqVars, ask, radioVars, tries, post, form, reset, flashVars, irregular,
                   others, disturbed>>

\* The AP that the stored credentials name is there, with that password.
Reachable == radio # "off" /\ ssid = radio /\ pass = radio

\* IP_EVENT_STA_GOT_IP
Associate ==
    /\ dut = "sta" /\ Reachable
    /\ dut' = "connected" /\ tries' = 0
    /\ UNCHANGED <<seqVars, ask, radioVars, post, form, reset, flashVars, irregular, others,
                   disturbed>>

\* WIFI_EVENT_STA_DISCONNECTED
Disconnected ==
    /\ dut \in {"sta", "connected"} /\ ~Reachable /\ tries < MaxRetry
    /\ dut' = "sta" /\ tries' = tries + 1
    /\ UNCHANGED <<seqVars, ask, radioVars, post, form, reset, flashVars, irregular, others,
                   disturbed>>

\* No more retries.  They last longer than the rest of a sequence.
GivesUp ==
    /\ dut \in {"sta", "connected"} /\ ~Reachable /\ tries = MaxRetry
    /\ \A q \in Seqs : pc[q] \notin {"posted", "leave", "ap"}
    /\ dut' = "failed"
    /\ UNCHANGED <<seqVars, ask, radioVars, tries, post, form, reset, flashVars, irregular,
                   others, disturbed>>

-----------------------------------------------------------------------------
(* The DUT: updates of the stored credentials *)

\* nvs_store_set_wifi: an error ends the update, but not the handler.
SetSsid(error) ==
    /\ post = "ssid"
    /\ ssid' = IF error THEN ssid ELSE form
    /\ post' = IF error THEN "restart" ELSE "pass"
    /\ Goes(error)
    /\ UNCHANGED <<seqVars, ask, radioVars, linkVars, form, reset, pass, others>>

SetPass(error) ==
    /\ post = "pass"
    /\ pass' = IF error THEN pass ELSE form
    /\ post' = "restart"
    /\ Goes(error)
    /\ UNCHANGED <<seqVars, ask, radioVars, linkVars, form, reset, ssid, others>>

\* POST /wifi-reset, through the AP the DUT has joined or through its own.  It may come
\* while credentials are being stored.
WifiReset ==
    /\ reset = "none"
    /\ (dut = "connected" /\ Reachable) \/ (dut = "portal" /\ radio = "sta")
    /\ reset' = "ssid"
    /\ irregular' = irregular + (IF post # "none" THEN 1 ELSE 0)
    /\ irregular' <= MaxIrregular
    /\ disturbed' = TRUE
    /\ UNCHANGED <<seqVars, ask, radioVars, linkVars, post, form, flashVars, others>>

\* nvs_store_erase_wifi: errors are ignored.
EraseSsid(error) ==
    /\ reset = "ssid"
    /\ ssid' = IF error THEN ssid ELSE None
    /\ reset' = "pass"
    /\ Goes(error)
    /\ UNCHANGED <<seqVars, ask, radioVars, linkVars, post, form, pass, others>>

ErasePass(error) ==
    /\ reset = "pass"
    /\ pass' = IF error THEN pass ELSE None
    /\ reset' = "restart"
    /\ Goes(error)
    /\ UNCHANGED <<seqVars, ask, radioVars, linkVars, post, form, ssid, others>>

\* Both handlers end with the DUT.
Reboot ==
    /\ dut' = "boot" /\ tries' = 0
    /\ post' = "none" /\ form' = None /\ reset' = "none"
    /\ irregular' = irregular + (IF post = "pass" \/ reset = "pass" THEN 1 ELSE 0)
    /\ irregular' <= MaxIrregular

\* esp_restart, by either handler
Restart ==
    /\ post = "restart" \/ reset = "restart"
    /\ Reboot
    /\ UNCHANGED <<seqVars, ask, radioVars, flashVars, others, disturbed>>

\* The power fails, or the DUT is reset through its serial port.
PowerCut ==
    /\ dut # "boot"
    /\ Reboot
    /\ disturbed' = TRUE
    /\ UNCHANGED <<seqVars, ask, radioVars, flashVars, others>>

-----------------------------------------------------------------------------
(* The specification *)

SeqStep(q) ==
    \/ Claim(q) \/ Join(q) \/ JoinFails(q) \/ Post(q) \/ PostFails(q) \/ PostReturns(q)
    \/ Leave(q) \/ LeaveFails(q) \/ StartAp(q) \/ StartApFails(q) \/ Finish(q)

DutStep ==
    \/ Boot \/ Associate \/ Disconnected \/ GivesUp \/ Restart
    \/ \E e \in BOOLEAN : SetSsid(e) \/ SetPass(e) \/ EraseSsid(e) \/ ErasePass(e)

Next ==
    \/ \E q \in Seqs : Refuse(q) \/ SeqStep(q) \/ \E c \in Creds : Test(q, c)
    \/ DutStep \/ OtherClient \/ WifiReset \/ PowerCut

Spec == Init /\ [][Next]_vars

\* Threads and the DUT run on.
FairSpec == Spec /\ WF_vars(DutStep) /\ \A q \in Seqs : WF_vars(SeqStep(q))

-----------------------------------------------------------------------------
(* Properties *)

\* A DUT that tries to join a network uses a name and a password that belong together,
\* even if one update of the two keys was cut short by a restart or a loss of power, had
\* an error, or ran into an erasure.  (After two such updates it may not.)
CredentialsWhole ==
    dut \in {"sta", "connected", "failed"} /\ reset = "none" /\ irregular < 2 => ssid = pass

\* A request is refused only while a sequence is at work, even if two requests have passed
\* the test of the flag together: no failure leaves the flag set.
BusyMeansWorking == running => \E q \in Seqs : pc[q] \in Working

\* Once a DUT has stored the credentials of the only sequence, it ends connected to the
\* workbench's AP, if nothing else interferes.
Provisioned ==
    \A c \in Creds :
        post = "restart" /\ form = c /\ ~disturbed
            ~> disturbed \/ (dut = "connected" /\ radio = c)
=============================================================================
