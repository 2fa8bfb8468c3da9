----------------------------- MODULE WifiProofs -----------------------------
(* Theorems about WifiController, for every value of its constants. *)
EXTENDS WifiController, TLAPS

\* Types: steps that take the lock.
LEMMA TypeLock ==
    ASSUME NEW t \in Threads, TypeOK,
           LockStep(t)
    PROVE  TypeOK'
<1> USE SwitchesAssumption DEF SwitchesAssumption, TypeOK, Networks, Points, Waiting,
  Locked, RequestKinds, controlVars, apVars, staVars, envVars, Goto, Return, Testing
<1>1. CASE ApStart(t)
  BY <1>1 DEF ApStart, LockFree, StopAllUnlocked, ApStopUnlocked, StaStopUnlocked
<1>2. CASE ApStop(t)
  BY <1>2 DEF ApStop, LockFree, ApStopUnlocked
<1>3. CASE StaJoin(t)
  BY <1>3 DEF StaJoin, LockFree, StopAllUnlocked, ApStopUnlocked, StaStopUnlocked
<1>4. CASE StaLeave(t)
  BY <1>4 DEF StaLeave, LockFree, StaStopUnlocked
<1>5. CASE ModeSerial(t)
  BY <1>5 DEF ModeSerial, LockFree, StopAllUnlocked, ApStopUnlocked, StaStopUnlocked
<1>6. CASE ModeTesting(t)
  BY <1>6 DEF ModeTesting, LockFree, StopAllUnlocked, ApStopUnlocked, StaStopUnlocked
<1>7. CASE ModeUnchanged(t)
  BY <1>7 DEF ModeUnchanged, LockFree
<1>8. CASE ModeRevert(t)
  BY <1>8 DEF ModeRevert, LockFree
<1> QED
  BY <1>1, <1>2, <1>3, <1>4, <1>5, <1>6, <1>7, <1>8 DEF LockStep

\* Types: steps between taking the lock and giving it back.
LEMMA TypeRun ==
    ASSUME NEW t \in Threads, TypeOK,
           RunStep(t)
    PROVE  TypeOK'
<1> USE SwitchesAssumption DEF SwitchesAssumption, TypeOK, Networks, Points, Waiting,
  Locked, RequestKinds, controlVars, apVars, staVars, envVars, Goto, Return, Testing
<1>1. CASE HostapdStarts(t)
  BY <1>1 DEF HostapdStarts
<1>2. CASE HostapdFails(t)
  BY <1>2 DEF HostapdFails
<1>3. CASE DnsmasqStarts(t)
  BY <1>3 DEF DnsmasqStarts
<1>4. CASE DnsmasqFails(t)
  BY <1>4 DEF DnsmasqFails
<1>5. CASE DnsmasqMissing(t)
  BY <1>5 DEF DnsmasqMissing
<1>6. CASE WpaStarts(t)
  BY <1>6 DEF WpaStarts
<1>7. CASE WpaHangs(t)
  BY <1>7 DEF WpaHangs, JoinRaises
<1>8. CASE WpaMissing(t)
  BY <1>8 DEF WpaMissing, JoinRaises
<1>9. CASE Connects(t)
  BY <1>9 DEF Connects
<1>10. CASE ConnectFails(t)
  BY <1>10 DEF ConnectFails, JoinRaises, StaStopUnlocked
<1>11. CASE Restore(t)
  BY <1>11 DEF Restore
<1> QED
  BY <1>1, <1>2, <1>3, <1>4, <1>5, <1>6, <1>7, <1>8, <1>9, <1>10, <1>11 DEF RunStep

\* Types: a request.
LEMMA TypeRequest ==
    ASSUME NEW t \in Threads, NEW kind \in RequestKinds, NEW n \in Networks,
           TypeOK, Request(t, kind, n)
    PROVE  TypeOK'
<1>1. kind \in Points
  BY DEF RequestKinds, Points, Waiting
<1>2. requests' \in 0 .. MaxRequests
  BY SwitchesAssumption DEF SwitchesAssumption, TypeOK, Request
<1>3. pc' \in [Threads -> Points] /\ ssid' \in [Threads -> Networks]
  BY <1>1 DEF TypeOK, Request, Goto
<1> QED
  BY <1>2, <1>3 DEF TypeOK, Request, controlVars, apVars, staVars

\* Types: requests.
LEMMA TypeArrive ==
    ASSUME NEW t \in Threads, TypeOK, Arrive(t)
    PROVE  TypeOK'
<1> USE TypeRequest DEF Networks, RequestKinds
<1>1. CASE RequestRadio(t)
  BY <1>1 DEF RequestRadio
<1>2. CASE RequestStop(t)
  BY <1>2 DEF RequestStop
<1>3. CASE RequestSerial(t)
  BY <1>3 DEF RequestSerial
<1> QED BY <1>1, <1>2, <1>3 DEF Arrive

\* Types: the environment.
LEMMA TypeEnvironment ==
    ASSUME TypeOK,
           ProgramDies \/ Shutdown
    PROVE  TypeOK'
<1> USE SwitchesAssumption DEF SwitchesAssumption, TypeOK, Networks, Points, Waiting,
  Locked, RequestKinds, controlVars, apVars, staVars, envVars, Goto, Return, Testing
<1>1. CASE ProgramDies
  BY <1>1 DEF ProgramDies
<1>2. CASE Shutdown
  BY <1>2 DEF Shutdown, StopAllUnlocked, ApStopUnlocked, StaStopUnlocked
<1> QED
  BY <1>1, <1>2

\* Who holds the lock, and for which network: steps that take the lock.
LEMMA ControlLock ==
    ASSUME NEW t \in Threads, TypeOK, LockHeld, HasNetwork,
           LockStep(t)
    PROVE  LockHeld' /\ HasNetwork'
<1> USE NamesAssumption DEF TypeOK, LockHeld, HasNetwork, Networks, Waiting, Locked,
  NamesAssumption, controlVars, apVars, staVars, envVars, Goto, Return, Testing
<1>1. CASE ApStart(t)
  BY <1>1 DEF ApStart, LockFree, StopAllUnlocked, ApStopUnlocked, StaStopUnlocked
<1>2. CASE ApStop(t)
  BY <1>2 DEF ApStop, LockFree, ApStopUnlocked
<1>3. CASE StaJoin(t)
  BY <1>3 DEF StaJoin, LockFree, StopAllUnlocked, ApStopUnlocked, StaStopUnlocked
<1>4. CASE StaLeave(t)
  BY <1>4 DEF StaLeave, LockFree, StaStopUnlocked
<1>5. CASE ModeSerial(t)
  BY <1>5 DEF ModeSerial, LockFree, StopAllUnlocked, ApStopUnlocked, StaStopUnlocked
<1>6. CASE ModeTesting(t)
  BY <1>6 DEF ModeTesting, LockFree, StopAllUnlocked, ApStopUnlocked, StaStopUnlocked
<1>7. CASE ModeUnchanged(t)
  BY <1>7 DEF ModeUnchanged, LockFree
<1>8. CASE ModeRevert(t)
  BY <1>8 DEF ModeRevert, LockFree
<1> QED
  BY <1>1, <1>2, <1>3, <1>4, <1>5, <1>6, <1>7, <1>8 DEF LockStep

\* Who holds the lock, and for which network: steps between taking the lock and giving it back.
LEMMA ControlRun ==
    ASSUME NEW t \in Threads, TypeOK, LockHeld, HasNetwork,
           RunStep(t)
    PROVE  LockHeld' /\ HasNetwork'
<1> USE NamesAssumption DEF TypeOK, LockHeld, HasNetwork, Networks, Waiting, Locked,
  NamesAssumption, controlVars, apVars, staVars, envVars, Goto, Return, Testing
<1>1. CASE HostapdStarts(t)
  BY <1>1 DEF HostapdStarts
<1>2. CASE HostapdFails(t)
  BY <1>2 DEF HostapdFails
<1>3. CASE DnsmasqStarts(t)
  BY <1>3 DEF DnsmasqStarts
<1>4. CASE DnsmasqFails(t)
  BY <1>4 DEF DnsmasqFails
<1>5. CASE DnsmasqMissing(t)
  BY <1>5 DEF DnsmasqMissing
<1>6. CASE WpaStarts(t)
  BY <1>6 DEF WpaStarts
<1>7. CASE WpaHangs(t)
  BY <1>7 DEF WpaHangs, JoinRaises
<1>8. CASE WpaMissing(t)
  BY <1>8 DEF WpaMissing, JoinRaises
<1>9. CASE Connects(t)
  BY <1>9 DEF Connects
<1>10. CASE ConnectFails(t)
  BY <1>10 DEF ConnectFails, JoinRaises, StaStopUnlocked
<1>11. CASE Restore(t)
  BY <1>11 DEF Restore
<1> QED
  BY <1>1, <1>2, <1>3, <1>4, <1>5, <1>6, <1>7, <1>8, <1>9, <1>10, <1>11 DEF RunStep

\* Who holds the lock, and for which network: requests.
LEMMA ControlArrive ==
    ASSUME NEW t \in Threads, TypeOK, LockHeld, HasNetwork,
           Arrive(t)
    PROVE  LockHeld' /\ HasNetwork'
<1> USE NamesAssumption DEF TypeOK, LockHeld, HasNetwork, Networks, Waiting, Locked,
  NamesAssumption, controlVars, apVars, staVars, envVars, Goto, Return, Testing
<1>1. CASE RequestRadio(t)
  BY <1>1 DEF RequestRadio, Request
<1>2. CASE RequestStop(t)
  BY <1>2 DEF RequestStop, Request
<1>3. CASE RequestSerial(t)
  BY <1>3 DEF RequestSerial, Request
<1> QED
  BY <1>1, <1>2, <1>3 DEF Arrive

\* Who holds the lock, and for which network: the environment.
LEMMA ControlEnvironment ==
    ASSUME TypeOK, LockHeld, HasNetwork,
           ProgramDies \/ Shutdown
    PROVE  LockHeld' /\ HasNetwork'
<1> USE NamesAssumption DEF TypeOK, LockHeld, HasNetwork, Networks, Waiting, Locked,
  NamesAssumption, controlVars, apVars, staVars, envVars, Goto, Return, Testing
<1>1. CASE ProgramDies
  BY <1>1 DEF ProgramDies
<1>2. CASE Shutdown
  BY <1>2 DEF Shutdown, StopAllUnlocked, ApStopUnlocked, StaStopUnlocked
<1> QED
  BY <1>1, <1>2

\* The programs on wlan0 and what is reported of them: steps that take the lock.
LEMMA RadioLock ==
    ASSUME NEW t \in Threads, TypeOK, LockHeld, HasNetwork, Progress, StatusTruthful,
           LockStep(t)
    PROVE  Progress' /\ StatusTruthful'
<1> USE NamesAssumption DEF TypeOK, LockHeld, HasNetwork, Progress, StatusTruthful,
  Locked, NamesAssumption, controlVars, apVars, staVars, envVars, Goto, Return, Testing
<1>1. CASE ApStart(t)
  BY <1>1 DEF ApStart, LockFree, StopAllUnlocked, ApStopUnlocked, StaStopUnlocked
<1>2. CASE ApStop(t)
  BY <1>2 DEF ApStop, LockFree, ApStopUnlocked
<1>3. CASE StaJoin(t)
  BY <1>3 DEF StaJoin, LockFree, StopAllUnlocked, ApStopUnlocked, StaStopUnlocked
<1>4. CASE StaLeave(t)
  BY <1>4 DEF StaLeave, LockFree, StaStopUnlocked
<1>5. CASE ModeSerial(t)
  BY <1>5 DEF ModeSerial, LockFree, StopAllUnlocked, ApStopUnlocked, StaStopUnlocked
<1>6. CASE ModeTesting(t)
  BY <1>6 DEF ModeTesting, LockFree, StopAllUnlocked, ApStopUnlocked, StaStopUnlocked
<1>7. CASE ModeUnchanged(t)
  BY <1>7 DEF ModeUnchanged, LockFree
<1>8. CASE ModeRevert(t)
  BY <1>8 DEF ModeRevert, LockFree
<1> QED
  BY <1>1, <1>2, <1>3, <1>4, <1>5, <1>6, <1>7, <1>8 DEF LockStep

\* The programs on wlan0 and what is reported of them: steps between taking the lock and giving it back.
LEMMA RadioRun ==
    ASSUME NEW t \in Threads, TypeOK, LockHeld, HasNetwork, Progress, StatusTruthful,
           RunStep(t)
    PROVE  Progress' /\ StatusTruthful'
<1> USE NamesAssumption DEF TypeOK, LockHeld, HasNetwork, Progress, StatusTruthful,
  Locked, NamesAssumption, controlVars, apVars, staVars, envVars, Goto, Return, Testing
<1>1. CASE HostapdStarts(t)
  BY <1>1 DEF HostapdStarts
<1>2. CASE HostapdFails(t)
  BY <1>2 DEF HostapdFails
<1>3. CASE DnsmasqStarts(t)
  BY <1>3 DEF DnsmasqStarts
<1>4. CASE DnsmasqFails(t)
  BY <1>4 DEF DnsmasqFails
<1>5. CASE DnsmasqMissing(t)
  BY <1>5 DEF DnsmasqMissing
<1>6. CASE WpaStarts(t)
  BY <1>6 DEF WpaStarts
<1>7. CASE WpaHangs(t)
  BY <1>7 DEF WpaHangs, JoinRaises
<1>8. CASE WpaMissing(t)
  BY <1>8 DEF WpaMissing, JoinRaises
<1>9. CASE Connects(t)
  BY <1>9 DEF Connects
<1>10. CASE ConnectFails(t)
  BY <1>10 DEF ConnectFails, JoinRaises, StaStopUnlocked
<1>11. CASE Restore(t)
  BY <1>11 DEF Restore
<1> QED
  BY <1>1, <1>2, <1>3, <1>4, <1>5, <1>6, <1>7, <1>8, <1>9, <1>10, <1>11 DEF RunStep

\* The programs on wlan0 and what is reported of them: requests.
LEMMA RadioArrive ==
    ASSUME NEW t \in Threads, TypeOK, LockHeld, HasNetwork, Progress, StatusTruthful,
           Arrive(t)
    PROVE  Progress' /\ StatusTruthful'
<1> USE NamesAssumption DEF TypeOK, LockHeld, HasNetwork, Progress, StatusTruthful,
  Locked, NamesAssumption, controlVars, apVars, staVars, envVars, Goto, Return, Testing
<1>1. CASE RequestRadio(t)
  BY <1>1 DEF RequestRadio, Request
<1>2. CASE RequestStop(t)
  BY <1>2 DEF RequestStop, Request
<1>3. CASE RequestSerial(t)
  BY <1>3 DEF RequestSerial, Request
<1> QED
  BY <1>1, <1>2, <1>3 DEF Arrive

\* The programs on wlan0 and what is reported of them: the environment.
LEMMA RadioEnvironment ==
    ASSUME TypeOK, LockHeld, HasNetwork, Progress, StatusTruthful,
           ProgramDies \/ Shutdown
    PROVE  Progress' /\ StatusTruthful'
<1> USE NamesAssumption DEF TypeOK, LockHeld, HasNetwork, Progress, StatusTruthful,
  Locked, NamesAssumption, controlVars, apVars, staVars, envVars, Goto, Return, Testing
<1>1. CASE ProgramDies
  BY <1>1 DEF ProgramDies
<1>2. CASE Shutdown
  BY <1>2 DEF Shutdown, StopAllUnlocked, ApStopUnlocked, StaStopUnlocked
<1> QED
  BY <1>1, <1>2

\* The inductive invariant: StatusTruthful needs to know who holds the lock and, at each
\* point under the lock, which programs run.
IInv == TypeOK /\ LockHeld /\ HasNetwork /\ Progress /\ StatusTruthful

\* It holds when the portal starts.
LEMMA InitIInv == ASSUME Init PROVE IInv
<1> USE DEF Init
<1>1. TypeOK
  <2>1. requests \in 0 .. MaxRequests
    BY SwitchesAssumption DEF SwitchesAssumption
  <2>2. missing \in SUBSET {"hostapd", "dnsmasq", "wpa_supplicant"}
    BY SwitchesAssumption, Zenon DEF SwitchesAssumption
  <2>3. "idle" \in Points
    BY DEF Points
  <2> QED BY <2>1, <2>2, <2>3 DEF TypeOK, Networks
<1>2. LockHeld /\ HasNetwork
  BY NamesAssumption DEF NamesAssumption, LockHeld, HasNetwork, Locked
<1>3. Progress /\ StatusTruthful
  BY DEF Progress, StatusTruthful, Locked
<1> QED BY <1>1, <1>2, <1>3 DEF IInv

\* Every step keeps the inductive invariant.
LEMMA NextIInv == ASSUME IInv, [Next]_vars PROVE IInv'
<1> USE DEF IInv
<1>1. CASE \E t \in Threads : LockStep(t)
  BY <1>1, TypeLock, ControlLock, RadioLock
<1>2. CASE \E t \in Threads : RunStep(t)
  BY <1>2, TypeRun, ControlRun, RadioRun
<1>3. CASE \E t \in Threads : Arrive(t)
  BY <1>3, TypeArrive, ControlArrive, RadioArrive
<1>4. CASE ProgramDies \/ Shutdown
  BY <1>4, TypeEnvironment, ControlEnvironment, RadioEnvironment
<1>5. CASE UNCHANGED vars
  BY <1>5 DEF vars, controlVars, apVars, staVars, envVars, TypeOK, LockHeld, HasNetwork,
     Progress, StatusTruthful
<1> QED BY <1>1, <1>2, <1>3, <1>4, <1>5 DEF Next

\* The inductive invariant: types, the lock, and at each point of ap_start and sta_join
\* what the thread inside may rely on.
THEOREM WifiInvariant == Spec => []IInv
<1>1. Init => IInv
  BY InitIInv
<1>2. IInv /\ [Next]_vars => IInv'
  BY NextIInv
<1> QED BY <1>1, <1>2, PTL DEF Spec

\* What ap_status and the station state report is true whenever nobody works on the
\* radio, for any number of threads and networks and any failures.
THEOREM StatusAlwaysTruthful == Spec => []StatusTruthful
<1>1. IInv => StatusTruthful
  BY DEF IInv
<1> QED BY <1>1, WifiInvariant, PTL

\* At no time do hostapd and wpa_supplicant both run.
LEMMA NeverBoth == ASSUME IInv PROVE hostapd = NoSsid \/ wpa = NoSsid
<1> USE DEF IInv, TypeOK, LockHeld, Progress
<1>1. CASE lock = NoThread
  BY <1>1
<1>2. CASE lock \in Threads
  <2>1. pc[lock] \in Locked
    BY <1>2
  <2> QED BY <1>2, <2>1 DEF Locked
<1> QED BY <1>1, <1>2

\* The radio is on for the network of the program that runs.
LEMMA UsersOf ==
    /\ hostapd = NoSsid /\ wpa = NoSsid => Users = {}
    /\ hostapd # NoSsid /\ wpa = NoSsid => Users = {<<"ap", hostapd>>}
    /\ hostapd = NoSsid /\ wpa # NoSsid => Users = {<<"sta", wpa>>}
  BY DEF Users

\* A step of the radio: unchanged, off, or on from off.
LEMMA RadioStep ==
    ASSUME IInv, IInv',
           \/ hostapd' = hostapd /\ wpa' = wpa
           \/ hostapd' = NoSsid /\ wpa' = NoSsid
           \/ hostapd = NoSsid /\ wpa = NoSsid
    PROVE  [R!Next]_Users
<1>1. CASE hostapd' = hostapd /\ wpa' = wpa
  BY <1>1 DEF Users
<1>2. CASE hostapd' = NoSsid /\ wpa' = NoSsid
  BY <1>2 DEF Users, R!Next, R!Off
<1>3. CASE hostapd = NoSsid /\ wpa = NoSsid /\ hostapd' # NoSsid
  <2>1. wpa' = NoSsid /\ hostapd' \in Ssids
    BY <1>3, NeverBoth DEF IInv, TypeOK, Networks, Progress, LockHeld
  <2>2. Users = {} /\ Users' = {<<"ap", hostapd'>>}
    BY <1>3, <2>1 DEF Users
  <2> QED BY <2>1, <2>2 DEF R!Next, R!On, R!Uses
<1>4. CASE hostapd = NoSsid /\ wpa = NoSsid /\ hostapd' = NoSsid /\ wpa' # NoSsid
  <2>1. wpa' \in Ssids
    BY <1>4 DEF IInv, TypeOK, Networks
  <2>2. Users = {} /\ Users' = {<<"sta", wpa'>>}
    BY <1>4 DEF Users
  <2> QED BY <2>1, <2>2 DEF R!Next, R!On, R!Uses
<1> QED BY <1>1, <1>2, <1>3, <1>4

\* Steps that take the lock keep the radio as it is or stop it.
LEMMA RadioOfLockStep ==
    ASSUME NEW t \in Threads, IInv, LockStep(t)
    PROVE  \/ hostapd' = hostapd /\ wpa' = wpa
           \/ hostapd' = NoSsid /\ wpa' = NoSsid
<1> USE DEF controlVars, apVars, staVars
<1>1. CASE ApStart(t)
  BY <1>1 DEF ApStart, LockFree, StopAllUnlocked, ApStopUnlocked, StaStopUnlocked
<1>2. CASE ApStop(t)
  BY <1>2, NeverBoth DEF ApStop, LockFree, ApStopUnlocked
<1>3. CASE StaJoin(t)
  BY <1>3 DEF StaJoin, LockFree, StopAllUnlocked, ApStopUnlocked, StaStopUnlocked
<1>4. CASE StaLeave(t)
  BY <1>4, NeverBoth DEF StaLeave, LockFree, StaStopUnlocked
<1>5. CASE ModeSerial(t)
  BY <1>5 DEF ModeSerial, LockFree, StopAllUnlocked, ApStopUnlocked, StaStopUnlocked
<1>6. CASE ModeTesting(t)
  BY <1>6 DEF ModeTesting, LockFree, StopAllUnlocked, ApStopUnlocked, StaStopUnlocked
<1>7. CASE ModeUnchanged(t)
  BY <1>7 DEF ModeUnchanged, LockFree
<1>8. CASE ModeRevert(t)
  BY <1>8 DEF ModeRevert, LockFree
<1> QED
  BY <1>1, <1>2, <1>3, <1>4, <1>5, <1>6, <1>7, <1>8 DEF LockStep

\* The other steps start a program on a radio that is off, or stop one.
LEMMA RadioOfRunStep ==
    ASSUME NEW t \in Threads, IInv, RunStep(t)
    PROVE  \/ hostapd' = hostapd /\ wpa' = wpa
           \/ hostapd' = NoSsid /\ wpa' = NoSsid
           \/ hostapd = NoSsid /\ wpa = NoSsid
<1> USE DEF controlVars, apVars, staVars, IInv, Progress, Locked
<1>1. CASE HostapdStarts(t)
  BY <1>1 DEF HostapdStarts
<1>2. CASE HostapdFails(t)
  BY <1>2 DEF HostapdFails
<1>3. CASE DnsmasqStarts(t)
  BY <1>3 DEF DnsmasqStarts
<1>4. CASE DnsmasqFails(t)
  BY <1>4 DEF DnsmasqFails
<1>5. CASE DnsmasqMissing(t)
  BY <1>5 DEF DnsmasqMissing
<1>6. CASE WpaStarts(t)
  BY <1>6 DEF WpaStarts
<1>7. CASE WpaHangs(t)
  BY <1>7 DEF WpaHangs, JoinRaises
<1>8. CASE WpaMissing(t)
  BY <1>8 DEF WpaMissing, JoinRaises
<1>9. CASE Connects(t)
  BY <1>9 DEF Connects
<1>10. CASE ConnectFails(t)
  BY <1>10 DEF ConnectFails, JoinRaises, StaStopUnlocked
<1>11. CASE Restore(t)
  BY <1>11 DEF Restore
<1> QED
  BY <1>1, <1>2, <1>3, <1>4, <1>5, <1>6, <1>7, <1>8, <1>9, <1>10, <1>11 DEF RunStep

\* Every step of the controller is a step of the radio or leaves it alone.
LEMMA RadioOfNext ==
    ASSUME IInv, IInv', [Next]_vars
    PROVE  [R!Next]_Users
<1>1. CASE \E t \in Threads : LockStep(t)
  BY <1>1, RadioOfLockStep, RadioStep
<1>2. CASE \E t \in Threads : RunStep(t)
  BY <1>2, RadioOfRunStep, RadioStep
<1>3. CASE \E t \in Threads : Arrive(t)
  BY <1>3, RadioStep DEF Arrive, RequestRadio, RequestStop, RequestSerial, Request, apVars,
     staVars
<1>4. CASE ProgramDies
  BY <1>4, NeverBoth, RadioStep DEF ProgramDies
<1>5. CASE Shutdown
  BY <1>5, RadioStep DEF Shutdown, StopAllUnlocked, ApStopUnlocked, StaStopUnlocked
<1>6. CASE UNCHANGED vars
  BY <1>6, RadioStep DEF vars, apVars, staVars
<1> QED BY <1>1, <1>2, <1>3, <1>4, <1>5, <1>6 DEF Next

\* The controller implements Radio: whatever requests, failures and crashes interleave,
\* the radio serves one role and one network at a time and is off in between.
THEOREM WifiRefinesRadio == Spec => RefinesRadio
<1>1. Init => R!Init
  BY DEF Init, R!Init, Users
<1>2. IInv /\ IInv' /\ [Next]_vars => [R!Next]_Users
  BY RadioOfNext
<1> QED BY <1>1, <1>2, WifiInvariant, PTL DEF Spec, RefinesRadio, R!Spec
=============================================================================
