------------------------------- MODULE Parsers -------------------------------
(***************************************************************************)
(* The loops that take data apart, each against a reference definition of   *)
(* its result: a behaviour runs one of them.  They share no state.          *)
(***************************************************************************)
EXTENDS SerialLines, LegacyProxy, WifiScan, FirmwareUpload

VARIABLE task      \* the one that runs

parserVars == <<task, lineVars, proxyVars, scanVars, content>>

ParsersInit ==
    /\ task \in {"lines", "telnet", "scan", "upload"}
    /\ LinesInit /\ ProxyInit /\ ScanInit /\ UploadInit

ParsersNext ==
    /\ UNCHANGED task
    /\ \/ task = "lines" /\ LinesNext /\ UNCHANGED <<proxyVars, scanVars, content>>
       \/ task = "telnet" /\ ProxyNext /\ UNCHANGED <<lineVars, scanVars, content>>
       \/ task = "scan" /\ ScanNext /\ UNCHANGED <<lineVars, proxyVars, content>>
       \/ task = "upload" /\ UploadNext /\ UNCHANGED <<lineVars, proxyVars, scanVars>>

ParsersSpec == ParsersInit /\ [][ParsersNext]_parserVars
=============================================================================
