------------------------------ MODULE MCUdpLog ------------------------------
(* TLC instance of UdpLog: UdpLog.cfg chooses the constants. *)
EXTENDS UdpLog
=============================================================================
