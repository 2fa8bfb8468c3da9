----------------------------- MODULE MCParsers ------------------------------
(* TLC instance of Parsers: Parsers.cfg chooses the bounds. *)
EXTENDS Parsers

\* Settings that are accepted, rejected, out of range, or look like telnet bytes.
MCRequests ==
    {<<SET_BAUDRATE, 0>>, <<SET_BAUDRATE, 2>>, <<SET_DATASIZE, 4>>, <<SET_DATASIZE, 7>>,
     <<SET_PARITY, 0>>, <<SET_PARITY, 2>>, <<SET_PARITY, SE>>, <<SET_STOPSIZE, 2>>,
     <<SET_STOPSIZE, 3>>, <<SET_CONTROL, 9>>, <<SET_CONTROL, 12>>, <<SET_CONTROL, 1>>, <<11, SB>>}

MCSignals == {-60, -40}
=============================================================================
