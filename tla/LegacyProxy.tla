----------------------------- MODULE LegacyProxy -----------------------------
(***************************************************************************)
(* handle_rfc2217 and _handle_com_port_option (pi/serial_proxy.py): what a  *)
(* chunk from a telnet client means, and what its settings do to the port.  *)
(*                                                                         *)
(* Data are numbers, as in the code; the four bytes of a baud rate count as *)
(* one.  The client sends whole commands; a chunk may end inside one.       *)
(***************************************************************************)
EXTENDS Integers, Sequences, FiniteSetsExt

CONSTANTS
    DataBytes, Options, Requests,   \* what clients send: data, options, commands with value
    MaxCommands    \* bound: commands a client sends

IAC == 255
DONT == 254
DO == 253
WONT == 252
WILL == 251
SB == 250
SE == 240
COM_PORT_OPTION == 44

\* A request with a byte 255 inside would have to escape it.
ASSUME ClientAssumption ==
    /\ DataBytes \subseteq Nat \ {IAC} /\ Options \subseteq Nat
    /\ Requests \subseteq (Nat \ {IAC}) \X (Nat \ {IAC})
    /\ MaxCommands \in Nat

VARIABLES
    sent, means,   \* all the client sent, and what it meant by that
    marks,         \* how long both are between any two commands
    data, at, out, \* handle_rfc2217: the chunk, the index (0: no chunk yet), what came of it
    port,          \* the settings of the serial port
    asked, told    \* the last request, and its answer

clientVars == <<sent, means, marks>>
portVars == <<port, asked, told>>
proxyVars == <<clientVars, data, at, out, portVars>>

-----------------------------------------------------------------------------
(* The client *)

\* The answers to a negotiation.
Reply(verb, option) ==
    IF option = COM_PORT_OPTION /\ verb = DO THEN << <<WILL, COM_PORT_OPTION>> >>
    ELSE IF option = COM_PORT_OPTION /\ verb = WILL THEN << <<DO, COM_PORT_OPTION>> >>
    ELSE <<>>

Verbs == {DO, DONT, WILL, WONT}

\* Data (a byte 255 is doubled), negotiations, and settings.
Commands ==
    {[sent |-> <<b>>, means |-> << <<b>> >>] : b \in DataBytes}
    \cup {[sent |-> <<IAC, IAC>>, means |-> << <<IAC>> >>]}
    \cup {[sent |-> <<IAC, v, o>>, means |-> Reply(v, o)] : v \in Verbs, o \in Options}
    \cup {[sent |-> <<IAC, SB, COM_PORT_OPTION, r[1], r[2], IAC, SE>>,
           means |-> << <<SB, r[1], r[2]>> >>] : r \in Requests}

ClientSends(c) ==
    /\ at = 0 /\ Cardinality(marks) <= MaxCommands
    /\ sent' = sent \o c.sent /\ means' = means \o c.means
    /\ marks' = marks \cup {<<Len(sent'), Len(means')>>}
    /\ UNCHANGED <<data, at, out, portVars>>

\* recv returns what has arrived.
RecvChunk(n) ==
    /\ at = 0
    /\ data' = SubSeq(sent, 1, n) /\ at' = 1
    /\ UNCHANGED <<clientVars, out, portVars>>

-----------------------------------------------------------------------------
(* _handle_com_port_option.  Stop bits are counted in halves. *)

SET_BAUDRATE == 1
SET_DATASIZE == 2
SET_PARITY == 3
SET_STOPSIZE == 4
SET_CONTROL == 5

Parities == <<"N", "O", "E", "M", "S">>
StopBits == <<2, 4, 3>>

\* Dictionaries with a default.
Lookup(map, key, default) == IF key \in 1 .. Len(map) THEN map[key] ELSE default
Position(map, value) == CHOOSE k \in 1 .. Len(map) : map[k] = value

\* What the setting does to the port; other commands do nothing.
SetOption(p, o) ==
    CASE o[1] = SET_BAUDRATE -> [p EXCEPT !.baud = IF o[2] > 0 THEN o[2] ELSE @]
      [] o[1] = SET_DATASIZE -> [p EXCEPT !.size = IF o[2] \in 5 .. 8 THEN o[2] ELSE @]
      [] o[1] = SET_PARITY   -> [p EXCEPT !.parity = Lookup(Parities, o[2], "N")]
      [] o[1] = SET_STOPSIZE -> [p EXCEPT !.stop = Lookup(StopBits, o[2], 2)]
      [] o[1] = SET_CONTROL  -> [p EXCEPT !.dtr = IF o[2] \in {8, 9} THEN o[2] = 8 ELSE @,
                                          !.rts = IF o[2] \in {11, 12} THEN o[2] = 11 ELSE @]
      [] OTHER -> p

\* Mutant: the answer repeats the request.
AnswerEchoes(p, o) == o[2]

\* The value answered; int() cuts one and a half stop bits to one.
AnswerOption(p, o) ==
    CASE o[1] = SET_BAUDRATE -> p.baud
      [] o[1] = SET_DATASIZE -> p.size
      [] o[1] = SET_PARITY   -> Position(Parities, p.parity)
      [] o[1] = SET_STOPSIZE -> Position(StopBits, IF p.stop = 3 THEN 2 ELSE p.stop)
      [] OTHER -> o[2]

\* A setting without a value is acknowledged with 0.
HandleOption(sub) ==
    LET c == IF sub = <<>> THEN 0 ELSE sub[1]
        o == <<c, IF Len(sub) < 2 THEN 0 ELSE sub[2]>>
        p == IF Len(sub) < 2 THEN port ELSE SetOption(port, o)
    IN  /\ port' = p /\ asked' = o
        /\ told' = <<c, IF Len(sub) < 2 THEN 0 ELSE AnswerOption(p, o)>>

-----------------------------------------------------------------------------
(* handle_rfc2217: one round of its loop for each kind of command *)

InChunk == at > 0 /\ at <= Len(data)
Command(c) == InChunk /\ data[at] = IAC /\ at < Len(data) /\ data[at + 1] = c

\* Where the IAC SE after the option starts.
SettingEnds ==
    {j \in at + 3 .. Len(data) - 1 : data[j] = IAC /\ data[j + 1] = SE}

IsSetting ==
    Command(SB) /\ at + 2 <= Len(data) /\ data[at + 2] = COM_PORT_OPTION /\ SettingEnds # {}
IsNegotiation == at + 2 <= Len(data) /\ \E v \in Verbs : Command(v)

DataByte ==
    /\ InChunk /\ (data[at] # IAC \/ at = Len(data))
    /\ out' = Append(out, <<data[at]>>) /\ at' = at + 1
    /\ UNCHANGED <<clientVars, data, portVars>>

EscapedByte ==
    /\ Command(IAC)
    /\ out' = Append(out, <<IAC>>) /\ at' = at + 2
    /\ UNCHANGED <<clientVars, data, portVars>>

Setting ==
    /\ IsSetting
    /\ LET sub == SubSeq(data, at + 3, Min(SettingEnds) - 1)
       IN  HandleOption(sub) /\ out' = Append(out, <<SB>> \o sub)
    /\ at' = Min(SettingEnds) + 2
    /\ UNCHANGED <<clientVars, data>>

\* Mutant: a negotiation is taken to be two bytes long.
NegotiationShort ==
    /\ IsNegotiation
    /\ out' = out \o Reply(data[at + 1], data[at + 2]) /\ at' = at + 2
    /\ UNCHANGED <<clientVars, data, portVars>>

Negotiation ==
    /\ IsNegotiation
    /\ out' = out \o Reply(data[at + 1], data[at + 2]) /\ at' = at + 3
    /\ UNCHANGED <<clientVars, data, portVars>>

\* Everything else is skipped.
OtherCommand ==
    /\ InChunk /\ data[at] = IAC /\ at < Len(data) /\ data[at + 1] # IAC
    /\ ~IsSetting /\ ~IsNegotiation
    /\ at' = at + 2
    /\ UNCHANGED <<clientVars, data, out, portVars>>

-----------------------------------------------------------------------------

ProxyInit ==
    /\ sent = <<>> /\ means = <<>> /\ marks = {<<0, 0>>}
    /\ data = <<>> /\ at = 0 /\ out = <<>>
    /\ port = [baud |-> 1, size |-> 8, parity |-> "N", stop |-> 2, dtr |-> TRUE, rts |-> TRUE]
    /\ asked = <<0, 0>> /\ told = <<0, 0>>

ProxyNext ==
    \/ \E c \in Commands : ClientSends(c)
    \/ \E n \in 1 .. Len(sent) : RecvChunk(n)
    \/ DataByte \/ EscapedByte \/ Setting \/ Negotiation \/ OtherCommand

ProxySpec == ProxyInit /\ [][ProxyNext]_proxyVars

Ports ==
    [baud : Nat \ {0}, size : 5 .. 8, parity : {Parities[k] : k \in 1 .. 5}, stop : {2, 3, 4},
     dtr : BOOLEAN, rts : BOOLEAN]

ProxyTypeOK ==
    /\ sent \in Seq(Nat) /\ data \in Seq(Nat) /\ at \in Nat
    /\ means \in Seq(Seq(Nat)) /\ out \in Seq(Seq(Nat))
    /\ marks \subseteq (0 .. Len(sent)) \X (0 .. Len(means))
    /\ port \in Ports /\ asked \in Nat \X Nat /\ told \in Nat \X Nat

-----------------------------------------------------------------------------
(* Properties *)

\* A chunk of whole commands is decoded as the client meant it; when the chunk ends inside
\* a command, what comes before that command still is.
CommandsDecoded ==
    at > Len(data) =>
        /\ data = sent => out = means
        /\ \A m \in marks : m[1] <= Len(data) =>
              m[2] <= Len(out) /\ \A k \in 1 .. m[2] : out[k] = means[k]

\* The setting that a request is about.
Asked(p, o) ==
    CASE o[1] = SET_BAUDRATE -> p.baud
      [] o[1] = SET_DATASIZE -> p.size
      [] o[1] = SET_PARITY   -> p.parity
      [] o[1] = SET_STOPSIZE -> p.stop
      [] o[1] = SET_CONTROL  -> IF o[2] \in {8, 9} THEN p.dtr
                                ELSE IF o[2] \in {11, 12} THEN p.rts ELSE TRUE
      [] OTHER -> TRUE

\* What the client is told is the setting the port has, whether the request was accepted
\* or not: asking for it would give that setting to any port.  One and a half stop bits
\* are the exception.
AnswersTellSetting ==
    LET other == [baud |-> 9, size |-> 5, parity |-> "S", stop |-> 4,
                  dtr |-> ~port.dtr, rts |-> ~port.rts]
    IN  asked[1] # SET_STOPSIZE \/ port.stop # 3
            => Asked(SetOption(other, told), asked) = Asked(port, asked)
=============================================================================
