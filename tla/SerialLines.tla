----------------------------- MODULE SerialLines -----------------------------
(***************************************************************************)
(* _read_serial_lines (pi/portal.py): bytes of a serial port, read in       *)
(* chunks, become lines; the line that contains the pattern ends the read.  *)
(*                                                                         *)
(* "e1" and "e2" are the bytes of a character of two bytes, which is two    *)
(* cells of text, "E1" and "E2"; "?" is the replacement character, " " any  *)
(* white space but the line end.                                           *)
(***************************************************************************)
EXTENDS Text

CONSTANTS
    Plain,         \* the other bytes
    Pattern,       \* the one to look for
    MaxBytes       \* bound: bytes that arrive

ASSUME PlainAssumption ==
    Plain \cap {" ", "nl", "e1", "e2", "E1", "E2", "?"} = {} /\ Pattern \in Plain

VARIABLES
    chunk,         \* what has arrived since the last read
    stream,        \* what has been read, for the properties
    torn,          \* a chunk ended inside a character, for the properties
    reader,        \* "read", "split": inside the loop over the lines, or "done"
    buf, text,     \* the incomplete line as bytes; the decoded text not yet gone through
    lines, matched

lineVars == <<chunk, stream, torn, reader, buf, text, lines, matched>>

Bytes == Plain \cup {" ", "nl", "e1", "e2"}
Cells == Plain \cup {" ", "nl", "E1", "E2", "?"}

LinesTypeOK ==
    /\ chunk \in Seq(Bytes) /\ stream \in Seq(Bytes)
    /\ torn \in BOOLEAN /\ matched \in BOOLEAN
    /\ reader \in {"read", "split", "done"}
    /\ buf \in Seq(Bytes \cup {"?"}) /\ text \in Seq(Cells) /\ lines \in Seq(Seq(Cells))

LinesInit ==
    /\ chunk = <<>> /\ stream = <<>> /\ torn = FALSE /\ reader = "read"
    /\ buf = <<>> /\ text = <<>> /\ lines = <<>> /\ matched = FALSE

-----------------------------------------------------------------------------

\* decode("utf-8", errors="replace")
Cell(bytes, i) ==
    IF bytes[i] = "e1" THEN IF i < Len(bytes) /\ bytes[i + 1] = "e2" THEN "E1" ELSE "?"
    ELSE IF bytes[i] = "e2" THEN IF i > 1 /\ bytes[i - 1] = "e1" THEN "E2" ELSE "?"
    ELSE bytes[i]
Decode(bytes) == [i \in 1 .. Len(bytes) |-> Cell(bytes, i)]

Byte(cell) == IF cell = "E1" THEN "e1" ELSE IF cell = "E2" THEN "e2" ELSE cell
Encode(cells) == [i \in 1 .. Len(cells) |-> Byte(cells[i])]

Stripped(line) == Strip(line, {" "})

Matches(line) == \E i \in 1 .. Len(line) : line[i] = Pattern

\* Where lines of a text end.
Ends(cells) == {i \in 1 .. Len(cells) : cells[i] = "nl"}

\* A line that is not blank is added, and looked at.
Collect(line) ==
    IF Stripped(line) = <<>> THEN UNCHANGED <<lines, matched>>
    ELSE lines' = Append(lines, Stripped(line)) /\ matched' = Matches(Stripped(line))

-----------------------------------------------------------------------------

\* Bytes arrive; while lines are gone through makes no difference to before the next read.
Arrive(x) ==
    /\ reader = "read" /\ Len(stream) + Len(chunk) < MaxBytes
    /\ chunk' = Append(chunk, x)
    /\ UNCHANGED <<stream, torn, reader, buf, text, lines, matched>>

\* ser.read; a read that times out changes nothing.
ReadChunk ==
    /\ reader = "read" /\ chunk # <<>>
    /\ text' = Decode(buf \o chunk)
    /\ reader' = "split"
    /\ stream' = stream \o chunk /\ chunk' = <<>>
    /\ torn' = (torn \/ (stream # <<>> /\ stream[Len(stream)] = "e1" /\ chunk[1] = "e2"))
    /\ UNCHANGED <<buf, lines, matched>>

\* for line in new_lines
TakeLine ==
    /\ reader = "split" /\ Ends(text) # {}
    /\ Collect(SubSeq(text, 1, Min(Ends(text)) - 1))
    /\ text' = SubSeq(text, Min(Ends(text)) + 1, Len(text))
    /\ reader' = IF matched' THEN "done" ELSE "split"
    /\ UNCHANGED <<chunk, stream, torn, buf>>

\* Mutant: an incomplete line is dropped with its chunk.
DropRest ==
    /\ reader = "split" /\ Ends(text) = {}
    /\ buf' = <<>> /\ text' = <<>> /\ reader' = "read"
    /\ UNCHANGED <<chunk, stream, torn, lines, matched>>

\* What has no line end is kept for the next chunk.
KeepRest ==
    /\ reader = "split" /\ Ends(text) = {}
    /\ buf' = Encode(text) /\ text' = <<>> /\ reader' = "read"
    /\ UNCHANGED <<chunk, stream, torn, lines, matched>>

\* At the deadline what is left is a line, too.
Deadline ==
    /\ reader = "read"
    /\ Collect(Decode(buf))
    /\ reader' = "done"
    /\ UNCHANGED <<chunk, stream, torn, buf, text>>

LinesNext ==
    \/ \E x \in Bytes : Arrive(x)
    \/ ReadChunk \/ TakeLine \/ KeepRest \/ Deadline

LinesSpec == LinesInit /\ [][LinesNext]_lineVars

-----------------------------------------------------------------------------
(* Properties *)

\* The lines of a stream as a whole, each named by the position of its end.
LineEnds(bytes) == Ends(bytes) \cup {Len(bytes) + 1}
LineBefore(bytes, e) ==
    Stripped(SubSeq(Decode(bytes), Max({0} \cup {i \in Ends(bytes) : i < e}) + 1, e - 1))
SolidLines(bytes) == {e \in LineEnds(bytes) : LineBefore(bytes, e) # <<>>}

\* Those up to the first that matches.
Listed(bytes) ==
    {e \in SolidLines(bytes) :
        \A f \in SolidLines(bytes) : f < e => ~Matches(LineBefore(bytes, f))}

\* The lines, and whether one matched, do not depend on the chunks in which the serial port
\* delivers the stream, as long as none ends inside a character.
LinesIndependentOfChunks ==
    reader = "done" /\ ~torn =>
        /\ Len(lines) = Cardinality(Listed(stream))
        /\ \A e \in Listed(stream) :
              lines[Cardinality({f \in Listed(stream) : f <= e})] = LineBefore(stream, e)
        /\ matched <=> \E e \in Listed(stream) : Matches(LineBefore(stream, e))
=============================================================================
