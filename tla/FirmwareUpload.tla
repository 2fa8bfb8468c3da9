--------------------------- MODULE FirmwareUpload ---------------------------
(***************************************************************************)
(* _handle_firmware_upload (pi/portal.py): the part of the form that holds  *)
(* the file is stripped and split from its headers.                        *)
(*                                                                         *)
(* "gap" is the empty line after the headers, "nl" an end of line; both are *)
(* white space, as is " ".                                                 *)
(***************************************************************************)
EXTENDS Text

CONSTANTS
    Solids,        \* bytes of a file that are not white space
    MaxContent     \* bound: bytes of a file

White == {" ", "nl", "gap"}

ASSUME SolidsAssumption == Solids \cap White = {}

VARIABLE content   \* of the file

FilePart(bytes) == <<"nl", "header", "gap">> \o bytes \o <<"nl">>

\* Where a part has empty lines.
Gaps(part) == {i \in 1 .. Len(part) : part[i] = "gap"}

\* Mutant: split at the last empty line.
StoredLastGap(bytes) ==
    LET part == Strip(FilePart(bytes), White)
    IN  IF Gaps(part) = {} THEN "missing"
        ELSE SubSeq(part, Max(Gaps(part)) + 1, Len(part))

\* The part is stripped, and split at the first empty line.
Stored(bytes) ==
    LET part == Strip(FilePart(bytes), White)
    IN  IF Gaps(part) = {} THEN "missing"
        ELSE SubSeq(part, Min(Gaps(part)) + 1, Len(part))

UploadInit == content = <<>>

\* The file grows.
GrowFile(x) == Len(content) < MaxContent /\ content' = Append(content, x)

UploadNext == \E x \in Solids \cup White : GrowFile(x)

UploadSpec == UploadInit /\ [][UploadNext]_content

\* A file that does not end in white space is stored as it was sent.
StoredAsSent ==
    content # <<>> /\ content[Len(content)] \notin White => Stored(content) = content
=============================================================================
