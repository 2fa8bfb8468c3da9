-------------------------------- MODULE Text --------------------------------
(* Texts are sequences of characters. *)
EXTENDS Integers, Sequences, FiniteSetsExt

\* strip()
Strip(line, blanks) ==
    LET solid == {i \in 1 .. Len(line) : line[i] \notin blanks}
    IN  IF solid = {} THEN <<>> ELSE SubSeq(line, Min(solid), Max(solid))
=============================================================================
