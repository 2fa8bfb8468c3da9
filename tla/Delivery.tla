------------------------------ MODULE Delivery ------------------------------
(***************************************************************************)
(* What a relay of a stream promises when its readers may overlap: items    *)
(* are made one after the other, and are handed on in runs of consecutive   *)
(* items, each item at most once and none before it was made.  Items may be *)
(* lost, and a run may be handed on after a later one.                      *)
(***************************************************************************)
EXTENDS Naturals, Sequences

VARIABLES
    made,          \* items made so far: 1 .. made
    delivered      \* the items handed on, to whomever, in the order of their delivery

vars == <<made, delivered>>

Init == made = 0 /\ delivered = <<>>

Make ==
    /\ made' = made + 1
    /\ UNCHANGED delivered

\* The items after a up to b, none of which was handed on before.
Deliver(a, b) ==
    /\ \A i \in 1 .. Len(delivered) : delivered[i] \notin a + 1 .. b
    /\ delivered' = delivered \o [i \in 1 .. b - a |-> a + i]
    /\ UNCHANGED made

Next == Make \/ \E b \in 1 .. made : \E a \in 0 .. b - 1 : Deliver(a, b)

Spec == Init /\ [][Next]_vars
=============================================================================
