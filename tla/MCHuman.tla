------------------------------- MODULE MCHuman ------------------------------
(* TLC instances of HumanInteraction: the cfg files choose the constants. *)
EXTENDS HumanInteraction
=============================================================================
