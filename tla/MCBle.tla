------------------------------- MODULE MCBle --------------------------------
(* TLC instances of Ble: the cfg files choose the constants. *)
EXTENDS Ble
=============================================================================
