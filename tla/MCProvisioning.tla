--------------------------- MODULE MCProvisioning ---------------------------
(* TLC instance of Provisioning: Provisioning.cfg chooses the constants. *)
EXTENDS Provisioning
=============================================================================
