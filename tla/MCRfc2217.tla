----------------------------- MODULE MCRfc2217 ------------------------------
(* TLC instance of Rfc2217Server: Rfc2217.cfg chooses the constants. *)
EXTENDS Rfc2217Server
=============================================================================
