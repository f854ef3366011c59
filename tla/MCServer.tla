------------------------------ MODULE MCServer ------------------------------
(* TLC instances of ServerConnection. *)
EXTENDS ServerConnection
=============================================================================
