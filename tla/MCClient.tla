------------------------------ MODULE MCClient ------------------------------
(* TLC instances of ClientChannel. *)
EXTENDS ClientChannel
=============================================================================
