------------------------------ MODULE MCAccept ------------------------------
(* An instance of Accept for TLC: one descriptor, for which a second client *)
(* waits until every owner of the first one's Connection has let go of it.  *)
EXTENDS Accept
=============================================================================
