----------------------------- MODULE MCExecutor -----------------------------
(* TLC instances of EpollExecutor.  No symmetry: the runs check liveness. *)
EXTENDS EpollExecutor
=============================================================================
