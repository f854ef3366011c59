------------------------------ MODULE MCQueue ------------------------------
(* TLC instances of MPMCQueue.  Threads with the same quota are             *)
(* interchangeable.                                                         *)
EXTENDS MPMCQueue, TLC

Even == [p \in Producers |-> MaxItems]

(* One producer pushes MaxItems values, the others one each. *)
Uneven ==
  LET first == CHOOSE p \in Producers : TRUE
  IN  [p \in Producers |-> IF p = first THEN MaxItems ELSE 1]

Symmetry ==
  Permutations(Producers) \cup Permutations(Consumers)
=============================================================================
