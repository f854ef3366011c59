------------------------------ MODULE RpcCalls ------------------------------
(***************************************************************************)
(* What a channel promises to the application: calls are answered once, in *)
(* the order in which they were made and each with the reply to that call, *)
(* and the connection is lost only to a call that the server does not      *)
(* serve, or once one side has broken down over a call in progress.        *)
(***************************************************************************)
EXTENDS Naturals, Sequences

CONSTANTS
  Calls,      \* the calls an application may make
  Reply(_)    \* the response to a call

VARIABLES
  made,       \* the calls made so far, in order
  answered,   \* the answers given so far: [call |-> its number, text |-> ...]
  lost,       \* the connection is gone
  broken,     \* one side has broken down
  served      \* the calls that the server serves; it never changes

vars == <<made, answered, lost, broken, served>>

Init ==
  /\ made = <<>> /\ answered = <<>> /\ lost = FALSE /\ broken = FALSE
  /\ served \in SUBSET Calls

Call ==
  /\ \E c \in Calls : made' = Append(made, c)
  /\ UNCHANGED <<answered, lost, broken, served>>

Answer ==
  LET n == Len(answered) + 1 IN
  /\ ~lost
  /\ n <= Len(made) /\ made[n] \in served
  /\ answered' = Append(answered, [call |-> n, text |-> Reply(made[n])])
  /\ UNCHANGED <<made, lost, broken, served>>

Lose ==
  /\ broken \/ \E n \in Len(answered) + 1 .. Len(made) : made[n] \notin served
  /\ lost' = TRUE
  /\ UNCHANGED <<made, answered, broken, served>>

(* The answers of calls that have been made may be lost with the side. *)
Break ==
  /\ Len(answered) < Len(made)
  /\ broken' = TRUE /\ lost' \in {lost, TRUE}
  /\ UNCHANGED <<made, answered, served>>

Next == Call \/ Answer \/ Lose \/ Break

Spec == Init /\ [][Next]_vars
=============================================================================
