---------------------------- MODULE FrameStream ----------------------------
(***************************************************************************)
(* What a pair of buffers with a connection in between promises: the       *)
(* messages that one side serialises are the messages that the other side  *)
(* parses, in order and once each, for as long as the stream is intact.    *)
(***************************************************************************)
EXTENDS Naturals, Sequences

CONSTANT Messages

VARIABLES sent, received, broken

vars == <<sent, received, broken>>

Init == sent = <<>> /\ received = <<>> /\ broken = FALSE

Send ==
  /\ \E m \in Messages : sent' = Append(sent, m)
  /\ UNCHANGED received

Deliver ==
  /\ Len(received) < Len(sent)
  /\ received' = Append(received, sent[Len(received) + 1])
  /\ UNCHANGED sent

Intact == ~broken /\ ~broken' /\ (Send \/ Deliver)

(* From here on nothing is promised. *)
Broken == broken'

Next == Intact \/ Broken

Spec == Init /\ [][Next]_vars
=============================================================================
