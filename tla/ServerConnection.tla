-------------------------- MODULE ServerConnection --------------------------
(***************************************************************************)
(* A connection of RpcServer: recv_fn of server/rpc_server.cpp reads       *)
(* frames, calls the service and writes the responses that send_fn sends.  *)
(***************************************************************************)
EXTENDS Connection

CONSTANT ResponseParts   \* parts of a response

ASSUME ServerAssumption == ResponseParts \in Nat \ {0} /\ OwnedByFrames

VARIABLES
  refused,    \* history: a frame was refused and recv_fn broke out of its loop
  calls       \* history: requests handed to the service

serverVars == <<refused, calls>>
vars == <<connVars, serverVars>>

Init == InitConnection /\ refused = FALSE /\ calls = 0

(* The loops that wait for a part.  The one that waits for the body does    *)
(* not look at closed().                                                    *)
MayRead == closed => stage = 4

RecvRead == AwaitPart(MayRead) /\ UNCHANGED serverVars

RecvClosed == GiveUp(MayRead) /\ UNCHANGED serverVars

RecvNull == NullBuffer(MayRead) /\ UNCHANGED serverVars

(* A length is always readable; a header, its service and method, and a     *)
(* body may be refused, which ends recv_fn.                                 *)
RecvRefuse ==
  /\ TakePart /\ stage # 1
  /\ refused' = TRUE
  /\ RecvEnd
  /\ UNCHANGED calls

(* Mutant of BeforeBody: the body is taken for another length. *)
BeforeBodyOffByOne == stage <= 4

(* The part that comes next is not the body, the last of a frame. *)
BeforeBody == stage < 4

RecvPart == BeforeBody /\ NextPart /\ UNCHANGED serverVars

(* The body: CallMethod, the response into write_buf_, resume_write.        *)
RecvCall ==
  /\ TakePart /\ ~BeforeBody
  /\ stage' = 1 /\ calls' = calls + 1
  /\ write_buf' = write_buf \o [i \in 1 .. ResponseParts |-> outbound + i]
  /\ outbound' = outbound + ResponseParts
  /\ ResumeWrite("recv")
  /\ UNCHANGED <<netVars, pollVars, closed, need_write, written, wire, retried, refused>>

-----------------------------------------------------------------------------
ServerStep ==
  \/ ConnectionStep /\ UNCHANGED serverVars
  \/ RecvRead \/ RecvClosed \/ RecvNull \/ RecvRefuse \/ RecvPart \/ RecvCall

Next == ServerStep \/ ((PeerSend \/ PeerStep) /\ UNCHANGED serverVars)

Spec == Init /\ [][Next]_vars

(* The executor's thread keeps running, and the peer's TCP keeps            *)
(* acknowledging what it is sent.                                           *)
FairSpec == Spec /\ WF_vars(ServerStep) /\ WF_vars(PeerDrain /\ UNCHANGED serverVars)

-----------------------------------------------------------------------------
(* The state of a server connection is well formed, at most one coroutine   *)
(* is in control, and what was written answers the calls.                   *)
TypeOK ==
  /\ ConnectionTypes
  /\ refused \in BOOLEAN /\ calls \in Nat
  /\ outbound = calls * ResponseParts

(* Nobody resumes a coroutine of a connection that epoll no longer watches. *)
(* The executor's answer to EPOLLHUP leaves coroutines so, suspended for    *)
(* ever and the connection never freed; it happens only when the peer has   *)
(* reset, or after recv_fn has refused a frame.                             *)
StrandedNeedsReset ==
  at = "idle" /\ recv # "unstarted" /\ interest = "none" /\ Running =>
    (recv \notin Live /\ send \notin Live) \/ peer = "reset" \/ refused

(* When the peer has shut down its side, both coroutines end, so that the   *)
(* connection is freed; unless a frame was refused, the peer reset, or the  *)
(* program has already left defined behaviour.                              *)
ShutdownReleases ==
  (peer = "fin") ~> \/ recv = "done" /\ send = "done"
                    \/ refused \/ peer = "reset" \/ fault # "none"
=============================================================================
