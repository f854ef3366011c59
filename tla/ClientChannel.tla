--------------------------- MODULE ClientChannel ---------------------------
(***************************************************************************)
(* ClientChannel (client/client_channel.cpp): CallMethod spawns a task     *)
(* that registers a session and writes a request; recv_fn matches the      *)
(* responses with the sessions; close() comes from the application's       *)
(* thread, in the middle of anything.  The executor's queue of tasks is a  *)
(* counter: tasks run in the order in which they were spawned.             *)
(***************************************************************************)
EXTENDS Connection, FiniteSets

CONSTANTS
  MaxCalls,       \* bound: calls of CallMethod
  RequestParts    \* parts of a request

ASSUME ClientAssumption ==
  MaxCalls \in Nat /\ RequestParts \in Nat \ {0} /\ ~OwnedByFrames

VARIABLES
  issued,            \* calls of CallMethod, whose tasks have been spawned
  request_id,        \* request_id_
  session_registry,  \* requests that have a session
  answers,           \* history: the request each frame of the peer answers
  frame,             \* history: the frame recv_fn works on
  completed,         \* history: requests whose done has run
  refused            \* history: a frame did not parse

sessionVars == <<request_id, session_registry>>
frameVars   == <<frame, completed, refused>>
clientVars  == <<issued, sessionVars, answers, frameVars>>
vars == <<connVars, clientVars>>

Ids == 0 .. MaxCalls - 1

Init ==
  /\ InitConnection
  /\ issued = 0 /\ request_id = 0 /\ session_registry = {}
  /\ answers = <<>> /\ frame = 1 /\ completed = {} /\ refused = FALSE

-----------------------------------------------------------------------------
(* The application's threads *)

(* CallMethod: spawn(send_request). *)
CallMethod ==
  /\ issued < MaxCalls /\ issued' = issued + 1
  /\ UNCHANGED <<connVars, sessionVars, answers, frameVars>>

(* close(), on a thread of its own. *)
Close ==
  /\ ~closed /\ closed' = TRUE
  /\ Wake
  /\ UNCHANGED <<netVars, interest, recvVars, writeVars, coVars, fault, clientVars>>

-----------------------------------------------------------------------------
(* The task of a call *)

(* Mutant of NextRequestId: the counter stands still. *)
NextRequestIdStuck == request_id

(* request_id_++ *)
NextRequestId == request_id + 1

(* Mutant of SendRequest: send_fn is not resumed. *)
SendRequestNoResume ==
  /\ at = "idle" /\ recv # "unstarted" /\ Running /\ request_id < issued
  /\ write_buf' = write_buf \o [i \in 1 .. RequestParts |-> outbound + i]
  /\ outbound' = outbound + RequestParts
  /\ session_registry' = session_registry \cup {request_id}
  /\ request_id' = NextRequestId
  /\ UNCHANGED <<netVars, pollVars, closed, need_write, written, wire, retried, recvVars,
                 coVars, fault, issued, answers, frameVars>>

(* The request into write_buf_, the session into the registry, resume_write. *)
(* The constructor's two tasks have run before.                              *)
SendRequest ==
  /\ at = "idle" /\ recv # "unstarted" /\ Running /\ request_id < issued
  /\ write_buf' = write_buf \o [i \in 1 .. RequestParts |-> outbound + i]
  /\ outbound' = outbound + RequestParts
  /\ session_registry' = session_registry \cup {request_id}
  /\ request_id' = NextRequestId
  /\ ResumeWrite("idle")
  /\ UNCHANGED <<netVars, pollVars, closed, need_write, written, wire, retried, recvVars,
                 issued, answers, frameVars>>

-----------------------------------------------------------------------------
(* recv_fn *)

(* Every loop that waits for a part looks at closed(). *)
RecvRead == AwaitPart(~closed) /\ UNCHANGED clientVars

RecvClosed == GiveUp(~closed) /\ UNCHANGED clientVars

Id == answers[frame]

(* An unknown session is noticed before the buffer is touched. *)
RecvNull ==
  /\ NullBuffer(~closed)
  /\ stage = 4 /\ read_buf > 0 => Id \in session_registry
  /\ UNCHANGED clientVars

RecvPart == stage < 4 /\ NextPart /\ UNCHANGED clientVars

(* A header that does not parse ends recv_fn. *)
RecvRefuse ==
  /\ TakePart /\ stage = 2
  /\ refused' = TRUE
  /\ RecvEnd
  /\ UNCHANGED <<issued, sessionVars, answers, frame, completed>>

(* Mutant of RecvResponse: the session is not erased. *)
RecvResponseKeepsSession ==
  /\ TakePart /\ stage = 4 /\ Id \in session_registry
  /\ completed' = completed \cup {Id}
  /\ stage' = 1 /\ frame' = frame + 1
  /\ UNCHANGED <<netVars, pollVars, closed, writeVars, coVars, fault, issued, sessionVars,
                 answers, refused>>

(* The body is there: the session is erased, the response parsed, done run. *)
RecvResponse ==
  /\ TakePart /\ stage = 4 /\ Id \in session_registry
  /\ session_registry' = session_registry \ {Id}
  /\ completed' = completed \cup {Id}
  /\ stage' = 1 /\ frame' = frame + 1
  /\ UNCHANGED <<netVars, pollVars, closed, writeVars, coVars, fault, issued, request_id,
                 answers, refused>>

(* The body does not parse: the session is gone and done is not run; the    *)
(* next frame is looked for where the parser stopped, which may be too      *)
(* early.                                                                   *)
RecvGarbled ==
  /\ TakePart /\ stage = 4 /\ Id \in session_registry
  /\ session_registry' = session_registry \ {Id}
  /\ refused' = TRUE
  /\ fault' \in {"none", "desync"}
  /\ stage' = 1 /\ frame' = frame + 1
  /\ UNCHANGED <<netVars, pollVars, closed, writeVars, coVars, issued, request_id,
                 answers, completed>>

(* No such session: the body stays in read_buf_ and is taken for the next   *)
(* frame.  What follows is not modelled.                                    *)
RecvUnknown ==
  /\ at = "recv" /\ Running
  /\ read_buf > 0 /\ stage = 4 /\ Id \notin session_registry
  /\ fault' = "desync"
  /\ UNCHANGED <<netVars, pollVars, closed, writeVars, coVars, recvVars, clientVars>>

-----------------------------------------------------------------------------
(* The peer answers a request as often as it has received it, the requests  *)
(* in any order.  External to the code.                                     *)

Received(id) == Cardinality({j \in DOMAIN wire : wire[j] = (id + 1) * RequestParts})
Answered(id) == Cardinality({k \in DOMAIN answers : answers[k] = id})

PeerAnswer ==
  /\ PeerSend
  /\ IF inbound % 4 = 0
     THEN \E id \in Ids : Answered(id) < Received(id) /\ answers' = Append(answers, id)
     ELSE UNCHANGED answers
  /\ UNCHANGED <<issued, sessionVars, frameVars>>

-----------------------------------------------------------------------------
LoopStep ==
  \/ ConnectionStep /\ UNCHANGED clientVars
  \/ SendRequest
  \/ RecvRead \/ RecvClosed \/ RecvNull \/ RecvPart \/ RecvRefuse
  \/ RecvResponse \/ RecvGarbled \/ RecvUnknown

Next ==
  \/ LoopStep
  \/ CallMethod \/ Close
  \/ PeerAnswer \/ (PeerStep /\ UNCHANGED clientVars)

Spec == Init /\ [][Next]_vars

(* The executor's thread keeps running, the peer's TCP keeps acknowledging, *)
(* and the peer answers what it receives.                                   *)
FairSpec ==
  /\ Spec
  /\ WF_vars(LoopStep)
  /\ WF_vars(PeerDrain /\ UNCHANGED clientVars)
  /\ WF_vars(PeerAnswer)

-----------------------------------------------------------------------------
(* The state of a channel is well formed; a request has a session, or its   *)
(* done has run, or its response did not parse.                             *)
TypeOK ==
  /\ ConnectionTypes
  /\ issued \in 0 .. MaxCalls /\ request_id \in 0 .. issued
  /\ session_registry \subseteq Ids /\ completed \subseteq Ids
  /\ answers \in Seq(Ids) /\ frame \in Nat /\ refused \in BOOLEAN
  /\ session_registry \cap completed = {}
  /\ ~refused => session_registry \cup completed = 0 .. request_id - 1

(* Every answer that is still to be read finds its session: registration    *)
(* comes before the request can be answered, and an id is not used twice.   *)
(* Only a request that async_write has sent twice is answered twice.        *)
AnswerFindsSession ==
  ~retried =>
    \A k \in DOMAIN answers : k >= frame => answers[k] \in session_registry

(* recv_fn loses its place in the stream only after a frame that does not   *)
(* parse or a request that async_write has sent twice.                      *)
DesyncNeedsRetry == fault = "desync" => retried \/ refused

(* A call whose task has run completes, as long as the connection lives and *)
(* the frames parse: its request leaves write_buf_ and its response reaches *)
(* the session.  (Once the peer has sent MaxParts it answers no more.)      *)
CallCompletes ==
  \A id \in Ids :
    (id \in session_registry) ~>
      \/ id \in completed
      \/ inbound = MaxParts /\ Answered(id) = 0
      \/ closed \/ peer # "open" \/ refused \/ retried \/ fault # "none"
=============================================================================
