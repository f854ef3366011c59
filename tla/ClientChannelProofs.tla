------------------------ MODULE ClientChannelProofs ------------------------
(***************************************************************************)
(* ClientChannel, for any number of calls, any number of parts in a        *)
(* request, any size of the send buffer, and a peer that answers the       *)
(* requests in any order.                                                  *)
(***************************************************************************)
EXTENDS ClientChannel, ConnectionProofs, FiniteSetTheorems

(* Every id below request_id_ has been given to a request, whose parts went *)
(* to write_buf_.                                                           *)
SessionsInv ==
  /\ session_registry \cup completed \subseteq 0 .. request_id - 1
  /\ outbound = request_id * RequestParts

(* recv_fn knows where in the stream it is: the parts that have been sent   *)
(* to it are in the socket, in read_buf_ or taken, four to a frame.         *)
StreamInv ==
  /\ inbound <= 4 * Len(answers) /\ 4 * Len(answers) < inbound + 4
  /\ frame >= 1
  /\ recv # "done" => inbound = arrived + read_buf + 4 * (frame - 1) + (stage - 1)

(* As long as every request has been sent once, it is answered at most      *)
(* once, after it was sent, and has its session until recv_fn has come to   *)
(* its answer.                                                              *)
AnswersInv ==
  ~retried =>
    /\ \A j, k \in DOMAIN answers : answers[j] = answers[k] => j = k
    /\ \A k \in DOMAIN answers : (answers[k] + 1) * RequestParts <= Len(wire)
    /\ \A id \in 0 .. request_id - 1 :
         id \in session_registry \/ \E k \in DOMAIN answers : k < frame /\ answers[k] = id

ChannelInv ==
  ConnectionInv /\ TypeOK /\ SessionsInv /\ StreamInv /\ AnswersInv /\ DesyncNeedsRetry

-----------------------------------------------------------------------------
(* Lemmas about the operators of the model *)

LEMMA OneRequestMore ==
  ASSUME NEW n \in Nat, NEW k \in Nat
  PROVE  (n + 1) * k = n * k + k
  OBVIOUS

LEMMA SmallerFactor ==
  ASSUME NEW m \in Nat, NEW n \in Nat, NEW k \in Nat \ {0}, m * k <= n * k
  PROVE  m <= n
  <1> SUFFICES ASSUME m > n PROVE FALSE
    OBVIOUS
  <1>1. PICK d \in Nat : m = n + 1 + d
    <2>1. m - n - 1 \in Nat /\ m = n + 1 + (m - n - 1)
      OBVIOUS
    <2> QED
      BY <2>1
  <1>2. m * k = n * k + k + d * k /\ d * k >= 0 /\ n * k \in Nat
    BY <1>1
  <1> QED
    BY <1>2

(* A new frame starts at every fourth part. *)
LEMMA NextFrame ==
  ASSUME NEW b \in Nat, NEW l \in Nat, b <= 4 * l, 4 * l < b + 4
  PROVE  /\ b % 4 = 0 => b = 4 * l
         /\ b % 4 # 0 => b + 1 <= 4 * l
  OBVIOUS

(* A request of which the first parts are on the wire once is received at   *)
(* most once.                                                               *)
LEMMA ReceivedOnce ==
  ASSUME ConnectionInv, ~retried, NEW id \in Ids, RequestParts \in Nat
  PROVE  /\ Received(id) \in {0, 1}
         /\ Received(id) = 1 => (id + 1) * RequestParts <= Len(wire)
  <1> DEFINE e == (id + 1) * RequestParts
             R == {j \in DOMAIN wire : wire[j] = e}
  <1>1. wire \in Seq(Nat) /\ \A i \in 1 .. Len(wire) : wire[i] = i
    BY DEF ConnectionInv, ConnectionTypes, WireInv
  <1>2. R = {} \/ (R = {e} /\ e \in 1 .. Len(wire))
    BY <1>1
  <1>3. Cardinality({}) = 0 /\ Cardinality({e}) = 1
    BY FS_EmptySet, FS_Singleton
  <1>4. Received(id) = Cardinality(R)
    BY DEF Received
  <1>5. e \in 1 .. Len(wire) => e <= Len(wire)
    BY <1>1
  <1> HIDE DEF e, R
  <1>6. Received(id) \in {0, 1} /\ (Received(id) = 1 => e \in 1 .. Len(wire))
    <2>1. CASE R = {}
      <3>1. Received(id) = 0
        BY <1>3, <1>4, <2>1, Zenon
      <3> QED
        BY <3>1
    <2>2. CASE R = {e} /\ e \in 1 .. Len(wire)
      <3>1. Received(id) = 1
        BY <1>3, <1>4, <2>2, Zenon
      <3> QED
        BY <2>2, <3>1
    <2> QED
      BY <1>2, <2>1, <2>2
  <1> QED
    BY <1>5, <1>6 DEF e

LEMMA NotAnswered ==
  ASSUME TypeOK, NEW id, Answered(id) = 0
  PROVE  \A k \in DOMAIN answers : answers[k] # id
  <1> DEFINE A == {k \in DOMAIN answers : answers[k] = id}
  <1>1. DOMAIN answers = 1 .. Len(answers) /\ Len(answers) \in Nat
    BY DEF TypeOK
  <1>2. IsFiniteSet(1 .. Len(answers))
    BY <1>1, FS_Interval
  <1>3. IsFiniteSet(A)
    BY <1>1, <1>2, FS_Subset
  <1>4. A = {}
    BY <1>3, FS_EmptySet DEF Answered
  <1> QED
    BY <1>4

LEMMA AnsweredNat ==
  ASSUME TypeOK, NEW id
  PROVE  Answered(id) \in Nat
  <1> DEFINE A == {k \in DOMAIN answers : answers[k] = id}
  <1>1. DOMAIN answers = 1 .. Len(answers) /\ Len(answers) \in Nat
    BY DEF TypeOK
  <1>2. IsFiniteSet(1 .. Len(answers))
    BY <1>1, FS_Interval
  <1>3. IsFiniteSet(A)
    BY <1>1, <1>2, FS_Subset
  <1> QED
    BY <1>3, FS_CardinalityType DEF Answered

-----------------------------------------------------------------------------
(* The steps *)

(* The steps that server and client share take nothing from the stream and  *)
(* only add to the wire.                                                    *)
LEMMA SharedStepIsQuiet ==
  ASSUME ConnectionInv, ConnectionStep \/ PeerStep
  PROVE  /\ UNCHANGED <<arrived, inbound, read_buf, stage, outbound>>
         /\ recv = "done" => recv' = "done"
         /\ Len(wire) <= Len(wire')
         /\ retried => retried'
         /\ fault' = "desync" => fault = "desync"
  <1>0. wire \in Seq(Nat) /\ write_buf \in Seq(Nat) /\ room \in Nat /\ OneThread
    BY ConnectionAssumption DEF ConnectionInv, ConnectionTypes
  <1>1. CASE Writev
    <2> DEFINE n == Min({room, Len(write_buf)})
    <2>1. n \in 0 .. Len(write_buf)
      <3>1. Len(write_buf) \in Nat
        BY <1>0
      <3>2. n \in 0 .. room /\ n <= Len(write_buf)
        BY <1>0, <3>1, MinOfTwo
      <3> HIDE DEF n
      <3> QED
        BY <1>0, <3>1, <3>2
    <2>2. Prefix(write_buf, n) \in Seq(Nat)
      BY <1>0, <2>1, PrefixOf
    <2>3. wire' = wire \o Prefix(write_buf, n)
      BY <1>1 DEF Writev
    <2> HIDE DEF n
    <2>4. Len(wire) <= Len(wire')
      BY <1>0, <2>2, <2>3
    <2> QED
      BY <1>1, <2>4 DEF Writev, recvVars, coVars
  <1>2. CASE WriteBegin \/ WriteSuspend \/ WriteDone \/ WriteOvershoot \/ WriteKilled
    BY <1>0, <1>2 DEF WriteBegin, WriteSuspend, WriteDone, WriteOvershoot, WriteKilled,
       netVars, recvVars, writeVars, coVars
  <1>3. CASE EventHup \/ EventOut \/ EventIn \/ EventInAfterOut
    BY <1>0, <1>3 DEF EventHup, EventOut, EventIn, EventInAfterOut, ResumeWrite, ResumeRead, Live,
       netVars, recvVars, writeVars, coVars
  <1>4. CASE StartSend \/ SendLoop \/ WaitWrite \/ StartRecv \/ ReadAwait \/ ReadPark
    BY <1>0, <1>4 DEF StartSend, SendLoop, WaitWrite, StartRecv, ReadAwait, ReadPark, OneThread,
       netVars, recvVars, writeVars
  <1>5. CASE PeerStep
    BY <1>0, <1>5 DEF PeerStep, PeerFin, PeerReset, PeerDrain, recvVars, writeVars, coVars
  <1> QED
    BY <1>1, <1>2, <1>3, <1>4, <1>5 DEF ConnectionStep

LEMMA CloseKeeps == ConnectionInv /\ Close => ConnectionInv'
  <1> SUFFICES ASSUME ConnectionInv, Close PROVE ConnectionInv'
    OBVIOUS
  <1> USE DEF ConnectionInv, Close, Wake, netVars, recvVars, writeVars, coVars
  <1>1. edge' \in BOOLEAN /\ closed' \in BOOLEAN
    BY DEF ConnectionTypes
  <1>2. ConnectionTypes'
    BY <1>1 DEF ConnectionTypes, OneThread
  <1>3. CoroutinesInv' /\ ReadInv' /\ WriteInv' /\ OpenResumesLive'
    BY DEF CoroutinesInv, ReadInv, WriteInv, OpenResumesLive
  <1>4. WireInv'
    BY WireKept
  <1> QED
    BY <1>2, <1>3, <1>4

(* The frame recv_fn works on has been sent. *)
LEMMA FrameIsThere ==
  ASSUME ChannelInv, at = "recv", read_buf > 0
  PROVE  frame \in DOMAIN answers
  <1>1. recv # "done"
    BY DEF ChannelInv, ConnectionInv, ConnectionTypes, OneThread
  <1>2. /\ frame \in Nat /\ stage \in 1 .. 4 /\ arrived \in Nat /\ read_buf \in Nat
        /\ answers \in Seq(Ids) /\ inbound \in Nat
    BY ConnectionAssumption DEF ChannelInv, TypeOK, ConnectionTypes
  <1>3. /\ inbound <= 4 * Len(answers) /\ frame >= 1
        /\ inbound = arrived + read_buf + 4 * (frame - 1) + (stage - 1)
    BY <1>1 DEF ChannelInv, StreamInv
  <1>4. Len(answers) \in Nat /\ DOMAIN answers = 1 .. Len(answers)
    BY <1>2
  <1>5. frame <= Len(answers)
    BY <1>2, <1>3, <1>4
  <1> QED
    BY <1>2, <1>3, <1>4, <1>5

LEMMA UnreadHasSession == ChannelInv => AnswerFindsSession
  <1> SUFFICES ASSUME ChannelInv, ~retried, NEW k \in DOMAIN answers, k >= frame
               PROVE  answers[k] \in session_registry
    BY DEF AnswerFindsSession
  <1> DEFINE id == answers[k]
  <1>1. /\ id \in Nat /\ k \in Nat /\ frame \in Nat
        /\ request_id \in Nat /\ RequestParts \in Nat \ {0} /\ outbound \in Nat
    BY ClientAssumption DEF ChannelInv, TypeOK, Ids, ConnectionTypes
  <1>2. (id + 1) * RequestParts <= Len(wire)
    BY DEF ChannelInv, AnswersInv
  <1>3. Len(wire) <= outbound
    <2>1. write_buf \in Seq(Nat) /\ wire \in Seq(Nat) /\ written \in Nat
      BY DEF ChannelInv, TypeOK, ConnectionTypes
    <2> QED
      BY <1>1, <2>1 DEF ChannelInv, ConnectionInv, WireInv, Committed, Sent
  <1>4. id + 1 <= request_id
    <2>1. outbound = request_id * RequestParts
      BY DEF ChannelInv, SessionsInv
    <2>2. /\ (id + 1) * RequestParts \in Nat /\ wire \in Seq(Nat)
          /\ request_id * RequestParts \in Nat
      BY <1>1 DEF ChannelInv, TypeOK, ConnectionTypes
    <2>3. (id + 1) * RequestParts <= request_id * RequestParts
      BY <1>2, <1>3, <2>1, <2>2
    <2>4. id + 1 \in Nat
      BY <1>1
    <2> HIDE DEF id
    <2> QED
      BY <1>1, <2>3, <2>4, SmallerFactor
  <1>5. id \in 0 .. request_id - 1
    BY <1>1, <1>4
  <1>6. ASSUME NEW j \in DOMAIN answers, j < frame, answers[j] = id PROVE FALSE
    <2>1. j = k
      BY <1>6 DEF ChannelInv, AnswersInv
    <2> QED
      BY <1>1, <1>6, <2>1
  <1> QED
    BY <1>5, <1>6 DEF ChannelInv, AnswersInv

LEMMA QuietStep ==
  ASSUME ChannelInv, ConnectionStep \/ PeerStep, UNCHANGED clientVars
  PROVE  ChannelInv'
  <1> USE DEF ChannelInv, clientVars, sessionVars, frameVars
  <1>1. ConnectionInv'
    BY SharedStepKeeps
  <1>2. /\ UNCHANGED <<arrived, inbound, read_buf, stage, outbound>>
        /\ recv = "done" => recv' = "done"
        /\ Len(wire) <= Len(wire')
        /\ retried => retried'
        /\ fault' = "desync" => fault = "desync"
    BY SharedStepIsQuiet
  <1>3. TypeOK'
    BY <1>1 DEF TypeOK, ConnectionInv
  <1>4. SessionsInv' /\ StreamInv' /\ DesyncNeedsRetry'
    BY <1>2 DEF SessionsInv, StreamInv, DesyncNeedsRetry
  <1>5. AnswersInv'
    <2>1. ASSUME NEW k \in DOMAIN answers, (answers[k] + 1) * RequestParts <= Len(wire)
          PROVE  (answers[k] + 1) * RequestParts <= Len(wire')
      <3>1. (answers[k] + 1) * RequestParts \in Int
        BY ClientAssumption DEF TypeOK, Ids
      <3>2. Len(wire) \in Nat /\ Len(wire') \in Nat
        BY <1>1 DEF ConnectionInv, ConnectionTypes
      <3> QED
        BY <1>2, <2>1, <3>1, <3>2
    <2> QED
      BY <1>2, <2>1 DEF AnswersInv
  <1> QED
    BY <1>1, <1>3, <1>4, <1>5

(* CallMethod and close touch neither the stream nor the sessions. *)
LEMMA ApplicationStep ==
  ASSUME ChannelInv, CallMethod \/ Close
  PROVE  ChannelInv'
  <1> USE DEF ChannelInv
  <1>1. CASE CallMethod
    <2>1. ConnectionInv'
      BY <1>1 DEF CallMethod, connVars, netVars, pollVars, writeVars, coVars, recvVars,
         ConnectionInv, ConnectionTypes, OneThread, CoroutinesInv, ReadInv, WriteInv, WireInv,
         Committed, Sent, OpenResumesLive, InReady, OutReady
    <2>2. TypeOK'
      BY <1>1, <2>1, ClientAssumption DEF CallMethod, TypeOK, ConnectionInv, sessionVars, frameVars
    <2>3. SessionsInv' /\ StreamInv' /\ AnswersInv' /\ DesyncNeedsRetry'
      BY <1>1 DEF CallMethod, SessionsInv, StreamInv, AnswersInv, DesyncNeedsRetry, sessionVars,
         frameVars, connVars, netVars, writeVars, coVars, recvVars
    <2> QED
      BY <2>1, <2>2, <2>3
  <1>2. CASE Close
    <2>1. ConnectionInv'
      BY <1>2, CloseKeeps
    <2>2. TypeOK'
      BY <1>2, <2>1 DEF Close, TypeOK, ConnectionInv, clientVars, sessionVars, frameVars
    <2>3. SessionsInv' /\ StreamInv' /\ AnswersInv' /\ DesyncNeedsRetry'
      BY <1>2 DEF Close, SessionsInv, StreamInv, AnswersInv, DesyncNeedsRetry, clientVars,
         sessionVars, frameVars, netVars, writeVars, coVars, recvVars
    <2> QED
      BY <2>1, <2>2, <2>3
  <1> QED
    BY <1>1, <1>2

(* A request gets a fresh id, and its session before it can be on the wire. *)
LEMMA SendRequestStep ==
  ASSUME ChannelInv, SendRequest
  PROVE  ChannelInv'
  <1> USE DEF ChannelInv
  <1>0. /\ request_id \in Nat /\ issued \in 0 .. MaxCalls /\ request_id < issued
        /\ RequestParts \in Nat /\ MaxCalls \in Nat /\ ConnectionTypes
        /\ request_id' = request_id + 1 /\ outbound = request_id * RequestParts
        /\ session_registry' = session_registry \cup {request_id}
        /\ UNCHANGED <<issued, answers, frame, completed, refused>>
        /\ UNCHANGED <<wire, retried, arrived, inbound, read_buf, stage>>
    BY ClientAssumption
       DEF SendRequest, NextRequestId, TypeOK, SessionsInv, frameVars, netVars, recvVars
  <1>1. ConnectionInv'
    BY <1>0, EnqueueKeeps DEF SendRequest, ConnectionTypes, recvVars
  <1>2. SessionsInv'
    <2>1. outbound' = request_id' * RequestParts
      BY <1>0, OneRequestMore DEF SendRequest
    <2>2. 0 .. request_id' - 1 = (0 .. request_id - 1) \cup {request_id}
      BY <1>0
    <2> QED
      BY <1>0, <2>1, <2>2 DEF SessionsInv
  <1>3. TypeOK'
    <2>1. 0 .. request_id' - 1 = (0 .. request_id - 1) \cup {request_id}
      BY <1>0
    <2>2. request_id \in Ids /\ request_id \notin 0 .. request_id - 1
      BY <1>0 DEF Ids
    <2>3. request_id' \in 0 .. issued'
      BY <1>0
    <2> QED
      BY <1>0, <1>1, <2>1, <2>2, <2>3 DEF TypeOK, SessionsInv, ConnectionInv
  <1>4. StreamInv' /\ DesyncNeedsRetry'
    BY <1>0 DEF StreamInv, DesyncNeedsRetry, SendRequest, ResumeWrite, Running, coVars
  <1>5. AnswersInv'
    <2>1. 0 .. request_id' - 1 = (0 .. request_id - 1) \cup {request_id}
      BY <1>0
    <2> QED
      BY <1>0, <2>1 DEF AnswersInv
  <1> QED
    BY <1>1, <1>2, <1>3, <1>4, <1>5

(* recv_fn reads, goes on to the next part, or ends. *)
LEMMA RecvPartStep ==
  ASSUME ChannelInv, RecvRead \/ RecvClosed \/ RecvNull \/ RecvPart \/ RecvRefuse
  PROVE  ChannelInv'
  <1> USE DEF ChannelInv
  <1>0. /\ ConnectionTypes /\ arrived \in Nat /\ read_buf \in Nat /\ stage \in 1 .. 4
        /\ inbound \in Nat /\ frame \in Nat
    BY ConnectionAssumption DEF TypeOK, ConnectionTypes
  <1>1. CASE RecvRead
    <2>1. ConnectionInv'
      BY <1>1, AsyncReadKeeps DEF RecvRead, AwaitPart
    <2>2. /\ UNCHANGED <<clientVars, inbound, stage, recv, writeVars>>
          /\ arrived' + read_buf' = arrived + read_buf
          /\ arrived' \in Nat /\ read_buf' \in Nat
          /\ fault' = "desync" => fault = "desync"
      <3>1. PICK n \in 0 .. arrived : arrived' = arrived - n /\ read_buf' = read_buf + n
        BY <1>1 DEF RecvRead, AwaitPart, AsyncRead
      <3>2. arrived' + read_buf' = arrived + read_buf /\ arrived' \in Nat /\ read_buf' \in Nat
        BY <1>0, <3>1
      <3>3. UNCHANGED recv /\ (fault' = "desync" => fault = "desync")
        BY <1>1 DEF RecvRead, AwaitPart, AsyncRead, ResumeWrite, coVars
      <3> QED
        BY <1>1, <3>2, <3>3 DEF RecvRead, AwaitPart, AsyncRead
    <2>3. StreamInv'
      BY <1>0, <2>2 DEF StreamInv, clientVars, frameVars
    <2> QED
      BY <2>1, <2>2, <2>3 DEF TypeOK, ConnectionInv, SessionsInv, AnswersInv, DesyncNeedsRetry,
         clientVars, sessionVars, frameVars, writeVars
  <1>2. CASE RecvClosed
    <2>1. ConnectionInv'
      BY <1>0, <1>2, RecvEndKeeps DEF RecvClosed, GiveUp, ConnectionTypes
    <2>2. UNCHANGED <<clientVars, inbound, writeVars, fault>> /\ recv' = "done"
      BY <1>2 DEF RecvClosed, GiveUp, RecvEnd, netVars
    <2> QED
      BY <2>1, <2>2 DEF TypeOK, ConnectionInv, SessionsInv, StreamInv, AnswersInv,
         DesyncNeedsRetry, clientVars, sessionVars, frameVars, writeVars
  <1>3. CASE RecvNull
    <2>1. ConnectionInv'
      BY <1>3, FaultKeeps DEF RecvNull, NullBuffer
    <2>2. /\ UNCHANGED <<clientVars, inbound, arrived, read_buf, stage, recv, writeVars>>
          /\ fault' # "desync"
      BY <1>3 DEF RecvNull, NullBuffer, netVars, recvVars, coVars
    <2> QED
      BY <2>1, <2>2 DEF TypeOK, ConnectionInv, SessionsInv, StreamInv, AnswersInv,
         DesyncNeedsRetry, clientVars, sessionVars, frameVars, writeVars
  <1>4. CASE RecvPart
    <2>1. /\ UNCHANGED <<clientVars, inbound, arrived, recv, writeVars, fault>>
          /\ stage' = stage + 1 /\ read_buf' = read_buf - 1 /\ stage' \in 1 .. 4
      BY <1>0, <1>4 DEF RecvPart, NextPart, TakePart, netVars, coVars
    <2>2. ConnectionInv'
      <3>1. fault' \in {"none", "desync"}
        BY <1>4, <2>1 DEF RecvPart, NextPart, TakePart, Running
      <3> QED
        BY <1>4, <2>1, <3>1, NextPartKeeps DEF RecvPart, NextPart
    <2>3. StreamInv'
      BY <1>0, <2>1 DEF StreamInv, clientVars, frameVars
    <2> QED
      BY <2>1, <2>2, <2>3 DEF TypeOK, ConnectionInv, SessionsInv, AnswersInv, DesyncNeedsRetry,
         clientVars, sessionVars, frameVars, writeVars
  <1>5. CASE RecvRefuse
    <2>1. read_buf' \in Nat /\ drained' \in BOOLEAN
      BY <1>0, <1>5 DEF RecvRefuse, TakePart, MayDrain
    <2>2. ConnectionInv'
      BY <1>5, <2>1, RecvEndKeeps DEF RecvRefuse, TakePart
    <2>3. /\ UNCHANGED <<issued, sessionVars, answers, frame, completed, inbound, writeVars>>
          /\ recv' = "done" /\ refused' = TRUE
      BY <1>5 DEF RecvRefuse, RecvEnd, netVars
    <2>4. refused' \in BOOLEAN
      BY <2>3
    <2> QED
      BY <2>2, <2>3, <2>4 DEF TypeOK, ConnectionInv, SessionsInv, StreamInv, AnswersInv,
         DesyncNeedsRetry, sessionVars, writeVars
  <1> QED
    BY <1>1, <1>2, <1>3, <1>4, <1>5

(* A response takes its session with it, whether or not it parses. *)
LEMMA ResponseStep ==
  ASSUME ChannelInv, RecvResponse \/ RecvGarbled
  PROVE  ChannelInv'
  <1> USE DEF ChannelInv
  <1>0. /\ at = "recv" /\ Running /\ read_buf > 0 /\ stage = 4 /\ Id \in session_registry
        /\ read_buf' = read_buf - 1 /\ stage' = 1 /\ frame' = frame + 1
        /\ session_registry' = session_registry \ {Id}
        /\ UNCHANGED <<netVars, pollVars, closed, writeVars, coVars, issued, request_id, answers>>
        /\ TakePart
    BY DEF RecvResponse, RecvGarbled, TakePart
  <1>1. /\ frame \in DOMAIN answers /\ frame \in Nat /\ arrived \in Nat /\ read_buf \in Nat
        /\ inbound \in Nat /\ DOMAIN answers \subseteq Nat
    BY <1>0, FrameIsThere, ConnectionAssumption DEF TypeOK, ConnectionTypes
  <1>2. ConnectionInv'
    <2>1. fault' \in {"none", "desync"} /\ stage' \in 1 .. 4
      BY <1>0 DEF RecvResponse, RecvGarbled, Running
    <2> QED
      BY <1>0, <2>1, NextPartKeeps
  <1>3. SessionsInv' /\ TypeOK'
    <2>1. CASE RecvResponse
      <3>1. completed' = completed \cup {Id} /\ UNCHANGED refused
        BY <2>1 DEF RecvResponse
      <3>2. Id \in Ids /\ frame' \in Nat
        BY <1>0, <1>1 DEF TypeOK
      <3> QED
        BY <1>0, <1>2, <3>1, <3>2 DEF SessionsInv, TypeOK, ConnectionInv, writeVars
    <2>2. CASE RecvGarbled
      <3>1. UNCHANGED completed /\ refused' = TRUE
        BY <2>2 DEF RecvGarbled
      <3>2. refused' \in BOOLEAN /\ refused' /\ frame' \in Nat
        BY <1>0, <1>1, <3>1
      <3> QED
        BY <1>0, <1>2, <3>1, <3>2 DEF SessionsInv, TypeOK, ConnectionInv, writeVars
    <2> QED
      BY <2>1, <2>2
  <1>4. StreamInv'
    BY <1>0, <1>1 DEF StreamInv, netVars, coVars
  <1>5. AnswersInv'
    <2>1. ASSUME NEW k \in DOMAIN answers, k < frame PROVE k < frame'
      BY <1>0, <1>1, <2>1
    <2>2. frame < frame'
      BY <1>0, <1>1
    <2> QED
      BY <1>0, <1>1, <2>1, <2>2 DEF AnswersInv, Id, writeVars
  <1>6. DesyncNeedsRetry'
    BY <1>0 DEF DesyncNeedsRetry, RecvResponse, RecvGarbled, Running
  <1> QED
    BY <1>2, <1>3, <1>4, <1>5, <1>6

(* An answer without a session means that a request was sent twice. *)
LEMMA UnknownStep ==
  ASSUME ChannelInv, RecvUnknown
  PROVE  ChannelInv'
  <1>1. retried
    BY FrameIsThere, UnreadHasSession, ConnectionAssumption
       DEF RecvUnknown, AnswerFindsSession, Id, ChannelInv, TypeOK
  <1>2. ConnectionInv'
    BY FaultKeeps DEF RecvUnknown, ChannelInv
  <1>3. UNCHANGED <<clientVars, inbound, arrived, read_buf, stage, recv, writeVars>>
    BY DEF RecvUnknown, netVars, recvVars, coVars
  <1> QED
    BY <1>1, <1>2, <1>3 DEF ChannelInv, TypeOK, ConnectionInv, SessionsInv, StreamInv, AnswersInv,
       DesyncNeedsRetry, clientVars, sessionVars, frameVars, writeVars

(* The peer answers a request that it has received and not answered yet. *)
LEMMA PeerAnswerStep ==
  ASSUME ChannelInv, PeerAnswer
  PROVE  ChannelInv'
  <1> USE DEF ChannelInv
  <1>1. ConnectionInv'
    BY SharedStepKeeps DEF PeerAnswer
  <1>2. /\ inbound' = inbound + 1 /\ arrived' = arrived + 1
        /\ UNCHANGED <<read_buf, stage, recv, writeVars, fault, issued, sessionVars, frameVars>>
    BY DEF PeerAnswer, PeerSend, recvVars, coVars
  <1>3. /\ inbound \in Nat /\ arrived \in Nat /\ read_buf \in Nat /\ stage \in 1 .. 4
        /\ frame \in Nat /\ answers \in Seq(Ids) /\ Len(answers) \in Nat
    BY ConnectionAssumption DEF TypeOK, ConnectionTypes
  <1>4. SessionsInv' /\ DesyncNeedsRetry'
    BY <1>2 DEF SessionsInv, DesyncNeedsRetry, sessionVars, frameVars, writeVars
  <1>5. inbound <= 4 * Len(answers) /\ 4 * Len(answers) < inbound + 4
    BY DEF StreamInv
  <1>6. CASE inbound % 4 = 0
    <2>1. PICK id \in Ids : Answered(id) < Received(id) /\ answers' = Append(answers, id)
      BY <1>6 DEF PeerAnswer
    <2>2. /\ answers' \in Seq(Ids) /\ Len(answers') = Len(answers) + 1
          /\ DOMAIN answers' = DOMAIN answers \cup {Len(answers) + 1}
          /\ DOMAIN answers = 1 .. Len(answers)
          /\ \A k \in DOMAIN answers : answers'[k] = answers[k]
          /\ answers'[Len(answers) + 1] = id
      BY <1>3, <2>1
    <2>3. StreamInv'
      <3>1. inbound = 4 * Len(answers)
        BY <1>3, <1>5, <1>6, NextFrame
      <3>2. inbound' <= 4 * Len(answers') /\ 4 * Len(answers') < inbound' + 4
        BY <1>2, <1>3, <2>2, <3>1
      <3> QED
        BY <1>2, <1>3, <3>2 DEF StreamInv, frameVars
    <2>4. AnswersInv'
      <3> SUFFICES ASSUME ~retried PROVE AnswersInv'
        BY <1>2 DEF AnswersInv, writeVars
      <3>1. /\ \A k \in DOMAIN answers : answers[k] # id
            /\ (id + 1) * RequestParts <= Len(wire)
        <4>1. /\ Received(id) \in {0, 1}
              /\ Received(id) = 1 => (id + 1) * RequestParts <= Len(wire)
          BY ReceivedOnce, ClientAssumption
        <4>2. Answered(id) \in Nat
          BY AnsweredNat
        <4>3. Answered(id) = 0 /\ Received(id) = 1
          BY <2>1, <4>1, <4>2
        <4> QED
          BY <4>1, <4>3, NotAnswered
      <3>2. /\ \A j, k \in DOMAIN answers : answers[j] = answers[k] => j = k
            /\ \A k \in DOMAIN answers : (answers[k] + 1) * RequestParts <= Len(wire)
            /\ \A i \in 0 .. request_id - 1 :
                 i \in session_registry \/ \E k \in DOMAIN answers : k < frame /\ answers[k] = i
        BY DEF AnswersInv
      <3>3. \A j, k \in DOMAIN answers' : answers'[j] = answers'[k] => j = k
        BY <2>2, <3>1, <3>2, Zenon
      <3>4. \A k \in DOMAIN answers' : (answers'[k] + 1) * RequestParts <= Len(wire)
        BY <2>2, <3>1, <3>2, Zenon
      <3>5. \A i \in 0 .. request_id - 1 :
              i \in session_registry \/ \E k \in DOMAIN answers' : k < frame /\ answers'[k] = i
        BY <2>2, <3>2, Zenon
      <3> QED
        BY <1>2, <3>3, <3>4, <3>5 DEF AnswersInv, sessionVars, frameVars, writeVars
    <2>5. TypeOK'
      BY <1>1, <1>2, <2>2 DEF TypeOK, ConnectionInv, sessionVars, frameVars
    <2> QED
      BY <1>1, <1>4, <2>3, <2>4, <2>5
  <1>7. CASE inbound % 4 # 0
    <2>1. answers' = answers
      BY <1>7 DEF PeerAnswer
    <2>2. StreamInv'
      <3>1. inbound + 1 <= 4 * Len(answers)
        BY <1>3, <1>5, <1>7, NextFrame
      <3> QED
        BY <1>2, <1>3, <1>5, <2>1, <3>1 DEF StreamInv, frameVars
    <2>3. TypeOK' /\ AnswersInv'
      BY <1>1, <1>2, <2>1
         DEF TypeOK, ConnectionInv, AnswersInv, sessionVars, frameVars, writeVars
    <2> QED
      BY <1>1, <1>4, <2>2, <2>3
  <1> QED
    BY <1>6, <1>7

LEMMA ChannelInit == Init => ChannelInv
  <1> SUFFICES ASSUME Init PROVE ChannelInv
    OBVIOUS
  <1>1. ConnectionInv
    BY ConnectionInit DEF Init
  <1>2. TypeOK
    <2>1. answers \in Seq(Ids) /\ frame \in Nat
      BY DEF Init
    <2>2. refused \in BOOLEAN
      BY DEF Init
    <2>3. issued \in 0 .. MaxCalls /\ request_id \in 0 .. issued /\ 0 .. request_id - 1 = {}
      BY ClientAssumption DEF Init
    <2> QED
      BY <1>1, <2>1, <2>2, <2>3 DEF Init, TypeOK, ConnectionInv
  <1>3. SessionsInv
    BY ClientAssumption DEF Init, InitConnection, SessionsInv
  <1>4. StreamInv
    BY DEF Init, InitConnection, StreamInv
  <1>5. AnswersInv
    <2>1. DOMAIN answers = {} /\ 0 .. request_id - 1 = {}
      BY DEF Init
    <2> QED
      BY <2>1 DEF AnswersInv
  <1>6. DesyncNeedsRetry
    BY DEF Init, InitConnection, DesyncNeedsRetry
  <1> QED
    BY <1>1, <1>2, <1>3, <1>4, <1>5, <1>6 DEF ChannelInv

LEMMA ChannelStep == ChannelInv /\ [Next]_vars => ChannelInv'
  <1> SUFFICES ASSUME ChannelInv, [Next]_vars PROVE ChannelInv'
    OBVIOUS
  <1>1. CASE (ConnectionStep \/ PeerStep) /\ UNCHANGED clientVars
    BY <1>1, QuietStep
  <1>2. CASE CallMethod \/ Close
    BY <1>2, ApplicationStep
  <1>3. CASE SendRequest
    BY <1>3, SendRequestStep
  <1>4. CASE RecvRead \/ RecvClosed \/ RecvNull \/ RecvPart \/ RecvRefuse
    BY <1>4, RecvPartStep
  <1>5. CASE RecvResponse \/ RecvGarbled
    BY <1>5, ResponseStep
  <1>6. CASE RecvUnknown
    BY <1>6, UnknownStep
  <1>7. CASE PeerAnswer
    BY <1>7, PeerAnswerStep
  <1>8. CASE UNCHANGED vars
    BY <1>8 DEF vars, connVars, clientVars, sessionVars, frameVars, netVars, pollVars, writeVars,
       coVars, recvVars, ChannelInv, ConnectionInv, TypeOK, ConnectionTypes, OneThread,
       CoroutinesInv, ReadInv, WriteInv, WireInv, Committed, Sent, OpenResumesLive, InReady,
       OutReady, SessionsInv, StreamInv, AnswersInv, DesyncNeedsRetry
  <1> QED
    BY <1>1, <1>2, <1>3, <1>4, <1>5, <1>6, <1>7, <1>8 DEF Next, LoopStep

LEMMA ChannelInvariant == Spec => []ChannelInv
  BY ChannelInit, ChannelStep, PTL DEF Spec

-----------------------------------------------------------------------------
(* Every state of a channel is well formed; a request has a session, or its *)
(* done has run, or its response did not parse, and never two of these.     *)
THEOREM TypeCorrect == Spec => []TypeOK
  <1>1. ChannelInv => TypeOK
    BY DEF ChannelInv
  <1> QED
    BY <1>1, ChannelInvariant, PTL

(* Every answer still to be read finds its session, however many calls are  *)
(* in flight and in whatever order they are answered, unless async_write    *)
(* has retried a short writev.                                              *)
THEOREM AnswersFindSessions == Spec => []AnswerFindsSession
  BY UnreadHasSession, ChannelInvariant, PTL

(* recv_fn loses its place in the stream only after a frame that does not   *)
(* parse or a retried writev.                                               *)
THEOREM DesyncOnlyByRetry == Spec => []DesyncNeedsRetry
  <1>1. ChannelInv => DesyncNeedsRetry
    BY DEF ChannelInv
  <1> QED
    BY <1>1, ChannelInvariant, PTL

(* Also with close() on a thread of its own, and with calls that write to   *)
(* the buffer between the reads, an open channel resumes live coroutines.   *)
THEOREM OpenIsResumable == Spec => []OpenResumesLive
  <1>1. ChannelInv => OpenResumesLive
    BY ConnectionFacts DEF ChannelInv
  <1> QED
    BY <1>1, ChannelInvariant, PTL
=============================================================================
