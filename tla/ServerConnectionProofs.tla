----------------------- MODULE ServerConnectionProofs -----------------------
(***************************************************************************)
(* A connection of RpcServer, for any number of parts in a response, any   *)
(* size of the send buffer and any number of requests.                     *)
(***************************************************************************)
EXTENDS ServerConnection, ConnectionProofs

LEMMA OneCallMore ==
  ASSUME NEW n \in Nat, NEW k \in Nat
  PROVE  (n + 1) * k = n * k + k
  OBVIOUS

LEMMA InvInit == Init => ConnectionInv /\ TypeOK
  <1> SUFFICES ASSUME Init PROVE ConnectionInv /\ TypeOK
    OBVIOUS
  <1>1. ConnectionInv
    BY ConnectionInit DEF Init
  <1>2. refused \in BOOLEAN
    BY DEF Init
  <1>3. calls \in Nat /\ outbound = calls * ResponseParts
    BY ServerAssumption DEF Init, InitConnection
  <1> QED
    BY <1>1, <1>2, <1>3 DEF ConnectionInv, TypeOK

(* ConnectionInv is kept by everything that recv_fn of the server does. *)
LEMMA InvStep == ConnectionInv /\ TypeOK /\ [Next]_vars => ConnectionInv' /\ TypeOK'
  <1> SUFFICES ASSUME ConnectionInv, TypeOK, [Next]_vars PROVE ConnectionInv' /\ TypeOK'
    OBVIOUS
  <1>0. calls \in Nat /\ ResponseParts \in Nat /\ outbound = calls * ResponseParts
        /\ refused \in BOOLEAN /\ ConnectionTypes
    BY ServerAssumption DEF TypeOK
  <1>1. CASE (ConnectionStep \/ PeerSend \/ PeerStep) /\ UNCHANGED serverVars
    <2>1. ConnectionInv'
      BY <1>1, SharedStepKeeps
    <2>2. UNCHANGED <<outbound, refused, calls>>
      BY <1>1 DEF serverVars, ConnectionStep, PeerStep, PeerSend, PeerFin, PeerReset, PeerDrain,
           EventHup, EventOut, EventIn, EventInAfterOut, StartSend, WriteBegin, Writev,
           WriteSuspend, WriteDone, WriteOvershoot, WriteKilled, SendLoop, WaitWrite,
           StartRecv, ReadAwait, ReadPark, writeVars
    <2> QED
      BY <1>0, <2>1, <2>2 DEF ConnectionInv, TypeOK
  <1>2. CASE RecvRead
    <2>1. ConnectionInv'
      BY <1>2, AsyncReadKeeps DEF RecvRead, AwaitPart
    <2> QED
      BY <1>0, <1>2, <2>1
         DEF RecvRead, AwaitPart, AsyncRead, serverVars, writeVars, ConnectionInv, TypeOK
  <1>3. CASE RecvClosed
    <2>1. ConnectionInv'
      BY <1>0, <1>3, RecvEndKeeps DEF RecvClosed, GiveUp, ConnectionTypes
    <2> QED
      BY <1>0, <1>3, <2>1
         DEF RecvClosed, GiveUp, RecvEnd, serverVars, writeVars, ConnectionInv, TypeOK
  <1>4. CASE RecvNull
    <2>1. ConnectionInv'
      BY <1>4, FaultKeeps DEF RecvNull, NullBuffer
    <2> QED
      BY <1>0, <1>4, <2>1
         DEF RecvNull, NullBuffer, serverVars, writeVars, ConnectionInv, TypeOK
  <1>5. CASE RecvRefuse
    <2>1. read_buf' \in Nat /\ drained' \in BOOLEAN
      BY <1>0, <1>5 DEF RecvRefuse, TakePart, MayDrain, ConnectionTypes
    <2>2. ConnectionInv'
      BY <1>5, <2>1, RecvEndKeeps DEF RecvRefuse, TakePart
    <2> QED
      BY <1>0, <1>5, <2>2 DEF RecvRefuse, RecvEnd, writeVars, ConnectionInv, TypeOK
  <1>6. CASE RecvPart
    <2>1. stage' \in 1 .. 4 /\ fault' \in {"none", "desync"}
      BY <1>0, <1>6 DEF RecvPart, NextPart, TakePart, Running, BeforeBody, ConnectionTypes
    <2>2. ConnectionInv'
      BY <1>6, <2>1, NextPartKeeps DEF RecvPart, NextPart
    <2> QED
      BY <1>0, <1>6, <2>2 DEF RecvPart, NextPart, serverVars, writeVars, ConnectionInv, TypeOK
  <1>7. CASE RecvCall
    <2>1. read_buf' \in Nat /\ drained' \in BOOLEAN /\ stage' \in 1 .. 4
      BY <1>0, <1>7 DEF RecvCall, TakePart, MayDrain, ConnectionTypes
    <2>2. at = "recv" /\ recv # "unstarted" /\ Running
      BY <1>0, <1>7 DEF RecvCall, TakePart, ConnectionTypes, OneThread
    <2>3. ConnectionInv'
      BY <1>0, <1>7, <2>1, <2>2, EnqueueKeeps DEF RecvCall, TakePart
    <2>4. outbound' = calls' * ResponseParts /\ calls' \in Nat
      BY <1>0, <1>7, OneCallMore DEF RecvCall
    <2> QED
      BY <1>0, <1>7, <2>3, <2>4 DEF RecvCall, ConnectionInv, TypeOK
  <1>8. CASE UNCHANGED vars
    BY <1>0, <1>8 DEF vars, connVars, serverVars, netVars, pollVars, writeVars, coVars, recvVars,
       ConnectionInv, TypeOK, ConnectionTypes, OneThread, CoroutinesInv, ReadInv, WriteInv,
       WireInv, Committed, Sent, OpenResumesLive, InReady, OutReady
  <1> QED
    BY <1>1, <1>2, <1>3, <1>4, <1>5, <1>6, <1>7, <1>8 DEF Next, ServerStep

(* A server connection that the peer has shut down, not reset, and on which *)
(* no frame was refused: it was async_read that noticed, in recv_fn, which  *)
(* then lets send_fn run to its end and ends itself before the executor is  *)
(* back in its loop.                                                        *)
ShutdownInv ==
  closed /\ ~refused /\ peer # "reset" /\ Running =>
    /\ at \in InSend => ret = "await"
    /\ at \in {"recv", "await", "park"} => send = "done"
    /\ at # "in"
    /\ at = "idle" => recv = "done" /\ send = "done"

LEMMA ShutdownStep ==
  ASSUME ConnectionInv, ShutdownInv, TypeOK, [Next]_vars
  PROVE  ShutdownInv'
  <1> SUFFICES ASSUME closed', ~refused', peer' # "reset", fault' = "none"
               PROVE  /\ at' \in InSend => ret' = "await"
                      /\ at' \in {"recv", "await", "park"} => send' = "done"
                      /\ at' # "in"
                      /\ at' = "idle" => recv' = "done" /\ send' = "done"
    BY DEF ShutdownInv, Running
  <1> USE DEF Running, InSend, Live, netVars, pollVars, coVars
  <1>0. ConnectionTypes /\ OneThread /\ CoroutinesInv /\ refused \in BOOLEAN
    BY DEF ConnectionInv, ConnectionTypes, TypeOK
  <1>1. CASE EventHup /\ UNCHANGED serverVars
    BY <1>0, <1>1, MaskOf DEF EventHup, Reported, HupReady, serverVars, ShutdownInv, CoroutinesInv, ConnectionTypes, OneThread
  <1>2. CASE EventOut /\ UNCHANGED serverVars
    BY <1>0, <1>2, MaskOf DEF EventOut, Reported, ResumeWrite, serverVars, ShutdownInv, CoroutinesInv, ConnectionTypes, OneThread
  <1>3. CASE EventIn /\ UNCHANGED serverVars
    BY <1>0, <1>3, MaskOf DEF EventIn, Reported, ResumeRead, serverVars, ShutdownInv, CoroutinesInv, ConnectionTypes, OneThread
  <1>4. CASE EventInAfterOut /\ UNCHANGED serverVars
    BY <1>0, <1>4 DEF EventInAfterOut, ResumeRead, serverVars, ShutdownInv, CoroutinesInv, ConnectionTypes, OneThread
  <1>5. CASE StartSend /\ UNCHANGED serverVars
    BY <1>0, <1>5 DEF StartSend, serverVars, ShutdownInv, CoroutinesInv, ConnectionTypes, OneThread
  <1>6. CASE WriteBegin /\ UNCHANGED serverVars
    BY <1>0, <1>6 DEF WriteBegin, serverVars, ShutdownInv, CoroutinesInv, ConnectionTypes, OneThread
  <1>7. CASE Writev /\ UNCHANGED serverVars
    BY <1>0, <1>7 DEF Writev, serverVars, ShutdownInv, CoroutinesInv, ConnectionTypes, OneThread
  <1>8. CASE WriteSuspend /\ UNCHANGED serverVars
    BY <1>0, <1>8 DEF WriteSuspend, serverVars, ShutdownInv, CoroutinesInv, ConnectionTypes, OneThread
  <1>9. CASE WriteDone /\ UNCHANGED serverVars
    BY <1>0, <1>9 DEF WriteDone, WriteLoopEnds, serverVars, ShutdownInv, CoroutinesInv, ConnectionTypes, OneThread
  <1>10. CASE SendLoop /\ UNCHANGED serverVars
    BY <1>0, <1>10 DEF SendLoop, SendGoesOn, serverVars, ShutdownInv, CoroutinesInv, ConnectionTypes, OneThread
  <1>11. CASE WaitWrite /\ UNCHANGED serverVars
    BY <1>0, <1>11 DEF WaitWrite, serverVars, ShutdownInv, CoroutinesInv, ConnectionTypes, OneThread
  <1>12. CASE StartRecv /\ UNCHANGED serverVars
    BY <1>0, <1>12 DEF StartRecv, serverVars, ShutdownInv, CoroutinesInv, ConnectionTypes, OneThread
  <1>13. CASE ReadAwait /\ UNCHANGED serverVars
    BY <1>0, <1>13 DEF ReadAwait, serverVars, ShutdownInv, CoroutinesInv, ConnectionTypes, OneThread
  <1>14. CASE ReadPark /\ UNCHANGED serverVars
    BY <1>0, <1>14 DEF ReadPark, ReadParks, serverVars, ShutdownInv, CoroutinesInv, ConnectionTypes, OneThread
  <1>15. CASE RecvRead
    BY <1>0, <1>15 DEF RecvRead, AwaitPart, AsyncRead, ResumeWrite, serverVars, ShutdownInv, CoroutinesInv, ConnectionTypes, OneThread
  <1>16. CASE RecvClosed
    BY <1>0, <1>16 DEF RecvClosed, GiveUp, RecvEnd, MayRead, serverVars, ShutdownInv, CoroutinesInv, ConnectionTypes, OneThread
  <1>17. CASE RecvNull
    BY <1>0, <1>17 DEF RecvNull, NullBuffer, ShutdownInv, CoroutinesInv, ConnectionTypes, OneThread
  <1>18. CASE RecvRefuse
    BY <1>0, <1>18 DEF RecvRefuse, ShutdownInv, CoroutinesInv, ConnectionTypes, OneThread
  <1>19. CASE RecvPart
    BY <1>0, <1>19 DEF RecvPart, NextPart, TakePart, serverVars, ShutdownInv, CoroutinesInv, ConnectionTypes, OneThread
  <1>20. CASE RecvCall
    BY <1>0, <1>20 DEF RecvCall, TakePart, ResumeWrite, ShutdownInv, CoroutinesInv, ConnectionTypes, OneThread
  <1>21. CASE PeerSend /\ UNCHANGED serverVars
    BY <1>0, <1>21 DEF PeerSend, serverVars, ShutdownInv, CoroutinesInv, ConnectionTypes, OneThread
  <1>22. CASE PeerFin /\ UNCHANGED serverVars
    BY <1>0, <1>22 DEF PeerFin, serverVars, ShutdownInv, CoroutinesInv, ConnectionTypes, OneThread
  <1>23. CASE PeerReset /\ UNCHANGED serverVars
    BY <1>0, <1>23 DEF PeerReset, serverVars, ShutdownInv, CoroutinesInv, ConnectionTypes, OneThread
  <1>24. CASE PeerDrain /\ UNCHANGED serverVars
    BY <1>0, <1>24 DEF PeerDrain, serverVars, ShutdownInv, CoroutinesInv, ConnectionTypes, OneThread
  <1>25. CASE (WriteOvershoot \/ WriteKilled) /\ UNCHANGED serverVars
    BY <1>25 DEF WriteOvershoot, WriteKilled
  <1>26. CASE UNCHANGED vars
    BY <1>26 DEF vars, connVars, serverVars, ShutdownInv
  <1> QED
    BY <1>1, <1>2, <1>3, <1>4, <1>5, <1>6, <1>7, <1>8, <1>9, <1>10, <1>11, <1>12,
       <1>13, <1>14, <1>15, <1>16, <1>17, <1>18, <1>19, <1>20, <1>21, <1>22, <1>23,
       <1>24, <1>25, <1>26
       DEF Next, ServerStep, ConnectionStep, PeerStep

LEMMA ServerInv == Spec => [](ConnectionInv /\ TypeOK /\ ShutdownInv)
  <1>1. Init => ConnectionInv /\ TypeOK /\ ShutdownInv
    BY InvInit DEF Init, InitConnection, ShutdownInv
  <1>2. ConnectionInv /\ TypeOK /\ ShutdownInv /\ [Next]_vars
          => (ConnectionInv /\ TypeOK /\ ShutdownInv)'
    BY InvStep, ShutdownStep
  <1> QED
    BY <1>1, <1>2, PTL DEF Spec

-----------------------------------------------------------------------------
(* Every state of a server connection is well formed, the thread is in at   *)
(* most one coroutine at a time, and every call has put one response into   *)
(* write_buf_.                                                              *)
THEOREM TypeCorrect == Spec => []TypeOK
  BY ServerInv, PTL

(* Edge-triggered reading loses no wakeup: recv_fn never sleeps on an open  *)
(* connection with something to read that epoll does not know of.           *)
THEOREM ReadsNotMissed == Spec => []ReadinessNotLost
  <1>1. ConnectionInv => ReadinessNotLost
    BY ConnectionFacts
  <1> QED
    BY <1>1, ServerInv, PTL

(* Edge-triggered writing loses no wakeup: send_fn never sleeps on an open  *)
(* connection with something to write and room for it that epoll does not   *)
(* know of.                                                                 *)
THEOREM WritesNotMissed == Spec => []WritabilityNotLost
  <1>1. ConnectionInv => WritabilityNotLost
    BY ConnectionFacts
  <1> QED
    BY <1>1, ServerInv, PTL

(* The responses reach the wire in order and once, unless async_write has   *)
(* retried a short writev.                                                  *)
THEOREM ResponsesInOrder == Spec => []WireInOrder
  <1>1. ConnectionInv => WireInOrder
    BY ConnectionFacts
  <1> QED
    BY <1>1, ServerInv, PTL

(* resume_read and resume_write find a live coroutine on every connection   *)
(* that is still open.                                                      *)
THEOREM OpenIsResumable == Spec => []OpenResumesLive
  <1>1. ConnectionInv => OpenResumesLive
    BY ConnectionFacts
  <1> QED
    BY <1>1, ServerInv, PTL

(* Only a reset by the peer or a refused frame leaves a coroutine suspended *)
(* on a connection that epoll no longer watches.                            *)
THEOREM StrandedOnlyByReset == Spec => []StrandedNeedsReset
  <1>1. ConnectionInv /\ TypeOK /\ ShutdownInv => StrandedNeedsReset
    BY DEF ConnectionInv, CoroutinesInv, TypeOK, ConnectionTypes, ShutdownInv, StrandedNeedsReset,
           Running, Live
  <1> QED
    BY <1>1, ServerInv, PTL
=============================================================================
