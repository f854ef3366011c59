------------------------ MODULE EpollExecutorProofs ------------------------
(***************************************************************************)
(* The wakeup protocol of EpollExecutor, for any set of threads, any       *)
(* number of tasks and either kind of timeout.                             *)
(***************************************************************************)
EXTENDS EpollExecutor, SequenceTheorems, TLAPS

(* What push adds to the queue. *)
LEMMA RangeOfAppend ==
  ASSUME NEW S, NEW q \in Seq(S), NEW x \in S
  PROVE  Range(Append(q, x)) = Range(q) \cup {x}
  <1>1. /\ DOMAIN q = 1 .. Len(q) /\ Len(q) \in Nat
        /\ DOMAIN Append(q, x) = 1 .. Len(q) + 1
    OBVIOUS
  <1>2. Append(q, x)[Len(q) + 1] = x
    OBVIOUS
  <1>3. \A i \in 1 .. Len(q) : Append(q, x)[i] = q[i]
    OBVIOUS
  <1>4. 1 .. Len(q) + 1 = (1 .. Len(q)) \cup {Len(q) + 1}
    BY <1>1
  <1> QED
    BY <1>1, <1>2, <1>3, <1>4 DEF Range

(* Every variable of the executor keeps its type. *)
LEMMA TypeInit == Init => TypeOK
  <1> SUFFICES ASSUME Init PROVE TypeOK
    OBVIOUS
  <1>1. task_queue \in Seq(Tasks)
    BY DEF Init
  <1>2. should_notify \in BOOLEAN /\ edge \in BOOLEAN /\ stop \in BOOLEAN
    BY DEF Init
  <1>3. spawned \in 0 .. MaxTasks
    BY ExecutorAssumption DEF Init
  <1> QED
    BY <1>1, <1>2, <1>3 DEF Init, TypeOK

LEMMA TypeStep == TypeOK /\ [Next]_vars => TypeOK'
  <1> SUFFICES ASSUME TypeOK, [Next]_vars PROVE TypeOK'
    OBVIOUS
  <1> USE ExecutorAssumption DEF TypeOK, LoopAt, Tasks
  <1>1. ASSUME NEW t \in Threads, SpawnPush(t) PROVE TypeOK'
    BY <1>1 DEF SpawnPush, sleepVars, loopVars
  <1>2. ASSUME NEW t \in Threads, SpawnCas(t) PROVE TypeOK'
    BY <1>2, ZenonT(30) DEF SpawnCas, loopVars
  <1>3. ASSUME NEW t \in Threads, SpawnWrite(t) PROVE TypeOK'
    BY <1>3 DEF SpawnWrite, loopVars, histVars
  <1>4. CASE Top
    BY <1>4 DEF Top, sleepVars, callVars, histVars
  <1>5. CASE PopTask
    <2>1. CASE task_queue # <<>> /\ LoopAt("pop", "run")
      <3>1. Head(task_queue) \in Tasks /\ Tail(task_queue) \in Seq(Tasks)
        BY <2>1
      <3>2. Head(task_queue) # NONE
        BY <3>1
      <3>3. /\ running' = Head(task_queue) /\ task_queue' = Tail(task_queue)
            /\ UNCHANGED <<sleepVars, stop, timed, batch, callVars, owner, histVars>>
        BY <1>5, <2>1 DEF PopTask
      <3> QED
        BY <2>1, <3>1, <3>2, <3>3 DEF sleepVars, callVars, histVars
    <2>2. CASE task_queue = <<>> /\ LoopAt("pop", "arm")
      <3>1. UNCHANGED <<task_queue, sleepVars, stop, timed, running, batch, callVars, owner, histVars>>
        BY <1>5, <2>2 DEF PopTask
      <3> QED
        BY <2>2, <3>1 DEF sleepVars, callVars, histVars
    <2> QED
      BY <1>5, <2>1, <2>2 DEF PopTask
  <1>6. CASE RunTask
    BY <1>6 DEF RunTask, sleepVars, callVars
  <1>7. CASE Arm
    BY <1>7 DEF Arm, callVars, histVars
  <1>8. CASE WaitNotified
    BY <1>8 DEF WaitNotified, callVars, histVars
  <1>9. CASE WaitIo
    BY <1>9 DEF WaitIo, sleepVars, callVars, histVars
  <1>10. CASE WaitTimeout \/ WaitError \/ EventsDone
    BY <1>10 DEF WaitTimeout, WaitError, EventsDone, EndIteration, sleepVars, callVars, histVars
  <1>11. CASE DummyRead
    BY <1>11 DEF DummyRead, callVars, histVars
  <1>12. CASE DummyClear
    BY <1>12 DEF DummyClear, callVars, histVars
  <1>13. CASE IoStart
    BY <1>13 DEF IoStart, sleepVars, callVars, histVars
  <1>14. CASE IoDone
    BY <1>14 DEF IoDone, sleepVars, callVars, histVars
  <1>15. CASE Stop
    BY <1>15 DEF Stop, sleepVars, loopVars, callVars, histVars
  <1>16. CASE Join
    BY <1>16 DEF Join, sleepVars, loopVars, callVars, histVars
  <1>17. CASE UNCHANGED vars
    BY <1>17 DEF vars, sleepVars, loopVars, callVars, histVars
  <1> QED
    BY <1>1, <1>2, <1>3, <1>4, <1>5, <1>6, <1>7, <1>8, <1>9, <1>10, <1>11, <1>12,
       <1>13, <1>14, <1>15, <1>16, <1>17 DEF Next, SpawnStep, LoopStep

(* The types hold in every reachable state: the loop only runs a closure    *)
(* it has popped, and leaves no closure and no event behind.                *)
THEOREM TypeCorrect == Spec => []TypeOK
  BY TypeInit, TypeStep, PTL DEF Spec

-----------------------------------------------------------------------------
(* A wakeup on its way stays so while the loop does not leave epoll_wait:   *)
(* no step of a spawning thread takes it back.                              *)
LEMMA WakeupStays ==
  ASSUME TypeOK, WakeupPending, NEW t \in Threads,
         SpawnPush(t) \/ SpawnCas(t) \/ SpawnWrite(t)
  PROVE  WakeupPending'
  <1>1. CASE SpawnPush(t)
    BY <1>1 DEF SpawnPush, WakeupPending, Readable, TypeOK, sleepVars
  <1>2. CASE SpawnCas(t)
    BY <1>2 DEF SpawnCas, WakeupPending, Readable, TypeOK
  <1>3. CASE SpawnWrite(t)
    BY <1>3 DEF SpawnWrite, WakeupPending, Readable, TypeOK
  <1> QED
    BY <1>1, <1>2, <1>3

LEMMA WakeupInit == Init => WakeupInv
  <1> SUFFICES ASSUME Init PROVE WakeupInv
    OBVIOUS
  <1>1. TypeOK
    BY TypeInit
  <1> QED
    BY <1>1 DEF Init, WakeupInv, AnnouncementHeld, ArrivalsCovered

LEMMA WakeupStep == WakeupInv /\ [Next]_vars => WakeupInv'
  <1> SUFFICES ASSUME WakeupInv, [Next]_vars PROVE WakeupInv'
    OBVIOUS
  <1>0. TypeOK /\ TypeOK'
    BY TypeStep DEF WakeupInv
  <1> SUFFICES AnnouncementHeld' /\ ArrivalsCovered'
    BY <1>0 DEF WakeupInv
  <1>i. AnnouncementHeld /\ ArrivalsCovered
    BY DEF WakeupInv
  <1>1. ASSUME NEW t \in Threads, SpawnPush(t)
        PROVE  AnnouncementHeld' /\ ArrivalsCovered'
    <2>1. AnnouncementHeld'
      BY <1>0, <1>1, <1>i, WakeupStays DEF AnnouncementHeld, SpawnPush, sleepVars, loopVars
    <2>n. PICK n \in Tasks : n = spawned + 1
      BY <1>0, <1>1, ExecutorAssumption DEF SpawnPush, TypeOK, Tasks
    <2>2. Range(task_queue') = Range(task_queue) \cup {n}
      BY <1>0, <1>1, <2>n, RangeOfAppend DEF SpawnPush, TypeOK
    <2>3. Casing(n)'
      BY <1>0, <1>1, <2>n DEF SpawnPush, Casing, TypeOK
    <2>4. \A x : Casing(x) => Casing(x)'
      BY <1>0, <1>1 DEF SpawnPush, Casing, TypeOK
    <2>5. ArrivalsCovered'
      <3>1. UNCHANGED <<loop, missed>>
        BY <1>1 DEF SpawnPush, loopVars
      <3>2. WakeupPending => WakeupPending'
        BY <1>0, <1>1, WakeupStays
      <3>3. ASSUME NEW x \in Range(task_queue'), loop \in {"arm", "wait"}
            PROVE  WakeupPending' \/ Casing(x)' \/ x \in missed'
        <4>1. CASE x = n
          BY <2>3, <4>1
        <4>2. CASE x \in Range(task_queue)
          BY <1>i, <2>4, <3>1, <3>2, <3>3, <4>2 DEF ArrivalsCovered
        <4> QED
          BY <2>2, <3>3, <4>1, <4>2
      <3> QED
        BY <3>1, <3>3 DEF ArrivalsCovered
    <2> QED
      BY <2>1, <2>5
  <1>2. ASSUME NEW t \in Threads, SpawnCas(t)
        PROVE  AnnouncementHeld' /\ ArrivalsCovered'
    <2>1. UNCHANGED <<loop, task_queue, task>>
      BY <1>2 DEF SpawnCas, loopVars
    <2>2. CASE should_notify
      <3>1. WakeupPending'
        BY <1>0, <1>2, <2>2 DEF SpawnCas, WakeupPending, TypeOK
      <3> QED
        BY <3>1 DEF AnnouncementHeld, ArrivalsCovered
    <2>3. CASE ~should_notify
      <3>1. AnnouncementHeld'
        BY <1>0, <1>2, <1>i, <2>1, <2>3, WakeupStays DEF AnnouncementHeld
      <3>2. loop = "wait" => ArrivalsCovered'
        BY <1>0, <1>2, <1>i, <2>3, WakeupStays DEF AnnouncementHeld, ArrivalsCovered
      <3>3. ASSUME NEW x, Casing(x), loop = "arm" PROVE Casing(x)' \/ x \in missed'
        BY <1>0, <1>2, <2>3, <3>3 DEF SpawnCas, Casing, TypeOK
      <3>4. missed \subseteq missed'
        BY <1>2 DEF SpawnCas
      <3>5. loop = "arm" => ArrivalsCovered'
        BY <1>0, <1>2, <1>i, <2>1, <3>3, <3>4, WakeupStays DEF ArrivalsCovered
      <3> QED
        BY <2>1, <3>1, <3>2, <3>5 DEF ArrivalsCovered
    <2> QED
      BY <2>2, <2>3
  <1>3. ASSUME NEW t \in Threads, SpawnWrite(t)
        PROVE  AnnouncementHeld' /\ ArrivalsCovered'
    <2>1. WakeupPending'
      BY <1>0, <1>3 DEF SpawnWrite, WakeupPending, Readable, TypeOK
    <2> QED
      BY <2>1 DEF AnnouncementHeld, ArrivalsCovered
  <1>4. CASE Top \/ RunTask \/ WaitNotified \/ WaitIo \/ WaitTimeout \/ WaitError
             \/ DummyRead \/ DummyClear \/ IoStart \/ IoDone \/ EventsDone
    <2>1. loop' \notin {"arm", "wait"}
      BY <1>4 DEF Top, RunTask, WaitNotified, WaitIo, WaitTimeout, WaitError, DummyRead,
                  DummyClear, IoStart, IoDone, EventsDone, EndIteration, LoopAt
    <2> QED
      BY <2>1 DEF AnnouncementHeld, ArrivalsCovered
  <1>5. CASE PopTask
    <2>1. loop' # "wait" /\ (loop' = "arm" => task_queue' = <<>>)
      BY <1>5 DEF PopTask, LoopAt
    <2> QED
      BY <2>1 DEF AnnouncementHeld, ArrivalsCovered, Range
  <1>6. CASE Arm
    <2>1. /\ loop = "arm" /\ should_notify'
          /\ UNCHANGED <<task_queue, event_fd, edge, call, task, missed>>
      BY <1>6 DEF Arm, LoopAt, callVars, histVars
    <2> QED
      BY <1>i, <2>1 DEF AnnouncementHeld, ArrivalsCovered, WakeupPending, Readable, Casing
  <1>7. CASE Stop \/ Join \/ UNCHANGED vars
    <2>1. UNCHANGED <<task_queue, should_notify, event_fd, edge, loop, call, task, missed>>
      BY <1>7 DEF Stop, Join, vars, sleepVars, loopVars, callVars, histVars
    <2> QED
      BY <1>i, <2>1 DEF AnnouncementHeld, ArrivalsCovered, WakeupPending, Readable, Casing
  <1> QED
    BY <1>1, <1>2, <1>3, <1>4, <1>5, <1>6, <1>7 DEF Next, SpawnStep, LoopStep

(* Whatever the number of threads and tasks, and with or without a timeout, *)
(* a task is left to a sleeping loop without a wakeup only if its spawn     *)
(* looked at should_notify_ between the loop's last failed pop and its      *)
(* store of true.                                                           *)
THEOREM WakeupNotLost == Spec => []NoLostWakeup
  <1>1. WakeupInv => NoLostWakeup
    BY DEF WakeupInv, ArrivalsCovered, NoLostWakeup
  <1> QED
    BY <1>1, WakeupInit, WakeupStep, PTL DEF Spec
=============================================================================
