--------------------------- MODULE EpollExecutor ---------------------------
(***************************************************************************)
(* The event loop of scheduler/epoll_executor.cpp: one thread drains       *)
(* task_queue_, announces that it is about to sleep (should_notify_) and   *)
(* sleeps in epoll_wait; spawn, on any thread and from callbacks on the    *)
(* loop's own thread, pushes a task and writes the eventfd if the loop has *)
(* announced its sleep.  task_queue_ is an atomic FIFO here; what          *)
(* MPMCQueue really guarantees is checked in that module.  Connection      *)
(* events only matter as something that wakes the loop and as callbacks    *)
(* that may spawn.                                                         *)
(***************************************************************************)
EXTENDS Integers, Sequences, Functions

CONSTANTS
  Threads,      \* threads that call spawn, the loop's own thread included
  LoopThread,   \* the thread of the loop
  NONE,         \* no task
  MaxTasks      \* bound: calls of spawn

ASSUME ExecutorAssumption ==
  /\ LoopThread \in Threads
  /\ MaxTasks \in Nat
  /\ NONE \notin 1 .. MaxTasks

VARIABLES
  task_queue,     \* closures pushed and not popped
  should_notify,  \* the loop has announced that it will sleep
  event_fd,       \* counter of the eventfd
  edge,           \* epoll has seen a write of the eventfd since it last reported one
  stop,           \* stop_
  timed,          \* the constructor's timeout is finite (not -1)
  loop,           \* where the loop thread is
  running,        \* the local task of the loop
  batch,          \* events of the last epoll_wait not handled yet
  call,           \* where each thread is in spawn
  task,           \* the closure each thread is spawning
  owner,          \* the thread that owns the executor: "up", "stopping", "joined"
  spawned,        \* history: number of calls of spawn
  executed,       \* history: tasks that have run
  missed          \* history: tasks whose spawn found should_notify false
                  \* between the loop's last pop and its announcement

sleepVars == <<should_notify, event_fd, edge>>
loopVars  == <<loop, running, batch>>
callVars  == <<call, task>>
histVars  == <<spawned, executed, missed>>
vars == <<task_queue, sleepVars, stop, timed, loopVars, callVars, owner, histVars>>

Tasks == 1 .. MaxTasks

LoopAt(from, to) == loop = from /\ loop' = to

(* A callback on the loop's thread returns only when its spawns have. *)
LoopFree == call[LoopThread] = "idle"

-----------------------------------------------------------------------------
(* stop_ has no initialiser: either value may be found there. *)
Init ==
  /\ task_queue = <<>>
  /\ should_notify = FALSE
  /\ event_fd = 0
  /\ edge = FALSE
  /\ stop \in BOOLEAN /\ timed \in BOOLEAN
  /\ loop = "top"
  /\ running = NONE
  /\ batch = {}
  /\ call = [t \in Threads |-> "idle"]
  /\ task = [t \in Threads |-> NONE]
  /\ owner = "up"
  /\ spawned = 0
  /\ executed = {}
  /\ missed = {}

-----------------------------------------------------------------------------
(* spawn(task) *)

(* task_queue_.push, which always succeeds.  The loop's own thread spawns   *)
(* only from inside a task or from a coroutine that an event resumed.       *)
SpawnPush(t) ==
  /\ call[t] = "idle" /\ call' = [call EXCEPT ![t] = "cas"]
  /\ t = LoopThread => loop \in {"run", "io"}
  /\ spawned < MaxTasks /\ owner # "joined"
  /\ spawned' = spawned + 1
  /\ task' = [task EXCEPT ![t] = spawned + 1]
  /\ task_queue' = Append(task_queue, spawned + 1)
  /\ UNCHANGED <<sleepVars, stop, timed, loopVars, owner, executed, missed>>

(* should_notify_.compare_exchange_strong(true, false). *)
SpawnCas(t) ==
  /\ call[t] = "cas"
  /\ call' = [call EXCEPT ![t] = IF should_notify THEN "write" ELSE "idle"]
  /\ should_notify' = FALSE
  /\ missed' = IF loop = "arm" /\ ~should_notify THEN missed \cup {task[t]} ELSE missed
  /\ UNCHANGED <<task_queue, event_fd, edge, stop, timed, loopVars, task, owner, spawned, executed>>

(* Mutant of SpawnWrite: the eventfd is not written. *)
SpawnWriteSkipped(t) ==
  /\ call[t] = "write" /\ call' = [call EXCEPT ![t] = "idle"]
  /\ UNCHANGED <<task_queue, sleepVars, stop, timed, loopVars, task, owner, histVars>>

(* ::write(dummy_conn_->fd(), 1), which raises an edge for epoll. *)
SpawnWrite(t) ==
  /\ call[t] = "write" /\ call' = [call EXCEPT ![t] = "idle"]
  /\ event_fd' = event_fd + 1
  /\ edge' = TRUE
  /\ UNCHANGED <<task_queue, should_notify, stop, timed, loopVars, task, owner, histVars>>

-----------------------------------------------------------------------------
(* The loop *)

(* Mutant of Top: the loop condition ignores stop_. *)
TopIgnoresStop ==
  /\ LoopAt("top", "pop")
  /\ UNCHANGED <<task_queue, sleepVars, stop, timed, running, batch, callVars, owner, histVars>>

(* while (!stop_) *)
Top ==
  /\ LoopAt("top", IF stop THEN "exit" ELSE "pop")
  /\ UNCHANGED <<task_queue, sleepVars, stop, timed, running, batch, callVars, owner, histVars>>

(* task_queue_.pop(task) *)
PopTask ==
  \/ /\ task_queue # <<>>
     /\ LoopAt("pop", "run")
     /\ running' = Head(task_queue)
     /\ task_queue' = Tail(task_queue)
     /\ UNCHANGED <<sleepVars, stop, timed, batch, callVars, owner, histVars>>
  \/ /\ task_queue = <<>>
     /\ LoopAt("pop", "arm")
     /\ UNCHANGED <<task_queue, sleepVars, stop, timed, running, batch, callVars, owner, histVars>>

(* task() returns; the closure stays in the local until it is replaced. *)
RunTask ==
  /\ LoopAt("run", "pop") /\ LoopFree
  /\ executed' = executed \cup {running}
  /\ UNCHANGED <<task_queue, sleepVars, stop, timed, running, batch, callVars, owner, spawned, missed>>

(* Mutant of Arm: the loop sleeps without announcing it. *)
ArmSkipped ==
  /\ LoopAt("arm", "wait")
  /\ UNCHANGED <<task_queue, sleepVars, stop, timed, running, batch, callVars, owner, histVars>>

(* should_notify_.store(true) *)
Arm ==
  /\ LoopAt("arm", "wait")
  /\ should_notify' = TRUE
  /\ UNCHANGED <<task_queue, event_fd, edge, stop, timed, running, batch, callVars, owner, histVars>>

(* The eventfd is on epoll's ready list and readable. *)
Readable == edge /\ event_fd > 0

(* epoll_wait reports the eventfd, and connections that are ready as well. *)
WaitNotified ==
  /\ Readable
  /\ LoopAt("wait", "events")
  /\ \E io \in SUBSET {"io"} : batch' = {"dummy"} \cup io
  /\ edge' = FALSE
  /\ UNCHANGED <<task_queue, should_notify, event_fd, stop, timed, running, callVars, owner, histVars>>

(* epoll_wait reports connections only. *)
WaitIo ==
  /\ ~Readable
  /\ LoopAt("wait", "events")
  /\ batch' = {"io"}
  /\ UNCHANGED <<task_queue, sleepVars, stop, timed, running, callVars, owner, histVars>>

(* Mutant of WaitTimeout: the queue is not looked at after a timeout. *)
WaitTimeoutSkipsQueue ==
  /\ timed /\ ~Readable
  /\ LoopAt("wait", "arm")
  /\ UNCHANGED <<task_queue, sleepVars, stop, timed, running, batch, callVars, owner, histVars>>

(* The end of an iteration: the local task goes out of scope. *)
EndIteration(from) ==
  /\ LoopAt(from, "top")
  /\ running' = NONE
  /\ UNCHANGED <<task_queue, sleepVars, stop, timed, batch, callVars, owner, histVars>>

(* epoll_wait returns 0. *)
WaitTimeout == timed /\ ~Readable /\ EndIteration("wait")

(* epoll_wait returns -1 (a signal): logged, and the loop continues. *)
WaitError == EndIteration("wait")

(* The event of the dummy connection: the eventfd is read, which empties it. *)
DummyRead ==
  /\ "dummy" \in batch
  /\ LoopAt("events", "clear")
  /\ batch' = batch \ {"dummy"}
  /\ event_fd' = 0
  /\ UNCHANGED <<task_queue, should_notify, edge, stop, timed, running, callVars, owner, histVars>>

(* ... and should_notify_.store(false). *)
DummyClear ==
  /\ LoopAt("clear", "events")
  /\ should_notify' = FALSE
  /\ UNCHANGED <<task_queue, event_fd, edge, stop, timed, running, batch, callVars, owner, histVars>>

(* A connection's event resumes its coroutines. *)
IoStart ==
  /\ "io" \in batch
  /\ LoopAt("events", "io")
  /\ batch' = batch \ {"io"}
  /\ UNCHANGED <<task_queue, sleepVars, stop, timed, running, callVars, owner, histVars>>

IoDone ==
  /\ LoopAt("io", "events") /\ LoopFree
  /\ UNCHANGED <<task_queue, sleepVars, stop, timed, running, batch, callVars, owner, histVars>>

(* Mutant of EventsDone: the rest of the batch is dropped. *)
EventsDoneEarly == EndIteration("events")

(* The last event of the batch is done. *)
EventsDone == batch = {} /\ EndIteration("events")

-----------------------------------------------------------------------------
(* The owner: Scheduler::stop, then the destructor, which joins the thread. *)

Stop ==
  /\ owner = "up" /\ owner' = "stopping"
  /\ stop' = TRUE
  /\ UNCHANGED <<task_queue, sleepVars, timed, loopVars, callVars, histVars>>

(* The owner destroys the executor only once no thread is inside spawn. *)
Join ==
  /\ owner = "stopping" /\ owner' = "joined"
  /\ loop = "exit"
  /\ \A t \in Threads : call[t] = "idle"
  /\ UNCHANGED <<task_queue, sleepVars, stop, timed, loopVars, callVars, histVars>>

-----------------------------------------------------------------------------
SpawnStep(t) == SpawnCas(t) \/ SpawnWrite(t)

(* What the loop does by itself; WaitIo and WaitError need the environment. *)
LoopStep ==
  \/ Top \/ PopTask \/ RunTask \/ Arm \/ WaitNotified \/ WaitTimeout
  \/ DummyRead \/ DummyClear \/ IoStart \/ IoDone \/ EventsDone

Next ==
  \/ \E t \in Threads : SpawnPush(t) \/ SpawnStep(t)
  \/ LoopStep \/ WaitIo \/ WaitError
  \/ Stop \/ Join

Spec == Init /\ [][Next]_vars

(* Threads that are inside a call keep running; nobody has to call spawn or *)
(* stop, no connection has to become ready, no signal has to arrive.        *)
Fairness ==
  /\ \A t \in Threads : WF_vars(SpawnStep(t))
  /\ WF_vars(LoopStep)
  /\ WF_vars(Join)

FairSpec == Spec /\ Fairness

-----------------------------------------------------------------------------
(* Properties *)

(* Every variable has its type; the loop runs a closure it has popped, and  *)
(* no closure and no unhandled event survives an iteration.                 *)
TypeOK ==
  /\ task_queue \in Seq(Tasks)
  /\ should_notify \in BOOLEAN /\ edge \in BOOLEAN
  /\ stop \in BOOLEAN /\ timed \in BOOLEAN
  /\ event_fd \in Nat
  /\ loop \in {"top", "pop", "run", "arm", "wait", "events", "clear", "io", "exit"}
  /\ running \in Tasks \cup {NONE}
  /\ loop = "run" => running # NONE
  /\ loop \in {"top", "exit"} => running = NONE
  /\ batch \in SUBSET {"dummy", "io"}
  /\ batch # {} => loop \in {"events", "clear", "io"}
  /\ call \in [Threads -> {"idle", "cas", "write"}]
  /\ task \in [Threads -> Tasks \cup {NONE}]
  /\ owner \in {"up", "stopping", "joined"}
  /\ spawned \in 0 .. MaxTasks
  /\ executed \in SUBSET Tasks
  /\ missed \in SUBSET Tasks
  /\ \A t \in Threads : call[t] = "cas" => task[t] \in Tasks

(* A wakeup is on its way to a loop that sleeps. *)
WakeupPending == Readable \/ \E t \in Threads : call[t] = "write"

(* Thread t has pushed x and not yet looked at should_notify_. *)
Casing(x) == \E t \in Threads : call[t] = "cas" /\ task[t] = x

(* No lost wakeup outside one window: while the loop sleeps in epoll_wait,  *)
(* a queued task has a wakeup on its way, or a spawn that will still look   *)
(* at should_notify_, or was pushed and checked between the loop's last     *)
(* failed pop and its should_notify_.store(true).                           *)
NoLostWakeup ==
  loop = "wait" =>
    \A x \in Range(task_queue) : WakeupPending \/ Casing(x) \/ x \in missed

(* The inductive invariant of the proofs: a sleeping loop whose announcement *)
(* has been taken is being woken, and from its last failed pop on every task *)
(* that arrives is accounted for.                                            *)
AnnouncementHeld == loop = "wait" /\ ~should_notify => WakeupPending

ArrivalsCovered ==
  loop \in {"arm", "wait"} =>
    \A x \in Range(task_queue) : WakeupPending \/ Casing(x) \/ x \in missed

WakeupInv == TypeOK /\ AnnouncementHeld /\ ArrivalsCovered

(* With a finite timeout every spawned task runs, unless the loop is told   *)
(* to stop: the timeout also repairs the window of NoLostWakeup.            *)
SpawnedTaskRuns ==
  \A x \in Tasks : (timed /\ x \in Range(task_queue)) ~> (x \in executed \/ stop)

(* Without a timeout a spawned task runs unless it fell into the window.    *)
NotifiedTaskRuns ==
  \A x \in Tasks : (x \in Range(task_queue)) ~> (x \in executed \cup missed \/ stop)

(* With a finite timeout the destructor returns after stop(): the loop sees *)
(* stop_ although stop() does not wake it.                                  *)
DestructorReturns == (timed /\ owner = "stopping") ~> (owner = "joined")

=============================================================================
