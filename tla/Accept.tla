------------------------------- MODULE Accept -------------------------------
(***************************************************************************)
(* The server's accept loop and the life of its descriptors: the main      *)
(* thread accepts a client, sets its socket's options, makes a Connection  *)
(* and spawns send_fn and recv_fn (rpc_server.cpp, net/accepter.cpp,       *)
(* net/socket_utils.cpp); the executor's loop runs them, registers the     *)
(* socket and, when the client leaves, ends them; the last owner of the    *)
(* Connection closes the descriptor (net/socket.cpp), and the loop's local *)
(* closure is one of them.  The kernel hands out the lowest free number,   *)
(* at once to the next client.  A spawn is one step here: how its parts    *)
(* interleave with the loop is in EpollExecutor.                           *)
(***************************************************************************)
EXTENDS Integers, Sequences, FiniteSetsExt

CONSTANTS
  Clients,
  NULL,
  MaxFd,      \* bound: descriptors the process may have for connections
  Backlog,    \* backlog_ of the listening socket
  Options     \* socket options of an accepted socket; 5 in the code

ASSUME AcceptAssumption ==
  /\ NULL \notin Clients
  /\ MaxFd \in Nat \ {0} /\ Backlog \in Nat \ {0} /\ Options \in Nat \ {0}

VARIABLES
  peer,       \* what each client does: "away", "here", "left" or "reset"
  backlog,    \* connected clients that have not been accepted
  table,      \* descriptor |-> client at the other end of that socket, or NULL
  epoll,      \* socket, by its client |-> Connection it is registered for
  main,       \* the main thread: where it is, its connfd, client and option
  fd,         \* Connection, by the client it was made for |-> its descriptor
  queue,      \* tasks spawned and not yet run
  send, recv, \* send_fn and recv_fn of each Connection
  ending,     \* the Connection whose recv_fn is about to return
  loop,       \* where the executor's loop is
  task,       \* its local closure, kept until it is replaced or the iteration ends
  batch,      \* events of the last epoll_wait that have not been handled
  should_notify,  \* the loop has announced that it will sleep
  event_fd,   \* the eventfd has been written and not been read
  timed,      \* the executor's timeout is finite; the default, -1, is not
  failed      \* history: setting an option has failed

coroVars  == <<fd, queue, send, recv, ending>>
loopVars  == <<loop, task, batch, should_notify, event_fd, timed>>
execVars  == <<epoll, coroVars, loopVars>>
vars == <<peer, backlog, table, main, execVars, failed>>

Fds  == 1 .. MaxFd
Idle == [at |-> "accept", fd |-> 0, client |-> NULL, option |-> 0]

(* Closure task; and the event of the executor's own connection. *)
NoTask     == [fn |-> "none", conn |-> NULL]
DummyEvent == [conn |-> NULL, hup |-> FALSE]

Init ==
  /\ peer = [c \in Clients |-> "away"] /\ backlog = <<>>
  /\ table = [n \in Fds |-> NULL]
  /\ epoll = [c \in Clients |-> NULL]
  /\ main = [Idle EXCEPT !.at = "listen"]
  /\ fd = [c \in Clients |-> 0] /\ queue = <<>>
  /\ send = [c \in Clients |-> "none"] /\ recv = [c \in Clients |-> "none"]
  /\ ending = NULL /\ failed = FALSE
  /\ loop = "pop" /\ task = NoTask /\ batch = {}
  /\ should_notify = FALSE /\ event_fd = FALSE /\ timed \in BOOLEAN

(* ::close of the number n, whatever it refers to by now. *)
CloseFd(n) ==
  /\ table' = [table EXCEPT ![n] = NULL]
  /\ epoll' = [c \in Clients |-> IF c = table[n] THEN NULL ELSE epoll[c]]

-----------------------------------------------------------------------------
(* The clients *)

Connect(c) ==
  /\ peer[c] = "away" /\ main.at \notin {"listen", "exit"} /\ Len(backlog) < Backlog
  /\ peer' = [peer EXCEPT ![c] = "here"]
  /\ backlog' = Append(backlog, c)
  /\ UNCHANGED <<table, main, execVars, failed>>

(* An orderly shutdown, or a reset. *)
Leave(c) ==
  /\ peer[c] = "here"
  /\ \E how \in {"left", "reset"} : peer' = [peer EXCEPT ![c] = how]
  /\ UNCHANGED <<backlog, table, main, execVars, failed>>

-----------------------------------------------------------------------------
(* The main thread *)

(* Accepter's constructor.  A call that fails ends the process, an option   *)
(* that fails makes bind fail.                                              *)
Listen ==
  /\ main.at = "listen"
  /\ \E at \in {"accept", "exit"} : main' = [main EXCEPT !.at = at]
  /\ UNCHANGED <<peer, backlog, table, execVars, failed>>

(* accept.  Without a free descriptor, or interrupted, it returns -1 and    *)
(* the loop of start tries again: no state changes.                         *)
AcceptClient ==
  LET free == {n \in Fds : table[n] = NULL} IN
  /\ main.at = "accept" /\ backlog # <<>> /\ free # {}
  /\ table' = [table EXCEPT ![Min(free)] = Head(backlog)]
  /\ main' = [at |-> "option", fd |-> Min(free), client |-> Head(backlog), option |-> 1]
  /\ backlog' = Tail(backlog)
  /\ UNCHANGED <<peer, execVars, failed>>

(* Mutant of LastOption: one option too many. *)
LastOptionLate(n) == n > Options

LastOption(n) == n = Options

AfterOption ==
  main' = IF LastOption(main.option) THEN [main EXCEPT !.at = "spawn", !.option = 1]
                                     ELSE [main EXCEPT !.option = @ + 1]

SetOption ==
  /\ main.at = "option" /\ table[main.fd] # NULL
  /\ AfterOption
  /\ UNCHANGED <<peer, backlog, table, execVars, failed>>

(* fcntl or setsockopt fails, surely so once the number has been closed:    *)
(* the number is closed, and used nevertheless.                             *)
OptionFails ==
  /\ main.at = "option"
  /\ CloseFd(main.fd)
  /\ failed' = TRUE
  /\ AfterOption
  /\ UNCHANGED <<peer, backlog, coroVars, loopVars>>

(* Mutant of TaskOrder: the reading coroutine first. *)
TaskOrderSwapped == <<"recv", "send">>

TaskOrder == <<"send", "recv">>

(* The Connection is made, and its two tasks spawned one after the other.   *)
(* The loop is notified if it has announced its sleep, and only then.       *)
Spawn ==
  /\ main.at = "spawn"
  /\ fd' = [fd EXCEPT ![main.client] = main.fd]
  /\ queue' = Append(queue, [fn |-> TaskOrder[main.option], conn |-> main.client])
  /\ event_fd' = (event_fd \/ should_notify) /\ should_notify' = FALSE
  /\ main' = IF main.option = 1 THEN [main EXCEPT !.option = 2] ELSE [main EXCEPT !.at = "drop"]
  /\ UNCHANGED <<peer, backlog, table, epoll, send, recv, ending, loop, task, batch, timed, failed>>

(* Mutant of Destroy: the descriptor is not closed. *)
DestroyLeaks(c) == UNCHANGED <<table, epoll>>

(* ~Connection and ~Socket. *)
Destroy(c) == CloseFd(fd[c])

(* A reference to the Connection of c goes, perhaps the last one. *)
Release(c, owned) == IF owned THEN UNCHANGED <<table, epoll>> ELSE Destroy(c)

(* The end of an iteration of start drops its reference to the Connection. *)
Drop ==
  /\ main.at = "drop"
  /\ Release(main.client, recv[main.client] # "ended" \/ task.conn = main.client)
  /\ main' = Idle
  /\ UNCHANGED <<peer, backlog, coroVars, loopVars, failed>>

-----------------------------------------------------------------------------
(* The executor's loop *)

LoopAt(from, to) == ending = NULL /\ loop = from /\ loop' = to

(* The local closure is replaced or goes out of scope. *)
ReleaseTask ==
  Release(task.conn, task = NoTask \/ recv[task.conn] # "ended" \/ main.client = task.conn)

Pop ==
  /\ LoopAt("pop", "run") /\ queue # <<>>
  /\ task' = Head(queue) /\ queue' = Tail(queue)
  /\ ReleaseTask
  /\ UNCHANGED <<peer, backlog, main, fd, send, recv, ending, batch, should_notify, event_fd, timed,
                 failed>>

(* The start of send_fn: nothing to write yet. *)
RunSend ==
  /\ LoopAt("run", "pop") /\ task.fn = "send"
  /\ send' = [send EXCEPT ![task.conn] = "parked"]
  /\ UNCHANGED <<peer, backlog, table, main, epoll, fd, queue, recv, ending, task, batch,
                 should_notify, event_fd, timed, failed>>

(* The start of recv_fn: EPOLL_CTL_ADD, which fails without consequences    *)
(* for a closed number or a socket that is registered already.              *)
RunRecv ==
  LET c == task.conn
      s == table[fd[c]]
  IN
  /\ LoopAt("run", "read") /\ task.fn = "recv"
  /\ epoll' = [x \in Clients |-> IF x = s /\ epoll[x] = NULL THEN c ELSE epoll[x]]
  /\ recv' = [recv EXCEPT ![c] = "reading"]
  /\ UNCHANGED <<peer, backlog, table, main, fd, queue, send, ending, task, batch,
                 should_notify, event_fd, timed, failed>>

(* Mutant of SocketClose: the number is closed, not only the connection. *)
SocketCloseFd(c) == [table EXCEPT ![fd[c]] = NULL]

(* Socket::close shuts the connection down; the number stays. *)
SocketClose(c) == table

(* async_read finds the end of the stream or an error: the socket is shut   *)
(* down and unregistered, send_fn resumed and ended.                        *)
ReadEnds(c) ==
  /\ recv' = [recv EXCEPT ![c] = "ending"]
  /\ send' = [send EXCEPT ![c] = "ended"]
  /\ ending' = c
  /\ epoll' = [x \in Clients |-> IF x = table[fd[c]] THEN NULL ELSE epoll[x]]
  /\ table' = SocketClose(c)
  /\ UNCHANGED <<fd, queue>>

(* read finds the client at the other end of c's descriptor gone, or no     *)
(* socket at all.                                                           *)
SeesEnd(c) == table[fd[c]] \in {NULL} \cup {s \in Clients : peer[s] # "here"}

(* The first async_read of recv_fn, in the task that has started it. *)
FirstRead ==
  LET c == task.conn IN
  /\ LoopAt("read", "pop")
  /\ \/ SeesEnd(c) /\ ReadEnds(c)
     \/ /\ ~SeesEnd(c)
        /\ recv' = [recv EXCEPT ![c] = "parked"]
        /\ UNCHANGED <<table, epoll, fd, queue, send, ending>>
  /\ UNCHANGED <<peer, backlog, main, task, batch, should_notify, event_fd, timed, failed>>

(* pop finds the queue empty. *)
PopEmpty ==
  /\ LoopAt("pop", "arm") /\ queue = <<>>
  /\ UNCHANGED <<peer, backlog, table, main, epoll, coroVars, task, batch,
                 should_notify, event_fd, timed, failed>>

(* should_notify_.store(true); what was spawned since then is in the queue  *)
(* and has not written the eventfd.                                         *)
Arm ==
  /\ LoopAt("arm", "wait")
  /\ should_notify' = TRUE
  /\ UNCHANGED <<peer, backlog, table, main, epoll, coroVars, task, batch, event_fd, timed, failed>>

(* What epoll has to report: the Connections registered for sockets whose   *)
(* client has left (EPOLLIN) or reset (EPOLLHUP), and the eventfd.          *)
Ready ==
  {[conn |-> epoll[s], hup |-> peer[s] = "reset"] :
     s \in {x \in Clients : epoll[x] # NULL /\ peer[x] # "here"}}
  \cup (IF event_fd THEN {DummyEvent} ELSE {})

Wait ==
  /\ LoopAt("wait", "events") /\ Ready # {}
  /\ batch' = Ready
  /\ UNCHANGED <<peer, backlog, table, main, epoll, coroVars, task,
                 should_notify, event_fd, timed, failed>>

(* The end of an iteration of the loop. *)
EndIteration(from) ==
  /\ LoopAt(from, "pop")
  /\ task' = NoTask
  /\ ReleaseTask
  /\ UNCHANGED <<peer, backlog, main, coroVars, batch, should_notify, event_fd, timed, failed>>

(* epoll_wait returns 0, or -1 for a signal. *)
WaitTimeout == timed /\ Ready = {} /\ EndIteration("wait")
WaitError   == Ready = {} /\ EndIteration("wait")

EventsDone  == batch = {} /\ EndIteration("events")

(* The eventfd is read. *)
EventDummy ==
  /\ LoopAt("events", "events") /\ DummyEvent \in batch
  /\ batch' = batch \ {DummyEvent}
  /\ event_fd' = FALSE /\ should_notify' = FALSE
  /\ UNCHANGED <<peer, backlog, table, main, epoll, coroVars, task, timed, failed>>

(* EPOLLIN: resume_read of the Connection, which reads from its own         *)
(* descriptor; without anything to read it waits again.                     *)
EventIn(e) ==
  /\ LoopAt("events", "events") /\ e \in batch \ {DummyEvent} /\ ~e.hup
  /\ batch' = batch \ {e}
  /\ \/ recv[e.conn] = "parked" /\ SeesEnd(e.conn) /\ ReadEnds(e.conn)
     \/ /\ ~(recv[e.conn] = "parked" /\ SeesEnd(e.conn))
        /\ UNCHANGED <<table, epoll, coroVars>>
  /\ UNCHANGED <<peer, backlog, main, task, should_notify, event_fd, timed, failed>>

(* EPOLLHUP: closed and unregistered, nobody resumed. *)
EventHup(e) ==
  /\ LoopAt("events", "events") /\ e \in batch /\ e.hup
  /\ batch' = batch \ {e}
  /\ epoll' = [x \in Clients |-> IF x = table[fd[e.conn]] THEN NULL ELSE epoll[x]]
  /\ table' = SocketClose(e.conn)
  /\ UNCHANGED <<peer, backlog, main, coroVars, task, should_notify, event_fd, timed, failed>>

(* recv_fn returns and drops its reference. *)
RecvReturns ==
  /\ ending # NULL
  /\ recv' = [recv EXCEPT ![ending] = "ended"]
  /\ Release(ending, main.client = ending \/ task.conn = ending)
  /\ ending' = NULL
  /\ UNCHANGED <<peer, backlog, main, fd, queue, send, loopVars, failed>>

-----------------------------------------------------------------------------
MainStep == Listen \/ AcceptClient \/ SetOption \/ OptionFails \/ Spawn \/ Drop

(* What the loop does by itself; WaitError needs a signal. *)
LoopStep ==
  \/ Pop \/ RunSend \/ RunRecv \/ FirstRead \/ RecvReturns
  \/ PopEmpty \/ Arm \/ Wait \/ WaitTimeout
  \/ EventDummy \/ EventsDone
  \/ \E e \in batch : EventIn(e) \/ EventHup(e)

Next ==
  \/ MainStep \/ LoopStep \/ WaitError
  \/ \E c \in Clients : Connect(c) \/ Leave(c)

(* Both threads go on; a loop asleep in epoll_wait without a timeout stays  *)
(* there until there is an event.  Nothing is assumed of the clients.       *)
Spec == Init /\ [][Next]_vars /\ WF_vars(MainStep) /\ WF_vars(LoopStep)

-----------------------------------------------------------------------------
(* Properties *)

Has(c) ==
  \/ send[c] # "none" \/ recv[c] # "none" \/ task.conn = c
  \/ \E i \in DOMAIN queue : queue[i].conn = c

Alive(c) == Has(c) /\ (recv[c] # "ended" \/ main.client = c \/ task.conn = c)

(* The types of the state; the loops over the options and over the two      *)
(* tasks stay within them, and a Connection that exists has a descriptor.   *)
TypeOK ==
  /\ peer \in [Clients -> {"away", "here", "left", "reset"}]
  /\ table \in [Fds -> Clients \cup {NULL}]
  /\ epoll \in [Clients -> Clients \cup {NULL}]
  /\ main.at \in {"listen", "exit", "accept", "option", "spawn", "drop"}
  /\ main.at = "option" => main.option \in 1 .. Options
  /\ main.at = "spawn" => main.option \in DOMAIN TaskOrder
  /\ \A c \in Clients : Has(c) => fd[c] \in Fds
  /\ loop \in {"pop", "run", "read", "arm", "wait", "events"}
  /\ batch # {} => loop = "events"
  /\ failed \in BOOLEAN

(* A descriptor belongs to one Connection from accept to ~Socket: as long   *)
(* as no option has failed, the number of a live Connection refers to the   *)
(* client it was made for, events of that client reach that Connection, and *)
(* no number stays in use after its Connection, although numbers are reused *)
(* at once and Connections are destroyed by either thread.                  *)
DescriptorsOwned ==
  ~failed =>
    /\ \A c \in Clients : Alive(c) => table[fd[c]] = c
    /\ \A c \in Clients : epoll[c] \in {NULL, c}
    /\ \A n \in Fds : table[n] # NULL => Alive(table[n]) \/ main.client = table[n]

(* recv_fn resumes send_fn through the handle that send_fn has stored when  *)
(* it first waited: it never runs before send_fn has got that far, although *)
(* the executor may run between the two spawns of start.                    *)
SendFnFirst == \A c \in Clients : recv[c] # "none" => send[c] # "none"

(* Waiting clients are accepted and their coroutines started, also after   *)
(* accept has failed for want of descriptors, if the executor has a finite  *)
(* timeout, no option fails and every client that is served leaves in the   *)
(* end by an orderly shutdown.  The timeout is needed twice: for tasks that *)
(* are spawned just before the loop announces its sleep, and for the        *)
(* descriptor that the closure of a sleeping loop still owns.               *)
WaitingIsServed ==
  /\ timed /\ []~failed
  /\ \A c \in Clients : [](peer[c] # "reset") /\ []<>(peer[c] = "here" => send[c] = "none")
  => \A c \in Clients : [](peer[c] = "here" => <>(send[c] # "none"))
=============================================================================
