---------------------------- MODULE AcceptProofs ----------------------------
(***************************************************************************)
(* The accept loop and its descriptors, for any number of clients,         *)
(* descriptors, socket options and places in the backlog.                  *)
(***************************************************************************)
EXTENDS Accept, WellFoundedInduction, TLAPS

(* The main thread has accepted main.client and not yet dropped it. *)
Serving == main.at \in {"option", "spawn", "drop"}

(* The first of the two tasks has been spawned. *)
Spawning == main.at = "spawn" /\ main.option = 2

LocalTypes ==
  /\ backlog \in Seq(Clients)
  /\ main \in [at : {"listen", "exit", "accept", "option", "spawn", "drop"},
               fd : 0 .. MaxFd, client : Clients \cup {NULL}, option : Nat]
  /\ fd \in [Clients -> 0 .. MaxFd]
  /\ queue \in Seq([fn : {"send", "recv"}, conn : Clients])
  /\ send \in [Clients -> {"none", "parked", "ended"}]
  /\ recv \in [Clients -> {"none", "reading", "parked", "ending", "ended"}]
  /\ ending \in Clients \cup {NULL}
  /\ task = NoTask \/ task \in [fn : {"send", "recv"}, conn : Clients]
  /\ \A e \in batch : e = DummyEvent \/ e.conn \in Clients
  /\ IF Serving THEN main.client \in Clients /\ main.fd \in Fds ELSE main.client = NULL

Types == TypeOK /\ LocalTypes

(* Nothing in the process refers to client c. *)
Untouched(c) == ~Has(c) /\ main.client # c /\ \A n \in Fds : table[n] # c

(* A client is accepted once. *)
ClientsInv ==
  /\ \A c \in Clients : peer[c] = "away" => Untouched(c)
  /\ \A i \in DOMAIN backlog : peer[backlog[i]] # "away" /\ Untouched(backlog[i])
  /\ \A i, j \in DOMAIN backlog : backlog[i] = backlog[j] => i = j

(* Position i of the queue holds the task f of the Connection of c. *)
Task(i, f, c) == i \in DOMAIN queue /\ queue[i].fn = f /\ queue[i].conn = c

(* send_fn of c has been started, or its task has been popped or is before  *)
(* position i.                                                              *)
SendBefore(i, c) ==
  \/ send[c] # "none"
  \/ loop = "run" /\ task.fn = "send" /\ task.conn = c
  \/ \E j \in DOMAIN queue : j < i /\ Task(j, "send", c)

(* The closure that the loop holds: popped, running, or kept. *)
HeldTask ==
  /\ loop \in {"run", "read"} => task # NoTask
  /\ loop = "run" /\ task.fn = "recv" =>
       /\ recv[task.conn] = "none" /\ send[task.conn] # "none"
       /\ \A i \in DOMAIN queue : queue[i].conn # task.conn
  /\ loop = "read" => recv[task.conn] = "reading"
  /\ loop # "run" /\ task # NoTask => send[task.conn] # "none"

(* A queued Connection is not being read from, and nothing follows its      *)
(* reading task.                                                            *)
QueueInv ==
  /\ \A i \in DOMAIN queue : recv[queue[i].conn] = "none"
  /\ \A i, j \in DOMAIN queue :
       queue[i].fn = "recv" /\ queue[j].conn = queue[i].conn => j =< i

(* The reading task of a Connection is spawned once, after the other. *)
TasksInv ==
  /\ \A i \in DOMAIN queue, c \in Clients :
       Task(i, "recv", c) => recv[c] = "none" /\ SendBefore(i, c)
  /\ \A i, j \in DOMAIN queue, c \in Clients :
       Task(i, "recv", c) /\ Task(j, "recv", c) => i = j
  /\ main.at = "option" \/ (main.at = "spawn" /\ main.option = 1) => ~Has(main.client)
  /\ Spawning =>
       /\ recv[main.client] = "none" /\ SendBefore(Len(queue) + 1, main.client)
       /\ ~(loop = "run" /\ task.fn = "recv" /\ task.conn = main.client)
       /\ \A i \in DOMAIN queue : ~Task(i, "recv", main.client)
  /\ main.at = "drop" => Has(main.client)
  /\ ending # NULL => recv[ending] = "ending" /\ loop \in {"pop", "events"}
  /\ SendFnFirst
  /\ HeldTask
  /\ QueueInv

(* DescriptorsOwned, also for the client that is being accepted. *)
OwnedInv ==
  ~failed =>
    /\ \A c \in Clients : Alive(c) => table[fd[c]] = c
    /\ \A c \in Clients : epoll[c] \in {NULL, c}
    /\ \A n \in Fds : table[n] # NULL => Alive(table[n]) \/ main.client = table[n]
    /\ \A m, n \in Fds : table[m] = table[n] /\ table[m] # NULL => m = n
    /\ Serving => table[main.fd] = main.client
    /\ Spawning \/ main.at = "drop" => fd[main.client] = main.fd

AcceptInv == Types /\ ClientsInv /\ TasksInv /\ OwnedInv

-----------------------------------------------------------------------------
(* Operators *)

LEMMA QueuedClients ==
  ASSUME Types
  PROVE  \A i \in DOMAIN queue : queue[i].conn \in Clients
<1>1. queue \in Seq([fn : {"send", "recv"}, conn : Clients])
  BY DEF Types, LocalTypes
<1>2. ASSUME NEW T, queue \in Seq(T) PROVE \A i \in DOMAIN queue : queue[i] \in T
  BY <1>2
<1>3. \A i \in DOMAIN queue : queue[i] \in [fn : {"send", "recv"}, conn : Clients]
  BY <1>1, <1>2, Zenon
<1>4. QED
  BY <1>3

(* A set of numbers has a least one: a free descriptor is found. *)
LEMMA FirstOf ==
  ASSUME NEW S \in SUBSET Nat, S # {}
  PROVE  Min(S) \in S
<1> DEFINE R == OpToRel(<, Nat)
<1>1. R = {ss \in Nat \X Nat : ss[1] < ss[2]}
  BY DEF OpToRel
<1>2. \A x, y \in Nat : x < y => <<x, y>> \in R
  BY <1>1
<1>3. IsWellFoundedOn(R, Nat)
  BY NatLessThanWellFounded
<1> HIDE DEF R
<1>4. PICK x \in S : \A y \in S : ~ (<<y, x>> \in R)
  BY <1>3, WFMin
<1>5. ASSUME NEW y \in S PROVE x =< y
  <2>1. ~ (y < x)
    BY <1>2, <1>4
  <2>2. QED
    BY <2>1
<1>6. \E z \in S : \A y \in S : z =< y
  BY <1>5
<1>7. QED
  BY <1>6 DEF Min

(* What Append does to a sequence. *)
LEMMA AppendOf ==
  ASSUME NEW T, NEW s \in Seq(T), NEW e \in T
  PROVE  /\ Append(s, e) \in Seq(T)
         /\ DOMAIN Append(s, e) = DOMAIN s \cup {Len(s) + 1}
         /\ Len(Append(s, e)) = Len(s) + 1
         /\ \A i \in DOMAIN s : i # Len(s) + 1 /\ Append(s, e)[i] = s[i]
         /\ Append(s, e)[Len(s) + 1] = e
  OBVIOUS

(* What Tail does to a sequence. *)
LEMMA TailOf ==
  ASSUME NEW T, NEW s \in Seq(T), s # <<>>
  PROVE  /\ Tail(s) \in Seq(T)
         /\ Head(s) = s[1] /\ 1 \in DOMAIN s /\ s[1] \in T
         /\ Len(Tail(s)) = Len(s) - 1
         /\ \A i \in DOMAIN Tail(s) : i + 1 \in DOMAIN s /\ i + 1 # 1 /\ Tail(s)[i] = s[i + 1]
         /\ \A i \in DOMAIN s : i = 1 \/ (i - 1 \in DOMAIN Tail(s) /\ Tail(s)[i - 1] = s[i])
  OBVIOUS

-----------------------------------------------------------------------------
(* The clients *)

LEMMA ConnectKeeps ==
  ASSUME AcceptInv, NEW c \in Clients, Connect(c)
  PROVE  AcceptInv'
<1> USE AcceptAssumption
<1>0. /\ Append(backlog, c) \in Seq(Clients)
      /\ DOMAIN backlog' = DOMAIN backlog \cup {Len(backlog) + 1}
      /\ \A i \in DOMAIN backlog : i # Len(backlog) + 1 /\ backlog'[i] = backlog[i]
      /\ backlog'[Len(backlog) + 1] = c
  BY AppendOf DEF Connect, AcceptInv, Types, LocalTypes
<1>1. \A x \in Clients : Untouched(x)' <=> Untouched(x)
  BY DEF Connect, execVars, coroVars, loopVars, Untouched, Has
<1>2. Types'
  BY <1>0 DEF Connect, AcceptInv, Types, TypeOK, LocalTypes, Serving, Has, execVars, coroVars, loopVars
<1>3. ClientsInv'
  <2>1. \A i \in DOMAIN backlog : backlog[i] \in Clients /\ backlog[i] # c
    BY DEF Connect, AcceptInv, Types, LocalTypes, ClientsInv
  <2>2. \A x \in Clients : peer'[x] = IF x = c THEN "here" ELSE peer[x]
    BY DEF Connect, AcceptInv, Types, TypeOK
  <2>3. Untouched(c)
    BY DEF Connect, AcceptInv, ClientsInv
  <2>4. \A x \in Clients : peer'[x] = "away" => Untouched(x)'
    BY <1>1, <2>2 DEF AcceptInv, ClientsInv
  <2>5. ASSUME NEW i \in DOMAIN backlog'
        PROVE  peer'[backlog'[i]] # "away" /\ Untouched(backlog[i])'
    <3>1. PICK x \in Clients : x = backlog'[i] /\ peer'[x] # "away" /\ Untouched(x)'
      BY <1>0, <1>1, <2>1, <2>2, <2>3 DEF AcceptInv, ClientsInv
    <3>2. QED
      BY <3>1 DEF Untouched, Has
  <2>6. \A i, j \in DOMAIN backlog' : backlog'[i] = backlog'[j] => i = j
    BY <1>0, <2>1 DEF AcceptInv, ClientsInv
  <2>7. QED
    BY <2>4, <2>5, <2>6 DEF ClientsInv
<1>4. TasksInv' /\ OwnedInv'
  BY DEF Connect, execVars, coroVars, loopVars, AcceptInv, TasksInv, OwnedInv, Task, SendBefore, Has, Alive,
         Serving, Spawning, SendFnFirst, HeldTask, QueueInv
<1>5. QED
  BY <1>2, <1>3, <1>4 DEF AcceptInv

LEMMA LeaveKeeps ==
  ASSUME AcceptInv, NEW c \in Clients, Leave(c)
  PROVE  AcceptInv'
<1>1. \A x : Untouched(x)' <=> Untouched(x)
  BY DEF Leave, execVars, coroVars, loopVars, Untouched, Has
<1>2. Types'
  BY DEF Leave, AcceptInv, Types, TypeOK, LocalTypes, Serving, Has, execVars, coroVars, loopVars
<1>3. ClientsInv'
  <2>1. \A x \in Clients : peer'[x] = "away" <=> peer[x] = "away"
    BY DEF Leave, AcceptInv, Types, TypeOK
  <2>2. \A i \in DOMAIN backlog : backlog[i] \in Clients
    BY DEF AcceptInv, Types, LocalTypes
  <2>3. backlog' = backlog
    BY DEF Leave
  <2>4. QED
    BY <1>1, <2>1, <2>2, <2>3 DEF AcceptInv, ClientsInv
<1>4. TasksInv' /\ OwnedInv'
  BY DEF Leave, execVars, coroVars, loopVars, AcceptInv, TasksInv, OwnedInv, Task, SendBefore, Has, Alive,
         Serving, Spawning, SendFnFirst, HeldTask, QueueInv
<1>5. QED
  BY <1>2, <1>3, <1>4 DEF AcceptInv

-----------------------------------------------------------------------------
(* The main thread *)

(* A step of the process that takes up no client that nothing referred to. *)
LEMMA ClientsKept ==
  ASSUME AcceptInv, UNCHANGED <<peer, backlog>>,
         \A c \in Clients : Untouched(c) => Untouched(c)'
  PROVE  ClientsInv'
<1>1. \A i \in DOMAIN backlog : backlog[i] \in Clients
  BY DEF AcceptInv, Types, LocalTypes
<1>2. \A c \in Clients : peer'[c] = "away" => Untouched(c)'
  BY DEF AcceptInv, ClientsInv
<1>3. ASSUME NEW i \in DOMAIN backlog'
      PROVE  peer'[backlog'[i]] # "away" /\ Untouched(backlog[i])'
  <2>1. PICK x \in Clients : x = backlog'[i] /\ peer'[x] # "away" /\ Untouched(x)'
    BY <1>1 DEF AcceptInv, ClientsInv
  <2>2. QED
    BY <2>1 DEF Untouched, Has
<1>4. \A i, j \in DOMAIN backlog' : backlog'[i] = backlog'[j] => i = j
  BY DEF AcceptInv, ClientsInv
<1>5. QED
  BY <1>2, <1>3, <1>4 DEF ClientsInv

LEMMA ListenKeeps ==
  ASSUME AcceptInv, Listen
  PROVE  AcceptInv'
<1> USE AcceptAssumption
<1>1. /\ main' \in [at : {"listen", "exit", "accept", "option", "spawn", "drop"},
                    fd : 0 .. MaxFd, client : Clients \cup {NULL}, option : Nat]
      /\ main'.at \in {"accept", "exit"} /\ main'.client = NULL /\ main.client = NULL
  BY DEF Listen, AcceptInv, Types, LocalTypes, Serving
<1>2. UNCHANGED <<peer, backlog, table, epoll, fd, queue, send, recv, ending, loop, task, batch, failed>>
  BY DEF Listen, execVars, coroVars, loopVars
<1>3. Types'
  BY <1>1, <1>2 DEF AcceptInv, Types, TypeOK, LocalTypes, Serving, Has
<1>4. ClientsInv'
  BY <1>1, <1>2, ClientsKept DEF Untouched, Has
<1>5. TasksInv' /\ OwnedInv'
  BY <1>1, <1>2 DEF AcceptInv, TasksInv, OwnedInv, Task, SendBefore, Has, Alive,
         Serving, Spawning, SendFnFirst, HeldTask, QueueInv
<1>6. QED
  BY <1>3, <1>4, <1>5 DEF AcceptInv

LEMMA AcceptClientKeeps ==
  ASSUME AcceptInv, AcceptClient
  PROVE  AcceptInv'
<1> USE AcceptAssumption
<1> DEFINE free == {n \in Fds : table[n] = NULL}
           n0   == Min(free)
           h    == Head(backlog)
<1>1. n0 \in Fds /\ table[n0] = NULL
  <2>1. free \in SUBSET Nat /\ free # {}
    BY DEF AcceptClient, Fds
  <2>2. QED
    BY <2>1, FirstOf
<1>2. /\ backlog' \in Seq(Clients) /\ h = backlog[1] /\ 1 \in DOMAIN backlog /\ h \in Clients
      /\ \A i \in DOMAIN backlog' :
           i + 1 \in DOMAIN backlog /\ i + 1 # 1 /\ backlog'[i] = backlog[i + 1]
  BY TailOf DEF AcceptClient, AcceptInv, Types, LocalTypes
<1>3. /\ main.at = "accept" /\ main.client = NULL
      /\ main' = [at |-> "option", fd |-> n0, client |-> h, option |-> 1]
      /\ table' = [table EXCEPT ![n0] = h]
      /\ UNCHANGED <<peer, epoll, fd, queue, send, recv, ending, loop, task, batch, failed>>
  BY DEF AcceptClient, execVars, coroVars, loopVars, AcceptInv, Types, LocalTypes, Serving
<1>4. Untouched(h) /\ h # NULL
  BY <1>2 DEF AcceptInv, ClientsInv
<1> HIDE DEF n0, h
<1>5. /\ table \in [Fds -> Clients \cup {NULL}]
      /\ table'[n0] = h /\ \A n \in Fds : n # n0 => table'[n] = table[n]
  BY <1>1, <1>3 DEF AcceptInv, Types, TypeOK
<1>6. \A c : Has(c)' <=> Has(c)
  BY <1>3 DEF Has
<1>7. Types'
  <2>1. main' \in [at : {"listen", "exit", "accept", "option", "spawn", "drop"},
                    fd : 0 .. MaxFd, client : Clients \cup {NULL}, option : Nat]
    BY <1>1, <1>2, <1>3 DEF Fds
  <2>2. LocalTypes'
    BY <1>1, <1>2, <1>3, <2>1 DEF AcceptInv, Types, LocalTypes, Serving
  <2>3. TypeOK'
    BY <1>1, <1>2, <1>3, <1>6, <2>1 DEF AcceptInv, Types, TypeOK
  <2>4. QED
    BY <2>2, <2>3 DEF Types
<1>8. ClientsInv'
  <2>1. \A c \in Clients : Untouched(c) /\ c # h => Untouched(c)'
    BY <1>3, <1>5, <1>6 DEF Untouched
  <2>2. \A c \in Clients : peer'[c] = "away" => Untouched(c)'
    BY <1>2, <1>3, <2>1 DEF AcceptInv, ClientsInv
  <2>3. ASSUME NEW i \in DOMAIN backlog'
        PROVE  peer'[backlog'[i]] # "away" /\ Untouched(backlog[i])'
    <3>1. backlog[i + 1] \in Clients /\ backlog[i + 1] # h
      BY <1>2 DEF AcceptInv, ClientsInv, Types, LocalTypes
    <3>2. PICK x \in Clients : x = backlog'[i] /\ peer'[x] # "away" /\ Untouched(x)'
      BY <1>2, <1>3, <2>1, <3>1 DEF AcceptInv, ClientsInv
    <3>3. QED
      BY <3>2 DEF Untouched, Has
  <2>4. ASSUME NEW i \in DOMAIN backlog', NEW j \in DOMAIN backlog', backlog'[i] = backlog'[j]
        PROVE  i = j
    <3>1. i + 1 = j + 1
      BY <1>2, <2>4 DEF AcceptInv, ClientsInv
    <3>2. i \in Nat /\ j \in Nat
      BY <1>2
    <3>3. QED
      BY <3>1, <3>2
  <2>5. QED
    BY <2>2, <2>3, <2>4 DEF ClientsInv
<1>9. TasksInv'
  <2>1. ~Has(h)
    BY <1>4 DEF Untouched
  <2>2. QED
    BY <1>3, <1>6, <2>1 DEF AcceptInv, TasksInv, Task, SendBefore, Spawning, SendFnFirst, HeldTask, QueueInv
<1>10. OwnedInv'
  <2>1. SUFFICES ASSUME ~failed PROVE OwnedInv'
    BY <1>3 DEF OwnedInv
  <2>2. \A c \in Clients : Alive(c)' <=> Alive(c)
    BY <1>2, <1>3, <1>4, <1>6 DEF Alive, Untouched
  <2>3. \A c \in Clients : Alive(c) => fd[c] \in Fds
    BY DEF AcceptInv, Types, TypeOK, Alive
  <2>4. \A c \in Clients : Alive(c)' => table'[fd'[c]] = c
    BY <1>1, <1>3, <1>5, <2>1, <2>2, <2>3 DEF AcceptInv, OwnedInv
  <2>5. \A n \in Fds : table'[n] # NULL => Alive(table[n])' \/ main'.client = table'[n]
    <3>1. SUFFICES ASSUME NEW n \in Fds, n # n0, table[n] # NULL PROVE Alive(table[n])'
      BY <1>3, <1>5
    <3>2. table[n] \in Clients /\ Alive(table[n])
      BY <1>3, <1>5, <2>1, <3>1 DEF AcceptInv, OwnedInv
    <3>3. PICK x \in Clients : x = table'[n] /\ Alive(x)'
      BY <1>5, <2>2, <3>1, <3>2
    <3>4. QED
      BY <3>3 DEF Alive, Has
  <2>6. \A m, n \in Fds : table'[m] = table'[n] /\ table'[m] # NULL => m = n
    BY <1>1, <1>4, <1>5, <2>1 DEF AcceptInv, OwnedInv, Untouched
  <2>7. QED
    BY <1>3, <1>5, <2>1, <2>4, <2>5, <2>6 DEF AcceptInv, OwnedInv, Serving, Spawning
<1>11. QED
  BY <1>7, <1>8, <1>9, <1>10 DEF AcceptInv

(* The loop over the options keeps the client, and ends with the last. *)
LEMMA OptionDone ==
  ASSUME Types, main.at = "option", AfterOption
  PROVE  /\ main' \in [at : {"listen", "exit", "accept", "option", "spawn", "drop"},
                       fd : 0 .. MaxFd, client : Clients \cup {NULL}, option : Nat]
         /\ main'.fd = main.fd /\ main'.client = main.client
         /\ \/ main'.at = "option" /\ main'.option \in 1 .. Options
            \/ main'.at = "spawn" /\ main'.option = 1
<1>1. main.option \in 1 .. Options
  BY DEF Types, TypeOK
<1>2. CASE main.option = Options
  BY <1>1, <1>2 DEF AfterOption, LastOption, Types, LocalTypes
<1>3. CASE main.option # Options
  <2>1. main' = [main EXCEPT !.option = @ + 1]
    BY <1>3 DEF AfterOption, LastOption
  <2>2. main.option + 1 \in 1 .. Options /\ main.option + 1 \in Nat
    BY <1>1, <1>3, AcceptAssumption
  <2>3. QED
    BY <2>1, <2>2 DEF Types, LocalTypes
<1>4. QED
  BY <1>2, <1>3

LEMMA SetOptionKeeps ==
  ASSUME AcceptInv, SetOption
  PROVE  AcceptInv'
<1> USE AcceptAssumption
<1>1. main.at = "option" /\ AfterOption
  BY DEF SetOption
<1>2. /\ main' \in [at : {"listen", "exit", "accept", "option", "spawn", "drop"},
                    fd : 0 .. MaxFd, client : Clients \cup {NULL}, option : Nat]
      /\ main'.fd = main.fd /\ main'.client = main.client
      /\ \/ main'.at = "option" /\ main'.option \in 1 .. Options
         \/ main'.at = "spawn" /\ main'.option = 1
  BY <1>1, OptionDone DEF AcceptInv
<1>3. UNCHANGED <<peer, backlog, table, epoll, fd, queue, send, recv, ending, loop, task, batch, failed>>
  BY DEF SetOption, execVars, coroVars, loopVars
<1>4. \A c : Has(c)' <=> Has(c)
  BY <1>3 DEF Has
<1>5. Types'
  BY <1>1, <1>2, <1>3, <1>4 DEF AcceptInv, Types, TypeOK, LocalTypes, Serving, TaskOrder
<1>6. ClientsInv'
  BY <1>2, <1>3, <1>4, ClientsKept DEF Untouched
<1>7. TasksInv'
  <2>1. ~Has(main.client)'
    BY <1>1, <1>2, <1>3 DEF AcceptInv, TasksInv, Has
  <2>2. QED
    BY <1>2, <1>3, <2>1 DEF AcceptInv, TasksInv, Task, SendBefore, Spawning, SendFnFirst, HeldTask, QueueInv
<1>8. OwnedInv'
  BY <1>1, <1>2, <1>3 DEF AcceptInv, OwnedInv, Has, Alive, Serving, Spawning
<1>9. QED
  BY <1>5, <1>6, <1>7, <1>8 DEF AcceptInv

(* What closing a number does, whoever holds it. *)
LEMMA CloseFdDoes ==
  ASSUME TypeOK, NEW n \in Fds, CloseFd(n)
  PROVE  /\ table' \in [Fds -> Clients \cup {NULL}] /\ table'[n] = NULL
         /\ \A m \in Fds : m # n => table'[m] = table[m]
         /\ epoll' \in [Clients -> Clients \cup {NULL}]
         /\ \A c \in Clients : epoll'[c] \in {NULL, epoll[c]}
  BY DEF CloseFd, TypeOK

LEMMA OptionFailsKeeps ==
  ASSUME AcceptInv, OptionFails
  PROVE  AcceptInv'
<1> USE AcceptAssumption
<1>1. main.at = "option" /\ AfterOption /\ CloseFd(main.fd)
  BY DEF OptionFails
<1>2. /\ main' \in [at : {"listen", "exit", "accept", "option", "spawn", "drop"},
                    fd : 0 .. MaxFd, client : Clients \cup {NULL}, option : Nat]
      /\ main'.fd = main.fd /\ main'.client = main.client
      /\ \/ main'.at = "option" /\ main'.option \in 1 .. Options
         \/ main'.at = "spawn" /\ main'.option = 1
  BY <1>1, OptionDone DEF AcceptInv
<1>3. /\ UNCHANGED <<peer, backlog, fd, queue, send, recv, ending, loop, task, batch>>
      /\ failed' = TRUE
  BY DEF OptionFails, coroVars, loopVars
<1>4. \A c : Has(c)' <=> Has(c)
  BY <1>3 DEF Has
<1>5. /\ table' \in [Fds -> Clients \cup {NULL}] /\ table'[main.fd] = NULL
      /\ \A m \in Fds : m # main.fd => table'[m] = table[m]
      /\ epoll' \in [Clients -> Clients \cup {NULL}]
  <2>1. main.fd \in Fds
    BY <1>1 DEF AcceptInv, Types, LocalTypes, Serving
  <2>2. QED
    BY <1>1, <2>1, CloseFdDoes DEF AcceptInv, Types
<1>6. Types'
  <2>1. failed' \in BOOLEAN
    BY <1>3
  <2>2. TypeOK'
    BY <1>2, <1>3, <1>4, <1>5, <2>1 DEF AcceptInv, Types, TypeOK, TaskOrder
  <2>3. LocalTypes'
    BY <1>1, <1>2, <1>3 DEF AcceptInv, Types, LocalTypes, Serving
  <2>4. QED
    BY <2>2, <2>3 DEF Types
<1>7. ClientsInv'
  <2>1. \A c \in Clients : Untouched(c) => Untouched(c)'
    BY <1>2, <1>4, <1>5 DEF Untouched
  <2>2. QED
    BY <1>3, <2>1, ClientsKept
<1>8. TasksInv'
  <2>1. ~Has(main.client)'
    BY <1>1, <1>2, <1>3 DEF AcceptInv, TasksInv, Has
  <2>2. QED
    BY <1>2, <1>3, <2>1 DEF AcceptInv, TasksInv, Task, SendBefore, Spawning, SendFnFirst, HeldTask, QueueInv
<1>9. OwnedInv'
  BY <1>3 DEF OwnedInv
<1>10. QED
  BY <1>6, <1>7, <1>8, <1>9 DEF AcceptInv

LEMMA SpawnKeeps ==
  ASSUME AcceptInv, Spawn
  PROVE  AcceptInv'
<1> USE AcceptAssumption
<1> DEFINE m == main.client
           e == [fn |-> TaskOrder[main.option], conn |-> m]
           last == Len(queue) + 1
<1>1. /\ main.at = "spawn" /\ main.option \in {1, 2} /\ m \in Clients /\ main.fd \in Fds
      /\ fd' = [fd EXCEPT ![m] = main.fd]
      /\ UNCHANGED <<peer, backlog, table, epoll, send, recv, ending, loop, task, batch, failed>>
  <2>1. main.at = "spawn" /\ main.option \in DOMAIN TaskOrder
    BY DEF Spawn, AcceptInv, Types, TypeOK
  <2>2. DOMAIN TaskOrder = {1, 2}
    BY DEF TaskOrder
  <2>3. m \in Clients /\ main.fd \in Fds
    BY <2>1 DEF AcceptInv, Types, LocalTypes, Serving
  <2>4. QED
    BY <2>1, <2>2, <2>3 DEF Spawn
<1>2. /\ main' \in [at : {"listen", "exit", "accept", "option", "spawn", "drop"},
                    fd : 0 .. MaxFd, client : Clients \cup {NULL}, option : Nat]
      /\ main'.fd = main.fd /\ main'.client = m
      /\ IF main.option = 1 THEN main'.at = "spawn" /\ main'.option = 2 ELSE main'.at = "drop"
  BY DEF Spawn, AcceptInv, Types, LocalTypes
<1>3. /\ e \in [fn : {"send", "recv"}, conn : Clients] /\ e.conn = m
      /\ e.fn = IF main.option = 1 THEN "send" ELSE "recv"
  BY <1>1 DEF TaskOrder
<1>4. /\ queue' \in Seq([fn : {"send", "recv"}, conn : Clients])
      /\ DOMAIN queue' = DOMAIN queue \cup {last} /\ Len(queue') = last
      /\ \A i \in DOMAIN queue : i \in Nat /\ i < last /\ queue'[i] = queue[i]
      /\ queue'[last] = e /\ last \in Nat
  <2>1. queue' = Append(queue, e) /\ queue \in Seq([fn : {"send", "recv"}, conn : Clients])
    BY DEF Spawn, AcceptInv, Types, LocalTypes
  <2> HIDE DEF e
  <2>2. QED
    BY <1>3, <2>1, AppendOf
<1> HIDE DEF e, m, last
<1>5. \A c : Has(c)' <=> Has(c) \/ c = m
  BY <1>1, <1>3, <1>4 DEF Has
<1>6. \A c \in Clients : fd'[c] = IF c = m THEN main.fd ELSE fd[c]
  BY <1>1 DEF AcceptInv, Types, LocalTypes
<1>7. Types'
  <2>1. TypeOK'
    BY <1>1, <1>2, <1>5, <1>6 DEF AcceptInv, Types, TypeOK, TaskOrder
  <2>2. fd' \in [Clients -> 0 .. MaxFd]
    BY <1>1 DEF AcceptInv, Types, LocalTypes, Fds
  <2>3. LocalTypes'
    BY <1>1, <1>2, <1>4, <2>2 DEF AcceptInv, Types, LocalTypes, Serving
  <2>4. QED
    BY <2>1, <2>3 DEF Types
<1>8. ClientsInv'
  <2>1. \A c \in Clients : Untouched(c) => Untouched(c)'
    BY <1>1, <1>2, <1>5 DEF Untouched, m
  <2>2. QED
    BY <1>1, <2>1, ClientsKept
<1>9. \A i, f, c : Task(i, f, c)' <=> Task(i, f, c) \/ (i = last /\ f = e.fn /\ c = m)
  BY <1>3, <1>4 DEF Task
<1>10. TasksInv'
  <2>1. \A i \in DOMAIN queue', c \in Clients : SendBefore(i, c) => SendBefore(i, c)'
    BY <1>1, <1>4, <1>9 DEF SendBefore
  <2>2. main.option = 2 => /\ recv[m] = "none" /\ SendBefore(last, m)
                           /\ \A i \in DOMAIN queue : ~Task(i, "recv", m)
    BY <1>1 DEF AcceptInv, TasksInv, Spawning, m, last
  <2>3. main.option = 1 => recv[m] = "none" /\ \A i \in DOMAIN queue : \A f : ~Task(i, f, m)
    BY <1>1 DEF AcceptInv, TasksInv, Has, Task, m
  <2>4. \A i \in DOMAIN queue', c \in Clients :
          Task(i, "recv", c)' => recv'[c] = "none" /\ SendBefore(i, c)'
    <3>1. SUFFICES ASSUME NEW i \in DOMAIN queue', NEW c \in Clients, Task(i, "recv", c)'
                   PROVE  recv'[c] = "none" /\ SendBefore(i, c)'
      OBVIOUS
    <3>2. CASE Task(i, "recv", c)
      BY <1>1, <2>1, <3>2 DEF AcceptInv, TasksInv, Task
    <3>3. CASE i = last /\ e.fn = "recv" /\ c = m
      BY <1>1, <1>3, <2>1, <2>2, <3>3
    <3>4. QED
      BY <1>9, <3>1, <3>2, <3>3
  <2>5. \A i, j \in DOMAIN queue', c \in Clients :
          Task(i, "recv", c)' /\ Task(j, "recv", c)' => i = j
    <3>1. SUFFICES ASSUME NEW i \in DOMAIN queue', NEW j \in DOMAIN queue', NEW c \in Clients,
                          Task(i, "recv", c)', Task(j, "recv", c)', i # j
                   PROVE  FALSE
      OBVIOUS
    <3>2. ~(Task(i, "recv", c) /\ Task(j, "recv", c))
      BY <3>1 DEF AcceptInv, TasksInv, Task
    <3>3. main.option = 2 /\ c = m /\ (Task(i, "recv", c) \/ Task(j, "recv", c))
      BY <1>1, <1>3, <1>9, <3>1, <3>2
    <3>4. QED
      BY <2>2, <3>3 DEF Task
  <2>6. Spawning' =>
          /\ recv'[main'.client] = "none" /\ SendBefore(Len(queue) + 1, main.client)'
          /\ \A i \in DOMAIN queue' : ~Task(i, "recv", main.client)'
    <3>1. SUFFICES ASSUME main.option = 1
                   PROVE  /\ recv'[main'.client] = "none"
                          /\ SendBefore(Len(queue) + 1, main.client)'
                          /\ \A i \in DOMAIN queue' : ~Task(i, "recv", main.client)'
      BY <1>1, <1>2 DEF Spawning
    <3>2. SendBefore(Len(queue) + 1, main.client)'
      BY <1>2, <1>3, <1>4, <3>1 DEF SendBefore, Task
    <3>3. \A i \in DOMAIN queue' : ~Task(i, "recv", main.client)'
      BY <1>2, <1>3, <1>4, <2>3, <3>1 DEF Task
    <3>4. QED
      BY <1>1, <1>2, <2>3, <3>1, <3>2, <3>3
  <2>7. Has(main.client)'
    BY <1>2, <1>4, <1>3 DEF Has
  <2>8. HeldTask'
    <3>1. m = main.client
      BY DEF m
    <3>2. main.option = 1 => task.conn # m
      BY <1>1, <3>1 DEF AcceptInv, TasksInv, Has
    <3>3. main.option = 2 => ~(loop = "run" /\ task.fn = "recv" /\ task.conn = m)
      BY <1>1, <3>1 DEF AcceptInv, TasksInv, Spawning
    <3>4. loop = "run" /\ task.fn = "recv" => \A i \in DOMAIN queue' : queue'[i].conn # task.conn
      BY <1>1, <1>3, <1>4, <3>2, <3>3 DEF AcceptInv, TasksInv, HeldTask
    <3>5. QED
      BY <1>1, <3>4 DEF AcceptInv, TasksInv, HeldTask
  <2>9. QueueInv'
    <3>1. \A i \in DOMAIN queue' : recv'[queue'[i].conn] = "none"
      BY <1>1, <1>3, <1>4, <2>2, <2>3 DEF AcceptInv, TasksInv, QueueInv
    <3>2. ASSUME NEW i \in DOMAIN queue', NEW j \in DOMAIN queue',
                 queue'[i].fn = "recv", queue'[j].conn = queue'[i].conn
          PROVE  j =< i
      <4>1. CASE i \in DOMAIN queue /\ j \in DOMAIN queue
        BY <1>4, <3>2, <4>1 DEF AcceptInv, TasksInv, QueueInv
      <4>2. CASE i = last
        BY <1>4, <4>2
      <4>3. CASE i \in DOMAIN queue /\ j = last
        <5>1. Task(i, "recv", m)
          BY <1>3, <1>4, <3>2, <4>3 DEF Task
        <5>2. QED
          BY <1>1, <2>2, <2>3, <4>3, <5>1
      <4>4. QED
        BY <1>4, <4>1, <4>2, <4>3
    <3>3. QED
      BY <3>1, <3>2 DEF QueueInv
  <2>10. Spawning' => ~(loop' = "run" /\ task'.fn = "recv" /\ task'.conn = main'.client)
    BY <1>1, <1>2 DEF Spawning, AcceptInv, TasksInv, Has, m
  <2>11. QED
    BY <1>1, <1>2, <2>4, <2>5, <2>6, <2>7, <2>8, <2>9, <2>10 DEF AcceptInv, TasksInv, SendFnFirst
<1>11. OwnedInv'
  <2>1. SUFFICES ASSUME ~failed PROVE OwnedInv'
    BY <1>1 DEF OwnedInv
  <2>2. table[main.fd] = m
    BY <1>1, <2>1 DEF AcceptInv, OwnedInv, Serving, m
  <2>3. \A c \in Clients : Alive(c) => Alive(c)'
    BY <1>1, <1>2, <1>5 DEF Alive, m
  <2>4. \A c \in Clients : Alive(c)' => Alive(c) \/ c = m
    BY <1>1, <1>2, <1>5 DEF Alive, m
  <2>5. \A c \in Clients : Alive(c)' => table'[fd'[c]] = c
    BY <1>1, <1>6, <2>1, <2>2, <2>4 DEF AcceptInv, OwnedInv
  <2>6. \A n \in Fds : table'[n] # NULL => Alive(table[n])' \/ main'.client = table'[n]
    <3>1. SUFFICES ASSUME NEW n \in Fds, table[n] # NULL, table[n] # m
                   PROVE  Alive(table[n])'
      BY <1>1, <1>2
    <3>2. table[n] \in Clients /\ Alive(table[n])
      BY <2>1, <3>1 DEF AcceptInv, OwnedInv, Types, TypeOK, m
    <3>3. PICK x \in Clients : x = table'[n] /\ Alive(x)'
      BY <1>1, <2>3, <3>2
    <3>4. QED
      BY <3>3 DEF Alive, Has
  <2>7. QED
    BY <1>1, <1>2, <1>6, <2>1, <2>2, <2>5, <2>6 DEF AcceptInv, OwnedInv, Serving, Spawning
<1>12. QED
  BY <1>7, <1>8, <1>10, <1>11 DEF AcceptInv

(* The last reference to the Connection of c goes: the number that refers   *)
(* to c is freed, and no other.                                             *)
LEMMA DestroyFreesOwn ==
  ASSUME AcceptInv, ~failed, NEW c \in Clients, fd[c] \in Fds, table[fd[c]] = c, Destroy(c)
  PROVE  /\ \A n \in Fds : table'[n] = IF table[n] = c THEN NULL ELSE table[n]
         /\ \A x \in Clients : epoll'[x] \in {NULL, epoll[x]}
<1> USE AcceptAssumption
<1>1. /\ table'[fd[c]] = NULL
      /\ \A n \in Fds : n # fd[c] => table'[n] = table[n]
      /\ \A x \in Clients : epoll'[x] \in {NULL, epoll[x]}
  BY CloseFdDoes DEF Destroy, AcceptInv, Types
<1>2. \A n \in Fds : table[n] = c => n = fd[c]
  BY DEF AcceptInv, OwnedInv
<1>3. QED
  BY <1>1, <1>2

(* A reference to the Connection of c goes.  If it was the last one, the    *)
(* number of c is freed.                                                    *)
LEMMA ReleaseKeeps ==
  ASSUME AcceptInv, NEW c \in Clients, Alive(c),
         \/ Alive(c)' /\ UNCHANGED <<table, epoll>>
         \/ ~Alive(c)' /\ main'.client # c /\ Destroy(c),
         \A x \in Clients : x # c => (Alive(x)' <=> Alive(x)),
         UNCHANGED <<fd, failed>>,
         main' = main \/ (main'.client = NULL /\ main'.at = "accept" /\ main.client = c)
  PROVE  /\ OwnedInv'
         /\ table' \in [Fds -> Clients \cup {NULL}]
         /\ \A n \in Fds : table'[n] \in {NULL, table[n]}
         /\ epoll' \in [Clients -> Clients \cup {NULL}]
<1> USE AcceptAssumption
<1>1. fd[c] \in Fds
  BY DEF AcceptInv, Types, TypeOK, Alive
<1>2. /\ table' \in [Fds -> Clients \cup {NULL}]
      /\ \A n \in Fds : table'[n] \in {NULL, table[n]}
      /\ epoll' \in [Clients -> Clients \cup {NULL}]
  <2>1. CASE Destroy(c)
    BY <1>1, <2>1, CloseFdDoes DEF Destroy, AcceptInv, Types
  <2>2. CASE UNCHANGED <<table, epoll>>
    BY <2>2 DEF AcceptInv, Types, TypeOK
  <2>3. QED
    BY <2>1, <2>2
<1>3. OwnedInv'
  <2>1. SUFFICES ASSUME ~failed PROVE OwnedInv'
    BY DEF OwnedInv
  <2>2. table[fd[c]] = c
    BY <2>1 DEF AcceptInv, OwnedInv
  <2>3. /\ \A x \in Clients : epoll'[x] \in {NULL, epoll[x]}
        /\ \A n \in Fds : table'[n] = IF table[n] = c /\ ~Alive(c)' THEN NULL ELSE table[n]
    <3>1. CASE Destroy(c) /\ ~Alive(c)'
      BY <1>1, <2>1, <2>2, <3>1, DestroyFreesOwn
    <3>2. CASE UNCHANGED <<table, epoll>> /\ Alive(c)'
      BY <3>2
    <3>3. QED
      BY <3>1, <3>2
  <2>4. \A x \in Clients : Alive(x)' => table'[fd'[x]] = x
    <3>1. \A x \in Clients : Alive(x) => fd[x] \in Fds /\ table[fd[x]] = x
      BY <2>1 DEF AcceptInv, OwnedInv, Types, TypeOK, Alive
    <3>2. QED
      BY <2>3, <3>1
  <2>5. \A n \in Fds : table'[n] # NULL => Alive(table[n])' \/ main'.client = table'[n]
    <3>1. SUFFICES ASSUME NEW n \in Fds, table'[n] # NULL, main'.client # table'[n]
                   PROVE  Alive(table[n])'
      OBVIOUS
    <3>2. table'[n] = table[n] /\ table[n] \in Clients /\ ~(table[n] = c /\ ~Alive(c)')
      BY <2>3, <3>1 DEF AcceptInv, Types, TypeOK
    <3>3. Alive(table[n])
      BY <2>1, <3>1, <3>2 DEF AcceptInv, OwnedInv
    <3>4. PICK x \in Clients : x = table'[n] /\ Alive(x)'
      BY <3>2, <3>3
    <3>5. QED
      BY <3>4 DEF Alive, Has
  <2>6. \A k, n \in Fds : table'[k] = table'[n] /\ table'[k] # NULL => k = n
    BY <2>1, <2>3 DEF AcceptInv, OwnedInv
  <2>7. Serving' => table'[main'.fd] = main'.client
    <3>1. SUFFICES ASSUME main' = main, Serving PROVE table'[main.fd] = main.client
      BY DEF Serving
    <3>2. main.client \in Clients /\ main.fd \in Fds /\ table[main.fd] = main.client
      BY <2>1, <3>1 DEF AcceptInv, OwnedInv, Types, LocalTypes
    <3>3. CASE Alive(c)'
      BY <2>3, <3>2, <3>3
    <3>4. CASE ~Alive(c)'
      BY <2>3, <3>1, <3>2, <3>4
    <3>5. QED
      BY <3>3, <3>4
  <2>8. \A x \in Clients : epoll'[x] \in {NULL, x}
    BY <2>1, <2>3 DEF AcceptInv, OwnedInv
  <2>9. (Spawning \/ main.at = "drop")' => fd'[main'.client] = main'.fd
    BY <2>1 DEF AcceptInv, OwnedInv, Spawning
  <2>10. QED
    BY <2>4, <2>5, <2>6, <2>7, <2>8, <2>9 DEF OwnedInv
<1>4. QED
  BY <1>2, <1>3

LEMMA DropKeeps ==
  ASSUME AcceptInv, Drop
  PROVE  AcceptInv'
<1> USE AcceptAssumption
<1>1. PICK m \in Clients : m = main.client
  BY DEF Drop, AcceptInv, Types, LocalTypes, Serving
<1>2. /\ main.at = "drop" /\ main' = Idle /\ Has(m)
      /\ UNCHANGED <<peer, backlog, fd, queue, send, recv, ending, loop, task, batch, failed>>
  BY <1>1 DEF Drop, coroVars, loopVars, AcceptInv, TasksInv
<1>3. /\ main' \in [at : {"listen", "exit", "accept", "option", "spawn", "drop"},
                    fd : 0 .. MaxFd, client : Clients \cup {NULL}, option : Nat]
      /\ main'.client = NULL /\ main'.at = "accept"
  BY <1>2 DEF Idle
<1>4. \A c : Has(c)' <=> Has(c)
  BY <1>2 DEF Has
<1>5. \/ ~(recv[m] # "ended" \/ task.conn = m) /\ Destroy(m)
      \/ (recv[m] # "ended" \/ task.conn = m) /\ UNCHANGED <<table, epoll>>
  BY <1>1 DEF Drop, Release
<1>6. Alive(m) /\ \A x \in Clients : x # m => (Alive(x)' <=> Alive(x))
  BY <1>1, <1>2, <1>3, <1>4 DEF Alive
<1>7. Alive(m)' <=> recv[m] # "ended" \/ task.conn = m
  BY <1>2, <1>3, <1>4 DEF Alive
<1>8. /\ OwnedInv'
      /\ table' \in [Fds -> Clients \cup {NULL}]
      /\ \A n \in Fds : table'[n] \in {NULL, table[n]}
      /\ epoll' \in [Clients -> Clients \cup {NULL}]
  BY <1>1, <1>2, <1>3, <1>5, <1>6, <1>7, ReleaseKeeps
<1>9. Types'
  <2>1. TypeOK'
    BY <1>2, <1>3, <1>4, <1>8 DEF AcceptInv, Types, TypeOK
  <2>2. LocalTypes'
    BY <1>2, <1>3 DEF AcceptInv, Types, LocalTypes, Serving
  <2>3. QED
    BY <2>1, <2>2 DEF Types
<1>10. ClientsInv'
  <2>1. \A c \in Clients : Untouched(c) => Untouched(c)'
    BY <1>3, <1>4, <1>8 DEF Untouched
  <2>2. QED
    BY <1>2, <2>1, ClientsKept
<1>11. TasksInv'
  BY <1>2, <1>3 DEF AcceptInv, TasksInv, Task, SendBefore, Spawning, SendFnFirst, HeldTask, QueueInv
<1>12. QED
  BY <1>8, <1>9, <1>10, <1>11 DEF AcceptInv

-----------------------------------------------------------------------------
(* The executor's thread *)

(* Taking the first task moves the others up by one. *)
LEMMA TaskTaken ==
  ASSUME Types, queue # <<>>, queue' = Tail(queue)
  PROVE  /\ queue' \in Seq([fn : {"send", "recv"}, conn : Clients])
         /\ Head(queue).conn \in Clients /\ Task(1, Head(queue).fn, Head(queue).conn)
         /\ Len(queue') + 1 = Len(queue)
         /\ \A i \in DOMAIN queue' : i + 1 \in DOMAIN queue /\ i + 1 # 1
         /\ \A i \in DOMAIN queue' : \A f, c : Task(i, f, c)' <=> Task(i + 1, f, c)
         /\ \A i \in DOMAIN queue : i = 1 \/ i - 1 \in DOMAIN queue'
<1>1. queue \in Seq([fn : {"send", "recv"}, conn : Clients])
  BY DEF Types, LocalTypes
<1>2. /\ queue' \in Seq([fn : {"send", "recv"}, conn : Clients])
      /\ Head(queue) = queue[1] /\ 1 \in DOMAIN queue
      /\ queue[1] \in [fn : {"send", "recv"}, conn : Clients]
      /\ Len(queue') = Len(queue) - 1
      /\ \A i \in DOMAIN queue' : i + 1 \in DOMAIN queue /\ i + 1 # 1 /\ queue'[i] = queue[i + 1]
      /\ \A i \in DOMAIN queue : i = 1 \/ i - 1 \in DOMAIN queue'
  BY <1>1, TailOf
<1>3. \A i \in DOMAIN queue' : \A f, c : Task(i, f, c)' <=> Task(i + 1, f, c)
  BY <1>2 DEF Task
<1>4. Len(queue) \in Nat
  BY <1>1
<1>5. QED
  BY <1>2, <1>3, <1>4 DEF Task

(* Popping the first task keeps the order of the tasks of each Connection. *)
LEMMA OrderKept ==
  ASSUME Types, queue # <<>>, Pop, NEW c \in Clients, NEW i \in Nat, SendBefore(i + 1, c)
  PROVE  SendBefore(i, c)'
<1>0. /\ queue' = Tail(queue) /\ send' = send
      /\ loop = "pop" /\ loop' = "run" /\ task' = Head(queue)
  BY DEF Pop, LoopAt
<1>1. CASE send[c] # "none"
  BY <1>0, <1>1 DEF SendBefore
<1>2. CASE \E j \in DOMAIN queue : j < i + 1 /\ Task(j, "send", c)
  <2>1. PICK j \in DOMAIN queue : j < i + 1 /\ Task(j, "send", c)
    BY <1>2
  <2>2. CASE j = 1
    <3>1. queue[1] = Head(queue)
      BY <1>0, TailOf DEF Types, LocalTypes
    <3>2. QED
      BY <1>0, <2>1, <2>2, <3>1 DEF SendBefore, Task
  <2>3. CASE j # 1
    <3>1. j \in Nat
      BY DEF Types, LocalTypes
    <3>2. j - 1 \in DOMAIN queue' /\ Task(j - 1, "send", c)'
      <4>1. j - 1 \in DOMAIN queue' /\ (j - 1) + 1 = j
        BY <1>0, <2>3, <3>1, TaskTaken
      <4>2. Task(j - 1, "send", c)' <=> Task((j - 1) + 1, "send", c)
        BY <1>0, <4>1, TaskTaken
      <4>3. QED
        BY <2>1, <4>1, <4>2
    <3>3. j - 1 < i
      BY <2>1, <3>1
    <3>4. QED
      BY <3>2, <3>3 DEF SendBefore
  <2>4. QED
    BY <2>2, <2>3
<1>3. QED
  BY <1>0, <1>1, <1>2 DEF SendBefore

(* A popped task keeps its Connection, and the closure that it replaces has *)
(* started a coroutine.                                                     *)
LEMMA HasPopped ==
  ASSUME AcceptInv, queue # <<>>, Pop, NEW c \in Clients
  PROVE  Has(c)' <=> Has(c)
<1>0. /\ queue' = Tail(queue) /\ send' = send /\ recv' = recv
      /\ loop = "pop" /\ task' = Head(queue) /\ Types
  BY DEF Pop, LoopAt, AcceptInv
<1>1. CASE c = Head(queue).conn
  <2>1. Has(c)
    BY <1>0, <1>1, TaskTaken DEF Has, Task
  <2>2. Has(c)'
    BY <1>0, <1>1 DEF Has
  <2>3. QED
    BY <2>1, <2>2
<1>2. CASE c # Head(queue).conn
  <2>0. queue \in Seq([fn : {"send", "recv"}, conn : Clients])
    BY <1>0 DEF Types, LocalTypes
  <2>1. ASSUME NEW i \in DOMAIN queue', queue'[i].conn = c
        PROVE  \E k \in DOMAIN queue : queue[k].conn = c
    BY <1>0, <2>0, <2>1, TailOf
  <2>2. ASSUME NEW i \in DOMAIN queue, queue[i].conn = c
        PROVE  \E k \in DOMAIN queue' : queue'[k].conn = c
    <3>1. i # 1
      BY <1>2, <2>0, <2>2, TailOf
    <3>2. i - 1 \in DOMAIN queue' /\ queue'[i - 1] = queue[i]
      BY <1>0, <2>0, <3>1, TailOf
    <3>3. QED
      BY <2>2, <3>2
  <2>3. task.conn = c => send[c] # "none"
    <3>1. NoTask.conn = NULL
      BY DEF NoTask
    <3>2. QED
      BY <1>0, <3>1, AcceptAssumption DEF AcceptInv, TasksInv, HeldTask
  <2>4. QED
    BY <1>0, <1>2, <2>1, <2>2, <2>3 DEF Has
<1>3. QED
  BY <1>1, <1>2

(* TasksInv when the first task of the queue is popped. *)
LEMMA TasksPopped ==
  ASSUME AcceptInv, Pop
  PROVE  TasksInv'
<1> USE AcceptAssumption
<1>0. /\ queue # <<>> /\ queue' = Tail(queue) /\ ending = NULL
      /\ loop = "pop" /\ loop' = "run" /\ task' = Head(queue)
      /\ UNCHANGED <<main, send, recv, ending>>
  BY DEF Pop, LoopAt
<1>1. \A i \in DOMAIN queue' : i \in Nat /\ i + 1 \in DOMAIN queue /\ i + 1 # 1
  BY <1>0, TaskTaken DEF AcceptInv
<1>2. \A i \in DOMAIN queue' : \A f, c : Task(i, f, c)' <=> Task(i + 1, f, c)
  BY <1>0, TaskTaken DEF AcceptInv
<1>3. \A i \in Nat, c \in Clients : SendBefore(i + 1, c) => SendBefore(i, c)'
  BY <1>0, OrderKept DEF AcceptInv
<1>4. PICK h \in Clients : h = task'.conn /\ Task(1, task'.fn, h) /\ 1 \in DOMAIN queue
  BY <1>0, TaskTaken DEF AcceptInv, Task
<1>5. \A i \in DOMAIN queue', c \in Clients :
        Task(i, "recv", c)' => recv'[c] = "none" /\ SendBefore(i, c)'
  BY <1>0, <1>1, <1>2, <1>3 DEF AcceptInv, TasksInv
<1>6. \A i, j \in DOMAIN queue', c \in Clients :
        Task(i, "recv", c)' /\ Task(j, "recv", c)' => i = j
  <2>1. SUFFICES ASSUME NEW i \in DOMAIN queue', NEW j \in DOMAIN queue', NEW c \in Clients,
                        Task(i, "recv", c)', Task(j, "recv", c)'
                 PROVE  i = j
    OBVIOUS
  <2>2. i + 1 = j + 1
    BY <1>1, <1>2, <2>1 DEF AcceptInv, TasksInv
  <2>3. QED
    BY <1>1, <2>2
<1>7. ASSUME NEW m \in Clients, m = main.client, Spawning
      PROVE  /\ recv'[m] = "none" /\ SendBefore(Len(queue) + 1, m)'
             /\ ~(task'.fn = "recv" /\ task'.conn = m)
             /\ \A i \in DOMAIN queue' : ~Task(i, "recv", m)'
  <2>1. /\ recv[m] = "none" /\ SendBefore(Len(queue) + 1, m)
        /\ \A i \in DOMAIN queue : ~Task(i, "recv", m)
    BY <1>7 DEF AcceptInv, TasksInv
  <2>2. ~(task'.fn = "recv" /\ task'.conn = m)
    BY <1>4, <2>1
  <2>3. \A i \in DOMAIN queue' : ~Task(i, "recv", m)'
    BY <1>1, <1>2, <2>1
  <2>4. Len(queue') + 1 = Len(queue) /\ Len(queue') + 1 \in Nat /\ Len(queue) \in Nat
    BY <1>0, TaskTaken DEF AcceptInv, Types, LocalTypes
  <2>5. PICK k \in Nat : k = Len(queue') + 1 /\ k + 1 = Len(queue) + 1
    BY <2>4
  <2>6. SendBefore(k, m)'
    BY <1>3, <2>1, <2>5
  <2>7. SendBefore(Len(queue) + 1, m)'
    BY <2>5, <2>6 DEF SendBefore
  <2>8. QED
    BY <1>0, <2>1, <2>2, <2>3, <2>7
<1>8. Spawning' =>
        /\ recv'[main'.client] = "none" /\ SendBefore(Len(queue) + 1, main.client)'
        /\ ~(task'.fn = "recv" /\ task'.conn = main'.client)
        /\ \A i \in DOMAIN queue' : ~Task(i, "recv", main.client)'
  <2>1. Spawning => main.client \in Clients
    BY DEF AcceptInv, Types, LocalTypes, Serving, Spawning
  <2>2. QED
    BY <1>0, <1>7, <2>1 DEF Spawning, SendBefore, Task
<1>9. /\ Has(main.client)' => Has(main.client) \/ main.client \notin Clients
      /\ Has(main.client) => Has(main.client)' \/ main.client \notin Clients
  <2>1. \A c \in Clients : Has(c)' <=> Has(c)
    BY <1>0, HasPopped
  <2>2. QED
    BY <1>0, <2>1 DEF Has
<1>10. Serving => main.client \in Clients
  BY DEF AcceptInv, Types, LocalTypes
<1>11. HeldTask'
  <2>1. ASSUME task'.fn = "recv"
        PROVE  /\ recv[h] = "none" /\ send[h] # "none"
               /\ \A i \in DOMAIN queue' : queue'[i].conn # h
    <3>1. recv[h] = "none" /\ SendBefore(1, h)
      BY <1>4, <2>1 DEF AcceptInv, TasksInv
    <3>2. \A j \in DOMAIN queue : ~(j < 1)
      BY DEF AcceptInv, Types, LocalTypes
    <3>3. send[h] # "none"
      BY <1>0, <3>1, <3>2 DEF SendBefore
    <3>4. ASSUME NEW i \in DOMAIN queue' PROVE queue'[i].conn # h
      <4>1. i + 1 \in DOMAIN queue /\ queue'[i] = queue[i + 1] /\ i \in 1 .. Len(queue')
        BY <1>0, TailOf DEF AcceptInv, Types, LocalTypes
      <4>2. queue[i + 1].conn = h => i + 1 =< 1
        BY <1>4, <2>1, <4>1 DEF AcceptInv, TasksInv, QueueInv, Task
      <4>3. QED
        BY <4>1, <4>2
    <3>5. QED
      BY <3>1, <3>3, <3>4
  <2>2. task' # NoTask
    BY <1>4 DEF NoTask
  <2>3. QED
    BY <1>0, <1>4, <2>1, <2>2 DEF HeldTask, Task
<1>12. SendFnFirst'
  BY <1>0 DEF AcceptInv, TasksInv, SendFnFirst
<1>13. QueueInv'
  <2>1. \A i \in DOMAIN queue' :
          i \in Nat /\ i + 1 \in DOMAIN queue /\ queue'[i] = queue[i + 1]
    BY <1>0, TailOf DEF AcceptInv, Types, LocalTypes
  <2>2. \A i \in DOMAIN queue' : recv'[queue'[i].conn] = "none"
    BY <1>0, <2>1 DEF AcceptInv, TasksInv, QueueInv
  <2>3. ASSUME NEW i \in DOMAIN queue', NEW j \in DOMAIN queue',
               queue'[i].fn = "recv", queue'[j].conn = queue'[i].conn
        PROVE  j =< i
    <3>1. j + 1 =< i + 1
      BY <2>1, <2>3 DEF AcceptInv, TasksInv, QueueInv
    <3>2. QED
      BY <2>1, <3>1
  <2>4. QED
    BY <2>2, <2>3 DEF QueueInv
<1>14. QED
  BY <1>0, <1>5, <1>6, <1>8, <1>9, <1>10, <1>11, <1>12, <1>13 DEF AcceptInv, TasksInv, Serving

(* A step that leaves the descriptors to the Connections that hold them. *)
LEMMA OwnedKept ==
  ASSUME AcceptInv, UNCHANGED <<table, main, fd, failed>>,
         \A c \in Clients : Alive(c)' <=> Alive(c),
         ~failed => \A c \in Clients : epoll'[c] \in {NULL, c}
  PROVE  OwnedInv'
<1>1. SUFFICES ASSUME ~failed PROVE OwnedInv'
  BY DEF OwnedInv
<1>2. \A c \in Clients : Alive(c)' => table'[fd'[c]] = c
  BY <1>1 DEF AcceptInv, OwnedInv
<1>3. \A n \in Fds : table'[n] # NULL => Alive(table[n])' \/ main'.client = table'[n]
  <2>1. SUFFICES ASSUME NEW n \in Fds, table[n] # NULL, main.client # table[n]
                 PROVE  Alive(table[n])'
    OBVIOUS
  <2>2. table[n] \in Clients /\ Alive(table[n])
    BY <1>1, <2>1 DEF AcceptInv, OwnedInv, Types, TypeOK
  <2>3. PICK x \in Clients : x = table'[n] /\ Alive(x)'
    BY <2>2
  <2>4. QED
    BY <2>3 DEF Alive, Has
<1>4. QED
  BY <1>1, <1>2, <1>3 DEF AcceptInv, OwnedInv, Serving, Spawning

(* The loop gives up its closure, or takes another one. *)
LEMMA TaskReleased ==
  ASSUME AcceptInv, ReleaseTask, UNCHANGED <<fd, failed, main, recv>>,
         \A c \in Clients : Has(c)' <=> Has(c),
         \A c \in Clients : task'.conn = c => recv[c] # "ended"
  PROVE  /\ OwnedInv'
         /\ table' \in [Fds -> Clients \cup {NULL}]
         /\ \A n \in Fds : table'[n] \in {NULL, table[n]}
         /\ epoll' \in [Clients -> Clients \cup {NULL}]
<1> USE AcceptAssumption
<1>1. CASE task = NoTask
  <2>1. UNCHANGED <<table, epoll>>
    BY <1>1 DEF ReleaseTask, Release
  <2>2. \A c \in Clients : Alive(c)' <=> Alive(c)
    BY <1>1 DEF Alive, NoTask
  <2>3. ~failed => \A c \in Clients : epoll'[c] \in {NULL, c}
    BY <2>1 DEF AcceptInv, OwnedInv
  <2>4. QED
    BY <2>1, <2>2, <2>3, OwnedKept DEF AcceptInv, Types, TypeOK
<1>2. CASE task # NoTask
  <2>1. PICK c \in Clients : c = task.conn
    BY <1>2 DEF AcceptInv, Types, LocalTypes
  <2>2. Has(c) /\ Has(c)'
    BY <2>1 DEF Has
  <2>3. Alive(c)
    BY <2>1, <2>2 DEF Alive
  <2>4. Alive(c)' <=> recv[c] # "ended" \/ main.client = c
    BY <2>1, <2>2 DEF Alive
  <2>5. \A x \in Clients : x # c => (Alive(x)' <=> Alive(x))
    BY <2>1 DEF Alive
  <2>6. \/ (recv[c] # "ended" \/ main.client = c) /\ UNCHANGED <<table, epoll>>
        \/ ~(recv[c] # "ended" \/ main.client = c) /\ Destroy(c)
    BY <1>2, <2>1 DEF ReleaseTask, Release
  <2>7. QED
    BY <2>3, <2>4, <2>5, <2>6, ReleaseKeeps
<1>3. QED
  BY <1>1, <1>2

LEMMA PopKeeps ==
  ASSUME AcceptInv, Pop
  PROVE  AcceptInv'
<1> USE AcceptAssumption
<1>1. /\ queue # <<>> /\ queue' = Tail(queue) /\ ending = NULL
      /\ loop = "pop" /\ loop' = "run" /\ task' = Head(queue) /\ ReleaseTask
      /\ UNCHANGED <<peer, backlog, main, fd, send, recv, ending, batch, failed>>
  BY DEF Pop, LoopAt
<1>2. /\ queue' \in Seq([fn : {"send", "recv"}, conn : Clients])
      /\ task' \in [fn : {"send", "recv"}, conn : Clients]
  <2>1. queue \in Seq([fn : {"send", "recv"}, conn : Clients])
    BY DEF AcceptInv, Types, LocalTypes
  <2>2. ASSUME NEW T, queue \in Seq(T) PROVE queue' \in Seq(T) /\ task' \in T
    BY <1>1, <2>2
  <2>3. QED
    BY <2>1, <2>2, Zenon
<1>3. \A c \in Clients : Has(c)' <=> Has(c)
  BY <1>1, HasPopped
<1>4. TasksInv'
  BY TasksPopped
<1>5. recv[task'.conn] # "ended"
  <2>1. 1 \in DOMAIN queue /\ queue[1] = task'
    BY <1>1, TailOf DEF AcceptInv, Types, LocalTypes
  <2>2. QED
    BY <2>1 DEF AcceptInv, TasksInv, QueueInv
<1>6. /\ OwnedInv'
      /\ table' \in [Fds -> Clients \cup {NULL}]
      /\ \A n \in Fds : table'[n] \in {NULL, table[n]}
      /\ epoll' \in [Clients -> Clients \cup {NULL}]
  BY <1>1, <1>3, <1>5, TaskReleased
<1>7. Types'
  <2>1. TypeOK'
    BY <1>1, <1>3, <1>6 DEF AcceptInv, Types, TypeOK
  <2>2. LocalTypes'
    BY <1>1, <1>2 DEF AcceptInv, Types, LocalTypes, Serving
  <2>3. QED
    BY <2>1, <2>2 DEF Types
<1>8. ClientsInv'
  <2>1. \A c \in Clients : Untouched(c) => Untouched(c)'
    BY <1>1, <1>3, <1>6 DEF Untouched
  <2>2. QED
    BY <1>1, <2>1, ClientsKept
<1>9. QED
  BY <1>4, <1>6, <1>7, <1>8 DEF AcceptInv

LEMMA EndIterationKeeps ==
  ASSUME AcceptInv, NEW from \in {"wait", "events"}, EndIteration(from), batch = {}
  PROVE  AcceptInv'
<1> USE AcceptAssumption
<1>1. /\ ending = NULL /\ loop = from /\ loop' = "pop" /\ task' = NoTask /\ ReleaseTask
      /\ UNCHANGED <<peer, backlog, main, fd, queue, send, recv, ending, batch, failed>>
  BY DEF EndIteration, LoopAt, coroVars
<1>2. NoTask.conn = NULL
  BY DEF NoTask
<1>3. \A c \in Clients : Has(c)' <=> Has(c)
  <2>1. \A c \in Clients : task.conn = c => send[c] # "none"
    BY <1>1, <1>2 DEF AcceptInv, TasksInv, HeldTask
  <2>2. QED
    BY <1>1, <1>2, <2>1 DEF Has
<1>4. /\ OwnedInv'
      /\ table' \in [Fds -> Clients \cup {NULL}]
      /\ \A n \in Fds : table'[n] \in {NULL, table[n]}
      /\ epoll' \in [Clients -> Clients \cup {NULL}]
  BY <1>1, <1>2, <1>3, TaskReleased
<1>5. Types'
  <2>1. TypeOK'
    BY <1>1, <1>3, <1>4 DEF AcceptInv, Types, TypeOK
  <2>2. LocalTypes'
    BY <1>1 DEF AcceptInv, Types, LocalTypes, Serving
  <2>3. QED
    BY <2>1, <2>2 DEF Types
<1>6. ClientsInv'
  <2>1. \A c \in Clients : Untouched(c) => Untouched(c)'
    BY <1>1, <1>3, <1>4 DEF Untouched
  <2>2. QED
    BY <1>1, <2>1, ClientsKept
<1>7. TasksInv'
  <2>1. Serving => main.client \in Clients
    BY DEF AcceptInv, Types, LocalTypes
  <2>2. Serving => (Has(main.client)' <=> Has(main.client))
    BY <1>1, <1>3, <2>1 DEF Has
  <2>3. \A i, c : SendBefore(i, c)' <=> SendBefore(i, c)
    BY <1>1 DEF SendBefore, Task
  <2>4. HeldTask'
    BY <1>1 DEF HeldTask
  <2>5. \A i \in DOMAIN queue', c \in Clients :
          Task(i, "recv", c)' => recv'[c] = "none" /\ SendBefore(i, c)'
    BY <1>1, <2>3 DEF AcceptInv, TasksInv, Task
  <2>6. Spawning' =>
          /\ recv'[main'.client] = "none" /\ SendBefore(Len(queue) + 1, main.client)'
          /\ \A i \in DOMAIN queue' : ~Task(i, "recv", main.client)'
    BY <1>1 DEF AcceptInv, TasksInv, Spawning, SendBefore, Task
  <2>7. \A i, j \in DOMAIN queue', c \in Clients :
          Task(i, "recv", c)' /\ Task(j, "recv", c)' => i = j
    BY <1>1 DEF AcceptInv, TasksInv, Task
  <2>8. SendFnFirst'
    BY <1>1 DEF AcceptInv, TasksInv, SendFnFirst
  <2>9. QueueInv'
    BY <1>1 DEF AcceptInv, TasksInv, QueueInv
  <2>10. QED
    BY <1>1, <2>2, <2>4, <2>5, <2>6, <2>7, <2>8, <2>9 DEF AcceptInv, TasksInv, Serving
<1>8. QED
  BY <1>4, <1>5, <1>6, <1>7 DEF AcceptInv

LEMMA RunSendKeeps ==
  ASSUME AcceptInv, RunSend
  PROVE  AcceptInv'
<1> USE AcceptAssumption
<1>1. /\ ending = NULL /\ loop = "run" /\ loop' = "pop" /\ task.fn = "send"
      /\ send' = [send EXCEPT ![task.conn] = "parked"]
      /\ UNCHANGED <<peer, backlog, table, main, epoll, fd, queue, recv, ending, task, batch, failed>>
  BY DEF RunSend, LoopAt
<1>2. PICK h \in Clients : h = task.conn
  BY <1>1 DEF AcceptInv, Types, LocalTypes, TasksInv, HeldTask
<1>3. send \in [Clients -> {"none", "parked", "ended"}]
  BY DEF AcceptInv, Types, LocalTypes
<1>4. \A c \in Clients : send'[c] = IF c = h THEN "parked" ELSE send[c]
  BY <1>1, <1>2, <1>3
<1>5. \A c \in Clients : Has(c)' <=> Has(c)
  BY <1>1, <1>2, <1>4 DEF Has
<1>6. Types'
  <2>1. TypeOK'
    BY <1>1, <1>5 DEF AcceptInv, Types, TypeOK
  <2>2. send' \in [Clients -> {"none", "parked", "ended"}]
    BY <1>1, <1>2, <1>3
  <2>3. LocalTypes'
    BY <1>1, <2>2 DEF AcceptInv, Types, LocalTypes, Serving
  <2>4. QED
    BY <2>1, <2>3 DEF Types
<1>7. ClientsInv'
  BY <1>1, <1>5, ClientsKept DEF Untouched
<1>8. TasksInv'
  <2>1. \A i, f, c : Task(i, f, c)' <=> Task(i, f, c)
    BY <1>1 DEF Task
  <2>2. \A i, c : c \in Clients /\ SendBefore(i, c) => SendBefore(i, c)'
    BY <1>1, <1>2, <1>4, <2>1 DEF SendBefore
  <2>3. \A i \in DOMAIN queue', c \in Clients :
          Task(i, "recv", c)' => recv'[c] = "none" /\ SendBefore(i, c)'
    BY <1>1, <2>1, <2>2 DEF AcceptInv, TasksInv
  <2>4. Serving => main.client \in Clients
    BY DEF AcceptInv, Types, LocalTypes
  <2>5. Serving => (Has(main.client)' <=> Has(main.client))
    BY <1>1, <1>5, <2>4 DEF Has
  <2>6. ASSUME Spawning
        PROVE  /\ recv'[main'.client] = "none" /\ SendBefore(Len(queue) + 1, main.client)'
               /\ \A i \in DOMAIN queue' : ~Task(i, "recv", main.client)'
    <3>1. PICK m \in Clients : m = main.client
      BY <2>4, <2>6 DEF Spawning, Serving
    <3>2. PICK l : l = Len(queue) + 1
      OBVIOUS
    <3>3. SendBefore(l, m)
      BY <2>6, <3>1, <3>2 DEF AcceptInv, TasksInv
    <3>4. SendBefore(l, m)'
      BY <2>2, <3>1, <3>3
    <3>5. SendBefore(Len(queue) + 1, main.client)'
      BY <1>1, <3>1, <3>2, <3>4 DEF SendBefore, Task
    <3>6. QED
      BY <1>1, <2>6, <3>5 DEF AcceptInv, TasksInv, Task
  <2>7. HeldTask'
    BY <1>1, <1>2, <1>4 DEF HeldTask
  <2>8. SendFnFirst'
    BY <1>1, <1>4 DEF AcceptInv, TasksInv, SendFnFirst
  <2>9. \A i, j \in DOMAIN queue', c \in Clients :
          Task(i, "recv", c)' /\ Task(j, "recv", c)' => i = j
    BY <1>1, <2>1 DEF AcceptInv, TasksInv
  <2>10. Spawning' <=> Spawning
    BY <1>1 DEF Spawning
  <2>11. QueueInv'
    BY <1>1 DEF AcceptInv, TasksInv, QueueInv
  <2>12. QED
    BY <1>1, <2>3, <2>5, <2>6, <2>7, <2>8, <2>9, <2>10, <2>11 DEF AcceptInv, TasksInv, Serving
<1>9. OwnedInv'
  <2>1. \A c \in Clients : Alive(c)' <=> Alive(c)
    BY <1>1, <1>5 DEF Alive
  <2>2. ~failed => \A c \in Clients : epoll'[c] \in {NULL, c}
    BY <1>1 DEF AcceptInv, OwnedInv
  <2>3. QED
    BY <1>1, <2>1, <2>2, OwnedKept
<1>10. QED
  BY <1>6, <1>7, <1>8, <1>9 DEF AcceptInv

LEMMA RunRecvKeeps ==
  ASSUME AcceptInv, RunRecv
  PROVE  AcceptInv'
<1> USE AcceptAssumption
<1>1. /\ ending = NULL /\ loop = "run" /\ loop' = "read" /\ task.fn = "recv"
      /\ recv' = [recv EXCEPT ![task.conn] = "reading"]
      /\ epoll' = [x \in Clients |->
                     IF x = table[fd[task.conn]] /\ epoll[x] = NULL THEN task.conn ELSE epoll[x]]
      /\ UNCHANGED <<peer, backlog, table, main, fd, queue, send, ending, task, batch, failed>>
  BY DEF RunRecv, LoopAt
<1>2. PICK h \in Clients : h = task.conn
  BY <1>1 DEF AcceptInv, Types, LocalTypes, TasksInv, HeldTask
<1>3. recv \in [Clients -> {"none", "reading", "parked", "ending", "ended"}]
  BY DEF AcceptInv, Types, LocalTypes
<1>4. /\ recv' \in [Clients -> {"none", "reading", "parked", "ending", "ended"}]
      /\ \A c \in Clients : recv'[c] = IF c = h THEN "reading" ELSE recv[c]
  BY <1>1, <1>2, <1>3
<1>5. \A c \in Clients : Has(c)' <=> Has(c)
  BY <1>1, <1>2, <1>4 DEF Has
<1>6. Types'
  <2>1. epoll' \in [Clients -> Clients \cup {NULL}]
    BY <1>1, <1>2 DEF AcceptInv, Types, TypeOK
  <2>2. TypeOK'
    BY <1>1, <1>5, <2>1 DEF AcceptInv, Types, TypeOK
  <2>3. LocalTypes'
    BY <1>1, <1>4 DEF AcceptInv, Types, LocalTypes, Serving
  <2>4. QED
    BY <2>2, <2>3 DEF Types
<1>7. ClientsInv'
  BY <1>1, <1>5, ClientsKept DEF Untouched
<1>8. /\ recv[h] = "none" /\ send[h] # "none" /\ task # NoTask
      /\ \A i \in DOMAIN queue : ~Task(i, "recv", h)
  BY <1>1, <1>2 DEF AcceptInv, TasksInv, HeldTask, Task
<1>9. TasksInv'
  <2>1. \A i, f, c : Task(i, f, c)' <=> Task(i, f, c)
    BY <1>1 DEF Task
  <2>2. \A i, c : SendBefore(i, c) => SendBefore(i, c)'
    BY <1>1, <2>1 DEF SendBefore
  <2>3. \A i \in DOMAIN queue', c \in Clients :
          Task(i, "recv", c)' => recv'[c] = "none" /\ SendBefore(i, c)'
    BY <1>1, <1>4, <1>8, <2>1, <2>2 DEF AcceptInv, TasksInv
  <2>4. Serving => main.client \in Clients
    BY DEF AcceptInv, Types, LocalTypes
  <2>5. Serving => (Has(main.client)' <=> Has(main.client))
    BY <1>1, <1>5, <2>4 DEF Has
  <2>6. ASSUME Spawning
        PROVE  /\ recv'[main'.client] = "none" /\ SendBefore(Len(queue) + 1, main.client)'
               /\ \A i \in DOMAIN queue' : ~Task(i, "recv", main.client)'
    <3>1. PICK m \in Clients : m = main.client
      BY <2>4, <2>6 DEF Spawning, Serving
    <3>2. m # h /\ recv[m] = "none"
      BY <1>1, <1>2, <2>6, <3>1 DEF AcceptInv, TasksInv
    <3>3. SendBefore(Len(queue) + 1, main.client)
      BY <2>6 DEF AcceptInv, TasksInv
    <3>4. SendBefore(Len(queue) + 1, main.client)'
      BY <1>1, <3>3 DEF SendBefore, Task
    <3>5. QED
      BY <1>1, <1>4, <2>6, <3>1, <3>2, <3>4 DEF AcceptInv, TasksInv, Task
  <2>7. HeldTask'
    BY <1>1, <1>2, <1>4, <1>8 DEF HeldTask
  <2>8. SendFnFirst'
    BY <1>1, <1>4, <1>8 DEF AcceptInv, TasksInv, SendFnFirst
  <2>9. \A i, j \in DOMAIN queue', c \in Clients :
          Task(i, "recv", c)' /\ Task(j, "recv", c)' => i = j
    BY <1>1, <2>1 DEF AcceptInv, TasksInv
  <2>10. Spawning' <=> Spawning
    BY <1>1 DEF Spawning
  <2>11. QueueInv'
    <3>1. \A i \in DOMAIN queue : queue[i].conn \in Clients
      BY QueuedClients DEF AcceptInv
    <3>2. \A i \in DOMAIN queue : queue[i].conn # h
      BY <1>1, <1>2 DEF AcceptInv, TasksInv, HeldTask
    <3>3. QED
      BY <1>1, <1>4, <3>1, <3>2 DEF AcceptInv, TasksInv, QueueInv
  <2>12. QED
    BY <1>1, <2>3, <2>5, <2>6, <2>7, <2>8, <2>9, <2>10, <2>11 DEF AcceptInv, TasksInv, Serving
<1>10. OwnedInv'
  <2>1. \A c \in Clients : Alive(c)' <=> Alive(c)
    BY <1>1, <1>4, <1>5, <1>8 DEF Alive
  <2>2. ASSUME ~failed PROVE \A c \in Clients : epoll'[c] \in {NULL, c}
    <3>1. table[fd[h]] = h
      <4>1. Alive(h)
        BY <1>2, <1>8 DEF Alive, Has
      <4>2. QED
        BY <2>2, <4>1 DEF AcceptInv, OwnedInv
    <3>2. QED
      BY <1>1, <1>2, <2>2, <3>1 DEF AcceptInv, OwnedInv
  <2>3. QED
    BY <1>1, <2>1, <2>2, OwnedKept
<1>11. QED
  BY <1>6, <1>7, <1>9, <1>10 DEF AcceptInv

(* A step of recv_fn of c that neither starts nor ends it, and leaves the   *)
(* queue and the main thread alone.                                         *)
LEMMA TasksUntouched ==
  ASSUME AcceptInv, NEW c \in Clients, recv[c] # "none",
         UNCHANGED <<main, queue, task>>, loop # "run", loop' \in {"pop", "events"},
         recv' \in [Clients -> {"none", "reading", "parked", "ending", "ended"}],
         recv'[c] # "none", send'[c] # "none",
         \A x \in Clients : x # c => recv'[x] = recv[x] /\ send'[x] = send[x],
         ending' # NULL => ending' \in Clients /\ recv'[ending'] = "ending"
  PROVE  /\ TasksInv'
         /\ \A x \in Clients : Has(x)' <=> Has(x)
<1> USE AcceptAssumption
<1>1. send[c] # "none"
  BY DEF AcceptInv, TasksInv, SendFnFirst
<1>2. \A x \in Clients : Has(x)' <=> Has(x)
  BY DEF Has
<1>3. \A i, f, x : Task(i, f, x)' <=> Task(i, f, x)
  BY DEF Task
<1>4. \A i, x : x \in Clients => (SendBefore(i, x)' <=> SendBefore(i, x))
  BY <1>1, <1>3 DEF SendBefore
<1>5. \A i \in DOMAIN queue', x \in Clients :
        Task(i, "recv", x)' => recv'[x] = "none" /\ SendBefore(i, x)'
  BY <1>3, <1>4 DEF AcceptInv, TasksInv
<1>6. \A i, j \in DOMAIN queue', x \in Clients :
        Task(i, "recv", x)' /\ Task(j, "recv", x)' => i = j
  BY <1>3 DEF AcceptInv, TasksInv
<1>7. Serving => main.client \in Clients
  BY DEF AcceptInv, Types, LocalTypes
<1>8. Serving => (Has(main.client)' <=> Has(main.client))
  BY <1>2, <1>7 DEF Has
<1>9. Spawning' =>
        /\ recv'[main'.client] = "none" /\ SendBefore(Len(queue) + 1, main.client)'
        /\ \A i \in DOMAIN queue' : ~Task(i, "recv", main.client)'
  <2>1. SUFFICES ASSUME Spawning
                 PROVE  /\ recv'[main'.client] = "none"
                        /\ SendBefore(Len(queue) + 1, main.client)'
                        /\ \A i \in DOMAIN queue' : ~Task(i, "recv", main.client)'
    BY DEF Spawning
  <2>2. /\ main.client \in Clients /\ recv[main.client] = "none"
        /\ SendBefore(Len(queue) + 1, main.client)
        /\ \A i \in DOMAIN queue : ~Task(i, "recv", main.client)
    BY <1>7, <2>1 DEF AcceptInv, TasksInv, Spawning, Serving
  <2>3. QED
    BY <2>2 DEF SendBefore, Task
<1>10. SendFnFirst'
  BY DEF AcceptInv, TasksInv, SendFnFirst
<1>11. HeldTask'
  <2>1. SUFFICES ASSUME task # NoTask PROVE send'[task.conn] # "none"
    BY DEF HeldTask
  <2>2. task.conn \in Clients /\ send[task.conn] # "none"
    BY <2>1 DEF AcceptInv, Types, LocalTypes, TasksInv, HeldTask
  <2>3. QED
    BY <2>2
<1>12. QueueInv'
  <2>1. \A i \in DOMAIN queue : queue[i].conn \in Clients
    BY QueuedClients DEF AcceptInv
  <2>2. \A i \in DOMAIN queue : queue[i].conn # c
    BY DEF AcceptInv, TasksInv, QueueInv
  <2>3. QED
    BY <2>1, <2>2 DEF AcceptInv, TasksInv, QueueInv
<1>13. QED
  BY <1>2, <1>5, <1>6, <1>8, <1>9, <1>10, <1>11, <1>12 DEF AcceptInv, TasksInv, Serving

LEMMA ReadEndsKeeps ==
  ASSUME AcceptInv, NEW c \in Clients, recv[c] \in {"reading", "parked"}, ReadEnds(c),
         UNCHANGED <<peer, backlog, main, task, failed>>,
         loop # "run", loop' \in {"pop", "events"},
         batch' \in SUBSET batch, batch' # {} => loop' = "events"
  PROVE  AcceptInv'
<1> USE AcceptAssumption
<1>1. /\ recv' = [recv EXCEPT ![c] = "ending"] /\ send' = [send EXCEPT ![c] = "ended"]
      /\ ending' = c
      /\ epoll' = [x \in Clients |-> IF x = table[fd[c]] THEN NULL ELSE epoll[x]]
      /\ UNCHANGED <<table, fd, queue>>
  BY DEF ReadEnds, SocketClose
<1>2. /\ recv' \in [Clients -> {"none", "reading", "parked", "ending", "ended"}]
      /\ send' \in [Clients -> {"none", "parked", "ended"}]
      /\ recv'[c] = "ending" /\ send'[c] = "ended"
      /\ \A x \in Clients : x # c => recv'[x] = recv[x] /\ send'[x] = send[x]
      /\ epoll' \in [Clients -> Clients \cup {NULL}]
      /\ \A x \in Clients : epoll'[x] \in {NULL, epoll[x]}
  BY <1>1 DEF AcceptInv, Types, TypeOK, LocalTypes
<1>3. /\ TasksInv'
      /\ \A x \in Clients : Has(x)' <=> Has(x)
  BY <1>1, <1>2, TasksUntouched
<1>4. Types'
  BY <1>1, <1>2, <1>3 DEF AcceptInv, Types, TypeOK, LocalTypes, Serving
<1>5. ClientsInv'
  BY <1>1, <1>3, ClientsKept DEF Untouched
<1>6. OwnedInv'
  <2>1. \A x \in Clients : Alive(x)' <=> Alive(x)
    BY <1>1, <1>2, <1>3 DEF Alive
  <2>2. ~failed => \A x \in Clients : epoll'[x] \in {NULL, x}
    BY <1>2 DEF AcceptInv, OwnedInv
  <2>3. QED
    BY <1>1, <2>1, <2>2, OwnedKept
<1>7. QED
  BY <1>3, <1>4, <1>5, <1>6 DEF AcceptInv

LEMMA FirstReadKeeps ==
  ASSUME AcceptInv, FirstRead
  PROVE  AcceptInv'
<1> USE AcceptAssumption
<1>0. /\ ending = NULL /\ loop = "read" /\ loop' = "pop" /\ batch' = batch
      /\ UNCHANGED <<peer, backlog, main, task, failed>>
  BY DEF FirstRead, LoopAt
<1>1. PICK c \in Clients : c = task.conn /\ recv[c] = "reading"
  BY <1>0 DEF AcceptInv, Types, LocalTypes, TasksInv, HeldTask
<1>2. batch = {}
  BY <1>0 DEF AcceptInv, Types, TypeOK
<1>3. CASE ReadEnds(c)
  BY <1>0, <1>1, <1>2, <1>3, ReadEndsKeeps
<1>4. CASE ~ReadEnds(c)
  <2>1. /\ recv' = [recv EXCEPT ![c] = "parked"]
        /\ UNCHANGED <<table, epoll, fd, queue, send, ending>>
    BY <1>1, <1>4 DEF FirstRead
  <2>2. /\ recv' \in [Clients -> {"none", "reading", "parked", "ending", "ended"}]
        /\ recv'[c] = "parked" /\ \A x \in Clients : x # c => recv'[x] = recv[x]
    BY <2>1 DEF AcceptInv, Types, LocalTypes
  <2>3. send[c] # "none"
    BY <1>1 DEF AcceptInv, TasksInv, SendFnFirst
  <2>4. /\ TasksInv'
        /\ \A x \in Clients : Has(x)' <=> Has(x)
    BY <1>0, <1>1, <2>1, <2>2, <2>3, TasksUntouched
  <2>5. Types'
    BY <1>0, <1>2, <2>1, <2>2, <2>4 DEF AcceptInv, Types, TypeOK, LocalTypes, Serving
  <2>6. ClientsInv'
    BY <1>0, <2>1, <2>4, ClientsKept DEF Untouched
  <2>7. OwnedInv'
    <3>1. \A x \in Clients : Alive(x)' <=> Alive(x)
      BY <1>0, <1>1, <2>1, <2>2, <2>4 DEF Alive
    <3>2. ~failed => \A x \in Clients : epoll'[x] \in {NULL, x}
      BY <2>1 DEF AcceptInv, OwnedInv
    <3>3. QED
      BY <1>0, <2>1, <3>1, <3>2, OwnedKept
  <2>8. QED
    BY <2>4, <2>5, <2>6, <2>7 DEF AcceptInv
<1>5. QED
  BY <1>3, <1>4

(* A step of the loop that touches neither coroutines nor descriptors. *)
LEMMA LoopMoves ==
  ASSUME AcceptInv, ending = NULL, loop \notin {"run", "read"},
         loop' \in {"pop", "arm", "wait", "events"},
         UNCHANGED <<peer, backlog, table, main, fd, queue, send, recv, ending, task, failed>>,
         epoll' \in [Clients -> Clients \cup {NULL}],
         \A x \in Clients : epoll'[x] \in {NULL, epoll[x]},
         \A e \in batch' : e = DummyEvent \/ e.conn \in Clients,
         batch' # {} => loop' = "events"
  PROVE  AcceptInv'
<1> USE AcceptAssumption
<1>1. \A c : (Has(c)' <=> Has(c)) /\ (Alive(c)' <=> Alive(c))
  BY DEF Has, Alive
<1>2. Types'
  BY <1>1 DEF AcceptInv, Types, TypeOK, LocalTypes, Serving
<1>3. ClientsInv'
  BY <1>1, ClientsKept DEF Untouched
<1>4. TasksInv'
  BY DEF AcceptInv, TasksInv, Task, SendBefore, Has, Spawning, SendFnFirst, HeldTask, QueueInv
<1>5. OwnedInv'
  <2>1. ~failed => \A x \in Clients : epoll'[x] \in {NULL, x}
    BY DEF AcceptInv, OwnedInv
  <2>2. QED
    BY <1>1, <2>1, OwnedKept
<1>6. QED
  BY <1>2, <1>3, <1>4, <1>5 DEF AcceptInv

LEMMA WaitKeeps ==
  ASSUME AcceptInv, Wait
  PROVE  AcceptInv'
<1>1. \A e \in Ready : e = DummyEvent \/ e.conn \in Clients
  <2>1. ASSUME NEW s \in Clients, epoll[s] # NULL PROVE epoll[s] \in Clients
    BY <2>1 DEF AcceptInv, Types, TypeOK
  <2>2. QED
    BY <2>1 DEF Ready
<1>2. epoll \in [Clients -> Clients \cup {NULL}]
  BY DEF AcceptInv, Types, TypeOK
<1>3. QED
  BY <1>1, <1>2, LoopMoves DEF Wait, LoopAt, coroVars

LEMMA PopEmptyKeeps ==
  ASSUME AcceptInv, PopEmpty \/ Arm \/ EventDummy
  PROVE  AcceptInv'
<1>1. /\ epoll \in [Clients -> Clients \cup {NULL}]
      /\ \A e \in batch : e = DummyEvent \/ e.conn \in Clients
      /\ batch # {} => loop = "events"
  BY DEF AcceptInv, Types, TypeOK, LocalTypes
<1>2. QED
  BY <1>1, LoopMoves DEF PopEmpty, Arm, EventDummy, LoopAt, coroVars

LEMMA EventInKeeps ==
  ASSUME AcceptInv, NEW e \in batch, EventIn(e)
  PROVE  AcceptInv'
<1>1. /\ ending = NULL /\ loop = "events" /\ loop' = "events" /\ batch' = batch \ {e}
      /\ e.conn \in Clients
      /\ UNCHANGED <<peer, backlog, main, task, failed>>
  BY DEF EventIn, LoopAt, AcceptInv, Types, LocalTypes
<1>2. CASE recv[e.conn] = "parked" /\ ReadEnds(e.conn)
  <2>1. batch' \in SUBSET batch
    BY <1>1
  <2>2. QED
    BY <1>1, <1>2, <2>1, ReadEndsKeeps
<1>3. CASE UNCHANGED <<table, epoll, coroVars>>
  <2>1. /\ epoll \in [Clients -> Clients \cup {NULL}]
        /\ \A x \in batch : x = DummyEvent \/ x.conn \in Clients
    BY DEF AcceptInv, Types, TypeOK, LocalTypes
  <2>2. QED
    BY <1>1, <1>3, <2>1, LoopMoves DEF coroVars
<1>4. QED
  BY <1>2, <1>3 DEF EventIn

LEMMA EventHupKeeps ==
  ASSUME AcceptInv, NEW e \in batch, EventHup(e)
  PROVE  AcceptInv'
<1>1. /\ epoll' \in [Clients -> Clients \cup {NULL}]
      /\ \A x \in Clients : epoll'[x] \in {NULL, epoll[x]}
      /\ UNCHANGED table
  BY DEF EventHup, SocketClose, AcceptInv, Types, TypeOK
<1>2. \A x \in batch : x = DummyEvent \/ x.conn \in Clients
  BY DEF AcceptInv, Types, LocalTypes
<1>3. QED
  BY <1>1, <1>2, LoopMoves DEF EventHup, LoopAt, coroVars

LEMMA RecvReturnsKeeps ==
  ASSUME AcceptInv, RecvReturns
  PROVE  AcceptInv'
<1> USE AcceptAssumption
<1>1. PICK e \in Clients : e = ending
  BY DEF RecvReturns, AcceptInv, Types, LocalTypes
<1>2. /\ recv[e] = "ending" /\ recv' = [recv EXCEPT ![e] = "ended"] /\ ending' = NULL
      /\ loop \in {"pop", "events"}
      /\ UNCHANGED <<peer, backlog, main, fd, queue, send, loop, task, batch, failed>>
  BY <1>1 DEF RecvReturns, AcceptInv, TasksInv, loopVars
<1>3. \/ (main.client = e \/ task.conn = e) /\ UNCHANGED <<table, epoll>>
      \/ ~(main.client = e \/ task.conn = e) /\ Destroy(e)
  BY <1>1 DEF RecvReturns, Release
<1>4. /\ recv' \in [Clients -> {"none", "reading", "parked", "ending", "ended"}]
      /\ recv'[e] = "ended" /\ \A x \in Clients : x # e => recv'[x] = recv[x]
  BY <1>2 DEF AcceptInv, Types, LocalTypes
<1>5. send[e] # "none"
  BY <1>2 DEF AcceptInv, TasksInv, SendFnFirst
<1>6. /\ TasksInv'
      /\ \A x \in Clients : Has(x)' <=> Has(x)
  BY <1>2, <1>4, <1>5, TasksUntouched
<1>7. /\ Alive(e) /\ (Alive(e)' <=> main.client = e \/ task.conn = e)
      /\ \A x \in Clients : x # e => (Alive(x)' <=> Alive(x))
  BY <1>2, <1>4, <1>5, <1>6 DEF Alive, Has
<1>8. /\ OwnedInv'
      /\ table' \in [Fds -> Clients \cup {NULL}]
      /\ \A n \in Fds : table'[n] \in {NULL, table[n]}
      /\ epoll' \in [Clients -> Clients \cup {NULL}]
  BY <1>2, <1>3, <1>7, ReleaseKeeps
<1>9. Types'
  <2>1. TypeOK'
    BY <1>2, <1>6, <1>8 DEF AcceptInv, Types, TypeOK
  <2>2. LocalTypes'
    BY <1>2, <1>4 DEF AcceptInv, Types, LocalTypes, Serving
  <2>3. QED
    BY <2>1, <2>2 DEF Types
<1>10. ClientsInv'
  <2>1. \A c \in Clients : Untouched(c) => Untouched(c)'
    BY <1>2, <1>6, <1>8 DEF Untouched
  <2>2. QED
    BY <1>2, <2>1, ClientsKept
<1>11. QED
  BY <1>6, <1>8, <1>9, <1>10 DEF AcceptInv

-----------------------------------------------------------------------------
(* The inductive invariant, and the properties *)

LEMMA AcceptInit ==
  ASSUME Init
  PROVE  AcceptInv
<1> USE AcceptAssumption
<1>1. \A c \in Clients : Untouched(c)
  BY DEF Init, Untouched, Has, Idle, NoTask
<1>2. TypeOK
  <2>1. failed \in BOOLEAN
    BY DEF Init
  <2>2. \A c \in Clients : ~Has(c)
    BY <1>1 DEF Untouched
  <2>3. QED
    BY <2>1, <2>2 DEF Init, TypeOK, Idle
<1>3. LocalTypes
  BY DEF Init, LocalTypes, Idle, Serving
<1>4. ClientsInv
  BY <1>1 DEF Init, ClientsInv
<1>5. TasksInv
  BY DEF Init, TasksInv, Task, SendBefore, Spawning, SendFnFirst, HeldTask, QueueInv, Idle
<1>6. OwnedInv
  BY DEF Init, OwnedInv, Has, Alive, Serving, Spawning, Idle, NoTask
<1>7. QED
  BY <1>2, <1>3, <1>4, <1>5, <1>6 DEF AcceptInv, Types

LEMMA AcceptStep ==
  ASSUME AcceptInv, [Next]_vars
  PROVE  AcceptInv'
<1>1. CASE MainStep
  BY <1>1, ListenKeeps, AcceptClientKeeps, SetOptionKeeps, OptionFailsKeeps, SpawnKeeps,
     DropKeeps DEF MainStep
<1>2. CASE LoopStep \/ WaitError
  <2>1. batch # {} => loop = "events"
    BY DEF AcceptInv, Types, TypeOK
  <2>2. CASE WaitTimeout \/ WaitError \/ EventsDone
    <3>1. PICK from \in {"wait", "events"} : EndIteration(from) /\ batch = {}
      BY <2>1, <2>2 DEF WaitTimeout, WaitError, EventsDone, EndIteration, LoopAt
    <3>2. QED
      BY <3>1, EndIterationKeeps
  <2>3. QED
    BY <1>2, <2>2, PopKeeps, RunSendKeeps, RunRecvKeeps, RecvReturnsKeeps, FirstReadKeeps,
       EventInKeeps, EventHupKeeps, WaitKeeps, PopEmptyKeeps DEF LoopStep
<1>3. ASSUME NEW c \in Clients, Connect(c) \/ Leave(c) PROVE AcceptInv'
  BY <1>3, ConnectKeeps, LeaveKeeps
<1>4. CASE UNCHANGED vars
  BY <1>4 DEF vars, execVars, coroVars, loopVars, AcceptInv, Types, TypeOK, LocalTypes, ClientsInv, Untouched,
     TasksInv, OwnedInv, Task, SendBefore, Has, Alive, Serving, Spawning, SendFnFirst, HeldTask, QueueInv
<1>5. QED
  BY <1>1, <1>2, <1>3, <1>4 DEF Next

LEMMA AcceptAlways == Spec => []AcceptInv
<1>1. Init => AcceptInv
  BY AcceptInit
<1>2. AcceptInv /\ [Next]_vars => AcceptInv'
  BY AcceptStep
<1>3. QED
  BY <1>1, <1>2, PTL DEF Spec

(* The state of the accept loop, of the descriptor table and of epoll keeps *)
(* its type, and a Connection that exists has a descriptor.                 *)
THEOREM TypeCorrect == Spec => []TypeOK
<1>1. AcceptInv => TypeOK
  BY DEF AcceptInv, Types
<1>2. QED
  BY <1>1, AcceptAlways, PTL

(* recv_fn never runs before send_fn has started, although start spawns     *)
(* them one by one and the executor runs between the two spawns: the queue  *)
(* holds the reading task of a Connection only behind its writing task.     *)
THEOREM SendFirst == Spec => []SendFnFirst
<1>1. AcceptInv => SendFnFirst
  BY DEF AcceptInv, TasksInv
<1>2. QED
  BY <1>1, AcceptAlways, PTL

(* Until an option fails, the number of a live Connection refers to its own *)
(* client, that client's events reach it, and no number stays in use after  *)
(* ~Socket, although the kernel reuses numbers at once and either thread    *)
(* may drop the last reference to the Connection.                           *)
THEOREM DescriptorsBelong == Spec => []DescriptorsOwned
<1>1. AcceptInv => DescriptorsOwned
  BY DEF AcceptInv, OwnedInv, DescriptorsOwned
<1>2. QED
  BY <1>1, AcceptAlways, PTL
=============================================================================
