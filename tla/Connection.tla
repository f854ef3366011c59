----------------------------- MODULE Connection -----------------------------
(***************************************************************************)
(* One net::Connection on the thread of its executor: the socket, its      *)
(* edge-triggered epoll registration, the executor's dispatch of events    *)
(* (scheduler/epoll_executor.cpp), async_read and async_write              *)
(* (net/connection.cpp), the awaiters (scheduler/awaitable.cpp) and the    *)
(* send_fn coroutine, which the server and the client share word for word. *)
(* What recv_fn does with a frame is added by the modules that extend this *)
(* one.                                                                    *)
(*                                                                         *)
(* Bytes are abstracted to parts: a frame is four parts (header length,    *)
(* header, body length, body), which is all that recv_fn waits for.  An    *)
(* arrival that completes no part changes nothing; a body of no bytes is   *)
(* one that arrives with its length.                                       *)
(***************************************************************************)
EXTENDS Integers, Sequences, FiniteSetsExt

CONSTANTS
  MaxParts,    \* bound: parts the peer sends
  SendRoom,    \* parts the socket's send buffer holds
  OwnedByFrames   \* the two coroutines own the connection (server), or the
                  \* channel does (client)

ASSUME ConnectionAssumption ==
  MaxParts \in Nat /\ SendRoom \in Nat \ {0} /\ OwnedByFrames \in BOOLEAN

VARIABLES
  peer,        \* "open", "fin" (it has shut down its side), "reset"
  arrived,     \* parts the kernel holds for read
  room,        \* free parts of the send buffer
  interest,    \* what epoll watches for this socket: "none", "in", "inout"
  edge,        \* the socket is on epoll's ready list
  closed,      \* closed_ of the socket
  read_buf,    \* parts in read_buf_
  drained,     \* read() took the last byte of read_buf_, and with it its last block
  write_buf,   \* parts in write_buf_, numbered in the order they were written
  recv, send,  \* the two coroutines
  at,          \* where the thread is
  ret,         \* where it goes on when send_fn suspends or ends
  need_write, written,   \* locals of async_write
  should_suspend,        \* of ReadAwaiter
  stage,       \* the part recv_fn waits for: 1 header length .. 4 body
  fault,       \* how the program has left defined behaviour, if it has
  inbound,     \* history: parts the peer has sent
  outbound,    \* history: parts written to write_buf_
  wire,        \* history: parts handed to the kernel, in order
  retried      \* history: a writev followed a short one in the same async_write

netVars   == <<peer, arrived, room, inbound>>
pollVars  == <<interest, edge>>
writeVars == <<write_buf, need_write, written, outbound, wire, retried>>
coVars    == <<recv, send, at, ret>>
recvVars  == <<read_buf, drained, should_suspend, stage>>
connVars  == <<netVars, pollVars, closed, writeVars, coVars, recvVars, fault>>

Live      == {"wait", "blocked", "suspended"}   \* suspended, hence resumable
Prefix(s, n) == SubSeq(s, 1, n)
Running   == fault = "none"

-----------------------------------------------------------------------------
(* The kernel: what read, writev and epoll see.  External to the code. *)

InReady  == arrived > 0 \/ peer # "open"
OutReady == room > 0 \/ closed \/ peer = "reset"
HupReady == peer = "reset" \/ (peer = "fin" /\ closed)

(* The events epoll would report for interest i; a hangup is always reported. *)
Mask(i) ==
  {e \in {"in", "out", "hup"} :
     /\ i # "none"
     /\ e = "in" => InReady
     /\ e = "out" => i = "inout" /\ OutReady
     /\ e = "hup" => HupReady}

(* EPOLL_CTL_ADD and MOD look at the socket at once. *)
Watch(i) == interest' = i /\ edge' = (edge \/ Mask(i) # {})

Unwatch == interest' = "none" /\ edge' = FALSE

Wake == edge' = (edge \/ interest # "none")

InitConnection ==
  /\ peer = "open" /\ arrived = 0 /\ room = SendRoom /\ inbound = 0
  /\ interest = "none" /\ edge = FALSE
  /\ closed = FALSE
  /\ read_buf = 0 /\ drained = FALSE /\ write_buf = <<>>
  /\ recv = "unstarted" /\ send = "unstarted" /\ at = "idle" /\ ret = "idle"
  /\ need_write = 0 /\ written = 0 /\ should_suspend = FALSE /\ stage = 1
  /\ fault = "none"
  /\ outbound = 0 /\ wire = <<>> /\ retried = FALSE

PeerSend ==
  /\ peer = "open" /\ inbound < MaxParts
  /\ arrived' = arrived + 1 /\ inbound' = inbound + 1
  /\ Wake
  /\ UNCHANGED <<peer, room, interest, closed, recvVars, writeVars, coVars, fault>>

PeerFin ==
  /\ peer = "open" /\ peer' = "fin"
  /\ Wake
  /\ UNCHANGED <<arrived, room, inbound, interest, closed, recvVars, writeVars, coVars, fault>>

PeerReset ==
  /\ peer # "reset" /\ peer' = "reset"
  /\ Wake
  /\ UNCHANGED <<arrived, room, inbound, interest, closed, recvVars, writeVars, coVars, fault>>

(* The peer's side acknowledges data: there is room to write again. *)
PeerDrain ==
  /\ peer # "reset" /\ room < SendRoom
  /\ room' = room + 1
  /\ edge' = (edge \/ interest = "inout")
  /\ UNCHANGED <<peer, arrived, inbound, interest, closed, recvVars, writeVars, coVars, fault>>

-----------------------------------------------------------------------------
(* Resuming the coroutines *)

(* Connection::resume_write: the handle is used whether or not send_fn is   *)
(* still there.  From "wait" it goes on to async_write, from "blocked" to   *)
(* the loop condition.                                                      *)
ResumeWrite(back) ==
  IF send \in Live
  THEN /\ at' = IF send = "wait" THEN "write" ELSE "sendloop"
       /\ send' = "running" /\ ret' = back
       /\ UNCHANGED <<recv, fault>>
  ELSE /\ fault' = "dangling"
       /\ UNCHANGED coVars

ResumeRead ==
  IF recv \in Live
  THEN /\ at' = "recv"
       /\ recv' = "running"
       /\ UNCHANGED <<send, ret, fault>>
  ELSE /\ fault' = "dangling"
       /\ UNCHANGED coVars

-----------------------------------------------------------------------------
(* The executor's dispatch of one event of this connection *)

Reported == IF edge /\ at = "idle" /\ Running THEN Mask(interest) ELSE {}

(* EPOLLHUP: the socket is closed and unwatched; no coroutine is resumed. *)
EventHup ==
  /\ "hup" \in Reported
  /\ closed' = TRUE
  /\ Unwatch
  /\ UNCHANGED <<netVars, recvVars, writeVars, coVars, fault>>

(* Mutant of EventOut: writability is no longer watched, and send_fn is not resumed. *)
EventOutForgets ==
  /\ "out" \in Reported /\ "hup" \notin Reported
  /\ interest' = "in" /\ edge' = InReady
  /\ UNCHANGED <<netVars, closed, recvVars, writeVars, coVars, fault>>

(* EPOLLOUT: back to EPOLLIN alone (a MOD, which looks at the socket), then *)
(* resume_write, then resume_read if EPOLLIN was reported too.              *)
EventOut ==
  /\ "out" \in Reported /\ "hup" \notin Reported
  /\ interest' = "in" /\ edge' = InReady
  /\ ResumeWrite(IF "in" \in Reported THEN "in" ELSE "idle")
  /\ UNCHANGED <<netVars, closed, recvVars, writeVars>>

EventIn ==
  /\ Reported = {"in"}
  /\ edge' = FALSE
  /\ ResumeRead
  /\ UNCHANGED <<netVars, interest, closed, recvVars, writeVars>>

(* The second half of an event that reported both. *)
EventInAfterOut ==
  /\ at = "in" /\ Running
  /\ ResumeRead
  /\ UNCHANGED <<netVars, pollVars, closed, recvVars, writeVars>>

-----------------------------------------------------------------------------
(* send_fn *)

(* The first spawned task: send_fn runs up to WaitWriteAwaiter. *)
StartSend ==
  /\ at = "idle" /\ send = "unstarted"
  /\ send' = "running" /\ at' = "sendloop" /\ ret' = "idle"
  /\ UNCHANGED <<netVars, pollVars, closed, recvVars, writeVars, recv, fault>>

(* async_write, entry *)
WriteBegin ==
  /\ at = "write" /\ Running /\ at' = "writev"
  /\ need_write' = Len(write_buf) /\ written' = 0
  /\ UNCHANGED <<netVars, pollVars, closed, recvVars, write_buf, outbound, wire, retried,
                 recv, send, ret, fault>>

CanWrite == ~closed /\ peer # "reset"

(* One writev.  The iovecs start at the first part not yet committed, that  *)
(* is at the same part every time round the loop.                           *)
Writev ==
  LET n == Min({room, Len(write_buf)}) IN
  /\ at = "writev" /\ Running
  /\ written < need_write /\ CanWrite /\ room > 0
  /\ wire' = wire \o Prefix(write_buf, n)
  /\ room' = room - n
  /\ written' = written + n
  /\ retried' = (retried \/ written > 0)
  /\ UNCHANGED <<peer, arrived, inbound, pollVars, closed, recvVars, write_buf, need_write,
                 outbound, coVars, fault>>

(* Everything written, or EAGAIN, or an error: the loop of writev ends. *)
WriteLoopEnds ==
  /\ at = "writev" /\ Running
  /\ written >= need_write \/ room = 0 \/ ~CanWrite

(* Mutant of CommitSend: the part at the boundary stays in the buffer. *)
CommitSendShort ==
  /\ written <= Len(write_buf)
  /\ write_buf' = IF written = 0 THEN write_buf
                  ELSE SubSeq(write_buf, written, Len(write_buf))

(* commit_send(written). *)
CommitSend ==
  /\ written <= Len(write_buf)
  /\ write_buf' = SubSeq(write_buf, written + 1, Len(write_buf))

(* Mutant of WatchWrite: the registration for EPOLLOUT is forgotten. *)
WatchWriteSkipped == UNCHANGED pollVars

(* add_event(WRITE): a MOD, which fails if the socket is not registered. *)
WatchWrite ==
  IF interest = "none" THEN UNCHANGED pollVars ELSE Watch("inout")

(* The end of async_write with something left: WriteAwaiter suspends. *)
WriteSuspend ==
  /\ WriteLoopEnds
  /\ ~closed /\ written < need_write
  /\ CommitSend
  /\ send' = "blocked" /\ at' = ret
  /\ WatchWrite
  /\ UNCHANGED <<netVars, closed, recvVars, need_write, written, outbound, wire, retried,
                 recv, ret, fault>>

(* The end of async_write otherwise: send_fn goes on. *)
WriteDone ==
  /\ WriteLoopEnds
  /\ closed \/ written >= need_write
  /\ CommitSend
  /\ at' = "sendloop"
  /\ UNCHANGED <<netVars, pollVars, closed, recvVars, need_write, written, outbound, wire,
                 retried, recv, send, ret, fault>>

(* written > size: total_size_ wraps round and commit_send never ends. *)
WriteOvershoot ==
  /\ WriteLoopEnds
  /\ written > Len(write_buf)
  /\ fault' = "hang"
  /\ UNCHANGED <<netVars, pollVars, closed, recvVars, writeVars, coVars>>

(* A write to a reset connection raises SIGPIPE, which nobody handles. *)
WriteKilled ==
  /\ at = "writev" /\ written < need_write /\ ~CanWrite /\ Running
  /\ fault' = "killed"
  /\ UNCHANGED <<netVars, pollVars, closed, recvVars, writeVars, coVars>>

(* Mutant of SendGoesOn: send_fn does not notice that the connection closed. *)
SendGoesOnForever == TRUE

(* The loop condition of send_fn. *)
SendGoesOn == ~closed

(* The end of a coroutine that leaves the connection to nobody destroys it, *)
(* and its descriptor leaves epoll.                                         *)
Destroys(other) == OwnedByFrames /\ other = "done"

(* while (!closed()) *)
SendLoop ==
  /\ at = "sendloop" /\ Running
  /\ \/ /\ SendGoesOn
        /\ at' = "waitwrite"
        /\ UNCHANGED <<send, pollVars>>
     \/ /\ ~SendGoesOn
        /\ send' = "done" /\ at' = ret
        /\ IF Destroys(recv) THEN Unwatch ELSE UNCHANGED pollVars
  /\ UNCHANGED <<netVars, closed, recvVars, writeVars, recv, ret, fault>>

(* WaitWriteAwaiter *)
WaitWrite ==
  /\ at = "waitwrite" /\ Running
  /\ IF closed \/ write_buf # <<>>
     THEN at' = "write" /\ UNCHANGED send
     ELSE send' = "wait" /\ at' = ret
  /\ UNCHANGED <<netVars, pollVars, closed, recvVars, writeVars, recv, ret, fault>>

-----------------------------------------------------------------------------
(* recv_fn: async_read, ReadAwaiter and what both recv_fn have in common *)

(* The second spawned task: RegisterReadAwaiter, and on into the loop. *)
StartRecv ==
  /\ at = "idle" /\ send # "unstarted" /\ recv = "unstarted" /\ Running
  /\ recv' = "running" /\ at' = "recv"
  /\ Watch("in")
  /\ UNCHANGED <<netVars, closed, recvVars, writeVars, send, ret, fault>>

(* The loop of read: n parts, and the end of the stream or an error if the  *)
(* peer is gone and everything was read (a full block hides the end until   *)
(* the next call).                                                          *)
ReadOutcome(n, eof) ==
  /\ n > 0 \/ arrived = 0
  /\ eof => peer # "open" /\ n = arrived
  /\ n = 0 => (eof <=> peer # "open")

(* Mutant of ReadSuspends: suspends whatever was read. *)
ReadSuspendsAlways(n) == ~closed'

(* should_suspend: nothing read. *)
ReadSuspends(n) == ~closed' /\ n <= 0

AsyncRead ==
  /\ \E n \in 0 .. arrived, eof \in BOOLEAN :
       /\ ReadOutcome(n, eof)
       /\ arrived' = arrived - n
       /\ read_buf' = read_buf + n
       /\ closed' = (closed \/ eof)
       /\ IF eof THEN Wake ELSE UNCHANGED edge
       /\ should_suspend' = ReadSuspends(n)
  /\ IF closed'
     THEN ResumeWrite("await")
     ELSE at' = "await" /\ UNCHANGED <<recv, send, ret, fault>>
  /\ UNCHANGED <<peer, room, inbound, interest, writeVars, drained, stage>>

(* ReadAwaiter: a closed connection is unwatched ... *)
ReadAwait ==
  /\ at = "await" /\ Running
  /\ at' = "park"
  /\ IF closed THEN Unwatch ELSE UNCHANGED pollVars
  /\ UNCHANGED <<netVars, closed, recvVars, writeVars, recv, send, ret, fault>>

(* Mutant of ReadParks: recv_fn suspends without another look at closed(). *)
ReadParksUnlooked == should_suspend \/ closed

(* recv_fn suspends. *)
ReadParks == ~closed /\ should_suspend

(* ... and recv_fn goes on; otherwise it suspends if it should. *)
ReadPark ==
  /\ at = "park" /\ Running
  /\ IF ReadParks
     THEN recv' = "suspended" /\ at' = "idle"
     ELSE at' = "recv" /\ UNCHANGED recv
  /\ UNCHANGED <<netVars, pollVars, closed, recvVars, writeVars, send, ret, fault>>

(* recv_fn may wait for the part it needs, and does. *)
AwaitPart(may) ==
  /\ at = "recv" /\ Running
  /\ read_buf = 0 /\ may /\ ~drained
  /\ AsyncRead

(* ChainedBuffer::read, with which a length is taken, removes the block it  *)
(* empties: no byte of the next part is there yet, or the body has none.    *)
MayDrain ==
  {d \in BOOLEAN : d => (stage = 1 /\ read_buf' = 0) \/ (stage = 3 /\ read_buf' <= 1)}

TakePart ==
  /\ at = "recv" /\ Running /\ ~drained
  /\ read_buf > 0 /\ read_buf' = read_buf - 1
  /\ drained' \in MayDrain
  /\ UNCHANGED should_suspend

(* write_view or input_next on the buffer without blocks. *)
NullBuffer(may) ==
  /\ at = "recv" /\ Running /\ drained
  /\ read_buf > 0 \/ may
  /\ fault' = "null"
  /\ UNCHANGED <<netVars, pollVars, closed, recvVars, writeVars, coVars>>

(* A length or a header is taken and recv_fn goes on to the next part. *)
NextPart ==
  /\ TakePart
  /\ stage' = stage + 1
  /\ UNCHANGED <<netVars, pollVars, closed, writeVars, coVars, fault>>

(* Mutant of RecvEnd: recv_fn ends and leaves the connection open. *)
RecvEndLeavesOpen ==
  /\ recv' = "done" /\ at' = "idle"
  /\ UNCHANGED <<netVars, pollVars, closed, writeVars, send, ret, fault, stage>>

(* break, close() if still open, and the end of recv_fn. *)
RecvEnd ==
  /\ recv' = "done" /\ at' = "idle"
  /\ closed' = TRUE
  /\ IF Destroys(send) THEN Unwatch
     ELSE IF closed THEN UNCHANGED pollVars ELSE Wake /\ UNCHANGED interest
  /\ UNCHANGED <<netVars, writeVars, send, ret, fault, stage>>

(* Closed, and the part will not come. *)
GiveUp(may) ==
  /\ at = "recv" /\ Running
  /\ read_buf = 0 /\ ~may
  /\ RecvEnd
  /\ UNCHANGED <<read_buf, drained, should_suspend>>

-----------------------------------------------------------------------------
(* The steps that server and client have in common, and what the peer does. *)
ConnectionStep ==
  \/ EventHup \/ EventOut \/ EventIn \/ EventInAfterOut
  \/ StartSend \/ WriteBegin \/ Writev \/ WriteSuspend \/ WriteDone \/ WriteOvershoot
  \/ WriteKilled \/ SendLoop \/ WaitWrite \/ StartRecv \/ ReadAwait \/ ReadPark

PeerStep == PeerFin \/ PeerReset \/ PeerDrain

-----------------------------------------------------------------------------
(* Properties *)

InSend == {"sendloop", "waitwrite", "write", "writev"}

(* A coroutine runs exactly while the thread is in its code; recv_fn also   *)
(* runs while send_fn, which it has resumed, does.                          *)
OneThread ==
  /\ send = "running" <=> at \in InSend
  /\ recv = "running" <=> \/ at \in {"recv", "await", "park"}
                          \/ at \in InSend /\ ret \in {"recv", "await"}

ConnectionTypes ==
  /\ peer \in {"open", "fin", "reset"}
  /\ arrived \in Nat /\ read_buf \in Nat /\ inbound \in 0 .. MaxParts
  /\ room \in 0 .. SendRoom
  /\ interest \in {"none", "in", "inout"} /\ edge \in BOOLEAN
  /\ closed \in BOOLEAN /\ retried \in BOOLEAN /\ drained \in BOOLEAN
  /\ write_buf \in Seq(Nat) /\ wire \in Seq(Nat) /\ outbound \in Nat
  /\ recv \in {"unstarted", "running", "suspended", "done"}
  /\ send \in {"unstarted", "running", "wait", "blocked", "done"}
  /\ at \in {"idle", "in", "recv", "await", "park"} \cup InSend
  /\ ret \in {"idle", "in", "recv", "await"}
  /\ need_write \in Nat /\ written \in Nat
  /\ should_suspend \in BOOLEAN /\ stage \in 1 .. 4
  /\ fault \in {"none", "dangling", "hang", "killed", "desync", "null"}
  /\ OneThread

(* Edge-triggered reading misses nothing: while recv_fn is suspended on an  *)
(* open connection, anything the kernel holds for it has epoll's attention. *)
(* async_read stops before EAGAIN only when recv_fn will read again itself. *)
ReadinessNotLost ==
  at = "idle" /\ recv = "suspended" /\ ~closed =>
    interest # "none" /\ (InReady => edge)

(* Edge-triggered writing misses nothing: while send_fn waits for room, the *)
(* socket is watched for EPOLLOUT and room has epoll's attention; while it  *)
(* waits for data, there is none.                                           *)
WritabilityNotLost ==
  at = "idle" /\ ~closed =>
    /\ send = "blocked" => interest = "inout" /\ (OutReady => edge)
    /\ send = "wait" => write_buf = <<>>

(* What reaches the wire is what was written to write_buf_, in order and    *)
(* once, unless a short writev was retried before EAGAIN.                   *)
WireInOrder == ~retried => wire = [i \in 1 .. Len(wire) |-> i]

(* As long as the connection is open, resume_read and resume_write find a   *)
(* live coroutine.                                                          *)
OpenResumesLive == fault = "dangling" => closed

(* Task::resume (task.h) resumes a coroutine only if it is not done;        *)
(* resume_read and resume_write should do as much.                          *)
NoDanglingResume == fault # "dangling"

(* Whatever is written to write_buf_ leaves it while the peer keeps         *)
(* reading, unless the connection ends.                                     *)
WrittenIsSent == (write_buf # <<>>) ~> (write_buf = <<>> \/ closed \/ fault # "none" \/ peer = "reset")

=============================================================================
