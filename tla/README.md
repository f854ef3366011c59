# dRPC in TLA+

dRPC is a small RPC framework in C++20: protobuf messages over TCP, coroutines
on top of an edge-triggered epoll loop, and a lock-free queue that carries
closures from any thread to the thread of the loop.  This directory models the
parts of it that run concurrently or react to the network, and the path of a call
from a stub to its closure, checks them with TLC
on small instances and proves the main safety properties with TLAPS for every
instance.

All paths below are relative to the repository (`util/mpmc_queue.h` and so on).
The repository has no design documents: the reference is the code, its comments
and `util/mpmc_queue_test.cpp`.

## 1. The system

| Component | State | Operations | Hard behaviour |
|---|---|---|---|
| `MPMCQueue` (`util/mpmc_queue.h`) | chain of chunks (`head_chunk`, `tail_chunk`, `next`), per chunk `push_index`, `pop_index`, `active_readers`, `retired`, node flags; `free_list` | `push`, `pop`, destructor; inside: `allocate_chunk`, `release_chunk`, `retire_chunk`, `try_release_chunk` | lock-free interleavings, chunk recycling, stale reads |
| `EpollExecutor` (`scheduler/epoll_executor.*`) | `task_queue_`, `should_notify_`, eventfd, `stop_`, the epoll set | `spawn`, `stop`, `add_event`, destructor, the loop | sleep/wake-up race, join without wake-up |
| `Connection` (`net/connection.*`, `net/socket.*`, `scheduler/awaitable.*`, `scheduler/task.h`) | `closed_`, `read_buf_`, `write_buf_`, two coroutine handles | `async_read`, `async_write`, `resume_read`, `resume_write`, `close`, four awaiters | edge-triggered readiness, coroutine life times, partial writes |
| `RpcServer` (`server/rpc_server.*`) | service registry, a `recv_fn` and a `send_fn` per connection | `register_service`, `start`, `recv_fn`, `send_fn` | the peer closes or resets in the middle of a frame; two threads share a connection's life |
| `ClientChannel` (`client/client_channel.*`) | session registry, `request_id_`, one connection | `CallMethod`, `recv_fn`, `send_fn`, `close` | responses for unknown or failed sessions, close from another thread |
| `ChainedBuffer`, `stream.h` (`util/`) | chain of blocks with read and write positions, `limit_` | `read`, `write`, `commit_*`, the zero-copy operations | block boundaries, a chain that loses its last block, partial writes of a long chain |
| `Accepter`, `SocketUtils` (`net/`) | a listening descriptor | `accept`, `set_sock_param`, wrappers of system calls | descriptors that are reused at once, options that fail |
| `RpcController` (`util/service.*`) | flags nobody reads | setters and getters | none |
| generated protobuf code (`proto/message.pb.*`, `example/echo.pb.*`) | the fields of `Header`, `EchoRequest`, `EchoResponse` | serialise, size, parse; `EchoService::CallMethod` and its stub | sizes computed apart from the bytes, defaults that are not written, unknown fields |
| echo example (`example/`) | none | `Echo`, `Echo1`, a client that calls | the channel's end against the executor's |

How they interact.  The accepting thread and application threads call
`Executor::spawn`, which pushes a closure on an `MPMCQueue` and, through an
eventfd, wakes the loop if it has announced that it sleeps.  The loop runs the
closures; the first two of a connection start `send_fn` and `recv_fn`, which run
until they suspend.  From then on everything about the connection happens on the
loop's thread: epoll events call `resume_write` and `resume_read`, `recv_fn`
calls `async_read`, hands requests to the service, writes responses to
`write_buf_` and calls `resume_write`, and `async_read` itself calls
`resume_write` when it has closed the connection.  A coroutine's frame is
destroyed when it ends (`final_suspend` is `suspend_never`); the connection is
destroyed with the second of its two frames.

What makes each part correct:

* queue: a pushed value is popped exactly once, in the producer's order; a
  chunk is not used after its release; every chunk is freed once;
* executor: a spawned task runs; a sleeping loop with work is woken; the
  destructor returns;
* connection: what the kernel holds is read and what was written is sent,
  once and in order, although epoll reports edges; no coroutine is resumed after
  its end; the connection is freed when the peer is gone;
* client: every call completes once; a response goes to its own session;
* buffer: bytes come out as they went in, whatever the blocks and the pieces in
  which they travel;
* accepting: a descriptor belongs to one connection until nobody uses it, and
  waiting clients are served in the end;
* a call from end to end: it is answered once, with its method's reply to its
  message, unless the connection is lost to a call that the server does not serve,
  or a side breaks down over a buffer that has lost its last block.

## 2. Modules

| Module | Models | State and actions |
|---|---|---|
| `MPMCQueue` | `util/mpmc_queue.h` | one action per shared access of `push`, `pop` and their helpers; `pc`, `cur`, `spare` and so on are the locals of each thread |
| `MCQueue` | | TLC instances, symmetry of the threads |
| `MPMCQueueProofs` | | `TypeCorrect`, `NoDuplicatesWithoutReuse`; for one producer and one consumer `NoDuplicatesInPair`, `NoUseAfterReleaseInPair`, `OneFreeInPair` |
| `MPMCQueueOrderProofs` | | extends the above: `OrderWithoutReuse`, `NoLossInPhases`, `EmptyHonestInOneChunk` |
| `EpollExecutor` | `scheduler/epoll_executor.cpp`: loop, `spawn`, `stop`, destructor | `loop` is the position of the loop's thread, `call[t]` that of thread `t` in `spawn`; `task_queue` is an atomic FIFO |
| `MCExecutor` | | TLC instances |
| `EpollExecutorProofs` | | `TypeCorrect`, `WakeupNotLost` |
| `Connection` | `async_read`, `async_write`, awaiters, dispatch of events, `add_event`, `send_fn`, what both `recv_fn` share | `at` is the position of the loop's thread in the code of the connection, `ret` where it returns to when `send_fn` suspends or ends; `recv`, `send` are the coroutines |
| `ConnectionProofs` | | what every step of `Connection` preserves, as lemmas for the server and the client |
| `ServerConnection` | `recv_fn` of the server | extends `Connection`; one action per way a part of a frame is taken, refused or waited for |
| `MCServer` | | TLC instances |
| `ServerConnectionProofs` | | `TypeCorrect`, `ReadsNotMissed`, `WritesNotMissed`, `ResponsesInOrder`, `OpenIsResumable`, `StrandedOnlyByReset` |
| `ClientChannel` | `client/client_channel.cpp`: `CallMethod` and its task, `recv_fn`, `close` | extends `Connection`; `session_registry`, `request_id`; `Close` and `CallMethod` are steps of the application's threads |
| `MCClient` | | TLC instances |
| `ClientChannelProofs` | | `TypeCorrect`, `AnswersFindSessions`, `DesyncOnlyByRetry`, `OpenIsResumable` |
| `ChainedBuffer` | `util/chained_buffer.h`, `util/buffer_block.h` | operators on a value of the buffer, one per operation: a chain of blocks with memory, `read_pos` and `write_pos`, `free_list_`, `total_size_`, `limit_` |
| `FramePipe` | two `ChainedBuffer`s, `util/stream.h`, and `async_write` and `async_read` as far as they touch them | extends `ChainedBuffer`; `write_buf`, `net`, `read_buf`, and where sender and `recv_fn` are |
| `FrameStream` | the abstract specification of `FramePipe` | `sent`, `received`, `broken` |
| `MCPipe` | | TLC instance |
| `ProtoWire` | the generated code of the three messages | operators: `Serialize...`, `...ByteSize`, `Parse...` (what `_InternalParse` leaves in a message), `ParsesWithin` (the limit) |
| `EchoRpc` | a call from the stub to its closure: `CallMethod`, both `recv_fn`, the service's dispatch and methods | extends `ProtoWire`; streams `up` and `down` of fields and lengths that arrive in any groups, a record per `recv_fn`, `consumed_bytes_` of its `read_buf_`, `null` when it uses a buffer without a block |
| `RpcCalls` | the abstract specification of `EchoRpc` | `made`, `answered`, `lost`, `broken`, `served` |
| `MCEcho` | | TLC instance: word sizes, messages, client builds |
| `EchoRpcProofs` | | `TypeCorrect`, `FramesAgree`, `SessionsCounted`, `CallsAnsweredInOrder` |
| `Accept` | `start`, `net/accepter.cpp`, `socket_utils.cpp`, the life of descriptors | `table` is the process's descriptor table, `main` the accepting thread, `loop` the executor's with its local closure `task` and the `batch` of events at hand; `queue`, `send`, `recv` are what it does for each connection |
| `MCAccept` | | TLC instance |
| `AcceptProofs` | | `TypeCorrect`, `SendFirst`, `DescriptorsBelong` |

`Connection` is composed with what uses it by EXTENDS: `ServerConnection` and
`ClientChannel` add the content of `recv_fn` and share its step relation.  The
one difference in ownership is the constant `OwnedByFrames`: on the server the
two coroutine frames hold the connection and its descriptor leaves epoll with
the second of them, on the client the channel holds it.

The same code appears in several modules at different grains, each with what the
others abstract away.  `Connection` has the coroutines, the events and whole
parts of frames; `FramePipe` has the bytes and blocks and no coroutines;
`EchoRpc` has the fields, the ids and the methods, and of the other two only the
position in a block, which decides whether `read()` leaves a block behind;
`Accept` has many connections, two threads and descriptor numbers, and of each
connection only its beginning and its end.

Two refinements connect detail and promise: `FramePipe` implements `FrameStream`
(`StreamImplemented`, with `broken` mapped to the three ways in which the code
damages a stream) and `EchoRpc` implements `RpcCalls`, with `broken` mapped to
`null` (`CallsInOrder`, checked and also proved, `CallsAnsweredInOrder`).

`PROJECT.json` maps every definition to the lines it stands for.

### Abstractions

*Memory order.*  The accesses of the queue are interleaved sequentially
consistently.  The code uses acquire and release; an invariant that holds here
could still fail on a machine with weaker order, a violation found here is real
on every machine.  The five relaxed stores that reset a recycled chunk
(`mpmc_queue.h` 234-241) are one action: the chunk has been taken from the free
list and is private unless a thread still holds a stale pointer to it.

*Values* of the queue are pairs of a producer and a number.  *Chunks* are taken
from a finite set of addresses, which is how recycling of addresses is seen.

*The task queue of the executor* is an atomic FIFO, so that the wake-up protocol
is judged on its own; what the real queue guarantees is the subject of
`MPMCQueue`.  `stop_` has no initialiser in the code and may be either value at
the start.

*Bytes.*  A frame is four parts: header length, header, body length, body.  It is
all that `recv_fn` distinguishes: it waits until a part is complete.  `read_buf`
counts complete parts; `write_buf` and `wire` are sequences of numbered parts, so
that order and duplication can be stated.  `async_read` may stop after any
number of parts because it stops at the end of a block.  An arrival that
completes no part makes `recv_fn` read once more and suspend, as no arrival does.

*`closed_`* is a plain `bool` that `ClientChannel::close` writes on another
thread.  The looks at it in `ReadAwaiter`, in the loop of `send_fn` and in
`WaitWriteAwaiter` are separate actions, between which the other thread may come.
Two windows are closed.  The guard of the loop in `recv_fn`
(`client_channel.cpp` 64), `read` and the looks that follow it in `async_read`
(`connection.cpp` 41, 46) are one action, `AsyncRead`; a `close` that falls between
them makes `async_read` resume `send_fn`, which then ends, while here it falls
behind them and is met by `ReadAwaiter`, with `send_fn` left suspended, as the code
does when `close` comes a little later.  And `Close` shuts the socket down and sets
`closed_` in one action (`socket.h` 27-28); a write in between fails as one does
that `send_fn` has decided on before `close`.

*Suspended writes.*  `EAGAIN`, `commit_send` and `EPOLL_CTL_MOD`
(`connection.cpp` 69-77, `awaitable.cpp` 25-30) are one action, `WriteSuspend`.  The
send buffer may drain between them in the code; `EPOLL_CTL_MOD` then looks at the
socket and finds it writable, with the result that a drain just after the merged
action has.  That the modification looks is taken from the kernel, not
checked here.

*The kernel* is modelled as the code uses it.  A readiness change puts a
registered socket on epoll's ready list (`edge`), `epoll_wait` reports the
events then true and clears it, `EPOLL_CTL_ADD` and `EPOLL_CTL_MOD` look at the
socket at once, `shutdown` wakes the poller, `EPOLLOUT` is reported with room in the
send buffer and also once the writing side is shut down, `EPOLLHUP` when both
directions are shut down or the peer has reset.  `close()` of the code only
shuts down the writing side.

*Blocks and bytes* (`ChainedBuffer`, `FramePipe`).  A byte is a number that
tells its message and position; a length is two bytes instead of four.  Memory
that nobody has written is `Junk`.  What a thread does after it has damaged the
stream is not followed: `crossed` (a message did not fit into the rest of a
block, so that `output_next` laid it over bytes still to be sent), `resent` (a
second `writev` in one `async_write`) and `fault` (a null chain, or `commit_send`
of more than there is) stop the sender or the thread.  `Connection` takes the
contents of its buffers for granted: the crossing of a block is `FramePipe`'s.
In both, `read()` that takes the last byte removes the last block, and the next
`write_view` or `input_next` dereferences null.

*Fields* (`ProtoWire`).  A message is the sequence of fields it writes, with the
size of each in bytes: tag, varint and string sizes are computed, characters are
not.  A string is a sequence of words of known size, so that `"[Echo] " + message`
is a concatenation.  Sums of sizes are cardinalities of sets of bytes, and the loop
of `_InternalParse` is given by what it leaves (of a known field the last value, the
unknown fields in order), so that no operator is recursive.  `WireFormatLite` and `ParseContext` are the library's and
external.  Streams in `EchoRpc` are delivered in order, any number of fields and lengths
at a time; tasks of the executor run in order of their `spawn`.  `read()` of a
length that is alone in `read_buf_` removes the block unless the length ends it: the
next `async_read`, or the parser of an empty body, ends the process (`null`).  The
client goes on if it has already seen the end of the stream, since its loops look at
`closed_` first.  A connection is followed until the
client has seen its end.

*Descriptors* (`Accept`).  The kernel gives the lowest free number.  Sockets are
named by the client at the other end, so that `table[fd] = c` says which socket a
number means now.  The five options of an accepted socket are `Options` steps.
A connection is owned by the accepting thread until the end of its iteration, by
its frames, and by the executor's local `Closure task`, which keeps the last closure
until the next `pop` or the end of the iteration, through `epoll_wait`; whoever is
last closes the number.  A `spawn` is one step.
Requests are left out: of a connection only start, end and reset matter here.

*Undefined behaviour* is a value of `fault`: `dangling` (a coroutine is resumed
after its end), `hang` (`commit_send` of more than the buffer holds never ends),
`killed` (SIGPIPE), `null` (a buffer
without a block is read or written).  `desync` is not undefined, but beyond the abstraction: the
client looks for the next frame in the middle of a body.  After any of them the
code of the connection takes no step.

## 3. Runs

| Run | Bounds | What it shows |
|---|---|---|
| `queue_one_chunk` | 2 producers (2 values and 1), 2 consumers, one chunk of 3 | inside a chunk, over every interleaving: no duplicate, producer order kept, an empty answer is honest, every value eventually delivered |
| `queue_phased` | 2 producers x 2 values, 2 consumers, chunks of 1 slot, pops start when the pushes are done | appending, advancing, retiring and releasing chunks is right when pushes and pops do not overlap |
| `queue_spsc` | 1 x 6 values, 1 consumer, chunks of 2, 4 addresses | one thread that pushes and one that pops, as when a single thread spawns, with recycling: no duplicates, no use of a released chunk |
| `queue_spsc_loss` (violation) | as `queue_spsc` | values are lost when pops overlap pushes |
| `queue_two_consumers` (violation) | 1 x 3 values, 2 consumers, chunks of 1 | a value is delivered twice |
| `executor` | 3 tasks, 2 threads and callbacks of the loop, with a finite timeout and with -1 (`timed`, chosen by the constructor) | no lost wake-up outside one window; with a timeout every task runs and the destructor returns, without one every task runs that did not fall into the window |
| `server_connection` | 8 parts (two frames), send buffer of 2 parts, responses of 3 | no readiness missed, responses in order, data leaves, shutdown releases, only a reset or a refused frame strands a coroutine |
| `server_dangling` (violation) | the same | a destroyed coroutine is resumed |
| `client_channel` | 3 calls of 1 part, send buffer of 1, answers in any order, `close` at any moment | answers find their sessions, calls complete while the connection lives, and the client loses its place in the stream only after a frame that does not parse or a request sent twice |
| `frame_pipe` | 3 messages of 0, 1, 2 or 4 bytes, blocks of 4, 2 iovecs | what is parsed is what was serialised (refinement of `FrameStream`), sizes are right, the chain is tight and has room to read into, nothing is left behind |
| `echo_rpc` | 2 calls, both methods, an empty and a long message, ids from 0 and from 127, four client builds, service registered or not, blocks of 37 bytes | answers come once, in order and right, and the connection is lost only to a call that is not served or to a null chain (refinement of `RpcCalls`); every call is answered or the client sees the connection lost; lengths and bytes agree; sessions and traffic agree |
| `accept` | 2 clients, 1 descriptor, backlog of 2, 2 options, with a finite timeout and with -1 | a number belongs to one connection, whoever lets go of it last; `send_fn` starts first; with a finite timeout a waiting client is served once the one before it has left |

Why the bounds are enough to be interesting.  A chunk is crossed after one or two
values, so the boundary, the race to append and the recycling of an address all
happen in the other runs of the queue than `queue_one_chunk`; six values over four
addresses recycle a chunk more than once.  Two threads on each side are what the CAS loops are for.
Three tasks let one be running, one queued and one in `spawn`.  A response of
three parts does not fit a send buffer of two, so every response may be short,
suspend and be continued; two frames let the second one arrive during the first
one's response or behind the end of the stream.  In `client_channel` the third
call is queued behind the second while the buffer is full: the least with which
`async_write` can send a whole request twice.

In `frame_pipe` a block of four bytes holds a length and a message of two exactly,
a length and one of one byte with a byte left, and never one of four: messages
end inside a block, at its end and across it, three of them fill more blocks than
one `writev` takes, and every split into `writev` and `read` calls is tried.  In
`echo_rpc` the ids 127 and 128 have varints of one and two bytes and id 0 is not
written; the response to the long message has a length of two bytes.  A block of 37
bytes ends with the length of the first body if the method is `Echo` and the id 0, so
that the same length is read alone with and without a block to follow.
In `accept` the second client needs the number of the first, which may be ending on
either thread and is still owned by the closure of a sleeping loop; two options let
the second one meet a number that the first has closed.  (The invariants were also
checked with three clients and two descriptors, 1,211,320 states up to symmetry.)

`CHECK_DEADLOCK FALSE` is given where the system may stop: the executor after
its destructor, the connection when it is gone or has faulted, the pipe and the
calls when everything has been delivered, the server when nobody calls.  The
consumers of the queue can always poll again, so deadlock is checked there.

### Fairness

Weak fairness of each thread's next step stands for a scheduler that does not
starve a runnable thread.  Strong fairness is assumed in one place, of the consumers'
CAS on `pop_index` in `queue_one_chunk`: `compare_exchange_weak` may fail
spuriously, but one that finds its expected value again and again succeeds in the
end.  Callers
are not required to call: only a call that has begun goes on, except that the
consumers of `queue_one_chunk` keep polling, as the loop does.  In `executor` the
return of `epoll_wait` on its timeout is a fair step; with timeout -1 that step
does not exist.  In `server_connection` the loop's
thread is fair and the peer's TCP keeps acknowledging; the peer's sending,
shutting down and resetting are not fair.  In `client_channel` the peer also
answers the requests that it has received, since `CallCompletes` is about what
the client does with the answers; `close` and new calls are not fair.  In
`echo_rpc` each side's executor is fair, in `accept` the main thread and the
executor's loop; applications and clients are not, and a loop that sleeps without a
timeout is not woken by fairness.  `WaitingIsServed` is conditional:
a client that never leaves keeps its descriptor, a client that resets strands its
connection and with it the descriptor, and both are in the premise.  So is a finite
timeout: with -1, the server's default, both tasks of a connection may be spawned
between the loop's last `pop` and `should_notify_.store(true)`
(`epoll_executor.cpp` 46), and the loop may sleep for ever on a closure that holds the
only descriptor.

### What the violations show

1. `queue_spsc_loss`: `pop` reads `push_index` and later `next`.  If the producer
   fills the chunk and links the next one in between, `pop` leaves the chunk with
   its values unread.  One producer and one consumer suffice.
2. `queue_two_consumers`: a consumer is counted in `active_readers` only after it
   has claimed its slot.  A chunk released in between is recycled, and two
   consumers take the same value.
3. `server_dangling`: `recv_fn` that refuses a frame ends without unregistering
   its socket, and the next `EPOLLIN` resumes it.  Longer behaviours reach the
   same fault by a request read together with the end of the stream
   (`rpc_server.cpp` 146) and by a stream that ends in the middle of a body
   (116).

Further weaknesses are visible in the models and are not stated as findings,
since nothing in the repository promises otherwise: with timeout -1, the server's
default, a task spawned between the loop's last `pop` and
`should_notify_.store(true)` waits until something else wakes the loop
(`missed` in `EpollExecutor`); and after a short `writev` that is retried before
`EAGAIN`, `async_write` sends the beginning of the buffer again (`retried` in
`Connection`; `WireInOrder` says that this is the only way to disturb the order).
A connection that is closed, by the peer or by `close`, leaves the client's
pending sessions uncompleted, and `EPOLLHUP` leaves both coroutines suspended;
`StrandedNeedsReset` and the liveness properties name these exceptions.
A message that crosses a block of `write_buf_` is laid over the block before it
(`crossed` in `FramePipe`), `read()` of the last byte leaves a buffer that the
next `async_read` or parse dereferences (`fault = "null"`; in `EchoRpc`, `null`), so
that an empty message with nothing behind it, or a length that arrives alone, ends
the process of the side that reads it, and a socket option
that fails closes a descriptor that is used nevertheless (`failed` in `Accept`).
One call of an unknown method closes the connection under all the others.

## 4. Proofs

The proofs are for every set of threads, chunks, clients and values and every
size of buffers and messages, from the assumptions on the constants alone:

| Assumption | What it says |
|---|---|
| `QueueAssumption` | producers and consumers are different threads, `NULL` is neither a chunk nor a value, a chunk has a slot |
| `ExecutorAssumption` | the loop's thread is a thread, `NONE` is not a task |
| `ConnectionAssumption`, `ServerAssumption`, `ClientAssumption` | the send buffer, a response and a request have at least one part; the frames own the connection on the server and not on the client |
| `AcceptAssumption` | `NULL` is not a client; at least one descriptor, option and place in the backlog |
| `WordAssumption`, `EchoAssumption` | words have sizes (zero included); messages consist of words and the names of `echo.proto` are words; ids, magic and version are natural numbers; a block has a byte |

Each proof has the same shape: an inductive invariant, a lemma that `Init` gives
it, a lemma with a step per action that `[Next]_vars` keeps it, and a theorem that
draws the property from it.  The invariants were checked by TLC on small
instances before they were proved.

### The queue

* `MPMCQueueProofs!TypeCorrect`: `Spec => []TypeOK`.  `TypeOK` is inductive: apart
  from the types it says which pointers are not null at which point of the code
  (`PointersValid`), which is what each dereference needs, and that indices stay
  within a chunk.
* `MPMCQueueProofs!NoDuplicatesWithoutReuse`: `Spec => []DuplicatesNeedReuse`,
  no value is delivered twice before a chunk of the free list is used again.
  "No duplicates" alone is not inductive: the step that takes a value must know
  that nobody else has the slot or the value.  `SlotInv` adds that a writer or
  reader past its CAS owns its slot alone (`WritersApart`, `ReadersApart`), that
  slots not yet claimed are empty, that an occupied node holds a value, that
  stored values were sent and are pairwise different, and that a slot whose
  value was taken lies below `pop_index`.  All of it is conditional on `~reused`, since
  recycling breaks it, as `queue_two_consumers` shows.
* `MPMCQueueOrderProofs!OrderWithoutReuse`: `Spec => [](~reused => PerProducerOrder)`.
  Slots are not enough here, the argument is about the chain.  `OrderInv` says
  that there is a rank of chunks: 0 for a chunk that is not in the line that
  `head_chunk` walks, otherwise its place in the line, with
  `next` leading from a place to the following one.  A chunk gets a successor only when it is
  full, so every chunk of the line but the last is full, and a push that starts
  later than another of the same producer lands behind it.  Three things that look
  harmful are covered: `tail_chunk` may go back (`push` swings it with a stale
  pointer), a chunk may be linked behind one that `pop` has already left and
  released (it keeps rank 0 and its values are lost, not reordered), and
  `release_chunk` overwrites `next` of a chunk behind the head.
  The rank is a witness, not a variable: the step lemma gives the new rank in
  terms of the old one (`PushLink` extends it by one chunk, all other steps keep it).
* `MPMCQueueOrderProofs!NoLossInPhases`:
  `Spec => [](PhasedUse /\ ~reused => NoLoss)`, when no pop begins before the
  last push has returned.  To the rank of the order proof `LossInv` adds that every
  pushed value lies in a slot of the line (`InLine`), that
  nothing has been taken while pushes go on (`Untouched`), that a slot below
  `pop_index` has been delivered or claimed (`Taken`), and that the
  chunks behind `head_chunk` have been emptied (`Emptied`), because a consumer
  that goes on to the next chunk has seen the end of a full one (`Look`).  It is
  this last part that overlapping pushes break: `pop` may have looked before the chunk
  was full (`queue_spsc_loss`).  That what remains is reachable from `head_chunk`
  (`LineIsReached`) is shown by the least rank that would not be.
* `MPMCQueueOrderProofs!EmptyHonestInOneChunk`:
  `Spec /\ []OneChunk => EmptyIsHonest`, for pushes and pops that overlap freely while the
  constructor's chunk is the only one, which is the subject of `queue_one_chunk`.
  `HonestInv` keeps, for each consumer, that what was in the queue when its pop began
  was already completed then and lies below the index with which it finds nothing
  left (`Debt`).  With more chunks the property does not hold in general: a
  consumer that still looks at a chunk that has been released finds its `next`
  overwritten by the free list's.

The last three theorems are about one thread that pushes and one that pops
(`OneEach`), as when a single thread spawns on an executor (several may), this time with chunks recycled and pushes and
pops overlapping, where values may be lost (`queue_spsc_loss`).

* `MPMCQueueProofs!NoDuplicatesInPair`: `Spec => [](OneEach => NoDuplicateDelivery)`.
  Nothing can be said of which slot is claimed when: a recycled chunk is reset under
  a producer that still holds its address.  `LockInv` therefore takes the flag
  `occupied` of a slot for a lock: the value is written only while it is FALSE and
  read only while it is TRUE, and the values stored under it, in hand and
  delivered are pairwise different.
* `MPMCQueueProofs!NoUseAfterReleaseInPair` and `OneFreeInPair`:
  `Spec => [](OneEach => NoUseAfterRelease)` and the same for
  `DestructorFreesEachChunkOnce`.  `PlaceInv` says that every allocated chunk is in
  exactly one place: in the list that starts at `head_chunk`, on the free list, or in
  the hands of the producer (allocated and not yet linked) or of the consumer (left
  by `pop` and not yet released), that both lists end, and where the locals of the
  two threads may point.  What a list holds is the least set that contains its
  first chunk and the successor of every member (`Reach`); a step that changes one
  `next` changes it by one chunk.

### The executor

* `EpollExecutorProofs!TypeCorrect` and `WakeupNotLost`: `Spec => []NoLostWakeup`.
  The invariant speaks of a loop that sleeps; to be inductive it must already
  hold from the last failed `pop` on (`ArrivalsCovered`), and a taken
  announcement must imply a write that is done or under way (`AnnouncementHeld`).

### The connection, server and client

`ConnectionProofs` states what the steps of `Connection` preserve, so that server
and client only add their `recv_fn`.  `ConnectionInv` has four parts besides the
types.

* `CoroutinesInv`: the order in which the two coroutines start, that neither
  ends on an open connection, and that epoll watches an open connection from the
  start of `recv_fn` on.
* `ReadInv`: `ReadinessNotLost` holds of a suspended `recv_fn`; to be inductive
  it must already hold from the read that found nothing on, through `resume_write`
  and `send_fn`, which may run before the suspension.
* `WriteInv`: the same for a blocked `send_fn` and `EPOLLOUT`.
* `WireInv`: `wire` and `write_buf` together are what was written, also
  between `writev` and `commit_send`, when sent parts are still in the buffer.
  Conditional on `~retried`: the retry of a short `writev` breaks it.

The theorems of `ServerConnectionProofs` follow, `StrandedOnlyByReset` with
`ShutdownInv`: when the peer has shut down and not reset, it is `async_read`
that notices, which lets `send_fn` run to its end and `recv_fn` end before the
executor is back in its loop.  `ClientChannelProofs` adds three parts:
`SessionsInv` (ids and what was written), `StreamInv` (`recv_fn` knows its place:
what was sent to it is in the socket, in `read_buf_` or taken, four parts to a
frame) and `AnswersInv` (a request is answered at most once, after it was sent, and
has its session until `recv_fn` comes to its answer).  `AnswerFindsSession` needs
all three: that the frame at hand is the answer to a request that was sent once is a
fact about the whole history of the stream.  `OpenResumesLive` is checked on the server
only and proved of both.

### Accepting

`AcceptProofs`: `ClientsInv` (a client is accepted once), `TasksInv` (the
reading task of a connection is in the queue only behind its writing task, which may
also be in the hands of the loop; `HeldTask` says what the loop's closure may be at
each point) and `OwnedInv` (until an option fails, two sockets never share a number, and the number
of a connection refers to its own client, also for the one that the main
thread is still setting up, which `DescriptorsOwned` does not mention).  The
kernel's lowest free number exists by well-founded induction on the numbers.

### A call from end to end

`EchoRpcProofs` is about the fields and lengths of `EchoRpc`, for any number of calls, any
texts, sizes of words, first ids and client builds.

* `TypeCorrect`: `TypeInv` adds to `TypeOK` that a call is in the executor's queue
  once and has no session yet, that what travels consists of well-formed fields and
  of lengths, and that the server waits for a body only after it has found the
  method (which `CallMethod` by index needs).
* `FramesAgree`: `Spec => []FramesDelimited`.  That `ByteSizeLong` is the number of
  bytes the serialiser writes is a lemma for each message (`HeaderSizes`,
  `RequestSizes`, `ResponseSizes`), on top of the size of a concatenation
  (`BytesConcat`).  The invariant itself is kept by each step for a reason of its own
  (`Aligned...`): a frame of two messages is appended to a stream that ends with one
  (`AlignedFrame`, `AlignedAppend`), a length is taken and what it announced is now due
  (`AlignedTail`), a message of exactly the bytes due is taken and
  a length comes next (`AlignedDrop`).  `ParsesWithin` gives the last one: the parser ends
  at the limit and the limit is the announced length.
* `SessionsCounted`: `Spec => []SessionsMatchTraffic`, by counting lengths
  (`LengthsConcat`): a request puts two of them on their way and one session into the
  registry, a message that the server answers takes two and puts two, and a response takes
  two and the session.  That a session is added and not replaced needs `TypeInv`: ids in the
  registry are below `request_id_`.
* `CallsAnsweredInOrder`: `Spec => CallsInOrder`, the refinement of `RpcCalls`.  The invariant is a conversation.  `Order` says
  that calls leave the executor's queue in order, that the ids given to them follow one
  another, and that the registry holds those of the calls after the last one answered.
  `Talk(q, cut)` says that the server has replied to `q` requests, all of which it serves;
  that what it has before it is the rest of request `q + 1` and the requests behind it,
  and what the client has before it the rest of the next response and the ones up to
  `q`, followed by nothing else (`Reads`, `Carries`); once the server has ended the
  connection, `q + 1` is a call that it does not serve or a side has met a null chain,
  and `cut` is what was never sent of the
  responses.  Three facts carry the steps: the bytes of a message, when they are
  all there, are taken out of the stream as they were written (`TakenExact`), whatever has
  arrived behind them; a parser finds in a header or an echo what was serialised, also
  with a field of a later proto in it (`HeaderParsed`, `EchoParsed`); and a
  request passes the server's checks exactly if its call is served (`ChecksServe`).
  A null chain is a step `Break` of `RpcCalls`, which needs a call that is not yet
  answered: a length that either side reads belongs to one (`LengthOfMessage`).

### Only model-checked

* Liveness: `EverythingDelivered`, `CallCompletes`, `CallsAnswered`, `WaitingIsServed` and the like.  Fairness
  and ENABLED are beyond the prover.
* `ChainedBuffer` and `FramePipe`, with the refinement of `FrameStream`.  They are
  built on recursive operators, and what those compute for every input needs an
  induction over data that the prover cannot do.
* The queue with several producers or consumers when chunks are used again.
  There `NoDuplicateDelivery` fails with two consumers (`queue_two_consumers`).

## 5. Not modelled

* Of `ChainedBuffer`: `input_back_up`, `input_skip`, `clear`, `for_each_block`,
  `read_view` and `block_count`.  The library calls none of them, and protobuf's
  parser backs up or skips only bytes that a limit at the end of a message does
  not leave.
* What is made of a stream after it has been damaged: what the client reads from
  the wrong place, what the sender adds to an overwritten block.
* The client's `connect` and its socket options; the end of the example client,
  which destroys the channel while the executor may still run.
* Of the generated code: reflection, copying, merging, swapping, arenas, and the
  `default` branches of the dispatch, which no index reaches.
* `RpcController`, whose flags nobody reads; logging; conversions of addresses.
* The free list of the queue under three concurrent users (ABA of
  `allocate_chunk`): more threads and recycled chunks than instances of the whole
  queue can hold.
* Failure of allocations, of `epoll_ctl` for other reasons than an
  unregistered socket, and of `eventfd` reads and writes.

## 6. Plan

1. `DestructorFreesEachChunkOnce` in phases with several threads on each side
   (`queue_phased`): `PlaceInv` with the hands of more threads.
2. The free list alone, with three threads, for its ABA problem.
