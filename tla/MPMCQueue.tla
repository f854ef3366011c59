----------------------------- MODULE MPMCQueue -----------------------------
(***************************************************************************)
(* The lock-free queue of util/mpmc_queue.h: a chain of fixed-size chunks, *)
(* pushed at tail_chunk and popped at head_chunk, whose emptied chunks are *)
(* recycled through free_list.  One action per access to shared memory, so *)
(* that every interleaving of the code's atomic operations is a behaviour. *)
(* Accesses are sequentially consistent (see the README on memory_order).  *)
(***************************************************************************)
EXTENDS Integers, Sequences, FiniteSets, Functions

CONSTANTS
  Producers,    \* threads that call push
  Consumers,    \* threads that call pop
  Chunks,       \* heap addresses a Chunk can have (bounds the allocations)
  NULL,         \* nullptr
  CHUNK_SIZE,   \* slots of a chunk; 64 in the code
  MaxItems,     \* bound: values a producer can push
  Quota,        \* bound: values each producer does push
  PhasedUse     \* TRUE: no pop starts before the last push has returned

ASSUME QueueAssumption ==
  /\ Producers \cap Consumers = {}
  /\ Chunks # {} /\ NULL \notin Chunks
  /\ NULL \notin Producers \X (1 .. MaxItems)
  /\ CHUNK_SIZE \in Nat \ {0}
  /\ MaxItems \in Nat /\ Quota \in [Producers -> 0 .. MaxItems]
  /\ PhasedUse \in BOOLEAN

VARIABLES
  head_chunk, tail_chunk, free_list,
  next, push_index, pop_index, active_readers, retired, \* fields of Chunk
  storage, occupied,    \* fields of Node, per chunk and slot
  allocated,            \* chunks that operator new has returned so far
  pc,                   \* the next shared access of each thread
  cur,                  \* local tail (push) or head (pop)
  index,                \* local index
  nxt,                  \* local next, or expected after a failed CAS
  spare,                \* new_chunk, or the chunk being released
  old,                  \* local old_head of release_chunk
  popped,               \* pop has moved a value out and will return true
  sent,                 \* history: pushes of each producer that returned
  got,                  \* history: values each consumer's pops moved out
  owed,                 \* history: values in the queue when a pop began
  reused                \* history: a chunk of the free list has been used again

chainVars  == <<head_chunk, tail_chunk, free_list, next, retired, allocated>>
slotVars   == <<push_index, pop_index, active_readers, storage, occupied>>
threadVars == <<pc, cur, index, nxt, spare, old, popped>>
histVars   == <<sent, got, owed, reused>>
vars == <<chainVars, slotVars, threadVars, histVars>>

Threads == Producers \cup Consumers
Slots   == 0 .. CHUNK_SIZE - 1
Items   == Producers \X (1 .. MaxItems)
Null(S) == S \cup {NULL}

(* The value producer p is pushing: its pushes are numbered from 1. *)
Value(p) == <<p, sent[p] + 1>>

(* The address operator new returns, given those already in use. *)
Fresh(used) == CHOOSE c \in Chunks : c \notin used

Goto(t, from, to) == pc[t] = from /\ pc' = [pc EXCEPT ![t] = to]

-----------------------------------------------------------------------------
(* What the histories and the slots say about each value. *)

(* Values whose push has returned. *)
Completed == {x \in Items : x[2] <= sent[x[1]]}

Delivered == UNION {Range(got[c]) : c \in Consumers}

(* Consumer c has claimed a slot and not yet moved the value out of it. *)
HoldsClaim(c) == pc[c] \in {"enter", "wait", "move"}

Claimed == {storage[cur[c]][index[c]] : c \in {d \in Consumers : HoldsClaim(d)}}

(* Chunks reached from c by following next: the least closed set with c. *)
Chain(c) ==
  {d \in Chunks : \A S \in SUBSET Chunks :
     (c \in Null(S) /\ \A e \in S : next[e] \in Null(S)) => d \in S}

(* Values a pop can still reach: published in a live slot of the chain. *)
LiveSlots ==
  {s \in Chain(head_chunk) \X Slots : s[2] >= pop_index[s[1]] /\ occupied[s[1]][s[2]]}

Stored == {storage[s[1]][s[2]] : s \in LiveSlots}

-----------------------------------------------------------------------------
(* One chunk from the constructor, every index zero, nobody in a call. *)
Init ==
  /\ head_chunk = Fresh({})
  /\ tail_chunk = head_chunk
  /\ free_list = NULL
  /\ allocated = {head_chunk}
  /\ next = [c \in Chunks |-> NULL]
  /\ push_index = [c \in Chunks |-> 0]
  /\ pop_index = [c \in Chunks |-> 0]
  /\ active_readers = [c \in Chunks |-> 0]
  /\ retired = [c \in Chunks |-> FALSE]
  /\ storage = [c \in Chunks |-> [i \in Slots |-> NULL]]
  /\ occupied = [c \in Chunks |-> [i \in Slots |-> FALSE]]
  /\ pc = [t \in Threads |-> "idle"]
  /\ cur = [t \in Threads |-> head_chunk]
  /\ index = [t \in Threads |-> 0]
  /\ nxt = [t \in Threads |-> NULL]
  /\ spare = [t \in Threads |-> NULL]
  /\ old = [t \in Threads |-> NULL]
  /\ popped = [c \in Consumers |-> FALSE]
  /\ sent = [p \in Producers |-> 0]
  /\ got = [c \in Consumers |-> <<>>]
  /\ owed = [c \in Consumers |-> {}]
  /\ reused = FALSE

-----------------------------------------------------------------------------
(* push(value) *)

(* tail_chunk.load, on entry and on every turn of the loop. *)
PushLoadTail(p) ==
  /\ \/ pc[p] = "idle" /\ sent[p] < Quota[p]
     \/ pc[p] = "load"
  /\ pc' = [pc EXCEPT ![p] = "claim"]
  /\ cur' = [cur EXCEPT ![p] = tail_chunk]
  /\ UNCHANGED <<chainVars, slotVars, index, nxt, spare, old, popped, histVars>>

(* Mutant of HasRoom: one slot too many. *)
HasRoomOffByOne(i) == i <= CHUNK_SIZE

(* The claimed index is a slot of the chunk: index < tail->size. *)
HasRoom(i) == i < CHUNK_SIZE

(* Mutant of PushClaim: the slots of a chunk are filled from its end. *)
PushClaimFromEnd(p) ==
  LET i == push_index[cur[p]] IN
  /\ pc[p] = "claim"
  /\ push_index' = [push_index EXCEPT ![cur[p]] = i + 1]
  /\ index' = [index EXCEPT ![p] = IF HasRoom(i) THEN CHUNK_SIZE - 1 - i ELSE i]
  /\ pc' = [pc EXCEPT ![p] = IF HasRoom(i) THEN "check" ELSE "alloc"]
  /\ UNCHANGED <<chainVars, pop_index, active_readers, storage, occupied,
                 cur, nxt, spare, old, popped, histVars>>

(* push_index.fetch_add(1), then the test for room. *)
PushClaim(p) ==
  LET i == push_index[cur[p]] IN
  /\ pc[p] = "claim"
  /\ push_index' = [push_index EXCEPT ![cur[p]] = i + 1]
  /\ index' = [index EXCEPT ![p] = i]
  /\ pc' = [pc EXCEPT ![p] = IF HasRoom(i) THEN "check" ELSE "alloc"]
  /\ UNCHANGED <<chainVars, pop_index, active_readers, storage, occupied,
                 cur, nxt, spare, old, popped, histVars>>

(* node.occupied.load: a slot that is still occupied is skipped. *)
PushCheck(p) ==
  /\ pc[p] = "check"
  /\ pc' = [pc EXCEPT ![p] =
              IF occupied[cur[p]][index[p]] THEN "load" ELSE "construct"]
  /\ UNCHANGED <<chainVars, slotVars, cur, index, nxt, spare, old, popped, histVars>>

(* Node::construct, the placement new. *)
PushConstruct(p) ==
  /\ Goto(p, "construct", "publish")
  /\ storage' = [storage EXCEPT ![cur[p]][index[p]] = Value(p)]
  /\ UNCHANGED <<chainVars, push_index, pop_index, active_readers, occupied,
                 cur, index, nxt, spare, old, popped, histVars>>

(* Node::construct, occupied.store(true); push returns true. *)
PushPublish(p) ==
  /\ Goto(p, "publish", "idle")
  /\ occupied' = [occupied EXCEPT ![cur[p]][index[p]] = TRUE]
  /\ sent' = [sent EXCEPT ![p] = @ + 1]
  /\ index' = [index EXCEPT ![p] = 0]
  /\ UNCHANGED <<chainVars, push_index, pop_index, active_readers, storage,
                 cur, nxt, spare, old, popped, got, owed, reused>>

-----------------------------------------------------------------------------
(* allocate_chunk, called by push when its chunk is full *)

AfterAlloc(c) == IF c = NULL THEN "new" ELSE "alloc_next"

AllocLoad(p) ==
  /\ Goto(p, "alloc", AfterAlloc(free_list))
  /\ spare' = [spare EXCEPT ![p] = free_list]
  /\ UNCHANGED <<chainVars, slotVars, cur, index, nxt, old, popped, histVars>>

(* chunk->next.load, the desired value of the CAS. *)
AllocNext(p) ==
  /\ Goto(p, "alloc_next", "alloc_cas")
  /\ nxt' = [nxt EXCEPT ![p] = next[spare[p]]]
  /\ UNCHANGED <<chainVars, slotVars, cur, index, spare, old, popped, histVars>>

(* free_list.compare_exchange_weak: a weak CAS may fail on equal values. *)
AllocCas(p) ==
  \/ /\ free_list = spare[p]
     /\ Goto(p, "alloc_cas", "reset")
     /\ free_list' = nxt[p]
     /\ nxt' = [nxt EXCEPT ![p] = NULL]
     /\ UNCHANGED <<head_chunk, tail_chunk, next, retired, allocated, slotVars,
                    cur, index, spare, old, popped, histVars>>
  \/ /\ Goto(p, "alloc_cas", AfterAlloc(free_list))
     /\ spare' = [spare EXCEPT ![p] = free_list]
     /\ nxt' = [nxt EXCEPT ![p] = NULL]
     /\ UNCHANGED <<chainVars, slotVars, cur, index, old, popped, histVars>>

(* The five stores that reset a recycled chunk; its nodes are left alone. *)
AllocReset(p) ==
  /\ Goto(p, "reset", "link")
  /\ push_index' = [push_index EXCEPT ![spare[p]] = 0]
  /\ pop_index' = [pop_index EXCEPT ![spare[p]] = 0]
  /\ next' = [next EXCEPT ![spare[p]] = NULL]
  /\ active_readers' = [active_readers EXCEPT ![spare[p]] = 0]
  /\ retired' = [retired EXCEPT ![spare[p]] = FALSE]
  /\ reused' = TRUE
  /\ UNCHANGED <<head_chunk, tail_chunk, free_list, allocated, storage, occupied,
                 cur, index, nxt, old, spare, popped, sent, got, owed>>

(* chunk_count.fetch_add and new Chunk(CHUNK_SIZE), at a fresh address. *)
AllocNew(p) ==
  /\ Goto(p, "new", "link")
  /\ allocated # Chunks
  /\ allocated' = allocated \cup {Fresh(allocated)}
  /\ spare' = [spare EXCEPT ![p] = Fresh(allocated)]
  /\ UNCHANGED <<head_chunk, tail_chunk, free_list, next, retired, slotVars,
                 cur, index, nxt, old, popped, histVars>>

-----------------------------------------------------------------------------
(* push, continued: appending the new chunk *)

(* Mutant of PushLink: a plain store instead of the compare-and-swap. *)
PushLinkNoCas(p) ==
  /\ Goto(p, "link", "swing")
  /\ next' = [next EXCEPT ![cur[p]] = spare[p]]
  /\ UNCHANGED <<head_chunk, tail_chunk, free_list, retired, allocated,
                 slotVars, cur, index, nxt, spare, old, popped, histVars>>

(* tail->next.compare_exchange_strong(nullptr, new_chunk). *)
PushLink(p) ==
  IF next[cur[p]] = NULL
  THEN /\ Goto(p, "link", "swing")
       /\ next' = [next EXCEPT ![cur[p]] = spare[p]]
       /\ UNCHANGED <<head_chunk, tail_chunk, free_list, retired, allocated,
                      slotVars, cur, index, nxt, spare, old, popped, histVars>>
  ELSE /\ Goto(p, "link", "rel_load")
       /\ nxt' = [nxt EXCEPT ![p] = next[cur[p]]]
       /\ UNCHANGED <<chainVars, slotVars, cur, index, spare, old, popped, histVars>>

(* tail_chunk.store(new_chunk) by the thread that linked it. *)
PushSwing(p) ==
  /\ Goto(p, "swing", "load")
  /\ tail_chunk' = spare[p]
  /\ spare' = [spare EXCEPT ![p] = NULL]
  /\ UNCHANGED <<head_chunk, free_list, next, retired, allocated, slotVars,
                 cur, index, nxt, old, popped, histVars>>

(* tail_chunk.compare_exchange_strong(tail, expected) by a thread that lost. *)
PushFollow(p) ==
  /\ Goto(p, "follow", "load")
  /\ tail_chunk' = IF tail_chunk = cur[p] THEN nxt[p] ELSE tail_chunk
  /\ nxt' = [nxt EXCEPT ![p] = NULL]
  /\ UNCHANGED <<head_chunk, free_list, next, retired, allocated, slotVars,
                 cur, index, spare, old, popped, histVars>>

-----------------------------------------------------------------------------
(* release_chunk, called by a push that lost the race and by pop *)

(* Where a consumer resumes after retire_chunk or try_release_chunk. *)
AfterTry(c) == IF popped[c] THEN "idle" ELSE "load"

AfterRelease(t) == IF t \in Producers THEN "follow" ELSE AfterTry(t)

ReleaseLoad(t) ==
  /\ Goto(t, "rel_load", "rel_store")
  /\ old' = [old EXCEPT ![t] = free_list]
  /\ UNCHANGED <<chainVars, slotVars, cur, index, nxt, spare, popped, histVars>>

ReleaseStore(t) ==
  /\ Goto(t, "rel_store", "rel_cas")
  /\ next' = [next EXCEPT ![spare[t]] = old[t]]
  /\ UNCHANGED <<head_chunk, tail_chunk, free_list, retired, allocated, slotVars,
                 cur, index, nxt, spare, old, popped, histVars>>

(* free_list.compare_exchange_weak(old_head, chunk). *)
ReleaseCas(t) ==
  \/ /\ free_list = old[t]
     /\ Goto(t, "rel_cas", AfterRelease(t))
     /\ free_list' = spare[t]
     /\ spare' = [spare EXCEPT ![t] = NULL]
     /\ old' = [old EXCEPT ![t] = NULL]
     /\ popped' = [c \in Consumers |-> popped[c] /\ c # t]
     /\ UNCHANGED <<head_chunk, tail_chunk, next, retired, allocated, slotVars,
                    cur, index, nxt, histVars>>
  \/ /\ Goto(t, "rel_cas", "rel_store")
     /\ old' = [old EXCEPT ![t] = free_list]
     /\ UNCHANGED <<chainVars, slotVars, cur, index, nxt, spare, popped, histVars>>

-----------------------------------------------------------------------------
(* pop(out) *)

(* head_chunk.load, on entry and on every turn of the loop.  head_chunk is *)
(* never null, so the code's early return for a null head is not reached.  *)
PopLoadHead(c) ==
  /\ \/ /\ pc[c] = "idle"
        /\ PhasedUse => \A p \in Producers : pc[p] = "idle" /\ sent[p] = Quota[p]
        /\ owed' = [owed EXCEPT ![c] = (Completed \ Delivered) \ Claimed]
     \/ pc[c] = "load" /\ UNCHANGED owed
  /\ pc' = [pc EXCEPT ![c] = "index"]
  /\ cur' = [cur EXCEPT ![c] = head_chunk]
  /\ UNCHANGED <<chainVars, slotVars, index, nxt, spare, old, popped, sent, got, reused>>

PopLoadIndex(c) ==
  /\ Goto(c, "index", "limit")
  /\ index' = [index EXCEPT ![c] = pop_index[cur[c]]]
  /\ UNCHANGED <<chainVars, slotVars, cur, nxt, spare, old, popped, histVars>>

(* Mutant of NothingLeft: the last claimed slot is not offered. *)
NothingLeftOffByOne(c) == index[c] >= CHUNK_SIZE \/ index[c] + 1 >= push_index[cur[c]]

(* The two tests of pop: chunk consumed, or nothing pushed yet. *)
NothingLeft(c) == index[c] >= CHUNK_SIZE \/ index[c] >= push_index[cur[c]]

(* push_index.load; both tests lead to a load of next. *)
PopLoadPush(c) ==
  /\ Goto(c, "limit", IF NothingLeft(c) THEN "next" ELSE "take")
  /\ UNCHANGED <<chainVars, slotVars, cur, index, nxt, spare, old, popped, histVars>>

(* head->next.load: without a next chunk the queue is empty, pop returns  *)
(* false.                                                                 *)
PopEmpty(c) ==
  /\ next[cur[c]] = NULL
  /\ Goto(c, "next", "idle")
  /\ owed' = [owed EXCEPT ![c] = {}]
  /\ index' = [index EXCEPT ![c] = 0]
  /\ UNCHANGED <<chainVars, slotVars, cur, nxt, spare, old, popped, sent, got, reused>>

PopLoadNext(c) ==
  /\ next[cur[c]] # NULL
  /\ Goto(c, "next", "advance")
  /\ nxt' = [nxt EXCEPT ![c] = next[cur[c]]]
  /\ UNCHANGED <<chainVars, slotVars, cur, index, spare, old, popped, histVars>>

(* head_chunk.compare_exchange_strong(head, next). *)
PopAdvance(c) ==
  /\ Goto(c, "advance", IF head_chunk = cur[c] THEN "retire" ELSE "load")
  /\ head_chunk' = IF head_chunk = cur[c] THEN nxt[c] ELSE head_chunk
  /\ nxt' = [nxt EXCEPT ![c] = NULL]
  /\ UNCHANGED <<tail_chunk, free_list, next, retired, allocated, slotVars,
                 cur, index, spare, old, popped, histVars>>

(* retire_chunk, up to its call of try_release_chunk. *)
PopRetire(c) ==
  /\ Goto(c, "retire", "try")
  /\ retired' = [retired EXCEPT ![cur[c]] = TRUE]
  /\ UNCHANGED <<head_chunk, tail_chunk, free_list, next, allocated, slotVars,
                 cur, index, nxt, spare, old, popped, histVars>>

(* Mutant of PopClaim: a plain store instead of the compare-and-swap. *)
PopClaimNoCas(c) ==
  /\ Goto(c, "take", "enter")
  /\ pop_index' = [pop_index EXCEPT ![cur[c]] = index[c] + 1]
  /\ UNCHANGED <<chainVars, push_index, active_readers, storage, occupied,
                 cur, index, nxt, spare, old, popped, histVars>>

(* pop_index.compare_exchange_weak(index, index + 1). *)
PopClaim(c) ==
  \/ /\ pop_index[cur[c]] = index[c]
     /\ Goto(c, "take", "enter")
     /\ pop_index' = [pop_index EXCEPT ![cur[c]] = index[c] + 1]
     /\ UNCHANGED <<chainVars, push_index, active_readers, storage, occupied,
                    cur, index, nxt, spare, old, popped, histVars>>
  \/ /\ Goto(c, "take", "load")
     /\ UNCHANGED <<chainVars, slotVars, cur, index, nxt, spare, old, popped, histVars>>

PopEnter(c) ==
  /\ Goto(c, "enter", "wait")
  /\ active_readers' = [active_readers EXCEPT ![cur[c]] = @ + 1]
  /\ UNCHANGED <<chainVars, push_index, pop_index, storage, occupied,
                 cur, index, nxt, spare, old, popped, histVars>>

(* Mutant of PopWait: no spin, the slot is read as it is. *)
PopWaitNoSpin(c) ==
  /\ Goto(c, "wait", "move")
  /\ UNCHANGED <<chainVars, slotVars, cur, index, nxt, spare, old, popped, histVars>>

(* The spin on occupied: a claimed slot may not be constructed yet. *)
PopWait(c) ==
  /\ Goto(c, "wait", "move")
  /\ occupied[cur[c]][index[c]]
  /\ UNCHANGED <<chainVars, slotVars, cur, index, nxt, spare, old, popped, histVars>>

(* out = std::move( *node.data_ptr()): out belongs to the caller. *)
PopMove(c) ==
  /\ Goto(c, "move", "destroy")
  /\ got' = [got EXCEPT ![c] = Append(@, storage[cur[c]][index[c]])]
  /\ popped' = [popped EXCEPT ![c] = TRUE]
  /\ owed' = [owed EXCEPT ![c] = {}]
  /\ UNCHANGED <<chainVars, slotVars, cur, index, nxt, spare, old, sent, reused>>

(* Mutant of PopDestroy: the slot of a moved-out value stays occupied. *)
PopDestroyKeepsOccupied(c) ==
  /\ Goto(c, "destroy", "leave")
  /\ UNCHANGED <<chainVars, slotVars, cur, index, nxt, spare, old, popped, histVars>>

(* Node::destroy. *)
PopDestroy(c) ==
  /\ Goto(c, "destroy", "leave")
  /\ occupied' = [occupied EXCEPT ![cur[c]][index[c]] = FALSE]
  /\ UNCHANGED <<chainVars, push_index, pop_index, active_readers, storage,
                 cur, index, nxt, spare, old, popped, histVars>>

PopLeave(c) ==
  /\ Goto(c, "leave", "try")
  /\ active_readers' = [active_readers EXCEPT ![cur[c]] = @ - 1]
  /\ index' = [index EXCEPT ![c] = 0]
  /\ UNCHANGED <<chainVars, push_index, pop_index, storage, occupied,
                 cur, nxt, spare, old, popped, histVars>>

-----------------------------------------------------------------------------
(* try_release_chunk, called by retire_chunk and at the end of pop *)

(* active_readers.load: with readers left, nothing more to do. *)
TryRelease(c) ==
  /\ Goto(c, "try", IF active_readers[cur[c]] = 0 THEN "unretire" ELSE AfterTry(c))
  /\ popped' = [popped EXCEPT ![c] = @ /\ active_readers[cur[c]] = 0]
  /\ UNCHANGED <<chainVars, slotVars, cur, index, nxt, spare, old, histVars>>

(* Mutant of TryUnretire: the chunk is released whether retired or not. *)
TryUnretireUnchecked(c) ==
  /\ Goto(c, "unretire", "rel_load")
  /\ retired' = [retired EXCEPT ![cur[c]] = FALSE]
  /\ spare' = [spare EXCEPT ![c] = cur[c]]
  /\ UNCHANGED <<head_chunk, tail_chunk, free_list, next, allocated, slotVars,
                 cur, index, nxt, old, popped, histVars>>

(* retired.compare_exchange_strong(true, false): one thread wins the right *)
(* to release the chunk.                                                   *)
TryUnretire(c) ==
  IF retired[cur[c]]
  THEN /\ Goto(c, "unretire", "rel_load")
       /\ retired' = [retired EXCEPT ![cur[c]] = FALSE]
       /\ spare' = [spare EXCEPT ![c] = cur[c]]
       /\ UNCHANGED <<head_chunk, tail_chunk, free_list, next, allocated, slotVars,
                      cur, index, nxt, old, popped, histVars>>
  ELSE /\ Goto(c, "unretire", AfterTry(c))
       /\ popped' = [popped EXCEPT ![c] = FALSE]
       /\ UNCHANGED <<chainVars, slotVars, cur, index, nxt, spare, old, histVars>>

-----------------------------------------------------------------------------
PushStep(p) ==
  \/ PushLoadTail(p) \/ PushClaim(p) \/ PushCheck(p) \/ PushConstruct(p)
  \/ PushPublish(p) \/ AllocLoad(p) \/ AllocNext(p) \/ AllocCas(p)
  \/ AllocReset(p) \/ AllocNew(p) \/ PushLink(p) \/ PushSwing(p) \/ PushFollow(p)

PopStep(c) ==
  \/ PopLoadHead(c) \/ PopLoadIndex(c) \/ PopLoadPush(c) \/ PopEmpty(c)
  \/ PopLoadNext(c) \/ PopAdvance(c) \/ PopRetire(c) \/ PopClaim(c)
  \/ PopEnter(c) \/ PopWait(c) \/ PopMove(c) \/ PopDestroy(c) \/ PopLeave(c)
  \/ TryRelease(c) \/ TryUnretire(c)

ReleaseStep(t) == ReleaseLoad(t) \/ ReleaseStore(t) \/ ReleaseCas(t)

Next ==
  \/ \E p \in Producers : PushStep(p)
  \/ \E c \in Consumers : PopStep(c)
  \/ \E t \in Threads : ReleaseStep(t)

Spec == Init /\ [][Next]_vars

(* A runnable thread takes its next step; a weak CAS that keeps finding its *)
(* expected value is not refused for ever.                                  *)
Fairness ==
  /\ \A p \in Producers : WF_vars(PushStep(p)) /\ WF_vars(ReleaseStep(p))
  /\ \A c \in Consumers :
       /\ WF_vars(PopStep(c)) /\ WF_vars(ReleaseStep(c))
       /\ SF_vars(PopClaim(c) /\ pop_index' # pop_index)

FairSpec == Spec /\ Fairness

-----------------------------------------------------------------------------
(* Properties *)

ProducerOnly == {"claim", "check", "construct", "publish", "alloc", "alloc_next",
                 "alloc_cas", "reset", "new", "link", "swing", "follow"}
ConsumerOnly == {"index", "limit", "next", "advance", "retire", "take", "enter",
                 "wait", "move", "destroy", "leave", "try", "unretire"}
Shared == {"idle", "load", "rel_load", "rel_store", "rel_cas"}

SharedTypes ==
  /\ head_chunk \in Chunks /\ tail_chunk \in Chunks
  /\ free_list \in Null(Chunks)
  /\ next \in [Chunks -> Null(Chunks)]
  /\ push_index \in [Chunks -> Nat] /\ pop_index \in [Chunks -> Nat]
  /\ active_readers \in [Chunks -> Int]
  /\ retired \in [Chunks -> BOOLEAN]
  /\ storage \in [Chunks -> [Slots -> Null(Items)]]
  /\ occupied \in [Chunks -> [Slots -> BOOLEAN]]
  /\ allocated \in SUBSET Chunks

LocalTypes ==
  /\ pc \in [Threads -> ProducerOnly \cup ConsumerOnly \cup Shared]
  /\ \A p \in Producers : pc[p] \in ProducerOnly \cup Shared
  /\ \A c \in Consumers : pc[c] \in ConsumerOnly \cup Shared
  /\ cur \in [Threads -> Chunks]
  /\ index \in [Threads -> Nat]
  /\ nxt \in [Threads -> Null(Chunks)]
  /\ spare \in [Threads -> Null(Chunks)]
  /\ old \in [Threads -> Null(Chunks)]
  /\ popped \in [Consumers -> BOOLEAN]

HistoryTypes ==
  /\ sent \in [Producers -> 0 .. MaxItems]
  /\ \A p \in Producers : pc[p] # "idle" => sent[p] < MaxItems
  /\ got \in [Consumers -> Seq(Null(Items))]
  /\ owed \in [Consumers -> SUBSET Items]
  /\ reused \in BOOLEAN

UsesSlot    == {"check", "construct", "publish", "take", "enter", "wait", "move", "destroy"}
Releases    == {"rel_load", "rel_store", "rel_cas"}
UsesSpare   == {"alloc_next", "alloc_cas", "reset", "link", "swing"} \cup Releases

(* A local that is about to be used as a chunk pointer or as a slot number  *)
(* is one.                                                                  *)
PointersValid ==
  /\ \A t \in Threads :
       /\ pc[t] \in UsesSlot => index[t] \in Slots
       /\ pc[t] \in UsesSpare => spare[t] \in Chunks
       /\ pc[t] \in {"advance", "follow"} => nxt[t] \in Chunks
  /\ \A p \in Producers : pc[p] \in Releases => nxt[p] \in Chunks

(* Every variable has its type, and push, pop, allocate_chunk and           *)
(* release_chunk never follow a null pointer or leave the nodes array.      *)
TypeOK == SharedTypes /\ LocalTypes /\ HistoryTypes /\ PointersValid

(* No value is handed out twice, to one consumer or to two: every entry of  *)
(* every consumer's history is a different value (pop's claim by CAS on     *)
(* pop_index and the occupied flag of the slot).                            *)
NoDuplicateDelivery ==
  \A c, d \in Consumers : \A i \in DOMAIN got[c], j \in DOMAIN got[d] :
    got[c][i] = got[d][j] => c = d /\ i = j

(* Duplicates need a recycled chunk: as long as allocate_chunk has only     *)
(* returned new chunks, no value is handed out twice, however many chunks   *)
(* the queue has gone through and whatever the threads do.                  *)
DuplicatesNeedReuse == ~reused => NoDuplicateDelivery

(* The inductive invariant behind DuplicatesNeedReuse, slot by slot. *)

Writes(p) == pc[p] \in {"check", "construct", "publish"}
Reads(c)  == HoldsClaim(c) \/ pc[c] = "destroy"

At(t, k, i) == cur[t] = k /\ index[t] = i

(* A slot that push has claimed is the pusher's until it publishes it. *)
WritersHoldSlots ==
  \A p \in Producers : Writes(p) =>
    /\ index[p] < push_index[cur[p]]
    /\ ~occupied[cur[p]][index[p]]
    /\ storage[cur[p]][index[p]] = IF pc[p] = "publish" THEN Value(p) ELSE NULL

WritersApart ==
  \A p, q \in Producers :
    Writes(p) /\ Writes(q) /\ cur[p] = cur[q] /\ index[p] = index[q] => p = q

UnclaimedEmpty ==
  \A k \in Chunks, i \in Slots :
    i >= push_index[k] => storage[k][i] = NULL /\ ~occupied[k][i]

OccupiedHolds ==
  \A k \in Chunks, i \in Slots : occupied[k][i] => storage[k][i] # NULL

(* The value of producer p in a slot is one p has pushed, or is pushing there. *)
StoredWasSent ==
  \A k \in Chunks, i \in Slots, p \in Producers, n \in 1 .. MaxItems :
    storage[k][i] = <<p, n>> => n <= sent[p] \/ (pc[p] = "publish" /\ At(p, k, i))

ValuesApart ==
  \A k, l \in Chunks, i, j \in Slots :
    storage[k][i] = storage[l][j] /\ storage[k][i] # NULL => k = l /\ i = j

(* A slot that pop has claimed is the popper's until it has destroyed the value. *)
ReadersHoldSlots ==
  \A c \in Consumers :
    /\ Reads(c) => index[c] < pop_index[cur[c]]
    /\ pc[c] = "move" => occupied[cur[c]][index[c]]

ReadersApart ==
  \A c, d \in Consumers :
    Reads(c) /\ Reads(d) /\ cur[c] = cur[d] /\ index[c] = index[d] => c = d

GotWasSent ==
  \A c \in Consumers : \A n \in DOMAIN got[c] :
    \E p \in Producers, m \in 1 .. MaxItems : got[c][n] = <<p, m>> /\ m <= sent[p]

(* Nobody is about to take a value that has already been handed out. *)
GotIsConsumed ==
  \A c \in Consumers, k \in Chunks, i \in Slots : \A n \in DOMAIN got[c] :
    storage[k][i] = got[c][n] =>
      /\ i < pop_index[k]
      /\ \A d \in Consumers : HoldsClaim(d) => ~At(d, k, i)

SlotFacts ==
  /\ WritersHoldSlots /\ WritersApart /\ UnclaimedEmpty /\ OccupiedHolds
  /\ StoredWasSent /\ ValuesApart
  /\ ReadersHoldSlots /\ ReadersApart
  /\ GotWasSent /\ GotIsConsumed /\ NoDuplicateDelivery

SlotInv == TypeOK /\ (~reused => SlotFacts)

(* A value whose push has returned is never lost: a consumer has it, has    *)
(* claimed its slot, or will find it by walking the chain from head_chunk.  *)
NoLoss == Completed \subseteq Delivered \cup Claimed \cup Stored

(* The values of one producer reach a consumer in the order they were       *)
(* pushed (mpmc_queue_test.cpp, EXPECT_GT(item, last_value)).               *)
PerProducerOrder ==
  \A c \in Consumers : \A i, j \in DOMAIN got[c] :
    i < j /\ got[c][i] # NULL /\ got[c][j] # NULL /\ got[c][i][1] = got[c][j][1]
      => got[c][i][2] < got[c][j][2]

(* pop returns false only if every value that was in the queue when it      *)
(* began has been claimed by someone since: it never reports an empty queue *)
(* while a completed push is waiting.                                       *)
EmptyIsHonest ==
  [][\A c \in Consumers :
       PopEmpty(c) => owed[c] \subseteq Delivered \cup Claimed]_vars

Quiescent == \A t \in Threads : pc[t] = "idle"

(* Following next from c ends in nullptr. *)
Ends(c) == c = NULL \/ \E d \in Chain(c) : next[d] = NULL

(* When no call is in progress, ~MPMCQueue frees every chunk exactly once:  *)
(* the chain from head_chunk and the chain from free_list end, share no     *)
(* chunk, and together hold all that operator new returned.                 *)
DestructorFreesEachChunkOnce ==
  Quiescent =>
    /\ Ends(head_chunk) /\ Ends(free_list)
    /\ Chain(head_chunk) \cap Chain(free_list) = {}
    /\ Chain(head_chunk) \cup Chain(free_list) = allocated

(* The accesses of push and pop to the chunk in cur, from the load of the   *)
(* pointer to the last use of it.                                           *)
Uses(t) ==
  pc[t] \in {"claim", "check", "construct", "publish", "link", "index", "limit",
            "next", "take", "enter", "wait", "move", "destroy", "leave"}

(* No thread works on a chunk that has gone back to the free list or that   *)
(* a push is about to link as new: a chunk is recycled only when its last   *)
(* reader and its last writer are done with it (retired, active_readers).   *)
NoUseAfterRelease ==
  \A t \in Threads : Uses(t) =>
    /\ cur[t] \notin Chain(free_list)
    /\ \A p \in Producers : pc[p] \in {"reset", "link"} => cur[t] # spare[p]

(* Everything pushed is eventually popped by consumers that keep polling:   *)
(* no thread spins for ever on a slot that nobody will construct.           *)
EverythingDelivered ==
  \A x \in Items : x[2] <= Quota[x[1]] => <>(x \in Delivered)

=============================================================================
