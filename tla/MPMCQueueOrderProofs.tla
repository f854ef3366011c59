------------------------ MODULE MPMCQueueOrderProofs ------------------------
(***************************************************************************)
(* PerProducerOrder, NoLoss and EmptyIsHonest, as long as allocate_chunk   *)
(* has returned only new chunks.                                           *)
(*                                                                         *)
(* PerProducerOrder: the chunks that head_chunk has passed or will reach   *)
(* are in a line, and the values of a producer grow along it.  The         *)
(* argument is about the order in which chunks fill up: a chunk gets a     *)
(* successor only when it is full, so that a push that starts later cannot *)
(* find a slot in it.  It holds although tail_chunk may go back, pushes    *)
(* may land in chunks that are lost, and release_chunk overwrites next.    *)
(***************************************************************************)
EXTENDS MPMCQueueProofs, WellFoundedInduction

(* A rank r puts the line of chunks in order; chunks that are not (or not   *)
(* yet) part of it have rank 0.                                             *)
Ranks == [Chunks -> Nat]

(* Nothing in memory or in a local other than spare points to chunk s. *)
Unlinked(s) ==
  /\ head_chunk # s /\ tail_chunk # s /\ free_list # s
  /\ \A k \in Chunks : next[k] # s
  /\ \A t \in Threads : cur[t] # s /\ nxt[t] # s /\ old[t] # s

Unused(s) == push_index[s] = 0 /\ next[s] = NULL /\ ~retired[s]

(* A chunk is its allocator's alone until it is linked. *)
AllocInv(r) ==
  /\ \A s \in Chunks : s \notin allocated =>
       Unlinked(s) /\ Unused(s) /\ r[s] = 0 /\ \A t \in Threads : spare[t] # s
  /\ \A p \in Producers : pc[p] = "link" =>
       /\ Unlinked(spare[p]) /\ Unused(spare[p]) /\ r[spare[p]] = 0
       /\ \A t \in Threads : t # p => spare[t] # spare[p]

(* The push of p has found its chunk full. *)
FoundFull(p) == pc[p] \in {"alloc", "alloc_next", "alloc_cas", "reset", "new", "link"}

(* From head_chunk on next follows the line; what is released or retired    *)
(* lies behind; every chunk of the line but the last one is full.           *)
LineInv(r) ==
  /\ r[head_chunk] > 0
  /\ \A k, l \in Chunks : r[k] = r[l] /\ r[k] > 0 => k = l
  /\ \A k \in Chunks : r[k] >= r[head_chunk] =>
       IF next[k] = NULL THEN \A l \in Chunks : r[l] <= r[k] ELSE r[next[k]] = r[k] + 1
  /\ \A k, l \in Chunks : 0 < r[k] /\ r[k] < r[l] => push_index[k] >= CHUNK_SIZE
  /\ \A p \in Producers : FoundFull(p) => push_index[cur[p]] >= CHUNK_SIZE

PassedInv(r) ==
  /\ \A k \in Chunks : retired[k] => r[k] < r[head_chunk]
  /\ \A t \in Threads : pc[t] \in Releases => r[spare[t]] < r[head_chunk]
  /\ \A c \in Consumers :
       /\ r[cur[c]] > 0 /\ r[cur[c]] <= r[head_chunk]
       /\ pc[c] = "retire" => r[cur[c]] < r[head_chunk]
       /\ pc[c] = "advance" /\ cur[c] = head_chunk => nxt[c] = next[head_chunk]

(* Slot i of chunk k comes before slot j of chunk l in the line. *)
Before(r, k, i, l, j) == r[k] > 0 /\ (r[k] < r[l] \/ (k = l /\ i < j))

(* The values of a producer grow along the line, also the one that is       *)
(* being pushed.                                                            *)
ValuesInv(r) ==
  /\ \A k, l \in Chunks, i, j \in Slots, p \in Producers, m, n \in 1 .. MaxItems :
       storage[k][i] = <<p, m>> /\ storage[l][j] = <<p, n>> /\ Before(r, k, i, l, j) => m < n
  /\ \A p \in Producers, l \in Chunks, j \in Slots, n \in 1 .. MaxItems :
       Writes(p) /\ Before(r, cur[p], index[p], l, j) => storage[l][j] # <<p, n>>

(* The slot a value was popped from, before the one its consumer is at. *)
Source(r, c, v, k, i) ==
  /\ storage[k][i] = v /\ i < pop_index[k] /\ 0 < r[k] /\ r[k] <= r[cur[c]]
  /\ HoldsClaim(c) => Before(r, k, i, cur[c], index[c])

(* Consumers move along the line. *)
PopsInv(r) ==
  /\ \A c \in Consumers : \A n \in DOMAIN got[c] :
       \E k \in Chunks, i \in Slots : Source(r, c, got[c][n], k, i)
  /\ PerProducerOrder

OrderFacts(r) == AllocInv(r) /\ LineInv(r) /\ PassedInv(r) /\ ValuesInv(r) /\ PopsInv(r)

OrderInv == SlotInv /\ (~reused => \E r \in Ranks : OrderFacts(r))

-----------------------------------------------------------------------------
(* What a step of one thread leaves alone *)

(* The locals of the other threads do not change. *)
OthersStay(t) ==
  \A u \in Threads : u # t =>
    /\ pc'[u] = pc[u] /\ cur'[u] = cur[u] /\ index'[u] = index[u]
    /\ nxt'[u] = nxt[u] /\ spare'[u] = spare[u]

(* Thread t only copies pointers that it has found in memory or holds in    *)
(* spare, and works only on chunks that it has found there.                 *)
CopiesPointers(t) ==
  \A s \in Chunks : Unlinked(s) /\ spare[t] # s =>
    Unlinked(s)' /\ spare'[t] # s /\ (Unused(s) => Unused(s)')

LEMMA NullIsNoValue ==
  ASSUME NEW q \in Producers, NEW n \in 1 .. MaxItems
  PROVE  <<q, n>> # NULL
  BY QueueAssumption

LEMMA AllocKept ==
  ASSUME NEW r \in Ranks, AllocInv(r), TypeOK, NEW t \in Threads,
         OthersStay(t), CopiesPointers(t), allocated' = allocated,
         pc[t] # "link", pc'[t] # "link"
  PROVE  AllocInv(r)'
  <1>0. Producers \subseteq Threads
    BY DEF Threads
  <1>1. ASSUME NEW s \in Chunks, s \notin allocated
        PROVE  Unlinked(s)' /\ Unused(s)' /\ r[s] = 0 /\ \A u \in Threads : spare'[u] # s
    <2>1. Unlinked(s) /\ Unused(s) /\ r[s] = 0 /\ \A u \in Threads : spare[u] # s
      BY <1>1 DEF AllocInv
    <2> QED
      BY <2>1 DEF CopiesPointers, OthersStay
  <1>2. ASSUME NEW p \in Producers, pc'[p] = "link"
        PROVE  /\ Unlinked(spare[p])' /\ Unused(spare[p])' /\ r[spare'[p]] = 0
               /\ \A u \in Threads : u # p => spare'[u] # spare'[p]
    <2>1. p # t /\ pc[p] = "link" /\ p \in Threads /\ spare'[p] = spare[p]
      BY <1>0, <1>2 DEF OthersStay
    <2>2. PICK s \in Chunks : s = spare[p]
      BY <2>1 DEF TypeOK, PointersValid, UsesSpare
    <2>3. Unlinked(s) /\ Unused(s) /\ r[s] = 0 /\ \A u \in Threads : u # p => spare[u] # s
      BY <2>1, <2>2 DEF AllocInv
    <2>4. Unlinked(s)' /\ Unused(s)' /\ spare'[t] # s
      BY <2>1, <2>3 DEF CopiesPointers
    <2>5. \A u \in Threads : u # p => spare'[u] # s
      BY <2>3, <2>4 DEF OthersStay
    <2> QED
      BY <2>1, <2>2, <2>3, <2>4, <2>5 DEF Unlinked, Unused
  <1> QED
    BY <1>1, <1>2 DEF AllocInv

LEMMA LineKept ==
  ASSUME NEW r \in Ranks, LineInv(r), TypeOK, TypeOK', NEW t \in Threads,
         OthersStay(t), head_chunk' = head_chunk,
         \A k \in Chunks : next'[k] = next[k] \/ r[k] < r[head_chunk],
         \A k \in Chunks : push_index'[k] >= push_index[k],
         t \in Producers /\ FoundFull(t)' => push_index'[cur'[t]] >= CHUNK_SIZE
  PROVE  LineInv(r)'
  <1> USE QueueAssumption DEF Ranks
  <1>0. /\ push_index \in [Chunks -> Nat] /\ push_index' \in [Chunks -> Nat]
        /\ head_chunk \in Chunks /\ CHUNK_SIZE \in Nat
    BY DEF TypeOK, SharedTypes
  <1>1. \A k \in Chunks : r[k] >= r[head_chunk] => next'[k] = next[k]
    BY <1>0
  <1>2. \A k \in Chunks : push_index[k] >= CHUNK_SIZE => push_index'[k] >= CHUNK_SIZE
    BY <1>0
  <1>3. ASSUME NEW p \in Producers, FoundFull(p)' PROVE push_index'[cur'[p]] >= CHUNK_SIZE
    <2>1. CASE p = t
      BY <1>3, <2>1
    <2>2. CASE p # t
      <3>1. FoundFull(p) /\ cur'[p] = cur[p] /\ cur[p] \in Chunks
        BY <1>3, <2>2 DEF OthersStay, FoundFull, Threads, TypeOK, LocalTypes
      <3> QED
        BY <1>2, <3>1 DEF LineInv
    <2> QED
      BY <2>1, <2>2
  <1>4. \A k \in Chunks : r[k] >= r[head_chunk'] =>
          IF next'[k] = NULL THEN \A l \in Chunks : r[l] <= r[k] ELSE r[next'[k]] = r[k] + 1
    BY <1>1 DEF LineInv
  <1>5. \A k, l \in Chunks : 0 < r[k] /\ r[k] < r[l] => push_index'[k] >= CHUNK_SIZE
    BY <1>2 DEF LineInv
  <1> QED
    BY <1>3, <1>4, <1>5 DEF LineInv

LEMMA PassedKept ==
  ASSUME NEW r \in Ranks, PassedInv(r), TypeOK, NEW t \in Threads,
         OthersStay(t), head_chunk' = head_chunk, next'[head_chunk] = next[head_chunk],
         \A k \in Chunks : retired'[k] => retired[k] \/ r[k] < r[head_chunk],
         pc'[t] \in Releases => r[spare'[t]] < r[head_chunk],
         t \in Consumers =>
           /\ r[cur'[t]] > 0 /\ r[cur'[t]] <= r[head_chunk]
           /\ pc'[t] = "retire" => r[cur'[t]] < r[head_chunk]
           /\ pc'[t] = "advance" /\ cur'[t] = head_chunk => nxt'[t] = next[head_chunk]
  PROVE  PassedInv(r)'
  <1>1. \A k \in Chunks : retired'[k] => r[k] < r[head_chunk']
    BY DEF PassedInv
  <1>2. \A u \in Threads : pc'[u] \in Releases => r[spare'[u]] < r[head_chunk']
    BY DEF PassedInv, OthersStay
  <1>3. ASSUME NEW c \in Consumers
        PROVE  /\ r[cur'[c]] > 0 /\ r[cur'[c]] <= r[head_chunk']
               /\ pc'[c] = "retire" => r[cur'[c]] < r[head_chunk']
               /\ pc'[c] = "advance" /\ cur'[c] = head_chunk' => nxt'[c] = next'[head_chunk']
    BY DEF PassedInv, OthersStay, Threads
  <1> QED
    BY <1>1, <1>2, <1>3 DEF PassedInv, Releases

LEMMA ValuesKept ==
  ASSUME NEW r \in Ranks, ValuesInv(r), NEW t \in Threads, OthersStay(t), storage' = storage,
         t \in Producers /\ Writes(t)' => Writes(t) /\ cur'[t] = cur[t] /\ index'[t] = index[t]
  PROVE  ValuesInv(r)'
  <1>1. \A p \in Producers : Writes(p)' => Writes(p) /\ cur'[p] = cur[p] /\ index'[p] = index[p]
    BY DEF OthersStay, Writes, Threads
  <1> QED
    BY <1>1 DEF ValuesInv, Before

LEMMA PopsKept ==
  ASSUME NEW r \in Ranks, PopsInv(r), TypeOK, TypeOK', NEW t \in Threads, OthersStay(t),
         storage' = storage, got' = got,
         \A k \in Chunks : pop_index'[k] >= pop_index[k],
         t \in Consumers =>
           /\ r[cur'[t]] >= r[cur[t]]
           /\ HoldsClaim(t)' => HoldsClaim(t) /\ cur'[t] = cur[t] /\ index'[t] = index[t]
  PROVE  PopsInv(r)'
  <1>1. ASSUME NEW c \in Consumers
        PROVE  /\ r[cur'[c]] >= r[cur[c]]
               /\ HoldsClaim(c)' => HoldsClaim(c) /\ cur'[c] = cur[c] /\ index'[c] = index[c]
    <2>1. CASE c = t
      BY <2>1
    <2>2. CASE c # t
      <3>1. cur'[c] = cur[c] /\ index'[c] = index[c] /\ pc'[c] = pc[c] /\ r[cur[c]] \in Nat
        BY <2>2 DEF OthersStay, Threads, TypeOK, LocalTypes, Ranks
      <3> QED
        BY <3>1 DEF HoldsClaim
    <2> QED
      BY <2>1, <2>2
  <1>2. /\ pop_index \in [Chunks -> Nat] /\ pop_index' \in [Chunks -> Nat]
        /\ \A c \in Consumers : cur[c] \in Chunks /\ cur'[c] \in Chunks
    BY DEF TypeOK, SharedTypes, LocalTypes, Threads
  <1>3. ASSUME NEW c \in Consumers, NEW n \in DOMAIN got[c]
        PROVE  \E k \in Chunks, i \in Slots : Source(r, c, got[c][n], k, i)'
    <2>1. PICK k \in Chunks, i \in Slots : Source(r, c, got[c][n], k, i)
      BY DEF PopsInv
    <2>2. r[k] \in Nat /\ r[cur[c]] \in Nat /\ r[cur'[c]] \in Nat /\ i \in Int
      BY <1>2 DEF Ranks, Slots
    <2>3. i < pop_index'[k]
      BY <1>2, <2>1, <2>2 DEF Source
    <2>4. r[k] <= r[cur'[c]]
      BY <1>1, <2>1, <2>2 DEF Source
    <2>5. Source(r, c, got[c][n], k, i)'
      BY <1>1, <2>1, <2>3, <2>4 DEF Source, Before
    <2> QED
      BY <2>5
  <1>4. PerProducerOrder'
    BY DEF PopsInv, PerProducerOrder
  <1> QED
    BY <1>3, <1>4 DEF PopsInv

(* A step of thread t that disturbs no order: it fills, claims and moves    *)
(* nothing, links nothing and leaves head_chunk where it is.                *)
Quiet(r, t) ==
  /\ OthersStay(t) /\ CopiesPointers(t)
  /\ UNCHANGED <<head_chunk, allocated, push_index, pop_index, storage, got>>
  /\ pc[t] # "link" /\ pc'[t] # "link"
  /\ \A k \in Chunks :
       /\ next'[k] = next[k] \/ r[k] < r[head_chunk]
       /\ retired'[k] => retired[k] \/ r[k] < r[head_chunk]
  /\ pc'[t] \in Releases => r[spare'[t]] < r[head_chunk]
  /\ t \in Producers =>
       /\ FoundFull(t)' => FoundFull(t) /\ cur'[t] = cur[t]
       /\ Writes(t)' => Writes(t) /\ cur'[t] = cur[t] /\ index'[t] = index[t]
  /\ t \in Consumers =>
       /\ cur'[t] \in {cur[t], head_chunk}
       /\ pc'[t] = "retire" => r[cur'[t]] < r[head_chunk]
       /\ pc'[t] = "advance" /\ cur'[t] = head_chunk => nxt'[t] = next[head_chunk]
       /\ HoldsClaim(t)' => HoldsClaim(t) /\ cur'[t] = cur[t] /\ index'[t] = index[t]

LEMMA QuietKeepsOrder ==
  ASSUME NEW r \in Ranks, OrderFacts(r), TypeOK, TypeOK', NEW t \in Threads, Quiet(r, t)
  PROVE  OrderFacts(r)'
  <1>0. /\ head_chunk \in Chunks /\ r[head_chunk] \in Nat
        /\ push_index \in [Chunks -> Nat] /\ pop_index \in [Chunks -> Nat]
        /\ cur[t] \in Chunks /\ r[cur[t]] \in Nat
    BY DEF TypeOK, SharedTypes, LocalTypes, Ranks
  <1>1. /\ \A k \in Chunks : push_index'[k] >= push_index[k] /\ pop_index'[k] >= pop_index[k]
        /\ next'[head_chunk] = next[head_chunk]
    BY <1>0 DEF Quiet
  <1>2. AllocInv(r)'
    BY AllocKept DEF Quiet, OrderFacts
  <1>3. LineInv(r)'
    <2>1. t \in Producers /\ FoundFull(t)' => push_index'[cur'[t]] >= CHUNK_SIZE
      BY DEF Quiet, OrderFacts, LineInv
    <2> QED
      BY <1>1, <2>1, LineKept DEF Quiet, OrderFacts
  <1>4. t \in Consumers => /\ r[cur'[t]] > 0 /\ r[cur'[t]] <= r[head_chunk]
                           /\ r[cur'[t]] >= r[cur[t]]
    BY <1>0 DEF Quiet, OrderFacts, LineInv, PassedInv
  <1>5. PassedInv(r)'
    BY <1>1, <1>4, PassedKept DEF Quiet, OrderFacts
  <1>6. ValuesInv(r)'
    BY ValuesKept DEF Quiet, OrderFacts
  <1>7. PopsInv(r)'
    BY <1>1, <1>4, PopsKept DEF Quiet, OrderFacts
  <1> QED
    BY <1>2, <1>3, <1>5, <1>6, <1>7 DEF OrderFacts

(* Most steps of push are quiet. *)
LEMMA PushQuiet ==
  ASSUME NEW r \in Ranks, OrderFacts(r), TypeOK, NEW p \in Producers,
         \/ PushLoadTail(p) \/ PushCheck(p) \/ PushPublish(p) \/ AllocLoad(p)
         \/ AllocNext(p) \/ AllocCas(p) \/ PushSwing(p) \/ PushFollow(p)
  PROVE  Quiet(r, p)
  <1>0. p \in Threads /\ p \notin Consumers
    BY QueueAssumption DEF Threads
  <1>1. /\ OthersStay(p) /\ pc[p] # "link" /\ pc'[p] # "link" /\ pc'[p] \notin Releases
        /\ UNCHANGED <<head_chunk, allocated, push_index, pop_index, storage, got, next, retired>>
        /\ FoundFull(p)' => FoundFull(p) /\ cur'[p] = cur[p]
        /\ Writes(p)' => Writes(p) /\ cur'[p] = cur[p] /\ index'[p] = index[p]
    <2> USE <1>0 DEF OthersStay, TypeOK, LocalTypes, Releases, FoundFull, Writes, Goto, chainVars,
          slotVars, histVars
    <2>1. CASE PushLoadTail(p)
      BY <2>1 DEF PushLoadTail
    <2>2. CASE PushCheck(p)
      BY <2>2 DEF PushCheck
    <2>3. CASE PushPublish(p)
      BY <2>3 DEF PushPublish
    <2>4. CASE AllocLoad(p)
      BY <2>4 DEF AllocLoad, AfterAlloc
    <2>5. CASE AllocNext(p)
      BY <2>5 DEF AllocNext
    <2>6. CASE AllocCas(p)
      BY <2>6 DEF AllocCas, AfterAlloc
    <2>7. CASE PushSwing(p)
      BY <2>7 DEF PushSwing
    <2>8. CASE PushFollow(p)
      BY <2>8 DEF PushFollow
    <2> QED
      BY <2>1, <2>2, <2>3, <2>4, <2>5, <2>6, <2>7, <2>8
  <1>2. CopiesPointers(p)
    <2> SUFFICES ASSUME NEW s \in Chunks, Unlinked(s), spare[p] # s
                 PROVE  Unlinked(s)' /\ spare'[p] # s /\ (Unused(s) => Unused(s)')
      BY DEF CopiesPointers
    <2>0. Unused(s) => Unused(s)'
      BY <1>1 DEF Unused
    <2> USE <1>0, <1>1 DEF Unlinked, TypeOK, LocalTypes, SharedTypes, PointersValid, Goto,
          chainVars
    <2>1. CASE PushLoadTail(p)
      BY <2>0, <2>1 DEF PushLoadTail
    <2>2. CASE PushCheck(p)
      BY <2>0, <2>2 DEF PushCheck
    <2>3. CASE PushPublish(p)
      BY <2>0, <2>3 DEF PushPublish
    <2>4. CASE AllocLoad(p)
      BY <2>0, <2>4 DEF AllocLoad
    <2>5. CASE AllocNext(p)
      BY <2>0, <2>5 DEF AllocNext, UsesSpare
    <2>6. CASE AllocCas(p)
      BY <2>0, <2>6, QueueAssumption DEF AllocCas
    <2>7. CASE PushSwing(p)
      BY <2>0, <2>7, QueueAssumption DEF PushSwing
    <2>8. CASE PushFollow(p)
      BY <2>0, <2>8, QueueAssumption DEF PushFollow
    <2> QED
      BY <2>1, <2>2, <2>3, <2>4, <2>5, <2>6, <2>7, <2>8
  <1> QED
    BY <1>0, <1>1, <1>2 DEF Quiet

(* So is release_chunk: the chunk it writes to lies behind head_chunk. *)
LEMMA ReleaseQuiet ==
  ASSUME NEW r \in Ranks, OrderFacts(r), TypeOK, NEW t \in Threads, ReleaseStep(t)
  PROVE  Quiet(r, t)
  <1>0. pc[t] \in Releases /\ spare[t] \in Chunks /\ r[spare[t]] < r[head_chunk]
    BY DEF ReleaseStep, ReleaseLoad, ReleaseStore, ReleaseCas, Goto, Releases, TypeOK,
           PointersValid, UsesSpare, OrderFacts, PassedInv
  <1>1. /\ OthersStay(t) /\ pc[t] # "link" /\ cur'[t] = cur[t]
        /\ pc'[t] \in Releases \cup {"follow", "idle", "load"}
        /\ UNCHANGED <<head_chunk, allocated, push_index, pop_index, storage, got, retired>>
        /\ pc'[t] \in Releases => spare'[t] = spare[t]
        /\ \A k \in Chunks : next'[k] = next[k] \/ k = spare[t]
    <2> USE <1>0 DEF OthersStay, TypeOK, LocalTypes, SharedTypes, Releases, Goto, chainVars,
          slotVars, histVars
    <2>1. CASE ReleaseLoad(t)
      BY <2>1 DEF ReleaseLoad
    <2>2. CASE ReleaseStore(t)
      BY <2>2 DEF ReleaseStore
    <2>3. CASE ReleaseCas(t)
      BY <2>3 DEF ReleaseCas, AfterRelease, AfterTry
    <2> QED
      BY <2>1, <2>2, <2>3 DEF ReleaseStep
  <1>2. CopiesPointers(t)
    <2> SUFFICES ASSUME NEW s \in Chunks, Unlinked(s), spare[t] # s
                 PROVE  Unlinked(s)' /\ spare'[t] # s /\ (Unused(s) => Unused(s)')
      BY DEF CopiesPointers
    <2>0. Unused(s) => Unused(s)'
      BY <1>1 DEF Unused
    <2> USE <1>0, <1>1, QueueAssumption DEF Unlinked, TypeOK, LocalTypes, SharedTypes, Goto,
          chainVars
    <2>1. CASE ReleaseLoad(t)
      BY <2>0, <2>1 DEF ReleaseLoad
    <2>2. CASE ReleaseStore(t)
      BY <2>0, <2>2 DEF ReleaseStore
    <2>3. CASE ReleaseCas(t)
      BY <2>0, <2>3 DEF ReleaseCas
    <2> QED
      BY <2>1, <2>2, <2>3 DEF ReleaseStep
  <1> QED
    BY <1>0, <1>1, <1>2 DEF Quiet, Releases, FoundFull, Writes, HoldsClaim

(* Most steps of pop are quiet. *)
LEMMA PopQuiet ==
  ASSUME NEW r \in Ranks, OrderFacts(r), TypeOK, NEW c \in Consumers,
         \/ PopLoadHead(c) \/ PopLoadIndex(c) \/ PopLoadPush(c) \/ PopEmpty(c)
         \/ PopLoadNext(c) \/ PopRetire(c) \/ PopEnter(c) \/ PopWait(c) \/ PopDestroy(c)
         \/ PopLeave(c) \/ TryRelease(c) \/ TryUnretire(c)
  PROVE  Quiet(r, c)
  <1>0. c \in Threads /\ c \notin Producers /\ cur[c] \in Chunks
    BY QueueAssumption DEF Threads, TypeOK, LocalTypes
  <1>1. /\ OthersStay(c) /\ pc[c] # "link" /\ pc'[c] # "link"
        /\ UNCHANGED <<head_chunk, allocated, push_index, pop_index, storage, got, next>>
        /\ cur'[c] \in {cur[c], head_chunk}
        /\ HoldsClaim(c)' => HoldsClaim(c) /\ cur'[c] = cur[c] /\ index'[c] = index[c]
        /\ pc'[c] # "retire"
        /\ pc'[c] = "advance" => nxt'[c] = next[cur[c]] /\ cur'[c] = cur[c]
        /\ \A k \in Chunks : retired'[k] => retired[k] \/ (k = cur[c] /\ pc[c] = "retire")
        /\ pc'[c] \in Releases => spare'[c] = cur[c] /\ retired[cur[c]]
    <2> USE <1>0 DEF OthersStay, TypeOK, LocalTypes, SharedTypes, Releases, HoldsClaim, Goto,
          chainVars, slotVars, histVars
    <2>1. CASE PopLoadHead(c)
      BY <2>1 DEF PopLoadHead
    <2>2. CASE PopLoadIndex(c)
      BY <2>2 DEF PopLoadIndex
    <2>3. CASE PopLoadPush(c)
      BY <2>3 DEF PopLoadPush
    <2>4. CASE PopEmpty(c)
      BY <2>4 DEF PopEmpty
    <2>5. CASE PopLoadNext(c)
      BY <2>5 DEF PopLoadNext
    <2>6. CASE PopRetire(c)
      BY <2>6 DEF PopRetire
    <2>7. CASE PopEnter(c)
      BY <2>7 DEF PopEnter
    <2>8. CASE PopWait(c)
      BY <2>8 DEF PopWait
    <2>9. CASE PopDestroy(c)
      BY <2>9 DEF PopDestroy
    <2>10. CASE PopLeave(c)
      BY <2>10 DEF PopLeave
    <2>11. CASE TryRelease(c)
      BY <2>11 DEF TryRelease, AfterTry
    <2>12. CASE TryUnretire(c)
      BY <2>12 DEF TryUnretire, AfterTry
    <2> QED
      BY <2>1, <2>2, <2>3, <2>4, <2>5, <2>6, <2>7, <2>8, <2>9, <2>10, <2>11, <2>12
  <1>2. CopiesPointers(c)
    <2> SUFFICES ASSUME NEW s \in Chunks, Unlinked(s), spare[c] # s
                 PROVE  Unlinked(s)' /\ spare'[c] # s /\ (Unused(s) => Unused(s)')
      BY DEF CopiesPointers
    <2>0. Unused(s) => Unused(s)'
      BY <1>0, <1>1 DEF Unused, Unlinked
    <2>1. cur'[c] # s /\ nxt'[c] # s /\ old'[c] # s /\ spare'[c] # s
      <3> USE <1>0 DEF Unlinked, TypeOK, LocalTypes, Goto
      <3>1. CASE PopLoadHead(c)
        BY <3>1 DEF PopLoadHead
      <3>2. CASE PopLoadNext(c)
        BY <3>2 DEF PopLoadNext
      <3>3. CASE TryUnretire(c)
        BY <3>3 DEF TryUnretire
      <3>4. CASE ~(PopLoadHead(c) \/ PopLoadNext(c) \/ TryUnretire(c))
        BY <3>4 DEF PopLoadIndex, PopLoadPush, PopEmpty, PopRetire, PopEnter, PopWait,
                    PopDestroy, PopLeave, TryRelease
      <3> QED
        BY <3>1, <3>2, <3>3, <3>4
    <2>2. UNCHANGED <<tail_chunk, free_list>> /\ \A u \in Threads : u # c => old'[u] = old[u]
      BY <1>0 DEF PopLoadHead, PopLoadIndex, PopLoadPush, PopEmpty, PopLoadNext, PopRetire,
         PopEnter, PopWait, PopDestroy, PopLeave, TryRelease, TryUnretire, chainVars
    <2> QED
      BY <1>1, <2>0, <2>1, <2>2 DEF Unlinked, OthersStay
  <1>3. \A k \in Chunks : retired'[k] => retired[k] \/ r[k] < r[head_chunk]
    BY <1>1 DEF OrderFacts, PassedInv
  <1>4. pc'[c] \in Releases => r[spare'[c]] < r[head_chunk]
    BY <1>0, <1>1 DEF OrderFacts, PassedInv
  <1> QED
    BY <1>0, <1>1, <1>2, <1>3, <1>4 DEF Quiet

-----------------------------------------------------------------------------
(* The steps that matter *)

(* A claimed slot lies behind every value of the line: in a chunk that has  *)
(* a successor there is no slot left to claim.                              *)
LEMMA PushClaimKeepsOrder ==
  ASSUME NEW r \in Ranks, OrderFacts(r), SlotFacts, TypeOK, TypeOK',
         NEW p \in Producers, PushClaim(p)
  PROVE  OrderFacts(r)'
  <1> DEFINE k0 == cur[p]
             i0 == push_index[k0]
  <1>0. /\ p \in Threads /\ p \notin Consumers /\ k0 \in Chunks /\ i0 \in Nat
        /\ push_index \in [Chunks -> Nat] /\ pop_index \in [Chunks -> Nat]
        /\ r \in [Chunks -> Nat] /\ CHUNK_SIZE \in Nat
    BY QueueAssumption DEF Threads, TypeOK, LocalTypes, SharedTypes, Ranks
  <1>1. /\ OthersStay(p) /\ pc[p] = "claim" /\ pc'[p] \in {"check", "alloc"}
        /\ pc'[p] = "check" <=> i0 < CHUNK_SIZE
        /\ cur'[p] = k0 /\ index'[p] = i0
        /\ UNCHANGED <<chainVars, pop_index, storage, got, cur, nxt, spare, old>>
        /\ push_index' = [push_index EXCEPT ![k0] = i0 + 1]
    BY <1>0 DEF PushClaim, HasRoom, OthersStay, TypeOK, LocalTypes, histVars
  <1>2. \A k \in Chunks : /\ push_index'[k] >= push_index[k]
                          /\ k # k0 => push_index'[k] = push_index[k]
    BY <1>0, <1>1
  <1>3. AllocInv(r)'
    <2>1. CopiesPointers(p)
      BY <1>1, <1>2 DEF CopiesPointers, Unlinked, Unused, chainVars, Threads
    <2> QED
      BY <1>0, <1>1, <2>1, AllocKept DEF OrderFacts, chainVars
  <1>4. LineInv(r)'
    <2>1. FoundFull(p)' => push_index'[cur'[p]] >= CHUNK_SIZE
      BY <1>0, <1>1 DEF FoundFull
    <2> QED
      BY <1>0, <1>1, <1>2, <2>1, LineKept DEF OrderFacts, chainVars
  <1>5. PassedInv(r)'
    BY <1>0, <1>1, PassedKept DEF OrderFacts, chainVars, Releases
  <1>6. ValuesInv(r)'
    <2>1. \A k, l \in Chunks, i, j \in Slots, q \in Producers, m, n \in 1 .. MaxItems :
            storage'[k][i] = <<q, m>> /\ storage'[l][j] = <<q, n>> /\ Before(r, k, i, l, j)
              => m < n
      BY <1>1 DEF OrderFacts, ValuesInv
    <2>2. ASSUME NEW q \in Producers, NEW l \in Chunks, NEW j \in Slots, NEW n \in 1 .. MaxItems,
                 Writes(q)', Before(r, cur[q], index[q], l, j)'
          PROVE  storage'[l][j] # <<q, n>>
      <3>1. CASE q # p
        BY <1>1, <2>2, <3>1 DEF OrderFacts, ValuesInv, OthersStay, Writes, Before, Threads
      <3>2. CASE q = p
        <4>1. i0 < CHUNK_SIZE /\ Before(r, k0, i0, l, j)
          BY <1>1, <2>2, <3>2 DEF Writes, Before
        <4>2. ~(0 < r[k0] /\ r[k0] < r[l])
          BY <1>0, <4>1 DEF OrderFacts, LineInv
        <4>3. l = k0 /\ i0 < j
          BY <1>0, <4>1, <4>2 DEF Before
        <4>4. storage[l][j] = NULL
          BY <1>0, <4>3 DEF SlotFacts, UnclaimedEmpty, Slots
        <4> QED
          BY <1>1, <4>4, QueueAssumption
      <3> QED
        BY <3>1, <3>2
    <2> QED
      BY <2>1, <2>2 DEF ValuesInv, Before
  <1>7. PopsInv(r)'
    BY <1>0, <1>1, PopsKept DEF OrderFacts
  <1> QED
    BY <1>3, <1>4, <1>5, <1>6, <1>7 DEF OrderFacts

(* The value that is constructed is the largest of its producer. *)
LEMMA PushConstructKeepsOrder ==
  ASSUME NEW r \in Ranks, OrderFacts(r), SlotFacts, TypeOK, TypeOK',
         NEW p \in Producers, PushConstruct(p)
  PROVE  OrderFacts(r)'
  <1> DEFINE k0 == cur[p]
             i0 == index[p]
             n0 == sent[p] + 1
  <1>0. /\ p \in Threads /\ p \notin Consumers /\ k0 \in Chunks /\ i0 \in Slots
        /\ storage \in [Chunks -> [Slots -> Null(Items)]] /\ sent[p] \in Nat
        /\ pc[p] = "construct" /\ n0 \in Nat
        /\ push_index \in [Chunks -> Nat] /\ pop_index \in [Chunks -> Nat]
    <2>1. pc[p] = "construct" /\ p \in Threads /\ p \notin Consumers
      BY QueueAssumption DEF PushConstruct, Goto, Threads
    <2>2. k0 \in Chunks /\ i0 \in Slots
      BY <2>1 DEF TypeOK, LocalTypes, PointersValid, UsesSlot
    <2>3. sent[p] \in Nat /\ n0 \in Nat
      BY QueueAssumption DEF TypeOK, HistoryTypes
    <2> QED
      BY <2>1, <2>2, <2>3 DEF TypeOK, SharedTypes
  <1>1. /\ OthersStay(p) /\ pc'[p] = "publish"
        /\ UNCHANGED <<chainVars, push_index, pop_index, got, cur, index, nxt, spare, old>>
        /\ storage' = [storage EXCEPT ![k0][i0] = <<p, n0>>]
    BY <1>0 DEF PushConstruct, Goto, Value, OthersStay, TypeOK, LocalTypes, histVars
  <1>2. \A k \in Chunks, i \in Slots :
          storage'[k][i] = IF k = k0 /\ i = i0 THEN <<p, n0>> ELSE storage[k][i]
    BY <1>0, <1>1
  <1>3. storage[k0][i0] = NULL
    BY <1>0 DEF SlotFacts, WritersHoldSlots, Writes
  <1>4. \A k \in Chunks, i \in Slots, m \in 1 .. MaxItems : storage[k][i] = <<p, m>> => m < n0
    BY <1>0 DEF SlotFacts, StoredWasSent
  <1> HIDE DEF k0, i0, n0
  <1>5. \A k \in Chunks : push_index'[k] >= push_index[k] /\ pop_index'[k] >= pop_index[k]
    BY <1>0, <1>1
  <1>6. AllocInv(r)'
    <2>1. CopiesPointers(p)
      BY <1>1 DEF CopiesPointers, Unlinked, Unused, chainVars
    <2> QED
      BY <1>0, <1>1, <2>1, AllocKept DEF OrderFacts, chainVars
  <1>7. LineInv(r)'
    BY <1>0, <1>1, <1>5, LineKept DEF OrderFacts, chainVars, FoundFull
  <1>8. PassedInv(r)'
    BY <1>0, <1>1, PassedKept DEF OrderFacts, chainVars, Releases
  <1>9. ValuesInv(r)'
    <2>1. ASSUME NEW l \in Chunks, NEW j \in Slots, NEW n \in 1 .. MaxItems,
                 Before(r, k0, i0, l, j)
          PROVE  storage'[l][j] # <<p, n>>
      <3>1. storage[l][j] # <<p, n>>
        BY <1>0, <2>1 DEF OrderFacts, ValuesInv, Writes, k0, i0
      <3>2. ~(l = k0 /\ j = i0)
        BY <1>0, <2>1 DEF Before, Slots, Ranks
      <3> QED
        BY <1>2, <3>1, <3>2
    <2>2. ASSUME NEW k \in Chunks, NEW l \in Chunks, NEW i \in Slots, NEW j \in Slots,
                 NEW q \in Producers, NEW m \in 1 .. MaxItems, NEW n \in 1 .. MaxItems,
                 storage'[k][i] = <<q, m>>, storage'[l][j] = <<q, n>>, Before(r, k, i, l, j)
          PROVE  m < n
      <3>1. CASE k = k0 /\ i = i0
        <4>1. q = p
          BY <1>2, <2>2, <3>1
        <4> QED
          BY <2>1, <2>2, <3>1, <4>1
      <3>2. CASE ~(k = k0 /\ i = i0) /\ l = k0 /\ j = i0
        <4>1. q = p /\ n = n0 /\ storage[k][i] = <<q, m>>
          BY <1>2, <2>2, <3>2
        <4> QED
          BY <1>4, <4>1
      <3>3. CASE ~(k = k0 /\ i = i0) /\ ~(l = k0 /\ j = i0)
        BY <1>2, <2>2, <3>3 DEF OrderFacts, ValuesInv
      <3> QED
        BY <3>1, <3>2, <3>3
    <2>3. ASSUME NEW q \in Producers, NEW l \in Chunks, NEW j \in Slots, NEW n \in 1 .. MaxItems,
                 Writes(q)', Before(r, cur[q], index[q], l, j)'
          PROVE  storage'[l][j] # <<q, n>>
      <3>1. CASE q = p
        BY <1>1, <2>1, <2>3, <3>1 DEF Before, k0, i0
      <3>2. CASE q # p
        <4>1. Writes(q) /\ Before(r, cur[q], index[q], l, j)
          BY <1>1, <2>3, <3>2 DEF OthersStay, Writes, Before, Threads
        <4>2. storage[l][j] # <<q, n>>
          BY <4>1 DEF OrderFacts, ValuesInv
        <4> QED
          BY <1>2, <3>2, <4>2
      <3> QED
        BY <3>1, <3>2
    <2> QED
      BY <2>2, <2>3 DEF ValuesInv, Before
  <1>10. PopsInv(r)'
    <2>1. ASSUME NEW c \in Consumers, NEW n \in DOMAIN got[c]
          PROVE  \E k \in Chunks, i \in Slots : Source(r, c, got[c][n], k, i)'
      <3>1. PICK k \in Chunks, i \in Slots : Source(r, c, got[c][n], k, i)
        BY DEF OrderFacts, PopsInv
      <3>2. got[c][n] # NULL
        <4>1. PICK q \in Producers, m \in 1 .. MaxItems : got[c][n] = <<q, m>>
          BY DEF SlotFacts, GotWasSent
        <4> QED
          BY <4>1, NullIsNoValue
      <3>3. storage'[k][i] = storage[k][i]
        BY <1>2, <1>3, <3>1, <3>2 DEF Source
      <3>4. Source(r, c, got[c][n], k, i)'
        <4>1. c # p /\ c \in Threads
          BY <1>0 DEF Threads
        <4> QED
          BY <1>1, <3>1, <3>3, <4>1 DEF Source, Before, HoldsClaim, OthersStay
      <3> QED
        BY <3>4
    <2>2. PerProducerOrder'
      BY <1>1 DEF OrderFacts, PopsInv, PerProducerOrder
    <2> QED
      BY <1>1, <2>1, <2>2 DEF PopsInv
  <1> QED
    BY <1>6, <1>7, <1>8, <1>9, <1>10 DEF OrderFacts

(* operator new returns a chunk that nothing points to. *)
LEMMA AllocNewKeepsOrder ==
  ASSUME NEW r \in Ranks, OrderFacts(r), TypeOK, TypeOK', NEW p \in Producers, AllocNew(p)
  PROVE  OrderFacts(r)'
  <1> DEFINE s0 == Fresh(allocated)
  <1>0. /\ p \in Threads /\ p \notin Consumers
        /\ push_index \in [Chunks -> Nat] /\ pop_index \in [Chunks -> Nat]
    BY QueueAssumption DEF Threads, TypeOK, SharedTypes
  <1>1. s0 \in Chunks /\ s0 \notin allocated
    BY FreshIsNew DEF AllocNew, TypeOK, SharedTypes
  <1> HIDE DEF s0
  <1>2. /\ OthersStay(p) /\ pc[p] = "new" /\ pc'[p] = "link" /\ spare'[p] = s0
        /\ allocated' = allocated \cup {s0}
        /\ UNCHANGED <<head_chunk, tail_chunk, free_list, next, retired, slotVars, cur, index,
                       nxt, old, got>>
    BY <1>0 DEF AllocNew, Goto, OthersStay, TypeOK, LocalTypes, histVars, s0
  <1>3. /\ Unlinked(s0) /\ Unused(s0) /\ r[s0] = 0 /\ \A t \in Threads : spare[t] # s0
        /\ \A s : (Unlinked(s)' <=> Unlinked(s)) /\ (Unused(s)' <=> Unused(s))
    BY <1>1, <1>2 DEF OrderFacts, AllocInv, Unlinked, Unused, slotVars
  <1>4. AllocInv(r)'
    <2>1. ASSUME NEW s \in Chunks, s \notin allocated'
          PROVE  Unlinked(s)' /\ Unused(s)' /\ r[s] = 0 /\ \A t \in Threads : spare'[t] # s
      <3>1. s # s0 /\ s \notin allocated
        BY <1>2, <2>1
      <3>2. Unlinked(s) /\ Unused(s) /\ r[s] = 0 /\ \A t \in Threads : spare[t] # s
        BY <3>1 DEF OrderFacts, AllocInv
      <3> QED
        BY <1>2, <1>3, <3>1, <3>2 DEF OthersStay
    <2>2. ASSUME NEW q \in Producers, pc'[q] = "link"
          PROVE  /\ Unlinked(spare[q])' /\ Unused(spare[q])' /\ r[spare'[q]] = 0
                 /\ \A t \in Threads : t # q => spare'[t] # spare'[q]
      <3>1. CASE q = p
        <4>1. Unlinked(spare[q])' /\ Unused(spare[q])'
          BY <1>2, <1>3, <3>1 DEF Unlinked, Unused
        <4> QED
          BY <1>2, <1>3, <3>1, <4>1 DEF OthersStay
      <3>2. CASE q # p
        <4>1. pc[q] = "link" /\ spare'[q] = spare[q] /\ q \in Threads
          BY <1>2, <2>2, <3>2 DEF OthersStay, Threads
        <4>2. /\ Unlinked(spare[q]) /\ Unused(spare[q]) /\ r[spare[q]] = 0
              /\ \A t \in Threads : t # q => spare[t] # spare[q]
          BY <4>1 DEF OrderFacts, AllocInv
        <4>3. \A t \in Threads : t # q => spare'[t] # spare'[q]
          BY <1>2, <1>3, <4>1, <4>2 DEF OthersStay
        <4>4. Unlinked(spare[q])' /\ Unused(spare[q])'
          BY <1>2, <4>1, <4>2 DEF Unlinked, Unused, slotVars
        <4> QED
          BY <4>1, <4>2, <4>3, <4>4
      <3> QED
        BY <3>1, <3>2
    <2> QED
      BY <2>1, <2>2 DEF AllocInv
  <1>5. \A k \in Chunks : push_index'[k] >= push_index[k] /\ pop_index'[k] >= pop_index[k]
    BY <1>0, <1>2 DEF slotVars
  <1>6. LineInv(r)'
    <2>1. push_index'[cur'[p]] >= CHUNK_SIZE
      BY <1>2 DEF OrderFacts, LineInv, FoundFull, slotVars
    <2> QED
      BY <1>0, <1>2, <1>5, <2>1, LineKept DEF OrderFacts
  <1>7. PassedInv(r)'
    BY <1>0, <1>2, PassedKept DEF OrderFacts, Releases
  <1>8. ValuesInv(r)'
    BY <1>0, <1>2, ValuesKept DEF OrderFacts, Writes, slotVars
  <1>9. PopsInv(r)'
    BY <1>0, <1>2, <1>5, PopsKept DEF OrderFacts, slotVars
  <1> QED
    BY <1>4, <1>6, <1>7, <1>8, <1>9 DEF OrderFacts

(* Rank rr adds to r at most the chunk that p links, behind head_chunk. *)
Extends(r, rr, p) ==
  /\ \A k \in Chunks :
       /\ r[k] > 0 => rr[k] = r[k]
       /\ rr[k] > 0 => r[k] > 0 \/ rr[k] > r[head_chunk]
  /\ next[cur[p]] = NULL /\ r[cur[p]] >= r[head_chunk] => rr[spare[p]] > 0

(* A chunk that is linked behind the last one of the line becomes the last; *)
(* linked to a chunk that head_chunk has passed, or that is not in the      *)
(* line, it is lost and not in the line either.                             *)
LEMMA PushLinkKeepsOrder ==
  ASSUME NEW r \in Ranks, OrderFacts(r), SlotFacts, TypeOK, TypeOK',
         NEW p \in Producers, PushLink(p)
  PROVE  \E rr \in Ranks : OrderFacts(rr)' /\ Extends(r, rr, p)
  <1> USE QueueAssumption
  <1> DEFINE k0 == cur[p]
             s0 == spare[p]
  <1>0. /\ p \in Threads /\ p \notin Consumers /\ pc[p] = "link"
        /\ k0 \in Chunks /\ s0 \in Chunks /\ head_chunk \in Chunks
        /\ push_index \in [Chunks -> Nat] /\ pop_index \in [Chunks -> Nat]
        /\ next \in [Chunks -> Null(Chunks)] /\ r \in [Chunks -> Nat]
    BY DEF PushLink, Goto, Threads, TypeOK, SharedTypes, LocalTypes, PointersValid, UsesSpare,
           Ranks
  <1>1. /\ Unlinked(s0) /\ Unused(s0) /\ r[s0] = 0
        /\ \A t \in Threads : t # p => spare[t] # s0
    BY <1>0 DEF OrderFacts, AllocInv
  <1>2. k0 # s0 /\ push_index[k0] >= CHUNK_SIZE /\ r[head_chunk] > 0
    BY <1>0, <1>1 DEF Unlinked, OrderFacts, LineInv, FoundFull
  <1>3. CASE next[k0] # NULL
    <2>1. /\ OthersStay(p) /\ pc'[p] = "rel_load" /\ spare'[p] = s0 /\ cur'[p] = k0
          /\ nxt'[p] = next[k0] /\ UNCHANGED <<chainVars, slotVars, cur, spare, old, got>>
      BY <1>0, <1>3 DEF PushLink, Goto, OthersStay, TypeOK, LocalTypes, histVars
    <2>2. CopiesPointers(p)
      BY <1>0, <2>1 DEF CopiesPointers, Unlinked, Unused, OthersStay, chainVars, slotVars
    <2>3. AllocInv(r)'
      <3>1. ASSUME NEW s \in Chunks, s \notin allocated'
            PROVE  Unlinked(s)' /\ Unused(s)' /\ r[s] = 0 /\ \A t \in Threads : spare'[t] # s
        BY <1>0, <2>1, <2>2, <3>1 DEF OrderFacts, AllocInv, CopiesPointers, chainVars
      <3>2. ASSUME NEW q \in Producers, pc'[q] = "link"
            PROVE  /\ Unlinked(spare[q])' /\ Unused(spare[q])' /\ r[spare'[q]] = 0
                   /\ \A t \in Threads : t # q => spare'[t] # spare'[q]
        <4>1. pc[q] = "link" /\ q # p /\ q \in Threads /\ spare[q] \in Chunks
          BY <2>1, <3>2 DEF OthersStay, Threads, TypeOK, PointersValid, UsesSpare
        <4>2. /\ Unlinked(spare[q]) /\ Unused(spare[q]) /\ r[spare[q]] = 0
              /\ \A t \in Threads : t # q => spare[t] # spare[q]
          BY <4>1 DEF OrderFacts, AllocInv
        <4>3. PICK s \in Chunks : s = spare[q] /\ Unlinked(s)' /\ Unused(s)'
          BY <1>0, <2>2, <4>1, <4>2 DEF CopiesPointers
        <4> QED
          BY <2>1, <4>2, <4>3 DEF Unlinked, Unused
      <3> QED
        BY <3>1, <3>2 DEF AllocInv
    <2>4. \A k \in Chunks : push_index'[k] >= push_index[k] /\ pop_index'[k] >= pop_index[k]
      BY <1>0, <2>1 DEF slotVars
    <2>5. LineInv(r)'
      BY <1>0, <2>1, <2>4, LineKept DEF OrderFacts, chainVars, FoundFull
    <2>6. PassedInv(r)'
      BY <1>0, <1>1, <1>2, <2>1, PassedKept DEF OrderFacts, chainVars
    <2>7. ValuesInv(r)'
      BY <1>0, <2>1, ValuesKept DEF OrderFacts, Writes, slotVars
    <2>8. PopsInv(r)'
      BY <1>0, <2>1, <2>4, PopsKept DEF OrderFacts, slotVars
    <2>9. Extends(r, r, p)
      BY <1>3 DEF Extends
    <2> QED
      BY <2>3, <2>5, <2>6, <2>7, <2>8, <2>9 DEF OrderFacts
  <1>4. CASE next[k0] = NULL
    <2>1. /\ OthersStay(p) /\ pc'[p] = "swing" /\ next' = [next EXCEPT ![k0] = s0]
          /\ UNCHANGED <<head_chunk, tail_chunk, free_list, retired, allocated, slotVars, cur,
                         index, nxt, spare, old, got>>
      BY <1>0, <1>4 DEF PushLink, Goto, OthersStay, TypeOK, LocalTypes, histVars
    <2>2. \A k \in Chunks : next'[k] = IF k = k0 THEN s0 ELSE next[k]
      BY <1>0, <2>1
    <2>3. \A k \in Chunks : push_index'[k] >= push_index[k] /\ pop_index'[k] >= pop_index[k]
      BY <1>0, <2>1 DEF slotVars
    (* The allocations, whether s0 gets a rank or not. *)
    <2>4. ASSUME NEW rr \in Ranks, \A k \in Chunks : k # s0 => rr[k] = r[k]
          PROVE  AllocInv(rr)'
      <3>1. ASSUME NEW s \in Chunks, s # s0, Unlinked(s), Unused(s)
            PROVE  Unlinked(s)' /\ Unused(s)'
        <4>1. s # k0
          BY <1>0, <3>1 DEF Unlinked
        <4> QED
          BY <2>1, <2>2, <3>1, <4>1 DEF Unlinked, Unused, slotVars
      <3>2. ASSUME NEW s \in Chunks, s \notin allocated'
            PROVE  Unlinked(s)' /\ Unused(s)' /\ rr[s] = 0 /\ \A t \in Threads : spare'[t] # s
        <4>1. Unlinked(s) /\ Unused(s) /\ r[s] = 0 /\ \A t \in Threads : spare[t] # s
          BY <2>1, <3>2 DEF OrderFacts, AllocInv
        <4> QED
          BY <1>0, <2>1, <2>4, <3>1, <4>1
      <3>3. ASSUME NEW q \in Producers, pc'[q] = "link"
            PROVE  /\ Unlinked(spare[q])' /\ Unused(spare[q])' /\ rr[spare'[q]] = 0
                   /\ \A t \in Threads : t # q => spare'[t] # spare'[q]
        <4>1. pc[q] = "link" /\ q # p /\ q \in Threads /\ spare[q] \in Chunks
          BY <2>1, <3>3 DEF OthersStay, Threads, TypeOK, PointersValid, UsesSpare
        <4>2. /\ Unlinked(spare[q]) /\ Unused(spare[q]) /\ r[spare[q]] = 0
              /\ \A t \in Threads : t # q => spare[t] # spare[q]
          BY <4>1 DEF OrderFacts, AllocInv
        <4>3. PICK s \in Chunks : s = spare[q] /\ s # s0 /\ Unlinked(s)' /\ Unused(s)'
          BY <1>1, <3>1, <4>1, <4>2
        <4> QED
          BY <2>1, <2>4, <4>2, <4>3 DEF Unlinked, Unused
      <3> QED
        BY <3>2, <3>3 DEF AllocInv
    <2>5. CASE r[k0] < r[head_chunk]
      <3>1. AllocInv(r)'
        BY <2>4
      <3>2. LineInv(r)'
        BY <1>0, <2>1, <2>2, <2>3, <2>5, LineKept DEF OrderFacts, FoundFull
      <3>3. PassedInv(r)'
        <4>1. next'[head_chunk] = next[head_chunk]
          BY <1>0, <2>2, <2>5
        <4> QED
          BY <1>0, <2>1, <4>1, PassedKept DEF OrderFacts, Releases
      <3>4. ValuesInv(r)'
        BY <1>0, <2>1, ValuesKept DEF OrderFacts, Writes, slotVars
      <3>5. PopsInv(r)'
        BY <1>0, <2>1, <2>3, PopsKept DEF OrderFacts, slotVars
      <3>6. Extends(r, r, p)
        BY <1>0, <2>5 DEF Extends
      <3> QED
        BY <3>1, <3>2, <3>3, <3>4, <3>5, <3>6 DEF OrderFacts
    <2>6. CASE r[k0] >= r[head_chunk]
      <3>1. PICK rr \in Ranks : /\ rr[s0] = r[k0] + 1
                                /\ \A k \in Chunks : k # s0 => rr[k] = r[k]
        <4>1. [r EXCEPT ![s0] = r[k0] + 1] \in Ranks
          BY <1>0 DEF Ranks
        <4> QED
          BY <1>0, <4>1
      <3>2. \A l \in Chunks : r[l] <= r[k0] /\ (r[l] = r[k0] => l = k0)
        BY <1>0, <1>2, <1>4, <2>6 DEF OrderFacts, LineInv
      <3>3. head_chunk # s0 /\ rr[head_chunk] = r[head_chunk] /\ rr[k0] = r[k0]
        BY <1>0, <1>1, <1>2, <3>1 DEF Unlinked
      <3>4. AllocInv(rr)'
        BY <2>4, <3>1
      <3>5. LineInv(rr)'
        <4>0. rr \in [Chunks -> Nat]
          BY <3>1 DEF Ranks
        <4>1. \A k, l \in Chunks : rr[k] = rr[l] /\ rr[k] > 0 => k = l
          BY <1>0, <3>1, <3>2 DEF OrderFacts, LineInv
        <4>2. ASSUME NEW k \in Chunks, rr[k] >= rr[head_chunk]
              PROVE  IF next'[k] = NULL THEN \A l \in Chunks : rr[l] <= rr[k]
                                        ELSE rr[next'[k]] = rr[k] + 1
          <5>1. CASE k = k0
            BY <1>0, <1>2, <2>2, <3>1, <3>3, <5>1
          <5>2. CASE k = s0
            <6>1. next'[k] = NULL
              BY <1>0, <1>1, <1>2, <2>2, <5>2 DEF Unused
            <6> QED
              BY <1>0, <3>1, <3>2, <5>2, <6>1
          <5>3. CASE k # k0 /\ k # s0
            <6>1. next'[k] = next[k] /\ next[k] # s0 /\ rr[k] = r[k] /\ r[k] >= r[head_chunk]
              BY <1>1, <2>2, <3>1, <3>3, <4>2, <5>3 DEF Unlinked
            <6>2. next[k] # NULL
              BY <1>0, <3>2, <5>3, <6>1 DEF OrderFacts, LineInv
            <6>3. next[k] \in Chunks /\ r[next[k]] = r[k] + 1
              BY <1>0, <6>1, <6>2 DEF OrderFacts, LineInv, Null
            <6> QED
              BY <3>1, <6>1, <6>2, <6>3
          <5> QED
            BY <5>1, <5>2, <5>3
        <4>3. ASSUME NEW k \in Chunks, NEW l \in Chunks, 0 < rr[k], rr[k] < rr[l]
              PROVE  push_index[k] >= CHUNK_SIZE
          <5>1. CASE k = k0
            BY <1>2, <5>1
          <5>2. CASE k = s0
            BY <1>0, <3>1, <3>2, <4>0, <4>3, <5>2
          <5>3. CASE k # k0 /\ k # s0
            <6>1. 0 < r[k] /\ r[k] < r[k0]
              BY <1>0, <3>1, <3>2, <4>3, <5>3
            <6> QED
              BY <1>0, <6>1 DEF OrderFacts, LineInv
          <5> QED
            BY <5>1, <5>2, <5>3
        <4>4. \A q \in Producers : FoundFull(q)' => push_index'[cur'[q]] >= CHUNK_SIZE
          BY <2>1 DEF OrderFacts, LineInv, FoundFull, OthersStay, Threads, slotVars
        <4> QED
          BY <1>2, <2>1, <3>3, <4>1, <4>2, <4>3, <4>4 DEF LineInv, slotVars
      <3>6. PassedInv(rr)'
        <4>1. \A k \in Chunks : retired'[k] => rr[k] < rr[head_chunk']
          BY <1>1, <2>1, <3>1, <3>3 DEF Unused, OrderFacts, PassedInv
        <4>2. \A t \in Threads : pc'[t] \in Releases => rr[spare'[t]] < rr[head_chunk']
          <5>1. \A t \in Threads : pc'[t] \in Releases =>
                  t # p /\ pc[t] \in Releases /\ spare[t] \in Chunks /\ spare[t] # s0
            BY <1>1, <2>1 DEF OthersStay, Releases, UsesSpare, TypeOK, PointersValid
          <5> QED
            BY <2>1, <3>1, <3>3, <5>1 DEF OrderFacts, PassedInv
        <4>3. \A c \in Consumers :
                /\ rr[cur'[c]] > 0 /\ rr[cur'[c]] <= rr[head_chunk']
                /\ pc'[c] = "retire" => rr[cur'[c]] < rr[head_chunk']
          <5>1. \A c \in Consumers : pc'[c] = pc[c] /\ cur[c] \in Chunks /\ cur[c] # s0
            BY <1>0, <1>1, <2>1 DEF OthersStay, Threads, Unlinked, TypeOK, LocalTypes
          <5> QED
            BY <2>1, <3>1, <3>3, <5>1 DEF OrderFacts, PassedInv
        <4>4. \A c \in Consumers :
                pc'[c] = "advance" /\ cur'[c] = head_chunk' => nxt'[c] = next'[head_chunk']
          <5>1. ASSUME NEW c \in Consumers, pc[c] = "advance", cur[c] = head_chunk
                PROVE  nxt[c] = next[head_chunk] /\ next[head_chunk] # NULL
            BY <5>1 DEF OrderFacts, PassedInv, TypeOK, PointersValid, Threads
          <5>2. \A c \in Consumers : pc'[c] = pc[c]
            BY <1>0, <2>1 DEF OthersStay, Threads
          <5> QED
            BY <1>0, <1>4, <2>1, <2>2, <5>1, <5>2
        <4> QED
          BY <4>1, <4>2, <4>3, <4>4 DEF PassedInv, Releases
      <3>7. \A i \in Slots : storage[s0][i] = NULL
        BY <1>0, <1>1 DEF SlotFacts, UnclaimedEmpty, Unused, Slots
      <3>8. ValuesInv(rr)'
        <4>1. ASSUME NEW k \in Chunks, NEW l \in Chunks, NEW i \in Slots, NEW j \in Slots,
                     NEW q \in Producers, NEW m \in 1 .. MaxItems, NEW n \in 1 .. MaxItems,
                     storage[k][i] = <<q, m>>, storage[l][j] = <<q, n>>, Before(rr, k, i, l, j)
              PROVE  m < n
          <5>1. k # s0 /\ l # s0
            BY <3>7, <4>1, NullIsNoValue
          <5> QED
            BY <3>1, <4>1, <5>1 DEF Before, OrderFacts, ValuesInv
        <4>2. ASSUME NEW q \in Producers, NEW l \in Chunks, NEW j \in Slots,
                     NEW n \in 1 .. MaxItems,
                     Writes(q)', Before(rr, cur[q], index[q], l, j)'
              PROVE  storage[l][j] # <<q, n>>
          <5>1. CASE l = s0
            BY <3>7, <5>1, NullIsNoValue
          <5>2. CASE l # s0
            <6>1. Writes(q) /\ cur[q] \in Chunks /\ cur[q] # s0
              BY <1>1, <2>1, <4>2 DEF OthersStay, Writes, Unlinked, Threads, TypeOK, LocalTypes
            <6>2. Before(r, cur[q], index[q], l, j)
              BY <2>1, <3>1, <4>2, <5>2, <6>1 DEF Before
            <6> QED
              BY <6>1, <6>2 DEF OrderFacts, ValuesInv
          <5> QED
            BY <5>1, <5>2
        <4>3. storage' = storage
          BY <2>1 DEF slotVars
        <4>4. \A k, l \in Chunks, i, j \in Slots, q \in Producers, m, n \in 1 .. MaxItems :
                storage'[k][i] = <<q, m>> /\ storage'[l][j] = <<q, n>> /\ Before(rr, k, i, l, j)
                  => m < n
          BY <4>1, <4>3
        <4>5. \A q \in Producers, l \in Chunks, j \in Slots, n \in 1 .. MaxItems :
                Writes(q)' /\ Before(rr, cur[q], index[q], l, j)' => storage'[l][j] # <<q, n>>
          BY <4>2, <4>3
        <4> QED
          BY <4>4, <4>5 DEF ValuesInv, Before
      <3>9. PopsInv(rr)'
        <4>1. ASSUME NEW c \in Consumers, NEW n \in DOMAIN got[c]
              PROVE  \E k \in Chunks, i \in Slots : Source(rr, c, got[c][n], k, i)'
          <5>1. PICK k \in Chunks, i \in Slots : Source(r, c, got[c][n], k, i)
            BY DEF OrderFacts, PopsInv
          <5>2. cur[c] \in Chunks /\ cur[c] # s0 /\ pc'[c] = pc[c]
            BY <1>0, <1>1, <2>1 DEF OthersStay, Threads, Unlinked, TypeOK, LocalTypes
          <5>3. k # s0
            BY <1>1, <5>1 DEF Source
          <5>4. Source(rr, c, got[c][n], k, i)'
            BY <2>1, <3>1, <5>1, <5>2, <5>3 DEF Source, Before, HoldsClaim, slotVars
          <5> QED
            BY <5>4
        <4>2. PerProducerOrder'
          BY <2>1 DEF OrderFacts, PopsInv, PerProducerOrder
        <4> QED
          BY <2>1, <4>1, <4>2 DEF PopsInv
      <3>10. Extends(r, rr, p)
        BY <1>0, <1>1, <2>6, <3>1 DEF Extends
      <3> QED
        BY <3>1, <3>4, <3>5, <3>6, <3>8, <3>9, <3>10 DEF OrderFacts
    <2> QED
      BY <1>0, <2>5, <2>6
  <1> QED
    BY <1>3, <1>4

(* head_chunk moves to the next chunk of the line. *)
LEMMA PopAdvanceKeepsOrder ==
  ASSUME NEW r \in Ranks, OrderFacts(r), TypeOK, TypeOK', NEW c \in Consumers, PopAdvance(c)
  PROVE  OrderFacts(r)'
  <1>0. /\ c \in Threads /\ c \notin Producers /\ pc[c] = "advance"
        /\ cur[c] \in Chunks /\ nxt[c] \in Chunks /\ head_chunk \in Chunks
        /\ next \in [Chunks -> Null(Chunks)] /\ r \in [Chunks -> Nat]
        /\ push_index \in [Chunks -> Nat] /\ pop_index \in [Chunks -> Nat]
    BY QueueAssumption DEF PopAdvance, Goto, Threads, TypeOK, SharedTypes, LocalTypes,
       PointersValid, Ranks
  <1>1. /\ OthersStay(c) /\ nxt'[c] = NULL /\ pc'[c] \in {"retire", "load"}
        /\ pc'[c] = "retire" => head_chunk = cur[c]
        /\ head_chunk' = IF head_chunk = cur[c] THEN nxt[c] ELSE head_chunk
        /\ UNCHANGED <<tail_chunk, free_list, next, retired, allocated, slotVars, cur, index,
                       spare, old, got>>
    BY <1>0 DEF PopAdvance, Goto, OthersStay, TypeOK, LocalTypes, histVars
  <1>2. CopiesPointers(c)
    <2> SUFFICES ASSUME NEW s \in Chunks, Unlinked(s), spare[c] # s
                 PROVE  Unlinked(s)' /\ spare'[c] # s /\ (Unused(s) => Unused(s)')
      BY DEF CopiesPointers
    <2>1. Unused(s) => Unused(s)'
      BY <1>1 DEF Unused, slotVars
    <2>2. head_chunk' # s /\ \A t \in Threads : nxt'[t] # s
      BY <1>0, <1>1, QueueAssumption DEF Unlinked, OthersStay
    <2> QED
      BY <1>1, <2>1, <2>2 DEF Unlinked
  <1>3. \A k \in Chunks : push_index'[k] >= push_index[k] /\ pop_index'[k] >= pop_index[k]
    BY <1>0, <1>1 DEF slotVars
  <1>4. AllocInv(r)'
    BY <1>0, <1>1, <1>2, AllocKept DEF OrderFacts
  <1>5. ValuesInv(r)'
    BY <1>0, <1>1, ValuesKept DEF OrderFacts, slotVars
  <1>6. PopsInv(r)'
    BY <1>0, <1>1, <1>3, PopsKept DEF OrderFacts, HoldsClaim, slotVars
  <1>7. CASE head_chunk # cur[c]
    <2>1. LineInv(r)'
      BY <1>0, <1>1, <1>3, <1>7, LineKept DEF OrderFacts
    <2>2. PassedInv(r)'
      <3>1. r[cur[c]] > 0 /\ r[cur[c]] <= r[head_chunk]
        BY DEF OrderFacts, PassedInv
      <3> QED
        BY <1>0, <1>1, <1>7, <3>1, PassedKept DEF OrderFacts, Releases
    <2> QED
      BY <1>4, <1>5, <1>6, <2>1, <2>2 DEF OrderFacts
  <1>8. CASE head_chunk = cur[c]
    <2>1. nxt[c] = next[head_chunk] /\ next[head_chunk] # NULL
      BY <1>0, <1>8, QueueAssumption DEF OrderFacts, PassedInv
    <2>2. head_chunk' = nxt[c] /\ r[nxt[c]] > r[head_chunk] /\ r[head_chunk] > 0
      BY <1>0, <1>1, <1>8, <2>1 DEF OrderFacts, LineInv
    <2>3. LineInv(r)'
      <3>1. \A k \in Chunks : r[k] >= r[head_chunk'] => r[k] >= r[head_chunk]
        BY <1>0, <2>2
      <3>2. \A p \in Producers : FoundFull(p)' => push_index[cur[p]] >= CHUNK_SIZE
        BY <1>0, <1>1 DEF OrderFacts, LineInv, FoundFull, OthersStay, Threads
      <3> QED
        BY <1>0, <1>1, <2>2, <3>1, <3>2 DEF OrderFacts, LineInv, slotVars
    <2>4. PassedInv(r)'
      <3>1. \A k \in Chunks : retired'[k] => r[k] < r[head_chunk']
        BY <1>0, <1>1, <2>2 DEF OrderFacts, PassedInv
      <3>2. \A t \in Threads : pc'[t] \in Releases => r[spare'[t]] < r[head_chunk']
        <4>1. \A t \in Threads : pc'[t] \in Releases => pc[t] \in Releases /\ spare[t] \in Chunks
          BY <1>1 DEF OthersStay, Releases, TypeOK, PointersValid, UsesSpare
        <4> QED
          BY <1>0, <1>1, <2>2, <4>1 DEF OrderFacts, PassedInv
      <3>3. ASSUME NEW d \in Consumers
            PROVE  /\ r[cur'[d]] > 0 /\ r[cur'[d]] <= r[head_chunk']
                   /\ r[cur'[d]] < r[head_chunk'] /\ cur'[d] # head_chunk'
        <4>1. cur'[d] = cur[d] /\ cur[d] \in Chunks
          BY <1>1 DEF TypeOK, LocalTypes, Threads
        <4>2. r[cur[d]] > 0 /\ r[cur[d]] <= r[head_chunk]
          BY DEF OrderFacts, PassedInv
        <4> QED
          BY <1>0, <2>2, <4>1, <4>2
      <3> QED
        BY <1>0, <3>1, <3>2, <3>3 DEF PassedInv, Releases
    <2> QED
      BY <1>4, <1>5, <1>6, <2>3, <2>4 DEF OrderFacts
  <1> QED
    BY <1>7, <1>8

(* A consumer claims a slot behind those it has taken values from. *)
LEMMA PopClaimKeepsOrder ==
  ASSUME NEW r \in Ranks, OrderFacts(r), TypeOK, TypeOK', NEW c \in Consumers, PopClaim(c)
  PROVE  OrderFacts(r)'
  <1>0. /\ c \in Threads /\ c \notin Producers /\ pc[c] = "take" /\ cur[c] \in Chunks
        /\ r \in [Chunks -> Nat] /\ index[c] \in Nat
        /\ push_index \in [Chunks -> Nat] /\ pop_index \in [Chunks -> Nat]
    BY QueueAssumption DEF PopClaim, Goto, Threads, TypeOK, SharedTypes, LocalTypes, Ranks
  <1>1. /\ OthersStay(c) /\ pc'[c] \in {"enter", "load"}
        /\ UNCHANGED <<chainVars, push_index, storage, cur, index, nxt, spare, old, got>>
        /\ pc'[c] = "enter" => pop_index[cur[c]] = index[c]
        /\ \A k \in Chunks : pop_index'[k] >= pop_index[k]
    <2> USE <1>0 DEF Goto, OthersStay, TypeOK, LocalTypes, histVars, slotVars
    <2>1. CASE /\ pop_index[cur[c]] = index[c]
               /\ pop_index' = [pop_index EXCEPT ![cur[c]] = index[c] + 1]
      BY <2>1 DEF PopClaim
    <2>2. CASE pop_index' = pop_index /\ pc'[c] = "load"
      BY <2>2 DEF PopClaim
    <2> QED
      BY <2>1, <2>2 DEF PopClaim
  <1>2. AllocInv(r)'
    <2>1. CopiesPointers(c)
      BY <1>1 DEF CopiesPointers, Unlinked, Unused, chainVars
    <2> QED
      BY <1>0, <1>1, <2>1, AllocKept DEF OrderFacts, chainVars
  <1>3. LineInv(r)'
    <2>1. \A k \in Chunks : push_index'[k] >= push_index[k]
      BY <1>0, <1>1
    <2> QED
      BY <1>0, <1>1, <2>1, LineKept DEF OrderFacts, chainVars
  <1>4. PassedInv(r)'
    <2>1. r[cur[c]] > 0 /\ r[cur[c]] <= r[head_chunk]
      BY DEF OrderFacts, PassedInv
    <2> QED
      BY <1>0, <1>1, <2>1, PassedKept DEF OrderFacts, chainVars, Releases
  <1>5. ValuesInv(r)'
    BY <1>0, <1>1, ValuesKept DEF OrderFacts
  <1>6. PopsInv(r)'
    <2>1. ASSUME NEW d \in Consumers, NEW n \in DOMAIN got[d]
          PROVE  \E k \in Chunks, i \in Slots : Source(r, d, got[d][n], k, i)'
      <3>1. PICK k \in Chunks, i \in Slots : Source(r, d, got[d][n], k, i)
        BY DEF OrderFacts, PopsInv
      <3>2. i < pop_index'[k] /\ i \in Int
        <4>1. i < pop_index[k] /\ pop_index'[k] >= pop_index[k] /\ i \in Int
              /\ pop_index[k] \in Nat /\ pop_index'[k] \in Nat
          BY <1>0, <1>1, <3>1 DEF Source, Slots, TypeOK, SharedTypes
        <4> QED
          BY <4>1
      <3>3. HoldsClaim(d)' => Before(r, k, i, cur[d], index[d])
        <4>1. CASE d # c
          BY <1>1, <3>1, <4>1 DEF Source, HoldsClaim, OthersStay, Threads
        <4>2. CASE d = c
          <5>1. CASE k = cur[c]
            BY <1>1, <3>1, <4>2, <5>1 DEF Source, Before, HoldsClaim
          <5>2. CASE k # cur[c]
            <6>1. r[k] < r[cur[c]]
              BY <1>0, <3>1, <4>2, <5>2 DEF Source, OrderFacts, LineInv
            <6> QED
              BY <3>1, <4>2, <6>1 DEF Source, Before
          <5> QED
            BY <5>1, <5>2
        <4> QED
          BY <4>1, <4>2
      <3>4. Source(r, d, got[d][n], k, i)'
        BY <1>1, <3>1, <3>2, <3>3 DEF Source, Before
      <3> QED
        BY <3>4
    <2>2. PerProducerOrder'
      BY <1>1 DEF OrderFacts, PopsInv, PerProducerOrder
    <2> QED
      BY <1>1, <2>1, <2>2 DEF PopsInv
  <1> QED
    BY <1>2, <1>3, <1>4, <1>5, <1>6 DEF OrderFacts

(* The value that is handed out is behind the earlier ones in the line. *)
LEMMA PopMoveKeepsOrder ==
  ASSUME NEW r \in Ranks, OrderFacts(r), SlotFacts, TypeOK, TypeOK',
         NEW c \in Consumers, PopMove(c)
  PROVE  OrderFacts(r)'
  <1> DEFINE k0 == cur[c]
             i0 == index[c]
             v0 == storage[k0][i0]
             len == Len(got[c])
  <1>0. /\ c \in Threads /\ c \notin Producers /\ pc[c] = "move"
        /\ k0 \in Chunks /\ i0 \in Slots /\ r \in [Chunks -> Nat]
        /\ push_index \in [Chunks -> Nat] /\ pop_index \in [Chunks -> Nat]
    BY QueueAssumption DEF PopMove, Goto, Threads, TypeOK, SharedTypes, LocalTypes, PointersValid,
       UsesSlot, Ranks
  <1>1. /\ OthersStay(c) /\ pc'[c] = "destroy"
        /\ UNCHANGED <<chainVars, slotVars, cur, index, nxt, spare, old>>
        /\ got' = [got EXCEPT ![c] = Append(got[c], v0)]
    BY <1>0 DEF PopMove, Goto, OthersStay, TypeOK, LocalTypes
  <1>2. /\ \A d \in Consumers : d # c => got'[d] = got[d]
        /\ len \in Nat /\ DOMAIN got[c] = 1 .. len /\ DOMAIN got'[c] = 1 .. len + 1
        /\ \A n \in 1 .. len : got'[c][n] = got[c][n]
        /\ got'[c][len + 1] = v0
    <2>0. storage \in [Chunks -> [Slots -> Null(Items)]]
      BY DEF TypeOK, SharedTypes
    <2>1. got \in [Consumers -> Seq(Null(Items))] /\ v0 \in Null(Items)
      BY <1>0, <2>0 DEF TypeOK, HistoryTypes
    <2>2. got[c] \in Seq(Null(Items)) /\ got'[c] = Append(got[c], v0)
      BY <1>1, <2>1
    <2> QED
      BY <1>1, <2>1, <2>2
  <1>3. v0 # NULL /\ i0 < pop_index[k0] /\ v0 \in Items
    BY <1>0 DEF SlotFacts, ReadersHoldSlots, OccupiedHolds, Reads, HoldsClaim, TypeOK, SharedTypes,
       Null
  <1>4. AllocInv(r)'
    <2>1. CopiesPointers(c)
      BY <1>1 DEF CopiesPointers, Unlinked, Unused, chainVars, slotVars
    <2> QED
      BY <1>0, <1>1, <2>1, AllocKept DEF OrderFacts, chainVars
  <1>5. LineInv(r)'
    <2>1. \A k \in Chunks : push_index'[k] >= push_index[k]
      BY <1>0, <1>1 DEF slotVars
    <2> QED
      BY <1>0, <1>1, <2>1, LineKept DEF OrderFacts, chainVars
  <1>6. r[k0] > 0 /\ r[k0] <= r[head_chunk]
    BY DEF OrderFacts, PassedInv
  <1>7. PassedInv(r)'
    BY <1>0, <1>1, <1>6, PassedKept DEF OrderFacts, chainVars, Releases
  <1>8. ValuesInv(r)'
    BY <1>0, <1>1, ValuesKept DEF OrderFacts, slotVars
  <1> HIDE DEF k0, i0, v0, len
  <1>9. ASSUME NEW d \in Consumers, NEW n \in DOMAIN got'[d]
        PROVE  \E k \in Chunks, i \in Slots : Source(r, d, got[d][n], k, i)'
    <2>1. CASE d # c
      <3>1. got'[d] = got[d] /\ pc'[d] = pc[d]
        BY <1>1, <1>2, <2>1 DEF OthersStay, Threads
      <3>2. PICK k \in Chunks, i \in Slots : Source(r, d, got[d][n], k, i)
        BY <3>1 DEF OrderFacts, PopsInv
      <3>3. Source(r, d, got[d][n], k, i)'
        BY <1>1, <3>1, <3>2 DEF Source, Before, HoldsClaim, slotVars
      <3> QED
        BY <3>3
    <2>2. CASE d = c /\ n \in 1 .. len
      <3>1. PICK k \in Chunks, i \in Slots : Source(r, d, got[d][n], k, i)
        BY <1>2, <2>2 DEF OrderFacts, PopsInv
      <3>2. Source(r, d, got[d][n], k, i)'
        BY <1>1, <1>2, <2>2, <3>1 DEF Source, HoldsClaim, slotVars
      <3> QED
        BY <3>2
    <2>3. CASE d = c /\ n = len + 1
      <3>0. PICK k \in Chunks, i \in Slots : k = k0 /\ i = i0
        BY <1>0
      <3>1. Source(r, d, got[d][n], k, i)'
        <4>1. got'[d][n] = v0 /\ storage'[k][i] = v0 /\ pop_index' = pop_index /\ cur'[d] = k
          BY <1>1, <1>2, <2>3, <3>0 DEF v0, k0, slotVars
        <4>2. ~HoldsClaim(d)'
          BY <1>1, <2>3 DEF HoldsClaim
        <4>3. r[k] <= r[k]
          BY <1>0
        <4> QED
          BY <1>3, <1>6, <3>0, <4>1, <4>2, <4>3 DEF Source
      <3> QED
        BY <3>1
    <2> QED
      BY <1>2, <2>1, <2>2, <2>3
  <1>10. ASSUME NEW n \in 1 .. len, got[c][n] # NULL, got[c][n][1] = v0[1]
         PROVE  got[c][n][2] < v0[2]
    <2>1. PICK k \in Chunks, i \in Slots : Source(r, c, got[c][n], k, i)
      BY <1>2 DEF OrderFacts, PopsInv
    <2>2. storage[k][i] = got[c][n] /\ Before(r, k, i, k0, i0)
      BY <1>0, <2>1 DEF Source, HoldsClaim, k0, i0
    <2>3. PICK p \in Producers, m \in 1 .. MaxItems : v0 = <<p, m>>
      BY <1>3 DEF Items
    <2>4. PICK q \in Producers, l \in 1 .. MaxItems : got[c][n] = <<q, l>>
      BY <1>2 DEF SlotFacts, GotWasSent
    <2>5. q = p
      BY <1>10, <2>3, <2>4
    <2>6. l < m
      BY <1>0, <2>2, <2>3, <2>4, <2>5 DEF OrderFacts, ValuesInv, v0
    <2> QED
      BY <2>3, <2>4, <2>6
  <1>11. PerProducerOrder'
    <2>1. ASSUME NEW d \in Consumers, NEW i \in DOMAIN got'[d], NEW j \in DOMAIN got'[d],
                 i < j, got'[d][i] # NULL, got'[d][j] # NULL, got'[d][i][1] = got'[d][j][1]
          PROVE  got'[d][i][2] < got'[d][j][2]
      <3>1. CASE d # c
        BY <1>2, <2>1, <3>1 DEF OrderFacts, PopsInv, PerProducerOrder
      <3>2. CASE d = c /\ j \in 1 .. len
        <4>1. i \in 1 .. len
          BY <1>2, <2>1, <3>2
        <4> QED
          BY <1>2, <2>1, <3>2, <4>1 DEF OrderFacts, PopsInv, PerProducerOrder
      <3>3. CASE d = c /\ j = len + 1
        <4>1. i \in 1 .. len
          BY <1>2, <2>1, <3>3
        <4> QED
          BY <1>2, <1>10, <2>1, <3>3, <4>1
      <3> QED
        BY <1>2, <3>1, <3>2, <3>3
    <2> QED
      BY <2>1 DEF PerProducerOrder
  <1>12. PopsInv(r)'
    BY <1>9, <1>11 DEF PopsInv
  <1> QED
    BY <1>4, <1>5, <1>7, <1>8, <1>12 DEF OrderFacts

-----------------------------------------------------------------------------
LEMMA OrderInit == Init => OrderInv
  <1> SUFFICES ASSUME Init PROVE OrderInv
    OBVIOUS
  <1>0. SlotInv /\ TypeOK
    BY SlotInit DEF SlotInv
  <1>1. PICK r \in Ranks : \A k \in Chunks : r[k] = IF k = head_chunk THEN 1 ELSE 0
    <2>1. [k \in Chunks |-> IF k = head_chunk THEN 1 ELSE 0] \in Ranks
      BY DEF Ranks
    <2> QED
      BY <2>1
  <1>2. /\ head_chunk \in Chunks /\ NULL \notin Chunks
        /\ \A t \in Threads : /\ pc[t] = "idle" /\ cur[t] = head_chunk
                              /\ nxt[t] = NULL /\ spare[t] = NULL /\ old[t] = NULL
        /\ \A k \in Chunks : next[k] = NULL /\ push_index[k] = 0 /\ ~retired[k]
        /\ tail_chunk = head_chunk /\ free_list = NULL /\ allocated = {head_chunk}
    BY <1>0, QueueAssumption DEF Init, TypeOK, SharedTypes
  <1>3. AllocInv(r)
    BY <1>1, <1>2 DEF AllocInv, Unlinked, Unused, Threads
  <1>4. LineInv(r)
    BY <1>1, <1>2 DEF LineInv, FoundFull, Threads
  <1>5. PassedInv(r)
    BY <1>1, <1>2 DEF PassedInv, Releases, Threads
  <1>6. ValuesInv(r)
    <2>1. \A k \in Chunks, i \in Slots : storage[k][i] = NULL
      BY DEF Init
    <2> QED
      BY <2>1, NullIsNoValue DEF ValuesInv
  <1>7. PopsInv(r)
    <2>1. \A c \in Consumers : DOMAIN got[c] = {}
      BY DEF Init
    <2> QED
      BY <2>1 DEF PopsInv, PerProducerOrder
  <1> QED
    BY <1>0, <1>3, <1>4, <1>5, <1>6, <1>7 DEF OrderInv, OrderFacts

LEMMA ReuseIsForEver ==
  ASSUME [Next]_vars, TypeOK, ~reused'
  PROVE  ~reused
  BY DEF Next, vars, histVars, PushStep, PushLoadTail, PushClaim, PushCheck,
     PushConstruct, PushPublish, AllocLoad, AllocNext, AllocCas, AllocReset, AllocNew, PushLink,
     PushSwing, PushFollow, PopStep, PopLoadHead, PopLoadIndex, PopLoadPush, PopEmpty,
     PopLoadNext, PopAdvance, PopRetire, PopClaim, PopEnter, PopWait, PopMove, PopDestroy,
     PopLeave, TryRelease, TryUnretire, ReleaseStep, ReleaseLoad, ReleaseStore, ReleaseCas

LEMMA PushKeepsOrder ==
  ASSUME NEW r \in Ranks, OrderFacts(r), SlotFacts, TypeOK, TypeOK', NEW p \in Producers,
         PushStep(p), ~PushLink(p), ~AllocReset(p)
  PROVE  OrderFacts(r)'
  <1>1. CASE PushClaim(p)
    BY <1>1, PushClaimKeepsOrder
  <1>2. CASE PushConstruct(p)
    BY <1>2, PushConstructKeepsOrder
  <1>3. CASE AllocNew(p)
    BY <1>3, AllocNewKeepsOrder
  <1>4. CASE \/ PushLoadTail(p) \/ PushCheck(p) \/ PushPublish(p) \/ AllocLoad(p)
             \/ AllocNext(p) \/ AllocCas(p) \/ PushSwing(p) \/ PushFollow(p)
    <2>1. p \in Threads /\ Quiet(r, p)
      BY <1>4, PushQuiet DEF Threads
    <2> QED
      BY <2>1, QuietKeepsOrder
  <1> QED
    BY <1>1, <1>2, <1>3, <1>4 DEF PushStep

LEMMA PopKeepsOrder ==
  ASSUME NEW r \in Ranks, OrderFacts(r), SlotFacts, TypeOK, TypeOK', NEW c \in Consumers,
         PopStep(c)
  PROVE  OrderFacts(r)'
  <1>1. CASE PopAdvance(c)
    BY <1>1, PopAdvanceKeepsOrder
  <1>2. CASE PopClaim(c)
    BY <1>2, PopClaimKeepsOrder
  <1>3. CASE PopMove(c)
    BY <1>3, PopMoveKeepsOrder
  <1>4. CASE \/ PopLoadHead(c) \/ PopLoadIndex(c) \/ PopLoadPush(c) \/ PopEmpty(c)
             \/ PopLoadNext(c) \/ PopRetire(c) \/ PopEnter(c) \/ PopWait(c) \/ PopDestroy(c)
             \/ PopLeave(c) \/ TryRelease(c) \/ TryUnretire(c)
    <2>1. c \in Threads /\ Quiet(r, c)
      BY <1>4, PopQuiet DEF Threads
    <2> QED
      BY <2>1, QuietKeepsOrder
  <1> QED
    BY <1>1, <1>2, <1>3, <1>4 DEF PopStep

LEMMA StutterKeepsOrder ==
  ASSUME NEW r \in Ranks, OrderFacts(r),
         UNCHANGED <<chainVars, push_index, pop_index, storage, threadVars, got>>
  PROVE  OrderFacts(r)'
  <1>1. AllocInv(r)' /\ LineInv(r)' /\ PassedInv(r)'
    BY DEF OrderFacts, AllocInv, LineInv, PassedInv, Unlinked, Unused, FoundFull, chainVars,
       threadVars
  <1>2. ValuesInv(r)' /\ PopsInv(r)'
    BY DEF OrderFacts, ValuesInv, PopsInv, Source, Before, Writes, HoldsClaim, PerProducerOrder,
       threadVars
  <1> QED
    BY <1>1, <1>2 DEF OrderFacts

LEMMA OrderStep == OrderInv /\ [Next]_vars => OrderInv'
  <1> SUFFICES ASSUME OrderInv, [Next]_vars PROVE OrderInv'
    OBVIOUS
  <1>0. SlotInv /\ SlotInv' /\ TypeOK /\ TypeOK'
    BY SlotStep DEF OrderInv, SlotInv
  <1> SUFFICES ASSUME ~reused' PROVE \E r \in Ranks : OrderFacts(r)'
    BY <1>0 DEF OrderInv
  <1>1. ~reused
    BY <1>0, ReuseIsForEver
  <1>2. PICK r \in Ranks : OrderFacts(r)
    BY <1>1 DEF OrderInv
  <1>3. SlotFacts
    BY <1>0, <1>1 DEF SlotInv
  <1>4. ASSUME NEW p \in Producers, PushStep(p) PROVE \E rr \in Ranks : OrderFacts(rr)'
    <2>1. CASE AllocReset(p)
      BY <2>1 DEF AllocReset
    <2>2. CASE PushLink(p)
      BY <1>0, <1>2, <1>3, <2>2, PushLinkKeepsOrder
    <2>3. CASE ~AllocReset(p) /\ ~PushLink(p)
      BY <1>0, <1>2, <1>3, <1>4, <2>3, PushKeepsOrder
    <2> QED
      BY <2>1, <2>2, <2>3
  <1>5. ASSUME NEW c \in Consumers, PopStep(c) PROVE OrderFacts(r)'
    BY <1>0, <1>2, <1>3, <1>5, PopKeepsOrder
  <1>6. ASSUME NEW t \in Threads, ReleaseStep(t) PROVE OrderFacts(r)'
    BY <1>0, <1>2, <1>6, ReleaseQuiet, QuietKeepsOrder
  <1>7. CASE UNCHANGED vars
    <2>1. UNCHANGED <<chainVars, push_index, pop_index, storage, threadVars, got>>
      BY <1>7 DEF vars, slotVars, histVars
    <2> QED
      BY <1>2, <2>1, StutterKeepsOrder
  <1> QED
    BY <1>4, <1>5, <1>6, <1>7 DEF Next

(* For any number of producers, consumers, chunks, slots and values: until  *)
(* a chunk of the free list is used again, the values of one producer reach *)
(* each consumer in the order in which push was called, even when a         *)
(* producer stores a tail_chunk that others have passed (mpmc_queue_test,   *)
(* EXPECT_GT(item, last_value)).                                            *)
THEOREM OrderWithoutReuse == Spec => [](~reused => PerProducerOrder)
  <1>1. OrderInv => (~reused => PerProducerOrder)
    BY DEF OrderInv, OrderFacts, PopsInv
  <1> QED
    BY <1>1, OrderInit, OrderStep, PTL DEF Spec

-----------------------------------------------------------------------------
(***************************************************************************)
(* NoLoss while allocate_chunk has returned only new chunks and no pop has *)
(* begun before the pushes were done.  In the first phase every push lands *)
(* in the line of chunks and nothing is taken; in the second a chunk that  *)
(* has a successor is full, so that pop leaves it only when all its slots  *)
(* have been claimed.  Where the phases overlap the last step fails, and   *)
(* values are lost: pop may have looked before the chunk was full.         *)
(***************************************************************************)

(* Not all the pushes have been done. *)
Pushing == \E p \in Producers : pc[p] # "idle" \/ sent[p] < Quota[p]

Untouched(r) ==
  /\ \A c \in Consumers : pc[c] = "idle"
  /\ \A k \in Chunks : pop_index[k] = 0 /\ (r[k] > 0 => r[k] >= r[head_chunk])

(* Producers work on chunks of the line. *)
InLine(r) ==
  /\ r[tail_chunk] > 0
  /\ \A p \in Producers :
       /\ r[cur[p]] > 0
       /\ pc[p] = "swing" => r[spare[p]] > 0
       /\ pc[p] \in Releases \cup {"follow"} => r[nxt[p]] > 0

(* The slot of value v in the line: claimed by pop, or occupied. *)
Holds(r, v, k, i) ==
  storage[k][i] = v /\ r[k] > 0 /\ (i < pop_index[k] \/ occupied[k][i])

Kept(r) ==
  \A p \in Producers, n \in 1 .. MaxItems : n <= sent[p] =>
    \E k \in Chunks, i \in Slots : Holds(r, <<p, n>>, k, i)

(* A slot that was claimed is still held, or its value has been moved out. *)
Taken ==
  \A k \in Chunks, i \in Slots : i < pop_index[k] =>
    \/ \E c \in Consumers : \E n \in DOMAIN got[c] : got[c][n] = storage[k][i]
    \/ \E c \in Consumers : HoldsClaim(c) /\ At(c, k, i)

Emptied(r) ==
  \A k \in Chunks : 0 < r[k] /\ r[k] < r[head_chunk] => pop_index[k] >= CHUNK_SIZE

(* What consumer c knows of its chunk while it looks at it. *)
Look(c) ==
  /\ pc[c] \in {"limit", "take", "next", "advance"} => index[c] <= pop_index[cur[c]]
  /\ pc[c] \in {"next", "advance"} => NothingLeft(c)

LossFacts(r) ==
  /\ Pushing => Untouched(r)
  /\ InLine(r) /\ Kept(r) /\ Taken /\ Emptied(r)
  /\ \A c \in Consumers : Look(c)

LossInv ==
  SlotInv /\ (PhasedUse /\ ~reused => \E r \in Ranks : OrderFacts(r) /\ LossFacts(r))

-----------------------------------------------------------------------------
(* The chain of head_chunk holds the line from head_chunk on. *)

LEMMA LeastOf ==
  ASSUME NEW S \in SUBSET Nat, S # {}
  PROVE  \E x \in S : \A y \in S : x <= y
  <1> DEFINE R == OpToRel(<, Nat)
  <1>1. R = {ss \in Nat \X Nat : ss[1] < ss[2]}
    BY DEF OpToRel
  <1>2. \A x, y \in Nat : x < y => <<x, y>> \in R
    BY <1>1
  <1>3. IsWellFoundedOn(R, Nat)
    BY NatLessThanWellFounded
  <1> HIDE DEF R
  <1>4. PICK x \in S : \A y \in S : ~ (<<y, x>> \in R)
    BY <1>3, WFMin
  <1>5. ASSUME NEW y \in S PROVE x <= y
    <2>1. ~ (y < x)
      BY <1>2, <1>4
    <2> QED
      BY <2>1
  <1> QED
    BY <1>5

LEMMA LineIsReached ==
  ASSUME NEW r \in Ranks, LineInv(r), TypeOK, NEW k \in Chunks, r[k] >= r[head_chunk]
  PROVE  k \in Chain(head_chunk)
  <1>0. /\ r \in [Chunks -> Nat] /\ head_chunk \in Chunks /\ next \in [Chunks -> Null(Chunks)]
        /\ NULL \notin Chunks
    BY QueueAssumption DEF Ranks, TypeOK, SharedTypes
  <1> SUFFICES ASSUME NEW S \in SUBSET Chunks, head_chunk \in Null(S),
                      \A e \in S : next[e] \in Null(S)
               PROVE  k \in S
    BY DEF Chain
  <1> DEFINE D == {n \in Nat : \E l \in S : r[l] >= r[head_chunk] /\ r[l] + n = r[k]}
  <1>1. head_chunk \in S
    BY <1>0 DEF Null
  <1>2. r[k] - r[head_chunk] \in D
    BY <1>0, <1>1
  <1>3. PICK n \in D : \A m \in D : n <= m
    <2>1. D \in SUBSET Nat /\ D # {}
      BY <1>2
    <2> HIDE DEF D
    <2> QED
      BY <2>1, LeastOf
  <1>4. PICK l \in S : r[l] >= r[head_chunk] /\ r[l] + n = r[k]
    OBVIOUS
  <1>5. CASE n = 0
    <2>1. r[l] = r[k] /\ r[k] > 0
      BY <1>0, <1>4, <1>5 DEF LineInv
    <2> QED
      BY <1>4, <2>1 DEF LineInv
  <1>6. CASE n # 0
    <2>1. n \in Nat /\ n >= 1 /\ r[l] < r[k] /\ l \in Chunks
      BY <1>0, <1>4, <1>6
    <2>2. next[l] # NULL /\ r[next[l]] = r[l] + 1
      BY <1>0, <1>4, <2>1 DEF LineInv
    <2>3. next[l] \in S
      BY <1>4, <2>2 DEF Null
    <2>4. n - 1 \in D
      BY <1>0, <1>4, <2>1, <2>2, <2>3
    <2> QED
      BY <1>3, <2>1, <2>4
  <1> QED
    BY <1>5, <1>6

LEMMA LossFactsGiveNoLoss ==
  ASSUME NEW r \in Ranks, OrderFacts(r), LossFacts(r), TypeOK
  PROVE  NoLoss
  <1> SUFFICES ASSUME NEW v \in Completed PROVE v \in Delivered \cup Claimed \cup Stored
    BY DEF NoLoss
  <1>1. PICK p \in Producers, n \in 1 .. MaxItems : v = <<p, n>> /\ n <= sent[p]
    BY DEF Completed, Items
  <1>2. PICK k \in Chunks, i \in Slots : Holds(r, v, k, i)
    BY <1>1 DEF LossFacts, Kept
  <1>3. CASE i < pop_index[k]
    <2>1. CASE \E c \in Consumers : \E m \in DOMAIN got[c] : got[c][m] = storage[k][i]
      <3>1. v \in Delivered
        BY <1>2, <2>1 DEF Holds, Delivered, Range
      <3> QED
        BY <3>1
    <2>2. CASE \E c \in Consumers : HoldsClaim(c) /\ At(c, k, i)
      <3>1. v \in Claimed
        BY <1>2, <2>2 DEF Holds, Claimed, At
      <3> QED
        BY <3>1
    <2> QED
      BY <1>3, <2>1, <2>2 DEF LossFacts, Taken
  <1>4. CASE ~(i < pop_index[k])
    <2>1. /\ i \in Int /\ pop_index[k] \in Nat /\ r[k] \in Nat /\ r[head_chunk] \in Nat
          /\ i < CHUNK_SIZE /\ CHUNK_SIZE \in Nat
      BY QueueAssumption DEF Slots, TypeOK, SharedTypes, Ranks
    <2>2. occupied[k][i] /\ r[k] > 0 /\ i >= pop_index[k]
      BY <1>2, <1>4, <2>1 DEF Holds
    <2>3. r[k] >= r[head_chunk]
      BY <1>4, <2>1, <2>2 DEF LossFacts, Emptied
    <2>4. k \in Chain(head_chunk)
      BY <2>3, LineIsReached DEF OrderFacts
    <2>5. <<k, i>> \in LiveSlots
      BY <2>2, <2>4 DEF LiveSlots
    <2>6. v \in Stored
      BY <1>2, <2>5 DEF Stored, Holds
    <2> QED
      BY <2>6
  <1> QED
    BY <1>3, <1>4

-----------------------------------------------------------------------------
(* The first phase: producers fill the line, nobody takes anything. *)

(* Ranks of the line stay, chunks may be added behind head_chunk. *)
Grows(r, rr) ==
  \A k \in Chunks :
    /\ r[k] > 0 => rr[k] = r[k]
    /\ rr[k] > 0 => r[k] > 0 \/ rr[k] > r[head_chunk]

LEMMA UntouchedStays ==
  ASSUME NEW r \in Ranks, NEW rr \in Ranks, Grows(r, rr), Untouched(r), r[head_chunk] > 0,
         TypeOK, NEW p \in Producers, OthersStay(p), UNCHANGED <<head_chunk, pop_index>>
  PROVE  Untouched(rr)' /\ Taken' /\ Emptied(rr)' /\ \A c \in Consumers : Look(c)'
  <1>0. /\ head_chunk \in Chunks /\ r \in [Chunks -> Nat] /\ rr \in [Chunks -> Nat]
        /\ \A c \in Consumers : c \in Threads /\ c # p
    BY QueueAssumption DEF TypeOK, SharedTypes, Ranks, Threads
  <1>1. \A c \in Consumers : pc'[c] = "idle"
    BY <1>0 DEF Untouched, OthersStay
  <1>2. \A k \in Chunks : pop_index'[k] = 0
    BY DEF Untouched
  <1>3. \A k \in Chunks : rr[k] > 0 => rr[k] >= rr[head_chunk']
    BY <1>0 DEF Grows, Untouched
  <1>4. Untouched(rr)'
    BY <1>1, <1>2, <1>3 DEF Untouched
  <1>5. Taken'
    BY <1>2 DEF Taken, Slots
  <1>6. Emptied(rr)'
    <2>0. head_chunk' \in Chunks
      BY <1>0
    <2> QED
      BY <1>0, <1>3, <2>0 DEF Emptied
  <1>7. \A c \in Consumers : Look(c)'
    BY <1>1 DEF Look
  <1> QED
    BY <1>4, <1>5, <1>6, <1>7

LEMMA KeptStays ==
  ASSUME NEW r \in Ranks, NEW rr \in Ranks, Grows(r, rr), Kept(r), TypeOK, TypeOK',
         UNCHANGED sent,
         \A k \in Chunks, i \in Slots :
           /\ storage[k][i] # NULL => storage'[k][i] = storage[k][i]
           /\ occupied[k][i] => occupied'[k][i] \/ i < pop_index[k],
         \A k \in Chunks : pop_index'[k] >= pop_index[k]
  PROVE  Kept(rr)'
  <1> SUFFICES ASSUME NEW p \in Producers, NEW n \in 1 .. MaxItems, n <= sent[p]
               PROVE  \E k \in Chunks, i \in Slots : Holds(rr, <<p, n>>, k, i)'
    BY DEF Kept
  <1>1. PICK k \in Chunks, i \in Slots : Holds(r, <<p, n>>, k, i)
    BY DEF Kept
  <1>2. i \in Int /\ pop_index[k] \in Nat /\ pop_index'[k] \in Nat /\ pop_index'[k] >= pop_index[k]
    BY DEF Slots, TypeOK, SharedTypes
  <1>3. i < pop_index[k] => i < pop_index'[k]
    BY <1>2
  <1>4. storage'[k][i] = <<p, n>>
    BY <1>1, NullIsNoValue DEF Holds
  <1>5. rr[k] > 0
    BY <1>1 DEF Holds, Grows
  <1>6. Holds(rr, <<p, n>>, k, i)'
    BY <1>1, <1>3, <1>4, <1>5 DEF Holds
  <1> QED
    BY <1>6

LEMMA InLineStays ==
  ASSUME NEW r \in Ranks, NEW rr \in Ranks, Grows(r, rr), InLine(r), TypeOK, TypeOK',
         NEW p \in Producers, OthersStay(p), rr[tail_chunk'] > 0, rr[cur'[p]] > 0,
         pc'[p] = "swing" => rr[spare'[p]] > 0,
         pc'[p] \in Releases \cup {"follow"} => rr[nxt'[p]] > 0
  PROVE  InLine(rr)'
  <1> SUFFICES ASSUME NEW q \in Producers, q # p
               PROVE  /\ rr[cur'[q]] > 0
                      /\ pc'[q] = "swing" => rr[spare'[q]] > 0
                      /\ pc'[q] \in Releases \cup {"follow"} => rr[nxt'[q]] > 0
    BY DEF InLine, Releases
  <1>1. /\ q \in Threads /\ cur'[q] = cur[q] /\ pc'[q] = pc[q]
        /\ spare'[q] = spare[q] /\ nxt'[q] = nxt[q] /\ cur[q] \in Chunks
    BY DEF OthersStay, Threads, TypeOK, LocalTypes
  <1>2. rr[cur[q]] > 0
    BY <1>1 DEF InLine, Grows
  <1>3. pc[q] = "swing" => spare[q] \in Chunks /\ r[spare[q]] > 0
    BY <1>1 DEF InLine, TypeOK, PointersValid, UsesSpare
  <1>4. pc[q] \in Releases \cup {"follow"} => nxt[q] \in Chunks /\ r[nxt[q]] > 0
    BY <1>1 DEF InLine, TypeOK, PointersValid
  <1> QED
    BY <1>1, <1>2, <1>3, <1>4 DEF Grows

(* A producer that takes a step has not done all its pushes. *)
LEMMA PushMeansPushing ==
  ASSUME NEW p \in Producers, PushStep(p) \/ ReleaseStep(p), TypeOK
  PROVE  Pushing
  BY DEF Pushing, PushStep, ReleaseStep, PushLoadTail, PushClaim, PushCheck, PushConstruct,
     PushPublish, AllocLoad, AllocNext, AllocCas, AllocReset, AllocNew, PushLink, PushSwing,
     PushFollow, ReleaseLoad, ReleaseStore, ReleaseCas, Goto

(* Most steps of push and release_chunk touch no slot and add no chunk. *)
LEMMA PushStepsKeepLoss ==
  ASSUME NEW r \in Ranks, OrderFacts(r), LossFacts(r), SlotFacts, TypeOK, TypeOK',
         NEW p \in Producers,
         \/ PushLoadTail(p) \/ PushClaim(p) \/ PushCheck(p) \/ PushConstruct(p)
         \/ AllocLoad(p) \/ AllocNext(p) \/ AllocCas(p) \/ AllocNew(p)
         \/ PushSwing(p) \/ PushFollow(p) \/ ReleaseStep(p)
  PROVE  LossFacts(r)'
  <1>0. /\ p \in Threads /\ Grows(r, r) /\ Pushing /\ Untouched(r) /\ r[head_chunk] > 0
        /\ r[tail_chunk] > 0 /\ r[cur[p]] > 0
    <2>1. Pushing
      BY PushMeansPushing DEF PushStep
    <2> QED
      BY <2>1 DEF Threads, Grows, LossFacts, OrderFacts, LineInv, InLine
  <1>1. OthersStay(p) /\ UNCHANGED <<head_chunk, pop_index, occupied, sent>>
    <2> USE <1>0 DEF OthersStay, TypeOK, LocalTypes, chainVars, slotVars, histVars, Goto
    <2>1. CASE PushLoadTail(p) \/ PushClaim(p) \/ PushCheck(p) \/ PushConstruct(p)
      BY <2>1 DEF PushLoadTail, PushClaim, PushCheck, PushConstruct
    <2>2. CASE AllocLoad(p) \/ AllocNext(p) \/ AllocCas(p) \/ AllocNew(p)
      BY <2>2 DEF AllocLoad, AllocNext, AllocCas, AllocNew
    <2>3. CASE PushSwing(p) \/ PushFollow(p)
      BY <2>3 DEF PushSwing, PushFollow
    <2>4. CASE ReleaseStep(p)
      BY <2>4 DEF ReleaseStep, ReleaseLoad, ReleaseStore, ReleaseCas
    <2> QED
      BY <2>1, <2>2, <2>3, <2>4
  <1>2. Untouched(r)' /\ Taken' /\ Emptied(r)' /\ \A c \in Consumers : Look(c)'
    BY <1>0, <1>1, UntouchedStays
  <1>3. Kept(r)'
    <2>1. ASSUME NEW k \in Chunks, NEW i \in Slots, storage[k][i] # NULL
          PROVE  storage'[k][i] = storage[k][i]
      <3>1. CASE PushConstruct(p)
        <4>1. /\ storage[cur[p]][index[p]] = NULL
              /\ storage' = [storage EXCEPT ![cur[p]][index[p]] = Value(p)]
          BY <3>1 DEF PushConstruct, Goto, SlotFacts, WritersHoldSlots, Writes
        <4>2. ~(k = cur[p] /\ i = index[p])
          BY <2>1, <4>1
        <4>3. storage \in [Chunks -> [Slots -> Null(Items)]]
          BY DEF TypeOK, SharedTypes
        <4> QED
          BY <4>1, <4>2, <4>3
      <3>2. CASE ~PushConstruct(p)
        BY <3>2 DEF PushLoadTail, PushClaim, PushCheck, AllocLoad, AllocNext, AllocCas, AllocNew,
           PushSwing, PushFollow, ReleaseStep, ReleaseLoad, ReleaseStore, ReleaseCas, slotVars
      <3> QED
        BY <3>1, <3>2
    <2>2. \A k \in Chunks : pop_index'[k] >= pop_index[k]
      BY <1>1 DEF TypeOK, SharedTypes
    <2> QED
      BY <1>0, <1>1, <2>1, <2>2, KeptStays DEF LossFacts
  <1>4. /\ r[tail_chunk'] > 0 /\ r[cur'[p]] > 0
        /\ pc'[p] # "swing"
        /\ pc'[p] \in Releases \cup {"follow"} => r[nxt'[p]] > 0
    <2> USE <1>0 DEF TypeOK, LocalTypes, chainVars, Goto, Releases
    <2>1. CASE PushLoadTail(p)
      BY <2>1 DEF PushLoadTail
    <2>2. CASE PushClaim(p) \/ PushCheck(p) \/ PushConstruct(p)
      BY <2>2 DEF PushClaim, PushCheck, PushConstruct
    <2>3. CASE AllocLoad(p) \/ AllocNext(p) \/ AllocCas(p) \/ AllocNew(p)
      BY <2>3 DEF AllocLoad, AllocNext, AllocCas, AllocNew, AfterAlloc
    <2>4. CASE PushSwing(p)
      BY <2>4 DEF PushSwing, LossFacts, InLine
    <2>5. CASE PushFollow(p)
      BY <2>5 DEF PushFollow, LossFacts, InLine
    <2>6. CASE ReleaseStep(p)
      <3>1. /\ pc[p] \in Releases /\ tail_chunk' = tail_chunk /\ cur'[p] = cur[p]
            /\ nxt'[p] = nxt[p] /\ pc'[p] # "swing"
        BY <2>6 DEF ReleaseStep, ReleaseLoad, ReleaseStore, ReleaseCas, AfterRelease, AfterTry
      <3> QED
        BY <3>1 DEF LossFacts, InLine
    <2> QED
      BY <2>1, <2>2, <2>3, <2>4, <2>5, <2>6
  <1>5. InLine(r)'
    BY <1>0, <1>1, <1>4, InLineStays DEF LossFacts
  <1> QED
    BY <1>2, <1>3, <1>5 DEF LossFacts

(* The value that is published is in the line. *)
LEMMA PushPublishKeepsLoss ==
  ASSUME NEW r \in Ranks, OrderFacts(r), LossFacts(r), SlotFacts, TypeOK, TypeOK',
         NEW p \in Producers, PushPublish(p)
  PROVE  LossFacts(r)'
  <1>0. /\ p \in Threads /\ Grows(r, r) /\ Pushing /\ Untouched(r) /\ r[head_chunk] > 0
        /\ r[tail_chunk] > 0 /\ r[cur[p]] > 0
    <2>1. Pushing
      BY PushMeansPushing DEF PushStep
    <2> QED
      BY <2>1 DEF Threads, Grows, LossFacts, OrderFacts, LineInv, InLine
  <1>1. /\ pc[p] = "publish" /\ pc'[p] = "idle" /\ OthersStay(p)
        /\ UNCHANGED <<chainVars, pop_index, storage, cur, nxt, spare>>
        /\ cur[p] \in Chunks /\ index[p] \in Slots
        /\ storage[cur[p]][index[p]] = <<p, sent[p] + 1>>
    BY <1>0 DEF PushPublish, Goto, OthersStay, TypeOK, LocalTypes, PointersValid, UsesSlot,
       SlotFacts, WritersHoldSlots, Writes, Value
  <1>2. Untouched(r)' /\ Taken' /\ Emptied(r)' /\ \A c \in Consumers : Look(c)'
    BY <1>0, <1>1, UntouchedStays DEF chainVars
  <1>3. InLine(r)'
    BY <1>0, <1>1, InLineStays DEF LossFacts, chainVars, Releases
  <1>4. /\ \A k \in Chunks, i \in Slots : occupied[k][i] => occupied'[k][i]
        /\ occupied'[cur[p]][index[p]]
    <2>1. /\ occupied \in [Chunks -> [Slots -> BOOLEAN]]
          /\ occupied' = [occupied EXCEPT ![cur[p]][index[p]] = TRUE]
      BY DEF PushPublish, TypeOK, SharedTypes
    <2> QED
      BY <1>1, <2>1
  <1>5. Kept(r)'
    <2> SUFFICES ASSUME NEW q \in Producers, NEW n \in 1 .. MaxItems, n <= sent'[q]
                 PROVE  \E k \in Chunks, i \in Slots : Holds(r, <<q, n>>, k, i)'
      BY DEF Kept
    <2>1. sent' = [sent EXCEPT ![p] = sent[p] + 1] /\ sent[p] \in Nat /\ sent[q] \in Nat
          /\ sent \in [Producers -> 0 .. MaxItems]
      BY QueueAssumption DEF PushPublish, TypeOK, HistoryTypes
    <2>2. CASE n <= sent[q]
      <3>1. PICK k \in Chunks, i \in Slots : Holds(r, <<q, n>>, k, i)
        BY <2>2 DEF LossFacts, Kept
      <3>2. Holds(r, <<q, n>>, k, i)'
        BY <1>1, <1>4, <3>1 DEF Holds
      <3> QED
        BY <3>2
    <2>3. CASE ~(n <= sent[q])
      <3>1. q = p /\ n = sent[p] + 1
        BY <2>1, <2>3
      <3>2. PICK k \in Chunks, i \in Slots : k = cur[p] /\ i = index[p]
        BY <1>1
      <3>3. Holds(r, <<q, n>>, k, i)'
        BY <1>0, <1>1, <1>4, <3>1, <3>2 DEF Holds
      <3> QED
        BY <3>3
    <2> QED
      BY <2>2, <2>3
  <1> QED
    BY <1>2, <1>3, <1>5 DEF LossFacts

(* A chunk is linked behind the last one: every chunk of the line is in     *)
(* front of head_chunk or is head_chunk.                                    *)
LEMMA PushLinkKeepsLoss ==
  ASSUME NEW r \in Ranks, OrderFacts(r), LossFacts(r), SlotFacts, TypeOK, TypeOK',
         NEW p \in Producers, PushLink(p)
  PROVE  \E rr \in Ranks : OrderFacts(rr)' /\ LossFacts(rr)'
  <1>0. /\ p \in Threads /\ Pushing /\ Untouched(r) /\ r[head_chunk] > 0
        /\ r[tail_chunk] > 0 /\ r[cur[p]] > 0 /\ cur[p] \in Chunks
        /\ r[cur[p]] >= r[head_chunk] /\ tail_chunk \in Chunks
    <2>1. Pushing
      BY PushMeansPushing DEF PushStep
    <2>2. cur[p] \in Chunks /\ p \in Threads /\ tail_chunk \in Chunks
      BY DEF Threads, TypeOK, LocalTypes, SharedTypes
    <2> QED
      BY <2>1, <2>2 DEF LossFacts, OrderFacts, LineInv, InLine, Untouched
  <1>1. PICK rr \in Ranks : OrderFacts(rr)' /\ Extends(r, rr, p)
    BY PushLinkKeepsOrder
  <1>2. Grows(r, rr)
    BY <1>1 DEF Extends, Grows
  <1>3. /\ OthersStay(p) /\ cur'[p] = cur[p] /\ spare'[p] = spare[p]
        /\ UNCHANGED <<head_chunk, tail_chunk, slotVars, sent>>
        /\ IF next[cur[p]] = NULL
           THEN pc'[p] = "swing"
           ELSE pc'[p] = "rel_load" /\ nxt'[p] = next[cur[p]]
    BY <1>0 DEF PushLink, Goto, OthersStay, TypeOK, LocalTypes, chainVars, histVars
  <1>4. Untouched(rr)' /\ Taken' /\ Emptied(rr)' /\ \A c \in Consumers : Look(c)'
    BY <1>0, <1>2, <1>3, UntouchedStays DEF slotVars
  <1>5. Kept(rr)'
    <2>1. \A k \in Chunks : pop_index'[k] >= pop_index[k]
      BY <1>3 DEF slotVars, TypeOK, SharedTypes
    <2> QED
      BY <1>2, <1>3, <2>1, KeptStays DEF LossFacts, slotVars
  <1>6. InLine(rr)'
    <2>1. rr[tail_chunk'] > 0 /\ rr[cur'[p]] > 0
      BY <1>0, <1>2, <1>3 DEF Grows
    <2>2. pc'[p] = "swing" => rr[spare'[p]] > 0
      BY <1>0, <1>1, <1>3 DEF Extends
    <2>3. pc'[p] \in Releases \cup {"follow"} => rr[nxt'[p]] > 0
      <3>1. CASE next[cur[p]] = NULL
        BY <1>3, <3>1 DEF Releases
      <3>2. CASE next[cur[p]] # NULL
        <4>1. next[cur[p]] \in Chunks /\ r[next[cur[p]]] = r[cur[p]] + 1 /\ r[cur[p]] \in Nat
          BY <1>0, <3>2 DEF OrderFacts, LineInv, TypeOK, SharedTypes, Null, Ranks
        <4> QED
          BY <1>2, <1>3, <3>2, <4>1 DEF Grows
      <3> QED
        BY <3>1, <3>2
    <2> QED
      BY <1>2, <1>3, <2>1, <2>2, <2>3, InLineStays DEF LossFacts
  <1> QED
    BY <1>1, <1>4, <1>5, <1>6 DEF LossFacts

-----------------------------------------------------------------------------
(* Taken, step by step. *)

LEMMA TakenStays ==
  ASSUME Taken, GotWasSent, NEW t \in Threads, OthersStay(t), UNCHANGED <<pop_index, got>>,
         \A k \in Chunks, i \in Slots : storage[k][i] # NULL => storage'[k][i] = storage[k][i],
         t \in Consumers /\ HoldsClaim(t) =>
           HoldsClaim(t)' /\ cur'[t] = cur[t] /\ index'[t] = index[t]
  PROVE  Taken'
  <1> SUFFICES ASSUME NEW k \in Chunks, NEW i \in Slots, i < pop_index[k]
               PROVE  \/ \E d \in Consumers : \E n \in DOMAIN got[d] : got[d][n] = storage'[k][i]
                      \/ \E d \in Consumers : HoldsClaim(d)' /\ At(d, k, i)'
    BY DEF Taken
  <1>1. CASE \E d \in Consumers : \E n \in DOMAIN got[d] : got[d][n] = storage[k][i]
    <2>1. PICK d \in Consumers : \E n \in DOMAIN got[d] : got[d][n] = storage[k][i]
      BY <1>1
    <2>2. \E p \in Producers, m \in 1 .. MaxItems : storage[k][i] = <<p, m>>
      BY <2>1 DEF GotWasSent
    <2>3. storage[k][i] # NULL
      BY <2>1, <2>2, NullIsNoValue
    <2> QED
      BY <2>1, <2>3
  <1>2. CASE \E d \in Consumers : HoldsClaim(d) /\ At(d, k, i)
    BY <1>2 DEF OthersStay, HoldsClaim, At, Threads
  <1> QED
    BY <1>1, <1>2 DEF Taken

LEMMA PopClaimKeepsTaken ==
  ASSUME Taken, TypeOK, TypeOK', NEW c \in Consumers, PopClaim(c)
  PROVE  Taken'
  <1>0. /\ c \in Threads /\ pc[c] = "take" /\ cur[c] \in Chunks /\ index[c] \in Nat
        /\ pop_index \in [Chunks -> Nat] /\ Consumers \subseteq Threads /\ Slots \subseteq Nat
    <2>1. c \in Threads /\ Consumers \subseteq Threads /\ CHUNK_SIZE \in Nat
      BY QueueAssumption DEF Threads
    <2>2. pc[c] = "take" /\ cur[c] \in Chunks /\ index[c] \in Nat
      BY <2>1 DEF PopClaim, Goto, TypeOK, LocalTypes
    <2>3. Slots \subseteq Nat
      BY <2>1 DEF Slots
    <2> QED
      BY <2>1, <2>2, <2>3 DEF TypeOK, SharedTypes
  <1>1. /\ OthersStay(c) /\ UNCHANGED <<storage, cur, index, got>>
        /\ \/ pop_index' = pop_index
           \/ /\ pc'[c] = "enter" /\ index[c] = pop_index[cur[c]]
              /\ pop_index' = [pop_index EXCEPT ![cur[c]] = index[c] + 1]
    BY <1>0 DEF PopClaim, Goto, OthersStay, TypeOK, LocalTypes, slotVars, histVars
  <1> SUFFICES ASSUME NEW k \in Chunks, NEW i \in Slots, i < pop_index'[k]
               PROVE  \/ \E d \in Consumers : \E n \in DOMAIN got[d] : got[d][n] = storage[k][i]
                      \/ \E d \in Consumers : HoldsClaim(d)' /\ At(d, k, i)'
    BY <1>1 DEF Taken
  <1>2. \A d \in Consumers :
          HoldsClaim(d) => HoldsClaim(d)' /\ cur'[d] = cur[d] /\ index'[d] = index[d]
    BY <1>0, <1>1 DEF OthersStay, HoldsClaim
  <1>3. CASE i < pop_index[k]
    BY <1>2, <1>3 DEF Taken, At
  <1>4. CASE ~(i < pop_index[k])
    <2>1. k = cur[c] /\ i = index[c] /\ pc'[c] = "enter"
      BY <1>0, <1>1, <1>4
    <2> QED
      BY <1>1, <2>1 DEF At, HoldsClaim
  <1> QED
    BY <1>3, <1>4

LEMMA PopMoveKeepsTaken ==
  ASSUME Taken, TypeOK, TypeOK', NEW c \in Consumers, PopMove(c)
  PROVE  Taken'
  <1>0. /\ c \in Threads /\ pc[c] = "move" /\ cur[c] \in Chunks /\ index[c] \in Slots
        /\ Consumers \subseteq Threads
    BY DEF PopMove, Goto, Threads, TypeOK, LocalTypes, PointersValid, UsesSlot
  <1>1. /\ OthersStay(c) /\ pc'[c] = "destroy" /\ UNCHANGED <<chainVars, slotVars, cur, index>>
        /\ got' = [got EXCEPT ![c] = Append(got[c], storage[cur[c]][index[c]])]
    BY <1>0 DEF PopMove, Goto, OthersStay, TypeOK, LocalTypes
  <1>2. /\ \A d \in Consumers : \A n \in DOMAIN got[d] :
             n \in DOMAIN got'[d] /\ got'[d][n] = got[d][n]
        /\ \E n \in DOMAIN got'[c] : got'[c][n] = storage[cur[c]][index[c]]
    <2>0. storage \in [Chunks -> [Slots -> Null(Items)]]
      BY DEF TypeOK, SharedTypes
    <2>1. got \in [Consumers -> Seq(Null(Items))] /\ storage[cur[c]][index[c]] \in Null(Items)
      BY <1>0, <2>0 DEF TypeOK, HistoryTypes
    <2>2. got[c] \in Seq(Null(Items)) /\ got'[c] = Append(got[c], storage[cur[c]][index[c]])
      BY <1>1, <2>1
    <2>3. /\ \A n \in DOMAIN got[c] : n \in DOMAIN got'[c] /\ got'[c][n] = got[c][n]
          /\ Len(got[c]) + 1 \in DOMAIN got'[c]
          /\ got'[c][Len(got[c]) + 1] = storage[cur[c]][index[c]]
      BY <2>1, <2>2
    <2>4. \A d \in Consumers : d # c => got'[d] = got[d]
      BY <1>1, <2>1
    <2> QED
      BY <2>3, <2>4
  <1> SUFFICES ASSUME NEW k \in Chunks, NEW i \in Slots, i < pop_index[k]
               PROVE  \/ \E d \in Consumers : \E n \in DOMAIN got'[d] : got'[d][n] = storage[k][i]
                      \/ \E d \in Consumers : HoldsClaim(d)' /\ At(d, k, i)'
    BY <1>1 DEF Taken, slotVars
  <1>3. CASE \E d \in Consumers : \E n \in DOMAIN got[d] : got[d][n] = storage[k][i]
    BY <1>2, <1>3
  <1>4. CASE \E d \in Consumers : HoldsClaim(d) /\ At(d, k, i)
    <2>1. PICK d \in Consumers : HoldsClaim(d) /\ At(d, k, i)
      BY <1>4
    <2>2. CASE d = c
      BY <1>2, <2>1, <2>2 DEF At
    <2>3. CASE d # c
      <3>1. HoldsClaim(d)' /\ At(d, k, i)'
        BY <1>0, <1>1, <2>1, <2>3 DEF OthersStay, HoldsClaim, At
      <3> QED
        BY <3>1
    <2> QED
      BY <2>2, <2>3
  <1> QED
    BY <1>3, <1>4 DEF Taken

-----------------------------------------------------------------------------
(* The second phase: nobody pushes. *)

(* A step of consumer c in the second phase, as far as the producers and    *)
(* the values in the slots are concerned.                                   *)
Popping(c) ==
  /\ OthersStay(c) /\ UNCHANGED <<tail_chunk, push_index, storage, sent>>
  /\ ~Pushing
  /\ \A k \in Chunks : pop_index'[k] >= pop_index[k]
  /\ \A k \in Chunks, i \in Slots : occupied[k][i] => occupied'[k][i] \/ i < pop_index[k]

LEMMA PopsArePopping ==
  ASSUME PhasedUse, NEW r \in Ranks, LossFacts(r), SlotFacts, TypeOK, TypeOK',
         NEW c \in Consumers, PopStep(c) \/ ReleaseStep(c)
  PROVE  Popping(c)
  <1>0. c \in Threads /\ c \notin Producers /\ cur[c] \in Chunks /\ index[c] \in Nat
    BY QueueAssumption DEF Threads, TypeOK, LocalTypes
  <1>1. ~Pushing
    <2>1. CASE pc[c] # "idle"
      BY <2>1 DEF LossFacts, Untouched
    <2>2. CASE pc[c] = "idle"
      <3>1. \A p \in Producers : pc[p] = "idle" /\ sent[p] = Quota[p]
        BY <2>2 DEF PopStep, ReleaseStep, PopLoadHead, PopLoadIndex, PopLoadPush, PopEmpty,
           PopLoadNext, PopAdvance, PopRetire, PopClaim, PopEnter, PopWait, PopMove, PopDestroy,
           PopLeave, TryRelease, TryUnretire, ReleaseLoad, ReleaseStore, ReleaseCas, Goto
      <3> QED
        BY <3>1, QueueAssumption DEF Pushing
    <2> QED
      BY <2>1, <2>2
  <1>2. OthersStay(c) /\ UNCHANGED <<tail_chunk, push_index, storage, sent>>
    <2> USE <1>0 DEF OthersStay, TypeOK, LocalTypes, chainVars, slotVars, histVars, Goto
    <2>1. CASE PopLoadHead(c) \/ PopLoadIndex(c) \/ PopLoadPush(c) \/ PopEmpty(c)
      BY <2>1 DEF PopLoadHead, PopLoadIndex, PopLoadPush, PopEmpty
    <2>2. CASE PopLoadNext(c) \/ PopAdvance(c) \/ PopRetire(c) \/ PopClaim(c)
      BY <2>2 DEF PopLoadNext, PopAdvance, PopRetire, PopClaim
    <2>3. CASE PopEnter(c) \/ PopWait(c) \/ PopMove(c) \/ PopDestroy(c) \/ PopLeave(c)
      BY <2>3 DEF PopEnter, PopWait, PopMove, PopDestroy, PopLeave
    <2>4. CASE TryRelease(c) \/ TryUnretire(c)
      BY <2>4 DEF TryRelease, TryUnretire
    <2>5. CASE ReleaseStep(c)
      BY <2>5 DEF ReleaseStep, ReleaseLoad, ReleaseStore, ReleaseCas
    <2> QED
      BY <2>1, <2>2, <2>3, <2>4, <2>5 DEF PopStep
  <1>3. pop_index' = pop_index \/ PopClaim(c)
    BY DEF PopStep, ReleaseStep, PopLoadHead, PopLoadIndex, PopLoadPush, PopEmpty, PopLoadNext,
       PopAdvance, PopRetire, PopEnter, PopWait, PopMove, PopDestroy, PopLeave, TryRelease,
       TryUnretire, ReleaseLoad, ReleaseStore, ReleaseCas, slotVars
  <1>4. occupied' = occupied \/ PopDestroy(c)
    BY DEF PopStep, ReleaseStep, PopLoadHead, PopLoadIndex, PopLoadPush, PopEmpty, PopLoadNext,
       PopAdvance, PopRetire, PopClaim, PopEnter, PopWait, PopMove, PopLeave, TryRelease,
       TryUnretire, ReleaseLoad, ReleaseStore, ReleaseCas, slotVars
  <1>5. \A k \in Chunks : pop_index'[k] >= pop_index[k]
    <2>1. pop_index \in [Chunks -> Nat]
      BY DEF TypeOK, SharedTypes
    <2>2. CASE pop_index' = pop_index
      BY <2>1, <2>2
    <2>3. CASE PopClaim(c)
      BY <1>0, <2>1, <2>3 DEF PopClaim, slotVars
    <2> QED
      BY <1>3, <2>2, <2>3
  <1>6. \A k \in Chunks, i \in Slots : occupied[k][i] => occupied'[k][i] \/ i < pop_index[k]
    <2>1. CASE occupied' = occupied
      BY <2>1
    <2>2. CASE PopDestroy(c)
      <3>1. /\ index[c] < pop_index[cur[c]]
            /\ occupied' = [occupied EXCEPT ![cur[c]][index[c]] = FALSE]
            /\ occupied \in [Chunks -> [Slots -> BOOLEAN]]
        BY <2>2 DEF PopDestroy, Goto, SlotFacts, ReadersHoldSlots, Reads, TypeOK, SharedTypes
      <3> QED
        BY <3>1
    <2> QED
      BY <1>4, <2>1, <2>2
  <1> QED
    BY <1>1, <1>2, <1>5, <1>6 DEF Popping

(* What every step of the second phase leaves as it is. *)
LEMMA PoppingKeeps ==
  ASSUME NEW r \in Ranks, LossFacts(r), TypeOK, TypeOK', NEW c \in Consumers, Popping(c)
  PROVE  /\ (Pushing => Untouched(r))' /\ InLine(r)' /\ Kept(r)'
         /\ \A d \in Consumers : d # c => Look(d)'
  <1>0. /\ \A p \in Producers : p \in Threads /\ p # c
        /\ Grows(r, r) /\ Consumers \subseteq Threads
    BY QueueAssumption DEF Threads, Grows
  <1>1. ~Pushing'
    BY <1>0 DEF Popping, Pushing, OthersStay
  <1>2. InLine(r)'
    BY <1>0 DEF Popping, LossFacts, InLine, OthersStay, Releases
  <1>3. Kept(r)'
    BY <1>0, KeptStays DEF Popping, LossFacts
  <1>4. ASSUME NEW d \in Consumers, d # c PROVE Look(d)'
    <2>1. pc'[d] = pc[d] /\ cur'[d] = cur[d] /\ index'[d] = index[d] /\ push_index' = push_index
      BY <1>0, <1>4 DEF Popping, OthersStay
    <2>2. /\ cur[d] \in Chunks /\ index[d] \in Nat /\ pop_index'[cur[d]] >= pop_index[cur[d]]
          /\ pop_index[cur[d]] \in Nat /\ pop_index'[cur[d]] \in Nat
      BY <1>0 DEF Popping, TypeOK, LocalTypes, SharedTypes
    <2>3. Look(d)
      BY DEF LossFacts
    <2>4. pc[d] \in {"limit", "take", "next", "advance"} => index[d] <= pop_index'[cur[d]]
      BY <2>2, <2>3 DEF Look
    <2> QED
      BY <2>1, <2>3, <2>4 DEF Look, NothingLeft
  <1> QED
    BY <1>1, <1>2, <1>3, <1>4

(* Steps that claim nothing, move nothing and leave head_chunk alone. *)
LEMMA PopStepsKeepLoss ==
  ASSUME NEW r \in Ranks, LossFacts(r), TypeOK, TypeOK', NEW c \in Consumers, Popping(c),
         \/ PopLoadHead(c) \/ PopLoadIndex(c) \/ PopLoadPush(c) \/ PopEmpty(c)
         \/ PopLoadNext(c) \/ PopRetire(c) \/ PopEnter(c) \/ PopWait(c) \/ PopDestroy(c)
         \/ PopLeave(c) \/ TryRelease(c) \/ TryUnretire(c) \/ ReleaseStep(c)
  PROVE  LossFacts(r)'
  <1>0. /\ c \in Threads /\ c \notin Producers /\ cur[c] \in Chunks /\ Consumers \subseteq Threads
        /\ pop_index \in [Chunks -> Nat]
    BY QueueAssumption DEF Threads, TypeOK, LocalTypes, SharedTypes
  <1>1. UNCHANGED <<head_chunk, pop_index, got, push_index, storage>>
    BY DEF PopLoadHead, PopLoadIndex, PopLoadPush, PopEmpty, PopLoadNext, PopRetire, PopEnter,
       PopWait, PopDestroy, PopLeave, TryRelease, TryUnretire, ReleaseStep, ReleaseLoad,
       ReleaseStore, ReleaseCas, chainVars, slotVars, histVars
  <1>2. HoldsClaim(c) => HoldsClaim(c)' /\ cur'[c] = cur[c] /\ index'[c] = index[c]
    <2> USE <1>0 DEF HoldsClaim, TypeOK, LocalTypes, Goto
    <2>1. CASE PopEnter(c) \/ PopWait(c)
      BY <2>1 DEF PopEnter, PopWait
    <2>2. CASE ~(PopEnter(c) \/ PopWait(c))
      BY <2>2 DEF PopLoadHead, PopLoadIndex, PopLoadPush, PopEmpty, PopLoadNext, PopRetire,
         PopDestroy, PopLeave, TryRelease, TryUnretire, ReleaseStep, ReleaseLoad, ReleaseStore,
         ReleaseCas
    <2> QED
      BY <2>1, <2>2
  <1>3. Look(c)'
    <2> USE <1>0, <1>1 DEF TypeOK, LocalTypes, Goto, Look
    <2>1. CASE PopLoadIndex(c)
      BY <2>1 DEF PopLoadIndex
    <2>2. CASE PopLoadPush(c)
      BY <2>2 DEF PopLoadPush, NothingLeft, LossFacts
    <2>3. CASE PopLoadNext(c)
      BY <2>3 DEF PopLoadNext, NothingLeft, LossFacts
    <2>4. CASE ~(PopLoadIndex(c) \/ PopLoadPush(c) \/ PopLoadNext(c))
      <3>1. pc'[c] \notin {"limit", "take", "next", "advance"}
        BY <2>4 DEF PopLoadHead, PopEmpty, PopRetire, PopEnter, PopWait, PopDestroy, PopLeave,
           TryRelease, TryUnretire, ReleaseStep, ReleaseLoad, ReleaseStore, ReleaseCas, AfterTry,
           AfterRelease
      <3> QED
        BY <3>1
    <2> QED
      BY <2>1, <2>2, <2>3, <2>4
  <1>4. Emptied(r)'
    BY <1>1 DEF Emptied, LossFacts
  <1>5. Taken'
    <2>1. \A d \in Consumers :
            HoldsClaim(d) => HoldsClaim(d)' /\ cur'[d] = cur[d] /\ index'[d] = index[d]
      BY <1>0, <1>2 DEF Popping, OthersStay, HoldsClaim
    <2> QED
      BY <1>1, <2>1 DEF Taken, At, LossFacts
  <1> QED
    BY <1>3, <1>4, <1>5, PoppingKeeps DEF LossFacts

(* head_chunk leaves a chunk only when all its slots have been claimed: it  *)
(* has a successor, so it is full, and c has seen pop_index at its end.     *)
LEMMA PopAdvanceKeepsLoss ==
  ASSUME NEW r \in Ranks, OrderFacts(r), LossFacts(r), TypeOK, TypeOK',
         NEW c \in Consumers, Popping(c), PopAdvance(c)
  PROVE  LossFacts(r)'
  <1>0. /\ c \in Threads /\ c \notin Producers /\ pc[c] = "advance" /\ Consumers \subseteq Threads
        /\ cur[c] \in Chunks /\ nxt[c] \in Chunks /\ head_chunk \in Chunks /\ index[c] \in Nat
        /\ r \in [Chunks -> Nat] /\ CHUNK_SIZE \in Nat
        /\ push_index \in [Chunks -> Nat] /\ pop_index \in [Chunks -> Nat]
    BY QueueAssumption DEF PopAdvance, Goto, Threads, TypeOK, SharedTypes, LocalTypes,
       PointersValid, Ranks
  <1>1. /\ pc'[c] \in {"retire", "load"}
        /\ head_chunk' = IF head_chunk = cur[c] THEN nxt[c] ELSE head_chunk
        /\ UNCHANGED <<slotVars, cur, index, got>>
    BY <1>0 DEF PopAdvance, Goto, TypeOK, LocalTypes, histVars
  <1>2. Look(c)'
    BY <1>1 DEF Look
  <1>3. Taken'
    <2>1. \A d \in Consumers :
            HoldsClaim(d) => HoldsClaim(d)' /\ cur'[d] = cur[d] /\ index'[d] = index[d]
      BY <1>0, <1>1 DEF Popping, OthersStay, HoldsClaim
    <2> QED
      BY <1>1, <2>1 DEF Taken, At, LossFacts, slotVars
  <1>4. Emptied(r)'
    <2>1. CASE head_chunk # cur[c]
      BY <1>1, <2>1 DEF LossFacts, Emptied, slotVars
    <2>2. CASE head_chunk = cur[c]
      <3>1. nxt[c] = next[head_chunk] /\ next[head_chunk] # NULL
        BY <1>0, <2>2, QueueAssumption DEF OrderFacts, PassedInv
      <3>2. r[nxt[c]] = r[head_chunk] + 1 /\ r[head_chunk] > 0
        BY <1>0, <3>1 DEF OrderFacts, LineInv
      <3>3. push_index[head_chunk] >= CHUNK_SIZE
        BY <1>0, <3>2 DEF OrderFacts, LineInv
      <3>4. index[c] >= CHUNK_SIZE /\ index[c] <= pop_index[head_chunk]
        BY <1>0, <2>2, <3>3 DEF LossFacts, Look, NothingLeft
      <3>5. pop_index[head_chunk] >= CHUNK_SIZE
        BY <1>0, <3>4
      <3>6. ASSUME NEW k \in Chunks, 0 < r[k], r[k] < r[head_chunk']
            PROVE  pop_index[k] >= CHUNK_SIZE
        <4>1. r[k] < r[head_chunk] \/ r[k] = r[head_chunk]
          BY <1>0, <1>1, <2>2, <3>2, <3>6
        <4>2. CASE r[k] < r[head_chunk]
          BY <3>6, <4>2 DEF LossFacts, Emptied
        <4>3. CASE r[k] = r[head_chunk]
          <5>1. k = head_chunk
            BY <1>0, <3>6, <4>3 DEF OrderFacts, LineInv
          <5> QED
            BY <3>5, <5>1
        <4> QED
          BY <4>1, <4>2, <4>3
      <3> QED
        BY <1>1, <3>6 DEF Emptied, slotVars
    <2> QED
      BY <2>1, <2>2
  <1> QED
    BY <1>2, <1>3, <1>4, PoppingKeeps DEF LossFacts

LEMMA PopClaimKeepsLoss ==
  ASSUME NEW r \in Ranks, LossFacts(r), TypeOK, TypeOK',
         NEW c \in Consumers, Popping(c), PopClaim(c)
  PROVE  LossFacts(r)'
  <1>0. CHUNK_SIZE \in Nat /\ pop_index \in [Chunks -> Nat] /\ pop_index' \in [Chunks -> Nat]
    BY QueueAssumption DEF TypeOK, SharedTypes
  <1>1. pc'[c] \in {"enter", "load"} /\ UNCHANGED head_chunk
    BY DEF PopClaim, Goto, TypeOK, LocalTypes, Threads, chainVars
  <1>2. Look(c)'
    BY <1>1 DEF Look
  <1>3. Emptied(r)'
    <2> SUFFICES ASSUME NEW k \in Chunks, 0 < r[k], r[k] < r[head_chunk]
                 PROVE  pop_index'[k] >= CHUNK_SIZE
      BY <1>1 DEF Emptied
    <2>1. pop_index[k] >= CHUNK_SIZE
      BY DEF LossFacts, Emptied
    <2> QED
      BY <1>0, <2>1 DEF Popping
  <1>4. Taken'
    BY PopClaimKeepsTaken DEF LossFacts
  <1> QED
    BY <1>2, <1>3, <1>4, PoppingKeeps DEF LossFacts

LEMMA PopMoveKeepsLoss ==
  ASSUME NEW r \in Ranks, LossFacts(r), TypeOK, TypeOK',
         NEW c \in Consumers, Popping(c), PopMove(c)
  PROVE  LossFacts(r)'
  <1>1. /\ pc'[c] = "destroy" /\ UNCHANGED <<head_chunk, pop_index>>
    BY DEF PopMove, Goto, TypeOK, LocalTypes, Threads, chainVars, slotVars
  <1>2. Look(c)'
    BY <1>1 DEF Look
  <1>3. Emptied(r)'
    BY <1>1 DEF LossFacts, Emptied
  <1>4. Taken'
    BY PopMoveKeepsTaken DEF LossFacts
  <1> QED
    BY <1>2, <1>3, <1>4, PoppingKeeps DEF LossFacts

-----------------------------------------------------------------------------
LEMMA LossInit == Init => LossInv
  <1> SUFFICES ASSUME Init PROVE LossInv
    OBVIOUS
  <1>0. SlotInv /\ TypeOK
    BY SlotInit DEF SlotInv
  <1>1. PICK r \in Ranks : OrderFacts(r)
    BY OrderInit DEF OrderInv, Init
  <1>2. /\ head_chunk \in Chunks /\ r[head_chunk] > 0 /\ tail_chunk = head_chunk
        /\ \A t \in Threads : pc[t] = "idle" /\ cur[t] = head_chunk
        /\ \A k \in Chunks : pop_index[k] = 0
        /\ \A p \in Producers : sent[p] = 0
    BY <1>0, <1>1 DEF Init, TypeOK, SharedTypes, OrderFacts, LineInv
  <1>3. \A k \in Chunks : r[k] > 0 => k = head_chunk
    <2>1. allocated = {head_chunk}
      BY DEF Init
    <2> QED
      BY <1>1, <2>1 DEF OrderFacts, AllocInv
  <1>4. r \in [Chunks -> Nat]
    BY DEF Ranks
  <1>5. Untouched(r)
    BY <1>2, <1>3, <1>4 DEF Untouched, Threads
  <1>6. InLine(r)
    BY <1>2 DEF InLine, Threads, Releases
  <1>7. Kept(r)
    BY <1>2 DEF Kept
  <1>8. Taken /\ Emptied(r) /\ \A c \in Consumers : Look(c)
    BY <1>2, <1>3, <1>4 DEF Taken, Emptied, Look, Slots, Threads
  <1> QED
    BY <1>0, <1>1, <1>5, <1>6, <1>7, <1>8 DEF LossInv, LossFacts

LEMMA LossStep == LossInv /\ [Next]_vars => LossInv'
  <1> SUFFICES ASSUME LossInv, [Next]_vars PROVE LossInv'
    OBVIOUS
  <1>0. SlotInv /\ SlotInv' /\ TypeOK /\ TypeOK'
    BY SlotStep DEF LossInv, SlotInv
  <1> SUFFICES ASSUME PhasedUse, ~reused' PROVE \E r \in Ranks : OrderFacts(r)' /\ LossFacts(r)'
    BY <1>0 DEF LossInv
  <1>1. ~reused
    BY <1>0, ReuseIsForEver
  <1>2. PICK r \in Ranks : OrderFacts(r) /\ LossFacts(r)
    BY <1>1 DEF LossInv
  <1>3. SlotFacts
    BY <1>0, <1>1 DEF SlotInv
  <1>4. ASSUME NEW p \in Producers, PushStep(p)
        PROVE  \E rr \in Ranks : OrderFacts(rr)' /\ LossFacts(rr)'
    <2>1. CASE AllocReset(p)
      BY <2>1 DEF AllocReset
    <2>2. CASE PushLink(p)
      BY <1>0, <1>2, <1>3, <2>2, PushLinkKeepsLoss
    <2>3. CASE ~AllocReset(p) /\ ~PushLink(p)
      <3>1. OrderFacts(r)'
        BY <1>0, <1>2, <1>3, <1>4, <2>3, PushKeepsOrder
      <3>2. CASE PushPublish(p)
        BY <1>0, <1>2, <1>3, <3>1, <3>2, PushPublishKeepsLoss
      <3>3. CASE ~PushPublish(p)
        BY <1>0, <1>2, <1>3, <1>4, <2>3, <3>1, <3>3, PushStepsKeepLoss DEF PushStep
      <3> QED
        BY <3>2, <3>3
    <2> QED
      BY <2>1, <2>2, <2>3
  <1>5. ASSUME NEW c \in Consumers, PopStep(c)
        PROVE  OrderFacts(r)' /\ LossFacts(r)'
    <2>0. OrderFacts(r)' /\ Popping(c)
      BY <1>0, <1>2, <1>3, <1>5, PopKeepsOrder, PopsArePopping
    <2>1. CASE PopAdvance(c)
      BY <1>0, <1>2, <2>0, <2>1, PopAdvanceKeepsLoss
    <2>2. CASE PopClaim(c)
      BY <1>0, <1>2, <2>0, <2>2, PopClaimKeepsLoss
    <2>3. CASE PopMove(c)
      BY <1>0, <1>2, <2>0, <2>3, PopMoveKeepsLoss
    <2>4. CASE ~PopAdvance(c) /\ ~PopClaim(c) /\ ~PopMove(c)
      BY <1>0, <1>2, <1>5, <2>0, <2>4, PopStepsKeepLoss DEF PopStep
    <2> QED
      BY <2>1, <2>2, <2>3, <2>4
  <1>6. ASSUME NEW t \in Threads, ReleaseStep(t)
        PROVE  OrderFacts(r)' /\ LossFacts(r)'
    <2>1. OrderFacts(r)'
      BY <1>0, <1>2, <1>6, ReleaseQuiet, QuietKeepsOrder
    <2>2. CASE t \in Producers
      BY <1>0, <1>2, <1>3, <1>6, <2>1, <2>2, PushStepsKeepLoss
    <2>3. CASE t \in Consumers
      <3>1. Popping(t)
        BY <1>0, <1>2, <1>3, <1>6, <2>3, PopsArePopping
      <3> QED
        BY <1>0, <1>2, <1>6, <2>1, <2>3, <3>1, PopStepsKeepLoss
    <2> QED
      BY <2>2, <2>3 DEF Threads
  <1>7. CASE UNCHANGED vars
    <2>1. UNCHANGED <<chainVars, slotVars, threadVars, sent, got>>
      BY <1>7 DEF vars, histVars
    <2>2. OrderFacts(r)'
      BY <1>2, <2>1, StutterKeepsOrder DEF slotVars
    <2>3. LossFacts(r)'
      BY <1>2, <2>1 DEF LossFacts, Pushing, Untouched, InLine, Kept, Holds, Taken, Emptied, Look,
         NothingLeft, HoldsClaim, At, chainVars, slotVars, threadVars
    <2> QED
      BY <2>2, <2>3
  <1> QED
    BY <1>4, <1>5, <1>6, <1>7 DEF Next

(* For any number of producers, consumers, chunks, slots and values: when   *)
(* no pop begins before the last push has returned and no chunk of the free *)
(* list has been used again, every value that was pushed is delivered,      *)
(* claimed, or will be found by walking from head_chunk.                    *)
THEOREM NoLossInPhases == Spec => [](PhasedUse /\ ~reused => NoLoss)
  <1>1. LossInv => (PhasedUse /\ ~reused => NoLoss)
    BY LossFactsGiveNoLoss DEF LossInv, SlotInv
  <1> QED
    BY <1>1, LossInit, LossStep, PTL DEF Spec

-----------------------------------------------------------------------------
(***************************************************************************)
(* EmptyIsHonest in a queue that has not needed a second chunk, pushes and *)
(* pops overlapping as they like.                                          *)
(***************************************************************************)

(* operator new has been called once, by the constructor. *)
OneChunk == \A k, l \in allocated : k = l

(* The points of the code that are reached only with a second chunk. *)
NeedsTwo ==
  Releases \cup {"alloc_next", "alloc_cas", "reset", "link", "swing", "follow", "advance", "retire"}

Alone ==
  /\ free_list = NULL /\ ~reused
  /\ head_chunk \in allocated /\ tail_chunk \in allocated
  /\ \A k \in Chunks : next[k] = NULL /\ ~retired[k]
  /\ \A t \in Threads : pc[t] \notin NeedsTwo /\ (pc[t] # "idle" => cur[t] \in allocated)

(* A value whose push has returned stays in its slot. *)
InSlot ==
  \A p \in Producers, n \in 1 .. MaxItems : n <= sent[p] =>
    \E k \in allocated, i \in Slots : storage[k][i] = <<p, n>>

(* What consumer c owes was pushed before its pop began, and lies below the *)
(* index with which it finds nothing left.                                  *)
Debt(c) ==
  /\ owed[c] \subseteq Completed
  /\ pc[c] \in {"limit", "next"} => index[c] <= pop_index[cur[c]]
  /\ pc[c] = "next" =>
       \A i \in Slots : storage[cur[c]][i] \in owed[c] => i < index[c]

HonestInv == SlotInv /\ (OneChunk => Alone /\ Taken /\ InSlot /\ \A c \in Consumers : Debt(c))

LEMMA NewIsNoticed ==
  ASSUME TypeOK, NEW p \in Producers, AllocNew(p)
  PROVE  /\ Fresh(allocated) \in allocated' /\ Fresh(allocated) \notin allocated
         /\ allocated \subseteq allocated'
  <1>1. allocated \in SUBSET Chunks /\ allocated # Chunks
    BY DEF TypeOK, SharedTypes, AllocNew
  <1> QED
    BY <1>1, FreshIsNew DEF AllocNew

LEMMA AllocationStep ==
  ASSUME [Next]_vars
  PROVE  allocated' = allocated \/ \E p \in Producers : AllocNew(p)
  <1> USE DEF chainVars
  <1>1. ASSUME NEW p \in Producers, PushStep(p) PROVE allocated' = allocated \/ AllocNew(p)
    BY <1>1 DEF PushStep, PushLoadTail, PushClaim, PushCheck, PushConstruct, PushPublish, AllocLoad,
       AllocNext, AllocCas, AllocReset, PushLink, PushSwing, PushFollow
  <1>2. ASSUME NEW c \in Consumers, PopStep(c) PROVE allocated' = allocated
    BY <1>2 DEF PopStep, PopLoadHead, PopLoadIndex, PopLoadPush, PopEmpty, PopLoadNext, PopAdvance,
       PopRetire, PopClaim, PopEnter, PopWait, PopMove, PopDestroy, PopLeave, TryRelease,
       TryUnretire
  <1>3. ASSUME NEW t \in Threads, ReleaseStep(t) PROVE allocated' = allocated
    BY <1>3 DEF ReleaseStep, ReleaseLoad, ReleaseStore, ReleaseCas
  <1>4. CASE UNCHANGED vars
    BY <1>4 DEF vars
  <1> QED
    BY <1>1, <1>2, <1>3, <1>4 DEF Next

LEMMA AloneStep ==
  ASSUME TypeOK, Alone, [Next]_vars, allocated' = allocated
  PROVE  Alone'
  <1> USE DEF Alone, NeedsTwo, Releases, Goto, TypeOK, LocalTypes, SharedTypes, Threads, chainVars,
        slotVars, histVars
  <1>1. ASSUME NEW p \in Producers, PushStep(p) PROVE Alone'
    <2>1. CASE PushLoadTail(p) \/ PushClaim(p) \/ PushCheck(p)
      BY <2>1 DEF PushLoadTail, PushClaim, PushCheck
    <2>2. CASE PushConstruct(p) \/ PushPublish(p) \/ AllocLoad(p)
      BY <2>2 DEF PushConstruct, PushPublish, AllocLoad, AfterAlloc
    <2>3. CASE \/ AllocNext(p) \/ AllocCas(p) \/ AllocReset(p) \/ PushLink(p)
               \/ PushSwing(p) \/ PushFollow(p)
      BY <2>3 DEF AllocNext, AllocCas, AllocReset, PushLink, PushSwing, PushFollow
    <2>4. CASE AllocNew(p)
      BY <2>4, NewIsNoticed
    <2> QED
      BY <1>1, <2>1, <2>2, <2>3, <2>4 DEF PushStep
  <1>2. ASSUME NEW c \in Consumers, PopStep(c) PROVE Alone'
    <2>0. CASE PopLoadHead(c)
      <3>1. pc' = [pc EXCEPT ![c] = "index"] /\ cur' = [cur EXCEPT ![c] = head_chunk]
        BY <2>0 DEF PopLoadHead
      <3>2. UNCHANGED <<head_chunk, tail_chunk, free_list, next, retired, reused>>
        BY <2>0 DEF PopLoadHead
      <3> QED
        BY <3>1, <3>2
    <2>1. CASE PopLoadIndex(c) \/ PopLoadPush(c)
      BY <2>1 DEF PopLoadIndex, PopLoadPush
    <2>5. CASE PopEmpty(c)
      BY <2>5 DEF PopEmpty
    <2>2. CASE PopLoadNext(c) \/ PopAdvance(c) \/ PopRetire(c) \/ PopClaim(c)
      BY <2>2 DEF PopLoadNext, PopAdvance, PopRetire, PopClaim
    <2>3. CASE PopEnter(c) \/ PopWait(c) \/ PopMove(c) \/ PopDestroy(c) \/ PopLeave(c)
      <3>1. PICK x \in {"wait", "move", "destroy", "leave", "try", "idle"} :
              pc' = [pc EXCEPT ![c] = x]
        BY <2>3 DEF PopEnter, PopWait, PopMove, PopDestroy, PopLeave
      <3>2. UNCHANGED <<head_chunk, tail_chunk, free_list, next, retired, reused, cur>>
        BY <2>3 DEF PopEnter, PopWait, PopMove, PopDestroy, PopLeave
      <3>3. pc[c] # "idle"
        BY <2>3 DEF PopEnter, PopWait, PopMove, PopDestroy, PopLeave
      <3> QED
        BY <3>1, <3>2, <3>3
    <2>4. CASE TryRelease(c) \/ TryUnretire(c)
      <3>1. ~retired[cur[c]] /\ AfterTry(c) \in {"idle", "load"} /\ cur[c] \in Chunks
        BY DEF AfterTry
      <3>2. PICK x \in {"unretire", "idle", "load"} : pc' = [pc EXCEPT ![c] = x]
        BY <2>4, <3>1 DEF TryRelease, TryUnretire
      <3>3. UNCHANGED <<head_chunk, tail_chunk, free_list, next, retired, reused, cur>>
        BY <2>4, <3>1 DEF TryRelease, TryUnretire
      <3>4. pc[c] # "idle"
        BY <2>4, <3>1 DEF TryRelease, TryUnretire
      <3> QED
        BY <3>2, <3>3, <3>4
    <2> QED
      BY <1>2, <2>0, <2>1, <2>2, <2>3, <2>4, <2>5 DEF PopStep
  <1>3. ASSUME NEW t \in Threads, ReleaseStep(t) PROVE FALSE
    BY <1>3 DEF ReleaseStep, ReleaseLoad, ReleaseStore, ReleaseCas
  <1>4. CASE UNCHANGED vars
    BY <1>4 DEF vars, threadVars
  <1> QED
    BY <1>1, <1>2, <1>3, <1>4 DEF Next

(* Steps of push: the value that is constructed is nobody's debt yet. *)
LEMMA PushKeepsHonest ==
  ASSUME SlotFacts, TypeOK, TypeOK', Alone, Taken, InSlot, \A c \in Consumers : Debt(c),
         NEW p \in Producers, PushStep(p), allocated' = allocated
  PROVE  Taken' /\ InSlot' /\ \A c \in Consumers : Debt(c)'
  <1>0. /\ p \in Threads /\ p \notin Consumers /\ Consumers \subseteq Threads
        /\ cur[p] \in Chunks /\ sent \in [Producers -> 0 .. MaxItems] /\ MaxItems \in Nat
        /\ storage \in [Chunks -> [Slots -> Null(Items)]]
    BY QueueAssumption DEF Threads, TypeOK, LocalTypes, SharedTypes, HistoryTypes
  <1>1. /\ \/ PushLoadTail(p) \/ PushClaim(p) \/ PushCheck(p) \/ PushConstruct(p)
           \/ PushPublish(p) \/ AllocLoad(p)
        /\ UNCHANGED <<pop_index, got, owed>> /\ OthersStay(p)
    <2> USE <1>0 DEF OthersStay, TypeOK, LocalTypes, chainVars, slotVars, histVars, Goto, Alone,
          NeedsTwo
    <2>1. CASE PushLoadTail(p) \/ PushClaim(p) \/ PushCheck(p)
      BY <2>1 DEF PushLoadTail, PushClaim, PushCheck
    <2>2. CASE PushConstruct(p) \/ PushPublish(p) \/ AllocLoad(p)
      BY <2>2 DEF PushConstruct, PushPublish, AllocLoad
    <2>3. CASE \/ AllocNext(p) \/ AllocCas(p) \/ AllocReset(p) \/ PushLink(p)
               \/ PushSwing(p) \/ PushFollow(p)
      BY <2>3 DEF AllocNext, AllocCas, AllocReset, PushLink, PushSwing, PushFollow
    <2>4. CASE AllocNew(p)
      BY <2>4, NewIsNoticed
    <2> QED
      BY <2>1, <2>2, <2>3, <2>4 DEF PushStep
  <1>2. \A k \in Chunks, i \in Slots :
          /\ storage[k][i] # NULL => storage'[k][i] = storage[k][i]
          /\ storage'[k][i] # storage[k][i] => storage'[k][i] = Value(p)
    <2>1. CASE PushConstruct(p)
      <3>1. /\ storage[cur[p]][index[p]] = NULL
            /\ storage' = [storage EXCEPT ![cur[p]][index[p]] = Value(p)]
        BY <2>1 DEF PushConstruct, Goto, SlotFacts, WritersHoldSlots, Writes
      <3> QED
        BY <1>0, <3>1
    <2>2. CASE storage' = storage
      BY <2>2
    <2> QED
      BY <1>1, <2>1, <2>2 DEF PushLoadTail, PushClaim, PushCheck, PushPublish, AllocLoad, slotVars
  <1>3. Taken'
    BY <1>0, <1>1, <1>2, TakenStays DEF SlotFacts
  <1>4. /\ \A q \in Producers : q # p => sent'[q] = sent[q]
        /\ sent'[p] = sent[p] \/ (sent'[p] = sent[p] + 1 /\ PushPublish(p))
    BY <1>0, <1>1 DEF PushLoadTail, PushClaim, PushCheck, PushConstruct, PushPublish, AllocLoad,
       histVars
  <1>5. InSlot'
    <2> SUFFICES ASSUME NEW q \in Producers, NEW n \in 1 .. MaxItems, n <= sent'[q]
                 PROVE  \E k \in allocated, i \in Slots : storage'[k][i] = <<q, n>>
      BY DEF InSlot
    <2>1. CASE n <= sent[q]
      <3>1. PICK k \in allocated, i \in Slots : storage[k][i] = <<q, n>>
        BY <2>1 DEF InSlot
      <3>2. k \in Chunks
        BY DEF TypeOK, SharedTypes
      <3>3. <<q, n>> # NULL
        BY NullIsNoValue
      <3>4. storage'[k][i] = <<q, n>>
        BY <1>2, <3>1, <3>2, <3>3
      <3> QED
        BY <3>4
    <2>2. CASE ~(n <= sent[q])
      <3>1. q = p /\ n = sent[p] + 1 /\ PushPublish(p)
        BY <1>0, <1>4, <2>2
      <3>2. /\ storage[cur[p]][index[p]] = <<q, n>> /\ index[p] \in Slots /\ storage' = storage
        BY <1>0, <3>1 DEF PushPublish, Goto, SlotFacts, WritersHoldSlots, Writes, Value, TypeOK,
           PointersValid, UsesSlot
      <3>3. cur[p] \in allocated
        BY <1>0, <3>1 DEF Alone, PushPublish, Goto
      <3> QED
        BY <3>2, <3>3
    <2> QED
      BY <2>1, <2>2
  <1>6. Completed \subseteq Completed'
    <2> SUFFICES ASSUME NEW x \in Items, x[2] <= sent[x[1]] PROVE x[2] <= sent'[x[1]]
      BY DEF Completed
    <2>1. x[1] \in Producers /\ x[2] \in Nat /\ sent[x[1]] \in Nat /\ sent[p] \in Nat
      BY <1>0 DEF Items
    <2> QED
      BY <1>4, <2>1
  <1>7. Value(p) \notin Completed
    <2>1. sent[p] \in Nat
      BY <1>0
    <2> QED
      BY <2>1 DEF Value, Completed
  <1>8. ASSUME NEW c \in Consumers PROVE Debt(c)'
    <2>1. /\ pc'[c] = pc[c] /\ cur'[c] = cur[c] /\ index'[c] = index[c] /\ cur[c] \in Chunks
          /\ owed' = owed /\ pop_index' = pop_index
      BY <1>0, <1>1 DEF OthersStay, TypeOK, LocalTypes
    <2>2. Debt(c)
      OBVIOUS
    <2>3. owed[c] \subseteq Completed /\ Value(p) \notin owed[c]
      BY <1>7, <2>2 DEF Debt
    <2>4. \A i \in Slots : storage'[cur[c]][i] \in owed[c] => storage[cur[c]][i] \in owed[c]
      BY <1>2, <2>1, <2>3
    <2> QED
      BY <1>6, <2>1, <2>2, <2>3, <2>4 DEF Debt
  <1> QED
    BY <1>3, <1>5, <1>8

(* Steps of pop: with nothing left below push_index, every value that was   *)
(* there has been claimed.                                                  *)
LEMMA PopKeepsHonest ==
  ASSUME SlotFacts, TypeOK, TypeOK', Alone, Taken, InSlot, \A c \in Consumers : Debt(c),
         NEW c \in Consumers, PopStep(c), allocated' = allocated
  PROVE  Taken' /\ InSlot' /\ \A d \in Consumers : Debt(d)'
  <1>0. /\ c \in Threads /\ c \notin Producers /\ Consumers \subseteq Threads
        /\ cur[c] \in Chunks /\ index[c] \in Nat /\ Slots \subseteq Nat /\ CHUNK_SIZE \in Nat
        /\ pop_index \in [Chunks -> Nat] /\ push_index \in [Chunks -> Nat]
        /\ owed \in [Consumers -> SUBSET Items]
    <2>1. c \in Threads /\ c \notin Producers /\ Consumers \subseteq Threads /\ CHUNK_SIZE \in Nat
      BY QueueAssumption DEF Threads
    <2>2. Slots \subseteq Nat
      BY <2>1 DEF Slots
    <2> QED
      BY <2>1, <2>2 DEF TypeOK, LocalTypes, SharedTypes, HistoryTypes
  <1>1. OthersStay(c) /\ UNCHANGED <<push_index, storage, sent>>
    <2> USE <1>0 DEF OthersStay, TypeOK, LocalTypes, chainVars, slotVars, histVars, Goto
    <2>1. CASE PopLoadHead(c) \/ PopLoadIndex(c) \/ PopLoadPush(c) \/ PopEmpty(c)
      BY <2>1 DEF PopLoadHead, PopLoadIndex, PopLoadPush, PopEmpty
    <2>2. CASE PopLoadNext(c) \/ PopAdvance(c) \/ PopRetire(c) \/ PopClaim(c)
      BY <2>2 DEF PopLoadNext, PopAdvance, PopRetire, PopClaim
    <2>3. CASE PopEnter(c) \/ PopWait(c) \/ PopMove(c) \/ PopDestroy(c) \/ PopLeave(c)
      BY <2>3 DEF PopEnter, PopWait, PopMove, PopDestroy, PopLeave
    <2>4. CASE TryRelease(c) \/ TryUnretire(c)
      BY <2>4 DEF TryRelease, TryUnretire
    <2> QED
      BY <2>1, <2>2, <2>3, <2>4 DEF PopStep
  <1>2. /\ pop_index' = pop_index \/ PopClaim(c)
        /\ \A k \in Chunks : pop_index'[k] >= pop_index[k]
    <2>1. pop_index' = pop_index \/ PopClaim(c)
      BY DEF PopStep, PopLoadHead, PopLoadIndex, PopLoadPush, PopEmpty, PopLoadNext, PopAdvance,
         PopRetire, PopEnter, PopWait, PopMove, PopDestroy, PopLeave, TryRelease, TryUnretire,
         slotVars
    <2>2. CASE PopClaim(c)
      BY <1>0, <2>2 DEF PopClaim, slotVars
    <2>3. CASE pop_index' = pop_index
      BY <1>0, <2>3
    <2> QED
      BY <2>1, <2>2, <2>3
  <1>3. Taken'
    <2>1. CASE PopClaim(c)
      BY <2>1, PopClaimKeepsTaken
    <2>2. CASE PopMove(c)
      BY <2>2, PopMoveKeepsTaken
    <2>3. CASE ~PopClaim(c) /\ ~PopMove(c)
      <3>1. UNCHANGED <<pop_index, got>>
        BY <2>3 DEF PopStep, PopLoadHead, PopLoadIndex, PopLoadPush, PopEmpty, PopLoadNext,
           PopAdvance, PopRetire, PopEnter, PopWait, PopDestroy, PopLeave, TryRelease, TryUnretire,
           slotVars, histVars
      <3>2. HoldsClaim(c) => HoldsClaim(c)' /\ cur'[c] = cur[c] /\ index'[c] = index[c]
        <4> USE <1>0 DEF HoldsClaim, TypeOK, LocalTypes, Goto
        <4>1. CASE PopEnter(c) \/ PopWait(c)
          BY <4>1 DEF PopEnter, PopWait
        <4>2. CASE ~(PopEnter(c) \/ PopWait(c))
          BY <2>3, <4>2 DEF PopStep, PopLoadHead, PopLoadIndex, PopLoadPush, PopEmpty,
             PopLoadNext, PopAdvance, PopRetire, PopDestroy, PopLeave, TryRelease, TryUnretire
        <4> QED
          BY <4>1, <4>2
      <3> QED
        BY <1>0, <1>1, <3>1, <3>2, TakenStays DEF SlotFacts
    <2> QED
      BY <2>1, <2>2, <2>3
  <1>4. InSlot'
    BY <1>1 DEF InSlot
  <1>5. Completed' = Completed
    BY <1>1 DEF Completed
  <1>6. ASSUME NEW d \in Consumers, d # c PROVE Debt(d)'
    <2>1. pc'[d] = pc[d] /\ cur'[d] = cur[d] /\ index'[d] = index[d] /\ owed'[d] = owed[d]
      <3>1. owed'[d] = owed[d]
        BY <1>0, <1>6 DEF PopStep, PopLoadHead, PopLoadIndex, PopLoadPush, PopEmpty, PopLoadNext,
           PopAdvance, PopRetire, PopClaim, PopEnter, PopWait, PopMove, PopDestroy, PopLeave,
           TryRelease, TryUnretire, histVars
      <3> QED
        BY <1>0, <1>1, <1>6, <3>1 DEF OthersStay
    <2>2. /\ cur[d] \in Chunks /\ index[d] \in Nat /\ pop_index'[cur[d]] >= pop_index[cur[d]]
          /\ pop_index[cur[d]] \in Nat /\ pop_index'[cur[d]] \in Nat
      BY <1>0, <1>2 DEF TypeOK, LocalTypes, SharedTypes
    <2>3. Debt(d)
      OBVIOUS
    <2>4. pc[d] \in {"limit", "next"} => index[d] <= pop_index'[cur[d]]
      BY <2>2, <2>3 DEF Debt
    <2> QED
      BY <1>1, <1>5, <2>1, <2>3, <2>4 DEF Debt
  <1>7. Debt(c)'
    <2>0. Debt(c)
      OBVIOUS
    <2>1. owed'[c] \subseteq Completed'
      <3>1. owed'[c] \subseteq owed[c] \cup Completed
        BY <1>0 DEF PopStep, PopLoadHead, PopLoadIndex, PopLoadPush, PopEmpty, PopLoadNext,
           PopAdvance, PopRetire, PopClaim, PopEnter, PopWait, PopMove, PopDestroy, PopLeave,
           TryRelease, TryUnretire, histVars
      <3> QED
        BY <1>5, <2>0, <3>1 DEF Debt
    <2>2. CASE PopLoadIndex(c)
      <3>1. pc'[c] = "limit" /\ index'[c] = pop_index[cur[c]] /\ UNCHANGED <<cur, pop_index>>
        BY <1>0, <2>2 DEF PopLoadIndex, Goto, TypeOK, LocalTypes, slotVars
      <3> QED
        BY <1>0, <2>1, <3>1 DEF Debt
    <2>3. CASE PopLoadPush(c)
      <3>1. /\ pc[c] = "limit"
            /\ pc'[c] = "next" => NothingLeft(c)
            /\ pc'[c] \in {"next", "take"} /\ UNCHANGED <<cur, index, pop_index, owed>>
        BY <1>0, <2>3 DEF PopLoadPush, Goto, TypeOK, LocalTypes, slotVars, histVars
      <3>2. ASSUME NEW i \in Slots, storage[cur[c]][i] \in owed[c], NothingLeft(c)
            PROVE  i < index[c]
        <4>1. storage[cur[c]][i] # NULL
          BY <1>0, <3>2, QueueAssumption DEF Items
        <4>2. i < push_index[cur[c]] /\ i < CHUNK_SIZE
          BY <1>0, <4>1 DEF SlotFacts, UnclaimedEmpty, Slots
        <4> QED
          BY <1>0, <3>2, <4>2 DEF NothingLeft
      <3>3. storage' = storage
        BY <1>1
      <3>4. index'[c] <= pop_index'[cur'[c]]
        BY <2>0, <3>1 DEF Debt
      <3>5. ASSUME pc'[c] = "next", NEW i \in Slots, storage'[cur'[c]][i] \in owed'[c]
            PROVE  i < index'[c]
        <4>1. storage[cur[c]][i] \in owed[c] /\ NothingLeft(c) /\ index'[c] = index[c]
          BY <3>1, <3>3, <3>5
        <4> QED
          BY <3>2, <4>1
      <3> QED
        BY <2>1, <3>4, <3>5 DEF Debt
    <2>4. CASE ~PopLoadIndex(c) /\ ~PopLoadPush(c)
      <3>1. pc'[c] \notin {"limit", "next"}
        <4> USE <1>0 DEF Goto, TypeOK, LocalTypes
        <4>1. CASE PopLoadHead(c) \/ PopEmpty(c) \/ PopLoadNext(c) \/ PopAdvance(c) \/ PopRetire(c)
          BY <4>1 DEF PopLoadHead, PopEmpty, PopLoadNext, PopAdvance, PopRetire
        <4>2. CASE PopClaim(c) \/ PopEnter(c) \/ PopWait(c) \/ PopMove(c)
          BY <4>2 DEF PopClaim, PopEnter, PopWait, PopMove
        <4>3. CASE PopDestroy(c) \/ PopLeave(c) \/ TryRelease(c) \/ TryUnretire(c)
          BY <4>3 DEF PopDestroy, PopLeave, TryRelease, TryUnretire, AfterTry
        <4> QED
          BY <2>4, <4>1, <4>2, <4>3 DEF PopStep
      <3> QED
        BY <2>1, <3>1 DEF Debt
    <2> QED
      BY <2>2, <2>3, <2>4
  <1> QED
    BY <1>3, <1>4, <1>6, <1>7

LEMMA HonestInit == Init => HonestInv
  <1> SUFFICES ASSUME Init PROVE HonestInv
    OBVIOUS
  <1>0. SlotInv /\ TypeOK
    BY SlotInit DEF SlotInv
  <1>2. Alone
    BY DEF Init, Alone, NeedsTwo, Releases
  <1>3. Taken
    BY DEF Init, Taken, Slots
  <1>4. InSlot
    BY DEF Init, InSlot
  <1>5. \A c \in Consumers : Debt(c)
    BY DEF Init, Debt, Threads
  <1> QED
    BY <1>0, <1>2, <1>3, <1>4, <1>5 DEF HonestInv

LEMMA HonestStep == HonestInv /\ [Next]_vars => HonestInv'
  <1> SUFFICES ASSUME HonestInv, [Next]_vars PROVE HonestInv'
    OBVIOUS
  <1>0. SlotInv /\ SlotInv' /\ TypeOK /\ TypeOK'
    BY SlotStep DEF HonestInv, SlotInv
  <1> SUFFICES ASSUME OneChunk'
               PROVE  Alone' /\ Taken' /\ InSlot' /\ \A c \in Consumers : Debt(c)'
    BY <1>0 DEF HonestInv
  <1>a. allocated' = allocated \/ \E p \in Producers : AllocNew(p)
    BY AllocationStep
  <1>b. allocated \subseteq allocated'
    BY <1>0, <1>a, NewIsNoticed
  <1>1. Alone /\ Taken /\ InSlot /\ (\A c \in Consumers : Debt(c)) /\ SlotFacts
    BY <1>0, <1>b DEF HonestInv, SlotInv, Alone, OneChunk
  <1>c. allocated' = allocated
    <2>1. ASSUME NEW p \in Producers, AllocNew(p) PROVE FALSE
      BY <1>0, <1>1, <2>1, NewIsNoticed DEF Alone, OneChunk
    <2> QED
      BY <1>a, <2>1
  <1>2. Alone'
    BY <1>0, <1>1, <1>c, AloneStep
  <1>3. Taken' /\ InSlot' /\ \A c \in Consumers : Debt(c)'
    <2>1. ASSUME NEW p \in Producers, PushStep(p)
          PROVE  Taken' /\ InSlot' /\ \A c \in Consumers : Debt(c)'
      BY <1>0, <1>1, <1>c, <2>1, PushKeepsHonest
    <2>2. ASSUME NEW c \in Consumers, PopStep(c)
          PROVE  Taken' /\ InSlot' /\ \A d \in Consumers : Debt(d)'
      BY <1>0, <1>1, <1>c, <2>2, PopKeepsHonest
    <2>3. ASSUME NEW t \in Threads, ReleaseStep(t) PROVE FALSE
      BY <1>1, <2>3 DEF Alone, NeedsTwo, Releases, ReleaseStep, ReleaseLoad, ReleaseStore,
         ReleaseCas, Goto
    <2>4. CASE UNCHANGED vars
      <3>1. UNCHANGED <<pop_index, got, storage, sent, pc, cur, index, owed>>
        BY <2>4 DEF vars, slotVars, threadVars, histVars
      <3>2. Taken'
        BY <1>1, <3>1 DEF Taken, HoldsClaim, At
      <3>3. InSlot'
        BY <1>1, <1>c, <3>1 DEF InSlot
      <3>4. Completed' = Completed
        BY <3>1 DEF Completed
      <3>5. ASSUME NEW c \in Consumers PROVE Debt(c)'
        BY <1>1, <3>1, <3>4 DEF Debt
      <3> QED
        BY <3>2, <3>3, <3>5
    <2> QED
      BY <2>1, <2>2, <2>3, <2>4 DEF Next
  <1> QED
    BY <1>2, <1>3

(* For any number of producers, consumers and values and any chunk size:    *)
(* in a queue that has not yet needed a second chunk, pop returns false     *)
(* only when every value that was in the queue when it was called has been  *)
(* claimed or delivered, whatever is pushed in the meantime.                *)
THEOREM EmptyHonestInOneChunk == Spec /\ []OneChunk => EmptyIsHonest
  <1>1. ASSUME HonestInv, OneChunk, NEW c \in Consumers, PopEmpty(c)
        PROVE  owed[c] \subseteq Delivered \cup Claimed
    <2> SUFFICES ASSUME NEW x \in owed[c] PROVE x \in Delivered \cup Claimed
      OBVIOUS
    <2>0. TypeOK /\ Alone /\ Taken /\ InSlot /\ Debt(c) /\ pc[c] = "next"
      BY <1>1 DEF HonestInv, SlotInv, PopEmpty, Goto
    <2>1. PICK p \in Producers, n \in 1 .. MaxItems : x = <<p, n>> /\ n <= sent[p]
      BY <2>0 DEF Debt, Completed, Items
    <2>2. PICK k \in allocated, i \in Slots : storage[k][i] = x
      BY <2>0, <2>1 DEF InSlot
    <2>a. k = cur[c]
      BY <1>1, <2>0 DEF OneChunk, Alone, Threads
    <2>3. k \in Chunks /\ index[c] \in Nat /\ pop_index[k] \in Nat /\ i \in Int
      BY <2>0 DEF TypeOK, LocalTypes, SharedTypes, Threads, Slots
    <2>4. i < index[c] /\ index[c] <= pop_index[k]
      BY <2>0, <2>2, <2>a, <2>3 DEF Debt
    <2>5. i < pop_index[k]
      BY <2>3, <2>4
    <2>6. CASE \E d \in Consumers : \E m \in DOMAIN got[d] : got[d][m] = storage[k][i]
      <3>1. x \in Delivered
        BY <2>2, <2>6 DEF Delivered, Range
      <3> QED
        BY <3>1
    <2>7. CASE \E d \in Consumers : HoldsClaim(d) /\ At(d, k, i)
      <3>1. x \in Claimed
        BY <2>2, <2>7 DEF Claimed, At
      <3> QED
        BY <3>1
    <2> QED
      BY <2>0, <2>3, <2>5, <2>6, <2>7 DEF Taken
  <1>2. HonestInv /\ OneChunk =>
          [\A c \in Consumers : PopEmpty(c) => owed[c] \subseteq Delivered \cup Claimed]_vars
    BY <1>1
  <1> QED
    BY <1>2, HonestInit, HonestStep, PTL DEF Spec, EmptyIsHonest
=============================================================================
