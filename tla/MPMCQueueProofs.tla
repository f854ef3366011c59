-------------------------- MODULE MPMCQueueProofs --------------------------
(***************************************************************************)
(* MPMCQueue for any number of threads, chunks and values, and any         *)
(* CHUNK_SIZE.                                                             *)
(***************************************************************************)
EXTENDS MPMCQueue, TLAPS

(* operator new returns an address that is not in use. *)
LEMMA FreshIsNew ==
  ASSUME NEW used \in SUBSET Chunks, used # Chunks
  PROVE  Fresh(used) \in Chunks /\ Fresh(used) \notin used
  <1>1. \E c \in Chunks : c \notin used
    OBVIOUS
  <1> QED
    BY <1>1 DEF Fresh

LEMMA SuccInRange ==
  ASSUME NEW n \in Nat, NEW k \in 0 .. n, k < n
  PROVE  k + 1 \in 0 .. n
  OBVIOUS

LEMMA ValueIsItem ==
  ASSUME HistoryTypes, QueueAssumption, NEW p \in Producers, pc[p] # "idle"
  PROVE  Value(p) \in Items
  BY DEF HistoryTypes, Value, Items, QueueAssumption

LEMMA TypeInit == Init => TypeOK
  <1> SUFFICES ASSUME Init PROVE TypeOK
    OBVIOUS
  <1>1. head_chunk \in Chunks
    BY FreshIsNew, QueueAssumption DEF Init
  <1>2. SharedTypes
    BY <1>1 DEF Init, SharedTypes, Null
  <1>3. LocalTypes
    BY <1>1 DEF Init, LocalTypes, Null, Threads, Shared
  <1>4. HistoryTypes
    <2>1. sent \in [Producers -> 0 .. MaxItems]
      BY QueueAssumption DEF Init
    <2>2. got \in [Consumers -> Seq(Null(Items))] /\ owed \in [Consumers -> SUBSET Items]
      BY DEF Init
    <2> QED
      BY <2>1, <2>2 DEF Init, HistoryTypes, Threads
  <1>5. PointersValid
    BY DEF Init, PointersValid, Threads, UsesSlot, UsesSpare, Releases
  <1> QED
    BY <1>2, <1>3, <1>4, <1>5 DEF TypeOK

LEMMA TypeStep == TypeOK /\ [Next]_vars => TypeOK'
  <1> SUFFICES ASSUME TypeOK, [Next]_vars PROVE TypeOK'
    OBVIOUS
  <1> USE QueueAssumption DEF TypeOK, SharedTypes, LocalTypes, HistoryTypes, PointersValid,
        ProducerOnly, ConsumerOnly, Shared, UsesSlot, UsesSpare, Releases, Threads, Null,
        Goto, chainVars, slotVars, histVars
  <1>1. ASSUME NEW p \in Producers, PushLoadTail(p) PROVE TypeOK'
    <2>1. Quota[p] \in 0 .. MaxItems /\ sent[p] \in 0 .. MaxItems
      OBVIOUS
    <2>2. sent[p] < MaxItems
      BY <1>1, <2>1 DEF PushLoadTail
    <2>3. SharedTypes' /\ LocalTypes'
      BY <1>1, ZenonT(30) DEF PushLoadTail
    <2>4. HistoryTypes'
      BY <1>1, <2>2 DEF PushLoadTail
    <2>5. PointersValid'
      BY <1>1, Zenon DEF PushLoadTail
    <2> QED
      BY <2>3, <2>4, <2>5 DEF TypeOK
  <1>2. ASSUME NEW p \in Producers, PushClaim(p) PROVE TypeOK'
    <2>0. push_index \in [Chunks -> Nat] /\ cur[p] \in Chunks /\ push_index[cur[p]] \in Nat
      OBVIOUS
    <2>1. SharedTypes'
      <3>1. push_index' = [push_index EXCEPT ![cur[p]] = push_index[cur[p]] + 1]
        BY <1>2 DEF PushClaim
      <3>2. push_index' \in [Chunks -> Nat]
        BY ONLY <2>0, <3>1
      <3> QED
        BY <1>2, <3>2 DEF PushClaim
    <2>2. LocalTypes'
      BY <1>2 DEF PushClaim, HasRoom, Slots
    <2>3. HistoryTypes'
      BY <1>2 DEF PushClaim, HasRoom, Slots
    <2>4. PointersValid'
      <3>1. index'[p] = push_index[cur[p]]
        BY <1>2 DEF PushClaim
      <3>2. pc'[p] = "check" => index'[p] \in Slots
        BY <1>2, <2>0, <3>1, SMTT(30) DEF PushClaim, HasRoom, Slots
      <3> QED
        BY <1>2, <3>2 DEF PushClaim
    <2> QED
      BY <2>1, <2>2, <2>3, <2>4 DEF TypeOK
  <1>3. ASSUME NEW p \in Producers, PushCheck(p) PROVE TypeOK'
    BY <1>3 DEF PushCheck
  <1>4. ASSUME NEW p \in Producers, PushConstruct(p) PROVE TypeOK'
    <2>1. SharedTypes'
      <3>1. Value(p) \in Items
        BY <1>4, ValueIsItem DEF PushConstruct
      <3>2. storage' \in [Chunks -> [Slots -> Null(Items)]]
        BY <1>4, <3>1 DEF PushConstruct
      <3> QED
        BY <1>4, <3>2 DEF PushConstruct
    <2>2. LocalTypes'
      BY <1>4 DEF PushConstruct
    <2>3. HistoryTypes'
      BY <1>4 DEF PushConstruct
    <2>4. PointersValid'
      BY <1>4 DEF PushConstruct
    <2> QED
      BY <2>1, <2>2, <2>3, <2>4 DEF TypeOK
  <1>5. ASSUME NEW p \in Producers, PushPublish(p) PROVE TypeOK'
    <2>1. SharedTypes'
      BY <1>5 DEF PushPublish
    <2>2. LocalTypes'
      BY <1>5 DEF PushPublish
    <2>3. HistoryTypes'
      <3>1. sent[p] + 1 \in 0 .. MaxItems
        <4>1. sent[p] \in 0 .. MaxItems /\ sent[p] < MaxItems
          BY <1>5 DEF PushPublish
        <4>2. MaxItems \in Nat
          OBVIOUS
        <4> QED
          BY ONLY <4>1, <4>2, SuccInRange
      <3>2. sent' \in [Producers -> 0 .. MaxItems]
        BY <1>5, <3>1 DEF PushPublish
      <3>3. \A q \in Producers : pc'[q] # "idle" => sent'[q] < MaxItems
        BY <1>5 DEF PushPublish
      <3> QED
        BY <1>5, <3>2, <3>3 DEF PushPublish
    <2>4. PointersValid'
      BY <1>5 DEF PushPublish
    <2> QED
      BY <2>1, <2>2, <2>3, <2>4 DEF TypeOK
  <1>6. ASSUME NEW p \in Producers, AllocLoad(p) PROVE TypeOK'
    BY <1>6 DEF AllocLoad, AfterAlloc
  <1>7. ASSUME NEW p \in Producers, AllocNext(p) PROVE TypeOK'
    BY <1>7 DEF AllocNext
  <1>8. ASSUME NEW p \in Producers, AllocCas(p) PROVE TypeOK'
    <2>1. SharedTypes'
      BY <1>8, ZenonT(30) DEF AllocCas, AfterAlloc
    <2>2. LocalTypes'
      <3>1. CASE pc' = [pc EXCEPT ![p] = "reset"] /\ UNCHANGED spare
        BY <1>8, <3>1 DEF AllocCas
      <3>2. CASE pc' = [pc EXCEPT ![p] = AfterAlloc(free_list)] /\ spare' = [spare EXCEPT ![p] = free_list]
        BY <1>8, <3>2 DEF AllocCas, AfterAlloc
      <3> QED
        BY <1>8, <3>1, <3>2 DEF AllocCas
    <2>3. HistoryTypes'
      BY <1>8 DEF AllocCas, AfterAlloc
    <2>4. PointersValid'
      <3>1. CASE pc' = [pc EXCEPT ![p] = "reset"] /\ UNCHANGED spare
        BY <1>8, <3>1 DEF AllocCas
      <3>2. CASE pc' = [pc EXCEPT ![p] = AfterAlloc(free_list)] /\ spare' = [spare EXCEPT ![p] = free_list]
        BY <1>8, <3>2 DEF AllocCas, AfterAlloc
      <3> QED
        BY <1>8, <3>1, <3>2 DEF AllocCas
    <2> QED
      BY <2>1, <2>2, <2>3, <2>4 DEF TypeOK
  <1>9. ASSUME NEW p \in Producers, AllocReset(p) PROVE TypeOK'
    <2>1. SharedTypes'
      BY <1>9, SMTT(30) DEF AllocReset
    <2>2. LocalTypes'
      BY <1>9 DEF AllocReset
    <2>3. HistoryTypes'
      BY <1>9 DEF AllocReset
    <2>4. PointersValid'
      BY <1>9 DEF AllocReset
    <2> QED
      BY <2>1, <2>2, <2>3, <2>4 DEF TypeOK
  <1>10. ASSUME NEW p \in Producers, AllocNew(p) PROVE TypeOK'
    <2>0. Fresh(allocated) \in Chunks
      BY <1>10, FreshIsNew DEF AllocNew
    <2>1. SharedTypes'
      BY <1>10, <2>0 DEF AllocNew
    <2>2. LocalTypes'
      BY <1>10, <2>0 DEF AllocNew
    <2>3. HistoryTypes'
      BY <1>10 DEF AllocNew
    <2>4. PointersValid'
      BY <1>10, <2>0 DEF AllocNew
    <2> QED
      BY <2>1, <2>2, <2>3, <2>4 DEF TypeOK
  <1>11. ASSUME NEW p \in Producers, PushLink(p) PROVE TypeOK'
    <2>1. CASE next[cur[p]] = NULL
      <3>1. /\ pc[p] = "link" /\ pc' = [pc EXCEPT ![p] = "swing"]
            /\ next' = [next EXCEPT ![cur[p]] = spare[p]]
            /\ UNCHANGED <<head_chunk, tail_chunk, free_list, retired, allocated,
                           slotVars, cur, index, nxt, spare, old, popped, histVars>>
        BY <1>11, <2>1 DEF PushLink
      <3>2. SharedTypes'
        BY <3>1
      <3>3. LocalTypes'
        BY <3>1
      <3>4. HistoryTypes' /\ PointersValid'
        BY <3>1
      <3> QED
        BY <3>2, <3>3, <3>4
    <2>2. CASE next[cur[p]] # NULL
      <3>1. /\ pc[p] = "link" /\ pc' = [pc EXCEPT ![p] = "rel_load"]
            /\ nxt' = [nxt EXCEPT ![p] = next[cur[p]]]
            /\ next[cur[p]] \in Chunks
            /\ UNCHANGED <<chainVars, slotVars, cur, index, spare, old, popped, histVars>>
        BY <1>11, <2>2 DEF PushLink
      <3>2. SharedTypes' /\ HistoryTypes'
        BY <3>1
      <3>3. LocalTypes'
        BY <3>1
      <3>4. PointersValid'
        BY <3>1
      <3> QED
        BY <3>2, <3>3, <3>4
    <2> QED
      BY <2>1, <2>2
  <1>12. ASSUME NEW p \in Producers, PushSwing(p) PROVE TypeOK'
    BY <1>12 DEF PushSwing
  <1>13. ASSUME NEW p \in Producers, PushFollow(p) PROVE TypeOK'
    BY <1>13 DEF PushFollow
  <1>14. ASSUME NEW t \in Threads, ReleaseLoad(t) PROVE TypeOK'
    BY <1>14 DEF ReleaseLoad
  <1>15. ASSUME NEW t \in Threads, ReleaseStore(t) PROVE TypeOK'
    BY <1>15 DEF ReleaseStore
  <1>16. ASSUME NEW t \in Threads, ReleaseCas(t) PROVE TypeOK'
    <2>1. CASE /\ pc[t] = "rel_cas" /\ pc' = [pc EXCEPT ![t] = AfterRelease(t)]
               /\ free_list' = spare[t]
               /\ spare' = [spare EXCEPT ![t] = NULL]
               /\ old' = [old EXCEPT ![t] = NULL]
               /\ popped' = [c \in Consumers |-> popped[c] /\ c # t]
               /\ UNCHANGED <<head_chunk, tail_chunk, next, retired, allocated, slotVars,
                              cur, index, nxt, histVars>>
      <3>1. AfterRelease(t) \in IF t \in Producers THEN {"follow"} ELSE {"idle", "load"}
        BY DEF AfterRelease, AfterTry
      <3>2. popped' \in [Consumers -> BOOLEAN]
        BY <2>1
      <3>3. SharedTypes'
        BY <2>1
      <3>4. LocalTypes'
        BY <2>1, <3>1, <3>2
      <3>5. HistoryTypes'
        BY <2>1, <3>1
      <3>6. PointersValid'
        BY <2>1, <3>1
      <3> QED
        BY <3>3, <3>4, <3>5, <3>6
    <2>2. CASE /\ pc[t] = "rel_cas" /\ pc' = [pc EXCEPT ![t] = "rel_store"]
               /\ old' = [old EXCEPT ![t] = free_list]
               /\ UNCHANGED <<chainVars, slotVars, cur, index, nxt, spare, popped, histVars>>
      BY <2>2
    <2> QED
      BY <1>16, <2>1, <2>2 DEF ReleaseCas
  <1>17. ASSUME NEW c \in Consumers, PopLoadHead(c) PROVE TypeOK'
    <2>1. SharedTypes'
      BY <1>17, SMTT(30) DEF PopLoadHead, Completed
    <2>2. LocalTypes'
      BY <1>17, ZenonT(30) DEF PopLoadHead, Completed
    <2>3. HistoryTypes'
      <3>1. (Completed \ Delivered) \ Claimed \in SUBSET Items
        BY Zenon DEF Completed
      <3>2. CASE owed' = [owed EXCEPT ![c] = (Completed \ Delivered) \ Claimed]
        BY <1>17, <3>1, <3>2, ZenonT(30) DEF PopLoadHead
      <3>3. CASE UNCHANGED owed
        BY <1>17, <3>3, SMTT(30) DEF PopLoadHead
      <3> QED
        BY <1>17, <3>2, <3>3 DEF PopLoadHead
    <2>4. PointersValid'
      BY <1>17, SMTT(30) DEF PopLoadHead, Completed
    <2> QED
      BY <2>1, <2>2, <2>3, <2>4 DEF TypeOK
  <1>18. ASSUME NEW c \in Consumers, PopLoadIndex(c) PROVE TypeOK'
    BY <1>18 DEF PopLoadIndex
  <1>19. ASSUME NEW c \in Consumers, PopLoadPush(c) PROVE TypeOK'
    <2>1. SharedTypes'
      BY <1>19 DEF PopLoadPush, NothingLeft, Slots
    <2>2. LocalTypes'
      BY <1>19 DEF PopLoadPush, NothingLeft, Slots
    <2>3. HistoryTypes'
      BY <1>19 DEF PopLoadPush, NothingLeft, Slots
    <2>4. PointersValid'
      BY <1>19, SMTT(30) DEF PopLoadPush, NothingLeft, Slots
    <2> QED
      BY <2>1, <2>2, <2>3, <2>4 DEF TypeOK
  <1>20. ASSUME NEW c \in Consumers, PopEmpty(c) PROVE TypeOK'
    BY <1>20 DEF PopEmpty
  <1>21. ASSUME NEW c \in Consumers, PopLoadNext(c) PROVE TypeOK'
    BY <1>21 DEF PopLoadNext
  <1>22. ASSUME NEW c \in Consumers, PopAdvance(c) PROVE TypeOK'
    BY <1>22 DEF PopAdvance
  <1>23. ASSUME NEW c \in Consumers, PopRetire(c) PROVE TypeOK'
    BY <1>23 DEF PopRetire
  <1>24. ASSUME NEW c \in Consumers, PopClaim(c) PROVE TypeOK'
    <2>1. pop_index' \in [Chunks -> Nat]
      <3>0. index[c] \in Nat /\ pop_index \in [Chunks -> Nat]
        OBVIOUS
      <3>1. index[c] + 1 \in Nat
        BY ONLY <3>0
      <3>2. pop_index' = [pop_index EXCEPT ![cur[c]] = index[c] + 1] \/ UNCHANGED pop_index
        BY <1>24 DEF PopClaim
      <3> QED
        BY ONLY <3>0, <3>1, <3>2
    <2>2. /\ pc[c] = "take"
          /\ pc' = [pc EXCEPT ![c] = "enter"] \/ pc' = [pc EXCEPT ![c] = "load"]
          /\ UNCHANGED <<chainVars, push_index, active_readers, storage, occupied, cur, index,
                         nxt, spare, old, popped, histVars>>
      BY <1>24 DEF PopClaim
    <2>3. SharedTypes'
      BY <2>1, <2>2
    <2>4. LocalTypes'
      BY <2>2, Zenon
    <2>5. HistoryTypes'
      BY <2>2, Zenon
    <2>6. PointersValid'
      <3>1. CASE pc' = [pc EXCEPT ![c] = "enter"]
        BY <2>2, <3>1, ZenonT(30)
      <3>2. CASE pc' = [pc EXCEPT ![c] = "load"]
        BY <2>2, <3>2, ZenonT(30)
      <3> QED
        BY <2>2, <3>1, <3>2
    <2> QED
      BY <2>3, <2>4, <2>5, <2>6 DEF TypeOK
  <1>25. ASSUME NEW c \in Consumers, PopEnter(c) PROVE TypeOK'
    <2>1. SharedTypes'
      BY <1>25, SMTT(30) DEF PopEnter
    <2>2. LocalTypes'
      BY <1>25 DEF PopEnter
    <2>3. HistoryTypes'
      BY <1>25 DEF PopEnter
    <2>4. PointersValid'
      BY <1>25 DEF PopEnter
    <2> QED
      BY <2>1, <2>2, <2>3, <2>4 DEF TypeOK
  <1>26. ASSUME NEW c \in Consumers, PopWait(c) PROVE TypeOK'
    BY <1>26 DEF PopWait
  <1>27. ASSUME NEW c \in Consumers, PopMove(c) PROVE TypeOK'
    <2>1. SharedTypes'
      BY <1>27 DEF PopMove
    <2>2. LocalTypes'
      BY <1>27 DEF PopMove
    <2>3. HistoryTypes'
      <3>1. storage[cur[c]][index[c]] \in Null(Items)
        BY <1>27 DEF PopMove
      <3>2. got[c] \in Seq(Null(Items))
        OBVIOUS
      <3>3. Append(got[c], storage[cur[c]][index[c]]) \in Seq(Null(Items))
        BY <3>1, <3>2
      <3>4. got' \in [Consumers -> Seq(Null(Items))]
        BY <1>27, <3>3 DEF PopMove
      <3> QED
        BY <1>27, <3>4 DEF PopMove
    <2>4. PointersValid'
      BY <1>27 DEF PopMove
    <2> QED
      BY <2>1, <2>2, <2>3, <2>4 DEF TypeOK
  <1>28. ASSUME NEW c \in Consumers, PopDestroy(c) PROVE TypeOK'
    BY <1>28 DEF PopDestroy
  <1>29. ASSUME NEW c \in Consumers, PopLeave(c) PROVE TypeOK'
    <2>1. SharedTypes'
      BY <1>29, SMTT(30) DEF PopLeave
    <2>2. LocalTypes'
      BY <1>29 DEF PopLeave
    <2>3. HistoryTypes'
      BY <1>29 DEF PopLeave
    <2>4. PointersValid'
      BY <1>29 DEF PopLeave
    <2> QED
      BY <2>1, <2>2, <2>3, <2>4 DEF TypeOK
  <1>30. ASSUME NEW c \in Consumers, TryRelease(c) PROVE TypeOK'
    BY <1>30 DEF TryRelease, AfterTry
  <1>31. ASSUME NEW c \in Consumers, TryUnretire(c) PROVE TypeOK'
    <2>1. CASE retired[cur[c]]
      <3>1. /\ pc[c] = "unretire" /\ pc' = [pc EXCEPT ![c] = "rel_load"]
            /\ retired' = [retired EXCEPT ![cur[c]] = FALSE]
            /\ spare' = [spare EXCEPT ![c] = cur[c]]
            /\ UNCHANGED <<head_chunk, tail_chunk, free_list, next, allocated, slotVars,
                           cur, index, nxt, old, popped, histVars>>
        BY <1>31, <2>1 DEF TryUnretire
      <3> QED
        BY <3>1
    <2>2. CASE ~retired[cur[c]]
      <3>1. /\ pc[c] = "unretire" /\ pc' = [pc EXCEPT ![c] = AfterTry(c)]
            /\ popped' = [popped EXCEPT ![c] = FALSE]
            /\ UNCHANGED <<chainVars, slotVars, cur, index, nxt, spare, old, histVars>>
        BY <1>31, <2>2 DEF TryUnretire
      <3>2. AfterTry(c) \in {"idle", "load"}
        BY DEF AfterTry
      <3> QED
        BY <3>1, <3>2
    <2> QED
      BY <2>1, <2>2
  <1>32. CASE UNCHANGED vars
    BY <1>32 DEF vars, threadVars
  <1> QED
    BY <1>1, <1>2, <1>3, <1>4, <1>5, <1>6, <1>7, <1>8, <1>9, <1>10, <1>11, <1>12, <1>13, <1>14, <1>15, <1>16, <1>17, <1>18, <1>19, <1>20, <1>21, <1>22, <1>23, <1>24, <1>25, <1>26, <1>27, <1>28, <1>29, <1>30, <1>31, <1>32
       DEF Next, PushStep, PopStep, ReleaseStep

(* In every reachable state of the queue, for any number of threads, no     *)
(* thread is about to follow a null chunk pointer or to index outside the   *)
(* nodes of a chunk.                                                        *)
THEOREM TypeCorrect == Spec => []TypeOK
  BY TypeInit, TypeStep, PTL DEF Spec

-----------------------------------------------------------------------------
(***************************************************************************)
(* DuplicatesNeedReuse: while allocate_chunk has returned only new chunks, *)
(* no value is handed out twice.  The argument is about slots, not about   *)
(* the chain: push_index and pop_index only grow, so that every slot is    *)
(* claimed by at most one push and at most one pop.                        *)
(***************************************************************************)

(* The points of push and pop at which a thread owns a slot. *)
Holding == {"check", "construct", "publish", "enter", "wait", "move", "destroy"}

(* A step of thread t that neither touches a slot nor leaves t owning one. *)
Bystander(t) ==
  /\ UNCHANGED <<push_index, pop_index, storage, occupied, sent, got>>
  /\ pc[t] # "publish" /\ pc'[t] \notin Holding
  /\ \A u \in Threads : u # t =>
       pc'[u] = pc[u] /\ cur'[u] = cur[u] /\ index'[u] = index[u]

LEMMA BystanderKeepsSlots ==
  ASSUME TypeOK, SlotFacts, NEW t \in Threads, Bystander(t)
  PROVE  SlotFacts'
  <1> USE DEF SlotFacts, Bystander, Holding
  <1>0. Producers \subseteq Threads /\ Consumers \subseteq Threads
    BY DEF Threads
  <1>1. WritersHoldSlots'
    BY <1>0 DEF WritersHoldSlots, Writes, Value
  <1>2. WritersApart'
    BY <1>0 DEF WritersApart, Writes
  <1>3. UnclaimedEmpty' /\ OccupiedHolds' /\ ValuesApart'
    BY DEF UnclaimedEmpty, OccupiedHolds, ValuesApart
  <1>4. StoredWasSent'
    BY <1>0 DEF StoredWasSent, At
  <1>5. ReadersHoldSlots'
    BY <1>0 DEF ReadersHoldSlots, Reads, HoldsClaim
  <1>6. ReadersApart'
    BY <1>0 DEF ReadersApart, Reads, HoldsClaim
  <1>7. GotWasSent' /\ NoDuplicateDelivery'
    BY DEF GotWasSent, NoDuplicateDelivery
  <1>8. GotIsConsumed'
    BY <1>0 DEF GotIsConsumed, HoldsClaim, At
  <1> QED
    BY <1>1, <1>2, <1>3, <1>4, <1>5, <1>6, <1>7, <1>8

(* Most steps are bystanders. *)
LEMMA PushBystanders ==
  ASSUME TypeOK, NEW p \in Producers,
         \/ PushLoadTail(p) \/ AllocLoad(p) \/ AllocNext(p) \/ AllocCas(p) \/ AllocNew(p)
         \/ PushLink(p) \/ PushSwing(p) \/ PushFollow(p)
  PROVE  Bystander(p)
  <1> USE DEF TypeOK, LocalTypes, Threads, Bystander, Holding, Goto, slotVars, histVars
  <1>1. CASE PushLoadTail(p)
    BY <1>1 DEF PushLoadTail
  <1>2. CASE AllocLoad(p)
    BY <1>2 DEF AllocLoad, AfterAlloc
  <1>3. CASE AllocNext(p)
    BY <1>3 DEF AllocNext
  <1>4. CASE AllocCas(p)
    BY <1>4 DEF AllocCas, AfterAlloc
  <1>5. CASE AllocNew(p)
    BY <1>5 DEF AllocNew
  <1>6. CASE PushLink(p)
    BY <1>6 DEF PushLink
  <1>7. CASE PushSwing(p)
    BY <1>7 DEF PushSwing
  <1>8. CASE PushFollow(p)
    BY <1>8 DEF PushFollow
  <1> QED
    BY <1>1, <1>2, <1>3, <1>4, <1>5, <1>6, <1>7, <1>8

LEMMA ReleaseBystanders ==
  ASSUME TypeOK, NEW t \in Threads, ReleaseStep(t)
  PROVE  Bystander(t)
  <1> USE DEF TypeOK, LocalTypes, Bystander, Holding, Goto, slotVars, histVars
  <1>1. CASE ReleaseLoad(t)
    BY <1>1 DEF ReleaseLoad
  <1>2. CASE ReleaseStore(t)
    BY <1>2 DEF ReleaseStore
  <1>3. CASE ReleaseCas(t)
    BY <1>3 DEF ReleaseCas, AfterRelease, AfterTry
  <1> QED
    BY <1>1, <1>2, <1>3 DEF ReleaseStep

LEMMA PopBystanders ==
  ASSUME TypeOK, NEW c \in Consumers,
         \/ PopLoadHead(c) \/ PopLoadIndex(c) \/ PopLoadPush(c) \/ PopEmpty(c)
         \/ PopLoadNext(c) \/ PopAdvance(c) \/ PopRetire(c) \/ PopLeave(c)
         \/ TryRelease(c) \/ TryUnretire(c)
  PROVE  Bystander(c)
  <1> USE DEF TypeOK, LocalTypes, Threads, Bystander, Holding, Goto, slotVars, histVars
  <1>1. CASE PopLoadHead(c)
    BY <1>1 DEF PopLoadHead
  <1>2. CASE PopLoadIndex(c)
    BY <1>2 DEF PopLoadIndex
  <1>3. CASE PopLoadPush(c)
    BY <1>3 DEF PopLoadPush
  <1>4. CASE PopEmpty(c)
    BY <1>4 DEF PopEmpty
  <1>5. CASE PopLoadNext(c)
    BY <1>5 DEF PopLoadNext
  <1>6. CASE PopAdvance(c)
    BY <1>6 DEF PopAdvance
  <1>7. CASE PopRetire(c)
    BY <1>7 DEF PopRetire
  <1>8. CASE PopLeave(c)
    BY <1>8 DEF PopLeave
  <1>9. CASE TryRelease(c)
    BY <1>9 DEF TryRelease, AfterTry
  <1>10. CASE TryUnretire(c)
    BY <1>10 DEF TryUnretire, AfterTry
  <1> QED
    BY <1>1, <1>2, <1>3, <1>4, <1>5, <1>6, <1>7, <1>8, <1>9, <1>10

-----------------------------------------------------------------------------
(* The steps of push that own a slot. *)

(* fetch_add gives the slot at push_index, which nobody else has, to p. *)
LEMMA PushClaimKeepsSlots ==
  ASSUME TypeOK, SlotFacts, NEW p \in Producers, PushClaim(p)
  PROVE  SlotFacts'
  <1> USE QueueAssumption DEF SlotFacts
  <1>0. /\ Producers \subseteq Threads /\ Consumers \subseteq Threads /\ p \notin Consumers
        /\ \A t \in Threads : cur[t] \in Chunks /\ index[t] \in Nat
        /\ \A k \in Chunks : push_index[k] \in Nat
        /\ Slots \subseteq Nat
    BY DEF Threads, TypeOK, LocalTypes, SharedTypes, Slots
  <1>1. /\ UNCHANGED <<pop_index, storage, occupied, sent, got, cur>>
        /\ pc[p] = "claim" /\ pc'[p] \in {"check", "alloc"}
        /\ \A t \in Threads : t # p => pc'[t] = pc[t] /\ index'[t] = index[t]
        /\ index'[p] = push_index[cur[p]]
        /\ pc'[p] = "check" => index'[p] \in Slots
        /\ push_index'[cur[p]] = push_index[cur[p]] + 1
        /\ \A k \in Chunks : k # cur[p] => push_index'[k] = push_index[k]
    BY <1>0, SMTT(30) DEF PushClaim, TypeOK, SharedTypes, LocalTypes, histVars, HasRoom, Slots
  <1>2. WritersHoldSlots'
    <2> SUFFICES ASSUME NEW q \in Producers, Writes(q)'
                 PROVE  /\ index'[q] < push_index'[cur[q]]
                        /\ ~occupied[cur[q]][index'[q]]
                        /\ storage[cur[q]][index'[q]] =
                             IF pc'[q] = "publish" THEN Value(q) ELSE NULL
      BY <1>1 DEF WritersHoldSlots, Value
    <2>1. CASE q = p
      BY <1>0, <1>1, <2>1 DEF UnclaimedEmpty, Writes
    <2>2. CASE q # p
      BY <1>0, <1>1, <2>2 DEF WritersHoldSlots, Writes
    <2> QED
      BY <2>1, <2>2
  <1>3. WritersApart'
    BY <1>0, <1>1 DEF WritersApart, WritersHoldSlots, Writes
  <1>4. UnclaimedEmpty'
    BY <1>0, <1>1 DEF UnclaimedEmpty
  <1>5. OccupiedHolds' /\ ValuesApart'
    BY <1>1 DEF OccupiedHolds, ValuesApart
  <1>6. StoredWasSent'
    BY <1>0, <1>1 DEF StoredWasSent, At
  <1>7. ReadersHoldSlots' /\ ReadersApart'
    BY <1>0, <1>1 DEF ReadersHoldSlots, ReadersApart, Reads, HoldsClaim
  <1>8. GotWasSent' /\ NoDuplicateDelivery'
    BY <1>1 DEF GotWasSent, NoDuplicateDelivery
  <1>9. GotIsConsumed'
    BY <1>0, <1>1 DEF GotIsConsumed, HoldsClaim, At
  <1> QED
    BY <1>2, <1>3, <1>4, <1>5, <1>6, <1>7, <1>8, <1>9

(* The claimed slot is free, so that push goes on to construct its value. *)
LEMMA PushCheckKeepsSlots ==
  ASSUME TypeOK, SlotFacts, NEW p \in Producers, PushCheck(p)
  PROVE  SlotFacts'
  <1> USE QueueAssumption DEF SlotFacts
  <1>0. Producers \subseteq Threads /\ Consumers \subseteq Threads /\ p \notin Consumers
    BY DEF Threads
  <1>1. /\ UNCHANGED <<push_index, pop_index, storage, occupied, sent, got, cur, index>>
        /\ pc[p] = "check" /\ pc'[p] \in {"construct", "load"}
        /\ \A t \in Threads : t # p => pc'[t] = pc[t]
    BY <1>0 DEF PushCheck, TypeOK, LocalTypes, slotVars, histVars
  <1>2. WritersHoldSlots' /\ WritersApart'
    BY <1>0, <1>1 DEF WritersHoldSlots, WritersApart, Writes, Value
  <1>3. UnclaimedEmpty' /\ OccupiedHolds' /\ ValuesApart'
    BY <1>1 DEF UnclaimedEmpty, OccupiedHolds, ValuesApart
  <1>4. StoredWasSent'
    BY <1>0, <1>1 DEF StoredWasSent, At
  <1>5. ReadersHoldSlots' /\ ReadersApart'
    BY <1>0, <1>1 DEF ReadersHoldSlots, ReadersApart, Reads, HoldsClaim
  <1>6. GotWasSent' /\ NoDuplicateDelivery'
    BY <1>1 DEF GotWasSent, NoDuplicateDelivery
  <1>7. GotIsConsumed'
    BY <1>0, <1>1 DEF GotIsConsumed, HoldsClaim, At
  <1> QED
    BY <1>2, <1>3, <1>4, <1>5, <1>6, <1>7

(* The value constructed is new: neither in another slot nor handed out. *)
LEMMA PushConstructKeepsSlots ==
  ASSUME TypeOK, SlotFacts, NEW p \in Producers, PushConstruct(p)
  PROVE  SlotFacts'
  <1> USE QueueAssumption DEF SlotFacts
  <1> DEFINE K == cur[p]
             I == index[p]
  <1>0. /\ Producers \subseteq Threads /\ Consumers \subseteq Threads /\ p \notin Consumers
        /\ K \in Chunks /\ I \in Slots
        /\ Value(p) \in Items /\ Value(p) # NULL
        /\ sent[p] \in Nat
    <2>1. K \in Chunks /\ I \in Slots /\ pc[p] # "idle"
      BY DEF Threads, TypeOK, LocalTypes, PointersValid, UsesSlot, PushConstruct, Goto
    <2>2. Value(p) \in Items
      BY <2>1, ValueIsItem DEF TypeOK
    <2>3. Value(p) # NULL
      BY <2>2 DEF Items
    <2>4. sent[p] \in Nat
      BY DEF TypeOK, HistoryTypes
    <2> QED
      BY <2>1, <2>2, <2>3, <2>4 DEF Threads
  <1>1. /\ UNCHANGED <<push_index, pop_index, occupied, sent, got, cur, index>>
        /\ pc[p] = "construct" /\ pc'[p] = "publish"
        /\ \A t \in Threads : t # p => pc'[t] = pc[t]
    BY <1>0 DEF PushConstruct, Goto, TypeOK, LocalTypes, histVars
  <1>2. \A k \in Chunks, i \in Slots :
          storage'[k][i] = IF k = K /\ i = I THEN Value(p) ELSE storage[k][i]
    BY <1>0 DEF PushConstruct, TypeOK, SharedTypes
  <1>3. /\ storage[K][I] = NULL /\ I < push_index[K] /\ ~occupied[K][I]
    BY <1>1 DEF WritersHoldSlots, Writes
  <1>4. \A k \in Chunks, i \in Slots : storage[k][i] # Value(p)
    <2> SUFFICES ASSUME NEW k \in Chunks, NEW i \in Slots, storage[k][i] = Value(p)
                 PROVE  FALSE
      OBVIOUS
    <2>1. sent[p] + 1 \in 1 .. MaxItems
      BY <1>0, <1>1, SMTT(30) DEF TypeOK, HistoryTypes
    <2> QED
      BY <1>0, <1>1, <2>1 DEF StoredWasSent, Value
  <1>5. \A c \in Consumers : \A n \in DOMAIN got[c] : got[c][n] # Value(p)
    BY <1>0 DEF GotWasSent, Value
  <1>6. \A t \in Threads : cur[t] \in Chunks /\ (pc[t] \in UsesSlot => index[t] \in Slots)
    BY DEF TypeOK, LocalTypes, PointersValid
  <1>7. WritersHoldSlots'
    <2> SUFFICES ASSUME NEW q \in Producers, Writes(q)'
                 PROVE  /\ index[q] < push_index[cur[q]]
                        /\ ~occupied[cur[q]][index[q]]
                        /\ storage'[cur[q]][index[q]] =
                             IF pc'[q] = "publish" THEN Value(q) ELSE NULL
      BY <1>1 DEF WritersHoldSlots, Value
    <2>1. CASE q = p
      BY <1>0, <1>1, <1>2, <1>3, <2>1
    <2>2. CASE q # p
      <3>1. Writes(q) /\ pc'[q] = pc[q]
        BY <1>0, <1>1, <2>2 DEF Writes
      <3>2. cur[q] # K \/ index[q] # I
        BY <1>1, <2>2, <3>1 DEF WritersApart, Writes
      <3>3. cur[q] \in Chunks /\ index[q] \in Slots
        BY <1>0, <1>6, <3>1 DEF Writes, UsesSlot
      <3> QED
        BY <1>2, <3>1, <3>2, <3>3 DEF WritersHoldSlots
    <2> QED
      BY <2>1, <2>2
  <1>8. WritersApart'
    BY <1>0, <1>1 DEF WritersApart, Writes
  <1>9. UnclaimedEmpty' /\ OccupiedHolds'
    <2>1. push_index[K] \in Nat /\ I \in Nat
      BY <1>0 DEF TypeOK, SharedTypes, Slots
    <2>2. UnclaimedEmpty'
      BY <1>0, <1>1, <1>2, <1>3, <2>1 DEF UnclaimedEmpty
    <2>3. OccupiedHolds'
      BY <1>0, <1>1, <1>2, <1>3 DEF OccupiedHolds
    <2> QED
      BY <2>2, <2>3
  <1>10. StoredWasSent'
    <2> SUFFICES ASSUME NEW k \in Chunks, NEW i \in Slots, NEW q \in Producers,
                        NEW n \in 1 .. MaxItems, storage'[k][i] = <<q, n>>
                 PROVE  n <= sent[q] \/ (pc'[q] = "publish" /\ cur[q] = k /\ index[q] = i)
      BY <1>1 DEF StoredWasSent, At
    <2>1. CASE k = K /\ i = I
      BY <1>0, <1>1, <1>2, <2>1 DEF Value
    <2>2. CASE ~(k = K /\ i = I)
      BY <1>0, <1>1, <1>2, <2>2 DEF StoredWasSent, At
    <2> QED
      BY <2>1, <2>2
  <1>11. ValuesApart'
    BY <1>0, <1>2, <1>4 DEF ValuesApart
  <1>12. ReadersHoldSlots' /\ ReadersApart'
    BY <1>0, <1>1 DEF ReadersHoldSlots, ReadersApart, Reads, HoldsClaim
  <1>13. GotWasSent' /\ NoDuplicateDelivery'
    BY <1>1 DEF GotWasSent, NoDuplicateDelivery
  <1>14. GotIsConsumed'
    <2> SUFFICES ASSUME NEW c \in Consumers, NEW k \in Chunks, NEW i \in Slots,
                        NEW n \in DOMAIN got[c], storage'[k][i] = got[c][n]
                 PROVE  /\ i < pop_index[k]
                        /\ \A d \in Consumers : HoldsClaim(d)' => ~(cur[d] = k /\ index[d] = i)
      BY <1>1 DEF GotIsConsumed, At
    <2>1. storage[k][i] = got[c][n]
      BY <1>2, <1>5
    <2> QED
      BY <1>0, <1>1, <2>1 DEF GotIsConsumed, HoldsClaim, At
  <1> QED
    BY <1>7, <1>8, <1>9, <1>10, <1>11, <1>12, <1>13, <1>14

(* Publishing makes the value one that has been sent. *)
LEMMA PushPublishKeepsSlots ==
  ASSUME TypeOK, SlotFacts, NEW p \in Producers, PushPublish(p)
  PROVE  SlotFacts'
  <1> USE QueueAssumption DEF SlotFacts
  <1> DEFINE K == cur[p]
             I == index[p]
  <1>0. /\ Producers \subseteq Threads /\ Consumers \subseteq Threads /\ p \notin Consumers
        /\ K \in Chunks /\ I \in Slots
        /\ \A q \in Producers : sent[q] \in Nat
    BY DEF Threads, TypeOK, LocalTypes, PointersValid, UsesSlot, PushPublish, Goto, HistoryTypes
  <1>1. /\ UNCHANGED <<push_index, pop_index, storage, got, cur>>
        /\ pc[p] = "publish" /\ pc'[p] = "idle"
        /\ \A t \in Threads : t # p => pc'[t] = pc[t] /\ index'[t] = index[t]
        /\ sent'[p] = sent[p] + 1
        /\ \A q \in Producers : q # p => sent'[q] = sent[q]
    BY <1>0 DEF PushPublish, Goto, TypeOK, LocalTypes, HistoryTypes
  <1>2. /\ occupied'[K][I]
        /\ \A k \in Chunks, i \in Slots :
             k # K \/ i # I => (occupied'[k][i] <=> occupied[k][i])
    <2>1. occupied' = [occupied EXCEPT ![K][I] = TRUE]
      BY DEF PushPublish
    <2>2. occupied \in [Chunks -> [Slots -> BOOLEAN]]
      BY DEF TypeOK, SharedTypes
    <2> QED
      BY <1>0, <2>1, <2>2
  <1>3. storage[K][I] = Value(p) /\ I < push_index[K]
    BY <1>1 DEF WritersHoldSlots, Writes
  <1>4. Value(p) \in Items /\ Value(p) # NULL
    <2>1. Value(p) \in Items
      BY <1>1, ValueIsItem DEF TypeOK
    <2> QED
      BY <2>1 DEF Items
  <1>5. \A t \in Threads : cur[t] \in Chunks /\ (pc[t] \in UsesSlot => index[t] \in Slots)
    BY DEF TypeOK, LocalTypes, PointersValid
  <1>6. WritersHoldSlots'
    <2> SUFFICES ASSUME NEW q \in Producers, Writes(q)'
                 PROVE  /\ index'[q] < push_index[cur[q]]
                        /\ ~occupied'[cur[q]][index'[q]]
                        /\ storage[cur[q]][index'[q]] =
                             IF pc'[q] = "publish" THEN Value(q)' ELSE NULL
      BY <1>1 DEF WritersHoldSlots
    <2>1. q # p
      BY <1>1 DEF Writes
    <2>2. Writes(q) /\ pc'[q] = pc[q] /\ index'[q] = index[q] /\ Value(q)' = Value(q)
      BY <1>0, <1>1, <2>1 DEF Writes, Value
    <2>3. cur[q] # K \/ index[q] # I
      BY <1>1, <2>1, <2>2 DEF WritersApart, Writes
    <2>4. cur[q] \in Chunks /\ index[q] \in Slots
      BY <1>0, <1>5, <2>2 DEF Writes, UsesSlot
    <2> QED
      BY <1>2, <2>2, <2>3, <2>4 DEF WritersHoldSlots
  <1>7. WritersApart'
    BY <1>0, <1>1 DEF WritersApart, Writes
  <1>8. UnclaimedEmpty'
    <2>1. push_index[K] \in Nat /\ I \in Nat
      BY <1>0 DEF TypeOK, SharedTypes, Slots
    <2> QED
      BY <1>0, <1>1, <1>2, <1>3, <2>1 DEF UnclaimedEmpty
  <1>9. OccupiedHolds'
    BY <1>0, <1>1, <1>2, <1>3, <1>4 DEF OccupiedHolds
  <1>10. StoredWasSent'
    <2> SUFFICES ASSUME NEW k \in Chunks, NEW i \in Slots, NEW q \in Producers,
                        NEW n \in 1 .. MaxItems, storage[k][i] = <<q, n>>
                 PROVE  n <= sent'[q] \/ (pc'[q] = "publish" /\ cur[q] = k /\ index'[q] = i)
      BY <1>1 DEF StoredWasSent, At
    <2>1. CASE q # p
      BY <1>0, <1>1, <2>1 DEF StoredWasSent, At
    <2>2. CASE q = p /\ n <= sent[p]
      BY <1>0, <1>1, <2>2
    <2>3. CASE q = p /\ ~(n <= sent[p])
      <3>1. k = K /\ i = I
        BY <2>3 DEF StoredWasSent, At
      <3>2. n = sent[p] + 1
        BY <1>3, <3>1 DEF Value
      <3> QED
        BY <1>0, <1>1, <2>3, <3>2
    <2> QED
      BY <2>1, <2>2, <2>3
  <1>11. ValuesApart'
    BY <1>1 DEF ValuesApart
  <1>12. ReadersHoldSlots' /\ ReadersApart'
    <2>1. ReadersApart'
      BY <1>0, <1>1 DEF ReadersApart, Reads, HoldsClaim
    <2>2. \A c \in Consumers : pc[c] = "move" => cur[c] \in Chunks /\ index[c] \in Slots
      BY <1>0, <1>5 DEF UsesSlot
    <2>3. ReadersHoldSlots'
      BY <1>0, <1>1, <1>2, <2>2 DEF ReadersHoldSlots, Reads, HoldsClaim
    <2> QED
      BY <2>1, <2>3
  <1>13. GotWasSent'
    <2> SUFFICES ASSUME NEW c \in Consumers, NEW n \in DOMAIN got[c]
                 PROVE  \E q \in Producers, m \in 1 .. MaxItems :
                          got[c][n] = <<q, m>> /\ m <= sent'[q]
      BY <1>1 DEF GotWasSent
    <2>1. PICK q \in Producers, m \in 1 .. MaxItems : got[c][n] = <<q, m>> /\ m <= sent[q]
      BY DEF GotWasSent
    <2>2. m <= sent'[q]
      BY <1>0, <1>1, <2>1
    <2> QED
      BY <2>1, <2>2
  <1>14. NoDuplicateDelivery'
    BY <1>1 DEF NoDuplicateDelivery
  <1>15. GotIsConsumed'
    BY <1>0, <1>1 DEF GotIsConsumed, HoldsClaim, At
  <1> QED
    BY <1>6, <1>7, <1>8, <1>9, <1>10, <1>11, <1>12, <1>13, <1>14, <1>15

-----------------------------------------------------------------------------
(* The steps of pop that own a slot. *)

(* The CAS gives the slot at pop_index, which nobody else has, to c. *)
LEMMA PopClaimKeepsSlots ==
  ASSUME TypeOK, SlotFacts, NEW c \in Consumers, PopClaim(c)
  PROVE  SlotFacts'
  <1> USE QueueAssumption DEF SlotFacts
  <1>0. /\ Producers \subseteq Threads /\ Consumers \subseteq Threads /\ c \notin Producers
        /\ \A t \in Threads : cur[t] \in Chunks /\ index[t] \in Nat
        /\ \A k \in Chunks : pop_index[k] \in Nat
        /\ Slots \subseteq Nat
    BY DEF Threads, TypeOK, LocalTypes, SharedTypes, Slots
  <1>1. CASE UNCHANGED pop_index /\ Goto(c, "take", "load")
    <2>1. Bystander(c)
      BY <1>0, <1>1 DEF PopClaim, Bystander, Holding, Goto, TypeOK, LocalTypes, slotVars, histVars
    <2> QED
      BY <1>0, <2>1, BystanderKeepsSlots
  <1>2. CASE Goto(c, "take", "enter")
    <2>1. /\ UNCHANGED <<push_index, storage, occupied, sent, got, cur, index>>
          /\ pc[c] = "take" /\ pc'[c] = "enter"
          /\ \A t \in Threads : t # c => pc'[t] = pc[t]
          /\ pop_index[cur[c]] = index[c]
          /\ pop_index'[cur[c]] = index[c] + 1
          /\ \A k \in Chunks : k # cur[c] => pop_index'[k] = pop_index[k]
      BY <1>0, <1>2 DEF PopClaim, Goto, TypeOK, LocalTypes, SharedTypes, slotVars, histVars
    <2>2. WritersHoldSlots' /\ WritersApart'
      BY <1>0, <2>1 DEF WritersHoldSlots, WritersApart, Writes, Value
    <2>3. UnclaimedEmpty' /\ OccupiedHolds' /\ ValuesApart'
      BY <2>1 DEF UnclaimedEmpty, OccupiedHolds, ValuesApart
    <2>4. StoredWasSent'
      BY <1>0, <2>1 DEF StoredWasSent, At
    <2>5. ReadersHoldSlots'
      BY <1>0, <2>1 DEF ReadersHoldSlots, Reads, HoldsClaim
    <2>6. ReadersApart'
      BY <1>0, <2>1 DEF ReadersApart, ReadersHoldSlots, Reads, HoldsClaim
    <2>7. GotWasSent' /\ NoDuplicateDelivery'
      BY <2>1 DEF GotWasSent, NoDuplicateDelivery
    <2>8. GotIsConsumed'
      <3> SUFFICES ASSUME NEW b \in Consumers, NEW k \in Chunks, NEW i \in Slots,
                          NEW n \in DOMAIN got[b], storage[k][i] = got[b][n]
                   PROVE  /\ i < pop_index'[k]
                          /\ \A d \in Consumers : HoldsClaim(d)' => ~(cur[d] = k /\ index[d] = i)
        BY <2>1 DEF GotIsConsumed, At
      <3>1. /\ i < pop_index[k]
            /\ \A d \in Consumers : HoldsClaim(d) => ~(cur[d] = k /\ index[d] = i)
        BY DEF GotIsConsumed, At
      <3>2. i < pop_index'[k]
        BY <1>0, <2>1, <3>1
      <3>3. ~(cur[c] = k /\ index[c] = i)
        BY <1>0, <2>1, <3>1
      <3> QED
        BY <1>0, <2>1, <3>1, <3>2, <3>3 DEF HoldsClaim
    <2> QED
      BY <2>2, <2>3, <2>4, <2>5, <2>6, <2>7, <2>8
  <1> QED
    BY <1>1, <1>2 DEF PopClaim, slotVars

(* Entering the slot and seeing it occupied change no slot. *)
LEMMA PopWaitKeepsSlots ==
  ASSUME TypeOK, SlotFacts, NEW c \in Consumers, PopEnter(c) \/ PopWait(c)
  PROVE  SlotFacts'
  <1> USE QueueAssumption DEF SlotFacts
  <1>0. Producers \subseteq Threads /\ Consumers \subseteq Threads /\ c \notin Producers
    BY DEF Threads
  <1>1. /\ UNCHANGED <<push_index, pop_index, storage, occupied, sent, got, cur, index>>
        /\ pc[c] \in {"enter", "wait"} /\ pc'[c] \in {"wait", "move"}
        /\ pc'[c] = "move" => occupied[cur[c]][index[c]]
        /\ \A t \in Threads : t # c => pc'[t] = pc[t]
    BY <1>0 DEF PopEnter, PopWait, Goto, TypeOK, LocalTypes, slotVars, histVars
  <1>2. WritersHoldSlots' /\ WritersApart'
    BY <1>0, <1>1 DEF WritersHoldSlots, WritersApart, Writes, Value
  <1>3. UnclaimedEmpty' /\ OccupiedHolds' /\ ValuesApart'
    BY <1>1 DEF UnclaimedEmpty, OccupiedHolds, ValuesApart
  <1>4. StoredWasSent'
    BY <1>0, <1>1 DEF StoredWasSent, At
  <1>5. ReadersHoldSlots' /\ ReadersApart'
    BY <1>0, <1>1 DEF ReadersHoldSlots, ReadersApart, Reads, HoldsClaim
  <1>6. GotWasSent' /\ NoDuplicateDelivery'
    BY <1>1 DEF GotWasSent, NoDuplicateDelivery
  <1>7. GotIsConsumed'
    BY <1>0, <1>1 DEF GotIsConsumed, HoldsClaim, At
  <1> QED
    BY <1>2, <1>3, <1>4, <1>5, <1>6, <1>7

(* The value moved out has been sent, and nobody has been given it before. *)
LEMMA PopMoveKeepsSlots ==
  ASSUME TypeOK, SlotFacts, NEW c \in Consumers, PopMove(c)
  PROVE  SlotFacts'
  <1> USE QueueAssumption DEF SlotFacts
  <1> DEFINE K == cur[c]
             I == index[c]
             x == storage[K][I]
  <1>0. /\ Producers \subseteq Threads /\ Consumers \subseteq Threads /\ c \notin Producers
        /\ K \in Chunks /\ I \in Slots
        /\ \A d \in Consumers : got[d] \in Seq(Null(Items))
    BY DEF Threads, TypeOK, LocalTypes, HistoryTypes, PointersValid, UsesSlot, PopMove, Goto
  <1>1. /\ UNCHANGED <<push_index, pop_index, storage, occupied, sent, cur, index>>
        /\ pc[c] = "move" /\ pc'[c] = "destroy"
        /\ \A t \in Threads : t # c => pc'[t] = pc[t]
    BY <1>0 DEF PopMove, Goto, TypeOK, LocalTypes, slotVars, histVars
  <1>2. x \in Items /\ occupied[K][I]
    <2>1. occupied[K][I] /\ x # NULL
      BY <1>0, <1>1 DEF ReadersHoldSlots, OccupiedHolds
    <2> QED
      BY <1>0, <2>1 DEF TypeOK, SharedTypes, Null
  <1>3. \E p \in Producers, m \in 1 .. MaxItems : x = <<p, m>> /\ m <= sent[p]
    <2>1. PICK p \in Producers, m \in 1 .. MaxItems : x = <<p, m>>
      BY <1>2 DEF Items
    <2>2. ~(pc[p] = "publish" /\ At(p, K, I))
      BY <1>2 DEF WritersHoldSlots, Writes, At
    <2>3. m <= sent[p]
      BY <1>0, <2>1, <2>2 DEF StoredWasSent
    <2> QED
      BY <2>1, <2>3
  <1>4. \A d \in Consumers : \A n \in DOMAIN got[d] : got[d][n] # x
    BY <1>0, <1>1 DEF GotIsConsumed, HoldsClaim, At
  <1>5. PICK N \in Nat : N = Len(got[c])
    BY <1>0
  <1>6. /\ DOMAIN got'[c] = 1 .. N + 1 /\ DOMAIN got[c] = 1 .. N
        /\ got'[c][N + 1] = x
        /\ \A n \in 1 .. N : got'[c][n] = got[c][n]
        /\ \A d \in Consumers : d # c => got'[d] = got[d]
    <2>1. got' = [got EXCEPT ![c] = Append(got[c], x)] /\ c \in DOMAIN got
      BY DEF PopMove, TypeOK, HistoryTypes
    <2>2. got'[c] = Append(got[c], x) /\ \A d \in Consumers : d # c => got'[d] = got[d]
      BY <2>1 DEF TypeOK, HistoryTypes
    <2>3. got[c] \in Seq(Null(Items)) /\ x \in Null(Items)
      BY <1>0, <1>2 DEF Null
    <2> QED
      BY <1>5, <2>2, <2>3
  <1>7. \A d \in Consumers : \A n \in DOMAIN got'[d] :
          \/ n \in DOMAIN got[d] /\ got'[d][n] = got[d][n]
          \/ d = c /\ n = N + 1 /\ got'[d][n] = x
    <2> SUFFICES ASSUME NEW d \in Consumers, NEW n \in DOMAIN got'[d]
                 PROVE  \/ n \in DOMAIN got[d] /\ got'[d][n] = got[d][n]
                        \/ d = c /\ n = N + 1 /\ got'[d][n] = x
      OBVIOUS
    <2>1. CASE d # c
      BY <1>6, <2>1
    <2>2. CASE d = c
      <3>1. n \in 1 .. N \/ n = N + 1
        BY <1>5, <1>6, <2>2
      <3> QED
        BY <1>6, <2>2, <3>1
    <2> QED
      BY <2>1, <2>2
  <1>8. WritersHoldSlots' /\ WritersApart'
    BY <1>0, <1>1 DEF WritersHoldSlots, WritersApart, Writes, Value
  <1>9. UnclaimedEmpty' /\ OccupiedHolds' /\ ValuesApart'
    BY <1>1 DEF UnclaimedEmpty, OccupiedHolds, ValuesApart
  <1>10. StoredWasSent'
    BY <1>0, <1>1 DEF StoredWasSent, At
  <1>11. ReadersHoldSlots' /\ ReadersApart'
    BY <1>0, <1>1 DEF ReadersHoldSlots, ReadersApart, Reads, HoldsClaim
  <1>12. GotWasSent'
    <2> SUFFICES ASSUME NEW d \in Consumers, NEW n \in DOMAIN got'[d]
                 PROVE  \E p \in Producers, m \in 1 .. MaxItems :
                          got'[d][n] = <<p, m>> /\ m <= sent[p]
      BY <1>1 DEF GotWasSent
    <2> QED
      BY <1>3, <1>7 DEF GotWasSent
  <1>13. NoDuplicateDelivery'
    <2> SUFFICES ASSUME NEW d \in Consumers, NEW e \in Consumers,
                        NEW m \in DOMAIN got'[d], NEW n \in DOMAIN got'[e],
                        got'[d][m] = got'[e][n]
                 PROVE  d = e /\ m = n
      BY DEF NoDuplicateDelivery
    <2> QED
      BY <1>4, <1>7 DEF NoDuplicateDelivery
  <1>14. GotIsConsumed'
    <2> SUFFICES ASSUME NEW b \in Consumers, NEW k \in Chunks, NEW i \in Slots,
                        NEW n \in DOMAIN got'[b], storage[k][i] = got'[b][n]
                 PROVE  /\ i < pop_index[k]
                        /\ \A d \in Consumers : HoldsClaim(d)' => ~(cur[d] = k /\ index[d] = i)
      BY <1>1 DEF GotIsConsumed, At
    <2>1. CASE n \in DOMAIN got[b] /\ got'[b][n] = got[b][n]
      BY <1>0, <1>1, <2>1 DEF GotIsConsumed, HoldsClaim, At
    <2>2. CASE got'[b][n] = x
      <3>1. k = K /\ i = I
        BY <1>0, <1>2, <2>2 DEF ValuesApart, Items
      <3>2. I < pop_index[K]
        BY <1>1 DEF ReadersHoldSlots, Reads, HoldsClaim
      <3>3. \A d \in Consumers : HoldsClaim(d)' => ~(cur[d] = K /\ index[d] = I)
        BY <1>0, <1>1 DEF ReadersApart, Reads, HoldsClaim
      <3> QED
        BY <3>1, <3>2, <3>3
    <2> QED
      BY <1>7, <2>1, <2>2
  <1> QED
    BY <1>8, <1>9, <1>10, <1>11, <1>12, <1>13, <1>14

(* Only the owner of a slot marks it free. *)
LEMMA PopDestroyKeepsSlots ==
  ASSUME TypeOK, SlotFacts, NEW c \in Consumers, PopDestroy(c)
  PROVE  SlotFacts'
  <1> USE QueueAssumption DEF SlotFacts
  <1> DEFINE K == cur[c]
             I == index[c]
  <1>0. /\ Producers \subseteq Threads /\ Consumers \subseteq Threads /\ c \notin Producers
        /\ K \in Chunks /\ I \in Slots
    BY DEF Threads, TypeOK, LocalTypes, PointersValid, UsesSlot, PopDestroy, Goto
  <1>1. /\ UNCHANGED <<push_index, pop_index, storage, sent, got, cur, index>>
        /\ pc[c] = "destroy" /\ pc'[c] = "leave"
        /\ \A t \in Threads : t # c => pc'[t] = pc[t]
    BY <1>0 DEF PopDestroy, Goto, TypeOK, LocalTypes, histVars
  <1>2. \A k \in Chunks, i \in Slots :
          /\ occupied'[k][i] => occupied[k][i]
          /\ k # K \/ i # I => (occupied'[k][i] <=> occupied[k][i])
    <2>1. occupied' = [occupied EXCEPT ![K][I] = FALSE]
      BY DEF PopDestroy
    <2>2. occupied \in [Chunks -> [Slots -> BOOLEAN]]
      BY DEF TypeOK, SharedTypes
    <2> QED
      BY <1>0, <2>1, <2>2
  <1>3. \A t \in Threads : cur[t] \in Chunks /\ (pc[t] \in UsesSlot => index[t] \in Slots)
    BY DEF TypeOK, LocalTypes, PointersValid
  <1>4. WritersHoldSlots' /\ WritersApart'
    <2>1. WritersApart'
      BY <1>0, <1>1 DEF WritersApart, Writes
    <2>2. \A q \in Producers : Writes(q) => cur[q] \in Chunks /\ index[q] \in Slots
      BY <1>0, <1>3 DEF Writes, UsesSlot
    <2>3. WritersHoldSlots'
      BY <1>0, <1>1, <1>2, <2>2 DEF WritersHoldSlots, Writes, Value
    <2> QED
      BY <2>1, <2>3
  <1>5. UnclaimedEmpty' /\ OccupiedHolds'
    BY <1>1, <1>2 DEF UnclaimedEmpty, OccupiedHolds
  <1>6. ValuesApart'
    BY <1>1 DEF ValuesApart
  <1>7. StoredWasSent'
    BY <1>0, <1>1 DEF StoredWasSent, At
  <1>8. ReadersHoldSlots' /\ ReadersApart'
    <2>1. ReadersApart'
      BY <1>0, <1>1 DEF ReadersApart, Reads, HoldsClaim
    <2>2. \A d \in Consumers : pc[d] = "move" =>
            cur[d] \in Chunks /\ index[d] \in Slots /\ (cur[d] # K \/ index[d] # I)
      BY <1>0, <1>1, <1>3 DEF UsesSlot, ReadersApart, Reads, HoldsClaim
    <2>3. ReadersHoldSlots'
      BY <1>0, <1>1, <1>2, <2>2 DEF ReadersHoldSlots, Reads, HoldsClaim
    <2> QED
      BY <2>1, <2>3
  <1>9. GotWasSent' /\ NoDuplicateDelivery'
    BY <1>1 DEF GotWasSent, NoDuplicateDelivery
  <1>10. GotIsConsumed'
    BY <1>0, <1>1 DEF GotIsConsumed, HoldsClaim, At
  <1> QED
    BY <1>4, <1>5, <1>6, <1>7, <1>8, <1>9, <1>10

-----------------------------------------------------------------------------
LEMMA SlotInit == Init => SlotInv
  <1> SUFFICES ASSUME Init PROVE SlotInv
    OBVIOUS
  <1>1. TypeOK
    BY TypeInit
  <1>2. \A k \in Chunks, i \in Slots : storage[k][i] = NULL /\ ~occupied[k][i]
    BY DEF Init
  <1>3. \A t \in Threads : pc[t] = "idle"
    BY DEF Init
  <1>4. \A c \in Consumers : DOMAIN got[c] = {}
    BY DEF Init
  <1>5. WritersHoldSlots /\ WritersApart /\ ReadersHoldSlots /\ ReadersApart
    BY <1>3 DEF WritersHoldSlots, WritersApart, ReadersHoldSlots, ReadersApart, Writes, Reads,
                HoldsClaim, Threads
  <1>6. StoredWasSent
    <2>1. \A p \in Producers, n \in 1 .. MaxItems : <<p, n>> # NULL
      BY QueueAssumption
    <2> QED
      BY <1>2, <2>1 DEF StoredWasSent
  <1>7. UnclaimedEmpty /\ OccupiedHolds /\ ValuesApart
    BY <1>2 DEF UnclaimedEmpty, OccupiedHolds, ValuesApart
  <1>8. GotWasSent /\ GotIsConsumed /\ NoDuplicateDelivery
    BY <1>4 DEF GotWasSent, GotIsConsumed, NoDuplicateDelivery
  <1> QED
    BY <1>1, <1>5, <1>6, <1>7, <1>8 DEF SlotInv, SlotFacts

LEMMA SlotStep == SlotInv /\ [Next]_vars => SlotInv'
  <1> SUFFICES ASSUME SlotInv, [Next]_vars PROVE SlotInv'
    OBVIOUS
  <1>0. TypeOK /\ TypeOK'
    BY TypeStep DEF SlotInv
  <1> SUFFICES ASSUME ~reused' PROVE SlotFacts'
    BY <1>0 DEF SlotInv
  <1>r. ASSUME ~reused PROVE SlotFacts
    BY <1>r DEF SlotInv
  <1>1. ASSUME NEW p \in Producers, PushStep(p) PROVE SlotFacts'
    <2>1. CASE AllocReset(p)
      BY <2>1 DEF AllocReset
    <2>2. CASE PushClaim(p)
      BY <1>0, <1>r, <2>2, PushClaimKeepsSlots DEF PushClaim, histVars
    <2>3. CASE PushCheck(p)
      BY <1>0, <1>r, <2>3, PushCheckKeepsSlots DEF PushCheck, histVars
    <2>4. CASE PushConstruct(p)
      BY <1>0, <1>r, <2>4, PushConstructKeepsSlots DEF PushConstruct, histVars
    <2>5. CASE PushPublish(p)
      BY <1>0, <1>r, <2>5, PushPublishKeepsSlots DEF PushPublish
    <2>6. CASE \/ PushLoadTail(p) \/ AllocLoad(p) \/ AllocNext(p) \/ AllocCas(p)
               \/ AllocNew(p) \/ PushLink(p) \/ PushSwing(p) \/ PushFollow(p)
      <3>1. UNCHANGED reused
        BY <2>6 DEF PushLoadTail, AllocLoad, AllocNext, AllocCas, AllocNew, PushLink,
                    PushSwing, PushFollow, histVars
      <3>2. p \in Threads /\ Bystander(p)
        BY <1>0, <2>6, PushBystanders DEF Threads
      <3> QED
        BY <1>0, <1>r, <3>1, <3>2, BystanderKeepsSlots
    <2> QED
      BY <1>1, <2>1, <2>2, <2>3, <2>4, <2>5, <2>6 DEF PushStep
  <1>2. ASSUME NEW c \in Consumers, PopStep(c) PROVE SlotFacts'
    <2>1. CASE PopClaim(c)
      BY <1>0, <1>r, <2>1, PopClaimKeepsSlots DEF PopClaim, histVars
    <2>2. CASE PopEnter(c) \/ PopWait(c)
      BY <1>0, <1>r, <2>2, PopWaitKeepsSlots DEF PopEnter, PopWait, histVars
    <2>3. CASE PopMove(c)
      BY <1>0, <1>r, <2>3, PopMoveKeepsSlots DEF PopMove
    <2>4. CASE PopDestroy(c)
      BY <1>0, <1>r, <2>4, PopDestroyKeepsSlots DEF PopDestroy, histVars
    <2>5. CASE \/ PopLoadHead(c) \/ PopLoadIndex(c) \/ PopLoadPush(c) \/ PopEmpty(c)
               \/ PopLoadNext(c) \/ PopAdvance(c) \/ PopRetire(c) \/ PopLeave(c)
               \/ TryRelease(c) \/ TryUnretire(c)
      <3>1. UNCHANGED reused
        BY <2>5 DEF PopLoadHead, PopLoadIndex, PopLoadPush, PopEmpty, PopLoadNext, PopAdvance,
                    PopRetire, PopLeave, TryRelease, TryUnretire, histVars
      <3>2. c \in Threads /\ Bystander(c)
        BY <1>0, <2>5, PopBystanders DEF Threads
      <3> QED
        BY <1>0, <1>r, <3>1, <3>2, BystanderKeepsSlots
    <2> QED
      BY <1>2, <2>1, <2>2, <2>3, <2>4, <2>5 DEF PopStep
  <1>3. ASSUME NEW t \in Threads, ReleaseStep(t) PROVE SlotFacts'
    <2>1. UNCHANGED reused
      BY <1>3 DEF ReleaseStep, ReleaseLoad, ReleaseStore, ReleaseCas, histVars
    <2> QED
      BY <1>0, <1>r, <1>3, <2>1, ReleaseBystanders, BystanderKeepsSlots
  <1>4. CASE UNCHANGED vars
    <2>1. UNCHANGED <<push_index, pop_index, storage, occupied, pc, cur, index, sent, got, reused>>
      BY <1>4 DEF vars, slotVars, threadVars, histVars
    <2> QED
      BY <1>r, <2>1 DEF SlotFacts, WritersHoldSlots, WritersApart, UnclaimedEmpty, OccupiedHolds,
         StoredWasSent, ValuesApart, ReadersHoldSlots, ReadersApart, GotWasSent, GotIsConsumed,
         NoDuplicateDelivery, Writes, Reads, HoldsClaim, At, Value
  <1> QED
    BY <1>1, <1>2, <1>3, <1>4 DEF Next

(* For any number of producers, consumers, chunks and values: a value is    *)
(* popped twice only after some chunk of the free list has been used again, *)
(* so the claim protocol of push and pop on a slot is correct and only      *)
(* retire_chunk and allocate_chunk can break it.                            *)
THEOREM NoDuplicatesWithoutReuse == Spec => []DuplicatesNeedReuse
  <1>1. SlotInv => DuplicatesNeedReuse
    BY DEF SlotInv, SlotFacts, DuplicatesNeedReuse
  <1> QED
    BY <1>1, SlotInit, SlotStep, PTL DEF Spec

-----------------------------------------------------------------------------
(***************************************************************************)
(* The queue between one producer and one consumer, with chunks recycled   *)
(* and push and pop overlapping.  Values may then be lost or come late     *)
(* (see NoLoss and PerProducerOrder), but none is handed out twice, no     *)
(* chunk is used after it was released, and the destructor frees every     *)
(* chunk once.                                                             *)
(***************************************************************************)

(* One thread pushes and one pops. *)
OneEach ==
  /\ \A p, q \in Producers : p = q
  /\ \A c, d \in Consumers : c = d

-----------------------------------------------------------------------------
(***************************************************************************)
(* NoDuplicateDelivery.  The occupied flag of a slot works as a lock on    *)
(* it: push writes the value while the flag is FALSE, pop reads it while   *)
(* the flag is TRUE.  Nothing is said about which slot is claimed when, so *)
(* that the reset of a recycled chunk and skipped slots do no harm.        *)
(***************************************************************************)

Writing(p) == pc[p] \in {"construct", "publish"}
Reading(c) == pc[c] \in {"move", "destroy"}

WriterFindsFree ==
  \A p \in Producers :
    /\ Writing(p) => ~occupied[cur[p]][index[p]]
    /\ pc[p] = "publish" => storage[cur[p]][index[p]] = Value(p)

ReaderFindsValue ==
  \A c \in Consumers : Reading(c) => occupied[cur[c]][index[c]]

(* The values of occupied slots have been pushed, and each is in one slot. *)
OccupiedDone ==
  \A k \in Chunks, i \in Slots : occupied[k][i] => storage[k][i] \in Completed

OccupiedApart ==
  \A k, l \in Chunks, i, j \in Slots :
    occupied[k][i] /\ occupied[l][j] /\ storage[k][i] = storage[l][j] => k = l /\ i = j

GotDone ==
  \A c \in Consumers : \A n \in DOMAIN got[c] : got[c][n] \in Completed

(* A value that was handed out occupies a slot only until pop destroys it. *)
GotIsCleared ==
  \A k \in Chunks, i \in Slots, c \in Consumers : \A n \in DOMAIN got[c] :
    occupied[k][i] /\ got[c][n] = storage[k][i] => pc[c] = "destroy" /\ At(c, k, i)

LockFacts ==
  /\ WriterFindsFree /\ ReaderFindsValue /\ OccupiedDone /\ OccupiedApart
  /\ GotDone /\ GotIsCleared /\ NoDuplicateDelivery

LockInv == TypeOK /\ (OneEach => LockFacts)

(* A step of thread t that leaves the slots alone and takes no lock. *)
Aside(t) ==
  /\ UNCHANGED <<storage, occupied, sent, got>>
  /\ pc[t] # "destroy" /\ pc'[t] \notin {"construct", "publish", "move", "destroy"}
  /\ \A u \in Threads : u # t =>
       pc'[u] = pc[u] /\ cur'[u] = cur[u] /\ index'[u] = index[u]

LEMMA AsideKeepsLocks ==
  ASSUME LockFacts, NEW t \in Threads, Aside(t)
  PROVE  LockFacts'
  <1> USE DEF LockFacts, Aside
  <1>0. Producers \subseteq Threads /\ Consumers \subseteq Threads
    BY DEF Threads
  <1>1. WriterFindsFree'
    BY <1>0 DEF WriterFindsFree, Writing, Value
  <1>2. ReaderFindsValue'
    BY <1>0 DEF ReaderFindsValue, Reading
  <1>3. OccupiedDone' /\ GotDone'
    BY DEF OccupiedDone, GotDone, Completed
  <1>4. OccupiedApart' /\ NoDuplicateDelivery'
    BY DEF OccupiedApart, NoDuplicateDelivery
  <1>5. GotIsCleared'
    BY <1>0 DEF GotIsCleared, At
  <1> QED
    BY <1>1, <1>2, <1>3, <1>4, <1>5

(* Most steps stand aside. *)
LEMMA PushesAside ==
  ASSUME TypeOK, NEW p \in Producers,
         \/ PushLoadTail(p) \/ PushClaim(p) \/ AllocLoad(p) \/ AllocNext(p) \/ AllocCas(p)
         \/ AllocReset(p) \/ AllocNew(p) \/ PushLink(p) \/ PushSwing(p) \/ PushFollow(p)
  PROVE  Aside(p)
  <1> USE DEF TypeOK, LocalTypes, Threads, Aside, Goto, slotVars, histVars
  <1>1. CASE PushLoadTail(p)
    BY <1>1 DEF PushLoadTail
  <1>2. CASE PushClaim(p)
    BY <1>2 DEF PushClaim
  <1>3. CASE AllocLoad(p)
    BY <1>3 DEF AllocLoad, AfterAlloc
  <1>4. CASE AllocNext(p)
    BY <1>4 DEF AllocNext
  <1>5. CASE AllocCas(p)
    BY <1>5 DEF AllocCas, AfterAlloc
  <1>6. CASE AllocReset(p)
    BY <1>6 DEF AllocReset
  <1>7. CASE AllocNew(p)
    BY <1>7 DEF AllocNew
  <1>8. CASE PushLink(p)
    BY <1>8 DEF PushLink
  <1>9. CASE PushSwing(p)
    BY <1>9 DEF PushSwing
  <1>10. CASE PushFollow(p)
    BY <1>10 DEF PushFollow
  <1> QED
    BY <1>1, <1>2, <1>3, <1>4, <1>5, <1>6, <1>7, <1>8, <1>9, <1>10

LEMMA ReleasesAside ==
  ASSUME TypeOK, NEW t \in Threads, ReleaseStep(t)
  PROVE  Aside(t)
  <1> USE DEF TypeOK, LocalTypes, Aside, Goto, slotVars, histVars
  <1>1. CASE ReleaseLoad(t)
    BY <1>1 DEF ReleaseLoad
  <1>2. CASE ReleaseStore(t)
    BY <1>2 DEF ReleaseStore
  <1>3. CASE ReleaseCas(t)
    BY <1>3 DEF ReleaseCas, AfterRelease, AfterTry
  <1> QED
    BY <1>1, <1>2, <1>3 DEF ReleaseStep

LEMMA PopsAside ==
  ASSUME TypeOK, NEW c \in Consumers,
         \/ PopLoadHead(c) \/ PopLoadIndex(c) \/ PopLoadPush(c) \/ PopEmpty(c)
         \/ PopLoadNext(c) \/ PopAdvance(c) \/ PopRetire(c) \/ PopClaim(c) \/ PopEnter(c)
         \/ PopLeave(c) \/ TryRelease(c) \/ TryUnretire(c)
  PROVE  Aside(c)
  <1> USE DEF TypeOK, LocalTypes, Threads, Aside, Goto, slotVars, histVars
  <1>1. CASE PopLoadHead(c)
    BY <1>1 DEF PopLoadHead
  <1>2. CASE PopLoadIndex(c)
    BY <1>2 DEF PopLoadIndex
  <1>3. CASE PopLoadPush(c)
    BY <1>3 DEF PopLoadPush
  <1>4. CASE PopEmpty(c)
    BY <1>4 DEF PopEmpty
  <1>5. CASE PopLoadNext(c)
    BY <1>5 DEF PopLoadNext
  <1>6. CASE PopAdvance(c)
    BY <1>6 DEF PopAdvance
  <1>7. CASE PopRetire(c)
    BY <1>7 DEF PopRetire
  <1>8. CASE PopClaim(c)
    BY <1>8 DEF PopClaim
  <1>9. CASE PopEnter(c)
    BY <1>9 DEF PopEnter
  <1>10. CASE PopLeave(c)
    BY <1>10 DEF PopLeave
  <1>11. CASE TryRelease(c)
    BY <1>11 DEF TryRelease, AfterTry
  <1>12. CASE TryUnretire(c)
    BY <1>12 DEF TryUnretire, AfterTry
  <1> QED
    BY <1>1, <1>2, <1>3, <1>4, <1>5, <1>6, <1>7, <1>8, <1>9, <1>10, <1>11, <1>12

(* Push goes on to construct only if it has found the slot free. *)
LEMMA PushCheckKeepsLocks ==
  ASSUME TypeOK, LockFacts, NEW p \in Producers, PushCheck(p)
  PROVE  LockFacts'
  <1> USE DEF LockFacts
  <1>0. Producers \subseteq Threads /\ Consumers \subseteq Threads /\ p \notin Consumers
    BY QueueAssumption DEF Threads
  <1>1. /\ UNCHANGED <<storage, occupied, sent, got, cur, index>>
        /\ pc'[p] = IF occupied[cur[p]][index[p]] THEN "load" ELSE "construct"
        /\ \A u \in Threads : u # p => pc'[u] = pc[u]
    BY <1>0 DEF PushCheck, TypeOK, LocalTypes, slotVars, histVars
  <1>2. WriterFindsFree'
    BY <1>0, <1>1 DEF WriterFindsFree, Writing, Value
  <1>3. ReaderFindsValue'
    BY <1>0, <1>1 DEF ReaderFindsValue, Reading
  <1>4. OccupiedDone' /\ GotDone'
    BY <1>1 DEF OccupiedDone, GotDone, Completed
  <1>5. OccupiedApart' /\ NoDuplicateDelivery'
    BY <1>1 DEF OccupiedApart, NoDuplicateDelivery
  <1>6. GotIsCleared'
    BY <1>0, <1>1 DEF GotIsCleared, At
  <1> QED
    BY <1>2, <1>3, <1>4, <1>5, <1>6

(* The value is written into a slot whose flag is FALSE. *)
LEMMA PushConstructKeepsLocks ==
  ASSUME OneEach, TypeOK, LockFacts, NEW p \in Producers, PushConstruct(p)
  PROVE  LockFacts'
  <1> USE DEF LockFacts
  <1>0. /\ Producers \subseteq Threads /\ Consumers \subseteq Threads /\ p \notin Consumers
        /\ cur[p] \in Chunks /\ index[p] \in Slots
    BY QueueAssumption DEF Threads, TypeOK, LocalTypes, PointersValid, UsesSlot, PushConstruct, Goto
  <1>1. /\ UNCHANGED <<occupied, sent, got, cur, index>>
        /\ pc[p] = "construct" /\ pc'[p] = "publish"
        /\ \A u \in Threads : u # p => pc'[u] = pc[u]
        /\ storage'[cur[p]][index[p]] = Value(p)
        /\ \A k \in Chunks, i \in Slots : ~At(p, k, i) => storage'[k][i] = storage[k][i]
    BY <1>0 DEF PushConstruct, Goto, TypeOK, SharedTypes, LocalTypes, slotVars, histVars, At
  <1>2. ~occupied[cur[p]][index[p]]
    BY <1>1 DEF WriterFindsFree, Writing
  <1>3. \A k \in Chunks, i \in Slots : occupied[k][i] => storage'[k][i] = storage[k][i]
    BY <1>1, <1>2 DEF At
  <1>4. WriterFindsFree'
    <2>1. \A q \in Producers : q = p
      BY DEF OneEach
    <2> QED
      BY <1>1, <1>2, <2>1 DEF WriterFindsFree, Value
  <1>5. ReaderFindsValue'
    BY <1>0, <1>1 DEF ReaderFindsValue, Reading
  <1>6. OccupiedDone' /\ GotDone'
    BY <1>1, <1>3 DEF OccupiedDone, GotDone, Completed
  <1>7. OccupiedApart'
    BY <1>1, <1>3 DEF OccupiedApart
  <1>8. NoDuplicateDelivery'
    BY <1>1 DEF NoDuplicateDelivery
  <1>9. GotIsCleared'
    BY <1>0, <1>1, <1>3 DEF GotIsCleared, At
  <1> QED
    BY <1>4, <1>5, <1>6, <1>7, <1>8, <1>9

(* The value that occupies the slot is new: it is in no other slot and no   *)
(* consumer has it.                                                         *)
LEMMA PushPublishKeepsLocks ==
  ASSUME OneEach, TypeOK, LockFacts, NEW p \in Producers, PushPublish(p)
  PROVE  LockFacts'
  <1> USE DEF LockFacts
  <1>0. /\ Producers \subseteq Threads /\ Consumers \subseteq Threads /\ p \notin Consumers
        /\ cur[p] \in Chunks /\ index[p] \in Slots
        /\ sent[p] \in Nat /\ \A q \in Producers : sent[q] \in Nat
    BY QueueAssumption DEF Threads, TypeOK, LocalTypes, HistoryTypes, PointersValid, UsesSlot,
       PushPublish, Goto
  <1>1. /\ UNCHANGED <<storage, got, cur>>
        /\ pc[p] = "publish" /\ pc'[p] = "idle"
        /\ \A u \in Threads : u # p => pc'[u] = pc[u] /\ index'[u] = index[u]
        /\ occupied'[cur[p]][index[p]]
        /\ \A k \in Chunks, i \in Slots : ~At(p, k, i) => occupied'[k][i] = occupied[k][i]
        /\ sent' = [sent EXCEPT ![p] = sent[p] + 1]
    BY <1>0 DEF PushPublish, Goto, TypeOK, SharedTypes, LocalTypes, slotVars, histVars, At
  <1>2. storage[cur[p]][index[p]] = Value(p) /\ Value(p) \in Items /\ Value(p) = <<p, sent[p] + 1>>
    <2>1. Value(p) \in Items
      BY <1>1, ValueIsItem, QueueAssumption DEF TypeOK
    <2> QED
      BY <1>1, <2>1 DEF WriterFindsFree, Value
  <1>3. Value(p) \notin Completed
    BY <1>0, <1>2 DEF Completed
  <1>4. Completed \subseteq Completed' /\ Value(p) \in Completed'
    <2>0. sent \in [Producers -> 0 .. MaxItems]
      BY DEF TypeOK, HistoryTypes
    <2>1. \A q \in Producers : sent'[q] \in Nat /\ sent[q] <= sent'[q]
      BY <1>0, <1>1, <2>0
    <2>2. sent'[p] = sent[p] + 1
      BY <1>1, <2>0
    <2>3. Completed \subseteq Completed'
      <3> SUFFICES ASSUME NEW x \in Items, x[2] <= sent[x[1]] PROVE x[2] <= sent'[x[1]]
        BY DEF Completed
      <3>1. x[1] \in Producers /\ x[2] \in Nat
        BY DEF Items
      <3> QED
        BY <1>0, <2>1, <3>1
    <2> QED
      BY <1>0, <1>2, <2>2, <2>3 DEF Completed
  <1>5. WriterFindsFree'
    <2>1. \A q \in Producers : q = p
      BY DEF OneEach
    <2> QED
      BY <1>1, <2>1 DEF WriterFindsFree, Writing
  <1>6. ReaderFindsValue'
    <2> SUFFICES ASSUME NEW c \in Consumers, Reading(c)' PROVE occupied'[cur[c]][index[c]]
      BY <1>0, <1>1 DEF ReaderFindsValue
    <2>1. Reading(c) /\ cur[c] \in Chunks /\ index[c] \in Slots
      BY <1>0, <1>1 DEF Reading, TypeOK, LocalTypes, PointersValid, UsesSlot
    <2> QED
      BY <1>1, <2>1 DEF ReaderFindsValue, At
  <1>7. OccupiedDone' /\ GotDone'
    BY <1>1, <1>2, <1>4 DEF OccupiedDone, GotDone, At
  <1>8. OccupiedApart'
    <2> SUFFICES ASSUME NEW k \in Chunks, NEW l \in Chunks, NEW i \in Slots, NEW j \in Slots,
                        occupied'[k][i], occupied'[l][j], storage[k][i] = storage[l][j]
                 PROVE  k = l /\ i = j
      BY <1>1 DEF OccupiedApart
    <2>1. CASE At(p, k, i) /\ At(p, l, j)
      BY <2>1 DEF At
    <2>2. CASE At(p, k, i) /\ ~At(p, l, j)
      BY <1>1, <1>2, <1>3, <2>2 DEF OccupiedDone, At
    <2>3. CASE ~At(p, k, i) /\ At(p, l, j)
      BY <1>1, <1>2, <1>3, <2>3 DEF OccupiedDone, At
    <2>4. CASE ~At(p, k, i) /\ ~At(p, l, j)
      BY <1>1, <2>4 DEF OccupiedApart
    <2> QED
      BY <2>1, <2>2, <2>3, <2>4
  <1>9. GotIsCleared'
    <2> SUFFICES ASSUME NEW k \in Chunks, NEW i \in Slots, NEW c \in Consumers,
                        NEW n \in DOMAIN got[c], occupied'[k][i], got[c][n] = storage[k][i]
                 PROVE  pc[c] = "destroy" /\ At(c, k, i)
      BY <1>0, <1>1 DEF GotIsCleared, At
    <2>1. ~At(p, k, i)
      BY <1>2, <1>3 DEF GotDone, At
    <2> QED
      BY <1>1, <2>1 DEF GotIsCleared
  <1>10. NoDuplicateDelivery'
    BY <1>1 DEF NoDuplicateDelivery
  <1> QED
    BY <1>5, <1>6, <1>7, <1>8, <1>9, <1>10

LEMMA PopWaitKeepsLocks ==
  ASSUME TypeOK, LockFacts, NEW c \in Consumers, PopWait(c)
  PROVE  LockFacts'
  <1> USE DEF LockFacts
  <1>0. Producers \subseteq Threads /\ Consumers \subseteq Threads /\ c \notin Producers
    BY QueueAssumption DEF Threads
  <1>1. /\ UNCHANGED <<storage, occupied, sent, got, cur, index>>
        /\ occupied[cur[c]][index[c]] /\ pc[c] = "wait" /\ pc'[c] = "move"
        /\ \A u \in Threads : u # c => pc'[u] = pc[u]
    BY <1>0 DEF PopWait, Goto, TypeOK, LocalTypes, slotVars, histVars
  <1>2. WriterFindsFree'
    BY <1>0, <1>1 DEF WriterFindsFree, Writing, Value
  <1>3. ReaderFindsValue'
    BY <1>0, <1>1 DEF ReaderFindsValue, Reading
  <1>4. OccupiedDone' /\ GotDone'
    BY <1>1 DEF OccupiedDone, GotDone, Completed
  <1>5. OccupiedApart' /\ NoDuplicateDelivery'
    BY <1>1 DEF OccupiedApart, NoDuplicateDelivery
  <1>6. GotIsCleared'
    BY <1>0, <1>1 DEF GotIsCleared, At
  <1> QED
    BY <1>2, <1>3, <1>4, <1>5, <1>6

(* The value that pop moves out is in this occupied slot only, and would    *)
(* have been cleared if it had been handed out before.                      *)
LEMMA PopMoveKeepsLocks ==
  ASSUME OneEach, TypeOK, LockFacts, NEW c \in Consumers, PopMove(c)
  PROVE  LockFacts'
  <1> USE DEF LockFacts
  <1> DEFINE v == storage[cur[c]][index[c]]
  <1>0. /\ Producers \subseteq Threads /\ Consumers \subseteq Threads /\ c \notin Producers
        /\ cur[c] \in Chunks /\ index[c] \in Slots /\ got[c] \in Seq(Null(Items))
    BY QueueAssumption
       DEF Threads, TypeOK, LocalTypes, HistoryTypes, PointersValid, UsesSlot, PopMove, Goto
  <1>1. /\ UNCHANGED <<storage, occupied, sent, cur, index>>
        /\ pc[c] = "move" /\ pc'[c] = "destroy"
        /\ \A u \in Threads : u # c => pc'[u] = pc[u]
        /\ got'[c] = Append(got[c], v)
    BY <1>0 DEF PopMove, Goto, TypeOK, LocalTypes, HistoryTypes, slotVars
  <1>2. \A d \in Consumers : d = c
    BY DEF OneEach
  <1>3. occupied[cur[c]][index[c]]
    BY <1>1 DEF ReaderFindsValue, Reading
  <1>4. \A n \in DOMAIN got[c] : got[c][n] # v
    BY <1>0, <1>1, <1>3 DEF GotIsCleared
  <1>5. /\ Len(got[c]) \in Nat /\ DOMAIN got[c] = 1 .. Len(got[c])
        /\ DOMAIN got'[c] = 1 .. (Len(got[c]) + 1)
        /\ got'[c][Len(got[c]) + 1] = v
        /\ \A n \in DOMAIN got[c] : got'[c][n] = got[c][n]
    <2>1. v \in Null(Items)
      BY <1>0 DEF TypeOK, SharedTypes
    <2> HIDE DEF v
    <2> QED
      BY <1>0, <1>1, <2>1
  <1> HIDE DEF v
  <1>6. \A n \in DOMAIN got'[c] : n \in DOMAIN got[c] \/ n = Len(got[c]) + 1
    BY <1>5
  <1>7. WriterFindsFree'
    BY <1>0, <1>1 DEF WriterFindsFree, Writing, Value
  <1>8. ReaderFindsValue'
    BY <1>0, <1>1, <1>2, <1>3 DEF ReaderFindsValue, Reading
  <1>9. OccupiedDone'
    BY <1>1 DEF OccupiedDone, Completed
  <1>10. GotDone'
    <2>1. v \in Completed
      BY <1>0, <1>3 DEF OccupiedDone, v
    <2>2. Completed' = Completed
      BY <1>1 DEF Completed
    <2> QED
      BY <1>2, <1>5, <1>6, <2>1, <2>2 DEF GotDone
  <1>11. OccupiedApart'
    BY <1>1 DEF OccupiedApart
  <1>12. GotIsCleared'
    <2> SUFFICES ASSUME NEW k \in Chunks, NEW i \in Slots, NEW n \in DOMAIN got'[c],
                        occupied[k][i], got'[c][n] = storage[k][i]
                 PROVE  At(c, k, i)
      BY <1>1, <1>2 DEF GotIsCleared, At
    <2>1. CASE n \in DOMAIN got[c]
      BY <1>1, <1>5, <2>1 DEF GotIsCleared
    <2>2. CASE n = Len(got[c]) + 1
      BY <1>0, <1>3, <1>5, <2>2 DEF OccupiedApart, At, v
    <2> QED
      BY <1>6, <2>1, <2>2
  <1>13. NoDuplicateDelivery'
    <2> SUFFICES ASSUME NEW i \in DOMAIN got'[c], NEW j \in DOMAIN got'[c], got'[c][i] = got'[c][j]
                 PROVE  i = j
      BY <1>2 DEF NoDuplicateDelivery
    <2>1. CASE i \in DOMAIN got[c] /\ j \in DOMAIN got[c]
      BY <1>5, <2>1 DEF NoDuplicateDelivery
    <2>2. CASE i = Len(got[c]) + 1 /\ j = Len(got[c]) + 1
      BY <2>2
    <2>3. CASE i \in DOMAIN got[c] /\ j = Len(got[c]) + 1
      BY <1>4, <1>5, <2>3
    <2>4. CASE i = Len(got[c]) + 1 /\ j \in DOMAIN got[c]
      BY <1>4, <1>5, <2>4
    <2> QED
      BY <1>6, <2>1, <2>2, <2>3, <2>4
  <1> QED
    BY <1>7, <1>8, <1>9, <1>10, <1>11, <1>12, <1>13

(* The slot is freed, and the value that was handed out is in no other. *)
LEMMA PopDestroyKeepsLocks ==
  ASSUME OneEach, TypeOK, LockFacts, NEW c \in Consumers, PopDestroy(c)
  PROVE  LockFacts'
  <1> USE DEF LockFacts
  <1>0. /\ Producers \subseteq Threads /\ Consumers \subseteq Threads /\ c \notin Producers
        /\ cur[c] \in Chunks /\ index[c] \in Slots
    BY QueueAssumption DEF Threads, TypeOK, LocalTypes, PointersValid, UsesSlot, PopDestroy, Goto
  <1>1. /\ UNCHANGED <<storage, sent, got, cur, index>>
        /\ pc[c] = "destroy" /\ pc'[c] = "leave"
        /\ \A u \in Threads : u # c => pc'[u] = pc[u]
        /\ ~occupied'[cur[c]][index[c]]
        /\ \A k \in Chunks, i \in Slots : ~At(c, k, i) => occupied'[k][i] = occupied[k][i]
    BY <1>0 DEF PopDestroy, Goto, TypeOK, SharedTypes, LocalTypes, slotVars, histVars, At
  <1>2. \A d \in Consumers : d = c
    BY DEF OneEach
  <1>3. \A k \in Chunks, i \in Slots : occupied'[k][i] => occupied[k][i] /\ ~At(c, k, i)
    BY <1>1 DEF At
  <1>4. WriterFindsFree'
    <2> SUFFICES ASSUME NEW p \in Producers, Writing(p)
                 PROVE  ~occupied'[cur[p]][index[p]]
      BY <1>0, <1>1 DEF WriterFindsFree, Writing, Value
    <2>1. cur[p] \in Chunks /\ index[p] \in Slots
      BY <1>0 DEF Writing, TypeOK, LocalTypes, PointersValid, UsesSlot
    <2> QED
      BY <1>3, <2>1 DEF WriterFindsFree
  <1>5. ReaderFindsValue'
    BY <1>1, <1>2 DEF ReaderFindsValue, Reading
  <1>6. OccupiedDone' /\ GotDone'
    BY <1>1, <1>3 DEF OccupiedDone, GotDone, Completed
  <1>7. OccupiedApart'
    BY <1>1, <1>3 DEF OccupiedApart
  <1>8. GotIsCleared'
    BY <1>1, <1>2, <1>3 DEF GotIsCleared
  <1>9. NoDuplicateDelivery'
    BY <1>1 DEF NoDuplicateDelivery
  <1> QED
    BY <1>4, <1>5, <1>6, <1>7, <1>8, <1>9

LEMMA LockInit == Init => LockInv
  <1> SUFFICES ASSUME Init PROVE LockInv
    OBVIOUS
  <1>1. TypeOK
    BY TypeInit
  <1>2. /\ \A t \in Threads : pc[t] = "idle"
        /\ \A c \in Consumers : DOMAIN got[c] = {}
        /\ \A k \in Chunks, i \in Slots : ~occupied[k][i]
    BY DEF Init
  <1>3. Producers \subseteq Threads /\ Consumers \subseteq Threads
    BY DEF Threads
  <1>4. WriterFindsFree /\ ReaderFindsValue
    BY <1>2, <1>3 DEF WriterFindsFree, ReaderFindsValue, Writing, Reading
  <1>5. OccupiedDone /\ OccupiedApart /\ GotDone /\ GotIsCleared /\ NoDuplicateDelivery
    BY <1>2 DEF OccupiedDone, OccupiedApart, GotDone, GotIsCleared, NoDuplicateDelivery
  <1> QED
    BY <1>1, <1>4, <1>5 DEF LockInv, LockFacts

LEMMA LockStep == LockInv /\ [Next]_vars => LockInv'
  <1> SUFFICES ASSUME LockInv, [Next]_vars, OneEach PROVE LockFacts'
    BY TypeStep DEF LockInv, OneEach
  <1> USE DEF LockInv
  <1>0. Producers \subseteq Threads /\ Consumers \subseteq Threads
    BY DEF Threads
  <1>1. ASSUME NEW p \in Producers, PushStep(p) PROVE LockFacts'
    BY <1>0, <1>1, AsideKeepsLocks, PushesAside, PushCheckKeepsLocks, PushConstructKeepsLocks,
       PushPublishKeepsLocks DEF PushStep
  <1>2. ASSUME NEW c \in Consumers, PopStep(c) PROVE LockFacts'
    BY <1>0, <1>2, AsideKeepsLocks, PopsAside, PopWaitKeepsLocks, PopMoveKeepsLocks,
       PopDestroyKeepsLocks DEF PopStep
  <1>3. ASSUME NEW t \in Threads, ReleaseStep(t) PROVE LockFacts'
    BY <1>3, AsideKeepsLocks, ReleasesAside
  <1>4. CASE UNCHANGED vars
    <2>1. UNCHANGED <<storage, occupied, sent, got, pc, cur, index>>
      BY <1>4 DEF vars, slotVars, threadVars, histVars
    <2> USE DEF LockFacts
    <2>2. WriterFindsFree' /\ ReaderFindsValue'
      BY <2>1 DEF WriterFindsFree, ReaderFindsValue, Writing, Reading, Value
    <2>3. OccupiedDone' /\ GotDone'
      BY <2>1 DEF OccupiedDone, GotDone, Completed
    <2>4. OccupiedApart' /\ NoDuplicateDelivery' /\ GotIsCleared'
      BY <2>1 DEF OccupiedApart, NoDuplicateDelivery, GotIsCleared, At
    <2> QED
      BY <2>2, <2>3, <2>4
  <1> QED
    BY <1>1, <1>2, <1>3, <1>4 DEF Next

(* With one producer and one consumer no value is handed out twice, also    *)
(* when allocate_chunk recycles chunks while push and pop overlap: the      *)
(* occupied flags that a recycled chunk keeps are enough.                   *)
THEOREM NoDuplicatesInPair == Spec => [](OneEach => NoDuplicateDelivery)
  <1>1. LockInv => (OneEach => NoDuplicateDelivery)
    BY DEF LockInv, LockFacts
  <1> QED
    BY LockInit, LockStep, <1>1, PTL DEF Spec

-----------------------------------------------------------------------------
(***************************************************************************)
(* What a list holds.  Reach(nx, c) is the least set with c that is closed *)
(* under nx; NULL ends a list.  The lemmas say how it changes when a chunk *)
(* is taken off the front, put in front or linked at the end, each by      *)
(* showing that the set in question is closed.                             *)
(***************************************************************************)

Links == [Chunks -> Null(Chunks)]

Closed(nx, c, S) == c \in Null(S) /\ \A e \in S : nx[e] \in Null(S)

Reach(nx, c) == {d \in Chunks : \A S \in SUBSET Chunks : Closed(nx, c, S) => d \in S}

LEMMA ChainIsReach ==
  ASSUME NEW c
  PROVE  Chain(c) = Reach(next, c)
  BY DEF Chain, Reach, Closed

LEMMA ReachLeast ==
  ASSUME NEW nx, NEW c, NEW S \in SUBSET Chunks, Closed(nx, c, S)
  PROVE  Reach(nx, c) \subseteq S
  BY DEF Reach

LEMMA ReachClosed ==
  ASSUME NEW nx \in Links, NEW c \in Null(Chunks)
  PROVE  Reach(nx, c) \in SUBSET Chunks /\ Closed(nx, c, Reach(nx, c))
  <1>1. Reach(nx, c) \in SUBSET Chunks
    BY DEF Reach
  <1>2. c \in Null(Reach(nx, c))
    <2>1. ASSUME c # NULL PROVE c \in Reach(nx, c)
      BY <2>1 DEF Reach, Closed, Null
    <2> QED
      BY <2>1 DEF Null
  <1>3. ASSUME NEW e \in Reach(nx, c) PROVE nx[e] \in Null(Reach(nx, c))
    <2>1. e \in Chunks /\ nx[e] \in Null(Chunks)
      BY <1>1 DEF Links
    <2>2. ASSUME nx[e] # NULL, NEW S \in SUBSET Chunks, Closed(nx, c, S) PROVE nx[e] \in S
      <3>1. e \in S
        BY <2>2 DEF Reach
      <3> QED
        BY <2>2, <3>1 DEF Closed, Null
    <2> QED
      BY <2>1, <2>2 DEF Reach, Null
  <1> QED
    BY <1>1, <1>2, <1>3 DEF Closed

LEMMA ReachNull ==
  ASSUME NEW nx
  PROVE  Reach(nx, NULL) = {}
  <1>1. Closed(nx, NULL, {})
    BY DEF Closed, Null
  <1> QED
    BY <1>1, ReachLeast

(* Changing next outside a list leaves the list. *)
LEMMA ReachKeeps ==
  ASSUME NEW nx \in Links, NEW mx \in Links, NEW c \in Null(Chunks),
         \A e \in Reach(nx, c) : mx[e] = nx[e]
  PROVE  Reach(mx, c) = Reach(nx, c)
  <1> DEFINE R == Reach(nx, c)
             M == Reach(mx, c)
  <1>1. R \in SUBSET Chunks /\ Closed(nx, c, R) /\ M \in SUBSET Chunks /\ Closed(mx, c, M)
    BY ReachClosed
  <1>2. \A e \in R : mx[e] = nx[e]
    OBVIOUS
  <1>3. \A S \in SUBSET Chunks : (Closed(nx, c, S) => R \subseteq S) /\ (Closed(mx, c, S) => M \subseteq S)
    BY ReachLeast
  <1> HIDE DEF R, M
  <1>4. Closed(mx, c, R)
    BY <1>1, <1>2 DEF Closed
  <1>5. Closed(nx, c, M \cap R) /\ M \cap R \in SUBSET Chunks
    BY <1>1, <1>2 DEF Closed, Null
  <1>6. M = R
    BY <1>1, <1>3, <1>4, <1>5
  <1> QED
    BY <1>6 DEF R, M

(* A list is its first chunk and the list of its successor. *)
LEMMA ReachCons ==
  ASSUME NEW nx \in Links, NEW s \in Chunks
  PROVE  Reach(nx, s) = {s} \cup Reach(nx, nx[s])
  <1> DEFINE R == Reach(nx, s)
             T == Reach(nx, nx[s])
  <1>1. R \in SUBSET Chunks /\ Closed(nx, s, R) /\ T \in SUBSET Chunks /\ Closed(nx, nx[s], T)
    BY ReachClosed DEF Links, Null
  <1>2. \A S \in SUBSET Chunks : (Closed(nx, s, S) => R \subseteq S) /\ (Closed(nx, nx[s], S) => T \subseteq S)
    BY ReachLeast
  <1> HIDE DEF R, T
  <1>3. s # NULL
    BY QueueAssumption
  <1>4. Closed(nx, s, {s} \cup T) /\ {s} \cup T \in SUBSET Chunks
    BY <1>1 DEF Closed, Null
  <1>5. Closed(nx, nx[s], R) /\ s \in R
    BY <1>1, <1>3 DEF Closed, Null
  <1>6. R = {s} \cup T
    BY <1>1, <1>2, <1>4, <1>5
  <1> QED
    BY <1>6 DEF R, T

(* Taking the first chunk off a list to which nothing leads back. *)
LEMMA ReachTail ==
  ASSUME NEW nx \in Links, NEW c \in Chunks, \A e \in Reach(nx, c) : nx[e] # c
  PROVE  Reach(nx, nx[c]) = Reach(nx, c) \ {c}
  <1> DEFINE R == Reach(nx, c)
             T == Reach(nx, nx[c])
  <1>1. R \in SUBSET Chunks /\ Closed(nx, c, R)
    BY ReachClosed DEF Null
  <1>2. R = {c} \cup T
    BY ReachCons
  <1>3. \A S \in SUBSET Chunks : Closed(nx, nx[c], S) => T \subseteq S
    BY ReachLeast
  <1>4. \A e \in R : nx[e] # c
    OBVIOUS
  <1> HIDE DEF R, T
  <1>5. Closed(nx, nx[c], R \ {c}) /\ R \ {c} \in SUBSET Chunks
    BY <1>1, <1>2, <1>4 DEF Closed, Null
  <1>6. T = R \ {c}
    BY <1>2, <1>3, <1>5
  <1> QED
    BY <1>6 DEF R, T

(* Linking a chunk s without successor after the last chunk l of a list. *)
LEMMA ReachAppend ==
  ASSUME NEW nx \in Links, NEW mx \in Links, NEW c \in Null(Chunks), NEW s \in Chunks,
         NEW l \in Reach(nx, c), nx[l] = NULL, mx[l] = s, mx[s] = NULL,
         \A e \in Chunks : e # l => mx[e] = nx[e]
  PROVE  Reach(mx, c) = Reach(nx, c) \cup {s}
  <1> DEFINE R == Reach(nx, c)
             M == Reach(mx, c)
  <1>1. R \in SUBSET Chunks /\ Closed(nx, c, R) /\ M \in SUBSET Chunks /\ Closed(mx, c, M)
    BY ReachClosed
  <1>2. l \in R
    OBVIOUS
  <1>3. \A S \in SUBSET Chunks : (Closed(nx, c, S) => R \subseteq S) /\ (Closed(mx, c, S) => M \subseteq S)
    BY ReachLeast
  <1> HIDE DEF R, M
  <1>4. Closed(mx, c, R \cup {s}) /\ R \cup {s} \in SUBSET Chunks
    BY <1>1 DEF Closed, Null
  <1>5. Closed(nx, c, M \cap R) /\ M \cap R \in SUBSET Chunks
    BY <1>1 DEF Closed, Null
  <1>6. R \subseteq M /\ M \subseteq R \cup {s}
    BY <1>3, <1>4, <1>5
  <1>7. s \in M
    <2>1. s \in Null(M) /\ s # NULL
      BY <1>1, <1>2, <1>6, QueueAssumption DEF Closed
    <2> QED
      BY <2>1 DEF Null
  <1>8. M = R \cup {s}
    BY <1>6, <1>7
  <1> QED
    BY <1>8 DEF R, M

-----------------------------------------------------------------------------
(***************************************************************************)
(* Where the chunks are.  Every chunk that operator new has returned is in *)
(* one of four places: L, the list from head_chunk; F, the free list; N,   *)
(* in the hands of the push that will link it; H, in the hands of the pop  *)
(* that has left it and will release it.                                   *)
(***************************************************************************)

InPush == {spare[p] : p \in {q \in Producers : pc[q] \in {"reset", "link"}}}

Leaves(c) == pc[c] = "retire" \/ (pc[c] \in {"try", "unretire"} /\ retired[cur[c]])

InPop ==
  {cur[c] : c \in {d \in Consumers : Leaves(d)}}
  \cup {spare[c] : c \in {d \in Consumers : pc[d] \in Releases}}

Apart(L, F, N, H) ==
  /\ allocated = L \cup F \cup N \cup H
  /\ L \cap F = {} /\ N \cap (L \cup F) = {} /\ H \cap (L \cup F \cup N) = {}

(* S is the list from h, none of its chunks is followed by h, and no two    *)
(* have the same successor.                                                 *)
IsList(S, nx, h) ==
  /\ S = Reach(nx, h)
  /\ \A e \in S : nx[e] # h
  /\ \A d, e \in S : nx[d] = nx[e] /\ nx[d] # NULL => d = e

HasEnd(S, nx, h) == h = NULL \/ \E e \in S : nx[e] = NULL

(* The list from head_chunk ends where the producer works, or will work     *)
(* once it has moved tail_chunk on.                                         *)
Tip(L) ==
  \E l \in L : next[l] = NULL /\ \A p \in Producers :
    l = IF pc[p] = "swing" THEN spare[p] ELSE tail_chunk

OnTail == {"claim", "check", "construct", "publish", "alloc", "alloc_next", "alloc_cas",
           "reset", "new", "link"}

PushPlace(F, p) ==
  /\ pc[p] \in OnTail => cur[p] = tail_chunk
  /\ pc[p] \in {"alloc_next", "alloc_cas"} => spare[p] \in F
  /\ pc[p] = "alloc_cas" => nxt[p] = next[spare[p]]
  /\ pc[p] = "link" => next[spare[p]] = NULL
  /\ pc[p] \notin Releases \cup {"follow"}

OnHead == {"index", "limit", "next", "advance", "take", "enter", "wait", "move",
           "destroy", "leave"}

PopPlace(c) ==
  /\ pc[c] \in OnHead => cur[c] = head_chunk
  /\ pc[c] = "advance" => nxt[c] = next[head_chunk]
  /\ pc[c] = "rel_cas" => next[spare[c]] = old[c]

Entered(c) == pc[c] \in {"wait", "move", "destroy", "leave"}

(* Flags and counters are at rest but where the consumer is. *)
FreshIsClear == \A k \in Chunks : k \notin allocated => next[k] = NULL

RetiredIsHeld ==
  \A k \in Chunks : retired[k] =>
    \E c \in Consumers : cur[c] = k /\ pc[c] \in {"try", "unretire"}

ReadersCounted ==
  \A k \in Chunks :
    active_readers[k] = IF \E c \in Consumers : cur[c] = k /\ Entered(c) THEN 1 ELSE 0

ListFacts(L, F) ==
  /\ IsList(L, next, head_chunk) /\ IsList(F, next, free_list)
  /\ HasEnd(F, next, free_list)

PushFacts(L, F, N) ==
  N = InPush /\ Tip(L) /\ \A p \in Producers : PushPlace(F, p)

PopFacts(H) ==
  /\ H = InPop /\ RetiredIsHeld /\ ReadersCounted
  /\ \A c \in Consumers : PopPlace(c)

PlaceFacts(L, F, N, H) ==
  Apart(L, F, N, H) /\ FreshIsClear /\ ListFacts(L, F) /\ PushFacts(L, F, N) /\ PopFacts(H)

PlaceInv ==
  TypeOK /\ (OneEach => \E L, F, N, H \in SUBSET Chunks : PlaceFacts(L, F, N, H))

(* The facts give the two properties. *)
LEMMA PlacesGiveNoUseAfterRelease ==
  ASSUME TypeOK, NEW L \in SUBSET Chunks, NEW F \in SUBSET Chunks, NEW N \in SUBSET Chunks,
         NEW H \in SUBSET Chunks, PlaceFacts(L, F, N, H)
  PROVE  NoUseAfterRelease
  <1> USE DEF PlaceFacts
  <1>1. Chain(free_list) = F /\ L = Reach(next, head_chunk)
    BY ChainIsReach DEF ListFacts, IsList
  <1>2. head_chunk \in L
    <2>1. head_chunk \in Null(L) /\ head_chunk \in Chunks
      BY <1>1, ReachClosed DEF TypeOK, SharedTypes, Closed, Links, Null
    <2> QED
      BY <2>1, QueueAssumption DEF Null
  <1>3. ASSUME NEW t \in Threads, Uses(t) PROVE cur[t] \in L
    <2>1. CASE t \in Producers
      <3>1. pc[t] \in OnTail /\ pc[t] # "swing"
        BY <1>3, <2>1 DEF Uses, OnTail, TypeOK, LocalTypes, ProducerOnly, Shared
      <3>2. cur[t] = tail_chunk
        BY <2>1, <3>1 DEF PushFacts, PushPlace
      <3>3. tail_chunk \in L
        BY <2>1, <3>1 DEF PushFacts, Tip
      <3> QED
        BY <3>2, <3>3
    <2>2. CASE t \in Consumers
      <3>1. pc[t] \in OnHead
        BY <1>3, <2>2 DEF Uses, OnHead, TypeOK, LocalTypes, ConsumerOnly, Shared
      <3> QED
        BY <1>2, <2>2, <3>1 DEF PopFacts, PopPlace
    <2> QED
      BY <2>1, <2>2 DEF Threads
  <1>4. ASSUME NEW p \in Producers, pc[p] \in {"reset", "link"} PROVE spare[p] \in N
    BY <1>4 DEF PushFacts, InPush
  <1> QED
    BY <1>1, <1>3, <1>4 DEF NoUseAfterRelease, Apart

LEMMA PlacesGiveOneFree ==
  ASSUME TypeOK, NEW L \in SUBSET Chunks, NEW F \in SUBSET Chunks, NEW N \in SUBSET Chunks,
         NEW H \in SUBSET Chunks, PlaceFacts(L, F, N, H)
  PROVE  DestructorFreesEachChunkOnce
  <1> USE DEF PlaceFacts
  <1> SUFFICES ASSUME Quiescent
               PROVE  /\ Ends(head_chunk) /\ Ends(free_list)
                      /\ Chain(head_chunk) \cap Chain(free_list) = {}
                      /\ Chain(head_chunk) \cup Chain(free_list) = allocated
    BY DEF DestructorFreesEachChunkOnce
  <1>1. Chain(head_chunk) = L /\ Chain(free_list) = F
    BY ChainIsReach DEF ListFacts, IsList
  <1>2. N = {} /\ H = {}
    BY DEF PushFacts, PopFacts, InPush, InPop, Leaves, Releases, Quiescent, Threads
  <1>3. Ends(head_chunk)
    BY <1>1 DEF PushFacts, Tip, Ends
  <1>4. Ends(free_list)
    BY <1>1 DEF ListFacts, HasEnd, Ends
  <1> QED
    BY <1>1, <1>2, <1>3, <1>4 DEF Apart

-----------------------------------------------------------------------------
(* What a step of one thread leaves alone. *)

(* Only thread t takes a step. *)
OnlySteps(t) ==
  \A u \in Threads : u # t =>
    /\ pc'[u] = pc[u] /\ cur'[u] = cur[u] /\ nxt'[u] = nxt[u]
    /\ spare'[u] = spare[u] /\ old'[u] = old[u]

LEMMA InPushIs ==
  ASSUME OneEach, NEW p \in Producers
  PROVE  InPush = IF pc[p] \in {"reset", "link"} THEN {spare[p]} ELSE {}
  <1>1. \A q \in Producers : q = p
    BY DEF OneEach
  <1> QED
    BY <1>1 DEF InPush

(* Lists stay when next stays on them. *)
LEMMA ListStays ==
  ASSUME NEW S \in SUBSET Chunks, NEW nx \in Links, NEW mx \in Links, NEW h \in Null(Chunks),
         IsList(S, nx, h), \A e \in S : mx[e] = nx[e]
  PROVE  IsList(S, mx, h) /\ (HasEnd(S, nx, h) => HasEnd(S, mx, h))
  <1>1. Reach(mx, h) = Reach(nx, h)
    BY ReachKeeps DEF IsList
  <1> QED
    BY <1>1 DEF IsList, HasEnd

(* A step of the producer does not disturb what the consumer knows, if it   *)
(* changes next only where the consumer does not look.                      *)
LEMMA PushKeepsPopFacts ==
  ASSUME TypeOK, NEW L \in SUBSET Chunks, NEW F \in SUBSET Chunks, NEW N \in SUBSET Chunks,
         NEW H \in SUBSET Chunks, PlaceFacts(L, F, N, H),
         NEW p \in Producers, OnlySteps(p),
         UNCHANGED <<head_chunk, retired, active_readers>>,
         \A k \in Chunks : k \in H \/ (k \in L /\ next[k] # NULL) => next'[k] = next[k]
  PROVE  PopFacts(H)'
  <1>0. \A c \in Consumers : c \in Threads /\ c # p
    BY QueueAssumption DEF Threads
  <1>1. \A c \in Consumers :
          /\ pc'[c] = pc[c] /\ cur'[c] = cur[c] /\ nxt'[c] = nxt[c]
          /\ spare'[c] = spare[c] /\ old'[c] = old[c]
    BY <1>0 DEF OnlySteps
  <1>2. InPop' = InPop
    BY <1>1 DEF InPop, Leaves
  <1>3. RetiredIsHeld' /\ ReadersCounted'
    BY <1>1 DEF PlaceFacts, PopFacts, RetiredIsHeld, ReadersCounted, Entered
  <1>4. ASSUME NEW c \in Consumers PROVE PopPlace(c)'
    <2>0. PopPlace(c) /\ H = InPop
      BY DEF PlaceFacts, PopFacts
    <2>1. head_chunk \in L /\ head_chunk \in Chunks
      <3>1. head_chunk \in Null(L) /\ head_chunk \in Chunks
        BY ReachClosed DEF PlaceFacts, ListFacts, IsList, TypeOK, SharedTypes, Closed, Links, Null
      <3> QED
        BY <3>1, QueueAssumption DEF Null
    <2>2. pc[c] = "advance" => next'[head_chunk] = next[head_chunk]
      <3>1. pc[c] = "advance" => nxt[c] \in Chunks
        BY <1>0 DEF TypeOK, PointersValid
      <3> QED
        BY <2>0, <2>1, <3>1, QueueAssumption DEF PopPlace
    <2>3. pc[c] = "rel_cas" => next'[spare[c]] = next[spare[c]]
      <3>1. pc[c] = "rel_cas" => spare[c] \in Chunks /\ spare[c] \in H
        BY <1>0, <2>0 DEF TypeOK, PointersValid, UsesSpare, Releases, InPop
      <3> QED
        BY <3>1
    <2> QED
      BY <1>1, <2>0, <2>2, <2>3 DEF PopPlace
  <1> QED
    BY <1>2, <1>3, <1>4 DEF PlaceFacts, PopFacts

(* A step of the consumer does not disturb what the producer knows. *)
LEMMA PopKeepsPushFacts ==
  ASSUME TypeOK, NEW L \in SUBSET Chunks, NEW F \in SUBSET Chunks, NEW N \in SUBSET Chunks,
         NEW H \in SUBSET Chunks, PlaceFacts(L, F, N, H),
         NEW K \in SUBSET Chunks, NEW G \in SUBSET Chunks, F \subseteq G,
         \A k \in L : next[k] = NULL => k \in K,
         NEW c \in Consumers, OnlySteps(c), UNCHANGED tail_chunk,
         \A k \in L \cup F \cup N : next'[k] = next[k]
  PROVE  PushFacts(K, G, N)'
  <1>0. \A p \in Producers : p \in Threads /\ p # c
    BY QueueAssumption DEF Threads
  <1>1. \A p \in Producers :
          /\ pc'[p] = pc[p] /\ cur'[p] = cur[p] /\ nxt'[p] = nxt[p]
          /\ spare'[p] = spare[p] /\ old'[p] = old[p]
    BY <1>0 DEF OnlySteps
  <1>2. InPush' = InPush
    BY <1>1 DEF InPush
  <1>3. Tip(K)'
    BY <1>1 DEF PlaceFacts, PushFacts, Tip
  <1>4. ASSUME NEW p \in Producers PROVE PushPlace(G, p)'
    <2>1. PushPlace(F, p) /\ N = InPush
      BY DEF PlaceFacts, PushFacts
    <2>2. pc[p] = "link" => spare[p] \in N
      BY <2>1 DEF InPush
    <2> QED
      BY <1>1, <2>1, <2>2 DEF PushPlace
  <1> QED
    BY <1>2, <1>3, <1>4 DEF PlaceFacts, PushFacts

-----------------------------------------------------------------------------
(* The steps of the producer. *)

(* A step that moves no chunk and ends where the producer knows its way. *)
LEMMA PushQuietKeepsPlaces ==
  ASSUME OneEach, TypeOK, NEW L \in SUBSET Chunks, NEW F \in SUBSET Chunks,
         NEW N \in SUBSET Chunks, NEW H \in SUBSET Chunks, PlaceFacts(L, F, N, H),
         NEW p \in Producers, OnlySteps(p),
         UNCHANGED <<head_chunk, tail_chunk, free_list, next, retired, allocated, active_readers>>,
         pc[p] \notin {"reset", "link", "swing"}, pc'[p] \notin {"reset", "link", "swing"},
         PushPlace(F, p)'
  PROVE  PlaceFacts(L, F, N, H)'
  <1>1. Apart(L, F, N, H)' /\ FreshIsClear' /\ ListFacts(L, F)'
    BY DEF PlaceFacts, Apart, FreshIsClear, ListFacts
  <1>2. PopFacts(H)'
    BY PushKeepsPopFacts
  <1>3. PushFacts(L, F, N)'
    <2>0. \A q \in Producers : q = p
      BY DEF OneEach
    <2>1. N = {} /\ InPush' = {}
      BY <2>0 DEF PlaceFacts, PushFacts, InPush
    <2>2. Tip(L)'
      BY <2>0 DEF PlaceFacts, PushFacts, Tip
    <2> QED
      BY <2>0, <2>1, <2>2 DEF PushFacts
  <1> QED
    BY <1>1, <1>2, <1>3 DEF PlaceFacts

LEMMA PushOnlySteps ==
  ASSUME TypeOK, NEW p \in Producers, PushStep(p)
  PROVE  OnlySteps(p)
  <1> USE DEF TypeOK, LocalTypes, Threads, OnlySteps, Goto
  <1>1. CASE PushLoadTail(p) \/ PushClaim(p) \/ PushCheck(p) \/ PushConstruct(p) \/ PushPublish(p)
    BY <1>1 DEF PushLoadTail, PushClaim, PushCheck, PushConstruct, PushPublish
  <1>2. CASE AllocLoad(p) \/ AllocNext(p) \/ AllocCas(p)
    BY <1>2 DEF AllocLoad, AllocNext, AllocCas, AfterAlloc
  <1>3. CASE AllocReset(p) \/ AllocNew(p)
    BY <1>3 DEF AllocReset, AllocNew
  <1>4. CASE PushLink(p)
    BY <1>4 DEF PushLink
  <1>5. CASE PushSwing(p) \/ PushFollow(p)
    BY <1>5 DEF PushSwing, PushFollow
  <1> QED
    BY <1>1, <1>2, <1>3, <1>4, <1>5 DEF PushStep

(* The head of the free list is in it. *)
LEMMA ListHolds ==
  ASSUME TypeOK, NEW L \in SUBSET Chunks, NEW F \in SUBSET Chunks, ListFacts(L, F)
  PROVE  head_chunk \in L /\ free_list \in Null(F)
  <1>1. head_chunk \in Null(L) /\ head_chunk \in Chunks /\ free_list \in Null(F)
    BY ReachClosed DEF ListFacts, IsList, TypeOK, SharedTypes, Closed, Links, Null
  <1> QED
    BY <1>1, QueueAssumption DEF Null

LEMMA PushQuietSteps ==
  ASSUME OneEach, TypeOK, NEW L \in SUBSET Chunks, NEW F \in SUBSET Chunks,
         NEW N \in SUBSET Chunks, NEW H \in SUBSET Chunks, PlaceFacts(L, F, N, H),
         NEW p \in Producers, PushStep(p),
         \/ PushLoadTail(p) \/ PushClaim(p) \/ PushCheck(p) \/ PushConstruct(p)
         \/ PushPublish(p) \/ AllocLoad(p) \/ AllocNext(p)
         \/ AllocCas(p) /\ pc'[p] # "reset"
  PROVE  PlaceFacts(L, F, N, H)'
  <1>0. PushPlace(F, p) /\ OnlySteps(p) /\ p \in Threads /\ free_list \in Null(F)
    BY PushOnlySteps, ListHolds DEF PlaceFacts, PushFacts, Threads
  <1> USE DEF TypeOK, LocalTypes, Goto, chainVars, slotVars, PushPlace, OnTail, Releases
  <1> DEFINE Quiet ==
        /\ UNCHANGED <<head_chunk, tail_chunk, free_list, next, retired, allocated, active_readers>>
        /\ pc[p] \notin {"reset", "link", "swing"} /\ pc'[p] \notin {"reset", "link", "swing"}
        /\ PushPlace(F, p)'
  <1>1. CASE PushLoadTail(p)
    <2>1. Quiet
      BY <1>0, <1>1 DEF PushLoadTail
    <2> QED
      BY <1>0, <2>1, PushQuietKeepsPlaces
  <1>2. CASE PushClaim(p)
    <2>1. Quiet
      BY <1>0, <1>2 DEF PushClaim
    <2> QED
      BY <1>0, <2>1, PushQuietKeepsPlaces
  <1>3. CASE PushCheck(p)
    <2>1. Quiet
      BY <1>0, <1>3 DEF PushCheck
    <2> QED
      BY <1>0, <2>1, PushQuietKeepsPlaces
  <1>4. CASE PushConstruct(p)
    <2>1. Quiet
      BY <1>0, <1>4 DEF PushConstruct
    <2> QED
      BY <1>0, <2>1, PushQuietKeepsPlaces
  <1>5. CASE PushPublish(p)
    <2>1. Quiet
      BY <1>0, <1>5 DEF PushPublish
    <2> QED
      BY <1>0, <2>1, PushQuietKeepsPlaces
  <1>6. CASE AllocLoad(p)
    <2>1. Quiet
      BY <1>0, <1>6 DEF AllocLoad, AfterAlloc, Null
    <2> QED
      BY <1>0, <2>1, PushQuietKeepsPlaces
  <1>7. CASE AllocNext(p)
    <2>1. Quiet
      BY <1>0, <1>7 DEF AllocNext
    <2> QED
      BY <1>0, <2>1, PushQuietKeepsPlaces
  <1>8. CASE AllocCas(p) /\ pc'[p] # "reset"
    <2>1. Quiet
      BY <1>0, <1>8 DEF AllocCas, AfterAlloc, Null
    <2> QED
      BY <1>0, <2>1, PushQuietKeepsPlaces
  <1> QED
    BY <1>1, <1>2, <1>3, <1>4, <1>5, <1>6, <1>7, <1>8

(* The chunk that the CAS takes off the free list goes to the producer. *)
LEMMA AllocCasKeepsPlaces ==
  ASSUME OneEach, TypeOK, NEW L \in SUBSET Chunks, NEW F \in SUBSET Chunks,
         NEW N \in SUBSET Chunks, NEW H \in SUBSET Chunks, PlaceFacts(L, F, N, H),
         NEW p \in Producers, PushStep(p), AllocCas(p), pc'[p] = "reset"
  PROVE  \E G, M \in SUBSET Chunks : PlaceFacts(L, G, M, H)'
  <1>a. PICK s \in Chunks : s = spare[p]
    BY DEF AllocCas, Goto, TypeOK, PointersValid, UsesSpare, Threads
  <1> DEFINE G == F \ {s}
  <1>0. /\ p \in Threads /\ OnlySteps(p) /\ PushPlace(F, p)
        /\ next \in Links /\ NULL \notin Chunks
    BY PushOnlySteps, QueueAssumption
       DEF PlaceFacts, PushFacts, Threads, TypeOK, SharedTypes, Links
  <1>1. /\ free_list = s /\ pc[p] = "alloc_cas" /\ free_list' = nxt[p]
        /\ UNCHANGED <<head_chunk, tail_chunk, next, retired, allocated, active_readers, cur, spare>>
    BY <1>a, <1>0 DEF AllocCas, Goto, AfterAlloc, slotVars, TypeOK, LocalTypes
  <1>2. s \in F /\ s \in Chunks /\ free_list' = next[s] /\ cur[p] = tail_chunk
    BY <1>a, <1>0, <1>1 DEF PushPlace, OnTail
  <1>3. IsList(F, next, s) /\ HasEnd(F, next, s) /\ IsList(L, next, head_chunk)
    BY <1>1 DEF PlaceFacts, ListFacts
  <1>4. G = Reach(next, next[s])
    BY <1>0, <1>2, <1>3, ReachTail DEF IsList
  <1>5. IsList(G, next, next[s]) /\ HasEnd(G, next, next[s])
    <2>1. next[s] = NULL => G = {}
      BY <1>4, ReachNull
    <2>2. /\ \A e \in G : e \in F /\ e # s
          /\ \A d, e \in F : next[d] = next[e] /\ next[d] # NULL => d = e
      BY <1>3 DEF IsList
    <2>3. \A e \in G : next[e] # next[s]
      BY <1>2, <2>1, <2>2
    <2>4. HasEnd(G, next, next[s])
      BY <1>0, <1>2, <1>3 DEF HasEnd
    <2> QED
      BY <1>4, <2>2, <2>3, <2>4 DEF IsList
  <1>6. N = {} /\ InPush' = {s}
    <2>0. \A q \in Producers : q = p
      BY DEF OneEach
    <2> QED
      BY <1>a, <1>1, <2>0 DEF PlaceFacts, PushFacts, InPush
  <1>7. Apart(L, G, {s}, H)' /\ FreshIsClear' /\ ListFacts(L, G)'
    <2>1. Apart(L, G, {s}, H)'
      BY <1>1, <1>2, <1>6 DEF PlaceFacts, Apart
    <2> QED
      BY <1>1, <1>2, <1>3, <1>5, <2>1 DEF PlaceFacts, FreshIsClear, ListFacts
  <1>8. PopFacts(H)'
    BY <1>0, <1>1, PushKeepsPopFacts
  <1>9. PushFacts(L, G, {s})'
    <2>0. \A q \in Producers : q = p
      BY DEF OneEach
    <2>1. Tip(L)'
      BY <1>1, <2>0 DEF PlaceFacts, PushFacts, Tip
    <2>2. PushPlace(G, p)'
      BY <1>1, <1>2 DEF PushPlace, Releases
    <2> QED
      BY <1>6, <2>0, <2>1, <2>2 DEF PushFacts
  <1>10. PlaceFacts(L, G, {s}, H)'
    BY <1>7, <1>8, <1>9 DEF PlaceFacts
  <1> QED
    BY <1>2, <1>10

(* The five stores write to a chunk that the consumer does not look at. *)
LEMMA AllocResetKeepsPlaces ==
  ASSUME OneEach, TypeOK, NEW L \in SUBSET Chunks, NEW F \in SUBSET Chunks,
         NEW N \in SUBSET Chunks, NEW H \in SUBSET Chunks, PlaceFacts(L, F, N, H),
         NEW p \in Producers, PushStep(p), AllocReset(p)
  PROVE  PlaceFacts(L, F, N, H)'
  <1> DEFINE s == spare[p]
  <1>0. /\ p \in Threads /\ OnlySteps(p) /\ PushPlace(F, p) /\ head_chunk \in L
        /\ next \in Links /\ NULL \notin Chunks
        /\ retired \in [Chunks -> BOOLEAN] /\ active_readers \in [Chunks -> Int]
    BY PushOnlySteps, ListHolds, QueueAssumption
       DEF PlaceFacts, PushFacts, Threads, TypeOK, SharedTypes, Links
  <1>1. /\ pc[p] = "reset" /\ pc'[p] = "link" /\ next' = [next EXCEPT ![s] = NULL]
        /\ active_readers' = [active_readers EXCEPT ![s] = 0]
        /\ retired' = [retired EXCEPT ![s] = FALSE]
        /\ UNCHANGED <<head_chunk, tail_chunk, free_list, allocated, cur, spare>>
    BY <1>0 DEF AllocReset, Goto, TypeOK, LocalTypes
  <1>2. N = {s} /\ InPush' = {s}
    BY <1>1, InPushIs DEF PlaceFacts, PushFacts, InPush, OneEach
  <1>3. s \in Chunks /\ s \notin L /\ s \notin F /\ s \notin H
    BY <1>2 DEF PlaceFacts, Apart
  <1> HIDE DEF s
  <1>4. next' \in Links /\ next'[s] = NULL /\ \A k \in Chunks : k # s => next'[k] = next[k]
    BY <1>0, <1>1, <1>3 DEF Links, Null
  <1>5. retired' = retired
    <2>1. ASSUME retired[s] PROVE FALSE
      <3>1. PICK c \in Consumers : cur[c] = s /\ pc[c] \in {"try", "unretire"}
        BY <1>3, <2>1 DEF PlaceFacts, PopFacts, RetiredIsHeld
      <3>2. s \in H
        BY <2>1, <3>1 DEF PlaceFacts, PopFacts, InPop, Leaves
      <3> QED
        BY <1>3, <3>2
    <2> QED
      BY <1>0, <1>1, <1>3, <2>1
  <1>6. active_readers' = active_readers
    <2>1. ASSUME NEW c \in Consumers, cur[c] = s, Entered(c) PROVE FALSE
      <3>1. cur[c] = head_chunk
        BY <2>1 DEF PlaceFacts, PopFacts, PopPlace, OnHead, Entered
      <3> QED
        BY <1>0, <1>3, <2>1, <3>1
    <2>2. active_readers[s] = 0
      BY <1>3, <2>1 DEF PlaceFacts, PopFacts, ReadersCounted
    <2> QED
      BY <1>0, <1>1, <1>3, <2>2
  <1>7. Apart(L, F, N, H)' /\ FreshIsClear'
    BY <1>1, <1>4 DEF PlaceFacts, Apart, FreshIsClear
  <1>8. ListFacts(L, F)'
    <2>1. head_chunk \in Null(Chunks) /\ free_list \in Null(Chunks)
      BY DEF TypeOK, SharedTypes, Null
    <2>2. \A e \in L \cup F : next'[e] = next[e]
      BY <1>3, <1>4
    <2> QED
      BY <1>0, <1>1, <1>4, <2>1, <2>2, ListStays DEF PlaceFacts, ListFacts
  <1>9. PopFacts(H)'
    BY <1>0, <1>1, <1>3, <1>4, <1>5, <1>6, PushKeepsPopFacts
  <1>10. PushFacts(L, F, N)'
    <2>0. \A q \in Producers : q = p
      BY DEF OneEach
    <2>1. Tip(L)'
      BY <1>1, <1>3, <1>4, <2>0 DEF PlaceFacts, PushFacts, Tip
    <2>2. PushPlace(F, p)'
      BY <1>0, <1>1, <1>4 DEF PushPlace, Releases, OnTail, s
    <2> QED
      BY <1>2, <2>0, <2>1, <2>2 DEF PushFacts
  <1> QED
    BY <1>7, <1>8, <1>9, <1>10 DEF PlaceFacts

LEMMA AllocNewKeepsPlaces ==
  ASSUME OneEach, TypeOK, NEW L \in SUBSET Chunks, NEW F \in SUBSET Chunks,
         NEW N \in SUBSET Chunks, NEW H \in SUBSET Chunks, PlaceFacts(L, F, N, H),
         NEW p \in Producers, PushStep(p), AllocNew(p)
  PROVE  \E M \in SUBSET Chunks : PlaceFacts(L, F, M, H)'
  <1>a. PICK s \in Chunks : s = Fresh(allocated) /\ s \notin allocated
    BY FreshIsNew DEF AllocNew, TypeOK, SharedTypes
  <1>0. p \in Threads /\ OnlySteps(p) /\ PushPlace(F, p)
    BY PushOnlySteps DEF PlaceFacts, PushFacts, Threads
  <1>2. /\ pc[p] = "new" /\ pc'[p] = "link" /\ spare'[p] = s /\ allocated' = allocated \cup {s}
        /\ UNCHANGED <<head_chunk, tail_chunk, free_list, next, retired, active_readers, cur>>
    BY <1>a, <1>0 DEF AllocNew, Goto, slotVars, TypeOK, LocalTypes
  <1>3. N = {} /\ InPush' = {s}
    <2>0. \A q \in Producers : q = p
      BY DEF OneEach
    <2> QED
      BY <1>2, <2>0 DEF PlaceFacts, PushFacts, InPush
  <1>4. Apart(L, F, {s}, H)' /\ FreshIsClear' /\ ListFacts(L, F)'
    <2>1. Apart(L, F, {s}, H)'
      BY <1>a, <1>2, <1>3 DEF PlaceFacts, Apart
    <2>2. FreshIsClear' /\ ListFacts(L, F)'
      BY <1>2 DEF PlaceFacts, FreshIsClear, ListFacts
    <2> QED
      BY <2>1, <2>2
  <1>5. PopFacts(H)'
    BY <1>0, <1>2, PushKeepsPopFacts
  <1>6. PushFacts(L, F, {s})'
    <2>0. \A q \in Producers : q = p
      BY DEF OneEach
    <2>1. Tip(L)'
      BY <1>2, <2>0 DEF PlaceFacts, PushFacts, Tip
    <2>2. next[s] = NULL
      BY <1>a DEF PlaceFacts, FreshIsClear
    <2>3. PushPlace(F, p)'
      BY <1>0, <1>2, <2>2 DEF PushPlace, Releases, OnTail
    <2> QED
      BY <1>3, <2>0, <2>1, <2>3 DEF PushFacts
  <1>7. PlaceFacts(L, F, {s}, H)'
    BY <1>4, <1>5, <1>6 DEF PlaceFacts
  <1> QED
    BY <1>a, <1>7

(* The CAS on next finds the end of the list, where nobody else links. *)
LEMMA PushLinkKeepsPlaces ==
  ASSUME OneEach, TypeOK, NEW L \in SUBSET Chunks, NEW F \in SUBSET Chunks,
         NEW N \in SUBSET Chunks, NEW H \in SUBSET Chunks, PlaceFacts(L, F, N, H),
         NEW p \in Producers, PushStep(p), PushLink(p)
  PROVE  \E K, M \in SUBSET Chunks : PlaceFacts(K, F, M, H)'
  <1>a. PICK s, l \in Chunks : s = spare[p] /\ l = cur[p]
    BY DEF PushLink, Goto, TypeOK, LocalTypes, PointersValid, UsesSpare, Threads
  <1> DEFINE K == L \cup {s}
  <1>0. /\ p \in Threads /\ OnlySteps(p) /\ PushPlace(F, p) /\ head_chunk \in L
        /\ next \in Links /\ NULL \notin Chunks /\ pc[p] = "link"
        /\ head_chunk \in Null(Chunks) /\ free_list \in Null(Chunks)
    BY PushOnlySteps, ListHolds, QueueAssumption
       DEF PlaceFacts, PushFacts, Threads, TypeOK, SharedTypes, Links, Null, PushLink, Goto
  <1>1. l = tail_chunk /\ next[s] = NULL
    BY <1>a, <1>0 DEF PushPlace, OnTail
  <1>2. l \in L /\ next[l] = NULL
    BY <1>0, <1>1 DEF PlaceFacts, PushFacts, Tip
  <1>3. N = {s} /\ s \in Chunks /\ s \notin L /\ s \notin F /\ s \notin H
    <2>1. N = {s}
      BY <1>a, <1>0, InPushIs DEF PlaceFacts, PushFacts
    <2> QED
      BY <2>1 DEF PlaceFacts, Apart
  <1>4. /\ pc'[p] = "swing" /\ next' = [next EXCEPT ![l] = s]
        /\ UNCHANGED <<head_chunk, tail_chunk, free_list, retired, allocated, active_readers,
                       cur, spare>>
    BY <1>a, <1>0, <1>2 DEF PushLink, Goto, slotVars, TypeOK, LocalTypes
  <1>5. /\ next' \in Links /\ next'[l] = s /\ next'[s] = NULL
        /\ \A k \in Chunks : k # l => next'[k] = next[k]
    BY <1>0, <1>1, <1>2, <1>3, <1>4 DEF Links, Null
  <1>6. IsList(L, next, head_chunk) /\ IsList(F, next, free_list) /\ HasEnd(F, next, free_list)
    BY DEF PlaceFacts, ListFacts
  <1>7. IsList(K, next', head_chunk)
    <2>1. K = Reach(next', head_chunk)
      BY <1>0, <1>2, <1>3, <1>5, <1>6, ReachAppend DEF IsList
    <2>2. \A e \in L : next[e] \in Null(L)
      BY <1>0, <1>6, ReachClosed DEF IsList, Closed
    <2>3. \A e \in K : next'[e] # head_chunk
      BY <1>0, <1>2, <1>3, <1>5, <1>6 DEF IsList
    <2>4. \A d, e \in K : next'[d] = next'[e] /\ next'[d] # NULL => d = e
      BY <1>0, <1>2, <1>3, <1>5, <1>6, <2>2 DEF IsList, Null
    <2> QED
      BY <2>1, <2>3, <2>4 DEF IsList
  <1>8. IsList(F, next', free_list) /\ HasEnd(F, next', free_list)
    <2>1. \A e \in F : next'[e] = next[e]
      BY <1>2, <1>5 DEF PlaceFacts, Apart
    <2> QED
      BY <1>0, <1>5, <1>6, <2>1, ListStays
  <1>9. Apart(K, F, {}, H)' /\ FreshIsClear' /\ ListFacts(K, F)'
    <2>1. Apart(K, F, {}, H)'
      BY <1>3, <1>4 DEF PlaceFacts, Apart
    <2>2. FreshIsClear'
      BY <1>2, <1>4, <1>5 DEF PlaceFacts, FreshIsClear, Apart
    <2> QED
      BY <1>4, <1>7, <1>8, <2>1, <2>2 DEF ListFacts
  <1>10. PopFacts(H)'
    <2>1. \A k \in Chunks : k \in H \/ (k \in L /\ next[k] # NULL) => next'[k] = next[k]
      BY <1>2, <1>5 DEF PlaceFacts, Apart
    <2> QED
      BY <1>0, <1>4, <2>1, PushKeepsPopFacts
  <1>11. PushFacts(K, F, {})'
    <2>0. \A q \in Producers : q = p
      BY DEF OneEach
    <2>1. Tip(K)'
      BY <1>a, <1>4, <1>5, <2>0 DEF Tip
    <2>2. PushPlace(F, p)'
      BY <1>4 DEF PushPlace, Releases, OnTail
    <2>3. InPush' = {}
      BY <1>4, <2>0 DEF InPush
    <2> QED
      BY <2>0, <2>1, <2>2, <2>3 DEF PushFacts
  <1>12. PlaceFacts(K, F, {}, H)'
    BY <1>9, <1>10, <1>11 DEF PlaceFacts
  <1> QED
    BY <1>3, <1>12

LEMMA PushSwingKeepsPlaces ==
  ASSUME OneEach, TypeOK, NEW L \in SUBSET Chunks, NEW F \in SUBSET Chunks,
         NEW N \in SUBSET Chunks, NEW H \in SUBSET Chunks, PlaceFacts(L, F, N, H),
         NEW p \in Producers, PushStep(p), PushSwing(p)
  PROVE  PlaceFacts(L, F, N, H)'
  <1>0. p \in Threads /\ OnlySteps(p)
    BY PushOnlySteps DEF Threads
  <1>1. /\ pc[p] = "swing" /\ pc'[p] = "load" /\ tail_chunk' = spare[p]
        /\ UNCHANGED <<head_chunk, free_list, next, retired, allocated, active_readers>>
    BY <1>0 DEF PushSwing, Goto, slotVars, TypeOK, LocalTypes
  <1>2. \A q \in Producers : q = p
    BY DEF OneEach
  <1>3. Apart(L, F, N, H)' /\ FreshIsClear' /\ ListFacts(L, F)'
    BY <1>1 DEF PlaceFacts, Apart, FreshIsClear, ListFacts
  <1>4. PopFacts(H)'
    BY <1>0, <1>1, PushKeepsPopFacts
  <1>5. PushFacts(L, F, N)'
    <2>1. N = {} /\ InPush' = {}
      BY <1>1, <1>2 DEF PlaceFacts, PushFacts, InPush
    <2>2. Tip(L)'
      BY <1>1, <1>2 DEF PlaceFacts, PushFacts, Tip
    <2>3. PushPlace(F, p)'
      BY <1>1 DEF PushPlace, Releases, OnTail
    <2> QED
      BY <1>2, <2>1, <2>2, <2>3 DEF PushFacts
  <1> QED
    BY <1>3, <1>4, <1>5 DEF PlaceFacts

-----------------------------------------------------------------------------
(* The steps of the consumer. *)

(* RetiredIsHeld and ReadersCounted, said of the only consumer. *)
FlagsAre(c) ==
  /\ \A k \in Chunks : retired[k] => cur[c] = k /\ pc[c] \in {"try", "unretire"}
  /\ \A k \in Chunks : active_readers[k] = IF cur[c] = k /\ Entered(c) THEN 1 ELSE 0

PopSet(c) == IF Leaves(c) THEN {cur[c]} ELSE IF pc[c] \in Releases THEN {spare[c]} ELSE {}

LEMMA PopFactsOfOne ==
  ASSUME OneEach, NEW c \in Consumers, NEW H
  PROVE  /\ PopFacts(H) <=> H = PopSet(c) /\ FlagsAre(c) /\ PopPlace(c)
         /\ PopFacts(H)' <=> H = PopSet(c)' /\ FlagsAre(c)' /\ PopPlace(c)'
  <1>1. \A d \in Consumers : d = c
    BY DEF OneEach
  <1>2. InPop = PopSet(c) /\ InPop' = PopSet(c)'
    BY <1>1 DEF InPop, PopSet, Leaves, Releases
  <1>3. /\ RetiredIsHeld /\ ReadersCounted <=> FlagsAre(c)
        /\ (RetiredIsHeld /\ ReadersCounted)' <=> FlagsAre(c)'
    BY <1>1 DEF RetiredIsHeld, ReadersCounted, FlagsAre, Entered
  <1>4. /\ (\A d \in Consumers : PopPlace(d)) <=> PopPlace(c)
        /\ (\A d \in Consumers : PopPlace(d)') <=> PopPlace(c)'
    BY <1>1
  <1> QED
    BY <1>2, <1>3, <1>4 DEF PopFacts

(* A step that moves no chunk. *)
LEMMA PopQuietKeepsPlaces ==
  ASSUME OneEach, TypeOK, NEW L \in SUBSET Chunks, NEW F \in SUBSET Chunks,
         NEW N \in SUBSET Chunks, NEW H \in SUBSET Chunks, PlaceFacts(L, F, N, H),
         NEW c \in Consumers, OnlySteps(c),
         UNCHANGED <<head_chunk, tail_chunk, free_list, next, allocated>>,
         PopFacts(H)'
  PROVE  PlaceFacts(L, F, N, H)'
  <1>1. Apart(L, F, N, H)' /\ FreshIsClear' /\ ListFacts(L, F)'
    BY DEF PlaceFacts, Apart, FreshIsClear, ListFacts
  <1>2. PushFacts(L, F, N)'
    BY PopKeepsPushFacts
  <1> QED
    BY <1>1, <1>2 DEF PlaceFacts

LEMMA PopOnlySteps ==
  ASSUME TypeOK, NEW c \in Consumers, PopStep(c)
  PROVE  OnlySteps(c)
  <1> USE DEF TypeOK, LocalTypes, Threads, OnlySteps, Goto
  <1>1. CASE PopLoadHead(c) \/ PopLoadIndex(c) \/ PopLoadPush(c) \/ PopEmpty(c) \/ PopLoadNext(c)
    BY <1>1 DEF PopLoadHead, PopLoadIndex, PopLoadPush, PopEmpty, PopLoadNext
  <1>2. CASE PopAdvance(c) \/ PopRetire(c) \/ PopClaim(c) \/ PopEnter(c) \/ PopWait(c)
    BY <1>2 DEF PopAdvance, PopRetire, PopClaim, PopEnter, PopWait
  <1>3. CASE PopMove(c) \/ PopDestroy(c) \/ PopLeave(c) \/ TryRelease(c)
    BY <1>3 DEF PopMove, PopDestroy, PopLeave, TryRelease, AfterTry
  <1>4. CASE TryUnretire(c)
    BY <1>4 DEF TryUnretire, AfterTry
  <1> QED
    BY <1>1, <1>2, <1>3, <1>4 DEF PopStep

LEMMA ReleaseOnlySteps ==
  ASSUME TypeOK, NEW t \in Threads, ReleaseStep(t)
  PROVE  OnlySteps(t)
  <1> USE DEF TypeOK, LocalTypes, OnlySteps, Goto
  <1>1. CASE ReleaseLoad(t) \/ ReleaseStore(t)
    BY <1>1 DEF ReleaseLoad, ReleaseStore
  <1>2. CASE ReleaseCas(t)
    BY <1>2 DEF ReleaseCas, AfterRelease, AfterTry
  <1> QED
    BY <1>1, <1>2 DEF ReleaseStep

(* The steps of pop up to the destruction of the value, and the ones that   *)
(* find the queue empty, keep what the consumer knows.                      *)
LEMMA PopLooks ==
  ASSUME TypeOK, NEW c \in Consumers, FlagsAre(c), PopPlace(c),
         \/ PopLoadHead(c) \/ PopLoadIndex(c) \/ PopLoadPush(c) \/ PopEmpty(c) \/ PopLoadNext(c)
         \/ PopClaim(c) \/ PopWait(c) \/ PopMove(c) \/ PopDestroy(c)
  PROVE  /\ PopSet(c) = {} /\ PopSet(c)' = {} /\ FlagsAre(c)' /\ PopPlace(c)'
         /\ UNCHANGED <<head_chunk, tail_chunk, free_list, next, allocated>>
  <1> USE DEF PopSet, FlagsAre, PopPlace, Leaves, Releases, Entered, OnHead, Goto, chainVars, slotVars
  <1>0. c \in Threads /\ pc \in [Threads -> ProducerOnly \cup ConsumerOnly \cup Shared]
        /\ cur \in [Threads -> Chunks] /\ nxt \in [Threads -> Null(Chunks)]
    BY DEF TypeOK, LocalTypes, Threads
  <1>1. CASE PopLoadHead(c)
    BY <1>0, <1>1 DEF PopLoadHead
  <1>2. CASE PopLoadIndex(c)
    BY <1>0, <1>2 DEF PopLoadIndex
  <1>3. CASE PopLoadPush(c)
    BY <1>0, <1>3 DEF PopLoadPush
  <1>4. CASE PopEmpty(c)
    BY <1>0, <1>4 DEF PopEmpty
  <1>5. CASE PopLoadNext(c)
    BY <1>0, <1>5 DEF PopLoadNext
  <1>6. CASE PopClaim(c)
    BY <1>0, <1>6 DEF PopClaim
  <1>7. CASE PopWait(c)
    BY <1>0, <1>7 DEF PopWait
  <1>8. CASE PopMove(c)
    BY <1>0, <1>8 DEF PopMove
  <1>9. CASE PopDestroy(c)
    BY <1>0, <1>9 DEF PopDestroy
  <1> QED
    BY <1>1, <1>2, <1>3, <1>4, <1>5, <1>6, <1>7, <1>8, <1>9

LEMMA PopEnterLooks ==
  ASSUME TypeOK, NEW c \in Consumers, FlagsAre(c), PopPlace(c), PopEnter(c)
  PROVE  /\ PopSet(c) = {} /\ PopSet(c)' = {} /\ FlagsAre(c)' /\ PopPlace(c)'
         /\ UNCHANGED <<head_chunk, tail_chunk, free_list, next, allocated>>
  <1>0. c \in Threads /\ active_readers \in [Chunks -> Int] /\ cur[c] \in Chunks
    BY DEF TypeOK, LocalTypes, SharedTypes, Threads
  <1>1. /\ pc[c] = "enter" /\ pc'[c] = "wait"
        /\ active_readers' = [active_readers EXCEPT ![cur[c]] = active_readers[cur[c]] + 1]
        /\ UNCHANGED <<head_chunk, tail_chunk, free_list, next, retired, allocated, cur, nxt, spare, old>>
    BY <1>0 DEF PopEnter, Goto, chainVars, TypeOK, LocalTypes
  <1>2. FlagsAre(c)'
    <2>1. \A k \in Chunks : active_readers[k] = 0
      BY <1>1 DEF FlagsAre, Entered
    <2> QED
      BY <1>0, <1>1, <2>1 DEF FlagsAre, Entered
  <1> QED
    BY <1>1, <1>2 DEF PopSet, PopPlace, Leaves, Releases, OnHead

LEMMA PopLeaveLooks ==
  ASSUME TypeOK, NEW c \in Consumers, FlagsAre(c), PopPlace(c), PopLeave(c)
  PROVE  /\ PopSet(c) = {} /\ PopSet(c)' = {} /\ FlagsAre(c)' /\ PopPlace(c)'
         /\ UNCHANGED <<head_chunk, tail_chunk, free_list, next, allocated>>
  <1>0. c \in Threads /\ active_readers \in [Chunks -> Int] /\ cur[c] \in Chunks
    BY DEF TypeOK, LocalTypes, SharedTypes, Threads
  <1>1. /\ pc[c] = "leave" /\ pc'[c] = "try"
        /\ active_readers' = [active_readers EXCEPT ![cur[c]] = active_readers[cur[c]] - 1]
        /\ UNCHANGED <<head_chunk, tail_chunk, free_list, next, retired, allocated, cur, nxt, spare, old>>
    BY <1>0 DEF PopLeave, Goto, chainVars, TypeOK, LocalTypes
  <1>2. FlagsAre(c)'
    BY <1>0, <1>1 DEF FlagsAre, Entered
  <1>3. PopSet(c)' = {}
    BY <1>0, <1>1 DEF FlagsAre, PopSet, Leaves, Releases
  <1> QED
    BY <1>1, <1>2, <1>3 DEF PopSet, PopPlace, Leaves, Releases, OnHead

(* The chunk that pop has left stays in its hands until it is released. *)
LEMMA PopHolds ==
  ASSUME TypeOK, NEW c \in Consumers, FlagsAre(c), PopPlace(c),
         PopRetire(c) \/ TryRelease(c) \/ TryUnretire(c)
  PROVE  /\ PopSet(c)' = PopSet(c) /\ FlagsAre(c)' /\ PopPlace(c)'
         /\ UNCHANGED <<head_chunk, tail_chunk, free_list, next, allocated>>
  <1>0. /\ c \in Threads /\ retired \in [Chunks -> BOOLEAN] /\ cur[c] \in Chunks
        /\ pc \in [Threads -> ProducerOnly \cup ConsumerOnly \cup Shared]
        /\ spare \in [Threads -> Null(Chunks)]
    BY DEF TypeOK, LocalTypes, SharedTypes, Threads
  <1>1. CASE PopRetire(c)
    <2>1. /\ pc[c] = "retire" /\ pc'[c] = "try" /\ retired' = [retired EXCEPT ![cur[c]] = TRUE]
          /\ UNCHANGED <<head_chunk, tail_chunk, free_list, next, active_readers, allocated,
                         cur, nxt, spare, old>>
      BY <1>0, <1>1 DEF PopRetire, Goto, slotVars
    <2>2. FlagsAre(c)'
      BY <1>0, <2>1 DEF FlagsAre, Entered
    <2> QED
      BY <1>0, <2>1, <2>2 DEF PopSet, PopPlace, Leaves, Releases, OnHead
  <1>2. CASE TryRelease(c)
    <2>1. pc[c] = "try" /\ active_readers[cur[c]] = 0
      BY <1>0, <1>2 DEF TryRelease, Goto, FlagsAre, Entered
    <2>2. /\ pc'[c] = "unretire"
          /\ UNCHANGED <<head_chunk, tail_chunk, free_list, next, retired, active_readers,
                         allocated, cur, nxt, spare, old>>
      BY <1>0, <1>2, <2>1 DEF TryRelease, Goto, chainVars, slotVars
    <2> QED
      BY <1>0, <2>1, <2>2 DEF FlagsAre, Entered, PopSet, PopPlace, Leaves, Releases, OnHead
  <1>3. CASE TryUnretire(c)
    <2>1. CASE retired[cur[c]]
      <3>1. /\ pc[c] = "unretire" /\ pc'[c] = "rel_load" /\ spare'[c] = cur[c]
            /\ retired' = [retired EXCEPT ![cur[c]] = FALSE]
            /\ UNCHANGED <<head_chunk, tail_chunk, free_list, next, active_readers, allocated,
                           cur, nxt, old>>
        BY <1>0, <1>3, <2>1 DEF TryUnretire, Goto, slotVars
      <3>2. FlagsAre(c)'
        BY <1>0, <3>1 DEF FlagsAre, Entered
      <3> QED
        BY <1>0, <2>1, <3>1, <3>2 DEF PopSet, PopPlace, Leaves, Releases, OnHead
    <2>2. CASE ~retired[cur[c]]
      <3>1. /\ pc[c] = "unretire" /\ pc'[c] \in {"idle", "load"}
            /\ UNCHANGED <<head_chunk, tail_chunk, free_list, next, retired, active_readers,
                           allocated, cur, nxt, spare, old>>
        BY <1>0, <1>3, <2>2 DEF TryUnretire, AfterTry, Goto, chainVars, slotVars
      <3>2. FlagsAre(c)'
        BY <1>0, <2>2, <3>1 DEF FlagsAre, Entered
      <3> QED
        BY <1>0, <2>2, <3>1, <3>2 DEF PopSet, PopPlace, Leaves, Releases, OnHead
    <2> QED
      BY <2>1, <2>2
  <1> QED
    BY <1>1, <1>2, <1>3

LEMMA PopQuietSteps ==
  ASSUME OneEach, TypeOK, NEW L \in SUBSET Chunks, NEW F \in SUBSET Chunks,
         NEW N \in SUBSET Chunks, NEW H \in SUBSET Chunks, PlaceFacts(L, F, N, H),
         NEW c \in Consumers, PopStep(c), ~PopAdvance(c)
  PROVE  PlaceFacts(L, F, N, H)'
  <1>1. H = PopSet(c) /\ FlagsAre(c) /\ PopPlace(c)
    BY PopFactsOfOne DEF PlaceFacts
  <1>2. /\ PopSet(c)' = PopSet(c) /\ FlagsAre(c)' /\ PopPlace(c)'
        /\ UNCHANGED <<head_chunk, tail_chunk, free_list, next, allocated>>
    BY <1>1, PopLooks, PopEnterLooks, PopLeaveLooks, PopHolds DEF PopStep
  <1>3. PopFacts(H)'
    BY <1>1, <1>2, PopFactsOfOne
  <1> QED
    BY <1>2, <1>3, PopOnlySteps, PopQuietKeepsPlaces

(* The CAS on head_chunk takes the first chunk off the list.  It is not the *)
(* last one, so that the producer does not work on it.                      *)
LEMMA PopAdvanceKeepsPlaces ==
  ASSUME OneEach, TypeOK, NEW L \in SUBSET Chunks, NEW F \in SUBSET Chunks,
         NEW N \in SUBSET Chunks, NEW H \in SUBSET Chunks, PlaceFacts(L, F, N, H),
         NEW c \in Consumers, PopStep(c), PopAdvance(c)
  PROVE  \E K, J \in SUBSET Chunks : PlaceFacts(K, F, N, J)'
  <1>a. PICK h \in Chunks : h = head_chunk
    BY DEF TypeOK, SharedTypes
  <1> DEFINE K == L \ {h}
  <1>0. /\ c \in Threads /\ OnlySteps(c) /\ h \in L /\ next \in Links /\ NULL \notin Chunks
        /\ H = PopSet(c) /\ FlagsAre(c) /\ PopPlace(c)
    BY <1>a, PopOnlySteps, ListHolds, PopFactsOfOne, QueueAssumption
       DEF PlaceFacts, Threads, TypeOK, SharedTypes, Links
  <1>1. /\ pc[c] = "advance" /\ cur[c] = h /\ nxt[c] = next[h] /\ next[h] \in Chunks
    BY <1>a, <1>0 DEF PopAdvance, Goto, PopPlace, OnHead, TypeOK, PointersValid
  <1>2. /\ pc'[c] = "retire" /\ head_chunk' = next[h]
        /\ UNCHANGED <<tail_chunk, free_list, next, retired, active_readers, allocated, cur, spare>>
    BY <1>a, <1>0, <1>1 DEF PopAdvance, Goto, slotVars, TypeOK, LocalTypes
  <1>3. H = {} /\ PopSet(c)' = {h}
    BY <1>0, <1>1, <1>2 DEF PopSet, Leaves, Releases
  <1>4. IsList(L, next, h)
    BY <1>a DEF PlaceFacts, ListFacts
  <1>5. IsList(K, next, next[h])
    <2>1. K = Reach(next, next[h])
      BY <1>0, <1>4, ReachTail DEF IsList
    <2>2. \A e \in K : next[e] # next[h]
      BY <1>0, <1>1, <1>4 DEF IsList
    <2> QED
      BY <1>4, <2>1, <2>2 DEF IsList
  <1>6. Apart(K, F, N, {h})'
    BY <1>0, <1>2, <1>3 DEF PlaceFacts, Apart
  <1>7. FreshIsClear' /\ ListFacts(K, F)'
    BY <1>2, <1>5 DEF PlaceFacts, FreshIsClear, ListFacts
  <1>8. PopFacts({h})'
    <2>1. FlagsAre(c)'
      BY <1>0, <1>1, <1>2 DEF FlagsAre, Entered
    <2>2. PopPlace(c)'
      BY <1>2 DEF PopPlace, OnHead
    <2> QED
      BY <1>3, <2>1, <2>2, PopFactsOfOne
  <1>9. PushFacts(K, F, N)'
    <2>1. \A k \in L : next[k] = NULL => k \in K
      BY <1>0, <1>1
    <2> QED
      BY <1>0, <1>2, <2>1, PopKeepsPushFacts
  <1>10. PlaceFacts(K, F, N, {h})'
    BY <1>6, <1>7, <1>8, <1>9 DEF PlaceFacts
  <1> QED
    BY <1>10

(* The producer never releases a chunk. *)
LEMMA OnlyPopReleases ==
  ASSUME NEW L, NEW F, NEW N, NEW H, PlaceFacts(L, F, N, H), NEW t \in Threads, ReleaseStep(t)
  PROVE  t \in Consumers
  BY DEF PlaceFacts, PushFacts, PushPlace, Releases, ReleaseStep, ReleaseLoad, ReleaseStore,
         ReleaseCas, Goto, Threads

(* The chunk that is being released is in no list. *)
LEMMA ReleaseStoreKeepsPlaces ==
  ASSUME OneEach, TypeOK, NEW L \in SUBSET Chunks, NEW F \in SUBSET Chunks,
         NEW N \in SUBSET Chunks, NEW H \in SUBSET Chunks, PlaceFacts(L, F, N, H),
         NEW c \in Consumers, OnlySteps(c), ReleaseStore(c)
  PROVE  PlaceFacts(L, F, N, H)'
  <1>a. PICK s \in Chunks : s = spare[c]
    BY DEF ReleaseStore, Goto, TypeOK, PointersValid, UsesSpare, Releases, Threads
  <1>0. /\ c \in Threads /\ next \in Links /\ old[c] \in Null(Chunks)
        /\ H = PopSet(c) /\ FlagsAre(c) /\ PopPlace(c)
        /\ head_chunk \in Null(Chunks) /\ free_list \in Null(Chunks)
    BY PopFactsOfOne DEF PlaceFacts, Threads, TypeOK, SharedTypes, LocalTypes, Links, Null
  <1>1. /\ pc[c] = "rel_store" /\ pc'[c] = "rel_cas" /\ next' = [next EXCEPT ![s] = old[c]]
        /\ UNCHANGED <<head_chunk, tail_chunk, free_list, retired, active_readers, allocated,
                       cur, spare, old>>
    BY <1>a, <1>0 DEF ReleaseStore, Goto, slotVars, TypeOK, LocalTypes
  <1>2. H = {s} /\ PopSet(c)' = {s}
    BY <1>a, <1>0, <1>1 DEF PopSet, Leaves, Releases
  <1>3. s \in allocated /\ s \notin L /\ s \notin F /\ s \notin N
    BY <1>2 DEF PlaceFacts, Apart
  <1>4. next' \in Links /\ next'[s] = old[c] /\ \A k \in Chunks : k # s => next'[k] = next[k]
    BY <1>0, <1>1 DEF Links
  <1>5. Apart(L, F, N, H)' /\ FreshIsClear'
    BY <1>1, <1>3, <1>4 DEF PlaceFacts, Apart, FreshIsClear
  <1>6. ListFacts(L, F)'
    <2>1. \A e \in L \cup F : next'[e] = next[e]
      BY <1>3, <1>4
    <2> QED
      BY <1>0, <1>1, <1>4, <2>1, ListStays DEF PlaceFacts, ListFacts
  <1>7. PopFacts(H)'
    <2>1. FlagsAre(c)'
      BY <1>0, <1>1 DEF FlagsAre, Entered
    <2>2. PopPlace(c)'
      BY <1>a, <1>1, <1>4 DEF PopPlace, OnHead
    <2> QED
      BY <1>2, <2>1, <2>2, PopFactsOfOne
  <1>8. PushFacts(L, F, N)'
    <2>1. \A k \in L \cup F \cup N : next'[k] = next[k]
      BY <1>3, <1>4
    <2> QED
      BY <1>1, <2>1, PopKeepsPushFacts
  <1> QED
    BY <1>5, <1>6, <1>7, <1>8 DEF PlaceFacts

(* The chunk whose next is the old free list becomes its head. *)
LEMMA ReleaseCasKeepsPlaces ==
  ASSUME OneEach, TypeOK, NEW L \in SUBSET Chunks, NEW F \in SUBSET Chunks,
         NEW N \in SUBSET Chunks, NEW H \in SUBSET Chunks, PlaceFacts(L, F, N, H),
         NEW c \in Consumers, OnlySteps(c), ReleaseCas(c), pc'[c] # "rel_store"
  PROVE  \E G, J \in SUBSET Chunks : PlaceFacts(L, G, N, J)'
  <1>a. PICK s \in Chunks : s = spare[c]
    BY DEF ReleaseCas, Goto, TypeOK, PointersValid, UsesSpare, Releases, Threads
  <1> DEFINE G == {s} \cup F
  <1>0. /\ c \in Threads /\ c \notin Producers /\ next \in Links
        /\ H = PopSet(c) /\ FlagsAre(c) /\ PopPlace(c)
        /\ free_list \in Null(Chunks) /\ NULL \notin Chunks
    BY PopFactsOfOne, QueueAssumption DEF PlaceFacts, Threads, TypeOK, SharedTypes, Links
  <1>1. /\ free_list = old[c] /\ pc[c] = "rel_cas" /\ pc'[c] \in {"idle", "load"}
        /\ free_list' = s
        /\ UNCHANGED <<head_chunk, tail_chunk, next, retired, active_readers, allocated, cur>>
    BY <1>a, <1>0 DEF ReleaseCas, AfterRelease, AfterTry, Goto, slotVars, TypeOK, LocalTypes
  <1>2. H = {s} /\ PopSet(c)' = {} /\ next[s] = free_list
    BY <1>a, <1>0, <1>1 DEF PopSet, Leaves, Releases, PopPlace
  <1>3. s \notin L /\ s \notin F /\ s \notin N
    BY <1>2 DEF PlaceFacts, Apart
  <1>4. IsList(F, next, free_list) /\ HasEnd(F, next, free_list)
    BY DEF PlaceFacts, ListFacts
  <1>5. IsList(G, next, s) /\ HasEnd(G, next, s)
    <2>1. G = Reach(next, s)
      BY <1>0, <1>2, <1>4, ReachCons DEF IsList
    <2>2. free_list \in Null(F) /\ \A e \in F : next[e] \in Null(F)
      BY <1>0, <1>4, ReachClosed DEF IsList, Closed
    <2>3. \A e \in G : next[e] # s
      BY <1>0, <1>2, <1>3, <2>2 DEF Null
    <2>4. \A d, e \in G : next[d] = next[e] /\ next[d] # NULL => d = e
      BY <1>2, <1>4 DEF IsList
    <2>5. HasEnd(G, next, s)
      BY <1>2, <1>4 DEF HasEnd
    <2> QED
      BY <2>1, <2>3, <2>4, <2>5 DEF IsList
  <1>6. Apart(L, G, N, {})'
    BY <1>1, <1>2, <1>3 DEF PlaceFacts, Apart
  <1>7. FreshIsClear' /\ ListFacts(L, G)'
    BY <1>1, <1>5 DEF PlaceFacts, FreshIsClear, ListFacts
  <1>8. PopFacts({})'
    <2>1. FlagsAre(c)'
      BY <1>0, <1>1 DEF FlagsAre, Entered
    <2>2. PopPlace(c)'
      BY <1>1 DEF PopPlace, OnHead
    <2> QED
      BY <1>2, <2>1, <2>2, PopFactsOfOne
  <1>9. PushFacts(L, G, N)'
    BY <1>1, PopKeepsPushFacts
  <1>10. PlaceFacts(L, G, N, {})'
    BY <1>6, <1>7, <1>8, <1>9 DEF PlaceFacts
  <1> QED
    BY <1>10

(* The load of free_list, and a CAS that fails. *)
LEMMA ReleaseLoadsKeepPlaces ==
  ASSUME OneEach, TypeOK, NEW L \in SUBSET Chunks, NEW F \in SUBSET Chunks,
         NEW N \in SUBSET Chunks, NEW H \in SUBSET Chunks, PlaceFacts(L, F, N, H),
         NEW c \in Consumers, OnlySteps(c),
         ReleaseLoad(c) \/ (ReleaseCas(c) /\ pc'[c] = "rel_store")
  PROVE  PlaceFacts(L, F, N, H)'
  <1>0. c \in Threads /\ c \notin Producers /\ H = PopSet(c) /\ FlagsAre(c) /\ PopPlace(c)
    BY PopFactsOfOne, QueueAssumption DEF PlaceFacts, Threads
  <1>1. /\ pc[c] \in {"rel_load", "rel_cas"} /\ pc'[c] = "rel_store"
        /\ UNCHANGED <<head_chunk, tail_chunk, free_list, next, retired, active_readers, allocated,
                       cur, spare>>
    <2>1. CASE ReleaseLoad(c)
      BY <1>0, <2>1 DEF ReleaseLoad, Goto, chainVars, slotVars, TypeOK, LocalTypes
    <2>2. CASE ReleaseCas(c) /\ pc'[c] = "rel_store"
      BY <1>0, <2>2 DEF ReleaseCas, AfterRelease, AfterTry, Goto, chainVars, slotVars,
                        TypeOK, LocalTypes
    <2> QED
      BY <2>1, <2>2
  <1>2. PopSet(c)' = PopSet(c)
    BY <1>1 DEF PopSet, Leaves, Releases
  <1>3. FlagsAre(c)' /\ PopPlace(c)'
    BY <1>0, <1>1 DEF FlagsAre, Entered, PopPlace, OnHead
  <1>4. PopFacts(H)'
    BY <1>0, <1>2, <1>3, PopFactsOfOne
  <1> QED
    BY <1>1, <1>4, PopQuietKeepsPlaces

-----------------------------------------------------------------------------
LEMMA PlaceInit == Init => PlaceInv
  <1> SUFFICES ASSUME Init, OneEach
               PROVE  \E L, F, N, H \in SUBSET Chunks : PlaceFacts(L, F, N, H)
    BY TypeInit DEF PlaceInv
  <1> DEFINE L == {head_chunk}
  <1>0. head_chunk \in Chunks /\ next \in Links /\ NULL \notin Chunks
    BY TypeInit, QueueAssumption DEF TypeOK, SharedTypes, Links
  <1>1. /\ \A k \in Chunks : next[k] = NULL /\ ~retired[k] /\ active_readers[k] = 0
        /\ \A t \in Threads : pc[t] = "idle"
        /\ tail_chunk = head_chunk /\ free_list = NULL /\ allocated = L
    BY DEF Init
  <1>2. L = Reach(next, head_chunk) /\ Reach(next, NULL) = {}
    <2>1. Reach(next, head_chunk) = {head_chunk} \cup Reach(next, NULL)
      BY <1>0, <1>1, ReachCons
    <2> QED
      BY <2>1, ReachNull
  <1>3. ListFacts(L, {})
    BY <1>0, <1>1, <1>2 DEF ListFacts, IsList, HasEnd
  <1>4. Apart(L, {}, {}, {}) /\ FreshIsClear
    BY <1>1 DEF Apart, FreshIsClear
  <1>5. PushFacts(L, {}, {})
    BY <1>0, <1>1 DEF PushFacts, InPush, Tip, PushPlace, OnTail, Releases, Threads
  <1>6. PopFacts({})
    BY <1>1 DEF PopFacts, InPop, Leaves, Releases, RetiredIsHeld, ReadersCounted, Entered,
                PopPlace, OnHead, Threads
  <1>7. PlaceFacts(L, {}, {}, {})
    BY <1>3, <1>4, <1>5, <1>6 DEF PlaceFacts
  <1> QED
    BY <1>0, <1>7

LEMMA PlaceStep == PlaceInv /\ [Next]_vars => PlaceInv'
  <1> SUFFICES ASSUME PlaceInv, [Next]_vars, OneEach
               PROVE  \E L, F, N, H \in SUBSET Chunks : PlaceFacts(L, F, N, H)'
    BY TypeStep DEF PlaceInv, OneEach
  <1>0. TypeOK
    BY DEF PlaceInv
  <1>1. PICK L, F, N, H \in SUBSET Chunks : PlaceFacts(L, F, N, H)
    BY DEF PlaceInv
  <1>2. ASSUME NEW p \in Producers, PushStep(p)
        PROVE  \E K, G, M, J \in SUBSET Chunks : PlaceFacts(K, G, M, J)'
    <2>1. CASE \/ PushLoadTail(p) \/ PushClaim(p) \/ PushCheck(p) \/ PushConstruct(p)
               \/ PushPublish(p) \/ AllocLoad(p) \/ AllocNext(p)
               \/ AllocCas(p) /\ pc'[p] # "reset"
      BY <1>0, <1>1, <1>2, <2>1, PushQuietSteps
    <2>2. CASE AllocCas(p) /\ pc'[p] = "reset"
      BY <1>0, <1>1, <1>2, <2>2, AllocCasKeepsPlaces
    <2>3. CASE AllocReset(p)
      BY <1>0, <1>1, <1>2, <2>3, AllocResetKeepsPlaces
    <2>4. CASE AllocNew(p)
      BY <1>0, <1>1, <1>2, <2>4, AllocNewKeepsPlaces
    <2>5. CASE PushLink(p)
      BY <1>0, <1>1, <1>2, <2>5, PushLinkKeepsPlaces
    <2>6. CASE PushSwing(p)
      BY <1>0, <1>1, <1>2, <2>6, PushSwingKeepsPlaces
    <2>7. CASE PushFollow(p)
      BY <1>1, <2>7 DEF PushFollow, Goto, PlaceFacts, PushFacts, PushPlace
    <2> QED
      BY <1>2, <2>1, <2>2, <2>3, <2>4, <2>5, <2>6, <2>7 DEF PushStep
  <1>3. ASSUME NEW c \in Consumers, PopStep(c)
        PROVE  \E K, G, M, J \in SUBSET Chunks : PlaceFacts(K, G, M, J)'
    <2>1. CASE PopAdvance(c)
      BY <1>0, <1>1, <1>3, <2>1, PopAdvanceKeepsPlaces
    <2>2. CASE ~PopAdvance(c)
      <3>1. PlaceFacts(L, F, N, H)'
        BY <1>0, <1>1, <1>3, <2>2, PopQuietSteps
      <3> QED
        BY <3>1
    <2> QED
      BY <2>1, <2>2
  <1>4. ASSUME NEW t \in Threads, ReleaseStep(t)
        PROVE  \E K, G, M, J \in SUBSET Chunks : PlaceFacts(K, G, M, J)'
    <2>0. t \in Consumers /\ OnlySteps(t)
      BY <1>0, <1>1, <1>4, OnlyPopReleases, ReleaseOnlySteps
    <2>1. CASE ReleaseLoad(t) \/ (ReleaseCas(t) /\ pc'[t] = "rel_store")
      BY <1>0, <1>1, <2>0, <2>1, ReleaseLoadsKeepPlaces
    <2>2. CASE ReleaseStore(t)
      BY <1>0, <1>1, <2>0, <2>2, ReleaseStoreKeepsPlaces
    <2>3. CASE ReleaseCas(t) /\ pc'[t] # "rel_store"
      BY <1>0, <1>1, <2>0, <2>3, ReleaseCasKeepsPlaces
    <2> QED
      BY <1>4, <2>1, <2>2, <2>3 DEF ReleaseStep
  <1>5. CASE UNCHANGED vars
    <2>1. UNCHANGED <<head_chunk, tail_chunk, free_list, next, retired, allocated,
                      active_readers, pc, cur, nxt, spare, old>>
      BY <1>5 DEF vars, chainVars, slotVars, threadVars
    <2>2. Apart(L, F, N, H)' /\ FreshIsClear' /\ ListFacts(L, F)'
      BY <1>1, <2>1 DEF PlaceFacts, Apart, FreshIsClear, ListFacts
    <2>3. PushFacts(L, F, N)'
      BY <1>1, <2>1 DEF PlaceFacts, PushFacts, InPush, Tip, PushPlace
    <2>4. PopFacts(H)'
      BY <1>1, <2>1 DEF PlaceFacts, PopFacts, InPop, Leaves, RetiredIsHeld, ReadersCounted,
                        Entered, PopPlace
    <2> QED
      BY <2>2, <2>3, <2>4 DEF PlaceFacts
  <1> QED
    BY <1>2, <1>3, <1>4, <1>5 DEF Next

(* With one producer and one consumer neither thread works on a chunk that  *)
(* has gone back to the free list or is about to be linked as new, also     *)
(* when chunks are recycled while push and pop overlap.                     *)
THEOREM NoUseAfterReleaseInPair == Spec => [](OneEach => NoUseAfterRelease)
  <1>1. PlaceInv => (OneEach => NoUseAfterRelease)
    BY PlacesGiveNoUseAfterRelease DEF PlaceInv
  <1> QED
    BY PlaceInit, PlaceStep, <1>1, PTL DEF Spec

(* With one producer and one consumer the destructor frees every chunk once *)
(* whenever both threads are between calls, however often chunks have been  *)
(* recycled: none is leaked, none is in both lists, and both lists end.     *)
THEOREM OneFreeInPair == Spec => [](OneEach => DestructorFreesEachChunkOnce)
  <1>1. PlaceInv => (OneEach => DestructorFreesEachChunkOnce)
    BY PlacesGiveOneFree DEF PlaceInv
  <1> QED
    BY PlaceInit, PlaceStep, <1>1, PTL DEF Spec

=============================================================================
