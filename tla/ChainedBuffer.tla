--------------------------- MODULE ChainedBuffer ---------------------------
(***************************************************************************)
(* util::ChainedBuffer (util/chained_buffer.h) over util::BufferBlock      *)
(* (util/buffer_block.h): a value b of the buffer and what each operation  *)
(* makes of it.                                                            *)
(*                                                                         *)
(* The nodes from head_ to tail_ are a sequence; the empty sequence is     *)
(* head_ = tail_ = nullptr, on which only clear, read and the loops over   *)
(* nodes are defined.  free_list_ is the number of recycled nodes.         *)
(* consumed_bytes_, which only input_skip looks at, is left out.           *)
(***************************************************************************)
EXTENDS Integers, Sequences

CONSTANTS
  BlockSize,   \* bytes of a block
  IOV_MAX      \* iovecs of one writev

ASSUME BufferAssumption == BlockSize \in Nat \ {0} /\ IOV_MAX \in Nat \ {0}

Least(x, y) == IF x < y THEN x ELSE y

Junk    == 0     \* what memory that nobody has written holds
NoLimit == -1    \* INT32_MAX

First(s, n) == SubSeq(s, 1, n)
From(s, n)  == SubSeq(s, n + 1, Len(s))

-----------------------------------------------------------------------------
(* BufferBlock *)

NewBlock == [data |-> [i \in 1 .. BlockSize |-> Junk], read_pos |-> 0, write_pos |-> 0]

BlockBytes(k) == k.write_pos - k.read_pos
Available(k)  == BlockSize - k.write_pos
Full(k)       == k.write_pos = BlockSize
Empty(k)      == k.read_pos = k.write_pos

(* The bytes s in memory from offset p on. *)
Store(k, p, s) ==
  [k EXCEPT !.data = [i \in 1 .. BlockSize |->
                        IF i \in p + 1 .. p + Len(s) THEN s[i - p] ELSE @[i]]]

BlockWrite(k, s) ==
  [Store(k, k.write_pos, s) EXCEPT !.write_pos = k.write_pos + Len(s)]

BlockRead(k, n) ==
  IF n = BlockBytes(k) THEN [k EXCEPT !.read_pos = 0, !.write_pos = 0]
                       ELSE [k EXCEPT !.read_pos = @ + n]

ReadView(k) == SubSeq(k.data, k.read_pos + 1, k.write_pos)

-----------------------------------------------------------------------------
(* The chain *)

NewBuffer == [chain |-> <<NewBlock>>, free_list |-> 0, total_size |-> 0, limit |-> NoLimit]

AppendNode(b) ==
  [b EXCEPT !.chain = Append(@, NewBlock), !.free_list = IF @ > 0 THEN @ - 1 ELSE 0]

RemoveHead(b) ==
  IF b.chain = <<>> THEN b
  ELSE [b EXCEPT !.chain = Tail(@), !.free_list = @ + 1]

HeadBlock(b) == b.chain[1]
TailBlock(b) == b.chain[Len(b.chain)]

WithHead(b, k) == [b EXCEPT !.chain[1] = k]
WithTail(b, k) == [b EXCEPT !.chain[Len(b.chain)] = k]

Grow(b, n) == [b EXCEPT !.total_size = @ + n]

(* What the blocks of a chain hold. *)
RECURSIVE Contents(_)
Contents(chain) ==
  IF chain = <<>> THEN <<>> ELSE ReadView(Head(chain)) \o Contents(Tail(chain))

-----------------------------------------------------------------------------
(* Writing *)

(* write.  After append_node the loop writes once more to the old, full     *)
(* block, which takes nothing, and comes back for the new one.              *)
RECURSIVE Write(_, _)
Write(b, s) ==
  IF s = <<>> THEN b
  ELSE IF Full(TailBlock(b)) THEN Write(AppendNode(b), s)
  ELSE LET n == Least(Len(s), Available(TailBlock(b)))
       IN  Write(Grow(WithTail(b, BlockWrite(TailBlock(b), First(s, n))), n), From(s, n))

(* Mutant of CommitResv: a full block stays the tail. *)
CommitResvNoAppend(b, s) ==
  Grow(WithTail(b, BlockWrite(TailBlock(b), s)), Len(s))

(* read(2) has put s where write_view pointed; commit_resv(Len(s)). *)
CommitResv(b, s) ==
  LET c == Grow(WithTail(b, BlockWrite(TailBlock(b), s)), Len(s))
  IN  IF s # <<>> /\ Full(TailBlock(c)) THEN AppendNode(c) ELSE c

(* output_next: the memory it hands out is bytes .from + 1 .. of block .at. *)
(* When the tail is full, the new tail is copied over it, through the       *)
(* reference, and it is the old block that is handed out.                   *)
OutputNext(b) ==
  LET at == Len(b.chain)
      c  == IF Full(TailBlock(b)) THEN [AppendNode(b) EXCEPT !.chain[at] = NewBlock] ELSE b
      n  == Available(c.chain[at])
  IN  [at   |-> at,
       from |-> c.chain[at].write_pos,
       size |-> n,
       buf  |-> Grow([c EXCEPT !.chain[at].write_pos = BlockSize], n)]

(* Mutant of OutputBackUp: the unused bytes stay. *)
OutputBackUpNone(b, count) == b

(* output_back_up *)
OutputBackUp(b, count) ==
  LET n == Least(count, TailBlock(b).write_pos)
  IN  Grow([b EXCEPT !.chain[Len(b.chain)].write_pos = @ - n], -n)

-----------------------------------------------------------------------------
(* Reading *)

(* read: what it returns, and the buffer it leaves.  A block it empties is  *)
(* removed, even the last one.                                              *)
RECURSIVE Read(_, _)
Read(b, n) ==
  IF b.chain = <<>> \/ n = 0 THEN [data |-> <<>>, buf |-> b]
  ELSE LET k == HeadBlock(b)
           m == Least(n, BlockBytes(k))
           c == Grow(WithHead(b, BlockRead(k, m)), -m)
           r == Read(IF Empty(HeadBlock(c)) THEN RemoveHead(c) ELSE c, n - m)
       IN  [r EXCEPT !.data = First(ReadView(k), m) \o @]

(* Mutant of TakesFromHead: the limit is not looked at. *)
TakesFromHeadUnlimited(b) == BlockBytes(HeadBlock(b))

(* The bytes input_next takes. *)
TakesFromHead(b) ==
  IF b.limit = NoLimit THEN BlockBytes(HeadBlock(b))
                       ELSE Least(BlockBytes(HeadBlock(b)), b.limit)

(* An exhausted block is removed, if there is another one. *)
DropsHead(b) == HeadBlock(b).read_pos = BlockSize /\ Len(b.chain) > 1

(* Mutant of InputNext: total_size_ is not told. *)
InputNextUncounted(b) ==
  LET n == TakesFromHead(b)
      c == [b EXCEPT !.chain[1].read_pos = @ + n,
                     !.limit = IF @ = NoLimit THEN @ ELSE @ - n]
  IN  [data |-> First(ReadView(HeadBlock(b)), n),
       buf  |-> IF DropsHead(c) THEN RemoveHead(c) ELSE c]

(* input_next when it returns true. *)
InputNext(b) ==
  LET n == TakesFromHead(b)
      c == [b EXCEPT !.chain[1].read_pos = @ + n,
                     !.limit = IF @ = NoLimit THEN @ ELSE @ - n]
  IN  [data |-> First(ReadView(HeadBlock(b)), n),
       buf  |-> Grow(IF DropsHead(c) THEN RemoveHead(c) ELSE c, -n)]

(* input_next returns false. *)
AtEnd(b) == Empty(HeadBlock(b)) \/ b.limit = 0

PushLimit(b, n) == [b EXCEPT !.limit = n]
PopLimit(b)     == [b EXCEPT !.limit = NoLimit]

(* What get_iovecs hands to writev. *)
Iovecs(b) == Contents(First(b.chain, Least(Len(b.chain), IOV_MAX)))

(* Mutant of EnsureNext: the last block may go. *)
EnsureNextNone(b) == b

(* Before the last block goes, another one is appended. *)
EnsureNext(b) == IF Len(b.chain) = 1 THEN AppendNode(b) ELSE b

(* commit_send, for n no more than the chain holds; with more, its loop     *)
(* appends and removes blocks for ever.                                     *)
RECURSIVE CommitSend(_, _)
CommitSend(b, n) ==
  IF n = 0 THEN b
  ELSE LET m == Least(n, BlockBytes(HeadBlock(b)))
           c == Grow([b EXCEPT !.chain[1].read_pos = @ + m], -m)
       IN  CommitSend(IF Empty(HeadBlock(c)) THEN RemoveHead(EnsureNext(c)) ELSE c, n - m)
=============================================================================
