----------------------------- MODULE FramePipe -----------------------------
(***************************************************************************)
(* A message on its way from one side to the other: the sender's task      *)
(* writes its length and serialises it into write_buf_ (the util streams   *)
(* of util/stream.h over ChainedBuffer), async_write hands write_buf_ to   *)
(* the kernel, async_read fills read_buf_, recv_fn reads the length, waits *)
(* for that many bytes and parses them under a limit.  A request or a      *)
(* response is two such messages, its header and its body.                 *)
(***************************************************************************)
EXTENDS ChainedBuffer

CONSTANTS
  MaxMessages,   \* bound: messages the sender writes
  BodySizes      \* bytes a message may have

ASSUME PipeAssumption ==
  MaxMessages \in Nat /\ BodySizes \subseteq Nat /\ \A n \in BodySizes : n < 10

VARIABLES
  write_buf,     \* write_buf_ of the sender
  need_write, written,   \* locals of async_write; need_write is 0 outside it
  net,           \* bytes the kernel holds, in order
  read_buf,      \* read_buf_ of the receiver
  stage,         \* recv_fn waits for "length" or for "body"
  body_len,      \* the length it has read last
  sent,          \* history: messages serialised
  received,      \* history: messages parsed
  crossed,       \* history: a message did not fit into the rest of a block
  resent,        \* history: a second writev in one async_write
  fault          \* how a thread has left defined behaviour, if it has

senderVars   == <<write_buf, need_write, written, sent, crossed, resent>>
receiverVars == <<read_buf, stage, body_len, received>>
vars == <<senderVars, net, receiverVars, fault>>

(* A length is two bytes, least significant first; the bytes of a message   *)
(* tell which one it is and where in it they belong.                        *)
LengthSize      == 2
Radix           == 100
LengthBytes(n)  == <<n % Radix, n \div Radix>>
ToLength(s)     == s[1] + Radix * s[2]
Message(k, n)   == [i \in 1 .. n |-> 10 * k + i]

Init ==
  /\ write_buf = NewBuffer /\ read_buf = NewBuffer /\ net = <<>>
  /\ need_write = 0 /\ written = 0
  /\ stage = "length" /\ body_len = 0
  /\ sent = <<>> /\ received = <<>>
  /\ crossed = FALSE /\ resent = FALSE /\ fault = "none"

-----------------------------------------------------------------------------
(* The sender *)

(* SerializeToZeroCopyStream: Next until everything is written, BackUp of   *)
(* the rest.  An empty message asks for nothing.                            *)
RECURSIVE Serialize(_, _)
Serialize(b, s) ==
  IF s = <<>> THEN b
  ELSE LET r == OutputNext(b)
           n == Least(Len(s), r.size)
           c == [r.buf EXCEPT !.chain[r.at] = Store(@, r.from, First(s, n))]
       IN  IF n = Len(s) THEN OutputBackUp(c, r.size - n) ELSE Serialize(c, From(s, n))

(* The task of a call, or recv_fn of the server: nothing else touches       *)
(* write_buf_ meanwhile.  What the sender does with a stream that is        *)
(* already damaged is not modelled.                                         *)
Send ==
  /\ Len(sent) < MaxMessages /\ need_write = 0 /\ ~crossed /\ ~resent /\ fault = "none"
  /\ \E n \in BodySizes :
       LET m == Message(Len(sent) + 1, n)
           b == Write(write_buf, LengthBytes(n))
       IN  /\ write_buf' = Serialize(b, m)
           /\ crossed' = (n > Available(TailBlock(b)))
           /\ sent' = Append(sent, m)
  /\ UNCHANGED <<need_write, written, resent, net, receiverVars, fault>>

(* async_write, entry; send_fn calls it when there is something to write. *)
WriteBegin ==
  /\ need_write = 0 /\ write_buf.total_size > 0 /\ ~resent /\ fault = "none"
  /\ need_write' = write_buf.total_size /\ written' = 0
  /\ UNCHANGED <<write_buf, sent, crossed, resent, net, receiverVars, fault>>

(* A writev of which the kernel takes n bytes. *)
Writev ==
  /\ written < need_write /\ ~resent
  /\ \E n \in 1 .. Len(Iovecs(write_buf)) :
       /\ net' = net \o First(Iovecs(write_buf), n)
       /\ written' = written + n
  /\ resent' = (written > 0)
  /\ UNCHANGED <<write_buf, need_write, sent, crossed, receiverVars, fault>>

(* The loop ends, with EAGAIN if not everything is written. *)
WriteEnd ==
  /\ need_write > 0 /\ fault = "none"
  /\ need_write' = 0
  /\ IF written <= Len(Contents(write_buf.chain))
     THEN write_buf' = CommitSend(write_buf, written) /\ UNCHANGED fault
     ELSE fault' = "hang" /\ UNCHANGED write_buf
  /\ UNCHANGED <<written, sent, crossed, resent, net, receiverVars>>

-----------------------------------------------------------------------------
(* The receiver *)

Wanted == IF stage = "length" THEN LengthSize ELSE body_len

(* async_read, when n bytes arrive before read would block or the block is  *)
(* full.                                                                    *)
AsyncRead ==
  /\ read_buf.total_size < Wanted /\ read_buf.chain # <<>> /\ fault = "none"
  /\ \E n \in 1 .. Least(Len(net), Available(TailBlock(read_buf))) :
       /\ read_buf' = CommitResv(read_buf, First(net, n))
       /\ net' = From(net, n)
  /\ UNCHANGED <<senderVars, stage, body_len, received, fault>>

(* write_view on a buffer without blocks. *)
AsyncReadNull ==
  /\ read_buf.total_size < Wanted /\ read_buf.chain = <<>> /\ fault = "none"
  /\ fault' = "null"
  /\ UNCHANGED <<senderVars, net, receiverVars>>

ReadLength ==
  /\ stage = "length" /\ read_buf.total_size >= LengthSize /\ fault = "none"
  /\ LET r == Read(read_buf, LengthSize)
     IN  /\ read_buf' = r.buf
         /\ body_len' = ToLength(r.data)
  /\ stage' = "body"
  /\ UNCHANGED <<senderVars, net, received, fault>>

(* ParseFromZeroCopyStream: Next until it returns false. *)
RECURSIVE ParseAll(_)
ParseAll(b) ==
  IF AtEnd(b) THEN [data |-> <<>>, buf |-> b]
  ELSE LET r == InputNext(b)
           q == ParseAll(r.buf)
       IN  [q EXCEPT !.data = r.data \o @]

Parse ==
  /\ stage = "body" /\ read_buf.total_size >= body_len /\ fault = "none"
  /\ read_buf.chain # <<>>
  /\ LET r == ParseAll(PushLimit(read_buf, body_len))
     IN  /\ read_buf' = PopLimit(r.buf)
         /\ received' = Append(received, r.data)
  /\ stage' = "length"
  /\ UNCHANGED <<senderVars, net, body_len, fault>>

(* input_next on a buffer without blocks: an empty message whose length was *)
(* all there was.                                                           *)
ParseNull ==
  /\ stage = "body" /\ read_buf.total_size >= body_len /\ fault = "none"
  /\ read_buf.chain = <<>>
  /\ fault' = "null"
  /\ UNCHANGED <<senderVars, net, receiverVars>>

-----------------------------------------------------------------------------
SenderStep   == Send \/ WriteBegin \/ Writev \/ WriteEnd
ReceiverStep == AsyncRead \/ AsyncReadNull \/ ReadLength \/ Parse \/ ParseNull

Next == SenderStep \/ ReceiverStep

Spec == Init /\ [][Next]_vars

-----------------------------------------------------------------------------
(* Properties *)

(* A message was laid over a block that was still to be sent, or its start  *)
(* was sent twice, or a thread is gone.                                     *)
Damaged == crossed \/ resent \/ fault # "none"

Stream == INSTANCE FrameStream WITH
  Messages <- {Message(k, n) : k \in 1 .. MaxMessages, n \in BodySizes},
  broken   <- Damaged

(* The messages that recv_fn parses are the ones that were serialised, in   *)
(* order, whatever the pieces in which they travel and the blocks in which  *)
(* they lie, as long as none of them outgrows the rest of its block in      *)
(* write_buf_, no writev is repeated and read() leaves a block to go on     *)
(* with.                                                                    *)
StreamImplemented == Stream!Spec

WellFormed(b) ==
  /\ \A i \in DOMAIN b.chain : 
       /\ b.chain[i].read_pos \in 0 .. b.chain[i].write_pos
       /\ b.chain[i].write_pos \in 0 .. BlockSize
  /\ b.free_list \in Nat

(* Both buffers are well formed, and only read() on read_buf_ leaves a      *)
(* buffer without a block.                                                  *)
TypeOK ==
  /\ WellFormed(write_buf) /\ WellFormed(read_buf)
  /\ write_buf.chain # <<>>
  /\ read_buf.chain = <<>> => stage = "body" /\ read_buf.total_size = 0
  /\ stage \in {"length", "body"} /\ body_len \in Nat
  /\ need_write \in Nat /\ written \in Nat
  /\ crossed \in BOOLEAN /\ resent \in BOOLEAN
  /\ fault \in {"none", "null", "hang"}

(* total_size_, from which recv_fn and async_write decide what to wait for  *)
(* and what to send, is what the blocks hold.                               *)
SizeIsContents ==
  /\ read_buf.total_size = Len(Contents(read_buf.chain))
  /\ ~crossed => write_buf.total_size = Len(Contents(write_buf.chain))

(* async_read never finds the tail full: its read would be for no bytes,    *)
(* which looks like EAGAIN, and recv_fn would wait for an event that the    *)
(* data already there does not cause.                                       *)
RoomToRead == read_buf.chain # <<>> => ~Full(TailBlock(read_buf))

(* input_next takes an empty head for the end of the data, get_iovecs       *)
(* spends an iovec on every block, and async_read must find room: only the  *)
(* tail may be empty, only the head and the tail are partly filled, and the *)
(* tail of read_buf_ is never full.                                         *)
ChainIsTight ==
  /\ RoomToRead
  /\ \A b \in {read_buf} \cup (IF crossed THEN {} ELSE {write_buf}) :
       \A i \in 1 .. Len(b.chain) - 1 :
         /\ Full(b.chain[i]) /\ ~Empty(b.chain[i])
         /\ i > 1 => b.chain[i].read_pos = 0

(* Nothing is left behind: when everything has been sent and recv_fn waits  *)
(* for bytes, every message that was serialised has been parsed.            *)
NothingLeftBehind ==
  /\ need_write = 0 /\ write_buf.total_size = 0 /\ net = <<>>
  /\ read_buf.total_size < Wanted /\ ~Damaged
  => received = sent
=============================================================================
