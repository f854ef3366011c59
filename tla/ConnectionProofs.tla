-------------------------- MODULE ConnectionProofs --------------------------
(***************************************************************************)
(* What the steps of a net::Connection preserve, whatever recv_fn does     *)
(* with a frame: the part of the argument that RpcServer and ClientChannel *)
(* share.  SendRoom, the number of parts and the length of a message are   *)
(* arbitrary.                                                              *)
(***************************************************************************)
EXTENDS Connection, TLAPS

(* The life of the two coroutines: send_fn is started first, neither ends   *)
(* on an open connection, and an open connection is watched by epoll from   *)
(* the start of recv_fn on.  Nothing is written before that.                *)
CoroutinesInv ==
  /\ recv # "unstarted" => send # "unstarted"
  /\ recv = "unstarted" => interest = "none" /\ ret = "idle" /\ at # "in"
  /\ recv = "done" \/ send = "done" => closed
  /\ ~closed /\ recv # "unstarted" => interest # "none"
  /\ ~closed /\ recv = "unstarted" =>
       write_buf = <<>> /\ send # "blocked" /\ at \notin {"write", "writev"}
  /\ at \in InSend /\ ret = "await" => closed

(* ReadinessNotLost, also while send_fn runs and from the read that found   *)
(* nothing to the suspension.                                               *)
ReadInv ==
  ~closed /\ (recv = "suspended" \/ (at \in {"await", "park"} /\ should_suspend)) =>
    (InReady => edge)

(* WritabilityNotLost, wherever the thread is. *)
WriteInv ==
  /\ ~closed /\ send = "blocked" => interest = "inout" /\ (OutReady => edge)
  /\ send = "wait" => write_buf = <<>>

(* Parts that have left write_buf_, and those the current writev has sent.  *)
Committed == outbound - Len(write_buf)
Sent      == IF at = "writev" THEN written ELSE 0

(* Until a writev is retried, the wire holds the first parts in order and   *)
(* write_buf_ the rest, except that the current async_write has sent the    *)
(* first of these already.                                                  *)
WireInv ==
  ~retried =>
    /\ Len(write_buf) <= outbound
    /\ \A j \in 1 .. Len(write_buf) : write_buf[j] = Committed + j
    /\ Sent <= Len(write_buf)
    /\ Len(wire) = Committed + Sent
    /\ \A i \in 1 .. Len(wire) : wire[i] = i

ConnectionInv ==
  ConnectionTypes /\ CoroutinesInv /\ ReadInv /\ WriteInv /\ WireInv /\ OpenResumesLive

-----------------------------------------------------------------------------
(* Lemmas about the operators of the model *)

(* The number of parts one writev takes. *)
LEMMA MinOfTwo ==
  ASSUME NEW a \in Nat, NEW b \in Nat
  PROVE  Min({a, b}) \in 0 .. a /\ Min({a, b}) <= b
  <1>1. \E x \in {a, b} : \A y \in {a, b} : x <= y
    OBVIOUS
  <1> QED
    BY <1>1 DEF Min

LEMMA PrefixOf ==
  ASSUME NEW s \in Seq(Nat), NEW n \in 0 .. Len(s)
  PROVE  /\ Prefix(s, n) \in Seq(Nat) /\ Len(Prefix(s, n)) = n
         /\ \A j \in 1 .. n : Prefix(s, n)[j] = s[j]
  BY DEF Prefix

LEMMA RestOf ==
  ASSUME NEW s \in Seq(Nat), NEW n \in 0 .. Len(s)
  PROVE  /\ SubSeq(s, n + 1, Len(s)) \in Seq(Nat)
         /\ Len(SubSeq(s, n + 1, Len(s))) = Len(s) - n
         /\ \A j \in 1 .. Len(s) - n : SubSeq(s, n + 1, Len(s))[j] = s[n + j]
  OBVIOUS

LEMMA Concat ==
  ASSUME NEW s \in Seq(Nat), NEW t \in Seq(Nat)
  PROVE  /\ s \o t \in Seq(Nat) /\ Len(s \o t) = Len(s) + Len(t)
         /\ \A j \in 1 .. Len(s) + Len(t) :
              (s \o t)[j] = IF j <= Len(s) THEN s[j] ELSE t[j - Len(s)]
  OBVIOUS

(* The parts of a message, numbered from m on. *)
LEMMA MessageOf ==
  ASSUME NEW m \in Nat, NEW k \in Nat
  PROVE  /\ [i \in 1 .. k |-> m + i] \in Seq(Nat)
         /\ Len([i \in 1 .. k |-> m + i]) = k
  OBVIOUS

(* epoll reports what the socket is ready for. *)
LEMMA MaskOf ==
  ASSUME NEW i
  PROVE  /\ "in" \in Mask(i) <=> i # "none" /\ InReady
         /\ "out" \in Mask(i) <=> i = "inout" /\ OutReady
         /\ "hup" \in Mask(i) <=> i # "none" /\ HupReady
         /\ Mask(i) = {"in"} => InReady /\ (i = "inout" => ~OutReady)
  BY DEF Mask

-----------------------------------------------------------------------------
(* The shared steps *)

LEMMA WireKept ==
  ASSUME WireInv, UNCHANGED <<write_buf, wire, retried, outbound>>,
         at' = "writev" <=> at = "writev", at = "writev" => written' = written
  PROVE  WireInv'
  BY DEF WireInv, Committed, Sent

LEMMA EventHupKeeps == ConnectionInv /\ EventHup => ConnectionInv'
  <1> SUFFICES ASSUME ConnectionInv, EventHup PROVE ConnectionInv'
    OBVIOUS
  <1> USE MaskOf, ConnectionAssumption DEF ConnectionInv, EventHup, Reported, Unwatch, Running, Live, InSend, netVars, pollVars, writeVars, coVars, recvVars
  <1>1. ConnectionTypes'
    <2>1. edge' \in BOOLEAN /\ closed' \in BOOLEAN
      BY DEF ConnectionTypes, InReady
    <2>2. OneThread'
      BY DEF ConnectionTypes, OneThread
    <2> QED
      BY <2>1, <2>2 DEF ConnectionTypes
  <1>2. CoroutinesInv'
    BY DEF CoroutinesInv, ConnectionTypes, OneThread
  <1>3. ReadInv'
    BY DEF ReadInv, CoroutinesInv, ConnectionTypes, OneThread, InReady
  <1>4. WriteInv'
    BY DEF WriteInv, CoroutinesInv, ConnectionTypes, OneThread, OutReady
  <1>5. WireInv'
    BY WireKept DEF ConnectionTypes
  <1>6. OpenResumesLive'
    BY DEF OpenResumesLive, CoroutinesInv, ConnectionTypes, OneThread
  <1> QED
    BY <1>1, <1>2, <1>3, <1>4, <1>5, <1>6

LEMMA EventOutKeeps == ConnectionInv /\ EventOut => ConnectionInv'
  <1> SUFFICES ASSUME ConnectionInv, EventOut PROVE ConnectionInv'
    OBVIOUS
  <1> USE MaskOf, ConnectionAssumption DEF ConnectionInv, EventOut, Reported, ResumeWrite, Running, Live, InSend, netVars, pollVars, writeVars, coVars, recvVars
  <1>1. ConnectionTypes'
    <2>1. edge' \in BOOLEAN /\ closed' \in BOOLEAN
      BY DEF ConnectionTypes, InReady
    <2>2. OneThread'
      BY DEF ConnectionTypes, OneThread
    <2> QED
      BY <2>1, <2>2 DEF ConnectionTypes
  <1>2. CoroutinesInv'
    BY DEF CoroutinesInv, ConnectionTypes, OneThread
  <1>3. ReadInv'
    BY DEF ReadInv, CoroutinesInv, ConnectionTypes, OneThread, InReady
  <1>4. WriteInv'
    BY DEF WriteInv, CoroutinesInv, ConnectionTypes, OneThread, OutReady
  <1>5. WireInv'
    BY WireKept DEF ConnectionTypes
  <1>6. OpenResumesLive'
    BY DEF OpenResumesLive, CoroutinesInv, ConnectionTypes, OneThread
  <1> QED
    BY <1>1, <1>2, <1>3, <1>4, <1>5, <1>6

LEMMA EventInKeeps == ConnectionInv /\ EventIn => ConnectionInv'
  <1> SUFFICES ASSUME ConnectionInv, EventIn PROVE ConnectionInv'
    OBVIOUS
  <1> USE MaskOf, ConnectionAssumption DEF ConnectionInv, EventIn, Reported, ResumeRead, Running, Live, InSend, netVars, pollVars, writeVars, coVars, recvVars
  <1>1. ConnectionTypes'
    <2>1. edge' \in BOOLEAN /\ closed' \in BOOLEAN
      BY DEF ConnectionTypes, InReady
    <2>2. OneThread'
      BY DEF ConnectionTypes, OneThread
    <2> QED
      BY <2>1, <2>2 DEF ConnectionTypes
  <1>2. CoroutinesInv'
    BY DEF CoroutinesInv, ConnectionTypes, OneThread
  <1>3. ReadInv'
    BY DEF ReadInv, CoroutinesInv, ConnectionTypes, OneThread, InReady
  <1>4. WriteInv'
    BY DEF WriteInv, CoroutinesInv, ConnectionTypes, OneThread, OutReady
  <1>5. WireInv'
    BY WireKept DEF ConnectionTypes
  <1>6. OpenResumesLive'
    BY DEF OpenResumesLive, CoroutinesInv, ConnectionTypes, OneThread
  <1> QED
    BY <1>1, <1>2, <1>3, <1>4, <1>5, <1>6

LEMMA EventInAfterOutKeeps == ConnectionInv /\ EventInAfterOut => ConnectionInv'
  <1> SUFFICES ASSUME ConnectionInv, EventInAfterOut PROVE ConnectionInv'
    OBVIOUS
  <1> USE MaskOf, ConnectionAssumption DEF ConnectionInv, EventInAfterOut, ResumeRead, Running, Live, InSend, netVars, pollVars, writeVars, coVars, recvVars
  <1>1. ConnectionTypes'
    BY DEF ConnectionTypes, OneThread
  <1>2. CoroutinesInv'
    BY DEF CoroutinesInv, ConnectionTypes, OneThread
  <1>3. ReadInv'
    BY DEF ReadInv, CoroutinesInv, ConnectionTypes, OneThread, InReady
  <1>4. WriteInv'
    BY DEF WriteInv, CoroutinesInv, ConnectionTypes, OneThread, OutReady
  <1>5. WireInv'
    BY WireKept DEF ConnectionTypes
  <1>6. OpenResumesLive'
    BY DEF OpenResumesLive, CoroutinesInv, ConnectionTypes, OneThread
  <1> QED
    BY <1>1, <1>2, <1>3, <1>4, <1>5, <1>6

LEMMA StartSendKeeps == ConnectionInv /\ StartSend => ConnectionInv'
  <1> SUFFICES ASSUME ConnectionInv, StartSend PROVE ConnectionInv'
    OBVIOUS
  <1> USE MaskOf, ConnectionAssumption DEF ConnectionInv, StartSend, Running, Live, InSend, netVars, pollVars, writeVars, coVars, recvVars
  <1>1. ConnectionTypes'
    BY DEF ConnectionTypes, OneThread
  <1>2. CoroutinesInv'
    BY DEF CoroutinesInv, ConnectionTypes, OneThread
  <1>3. ReadInv'
    BY DEF ReadInv, CoroutinesInv, ConnectionTypes, OneThread, InReady
  <1>4. WriteInv'
    BY DEF WriteInv, CoroutinesInv, ConnectionTypes, OneThread, OutReady
  <1>5. WireInv'
    BY WireKept DEF ConnectionTypes
  <1>6. OpenResumesLive'
    BY DEF OpenResumesLive, CoroutinesInv, ConnectionTypes, OneThread
  <1> QED
    BY <1>1, <1>2, <1>3, <1>4, <1>5, <1>6

LEMMA WriteBeginKeeps == ConnectionInv /\ WriteBegin => ConnectionInv'
  <1> SUFFICES ASSUME ConnectionInv, WriteBegin PROVE ConnectionInv'
    OBVIOUS
  <1> USE MaskOf, ConnectionAssumption DEF ConnectionInv, WriteBegin, Running, Live, InSend, netVars, pollVars, writeVars, coVars, recvVars
  <1>1. ConnectionTypes'
    BY DEF ConnectionTypes, OneThread
  <1>2. CoroutinesInv'
    BY DEF CoroutinesInv, ConnectionTypes, OneThread
  <1>3. ReadInv'
    BY DEF ReadInv, CoroutinesInv, ConnectionTypes, OneThread, InReady
  <1>4. WriteInv'
    BY DEF WriteInv, CoroutinesInv, ConnectionTypes, OneThread, OutReady
  <1>5. WireInv'
    BY DEF WireInv, Committed, Sent, ConnectionTypes
  <1>6. OpenResumesLive'
    BY DEF OpenResumesLive, CoroutinesInv, ConnectionTypes, OneThread
  <1> QED
    BY <1>1, <1>2, <1>3, <1>4, <1>5, <1>6

LEMMA WriteOvershootKeeps == ConnectionInv /\ WriteOvershoot => ConnectionInv'
  <1> SUFFICES ASSUME ConnectionInv, WriteOvershoot PROVE ConnectionInv'
    OBVIOUS
  <1> USE MaskOf, ConnectionAssumption DEF ConnectionInv, WriteOvershoot, WriteLoopEnds, Running, Live, InSend, netVars, pollVars, writeVars, coVars, recvVars
  <1>1. ConnectionTypes'
    BY DEF ConnectionTypes, OneThread
  <1>2. CoroutinesInv'
    BY DEF CoroutinesInv, ConnectionTypes, OneThread
  <1>3. ReadInv'
    BY DEF ReadInv, CoroutinesInv, ConnectionTypes, OneThread, InReady
  <1>4. WriteInv'
    BY DEF WriteInv, CoroutinesInv, ConnectionTypes, OneThread, OutReady
  <1>5. WireInv'
    BY WireKept DEF ConnectionTypes
  <1>6. OpenResumesLive'
    BY DEF OpenResumesLive, CoroutinesInv, ConnectionTypes, OneThread
  <1> QED
    BY <1>1, <1>2, <1>3, <1>4, <1>5, <1>6

LEMMA WriteKilledKeeps == ConnectionInv /\ WriteKilled => ConnectionInv'
  <1> SUFFICES ASSUME ConnectionInv, WriteKilled PROVE ConnectionInv'
    OBVIOUS
  <1> USE MaskOf, ConnectionAssumption DEF ConnectionInv, WriteKilled, Running, Live, InSend, netVars, pollVars, writeVars, coVars, recvVars
  <1>1. ConnectionTypes'
    BY DEF ConnectionTypes, OneThread
  <1>2. CoroutinesInv'
    BY DEF CoroutinesInv, ConnectionTypes, OneThread
  <1>3. ReadInv'
    BY DEF ReadInv, CoroutinesInv, ConnectionTypes, OneThread, InReady
  <1>4. WriteInv'
    BY DEF WriteInv, CoroutinesInv, ConnectionTypes, OneThread, OutReady
  <1>5. WireInv'
    BY WireKept DEF ConnectionTypes
  <1>6. OpenResumesLive'
    BY DEF OpenResumesLive, CoroutinesInv, ConnectionTypes, OneThread
  <1> QED
    BY <1>1, <1>2, <1>3, <1>4, <1>5, <1>6

LEMMA SendLoopKeeps == ConnectionInv /\ SendLoop => ConnectionInv'
  <1> SUFFICES ASSUME ConnectionInv, SendLoop PROVE ConnectionInv'
    OBVIOUS
  <1> USE MaskOf, ConnectionAssumption DEF ConnectionInv, SendLoop, SendGoesOn, Destroys, Unwatch, Running, Live, InSend, netVars, pollVars, writeVars, coVars, recvVars
  <1>1. ConnectionTypes'
    <2>1. edge' \in BOOLEAN /\ closed' \in BOOLEAN
      BY DEF ConnectionTypes, InReady
    <2>2. OneThread'
      BY DEF ConnectionTypes, OneThread
    <2> QED
      BY <2>1, <2>2 DEF ConnectionTypes
  <1>2. CoroutinesInv'
    BY DEF CoroutinesInv, ConnectionTypes, OneThread
  <1>3. ReadInv'
    BY DEF ReadInv, CoroutinesInv, ConnectionTypes, OneThread, InReady
  <1>4. WriteInv'
    BY DEF WriteInv, CoroutinesInv, ConnectionTypes, OneThread, OutReady
  <1>5. WireInv'
    BY WireKept DEF ConnectionTypes
  <1>6. OpenResumesLive'
    BY DEF OpenResumesLive, CoroutinesInv, ConnectionTypes, OneThread
  <1> QED
    BY <1>1, <1>2, <1>3, <1>4, <1>5, <1>6

LEMMA WaitWriteKeeps == ConnectionInv /\ WaitWrite => ConnectionInv'
  <1> SUFFICES ASSUME ConnectionInv, WaitWrite PROVE ConnectionInv'
    OBVIOUS
  <1> USE MaskOf, ConnectionAssumption DEF ConnectionInv, WaitWrite, Running, Live, InSend, netVars, pollVars, writeVars, coVars, recvVars
  <1>1. ConnectionTypes'
    BY DEF ConnectionTypes, OneThread
  <1>2. CoroutinesInv'
    BY DEF CoroutinesInv, ConnectionTypes, OneThread
  <1>3. ReadInv'
    BY DEF ReadInv, CoroutinesInv, ConnectionTypes, OneThread, InReady
  <1>4. WriteInv'
    BY DEF WriteInv, CoroutinesInv, ConnectionTypes, OneThread, OutReady
  <1>5. WireInv'
    BY WireKept DEF ConnectionTypes
  <1>6. OpenResumesLive'
    BY DEF OpenResumesLive, CoroutinesInv, ConnectionTypes, OneThread
  <1> QED
    BY <1>1, <1>2, <1>3, <1>4, <1>5, <1>6

LEMMA StartRecvKeeps == ConnectionInv /\ StartRecv => ConnectionInv'
  <1> SUFFICES ASSUME ConnectionInv, StartRecv PROVE ConnectionInv'
    OBVIOUS
  <1> USE MaskOf, ConnectionAssumption DEF ConnectionInv, StartRecv, Watch, Running, Live, InSend, netVars, pollVars, writeVars, coVars, recvVars
  <1>1. ConnectionTypes'
    BY DEF ConnectionTypes, OneThread
  <1>2. CoroutinesInv'
    BY DEF CoroutinesInv, ConnectionTypes, OneThread
  <1>3. ReadInv'
    BY DEF ReadInv, CoroutinesInv, ConnectionTypes, OneThread, InReady
  <1>4. WriteInv'
    BY DEF WriteInv, CoroutinesInv, ConnectionTypes, OneThread, OutReady
  <1>5. WireInv'
    BY WireKept DEF ConnectionTypes
  <1>6. OpenResumesLive'
    BY DEF OpenResumesLive, CoroutinesInv, ConnectionTypes, OneThread
  <1> QED
    BY <1>1, <1>2, <1>3, <1>4, <1>5, <1>6

LEMMA ReadAwaitKeeps == ConnectionInv /\ ReadAwait => ConnectionInv'
  <1> SUFFICES ASSUME ConnectionInv, ReadAwait PROVE ConnectionInv'
    OBVIOUS
  <1> USE MaskOf, ConnectionAssumption DEF ConnectionInv, ReadAwait, Unwatch, Running, Live, InSend, netVars, pollVars, writeVars, coVars, recvVars
  <1>1. ConnectionTypes'
    <2>1. edge' \in BOOLEAN /\ closed' \in BOOLEAN
      BY DEF ConnectionTypes, InReady
    <2>2. OneThread'
      BY DEF ConnectionTypes, OneThread
    <2> QED
      BY <2>1, <2>2 DEF ConnectionTypes
  <1>2. CoroutinesInv'
    BY DEF CoroutinesInv, ConnectionTypes, OneThread
  <1>3. ReadInv'
    BY DEF ReadInv, CoroutinesInv, ConnectionTypes, OneThread, InReady
  <1>4. WriteInv'
    BY DEF WriteInv, CoroutinesInv, ConnectionTypes, OneThread, OutReady
  <1>5. WireInv'
    BY WireKept DEF ConnectionTypes
  <1>6. OpenResumesLive'
    BY DEF OpenResumesLive, CoroutinesInv, ConnectionTypes, OneThread
  <1> QED
    BY <1>1, <1>2, <1>3, <1>4, <1>5, <1>6

LEMMA ReadParkKeeps == ConnectionInv /\ ReadPark => ConnectionInv'
  <1> SUFFICES ASSUME ConnectionInv, ReadPark PROVE ConnectionInv'
    OBVIOUS
  <1> USE MaskOf, ConnectionAssumption DEF ConnectionInv, ReadPark, ReadParks, Running, Live, InSend, netVars, pollVars, writeVars, coVars, recvVars
  <1>1. ConnectionTypes'
    BY DEF ConnectionTypes, OneThread
  <1>2. CoroutinesInv'
    BY DEF CoroutinesInv, ConnectionTypes, OneThread
  <1>3. ReadInv'
    BY DEF ReadInv, CoroutinesInv, ConnectionTypes, OneThread, InReady
  <1>4. WriteInv'
    BY DEF WriteInv, CoroutinesInv, ConnectionTypes, OneThread, OutReady
  <1>5. WireInv'
    BY WireKept DEF ConnectionTypes
  <1>6. OpenResumesLive'
    BY DEF OpenResumesLive, CoroutinesInv, ConnectionTypes, OneThread
  <1> QED
    BY <1>1, <1>2, <1>3, <1>4, <1>5, <1>6

(* One writev: what it takes from write_buf_ follows what is on the wire. *)
LEMMA WritevKeeps == ConnectionInv /\ Writev => ConnectionInv'
  <1> SUFFICES ASSUME ConnectionInv, Writev PROVE ConnectionInv'
    OBVIOUS
  <1> DEFINE n == Min({room, Len(write_buf)})
  <1>0. /\ n \in 0 .. room /\ n \in 0 .. Len(write_buf)
        /\ wire \in Seq(Nat) /\ write_buf \in Seq(Nat)
        /\ room \in 0 .. SendRoom /\ written \in Nat /\ SendRoom \in Nat
        /\ outbound \in Nat
    <2>1. room \in Nat /\ Len(write_buf) \in Nat
      BY ConnectionAssumption DEF ConnectionInv, ConnectionTypes
    <2> QED
      BY <2>1, MinOfTwo, ConnectionAssumption DEF ConnectionInv, ConnectionTypes
  <1>1. /\ wire' = wire \o Prefix(write_buf, n) /\ room' = room - n /\ written' = written + n
        /\ retried' = (retried \/ written > 0)
        /\ at = "writev" /\ room > 0
        /\ UNCHANGED <<peer, arrived, inbound, pollVars, closed, recvVars, write_buf, need_write,
                       outbound, coVars, fault>>
    BY DEF Writev
  <1> HIDE DEF n
  <1>2. /\ wire' \in Seq(Nat) /\ Len(wire') = Len(wire) + n
        /\ \A j \in 1 .. Len(wire) : wire'[j] = wire[j]
        /\ \A j \in 1 .. Len(wire') : j > Len(wire) => wire'[j] = write_buf[j - Len(wire)]
    <2>1. /\ Prefix(write_buf, n) \in Seq(Nat) /\ Len(Prefix(write_buf, n)) = n
          /\ \A j \in 1 .. n : Prefix(write_buf, n)[j] = write_buf[j]
      BY <1>0, PrefixOf
    <2>2. /\ wire' \in Seq(Nat) /\ Len(wire') = Len(wire) + n
          /\ \A j \in 1 .. Len(wire) + n :
               wire'[j] = IF j <= Len(wire) THEN wire[j] ELSE Prefix(write_buf, n)[j - Len(wire)]
      BY <1>0, <1>1, <2>1, Concat
    <2>3. Len(wire) \in Nat
      BY <1>0
    <2>4. ASSUME NEW j \in 1 .. Len(wire) PROVE wire'[j] = wire[j]
      BY <1>0, <2>2, <2>3
    <2>5. ASSUME NEW j \in 1 .. Len(wire'), j > Len(wire)
          PROVE  wire'[j] = write_buf[j - Len(wire)]
      <3>1. j \in 1 .. Len(wire) + n /\ j - Len(wire) \in 1 .. n /\ ~(j <= Len(wire))
        BY <1>0, <2>2, <2>3, <2>5
      <3> QED
        BY <2>1, <2>2, <3>1
    <2> QED
      BY <2>2, <2>4, <2>5
  <1>3. ConnectionTypes'
    <2>1. retried' \in BOOLEAN
      BY <1>1
    <2>2. room' \in 0 .. SendRoom /\ written' \in Nat
      BY <1>0, <1>1
    <2>3. OneThread'
      BY <1>1 DEF ConnectionInv, ConnectionTypes, OneThread, coVars
    <2> QED
      BY <1>1, <1>2, <2>1, <2>2, <2>3
         DEF ConnectionInv, ConnectionTypes, pollVars, recvVars, coVars
  <1>4. CoroutinesInv' /\ ReadInv' /\ OpenResumesLive'
    BY <1>1 DEF ConnectionInv, CoroutinesInv, ReadInv, InReady, OpenResumesLive, pollVars,
                recvVars, coVars
  <1>5. WriteInv'
    BY <1>1 DEF ConnectionInv, ConnectionTypes, WriteInv, OneThread, InSend, coVars
  <1>6. WireInv'
    <2> SUFFICES ASSUME ~retried' PROVE WireInv'
      BY DEF WireInv
    <2>1. ~retried /\ written = 0
      <3>1. ~retried /\ ~(written > 0)
        BY <1>1, Zenon
      <3> QED
        BY <1>0, <3>1
    <2>2. /\ Len(write_buf) <= outbound /\ Len(wire) = outbound - Len(write_buf)
          /\ \A j \in 1 .. Len(write_buf) : write_buf[j] = outbound - Len(write_buf) + j
          /\ \A i \in 1 .. Len(wire) : wire[i] = i
      BY <1>0, <1>1, <2>1 DEF ConnectionInv, WireInv, Committed, Sent
    <2>3. at' = "writev" /\ written' = n /\ write_buf' = write_buf /\ outbound' = outbound
      BY <1>0, <1>1, <2>1 DEF coVars
    <2>4. \A i \in 1 .. Len(wire') : wire'[i] = i
      <3> SUFFICES ASSUME NEW i \in 1 .. Len(wire') PROVE wire'[i] = i
        OBVIOUS
      <3>1. CASE i <= Len(wire)
        <4>1. i \in 1 .. Len(wire)
          BY <1>0, <3>1
        <4> QED
          BY <1>2, <2>2, <4>1
      <3>2. CASE i > Len(wire)
        <4>1. i - Len(wire) \in 1 .. Len(write_buf)
          BY <1>0, <1>2, <3>2
        <4>2. wire'[i] = write_buf[i - Len(wire)]
          BY <1>2, <3>2
        <4>3. write_buf[i - Len(wire)] = Len(wire) + (i - Len(wire))
          BY <2>2, <4>1
        <4> QED
          BY <1>0, <4>2, <4>3
      <3> QED
        BY <1>0, <3>1, <3>2
    <2> QED
      BY <1>0, <1>2, <2>2, <2>3, <2>4 DEF WireInv, Committed, Sent
  <1> QED
    BY <1>3, <1>4, <1>5, <1>6 DEF ConnectionInv

(* commit_send: what the writev of this async_write has sent leaves         *)
(* write_buf_.                                                              *)
LEMMA CommitKeepsWire ==
  ASSUME ConnectionInv, at = "writev", at' # "writev", CommitSend,
         UNCHANGED <<outbound, wire, retried>>
  PROVE  WireInv' /\ write_buf' \in Seq(Nat)
  <1>0. /\ write_buf \in Seq(Nat) /\ written \in 0 .. Len(write_buf)
        /\ outbound \in Nat /\ wire \in Seq(Nat)
    BY DEF ConnectionInv, ConnectionTypes, CommitSend
  <1>1. /\ write_buf' \in Seq(Nat) /\ Len(write_buf') = Len(write_buf) - written
        /\ \A j \in 1 .. Len(write_buf) - written : write_buf'[j] = write_buf[written + j]
    BY <1>0, RestOf DEF CommitSend
  <1>2. WireInv'
    <2> SUFFICES ASSUME ~retried' PROVE WireInv'
      BY DEF WireInv
    <2>1. /\ Len(write_buf) <= outbound
          /\ \A j \in 1 .. Len(write_buf) : write_buf[j] = outbound - Len(write_buf) + j
          /\ Len(wire) = outbound - Len(write_buf) + written
          /\ \A i \in 1 .. Len(wire) : wire[i] = i
      BY DEF ConnectionInv, WireInv, Committed, Sent
    <2>2. /\ Len(write_buf') <= outbound
          /\ \A j \in 1 .. Len(write_buf') : write_buf'[j] = outbound - Len(write_buf') + j
          /\ Len(wire) = outbound - Len(write_buf') /\ 0 <= Len(write_buf')
      <3>1. /\ Len(write_buf') <= outbound /\ 0 <= Len(write_buf')
            /\ Len(wire) = outbound - Len(write_buf')
        BY <1>0, <1>1, <2>1
      <3>2. ASSUME NEW j \in 1 .. Len(write_buf')
            PROVE  write_buf'[j] = outbound - Len(write_buf') + j
        <4>1. written + j \in 1 .. Len(write_buf) /\ j \in 1 .. Len(write_buf) - written
          BY <1>0, <1>1
        <4>2. write_buf'[j] = outbound - Len(write_buf) + (written + j)
          BY <1>1, <2>1, <4>1
        <4> QED
          BY <1>0, <1>1, <4>2
      <3> QED
        BY <3>1, <3>2
    <2> QED
      BY <2>1, <2>2, <1>0, <1>1 DEF WireInv, Committed, Sent
  <1> QED
    BY <1>1, <1>2

LEMMA WriteSuspendKeeps == ConnectionInv /\ WriteSuspend => ConnectionInv'
  <1> SUFFICES ASSUME ConnectionInv, WriteSuspend PROVE ConnectionInv'
    OBVIOUS
  <1> USE MaskOf DEF ConnectionInv, WriteSuspend, WatchWrite, Watch, WriteLoopEnds, Live, InSend, netVars, pollVars, recvVars
  <1>1. WireInv' /\ write_buf' \in Seq(Nat)
    BY CommitKeepsWire DEF ConnectionTypes
  <1>2. ConnectionTypes'
    <2>1. edge' \in BOOLEAN
      BY DEF ConnectionTypes
    <2>2. OneThread'
      BY DEF ConnectionTypes, OneThread
    <2> QED
      BY <1>1, <2>1, <2>2 DEF ConnectionTypes
  <1>3. CoroutinesInv'
    BY DEF CoroutinesInv, ConnectionTypes, OneThread
  <1>4. ReadInv'
    BY DEF ReadInv, CoroutinesInv, ConnectionTypes, OneThread, InReady
  <1>5. WriteInv'
    BY DEF WriteInv, CoroutinesInv, ConnectionTypes, OneThread, OutReady
  <1>6. OpenResumesLive'
    BY DEF OpenResumesLive
  <1> QED
    BY <1>1, <1>2, <1>3, <1>4, <1>5, <1>6

LEMMA WriteDoneKeeps == ConnectionInv /\ WriteDone => ConnectionInv'
  <1> SUFFICES ASSUME ConnectionInv, WriteDone PROVE ConnectionInv'
    OBVIOUS
  <1> USE MaskOf DEF ConnectionInv, WriteDone, WriteLoopEnds, Live, InSend, netVars, pollVars, recvVars
  <1>1. WireInv' /\ write_buf' \in Seq(Nat)
    BY CommitKeepsWire DEF ConnectionTypes
  <1>2. ConnectionTypes'
    <2>1. edge' \in BOOLEAN
      BY DEF ConnectionTypes
    <2>2. OneThread'
      BY DEF ConnectionTypes, OneThread
    <2> QED
      BY <1>1, <2>1, <2>2 DEF ConnectionTypes
  <1>3. CoroutinesInv'
    BY DEF CoroutinesInv, ConnectionTypes, OneThread
  <1>4. ReadInv'
    BY DEF ReadInv, CoroutinesInv, ConnectionTypes, OneThread, InReady
  <1>5. WriteInv'
    BY DEF WriteInv, CoroutinesInv, ConnectionTypes, OneThread, OutReady
  <1>6. OpenResumesLive'
    BY DEF OpenResumesLive
  <1> QED
    BY <1>1, <1>2, <1>3, <1>4, <1>5, <1>6

(* What the peer's side does. *)
LEMMA PeerSendKeeps == ConnectionInv /\ PeerSend => ConnectionInv'
  <1> SUFFICES ASSUME ConnectionInv, PeerSend PROVE ConnectionInv'
    OBVIOUS
  <1> USE ConnectionAssumption DEF ConnectionInv, PeerSend, Wake, recvVars, writeVars, coVars
  <1>1. ConnectionTypes'
    <2>1. edge' \in BOOLEAN
      BY DEF ConnectionTypes
    <2>2. OneThread'
      BY DEF ConnectionTypes, OneThread
    <2> QED
      BY <2>1, <2>2 DEF ConnectionTypes
  <1>2. CoroutinesInv' /\ OpenResumesLive'
    BY DEF CoroutinesInv, OpenResumesLive, ConnectionTypes
  <1>3. ReadInv'
    BY DEF ReadInv, CoroutinesInv, ConnectionTypes, OneThread, InReady, InSend
  <1>4. WriteInv'
    BY DEF WriteInv, CoroutinesInv, ConnectionTypes, OneThread, OutReady
  <1>5. WireInv'
    BY WireKept
  <1> QED
    BY <1>1, <1>2, <1>3, <1>4, <1>5

LEMMA PeerFinKeeps == ConnectionInv /\ PeerFin => ConnectionInv'
  <1> SUFFICES ASSUME ConnectionInv, PeerFin PROVE ConnectionInv'
    OBVIOUS
  <1> USE ConnectionAssumption DEF ConnectionInv, PeerFin, Wake, recvVars, writeVars, coVars
  <1>1. ConnectionTypes'
    <2>1. edge' \in BOOLEAN
      BY DEF ConnectionTypes
    <2>2. OneThread'
      BY DEF ConnectionTypes, OneThread
    <2> QED
      BY <2>1, <2>2 DEF ConnectionTypes
  <1>2. CoroutinesInv' /\ OpenResumesLive'
    BY DEF CoroutinesInv, OpenResumesLive, ConnectionTypes
  <1>3. ReadInv'
    BY DEF ReadInv, CoroutinesInv, ConnectionTypes, OneThread, InReady, InSend
  <1>4. WriteInv'
    BY DEF WriteInv, CoroutinesInv, ConnectionTypes, OneThread, OutReady
  <1>5. WireInv'
    BY WireKept
  <1> QED
    BY <1>1, <1>2, <1>3, <1>4, <1>5

LEMMA PeerResetKeeps == ConnectionInv /\ PeerReset => ConnectionInv'
  <1> SUFFICES ASSUME ConnectionInv, PeerReset PROVE ConnectionInv'
    OBVIOUS
  <1> USE ConnectionAssumption DEF ConnectionInv, PeerReset, Wake, recvVars, writeVars, coVars
  <1>1. ConnectionTypes'
    <2>1. edge' \in BOOLEAN
      BY DEF ConnectionTypes
    <2>2. OneThread'
      BY DEF ConnectionTypes, OneThread
    <2> QED
      BY <2>1, <2>2 DEF ConnectionTypes
  <1>2. CoroutinesInv' /\ OpenResumesLive'
    BY DEF CoroutinesInv, OpenResumesLive, ConnectionTypes
  <1>3. ReadInv'
    BY DEF ReadInv, CoroutinesInv, ConnectionTypes, OneThread, InReady, InSend
  <1>4. WriteInv'
    BY DEF WriteInv, CoroutinesInv, ConnectionTypes, OneThread, OutReady
  <1>5. WireInv'
    BY WireKept
  <1> QED
    BY <1>1, <1>2, <1>3, <1>4, <1>5

LEMMA PeerDrainKeeps == ConnectionInv /\ PeerDrain => ConnectionInv'
  <1> SUFFICES ASSUME ConnectionInv, PeerDrain PROVE ConnectionInv'
    OBVIOUS
  <1> USE ConnectionAssumption DEF ConnectionInv, PeerDrain, recvVars, writeVars, coVars
  <1>1. ConnectionTypes'
    <2>1. edge' \in BOOLEAN
      BY DEF ConnectionTypes
    <2>2. OneThread'
      BY DEF ConnectionTypes, OneThread
    <2> QED
      BY <2>1, <2>2 DEF ConnectionTypes
  <1>2. CoroutinesInv' /\ OpenResumesLive'
    BY DEF CoroutinesInv, OpenResumesLive, ConnectionTypes
  <1>3. ReadInv'
    BY DEF ReadInv, CoroutinesInv, ConnectionTypes, OneThread, InReady, InSend
  <1>4. WriteInv'
    BY DEF WriteInv, CoroutinesInv, ConnectionTypes, OneThread, OutReady
  <1>5. WireInv'
    BY WireKept
  <1> QED
    BY <1>1, <1>2, <1>3, <1>4, <1>5

(* async_read, with what send_fn is resumed for. *)
LEMMA AsyncReadKeeps ==
  ASSUME ConnectionInv, at = "recv", Running, AsyncRead
  PROVE  ConnectionInv'
  <1> USE DEF ConnectionInv, Running, Live, InSend, writeVars, coVars, Wake
  <1>1. PICK n \in 0 .. arrived, eof \in BOOLEAN :
          /\ ReadOutcome(n, eof)
          /\ arrived' = arrived - n /\ read_buf' = read_buf + n
          /\ closed' = (closed \/ eof)
          /\ IF eof THEN Wake ELSE UNCHANGED edge
          /\ should_suspend' = ReadSuspends(n)
    BY DEF AsyncRead
  <1>2. /\ UNCHANGED <<peer, room, inbound, interest, writeVars, drained, stage>>
        /\ IF closed' THEN ResumeWrite("await")
           ELSE at' = "await" /\ UNCHANGED <<recv, send, ret, fault>>
    BY DEF AsyncRead
  <1>3. /\ closed' \in BOOLEAN /\ edge' \in BOOLEAN /\ should_suspend' \in BOOLEAN
        /\ closed => closed'
        /\ edge => edge'
    BY <1>1 DEF ConnectionTypes, ReadSuspends
  <1>4. arrived' \in Nat /\ read_buf' \in Nat
    BY <1>1 DEF ConnectionTypes
  <1>5. OneThread'
    BY <1>2 DEF ResumeWrite, ConnectionTypes, OneThread
  <1>6. ConnectionTypes'
    BY <1>2, <1>3, <1>4, <1>5 DEF ConnectionTypes, ResumeWrite
  <1>7. CoroutinesInv'
    <2>1. CASE closed'
      BY <1>2, <2>1 DEF CoroutinesInv, ResumeWrite, ConnectionTypes, OneThread
    <2>2. CASE ~closed'
      BY <1>2, <1>3, <2>2 DEF CoroutinesInv, ConnectionTypes, OneThread
    <2> QED
      BY <2>1, <2>2
  <1>8. ReadInv'
    <2>1. ~closed' /\ should_suspend' => arrived' = 0 /\ peer' = "open"
      <3> SUFFICES ASSUME ~closed', should_suspend' PROVE arrived' = 0 /\ peer' = "open"
        OBVIOUS
      <3>1. n = 0 /\ ~eof
        BY <1>1 DEF ReadSuspends
      <3> QED
        BY <1>1, <1>2, <3>1 DEF ReadOutcome, ConnectionTypes
    <2>2. ~closed' => recv' = "running"
      BY <1>2 DEF ConnectionTypes, OneThread
    <2> QED
      BY <2>1, <2>2 DEF ReadInv, InReady
  <1>9. WriteInv'
    <2>1. CASE closed'
      BY <1>2, <2>1 DEF WriteInv, ResumeWrite
    <2>2. CASE ~closed'
      BY <1>2, <1>3, <2>2 DEF WriteInv, OutReady
    <2> QED
      BY <2>1, <2>2
  <1>10. WireInv'
    BY <1>2, WireKept DEF ResumeWrite
  <1>11. OpenResumesLive'
    BY <1>2, <1>3 DEF OpenResumesLive, ResumeWrite
  <1> QED
    BY <1>6, <1>7, <1>8, <1>9, <1>10, <1>11

(* A part is taken, whether or not it ends the frame. *)
LEMMA NextPartKeeps ==
  ASSUME ConnectionInv, TakePart, stage' \in 1 .. 4,
         UNCHANGED <<netVars, pollVars, closed, writeVars, coVars>>,
         fault' \in {"none", "desync"}
  PROVE  ConnectionInv'
  <1> USE DEF ConnectionInv, TakePart, netVars, pollVars, writeVars, coVars
  <1>1. drained' \in BOOLEAN /\ read_buf' \in Nat
    BY DEF MayDrain, ConnectionTypes
  <1>2. OneThread'
    BY DEF ConnectionTypes, OneThread
  <1>3. ConnectionTypes'
    BY <1>1, <1>2 DEF ConnectionTypes
  <1>4. CoroutinesInv' /\ ReadInv' /\ WriteInv' /\ OpenResumesLive'
    BY DEF CoroutinesInv, ReadInv, WriteInv, OpenResumesLive, InReady, OutReady
  <1>5. WireInv'
    BY WireKept
  <1> QED
    BY <1>3, <1>4, <1>5

(* The program leaves defined behaviour in recv_fn. *)
LEMMA FaultKeeps ==
  ASSUME ConnectionInv, fault' \in {"null", "desync"},
         UNCHANGED <<netVars, pollVars, closed, recvVars, writeVars, coVars>>
  PROVE  ConnectionInv'
  <1> USE DEF ConnectionInv, netVars, pollVars, recvVars, writeVars, coVars
  <1>1. ConnectionTypes'
    BY DEF ConnectionTypes, OneThread
  <1>2. CoroutinesInv' /\ ReadInv' /\ WriteInv' /\ OpenResumesLive'
    BY DEF CoroutinesInv, ReadInv, WriteInv, OpenResumesLive, InReady, OutReady
  <1>3. WireInv'
    BY WireKept
  <1> QED
    BY <1>1, <1>2, <1>3

(* recv_fn ends. *)
LEMMA RecvEndKeeps ==
  ASSUME ConnectionInv, at = "recv", Running, RecvEnd,
         read_buf' \in Nat, drained' \in BOOLEAN, UNCHANGED should_suspend
  PROVE  ConnectionInv'
  <1> USE DEF ConnectionInv, RecvEnd, Running, Unwatch, Wake, netVars, pollVars, writeVars
  <1>1. edge' \in BOOLEAN /\ closed' \in BOOLEAN
    BY DEF ConnectionTypes
  <1>2. interest' \in {"none", "in", "inout"}
    BY DEF ConnectionTypes
  <1>3. OneThread'
    BY DEF ConnectionTypes, OneThread, InSend
  <1>4. ConnectionTypes'
    BY <1>1, <1>2, <1>3 DEF ConnectionTypes
  <1>5. CoroutinesInv' /\ ReadInv' /\ WriteInv' /\ OpenResumesLive'
    BY DEF CoroutinesInv, ReadInv, WriteInv, OpenResumesLive, ConnectionTypes, OneThread, InSend
  <1>6. WireInv'
    BY WireKept
  <1> QED
    BY <1>4, <1>5, <1>6

(* A message of k parts goes to write_buf_, and send_fn is resumed: by      *)
(* recv_fn of the server, or by the task of a call in the client.           *)
LEMMA EnqueueKeeps ==
  ASSUME ConnectionInv, NEW k \in Nat, NEW back \in {"recv", "idle"},
         at = back, recv # "unstarted", Running,
         write_buf' = write_buf \o [i \in 1 .. k |-> outbound + i],
         outbound' = outbound + k,
         ResumeWrite(back),
         UNCHANGED <<netVars, pollVars, closed, need_write, written, wire, retried, should_suspend>>,
         read_buf' \in Nat, drained' \in BOOLEAN, stage' \in 1 .. 4
  PROVE  ConnectionInv'
  <1> USE DEF ConnectionInv, ResumeWrite, Running, Live, InSend, netVars, pollVars, coVars
  <1> DEFINE message == [i \in 1 .. k |-> outbound + i]
  <1>0. /\ write_buf \in Seq(Nat) /\ outbound \in Nat /\ Len(write_buf) \in Nat
        /\ message \in Seq(Nat) /\ Len(message) = k
    BY MessageOf DEF ConnectionTypes
  <1>1. /\ write_buf' \in Seq(Nat) /\ Len(write_buf') = Len(write_buf) + k
        /\ \A j \in 1 .. Len(write_buf) + k :
             write_buf'[j] = IF j <= Len(write_buf) THEN write_buf[j]
                             ELSE message[j - Len(write_buf)]
    BY <1>0, Concat
  <1>2. OneThread'
    BY DEF ConnectionTypes, OneThread
  <1>3. ConnectionTypes'
    BY <1>0, <1>1, <1>2 DEF ConnectionTypes
  <1>4. CoroutinesInv'
    BY DEF CoroutinesInv, ConnectionTypes, OneThread
  <1>5. ReadInv'
    BY DEF ReadInv, InReady, ConnectionTypes
  <1>6. WriteInv'
    BY DEF WriteInv, OutReady
  <1>7. OpenResumesLive'
    BY DEF OpenResumesLive, CoroutinesInv, ConnectionTypes, OneThread
  <1>8. WireInv'
    <2> SUFFICES ASSUME ~retried' PROVE WireInv'
      BY DEF WireInv
    <2>1. at # "writev" /\ at' # "writev" /\ ~retried
      OBVIOUS
    <2>2. /\ Len(write_buf) <= outbound
          /\ \A j \in 1 .. Len(write_buf) : write_buf[j] = outbound - Len(write_buf) + j
          /\ Len(wire) = outbound - Len(write_buf)
          /\ \A i \in 1 .. Len(wire) : wire[i] = i
      <3>1. WireInv
        OBVIOUS
      <3>2. Sent = 0 /\ outbound - Len(write_buf) \in Int
        BY <1>0, <2>1 DEF Sent
      <3> QED
        BY ONLY <2>1, <3>1, <3>2 DEF WireInv, Committed
    <2>3. ASSUME NEW j \in 1 .. Len(write_buf')
          PROVE  write_buf'[j] = outbound' - Len(write_buf') + j
      <3>1. outbound' - Len(write_buf') = outbound - Len(write_buf)
        BY <1>0, <1>1
      <3>2. CASE j <= Len(write_buf)
        BY <1>0, <1>1, <2>2, <3>1, <3>2
      <3>3. CASE j > Len(write_buf)
        <4>1. j - Len(write_buf) \in 1 .. k
          BY <1>0, <1>1, <3>3
        <4>2. write_buf'[j] = outbound + (j - Len(write_buf))
          BY <1>0, <1>1, <3>3, <4>1
        <4> QED
          BY <1>0, <1>1, <3>1, <4>2
      <3> QED
        BY <1>0, <1>1, <3>2, <3>3
    <2>4. /\ Len(write_buf') <= outbound' /\ 0 <= Len(write_buf')
          /\ Len(wire) = outbound' - Len(write_buf')
      BY <1>0, <1>1, <2>2
    <2> QED
      BY <1>0, <1>1, <2>1, <2>2, <2>3, <2>4 DEF WireInv, Committed, Sent
  <1> QED
    BY <1>3, <1>4, <1>5, <1>6, <1>7, <1>8

LEMMA ConnectionInit == InitConnection => ConnectionInv
  <1> SUFFICES ASSUME InitConnection PROVE ConnectionInv
    OBVIOUS
  <1>1. ConnectionTypes
    <2>1. /\ edge \in BOOLEAN /\ closed \in BOOLEAN /\ retried \in BOOLEAN
          /\ drained \in BOOLEAN /\ should_suspend \in BOOLEAN
      BY DEF InitConnection
    <2>2. OneThread
      BY DEF InitConnection, OneThread, InSend
    <2>3. write_buf \in Seq(Nat) /\ wire \in Seq(Nat)
      BY DEF InitConnection
    <2>4. inbound \in 0 .. MaxParts /\ room \in 0 .. SendRoom
      BY ConnectionAssumption DEF InitConnection
    <2> QED
      BY <2>1, <2>2, <2>3, <2>4 DEF InitConnection, ConnectionTypes
  <1>2. CoroutinesInv /\ ReadInv /\ WriteInv /\ OpenResumesLive
    BY DEF InitConnection, CoroutinesInv, ReadInv, WriteInv, OpenResumesLive, InSend
  <1>3. WireInv
    <2>1. Len(write_buf) = 0 /\ Len(wire) = 0 /\ outbound = 0 /\ at # "writev"
      BY DEF InitConnection
    <2> QED
      BY <2>1 DEF WireInv, Committed, Sent
  <1> QED
    BY <1>1, <1>2, <1>3 DEF ConnectionInv

(* Every step that server and client share. *)
LEMMA SharedStepKeeps ==
  ConnectionInv /\ (ConnectionStep \/ PeerSend \/ PeerStep) => ConnectionInv'
  BY EventHupKeeps, EventOutKeeps, EventInKeeps, EventInAfterOutKeeps, StartSendKeeps,
     WriteBeginKeeps, WritevKeeps, WriteSuspendKeeps, WriteDoneKeeps, WriteOvershootKeeps,
     WriteKilledKeeps, SendLoopKeeps, WaitWriteKeeps, StartRecvKeeps, ReadAwaitKeeps,
     ReadParkKeeps, PeerSendKeeps, PeerFinKeeps, PeerResetKeeps, PeerDrainKeeps
     DEF ConnectionStep, PeerStep

(* The properties of the runs that follow from the invariant. *)
LEMMA ConnectionFacts ==
  ConnectionInv => ReadinessNotLost /\ WritabilityNotLost /\ WireInOrder /\ OpenResumesLive
  <1> SUFFICES ASSUME ConnectionInv
               PROVE  ReadinessNotLost /\ WritabilityNotLost /\ WireInOrder /\ OpenResumesLive
    OBVIOUS
  <1>1. ReadinessNotLost
    BY DEF ConnectionInv, CoroutinesInv, ReadInv, ReadinessNotLost
  <1>2. WritabilityNotLost
    BY DEF ConnectionInv, WriteInv, WritabilityNotLost
  <1>3. WireInOrder
    BY DEF ConnectionInv, ConnectionTypes, WireInv, WireInOrder
  <1>4. OpenResumesLive
    BY DEF ConnectionInv
  <1> QED
    BY <1>1, <1>2, <1>3, <1>4
=============================================================================
