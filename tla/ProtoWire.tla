----------------------------- MODULE ProtoWire -----------------------------
(***************************************************************************)
(* The generated protobuf code of proto/message.pb.* and example/echo.pb.* *)
(* at the level of fields: what a message writes, how many bytes it says   *)
(* that is, and what a parser makes of the fields it finds.  A string is a *)
(* sequence of words of known sizes; a field is a tag and a value.         *)
(***************************************************************************)
EXTENDS Integers, Sequences, SequencesExt

CONSTANT WordSize   \* bytes of each word

ASSUME WordAssumption == \A w \in DOMAIN WordSize : WordSize[w] \in Nat

Texts == Seq(DOMAIN WordSize)

(* Tags of varint (wire type 0) and of length-delimited (2) fields. *)
VarintTag(n)    == 8 * n
DelimitedTag(n) == 8 * n + 2

(* A byte for each group of seven bits; 64 bits make ten. *)
VarintSize(n) ==
  LET rest[k \in 0 .. 9] == IF k = 0 THEN n ELSE rest[k - 1] \div 128
  IN  1 + Cardinality({k \in 1 .. 9 : rest[k] > 0})

(* A sum of sizes: the number of the bytes, each named by the word or field *)
(* it belongs to and its place there.                                       *)
TextSize(t)   == Cardinality(UNION {{i} \X (1 .. WordSize[t[i]]) : i \in DOMAIN t})
StringSize(t) == VarintSize(TextSize(t)) + TextSize(t)

(* What travels: the fields of messages, and the lengths before them. *)
Field(tag, val) ==
  [kind |-> "field", tag |-> tag, val |-> val,
   size |-> 1 + IF tag % 8 = 0 THEN VarintSize(val) ELSE StringSize(val)]

Length(n) == [kind |-> "length", len |-> n, size |-> 4]

(* The bytes of the first k fields of s, and of all of them. *)
BytesTo(s, k) == Cardinality(UNION {{i} \X (1 .. s[i].size) : i \in 1 .. k})
Bytes(s)      == BytesTo(s, Len(s))

Only(present, f) == IF present THEN <<f>> ELSE <<>>
Cost(present, n) == IF present THEN n ELSE 0

(* What the loop of _InternalParse leaves in a message when the fields are  *)
(* all there: the last value of a known field wins, a field that is not     *)
(* known is kept aside.                                                     *)
Found(s, tag) ==
  LET i == SelectLastInSeq(s, LAMBDA f : f.tag = tag)
  IN  IF i = 0 THEN <<>> ELSE <<s[i].val>>

LastOf(s, tag, default) == IF Found(s, tag) = <<>> THEN default ELSE Found(s, tag)[1]

Others(s, known) == SelectSeq(s, LAMBDA f : f.tag \notin known)

-----------------------------------------------------------------------------
(* Header.  An optional name is the sequence of at most one string that has *)
(* been set; numbers that are zero are not written.                         *)

NewHeader ==
  [magic |-> 0, version |-> 0, message_type |-> 0, request_id |-> 0,
   service_name |-> <<>>, method_name |-> <<>>, unknown |-> <<>>]

(* service_name() and method_name(): empty unless set. *)
NameOf(n) == IF n = <<>> THEN <<>> ELSE n[1]

SerializeHeader(h) ==
     Only(h.magic # 0, Field(VarintTag(1), h.magic))
  \o Only(h.version # 0, Field(VarintTag(2), h.version))
  \o Only(h.message_type # 0, Field(VarintTag(3), h.message_type))
  \o Only(h.request_id # 0, Field(VarintTag(4), h.request_id))
  \o Only(h.service_name # <<>>, Field(DelimitedTag(5), NameOf(h.service_name)))
  \o Only(h.method_name # <<>>, Field(DelimitedTag(6), NameOf(h.method_name)))
  \o h.unknown

(* Mutant of HeaderByteSize: a request id takes one byte. *)
HeaderByteSizeShortId(h) ==
    Cost(h.service_name # <<>>, 1 + StringSize(NameOf(h.service_name)))
  + Cost(h.method_name # <<>>, 1 + StringSize(NameOf(h.method_name)))
  + Cost(h.magic # 0, 1 + VarintSize(h.magic))
  + Cost(h.version # 0, 1 + VarintSize(h.version))
  + Cost(h.message_type # 0, 1 + VarintSize(h.message_type))
  + Cost(h.request_id # 0, 2)
  + Bytes(h.unknown)

(* Header::ByteSizeLong. *)
HeaderByteSize(h) ==
    Cost(h.service_name # <<>>, 1 + StringSize(NameOf(h.service_name)))
  + Cost(h.method_name # <<>>, 1 + StringSize(NameOf(h.method_name)))
  + Cost(h.magic # 0, 1 + VarintSize(h.magic))
  + Cost(h.version # 0, 1 + VarintSize(h.version))
  + Cost(h.message_type # 0, 1 + VarintSize(h.message_type))
  + Cost(h.request_id # 0, 1 + VarintSize(h.request_id))
  + Bytes(h.unknown)

(* Header::_InternalParse. *)
ParseHeader(s) ==
  [magic        |-> LastOf(s, VarintTag(1), 0),
   version      |-> LastOf(s, VarintTag(2), 0),
   message_type |-> LastOf(s, VarintTag(3), 0),
   request_id   |-> LastOf(s, VarintTag(4), 0),
   service_name |-> Found(s, DelimitedTag(5)),
   method_name  |-> Found(s, DelimitedTag(6)),
   unknown      |-> Others(s, {VarintTag(n) : n \in 1 .. 4} \cup {DelimitedTag(n) : n \in 5 .. 6})]

-----------------------------------------------------------------------------
(* EchoRequest and EchoResponse: one string, not written when empty. *)

NewEcho == [message |-> <<>>, unknown |-> <<>>]

SerializeRequest(m) ==
  Only(m.message # <<>>, Field(DelimitedTag(1), m.message)) \o m.unknown

RequestByteSize(m) ==
  Cost(m.message # <<>>, 1 + StringSize(m.message)) + Bytes(m.unknown)

ParseRequest(s) ==
  [message |-> LastOf(s, DelimitedTag(1), <<>>), unknown |-> Others(s, {DelimitedTag(1)})]

SerializeResponse(m) ==
  Only(m.message # <<>>, Field(DelimitedTag(1), m.message)) \o m.unknown

ResponseByteSize(m) ==
  Cost(m.message # <<>>, 1 + StringSize(m.message)) + Bytes(m.unknown)

ParseResponse(s) ==
  [message |-> LastOf(s, DelimitedTag(1), <<>>), unknown |-> Others(s, {DelimitedTag(1)})]

-----------------------------------------------------------------------------
(* ParseFromZeroCopyStream under a limit of n bytes: it succeeds if the     *)
(* limit ends a field and if no tag of zero or end of a group comes first.  *)

(* The fields that lie within the first n bytes. *)
Within(s, n) == Cardinality({k \in DOMAIN s : BytesTo(s, k) <= n})

Taken(s, n) == SubSeq(s, 1, Within(s, n))
Left(s, n)  == SubSeq(s, Within(s, n) + 1, Len(s))

ParsesWithin(s, n) ==
  \E t \in {Taken(s, n)} :
    /\ Bytes(t) = n
    /\ \A i \in DOMAIN t : t[i].kind = "field" /\ t[i].tag # 0 /\ t[i].tag % 8 # 4
=============================================================================
