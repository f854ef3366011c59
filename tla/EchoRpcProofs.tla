--------------------------- MODULE EchoRpcProofs ---------------------------
(***************************************************************************)
(* EchoRpc for any number of calls, any texts, word sizes, request ids and *)
(* builds of the client.                                                   *)
(***************************************************************************)
EXTENDS EchoRpc, FiniteSetTheorems, SequenceTheorems, TLAPS

-----------------------------------------------------------------------------
(***************************************************************************)
(* Sums of sizes.                                                          *)
(***************************************************************************)

(* The bytes that BytesTo counts. *)
BytesOf(s, k) == UNION {{i} \X (1 .. s[i].size) : i \in 1 .. k}

LEMMA InBytesOf ==
  ASSUME NEW s, NEW k \in Nat, NEW x
  PROVE  x \in BytesOf(s, k) <=> \E i \in 1 .. k : \E j \in 1 .. s[i].size : x = <<i, j>>
  BY DEF BytesOf

LEMMA FiniteSum ==
  ASSUME NEW n \in Nat, NEW f, \A i \in 1 .. n : f[i] \in Nat
  PROVE  IsFiniteSet(UNION {{i} \X (1 .. f[i]) : i \in 1 .. n})
  <1> DEFINE S == {{i} \X (1 .. f[i]) : i \in 1 .. n}
             g == [i \in 1 .. n |-> {i} \X (1 .. f[i])]
  <1>1. g \in Surjection(1 .. n, S)
    BY DEF Surjection
  <1>2. IsFiniteSet(1 .. n)
    BY FS_Interval
  <1>3. IsFiniteSet(S)
    BY <1>1, <1>2, FS_Surjection
  <1>4. ASSUME NEW i \in 1 .. n PROVE IsFiniteSet({i} \X (1 .. f[i]))
    <2>1. IsFiniteSet({i})
      BY FS_Singleton
    <2>2. f[i] \in Int
      OBVIOUS
    <2>3. IsFiniteSet(1 .. f[i])
      BY <2>2, FS_Interval
    <2> QED
      BY <2>1, <2>3, FS_Product
  <1>5. \A T \in S : IsFiniteSet(T)
    BY <1>4
  <1> QED
    BY <1>3, <1>5, FS_UNION

LEMMA BytesFinite ==
  ASSUME NEW s, NEW k \in Nat, \A i \in 1 .. k : s[i].size \in Nat
  PROVE  IsFiniteSet(BytesOf(s, k)) /\ BytesTo(s, k) \in Nat
  <1> DEFINE f == [i \in 1 .. k |-> s[i].size]
  <1>1. IsFiniteSet(UNION {{i} \X (1 .. f[i]) : i \in 1 .. k})
    <2> HIDE DEF f
    <2>1. \A i \in 1 .. k : f[i] \in Nat
      BY DEF f
    <2> QED
      BY <2>1, FiniteSum
  <1>2. BytesOf(s, k) = UNION {{i} \X (1 .. f[i]) : i \in 1 .. k}
    BY DEF BytesOf
  <1>3. IsFiniteSet(BytesOf(s, k))
    BY <1>1, <1>2
  <1>4. BytesTo(s, k) = Cardinality(BytesOf(s, k))
    BY DEF BytesTo, BytesOf
  <1> QED
    BY <1>3, <1>4, FS_CardinalityType

LEMMA BytesZero == ASSUME NEW s PROVE BytesTo(s, 0) = 0
  <1>1. UNION {{i} \X (1 .. s[i].size) : i \in 1 .. 0} = {}
    OBVIOUS
  <1> QED
    BY <1>1, FS_EmptySet DEF BytesTo

LEMMA BytesNext ==
  ASSUME NEW s, NEW k \in Nat, \A i \in 1 .. k + 1 : s[i].size \in Nat
  PROVE  BytesTo(s, k + 1) = BytesTo(s, k) + s[k + 1].size
  <1> DEFINE A == BytesOf(s, k)
             B == {k + 1} \X (1 .. s[k + 1].size)
  <1>1. BytesOf(s, k + 1) = A \cup B
    BY DEF BytesOf
  <1>2. A \cap B = {}
    BY InBytesOf
  <1>3. IsFiniteSet(A)
    BY BytesFinite
  <1>4. IsFiniteSet(B) /\ Cardinality(B) = s[k + 1].size
    <2>1. IsFiniteSet({k + 1}) /\ Cardinality({k + 1}) = 1
      BY FS_Singleton
    <2>2. ASSUME NEW n \in Nat PROVE IsFiniteSet(1 .. n) /\ Cardinality(1 .. n) = n
      BY FS_Interval
    <2>3. IsFiniteSet(B) /\ Cardinality(B) = 1 * s[k + 1].size
      <3>1. s[k + 1].size \in Nat
        OBVIOUS
      <3>2. IsFiniteSet(1 .. s[k + 1].size) /\ Cardinality(1 .. s[k + 1].size) = s[k + 1].size
        BY <2>2, <3>1
      <3>3. /\ IsFiniteSet({k + 1} \X (1 .. s[k + 1].size))
            /\ Cardinality({k + 1} \X (1 .. s[k + 1].size))
                 = Cardinality({k + 1}) * Cardinality(1 .. s[k + 1].size)
        BY <2>1, <3>2, FS_Product, Zenon
      <3> QED
        BY <2>1, <3>2, <3>3, Zenon
    <2> QED
      BY <2>3
  <1>5. Cardinality(A \cup B) = Cardinality(A) + Cardinality(B)
    <2>1. Cardinality(A \cup B) = Cardinality(A) + Cardinality(B) - Cardinality(A \cap B)
      BY <1>3, <1>4, FS_Union
    <2>2. Cardinality(A) \in Nat
      BY <1>3, FS_CardinalityType
    <2>3. Cardinality(A \cap B) = 0
      BY <1>2, FS_EmptySet
    <2> QED
      BY <2>1, <2>2, <2>3, <1>4
  <1>6. BytesTo(s, k) = Cardinality(A) /\ BytesTo(s, k + 1) = Cardinality(A \cup B)
    BY <1>1 DEF BytesTo, BytesOf
  <1> QED
    BY <1>4, <1>5, <1>6

(* From m on u has the sizes of the first n members of t. *)
SameSizes(u, m, t, n) == \A i \in 1 .. n : u[m + i].size = t[i].size /\ t[i].size \in Nat

LEMMA BytesShifted ==
  ASSUME NEW s, NEW t, NEW u, NEW m \in Nat, NEW n \in Nat,
         SameSizes(u, 0, s, m), SameSizes(u, m, t, n)
  PROVE  BytesTo(u, m + n) = BytesTo(s, m) + BytesTo(t, n)
  <1>a. \A i \in 1 .. m : u[i].size = s[i].size /\ s[i].size \in Nat
    BY DEF SameSizes
  <1>b. \A i \in 1 .. n : u[m + i].size = t[i].size /\ t[i].size \in Nat
    BY DEF SameSizes
  <1> DEFINE A == BytesOf(s, m)
             B == BytesOf(t, n)
             C == {<<x[1] + m, x[2]>> : x \in B}
             g == [x \in B |-> <<x[1] + m, x[2]>>]
  <1>1. IsFiniteSet(A) /\ IsFiniteSet(B)
    BY BytesFinite, <1>a, <1>b
  <1>2. ASSUME NEW x \in B PROVE x[1] \in 1 .. n /\ x[2] \in 1 .. t[x[1]].size /\ x = <<x[1], x[2]>>
    BY InBytesOf
  <1>3. g \in Bijection(B, C)
    <2>1. g \in Surjection(B, C)
      BY DEF Surjection
    <2>2. ASSUME NEW x \in B, NEW y \in B, g[x] = g[y] PROVE x = y
      BY <2>2, <1>2
    <2> QED
      BY <2>1, <2>2 DEF Bijection, Injection, IsInjective, Surjection
  <1>4. IsFiniteSet(C) /\ Cardinality(C) = Cardinality(B)
    BY <1>1, <1>3, FS_Bijection DEF ExistsBijection
  <1>5. A \cap C = {}
    <2> SUFFICES ASSUME NEW x \in A, x \in C PROVE FALSE
      OBVIOUS
    <2>1. PICK i \in 1 .. m : \E j \in 1 .. s[i].size : x = <<i, j>>
      BY InBytesOf
    <2>2. PICK y \in B : x = <<y[1] + m, y[2]>>
      OBVIOUS
    <2> QED
      BY <2>1, <2>2, <1>2
  <1>6. BytesOf(u, m + n) = A \cup C
    <2>1. ASSUME NEW x \in BytesOf(u, m + n) PROVE x \in A \cup C
      <3>1. PICK i \in 1 .. m + n : \E j \in 1 .. u[i].size : x = <<i, j>>
        BY InBytesOf
      <3>2. PICK j \in 1 .. u[i].size : x = <<i, j>>
        BY <3>1
      <3>3. CASE i <= m
        BY <3>2, <3>3, InBytesOf, <1>a
      <3>4. CASE i > m
        <4>1. i - m \in 1 .. n /\ m + (i - m) = i
          BY <3>4
        <4>2. j \in 1 .. t[i - m].size
          BY <4>1, <3>2, <1>b
        <4>3. <<i - m, j>> \in B
          BY <4>1, <4>2, InBytesOf
        <4> QED
          BY <4>1, <4>3, <3>2
      <3> QED
        BY <3>3, <3>4
    <2>2. ASSUME NEW x \in A PROVE x \in BytesOf(u, m + n)
      BY InBytesOf, <1>a
    <2>3. ASSUME NEW x \in C PROVE x \in BytesOf(u, m + n)
      <3>1. PICK y \in B : x = <<y[1] + m, y[2]>>
        OBVIOUS
      <3>2. y[1] \in 1 .. n /\ y[2] \in 1 .. t[y[1]].size
        BY <1>2
      <3>3. m + y[1] \in 1 .. m + n /\ y[2] \in 1 .. u[m + y[1]].size
        BY <3>2, <1>b
      <3> QED
        BY <3>1, <3>2, <3>3, InBytesOf
    <2> QED
      BY <2>1, <2>2, <2>3
  <1>7. Cardinality(A \cup C) = Cardinality(A) + Cardinality(C)
    <2>1. Cardinality(A \cup C) = Cardinality(A) + Cardinality(C) - Cardinality(A \cap C)
      BY <1>1, <1>4, FS_Union
    <2>2. Cardinality(A) \in Nat /\ Cardinality(C) \in Nat
      BY <1>1, <1>4, FS_CardinalityType
    <2>3. Cardinality(A \cap C) = 0
      BY <1>5, FS_EmptySet
    <2> QED
      BY <2>1, <2>2, <2>3
  <1> QED
    BY <1>4, <1>6, <1>7 DEF BytesTo, BytesOf

-----------------------------------------------------------------------------
(***************************************************************************)
(* What travels, and how many bytes it takes.                              *)
(***************************************************************************)

Fields ==
  {Field(VarintTag(n), v) : n \in Nat \ {0}, v \in Nat}
  \cup {Field(DelimitedTag(n), t) : n \in Nat \ {0}, t \in Texts}

Units == Fields \cup {Length(n) : n \in Nat}

LEMMA VarintSizeType == ASSUME NEW n PROVE VarintSize(n) \in Nat \ {0}
  <1>1. IsFiniteSet(1 .. 9)
    <2>1. \A m \in Int : IsFiniteSet(1 .. m)
      BY FS_Interval
    <2>2. 9 \in Int
      OBVIOUS
    <2> QED
      BY <2>1, <2>2, Zenon
  <1>2. \A S \in SUBSET (1 .. 9) : Cardinality(S) \in Nat
    BY <1>1, FS_Subset, FS_CardinalityType
  <1>3. \E S \in SUBSET (1 .. 9) : VarintSize(n) = 1 + Cardinality(S)
    <2> DEFINE f == CHOOSE rest : rest = [k \in 0 .. 9 |-> IF k = 0 THEN n ELSE rest[k - 1] \div 128]
               S == {k \in 1 .. 9 : f[k] > 0}
    <2>1. VarintSize(n) = 1 + Cardinality(S)
      BY Zenon DEF VarintSize
    <2>2. S \in SUBSET (1 .. 9)
      BY Zenon
    <2> QED
      BY <2>1, <2>2, Zenon
  <1> QED
    BY <1>2, <1>3

LEMMA TextSizeType == ASSUME NEW t \in Texts PROVE TextSize(t) \in Nat
  <1> DEFINE f == [i \in DOMAIN t |-> WordSize[t[i]]]
  <1>1. DOMAIN t = 1 .. Len(t) /\ Len(t) \in Nat /\ \A i \in 1 .. Len(t) : f[i] \in Nat
    BY WordAssumption DEF Texts
  <1>2. IsFiniteSet(UNION {{i} \X (1 .. f[i]) : i \in 1 .. Len(t)})
    <2> HIDE DEF f
    <2> QED
      BY <1>1, FiniteSum
  <1>3. UNION {{i} \X (1 .. f[i]) : i \in 1 .. Len(t)}
          = UNION {{i} \X (1 .. WordSize[t[i]]) : i \in DOMAIN t}
    BY <1>1
  <1> QED
    BY <1>2, <1>3, FS_CardinalityType DEF TextSize

LEMMA StringSizeType == ASSUME NEW t \in Texts PROVE StringSize(t) \in Nat \ {0}
  <1>1. TextSize(t) \in Nat /\ VarintSize(TextSize(t)) \in Nat \ {0}
    BY TextSizeType, VarintSizeType
  <1> QED
    BY <1>1 DEF StringSize

LEMMA VarintField ==
  ASSUME NEW n \in Nat \ {0}, NEW v \in Nat
  PROVE  /\ Field(VarintTag(n), v) \in Fields
         /\ Field(VarintTag(n), v).tag = 8 * n /\ Field(VarintTag(n), v).val = v
         /\ Field(VarintTag(n), v).size = 1 + VarintSize(v)
  <1>1. (8 * n) % 8 = 0
    OBVIOUS
  <1> QED
    BY <1>1 DEF Field, VarintTag, Fields

LEMMA DelimitedField ==
  ASSUME NEW n \in Nat \ {0}, NEW t \in Texts
  PROVE  /\ Field(DelimitedTag(n), t) \in Fields
         /\ Field(DelimitedTag(n), t).tag = 8 * n + 2 /\ Field(DelimitedTag(n), t).val = t
         /\ Field(DelimitedTag(n), t).size = 1 + StringSize(t)
  <1>1. (8 * n + 2) % 8 = 2
    OBVIOUS
  <1> QED
    BY <1>1 DEF Field, DelimitedTag, Fields

LEMMA FieldType ==
  ASSUME NEW f \in Fields
  PROVE  /\ f.kind = "field" /\ f.size \in Nat \ {0}
         /\ \/ \E n \in Nat \ {0} : f.tag = 8 * n /\ f.val \in Nat
            \/ \E n \in Nat \ {0} : f.tag = 8 * n + 2 /\ f.val \in Texts
  <1>1. CASE \E n \in Nat \ {0}, v \in Nat : f = Field(VarintTag(n), v)
    <2>1. PICK n \in Nat \ {0}, v \in Nat : f = Field(VarintTag(n), v)
      BY <1>1
    <2>2. f.tag = 8 * n /\ f.val = v /\ f.size = 1 + VarintSize(v) /\ VarintSize(v) \in Nat \ {0}
      BY <2>1, VarintField, VarintSizeType
    <2>3. f.kind = "field"
      BY <2>1 DEF Field
    <2> QED
      BY <2>2, <2>3
  <1>2. CASE \E n \in Nat \ {0}, t \in Texts : f = Field(DelimitedTag(n), t)
    <2>1. PICK n \in Nat \ {0}, t \in Texts : f = Field(DelimitedTag(n), t)
      BY <1>2
    <2>2. f.tag = 8 * n + 2 /\ f.val = t /\ f.size = 1 + StringSize(t) /\ StringSize(t) \in Nat \ {0}
      BY <2>1, DelimitedField, StringSizeType
    <2>3. f.kind = "field"
      BY <2>1 DEF Field
    <2> QED
      BY <2>2, <2>3
  <1> QED
    BY <1>1, <1>2 DEF Fields

LEMMA LengthType ==
  ASSUME NEW n
  PROVE  Length(n).kind = "length" /\ Length(n).size = 4 /\ Length(n).len = n
  BY DEF Length

LEMMA UnitType ==
  ASSUME NEW u \in Units
  PROVE  /\ u.size \in Nat \ {0} /\ u.kind \in {"field", "length"}
         /\ u.kind = "length" => u.len \in Nat /\ u.size = 4
         /\ u.kind = "field" <=> u \in Fields
  <1>1. CASE u \in Fields
    BY <1>1, FieldType
  <1>2. CASE \E n \in Nat : u = Length(n)
    <2>1. u.kind = "length" /\ u.size = 4 /\ u.len \in Nat
      BY <1>2, LengthType
    <2>2. u \notin Fields
      BY <2>1, FieldType
    <2> QED
      BY <2>1, <2>2
  <1> QED
    BY <1>1, <1>2 DEF Units

LEMMA UnitSizes ==
  ASSUME NEW s \in Seq(Units)
  PROVE  \A i \in 1 .. Len(s) : s[i].size \in Nat \ {0}
  BY UnitType

LEMMA BytesType ==
  ASSUME NEW s \in Seq(Units)
  PROVE  /\ Bytes(s) \in Nat
         /\ \A k \in 0 .. Len(s) : BytesTo(s, k) \in Nat
  <1>1. ASSUME NEW k \in 0 .. Len(s) PROVE BytesTo(s, k) \in Nat
    BY BytesFinite, UnitSizes
  <1> QED
    BY <1>1 DEF Bytes

LEMMA BytesEmpty == Bytes(<<>>) = 0
  BY BytesZero DEF Bytes

LEMMA BytesConcat ==
  ASSUME NEW s \in Seq(Units), NEW t \in Seq(Units)
  PROVE  s \o t \in Seq(Units) /\ Bytes(s \o t) = Bytes(s) + Bytes(t)
  <1>1. /\ s \o t \in Seq(Units) /\ Len(s \o t) = Len(s) + Len(t)
        /\ Len(s) \in Nat /\ Len(t) \in Nat
    OBVIOUS
  <1>2. SameSizes(s \o t, 0, s, Len(s))
    BY <1>1, UnitSizes DEF SameSizes
  <1>3. SameSizes(s \o t, Len(s), t, Len(t))
    BY <1>1, UnitSizes DEF SameSizes
  <1>5. BytesTo(s \o t, Len(s) + Len(t)) = BytesTo(s, Len(s)) + BytesTo(t, Len(t))
    BY <1>1, <1>2, <1>3, BytesShifted
  <1> QED
    BY <1>1, <1>5 DEF Bytes

LEMMA BytesOne ==
  ASSUME NEW u \in Units
  PROVE  <<u>> \in Seq(Units) /\ Bytes(<<u>>) = u.size
  <1>1. <<u>> \in Seq(Units) /\ Len(<<u>>) = 1 /\ <<u>>[1] = u /\ u.size \in Nat
    BY UnitType
  <1>2. BytesTo(<<u>>, 0 + 1) = BytesTo(<<u>>, 0) + u.size
    BY <1>1, BytesNext
  <1> QED
    BY <1>1, <1>2, BytesZero DEF Bytes

LEMMA BytesPositive ==
  ASSUME NEW s \in Seq(Units), s # <<>>
  PROVE  Bytes(s) > 0 /\ Bytes(s) = Head(s).size + Bytes(Tail(s))
  <1>1. s = <<Head(s)>> \o Tail(s) /\ Head(s) \in Units /\ Tail(s) \in Seq(Units)
    OBVIOUS
  <1>2. Bytes(s) = Bytes(<<Head(s)>>) + Bytes(Tail(s))
    BY <1>1, BytesConcat, BytesOne
  <1>3. Bytes(<<Head(s)>>) = Head(s).size /\ Head(s).size \in Nat \ {0} /\ Bytes(Tail(s)) \in Nat
    BY <1>1, BytesOne, BytesType, UnitType
  <1> QED
    BY <1>2, <1>3

LEMMA FieldsAreUnits ==
  ASSUME NEW s \in Seq(Fields)
  PROVE  s \in Seq(Units)
  BY SeqMonotonic DEF Units

LEMMA FieldsConcat ==
  ASSUME NEW s \in Seq(Fields), NEW t \in Seq(Fields)
  PROVE  s \o t \in Seq(Fields) /\ Bytes(s \o t) = Bytes(s) + Bytes(t)
  BY FieldsAreUnits, BytesConcat

LEMMA FieldsBytes == ASSUME NEW s \in Seq(Fields) PROVE Bytes(s) \in Nat
  BY FieldsAreUnits, BytesType

LEMMA OnlySize ==
  ASSUME NEW p \in BOOLEAN, NEW f, p => f \in Fields
  PROVE  Only(p, f) \in Seq(Fields) /\ Bytes(Only(p, f)) = Cost(p, f.size)
  <1>1. CASE p
    <2>1. f \in Units /\ <<f>> \in Seq(Fields)
      BY <1>1 DEF Units
    <2> QED
      BY <1>1, <2>1, BytesOne DEF Only, Cost
  <1>2. CASE ~p
    BY <1>2, BytesEmpty DEF Only, Cost
  <1> QED
    BY <1>1, <1>2

-----------------------------------------------------------------------------
(***************************************************************************)
(* ByteSizeLong and _InternalSerialize agree.                              *)
(***************************************************************************)

IsHeader(h) ==
  /\ h.magic \in Nat /\ h.version \in Nat /\ h.message_type \in Nat /\ h.request_id \in Nat
  /\ h.service_name # <<>> => NameOf(h.service_name) \in Texts
  /\ h.method_name # <<>> => NameOf(h.method_name) \in Texts
  /\ h.unknown \in Seq(Fields)

LEMMA NumberSize ==
  ASSUME NEW n \in Nat \ {0}, NEW v \in Nat
  PROVE  /\ Only(v # 0, Field(VarintTag(n), v)) \in Seq(Fields)
         /\ Bytes(Only(v # 0, Field(VarintTag(n), v))) = Cost(v # 0, 1 + VarintSize(v))
         /\ Cost(v # 0, 1 + VarintSize(v)) \in Nat
  <1>1. Field(VarintTag(n), v) \in Fields /\ Field(VarintTag(n), v).size = 1 + VarintSize(v)
    BY VarintField
  <1>2. Cost(v # 0, 1 + VarintSize(v)) \in Nat
    BY VarintSizeType DEF Cost
  <1> QED
    BY <1>1, <1>2, OnlySize

LEMMA StringFieldSize ==
  ASSUME NEW n \in Nat \ {0}, NEW p \in BOOLEAN, NEW t, p => t \in Texts
  PROVE  /\ Only(p, Field(DelimitedTag(n), t)) \in Seq(Fields)
         /\ Bytes(Only(p, Field(DelimitedTag(n), t))) = Cost(p, 1 + StringSize(t))
         /\ Cost(p, 1 + StringSize(t)) \in Nat
  <1>1. CASE p
    <2>1. Field(DelimitedTag(n), t) \in Fields /\ Field(DelimitedTag(n), t).size = 1 + StringSize(t)
      BY <1>1, DelimitedField
    <2>2. Cost(p, 1 + StringSize(t)) \in Nat
      BY <1>1, StringSizeType DEF Cost
    <2> QED
      BY <2>1, <2>2, OnlySize
  <1>2. CASE ~p
    BY <1>2, BytesEmpty DEF Only, Cost
  <1> QED
    BY <1>1, <1>2

LEMMA HeaderSizes ==
  ASSUME NEW h, IsHeader(h)
  PROVE  SerializeHeader(h) \in Seq(Fields) /\ HeaderByteSize(h) = Bytes(SerializeHeader(h))
  <1> DEFINE a == Only(h.magic # 0, Field(VarintTag(1), h.magic))
             b == Only(h.version # 0, Field(VarintTag(2), h.version))
             c == Only(h.message_type # 0, Field(VarintTag(3), h.message_type))
             d == Only(h.request_id # 0, Field(VarintTag(4), h.request_id))
             e == Only(h.service_name # <<>>, Field(DelimitedTag(5), NameOf(h.service_name)))
             f == Only(h.method_name # <<>>, Field(DelimitedTag(6), NameOf(h.method_name)))
             u == h.unknown
             ka == Cost(h.magic # 0, 1 + VarintSize(h.magic))
             kb == Cost(h.version # 0, 1 + VarintSize(h.version))
             kc == Cost(h.message_type # 0, 1 + VarintSize(h.message_type))
             kd == Cost(h.request_id # 0, 1 + VarintSize(h.request_id))
             ke == Cost(h.service_name # <<>>, 1 + StringSize(NameOf(h.service_name)))
             kf == Cost(h.method_name # <<>>, 1 + StringSize(NameOf(h.method_name)))
             ku == Bytes(u)
  <1>1. SerializeHeader(h) = a \o b \o c \o d \o e \o f \o u
    BY Zenon DEF SerializeHeader
  <1>2. HeaderByteSize(h) = ke + kf + ka + kb + kc + kd + ku
    BY Zenon DEF HeaderByteSize
  <1>a. \A n \in 1 .. 6 : n \in Nat \ {0}
    OBVIOUS
  <1>b. 1 \in 1 .. 6 /\ 2 \in 1 .. 6 /\ 3 \in 1 .. 6 /\ 4 \in 1 .. 6 /\ 5 \in 1 .. 6 /\ 6 \in 1 .. 6
    OBVIOUS
  <1>3. /\ a \in Seq(Fields) /\ Bytes(a) = ka /\ ka \in Nat
        /\ b \in Seq(Fields) /\ Bytes(b) = kb /\ kb \in Nat
    BY <1>a, <1>b, NumberSize, Zenon DEF IsHeader
  <1>4. /\ c \in Seq(Fields) /\ Bytes(c) = kc /\ kc \in Nat
        /\ d \in Seq(Fields) /\ Bytes(d) = kd /\ kd \in Nat
    BY <1>a, <1>b, NumberSize, Zenon DEF IsHeader
  <1>5. /\ e \in Seq(Fields) /\ Bytes(e) = ke /\ ke \in Nat
        /\ f \in Seq(Fields) /\ Bytes(f) = kf /\ kf \in Nat
    <2>1. ASSUME NEW n \in 1 .. 6, NEW x, x # <<>> => NameOf(x) \in Texts
          PROVE  /\ Only(x # <<>>, Field(DelimitedTag(n), NameOf(x))) \in Seq(Fields)
                 /\ Bytes(Only(x # <<>>, Field(DelimitedTag(n), NameOf(x))))
                      = Cost(x # <<>>, 1 + StringSize(NameOf(x)))
                 /\ Cost(x # <<>>, 1 + StringSize(NameOf(x))) \in Nat
      <3>1. (x # <<>>) \in BOOLEAN
        OBVIOUS
      <3> QED
        BY <1>a, <2>1, <3>1, StringFieldSize, Zenon
    <2> QED
      BY <1>b, <2>1, Zenon DEF IsHeader
  <1>6. u \in Seq(Fields) /\ ku \in Nat
    BY FieldsBytes DEF IsHeader
  <1> HIDE DEF a, b, c, d, e, f, u, ka, kb, kc, kd, ke, kf, ku
  <1>7. a \o b \in Seq(Fields) /\ Bytes(a \o b) = ka + kb
    BY <1>3, FieldsConcat
  <1>8. a \o b \o c \in Seq(Fields) /\ Bytes(a \o b \o c) = ka + kb + kc
    BY <1>7, <1>4, FieldsConcat
  <1>9. a \o b \o c \o d \in Seq(Fields) /\ Bytes(a \o b \o c \o d) = ka + kb + kc + kd
    BY <1>8, <1>4, FieldsConcat
  <1>10. /\ a \o b \o c \o d \o e \in Seq(Fields)
         /\ Bytes(a \o b \o c \o d \o e) = ka + kb + kc + kd + ke
    BY <1>9, <1>5, FieldsConcat
  <1>11. /\ a \o b \o c \o d \o e \o f \in Seq(Fields)
         /\ Bytes(a \o b \o c \o d \o e \o f) = ka + kb + kc + kd + ke + kf
    BY <1>10, <1>5, FieldsConcat
  <1>12. /\ a \o b \o c \o d \o e \o f \o u \in Seq(Fields)
         /\ Bytes(a \o b \o c \o d \o e \o f \o u) = ka + kb + kc + kd + ke + kf + ku
    BY <1>11, <1>6, FieldsConcat DEF ku
  <1> QED
    BY <1>1, <1>2, <1>3, <1>4, <1>5, <1>6, <1>12

IsEcho(m) == m.message \in Texts /\ m.unknown \in Seq(Fields)

LEMMA RequestSizes ==
  ASSUME NEW m, IsEcho(m)
  PROVE  SerializeRequest(m) \in Seq(Fields) /\ RequestByteSize(m) = Bytes(SerializeRequest(m))
  <1>1. /\ Only(m.message # <<>>, Field(DelimitedTag(1), m.message)) \in Seq(Fields)
        /\ Bytes(Only(m.message # <<>>, Field(DelimitedTag(1), m.message)))
             = Cost(m.message # <<>>, 1 + StringSize(m.message))
    <2>1. 1 \in Nat \ {0} /\ (m.message # <<>>) \in BOOLEAN /\ m.message \in Texts
      BY DEF IsEcho
    <2> QED
      BY <2>1, StringFieldSize, Zenon
  <1> QED
    BY <1>1, FieldsConcat DEF IsEcho, SerializeRequest, RequestByteSize

LEMMA ResponseSizes ==
  ASSUME NEW m, IsEcho(m)
  PROVE  SerializeResponse(m) \in Seq(Fields) /\ ResponseByteSize(m) = Bytes(SerializeResponse(m))
  BY RequestSizes DEF SerializeResponse, ResponseByteSize, SerializeRequest, RequestByteSize

-----------------------------------------------------------------------------
(***************************************************************************)
(* What the parsers take.                                                  *)
(***************************************************************************)

LEMMA WithinType == ASSUME NEW s \in Seq(Units), NEW n PROVE Within(s, n) \in 0 .. Len(s)
  <1> DEFINE S == {k \in DOMAIN s : BytesTo(s, k) <= n}
  <1>1. DOMAIN s = 1 .. Len(s) /\ Len(s) \in Nat
    OBVIOUS
  <1>2. IsFiniteSet(1 .. Len(s)) /\ Cardinality(1 .. Len(s)) = Len(s)
    BY <1>1, FS_Interval
  <1>3. S \in SUBSET (1 .. Len(s))
    BY <1>1, Zenon
  <1>4. IsFiniteSet(S) /\ Cardinality(S) <= Len(s)
    <2> HIDE DEF S
    <2> QED
      BY <1>2, <1>3, FS_Subset
  <1>5. Cardinality(S) \in Nat
    BY <1>4, FS_CardinalityType
  <1>6. Within(s, n) = Cardinality(S)
    BY Zenon DEF Within
  <1> QED
    BY <1>1, <1>4, <1>5, <1>6

LEMMA SplitAt ==
  ASSUME NEW s \in Seq(Units), NEW k \in 0 .. Len(s)
  PROVE  /\ SubSeq(s, 1, k) \in Seq(Units) /\ Len(SubSeq(s, 1, k)) = k
         /\ SubSeq(s, k + 1, Len(s)) \in Seq(Units) /\ Len(SubSeq(s, k + 1, Len(s))) = Len(s) - k
         /\ s = SubSeq(s, 1, k) \o SubSeq(s, k + 1, Len(s))
  <1>1. 1 \in 1 .. Len(s) + 1 /\ k \in 1 - 1 .. Len(s) /\ Len(s) \in k .. Len(s)
    OBVIOUS
  <1>2. SubSeq(s, 1, k) \o SubSeq(s, k + 1, Len(s)) = SubSeq(s, 1, Len(s))
    BY <1>1, ConcatAdjacentSubSeq
  <1>3. SubSeq(s, 1, Len(s)) = s
    BY SubSeqFull
  <1>4. \A i \in 1 .. k : s[i] \in Units
    OBVIOUS
  <1>5. \A i \in k + 1 .. Len(s) : s[i] \in Units
    OBVIOUS
  <1>6. SubSeq(s, 1, k) \in Seq(Units) /\ Len(SubSeq(s, 1, k)) = k
    BY <1>4, SubSeqProperties
  <1>7. SubSeq(s, k + 1, Len(s)) \in Seq(Units) /\ Len(SubSeq(s, k + 1, Len(s))) = Len(s) - k
    BY <1>5, SubSeqProperties
  <1> QED
    BY <1>2, <1>3, <1>6, <1>7

LEMMA TakenLeft ==
  ASSUME NEW s \in Seq(Units), NEW n
  PROVE  /\ Taken(s, n) \in Seq(Units) /\ Left(s, n) \in Seq(Units)
         /\ s = Taken(s, n) \o Left(s, n)
         /\ Len(Taken(s, n)) = Within(s, n)
  <1>1. Within(s, n) \in 0 .. Len(s)
    BY WithinType
  <1> QED
    BY <1>1, SplitAt, Zenon DEF Taken, Left

LEMMA TakenFields ==
  ASSUME NEW s \in Seq(Units), NEW n, ParsesWithin(s, n)
  PROVE  Taken(s, n) \in Seq(Fields) /\ Bytes(Taken(s, n)) = n
  <1> DEFINE t == Taken(s, n)
  <1>1. t \in Seq(Units)
    BY TakenLeft
  <1>2. Bytes(t) = n /\ \A i \in DOMAIN t : t[i].kind = "field"
    BY DEF ParsesWithin
  <1> HIDE DEF t
  <1>3. \A i \in 1 .. Len(t) : t[i] \in Fields
    BY <1>1, <1>2, UnitType
  <1>4. t \in Seq(Fields)
    BY <1>1, <1>3
  <1> QED
    BY <1>2, <1>4 DEF t

LEMMA Least ==
  ASSUME NEW S \in SUBSET Nat, S # {}
  PROVE  \E x \in S : \A y \in S : x =< y
  <1> DEFINE R == OpToRel(<, Nat)
  <1>1. \A x, y \in Nat : x < y => <<x, y>> \in R
    <2>1. R = {ss \in Nat \X Nat : ss[1] < ss[2]}
      BY DEF OpToRel
    <2> QED
      BY <2>1
  <1>2. IsWellFoundedOn(R, Nat)
    BY NatLessThanWellFounded
  <1> HIDE DEF R
  <1>3. PICK x \in S : \A y \in S : ~ (<<y, x>> \in R)
    BY <1>2, WFMin
  <1>4. ASSUME NEW y \in S PROVE x =< y
    <2>1. ~ (y < x)
      BY <1>1, <1>3
    <2> QED
      BY <2>1
  <1> QED
    BY <1>4

LEMMA Greatest ==
  ASSUME NEW n \in Nat, NEW S \in SUBSET (1 .. n), S # {}
  PROVE  \E x \in S : \A y \in S : x >= y
  <1> DEFINE T == {m \in Nat : n - m \in S}
  <1>1. T # {}
    <2>1. PICK x \in S : TRUE
      OBVIOUS
    <2>2. n - x \in Nat /\ n - (n - x) = x
      OBVIOUS
    <2> QED
      BY <2>2
  <1>2. PICK m \in T : \A l \in T : m =< l
    BY <1>1, Least
  <1>3. ASSUME NEW y \in S PROVE n - m >= y
    <2>1. n - y \in Nat /\ n - (n - y) = y
      OBVIOUS
    <2>2. n - y \in T
      BY <2>1
    <2>3. m =< n - y /\ m \in Nat
      BY <1>2, <2>2
    <2> QED
      BY <2>3
  <1> QED
    BY <1>3

LEMMA FoundType ==
  ASSUME NEW s \in Seq(Fields), NEW tag \in Nat
  PROVE  \/ Found(s, tag) = <<>>
         \/ \E i \in 1 .. Len(s) : s[i].tag = tag /\ Found(s, tag) = <<s[i].val>>
  <1> DEFINE I == {i \in 1 .. Len(s) : s[i].tag = tag}
             k == IF I # {} THEN Max(I) ELSE 0
  <1>1. Found(s, tag) = IF k = 0 THEN <<>> ELSE <<s[k].val>>
    BY Zenon DEF Found, SelectLastInSeq
  <1>2. CASE I = {}
    BY <1>1, <1>2
  <1>3. CASE I # {}
    <2>1. \E x \in I : \A y \in I : x >= y
      <3>1. Len(s) \in Nat /\ I \in SUBSET (1 .. Len(s))
        OBVIOUS
      <3> HIDE DEF I
      <3> QED
        BY <1>3, <3>1, Greatest
    <2>2. k \in I
      BY <2>1, <1>3 DEF Max
    <2> QED
      BY <1>1, <2>2
  <1> QED
    BY <1>2, <1>3

LEMMA NumberParsed ==
  ASSUME NEW s \in Seq(Fields), NEW n \in Nat \ {0}
  PROVE  LastOf(s, VarintTag(n), 0) \in Nat
  <1> DEFINE tag == VarintTag(n)
  <1>1. tag = 8 * n /\ tag \in Nat
    BY DEF VarintTag
  <1>2. CASE Found(s, tag) = <<>>
    BY <1>2 DEF LastOf
  <1>3. CASE \E i \in 1 .. Len(s) : s[i].tag = tag /\ Found(s, tag) = <<s[i].val>>
    <2>1. PICK i \in 1 .. Len(s) : s[i].tag = tag /\ Found(s, tag) = <<s[i].val>>
      BY <1>3
    <2>2. s[i] \in Fields
      OBVIOUS
    <2>3. s[i].val \in Nat
      BY <1>1, <2>1, <2>2, FieldType
    <2> QED
      BY <2>1, <2>3 DEF LastOf
  <1> QED
    BY <1>1, <1>2, <1>3, FoundType

LEMMA TextParsed ==
  ASSUME NEW s \in Seq(Fields), NEW n \in Nat \ {0}
  PROVE  LastOf(s, DelimitedTag(n), <<>>) \in Texts
  <1> DEFINE tag == DelimitedTag(n)
  <1>1. tag = 8 * n + 2 /\ tag \in Nat
    BY DEF DelimitedTag
  <1>2. CASE Found(s, tag) = <<>>
    BY <1>2 DEF LastOf, Texts
  <1>3. CASE \E i \in 1 .. Len(s) : s[i].tag = tag /\ Found(s, tag) = <<s[i].val>>
    <2>1. PICK i \in 1 .. Len(s) : s[i].tag = tag /\ Found(s, tag) = <<s[i].val>>
      BY <1>3
    <2>2. s[i] \in Fields
      OBVIOUS
    <2>3. s[i].val \in Texts
      BY <1>1, <2>1, <2>2, FieldType
    <2> QED
      BY <2>1, <2>3 DEF LastOf
  <1> QED
    BY <1>1, <1>2, <1>3, FoundType

-----------------------------------------------------------------------------
(***************************************************************************)
(* Runs of fields between lengths.                                         *)
(***************************************************************************)

(* The fields after position i of s end at position j. *)
RunEnds(s, i, j) ==
  /\ i \in 0 .. Len(s) /\ j \in i .. Len(s)
  /\ \A k \in i + 1 .. j : s[k].kind = "field"
  /\ j < Len(s) => s[j + 1].kind = "length"

LEMMA RunIs ==
  ASSUME NEW s \in Seq(Units), NEW i \in Nat, NEW j \in Nat, RunEnds(s, i, j)
  PROVE  Run(s, i) = SubSeq(s, i + 1, j)
  <1> DEFINE I == {k \in i + 1 .. Len(s) : s[k].kind = "length"}
             stop == IF I # {} THEN Min(I) ELSE 0
  <1>1. Run(s, i) = SubSeq(s, i + 1, IF stop = 0 THEN Len(s) ELSE stop - 1)
    BY Zenon DEF Run, SelectInSubSeq
  <1>2. Len(s) \in Nat /\ \A k \in I : k \in Nat /\ k >= j + 1
    BY DEF RunEnds
  <1>3. CASE j < Len(s)
    <2>1. j + 1 \in I
      BY <1>3 DEF RunEnds
    <2>2. Min(I) \in I /\ Min(I) =< j + 1
      BY <2>1, <1>2 DEF Min
    <2>3. Min(I) = j + 1
      BY <2>2, <1>2
    <2>4. stop = j + 1 /\ stop # 0 /\ stop - 1 = j
      BY <2>1, <2>3
    <2> QED
      BY <1>1, <2>4
  <1>4. CASE j = Len(s)
    <2>1. I = {}
      BY <1>2, <1>4
    <2> QED
      BY <1>1, <2>1, <1>4
  <1> QED
    BY <1>2, <1>3, <1>4 DEF RunEnds

LEMMA RunExists ==
  ASSUME NEW s \in Seq(Units), NEW i \in 0 .. Len(s)
  PROVE  \E j \in Nat : RunEnds(s, i, j)
  <1> DEFINE J == {j \in i .. Len(s) : j < Len(s) => s[j + 1].kind = "length"}
  <1>1. Len(s) \in J /\ J \in SUBSET Nat
    OBVIOUS
  <1>2. PICK j \in J : \A k \in J : j =< k
    <2> HIDE DEF J
    <2> QED
      BY <1>1, Least
  <1>3. ASSUME NEW k \in i + 1 .. j PROVE s[k].kind = "field"
    <2>1. k \in 1 .. Len(s) /\ s[k] \in Units
      OBVIOUS
    <2>2. k - 1 \notin J
      <3>1. j \in Int /\ k \in Int /\ ~ (j =< k - 1)
        OBVIOUS
      <3> QED
        BY <3>1, <1>2
    <2>3. s[k].kind # "length"
      BY <2>1, <2>2
    <2> QED
      BY <2>1, <2>3, UnitType
  <1> QED
    BY <1>3 DEF RunEnds

LEMMA RunType ==
  ASSUME NEW s \in Seq(Units), NEW i \in 0 .. Len(s)
  PROVE  Run(s, i) \in Seq(Units)
  <1>1. PICK j \in Nat : RunEnds(s, i, j)
    BY RunExists
  <1>2. Run(s, i) = SubSeq(s, i + 1, j)
    BY <1>1, RunIs
  <1>3. \A k \in i + 1 .. j : s[k] \in Units
    BY <1>1 DEF RunEnds
  <1> QED
    BY <1>1, <1>2, <1>3, SubSeqProperties

(* A part of a sequence, wherever it lies. *)
LEMMA SamePart ==
  ASSUME NEW S, NEW s \in Seq(S), NEW t \in Seq(S), NEW m \in Nat, NEW n \in Nat,
         NEW k \in Nat, m + k <= Len(s), n + k <= Len(t),
         \A i \in 1 .. k : s[m + i] = t[n + i]
  PROVE  SubSeq(s, m + 1, m + k) = SubSeq(t, n + 1, n + k)
  <1>1. \A i \in m + 1 .. m + k : s[i] \in S
    OBVIOUS
  <1>2. \A i \in n + 1 .. n + k : t[i] \in S
    OBVIOUS
  <1> DEFINE a == SubSeq(s, m + 1, m + k)
             b == SubSeq(t, n + 1, n + k)
  <1>3. a \in Seq(S) /\ Len(a) = k /\ \A i \in 1 .. k : a[i] = s[m + i]
    BY <1>1, SubSeqProperties
  <1>4. b \in Seq(S) /\ Len(b) = k /\ \A i \in 1 .. k : b[i] = t[n + i]
    BY <1>2, SubSeqProperties
  <1> HIDE DEF a, b
  <1>5. a = b
    BY <1>3, <1>4, SeqEqual
  <1> QED
    BY <1>5 DEF a, b

LEMMA RunAfter ==
  ASSUME NEW s \in Seq(Units), NEW t \in Seq(Units), NEW i \in 0 .. Len(t)
  PROVE  Run(s \o t, Len(s) + i) = Run(t, i)
  <1>1. PICK j \in Nat : RunEnds(t, i, j)
    BY RunExists
  <1>2. j \in i .. Len(t)
    BY <1>1 DEF RunEnds
  <1>3. s \o t \in Seq(Units) /\ Len(s \o t) = Len(s) + Len(t) /\ Len(s) \in Nat /\ Len(t) \in Nat
    OBVIOUS
  <1>4. \A k \in 1 .. Len(t) : (s \o t)[Len(s) + k] = t[k]
    OBVIOUS
  <1>5. RunEnds(s \o t, Len(s) + i, Len(s) + j)
    <2>1. ASSUME NEW k \in Len(s) + i + 1 .. Len(s) + j PROVE (s \o t)[k].kind = "field"
      <3>1. k - Len(s) \in i + 1 .. j /\ k - Len(s) \in 1 .. Len(t) /\ Len(s) + (k - Len(s)) = k
        BY <1>2, <1>3
      <3> QED
        BY <3>1, <1>1, <1>4 DEF RunEnds
    <2>2. ASSUME j < Len(t) PROVE (s \o t)[Len(s) + j + 1].kind = "length"
      <3>1. j + 1 \in 1 .. Len(t) /\ Len(s) + (j + 1) = Len(s) + j + 1
        BY <1>2, <1>3, <2>2
      <3> QED
        BY <3>1, <1>1, <1>4, <2>2 DEF RunEnds
    <2> QED
      BY <1>2, <1>3, <2>1, <2>2 DEF RunEnds
  <1>6. Run(s \o t, Len(s) + i) = SubSeq(s \o t, Len(s) + i + 1, Len(s) + j)
    <2>1. Len(s) + i \in Nat /\ Len(s) + j \in Nat
      BY <1>2, <1>3
    <2> QED
      BY <2>1, <1>3, <1>5, RunIs
  <1>7. Run(t, i) = SubSeq(t, i + 1, j)
    BY <1>1, RunIs
  <1>8. SubSeq(s \o t, (Len(s) + i) + 1, (Len(s) + i) + (j - i)) = SubSeq(t, i + 1, i + (j - i))
    <2>1. \A k \in 1 .. j - i : (s \o t)[(Len(s) + i) + k] = t[i + k]
      BY <1>2, <1>3, <1>4
    <2> QED
      BY <2>1, <1>2, <1>3, SamePart
  <1>9. (Len(s) + i) + (j - i) = Len(s) + j /\ i + (j - i) = j
    BY <1>2, <1>3
  <1> QED
    BY <1>6, <1>7, <1>8, <1>9

(* Nothing but lengths, or the end, can follow the fields of a message. *)
AtBoundary(s) == s = <<>> \/ (s # <<>> /\ s[1].kind = "length")

LEMMA RunBefore ==
  ASSUME NEW s \in Seq(Units), NEW t \in Seq(Units), AtBoundary(t), NEW i \in 0 .. Len(s)
  PROVE  Run(s \o t, i) = Run(s, i)
  <1>1. CASE t = <<>>
    BY <1>1
  <1>2. CASE t # <<>>
    <2>1. PICK j \in Nat : RunEnds(s, i, j)
      BY RunExists
    <2>2. j \in i .. Len(s) /\ Len(s) \in Nat
      BY <2>1 DEF RunEnds
    <2>3. s \o t \in Seq(Units) /\ Len(s \o t) > Len(s) /\ Len(s \o t) \in Nat
      BY <1>2
    <2>4. \A k \in 1 .. Len(s) : (s \o t)[k] = s[k]
      OBVIOUS
    <2>5. (s \o t)[Len(s) + 1].kind = "length"
      BY <1>2 DEF AtBoundary
    <2>6. RunEnds(s \o t, i, j)
      <3>1. ASSUME NEW k \in i + 1 .. j PROVE (s \o t)[k].kind = "field"
        BY <2>1, <2>2, <2>4 DEF RunEnds
      <3>2. (s \o t)[j + 1].kind = "length"
        <4>1. CASE j < Len(s)
          BY <4>1, <2>1, <2>2, <2>4 DEF RunEnds
        <4>2. CASE j = Len(s)
          BY <4>2, <2>5
        <4>3. j < Len(s) \/ j = Len(s)
          BY <2>2
        <4> QED
          BY <4>1, <4>2, <4>3, Zenon
      <3> QED
        BY <3>1, <3>2, <2>2, <2>3 DEF RunEnds
    <2>7. Run(s \o t, i) = SubSeq(s \o t, i + 1, j) /\ Run(s, i) = SubSeq(s, i + 1, j)
      <3>1. i \in Nat
        OBVIOUS
      <3> QED
        BY <3>1, <2>1, <2>3, <2>6, RunIs, Zenon
    <2>8. SubSeq(s \o t, i + 1, i + (j - i)) = SubSeq(s, i + 1, i + (j - i))
      <3>1. \A k \in 1 .. j - i : (s \o t)[i + k] = s[i + k]
        BY <2>2, <2>4
      <3>2. i + (j - i) <= Len(s \o t) /\ i + (j - i) <= Len(s) /\ i \in Nat /\ j - i \in Nat
        BY <2>2, <2>3
      <3> QED
        BY <3>1, <3>2, <2>3, SamePart
    <2>9. i + (j - i) = j
      BY <2>2
    <2> QED
      BY <2>7, <2>8, <2>9
  <1> QED
    BY <1>1, <1>2

LEMMA RunThrough ==
  ASSUME NEW s \in Seq(Fields), NEW t \in Seq(Units)
  PROVE  Run(s \o t, 0) = s \o Run(t, 0)
  <1>1. s \in Seq(Units) /\ Len(s) \in Nat /\ Len(t) \in Nat
    BY FieldsAreUnits
  <1>2. PICK j \in Nat : RunEnds(t, 0, j)
    BY <1>1, RunExists
  <1>3. j \in 0 .. Len(t)
    BY <1>2 DEF RunEnds
  <1>4. s \o t \in Seq(Units) /\ Len(s \o t) = Len(s) + Len(t)
    BY <1>1
  <1>5. \A k \in 1 .. Len(s) : (s \o t)[k] = s[k] /\ s[k].kind = "field"
    BY <1>1, FieldType
  <1>6. \A k \in 1 .. Len(t) : (s \o t)[Len(s) + k] = t[k]
    BY <1>1
  <1>7. RunEnds(s \o t, 0, Len(s) + j)
    <2>1. ASSUME NEW k \in 1 .. Len(s) + j PROVE (s \o t)[k].kind = "field"
      <3>1. CASE k \in 1 .. Len(s)
        BY <3>1, <1>5
      <3>2. CASE k > Len(s)
        <4>1. k - Len(s) \in 1 .. j /\ k - Len(s) \in 1 .. Len(t) /\ Len(s) + (k - Len(s)) = k
          BY <3>2, <1>1, <1>3
        <4> QED
          BY <4>1, <1>2, <1>6 DEF RunEnds
      <3>3. k \in 1 .. Len(s) \/ k > Len(s)
        BY <1>1, <1>3
      <3> QED
        BY <3>1, <3>2, <3>3, Zenon
    <2>2. ASSUME j < Len(t) PROVE (s \o t)[Len(s) + j + 1].kind = "length"
      <3>1. j + 1 \in 1 .. Len(t) /\ Len(s) + (j + 1) = Len(s) + j + 1
        BY <1>1, <1>3, <2>2
      <3>2. t[j + 1].kind = "length"
        BY <1>2, <2>2 DEF RunEnds
      <3> QED
        BY <3>1, <3>2, <1>6
    <2> QED
      BY <1>1, <1>3, <1>4, <2>1, <2>2 DEF RunEnds
  <1>8. Run(s \o t, 0) = SubSeq(s \o t, 1, Len(s) + j)
    <2>1. Len(s) + j \in Nat /\ 0 \in Nat /\ 0 + 1 = 1
      BY <1>1, <1>3
    <2>2. Run(s \o t, 0) = SubSeq(s \o t, 0 + 1, Len(s) + j)
      BY <2>1, <1>4, <1>7, RunIs, Zenon
    <2> QED
      BY <2>1, <2>2, Zenon
  <1>9. Run(t, 0) = SubSeq(t, 1, j)
    BY <1>2, RunIs
  <1> DEFINE a == SubSeq(s \o t, 1, Len(s) + j)
             b == SubSeq(t, 1, j)
  <1>10. a \in Seq(Units) /\ Len(a) = Len(s) + j
         /\ \A k \in 1 .. Len(s) + j : a[k] = (s \o t)[k]
    <2>1. \A k \in 1 .. Len(s) + j : (s \o t)[k] \in Units
      BY <1>1, <1>3, <1>4
    <2> QED
      BY <2>1, <1>1, <1>3, SubSeqProperties
  <1>11. b \in Seq(Units) /\ Len(b) = j /\ \A k \in 1 .. j : b[k] = t[k]
    <2>1. \A k \in 1 .. j : t[k] \in Units
      BY <1>3
    <2> QED
      BY <2>1, <1>3, SubSeqProperties
  <1> HIDE DEF a, b
  <1>12. s \o b \in Seq(Units) /\ Len(s \o b) = Len(s) + j
    BY <1>1, <1>11
  <1>13. ASSUME NEW k \in 1 .. Len(s) + j PROVE a[k] = (s \o b)[k]
    <2>1. CASE k \in 1 .. Len(s)
      BY <2>1, <1>1, <1>10, <1>11
    <2>2. CASE k > Len(s)
      <3>1. k - Len(s) \in 1 .. j /\ k - Len(s) \in 1 .. Len(t) /\ Len(s) + (k - Len(s)) = k
        BY <2>2, <1>1, <1>3
      <3>2. (s \o b)[k] = b[k - Len(s)]
        BY <2>2, <3>1, <1>1, <1>11
      <3>3. (s \o t)[k] = t[k - Len(s)]
        BY <3>1, <1>6
      <3> QED
        BY <3>1, <3>2, <3>3, <1>10, <1>11
    <2>3. k \in 1 .. Len(s) \/ k > Len(s)
      BY <1>1, <1>3
    <2> QED
      BY <2>1, <2>2, <2>3, Zenon
  <1>14. a = s \o b
    BY <1>10, <1>12, <1>13, SeqEqual
  <1> QED
    BY <1>8, <1>9, <1>14 DEF a, b

LEMMA RunOfNothing == Run(<<>>, 0) = <<>>
  <1>1. <<>> \in Seq(Units) /\ RunEnds(<<>>, 0, 0)
    BY DEF RunEnds
  <1>2. Run(<<>>, 0) = SubSeq(<<>>, 0 + 1, 0)
    <2>1. 0 \in Nat
      OBVIOUS
    <2> QED
      BY <1>1, <2>1, RunIs, Zenon
  <1> QED
    BY <1>2

-----------------------------------------------------------------------------
(***************************************************************************)
(* Streams in which n bytes of fields are followed by lengths that each    *)
(* announce what comes next.                                               *)
(***************************************************************************)

Aligned(s, n) ==
  /\ Bytes(Run(s, 0)) = n
  /\ \A i \in 1 .. Len(s) : s[i].kind = "length" => Bytes(Run(s, i)) = s[i].len

LEMMA AlignedBoundary ==
  ASSUME NEW s \in Seq(Units), Aligned(s, 0)
  PROVE  AtBoundary(s)
  <1>1. SUFFICES ASSUME s # <<>>, s[1].kind = "field" PROVE FALSE
    <2>1. s # <<>> => s[1] \in Units
      OBVIOUS
    <2> QED
      BY <2>1, UnitType DEF AtBoundary
  <1>2. s = <<s[1]>> \o Tail(s) /\ Tail(s) \in Seq(Units) /\ s[1] \in Units
    BY <1>1
  <1>3. s[1] \in Fields /\ <<s[1]>> \in Seq(Fields)
    BY <1>1, <1>2, UnitType
  <1>4. Run(s, 0) = <<s[1]>> \o Run(Tail(s), 0)
    BY <1>2, <1>3, RunThrough
  <1>5. Run(Tail(s), 0) \in Seq(Units)
    <2>1. 0 \in 0 .. Len(Tail(s))
      BY <1>2
    <2> QED
      BY <1>2, <2>1, RunType, Zenon
  <1>6. Run(s, 0) \in Seq(Units) /\ Run(s, 0) # <<>>
    <2>1. ASSUME NEW r \in Seq(Units) PROVE <<s[1]>> \o r \in Seq(Units) /\ <<s[1]>> \o r # <<>>
      BY <1>2
    <2> QED
      BY <1>4, <1>5, <2>1, Zenon
  <1>7. Bytes(Run(s, 0)) > 0
    BY <1>6, BytesPositive
  <1> QED
    BY <1>7 DEF Aligned

LEMMA AlignedAppend ==
  ASSUME NEW s \in Seq(Units), NEW t \in Seq(Units), NEW n, Aligned(s, n), Aligned(t, 0)
  PROVE  Aligned(s \o t, n)
  <1>1. AtBoundary(t)
    BY AlignedBoundary
  <1>2. Run(s \o t, 0) = Run(s, 0)
    BY <1>1, RunBefore
  <1>3. ASSUME NEW i \in 1 .. Len(s \o t), (s \o t)[i].kind = "length"
        PROVE  Bytes(Run(s \o t, i)) = (s \o t)[i].len
    <2>1. CASE i \in 1 .. Len(s)
      <3>1. (s \o t)[i] = s[i] /\ i \in 0 .. Len(s)
        BY <2>1
      <3>2. Run(s \o t, i) = Run(s, i)
        BY <3>1, <1>1, RunBefore
      <3> QED
        BY <1>3, <2>1, <3>1, <3>2 DEF Aligned
    <2>2. CASE i > Len(s)
      <3>1. i - Len(s) \in 1 .. Len(t) /\ i - Len(s) \in 0 .. Len(t) /\ Len(s) + (i - Len(s)) = i
        BY <2>2
      <3>2. Run(s \o t, Len(s) + (i - Len(s))) = Run(t, i - Len(s))
        BY <3>1, RunAfter
      <3>3. (s \o t)[i] = t[i - Len(s)]
        BY <2>2, <3>1
      <3> QED
        BY <1>3, <3>1, <3>2, <3>3 DEF Aligned
    <2> QED
      BY <2>1, <2>2
  <1> QED
    BY <1>2, <1>3 DEF Aligned

LEMMA AlignedTail ==
  ASSUME NEW s \in Seq(Units), NEW n, Aligned(s, n), s # <<>>, Head(s).kind = "length"
  PROVE  Tail(s) \in Seq(Units) /\ Aligned(Tail(s), Head(s).len)
  <1> DEFINE t == Tail(s)
  <1>1. s = <<s[1]>> \o t /\ <<s[1]>> \in Seq(Units) /\ t \in Seq(Units) /\ Len(<<s[1]>>) = 1
        /\ Len(t) = Len(s) - 1 /\ Len(s) \in Nat /\ Len(t) \in Nat /\ Head(s) = s[1]
    OBVIOUS
  <1>2. \A i \in 1 .. Len(t) : t[i] = s[i + 1] /\ i + 1 \in 1 .. Len(s)
    BY <1>1
  <1> HIDE DEF t
  <1>3. ASSUME NEW i \in 0 .. Len(t) PROVE Run(t, i) = Run(s, i + 1)
    <2>1. Run(<<s[1]>> \o t, 1 + i) = Run(t, i)
      BY <1>1, RunAfter
    <2>2. 1 + i = i + 1
      BY <1>1
    <2> QED
      BY <2>1, <2>2, <1>1, Zenon
  <1>4. Bytes(Run(t, 0)) = s[1].len
    <2>1. Run(t, 0) = Run(s, 0 + 1)
      BY <1>1, <1>3
    <2> QED
      BY <2>1, <1>1 DEF Aligned
  <1>5. ASSUME NEW i \in 1 .. Len(t), t[i].kind = "length" PROVE Bytes(Run(t, i)) = t[i].len
    <2>1. Run(t, i) = Run(s, i + 1)
      BY <1>1, <1>3
    <2> QED
      BY <2>1, <1>2, <1>5 DEF Aligned
  <1>6. Aligned(t, Head(s).len)
    BY <1>1, <1>4, <1>5 DEF Aligned
  <1> QED
    BY <1>1, <1>6 DEF t

LEMMA AlignedDrop ==
  ASSUME NEW s \in Seq(Fields), NEW t \in Seq(Units), Aligned(s \o t, Bytes(s))
  PROVE  Aligned(t, 0)
  <1>1. s \in Seq(Units) /\ Len(s) \in Nat /\ Len(t) \in Nat /\ Len(s \o t) = Len(s) + Len(t)
    BY FieldsAreUnits
  <1>2. Run(s \o t, 0) = s \o Run(t, 0) /\ Run(t, 0) \in Seq(Units)
    BY <1>1, RunThrough, RunType
  <1>3. Bytes(s) = Bytes(s) + Bytes(Run(t, 0)) /\ Bytes(s) \in Nat /\ Bytes(Run(t, 0)) \in Nat
    BY <1>1, <1>2, BytesConcat, BytesType DEF Aligned
  <1>4. ASSUME NEW i \in 1 .. Len(t), t[i].kind = "length" PROVE Bytes(Run(t, i)) = t[i].len
    <2>1. Run(s \o t, Len(s) + i) = Run(t, i)
      BY <1>1, RunAfter
    <2>2. (s \o t)[Len(s) + i] = t[i] /\ Len(s) + i \in 1 .. Len(s \o t)
      BY <1>1
    <2> QED
      BY <1>4, <2>1, <2>2 DEF Aligned
  <1> QED
    BY <1>3, <1>4 DEF Aligned

LEMMA AlignedMessage ==
  ASSUME NEW s \in Seq(Fields)
  PROVE  <<Length(Bytes(s))>> \o s \in Seq(Units) /\ Aligned(<<Length(Bytes(s))>> \o s, 0)
  <1> DEFINE l == Length(Bytes(s))
  <1>1. s \in Seq(Units) /\ Bytes(s) \in Nat
    BY FieldsAreUnits, BytesType
  <1>2. l \in Units /\ l.kind = "length" /\ l.len = Bytes(s)
    BY <1>1, LengthType DEF Units
  <1> HIDE DEF l
  <1>3. <<l>> \in Seq(Units) /\ <<l>> \o s \in Seq(Units) /\ Len(<<l>>) = 1 /\ Len(s) \in Nat
        /\ Len(<<l>> \o s) = Len(s) + 1 /\ (<<l>> \o s)[1] = l
        /\ \A i \in 1 .. Len(s) : (<<l>> \o s)[i + 1] = s[i]
    BY <1>1, <1>2
  <1>4. Run(<<l>> \o s, 0) = <<>>
    <2>1. AtBoundary(<<l>> \o s) /\ <<>> \in Seq(Units) /\ 0 \in 0 .. Len(<<>>)
      BY <1>2, <1>3 DEF AtBoundary
    <2>2. Run(<<>> \o (<<l>> \o s), 0) = Run(<<>>, 0)
      BY <2>1, <1>3, RunBefore
    <2> QED
      BY <2>2, <1>3, RunOfNothing
  <1>5. Run(<<l>> \o s, 1) = s
    <2>1. Run(<<l>> \o s, 1 + 0) = Run(s, 0)
      <3>1. 0 \in 0 .. Len(s)
        BY <1>3
      <3> QED
        BY <3>1, <1>1, <1>3, RunAfter, Zenon
    <2>2. Run(s \o <<>>, 0) = s \o Run(<<>>, 0)
      <3>1. <<>> \in Seq(Units)
        OBVIOUS
      <3> QED
        BY <3>1, RunThrough, Zenon
    <2>3. s \o <<>> = s
      BY <1>1
    <2>4. 1 + 0 = 1
      OBVIOUS
    <2> QED
      BY <2>1, <2>2, <2>3, <2>4, RunOfNothing, Zenon
  <1>6. ASSUME NEW i \in 1 .. Len(<<l>> \o s), (<<l>> \o s)[i].kind = "length" PROVE i = 1
    <2>1. i # 1 => i - 1 \in 1 .. Len(s) /\ (<<l>> \o s)[i] = s[i - 1]
      BY <1>3
    <2>2. \A k \in 1 .. Len(s) : s[k].kind = "field"
      BY FieldType
    <2> QED
      BY <1>6, <2>1, <2>2
  <1>7. Aligned(<<l>> \o s, 0)
    BY <1>2, <1>3, <1>4, <1>5, <1>6, BytesEmpty DEF Aligned
  <1> QED
    BY <1>3, <1>7 DEF l

LEMMA AlignedFrame ==
  ASSUME NEW s \in Seq(Fields), NEW t \in Seq(Fields)
  PROVE  LET f == <<Length(Bytes(s))>> \o s \o <<Length(Bytes(t))>> \o t
         IN  f \in Seq(Units) /\ Aligned(f, 0)
  <1> DEFINE l == <<Length(Bytes(s))>>
             m == <<Length(Bytes(t))>>
  <1>1. l \o s \in Seq(Units) /\ Aligned(l \o s, 0) /\ m \o t \in Seq(Units) /\ Aligned(m \o t, 0)
    BY AlignedMessage
  <1>2. (l \o s) \o (m \o t) \in Seq(Units) /\ Aligned((l \o s) \o (m \o t), 0)
    BY <1>1, AlignedAppend, BytesConcat, Zenon
  <1>3. (l \o s) \o (m \o t) = ((l \o s) \o m) \o t
    <2>1. m \in Seq(Units) /\ t \in Seq(Units)
      BY FieldsAreUnits, FieldsBytes DEF Units
    <2> QED
      BY <1>1, <2>1, ConcatAssociative
  <1> QED
    BY <1>2, <1>3

-----------------------------------------------------------------------------
(***************************************************************************)
(* Lengths on their way.                                                   *)
(***************************************************************************)

LengthsAt(s) == {i \in DOMAIN s : s[i].kind = "length"}

LEMMA LengthsFinite ==
  ASSUME NEW s \in Seq(Units)
  PROVE  IsFiniteSet(LengthsAt(s)) /\ Lengths(s) = Cardinality(LengthsAt(s)) /\ Lengths(s) \in Nat
  <1>1. Len(s) \in Nat /\ LengthsAt(s) \in SUBSET (1 .. Len(s))
    BY DEF LengthsAt
  <1>2. IsFiniteSet(1 .. Len(s))
    BY <1>1, FS_Interval
  <1>3. IsFiniteSet(LengthsAt(s))
    BY <1>1, <1>2, FS_Subset
  <1>4. Lengths(s) = Cardinality(LengthsAt(s))
    BY Zenon DEF Lengths, LengthsAt
  <1> QED
    BY <1>3, <1>4, FS_CardinalityType

LEMMA LengthsConcat ==
  ASSUME NEW s \in Seq(Units), NEW t \in Seq(Units)
  PROVE  Lengths(s \o t) = Lengths(s) + Lengths(t)
  <1> DEFINE A == LengthsAt(s)
             B == LengthsAt(t)
             C == {Len(s) + i : i \in B}
             g == [i \in B |-> Len(s) + i]
  <1>1. /\ DOMAIN s = 1 .. Len(s) /\ DOMAIN t = 1 .. Len(t) /\ s \o t \in Seq(Units)
        /\ DOMAIN (s \o t) = 1 .. Len(s) + Len(t) /\ Len(s) \in Nat /\ Len(t) \in Nat
    OBVIOUS
  <1>2. B \in SUBSET (1 .. Len(t)) /\ A \in SUBSET (1 .. Len(s))
    BY <1>1 DEF LengthsAt
  <1>3. g \in Bijection(B, C)
    <2>1. g \in Surjection(B, C)
      BY DEF Surjection
    <2>2. ASSUME NEW x \in B, NEW y \in B, g[x] = g[y] PROVE x = y
      BY <2>2, <1>1, <1>2
    <2> QED
      BY <2>1, <2>2 DEF Bijection, Injection, IsInjective, Surjection
  <1>4. IsFiniteSet(A) /\ IsFiniteSet(B)
    BY LengthsFinite
  <1>5. IsFiniteSet(C) /\ Cardinality(C) = Cardinality(B)
    BY <1>3, <1>4, FS_Bijection DEF ExistsBijection
  <1>6. LengthsAt(s \o t) = A \cup C
    <2>1. ASSUME NEW i \in LengthsAt(s \o t) PROVE i \in A \cup C
      <3>1. i \in 1 .. Len(s) + Len(t) /\ (s \o t)[i].kind = "length"
        BY <1>1 DEF LengthsAt
      <3>2. CASE i <= Len(s)
        BY <3>1, <3>2, <1>1 DEF LengthsAt
      <3>3. CASE i > Len(s)
        <4>1. i - Len(s) \in 1 .. Len(t) /\ Len(s) + (i - Len(s)) = i
          BY <3>1, <3>3, <1>1
        <4>2. (s \o t)[i] = t[i - Len(s)]
          BY <4>1, <3>3, <1>1
        <4>3. i - Len(s) \in B
          BY <4>1, <4>2, <3>1, <1>1 DEF LengthsAt
        <4> QED
          BY <4>1, <4>3
      <3> QED
        BY <3>1, <3>2, <3>3, <1>1
    <2>2. ASSUME NEW i \in A PROVE i \in LengthsAt(s \o t)
      BY <1>1 DEF LengthsAt
    <2>3. ASSUME NEW i \in B PROVE Len(s) + i \in LengthsAt(s \o t)
      BY <1>1 DEF LengthsAt
    <2> QED
      BY <2>1, <2>2, <2>3
  <1>7. Cardinality(A \cup C) = Cardinality(A) + Cardinality(C)
    <2>1. Cardinality(A \cup C) = Cardinality(A) + Cardinality(C) - Cardinality(A \cap C)
      BY <1>4, <1>5, FS_Union
    <2>2. A \cap C = {}
      BY <1>1, <1>2
    <2>3. Cardinality(A \cap C) = 0
      BY <2>2, FS_EmptySet
    <2>4. Cardinality(A) \in Nat /\ Cardinality(C) \in Nat
      BY <1>4, <1>5, FS_CardinalityType
    <2> QED
      BY <2>1, <2>3, <2>4
  <1> QED
    BY <1>1, <1>5, <1>6, <1>7, LengthsFinite

LEMMA LengthsOfFields ==
  ASSUME NEW s \in Seq(Fields)
  PROVE  Lengths(s) = 0
  <1>1. LengthsAt(s) = {}
    BY FieldType DEF LengthsAt
  <1> QED
    BY <1>1, FieldsAreUnits, LengthsFinite, FS_EmptySet

LEMMA LengthsOfOne ==
  ASSUME NEW u \in Units, u.kind = "length"
  PROVE  <<u>> \in Seq(Units) /\ Lengths(<<u>>) = 1
  <1>1. <<u>> \in Seq(Units) /\ LengthsAt(<<u>>) = {1}
    BY DEF LengthsAt
  <1>2. Cardinality({1}) = 1
    BY FS_Singleton
  <1> QED
    BY <1>1, <1>2, LengthsFinite

LEMMA LengthsOfFrame ==
  ASSUME NEW s \in Seq(Fields), NEW t \in Seq(Fields)
  PROVE  Lengths(<<Length(Bytes(s))>> \o s \o <<Length(Bytes(t))>> \o t) = 2
  <1> DEFINE l == <<Length(Bytes(s))>>
             m == <<Length(Bytes(t))>>
  <1>1. l \in Seq(Units) /\ Lengths(l) = 1 /\ m \in Seq(Units) /\ Lengths(m) = 1
    <2>1. \A n \in Nat : Length(n) \in Units /\ Length(n).kind = "length"
      BY LengthType DEF Units
    <2> QED
      BY <2>1, FieldsBytes, LengthsOfOne
  <1>2. s \in Seq(Units) /\ t \in Seq(Units) /\ Lengths(s) = 0 /\ Lengths(t) = 0
    BY FieldsAreUnits, LengthsOfFields
  <1> DEFINE x == l \o s
             y == x \o m
  <1> HIDE DEF l, m
  <1>3. x \in Seq(Units) /\ Lengths(x) = 1
    BY <1>1, <1>2, BytesConcat, LengthsConcat
  <1> HIDE DEF x
  <1>4. y \in Seq(Units) /\ Lengths(y) = 2
    BY <1>1, <1>3, BytesConcat, LengthsConcat
  <1> HIDE DEF y
  <1>5. Lengths(y \o t) = 2
    BY <1>2, <1>4, LengthsConcat
  <1> QED
    BY <1>5, Zenon DEF l, m, x, y

-----------------------------------------------------------------------------
(***************************************************************************)
(* What a step of recv_fn does to its stream: what it has read and what is *)
(* still on the way.                                                       *)
(***************************************************************************)

BeforeLength  == {"header_len", "body_len"}
BeforeMessage == {"header", "body"}

(* A header that has been parsed: of it the server copies the id. *)
IsReader(r) ==
  /\ r = [at |-> r.at, len |-> r.len, header |-> r.header, buf |-> r.buf]
  /\ ReaderType(r) /\ r.buf \in Seq(Units)
  /\ r.at \in BeforeLength => r.len = 4
  /\ r.header.request_id \in Nat

Flow(r, rest) == r.buf \o rest

(* The bytes of fields that come before the next length. *)
Due(r) == IF r.at \in BeforeMessage THEN r.len ELSE 0

LEMMA ReaderInit == IsReader(Reader) /\ Reader.at = "header_len" /\ Reader.buf = <<>>
  BY DEF BeforeLength, BeforeMessage, IsReader, Reader, ReaderType, NewHeader

LEMMA UnitsAssociative ==
  ASSUME NEW a \in Seq(Units), NEW b \in Seq(Units), NEW c \in Seq(Units)
  PROVE  (a \o b) \o c = a \o (b \o c)
  BY ConcatAssociative

(* async_read has brought g. *)
Brings(r, g, q) == q = [r EXCEPT !.buf = @ \o g]

LEMMA ReadStep ==
  ASSUME NEW r, IsReader(r), NEW g \in Seq(Units), NEW z \in Seq(Units), NEW q, Brings(r, g, q)
  PROVE  /\ IsReader(q) /\ q.at = r.at /\ q.len = r.len /\ q.header = r.header
         /\ Flow(q, z) = Flow(r, g \o z)
  <1>1. r.buf \in Seq(Units)
    BY DEF IsReader
  <1>2. PICK b : b = r.buf \o g
    OBVIOUS
  <1>3. b \in Seq(Units)
    BY <1>1, <1>2
  <1>4. q = [r EXCEPT !.buf = b]
    BY <1>2, Zenon DEF Brings
  <1>5. q = [at |-> r.at, len |-> r.len, header |-> r.header, buf |-> b]
    <2>1. r = [at |-> r.at, len |-> r.len, header |-> r.header, buf |-> r.buf]
      BY DEF IsReader
    <2> QED
      BY <1>4, <2>1
  <1>6. q.at = r.at /\ q.len = r.len /\ q.header = r.header /\ q.buf = b
    BY <1>5
  <1>7. b \o z = r.buf \o (g \o z)
    <2>1. (r.buf \o g) \o z = r.buf \o (g \o z)
      BY <1>1, UnitsAssociative, Zenon
    <2> QED
      BY <1>2, <2>1, Zenon
  <1>8. Flow(q, z) = Flow(r, g \o z)
    BY <1>6, <1>7, Zenon DEF Flow
  <1>9. IsReader(q)
    BY <1>3, <1>5, <1>6 DEF IsReader, ReaderType
  <1> QED
    BY <1>6, <1>8, <1>9

LEMMA HeadTailConcat ==
  ASSUME NEW S, NEW a \in Seq(S), a # <<>>, NEW b \in Seq(S)
  PROVE  /\ a \o b \in Seq(S) /\ a \o b # <<>>
         /\ Head(a \o b) = Head(a) /\ Tail(a \o b) = Tail(a) \o b
  <1> DEFINE c == a \o b
             t == Tail(a)
             d == t \o b
  <1>1. /\ c \in Seq(S) /\ Len(c) = Len(a) + Len(b) /\ Len(a) \in Nat \ {0} /\ Len(b) \in Nat
        /\ \A i \in 1 .. Len(a) : c[i] = a[i]
        /\ \A i \in 1 .. Len(b) : c[Len(a) + i] = b[i]
    OBVIOUS
  <1>2. t \in Seq(S) /\ Len(t) = Len(a) - 1 /\ \A i \in 1 .. Len(a) - 1 : t[i] = a[i + 1]
    OBVIOUS
  <1> HIDE DEF c, t
  <1>3. /\ d \in Seq(S) /\ Len(d) = Len(t) + Len(b)
        /\ \A i \in 1 .. Len(t) : d[i] = t[i]
        /\ \A i \in 1 .. Len(b) : d[Len(t) + i] = b[i]
    <2>1. /\ d \in Seq(S) /\ Len(d) = Len(t) + Len(b)
          /\ \A i \in 1 .. Len(t) + Len(b) : d[i] = IF i <= Len(t) THEN t[i] ELSE b[i - Len(t)]
      BY <1>2, ConcatProperties
    <2>2. Len(t) \in Nat /\ Len(b) \in Nat
      BY <1>1, <1>2
    <2> HIDE DEF d
    <2>3. ASSUME NEW i \in 1 .. Len(b) PROVE d[Len(t) + i] = b[i]
      <3>1. Len(t) + i \in 1 .. Len(t) + Len(b) /\ ~ (Len(t) + i <= Len(t)) /\ Len(t) + i - Len(t) = i
        BY <2>2
      <3> QED
        BY <2>1, <3>1
    <2>4. ASSUME NEW i \in 1 .. Len(t) PROVE d[i] = t[i]
      <3>1. i \in 1 .. Len(t) + Len(b) /\ i <= Len(t)
        BY <2>2
      <3> QED
        BY <2>1, <3>1
    <2> QED
      BY <2>1, <2>3, <2>4
  <1> HIDE DEF d
  <1>4. c # <<>> /\ Head(c) = Head(a)
    BY <1>1
  <1>5. /\ Tail(c) \in Seq(S) /\ Len(Tail(c)) = Len(c) - 1
        /\ \A i \in 1 .. Len(c) - 1 : Tail(c)[i] = c[i + 1]
    BY <1>1, <1>4
  <1>6. ASSUME NEW i \in 1 .. Len(d) PROVE Tail(c)[i] = d[i]
    <2>1. i \in 1 .. Len(c) - 1 /\ Tail(c)[i] = c[i + 1]
      BY <1>1, <1>2, <1>3, <1>5
    <2>2. CASE i <= Len(t)
      <3>1. i + 1 \in 1 .. Len(a) /\ i \in 1 .. Len(a) - 1 /\ i \in 1 .. Len(t)
        BY <2>2, <1>1, <1>2
      <3>2. c[i + 1] = a[i + 1] /\ t[i] = a[i + 1] /\ d[i] = t[i]
        BY <3>1, <1>1, <1>2, <1>3
      <3> QED
        BY <2>1, <3>2, Zenon
    <2>3. CASE i > Len(t)
      <3>1. /\ i - Len(t) \in 1 .. Len(b) /\ Len(t) + (i - Len(t)) = i
            /\ Len(a) + (i - Len(t)) = i + 1
        BY <2>3, <1>1, <1>2, <1>3
      <3>2. c[Len(a) + (i - Len(t))] = b[i - Len(t)]
        BY <3>1, <1>1
      <3>3. d[Len(t) + (i - Len(t))] = b[i - Len(t)]
        BY <3>1, <1>3
      <3> QED
        BY <2>1, <3>1, <3>2, <3>3, Zenon
    <2>4. i <= Len(t) \/ i > Len(t)
      BY <1>1, <1>2, <1>3
    <2> QED
      BY <2>2, <2>3, <2>4, Zenon
  <1>7. Tail(c) = d
    BY <1>1, <1>2, <1>3, <1>5, <1>6, SeqEqual
  <1> QED
    BY <1>1, <1>4, <1>7 DEF c, d, t

LEMMA LengthReader ==
  ASSUME NEW r, IsReader(r), NEW x \in BeforeLength, AtLength(r, x),
         NEW y \in BeforeMessage, NEW q, q = AfterLength(r, y)
  PROVE  /\ IsReader(q) /\ q.at = y /\ q.header = r.header
         /\ r.buf \in Seq(Units) /\ r.buf # <<>> /\ Head(r.buf).kind = "length"
         /\ q.len = Head(r.buf).len /\ q.buf = Tail(r.buf)
  <1>1. r.buf # <<>> /\ r.buf \in Seq(Units)
    <2>1. r.len = 4 /\ Bytes(r.buf) >= r.len
      BY DEF BeforeLength, BeforeMessage, IsReader, AtLength, Enough
    <2> QED
      BY <2>1, BytesEmpty DEF BeforeLength, BeforeMessage, IsReader
  <1>2. Head(r.buf).kind = "length" /\ Head(r.buf) \in Units /\ Tail(r.buf) \in Seq(Units)
    BY <1>1 DEF AtLength
  <1>3. Head(r.buf).len \in Nat
    BY <1>2, UnitType
  <1>4. q = [at |-> y, len |-> Head(r.buf).len, header |-> r.header, buf |-> Tail(r.buf)]
    BY DEF BeforeLength, BeforeMessage, IsReader, AfterLength
  <1>5. q.at = y /\ q.len = Head(r.buf).len /\ q.header = r.header /\ q.buf = Tail(r.buf)
    BY <1>4
  <1>6. IsReader(q)
    BY <1>2, <1>3, <1>4, <1>5 DEF BeforeLength, BeforeMessage, IsReader, ReaderType
  <1> QED
    BY <1>1, <1>2, <1>5, <1>6

LEMMA LengthStep ==
  ASSUME NEW r, IsReader(r), NEW rest \in Seq(Units), NEW x \in BeforeLength,
         AtLength(r, x), NEW y \in BeforeMessage, NEW q, q = AfterLength(r, y)
  PROVE  LET s == Flow(r, rest)
         IN  /\ IsReader(q) /\ q.at = y /\ q.header = r.header
             /\ s \in Seq(Units) /\ s # <<>> /\ Head(s).kind = "length"
             /\ q.len = Head(s).len /\ Flow(q, rest) = Tail(s)
  <1> DEFINE s == Flow(r, rest)
  <1>1. /\ IsReader(q) /\ q.at = y /\ q.header = r.header
        /\ r.buf \in Seq(Units) /\ r.buf # <<>> /\ Head(r.buf).kind = "length"
        /\ q.len = Head(r.buf).len /\ q.buf = Tail(r.buf)
    BY LengthReader
  <1>2. s \in Seq(Units) /\ s # <<>> /\ Head(s) = Head(r.buf) /\ Tail(s) = Tail(r.buf) \o rest
    BY <1>1, HeadTailConcat, Zenon DEF Flow
  <1>3. Flow(q, rest) = Tail(r.buf) \o rest
    BY <1>1, Zenon DEF Flow
  <1> QED
    BY <1>1, <1>2, <1>3, Zenon

LEMMA HeaderStep ==
  ASSUME NEW r, IsReader(r), ParsesWithin(r.buf, r.len), NEW q, q = AfterHeader(r)
  PROVE  /\ IsReader(q) /\ q.at = "body_len" /\ q.header = HeaderIn(r)
         /\ q.buf = Left(r.buf, r.len)
  <1>1. r.buf \in Seq(Units)
    BY DEF BeforeLength, BeforeMessage, IsReader
  <1>2. Left(r.buf, r.len) \in Seq(Units) /\ Taken(r.buf, r.len) \in Seq(Fields)
    BY <1>1, TakenLeft, TakenFields
  <1>3. q = [at |-> "body_len", len |-> 4, header |-> HeaderIn(r), buf |-> Left(r.buf, r.len)]
    BY DEF BeforeLength, BeforeMessage, IsReader, AfterHeader
  <1>4. q.at = "body_len" /\ q.len = 4 /\ q.header = HeaderIn(r) /\ q.buf = Left(r.buf, r.len)
    BY <1>3
  <1>5. HeaderIn(r).request_id = LastOf(Taken(r.buf, r.len), VarintTag(4), 0)
    BY DEF HeaderIn, ParseHeader
  <1>6. HeaderIn(r).request_id \in Nat
    BY <1>2, <1>5, NumberParsed
  <1> QED
    BY <1>2, <1>3, <1>4, <1>6 DEF BeforeLength, BeforeMessage, IsReader, ReaderType

LEMMA BodyStep ==
  ASSUME NEW r, IsReader(r), NEW q, q = AfterBody(r)
  PROVE  IsReader(q) /\ q.at = "header_len" /\ q.buf = Left(r.buf, r.len)
  <1>1. Left(r.buf, r.len) \in Seq(Units)
    BY TakenLeft DEF BeforeLength, BeforeMessage, IsReader
  <1>2. q = [at |-> "header_len", len |-> 4, header |-> NewHeader, buf |-> Left(r.buf, r.len)]
    BY DEF AfterBody, Reader
  <1> QED
    BY <1>1, <1>2 DEF BeforeLength, BeforeMessage, IsReader, ReaderType, NewHeader

LEMMA ParsedStream ==
  ASSUME NEW r, IsReader(r), NEW rest \in Seq(Units), ParsesWithin(r.buf, r.len)
  PROVE  LET t == Taken(r.buf, r.len)
             s == Left(r.buf, r.len) \o rest
         IN  /\ t \in Seq(Fields) /\ Bytes(t) = r.len
             /\ s \in Seq(Units) /\ r.buf \o rest = t \o s
  <1> DEFINE t == Taken(r.buf, r.len)
             l == Left(r.buf, r.len)
  <1>1. r.buf \in Seq(Units)
    BY DEF BeforeLength, BeforeMessage, IsReader
  <1>2. t \in Seq(Fields) /\ Bytes(t) = r.len /\ t \in Seq(Units) /\ l \in Seq(Units) /\ r.buf = t \o l
    BY <1>1, TakenLeft, TakenFields
  <1> HIDE DEF t, l
  <1>3. (t \o l) \o rest = t \o (l \o rest) /\ l \o rest \in Seq(Units)
    BY <1>2, ConcatAssociative
  <1>4. r.buf \o rest = t \o (l \o rest)
    BY <1>2, <1>3, Zenon
  <1> QED
    BY <1>2, <1>3, <1>4, Zenon DEF t, l

(* The same steps, for the bytes that are due and for the lengths. *)

LEMMA LengthKeeps ==
  ASSUME NEW r, IsReader(r), NEW rest \in Seq(Units), NEW x \in BeforeLength,
         AtLength(r, x), NEW y \in BeforeMessage, NEW q, q = AfterLength(r, y),
         x = "header_len" <=> y = "header"
  PROVE  /\ Aligned(Flow(r, rest), Due(r)) => Aligned(Flow(q, rest), Due(q))
         /\ InFlight(q, rest) = InFlight(r, rest) /\ InFlight(r, rest) \in Nat
  <1> DEFINE s == Flow(r, rest)
  <1>1. /\ q.at = y /\ r.at = x /\ s \in Seq(Units) /\ s # <<>> /\ Head(s).kind = "length"
        /\ q.len = Head(s).len /\ Flow(q, rest) = Tail(s)
    <2>1. r.at = x
      BY DEF AtLength
    <2> QED
      BY <2>1, LengthStep
  <1>2. InFlight(r, rest) = LengthsRead(r) + Lengths(s)
    BY DEF InFlight, Flow
  <1> HIDE DEF s
  <1>3. Aligned(s, Due(r)) => Aligned(Tail(s), Head(s).len)
    BY <1>1, AlignedTail
  <1>4. Due(q) = Head(s).len
    BY <1>1 DEF BeforeMessage, Due
  <1>5. Lengths(s) = 1 + Lengths(Tail(s)) /\ Lengths(Tail(s)) \in Nat
    <2>1. s = <<Head(s)>> \o Tail(s) /\ Head(s) \in Units /\ Tail(s) \in Seq(Units)
      BY <1>1
    <2> QED
      BY <1>1, <2>1, LengthsOfOne, LengthsConcat, LengthsFinite
  <1>6. LengthsRead(q) = LengthsRead(r) + 1 /\ LengthsRead(r) \in Nat
    BY <1>1 DEF BeforeLength, BeforeMessage, LengthsRead
  <1>7. InFlight(q, rest) = LengthsRead(q) + Lengths(Tail(s))
    BY <1>1 DEF InFlight, Flow
  <1> QED
    BY <1>1, <1>2, <1>3, <1>4, <1>5, <1>6, <1>7 DEF s

LEMMA HeaderKeeps ==
  ASSUME NEW r, IsReader(r), NEW rest \in Seq(Units), r.at = "header",
         ParsesWithin(r.buf, r.len), NEW q, q = AfterHeader(r)
  PROVE  /\ Aligned(Flow(r, rest), Due(r)) => Aligned(Flow(q, rest), Due(q))
         /\ InFlight(q, rest) = InFlight(r, rest) /\ InFlight(r, rest) \in Nat
  <1> DEFINE t == Taken(r.buf, r.len)
             s == Left(r.buf, r.len) \o rest
  <1>1. t \in Seq(Fields) /\ Bytes(t) = r.len /\ s \in Seq(Units) /\ r.buf \o rest = t \o s
    BY ParsedStream
  <1>2. q.at = "body_len" /\ q.buf \o rest = s
    BY HeaderStep
  <1>3. Due(r) = r.len /\ Due(q) = 0
    BY <1>2 DEF BeforeMessage, Due
  <1>4. LengthsRead(q) = 1 /\ LengthsRead(r) = 1
    BY <1>2 DEF LengthsRead
  <1> HIDE DEF t, s
  <1>5. Aligned(t \o s, Bytes(t)) => Aligned(s, 0)
    BY <1>1, AlignedDrop
  <1>6. Lengths(t \o s) = Lengths(s) /\ Lengths(s) \in Nat
    BY <1>1, FieldsAreUnits, LengthsOfFields, LengthsConcat, LengthsFinite
  <1> QED
    BY <1>1, <1>2, <1>3, <1>4, <1>5, <1>6 DEF InFlight, Flow

LEMMA BodyKeeps ==
  ASSUME NEW r, IsReader(r), NEW rest \in Seq(Units), r.at = "body",
         ParsesWithin(r.buf, r.len), NEW q, q = AfterBody(r)
  PROVE  /\ Aligned(Flow(r, rest), Due(r)) => Aligned(Flow(q, rest), Due(q))
         /\ InFlight(r, rest) = InFlight(q, rest) + 2 /\ InFlight(q, rest) \in Nat
  <1> DEFINE t == Taken(r.buf, r.len)
             s == Left(r.buf, r.len) \o rest
  <1>1. t \in Seq(Fields) /\ Bytes(t) = r.len /\ s \in Seq(Units) /\ r.buf \o rest = t \o s
    BY ParsedStream
  <1>2. q.at = "header_len" /\ q.buf \o rest = s
    BY BodyStep
  <1>3. Due(r) = r.len /\ Due(q) = 0
    BY <1>2 DEF BeforeMessage, Due
  <1>4. LengthsRead(q) = 0 /\ LengthsRead(r) = 2
    BY <1>2 DEF LengthsRead
  <1> HIDE DEF t, s
  <1>5. Aligned(t \o s, Bytes(t)) => Aligned(s, 0)
    BY <1>1, AlignedDrop
  <1>6. Lengths(t \o s) = Lengths(s) /\ Lengths(s) \in Nat
    BY <1>1, FieldsAreUnits, LengthsOfFields, LengthsConcat, LengthsFinite
  <1> QED
    BY <1>1, <1>2, <1>3, <1>4, <1>5, <1>6 DEF InFlight, Flow

IsFrame(f) ==
  \E s \in Seq(Fields), t \in Seq(Fields) : f = <<Length(Bytes(s))>> \o s \o <<Length(Bytes(t))>> \o t

LEMMA FrameType ==
  ASSUME NEW f, IsFrame(f)
  PROVE  f \in Seq(Units) /\ Aligned(f, 0) /\ Lengths(f) = 2
  <1>1. PICK s \in Seq(Fields), t \in Seq(Fields) :
          f = <<Length(Bytes(s))>> \o s \o <<Length(Bytes(t))>> \o t
    BY Zenon DEF IsFrame
  <1>2. f \in Seq(Units) /\ Aligned(f, 0)
    BY <1>1, AlignedFrame, Zenon
  <1>3. Lengths(f) = 2
    BY <1>1, LengthsOfFrame, Zenon
  <1> QED
    BY <1>2, <1>3

(* A frame is put on the way to recv_fn. *)
LEMMA FrameKeeps ==
  ASSUME NEW r, IsReader(r), r.at # "ended", NEW rest \in Seq(Units), NEW f, IsFrame(f)
  PROVE  /\ rest \o f \in Seq(Units)
         /\ Aligned(Flow(r, rest), Due(r)) => Aligned(Flow(r, rest \o f), Due(r))
         /\ InFlight(r, rest \o f) = InFlight(r, rest) + 2 /\ InFlight(r, rest) \in Nat
  <1>1. f \in Seq(Units) /\ Aligned(f, 0) /\ Lengths(f) = 2
    BY FrameType
  <1>2. r.buf \in Seq(Units)
    BY DEF BeforeLength, BeforeMessage, IsReader
  <1> DEFINE b == r.buf \o rest
  <1>3. b \in Seq(Units) /\ rest \o f \in Seq(Units) /\ r.buf \o (rest \o f) = b \o f
    <2>1. b \in Seq(Units) /\ rest \o f \in Seq(Units)
      BY <1>1, <1>2
    <2>2. (r.buf \o rest) \o f = r.buf \o (rest \o f)
      BY <1>1, <1>2, UnitsAssociative, Zenon
    <2> QED
      BY <2>1, <2>2, Zenon
  <1> HIDE DEF b
  <1>4. Aligned(b, Due(r)) => Aligned(b \o f, Due(r))
    BY <1>1, <1>3, AlignedAppend
  <1>5. Lengths(b \o f) = Lengths(b) + 2 /\ Lengths(b) \in Nat
    BY <1>1, <1>3, LengthsConcat, LengthsFinite
  <1>6. InFlight(r, rest) = LengthsRead(r) + Lengths(b)
    BY DEF InFlight, b
  <1>7. InFlight(r, rest \o f) = LengthsRead(r) + Lengths(b \o f)
    BY <1>3 DEF InFlight
  <1>8. LengthsRead(r) \in Nat
    BY DEF LengthsRead, IsReader, ReaderType
  <1> QED
    BY <1>3, <1>4, <1>5, <1>6, <1>7, <1>8 DEF b, Flow

-----------------------------------------------------------------------------
(***************************************************************************)
(* Types.  Beyond TypeOK: a call is in the executor's queue once and has   *)
(* no session there, what travels consists of fields and lengths, and the  *)
(* server has looked the method up before it waits for the body.           *)
(***************************************************************************)

CallTypes ==
  /\ build \in Builds /\ lost \in BOOLEAN /\ request_id_ \in Nat
  /\ made \in Seq(AllCalls)
  /\ tasks \in Seq(Nat)
  /\ \A i \in 1 .. Len(tasks) :
       /\ tasks[i] \in 1 .. Len(made)
       /\ \A j \in 1 .. Len(tasks) : tasks[i] = tasks[j] => i = j

SessionTypes ==
  /\ IsFiniteSet(DOMAIN session_registry_)
  /\ \A i \in DOMAIN session_registry_ :
       /\ i \in Nat /\ i < request_id_ /\ session_registry_[i] \in 1 .. Len(made)
       /\ \A j \in DOMAIN session_registry_ : session_registry_[j] = session_registry_[i] => i = j
       /\ \A k \in 1 .. Len(tasks) : tasks[k] # session_registry_[i]

StreamTypes ==
  /\ up \in Seq(Units) /\ down \in Seq(Units)
  /\ IsReader(server) /\ IsReader(client) /\ client.at # "ended"
  /\ server.at = "body" => Registered(server.header)

BufferTypes ==
  /\ null \in BOOLEAN
  /\ consumed_bytes_ \in [{"server", "client"} -> 0 .. BlockSize - 1]

TypeInv == CallTypes /\ SessionTypes /\ StreamTypes /\ BufferTypes

LEMMA TypeInvImplies == TypeInv => TypeOK
  <1> SUFFICES ASSUME TypeInv PROVE TypeOK
    OBVIOUS
  <1>1. DOMAIN made = 1 .. Len(made) /\ DOMAIN tasks = 1 .. Len(tasks)
    BY DEF TypeInv, CallTypes
  <1>2. ReaderType(server) /\ ReaderType(client)
    BY DEF TypeInv, StreamTypes, IsReader
  <1> QED
    BY <1>1, <1>2 DEF TypeInv, CallTypes, SessionTypes, BufferTypes, TypeOK

LEMMA Blocks == BlockSize \in Nat \ {0} /\ 0 \in 0 .. BlockSize - 1
  <1>1. BlockSize \in Nat \ {0}
    BY EchoAssumption, Zenon
  <1> QED
    BY <1>1

LEMMA TypeInvInit == Init => TypeInv
  <1> SUFFICES ASSUME Init PROVE TypeInv
    OBVIOUS
  <1>1. CallTypes
    <2>1. request_id_ \in Nat /\ build \in Builds /\ lost \in BOOLEAN
      BY EchoAssumption DEF Init
    <2>2. made \in Seq(AllCalls) /\ tasks \in Seq(Nat) /\ Len(tasks) = 0
      BY DEF Init
    <2> QED
      BY <2>1, <2>2 DEF CallTypes
  <1>2. SessionTypes
    <2>1. DOMAIN session_registry_ = {}
      BY DEF Init
    <2> QED
      BY <2>1, FS_EmptySet DEF SessionTypes
  <1>3. StreamTypes
    BY ReaderInit DEF Init, StreamTypes
  <1>4. BufferTypes
    BY Blocks DEF Init, BufferTypes
  <1> QED
    BY <1>1, <1>2, <1>3, <1>4 DEF TypeInv

-----------------------------------------------------------------------------
(* Calls *)

LEMMA CallTypesCall ==
  ASSUME TypeInv, Call
  PROVE  CallTypes' /\ SessionTypes'
  <1>1. PICK m \in StubMethods, t \in Messages : made' = Append(made, [method |-> m, message |-> t])
    BY DEF Call
  <1>2. m \in Range(EchoMethods) \cup {"Echo2"}
    BY DEF StubMethods
  <1>3. [method |-> m, message |-> t] \in AllCalls
    BY <1>2 DEF AllCalls
  <1>4. made' \in Seq(AllCalls) /\ Len(made') = Len(made) + 1 /\ Len(made) \in Nat
    BY <1>1, <1>3 DEF TypeInv, CallTypes
  <1>5. /\ tasks' \in Seq(Nat) /\ Len(tasks') = Len(tasks) + 1 /\ Len(tasks) \in Nat
        /\ \A i \in 1 .. Len(tasks) : tasks'[i] = tasks[i] /\ tasks[i] \in 1 .. Len(made)
        /\ tasks'[Len(tasks) + 1] = Len(made) + 1
    BY <1>4 DEF Call, TypeInv, CallTypes
  <1>6. UNCHANGED <<build, lost, request_id_, session_registry_>>
    BY DEF Call
  <1>7. CallTypes'
    <2>1. ASSUME NEW i \in 1 .. Len(tasks') PROVE tasks'[i] \in 1 .. Len(made')
      BY <1>4, <1>5
    <2>2. ASSUME NEW i \in 1 .. Len(tasks'), NEW j \in 1 .. Len(tasks'), tasks'[i] = tasks'[j]
          PROVE  i = j
      <3>1. CASE i \in 1 .. Len(tasks) /\ j \in 1 .. Len(tasks)
        BY <1>5, <2>2, <3>1 DEF TypeInv, CallTypes
      <3>2. CASE i = Len(tasks) + 1 /\ j \in 1 .. Len(tasks)
        BY <1>4, <1>5, <2>2, <3>2
      <3>3. CASE i \in 1 .. Len(tasks) /\ j = Len(tasks) + 1
        BY <1>4, <1>5, <2>2, <3>3
      <3> QED
        BY <1>5, <3>1, <3>2, <3>3
    <2> QED
      BY <1>4, <1>5, <1>6, <2>1, <2>2 DEF TypeInv, CallTypes
  <1>8. SessionTypes'
    <2>1. ASSUME NEW i \in DOMAIN session_registry_
          PROVE  /\ session_registry_[i] \in 1 .. Len(made')
                 /\ \A k \in 1 .. Len(tasks') : tasks'[k] # session_registry_[i]
      <3>1. /\ session_registry_[i] \in 1 .. Len(made)
            /\ \A k \in 1 .. Len(tasks) : tasks[k] # session_registry_[i]
        BY DEF TypeInv, SessionTypes
      <3>2. \A k \in 1 .. Len(tasks') : k \in 1 .. Len(tasks) \/ k = Len(tasks) + 1
        BY <1>5
      <3>3. session_registry_[i] \in 1 .. Len(made') /\ session_registry_[i] # Len(made) + 1
        BY <1>4, <3>1
      <3> QED
        BY <1>5, <3>1, <3>2, <3>3
    <2> QED
      BY <1>6, <2>1 DEF TypeInv, SessionTypes
  <1> QED
    BY <1>7, <1>8

LEMMA CallTypesSend ==
  ASSUME TypeInv, SendRequest
  PROVE  CallTypes' /\ SessionTypes'
  <1> DEFINE h == RequestHeader(made[Head(tasks)])
             D == DOMAIN session_registry_
  <1>1. /\ tasks # <<>> /\ Head(tasks) = tasks[1] /\ 1 \in 1 .. Len(tasks) /\ tasks' = Tail(tasks)
        /\ tasks' \in Seq(Nat) /\ Len(tasks') = Len(tasks) - 1 /\ Len(tasks) \in Nat
        /\ \A i \in 1 .. Len(tasks') : tasks'[i] = tasks[i + 1] /\ i + 1 \in 1 .. Len(tasks)
    BY DEF SendRequest, TypeInv, CallTypes
  <1>2. h.request_id = request_id_
    BY DEF RequestHeader, NewHeader
  <1>3. /\ session_registry_' = [i \in D \cup {request_id_} |->
                                  IF i = request_id_ THEN Head(tasks) ELSE session_registry_[i]]
        /\ request_id_' = request_id_ + 1
    BY <1>2 DEF SendRequest, SessionKey, NextRequestId
  <1>4. UNCHANGED <<build, lost, made>>
    BY DEF SendRequest
  <1>5. CallTypes'
    <2>1. ASSUME NEW i \in 1 .. Len(tasks') PROVE tasks'[i] \in 1 .. Len(made')
      BY <1>1, <1>4 DEF TypeInv, CallTypes
    <2>2. ASSUME NEW i \in 1 .. Len(tasks'), NEW j \in 1 .. Len(tasks'), tasks'[i] = tasks'[j]
          PROVE  i = j
      <3>1. i + 1 = j + 1
        BY <1>1, <2>2 DEF TypeInv, CallTypes
      <3> QED
        BY <1>1, <3>1
    <2> QED
      BY <1>1, <1>3, <1>4, <2>1, <2>2 DEF TypeInv, CallTypes
  <1>6. SessionTypes'
    <2>1. IsFiniteSet(DOMAIN session_registry_')
      BY <1>3, FS_AddElement DEF TypeInv, SessionTypes
    <2>2. /\ DOMAIN session_registry_' = D \cup {request_id_} /\ request_id_ \notin D
          /\ session_registry_'[request_id_] = tasks[1]
          /\ \A i \in D : session_registry_'[i] = session_registry_[i]
      BY <1>1, <1>3 DEF TypeInv, CallTypes, SessionTypes
    <2>3. tasks[1] \in 1 .. Len(made) /\ \A i \in D : session_registry_[i] # tasks[1]
      BY <1>1 DEF TypeInv, CallTypes, SessionTypes
    <2>4. ASSUME NEW i \in D \cup {request_id_}
          PROVE  i \in Nat /\ i < request_id_' /\ session_registry_'[i] \in 1 .. Len(made')
      BY <1>3, <1>4, <2>2, <2>3 DEF TypeInv, CallTypes, SessionTypes
    <2>5. ASSUME NEW i \in D \cup {request_id_}, NEW j \in D \cup {request_id_},
                 session_registry_'[j] = session_registry_'[i]
          PROVE  i = j
      BY <2>2, <2>3, <2>5 DEF TypeInv, SessionTypes
    <2>6. ASSUME NEW i \in D \cup {request_id_}, NEW k \in 1 .. Len(tasks')
          PROVE  tasks'[k] # session_registry_'[i]
      <3>1. tasks'[k] = tasks[k + 1] /\ k + 1 \in 1 .. Len(tasks) /\ k + 1 # 1
        BY <1>1
      <3>2. tasks[k + 1] # tasks[1]
        BY <3>1, <1>1 DEF TypeInv, CallTypes
      <3> QED
        BY <2>2, <3>1, <3>2 DEF TypeInv, SessionTypes
    <2> QED
      BY <2>1, <2>2, <2>4, <2>5, <2>6 DEF SessionTypes
  <1> QED
    BY <1>5, <1>6

LEMMA CallTypesReply ==
  ASSUME TypeInv, ClientReply
  PROVE  CallTypes' /\ SessionTypes'
  <1> DEFINE id == client.header.request_id
             D == DOMAIN session_registry_
  <1>1. session_registry_' = [i \in D \ {id} |-> session_registry_[i]]
    BY DEF ClientReply
  <1>2. UNCHANGED <<build, lost, made, tasks, request_id_>>
    BY DEF ClientReply
  <1>3. IsFiniteSet(D \ {id})
    BY FS_RemoveElement DEF TypeInv, SessionTypes
  <1>4. CallTypes'
    BY <1>2 DEF TypeInv, CallTypes
  <1>5. SessionTypes'
    <2> HIDE DEF id
    <2> QED
      BY <1>1, <1>2, <1>3 DEF TypeInv, SessionTypes
  <1> QED
    BY <1>4, <1>5

LEMMA CallTypesKeep ==
  ASSUME TypeInv, UNCHANGED <<build, channelVars>>, lost' \in BOOLEAN
  PROVE  CallTypes' /\ SessionTypes'
  BY DEF channelVars, TypeInv, CallTypes, SessionTypes

LEMMA CallTypesStep ==
  ASSUME TypeInv, [Next]_vars
  PROVE  CallTypes' /\ SessionTypes'
  <1>1. CASE Call
    BY <1>1, CallTypesCall
  <1>2. CASE SendRequest
    BY <1>2, CallTypesSend
  <1>3. CASE ClientReply
    BY <1>3, CallTypesReply
  <1>4. CASE ServerStep
    <2>1. UNCHANGED <<build, channelVars, lost>>
      BY <1>4 DEF ServerStep, ServerRead, ServerLength, ServerHeader, ServerTarget,
                  ServerRefuse, ServerReply, ServerNull
    <2> QED
      BY <2>1, CallTypesKeep DEF TypeInv, CallTypes
  <1>5. CASE ClientRead \/ ClientLength \/ ClientHeader \/ ClientEnd \/ ClientNull
    <2>1. UNCHANGED <<build, channelVars>> /\ lost' \in {lost, TRUE}
      BY <1>5 DEF ClientRead, ClientLength, ClientHeader, ClientEnd, ClientNull
    <2> QED
      BY <2>1, CallTypesKeep DEF TypeInv, CallTypes
  <1>6. CASE UNCHANGED vars
    <2>1. UNCHANGED <<build, channelVars, lost>>
      BY <1>6 DEF vars
    <2> QED
      BY <2>1, CallTypesKeep DEF TypeInv, CallTypes
  <1> QED
    BY <1>1, <1>2, <1>3, <1>4, <1>5, <1>6 DEF Next, ClientStep

-----------------------------------------------------------------------------
(* Blocks *)

LEMMA ConsumeType ==
  ASSUME BufferTypes, NEW side \in {"server", "client"}, NEW n \in Nat, Consume(side, n)
  PROVE  consumed_bytes_' \in [{"server", "client"} -> 0 .. BlockSize - 1]
  <1>1. (consumed_bytes_[side] + n) % BlockSize \in 0 .. BlockSize - 1
    <2>1. BlockSize \in Nat \ {0} /\ consumed_bytes_[side] \in Nat
      BY Blocks DEF BufferTypes
    <2>2. \A a \in Nat, b \in Nat \ {0} : a % b \in 0 .. b - 1
      OBVIOUS
    <2>3. consumed_bytes_[side] + n \in Nat
      BY <2>1
    <2> QED
      BY <2>1, <2>2, <2>3
  <1> QED
    BY <1>1 DEF BufferTypes, Consume

LEMMA BufferTypesStep ==
  ASSUME TypeInv, [Next]_vars
  PROVE  BufferTypes'
  <1>1. BufferTypes /\ server.len \in Nat /\ client.len \in Nat /\ 4 \in Nat
    BY DEF TypeInv, StreamTypes, IsReader, ReaderType
  <1>2. CASE UNCHANGED <<consumed_bytes_, null>>
    BY <1>1, <1>2 DEF BufferTypes
  <1>3. CASE UNCHANGED null /\ \E n \in Nat : Consume("server", n)
    BY <1>1, <1>3, ConsumeType DEF BufferTypes
  <1>4. CASE UNCHANGED null /\ \E n \in Nat : Consume("client", n)
    BY <1>1, <1>4, ConsumeType DEF BufferTypes
  <1>5. CASE ServerNull \/ ClientNull
    BY <1>1, <1>5 DEF BufferTypes, ServerNull, ClientNull
  <1>6. CASE Call \/ SendRequest \/ ServerRead \/ ClientRead \/ ServerRefuse \/ ClientEnd \/ UNCHANGED vars
    <2>1. UNCHANGED <<consumed_bytes_, null>>
      BY <1>6 DEF Call, SendRequest, ServerRead, ClientRead, ServerRefuse, ClientEnd, vars
    <2> QED
      BY <1>2, <2>1
  <1>7. CASE ServerLength \/ ServerHeader \/ ServerTarget \/ ServerReply
    <2>1. UNCHANGED null /\ (Consume("server", 4) \/ Consume("server", server.len))
      BY <1>7 DEF ServerLength, ServerHeader, ServerTarget, ServerReply
    <2> QED
      BY <1>1, <1>3, <2>1
  <1>8. CASE ClientLength \/ ClientHeader \/ ClientReply
    <2>1. UNCHANGED null /\ (Consume("client", 4) \/ Consume("client", client.len))
      BY <1>8 DEF ClientLength, ClientHeader, ClientReply
    <2> QED
      BY <1>1, <1>4, <2>1
  <1> QED
    BY <1>5, <1>6, <1>7, <1>8 DEF Next, ServerStep, ClientStep

-----------------------------------------------------------------------------
(* Frames *)

LEMMA WordText == ASSUME NEW w \in DOMAIN WordSize PROVE <<w>> \in Texts
  BY DEF Texts

LEMMA TextConcat ==
  ASSUME NEW t \in Texts, NEW u \in Texts
  PROVE  t \o u \in Texts
  BY DEF Texts

LEMMA KnownWords ==
  /\ ServiceName \in Texts
  /\ \A w \in {"Echo", "Echo1", "Echo2", "[Echo] ", "[Echo1] "} : <<w>> \in Texts
  <1>1. {"EchoService", "Echo", "Echo1", "Echo2", "[Echo] ", "[Echo1] "} \subseteq DOMAIN WordSize
    BY EchoAssumption
  <1>2. ASSUME NEW w \in {"EchoService", "Echo", "Echo1", "Echo2", "[Echo] ", "[Echo1] "}
        PROVE  <<w>> \in Texts
    <2>1. w \in DOMAIN WordSize
      BY <1>1
    <2> QED
      BY <2>1, WordText
  <1> QED
    BY <1>2 DEF ServiceName

LEMMA CallType ==
  ASSUME NEW c \in AllCalls
  PROVE  /\ c.method \in {"Echo", "Echo1", "Echo2"} /\ c.message \in Messages
         /\ <<c.method>> \in Texts /\ c.message \in Texts
  <1>1. c.method \in {"Echo", "Echo1", "Echo2"} /\ c.message \in Messages
    <2>1. Range(EchoMethods) = {"Echo", "Echo1"}
      BY DEF EchoMethods, Range
    <2> QED
      BY <2>1 DEF AllCalls
  <1>2. <<c.method>> \in Texts
    BY <1>1, KnownWords
  <1>3. c.message \in Texts
    BY <1>1, EchoAssumption
  <1> QED
    BY <1>1, <1>2, <1>3

LEMMA EchoRecord ==
  ASSUME NEW t
  PROVE  [NewEcho EXCEPT !.message = t] = [message |-> t, unknown |-> <<>>]
  BY DEF NewEcho

LEMMA EchoIsEcho ==
  ASSUME NEW t \in Texts, NEW m, m = [message |-> t, unknown |-> <<>>]
  PROVE  IsEcho(m)
  <1>1. m.message = t /\ m.unknown = <<>> /\ <<>> \in Seq(Fields)
    OBVIOUS
  <1> QED
    BY <1>1, Zenon DEF IsEcho

LEMMA RequestIsHeader ==
  ASSUME CallTypes, NEW c \in AllCalls
  PROVE  IsHeader(RequestHeader(c))
  <1> DEFINE h == RequestHeader(c)
  <1>1. /\ h.magic = build.magic /\ h.version = build.version /\ h.message_type = 1
        /\ h.request_id = request_id_ /\ h.service_name = <<ServiceName>>
        /\ h.method_name = << <<c.method>> >> /\ h.unknown = NewFields
    BY DEF RequestHeader, NewHeader, REQUEST
  <1>2. build.magic \in Nat /\ build.version \in Nat /\ request_id_ \in Nat
    BY EchoAssumption DEF CallTypes
  <1>3. ServiceName \in Texts /\ <<c.method>> \in Texts
    BY KnownWords, CallType
  <1>4. NewFields \in Seq(Fields)
    <2>1. 7 \in Nat \ {0} /\ 1 \in Nat
      OBVIOUS
    <2>2. Field(VarintTag(7), 1) \in Fields
      BY <2>1, VarintField, Zenon
    <2> QED
      BY <2>2 DEF NewFields
  <1>5. NameOf(h.service_name) = ServiceName /\ NameOf(h.method_name) = <<c.method>>
    BY <1>1 DEF NameOf
  <1> HIDE DEF h
  <1>6. IsHeader(h)
    BY <1>1, <1>2, <1>3, <1>4, <1>5 DEF IsHeader
  <1> QED
    BY <1>6 DEF h

LEMMA RequestIsFrame ==
  ASSUME CallTypes, NEW c \in AllCalls
  PROVE  IsFrame(RequestFrame(RequestHeader(c), [NewEcho EXCEPT !.message = c.message]))
  <1> DEFINE h == RequestHeader(c)
             m == [NewEcho EXCEPT !.message = c.message]
  <1>1. IsHeader(h)
    BY RequestIsHeader
  <1>2. IsEcho(m)
    <2>1. c.message \in Texts
      BY CallType
    <2>2. m = [message |-> c.message, unknown |-> <<>>]
      BY EchoRecord, Zenon
    <2> QED
      BY <2>1, <2>2, EchoIsEcho, Zenon
  <1> HIDE DEF h, m
  <1>3. SerializeHeader(h) \in Seq(Fields) /\ HeaderByteSize(h) = Bytes(SerializeHeader(h))
    BY <1>1, HeaderSizes
  <1>4. SerializeRequest(m) \in Seq(Fields) /\ RequestByteSize(m) = Bytes(SerializeRequest(m))
    BY <1>2, RequestSizes
  <1>5. IsFrame(RequestFrame(h, m))
    BY <1>3, <1>4, Zenon DEF IsFrame, RequestFrame
  <1> QED
    BY <1>5, Zenon DEF h, m

(* What the server answers to the message at hand. *)
Answer ==
  CallMethod(FindMethodByName(NameOf(server.header.method_name)),
             ParseRequest(Taken(server.buf, server.len)))

LEMMA FoundMethod ==
  ASSUME NEW name
  PROVE  /\ FindMethodByName(name) \in {0, 1, 2}
         /\ FindMethodByName(name) = 1 <=> name = <<"Echo">>
         /\ FindMethodByName(name) = 2 <=> name = <<"Echo1">>
  <1> DEFINE I == {i \in 1 .. Len(EchoMethods) : <<EchoMethods[i]>> = name}
  <1>1. FindMethodByName(name) = IF I # {} THEN Min(I) ELSE 0
    BY Zenon DEF FindMethodByName, SelectInSeq
  <1>2. Len(EchoMethods) = 2 /\ EchoMethods[1] = "Echo" /\ EchoMethods[2] = "Echo1"
    BY DEF EchoMethods
  <1>3. I = {i \in {1, 2} : (i = 1 /\ name = <<"Echo">>) \/ (i = 2 /\ name = <<"Echo1">>)}
    BY <1>2
  <1> HIDE DEF I
  <1>4. CASE name = <<"Echo">>
    <2>1. I = {1} /\ name # <<"Echo1">>
      BY <1>3, <1>4
    <2>2. Min(I) = 1
      BY <2>1 DEF Min
    <2> QED
      BY <1>1, <1>4, <2>1, <2>2
  <1>5. CASE name = <<"Echo1">>
    <2>1. I = {2} /\ name # <<"Echo">>
      BY <1>3, <1>5
    <2>2. Min(I) = 2
      BY <2>1 DEF Min
    <2> QED
      BY <1>1, <1>5, <2>1, <2>2
  <1>6. CASE name # <<"Echo">> /\ name # <<"Echo1">>
    <2>1. I = {}
      BY <1>3, <1>6
    <2> QED
      BY <1>1, <1>6, <2>1
  <1> QED
    BY <1>4, <1>5, <1>6

LEMMA AnswerType ==
  ASSUME IsReader(server), Registered(server.header), ParsesWithin(server.buf, server.len)
  PROVE  IsEcho(Answer)
  <1> DEFINE request == ParseRequest(Taken(server.buf, server.len))
             i == FindMethodByName(NameOf(server.header.method_name))
  <1>1. Taken(server.buf, server.len) \in Seq(Fields)
    BY TakenFields DEF IsReader
  <1>2. request.message \in Texts
    <2>1. request.message = LastOf(Taken(server.buf, server.len), DelimitedTag(1), <<>>)
      BY DEF ParseRequest
    <2>2. 1 \in Nat \ {0}
      OBVIOUS
    <2> QED
      BY <1>1, <2>1, <2>2, TextParsed, Zenon
  <1>3. i = 1 \/ i = 2
    BY FoundMethod DEF Registered
  <1>4. Answer = CallMethod(i, request)
    BY Zenon DEF Answer
  <1> HIDE DEF request, i
  <1>5. Answer = Echo(request) \/ Answer = Echo1(request)
    BY <1>3, <1>4 DEF CallMethod
  <1>6. PICK p \in Texts : Answer = [message |-> p \o request.message, unknown |-> <<>>]
    <2>1. <<"[Echo] ">> \in Texts /\ <<"[Echo1] ">> \in Texts
      BY KnownWords
    <2>2. /\ Echo(request) = [message |-> <<"[Echo] ">> \o request.message, unknown |-> <<>>]
          /\ Echo1(request) = [message |-> <<"[Echo1] ">> \o request.message, unknown |-> <<>>]
      BY EchoRecord, Zenon DEF Echo, Echo1
    <2> QED
      BY <1>5, <2>1, <2>2, Zenon
  <1>7. p \o request.message \in Texts
    BY <1>2, TextConcat
  <1> QED
    BY <1>6, <1>7, EchoIsEcho, Zenon

LEMMA ResponseIsFrame ==
  ASSUME IsReader(server), Registered(server.header), ParsesWithin(server.buf, server.len)
  PROVE  IsFrame(ResponseFrame(ResponseHeader(server.header), Answer))
  <1> DEFINE h == ResponseHeader(server.header)
             m == Answer
  <1>1. IsHeader(h)
    BY DEF IsReader, ResponseHeader, NewHeader, IsHeader, MAGIC_NUM, VERSION, RESPONSE
  <1>2. IsEcho(m)
    BY AnswerType
  <1> HIDE DEF h, m
  <1>3. SerializeHeader(h) \in Seq(Fields) /\ HeaderByteSize(h) = Bytes(SerializeHeader(h))
    BY <1>1, HeaderSizes
  <1>4. SerializeResponse(m) \in Seq(Fields) /\ ResponseByteSize(m) = Bytes(SerializeResponse(m))
    BY <1>2, ResponseSizes
  <1>5. IsFrame(ResponseFrame(h, m))
    BY <1>3, <1>4, Zenon DEF IsFrame, ResponseFrame
  <1> QED
    BY <1>5, Zenon DEF h, m

-----------------------------------------------------------------------------
(* The streams, action by action *)

Streams ==
  server.at # "ended" =>
    Aligned(Flow(server, up), Due(server)) /\ Aligned(Flow(client, down), Due(client))

LEMMA StreamsDelimited == ASSUME TypeInv PROVE Streams <=> FramesDelimited
  <1>1. ASSUME NEW r, NEW rest \in Seq(Units), IsReader(r)
        PROVE  Aligned(Flow(r, rest), Due(r)) <=> Delimited(r, rest)
    <2> DEFINE s == r.buf \o rest
    <2>1. s \in Seq(Units)
      BY <1>1 DEF IsReader
    <2>2. DOMAIN s = 1 .. Len(s)
      BY <2>1
    <2>3. Flow(r, rest) = s
      BY DEF Flow
    <2>4. Delimited(r, rest) <=>
            /\ Bytes(Run(s, 0)) = IF r.at \in {"header", "body"} THEN r.len ELSE 0
            /\ \A i \in DOMAIN s : s[i].kind = "length" => Bytes(Run(s, i)) = s[i].len
      BY Zenon DEF Delimited
    <2> HIDE DEF s
    <2> QED
      BY <2>2, <2>3, <2>4 DEF Aligned, Due, BeforeMessage
  <1> QED
    BY <1>1 DEF TypeInv, StreamTypes, Streams, FramesDelimited

(* What a step has to keep. *)
StreamsKept ==
  StreamTypes' /\ (Streams => Streams') /\ (SessionsMatchTraffic => SessionsMatchTraffic')

LEMMA InFlightType ==
  ASSUME NEW r, IsReader(r), r.at # "ended", NEW rest \in Seq(Units)
  PROVE  InFlight(r, rest) \in Nat
  <1>1. r.buf \o rest \in Seq(Units)
    BY DEF IsReader
  <1>2. LengthsRead(r) \in Nat
    BY DEF LengthsRead, IsReader, ReaderType
  <1>3. Lengths(r.buf \o rest) \in Nat
    BY <1>1, LengthsFinite
  <1> QED
    BY <1>2, <1>3 DEF InFlight

LEMMA StreamsCall == ASSUME TypeInv, Call PROVE StreamsKept
  <1>1. UNCHANGED <<up, down, server, client, session_registry_, service_registry_>>
    BY DEF Call
  <1> QED
    BY <1>1 DEF StreamsKept, TypeInv, StreamTypes, Streams, SessionsMatchTraffic, Registered

LEMMA StreamsSend == ASSUME TypeInv, SendRequest PROVE StreamsKept
  <1> DEFINE c == made[Head(tasks)]
             f == RequestFrame(RequestHeader(c), [NewEcho EXCEPT !.message = c.message])
             D == DOMAIN session_registry_
  <1>1. up' = up \o f /\ UNCHANGED <<down, server, client, service_registry_>>
    BY DEF SendRequest
  <1>2. c \in AllCalls
    <2>1. tasks # <<>> /\ tasks \in Seq(Nat) /\ made \in Seq(AllCalls)
          /\ \A i \in 1 .. Len(tasks) : tasks[i] \in 1 .. Len(made)
      BY DEF SendRequest, TypeInv, CallTypes
    <2>2. Head(tasks) = tasks[1] /\ 1 \in 1 .. Len(tasks)
      BY <2>1
    <2> QED
      BY <2>1, <2>2
  <1>3. IsFrame(f)
    BY <1>2, RequestIsFrame DEF TypeInv
  <1>4. /\ DOMAIN session_registry_' = D \cup {request_id_}
        /\ request_id_ \notin D /\ IsFiniteSet(D)
    <2>1. RequestHeader(c).request_id = request_id_
      BY DEF RequestHeader, NewHeader
    <2> QED
      BY <2>1 DEF SendRequest, SessionKey, TypeInv, CallTypes, SessionTypes
  <1>5. Cardinality(DOMAIN session_registry_') = Cardinality(D) + 1 /\ Cardinality(D) \in Nat
    BY <1>4, FS_AddElement, FS_CardinalityType
  <1> HIDE DEF f, D
  <1>6. IsReader(server) /\ up \in Seq(Units)
    BY DEF TypeInv, StreamTypes
  <1>7. /\ up \o f \in Seq(Units)
        /\ server.at # "ended" /\ Aligned(Flow(server, up), Due(server))
             => Aligned(Flow(server, up \o f), Due(server))
        /\ server.at # "ended" => InFlight(server, up \o f) = InFlight(server, up) + 2
                                  /\ InFlight(server, up) \in Nat
    <2>1. f \in Seq(Units)
      BY <1>3, FrameType
    <2>2. up \o f \in Seq(Units)
      BY <1>6, <2>1
    <2> QED
      BY <1>3, <1>6, <2>2, FrameKeeps, Zenon
  <1>8. StreamTypes'
    BY <1>1, <1>7 DEF TypeInv, StreamTypes, Registered
  <1>9. Streams => Streams'
    <2>1. Flow(server, up)' = Flow(server, up \o f) /\ Due(server)' = Due(server)
          /\ Flow(client, down)' = Flow(client, down) /\ Due(client)' = Due(client)
      BY <1>1 DEF Flow, Due
    <2> QED
      BY <1>1, <1>7, <2>1 DEF Streams
  <1>10. InFlight(server, up)' = InFlight(server, up \o f) /\ InFlight(client, down)' = InFlight(client, down)
    BY <1>1, Zenon DEF InFlight, Lengths, LengthsRead
  <1>11. client.at # "ended" => InFlight(client, down) \in Nat
    BY InFlightType DEF TypeInv, StreamTypes
  <1>12. SessionsMatchTraffic => SessionsMatchTraffic'
    <2>1. client.at # "ended"
      BY DEF TypeInv, StreamTypes
    <2>2. SessionsMatchTraffic <=>
            (server.at # "ended" =>
               2 * Cardinality(D) = InFlight(server, up) + InFlight(client, down))
      BY Zenon DEF SessionsMatchTraffic, D
    <2>3. SessionsMatchTraffic' <=>
            (server.at # "ended" =>
               2 * Cardinality(DOMAIN session_registry_') =
                 InFlight(server, up \o f) + InFlight(client, down))
      BY <1>1, <1>10, Zenon DEF SessionsMatchTraffic
    <2>4. ASSUME server.at # "ended", SessionsMatchTraffic PROVE SessionsMatchTraffic'
      <3>1. 2 * Cardinality(D) = InFlight(server, up) + InFlight(client, down)
        BY <2>2, <2>4
      <3>2. /\ InFlight(server, up \o f) = InFlight(server, up) + 2
            /\ InFlight(server, up) \in Nat /\ InFlight(client, down) \in Nat
        BY <1>7, <1>11, <2>1, <2>4
      <3>3. 2 * Cardinality(DOMAIN session_registry_') =
              InFlight(server, up \o f) + InFlight(client, down)
        BY <1>5, <3>1, <3>2
      <3> QED
        BY <2>3, <3>3
    <2> QED
      BY <2>3, <2>4
  <1> QED
    BY <1>8, <1>9, <1>12 DEF StreamsKept

(* A step of one recv_fn: the other side and the sessions are left alone. *)
LEMMA ServerSide ==
  ASSUME TypeInv, UNCHANGED <<session_registry_, service_registry_, client, down>>,
         server.at # "ended", IsReader(server'), server'.at # "ended", up' \in Seq(Units),
         server'.at = "body" => Registered(server'.header),
         Aligned(Flow(server, up), Due(server)) => Aligned(Flow(server', up'), Due(server')),
         InFlight(server', up') = InFlight(server, up)
  PROVE  StreamsKept
  <1>1. StreamTypes'
    BY DEF TypeInv, StreamTypes, Registered
  <1>2. Streams => Streams'
    BY DEF Streams
  <1>3. SessionsMatchTraffic => SessionsMatchTraffic'
    BY DEF SessionsMatchTraffic
  <1> QED
    BY <1>1, <1>2, <1>3 DEF StreamsKept

LEMMA ClientSide ==
  ASSUME TypeInv, UNCHANGED <<session_registry_, service_registry_, server, up>>,
         IsReader(client'), client'.at # "ended", down' \in Seq(Units),
         Aligned(Flow(client, down), Due(client)) => Aligned(Flow(client', down'), Due(client')),
         InFlight(client', down') = InFlight(client, down)
  PROVE  StreamsKept
  <1>1. StreamTypes'
    BY DEF TypeInv, StreamTypes, Registered
  <1>2. Streams => Streams'
    BY DEF Streams
  <1>3. SessionsMatchTraffic => SessionsMatchTraffic'
    BY DEF SessionsMatchTraffic
  <1> QED
    BY <1>1, <1>2, <1>3 DEF StreamsKept

LEMMA ReadKeeps ==
  ASSUME NEW r, NEW q, NEW z, NEW rest,
         q.at = r.at, q.len = r.len, Flow(q, z) = Flow(r, rest)
  PROVE  /\ Aligned(Flow(r, rest), Due(r)) => Aligned(Flow(q, z), Due(q))
         /\ InFlight(q, z) = InFlight(r, rest)
  <1>1. Due(q) = Due(r) /\ LengthsRead(q) = LengthsRead(r)
    BY Zenon DEF Due, LengthsRead
  <1>2. InFlight(q, z) = LengthsRead(q) + Lengths(Flow(q, z))
    BY Zenon DEF InFlight, Flow
  <1>3. InFlight(r, rest) = LengthsRead(r) + Lengths(Flow(r, rest))
    BY Zenon DEF InFlight, Flow
  <1> QED
    BY <1>1, <1>2, <1>3, Zenon

LEMMA SplitRead ==
  ASSUME NEW s \in Seq(Units), NEW n \in 1 .. Len(s)
  PROVE  /\ SubSeq(s, 1, n) \in Seq(Units) /\ SubSeq(s, n + 1, Len(s)) \in Seq(Units)
         /\ s = SubSeq(s, 1, n) \o SubSeq(s, n + 1, Len(s))
  <1>1. n \in 0 .. Len(s)
    OBVIOUS
  <1> QED
    BY <1>1, SplitAt, Zenon

LEMMA ServerReads ==
  ASSUME TypeInv, ServerRead
  PROVE  \E g \in Seq(Units) :
           /\ Brings(server, g, server')
           /\ up' \in Seq(Units) /\ up = g \o up'
  <1>1. PICK n \in 1 .. Len(up) : /\ server' = [server EXCEPT !.buf = @ \o SubSeq(up, 1, n)]
                                  /\ up' = SubSeq(up, n + 1, Len(up))
    BY Zenon DEF ServerRead
  <1>2. up \in Seq(Units)
    BY DEF TypeInv, StreamTypes
  <1>3. /\ SubSeq(up, 1, n) \in Seq(Units) /\ SubSeq(up, n + 1, Len(up)) \in Seq(Units)
        /\ up = SubSeq(up, 1, n) \o SubSeq(up, n + 1, Len(up))
    BY <1>2, SplitRead, Zenon
  <1> QED
    BY <1>1, <1>3, Zenon DEF Brings

LEMMA ClientReads ==
  ASSUME TypeInv, ClientRead
  PROVE  \E g \in Seq(Units) :
           /\ Brings(client, g, client')
           /\ down' \in Seq(Units) /\ down = g \o down'
  <1>1. PICK n \in 1 .. Len(down) : /\ client' = [client EXCEPT !.buf = @ \o SubSeq(down, 1, n)]
                                    /\ down' = SubSeq(down, n + 1, Len(down))
    BY Zenon DEF ClientRead
  <1>2. down \in Seq(Units)
    BY DEF TypeInv, StreamTypes
  <1>3. /\ SubSeq(down, 1, n) \in Seq(Units) /\ SubSeq(down, n + 1, Len(down)) \in Seq(Units)
        /\ down = SubSeq(down, 1, n) \o SubSeq(down, n + 1, Len(down))
    BY <1>2, SplitRead, Zenon
  <1> QED
    BY <1>1, <1>3, Zenon DEF Brings

LEMMA StreamsRead == ASSUME TypeInv, ServerRead \/ ClientRead PROVE StreamsKept
  <1>1. CASE ServerRead
    <2>1. /\ server.at # "ended"
          /\ UNCHANGED <<session_registry_, service_registry_, client, down>>
      BY <1>1 DEF ServerRead, channelVars
    <2>2. PICK g \in Seq(Units) : /\ Brings(server, g, server')
                                  /\ up' \in Seq(Units) /\ up = g \o up'
      BY <1>1, ServerReads
    <2>3. IsReader(server) /\ (server.at = "body" => Registered(server.header))
      BY DEF TypeInv, StreamTypes
    <2>4. /\ IsReader(server') /\ server'.at = server.at /\ server'.len = server.len
          /\ server'.header = server.header /\ Flow(server', up') = Flow(server, g \o up')
      BY <2>2, <2>3, ReadStep
    <2>5. /\ Aligned(Flow(server, up), Due(server)) => Aligned(Flow(server', up'), Due(server'))
          /\ InFlight(server', up') = InFlight(server, up)
      <3>1. Flow(server', up') = Flow(server, up)
        BY <2>2, <2>4, Zenon
      <3>2. server'.at = server.at /\ server'.len = server.len
        BY <2>4, Zenon
      <3> QED
        BY <3>1, <3>2, ReadKeeps
    <2>6. up' \in Seq(Units)
      BY <2>2
    <2> QED
      BY <2>1, <2>3, <2>4, <2>5, <2>6, ServerSide
  <1>2. CASE ClientRead
    <2>1. UNCHANGED <<session_registry_, service_registry_, server, up>>
      BY <1>2 DEF ClientRead, channelVars
    <2>2. PICK g \in Seq(Units) : /\ Brings(client, g, client')
                                  /\ down' \in Seq(Units) /\ down = g \o down'
      BY <1>2, ClientReads
    <2>3. IsReader(client) /\ client.at # "ended"
      BY DEF TypeInv, StreamTypes
    <2>4. /\ IsReader(client') /\ client'.at = client.at /\ client'.len = client.len
          /\ client'.header = client.header /\ Flow(client', down') = Flow(client, g \o down')
      BY <2>2, <2>3, ReadStep
    <2>5. /\ Aligned(Flow(client, down), Due(client)) => Aligned(Flow(client', down'), Due(client'))
          /\ InFlight(client', down') = InFlight(client, down)
      <3>1. Flow(client', down') = Flow(client, down)
        BY <2>2, <2>4, Zenon
      <3>2. client'.at = client.at /\ client'.len = client.len
        BY <2>4, Zenon
      <3> QED
        BY <3>1, <3>2, ReadKeeps
    <2>6. down' \in Seq(Units)
      BY <2>2
    <2> QED
      BY <2>1, <2>3, <2>4, <2>5, <2>6, ClientSide
  <1> QED
    BY <1>1, <1>2

LEMMA StreamsLength == ASSUME TypeInv, ServerLength \/ ServerTarget \/ ClientLength PROVE StreamsKept
  <1> DEFINE Pair(x, y) == (x = "header_len" /\ y = "header") \/ (x = "body_len" /\ y = "body")
  <1>1. ASSUME NEW x, NEW y, Pair(x, y)
        PROVE  x \in BeforeLength /\ y \in BeforeMessage /\ (x = "header_len" <=> y = "header")
    BY <1>1 DEF BeforeLength, BeforeMessage
  <1>2. ASSUME NEW x, NEW y, Pair(x, y), AtLength(server, x), server' = AfterLength(server, y),
               UNCHANGED <<session_registry_, service_registry_, client, up, down>>,
               y = "body" => Registered(server.header)
        PROVE  StreamsKept
    <2>1. IsReader(server) /\ up \in Seq(Units)
      BY DEF TypeInv, StreamTypes
    <2>2. x \in BeforeLength /\ y \in BeforeMessage /\ (x = "header_len" <=> y = "header")
      BY <1>1, <1>2
    <2> HIDE DEF Pair
    <2>6. AtLength(server, x) /\ server' = AfterLength(server, y)
      BY <1>2
    <2>3. IsReader(server') /\ server'.at = y /\ server'.header = server.header
      BY <2>1, <2>2, <2>6, LengthReader
    <2>4. /\ Aligned(Flow(server, up), Due(server)) => Aligned(Flow(server', up), Due(server'))
          /\ InFlight(server', up) = InFlight(server, up)
      BY <1>2, <2>1, <2>2, LengthKeeps, Zenon
    <2>5. server.at # "ended" /\ y # "ended"
      BY <1>2, <2>2 DEF AtLength, BeforeLength, BeforeMessage
    <2> QED
      BY <1>2, <2>1, <2>3, <2>4, <2>5, ServerSide
  <1>3. ASSUME NEW x, NEW y, Pair(x, y), AtLength(client, x), client' = AfterLength(client, y),
               UNCHANGED <<session_registry_, service_registry_, server, up, down>>
        PROVE  StreamsKept
    <2>1. IsReader(client) /\ down \in Seq(Units)
      BY DEF TypeInv, StreamTypes
    <2>2. x \in BeforeLength /\ y \in BeforeMessage /\ (x = "header_len" <=> y = "header")
      BY <1>1, <1>3
    <2> HIDE DEF Pair
    <2>6. AtLength(client, x) /\ client' = AfterLength(client, y)
      BY <1>3
    <2>3. IsReader(client') /\ client'.at = y
      BY <2>1, <2>2, <2>6, LengthReader
    <2>4. /\ Aligned(Flow(client, down), Due(client)) => Aligned(Flow(client', down), Due(client'))
          /\ InFlight(client', down) = InFlight(client, down)
      BY <1>3, <2>1, <2>2, LengthKeeps, Zenon
    <2>5. y # "ended"
      BY <2>2 DEF BeforeMessage
    <2> QED
      BY <1>3, <2>1, <2>3, <2>4, <2>5, ClientSide
  <1>4. Pair("header_len", "header") /\ Pair("body_len", "body")
    OBVIOUS
  <1> HIDE DEF Pair
  <1>5. CASE ServerLength
    <2>1. /\ AtLength(server, "header_len") /\ server' = AfterLength(server, "header")
          /\ UNCHANGED <<session_registry_, service_registry_, client, up, down>>
      BY <1>5 DEF ServerLength, channelVars
    <2>2. "header" # "body"
      OBVIOUS
    <2> QED
      BY <1>2, <1>4, <2>1, <2>2, Zenon
  <1>6. CASE ServerTarget
    <2>1. /\ AtLength(server, "body_len") /\ server' = AfterLength(server, "body")
          /\ Registered(server.header)
          /\ UNCHANGED <<session_registry_, service_registry_, client, up, down>>
      BY <1>6 DEF ServerTarget, channelVars
    <2> QED
      BY <1>2, <1>4, <2>1, Zenon
  <1>7. CASE ClientLength
    <2>1. UNCHANGED <<session_registry_, service_registry_, server, up, down>>
      BY <1>7 DEF ClientLength, channelVars
    <2>2. CASE AtLength(client, "header_len") /\ client' = AfterLength(client, "header")
      BY <1>3, <1>4, <2>1, <2>2, Zenon
    <2>3. CASE AtLength(client, "body_len") /\ client' = AfterLength(client, "body")
      BY <1>3, <1>4, <2>1, <2>3, Zenon
    <2> QED
      BY <1>7, <2>2, <2>3, Zenon DEF ClientLength
  <1> QED
    BY <1>5, <1>6, <1>7

LEMMA StreamsHeader == ASSUME TypeInv, ServerHeader \/ ClientHeader PROVE StreamsKept
  <1>1. CASE ServerHeader
    <2>1. /\ server.at = "header" /\ ParsesWithin(server.buf, server.len)
          /\ server' = AfterHeader(server)
          /\ UNCHANGED <<session_registry_, service_registry_, client, up, down>>
      BY <1>1 DEF ServerHeader, channelVars
    <2>2. IsReader(server) /\ up \in Seq(Units)
      BY DEF TypeInv, StreamTypes
    <2>3. IsReader(server') /\ server'.at = "body_len"
      BY <2>1, <2>2, HeaderStep
    <2>4. /\ Aligned(Flow(server, up), Due(server)) => Aligned(Flow(server', up'), Due(server'))
          /\ InFlight(server', up') = InFlight(server, up)
      BY <2>1, <2>2, HeaderKeeps
    <2> QED
      BY <2>1, <2>2, <2>3, <2>4, ServerSide
  <1>2. CASE ClientHeader
    <2>1. /\ client.at = "header" /\ ParsesWithin(client.buf, client.len)
          /\ client' = AfterHeader(client)
          /\ UNCHANGED <<session_registry_, service_registry_, server, up, down>>
      BY <1>2 DEF ClientHeader, channelVars
    <2>2. IsReader(client) /\ down \in Seq(Units)
      BY DEF TypeInv, StreamTypes
    <2>3. IsReader(client') /\ client'.at = "body_len"
      BY <2>1, <2>2, HeaderStep
    <2>4. /\ Aligned(Flow(client, down), Due(client)) => Aligned(Flow(client', down'), Due(client'))
          /\ InFlight(client', down') = InFlight(client, down)
      BY <2>1, <2>2, HeaderKeeps
    <2> QED
      BY <2>1, <2>2, <2>3, <2>4, ClientSide
  <1> QED
    BY <1>1, <1>2

(* A length or a message that the server refuses ends the connection, and   *)
(* so does a length after which it has no block.                            *)
LEMMA StreamsRefuse == ASSUME TypeInv, ServerRefuse \/ ServerNull PROVE StreamsKept
  <1>1. /\ server' = [server EXCEPT !.at = "ended"]
        /\ UNCHANGED <<client, up>>
    BY DEF ServerRefuse, ServerNull
  <1>2. PICK n \in 0 .. Len(down) : down' = SubSeq(down, 1, n)
    BY DEF ServerRefuse, ServerNull
  <1>3. IsReader(server) /\ IsReader(client) /\ client.at # "ended" /\ up \in Seq(Units) /\ down \in Seq(Units)
    BY DEF TypeInv, StreamTypes
  <1>4. server' = [at |-> "ended", len |-> server.len, header |-> server.header, buf |-> server.buf]
    BY <1>1, <1>3 DEF IsReader
  <1>5. IsReader(server') /\ server'.at = "ended"
    BY <1>3, <1>4 DEF IsReader, ReaderType, BeforeLength
  <1>6. down' \in Seq(Units)
    BY <1>2, <1>3
  <1>7. StreamTypes'
    BY <1>1, <1>3, <1>5, <1>6 DEF StreamTypes
  <1> QED
    BY <1>5, <1>7 DEF StreamsKept, Streams, SessionsMatchTraffic

LEMMA StreamsReply == ASSUME TypeInv, ServerReply PROVE StreamsKept
  <1> DEFINE f == ResponseFrame(ResponseHeader(server.header), Answer)
             D == DOMAIN session_registry_
  <1>1. /\ server.at = "body" /\ ParsesWithin(server.buf, server.len)
        /\ server' = AfterBody(server)
        /\ UNCHANGED <<session_registry_, service_registry_, client, up>>
    BY DEF ServerReply, channelVars
  <1>2. down' = down \o f
    BY Zenon DEF ServerReply, Answer
  <1>3. /\ IsReader(server) /\ IsReader(client) /\ client.at # "ended"
        /\ up \in Seq(Units) /\ down \in Seq(Units) /\ Registered(server.header)
    BY <1>1 DEF TypeInv, StreamTypes
  <1>4. IsFrame(f)
    BY <1>1, <1>3, ResponseIsFrame
  <1> HIDE DEF f, D
  <1>5. IsReader(server') /\ server'.at = "header_len"
    BY <1>1, <1>3, BodyStep
  <1>6. /\ Aligned(Flow(server, up), Due(server)) => Aligned(Flow(server', up'), Due(server'))
        /\ InFlight(server, up) = InFlight(server', up') + 2 /\ InFlight(server', up') \in Nat
    BY <1>1, <1>3, BodyKeeps
  <1>7. /\ down' \in Seq(Units)
        /\ Aligned(Flow(client, down), Due(client)) => Aligned(Flow(client', down'), Due(client'))
        /\ InFlight(client', down') = InFlight(client, down) + 2 /\ InFlight(client, down) \in Nat
    <2>1. client' = client
      BY <1>1
    <2> QED
      BY <1>2, <1>3, <1>4, <2>1, FrameKeeps, Zenon
  <1>8. StreamTypes'
    BY <1>1, <1>3, <1>5, <1>7 DEF StreamTypes
  <1>9. Streams => Streams'
    BY <1>1, <1>6, <1>7 DEF Streams
  <1>10. SessionsMatchTraffic => SessionsMatchTraffic'
    <2>1. server.at # "ended"
      BY <1>1
    <2> QED
      BY <1>1, <1>6, <1>7, <2>1 DEF SessionsMatchTraffic
  <1> QED
    BY <1>8, <1>9, <1>10 DEF StreamsKept

LEMMA StreamsAnswered == ASSUME TypeInv, ClientReply PROVE StreamsKept
  <1> DEFINE D == DOMAIN session_registry_
             id == client.header.request_id
  <1>1. /\ client.at = "body" /\ ParsesWithin(client.buf, client.len) /\ id \in D
        /\ DOMAIN session_registry_' = D \ {id}
        /\ client' = AfterBody(client)
        /\ UNCHANGED <<service_registry_, server, up, down>>
    BY DEF ClientReply
  <1>2. IsReader(server) /\ IsReader(client) /\ up \in Seq(Units) /\ down \in Seq(Units)
    BY DEF TypeInv, StreamTypes
  <1>3. Cardinality(DOMAIN session_registry_') = Cardinality(D) - 1 /\ Cardinality(D) \in Nat
    <2>1. IsFiniteSet(D)
      BY DEF TypeInv, SessionTypes
    <2> HIDE DEF id, D
    <2> QED
      BY <1>1, <2>1, FS_RemoveElement, FS_CardinalityType
  <1> HIDE DEF D, id
  <1>4. IsReader(client') /\ client'.at = "header_len"
    BY <1>1, <1>2, BodyStep
  <1>5. /\ Aligned(Flow(client, down), Due(client)) => Aligned(Flow(client', down'), Due(client'))
        /\ InFlight(client, down) = InFlight(client', down') + 2 /\ InFlight(client', down') \in Nat
    BY <1>1, <1>2, BodyKeeps
  <1>6. server.at # "ended" => InFlight(server, up) \in Nat
    BY <1>2, InFlightType
  <1>7. StreamTypes'
    BY <1>1, <1>2, <1>4 DEF StreamTypes, TypeInv, Registered
  <1>8. Streams => Streams'
    BY <1>1, <1>5 DEF Streams
  <1>9. SessionsMatchTraffic => SessionsMatchTraffic'
    <2>1. SessionsMatchTraffic <=>
            (server.at # "ended" =>
               2 * Cardinality(D) = InFlight(server, up) + InFlight(client, down))
      BY Zenon DEF SessionsMatchTraffic, D
    <2>2. SessionsMatchTraffic' <=>
            (server.at # "ended" =>
               2 * Cardinality(DOMAIN session_registry_') =
                 InFlight(server, up) + InFlight(client', down'))
      BY <1>1, SMT DEF SessionsMatchTraffic
    <2> QED
      BY <1>3, <1>5, <1>6, <2>1, <2>2
  <1> QED
    BY <1>7, <1>8, <1>9 DEF StreamsKept

LEMMA StreamsSame ==
  ASSUME TypeInv, UNCHANGED <<up, down, server, client, session_registry_, service_registry_>>
  PROVE  StreamsKept
  BY DEF StreamsKept, TypeInv, StreamTypes, Streams, SessionsMatchTraffic, Registered

LEMMA StreamsStep == ASSUME TypeInv, [Next]_vars PROVE StreamsKept
  <1>1. CASE Call
    BY <1>1, StreamsCall
  <1>2. CASE SendRequest
    BY <1>2, StreamsSend
  <1>3. CASE ServerRead \/ ClientRead
    BY <1>3, StreamsRead
  <1>4. CASE ServerLength \/ ServerTarget \/ ClientLength
    BY <1>4, StreamsLength
  <1>5. CASE ServerHeader \/ ClientHeader
    BY <1>5, StreamsHeader
  <1>6. CASE ServerRefuse \/ ServerNull
    BY <1>6, StreamsRefuse
  <1>7. CASE ServerReply
    BY <1>7, StreamsReply
  <1>8. CASE ClientReply
    BY <1>8, StreamsAnswered
  <1>9. CASE ClientEnd \/ ClientNull
    <2>1. UNCHANGED <<up, down, server, client, session_registry_, service_registry_>>
      BY <1>9 DEF ClientEnd, ClientNull, channelVars
    <2> QED
      BY <2>1, StreamsSame
  <1>10. CASE UNCHANGED vars
    <2>1. UNCHANGED <<up, down, server, client, session_registry_, service_registry_>>
      BY <1>10 DEF vars, channelVars
    <2> QED
      BY <2>1, StreamsSame
  <1> QED
    BY <1>1, <1>2, <1>3, <1>4, <1>5, <1>6, <1>7, <1>8, <1>9, <1>10
       DEF Next, ServerStep, ClientStep

LEMMA StreamsInit == ASSUME Init PROVE Streams /\ SessionsMatchTraffic
  <1>1. up = <<>> /\ down = <<>> /\ server = Reader /\ client = Reader /\ DOMAIN session_registry_ = {}
    BY DEF Init
  <1>2. <<>> \o <<>> = <<>> /\ Len(<<>>) = 0 /\ <<>> \in Seq(Units) /\ DOMAIN <<>> = {}
    OBVIOUS
  <1>3. Reader.buf = <<>> /\ Due(Reader) = 0 /\ LengthsRead(Reader) = 0
    BY DEF Reader, Due, BeforeMessage, LengthsRead
  <1>4. Flow(Reader, <<>>) = <<>>
    BY <1>2, <1>3, Zenon DEF Flow
  <1>5. Aligned(<<>>, 0)
    BY <1>2, RunOfNothing, BytesEmpty DEF Aligned
  <1>6. Lengths(<<>>) = 0
    <2>1. {i \in DOMAIN <<>> : <<>>[i].kind = "length"} = {}
      BY <1>2
    <2> QED
      BY <2>1, FS_EmptySet, Zenon DEF Lengths
  <1>7. InFlight(Reader, <<>>) = 0
    <2>1. InFlight(Reader, <<>>) = LengthsRead(Reader) + Lengths(<<>>)
      BY <1>2, <1>3, Zenon DEF InFlight
    <2> QED
      BY <1>3, <1>6, <2>1
  <1>8. Cardinality({}) = 0
    BY FS_EmptySet
  <1> QED
    BY <1>1, <1>3, <1>4, <1>5, <1>7, <1>8 DEF Streams, SessionsMatchTraffic

-----------------------------------------------------------------------------
EchoInv == TypeInv /\ Streams /\ SessionsMatchTraffic

LEMMA EchoInvStep == EchoInv /\ [Next]_vars => EchoInv'
  <1> SUFFICES ASSUME EchoInv, [Next]_vars PROVE EchoInv'
    OBVIOUS
  <1>1. TypeInv
    BY DEF EchoInv
  <1>2. CallTypes' /\ SessionTypes'
    BY <1>1, CallTypesStep
  <1>3. BufferTypes'
    BY <1>1, BufferTypesStep
  <1>4. StreamTypes' /\ Streams' /\ SessionsMatchTraffic'
    BY <1>1, StreamsStep DEF EchoInv, StreamsKept
  <1> QED
    BY <1>2, <1>3, <1>4 DEF EchoInv, TypeInv

LEMMA EchoInvariant == Spec => []EchoInv
  <1>1. Init => EchoInv
    BY TypeInvInit, StreamsInit DEF EchoInv
  <1> QED
    BY <1>1, EchoInvStep, PTL DEF Spec

(* For every number of calls, every texts and every table of word sizes:    *)
(* sessions are filed under ids that CallMethod has given out and lead to   *)
(* different calls, and both recv_fn stay in their states.                  *)
THEOREM TypeCorrect == Spec => []TypeOK
  <1>1. EchoInv => TypeOK
    BY TypeInvImplies DEF EchoInv
  <1> QED
    BY <1>1, EchoInvariant, PTL

(* As long as the server has not ended the connection, every length on its  *)
(* way is the number of bytes that follow it up to the next length, and     *)
(* each recv_fn stands before a length or before as many bytes as it has    *)
(* been told: ByteSizeLong and the serialisers of Header, EchoRequest and   *)
(* EchoResponse agree for every request id, name and text, and both parsers *)
(* leave the stream where the next length begins.                           *)
THEOREM FramesAgree == Spec => []FramesDelimited
  <1>1. EchoInv => FramesDelimited
    BY StreamsDelimited DEF EchoInv
  <1> QED
    BY <1>1, EchoInvariant, PTL

(* As long as the server has not ended the connection, session_registry_    *)
(* holds as many sessions as there are requests and responses on their way: *)
(* no id is used twice and no session is left behind or erased early.       *)
THEOREM SessionsCounted == Spec => []SessionsMatchTraffic
  <1>1. EchoInv => SessionsMatchTraffic
    BY DEF EchoInv
  <1> QED
    BY <1>1, EchoInvariant, PTL
-----------------------------------------------------------------------------
(***************************************************************************)
(* A message whose bytes are there is taken as it was written.             *)
(***************************************************************************)

(* y goes further than x by what u has more than v. *)
Further(x, u, y, v) == \E m \in Seq(Units) : y = x \o m /\ u = m \o v

(* The parentheses of a \o b \o c. *)
Associates(a, b, c) == (a \o b) \o c = a \o (b \o c)

LEMMA UnitsAssociate ==
  ASSUME NEW a \in Seq(Units), NEW b \in Seq(Units), NEW c \in Seq(Units)
  PROVE  Associates(a, b, c)
  BY UnitsAssociative DEF Associates

LEMMA PrefixSplit ==
  ASSUME NEW x \in Seq(Units), NEW u \in Seq(Units), NEW y \in Seq(Units), NEW v \in Seq(Units),
         x \o u = y \o v, Len(x) <= Len(y)
  PROVE  Further(x, u, y, v)
  <1> DEFINE m == SubSeq(y, Len(x) + 1, Len(y))
             p == SubSeq(y, 1, Len(x))
             s == x \o u
  <1>1. Len(x) \in Nat /\ Len(y) \in Nat /\ Len(u) \in Nat /\ Len(v) \in Nat /\ Len(x) \in 0 .. Len(y)
    OBVIOUS
  <1>2. p \in Seq(Units) /\ Len(p) = Len(x) /\ m \in Seq(Units) /\ y = p \o m
    BY <1>1, SplitAt
  <1>3. /\ s \in Seq(Units)
        /\ \A i \in 1 .. Len(x) : s[i] = x[i]
    OBVIOUS
  <1>4. s = y \o v
    OBVIOUS
  <1>5. \A i \in 1 .. Len(y) : (y \o v)[i] = y[i]
    OBVIOUS
  <1>6. \A i \in 1 .. Len(x) : p[i] = y[i]
    BY <1>1
  <1> HIDE DEF s, p, m
  <1>7. p = x
    <2>1. ASSUME NEW i \in 1 .. Len(p) PROVE p[i] = x[i]
      <3>1. i \in 1 .. Len(x) /\ i \in 1 .. Len(y)
        BY <1>1, <1>2
      <3> QED
        BY <1>3, <1>4, <1>5, <1>6, <3>1
    <2> QED
      BY <1>2, <2>1, SeqEqual
  <1>8. y = x \o m
    BY <1>2, <1>7
  <1>9. x \o u = x \o (m \o v) /\ m \o v \in Seq(Units)
    <2>1. (x \o m) \o v = x \o (m \o v)
      <3>1. Associates(x, m, v)
        BY <1>2, UnitsAssociate, Zenon
      <3> QED
        BY <3>1, Zenon DEF Associates
    <2> QED
      BY <1>2, <1>4, <1>8, <2>1 DEF s
  <1>10. u = m \o v
    BY <1>2, <1>9, ConcatSimplifications, Zenon
  <1> QED
    BY <1>2, <1>8, <1>10, Zenon DEF Further

LEMMA UnitsLength ==
  ASSUME NEW x \in Seq(Units), NEW y \in Seq(Units)
  PROVE  Len(x \o y) = Len(x) + Len(y) /\ Len(x) \in Nat /\ Len(y) \in Nat
  OBVIOUS

LEMMA BytesOfPart ==
  ASSUME NEW p \in Seq(Units), NEW t \in Seq(Units)
  PROVE  BytesTo(p \o t, Len(p)) = Bytes(p)
  <1> DEFINE u == p \o t
             k == Len(p)
  <1>1. k \in Nat /\ k + 0 = k /\ 0 \in Nat
    OBVIOUS
  <1>2. SameSizes(u, 0, p, k)
    <2>1. \A i \in 1 .. k : u[0 + i] = p[i] /\ p[i] \in Units
      OBVIOUS
    <2> HIDE DEF u, k
    <2> QED
      BY <2>1, UnitType DEF SameSizes
  <1>3. SameSizes(u, k, p, 0)
    BY DEF SameSizes
  <1> HIDE DEF u, k
  <1>4. BytesTo(u, k + 0) = BytesTo(p, k) + BytesTo(p, 0)
    BY <1>1, <1>2, <1>3, BytesShifted
  <1>5. BytesTo(p, k) \in Nat /\ BytesTo(p, k) = Bytes(p)
    BY BytesType, <1>1 DEF Bytes, k
  <1>6. BytesTo(u, k) = Bytes(p)
    BY <1>1, <1>4, <1>5, BytesZero
  <1> QED
    BY <1>6 DEF u, k

(* Two ways to cut a stream in the same place. *)
LEMMA SamePlace ==
  ASSUME NEW x \in Seq(Units), NEW u \in Seq(Units), NEW y \in Seq(Units), NEW v \in Seq(Units),
         x \o u = y \o v, Len(x) = Len(y)
  PROVE  x = y /\ u = v
  <1>1. Len(x) <= Len(y)
    OBVIOUS
  <1>2. PICK m \in Seq(Units) : y = x \o m /\ u = m \o v
    <2>1. Further(x, u, y, v)
      BY <1>1, PrefixSplit
    <2> QED
      BY <2>1, Zenon DEF Further
  <1>3. Len(y) = Len(x) + Len(m) /\ Len(m) \in Nat /\ Len(x) \in Nat
    BY <1>2, UnitsLength, Zenon
  <1>4. m = <<>>
    BY <1>3
  <1>5. x \o <<>> = x /\ <<>> \o v = v
    OBVIOUS
  <1> QED
    BY <1>2, <1>4, <1>5, Zenon

LEMMA LongerHasMore ==
  ASSUME NEW x \in Seq(Units), NEW u \in Seq(Units), NEW y \in Seq(Units), NEW v \in Seq(Units),
         x \o u = y \o v
  PROVE  Len(x) <= Len(y) <=> Bytes(x) <= Bytes(y)
  <1>1. Bytes(x) \in Nat /\ Bytes(y) \in Nat /\ Len(x) \in Nat /\ Len(y) \in Nat
    BY BytesType
  <1>2. CASE Len(x) <= Len(y)
    <2>1. PICK m \in Seq(Units) : y = x \o m /\ u = m \o v
      <3>1. Further(x, u, y, v)
        BY <1>2, PrefixSplit
      <3> QED
        BY <3>1, Zenon DEF Further
    <2>2. Bytes(y) = Bytes(x) + Bytes(m) /\ Bytes(m) \in Nat
      BY <2>1, BytesConcat, BytesType
    <2> QED
      BY <1>1, <1>2, <2>2
  <1>3. CASE Len(y) < Len(x)
    <2>1. Len(y) <= Len(x) /\ y \o v = x \o u
      BY <1>1, <1>3
    <2>2. PICK m \in Seq(Units) : x = y \o m /\ v = m \o u
      <3>1. Further(y, v, x, u)
        BY <2>1, PrefixSplit
      <3> QED
        BY <3>1, Zenon DEF Further
    <2>3. Len(x) = Len(y) + Len(m) /\ Len(m) \in Nat
      BY <2>2, UnitsLength, Zenon
    <2>4. m # <<>>
      BY <1>1, <1>3, <2>3
    <2>5. Bytes(x) = Bytes(y) + Bytes(m) /\ Bytes(m) \in Nat /\ Bytes(m) > 0
      BY <2>2, <2>4, BytesConcat, BytesType, BytesPositive
    <2> QED
      BY <1>1, <1>3, <2>5
  <1> QED
    BY <1>1, <1>2, <1>3

(* Of b, with rest behind it, the first n bytes are a, and then comes z. *)
TakesAll(b, rest, a, z, n) ==
  /\ ParsesWithin(b, n) /\ Taken(b, n) = a
  /\ Left(b, n) \in Seq(Units) /\ Left(b, n) \o rest = z

LEMMA TakenExact ==
  ASSUME NEW b \in Seq(Units), NEW rest \in Seq(Units), NEW a \in Seq(Fields), NEW z \in Seq(Units),
         b \o rest = a \o z, NEW n, n = Bytes(a), Bytes(b) >= n
  PROVE  TakesAll(b, rest, a, z, n)
  <1>1. a \in Seq(Units) /\ n \in Nat /\ Bytes(b) \in Nat
    BY FieldsAreUnits, BytesType
  <1>2. PICK m \in Seq(Units) : b = a \o m /\ z = m \o rest
    <2>1. a \o z = b \o rest /\ Bytes(a) <= Bytes(b)
      BY <1>1
    <2>2. Len(a) <= Len(b)
      BY <1>1, <2>1, LongerHasMore, Zenon
    <2>3. Further(a, z, b, rest)
      BY <1>1, <2>1, <2>2, PrefixSplit
    <2> QED
      BY <2>3, Zenon DEF Further
  <1>3. ASSUME NEW k \in 1 .. Len(b) PROVE BytesTo(b, k) <= n <=> k <= Len(a)
    <2> DEFINE p == SubSeq(b, 1, k)
               t == SubSeq(b, k + 1, Len(b))
    <2>1. k \in 0 .. Len(b)
      OBVIOUS
    <2>2. p \in Seq(Units) /\ Len(p) = k /\ t \in Seq(Units) /\ b = p \o t
      BY <2>1, SplitAt, Zenon
    <2> HIDE DEF p, t
    <2>3. BytesTo(p \o t, Len(p)) = Bytes(p)
      BY <2>2, BytesOfPart, Zenon
    <2>4. BytesTo(b, k) = Bytes(p)
      BY <2>2, <2>3, Zenon
    <2>5. p \o t = a \o m
      BY <1>2, <2>2, Zenon
    <2>6. Len(p) <= Len(a) <=> Bytes(p) <= Bytes(a)
      BY <1>1, <1>2, <2>2, <2>5, LongerHasMore, Zenon
    <2> QED
      BY <2>2, <2>4, <2>6, Zenon
  <1>4. Len(a) \in 0 .. Len(b)
    <2>1. Len(a \o m) = Len(a) + Len(m) /\ Len(a) \in Nat /\ Len(m) \in Nat
      BY <1>1, <1>2, UnitsLength, Zenon
    <2> QED
      BY <1>2, <2>1
  <1>5. {k \in DOMAIN b : BytesTo(b, k) <= n} = 1 .. Len(a)
    <2>1. DOMAIN b = 1 .. Len(b)
      OBVIOUS
    <2> QED
      BY <1>3, <1>4, <2>1
  <1>6. Within(b, n) = Len(a)
    <2>1. Len(a) \in Nat
      BY <1>4
    <2>2. ASSUME NEW k \in Nat PROVE Cardinality(1 .. k) = k
      BY FS_Interval
    <2> QED
      BY <1>5, <2>1, <2>2, Zenon DEF Within
  <1>7. Taken(b, n) = a /\ Left(b, n) = m
    <2>1. /\ Taken(b, n) \in Seq(Units) /\ Left(b, n) \in Seq(Units)
          /\ b = Taken(b, n) \o Left(b, n) /\ Len(Taken(b, n)) = Len(a)
      BY <1>6, TakenLeft
    <2>2. Taken(b, n) \o Left(b, n) = a \o m
      BY <1>2, <2>1, Zenon
    <2> QED
      BY <1>1, <1>2, <2>1, <2>2, SamePlace, Zenon
  <1>8. ParsesWithin(b, n)
    <2>1. ASSUME NEW i \in DOMAIN a PROVE a[i].kind = "field" /\ a[i].tag # 0 /\ a[i].tag % 8 # 4
      <3>1. a[i] \in Fields
        OBVIOUS
      <3>2. a[i].kind = "field"
        BY <3>1, FieldType
      <3>3. CASE \E k \in Nat \ {0} : a[i].tag = 8 * k
        BY <3>2, <3>3
      <3>4. CASE \E k \in Nat \ {0} : a[i].tag = 8 * k + 2
        BY <3>2, <3>4
      <3> QED
        BY <3>1, <3>3, <3>4, FieldType
    <2> QED
      BY <1>7, <2>1, Zenon DEF ParsesWithin
  <1> QED
    BY <1>2, <1>7, <1>8, Zenon DEF TakesAll

-----------------------------------------------------------------------------
(***************************************************************************)
(* What the parsers find is what was written.                              *)
(***************************************************************************)

(* The place of the last field with this tag. *)
LastPlace(s, tag, i) ==
  /\ i \in 1 .. Len(s) /\ s[i].tag = tag
  /\ \A j \in i + 1 .. Len(s) : s[j].tag # tag

Nowhere(s, tag) == \A j \in 1 .. Len(s) : s[j].tag # tag

LEMMA FoundLast ==
  ASSUME NEW s \in Seq(Fields), NEW tag, NEW i, LastPlace(s, tag, i)
  PROVE  Found(s, tag) = <<s[i].val>>
  <1> DEFINE I == {j \in 1 .. Len(s) : s[j].tag = tag}
             k == IF I # {} THEN Max(I) ELSE 0
  <1>1. Found(s, tag) = IF k = 0 THEN <<>> ELSE <<s[k].val>>
    BY Zenon DEF Found, SelectLastInSeq
  <1>2. Len(s) \in Nat /\ i \in I /\ \A j \in I : j \in Nat /\ j <= i
    BY DEF LastPlace
  <1>3. i \in Nat \ {0}
    BY DEF LastPlace
  <1> HIDE DEF I
  <1>4. Max(I) = i
    <2>1. i \in I /\ \A y \in I : i >= y
      BY <1>2, <1>3
    <2>2. Max(I) \in I /\ \A y \in I : Max(I) >= y
      BY <2>1 DEF Max
    <2>3. Max(I) \in Nat /\ Max(I) <= i /\ Max(I) >= i
      BY <1>2, <2>1, <2>2
    <2> QED
      BY <1>3, <2>3
  <1>5. k = i
    BY <1>2, <1>4
  <1> QED
    BY <1>1, <1>3, <1>5

LEMMA FoundNowhere ==
  ASSUME NEW s \in Seq(Fields), NEW tag, Nowhere(s, tag)
  PROVE  Found(s, tag) = <<>>
  <1> DEFINE I == {j \in 1 .. Len(s) : s[j].tag = tag}
             k == IF I # {} THEN Max(I) ELSE 0
  <1>1. Found(s, tag) = IF k = 0 THEN <<>> ELSE <<s[k].val>>
    BY Zenon DEF Found, SelectLastInSeq
  <1>2. I = {}
    BY DEF Nowhere
  <1> QED
    BY <1>1, <1>2

LEMMA LastOrNowhere ==
  ASSUME NEW s \in Seq(Fields), NEW tag
  PROVE  Nowhere(s, tag) \/ \E i \in Nat : LastPlace(s, tag, i)
  <1> DEFINE I == {j \in 1 .. Len(s) : s[j].tag = tag}
  <1>1. CASE I = {}
    BY <1>1 DEF Nowhere
  <1>2. CASE I # {}
    <2>1. Len(s) \in Nat /\ I \in SUBSET (1 .. Len(s))
      OBVIOUS
    <2>2. PICK x \in I : \A y \in I : x >= y
      <3> HIDE DEF I
      <3> QED
        BY <1>2, <2>1, Greatest
    <2>3. x \in Nat /\ x \in 1 .. Len(s) /\ s[x].tag = tag
      BY <2>2
    <2>4. ASSUME NEW j \in x + 1 .. Len(s) PROVE s[j].tag # tag
      <3>1. j \in 1 .. Len(s) /\ ~ (x >= j)
        BY <2>3
      <3> QED
        BY <2>2, <3>1
    <2> QED
      BY <2>3, <2>4 DEF LastPlace
  <1> QED
    BY <1>1, <1>2

(* y where it is there, x otherwise. *)
Either(x, y) == IF y # <<>> THEN y ELSE x

LEMMA FoundConcat ==
  ASSUME NEW s \in Seq(Fields), NEW t \in Seq(Fields), NEW tag
  PROVE  Found(s \o t, tag) = Either(Found(s, tag), Found(t, tag))
  <1> DEFINE u == s \o t
  <1>1. /\ u \in Seq(Fields) /\ Len(u) = Len(s) + Len(t) /\ Len(s) \in Nat /\ Len(t) \in Nat
        /\ \A i \in 1 .. Len(s) : u[i] = s[i]
        /\ \A i \in Len(s) + 1 .. Len(u) : u[i] = t[i - Len(s)] /\ i - Len(s) \in 1 .. Len(t)
        /\ \A i \in 1 .. Len(t) : u[Len(s) + i] = t[i] /\ Len(s) + i \in 1 .. Len(u)
    OBVIOUS
  <1> HIDE DEF u
  <1>2. CASE \E i \in Nat : LastPlace(t, tag, i)
    <2>1. PICK i \in Nat : LastPlace(t, tag, i)
      BY <1>2
    <2>2. Found(t, tag) = <<t[i].val>>
      BY <2>1, FoundLast
    <2>3. LastPlace(u, tag, Len(s) + i)
      <3>1. i \in 1 .. Len(t) /\ t[i].tag = tag
        BY <2>1 DEF LastPlace
      <3>2. ASSUME NEW j \in Len(s) + i + 1 .. Len(u) PROVE u[j].tag # tag
        <4>1. j \in Len(s) + 1 .. Len(u) /\ j - Len(s) \in i + 1 .. Len(t)
          BY <1>1, <3>1
        <4> QED
          BY <1>1, <2>1, <4>1 DEF LastPlace
      <3> QED
        BY <1>1, <3>1, <3>2 DEF LastPlace
    <2>4. Found(u, tag) = <<u[Len(s) + i].val>>
      BY <1>1, <2>3, FoundLast
    <2>5. u[Len(s) + i] = t[i]
      BY <1>1, <2>1 DEF LastPlace
    <2>6. <<t[i].val>> # <<>>
      OBVIOUS
    <2>7. Found(u, tag) = Either(Found(s, tag), Found(t, tag))
      BY <2>2, <2>4, <2>5, <2>6, Zenon DEF Either
    <2> QED
      BY <2>7 DEF u
  <1>3. CASE Nowhere(t, tag)
    <2>1. Found(t, tag) = <<>>
      BY <1>3, FoundNowhere
    <2>2. CASE Nowhere(s, tag)
      <3>1. Nowhere(u, tag)
        <4>1. ASSUME NEW j \in 1 .. Len(u) PROVE u[j].tag # tag
          <5>1. j \in 1 .. Len(s) \/ j \in Len(s) + 1 .. Len(u)
            BY <1>1
          <5> QED
            BY <1>1, <1>3, <2>2, <5>1 DEF Nowhere
        <4> QED
          BY <4>1 DEF Nowhere
      <3> QED
        BY <1>1, <2>1, <2>2, <3>1, FoundNowhere DEF Either, u
    <2>3. CASE \E i \in Nat : LastPlace(s, tag, i)
      <3>1. PICK i \in Nat : LastPlace(s, tag, i)
        BY <2>3
      <3>2. LastPlace(u, tag, i)
        <4>1. i \in 1 .. Len(s) /\ s[i].tag = tag
          BY <3>1 DEF LastPlace
        <4>2. ASSUME NEW j \in i + 1 .. Len(u) PROVE u[j].tag # tag
          <5>1. j \in i + 1 .. Len(s) \/ j \in Len(s) + 1 .. Len(u)
            BY <1>1, <4>1
          <5>2. CASE j \in i + 1 .. Len(s)
            BY <1>1, <3>1, <4>1, <5>2 DEF LastPlace
          <5>3. CASE j \in Len(s) + 1 .. Len(u)
            BY <1>1, <1>3, <5>3 DEF Nowhere
          <5> QED
            BY <5>1, <5>2, <5>3
        <4> QED
          BY <1>1, <4>1, <4>2 DEF LastPlace
      <3>3. Found(u, tag) = <<u[i].val>> /\ Found(s, tag) = <<s[i].val>>
        BY <1>1, <3>1, <3>2, FoundLast
      <3>4. u[i] = s[i]
        BY <1>1, <3>1 DEF LastPlace
      <3>5. Found(u, tag) = Either(Found(s, tag), Found(t, tag))
        BY <2>1, <3>3, <3>4, Zenon DEF Either
      <3> QED
        BY <3>5 DEF u
    <2> QED
      BY <2>2, <2>3, LastOrNowhere
  <1> QED
    BY <1>2, <1>3, LastOrNowhere

LEMMA FoundOnly ==
  ASSUME NEW p \in BOOLEAN, NEW f, p => f \in Fields, NEW tag
  PROVE  Found(Only(p, f), tag) = IF p /\ f.tag = tag THEN <<f.val>> ELSE <<>>
  <1>1. CASE ~p
    <2>1. Only(p, f) = <<>> /\ <<>> \in Seq(Fields) /\ Len(<<>>) = 0
      BY <1>1 DEF Only
    <2>2. Nowhere(<<>>, tag)
      BY <2>1 DEF Nowhere
    <2> QED
      BY <1>1, <2>1, <2>2, FoundNowhere
  <1>2. CASE p
    <2>1. Only(p, f) = <<f>> /\ <<f>> \in Seq(Fields)
      BY <1>2 DEF Only
    <2> DEFINE s == <<f>>
    <2>2. Len(s) = 1 /\ s[1] = f
      OBVIOUS
    <2> HIDE DEF s
    <2>3. CASE f.tag = tag
      <3>1. LastPlace(s, tag, 1)
        BY <2>2, <2>3 DEF LastPlace
      <3>2. Found(s, tag) = <<s[1].val>>
        BY <2>1, <3>1, FoundLast DEF s
      <3> QED
        BY <1>2, <2>1, <2>2, <2>3, <3>2, Zenon DEF s
    <2>4. CASE f.tag # tag
      <3>1. Nowhere(s, tag)
        BY <2>2, <2>4 DEF Nowhere
      <3>2. Found(s, tag) = <<>>
        BY <2>1, <3>1, FoundNowhere DEF s
      <3> QED
        BY <1>2, <2>1, <2>4, <3>2, Zenon DEF s
    <2> QED
      BY <2>3, <2>4
  <1> QED
    BY <1>1, <1>2

(* What is found of a number, and of a text that may not be there. *)
Number(v, n, tag)  == IF v # 0 /\ tag = 8 * n THEN <<v>> ELSE <<>>
Text(p, t, n, tag) == IF p /\ tag = 8 * n + 2 THEN <<t>> ELSE <<>>

LEMMA FoundNumber ==
  ASSUME NEW n \in Nat \ {0}, NEW v \in Nat, NEW tag
  PROVE  Found(Only(v # 0, Field(VarintTag(n), v)), tag) = Number(v, n, tag)
  <1> DEFINE f == Field(VarintTag(n), v)
             p == v # 0
  <1>1. f \in Fields /\ f.tag = 8 * n /\ f.val = v /\ p \in BOOLEAN
    BY VarintField
  <1> HIDE DEF f, p
  <1>2. Found(Only(p, f), tag) = IF p /\ f.tag = tag THEN <<f.val>> ELSE <<>>
    BY <1>1, FoundOnly
  <1>3. Found(Only(p, f), tag) = IF p /\ tag = 8 * n THEN <<v>> ELSE <<>>
    BY <1>1, <1>2
  <1> QED
    BY <1>3, Zenon DEF f, p, Number

LEMMA FoundText ==
  ASSUME NEW n \in Nat \ {0}, NEW p \in BOOLEAN, NEW t, p => t \in Texts, NEW tag
  PROVE  Found(Only(p, Field(DelimitedTag(n), t)), tag) = Text(p, t, n, tag)
  <1> DEFINE f == Field(DelimitedTag(n), t)
  <1>1. p => f \in Fields /\ f.tag = 8 * n + 2 /\ f.val = t
    BY DelimitedField
  <1> HIDE DEF f
  <1>2. Found(Only(p, f), tag) = IF p /\ f.tag = tag THEN <<f.val>> ELSE <<>>
    BY <1>1, FoundOnly
  <1>3. Found(Only(p, f), tag) = IF p /\ tag = 8 * n + 2 THEN <<t>> ELSE <<>>
    BY <1>1, <1>2
  <1> QED
    BY <1>3, Zenon DEF f, Text

(* What is found in seven parts. *)
FoundInSeven(s, tag, a, b, c, d, e, f, u) ==
  Found(s, tag) =
    Either(Either(Either(Either(Either(Either(Found(a, tag), Found(b, tag)), Found(c, tag)),
      Found(d, tag)), Found(e, tag)), Found(f, tag)), Found(u, tag))

LEMMA SevenFound ==
  ASSUME NEW a \in Seq(Fields), NEW b \in Seq(Fields), NEW c \in Seq(Fields), NEW d \in Seq(Fields),
         NEW e \in Seq(Fields), NEW f \in Seq(Fields), NEW u \in Seq(Fields), NEW tag,
         NEW s, s = a \o b \o c \o d \o e \o f \o u
  PROVE  FoundInSeven(s, tag, a, b, c, d, e, f, u)
  <1> DEFINE v == a \o b
             w == v \o c
             x == w \o d
             y == x \o e
             z == y \o f
  <1>1. v \in Seq(Fields)
    BY FieldsConcat
  <1>2. Found(v, tag) = Either(Found(a, tag), Found(b, tag))
    BY FoundConcat
  <1> HIDE DEF v
  <1>3. w \in Seq(Fields)
    BY <1>1, FieldsConcat
  <1>4. Found(w, tag) = Either(Found(v, tag), Found(c, tag))
    BY <1>1, FoundConcat
  <1> HIDE DEF w
  <1>5. x \in Seq(Fields)
    BY <1>3, FieldsConcat
  <1>6. Found(x, tag) = Either(Found(w, tag), Found(d, tag))
    BY <1>3, FoundConcat
  <1> HIDE DEF x
  <1>7. y \in Seq(Fields)
    BY <1>5, FieldsConcat
  <1>8. Found(y, tag) = Either(Found(x, tag), Found(e, tag))
    BY <1>5, FoundConcat
  <1> HIDE DEF y
  <1>9. z \in Seq(Fields)
    BY <1>7, FieldsConcat
  <1>10. Found(z, tag) = Either(Found(y, tag), Found(f, tag))
    BY <1>7, FoundConcat
  <1> HIDE DEF z
  <1>11. Found(z \o u, tag) = Either(Found(z, tag), Found(u, tag))
    BY <1>9, FoundConcat
  <1>12. s = z \o u
    BY Zenon DEF v, w, x, y, z
  <1> QED
    BY <1>2, <1>4, <1>6, <1>8, <1>10, <1>11, <1>12, Zenon DEF FoundInSeven

(* None of these fields is one that the parser of headers reads. *)
NoneKnown(u) == \A tag \in {8, 16, 32, 42, 50} : Found(u, tag) = <<>>

(* A header is parsed as it was, but for the fields that are not known. *)
LEMMA HeaderParsed ==
  ASSUME NEW h, IsHeader(h), NoneKnown(h.unknown)
  PROVE  LET g == ParseHeader(SerializeHeader(h))
         IN  /\ g.magic = h.magic /\ g.version = h.version /\ g.request_id = h.request_id
             /\ h.service_name # <<>> => NameOf(g.service_name) = NameOf(h.service_name)
             /\ h.method_name # <<>> => NameOf(g.method_name) = NameOf(h.method_name)
  <1> DEFINE a == Only(h.magic # 0, Field(VarintTag(1), h.magic))
             b == Only(h.version # 0, Field(VarintTag(2), h.version))
             c == Only(h.message_type # 0, Field(VarintTag(3), h.message_type))
             d == Only(h.request_id # 0, Field(VarintTag(4), h.request_id))
             e == Only(h.service_name # <<>>, Field(DelimitedTag(5), NameOf(h.service_name)))
             f == Only(h.method_name # <<>>, Field(DelimitedTag(6), NameOf(h.method_name)))
             u == h.unknown
             s == SerializeHeader(h)
             Named(v, n, tag) == Text(v # <<>>, NameOf(v), n, tag)
  <1>1. /\ h.magic \in Nat /\ h.version \in Nat /\ h.message_type \in Nat /\ h.request_id \in Nat
        /\ h.service_name # <<>> => NameOf(h.service_name) \in Texts
        /\ h.method_name # <<>> => NameOf(h.method_name) \in Texts
        /\ u \in Seq(Fields)
    BY DEF IsHeader
  <1>2. /\ 1 \in Nat \ {0} /\ 2 \in Nat \ {0} /\ 3 \in Nat \ {0}
        /\ 4 \in Nat \ {0} /\ 5 \in Nat \ {0} /\ 6 \in Nat \ {0}
    OBVIOUS
  <1>3. a \in Seq(Fields) /\ b \in Seq(Fields) /\ c \in Seq(Fields) /\ d \in Seq(Fields)
    BY <1>1, <1>2, NumberSize, Zenon
  <1>4. e \in Seq(Fields) /\ f \in Seq(Fields)
    <2>1. (h.service_name # <<>>) \in BOOLEAN /\ (h.method_name # <<>>) \in BOOLEAN
      OBVIOUS
    <2> QED
      BY <1>1, <1>2, <2>1, StringFieldSize, Zenon
  <1>5. s = a \o b \o c \o d \o e \o f \o u
    BY Zenon DEF SerializeHeader
  <1>6. ASSUME NEW tag
        PROVE  /\ Found(a, tag) = Number(h.magic, 1, tag) /\ Found(b, tag) = Number(h.version, 2, tag)
               /\ Found(c, tag) = Number(h.message_type, 3, tag)
               /\ Found(d, tag) = Number(h.request_id, 4, tag)
    <2>1. Found(a, tag) = Number(h.magic, 1, tag)
      BY <1>1, <1>2, FoundNumber
    <2>2. Found(b, tag) = Number(h.version, 2, tag)
      BY <1>1, <1>2, FoundNumber
    <2>3. Found(c, tag) = Number(h.message_type, 3, tag)
      BY <1>1, <1>2, FoundNumber
    <2>4. Found(d, tag) = Number(h.request_id, 4, tag)
      BY <1>1, <1>2, FoundNumber
    <2> QED
      BY <2>1, <2>2, <2>3, <2>4, Zenon
  <1>7. ASSUME NEW tag
        PROVE  /\ Found(e, tag) = Named(h.service_name, 5, tag)
               /\ Found(f, tag) = Named(h.method_name, 6, tag)
    <2>1. (h.service_name # <<>>) \in BOOLEAN /\ (h.method_name # <<>>) \in BOOLEAN
      OBVIOUS
    <2> DEFINE p == h.service_name # <<>>
               q == h.method_name # <<>>
               t == NameOf(h.service_name)
               w == NameOf(h.method_name)
    <2> HIDE DEF p, q, t, w
    <2>2. Found(Only(p, Field(DelimitedTag(5), t)), tag) = Text(p, t, 5, tag)
      <3>1. p \in BOOLEAN /\ (p => t \in Texts)
        BY <1>1, <2>1 DEF p, t
      <3> QED
        BY <1>2, <3>1, FoundText
    <2>3. Found(Only(q, Field(DelimitedTag(6), w)), tag) = Text(q, w, 6, tag)
      <3>1. q \in BOOLEAN /\ (q => w \in Texts)
        BY <1>1, <2>1 DEF q, w
      <3> QED
        BY <1>2, <3>1, FoundText
    <2> QED
      BY <2>2, <2>3, Zenon DEF p, q, t, w
  <1> HIDE DEF a, b, c, d, e, f, s
  <1>8. ASSUME NEW tag \in {8, 16, 32, 42, 50}
        PROVE  Found(s, tag) =
           Either(Either(Either(Either(Either(Number(h.magic, 1, tag), Number(h.version, 2, tag)),
             Number(h.message_type, 3, tag)), Number(h.request_id, 4, tag)),
             Named(h.service_name, 5, tag)), Named(h.method_name, 6, tag))
    <2>1. Found(s, tag) =
           Either(Either(Either(Either(Either(Either(Found(a, tag), Found(b, tag)), Found(c, tag)),
             Found(d, tag)), Found(e, tag)), Found(f, tag)), Found(u, tag))
      <3>1. FoundInSeven(s, tag, a, b, c, d, e, f, u)
        BY <1>1, <1>3, <1>4, <1>5, SevenFound, Zenon
      <3> QED
        BY <3>1, Zenon DEF FoundInSeven
    <2>2. Found(u, tag) = <<>>
      BY DEF NoneKnown
    <2>3. ASSUME NEW x PROVE Either(x, <<>>) = x
      BY DEF Either
    <2> HIDE DEF Named
    <2> QED
      BY <1>6, <1>7, <2>1, <2>2, <2>3, Zenon
  <1>9. ASSUME NEW x PROVE Either(x, <<>>) = x /\ Either(<<>>, x) = x
    BY DEF Either
  <1>10. /\ Found(s, 8) = Number(h.magic, 1, 8) /\ Found(s, 16) = Number(h.version, 2, 16)
         /\ Found(s, 32) = Number(h.request_id, 4, 32)
         /\ Found(s, 42) = Named(h.service_name, 5, 42) /\ Found(s, 50) = Named(h.method_name, 6, 50)
    <2>1. \A tag \in {8, 16, 32, 42, 50} :
            /\ tag # 8 => Number(h.magic, 1, tag) = <<>>
            /\ tag # 16 => Number(h.version, 2, tag) = <<>>
            /\ Number(h.message_type, 3, tag) = <<>>
            /\ tag # 32 => Number(h.request_id, 4, tag) = <<>>
            /\ tag # 42 => Named(h.service_name, 5, tag) = <<>>
            /\ tag # 50 => Named(h.method_name, 6, tag) = <<>>
      BY DEF Number, Text
    <2>2. 8 # 16 /\ 8 # 32 /\ 8 # 42 /\ 8 # 50 /\ 16 # 32 /\ 16 # 42 /\ 16 # 50 /\ 32 # 42 /\ 32 # 50 /\ 42 # 50
      OBVIOUS
    <2> HIDE DEF Named
    <2> QED
      BY <1>8, <1>9, <2>1, <2>2
  <1>11. VarintTag(1) = 8 /\ VarintTag(2) = 16 /\ VarintTag(4) = 32 /\ DelimitedTag(5) = 42 /\ DelimitedTag(6) = 50
    BY DEF VarintTag, DelimitedTag
  <1> DEFINE g == ParseHeader(s)
  <1>12. /\ g.magic = LastOf(s, 8, 0) /\ g.version = LastOf(s, 16, 0) /\ g.request_id = LastOf(s, 32, 0)
         /\ g.service_name = Found(s, 42) /\ g.method_name = Found(s, 50)
    BY <1>11 DEF ParseHeader
  <1> HIDE DEF g
  <1>13. g.magic = h.magic /\ g.version = h.version /\ g.request_id = h.request_id
    <2>2. LastOf(s, 8, 0) = h.magic
      BY <1>1, <1>10 DEF LastOf, Number
    <2>3. LastOf(s, 16, 0) = h.version
      BY <1>1, <1>10 DEF LastOf, Number
    <2>4. LastOf(s, 32, 0) = h.request_id
      BY <1>1, <1>10 DEF LastOf, Number
    <2> QED
      BY <1>12, <2>2, <2>3, <2>4, Zenon
  <1>14. h.service_name # <<>> => NameOf(g.service_name) = NameOf(h.service_name)
    <2>1. h.service_name # <<>> => g.service_name = <<NameOf(h.service_name)>>
      BY <1>10, <1>12 DEF Text
    <2>2. ASSUME NEW x PROVE NameOf(<<x>>) = x
      BY DEF NameOf
    <2> QED
      BY <2>1, <2>2, Zenon
  <1>15. h.method_name # <<>> => NameOf(g.method_name) = NameOf(h.method_name)
    <2>1. h.method_name # <<>> => g.method_name = <<NameOf(h.method_name)>>
      BY <1>10, <1>12 DEF Text
    <2>2. ASSUME NEW x PROVE NameOf(<<x>>) = x
      BY DEF NameOf
    <2> QED
      BY <2>1, <2>2, Zenon
  <1> QED
    BY <1>13, <1>14, <1>15, Zenon DEF g, s

LEMMA TextFound ==
  ASSUME NEW t \in Texts, NEW s, s = Only(t # <<>>, Field(DelimitedTag(1), t)) \o <<>>
  PROVE  LastOf(s, DelimitedTag(1), <<>>) = t
  <1> DEFINE p == t # <<>>
             o == Only(p, Field(DelimitedTag(1), t))
  <1>1. 1 \in Nat \ {0} /\ p \in BOOLEAN /\ DelimitedTag(1) = 10
    BY DEF DelimitedTag
  <1>2. o \in Seq(Fields)
    BY <1>1, StringFieldSize, Zenon
  <1>3. Found(o, 10) = Text(p, t, 1, 10)
    <2>1. p => t \in Texts
      OBVIOUS
    <2> HIDE DEF p
    <2> QED
      BY <1>1, <2>1, FoundText
  <1> HIDE DEF o
  <1>4. s = o
    <2>1. o \o <<>> = o
      BY <1>2
    <2> QED
      BY <2>1, Zenon DEF o
  <1>5. Found(s, 10) = IF t # <<>> THEN <<t>> ELSE <<>>
    BY <1>3, <1>4 DEF Text
  <1> QED
    BY <1>1, <1>5 DEF LastOf

LEMMA EchoParsed ==
  ASSUME NEW t \in Texts, NEW m, m = [message |-> t, unknown |-> <<>>]
  PROVE  /\ ParseRequest(SerializeRequest(m)).message = t
         /\ ParseResponse(SerializeResponse(m)).message = t
  <1>1. m.message = t /\ m.unknown = <<>>
    OBVIOUS
  <1>2. /\ SerializeRequest(m) = Only(t # <<>>, Field(DelimitedTag(1), t)) \o <<>>
        /\ SerializeResponse(m) = Only(t # <<>>, Field(DelimitedTag(1), t)) \o <<>>
    BY <1>1, Zenon DEF SerializeRequest, SerializeResponse
  <1>3. /\ LastOf(SerializeRequest(m), DelimitedTag(1), <<>>) = t
        /\ LastOf(SerializeResponse(m), DelimitedTag(1), <<>>) = t
    BY <1>2, TextFound, Zenon
  <1>4. ASSUME NEW s PROVE /\ ParseRequest(s).message = LastOf(s, DelimitedTag(1), <<>>)
                           /\ ParseResponse(s).message = LastOf(s, DelimitedTag(1), <<>>)
    BY DEF ParseRequest, ParseResponse
  <1> QED
    BY <1>3, <1>4, Zenon

-----------------------------------------------------------------------------
(***************************************************************************)
(* Streams of messages, and where a reader stands in one.                  *)
(***************************************************************************)

MessageParts == [head : Seq(Fields), body : Seq(Fields)]

(* What is left of a message for a reader to take. *)
ToTake(at, m) ==
  CASE at = "header_len" -> <<Length(Bytes(m.head))>> \o (m.head \o (<<Length(Bytes(m.body))>> \o m.body))
    [] at = "header" -> m.head \o (<<Length(Bytes(m.body))>> \o m.body)
    [] at = "body_len" -> <<Length(Bytes(m.body))>> \o m.body
    [] at = "body" -> m.body

Wire(m) == ToTake("header_len", m)

(* s is the messages a + 1 to b of M, one behind the other. *)
Carries(s, M, a, b) ==
  \E rest \in [a .. b -> Seq(Units)] :
    /\ rest[a] = s /\ rest[b] = <<>>
    /\ \A k \in a + 1 .. b : M[k] \in MessageParts /\ rest[k - 1] = Wire(M[k]) \o rest[k]

(* s is f with messages a + 1 to b behind it. *)
CarriesBehind(f, s, M, a, b) == \E z \in Seq(Units) : s = f \o z /\ Carries(z, M, a, b)

LEMMA LengthUnit == ASSUME NEW s \in Seq(Fields) PROVE <<Length(Bytes(s))>> \in Seq(Units)
  BY FieldsBytes DEF Units

LEMMA ToTakeType ==
  ASSUME NEW m \in MessageParts
  PROVE  /\ m.head \in Seq(Fields) /\ m.body \in Seq(Fields)
         /\ m.head \in Seq(Units) /\ m.body \in Seq(Units)
         /\ \A at \in {"header_len", "header", "body_len", "body"} : ToTake(at, m) \in Seq(Units)
         /\ ToTake("header_len", m) = <<Length(Bytes(m.head))>> \o ToTake("header", m)
         /\ ToTake("header", m) = m.head \o ToTake("body_len", m)
         /\ ToTake("body_len", m) = <<Length(Bytes(m.body))>> \o ToTake("body", m)
         /\ ToTake("body", m) = m.body
  <1> DEFINE L1 == <<Length(Bytes(m.head))>>
             L2 == <<Length(Bytes(m.body))>>
  <1>1. m.head \in Seq(Fields) /\ m.body \in Seq(Fields)
    BY DEF MessageParts
  <1>2. m.head \in Seq(Units) /\ m.body \in Seq(Units) /\ L1 \in Seq(Units) /\ L2 \in Seq(Units)
    BY <1>1, FieldsAreUnits, LengthUnit, Zenon
  <1> HIDE DEF L1, L2
  <1>3. /\ ToTake("body", m) = m.body /\ ToTake("body_len", m) = L2 \o m.body
        /\ ToTake("header", m) = m.head \o (L2 \o m.body)
        /\ ToTake("header_len", m) = L1 \o (m.head \o (L2 \o m.body))
    BY DEF ToTake, L1, L2
  <1>4. ToTake("body_len", m) \in Seq(Units)
    BY <1>2, <1>3, BytesConcat, Zenon
  <1>5. ToTake("header", m) = m.head \o ToTake("body_len", m)
    BY <1>3, Zenon
  <1>6. ToTake("header", m) \in Seq(Units)
    BY <1>2, <1>4, <1>5, BytesConcat, Zenon
  <1>7. ToTake("header_len", m) = L1 \o ToTake("header", m)
    BY <1>3, Zenon
  <1>8. ToTake("header_len", m) \in Seq(Units)
    BY <1>2, <1>6, <1>7, BytesConcat, Zenon
  <1>9. ToTake("body_len", m) = L2 \o ToTake("body", m)
    BY <1>3, Zenon
  <1> QED
    BY <1>1, <1>2, <1>3, <1>4, <1>5, <1>6, <1>7, <1>8, <1>9 DEF L1, L2

LEMMA CarriesNone ==
  ASSUME NEW s, NEW M, NEW a \in Nat, Carries(s, M, a, a)
  PROVE  s = <<>>
  BY DEF Carries

LEMMA CarriesNothing ==
  ASSUME NEW M, NEW a \in Nat
  PROVE  Carries(<<>>, M, a, a)
  <1> DEFINE rest == [k \in a .. a |-> <<>>]
  <1>1. <<>> \in Seq(Units)
    OBVIOUS
  <1>2. a \in a .. a /\ \A k \in a + 1 .. a : FALSE
    OBVIOUS
  <1>3. rest \in [a .. a -> Seq(Units)] /\ rest[a] = <<>>
    BY <1>1, <1>2, Zenon
  <1> HIDE DEF rest
  <1> QED
    BY <1>2, <1>3, Zenon DEF Carries

LEMMA CarriesNext ==
  ASSUME NEW s, NEW M, NEW a \in Nat, NEW b \in Nat, a < b, Carries(s, M, a, b)
  PROVE  M[a + 1] \in MessageParts /\ CarriesBehind(Wire(M[a + 1]), s, M, a + 1, b)
  <1>1. PICK rest \in [a .. b -> Seq(Units)] :
          /\ rest[a] = s /\ rest[b] = <<>>
          /\ \A k \in a + 1 .. b : M[k] \in MessageParts /\ rest[k - 1] = Wire(M[k]) \o rest[k]
    BY Zenon DEF Carries
  <1> DEFINE z == rest[a + 1]
             q == [k \in a + 1 .. b |-> rest[k]]
  <1>2. /\ a + 1 \in a + 1 .. b /\ a + 1 \in a .. b /\ b \in a + 1 .. b /\ (a + 1) - 1 = a
        /\ \A k \in (a + 1) + 1 .. b : k \in a + 1 .. b /\ k - 1 \in a + 1 .. b
        /\ \A k \in a + 1 .. b : k \in a .. b
    OBVIOUS
  <1>3. z \in Seq(Units) /\ M[a + 1] \in MessageParts /\ s = Wire(M[a + 1]) \o z
    BY <1>1, <1>2, Zenon
  <1>4. /\ q \in [a + 1 .. b -> Seq(Units)] /\ \A k \in a + 1 .. b : q[k] = rest[k]
    BY <1>1, <1>2, Zenon
  <1> HIDE DEF q, z
  <1>5. /\ q[a + 1] = z /\ q[b] = <<>>
        /\ \A k \in (a + 1) + 1 .. b : M[k] \in MessageParts /\ q[k - 1] = Wire(M[k]) \o q[k]
    BY <1>1, <1>2, <1>4, Zenon DEF z
  <1>6. Carries(z, M, a + 1, b)
    BY <1>4, <1>5, Zenon DEF Carries
  <1> QED
    BY <1>3, <1>6, Zenon DEF CarriesBehind

LEMMA CarriesMore ==
  ASSUME NEW s \in Seq(Units), NEW M, NEW a \in Nat, NEW b \in Nat, a <= b, Carries(s, M, a, b),
         M[b + 1] \in MessageParts
  PROVE  Carries(s \o Wire(M[b + 1]), M, a, b + 1)
  <1> DEFINE f == Wire(M[b + 1])
  <1>0. f \in Seq(Units)
    BY ToTakeType DEF Wire
  <1> HIDE DEF f
  <1>1. PICK rest \in [a .. b -> Seq(Units)] :
          /\ rest[a] = s /\ rest[b] = <<>>
          /\ \A k \in a + 1 .. b : M[k] \in MessageParts /\ rest[k - 1] = Wire(M[k]) \o rest[k]
    BY Zenon DEF Carries
  <1> DEFINE q == [k \in a .. b + 1 |-> IF k = b + 1 THEN <<>> ELSE rest[k] \o f]
  <1>2. /\ b + 1 \in a .. b + 1 /\ a \in a .. b /\ b \in a .. b /\ (b + 1) - 1 = b
        /\ \A k \in a .. b : k \in a .. b + 1 /\ k # b + 1
        /\ \A k \in a .. b + 1 : k = b + 1 \/ k \in a .. b
        /\ \A k \in a + 1 .. b : k \in a .. b /\ k - 1 \in a .. b
        /\ \A k \in a + 1 .. b + 1 : k = b + 1 \/ k \in a + 1 .. b
    OBVIOUS
  <1>3. q[b + 1] = <<>> /\ \A k \in a .. b : q[k] = rest[k] \o f
    BY <1>2, Zenon
  <1>4. \A k \in a .. b : rest[k] \in Seq(Units) /\ rest[k] \o f \in Seq(Units)
    BY <1>0, <1>1, BytesConcat, Zenon
  <1>5. q \in [a .. b + 1 -> Seq(Units)]
    <2>1. <<>> \in Seq(Units)
      OBVIOUS
    <2> QED
      BY <1>2, <1>4, <2>1, Zenon
  <1> HIDE DEF q
  <1>6. q[a] = s \o f
    BY <1>1, <1>2, <1>3, Zenon
  <1>7. ASSUME NEW k \in a + 1 .. b PROVE M[k] \in MessageParts /\ q[k - 1] = Wire(M[k]) \o q[k]
    <2>1. M[k] \in MessageParts /\ rest[k - 1] = Wire(M[k]) \o rest[k]
      BY <1>1, Zenon
    <2>2. k \in a .. b /\ k - 1 \in a .. b
      BY <1>2, Zenon
    <2>3. Wire(M[k]) \in Seq(Units)
      BY <2>1, ToTakeType DEF Wire
    <2>4. (Wire(M[k]) \o rest[k]) \o f = Wire(M[k]) \o (rest[k] \o f)
      <3>1. Associates(Wire(M[k]), rest[k], f)
        BY <1>0, <1>4, <2>2, <2>3, UnitsAssociate, Zenon
      <3> QED
        BY <3>1, Zenon DEF Associates
    <2>5. q[k - 1] = rest[k - 1] \o f /\ q[k] = rest[k] \o f
      BY <1>3, <2>2, Zenon
    <2> QED
      BY <2>1, <2>4, <2>5, Zenon
  <1>8. q[(b + 1) - 1] = Wire(M[b + 1]) \o q[b + 1]
    <2>1. <<>> \o f = f /\ f \o <<>> = f
      BY <1>0
    <2> QED
      BY <1>1, <1>2, <1>3, <2>1, Zenon DEF f
  <1>9. \A k \in a + 1 .. b + 1 : M[k] \in MessageParts /\ q[k - 1] = Wire(M[k]) \o q[k]
    BY <1>2, <1>7, <1>8, Zenon
  <1>10. Carries(s \o f, M, a, b + 1)
    BY <1>3, <1>5, <1>6, <1>9, Zenon DEF Carries
  <1> QED
    BY <1>10 DEF f

LEMMA CarriesSame ==
  ASSUME NEW s, NEW M, NEW N, NEW a, NEW b, Carries(s, M, a, b), \A k \in a + 1 .. b : N[k] = M[k]
  PROVE  Carries(s, N, a, b)
  <1>1. PICK rest \in [a .. b -> Seq(Units)] :
          /\ rest[a] = s /\ rest[b] = <<>>
          /\ \A k \in a + 1 .. b : M[k] \in MessageParts /\ rest[k - 1] = Wire(M[k]) \o rest[k]
    BY Zenon DEF Carries
  <1>2. \A k \in a + 1 .. b : N[k] \in MessageParts /\ rest[k - 1] = Wire(N[k]) \o rest[k]
    BY <1>1, Zenon
  <1> QED
    BY <1>1, <1>2, Zenon DEF Carries

(* Message a + 1 of M is the one at hand, and this much of it is known. *)
Knows(r, M, a, b) ==
  /\ a < b /\ M[a + 1] \in MessageParts
  /\ r.at = "header" => r.len = Bytes(M[a + 1].head)
  /\ r.at = "body" => r.len = Bytes(M[a + 1].body)
  /\ r.at \in {"body_len", "body"} => r.header = ParseHeader(M[a + 1].head)

(* A reader that has s before it has read a messages of M, of b. *)
Reads(r, s, M, a, b) ==
  \/ r.at = "header_len" /\ Carries(s, M, a, b)
  \/ /\ r.at \in {"header", "body_len", "body"} /\ Knows(r, M, a, b)
     /\ CarriesBehind(ToTake(r.at, M[a + 1]), s, M, a + 1, b)

LEMMA ReadsMore ==
  ASSUME NEW r, NEW s \in Seq(Units), NEW M, NEW a \in Nat, NEW b \in Nat, a <= b,
         Reads(r, s, M, a, b), M[b + 1] \in MessageParts
  PROVE  Reads(r, s \o Wire(M[b + 1]), M, a, b + 1)
  <1> DEFINE f == Wire(M[b + 1])
             m == M[a + 1]
             g == ToTake(r.at, m)
  <1>1. f \in Seq(Units)
    BY ToTakeType DEF Wire
  <1>2. CASE r.at = "header_len"
    <2>1. Carries(s, M, a, b)
      BY <1>2 DEF Reads
    <2>2. Carries(s \o Wire(M[b + 1]), M, a, b + 1)
      BY <2>1, CarriesMore
    <2> QED
      BY <1>2, <2>2, Zenon DEF Reads
  <1>3. CASE r.at # "header_len"
    <2>1. /\ r.at \in {"header", "body_len", "body"} /\ Knows(r, M, a, b)
          /\ CarriesBehind(g, s, M, a + 1, b)
      BY <1>3 DEF Reads
    <2>2. m \in MessageParts /\ a < b
      BY <2>1 DEF Knows
    <2>3. g \in Seq(Units)
      BY <2>1, <2>2, ToTakeType
    <2> HIDE DEF g, f
    <2>4. PICK z \in Seq(Units) : s = g \o z /\ Carries(z, M, a + 1, b)
      BY <2>1, Zenon DEF CarriesBehind
    <2>5. Carries(z \o f, M, a + 1, b + 1)
      <3>1. a + 1 \in Nat /\ a + 1 <= b
        BY <2>2
      <3> QED
        BY <2>4, <3>1, CarriesMore DEF f
    <2>6. z \o f \in Seq(Units) /\ s \o f = g \o (z \o f)
      <3>1. (g \o z) \o f = g \o (z \o f)
        <4>1. Associates(g, z, f)
          BY <1>1, <2>3, <2>4, UnitsAssociate, Zenon
        <4> QED
          BY <4>1, Zenon DEF Associates
      <3>2. z \o f \in Seq(Units)
        BY <1>1, <2>4, BytesConcat, Zenon
      <3> QED
        BY <2>4, <3>1, <3>2, Zenon
    <2>7. CarriesBehind(g, s \o f, M, a + 1, b + 1)
      BY <2>5, <2>6, Zenon DEF CarriesBehind
    <2>8. Knows(r, M, a, b + 1)
      <3>1. a < b + 1
        BY <2>2
      <3> QED
        BY <2>1, <3>1, Zenon DEF Knows
    <2>9. Reads(r, s \o f, M, a, b + 1)
      BY <2>1, <2>7, <2>8, Zenon DEF Reads, g
    <2> QED
      BY <2>9, Zenon DEF f
  <1> QED
    BY <1>2, <1>3

LEMMA ReadsSame ==
  ASSUME NEW r, NEW s, NEW M, NEW N, NEW a \in Nat, NEW b \in Nat, Reads(r, s, M, a, b),
         \A k \in a + 1 .. b : N[k] = M[k]
  PROVE  Reads(r, s, N, a, b)
  <1>1. CASE r.at = "header_len"
    <2>1. Carries(s, M, a, b)
      BY <1>1 DEF Reads
    <2> QED
      BY <1>1, <2>1, CarriesSame, Zenon DEF Reads
  <1>2. CASE r.at # "header_len"
    <2>1. /\ r.at \in {"header", "body_len", "body"} /\ Knows(r, M, a, b)
          /\ CarriesBehind(ToTake(r.at, M[a + 1]), s, M, a + 1, b)
      BY <1>2 DEF Reads
    <2>2. N[a + 1] = M[a + 1] /\ \A k \in (a + 1) + 1 .. b : N[k] = M[k]
      BY <2>1 DEF Knows
    <2>3. Knows(r, N, a, b)
      BY <2>1, <2>2, Zenon DEF Knows
    <2>4. PICK z \in Seq(Units) : s = ToTake(r.at, M[a + 1]) \o z /\ Carries(z, M, a + 1, b)
      BY <2>1, Zenon DEF CarriesBehind
    <2>5. Carries(z, N, a + 1, b)
      BY <2>2, <2>4, CarriesSame, Zenon
    <2>6. CarriesBehind(ToTake(r.at, N[a + 1]), s, N, a + 1, b)
      BY <2>2, <2>4, <2>5, Zenon DEF CarriesBehind
    <2> QED
      BY <2>1, <2>3, <2>6, Zenon DEF Reads
  <1> QED
    BY <1>1, <1>2

(* Bytes that arrive change nothing. *)
LEMMA ReadsRead ==
  ASSUME NEW r, NEW q, NEW s, NEW M, NEW a, NEW b, Reads(r, s, M, a, b),
         q.at = r.at, q.len = r.len, q.header = r.header
  PROVE  Reads(q, s, M, a, b)
  BY Zenon DEF Reads, Knows

LEMMA OneBefore ==
  ASSUME NEW u \in Units, NEW s \in Seq(Units)
  PROVE  Head(<<u>> \o s) = u /\ Tail(<<u>> \o s) = s
  <1>1. <<u>> \in Seq(Units) /\ <<u>> # <<>> /\ Head(<<u>>) = u /\ Tail(<<u>>) = <<>> /\ <<>> \o s = s
    OBVIOUS
  <1>2. Head(<<u>> \o s) = Head(<<u>>) /\ Tail(<<u>> \o s) = Tail(<<u>>) \o s
    BY <1>1, HeadTailConcat
  <1> QED
    BY <1>1, <1>2, Zenon

LEMMA ReadsLength ==
  ASSUME NEW r, NEW q, NEW s \in Seq(Units), s # <<>>, NEW M, NEW a \in Nat, NEW b \in Nat, a <= b,
         Reads(r, s, M, a, b), r.at \in {"header_len", "body_len"},
         q.at = (IF r.at = "header_len" THEN "header" ELSE "body"),
         q.header = r.header, q.len = Head(s).len
  PROVE  Reads(q, Tail(s), M, a, b)
  <1> DEFINE m == M[a + 1]
             L(p) == Length(Bytes(p))
  <1>1. /\ Knows(r, M, a, b) \/ (r.at = "header_len" /\ a < b /\ m \in MessageParts)
        /\ CarriesBehind(ToTake(r.at, m), s, M, a + 1, b)
    <2>1. CASE r.at = "header_len"
      <3>1. Carries(s, M, a, b)
        BY <2>1 DEF Reads
      <3>2. a # b
        BY <3>1, CarriesNone
      <3>3. a < b
        BY <3>2
      <3> QED
        BY <2>1, <3>1, <3>3, CarriesNext DEF Wire
    <2>2. CASE r.at = "body_len"
      BY <2>2, Zenon DEF Reads
    <2> QED
      BY <2>1, <2>2
  <1>2. a < b /\ m \in MessageParts
    BY <1>1 DEF Knows
  <1> DEFINE p == IF r.at = "header_len" THEN m.head ELSE m.body
  <1>3. p \in Seq(Fields) /\ L(p) \in Units /\ ToTake(q.at, m) \in Seq(Units)
        /\ ToTake(r.at, m) = <<L(p)>> \o ToTake(q.at, m)
    <2>1. CASE r.at = "header_len"
      BY <1>2, <2>1, ToTakeType, FieldsBytes DEF Units
    <2>2. CASE r.at = "body_len"
      BY <1>2, <2>2, ToTakeType, FieldsBytes DEF Units
    <2> QED
      BY <2>1, <2>2
  <1>4. PICK z \in Seq(Units) : s = ToTake(r.at, m) \o z /\ Carries(z, M, a + 1, b)
    BY <1>1, Zenon DEF CarriesBehind
  <1> DEFINE t == ToTake(q.at, m)
             u == L(p)
  <1> HIDE DEF t, u, p
  <1>5. t \o z \in Seq(Units) /\ s = <<u>> \o (t \o z)
    <2>1. <<u>> \in Seq(Units) /\ t \in Seq(Units)
      BY <1>3, BytesOne DEF t, u
    <2>2. (<<u>> \o t) \o z = <<u>> \o (t \o z)
      <3>1. Associates(<<u>>, t, z)
        BY <1>4, <2>1, UnitsAssociate, Zenon
      <3> QED
        BY <3>1, Zenon DEF Associates
    <2>3. t \o z \in Seq(Units)
      BY <1>4, <2>1, BytesConcat, Zenon
    <2>4. s = (<<u>> \o t) \o z
      BY <1>3, <1>4, Zenon DEF t, u
    <2> QED
      BY <2>2, <2>3, <2>4, Zenon
  <1>6. Head(s) = u /\ Tail(s) = t \o z
    BY <1>3, <1>5, OneBefore, Zenon DEF u
  <1>7. CarriesBehind(t, Tail(s), M, a + 1, b)
    BY <1>4, <1>6, Zenon DEF CarriesBehind
  <1>8. q.len = Bytes(p)
    BY <1>6, LengthType, Zenon DEF u
  <1>9. Knows(q, M, a, b) /\ q.at \in {"header", "body"}
    BY <1>1, <1>2, <1>8 DEF Knows, p
  <1> QED
    BY <1>7, <1>9 DEF Reads, t

(* The part of a message that a reader waits for, and what comes behind it. *)
AtHand(at, m) == IF at = "header" THEN m.head ELSE m.body
Behind(at, m) == IF at = "header" THEN ToTake("body_len", m) ELSE <<>>

(* The whole of a header or of a body is there, and taken as it was. *)
LEMMA ReadsMessage ==
  ASSUME NEW r, IsReader(r), NEW rest \in Seq(Units), NEW M, NEW a \in Nat, NEW b \in Nat,
         Reads(r, Flow(r, rest), M, a, b), r.at \in {"header", "body"}, Enough(r),
         NEW p, p = AtHand(r.at, M[a + 1]), NEW t, t = Behind(r.at, M[a + 1])
  PROVE  /\ a < b /\ M[a + 1] \in MessageParts
         /\ ParsesWithin(r.buf, r.len) /\ Taken(r.buf, r.len) = p
         /\ Left(r.buf, r.len) \in Seq(Units)
         /\ CarriesBehind(t, Left(r.buf, r.len) \o rest, M, a + 1, b)
  <1> DEFINE m == M[a + 1]
             b0 == r.buf
             n == r.len
  <1>1. /\ Knows(r, M, a, b)
        /\ CarriesBehind(ToTake(r.at, m), b0 \o rest, M, a + 1, b)
    BY Zenon DEF Reads, Flow
  <1>2. a < b /\ m \in MessageParts /\ n = Bytes(p)
    BY <1>1 DEF Knows, AtHand
  <1>3. p \in Seq(Fields) /\ p \in Seq(Units) /\ t \in Seq(Units)
    <2>1. <<>> \in Seq(Units)
      OBVIOUS
    <2> QED
      BY <1>2, <2>1, ToTakeType DEF AtHand, Behind
  <1>4. ToTake(r.at, m) = p \o t
    <2>1. CASE r.at = "header"
      BY <1>2, <2>1, ToTakeType, Zenon DEF AtHand, Behind
    <2>2. CASE r.at = "body"
      <3>1. p \o <<>> = p
        BY <1>3
      <3>2. p = m.body /\ t = <<>>
        BY <2>2 DEF AtHand, Behind
      <3> QED
        BY <1>2, <2>2, <3>1, <3>2, ToTakeType, Zenon
    <2> QED
      BY <2>1, <2>2
  <1>5. PICK z \in Seq(Units) : b0 \o rest = ToTake(r.at, m) \o z /\ Carries(z, M, a + 1, b)
    BY <1>1, Zenon DEF CarriesBehind
  <1> DEFINE y == t \o z
  <1>6. b0 \o rest = p \o y /\ y \in Seq(Units)
    <2>1. (p \o t) \o z = p \o (t \o z)
      <3>1. Associates(p, t, z)
        BY <1>3, <1>5, UnitsAssociate, Zenon
      <3> QED
        BY <3>1, Zenon DEF Associates
    <2>2. t \o z \in Seq(Units)
      BY <1>3, <1>5, BytesConcat, Zenon
    <2> QED
      BY <1>4, <1>5, <2>1, <2>2, Zenon
  <1>7. b0 \in Seq(Units) /\ Bytes(b0) >= n
    BY DEF IsReader, Enough
  <1> HIDE DEF b0, n, m
  <1>8. /\ ParsesWithin(b0, n) /\ Taken(b0, n) = p
        /\ Left(b0, n) \in Seq(Units) /\ Left(b0, n) \o rest = y
    <2> HIDE DEF y
    <2>1. TakesAll(b0, rest, p, y, n)
      BY <1>2, <1>3, <1>6, <1>7, TakenExact, Zenon
    <2> QED
      BY <2>1, Zenon DEF TakesAll
  <1>9. CarriesBehind(t, Left(b0, n) \o rest, M, a + 1, b)
    BY <1>5, <1>8, Zenon DEF CarriesBehind
  <1> QED
    BY <1>2, <1>8, <1>9, Zenon DEF b0, n, m

LEMMA ReadsHeader ==
  ASSUME NEW r, IsReader(r), NEW rest \in Seq(Units), NEW M, NEW a \in Nat, NEW b \in Nat,
         Reads(r, Flow(r, rest), M, a, b), r.at = "header", Enough(r), NEW q, q = AfterHeader(r)
  PROVE  /\ a < b /\ M[a + 1] \in MessageParts
         /\ ParsesWithin(r.buf, r.len) /\ HeaderIn(r) = ParseHeader(M[a + 1].head)
         /\ Reads(q, Flow(q, rest), M, a, b)
  <1> DEFINE m == M[a + 1]
             t == ToTake("body_len", m)
  <1>1. /\ a < b /\ m \in MessageParts
        /\ ParsesWithin(r.buf, r.len) /\ Taken(r.buf, r.len) = m.head
        /\ CarriesBehind(t, Left(r.buf, r.len) \o rest, M, a + 1, b)
    <2>1. r.at \in {"header", "body"} /\ m.head = AtHand(r.at, m) /\ t = Behind(r.at, m)
      BY DEF AtHand, Behind
    <2> QED
      BY <2>1, ReadsMessage
  <1>2. HeaderIn(r) = ParseHeader(m.head)
    BY <1>1, Zenon DEF HeaderIn
  <1>3. q.at = "body_len" /\ q.header = HeaderIn(r) /\ q.buf = Left(r.buf, r.len)
    BY <1>1, HeaderStep
  <1>4. Knows(q, M, a, b)
    BY <1>1, <1>2, <1>3 DEF Knows
  <1>5. CarriesBehind(t, Flow(q, rest), M, a + 1, b)
    BY <1>1, <1>3, Zenon DEF Flow
  <1>6. Reads(q, Flow(q, rest), M, a, b)
    BY <1>3, <1>4, <1>5 DEF Reads
  <1> QED
    BY <1>1, <1>2, <1>6

LEMMA ReadsBody ==
  ASSUME NEW r, IsReader(r), NEW rest \in Seq(Units), NEW M, NEW a \in Nat, NEW b \in Nat,
         Reads(r, Flow(r, rest), M, a, b), r.at = "body", Enough(r), NEW q, q = AfterBody(r)
  PROVE  /\ a < b /\ M[a + 1] \in MessageParts
         /\ ParsesWithin(r.buf, r.len) /\ Taken(r.buf, r.len) = M[a + 1].body
         /\ r.header = ParseHeader(M[a + 1].head)
         /\ Reads(q, Flow(q, rest), M, a + 1, b)
  <1> DEFINE m == M[a + 1]
             y == Left(r.buf, r.len) \o rest
  <1>1. /\ a < b /\ m \in MessageParts
        /\ ParsesWithin(r.buf, r.len) /\ Taken(r.buf, r.len) = m.body
        /\ Left(r.buf, r.len) \in Seq(Units)
        /\ CarriesBehind(<<>>, y, M, a + 1, b)
    <2>1. r.at \in {"header", "body"} /\ m.body = AtHand(r.at, m) /\ <<>> = Behind(r.at, m)
      BY DEF AtHand, Behind
    <2> QED
      BY <2>1, ReadsMessage
  <1>2. Carries(y, M, a + 1, b)
    <2>1. PICK z \in Seq(Units) : y = <<>> \o z /\ Carries(z, M, a + 1, b)
      BY <1>1, Zenon DEF CarriesBehind
    <2>2. <<>> \o z = z
      OBVIOUS
    <2> QED
      BY <2>1, <2>2, Zenon
  <1>3. q.at = "header_len" /\ q.buf = Left(r.buf, r.len)
    BY BodyStep
  <1>4. Reads(q, Flow(q, rest), M, a + 1, b)
    BY <1>2, <1>3, Zenon DEF Reads, Flow
  <1>5. r.header = ParseHeader(m.head)
    <2>1. Knows(r, M, a, b)
      BY Zenon DEF Reads
    <2> QED
      BY <2>1 DEF Knows
  <1> QED
    BY <1>1, <1>4, <1>5

-----------------------------------------------------------------------------
(***************************************************************************)
(* The conversation: requests and responses by the number of their call.   *)
(***************************************************************************)

Sent    == Len(made) - Len(tasks)
FirstId == request_id_ - Sent

Reply(c) == <<Prefix(c.method)>> \o c.message

HeaderFrom(b, new, c, id) ==
  [magic |-> b.magic, version |-> b.version, message_type |-> REQUEST, request_id |-> id,
   service_name |-> <<ServiceName>>, method_name |-> << <<c.method>> >>, unknown |-> new]

HeaderSent(c, id) == HeaderFrom(build, NewFields, c, id)

HeaderBack(id) ==
  [magic |-> MAGIC_NUM, version |-> VERSION, message_type |-> RESPONSE, request_id |-> id,
   service_name |-> <<>>, method_name |-> <<>>, unknown |-> <<>>]

EchoOf(t) == [message |-> t, unknown |-> <<>>]

RequestParts(c, id) ==
  [head |-> SerializeHeader(HeaderSent(c, id)), body |-> SerializeRequest(EchoOf(c.message))]

ResponseParts(c, id) ==
  [head |-> SerializeHeader(HeaderBack(id)), body |-> SerializeResponse(EchoOf(Reply(c)))]

Requests  == [k \in 1 .. Sent |-> RequestParts(made[k], FirstId + k - 1)]
Responses == [k \in 1 .. Sent |-> ResponseParts(made[k], FirstId + k - 1)]

(* Calls that the server serves. *)
Served(c) ==
  /\ build.magic = MAGIC_NUM /\ build.version = VERSION
  /\ ServiceName \in service_registry_
  /\ c.method \in Range(EchoMethods)

LEMMA NoFieldsFound == ASSUME NEW tag PROVE Found(<<>>, tag) = <<>>
  <1>1. <<>> \in Seq(Fields) /\ Nowhere(<<>>, tag)
    BY DEF Nowhere
  <1> QED
    BY <1>1, FoundNowhere

(* The field that later protos add is not one that the server knows. *)
LEMMA NewFieldsUnknown == ASSUME CallTypes PROVE NoneKnown(NewFields) /\ NewFields \in Seq(Fields)
  <1>1. CASE NewFields = <<>>
    BY <1>1, NoFieldsFound DEF NoneKnown
  <1>2. CASE NewFields # <<>>
    <2> DEFINE f == Field(VarintTag(7), 1)
    <2>1. NewFields = <<f>>
      BY <1>2 DEF NewFields
    <2>2. f \in Fields /\ f.tag = 56
      <3>1. 7 \in Nat \ {0} /\ 1 \in Nat /\ 8 * 7 = 56
        OBVIOUS
      <3> QED
        BY <3>1, VarintField
    <2> HIDE DEF f
    <2> DEFINE s == <<f>>
    <2>3. s \in Seq(Fields) /\ Len(s) = 1 /\ s[1] = f
      BY <2>2
    <2> HIDE DEF s
    <2>4. ASSUME NEW tag \in {8, 16, 32, 42, 50} PROVE Nowhere(s, tag)
      BY <2>2, <2>3 DEF Nowhere
    <2>5. \A tag \in {8, 16, 32, 42, 50} : Found(s, tag) = <<>>
      BY <2>3, <2>4, FoundNowhere
    <2> QED
      BY <2>1, <2>3, <2>5, Zenon DEF NoneKnown, s
  <1> QED
    BY <1>1, <1>2

(* h has these fields and no others. *)
HasFields(h, a, b, c, d, e, f, g) ==
  h = [magic |-> a, version |-> b, message_type |-> c, request_id |-> d,
       service_name |-> e, method_name |-> f, unknown |-> g]

LEMMA HeaderRecord ==
  ASSUME NEW a, NEW b, NEW c, NEW d, NEW e, NEW f, NEW g
  PROVE  /\ HasFields([NewHeader EXCEPT !.magic = a, !.version = b, !.message_type = c, !.request_id = d,
                          !.service_name = e, !.method_name = f, !.unknown = g], a, b, c, d, e, f, g)
         /\ HasFields([NewHeader EXCEPT !.magic = a, !.version = b, !.message_type = c, !.request_id = d],
                      a, b, c, d, <<>>, <<>>, <<>>)
  <1> DEFINE h0 == NewHeader
             h1 == [h0 EXCEPT !.magic = a]
             h2 == [h1 EXCEPT !.version = b]
             h3 == [h2 EXCEPT !.message_type = c]
             h4 == [h3 EXCEPT !.request_id = d]
             h5 == [h4 EXCEPT !.service_name = e]
             h6 == [h5 EXCEPT !.method_name = f]
             h7 == [h6 EXCEPT !.unknown = g]
  <1>1. h1 = [magic |-> a, version |-> 0, message_type |-> 0, request_id |-> 0, service_name |-> <<>>, method_name |-> <<>>, unknown |-> <<>>]
    BY DEF NewHeader
  <1>2. h2 = [magic |-> a, version |-> b, message_type |-> 0, request_id |-> 0, service_name |-> <<>>, method_name |-> <<>>, unknown |-> <<>>]
    <2> HIDE DEF h1
    <2> QED
      BY <1>1
  <1>3. h3 = [magic |-> a, version |-> b, message_type |-> c, request_id |-> 0, service_name |-> <<>>, method_name |-> <<>>, unknown |-> <<>>]
    <2> HIDE DEF h2
    <2> QED
      BY <1>2
  <1>4. h4 = [magic |-> a, version |-> b, message_type |-> c, request_id |-> d, service_name |-> <<>>, method_name |-> <<>>, unknown |-> <<>>]
    <2> HIDE DEF h3
    <2> QED
      BY <1>3
  <1>5. h5 = [magic |-> a, version |-> b, message_type |-> c, request_id |-> d, service_name |-> e, method_name |-> <<>>, unknown |-> <<>>]
    <2> HIDE DEF h4
    <2> QED
      BY <1>4
  <1>6. h6 = [magic |-> a, version |-> b, message_type |-> c, request_id |-> d, service_name |-> e, method_name |-> f, unknown |-> <<>>]
    <2> HIDE DEF h5
    <2> QED
      BY <1>5
  <1>7. h7 = [magic |-> a, version |-> b, message_type |-> c, request_id |-> d, service_name |-> e, method_name |-> f, unknown |-> g]
    <2> HIDE DEF h6
    <2> QED
      BY <1>6
  <1> QED
    BY <1>4, <1>7, Zenon DEF HasFields

LEMMA RequestHeaderIs ==
  ASSUME NEW c
  PROVE  RequestHeader(c) = HeaderSent(c, request_id_)
  <1>1. HasFields(RequestHeader(c), build.magic, build.version, REQUEST, request_id_,
                  <<ServiceName>>, << <<c.method>> >>, NewFields)
    BY HeaderRecord, Zenon DEF RequestHeader
  <1> QED
    BY <1>1, Zenon DEF HasFields, HeaderSent, HeaderFrom

LEMMA ResponseHeaderIs ==
  ASSUME NEW h
  PROVE  ResponseHeader(h) = HeaderBack(h.request_id)
  <1>1. HasFields(ResponseHeader(h), MAGIC_NUM, VERSION, RESPONSE, h.request_id, <<>>, <<>>, <<>>)
    BY HeaderRecord, Zenon DEF ResponseHeader
  <1> QED
    BY <1>1, Zenon DEF HasFields, HeaderBack

LEMMA HeaderSentType ==
  ASSUME CallTypes, NEW c \in AllCalls, NEW id \in Nat
  PROVE  IsHeader(HeaderSent(c, id)) /\ NoneKnown(HeaderSent(c, id).unknown)
  <1> DEFINE h == HeaderSent(c, id)
  <1>1. /\ h.magic = build.magic /\ h.version = build.version /\ h.message_type = 1 /\ h.request_id = id
        /\ h.service_name = <<ServiceName>> /\ h.method_name = << <<c.method>> >> /\ h.unknown = NewFields
    BY DEF HeaderSent, HeaderFrom, REQUEST
  <1> HIDE DEF h
  <1>2. build.magic \in Nat /\ build.version \in Nat
    BY EchoAssumption DEF CallTypes
  <1>3. NameOf(<<ServiceName>>) \in Texts /\ NameOf(<< <<c.method>> >>) \in Texts
    BY KnownWords, CallType DEF NameOf
  <1>4. IsHeader(h)
    BY <1>1, <1>2, <1>3, NewFieldsUnknown DEF IsHeader
  <1>5. NoneKnown(h.unknown)
    BY <1>1, NewFieldsUnknown
  <1> QED
    BY <1>4, <1>5 DEF h

LEMMA HeaderBackType ==
  ASSUME NEW id \in Nat
  PROVE  IsHeader(HeaderBack(id)) /\ NoneKnown(HeaderBack(id).unknown)
  <1> DEFINE h == HeaderBack(id)
  <1>1. /\ h.magic \in Nat /\ h.version \in Nat /\ h.message_type \in Nat /\ h.request_id = id
        /\ h.service_name = <<>> /\ h.method_name = <<>> /\ h.unknown = <<>>
    BY DEF HeaderBack, MAGIC_NUM, VERSION, RESPONSE
  <1> HIDE DEF h
  <1>2. <<>> \in Seq(Fields) /\ NoneKnown(<<>>)
    BY NoFieldsFound DEF NoneKnown
  <1>3. IsHeader(h) /\ NoneKnown(h.unknown)
    BY <1>1, <1>2 DEF IsHeader
  <1> QED
    BY <1>3 DEF h

LEMMA ReplyType ==
  ASSUME NEW c \in AllCalls
  PROVE  Reply(c) \in Texts /\ c.message \in Texts
  <1>1. Prefix(c.method) \in {"[Echo] ", "[Echo1] "}
    BY DEF Prefix
  <1>2. <<Prefix(c.method)>> \in Texts
    BY <1>1, KnownWords
  <1> QED
    BY <1>2, CallType, TextConcat, Zenon DEF Reply

LEMMA RequestPartsType ==
  ASSUME CallTypes, NEW c \in AllCalls, NEW id \in Nat
  PROVE  /\ RequestParts(c, id) \in MessageParts /\ ResponseParts(c, id) \in MessageParts
  <1>1. SerializeHeader(HeaderSent(c, id)) \in Seq(Fields) /\ SerializeHeader(HeaderBack(id)) \in Seq(Fields)
    BY HeaderSentType, HeaderBackType, HeaderSizes
  <1>2. SerializeRequest(EchoOf(c.message)) \in Seq(Fields) /\ SerializeResponse(EchoOf(Reply(c))) \in Seq(Fields)
    <2>1. IsEcho(EchoOf(c.message)) /\ IsEcho(EchoOf(Reply(c)))
      BY ReplyType, EchoIsEcho DEF EchoOf
    <2> QED
      BY <2>1, RequestSizes, ResponseSizes
  <1> QED
    BY <1>1, <1>2 DEF RequestParts, ResponseParts, MessageParts

(* The code writes a message in this order. *)
LEMMA FrameIsWire ==
  ASSUME NEW s \in Seq(Fields), NEW t \in Seq(Fields), NEW m, m = [head |-> s, body |-> t]
  PROVE  <<Length(Bytes(s))>> \o s \o <<Length(Bytes(t))>> \o t = Wire(m)
  <1> DEFINE L1 == <<Length(Bytes(s))>>
             L2 == <<Length(Bytes(t))>>
  <1>1. m \in MessageParts /\ m.head = s /\ m.body = t
    BY DEF MessageParts
  <1>2. L1 \in Seq(Units) /\ L2 \in Seq(Units) /\ s \in Seq(Units) /\ t \in Seq(Units)
    BY LengthUnit, FieldsAreUnits
  <1>3. Wire(m) = L1 \o (s \o (L2 \o t))
    <2>1. /\ Wire(m) = <<Length(Bytes(m.head))>> \o ToTake("header", m)
          /\ ToTake("header", m) = m.head \o ToTake("body_len", m)
          /\ ToTake("body_len", m) = <<Length(Bytes(m.body))>> \o ToTake("body", m)
          /\ ToTake("body", m) = m.body
      BY <1>1, ToTakeType, Zenon DEF Wire
    <2> QED
      BY <1>1, <2>1, Zenon
  <1> HIDE DEF L1, L2
  <1>4. s \o (L2 \o t) = (s \o L2) \o t
    <2>1. Associates(s, L2, t)
      BY <1>2, UnitsAssociate, Zenon
    <2> QED
      BY <2>1, Zenon DEF Associates
  <1>5. s \o L2 \in Seq(Units)
    BY <1>2, BytesConcat, Zenon
  <1>6. L1 \o ((s \o L2) \o t) = (L1 \o (s \o L2)) \o t
    <2>1. Associates(L1, s \o L2, t)
      BY <1>2, <1>5, UnitsAssociate, Zenon
    <2> QED
      BY <2>1, Zenon DEF Associates
  <1>7. L1 \o (s \o L2) = (L1 \o s) \o L2
    <2>1. Associates(L1, s, L2)
      BY <1>2, UnitsAssociate, Zenon
    <2> QED
      BY <2>1, Zenon DEF Associates
  <1>8. ((L1 \o s) \o L2) \o t = Wire(m)
    BY <1>3, <1>4, <1>6, <1>7, Zenon
  <1> QED
    BY <1>8, Zenon DEF L1, L2

LEMMA RequestIsWire ==
  ASSUME CallTypes, NEW c \in AllCalls
  PROVE  RequestFrame(RequestHeader(c), [NewEcho EXCEPT !.message = c.message]) = Wire(RequestParts(c, request_id_))
  <1> DEFINE h == HeaderSent(c, request_id_)
             m == EchoOf(c.message)
             s == SerializeHeader(h)
             t == SerializeRequest(m)
  <1>1. RequestHeader(c) = h /\ [NewEcho EXCEPT !.message = c.message] = m
    BY RequestHeaderIs, EchoRecord, Zenon DEF EchoOf
  <1>2. request_id_ \in Nat
    BY DEF CallTypes
  <1>3. IsHeader(h) /\ IsEcho(m)
    BY <1>2, HeaderSentType, ReplyType, EchoIsEcho DEF EchoOf
  <1> HIDE DEF h, m
  <1>4. s \in Seq(Fields) /\ HeaderByteSize(h) = Bytes(s) /\ t \in Seq(Fields) /\ RequestByteSize(m) = Bytes(t)
    BY <1>3, HeaderSizes, RequestSizes
  <1>5. RequestParts(c, request_id_) = [head |-> s, body |-> t]
    BY DEF RequestParts, h, m
  <1>6. RequestFrame(h, m) = <<Length(Bytes(s))>> \o s \o <<Length(Bytes(t))>> \o t
    BY <1>4, Zenon DEF RequestFrame
  <1> HIDE DEF s, t
  <1>7. <<Length(Bytes(s))>> \o s \o <<Length(Bytes(t))>> \o t = Wire(RequestParts(c, request_id_))
    BY <1>4, <1>5, FrameIsWire, Zenon
  <1> QED
    BY <1>1, <1>6, <1>7, Zenon

LEMMA ResponseIsWire ==
  ASSUME CallTypes, NEW c \in AllCalls, NEW id \in Nat
  PROVE  ResponseFrame(HeaderBack(id), EchoOf(Reply(c))) = Wire(ResponseParts(c, id))
  <1> DEFINE h == HeaderBack(id)
             m == EchoOf(Reply(c))
             s == SerializeHeader(h)
             t == SerializeResponse(m)
  <1>3. IsHeader(h) /\ IsEcho(m)
    BY HeaderBackType, ReplyType, EchoIsEcho DEF EchoOf
  <1> HIDE DEF h, m
  <1>4. s \in Seq(Fields) /\ HeaderByteSize(h) = Bytes(s) /\ t \in Seq(Fields) /\ ResponseByteSize(m) = Bytes(t)
    BY <1>3, HeaderSizes, ResponseSizes
  <1>5. ResponseParts(c, id) = [head |-> s, body |-> t]
    BY DEF ResponseParts, h, m
  <1>6. ResponseFrame(h, m) = <<Length(Bytes(s))>> \o s \o <<Length(Bytes(t))>> \o t
    BY <1>4, Zenon DEF ResponseFrame
  <1> HIDE DEF s, t
  <1>7. <<Length(Bytes(s))>> \o s \o <<Length(Bytes(t))>> \o t = Wire(ResponseParts(c, id))
    BY <1>4, <1>5, FrameIsWire, Zenon
  <1> QED
    BY <1>6, <1>7, Zenon DEF h, m

LEMMA RequestParsed ==
  ASSUME CallTypes, NEW c \in AllCalls, NEW id \in Nat
  PROVE  LET g == ParseHeader(RequestParts(c, id).head)
         IN  /\ g.magic = build.magic /\ g.version = build.version /\ g.request_id = id
             /\ NameOf(g.service_name) = ServiceName /\ NameOf(g.method_name) = <<c.method>>
             /\ ParseRequest(RequestParts(c, id).body).message = c.message
  <1> DEFINE h == HeaderSent(c, id)
             g == ParseHeader(SerializeHeader(h))
  <1>1. /\ g.magic = h.magic /\ g.version = h.version /\ g.request_id = h.request_id
        /\ h.service_name # <<>> => NameOf(g.service_name) = NameOf(h.service_name)
        /\ h.method_name # <<>> => NameOf(g.method_name) = NameOf(h.method_name)
    BY HeaderSentType, HeaderParsed
  <1>2. /\ h.magic = build.magic /\ h.version = build.version /\ h.request_id = id
        /\ h.service_name = <<ServiceName>> /\ h.method_name = << <<c.method>> >>
    BY DEF HeaderSent, HeaderFrom
  <1>3. ASSUME NEW x PROVE NameOf(<<x>>) = x /\ <<x>> # <<>>
    BY DEF NameOf
  <1>4. /\ RequestParts(c, id).head = SerializeHeader(h)
        /\ RequestParts(c, id).body = SerializeRequest(EchoOf(c.message))
    BY DEF RequestParts
  <1>5. ParseRequest(SerializeRequest(EchoOf(c.message))).message = c.message
    BY ReplyType, EchoParsed DEF EchoOf
  <1> HIDE DEF h
  <1> QED
    BY <1>1, <1>2, <1>3, <1>4, <1>5, Zenon

LEMMA ResponseParsed ==
  ASSUME CallTypes, NEW c \in AllCalls, NEW id \in Nat
  PROVE  /\ ParseHeader(ResponseParts(c, id).head).request_id = id
         /\ ParseResponse(ResponseParts(c, id).body).message = Reply(c)
  <1> DEFINE h == HeaderBack(id)
             g == ParseHeader(SerializeHeader(h))
  <1>1. g.request_id = h.request_id
    BY HeaderBackType, HeaderParsed
  <1>2. h.request_id = id
    BY DEF HeaderBack
  <1>4. /\ ResponseParts(c, id).head = SerializeHeader(h)
        /\ ResponseParts(c, id).body = SerializeResponse(EchoOf(Reply(c)))
    BY DEF ResponseParts
  <1>5. ParseResponse(SerializeResponse(EchoOf(Reply(c)))).message = Reply(c)
    BY ReplyType, EchoParsed DEF EchoOf
  <1> HIDE DEF h
  <1> QED
    BY <1>1, <1>2, <1>4, <1>5, Zenon

(* The server serves a request if it gets past both of its checks. *)
LEMMA ChecksServe ==
  ASSUME CallTypes, NEW c \in AllCalls, NEW id \in Nat, NEW g, g = ParseHeader(RequestParts(c, id).head)
  PROVE  Served(c) <=> Acceptable(g) /\ Registered(g)
  <1>1. /\ g.magic = build.magic /\ g.version = build.version
        /\ NameOf(g.service_name) = ServiceName /\ NameOf(g.method_name) = <<c.method>>
    BY RequestParsed, Zenon
  <1>2. Range(EchoMethods) = {"Echo", "Echo1"}
    BY DEF Range, EchoMethods
  <1>3. FindMethodByName(<<c.method>>) # 0 <=> c.method \in {"Echo", "Echo1"}
    <2>1. c.method \in {"Echo", "Echo1"} <=> (<<c.method>> = <<"Echo">> \/ <<c.method>> = <<"Echo1">>)
      OBVIOUS
    <2> QED
      BY <2>1, FoundMethod
  <1> QED
    BY <1>1, <1>2, <1>3 DEF Served, Acceptable, Registered

(* The service's reply to a request that is served. *)
LEMMA ServiceReplies ==
  ASSUME CallTypes, NEW c \in AllCalls, Served(c), NEW request, request.message = c.message
  PROVE  CallMethod(FindMethodByName(<<c.method>>), request) = EchoOf(Reply(c))
  <1>1. c.method \in {"Echo", "Echo1"}
    BY DEF Served, Range, EchoMethods
  <1>2. CASE c.method = "Echo"
    <2>1. FindMethodByName(<<c.method>>) = 1
      BY <1>2, FoundMethod
    <2>2. CallMethod(1, request) = Echo(request)
      BY DEF CallMethod
    <2>3. Echo(request) = EchoOf(<<"[Echo] ">> \o c.message)
      BY EchoRecord, Zenon DEF Echo, EchoOf
    <2>4. Reply(c) = <<"[Echo] ">> \o c.message
      BY <1>2, Zenon DEF Reply, Prefix
    <2> QED
      BY <2>1, <2>2, <2>3, <2>4, Zenon
  <1>3. CASE c.method = "Echo1"
    <2>1. FindMethodByName(<<c.method>>) = 2
      BY <1>3, FoundMethod
    <2>2. CallMethod(2, request) = Echo1(request)
      BY DEF CallMethod
    <2>3. Echo1(request) = EchoOf(<<"[Echo1] ">> \o c.message)
      BY EchoRecord, Zenon DEF Echo1, EchoOf
    <2>4. Reply(c) = <<"[Echo1] ">> \o c.message
      <3>1. Prefix(c.method) = "[Echo1] "
        BY <1>3 DEF Prefix
      <3> QED
        BY <3>1, Zenon DEF Reply
    <2> QED
      BY <2>1, <2>2, <2>3, <2>4, Zenon
  <1> QED
    BY <1>1, <1>2, <1>3

(* Calls leave in the order in which they are made, each under the next id, *)
(* and those that are waited for are the last ones that have left.          *)
Order ==
  /\ answered \in Seq([call : Nat, text : Texts])
  /\ Sent \in Nat /\ FirstId \in Nat /\ Len(answered) <= Sent
  /\ \A i \in 1 .. Len(tasks) : tasks[i] = Sent + i
  /\ DOMAIN session_registry_ = FirstId + Len(answered) .. request_id_ - 1
  /\ \A i \in DOMAIN session_registry_ : session_registry_[i] = i - FirstId + 1

(* The server has replied to q requests.  Of the replies that the client    *)
(* has not yet read, the end may have been cut off.                         *)
Talk(q, cut) ==
  /\ Len(answered) <= q /\ q <= Sent
  /\ Reads(client, Flow(client, down \o cut), Responses, Len(answered), q)
  /\ \A k \in 1 .. q : Served(made[k])
  /\ server.at = "ended" => q < Sent /\ (null \/ ~Served(made[q + 1]))
  /\ server.at # "ended" =>
       /\ cut = <<>> /\ Reads(server, Flow(server, up), Requests, q, Sent)
       /\ server.at \in {"body_len", "body"} => Acceptable(server.header)

Talking == \E q \in Nat, cut \in Seq(Units) : Talk(q, cut)

LEMMA ConversationInit == ASSUME Init PROVE Order /\ Talking
  <1>1. /\ made = <<>> /\ tasks = <<>> /\ answered = <<>> /\ up = <<>> /\ down = <<>>
        /\ server = Reader /\ client = Reader /\ session_registry_ = [i \in {} |-> 0]
        /\ request_id_ \in Nat
    BY EchoAssumption DEF Init
  <1>2. Len(<<>>) = 0 /\ <<>> \o <<>> = <<>> /\ <<>> \in Seq(Units)
    OBVIOUS
  <1>3. Sent = 0 /\ FirstId = request_id_ /\ Len(answered) = 0
    BY <1>1, <1>2 DEF Sent, FirstId
  <1>4. Order
    <2>1. answered \in Seq([call : Nat, text : Texts])
      BY <1>1
    <2>2. DOMAIN session_registry_ = {} /\ FirstId + Len(answered) .. request_id_ - 1 = {}
      BY <1>1, <1>3
    <2> QED
      BY <1>1, <1>2, <1>3, <2>1, <2>2 DEF Order
  <1>5. Talk(0, <<>>)
    <2>1. Reader.at = "header_len" /\ Reader.buf = <<>>
      BY ReaderInit
    <2>2. Flow(client, down \o <<>>) = <<>> /\ Flow(server, up) = <<>>
      BY <1>1, <1>2, <2>1, Zenon DEF Flow
    <2>3. Carries(<<>>, Responses, 0, 0) /\ Carries(<<>>, Requests, 0, 0)
      BY CarriesNothing
    <2>4. Reads(client, Flow(client, down \o <<>>), Responses, 0, 0) /\ Reads(server, Flow(server, up), Requests, 0, 0)
      BY <1>1, <2>1, <2>2, <2>3, Zenon DEF Reads
    <2>5. server.at = "header_len"
      BY <1>1, <2>1
    <2> QED
      BY <1>3, <2>4, <2>5 DEF Talk
  <1> QED
    BY <1>2, <1>4, <1>5 DEF Talking

(* What these steps leave alone decides most of it. *)
Steady ==
  /\ UNCHANGED <<build, service_registry_, channelVars, answered>>
  /\ null => null'

LEMMA SteadyOrder ==
  ASSUME Steady, Order
  PROVE  /\ Order' /\ Sent' = Sent /\ FirstId' = FirstId /\ Requests' = Requests /\ Responses' = Responses
         /\ made' = made /\ answered' = answered
  <1>1. UNCHANGED <<build, service_registry_, made, tasks, request_id_, session_registry_, answered>>
    BY DEF Steady, channelVars
  <1>2. Sent' = Sent /\ FirstId' = FirstId
    BY <1>1 DEF Sent, FirstId
  <1>3. NewFields' = NewFields
    BY <1>1 DEF NewFields
  <1>4. Requests' = Requests /\ Responses' = Responses
    BY <1>1, <1>2, <1>3, Zenon DEF Requests, Responses, RequestParts, ResponseParts, HeaderSent, HeaderBack, EchoOf, Reply
  <1>5. Order'
    BY <1>1, <1>2 DEF Order
  <1> QED
    BY <1>1, <1>2, <1>4, <1>5

LEMMA SteadyServed ==
  ASSUME Steady, NEW c
  PROVE  Served(c)' <=> Served(c)
  BY DEF Steady, Served

LEMMA ServerTalks ==
  ASSUME Order, NEW q \in Nat, Talk(q, <<>>), Steady, UNCHANGED <<client, down>>,
         server'.at # "ended", Reads(server', Flow(server', up'), Requests, q, Sent),
         server'.at \in {"body_len", "body"} => Acceptable(server'.header)
  PROVE  Talk(q, <<>>)'
  <1>1. /\ Sent' = Sent /\ Requests' = Requests /\ Responses' = Responses
        /\ made' = made /\ answered' = answered
    BY SteadyOrder
  <1>2. Flow(client, down \o <<>>)' = Flow(client, down \o <<>>)
    BY DEF Flow
  <1>3. \A k \in 1 .. q : Served(made[k])'
    <2>1. ASSUME NEW k \in 1 .. q PROVE Served(made[k])'
      <3>1. Served(made[k])
        BY DEF Talk
      <3> QED
        BY <3>1, <1>1 DEF Steady, Served
    <2> QED
      BY <2>1
  <1>4. Reads(client, Flow(client, down \o <<>>), Responses, Len(answered), q)'
    <2>1. Reads(client, Flow(client, down \o <<>>), Responses, Len(answered), q)
      BY DEF Talk
    <2> QED
      BY <1>1, <1>2, <2>1, Zenon
  <1>5. Reads(server, Flow(server, up), Requests, q, Sent)'
    BY <1>1, Zenon
  <1>6. Len(answered)' <= q /\ q <= Sent'
    BY <1>1 DEF Talk
  <1> QED
    BY <1>3, <1>4, <1>5, <1>6, Zenon DEF Talk

LEMMA ClientTalks ==
  ASSUME Order, NEW q \in Nat, NEW cut \in Seq(Units), Talk(q, cut), Steady, UNCHANGED <<server, up>>,
         Reads(client', Flow(client', down' \o cut), Responses, Len(answered), q)
  PROVE  Talk(q, cut)'
  <1>1. /\ Sent' = Sent /\ Requests' = Requests /\ Responses' = Responses
        /\ made' = made /\ answered' = answered
    BY SteadyOrder
  <1>2. ASSUME NEW k PROVE Served(made[k])' <=> Served(made[k])
    BY <1>1 DEF Steady, Served
  <1>3. \A k \in 1 .. q : Served(made[k])'
    BY <1>2 DEF Talk
  <1>4. server'.at = "ended" => q < Sent' /\ (null' \/ ~Served(made[q + 1])')
    BY <1>1, <1>2 DEF Talk, Steady
  <1>5. Reads(client, Flow(client, down \o cut), Responses, Len(answered), q)'
    BY <1>1, Zenon
  <1>6. Flow(server, up)' = Flow(server, up)
    BY DEF Flow
  <1>7. server'.at # "ended" =>
          /\ cut = <<>> /\ Reads(server, Flow(server, up), Requests, q, Sent)'
          /\ server'.at \in {"body_len", "body"} => Acceptable(server'.header)
    BY <1>1, <1>6, Zenon DEF Talk
  <1>8. Len(answered)' <= q /\ q <= Sent'
    BY <1>1 DEF Talk
  <1> QED
    BY <1>3, <1>4, <1>5, <1>7, <1>8, Zenon DEF Talk

LEMMA FlowType ==
  ASSUME TypeInv, NEW cut \in Seq(Units)
  PROVE  /\ down \o cut \in Seq(Units) /\ Flow(client, down \o cut) \in Seq(Units)
         /\ down \o <<>> = down /\ Flow(server, up) \in Seq(Units)
  <1>1. down \in Seq(Units) /\ up \in Seq(Units) /\ client.buf \in Seq(Units) /\ server.buf \in Seq(Units)
    BY DEF TypeInv, StreamTypes, IsReader
  <1>2. down \o cut \in Seq(Units)
    BY <1>1, BytesConcat, Zenon
  <1>3. client.buf \o (down \o cut) \in Seq(Units) /\ server.buf \o up \in Seq(Units)
    BY <1>1, <1>2, BytesConcat, Zenon
  <1> QED
    BY <1>1, <1>2, <1>3 DEF Flow

LEMMA MadeType ==
  ASSUME TypeInv, Order, NEW k \in 1 .. Sent
  PROVE  /\ made[k] \in AllCalls /\ FirstId + k - 1 \in Nat
         /\ Requests[k] = RequestParts(made[k], FirstId + k - 1) /\ Requests[k] \in MessageParts
         /\ Responses[k] = ResponseParts(made[k], FirstId + k - 1) /\ Responses[k] \in MessageParts
  <1>1. made \in Seq(AllCalls) /\ Len(tasks) \in Nat /\ FirstId \in Nat /\ Sent \in Nat /\ CallTypes
    BY DEF TypeInv, CallTypes, Order
  <1>2. k \in 1 .. Len(made)
    BY <1>1 DEF Sent
  <1>3. made[k] \in AllCalls /\ FirstId + k - 1 \in Nat
    BY <1>1, <1>2
  <1>4. Requests[k] = RequestParts(made[k], FirstId + k - 1) /\ Responses[k] = ResponseParts(made[k], FirstId + k - 1)
    BY Zenon DEF Requests, Responses
  <1> QED
    BY <1>1, <1>3, <1>4, RequestPartsType

LEMMA ServerReadsOn ==
  ASSUME TypeInv, ServerRead
  PROVE  /\ server'.at = server.at /\ server'.len = server.len /\ server'.header = server.header
         /\ Flow(server', up') = Flow(server, up)
  <1>1. PICK g \in Seq(Units) : /\ Brings(server, g, server')
                                /\ up' \in Seq(Units) /\ up = g \o up'
    BY ServerReads
  <1>2. IsReader(server)
    BY DEF TypeInv, StreamTypes
  <1>3. /\ IsReader(server') /\ server'.at = server.at /\ server'.len = server.len
        /\ server'.header = server.header /\ Flow(server', up') = Flow(server, g \o up')
    BY <1>1, <1>2, ReadStep
  <1> QED
    BY <1>1, <1>3, Zenon

LEMMA ClientReadsOn ==
  ASSUME TypeInv, ClientRead, NEW cut \in Seq(Units)
  PROVE  /\ client'.at = client.at /\ client'.len = client.len /\ client'.header = client.header
         /\ Flow(client', down' \o cut) = Flow(client, down \o cut)
  <1>1. PICK g \in Seq(Units) : /\ Brings(client, g, client')
                                /\ down' \in Seq(Units) /\ down = g \o down'
    BY ClientReads
  <1>2. IsReader(client)
    BY DEF TypeInv, StreamTypes
  <1>3. /\ client'.at = client.at /\ client'.len = client.len /\ client'.header = client.header
        /\ \A z \in Seq(Units) : Flow(client', z) = Flow(client, g \o z)
    BY <1>1, <1>2, ReadStep
  <1>4. down' \o cut \in Seq(Units) /\ (g \o down') \o cut = g \o (down' \o cut)
    <2>1. down' \o cut \in Seq(Units)
      BY <1>1, BytesConcat, Zenon
    <2>2. (g \o down') \o cut = g \o (down' \o cut)
      BY <1>1, UnitsAssociative, Zenon
    <2> QED
      BY <2>1, <2>2, Zenon
  <1>5. Flow(client', down' \o cut) = Flow(client, g \o (down' \o cut))
    BY <1>3, <1>4, Zenon
  <1> QED
    BY <1>1, <1>3, <1>4, <1>5, Zenon

LEMMA TalkRead ==
  ASSUME TypeInv, Order, NEW q \in Nat, NEW cut \in Seq(Units), Talk(q, cut), ServerRead \/ ClientRead
  PROVE  Talk(q, cut)'
  <1>1. CASE ServerRead
    <2>1. server.at # "ended" /\ UNCHANGED <<client, down>> /\ Steady
      BY <1>1 DEF ServerRead, Steady
    <2>2. /\ server'.at = server.at /\ server'.len = server.len /\ server'.header = server.header
          /\ Flow(server', up') = Flow(server, up)
      BY <1>1, ServerReadsOn
    <2>3. cut = <<>> /\ Reads(server, Flow(server, up), Requests, q, Sent)
          /\ (server.at \in {"body_len", "body"} => Acceptable(server.header))
      BY <2>1 DEF Talk
    <2>4. Reads(server', Flow(server', up'), Requests, q, Sent)
      BY <2>2, <2>3, ReadsRead, Zenon
    <2>5. server'.at # "ended" /\ (server'.at \in {"body_len", "body"} => Acceptable(server'.header))
      BY <2>1, <2>2, <2>3, Zenon
    <2>6. Talk(q, <<>>)'
      BY <2>1, <2>3, <2>4, <2>5, ServerTalks
    <2> QED
      BY <2>3, <2>6
  <1>2. CASE ClientRead
    <2>1. UNCHANGED <<server, up>> /\ Steady
      BY <1>2 DEF ClientRead, Steady
    <2>2. /\ client'.at = client.at /\ client'.len = client.len /\ client'.header = client.header
          /\ Flow(client', down' \o cut) = Flow(client, down \o cut)
      BY <1>2, ClientReadsOn
    <2>3. Reads(client, Flow(client, down \o cut), Responses, Len(answered), q)
      BY DEF Talk
    <2>4. Reads(client', Flow(client', down' \o cut), Responses, Len(answered), q)
      BY <2>2, <2>3, ReadsRead, Zenon
    <2> QED
      BY <2>1, <2>4, ClientTalks
  <1> QED
    BY <1>1, <1>2

LEMMA TalkLength ==
  ASSUME TypeInv, Order, NEW q \in Nat, NEW cut \in Seq(Units), Talk(q, cut),
         ServerLength \/ ServerTarget \/ ClientLength
  PROVE  Talk(q, cut)'
  <1>0. /\ IsReader(server) /\ IsReader(client) /\ up \in Seq(Units)
        /\ q <= Sent /\ Sent \in Nat /\ Len(answered) \in Nat /\ Len(answered) <= q
    BY DEF TypeInv, StreamTypes, Talk, Order
  <1>1. CASE ServerLength \/ ServerTarget
    <2>1. PICK x \in {"header_len", "body_len"} :
            /\ AtLength(server, x) /\ server' = AfterLength(server, IF x = "header_len" THEN "header" ELSE "body")
            /\ UNCHANGED <<up, client, down>> /\ Steady
      BY <1>1 DEF ServerLength, ServerTarget, Steady
    <2> DEFINE y == IF x = "header_len" THEN "header" ELSE "body"
               s == Flow(server, up)
    <2>2. x \in BeforeLength /\ y \in BeforeMessage /\ server.at = x /\ server.at # "ended"
      BY <2>1 DEF BeforeLength, BeforeMessage, AtLength
    <2>3. /\ server'.at = y /\ server'.header = server.header /\ s \in Seq(Units) /\ s # <<>>
          /\ server'.len = Head(s).len /\ Flow(server', up) = Tail(s)
      BY <1>0, <2>1, <2>2, LengthStep
    <2>4. cut = <<>> /\ Reads(server, s, Requests, q, Sent)
          /\ (server.at \in {"body_len", "body"} => Acceptable(server.header))
      BY <2>2 DEF Talk
    <2> HIDE DEF s
    <2>5. Reads(server', Tail(s), Requests, q, Sent)
      BY <1>0, <2>2, <2>3, <2>4, ReadsLength
    <2>6. Reads(server', Flow(server', up'), Requests, q, Sent)
      BY <2>1, <2>3, <2>5
    <2>7. server'.at # "ended" /\ (server'.at \in {"body_len", "body"} => Acceptable(server'.header))
      BY <2>2, <2>3, <2>4
    <2>8. Talk(q, <<>>)'
      BY <2>1, <2>4, <2>6, <2>7, ServerTalks
    <2> QED
      BY <2>4, <2>8
  <1>2. CASE ClientLength
    <2>1. PICK x \in {"header_len", "body_len"} :
            /\ AtLength(client, x) /\ client' = AfterLength(client, IF x = "header_len" THEN "header" ELSE "body")
            /\ UNCHANGED <<up, server, down>> /\ Steady
      BY <1>2 DEF ClientLength, Steady
    <2> DEFINE y == IF x = "header_len" THEN "header" ELSE "body"
               d == down \o cut
               s == Flow(client, d)
    <2>2. x \in BeforeLength /\ y \in BeforeMessage /\ client.at = x /\ d \in Seq(Units)
      BY <2>1, FlowType DEF BeforeLength, BeforeMessage, AtLength
    <2> HIDE DEF d
    <2>3. /\ client'.at = y /\ client'.header = client.header /\ s \in Seq(Units) /\ s # <<>>
          /\ client'.len = Head(s).len /\ Flow(client', d) = Tail(s)
      <3>1. client' = AfterLength(client, y)
        BY <2>1
      <3> HIDE DEF y
      <3> QED
        BY <1>0, <2>1, <2>2, <3>1, LengthStep
    <2>4. Reads(client, s, Responses, Len(answered), q)
      BY DEF Talk, d
    <2> HIDE DEF s
    <2>5. Reads(client', Tail(s), Responses, Len(answered), q)
      BY <1>0, <2>2, <2>3, <2>4, ReadsLength
    <2>6. Reads(client', Flow(client', down' \o cut), Responses, Len(answered), q)
      BY <2>1, <2>3, <2>5, Zenon DEF d
    <2> QED
      BY <2>1, <2>6, ClientTalks
  <1> QED
    BY <1>1, <1>2

LEMMA TalkHeader ==
  ASSUME TypeInv, Order, NEW q \in Nat, NEW cut \in Seq(Units), Talk(q, cut), ServerHeader \/ ClientHeader
  PROVE  Talk(q, cut)'
  <1>0. /\ IsReader(server) /\ IsReader(client) /\ up \in Seq(Units)
        /\ q <= Sent /\ Sent \in Nat /\ Len(answered) \in Nat /\ Len(answered) <= q
    BY DEF TypeInv, StreamTypes, Talk, Order
  <1>1. CASE ServerHeader
    <2>1. /\ server.at = "header" /\ Enough(server) /\ ParsesWithin(server.buf, server.len)
          /\ Acceptable(HeaderIn(server)) /\ server' = AfterHeader(server)
          /\ UNCHANGED <<up, client, down>> /\ Steady
      BY <1>1 DEF ServerHeader, Steady
    <2>2. cut = <<>> /\ Reads(server, Flow(server, up), Requests, q, Sent)
      BY <2>1 DEF Talk
    <2>3. Reads(server', Flow(server', up), Requests, q, Sent)
      BY <1>0, <2>1, <2>2, ReadsHeader
    <2>4. server'.at = "body_len" /\ server'.header = HeaderIn(server)
      BY <1>0, <2>1, HeaderStep
    <2>5. Reads(server', Flow(server', up'), Requests, q, Sent)
      BY <2>1, <2>3, Zenon
    <2>6. server'.at # "ended" /\ Acceptable(server'.header)
      BY <2>1, <2>4
    <2>7. Talk(q, <<>>)'
      BY <2>1, <2>2, <2>5, <2>6, ServerTalks
    <2> QED
      BY <2>2, <2>7
  <1>2. CASE ClientHeader
    <2>1. /\ client.at = "header" /\ Enough(client) /\ client' = AfterHeader(client)
          /\ UNCHANGED <<up, server, down>> /\ Steady
      BY <1>2 DEF ClientHeader, Steady
    <2> DEFINE d == down \o cut
    <2>2. d \in Seq(Units)
      BY FlowType
    <2> HIDE DEF d
    <2>3. Reads(client, Flow(client, d), Responses, Len(answered), q)
      BY DEF Talk, d
    <2>4. Reads(client', Flow(client', d), Responses, Len(answered), q)
      BY <1>0, <2>1, <2>2, <2>3, ReadsHeader
    <2>5. Reads(client', Flow(client', down' \o cut), Responses, Len(answered), q)
      BY <2>1, <2>4, Zenon DEF d
    <2> QED
      BY <2>1, <2>5, ClientTalks
  <1> QED
    BY <1>1, <1>2

(* The server ends before it has replied to a request, with what it has not *)
(* yet sent.                                                                *)
LEMMA TalkEnds ==
  ASSUME TypeInv, Order, NEW q \in Nat, NEW cut \in Seq(Units), Talk(q, cut), Steady,
         server.at # "ended", q < Sent, null' \/ ~Served(made[q + 1]),
         server' = [server EXCEPT !.at = "ended"], UNCHANGED client,
         NEW n \in 0 .. Len(down), down' = SubSeq(down, 1, n)
  PROVE  \E c \in Seq(Units) : Talk(q, c)'
  <1>1. IsReader(server) /\ down \in Seq(Units) /\ cut = <<>>
    BY DEF TypeInv, StreamTypes, Talk
  <1>2. PICK e \in Seq(Units) : down = down' \o e
    BY <1>1, SplitAt
  <1>3. /\ Sent' = Sent /\ Requests' = Requests /\ Responses' = Responses
        /\ made' = made /\ answered' = answered
    BY SteadyOrder
  <1>4. Flow(client, down \o e)' = Flow(client, down \o cut)
    <2>1. down \o cut = down
      BY <1>1
    <2> QED
      BY <1>2, <2>1, Zenon DEF Flow
  <1>5. ASSUME NEW k PROVE Served(made[k])' <=> Served(made[k])
    BY <1>3 DEF Steady, Served
  <1>6. Reads(client, Flow(client, down \o e), Responses, Len(answered), q)'
    <2>1. Reads(client, Flow(client, down \o cut), Responses, Len(answered), q)
      BY DEF Talk
    <2> QED
      BY <1>3, <1>4, <2>1, Zenon
  <1>7. \A k \in 1 .. q : Served(made[k])'
    BY <1>5 DEF Talk
  <1>8. server'.at = "ended"
    BY <1>1 DEF IsReader
  <1>9. q < Sent' /\ Len(answered)' <= q /\ q <= Sent'
    BY <1>3 DEF Talk
  <1>10. null' \/ ~Served(made[q + 1])'
    BY <1>5
  <1>11. Talk(q, e)'
    BY <1>6, <1>7, <1>8, <1>9, <1>10, Zenon DEF Talk
  <1> QED
    BY <1>11

(* The server refuses only what it does not serve. *)
LEMMA TalkRefuse ==
  ASSUME TypeInv, Order, NEW q \in Nat, NEW cut \in Seq(Units), Talk(q, cut), ServerRefuse
  PROVE  \E c \in Seq(Units) : Talk(q, c)'
  <1>0. /\ IsReader(server) /\ up \in Seq(Units) /\ CallTypes
        /\ q <= Sent /\ Sent \in Nat
    BY DEF TypeInv, StreamTypes, Talk, Order
  <1>1. /\ \/ server.at = "header" /\ Enough(server)
              /\ ~(ParsesWithin(server.buf, server.len) /\ Acceptable(HeaderIn(server)))
           \/ AtLength(server, "body_len") /\ ~Registered(server.header)
        /\ server' = [server EXCEPT !.at = "ended"]
        /\ UNCHANGED client /\ Steady
    BY DEF ServerRefuse, Steady
  <1>2. server.at \in {"header", "body_len"} /\ server.at # "ended"
    BY <1>1 DEF AtLength
  <1>3. Reads(server, Flow(server, up), Requests, q, Sent)
    BY <1>2 DEF Talk
  <1>4. Knows(server, Requests, q, Sent)
    BY <1>2, <1>3 DEF Reads
  <1>5. q < Sent /\ q + 1 \in 1 .. Sent
    BY <1>0, <1>4 DEF Knows
  <1> DEFINE c == made[q + 1]
             id == FirstId + (q + 1) - 1
             g == ParseHeader(RequestParts(c, id).head)
  <1>6. c \in AllCalls /\ id \in Nat /\ Requests[q + 1] = RequestParts(c, id)
    BY <1>5, MadeType
  <1> HIDE DEF c, id
  <1>7. Served(c) <=> Acceptable(g) /\ Registered(g)
    BY <1>0, <1>6, ChecksServe
  <1>8. ~Served(c)
    <2>1. CASE server.at = "header"
      <3>1. Enough(server) /\ ~(ParsesWithin(server.buf, server.len) /\ Acceptable(HeaderIn(server)))
        BY <1>1, <2>1 DEF AtLength
      <3>2. ParsesWithin(server.buf, server.len) /\ HeaderIn(server) = ParseHeader(Requests[q + 1].head)
        BY <1>0, <1>3, <2>1, <3>1, ReadsHeader
      <3> QED
        BY <1>6, <1>7, <3>1, <3>2, Zenon
    <2>2. CASE server.at = "body_len"
      <3>1. ~Registered(server.header)
        BY <1>1, <2>2
      <3>2. server.header = ParseHeader(Requests[q + 1].head)
        BY <1>4, <2>2 DEF Knows
      <3> QED
        BY <1>6, <1>7, <3>1, <3>2, Zenon
    <2> QED
      BY <1>2, <2>1, <2>2
  <1>9. PICK n \in 0 .. Len(down) : down' = SubSeq(down, 1, n)
    BY DEF ServerRefuse
  <1>10. ~Served(made[q + 1])
    BY <1>8, Zenon DEF c
  <1> QED
    BY <1>1, <1>2, <1>5, <1>9, <1>10, TalkEnds

(* A length is always that of a message that has been sent. *)
LEMMA LengthOfMessage ==
  ASSUME NEW r, IsReader(r), NEW x \in {"header_len", "body_len"}, AtLength(r, x),
         NEW rest \in Seq(Units), NEW M, NEW a \in Nat, NEW b \in Nat, a <= b,
         Reads(r, Flow(r, rest), M, a, b)
  PROVE  a < b
  <1> DEFINE s == Flow(r, rest)
             y == IF x = "header_len" THEN "header" ELSE "body"
  <1>1. x \in BeforeLength /\ y \in BeforeMessage /\ r.at = x
    BY DEF BeforeLength, BeforeMessage, AtLength
  <1>2. PICK q : q = AfterLength(r, y)
    OBVIOUS
  <1>3. s # <<>>
    <2> HIDE DEF y
    <2> QED
      BY <1>1, <1>2, LengthStep
  <1> HIDE DEF s
  <1>4. CASE x = "header_len"
    <2>1. Carries(s, M, a, b)
      BY <1>1, <1>4 DEF Reads, s
    <2>2. a # b
      BY <1>3, <2>1, CarriesNone
    <2> QED
      BY <2>2
  <1>5. CASE x = "body_len"
    BY <1>1, <1>5 DEF Reads, Knows
  <1> QED
    BY <1>4, <1>5

LEMMA TalkNull ==
  ASSUME TypeInv, Order, NEW q \in Nat, NEW cut \in Seq(Units), Talk(q, cut), ServerNull
  PROVE  q < Sent /\ \E c \in Seq(Units) : Talk(q, c)'
  <1>0. /\ IsReader(server) /\ up \in Seq(Units) /\ q <= Sent /\ Sent \in Nat
    BY DEF TypeInv, StreamTypes, Talk, Order
  <1>1. /\ server' = [server EXCEPT !.at = "ended"] /\ null' = TRUE
        /\ UNCHANGED client /\ Steady
    BY DEF ServerNull, Steady
  <1>2. PICK x \in {"header_len", "body_len"} : AtLength(server, x)
    BY DEF ServerNull
  <1>3. server.at # "ended"
    BY <1>2 DEF AtLength
  <1>4. Reads(server, Flow(server, up), Requests, q, Sent)
    BY <1>3 DEF Talk
  <1>5. q < Sent
    BY <1>0, <1>2, <1>4, LengthOfMessage
  <1>6. PICK n \in 0 .. Len(down) : down' = SubSeq(down, 1, n)
    BY DEF ServerNull
  <1> QED
    BY <1>1, <1>3, <1>5, <1>6, TalkEnds

(* The reply goes behind the replies before it. *)
LEMMA TalkReply ==
  ASSUME TypeInv, Order, NEW q \in Nat, NEW cut \in Seq(Units), Talk(q, cut), ServerReply
  PROVE  q + 1 \in Nat /\ Talk(q + 1, cut)'
  <1>0. /\ IsReader(server) /\ IsReader(client) /\ up \in Seq(Units) /\ down \in Seq(Units) /\ CallTypes
        /\ q <= Sent /\ Sent \in Nat /\ Len(answered) \in Nat /\ Len(answered) <= q
        /\ server.at = "body" => Registered(server.header)
    BY DEF TypeInv, StreamTypes, Talk, Order
  <1>1. /\ server.at = "body" /\ Enough(server) /\ server' = AfterBody(server)
        /\ down' = down \o ResponseFrame(ResponseHeader(server.header), Answer)
        /\ UNCHANGED <<up, client>> /\ Steady
    BY DEF ServerReply, Steady, Answer
  <1>2. /\ cut = <<>> /\ Reads(server, Flow(server, up), Requests, q, Sent)
        /\ Acceptable(server.header) /\ Registered(server.header)
    BY <1>0, <1>1 DEF Talk
  <1>3. /\ q < Sent /\ Taken(server.buf, server.len) = Requests[q + 1].body
        /\ server.header = ParseHeader(Requests[q + 1].head)
        /\ Reads(server', Flow(server', up), Requests, q + 1, Sent)
    <2>1. server.at = "body" /\ Enough(server) /\ server' = AfterBody(server)
      BY <1>1, Zenon
    <2>2. Reads(server, Flow(server, up), Requests, q, Sent)
      BY <1>2, Zenon
    <2>3. IsReader(server) /\ up \in Seq(Units) /\ Sent \in Nat
      BY <1>0, Zenon
    <2> QED
      BY <2>1, <2>2, <2>3, ReadsBody
  <1>4. q + 1 \in 1 .. Sent /\ q + 1 \in Nat /\ Len(answered) <= q + 1 /\ q + 1 <= Sent
    BY <1>0, <1>3
  <1> DEFINE c == made[q + 1]
             id == FirstId + (q + 1) - 1
             g == ParseHeader(RequestParts(c, id).head)
  <1>5. /\ c \in AllCalls /\ id \in Nat /\ Requests[q + 1] = RequestParts(c, id)
        /\ Responses[q + 1] = ResponseParts(c, id) /\ Responses[q + 1] \in MessageParts
    BY <1>4, MadeType
  <1> HIDE DEF c, id
  <1>6. Served(c)
    <2>1. server.header = g
      BY <1>3, <1>5, Zenon
    <2> QED
      BY <1>0, <1>2, <1>5, <2>1, ChecksServe
  <1>7. ResponseFrame(ResponseHeader(server.header), Answer) = Wire(Responses[q + 1])
    <2>1. /\ server.header.request_id = id /\ NameOf(server.header.method_name) = <<c.method>>
          /\ ParseRequest(Taken(server.buf, server.len)).message = c.message
      <3>1. /\ g.request_id = id /\ NameOf(g.method_name) = <<c.method>>
            /\ ParseRequest(RequestParts(c, id).body).message = c.message
        BY <1>0, <1>5, RequestParsed
      <3>2. server.header = g /\ Taken(server.buf, server.len) = RequestParts(c, id).body
        BY <1>3, <1>5, Zenon
      <3> QED
        BY <3>1, <3>2, Zenon
    <2>2. Answer = EchoOf(Reply(c))
      <3>1. CallMethod(FindMethodByName(<<c.method>>), ParseRequest(Taken(server.buf, server.len))) = EchoOf(Reply(c))
        BY <1>0, <1>5, <1>6, <2>1, ServiceReplies
      <3> QED
        BY <2>1, <3>1, Zenon DEF Answer
    <2>3. ResponseHeader(server.header) = HeaderBack(id)
      BY <2>1, ResponseHeaderIs, Zenon
    <2>4. ResponseFrame(HeaderBack(id), EchoOf(Reply(c))) = Wire(ResponseParts(c, id))
      BY <1>0, <1>5, ResponseIsWire
    <2> QED
      BY <1>5, <2>2, <2>3, <2>4, Zenon
  <1>8. /\ Sent' = Sent /\ Requests' = Requests /\ Responses' = Responses
        /\ made' = made /\ answered' = answered
    BY <1>1, SteadyOrder
  <1>9. Reads(client', Flow(client', down' \o cut), Responses, Len(answered), q + 1)
    <2> DEFINE f == Wire(Responses[q + 1])
               s == Flow(client, down \o cut)
    <2>1. Reads(client, s, Responses, Len(answered), q) /\ s \in Seq(Units)
      BY FlowType DEF Talk
    <2>2. f \in Seq(Units)
      BY <1>5, ToTakeType DEF Wire
    <2>3. Reads(client, s \o f, Responses, Len(answered), q + 1)
      <3> HIDE DEF s
      <3> QED
        BY <1>0, <1>5, <2>1, ReadsMore
    <2>4. client.buf \in Seq(Units)
      BY <1>0 DEF IsReader
    <2> HIDE DEF f
    <2>5. s \o f = Flow(client', down' \o cut)
      <3>1. down \o <<>> = down
        BY <1>0
      <3>2. down \o f \in Seq(Units)
        BY <1>0, <2>2, BytesConcat, Zenon
      <3>3. (down \o f) \o <<>> = down \o f
        BY <3>2
      <3>4. (client.buf \o down) \o f = client.buf \o (down \o f)
        <4>1. Associates(client.buf, down, f)
          BY <1>0, <2>2, <2>4, UnitsAssociate, Zenon
        <4> QED
          BY <4>1, Zenon DEF Associates
      <3>5. down' = down \o f /\ client' = client
        BY <1>1, <1>7, Zenon DEF f
      <3> QED
        BY <1>2, <3>1, <3>3, <3>4, <3>5, Zenon DEF Flow
    <2>6. Reads(client', s \o f, Responses, Len(answered), q + 1)
      BY <1>1, <2>3, Zenon
    <2> HIDE DEF s
    <2> QED
      BY <2>5, <2>6, Zenon
  <1>10. \A k \in 1 .. q + 1 : Served(made[k])'
    <2>1. ASSUME NEW k \in 1 .. q + 1 PROVE Served(made[k])'
      <3>1. k \in 1 .. q \/ k = q + 1
        OBVIOUS
      <3>2. Served(made[k])
        BY <1>6, <3>1 DEF Talk, c
      <3> QED
        BY <1>1, <1>8, <3>2 DEF Steady, Served
    <2> QED
      BY <2>1
  <1>11. server'.at = "header_len"
    BY <1>0, <1>1, BodyStep
  <1>12. Reads(client, Flow(client, down \o cut), Responses, Len(answered), q + 1)'
    BY <1>8, <1>9, Zenon
  <1>13. Reads(server, Flow(server, up), Requests, q + 1, Sent)'
    BY <1>1, <1>3, <1>8, Zenon
  <1>14. Len(answered)' <= q + 1 /\ q + 1 <= Sent'
    BY <1>4, <1>8
  <1>15. server'.at # "ended" /\ server'.at \notin {"body_len", "body"}
    BY <1>11
  <1>16. Talk(q + 1, cut)'
    BY <1>2, <1>10, <1>12, <1>13, <1>14, <1>15, Zenon DEF Talk
  <1> QED
    BY <1>4, <1>16

(* More calls leave those that have left as they are. *)
LEMMA OlderSame ==
  ASSUME Order, UNCHANGED build, Sent' \in Nat, Sent <= Sent', FirstId' = FirstId,
         NEW k \in 1 .. Sent, made'[k] = made[k]
  PROVE  Requests'[k] = Requests[k] /\ Responses'[k] = Responses[k]
  <1>1. k \in 1 .. Sent' /\ NewFields' = NewFields
    BY DEF Order, NewFields
  <1>2. /\ Requests'[k] = RequestParts(made[k], FirstId + k - 1)'
        /\ Responses'[k] = ResponseParts(made[k], FirstId + k - 1)'
    BY <1>1, Zenon DEF Requests, Responses
  <1>3. Requests[k] = RequestParts(made[k], FirstId + k - 1) /\ Responses[k] = ResponseParts(made[k], FirstId + k - 1)
    BY Zenon DEF Requests, Responses
  <1>4. /\ RequestParts(made[k], FirstId + k - 1)' = RequestParts(made[k], FirstId + k - 1)
        /\ ResponseParts(made[k], FirstId + k - 1)' = ResponseParts(made[k], FirstId + k - 1)
    BY <1>1, Zenon DEF RequestParts, ResponseParts, HeaderSent, HeaderBack, EchoOf, Reply
  <1> QED
    BY <1>2, <1>3, <1>4, Zenon

LEMMA TalkGrows ==
  ASSUME Order, NEW q \in Nat, NEW cut \in Seq(Units), Talk(q, cut),
         UNCHANGED <<build, service_registry_, down, server, client, answered, null>>,
         Sent' \in Nat, Sent <= Sent', FirstId' = FirstId, \A k \in 1 .. Sent : made'[k] = made[k],
         server.at # "ended" => Reads(server, Flow(server, up'), Requests', q, Sent')
  PROVE  Talk(q, cut)'
  <1>0. Sent \in Nat /\ Len(answered) \in Nat /\ Len(answered) <= q /\ q <= Sent
    BY DEF Order, Talk
  <1>1. \A k \in 1 .. Sent : Responses'[k] = Responses[k]
    BY OlderSame
  <1>2. ASSUME NEW k \in 1 .. Sent PROVE Served(made[k])' <=> Served(made[k])
    BY DEF Served
  <1>3. Reads(client, Flow(client, down \o cut), Responses, Len(answered), q)'
    <2>1. Reads(client, Flow(client, down \o cut), Responses, Len(answered), q)
      BY DEF Talk
    <2>2. \A k \in Len(answered) + 1 .. q : Responses'[k] = Responses[k]
      BY <1>0, <1>1
    <2>3. Reads(client, Flow(client, down \o cut), Responses', Len(answered), q)
      BY <1>0, <2>1, <2>2, ReadsSame
    <2>4. Flow(client, down \o cut)' = Flow(client, down \o cut)
      BY DEF Flow
    <2> QED
      BY <2>3, <2>4, Zenon
  <1>4. \A k \in 1 .. q : Served(made[k])'
    <2>1. \A k \in 1 .. q : k \in 1 .. Sent
      BY <1>0
    <2> QED
      BY <1>2, <2>1 DEF Talk
  <1>5. server'.at = "ended" => q < Sent' /\ (null' \/ ~Served(made[q + 1])')
    <2>1. SUFFICES ASSUME server.at = "ended" PROVE q < Sent' /\ (null' \/ ~Served(made[q + 1])')
      OBVIOUS
    <2>2. q < Sent /\ (null \/ ~Served(made[q + 1]))
      BY <2>1 DEF Talk
    <2>3. q + 1 \in 1 .. Sent /\ q < Sent'
      BY <1>0, <2>2
    <2> QED
      BY <1>2, <2>2, <2>3
  <1>6. server'.at # "ended" =>
          /\ cut = <<>> /\ Reads(server, Flow(server, up), Requests, q, Sent)'
          /\ server'.at \in {"body_len", "body"} => Acceptable(server'.header)
    BY Zenon DEF Talk, Flow
  <1>7. Len(answered)' <= q /\ q <= Sent'
    BY <1>0
  <1> QED
    BY <1>3, <1>4, <1>5, <1>6, <1>7, Zenon DEF Talk

LEMMA TalkCall ==
  ASSUME TypeInv, Order, NEW q \in Nat, NEW cut \in Seq(Units), Talk(q, cut), Call
  PROVE  Order' /\ Talk(q, cut)'
  <1>1. /\ made \in Seq(AllCalls) /\ tasks \in Seq(Nat) /\ request_id_ \in Nat
        /\ Sent \in Nat /\ FirstId \in Nat /\ Len(answered) \in Nat
    BY DEF TypeInv, CallTypes, Order
  <1>2. PICK m \in StubMethods, t \in Messages : made' = Append(made, [method |-> m, message |-> t])
    BY DEF Call
  <1>3. /\ tasks' = Append(tasks, Len(made) + 1)
        /\ UNCHANGED <<build, service_registry_, request_id_, session_registry_, up, down, server, client, answered, null>>
    BY DEF Call
  <1> DEFINE c == [method |-> m, message |-> t]
  <1>4. c \in AllCalls
    BY <1>2 DEF AllCalls, StubMethods
  <1> HIDE DEF c
  <1>5. Len(made') = Len(made) + 1 /\ \A k \in 1 .. Len(made) : made'[k] = made[k]
    BY <1>1, <1>2, <1>4 DEF c
  <1>6. /\ Len(tasks') = Len(tasks) + 1 /\ \A k \in 1 .. Len(tasks) : tasks'[k] = tasks[k]
        /\ tasks'[Len(tasks) + 1] = Len(made) + 1
    BY <1>1, <1>3
  <1>7. Sent' = Sent /\ FirstId' = FirstId
    BY <1>1, <1>3, <1>5, <1>6 DEF Sent, FirstId
  <1>8. Order'
    <2>1. ASSUME NEW i \in 1 .. Len(tasks') PROVE tasks'[i] = Sent' + i
      <3>1. i \in 1 .. Len(tasks) \/ i = Len(tasks) + 1
        BY <1>1, <1>6
      <3>2. Len(made) + 1 = Sent + (Len(tasks) + 1)
        BY <1>1 DEF Sent
      <3> QED
        BY <1>6, <1>7, <3>1, <3>2 DEF Order
    <2> QED
      BY <1>3, <1>7, <2>1 DEF Order
  <1>9. \A k \in 1 .. Sent : k \in 1 .. Len(made) /\ made'[k] = made[k]
    BY <1>1, <1>5 DEF Sent
  <1>10. server.at # "ended" => Reads(server, Flow(server, up'), Requests', q, Sent')
    <2>1. SUFFICES ASSUME server.at # "ended" PROVE Reads(server, Flow(server, up'), Requests', q, Sent')
      OBVIOUS
    <2>2. Reads(server, Flow(server, up), Requests, q, Sent)
      BY <2>1 DEF Talk
    <2>3. \A k \in q + 1 .. Sent : Requests'[k] = Requests[k]
      <3>1. Sent' \in Nat /\ Sent <= Sent'
        BY <1>1, <1>7
      <3>2. \A k \in q + 1 .. Sent : k \in 1 .. Sent
        BY <1>1
      <3> QED
        BY <1>3, <1>7, <1>9, <3>1, <3>2, OlderSame
    <2>4. Reads(server, Flow(server, up), Requests', q, Sent)
      BY <1>1, <2>2, <2>3, ReadsSame
    <2> QED
      BY <1>3, <1>7, <2>4, Zenon
  <1>11. Sent' \in Nat /\ Sent <= Sent'
    BY <1>1, <1>7
  <1>12. Talk(q, cut)'
    BY <1>3, <1>7, <1>9, <1>10, <1>11, TalkGrows
  <1> QED
    BY <1>8, <1>12

LEMMA OrderSend ==
  ASSUME TypeInv, Order, SendRequest
  PROVE  /\ Order' /\ Head(tasks) = Sent + 1 /\ Sent + 1 \in 1 .. Len(made)
         /\ Sent' = Sent + 1 /\ FirstId' = FirstId
  <1>1. /\ made \in Seq(AllCalls) /\ tasks \in Seq(Nat) /\ request_id_ \in Nat
        /\ Sent \in Nat /\ FirstId \in Nat /\ Len(answered) \in Nat
        /\ \A i \in 1 .. Len(tasks) : tasks[i] = Sent + i /\ tasks[i] \in 1 .. Len(made)
    BY DEF TypeInv, CallTypes, Order
  <1>2. /\ tasks # <<>> /\ tasks' = Tail(tasks) /\ request_id_' = request_id_ + 1
        /\ UNCHANGED <<made, answered>>
    BY DEF SendRequest, NextRequestId
  <1>3. /\ Len(tasks) \in Nat /\ Len(tasks) >= 1 /\ Len(tasks') = Len(tasks) - 1
        /\ \A i \in 1 .. Len(tasks') : tasks'[i] = tasks[i + 1]
        /\ Head(tasks) = tasks[1]
    BY <1>1, <1>2
  <1>4. Head(tasks) = Sent + 1 /\ Sent + 1 \in 1 .. Len(made)
    BY <1>1, <1>3
  <1>5. Sent' = Sent + 1 /\ FirstId' = FirstId
    BY <1>1, <1>2, <1>3 DEF Sent, FirstId
  <1>6. ASSUME NEW i \in 1 .. Len(tasks') PROVE tasks'[i] = Sent' + i
    <2>1. i + 1 \in 1 .. Len(tasks) /\ tasks'[i] = tasks[i + 1]
      BY <1>3
    <2> QED
      BY <1>1, <1>5, <2>1
  <1>7. session_registry_' = [i \in DOMAIN session_registry_ \cup {request_id_} |->
                               IF i = request_id_ THEN Head(tasks) ELSE session_registry_[i]]
    <2>1. ASSUME NEW c PROVE SessionKey(RequestHeader(c)) = request_id_
      <3>1. HeaderSent(c, request_id_).request_id = request_id_
        BY DEF HeaderSent, HeaderFrom
      <3> QED
        BY <3>1, RequestHeaderIs, Zenon DEF SessionKey
    <2> QED
      BY <2>1, Zenon DEF SendRequest
  <1>8. request_id_ - 1 = FirstId + Sent - 1 /\ Len(answered) <= Sent
    BY <1>1 DEF FirstId, Order
  <1>9. DOMAIN session_registry_' = FirstId' + Len(answered') .. request_id_' - 1
    <2>1. DOMAIN session_registry_ = FirstId + Len(answered) .. request_id_ - 1
      BY DEF Order
    <2>2. (FirstId + Len(answered) .. request_id_ - 1) \cup {request_id_} = FirstId + Len(answered) .. (request_id_ + 1) - 1
      BY <1>1, <1>8
    <2>3. DOMAIN session_registry_' = DOMAIN session_registry_ \cup {request_id_}
      BY <1>7
    <2> QED
      BY <1>2, <1>5, <2>1, <2>2, <2>3
  <1>10. ASSUME NEW i \in DOMAIN session_registry_' PROVE session_registry_'[i] = i - FirstId' + 1
    <2>1. CASE i = request_id_
      BY <1>1, <1>4, <1>5, <1>7, <1>8, <2>1
    <2>2. CASE i # request_id_
      <3>1. i \in DOMAIN session_registry_ /\ session_registry_'[i] = session_registry_[i]
        BY <1>7, <2>2
      <3> QED
        BY <1>5, <3>1 DEF Order
    <2> QED
      BY <2>1, <2>2
  <1>11. Sent' \in Nat /\ FirstId' \in Nat /\ Len(answered') <= Sent'
    BY <1>1, <1>2, <1>5, <1>8
  <1>12. Order'
    BY <1>2, <1>6, <1>9, <1>10, <1>11 DEF Order
  <1> QED
    BY <1>4, <1>5, <1>12

LEMMA TalkSend ==
  ASSUME TypeInv, Order, NEW q \in Nat, NEW cut \in Seq(Units), Talk(q, cut), SendRequest
  PROVE  Order' /\ Talk(q, cut)'
  <1>1. /\ Order' /\ Head(tasks) = Sent + 1 /\ Sent + 1 \in 1 .. Len(made)
        /\ Sent' = Sent + 1 /\ FirstId' = FirstId
    BY OrderSend
  <1>2. /\ made \in Seq(AllCalls) /\ request_id_ \in Nat /\ Sent \in Nat /\ FirstId \in Nat /\ CallTypes
        /\ up \in Seq(Units) /\ IsReader(server) /\ server.buf \in Seq(Units) /\ q <= Sent
    BY DEF TypeInv, CallTypes, StreamTypes, IsReader, Order, Talk
  <1> DEFINE c == made[Sent + 1]
             f == Wire(RequestParts(c, request_id_))
  <1>3. c \in AllCalls
    BY <1>1, <1>2
  <1>4. /\ up' = up \o f
        /\ UNCHANGED <<build, service_registry_, made, down, server, client, answered, null>>
    <2>1. /\ up' = up \o RequestFrame(RequestHeader(c), [NewEcho EXCEPT !.message = c.message])
          /\ UNCHANGED <<build, service_registry_, made, down, server, client, answered, null>>
      BY <1>1, Zenon DEF SendRequest
    <2> HIDE DEF c
    <2>2. RequestFrame(RequestHeader(c), [NewEcho EXCEPT !.message = c.message]) = f
      BY <1>2, <1>3, RequestIsWire
    <2> QED
      BY <2>1, <2>2, Zenon
  <1>5. Sent' \in Nat /\ Sent <= Sent' /\ \A k \in 1 .. Sent : made'[k] = made[k]
    BY <1>1, <1>2, <1>4
  <1>6. Requests'[Sent + 1] = RequestParts(c, request_id_)
    <2>1. Sent + 1 \in 1 .. Sent' /\ FirstId + (Sent + 1) - 1 = request_id_ /\ NewFields' = NewFields
      BY <1>1, <1>2, <1>4 DEF FirstId, NewFields
    <2>2. \A k \in 1 .. Sent' :
            Requests'[k] = [head |-> SerializeHeader(HeaderFrom(build', NewFields', made'[k], FirstId' + k - 1)),
                            body |-> SerializeRequest(EchoOf(made'[k].message))]
      BY Zenon DEF Requests, RequestParts, HeaderSent, EchoOf
    <2>3. Requests'[Sent + 1] = [head |-> SerializeHeader(HeaderFrom(build, NewFields, c, request_id_)),
                                 body |-> SerializeRequest(EchoOf(c.message))]
      BY <1>1, <1>4, <2>1, <2>2, Zenon
    <2> QED
      BY <2>3, Zenon DEF RequestParts, HeaderSent
  <1>7. RequestParts(c, request_id_) \in MessageParts
    BY <1>2, <1>3, RequestPartsType
  <1>8. server.at # "ended" => Reads(server, Flow(server, up'), Requests', q, Sent')
    <2>1. SUFFICES ASSUME server.at # "ended" PROVE Reads(server, Flow(server, up'), Requests', q, Sent')
      OBVIOUS
    <2>2. Reads(server, Flow(server, up), Requests, q, Sent)
      BY <2>1 DEF Talk
    <2>3. \A k \in q + 1 .. Sent : Requests'[k] = Requests[k]
      <3>1. \A k \in q + 1 .. Sent : k \in 1 .. Sent
        BY <1>2
      <3> QED
        BY <1>1, <1>4, <1>5, <3>1, OlderSame
    <2> DEFINE M == Requests'
               s == Flow(server, up)
    <2>4. Reads(server, s, M, q, Sent)
      BY <1>2, <2>2, <2>3, ReadsSame
    <2>5. s \in Seq(Units)
      BY <1>2, BytesConcat, Zenon DEF Flow
    <2>6. M[Sent + 1] = RequestParts(c, request_id_) /\ M[Sent + 1] \in MessageParts
      BY <1>6, <1>7, Zenon
    <2> HIDE DEF M, s
    <2>7. Reads(server, s \o Wire(M[Sent + 1]), M, q, Sent + 1)
      BY <1>2, <2>4, <2>5, <2>6, ReadsMore
    <2>8. f \in Seq(Units)
      BY <1>7, ToTakeType DEF Wire
    <2>9. s \o Wire(M[Sent + 1]) = Flow(server, up')
      <3>1. Wire(M[Sent + 1]) = f
        BY <2>6, Zenon
      <3> HIDE DEF f
      <3>2. (server.buf \o up) \o f = server.buf \o (up \o f)
        <4>1. Associates(server.buf, up, f)
          BY <1>2, <2>8, UnitsAssociate, Zenon
        <4> QED
          BY <4>1, Zenon DEF Associates
      <3> QED
        BY <1>4, <3>1, <3>2, Zenon DEF Flow, s
    <2> QED
      BY <1>1, <2>7, <2>9, Zenon DEF M
  <1>9. Talk(q, cut)'
    BY <1>1, <1>4, <1>5, <1>8, TalkGrows
  <1> QED
    BY <1>1, <1>9

(* The reply that the client completes is the one to the first call that    *)
(* has not been answered.                                                   *)
LEMMA TalkAnswer ==
  ASSUME TypeInv, Order, NEW q \in Nat, NEW cut \in Seq(Units), Talk(q, cut), ClientReply
  PROVE  LET n == Len(answered) + 1
         IN  /\ n \in 1 .. Sent /\ made[n] \in AllCalls /\ Served(made[n])
             /\ answered' = Append(answered, [call |-> n, text |-> Reply(made[n])])
             /\ session_registry_' = [i \in DOMAIN session_registry_ \ {FirstId + n - 1} |-> session_registry_[i]]
             /\ n <= q /\ Reads(client', Flow(client', down \o cut), Responses, n, q)
  <1> DEFINE n == Len(answered) + 1
             d == down \o cut
             id == FirstId + n - 1
             c == made[n]
  <1>1. /\ client.at = "body" /\ Enough(client) /\ client' = AfterBody(client)
        /\ client.header.request_id \in DOMAIN session_registry_
        /\ answered' = Append(answered,
             [call |-> session_registry_[client.header.request_id],
              text |-> ParseResponse(Taken(client.buf, client.len)).message])
        /\ session_registry_' =
             [i \in DOMAIN session_registry_ \ {client.header.request_id} |-> session_registry_[i]]
    BY Zenon DEF ClientReply
  <1>2. /\ IsReader(client) /\ CallTypes /\ Sent \in Nat /\ FirstId \in Nat
        /\ Len(answered) \in Nat /\ Len(answered) <= q /\ q <= Sent
        /\ \A i \in DOMAIN session_registry_ : session_registry_[i] = i - FirstId + 1
    BY DEF TypeInv, StreamTypes, Talk, Order
  <1>3. d \in Seq(Units)
    BY FlowType
  <1>4. Reads(client, Flow(client, d), Responses, Len(answered), q)
    BY DEF Talk
  <1> HIDE DEF d
  <1>5. /\ Len(answered) < q /\ Taken(client.buf, client.len) = Responses[n].body
        /\ client.header = ParseHeader(Responses[n].head)
        /\ Reads(client', Flow(client', d), Responses, n, q)
    <2>1. client.at = "body" /\ Enough(client) /\ client' = AfterBody(client)
      BY <1>1, Zenon
    <2>2. IsReader(client) /\ q \in Nat /\ Len(answered) \in Nat
      BY <1>2, Zenon
    <2> QED
      BY <1>3, <1>4, <2>1, <2>2, ReadsBody
  <1>6. n \in 1 .. Sent /\ n \in 1 .. q /\ n <= q
    BY <1>2, <1>5
  <1>7. c \in AllCalls /\ id \in Nat /\ Responses[n] = ResponseParts(c, id)
    BY <1>6, MadeType
  <1>8. Served(c)
    BY <1>6 DEF Talk
  <1>9. client.header.request_id = id /\ ParseResponse(Taken(client.buf, client.len)).message = Reply(c)
    <2> HIDE DEF c, id, n
    <2>1. /\ ParseHeader(ResponseParts(c, id).head).request_id = id
          /\ ParseResponse(ResponseParts(c, id).body).message = Reply(c)
      BY <1>2, <1>7, ResponseParsed
    <2> QED
      BY <1>5, <1>7, <2>1, Zenon
  <1>10. session_registry_[id] = n
    <2>1. id \in DOMAIN session_registry_
      BY <1>1, <1>9, Zenon
    <2>2. session_registry_[id] = id - FirstId + 1
      BY <1>2, <2>1, Zenon
    <2> QED
      BY <1>2, <2>2
  <1> HIDE DEF c, id, n
  <1>11. answered' = Append(answered, [call |-> n, text |-> Reply(c)])
    BY <1>1, <1>9, <1>10, Zenon
  <1>12. session_registry_' = [i \in DOMAIN session_registry_ \ {id} |-> session_registry_[i]]
    BY <1>1, <1>9, Zenon
  <1> QED
    BY <1>5, <1>6, <1>7, <1>8, <1>11, <1>12, Zenon DEF c, id, n, d

LEMMA TalkAnswered ==
  ASSUME TypeInv, Order, NEW q \in Nat, NEW cut \in Seq(Units), Talk(q, cut), ClientReply
  PROVE  Order' /\ Talk(q, cut)'
  <1> DEFINE n == Len(answered) + 1
             a == [call |-> n, text |-> Reply(made[n])]
  <1>1. /\ n \in 1 .. Sent /\ made[n] \in AllCalls
        /\ answered' = Append(answered, a)
        /\ session_registry_' = [i \in DOMAIN session_registry_ \ {FirstId + n - 1} |-> session_registry_[i]]
        /\ n <= q /\ Reads(client', Flow(client', down \o cut), Responses, n, q)
    BY TalkAnswer
  <1>2. UNCHANGED <<build, service_registry_, made, tasks, request_id_, up, down, server, null>>
    BY DEF ClientReply
  <1>3. /\ answered \in Seq([call : Nat, text : Texts]) /\ Sent \in Nat /\ FirstId \in Nat
        /\ Len(answered) \in Nat /\ request_id_ \in Nat /\ q <= Sent
    BY DEF Order, TypeInv, CallTypes, Talk
  <1>4. a \in [call : Nat, text : Texts]
    BY <1>1, <1>3, ReplyType
  <1> HIDE DEF a
  <1>5. answered' \in Seq([call : Nat, text : Texts]) /\ Len(answered') = n /\ n \in Nat
    BY <1>1, <1>3, <1>4
  <1>6. Sent' = Sent /\ FirstId' = FirstId /\ NewFields' = NewFields
    BY <1>2 DEF Sent, FirstId, NewFields
  <1>7. Requests' = Requests /\ Responses' = Responses
    BY <1>2, <1>6, Zenon DEF Requests, Responses, RequestParts, ResponseParts, HeaderSent, HeaderBack, EchoOf, Reply
  <1>8. Order'
    <2>1. DOMAIN session_registry_' = FirstId + n .. request_id_ - 1
      <3>1. DOMAIN session_registry_ = FirstId + Len(answered) .. request_id_ - 1
        BY DEF Order
      <3>2. (FirstId + Len(answered) .. request_id_ - 1) \ {FirstId + n - 1} = FirstId + n .. request_id_ - 1
        BY <1>3
      <3> HIDE DEF n
      <3>3. DOMAIN session_registry_' = DOMAIN session_registry_ \ {FirstId + n - 1}
        BY <1>1
      <3> QED
        BY <3>1, <3>2, <3>3, Zenon
    <2>2. ASSUME NEW i \in DOMAIN session_registry_' PROVE session_registry_'[i] = i - FirstId + 1
      <3>1. i \in DOMAIN session_registry_ /\ session_registry_'[i] = session_registry_[i]
        BY <1>1
      <3> QED
        BY <3>1 DEF Order
    <2>3. n <= Sent
      BY <1>1, <1>3
    <2> HIDE DEF n
    <2>4. \A i \in 1 .. Len(tasks) : tasks[i] = Sent + i
      BY DEF Order
    <2> QED
      BY <1>2, <1>3, <1>5, <1>6, <2>1, <2>2, <2>3, <2>4 DEF Order
  <1>9. Reads(client, Flow(client, down \o cut), Responses, Len(answered), q)'
    BY <1>1, <1>2, <1>5, <1>7, Zenon
  <1>10. ASSUME NEW k PROVE Served(made[k])' <=> Served(made[k])
    BY <1>2 DEF Served
  <1>11. \A k \in 1 .. q : Served(made[k])'
    BY <1>10 DEF Talk
  <1>12. server'.at = "ended" => q < Sent' /\ (null' \/ ~Served(made[q + 1])')
    BY <1>2, <1>6, <1>10 DEF Talk
  <1>13. Flow(server, up)' = Flow(server, up)
    BY <1>2 DEF Flow
  <1>14. server'.at # "ended" =>
          /\ cut = <<>> /\ Reads(server, Flow(server, up), Requests, q, Sent)'
          /\ server'.at \in {"body_len", "body"} => Acceptable(server'.header)
    BY <1>2, <1>6, <1>7, <1>13, Zenon DEF Talk
  <1>15. Len(answered)' <= q /\ q <= Sent'
    BY <1>1, <1>3, <1>5, <1>6
  <1>16. Talk(q, cut)'
    BY <1>9, <1>11, <1>12, <1>14, <1>15, Zenon DEF Talk
  <1> QED
    BY <1>8, <1>16

(* Nothing that this is about has moved. *)
LEMMA TalkSame ==
  ASSUME Order, NEW q \in Nat, NEW cut \in Seq(Units), Talk(q, cut), Steady, UNCHANGED <<up, down, server, client>>
  PROVE  Talk(q, cut)'
  <1>1. Reads(client', Flow(client', down' \o cut), Responses, Len(answered), q)
    BY Zenon DEF Talk
  <1> QED
    BY <1>1, ClientTalks

LEMMA ConversationStep ==
  ASSUME TypeInv, Order, Talking, [Next]_vars
  PROVE  Order' /\ Talking'
  <1>1. PICK q \in Nat, cut \in Seq(Units) : Talk(q, cut)
    BY DEF Talking
  <1>2. CASE Call
    BY <1>1, <1>2, TalkCall DEF Talking
  <1>3. CASE SendRequest
    BY <1>1, <1>3, TalkSend DEF Talking
  <1>4. CASE ClientReply
    BY <1>1, <1>4, TalkAnswered DEF Talking
  <1>5. CASE ServerRead \/ ClientRead
    <2>1. Order'
      BY <1>5, SteadyOrder DEF Steady, ServerRead, ClientRead
    <2> QED
      BY <1>1, <1>5, <2>1, TalkRead DEF Talking
  <1>6. CASE ServerLength \/ ServerTarget \/ ClientLength
    <2>1. Order'
      BY <1>6, SteadyOrder DEF Steady, ServerLength, ServerTarget, ClientLength
    <2> QED
      BY <1>1, <1>6, <2>1, TalkLength DEF Talking
  <1>7. CASE ServerHeader \/ ClientHeader
    <2>1. Order'
      BY <1>7, SteadyOrder DEF Steady, ServerHeader, ClientHeader
    <2> QED
      BY <1>1, <1>7, <2>1, TalkHeader DEF Talking
  <1>8. CASE ServerRefuse
    <2>1. Order'
      BY <1>8, SteadyOrder DEF Steady, ServerRefuse
    <2> QED
      BY <1>1, <1>8, <2>1, TalkRefuse DEF Talking
  <1>11. CASE ServerNull
    <2>1. Order'
      BY <1>11, SteadyOrder DEF Steady, ServerNull
    <2> QED
      BY <1>1, <1>11, <2>1, TalkNull DEF Talking
  <1>9. CASE ServerReply
    <2>1. Order'
      BY <1>9, SteadyOrder DEF Steady, ServerReply
    <2> QED
      BY <1>1, <1>9, <2>1, TalkReply DEF Talking
  <1>10. CASE ClientEnd \/ ClientNull \/ UNCHANGED vars
    <2>1. Steady /\ UNCHANGED <<up, down, server, client>>
      BY <1>10 DEF Steady, ClientEnd, ClientNull, vars
    <2> QED
      BY <1>1, <2>1, SteadyOrder, TalkSame DEF Talking
  <1> QED
    BY <1>2, <1>3, <1>4, <1>5, <1>6, <1>7, <1>8, <1>9, <1>10, <1>11 DEF Next, ServerStep, ClientStep

LEMMA ConversationInvariant == Spec => [](EchoInv /\ Order /\ Talking)
  <1>1. Init => Order /\ Talking
    BY ConversationInit
  <1>2. EchoInv /\ (Order /\ Talking) /\ [Next]_vars => (Order /\ Talking)'
    BY ConversationStep DEF EchoInv
  <1> QED
    BY <1>1, <1>2, EchoInvariant, PTL DEF Spec

-----------------------------------------------------------------------------
(* Steps of the specification as steps of what is promised. *)

LEMMA PromiseInit == Init => Promise!Init
  BY DEF Init, Promise!Init

LEMMA PromiseCall == ASSUME TypeInv, Call PROVE Promise!Call
  <1>1. PICK m \in StubMethods, t \in Messages : made' = Append(made, [method |-> m, message |-> t])
    BY DEF Call
  <1>2. m \in Range(EchoMethods) \cup {"Echo2"}
    BY DEF StubMethods
  <1>3. [method |-> m, message |-> t] \in AllCalls
    BY <1>2 DEF AllCalls
  <1>4. UNCHANGED <<answered, lost, null, build, service_registry_>>
    BY DEF Call
  <1> QED
    BY <1>1, <1>3, <1>4 DEF Promise!Call

LEMMA PromiseAnswer ==
  ASSUME NEW n, n = Len(answered) + 1, ~lost, n <= Len(made), made[n] \in AllCalls, Served(made[n]),
         answered' = Append(answered, [call |-> n, text |-> Reply(made[n])]),
         UNCHANGED <<made, lost, null, build, service_registry_>>
  PROVE  Promise!Answer
  BY DEF Promise!Answer, Served, Reply

LEMMA PromiseLose ==
  ASSUME null \/ \E n \in Len(answered) + 1 .. Len(made) : ~Served(made[n]), lost' = TRUE,
         UNCHANGED <<made, answered, null, build, service_registry_>>
  PROVE  Promise!Lose
  BY DEF Promise!Lose, Served

LEMMA PromiseBreak ==
  ASSUME Len(answered) < Len(made), null' = TRUE, lost' \in {lost, TRUE},
         UNCHANGED <<made, answered, build, service_registry_>>
  PROVE  Promise!Break
  BY DEF Promise!Break

LEMMA PromiseStep ==
  ASSUME TypeInv, Order, Talking, [Next]_vars
  PROVE  [Promise!Next]_(Promise!vars)
  <1>1. PICK q \in Nat, cut \in Seq(Units) : Talk(q, cut)
    BY DEF Talking
  <1>2. /\ made \in Seq(AllCalls) /\ tasks \in Seq(Nat) /\ Sent \in Nat /\ Len(answered) \in Nat
        /\ Sent <= Len(made) /\ Len(made) \in Nat
    BY DEF TypeInv, CallTypes, Order, Sent
  <1>3. CASE Call
    BY <1>3, PromiseCall DEF Promise!Next
  <1>4. CASE ~lost /\ ClientReply
    <2> DEFINE n == Len(answered) + 1
    <2>1. /\ n \in 1 .. Sent /\ made[n] \in AllCalls /\ Served(made[n])
          /\ answered' = Append(answered, [call |-> n, text |-> Reply(made[n])])
      BY <1>1, <1>4, TalkAnswer
    <2>2. n <= Len(made)
      BY <1>2, <2>1
    <2>3. UNCHANGED <<made, lost, null, build, service_registry_>>
      BY <1>4 DEF ClientReply
    <2>4. Promise!Answer
      BY <1>4, <2>1, <2>2, <2>3, PromiseAnswer
    <2> QED
      BY <2>4 DEF Promise!Next
  <1>5. CASE ClientEnd
    <2>1. server.at = "ended" /\ lost' = TRUE /\ UNCHANGED <<made, answered, null, build, service_registry_>>
      BY <1>5 DEF ClientEnd, channelVars
    <2>2. q < Sent /\ (null \/ ~Served(made[q + 1])) /\ Len(answered) <= q
      BY <1>1, <2>1 DEF Talk
    <2>3. q + 1 \in Len(answered) + 1 .. Len(made)
      BY <1>2, <2>2
    <2>4. Promise!Lose
      BY <2>1, <2>2, <2>3, PromiseLose
    <2> QED
      BY <2>4 DEF Promise!Next
  <1>6. CASE ServerNull
    <2>1. null' = TRUE /\ UNCHANGED <<made, answered, lost, build, service_registry_>>
      BY <1>6 DEF ServerNull, channelVars
    <2>2. q < Sent /\ Len(answered) <= q
      BY <1>1, <1>6, TalkNull DEF Talk
    <2>3. Len(answered) < Len(made)
      BY <1>2, <2>2
    <2>4. Promise!Break
      BY <2>1, <2>3, PromiseBreak
    <2> QED
      BY <2>4 DEF Promise!Next
  <1>7. CASE ClientNull
    <2>1. null' = TRUE /\ lost' = TRUE /\ UNCHANGED <<made, answered, build, service_registry_>>
      BY <1>7 DEF ClientNull, channelVars
    <2>2. PICK x \in {"header_len", "body_len"} : AtLength(client, x)
      BY <1>7 DEF ClientNull
    <2>3. /\ IsReader(client) /\ down \o cut \in Seq(Units) /\ Len(answered) <= q /\ q <= Sent
          /\ Reads(client, Flow(client, down \o cut), Responses, Len(answered), q)
      BY <1>1, FlowType DEF TypeInv, StreamTypes, Talk
    <2>4. Len(answered) < q
      <3>1. PICK d : d = down \o cut
        OBVIOUS
      <3>2. d \in Seq(Units) /\ Reads(client, Flow(client, d), Responses, Len(answered), q)
        BY <2>3, <3>1, Zenon
      <3>3. IsReader(client) /\ Len(answered) <= q
        BY <2>3, Zenon
      <3> QED
        BY <1>2, <2>2, <3>2, <3>3, LengthOfMessage
    <2>5. Len(answered) < Len(made)
      BY <1>2, <2>3, <2>4
    <2>6. Promise!Break
      BY <2>1, <2>5, PromiseBreak
    <2> QED
      BY <2>6 DEF Promise!Next
  <1>8. CASE \/ SendRequest \/ ClientRead \/ ClientLength \/ ClientHeader \/ ServerRead \/ ServerLength
             \/ ServerHeader \/ ServerTarget \/ ServerRefuse \/ ServerReply \/ UNCHANGED vars
    <2>1. UNCHANGED <<made, answered, lost, null, build, service_registry_>>
      BY <1>8 DEF SendRequest, ClientRead, ClientLength, ClientHeader, ServerRead, ServerLength,
                  ServerHeader, ServerTarget, ServerRefuse, ServerReply, vars, channelVars
    <2> QED
      BY <2>1 DEF Promise!vars
  <1> QED
    BY <1>3, <1>4, <1>5, <1>6, <1>7, <1>8 DEF Next, ServerStep, ClientStep

(* For any number of calls, any words, any builds and any size of a block:  *)
(* every step of the stub, the two recv_fn and the service is a step that   *)
(* RpcCalls allows.  Calls are answered once and in order, each with the    *)
(* reply of its method to its message.  The connection is lost only to a    *)
(* call that the server refuses, or after a recv_fn has read a length that  *)
(* was all there was in read_buf_ and did not end its block, while a call   *)
(* was unanswered: ChainedBuffer::read then leaves a null chain.            *)
THEOREM CallsAnsweredInOrder == Spec => CallsInOrder
  <1>1. Init => Promise!Init
    BY PromiseInit
  <1>2. EchoInv /\ Order /\ Talking /\ [Next]_vars => [Promise!Next]_(Promise!vars)
    BY PromiseStep DEF EchoInv
  <1> QED
    BY <1>1, <1>2, ConversationInvariant, PTL DEF Spec, CallsInOrder, Promise!Spec
=============================================================================
