------------------------------ MODULE Cbor_proofs ------------------------------
(***************************************************************************)
(* Lemmas about the operators of Fnv1a, Cbor and RpcDispatch, for every    *)
(* width of a byte, table of functions and size of buffer: what encoders   *)
(* write and how much room they leave, and that decoders look at nothing   *)
(* but their span and give values of the types they are for.               *)
(*                                                                         *)
(* The operators repeat something for each byte, item or row, by a         *)
(* function upTo on 0..n.  One lemma, Recursion, says that such functions  *)
(* exist; each of them then has a lemma that gives its values, and what    *)
(* they compute is shown by induction over a set (UpTo).                   *)
(***************************************************************************)
EXTENDS CcfPackets, FiniteSetTheorems, WellFoundedInduction, TLAPS

-----------------------------------------------------------------------------
(* Recursive functions on 0..k *)

\* A non-empty set of numbers has a least one.
LEMMA Least ==
    ASSUME NEW S \in SUBSET Nat, S # {}
    PROVE  \E n \in S : \A m \in S : n <= m
<1>1. PICK n \in S : \A m \in S : ~ (<<m, n>> \in OpToRel(<, Nat))
  BY NatLessThanWellFounded, WFMin
<1>2. \A m \in S : ~(m < n)
  BY <1>1 DEF OpToRel
<1> QED BY <1>2

\* Induction up to k, over a set.
LEMMA UpTo ==
    ASSUME NEW k \in Nat, NEW T, 0 \in T, \A i \in 1..k : i - 1 \in T => i \in T
    PROVE  \A i \in 0..k : i \in T
<1> DEFINE bad == {i \in 0..k : i \notin T}
<1> SUFFICES ASSUME bad # {} PROVE FALSE
  OBVIOUS
<1>1. bad \in SUBSET Nat
  OBVIOUS
<1>2. PICK n \in bad : \A m \in bad : n <= m
  <2> HIDE DEF bad
  <2> QED BY <1>1, Least
<1>3. n \in 1..k
  BY <1>2
<1>4. n - 1 \notin bad
  BY <1>1, <1>2
<1> QED BY <1>2, <1>3, <1>4

\* The values a recursive definition gives from 0 to k.
Follow(f, k, base, step) ==
    f = [i \in 0..k |-> IF i = 0 THEN base ELSE step[<<i, f[i - 1]>>]]

\* There is such an f.
LEMMA Recursion ==
    ASSUME NEW k \in Nat, NEW S, NEW base \in S, NEW step,
           \A i \in 1..k, x \in S : step[<<i, x>>] \in S
    PROVE  \E f \in [0..k -> S] : Follow(f, k, base, step)
<1> DEFINE T == {m \in 0..k : \E f \in [0..m -> S] : Follow(f, m, base, step)}
<1>1. 0 \in T
  <2> DEFINE f == [i \in 0..0 |-> base]
  <2>1. f \in [0..0 -> S]
    OBVIOUS
  <2>2. \A i \in 0..0 : i = 0
    OBVIOUS
  <2>3. f = [i \in 0..0 |-> IF i = 0 THEN base ELSE step[<<i, f[i - 1]>>]]
    BY <2>2
  <2> HIDE DEF f
  <2>4. \E g \in [0..0 -> S] : Follow(g, 0, base, step)
    BY <2>1, <2>3 DEF Follow
  <2> QED BY <2>4
<1>2. ASSUME NEW m \in 1..k, m - 1 \in T
      PROVE  m \in T
  <2>1. PICK f \in [0..(m - 1) -> S] : Follow(f, m - 1, base, step)
    BY <1>2
  <2>2. /\ f[0] = base
        /\ \A i \in 1..(m - 1) : f[i] = step[<<i, f[i - 1]>>]
    <3>1. f = [i \in 0..(m - 1) |-> IF i = 0 THEN base ELSE step[<<i, f[i - 1]>>]]
      BY <2>1 DEF Follow
    <3>2. 0 \in 0..(m - 1)
      OBVIOUS
    <3> QED BY <3>1, <3>2
  <2> DEFINE g == [i \in 0..m |-> IF i = m THEN step[<<m, f[m - 1]>>] ELSE f[i]]
  <2>3. /\ g \in [0..m -> S]
        /\ g[0] = base
        /\ \A i \in 1..m : g[i] = step[<<i, g[i - 1]>>]
    <3>1. f[m - 1] \in S
      BY <2>1
    <3>2. g[m] = step[<<m, g[m - 1]>>] /\ g[0] = base
      BY <2>2
    <3>3. ASSUME NEW i \in 1..(m - 1) PROVE g[i] = step[<<i, g[i - 1]>>]
      BY <2>2
    <3>4. \A i \in 1..m : i = m \/ i \in 1..(m - 1)
      OBVIOUS
    <3>5. g \in [0..m -> S]
      BY <3>1, <1>2
    <3> HIDE DEF g
    <3> QED BY <3>2, <3>3, <3>4, <3>5
  <2>4. Follow(g, m, base, step)
    <3> HIDE DEF g
    <3>1. \A i \in 0..m : i = 0 \/ i \in 1..m
      OBVIOUS
    <3> QED BY <2>3, <3>1 DEF Follow
  <2> HIDE DEF g
  <2> QED BY <2>3, <2>4
<1>3. k \in T
  <2> HIDE DEF T
  <2> QED BY <1>1, <1>2, UpTo
<1> QED BY <1>3

-----------------------------------------------------------------------------
(* Bytes and sizes *)

M == MinorModulus

\* The numbers behind the assumption on the width of a byte.
LEMMA Widths ==
    /\ Base \in Nat /\ M \in Nat /\ Base = 8 * M
    /\ EmbeddedMax \in Nat /\ EmbeddedMax >= 3 /\ EmbeddedMax + 5 < M
    /\ Base >= 72
    /\ \A b : b \in Byte <=> b \in Nat /\ b < Base
<1>1. Base = 8 * M /\ M \in Nat
  BY CborAssumption DEF M, MinorModulus
<1> QED BY <1>1, CborAssumption DEF M, MinorModulus, Byte

\* A size is one of four, and each has its minor value.
LEMMA FollowsValue ==
    /\ Follows[1] = EmbeddedMax + 1
    /\ Follows[2] = EmbeddedMax + 2
    /\ Follows[4] = EmbeddedMax + 3
    /\ Follows[8] = EmbeddedMax + 4
<1>1. Cardinality({1}) = 1 /\ IsFiniteSet({1})
  BY FS_Singleton
<1>2. Cardinality({1, 2}) = 2 /\ IsFiniteSet({1, 2})
  <2>1. {1, 2} = {1} \cup {2} /\ 2 \notin {1}
    OBVIOUS
  <2> QED BY <1>1, <2>1, FS_AddElement
<1>3. Cardinality({1, 2, 4}) = 3 /\ IsFiniteSet({1, 2, 4})
  <2>1. {1, 2, 4} = {1, 2} \cup {4} /\ 4 \notin {1, 2}
    OBVIOUS
  <2> QED BY <1>2, <2>1, FS_AddElement
<1>4. Cardinality({1, 2, 4, 8}) = 4
  <2>1. {1, 2, 4, 8} = {1, 2, 4} \cup {8} /\ 8 \notin {1, 2, 4}
    OBVIOUS
  <2> QED BY <1>3, <2>1, FS_AddElement
<1>5. /\ {m \in Sizes : m <= 1} = {1}
      /\ {m \in Sizes : m <= 2} = {1, 2}
      /\ {m \in Sizes : m <= 4} = {1, 2, 4}
      /\ {m \in Sizes : m <= 8} = {1, 2, 4, 8}
  BY DEF Sizes
<1>6. \A n \in Sizes : Follows[n] = EmbeddedMax + Cardinality({m \in Sizes : m <= n})
  BY DEF Follows
<1>7. 1 \in Sizes /\ 2 \in Sizes /\ 4 \in Sizes /\ 8 \in Sizes
  BY DEF Sizes
<1> QED BY <1>1, <1>2, <1>3, <1>4, <1>5, <1>6, <1>7

\* The minor values of the sizes are distinct, and none is an argument itself
\* or Indefinite.
LEMMA FollowsDistinct ==
    /\ \A n \in Sizes : Follows[n] \in (EmbeddedMax + 1)..(M - 2)
    /\ \A n, m \in Sizes : Follows[n] = Follows[m] => n = m
BY FollowsValue, Widths DEF Sizes

\* How many bytes follow a minor value is one of the sizes, or none.
LEMMA FollowingValue ==
    ASSUME NEW minor
    PROVE  /\ Following(minor) \in {0, 1, 2, 4, 8}
           /\ Following(minor) # 0 => Follows[Following(minor)] = minor
<1>1. CASE \E n \in Sizes : Follows[n] = minor
  <2>1. Following(minor) \in Sizes /\ Follows[Following(minor)] = minor
    BY <1>1 DEF Following
  <2> QED BY <2>1 DEF Sizes
<1>2. CASE ~(\E n \in Sizes : Follows[n] = minor)
  BY <1>2 DEF Following
<1> QED BY <1>1, <1>2

\* The values that a number of bytes have: a positive number, even from one
\* byte on, and greater for more bytes.
LEMMA ValuesSteps ==
    /\ Values[0] = 1
    /\ \A i \in 1..8 : Values[i] = Base * Values[i - 1]
<1> DEFINE step == [p \in (1..8) \X Nat |-> Base * p[2]]
           P(f) == f = [i \in 0..8 |-> IF i = 0 THEN 1 ELSE Base * f[i - 1]]
           upTo == CHOOSE f : P(f)
<1>1. Values = upTo
  BY DEF Values
<1>2. \A i \in 1..8, x \in Nat : step[<<i, x>>] = Base * x /\ step[<<i, x>>] \in Nat
  BY Widths
<1>3. PICK f \in [0..8 -> Nat] : Follow(f, 8, 1, step)
  <2> HIDE DEF step
  <2>1. \A i \in 1..8, x \in Nat : step[<<i, x>>] \in Nat
    BY <1>2
  <2> QED BY <2>1, Recursion
<1>4. P(f)
  <2> HIDE DEF step
  <2>1. \A i \in 0..8 : i = 0 \/ (i \in 1..8 /\ f[i - 1] \in Nat)
    OBVIOUS
  <2> QED BY <1>2, <1>3, <2>1 DEF Follow
<1>5. P(upTo)
  <2> HIDE DEF P
  <2> QED BY <1>4
<1>6. upTo[0] = 1 /\ \A i \in 1..8 : upTo[i] = Base * upTo[i - 1]
  <2> HIDE DEF upTo
  <2> QED BY <1>5
<1> QED BY <1>1, <1>6
LEMMA ValuesType == \A i \in 0..8 : Values[i] \in Nat /\ Values[i] > 0
<1> DEFINE T == {i \in 0..8 : Values[i] \in Nat /\ Values[i] > 0}
<1>1. 0 \in T
  BY ValuesSteps
<1>2. ASSUME NEW i \in 1..8, i - 1 \in T PROVE i \in T
  <2>1. Values[i] = Base * Values[i - 1] /\ Values[i - 1] \in Nat /\ Values[i - 1] > 0
    BY <1>2, ValuesSteps
  <2>2. ASSUME NEW x \in Nat PROVE Base * x \in Nat /\ x <= Base * x
    BY Widths
  <2>3. Values[i] \in Nat /\ Values[i] > 0
    BY <2>1, <2>2
  <2> QED BY <2>3
<1> HIDE DEF T
<1>3. \A i \in 0..8 : i \in T
  BY <1>1, <1>2, UpTo
<1> QED BY <1>3 DEF T

LEMMA ValuesMore ==
    /\ \A i \in 1..8 : Values[i] % 2 = 0
    /\ \A m \in 0..8 : \A n \in 0..m : Values[n] <= Values[m]
<1>1. ASSUME NEW i \in 1..8
      PROVE  Values[i] = 2 * (4 * M * Values[i - 1]) /\ Values[i - 1] <= Values[i]
  <2>1. Values[i] = Base * Values[i - 1] /\ Values[i - 1] \in Nat
    BY ValuesSteps, ValuesType
  <2>2. ASSUME NEW x \in Nat PROVE Base * x = 2 * (4 * M * x) /\ x <= Base * x
    BY Widths
  <2> QED BY <2>1, <2>2
<1>2. ASSUME NEW i \in 1..8 PROVE Values[i] % 2 = 0
  <2>1. 4 * M * Values[i - 1] \in Nat
    BY Widths, ValuesType
  <2>2. ASSUME NEW y \in Nat PROVE (2 * y) % 2 = 0
    OBVIOUS
  <2> QED BY <1>1, <2>1, <2>2
<1> DEFINE T == {m \in 0..8 : \A n \in 0..m : Values[n] <= Values[m]}
<1>3. 0 \in T
  BY ValuesType
<1>4. ASSUME NEW i \in 1..8, i - 1 \in T PROVE i \in T
  <2>1. ASSUME NEW n \in 0..i PROVE Values[n] <= Values[i]
    <3>1. Values[i - 1] \in Nat /\ Values[i] \in Nat /\ Values[n] \in Nat
      BY ValuesType
    <3>2. CASE n = i
      BY <3>1, <3>2
    <3>3. CASE n # i
      <4>1. Values[n] <= Values[i - 1]
        BY <1>4, <3>3
      <4> QED BY <1>1, <3>1, <4>1
    <3> QED BY <3>2, <3>3
  <2> QED BY <2>1
<1> HIDE DEF T
<1>5. \A m \in 0..8 : m \in T
  BY <1>3, <1>4, UpTo
<1> QED BY <1>2, <1>5 DEF T

\* encode<Int> takes one of the four sizes.
LEMMA SmallestSize ==
    ASSUME NEW v \in Nat
    PROVE  Smallest(v) \in Sizes
<1> DEFINE S == {n \in {1, 2, 4} : v < Values[n]} \cup {8}
<1>1. S \in SUBSET Nat /\ S # {} /\ S \subseteq Sizes
  BY DEF Sizes
<1>2. Smallest(v) = Min(S)
  BY DEF Smallest
<1> HIDE DEF S
<1>3. \E n \in S : \A m \in S : n <= m
  BY <1>1, Least
<1>4. Min(S) \in S
  BY <1>3 DEF Min
<1> QED BY <1>1, <1>2, <1>4

\* The n bytes of v are n bytes.
LEMMA BigEndianType ==
    ASSUME NEW v \in Nat, NEW n \in Nat
    PROVE  BigEndian(v, n) \in Seq(Byte) /\ Len(BigEndian(v, n)) = n
<1> DEFINE step == [p \in (1..n) \X Nat |-> p[2] \div Base]
           P(f) == f = [i \in 0..n |-> IF i = 0 THEN v ELSE f[i - 1] \div Base]
           above == CHOOSE f : P(f)
<1>1. BigEndian(v, n) = [i \in 1..n |-> above[n - i] % Base]
  BY DEF BigEndian
<1>2. \A i \in 1..n, x \in Nat : step[<<i, x>>] = x \div Base /\ step[<<i, x>>] \in Nat
  BY Widths
<1>3. PICK f \in [0..n -> Nat] : Follow(f, n, v, step)
  <2> HIDE DEF step
  <2>1. \A i \in 1..n, x \in Nat : step[<<i, x>>] \in Nat
    BY <1>2
  <2> QED BY <2>1, Recursion
<1>4. P(f)
  <2> HIDE DEF step
  <2>1. \A i \in 0..n : i = 0 \/ (i \in 1..n /\ f[i - 1] \in Nat)
    OBVIOUS
  <2> QED BY <1>2, <1>3, <2>1 DEF Follow
<1>5. P(above)
  <2> HIDE DEF P
  <2> QED BY <1>4
<1>6. \A i \in 0..n : above[i] \in Nat
  <2> DEFINE T == {i \in 0..n : above[i] \in Nat}
  <2> HIDE DEF above
  <2>1. 0 \in T
    BY <1>5
  <2>2. ASSUME NEW i \in 1..n, i - 1 \in T PROVE i \in T
    <3>1. \A x \in Nat : x \div Base \in Nat
      BY Widths
    <3>2. above[i] = above[i - 1] \div Base /\ above[i - 1] \in Nat
      BY <1>5, <2>2
    <3>3. above[i] \in Nat
      BY <3>1, <3>2
    <3> QED BY <3>3
  <2> HIDE DEF T
  <2>3. \A i \in 0..n : i \in T
    BY <2>1, <2>2, UpTo
  <2> QED BY <2>3 DEF T
<1> HIDE DEF above
<1>7. \A i \in 1..n : above[n - i] % Base \in Byte
  <2>1. \A x \in Nat : x % Base \in Byte
    BY Widths
  <2> QED BY <1>6, <2>1
<1> QED BY <1>1, <1>7
-----------------------------------------------------------------------------
(* Writing *)

Writers == [ok : BOOLEAN, out : Seq(Byte), room : Nat]

\* `after` is `w` with the bytes behind what it held or, if there was no room
\* or it had failed before, a writer that has failed.  Either way what is
\* written and the room left are as much as before.
Encodes(w, bytes, after) ==
    /\ after \in Writers
    /\ Len(after.out) + after.room = Len(w.out) + w.room
    /\ after.ok <=> (w.ok /\ Len(bytes) <= w.room)
    /\ after.ok => after.out = w.out \o bytes

LEMMA JoinParts ==
    ASSUME NEW a \in Seq(Byte), NEW b \in Seq(Byte)
    PROVE  /\ a \o b \in Seq(Byte) /\ Len(a \o b) = Len(a) + Len(b)
           /\ Len(a) \in Nat /\ Len(b) \in Nat
           /\ \A i \in 1..Len(a) : (a \o b)[i] = a[i]
           /\ \A i \in 1..Len(b) : (a \o b)[Len(a) + i] = b[i]
OBVIOUS

LEMMA JoinAssociative ==
    ASSUME NEW a \in Seq(Byte), NEW b \in Seq(Byte), NEW c \in Seq(Byte)
    PROVE  (a \o b) \o c = a \o (b \o c)
<1> DEFINE left == (a \o b) \o c
           right == a \o (b \o c)
<1>1. left \in Seq(Byte) /\ right \in Seq(Byte) /\ Len(left) = Len(right)
  OBVIOUS
<1>2. ASSUME NEW i \in 1..Len(left) PROVE left[i] = right[i]
  OBVIOUS
<1> HIDE DEF left, right
<1>3. left = right
  BY <1>1, <1>2
<1> QED BY <1>3 DEF left, right

\* A writer's parts.
LEMMA WriterType ==
    ASSUME NEW w \in Writers
    PROVE  w.ok \in BOOLEAN /\ w.out \in Seq(Byte) /\ w.room \in Nat
BY DEF Writers

LEMMA WriteEncodes ==
    ASSUME NEW w \in Writers, NEW bytes \in Seq(Byte)
    PROVE  Encodes(w, bytes, Write(w, bytes))
<1>1. CASE w.ok /\ Len(bytes) <= w.room
  <2> DEFINE after == [w EXCEPT !.out = w.out \o bytes, !.room = w.room - Len(bytes)]
  <2>1. Write(w, bytes) = after
    BY <1>1 DEF Write
  <2>2. w.out \o bytes \in Seq(Byte) /\ w.room - Len(bytes) \in Nat
    BY <1>1, WriterType
  <2>3. /\ after \in Writers /\ after.ok = w.ok /\ after.out = w.out \o bytes
        /\ after.room = w.room - Len(bytes)
    <3> DEFINE longer == w.out \o bytes
               less == w.room - Len(bytes)
    <3>1. longer \in Seq(Byte) /\ less \in Nat /\ after = [w EXCEPT !.out = longer, !.room = less]
      BY <2>2
    <3> HIDE DEF longer, less, after
    <3>2. /\ after \in Writers /\ after.ok = w.ok /\ after.out = longer
          /\ after.room = less
      BY <3>1 DEF Writers
    <3> QED BY <3>2 DEF longer, less
  <2> HIDE DEF after
  <2>4. Len(after.out) + after.room = Len(w.out) + w.room
    BY <2>3, WriterType
  <2> QED BY <1>1, <2>1, <2>3, <2>4 DEF Encodes
<1>2. CASE ~(w.ok /\ Len(bytes) <= w.room)
  <2>1. Write(w, bytes) = [w EXCEPT !.ok = FALSE]
    BY <1>2 DEF Write
  <2> QED BY <1>2, <2>1 DEF Encodes, Writers
<1> QED BY <1>1, <1>2

\* One after the other is both.
LEMMA EncodesBoth ==
    ASSUME NEW w \in Writers, NEW first \in Seq(Byte), NEW second \in Seq(Byte),
           NEW between, NEW after,
           Encodes(w, first, between), Encodes(between, second, after)
    PROVE  Encodes(w, first \o second, after)
<1>1. /\ between \in Writers /\ after \in Writers
      /\ Len(between.out) + between.room = Len(w.out) + w.room
      /\ Len(after.out) + after.room = Len(between.out) + between.room
  BY DEF Encodes
<1>2. Len(first \o second) = Len(first) + Len(second)
      /\ Len(first) \in Nat /\ Len(second) \in Nat
  OBVIOUS
<1>3. between.ok <=> (w.ok /\ Len(first) <= w.room)
  BY DEF Encodes
<1>4. after.ok <=> (between.ok /\ Len(second) <= between.room)
  BY DEF Encodes
<1>5. between.ok => between.out = w.out \o first /\ between.room = w.room - Len(first)
  <2> SUFFICES ASSUME between.ok
               PROVE  between.out = w.out \o first /\ between.room = w.room - Len(first)
    OBVIOUS
  <2>1. between.out = w.out \o first
    BY DEF Encodes
  <2>2. Len(between.out) = Len(w.out) + Len(first)
    BY <2>1, WriterType
  <2>3. Len(w.out) \in Nat /\ w.room \in Nat /\ between.room \in Nat
    BY <1>1, WriterType
  <2> QED BY <1>1, <1>2, <2>1, <2>2, <2>3
<1>6. after.ok <=> (w.ok /\ Len(first \o second) <= w.room)
  <2>1. w.room \in Nat
    BY WriterType
  <2>2. CASE between.ok
    <3>1. Len(second) <= between.room <=> Len(first \o second) <= w.room
      BY <1>2, <1>5, <2>1, <2>2
    <3> QED BY <1>3, <1>4, <2>2, <3>1
  <2>3. CASE ~between.ok
    <3>1. Len(first \o second) <= w.room => Len(first) <= w.room
      BY <1>2, <2>1
    <3> QED BY <1>3, <1>4, <2>3, <3>1
  <2> QED BY <2>2, <2>3
<1>7. after.ok => after.out = w.out \o (first \o second)
  <2> SUFFICES ASSUME after.ok PROVE after.out = w.out \o (first \o second)
    OBVIOUS
  <2>1. after.out = between.out \o second /\ between.out = w.out \o first
    BY <1>4, <1>5 DEF Encodes
  <2>2. (w.out \o first) \o second = w.out \o (first \o second)
    <3>1. w.out \in Seq(Byte)
      BY WriterType
    <3> QED BY <3>1, JoinAssociative
  <2> QED BY <2>1, <2>2
<1>8. Len(after.out) + after.room = Len(w.out) + w.room
  BY <1>1
<1> QED BY <1>1, <1>6, <1>7, <1>8 DEF Encodes

\* A writer that goes on as it is, when nothing is added or it has failed.
LEMMA EncodesNothing ==
    ASSUME NEW w \in Writers
    PROVE  /\ Encodes(w, << >>, w)
           /\ ~w.ok => \A bytes \in Seq(Byte) : Encodes(w, bytes, w)
<1>1. w.out \o << >> = w.out /\ Len(<< >>) <= w.room
  BY WriterType
<1> QED BY <1>1 DEF Encodes
-----------------------------------------------------------------------------
(* Encoding *)

\* An initial byte is a byte.
LEMMA InitialByteType ==
    ASSUME NEW major \in 0..7, NEW minor \in Nat, minor < M
    PROVE  InitialByte(major, minor) \in Byte
<1>1. InitialByte(major, minor) = major * M + minor
  BY DEF InitialByte, M
<1>2. major * M <= 7 * M /\ major * M \in Nat
  BY Widths
<1> QED BY <1>1, <1>2, Widths

LEMMA MinOfTwo ==
    ASSUME NEW a \in Int, NEW b \in Int
    PROVE  Min({a, b}) = IF a <= b THEN a ELSE b
BY DEF Min

\* The strings' byte by byte is, for who asks whether it has succeeded, no
\* different.
LEMMA WriteEachEncodes ==
    ASSUME NEW w \in Writers, NEW bytes \in Seq(Byte)
    PROVE  Encodes(w, bytes, WriteEach(w, bytes))
<1> DEFINE n == Min({Len(bytes), w.room})
           part == SubSeq(bytes, 1, n)
           between == Write(w, part)
           all == w.ok /\ n = Len(bytes)
           after == [between EXCEPT !.ok = all]
<1>1. WriteEach(w, bytes) = after
  BY DEF WriteEach
<1>2. /\ n \in Nat /\ n <= Len(bytes) /\ n <= w.room
      /\ n = Len(bytes) <=> Len(bytes) <= w.room
  BY MinOfTwo, WriterType
<1> HIDE DEF n
<1>3. part \in Seq(Byte) /\ Len(part) = n /\ (n = Len(bytes) => part = bytes)
  BY <1>2
<1> HIDE DEF part
<1>4. Encodes(w, part, between)
  BY <1>3, WriteEncodes
<1> HIDE DEF between
<1>5. between \in Writers /\ all \in BOOLEAN
  BY <1>4 DEF Encodes
<1>6. /\ after \in Writers /\ after.out = between.out /\ after.room = between.room
      /\ after.ok <=> all
  <2> HIDE DEF all
  <2> QED BY <1>5 DEF Writers
<1> HIDE DEF after
<1>7. after.ok <=> (w.ok /\ Len(bytes) <= w.room)
  BY <1>2, <1>6
<1>8. after.ok => after.out = w.out \o bytes
  <2> SUFFICES ASSUME after.ok PROVE after.out = w.out \o bytes
    OBVIOUS
  <2>1. part = bytes /\ between.ok
    BY <1>2, <1>3, <1>4, <1>6 DEF Encodes
  <2> QED BY <1>4, <1>6, <2>1 DEF Encodes
<1>9. Len(after.out) + after.room = Len(w.out) + w.room
  BY <1>4, <1>6 DEF Encodes
<1> QED BY <1>1, <1>6, <1>7, <1>8, <1>9 DEF Encodes

LEMMA DivisionZero ==
    ASSUME NEW v \in Nat, NEW x \in Nat, x > 0
    PROVE  v \div x = 0 <=> v < x
<1>1. PICK q \in Nat : q = v \div x
  OBVIOUS
<1>2. v = x * q + (v % x) /\ v % x \in Nat /\ v % x < x
  BY <1>1
<1>3. CASE q = 0
  BY <1>1, <1>2, <1>3
<1>4. CASE q >= 1
  <2>1. x * q >= x
    BY <1>4
  <2> QED BY <1>1, <1>2, <1>4, <2>1
<1> QED BY <1>3, <1>4

\* What the host makes of a head is what encode<Int> makes of it: the shortest
\* form.
LEMMA HeadShortest ==
    ASSUME NEW major, NEW v \in Nat
    PROVE  HostHead(major, v) =
             IF v <= EmbeddedMax THEN <<InitialByte(major, v)>>
             ELSE <<InitialByte(major, Follows[Smallest(v)])>> \o BigEndian(v, Smallest(v))
<1>1. ASSUME NEW n \in {1, 2, 4} PROVE v \div Values[n] = 0 <=> v < Values[n]
  <2>1. Values[n] \in Nat /\ Values[n] > 0
    BY ValuesType
  <2> QED BY <2>1, DivisionZero, Zenon
<1>2. {n \in {1, 2, 4} : v \div Values[n] = 0} \cup {8}
        = {n \in {1, 2, 4} : v < Values[n]} \cup {8}
  BY <1>1
<1> QED BY <1>2 DEF HostHead, Smallest

\* A head is bytes, and one at least.
LEMMA HeadType ==
    ASSUME NEW major \in 0..7, NEW v \in Nat
    PROVE  HostHead(major, v) \in Seq(Byte) /\ Len(HostHead(major, v)) > 0
<1>1. CASE v <= EmbeddedMax
  <2>1. HostHead(major, v) = <<InitialByte(major, v)>>
    BY <1>1, HeadShortest
  <2>2. InitialByte(major, v) \in Byte
    BY <1>1, InitialByteType, Widths
  <2> QED BY <2>1, <2>2
<1>2. CASE ~(v <= EmbeddedMax)
  <2> DEFINE first == InitialByte(major, Follows[Smallest(v)])
             digits == BigEndian(v, Smallest(v))
  <2>1. HostHead(major, v) = <<first>> \o digits
    BY <1>2, HeadShortest
  <2>2. Smallest(v) \in Sizes
    BY SmallestSize
  <2>3. first \in Byte
    <3>1. Follows[Smallest(v)] \in Nat /\ Follows[Smallest(v)] < M
      BY <2>2, FollowsDistinct, Widths
    <3> QED BY <3>1, InitialByteType
  <2>4. digits \in Seq(Byte) /\ Len(digits) \in Nat
    BY <2>2, BigEndianType DEF Sizes
  <2> HIDE DEF first, digits
  <2> QED BY <2>1, <2>3, <2>4
<1> QED BY <1>1, <1>2

LEMMA EncodeHead ==
    ASSUME NEW w \in Writers, NEW major \in 0..7, NEW v \in Nat
    PROVE  Encodes(w, HostHead(major, v), Encode(major, v, w))
<1>1. CASE v <= EmbeddedMax
  <2>1. ~(v > EmbeddedMax)
    BY <1>1, Widths
  <2>2. HostHead(major, v) = <<InitialByte(major, v)>>
    BY <1>1, HeadShortest
  <2>3. Encode(major, v, w) = Write(w, HostHead(major, v))
    BY <1>1, <2>1, <2>2 DEF Encode, PackEmbedded
  <2> QED BY <2>3, HeadType, WriteEncodes
<1>2. CASE ~(v <= EmbeddedMax)
  <2>1. v > EmbeddedMax
    BY <1>2, Widths
  <2>2. Len(BigEndian(v, Smallest(v))) = Smallest(v)
    BY SmallestSize, BigEndianType DEF Sizes
  <2>3. Encode(major, v, w) = Pack(major, BigEndian(v, Smallest(v)), w)
    BY <2>1 DEF Encode
  <2>4. HostHead(major, v)
          = <<InitialByte(major, Follows[Smallest(v)])>> \o BigEndian(v, Smallest(v))
    BY <1>2, HeadShortest
  <2>5. Encode(major, v, w) = Write(w, HostHead(major, v))
    BY <2>2, <2>3, <2>4 DEF Pack
  <2> QED BY <2>5, HeadType, WriteEncodes
<1> QED BY <1>1, <1>2
\* An item's type has one of six kinds.
LEMMA ItemKinds ==
    ASSUME NEW type \in ItemTypes
    PROVE  \/ type.kind = "integer" /\ type.bytes \in Sizes /\ type.signed \in BOOLEAN
           \/ type.kind = "floating" /\ type.bytes \in {2, 4, 8}
           \/ type.kind = "bool"
           \/ type.kind = "void"
           \/ type.kind = "text"
           \/ type.kind = "span"
BY DEF ItemTypes, ArgTypes, Bool, Span, Void, Text

\* Cbor<T>::encode writes what the host's encoder would, or there is no room.
LEMMA EncodeItemAsHost ==
    ASSUME NEW type \in ItemTypes, NEW v, OfKind(type, v), NEW w \in Writers
    PROVE  /\ HostItem(type, v) \in Seq(Byte)
           /\ Encodes(w, HostItem(type, v), EncodeItem(type, v, w))
<1>1. CASE type.kind = "integer"
  <2>1. v \in Int
    BY <1>1 DEF OfKind
  <2>2. EncodeItem(type, v, w) = EncodeInteger(v, w)
    BY <1>1 DEF EncodeItem
  <2>3. CASE v >= 0
    <3>1. HostItem(type, v) = HostHead(U64, v) /\ EncodeInteger(v, w) = Encode(U64, v, w)
      BY <1>1, <2>1, <2>3 DEF HostItem, EncodeInteger
    <3>2. v \in Nat /\ U64 \in 0..7
      BY <2>1, <2>3 DEF U64
    <3> QED BY <2>2, <3>1, <3>2, HeadType, EncodeHead
  <2>4. CASE v < 0
    <3> DEFINE u == -v - 1
    <3>1. HostItem(type, v) = HostHead(Neg64, u) /\ EncodeInteger(v, w) = Encode(Neg64, u, w)
      BY <1>1, <2>1, <2>4 DEF HostItem, EncodeInteger
    <3>2. u \in Nat /\ Neg64 \in 0..7
      BY <2>1, <2>4 DEF Neg64
    <3> HIDE DEF u
    <3> QED BY <2>2, <3>1, <3>2, HeadType, EncodeHead
  <2> QED BY <2>1, <2>3, <2>4
<1>2. CASE type.kind = "floating"
  <2> DEFINE first == InitialByte(Simple, Follows[Len(v)])
  <2>1. v \in Seq(Byte) /\ Len(v) \in {2, 4, 8}
    BY <1>2 DEF OfKind
  <2>2. HostItem(type, v) = <<first>> \o v
    BY <1>2 DEF HostItem
  <2>3. EncodeItem(type, v, w) = Write(w, <<first>> \o v)
    BY <1>2 DEF EncodeItem, EncodeFloating, Pack
  <2>4. first \in Byte
    <3>1. Follows[Len(v)] \in Nat /\ Follows[Len(v)] < M
      <4>1. Len(v) \in Sizes
        BY <2>1 DEF Sizes
      <4> QED BY <4>1, FollowsDistinct, Widths
    <3>2. Simple \in 0..7
      BY DEF Simple
    <3> QED BY <3>1, <3>2, InitialByteType
  <2> HIDE DEF first
  <2>5. <<first>> \o v \in Seq(Byte)
    BY <2>1, <2>4
  <2> QED BY <2>2, <2>3, <2>5, WriteEncodes
<1>3. CASE type.kind = "bool"
  <2> DEFINE minor == IF v THEN TrueValue ELSE FalseValue
             bytes == <<InitialByte(Simple, minor)>>
  <2>1. minor \in Nat /\ minor <= EmbeddedMax /\ minor < M
    BY Widths DEF TrueValue, FalseValue
  <2>2. HostItem(type, v) = bytes
    BY <1>3 DEF HostItem
  <2>3. EncodeItem(type, v, w) = PackEmbedded(Simple, minor, w)
    BY <1>3 DEF EncodeItem, EncodeBool
  <2> HIDE DEF minor
  <2>4. PackEmbedded(Simple, minor, w) = Write(w, bytes)
    BY <2>1 DEF PackEmbedded
  <2>5. bytes \in Seq(Byte)
    <3>1. Simple \in 0..7
      BY DEF Simple
    <3> QED BY <2>1, <3>1, InitialByteType
  <2> HIDE DEF bytes
  <2> QED BY <2>2, <2>3, <2>4, <2>5, WriteEncodes
<1>4. CASE type.kind = "void"
  <2> DEFINE bytes == <<InitialByte(Simple, UndefinedValue)>>
  <2>1. HostItem(type, v) = bytes
    BY <1>4 DEF HostItem
  <2>2. EncodeItem(type, v, w) = PackEmbedded(Simple, UndefinedValue, w)
    BY <1>4 DEF EncodeItem, EncodeVoid
  <2>3. PackEmbedded(Simple, UndefinedValue, w) = Write(w, bytes)
    BY Widths DEF PackEmbedded, UndefinedValue
  <2>4. bytes \in Seq(Byte)
    <3>1. Simple \in 0..7 /\ UndefinedValue \in Nat /\ UndefinedValue < M
      BY Widths DEF Simple, UndefinedValue
    <3> QED BY <3>1, InitialByteType
  <2> HIDE DEF bytes
  <2> QED BY <2>1, <2>2, <2>3, <2>4, WriteEncodes
<1>5. CASE type.kind = "text"
  <2> DEFINE head == HostHead(Utf8, Len(v))
             between == Encode(Utf8, Len(v), w)
  <2>1. v \in Seq(Byte) /\ Len(v) \in Nat /\ Utf8 \in 0..7
    BY <1>5 DEF OfKind, Utf8
  <2>2. HostItem(type, v) = head \o v
    BY <1>5 DEF HostItem
  <2>3. EncodeItem(type, v, w) = WriteEach(between, v)
    BY <1>5 DEF EncodeItem, EncodeText
  <2>4. head \in Seq(Byte) /\ Encodes(w, head, between)
    BY <2>1, HeadType, EncodeHead
  <2> HIDE DEF head, between
  <2>5. Encodes(between, v, WriteEach(between, v))
    BY <2>1, <2>4, WriteEachEncodes DEF Encodes
  <2> QED BY <2>1, <2>2, <2>3, <2>4, <2>5, EncodesBoth
<1>6. CASE type.kind = "span"
  <2> DEFINE head == HostHead(Bytes, Len(v))
             between == Encode(Bytes, Len(v), w)
  <2>1. v \in Seq(Byte) /\ Len(v) \in Nat /\ Bytes \in 0..7
    BY <1>6 DEF OfKind, Bytes
  <2>2. HostItem(type, v) = head \o v
    BY <1>6 DEF HostItem
  <2>3. EncodeItem(type, v, w) = Write(between, v)
    BY <1>6 DEF EncodeItem, EncodeSpan
  <2>4. head \in Seq(Byte) /\ Encodes(w, head, between)
    BY <2>1, HeadType, EncodeHead
  <2> HIDE DEF head, between
  <2>5. Encodes(between, v, Write(between, v))
    BY <2>1, <2>4, WriteEncodes DEF Encodes
  <2> QED BY <2>1, <2>2, <2>3, <2>4, <2>5, EncodesBoth
<1> QED BY <1>1, <1>2, <1>3, <1>4, <1>5, <1>6, ItemKinds
\* The pieces of a flattened sequence, one after the other.
LEMMA FlattenSteps ==
    ASSUME NEW E, NEW seqs \in Seq(Seq(E))
    PROVE  \E f : /\ f[0] = << >>
                  /\ \A i \in 0..Len(seqs) : f[i] \in Seq(E)
                  /\ \A i \in 1..Len(seqs) : f[i] = f[i - 1] \o seqs[i]
                  /\ FlattenSeq(seqs) = f[Len(seqs)]
<1> DEFINE n == Len(seqs)
           S == Seq(E)
           Cat(i, x) == x \o seqs[i]
           step == [p \in (1..n) \X S |-> Cat(p[1], p[2])]
           P(f) == f = [i \in 1..n |-> IF i = 1 THEN seqs[i] ELSE Cat(i, f[i - 1])]
           flatten == CHOOSE f : P(f)
<1>1. n \in Nat /\ << >> \in S /\ \A i \in 1..n : seqs[i] \in S
  OBVIOUS
<1>2. ASSUME NEW i \in 1..n, NEW x \in S
      PROVE  Cat(i, x) \in S /\ Cat(i, << >>) = seqs[i]
  <2>1. seqs[i] \in Seq(E)
    OBVIOUS
  <2> QED BY <2>1
<1>3. FlattenSeq(seqs) = IF n = 0 THEN seqs ELSE flatten[n]
  BY DEF FlattenSeq
<1>4. n = 0 => seqs = << >>
  OBVIOUS
<1> SUFFICES \E f : /\ f[0] = << >>
                    /\ \A i \in 0..n : f[i] \in S
                    /\ \A i \in 1..n : f[i] = Cat(i, f[i - 1])
                    /\ FlattenSeq(seqs) = f[n]
  OBVIOUS
<1> HIDE DEF n, S, Cat
<1>5. \A i \in 1..n, x \in S : step[<<i, x>>] = Cat(i, x) /\ step[<<i, x>>] \in S
  BY <1>2
<1>6. PICK f \in [0..n -> S] : Follow(f, n, << >>, step)
  <2> HIDE DEF step
  <2>1. \A i \in 1..n, x \in S : step[<<i, x>>] \in S
    BY <1>5
  <2> QED BY <1>1, <2>1, Recursion
<1>7. /\ f[0] = << >>
      /\ \A i \in 0..n : f[i] \in S
      /\ \A i \in 1..n : f[i] = Cat(i, f[i - 1])
  <2> HIDE DEF step
  <2>1. 0 \in 0..n /\ \A i \in 1..n : i \in 0..n /\ i # 0 /\ i - 1 \in 0..n
    BY <1>1
  <2>2. \A i \in 1..n : f[i] = step[<<i, f[i - 1]>>]
    BY <1>6, <2>1 DEF Follow
  <2>3. f[0] = << >>
    BY <1>6, <2>1 DEF Follow
  <2> QED BY <1>5, <1>6, <2>1, <2>2, <2>3
<1>8. CASE n = 0
  BY <1>3, <1>4, <1>7, <1>8
<1>9. CASE n # 0
  <2>1. P([i \in 1..n |-> f[i]])
    <3>1. f[1] = seqs[1]
      BY <1>1, <1>2, <1>7, <1>9
    <3>2. \A i \in 1..n : i # 1 => i - 1 \in 1..n /\ f[i] = Cat(i, f[i - 1])
      BY <1>1, <1>7
    <3> QED BY <3>1, <3>2
  <2>2. P(flatten)
    <3> HIDE DEF P
    <3> QED BY <2>1
  <2> HIDE DEF flatten
  <2>3. \A i \in 1..n : flatten[i] = IF i = 1 THEN seqs[i] ELSE Cat(i, flatten[i - 1])
    BY <2>2
  <2> DEFINE T == {i \in 0..n : i # 0 => flatten[i] = f[i]}
  <2>4. 0 \in T
    BY <1>1
  <2>5. ASSUME NEW i \in 1..n, i - 1 \in T PROVE i \in T
    <3>1. CASE i = 1
      <4>1. f[1] = seqs[1] /\ flatten[1] = seqs[1]
        BY <1>1, <1>2, <1>7, <2>3, <3>1
      <4> QED BY <3>1, <4>1
    <3>2. CASE i # 1
      <4>1. flatten[i - 1] = f[i - 1]
        BY <1>1, <2>5, <3>2
      <4>2. f[i] = Cat(i, f[i - 1]) /\ flatten[i] = Cat(i, flatten[i - 1])
        BY <1>7, <2>3, <3>2
      <4> QED BY <4>1, <4>2
    <3> QED BY <3>1, <3>2
  <2> HIDE DEF T
  <2>6. \A i \in 0..n : i \in T
    BY <1>1, <2>4, <2>5, UpTo
  <2>7. flatten[n] = f[n]
    BY <1>1, <1>9, <2>6 DEF T
  <2> QED BY <1>3, <1>7, <1>9, <2>7
<1> QED BY <1>8, <1>9

\* The writers between the items.
LEMMA EncodeItemsSteps ==
    ASSUME NEW types \in Seq(ItemTypes), NEW vs, NEW w \in Writers,
           \A i \in 1..Len(types) : OfKind(types[i], vs[i])
    PROVE  \E f : /\ f[0] = w
                  /\ \A i \in 1..Len(types) :
                        f[i] = IF f[i - 1].ok THEN EncodeItem(types[i], vs[i], f[i - 1])
                               ELSE f[i - 1]
                  /\ EncodeItems(types, vs, w) = f[Len(types)]
<1> DEFINE n == Len(types)
           Next1(i, x) == IF x.ok THEN EncodeItem(types[i], vs[i], x) ELSE x
           step == [p \in (1..n) \X Writers |-> Next1(p[1], p[2])]
           P(f) == f = [i \in 0..n |-> IF i = 0 THEN w ELSE Next1(i, f[i - 1])]
           upTo == CHOOSE f : P(f)
<1>1. EncodeItems(types, vs, w) = upTo[n]
  BY DEF EncodeItems
<1>2. n \in Nat
  OBVIOUS
<1>3. ASSUME NEW i \in 1..n, NEW x \in Writers PROVE Next1(i, x) \in Writers
  <2>1. types[i] \in ItemTypes /\ OfKind(types[i], vs[i])
    OBVIOUS
  <2>2. EncodeItem(types[i], vs[i], x) \in Writers
    BY <2>1, EncodeItemAsHost DEF Encodes
  <2> QED BY <2>2
<1> HIDE DEF n, Next1
<1>4. \A i \in 1..n, x \in Writers : step[<<i, x>>] = Next1(i, x) /\ step[<<i, x>>] \in Writers
  BY <1>3
<1>5. PICK f \in [0..n -> Writers] : Follow(f, n, w, step)
  <2> HIDE DEF step
  <2>1. \A i \in 1..n, x \in Writers : step[<<i, x>>] \in Writers
    BY <1>4
  <2> QED BY <1>2, <2>1, Recursion
<1>6. P(f)
  <2> HIDE DEF step
  <2>1. \A i \in 0..n : i = 0 \/ (i \in 1..n /\ f[i - 1] \in Writers)
    BY <1>2
  <2> QED BY <1>4, <1>5, <2>1 DEF Follow
<1>7. P(upTo)
  <2> HIDE DEF P
  <2> QED BY <1>6
<1>8. upTo[0] = w /\ \A i \in 1..n : upTo[i] = Next1(i, upTo[i - 1])
  <2> HIDE DEF upTo
  <2> QED BY <1>2, <1>7
<1> HIDE DEF upTo
<1> QED BY <1>1, <1>8 DEF n, Next1

\* The items of a list, encoded by device and host.
LEMMA EncodeItemsAsHost ==
    ASSUME NEW types \in Seq(ItemTypes), NEW vs, NEW w \in Writers,
           \A i \in 1..Len(types) : OfKind(types[i], vs[i])
    PROVE  /\ HostItems(types, vs) \in Seq(Byte)
           /\ Encodes(w, HostItems(types, vs), EncodeItems(types, vs, w))
<1> DEFINE n == Len(types)
           items == [i \in 1..n |-> HostItem(types[i], vs[i])]
<1>1. \A i \in 1..n : types[i] \in ItemTypes /\ OfKind(types[i], vs[i])
  OBVIOUS
<1>2. \A i \in 1..n : items[i] \in Seq(Byte) /\ items[i] = HostItem(types[i], vs[i])
  BY <1>1, EncodeItemAsHost
<1>3. items \in Seq(Seq(Byte)) /\ Len(items) = n /\ n \in Nat
  BY <1>2
<1>4. HostItems(types, vs) = FlattenSeq(items)
  BY DEF HostItems
<1> HIDE DEF items
<1>5. PICK h : /\ h[0] = << >>
               /\ \A i \in 0..n : h[i] \in Seq(Byte)
               /\ \A i \in 1..n : h[i] = h[i - 1] \o items[i]
               /\ FlattenSeq(items) = h[n]
  <2>1. \E h : /\ h[0] = << >>
               /\ \A i \in 0..Len(items) : h[i] \in Seq(Byte)
               /\ \A i \in 1..Len(items) : h[i] = h[i - 1] \o items[i]
               /\ FlattenSeq(items) = h[Len(items)]
    BY <1>3, FlattenSteps
  <2> QED BY <1>3, <2>1
<1>6. PICK f : /\ f[0] = w
               /\ \A i \in 1..n :
                     f[i] = IF f[i - 1].ok THEN EncodeItem(types[i], vs[i], f[i - 1])
                            ELSE f[i - 1]
               /\ EncodeItems(types, vs, w) = f[n]
  BY EncodeItemsSteps
<1> DEFINE T == {i \in 0..n : Encodes(w, h[i], f[i])}
<1>7. 0 \in T
  BY <1>3, <1>5, <1>6, EncodesNothing
<1>8. ASSUME NEW i \in 1..n, i - 1 \in T PROVE i \in T
  <2>1. /\ Encodes(w, h[i - 1], f[i - 1]) /\ f[i - 1] \in Writers
        /\ h[i - 1] \in Seq(Byte) /\ items[i] \in Seq(Byte) /\ h[i] = h[i - 1] \o items[i]
    BY <1>2, <1>3, <1>5, <1>8 DEF Encodes
  <2>2. Encodes(f[i - 1], items[i], f[i])
    <3>1. CASE f[i - 1].ok
      <4>1. f[i] = EncodeItem(types[i], vs[i], f[i - 1])
        BY <1>6, <3>1
      <4> QED BY <1>1, <1>2, <2>1, <4>1, EncodeItemAsHost
    <3>2. CASE ~f[i - 1].ok
      <4>1. f[i] = f[i - 1]
        BY <1>6, <3>2
      <4> QED BY <2>1, <3>2, <4>1, EncodesNothing
    <3> QED BY <3>1, <3>2
  <2>3. Encodes(w, h[i], f[i])
    BY <2>1, <2>2, EncodesBoth
  <2> QED BY <2>3
<1> HIDE DEF T
<1>9. n \in T
  <2>1. \A i \in 0..n : i \in T
    BY <1>3, <1>7, <1>8, UpTo
  <2> QED BY <1>3, <2>1
<1> QED BY <1>3, <1>4, <1>5, <1>6, <1>9 DEF T
\* What there is to encode as a value of any type.
HasKind(type, v) ==
    IF type.kind \in {"tuple", "array"}
    THEN \A i \in 1..Len(type.items) : OfKind(type.items[i], v[i])
    ELSE OfKind(type, v)

LEMMA TypeKinds ==
    ASSUME NEW type \in Types
    PROVE  \/ type \in ItemTypes /\ type.kind \notin {"tuple", "array"}
           \/ type.kind \in {"tuple", "array"} /\ type.items \in Seq(ItemTypes)
<1>1. CASE type \in ItemTypes
  BY <1>1, ItemKinds
<1>2. CASE type \in [kind : {"tuple", "array"}, items : Seq(ItemTypes)]
  BY <1>2
<1> QED BY <1>1, <1>2 DEF Types

\* A list with its head.
LEMMA EncodeTupleAsHost ==
    ASSUME NEW types \in Seq(ItemTypes), NEW vs, NEW w \in Writers,
           \A i \in 1..Len(types) : OfKind(types[i], vs[i])
    PROVE  /\ HostList(types, vs) \in Seq(Byte)
           /\ Encodes(w, HostList(types, vs), EncodeTuple(types, vs, w))
<1> DEFINE head == HostHead(Array, Len(types))
           items == HostItems(types, vs)
           between == Encode(Array, Len(types), w)
           after == EncodeItems(types, vs, between)
<1>1. Array \in 0..7 /\ Len(types) \in Nat
  BY DEF Array
<1>2. head \in Seq(Byte) /\ Encodes(w, head, between)
  BY <1>1, HeadType, EncodeHead
<1>3. between \in Writers
  BY <1>2 DEF Encodes
<1>4. HostList(types, vs) = head \o items /\ EncodeTuple(types, vs, w) = after
  BY DEF HostList, EncodeTuple
<1> HIDE DEF between, head
<1>5. items \in Seq(Byte) /\ Encodes(between, items, after)
  BY <1>3, EncodeItemsAsHost
<1> HIDE DEF items, after
<1>6. Encodes(w, head \o items, after)
  BY <1>2, <1>5, EncodesBoth
<1> QED BY <1>2, <1>4, <1>5, <1>6

\* What a function returns is encoded as the host would encode it, or not at
\* all: whoever has the room knows before whether there will be an answer.
LEMMA EncodeValueAsHost ==
    ASSUME NEW type \in Types, NEW v, HasKind(type, v), NEW w \in Writers
    PROVE  /\ HostValue(type, v) \in Seq(Byte)
           /\ Encodes(w, HostValue(type, v), EncodeValue(type, v, w))
<1>1. CASE type \in ItemTypes /\ type.kind \notin {"tuple", "array"}
  BY <1>1, EncodeItemAsHost DEF HasKind, HostValue, EncodeValue
<1>2. CASE type.kind \in {"tuple", "array"} /\ type.items \in Seq(ItemTypes)
  BY <1>2, EncodeTupleAsHost DEF HasKind, HostValue, EncodeValue
<1> QED BY <1>1, <1>2, TypeKinds

-----------------------------------------------------------------------------
(* The schema *)

\* Bytes written and room left are together what they were.
Keeps(w, after) ==
    after \in Writers /\ Len(after.out) + after.room = Len(w.out) + w.room

LEMMA SequenceHeadKeeps ==
    ASSUME NEW w \in Writers, NEW extent \in Nat
    PROVE  Keeps(w, SequenceHead(extent, w))
<1> DEFINE head == Encode(Array, extent, w)
<1>1. head \in Writers /\ Len(head.out) + head.room = Len(w.out) + w.room
  BY EncodeHead DEF Encodes, Array
<1>2. SequenceHead(extent, w) = [head EXCEPT !.ok = w.ok]
  BY DEF SequenceHead
<1> HIDE DEF head
<1>3. w.ok \in BOOLEAN
  BY WriterType
<1>4. /\ SequenceHead(extent, w) \in Writers
      /\ SequenceHead(extent, w).out = head.out /\ SequenceHead(extent, w).room = head.room
  BY <1>1, <1>2, <1>3 DEF Writers
<1> QED BY <1>1, <1>4 DEF Keeps

\* The names of the types are bytes.
LEMMA ItemTypeType ==
    ASSUME NEW type
    PROVE  ItemType(type) \in Seq(Byte)
<1>1. 0 \in Byte /\ 1 \in Byte /\ 2 \in Byte /\ 3 \in Byte
  BY Widths
<1>2. PyAny \in Seq(Byte) /\ PyInt \in Seq(Byte) /\ PyStr \in Seq(Byte) /\ PyBytes \in Seq(Byte)
  BY <1>1 DEF PyAny, PyInt, PyStr, PyBytes
<1>3. ItemType(type) \in {PyAny, PyInt, PyStr, PyBytes}
  BY DEF ItemType
<1> QED BY <1>2, <1>3

LEMMA JoinedType ==
    ASSUME NEW types \in Seq(ItemTypes)
    PROVE  Joined(types) \in Seq(Byte)
<1> DEFINE n == Len(types)
           S == Seq(Byte)
           More(i, x) == x \o (IF i = 1 THEN << >> ELSE TupleNext) \o ItemType(types[i])
           step == [p \in (1..n) \X S |-> More(p[1], p[2])]
           P(f) == f = [i \in 0..n |-> IF i = 0 THEN << >> ELSE More(i, f[i - 1])]
           upTo == CHOOSE f : P(f)
<1>1. Joined(types) = upTo[n]
  BY DEF Joined
<1>2. n \in Nat /\ << >> \in S
  OBVIOUS
<1>3. ASSUME NEW i \in 1..n, NEW x \in S PROVE More(i, x) \in S
  <2>1. TupleNext \in Seq(Byte)
    BY Widths DEF TupleNext
  <2>2. ItemType(types[i]) \in Seq(Byte)
    BY ItemTypeType
  <2> DEFINE comma == IF i = 1 THEN << >> ELSE TupleNext
  <2>3. comma \in Seq(Byte)
    BY <2>1
  <2> HIDE DEF comma
  <2>4. x \o comma \o ItemType(types[i]) \in Seq(Byte)
    BY <2>2, <2>3
  <2> QED BY <2>4 DEF comma
<1> HIDE DEF n, S, More
<1>4. \A i \in 1..n, x \in S : step[<<i, x>>] = More(i, x) /\ step[<<i, x>>] \in S
  BY <1>3
<1>5. PICK f \in [0..n -> S] : Follow(f, n, << >>, step)
  <2> HIDE DEF step
  <2>1. \A i \in 1..n, x \in S : step[<<i, x>>] \in S
    BY <1>4
  <2> QED BY <1>2, <2>1, Recursion
<1>6. P(f)
  <2> HIDE DEF step
  <2>1. \A i \in 0..n : i = 0 \/ (i \in 1..n /\ f[i - 1] \in S)
    BY <1>2
  <2> QED BY <1>4, <1>5, <2>1 DEF Follow
<1>7. P(upTo)
  <2> HIDE DEF P
  <2> QED BY <1>6
<1> HIDE DEF upTo
<1> DEFINE T == {i \in 0..n : upTo[i] \in S}
<1>8. 0 \in T
  BY <1>2, <1>7
<1>9. ASSUME NEW i \in 1..n, i - 1 \in T PROVE i \in T
  <2>1. upTo[i] = More(i, upTo[i - 1])
    BY <1>2, <1>7
  <2> QED BY <1>3, <1>9, <2>1
<1> HIDE DEF T
<1>10. \A i \in 0..n : i \in T
  BY <1>2, <1>8, <1>9, UpTo
<1> QED BY <1>1, <1>2, <1>10 DEF T, S

LEMMA PythonTypeType ==
    ASSUME NEW type \in Types
    PROVE  PythonType(type) \in Seq(Byte)
<1>1. CASE type.kind # "tuple"
  BY <1>1, ItemTypeType DEF PythonType
<1>2. CASE type.kind = "tuple"
  <2>1. Joined(type.items) \in Seq(Byte)
    BY <1>2, TypeKinds, JoinedType
  <2>2. TupleOpen \in Seq(Byte) /\ TupleClose \in Seq(Byte)
    BY Widths DEF TupleOpen, TupleClose
  <2> QED BY <1>2, <2>1, <2>2 DEF PythonType
<1> QED BY <1>1, <1>2
\* A function of the table.
CallType ==
    [name : Seq(Byte), doc : Seq(Byte), argNames : Seq(Seq(Byte)),
     args : Seq(ArgTypes), ret : Types]

LEMMA CallsType ==
    ASSUME NEW n \in Functions
    PROVE  /\ Calls[n] \in CallType
           /\ Calls[n].args \in Seq(ArgTypes) /\ Calls[n].args \in Seq(ItemTypes)
           /\ Calls[n].ret \in Types
           /\ Calls[n].argNames \in Seq(Seq(Byte))
           /\ Len(Calls[n].argNames) = Len(Calls[n].args)
<1>1. Calls \in Seq(CallType) /\ Len(Calls[n].argNames) = Len(Calls[n].args)
  BY CallsAssumption DEF CallType
<1>2. Calls[n] \in CallType
  BY <1>1 DEF Functions
<1>3. /\ Calls[n].args \in Seq(ArgTypes) /\ Calls[n].ret \in Types
      /\ Calls[n].argNames \in Seq(Seq(Byte))
  BY <1>2 DEF CallType
<1>4. ArgTypes \subseteq ItemTypes
  BY DEF ItemTypes
<1>5. Calls[n].args \in Seq(ItemTypes)
  BY <1>3, <1>4
<1> QED BY <1>1, <1>2, <1>3, <1>5

LEMMA RowType ==
    ASSUME NEW n \in Functions
    PROVE  Row(Calls[n]) \in Seq(Seq(Byte))
<1> DEFINE call == Calls[n]
           S == Seq(Byte)
           Pair(i) == <<call.argNames[i], PythonType(call.args[i])>>
           pairs == [i \in 1..Len(call.args) |-> Pair(i)]
           first == <<call.name, call.doc, PythonType(call.ret)>>
<1>1. /\ call.name \in S /\ call.doc \in S /\ call.ret \in Types
      /\ call.args \in Seq(ItemTypes) /\ call.argNames \in Seq(S)
      /\ Len(call.argNames) = Len(call.args)
  BY CallsType DEF CallType
<1>2. ItemTypes \subseteq Types
  BY DEF Types
<1>3. ASSUME NEW i \in 1..Len(call.args) PROVE Pair(i) \in Seq(S)
  <2>1. call.args[i] \in Types
    BY <1>1, <1>2
  <2>2. call.argNames[i] \in S
    BY <1>1
  <2>3. PythonType(call.args[i]) \in S
    BY <2>1, PythonTypeType
  <2> HIDE DEF S
  <2> QED BY <2>2, <2>3
<1>4. first \in Seq(S)
  <2>1. PythonType(call.ret) \in S
    BY <1>1, PythonTypeType
  <2> HIDE DEF S
  <2> QED BY <1>1, <2>1
<1>5. pairs \in Seq(Seq(S))
  <2> DEFINE m == Len(call.args)
  <2>1. m \in Nat
    BY <1>1
  <2> HIDE DEF S, Pair, m
  <2>2. [i \in 1..m |-> Pair(i)] \in Seq(Seq(S))
    BY <1>3, <2>1 DEF m
  <2> QED BY <2>2 DEF m
<1>6. Row(call) = first \o FlattenSeq(pairs)
  <2>1. DOMAIN call.args = 1..Len(call.args)
    BY <1>1
  <2> QED BY <2>1, Zenon DEF Row
<1> HIDE DEF pairs, first, S
<1>7. FlattenSeq(pairs) \in Seq(S)
  <2>1. PICK f : /\ \A i \in 0..Len(pairs) : f[i] \in Seq(S)
                 /\ FlattenSeq(pairs) = f[Len(pairs)]
    BY <1>5, FlattenSteps
  <2>2. Len(pairs) \in 0..Len(pairs)
    BY <1>5
  <2> QED BY <2>1, <2>2
<1>8. first \o FlattenSeq(pairs) \in Seq(S)
  BY <1>4, <1>7
<1> QED BY <1>6, <1>8 DEF S

LEMMA EncodeRowKeeps ==
    ASSUME NEW n \in Functions, NEW w \in Writers
    PROVE  Keeps(w, EncodeRow(w, Calls[n]))
<1> DEFINE row == Row(Calls[n])
           types == [i \in DOMAIN row |-> Text]
           extent == 3 + 2 * Len(Calls[n].args)
           head == SequenceHead(extent, w)
<1>1. row \in Seq(Seq(Byte))
  BY RowType
<1>2. extent \in Nat
  BY CallsType
<1> HIDE DEF extent
<1>3. Keeps(w, head)
  BY <1>2, SequenceHeadKeeps
<1>4. EncodeRow(w, Calls[n]) = EncodeItems(types, row, head)
  BY DEF EncodeRow, extent
<1> HIDE DEF row, head
<1>5. types \in Seq(ItemTypes) /\ Len(types) = Len(row)
  <2>1. Text \in ItemTypes /\ DOMAIN row = 1..Len(row) /\ Len(row) \in Nat
    BY <1>1 DEF ItemTypes
  <2> QED BY <2>1
<1>6. \A i \in 1..Len(types) : OfKind(types[i], row[i])
  <2>1. ASSUME NEW i \in 1..Len(row) PROVE OfKind(types[i], row[i])
    <3>1. row[i] \in Seq(Byte) /\ types[i] = Text
      BY <1>1
    <3> QED BY <3>1 DEF OfKind, Text
  <2> QED BY <1>5, <2>1
<1> HIDE DEF types
<1>7. Keeps(head, EncodeItems(types, row, head))
  BY <1>3, <1>5, <1>6, EncodeItemsAsHost DEF Encodes, Keeps
<1> QED BY <1>3, <1>4, <1>7 DEF Keeps

\* However much of the schema fits.
LEMMA SchemaKeeps ==
    ASSUME NEW room \in Nat
    PROVE  Keeps(Writer(room), Schema(room))
<1> DEFINE n == Len(Calls)
           w == Writer(room)
           head == SequenceHead(n, w)
           More(i, x) == IF x.ok THEN EncodeRow(x, Calls[i]) ELSE x
           step == [p \in (1..n) \X Writers |-> More(p[1], p[2])]
           P(f) == f = [i \in 0..n |-> IF i = 0 THEN head ELSE More(i, f[i - 1])]
           upTo == CHOOSE f : P(f)
<1>1. Schema(room) = upTo[n]
  BY DEF Schema
<1>2. n \in Nat /\ w \in Writers
  BY CallsAssumption DEF Writer, Writers
<1>3. ASSUME NEW i \in 1..n, NEW x \in Writers
      PROVE  More(i, x) \in Writers /\ Keeps(x, More(i, x))
  <2>1. i \in Functions
    BY DEF Functions
  <2>2. CASE x.ok
    BY <2>1, <2>2, EncodeRowKeeps DEF Keeps
  <2>3. CASE ~x.ok
    BY <2>3 DEF Keeps
  <2> QED BY <2>2, <2>3
<1> HIDE DEF n, w
<1>4. Keeps(w, head) /\ head \in Writers
  BY <1>2, SequenceHeadKeeps DEF Keeps
<1> HIDE DEF More, head
<1>5. \A i \in 1..n, x \in Writers : step[<<i, x>>] = More(i, x) /\ step[<<i, x>>] \in Writers
  BY <1>3
<1>6. PICK f \in [0..n -> Writers] : Follow(f, n, head, step)
  <2> HIDE DEF step
  <2>1. \A i \in 1..n, x \in Writers : step[<<i, x>>] \in Writers
    BY <1>5
  <2> QED BY <1>2, <1>4, <2>1, Recursion
<1>7. P(f)
  <2> HIDE DEF step
  <2>1. \A i \in 0..n : i = 0 \/ (i \in 1..n /\ f[i - 1] \in Writers)
    BY <1>2
  <2> QED BY <1>5, <1>6, <2>1 DEF Follow
<1>8. P(upTo)
  <2> HIDE DEF P
  <2> QED BY <1>7
<1> HIDE DEF upTo
<1> DEFINE T == {i \in 0..n : Keeps(w, upTo[i])}
<1>9. 0 \in T
  BY <1>2, <1>4, <1>8
<1>10. ASSUME NEW i \in 1..n, i - 1 \in T PROVE i \in T
  <2>1. upTo[i] = More(i, upTo[i - 1])
    BY <1>2, <1>8
  <2>2. Keeps(w, upTo[i - 1])
    BY <1>10
  <2>3. Keeps(upTo[i - 1], upTo[i])
    BY <1>3, <2>1, <2>2 DEF Keeps
  <2>4. Keeps(w, upTo[i])
    BY <2>2, <2>3 DEF Keeps
  <2> QED BY <2>4
<1> HIDE DEF T
<1>11. \A i \in 0..n : i \in T
  BY <1>2, <1>9, <1>10, UpTo
<1> QED BY <1>1, <1>2, <1>11 DEF T, w
-----------------------------------------------------------------------------
(* Decoding *)

\* What is left of a span that ends at hi and does not begin before lo.
Spans(lo, hi) == {s \in [at : Int, size : Nat] : s.at >= lo /\ s.at + s.size = hi}

\* A memory that has bytes from lo to hi.
Holds(mem, lo, hi) == \A a \in lo..(hi - 1) : mem[a] \in Byte

\* Two memories with the same from lo to hi.
Agree(mem, other, lo, hi) == \A a \in lo..(hi - 1) : mem[a] = other[a]

LEMMA SpanType ==
    ASSUME NEW lo \in Int, NEW hi \in Int, NEW s \in Spans(lo, hi)
    PROVE  s.at \in Int /\ s.size \in Nat /\ s.at >= lo /\ s.at + s.size = hi
BY DEF Spans

\* A span that is not too short can be begun later.
LEMMA SkipSpan ==
    ASSUME NEW lo \in Int, NEW hi \in Int, NEW s \in Spans(lo, hi), NEW n \in Nat, n <= s.size
    PROVE  Skip(s, n) \in Spans(lo, hi)
<1>1. s.at + n \in Int /\ s.size - n \in Nat /\ s.at + n >= lo /\ s.at + n + (s.size - n) = hi
  BY SpanType
<1> QED BY <1>1 DEF Skip, Spans

\* An item of such a span.
IsItem(lo, hi, item) ==
    /\ item.ok = TRUE
    /\ item.minor \in Nat /\ item.minor < M
    /\ item.rest \in Spans(lo, hi)
    /\ item.value \in Seq(Byte) /\ Len(item.value) <= 8
    /\ Following(item.minor) # 0 => Len(item.value) = Following(item.minor)

\* unpack() gives an item of the span, and what is left of the span after it.
LEMMA UnpackType ==
    ASSUME NEW lo \in Int, NEW hi \in Int, NEW mem, Holds(mem, lo, hi),
           NEW buf \in Spans(lo, hi)
    PROVE  Unpack(mem, buf) = Failed(buf) \/ IsItem(lo, hi, Unpack(mem, buf))
<1> DEFINE minor == mem[buf.at] % MinorModulus
           major == mem[buf.at] \div MinorModulus
           n == Following(minor)
           value == IF n = 0 THEN <<minor>> ELSE [i \in 1..n |-> mem[buf.at + i]]
           item == [ok |-> TRUE, major |-> major, minor |-> minor, rest |-> Skip(buf, 1 + n),
                    value |-> value]
<1>1. CASE ~(buf.size >= 1 /\ HasItem(minor, buf))
  <2>1. Unpack(mem, buf) = Failed(buf)
    BY <1>1 DEF Unpack
  <2> QED BY <2>1
<1>2. CASE buf.size >= 1 /\ HasItem(minor, buf)
  <2>1. Unpack(mem, buf) = item
    BY <1>2 DEF Unpack
  <2>2. n \in {0, 1, 2, 4, 8}
    BY FollowingValue
  <2>3. buf.size >= 1 + n
    BY <1>2 DEF HasItem
  <2>4. mem[buf.at] \in Byte
    <3>1. buf.at \in lo..(hi - 1)
      BY <1>2, SpanType
    <3> QED BY <3>1 DEF Holds
  <2>5. minor \in Nat /\ minor < M /\ minor \in Byte
    BY <2>4, Widths DEF M
  <2> HIDE DEF minor, major, n
  <2>6. Skip(buf, 1 + n) \in Spans(lo, hi)
    BY <2>2, <2>3, SkipSpan
  <2>7. value \in Seq(Byte) /\ Len(value) <= 8 /\ (n # 0 => Len(value) = n)
    <3>1. CASE n = 0
      BY <2>5, <3>1
    <3>2. CASE n # 0
      <4>1. \A i \in 1..n : mem[buf.at + i] \in Byte
        <5>1. \A i \in 1..n : buf.at + i \in lo..(hi - 1)
          BY <2>2, <2>3, SpanType
        <5> QED BY <5>1 DEF Holds
      <4> QED BY <2>2, <3>2, <4>1
    <3> QED BY <3>1, <3>2
  <2> HIDE DEF value
  <2>8. /\ item.ok = TRUE /\ item.minor = minor /\ item.rest = Skip(buf, 1 + n)
        /\ item.value = value
    OBVIOUS
  <2> HIDE DEF item
  <2> QED BY <2>1, <2>5, <2>6, <2>7, <2>8 DEF n, IsItem
<1> QED BY <1>1, <1>2

\* and looks at nothing else.
LEMMA UnpackSame ==
    ASSUME NEW lo \in Int, NEW hi \in Int, NEW mem, NEW other, Agree(mem, other, lo, hi),
           NEW buf \in Spans(lo, hi)
    PROVE  Unpack(mem, buf) = Unpack(other, buf)
<1>1. CASE buf.size >= 1
  <2>1. mem[buf.at] = other[buf.at]
    <3>1. buf.at \in lo..(hi - 1)
      BY <1>1, SpanType
    <3> QED BY <3>1 DEF Agree
  <2> DEFINE minor == mem[buf.at] % MinorModulus
             n == Following(minor)
  <2>2. CASE ~HasItem(minor, buf)
    BY <2>1, <2>2 DEF Unpack
  <2>3. CASE HasItem(minor, buf)
    <3>1. n \in {0, 1, 2, 4, 8} /\ buf.size >= 1 + n
      BY <2>3, FollowingValue DEF HasItem
    <3>2. \A i \in 1..n : mem[buf.at + i] = other[buf.at + i]
      <4>1. \A i \in 1..n : buf.at + i \in lo..(hi - 1)
        BY <3>1, SpanType
      <4> QED BY <4>1 DEF Agree
    <3> QED BY <2>1, <3>2 DEF Unpack
  <2> QED BY <2>2, <2>3
<1>2. CASE ~(buf.size >= 1)
  BY <1>2 DEF Unpack
<1> QED BY <1>1, <1>2
\* n bytes make one of the numbers that n bytes have.
LEMMA NumberBound ==
    ASSUME NEW digits \in Seq(Byte), Len(digits) <= 8
    PROVE  Number(digits) \in Nat /\ Number(digits) < Values[Len(digits)]
<1> DEFINE n == Len(digits)
           More(i, x) == x * Base + digits[i]
           step == [p \in (1..n) \X Nat |-> More(p[1], p[2])]
           P(f) == f = [i \in 0..n |-> IF i = 0 THEN 0 ELSE More(i, f[i - 1])]
           upTo == CHOOSE f : P(f)
<1>1. Number(digits) = upTo[n]
  BY DEF Number
<1>2. n \in 0..8 /\ \A i \in 1..n : digits[i] \in Byte
  <2>1. n \in Nat
    OBVIOUS
  <2>2. ASSUME NEW i \in 1..n PROVE digits[i] \in Byte
    OBVIOUS
  <2>3. n <= 8
    OBVIOUS
  <2> HIDE DEF n
  <2> QED BY <2>1, <2>2, <2>3
<1>3. ASSUME NEW i \in 1..n, NEW x \in Nat PROVE More(i, x) \in Nat
  <2>1. \A b \in Byte : x * Base + b \in Nat
    BY Widths
  <2> QED BY <1>2, <2>1
<1>4. ASSUME NEW i \in 1..n, NEW x \in Nat, NEW v \in Nat, x < v PROVE More(i, x) < Base * v
  <2>1. digits[i] \in Nat /\ digits[i] < Base /\ Base \in Nat
    BY <1>2, Widths
  <2>2. PICK k \in Nat : v = x + 1 + k
    <3>1. v - x - 1 \in Nat /\ v = x + 1 + (v - x - 1)
      BY <1>4
    <3> QED BY <3>1
  <2>3. Base * v = x * Base + Base + k * Base /\ k * Base \in Nat
    BY <2>1, <2>2
  <2> QED BY <2>1, <2>3
<1> HIDE DEF n, More
<1>5. \A i \in 1..n, x \in Nat : step[<<i, x>>] = More(i, x) /\ step[<<i, x>>] \in Nat
  BY <1>3
<1>6. PICK f \in [0..n -> Nat] : Follow(f, n, 0, step)
  <2> HIDE DEF step
  <2>1. \A i \in 1..n, x \in Nat : step[<<i, x>>] \in Nat
    BY <1>5
  <2>2. n \in Nat
    BY <1>2
  <2> QED BY <2>1, <2>2, Recursion
<1>7. P(f)
  <2> HIDE DEF step
  <2>1. \A i \in 0..n : i = 0 \/ (i \in 1..n /\ f[i - 1] \in Nat)
    BY <1>2
  <2> QED BY <1>5, <1>6, <2>1 DEF Follow
<1>8. P(upTo)
  <2> HIDE DEF P
  <2> QED BY <1>7
<1> HIDE DEF upTo
<1> DEFINE T == {i \in 0..n : upTo[i] \in Nat /\ upTo[i] < Values[i]}
<1>9. 0 \in T
  <2>1. upTo[0] = 0
    BY <1>2, <1>8
  <2> QED BY <1>2, <2>1, ValuesSteps
<1>10. ASSUME NEW i \in 1..n, i - 1 \in T PROVE i \in T
  <2>1. upTo[i] = More(i, upTo[i - 1])
    BY <1>2, <1>8
  <2>2. upTo[i - 1] \in Nat /\ upTo[i - 1] < Values[i - 1]
    BY <1>10
  <2> HIDE DEF P
  <2>3. Values[i - 1] \in Nat /\ Values[i] = Base * Values[i - 1]
    <3>1. i \in 1..8 /\ i - 1 \in 0..8
      BY <1>2
    <3> QED BY <3>1, ValuesSteps, ValuesType
  <2>4. upTo[i] \in Nat /\ upTo[i] < Values[i]
    BY <1>3, <1>4, <2>1, <2>2, <2>3
  <2> QED BY <2>4
<1> HIDE DEF T
<1>11. \A i \in 0..n : i \in T
  <2>1. n \in Nat
    BY <1>2
  <2> QED BY <2>1, <1>9, <1>10, UpTo
<1> QED BY <1>1, <1>2, <1>11 DEF T, n

\* The values of an integer type.
Width(type) ==
    IF type.signed
    THEN -(Values[type.bytes] \div 2)..(Values[type.bytes] \div 2 - 1)
    ELSE 0..(Values[type.bytes] - 1)

\* {value->value} is one of them.
LEMMA WrapInWidth ==
    ASSUME NEW type, type.bytes \in Sizes, NEW digits \in Seq(Byte), Len(digits) <= 8,
           NEW complement \in BOOLEAN
    PROVE  Wrap(type, digits, complement) \in Width(type)
<1> DEFINE modulus == Values[type.bytes]
           from == Max({1, Len(digits) - type.bytes + 1})
           kept == SubSeq(digits, from, Len(digits))
           low == Number(kept)
           v == IF complement THEN modulus - 1 - low ELSE low
<1>1. type.bytes \in Nat /\ type.bytes > 0 /\ type.bytes \in 1..8
  BY DEF Sizes
<1>2. from \in Nat /\ from >= 1 /\ from >= Len(digits) - type.bytes + 1
  <2>1. ASSUME NEW a \in Int, NEW b \in Int PROVE Max({a, b}) = IF a >= b THEN a ELSE b
    BY DEF Max
  <2>2. Len(digits) - type.bytes + 1 \in Int
    BY <1>1
  <2>3. from = IF 1 >= Len(digits) - type.bytes + 1 THEN 1 ELSE Len(digits) - type.bytes + 1
    BY <2>1, <2>2
  <2> QED BY <2>2, <2>3
<1> HIDE DEF from
<1>3. kept \in Seq(Byte) /\ Len(kept) <= type.bytes
  BY <1>1, <1>2
<1> HIDE DEF kept
<1>4. low \in Nat /\ low < modulus
  <2>1. low \in Nat /\ low < Values[Len(kept)]
    BY <1>1, <1>3, NumberBound
  <2>2. Values[Len(kept)] <= modulus
    BY <1>1, <1>3, ValuesMore
  <2>3. modulus \in Nat /\ Values[Len(kept)] \in Nat
    <3>1. PICK k \in Nat : k = Len(kept) /\ k <= type.bytes
      BY <1>3
    <3>2. PICK t \in 1..8 : t = type.bytes
      BY <1>1
    <3>3. t \in 0..8 /\ k <= t
      BY <3>1, <3>2
    <3>4. k \in 0..8
      BY <3>3
    <3> QED BY <3>1, <3>2, <3>3, <3>4, ValuesType
  <2> QED BY <2>1, <2>2, <2>3
<1>5. modulus \in Nat /\ modulus > 0 /\ modulus % 2 = 0
  <2>1. type.bytes \in 0..8
    BY <1>1
  <2>2. modulus \in Nat /\ modulus > 0
    BY <2>1, ValuesType
  <2>3. modulus % 2 = 0
    BY <1>1, ValuesMore
  <2> QED BY <2>2, <2>3
<1>6. Wrap(type, digits, complement) =
          IF type.signed /\ v >= modulus \div 2 THEN v - modulus ELSE v
  BY DEF Wrap, kept, from
<1> HIDE DEF low, modulus
<1>7. v \in Nat /\ v < modulus
  BY <1>4, <1>5
<1> HIDE DEF v
<1>8. modulus = 2 * (modulus \div 2) /\ modulus \div 2 \in Nat
  BY <1>5
<1>9. CASE type.signed
  BY <1>6, <1>7, <1>8, <1>9 DEF Width, modulus
<1>10. CASE ~type.signed
  BY <1>6, <1>7, <1>5, <1>10 DEF Width, modulus
<1> QED BY <1>9, <1>10
\* The values that a type has.
HasType(type, v) ==
    /\ OfKind(type, v)
    /\ type.kind = "integer" => v \in Width(type)
    /\ type.kind = "floating" => Len(v) <= type.bytes

Decodables == Int \cup BOOLEAN \cup Seq(Byte)

\* A value of the type or a failure, and what is left of the span.
Gives(type, lo, hi, got) ==
    /\ got.ok \in BOOLEAN
    /\ got.rest \in Spans(lo, hi)
    /\ got.value \in Decodables
    /\ got.ok => HasType(type, got.value)

LEMMA ArgKinds ==
    ASSUME NEW type \in ArgTypes
    PROVE  \/ type.kind = "integer" /\ type.bytes \in Sizes /\ type.signed \in BOOLEAN
           \/ type.kind = "floating" /\ type.bytes \in {2, 4, 8}
           \/ type.kind = "bool"
           \/ type.kind = "span"
BY DEF ArgTypes, Bool, Span

LEMMA DecodedParts ==
    ASSUME NEW lo, NEW hi, NEW type, NEW item, IsItem(lo, hi, item),
           NEW ok \in BOOLEAN, NEW v \in Decodables, ok => HasType(type, v)
    PROVE  Gives(type, lo, hi, Decoded(item, ok, v))
<1>1. item.ok = TRUE /\ item.rest \in Spans(lo, hi)
  BY DEF IsItem
<1>2. /\ Decoded(item, ok, v).ok = ok
      /\ Decoded(item, ok, v).rest = item.rest
      /\ Decoded(item, ok, v).value = v
  BY <1>1 DEF Decoded
<1> QED BY <1>1, <1>2 DEF Gives

LEMMA DecodeIntegerType ==
    ASSUME NEW lo, NEW hi, NEW type, NEW item, IsItem(lo, hi, item),
           type.kind = "integer", type.bytes \in Sizes
    PROVE  Gives(type, lo, hi, DecodeInteger(type, item))
<1> DEFINE v == Wrap(type, item.value, item.major = Neg64)
<1>1. v \in Width(type)
  <2>1. (item.major = Neg64) \in BOOLEAN
    OBVIOUS
  <2> QED BY <2>1, WrapInWidth DEF IsItem
<1>2. DecodeInteger(type, item) \in {Decoded(item, TRUE, v), Decoded(item, FALSE, 0)}
  BY DEF DecodeInteger
<1> HIDE DEF v
<1>3. v \in Int
  BY <1>1 DEF Width
<1>4. HasType(type, v)
  BY <1>1, <1>3 DEF HasType, OfKind
<1>5. TRUE \in BOOLEAN /\ FALSE \in BOOLEAN /\ v \in Decodables /\ 0 \in Decodables
  BY <1>3 DEF Decodables
<1>6. Gives(type, lo, hi, Decoded(item, TRUE, v))
  BY <1>4, <1>5, DecodedParts
<1>7. Gives(type, lo, hi, Decoded(item, FALSE, 0))
  BY <1>5, DecodedParts
<1> QED BY <1>2, <1>6, <1>7

LEMMA DecodeFloatingType ==
    ASSUME NEW lo, NEW hi, NEW type, NEW item, IsItem(lo, hi, item), type.kind = "floating"
    PROVE  Gives(type, lo, hi, DecodeFloating(type, item))
<1> DEFINE ok == /\ item.major = Simple
                 /\ Following(item.minor) \in {2, 4, 8}
                 /\ Following(item.minor) <= type.bytes
<1>1. DecodeFloating(type, item) = Decoded(item, ok, item.value)
  BY DEF DecodeFloating
<1>2. ok \in BOOLEAN
  OBVIOUS
<1>3. item.value \in Decodables
  BY DEF IsItem, Decodables
<1>4. ASSUME ok PROVE HasType(type, item.value)
  <2>1. Len(item.value) = Following(item.minor) /\ item.value \in Seq(Byte)
    BY <1>4 DEF IsItem
  <2> QED BY <1>4, <2>1 DEF HasType, OfKind
<1> HIDE DEF ok
<1> QED BY <1>1, <1>2, <1>3, <1>4, DecodedParts

LEMMA DecodeBoolType ==
    ASSUME NEW lo, NEW hi, NEW type, NEW item, IsItem(lo, hi, item), type.kind = "bool"
    PROVE  Gives(type, lo, hi, DecodeBool(item))
<1> DEFINE ok == IsSimple(item, TrueValue) \/ IsSimple(item, FalseValue)
           v == item.minor = TrueValue
<1>1. DecodeBool(item) = Decoded(item, ok, v)
  BY DEF DecodeBool
<1>2. ok \in BOOLEAN /\ v \in BOOLEAN
  OBVIOUS
<1> HIDE DEF ok, v
<1>3. v \in Decodables
  BY <1>2 DEF Decodables
<1>4. HasType(type, v)
  BY <1>2 DEF HasType, OfKind
<1> QED BY <1>1, <1>2, <1>3, <1>4, DecodedParts

LEMMA DecodeSpanType ==
    ASSUME NEW lo \in Int, NEW hi \in Int, NEW mem, Holds(mem, lo, hi),
           NEW type, NEW item, IsItem(lo, hi, item), type.kind = "span"
    PROVE  Gives(type, lo, hi, DecodeSpan(mem, item))
<1> DEFINE ok == item.major = Bytes /\ item.minor # Indefinite
           v == [i \in 1..item.rest.size |-> mem[item.rest.at + i - 1]]
<1>1. DecodeSpan(mem, item) = Decoded(item, ok, v)
  BY DEF DecodeSpan
<1>2. ok \in BOOLEAN
  OBVIOUS
<1>3. v \in Seq(Byte)
  <2>1. /\ item.rest.at \in Int /\ item.rest.size \in Nat /\ item.rest.at >= lo
        /\ item.rest.at + item.rest.size = hi
    BY SpanType DEF IsItem
  <2>2. \A i \in 1..item.rest.size : mem[item.rest.at + i - 1] \in Byte
    <3>1. \A i \in 1..item.rest.size : item.rest.at + i - 1 \in lo..(hi - 1)
      BY <2>1
    <3> QED BY <3>1 DEF Holds
  <2> QED BY <2>1, <2>2
<1> HIDE DEF ok, v
<1>4. v \in Decodables
  BY <1>3 DEF Decodables
<1>5. HasType(type, v)
  BY <1>3 DEF HasType, OfKind
<1> QED BY <1>1, <1>2, <1>4, <1>5, DecodedParts

\* Cbor<T>::decode gives values of T.
LEMMA DecodeItemType ==
    ASSUME NEW lo \in Int, NEW hi \in Int, NEW mem, Holds(mem, lo, hi),
           NEW buf \in Spans(lo, hi), NEW type \in ArgTypes
    PROVE  Gives(type, lo, hi, DecodeItem(type, mem, buf))
<1> DEFINE head == Unpack(mem, buf)
<1>1. DecodeItem(type, mem, buf) = DecodeUnpacked(type, mem, head)
  BY DEF DecodeItem
<1>2. CASE head = Failed(buf)
  <2>1. DecodeUnpacked(type, mem, head) = Failed(buf)
    BY <1>2 DEF DecodeUnpacked, Failed
  <2> QED BY <1>1, <2>1 DEF Failed, Gives, Decodables
<1>3. CASE IsItem(lo, hi, head)
  <2> HIDE DEF head
  <2>1. head.ok = TRUE
    BY <1>3 DEF IsItem
  <2>2. CASE type.kind = "integer" /\ type.bytes \in Sizes
    BY <1>1, <1>3, <2>1, <2>2, DecodeIntegerType DEF DecodeUnpacked
  <2>3. CASE type.kind = "floating"
    BY <1>1, <1>3, <2>1, <2>3, DecodeFloatingType DEF DecodeUnpacked
  <2>4. CASE type.kind = "bool"
    BY <1>1, <1>3, <2>1, <2>4, DecodeBoolType DEF DecodeUnpacked
  <2>5. CASE type.kind = "span"
    BY <1>1, <1>3, <2>1, <2>5, DecodeSpanType DEF DecodeUnpacked
  <2> QED BY <2>2, <2>3, <2>4, <2>5, ArgKinds
<1> QED BY <1>2, <1>3, UnpackType

\* and looks only at the span.
LEMMA DecodeItemSame ==
    ASSUME NEW lo \in Int, NEW hi \in Int, NEW mem, NEW other, Holds(mem, lo, hi),
           Agree(mem, other, lo, hi), NEW buf \in Spans(lo, hi), NEW type \in ArgTypes
    PROVE  DecodeItem(type, mem, buf) = DecodeItem(type, other, buf)
<1> DEFINE item == Unpack(mem, buf)
<1>1. Unpack(other, buf) = item
  BY UnpackSame
<1>2. item = Failed(buf) \/ item.rest \in Spans(lo, hi)
  BY UnpackType DEF IsItem
<1> HIDE DEF item
<1>3. DecodeItem(type, mem, buf) = DecodeUnpacked(type, mem, item)
      /\ DecodeItem(type, other, buf) = DecodeUnpacked(type, other, item)
  BY <1>1 DEF DecodeItem, item
<1>4. CASE item = Failed(buf)
  BY <1>3, <1>4 DEF DecodeUnpacked, Failed
<1>5. CASE item.rest \in Spans(lo, hi)
  <2>1. DecodeSpan(mem, item) = DecodeSpan(other, item)
    <3>1. /\ item.rest.at \in Int /\ item.rest.size \in Nat /\ item.rest.at >= lo
          /\ item.rest.at + item.rest.size = hi
      BY <1>5, SpanType
    <3>2. \A i \in 1..item.rest.size : mem[item.rest.at + i - 1] = other[item.rest.at + i - 1]
      <4>1. \A i \in 1..item.rest.size : item.rest.at + i - 1 \in lo..(hi - 1)
        BY <3>1
      <4> QED BY <4>1 DEF Agree
    <3>3. [i \in 1..item.rest.size |-> mem[item.rest.at + i - 1]]
            = [i \in 1..item.rest.size |-> other[item.rest.at + i - 1]]
      BY <3>2
    <3> QED BY <3>3 DEF DecodeSpan
  <2>2. CASE type.kind = "integer" \/ type.kind = "floating" \/ type.kind = "bool"
    BY <1>3, <2>2 DEF DecodeUnpacked
  <2>3. CASE type.kind = "span"
    BY <1>3, <2>1, <2>3 DEF DecodeUnpacked
  <2> QED BY <2>2, <2>3, ArgKinds
<1> QED BY <1>2, <1>4, <1>5
\* One more item, behind those before.
OneMore(type, mem, before) ==
    LET item == DecodeItem(type, mem, before.rest)
    IN  [ok |-> before.ok /\ item.ok, rest |-> item.rest,
         value |-> Append(before.value, item.value)]

NoItems(buf) == [ok |-> TRUE, rest |-> buf, value |-> << >>]

\* What is left of the span, and what the items are, if they are as they should.
Lists(lo, hi) == [ok : BOOLEAN, rest : Spans(lo, hi), value : Seq(Decodables)]

LEMMA OneMoreType ==
    ASSUME NEW lo \in Int, NEW hi \in Int, NEW mem, Holds(mem, lo, hi),
           NEW type \in ArgTypes, NEW before \in Lists(lo, hi)
    PROVE  LET item == DecodeItem(type, mem, before.rest)
           IN  /\ OneMore(type, mem, before) \in Lists(lo, hi)
               /\ OneMore(type, mem, before).value = Append(before.value, item.value)
               /\ OneMore(type, mem, before).ok => before.ok /\ HasType(type, item.value)
<1> DEFINE item == DecodeItem(type, mem, before.rest)
           after == [ok |-> before.ok /\ item.ok, rest |-> item.rest,
                     value |-> Append(before.value, item.value)]
<1>1. before.ok \in BOOLEAN /\ before.rest \in Spans(lo, hi) /\ before.value \in Seq(Decodables)
  BY DEF Lists
<1>2. /\ item.ok \in BOOLEAN /\ item.rest \in Spans(lo, hi) /\ item.value \in Decodables
      /\ item.ok => HasType(type, item.value)
  BY <1>1, DecodeItemType DEF Gives
<1>3. OneMore(type, mem, before) = after
  BY DEF OneMore
<1> HIDE DEF item
<1> DEFINE ok == before.ok /\ item.ok
           value == Append(before.value, item.value)
<1>4. ok \in BOOLEAN /\ value \in Seq(Decodables)
  BY <1>1, <1>2
<1>5. after = [ok |-> ok, rest |-> item.rest, value |-> value]
  OBVIOUS
<1> HIDE DEF after, value
<1>6. after \in Lists(lo, hi) /\ after.value = value /\ (after.ok <=> ok)
  <2> HIDE DEF ok
  <2> QED BY <1>2, <1>4, <1>5 DEF Lists
<1> QED BY <1>2, <1>3, <1>6 DEF item, value

LEMMA DecodeItemsSteps ==
    ASSUME NEW lo \in Int, NEW hi \in Int, NEW mem, Holds(mem, lo, hi),
           NEW buf \in Spans(lo, hi), NEW types \in Seq(ArgTypes)
    PROVE  \E f : /\ \A i \in 0..Len(types) : f[i] \in Lists(lo, hi)
                  /\ f[0] = NoItems(buf)
                  /\ \A i \in 1..Len(types) : f[i] = OneMore(types[i], mem, f[i - 1])
                  /\ DecodeItems(types, mem, buf) = f[Len(types)]
<1> DEFINE n == Len(types)
           S == Lists(lo, hi)
           first == NoItems(buf)
           step == [p \in (1..n) \X S |-> OneMore(types[p[1]], mem, p[2])]
           P(f) == f = [i \in 0..n |-> IF i = 0 THEN first ELSE OneMore(types[i], mem, f[i - 1])]
           upTo == CHOOSE f : P(f)
<1>1. DecodeItems(types, mem, buf) = upTo[n]
  BY DEF DecodeItems, OneMore, NoItems
<1>2. n \in Nat /\ first \in S
  BY DEF NoItems, Lists
<1>3. ASSUME NEW i \in 1..n, NEW x \in S PROVE OneMore(types[i], mem, x) \in S
  <2>1. types[i] \in ArgTypes
    OBVIOUS
  <2> QED BY <2>1, OneMoreType
<1> HIDE DEF n, S, first
<1>4. \A i \in 1..n, x \in S : step[<<i, x>>] = OneMore(types[i], mem, x) /\ step[<<i, x>>] \in S
  BY <1>3
<1>5. PICK f \in [0..n -> S] : Follow(f, n, first, step)
  <2> HIDE DEF step
  <2>1. \A i \in 1..n, x \in S : step[<<i, x>>] \in S
    BY <1>4
  <2> QED BY <1>2, <2>1, Recursion
<1>6. P(f)
  <2> HIDE DEF step
  <2>1. \A i \in 0..n : i = 0 \/ (i \in 1..n /\ f[i - 1] \in S)
    BY <1>2
  <2> QED BY <1>4, <1>5, <2>1 DEF Follow
<1>7. P(upTo)
  <2> HIDE DEF P
  <2> QED BY <1>6
<1> HIDE DEF upTo
<1>8. upTo[0] = first /\ \A i \in 1..n : upTo[i] = OneMore(types[i], mem, upTo[i - 1])
  BY <1>2, <1>7
<1> HIDE DEF P
<1> DEFINE T == {i \in 0..n : upTo[i] \in S}
<1>9. 0 \in T
  BY <1>2, <1>8
<1>10. ASSUME NEW i \in 1..n, i - 1 \in T PROVE i \in T
  BY <1>3, <1>8, <1>10
<1> HIDE DEF T
<1>11. \A i \in 0..n : i \in T
  BY <1>2, <1>9, <1>10, UpTo
<1>12. \A i \in 0..n : upTo[i] \in S
  BY <1>11 DEF T
<1> QED BY <1>1, <1>8, <1>12 DEF n, S, first

\* If every item is decoded, the values are of the types, in order.
LEMMA DecodeItemsType ==
    ASSUME NEW lo \in Int, NEW hi \in Int, NEW mem, Holds(mem, lo, hi),
           NEW buf \in Spans(lo, hi), NEW types \in Seq(ArgTypes)
    PROVE  LET got == DecodeItems(types, mem, buf)
           IN  /\ got \in Lists(lo, hi)
               /\ Len(got.value) = Len(types)
               /\ got.ok => \A i \in 1..Len(types) : HasType(types[i], got.value[i])
<1> DEFINE n == Len(types)
<1>1. PICK f : /\ \A i \in 0..n : f[i] \in Lists(lo, hi)
               /\ f[0] = NoItems(buf)
               /\ \A i \in 1..n : f[i] = OneMore(types[i], mem, f[i - 1])
               /\ DecodeItems(types, mem, buf) = f[n]
  BY DecodeItemsSteps
<1>2. n \in Nat /\ \A i \in 1..n : types[i] \in ArgTypes
  OBVIOUS
<1> HIDE DEF n
<1> DEFINE T == {i \in 0..n : /\ Len(f[i].value) = i
                              /\ f[i].ok => \A j \in 1..i : HasType(types[j], f[i].value[j])}
<1>3. 0 \in T
  <2>1. f[0].value = << >>
    BY <1>1 DEF NoItems
  <2> QED BY <1>2, <2>1
<1>4. ASSUME NEW i \in 1..n, i - 1 \in T PROVE i \in T
  <2> DEFINE before == f[i - 1]
             item == DecodeItem(types[i], mem, before.rest)
  <2>1. before \in Lists(lo, hi) /\ types[i] \in ArgTypes /\ f[i] = OneMore(types[i], mem, before)
    BY <1>1, <1>2
  <2>2. /\ Len(before.value) = i - 1
        /\ before.ok => \A j \in 1..(i - 1) : HasType(types[j], before.value[j])
    BY <1>4
  <2> HIDE DEF before
  <2>3. /\ f[i].value = Append(before.value, item.value)
        /\ f[i].ok => before.ok /\ HasType(types[i], item.value)
    <3> DEFINE after == OneMore(types[i], mem, before)
    <3>1. /\ after.value = Append(before.value, item.value)
          /\ after.ok => before.ok /\ HasType(types[i], item.value)
      BY <2>1, OneMoreType
    <3> HIDE DEF after, item
    <3>2. f[i] = after
      BY <2>1 DEF after
    <3> QED BY <3>1, <3>2
  <2>4. item.value \in Decodables /\ before.value \in Seq(Decodables)
    <3>1. before.rest \in Spans(lo, hi) /\ before.value \in Seq(Decodables)
      BY <2>1 DEF Lists
    <3> QED BY <2>1, <3>1, DecodeItemType DEF Gives
  <2> HIDE DEF item
  <2>5. /\ Len(f[i].value) = i /\ f[i].value[i] = item.value
        /\ \A j \in 1..(i - 1) : f[i].value[j] = before.value[j]
    BY <2>2, <2>3, <2>4
  <2>6. f[i].ok => \A j \in 1..i : HasType(types[j], f[i].value[j])
    <3>1. \A j \in 1..i : j = i \/ j \in 1..(i - 1)
      OBVIOUS
    <3> QED BY <2>2, <2>3, <2>5, <3>1
  <2> QED BY <2>5, <2>6
<1> HIDE DEF T
<1>5. n \in T
  <2>1. \A i \in 0..n : i \in T
    BY <1>2, <1>3, <1>4, UpTo
  <2> QED BY <1>2, <2>1
<1>6. n \in 0..n
  BY <1>2
<1> QED BY <1>1, <1>5, <1>6 DEF T, n

LEMMA DecodeItemsSame ==
    ASSUME NEW lo \in Int, NEW hi \in Int, NEW mem, NEW other, Holds(mem, lo, hi),
           Agree(mem, other, lo, hi), NEW buf \in Spans(lo, hi), NEW types \in Seq(ArgTypes)
    PROVE  DecodeItems(types, mem, buf) = DecodeItems(types, other, buf)
<1> DEFINE n == Len(types)
<1>1. Holds(other, lo, hi)
  BY DEF Holds, Agree
<1>2. PICK f : /\ \A i \in 0..n : f[i] \in Lists(lo, hi)
               /\ f[0] = NoItems(buf)
               /\ \A i \in 1..n : f[i] = OneMore(types[i], mem, f[i - 1])
               /\ DecodeItems(types, mem, buf) = f[n]
  BY DecodeItemsSteps, SMTT(30)
<1>3. PICK g : /\ \A i \in 0..n : g[i] \in Lists(lo, hi)
               /\ g[0] = NoItems(buf)
               /\ \A i \in 1..n : g[i] = OneMore(types[i], other, g[i - 1])
               /\ DecodeItems(types, other, buf) = g[n]
  BY <1>1, DecodeItemsSteps
<1>4. n \in Nat /\ \A i \in 1..n : types[i] \in ArgTypes
  OBVIOUS
<1> HIDE DEF n
<1> DEFINE T == {i \in 0..n : f[i] = g[i]}
<1>5. 0 \in T
  BY <1>2, <1>3, <1>4
<1>6. ASSUME NEW i \in 1..n, i - 1 \in T PROVE i \in T
  <2>1. f[i - 1] = g[i - 1] /\ f[i - 1] \in Lists(lo, hi) /\ types[i] \in ArgTypes
    BY <1>2, <1>4, <1>6
  <2>2. f[i - 1].rest \in Spans(lo, hi)
    BY <2>1 DEF Lists
  <2>3. DecodeItem(types[i], mem, f[i - 1].rest) = DecodeItem(types[i], other, f[i - 1].rest)
    BY <2>1, <2>2, DecodeItemSame
  <2>4. OneMore(types[i], mem, f[i - 1]) = OneMore(types[i], other, f[i - 1])
    BY <2>3 DEF OneMore
  <2> QED BY <1>2, <1>3, <2>1, <2>4
<1> HIDE DEF T
<1>7. n \in T
  <2>1. \A i \in 0..n : i \in T
    BY <1>4, <1>5, <1>6, UpTo
  <2> QED BY <1>4, <2>1
<1> QED BY <1>2, <1>3, <1>7 DEF T

\* A tuple that is decoded has the values of its types, whatever the count in
\* its head.
LEMMA DecodeTupleType ==
    ASSUME NEW lo \in Int, NEW hi \in Int, NEW mem, Holds(mem, lo, hi),
           NEW buf \in Spans(lo, hi), NEW types \in Seq(ArgTypes),
           DecodeTuple(types, mem, buf).ok
    PROVE  LET values == DecodeTuple(types, mem, buf).value
           IN  /\ values \in Seq(Decodables) /\ Len(values) = Len(types)
               /\ \A i \in 1..Len(types) : HasType(types[i], values[i])
<1> DEFINE head == Unpack(mem, buf)
           items == DecodeItems(types, mem, head.rest)
<1>1. ~Failed(buf).ok
  BY DEF Failed
<1>2. DecodeTuple(types, mem, buf) = items /\ items.ok /\ head.ok
  BY <1>1 DEF DecodeTuple
<1>3. head.rest \in Spans(lo, hi)
  BY <1>1, <1>2, UnpackType DEF IsItem
<1> HIDE DEF head
<1>4. /\ items \in Lists(lo, hi) /\ Len(items.value) = Len(types)
      /\ items.ok => \A i \in 1..Len(types) : HasType(types[i], items.value[i])
  BY <1>3, DecodeItemsType
<1> HIDE DEF items
<1> QED BY <1>2, <1>4 DEF Lists

LEMMA DecodeTupleSame ==
    ASSUME NEW lo \in Int, NEW hi \in Int, NEW mem, NEW other, Holds(mem, lo, hi),
           Agree(mem, other, lo, hi), NEW buf \in Spans(lo, hi), NEW types \in Seq(ArgTypes)
    PROVE  DecodeTuple(types, mem, buf) = DecodeTuple(types, other, buf)
<1> DEFINE head == Unpack(mem, buf)
           items == DecodeItems(types, mem, head.rest)
<1>1. Unpack(other, buf) = head
  BY UnpackSame
<1>2. CASE head = Failed(buf)
  <2>1. ~head.ok
    BY <1>2 DEF Failed
  <2> QED BY <1>1, <2>1 DEF DecodeTuple
<1>3. CASE IsItem(lo, hi, head)
  <2>1. head.rest \in Spans(lo, hi)
    BY <1>3 DEF IsItem
  <2> HIDE DEF head
  <2>2. items = DecodeItems(types, other, head.rest)
    BY <2>1, DecodeItemsSame
  <2>3. items.rest \in Spans(lo, hi)
    BY <2>1, DecodeItemsType DEF Lists
  <2> HIDE DEF items
  <2>4. Unpack(mem, items.rest) = Unpack(other, items.rest)
    BY <2>3, UnpackSame
  <2> QED BY <1>1, <2>2, <2>4 DEF DecodeTuple, head, items
<1> QED BY <1>2, <1>3, UnpackType
-----------------------------------------------------------------------------
(* The checksum *)

LEMMA XorType ==
    ASSUME NEW a \in Nat, NEW b \in Nat
    PROVE  Xor(a, b) \in Nat
<1> DEFINE Bit(w) == w * ((a \div w + b \div w) % 2)
<1>1. ASSUME NEW w \in {1, 2, 4, 8, 16, 32, 64, 128} PROVE Bit(w) \in Nat
  <2>1. a \div w \in Nat /\ b \div w \in Nat
    OBVIOUS
  <2>2. ASSUME NEW x \in Nat PROVE x % 2 \in Nat
    OBVIOUS
  <2>3. (a \div w + b \div w) % 2 \in Nat
    BY <2>1, <2>2
  <2> QED BY <2>3
<1>2. Xor(a, b) = Bit(1) + Bit(2) + Bit(4) + Bit(8) + Bit(16) + Bit(32) + Bit(64) + Bit(128)
  BY DEF Xor
<1> HIDE DEF Bit
<1> QED BY <1>1, <1>2

LEMMA HashModulusType == HashModulus \in Nat /\ HashModulus > 0
<1>1. Base \in Nat /\ Base > 0
  BY Widths
<1>2. \A x, y \in Nat : x > 0 /\ y > 0 => x * y \in Nat /\ x * y > 0
  OBVIOUS
<1>3. Base * Base \in Nat /\ Base * Base > 0
  BY <1>1, <1>2
<1>4. Base * Base * Base \in Nat /\ Base * Base * Base > 0
  BY <1>1, <1>2, <1>3
<1>5. Base * Base * Base * Base \in Nat /\ Base * Base * Base * Base > 0
  BY <1>1, <1>2, <1>4
<1> QED BY <1>5 DEF HashModulus

LEMMA FeedType ==
    ASSUME NEW hash \in Nat, NEW byte \in Byte
    PROVE  Feed(hash, byte) \in Nat /\ Feed(hash, byte) < HashModulus
<1>1. Base \in Nat /\ Base > 0 /\ byte \in Nat /\ Prime \in Nat
  BY Widths, CcfPacketsAssumption
<1>2. hash % Base \in Nat /\ (hash \div Base) * Base \in Nat
  BY <1>1
<1>3. Xor(hash % Base, byte) \in Nat
  BY <1>1, <1>2, XorType
<1> DEFINE mixed == (hash \div Base) * Base + Xor(hash % Base, byte)
<1>4. mixed \in Nat
  BY <1>2, <1>3
<1>5. Feed(hash, byte) = (mixed * Prime) % HashModulus
  BY DEF Feed
<1> HIDE DEF mixed
<1>6. mixed * Prime \in Nat
  BY <1>1, <1>4
<1> QED BY <1>5, <1>6, HashModulusType

LEMMA FeedInHashes ==
    ASSUME NEW hash \in Hashes, NEW byte \in Byte
    PROVE  Feed(hash, byte) \in Hashes
<1>1. hash \in Nat
  BY DEF Hashes
<1>2. Feed(hash, byte) \in Nat /\ Feed(hash, byte) < HashModulus
  BY <1>1, FeedType
<1> QED BY <1>2, HashModulusType DEF Hashes

\* What the last bytes make of a hash, byte by byte.
Lasts(bytes, last) ==
    /\ last \in [0..Len(bytes) -> [Hashes -> Hashes]]
    /\ \A hash \in Hashes : last[0][hash] = hash
    /\ \A i \in 1..Len(bytes), hash \in Hashes :
          last[i][hash] = last[i - 1][Feed(hash, bytes[Len(bytes) - i + 1])]

LEMMA ChecksumSteps ==
    ASSUME NEW bytes \in Seq(Byte)
    PROVE  \E last : Lasts(bytes, last) /\ Checksum(bytes) = last[Len(bytes)][InitialHash]
<1> DEFINE n == Len(bytes)
           S == [Hashes -> Hashes]
           base == [hash \in Hashes |-> hash]
           After(i, g) == [hash \in Hashes |-> g[Feed(hash, bytes[n - i + 1])]]
           step == [p \in (1..n) \X S |-> After(p[1], p[2])]
           P(f) == f = [i \in 0..n |-> IF i = 0 THEN base ELSE After(i, f[i - 1])]
           last == CHOOSE f : P(f)
<1>1. Checksum(bytes) = last[n][InitialHash]
  BY DEF Checksum
<1>2. n \in Nat /\ base \in S
  OBVIOUS
<1>3. ASSUME NEW i \in 1..n, NEW g \in S PROVE After(i, g) \in S
  <2>1. ASSUME NEW hash \in Hashes PROVE g[Feed(hash, bytes[n - i + 1])] \in Hashes
    <3>1. n - i + 1 \in 1..n
      BY <1>2
    <3>2. bytes[n - i + 1] \in Byte
      BY <3>1
    <3>3. Feed(hash, bytes[n - i + 1]) \in Hashes
      BY <3>2, FeedInHashes
    <3> QED BY <3>3
  <2> QED BY <2>1
<1> HIDE DEF n, base, S
<1>4. \A i \in 1..n, g \in S : step[<<i, g>>] = After(i, g) /\ step[<<i, g>>] \in S
  <2> HIDE DEF After
  <2> QED BY <1>3
<1>5. PICK f \in [0..n -> S] : Follow(f, n, base, step)
  <2> HIDE DEF step
  <2>1. \A i \in 1..n, g \in S : step[<<i, g>>] \in S
    BY <1>4
  <2> QED BY <1>2, <2>1, Recursion
<1>6. P(f)
  <2> HIDE DEF step, After
  <2>1. \A i \in 0..n : i = 0 \/ (i \in 1..n /\ f[i - 1] \in S)
    BY <1>2
  <2> QED BY <1>4, <1>5, <2>1 DEF Follow
<1>7. P(last)
  <2> HIDE DEF P
  <2> QED BY <1>6
<1> HIDE DEF last
<1>8. last[0] = base /\ DOMAIN last = 0..n /\ \A i \in 1..n : last[i] = After(i, last[i - 1])
  <2> HIDE DEF After
  <2>1. 0 \in 0..n /\ \A i \in 1..n : i \in 0..n /\ i # 0
    BY <1>2
  <2> QED BY <1>7, <2>1
<1> DEFINE T == {i \in 0..n : last[i] \in S}
<1>9. 0 \in T
  BY <1>2, <1>8
<1>10. ASSUME NEW i \in 1..n, i - 1 \in T PROVE i \in T
  <2> HIDE DEF After
  <2>1. last[i] = After(i, last[i - 1]) /\ last[i - 1] \in S
    BY <1>8, <1>10
  <2>2. last[i] \in S
    BY <1>3, <2>1
  <2> QED BY <2>2
<1>11. \A i \in 0..n : last[i] \in S
  <2>1. \A i \in 0..n : i \in T
    <3> HIDE DEF T
    <3> QED BY <1>2, <1>9, <1>10, UpTo
  <2> QED BY <2>1
<1>12. last \in [0..n -> S]
  <2>1. last = [i \in 0..n |-> last[i]]
    BY <1>7
  <2> QED BY <1>11, <2>1
<1>13. \A hash \in Hashes : last[0][hash] = hash
  BY <1>8 DEF base
<1>14. \A i \in 1..n, hash \in Hashes :
          last[i][hash] = last[i - 1][Feed(hash, bytes[n - i + 1])]
  <2> TAKE i \in 1..n, hash \in Hashes
  <2>1. last[i] = After(i, last[i - 1])
    <3> HIDE DEF After
    <3> QED BY <1>8
  <2> QED BY <2>1
<1>15. Lasts(bytes, last)
  BY <1>12, <1>13, <1>14 DEF Lasts, n, S
<1> QED BY <1>1, <1>15 DEF n

LEMMA ChecksumType ==
    ASSUME NEW bytes \in Seq(Byte)
    PROVE  Checksum(bytes) \in Nat /\ Checksum(bytes) \in Hashes
<1>1. PICK last : Lasts(bytes, last) /\ Checksum(bytes) = last[Len(bytes)][InitialHash]
  BY ChecksumSteps
<1>2. InitialHash \in Hashes
  BY CcfPacketsAssumption DEF Hashes
<1>3. last[Len(bytes)] \in [Hashes -> Hashes]
  <2>1. Len(bytes) \in 0..Len(bytes)
    OBVIOUS
  <2> QED BY <1>1, <2>1 DEF Lasts
<1>4. Checksum(bytes) \in Hashes
  BY <1>1, <1>2, <1>3
<1> QED BY <1>4, HashModulusType DEF Hashes

LEMMA LittleEndianType ==
    ASSUME NEW hash \in Nat
    PROVE  LittleEndian(hash) \in Seq(Byte) /\ Len(LittleEndian(hash)) = HashSize
<1>1. Base \in Nat /\ Base > 0
  BY Widths
<1>2. \A x, y \in Nat : x > 0 /\ y > 0 => x * y \in Nat /\ x * y > 0
  OBVIOUS
<1>3. \A x, y \in Nat : y > 0 => x \div y \in Nat
  OBVIOUS
<1>4. Base * Base \in Nat /\ Base * Base > 0
  BY <1>1, <1>2
<1>5. Base * Base * Base \in Nat /\ Base * Base * Base > 0
  BY <1>1, <1>2, <1>4
<1>6. /\ hash \div Base \in Nat /\ hash \div (Base * Base) \in Nat
      /\ hash \div (Base * Base * Base) \in Nat
  BY <1>1, <1>3, <1>4, <1>5
<1>7. \A x \in Nat : x % Base \in Byte
  BY Widths
<1>8. /\ hash % Base \in Byte /\ (hash \div Base) % Base \in Byte
      /\ (hash \div (Base * Base)) % Base \in Byte
      /\ (hash \div (Base * Base * Base)) % Base \in Byte
  BY <1>6, <1>7
<1>9. ASSUME NEW a \in Byte, NEW b \in Byte, NEW c \in Byte, NEW d \in Byte
      PROVE  <<a, b, c, d>> \in Seq(Byte) /\ Len(<<a, b, c, d>>) = 4
  OBVIOUS
<1> QED BY <1>8, <1>9 DEF LittleEndian, HashSize

\* What putAtEnd() adds is HashSize bytes, and checkAtEnd() finds them right.
LEMMA PutAtEndType ==
    ASSUME NEW bytes \in Seq(Byte)
    PROVE  /\ PutAtEnd(bytes) \in Seq(Byte)
           /\ Len(PutAtEnd(bytes)) = Len(bytes) + HashSize
           /\ \A i \in 1..Len(bytes) : PutAtEnd(bytes)[i] = bytes[i]
           /\ SubSeq(PutAtEnd(bytes), 1, Len(bytes)) = bytes
           /\ CheckAtEnd(PutAtEnd(bytes))
<1> DEFINE sum == LittleEndian(Checksum(bytes))
           packet == bytes \o sum
<1>1. sum \in Seq(Byte) /\ Len(sum) = 4 /\ HashSize = 4
  BY ChecksumType, LittleEndianType DEF HashSize
<1>2. PutAtEnd(bytes) = packet
  BY DEF PutAtEnd
<1> HIDE DEF sum
<1>3. /\ packet \in Seq(Byte) /\ Len(packet) = Len(bytes) + 4 /\ Len(bytes) \in Nat
      /\ \A i \in 1..Len(bytes) : packet[i] = bytes[i]
      /\ \A i \in 1..4 : packet[Len(bytes) + i] = sum[i]
  <2>1. /\ packet \in Seq(Byte) /\ Len(packet) = Len(bytes) + Len(sum) /\ Len(bytes) \in Nat
        /\ \A i \in 1..Len(bytes) : packet[i] = bytes[i]
        /\ \A i \in 1..Len(sum) : packet[Len(bytes) + i] = sum[i]
    BY <1>1, JoinParts
  <2> HIDE DEF packet
  <2> QED BY <1>1, <2>1
<1> HIDE DEF packet
<1>4. SubSeq(packet, 1, Len(bytes)) = bytes
  BY <1>3
<1>5. SubSeq(packet, Len(bytes) + 1, Len(packet)) = sum
  <2> DEFINE last == SubSeq(packet, Len(bytes) + 1, Len(packet))
  <2>1. last \in Seq(Byte) /\ Len(last) = 4 /\ \A i \in 1..4 : last[i] = packet[Len(bytes) + i]
    BY <1>3
  <2> HIDE DEF last
  <2>2. \A i \in 1..4 : last[i] = sum[i]
    BY <1>3, <2>1
  <2>3. last = sum
    BY <1>1, <2>1, <2>2
  <2> QED BY <2>3 DEF last
<1>6. CheckAtEnd(packet)
  <2>1. Len(packet) - HashSize = Len(bytes)
    BY <1>1, <1>3
  <2>2. Len(bytes) >= 0
    BY <1>3
  <2> QED BY <1>4, <1>5, <2>1, <2>2, Zenon DEF CheckAtEnd, sum
<1> QED BY <1>1, <1>2, <1>3, <1>4, <1>6
-----------------------------------------------------------------------------
(* A changed byte.  With an odd prime and a modulus that is a power of two, *)
(* what a byte makes of hashes is one to one, and so is what bytes make of  *)
(* a hash one byte at a time: whichever byte is changed, the hashes differ  *)
(* from there on.                                                           *)

\* There are two such bytes.
LEMMA BaseValues == Base \in {128, 256}
<1>1. PICK n \in 1..8 : Base = 2^n
  BY CcfPacketsAssumption
<1>2. Base >= 72
  BY Widths
<1>3. ASSUME NEW m \in {1, 2, 3, 4, 5, 6}, n = m PROVE FALSE
  <2>1. 2^1 = 2 /\ 2^2 = 4 /\ 2^3 = 8 /\ 2^4 = 16 /\ 2^5 = 32 /\ 2^6 = 64
    OBVIOUS
  <2>2. CASE m = 1
    BY <1>1, <1>2, <1>3, <2>1, <2>2
  <2>3. CASE m = 2
    BY <1>1, <1>2, <1>3, <2>1, <2>3
  <2>4. CASE m = 3
    BY <1>1, <1>2, <1>3, <2>1, <2>4
  <2>5. CASE m = 4
    BY <1>1, <1>2, <1>3, <2>1, <2>5
  <2>6. CASE m = 5
    BY <1>1, <1>2, <1>3, <2>1, <2>6
  <2>7. CASE m = 6
    BY <1>1, <1>2, <1>3, <2>1, <2>7
  <2> QED BY <2>2, <2>3, <2>4, <2>5, <2>6, <2>7
<1>4. CASE n = 7
  <2>1. 2^7 = 128
    OBVIOUS
  <2> QED BY <1>1, <1>4, <2>1
<1>5. CASE n = 8
  <2>1. 2^8 = 256
    OBVIOUS
  <2> QED BY <1>1, <1>5, <2>1
<1>6. n \in {1, 2, 3, 4, 5, 6} \/ n = 7 \/ n = 8
  OBVIOUS
<1> QED BY <1>3, <1>4, <1>5, <1>6

Weights == {1, 2, 4, 8, 16, 32, 64, 128}

\* Its bits are what a byte is.
Bit(a, w) == (a \div w) % 2

LEMMA BitsOf ==
    ASSUME NEW a \in 0..255
    PROVE  a = Bit(a, 1) + 2 * Bit(a, 2) + 4 * Bit(a, 4) + 8 * Bit(a, 8) + 16 * Bit(a, 16)
                   + 32 * Bit(a, 32) + 64 * Bit(a, 64) + 128 * Bit(a, 128)
<1>1. /\ a \div 1 = a
      /\ a \div 1 = 2 * (a \div 2) + Bit(a, 1)
      /\ a \div 2 = 2 * (a \div 4) + Bit(a, 2)
      /\ a \div 4 = 2 * (a \div 8) + Bit(a, 4)
      /\ a \div 8 = 2 * (a \div 16) + Bit(a, 8)
  BY DEF Bit
<1>2. /\ a \div 16 = 2 * (a \div 32) + Bit(a, 16)
      /\ a \div 32 = 2 * (a \div 64) + Bit(a, 32)
      /\ a \div 64 = 2 * (a \div 128) + Bit(a, 64)
      /\ a \div 128 = Bit(a, 128)
  BY DEF Bit
<1>3. \A w \in {1, 2, 4, 8, 16, 32, 64, 128} : Bit(a, w) \in Int /\ a \div w \in Int
  BY DEF Bit
<1> QED BY <1>1, <1>2, <1>3

\* The bits of an exclusive or are the sums of the bits.
Mixed(a, b, w) == (Bit(a, w) + Bit(b, w)) % 2

LEMMA XorBits ==
    ASSUME NEW a \in 0..255, NEW b \in 0..255
    PROVE  Xor(a, b) = Mixed(a, b, 1) + 2 * Mixed(a, b, 2) + 4 * Mixed(a, b, 4)
                           + 8 * Mixed(a, b, 8) + 16 * Mixed(a, b, 16) + 32 * Mixed(a, b, 32)
                           + 64 * Mixed(a, b, 64) + 128 * Mixed(a, b, 128)
<1>1. ASSUME NEW w \in {1, 2, 4, 8, 16, 32, 64, 128}
      PROVE  (a \div w + b \div w) % 2 = Mixed(a, b, w)
  <2>1. a \div w \in Nat /\ b \div w \in Nat
    OBVIOUS
  <2>2. \A x, y \in Nat : (x + y) % 2 = ((x % 2) + (y % 2)) % 2
    OBVIOUS
  <2> QED BY <2>1, <2>2 DEF Mixed, Bit
<1>2. 1 * Mixed(a, b, 1) = Mixed(a, b, 1)
  BY DEF Mixed, Bit
<1> QED BY <1>1, <1>2 DEF Xor

\* Eight bits are the number's only ones.
LEMMA SameBits ==
    ASSUME NEW f \in [0..7 -> 0..1], NEW g \in [0..7 -> 0..1],
           f[0] + 2 * f[1] + 4 * f[2] + 8 * f[3] + 16 * f[4] + 32 * f[5] + 64 * f[6]
               + 128 * f[7]
           = g[0] + 2 * g[1] + 4 * g[2] + 8 * g[3] + 16 * g[4] + 32 * g[5] + 64 * g[6]
               + 128 * g[7]
    PROVE  \A i \in 0..7 : f[i] = g[i]
<1>1. \A i \in 0..7 : f[i] \in 0..1 /\ g[i] \in 0..1
  OBVIOUS
<1>2. f[0] = g[0]
  BY <1>1
<1>3. f[1] = g[1]
  BY <1>1, <1>2
<1>4. f[2] = g[2]
  BY <1>1, <1>2, <1>3
<1>5. f[3] = g[3]
  BY <1>1, <1>2, <1>3, <1>4
<1>6. f[4] = g[4] /\ f[5] = g[5]
  BY <1>1, <1>2, <1>3, <1>4, <1>5
<1>7. f[6] = g[6] /\ f[7] = g[7]
  BY <1>1, <1>2, <1>3, <1>4, <1>5, <1>6
<1> QED BY <1>2, <1>3, <1>4, <1>5, <1>6, <1>7

LEMMA MixedType ==
    ASSUME NEW a \in 0..255, NEW b \in 0..255
    PROVE  \A w \in Weights :
              Mixed(a, b, w) \in 0..1 /\ Bit(a, w) \in 0..1 /\ Bit(b, w) \in 0..1
BY DEF Mixed, Bit, Weights

LEMMA ByteRange == Byte \subseteq 0..255 /\ Base \in Nat /\ Base > 0
BY BaseValues DEF Byte

LEMMA XorByte ==
    ASSUME NEW a \in Byte, NEW b \in Byte
    PROVE  Xor(a, b) \in Byte
<1>1. a \in 0..255 /\ b \in 0..255 /\ a < Base /\ b < Base
  BY ByteRange DEF Byte
<1>2. Xor(a, b) = Mixed(a, b, 1) + 2 * Mixed(a, b, 2) + 4 * Mixed(a, b, 4)
          + 8 * Mixed(a, b, 8) + 16 * Mixed(a, b, 16) + 32 * Mixed(a, b, 32)
          + 64 * Mixed(a, b, 64) + 128 * Mixed(a, b, 128)
  BY <1>1, XorBits
<1>3. \A w \in Weights : Mixed(a, b, w) \in 0..1
  BY <1>1, MixedType
<1>4. 1 \in Weights /\ 2 \in Weights /\ 4 \in Weights /\ 8 \in Weights /\ 16 \in Weights
      /\ 32 \in Weights /\ 64 \in Weights /\ 128 \in Weights
  BY DEF Weights
<1>5. Base = 128 => Mixed(a, b, 128) = 0
  BY <1>1 DEF Mixed, Bit
<1>6. CASE Base = 128
  <2>1. Xor(a, b) \in 0..127
    BY <1>2, <1>3, <1>4, <1>5, <1>6
  <2> QED BY <1>6, <2>1 DEF Byte
<1>7. CASE Base = 256
  <2>1. Xor(a, b) \in 0..255
    BY <1>2, <1>3, <1>4
  <2> QED BY <1>7, <2>1 DEF Byte
<1> QED BY <1>6, <1>7, BaseValues

LEMMA XorCommutes ==
    ASSUME NEW a \in 0..255, NEW b \in 0..255
    PROVE  Xor(a, b) = Xor(b, a)
<1>1. \A w \in {1, 2, 4, 8, 16, 32, 64, 128} : Mixed(a, b, w) = Mixed(b, a, w)
  BY DEF Mixed, Bit
<1>2. Xor(a, b) = Mixed(a, b, 1) + 2 * Mixed(a, b, 2) + 4 * Mixed(a, b, 4)
          + 8 * Mixed(a, b, 8) + 16 * Mixed(a, b, 16) + 32 * Mixed(a, b, 32)
          + 64 * Mixed(a, b, 64) + 128 * Mixed(a, b, 128)
  BY XorBits, Zenon
<1>3. Xor(b, a) = Mixed(b, a, 1) + 2 * Mixed(b, a, 2) + 4 * Mixed(b, a, 4)
          + 8 * Mixed(b, a, 8) + 16 * Mixed(b, a, 16) + 32 * Mixed(b, a, 32)
          + 64 * Mixed(b, a, 64) + 128 * Mixed(b, a, 128)
  BY XorBits, Zenon
<1> QED BY <1>1, <1>2, <1>3

LEMMA XorOneToOne ==
    ASSUME NEW a \in 0..255, NEW b \in 0..255, NEW c \in 0..255, Xor(a, b) = Xor(a, c)
    PROVE  b = c
<1> DEFINE weight == [i \in 0..7 |->
               IF i = 0 THEN 1 ELSE IF i = 1 THEN 2 ELSE IF i = 2 THEN 4
               ELSE IF i = 3 THEN 8 ELSE IF i = 4 THEN 16 ELSE IF i = 5 THEN 32
               ELSE IF i = 6 THEN 64 ELSE 128]
           f == [i \in 0..7 |-> Mixed(a, b, weight[i])]
           g == [i \in 0..7 |-> Mixed(a, c, weight[i])]
<1>1. /\ weight[0] = 1 /\ weight[1] = 2 /\ weight[2] = 4 /\ weight[3] = 8
      /\ weight[4] = 16 /\ weight[5] = 32 /\ weight[6] = 64 /\ weight[7] = 128
  OBVIOUS
<1>2. \A i \in 0..7 : weight[i] \in Weights
  BY DEF Weights
<1> HIDE DEF weight
<1>3. f \in [0..7 -> 0..1] /\ g \in [0..7 -> 0..1]
  <2>1. \A i \in 0..7 : Mixed(a, b, weight[i]) \in 0..1 /\ Mixed(a, c, weight[i]) \in 0..1
    BY <1>2, MixedType
  <2> QED BY <2>1
<1>4. /\ f[0] = Mixed(a, b, 1) /\ f[1] = Mixed(a, b, 2) /\ f[2] = Mixed(a, b, 4)
      /\ f[3] = Mixed(a, b, 8) /\ f[4] = Mixed(a, b, 16) /\ f[5] = Mixed(a, b, 32)
      /\ f[6] = Mixed(a, b, 64) /\ f[7] = Mixed(a, b, 128)
  BY <1>1
<1>5. /\ g[0] = Mixed(a, c, 1) /\ g[1] = Mixed(a, c, 2) /\ g[2] = Mixed(a, c, 4)
      /\ g[3] = Mixed(a, c, 8) /\ g[4] = Mixed(a, c, 16) /\ g[5] = Mixed(a, c, 32)
      /\ g[6] = Mixed(a, c, 64) /\ g[7] = Mixed(a, c, 128)
  BY <1>1
<1> HIDE DEF f, g
<1>6. \A i \in 0..7 : f[i] = g[i]
  <2>1. f[0] + 2 * f[1] + 4 * f[2] + 8 * f[3] + 16 * f[4] + 32 * f[5] + 64 * f[6]
            + 128 * f[7] = Xor(a, b)
    <3>1. Xor(a, b) = Mixed(a, b, 1) + 2 * Mixed(a, b, 2) + 4 * Mixed(a, b, 4)
              + 8 * Mixed(a, b, 8) + 16 * Mixed(a, b, 16) + 32 * Mixed(a, b, 32)
              + 64 * Mixed(a, b, 64) + 128 * Mixed(a, b, 128)
      BY XorBits, Zenon
    <3> QED BY <1>4, <3>1
  <2>2. g[0] + 2 * g[1] + 4 * g[2] + 8 * g[3] + 16 * g[4] + 32 * g[5] + 64 * g[6]
            + 128 * g[7] = Xor(a, c)
    <3>1. Xor(a, c) = Mixed(a, c, 1) + 2 * Mixed(a, c, 2) + 4 * Mixed(a, c, 4)
              + 8 * Mixed(a, c, 8) + 16 * Mixed(a, c, 16) + 32 * Mixed(a, c, 32)
              + 64 * Mixed(a, c, 64) + 128 * Mixed(a, c, 128)
      BY XorBits, Zenon
    <3> QED BY <1>5, <3>1
  <2> QED BY <1>3, <2>1, <2>2, SameBits, SMTT(30)
<1>7. \A w \in Weights : Mixed(a, b, w) = Mixed(a, c, w)
  BY <1>4, <1>5, <1>6 DEF Weights
<1>8. \A w \in Weights : Bit(b, w) = Bit(c, w)
  <2>1. \A x, y, z \in 0..1 : (x + y) % 2 = (x + z) % 2 => y = z
    OBVIOUS
  <2>2. ASSUME NEW w \in Weights PROVE Bit(b, w) = Bit(c, w)
    <3>1. Bit(a, w) \in 0..1 /\ Bit(b, w) \in 0..1 /\ Bit(c, w) \in 0..1
      BY MixedType
    <3>2. (Bit(a, w) + Bit(b, w)) % 2 = (Bit(a, w) + Bit(c, w)) % 2
      BY <1>7 DEF Mixed
    <3> QED BY <2>1, <3>1, <3>2
  <2> QED BY <2>2
<1>9. Bit(b, 1) = Bit(c, 1) /\ Bit(b, 2) = Bit(c, 2) /\ Bit(b, 4) = Bit(c, 4)
      /\ Bit(b, 8) = Bit(c, 8) /\ Bit(b, 16) = Bit(c, 16) /\ Bit(b, 32) = Bit(c, 32)
      /\ Bit(b, 64) = Bit(c, 64) /\ Bit(b, 128) = Bit(c, 128)
  BY <1>8 DEF Weights
<1> QED BY <1>9, BitsOf

-----------------------------------------------------------------------------
(* An odd factor can be taken from a multiple of a power of two. *)

Divides(m, x) == \E q \in Int : x = m * q

Cancels(m) == \A d \in Int : Divides(m, d * Prime) => Divides(m, d)

LEMMA CancelsOne == Cancels(1)
BY DEF Cancels, Divides

LEMMA CancelsTwice ==
    ASSUME NEW m \in Nat, m > 0, Cancels(m)
    PROVE  Cancels(2 * m)
<1> SUFFICES ASSUME NEW d \in Int, Divides(2 * m, d * Prime) PROVE Divides(2 * m, d)
  BY DEF Cancels
<1>1. PICK q \in Int : d * Prime = (2 * m) * q
  BY DEF Divides
<1>2. Divides(m, d * Prime)
  <2>1. (2 * m) * q = m * (2 * q) /\ 2 * q \in Int
    OBVIOUS
  <2> QED BY <1>1, <2>1 DEF Divides
<1>3. PICK e \in Int : d = m * e
  BY <1>2 DEF Cancels, Divides
<1>4. PICK p \in Int : Prime = 2 * p + 1
  <2>1. Prime = 2 * (Prime \div 2) + 1 /\ Prime \div 2 \in Int
    BY CcfPacketsAssumption
  <2> QED BY <2>1
<1>5. e * (2 * p + 1) = 2 * q
  <2>1. m * (e * (2 * p + 1)) = m * (2 * q)
    BY <1>1, <1>3, <1>4
  <2>2. \A x, y \in Int : m * x = m * y => x = y
    OBVIOUS
  <2> QED BY <2>1, <2>2
<1>6. e = 2 * (q - e * p)
  <2>1. e * (2 * p + 1) = 2 * (e * p) + e /\ e * p \in Int
    OBVIOUS
  <2> QED BY <1>5, <2>1
<1>7. PICK r \in Int : e = 2 * r
  <2>1. q - e * p \in Int
    OBVIOUS
  <2> QED BY <1>6, <2>1
<1>8. m * (2 * r) = (2 * m) * r
  OBVIOUS
<1> QED BY <1>3, <1>7, <1>8 DEF Divides

LEMMA CancelsBase ==
    ASSUME NEW m \in Nat, m > 0, Cancels(m)
    PROVE  Cancels(m * Base)
<1> DEFINE Good(k) == k \in Nat /\ k > 0 /\ Cancels(k)
<1>1. \A k \in Nat : Good(k) => Good(2 * k)
  BY CancelsTwice
<1>2. Good(m)
  OBVIOUS
<1> HIDE DEF Good
<1>3. Good(2 * m) /\ Good(2 * (2 * m)) /\ Good(2 * (2 * (2 * m)))
  BY <1>1, <1>2
<1>4. 2 * (2 * (2 * m)) = 8 * m
  OBVIOUS
<1>5. Good(2 * (8 * m)) /\ Good(2 * (2 * (8 * m))) /\ Good(2 * (2 * (2 * (8 * m))))
  BY <1>1, <1>3, <1>4
<1>6. 2 * (2 * (2 * (8 * m))) = 64 * m
  OBVIOUS
<1>7. Good(2 * (64 * m)) /\ Good(2 * (2 * (64 * m)))
  BY <1>1, <1>5, <1>6
<1>8. 2 * (64 * m) = m * 128 /\ 2 * (2 * (64 * m)) = m * 256
  OBVIOUS
<1>9. Good(m * Base)
  BY <1>7, <1>8, BaseValues
<1> QED BY <1>9 DEF Good

LEMMA CancelsModulus == Cancels(HashModulus)
<1>1. \A m \in Nat : m > 0 /\ Cancels(m) => m * Base \in Nat /\ m * Base > 0 /\ Cancels(m * Base)
  <2>1. \A m \in Nat : m > 0 => m * Base \in Nat /\ m * Base > 0
    BY BaseValues
  <2> QED BY <2>1, CancelsBase
<1>2. 1 * Base = Base
  BY ByteRange
<1>3. Base \in Nat /\ Base > 0 /\ Cancels(Base)
  BY <1>1, <1>2, CancelsOne
<1>4. Base * Base \in Nat /\ Base * Base > 0 /\ Cancels(Base * Base)
  BY <1>1, <1>3
<1>5. /\ Base * Base * Base \in Nat /\ Base * Base * Base > 0
      /\ Cancels(Base * Base * Base)
  BY <1>1, <1>4
<1> QED BY <1>1, <1>5 DEF HashModulus

LEMMA TimesPrime ==
    ASSUME NEW x \in Hashes, NEW y \in Hashes,
           (x * Prime) % HashModulus = (y * Prime) % HashModulus
    PROVE  x = y
<1> DEFINE m == HashModulus
<1>1. m \in Nat /\ m > 0 /\ Prime \in Nat /\ x \in 0..(m - 1) /\ y \in 0..(m - 1)
  BY HashModulusType, CcfPacketsAssumption DEF Hashes
<1>2. Cancels(m)
  BY CancelsModulus
<1>3. (x * Prime) % m = (y * Prime) % m
  OBVIOUS
<1> HIDE DEF m
<1>4. \A z \in Nat : z \div m \in Int /\ z % m \in Int /\ z = m * (z \div m) + (z % m)
  BY <1>1
<1>5. x * Prime \in Nat /\ y * Prime \in Nat
  BY <1>1
<1> DEFINE s == (x * Prime) \div m
           t == (y * Prime) \div m
<1>6. s \in Int /\ t \in Int /\ x * Prime - y * Prime = m * s - m * t
  <2>1. x * Prime = m * s + ((x * Prime) % m) /\ y * Prime = m * t + ((y * Prime) % m)
    BY <1>4, <1>5
  <2>2. s \in Int /\ t \in Int /\ (x * Prime) % m \in Int
    BY <1>4, <1>5
  <2> HIDE DEF s, t
  <2>3. m * s \in Int /\ m * t \in Int
    BY <1>1, <2>2
  <2> QED BY <1>3, <2>1, <2>2, <2>3
<1> HIDE DEF s, t
<1>7. (x - y) * Prime = m * (s - t) /\ s - t \in Int
  BY <1>1, <1>6
<1>8. PICK e \in Int : x - y = m * e
  <2>1. Divides(m, (x - y) * Prime) /\ x - y \in Int
    BY <1>1, <1>7 DEF Divides
  <2>2. Divides(m, x - y)
    BY <1>2, <2>1 DEF Cancels
  <2> QED BY <2>2 DEF Divides
<1>9. e = 0
  <2>1. e >= 1 => m * e >= m
    BY <1>1
  <2>2. e <= -1 => m * e <= -m
    BY <1>1
  <2> QED BY <1>1, <1>8, <2>1, <2>2
<1> QED BY <1>1, <1>8, <1>9

-----------------------------------------------------------------------------
(* Hashes that differ, or bytes that differ, make hashes that differ. *)

\* A digit taken from a number and put behind it.
LEMMA Digits ==
    ASSUME NEW x \in Nat
    PROVE  /\ x \div Base \in Nat /\ x % Base \in Byte
           /\ x % Base \in Nat /\ x % Base < Base
           /\ x = (x \div Base) * Base + (x % Base)
           /\ \A m \in Nat : x < m * Base => x \div Base < m
           /\ \A d \in Byte : /\ (x * Base + d) \div Base = x /\ (x * Base + d) % Base = d
                              /\ x * Base + d \in Nat
                              /\ \A m \in Nat : x < m => x * Base + d < m * Base
<1>1. CASE Base = 128
  BY <1>1 DEF Byte
<1>2. CASE Base = 256
  BY <1>2 DEF Byte
<1> QED BY <1>1, <1>2, BaseValues

LEMMA Powers ==
    /\ Base \in Nat /\ Base > 0
    /\ Base * Base \in Nat /\ Base * Base > 0
    /\ Base * Base * Base \in Nat /\ Base * Base * Base > 0
<1>1. \A m \in Nat : m > 0 => m * Base \in Nat /\ m * Base > 0
  BY BaseValues
<1>2. Base \in Nat /\ Base > 0
  BY ByteRange
<1>3. Base * Base \in Nat /\ Base * Base > 0
  BY <1>1, <1>2
<1> QED BY <1>1, <1>2, <1>3

LEMMA DivideTwice ==
    ASSUME NEW x \in Nat, NEW m \in Nat, m > 0
    PROVE  x \div (m * Base) = (x \div m) \div Base
<1> DEFINE y == x \div m
<1>1. y \in Nat /\ x % m \in Nat /\ x % m < m /\ x = m * y + (x % m)
  OBVIOUS
<1> HIDE DEF y
<1> DEFINE q == y \div Base
<1>2. q \in Nat /\ y % Base \in Nat /\ y % Base < Base /\ y = q * Base + (y % Base)
  BY <1>1, Digits
<1> HIDE DEF q
<1>3. PICK r \in Nat, s \in Nat :
          r < m /\ s < Base /\ x = m * y + r /\ y = q * Base + s
  BY <1>1, <1>2
<1>4. m * y = (m * Base) * q + m * s
  <2>1. m * (q * Base + s) = m * (q * Base) + m * s
    BY <1>1, <1>2, <1>3, Powers
  <2>2. m * (q * Base) = (m * Base) * q
    BY <1>1, <1>2, Powers
  <2> QED BY <1>3, <2>1, <2>2
<1> DEFINE k == m * Base
           t == m * s + r
<1>5. t \in Nat /\ t < k
  <2>1. m * s \in Nat
    BY <1>3
  <2>2. m * s + m <= m * Base
    <3>1. PICK d \in Nat : Base = s + 1 + d
      <4>1. Base - (s + 1) \in Nat
        BY <1>3, Powers
      <4> QED BY <1>3, <4>1, Powers
    <3>2. m * (s + 1 + d) = m * s + m + m * d
      BY <1>3, <3>1
    <3>3. m * d \in Nat
      BY <3>1
    <3> QED BY <2>1, <3>1, <3>2, <3>3
  <2>3. m * Base \in Nat
    BY Powers
  <2> QED BY <1>3, <2>1, <2>2, <2>3
<1>6. k \in Nat /\ k > 0
  BY <1>5, Powers
<1>7. x = k * q + t
  <2>1. m * s \in Nat /\ k * q \in Nat
    BY <1>2, <1>3, <1>6
  <2> QED BY <1>3, <1>4, <2>1
<1> HIDE DEF k, t
<1>8. x \div k = q
  BY <1>2, <1>5, <1>6, <1>7
<1> QED BY <1>8 DEF k, q, y

Mix(hash, byte) == (hash \div Base) * Base + Xor(hash % Base, byte)

LEMMA MixParts ==
    ASSUME NEW hash \in Hashes, NEW byte \in Byte
    PROVE  /\ hash % Base \in Byte /\ hash \div Base \in Nat
           /\ Mix(hash, byte) \in Hashes
           /\ Mix(hash, byte) \div Base = hash \div Base
           /\ Mix(hash, byte) % Base = Xor(hash % Base, byte)
           /\ Feed(hash, byte) = (Mix(hash, byte) * Prime) % HashModulus
<1>1. hash \in Nat /\ hash < (Base * Base * Base) * Base
  BY HashModulusType DEF Hashes, HashModulus
<1>2. hash % Base \in Byte /\ hash \div Base \in Nat /\ hash \div Base < Base * Base * Base
  BY <1>1, Powers, Digits
<1>3. PICK x \in Byte : x = Xor(hash % Base, byte)
  BY <1>2, XorByte
<1>4. PICK q \in Nat : q = hash \div Base /\ q < Base * Base * Base
  BY <1>2
<1>5. Mix(hash, byte) = q * Base + x
  BY <1>3, <1>4 DEF Mix
<1>6. /\ q * Base + x \in Nat /\ q * Base + x < (Base * Base * Base) * Base
      /\ (q * Base + x) \div Base = q /\ (q * Base + x) % Base = x
  BY <1>4, Powers, Digits
<1>7. q * Base + x \in Hashes
  BY <1>6, HashModulusType DEF Hashes, HashModulus
<1>8. Feed(hash, byte) = (Mix(hash, byte) * Prime) % HashModulus
  BY DEF Feed, Mix
<1> QED BY <1>2, <1>3, <1>4, <1>5, <1>6, <1>7, <1>8

LEMMA SameMix ==
    ASSUME NEW hash \in Hashes, NEW other \in Hashes, NEW byte \in Byte, NEW new \in Byte,
           Feed(hash, byte) = Feed(other, new)
    PROVE  /\ hash \div Base = other \div Base
           /\ Xor(hash % Base, byte) = Xor(other % Base, new)
<1>1. Mix(hash, byte) = Mix(other, new)
  <2>1. Mix(hash, byte) \in Hashes /\ Mix(other, new) \in Hashes
    BY MixParts
  <2>2. (Mix(hash, byte) * Prime) % HashModulus = (Mix(other, new) * Prime) % HashModulus
    BY MixParts
  <2> QED BY <2>1, <2>2, TimesPrime
<1> QED BY <1>1, MixParts

LEMMA FeedHash ==
    ASSUME NEW hash \in Hashes, NEW other \in Hashes, NEW byte \in Byte, hash # other
    PROVE  Feed(hash, byte) # Feed(other, byte)
<1> SUFFICES ASSUME Feed(hash, byte) = Feed(other, byte) PROVE hash = other
  OBVIOUS
<1>1. hash % Base \in Byte /\ other % Base \in Byte
  BY MixParts
<1>2. hash % Base \in 0..255 /\ other % Base \in 0..255 /\ byte \in 0..255
  BY <1>1, ByteRange
<1>3. Xor(hash % Base, byte) = Xor(other % Base, byte)
  BY SameMix
<1>4. Xor(byte, hash % Base) = Xor(byte, other % Base)
  BY <1>2, <1>3, XorCommutes
<1>5. hash % Base = other % Base
  BY <1>2, <1>4, XorOneToOne
<1>6. hash \div Base = other \div Base
  BY SameMix
<1>7. hash \in Nat /\ other \in Nat
  BY HashModulusType DEF Hashes
<1>8. /\ hash = (hash \div Base) * Base + (hash % Base)
      /\ other = (other \div Base) * Base + (other % Base)
  BY <1>7, Digits
<1> QED BY <1>5, <1>6, <1>8

LEMMA FeedByte ==
    ASSUME NEW hash \in Hashes, NEW byte \in Byte, NEW new \in Byte, byte # new
    PROVE  Feed(hash, byte) # Feed(hash, new)
<1> SUFFICES ASSUME Feed(hash, byte) = Feed(hash, new) PROVE byte = new
  OBVIOUS
<1>1. hash % Base \in 0..255 /\ byte \in 0..255 /\ new \in 0..255
  BY MixParts, ByteRange
<1>2. Xor(hash % Base, byte) = Xor(hash % Base, new)
  BY SameMix
<1> QED BY <1>1, <1>2, XorOneToOne

\* The stored bytes are all of the hash.
LEMMA StoredApart ==
    ASSUME NEW hash \in Hashes, NEW other \in Hashes,
           LittleEndian(hash) = LittleEndian(other)
    PROVE  hash = other
<1>1. /\ hash % Base = other % Base
      /\ (hash \div Base) % Base = (other \div Base) % Base
      /\ (hash \div (Base * Base)) % Base = (other \div (Base * Base)) % Base
      /\ (hash \div (Base * Base * Base)) % Base = (other \div (Base * Base * Base)) % Base
  BY DEF LittleEndian
<1>2. ASSUME NEW x \in Hashes
      PROVE  /\ x \in Nat /\ x \div Base \in Nat /\ (x \div Base) \div Base \in Nat
             /\ x \div (Base * Base) = (x \div Base) \div Base
             /\ (x \div (Base * Base * Base)) % Base = ((x \div Base) \div Base) \div Base
  <2>1. x \in Nat /\ x < (Base * Base * Base) * Base
    BY HashModulusType DEF Hashes, HashModulus
  <2>2. x \div Base \in Nat /\ x \div Base < (Base * Base) * Base
    BY <2>1, Powers, Digits
  <2>3. (x \div Base) \div Base \in Nat /\ (x \div Base) \div Base < Base * Base
    BY <2>2, Powers, Digits
  <2>4. /\ ((x \div Base) \div Base) \div Base \in Nat
        /\ ((x \div Base) \div Base) \div Base < Base
    BY <2>3, Powers, Digits
  <2>5. /\ x \div (Base * Base) = (x \div Base) \div Base
        /\ x \div (Base * Base * Base) = (x \div (Base * Base)) \div Base
    BY <2>1, Powers, DivideTwice
  <2>6. \A z \in Nat : z < Base => z % Base = z
    BY BaseValues
  <2> QED BY <2>1, <2>2, <2>3, <2>4, <2>5, <2>6
<1> DEFINE h1 == hash \div Base
           h2 == h1 \div Base
           o1 == other \div Base
           o2 == o1 \div Base
<1>3. /\ hash % Base = other % Base /\ h1 % Base = o1 % Base /\ h2 % Base = o2 % Base
      /\ h2 \div Base = o2 \div Base
  BY <1>1, <1>2
<1>4. hash \in Nat /\ other \in Nat /\ h1 \in Nat /\ o1 \in Nat /\ h2 \in Nat /\ o2 \in Nat
  BY <1>2
<1>5. \A x, y \in Nat : x \div Base = y \div Base /\ x % Base = y % Base => x = y
  <2> SUFFICES ASSUME NEW x \in Nat, NEW y \in Nat,
                      x \div Base = y \div Base /\ x % Base = y % Base
               PROVE  x = y
    OBVIOUS
  <2>1. x = (x \div Base) * Base + (x % Base) /\ y = (y \div Base) * Base + (y % Base)
    BY Digits
  <2> QED BY <2>1
<1>6. h2 = o2
  BY <1>3, <1>4, <1>5
<1>7. h1 = o1
  BY <1>3, <1>4, <1>5, <1>6
<1> QED BY <1>3, <1>4, <1>5, <1>7

\* Bytes that differ in one place have different checksums.
LEMMA ChecksumChange ==
    ASSUME NEW bytes \in Seq(Byte), NEW other \in Seq(Byte), Len(bytes) = Len(other),
           NEW k \in 1..Len(bytes), bytes[k] # other[k],
           \A i \in 1..Len(bytes) : i # k => bytes[i] = other[i]
    PROVE  Checksum(bytes) # Checksum(other)
<1>1. PICK n \in Nat : n = Len(bytes) /\ n = Len(other)
  OBVIOUS
<1>2. PICK f : Lasts(bytes, f) /\ Checksum(bytes) = f[n][InitialHash]
  BY <1>1, ChecksumSteps
<1>3. PICK g : Lasts(other, g) /\ Checksum(other) = g[n][InitialHash]
  BY <1>1, ChecksumSteps
<1> DEFINE Alike(i) == \A hash \in Hashes : f[i][hash] = g[i][hash]
           Apart(i) == \A hash, old \in Hashes : hash # old => f[i][hash] # f[i][old]
           Other(i) == \A hash \in Hashes : f[i][hash] # g[i][hash]
           T == {i \in 0..n : IF i <= n - k THEN Alike(i) /\ Apart(i) ELSE Other(i)}
<1>4. 0 \in T
  <2>1. \A hash \in Hashes : f[0][hash] = hash /\ g[0][hash] = hash
    BY <1>2, <1>3 DEF Lasts
  <2>2. 0 <= n - k
    BY <1>1
  <2> QED BY <2>1, <2>2
<1>5. ASSUME NEW i \in 1..n, i - 1 \in T PROVE i \in T
  <2>1. PICK j \in 1..n : j = n - i + 1
    BY <1>5
  <2>2. \A hash \in Hashes : /\ f[i][hash] = f[i - 1][Feed(hash, bytes[j])]
                             /\ g[i][hash] = g[i - 1][Feed(hash, other[j])]
    BY <1>1, <1>2, <1>3, <2>1 DEF Lasts
  <2>3. bytes[j] \in Byte /\ other[j] \in Byte
    BY <1>1
  <2>4. \A hash \in Hashes, b \in Byte : Feed(hash, b) \in Hashes
    BY FeedInHashes
  <2>5. IF i - 1 <= n - k THEN Alike(i - 1) /\ Apart(i - 1) ELSE Other(i - 1)
    BY <1>5
  <2>6. CASE i <= n - k
    <3>1. i - 1 <= n - k /\ j # k
      BY <1>1, <2>1, <2>6
    <3>2. bytes[j] = other[j]
      BY <1>1, <3>1
    <3>3. Alike(i - 1) /\ Apart(i - 1)
      BY <2>5, <3>1
    <3>4. ASSUME NEW hash \in Hashes PROVE f[i][hash] = g[i][hash]
      <4>1. PICK next \in Hashes : next = Feed(hash, bytes[j])
        BY <2>3, <2>4
      <4>2. f[i][hash] = f[i - 1][next] /\ g[i][hash] = g[i - 1][next]
        BY <2>2, <3>2, <4>1
      <4> QED BY <3>3, <4>1, <4>2
    <3>5. Apart(i)
      <4> SUFFICES ASSUME NEW hash \in Hashes, NEW old \in Hashes, hash # old
                   PROVE  f[i][hash] # f[i][old]
        OBVIOUS
      <4>1. Feed(hash, bytes[j]) # Feed(old, bytes[j])
        BY <2>3, FeedHash
      <4>2. Feed(hash, bytes[j]) \in Hashes /\ Feed(old, bytes[j]) \in Hashes
        BY <2>3, <2>4
      <4>3. f[i - 1][Feed(hash, bytes[j])] # f[i - 1][Feed(old, bytes[j])]
        BY <3>3, <4>1, <4>2
      <4> QED BY <2>2, <4>3
    <3> QED BY <1>5, <2>6, <3>4, <3>5
  <2>7. CASE i = n - k + 1
    <3>1. i - 1 <= n - k /\ j = k /\ ~(i <= n - k)
      BY <1>1, <2>1, <2>7
    <3>2. Alike(i - 1) /\ Apart(i - 1)
      BY <2>5, <3>1
    <3>3. ASSUME NEW hash \in Hashes PROVE f[i][hash] # g[i][hash]
      <4>1. Feed(hash, bytes[j]) # Feed(hash, other[j])
        BY <1>1, <2>3, <3>1, FeedByte
      <4>2. Feed(hash, bytes[j]) \in Hashes /\ Feed(hash, other[j]) \in Hashes
        BY <2>3, <2>4
      <4>3. f[i - 1][Feed(hash, bytes[j])] # f[i - 1][Feed(hash, other[j])]
        BY <3>2, <4>1, <4>2
      <4>4. f[i - 1][Feed(hash, other[j])] = g[i - 1][Feed(hash, other[j])]
        BY <3>2, <4>2
      <4> QED BY <2>2, <4>3, <4>4
    <3> QED BY <3>1, <3>3
  <2>8. CASE i > n - k + 1
    <3>1. ~(i - 1 <= n - k) /\ j # k /\ ~(i <= n - k)
      BY <1>1, <2>1, <2>8
    <3>2. Other(i - 1)
      BY <2>5, <3>1
    <3>3. bytes[j] = other[j]
      BY <1>1, <3>1
    <3>4. Other(i)
      BY <2>2, <2>3, <2>4, <3>2, <3>3
    <3> QED BY <3>1, <3>4
  <2> QED BY <1>1, <2>6, <2>7, <2>8
<1>6. n \in T
  <2> HIDE DEF T
  <2>1. \A i \in 0..n : i \in T
    BY <1>4, <1>5, UpTo
  <2> QED BY <2>1
<1>7. Other(n)
  BY <1>1, <1>6
<1>8. InitialHash \in Hashes
  BY CcfPacketsAssumption DEF Hashes
<1> QED BY <1>2, <1>3, <1>7, <1>8

\* The bytes checkAtEnd() looks at: what is hashed, and the hash.
LEMMA CheckParts ==
    ASSUME NEW packet \in Seq(Byte), NEW n \in Nat, Len(packet) = n + HashSize
    PROVE  /\ SubSeq(packet, 1, n) \in Seq(Byte) /\ Len(SubSeq(packet, 1, n)) = n
           /\ \A i \in 1..n : SubSeq(packet, 1, n)[i] = packet[i]
           /\ \A i \in 1..4 : SubSeq(packet, n + 1, Len(packet))[i] = packet[n + i]
           /\ SubSeq(packet, n + 1, Len(packet)) \in Seq(Byte)
           /\ Len(SubSeq(packet, n + 1, Len(packet))) = 4
           /\ CheckAtEnd(packet) <=> LittleEndian(Checksum(SubSeq(packet, 1, n)))
                                         = SubSeq(packet, n + 1, Len(packet))
<1>1. HashSize = 4 /\ Len(packet) = n + 4 /\ Len(packet) - HashSize = n /\ n >= 0
  BY DEF HashSize
<1>2. CheckAtEnd(packet) <=> LittleEndian(Checksum(SubSeq(packet, 1, n)))
                                 = SubSeq(packet, n + 1, Len(packet))
  BY <1>1, Zenon DEF CheckAtEnd
<1> HIDE DEF HashSize
<1> QED BY <1>1, <1>2

\* A packet whose checksum is right is not one with any of its bytes changed,
\* the checksum's own included (Fnv1a::checkAtEnd).
LEMMA ByteChangeFound ==
    ASSUME NEW whole \in Seq(Byte), NEW changed \in Seq(Byte), Len(whole) = Len(changed),
           CheckAtEnd(whole), NEW k \in 1..Len(whole), whole[k] # changed[k],
           \A i \in 1..Len(whole) : i # k => whole[i] = changed[i]
    PROVE  ~CheckAtEnd(changed)
<1> SUFFICES ASSUME CheckAtEnd(changed) PROVE FALSE
  OBVIOUS
<1>1. PICK n \in Nat : Len(whole) = n + HashSize /\ Len(changed) = n + HashSize
  <2>1. Len(whole) - HashSize \in Nat
    BY DEF CheckAtEnd, HashSize
  <2> QED BY <2>1 DEF HashSize
<1> DEFINE body == SubSeq(whole, 1, n)
           stored == SubSeq(whole, n + 1, Len(whole))
           other == SubSeq(changed, 1, n)
           read == SubSeq(changed, n + 1, Len(changed))
<1>2. /\ body \in Seq(Byte) /\ Len(body) = n /\ \A i \in 1..n : body[i] = whole[i]
      /\ stored \in Seq(Byte) /\ Len(stored) = 4
      /\ \A i \in 1..4 : stored[i] = whole[n + i]
      /\ LittleEndian(Checksum(body)) = stored
  BY <1>1, CheckParts
<1>3. /\ other \in Seq(Byte) /\ Len(other) = n /\ \A i \in 1..n : other[i] = changed[i]
      /\ read \in Seq(Byte) /\ Len(read) = 4
      /\ \A i \in 1..4 : read[i] = changed[n + i]
      /\ LittleEndian(Checksum(other)) = read
  BY <1>1, CheckParts
<1> HIDE DEF body, stored, other, read
<1>4. HashSize = 4
  BY DEF HashSize
<1>5. k \in 1..(n + 4)
  BY <1>1, <1>4
<1>6. CASE k <= n
  <2>1. Checksum(body) # Checksum(other)
    <3>1. \A i \in 1..n : i # k => body[i] = other[i]
      BY <1>1, <1>2, <1>3, <1>4
    <3>2. body[k] # other[k] /\ k \in 1..n
      BY <1>2, <1>3, <1>5, <1>6
    <3>3. body \in Seq(Byte) /\ other \in Seq(Byte) /\ Len(body) = n /\ Len(other) = n
      BY <1>2, <1>3
    <3>4. Len(body) = Len(other) /\ k \in 1..Len(body)
      BY <3>2, <3>3
    <3>5. \A i \in 1..Len(body) : i # k => body[i] = other[i]
      BY <3>1, <3>3
    <3> QED BY <3>2, <3>3, <3>4, <3>5, ChecksumChange
  <2>2. stored = read
    <3>1. \A i \in 1..4 : stored[i] = read[i]
      BY <1>1, <1>2, <1>3, <1>4, <1>6
    <3>2. stored \in Seq(Byte) /\ read \in Seq(Byte) /\ Len(stored) = 4 /\ Len(read) = 4
      BY <1>2, <1>3
    <3> QED BY <3>1, <3>2
  <2>3. Checksum(body) \in Hashes /\ Checksum(other) \in Hashes
    BY <1>2, <1>3, ChecksumType
  <2> QED BY <1>2, <1>3, <2>1, <2>2, <2>3, StoredApart
<1>7. CASE k > n
  <2>1. body = other
    <3>1. \A i \in 1..n : body[i] = other[i]
      BY <1>1, <1>2, <1>3, <1>4, <1>7
    <3> QED BY <1>2, <1>3, <3>1
  <2>2. stored # read
    <3>1. PICK i \in 1..4 : k = n + i
      <4>1. k - n \in 1..4 /\ k = n + (k - n)
        BY <1>5, <1>7
      <4> QED BY <4>1
    <3>2. stored[i] # read[i]
      BY <1>2, <1>3, <3>1
    <3> QED BY <3>2
  <2> QED BY <1>2, <1>3, <2>1, <2>2
<1> QED BY <1>5, <1>6, <1>7
LEMMA SmallRemainder ==
    ASSUME NEW n \in Nat, NEW x \in Nat, n < x
    PROVE  n % x = n
OBVIOUS

LEMMA SameSequence ==
    ASSUME NEW a \in Seq(Byte), NEW b \in Seq(Byte), Len(a) = Len(b),
           \A i \in 1..Len(a) : a[i] = b[i]
    PROVE  a = b
OBVIOUS

LEMMA DivisionParts ==
    ASSUME NEW x \in Nat, NEW q \in Nat, NEW y \in Nat, y < x
    PROVE  (q * x + y) \div x = q /\ (q * x + y) % x = y
<1> DEFINE v == q * x + y
<1>1. v \in Nat
  OBVIOUS
<1>2. PICK d \in Nat, r \in Nat : d = v \div x /\ r = v % x /\ v = x * d + r /\ r < x
  BY <1>1
<1>3. ASSUME NEW a \in Nat, NEW b \in Nat, a < b PROVE x * b >= x * a + x
  <2>1. PICK k \in Nat : b = a + 1 + k
    <3>1. b - a - 1 \in Nat /\ b = a + 1 + (b - a - 1)
      BY <1>3
    <3> QED BY <3>1
  <2>2. x * b = x * a + x + x * k /\ x * k \in Nat
    BY <2>1
  <2> QED BY <2>2
<1>4. v = x * q + y
  OBVIOUS
<1> HIDE DEF v
<1>5. ~(d < q) /\ ~(q < d)
  BY <1>2, <1>3, <1>4
<1>6. d = q
  BY <1>5
<1>7. r = y
  BY <1>2, <1>4, <1>6
<1> QED BY <1>2, <1>6, <1>7 DEF v


\* The digits of a number, and the number again.
LEMMA BigEndianSteps ==
    ASSUME NEW v \in Nat, NEW n \in Nat
    PROVE  \E above : /\ above[0] = v
                      /\ \A i \in 0..n : above[i] \in Nat
                      /\ \A i \in 1..n : above[i] = above[i - 1] \div Base
                      /\ \A i \in 1..n : BigEndian(v, n)[i] = above[n - i] % Base
<1> DEFINE step == [p \in (1..n) \X Nat |-> p[2] \div Base]
           P(f) == f = [i \in 0..n |-> IF i = 0 THEN v ELSE f[i - 1] \div Base]
           above == CHOOSE f : P(f)
<1>1. BigEndian(v, n) = [i \in 1..n |-> above[n - i] % Base]
  BY DEF BigEndian
<1>2. \A i \in 1..n, x \in Nat : step[<<i, x>>] = x \div Base /\ step[<<i, x>>] \in Nat
  BY Widths
<1>3. PICK f \in [0..n -> Nat] : Follow(f, n, v, step)
  <2> HIDE DEF step
  <2>1. \A i \in 1..n, x \in Nat : step[<<i, x>>] \in Nat
    BY <1>2
  <2> QED BY <2>1, Recursion
<1>4. P(f)
  <2> HIDE DEF step
  <2>1. \A i \in 0..n : i = 0 \/ (i \in 1..n /\ f[i - 1] \in Nat)
    OBVIOUS
  <2> QED BY <1>2, <1>3, <2>1 DEF Follow
<1>5. P(above)
  <2> HIDE DEF P
  <2> QED BY <1>4
<1> HIDE DEF above
<1>6. above[0] = v /\ \A i \in 1..n : above[i] = above[i - 1] \div Base
  BY <1>5
<1> HIDE DEF P
<1> DEFINE T == {i \in 0..n : above[i] \in Nat}
<1>7. 0 \in T
  BY <1>6
<1>8. ASSUME NEW i \in 1..n, i - 1 \in T PROVE i \in T
  <2>1. above[i] = above[i - 1] \div Base /\ above[i - 1] \in Nat
    BY <1>6, <1>8
  <2>2. above[i] \in Nat
    BY <2>1, Digits
  <2> QED BY <2>2
<1> HIDE DEF T
<1>9. \A i \in 0..n : i \in T
  BY <1>7, <1>8, UpTo
<1>10. \A i \in 0..n : above[i] \in Nat
  BY <1>9 DEF T
<1> QED BY <1>1, <1>6, <1>10

LEMMA NumberSteps ==
    ASSUME NEW digits \in Seq(Byte)
    PROVE  \E f : /\ f[0] = 0
                  /\ \A i \in 1..Len(digits) : f[i] = f[i - 1] * Base + digits[i]
                  /\ Number(digits) = f[Len(digits)]
<1> DEFINE n == Len(digits)
           More(i, x) == x * Base + digits[i]
           step == [p \in (1..n) \X Nat |-> More(p[1], p[2])]
           P(f) == f = [i \in 0..n |-> IF i = 0 THEN 0 ELSE More(i, f[i - 1])]
           upTo == CHOOSE f : P(f)
<1>1. Number(digits) = upTo[n]
  BY DEF Number
<1>2. n \in Nat
  OBVIOUS
<1>3. ASSUME NEW i \in 1..n, NEW x \in Nat PROVE More(i, x) \in Nat
  <2>1. digits[i] \in Byte
    OBVIOUS
  <2> HIDE DEF n
  <2> QED BY <2>1, Digits
<1> HIDE DEF n, More
<1>4. \A i \in 1..n, x \in Nat : step[<<i, x>>] = More(i, x) /\ step[<<i, x>>] \in Nat
  BY <1>3
<1>5. PICK f \in [0..n -> Nat] : Follow(f, n, 0, step)
  <2> HIDE DEF step
  <2>1. \A i \in 1..n, x \in Nat : step[<<i, x>>] \in Nat
    BY <1>4
  <2> QED BY <1>2, <2>1, Recursion
<1>6. P(f)
  <2> HIDE DEF step
  <2>1. \A i \in 0..n : i = 0 \/ (i \in 1..n /\ f[i - 1] \in Nat)
    BY <1>2
  <2> QED BY <1>4, <1>5, <2>1 DEF Follow
<1>7. P(upTo)
  <2> HIDE DEF P
  <2> QED BY <1>6
<1> HIDE DEF upTo
<1>8. upTo[0] = 0 /\ \A i \in 1..n : upTo[i] = More(i, upTo[i - 1])
  BY <1>2, <1>7
<1> QED BY <1>1, <1>8 DEF n, More

\* A number that n bytes hold is read as it was written.
LEMMA NumberOfBigEndian ==
    ASSUME NEW n \in 0..8, NEW v \in Nat, v < Values[n]
    PROVE  Number(BigEndian(v, n)) = v
<1> DEFINE digits == BigEndian(v, n)
<1>1. n \in Nat /\ digits \in Seq(Byte) /\ Len(digits) = n
  BY BigEndianType
<1>2. PICK above : /\ above[0] = v
                   /\ \A i \in 0..n : above[i] \in Nat
                   /\ \A i \in 1..n : above[i] = above[i - 1] \div Base
                   /\ \A i \in 1..n : digits[i] = above[n - i] % Base
  BY <1>1, BigEndianSteps
<1> HIDE DEF digits
<1>3. PICK f : /\ f[0] = 0
               /\ \A i \in 1..n : f[i] = f[i - 1] * Base + digits[i]
               /\ Number(digits) = f[n]
  BY <1>1, NumberSteps
<1> DEFINE T == {i \in 0..n : above[i] < Values[n - i]}
<1>4. 0 \in T
  BY <1>1, <1>2
<1>5. ASSUME NEW i \in 1..n, i - 1 \in T PROVE i \in T
  <2>1. /\ above[i - 1] \in Nat /\ above[i] = above[i - 1] \div Base
        /\ above[i - 1] < Values[n - (i - 1)]
    BY <1>2, <1>5
  <2>2. n - (i - 1) \in 1..8 /\ n - i \in 0..8 /\ (n - (i - 1)) - 1 = n - i
    BY <1>1
  <2>3. Values[n - i] \in Nat /\ Values[n - (i - 1)] = Base * Values[n - i]
    BY <2>2, ValuesSteps, ValuesType
  <2>4. PICK m \in Nat, x \in Nat : m = Values[n - i] /\ x = above[i - 1]
    BY <2>1, <2>3
  <2>5. Base * m = m * Base
    BY Powers
  <2>6. x < m * Base
    BY <2>1, <2>3, <2>4, <2>5
  <2>7. x \div Base < m
    BY <2>6, Digits
  <2> QED BY <2>1, <2>4, <2>7
<1>6. above[n] = 0
  <2> HIDE DEF T
  <2>1. \A i \in 0..n : i \in T
    BY <1>1, <1>4, <1>5, UpTo
  <2>2. above[n] < Values[n - n] /\ above[n] \in Nat
    BY <1>1, <1>2, <2>1 DEF T
  <2>3. n - n = 0
    BY <1>1
  <2> QED BY <2>2, <2>3, ValuesSteps
<1> HIDE DEF T
<1> DEFINE U == {i \in 0..n : f[i] = above[n - i]}
<1>7. 0 \in U
  BY <1>1, <1>3, <1>6
<1>8. ASSUME NEW i \in 1..n, i - 1 \in U PROVE i \in U
  <2>1. f[i] = f[i - 1] * Base + digits[i] /\ f[i - 1] = above[n - (i - 1)]
    BY <1>3, <1>8
  <2>2. n - (i - 1) \in 1..n /\ n - i \in 0..n /\ (n - (i - 1)) - 1 = n - i
    BY <1>1
  <2>3. /\ digits[i] = above[n - i] % Base /\ above[n - i] \in Nat
        /\ above[n - (i - 1)] = above[n - i] \div Base
    BY <1>2, <2>2
  <2>4. above[n - i] = (above[n - i] \div Base) * Base + (above[n - i] % Base)
    BY <2>3, Digits
  <2> QED BY <2>1, <2>3, <2>4
<1> HIDE DEF U
<1>9. n \in U
  <2>1. \A i \in 0..n : i \in U
    BY <1>1, <1>7, <1>8, UpTo
  <2> QED BY <1>1, <2>1
<1>10. f[n] = above[0]
  BY <1>1, <1>9 DEF U
<1> QED BY <1>2, <1>3, <1>10 DEF digits

\* The size that the host and encode<Int> take is the first that holds v.
LEMMA SmallestHolds ==
    ASSUME NEW v \in Nat, v < Values[8], NEW n \in Sizes
    PROVE  /\ v < Values[Smallest(v)]
           /\ Smallest(v) <= n <=> v < Values[n]
<1> DEFINE S == {m \in {1, 2, 4} : v < Values[m]} \cup {8}
<1>1. S \in SUBSET Nat /\ S # {} /\ \A m \in S : m \in Sizes /\ v < Values[m]
  BY DEF Sizes
<1>2. Smallest(v) = Min(S)
  BY DEF Smallest
<1>3. n \in Sizes /\ v < Values[n] => n \in S
  BY DEF Sizes
<1> HIDE DEF S
<1>4. \E m \in S : \A k \in S : m <= k
  BY <1>1, Least
<1>5. Min(S) \in S /\ \A m \in S : Min(S) <= m
  BY <1>4 DEF Min
<1>6. PICK m \in 1..8 : m = Min(S) /\ v < Values[m]
  <2>1. Min(S) \in Sizes /\ v < Values[Min(S)]
    BY <1>1, <1>5
  <2> QED BY <2>1 DEF Sizes
<1>7. ASSUME m <= n PROVE v < Values[n]
  <2>1. n \in 0..8 /\ m \in 0..n
    BY <1>7 DEF Sizes
  <2>2. Values[m] <= Values[n]
    BY <2>1, ValuesMore
  <2>3. Values[m] \in Nat /\ Values[n] \in Nat
    BY <2>1, ValuesType
  <2> QED BY <1>6, <2>2, <2>3
<1> QED BY <1>2, <1>3, <1>5, <1>6, <1>7

\* The minor value and the bytes of an item whose argument is v.
IsArgument(v, minor, digits) ==
    IF v <= EmbeddedMax THEN minor = v /\ digits = << >>
    ELSE minor = Follows[Smallest(v)] /\ digits = BigEndian(v, Smallest(v))

LEMMA HeadBytes ==
    ASSUME NEW major \in 0..7, NEW v \in Nat
    PROVE  \E minor \in Nat, digits \in Seq(Byte) :
              /\ IsArgument(v, minor, digits)
              /\ HostHead(major, v) = <<InitialByte(major, minor)>> \o digits
<1>1. CASE v <= EmbeddedMax
  <2>1. HostHead(major, v) = <<InitialByte(major, v)>> \o << >>
    <3>1. InitialByte(major, v) \in Byte
      BY <1>1, InitialByteType, Widths
    <3>2. \A b \in Byte : <<b>> \o << >> = <<b>>
      OBVIOUS
    <3> QED BY <1>1, <3>1, <3>2, HeadShortest
  <2>2. << >> \in Seq(Byte)
    OBVIOUS
  <2> QED BY <1>1, <2>1, <2>2 DEF IsArgument
<1>2. CASE ~(v <= EmbeddedMax)
  <2> DEFINE minor == Follows[Smallest(v)]
             digits == BigEndian(v, Smallest(v))
  <2>1. HostHead(major, v) = <<InitialByte(major, minor)>> \o digits
    BY <1>2, HeadShortest
  <2>2. Smallest(v) \in Sizes
    BY SmallestSize
  <2>3. minor \in Nat
    BY <2>2, FollowsDistinct, Widths
  <2>4. digits \in Seq(Byte)
    BY <2>2, BigEndianType DEF Sizes
  <2>5. IsArgument(v, minor, digits)
    BY <1>2 DEF IsArgument
  <2> HIDE DEF minor, digits
  <2> QED BY <2>1, <2>3, <2>4, <2>5
<1> QED BY <1>1, <1>2

\* What follows the initial byte is as much as its minor value says.
IsHead(minor, digits) ==
    /\ minor \in Nat /\ minor < M /\ minor # Indefinite /\ digits \in Seq(Byte)
    /\ Following(minor) = Len(digits)
    /\ Len(digits) > 0 \/ minor <= EmbeddedMax

LEMMA SizeIsHead ==
    ASSUME NEW digits \in Seq(Byte), Len(digits) \in Sizes
    PROVE  /\ IsHead(Follows[Len(digits)], digits)
           /\ Following(Follows[Len(digits)]) = Len(digits)
<1> DEFINE n == Len(digits)
           minor == Follows[n]
<1>1. n \in Sizes
  OBVIOUS
<1> HIDE DEF n
<1>2. minor \in (EmbeddedMax + 1)..(M - 2)
  BY <1>1, FollowsDistinct
<1>3. Following(minor) = n
  <2>1. \E m \in Sizes : Follows[m] = minor
    BY <1>1
  <2>2. Following(minor) = CHOOSE m \in Sizes : Follows[m] = minor
    BY <2>1 DEF Following
  <2> HIDE DEF minor
  <2>3. Following(minor) \in Sizes /\ Follows[Following(minor)] = minor
    BY <2>1, <2>2
  <2> QED BY <1>1, <2>3, FollowsDistinct DEF minor
<1>4. minor \in Nat /\ minor < M /\ minor # Indefinite
  BY <1>2, Widths DEF Indefinite, M
<1>5. n > 0
  BY <1>1 DEF Sizes
<1> QED BY <1>3, <1>4, <1>5 DEF IsHead, n

LEMMA EmbeddedIsHead ==
    ASSUME NEW minor \in Nat, minor <= EmbeddedMax
    PROVE  IsHead(minor, << >>) /\ Following(minor) = 0
<1>1. \A m \in Sizes : Follows[m] # minor
  BY FollowsDistinct, Widths
<1>2. Following(minor) = 0
  BY <1>1 DEF Following
<1>3. minor < M /\ minor # Indefinite
  BY Widths DEF Indefinite, M
<1> QED BY <1>2, <1>3 DEF IsHead

LEMMA ArgumentIsHead ==
    ASSUME NEW v \in Nat, NEW minor \in Nat, NEW digits \in Seq(Byte),
           IsArgument(v, minor, digits)
    PROVE  IsHead(minor, digits)
<1>1. CASE v <= EmbeddedMax
  BY <1>1, EmbeddedIsHead DEF IsArgument
<1>2. CASE ~(v <= EmbeddedMax)
  <2>1. Smallest(v) \in Sizes /\ Smallest(v) \in Nat
    BY SmallestSize DEF Sizes
  <2>2. Len(digits) = Smallest(v)
    BY <1>2, <2>1, BigEndianType DEF IsArgument
  <2>3. minor = Follows[Len(digits)]
    BY <1>2, <2>2 DEF IsArgument
  <2> QED BY <2>1, <2>2, <2>3, SizeIsHead
<1> QED BY <1>1, <1>2
\* Bytes that are in the memory from an address on.
Lies(mem, at, bytes) == \A i \in 1..Len(bytes) : mem[at + i - 1] = bytes[i]

LEMMA LiesParts ==
    ASSUME NEW a \in Seq(Byte), NEW b \in Seq(Byte), NEW mem, NEW at \in Int,
           Lies(mem, at, a \o b)
    PROVE  Lies(mem, at, a) /\ Lies(mem, at + Len(a), b)
<1>1. /\ Len(a \o b) = Len(a) + Len(b) /\ Len(a) \in Nat /\ Len(b) \in Nat
      /\ \A i \in 1..Len(a) : (a \o b)[i] = a[i]
      /\ \A i \in 1..Len(b) : (a \o b)[Len(a) + i] = b[i]
  BY JoinParts
<1>2. ASSUME NEW i \in 1..Len(a) PROVE mem[at + i - 1] = a[i]
  <2>1. i \in 1..Len(a \o b)
    BY <1>1
  <2> QED BY <1>1, <2>1 DEF Lies
<1>3. ASSUME NEW i \in 1..Len(b) PROVE mem[at + Len(a) + i - 1] = b[i]
  <2>1. Len(a) + i \in 1..Len(a \o b)
    BY <1>1
  <2>2. mem[at + (Len(a) + i) - 1] = b[i]
    BY <1>1, <2>1 DEF Lies
  <2>3. at + (Len(a) + i) - 1 = at + Len(a) + i - 1
    BY <1>1
  <2> QED BY <2>2, <2>3
<1> QED BY <1>2, <1>3 DEF Lies

\* A place with room for n bytes.
Room(buf, n) == buf.at \in Int /\ buf.size \in Nat /\ n <= buf.size

\* What unpack() is to make of a head.
IsUnpacked(item, major, minor, digits, buf) ==
    /\ item.ok = TRUE /\ item.major = major /\ item.minor = minor
    /\ item.value = IF digits = << >> THEN <<minor>> ELSE digits
    /\ item.rest = Skip(buf, 1 + Len(digits))

LEMMA UnpackHead ==
    ASSUME NEW major \in 0..7, NEW minor, NEW digits, IsHead(minor, digits),
           NEW mem, NEW buf, Room(buf, 1 + Len(digits)),
           Lies(mem, buf.at, <<InitialByte(major, minor)>> \o digits)
    PROVE  IsUnpacked(Unpack(mem, buf), major, minor, digits, buf)
<1> DEFINE first == InitialByte(major, minor)
           n == Len(digits)
<1>1. minor \in Nat /\ minor < M /\ digits \in Seq(Byte) /\ n \in Nat /\ Following(minor) = n
  BY DEF IsHead
<1>2. first \in Byte /\ first \div MinorModulus = major /\ first % MinorModulus = minor
  <2>1. first = major * M + minor /\ M = MinorModulus
    BY DEF InitialByte, M
  <2>2. first \in Byte
    BY <1>1, InitialByteType
  <2> HIDE DEF first
  <2>3. major \in Nat
    OBVIOUS
  <2>4. (major * M + minor) \div M = major /\ (major * M + minor) % M = minor
    BY <1>1, <2>3, Widths, DivisionParts
  <2> QED BY <2>1, <2>2, <2>4
<1> HIDE DEF first
<1>3. mem[buf.at] = first /\ \A i \in 1..n : mem[buf.at + i] = digits[i]
  <2>1. <<first>> \in Seq(Byte) /\ Len(<<first>>) = 1 /\ <<first>>[1] = first
    BY <1>2
  <2>2. buf.at \in Int
    BY DEF Room
  <2> DEFINE one == <<first>>
  <2> HIDE DEF one
  <2>3. Lies(mem, buf.at, one \o digits)
    BY DEF one, first
  <2>4. Lies(mem, buf.at, one) /\ Lies(mem, buf.at + Len(one), digits)
    BY <1>1, <2>1, <2>2, <2>3, LiesParts DEF one
  <2>5. 1 \in 1..Len(one) /\ buf.at + 1 - 1 = buf.at
    BY <2>1, <2>2 DEF one
  <2>6. \A i \in 1..n : mem[buf.at + 1 + i - 1] = digits[i]
    BY <2>1, <2>4 DEF Lies, one
  <2>7. \A i \in 1..n : buf.at + 1 + i - 1 = buf.at + i
    BY <1>1, <2>2
  <2>8. mem[buf.at] = first
    BY <2>1, <2>4, <2>5 DEF Lies, one
  <2> QED BY <2>6, <2>7, <2>8
<1>4. HasItem(minor, buf) /\ buf.size >= 1
  <2>1. minor <= EmbeddedMax \/ Following(minor) > 0
    BY <1>1 DEF IsHead
  <2> QED BY <1>1, <2>1 DEF HasItem, Room
<1>5. Unpack(mem, buf) =
          [ok |-> TRUE, major |-> major, minor |-> minor, rest |-> Skip(buf, 1 + n),
           value |-> IF n = 0 THEN <<minor>> ELSE [i \in 1..n |-> mem[buf.at + i]]]
  BY <1>1, <1>2, <1>3, <1>4 DEF Unpack
<1>6. n # 0 => [i \in 1..n |-> mem[buf.at + i]] = digits
  <2>1. digits = [i \in 1..n |-> digits[i]]
    BY <1>1
  <2> QED BY <1>3, <2>1
<1>7. n = 0 <=> digits = << >>
  BY <1>1
<1> HIDE DEF n
<1> QED BY <1>5, <1>6, <1>7, SMTT(30) DEF IsUnpacked, n

-----------------------------------------------------------------------------
(* Items decoded *)

\* An integer of the host that eight bytes hold, or anything else.
InEight(given, v) == given.kind = "integer" => (v \div Values[4]) \div Values[4] \in {-1, 0}

\* The argument of the head with which the host sends v.
Magnitude(v) == IF v >= 0 THEN v ELSE -v - 1

LEMMA Divided ==
    ASSUME NEW v \in Int, NEW x \in Nat, x > 0
    PROVE  \E q \in Int, r \in Nat : q = v \div x /\ v = x * q + r /\ r < x
OBVIOUS

LEMMA DivisionBounds ==
    ASSUME NEW v \in Int, NEW x \in Nat, x > 0
    PROVE  /\ v \div x \in Int
           /\ v \div x = 0 => v >= 0 /\ v < x
           /\ v \div x = -1 => v >= -x /\ v < 0
<1>1. PICK q \in Int, r \in Nat : q = v \div x /\ v = x * q + r /\ r < x
  BY Divided
<1>2. CASE q = 0
  BY <1>1, <1>2
<1>3. CASE q = -1
  BY <1>1, <1>3
<1>4. CASE q # 0 /\ q # -1
  BY <1>1, <1>4
<1> QED BY <1>2, <1>3, <1>4

LEMMA MagnitudeType ==
    ASSUME NEW v \in Int
    PROVE  /\ Magnitude(v) \in Nat
           /\ \A m \in Nat : v \in -m..(m - 1) <=> Magnitude(v) < m
BY DEF Magnitude

LEMMA EightBytes ==
    ASSUME NEW v \in Int, (v \div Values[4]) \div Values[4] \in {-1, 0}
    PROVE  Magnitude(v) < Values[8]
<1>1. Values[4] \in Nat /\ Values[4] > 0 /\ Values[8] \in Nat
  BY ValuesType
<1>2. Values[8] = Values[4] * Values[4]
  <2>1. PICK v4 \in Nat, v5 \in Nat, v6 \in Nat, v7 \in Nat, v8 \in Nat :
            /\ v4 = Values[4] /\ v5 = Values[5] /\ v6 = Values[6] /\ v7 = Values[7]
            /\ v8 = Values[8]
    <3>1. /\ Values[4] \in Nat /\ Values[5] \in Nat /\ Values[6] \in Nat
          /\ Values[7] \in Nat /\ Values[8] \in Nat
      BY ValuesType
    <3> QED BY <3>1
  <2>2. v5 = Base * v4 /\ v6 = Base * v5 /\ v7 = Base * v6 /\ v8 = Base * v7
    <3>1. \A i \in 1..8 : Values[i] = Base * Values[i - 1]
      BY ValuesSteps
    <3>2. /\ Values[5] = Base * Values[5 - 1] /\ Values[6] = Base * Values[6 - 1]
          /\ Values[7] = Base * Values[7 - 1] /\ Values[8] = Base * Values[8 - 1]
      BY <3>1
    <3> QED BY <2>1, <3>2
  <2>3. v4 = Base * (Base * (Base * (Base * 1)))
    <3>1. \A i \in 1..8 : Values[i] = Base * Values[i - 1]
      BY ValuesSteps
    <3>2. /\ Values[1] = Base * Values[1 - 1] /\ Values[2] = Base * Values[2 - 1]
          /\ Values[3] = Base * Values[3 - 1] /\ Values[4] = Base * Values[4 - 1]
      BY <3>1
    <3> QED BY <2>1, <3>2, ValuesSteps
  <2>4. v8 = Base * (Base * (Base * (Base * v4)))
    BY <2>2
  <2>5. CASE Base = 128
    BY <2>1, <2>3, <2>4, <2>5
  <2>6. CASE Base = 256
    BY <2>1, <2>3, <2>4, <2>6
  <2> QED BY <2>5, <2>6, BaseValues
<1>3. PICK x \in Nat : x = Values[4] /\ x > 0 /\ Values[8] = x * x
  BY <1>1, <1>2
<1>4. PICK q \in Int, r \in Nat : q = v \div x /\ v = x * q + r /\ r < x
  BY <1>3, Divided
<1>5. q \div x \in {-1, 0}
  BY <1>3, <1>4
<1>6. q >= -x /\ q < x
  BY <1>3, <1>5, DivisionBounds
<1>7. CASE q >= 0
  <2>1. x * q + x <= x * x /\ x * q >= 0
    <3>1. PICK d \in Nat : x = q + 1 + d
      <4>1. x - q - 1 \in Nat /\ x = q + 1 + (x - q - 1)
        BY <1>3, <1>6, <1>7
      <4> QED BY <4>1
    <3>2. x * (q + 1 + d) = x * q + x + x * d /\ x * d \in Nat /\ x * q \in Nat
      BY <1>3, <1>7, <3>1
    <3> QED BY <1>3, <1>7, <3>1, <3>2
  <2> QED BY <1>3, <1>4, <2>1 DEF Magnitude
<1>8. CASE q < 0
  <2>1. -(x * x) <= x * q /\ x * q + x <= 0
    <3>1. PICK d \in Nat : q = -1 - d /\ d + 1 <= x
      <4>1. -1 - q \in Nat /\ q = -1 - (-1 - q) /\ (-1 - q) + 1 <= x
        BY <1>6, <1>8
      <4> QED BY <4>1
    <3>2. PICK k \in Nat : x = d + 1 + k
      <4>1. x - (d + 1) \in Nat /\ x = d + 1 + (x - (d + 1))
        BY <1>3, <3>1
      <4> QED BY <4>1
    <3>3. x * (-1 - d) = -x - x * d /\ x * d \in Nat
      BY <1>3, <3>1
    <3>4. x * (d + 1 + k) = x * d + x + x * k /\ x * k \in Nat
      BY <1>3, <3>1, <3>2
    <3>5. x * q = x * (-1 - d) /\ x * x = x * (d + 1 + k)
      BY <3>1, <3>2
    <3>6. x * x \in Nat /\ x * q \in Int
      BY <1>3
    <3> QED BY <1>3, <3>3, <3>4, <3>5, <3>6
  <2>2. x * x \in Nat /\ x * q \in Int
    BY <1>3
  <2> QED BY <1>3, <1>4, <2>1, <2>2 DEF Magnitude
<1> QED BY <1>7, <1>8
LEMMA NegativeRemainder ==
    ASSUME NEW v \in Int, NEW x \in Nat, v < 0, -v <= x
    PROVE  v % x = v + x
<1>1. PICK q \in Int, r \in Nat : r = v % x /\ v = x * q + r /\ r < x
  OBVIOUS
<1>2. CASE q = -1
  BY <1>1, <1>2
<1>3. CASE q >= 0
  <2>1. x * q \in Nat
    BY <1>3
  <2> QED BY <1>1, <2>1
<1>4. CASE q <= -2
  <2>1. PICK k \in Nat : q = -2 - k
    <3>1. -2 - q \in Nat /\ q = -2 - (-2 - q)
      BY <1>4
    <3> QED BY <3>1
  <2>2. x * (-2 - k) = -(2 * x) - x * k /\ x * k \in Nat
    BY <2>1
  <2> QED BY <1>1, <2>1, <2>2
<1> QED BY <1>1, <1>2, <1>3, <1>4

\* The argument as unpack() keeps it.
Kept(minor, digits) == IF digits = << >> THEN <<minor>> ELSE digits

LEMMA ArgumentNumber ==
    ASSUME NEW v \in Nat, v < Values[8], NEW minor \in Nat, NEW digits \in Seq(Byte),
           IsArgument(v, minor, digits), NEW n \in Sizes, v < Values[n]
    PROVE  /\ Kept(minor, digits) \in Seq(Byte) /\ Len(Kept(minor, digits)) <= n
           /\ Number(Kept(minor, digits)) = v
           /\ minor <= Follows[n]
<1>1. n \in Nat /\ n >= 1
  BY DEF Sizes
<1>2. CASE v <= EmbeddedMax
  <2>1. minor = v /\ digits = << >>
    BY <1>2 DEF IsArgument
  <2> DEFINE one == <<v>>
  <2>2. Kept(minor, digits) = one
    BY <2>1 DEF Kept
  <2>3. v \in Byte
    BY <1>2, Widths
  <2>4. one \in Seq(Byte) /\ Len(one) = 1 /\ one[1] = v
    BY <2>3
  <2> HIDE DEF one
  <2>5. PICK f : /\ f[0] = 0
                 /\ \A i \in 1..1 : f[i] = f[i - 1] * Base + one[i]
                 /\ Number(one) = f[1]
    BY <2>4, NumberSteps
  <2>6. 1 \in 1..1 /\ f[1] = f[1 - 1] * Base + one[1]
    BY <2>5
  <2>7. 0 * Base + v = v
    BY Powers
  <2>8. Number(one) = v
    BY <2>4, <2>5, <2>6, <2>7
  <2>9. minor <= Follows[n]
    BY <1>2, <2>1, FollowsDistinct, Widths
  <2> QED BY <1>1, <2>2, <2>4, <2>8, <2>9
<1>3. CASE ~(v <= EmbeddedMax)
  <2> DEFINE s == Smallest(v)
  <2>1. minor = Follows[s] /\ digits = BigEndian(v, s)
    BY <1>3 DEF IsArgument
  <2>2. s \in Sizes
    BY SmallestSize
  <2>3. v < Values[s] /\ s <= n
    BY SmallestHolds
  <2> HIDE DEF s
  <2>4. s \in 0..8 /\ s \in Nat /\ s > 0
    BY <2>2 DEF Sizes
  <2>5. Len(digits) = s /\ Number(digits) = v
    BY <2>1, <2>3, <2>4, BigEndianType, NumberOfBigEndian
  <2>6. Kept(minor, digits) = digits
    BY <2>4, <2>5 DEF Kept
  <2>7. Follows[s] <= Follows[n]
    BY <2>2, <2>3, FollowsValue, Widths DEF Sizes
  <2> QED BY <2>1, <2>3, <2>5, <2>6, <2>7
<1> QED BY <1>2, <1>3

\* A number too great for a type is refused by its size.
LEMMA ArgumentTooGreat ==
    ASSUME NEW v \in Nat, v < Values[8], NEW minor \in Nat, NEW digits \in Seq(Byte),
           IsArgument(v, minor, digits), NEW n \in Sizes, ~(v < Values[n])
    PROVE  ~(minor <= Follows[n])
<1>1. ~(v <= EmbeddedMax)
  <2>1. Values[1] <= Values[n] /\ Values[n] \in Nat
    <3>1. n \in 0..8 /\ 1 \in 0..n
      BY DEF Sizes
    <3> QED BY <3>1, ValuesMore, ValuesType
  <2>2. Values[1] = Base * 1
    <3>1. Values[1] = Base * Values[1 - 1] /\ Values[0] = 1 /\ 1 - 1 = 0
      BY ValuesSteps
    <3> QED BY <3>1
  <2> QED BY <2>1, <2>2, Widths
<1> DEFINE s == Smallest(v)
<1>2. minor = Follows[s] /\ s \in Sizes
  BY <1>1, SmallestSize DEF IsArgument
<1>3. ~(s <= n)
  BY SmallestHolds
<1> HIDE DEF s
<1> QED BY <1>2, <1>3, FollowsValue, Widths DEF Sizes

LEMMA WrapWhole ==
    ASSUME NEW type, type.kind = "integer", type.bytes \in Sizes, type.signed \in BOOLEAN,
           NEW v \in Int, Magnitude(v) < Values[type.bytes],
           NEW digits \in Seq(Byte), Len(digits) <= type.bytes, Number(digits) = Magnitude(v)
    PROVE  Wrap(type, digits, v < 0) = InWidth(type, v)
<1> DEFINE modulus == Values[type.bytes]
           from == Max({1, Len(digits) - type.bytes + 1})
           low == IF v < 0 THEN modulus - 1 - Magnitude(v) ELSE Magnitude(v)
<1>1. type.bytes \in Nat /\ type.bytes \in 0..8
  BY DEF Sizes
<1>2. modulus \in Nat /\ modulus > 0
  BY <1>1, ValuesType
<1>3. from = 1
  <2>1. ASSUME NEW a \in Int, NEW b \in Int PROVE Max({a, b}) = IF a >= b THEN a ELSE b
    BY DEF Max
  <2>2. Len(digits) - type.bytes + 1 \in Int /\ Len(digits) - type.bytes + 1 <= 1
    BY <1>1
  <2> QED BY <2>1, <2>2
<1>4. SubSeq(digits, from, Len(digits)) = digits
  <2> DEFINE part == SubSeq(digits, 1, Len(digits))
  <2>1. /\ part \in Seq(Byte) /\ Len(part) = Len(digits)
        /\ \A i \in 1..Len(digits) : part[i] = digits[i]
    OBVIOUS
  <2> HIDE DEF part
  <2>2. part = digits
    BY <2>1, SameSequence
  <2> QED BY <1>3, <2>2 DEF part
<1>5. Wrap(type, digits, v < 0) =
          IF type.signed /\ low >= modulus \div 2 THEN low - modulus ELSE low
  BY <1>4 DEF Wrap
<1>6. v % modulus = low
  <2> HIDE DEF modulus
  <2>1. CASE v >= 0
    <3>1. Magnitude(v) = v /\ v < modulus
      BY <2>1 DEF Magnitude, modulus
    <3> QED BY <1>2, <2>1, <3>1, SmallRemainder
  <2>2. CASE v < 0
    <3>1. Magnitude(v) = -v - 1 /\ -v <= modulus
      BY <1>2, <2>2 DEF Magnitude, modulus
    <3>2. v % modulus = v + modulus
      BY <1>2, <2>2, <3>1, NegativeRemainder
    <3> QED BY <1>2, <2>2, <3>1, <3>2
  <2> QED BY <2>1, <2>2
<1>7. InWidth(type, v) =
          IF type.signed /\ low >= modulus \div 2 THEN low - modulus ELSE low
  BY <1>6 DEF InWidth
<1> QED BY <1>5, <1>7

LEMMA HostItemType ==
    ASSUME NEW given \in ItemTypes, NEW v, OfKind(given, v)
    PROVE  HostItem(given, v) \in Seq(Byte)
<1>1. Writer(0) \in Writers
  BY DEF Writer, Writers
<1> QED BY <1>1, EncodeItemAsHost

\* The head of an item, and what comes behind it.
HostMajor(given, v) ==
    CASE given.kind = "integer" -> IF v >= 0 THEN U64 ELSE Neg64
      [] given.kind = "text" -> Utf8
      [] given.kind = "span" -> Bytes
      [] OTHER -> Simple

HostBody(given, v) == IF given.kind \in {"text", "span"} THEN v ELSE << >>

IsHeadOf(given, v, minor, digits) ==
    CASE given.kind = "integer" -> IsArgument(Magnitude(v), minor, digits)
      [] given.kind = "floating" -> minor = Follows[Len(v)] /\ digits = v
      [] given.kind = "bool" ->
             minor = (IF v THEN TrueValue ELSE FalseValue) /\ digits = << >>
      [] given.kind = "void" -> minor = UndefinedValue /\ digits = << >>
      [] OTHER -> IsArgument(Len(v), minor, digits)

LEMMA HostItemParts ==
    ASSUME NEW given \in ItemTypes, NEW v, OfKind(given, v)
    PROVE  \E minor \in Nat, digits \in Seq(Byte) :
              /\ IsHead(minor, digits) /\ IsHeadOf(given, v, minor, digits)
              /\ HostMajor(given, v) \in 0..7 /\ HostBody(given, v) \in Seq(Byte)
              /\ HostItem(given, v) =
                     (<<InitialByte(HostMajor(given, v), minor)>> \o digits)
                         \o HostBody(given, v)
<1> DEFINE HeadIn(minor, digits) == <<InitialByte(HostMajor(given, v), minor)>> \o digits
<1> SUFFICES \E minor \in Nat, digits \in Seq(Byte) :
                /\ IsHead(minor, digits) /\ IsHeadOf(given, v, minor, digits)
                /\ HostMajor(given, v) \in 0..7 /\ HostBody(given, v) \in Seq(Byte)
                /\ HostItem(given, v) = HeadIn(minor, digits) \o HostBody(given, v)
  OBVIOUS
<1>1. /\ U64 \in 0..7 /\ Neg64 \in 0..7 /\ Utf8 \in 0..7 /\ Bytes \in 0..7 /\ Simple \in 0..7
  BY DEF U64, Neg64, Utf8, Bytes, Simple
<1>2. ASSUME NEW minor, NEW digits, IsHead(minor, digits), HostMajor(given, v) \in 0..7
      PROVE  HeadIn(minor, digits) \o << >> = HeadIn(minor, digits)
  <2>1. InitialByte(HostMajor(given, v), minor) \in Byte
    BY <1>2, InitialByteType DEF IsHead
  <2>2. HeadIn(minor, digits) \in Seq(Byte)
    BY <1>2, <2>1 DEF IsHead
  <2> HIDE DEF HeadIn
  <2> QED BY <2>2
<1>3. CASE given.kind = "integer"
  <2>1. /\ HostBody(given, v) = << >> /\ v \in Int
        /\ HostMajor(given, v) = IF v >= 0 THEN U64 ELSE Neg64
        /\ \A minor, digits :
              IsHeadOf(given, v, minor, digits) <=> IsArgument(Magnitude(v), minor, digits)
    BY <1>3 DEF HostBody, HostMajor, IsHeadOf, OfKind
  <2>2. HostMajor(given, v) \in 0..7 /\ Magnitude(v) \in Nat
    BY <1>1, <2>1, MagnitudeType
  <2>3. HostItem(given, v) = HostHead(HostMajor(given, v), Magnitude(v))
    BY <1>3, <2>1 DEF HostItem, Magnitude
  <2>4. PICK minor \in Nat, digits \in Seq(Byte) :
            /\ IsArgument(Magnitude(v), minor, digits)
            /\ HostHead(HostMajor(given, v), Magnitude(v)) = HeadIn(minor, digits)
    BY <2>2, HeadBytes
  <2>5. IsHead(minor, digits)
    BY <2>2, <2>4, ArgumentIsHead
  <2>6. << >> \in Seq(Byte)
    OBVIOUS
  <2>7. HostItem(given, v) = HeadIn(minor, digits) \o HostBody(given, v)
    BY <1>2, <2>1, <2>2, <2>3, <2>4, <2>5
  <2> HIDE DEF HeadIn
  <2> QED BY <2>1, <2>2, <2>4, <2>5, <2>6, <2>7
<1>4. CASE given.kind = "floating"
  <2>1. /\ HostBody(given, v) = << >> /\ v \in Seq(Byte) /\ Len(v) \in {2, 4, 8}
        /\ HostMajor(given, v) = Simple
        /\ IsHeadOf(given, v, Follows[Len(v)], v)
    BY <1>4 DEF HostBody, HostMajor, IsHeadOf, OfKind
  <2>2. HostItem(given, v) = HeadIn(Follows[Len(v)], v)
    BY <1>4, <2>1 DEF HostItem
  <2>3. IsHead(Follows[Len(v)], v)
    BY <2>1, SizeIsHead DEF Sizes
  <2>4. << >> \in Seq(Byte) /\ Follows[Len(v)] \in Nat
    BY <2>3 DEF IsHead
  <2>5. HostItem(given, v) = HeadIn(Follows[Len(v)], v) \o HostBody(given, v)
    BY <1>1, <1>2, <2>1, <2>2, <2>3
  <2> HIDE DEF HeadIn
  <2> QED BY <1>1, <2>1, <2>3, <2>4, <2>5
<1>5. CASE given.kind \in {"bool", "void"}
  <2> DEFINE minor == IF given.kind = "void" THEN UndefinedValue
                      ELSE IF v THEN TrueValue ELSE FalseValue
  <2>1. minor \in Nat /\ minor <= EmbeddedMax
    BY Widths DEF UndefinedValue, TrueValue, FalseValue
  <2>2. HostBody(given, v) = << >> /\ HostMajor(given, v) = Simple
    BY <1>5 DEF HostBody, HostMajor
  <2>3. IsHeadOf(given, v, minor, << >>)
    BY <1>5 DEF IsHeadOf
  <2>4. HostItem(given, v) = <<InitialByte(HostMajor(given, v), minor)>>
    BY <1>5, <2>2 DEF HostItem
  <2> HIDE DEF minor
  <2>5. IsHead(minor, << >>) /\ << >> \in Seq(Byte)
    BY <2>1, EmbeddedIsHead
  <2>6. HostItem(given, v) = HeadIn(minor, << >>) \o HostBody(given, v)
    <3>1. InitialByte(HostMajor(given, v), minor) \in Byte
      BY <1>1, <2>2, <2>5, InitialByteType DEF IsHead
    <3>2. \A b \in Byte : (<<b>> \o << >>) \o << >> = <<b>>
      OBVIOUS
    <3> QED BY <2>2, <2>4, <3>1, <3>2
  <2> HIDE DEF HeadIn
  <2> QED BY <1>1, <2>1, <2>2, <2>3, <2>5, <2>6
<1>6. CASE given.kind \in {"text", "span"}
  <2>1. /\ HostBody(given, v) = v /\ v \in Seq(Byte) /\ Len(v) \in Nat
        /\ HostMajor(given, v) = IF given.kind = "text" THEN Utf8 ELSE Bytes
        /\ \A minor, digits :
              IsHeadOf(given, v, minor, digits) <=> IsArgument(Len(v), minor, digits)
    BY <1>6 DEF HostBody, HostMajor, IsHeadOf, OfKind
  <2>2. HostItem(given, v) = HostHead(HostMajor(given, v), Len(v)) \o v
    BY <1>6, <2>1 DEF HostItem
  <2>3. HostMajor(given, v) \in 0..7
    BY <1>1, <2>1
  <2>4. PICK minor \in Nat, digits \in Seq(Byte) :
            /\ IsArgument(Len(v), minor, digits)
            /\ HostHead(HostMajor(given, v), Len(v)) = HeadIn(minor, digits)
    BY <2>1, <2>3, HeadBytes
  <2>5. IsHead(minor, digits)
    BY <2>1, <2>4, ArgumentIsHead
  <2>6. HostItem(given, v) = HeadIn(minor, digits) \o HostBody(given, v)
    BY <2>1, <2>2, <2>4
  <2> HIDE DEF HeadIn
  <2> QED BY <2>1, <2>3, <2>4, <2>5, <2>6
<1> QED BY <1>3, <1>4, <1>5, <1>6, ItemKinds
\* The head of an item of the host, as the device has unpacked it.
IsHostHead(item, given, v, minor, digits) ==
    /\ item.ok = TRUE /\ item.major = HostMajor(given, v) /\ item.minor = minor
    /\ item.value = Kept(minor, digits)
    /\ minor \in Nat /\ IsHead(minor, digits) /\ IsHeadOf(given, v, minor, digits)

\* What the device is to make of it: it is decoded if its type is the one asked
\* for, and then it is the value in the width of that type.
IsDecoded(got, type, given, v, item) ==
    /\ got.ok <=> Accepts(type, given, v)
    /\ got.ok => got.value = InWidth(type, v)
    /\ got.rest = item.rest

LEMMA Majors == U64 = 0 /\ Neg64 = 1 /\ Bytes = 2 /\ Utf8 = 3 /\ Array = 4 /\ Simple = 7
BY DEF U64, Neg64, Bytes, Utf8, Array, Simple

LEMMA DecodedIs ==
    ASSUME NEW item, item.ok = TRUE, NEW ok \in BOOLEAN, NEW v
    PROVE  /\ Decoded(item, ok, v).ok <=> ok
           /\ Decoded(item, ok, v).value = v /\ Decoded(item, ok, v).rest = item.rest
BY DEF Decoded

LEMMA HostIntegerDecoded ==
    ASSUME NEW type \in ArgTypes, type.kind = "integer", NEW given \in ItemTypes,
           NEW v, OfKind(given, v), InEight(given, v),
           NEW item, NEW minor, NEW digits, IsHostHead(item, given, v, minor, digits)
    PROVE  IsDecoded(DecodeInteger(type, item), type, given, v, item)
<1>1. type.bytes \in Sizes /\ type.signed \in BOOLEAN
  BY ArgKinds
<1>2. item.ok = TRUE /\ item.major = HostMajor(given, v) /\ item.minor = minor
  BY DEF IsHostHead
<1>3. CASE given.kind = "integer"
  <2>1. v \in Int /\ item.major = IF v >= 0 THEN U64 ELSE Neg64
    BY <1>2, <1>3 DEF OfKind, HostMajor
  <2>2. item.major \in {U64, Neg64} /\ (item.major = Neg64 <=> v < 0)
    BY <2>1, Majors
  <2> DEFINE n == Magnitude(v)
  <2>3. n \in Nat /\ n < Values[8]
    BY <1>3, <2>1, MagnitudeType, EightBytes DEF InEight
  <2>4. /\ minor \in Nat /\ digits \in Seq(Byte) /\ IsArgument(n, minor, digits)
        /\ item.value = Kept(minor, digits)
    BY <1>3 DEF IsHostHead, IsHeadOf, IsHead
  <2>5. Accepts(type, given, v) <=> n < Values[type.bytes]
    <3>1. Accepts(type, given, v) <=> v \in -(Values[type.bytes])..(Values[type.bytes] - 1)
      BY <1>3 DEF Accepts
    <3>2. Values[type.bytes] \in Nat
      BY <1>1, ValuesType DEF Sizes
    <3> QED BY <2>1, <3>1, <3>2, MagnitudeType
  <2> HIDE DEF n
  <2>6. CASE n < Values[type.bytes]
    <3> DEFINE kept == Kept(minor, digits)
    <3>1. /\ kept \in Seq(Byte) /\ Len(kept) <= type.bytes /\ Number(kept) = n
          /\ minor <= Follows[type.bytes]
      BY <1>1, <2>3, <2>4, <2>6, ArgumentNumber
    <3> HIDE DEF kept
    <3>2. Wrap(type, kept, v < 0) = InWidth(type, v)
      BY <1>1, <2>1, <2>6, <3>1, WrapWhole DEF n
    <3>3. Wrap(type, item.value, item.major = Neg64) = InWidth(type, v)
      <4>1. (item.major = Neg64) = (v < 0)
        BY <2>1, <2>2
      <4> QED BY <2>4, <3>2, <4>1 DEF kept
    <3>4. DecodeInteger(type, item) =
              Decoded(item, TRUE, Wrap(type, item.value, item.major = Neg64))
      BY <1>2, <2>2, <3>1 DEF DecodeInteger
    <3>5. /\ DecodeInteger(type, item).ok <=> TRUE
          /\ DecodeInteger(type, item).value = InWidth(type, v)
          /\ DecodeInteger(type, item).rest = item.rest
      <4>1. PICK x : x = Wrap(type, item.value, item.major = Neg64)
        OBVIOUS
      <4> DEFINE got == Decoded(item, TRUE, x)
      <4>2. got.ok /\ got.value = x /\ got.rest = item.rest
        BY <1>2 DEF Decoded
      <4> HIDE DEF got
      <4> QED BY <3>3, <3>4, <4>1, <4>2 DEF got
    <3> QED BY <2>5, <2>6, <3>5 DEF IsDecoded
  <2>7. CASE ~(n < Values[type.bytes])
    <3>1. ~(minor <= Follows[type.bytes])
      BY <1>1, <2>3, <2>4, <2>7, ArgumentTooGreat
    <3>2. DecodeInteger(type, item) = Decoded(item, FALSE, 0)
      BY <1>2, <3>1 DEF DecodeInteger
    <3>3. ~DecodeInteger(type, item).ok /\ DecodeInteger(type, item).rest = item.rest
      <4> DEFINE got == Decoded(item, FALSE, 0)
      <4>1. (got.ok <=> FALSE) /\ got.rest = item.rest
        BY <1>2, DecodedIs
      <4> HIDE DEF got
      <4> QED BY <3>2, <4>1 DEF got
    <3> QED BY <2>5, <2>7, <3>3 DEF IsDecoded
  <2> QED BY <2>6, <2>7
<1>4. CASE given.kind # "integer"
  <2>1. item.major \notin {U64, Neg64}
    BY <1>2, <1>4, Majors DEF HostMajor
  <2>2. DecodeInteger(type, item) = Decoded(item, FALSE, 0)
    BY <2>1 DEF DecodeInteger
  <2>3. ~Accepts(type, given, v)
    BY <1>4 DEF Accepts
  <2>4. ~DecodeInteger(type, item).ok /\ DecodeInteger(type, item).rest = item.rest
    <3> DEFINE got == Decoded(item, FALSE, 0)
    <3>1. (got.ok <=> FALSE) /\ got.rest = item.rest
      BY <1>2, DecodedIs
    <3> HIDE DEF got
    <3> QED BY <2>2, <3>1 DEF got
  <2> QED BY <2>3, <2>4 DEF IsDecoded
<1> QED BY <1>3, <1>4

LEMMA HostFloatingDecoded ==
    ASSUME NEW type \in ArgTypes, type.kind = "floating", NEW given \in ItemTypes,
           NEW v, OfKind(given, v),
           NEW item, NEW minor, NEW digits, IsHostHead(item, given, v, minor, digits)
    PROVE  IsDecoded(DecodeFloating(type, item), type, given, v, item)
<1>1. item.ok = TRUE /\ item.major = HostMajor(given, v) /\ item.minor = minor
  BY DEF IsHostHead
<1> DEFINE ok == /\ item.major = Simple
                 /\ Following(item.minor) \in {2, 4, 8}
                 /\ Following(item.minor) <= type.bytes
<1>2. /\ DecodeFloating(type, item).ok <=> ok
      /\ DecodeFloating(type, item).rest = item.rest
      /\ DecodeFloating(type, item).value = item.value
  BY <1>1 DEF DecodeFloating, Decoded
<1>3. CASE given.kind = "floating"
  <2>1. v \in Seq(Byte) /\ Len(v) \in {2, 4, 8} /\ item.major = Simple
    BY <1>1, <1>3 DEF OfKind, HostMajor
  <2>2. minor = Follows[Len(v)] /\ item.value = Kept(minor, v)
    BY <1>3 DEF IsHostHead, IsHeadOf
  <2>3. Following(minor) = Len(v)
    BY <2>1, <2>2, SizeIsHead DEF Sizes
  <2>4. item.value = v
    BY <2>1, <2>2 DEF Kept
  <2>5. Accepts(type, given, v) <=> Len(v) <= type.bytes
    BY <1>3 DEF Accepts
  <2>6. InWidth(type, v) = v
    BY DEF InWidth
  <2> QED BY <1>1, <1>2, <2>1, <2>3, <2>4, <2>5, <2>6 DEF IsDecoded
<1>4. CASE given.kind # "floating"
  <2>1. ~Accepts(type, given, v)
    BY <1>4 DEF Accepts
  <2>2. ~ok
    <3>1. CASE given.kind \in {"bool", "void"}
      <4>1. digits = << >>
        BY <3>1 DEF IsHostHead, IsHeadOf
      <4>2. Following(minor) = 0
        BY <4>1 DEF IsHostHead, IsHead
      <4> QED BY <1>1, <4>2
    <3>2. CASE given.kind \in {"integer", "text", "span"}
      <4>1. item.major # Simple
        BY <1>1, <3>2, Majors DEF HostMajor
      <4> QED BY <4>1
    <3> QED BY <1>4, <3>1, <3>2, ItemKinds
  <2> HIDE DEF ok
  <2> QED BY <1>2, <2>1, <2>2 DEF IsDecoded
<1> QED BY <1>3, <1>4

LEMMA HostBoolDecoded ==
    ASSUME NEW type \in ArgTypes, type.kind = "bool", NEW given \in ItemTypes,
           NEW v, OfKind(given, v),
           NEW item, NEW minor, NEW digits, IsHostHead(item, given, v, minor, digits)
    PROVE  IsDecoded(DecodeBool(item), type, given, v, item)
<1>1. item.ok = TRUE /\ item.major = HostMajor(given, v) /\ item.minor = minor
  BY DEF IsHostHead
<1> DEFINE ok == item.major = Simple /\ minor \in {TrueValue, FalseValue}
<1>2. /\ DecodeBool(item).ok <=> ok
      /\ DecodeBool(item).rest = item.rest
      /\ DecodeBool(item).value = (minor = TrueValue)
  BY <1>1 DEF DecodeBool, Decoded, IsSimple
<1>3. TrueValue # FalseValue /\ UndefinedValue \notin {TrueValue, FalseValue}
      /\ TrueValue <= EmbeddedMax /\ FalseValue <= EmbeddedMax
  BY Widths DEF TrueValue, FalseValue, UndefinedValue
<1>4. CASE given.kind = "bool"
  <2>1. v \in BOOLEAN /\ item.major = Simple
    BY <1>1, <1>4 DEF OfKind, HostMajor
  <2>2. minor = IF v THEN TrueValue ELSE FalseValue
    BY <1>4 DEF IsHostHead, IsHeadOf
  <2>3. Accepts(type, given, v)
    BY <1>4 DEF Accepts
  <2>4. InWidth(type, v) = v
    BY DEF InWidth
  <2>5. ok /\ ((minor = TrueValue) <=> v)
    BY <1>3, <2>1, <2>2
  <2>6. (minor = TrueValue) = v
    BY <2>1, <2>5
  <2> HIDE DEF ok
  <2> QED BY <1>2, <2>3, <2>4, <2>5, <2>6 DEF IsDecoded
<1>5. CASE given.kind # "bool"
  <2>1. ~Accepts(type, given, v)
    BY <1>5 DEF Accepts
  <2>2. ~ok
    <3>1. CASE given.kind = "void"
      <4>1. minor = UndefinedValue
        BY <3>1 DEF IsHostHead, IsHeadOf
      <4> QED BY <1>3, <4>1
    <3>2. CASE given.kind = "floating"
      <4>1. minor = Follows[Len(v)] /\ Len(v) \in Sizes
        BY <3>2 DEF IsHostHead, IsHeadOf, OfKind, Sizes
      <4>2. minor > EmbeddedMax
        BY <4>1, FollowsDistinct, Widths
      <4> QED BY <1>3, <4>2, Widths DEF TrueValue, FalseValue
    <3>3. CASE given.kind \in {"integer", "text", "span"}
      <4>1. item.major # Simple
        BY <1>1, <3>3, Majors DEF HostMajor
      <4> QED BY <4>1
    <3> QED BY <1>5, <3>1, <3>2, <3>3, ItemKinds
  <2> HIDE DEF ok
  <2> QED BY <1>2, <2>1, <2>2 DEF IsDecoded
<1> QED BY <1>4, <1>5

\* A span gets all that is behind its head: what the host has sent, if that
\* is all there is.
LEMMA HostSpanDecoded ==
    ASSUME NEW type \in ArgTypes, type.kind = "span", NEW given \in ItemTypes,
           NEW v, OfKind(given, v), NEW mem,
           NEW item, NEW minor, NEW digits, IsHostHead(item, given, v, minor, digits),
           item.rest.size = Len(HostBody(given, v)),
           Lies(mem, item.rest.at, HostBody(given, v))
    PROVE  IsDecoded(DecodeSpan(mem, item), type, given, v, item)
<1>1. item.ok = TRUE /\ item.major = HostMajor(given, v) /\ item.minor = minor
  BY DEF IsHostHead
<1>2. minor # Indefinite
  BY DEF IsHostHead, IsHead
<1> DEFINE value == [i \in 1..item.rest.size |-> mem[item.rest.at + i - 1]]
<1>3. /\ DecodeSpan(mem, item).ok <=> item.major = Bytes
      /\ DecodeSpan(mem, item).rest = item.rest
      /\ DecodeSpan(mem, item).value = value
  BY <1>1, <1>2 DEF DecodeSpan, Decoded
<1>4. item.major = Bytes <=> given.kind = "span"
  BY <1>1, Majors, ItemKinds DEF HostMajor
<1>5. Accepts(type, given, v) <=> given.kind = "span"
  BY DEF Accepts
<1>6. CASE given.kind = "span"
  <2>1. v \in Seq(Byte) /\ HostBody(given, v) = v
    BY <1>6 DEF OfKind, HostBody
  <2>2. \A i \in 1..Len(v) : mem[item.rest.at + i - 1] = v[i]
    BY <2>1 DEF Lies
  <2>3. v = [i \in 1..Len(v) |-> v[i]]
    BY <2>1
  <2>4. value = v
    BY <2>1, <2>2, <2>3
  <2>5. InWidth(type, v) = v
    BY DEF InWidth
  <2> HIDE DEF value
  <2> QED BY <1>3, <1>4, <1>5, <1>6, <2>4, <2>5 DEF IsDecoded
<1>7. CASE given.kind # "span"
  <2> HIDE DEF value
  <2> QED BY <1>3, <1>4, <1>5, <1>7 DEF IsDecoded
<1> QED BY <1>6, <1>7
\* Cbor<T>::decode of what the host has encoded.
LEMMA DecodeHostItem ==
    ASSUME NEW type \in ArgTypes, NEW given \in ItemTypes,
           NEW v, OfKind(given, v), InEight(given, v),
           NEW n, n = Len(HostItem(given, v)), NEW mem, NEW buf, Room(buf, n),
           Lies(mem, buf.at, HostItem(given, v)), type.kind = "span" => n = buf.size
    PROVE  /\ DecodeItem(type, mem, buf).ok <=> Accepts(type, given, v)
           /\ DecodeItem(type, mem, buf).ok => DecodeItem(type, mem, buf).value = InWidth(type, v)
           /\ DecodeItem(type, mem, buf).ok /\ type.kind # "span" =>
                 DecodeItem(type, mem, buf).rest = Skip(buf, n)
<1> DEFINE major == HostMajor(given, v)
           body == HostBody(given, v)
           item == Unpack(mem, buf)
           got == DecodeItem(type, mem, buf)
<1>1. PICK minor \in Nat, digits \in Seq(Byte) :
          /\ IsHead(minor, digits) /\ IsHeadOf(given, v, minor, digits)
          /\ major \in 0..7 /\ body \in Seq(Byte)
          /\ HostItem(given, v) = (<<InitialByte(major, minor)>> \o digits) \o body
  BY HostItemParts
<1> DEFINE first == InitialByte(major, minor)
           head == <<first>> \o digits
<1> HIDE DEF major, body
<1>2. head \in Seq(Byte) /\ Len(head) = 1 + Len(digits) /\ Len(digits) \in Nat
  <2>1. first \in Byte
    BY <1>1, InitialByteType DEF IsHead
  <2> HIDE DEF first
  <2>2. <<first>> \in Seq(Byte) /\ Len(<<first>>) = 1
    BY <2>1
  <2> QED BY <2>2, JoinParts
<1>3. HostItem(given, v) = head \o body
  BY <1>1
<1>4. n = Len(head) + Len(body) /\ Len(body) \in Nat
  BY <1>1, <1>2, <1>3, JoinParts
<1>5. /\ buf.at \in Int /\ buf.size \in Nat /\ n <= buf.size
      /\ Lies(mem, buf.at, head) /\ Lies(mem, buf.at + Len(head), body)
  <2>1. buf.at \in Int /\ Lies(mem, buf.at, head \o body)
    BY <1>3 DEF Room
  <2> HIDE DEF head
  <2> QED BY <1>1, <1>2, <2>1, LiesParts DEF Room
<1>6. IsUnpacked(item, major, minor, digits, buf)
  <2>1. Room(buf, 1 + Len(digits))
    BY <1>2, <1>4, <1>5 DEF Room
  <2>2. Lies(mem, buf.at, <<InitialByte(major, minor)>> \o digits)
    BY <1>5
  <2> QED BY <1>1, <2>1, <2>2, UnpackHead
<1>7. got = DecodeUnpacked(type, mem, item)
  BY DEF DecodeItem
<1> HIDE DEF item, head
<1>8. /\ IsHostHead(item, given, v, minor, digits) /\ item.ok = TRUE
      /\ item.rest.at = buf.at + Len(head) /\ item.rest.size = buf.size - Len(head)
      /\ item.rest = Skip(buf, Len(head))
  <2>1. item.rest = Skip(buf, Len(head))
    BY <1>2, <1>6 DEF IsUnpacked
  <2>2. item.rest.at = buf.at + Len(head) /\ item.rest.size = buf.size - Len(head)
    BY <2>1 DEF Skip
  <2>3. IsHostHead(item, given, v, minor, digits)
    BY <1>1, <1>6 DEF IsUnpacked, IsHostHead, Kept, major
  <2> QED BY <1>6, <2>1, <2>2, <2>3 DEF IsUnpacked
<1>9. IsDecoded(got, type, given, v, item)
  <2>1. CASE type.kind = "integer"
    BY <1>7, <1>8, <2>1, HostIntegerDecoded DEF DecodeUnpacked
  <2>2. CASE type.kind = "floating"
    BY <1>7, <1>8, <2>2, HostFloatingDecoded DEF DecodeUnpacked
  <2>3. CASE type.kind = "bool"
    BY <1>7, <1>8, <2>3, HostBoolDecoded DEF DecodeUnpacked
  <2>4. CASE type.kind = "span"
    <3>1. got = DecodeSpan(mem, item)
      BY <1>7, <1>8, <2>4 DEF DecodeUnpacked
    <3>2. item.rest.size = Len(body) /\ Lies(mem, item.rest.at, body)
      BY <1>2, <1>4, <1>5, <1>8, <2>4
    <3> QED BY <1>8, <2>4, <3>1, <3>2, HostSpanDecoded DEF body
  <2> QED BY <2>1, <2>2, <2>3, <2>4, ArgKinds
<1> HIDE DEF got
<1>10. ASSUME got.ok, type.kind # "span" PROVE got.rest = Skip(buf, n)
  <2>1. given.kind = type.kind
    BY <1>9, <1>10 DEF IsDecoded, Accepts
  <2>2. body = << >>
    BY <1>10, <2>1, ArgKinds DEF HostBody, body
  <2>3. n = Len(head)
    BY <1>2, <1>4, <2>2
  <2> QED BY <1>8, <1>9, <2>3 DEF IsDecoded
<1> QED BY <1>9, <1>10 DEF IsDecoded, got

\* No item is decoded from nothing.
LEMMA DecodeNothing ==
    ASSUME NEW type \in ArgTypes, NEW mem, NEW buf, buf.size = 0
    PROVE  ~DecodeItem(type, mem, buf).ok
<1>1. Unpack(mem, buf) = Failed(buf)
  BY DEF Unpack
<1>2. DecodeItem(type, mem, buf) = Failed(buf)
  BY <1>1 DEF DecodeItem, DecodeUnpacked, Failed
<1> QED BY <1>2 DEF Failed

\* What the host gives, in order, with the bytes of the items before each.
LEMMA HostItemsSteps ==
    ASSUME NEW types \in Seq(ItemTypes), NEW vs,
           \A i \in 1..Len(types) : OfKind(types[i], vs[i])
    PROVE  \E g : /\ g[0] = << >>
                  /\ \A i \in 0..Len(types) : g[i] \in Seq(Byte)
                  /\ \A i \in 1..Len(types) : g[i] = g[i - 1] \o HostItem(types[i], vs[i])
                  /\ HostItems(types, vs) = g[Len(types)]
<1> DEFINE n == Len(types)
           items == [i \in 1..n |-> HostItem(types[i], vs[i])]
<1>1. \A i \in 1..n : types[i] \in ItemTypes /\ OfKind(types[i], vs[i])
  OBVIOUS
<1>2. \A i \in 1..n : items[i] \in Seq(Byte) /\ items[i] = HostItem(types[i], vs[i])
  BY <1>1, HostItemType
<1>3. items \in Seq(Seq(Byte)) /\ Len(items) = n /\ n \in Nat
  BY <1>2
<1>4. HostItems(types, vs) = FlattenSeq(items)
  BY DEF HostItems
<1> HIDE DEF items, n
<1>5. PICK g : /\ g[0] = << >>
               /\ \A i \in 0..Len(items) : g[i] \in Seq(Byte)
               /\ \A i \in 1..Len(items) : g[i] = g[i - 1] \o items[i]
               /\ FlattenSeq(items) = g[Len(items)]
  BY <1>3, FlattenSteps
<1>6. /\ g[0] = << >>
      /\ \A i \in 0..n : g[i] \in Seq(Byte)
      /\ \A i \in 1..n : g[i] = g[i - 1] \o HostItem(types[i], vs[i])
      /\ HostItems(types, vs) = g[n]
  BY <1>2, <1>3, <1>4, <1>5
<1> QED BY <1>6 DEF n

\* Pieces put together lie where the whole does.
LEMMA PiecesLie ==
    ASSUME NEW n \in Nat, NEW g, NEW pieces, NEW mem, NEW at \in Int,
           \A i \in 0..n : g[i] \in Seq(Byte),
           \A i \in 1..n : pieces[i] \in Seq(Byte) /\ g[i] = g[i - 1] \o pieces[i],
           Lies(mem, at, g[n])
    PROVE  \A i \in 1..n : /\ Lies(mem, at + Len(g[i - 1]), pieces[i])
                           /\ Len(g[i]) = Len(g[i - 1]) + Len(pieces[i])
                           /\ Len(g[i]) <= Len(g[n])
<1> DEFINE T == {k \in 0..n : Lies(mem, at, g[n - k]) /\ Len(g[n - k]) <= Len(g[n])}
<1>1. ASSUME NEW i \in 1..n
      PROVE  /\ g[i - 1] \in Seq(Byte) /\ g[i] \in Seq(Byte) /\ pieces[i] \in Seq(Byte)
             /\ Len(g[i]) = Len(g[i - 1]) + Len(pieces[i])
             /\ Len(g[i]) \in Nat /\ Len(g[i - 1]) \in Nat /\ Len(pieces[i]) \in Nat
             /\ Lies(mem, at, g[i]) =>
                   Lies(mem, at, g[i - 1]) /\ Lies(mem, at + Len(g[i - 1]), pieces[i])
  <2>1. /\ g[i - 1] \in Seq(Byte) /\ g[i] \in Seq(Byte) /\ pieces[i] \in Seq(Byte)
        /\ g[i] = g[i - 1] \o pieces[i]
    <3>1. i - 1 \in 0..n /\ i \in 0..n
      OBVIOUS
    <3> QED BY <3>1
  <2>2. PICK a \in Seq(Byte), b \in Seq(Byte) :
            a = g[i - 1] /\ b = pieces[i] /\ g[i] = a \o b
    BY <2>1
  <2>3. Len(a \o b) = Len(a) + Len(b) /\ Len(a) \in Nat /\ Len(b) \in Nat
    BY JoinParts
  <2>4. Lies(mem, at, a \o b) => Lies(mem, at, a) /\ Lies(mem, at + Len(a), b)
    BY LiesParts
  <2>5. /\ Len(g[i]) = Len(g[i - 1]) + Len(pieces[i])
        /\ Len(g[i - 1]) \in Nat /\ Len(pieces[i]) \in Nat
    BY <2>2, <2>3
  <2>6. Len(g[i]) \in Nat
    <3>1. PICK c \in Seq(Byte) : c = g[i]
      BY <2>1
    <3>2. Len(c) \in Nat
      OBVIOUS
    <3> QED BY <3>1, <3>2
  <2>7. Lies(mem, at, g[i]) =>
            Lies(mem, at, g[i - 1]) /\ Lies(mem, at + Len(g[i - 1]), pieces[i])
    BY <2>2, <2>4
  <2> QED BY <2>1, <2>5, <2>6, <2>7
<1>2. 0 \in T
  <2>1. g[n] \in Seq(Byte) /\ n - 0 = n
    OBVIOUS
  <2> QED BY <2>1
<1>3. ASSUME NEW k \in 1..n, k - 1 \in T PROVE k \in T
  <2>1. n - (k - 1) \in 1..n /\ (n - (k - 1)) - 1 = n - k
    OBVIOUS
  <2>2. PICK i \in 1..n : i = n - (k - 1) /\ i - 1 = n - k
    BY <2>1
  <2>3. Lies(mem, at, g[i]) /\ Len(g[i]) <= Len(g[n])
    BY <1>3, <2>2
  <2>4. Len(g[n]) \in Nat
    <3>1. g[n] \in Seq(Byte)
      OBVIOUS
    <3> QED BY <3>1
  <2>5. Lies(mem, at, g[i - 1]) /\ Len(g[i - 1]) <= Len(g[n])
    <3>1. /\ Len(g[i]) = Len(g[i - 1]) + Len(pieces[i])
          /\ Len(g[i]) \in Nat /\ Len(g[i - 1]) \in Nat /\ Len(pieces[i]) \in Nat
          /\ Lies(mem, at, g[i - 1])
      BY <1>1, <2>3
    <3>2. PICK x \in Nat, y \in Nat, z \in Nat, whole \in Nat :
              /\ x = Len(g[i - 1]) /\ y = Len(pieces[i]) /\ z = Len(g[i])
              /\ whole = Len(g[n])
      BY <2>4, <3>1, Zenon
    <3>3. z = x + y /\ z <= whole
      BY <2>3, <3>1, <3>2
    <3>4. x <= whole
      BY <3>3
    <3> QED BY <3>1, <3>2, <3>4
  <2> QED BY <2>2, <2>5
<1> HIDE DEF T
<1>4. \A k \in 0..n : k \in T
  BY <1>2, <1>3, UpTo
<1>5. ASSUME NEW i \in 1..n PROVE Lies(mem, at, g[i]) /\ Len(g[i]) <= Len(g[n])
  <2>1. n - i \in 0..n /\ n - (n - i) = i
    OBVIOUS
  <2>2. n - i \in T
    BY <1>4, <2>1
  <2> QED BY <2>1, <2>2 DEF T
<1> QED BY <1>1, <1>5
\* What the host gives for a call.
Given(given, vs) ==
    /\ given \in Seq(ItemTypes)
    /\ \A i \in 1..Len(given) : OfKind(given[i], vs[i]) /\ InEight(given[i], vs[i])

AcceptsAll(types, given, vs) ==
    /\ Len(types) <= Len(given)
    /\ \A i \in 1..Len(types) : Accepts(types[i], given[i], vs[i])

\* The arguments, in the width of the parameters.
Reduced(types, vs) == [i \in 1..Len(types) |-> InWidth(types[i], vs[i])]

\* The bytes of what is given, up to each item and with it.
UpToEach(g, given, vs) ==
    /\ g[0] = << >>
    /\ \A i \in 0..Len(given) : g[i] \in Seq(Byte)
    /\ \A i \in 1..Len(given) : g[i] = g[i - 1] \o HostItem(given[i], vs[i])
    /\ HostItems(given, vs) = g[Len(given)]

\* What the host gives lies in a span, as long as it is.
IsGiven(types, given, vs, mem, lo, hi, buf) ==
    /\ types \in Seq(ArgTypes) /\ Given(given, vs) /\ SpanAtEnd(types, given)
    /\ lo \in Int /\ hi \in Int /\ buf \in Spans(lo, hi)
    /\ buf.size = Len(HostItems(given, vs)) /\ Lies(mem, buf.at, HostItems(given, vs))

LEMMA SkipParts ==
    ASSUME NEW lo \in Int, NEW hi \in Int, NEW buf \in Spans(lo, hi)
    PROVE  /\ Skip(buf, 0) = buf
           /\ \A a, b \in Nat : Skip(Skip(buf, a), b) = Skip(buf, a + b)
           /\ \A a \in Nat : Skip(buf, a).at = buf.at + a /\ Skip(buf, a).size = buf.size - a
<1>1. buf.at \in Int /\ buf.size \in Nat /\ buf = [at |-> buf.at, size |-> buf.size]
  BY DEF Spans
<1>2. PICK x \in Int, y \in Nat : buf = [at |-> x, size |-> y] /\ x = buf.at /\ y = buf.size
  BY <1>1
<1>3. Skip(buf, 0) = buf
  BY <1>2 DEF Skip
<1>4. \A a \in Nat : Skip(buf, a) = [at |-> x + a, size |-> y - a]
  BY <1>2 DEF Skip
<1>5. ASSUME NEW a \in Nat, NEW b \in Nat PROVE Skip(Skip(buf, a), b) = Skip(buf, a + b)
  <2>1. Skip([at |-> x + a, size |-> y - a], b) = [at |-> x + a + b, size |-> y - a - b]
    BY DEF Skip
  <2>2. Skip(buf, a + b) = [at |-> x + (a + b), size |-> y - (a + b)]
    BY <1>4
  <2>3. x + a + b = x + (a + b) /\ y - a - b = y - (a + b)
    BY <1>2
  <2> QED BY <1>4, <2>1, <2>2, <2>3
<1>6. ASSUME NEW a \in Nat
      PROVE  Skip(buf, a).at = buf.at + a /\ Skip(buf, a).size = buf.size - a
  <2>1. Skip(buf, a) = [at |-> x + a, size |-> y - a]
    BY <1>4
  <2>2. Skip(buf, a).at = x + a /\ Skip(buf, a).size = y - a
    BY <2>1
  <2> QED BY <1>2, <2>2
<1> QED BY <1>3, <1>5, <1>6

\* One more of them, behind those that have been decoded.
LEMMA DecodeNextItem ==
    ASSUME NEW types, NEW given, NEW vs, NEW mem, NEW lo, NEW hi, NEW buf,
           IsGiven(types, given, vs, mem, lo, hi, buf), NEW g, UpToEach(g, given, vs),
           NEW i \in 1..Len(types), i - 1 <= Len(given),
           NEW at, at = Skip(buf, Len(g[i - 1]))
    PROVE  /\ DecodeItem(types[i], mem, at).ok <=>
                 (i <= Len(given) /\ Accepts(types[i], given[i], vs[i]))
           /\ DecodeItem(types[i], mem, at).ok =>
                 DecodeItem(types[i], mem, at).value = InWidth(types[i], vs[i])
           /\ DecodeItem(types[i], mem, at).ok /\ types[i].kind # "span" =>
                 DecodeItem(types[i], mem, at).rest = Skip(buf, Len(g[i]))
<1> DEFINE N == Len(given)
           type == types[i]
           pieces == [j \in 1..N |-> HostItem(given[j], vs[j])]
           item == DecodeItem(type, mem, at)
<1>a. /\ types \in Seq(ArgTypes) /\ Given(given, vs) /\ SpanAtEnd(types, given)
      /\ lo \in Int /\ hi \in Int /\ buf \in Spans(lo, hi)
      /\ buf.size = Len(HostItems(given, vs)) /\ Lies(mem, buf.at, HostItems(given, vs))
  BY DEF IsGiven
<1> USE <1>a
<1>1. N \in Nat /\ type \in ArgTypes /\ i \in Nat /\ i - 1 \in 0..N
  BY DEF Given
<1>2. ASSUME NEW j \in 1..N
      PROVE  /\ given[j] \in ItemTypes /\ OfKind(given[j], vs[j]) /\ InEight(given[j], vs[j])
             /\ HostItem(given[j], vs[j]) \in Seq(Byte)
  <2>1. given[j] \in ItemTypes /\ OfKind(given[j], vs[j]) /\ InEight(given[j], vs[j])
    BY DEF Given
  <2> QED BY <2>1, HostItemType
<1>0. /\ \A j \in 0..N : g[j] \in Seq(Byte)
      /\ \A j \in 1..N : g[j] = g[j - 1] \o HostItem(given[j], vs[j])
      /\ HostItems(given, vs) = g[N]
  BY DEF UpToEach
<1>3. g[i - 1] \in Seq(Byte) /\ g[N] \in Seq(Byte)
  BY <1>0, <1>1
<1>4. /\ Len(g[i - 1]) \in Nat /\ Len(g[N]) \in Nat /\ buf.size = Len(g[N])
      /\ buf.at \in Int
  <2>1. \A s \in Seq(Byte) : Len(s) \in Nat
    OBVIOUS
  <2>2. buf.at \in Int
    BY SpanType
  <2> QED BY <1>0, <1>3, <2>1, <2>2
<1>5. at.at = buf.at + Len(g[i - 1]) /\ at.size = buf.size - Len(g[i - 1])
  BY <1>4, SkipParts
<1>6. CASE i > N
  <2>1. i - 1 = N /\ ~(i <= N)
    BY <1>1, <1>6
  <2>2. at.size = 0
    BY <1>4, <1>5, <2>1
  <2>3. ~item.ok
    BY <1>1, <2>2, DecodeNothing
  <2> QED BY <2>1, <2>3
<1>7. CASE i <= N
  <2>1. i \in 1..N
    BY <1>1, <1>7
  <2>2. \A j \in 1..N : pieces[j] \in Seq(Byte) /\ g[j] = g[j - 1] \o pieces[j]
    BY <1>0, <1>2
  <2>3. Lies(mem, buf.at, g[N])
    BY <1>0
  <2>4. /\ Lies(mem, buf.at + Len(g[i - 1]), pieces[i])
        /\ Len(g[i]) = Len(g[i - 1]) + Len(pieces[i])
        /\ Len(g[i]) <= Len(g[N])
    <3> HIDE DEF pieces
    <3>1. \A j \in 0..N : g[j] \in Seq(Byte)
      BY <1>0
    <3> HIDE DEF N
    <3> QED BY <1>1, <1>4, <2>1, <2>2, <2>3, <3>1, PiecesLie
  <2> DEFINE n == Len(HostItem(given[i], vs[i]))
  <2>5. pieces[i] = HostItem(given[i], vs[i]) /\ n \in Nat
    <3>1. \A s \in Seq(Byte) : Len(s) \in Nat
      OBVIOUS
    <3>2. n \in Nat
      BY <1>2, <2>1, <3>1
    <3> QED BY <2>1, <3>2
  <2> HIDE DEF n
  <2>6. PICK x \in Nat, whole \in Nat :
            /\ x = Len(g[i - 1]) /\ whole = Len(g[N]) /\ Len(g[i]) = x + n
            /\ x + n <= whole /\ at.at = buf.at + x /\ at.size = whole - x
    <3>1. Len(pieces[i]) = n
      BY <2>5 DEF n
    <3> QED BY <1>4, <1>5, <2>4, <3>1
  <2>7. Room(at, n) /\ Lies(mem, at.at, HostItem(given[i], vs[i]))
    <3>1. Lies(mem, at.at, HostItem(given[i], vs[i]))
      BY <2>4, <2>5, <2>6
    <3>2. at.at \in Int /\ at.size \in Nat /\ n <= at.size
      BY <1>4, <2>5, <2>6
    <3> QED BY <3>1, <3>2 DEF Room
  <2>8. ASSUME type.kind = "span" PROVE n = at.size
    <3>1. i = N
      BY <1>1, <1>7, <2>8 DEF SpanAtEnd
    <3>2. whole = x + n
      BY <2>6, <3>1
    <3> QED BY <2>5, <2>6, <3>2
  <2>9. /\ given[i] \in ItemTypes /\ OfKind(given[i], vs[i]) /\ InEight(given[i], vs[i])
    BY <1>2, <2>1
  <2> HIDE DEF type, pieces
  <2>10. /\ item.ok <=> Accepts(type, given[i], vs[i])
         /\ item.ok => item.value = InWidth(type, vs[i])
         /\ item.ok /\ type.kind # "span" => item.rest = Skip(at, n)
    <3>1. PICK m \in Nat : m = n
      BY <2>5
    <3>2. Room(at, m) /\ (type.kind = "span" => m = at.size)
      BY <2>7, <2>8, <3>1
    <3>3. m = Len(HostItem(given[i], vs[i]))
      BY <3>1 DEF n
    <3> HIDE DEF item
    <3>4. type \in ArgTypes /\ Lies(mem, at.at, HostItem(given[i], vs[i]))
      BY <1>1, <2>7
    <3>5. PICK one, v : one \in ItemTypes /\ one = given[i] /\ v = vs[i]
      BY <2>9
    <3>6. OfKind(one, v) /\ InEight(one, v) /\ m = Len(HostItem(one, v))
      BY <2>9, <3>3, <3>5
    <3>7. Lies(mem, at.at, HostItem(one, v))
      BY <3>4, <3>5
    <3>8. /\ DecodeItem(type, mem, at).ok <=> Accepts(type, one, v)
          /\ DecodeItem(type, mem, at).ok => DecodeItem(type, mem, at).value = InWidth(type, v)
          /\ DecodeItem(type, mem, at).ok /\ type.kind # "span" =>
                DecodeItem(type, mem, at).rest = Skip(at, m)
      BY <3>2, <3>4, <3>5, <3>6, <3>7, DecodeHostItem
    <3>9. item = DecodeItem(type, mem, at)
      BY DEF item
    <3> QED BY <3>1, <3>5, <3>8, <3>9
  <2>11. Skip(at, n) = Skip(buf, Len(g[i]))
    <3>1. at = Skip(buf, x)
      BY <2>6
    <3>2. Skip(Skip(buf, x), n) = Skip(buf, x + n)
      BY <2>5, SkipParts
    <3> QED BY <2>6, <3>1, <3>2
  <2> HIDE DEF item
  <2>12. i <= N
    BY <1>7
  <2> QED BY <2>10, <2>11, <2>12 DEF item, type
<1> QED BY <1>1, <1>6, <1>7

\* If every item is of the type that is asked for, and only then, the list is
\* decoded, to the values in the width of those types.
LEMMA DecodeHostItems ==
    ASSUME NEW types, NEW given, NEW vs, NEW mem, NEW lo, NEW hi, NEW buf,
           IsGiven(types, given, vs, mem, lo, hi, buf), Holds(mem, lo, hi)
    PROVE  /\ DecodeItems(types, mem, buf).ok <=> AcceptsAll(types, given, vs)
           /\ DecodeItems(types, mem, buf).ok =>
                 DecodeItems(types, mem, buf).value = Reduced(types, vs)
<1> DEFINE n == Len(types)
           N == Len(given)
<1>0. /\ types \in Seq(ArgTypes) /\ Given(given, vs) /\ SpanAtEnd(types, given)
      /\ lo \in Int /\ hi \in Int /\ buf \in Spans(lo, hi)
      /\ buf.size = Len(HostItems(given, vs)) /\ Lies(mem, buf.at, HostItems(given, vs))
  BY DEF IsGiven
<1>1. PICK f : /\ \A i \in 0..n : f[i] \in Lists(lo, hi)
               /\ f[0] = NoItems(buf)
               /\ \A i \in 1..n : f[i] = OneMore(types[i], mem, f[i - 1])
               /\ DecodeItems(types, mem, buf) = f[n]
  BY <1>0, DecodeItemsSteps
<1>2. PICK g : UpToEach(g, given, vs) /\ g[0] = << >>
  <2>1. given \in Seq(ItemTypes) /\ \A i \in 1..N : OfKind(given[i], vs[i])
    BY <1>0 DEF Given
  <2> QED BY <2>1, HostItemsSteps DEF UpToEach
<1>3. /\ n \in Nat /\ N \in Nat /\ \A i \in 1..n : types[i] \in ArgTypes
      /\ \A i \in 1..n : types[i].kind = "span" => i = n
  BY <1>0 DEF Given, SpanAtEnd
<1> DEFINE Fine(i) == i <= N /\ \A j \in 1..i : Accepts(types[j], given[j], vs[j])
           T == {i \in 0..n :
                    /\ f[i].ok <=> Fine(i)
                    /\ Len(f[i].value) = i
                    /\ f[i].ok => \A j \in 1..i : f[i].value[j] = InWidth(types[j], vs[j])
                    /\ f[i].ok /\ (i = 0 \/ types[i].kind # "span") =>
                          f[i].rest = Skip(buf, Len(g[i]))}
<1>4. 0 \in T
  <2>1. f[0].value = << >> /\ f[0].ok = TRUE /\ f[0].rest = buf /\ Len(g[0]) = 0
    BY <1>1, <1>2 DEF NoItems
  <2>2. Skip(buf, 0) = buf
    BY <1>0, SkipParts
  <2>3. Fine(0) /\ 0 \in 0..n
    BY <1>3
  <2> HIDE DEF Fine
  <2>4. \A j \in 1..0 : FALSE
    OBVIOUS
  <2> QED BY <2>1, <2>2, <2>3, <2>4
<1>5. ASSUME NEW i \in 1..n, i - 1 \in T PROVE i \in T
  <2> DEFINE before == f[i - 1]
             item == DecodeItem(types[i], mem, before.rest)
  <2>1. /\ before \in Lists(lo, hi) /\ types[i] \in ArgTypes
        /\ f[i] = OneMore(types[i], mem, before) /\ f[i] \in Lists(lo, hi)
        /\ i \in Nat /\ i - 1 \in 0..n /\ i \in 0..n
    BY <1>1, <1>3
  <2>2. /\ before.ok <=> Fine(i - 1)
        /\ Len(before.value) = i - 1
        /\ before.ok => \A j \in 1..(i - 1) : before.value[j] = InWidth(types[j], vs[j])
        /\ before.ok /\ (i - 1 = 0 \/ types[i - 1].kind # "span") =>
              before.rest = Skip(buf, Len(g[i - 1]))
    BY <1>5
  <2>3. i - 1 = 0 \/ types[i - 1].kind # "span"
    <3>1. i - 1 = 0 \/ i - 1 \in 1..n
      BY <2>1
    <3>2. i - 1 # n
      BY <1>3
    <3> QED BY <1>3, <3>1, <3>2
  <2>4. ASSUME before.ok
        PROVE  /\ item.ok <=> (i <= N /\ Accepts(types[i], given[i], vs[i]))
               /\ item.ok => item.value = InWidth(types[i], vs[i])
               /\ item.ok /\ types[i].kind # "span" => item.rest = Skip(buf, Len(g[i]))
    <3>1. before.rest = Skip(buf, Len(g[i - 1])) /\ i - 1 <= N
      BY <2>2, <2>3, <2>4
    <3> DEFINE at == before.rest
    <3>2. at = Skip(buf, Len(g[i - 1]))
      BY <3>1
    <3> HIDE DEF at, before, Fine, T, n
    <3>3. i \in 1..Len(types)
      BY DEF n
    <3>4. /\ DecodeItem(types[i], mem, at).ok <=>
                 (i <= N /\ Accepts(types[i], given[i], vs[i]))
          /\ DecodeItem(types[i], mem, at).ok =>
                 DecodeItem(types[i], mem, at).value = InWidth(types[i], vs[i])
          /\ DecodeItem(types[i], mem, at).ok /\ types[i].kind # "span" =>
                 DecodeItem(types[i], mem, at).rest = Skip(buf, Len(g[i]))
      BY <1>2, <3>1, <3>2, <3>3, DecodeNextItem
    <3> QED BY <3>4 DEF at
  <2>5. item.value \in Decodables /\ before.value \in Seq(Decodables)
    <3> HIDE DEF before
    <3>1. before.rest \in Spans(lo, hi) /\ before.value \in Seq(Decodables)
      BY <2>1 DEF Lists
    <3> QED BY <2>1, <3>1, <1>0, DecodeItemType DEF Gives
  <2>6. /\ f[i].value = Append(before.value, item.value)
        /\ f[i].ok <=> (before.ok /\ item.ok)
        /\ f[i].rest = item.rest
    <3> HIDE DEF before
    <3>1. /\ OneMore(types[i], mem, before).value = Append(before.value, item.value)
          /\ OneMore(types[i], mem, before).ok <=> (before.ok /\ item.ok)
          /\ OneMore(types[i], mem, before).rest = item.rest
      BY DEF OneMore
    <3> HIDE DEF item
    <3> QED BY <2>1, <3>1
  <2>7. Fine(i) <=> (Fine(i - 1) /\ i <= N /\ Accepts(types[i], given[i], vs[i]))
    <3>1. \A j \in 1..i : j = i \/ j \in 1..(i - 1)
      BY <2>1
    <3>2. \A j \in 1..(i - 1) : j \in 1..i
      BY <2>1
    <3>3. i \in 1..i /\ (i <= N => i - 1 <= N)
      BY <1>3, <2>1
    <3> QED BY <3>1, <3>2, <3>3
  <2> HIDE DEF item, before, Fine
  <2>8. /\ Len(f[i].value) = i /\ f[i].value[i] = item.value
        /\ \A j \in 1..(i - 1) : f[i].value[j] = before.value[j]
    BY <2>2, <2>5, <2>6
  <2>9. f[i].ok => \A j \in 1..i : f[i].value[j] = InWidth(types[j], vs[j])
    <3>1. \A j \in 1..i : j = i \/ j \in 1..(i - 1)
      BY <2>1
    <3> QED BY <2>2, <2>4, <2>6, <2>8, <3>1
  <2>10. f[i].ok <=> Fine(i)
    BY <2>2, <2>4, <2>6, <2>7
  <2>11. f[i].ok /\ (i = 0 \/ types[i].kind # "span") => f[i].rest = Skip(buf, Len(g[i]))
    <3>1. i # 0
      OBVIOUS
    <3> QED BY <2>4, <2>6, <3>1
  <2> QED BY <2>1, <2>8, <2>9, <2>10, <2>11
<1> HIDE DEF T
<1>6. n \in T
  <2>1. \A i \in 0..n : i \in T
    <3> HIDE DEF n
    <3> QED BY <1>3, <1>4, <1>5, UpTo
  <2> QED BY <1>3, <2>1
<1>7. /\ f[n].ok <=> Fine(n)
      /\ Len(f[n].value) = n
      /\ f[n].ok => \A j \in 1..n : f[n].value[j] = InWidth(types[j], vs[j])
      /\ f[n].value \in Seq(Decodables)
  <2>1. n \in 0..n
    BY <1>3
  <2>2. f[n] \in Lists(lo, hi)
    BY <1>1, <2>1
  <2>3. f[n].value \in Seq(Decodables)
    BY <2>2 DEF Lists
  <2> QED BY <1>6, <2>3 DEF T
<1>8. Fine(n) <=> AcceptsAll(types, given, vs)
  BY DEF AcceptsAll
<1>9. f[n].ok => f[n].value = Reduced(types, vs)
  <2>1. ASSUME f[n].ok PROVE f[n].value = Reduced(types, vs)
    <3>1. PICK value \in Seq(Decodables) : value = f[n].value
      BY <1>7
    <3>2. Len(value) = n /\ \A j \in 1..n : value[j] = InWidth(types[j], vs[j])
      BY <1>7, <2>1, <3>1
    <3>3. value = [j \in 1..n |-> InWidth(types[j], vs[j])]
      <4> HIDE DEF n
      <4>1. value = [j \in 1..Len(value) |-> value[j]]
        OBVIOUS
      <4> QED BY <3>2, <4>1
    <3> QED BY <3>1, <3>3 DEF Reduced
  <2> QED BY <2>1
<1> HIDE DEF n, Fine
<1> QED BY <1>1, <1>7, <1>8, <1>9

LEMMA HostItemsType ==
    ASSUME NEW given, NEW vs, Given(given, vs)
    PROVE  HostItems(given, vs) \in Seq(Byte)
<1>1. /\ given \in Seq(ItemTypes) /\ Len(given) \in Nat
      /\ \A i \in 1..Len(given) : OfKind(given[i], vs[i])
  BY DEF Given
<1>2. PICK g : /\ g[0] = << >>
               /\ \A i \in 0..Len(given) : g[i] \in Seq(Byte)
               /\ \A i \in 1..Len(given) : g[i] = g[i - 1] \o HostItem(given[i], vs[i])
               /\ HostItems(given, vs) = g[Len(given)]
  BY <1>1, HostItemsSteps
<1> QED BY <1>1, <1>2

\* The arguments of a call as the host sends them: they are decoded if and only
\* if they are of the types of the function, and to the values in its widths.
LEMMA DecodeHostTuple ==
    ASSUME NEW types \in Seq(ArgTypes), NEW given, NEW vs, Given(given, vs),
           SpanAtEnd(types, given), NEW mem, NEW lo \in Int, NEW hi \in Int,
           Holds(mem, lo, hi), NEW buf \in Spans(lo, hi),
           buf.size = Len(HostList(given, vs)), Lies(mem, buf.at, HostList(given, vs))
    PROVE  /\ DecodeTuple(types, mem, buf).ok <=> AcceptsAll(types, given, vs)
           /\ DecodeTuple(types, mem, buf).ok =>
                 DecodeTuple(types, mem, buf).value = Reduced(types, vs)
<1> DEFINE head == Unpack(mem, buf)
           items == HostItems(given, vs)
<1>1. Len(given) \in Nat
  BY DEF Given
<1>2. PICK minor \in Nat, digits \in Seq(Byte) :
          /\ IsHead(minor, digits)
          /\ HostHead(Array, Len(given)) = <<InitialByte(Array, minor)>> \o digits
  <2>1. Array \in 0..7
    BY Majors
  <2>2. PICK minor \in Nat, digits \in Seq(Byte) :
            /\ IsArgument(Len(given), minor, digits)
            /\ HostHead(Array, Len(given)) = <<InitialByte(Array, minor)>> \o digits
    BY <1>1, <2>1, HeadBytes
  <2> QED BY <1>1, <2>2, ArgumentIsHead
<1> DEFINE first == <<InitialByte(Array, minor)>> \o digits
<1>3. /\ first \in Seq(Byte) /\ Len(digits) \in Nat /\ Len(first) = 1 + Len(digits)
      /\ items \in Seq(Byte)
  <2>1. minor < M
    BY <1>2 DEF IsHead
  <2>2. InitialByte(Array, minor) \in Byte
    BY <2>1, Majors, InitialByteType, Widths DEF M
  <2>3. \A s \in Seq(Byte), b \in Byte : <<b>> \o s \in Seq(Byte) /\ Len(<<b>> \o s) = 1 + Len(s)
    OBVIOUS
  <2>4. \A s \in Seq(Byte) : Len(s) \in Nat
    OBVIOUS
  <2> QED BY <2>2, <2>3, <2>4, HostItemsType
<1>4. /\ HostList(given, vs) = first \o items
      /\ Len(first \o items) = Len(first) + Len(items) /\ Len(items) \in Nat
      /\ buf.at \in Int /\ buf.size \in Nat
  <2>1. HostList(given, vs) = first \o items
    BY <1>2 DEF HostList
  <2> HIDE DEF first, items
  <2> QED BY <1>3, <2>1, JoinParts, SpanType
<1>5. Lies(mem, buf.at, first) /\ Lies(mem, buf.at + Len(first), items)
  <2> HIDE DEF first, items
  <2> QED BY <1>3, <1>4, LiesParts
<1>6. IsUnpacked(head, Array, minor, digits, buf)
  <2>1. Room(buf, 1 + Len(digits))
    BY <1>3, <1>4 DEF Room
  <2>2. Array \in 0..7
    BY Majors
  <2> QED BY <1>2, <1>5, <2>1, <2>2, UnpackHead
<1> DEFINE rest == Skip(buf, Len(first))
<1>7. /\ head.ok = TRUE /\ head.major = Array /\ head.minor # Indefinite
      /\ head.rest = rest
  BY <1>2, <1>3, <1>6 DEF IsUnpacked, IsHead
<1>8. IsGiven(types, given, vs, mem, lo, hi, rest)
  <2> HIDE DEF first
  <2>1. Len(first) \in Nat /\ Len(first) <= buf.size
    BY <1>3, <1>4
  <2>2. rest.at = buf.at + Len(first) /\ rest.size = buf.size - Len(first)
    BY <2>1, SkipParts
  <2>3. rest \in Spans(lo, hi)
    BY <2>1, SkipSpan
  <2>4. rest.size = Len(items)
    BY <1>3, <1>4, <2>2
  <2>5. Lies(mem, rest.at, items)
    BY <1>5, <2>2
  <2> HIDE DEF rest
  <2> QED BY <2>3, <2>4, <2>5 DEF IsGiven
<1> HIDE DEF rest
<1> DEFINE got == DecodeItems(types, mem, rest)
<1>9. DecodeTuple(types, mem, buf) = IF got.ok THEN got ELSE Failed(buf)
  <2> HIDE DEF head, first
  <2> DEFINE inside == DecodeItems(types, mem, head.rest)
  <2>1. inside = got
    BY <1>7
  <2>2. DecodeTuple(types, mem, buf) =
            IF /\ head.ok /\ head.major = Array
               /\ inside.ok
               /\ head.minor = Indefinite =>
                      IsSimple(Unpack(mem, inside.rest), Indefinite)
            THEN inside ELSE Failed(buf)
    BY DEF DecodeTuple, head
  <2> HIDE DEF inside, got
  <2> QED BY <1>7, <2>1, <2>2
<1>10. /\ got.ok <=> AcceptsAll(types, given, vs)
       /\ got.ok => got.value = Reduced(types, vs)
  BY <1>8, DecodeHostItems
<1> HIDE DEF got
<1>11. ~Failed(buf).ok
  BY DEF Failed
<1> QED BY <1>9, <1>10, <1>11

-----------------------------------------------------------------------------
(* The schema, as the host would encode it *)

\* A count takes no more bytes than it counts.
LEMMA HeadNotLong ==
    ASSUME NEW v \in Nat, v > 0
    PROVE  Len(HostHead(Array, v)) <= v
<1>1. CASE v <= EmbeddedMax
  <2>1. HostHead(Array, v) = <<InitialByte(Array, v)>>
    BY <1>1, HeadShortest
  <2>2. Len(<<InitialByte(Array, v)>>) = 1
    OBVIOUS
  <2> QED BY <2>1, <2>2
<1>2. CASE ~(v <= EmbeddedMax)
  <2> DEFINE n == Smallest(v)
             digits == BigEndian(v, n)
  <2>1. HostHead(Array, v) = <<InitialByte(Array, Follows[n])>> \o digits
    BY <1>2, HeadShortest
  <2>2. n \in Sizes /\ n \in Nat
    BY SmallestSize DEF Sizes
  <2> DEFINE first == InitialByte(Array, Follows[n])
  <2>3. /\ digits \in Seq(Byte) /\ Len(digits) = n
    <3> HIDE DEF n
    <3> QED BY <2>2, BigEndianType
  <2>4. Len(<<first>> \o digits) = 1 + n
    <3> HIDE DEF digits, n, first
    <3> QED BY <2>3
  <2>5. v >= 4
    BY <1>2, Widths
  <2>6. n > 2 => v >= 72
    <3>1. Values[1] >= 72
      <4>1. Values[1] = Base * Values[0] /\ Values[0] = 1
        BY ValuesSteps
      <4> QED BY <4>1, Widths
    <3>2. v < Values[1] => n <= 1
      <4> DEFINE S == {m \in {1, 2, 4} : v < Values[m]} \cup {8}
      <4>1. S \in SUBSET Nat /\ S # {} /\ (v < Values[1] => 1 \in S) /\ n = Min(S)
        BY DEF Smallest
      <4> HIDE DEF S, n
      <4>2. \E m \in S : \A k \in S : m <= k
        BY <4>1, Least
      <4>3. \A m \in S : Min(S) <= m
        BY <4>2 DEF Min
      <4> QED BY <4>1, <4>3
    <3>3. Values[1] \in Nat
      BY ValuesType
    <3> HIDE DEF n
    <3> QED BY <2>2, <3>1, <3>2, <3>3
  <2> HIDE DEF digits, first, n
  <2>7. 1 + n <= v
    BY <2>2, <2>5, <2>6 DEF Sizes
  <2> QED BY <2>1, <2>4, <2>7 DEF first
<1> QED BY <1>1, <1>2

LEMMA EncodeIsWrite ==
    ASSUME NEW major \in 0..7, NEW v \in Nat, NEW w
    PROVE  Encode(major, v, w) = Write(w, HostHead(major, v))
<1>1. CASE v <= EmbeddedMax
  <2>1. ~(v > EmbeddedMax)
    BY <1>1, Widths
  <2>2. HostHead(major, v) = <<InitialByte(major, v)>>
    BY <1>1, HeadShortest
  <2>3. Encode(major, v, w) = PackEmbedded(major, v, w)
    BY <2>1 DEF Encode
  <2>4. PackEmbedded(major, v, w) = Write(w, <<InitialByte(major, v)>>)
    BY <1>1 DEF PackEmbedded
  <2> QED BY <2>2, <2>3, <2>4
<1>2. CASE ~(v <= EmbeddedMax)
  <2>1. v > EmbeddedMax
    BY <1>2, Widths
  <2>2. Len(BigEndian(v, Smallest(v))) = Smallest(v)
    BY SmallestSize, BigEndianType DEF Sizes
  <2>3. Encode(major, v, w) = Pack(major, BigEndian(v, Smallest(v)), w)
    BY <2>1 DEF Encode
  <2>4. HostHead(major, v)
          = <<InitialByte(major, Follows[Smallest(v)])>> \o BigEndian(v, Smallest(v))
    BY <1>2, HeadShortest
  <2> QED BY <2>2, <2>3, <2>4 DEF Pack
<1> QED BY <1>1, <1>2

\* The head of a sequence may be missing, and nobody is told: but then what
\* follows does not fit either.
LEMMA SequenceEncodes ==
    ASSUME NEW w \in Writers, NEW extent \in Nat, extent > 0, NEW items \in Seq(Byte),
           Len(items) >= extent, NEW after, Encodes(SequenceHead(extent, w), items, after)
    PROVE  Encodes(w, HostHead(Array, extent) \o items, after)
<1> DEFINE head == HostHead(Array, extent)
           start == SequenceHead(extent, w)
           between == Write(w, head)
<1>1. Array \in 0..7
  BY Majors
<1>2. head \in Seq(Byte) /\ Len(head) \in Nat /\ Len(head) <= extent
  <2>1. head \in Seq(Byte)
    BY <1>1, HeadType
  <2> QED BY <2>1, HeadNotLong
<1>3. start = [between EXCEPT !.ok = w.ok]
  BY <1>1, EncodeIsWrite DEF SequenceHead
<1> HIDE DEF head, start
<1>4. Encodes(w, head, between) /\ between \in Writers
  BY <1>2, WriteEncodes DEF Encodes
<1>5. w.ok \in BOOLEAN /\ w.room \in Nat /\ w.out \in Seq(Byte)
  BY WriterType
<1>6. CASE ~w.ok \/ Len(head) <= w.room
  <2>1. between.ok = w.ok
    <3>1. between.ok <=> w.ok
      BY <1>4, <1>6 DEF Encodes
    <3>2. between.ok \in BOOLEAN
      BY <1>4, WriterType
    <3> QED BY <1>5, <3>1, <3>2
  <2> HIDE DEF between
  <2>2. [between EXCEPT !.ok = between.ok] = between
    BY <1>4 DEF Writers
  <2>3. start = between
    BY <1>3, <2>1, <2>2
  <2>4. Encodes(between, items, after)
    BY <2>3 DEF start
  <2>5. Encodes(w, head \o items, after)
    BY <1>2, <1>4, <2>4, EncodesBoth
  <2> QED BY <2>5 DEF head
<1>7. CASE w.ok /\ ~(Len(head) <= w.room)
  <2>1. between = [w EXCEPT !.ok = FALSE]
    BY <1>7 DEF Write
  <2> HIDE DEF between
  <2>2. [[w EXCEPT !.ok = FALSE] EXCEPT !.ok = w.ok] = w
    BY DEF Writers
  <2>3. start = w
    BY <1>3, <2>1, <2>2
  <2>4. Encodes(w, items, after)
    BY <2>3 DEF start
  <2>5. Len(items) \in Nat /\ Len(head \o items) = Len(head) + Len(items)
    BY <1>2, JoinParts
  <2>6. ~(Len(items) <= w.room) /\ ~(Len(head \o items) <= w.room)
    BY <1>2, <1>5, <1>7, <2>5
  <2>7. Encodes(w, head \o items, after)
    BY <2>4, <2>6 DEF Encodes
  <2> QED BY <2>7 DEF head
<1> QED BY <1>5, <1>6, <1>7

\* Pieces of a size, one after the other.
IsJoined(f, pieces, E, n, size) ==
    /\ n \in Nat /\ size \in Nat /\ f[0] = << >> /\ \A i \in 0..n : f[i] \in Seq(E)
    /\ \A i \in 1..n : /\ pieces[i] \in Seq(E) /\ Len(pieces[i]) >= size
                       /\ f[i] = f[i - 1] \o pieces[i]

LEMMA PiecesLength ==
    ASSUME NEW f, NEW pieces, NEW E, NEW n, NEW size, IsJoined(f, pieces, E, n, size)
    PROVE  /\ Len(f[n]) >= size * n
           /\ (\A i \in 1..n : Len(pieces[i]) = size) => Len(f[n]) = size * n
<1> USE DEF IsJoined
<1> DEFINE Same == \A i \in 1..n : Len(pieces[i]) = size
           T == {i \in 0..n : Len(f[i]) >= size * i /\ (Same => Len(f[i]) = size * i)}
<1>1. 0 \in T
  <2>1. Len(f[0]) = 0 /\ size * 0 = 0 /\ 0 \in 0..n
    OBVIOUS
  <2> QED BY <2>1
<1>2. ASSUME NEW i \in 1..n, i - 1 \in T PROVE i \in T
  <2>0. i - 1 \in 0..n /\ i \in 0..n
    OBVIOUS
  <2>1. PICK a \in Seq(E), b \in Seq(E) : a = f[i - 1] /\ b = pieces[i] /\ f[i] = a \o b
    BY <2>0
  <2>2. Len(a \o b) = Len(a) + Len(b) /\ Len(a) \in Nat /\ Len(b) \in Nat
    OBVIOUS
  <2>3. PICK x \in Nat, y \in Nat :
            x = Len(f[i - 1]) /\ y = Len(pieces[i]) /\ Len(f[i]) = x + y
    BY <2>1, <2>2
  <2>4. /\ x >= size * (i - 1) /\ (Same => x = size * (i - 1))
        /\ y >= size /\ (Same => y = size)
    BY <1>2, <2>3
  <2>5. size * (i - 1) + size = size * i /\ size * (i - 1) \in Int /\ size * i \in Int
    OBVIOUS
  <2> HIDE DEF Same
  <2>6. x + y >= size * i /\ (Same => x + y = size * i)
    BY <2>4, <2>5
  <2> QED BY <2>0, <2>3, <2>6
<1> HIDE DEF T
<1>3. \A i \in 0..n : i \in T
  BY <1>1, <1>2, UpTo
<1>4. n \in T
  BY <1>3
<1> QED BY <1>4 DEF T

\* What the head of a row says is how many texts there are.
LEMMA RowLength ==
    ASSUME NEW n \in Functions
    PROVE  Len(Row(Calls[n])) = 3 + 2 * Len(Calls[n].args)
<1> DEFINE call == Calls[n]
           S == Seq(Byte)
           Pair(i) == <<call.argNames[i], PythonType(call.args[i])>>
           m == Len(call.args)
           pairs == [i \in 1..m |-> Pair(i)]
           first == <<call.name, call.doc, PythonType(call.ret)>>
<1>1. /\ call.name \in S /\ call.doc \in S /\ call.ret \in Types
      /\ call.args \in Seq(ItemTypes) /\ call.argNames \in Seq(S)
      /\ Len(call.argNames) = m /\ m \in Nat
  BY CallsType DEF CallType
<1>2. ItemTypes \subseteq Types
  BY DEF Types
<1>3. ASSUME NEW i \in 1..m PROVE Pair(i) \in Seq(S) /\ Len(Pair(i)) = 2
  <2>1. call.args[i] \in Types
    BY <1>1, <1>2
  <2>2. call.argNames[i] \in S
    BY <1>1
  <2>3. PythonType(call.args[i]) \in S
    BY <2>1, PythonTypeType
  <2> HIDE DEF S
  <2> QED BY <2>2, <2>3
<1>4. first \in Seq(S) /\ Len(first) = 3
  <2>1. PythonType(call.ret) \in S
    BY <1>1, PythonTypeType
  <2> HIDE DEF S
  <2> QED BY <1>1, <2>1
<1>5. Row(call) = first \o FlattenSeq(pairs)
  <2>1. DOMAIN call.args = 1..m
    BY <1>1
  <2> QED BY <2>1, Zenon DEF Row
<1> HIDE DEF S, Pair, m
<1>6. pairs \in Seq(Seq(S)) /\ Len(pairs) = m /\ \A i \in 1..m : pairs[i] = Pair(i)
  BY <1>1, <1>3
<1> HIDE DEF pairs, first
<1>7. PICK f : /\ f[0] = << >>
               /\ \A i \in 0..m : f[i] \in Seq(S)
               /\ \A i \in 1..m : f[i] = f[i - 1] \o pairs[i]
               /\ FlattenSeq(pairs) = f[m]
  <2>1. \E f : /\ f[0] = << >>
               /\ \A i \in 0..Len(pairs) : f[i] \in Seq(S)
               /\ \A i \in 1..Len(pairs) : f[i] = f[i - 1] \o pairs[i]
               /\ FlattenSeq(pairs) = f[Len(pairs)]
    BY <1>6, FlattenSteps
  <2> QED BY <1>6, <2>1
<1>8. Len(f[m]) = 2 * m
  <2>1. \A i \in 1..m : pairs[i] \in Seq(S) /\ Len(pairs[i]) = 2 /\ Len(pairs[i]) >= 2
    <3>1. ASSUME NEW i \in 1..m
          PROVE  pairs[i] \in Seq(S) /\ Len(pairs[i]) = 2 /\ Len(pairs[i]) >= 2
      <4>1. pairs[i] = Pair(i) /\ Pair(i) \in Seq(S) /\ Len(Pair(i)) = 2
        BY <1>3, <1>6
      <4> QED BY <4>1
    <3> QED BY <3>1
  <2>2. \A i \in 1..m : pairs[i] \in Seq(S) /\ Len(pairs[i]) >= 2 /\ f[i] = f[i - 1] \o pairs[i]
    BY <1>7, <2>1
  <2>3. PICK size \in Nat : size = 2
    OBVIOUS
  <2>4. IsJoined(f, pairs, S, m, size)
    BY <1>1, <1>7, <2>2, <2>3 DEF IsJoined
  <2>5. \A i \in 1..m : Len(pairs[i]) = size
    BY <2>1, <2>3
  <2>6. Len(f[m]) = size * m
    BY <2>4, <2>5, PiecesLength
  <2> QED BY <2>3, <2>6
<1>9. Len(first \o f[m]) = 3 + 2 * m
  <2>1. PICK a \in Seq(S) : a = f[m]
    BY <1>1, <1>7
  <2>2. Len(first \o a) = Len(first) + Len(a)
    <3>1. \A x, y \in Seq(S) : Len(x \o y) = Len(x) + Len(y)
      OBVIOUS
    <3> QED BY <1>4, <3>1
  <2> QED BY <1>4, <1>8, <2>1, <2>2
<1> QED BY <1>5, <1>7, <1>9 DEF m

\* A text has a head, at least.
LEMMA TextsLength ==
    ASSUME NEW texts \in Seq(Seq(Byte)), NEW types,
           types = [i \in DOMAIN texts |-> Text]
    PROVE  /\ types \in Seq(ItemTypes) /\ Len(types) = Len(texts) /\ Len(texts) \in Nat
           /\ \A i \in 1..Len(types) : OfKind(types[i], texts[i])
           /\ HostItems(types, texts) \in Seq(Byte)
           /\ Len(HostItems(types, texts)) >= Len(texts)
<1> DEFINE n == Len(texts)
<1>1. n \in Nat /\ types \in Seq(ItemTypes) /\ Len(types) = n
  <2>1. Text \in ItemTypes /\ DOMAIN texts = 1..Len(texts) /\ Len(texts) \in Nat
    BY DEF ItemTypes
  <2> QED BY <2>1
<1>2. ASSUME NEW i \in 1..n
      PROVE  /\ OfKind(types[i], texts[i]) /\ HostItem(types[i], texts[i]) \in Seq(Byte)
             /\ Len(HostItem(types[i], texts[i])) >= 1
  <2>1. texts[i] \in Seq(Byte) /\ types[i] = Text /\ types[i] \in ItemTypes
    <3>1. i \in DOMAIN texts /\ i \in 1..Len(types)
      BY <1>1
    <3>2. Text \in ItemTypes
      BY DEF ItemTypes
    <3> HIDE DEF n
    <3>3. types[i] = Text
      BY <3>1
    <3> QED BY <3>1, <3>2, <3>3
  <2>2. OfKind(types[i], texts[i])
    BY <2>1 DEF OfKind, Text
  <2>3. HostItem(types[i], texts[i]) = HostHead(Utf8, Len(texts[i])) \o texts[i]
    <3>1. Text.kind = "text"
      BY DEF Text
    <3> QED BY <2>1, <3>1 DEF HostItem
  <2>4. /\ HostHead(Utf8, Len(texts[i])) \in Seq(Byte)
        /\ Len(HostHead(Utf8, Len(texts[i]))) > 0
    <3>1. Utf8 \in 0..7 /\ Len(texts[i]) \in Nat
      BY <2>1, Majors
    <3> QED BY <3>1, HeadType
  <2> DEFINE head == HostHead(Utf8, Len(texts[i]))
  <2> HIDE DEF head
  <2>5. head \o texts[i] \in Seq(Byte) /\ Len(head \o texts[i]) >= 1
    <3>1. PICK b \in Seq(Byte) : b = texts[i]
      BY <2>1
    <3>2. head \in Seq(Byte) /\ Len(head) > 0
      BY <2>4 DEF head
    <3>3. head \o b \in Seq(Byte) /\ Len(head \o b) >= 1
      BY <3>2, JoinParts
    <3> QED BY <3>1, <3>3
  <2> QED BY <2>2, <2>3, <2>5 DEF head
<1>3. PICK g : /\ g[0] = << >>
               /\ \A i \in 0..n : g[i] \in Seq(Byte)
               /\ \A i \in 1..n : g[i] = g[i - 1] \o HostItem(types[i], texts[i])
               /\ HostItems(types, texts) = g[n]
  <2> HIDE DEF n
  <2>1. \A i \in 1..Len(types) : OfKind(types[i], texts[i])
    BY <1>1, <1>2
  <2>2. \E g : /\ g[0] = << >>
               /\ \A i \in 0..Len(types) : g[i] \in Seq(Byte)
               /\ \A i \in 1..Len(types) : g[i] = g[i - 1] \o HostItem(types[i], texts[i])
               /\ HostItems(types, texts) = g[Len(types)]
    BY <1>1, <2>1, HostItemsSteps
  <2> QED BY <1>1, <2>2
<1> DEFINE pieces == [i \in 1..n |-> HostItem(types[i], texts[i])]
<1>4. \A i \in 1..n : pieces[i] \in Seq(Byte) /\ Len(pieces[i]) >= 1
                      /\ g[i] = g[i - 1] \o pieces[i]
  BY <1>2, <1>3
<1> HIDE DEF pieces, n
<1>5. Len(g[n]) >= 1 * n
  <2>1. 1 \in Nat
    OBVIOUS
  <2>2. IsJoined(g, pieces, Byte, n, 1)
    BY <1>1, <1>3, <1>4 DEF IsJoined
  <2> QED BY <2>2, PiecesLength
<1>6. 1 * n = n /\ g[n] \in Seq(Byte)
  BY <1>1, <1>3
<1> QED BY <1>1, <1>2, <1>3, <1>5, <1>6 DEF n

\* The texts of a function, as the host would encode them.
HostRow(n) == HostList([i \in DOMAIN Row(Calls[n]) |-> Text], Row(Calls[n]))

LEMMA EncodeRowAsHost ==
    ASSUME NEW n \in Functions, NEW w \in Writers
    PROVE  /\ HostRow(n) \in Seq(Byte) /\ Len(HostRow(n)) > 0
           /\ Encodes(w, HostRow(n), EncodeRow(w, Calls[n]))
<1> DEFINE row == Row(Calls[n])
           types == [i \in DOMAIN row |-> Text]
           extent == 3 + 2 * Len(Calls[n].args)
           start == SequenceHead(extent, w)
           items == HostItems(types, row)
           after == EncodeItems(types, row, start)
<1>1. row \in Seq(Seq(Byte)) /\ Len(row) = extent
  BY RowType, RowLength
<1>2. extent \in Nat /\ extent > 0
  BY CallsType
<1>3. EncodeRow(w, Calls[n]) = after
  BY DEF EncodeRow
<1>4. HostRow(n) = HostHead(Array, Len(types)) \o items
  BY DEF HostRow, HostList
<1> HIDE DEF row, extent
<1>5. /\ types \in Seq(ItemTypes) /\ Len(types) = extent
      /\ \A i \in 1..Len(types) : OfKind(types[i], row[i])
      /\ items \in Seq(Byte) /\ Len(items) >= extent
  <2> DEFINE texts == [i \in DOMAIN row |-> Text]
  <2>1. types = texts
    OBVIOUS
  <2> HIDE DEF types
  <2> QED BY <1>1, <2>1, TextsLength
<1> HIDE DEF types
<1>6. start \in Writers
  BY <1>2, SequenceHeadKeeps DEF Keeps
<1> HIDE DEF start
<1>7. Encodes(start, items, after)
  BY <1>5, <1>6, EncodeItemsAsHost
<1> HIDE DEF items, after
<1>8. Encodes(w, HostHead(Array, extent) \o items, after)
  BY <1>2, <1>5, <1>7, SequenceEncodes DEF start
<1>9. HostHead(Array, extent) \in Seq(Byte) /\ Len(HostHead(Array, extent)) > 0
  <2>1. Array \in 0..7
    BY Majors
  <2> QED BY <1>2, <2>1, HeadType
<1> DEFINE head == HostHead(Array, extent)
<1> HIDE DEF head
<1>10. head \o items \in Seq(Byte) /\ Len(head \o items) > 0
  BY <1>5, <1>9, JoinParts DEF head
<1> QED BY <1>3, <1>4, <1>5, <1>8, <1>10 DEF head

\* The answer to a call of function 0.
HostSchema == HostHead(Array, Len(Calls)) \o FlattenSeq([n \in Functions |-> HostRow(n)])

\* Rpc::schema writes what the host would, or fails.
LEMMA SchemaAsHost ==
    ASSUME NEW room \in Nat, room > 0
    PROVE  HostSchema \in Seq(Byte) /\ Encodes(Writer(room), HostSchema, Schema(room))
<1> DEFINE n == Len(Calls)
           w == Writer(room)
           head == SequenceHead(n, w)
           More(i, x) == IF x.ok THEN EncodeRow(x, Calls[i]) ELSE x
           step == [p \in (1..n) \X Writers |-> More(p[1], p[2])]
           P(f) == f = [i \in 0..n |-> IF i = 0 THEN head ELSE More(i, f[i - 1])]
           upTo == CHOOSE f : P(f)
           rows == [i \in Functions |-> HostRow(i)]
<1>1. Schema(room) = upTo[n]
  BY DEF Schema
<1>2. n \in Nat /\ w \in Writers /\ w.ok = TRUE /\ w.room = room /\ Functions = 1..n
  BY CallsAssumption DEF Writer, Writers, Functions
<1>3. ASSUME NEW i \in 1..n
      PROVE  /\ HostRow(i) \in Seq(Byte) /\ Len(HostRow(i)) >= 1
             /\ \A x \in Writers : More(i, x) \in Writers /\ Encodes(x, HostRow(i), More(i, x))
  <2>1. i \in Functions
    BY DEF Functions
  <2>2. HostRow(i) \in Seq(Byte) /\ Len(HostRow(i)) >= 1
    <3>1. HostRow(i) \in Seq(Byte) /\ Len(HostRow(i)) > 0
      BY <1>2, <2>1, EncodeRowAsHost
    <3>2. \A s \in Seq(Byte) : Len(s) \in Nat
      OBVIOUS
    <3> QED BY <3>1, <3>2
  <2>3. ASSUME NEW x \in Writers
        PROVE  More(i, x) \in Writers /\ Encodes(x, HostRow(i), More(i, x))
    <3>1. CASE x.ok
      BY <2>1, <3>1, EncodeRowAsHost DEF Encodes
    <3>2. CASE ~x.ok
      BY <2>2, <3>2, EncodesNothing
    <3> QED BY <3>1, <3>2
  <2> QED BY <2>2, <2>3
<1> HIDE DEF n, w
<1>4. head \in Writers
  BY <1>2, SequenceHeadKeeps DEF Keeps
<1> HIDE DEF More, head
<1>5. \A i \in 1..n, x \in Writers : step[<<i, x>>] = More(i, x) /\ step[<<i, x>>] \in Writers
  BY <1>3
<1>6. PICK f \in [0..n -> Writers] : Follow(f, n, head, step)
  <2> HIDE DEF step
  <2>1. \A i \in 1..n, x \in Writers : step[<<i, x>>] \in Writers
    BY <1>5
  <2> QED BY <1>2, <1>4, <2>1, Recursion
<1>7. P(f)
  <2> HIDE DEF step
  <2>1. \A i \in 0..n : i = 0 \/ (i \in 1..n /\ f[i - 1] \in Writers)
    BY <1>2
  <2> QED BY <1>5, <1>6, <2>1 DEF Follow
<1>8. P(upTo)
  <2> HIDE DEF P
  <2> QED BY <1>7
<1> HIDE DEF upTo
<1>9. upTo[0] = head /\ \A i \in 1..n : upTo[i] = More(i, upTo[i - 1])
  BY <1>2, <1>8
<1>10. /\ rows \in Seq(Seq(Byte)) /\ Len(rows) = n
       /\ \A i \in 1..n : rows[i] = HostRow(i) /\ rows[i] \in Seq(Byte) /\ Len(rows[i]) >= 1
  BY <1>2, <1>3
<1> DEFINE all == FlattenSeq(rows)
<1>11. PICK h : /\ h[0] = << >>
                /\ \A i \in 0..n : h[i] \in Seq(Byte)
                /\ \A i \in 1..n : h[i] = h[i - 1] \o rows[i]
                /\ all = h[n]
  <2> HIDE DEF rows
  <2>1. \E h : /\ h[0] = << >>
               /\ \A i \in 0..Len(rows) : h[i] \in Seq(Byte)
               /\ \A i \in 1..Len(rows) : h[i] = h[i - 1] \o rows[i]
               /\ FlattenSeq(rows) = h[Len(rows)]
    BY <1>10, FlattenSteps
  <2> QED BY <1>10, <2>1
<1>12. HostSchema = HostHead(Array, n) \o all
  BY DEF HostSchema, n
<1> HIDE DEF rows, all, P
<1>13. all \in Seq(Byte) /\ Len(all) >= n /\ (n = 0 => all = << >>)
  <2>1. PICK size \in Nat : size = 1
    OBVIOUS
  <2>2. \A i \in 1..n : /\ rows[i] \in Seq(Byte) /\ Len(rows[i]) >= size
                        /\ h[i] = h[i - 1] \o rows[i]
    BY <1>10, <1>11, <2>1
  <2>3. IsJoined(h, rows, Byte, n, size)
    BY <1>2, <1>11, <2>1, <2>2 DEF IsJoined
  <2>4. Len(h[n]) >= size * n
    BY <2>3, PiecesLength
  <2>5. h[n] \in Seq(Byte) /\ size * n = n
    BY <1>2, <1>11, <2>1
  <2> QED BY <1>11, <2>4, <2>5
<1> DEFINE T == {i \in 0..n : Encodes(head, h[i], upTo[i])}
<1>14. 0 \in T
  BY <1>2, <1>4, <1>9, <1>11, EncodesNothing
<1>15. ASSUME NEW i \in 1..n, i - 1 \in T PROVE i \in T
  <2>1. /\ Encodes(head, h[i - 1], upTo[i - 1]) /\ upTo[i - 1] \in Writers
        /\ h[i - 1] \in Seq(Byte) /\ rows[i] \in Seq(Byte) /\ h[i] = h[i - 1] \o rows[i]
        /\ i \in 0..n
    <3>1. Encodes(head, h[i - 1], upTo[i - 1])
      BY <1>15
    <3>2. upTo[i - 1] \in Writers
      BY <3>1 DEF Encodes
    <3>3. i \in 0..n /\ i - 1 \in 0..n
      BY <1>2
    <3>4. /\ h[i - 1] \in Seq(Byte) /\ rows[i] \in Seq(Byte)
          /\ h[i] = h[i - 1] \o rows[i]
      BY <1>10, <1>11, <3>3
    <3> QED BY <3>1, <3>2, <3>3, <3>4
  <2>2. Encodes(upTo[i - 1], rows[i], upTo[i])
    <3>1. rows[i] = HostRow(i) /\ upTo[i] = More(i, upTo[i - 1])
      BY <1>9, <1>10
    <3> QED BY <1>3, <2>1, <3>1
  <2>3. Encodes(head, h[i], upTo[i])
    <3>1. Encodes(head, h[i - 1] \o rows[i], upTo[i])
      BY <1>4, <2>1, <2>2, EncodesBoth
    <3> QED BY <2>1, <3>1
  <2> QED BY <2>1, <2>3
<1> HIDE DEF T
<1>16. Encodes(head, all, upTo[n])
  <2>1. \A i \in 0..n : i \in T
    BY <1>2, <1>14, <1>15, UpTo
  <2>2. n \in T
    BY <1>2, <2>1
  <2> QED BY <1>11, <2>2 DEF T
<1>17. /\ Array \in 0..7 /\ HostHead(Array, n) \in Seq(Byte)
  <2>1. Array \in 0..7
    BY Majors
  <2> QED BY <1>2, <2>1, HeadType
<1>18. HostHead(Array, n) \o all \in Seq(Byte)
  BY <1>13, <1>17
<1>19. Encodes(w, HostHead(Array, n) \o all, upTo[n])
  <2>1. CASE n > 0
    BY <1>2, <1>13, <1>16, <2>1, SequenceEncodes DEF head
  <2>2. CASE n = 0
    <3> DEFINE start == HostHead(Array, n)
    <3>1. all = << >> /\ upTo[n] = head
      BY <1>9, <1>13, <2>2
    <3>2. Len(start) = 1
      <4>1. n <= EmbeddedMax
        BY <2>2, Widths
      <4>2. HostHead(Array, n) = <<InitialByte(Array, n)>>
        BY <1>2, <4>1, HeadShortest
      <4>3. Len(<<InitialByte(Array, n)>>) = 1
        OBVIOUS
      <4> QED BY <4>2, <4>3
    <3>3. head = [Write(w, start) EXCEPT !.ok = TRUE]
      BY <1>2, <1>17, EncodeIsWrite DEF head, SequenceHead
    <3> HIDE DEF start
    <3>4. Encodes(w, start, Write(w, start))
      BY <1>2, <1>17, WriteEncodes DEF start
    <3> DEFINE after == Write(w, start)
    <3> HIDE DEF after
    <3>5. after \in Writers /\ after.ok = TRUE
      <4>1. after \in Writers /\ after.ok
        BY <1>2, <3>2, <3>4 DEF Encodes, after
      <4> QED BY <4>1, WriterType
    <3>6. [after EXCEPT !.ok = TRUE] = after
      BY <3>5 DEF Writers
    <3>7. head = Write(w, start)
      BY <3>3, <3>6 DEF after
    <3>8. start \o all = start
      <4>1. start \in Seq(Byte)
        BY <1>17 DEF start
      <4>2. \A s \in Seq(Byte) : s \o << >> = s
        OBVIOUS
      <4> QED BY <3>1, <4>1, <4>2
    <3> QED BY <3>1, <3>4, <3>7, <3>8 DEF start
  <2> QED BY <1>2, <2>1, <2>2
<1> QED BY <1>1, <1>12, <1>18, <1>19 DEF w
=============================================================================
