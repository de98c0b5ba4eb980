--------------------------------- MODULE Cbor ---------------------------------
(***************************************************************************)
(* comms-ccf/cbor.hpp and cbor.cpp: values to bytes and back.              *)
(*                                                                         *)
(* An item begins with an initial byte, a major type and a minor value:    *)
(* the minor value is the item's argument itself, or says in how many of   *)
(* the following bytes the argument is, or opens a list of unknown length. *)
(* The code's Base is 256 and its EmbeddedMax 23.                          *)
(*                                                                         *)
(* The template Cbor<T> is an operator with the type T as a record.  What  *)
(* is encoded goes to a writer: the bytes written and the room left in     *)
(* `buf`.  What is decoded comes from a span, an address and a size, in a  *)
(* memory that goes on after it.                                           *)
(***************************************************************************)
EXTENDS Integers, Sequences, FiniteSets, SequencesExt

CONSTANTS Base, EmbeddedMax

\* Room in a minor value for the four sizes and for Indefinite, and for the
\* four simple values up to EmbeddedMax.
ASSUME CborAssumption ==
    /\ EmbeddedMax \in Nat /\ EmbeddedMax >= 3
    /\ Base \in Nat /\ Base % 8 = 0 /\ EmbeddedMax + 5 < Base \div 8

Byte == 0..(Base - 1)
\* How many values n bytes have.
Values[n \in 0..8] == IF n = 0 THEN 1 ELSE Base * Values[n - 1]
MinorModulus == Base \div 8

\* Major; nothing here uses Map and Tagged, 5 and 6.
U64 == 0
Neg64 == 1
Bytes == 2
Utf8 == 3
Array == 4
Simple == 7

\* Minor, from OneByteFollows to EightByteFollows.
Sizes == {1, 2, 4, 8}
Follows == [n \in Sizes |-> EmbeddedMax + Cardinality({m \in Sizes : m <= n})]
Indefinite == MinorModulus - 1

\* SimpleValues
FalseValue == EmbeddedMax - 3
TrueValue == EmbeddedMax - 2
UndefinedValue == EmbeddedMax

\* The types that have a Cbor<T>.
Integer(bytes, signed) == [kind |-> "integer", bytes |-> bytes, signed |-> signed]
Floating(bytes) == [kind |-> "floating", bytes |-> bytes]
Bool == [kind |-> "bool"]
Void == [kind |-> "void"]
Text == [kind |-> "text"]
Span == [kind |-> "span"]
Tuple(items) == [kind |-> "tuple", items |-> items]
ArrayOf(type, n) == [kind |-> "array", items |-> [i \in 1..n |-> type]]

\* The types that can be decoded, those of an item, and all of them.
ArgTypes ==
    [kind : {"integer"}, bytes : Sizes, signed : BOOLEAN]
        \cup [kind : {"floating"}, bytes : {2, 4, 8}] \cup {Bool, Span}
ItemTypes == ArgTypes \cup {Void, Text}
Types == ItemTypes \cup [kind : {"tuple", "array"}, items : Seq(ItemTypes)]

\* What there is to encode: an integer, the bytes of a floating-point value, a
\* truth value, a text or a span.
OfKind(type, v) ==
    CASE type.kind = "integer"  -> v \in Int
      [] type.kind = "floating" -> v \in Seq(Byte) /\ Len(v) \in {2, 4, 8}
      [] type.kind = "bool"     -> v \in BOOLEAN
      [] type.kind = "void"     -> TRUE
      [] OTHER                  -> v \in Seq(Byte)

InitialByte(major, minor) == major * MinorModulus + minor

-----------------------------------------------------------------------------
(* Encoding *)

Writer(room) == [ok |-> TRUE, out |-> << >>, room |-> room]

\* All the bytes or, if there is no room, none and failure.
Write(w, bytes) ==
    IF w.ok /\ Len(bytes) <= w.room
    THEN [w EXCEPT !.out = w.out \o bytes, !.room = w.room - Len(bytes)]
    ELSE [w EXCEPT !.ok = FALSE]

\* Byte by byte, as many as there is room for (the strings).
WriteEach(w, bytes) ==
    LET n == Min({Len(bytes), w.room})
    IN  [Write(w, SubSeq(bytes, 1, n)) EXCEPT !.ok = w.ok /\ n = Len(bytes)]

\* The n bytes of v, greatest first.
BigEndian(v, n) ==
    LET above[i \in 0..n] == IF i = 0 THEN v ELSE above[i - 1] \div Base
    IN  [i \in 1..n |-> above[n - i] % Base]

PackEmbedded(major, v, w) ==
    IF v <= EmbeddedMax THEN Write(w, <<InitialByte(major, v)>>)
    ELSE [w EXCEPT !.ok = FALSE]

Pack(major, digits, w) ==
    Write(w, <<InitialByte(major, Follows[Len(digits)])>> \o digits)

\* Mutant of Smallest: <= for <, the greatest value of a size is cut.
SmallestLoose(v) == Min({n \in {1, 2, 4} : v <= Values[n]} \cup {8})

\* encode<Int> tries the sizes from the smallest.
Smallest(v) == Min({n \in {1, 2, 4} : v < Values[n]} \cup {8})

Encode(major, v, w) ==
    IF v > EmbeddedMax THEN Pack(major, BigEndian(v, Smallest(v)), w)
    ELSE PackEmbedded(major, v, w)

\* A floating-point value is the bytes of the smallest format that holds it.
EncodeFloating(digits, w) == Pack(Simple, digits, w)

EncodeBool(v, w) == PackEmbedded(Simple, IF v THEN TrueValue ELSE FalseValue, w)

EncodeVoid(w) == PackEmbedded(Simple, UndefinedValue, w)

\* A string literal is given with its terminating zero, which is sent too.
EncodeText(v, w) == WriteEach(Encode(Utf8, Len(v), w), v)

EncodeSpan(v, w) == Write(Encode(Bytes, Len(v), w), v)

\* ~value is -value - 1.
EncodeInteger(v, w) == IF v >= 0 THEN Encode(U64, v, w) ELSE Encode(Neg64, -v - 1, w)

EncodeItem(type, v, w) ==
    CASE type.kind = "integer"  -> EncodeInteger(v, w)
      [] type.kind = "floating" -> EncodeFloating(v, w)
      [] type.kind = "bool"     -> EncodeBool(v, w)
      [] type.kind = "void"     -> EncodeVoid(w)
      [] type.kind = "text"     -> EncodeText(v, w)
      [] type.kind = "span"     -> EncodeSpan(v, w)

\* One after the other, while each succeeds.
EncodeItems(types, vs, w) ==
    LET upTo[i \in 0..Len(types)] ==
            IF i = 0 THEN w
            ELSE LET before == upTo[i - 1]
                 IN  IF before.ok THEN EncodeItem(types[i], vs[i], before) ELSE before
    IN  upTo[Len(types)]

\* std::tuple, and std::array in the same way.
EncodeTuple(types, vs, w) == EncodeItems(types, vs, Encode(Array, Len(types), w))

EncodeValue(type, v, w) ==
    IF type.kind \in {"tuple", "array"} THEN EncodeTuple(type.items, v, w)
    ELSE EncodeItem(type, v, w)

\* Sequence's constructor does not look at whether its head was written.
SequenceHead(extent, w) == [Encode(Array, extent, w) EXCEPT !.ok = w.ok]

-----------------------------------------------------------------------------
(* Decoding *)

Skip(buf, n) == [at |-> buf.at + n, size |-> buf.size - n]

\* How many argument bytes follow an initial byte.
Following(minor) ==
    IF \E n \in Sizes : Follows[n] = minor
    THEN CHOOSE n \in Sizes : Follows[n] = minor ELSE 0

Failed(buf) == [ok |-> FALSE, rest |-> buf, value |-> 0]

\* Mutant of HasItem: the size of the span is not looked at.
HasItemAnywhere(minor, buf) ==
    minor <= EmbeddedMax \/ minor = Indefinite \/ Following(minor) > 0

\* Are a whole initial byte and argument in the span?  28-30 are reserved.
HasItem(minor, buf) ==
    /\ buf.size >= 1 + Following(minor)
    /\ minor <= EmbeddedMax \/ minor = Indefinite \/ Following(minor) > 0

\* unpack(buf): the argument is kept as its bytes.
Unpack(mem, buf) ==
    LET major == mem[buf.at] \div MinorModulus
        minor == mem[buf.at] % MinorModulus
        n     == Following(minor)
    IN  IF buf.size >= 1 /\ HasItem(minor, buf)
        THEN [ok |-> TRUE, major |-> major, minor |-> minor, rest |-> Skip(buf, 1 + n),
              value |-> IF n = 0 THEN <<minor>>
                        ELSE [i \in 1..n |-> mem[buf.at + i]]]
        ELSE Failed(buf)

\* The number that bytes make, greatest first.
Number(digits) ==
    LET upTo[i \in 0..Len(digits)] ==
            IF i = 0 THEN 0 ELSE upTo[i - 1] * Base + digits[i]
    IN  upTo[Len(digits)]

\* {value->value}: what is left of the bytes, or of their complement, in the
\* width of the type.
Wrap(type, digits, complement) ==
    LET modulus == Values[type.bytes]
        kept == SubSeq(digits, Max({1, Len(digits) - type.bytes + 1}), Len(digits))
        low == Number(kept)
        v == IF complement THEN modulus - 1 - low ELSE low
    IN  IF type.signed /\ v >= modulus \div 2 THEN v - modulus ELSE v

IsSimple(item, minor) == item.ok /\ item.major = Simple /\ item.minor = minor

Decoded(item, ok, v) == [ok |-> item.ok /\ ok, value |-> v, rest |-> item.rest]

DecodeInteger(type, item) ==
    IF item.major \in {U64, Neg64} /\ item.minor <= Follows[type.bytes]
    THEN Decoded(item, TRUE, Wrap(type, item.value, item.major = Neg64))
    ELSE Decoded(item, FALSE, 0)

\* Smaller formats than the type's are taken too.
DecodeFloating(type, item) ==
    Decoded(item, /\ item.major = Simple
                  /\ Following(item.minor) \in {2, 4, 8}
                  /\ Following(item.minor) <= type.bytes, item.value)

DecodeBool(item) ==
    Decoded(item, IsSimple(item, TrueValue) \/ IsSimple(item, FalseValue),
            item.minor = TrueValue)

\* All of the buffer after the head, whatever the length in the head says, and
\* the buffer is not moved past it.
DecodeSpan(mem, item) ==
    Decoded(item, item.major = Bytes /\ item.minor # Indefinite,
            [i \in 1..item.rest.size |-> mem[item.rest.at + i - 1]])

DecodeUnpacked(type, mem, item) ==
    IF ~item.ok THEN item
    ELSE CASE type.kind = "integer"  -> DecodeInteger(type, item)
           [] type.kind = "floating" -> DecodeFloating(type, item)
           [] type.kind = "bool"     -> DecodeBool(item)
           [] type.kind = "span"     -> DecodeSpan(mem, item)

DecodeItem(type, mem, buf) == DecodeUnpacked(type, mem, Unpack(mem, buf))

\* Every item is decoded, after one that failed too.
DecodeItems(types, mem, buf) ==
    LET upTo[i \in 0..Len(types)] ==
            IF i = 0 THEN [ok |-> TRUE, rest |-> buf, value |-> << >>]
            ELSE LET before == upTo[i - 1]
                     item   == DecodeItem(types[i], mem, before.rest)
                 IN  [ok |-> before.ok /\ item.ok, rest |-> item.rest,
                      value |-> Append(before.value, item.value)]
    IN  upTo[Len(types)]

\* Mutant of DecodeTuple: the tuple is not given up when one of its items is.
DecodeTupleAnyItem(types, mem, buf) ==
    LET head == Unpack(mem, buf)
    IN  IF head.ok /\ head.major = Array
        THEN [DecodeItems(types, mem, head.rest) EXCEPT !.ok = TRUE]
        ELSE Failed(buf)

\* The count in the head is not compared.  A list of unknown length must end
\* after the last item.
DecodeTuple(types, mem, buf) ==
    LET head == Unpack(mem, buf)
        items == DecodeItems(types, mem, head.rest)
    IN  IF /\ head.ok /\ head.major = Array
           /\ items.ok
           /\ head.minor = Indefinite =>
                  IsSimple(Unpack(mem, items.rest), Indefinite)
        THEN items ELSE Failed(buf)
=============================================================================
