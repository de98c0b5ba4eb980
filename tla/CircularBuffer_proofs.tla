------------------------- MODULE CircularBuffer_proofs -------------------------
(***************************************************************************)
(* Proofs about CircularBuffer, for every size, packet size, cursor width  *)
(* and number of turns of the buffer.                                      *)
(***************************************************************************)
EXTENDS CircularBuffer, SequenceTheorems, TLAPS

W == CursorModulus

-----------------------------------------------------------------------------
(* Cursor arithmetic.  Adding and subtracting modulo the cursor width is   *)
(* linear case by case; every later proof uses these facts in place of %.  *)

\* operator+ on a cursor, at most one turn: the sum, wrapped once if need be.
LEMMA AddValue ==
    ASSUME NEW c \in Cursors, NEW n \in 0..W
    PROVE  /\ Add(c, n) = IF c + n < W THEN c + n ELSE c + n - W
           /\ Add(c, n) \in Cursors
BY ModulusAssumption, SizeAssumption DEF Add, Cursors, W

\* write - read and its kin: the unsigned difference of two cursors.
LEMMA DistanceValue ==
    ASSUME NEW a \in Cursors, NEW b \in Cursors
    PROVE  /\ Distance(a, b) = IF b >= a THEN b - a ELSE b - a + W
           /\ Distance(a, b) \in 0..(W - 1)
BY ModulusAssumption, SizeAssumption DEF Distance, Cursors, W

\* A cursor always names a slot.
LEMMA SlotType ==
    ASSUME NEW c \in Cursors
    PROVE  Slot(c) \in Slots
BY SizeAssumption DEF Slot, Slots, Cursors

\* No multiple of the size lies strictly between 0 and the size.
LEMMA NoMultipleBetween ==
    ASSUME NEW k \in Int, k * Size > 0, k * Size < Size
    PROVE  FALSE
<1>1. CASE k <= 0
  <2>1. k * Size <= 0
    BY <1>1, SizeAssumption
  <2> QED BY <2>1, SizeAssumption
<1>2. CASE k >= 1
  <2>1. k * Size >= Size
    BY <1>2, SizeAssumption
  <2> QED BY <2>1, SizeAssumption
<1> QED BY <1>1, <1>2

\* Cursors less than one turn apart name different slots, also when one of
\* them has wrapped: this is what the width being a multiple of the size buys
\* (lines 84-87).
LEMMA SlotDistinct ==
    ASSUME NEW a \in Cursors, NEW b \in Cursors,
           Distance(a, b) > 0, Distance(a, b) < Size
    PROVE  Slot(a) # Slot(b)
<1>1. PICK qa \in Int : a = qa * Size + Slot(a)
  <2>1. a = (a \div Size) * Size + (a % Size) /\ a \div Size \in Int
    BY SizeAssumption DEF Cursors
  <2> QED BY <2>1 DEF Slot
<1>2. PICK qb \in Int : b = qb * Size + Slot(b)
  <2>1. b = (b \div Size) * Size + (b % Size) /\ b \div Size \in Int
    BY SizeAssumption DEF Cursors
  <2> QED BY <2>1 DEF Slot
<1>3. PICK qw \in Int : W = qw * Size
  <2>1. W = (W \div Size) * Size + (W % Size) /\ W \div Size \in Int
    BY SizeAssumption, ModulusAssumption DEF W
  <2> QED BY <2>1, ModulusAssumption, SizeAssumption DEF W
<1> SUFFICES ASSUME Slot(a) = Slot(b) PROVE FALSE
  OBVIOUS
<1>4. Slot(a) \in Int /\ Slot(b) \in Int
  BY SlotType DEF Slots
<1>5. CASE b >= a
  <2>1. Distance(a, b) = b - a
    BY <1>5, DistanceValue DEF Cursors
  <2>2. b - a = (qb - qa) * Size
    BY <1>1, <1>2, <1>4, SizeAssumption
  <2> QED BY <2>1, <2>2, NoMultipleBetween
<1>6. CASE b < a
  <2>1. Distance(a, b) = b - a + W
    BY <1>6, DistanceValue DEF Cursors
  <2>2. b - a + W = (qb - qa + qw) * Size
    BY <1>1, <1>2, <1>3, <1>4, SizeAssumption
  <2> QED BY <2>1, <2>2, NoMultipleBetween
<1> QED BY <1>5, <1>6 DEF Cursors

\* The numbers behind the four assumptions, in the form the provers need.
LEMMA Widths ==
    /\ Size \in Nat /\ Size > 1
    /\ W \in Nat /\ W > Size
    /\ MaxPacketSize \in Nat /\ MaxPacketSize > 0
    /\ ByteModulus \in Nat /\ ByteModulus > 0
BY SizeAssumption, ModulusAssumption, PacketAssumption, ByteAssumption DEF W

\* Moving a cursor n forward moves it n further from any cursor behind it.
LEMMA DistanceAdd ==
    ASSUME NEW a \in Cursors, NEW b \in Cursors, NEW n \in 0..W,
           Distance(a, b) + n < W
    PROVE  Distance(a, Add(b, n)) = Distance(a, b) + n
<1>1. Add(b, n) \in Cursors /\ Add(b, n) = IF b + n < W THEN b + n ELSE b + n - W
  BY AddValue
<1>2. Distance(a, b) = IF b >= a THEN b - a ELSE b - a + W
  BY DistanceValue
<1>3. Distance(a, Add(b, n)) =
         IF Add(b, n) >= a THEN Add(b, n) - a ELSE Add(b, n) - a + W
  BY <1>1, DistanceValue
<1> QED BY <1>1, <1>2, <1>3, Widths DEF Cursors, W

\* Of two cursors ahead of r, the distance between them is the difference.
LEMMA DistanceBetween ==
    ASSUME NEW r \in Cursors, NEW a \in Cursors, NEW b \in Cursors,
           Distance(r, a) <= Distance(r, b)
    PROVE  Distance(a, b) = Distance(r, b) - Distance(r, a)
<1>1. Distance(r, a) = IF a >= r THEN a - r ELSE a - r + W
  BY DistanceValue
<1>2. Distance(r, b) = IF b >= r THEN b - r ELSE b - r + W
  BY DistanceValue
<1>3. Distance(a, b) = IF b >= a THEN b - a ELSE b - a + W
  BY DistanceValue
<1> QED BY <1>1, <1>2, <1>3, Widths DEF Cursors, W

\* Distances add up while they stay within one turn of the width.
LEMMA DistanceSum ==
    ASSUME NEW r \in Cursors, NEW a \in Cursors, NEW b \in Cursors,
           Distance(r, a) + Distance(a, b) < W
    PROVE  Distance(r, b) = Distance(r, a) + Distance(a, b)
<1>1. Distance(r, a) = IF a >= r THEN a - r ELSE a - r + W
  BY DistanceValue
<1>2. Distance(r, b) = IF b >= r THEN b - r ELSE b - r + W
  BY DistanceValue
<1>3. Distance(a, b) = IF b >= a THEN b - a ELSE b - a + W
  BY DistanceValue
<1> QED BY <1>1, <1>2, <1>3, Widths DEF Cursors, W

\* Only equal cursors are no distance apart.
LEMMA DistanceZero ==
    ASSUME NEW a \in Cursors, NEW b \in Cursors
    PROVE  Distance(a, b) = 0 <=> a = b
<1>1. Distance(a, b) = IF b >= a THEN b - a ELSE b - a + W
  BY DistanceValue
<1> QED BY <1>1, Widths DEF Cursors, W

\* Adding in two parts is adding once.
LEMMA AddAdd ==
    ASSUME NEW c \in Cursors, NEW n \in 0..W, NEW m \in 0..W, n + m <= W
    PROVE  Add(Add(c, n), m) = Add(c, n + m)
<1>1. Add(c, n) \in Cursors /\ Add(c, n) = IF c + n < W THEN c + n ELSE c + n - W
  BY AddValue
<1>2. Add(Add(c, n), m) =
         IF Add(c, n) + m < W THEN Add(c, n) + m ELSE Add(c, n) + m - W
  BY <1>1, AddValue
<1>3. n + m \in 0..W
  BY Widths
<1>4. Add(c, n + m) = IF c + (n + m) < W THEN c + (n + m) ELSE c + (n + m) - W
  BY <1>3, AddValue
<1> QED BY <1>1, <1>2, <1>4, Widths DEF Cursors, W

\* Walking the distance to a cursor reaches it.
LEMMA AddDistance ==
    ASSUME NEW a \in Cursors, NEW b \in Cursors
    PROVE  Add(a, Distance(a, b)) = b
<1>1. Distance(a, b) \in 0..W /\ Distance(a, b) = IF b >= a THEN b - a ELSE b - a + W
  BY DistanceValue, Widths
<1>2. Add(a, Distance(a, b)) =
         IF a + Distance(a, b) < W THEN a + Distance(a, b) ELSE a + Distance(a, b) - W
  BY <1>1, AddValue
<1> QED BY <1>1, <1>2, Widths DEF Cursors, W

-----------------------------------------------------------------------------
(* Types *)

\* Contents reads bytes out of slots, whatever cursor it starts from.
LEMMA ContentsType ==
    ASSUME TypeOK, NEW c \in Cursors, NEW n \in 0..W
    PROVE  /\ Contents(c, n) \in Seq(Bytes)
           /\ Len(Contents(c, n)) = n
           /\ \A i \in 1..n : Contents(c, n)[i] = buf[Slot(Add(c, i - 1))]
<1>1. \A i \in 1..n : buf[Slot(Add(c, i - 1))] \in Bytes
  <2> TAKE i \in 1..n
  <2>1. i - 1 \in 0..W
    BY Widths
  <2>2. Add(c, i - 1) \in Cursors
    BY <2>1, AddValue
  <2> QED BY <2>2, SlotType DEF TypeOK
<1>2. n \in Nat
  BY Widths
<1> QED BY <1>1, <1>2 DEF Contents

\* unnotified() is a number, one less than what lies before write.
LEMMA UnnotifiedType ==
    ASSUME TypeOK, NEW c \in Cursors
    PROVE  /\ Unnotified(c) \in 0..W
           /\ Unnotified(c) = IF c = write THEN 0 ELSE Distance(c, write) - 1
<1>1. Distance(c, write) \in 0..(W - 1) /\ (Distance(c, write) = 0 <=> c = write)
  BY DistanceValue, DistanceZero DEF TypeOK
<1> QED BY <1>1, Widths DEF Unnotified

\* Zero is a cursor and a byte, one can be added to a cursor.
LEMMA SmallNumbers == 0 \in Cursors /\ 0 \in Bytes /\ 1 \in 0..W
BY Widths DEF Cursors, Bytes, W

\* What publishing, consuming and emptying do to the kind of a queue.
LEMMA SeqType ==
    ASSUME NEW S
    PROVE  /\ << >> \in Seq(S)
           /\ \A s \in Seq(S), e \in S : Append(s, e) \in Seq(S)
           /\ \A s \in Seq(S) : s # << >> => Tail(s) \in Seq(S)
OBVIOUS

\* Two offsets keep their order when both move back.
LEMMA MoveBack ==
    ASSUME NEW a \in Nat, NEW b \in Nat, NEW l \in Nat, NEW k \in Nat,
           NEW n, n = l, a + l + 1 <= b
    PROVE  a - k + n + 1 <= b - k
OBVIOUS

\* Dropping the frame keeps cursor, frame and queue well typed.
LEMMA DropFrameType ==
    ASSUME TypeOK, DropFrame
    PROVE  /\ read' \in Cursors
           /\ frame' \in [held : BOOLEAN, begin : Cursors, end : Cursors]
           /\ queue' \in Seq(Packets)
<1>1. frame' \in [held : BOOLEAN, begin : Cursors, end : Cursors]
  BY SmallNumbers DEF DropFrame, NoFrame
<1>2. read' \in Cursors
  BY DEF TypeOK, DropFrame
<1>3. queue' \in Seq(Packets)
  BY SeqType DEF TypeOK, DropFrame
<1> QED BY <1>1, <1>2, <1>3

\* Each step of either side, and reset(), keeps the types.
LEMMA TypeStep == TypeOK /\ [Next]_vars => TypeOK'
<1> SUFFICES ASSUME TypeOK, [Next]_vars PROVE TypeOK'
  OBVIOUS
<1>1. ASSUME NEW v \in Elements, PushCheck(v) PROVE TypeOK'
  <2>1. v \in Bytes
    BY ByteAssumption DEF Bytes
  <2> QED BY <1>1, <2>1 DEF TypeOK, PushCheck, consumerVars, Overfull
<1>2. CASE PushReserve
  <2>1. write' \in Cursors
    BY <1>2, AddValue, SmallNumbers DEF TypeOK, PushReserve
  <2> QED BY <1>2, <2>1 DEF TypeOK, PushReserve, consumerVars, Overfull
<1>3. CASE PushStore
  <2>1. write' \in Cursors
    BY <1>3, AddValue, SmallNumbers DEF TypeOK, PushStore
  <2>2. buf' \in [Slots -> Bytes]
    BY <1>3 DEF TypeOK, PushStore
  <2> QED BY <1>3, <2>1, <2>2, SmallNumbers DEF TypeOK, PushStore, consumerVars
<1>4. CASE ResetDropped
  BY <1>4 DEF TypeOK, ResetDropped, DropPacket, consumerVars
<1>5. CASE Notify
  BY <1>5 DEF TypeOK, Notify, DropPacket, consumerVars
<1>6. CASE NotifyBump
  <2>1. notified' \in Cursors
    BY <1>6, AddValue, SmallNumbers DEF TypeOK, NotifyBump
  <2> QED BY <1>6, <2>1 DEF TypeOK, NotifyBump, consumerVars
<1>7. CASE NotifySize
  <2>1. Unnotified(packet) % ByteModulus \in Bytes
    BY UnnotifiedType, Widths DEF TypeOK, Bytes
  <2>2. buf' \in [Slots -> Bytes]
    BY <1>7, <2>1 DEF TypeOK, NotifySize
  <2> QED BY <1>7, <2>2 DEF TypeOK, NotifySize, consumerVars
<1>8. CASE NotifyPublish
  <2>1. Add(packet, 1) \in Cursors
    BY AddValue, SmallNumbers DEF TypeOK
  <2>2. Contents(Add(packet, 1), Unnotified(packet)) \in Seq(Bytes)
    BY <2>1, ContentsType, UnnotifiedType DEF TypeOK
  <2>3. [at |-> packet,
         data |-> Contents(Add(packet, 1), Unnotified(packet))] \in Packets
    BY <2>2 DEF TypeOK, Packets
  <2>4. queue' \in Seq(Packets)
    BY <1>8, <2>3, SeqType DEF TypeOK, NotifyPublish
  <2> QED BY <1>8, <2>4 DEF TypeOK, NotifyPublish, consumerVars
<1>9. CASE ResetFrame
  BY <1>9, DropFrameType DEF TypeOK, ResetFrame, producerVars
<1>10. CASE GetFrame
  BY <1>10, DropFrameType DEF TypeOK, GetFrame, producerVars
<1>11. CASE GetFrameTest
  BY <1>11 DEF TypeOK, GetFrameTest, producerVars
<1>12. CASE GetFrameLoad
  BY <1>12 DEF TypeOK, GetFrameLoad, producerVars
<1>13. CASE GetFrameSize
  <2>1. Add(read, 1) \in Cursors
    BY AddValue, SmallNumbers DEF TypeOK
  <2>2. buf[Slot(read)] \in Bytes
    BY SlotType DEF TypeOK
  <2>3. Add(Add(read, 1), buf[Slot(read)]) \in Cursors
    BY <2>1, <2>2, Widths, ModulusAssumption DEF Add, Cursors, Bytes, W
  <2>4. frame' \in [held : BOOLEAN, begin : Cursors, end : Cursors]
    BY <1>13, <2>1, <2>3, SmallNumbers DEF GetFrameSize, NoFrame
  <2> QED BY <1>13, <2>4, SmallNumbers DEF TypeOK, GetFrameSize, producerVars
<1>14. CASE Reset
  BY <1>14, SmallNumbers, SeqType DEF TypeOK, Reset
<1>15. CASE UNCHANGED vars
  BY <1>15 DEF TypeOK, vars, producerVars, consumerVars
<1> QED
  BY <1>1, <1>2, <1>3, <1>4, <1>5, <1>6, <1>7, <1>8, <1>9, <1>10, <1>11,
     <1>12, <1>13, <1>14, <1>15 DEF Next, Produce, Consume

\* A new buffer is well typed.
LEMMA InitTypeOK == Init => TypeOK
<1> SUFFICES ASSUME Init PROVE TypeOK
  OBVIOUS
<1>1. buf \in [Slots -> Bytes]
  BY SmallNumbers DEF Init
<1>2. queue \in Seq(Packets)
  BY SeqType DEF Init
<1>3. frame \in [held : BOOLEAN, begin : Cursors, end : Cursors]
  BY SmallNumbers DEF Init, NoFrame
<1> QED BY <1>1, <1>2, <1>3, SmallNumbers DEF Init, TypeOK

\* Every cursor stays a cursor, every slot a byte and every call at one of
\* its steps, in every reachable state.
THEOREM TypeCorrect == Spec => []TypeOK
BY InitTypeOK, TypeStep, PTL DEF Spec

-----------------------------------------------------------------------------
(* What the inductive invariant says of one packet, and of a store *)

\* A published packet is well typed and lies before the open one.
LEMMA PacketBounds ==
    ASSUME IndInv, NEW i \in 1..Len(queue)
    PROVE  /\ queue[i] \in Packets
           /\ queue[i].at \in Cursors
           /\ queue[i].data \in Seq(Bytes)
           /\ Len(queue[i].data) \in Nat
           /\ Offset(queue[i].at) \in Nat
           /\ Offset(queue[i].at) + Len(queue[i].data) + 1 <= Offset(packet)
<1>1. queue[i] \in Packets
  <2>1. queue \in Seq(Packets)
    BY DEF IndInv, TypeOK
  <2> QED BY <2>1
<1>2. queue[i].at \in Cursors /\ queue[i].data \in Seq(Bytes)
  BY <1>1 DEF Packets
<1>3. Offset(queue[i].at) \in Nat
  <2>1. read \in Cursors
    BY DEF IndInv, TypeOK
  <2>2. Distance(read, queue[i].at) \in 0..(W - 1)
    BY <1>2, <2>1, DistanceValue
  <2> QED BY <2>2, Widths DEF Offset
<1>4. After(queue[i]) <= Offset(packet)
  BY DEF IndInv, PacketsOrdered
<1> QED BY <1>1, <1>2, <1>3, <1>4 DEF After

\* The committed end and the write cursor are at most Size from read.
LEMMA OpenBounds ==
    ASSUME IndInv
    PROVE  /\ Offset(packet) \in Nat
           /\ Distance(packet, write) \in Nat
           /\ Offset(packet) + Distance(packet, write) <= Size
           /\ size = Offset(packet) + Distance(packet, write)
           /\ Offset(write) = size
<1>1. read \in Cursors /\ packet \in Cursors /\ write \in Cursors
  BY DEF IndInv, TypeOK
<1>2. Offset(packet) \in 0..(W - 1) /\ Distance(packet, write) \in 0..(W - 1)
  BY <1>1, DistanceValue DEF Offset
<1>3. Offset(packet) + Distance(packet, write) <= Size
  BY DEF IndInv, CursorsOrdered, Offset
<1>4. size = Offset(packet) + Distance(packet, write)
  BY <1>1, <1>2, <1>3, DistanceSum, Widths DEF size, Offset
<1> QED BY <1>2, <1>3, <1>4, Widths DEF size, Offset

\* Cursors at different offsets below Size name different slots.
LEMMA OffsetsApart ==
    ASSUME NEW r \in Cursors, NEW a \in Cursors, NEW c \in Cursors,
           Distance(r, a) < Distance(r, c), Distance(r, c) < Size
    PROVE  Slot(a) # Slot(c)
<1>1. /\ Distance(r, a) \in 0..(W - 1) /\ Distance(r, c) \in 0..(W - 1)
      /\ Distance(a, c) = Distance(r, c) - Distance(r, a)
  BY DistanceValue, DistanceBetween, Widths
<1> QED BY <1>1, SlotDistinct, Widths

\* A store at or after the open packet's start, less than Size from read,
\* touches no published packet.
LEMMA StoreOutside ==
    ASSUME IndInv, NEW c \in Cursors, NEW b,
           Offset(packet) <= Offset(c), Offset(c) < Size,
           buf' = [buf EXCEPT ![Slot(c)] = b],
           queue' = queue
    PROVE  PublishedIntact'
<1> SUFFICES ASSUME NEW i \in 1..Len(queue)
             PROVE  /\ buf'[Slot(queue[i].at)] = Len(queue[i].data)
                    /\ Contents(Add(queue[i].at, 1), Len(queue[i].data))'
                         = queue[i].data
  BY DEF PublishedIntact
<1> DEFINE p == queue[i]
           n == Len(p.data)
<1>1. /\ p.at \in Cursors /\ p.data \in Seq(Bytes) /\ n \in Nat
      /\ Offset(p.at) \in Nat /\ Offset(p.at) + n + 1 <= Offset(packet)
  BY PacketBounds
<1>2. read \in Cursors /\ packet \in Cursors /\ buf \in [Slots -> Bytes]
  BY DEF IndInv, TypeOK
<1>3. Offset(packet) \in Nat /\ Offset(c) \in Nat
  BY <1>2, DistanceValue, Widths DEF Offset
<1>4. n + 1 \in 0..W /\ Offset(p.at) + n + 1 < Size + 1
  BY <1>1, <1>3, Widths
<1>5. \A k \in 0..n : /\ Add(p.at, k) \in Cursors
                      /\ buf'[Slot(Add(p.at, k))] = buf[Slot(Add(p.at, k))]
  <2> TAKE k \in 0..n
  <2>1. k \in 0..W /\ Add(p.at, k) \in Cursors
    <3>1. k \in 0..W
      BY <1>1, <1>4, Widths
    <3> QED BY <1>1, <3>1, AddValue
  <2>2. Distance(read, Add(p.at, k)) = Offset(p.at) + k
    BY <1>1, <1>2, <1>3, <2>1, DistanceAdd, Widths DEF Offset
  <2>3. Slot(Add(p.at, k)) # Slot(c)
    BY <1>1, <1>2, <1>3, <2>1, <2>2, OffsetsApart, Widths DEF Offset
  <2> QED BY <2>1, <2>3, <1>2, SlotType
<1>6. Add(p.at, 0) = p.at
  BY <1>1, AddValue, Widths DEF Cursors, W
<1>7. buf'[Slot(p.at)] = n
  <2>1. buf[Slot(p.at)] = n
    BY DEF IndInv, PublishedIntact
  <2>2. 0 \in 0..n
    BY <1>1
  <2> QED BY <1>5, <1>6, <2>1, <2>2
<1>8. \A j \in 1..n : Add(Add(p.at, 1), j - 1) = Add(p.at, j)
  <2> TAKE j \in 1..n
  <2>1. j - 1 \in 0..W /\ 1 \in 0..W /\ 1 + (j - 1) <= W /\ 1 + (j - 1) = j
    BY <1>1, <1>4, Widths
  <2>2. Add(Add(p.at, 1), j - 1) = Add(p.at, 1 + (j - 1))
    BY <1>1, <2>1, AddAdd
  <2> QED BY <2>1, <2>2
<1>9. Contents(Add(p.at, 1), n)' = Contents(Add(p.at, 1), n)
  <2>1. \A j \in 1..n : j \in 0..n
    BY <1>1
  <2>2. \A j \in 1..n : buf'[Slot(Add(Add(p.at, 1), j - 1))]
                          = buf[Slot(Add(Add(p.at, 1), j - 1))]
    BY <1>5, <1>8, <2>1
  <2> QED BY <2>2 DEF Contents
<1>10. Contents(Add(p.at, 1), n) = p.data
  BY DEF IndInv, PublishedIntact
<1> QED BY <1>7, <1>9, <1>10

-----------------------------------------------------------------------------
(* The producer's steps keep the inductive invariant *)

\* While the consumer's side and the committed end stand still, so do the
\* facts about the published packets; only the slots' contents may change.
LEMMA PublishedSideKept ==
    ASSUME IndInv, UNCHANGED <<packet, consumerVars, queue>>
    PROVE  /\ PacketsAdjacent' /\ PacketsOrdered'
           /\ HeldFrameIsOldest' /\ ConsumerInv'
           /\ buf' = buf => PublishedIntact'
<1>1. PacketsAdjacent' /\ PacketsOrdered'
  BY DEF IndInv, PacketsAdjacent, PacketsOrdered, EndOf, After, Offset,
         consumerVars
<1>2. HeldFrameIsOldest' /\ ConsumerInv'
  BY DEF IndInv, HeldFrameIsOldest, ConsumerInv, EndOf, consumerVars
<1>3. buf' = buf => PublishedIntact'
  BY DEF IndInv, PublishedIntact, Contents
<1> QED BY <1>1, <1>2, <1>3

\* push_back's first check keeps the invariant: an element it lets pass has
\* room now.
LEMMA PushCheckInv ==
    ASSUME IndInv, TypeOK', NEW v \in Elements, PushCheck(v)
    PROVE  IndInv'
<1>1. /\ PacketsAdjacent' /\ PacketsOrdered' /\ PublishedIntact'
      /\ HeldFrameIsOldest' /\ ConsumerInv'
  BY PublishedSideKept DEF PushCheck
<1>2. CursorsOrdered'
  BY DEF IndInv, CursorsOrdered, PushCheck, consumerVars
<1>3. ProducerInv'
  <2>1. /\ Unnotified(packet)' = Unnotified(packet)
        /\ Offset(packet)' = Offset(packet) /\ Room' = Room
    BY DEF PushCheck, consumerVars, Unnotified, Offset, Room
  <2>2. ~dropped' => Room /\ Unnotified(packet) < MaxPacketSize
    <3>1. Unnotified(packet) \in 0..W
      BY UnnotifiedType DEF IndInv, TypeOK
    <3>2. ~dropped' => ~Overfull
      BY DEF PushCheck
    <3>3. size = Offset(packet) + Distance(packet, write) /\ size \in Nat
      BY OpenBounds
    <3> QED BY <3>1, <3>2, <3>3, Widths DEF Overfull, Room
  <2>3. ~dropped' => ~dropped
    BY DEF PushCheck
  <2> QED BY <2>1, <2>2, <2>3 DEF IndInv, ProducerInv, PushCheck
<1> QED BY <1>1, <1>2, <1>3 DEF IndInv

\* Keeping a slot for the length keeps the invariant: the second check sees
\* whether the element still has room after it.
LEMMA PushReserveInv ==
    ASSUME IndInv, TypeOK', PushReserve
    PROVE  IndInv'
<1>1. /\ PacketsAdjacent' /\ PacketsOrdered' /\ PublishedIntact'
      /\ HeldFrameIsOldest' /\ ConsumerInv'
  BY PublishedSideKept DEF PushReserve
<1>2. packet \in Cursors /\ read \in Cursors /\ write \in Cursors /\ write' \in Cursors
  BY DEF IndInv, TypeOK
<1>3. /\ packet' = packet /\ read' = read /\ notified' = notified
      /\ Offset(packet)' = Offset(packet)
  BY DEF PushReserve, consumerVars, Offset
<1>4. notified = packet
  BY DEF IndInv, CursorsOrdered, PushReserve
<1>5. CASE ~dropped /\ write = packet
  <2>1. write' = Add(packet, 1)
    BY <1>4, <1>5 DEF PushReserve
  <2>2. Distance(packet, write') = 1 /\ write' # packet
    <3>1. Distance(packet, packet) = 0
      BY <1>2, DistanceZero
    <3>2. Distance(packet, Add(packet, 1)) = 0 + 1
      BY <1>2, <3>1, DistanceAdd, SmallNumbers, Widths
    <3> QED BY <2>1, <3>1, <3>2
  <2>3. Offset(packet) < Size /\ Offset(packet) \in Nat
    BY <1>5, OpenBounds, <1>2, DistanceZero, Widths
       DEF IndInv, ProducerInv, PushReserve, Room
  <2>4. CursorsOrdered'
    BY <1>3, <1>4, <2>2, <2>3, Widths DEF CursorsOrdered, Offset
  <2>5. Unnotified(packet)' = 0
    BY <1>3, <2>2 DEF Unnotified
  <2>6. size' = Offset(packet) + 1
    <3>1. Distance(read, Add(packet, 1)) = Offset(packet) + 1
      BY <1>2, <2>3, DistanceAdd, SmallNumbers, Widths DEF Offset
    <3> QED BY <1>3, <2>1, <3>1 DEF size
  <2>7. ~dropped' => Room'
    <3>1. ~dropped' => ~Overfull'
      BY DEF PushReserve
    <3>2. ~Overfull' => Offset(packet) + 1 < Size
      BY <2>3, <2>6, Widths DEF Overfull
    <3>3. Room' <=> Offset(packet) + 1 < Size
      BY <1>3, <2>2 DEF Room
    <3> QED BY <3>1, <3>2, <3>3
  <2>8. ProducerInv'
    BY <1>3, <2>2, <2>5, <2>7, Widths DEF PushReserve, ProducerInv
  <2> QED BY <1>1, <2>4, <2>8 DEF IndInv
<1>6. CASE dropped \/ write # packet
  <2>1. write' = write
    BY <1>4, <1>6 DEF PushReserve
  <2>2. /\ Unnotified(packet)' = Unnotified(packet)
        /\ Room' = Room /\ size' = size
    BY <1>3, <2>1 DEF Unnotified, Room, size
  <2>3. CursorsOrdered'
    BY <1>3, <2>1 DEF IndInv, CursorsOrdered, PushReserve
  <2>4. ProducerInv'
    BY <1>3, <1>6, <2>1, <2>2 DEF IndInv, ProducerInv, PushReserve
  <2> QED BY <1>1, <2>3, <2>4 DEF IndInv
<1> QED BY <1>5, <1>6

\* push_back's store keeps the invariant: the slot it fills is in no published
\* packet.
LEMMA PushStoreInv ==
    ASSUME IndInv, TypeOK', PushStore
    PROVE  IndInv'
<1>1. /\ PacketsAdjacent' /\ PacketsOrdered'
      /\ HeldFrameIsOldest' /\ ConsumerInv'
      /\ buf' = buf => PublishedIntact'
  BY PublishedSideKept DEF PushStore
<1>2. packet \in Cursors /\ read \in Cursors /\ write \in Cursors
  BY DEF IndInv, TypeOK
<1>3. /\ packet' = packet /\ read' = read /\ notified' = notified
      /\ dropped' = dropped /\ Offset(packet)' = Offset(packet)
  BY DEF PushStore, consumerVars, Offset
<1>4. CASE dropped
  <2>1. buf' = buf /\ write' = write
    BY <1>4 DEF PushStore
  <2>2. Unnotified(packet)' = Unnotified(packet)
    BY <1>3, <2>1 DEF Unnotified
  <2>3. CursorsOrdered'
    BY <1>3, <2>1 DEF IndInv, CursorsOrdered, PushStore
  <2>4. ProducerInv'
    BY <1>3, <1>4, <2>1, <2>2 DEF IndInv, ProducerInv, PushStore
  <2> QED BY <1>1, <2>1, <2>3, <2>4 DEF IndInv
<1>5. CASE ~dropped
  <2>1. /\ write' = Add(write, 1)
        /\ buf' = [buf EXCEPT ![Slot(write)] = value]
    BY <1>5 DEF PushStore
  <2>2. /\ Offset(packet) \in Nat /\ Distance(packet, write) \in Nat
        /\ Offset(packet) + Distance(packet, write) < Size
        /\ Offset(write) = Offset(packet) + Distance(packet, write)
        /\ write # packet /\ Unnotified(packet) < MaxPacketSize
    BY <1>5, OpenBounds DEF IndInv, ProducerInv, PushStore, Room
  <2>3. Distance(packet, write) > 0
    BY <1>2, <2>2, DistanceZero
  <2>4. Distance(packet, write') = Distance(packet, write) + 1
    BY <1>2, <2>1, <2>2, DistanceAdd, SmallNumbers, Widths
  <2>5. write' # packet
    BY <1>2, <2>2, <2>4, DistanceZero
  <2>6. Unnotified(packet)' = Unnotified(packet) + 1 /\ Unnotified(packet) \in Nat
    BY <1>3, <2>2, <2>3, <2>4 DEF Unnotified
  <2>7. CursorsOrdered'
    <3>1. Offset(packet) + Distance(packet, write') <= Size
      BY <2>2, <2>4, Widths
    <3> QED BY <1>3, <3>1 DEF IndInv, CursorsOrdered, PushStore, Offset
  <2>8. PublishedIntact'
    <3>1. Offset(packet) <= Offset(write) /\ Offset(write) < Size
      BY <2>2
    <3>2. queue' = queue
      BY DEF PushStore
    <3> QED BY <1>2, <2>1, <3>1, <3>2, StoreOutside
  <2>9. ProducerInv'
    <3>1. Unnotified(packet)' <= MaxPacketSize /\ Unnotified(packet)' > 0
      BY <2>2, <2>6, Widths
    <3> QED BY <3>1 DEF ProducerInv, PushStore
  <2> QED BY <1>1, <2>7, <2>8, <2>9 DEF IndInv
<1> QED BY <1>4, <1>5

\* reset_dropped() leaves the open packet as it is, or none of it.
LEMMA DropPacketInv ==
    ASSUME IndInv, TypeOK', producer = "idle", DropPacket,
           UNCHANGED <<buf, notified, packet, consumerVars, queue>>
    PROVE  /\ CursorsOrdered' /\ PublishedIntact'
           /\ PacketsAdjacent' /\ PacketsOrdered'
           /\ HeldFrameIsOldest' /\ ConsumerInv'
           /\ Offset(packet)' = Offset(packet)
           /\ Unnotified(packet)' <= MaxPacketSize
           /\ write' # packet' => Unnotified(packet)' > 0
<1>1. /\ PacketsAdjacent' /\ PacketsOrdered' /\ PublishedIntact'
      /\ HeldFrameIsOldest' /\ ConsumerInv'
  BY PublishedSideKept
<1>2. packet \in Cursors /\ notified = packet /\ notified' = packet
  BY DEF IndInv, TypeOK, CursorsOrdered
<1>3. packet' = packet /\ read' = read /\ Offset(packet)' = Offset(packet)
  BY DEF consumerVars, Offset
<1>4. CASE dropped
  <2>1. write' = packet /\ Distance(packet, write') = 0
    BY <1>2, <1>4, DistanceZero DEF DropPacket
  <2>2. Unnotified(packet)' = 0
    BY <1>3, <2>1 DEF Unnotified
  <2>3. CursorsOrdered'
    BY <1>2, <1>3, <2>1, OpenBounds, Widths DEF CursorsOrdered, Offset
  <2> QED BY <1>1, <1>3, <2>1, <2>2, <2>3, Widths
<1>5. CASE ~dropped
  <2>1. write' = write /\ Unnotified(packet)' = Unnotified(packet)
    BY <1>3, <1>5 DEF DropPacket, Unnotified
  <2>2. CursorsOrdered'
    BY <1>2, <1>3, <2>1 DEF IndInv, CursorsOrdered
  <2>3. /\ Unnotified(packet) <= MaxPacketSize
        /\ write # packet => Unnotified(packet) > 0
    BY <1>5 DEF IndInv, ProducerInv
  <2> QED BY <1>1, <1>3, <2>1, <2>2, <2>3
<1> QED BY <1>4, <1>5

\* reset_dropped() keeps the invariant.
LEMMA ResetDroppedInv ==
    ASSUME IndInv, TypeOK', ResetDropped
    PROVE  IndInv'
<1>1. /\ CursorsOrdered' /\ PublishedIntact'
      /\ PacketsAdjacent' /\ PacketsOrdered'
      /\ HeldFrameIsOldest' /\ ConsumerInv'
      /\ Unnotified(packet)' <= MaxPacketSize
      /\ write' # packet' => Unnotified(packet)' > 0
  BY DropPacketInv DEF ResetDropped
<1>2. ProducerInv'
  BY <1>1 DEF ResetDropped, ProducerInv
<1> QED BY <1>1, <1>2 DEF IndInv

\* The start of notify() keeps the invariant, when it is not called with
\* nothing to notify and every slot unread.
LEMMA NotifyInv ==
    ASSUME IndInv, TypeOK', ~EmptyNotifyWhenFull, Notify
    PROVE  IndInv'
<1>1. /\ CursorsOrdered' /\ PublishedIntact'
      /\ PacketsAdjacent' /\ PacketsOrdered'
      /\ HeldFrameIsOldest' /\ ConsumerInv'
      /\ Offset(packet)' = Offset(packet)
      /\ Unnotified(packet)' <= MaxPacketSize
      /\ write' # packet' => Unnotified(packet)' > 0
  BY DropPacketInv DEF Notify
<1>2. notified = packet /\ packet' = packet
  BY DEF IndInv, CursorsOrdered, Notify
<1>3. write' = packet' => Offset(packet) < Size
  <2>1. write' = packet' => NothingToNotify
    BY <1>2 DEF Notify, DropPacket, NothingToNotify
  <2>2. NothingToNotify => Offset(packet) # Size
    BY <1>2 DEF Notify, readable, Offset
  <2>3. Offset(packet) \in Nat /\ Offset(packet) <= Size
    BY OpenBounds, Widths
  <2> QED BY <2>1, <2>2, <2>3, Widths
<1>4. ProducerInv'
  BY <1>1, <1>3 DEF Notify, DropPacket, ProducerInv
<1> QED BY <1>1, <1>4 DEF IndInv

\* The half-done increment of notified keeps the invariant.
LEMMA NotifyBumpInv ==
    ASSUME IndInv, TypeOK', NotifyBump
    PROVE  IndInv'
<1>1. /\ PacketsAdjacent' /\ PacketsOrdered' /\ PublishedIntact'
      /\ HeldFrameIsOldest' /\ ConsumerInv'
  BY PublishedSideKept DEF NotifyBump
<1>2. /\ packet' = packet /\ read' = read /\ write' = write
      /\ Offset(packet)' = Offset(packet)
      /\ Unnotified(packet)' = Unnotified(packet)
  BY DEF NotifyBump, consumerVars, Offset, Unnotified
<1>3. notified = packet
  BY DEF IndInv, CursorsOrdered, NotifyBump
<1>4. CursorsOrdered'
  BY <1>2, <1>3 DEF IndInv, CursorsOrdered, NotifyBump
<1>5. ProducerInv'
  BY <1>2 DEF IndInv, ProducerInv, NotifyBump
<1> QED BY <1>1, <1>4, <1>5 DEF IndInv

\* Storing the length keeps the invariant, when every length fits a byte.
LEMMA NotifySizeInv ==
    ASSUME IndInv, TypeOK', MaxPacketSize < ByteModulus, NotifySize
    PROVE  IndInv'
<1>1. /\ PacketsAdjacent' /\ PacketsOrdered'
      /\ HeldFrameIsOldest' /\ ConsumerInv'
  BY PublishedSideKept DEF NotifySize
<1>2. packet \in Cursors /\ write \in Cursors /\ buf \in [Slots -> Bytes]
  BY DEF IndInv, TypeOK
<1>3. /\ packet' = packet /\ read' = read /\ write' = write
      /\ Offset(packet)' = Offset(packet)
      /\ Unnotified(packet)' = Unnotified(packet)
  BY DEF NotifySize, consumerVars, Offset, Unnotified
<1>4. Offset(packet) \in Nat /\ Offset(packet) < Size
  <2>1. CASE write = packet
    BY <2>1, OpenBounds DEF IndInv, ProducerInv, NotifySize
  <2>2. CASE write # packet
    BY <1>2, <2>2, OpenBounds, DistanceZero, Widths
  <2> QED BY <2>1, <2>2
<1>5. PublishedIntact'
  <2>1. Offset(packet) <= Offset(packet)
    BY <1>4
  <2> QED BY <1>2, <1>4, <2>1, StoreOutside DEF NotifySize
<1>6. CursorsOrdered'
  BY <1>3 DEF IndInv, CursorsOrdered, NotifySize
<1>7. buf'[Slot(packet)] = Unnotified(packet)
  <2>1. Unnotified(packet) \in Nat /\ Unnotified(packet) < ByteModulus
    BY <1>2, UnnotifiedType, Widths DEF IndInv, ProducerInv
  <2>2. Unnotified(packet) % ByteModulus = Unnotified(packet)
    BY <2>1, Widths
  <2> QED BY <1>2, <2>2, SlotType DEF NotifySize
<1>8. ProducerInv'
  BY <1>3, <1>7 DEF IndInv, ProducerInv, NotifySize
<1> QED BY <1>1, <1>5, <1>6, <1>8 DEF IndInv

\* Publishing nothing moves nothing.
LEMMA PublishNothingInv ==
    ASSUME IndInv, TypeOK', NotifyPublish, write = packet
    PROVE  IndInv'
<1>1. /\ packet' = packet /\ queue' = queue /\ write' = write
      /\ notified' = packet' /\ buf' = buf
  BY DEF NotifyPublish
<1>2. /\ PacketsAdjacent' /\ PacketsOrdered' /\ PublishedIntact'
      /\ HeldFrameIsOldest' /\ ConsumerInv'
  BY <1>1, PublishedSideKept DEF NotifyPublish
<1>3. CursorsOrdered'
  BY <1>1 DEF IndInv, CursorsOrdered, NotifyPublish, consumerVars
<1>4. Unnotified(packet)' = Unnotified(packet)
  BY <1>1 DEF Unnotified
<1>5. ProducerInv'
  BY <1>1, <1>4 DEF IndInv, ProducerInv, NotifyPublish
<1> QED BY <1>2, <1>3, <1>5 DEF IndInv

\* The open packet joins the published ones.
LEMMA PublishPacketInv ==
    ASSUME IndInv, TypeOK', NotifyPublish, write # packet
    PROVE  IndInv'
<1> DEFINE n == Unnotified(packet)
           p == [at |-> packet, data |-> Contents(Add(packet, 1), n)]
           L == Len(queue)
<1>1. /\ packet' = write /\ notified' = write /\ write' = write /\ buf' = buf
      /\ read' = read /\ queue' = Append(queue, p)
  BY DEF NotifyPublish, consumerVars
<1>2. /\ packet \in Cursors /\ write \in Cursors /\ read \in Cursors
      /\ Add(packet, 1) \in Cursors
  BY AddValue, SmallNumbers DEF IndInv, TypeOK
<1>3. /\ n \in Nat /\ n > 0 /\ Distance(packet, write) = n + 1
      /\ n <= MaxPacketSize
  <2>1. Distance(packet, write) \in 0..(W - 1) /\ Distance(packet, write) # 0
    BY <1>2, DistanceValue, DistanceZero
  <2> QED BY <1>2, <2>1, Widths
          DEF IndInv, ProducerInv, Unnotified, NotifyPublish
<1>4. /\ p.at = packet /\ Len(p.data) = n
      /\ p.data = Contents(Add(packet, 1), n)
  <2>1. n \in 0..W
    BY <1>2, UnnotifiedType DEF IndInv
  <2> QED BY <1>2, <2>1, ContentsType DEF IndInv
<1>5. EndOf(p) = write
  <2>1. Add(packet, n + 1) = write
    BY <1>2, <1>3, AddDistance
  <2> QED BY <1>4, <2>1 DEF EndOf
<1>6. /\ Distance(read, packet) \in Nat
      /\ Distance(read, packet) + (n + 1) <= Size
      /\ Distance(read, write) = Distance(read, packet) + (n + 1)
  BY <1>3, OpenBounds DEF Offset, size
<1>7. L \in Nat /\ queue \in Seq(Packets)
  BY DEF IndInv, TypeOK
<1>8. /\ Len(queue') = L + 1 /\ queue'[L + 1] = p
      /\ \A i \in 1..L : queue'[i] = queue[i]
  BY <1>1, <1>7
<1>9. CursorsOrdered'
  <2>1. Distance(write, write) = 0
    BY <1>2, DistanceZero
  <2>2. Distance(read, write) + Distance(write, write) <= Size
    BY <1>3, <1>6, <2>1, Widths
  <2> QED BY <1>1, <2>2 DEF CursorsOrdered
<1>10. PacketsAdjacent'
  <2>1. queue' # << >>
    BY <1>7, <1>8
  <2>2. queue'[1].at = read'
    <3>1. CASE queue = << >>
      BY <3>1, <1>1, <1>4, <1>8 DEF IndInv, PacketsAdjacent
    <3>2. CASE queue # << >>
      <4>1. 1 \in 1..L
        BY <3>2, <1>7
      <4> QED BY <3>2, <4>1, <1>1, <1>8 DEF IndInv, PacketsAdjacent
    <3> QED BY <3>1, <3>2
  <2>3. EndOf(queue'[Len(queue')]) = packet'
    BY <1>1, <1>5, <1>8
  <2>4. ASSUME NEW i \in 1..(Len(queue') - 1)
        PROVE  EndOf(queue'[i]) = queue'[i + 1].at
    <3>1. i \in 1..L /\ queue'[i] = queue[i]
      BY <1>7, <1>8
    <3>2. CASE i = L
      <4>1. queue # << >>
        BY <3>1, <1>7
      <4> QED BY <3>1, <3>2, <4>1, <1>4, <1>8 DEF IndInv, PacketsAdjacent
    <3>3. CASE i # L
      <4>1. i \in 1..(L - 1) /\ i + 1 \in 1..L
        BY <3>1, <3>3, <1>7
      <4> QED BY <3>1, <4>1, <1>8 DEF IndInv, PacketsAdjacent
    <3> QED BY <3>2, <3>3
  <2> QED BY <2>1, <2>2, <2>3, <2>4 DEF PacketsAdjacent, EndOf
<1>11. \A i \in 1..L :
          /\ Distance(read, queue[i].at) \in Nat /\ Len(queue[i].data) \in Nat
          /\ Distance(read, queue[i].at) + Len(queue[i].data) + 1
               <= Distance(read, packet)
  BY PacketBounds DEF Offset
<1>12. \A i \in 1..(L + 1) :
          Distance(read, queue'[i].at) + Len(queue'[i].data) + 1
            <= Distance(read, write)
  <2> TAKE i \in 1..(L + 1)
  <2>1. CASE i \in 1..L
    <3>1. queue'[i] = queue[i]
      BY <2>1, <1>8
    <3>2. /\ Distance(read, queue[i].at) \in Nat /\ Len(queue[i].data) \in Nat
          /\ Distance(read, queue[i].at) + Len(queue[i].data) + 1
               <= Distance(read, packet)
      BY <2>1, <1>11
    <3>3. n \in Nat
      BY <1>3
    <3>4. /\ Distance(read, packet) \in Nat
          /\ Distance(read, write) = Distance(read, packet) + (n + 1)
      BY <1>6
    <3> HIDE DEF n
    <3> QED BY <3>1, <3>2, <3>3, <3>4
  <2>2. CASE i = L + 1
    <3>1. queue'[i] = p
      BY <2>2, <1>8
    <3>2. p.at = packet /\ Len(p.data) = n
      BY <1>4
    <3>3. n \in Nat
      BY <1>3
    <3>4. /\ Distance(read, packet) \in Nat
          /\ Distance(read, write) = Distance(read, packet) + (n + 1)
      BY <1>6
    <3> HIDE DEF n, p
    <3> QED BY <3>1, <3>2, <3>3, <3>4
  <2> QED BY <2>1, <2>2, <1>7
<1>13. PacketsOrdered'
  <2>1. ASSUME NEW i \in 1..(L + 1), NEW j \in 1..(L + 1), i < j
        PROVE  Distance(read, queue'[i].at) + Len(queue'[i].data) + 1
                 <= Distance(read, queue'[j].at)
    <3>1. i \in 1..L /\ (j \in 1..L \/ j = L + 1)
      BY <2>1, <1>7
    <3>2. CASE j \in 1..L
      BY <2>1, <3>1, <3>2, <1>8 DEF IndInv, PacketsOrdered, After, Offset
    <3>3. CASE j = L + 1
      BY <3>1, <3>3, <1>4, <1>8, <1>11
    <3> QED BY <3>1, <3>2, <3>3
  <2> QED BY <2>1, <1>1, <1>8, <1>12 DEF PacketsOrdered, After, Offset
<1>14. PublishedIntact'
  <2>1. \A i \in 1..(L + 1) :
           /\ buf[Slot(queue'[i].at)] = Len(queue'[i].data)
           /\ Contents(Add(queue'[i].at, 1), Len(queue'[i].data))
                = queue'[i].data
    <3> TAKE i \in 1..(L + 1)
    <3>1. CASE i \in 1..L
      BY <3>1, <1>8 DEF IndInv, PublishedIntact
    <3>2. CASE i = L + 1
      <4>1. buf[Slot(packet)] = n
        BY DEF IndInv, ProducerInv, NotifyPublish
      <4> QED BY <3>2, <4>1, <1>4, <1>8
    <3> QED BY <3>1, <3>2, <1>7
  <2> QED BY <2>1, <1>1, <1>8 DEF PublishedIntact, Contents
<1>15. HeldFrameIsOldest' /\ ConsumerInv'
  <2>1. queue' # << >>
    BY <1>7, <1>8
  <2>2. queue # << >> => queue'[1] = queue[1]
    BY <1>7, <1>8
  <2>3. frame' = frame /\ consumer' = consumer /\ end' = end
    BY DEF NotifyPublish, consumerVars
  <2> QED BY <2>1, <2>2, <2>3, <1>1
          DEF IndInv, HeldFrameIsOldest, ConsumerInv, EndOf
<1>16. ProducerInv'
  <2>1. Unnotified(packet)' = 0
    <3>1. Distance(write, write) = 0
      BY <1>2, DistanceZero
    <3> QED BY <3>1, <1>1 DEF Unnotified
  <2> QED BY <2>1, <1>1, Widths DEF ProducerInv, NotifyPublish
<1> QED BY <1>9, <1>10, <1>13, <1>14, <1>15, <1>16 DEF IndInv

\* notify()'s last assignment keeps the invariant.
LEMMA NotifyPublishInv ==
    ASSUME IndInv, TypeOK', NotifyPublish
    PROVE  IndInv'
BY PublishNothingInv, PublishPacketInv

-----------------------------------------------------------------------------
(* The consumer's steps keep the inductive invariant *)

\* Giving the held packet back: every other packet is that much closer to
\* read, and none of the rest has moved.
LEMMA DropHeldFrame ==
    ASSUME IndInv, TypeOK', DropFrame, frame.held,
           UNCHANGED <<buf, producerVars>>
    PROVE  /\ CursorsOrdered' /\ PublishedIntact'
           /\ PacketsAdjacent' /\ PacketsOrdered'
           /\ ProducerInv'
<1> DEFINE p == queue[1]
           m == Len(p.data) + 1
           L == Len(queue)
<1>1. /\ queue # << >> /\ frame.end = EndOf(p)
      /\ read' = EndOf(p) /\ queue' = Tail(queue)
      /\ buf' = buf /\ packet' = packet /\ write' = write
      /\ notified' = notified /\ producer' = producer /\ dropped' = dropped
  BY DEF IndInv, HeldFrameIsOldest, DropFrame, producerVars
<1>2. L \in Nat /\ L >= 1 /\ queue \in Seq(Packets) /\ 1 \in 1..L
  BY <1>1 DEF IndInv, TypeOK
<1>3. /\ Len(queue') = L - 1
      /\ \A i \in 1..(L - 1) : queue'[i] = queue[i + 1]
  BY <1>1, <1>2
<1>4. read \in Cursors /\ packet \in Cursors /\ write \in Cursors
  BY DEF IndInv, TypeOK
<1>5. /\ p.at = read /\ m \in Nat /\ m >= 1
      /\ Distance(read, packet) \in Nat /\ m <= Distance(read, packet)
      /\ m \in 0..W
  <2>1. p.at = read
    BY <1>1 DEF IndInv, PacketsAdjacent
  <2>2. Distance(read, read) = 0
    BY <1>4, DistanceZero
  <2>3. /\ Len(p.data) \in Nat
        /\ Distance(read, p.at) + Len(p.data) + 1 <= Distance(read, packet)
    BY <1>2, PacketBounds DEF Offset
  <2>4. Distance(read, packet) \in 0..(W - 1)
    BY <1>4, DistanceValue
  <2> QED BY <2>1, <2>2, <2>3, <2>4, Widths
<1>6. read' = Add(read, m) /\ read' \in Cursors /\ Distance(read, read') = m
  <2>1. read' = Add(read, m)
    BY <1>1, <1>5 DEF EndOf
  <2>2. Distance(read, read) = 0
    BY <1>4, DistanceZero
  <2>3. 0 + m < W
    BY <1>4, <1>5, DistanceValue, Widths
  <2>4. Distance(read, Add(read, m)) = 0 + m
    BY <1>4, <1>5, <2>2, <2>3, DistanceAdd
  <2> QED BY <2>1, <2>4, <1>4, <1>5, AddValue
<1>7. \A c \in Cursors : m <= Distance(read, c) =>
         Distance(read', c) = Distance(read, c) - m
  BY <1>4, <1>6, DistanceBetween
<1>8. Distance(read', packet) = Distance(read, packet) - m
  BY <1>4, <1>5, <1>7
<1>9. \A i \in 1..(L - 1) :
         /\ queue'[i] = queue[i + 1] /\ i + 1 \in 1..L
         /\ queue[i + 1].at \in Cursors /\ Len(queue[i + 1].data) \in Nat
         /\ Distance(read, queue[i + 1].at) \in Nat
         /\ Distance(read', queue[i + 1].at)
              = Distance(read, queue[i + 1].at) - m
         /\ Distance(read, queue[i + 1].at) + Len(queue[i + 1].data) + 1
              <= Distance(read, packet)
  <2> TAKE i \in 1..(L - 1)
  <2>1. i + 1 \in 1..L /\ 1 < i + 1
    BY <1>2
  <2>2. /\ queue[i + 1].at \in Cursors /\ Len(queue[i + 1].data) \in Nat
        /\ Distance(read, queue[i + 1].at) \in Nat
        /\ Distance(read, queue[i + 1].at) + Len(queue[i + 1].data) + 1
              <= Distance(read, packet)
    BY <2>1, PacketBounds DEF Offset
  <2>3. Distance(read, p.at) + Len(p.data) + 1 <= Distance(read, queue[i + 1].at)
    BY <1>2, <2>1 DEF IndInv, PacketsOrdered, After, Offset
  <2>4. m <= Distance(read, queue[i + 1].at)
    <3>1. Distance(read, p.at) = 0
      BY <1>4, <1>5, DistanceZero
    <3> QED BY <2>3, <3>1, <2>2, <1>5
  <2> QED BY <1>3, <1>7, <2>1, <2>2, <2>4
<1>10. CursorsOrdered'
  <2>1. /\ Distance(packet, write) \in Nat
        /\ Distance(read, packet) + Distance(packet, write) <= Size
    BY OpenBounds DEF Offset
  <2>2. Distance(read', packet) + Distance(packet, write) <= Size
    BY <2>1, <1>5, <1>8, Widths
  <2> QED BY <2>2, <1>1 DEF IndInv, CursorsOrdered
<1>11. PacketsAdjacent'
  <2>1. CASE L = 1
    <3>1. queue' = << >>
      BY <2>1, <1>1, <1>2
    <3>2. read' = packet
      BY <2>1, <1>1 DEF IndInv, PacketsAdjacent
    <3>3. 1..(Len(queue') - 1) = {}
      BY <2>1, <1>3
    <3> QED BY <3>1, <3>2, <3>3, <1>1 DEF PacketsAdjacent
  <2>2. CASE L # 1
    <3>1. queue' # << >> /\ 1 \in 1..(L - 1) /\ L - 1 \in 1..(L - 1)
      BY <2>2, <1>2, <1>3
    <3>2. queue'[1].at = read'
      <4>1. queue'[1] = queue[2]
        BY <3>1, <1>3
      <4>2. EndOf(queue[1]) = queue[1 + 1].at
        BY <3>1 DEF IndInv, PacketsAdjacent
      <4> QED BY <4>1, <4>2, <1>1
    <3>3. EndOf(queue'[Len(queue')]) = packet'
      <4>1. queue'[L - 1] = queue[L]
        BY <3>1, <1>2, <1>3
      <4> QED BY <4>1, <1>1, <1>3 DEF IndInv, PacketsAdjacent
    <3>4. ASSUME NEW i \in 1..(Len(queue') - 1)
          PROVE  EndOf(queue'[i]) = queue'[i + 1].at
      <4>1. /\ i \in 1..(L - 1) /\ i + 1 \in 1..(L - 1)
            /\ queue'[i] = queue[i + 1] /\ queue'[i + 1] = queue[(i + 1) + 1]
        BY <1>2, <1>3
      <4> QED BY <4>1 DEF IndInv, PacketsAdjacent
    <3> QED BY <3>1, <3>2, <3>3, <3>4 DEF PacketsAdjacent, EndOf
  <2> QED BY <2>1, <2>2
<1>12. PacketsOrdered'
  <2>1. \A i \in 1..(L - 1) :
           Distance(read', queue'[i].at) + Len(queue'[i].data) + 1
             <= Distance(read', packet)
    <3> TAKE i \in 1..(L - 1)
    <3>1. /\ Distance(read, queue[i + 1].at) + Len(queue[i + 1].data) + 1
               <= Distance(read, packet)
          /\ Distance(read', queue[i + 1].at)
               = Distance(read, queue[i + 1].at) - m
          /\ Distance(read, queue[i + 1].at) \in Nat
          /\ Len(queue[i + 1].data) \in Nat
          /\ queue'[i] = queue[i + 1]
      BY <1>9
    <3> HIDE DEF m
    <3> QED BY <3>1, <1>5, <1>8, SMTT(30)
  <2>2. ASSUME NEW i \in 1..(L - 1), NEW j \in 1..(L - 1), i < j
        PROVE  Distance(read', queue'[i].at) + Len(queue'[i].data) + 1
                 <= Distance(read', queue'[j].at)
    <3>1. i + 1 \in 1..L /\ j + 1 \in 1..L /\ i + 1 < j + 1
      BY <2>2, <1>2
    <3>2. Distance(read, queue[i + 1].at) + Len(queue[i + 1].data) + 1
            <= Distance(read, queue[j + 1].at)
      BY <3>1 DEF IndInv, PacketsOrdered, After, Offset
    <3>3. /\ Distance(read, queue[i + 1].at) \in Nat
          /\ Distance(read', queue'[i].at)
               = Distance(read, queue[i + 1].at) - m
          /\ Len(queue'[i].data) \in Nat
          /\ Len(queue'[i].data) = Len(queue[i + 1].data)
      BY <1>9
    <3>4. /\ Distance(read, queue[j + 1].at) \in Nat
          /\ Distance(read', queue'[j].at)
               = Distance(read, queue[j + 1].at) - m
          /\ Len(queue'[j].data) \in Nat
          /\ Len(queue'[j].data) = Len(queue[j + 1].data)
      BY <1>9
    <3>5. m \in Nat
      BY <1>5
    <3> HIDE DEF m
    <3>6. Distance(read, queue[i + 1].at) - m + Len(queue'[i].data) + 1
            <= Distance(read, queue[j + 1].at) - m
      BY <3>2, <3>3, <3>4, <3>5, MoveBack
    <3> QED BY <3>3, <3>4, <3>6
  <2> QED BY <2>1, <2>2, <1>1, <1>3 DEF PacketsOrdered, After, Offset
<1>13. PublishedIntact'
  <2>1. \A i \in 1..(L - 1) :
           /\ buf[Slot(queue'[i].at)] = Len(queue'[i].data)
           /\ Contents(Add(queue'[i].at, 1), Len(queue'[i].data))
                = queue'[i].data
    BY <1>9 DEF IndInv, PublishedIntact
  <2> QED BY <2>1, <1>1, <1>3 DEF PublishedIntact, Contents
<1>14. ProducerInv'
  <2>1. Unnotified(packet)' = Unnotified(packet)
    BY <1>1 DEF Unnotified
  <2>2. Distance(packet, write) \in Nat
    BY OpenBounds
  <2>3. Room => Room'
    BY <1>1, <1>5, <1>8, <2>2, Widths DEF Room, Offset
  <2>4. Offset(packet) < Size => Offset(packet)' < Size
    BY <1>1, <1>5, <1>8, Widths DEF Offset
  <2> QED BY <2>1, <2>3, <2>4, <1>1 DEF IndInv, ProducerInv
<1> QED BY <1>10, <1>11, <1>12, <1>13, <1>14

\* Dropping the frame, whether or not one is held; none is held afterwards.
LEMMA DropFrameInv ==
    ASSUME IndInv, TypeOK', DropFrame, UNCHANGED <<buf, producerVars>>
    PROVE  /\ CursorsOrdered' /\ PublishedIntact'
           /\ PacketsAdjacent' /\ PacketsOrdered'
           /\ HeldFrameIsOldest' /\ ProducerInv'
           /\ ~frame'.held
<1>1. ~frame'.held
  BY DEF DropFrame, NoFrame
<1>2. HeldFrameIsOldest'
  BY <1>1 DEF HeldFrameIsOldest
<1>3. CASE frame.held
  BY <1>1, <1>2, <1>3, DropHeldFrame
<1>4. CASE ~frame.held
  <2>1. /\ read' = read /\ queue' = queue /\ buf' = buf
        /\ packet' = packet /\ write' = write /\ notified' = notified
        /\ producer' = producer /\ dropped' = dropped
    BY <1>4 DEF DropFrame, producerVars
  <2>2. PacketsAdjacent' /\ PacketsOrdered' /\ PublishedIntact'
    BY <2>1 DEF IndInv, PacketsAdjacent, PacketsOrdered, PublishedIntact,
                Contents, EndOf, After, Offset
  <2>3. CursorsOrdered'
    BY <2>1 DEF IndInv, CursorsOrdered
  <2>4. ProducerInv'
    BY <2>1 DEF IndInv, ProducerInv, Unnotified, Offset, Room
  <2> QED BY <1>1, <1>2, <2>2, <2>3, <2>4
<1> QED BY <1>3, <1>4

\* The consumer's other steps touch neither slots nor published packets.
LEMMA ConsumerKept ==
    ASSUME IndInv, UNCHANGED <<buf, producerVars, read, queue>>
    PROVE  /\ CursorsOrdered' /\ PublishedIntact'
           /\ PacketsAdjacent' /\ PacketsOrdered' /\ ProducerInv'
<1>1. PacketsAdjacent' /\ PacketsOrdered' /\ PublishedIntact'
  BY DEF IndInv, PacketsAdjacent, PacketsOrdered, PublishedIntact,
         Contents, EndOf, After, Offset, producerVars
<1>2. CursorsOrdered' /\ ProducerInv'
  BY DEF IndInv, CursorsOrdered, ProducerInv, Unnotified, Offset, Room,
         producerVars
<1> QED BY <1>1, <1>2

\* get_frame's look at dropped keeps the invariant.
LEMMA GetFrameTestInv ==
    ASSUME IndInv, TypeOK', GetFrameTest
    PROVE  IndInv'
<1>1. /\ CursorsOrdered' /\ PublishedIntact'
      /\ PacketsAdjacent' /\ PacketsOrdered' /\ ProducerInv'
  BY ConsumerKept DEF GetFrameTest
<1>2. HeldFrameIsOldest' /\ ConsumerInv'
  BY DEF IndInv, HeldFrameIsOldest, ConsumerInv, GetFrameTest, EndOf
<1> QED BY <1>1, <1>2 DEF IndInv

\* get_frame's copy of notified keeps the invariant: it is past a published
\* packet or one past read.
LEMMA GetFrameLoadInv ==
    ASSUME IndInv, TypeOK', GetFrameLoad
    PROVE  IndInv'
<1>1. /\ CursorsOrdered' /\ PublishedIntact'
      /\ PacketsAdjacent' /\ PacketsOrdered' /\ ProducerInv'
  BY ConsumerKept DEF GetFrameLoad
<1>2. HeldFrameIsOldest'
  BY DEF IndInv, HeldFrameIsOldest, GetFrameLoad, EndOf
<1>3. read # notified /\ queue = << >> => notified = Add(read, 1)
  BY DEF IndInv, CursorsOrdered, PacketsAdjacent
<1>4. ConsumerInv'
  BY <1>3 DEF IndInv, ConsumerInv, GetFrameLoad
<1> QED BY <1>1, <1>2, <1>4 DEF IndInv

\* The frame built from the length byte is the oldest packet, because that
\* byte is what the packet was published with.
LEMMA GetFrameSizeInv ==
    ASSUME IndInv, TypeOK', GetFrameSize
    PROVE  IndInv'
<1>1. /\ CursorsOrdered' /\ PublishedIntact'
      /\ PacketsAdjacent' /\ PacketsOrdered' /\ ProducerInv'
  BY ConsumerKept DEF GetFrameSize
<1>2. ConsumerInv'
  BY DEF ConsumerInv, GetFrameSize
<1>3. HeldFrameIsOldest'
  <2>1. CASE Add(read, 1) = end
    BY <2>1 DEF GetFrameSize, NoFrame, HeldFrameIsOldest
  <2>2. CASE Add(read, 1) # end
    <3>1. queue # << >> /\ queue[1].at = read
      BY <2>2 DEF IndInv, ConsumerInv, PacketsAdjacent, GetFrameSize
    <3>2. 1 \in 1..Len(queue) /\ queue \in Seq(Packets)
      BY <3>1 DEF IndInv, TypeOK
    <3>3. buf[Slot(read)] = Len(queue[1].data)
      BY <3>1, <3>2 DEF IndInv, PublishedIntact
    <3>4. /\ frame' = [held |-> TRUE, begin |-> Add(read, 1),
                       end |-> Add(Add(read, 1), Len(queue[1].data))]
          /\ queue' = queue
      BY <2>2, <3>3 DEF GetFrameSize
    <3>5. Add(Add(read, 1), Len(queue[1].data)) = EndOf(queue[1])
      <4>1. /\ Len(queue[1].data) \in Nat
            /\ Offset(queue[1].at) \in Nat
            /\ Offset(queue[1].at) + Len(queue[1].data) + 1 <= Offset(packet)
        BY <3>2, PacketBounds
      <4>2. Offset(packet) \in Nat /\ Offset(packet) <= Size
        BY OpenBounds, Widths
      <4>3. /\ Len(queue[1].data) \in 0..W /\ 1 + Len(queue[1].data) <= W
            /\ 1 + Len(queue[1].data) = Len(queue[1].data) + 1
        BY <4>1, <4>2, Widths
      <4>4. read \in Cursors
        BY DEF IndInv, TypeOK
      <4>5. Add(Add(read, 1), Len(queue[1].data))
              = Add(read, 1 + Len(queue[1].data))
        BY <4>3, <4>4, SmallNumbers, AddAdd
      <4> QED BY <3>1, <4>3, <4>5 DEF EndOf
    <3> QED BY <3>1, <3>4, <3>5 DEF HeldFrameIsOldest, EndOf
  <2> QED BY <2>1, <2>2
<1> QED BY <1>1, <1>2, <1>3 DEF IndInv

\* An empty buffer, wherever its cursors are, satisfies the invariant.
EmptyAtRest ==
    /\ TypeOK
    /\ read = packet /\ write = packet /\ notified = packet
    /\ queue = << >>
    /\ producer = "idle" /\ consumer = "idle" /\ ~frame.held

\* Nothing published, nothing open: the invariant holds of every such buffer.
LEMMA EmptyInv == EmptyAtRest => IndInv
<1> SUFFICES ASSUME EmptyAtRest PROVE IndInv
  OBVIOUS
<1> USE DEF EmptyAtRest
<1>1. packet \in Cursors /\ Distance(packet, packet) = 0
  BY DistanceZero DEF TypeOK
<1>2. CursorsOrdered
  BY <1>1, Widths DEF CursorsOrdered
<1>3. Len(queue) = 0 /\ 1..0 = {} /\ 1..(0 - 1) = {}
  OBVIOUS
<1>4. PacketsAdjacent /\ PacketsOrdered /\ PublishedIntact
  BY <1>3 DEF PacketsAdjacent, PacketsOrdered, PublishedIntact
<1>5. Unnotified(packet) = 0
  BY <1>1 DEF Unnotified
<1>6. ProducerInv
  BY <1>5, Widths DEF ProducerInv
<1>7. HeldFrameIsOldest /\ ConsumerInv
  BY DEF HeldFrameIsOldest, ConsumerInv
<1> QED BY <1>2, <1>4, <1>6, <1>7 DEF IndInv

\* reset() keeps the invariant.
LEMMA ResetInv ==
    ASSUME TypeOK', Reset
    PROVE  IndInv'
<1>1. EmptyAtRest'
  BY DEF Reset, EmptyAtRest
<1> QED BY <1>1, EmptyInv, PTL

-----------------------------------------------------------------------------
(* The invariant theorem *)

\* A new buffer satisfies the invariant.
LEMMA InitIndInv == Init => IndInv
<1> SUFFICES ASSUME Init PROVE IndInv
  OBVIOUS
<1>1. TypeOK
  BY InitTypeOK
<1>2. ~frame.held
  BY DEF Init, NoFrame
<1> QED BY <1>1, <1>2, EmptyInv DEF Init, EmptyAtRest

\* One step of either side keeps the inductive invariant, if the largest
\* packet's length fits a byte and notify() is not called with nothing to
\* notify while every slot is unread.
LEMMA IndInvStep ==
    ASSUME MaxPacketSize < ByteModulus, ~EmptyNotifyWhenFull,
           IndInv, [Next]_vars
    PROVE  IndInv'
<1>1. TypeOK'
  BY TypeStep DEF IndInv
<1>2. ASSUME NEW v \in Elements, PushCheck(v) PROVE IndInv'
  BY <1>1, <1>2, PushCheckInv
<1>3. CASE PushReserve
  BY <1>1, <1>3, PushReserveInv
<1>4. CASE PushStore
  BY <1>1, <1>4, PushStoreInv
<1>5. CASE ResetDropped
  BY <1>1, <1>5, ResetDroppedInv
<1>6. CASE Notify
  BY <1>1, <1>6, NotifyInv
<1>7. CASE NotifyBump
  BY <1>1, <1>7, NotifyBumpInv
<1>8. CASE NotifySize
  BY <1>1, <1>8, NotifySizeInv
<1>9. CASE NotifyPublish
  BY <1>1, <1>9, NotifyPublishInv
<1>10. CASE ResetFrame
  <2>1. /\ CursorsOrdered' /\ PublishedIntact'
        /\ PacketsAdjacent' /\ PacketsOrdered'
        /\ HeldFrameIsOldest' /\ ProducerInv'
    BY <1>1, <1>10, DropFrameInv DEF ResetFrame
  <2>2. ConsumerInv'
    BY <1>10 DEF ResetFrame, ConsumerInv
  <2> QED BY <1>1, <2>1, <2>2 DEF IndInv
<1>11. CASE GetFrame
  <2>1. /\ CursorsOrdered' /\ PublishedIntact'
        /\ PacketsAdjacent' /\ PacketsOrdered'
        /\ HeldFrameIsOldest' /\ ProducerInv' /\ ~frame'.held
    BY <1>1, <1>11, DropFrameInv DEF GetFrame
  <2>2. ConsumerInv'
    BY <1>11, <2>1 DEF GetFrame, ConsumerInv
  <2> QED BY <1>1, <2>1, <2>2 DEF IndInv
<1>12. CASE GetFrameTest
  BY <1>1, <1>12, GetFrameTestInv
<1>13. CASE GetFrameLoad
  BY <1>1, <1>13, GetFrameLoadInv
<1>14. CASE GetFrameSize
  BY <1>1, <1>14, GetFrameSizeInv
<1>15. CASE Reset
  BY <1>1, <1>15, ResetInv
<1>16. CASE UNCHANGED vars
  <2>1. /\ CursorsOrdered' /\ PublishedIntact'
        /\ PacketsAdjacent' /\ PacketsOrdered' /\ ProducerInv'
    BY <1>16, ConsumerKept DEF vars, consumerVars
  <2>2. HeldFrameIsOldest' /\ ConsumerInv'
    BY <1>16 DEF IndInv, HeldFrameIsOldest, ConsumerInv, EndOf,
                 vars, consumerVars
  <2> QED BY <1>1, <2>1, <2>2 DEF IndInv
<1> QED
  BY <1>2, <1>3, <1>4, <1>5, <1>6, <1>7, <1>8, <1>9, <1>10, <1>11, <1>12,
     <1>13, <1>14, <1>15, <1>16 DEF Next, Produce, Consume

\* In every reachable state of a buffer whose lengths fit a byte and whose
\* callers never close an empty packet on a full buffer: the cursors are in
\* order, the published packets are adjacent and intact, and a frame the
\* consumer holds is exactly the oldest packet.
THEOREM BufferCorrect ==
    ASSUME MaxPacketSize < ByteModulus, ~EmptyNotifyWhenFull
    PROVE  Spec => []IndInv
<1>1. IndInv /\ [Next]_vars => IndInv'
  BY IndInvStep
<1> QED BY <1>1, InitIndInv, PTL DEF Spec

\* Of it, what push_back's two checks and ~Frame's update of the read cursor
\* rest on (lines 93-98, 233): read, packet and write keep their order and
\* never span more than the buffer, however often each has wrapped.
THEOREM CursorsNeverCross ==
    ASSUME MaxPacketSize < ByteModulus, ~EmptyNotifyWhenFull
    PROVE  Spec => []CursorsOrdered
<1>1. IndInv => CursorsOrdered
  BY DEF IndInv
<1> QED BY <1>1, BufferCorrect, PTL

\* No push_back or notify() touches a packet that has not been given back.
THEOREM PacketsSafe ==
    ASSUME MaxPacketSize < ByteModulus, ~EmptyNotifyWhenFull
    PROVE  Spec => []PublishedIntact
<1>1. IndInv => PublishedIntact
  BY DEF IndInv
<1> QED BY <1>1, BufferCorrect, PTL

\* What get_frame hands out (lines 247-288) is the oldest published packet,
\* from its first element to its last, for as long as the consumer holds it.
THEOREM FrameIsOldest ==
    ASSUME MaxPacketSize < ByteModulus, ~EmptyNotifyWhenFull
    PROVE  Spec => []HeldFrameIsOldest
<1>1. IndInv => HeldFrameIsOldest
  BY DEF IndInv
<1> QED BY <1>1, BufferCorrect, PTL

-----------------------------------------------------------------------------
(* The FIFO of whole packets: CircularBuffer implements FrameQueue for     *)
(* every size.  Each access of push_back, reset_dropped, notify, get_frame *)
(* and ~Frame is a step of the FIFO, or changes nothing of it.             *)

\* The FIFO's variables as the buffer's state gives them.
AQueue == [i \in 1..Len(queue) |-> queue[i].data]
AOpen == Contents(Add(packet, 1), Unnotified(packet))
ATaken ==
    IF frame.held
    THEN <<Contents(frame.begin, Distance(frame.begin, frame.end))>>
    ELSE << >>
AUsed == Distance(read, packet)
ASlots == IF AOpen = << >> THEN 0 ELSE Len(AOpen) + 1
AFull ==
    \/ Len(AOpen) >= MaxPacketSize
    \/ AUsed + ASlots >= Size
    \/ AOpen = << >> /\ AUsed + 1 >= Size

\* What the buffer's step is in the FIFO.
AStep == [Abstract!Next]_(Abstract!vars)

-----------------------------------------------------------------------------
(* The FIFO's steps, in those terms *)

\* Nothing of the FIFO changes.
LEMMA StutterStep ==
    ASSUME AQueue' = AQueue, AOpen' = AOpen, dropped' = dropped,
           ATaken' = ATaken, AUsed' = AUsed
    PROVE  AStep
BY DEF AStep, Abstract!vars, AQueue, AOpen, ATaken, AUsed

\* An element joins the open packet.
LEMMA AcceptStep ==
    ASSUME NEW v \in Elements, ~dropped, ~AFull,
           AOpen' = Append(AOpen, v), AQueue' = AQueue, dropped' = dropped,
           ATaken' = ATaken, AUsed' = AUsed
    PROVE  AStep
<1>1. Abstract!Accept(v)
  BY DEF Abstract!Accept, Abstract!Full, Abstract!OpenSlots, AFull, ASlots,
         AQueue, AOpen, ATaken, AUsed
<1> QED BY <1>1 DEF AStep, Abstract!Next

\* An element is refused.
LEMMA RefuseStep ==
    ASSUME ~dropped, AFull, dropped' = TRUE,
           AOpen' = AOpen, AQueue' = AQueue, ATaken' = ATaken, AUsed' = AUsed
    PROVE  AStep
<1>1. Abstract!Refuse
  BY DEF Abstract!Refuse, Abstract!Full, Abstract!OpenSlots, AFull, ASlots,
         AQueue, AOpen, ATaken, AUsed
<1> QED BY <1>1 DEF AStep, Abstract!Next

\* The open packet joins the queue.
LEMMA PublishStep ==
    ASSUME ~dropped, AOpen # << >>, AQueue' = Append(AQueue, AOpen),
           AOpen' = << >>, AUsed' = AUsed + Len(AOpen) + 1,
           dropped' = dropped, ATaken' = ATaken
    PROVE  AStep
<1>1. Abstract!Publish
  BY DEF Abstract!Publish, AQueue, AOpen, ATaken, AUsed
<1> QED BY <1>1 DEF AStep, Abstract!Next

\* The open packet is lost.
LEMMA DiscardStep ==
    ASSUME dropped, dropped' = FALSE, AOpen' = << >>,
           AQueue' = AQueue, ATaken' = ATaken, AUsed' = AUsed
    PROVE  AStep
<1>1. Abstract!Discard
  BY DEF Abstract!Discard, AQueue, AOpen, ATaken, AUsed
<1> QED BY <1>1 DEF AStep, Abstract!Next

\* The consumer takes the oldest packet.
LEMMA TakeStep ==
    ASSUME ATaken = << >>, AQueue # << >>, ATaken' = <<Head(AQueue)>>,
           AQueue' = AQueue, AOpen' = AOpen, dropped' = dropped, AUsed' = AUsed
    PROVE  AStep
<1>1. Abstract!Take
  BY DEF Abstract!Take, AQueue, AOpen, ATaken, AUsed
<1> QED BY <1>1 DEF AStep, Abstract!Next

\* The consumer gives its packet back.
LEMMA GiveBackStep ==
    ASSUME ATaken # << >>, AQueue' = Tail(AQueue), ATaken' = << >>,
           AUsed' = AUsed - (Len(ATaken[1]) + 1),
           AOpen' = AOpen, dropped' = dropped
    PROVE  AStep
<1>1. Abstract!GiveBack
  BY DEF Abstract!GiveBack, AQueue, AOpen, ATaken, AUsed
<1> QED BY <1>1 DEF AStep, Abstract!Next

\* Both sides at rest, the buffer is emptied.
LEMMA ClearStep ==
    ASSUME ATaken = << >>, AQueue' = << >>, AOpen' = << >>, dropped' = FALSE,
           AUsed' = 0, ATaken' = ATaken
    PROVE  AStep
<1>1. Abstract!Clear
  BY DEF Abstract!Clear, AQueue, AOpen, ATaken, AUsed
<1> QED BY <1>1 DEF AStep, Abstract!Next

-----------------------------------------------------------------------------
(* What the invariant says of the FIFO's variables *)

\* The open packet: its length, and its elements slot by slot.
LEMMA OpenIs ==
    ASSUME IndInv
    PROVE  /\ AOpen \in Seq(Bytes) /\ Len(AOpen) = Unnotified(packet)
           /\ Unnotified(packet) \in Nat
           /\ AOpen = << >> <=> Unnotified(packet) = 0
           /\ DOMAIN AOpen = 1..Unnotified(packet)
           /\ Unnotified(packet)
                = IF packet = write THEN 0 ELSE Distance(packet, write) - 1
<1>1. packet \in Cursors /\ write \in Cursors /\ Add(packet, 1) \in Cursors
  BY AddValue, SmallNumbers DEF IndInv, TypeOK
<1>2. /\ Unnotified(packet) \in 0..W
      /\ Unnotified(packet)
           = IF packet = write THEN 0 ELSE Distance(packet, write) - 1
  BY <1>1, UnnotifiedType DEF IndInv
<1>3. AOpen \in Seq(Bytes) /\ Len(AOpen) = Unnotified(packet)
  BY <1>1, <1>2, ContentsType DEF IndInv, AOpen
<1>4. DOMAIN AOpen = 1..Unnotified(packet)
  BY DEF AOpen, Contents
<1>5. Unnotified(packet) \in Nat
  BY <1>2, Widths
<1>6. AOpen = << >> <=> Unnotified(packet) = 0
  BY <1>3, <1>5
<1> QED BY <1>2, <1>3, <1>4, <1>5, <1>6

\* The packet the consumer holds is the oldest one.
TakenIsOldest == ATaken = IF frame.held THEN <<queue[1].data>> ELSE << >>
\* A held frame, read out of the slots, is the oldest published packet.
LEMMA TakenIs == IndInv => TakenIsOldest
<1> SUFFICES ASSUME IndInv, frame.held
             PROVE  Contents(frame.begin, Distance(frame.begin, frame.end))
                      = queue[1].data
  BY DEF TakenIsOldest, ATaken
<1> DEFINE p == queue[1]
           n == Len(p.data)
<1>1. /\ queue # << >> /\ frame.begin = Add(p.at, 1) /\ frame.end = EndOf(p)
  BY DEF IndInv, HeldFrameIsOldest
<1>2. 1 \in 1..Len(queue)
  <2>1. queue \in Seq(Packets)
    BY DEF IndInv, TypeOK
  <2> QED BY <1>1, <2>1
<1>3. /\ p.at \in Cursors /\ n \in Nat
      /\ Offset(p.at) \in Nat /\ Offset(p.at) + n + 1 <= Offset(packet)
  BY <1>2, PacketBounds
<1>4. n + 1 <= Size /\ n \in 0..W /\ 1 + n <= W /\ 1 + n = n + 1 /\ n < W
  BY <1>3, OpenBounds, Widths, SMTT(30)
<1>5. Add(p.at, 1) \in Cursors /\ Add(Add(p.at, 1), n) = EndOf(p)
  BY <1>3, <1>4, SmallNumbers, AddValue, AddAdd DEF EndOf
<1>6. Distance(Add(p.at, 1), EndOf(p)) = n
  <2>1. Distance(Add(p.at, 1), Add(p.at, 1)) = 0
    BY <1>5, DistanceZero
  <2>2. Distance(Add(p.at, 1), Add(Add(p.at, 1), n)) = 0 + n
    BY <1>4, <1>5, <2>1, DistanceAdd
  <2> QED BY <1>3, <1>5, <2>2
<1>7. Contents(Add(p.at, 1), n) = p.data
  BY <1>2 DEF IndInv, PublishedIntact
<1> QED BY <1>1, <1>6, <1>7

\* The same of the next state.
LEMMA TakenIsNext == IndInv' => TakenIsOldest'
BY TakenIs, PTL

\* The queue, packet by packet.
LEMMA QueueIs ==
    ASSUME IndInv
    PROVE  /\ queue \in Seq(Packets) /\ Len(queue) \in Nat
           /\ AQueue \in Seq(Seq(Bytes)) /\ Len(AQueue) = Len(queue)
           /\ \A i \in 1..Len(queue) : AQueue[i] = queue[i].data
<1>1. queue \in Seq(Packets)
  BY DEF IndInv, TypeOK
<1>2. \A i \in 1..Len(queue) : queue[i].data \in Seq(Bytes)
  BY PacketBounds
<1> QED BY <1>1, <1>2 DEF AQueue

\* The n-th element of the open packet lies n after its start.
LEMMA OpenCursor ==
    ASSUME IndInv, NEW i \in 1..Size
    PROVE  /\ Add(Add(packet, 1), i - 1) = Add(packet, i)
           /\ Add(packet, i) \in Cursors
           /\ Distance(packet, Add(packet, i)) = i
<1>1. packet \in Cursors
  BY DEF IndInv, TypeOK
<1>2. i - 1 \in 0..W /\ i \in 0..W /\ 1 + (i - 1) <= W /\ 1 + (i - 1) = i /\ i < W
  BY Widths
<1>3. Add(Add(packet, 1), i - 1) = Add(packet, 1 + (i - 1))
  BY <1>1, <1>2, SmallNumbers, AddAdd
<1>4. Distance(packet, packet) = 0
  BY <1>1, DistanceZero
<1>5. Distance(packet, Add(packet, i)) = 0 + i
  BY <1>1, <1>2, <1>4, DistanceAdd
<1>6. Add(packet, i) \in Cursors
  BY <1>1, <1>2, AddValue
<1> QED BY <1>2, <1>3, <1>5, <1>6

-----------------------------------------------------------------------------
(* The producer *)

\* The value a push_back is storing is one the producer may push.
ValueInv == producer \in {"reserve", "store"} => value \in Elements

\* A call of push_back stores the value it was called with.
LEMMA ValueStep ==
    ASSUME ValueInv, [Next]_vars PROVE ValueInv'
<1>1. ASSUME NEW v \in Elements, PushCheck(v) PROVE ValueInv'
  BY <1>1 DEF ValueInv, PushCheck
<1>2. CASE PushReserve
  BY <1>2 DEF ValueInv, PushReserve
<1>3. CASE PushStore \/ Notify \/ NotifyBump \/ NotifySize \/ NotifyPublish
  BY <1>3 DEF ValueInv, PushStore, Notify, NotifyBump, NotifySize, NotifyPublish
<1>4. CASE ResetDropped \/ Reset
  BY <1>4 DEF ValueInv, ResetDropped, Reset
<1>5. CASE ResetFrame \/ GetFrame \/ GetFrameTest \/ GetFrameLoad \/ GetFrameSize
  BY <1>5 DEF ValueInv, ResetFrame, GetFrame, GetFrameTest, GetFrameLoad,
              GetFrameSize, producerVars
<1>6. CASE UNCHANGED vars
  BY <1>6 DEF ValueInv, vars, producerVars
<1> QED BY <1>1, <1>2, <1>3, <1>4, <1>5, <1>6 DEF Next, Produce, Consume

\* push_back refuses exactly what the FIFO may refuse.
LEMMA OverfullIsFull ==
    ASSUME IndInv, Overfull, producer = "idle", ~dropped PROVE AFull
<1>1. /\ Len(AOpen) = Unnotified(packet) /\ Unnotified(packet) \in Nat
      /\ AOpen = << >> <=> Unnotified(packet) = 0
      /\ Unnotified(packet)
           = IF packet = write THEN 0 ELSE Distance(packet, write) - 1
  BY OpenIs
<1>2. /\ size = AUsed + Distance(packet, write)
      /\ AUsed \in Nat /\ Distance(packet, write) \in Nat
  BY OpenBounds DEF AUsed, Offset
<1>3. packet # write => Unnotified(packet) > 0
  BY DEF IndInv, ProducerInv
<1>4. packet = write => Distance(packet, write) = 0
  BY DistanceZero DEF IndInv, TypeOK
<1>5. ASlots = Distance(packet, write)
  BY <1>1, <1>2, <1>3, <1>4 DEF ASlots
<1> QED BY <1>1, <1>2, <1>5, Widths DEF Overfull, AFull

\* push_back's first check refuses the element or shows nothing.
LEMMA PushCheckMaps ==
    ASSUME IndInv, NEW v \in Elements, PushCheck(v) PROVE AStep
<1>1. /\ AQueue' = AQueue /\ AOpen' = AOpen
      /\ ATaken' = ATaken /\ AUsed' = AUsed
  BY DEF PushCheck, consumerVars, AQueue, AOpen, ATaken, AUsed, Contents,
         Unnotified
<1>2. CASE dropped' = dropped
  BY <1>1, <1>2, StutterStep
<1>3. CASE dropped' # dropped
  <2>1. ~dropped /\ Overfull /\ dropped' = TRUE /\ producer = "idle"
    BY <1>3 DEF PushCheck, IndInv, TypeOK
  <2> QED BY <1>1, <2>1, OverfullIsFull, RefuseStep
<1> QED BY <1>2, <1>3

\* Keeping the length's slot, the packet is still empty; the second check may
\* refuse its first element.
LEMMA PushReserveMaps ==
    ASSUME IndInv, IndInv', PushReserve PROVE AStep
<1>1. /\ packet' = packet /\ read' = read /\ buf' = buf /\ queue' = queue
      /\ frame' = frame /\ notified = packet /\ producer = "reserve"
  BY DEF PushReserve, consumerVars, IndInv, CursorsOrdered
<1>2. AQueue' = AQueue /\ ATaken' = ATaken /\ AUsed' = AUsed
  BY <1>1 DEF AQueue, ATaken, AUsed, Contents
<1>3. packet \in Cursors /\ write \in Cursors
  BY DEF IndInv, TypeOK
<1>4. /\ AUsed \in Nat /\ Distance(packet, write) \in Nat
      /\ size = AUsed + Distance(packet, write)
  BY OpenBounds DEF AUsed, Offset
<1>5. CASE ~dropped /\ write = packet
  <2>1. write' = Add(packet, 1)
    BY <1>1, <1>5 DEF PushReserve
  <2>2. Distance(packet, packet) = 0 /\ Distance(packet, Add(packet, 1)) = 1
    <3>1. 1 \in 1..Size
      BY Widths
    <3> QED BY <1>3, <3>1, OpenCursor, DistanceZero
  <2>3. Unnotified(packet) = 0 /\ Unnotified(packet)' = 0
    BY <1>1, <1>5, <2>1, <2>2 DEF Unnotified
  <2>4. AOpen' = AOpen
    BY <1>1, <2>3 DEF AOpen, Contents
  <2>5. CASE dropped'
    <3>1. Overfull'
      BY <1>5, <2>5 DEF PushReserve
    <3>2. size' = AUsed + 1
      <4>1. AUsed + 1 < W
        BY <1>4, <1>5, OpenBounds, Widths DEF IndInv, ProducerInv, Room, AUsed,
           Offset, PushReserve
      <4>2. read \in Cursors
        BY DEF IndInv, TypeOK
      <4>3. Distance(read, Add(packet, 1)) = Distance(read, packet) + 1
        BY <1>3, <4>1, <4>2, DistanceAdd, SmallNumbers DEF AUsed
      <4> QED BY <1>1, <2>1, <4>3 DEF size, AUsed
    <3>3. AUsed + 1 >= Size
      BY <2>3, <3>1, <3>2, Widths DEF Overfull
    <3>4. AOpen = << >>
      BY <2>3, OpenIs
    <3>5. AFull
      BY <3>3, <3>4 DEF AFull
    <3>6. dropped' = TRUE
      BY <2>5 DEF IndInv, TypeOK
    <3> QED BY <1>2, <1>5, <2>4, <3>5, <3>6, RefuseStep
  <2>6. CASE ~dropped'
    <3>1. dropped' = dropped
      BY <1>5, <2>6 DEF IndInv, TypeOK
    <3> QED BY <1>2, <2>4, <3>1, StutterStep
  <2> QED BY <2>5, <2>6
<1>6. CASE dropped \/ write # packet
  <2>1. write' = write
    BY <1>1, <1>6 DEF PushReserve
  <2>2. AOpen' = AOpen /\ size' = size /\ Unnotified(packet)' = Unnotified(packet)
    BY <1>1, <2>1 DEF AOpen, Contents, Unnotified, size
  <2>3. dropped' = dropped
    <3>1. ~dropped => ~Overfull
      <4>1. ~dropped => Room /\ Unnotified(packet) < MaxPacketSize
        BY <1>1 DEF IndInv, ProducerInv
      <4>2. Unnotified(packet) \in Nat
        BY OpenIs
      <4> QED BY <1>4, <4>1, <4>2, Widths DEF Overfull, Room, AUsed, Offset
    <3>2. Overfull' = Overfull
      BY <2>2 DEF Overfull
    <3> QED BY <3>1, <3>2 DEF PushReserve, IndInv, TypeOK
  <2> QED BY <1>2, <2>2, <2>3, StutterStep
<1> QED BY <1>5, <1>6

\* Appending, element by element.
LEMMA AppendIs ==
    ASSUME NEW S, NEW s \in Seq(S), NEW e \in S, NEW t,
           t = [i \in 1..(Len(s) + 1) |-> IF i = Len(s) + 1 THEN e ELSE s[i]]
    PROVE  t = Append(s, e)
<1>1. Len(s) \in Nat /\ Len(s) + 1 \in Nat
  OBVIOUS
<1>2. \A i \in 1..(Len(s) + 1) :
         /\ t[i] = IF i = Len(s) + 1 THEN e ELSE s[i]
         /\ t[i] \in S
  BY <1>1
<1>3. t \in Seq(S) /\ Len(t) = Len(s) + 1
  BY <1>1, <1>2
<1>4. /\ Append(s, e) \in Seq(S) /\ Len(Append(s, e)) = Len(s) + 1
      /\ \A i \in 1..(Len(s) + 1) :
            Append(s, e)[i] = IF i = Len(s) + 1 THEN e ELSE s[i]
  BY <1>1
<1>5. \A i \in 1..Len(t) : t[i] = Append(s, e)[i]
  BY <1>2, <1>3, <1>4
<1> QED BY <1>3, <1>4, <1>5, SeqEqual

\* A step that leaves frame and queue alone shows the consumer nothing new.
LEMMA ConsumerSideKept ==
    ASSUME IndInv, IndInv', frame' = frame, queue' = queue
    PROVE  ATaken' = ATaken /\ AQueue' = AQueue
BY TakenIs, TakenIsNext DEF TakenIsOldest, AQueue

\* The open packet goes through its slots: a step that changes none of them,
\* nor its two ends, leaves it as it is.
LEMMA OpenKept ==
    ASSUME UNCHANGED <<buf, packet, write>>
    PROVE  AOpen' = AOpen
BY DEF AOpen, Contents, Unnotified

\* push_back's store adds its value to the open packet, at the end.
LEMMA PushStoreMaps ==
    ASSUME IndInv, IndInv', ValueInv, PushStore PROVE AStep
<1> DEFINE n == Unnotified(packet)
<1>1. /\ packet' = packet /\ read' = read /\ frame' = frame /\ queue' = queue
      /\ dropped' = dropped /\ producer = "store"
  BY DEF PushStore, consumerVars
<1>2. ATaken' = ATaken /\ AQueue' = AQueue /\ AUsed' = AUsed
  BY <1>1, ConsumerSideKept DEF AUsed
<1>3. CASE dropped
  <2>1. AOpen' = AOpen
    BY <1>1, <1>3, OpenKept DEF PushStore
  <2> QED BY <1>1, <1>2, <2>1, StutterStep
<1>4. CASE ~dropped
  <2>1. write' = Add(write, 1) /\ buf' = [buf EXCEPT ![Slot(write)] = value]
    BY <1>4 DEF PushStore
  <2>2. packet \in Cursors /\ write \in Cursors /\ buf \in [Slots -> Bytes]
    BY DEF IndInv, TypeOK
  <2>3. /\ AUsed \in Nat /\ Distance(packet, write) \in Nat
        /\ AUsed + Distance(packet, write) < Size
        /\ write # packet /\ n < MaxPacketSize
    BY <1>1, <1>4, OpenBounds DEF IndInv, ProducerInv, Room, AUsed, Offset
  <2>4. /\ n \in Nat /\ Distance(packet, write) = n + 1
        /\ AOpen \in Seq(Bytes) /\ Len(AOpen) = n /\ (AOpen = << >> <=> n = 0)
        /\ DOMAIN AOpen = 1..n
    <3>1. /\ n \in Nat /\ n = Distance(packet, write) - 1
          /\ AOpen \in Seq(Bytes) /\ Len(AOpen) = n /\ (AOpen = << >> <=> n = 0)
          /\ DOMAIN AOpen = 1..n
      BY <2>3, OpenIs
    <3> QED BY <2>3, <3>1
  <2>5. n + 1 < Size /\ n + 1 \in 1..Size
    BY <2>3, <2>4, Widths
  <2>6. Unnotified(packet)' = n + 1
    <3>1. Distance(packet, Add(write, 1)) = Distance(packet, write) + 1
      BY <2>2, <2>4, <2>5, DistanceAdd, SmallNumbers, Widths
    <3> QED BY <1>1, <2>1, <2>4, <3>1 DEF Unnotified
  <2>7. ~AFull
    <3> HIDE DEF n
    <3> QED BY <2>3, <2>4, <2>5, Widths DEF AFull, ASlots
  <2>8. Add(Add(packet, 1), (n + 1) - 1) = write
    <3>1. Add(Add(packet, 1), (n + 1) - 1) = Add(packet, n + 1)
      BY <2>5, OpenCursor
    <3> QED BY <2>2, <2>4, <3>1, AddDistance
  <2>9. buf'[Slot(write)] = value
    BY <2>1, <2>2, SlotType
  <2>10. ASSUME NEW i \in 1..n
         PROVE  buf'[Slot(Add(Add(packet, 1), i - 1))] = AOpen[i]
    <3>1. i \in 1..Size
      <4> HIDE DEF n
      <4> QED BY <2>4, <2>5, Widths
    <3>2. /\ Add(Add(packet, 1), i - 1) \in Cursors
          /\ Distance(packet, Add(Add(packet, 1), i - 1)) = i
      BY <3>1, OpenCursor
    <3>3. Slot(Add(Add(packet, 1), i - 1)) # Slot(write)
      BY <2>2, <2>4, <2>5, <3>2, OffsetsApart
    <3>4. buf'[Slot(Add(Add(packet, 1), i - 1))]
            = buf[Slot(Add(Add(packet, 1), i - 1))]
      BY <2>1, <2>2, <3>2, <3>3, SlotType
    <3> QED BY <3>4 DEF AOpen, Contents
  <2>11. AOpen' = [i \in 1..(n + 1) |-> IF i = n + 1 THEN value ELSE AOpen[i]]
    <3>1. AOpen' = [i \in 1..(n + 1) |-> buf'[Slot(Add(Add(packet, 1), i - 1))]]
      BY <1>1, <2>6 DEF AOpen, Contents
    <3>2. \A i \in 1..(n + 1) : i # n + 1 => i \in 1..n
      BY <2>4
    <3> QED BY <2>8, <2>9, <2>10, <3>1, <3>2
  <2>12. AOpen' = Append(AOpen, value)
    <3>1. value \in Bytes
      BY DEF IndInv, TypeOK
    <3> HIDE DEF n
    <3>2. AOpen \in Seq(Bytes) /\ n = Len(AOpen)
      BY <2>4
    <3>3. AOpen' = [i \in 1..(Len(AOpen) + 1) |->
                        IF i = Len(AOpen) + 1 THEN value ELSE AOpen[i]]
      BY <2>11, <3>2, Zenon
    <3> HIDE DEF AOpen
    <3> QED BY <3>1, <3>2, <3>3, AppendIs
  <2>13. value \in Elements
    BY <1>1 DEF ValueInv
  <2> QED BY <1>1, <1>2, <1>4, <2>7, <2>12, <2>13, AcceptStep
<1> QED BY <1>3, <1>4

\* reset_dropped(), alone or at the start of notify(), loses the open packet
\* or nothing.
LEMMA DropPacketMaps ==
    ASSUME IndInv, IndInv', producer = "idle", DropPacket,
           UNCHANGED <<buf, packet, consumerVars, queue>>
    PROVE  AStep
<1>1. packet' = packet /\ read' = read /\ frame' = frame /\ notified = packet
  BY DEF consumerVars, IndInv, CursorsOrdered
<1>2. ATaken' = ATaken /\ AQueue' = AQueue /\ AUsed' = AUsed
  BY <1>1, ConsumerSideKept DEF AUsed
<1>3. CASE dropped
  <2>1. write' = packet /\ dropped' = FALSE
    BY <1>1, <1>3 DEF DropPacket
  <2>2. Unnotified(packet)' = 0
    <3>1. Distance(packet, packet) = 0
      BY DistanceZero DEF IndInv, TypeOK
    <3> QED BY <1>1, <2>1, <3>1 DEF Unnotified
  <2>3. AOpen' = << >>
    BY <2>2 DEF AOpen, Contents
  <2> QED BY <1>2, <1>3, <2>1, <2>3, DiscardStep
<1>4. CASE ~dropped
  <2>1. write' = write /\ dropped' = dropped
    BY <1>4 DEF DropPacket, IndInv, TypeOK
  <2>2. AOpen' = AOpen
    BY <2>1, OpenKept
  <2> QED BY <1>2, <2>1, <2>2, StutterStep
<1> QED BY <1>3, <1>4

\* The half-done increment of notified shows nothing.
LEMMA NotifyBumpMaps ==
    ASSUME IndInv, IndInv', NotifyBump PROVE AStep
<1>1. /\ buf' = buf /\ packet' = packet /\ write' = write /\ read' = read
      /\ frame' = frame /\ queue' = queue /\ dropped' = dropped
  BY DEF NotifyBump, consumerVars
<1>2. ATaken' = ATaken /\ AQueue' = AQueue /\ AUsed' = AUsed
  BY <1>1, ConsumerSideKept DEF AUsed
<1> QED BY <1>1, <1>2, OpenKept, StutterStep

\* The length goes into the slot kept for it, before the first element.
LEMMA NotifySizeMaps ==
    ASSUME IndInv, IndInv', NotifySize PROVE AStep
<1> DEFINE n == Unnotified(packet)
<1>1. /\ packet' = packet /\ write' = write /\ read' = read
      /\ frame' = frame /\ queue' = queue /\ dropped' = dropped
  BY DEF NotifySize, consumerVars
<1>2. ATaken' = ATaken /\ AQueue' = AQueue /\ AUsed' = AUsed
  BY <1>1, ConsumerSideKept DEF AUsed
<1>3. packet \in Cursors /\ buf \in [Slots -> Bytes] /\ Distance(packet, packet) = 0
  BY DistanceZero DEF IndInv, TypeOK
<1>4. n \in Nat /\ (n = 0 \/ n + 1 <= Size)
  <2>1. n \in Nat /\ (n = 0 \/ n = Distance(packet, write) - 1)
    BY OpenIs
  <2>2. Distance(packet, write) \in Nat /\ Distance(packet, write) <= Size
    BY OpenBounds, Widths
  <2> QED BY <2>1, <2>2
<1>5. ASSUME NEW i \in 1..n
      PROVE  buf'[Slot(Add(Add(packet, 1), i - 1))]
               = buf[Slot(Add(Add(packet, 1), i - 1))]
  <2>1. i \in 1..Size /\ i > 0 /\ i < Size
    BY <1>4, Widths
  <2>2. /\ Add(Add(packet, 1), i - 1) \in Cursors
        /\ Distance(packet, Add(Add(packet, 1), i - 1)) = i
    BY <2>1, OpenCursor
  <2>3. Slot(packet) # Slot(Add(Add(packet, 1), i - 1))
    BY <1>3, <2>1, <2>2, SlotDistinct
  <2> QED BY <1>3, <2>2, <2>3, SlotType DEF NotifySize
<1>6. AOpen' = AOpen
  <2>1. Unnotified(packet)' = n
    BY <1>1 DEF Unnotified
  <2>2. AOpen' = [i \in 1..n |-> buf'[Slot(Add(Add(packet, 1), i - 1))]]
    BY <1>1, <2>1 DEF AOpen, Contents
  <2> QED BY <1>5, <2>2 DEF AOpen, Contents
<1> QED BY <1>1, <1>2, <1>6, StutterStep

\* notify()'s last assignment publishes the open packet, if there is one.
LEMMA NotifyPublishMaps ==
    ASSUME IndInv, IndInv', NotifyPublish PROVE AStep
<1> DEFINE n == Unnotified(packet)
           p == [at |-> packet, data |-> AOpen]
<1>1. /\ buf' = buf /\ packet' = write /\ write' = write /\ read' = read
      /\ frame' = frame /\ dropped' = dropped /\ producer = "publish"
  BY DEF NotifyPublish, consumerVars
<1>2. CASE write = packet
  <2>1. packet' = packet /\ queue' = queue
    BY <1>1, <1>2 DEF NotifyPublish
  <2>2. ATaken' = ATaken /\ AQueue' = AQueue /\ AUsed' = AUsed
    BY <1>1, <2>1, ConsumerSideKept DEF AUsed
  <2> QED BY <1>1, <2>1, <2>2, OpenKept, StutterStep
<1>3. CASE write # packet
  <2>1. queue' = Append(queue, p)
    BY <1>3 DEF NotifyPublish, AOpen
  <2>2. /\ ~dropped /\ n > 0
    BY <1>1, <1>3 DEF IndInv, ProducerInv
  <2>3. /\ AOpen \in Seq(Bytes) /\ Len(AOpen) = n /\ n \in Nat /\ AOpen # << >>
        /\ n = Distance(packet, write) - 1
    BY <1>3, <2>2, OpenIs
  <2>4. /\ queue \in Seq(Packets) /\ Len(queue) \in Nat
        /\ AQueue \in Seq(Seq(Bytes)) /\ Len(AQueue) = Len(queue)
        /\ \A i \in 1..Len(queue) : AQueue[i] = queue[i].data
    BY QueueIs
  <2>5. p \in Packets /\ p.data = AOpen
    BY <2>3 DEF Packets, IndInv, TypeOK
  <2>6. /\ Len(queue') = Len(queue) + 1 /\ queue'[Len(queue) + 1] = p
        /\ \A i \in 1..Len(queue) : queue'[i] = queue[i]
    <3> HIDE DEF p
    <3> QED BY <2>1, <2>4, <2>5
  <2>7. AQueue' = [i \in 1..(Len(AQueue) + 1) |->
                      IF i = Len(AQueue) + 1 THEN AOpen ELSE AQueue[i]]
    <3>1. AQueue' = [i \in 1..(Len(queue) + 1) |-> queue'[i].data]
      BY <2>6 DEF AQueue
    <3>2. ASSUME NEW i \in 1..(Len(queue) + 1)
          PROVE  queue'[i].data
                   = IF i = Len(queue) + 1 THEN AOpen ELSE AQueue[i]
      <4>1. i # Len(queue) + 1 => i \in 1..Len(queue)
        BY <2>4
      <4> HIDE DEF p
      <4> QED BY <2>4, <2>5, <2>6, <4>1
    <3> QED BY <2>4, <3>1, <3>2
  <2>8. AQueue' = Append(AQueue, AOpen)
    BY <2>3, <2>4, <2>7, AppendIs
  <2>9. Unnotified(packet)' = 0
    <3>1. Distance(write, write) = 0
      BY DistanceZero DEF IndInv, TypeOK
    <3> QED BY <1>1, <3>1 DEF Unnotified
  <2>10. AOpen' = << >>
    BY <2>9 DEF AOpen, Contents
  <2>11. AUsed' = AUsed + Len(AOpen) + 1
    <3>1. /\ Distance(read, write) = AUsed + Distance(packet, write)
          /\ AUsed \in Nat /\ Distance(packet, write) \in Nat
      BY OpenBounds DEF AUsed, Offset, size
    <3>2. AUsed' = Distance(read, write)
      BY <1>1 DEF AUsed
    <3> HIDE DEF n
    <3> QED BY <2>3, <3>1, <3>2
  <2>12. ATaken' = ATaken
    <3>1. frame.held => queue'[1] = queue[1]
      <4>1. frame.held => queue # << >>
        BY DEF IndInv, HeldFrameIsOldest
      <4>2. queue # << >> => 1 \in 1..Len(queue)
        BY <2>4
      <4> QED BY <2>6, <4>1, <4>2
    <3> QED BY <1>1, <3>1, TakenIs, TakenIsNext DEF TakenIsOldest
  <2> QED BY <1>1, <2>2, <2>3, <2>8, <2>10, <2>11, <2>12, PublishStep
<1> QED BY <1>2, <1>3

-----------------------------------------------------------------------------
(* The consumer *)

\* ~Frame gives the oldest packet back, an empty optional gives nothing.
LEMMA DropFrameMaps ==
    ASSUME IndInv, IndInv', DropFrame, UNCHANGED <<buf, producerVars>>
    PROVE  AStep
<1>1. /\ buf' = buf /\ packet' = packet /\ write' = write /\ dropped' = dropped
      /\ ~frame'.held
  BY DEF DropFrame, NoFrame, producerVars
<1>2. AOpen' = AOpen
  BY <1>1, OpenKept
<1>3. ATaken' = << >>
  BY <1>1 DEF ATaken
<1>4. CASE ~frame.held
  <2>1. read' = read /\ queue' = queue
    BY <1>4 DEF DropFrame
  <2>2. AQueue' = AQueue /\ AUsed' = AUsed /\ ATaken' = ATaken
    BY <1>1, <1>3, <1>4, <2>1 DEF AQueue, AUsed, ATaken
  <2> QED BY <1>1, <1>2, <2>2, StutterStep
<1>5. CASE frame.held
  <2>1. /\ queue # << >> /\ frame.end = EndOf(queue[1])
        /\ read' = EndOf(queue[1]) /\ queue' = Tail(queue)
    BY <1>5 DEF IndInv, HeldFrameIsOldest, DropFrame
  <2>2. /\ queue \in Seq(Packets) /\ Len(queue) \in Nat
        /\ AQueue \in Seq(Seq(Bytes)) /\ Len(AQueue) = Len(queue)
        /\ \A i \in 1..Len(queue) : AQueue[i] = queue[i].data
    BY QueueIs
  <2>3. 1 \in 1..Len(queue) /\ queue[1].at = read
    <3>1. 1 \in 1..Len(queue)
      BY <2>1, <2>2
    <3> QED BY <2>1, <3>1 DEF IndInv, PacketsAdjacent
  <2>4. ATaken = <<queue[1].data>> /\ ATaken # << >> /\ ATaken[1] = queue[1].data
    <3>1. ATaken = <<queue[1].data>>
      BY <1>5, TakenIs DEF TakenIsOldest
    <3>2. ASSUME NEW x PROVE <<x>> # << >> /\ <<x>>[1] = x
      OBVIOUS
    <3> QED BY <3>1, <3>2
  <2>5. AQueue' = Tail(AQueue)
    <3>1. /\ Len(queue') = Len(queue) - 1
          /\ \A i \in 1..(Len(queue) - 1) : queue'[i] = queue[i + 1]
      <4>1. /\ Len(Tail(queue)) = Len(queue) - 1
            /\ \A i \in 1..Len(Tail(queue)) : Tail(queue)[i] = queue[i + 1]
        <5> HIDE DEF Packets
        <5> QED BY <2>1, <2>2, HeadTailProperties
      <4>2. queue' = Tail(queue)
        BY <2>1
      <4> QED BY <4>1, <4>2
    <3>2. AQueue' = [i \in 1..(Len(queue) - 1) |-> queue[i + 1].data]
      BY <3>1 DEF AQueue
    <3>3. \A i \in 1..(Len(queue) - 1) : queue[i + 1].data = AQueue[i + 1]
      BY <2>2
    <3>4. AQueue # << >>
      BY <2>2, <2>3
    <3>5. /\ Tail(AQueue) \in Seq(Seq(Bytes)) /\ Len(Tail(AQueue)) = Len(AQueue) - 1
          /\ \A i \in 1..Len(Tail(AQueue)) : Tail(AQueue)[i] = AQueue[i + 1]
      BY <2>2, <3>4, HeadTailProperties
    <3>6. \A i \in 1..(Len(queue) - 1) : AQueue[i + 1] \in Seq(Bytes)
      <4> TAKE i \in 1..(Len(queue) - 1)
      <4>1. i + 1 \in 1..Len(AQueue)
        BY <2>2
      <4> QED BY <2>2, <4>1
    <3>7. AQueue' = [i \in 1..(Len(queue) - 1) |-> AQueue[i + 1]]
      BY <3>2, <3>3
    <3>8. /\ AQueue' \in Seq(Seq(Bytes)) /\ Len(AQueue') = Len(queue) - 1
          /\ \A i \in 1..(Len(queue) - 1) : AQueue'[i] = AQueue[i + 1]
      <4>1. Len(queue) - 1 \in Nat
        BY <2>2, <2>3
      <4> QED BY <3>6, <3>7, <4>1
    <3> QED BY <2>2, <3>5, <3>8, SeqEqual
  <2>6. AUsed' = AUsed - (Len(ATaken[1]) + 1)
    <3> DEFINE m == Len(queue[1].data) + 1
    <3>1. /\ m \in Nat /\ read \in Cursors /\ packet \in Cursors
          /\ Distance(read, read) = 0 /\ m <= Distance(read, packet)
          /\ Distance(read, packet) \in 0..(W - 1)
      <4>1. read \in Cursors /\ packet \in Cursors
        BY DEF IndInv, TypeOK
      <4>2. Distance(read, read) = 0 /\ Distance(read, packet) \in 0..(W - 1)
        BY <4>1, DistanceZero, DistanceValue
      <4>3. /\ Len(queue[1].data) \in Nat
            /\ Distance(read, read) + Len(queue[1].data) + 1
                 <= Distance(read, packet)
        BY <2>3, PacketBounds DEF Offset
      <4> QED BY <4>1, <4>2, <4>3
    <3>2. m \in 0..W /\ 0 + m < W
      <4> HIDE DEF m
      <4> QED BY <3>1, Widths
    <3>3. read' = Add(read, m) /\ read' \in Cursors /\ Distance(read, read') = m
      <4>1. read' = Add(read, m)
        BY <2>1, <2>3 DEF EndOf
      <4>2. Distance(read, Add(read, m)) = 0 + m /\ Add(read, m) \in Cursors
        BY <3>1, <3>2, DistanceAdd, AddValue
      <4> HIDE DEF m
      <4> QED BY <3>1, <4>1, <4>2
    <3>4. Distance(read', packet) = Distance(read, packet) - m
      <4> HIDE DEF m
      <4> QED BY <3>1, <3>3, DistanceBetween
    <3> QED BY <1>1, <2>4, <3>4 DEF AUsed
  <2> QED BY <1>1, <1>2, <1>3, <2>4, <2>5, <2>6, GiveBackStep
<1> QED BY <1>4, <1>5

\* Looking at dropped and at notified shows nothing.
LEMMA GetFrameLookMaps ==
    ASSUME UNCHANGED <<buf, producerVars, read, frame, queue>>
    PROVE  AStep
<1>1. /\ AOpen' = AOpen /\ ATaken' = ATaken /\ AUsed' = AUsed
      /\ AQueue' = AQueue /\ dropped' = dropped
  BY DEF AOpen, ATaken, AUsed, AQueue, Contents, Unnotified, producerVars
<1> QED BY <1>1, StutterStep

\* Emplacing the Frame takes the oldest packet.
LEMMA GetFrameSizeMaps ==
    ASSUME IndInv, IndInv', GetFrameSize PROVE AStep
<1>1. /\ ~frame.held /\ read' = read /\ queue' = queue /\ buf' = buf
      /\ packet' = packet /\ write' = write /\ dropped' = dropped
  BY DEF IndInv, ConsumerInv, GetFrameSize, producerVars
<1>2. AOpen' = AOpen /\ AQueue' = AQueue /\ AUsed' = AUsed
  BY <1>1, OpenKept DEF AQueue, AUsed
<1>3. ATaken = << >>
  BY <1>1 DEF ATaken
<1>4. CASE ~frame'.held
  <2>1. ATaken' = ATaken
    BY <1>3, <1>4 DEF ATaken
  <2> QED BY <1>1, <1>2, <2>1, StutterStep
<1>5. CASE frame'.held
  <2>1. ATaken' = <<queue[1].data>>
    BY <1>1, <1>5, TakenIsNext DEF TakenIsOldest
  <2>2. queue # << >>
    BY <1>1, <1>5 DEF IndInv, HeldFrameIsOldest
  <2>3. AQueue # << >> /\ Head(AQueue) = queue[1].data
    <3>1. /\ queue \in Seq(Packets) /\ Len(queue) \in Nat
          /\ AQueue \in Seq(Seq(Bytes)) /\ Len(AQueue) = Len(queue)
          /\ \A i \in 1..Len(queue) : AQueue[i] = queue[i].data
      BY QueueIs
    <3>2. 1 \in 1..Len(queue) /\ Len(AQueue) > 0
      BY <2>2, <3>1
    <3>3. AQueue # << >>
      BY <3>2
    <3> QED BY <3>1, <3>2, <3>3
  <2> QED BY <1>1, <1>2, <1>3, <2>1, <2>3, TakeStep
<1> QED BY <1>4, <1>5

\* reset() clears the FIFO.
LEMMA ResetMaps ==
    ASSUME IndInv, Reset PROVE AStep
<1>1. /\ ~frame.held /\ frame' = frame /\ queue' = << >> /\ dropped' = FALSE
      /\ read' = 0 /\ packet' = 0 /\ write' = 0
  BY DEF Reset
<1>2. Distance(0, 0) = 0
  BY SmallNumbers, DistanceZero
<1>3. Unnotified(packet)' = 0 /\ AUsed' = 0
  BY <1>1, <1>2 DEF Unnotified, AUsed
<1>4. AOpen' = << >>
  BY <1>3 DEF AOpen, Contents
<1>5. AQueue' = << >>
  BY <1>1 DEF AQueue
<1>6. ATaken = << >> /\ ATaken' = ATaken
  BY <1>1 DEF ATaken
<1> QED BY <1>1, <1>3, <1>4, <1>5, <1>6, ClearStep

-----------------------------------------------------------------------------
(* The refinement *)

\* An empty buffer is an empty FIFO.
LEMMA InitMaps == Init => Abstract!Init
<1> SUFFICES ASSUME Init PROVE Abstract!Init
  OBVIOUS
<1>1. Distance(0, 0) = 0
  BY SmallNumbers, DistanceZero
<1>2. Unnotified(packet) = 0 /\ Distance(read, packet) = 0
  BY <1>1 DEF Init, Unnotified
<1>3. AOpen = << >>
  BY <1>2 DEF AOpen, Contents
<1>4. AQueue = << >>
  BY DEF Init, AQueue
<1>5. ATaken = << >>
  BY DEF Init, NoFrame, ATaken
<1> QED BY <1>2, <1>3, <1>4, <1>5
        DEF Init, Abstract!Init, AOpen, AQueue, ATaken

\* Each step of either side is a step of the FIFO.
LEMMA StepMaps ==
    ASSUME IndInv, IndInv', ValueInv, [Next]_vars PROVE AStep
<1>1. ASSUME NEW v \in Elements, PushCheck(v) PROVE AStep
  BY <1>1, PushCheckMaps
<1>2. CASE PushReserve
  BY <1>2, PushReserveMaps
<1>3. CASE PushStore
  BY <1>3, PushStoreMaps
<1>4. CASE ResetDropped
  BY <1>4, DropPacketMaps DEF ResetDropped
<1>5. CASE Notify
  BY <1>5, DropPacketMaps DEF Notify
<1>6. CASE NotifyBump
  BY <1>6, NotifyBumpMaps
<1>7. CASE NotifySize
  BY <1>7, NotifySizeMaps
<1>8. CASE NotifyPublish
  BY <1>8, NotifyPublishMaps
<1>9. CASE ResetFrame \/ GetFrame
  BY <1>9, DropFrameMaps DEF ResetFrame, GetFrame
<1>10. CASE GetFrameTest \/ GetFrameLoad
  BY <1>10, GetFrameLookMaps DEF GetFrameTest, GetFrameLoad
<1>11. CASE GetFrameSize
  BY <1>11, GetFrameSizeMaps
<1>12. CASE Reset
  BY <1>12, ResetMaps
<1>13. CASE UNCHANGED vars
  BY <1>13, GetFrameLookMaps DEF vars, consumerVars
<1> QED
  BY <1>1, <1>2, <1>3, <1>4, <1>5, <1>6, <1>7, <1>8, <1>9, <1>10, <1>11,
     <1>12, <1>13 DEF Next, Produce, Consume

\* Under the assumptions of BufferCorrect, whatever the sizes and however the
\* steps of push_back, notify, get_frame and ~Frame interleave, the consumer
\* is shown a FIFO of whole packets: none torn, reordered, repeated or lost
\* without being refused.
THEOREM Refinement ==
    ASSUME MaxPacketSize < ByteModulus, ~EmptyNotifyWhenFull
    PROVE  Spec => ImplementsFrameQueue
<1>1. Init => ValueInv
  BY DEF Init, ValueInv
<1>2. ValueInv /\ [Next]_vars => ValueInv'
  BY ValueStep
<1>3. IndInv /\ IndInv' /\ ValueInv /\ [Next]_vars => AStep
  BY StepMaps
<1>4. Spec => []IndInv
  BY BufferCorrect
<1> QED BY <1>1, <1>2, <1>3, <1>4, InitMaps, PTL
        DEF Spec, AStep, ImplementsFrameQueue, Abstract!Spec
=============================================================================
