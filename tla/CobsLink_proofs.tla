---------------------------- MODULE CobsLink_proofs ----------------------------
(***************************************************************************)
(* Proof that the link is self-synchronising, for every longest run, every *)
(* alphabet and every length of packet, and whatever the line does: types, *)
(* the bound on the size of an encoding, encoder and decoder in step, and  *)
(* from that the round trip.                                               *)
(***************************************************************************)
EXTENDS CobsLink, SequenceTheorems, WellFoundedInduction, TLAPS

\* n bytes are the run that starts after the first `base` of the packet p.
IsRun(p, base, n) ==
    /\ n \in 0..MaxRunLength /\ n <= Left(p, base)
    /\ \A i \in 1..n : p[base + i] # 0
    /\ \/ n = MaxRunLength
       \/ n = Left(p, base)
       \/ p[base + n + 1] = 0

\* The iterator e is at a place in p: before the header of a run, inside a run,
\* or at the end.
AtPlace(p, e) ==
    /\ e \in [base : 0..Len(p), runLength : 0..MaxRunLength,
              runIndex : 0..MaxRunLength, headerOutput : BOOLEAN]
    /\ IsRun(p, e.base, e.runLength)
    /\ e.runIndex <= e.runLength
    /\ ~e.headerOutput => e.runIndex = 0
    /\ e.headerOutput /\ e.runIndex = e.runLength => e.base = Len(p)

\* Bytes sent: those left behind, one for each full run (whose header stands for
\* no zero), and the header of this run.
Counted(e, n) ==
    \E full \in Nat :
        /\ full * MaxRunLength <= e.base
        /\ n = e.base + e.runIndex + full + IF e.headerOutput THEN 1 ELSE 0

\* The inductive invariant.
LinkInv == TypeOK /\ AtPlace(packet, encoder) /\ Counted(encoder, sent) /\ InStep

-----------------------------------------------------------------------------
(* Encoder::findRunLength *)

\* A set of numbers that is not empty has a least one.
LEMMA Least ==
    ASSUME NEW S \in SUBSET Nat, S # {}
    PROVE  \E n \in S : \A m \in S : n <= m
<1>1. PICK n \in S : \A m \in S : ~ (<<m, n>> \in OpToRel(<, Nat))
  BY NatLessThanWellFounded, WFMin
<1>2. \A m \in S : ~(m < n)
  BY <1>1 DEF OpToRel
<1> QED BY <1>2

\* There is a run at every place of a packet, if only an empty one, and
\* findRunLength finds it.
LEMMA RunFound ==
    ASSUME NEW p, Len(p) \in Nat, NEW base \in 0..Len(p)
    PROVE  IsRun(p, base, FindRunLength(p, base))
<1> USE RunAssumption
<1> DEFINE stops == {n \in 0..MaxRunLength :
                        n = MaxRunLength \/ n = Left(p, base) \/ p[base + n + 1] = 0}
<1>1. Left(p, base) \in Nat /\ Len(p) = base + Left(p, base)
  BY DEF Left
<1>2. MaxRunLength \in stops
  OBVIOUS
<1>3. PICK n \in stops : \A m \in stops : n <= m
  <2>1. stops \in SUBSET Nat /\ stops # {}
    BY <1>2
  <2> HIDE DEF stops
  <2> QED BY <2>1, Least
<1>4. n <= Left(p, base)
  <2> SUFFICES ASSUME Left(p, base) < n PROVE FALSE
    BY <1>1, <1>3
  <2>1. Left(p, base) \in stops
    BY <1>1, <1>3
  <2> QED BY <1>1, <1>3, <2>1
<1>5. ASSUME NEW i \in 1..n
      PROVE  p[base + i] # 0
  <2>1. i - 1 \in 0..MaxRunLength /\ i - 1 < n /\ base + (i - 1) + 1 = base + i
    BY <1>3
  <2>2. i - 1 \notin stops
    BY <1>3, <2>1
  <2> QED BY <2>1, <2>2
<1>6. IsRun(p, base, n)
  BY <1>3, <1>4, <1>5 DEF IsRun
<1>7. \E k \in 0..MaxRunLength :
          /\ k <= Left(p, base)
          /\ \A i \in 1..k : p[base + i] # 0
          /\ k = MaxRunLength \/ k = Left(p, base) \/ p[base + k + 1] = 0
  BY <1>6 DEF IsRun
<1> HIDE DEF stops
<1> QED BY <1>7 DEF FindRunLength, IsRun

-----------------------------------------------------------------------------
(* Encoder::operator++ *)

\* What is sent of the run so far, with its header; the iterator has not moved on
\* to the next run yet.
InRun(p, e) ==
    /\ e \in [base : 0..Len(p), runLength : 0..MaxRunLength,
              runIndex : 0..MaxRunLength, headerOutput : {TRUE}]
    /\ IsRun(p, e.base, e.runLength)
    /\ e.runIndex <= e.runLength

LEMMA InRunTyped ==
    ASSUME NEW p, NEW e, InRun(p, e), Len(p) \in Nat
    PROVE  /\ e.base \in Nat /\ e.runIndex \in Nat /\ e.runLength \in Nat
           /\ e.runIndex <= e.runLength /\ e.runLength <= MaxRunLength
           /\ e.headerOutput = TRUE
<1>1. /\ e.base \in 0..Len(p) /\ e.runIndex \in 0..MaxRunLength
      /\ e.runLength \in 0..MaxRunLength /\ e.headerOutput \in {TRUE}
  BY DEF InRun
<1>2. e.runIndex <= e.runLength
  BY DEF InRun
<1>3. e.headerOutput = TRUE
  BY <1>1
<1>4. /\ e.base \in Nat /\ e.runIndex \in Nat /\ e.runLength \in Nat
      /\ e.runLength <= MaxRunLength
  BY <1>1, RunAssumption
<1> QED BY <1>2, <1>3, <1>4

\* A run at its end is that of the packet, or is full and has left nothing out, or
\* has left out the zero that ended it.
Passed(p, e, next) ==
    LET end == e.base + e.runLength
    IN  \/ /\ end = Len(p)
           /\ next = [base |-> end, runLength |-> 0, runIndex |-> 0, headerOutput |-> TRUE]
        \/ /\ end < Len(p)
           /\ next.runIndex = 0 /\ next.headerOutput = FALSE
           /\ \/ e.runLength = MaxRunLength /\ next.base = end
              \/ /\ e.runLength < MaxRunLength
                 /\ p[end + 1] = 0 /\ next.base = end + 1

LEMMA NextRunPasses ==
    ASSUME NEW p, Len(p) \in Nat, NEW e, InRun(p, e), e.runIndex = e.runLength
    PROVE  Passed(p, e, NextRun(p, e)) /\ AtPlace(p, NextRun(p, e))
<1> USE RunAssumption
<1> DEFINE end == e.base + e.runLength
           next == NextRun(p, e)
<1>1. /\ e.base \in 0..Len(p) /\ e.runLength \in 0..MaxRunLength
      /\ end \in Nat /\ end <= Len(p)
  BY DEF InRun, IsRun, Left
<1>2. CASE end = Len(p)
  <2>1. FindRunLength(p, end) = 0
    BY <1>1, <1>2, RunFound DEF IsRun, Left
  <2>2. next = [base |-> end, runLength |-> 0, runIndex |-> 0, headerOutput |-> TRUE]
    <3>1. ~(e.runIndex < Left(p, e.base)) /\ e.base + e.runIndex + 0 = end
      BY <1>1, <1>2 DEF Left
    <3> HIDE DEF end
    <3> QED BY <2>1, <3>1 DEF NextRun
  <2>3. IsRun(p, end, 0)
    BY <1>1, <1>2, <2>1, RunFound
  <2>4. AtPlace(p, next)
    <3> HIDE DEF next
    <3> QED BY <1>1, <1>2, <2>2, <2>3 DEF AtPlace
  <2> QED BY <1>2, <2>2, <2>4 DEF Passed
<1>3. CASE end < Len(p)
  <2> DEFINE base == IF e.runLength < MaxRunLength THEN end + 1 ELSE end
  <2>1. base \in 0..Len(p)
    BY <1>1, <1>3
  <2>2. next = [base |-> base, runLength |-> FindRunLength(p, base),
                runIndex |-> 0, headerOutput |-> FALSE]
    <3>1. e.runIndex < Left(p, e.base)
      BY <1>1, <1>3 DEF Left
    <3>2. e.base + e.runIndex + (IF e.runLength < MaxRunLength THEN 1 ELSE 0) = base
      BY <1>1
    <3> HIDE DEF base
    <3> QED BY <3>1, <3>2 DEF NextRun
  <2>3. IsRun(p, base, FindRunLength(p, base))
    <3> HIDE DEF base
    <3> QED BY <2>1, RunFound
  <2>4. AtPlace(p, next)
    <3> HIDE DEF base, next
    <3> QED BY <2>1, <2>2, <2>3 DEF AtPlace, IsRun
  <2>5. e.runLength < MaxRunLength => p[end + 1] = 0
    BY <1>1, <1>3 DEF InRun, IsRun, Left
  <2> HIDE DEF next
  <2>6. next.base = base /\ next.runIndex = 0 /\ next.headerOutput = FALSE
    BY <2>2
  <2>7. e.runLength = MaxRunLength \/ e.runLength < MaxRunLength
    BY <1>1
  <2>8. Passed(p, e, next)
    BY <1>3, <2>5, <2>6, <2>7 DEF Passed
  <2> QED BY <2>4, <2>8 DEF next
<1> QED BY <1>1, <1>2, <1>3

\* The iterator with the byte it is at sent.
Past(e) ==
    IF ~e.headerOutput THEN [e EXCEPT !.headerOutput = TRUE]
    ELSE [e EXCEPT !.runIndex = e.runIndex + 1]

\* operator++ goes past one byte, and then on to the next run if that was the last
\* of its run.
LEMMA AdvancePasses ==
    ASSUME NEW p, Len(p) \in Nat, NEW e, AtPlace(p, e), ~AtEnd(p, e)
    PROVE  /\ InRun(p, Past(e))
           /\ IF ~e.headerOutput THEN Past(e).runIndex = 0
              ELSE e.runIndex < e.runLength /\ Past(e).runIndex = e.runIndex + 1
           /\ Past(e).base = e.base /\ Past(e).runLength = e.runLength
           /\ IF Past(e).runIndex = e.runLength
              THEN Passed(p, Past(e), Advance(p, e))
              ELSE Advance(p, e) = Past(e)
           /\ AtPlace(p, Advance(p, e))
<1> USE RunAssumption
<1> DEFINE past == Past(e)
<1>1. /\ e.base \in 0..Len(p) /\ e.runLength \in 0..MaxRunLength
      /\ e.runIndex \in 0..MaxRunLength /\ e.headerOutput \in BOOLEAN
      /\ e.runIndex <= e.runLength
      /\ e \in [base : 0..Len(p), runLength : 0..MaxRunLength,
                runIndex : 0..MaxRunLength, headerOutput : BOOLEAN]
  BY DEF AtPlace
<1>2. e.headerOutput => e.runIndex < e.runLength
  <2> SUFFICES ASSUME e.headerOutput, e.runIndex = e.runLength PROVE FALSE
    BY <1>1
  <2>1. e.base = Len(p) /\ e.runLength <= Left(p, e.base) /\ Left(p, e.base) = 0
    BY DEF AtPlace, IsRun, Left
  <2> QED BY <1>1, <2>1 DEF AtEnd
<1>3. /\ past \in [base : 0..Len(p), runLength : 0..MaxRunLength,
                   runIndex : 0..MaxRunLength, headerOutput : {TRUE}]
      /\ past.base = e.base /\ past.runLength = e.runLength
      /\ IF ~e.headerOutput THEN past.runIndex = 0
         ELSE e.runIndex < e.runLength /\ past.runIndex = e.runIndex + 1
  <2>1. CASE ~e.headerOutput
    BY <1>1, <2>1 DEF AtPlace, Past
  <2>2. CASE e.headerOutput
    <3>1. e.headerOutput = TRUE /\ e.runIndex + 1 \in 0..MaxRunLength
      BY <1>1, <1>2, <2>2
    <3>2. past = [e EXCEPT !.runIndex = e.runIndex + 1]
      BY <2>2 DEF Past
    <3>3. past = [base |-> e.base, runLength |-> e.runLength,
                  runIndex |-> e.runIndex + 1, headerOutput |-> TRUE]
      BY <1>1, <3>1, <3>2
    <3> HIDE DEF past
    <3> QED BY <1>1, <1>2, <2>2, <3>1, <3>3
  <2> QED BY <1>1, <2>1, <2>2
<1>4. Advance(p, e) = IF past.runIndex = past.runLength THEN NextRun(p, past) ELSE past
  <2>1. CASE ~e.headerOutput
    BY <2>1 DEF Advance, Past
  <2>2. CASE e.headerOutput
    BY <1>2, <2>2 DEF Advance, Past
  <2> QED BY <1>1, <2>1, <2>2
<1> HIDE DEF past
<1>5. InRun(p, past)
  <2>1. IsRun(p, past.base, past.runLength)
    BY <1>3 DEF AtPlace
  <2>2. past.runIndex <= past.runLength
    BY <1>1, <1>3
  <2> QED BY <1>3, <2>1, <2>2 DEF InRun
<1>6. CASE past.runIndex = past.runLength
  BY <1>3, <1>4, <1>5, <1>6, NextRunPasses DEF past
<1>7. CASE past.runIndex # past.runLength
  <2>1. AtPlace(p, past)
    BY <1>5, <1>7 DEF AtPlace, InRun
  <2> QED BY <1>3, <1>4, <1>5, <1>7, <2>1 DEF past
<1> QED BY <1>6, <1>7
-----------------------------------------------------------------------------
(* Decoder::feed and get *)

\* What the receiver has heard when the sender is in the run of e.
Heard(e, d, got) ==
    /\ d = [runLength |-> e.runLength - e.runIndex,
            runLengthWasMax |-> e.runLength = MaxRunLength]
    /\ got = SubSeq(packet, 1, e.base + e.runIndex)

LEMMA OneMore ==
    ASSUME NEW S, NEW p \in Seq(S), NEW n \in Nat, n < Len(p)
    PROVE  Append(SubSeq(p, 1, n), p[n + 1]) = SubSeq(p, 1, n + 1)
<1> DEFINE front == SubSeq(p, 1, n)
<1>1. Len(p) \in Nat /\ n + 1 \in 1..Len(p) /\ 1 \in 1..(n + 1)
  BY LenProperties
<1>2. SubSeq(p, 1, n + 1) = SubSeq(p, 1, n + 1 - 1) \o <<p[n + 1]>>
  BY <1>1, SubSeqRecursiveSecond
<1>3. front \in Seq(S) /\ p[n + 1] \in S
  <2>1. 1 \in 1..(Len(p) + 1) /\ n \in (1 - 1)..Len(p)
    BY <1>1
  <2>2. \A i \in 1..n : p[i] \in S
    BY <1>1, ElementOfSeq
  <2> QED BY <1>1, <2>2, SubSeqProperties, ElementOfSeq
<1> HIDE DEF front
<1>4. Append(front, p[n + 1]) = front \o <<p[n + 1]>>
  BY <1>3, AppendIsConcat
<1>5. n + 1 - 1 = n
  OBVIOUS
<1> QED BY <1>2, <1>4, <1>5 DEF front
LEMMA PacketTyped ==
    ASSUME TypeOK
    PROVE  packet \in Seq(Byte) /\ Len(packet) \in Nat /\ Len(packet) <= MaxLength
<1>1. packet \in Seq(PacketBytes) /\ PacketBytes \subseteq Byte
  BY LinkAssumption DEF TypeOK
<1>2. \A i \in 1..Len(packet) : packet[i] \in Byte
  BY <1>1, ElementOfSeq
<1> QED BY <1>1, <1>2, LenProperties, SeqDef DEF TypeOK

\* An encoded byte is a byte, and none is zero.
LEMMA EncodedByte ==
    ASSUME TypeOK, AtPlace(packet, encoder), ~AtEnd(packet, encoder)
    PROVE  Encoded(packet, encoder) \in Byte \ {0}
<1> USE RunAssumption
<1> DEFINE e == encoder
           next == e.base + e.runIndex + 1
<1>1. /\ e.base \in Nat /\ e.runLength \in 0..MaxRunLength /\ e.runIndex \in Nat
      /\ e.headerOutput \in BOOLEAN
      /\ e.headerOutput => e.runIndex < e.runLength
      /\ e.base + e.runLength <= Len(packet)
  BY PacketTyped, AdvancePasses DEF AtPlace, IsRun, Left
<1>2. CASE ~e.headerOutput
  BY <1>1, <1>2 DEF Encoded, Byte
<1>3. CASE e.headerOutput
  <2>1. e.runIndex + 1 \in 1..e.runLength /\ next \in 1..Len(packet)
        /\ e.base + (e.runIndex + 1) = next
    BY <1>1, <1>3, PacketTyped
  <2> HIDE DEF next
  <2>2. packet[next] # 0
    BY <2>1 DEF AtPlace, IsRun
  <2>3. packet[next] \in Byte
    BY <2>1, PacketTyped, ElementOfSeq
  <2> QED BY <1>3, <2>2, <2>3 DEF Encoded, next
<1> QED BY <1>1, <1>2, <1>3

LEMMA FirstByte ==
    ASSUME AtPlace(packet, encoder), Counted(encoder, sent)
    PROVE  /\ sent = 0 => encoder.base = 0 /\ ~encoder.headerOutput
           /\ sent # 0 => encoder.base # 0 \/ encoder.headerOutput
<1> USE RunAssumption
<1>1. /\ encoder.base \in Nat /\ encoder.runIndex \in Nat
      /\ encoder.headerOutput \in BOOLEAN
      /\ ~encoder.headerOutput => encoder.runIndex = 0
  BY DEF AtPlace
<1>2. PICK full \in Nat :
          /\ full * MaxRunLength <= encoder.base
          /\ sent = encoder.base + encoder.runIndex + full
                       + IF encoder.headerOutput THEN 1 ELSE 0
  BY DEF Counted
<1>3. ASSUME encoder.base = 0
      PROVE  full = 0
  <2> SUFFICES ASSUME full >= 1 PROVE FALSE
    OBVIOUS
  <2>1. full * MaxRunLength >= 1
    <3>1. \A a, b \in Nat : a >= 1 /\ b >= 1 => a * b >= 1
      OBVIOUS
    <3> QED BY <3>1
  <2> QED BY <1>2, <1>3, <2>1
<1> QED BY <1>1, <1>2, <1>3

\* A byte that arrives unharmed is heard as it was meant.
LEMMA ByteHeard ==
    ASSUME TypeOK, AtPlace(packet, encoder), Counted(encoder, sent), InStep, intact,
           ~AtEnd(packet, encoder), Receive(Encoded(packet, encoder))
    PROVE  Heard(Past(encoder), decoder', received')
<1> USE RunAssumption
<1> DEFINE e == encoder
           byte == Encoded(packet, encoder)
           past == Past(encoder)
<1>1. /\ e.base \in 0..Len(packet) /\ e.runLength \in 0..MaxRunLength
      /\ e.runIndex \in Nat /\ e.headerOutput \in BOOLEAN
      /\ ~e.headerOutput => e.runIndex = 0
      /\ e.headerOutput => e.runIndex < e.runLength
      /\ e.base + e.runLength <= Len(packet)
      /\ past.base = e.base /\ past.runLength = e.runLength
      /\ past.runIndex = IF ~e.headerOutput THEN 0 ELSE e.runIndex + 1
  BY PacketTyped, AdvancePasses DEF AtPlace, IsRun, Left
<1>2. byte # 0
  BY EncodedByte
<1>3. packet \in Seq(Byte) /\ Len(packet) \in Nat
  BY PacketTyped
<1>4. decoder \in [runLength : 0..MaxRunLength, runLengthWasMax : BOOLEAN]
  BY DEF TypeOK
<1>5. /\ decoder' = Fed(decoder, byte)
      /\ received' = IF Emits(decoder, byte) THEN Append(received, Get(decoder, byte))
                     ELSE received
  BY <1>2 DEF Receive
<1> HIDE DEF past
<1>6. CASE ~e.headerOutput
  <2>1. byte = e.runLength + 1
    BY <1>6 DEF Encoded
  <2>2. decoder.runLength = 0
    BY <1>6 DEF InStep, Decoder
  <2>3. decoder' = [runLength |-> e.runLength,
                    runLengthWasMax |-> e.runLength = MaxRunLength]
    <3>1. byte - 1 = e.runLength
      BY <1>1, <2>1
    <3> HIDE DEF byte
    <3> QED BY <1>2, <1>5, <2>2, <3>1 DEF Fed
  <2>4. received' = SubSeq(packet, 1, e.base)
    <3>1. Emits(decoder, byte) <=> ~decoder.runLengthWasMax
      BY <1>2, <2>2 DEF Emits
    <3>2. Get(decoder, byte) = 0
      BY <2>2 DEF Get
    <3>3. CASE sent = 0
      <4>1. decoder.runLengthWasMax = TRUE /\ received = << >> /\ e.base = 0
        BY <3>3, FirstByte DEF InStep, Decoder
      <4>2. SubSeq(packet, 1, 0) = << >>
        BY SubSeqEmpty
      <4> QED BY <1>5, <3>1, <4>1, <4>2
    <3>4. CASE sent # 0 /\ decoder.runLengthWasMax
      <4>1. received = SubSeq(packet, 1, e.base + e.runIndex)
        BY <1>6, <3>4 DEF InStep
      <4>2. e.base + e.runIndex = e.base
        BY <1>1, <1>6
      <4> QED BY <1>5, <3>1, <3>4, <4>1, <4>2
    <3>5. CASE sent # 0 /\ ~decoder.runLengthWasMax
      <4>1. /\ packet[e.base + e.runIndex] = 0
            /\ received = SubSeq(packet, 1, (e.base + e.runIndex) - 1)
        BY <1>6, <3>5 DEF InStep
      <4>2. e.base - 1 \in Nat /\ e.base - 1 < Len(packet) /\ e.base - 1 + 1 = e.base
            /\ e.base + e.runIndex = e.base
        BY <1>1, <1>3, <1>6, <3>5, FirstByte
      <4>3. Append(SubSeq(packet, 1, e.base - 1), packet[e.base]) = SubSeq(packet, 1, e.base)
        BY <1>3, <4>2, OneMore
      <4>4. received' = Append(received, 0)
        BY <1>5, <3>1, <3>2, <3>5
      <4>5. packet[e.base] = 0 /\ received = SubSeq(packet, 1, e.base - 1)
        BY <4>1, <4>2
      <4> QED BY <4>3, <4>4, <4>5
    <3> QED BY <1>4, <3>3, <3>4, <3>5
  <2>5. past.runLength - past.runIndex = e.runLength /\ past.base + past.runIndex = e.base
    BY <1>1, <1>6
  <2> QED BY <1>1, <2>3, <2>4, <2>5 DEF Heard, past
<1>7. CASE e.headerOutput
  <2> DEFINE done == e.base + e.runIndex
  <2>1. sent # 0
    BY <1>7, FirstByte
  <2>2. /\ decoder.runLength = e.runLength - e.runIndex
        /\ decoder.runLengthWasMax <=> e.runLength = MaxRunLength
        /\ received = SubSeq(packet, 1, done)
    BY <1>1, <1>7, <2>1 DEF InStep
  <2>3. byte = packet[done + 1]
    BY <1>7 DEF Encoded
  <2> HIDE DEF byte
  <2>4. decoder.runLength # 0 /\ done \in Nat /\ done < Len(packet)
    BY <1>1, <1>3, <1>7, <2>2
  <2>5. decoder' = [runLength |-> e.runLength - (e.runIndex + 1),
                    runLengthWasMax |-> e.runLength = MaxRunLength]
    <3>1. decoder' = [decoder EXCEPT !.runLength = decoder.runLength - 1]
      BY <1>2, <1>5, <2>4 DEF Fed
    <3>2. decoder.runLength - 1 = e.runLength - (e.runIndex + 1)
      BY <1>1, <2>2
    <3>3. decoder.runLengthWasMax = (e.runLength = MaxRunLength)
      BY <1>4, <2>2
    <3> QED BY <1>4, <3>1, <3>2, <3>3
  <2>6. received' = SubSeq(packet, 1, done + 1)
    <3>1. Emits(decoder, byte) /\ Get(decoder, byte) = byte
      BY <2>4 DEF Emits, Get
    <3>2. Append(SubSeq(packet, 1, done), packet[done + 1]) = SubSeq(packet, 1, done + 1)
      <4> HIDE DEF done
      <4> QED BY <1>3, <2>4, OneMore
    <3> QED BY <1>5, <2>2, <2>3, <3>1, <3>2
  <2>7. past.runIndex = e.runIndex + 1 /\ past.base + past.runIndex = done + 1
    BY <1>1, <1>7
  <2> QED BY <1>1, <2>5, <2>6, <2>7 DEF Heard, past
<1> QED BY <1>1, <1>6, <1>7
\* With the iterator moved on, the two are in step again.
LEMMA NextInStep ==
    ASSUME AtPlace(packet, encoder), ~AtEnd(packet, encoder), Len(packet) \in Nat, Encode,
           sent \in Nat, Heard(Past(encoder), decoder', received')
    PROVE  InStep'
<1> USE RunAssumption
<1> DEFINE past == Past(encoder)
           next == Advance(packet, encoder)
           done == past.base + past.runIndex
<1>1. encoder' = next /\ sent' # 0 /\ packet' = packet
  BY DEF Encode
<1>2. /\ InRun(packet, past) /\ past.runLength = encoder.runLength
      /\ IF past.runIndex = past.runLength THEN Passed(packet, past, next) ELSE next = past
  BY AdvancePasses
<1> HIDE DEF past, next
<1>3. /\ past.runIndex \in Nat /\ past.runLength \in Nat /\ past.base \in Nat
      /\ past.runIndex <= past.runLength /\ past.headerOutput = TRUE
      /\ past.runLength <= MaxRunLength
  BY <1>2, InRunTyped
<1>4. /\ decoder'.runLength = past.runLength - past.runIndex
      /\ decoder'.runLengthWasMax = (past.runLength = MaxRunLength)
      /\ received' = SubSeq(packet, 1, done)
  BY DEF Heard, past
<1>5. CASE past.runIndex # past.runLength
  <2>1. next.headerOutput /\ next.runIndex < next.runLength /\ next = past
    BY <1>2, <1>3, <1>5
  <2> QED BY <1>1, <1>4, <2>1 DEF InStep
<1>6. CASE past.runIndex = past.runLength
  <2>1. decoder'.runLength = 0 /\ Passed(packet, past, next)
    BY <1>2, <1>3, <1>4, <1>6
  <2>2. CASE next = [base |-> done, runLength |-> 0, runIndex |-> 0, headerOutput |-> TRUE]
    <3>1. /\ next.headerOutput /\ ~(next.runIndex < next.runLength)
          /\ next.base + next.runIndex = done
      BY <1>3, <2>2
    <3> QED BY <1>1, <1>4, <2>1, <3>1 DEF InStep
  <2>3. CASE /\ next.runIndex = 0 /\ next.headerOutput = FALSE
             /\ past.runLength = MaxRunLength /\ next.base = done
    <3>1. next.base + next.runIndex = done
      BY <1>3, <2>3
    <3>2. decoder'.runLengthWasMax
      BY <1>4, <2>3
    <3> QED BY <1>1, <1>4, <2>1, <2>3, <3>1, <3>2 DEF InStep
  <2>4. CASE /\ next.runIndex = 0 /\ next.headerOutput = FALSE
             /\ past.runLength < MaxRunLength
             /\ packet[done + 1] = 0 /\ next.base = done + 1
    <3>1. next.base + next.runIndex = done + 1 /\ (done + 1) - 1 = done
      BY <1>3, <2>4
    <3>2. ~decoder'.runLengthWasMax
      <4>1. past.runLength # MaxRunLength
        BY <1>3, <2>4
      <4> QED BY <1>4, <4>1
    <3> QED BY <1>1, <1>4, <2>1, <2>4, <3>1, <3>2 DEF InStep
  <2> QED BY <1>6, <2>1, <2>2, <2>3, <2>4 DEF Passed
<1> QED BY <1>5, <1>6

-----------------------------------------------------------------------------
(* maxEncodedSize *)

LEMMA NextCounted ==
    ASSUME NEW p, Len(p) \in Nat, NEW e, AtPlace(p, e), ~AtEnd(p, e),
           NEW n \in Nat, Counted(e, n)
    PROVE  Counted(Advance(p, e), n + 1)
<1> USE RunAssumption
<1> DEFINE past == Past(e)
           next == Advance(p, e)
<1>1. /\ e.base \in Nat /\ e.runIndex \in Nat /\ e.headerOutput \in BOOLEAN
      /\ ~e.headerOutput => e.runIndex = 0
  BY DEF AtPlace
<1>2. /\ InRun(p, past) /\ past.base = e.base
      /\ IF past.runIndex = past.runLength THEN Passed(p, past, next) ELSE next = past
      /\ past.runIndex = IF ~e.headerOutput THEN 0 ELSE e.runIndex + 1
  BY AdvancePasses
<1>3. PICK full \in Nat :
          /\ full * MaxRunLength <= e.base
          /\ n = e.base + e.runIndex + full + IF e.headerOutput THEN 1 ELSE 0
  BY DEF Counted
<1> HIDE DEF past, next
<1>4. /\ past.headerOutput = TRUE /\ past.runIndex \in Nat /\ past.runLength \in Nat
  BY <1>2, InRunTyped
<1>5. n + 1 = past.base + past.runIndex + full + 1
  <2>1. CASE e.headerOutput
    <3>1. n = e.base + e.runIndex + full + 1 /\ past.runIndex = e.runIndex + 1
      BY <1>2, <1>3, <2>1
    <3> QED BY <1>1, <1>2, <3>1
  <2>2. CASE ~e.headerOutput
    <3>1. n = e.base + e.runIndex + full + 0 /\ past.runIndex = 0 /\ e.runIndex = 0
      BY <1>1, <1>2, <1>3, <2>2
    <3> QED BY <1>1, <1>2, <3>1
  <2> QED BY <1>1, <2>1, <2>2
<1>6. CASE past.runIndex # past.runLength
  BY <1>2, <1>3, <1>4, <1>5, <1>6 DEF Counted, next
<1>7. ASSUME past.runIndex = past.runLength
      PROVE  Counted(next, n + 1)
  <2> DEFINE end == past.base + past.runLength
  <2>1. end \in Nat /\ n + 1 = end + full + 1 /\ full * MaxRunLength <= end
    <3>1. n + 1 = past.base + past.runLength + full + 1
      BY <1>5, <1>7
    <3>2. end \in Nat /\ past.base <= end
      BY <1>1, <1>2, <1>4
    <3> DEFINE inRuns == full * MaxRunLength
    <3>3. inRuns \in Nat /\ inRuns <= past.base
      BY <1>2, <1>3
    <3> HIDE DEF inRuns
    <3>4. inRuns <= end
      BY <1>1, <1>2, <3>2, <3>3
    <3>5. n + 1 = end + full + 1
      BY <1>1, <1>2, <1>4, <3>1
    <3> QED BY <3>2, <3>4, <3>5 DEF inRuns
  <2>2. CASE next = [base |-> end, runLength |-> 0, runIndex |-> 0, headerOutput |-> TRUE]
    <3>1. next.base = end /\ next.runIndex = 0 /\ next.headerOutput
      BY <2>2
    <3>2. n + 1 = end + 0 + full + 1
      BY <2>1
    <3> HIDE DEF end
    <3> QED BY <2>1, <3>1, <3>2 DEF Counted
  <2>3. CASE /\ next.runIndex = 0 /\ next.headerOutput = FALSE
             /\ past.runLength = MaxRunLength /\ next.base = end
    <3>1. (full + 1) * MaxRunLength <= end
      <4>1. (full + 1) * MaxRunLength = full * MaxRunLength + MaxRunLength
        OBVIOUS
      <4> DEFINE inRuns == full * MaxRunLength
      <4>2. inRuns \in Nat /\ inRuns <= past.base
        BY <1>2, <1>3
      <4>3. end = past.base + MaxRunLength
        BY <2>3
      <4> HIDE DEF inRuns, end
      <4>4. inRuns + MaxRunLength <= end
        BY <1>1, <1>2, <4>2, <4>3
      <4> QED BY <4>1, <4>4 DEF inRuns
    <3>2. full + 1 \in Nat /\ n + 1 = end + 0 + (full + 1) + 0
      BY <2>1
    <3> HIDE DEF end
    <3> QED BY <2>3, <3>1, <3>2 DEF Counted
  <2>4. CASE /\ next.runIndex = 0 /\ next.headerOutput = FALSE
             /\ next.base = end + 1
    <3>1. full * MaxRunLength <= end + 1
      <4>1. full * MaxRunLength \in Nat
        OBVIOUS
      <4> QED BY <2>1, <4>1
    <3>2. n + 1 = (end + 1) + 0 + full + 0
      BY <2>1
    <3> HIDE DEF end
    <3> QED BY <2>4, <3>1, <3>2 DEF Counted
  <2> QED BY <1>2, <1>7, <2>2, <2>3, <2>4 DEF Passed
<1> QED BY <1>6, <1>7 DEF next

\* No encoding is longer than maxEncodedSize.
LEMMA SizeBound ==
    ASSUME NEW p, Len(p) \in Nat, NEW e, AtPlace(p, e), NEW n, Counted(e, n)
    PROVE  n \in 0..MaxEncodedSize(Len(p))
<1> USE RunAssumption
<1> DEFINE room == (Len(p) + MaxRunLength) \div MaxRunLength
<1>1. /\ e.base \in Nat /\ e.runIndex \in Nat /\ e.headerOutput \in BOOLEAN
      /\ e.base + e.runIndex <= Len(p) /\ e.base <= Len(p)
  BY DEF AtPlace, IsRun, Left
<1>2. PICK full \in Nat :
          /\ full * MaxRunLength <= e.base
          /\ n = e.base + e.runIndex + full + IF e.headerOutput THEN 1 ELSE 0
  BY DEF Counted
<1>3. full * MaxRunLength <= Len(p)
  <2>1. full * MaxRunLength \in Nat
    OBVIOUS
  <2> QED BY <1>1, <1>2, <2>1
<1>4. room \in Nat /\ full + 1 <= room
  <2>1. room \in Int /\ Len(p) + MaxRunLength < (room + 1) * MaxRunLength
    OBVIOUS
  <2> HIDE DEF room
  <2>2. (full + 1) * MaxRunLength = full * MaxRunLength + MaxRunLength
    OBVIOUS
  <2>3. (full + 1) * MaxRunLength < (room + 1) * MaxRunLength
    <3>1. full * MaxRunLength \in Nat /\ (room + 1) * MaxRunLength \in Int
      BY <2>1
    <3> QED BY <1>3, <2>1, <2>2, <3>1
  <2>4. full + 1 < room + 1
    <3>1. \A a, b \in Int, c \in Nat : a * c < b * c => a < b
      OBVIOUS
    <3> QED BY <2>1, <2>3, <3>1
  <2> QED BY <2>1, <2>4
<1> HIDE DEF room
<1>5. n \in Nat /\ n <= Len(p) + room
  BY <1>1, <1>2, <1>4
<1> QED BY <1>4, <1>5 DEF MaxEncodedSize, room
-----------------------------------------------------------------------------
(* The invariant *)

\* The sender starts on a packet.
LEMMA Starts ==
    ASSUME NEW p \in PacketsToSend
    PROVE  /\ p \in Seq(PacketBytes) /\ Len(p) \in 0..MaxLength
           /\ AtPlace(p, Encoder(p)) /\ Counted(Encoder(p), 0)
<1> USE RunAssumption, LinkAssumption
<1> DEFINE e == Encoder(p)
<1>1. PICK n \in 0..MaxLength : p \in [1..n -> PacketBytes]
  BY DEF PacketsToSend
<1>2. p \in Seq(PacketBytes) /\ Len(p) = n
  BY <1>1
<1>3. e = [base |-> 0, runLength |-> FindRunLength(p, 0),
           runIndex |-> 0, headerOutput |-> FALSE]
  BY DEF Encoder
<1>4. IsRun(p, 0, FindRunLength(p, 0))
  BY <1>1, <1>2, RunFound
<1> HIDE DEF e
<1>5. AtPlace(p, e)
  <2>1. FindRunLength(p, 0) \in 0..MaxRunLength
    BY <1>4 DEF IsRun
  <2> QED BY <1>1, <1>2, <1>3, <1>4, <2>1 DEF AtPlace
<1>6. Counted(e, 0)
  <2>1. /\ 0 \in Nat /\ 0 * MaxRunLength <= e.base
        /\ 0 = e.base + e.runIndex + 0 + IF e.headerOutput THEN 1 ELSE 0
    BY <1>3
  <2> QED BY <2>1 DEF Counted
<1> QED BY <1>1, <1>2, <1>5, <1>6 DEF e

LEMMA InitInv == Init => LinkInv
<1> SUFFICES ASSUME Init PROVE LinkInv
  OBVIOUS
<1>1. /\ packet \in Seq(PacketBytes) /\ Len(packet) \in 0..MaxLength
      /\ AtPlace(packet, encoder) /\ Counted(encoder, sent)
  BY Starts DEF Init
<1>2. sent \in 0..MaxEncodedSize(Len(packet))
  BY <1>1, SizeBound
<1>3. TypeOK
  <2>1. decoder \in [runLength : 0..MaxRunLength, runLengthWasMax : BOOLEAN]
    BY RunAssumption DEF Init, Decoder
  <2>2. received \in Seq(Byte)
    BY EmptySeq DEF Init
  <2> QED BY <1>1, <1>2, <2>1, <2>2, LinkAssumption DEF Init, TypeOK, AtPlace
<1>4. InStep
  BY DEF Init, InStep
<1> QED BY <1>1, <1>3, <1>4 DEF LinkInv

\* The receiver's types, whatever the byte.
ReceiverTyped ==
    /\ decoder \in [runLength : 0..MaxRunLength, runLengthWasMax : BOOLEAN]
    /\ received \in Seq(Byte)

LEMMA ReceivesBytes ==
    ASSUME ReceiverTyped, NEW byte \in Byte \ {0}, Receive(byte)
    PROVE  ReceiverTyped'
<1> USE RunAssumption
<1>1. decoder' \in [runLength : 0..MaxRunLength, runLengthWasMax : BOOLEAN]
  <2>1. decoder' = Fed(decoder, byte) /\ byte # 0 /\ byte - 1 \in 0..MaxRunLength
    BY DEF Receive, Byte
  <2>2. CASE decoder.runLength = 0
    <3>1. decoder' = [runLength |-> byte - 1, runLengthWasMax |-> byte - 1 = MaxRunLength]
      BY <2>1, <2>2 DEF Fed
    <3> QED BY <2>1, <3>1
  <2>3. CASE decoder.runLength # 0
    <3>1. decoder' = [decoder EXCEPT !.runLength = decoder.runLength - 1]
      BY <2>1, <2>3 DEF Fed
    <3>2. decoder.runLength - 1 \in 0..MaxRunLength
      BY <2>3 DEF ReceiverTyped
    <3> QED BY <3>1, <3>2 DEF ReceiverTyped
  <2> QED BY <2>2, <2>3
<1>2. received' \in Seq(Byte)
  <2>1. Get(decoder, byte) \in Byte
    BY DEF Get, Byte
  <2>2. Append(received, Get(decoder, byte)) \in Seq(Byte)
    BY <2>1, AppendProperties DEF ReceiverTyped
  <2> QED BY <2>2 DEF Receive, ReceiverTyped
<1> QED BY <1>1, <1>2 DEF ReceiverTyped

LEMMA DelimiterResets ==
    ASSUME ReceiveDelimiter
    PROVE  ReceiverTyped' /\ decoder' = Decoder /\ received' = << >>
<1>1. decoder' = Decoder /\ received' = << >>
  BY DEF ReceiveDelimiter, Fed
<1>2. decoder' \in [runLength : 0..MaxRunLength, runLengthWasMax : BOOLEAN]
  BY <1>1, RunAssumption DEF Decoder
<1> QED BY <1>1, <1>2, EmptySeq DEF ReceiverTyped

\* The sender's part of the invariant.
SenderRight ==
    /\ packet \in Seq(PacketBytes) /\ Len(packet) <= MaxLength
    /\ AtPlace(packet, encoder) /\ Counted(encoder, sent)

LEMMA EncodeRight ==
    ASSUME TypeOK, SenderRight, ~AtEnd(packet, encoder), Encode
    PROVE  SenderRight'
<1>1. Len(packet) \in Nat /\ sent \in Nat
  BY PacketTyped, SizeBound DEF SenderRight
<1>2. AtPlace(packet, Advance(packet, encoder)) /\ Counted(Advance(packet, encoder), sent + 1)
  BY <1>1, AdvancePasses, NextCounted DEF SenderRight
<1> QED BY <1>2 DEF SenderRight, Encode

LEMMA NewPacketRight ==
    ASSUME NewPacket
    PROVE  SenderRight'
BY Starts, LinkAssumption DEF SenderRight, NewPacket

\* The parts make up the types.
LEMMA TypesOfParts ==
    SenderRight /\ ReceiverTyped /\ intact \in BOOLEAN /\ faults \in 0..MaxFaults <=>
    TypeOK /\ AtPlace(packet, encoder) /\ Counted(encoder, sent)
<1>1. SenderRight => sent \in 0..MaxEncodedSize(Len(packet))
  BY SizeBound, LenProperties DEF SenderRight
<1> QED BY <1>1 DEF SenderRight, ReceiverTyped, TypeOK, AtPlace
LEMMA SendByteInv ==
    ASSUME LinkInv, SendByte
    PROVE  LinkInv'
<1> USE DEF LinkInv
<1>1. SenderRight /\ ReceiverTyped /\ intact \in BOOLEAN /\ faults \in 0..MaxFaults
  BY TypesOfParts
<1>2. /\ ~AtEnd(packet, encoder) /\ Encode /\ Receive(Encoded(packet, encoder))
      /\ intact' = intact /\ faults' = faults
  BY DEF SendByte
<1>3. SenderRight' /\ ReceiverTyped'
  BY <1>1, <1>2, EncodeRight, EncodedByte, ReceivesBytes
<1>4. InStep'
  <2>1. CASE intact
    <3>1. Heard(Past(encoder), decoder', received')
      BY <1>2, <2>1, ByteHeard
    <3>2. Len(packet) \in Nat /\ sent \in Nat
      BY PacketTyped, SizeBound
    <3> QED BY <1>2, <3>1, <3>2, NextInStep
  <2>2. CASE ~intact
    BY <1>2, <2>2 DEF InStep
  <2> QED BY <2>1, <2>2
<1>5. (TypeOK /\ AtPlace(packet, encoder) /\ Counted(encoder, sent))'
  <2>1. (SenderRight /\ ReceiverTyped /\ intact \in BOOLEAN /\ faults \in 0..MaxFaults)'
    BY <1>1, <1>2, <1>3
  <2> QED BY <2>1, TypesOfParts, PTL
<1> QED BY <1>4, <1>5

LEMMA SendDelimiterInv ==
    ASSUME LinkInv, SendDelimiter
    PROVE  LinkInv'
<1> USE DEF LinkInv
<1>1. faults \in 0..MaxFaults
  BY DEF TypeOK
<1>2. /\ NewPacket /\ ReceiveDelimiter /\ intact' = TRUE /\ faults' = faults
  BY DEF SendDelimiter
<1>3. SenderRight' /\ ReceiverTyped' /\ decoder' = Decoder /\ received' = << >> /\ sent' = 0
  BY <1>2, NewPacketRight, DelimiterResets DEF NewPacket
<1>4. InStep'
  BY <1>3 DEF InStep
<1>5. (TypeOK /\ AtPlace(packet, encoder) /\ Counted(encoder, sent))'
  <2>1. (SenderRight /\ ReceiverTyped /\ intact \in BOOLEAN /\ faults \in 0..MaxFaults)'
    BY <1>1, <1>2, <1>3
  <2> QED BY <2>1, TypesOfParts, PTL
<1> QED BY <1>4, <1>5

\* A fault leaves sender and receiver each with a state of its own.
LEMMA FaultInv ==
    ASSUME LinkInv, LoseByte \/ LoseDelimiter \/ GarbleByte \/ AddByte
    PROVE  LinkInv'
<1> USE DEF LinkInv
<1>1. SenderRight /\ ReceiverTyped /\ faults \in 0..MaxFaults
  BY TypesOfParts
<1>2. Fault
  BY DEF LoseByte, LoseDelimiter, GarbleByte, AddByte
<1>3. intact' = FALSE /\ faults' \in 0..MaxFaults
  <2>1. faults < MaxFaults /\ faults' = faults + 1 /\ intact' = FALSE
    BY <1>2 DEF Fault
  <2> QED BY <1>1, <2>1, LinkAssumption
<1>4. SenderRight'
  <2>1. CASE LoseByte \/ GarbleByte
    BY <1>1, <2>1, EncodeRight DEF LoseByte, GarbleByte
  <2>2. CASE LoseDelimiter
    BY <2>2, NewPacketRight DEF LoseDelimiter
  <2>3. CASE AddByte
    BY <1>1, <2>3 DEF AddByte, senderVars, SenderRight
  <2> QED BY <2>1, <2>2, <2>3
<1>5. ReceiverTyped'
  <2>1. CASE LoseByte \/ LoseDelimiter
    BY <1>1, <2>1 DEF LoseByte, LoseDelimiter, receiverVars, ReceiverTyped
  <2>2. CASE GarbleByte \/ AddByte
    BY <1>1, <2>2, ReceivesBytes, DelimiterResets DEF GarbleByte, AddByte
  <2> QED BY <2>1, <2>2
<1>6. InStep'
  BY <1>3 DEF InStep
<1>7. (TypeOK /\ AtPlace(packet, encoder) /\ Counted(encoder, sent))'
  <2>1. (SenderRight /\ ReceiverTyped /\ intact \in BOOLEAN /\ faults \in 0..MaxFaults)'
    BY <1>3, <1>4, <1>5
  <2> QED BY <2>1, TypesOfParts, PTL
<1> QED BY <1>6, <1>7

LEMMA NextInv == LinkInv /\ [Next]_vars => LinkInv'
<1> SUFFICES ASSUME LinkInv, [Next]_vars PROVE LinkInv'
  OBVIOUS
<1>1. CASE SendByte
  BY <1>1, SendByteInv
<1>2. CASE SendDelimiter
  BY <1>2, SendDelimiterInv
<1>3. CASE LoseByte \/ LoseDelimiter \/ GarbleByte \/ AddByte
  BY <1>3, FaultInv
<1>4. CASE UNCHANGED vars
  BY <1>4 DEF LinkInv, TypeOK, InStep, vars
<1> QED BY <1>1, <1>2, <1>3, <1>4 DEF Next

LEMMA Invariance == Spec => []LinkInv
<1> QED BY InitInv, NextInv, PTL DEF Spec

-----------------------------------------------------------------------------
(* The theorems *)

\* Encoder and decoder keep to their types, and no encoding is longer than
\* maxEncodedSize (cobs.hpp) says, for every longest run and every packet.
THEOREM LinkTypeCorrect == Spec => []TypeOK
<1>1. LinkInv => TypeOK
  BY DEF LinkInv
<1> QED BY <1>1, Invariance, PTL

\* No encoded byte is the delimiter, whatever the packet holds (Encoder::operator*).
THEOREM EncodingDelimited == Spec => []SelfDelimiting
<1>1. LinkInv => SelfDelimiting
  <2> SUFFICES ASSUME LinkInv PROVE SelfDelimiting
    OBVIOUS
  <2>1. ~AtEnd(packet, encoder) => Encoded(packet, encoder) # 0
    BY EncodedByte DEF LinkInv
  <2>2. sent \in 0..MaxEncodedSize(Len(packet)) /\ MaxEncodedSize(Len(packet)) \in Int
    BY PacketTyped, RunAssumption DEF LinkInv, TypeOK, MaxEncodedSize
  <2> QED BY <2>1, <2>2 DEF SelfDelimiting
<1> QED BY <1>1, Invariance, PTL

\* From one delimiter to the next that no fault disturbs, the decoder follows the
\* encoder byte by byte (Encoder::operator++, Decoder::feed).
THEOREM LinkInStep == Spec => []InStep
<1>1. LinkInv => InStep
  BY DEF LinkInv
<1> QED BY <1>1, Invariance, PTL

\* Whatever the line did before the last delimiter, a packet that crosses it
\* unharmed is received as it was sent (cobs.cpp, both directions).
THEOREM PacketsRoundTrip == Spec => []RoundTrip
<1>1. LinkInv => RoundTrip
  <2> SUFFICES ASSUME LinkInv, intact, AtEnd(packet, encoder)
               PROVE  received = packet
    BY DEF RoundTrip
  <2> USE DEF LinkInv
  <2> DEFINE done == encoder.base + encoder.runIndex
  <2>1. packet \in Seq(Byte) /\ Len(packet) \in Nat
    BY PacketTyped
  <2>2. encoder.headerOutput /\ done = Len(packet)
    BY <2>1 DEF AtEnd, Left, AtPlace
  <2>3. ~(encoder.runIndex < encoder.runLength)
    BY <2>1, <2>2, RunAssumption DEF AtPlace, IsRun, Left
  <2>4. sent # 0
    BY <2>2, FirstByte
  <2>5. received = SubSeq(packet, 1, done)
    <3> HIDE DEF AtPlace
    <3> QED BY <2>2, <2>3, <2>4 DEF InStep
  <2> QED BY <2>1, <2>2, <2>5, SubSeqFull
<1> QED BY <1>1, Invariance, PTL
=============================================================================
