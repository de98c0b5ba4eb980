--------------------------------- MODULE Cobs ---------------------------------
(***************************************************************************)
(* comms-ccf/cobs.cpp: the consistent-overhead byte stuffing of a packet.  *)
(* The Encoder is an iterator over a packet and the Decoder a machine fed  *)
(* one received byte at a time; both are records here, and their methods   *)
(* operators that return the byte or the next record.                      *)
(*                                                                         *)
(* A run is a stretch of non-zero bytes.  Each run is sent as its length   *)
(* plus one and then its bytes; a run shorter than MaxRunLength stands for *)
(* the zero that ended it as well.  In the code MaxRunLength is 254, so    *)
(* that a header is at most 255: bytes are 0..(MaxRunLength + 1).          *)
(***************************************************************************)
EXTENDS Integers, Sequences

CONSTANT MaxRunLength

ASSUME RunAssumption == MaxRunLength \in Nat /\ MaxRunLength > 0

Byte == 0..(MaxRunLength + 1)

-----------------------------------------------------------------------------
(* Encoder.  base is how much of the packet `data = data.subspan(...)` has *)
(* left behind.                                                            *)

Left(packet, base) == Len(packet) - base

\* Mutant of FindRunLength: a run one byte too long.
FindRunLengthLong(packet, base) ==
    CHOOSE n \in 0..(MaxRunLength + 1) :
        /\ n <= Left(packet, base)
        /\ \A i \in 1..n : packet[base + i] # 0
        /\ \/ n = MaxRunLength + 1
           \/ n = Left(packet, base)
           \/ packet[base + n + 1] = 0

\* findRunLength(): the non-zero bytes ahead, at most MaxRunLength of them.
FindRunLength(packet, base) ==
    CHOOSE n \in 0..MaxRunLength :
        /\ n <= Left(packet, base)
        /\ \A i \in 1..n : packet[base + i] # 0
        /\ \/ n = MaxRunLength
           \/ n = Left(packet, base)
           \/ packet[base + n + 1] = 0

Encoder(packet) ==
    [base |-> 0, runLength |-> FindRunLength(packet, 0),
     runIndex |-> 0, headerOutput |-> FALSE]

\* Mutant of Encoded: the header is the length, not the length plus one.
EncodedZero(packet, e) ==
    IF e.headerOutput THEN packet[e.base + e.runIndex + 1] ELSE e.runLength

\* operator*
Encoded(packet, e) ==
    IF e.headerOutput THEN packet[e.base + e.runIndex + 1] ELSE e.runLength + 1

\* Mutant of NextRun: a byte is skipped after a full run as well.
NextRunSkipping(packet, e) ==
    LET more == e.runIndex < Left(packet, e.base)
        base == e.base + e.runIndex + IF more THEN 1 ELSE 0
    IN  [base |-> base, runLength |-> FindRunLength(packet, base),
         runIndex |-> 0, headerOutput |-> ~more]

\* operator++ at the end of a run: skip the zero the run stands for, if it
\* does, and start on the next run -- or on nothing, past the last one.
NextRun(packet, e) ==
    LET more == e.runIndex < Left(packet, e.base)
        skip == IF more /\ e.runLength < MaxRunLength THEN 1 ELSE 0
        base == e.base + e.runIndex + skip
    IN  [base |-> base, runLength |-> FindRunLength(packet, base),
         runIndex |-> 0, headerOutput |-> ~more]

\* operator++
Advance(packet, e) ==
    LET moved == IF ~e.headerOutput THEN [e EXCEPT !.headerOutput = TRUE]
                 ELSE IF e.runIndex < e.runLength
                      THEN [e EXCEPT !.runIndex = e.runIndex + 1]
                      ELSE e
    IN  IF moved.runIndex = moved.runLength THEN NextRun(packet, moved)
        ELSE moved

\* ~(operator!=)
AtEnd(packet, e) == e.headerOutput /\ e.runIndex = Left(packet, e.base)

\* maxEncodedSize(n): room enough for the encoding of n bytes.
MaxEncodedSize(n) == n + (n + MaxRunLength) \div MaxRunLength

-----------------------------------------------------------------------------
(* Decoder *)

Decoder == [runLength |-> 0, runLengthWasMax |-> TRUE]

\* get(byte): the value to emit; a run's header stands for a zero.
Get(d, byte) == IF d.runLength = 0 THEN 0 ELSE byte

\* What feed(byte) returns: is get's value to be emitted?
Emits(d, byte) == byte = 0 \/ ~(d.runLengthWasMax /\ d.runLength = 0)

\* Mutant of Fed: the header, not the length it stands for, is compared.
FedMaxEarly(d, byte) ==
    IF byte = 0 THEN Decoder
    ELSE IF d.runLength = 0
    THEN [runLength |-> byte - 1, runLengthWasMax |-> byte = MaxRunLength]
    ELSE [d EXCEPT !.runLength = d.runLength - 1]

\* What feed(byte) leaves behind.
Fed(d, byte) ==
    IF byte = 0 THEN Decoder
    ELSE IF d.runLength = 0
    THEN [runLength |-> byte - 1,
          runLengthWasMax |-> byte - 1 = MaxRunLength]
    ELSE [d EXCEPT !.runLength = d.runLength - 1]
=============================================================================
