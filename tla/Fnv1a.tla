--------------------------------- MODULE Fnv1a ---------------------------------
(***************************************************************************)
(* comms-ccf/fnv1a.hpp: the checksum at the end of every packet.  A byte   *)
(* is 0..Base-1 and the hash has HashSize bytes; in the code 256 and 4,    *)
(* with the prime 0x01000193 and the initial hash 0x811c9dc5.              *)
(***************************************************************************)
EXTENDS Integers, Sequences

CONSTANTS Base, Prime, InitialHash

HashSize == 4
HashModulus == Base * Base * Base * Base

\* The bits of weight w, of bytes of at most eight bits, are added without carry.
Xor(a, b) ==
    LET Bit(w) == w * ((a \div w + b \div w) % 2)
    IN  Bit(1) + Bit(2) + Bit(4) + Bit(8) + Bit(16) + Bit(32) + Bit(64) + Bit(128)

\* hash ^ byte changes the lowest byte only.
Feed(hash, byte) ==
    (((hash \div Base) * Base + Xor(hash % Base, byte)) * Prime) % HashModulus

Hashes == 0..(HashModulus - 1)

\* last[i]: what the last i of the bytes make of a hash.
Checksum(bytes) ==
    LET last[i \in 0..Len(bytes)] ==
            IF i = 0 THEN [hash \in Hashes |-> hash]
            ELSE [hash \in Hashes |->
                     last[i - 1][Feed(hash, bytes[Len(bytes) - i + 1])]]
    IN  last[Len(bytes)][InitialHash]

\* Mutant of LittleEndian: the shifted hash is not cut to a byte.
LittleEndianUncut(hash) ==
    <<hash, hash \div Base, hash \div (Base * Base), hash \div (Base * Base * Base)>>

\* The hash as putAtEnd stores it, least byte first.
LittleEndian(hash) ==
    <<hash % Base, (hash \div Base) % Base, (hash \div (Base * Base)) % Base,
      (hash \div (Base * Base * Base)) % Base>>

\* putAtEnd(span), on a span whose last HashSize bytes are still to come.
PutAtEnd(bytes) == bytes \o LittleEndian(Checksum(bytes))

\* Mutant of CheckAtEnd: only the last byte of the hash is compared.
CheckAtEndLast(packet) ==
    LET body == Len(packet) - HashSize
        stored == SubSeq(packet, body + 1, Len(packet))
    IN  /\ body >= 0
        /\ LittleEndian(Checksum(SubSeq(packet, 1, body)))[HashSize] = stored[HashSize]

\* checkAtEnd(span)
CheckAtEnd(packet) ==
    LET body == Len(packet) - HashSize
    IN  /\ body >= 0
        /\ LittleEndian(Checksum(SubSeq(packet, 1, body)))
               = SubSeq(packet, body + 1, Len(packet))
=============================================================================
