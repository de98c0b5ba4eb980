------------------------------- MODULE CobsLink -------------------------------
(***************************************************************************)
(* Packets sent over a line: the Encoder, a zero after each packet (as in  *)
(* Ccf::send, ccf.hpp:246-250), a line that may garble, lose or duplicate  *)
(* bytes or add bytes of its own, and the Decoder at the other end as      *)
(* Ccf::receiveCharacter drives it (ccf.hpp:92-122).  The encoded packet   *)
(* crosses the line one byte at a time, so the receiver may start in the   *)
(* middle of one.                                                          *)
(***************************************************************************)
EXTENDS Cobs

CONSTANTS
    PacketBytes,  \* the bytes packets are made of
    MaxLength,    \* the longest packet
    MaxFaults     \* bound: line faults in one behaviour

ASSUME LinkAssumption ==
    /\ PacketBytes \subseteq Byte
    /\ MaxLength \in Nat
    /\ MaxFaults \in Nat

VARIABLES
    packet,    \* the packet being sent
    encoder,   \* the sender's iterator over it
    sent,      \* bytes of it sent so far
    decoder,   \* the receiver's
    received,  \* what it has emitted since the last delimiter
    intact,    \* no fault since the packet before it was delimited
    faults     \* line faults so far

vars == <<packet, encoder, sent, decoder, received, intact, faults>>
senderVars == <<packet, encoder, sent>>
receiverVars == <<decoder, received>>

PacketsToSend == UNION {[1..n -> PacketBytes] : n \in 0..MaxLength}

TypeOK ==
    /\ packet \in Seq(PacketBytes) /\ Len(packet) <= MaxLength
    /\ encoder \in [base : 0..Len(packet), runLength : 0..MaxRunLength,
                    runIndex : 0..MaxRunLength, headerOutput : BOOLEAN]
    /\ sent \in 0..MaxEncodedSize(Len(packet))
    /\ decoder \in [runLength : 0..MaxRunLength, runLengthWasMax : BOOLEAN]
    /\ received \in Seq(Byte)
    /\ intact \in BOOLEAN
    /\ faults \in 0..MaxFaults

Init ==
    /\ packet \in PacketsToSend
    /\ encoder = Encoder(packet)
    /\ sent = 0
    /\ decoder = Decoder
    /\ received = << >>
    /\ intact = TRUE
    /\ faults = 0

-----------------------------------------------------------------------------
(* receiveCharacter: get, then feed; a zero ends the packet. *)

Receive(byte) ==
    /\ decoder' = Fed(decoder, byte)
    /\ received' = IF byte # 0 /\ Emits(decoder, byte)
                   THEN Append(received, Get(decoder, byte))
                   ELSE received

ReceiveDelimiter ==
    /\ decoder' = Fed(decoder, 0)
    /\ received' = << >>

-----------------------------------------------------------------------------
Encode ==
    /\ encoder' = Advance(packet, encoder)
    /\ sent' = sent + 1
    /\ UNCHANGED packet

\* One byte of the encoded packet, unharmed.
SendByte ==
    /\ ~AtEnd(packet, encoder)
    /\ Encode
    /\ Receive(Encoded(packet, encoder))
    /\ UNCHANGED <<intact, faults>>

NewPacket ==
    /\ packet' \in PacketsToSend
    /\ encoder' = Encoder(packet')
    /\ sent' = 0

\* The zero after the packet; the receiver has it all and is in step again.
SendDelimiter ==
    /\ AtEnd(packet, encoder)
    /\ NewPacket
    /\ ReceiveDelimiter
    /\ intact' = TRUE
    /\ UNCHANGED faults

Fault ==
    /\ faults < MaxFaults
    /\ faults' = faults + 1
    /\ intact' = FALSE

\* A byte, or the delimiter, never arrives.
LoseByte ==
    /\ Fault
    /\ ~AtEnd(packet, encoder)
    /\ Encode
    /\ UNCHANGED receiverVars

LoseDelimiter ==
    /\ Fault
    /\ AtEnd(packet, encoder)
    /\ NewPacket
    /\ UNCHANGED receiverVars

\* A byte arrives as another one, or the line adds one between two of ours.
GarbleByte ==
    /\ Fault
    /\ ~AtEnd(packet, encoder)
    /\ Encode
    /\ \/ \E byte \in Byte \ {0, Encoded(packet, encoder)} : Receive(byte)
       \/ ReceiveDelimiter

AddByte ==
    /\ Fault
    /\ \/ \E byte \in Byte \ {0} : Receive(byte)
       \/ ReceiveDelimiter
    /\ UNCHANGED senderVars

Next ==
    \/ SendByte
    \/ SendDelimiter
    \/ LoseByte
    \/ LoseDelimiter
    \/ GarbleByte
    \/ AddByte

Spec == Init /\ [][Next]_vars

-----------------------------------------------------------------------------
\* A packet that crossed the line unharmed, after any number of faults before
\* its predecessor's delimiter, is received as it was sent: the link is
\* self-synchronising (cobs.hpp:3-4, 12).
RoundTrip == intact /\ AtEnd(packet, encoder) => received = packet

\* The encoding contains no zero, so the delimiter is found whatever the
\* packet holds, and is never longer than maxEncodedSize says.
SelfDelimiting ==
    /\ ~AtEnd(packet, encoder) => Encoded(packet, encoder) # 0
    /\ sent <= MaxEncodedSize(Len(packet))

\* Encoder and decoder in step, byte by byte: what the receiver has emitted
\* is what the encoder has left behind, and the decoder counts the same run.
\* (Between runs the zero that ended the run is emitted with the next header.)
InStep ==
    LET done == encoder.base + encoder.runIndex
        midRun == encoder.headerOutput /\ encoder.runIndex < encoder.runLength
        wasMax == decoder.runLengthWasMax
    IN  intact =>
        IF sent = 0 THEN decoder = Decoder /\ received = << >>
        ELSE IF midRun
        THEN /\ decoder.runLength = encoder.runLength - encoder.runIndex
             /\ wasMax <=> encoder.runLength = MaxRunLength
             /\ received = SubSeq(packet, 1, done)
        ELSE /\ decoder.runLength = 0
             /\ IF encoder.headerOutput \/ wasMax
                THEN received = SubSeq(packet, 1, done)
                ELSE /\ packet[done] = 0
                     /\ received = SubSeq(packet, 1, done - 1)
=============================================================================
