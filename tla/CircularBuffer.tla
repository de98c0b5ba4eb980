---------------------------- MODULE CircularBuffer ----------------------------
(***************************************************************************)
(* comms-ccf/circular_buffer.hpp: a Lamport queue for one producer and one *)
(* consumer, with a third cursor, notified, between read and write.  The   *)
(* slot at a packet's start holds its length; the packet is visible to the *)
(* consumer once notified has moved past it.                               *)
(*                                                                         *)
(* Producer and consumer run concurrently (a UART interrupt and a task),   *)
(* so each operation is one step per access to a variable the other side   *)
(* reads or writes: read, notified, dropped and the slots.  write belongs  *)
(* to the producer alone.  Program order is kept, as the header says at    *)
(* lines 46-50 that it must be.                                            *)
(*                                                                         *)
(* Cursors are size_t and wrap at CursorModulus.  A length is stored in    *)
(* sizeBytes slots, which is 1 for every MaxPacketSize (types.hpp), so it  *)
(* is stored modulo ByteModulus.                                           *)
(***************************************************************************)
EXTENDS Integers, Sequences

CONSTANTS
    Size,                \* slots, a power of two in the code
    MaxPacketSize,       \* most elements of one packet
    CursorModulus,       \* 2^(bits of size_t)
    ByteModulus,         \* 2^8
    Elements,            \* the bytes the producer pushes
    EmptyNotifyWhenFull  \* may notify() find no packet and no free slot?

ASSUME SizeAssumption == Size \in Nat /\ Size > 1
ASSUME PacketAssumption == MaxPacketSize \in Nat /\ MaxPacketSize > 0
ASSUME ModulusAssumption ==
    CursorModulus \in Nat /\ CursorModulus > Size /\ CursorModulus % Size = 0
ASSUME ByteAssumption ==
    /\ ByteModulus \in Nat /\ ByteModulus > 0
    /\ Elements \subseteq 0..(ByteModulus - 1)
ASSUME EmptyNotifyAssumption == EmptyNotifyWhenFull \in BOOLEAN

VARIABLES
    buf,       \* the slots
    read,      \* the oldest slot the consumer has not given back
    notified,  \* end of what the consumer may see
    write,     \* next slot to fill
    dropped,   \* an element of the open packet was refused
    producer,  \* what the producer's current call does next
    value,     \* the element of its push_back
    packet,    \* where the open packet starts (notified, outside notify())
    consumer,  \* what the consumer's current call does next
    end,       \* get_frame's copy of notified
    frame,     \* the consumer's std::optional<Frame>
    queue      \* history: the packets published and not yet given back

producerVars == <<notified, write, dropped, producer, value, packet>>
consumerVars == <<read, consumer, end, frame>>
vars == <<buf, producerVars, consumerVars, queue>>

-----------------------------------------------------------------------------
Cursors == 0..(CursorModulus - 1)
Slots == 0..(Size - 1)
Bytes == 0..(ByteModulus - 1)

Slot(cursor) == cursor % Size
\* Mutant of Add: the cursor does not wrap.
AddUnwrapped(cursor, n) == cursor + n

Add(cursor, n) == (cursor + n) % CursorModulus
\* Unsigned subtraction: how far cursor `to` is ahead of cursor `from`.
Distance(from, to) == (to - from) % CursorModulus

\* What the history records of a published packet.
Packets == [at : Cursors, data : Seq(Bytes)]

NoFrame == [held |-> FALSE, begin |-> 0, end |-> 0]

size == Distance(read, write)
readable == Distance(read, notified)
\* unnotified(): the elements after the slot kept for the length.
Unnotified(from) ==
    LET n == Distance(from, write) IN IF n = 0 THEN 0 ELSE n - 1
\* Mutant of Overfull: off by one, the element past the last free slot.
OverfullLate == Unnotified(packet) >= MaxPacketSize \/ size > Size

Overfull == Unnotified(packet) >= MaxPacketSize \/ size >= Size

\* The n elements an Iterator yields from cursor `from` on.
Contents(from, n) == [i \in 1..n |-> buf[Slot(Add(from, i - 1))]]

\* Cursors stay cursors though they wrap, slots hold bytes, a call is at one of
\* its steps (circular_buffer.hpp:299-304).
TypeOK ==
    /\ buf \in [Slots -> Bytes]
    /\ read \in Cursors /\ notified \in Cursors /\ write \in Cursors
    /\ packet \in Cursors /\ end \in Cursors
    /\ dropped \in BOOLEAN
    /\ producer \in {"idle", "reserve", "store", "bump", "size", "publish"}
    /\ value \in Bytes
    /\ consumer \in {"idle", "test", "load", "size"}
    /\ frame \in [held : BOOLEAN, begin : Cursors, end : Cursors]
    /\ queue \in Seq(Packets)

Init ==
    /\ buf = [s \in Slots |-> 0]
    /\ read = 0 /\ notified = 0 /\ write = 0 /\ packet = 0 /\ end = 0
    /\ dropped = FALSE
    /\ producer = "idle" /\ value = 0
    /\ consumer = "idle"
    /\ frame = NoFrame
    /\ queue = << >>

-----------------------------------------------------------------------------
(* push_back(v) *)

\* The first check; it reads the consumer's cursor.
PushCheck(v) ==
    /\ producer = "idle"
    /\ producer' = "reserve"
    /\ value' = v
    /\ dropped' = (dropped \/ Overfull)
    /\ UNCHANGED <<buf, notified, write, packet, consumerVars, queue>>

\* Mutant of PushReserve: no second check once the length has its slot.
PushReserveUnchecked ==
    /\ producer = "reserve"
    /\ producer' = "store"
    /\ write' = IF ~dropped /\ notified = write THEN Add(write, 1) ELSE write
    /\ UNCHANGED <<buf, notified, dropped, value, packet, consumerVars, queue>>

\* Keep a slot for the length if the packet is new, then check again with
\* whatever the consumer's cursor is by now.
PushReserve ==
    /\ producer = "reserve"
    /\ producer' = "store"
    /\ write' = IF ~dropped /\ notified = write THEN Add(write, 1) ELSE write
    /\ UNCHANGED <<buf, notified, value, packet, consumerVars, queue>>
    /\ dropped' = (dropped \/ Overfull')

PushStore ==
    /\ producer = "store"
    /\ producer' = "idle"
    /\ value' = 0
    /\ \/ /\ dropped
          /\ UNCHANGED <<buf, write>>
       \/ /\ ~dropped
          /\ buf' = [buf EXCEPT ![Slot(write)] = value]
          /\ write' = Add(write, 1)
    /\ UNCHANGED <<notified, dropped, packet, consumerVars, queue>>

-----------------------------------------------------------------------------
(* reset_dropped() and notify() *)

\* Mutant of DropPacket: what was pushed of the packet stays.
DropPacketKept == dropped' = FALSE /\ UNCHANGED write

DropPacket ==
    /\ dropped' = FALSE
    /\ write' = IF dropped THEN notified ELSE write

ResetDropped ==
    /\ producer = "idle"
    /\ DropPacket
    /\ UNCHANGED <<buf, notified, producer, value, packet, consumerVars, queue>>

NothingToNotify == dropped \/ write = notified

\* Mutant of Notify: no reset_dropped() first.
NotifyPartial ==
    /\ producer = "idle"
    /\ (NothingToNotify /\ readable = Size) => EmptyNotifyWhenFull
    /\ producer' = "bump"
    /\ UNCHANGED <<buf, notified, write, dropped, value, packet, consumerVars,
                   queue>>

\* notify() starts with reset_dropped().  Whether it may be called with
\* nothing to notify and every slot unread is up to the callers.
Notify ==
    /\ producer = "idle"
    /\ (NothingToNotify /\ readable = Size) => EmptyNotifyWhenFull
    /\ producer' = "bump"
    /\ DropPacket
    /\ UNCHANGED <<buf, notified, value, packet, consumerVars, queue>>

\* buf[notified++ % Size] = size: the compiler may or may not let the
\* consumer see the incremented cursor before notify() assigns it again.
NotifyBump ==
    /\ producer = "bump"
    /\ producer' = "size"
    /\ notified' \in {notified, Add(notified, 1)}
    /\ UNCHANGED <<buf, write, dropped, value, packet, consumerVars, queue>>

NotifySize ==
    /\ producer = "size"
    /\ producer' = "publish"
    /\ buf' = [buf EXCEPT ![Slot(packet)] = Unnotified(packet) % ByteModulus]
    /\ UNCHANGED <<notified, write, dropped, value, packet, consumerVars, queue>>

\* Mutant of NotifyPublish: the cursor is not moved to the packet's end.
NotifyUnpublished ==
    /\ producer = "publish"
    /\ producer' = "idle"
    /\ packet' = write
    /\ queue' = IF write = packet THEN queue
                ELSE Append(queue,
                       [at |-> packet,
                        data |-> Contents(Add(packet, 1), Unnotified(packet))])
    /\ UNCHANGED <<buf, notified, write, dropped, value, consumerVars>>

NotifyPublish ==
    /\ producer = "publish"
    /\ producer' = "idle"
    /\ notified' = write
    /\ packet' = write
    /\ queue' = IF write = packet THEN queue
                ELSE Append(queue,
                       [at |-> packet,
                        data |-> Contents(Add(packet, 1), Unnotified(packet))])
    /\ UNCHANGED <<buf, write, dropped, value, consumerVars>>

-----------------------------------------------------------------------------
(* get_frame(frame), and the destructor of the Frame in the optional *)

\* ~Frame gives the packet's slots back; an empty optional changes nothing.
DropFrame ==
    /\ frame' = NoFrame
    /\ read' = IF frame.held THEN frame.end ELSE read
    /\ queue' = IF frame.held /\ queue # << >> THEN Tail(queue) ELSE queue

\* The consumer lets go of its frame without asking for another.
ResetFrame ==
    /\ consumer = "idle"
    /\ frame.held
    /\ DropFrame
    /\ UNCHANGED <<buf, producerVars, consumer, end>>

GetFrame ==
    /\ consumer = "idle"
    /\ consumer' = "test"
    /\ DropFrame
    /\ UNCHANGED <<buf, producerVars, end>>

GetFrameTest ==
    /\ consumer = "test"
    /\ consumer' = IF dropped THEN "idle" ELSE "load"
    /\ UNCHANGED <<buf, producerVars, read, end, frame, queue>>

GetFrameLoad ==
    /\ consumer = "load"
    /\ \/ /\ read = notified
          /\ consumer' = "idle"
          /\ end' = end
       \/ /\ read # notified
          /\ consumer' = "size"
          /\ end' = notified
    /\ UNCHANGED <<buf, producerVars, read, frame, queue>>

\* Mutant of GetFrameSize: the end counted from the length, not from after it.
GetFrameSizeShort ==
    /\ consumer = "size"
    /\ consumer' = "idle"
    /\ end' = 0
    /\ LET begin == Add(read, 1)
       IN  frame' = IF begin = end THEN NoFrame
                    ELSE [held |-> TRUE, begin |-> begin,
                          end |-> Add(read, buf[Slot(read)])]
    /\ UNCHANGED <<buf, producerVars, read, queue>>

\* The length byte, then Frame(start, start + length) -- unless nothing
\* follows the length ("Zero length item").
GetFrameSize ==
    /\ consumer = "size"
    /\ consumer' = "idle"
    /\ end' = 0
    /\ LET begin == Add(read, 1)
       IN  frame' = IF begin = end THEN NoFrame
                    ELSE [held |-> TRUE, begin |-> begin,
                          end |-> Add(begin, buf[Slot(read)])]
    /\ UNCHANGED <<buf, producerVars, read, queue>>

-----------------------------------------------------------------------------
\* reset() is for a buffer nobody is using.
Reset ==
    /\ producer = "idle" /\ consumer = "idle" /\ ~frame.held
    /\ read' = 0 /\ notified' = 0 /\ write' = 0 /\ packet' = 0
    /\ dropped' = FALSE
    /\ queue' = << >>
    /\ UNCHANGED <<buf, producer, value, consumer, end, frame>>

Produce ==
    \/ \E v \in Elements : PushCheck(v)
    \/ PushReserve
    \/ PushStore
    \/ ResetDropped
    \/ Notify
    \/ NotifyBump
    \/ NotifySize
    \/ NotifyPublish

Consume ==
    \/ ResetFrame
    \/ GetFrame
    \/ GetFrameTest
    \/ GetFrameLoad
    \/ GetFrameSize

Next == Produce \/ Consume \/ Reset

Spec == Init /\ [][Next]_vars

-----------------------------------------------------------------------------
(* Safety *)

\* The cursors keep their order and never span more than the buffer, though
\* each may have wrapped and push_back's two checks see the read cursor at
\* different times: read, then packet (the committed end), then write, all
\* within Size slots (size() <= capacity(), lines 93-98).
CursorsOrdered ==
    /\ Distance(read, packet) + Distance(packet, write) <= Size
    /\ notified \in {packet, Add(packet, 1)}
    /\ notified # packet => producer \in {"size", "publish"}

\* The published packets lie one after another from read to packet, each with
\* room for its length: giving a frame back (~Frame, line 233) moves read to
\* exactly where the next packet's length is.
EndOf(p) == Add(p.at, Len(p.data) + 1)
PacketsAdjacent ==
    /\ queue = << >> => read = packet
    /\ queue # << >> => /\ queue[1].at = read
                        /\ EndOf(queue[Len(queue)]) = packet
    /\ \A i \in 1..(Len(queue) - 1) : EndOf(queue[i]) = queue[i + 1].at

\* No push_back or notify() ever overwrites a slot of a packet the consumer
\* has not given back: its length and its elements are what was published.
PublishedIntact ==
    \A i \in 1..Len(queue) :
        LET p == queue[i]
        IN  /\ buf[Slot(p.at)] = Len(p.data)
            /\ Contents(Add(p.at, 1), Len(p.data)) = p.data

\* A frame get_frame has emplaced is exactly the oldest published packet,
\* whatever the producer did since (lines 247-288).
HeldFrameIsOldest ==
    frame.held =>
        /\ queue # << >>
        /\ frame.begin = Add(queue[1].at, 1)
        /\ frame.end = EndOf(queue[1])

-----------------------------------------------------------------------------
(* The inductive invariant behind the four above. *)

Offset(cursor) == Distance(read, cursor)
After(p) == Offset(p.at) + Len(p.data) + 1

\* The packets are disjoint and in order, all of them before the open one.
PacketsOrdered ==
    /\ \A i \in 1..Len(queue) : After(queue[i]) <= Offset(packet)
    /\ \A i, j \in 1..Len(queue) :
           i < j => After(queue[i]) <= Offset(queue[j].at)

\* What the steps of a producer's call may rely on between two accesses.
\* Giving slots back can only make room, so a check stays good.
Room == Offset(packet) + Distance(packet, write) < Size
ProducerInv ==
    /\ Unnotified(packet) <= MaxPacketSize
    /\ ~dropped /\ write # packet /\ producer # "store" => Unnotified(packet) > 0
    /\ producer \in {"reserve", "store"} /\ ~dropped =>
           Room /\ Unnotified(packet) < MaxPacketSize
    /\ producer = "store" /\ ~dropped => write # packet
    /\ producer \in {"bump", "size", "publish"} =>
           /\ ~dropped
           /\ write = packet => Offset(packet) < Size
    /\ producer = "publish" => buf[Slot(packet)] = Unnotified(packet)

\* get_frame's copy of notified: past a published packet, or at most the
\* half-done notify() that its test for a zero length catches.
ConsumerInv ==
    /\ consumer # "idle" => ~frame.held
    /\ consumer = "size" => queue # << >> \/ end = Add(read, 1)

IndInv ==
    /\ TypeOK
    /\ CursorsOrdered
    /\ PacketsAdjacent
    /\ PacketsOrdered
    /\ PublishedIntact
    /\ HeldFrameIsOldest
    /\ ProducerInv
    /\ ConsumerInv

-----------------------------------------------------------------------------
(* Liveness *)

\* A call that has begun returns: interrupts and tasks run to completion.
\* The consumer asks again and again.
Fairness ==
    /\ WF_vars(PushReserve) /\ WF_vars(PushStore)
    /\ WF_vars(NotifyBump) /\ WF_vars(NotifySize) /\ WF_vars(NotifyPublish)
    /\ WF_vars(GetFrame)
    /\ WF_vars(GetFrameTest) /\ WF_vars(GetFrameLoad) /\ WF_vars(GetFrameSize)

FairSpec == Spec /\ Fairness

\* A consumer that keeps asking gets the oldest packet, unless the producer
\* is in the middle of a packet it is dropping: seeing notify() half done
\* ("Zero length item", line 285) only delays it.
PublishedIsTaken == (queue # << >>) ~> (frame.held \/ dropped \/ queue = << >>)

-----------------------------------------------------------------------------
(* Refinement: the buffer is a FrameQueue.  The open packet and the packet *)
(* the consumer holds are read out of the slots, not out of the history.   *)

Abstract == INSTANCE FrameQueue WITH
    queue <- [i \in 1..Len(queue) |-> queue[i].data],
    open  <- Contents(Add(packet, 1), Unnotified(packet)),
    lost  <- dropped,
    taken <- IF frame.held
             THEN <<Contents(frame.begin, Distance(frame.begin, frame.end))>>
             ELSE << >>,
    used  <- Distance(read, packet)

\* Every step of producer or consumer is a step of the FIFO of whole packets,
\* or changes nothing the FIFO shows.
ImplementsFrameQueue == Abstract!Spec
=============================================================================
