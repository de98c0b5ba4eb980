------------------------------ MODULE FrameQueue ------------------------------
(***************************************************************************)
(* What CircularBuffer (comms-ccf/circular_buffer.hpp) promises its one    *)
(* producer and its one consumer, with nothing of how it does it: a FIFO   *)
(* of whole packets.  The producer adds elements to an open packet and     *)
(* then either publishes the packet or loses all of it; the consumer holds *)
(* at most one packet at a time, always the oldest, and sees exactly the   *)
(* elements that were pushed.  An element may be refused only when the     *)
(* packet has MaxPacketSize elements already or when there is no room: a   *)
(* packet of n elements takes n + 1 of the Size slots until the consumer   *)
(* gives it back.                                                          *)
(***************************************************************************)
EXTENDS Integers, Sequences

CONSTANTS
    Size,           \* slots of the buffer
    MaxPacketSize,  \* most elements of one packet
    Elements        \* what the producer may push

VARIABLES
    queue,   \* the published packets not yet given back, oldest first
    open,    \* the elements of the packet being assembled
    lost,    \* an element of that packet was refused
    taken,   \* <<p>> while the consumer holds packet p, else << >>
    used     \* the slots the packets of queue take

vars == <<queue, open, lost, taken, used>>

Init ==
    /\ queue = << >>
    /\ open = << >>
    /\ lost = FALSE
    /\ taken = << >>
    /\ used = 0

-----------------------------------------------------------------------------
(* The producer. *)

\* The slots the open packet takes; its length is stored with it.
OpenSlots == IF open = << >> THEN 0 ELSE Len(open) + 1

\* Mutant of Full: the slot for the length of a new packet is forgotten.
FullWithoutLength ==
    \/ Len(open) >= MaxPacketSize
    \/ used + OpenSlots >= Size

Full ==
    \/ Len(open) >= MaxPacketSize
    \/ used + OpenSlots >= Size
    \/ open = << >> /\ used + 1 >= Size

Accept(v) ==
    /\ ~lost /\ ~Full
    /\ open' = Append(open, v)
    /\ UNCHANGED <<queue, lost, taken, used>>

\* Mutant of Refuse: the element is left out and the packet goes on.
RefuseSilently ==
    /\ ~lost /\ Full
    /\ UNCHANGED vars

Refuse ==
    /\ ~lost /\ Full
    /\ lost' = TRUE
    /\ UNCHANGED <<queue, open, taken, used>>

\* Mutant of Publish: the slot for the length is not counted.
PublishWithoutLength ==
    /\ ~lost
    /\ open # << >>
    /\ queue' = Append(queue, open)
    /\ open' = << >>
    /\ used' = used + Len(open)
    /\ UNCHANGED <<lost, taken>>

Publish ==
    /\ ~lost
    /\ open # << >>
    /\ queue' = Append(queue, open)
    /\ open' = << >>
    /\ used' = used + Len(open) + 1
    /\ UNCHANGED <<lost, taken>>

Discard ==
    /\ lost
    /\ lost' = FALSE
    /\ open' = << >>
    /\ UNCHANGED <<queue, taken, used>>

-----------------------------------------------------------------------------
(* The consumer. *)

Take ==
    /\ taken = << >>
    /\ queue # << >>
    /\ taken' = <<Head(queue)>>
    /\ UNCHANGED <<queue, open, lost, used>>

GiveBack ==
    /\ taken # << >>
    /\ queue' = Tail(queue)
    /\ taken' = << >>
    /\ used' = used - (Len(taken[1]) + 1)
    /\ UNCHANGED <<open, lost>>

\* Both sides at rest and no packet held: the buffer may be emptied.
Clear ==
    /\ taken = << >>
    /\ queue' = << >>
    /\ open' = << >>
    /\ lost' = FALSE
    /\ used' = 0
    /\ UNCHANGED taken

-----------------------------------------------------------------------------
(* Whole calls of the producer, for a caller that need not see their parts. *)

\* push_back(v)
Push(v) ==
    \/ Accept(v)
    \/ Refuse
    \/ lost /\ UNCHANGED vars

\* reset_dropped()
ResetDropped ==
    \/ Discard
    \/ ~lost /\ UNCHANGED vars

\* A notify() that finds nothing to publish, once reset_dropped() is done.
NothingToNotify == lost \/ open = << >>

\* It writes the length 0 into the slot behind the last packet all the same.  When
\* every slot is taken, that one holds the length of the oldest packet: unless
\* the consumer has read it already, it will find a packet of no elements there.
\* How it goes on after that is not modelled.
Spoils == NothingToNotify /\ used = Size /\ taken = << >>

NotifyNothing ==
    /\ NothingToNotify
    /\ queue' = IF Spoils THEN [queue EXCEPT ![1] = << >>] ELSE queue
    /\ open' = << >>
    /\ lost' = FALSE
    /\ UNCHANGED <<taken, used>>

\* notify()
Notify == Publish \/ NotifyNothing

-----------------------------------------------------------------------------
Next ==
    \/ \E v \in Elements : Accept(v)
    \/ Refuse
    \/ Publish
    \/ Discard
    \/ Take
    \/ GiveBack
    \/ Clear

Spec == Init /\ [][Next]_vars
=============================================================================
