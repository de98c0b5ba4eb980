--------------------------- MODULE FrameQueue_proofs ---------------------------
(***************************************************************************)
(* Facts about FrameQueue for the modules that compose it: its types, and  *)
(* that the packets in the queue and the open one fit into the slots,      *)
(* however elements are pushed and packets taken.                          *)
(***************************************************************************)
EXTENDS FrameQueue, SequenceTheorems, TLAPS

\* The packets of q end one after the other, the last of them at n.
EndsAt(q, n) ==
    \E end \in [0..Len(q) -> Nat] :
        /\ end[0] = 0 /\ end[Len(q)] = n
        /\ \A i \in 1..Len(q) : end[i] = end[i - 1] + Len(q[i]) + 1
        /\ \A i, j \in 0..Len(q) : i <= j => end[i] <= end[j]

Typed ==
    /\ queue \in Seq(Seq(Elements)) /\ open \in Seq(Elements)
    /\ taken = << >> \/ (queue # << >> /\ taken = <<queue[1]>>)
    /\ lost \in BOOLEAN /\ used \in Nat

\* The inductive invariant.
Fits == Typed /\ EndsAt(queue, used) /\ used + OpenSlots <= Size

LEMMA EndsAtAppend ==
    ASSUME NEW S, NEW q \in Seq(Seq(S)), NEW n \in Nat, EndsAt(q, n), NEW p \in Seq(S)
    PROVE  EndsAt(Append(q, p), n + Len(p) + 1)
<1>1. PICK end \in [0..Len(q) -> Nat] :
          /\ end[0] = 0 /\ end[Len(q)] = n
          /\ \A i \in 1..Len(q) : end[i] = end[i - 1] + Len(q[i]) + 1
          /\ \A i, j \in 0..Len(q) : i <= j => end[i] <= end[j]
  BY DEF EndsAt
<1> DEFINE m == n + Len(p) + 1
           all == Append(q, p)
           more == [i \in 0..Len(all) |-> IF i <= Len(q) THEN end[i] ELSE m]
<1>2. Len(q) \in Nat /\ Len(p) \in Nat
  BY LenProperties
<1>3. /\ Len(all) = Len(q) + 1
      /\ \A i \in 1..Len(q) : all[i] = q[i]
      /\ all[Len(q) + 1] = p
  <2> DEFINE Packets == Seq(S)
  <2>1. q \in Seq(Packets) /\ p \in Packets
    OBVIOUS
  <2> HIDE DEF Packets
  <2> QED BY <2>1, AppendProperties
<1> HIDE DEF all
<1>4. m \in Nat /\ n <= m
  BY <1>2
<1>5. more \in [0..Len(all) -> Nat]
  <2> HIDE DEF m
  <2> QED BY <1>2, <1>3, <1>4
<1>6. /\ \A i \in 0..Len(q) : more[i] = end[i]
      /\ more[Len(q) + 1] = m
  <2> HIDE DEF m
  <2> QED BY <1>2, <1>3
<1> HIDE DEF more
<1>7. more[0] = 0 /\ more[Len(all)] = m
  BY <1>1, <1>2, <1>3, <1>6
<1>8. ASSUME NEW i \in 1..Len(all)
      PROVE  more[i] = more[i - 1] + Len(all[i]) + 1
  <2>1. CASE i \in 1..Len(q)
    <3>1. i \in 0..Len(q) /\ i - 1 \in 0..Len(q)
      BY <1>2, <2>1
    <3> QED BY <1>1, <1>3, <1>6, <2>1, <3>1
  <2>2. CASE i = Len(q) + 1
    <3>1. i - 1 = Len(q) /\ i - 1 \in 0..Len(q)
      BY <1>2, <2>2
    <3> QED BY <1>1, <1>3, <1>6, <2>2, <3>1
  <2> QED BY <1>2, <1>3, <2>1, <2>2
<1>9. ASSUME NEW i \in 0..Len(all), NEW j \in 0..Len(all), i <= j
      PROVE  more[i] <= more[j]
  <2>1. CASE j \in 0..Len(q)
    <3>1. i \in 0..Len(q)
      BY <1>2, <1>9, <2>1
    <3> QED BY <1>1, <1>6, <1>9, <2>1, <3>1
  <2>2. CASE j = Len(q) + 1 /\ i \in 0..Len(q)
    <3>1. Len(q) \in 0..Len(q) /\ i <= Len(q)
      BY <1>2, <2>2
    <3>2. end[i] <= n /\ end[i] \in Nat
      BY <1>1, <2>2, <3>1
    <3> HIDE DEF m
    <3> QED BY <1>4, <1>6, <2>2, <3>2
  <2>3. CASE i = Len(q) + 1 /\ j = Len(q) + 1
    <3> HIDE DEF m
    <3> QED BY <1>4, <1>6, <2>3
  <2> QED BY <1>2, <1>3, <1>9, <2>1, <2>2, <2>3
<1> HIDE DEF m
<1>10. EndsAt(all, m)
  BY <1>5, <1>7, <1>8, <1>9 DEF EndsAt
<1> QED BY <1>10 DEF all, m

LEMMA EndsAtTail ==
    ASSUME NEW S, NEW q \in Seq(Seq(S)), q # << >>, NEW n \in Nat, EndsAt(q, n)
    PROVE  n - (Len(q[1]) + 1) \in Nat /\ EndsAt(Tail(q), n - (Len(q[1]) + 1))
<1>1. PICK end \in [0..Len(q) -> Nat] :
          /\ end[0] = 0 /\ end[Len(q)] = n
          /\ \A i \in 1..Len(q) : end[i] = end[i - 1] + Len(q[i]) + 1
          /\ \A i, j \in 0..Len(q) : i <= j => end[i] <= end[j]
  BY DEF EndsAt
<1> DEFINE Packets == Seq(S)
           first == Len(q[1]) + 1
           rest == Tail(q)
           less == [i \in 0..Len(rest) |-> end[i + 1] - first]
<1>2. Len(q) \in Nat \ {0} /\ 1 \in 1..Len(q)
  <2>1. q \in Seq(Packets)
    OBVIOUS
  <2> HIDE DEF Packets
  <2> QED BY <2>1, EmptySeq
<1>3. Len(q[1]) \in Nat
  <2>1. q[1] \in Packets
    <3>1. q \in Seq(Packets)
      OBVIOUS
    <3> HIDE DEF Packets
    <3> QED BY <1>2, <3>1, ElementOfSeq
  <2> QED BY <2>1, LenProperties
<1>4. /\ Len(rest) = Len(q) - 1
      /\ \A i \in 1..Len(rest) : rest[i] = q[i + 1]
  <2>1. q \in Seq(Packets)
    OBVIOUS
  <2> HIDE DEF Packets
  <2> QED BY <2>1, HeadTailProperties
<1> HIDE DEF rest
<1>5. end[1] = first
  BY <1>1, <1>2, <1>3
<1>6. first \in Nat
  BY <1>3
<1>7. ASSUME NEW i \in 1..Len(q)
      PROVE  end[i] \in Nat /\ end[i] - first \in Nat
  <2>1. i \in 0..Len(q) /\ 1 \in 0..Len(q) /\ 1 <= i
    BY <1>2
  <2>2. end[1] <= end[i] /\ end[i] \in Nat
    BY <1>1, <2>1
  <2> HIDE DEF first
  <2> QED BY <1>5, <1>6, <2>1, <2>2
<1>8. \A i \in 0..Len(rest) : i + 1 \in 1..Len(q)
  BY <1>2, <1>4
<1> HIDE DEF first
<1>9. less \in [0..Len(rest) -> Nat]
  BY <1>7, <1>8
<1>10. \A i \in 0..Len(rest) : less[i] = end[i + 1] - first
  OBVIOUS
<1> HIDE DEF less
<1>11. less[0] = 0 /\ less[Len(rest)] = n - first /\ n - first \in Nat
  <2>1. 0 \in 0..Len(rest) /\ Len(rest) \in 0..Len(rest) /\ Len(rest) + 1 = Len(q)
        /\ 0 + 1 = 1
    BY <1>2, <1>4
  <2>2. less[0] = first - first /\ less[Len(rest)] = n - first
    BY <1>1, <1>5, <1>10, <2>1
  <2> QED BY <1>1, <1>2, <1>7, <1>6, <2>2
<1>12. ASSUME NEW i \in 1..Len(rest)
       PROVE  less[i] = less[i - 1] + Len(rest[i]) + 1
  <2>1. /\ i \in 0..Len(rest) /\ i - 1 \in 0..Len(rest) /\ (i - 1) + 1 = i
        /\ i + 1 \in 1..Len(q) /\ i \in 1..Len(q) /\ (i + 1) - 1 = i
    BY <1>2, <1>4
  <2>2. less[i] = end[i + 1] - first /\ less[i - 1] = end[i] - first /\ rest[i] = q[i + 1]
    BY <1>4, <1>10, <2>1
  <2>3. end[i + 1] = end[i] + Len(q[i + 1]) + 1
    BY <1>1, <2>1
  <2>4. end[i + 1] \in Nat /\ end[i] \in Nat
    BY <1>7, <2>1
  <2>5. Len(q[i + 1]) \in Nat
    <3>1. q[i + 1] \in Packets
      <4>1. q \in Seq(Packets)
        OBVIOUS
      <4> HIDE DEF Packets
      <4> QED BY <2>1, <4>1, ElementOfSeq
    <3> QED BY <3>1, LenProperties
  <2>6. \A a, b, c \in Nat : a = b + c + 1 => a - first = (b - first) + c + 1
    BY <1>6
  <2>7. end[i + 1] - first = (end[i] - first) + Len(q[i + 1]) + 1
    BY <2>3, <2>4, <2>5, <2>6
  <2> QED BY <2>2, <2>7
<1>13. ASSUME NEW i \in 0..Len(rest), NEW j \in 0..Len(rest), i <= j
       PROVE  less[i] <= less[j]
  <2>1. i + 1 \in 1..Len(q) /\ j + 1 \in 1..Len(q)
        /\ i + 1 \in 0..Len(q) /\ j + 1 \in 0..Len(q) /\ i + 1 <= j + 1
    BY <1>2, <1>8, <1>13
  <2>2. end[i + 1] <= end[j + 1] /\ end[i + 1] \in Nat /\ end[j + 1] \in Nat
    BY <1>1, <1>7, <2>1
  <2> QED BY <1>6, <1>10, <2>2
<1>14. EndsAt(rest, n - first)
  BY <1>9, <1>11, <1>12, <1>13 DEF EndsAt
<1> QED BY <1>11, <1>14 DEF rest, first
-----------------------------------------------------------------------------
(* Every call keeps Fits *)

LEMMA OpenLength ==
    ASSUME open \in Seq(Elements)
    PROVE  /\ Len(open) \in Nat /\ OpenSlots \in Nat
           /\ open # << >> => OpenSlots = Len(open) + 1
           /\ open = << >> => OpenSlots = 0
BY LenProperties DEF OpenSlots

LEMMA InitFits ==
    ASSUME Size \in Nat, Init
    PROVE  Fits
<1>1. << >> \in Seq(Seq(Elements)) /\ << >> \in Seq(Elements) /\ Len(<< >>) = 0
  BY EmptySeq
<1>2. EndsAt(<< >>, 0)
  <2> DEFINE end == [i \in 0..0 |-> 0]
  <2>1. /\ end \in [0..0 -> Nat] /\ end[0] = 0
        /\ \A i \in 1..0 : end[i] = end[i - 1] + Len(<< >>[i]) + 1
        /\ \A i, j \in 0..0 : i <= j => end[i] <= end[j]
    OBVIOUS
  <2> HIDE DEF end
  <2> QED BY <1>1, <2>1 DEF EndsAt
<1>3. queue = << >> /\ open = << >> /\ taken = << >> /\ lost = FALSE /\ used = 0
  BY DEF Init
<1>4. OpenSlots = 0 /\ used + OpenSlots <= Size
  BY <1>3 DEF OpenSlots
<1>5. Typed
  BY <1>1, <1>3 DEF Typed
<1> QED BY <1>2, <1>3, <1>4, <1>5 DEF Fits

\* push_back: the open packet grows by the element, in a slot that was free.
LEMMA PushFits ==
    ASSUME Size \in Nat, Fits, NEW v \in Elements, Push(v)
    PROVE  Fits'
<1>1. open \in Seq(Elements) /\ used \in Nat /\ used + OpenSlots <= Size
  BY DEF Fits, Typed
<1>2. CASE Accept(v)
  <2>1. open' = Append(open, v) /\ UNCHANGED <<queue, lost, taken, used>> /\ ~Full
    BY <1>2 DEF Accept
  <2>2. open' \in Seq(Elements) /\ open' # << >> /\ Len(open') = Len(open) + 1
    BY <1>1, <2>1, AppendProperties
  <2>3. OpenSlots' = Len(open) + 2
    BY <1>1, <2>2, OpenLength DEF OpenSlots
  <2>4. used + Len(open) + 2 <= Size
    <3>1. CASE open = << >>
      BY <1>1, <2>1, <3>1, EmptySeq, OpenLength DEF Full
    <3>2. CASE open # << >>
      <4>1. used + OpenSlots < Size
        BY <1>1, <2>1, OpenLength DEF Full
      <4> QED BY <1>1, <3>2, <4>1, OpenLength
    <3> QED BY <3>1, <3>2
  <2>5. used' + OpenSlots' <= Size
    BY <1>1, <2>1, <2>3, <2>4, OpenLength
  <2> QED BY <2>1, <2>2, <2>5 DEF Fits, Typed
<1>3. CASE Refuse \/ (lost /\ UNCHANGED vars)
  <2>1. UNCHANGED <<queue, open, taken, used>> /\ lost' \in BOOLEAN
    BY <1>3 DEF Refuse, vars, Fits, Typed
  <2> QED BY <2>1 DEF Fits, Typed, OpenSlots
<1> QED BY <1>2, <1>3 DEF Push

LEMMA PublishFits ==
    ASSUME Size \in Nat, Fits, Publish
    PROVE  Fits'
<1> DEFINE Packets == Seq(Elements)
<1>1. /\ open \in Packets /\ open # << >> /\ queue \in Seq(Packets)
      /\ used \in Nat /\ used + OpenSlots <= Size
      /\ taken = << >> \/ (queue # << >> /\ taken = <<queue[1]>>)
  BY DEF Fits, Typed, Publish
<1>2. /\ queue' = Append(queue, open) /\ open' = << >>
      /\ used' = used + Len(open) + 1
      /\ lost' = lost /\ taken' = taken
  BY DEF Publish
<1>3. Len(open) \in Nat /\ OpenSlots = Len(open) + 1
  BY <1>1, OpenLength
<1>4. EndsAt(queue', used')
  BY <1>1, <1>2, EndsAtAppend DEF Fits
<1> HIDE DEF Packets
<1>5. /\ queue' \in Seq(Packets) /\ queue' # << >>
      /\ queue # << >> => queue'[1] = queue[1]
  <2>1. queue # << >> => 1 \in 1..Len(queue)
    BY <1>1, EmptySeq
  <2> QED BY <1>1, <1>2, <2>1, AppendProperties
<1>6. taken' = << >> \/ (queue' # << >> /\ taken' = <<queue'[1]>>)
  BY <1>1, <1>2, <1>5
<1>7. open' \in Seq(Elements) /\ OpenSlots' = 0
  BY <1>2, EmptySeq DEF OpenSlots
<1>8. used' \in Nat /\ used' + OpenSlots' <= Size
  BY <1>1, <1>2, <1>3, <1>7
<1> QED BY <1>2, <1>4, <1>5, <1>6, <1>7, <1>8 DEF Fits, Typed, Packets

LEMMA DiscardFits ==
    ASSUME Size \in Nat, Fits, Discard
    PROVE  Fits'
<1>1. open' = << >> /\ lost' = FALSE /\ UNCHANGED <<queue, taken, used>>
  BY DEF Discard
<1>2. open' \in Seq(Elements) /\ OpenSlots' = 0
  BY <1>1, EmptySeq DEF OpenSlots
<1>3. used' + OpenSlots' <= Size
  BY <1>1, <1>2, OpenLength DEF Fits, Typed
<1> QED BY <1>1, <1>2, <1>3 DEF Fits, Typed

\* notify and reset_dropped; a notify() that spoils the oldest packet is left out.
LEMMA NotifyFits ==
    ASSUME Size \in Nat, Fits, ResetDropped \/ Publish \/ (NotifyNothing /\ ~Spoils)
    PROVE  Fits'
<1>1. CASE UNCHANGED vars
  BY <1>1 DEF Fits, Typed, OpenSlots, vars
<1>2. CASE NotifyNothing /\ ~Spoils
  <2>1. open' = << >> /\ lost' = FALSE /\ UNCHANGED <<queue, taken, used>>
    BY <1>2 DEF NotifyNothing
  <2>2. CASE lost
    BY <1>2, <2>1, <2>2, DiscardFits DEF Discard
  <2>3. CASE open = << >>
    BY <2>1, <2>3 DEF Fits, Typed, OpenSlots
  <2> QED BY <1>2, <2>2, <2>3 DEF NotifyNothing, NothingToNotify
<1> QED BY <1>1, <1>2, PublishFits, DiscardFits DEF ResetDropped

\* get_frame: the frame is the oldest packet ...
LEMMA TakeFits ==
    ASSUME Size \in Nat, Fits, Take
    PROVE  Fits'
<1>1. queue # << >> /\ taken' = <<Head(queue)>> /\ UNCHANGED <<queue, open, lost, used>>
  BY DEF Take
<1>2. Head(queue) = queue[1]
  BY <1>1, HeadTailProperties DEF Fits, Typed
<1> QED BY <1>1, <1>2 DEF Fits, Typed, OpenSlots

\* ... and its destructor frees the slots of just that packet.
LEMMA GiveBackFits ==
    ASSUME Size \in Nat, Fits, GiveBack
    PROVE  Fits'
<1> DEFINE Packets == Seq(Elements)
           left == used - (Len(queue[1]) + 1)
<1>1. /\ queue \in Seq(Packets) /\ queue # << >> /\ taken = <<queue[1]>>
      /\ used \in Nat /\ EndsAt(queue, used) /\ used + OpenSlots <= Size
  BY DEF Fits, Typed, GiveBack
<1>2. queue' = Tail(queue) /\ taken' = << >> /\ used' = left /\ UNCHANGED <<open, lost>>
  BY <1>1 DEF GiveBack
<1>3. left \in Nat /\ EndsAt(Tail(queue), left)
  BY <1>1, EndsAtTail
<1>4. left <= used
  <2>1. Len(queue[1]) \in Nat
    <3>1. queue[1] \in Packets
      <4> HIDE DEF Packets
      <4>1. 1 \in 1..Len(queue)
        BY <1>1, EmptySeq
      <4> QED BY <1>1, <4>1, ElementOfSeq
    <3> QED BY <3>1, LenProperties
  <2>2. \A a, b \in Nat : a - (b + 1) <= a
    OBVIOUS
  <2>3. used \in Nat
    BY <1>1
  <2> QED BY <2>1, <2>2, <2>3
<1> HIDE DEF left
<1>5. Tail(queue) \in Seq(Packets)
  <2> HIDE DEF Packets
  <2> QED BY <1>1, HeadTailProperties
<1>6. OpenSlots' = OpenSlots /\ OpenSlots \in Nat
  BY <1>2, OpenLength DEF OpenSlots, Fits, Typed
<1>7. used' + OpenSlots' <= Size
  BY <1>1, <1>2, <1>3, <1>4, <1>6
<1> QED BY <1>2, <1>3, <1>5, <1>7 DEF Fits, Typed

LEMMA UnchangedFits == Fits /\ UNCHANGED vars => Fits'
BY DEF Fits, Typed, OpenSlots, vars

\* What the types of the variables are then.
LEMMA FitsTyped ==
    ASSUME Size \in Nat, Fits
    PROVE  /\ queue \in Seq(Seq(Elements)) /\ open \in Seq(Elements)
           /\ taken \in Seq(Seq(Elements)) /\ lost \in BOOLEAN /\ used \in 0..Size
<1> DEFINE Packets == Seq(Elements)
<1>1. queue \in Seq(Packets) /\ (taken = << >> \/ (queue # << >> /\ taken = <<queue[1]>>))
  BY DEF Fits, Typed
<1>2. taken \in Seq(Packets)
  <2> HIDE DEF Packets
  <2>1. CASE taken = << >>
    BY <2>1, EmptySeq
  <2>2. CASE queue # << >> /\ taken = <<queue[1]>>
    <3>1. 1 \in 1..Len(queue)
      BY <1>1, <2>2, EmptySeq
    <3>2. queue[1] \in Packets
      BY <1>1, <3>1, ElementOfSeq
    <3> QED BY <2>2, <3>2
  <2> QED BY <1>1, <2>1, <2>2
<1>3. used \in 0..Size
  BY OpenLength DEF Fits, Typed
<1> QED BY <1>2, <1>3 DEF Fits, Typed
-----------------------------------------------------------------------------
\* However full it is, the buffer never promises more slots than it has: the
\* packets handed over and the open one, each with its length, always fit
\* (CircularBuffer::push_back refuses in time).
THEOREM QueueFits == ASSUME Size \in Nat PROVE Spec => []Fits
<1>1. Init => Fits
  BY InitFits
<1>2. Fits /\ [Next]_vars => Fits'
  <2> SUFFICES ASSUME Fits, [Next]_vars PROVE Fits'
    OBVIOUS
  <2>1. ASSUME NEW v \in Elements, Accept(v) PROVE Fits'
    BY <2>1, PushFits DEF Push
  <2>2. CASE Refuse
    <3>1. UNCHANGED <<queue, open, taken, used>> /\ lost' \in BOOLEAN
      BY <2>2 DEF Refuse
    <3> QED BY <3>1 DEF Fits, Typed, OpenSlots
  <2>3. CASE Publish \/ Discard
    BY <2>3, PublishFits, DiscardFits
  <2>4. CASE Take \/ GiveBack
    BY <2>4, TakeFits, GiveBackFits
  <2>5. CASE Clear
    <3>1. Init'
      BY <2>5 DEF Clear, Init
    <3>2. (Init => Fits)'
      BY InitFits, PTL
    <3> QED BY <3>1, <3>2
  <2>6. CASE UNCHANGED vars
    BY <2>6, UnchangedFits
  <2> QED BY <2>1, <2>2, <2>3, <2>4, <2>5, <2>6 DEF Next
<1> QED BY <1>1, <1>2, PTL DEF Spec
=============================================================================
