------------------------------- MODULE Ccf_proofs -------------------------------
(***************************************************************************)
(* Proofs about Ccf, for every size of buffer and length of message and    *)
(* any number of requests: its types; requests reach poll whole; with the  *)
(* mutex around poll, messages reach the transmitter whole and answers in  *)
(* the order of their requests.                                            *)
(*                                                                         *)
(* The invariant is in four parts, each proved from those before it: the   *)
(* receiving side, the threads, the transmitting side, the order.          *)
(***************************************************************************)
EXTENDS Ccf, SequenceTheorems, TLAPS

RXF == INSTANCE FrameQueue_proofs WITH
    Size <- RxSize, MaxPacketSize <- MaxPacket, Elements <- Requests,
    queue <- rxQueue, open <- rxOpen, lost <- rxLost,
    taken <- rxTaken, used <- rxUsed

TXF == INSTANCE FrameQueue_proofs WITH
    Size <- TxSize, MaxPacketSize <- MaxPacket, Elements <- Contents,
    queue <- txQueue, open <- txOpen, lost <- txLost,
    taken <- txTaken, used <- txUsed

Repeated(n, c) == [i \in 1..n |-> c]
Packet(r) == Repeated(RxLength[r.kind], r)

\* The receiving side: whole requests in rxBuf, after them the bytes received so
\* far of the one arriving -- unless one of them was refused.
RxRight ==
    /\ RXF!Fits
    /\ incoming \in [number : 0..MaxRequests, kind : AllKinds, left : Nat]
    /\ incoming.left <= RxLength[incoming.kind]
    /\ incoming.number = 0 => incoming.left = 0 /\ ~rxLost /\ rxOpen = << >>
    /\ incoming.number > 0 /\ ~rxLost =>
           rxOpen = Repeated(RxLength[incoming.kind] - incoming.left,
                             [number |-> incoming.number, kind |-> incoming.kind])
    /\ \A i \in 1..Len(rxQueue) : \E r \in Requests : rxQueue[i] = Packet(r)

Threads == {"poll", "log"}
Answering == {"check", "call", "send", "error", "notify"}
PollLabels == {"idle", "release", "get", "copy"} \cup Answering
LogLabels == {"idle", "format", "send"}

\* The threads: poll has a frame to copy, a request while it answers it, and
\* characters left of an error text.
ThreadsRight ==
    /\ pktBuf \in Contents
    /\ mutex \in {"free", "poll", "log"}
    /\ pc \in [Threads -> PollLabels \cup LogLabels]
    /\ pc["poll"] \in PollLabels /\ pc["log"] \in LogLabels
    /\ toPush \in [Threads -> Nat]
    /\ request \in Requests \cup {NoRequest}
    /\ output \in BOOLEAN
    /\ unanswered \subseteq 1..MaxRequests
    /\ pc["poll"] = "error" => toPush["poll"] > 0
    /\ pc["poll"] \in Answering => request \in Requests
    /\ pc["poll"] = "copy" => rxTaken # << >>

\* n bytes of a message holding c are in txBuf, unless one of them was refused.
Begun(c, n) == ~txLost => txOpen = Repeated(n, c)

\* The transmitting side, when poll takes the mutex: only its owner is in a call,
\* pktBuf holds what its owner put there, and the packet being assembled is the
\* beginning of its message; the rest of the time there is none.
TxRight ==
    /\ pc["poll"] # "idle" <=> mutex = "poll"
    /\ pc["log"] # "idle" <=> mutex = "log"
    /\ pc["poll"] \in {"check", "call"} => RequestInPlace
    /\ pc["poll"] = "send" =>
           /\ pktBuf = Holding("response", request.number)
           /\ toPush["poll"] <= TxLength["response"]
           /\ Begun(Holding("response", request.number), TxLength["response"] - toPush["poll"])
    /\ pc["poll"] = "error" =>
           /\ toPush["poll"] <= TxLength["error"]
           /\ Begun(Holding("error", request.number), TxLength["error"] - toPush["poll"])
    /\ pc["poll"] = "notify" => Begun(Holding("error", request.number), TxLength["error"])
    /\ pc["log"] = "send" =>
           /\ pktBuf = Holding("log", 0)
           /\ toPush["log"] <= TxLength["log"]
           /\ Begun(Holding("log", 0), TxLength["log"] - toPush["log"])
    /\ pc["log"] # "send" /\ pc["poll"] \notin {"send", "error", "notify"} =>
           ~txLost /\ txOpen = << >>

-----------------------------------------------------------------------------
(* Sequences *)

LEMMA RepeatedIs ==
    ASSUME NEW S, NEW n \in Nat, NEW c \in S
    PROVE  /\ Repeated(n, c) \in Seq(S) /\ Len(Repeated(n, c)) = n
           /\ n = 0 => Repeated(n, c) = << >>
           /\ n > 0 => Repeated(n, c)[1] = c
<1> DEFINE all == Repeated(n, c)
<1>1. all \in Seq(S) /\ Len(all) = n
  BY DEF Repeated
<1>2. n > 0 => all[1] = c
  BY DEF Repeated
<1>3. n = 0 => all = << >>
  <2> HIDE DEF all
  <2> QED BY <1>1, EmptySeq
<1> QED BY <1>1, <1>2, <1>3

LEMMA RepeatedMore ==
    ASSUME NEW S, NEW n \in Nat, NEW c \in S
    PROVE  Append(Repeated(n, c), c) = Repeated(n + 1, c)
<1> DEFINE all == Repeated(n, c)
           more == Append(all, c)
<1>1. all \in Seq(S) /\ Len(all) = n
  BY RepeatedIs
<1>2. \A i \in 1..n : all[i] = c
  BY DEF Repeated
<1> HIDE DEF all
<1>3. /\ Len(more) = n + 1 /\ more \in Seq(S)
      /\ \A i \in 1..n : more[i] = all[i]
      /\ more[n + 1] = c
  BY <1>1, AppendProperties
<1> HIDE DEF more
<1>4. \A i \in 1..(n + 1) : more[i] = c
  BY <1>2, <1>3
<1>5. more = [i \in 1..(n + 1) |-> more[i]]
  BY <1>3
<1>6. more = [i \in 1..(n + 1) |-> c]
  BY <1>4, <1>5
<1> QED BY <1>6 DEF Repeated, all, more

\* A packet added at the end, or the first one taken off, leaves the others.
LEMMA QueueAppended ==
    ASSUME NEW S, NEW q \in Seq(S), NEW p \in S
    PROVE  /\ Len(Append(q, p)) = Len(q) + 1 /\ Len(q) \in Nat
           /\ \A i \in 1..Len(Append(q, p)) :
                 \/ i \in 1..Len(q) /\ Append(q, p)[i] = q[i]
                 \/ i = Len(q) + 1 /\ Append(q, p)[i] = p
<1> DEFINE all == Append(q, p)
<1>1. Len(q) \in Nat
  BY LenProperties
<1>2. /\ Len(all) = Len(q) + 1 /\ \A i \in 1..Len(q) : all[i] = q[i]
      /\ all[Len(q) + 1] = p
  BY AppendProperties
<1> HIDE DEF all
<1>3. \A i \in 1..Len(all) : i \in 1..Len(q) \/ i = Len(q) + 1
  BY <1>1, <1>2
<1>4. \A i \in 1..Len(all) : \/ i \in 1..Len(q) /\ all[i] = q[i]
                             \/ i = Len(q) + 1 /\ all[i] = p
  BY <1>2, <1>3
<1> QED BY <1>1, <1>2, <1>4 DEF all

LEMMA QueueTail ==
    ASSUME NEW S, NEW q \in Seq(S), q # << >>
    PROVE  /\ Len(Tail(q)) = Len(q) - 1 /\ Len(q) \in Nat \ {0}
           /\ \A i \in 1..Len(Tail(q)) : i + 1 \in 2..Len(q) /\ Tail(q)[i] = q[i + 1]
<1> DEFINE rest == Tail(q)
<1>1. Len(q) \in Nat \ {0}
  BY EmptySeq
<1>2. Len(rest) = Len(q) - 1 /\ \A i \in 1..Len(rest) : rest[i] = q[i + 1]
  BY HeadTailProperties
<1> HIDE DEF rest
<1>3. \A i \in 1..Len(rest) : i + 1 \in 2..Len(q)
  BY <1>1, <1>2
<1> QED BY <1>1, <1>2, <1>3 DEF rest

-----------------------------------------------------------------------------
(* The calls of both buffers, as FrameQueue_proofs has them *)

LEMMA RxCalls ==
    /\ \A v : RX!Push(v) <=> RXF!Push(v)
    /\ RX!Publish <=> RXF!Publish
    /\ RX!ResetDropped <=> RXF!ResetDropped
    /\ RX!Take <=> RXF!Take
    /\ RX!GiveBack <=> RXF!GiveBack
    /\ RX!Init <=> RXF!Init
BY DEF RX!Push, RX!Accept, RX!Refuse, RX!vars, RX!Full, RX!OpenSlots, RX!ResetDropped, RX!Publish, RX!Discard, RX!Take, RX!GiveBack, RX!Init,
       RXF!Push, RXF!Accept, RXF!Refuse, RXF!vars, RXF!Full, RXF!OpenSlots,
       RXF!ResetDropped, RXF!Publish, RXF!Discard, RXF!Take, RXF!GiveBack, RXF!Init

LEMMA TxCalls ==
    /\ \A v : TX!Push(v) <=> TXF!Push(v)
    /\ TX!Publish <=> TXF!Publish
    /\ TX!NotifyNothing <=> TXF!NotifyNothing
    /\ TX!Spoils <=> TXF!Spoils
    /\ TX!ResetDropped <=> TXF!ResetDropped
    /\ TX!Take <=> TXF!Take
    /\ TX!GiveBack <=> TXF!GiveBack
    /\ TX!Init <=> TXF!Init
BY DEF TX!Push, TX!Accept, TX!Refuse, TX!vars, TX!Full, TX!OpenSlots, TX!NotifyNothing,
       TX!NothingToNotify, TX!Spoils, TX!ResetDropped, TX!Publish, TX!Discard, TX!Take, TX!GiveBack, TX!Init,
       TXF!Push, TXF!Accept, TXF!Refuse, TXF!vars, TXF!Full, TXF!OpenSlots, TXF!NotifyNothing,
       TXF!NothingToNotify, TXF!Spoils, TXF!ResetDropped, TXF!Publish, TXF!Discard, TXF!Take, TXF!GiveBack, TXF!Init
\* What a call changes of rxBuf.
LEMMA RxEffects ==
    /\ \A v : RX!Push(v) =>
           /\ rxQueue' = rxQueue /\ rxTaken' = rxTaken
           /\ ~rxLost' => ~rxLost /\ rxOpen' = Append(rxOpen, v)
    /\ RX!Publish =>
           rxOpen' = << >> /\ ~rxLost' /\ rxQueue' = Append(rxQueue, rxOpen)
    /\ rxLost /\ RX!ResetDropped =>
           rxOpen' = << >> /\ ~rxLost' /\ rxQueue' = rxQueue
    /\ RX!Notify \/ RX!ResetDropped => rxTaken' = rxTaken
    /\ RX!Take => /\ UNCHANGED <<rxQueue, rxOpen, rxLost>>
                  /\ rxTaken' # << >> /\ rxTaken = << >>
    /\ RX!GiveBack => /\ rxQueue' = Tail(rxQueue) /\ UNCHANGED <<rxOpen, rxLost>>
                      /\ rxTaken' = << >> /\ rxTaken # << >>
BY DEF RX!Push, RX!Accept, RX!Refuse, RX!vars, RX!Notify, RX!NotifyNothing,
       RX!ResetDropped, RX!Publish, RX!Discard, RX!Take, RX!GiveBack

\* And of txBuf.
LEMMA TxEffects ==
    /\ \A v : TX!Push(v) =>
           /\ txQueue' = txQueue
           /\ ~txLost' => ~txLost /\ txOpen' = Append(txOpen, v)
    /\ ~txLost /\ TX!Notify /\ Unspoilt =>
           /\ txOpen' = << >> /\ ~txLost'
           /\ txQueue' = IF txOpen = << >> THEN txQueue ELSE Append(txQueue, txOpen)
    /\ txLost /\ ((TX!Notify /\ Unspoilt) \/ TX!ResetDropped) =>
           txOpen' = << >> /\ ~txLost' /\ txQueue' = txQueue
    /\ TX!Take => UNCHANGED <<txQueue, txOpen, txLost>>
    /\ TX!GiveBack => txQueue' = Tail(txQueue) /\ UNCHANGED <<txOpen, txLost>>
BY DEF TX!Push, TX!Accept, TX!Refuse, TX!vars, TX!Notify, TX!NotifyNothing,
       TX!NothingToNotify, Unspoilt, TX!ResetDropped, TX!Publish, TX!Discard, TX!Take,
       TX!GiveBack

-----------------------------------------------------------------------------
(* The receiving side *)

\* Only the receive interrupt and poll's get_frame touch it.
LEMMA RxSteps ==
    ASSUME [Next]_vars
    PROVE  \/ ReceiveByte
           \/ ReceiveDelimiter
           \/ (RX!GiveBack \/ RX!Take) /\ incoming' = incoming
           \/ UNCHANGED <<rxVars, incoming>>
<1>1. CASE PollNext
  BY <1>1 DEF PollNext, Poll, PollRelease, PollGet, PollReturn, PollCopy, PollCheck,
              PollCall, SendPush, PollSent, PollErrorPush, PollErrorNotify
<1>2. CASE LogNext
  BY <1>2 DEF LogNext, LogLock, LogFormat, SendPush, LogSent
<1>3. CASE ReceiveNext \/ TransmitNext
  BY <1>3 DEF ReceiveNext, TransmitNext, TakeFrame, ReleaseFrame
<1>4. CASE UNCHANGED vars
  BY <1>4 DEF vars
<1> QED BY <1>1, <1>2, <1>3, <1>4 DEF Next

LEMMA RxTyped ==
    ASSUME RxRight
    PROVE  /\ rxQueue \in Seq(Seq(Requests)) /\ rxOpen \in Seq(Requests)
           /\ rxTaken \in Seq(Seq(Requests)) /\ rxLost \in BOOLEAN /\ rxUsed \in 0..RxSize
           /\ rxTaken = << >> \/ (rxQueue # << >> /\ rxTaken = <<rxQueue[1]>>)
<1>1. RXF!Fits /\ RxSize \in Nat
  BY CcfAssumption DEF RxRight
<1>2. rxTaken = << >> \/ (rxQueue # << >> /\ rxTaken = <<rxQueue[1]>>)
  BY <1>1 DEF RXF!Fits, RXF!Typed
<1> QED BY <1>1, <1>2, RXF!FitsTyped

\* At a delimiter there is a request to publish: receiveCharacter never notifies
\* of nothing.
LEMMA DelimiterPublishes ==
    ASSUME RxRight, ReceiveDelimiter
    PROVE  RX!Publish \/ (rxLost /\ RX!ResetDropped)
<1> DEFINE r == [number |-> incoming.number, kind |-> incoming.kind]
           length == RxLength[incoming.kind]
<1>1. /\ incoming.number > 0 /\ incoming.left = 0
      /\ length \in Nat /\ length > 0 /\ r \in {r}
  BY CcfAssumption DEF RxRight, ReceiveDelimiter
<1>2. CASE ~rxLost /\ RX!Notify
  <2>1. rxOpen = Repeated(length - 0, r) /\ length - 0 = length
    BY <1>1, <1>2 DEF RxRight
  <2> HIDE DEF length, r
  <2>2. Len(Repeated(length, r)) = length
    BY <1>1, RepeatedIs
  <2>3. rxOpen # << >>
    BY <1>1, <2>1, <2>2, EmptySeq
  <2> QED BY <1>2, <2>3 DEF RX!Notify, RX!NotifyNothing, RX!NothingToNotify
<1> QED BY <1>2 DEF ReceiveDelimiter

LEMMA ReceiveByteRight ==
    ASSUME RxRight, ReceiveByte
    PROVE  RxRight'
<1> USE CcfAssumption
<1> DEFINE r == [number |-> incoming.number, kind |-> incoming.kind]
           left == incoming.left
           got == RxLength[incoming.kind] - left
<1>1. /\ incoming.number \in 0..MaxRequests /\ incoming.kind \in AllKinds
      /\ left \in Nat /\ left > 0 /\ left <= RxLength[incoming.kind]
      /\ RxLength[incoming.kind] \in Nat
      /\ incoming \in [number : 0..MaxRequests, kind : AllKinds, left : Nat]
  BY DEF RxRight, ReceiveByte
<1>2. incoming.number > 0
  BY <1>1 DEF RxRight
<1>3. r \in Requests
  BY <1>1, <1>2 DEF Requests
<1>4. /\ incoming' = [incoming EXCEPT !.left = left - 1]
      /\ RX!Push(r)
  BY DEF ReceiveByte
<1>5. /\ incoming' \in [number : 0..MaxRequests, kind : AllKinds, left : Nat]
      /\ incoming'.number = incoming.number /\ incoming'.kind = incoming.kind
      /\ incoming'.left = left - 1
  BY <1>1, <1>4
<1>6. RXF!Fits'
  BY <1>3, <1>4, RxCalls, RXF!PushFits DEF RxRight
<1> HIDE DEF r
<1>7. rxQueue' = rxQueue /\ (~rxLost' => ~rxLost /\ rxOpen' = Append(rxOpen, r))
  BY <1>4, RxEffects
<1>8. ~rxLost' => rxOpen' = Repeated(got + 1, r)
  <2> SUFFICES ASSUME ~rxLost' PROVE rxOpen' = Repeated(got + 1, r)
    OBVIOUS
  <2>1. rxOpen = Repeated(got, r)
    BY <1>2, <1>7 DEF RxRight, r
  <2>2. got \in Nat
    BY <1>1
  <2> HIDE DEF got
  <2> QED BY <1>3, <1>7, <2>1, <2>2, RepeatedMore
<1>9. RxLength[incoming'.kind] - incoming'.left = got + 1
  BY <1>1, <1>5
<1>10. r = [number |-> incoming'.number, kind |-> incoming'.kind]
  BY <1>5 DEF r
<1>11. incoming'.left <= RxLength[incoming'.kind]
  BY <1>1, <1>5
<1>12. \A i \in 1..Len(rxQueue') : \E q \in Requests : rxQueue'[i] = Packet(q)
  BY <1>7 DEF RxRight
<1> HIDE DEF got
<1> QED BY <1>2, <1>5, <1>6, <1>8, <1>9, <1>10, <1>11, <1>12 DEF RxRight

\* At the delimiter the request is published, or dropped.
LEMMA RequestPublished ==
    ASSUME RxRight, ReceiveDelimiter
    PROVE  LET r == [number |-> incoming.number, kind |-> incoming.kind]
           IN  /\ r \in Requests /\ incoming.number \in 1..MaxRequests
               /\ rxQueue' = rxQueue \/ rxQueue' = Append(rxQueue, Packet(r))
               /\ rxTaken' = rxTaken
               /\ incoming'.number \in {incoming.number + 1, 0}
<1> DEFINE r == [number |-> incoming.number, kind |-> incoming.kind]
<1>1. /\ incoming.number \in 1..MaxRequests /\ incoming.left = 0
      /\ incoming.kind \in AllKinds /\ RxLength[incoming.kind] \in Nat \ {0}
      /\ incoming \in [number : 0..MaxRequests, kind : AllKinds, left : Nat]
  BY CcfAssumption DEF RxRight, ReceiveDelimiter
<1>2. r \in Requests
  BY <1>1 DEF Requests
<1>3. (~rxLost /\ RX!Publish) \/ (rxLost /\ RX!ResetDropped)
  BY DelimiterPublishes DEF RX!Publish
<1>4. rxTaken' = rxTaken
  BY RxEffects DEF ReceiveDelimiter
<1>5. rxQueue' = rxQueue \/ rxQueue' = Append(rxQueue, Packet(r))
  <2>1. CASE rxLost /\ RX!ResetDropped
    BY <2>1, RxEffects
  <2>2. CASE ~rxLost /\ RX!Publish
    <3>1. rxOpen = Repeated(RxLength[incoming.kind] - 0, r)
      BY <1>1, <2>2 DEF RxRight
    <3>2. RxLength[incoming.kind] - 0 = RxLength[r.kind]
      BY <1>1
    <3> QED BY <2>2, <3>1, <3>2, RxEffects DEF Packet
  <2> QED BY <1>3, <2>1, <2>2
<1>6. incoming'.number \in {incoming.number + 1, 0}
  <2>1. CASE incoming.number < MaxRequests
    BY <1>1, <2>1 DEF ReceiveDelimiter, Arriving
  <2>2. CASE ~(incoming.number < MaxRequests)
    BY <1>1, <2>2 DEF ReceiveDelimiter
  <2> QED BY <2>1, <2>2
<1> QED BY <1>1, <1>2, <1>4, <1>5, <1>6

LEMMA ReceiveDelimiterRight ==
    ASSUME RxRight, ReceiveDelimiter
    PROVE  RxRight'
<1> USE CcfAssumption
<1> DEFINE r == [number |-> incoming.number, kind |-> incoming.kind]
           Packets == Seq(Requests)
<1>1. /\ incoming.number \in 0..MaxRequests /\ incoming.number > 0 /\ incoming.left = 0
      /\ incoming.kind \in AllKinds /\ RxLength[incoming.kind] \in Nat \ {0}
      /\ incoming \in [number : 0..MaxRequests, kind : AllKinds, left : Nat]
  BY DEF RxRight, ReceiveDelimiter
<1>2. r \in Requests
  BY <1>1 DEF Requests
<1>3. RX!Publish \/ (rxLost /\ RX!ResetDropped)
  BY DelimiterPublishes
<1>4. RXF!Fits'
  BY <1>3, RxCalls, RXF!NotifyFits DEF RxRight
<1>5. rxOpen' = << >> /\ ~rxLost'
  BY <1>3, RxEffects
<1>6. rxQueue' = rxQueue \/ (rxQueue' = Append(rxQueue, Packet(r)))
  BY RequestPublished
<1>7. \A i \in 1..Len(rxQueue') : \E q \in Requests : rxQueue'[i] = Packet(q)
  <2>1. Packet(r) \in Packets /\ rxQueue \in Seq(Packets)
    BY <1>1, <1>2, RepeatedIs, RxTyped DEF Packet
  <2> HIDE DEF Packets, r
  <2>2. \A i \in 1..Len(rxQueue) : \E q \in Requests : rxQueue[i] = Packet(q)
    BY DEF RxRight
  <2>3. CASE rxQueue' = rxQueue
    BY <2>2, <2>3
  <2>4. CASE rxQueue' = Append(rxQueue, Packet(r))
    BY <1>2, <2>1, <2>2, <2>4, QueueAppended
  <2> QED BY <1>6, <2>3, <2>4
<1>8. \/ \E kind \in AllKinds : /\ incoming.number + 1 \in 1..MaxRequests
                                /\ incoming' = Arriving(incoming.number + 1, kind)
      \/ incoming' = [incoming EXCEPT !.number = 0]
  <2>1. CASE incoming.number < MaxRequests
    BY <1>1, <2>1 DEF ReceiveDelimiter
  <2>2. CASE ~(incoming.number < MaxRequests)
    BY <2>2 DEF ReceiveDelimiter
  <2> QED BY <2>1, <2>2
<1> HIDE DEF r
<1>9. /\ incoming' \in [number : 0..MaxRequests, kind : AllKinds, left : Nat]
      /\ incoming'.left <= RxLength[incoming'.kind]
      /\ incoming'.number = 0 => incoming'.left = 0
      /\ incoming'.number > 0 => RxLength[incoming'.kind] - incoming'.left = 0
  <2>1. ASSUME NEW kind \in AllKinds, incoming.number + 1 \in 1..MaxRequests,
               incoming' = Arriving(incoming.number + 1, kind)
        PROVE  <1>9!:
    <3>1. RxLength[kind] \in Nat
      OBVIOUS
    <3> QED BY <1>1, <2>1, <3>1 DEF Arriving
  <2>2. ASSUME incoming' = [incoming EXCEPT !.number = 0]
        PROVE  <1>9!:
    BY <1>1, <2>2
  <2> QED BY <1>8, <2>1, <2>2
<1>10. incoming'.number > 0 =>
           << >> = Repeated(RxLength[incoming'.kind] - incoming'.left,
                            [number |-> incoming'.number, kind |-> incoming'.kind])
  <2>1. \A c : << >> = Repeated(0, c)
    <3> SUFFICES ASSUME NEW c PROVE << >> = Repeated(0, c)
      OBVIOUS
    <3>1. c \in {c}
      OBVIOUS
    <3> QED BY <3>1, RepeatedIs
  <2> QED BY <1>9, <2>1
<1> QED BY <1>4, <1>5, <1>7, <1>9, <1>10 DEF RxRight

LEMMA RxRightNext ==
    ASSUME RxRight, [Next]_vars
    PROVE  RxRight'
<1> USE CcfAssumption
<1> DEFINE Packets == Seq(Requests)
<1>1. CASE RX!GiveBack /\ incoming' = incoming
  <2>1. RXF!Fits'
    BY <1>1, RxCalls, RXF!GiveBackFits DEF RxRight
  <2>2. rxQueue' = Tail(rxQueue) /\ UNCHANGED <<rxOpen, rxLost>> /\ rxTaken # << >>
    BY <1>1, RxEffects
  <2>3. rxQueue \in Seq(Packets) /\ rxQueue # << >>
    BY <2>2, RxTyped
  <2>4. \A i \in 1..Len(rxQueue') : \E r \in Requests : rxQueue'[i] = Packet(r)
    <3> HIDE DEF Packets
    <3>1. \A i \in 1..Len(rxQueue') : i + 1 \in 1..Len(rxQueue) /\ rxQueue'[i] = rxQueue[i + 1]
      BY <2>2, <2>3, QueueTail
    <3> QED BY <3>1 DEF RxRight
  <2> QED BY <1>1, <2>1, <2>2, <2>4 DEF RxRight
<1>2. CASE RX!Take /\ incoming' = incoming
  <2>1. RXF!Fits'
    BY <1>2, RxCalls, RXF!TakeFits DEF RxRight
  <2>2. UNCHANGED <<rxQueue, rxOpen, rxLost>>
    BY <1>2, RxEffects
  <2> QED BY <1>2, <2>1, <2>2 DEF RxRight
<1>3. CASE UNCHANGED <<rxVars, incoming>>
  <2>1. RXF!Fits'
    BY <1>3, RXF!UnchangedFits DEF RxRight, rxVars, RXF!vars
  <2> QED BY <1>3, <2>1 DEF RxRight, rxVars
<1> QED BY <1>1, <1>2, <1>3, RxSteps, ReceiveByteRight, ReceiveDelimiterRight

LEMMA RxInit ==
    ASSUME Init
    PROVE  RxRight
<1> USE CcfAssumption
<1>1. RXF!Fits
  BY RxCalls, RXF!InitFits DEF Init
<1>2. rxQueue = << >> /\ rxOpen = << >>
  BY DEF Init, RX!Init
<1>3. PICK kind \in AllKinds : incoming = Arriving(1, kind)
  BY DEF Init
<1>4. /\ incoming \in [number : 0..MaxRequests, kind : AllKinds, left : Nat]
      /\ incoming.left <= RxLength[incoming.kind]
      /\ incoming.number = 1
      /\ RxLength[incoming.kind] - incoming.left = 0
  <2>1. RxLength[kind] \in Nat
    OBVIOUS
  <2> QED BY <1>3, <2>1 DEF Arriving
<1>5. << >> = Repeated(RxLength[incoming.kind] - incoming.left,
                       [number |-> incoming.number, kind |-> incoming.kind])
  BY <1>4, RepeatedIs
<1>6. Len(rxQueue) = 0
  BY <1>2, EmptySeq
<1> QED BY <1>1, <1>2, <1>4, <1>5, <1>6 DEF RxRight

\* Every packet poll takes is a request as the host has sent it, however many did
\* not fit in rxBuf (receiveCharacter).
THEOREM RequestsWhole == Spec => []RxWhole
<1>1. Init => RxRight
  BY RxInit
<1>2. RxRight /\ [Next]_vars => RxRight'
  BY RxRightNext
<1>3. RxRight => RxWhole
  <2> SUFFICES ASSUME RxRight, NEW i \in 1..Len(rxQueue)
               PROVE  /\ Len(rxQueue[i]) = RxLength[rxQueue[i][1].kind]
                      /\ \A j \in DOMAIN rxQueue[i] : rxQueue[i][j] = rxQueue[i][1]
    BY DEF RxWhole
  <2>1. PICK r \in Requests : rxQueue[i] = Packet(r)
    BY DEF RxRight
  <2>2. RxLength[r.kind] \in Nat \ {0}
    BY CcfAssumption DEF Requests
  <2>3. Len(rxQueue[i]) = RxLength[r.kind] /\ rxQueue[i][1] = r
    <3> DEFINE n == RxLength[r.kind]
    <3>1. n \in Nat /\ n > 0 /\ rxQueue[i] = Repeated(n, r)
      BY <2>1, <2>2 DEF Packet
    <3> HIDE DEF n
    <3>2. Len(Repeated(n, r)) = n /\ Repeated(n, r)[1] = r
      BY <3>1, RepeatedIs
    <3> QED BY <3>1, <3>2 DEF n
  <2>4. \A j \in DOMAIN rxQueue[i] : rxQueue[i][j] = r
    BY <2>1 DEF Packet, Repeated
  <2> QED BY <2>3, <2>4
<1> QED BY <1>1, <1>2, <1>3, PTL DEF Spec
-----------------------------------------------------------------------------
(* The threads *)

\* A thread goes to a label, the other stays where it is.
LEMMA Goes ==
    ASSUME ThreadsRight, NEW t \in Threads, NEW label \in PollLabels \cup LogLabels,
           pc' = [pc EXCEPT ![t] = label],
           t = "poll" => label \in PollLabels, t = "log" => label \in LogLabels
    PROVE  /\ pc' \in [Threads -> PollLabels \cup LogLabels]
           /\ pc'["poll"] \in PollLabels /\ pc'["log"] \in LogLabels
           /\ pc'[t] = label
           /\ t = "log" => pc'["poll"] = pc["poll"]
           /\ t = "poll" => pc'["log"] = pc["log"]
<1> DEFINE Labels == PollLabels \cup LogLabels
<1>1. pc \in [Threads -> Labels] /\ pc["poll"] \in PollLabels /\ pc["log"] \in LogLabels
  BY DEF ThreadsRight
<1>2. label \in Labels
  OBVIOUS
<1> HIDE DEF Labels
<1>3. pc' \in [Threads -> Labels]
  BY <1>1, <1>2
<1> QED BY <1>1, <1>3 DEF Threads, Labels

LEMMA RequestTyped ==
    ASSUME ThreadsRight
    PROVE  /\ request.number \in 0..MaxRequests
           /\ \A what \in Messages \cup {"nothing", "request", "garbage"} :
                 Holding(what, request.number) \in Contents
<1>1. request.number \in 0..MaxRequests
  BY CcfAssumption DEF ThreadsRight, Requests, NoRequest
<1> QED BY <1>1 DEF Holding, Contents

\* The frame in poll is a whole request.
LEMMA FrameIsRequest ==
    ASSUME RxRight, rxTaken # << >>
    PROVE  /\ rxTaken[1] = rxQueue[1] /\ rxQueue # << >> /\ 1 \in 1..Len(rxQueue)
           /\ rxQueue[1][1] \in Requests
           /\ RequestOf(rxTaken[1]) = rxQueue[1][1]
<1> DEFINE Packets == Seq(Requests)
<1>1. rxQueue # << >> /\ rxTaken[1] = rxQueue[1] /\ rxQueue \in Seq(Packets)
  BY RxTyped
<1>2. 1 \in 1..Len(rxQueue)
  <2> HIDE DEF Packets
  <2> QED BY <1>1, EmptySeq
<1>3. PICK r \in Requests : rxQueue[1] = Packet(r)
  BY <1>2 DEF RxRight
<1> DEFINE n == RxLength[r.kind]
<1>4. n \in Nat /\ n > 0
  BY CcfAssumption DEF Requests
<1>5. Packet(r) = Repeated(n, r)
  BY DEF Packet
<1>6. DOMAIN Repeated(n, r) = 1..n /\ \A i \in 1..n : Repeated(n, r)[i] = r
  BY DEF Repeated
<1> HIDE DEF n
<1>7. Len(Repeated(n, r)) = n /\ Repeated(n, r)[1] = r
  BY <1>4, RepeatedIs
<1>8. RequestOf(rxTaken[1]) = r
  <2>1. rxTaken[1][1] = r
    BY <1>1, <1>3, <1>5, <1>7
  <2>2. /\ \A i \in DOMAIN rxTaken[1] : rxTaken[1][i] = rxTaken[1][1]
        /\ Len(rxTaken[1]) = RxLength[rxTaken[1][1].kind]
    BY <1>1, <1>3, <1>5, <1>6, <1>7, <2>1 DEF n
  <2> QED BY <2>1, <2>2 DEF RequestOf
<1> QED BY <1>1, <1>2, <1>3, <1>5, <1>7, <1>8

LEMMA InterruptThreads ==
    ASSUME ThreadsRight, ReceiveNext \/ TransmitNext \/ UNCHANGED vars
    PROVE  ThreadsRight'
<1>1. UNCHANGED threadVars
  BY DEF ReceiveNext, TransmitNext, ReceiveByte, ReceiveDelimiter, TakeFrame, ReleaseFrame,
         vars
<1>2. rxTaken' = rxTaken
  <2>1. CASE ReceiveByte
    BY <2>1, RxEffects DEF ReceiveByte
  <2>2. CASE ReceiveDelimiter
    BY <2>2, RxEffects DEF ReceiveDelimiter
  <2> QED BY <2>1, <2>2 DEF ReceiveNext, TransmitNext, TakeFrame, ReleaseFrame, vars, rxVars
<1> QED BY <1>1, <1>2 DEF ThreadsRight, threadVars

LEMMA LogThreads ==
    ASSUME ThreadsRight, LogNext
    PROVE  ThreadsRight'
<1> USE DEF Threads
<1>1. rxTaken' = rxTaken /\ UNCHANGED <<request, output, unanswered>>
  BY DEF LogNext, LogLock, LogFormat, SendPush, LogSent, rxVars
<1>2. pc["log"] \in LogLabels /\ toPush \in [Threads -> Nat] /\ mutex \in {"free", "poll", "log"}
  BY DEF ThreadsRight
<1>3. CASE LogLock
  <2>1. pc' = [pc EXCEPT !["log"] = "format"] /\ mutex' = "log" /\ UNCHANGED <<pktBuf, toPush>>
    BY <1>3 DEF LogLock, Lock
  <2>2. "format" \in LogLabels
    BY DEF LogLabels
  <2> QED BY <1>1, <2>1, <2>2, Goes DEF ThreadsRight
<1>4. CASE LogFormat
  <2>1. /\ pc' = [pc EXCEPT !["log"] = "send"]
        /\ toPush' = [toPush EXCEPT !["log"] = TxLength["log"]]
        /\ pktBuf' = Holding("log", 0) /\ mutex' = mutex
    BY <1>4 DEF LogFormat, StartSend
  <2>2. "send" \in LogLabels /\ TxLength["log"] \in Nat
    BY CcfAssumption DEF LogLabels, Messages
  <2>3. toPush' \in [Threads -> Nat] /\ toPush'["poll"] = toPush["poll"]
    BY <1>2, <2>1, <2>2
  <2>4. pktBuf' \in Contents
    BY <2>1, CcfAssumption DEF Holding, Contents, Messages
  <2> QED BY <1>1, <2>1, <2>2, <2>3, <2>4, Goes DEF ThreadsRight
<1>5. CASE SendPush("log")
  <2>1. /\ toPush' = [toPush EXCEPT !["log"] = toPush["log"] - 1] /\ toPush["log"] > 0
        /\ UNCHANGED <<pc, pktBuf, mutex>>
    BY <1>5 DEF SendPush
  <2>2. toPush' \in [Threads -> Nat] /\ toPush'["poll"] = toPush["poll"]
    BY <1>2, <2>1
  <2> QED BY <1>1, <2>1, <2>2 DEF ThreadsRight
<1>6. CASE LogSent
  <2>1. pc' = [pc EXCEPT !["log"] = "idle"] /\ mutex' \in {"free", mutex}
        /\ UNCHANGED <<pktBuf, toPush>>
    BY <1>6 DEF LogSent, Unlock
  <2>2. "idle" \in LogLabels
    BY DEF LogLabels
  <2> QED BY <1>1, <1>2, <2>1, <2>2, Goes DEF ThreadsRight
<1> QED BY <1>3, <1>4, <1>5, <1>6 DEF LogNext

LEMMA PollThreads ==
    ASSUME RxRight, ThreadsRight, PollNext
    PROVE  ThreadsRight'
<1> USE DEF Threads
<1>1. /\ pc["poll"] \in PollLabels /\ toPush \in [Threads -> Nat]
      /\ mutex \in {"free", "poll", "log"} /\ output \in BOOLEAN
      /\ unanswered \subseteq 1..MaxRequests
  BY DEF ThreadsRight
<1>2. \A label \in PollLabels : PollGoto(label) =>
          /\ pc' \in [Threads -> PollLabels \cup LogLabels]
          /\ pc'["poll"] = label /\ pc'["log"] \in LogLabels
  BY Goes DEF PollGoto
<1>3. /\ "release" \in PollLabels /\ "get" \in PollLabels /\ "copy" \in PollLabels
      /\ "idle" \in PollLabels /\ Answering \subseteq PollLabels
      /\ "release" \notin Answering /\ "get" \notin Answering /\ "copy" \notin Answering
      /\ "idle" \notin Answering
      /\ {"check", "call", "send", "error", "notify"} \subseteq Answering
  BY DEF PollLabels, Answering
<1>4. CASE Poll
  <2>1. /\ PollGoto("release") /\ mutex' \in {mutex, "poll"} /\ output' = FALSE
        /\ UNCHANGED <<pktBuf, toPush, request, unanswered>>
    BY <1>4 DEF Poll, Lock
  <2> QED BY <1>1, <1>2, <1>3, <2>1 DEF ThreadsRight
<1>5. CASE PollRelease
  <2>1. /\ PollGoto("get") /\ UNCHANGED <<pktBuf, mutex, toPush, request, output, unanswered>>
    BY <1>5 DEF PollRelease
  <2> QED BY <1>1, <1>2, <1>3, <2>1 DEF ThreadsRight
<1>6. CASE PollGet
  <2>1. /\ PollGoto("copy") /\ UNCHANGED <<pktBuf, mutex, toPush, request, output, unanswered>>
        /\ rxTaken' # << >>
    BY <1>6, RxEffects DEF PollGet
  <2> QED BY <1>1, <1>2, <1>3, <2>1 DEF ThreadsRight
<1>7. CASE PollReturn
  <2>1. /\ PollGoto("idle") /\ UNCHANGED <<pktBuf, toPush, request, output, unanswered>>
        /\ mutex' \in {mutex, "free"}
    BY <1>7 DEF PollReturn, Unlock
  <2> QED BY <1>1, <1>2, <1>3, <2>1 DEF ThreadsRight
<1>8. \A what \in Messages : PollError \/ StartSend("poll", what) =>
          /\ pc'["poll"] \in {"error", "send"} /\ pc' \in [Threads -> PollLabels \cup LogLabels]
          /\ pc'["log"] \in LogLabels
          /\ toPush' \in [Threads -> Nat] /\ toPush'["poll"] > 0
  <2> SUFFICES ASSUME NEW what \in Messages, PollError \/ StartSend("poll", what)
               PROVE  /\ pc'["poll"] \in {"error", "send"}
                      /\ pc' \in [Threads -> PollLabels \cup LogLabels]
                      /\ pc'["log"] \in LogLabels
                      /\ toPush' \in [Threads -> Nat] /\ toPush'["poll"] > 0
    OBVIOUS
  <2>1. TxLength["error"] \in Nat \ {0} /\ TxLength[what] \in Nat \ {0}
    BY CcfAssumption DEF Messages
  <2>2. PollGoto("error") \/ PollGoto("send")
    BY DEF PollError, StartSend, PollGoto
  <2>3. \E n \in Nat \ {0} : toPush' = [toPush EXCEPT !["poll"] = n]
    BY <2>1 DEF PollError, StartSend
  <2> QED BY <1>1, <1>2, <1>3, <2>2, <2>3
<1>9. CASE PollCopy
  <2>1. pc["poll"] = "copy" /\ rxTaken # << >>
    BY <1>9 DEF PollCopy, ThreadsRight
  <2>2. request' \in Requests
    BY <1>9, <2>1, FrameIsRequest DEF PollCopy
  <2>3. pktBuf' \in Contents
    BY <1>9, <2>2 DEF PollCopy, Holding, Contents, Requests
  <2>4. /\ PollError \/ (PollGoto("check") /\ toPush' = toPush)
        /\ UNCHANGED <<mutex, output, unanswered>>
    BY <1>9 DEF PollCopy
  <2>5. CASE PollError
    BY <1>1, <1>3, <1>8, <2>2, <2>3, <2>4, <2>5 DEF ThreadsRight, Messages
  <2>6. CASE PollGoto("check") /\ toPush' = toPush
    BY <1>1, <1>2, <1>3, <2>2, <2>3, <2>4, <2>6 DEF ThreadsRight
  <2> QED BY <2>4, <2>5, <2>6
<1>10. CASE PollCheck
  <2>1. request \in Requests
    BY <1>3, <1>10 DEF PollCheck, ThreadsRight
  <2>2. /\ PollError \/ (PollGoto("call") /\ toPush' = toPush)
        /\ UNCHANGED <<pktBuf, mutex, request, output, unanswered>>
    BY <1>10 DEF PollCheck
  <2>3. CASE PollError
    BY <1>1, <1>3, <1>8, <2>1, <2>2, <2>3 DEF ThreadsRight, Messages
  <2>4. CASE PollGoto("call") /\ toPush' = toPush
    BY <1>1, <1>2, <1>3, <2>1, <2>2, <2>4 DEF ThreadsRight
  <2> QED BY <2>2, <2>3, <2>4
<1>11. CASE PollCall
  <2>1. request \in Requests /\ request.number \in 1..MaxRequests
    BY <1>3, <1>11 DEF PollCall, ThreadsRight, Requests
  <2>2. /\ PollError \/ StartSend("poll", "response") \/ (PollGoto("release") /\ toPush' = toPush)
        /\ UNCHANGED <<mutex, request, output>>
    BY <1>11 DEF PollCall
  <2>3. pktBuf' \in Contents /\ unanswered' \subseteq 1..MaxRequests
    <3>1. CASE PollError /\ UNCHANGED <<pktBuf, unanswered>>
      BY <1>1, <3>1 DEF ThreadsRight
    <3>2. CASE /\ pktBuf' = Holding(IF RequestInPlace THEN "response" ELSE "garbage",
                                    request.number)
               /\ unanswered' = unanswered \cup {request.number}
      <4>1. pktBuf' \in Contents
        BY <3>2, RequestTyped DEF Messages
      <4> QED BY <1>1, <2>1, <3>2, <4>1
    <3> QED BY <1>11, <3>1, <3>2 DEF PollCall
  <2>4. CASE PollError \/ StartSend("poll", "response")
    BY <1>1, <1>3, <1>8, <2>1, <2>2, <2>3, <2>4 DEF ThreadsRight, Messages
  <2>5. CASE PollGoto("release") /\ toPush' = toPush
    BY <1>1, <1>2, <1>3, <2>1, <2>2, <2>3, <2>5 DEF ThreadsRight
  <2> QED BY <2>2, <2>4, <2>5
<1>12. CASE SendPush("poll")
  <2>1. /\ toPush' = [toPush EXCEPT !["poll"] = toPush["poll"] - 1] /\ toPush["poll"] > 0
        /\ UNCHANGED <<pc, rxVars, pktBuf, mutex, request, output, unanswered>>
        /\ pc["poll"] = "send"
    BY <1>12 DEF SendPush
  <2>2. toPush' \in [Threads -> Nat]
    BY <1>1, <2>1
  <2> QED BY <2>1, <2>2 DEF ThreadsRight, rxVars
<1>13. CASE PollSent
  <2>1. /\ PollGoto("release") /\ output' = ~txLost
        /\ unanswered' = unanswered \ {request.number}
        /\ UNCHANGED <<pktBuf, mutex, toPush, request>>
    BY <1>13 DEF PollSent
  <2>2. output' \in BOOLEAN /\ unanswered' \subseteq 1..MaxRequests
    BY <1>1, <2>1
  <2> QED BY <1>1, <1>2, <1>3, <2>1, <2>2 DEF ThreadsRight
<1>14. CASE PollErrorPush
  <2>1. /\ toPush' = [toPush EXCEPT !["poll"] = toPush["poll"] - 1]
        /\ PollGoto(IF toPush["poll"] > 1 THEN "error" ELSE "notify")
        /\ UNCHANGED <<pktBuf, mutex, request, output, unanswered>>
        /\ pc["poll"] = "error"
    BY <1>14 DEF PollErrorPush
  <2>2. toPush["poll"] > 0 /\ request \in Requests
    BY <1>3, <2>1 DEF ThreadsRight
  <2>3. toPush' \in [Threads -> Nat] /\ toPush'["poll"] = toPush["poll"] - 1
    BY <1>1, <2>1, <2>2
  <2>4. CASE toPush["poll"] > 1
    <3>1. PollGoto("error") /\ toPush'["poll"] > 0
      BY <1>1, <2>1, <2>3, <2>4
    <3> QED BY <1>1, <1>2, <1>3, <2>1, <2>2, <2>3, <3>1 DEF ThreadsRight
  <2>5. CASE ~(toPush["poll"] > 1)
    <3>1. PollGoto("notify")
      BY <2>1, <2>5
    <3> QED BY <1>1, <1>2, <1>3, <2>1, <2>2, <2>3, <3>1 DEF ThreadsRight
  <2> QED BY <2>4, <2>5
<1>15. CASE PollErrorNotify
  <2>1. PollGoto("release") /\ output' = TRUE
        /\ UNCHANGED <<pktBuf, mutex, toPush, request, unanswered>>
    BY <1>15 DEF PollErrorNotify
  <2> QED BY <1>1, <1>2, <1>3, <2>1 DEF ThreadsRight
<1> QED BY <1>4, <1>5, <1>6, <1>7, <1>9, <1>10, <1>11, <1>12, <1>13, <1>14, <1>15
        DEF PollNext
LEMMA ThreadsNext ==
    ASSUME RxRight, ThreadsRight, [Next]_vars
    PROVE  ThreadsRight'
BY InterruptThreads, LogThreads, PollThreads DEF Next

LEMMA ThreadsInit ==
    ASSUME Init
    PROVE  ThreadsRight
<1> USE CcfAssumption DEF Init
<1>1. pktBuf \in Contents
  BY DEF Holding, Contents
<1>2. /\ pc \in [Threads -> PollLabels \cup LogLabels]
      /\ pc["poll"] = "idle" /\ pc["log"] = "idle"
      /\ toPush \in [Threads -> Nat]
  BY DEF Threads, PollLabels, LogLabels
<1>3. "idle" \in PollLabels /\ "idle" \in LogLabels /\ "idle" \notin Answering
  BY DEF PollLabels, LogLabels, Answering
<1> QED BY <1>1, <1>2, <1>3 DEF ThreadsRight

-----------------------------------------------------------------------------
(* Types *)

LEMMA TxFitsNext ==
    ASSUME ThreadsRight, TXF!Fits, [Next]_vars, [Unspoilt]_vars
    PROVE  TXF!Fits'
<1>1. TxSize \in Nat
  BY CcfAssumption
<1>2. ASSUME NEW c \in Contents, TX!Push(c)
      PROVE  TXF!Fits'
  BY <1>1, <1>2, TxCalls, TXF!PushFits
<1>3. CASE (TX!Notify /\ Unspoilt) \/ TX!ResetDropped
  BY <1>1, <1>3, TxCalls, TXF!NotifyFits DEF TX!Notify, Unspoilt
<1>4. CASE TX!Take \/ TX!GiveBack
  BY <1>1, <1>4, TxCalls, TXF!TakeFits, TXF!GiveBackFits
<1>5. CASE UNCHANGED txVars
  BY <1>5, TXF!UnchangedFits DEF txVars, TXF!vars
<1>6. CASE SendPush("poll") \/ SendPush("log")
  BY <1>2, <1>6 DEF SendPush, ThreadsRight
<1>7. CASE PollErrorPush
  BY <1>2, <1>7, RequestTyped DEF PollErrorPush, Messages
<1>8. CASE (PollSent \/ LogSent \/ PollErrorNotify) /\ Unspoilt
  BY <1>3, <1>8 DEF PollSent, LogSent, SendDone, PollErrorNotify
<1>9. CASE TransmitNext
  BY <1>4, <1>9 DEF TransmitNext, TakeFrame, ReleaseFrame
<1>10. CASE \/ Poll \/ PollRelease \/ PollGet \/ PollReturn \/ PollCopy \/ PollCheck
            \/ PollCall \/ LogLock \/ LogFormat \/ ReceiveNext \/ UNCHANGED vars
  BY <1>5, <1>10 DEF Poll, PollRelease, PollGet, PollReturn, PollCopy, PollCheck, PollCall,
                     LogLock, LogFormat, ReceiveNext, ReceiveByte, ReceiveDelimiter, vars
<1> QED BY <1>6, <1>7, <1>8, <1>9, <1>10 DEF Next, PollNext, LogNext

\* What the runs check, and the parts from which it follows.
Safe == RxRight /\ ThreadsRight /\ TXF!Fits

LEMMA SafeInvariant == Spec /\ NeverSpoilt => []Safe
<1>1. Init => Safe
  BY RxInit, ThreadsInit, TxCalls, TXF!InitFits, CcfAssumption DEF Safe, Init
<1>2. Safe /\ [Next]_vars /\ [Unspoilt]_vars => Safe'
  BY RxRightNext, ThreadsNext, TxFitsNext DEF Safe
<1> QED BY <1>1, <1>2, PTL DEF Spec, NeverSpoilt

LEMMA SafeTyped == Safe => TypeOK
<1> SUFFICES ASSUME Safe PROVE TypeOK
  OBVIOUS
<1>1. /\ rxQueue \in Seq(Seq(Requests)) /\ rxOpen \in Seq(Requests)
      /\ rxTaken \in Seq(Seq(Requests)) /\ rxLost \in BOOLEAN /\ rxUsed \in 0..RxSize
  BY RxTyped DEF Safe
<1>2. /\ txQueue \in Seq(Seq(Contents)) /\ txOpen \in Seq(Contents)
      /\ txTaken \in Seq(Seq(Contents)) /\ txLost \in BOOLEAN /\ txUsed \in 0..TxSize
  BY CcfAssumption, TXF!FitsTyped DEF Safe
<1>3. incoming \in [number : 0..MaxRequests, kind : AllKinds, left : Nat]
  BY DEF Safe, RxRight
<1>4. ThreadsRight
  BY DEF Safe
<1> QED BY <1>1, <1>2, <1>3, <1>4
        DEF TypeOK, ThreadsRight, Threads, PollLabels, LogLabels, Answering

\* Types, and neither buffer ever promises more slots than it has, whatever the
\* sizes and lengths (Ccf's members, ccf.hpp), unless a notify() spoils txBuf.
THEOREM CcfTypeCorrect == Spec /\ NeverSpoilt => []TypeOK
BY SafeInvariant, SafeTyped, PTL

-----------------------------------------------------------------------------
(* The transmitting side *)

LEMMA Pushed ==
    ASSUME NEW c \in Contents, NEW n \in Nat, Begun(c, n), TX!Push(c)
    PROVE  txQueue' = txQueue /\ (~txLost' => txOpen' = Repeated(n + 1, c))
<1>1. txQueue' = txQueue /\ (~txLost' => ~txLost /\ txOpen' = Append(txOpen, c))
  BY TxEffects
<1>2. Append(Repeated(n, c), c) = Repeated(n + 1, c)
  BY RepeatedMore
<1> QED BY <1>1, <1>2 DEF Begun

LEMMA Finished ==
    ASSUME txQueue \in Seq(Seq(Contents)), txLost \in BOOLEAN, TxWhole,
           NEW what \in Messages, NEW number \in 0..MaxRequests,
           Holding(what, number) \in Contents,
           Begun(Holding(what, number), TxLength[what]),
           (~txLost /\ TX!Notify) \/ (txLost /\ (TX!Notify \/ TX!ResetDropped)), Unspoilt
    PROVE  /\ TxWhole' /\ ~txLost' /\ txOpen' = << >>
           /\ txQueue' = txQueue \/ txQueue' = Append(txQueue, Message(what, number))
<1> DEFINE Packets == Seq(Contents)
           message == Message(what, number)
<1>1. message = Repeated(TxLength[what], Holding(what, number))
  BY DEF Message, Repeated
<1>2. message \in Packets
  BY <1>1, RepeatedIs, CcfAssumption
<1>3. ~txLost' /\ txOpen' = << >>
      /\ (txQueue' = txQueue \/ txQueue' = Append(txQueue, message))
  <2>1. CASE txLost
    BY <2>1, TxEffects
  <2>2. CASE ~txLost
    <3>1. txOpen = message
      BY <1>1, <2>2 DEF Begun
    <3> HIDE DEF message
    <3> QED BY <2>2, <3>1, TxEffects
  <2> QED BY <2>1, <2>2
<1>4. TxWhole'
  <2>1. txQueue \in Seq(Packets)
    OBVIOUS
  <2> HIDE DEF Packets
  <2>2. CASE txQueue' = txQueue
    BY <2>2 DEF TxWhole
  <2>3. CASE txQueue' = Append(txQueue, message)
    <3>1. ASSUME NEW i \in 1..Len(Append(txQueue, message))
          PROVE  \E w \in Messages, m \in 0..MaxRequests :
                     Append(txQueue, message)[i] = Message(w, m)
      <4>1. CASE i \in 1..Len(txQueue) /\ Append(txQueue, message)[i] = txQueue[i]
        BY <4>1 DEF TxWhole
      <4>2. CASE Append(txQueue, message)[i] = message
        BY <4>2
      <4> HIDE DEF message
      <4> QED BY <1>2, <2>1, <3>1, <4>1, <4>2, QueueAppended
    <3> QED BY <2>3, <3>1 DEF TxWhole
  <2> QED BY <1>3, <2>2, <2>3
<1> QED BY <1>3, <1>4
LEMMA InterruptTx ==
    ASSUME Safe, TxRight, TxWhole, ReceiveNext \/ TransmitNext \/ UNCHANGED vars
    PROVE  TxRight' /\ TxWhole'
<1> DEFINE Packets == Seq(Contents)
<1>1. UNCHANGED threadVars
  BY DEF ReceiveNext, TransmitNext, ReceiveByte, ReceiveDelimiter, TakeFrame, ReleaseFrame,
         vars
<1>2. \/ UNCHANGED <<txQueue, txOpen, txLost>>
      \/ txQueue' = Tail(txQueue) /\ txQueue # << >> /\ UNCHANGED <<txOpen, txLost>>
  <2>1. CASE TransmitNext
    <3>1. TX!GiveBack => txTaken # << >> /\ txQueue # << >>
      BY DEF TX!GiveBack, Safe, TXF!Fits, TXF!Typed
    <3> QED BY <2>1, <3>1, TxEffects DEF TransmitNext, TakeFrame, ReleaseFrame
  <2>2. CASE ReceiveNext \/ UNCHANGED vars
    BY <2>2 DEF ReceiveNext, ReceiveByte, ReceiveDelimiter, vars, txVars
  <2> QED BY <2>1, <2>2
<1>3. TxRight'
  BY <1>1, <1>2 DEF TxRight, threadVars, Begun, RequestInPlace
<1>4. TxWhole'
  <2>1. CASE UNCHANGED <<txQueue, txOpen, txLost>>
    BY <2>1 DEF TxWhole
  <2>2. CASE txQueue' = Tail(txQueue) /\ txQueue # << >>
    <3>1. txQueue \in Seq(Packets)
      BY DEF Safe, TXF!Fits, TXF!Typed
    <3> HIDE DEF Packets
    <3>2. \A i \in 1..Len(txQueue') : i + 1 \in 1..Len(txQueue) /\ txQueue'[i] = txQueue[i + 1]
      BY <2>2, <3>1, QueueTail
    <3> QED BY <3>2 DEF TxWhole
  <2> QED BY <1>2, <2>1, <2>2
<1> QED BY <1>3, <1>4

LEMMA LogTx ==
    ASSUME Safe, TxRight, TxWhole, LogNext, Unspoilt
    PROVE  TxRight' /\ TxWhole'
<1> USE DEF Threads
<1> DEFINE c == Holding("log", 0)
           length == TxLength["log"]
<1>1. /\ c \in Contents /\ length \in Nat \ {0}
      /\ txQueue \in Seq(Seq(Contents)) /\ txLost \in BOOLEAN
      /\ toPush \in [Threads -> Nat] /\ ThreadsRight
  BY CcfAssumption DEF Holding, Contents, Messages, Safe, ThreadsRight, TXF!Fits, TXF!Typed
<1>2. pc["log"] # "idle" => pc["poll"] = "idle" /\ mutex = "log"
  BY DEF TxRight
<1>3. \A label \in LogLabels : pc' = [pc EXCEPT !["log"] = label] =>
          pc'["log"] = label /\ pc'["poll"] = pc["poll"]
  BY <1>1, Goes
<1>4. {"idle", "format", "send"} = LogLabels
  BY DEF LogLabels
<1> HIDE DEF c, length
<1>5. CASE LogLock
  <2>1. /\ mutex = "free" /\ mutex' = "log" /\ pc["log"] = "idle" /\ pc["poll"] = "idle"
        /\ pc'["log"] = "format" /\ pc'["poll"] = "idle"
        /\ UNCHANGED <<txQueue, txOpen, txLost>>
    BY <1>3, <1>4, <1>5 DEF LogLock, Lock, TxRight, txVars
  <2> QED BY <2>1 DEF TxRight, TxWhole
<1>6. CASE LogFormat
  <2>1. /\ mutex' = "log" /\ pc["log"] = "format" /\ pc["poll"] = "idle"
        /\ pc'["log"] = "send" /\ pc'["poll"] = "idle"
        /\ pktBuf' = c /\ toPush'["log"] = length
        /\ UNCHANGED <<txQueue, txOpen, txLost>>
    BY <1>1, <1>2, <1>3, <1>4, <1>6 DEF LogFormat, StartSend, txVars, c, length
  <2>2. ~txLost' /\ txOpen' = << >>
    BY <2>1 DEF TxRight
  <2>3. Repeated(length - toPush'["log"], c) = << >> /\ toPush'["log"] <= length
    <3>1. length - toPush'["log"] = 0 /\ toPush'["log"] <= length
      BY <1>1, <2>1
    <3> QED BY <1>1, <3>1, RepeatedIs
  <2> QED BY <2>1, <2>2, <2>3 DEF TxRight, TxWhole, Begun, c, length
<1>7. CASE SendPush("log")
  <2>1. /\ pc["log"] = "send" /\ pc["poll"] = "idle" /\ toPush["log"] > 0
        /\ toPush'["log"] = toPush["log"] - 1
        /\ TX!Push(pktBuf) /\ UNCHANGED <<pc, mutex, pktBuf>>
    BY <1>1, <1>2, <1>7 DEF SendPush
  <2>2. pktBuf = c /\ toPush["log"] <= length /\ Begun(c, length - toPush["log"])
    BY <2>1 DEF TxRight, c, length
  <2>3. /\ length - toPush["log"] \in Nat
        /\ (length - toPush["log"]) + 1 = length - toPush'["log"]
        /\ toPush'["log"] <= length
    BY <1>1, <2>1, <2>2
  <2>4. txQueue' = txQueue /\ (~txLost' => txOpen' = Repeated(length - toPush'["log"], c))
    BY <1>1, <2>1, <2>2, <2>3, Pushed
  <2> QED BY <2>1, <2>2, <2>3, <2>4 DEF TxRight, TxWhole, Begun, c, length
<1>8. CASE LogSent
  <2>1. /\ pc["log"] = "send" /\ toPush["log"] = 0 /\ pc["poll"] = "idle"
        /\ (~txLost /\ TX!Notify) \/ (txLost /\ TX!ResetDropped)
        /\ pc'["log"] = "idle" /\ pc'["poll"] = "idle" /\ mutex' = "free"
    BY <1>2, <1>3, <1>4, <1>8 DEF LogSent, SendDone, Unlock
  <2>2. Begun(c, length)
    <3>1. length - toPush["log"] = length
      BY <1>1, <2>1
    <3> QED BY <2>1, <3>1 DEF TxRight, c, length
  <2>3. TxWhole' /\ ~txLost' /\ txOpen' = << >>
    <3>1. "log" \in Messages /\ 0 \in 0..MaxRequests
      BY CcfAssumption DEF Messages
    <3> QED BY <1>1, <2>1, <2>2, <3>1, Finished DEF c, length
  <2> QED BY <2>1, <2>3 DEF TxRight
<1> QED BY <1>5, <1>6, <1>7, <1>8 DEF LogNext

LEMMA PollTx ==
    ASSUME PollLocks, Safe, TxRight, TxWhole, PollNext, Unspoilt
    PROVE  TxRight' /\ TxWhole'
<1> USE DEF Threads
<1> DEFINE number == request.number
           response == TxLength["response"]
           error == TxLength["error"]
<1>1. /\ response \in Nat \ {0} /\ error \in Nat \ {0}
      /\ Holding("response", number) \in Contents /\ Holding("error", number) \in Contents
      /\ number \in 0..MaxRequests
      /\ txQueue \in Seq(Seq(Contents)) /\ txLost \in BOOLEAN
      /\ toPush \in [Threads -> Nat] /\ ThreadsRight /\ RxRight
  BY CcfAssumption, RequestTyped DEF Messages, Safe, ThreadsRight, TXF!Fits, TXF!Typed
<1>2. pc["poll"] # "idle" => pc["log"] = "idle" /\ mutex = "poll"
  BY DEF TxRight
<1>3. \A label \in PollLabels : PollGoto(label) =>
          pc'["poll"] = label /\ pc'["log"] = pc["log"]
  BY <1>1, Goes DEF PollGoto
<1>4. {"idle", "release", "get", "copy", "check", "call", "send", "error", "notify"} = PollLabels
  BY DEF PollLabels, Answering
<1> HIDE DEF response, error
<1>5. CASE Poll
  <2>1. /\ mutex = "free" /\ mutex' = "poll" /\ pc["log"] = "idle" /\ pc["poll"] = "idle"
        /\ pc'["poll"] = "release" /\ pc'["log"] = "idle"
        /\ UNCHANGED <<txQueue, txOpen, txLost>>
    BY <1>3, <1>4, <1>5 DEF Poll, Lock, TxRight, txVars
  <2> QED BY <2>1 DEF TxRight, TxWhole
<1>6. CASE PollRelease \/ PollGet \/ PollReturn
  <2>1. /\ pc["poll"] \in {"release", "get"} /\ pc["log"] = "idle"
        /\ \/ pc'["poll"] \in {"get", "copy"} /\ mutex' = "poll"
           \/ pc'["poll"] = "idle" /\ mutex' = "free"
        /\ pc'["log"] = "idle" /\ UNCHANGED <<txQueue, txOpen, txLost>>
    BY <1>2, <1>3, <1>4, <1>6 DEF PollRelease, PollGet, PollReturn, Unlock, txVars
  <2> QED BY <2>1 DEF TxRight, TxWhole
\* An error text: nothing of it is in txBuf yet.
<1>7. ASSUME pc["poll"] \in {"copy", "check", "call"}, PollError,
             UNCHANGED <<txQueue, txOpen, txLost, mutex>>
      PROVE  TxRight' /\ TxWhole'
  <2>1. /\ pc'["poll"] = "error" /\ pc["log"] = "idle" /\ pc'["log"] = "idle"
        /\ toPush'["poll"] = error /\ mutex' = "poll"
    BY <1>1, <1>2, <1>3, <1>4, <1>7 DEF PollError, error
  <2>2. error - toPush'["poll"] = 0 /\ toPush'["poll"] <= error
    BY <1>1, <2>1
  <2>3. ~txLost' /\ txOpen' = << >>
    BY <1>7, <2>1 DEF TxRight
  <2>4. \A d \in Contents : Repeated(0, d) = << >>
    BY RepeatedIs
  <2>5. Holding("error", request'.number) \in Contents
    <3>1. ThreadsRight'
      BY <1>1, PollThreads
    <3>2. request' \in Requests \cup {NoRequest}
      BY <3>1 DEF ThreadsRight
    <3>3. request'.number \in 0..MaxRequests
      BY <3>2, CcfAssumption DEF Requests, NoRequest
    <3> QED BY <3>3 DEF Holding, Contents, Messages
  <2> QED BY <1>7, <2>1, <2>2, <2>3, <2>4, <2>5 DEF TxRight, TxWhole, Begun, error
\* No answer has been begun.
<1>8. ASSUME pc["poll"] \in {"copy", "check", "call"}, UNCHANGED <<txQueue, txOpen, txLost, mutex>>,
             pc'["log"] = "idle",
             pc'["poll"] = "release" \/ (pc'["poll"] \in {"check", "call"} /\ RequestInPlace')
      PROVE  TxRight' /\ TxWhole'
  <2>1. ~txLost' /\ txOpen' = << >> /\ mutex' = "poll"
    BY <1>2, <1>8 DEF TxRight
  <2> QED BY <1>8, <2>1 DEF TxRight, TxWhole
<1>9. CASE PollCopy
  <2>1. /\ pc["poll"] = "copy" /\ pc["log"] = "idle" /\ RequestInPlace'
        /\ UNCHANGED <<txQueue, txOpen, txLost, mutex>>
    BY <1>2, <1>9 DEF PollCopy, txVars, RequestInPlace
  <2>2. PollError \/ PollGoto("check")
    BY <1>9 DEF PollCopy
  <2> QED BY <1>3, <1>4, <1>7, <1>8, <2>1, <2>2
<1>10. CASE PollCheck
  <2>1. /\ pc["poll"] = "check" /\ pc["log"] = "idle"
        /\ UNCHANGED <<txQueue, txOpen, txLost, mutex, pktBuf, request>>
    BY <1>2, <1>10 DEF PollCheck, txVars
  <2>2. PollError \/ (PollGoto("call") /\ RequestInPlace')
    BY <1>10, <2>1 DEF PollCheck, RequestInPlace
  <2> QED BY <1>3, <1>4, <1>7, <1>8, <2>1, <2>2
<1>11. CASE PollCall
  <2>1. /\ pc["poll"] = "call" /\ pc["log"] = "idle" /\ RequestInPlace
        /\ UNCHANGED <<txQueue, txOpen, txLost, mutex, request>>
    BY <1>2, <1>11 DEF PollCall, txVars, TxRight
  <2>2. \/ PollError
        \/ PollGoto("release")
        \/ pktBuf' = Holding("response", number) /\ StartSend("poll", "response")
    BY <1>11, <2>1 DEF PollCall
  <2>3. CASE pktBuf' = Holding("response", number) /\ StartSend("poll", "response")
    <3>1. /\ pc'["poll"] = "send" /\ pc'["log"] = "idle" /\ toPush'["poll"] = response
          /\ mutex' = "poll" /\ ~txLost' /\ txOpen' = << >>
      <4>1. PollGoto("send") /\ toPush'["poll"] = response
        BY <1>1, <2>3 DEF StartSend, PollGoto, response
      <4> QED BY <1>2, <1>3, <1>4, <2>1, <4>1 DEF TxRight
    <3>2. Repeated(response - toPush'["poll"], Holding("response", number)) = << >>
          /\ toPush'["poll"] <= response
      <4>1. response - toPush'["poll"] = 0 /\ toPush'["poll"] <= response
        BY <1>1, <3>1
      <4> QED BY <1>1, <4>1, RepeatedIs
    <3> QED BY <2>1, <2>3, <3>1, <3>2 DEF TxRight, TxWhole, Begun, response
  <2> QED BY <1>3, <1>4, <1>7, <1>8, <2>1, <2>2, <2>3
<1>12. CASE SendPush("poll")
  <2> DEFINE c == Holding("response", number)
  <2>1. /\ pc["poll"] = "send" /\ pc["log"] = "idle" /\ toPush["poll"] > 0
        /\ toPush'["poll"] = toPush["poll"] - 1
        /\ TX!Push(pktBuf) /\ UNCHANGED <<pc, mutex, pktBuf, request>>
    BY <1>1, <1>2, <1>12 DEF SendPush
  <2>2. pktBuf = c /\ toPush["poll"] <= response /\ Begun(c, response - toPush["poll"])
    BY <2>1 DEF TxRight, response
  <2>3. c \in Contents
    BY <1>1
  <2> HIDE DEF c
  <2>4. /\ response - toPush["poll"] \in Nat
        /\ (response - toPush["poll"]) + 1 = response - toPush'["poll"]
        /\ toPush'["poll"] <= response
    BY <1>1, <2>1, <2>2
  <2>5. txQueue' = txQueue /\ (~txLost' => txOpen' = Repeated(response - toPush'["poll"], c))
    BY <2>1, <2>2, <2>3, <2>4, Pushed
  <2> QED BY <2>1, <2>2, <2>4, <2>5 DEF TxRight, TxWhole, Begun, c, response
<1>13. CASE PollSent
  <2>1. /\ pc["poll"] = "send" /\ toPush["poll"] = 0 /\ pc["log"] = "idle"
        /\ (~txLost /\ TX!Notify) \/ (txLost /\ TX!ResetDropped)
        /\ pc'["poll"] = "release" /\ pc'["log"] = "idle" /\ mutex' = "poll"
    BY <1>2, <1>3, <1>4, <1>13 DEF PollSent, SendDone
  <2>2. Begun(Holding("response", number), response)
    <3>1. response - toPush["poll"] = response
      BY <1>1, <2>1
    <3> QED BY <2>1, <3>1 DEF TxRight, response
  <2>3. TxWhole' /\ ~txLost' /\ txOpen' = << >>
    <3>1. "response" \in Messages
      BY DEF Messages
    <3> QED BY <1>1, <2>1, <2>2, <3>1, Finished DEF response
  <2> QED BY <2>1, <2>3 DEF TxRight
<1>14. CASE PollErrorPush
  <2> DEFINE c == Holding("error", number)
  <2>1. /\ pc["poll"] = "error" /\ pc["log"] = "idle" /\ toPush["poll"] > 0
        /\ toPush'["poll"] = toPush["poll"] - 1
        /\ PollGoto(IF toPush["poll"] > 1 THEN "error" ELSE "notify")
        /\ TX!Push(c) /\ UNCHANGED <<mutex, pktBuf, request>>
    BY <1>1, <1>2, <1>14 DEF PollErrorPush, ThreadsRight
  <2>2. toPush["poll"] <= error /\ Begun(c, error - toPush["poll"])
    BY <2>1 DEF TxRight, error
  <2>3. c \in Contents
    BY <1>1
  <2> HIDE DEF c
  <2>4. /\ error - toPush["poll"] \in Nat
        /\ (error - toPush["poll"]) + 1 = error - toPush'["poll"]
        /\ toPush'["poll"] <= error
    BY <1>1, <2>1, <2>2
  <2>5. txQueue' = txQueue /\ (~txLost' => txOpen' = Repeated(error - toPush'["poll"], c))
    BY <2>1, <2>2, <2>3, <2>4, Pushed
  <2>6. mutex' = "poll" /\ pc'["log"] = "idle"
        /\ (pc'["poll"] = "error" \/ (pc'["poll"] = "notify" /\ error - toPush'["poll"] = error))
    <3>1. CASE toPush["poll"] > 1
      BY <1>2, <1>3, <1>4, <2>1, <3>1
    <3>2. CASE ~(toPush["poll"] > 1)
      <4>1. error - toPush'["poll"] = error
        BY <1>1, <2>1, <3>2
      <4> QED BY <1>2, <1>3, <1>4, <2>1, <3>2, <4>1
    <3> QED BY <3>1, <3>2
  <2>7. CASE pc'["poll"] = "error"
    BY <2>1, <2>4, <2>5, <2>6, <2>7 DEF TxRight, TxWhole, Begun, c, error
  <2>8. CASE pc'["poll"] = "notify" /\ error - toPush'["poll"] = error
    BY <2>1, <2>5, <2>6, <2>8 DEF TxRight, TxWhole, Begun, c, error
  <2> QED BY <2>6, <2>7, <2>8
<1>15. CASE PollErrorNotify
  <2>1. /\ pc["poll"] = "notify" /\ pc["log"] = "idle" /\ TX!Notify
        /\ pc'["poll"] = "release" /\ pc'["log"] = "idle" /\ mutex' = "poll"
    BY <1>2, <1>3, <1>4, <1>15 DEF PollErrorNotify
  <2>2. Begun(Holding("error", number), error)
    BY <2>1 DEF TxRight, error
  <2>3. TxWhole' /\ ~txLost' /\ txOpen' = << >>
    <3>1. "error" \in Messages
      BY DEF Messages
    <3> QED BY <1>1, <2>1, <2>2, <3>1, Finished DEF error
  <2> QED BY <2>1, <2>3 DEF TxRight
<1> QED BY <1>5, <1>6, <1>9, <1>10, <1>11, <1>12, <1>13, <1>14, <1>15 DEF PollNext

LEMMA TxInit ==
    ASSUME Init
    PROVE  TxRight /\ TxWhole
<1>1. /\ pc["poll"] = "idle" /\ pc["log"] = "idle" /\ mutex = "free"
      /\ ~txLost /\ txOpen = << >> /\ txQueue = << >>
  BY DEF Init, TX!Init
<1> QED BY <1>1 DEF TxRight, TxWhole

\* With the mutex around poll as around log, every packet given to the
\* transmitter is one whole message, whatever overflows and however the threads
\* and interrupts interleave (ccf.hpp's "Not threadsafe, use a mutex"), as long
\* as no error text is dropped from a txBuf that is exactly full.
THEOREM MessagesWhole ==
    ASSUME PollLocks = TRUE
    PROVE  Spec /\ NeverSpoilt => []TxWhole
<1>1. Init => TxRight /\ TxWhole
  BY TxInit
<1>2. Safe /\ TxRight /\ TxWhole /\ [Next]_vars /\ [Unspoilt]_vars => TxRight' /\ TxWhole'
  BY InterruptTx, LogTx, PollTx DEF Next
<1> QED BY <1>1, <1>2, SafeInvariant, PTL DEF Spec, NeverSpoilt

-----------------------------------------------------------------------------
(* The order of the answers *)

Number(queue, i) == queue[i][1].number

\* Requests wait in the order they came in, all later than the one poll has
\* copied, but for the frame it holds until its answer is sent.
RxOrder ==
    /\ \A i, j \in 1..Len(rxQueue) : i < j => Number(rxQueue, i) < Number(rxQueue, j)
    /\ incoming.number > 0 =>
           /\ request.number < incoming.number
           /\ \A i \in 1..Len(rxQueue) : Number(rxQueue, i) < incoming.number
    /\ \A i \in 1..Len(rxQueue) :
           \/ request.number < Number(rxQueue, i)
           \/ i = 1 /\ rxTaken # << >> /\ pc["poll"] # "copy"

\* While poll answers a request, the answers sent are to earlier ones.
TxOrder ==
    /\ \A i, j \in 1..Len(txQueue) :
           i < j /\ Number(txQueue, i) > 0 /\ Number(txQueue, j) > 0 =>
               Number(txQueue, i) < Number(txQueue, j)
    /\ \A i \in 1..Len(txQueue) :
           /\ Number(txQueue, i) <= request.number
           /\ pc["poll"] \in Answering => Number(txQueue, i) < request.number

Numbered(queue) == \A i \in 1..Len(queue) : Number(queue, i) \in 0..MaxRequests

LEMMA RxNumbered ==
    ASSUME RxRight
    PROVE  /\ Numbered(rxQueue)
           /\ \A r \in Requests : Packet(r) \in Seq(Requests) /\ Packet(r)[1] = r
           /\ rxQueue \in Seq(Seq(Requests))
<1>1. ASSUME NEW r \in Requests
      PROVE  Packet(r) \in Seq(Requests) /\ Packet(r)[1] = r /\ r.number \in 0..MaxRequests
  <2> DEFINE n == RxLength[r.kind]
  <2>1. n \in Nat /\ n > 0 /\ r.number \in 0..MaxRequests
    BY CcfAssumption DEF Requests
  <2>2. Packet(r) = Repeated(n, r)
    BY DEF Packet
  <2> HIDE DEF n
  <2> QED BY <2>1, <2>2, RepeatedIs
<1>2. Numbered(rxQueue)
  BY <1>1 DEF RxRight, Numbered, Number
<1> QED BY <1>1, <1>2, RxTyped

LEMMA TxNumbered ==
    ASSUME TxWhole
    PROVE  /\ Numbered(txQueue)
           /\ \A what \in Messages, number \in 0..MaxRequests :
                  /\ Message(what, number) \in Seq(Contents)
                  /\ Message(what, number)[1].number = number
<1>1. ASSUME NEW what \in Messages, NEW number \in 0..MaxRequests
      PROVE  /\ Message(what, number) \in Seq(Contents)
             /\ Message(what, number)[1].number = number
  <2> DEFINE n == TxLength[what]
             c == Holding(what, number)
  <2>1. n \in Nat /\ n > 0 /\ c \in Contents /\ c.number = number
    BY CcfAssumption DEF Holding, Contents
  <2>2. Message(what, number) = Repeated(n, c)
    BY DEF Message, Repeated
  <2> HIDE DEF n, c
  <2> QED BY <2>1, <2>2, RepeatedIs
<1>2. Numbered(txQueue)
  BY <1>1 DEF TxWhole, Numbered, Number
<1> QED BY <1>1, <1>2

\* What happens to a queue of numbered packets.
LEMMA Numbers ==
    ASSUME NEW S, NEW q \in Seq(S)
    PROVE  /\ \A p \in S : \A i \in 1..Len(Append(q, p)) :
                  \/ i \in 1..Len(q) /\ i <= Len(q) /\ Number(Append(q, p), i) = Number(q, i)
                  \/ i = Len(q) + 1 /\ Number(Append(q, p), i) = p[1].number
           /\ q # << >> => \A i \in 1..Len(Tail(q)) :
                  i + 1 \in 2..Len(q) /\ Number(Tail(q), i) = Number(q, i + 1)
<1>1. ASSUME NEW p \in S, NEW i \in 1..Len(Append(q, p))
      PROVE  \/ i \in 1..Len(q) /\ i <= Len(q) /\ Number(Append(q, p), i) = Number(q, i)
             \/ i = Len(q) + 1 /\ Number(Append(q, p), i) = p[1].number
  <2>1. Len(q) \in Nat
    BY LenProperties
  <2> QED BY <1>1, <2>1, QueueAppended DEF Number
<1>2. ASSUME q # << >>, NEW i \in 1..Len(Tail(q))
      PROVE  i + 1 \in 2..Len(q) /\ Number(Tail(q), i) = Number(q, i + 1)
  BY <1>2, QueueTail DEF Number
<1> QED BY <1>1, <1>2

\* What poll has of rxBuf, and the request it answers.
LEMMA PollFrames ==
    ASSUME ThreadsRight, [Next]_vars
    PROVE  \/ PollCopy
           \/ PollGet
           \/ /\ request' = request /\ RX!GiveBack /\ incoming' = incoming
              /\ pc["poll"] # "copy" /\ pc'["poll"] # "copy"
           \/ ReceiveNext
           \/ /\ request' = request /\ UNCHANGED <<rxVars, incoming>>
              /\ pc["poll"] # "copy" <=> pc'["poll"] # "copy"
<1> USE DEF Threads
<1>1. \A label \in PollLabels : PollGoto(label) => pc'["poll"] = label
  BY Goes DEF PollGoto
<1>2. {"idle", "release", "get", "copy", "check", "call", "send", "error", "notify"} = PollLabels
  BY DEF PollLabels, Answering
<1>3. CASE PollRelease
  <2>1. pc'["poll"] = "get" /\ pc["poll"] = "release" /\ UNCHANGED <<request, incoming>>
        /\ (RX!GiveBack \/ UNCHANGED rxVars)
    BY <1>1, <1>2, <1>3 DEF PollRelease
  <2> QED BY <2>1
<1>4. CASE Poll \/ PollReturn \/ SendPush("poll") \/ PollSent \/ PollErrorPush \/ PollErrorNotify
  BY <1>1, <1>2, <1>4
     DEF Poll, PollReturn, SendPush, PollSent, SendDone, PollErrorPush, PollErrorNotify
<1>5. PollError => pc'["poll"] = "error"
  BY <1>1, <1>2 DEF PollError
<1>6. CASE PollCheck
  BY <1>1, <1>2, <1>5, <1>6 DEF PollCheck
<1>7. CASE PollCall
  <2>1. StartSend("poll", "response") => PollGoto("send")
    BY DEF StartSend, PollGoto
  <2> QED BY <1>1, <1>2, <1>5, <1>7, <2>1 DEF PollCall
<1>8. CASE LogNext
  <2>1. \A label \in LogLabels : pc' = [pc EXCEPT !["log"] = label] => pc'["poll"] = pc["poll"]
    BY Goes
  <2>2. {"idle", "format", "send"} = LogLabels
    BY DEF LogLabels
  <2> QED BY <1>8, <2>1, <2>2 DEF LogNext, LogLock, LogFormat, StartSend, SendPush, LogSent
<1>9. CASE TransmitNext \/ UNCHANGED vars
  BY <1>9 DEF TransmitNext, TakeFrame, ReleaseFrame, vars, threadVars
<1> QED BY <1>3, <1>4, <1>6, <1>7, <1>8, <1>9 DEF Next, PollNext

LEMMA RxOrderNext ==
    ASSUME RxRight, ThreadsRight, RxOrder, [Next]_vars
    PROVE  RxOrder'
<1> DEFINE Packets == Seq(Requests)
           N(i) == Number(rxQueue, i)
<1>1. /\ rxQueue \in Seq(Packets) /\ Numbered(rxQueue) /\ Len(rxQueue) \in Nat
      /\ incoming.number \in 0..MaxRequests /\ request.number \in 0..MaxRequests
      /\ MaxRequests \in Nat
      /\ \A r \in Requests : Packet(r) \in Packets /\ Packet(r)[1] = r
  <2>1. rxQueue \in Seq(Packets)
    BY RxNumbered
  <2>2. Len(rxQueue) \in Nat
    <3> HIDE DEF Packets
    <3> QED BY <2>1, LenProperties
  <2> QED BY <2>1, <2>2, CcfAssumption, RxNumbered, RequestTyped DEF RxRight
<1> HIDE DEF Packets
<1>2. CASE PollCopy
  <2>1. /\ UNCHANGED <<rxQueue, rxTaken, incoming>> /\ rxTaken # << >> /\ pc["poll"] = "copy"
        /\ 1 \in 1..Len(rxQueue) /\ request'.number = N(1)
    BY <1>2, FrameIsRequest DEF PollCopy, ThreadsRight, rxVars, Number
  <2>2. pc'["poll"] # "copy"
    <3>1. \A label \in {"check", "error"} : PollGoto(label) => pc'["poll"] = label
      BY Goes DEF PollGoto, PollLabels, Answering, Threads
    <3> QED BY <1>2, <3>1 DEF PollCopy, PollError
  <2> QED BY <1>1, <2>1, <2>2 DEF RxOrder, Numbered
<1>3. CASE PollGet
  <2>1. UNCHANGED <<rxQueue, incoming, request>> /\ rxTaken = << >>
    BY <1>3, RxEffects DEF PollGet
  <2> QED BY <2>1 DEF RxOrder
<1>4. CASE /\ request' = request /\ RX!GiveBack /\ incoming' = incoming
           /\ pc["poll"] # "copy" /\ pc'["poll"] # "copy"
  <2>1. rxQueue' = Tail(rxQueue) /\ rxQueue # << >>
    BY <1>4, RxEffects, RxTyped
  <2>2. \A i \in 1..Len(rxQueue') : i + 1 \in 2..Len(rxQueue) /\ Number(rxQueue', i) = N(i + 1)
    BY <1>1, <2>1, Numbers
  <2>3. Len(rxQueue') \in Nat
    BY <1>1, <2>1, QueueTail
  <2> QED BY <1>1, <1>4, <2>2, <2>3 DEF RxOrder
<1>5. CASE ReceiveNext
  <2>1. UNCHANGED <<request, pc>>
    BY <1>5 DEF ReceiveNext, ReceiveByte, ReceiveDelimiter, threadVars
  <2>2. CASE ReceiveByte
    <3>1. UNCHANGED <<rxQueue, rxTaken>>
      BY <2>2, RxEffects DEF ReceiveByte
    <3>2. incoming'.number = incoming.number
      BY <2>2 DEF ReceiveByte, RxRight
    <3> QED BY <2>1, <3>1, <3>2 DEF RxOrder
  <2>3. CASE ReceiveDelimiter
    <3> DEFINE r == [number |-> incoming.number, kind |-> incoming.kind]
    <3>1. /\ r \in Requests /\ r.number = incoming.number /\ incoming.number \in 1..MaxRequests
          /\ rxQueue' = rxQueue \/ rxQueue' = Append(rxQueue, Packet(r))
          /\ rxTaken' = rxTaken /\ incoming'.number \in {incoming.number + 1, 0}
      BY <2>3, RequestPublished
    <3> HIDE DEF r
    <3>2. /\ \A i, j \in 1..Len(rxQueue) : i < j => N(i) < N(j)
          /\ request.number < incoming.number
          /\ \A i \in 1..Len(rxQueue) : N(i) < incoming.number /\ N(i) \in Nat
          /\ \A i \in 1..Len(rxQueue) : \/ request.number < N(i)
                                        \/ i = 1 /\ rxTaken # << >> /\ pc["poll"] # "copy"
      BY <1>1, <3>1 DEF RxOrder, Numbered
    <3>3. CASE rxQueue' = rxQueue
      BY <1>1, <2>1, <3>1, <3>2, <3>3 DEF RxOrder
    <3>4. CASE rxQueue' = Append(rxQueue, Packet(r))
      <4>1. \A i \in 1..Len(rxQueue') :
                \/ i \in 1..Len(rxQueue) /\ i <= Len(rxQueue) /\ Number(rxQueue', i) = N(i)
                \/ i = Len(rxQueue) + 1 /\ Number(rxQueue', i) = incoming.number
        BY <1>1, <3>1, <3>4, Numbers
      <4>2. Len(rxQueue') = Len(rxQueue) + 1
        BY <1>1, <3>1, <3>4, QueueAppended
      <4> HIDE DEF N
      <4>3. \A i, j \in 1..Len(rxQueue') : i < j => Number(rxQueue', i) < Number(rxQueue', j)
        BY <1>1, <3>2, <4>1, <4>2
      <4>4. incoming'.number > 0 =>
                /\ request.number < incoming'.number
                /\ \A i \in 1..Len(rxQueue') : Number(rxQueue', i) < incoming'.number
        BY <1>1, <3>1, <3>2, <4>1
      <4>5. \A i \in 1..Len(rxQueue') :
                \/ request.number < Number(rxQueue', i)
                \/ i = 1 /\ rxTaken # << >> /\ pc["poll"] # "copy"
        BY <3>2, <4>1
      <4> QED BY <2>1, <3>1, <4>3, <4>4, <4>5 DEF RxOrder
    <3> QED BY <3>1, <3>3, <3>4
  <2> QED BY <1>5, <2>2, <2>3 DEF ReceiveNext
<1>6. CASE /\ request' = request /\ UNCHANGED <<rxVars, incoming>>
           /\ pc["poll"] # "copy" <=> pc'["poll"] # "copy"
  BY <1>6 DEF RxOrder, rxVars
<1> QED BY <1>2, <1>3, <1>4, <1>5, <1>6, PollFrames

\* What happens to txBuf's queue.
LEMMA TxQueueSteps ==
    ASSUME PollLocks, Safe, TxRight, TxWhole, [Next]_vars, [Unspoilt]_vars
    PROVE  \/ txQueue' = txQueue
           \/ txQueue' = Tail(txQueue) /\ txQueue # << >> /\ UNCHANGED <<pc, request>>
           \/ txQueue' = Append(txQueue, Message("log", 0)) /\ request' = request
              /\ pc'["poll"] = pc["poll"]
           \/ \E what \in Messages :
                 /\ txQueue' = Append(txQueue, Message(what, request.number))
                 /\ request' = request /\ pc["poll"] \in Answering /\ pc'["poll"] \notin Answering
<1> USE DEF Threads
<1>1. /\ txQueue \in Seq(Seq(Contents)) /\ txLost \in BOOLEAN
      /\ toPush \in [Threads -> Nat] /\ ThreadsRight
      /\ "log" \in Messages /\ "response" \in Messages /\ "error" \in Messages
      /\ 0 \in 0..MaxRequests /\ Holding("log", 0) \in Contents
      /\ \A what \in Messages : TxLength[what] \in Nat
  BY CcfAssumption DEF Messages, Safe, ThreadsRight, TXF!Fits, TXF!Typed, Holding, Contents
<1>2. \A n \in Nat : n - 0 = n
  OBVIOUS
<1>3. CASE LogSent /\ Unspoilt
  <2>1. /\ pc["log"] = "send" /\ toPush["log"] = 0
        /\ (~txLost /\ TX!Notify) \/ (txLost /\ TX!ResetDropped)
        /\ request' = request /\ pc'["poll"] = pc["poll"]
    <3>1. "idle" \in LogLabels /\ pc' = [pc EXCEPT !["log"] = "idle"]
      BY <1>3 DEF LogLabels, LogSent
    <3> QED BY <1>1, <1>3, <3>1, Goes DEF LogSent, SendDone
  <2>2. Begun(Holding("log", 0), TxLength["log"])
    BY <1>1, <1>2, <2>1 DEF TxRight
  <2>3. txQueue' = txQueue \/ txQueue' = Append(txQueue, Message("log", 0))
    BY <1>1, <1>3, <2>1, <2>2, Finished
  <2> QED BY <2>1, <2>3
<1>4. /\ request.number \in 0..MaxRequests
      /\ Holding("response", request.number) \in Contents
      /\ Holding("error", request.number) \in Contents
  BY <1>1, RequestTyped
<1>5. PollGoto("release") => pc'["poll"] = "release"
  BY <1>1, Goes DEF PollGoto, PollLabels
<1>6. CASE PollSent /\ Unspoilt
  <2>1. /\ pc["poll"] = "send" /\ toPush["poll"] = 0 /\ pc'["poll"] = "release"
        /\ (~txLost /\ TX!Notify) \/ (txLost /\ TX!ResetDropped)
        /\ request' = request
    BY <1>5, <1>6 DEF PollSent, SendDone
  <2>2. Begun(Holding("response", request.number), TxLength["response"])
    BY <1>1, <1>2, <2>1 DEF TxRight
  <2>3. txQueue' = txQueue \/ txQueue' = Append(txQueue, Message("response", request.number))
    BY <1>1, <1>4, <1>6, <2>1, <2>2, Finished
  <2> QED BY <1>1, <2>1, <2>3 DEF Answering
<1>7. CASE PollErrorNotify /\ Unspoilt
  <2>1. /\ pc["poll"] = "notify" /\ TX!Notify /\ pc'["poll"] = "release" /\ request' = request
    BY <1>5, <1>7 DEF PollErrorNotify
  <2>2. Begun(Holding("error", request.number), TxLength["error"])
    BY <2>1 DEF TxRight
  <2>3. txQueue' = txQueue \/ txQueue' = Append(txQueue, Message("error", request.number))
    BY <1>1, <1>4, <1>7, <2>1, <2>2, Finished
  <2> QED BY <1>1, <2>1, <2>3 DEF Answering
<1>8. CASE SendPush("poll") \/ SendPush("log") \/ PollErrorPush
  BY <1>8, TxEffects DEF SendPush, PollErrorPush
<1>9. CASE TransmitNext
  <2>1. TX!GiveBack => txQueue # << >>
    BY DEF TX!GiveBack, Safe, TXF!Fits, TXF!Typed
  <2> QED BY <1>9, <2>1, TxEffects DEF TransmitNext, TakeFrame, ReleaseFrame, threadVars
<1>10. CASE \/ Poll \/ PollRelease \/ PollGet \/ PollReturn \/ PollCopy \/ PollCheck
            \/ PollCall \/ LogLock \/ LogFormat \/ ReceiveNext \/ UNCHANGED vars
  BY <1>10 DEF Poll, PollRelease, PollGet, PollReturn, PollCopy, PollCheck, PollCall,
               LogLock, LogFormat, ReceiveNext, ReceiveByte, ReceiveDelimiter, vars, txVars
<1> QED BY <1>3, <1>6, <1>7, <1>8, <1>9, <1>10 DEF Next, PollNext, LogNext

\* poll starts to answer a request by copying it.
LEMMA StartsAnswering ==
    ASSUME ThreadsRight, [Next]_vars, ~PollCopy
    PROVE  request' = request /\ (pc'["poll"] \in Answering => pc["poll"] \in Answering)
<1> USE DEF Threads
<1>1. \A label \in PollLabels : PollGoto(label) => pc'["poll"] = label
  BY Goes DEF PollGoto
<1>2. /\ {"idle", "release", "get", "copy"} \subseteq PollLabels
      /\ "release" \notin Answering /\ "get" \notin Answering /\ "copy" \notin Answering
      /\ "idle" \notin Answering
      /\ {"check", "call", "send", "error", "notify"} = Answering
  BY DEF PollLabels, Answering
<1>3. CASE Poll \/ PollRelease \/ PollGet \/ PollReturn \/ PollSent \/ PollErrorNotify
  BY <1>1, <1>2, <1>3 DEF Poll, PollRelease, PollGet, PollReturn, PollSent, PollErrorNotify
<1>4. CASE PollCheck \/ PollCall \/ SendPush("poll") \/ PollErrorPush
  BY <1>2, <1>4 DEF PollCheck, PollCall, SendPush, PollErrorPush
<1>5. CASE LogNext
  <2>1. \A label \in LogLabels : pc' = [pc EXCEPT !["log"] = label] => pc'["poll"] = pc["poll"]
    BY Goes
  <2>2. {"idle", "format", "send"} = LogLabels
    BY DEF LogLabels
  <2> QED BY <1>5, <2>1, <2>2 DEF LogNext, LogLock, LogFormat, StartSend, SendPush, LogSent
<1>6. CASE ReceiveNext \/ TransmitNext \/ UNCHANGED vars
  BY <1>6 DEF ReceiveNext, ReceiveByte, ReceiveDelimiter, TransmitNext, TakeFrame,
              ReleaseFrame, vars, threadVars
<1> QED BY <1>3, <1>4, <1>5, <1>6 DEF Next, PollNext

LEMMA TxOrderNext ==
    ASSUME PollLocks, Safe, TxRight, TxWhole, RxOrder, TxOrder, [Next]_vars,
           [Unspoilt]_vars
    PROVE  TxOrder'
<1> DEFINE Packets == Seq(Contents)
           T(i) == Number(txQueue, i)
           number == request.number
<1>1. /\ txQueue \in Seq(Packets) /\ Numbered(txQueue) /\ Len(txQueue) \in Nat
      /\ number \in 0..MaxRequests /\ MaxRequests \in Nat
      /\ \A what \in Messages, m \in 0..MaxRequests :
             Message(what, m) \in Packets /\ Message(what, m)[1].number = m
      /\ ThreadsRight /\ RxRight
  <2>1. txQueue \in Seq(Packets)
    BY DEF Safe, TXF!Fits, TXF!Typed
  <2>2. Len(txQueue) \in Nat
    <3> HIDE DEF Packets
    <3> QED BY <2>1, LenProperties
  <2> QED BY <2>1, <2>2, CcfAssumption, TxNumbered, RequestTyped DEF Safe
<1> HIDE DEF Packets
<1>2. CASE PollCopy
  <2>1. UNCHANGED txQueue /\ number < request'.number /\ request'.number \in Nat
    <3>1. /\ pc["poll"] = "copy" /\ txQueue' = txQueue /\ rxTaken # << >>
      BY <1>1, <1>2 DEF PollCopy, txVars, ThreadsRight
    <3>2. 1 \in 1..Len(rxQueue) /\ request'.number = Number(rxQueue, 1)
      BY <1>1, <1>2, <3>1, FrameIsRequest DEF PollCopy, Number
    <3>3. Numbered(rxQueue)
      BY <1>1, RxNumbered
    <3>4. Number(rxQueue, 1) \in 0..MaxRequests
      BY <3>2, <3>3 DEF Numbered
    <3>5. number < Number(rxQueue, 1)
      BY <3>1, <3>2 DEF RxOrder
    <3> QED BY <1>1, <3>1, <3>2, <3>4, <3>5
  <2> QED BY <1>1, <2>1 DEF TxOrder, Numbered
<1>3. CASE ~PollCopy
  <2>1. request' = request /\ (pc'["poll"] \in Answering => pc["poll"] \in Answering)
    BY <1>1, <1>3, StartsAnswering
  <2>2. CASE txQueue' = txQueue
    BY <2>1, <2>2 DEF TxOrder
  <2>3. CASE txQueue' = Tail(txQueue) /\ txQueue # << >>
    <3>1. \A i \in 1..Len(txQueue') : i + 1 \in 2..Len(txQueue) /\ Number(txQueue', i) = T(i + 1)
      BY <1>1, <2>3, Numbers
    <3>2. Len(txQueue') \in Nat
      BY <1>1, <2>3, QueueTail
    <3> QED BY <1>1, <2>1, <3>1, <3>2 DEF TxOrder
  \* m is 0 for a line of log, and the request's number for its answer.
  <2>4. ASSUME NEW what \in Messages, NEW m \in 0..MaxRequests,
               txQueue' = Append(txQueue, Message(what, m)),
               m = 0 \/ (m = number /\ pc["poll"] \in Answering /\ pc'["poll"] \notin Answering),
               m = 0 => (pc'["poll"] \in Answering => number > 0)
        PROVE  TxOrder'
    <3>1. \A i \in 1..Len(txQueue') :
              \/ i \in 1..Len(txQueue) /\ i <= Len(txQueue) /\ Number(txQueue', i) = T(i)
              \/ i = Len(txQueue) + 1 /\ Number(txQueue', i) = m
      BY <1>1, <2>4, Numbers
    <3>2. Len(txQueue') = Len(txQueue) + 1
      BY <1>1, <2>4, QueueAppended
    <3>3. /\ \A i, j \in 1..Len(txQueue) : i < j /\ T(i) > 0 /\ T(j) > 0 => T(i) < T(j)
          /\ \A i \in 1..Len(txQueue) : /\ T(i) <= number /\ T(i) \in Nat
                                        /\ pc["poll"] \in Answering => T(i) < number
      BY <1>1 DEF TxOrder, Numbered
    <3> HIDE DEF T
    <3>4. \A i, j \in 1..Len(txQueue') :
              i < j /\ Number(txQueue', i) > 0 /\ Number(txQueue', j) > 0 =>
                  Number(txQueue', i) < Number(txQueue', j)
      BY <1>1, <2>4, <3>1, <3>2, <3>3
    <3>5. \A i \in 1..Len(txQueue') :
              /\ Number(txQueue', i) <= number
              /\ pc'["poll"] \in Answering => Number(txQueue', i) < number
      BY <1>1, <2>1, <2>4, <3>1, <3>3
    <3> QED BY <2>1, <3>4, <3>5 DEF TxOrder
  <2>5. pc["poll"] \in Answering => number > 0
    BY <1>1 DEF ThreadsRight, Requests
  <2> QED BY <1>1, <2>1, <2>2, <2>3, <2>4, <2>5, TxQueueSteps, CcfAssumption DEF Messages
<1> QED BY <1>2, <1>3

LEMMA OrderInit ==
    ASSUME Init
    PROVE  RxOrder /\ TxOrder
<1>1. /\ rxQueue = << >> /\ txQueue = << >> /\ request = NoRequest /\ incoming.number = 1
  BY DEF Init, RX!Init, TX!Init, Arriving
<1>2. Len(rxQueue) = 0 /\ Len(txQueue) = 0 /\ request.number = 0
  BY <1>1, EmptySeq DEF NoRequest
<1> QED BY <1>1, <1>2 DEF RxOrder, TxOrder

LEMMA OrderAnswers == TxOrder => AnswersInOrder
<1> SUFFICES ASSUME TxOrder PROVE AnswersInOrder
  OBVIOUS
<1>1. \A i, j \in {k \in 1..Len(txQueue) : txQueue[k][1].number > 0} :
          i < j => txQueue[i][1].number < txQueue[j][1].number
  BY DEF TxOrder, Number
<1>2. \A i \in {k \in 1..Len(txQueue) : txQueue[k][1].number > 0} :
          txQueue[i][1].number <= request.number
  BY DEF TxOrder, Number
<1> QED BY <1>1, <1>2 DEF AnswersInOrder

\* And the answers are queued in the order of their requests, at most one for
\* each, whatever is refused, dropped or written between them by log (poll), with
\* the same exception.
THEOREM AnswersOrdered ==
    ASSUME PollLocks = TRUE
    PROVE  Spec /\ NeverSpoilt => []AnswersInOrder
<1>1. Init => TxRight /\ TxWhole /\ RxOrder /\ TxOrder
  BY TxInit, OrderInit
<1>2. Safe /\ TxRight /\ TxWhole /\ RxOrder /\ TxOrder /\ [Next]_vars /\ [Unspoilt]_vars =>
          TxRight' /\ TxWhole' /\ RxOrder' /\ TxOrder'
  <2>1. Safe => RxRight /\ ThreadsRight
    BY DEF Safe
  <2> QED BY <2>1, InterruptTx, LogTx, PollTx, RxOrderNext, TxOrderNext DEF Next
<1> QED BY <1>1, <1>2, SafeInvariant, OrderAnswers, PTL DEF Spec, NeverSpoilt
=============================================================================
