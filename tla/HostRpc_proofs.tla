----------------------------- MODULE HostRpc_proofs -----------------------------
(***************************************************************************)
(* Proofs about HostRpc, for every number of callers, sequence numbers,    *)
(* packet and buffer size, and every bound.                                *)
(***************************************************************************)
EXTENDS HostRpc, SequenceTheorems, TLAPS

-----------------------------------------------------------------------------
(* Sequence numbers *)

\* No multiple of SeqCount lies strictly between -SeqCount and SeqCount but 0.
LEMMA NoMultipleBetween ==
    ASSUME NEW k \in Int, -SeqCount < k * SeqCount, k * SeqCount < SeqCount
    PROVE  k = 0
<1>1. CASE k <= -1
  <2>1. k * SeqCount <= (-1) * SeqCount
    BY <1>1, HostRpcAssumption
  <2> QED BY <2>1, HostRpcAssumption
<1>2. CASE k >= 1
  <2>1. k * SeqCount >= SeqCount
    BY <1>2, HostRpcAssumption
  <2> QED BY <2>1, HostRpcAssumption
<1> QED BY <1>1, <1>2

\* Of SeqCount successive calls no two have the same sequence number.
LEMMA SameNumber ==
    ASSUME NEW n \in Nat, NEW a \in Window(n), NEW b \in Window(n),
           SeqNo(a) = SeqNo(b)
    PROVE  a = b
<1>0. /\ a \in Int /\ b \in Int
      /\ -SeqCount < a - b /\ a - b < SeqCount
  BY HostRpcAssumption DEF Window
<1>1. PICK qa \in Int : a = qa * SeqCount + SeqNo(a)
  <2>1. a = (a \div SeqCount) * SeqCount + (a % SeqCount) /\ a \div SeqCount \in Int
    BY <1>0, HostRpcAssumption
  <2> QED BY <2>1 DEF SeqNo
<1>2. PICK qb \in Int : b = qb * SeqCount + SeqNo(b)
  <2>1. b = (b \div SeqCount) * SeqCount + (b % SeqCount) /\ b \div SeqCount \in Int
    BY <1>0, HostRpcAssumption
  <2> QED BY <2>1 DEF SeqNo
<1>3. SeqNo(a) \in Int
  BY <1>0, HostRpcAssumption DEF SeqNo
<1>4. a - b = (qa - qb) * SeqCount
  BY <1>1, <1>2, <1>3, HostRpcAssumption
<1>5. qa - qb = 0
  BY <1>0, <1>4, NoMultipleBetween
<1> QED BY <1>0, <1>4, <1>5, HostRpcAssumption

-----------------------------------------------------------------------------
(* Bytes and parts of what is on the line *)

\* A part of a sequence is one of the same things.
LEMMA PartOf ==
    ASSUME NEW T, NEW seq \in Seq(T), NEW m \in Nat \ {0}, NEW n \in 0..Len(seq)
    PROVE  /\ SubSeq(seq, m, n) \in Seq(T)
           /\ Len(SubSeq(seq, m, n)) = IF m <= n THEN n - m + 1 ELSE 0
           /\ m <= n => SubSeq(seq, m, n)[1] = seq[m]
<1>1. \A i \in m..n : seq[i] \in T
  BY ElementOfSeq, LenProperties
<1>2. m \in Int /\ n \in Int
  BY LenProperties
<1> QED BY <1>1, <1>2, SubSeqProperties

\* A packet is a sequence of bytes.
LEMMA BodyBytes ==
    ASSUME NEW T, NEW m \in Messages(T)
    PROVE  Body(m) \in Seq(Bytes(T))
<1> DEFINE byte(i) == [message |-> m, place |-> i]
<1>1. \A i \in 1..FrameSize : byte(i) \in Bytes(T)
  BY HostRpcAssumption DEF Bytes
<1>2. [i \in 1..FrameSize |-> byte(i)] \in Seq(Bytes(T))
  <2> HIDE DEF byte
  <2> QED BY <1>1, IsASeq, HostRpcAssumption
<1> QED BY <1>2 DEF Body

LEMMA DelimiterBytes ==
    ASSUME NEW T
    PROVE  /\ Zero \in Bytes(T) /\ Garbage \in Bytes(T)
           /\ ErrorText \in Messages(T)
BY HostRpcAssumption DEF Zero, Garbage, Bytes, Messages, ErrorText

\* What the device transmits is bytes.
LEMMA TransmitBytes ==
    ASSUME NEW T, fromDevice \in Seq(Bytes(T)), NEW bytes \in Seq(Bytes(T)),
           Transmit(bytes)
    PROVE  fromDevice' \in Seq(Bytes(T))
BY ConcatProperties DEF Transmit

\* Answers and requests to S are also ones to more.
LEMMA BytesMonotonic ==
    ASSUME NEW T, NEW U, T \subseteq U
    PROVE  Bytes(T) \subseteq Bytes(U)
BY DEF Bytes, Messages

\* The first byte of what lies before the delimiter tells the message.
LEMMA FirstMessage ==
    ASSUME NEW T, rxBuf \in Seq(Bytes(T)), NEW i \in 2..Len(rxBuf)
    PROVE  SubSeq(rxBuf, 1, i - 1)[1].message \in Messages(T)
<1>1. 1 \in 1..Len(rxBuf) /\ i - 1 \in 0..Len(rxBuf) /\ 1 <= i - 1
  BY LenProperties
<1>2. rxBuf[1] \in Bytes(T)
  BY <1>1, ElementOfSeq
<1>3. SubSeq(rxBuf, 1, i - 1)[1] = rxBuf[1]
  BY <1>1, PartOf
<1> QED BY <1>2, <1>3 DEF Bytes

\* What is under way in T and in U is in both.
LEMMA SeqBoth ==
    ASSUME NEW T, NEW U, NEW V, NEW seq \in Seq(T), seq \in Seq(U), T \cap U \subseteq V
    PROVE  seq \in Seq(V)
<1>1. Len(seq) \in Nat /\ seq \in [1..Len(seq) -> T] /\ seq \in [1..Len(seq) -> U]
  BY LenProperties
<1>2. seq \in [1..Len(seq) -> V]
  BY <1>1
<1> QED BY <1>1, <1>2, SeqDef

LEMMA UnderWayBoth ==
    ASSUME NEW T, NEW U, UnderWay(T), UnderWay(U)
    PROVE  UnderWay(T \cap U)
<1>1. Bytes(T) \cap Bytes(U) \subseteq Bytes(T \cap U)
  BY DEF Bytes, Messages
<1>2. asked \in [Callers -> (T \cap U) \cup {0}]
  BY DEF UnderWay
<1>3. toDevice \in Seq(T \cap U) /\ rpcQueue \in Seq(T \cap U)
  BY SeqBoth DEF UnderWay
<1>4. fromDevice \in Seq(Bytes(T \cap U)) /\ rxBuf \in Seq(Bytes(T \cap U))
  BY <1>1, SeqBoth DEF UnderWay
<1> QED BY <1>2, <1>3, <1>4 DEF UnderWay

-----------------------------------------------------------------------------
(* Every step keeps TypeOK *)

LEMMA TypedParts == TypeOK <=> UnderWay(Recent) /\ RestTyped
BY DEF TypeOK

LEMMA TypedPartsNext == TypeOK' <=> UnderWay(Recent)' /\ RestTyped'
BY DEF TypeOK

LEMMA RecentCalls == Recent \subseteq Nat /\ (~NumbersReused => Recent \subseteq Window(calls))
BY DEF Recent

\* When no call begins, the calls that are recent stay the same.
LEMMA RecentKept ==
    ASSUME calls' = calls
    PROVE  Recent' = Recent
BY DEF Recent, Window

\* A new call is recent, and so is all that is still under way: by NumberIsFree,
\* or because everything is.
LEMMA CallTyped ==
    ASSUME TypeOK, NEW c \in Callers, Call(c)
    PROVE  TypeOK'
<1> USE HostRpcAssumption
<1>1. /\ calls \in Nat /\ calls' = calls + 1 /\ calls' \in 0..MaxCalls
      /\ Recent' = IF NumbersReused THEN Nat ELSE Window(calls + 1) \cap Nat
      /\ calls + 1 \in Recent'
  <2>1. /\ calls \in Nat /\ MaxCalls \in Nat /\ calls < MaxCalls /\ calls' = calls + 1
        /\ SeqCount \in Nat \ {0}
    BY DEF TypeOK, RestTyped, Call
  <2>2. Recent' = IF NumbersReused THEN Nat ELSE Window(calls + 1) \cap Nat
    BY <2>1 DEF Recent, Window
  <2>3. calls + 1 \in Nat /\ calls + 1 \in Window(calls + 1)
    BY <2>1 DEF Window
  <2>4. calls' \in 0..MaxCalls
    BY <2>1
  <2>5. calls + 1 \in Recent'
    BY <2>2, <2>3
  <2> QED BY <2>1, <2>2, <2>4, <2>5
<1>2. UnderWay(Recent')
  <2>1. CASE NumbersReused
    <3>1. Recent' = Recent
      BY <2>1 DEF Recent
    <3> QED BY <3>1, TypedParts
  <2>2. CASE ~NumbersReused
    <3> DEFINE T == Recent \cap Window(calls + 1)
    <3>1. UnderWay(T)
      BY <2>2, UnderWayBoth DEF TypeOK, Call, NumberIsFree
    <3>2. T \subseteq Recent'
      BY <1>1, <2>2, RecentCalls
    <3>3. Bytes(T) \subseteq Bytes(Recent')
      BY <3>2, BytesMonotonic
    <3>4. /\ toDevice \in Seq(Recent') /\ rpcQueue \in Seq(Recent')
          /\ fromDevice \in Seq(Bytes(Recent')) /\ rxBuf \in Seq(Bytes(Recent'))
      BY <3>1, <3>2, <3>3, SeqMonotonic DEF UnderWay
    <3>5. asked \in [Callers -> Recent' \cup {0}]
      BY <3>1, <3>2 DEF UnderWay
    <3> QED BY <3>4, <3>5 DEF UnderWay
  <2> QED BY <2>1, <2>2
<1>3. UnderWay(Recent)'
  <2>1. asked' \in [Callers -> Recent' \cup {0}]
    BY <1>1, <1>2 DEF UnderWay, Call
  <2>2. toDevice' \in Seq(Recent')
    BY <1>1, <1>2, AppendProperties DEF UnderWay, Call
  <2> QED BY <1>2, <2>1, <2>2 DEF UnderWay, Call, receiveVars
<1>4. RestTyped'
  BY <1>1 DEF TypeOK, RestTyped, Call, receiveVars
<1> QED BY <1>3, <1>4, TypedPartsNext

\* A message is taken from the queue.
LEMMA TakeTyped ==
    ASSUME TypeOK, NEW c \in Callers, Take(c)
    PROVE  TypeOK'
<1>1. UnderWay(Recent) /\ RestTyped /\ Recent' = Recent /\ Recent \subseteq Nat
  BY TypedParts, RecentKept, RecentCalls DEF Take
<1>2. Head(rpcQueue) \in Recent /\ rpcQueue' \in Seq(Recent)
  BY <1>1, HeadTailProperties DEF Take, UnderWay
<1>3. asked \in [Callers -> Recent \cup {0}] /\ asked[c] \in Nat
  <2>1. asked \in [Callers -> Recent \cup {0}]
    BY <1>1 DEF UnderWay
  <2>2. asked[c] \in Recent \cup {0}
    BY <2>1
  <2>3. asked[c] \in Nat
    <3>1. 0 \in Nat /\ Recent \subseteq Nat
      BY <1>1
    <3> QED BY <2>2, <3>1, Zenon
  <2> QED BY <2>1, <2>3
<1>4. CASE IsFor(Head(rpcQueue), asked[c])
  <2>1. /\ asked' = [asked EXCEPT ![c] = 0]
        /\ result' = [result EXCEPT ![c] = [asked |-> asked[c], answered |-> Head(rpcQueue)]]
        /\ harmed' = harmed
    BY <1>4 DEF Take
  <2>2. asked' \in [Callers -> Recent \cup {0}]
    BY <1>3, <2>1
  <2>3. result' \in [Callers -> [asked : Nat, answered : Nat]]
    <3>1. result \in [Callers -> [asked : Nat, answered : Nat]]
      BY <1>1 DEF RestTyped
    <3>2. [asked |-> asked[c], answered |-> Head(rpcQueue)] \in [asked : Nat, answered : Nat]
      BY <1>1, <1>2, <1>3
    <3> QED BY <2>1, <3>1, <3>2
  <2>4. UnderWay(Recent)'
    BY <1>1, <1>2, <2>2 DEF Take, UnderWay, deviceVars
  <2>5. RestTyped'
    BY <1>1, <2>1, <2>3 DEF RestTyped, Take, deviceVars
  <2> QED BY <2>4, <2>5, TypedPartsNext
<1>5. CASE ~IsFor(Head(rpcQueue), asked[c])
  <2>1. asked' = asked /\ result' = result /\ harmed' = harmed \cup {Head(rpcQueue)}
    BY <1>5 DEF Take
  <2>2. UnderWay(Recent)'
    BY <1>1, <1>2, <2>1 DEF Take, UnderWay, deviceVars
  <2>3. harmed' \subseteq Nat
    BY <1>1, <1>2, <2>1 DEF RestTyped
  <2>4. RestTyped'
    BY <1>1, <2>1, <2>3 DEF RestTyped, Take, deviceVars
  <2> QED BY <2>2, <2>4, TypedPartsNext
<1> QED BY <1>4, <1>5

LEMMA GiveUpTyped ==
    ASSUME TypeOK, NEW c \in Callers, GiveUp(c)
    PROVE  TypeOK'
<1>1. UnderWay(Recent) /\ RestTyped /\ Recent' = Recent
  BY TypedParts, RecentKept DEF GiveUp
<1>2. UnderWay(Recent)'
  BY <1>1 DEF GiveUp, UnderWay, deviceVars, receiveVars
<1>3. RestTyped'
  BY <1>1 DEF RestTyped, GiveUp, deviceVars, receiveVars
<1> QED BY <1>2, <1>3, TypedPartsNext

\* The device takes a request, or none, and transmits packets and error texts.
LEMMA DeviceTyped ==
    ASSUME TypeOK, Device
    PROVE  TypeOK'
<1> USE HostRpcAssumption
<1>1. UnderWay(Recent) /\ RestTyped /\ Recent \subseteq Nat
  BY TypedParts, RecentCalls
<1>2. DeviceUnchanged /\ Recent' = Recent
  BY RecentKept DEF Device, DeviceAnswers, DeviceSilent, DeviceError, DeviceLogs,
                    DeviceCloses, DeviceUnchanged, callVars
<1>3. toDevice # << >> => Head(toDevice) \in Recent /\ Tail(toDevice) \in Seq(Recent)
  BY <1>1, HeadTailProperties DEF UnderWay
<1>4. ASSUME NEW m \in Messages(Recent)
      PROVE  /\ Append(Body(m), Zero) \in Seq(Bytes(Recent))
             /\ Body(m) \o <<Zero, Zero>> \in Seq(Bytes(Recent))
  <2>1. Body(m) \in Seq(Bytes(Recent)) /\ Zero \in Bytes(Recent)
    BY BodyBytes, DelimiterBytes
  <2>2. <<Zero, Zero>> \in Seq(Bytes(Recent))
    BY <2>1
  <2> QED BY <2>1, <2>2, AppendProperties, ConcatProperties
<1>5. toDevice' \in Seq(Recent) /\ fromDevice' \in Seq(Bytes(Recent))
  <2>1. CASE DeviceAnswers
    <3>1. Answer(Head(toDevice)) \in Messages(Recent)
      BY <1>3, <2>1 DEF DeviceAnswers, Answer, Messages
    <3> QED BY <1>1, <1>3, <1>4, <2>1, <3>1, TransmitBytes DEF DeviceAnswers, UnderWay
  <2>2. CASE DeviceSilent
    BY <1>1, <1>3, <2>2 DEF DeviceSilent, UnderWay
  <2>3. CASE DeviceError
    <3>1. ErrorText \in Messages(Recent)
      BY DelimiterBytes
    <3> QED BY <1>1, <1>3, <1>4, <2>3, <3>1, TransmitBytes DEF DeviceError, UnderWay
  <2>4. CASE DeviceLogs
    <3>1. LogMessage(logs + 1) \in Messages(Recent)
      BY <1>1 DEF RestTyped, LogMessage, Messages
    <3> QED BY <1>1, <1>4, <2>4, <3>1, TransmitBytes DEF DeviceLogs, UnderWay
  <2>5. CASE DeviceCloses
    BY <1>1, <2>5 DEF DeviceCloses, UnderWay
  <2> QED BY <2>1, <2>2, <2>3, <2>4, <2>5 DEF Device
<1>6. UnderWay(Recent)'
  BY <1>1, <1>2, <1>5 DEF UnderWay, DeviceUnchanged, callVars, receiveVars
<1>7. /\ logs' \in 0..MaxLogs /\ faults' \in 0..MaxFaults
      /\ closed' \in BOOLEAN /\ harmed' \subseteq Nat
  <2>1. logs \in 0..MaxLogs /\ faults \in 0..MaxFaults /\ closed \in BOOLEAN /\ harmed \subseteq Nat
    BY <1>1 DEF RestTyped
  <2>2. CASE DeviceAnswers
    BY <2>1, <2>2 DEF DeviceAnswers
  <2>3. CASE DeviceSilent
    <3>1. harmed' \subseteq Nat
      BY <1>1, <1>3, <2>1, <2>3 DEF DeviceSilent
    <3>2. logs' = logs /\ closed' = closed /\ faults' = faults + 1 /\ faults < MaxFaults
      BY <2>3 DEF DeviceSilent
    <3> QED BY <2>1, <3>1, <3>2
  <2>4. CASE DeviceError
    <3>1. harmed' \subseteq Nat
      BY <1>1, <1>3, <2>1, <2>4 DEF DeviceError
    <3>2. logs' = logs /\ closed' = closed /\ faults' = faults + 1 /\ faults < MaxFaults
      BY <2>4 DEF DeviceError
    <3> QED BY <2>1, <3>1, <3>2
  <2>5. CASE DeviceLogs
    BY <2>1, <2>5 DEF DeviceLogs
  <2>6. CASE DeviceCloses
    BY <2>1, <2>6 DEF DeviceCloses
  <2> QED BY <2>2, <2>3, <2>4, <2>5, <2>6 DEF Device
<1>8. RestTyped'
  BY <1>1, <1>2, <1>7 DEF RestTyped, DeviceUnchanged, callVars, receiveVars
<1> QED BY <1>6, <1>8, TypedPartsNext

\* A fault of the line leaves bytes.
LEMMA LineFaultTyped ==
    ASSUME TypeOK, LineFault
    PROVE  TypeOK'
<1> USE HostRpcAssumption
<1>1. UnderWay(Recent) /\ RestTyped /\ Recent' = Recent
  BY TypedParts, RecentKept DEF LineFault, callVars
<1> DEFINE B == Bytes(Recent)
<1>2. fromDevice \in Seq(B) /\ Zero \in B /\ Garbage \in B
  BY <1>1, DelimiterBytes DEF UnderWay
<1>3. fromDevice' \in Seq(B)
  <2>1. PICK i \in 1..Len(fromDevice) :
            \/ fromDevice' = SubSeq(fromDevice, 1, i - 1)
                                 \o SubSeq(fromDevice, i + 1, Len(fromDevice))
            \/ \E byte \in {Zero, Garbage} : fromDevice' = [fromDevice EXCEPT ![i] = byte]
    BY DEF LineFault
  <2> HIDE DEF B
  <2>2. /\ i - 1 \in 0..Len(fromDevice) /\ i + 1 \in Nat \ {0}
        /\ Len(fromDevice) \in 0..Len(fromDevice)
    BY <1>2, LenProperties
  <2>3. /\ SubSeq(fromDevice, 1, i - 1) \in Seq(B)
        /\ SubSeq(fromDevice, i + 1, Len(fromDevice)) \in Seq(B)
    BY <1>2, <2>2, PartOf
  <2>4. \A byte \in B : [fromDevice EXCEPT ![i] = byte] \in Seq(B)
    BY <1>2, ExceptSeq
  <2>5. SubSeq(fromDevice, 1, i - 1) \o SubSeq(fromDevice, i + 1, Len(fromDevice)) \in Seq(B)
    BY <2>3, ConcatProperties
  <2> QED BY <1>2, <2>1, <2>4, <2>5
<1>4. UnderWay(Recent)'
  BY <1>1, <1>3 DEF UnderWay, LineFault, callVars
<1>5. RestTyped'
  BY <1>1 DEF RestTyped, LineFault, callVars
<1> QED BY <1>4, <1>5, TypedPartsNext

\* A message is sorted into its queue, whole as it is, or leaves the queues.
LEMMA ReceiveTyped ==
    ASSUME TypeOK, Receive
    PROVE  TypeOK'
<1> USE HostRpcAssumption
<1>1. UnderWay(Recent) /\ RestTyped /\ Recent' = Recent
  BY TypedParts, RecentKept DEF Receive, ReceiveUnchanged, callVars
<1> DEFINE B == Bytes(Recent)
           data(i) == SubSeq(rxBuf, 1, i - 1)
<1>2. PICK i \in 2..Len(rxBuf) :
          /\ rxBuf' = After(i)
          /\ IF Whole(data(i)) THEN Dispatch(data(i)[1].message) ELSE Exception
  BY DEF Receive
<1>3. rxBuf \in Seq(B) /\ Len(rxBuf) \in Nat /\ Len(rxBuf) < MaxBuffer
  BY <1>1, LenProperties DEF UnderWay, RestTyped
<1>4. rxBuf' \in Seq(B) /\ Len(rxBuf') < MaxBuffer
  <2> HIDE DEF B
  <2>1. i + 1 \in Nat \ {0} /\ Len(rxBuf) \in 0..Len(rxBuf) /\ i \in Nat /\ i >= 2
    BY <1>3
  <2>2. /\ After(i) \in Seq(B)
        /\ Len(After(i)) = IF i + 1 <= Len(rxBuf) THEN Len(rxBuf) - (i + 1) + 1 ELSE 0
    BY <1>3, <2>1, PartOf DEF After
  <2>3. Len(After(i)) < MaxBuffer
    BY <1>3, <2>1, <2>2
  <2> QED BY <1>2, <2>2, <2>3
<1>5. /\ rpcQueue' \in Seq(Recent) /\ logQueue' \in Seq(Nat)
      /\ loop' \in {"running", "ended", "stopped"} /\ disturbed' \in BOOLEAN
  <2>1. /\ rpcQueue \in Seq(Recent) /\ logQueue \in Seq(Nat)
        /\ loop \in {"running", "ended", "stopped"} /\ disturbed \in BOOLEAN
    BY <1>1 DEF UnderWay, RestTyped
  <2>2. CASE Whole(data(i))
    <3>1. PICK m \in Messages(Recent) : m = data(i)[1].message
      BY <1>1, FirstMessage DEF UnderWay
    <3>2. Dispatch(m)
      BY <1>2, <2>2, <3>1
    <3>3. /\ m.channel = "rpc" => Append(rpcQueue, m.number) \in Seq(Recent)
          /\ m.channel = "log" => Append(logQueue, m.number) \in Seq(Nat)
      <4>1. /\ m.channel = "rpc" => m.number \in Recent
            /\ m.channel = "log" => m.number \in Nat
        BY <3>1 DEF Messages
      <4> QED BY <2>1, <4>1, AppendProperties
    <3> QED BY <2>1, <3>2, <3>3 DEF Dispatch
  <2>3. CASE ~Whole(data(i))
    BY <1>2, <2>1, <2>3 DEF Exception
  <2> QED BY <2>2, <2>3
<1>6. UnderWay(Recent)'
  BY <1>1, <1>4, <1>5 DEF UnderWay, Receive, ReceiveUnchanged, callVars
<1>7. RestTyped'
  BY <1>1, <1>4, <1>5 DEF RestTyped, Receive, ReceiveUnchanged, callVars
<1> QED BY <1>6, <1>7, TypedPartsNext

\* What has been read fits the buffer or empties it.
LEMMA ReadTyped ==
    ASSUME TypeOK, NEW n \in 1..MaxBuffer, Read(n)
    PROVE  TypeOK'
<1> USE HostRpcAssumption
<1>1. UnderWay(Recent) /\ RestTyped /\ Recent' = Recent
  BY TypedParts, RecentKept DEF Read, ReceiveUnchanged, callVars
<1> DEFINE B == Bytes(Recent)
<1>2. /\ rxBuf \in Seq(B) /\ Len(rxBuf) \in Nat
      /\ fromDevice \in Seq(B) /\ Len(fromDevice) \in Nat
  BY <1>1, LenProperties DEF UnderWay
<1>3. n \in 1..Len(fromDevice)
  BY DEF Read
<1>4. fromDevice' \in Seq(B)
  <2> HIDE DEF B
  <2>1. n + 1 \in Nat \ {0} /\ Len(fromDevice) \in 0..Len(fromDevice)
    BY <1>2
  <2> QED BY <1>2, <2>1, PartOf DEF Read
<1>5. rxBuf' \in Seq(B) /\ Len(rxBuf') < MaxBuffer
  <2> HIDE DEF B
  <2>1. CASE Overfull(Len(rxBuf) + n)
    <3>1. rxBuf' = << >>
      BY <2>1 DEF Read
    <3> QED BY <3>1, EmptySeq
  <2>2. CASE ~Overfull(Len(rxBuf) + n)
    <3>1. /\ SubSeq(fromDevice, 1, n) \in Seq(B)
          /\ Len(SubSeq(fromDevice, 1, n)) = n
      <4>1. n \in 0..Len(fromDevice) /\ 1 \in Nat \ {0} /\ 1 <= n /\ n - 1 + 1 = n
        BY <1>2, <1>3
      <4> QED BY <1>2, <4>1, PartOf
    <3>2. rxBuf' = rxBuf \o SubSeq(fromDevice, 1, n)
      BY <2>2 DEF Read
    <3>3. rxBuf' \in Seq(B) /\ Len(rxBuf') = Len(rxBuf) + n
      BY <1>2, <3>1, <3>2, ConcatProperties
    <3>4. Len(rxBuf) + n < MaxBuffer
      BY <1>2, <1>3, <2>2 DEF Overfull
    <3> QED BY <3>3, <3>4
  <2> QED BY <2>1, <2>2
<1>6. /\ rpcQueue' = rpcQueue /\ logQueue' = logQueue
      /\ loop' \in {loop, "stopped"} /\ disturbed' \in {disturbed, TRUE}
  BY DEF Read, Exception
<1>7. UnderWay(Recent)'
  BY <1>1, <1>4, <1>5, <1>6 DEF UnderWay, Read, ReceiveUnchanged, callVars
<1>8. RestTyped'
  BY <1>1, <1>5, <1>6 DEF RestTyped, Read, ReceiveUnchanged, callVars
<1> QED BY <1>7, <1>8, TypedPartsNext

LEMMA ReadEndTyped ==
    ASSUME TypeOK, ReadEnd
    PROVE  TypeOK'
<1>1. UnderWay(Recent) /\ RestTyped /\ Recent' = Recent
  BY TypedParts, RecentKept DEF ReadEnd, ReceiveUnchanged, callVars
<1>2. /\ rpcQueue' = rpcQueue /\ logQueue' = logQueue
      /\ loop' \in {loop, "stopped", "ended"} /\ disturbed' \in {disturbed, TRUE}
  BY DEF ReadEnd, Exception
<1>3. UnderWay(Recent)'
  BY <1>1, <1>2 DEF UnderWay, ReadEnd, ReceiveUnchanged, callVars
<1>4. RestTyped'
  BY <1>1, <1>2 DEF RestTyped, ReadEnd, ReceiveUnchanged, callVars
<1> QED BY <1>3, <1>4, TypedPartsNext

LEMMA PrintLogTyped ==
    ASSUME TypeOK, PrintLog
    PROVE  TypeOK'
<1>1. UnderWay(Recent) /\ RestTyped /\ Recent' = Recent
  BY TypedParts, RecentKept DEF PrintLog, callVars
<1>2. logQueue' \in Seq(Nat) /\ printed' \in Seq(Nat)
  <2>1. Head(logQueue) \in Nat /\ Tail(logQueue) \in Seq(Nat)
    BY <1>1, HeadTailProperties DEF RestTyped, PrintLog
  <2> QED BY <1>1, <2>1, AppendProperties DEF RestTyped, PrintLog
<1>3. UnderWay(Recent)'
  BY <1>1 DEF UnderWay, PrintLog, callVars, deviceVars
<1>4. RestTyped'
  BY <1>1, <1>2 DEF RestTyped, PrintLog, callVars, deviceVars
<1> QED BY <1>3, <1>4, TypedPartsNext

-----------------------------------------------------------------------------
(* Theorems *)

LEMMA InitTyped == Init => TypeOK
<1> SUFFICES ASSUME Init PROVE TypeOK
  OBVIOUS
<1>1. UnderWay(Recent)
  BY EmptySeq DEF Init, UnderWay
<1>2. RestTyped
  <2>1. << >> \in Seq(Nat) /\ Len(<< >>) = 0
    BY EmptySeq
  <2>2. Len(rxBuf) < MaxBuffer /\ logQueue \in Seq(Nat) /\ printed \in Seq(Nat)
    BY <2>1, HostRpcAssumption DEF Init
  <2>3. result \in [Callers -> [asked : Nat, answered : Nat]]
    BY DEF Init
  <2>4. calls \in 0..MaxCalls /\ logs \in 0..MaxLogs /\ faults \in 0..MaxFaults
    BY HostRpcAssumption DEF Init
  <2>5. /\ loop \in {"running", "ended", "stopped"}
        /\ closed \in BOOLEAN /\ disturbed \in BOOLEAN
        /\ harmed \subseteq Nat
    BY DEF Init
  <2> QED BY <2>2, <2>3, <2>4, <2>5 DEF RestTyped
<1> QED BY <1>1, <1>2, TypedParts

LEMMA NextTyped == TypeOK /\ [Next]_vars => TypeOK'
<1> SUFFICES ASSUME TypeOK, [Next]_vars PROVE TypeOK'
  OBVIOUS
<1>1. ASSUME NEW c \in Callers, Call(c) \/ Take(c) \/ GiveUp(c) \/ CallEnds(c)
      PROVE  TypeOK'
  BY <1>1, CallTyped, TakeTyped, GiveUpTyped DEF CallEnds
<1>2. CASE Device
  BY <1>2, DeviceTyped
<1>3. CASE LineFault
  BY <1>3, LineFaultTyped
<1>4. CASE Host
  BY <1>4, ReceiveTyped, ReadTyped, ReadEndTyped DEF Host
<1>5. CASE PrintLog
  BY <1>5, PrintLogTyped
<1>6. CASE UNCHANGED vars
  BY <1>6 DEF TypeOK, Recent, UnderWay, RestTyped, Window, vars, callVars, deviceVars, receiveVars
<1> QED BY <1>1, <1>2, <1>3, <1>4, <1>5, <1>6 DEF Next

\* Whatever comes off the line, the calls that wait and the requests and answers
\* under way are among the last SeqCount calls (when numbers are not reused before
\* their last use is over), and rxBuf stays below MAX_PKT_SIZE (StreamTransport.recv, Channels.loop, Rpc.__call__).
THEOREM HostTypeCorrect == Spec => []TypeOK
<1>1. Init => TypeOK
  BY InitTyped
<1>2. TypeOK /\ [Next]_vars => TypeOK'
  BY NextTyped
<1> QED BY <1>1, <1>2, PTL DEF Spec

\* A call that takes a message with its own sequence number takes its own
\* answer: no other of the last SeqCount calls has that number.
LEMMA TakeIsRight ==
    ASSUME ~NumbersReused, TypeOK, RightAnswer, NEW c \in Callers, Take(c)
    PROVE  RightAnswer'
<1>1. UnderWay(Recent) /\ RestTyped
  BY TypedParts
<1>2. CASE IsFor(Head(rpcQueue), asked[c])
  <2>1. Head(rpcQueue) \in Recent
    BY <1>1, HeadTailProperties DEF Take, UnderWay
  <2>2. asked[c] \in Recent
    <3>1. asked[c] \in Recent \cup {0} /\ asked[c] # 0
      BY <1>1 DEF Take, Waiting, UnderWay
    <3> QED BY <3>1
  <2>3. Head(rpcQueue) = asked[c]
    <3>1. calls \in Nat
      BY <1>1, HostRpcAssumption DEF RestTyped
    <3>2. Head(rpcQueue) \in Window(calls) /\ asked[c] \in Window(calls)
      BY <2>1, <2>2, RecentCalls
    <3> QED BY <1>2, <3>1, <3>2, SameNumber DEF IsFor
  <2>4. result' = [result EXCEPT ![c] = [asked |-> asked[c], answered |-> Head(rpcQueue)]]
    BY <1>2 DEF Take
  <2>5. result \in [Callers -> [asked : Nat, answered : Nat]]
    BY <1>1 DEF RestTyped
  <2> QED BY <2>3, <2>4, <2>5 DEF RightAnswer
<1>3. CASE ~IsFor(Head(rpcQueue), asked[c])
  BY <1>3 DEF Take, RightAnswer
<1> QED BY <1>2, <1>3

LEMMA CallIsRight ==
    ASSUME TypeOK, RightAnswer, NEW c \in Callers, Call(c)
    PROVE  RightAnswer'
<1>1. result \in [Callers -> [asked : Nat, answered : Nat]]
  BY TypedParts DEF RestTyped
<1>2. result' = [result EXCEPT ![c] = [asked |-> 0, answered |-> 0]]
  BY DEF Call
<1> QED BY <1>1, <1>2 DEF RightAnswer

\* For any number of callers and of sequence numbers, a call that returns has
\* the answer to its own request, as long as the number of a call is not used
\* again while the call, its request or its answer is under way (rpc.py,
\* Rpc.__call__).
THEOREM AnswersRight ==
    ASSUME ~NumbersReused
    PROVE  Spec => []RightAnswer
<1>1. Init => RightAnswer
  BY DEF Init, RightAnswer
<1>2. TypeOK /\ RightAnswer /\ [Next]_vars => RightAnswer'
  <2> SUFFICES ASSUME TypeOK, RightAnswer, [Next]_vars PROVE RightAnswer'
    OBVIOUS
  <2>1. ASSUME NEW c \in Callers, Call(c)
        PROVE  RightAnswer'
    BY <2>1, CallIsRight
  <2>2. ASSUME NEW c \in Callers, Take(c)
        PROVE  RightAnswer'
    BY <2>2, TakeIsRight
  <2>3. result' = result => RightAnswer'
    BY DEF RightAnswer
  <2>4. \A c \in Callers : GiveUp(c) \/ CallEnds(c) => result' = result
    BY DEF CallEnds, GiveUp
  <2>5. Device => result' = result
    BY DEF Device, DeviceAnswers, DeviceSilent, DeviceError, DeviceLogs, DeviceCloses,
           DeviceUnchanged, callVars
  <2>6. Host => result' = result
    BY DEF Host, Receive, Read, ReadEnd, ReceiveUnchanged, callVars
  <2>7. LineFault \/ PrintLog \/ UNCHANGED vars => result' = result
    BY DEF LineFault, PrintLog, vars, callVars
  <2> QED BY <2>1, <2>2, <2>3, <2>4, <2>5, <2>6, <2>7 DEF Next
<1> QED BY <1>1, <1>2, HostTypeCorrect, PTL DEF Spec

-----------------------------------------------------------------------------
(* Log messages.  The host prints them once and in order, for every packet *)
(* and buffer size and whatever the line does; and none is lost while      *)
(* nothing disturbs the line.                                              *)
(*                                                                         *)
(* A message on the line counts from its first byte.  What the host has    *)
(* got, followed by the messages that begin on the line, is increasing:    *)
(* the device adds to its end, the host moves the border between the two,  *)
(* and everything else only takes bytes out.                               *)

Byte == Bytes(Nat)

Number(byte) == byte.message.number

\* Messages got, then messages on the line, are increasing and at most the last.
Ordered(got, line, last) ==
    /\ \A i, j \in 1..Len(got) : i < j => got[i] < got[j]
    /\ \A i, j \in 1..Len(line) :
          i < j /\ StartsLog(line[i]) /\ StartsLog(line[j]) => Number(line[i]) < Number(line[j])
    /\ \A i \in 1..Len(got), j \in 1..Len(line) :
          StartsLog(line[j]) => got[i] < Number(line[j])
    /\ \A i \in 1..Len(got) : got[i] <= last
    /\ \A j \in 1..Len(line) : StartsLog(line[j]) => Number(line[j]) <= last

\* The inductive invariant.
LogOrder == Ordered(printed \o logQueue, rxBuf \o fromDevice, logs)

-----------------------------------------------------------------------------
(* Sequences that are ordered *)

LEMMA NumberTyped ==
    ASSUME NEW byte \in Byte, StartsLog(byte)
    PROVE  Number(byte) \in Nat
BY DEF Byte, Bytes, Messages, StartsLog, Number

\* Bytes are taken out of the line, or become others that begin no message.
LEMMA Thinned ==
    ASSUME NEW got, NEW line, NEW last, Ordered(got, line, last),
           NEW thin, NEW f,
           \A i \in 1..Len(thin) :
               StartsLog(thin[i]) => f[i] \in 1..Len(line) /\ thin[i] = line[f[i]],
           \A i, j \in 1..Len(thin) : i < j => f[i] < f[j]
    PROVE  Ordered(got, thin, last)
BY DEF Ordered

\* The first bytes of the line are taken out.
LEMMA Shortened ==
    ASSUME NEW got, NEW line \in Seq(Byte), NEW last, Ordered(got, line, last),
           NEW k \in Nat, NEW rest \in Seq(Byte), Len(rest) + k <= Len(line),
           \A i \in 1..Len(rest) : rest[i] = line[i + k]
    PROVE  Ordered(got, rest, last)
<1>1. Len(rest) \in Nat /\ Len(line) \in Nat
  BY LenProperties
<1> DEFINE f == [i \in 1..Len(rest) |-> i + k]
<1>2. \A i \in 1..Len(rest) : f[i] \in 1..Len(line) /\ rest[i] = line[f[i]]
  BY <1>1
<1>3. \A i, j \in 1..Len(rest) : i < j => f[i] < f[j]
  BY <1>1
<1> HIDE DEF f
<1> QED BY <1>2, <1>3, Thinned

\* The first message of the line is moved to those that the host has got.
LEMMA Moved ==
    ASSUME NEW got \in Seq(Nat), NEW line \in Seq(Byte), NEW last \in Nat,
           Ordered(got, line, last), Len(line) >= 1, StartsLog(line[1]),
           NEW k \in Nat \ {0}, NEW rest \in Seq(Byte), Len(rest) + k <= Len(line),
           \A i \in 1..Len(rest) : rest[i] = line[i + k]
    PROVE  Ordered(Append(got, Number(line[1])), rest, last)
<1> DEFINE number == Number(line[1])
           more == Append(got, number)
<1>1. /\ Len(rest) \in Nat /\ Len(line) \in Nat /\ Len(got) \in Nat
      /\ 1 \in 1..Len(line)
  BY LenProperties
<1>2. number \in Nat /\ number <= last
  BY <1>1, ElementOfSeq, NumberTyped DEF Ordered
<1>3. \A i \in 1..Len(got) : got[i] < number /\ got[i] <= last
  BY <1>1 DEF Ordered
<1>4. /\ Len(more) = Len(got) + 1
      /\ \A i \in 1..Len(got) : more[i] = got[i]
      /\ more[Len(got) + 1] = number
  BY <1>2, AppendProperties
<1>5. Ordered(got, rest, last)
  <2>1. k \in Nat
    OBVIOUS
  <2> QED BY <2>1, Shortened
<1>6. \A j \in 1..Len(rest) : StartsLog(rest[j]) => number < Number(rest[j])
  <2> SUFFICES ASSUME NEW j \in 1..Len(rest), StartsLog(rest[j])
               PROVE  number < Number(rest[j])
    OBVIOUS
  <2>1. j + k \in 1..Len(line) /\ 1 < j + k /\ rest[j] = line[j + k]
    BY <1>1
  <2> QED BY <1>1, <2>1 DEF Ordered
<1> HIDE DEF number, more
<1>7. \A i, j \in 1..Len(more) : i < j => more[i] < more[j]
  <2> SUFFICES ASSUME NEW i \in 1..Len(more), NEW j \in 1..Len(more), i < j
               PROVE  more[i] < more[j]
    OBVIOUS
  <2>1. CASE j = Len(got) + 1
    <3>1. i \in 1..Len(got)
      BY <1>1, <1>4, <2>1
    <3>2. more[i] = got[i] /\ more[j] = number
      BY <1>4, <2>1, <3>1
    <3> QED BY <1>3, <3>1, <3>2
  <2>2. CASE j # Len(got) + 1
    <3>1. i \in 1..Len(got) /\ j \in 1..Len(got)
      BY <1>1, <1>4, <2>2
    <3> QED BY <1>4, <3>1 DEF Ordered
  <2> QED BY <2>1, <2>2
<1>8. \A i \in 1..Len(more) : i \in 1..Len(got) \/ i = Len(got) + 1
  BY <1>1, <1>4
<1>9. \A i \in 1..Len(more) : more[i] <= last
  BY <1>2, <1>3, <1>4, <1>8
<1>10. \A i \in 1..Len(more), j \in 1..Len(rest) :
           StartsLog(rest[j]) => more[i] < Number(rest[j])
  BY <1>4, <1>5, <1>6, <1>8 DEF Ordered
<1> QED BY <1>5, <1>7, <1>9, <1>10 DEF Ordered, number, more

\* The device transmits bytes, of which only the first may begin a log message,
\* and then a new one.
LEMMA Transmitted ==
    ASSUME NEW got \in Seq(Nat), NEW line \in Seq(Byte), NEW last \in Nat,
           Ordered(got, line, last),
           NEW next \in Nat, next >= last, NEW more \in Seq(Byte),
           \A i \in 1..Len(more) :
               StartsLog(more[i]) => i = 1 /\ Number(more[i]) = next /\ next > last
    PROVE  Ordered(got, line \o more, next)
<1> DEFINE all == line \o more
<1>1. Len(line) \in Nat /\ Len(more) \in Nat /\ Len(got) \in Nat
  BY LenProperties
<1>2. /\ Len(all) = Len(line) + Len(more)
      /\ \A i \in 1..Len(line) + Len(more) :
            all[i] = IF i <= Len(line) THEN line[i] ELSE more[i - Len(line)]
  BY ConcatProperties
<1> HIDE DEF all
<1>3. ASSUME NEW i \in 1..Len(all), StartsLog(all[i])
      PROVE  \/ /\ i \in 1..Len(line) /\ all[i] = line[i]
                /\ Number(all[i]) \in Nat /\ Number(all[i]) <= last
             \/ i = Len(line) + 1 /\ Number(all[i]) = next /\ next > last
  <2>1. CASE i <= Len(line)
    <3>1. i \in 1..Len(line) /\ all[i] = line[i]
      BY <1>1, <1>2, <2>1
    <3>2. line[i] \in Byte /\ StartsLog(line[i])
      BY <1>3, <3>1, ElementOfSeq
    <3>3. Number(line[i]) \in Nat
      BY <3>2, NumberTyped
    <3>4. Number(line[i]) <= last
      BY <3>1, <3>2 DEF Ordered
    <3> QED BY <3>1, <3>3, <3>4
  <2>2. CASE i > Len(line)
    <3>1. i - Len(line) \in 1..Len(more) /\ all[i] = more[i - Len(line)]
      BY <1>1, <1>2, <2>2
    <3>2. i - Len(line) = 1
      BY <1>3, <3>1
    <3> QED BY <1>1, <1>3, <3>1, <3>2
  <2> QED BY <1>1, <2>1, <2>2
<1>4. \A i \in 1..Len(got) : got[i] \in Nat /\ got[i] <= last
  BY ElementOfSeq DEF Ordered
<1>5. \A i, j \in 1..Len(all) :
          i < j /\ StartsLog(all[i]) /\ StartsLog(all[j]) => Number(all[i]) < Number(all[j])
  <2> SUFFICES ASSUME NEW i \in 1..Len(all), NEW j \in 1..Len(all), i < j,
                      StartsLog(all[i]), StartsLog(all[j])
               PROVE  Number(all[i]) < Number(all[j])
    OBVIOUS
  <2>1. CASE j \in 1..Len(line) /\ all[j] = line[j]
    <3>1. i \in 1..Len(line) /\ all[i] = line[i]
      BY <1>1, <1>2, <2>1
    <3>2. StartsLog(line[i]) /\ StartsLog(line[j])
      BY <2>1, <3>1
    <3>3. Number(line[i]) < Number(line[j])
      BY <2>1, <3>1, <3>2 DEF Ordered
    <3> QED BY <2>1, <3>1, <3>3
  <2>2. CASE j = Len(line) + 1 /\ Number(all[j]) = next /\ next > last
    <3>1. i # Len(line) + 1
      BY <1>1, <1>2, <2>2
    <3>2. Number(all[i]) \in Nat /\ Number(all[i]) <= last
      BY <1>3, <3>1
    <3> QED BY <2>2, <3>2
  <2> QED BY <1>3, <2>1, <2>2
<1>6. \A i \in 1..Len(got), j \in 1..Len(all) : StartsLog(all[j]) => got[i] < Number(all[j])
  <2> SUFFICES ASSUME NEW i \in 1..Len(got), NEW j \in 1..Len(all), StartsLog(all[j])
               PROVE  got[i] < Number(all[j])
    OBVIOUS
  <2>1. CASE j \in 1..Len(line) /\ all[j] = line[j]
    BY <2>1 DEF Ordered
  <2>2. CASE j = Len(line) + 1 /\ Number(all[j]) = next /\ next > last
    BY <1>4, <2>2
  <2> QED BY <1>3, <2>1, <2>2
<1>7. \A j \in 1..Len(all) : StartsLog(all[j]) => Number(all[j]) <= next
  BY <1>3
<1>8. \A i \in 1..Len(got) : got[i] <= next
  BY <1>4
<1>9. \A i, j \in 1..Len(got) : i < j => got[i] < got[j]
  BY DEF Ordered
<1>10. Ordered(got, all, next)
  BY <1>5, <1>6, <1>7, <1>8, <1>9 DEF Ordered
<1> QED BY <1>10 DEF all

-----------------------------------------------------------------------------
(* Every step keeps LogOrder *)

\* What is known of the sequences, by TypeOK.
LEMMA LogsTyped ==
    ASSUME TypeOK
    PROVE  /\ rxBuf \in Seq(Byte) /\ fromDevice \in Seq(Byte)
           /\ rxBuf \o fromDevice \in Seq(Byte)
           /\ printed \in Seq(Nat) /\ logQueue \in Seq(Nat)
           /\ printed \o logQueue \in Seq(Nat)
           /\ logs \in Nat
<1>1. UnderWay(Recent) /\ RestTyped /\ Recent \subseteq Nat
  BY TypedParts, RecentCalls
<1>2. Bytes(Recent) \subseteq Byte
  BY <1>1, BytesMonotonic DEF Byte
<1>3. rxBuf \in Seq(Byte) /\ fromDevice \in Seq(Byte)
  BY <1>1, <1>2, SeqMonotonic DEF UnderWay
<1>4. printed \in Seq(Nat) /\ logQueue \in Seq(Nat) /\ logs \in Nat
  BY <1>1, HostRpcAssumption DEF RestTyped
<1> QED BY <1>3, <1>4, ConcatProperties

\* A packet begins once, with its first byte, and delimiters begin nothing.
LEMMA PacketBegins ==
    ASSUME NEW m \in Messages(Nat), NEW end \in {<<Zero>>, <<Zero, Zero>>}
    PROVE  /\ Body(m) \o end \in Seq(Byte)
           /\ Len(Body(m) \o end) >= 1
           /\ m.channel = "log" => StartsLog((Body(m) \o end)[1])
           /\ \A i \in 1..Len(Body(m) \o end) :
                 StartsLog((Body(m) \o end)[i]) =>
                     /\ i = 1 /\ m.channel = "log"
                     /\ Number((Body(m) \o end)[i]) = m.number
<1> USE HostRpcAssumption
<1> DEFINE all == Body(m) \o end
<1>1. Body(m) \in Seq(Byte) /\ Zero \in Byte
  BY BodyBytes, DelimiterBytes DEF Byte
<1>2. end \in Seq(Byte) /\ Len(end) \in {1, 2} /\ \A i \in 1..Len(end) : end[i] = Zero
  <2>1. CASE end = <<Zero>>
    BY <1>1, <2>1
  <2>2. CASE end = <<Zero, Zero>>
    BY <1>1, <2>2
  <2> QED BY <2>1, <2>2
<1>3. /\ Len(Body(m)) = FrameSize
      /\ \A i \in 1..FrameSize : Body(m)[i] = [message |-> m, place |-> i]
  BY DEF Body
<1>4. /\ all \in Seq(Byte) /\ Len(all) = FrameSize + Len(end)
      /\ \A i \in 1..(FrameSize + Len(end)) :
            all[i] = IF i <= FrameSize THEN Body(m)[i] ELSE end[i - FrameSize]
  <2> DEFINE body == Body(m)
  <2>1. body \in Seq(Byte) /\ end \in Seq(Byte) /\ Len(body) = FrameSize
    BY <1>1, <1>2, <1>3
  <2> HIDE DEF body
  <2>2. /\ body \o end \in Seq(Byte) /\ Len(body \o end) = FrameSize + Len(end)
        /\ \A i \in 1..(FrameSize + Len(end)) :
              (body \o end)[i] = IF i <= FrameSize THEN body[i] ELSE end[i - FrameSize]
    BY <2>1, ConcatProperties
  <2> QED BY <2>2 DEF body
<1> HIDE DEF all
<1>5. ASSUME NEW i \in 1..Len(all), StartsLog(all[i])
      PROVE  i = 1 /\ m.channel = "log" /\ Number(all[i]) = m.number
  <2>1. CASE i <= FrameSize
    <3>1. i \in 1..FrameSize /\ all[i] = [message |-> m, place |-> i]
      BY <1>2, <1>3, <1>4, <2>1
    <3> QED BY <1>5, <3>1 DEF StartsLog, Number
  <2>2. CASE i > FrameSize
    <3>1. i - FrameSize \in 1..Len(end) /\ all[i] = end[i - FrameSize]
      BY <1>2, <1>4, <2>2
    <3>2. all[i] = Zero
      BY <1>2, <3>1
    <3> QED BY <1>5, <3>2 DEF StartsLog, Zero
  <2> QED BY <1>2, <1>4, <2>1, <2>2
<1>6. Len(all) >= 1 /\ all[1] = [message |-> m, place |-> 1]
  <2>1. FrameSize >= 1 /\ 1 \in 1..(FrameSize + Len(end)) /\ 1 \in 1..FrameSize
    BY <1>2
  <2> QED BY <1>2, <1>3, <1>4, <2>1
<1>7. m.channel = "log" => StartsLog(all[1])
  BY <1>6 DEF StartsLog
<1> QED BY <1>4, <1>5, <1>6, <1>7 DEF all

\* The device adds bytes to the line, of which the first may begin the next log
\* message, or nothing.
LEMMA DeviceLine ==
    ASSUME TypeOK, Device
    PROVE  /\ printed' = printed /\ logQueue' = logQueue /\ disturbed' = disturbed
           /\ \/ rxBuf' \o fromDevice' = rxBuf \o fromDevice /\ logs' = logs
              \/ /\ logs' \in {logs, logs + 1}
                 /\ \E more \in Seq(Byte) :
                       /\ rxBuf' \o fromDevice' = (rxBuf \o fromDevice) \o more
                       /\ logs' = logs + 1 => Len(more) >= 1 /\ StartsLog(more[1])
                       /\ \A i \in 1..Len(more) :
                             StartsLog(more[i]) =>
                                 i = 1 /\ Number(more[i]) = logs' /\ logs' = logs + 1
<1> USE HostRpcAssumption
<1> DEFINE line == rxBuf \o fromDevice
           Sent(more) ==
               /\ rxBuf' \o fromDevice' = line \o more
               /\ logs' = logs + 1 => Len(more) >= 1 /\ StartsLog(more[1])
               /\ \A i \in 1..Len(more) :
                     StartsLog(more[i]) =>
                         i = 1 /\ Number(more[i]) = logs' /\ logs' = logs + 1
<1>1. line \in Seq(Byte) /\ logs \in Nat
  BY LogsTyped
<1>2. DeviceUnchanged
  BY DEF Device, DeviceAnswers, DeviceSilent, DeviceError, DeviceLogs, DeviceCloses
<1>3. printed' = printed /\ logQueue' = logQueue /\ disturbed' = disturbed /\ rxBuf' = rxBuf
  BY <1>2 DEF DeviceUnchanged, receiveVars
<1>4. ASSUME NEW m \in Messages(Nat), NEW end \in {<<Zero>>, <<Zero, Zero>>},
             Transmit(Body(m) \o end),
             m.channel = "log" <=> logs' = logs + 1,
             m.channel = "log" => m.number = logs'
      PROVE  \E more \in Seq(Byte) : Sent(more)
  <2> DEFINE more == Body(m) \o end
  <2>1. /\ more \in Seq(Byte) /\ Len(more) >= 1
        /\ m.channel = "log" => StartsLog(more[1])
        /\ \A i \in 1..Len(more) :
              StartsLog(more[i]) =>
                  i = 1 /\ m.channel = "log" /\ Number(more[i]) = m.number
    BY PacketBegins
  <2>2. rxBuf' \o fromDevice' = rxBuf \o (fromDevice \o more)
    BY <1>3, <1>4 DEF Transmit
  <2> HIDE DEF more
  <2>3. line \o more = rxBuf \o (fromDevice \o more)
    <3>1. rxBuf \in Seq(Byte) /\ fromDevice \in Seq(Byte)
      BY LogsTyped
    <3> QED BY <2>1, <3>1, ConcatAssociative
  <2>4. Sent(more)
    <3> HIDE DEF line
    <3> QED BY <1>4, <2>1, <2>2, <2>3
  <2> QED BY <2>1, <2>4
<1>5. \A m \in Messages(Nat) : Append(Body(m), Zero) = Body(m) \o <<Zero>>
  BY BodyBytes, DelimiterBytes, AppendIsConcat DEF Byte
<1> HIDE DEF Sent
<1>6. CASE DeviceAnswers
  <2>1. Head(toDevice) \in Nat
    <3>1. toDevice \in Seq(Recent) /\ toDevice # << >>
      BY <1>6, TypedParts DEF UnderWay, DeviceAnswers
    <3> QED BY <3>1, HeadTailProperties, RecentCalls
  <2>2. Answer(Head(toDevice)) \in Messages(Nat) /\ Answer(Head(toDevice)).channel # "log"
    BY <2>1 DEF Answer, Messages
  <2>3. Transmit(Body(Answer(Head(toDevice))) \o <<Zero>>) /\ logs' = logs
    BY <1>5, <1>6, <2>2 DEF DeviceAnswers
  <2>4. logs' # logs + 1
    BY <1>1, <2>3
  <2>5. \E more \in Seq(Byte) : Sent(more)
    BY <1>4, <2>2, <2>3, <2>4
  <2> QED BY <1>3, <2>3, <2>5 DEF Sent
<1>7. CASE DeviceError
  <2>1. ErrorText \in Messages(Nat) /\ ErrorText.channel # "log"
    BY DelimiterBytes DEF ErrorText
  <2>2. Transmit(Body(ErrorText) \o <<Zero, Zero>>) /\ logs' = logs
    BY <1>7 DEF DeviceError
  <2>3. logs' # logs + 1
    BY <1>1, <2>2
  <2>4. \E more \in Seq(Byte) : Sent(more)
    BY <1>4, <2>1, <2>2, <2>3
  <2> QED BY <1>3, <2>2, <2>4 DEF Sent
<1>8. CASE DeviceLogs
  <2>1. /\ LogMessage(logs + 1) \in Messages(Nat)
        /\ LogMessage(logs + 1).number = logs + 1
        /\ LogMessage(logs + 1).channel = "log"
    BY <1>1 DEF LogMessage, Messages
  <2>2. Transmit(Body(LogMessage(logs + 1)) \o <<Zero>>) /\ logs' = logs + 1
    BY <1>5, <1>8, <2>1 DEF DeviceLogs
  <2>3. \E more \in Seq(Byte) : Sent(more)
    BY <1>4, <2>1, <2>2
  <2> QED BY <1>3, <2>2, <2>3 DEF Sent
<1>9. CASE DeviceSilent \/ DeviceCloses
  BY <1>3, <1>9 DEF DeviceSilent, DeviceCloses
<1> QED BY <1>6, <1>7, <1>8, <1>9 DEF Device

LEMMA DeviceOrder ==
    ASSUME TypeOK, LogOrder, Device
    PROVE  LogOrder'
<1> DEFINE got == printed \o logQueue
           line == rxBuf \o fromDevice
<1>1. got \in Seq(Nat) /\ line \in Seq(Byte) /\ logs \in Nat
  BY LogsTyped
<1>2. printed' \o logQueue' = got
  BY DeviceLine
<1>3. CASE rxBuf' \o fromDevice' = line /\ logs' = logs
  BY <1>2, <1>3 DEF LogOrder
<1>4. CASE ~(rxBuf' \o fromDevice' = line /\ logs' = logs)
  <2>1. PICK more \in Seq(Byte) :
            /\ rxBuf' \o fromDevice' = line \o more
            /\ \A i \in 1..Len(more) :
                  StartsLog(more[i]) =>
                      i = 1 /\ Number(more[i]) = logs' /\ logs' = logs + 1
    BY <1>4, DeviceLine
  <2>2. logs' \in Nat /\ logs' >= logs /\ (logs' = logs + 1 => logs' > logs)
    BY <1>1, <1>4, DeviceLine, SMTT(30)
  <2>3. Ordered(got, line, logs)
    BY DEF LogOrder
  <2> HIDE DEF got, line
  <2>4. Ordered(got, line \o more, logs')
    BY <1>1, <2>1, <2>2, <2>3, Transmitted
  <2> QED BY <1>2, <2>1, <2>4 DEF LogOrder
<1> QED BY <1>3, <1>4

\* Without the first i elements of a.
LEMMA Behind ==
    ASSUME NEW a \in Seq(Byte), NEW b \in Seq(Byte), NEW i \in 0..Len(a)
    PROVE  LET rest == SubSeq(a, i + 1, Len(a)) \o b
           IN  /\ rest \in Seq(Byte) /\ Len(rest) + i = Len(a \o b)
               /\ \A j \in 1..Len(rest) : rest[j] = (a \o b)[j + i]
<1> DEFINE tail == SubSeq(a, i + 1, Len(a))
           all == a \o b
           rest == tail \o b
<1>1. Len(a) \in Nat /\ Len(b) \in Nat /\ i + 1 \in Int /\ Len(a) \in Int
  BY LenProperties
<1>2. \A j \in (i + 1)..Len(a) : a[j] \in Byte
  BY <1>1, ElementOfSeq
<1>3. /\ tail \in Seq(Byte)
      /\ Len(tail) = IF i + 1 <= Len(a) THEN Len(a) - (i + 1) + 1 ELSE 0
      /\ \A j \in 1..(Len(a) - (i + 1) + 1) : tail[j] = a[i + 1 + j - 1]
  <2> HIDE DEF tail
  <2> QED BY <1>1, <1>2, SubSeqProperties DEF tail
<1>4. Len(tail) = Len(a) - i /\ \A j \in 1..Len(tail) : tail[j] = a[j + i]
  <2> HIDE DEF tail
  <2> QED BY <1>1, <1>3
<1> HIDE DEF tail
<1>5. /\ rest \in Seq(Byte) /\ Len(rest) = Len(tail) + Len(b)
      /\ \A j \in 1..(Len(tail) + Len(b)) :
            rest[j] = IF j <= Len(tail) THEN tail[j] ELSE b[j - Len(tail)]
  BY <1>3, ConcatProperties
<1>6. /\ Len(all) = Len(a) + Len(b)
      /\ \A j \in 1..(Len(a) + Len(b)) : all[j] = IF j <= Len(a) THEN a[j] ELSE b[j - Len(a)]
  BY ConcatProperties
<1> HIDE DEF rest, all
<1>7. ASSUME NEW j \in 1..Len(rest)
      PROVE  rest[j] = all[j + i]
  <2>1. j + i \in 1..(Len(a) + Len(b)) /\ j \in 1..(Len(tail) + Len(b))
    BY <1>1, <1>4, <1>5
  <2>2. CASE j <= Len(tail)
    <3>1. j \in 1..Len(tail) /\ j + i <= Len(a)
      BY <1>1, <1>4, <2>2
    <3> QED BY <1>4, <1>5, <1>6, <2>1, <3>1
  <2>3. CASE j > Len(tail)
    <3>1. ~(j <= Len(tail)) /\ ~(j + i <= Len(a)) /\ j - Len(tail) = j + i - Len(a)
      BY <1>1, <1>4, <2>3
    <3> QED BY <1>5, <1>6, <2>1, <3>1
  <2> QED BY <1>1, <1>4, <2>2, <2>3
<1>8. Len(rest) + i = Len(all)
  BY <1>1, <1>4, <1>5, <1>6
<1> QED BY <1>5, <1>7, <1>8 DEF rest, all, tail

LEMMA AppendBehind ==
    ASSUME NEW T, NEW a \in Seq(T), NEW b \in Seq(T), NEW e \in T
    PROVE  a \o Append(b, e) = Append(a \o b, e)
<1>1. <<e>> \in Seq(T) /\ a \o b \in Seq(T)
  BY ConcatProperties
<1>2. Append(b, e) = b \o <<e>> /\ Append(a \o b, e) = (a \o b) \o <<e>>
  BY <1>1, AppendIsConcat
<1> DEFINE one == <<e>>
<1>3. one \in Seq(T)
  BY <1>1
<1> HIDE DEF one
<1>4. (a \o b) \o one = a \o (b \o one)
  BY <1>3, ConcatAssociative
<1> QED BY <1>2, <1>4 DEF one

\* What Receive does to the line, whose first k bytes are taken out: a message may
\* begin with the first of them and goes to the queue then, or the line is
\* disturbed.
Taken(k) ==
    LET line == rxBuf \o fromDevice
        rest == rxBuf' \o fromDevice'
    IN  /\ rest \in Seq(Byte) /\ Len(rest) + k = Len(line)
        /\ \A j \in 1..Len(rest) : rest[j] = line[j + k]
        /\ disturbed => disturbed'
        /\ \/ /\ printed' \o logQueue' = printed \o logQueue
              /\ disturbed' \/ \A j \in 1..k : ~StartsLog(line[j])
           \/ /\ StartsLog(line[1])
              /\ printed' \o logQueue' = Append(printed \o logQueue, Number(line[1]))
              /\ \A j \in 2..k : ~StartsLog(line[j])

LEMMA ReceiveLine ==
    ASSUME TypeOK, Receive
    PROVE  logs' = logs /\ \E k \in Nat \ {0} : Taken(k)
<1> USE HostRpcAssumption
<1> DEFINE got == printed \o logQueue
           line == rxBuf \o fromDevice
           data(i) == SubSeq(rxBuf, 1, i - 1)
<1>1. /\ got \in Seq(Nat) /\ line \in Seq(Byte) /\ logs \in Nat
      /\ rxBuf \in Seq(Byte) /\ fromDevice \in Seq(Byte)
      /\ printed \in Seq(Nat) /\ logQueue \in Seq(Nat)
  BY LogsTyped
<1>2. /\ fromDevice' = fromDevice /\ logs' = logs /\ printed' = printed
      /\ \E i \in 2..Len(rxBuf) :
            /\ FirstZero(i) /\ rxBuf' = After(i)
            /\ IF Whole(data(i)) THEN Dispatch(data(i)[1].message) ELSE Exception
  BY DEF Receive, ReceiveUnchanged
<1>3. PICK i \in 2..Len(rxBuf) :
          /\ FirstZero(i) /\ rxBuf' = After(i)
          /\ IF Whole(data(i)) THEN Dispatch(data(i)[1].message) ELSE Exception
  BY <1>2
<1> DEFINE rest == After(i) \o fromDevice
<1>4. Len(rxBuf) \in Nat /\ Len(fromDevice) \in Nat
  BY <1>1, LenProperties
<1>5. /\ rest \in Seq(Byte) /\ Len(rest) + i = Len(line)
      /\ \A j \in 1..Len(rest) : rest[j] = line[j + i]
  <2>1. i \in 0..Len(rxBuf)
    BY <1>4
  <2> QED BY <1>1, <2>1, Behind DEF After
<1>6. /\ Len(line) = Len(rxBuf) + Len(fromDevice)
      /\ \A j \in 1..Len(rxBuf) : line[j] = rxBuf[j]
  BY <1>1, <1>4, ConcatProperties
<1>7. i \in Nat \ {0} /\ rxBuf' \o fromDevice' = rest
  BY <1>2, <1>3
<1> HIDE DEF rest, got, line
<1>8. CASE ~Whole(data(i))
  <2>1. logQueue' = logQueue /\ disturbed'
    BY <1>3, <1>8 DEF Exception
  <2>2. Taken(i)
    BY <1>2, <1>5, <1>7, <2>1 DEF Taken, line
  <2> QED BY <1>2, <1>7, <2>2
<1>9. CASE Whole(data(i))
  <2> DEFINE m == data(i)[1].message
  <2>1. data(i) = Body(m) /\ Dispatch(m)
    BY <1>3, <1>9 DEF Whole
  <2>2. ASSUME NEW j \in 1..(i - 1)
        PROVE  line[j] = [message |-> m, place |-> j]
    <3>1. i - 1 \in 0..Len(rxBuf) /\ j \in 1..Len(rxBuf)
      BY <1>4
    <3>2. Len(data(i)) = i - 1 /\ data(i)[j] = rxBuf[j]
      <4>1. /\ \A h \in 1..(i - 1) : rxBuf[h] \in Byte
            /\ 1 \in Int /\ i - 1 \in Int /\ 1 <= i - 1
        BY <1>1, <1>4, ElementOfSeq
      <4>2. /\ Len(data(i)) = i - 1 - 1 + 1
            /\ \A h \in 1..(i - 1 - 1 + 1) : data(i)[h] = rxBuf[1 + h - 1]
        BY <4>1, SubSeqProperties
      <4>3. j \in 1..(i - 1 - 1 + 1) /\ 1 + j - 1 = j /\ i - 1 - 1 + 1 = i - 1
        OBVIOUS
      <4> HIDE DEF data
      <4> QED BY <4>2, <4>3
    <3>3. Body(m)[j] = [message |-> m, place |-> j]
      <4>1. Len(Body(m)) = FrameSize
        BY DEF Body
      <4>2. j \in 1..FrameSize
        <5>1. FrameSize = i - 1
          BY <2>1, <3>2, <4>1
        <5> QED BY <5>1
      <4> HIDE DEF m
      <4> QED BY <4>2 DEF Body
    <3> QED BY <1>6, <2>1, <3>1, <3>2, <3>3
  <2> HIDE DEF m
  <2>3. line[i] = Zero
    BY <1>3, <1>6 DEF FirstZero
  <2>4. \A j \in 2..i : ~StartsLog(line[j])
    <3> SUFFICES ASSUME NEW j \in 2..i PROVE ~StartsLog(line[j])
      OBVIOUS
    <3>1. CASE j = i
      BY <2>3, <3>1 DEF StartsLog, Zero
    <3>2. CASE j # i
      <4>1. j \in 1..(i - 1) /\ j # 1
        BY <3>2
      <4>2. line[j] = [message |-> m, place |-> j]
        BY <2>2, <4>1
      <4>3. line[j].place = j
        BY <4>2
      <4> QED BY <4>1, <4>3 DEF StartsLog
    <3> QED BY <3>1, <3>2
  <2>5. line[1] = [message |-> m, place |-> 1]
    <3>1. 1 \in 1..(i - 1)
      OBVIOUS
    <3> QED BY <2>2, <3>1
  <2>6. disturbed' = disturbed
    BY <2>1 DEF Dispatch
  <2>7. CASE m.channel # "log"
    <3>1. \A j \in 1..i : ~StartsLog(line[j])
      <4>1. ~StartsLog(line[1])
        BY <2>5, <2>7 DEF StartsLog
      <4>2. \A j \in 1..i : j = 1 \/ j \in 2..i
        OBVIOUS
      <4> QED BY <2>4, <4>1, <4>2
    <3>2. logQueue' = logQueue
      BY <2>1, <2>7 DEF Dispatch
    <3>3. Taken(i)
      BY <1>2, <1>5, <1>7, <2>6, <3>1, <3>2 DEF Taken, line
    <3> QED BY <1>2, <1>7, <3>3
  <2>8. CASE m.channel = "log"
    <3>1. StartsLog(line[1]) /\ Number(line[1]) = m.number
      BY <2>5, <2>8 DEF StartsLog, Number
    <3>2. m.number \in Nat
      <4>1. 1 \in 1..Len(line)
        BY <1>4, <1>6
      <4>2. line[1] \in Byte
        BY <1>1, <4>1, ElementOfSeq
      <4> QED BY <3>1, <4>2, NumberTyped
    <3>3. logQueue' = Append(logQueue, m.number)
      BY <2>1, <2>8 DEF Dispatch
    <3>4. printed \o Append(logQueue, m.number) = Append(got, m.number)
      BY <1>1, <3>2, AppendBehind, SMTT(30) DEF got
    <3>5. printed' \o logQueue' = Append(got, Number(line[1]))
      BY <1>2, <3>1, <3>3, <3>4
    <3>6. Taken(i)
      BY <1>5, <1>7, <2>4, <2>6, <3>1, <3>5 DEF Taken, line, got
    <3> QED BY <1>2, <1>7, <3>6
  <2> QED BY <2>7, <2>8
<1> QED BY <1>8, <1>9

\* A message moves from the line to the queue, or is taken out.
LEMMA ReceiveOrder ==
    ASSUME TypeOK, LogOrder, Receive
    PROVE  LogOrder'
<1> DEFINE got == printed \o logQueue
           line == rxBuf \o fromDevice
           rest == rxBuf' \o fromDevice'
<1>1. got \in Seq(Nat) /\ line \in Seq(Byte) /\ logs \in Nat /\ Ordered(got, line, logs)
  BY LogsTyped DEF LogOrder
<1>2. PICK k \in Nat \ {0} : Taken(k)
  BY ReceiveLine
<1>3. /\ rest \in Seq(Byte) /\ Len(rest) + k = Len(line)
      /\ \A j \in 1..Len(rest) : rest[j] = line[j + k]
  BY <1>2 DEF Taken
<1>4. logs' = logs
  BY ReceiveLine
<1>5. Len(rest) \in Nat /\ Len(line) \in Nat
  BY <1>1, <1>3, LenProperties
<1>6. Len(rest) + k <= Len(line) /\ Len(line) >= 1 /\ k \in Nat
  <2> HIDE DEF rest, line
  <2> QED BY <1>3, <1>5
<1>7. CASE printed' \o logQueue' = got
  <2> HIDE DEF got, line, rest
  <2>1. Ordered(got, rest, logs)
    BY <1>1, <1>3, <1>6, Shortened
  <2> QED BY <1>4, <1>7, <2>1 DEF LogOrder, rest
<1>8. CASE StartsLog(line[1]) /\ printed' \o logQueue' = Append(got, Number(line[1]))
  <2> HIDE DEF got, line, rest
  <2>1. Ordered(Append(got, Number(line[1])), rest, logs)
    BY <1>1, <1>3, <1>6, <1>8, Moved
  <2> QED BY <1>4, <1>8, <2>1 DEF LogOrder, rest
<1> QED BY <1>2, <1>7, <1>8 DEF Taken

\* What is read and not thrown away is still on the line.
LEMMA ReadLine ==
    ASSUME TypeOK, NEW n \in 1..MaxBuffer, Read(n), ~Overfull(Len(rxBuf) + n)
    PROVE  /\ rxBuf' \o fromDevice' = rxBuf \o fromDevice
           /\ disturbed' = disturbed
<1> DEFINE head == SubSeq(fromDevice, 1, n)
           tail == SubSeq(fromDevice, n + 1, Len(fromDevice))
<1>1. rxBuf \in Seq(Byte) /\ fromDevice \in Seq(Byte)
  BY LogsTyped
<1>2. Len(fromDevice) \in Nat /\ n \in 1..Len(fromDevice)
  BY <1>1, LenProperties DEF Read
<1>3. rxBuf' = rxBuf \o head /\ fromDevice' = tail /\ disturbed' = disturbed
  BY DEF Read
<1>4. head \in Seq(Byte) /\ tail \in Seq(Byte)
  BY <1>1, <1>2, PartOf
<1>5. head \o tail = fromDevice
  <2>1. 1 \in 1..(Len(fromDevice) + 1) /\ n \in (1 - 1)..Len(fromDevice)
        /\ Len(fromDevice) \in n..Len(fromDevice)
    BY <1>2
  <2>2. head \o tail = SubSeq(fromDevice, 1, Len(fromDevice))
    BY <1>1, <2>1, ConcatAdjacentSubSeq
  <2> QED BY <1>1, <2>2, SubSeqFull
<1> HIDE DEF head, tail
<1>6. (rxBuf \o head) \o tail = rxBuf \o (head \o tail)
  BY <1>1, <1>4, ConcatAssociative
<1> QED BY <1>3, <1>5, <1>6

\* Reading moves bytes from the line to the buffer, or throws some away.
LEMMA ReadOrder ==
    ASSUME TypeOK, LogOrder, NEW n \in 1..MaxBuffer, Read(n)
    PROVE  LogOrder'
<1> DEFINE got == printed \o logQueue
           line == rxBuf \o fromDevice
           tail == SubSeq(fromDevice, n + 1, Len(fromDevice))
<1>1. line \in Seq(Byte) /\ rxBuf \in Seq(Byte) /\ fromDevice \in Seq(Byte)
  BY LogsTyped
<1>2. /\ Len(rxBuf) \in Nat /\ Len(fromDevice) \in Nat /\ n \in 1..Len(fromDevice)
      /\ fromDevice' = tail
      /\ logs' = logs /\ printed' = printed /\ logQueue' = logQueue
  BY <1>1, LenProperties DEF Read, ReceiveUnchanged, Exception
<1>3. CASE Overfull(Len(rxBuf) + n)
  <2>1. rxBuf' = << >>
    BY <1>3 DEF Read
  <2>2. /\ tail \o << >> \in Seq(Byte) /\ Len(tail \o << >>) + n <= Len(fromDevice \o << >>)
        /\ \A j \in 1..Len(tail \o << >>) : (tail \o << >>)[j] = (fromDevice \o << >>)[j + n]
    <3>1. << >> \in Seq(Byte) /\ n \in 0..Len(fromDevice)
      BY <1>2, EmptySeq
    <3> HIDE DEF tail
    <3> QED BY <1>1, <3>1, Behind DEF tail
  <2>3. tail \in Seq(Byte)
    BY <1>1, <1>2, PartOf
  <2> HIDE DEF tail
  <2>4. /\ tail \o << >> = tail /\ << >> \o tail = tail
        /\ fromDevice \o << >> = fromDevice
    BY <1>1, <2>3, ConcatEmptySeq
  <2>5. Len(tail) + n <= Len(fromDevice) /\ \A j \in 1..Len(tail) : tail[j] = fromDevice[j + n]
    BY <2>2, <2>4
  <2>6. Len(tail) \in Nat
    BY <2>3, LenProperties
  <2>7. /\ Len(line) = Len(rxBuf) + Len(fromDevice)
        /\ \A j \in 1..(Len(rxBuf) + Len(fromDevice)) :
              line[j] = IF j <= Len(rxBuf) THEN rxBuf[j] ELSE fromDevice[j - Len(rxBuf)]
    BY <1>1, ConcatProperties
  <2> DEFINE k == Len(rxBuf) + n
  <2> HIDE DEF line
  <2>8. k \in Nat /\ Len(tail) + k <= Len(line)
    BY <1>2, <2>5, <2>6, <2>7
  <2>9. ASSUME NEW j \in 1..Len(tail)
        PROVE  tail[j] = line[j + k]
    <3>1. /\ j + k \in 1..(Len(rxBuf) + Len(fromDevice)) /\ ~(j + k <= Len(rxBuf))
          /\ j + k - Len(rxBuf) = j + n
      BY <1>2, <2>5, <2>6
    <3> QED BY <2>5, <2>7, <3>1
  <2> HIDE DEF k
  <2>10. Ordered(got, tail, logs)
    BY <1>1, <2>3, <2>8, <2>9, Shortened DEF LogOrder, line
  <2> QED BY <1>2, <2>1, <2>4, <2>10 DEF LogOrder
<1>4. CASE ~Overfull(Len(rxBuf) + n)
  BY <1>2, <1>4, ReadLine DEF LogOrder
<1> QED BY <1>3, <1>4

\* A fault takes out a byte or puts one there that begins nothing.
LEMMA LineFaultOrder ==
    ASSUME TypeOK, LogOrder, LineFault
    PROVE  LogOrder'
<1> USE HostRpcAssumption
<1> DEFINE got == printed \o logQueue
           line == rxBuf \o fromDevice
           all == rxBuf \o fromDevice'
<1>1. line \in Seq(Byte) /\ rxBuf \in Seq(Byte) /\ fromDevice \in Seq(Byte)
  BY LogsTyped
<1>2. /\ Len(rxBuf) \in Nat /\ Len(fromDevice) \in Nat
      /\ rxBuf' = rxBuf /\ logs' = logs /\ printed' = printed /\ logQueue' = logQueue
  BY <1>1, LenProperties DEF LineFault
<1>3. PICK i \in 1..Len(fromDevice) :
          \/ fromDevice' = SubSeq(fromDevice, 1, i - 1)
                               \o SubSeq(fromDevice, i + 1, Len(fromDevice))
          \/ \E byte \in {Zero, Garbage} : fromDevice' = [fromDevice EXCEPT ![i] = byte]
  BY DEF LineFault
<1>4. /\ Len(line) = Len(rxBuf) + Len(fromDevice)
      /\ \A j \in 1..(Len(rxBuf) + Len(fromDevice)) :
            line[j] = IF j <= Len(rxBuf) THEN rxBuf[j] ELSE fromDevice[j - Len(rxBuf)]
  BY <1>1, ConcatProperties
<1> HIDE DEF line
<1>5. CASE fromDevice' = SubSeq(fromDevice, 1, i - 1)
                             \o SubSeq(fromDevice, i + 1, Len(fromDevice))
  <2> DEFINE front == SubSeq(fromDevice, 1, i - 1)
             back == SubSeq(fromDevice, i + 1, Len(fromDevice))
             new == front \o back
  <2>1. /\ front \in Seq(Byte) /\ Len(front) = i - 1
        /\ \A j \in 1..(i - 1) : front[j] = fromDevice[j]
    <3>1. \A j \in 1..(i - 1) : fromDevice[j] \in Byte
      BY <1>1, <1>2, ElementOfSeq
    <3>2. /\ 1 \in Int /\ i - 1 \in Int /\ i - 1 - 1 + 1 = i - 1
          /\ \A j \in 1..(i - 1) : 1 + j - 1 = j
      BY <1>2
    <3>3. /\ front \in Seq(Byte) /\ Len(front) = IF 1 <= i - 1 THEN i - 1 - 1 + 1 ELSE 0
          /\ \A j \in 1..(i - 1 - 1 + 1) : front[j] = fromDevice[1 + j - 1]
      BY <3>1, <3>2, SubSeqProperties
    <3> HIDE DEF front
    <3> QED BY <1>2, <3>2, <3>3
  <2>2. /\ back \in Seq(Byte) /\ Len(back) = Len(fromDevice) - i
        /\ \A j \in 1..(Len(fromDevice) - i) : back[j] = fromDevice[j + i]
    <3>1. \A j \in (i + 1)..Len(fromDevice) : fromDevice[j] \in Byte
      BY <1>1, <1>2, ElementOfSeq
    <3>2. /\ i + 1 \in Int /\ Len(fromDevice) \in Int
          /\ Len(fromDevice) - (i + 1) + 1 = Len(fromDevice) - i
          /\ \A j \in 1..(Len(fromDevice) - i) : i + 1 + j - 1 = j + i
      BY <1>2
    <3>3. /\ back \in Seq(Byte)
          /\ Len(back) = IF i + 1 <= Len(fromDevice) THEN Len(fromDevice) - (i + 1) + 1 ELSE 0
          /\ \A j \in 1..(Len(fromDevice) - (i + 1) + 1) : back[j] = fromDevice[i + 1 + j - 1]
      BY <3>1, <3>2, SubSeqProperties
    <3> HIDE DEF back
    <3>4. Len(back) = Len(fromDevice) - i
      BY <1>2, <3>3
    <3>5. \A j \in 1..(Len(fromDevice) - i) : back[j] = fromDevice[j + i]
      BY <3>2, <3>3
    <3> QED BY <3>3, <3>4, <3>5
  <2> HIDE DEF front, back
  <2>3. /\ new \in Seq(Byte) /\ Len(new) = Len(fromDevice) - 1
        /\ \A j \in 1..(Len(fromDevice) - 1) :
              new[j] = IF j < i THEN fromDevice[j] ELSE fromDevice[j + 1]
    <3>1. /\ new \in Seq(Byte) /\ Len(new) = Len(front) + Len(back)
          /\ \A j \in 1..(Len(front) + Len(back)) :
                new[j] = IF j <= Len(front) THEN front[j] ELSE back[j - Len(front)]
      BY <2>1, <2>2, ConcatProperties
    <3> HIDE DEF new
    <3>2. Len(new) = Len(fromDevice) - 1
      BY <1>2, <2>1, <2>2, <3>1
    <3>3. ASSUME NEW j \in 1..(Len(fromDevice) - 1)
          PROVE  new[j] = IF j < i THEN fromDevice[j] ELSE fromDevice[j + 1]
      <4>1. CASE j < i
        <5>1. j \in 1..(i - 1) /\ j \in 1..(Len(front) + Len(back)) /\ j <= Len(front)
          BY <1>2, <2>1, <2>2, <4>1
        <5> QED BY <2>1, <3>1, <4>1, <5>1
      <4>2. CASE ~(j < i)
        <5>1. /\ j \in 1..(Len(front) + Len(back)) /\ ~(j <= Len(front))
              /\ j - Len(front) \in 1..(Len(fromDevice) - i)
              /\ j - Len(front) + i = j + 1
          BY <1>2, <2>1, <2>2, <4>2
        <5> QED BY <2>2, <3>1, <4>2, <5>1
      <4> QED BY <4>1, <4>2
    <3> QED BY <3>1, <3>2, <3>3
  <2>4. fromDevice' = new
    BY <1>5 DEF front, back
  <2> HIDE DEF new
  <2>5. /\ Len(all) = Len(rxBuf) + Len(fromDevice) - 1
        /\ \A j \in 1..(Len(rxBuf) + Len(fromDevice) - 1) :
              all[j] = IF j <= Len(rxBuf) THEN rxBuf[j] ELSE new[j - Len(rxBuf)]
    <3>1. /\ Len(rxBuf \o new) = Len(rxBuf) + Len(new)
          /\ \A j \in 1..(Len(rxBuf) + Len(new)) :
                (rxBuf \o new)[j] = IF j <= Len(rxBuf) THEN rxBuf[j] ELSE new[j - Len(rxBuf)]
      BY <1>1, <2>3, ConcatProperties
    <3>2. Len(rxBuf) + Len(new) = Len(rxBuf) + Len(fromDevice) - 1
      BY <1>2, <2>3
    <3> QED BY <2>4, <3>1, <3>2
  <2> HIDE DEF all
  <2> DEFINE f == [j \in 1..Len(all) |-> IF j < Len(rxBuf) + i THEN j ELSE j + 1]
  <2>6. \A j, l \in 1..Len(all) : j < l => f[j] < f[l]
    BY <1>2, <2>5
  <2>7. ASSUME NEW j \in 1..Len(all)
        PROVE  f[j] \in 1..Len(line) /\ all[j] = line[f[j]]
    <3>1. j \in 1..(Len(rxBuf) + Len(fromDevice) - 1) /\ f[j] \in 1..Len(line)
      BY <1>2, <1>4, <2>5
    <3>2. CASE j <= Len(rxBuf)
      <4>1. f[j] = j /\ j \in 1..(Len(rxBuf) + Len(fromDevice))
        BY <1>2, <3>1, <3>2
      <4> HIDE DEF f
      <4> QED BY <1>4, <2>5, <3>1, <3>2, <4>1
    <3>3. CASE ~(j <= Len(rxBuf)) /\ j < Len(rxBuf) + i
      <4>1. /\ f[j] = j /\ j \in 1..(Len(rxBuf) + Len(fromDevice))
            /\ j - Len(rxBuf) \in 1..(Len(fromDevice) - 1) /\ j - Len(rxBuf) < i
        BY <1>2, <3>1, <3>3
      <4> HIDE DEF f
      <4> QED BY <1>4, <2>3, <2>5, <3>1, <3>3, <4>1
    <3>4. CASE ~(j < Len(rxBuf) + i)
      <4>1. /\ f[j] = j + 1 /\ j + 1 \in 1..(Len(rxBuf) + Len(fromDevice))
            /\ ~(j <= Len(rxBuf)) /\ ~(j + 1 <= Len(rxBuf))
            /\ j - Len(rxBuf) \in 1..(Len(fromDevice) - 1) /\ ~(j - Len(rxBuf) < i)
            /\ j - Len(rxBuf) + 1 = j + 1 - Len(rxBuf)
        BY <1>2, <3>1, <3>4
      <4> HIDE DEF f
      <4> QED BY <1>4, <2>3, <2>5, <3>1, <4>1, SMTT(30)
    <3> QED BY <3>1, <3>2, <3>3, <3>4
  <2> HIDE DEF f
  <2>8. Ordered(got, all, logs)
    BY <2>6, <2>7, Thinned DEF LogOrder, line
  <2> QED BY <1>2, <2>8 DEF LogOrder, all
<1>6. ASSUME NEW byte \in {Zero, Garbage}, fromDevice' = [fromDevice EXCEPT ![i] = byte]
      PROVE  LogOrder'
  <2>1. byte \in Byte /\ ~StartsLog(byte)
    BY DelimiterBytes DEF Byte, StartsLog, Zero, Garbage
  <2>2. /\ fromDevice' \in Seq(Byte) /\ Len(fromDevice') = Len(fromDevice)
        /\ \A j \in 1..Len(fromDevice) :
              fromDevice'[j] = IF j = i THEN byte ELSE fromDevice[j]
    BY <1>1, <1>6, <2>1, ExceptSeq
  <2>3. /\ Len(all) = Len(line)
        /\ \A j \in 1..Len(line) :
              all[j] = IF j <= Len(rxBuf) THEN rxBuf[j] ELSE fromDevice'[j - Len(rxBuf)]
    <3> DEFINE new == fromDevice'
    <3>1. new \in Seq(Byte) /\ Len(new) = Len(fromDevice)
      BY <2>2
    <3> HIDE DEF new
    <3>2. /\ Len(rxBuf \o new) = Len(rxBuf) + Len(new)
          /\ \A j \in 1..(Len(rxBuf) + Len(new)) :
                (rxBuf \o new)[j] = IF j <= Len(rxBuf) THEN rxBuf[j] ELSE new[j - Len(rxBuf)]
      BY <1>1, <3>1, ConcatProperties
    <3> QED BY <1>4, <3>1, <3>2 DEF new
  <2> HIDE DEF all
  <2> DEFINE f == [j \in 1..Len(all) |-> j]
  <2>4. ASSUME NEW j \in 1..Len(all), StartsLog(all[j])
        PROVE  f[j] \in 1..Len(line) /\ all[j] = line[f[j]]
    <3>1. j \in 1..(Len(rxBuf) + Len(fromDevice)) /\ f[j] = j /\ j \in 1..Len(line)
      BY <1>4, <2>3
    <3>2. CASE j <= Len(rxBuf)
      BY <1>4, <2>3, <3>1, <3>2
    <3>3. CASE ~(j <= Len(rxBuf))
      <4>1. j - Len(rxBuf) \in 1..Len(fromDevice) /\ all[j] = fromDevice'[j - Len(rxBuf)]
        BY <1>2, <2>3, <3>1, <3>3
      <4>2. j - Len(rxBuf) # i
        BY <2>1, <2>2, <2>4, <4>1
      <4> HIDE DEF f
      <4> QED BY <1>4, <2>2, <3>1, <3>3, <4>1, <4>2
    <3> QED BY <3>2, <3>3
  <2>5. \A j, l \in 1..Len(all) : j < l => f[j] < f[l]
    OBVIOUS
  <2> HIDE DEF f
  <2>6. Ordered(got, all, logs)
    BY <2>4, <2>5, Thinned DEF LogOrder, line
  <2> QED BY <1>2, <2>6 DEF LogOrder, all
<1> QED BY <1>3, <1>5, <1>6

-----------------------------------------------------------------------------
(* The theorem *)

LEMMA InitOrder == Init => LogOrder
<1> SUFFICES ASSUME Init PROVE LogOrder
  OBVIOUS
<1>1. << >> \o << >> = << >> /\ Len(<< >>) = 0
  BY ConcatEmptySeq, EmptySeq
<1> QED BY <1>1 DEF Init, LogOrder, Ordered

LEMMA HeadMoved ==
    ASSUME NEW T, NEW a \in Seq(T), NEW b \in Seq(T), b # << >>
    PROVE  Append(a, Head(b)) \o Tail(b) = a \o b
<1> DEFINE first == <<Head(b)>>
           back == Tail(b)
<1>1. Head(b) \in T /\ back \in Seq(T) /\ Head(b) = b[1] /\ back = SubSeq(b, 2, Len(b))
  BY HeadTailProperties, TailIsSubSeq
<1>2. first \in Seq(T) /\ Append(a, Head(b)) = a \o first
  BY <1>1, AppendIsConcat
<1>3. b = first \o back
  <2>1. 1 \in 1..Len(b) /\ Len(b) \in 1..Len(b)
    <3>1. Len(b) \in Nat \ {0}
      BY EmptySeq
    <3> QED BY <3>1
  <2>2. SubSeq(b, 1, Len(b)) = <<b[1]>> \o SubSeq(b, 1 + 1, Len(b))
    BY <2>1, SubSeqRecursiveFirst
  <2> QED BY <1>1, <2>2, SubSeqFull
<1> HIDE DEF first, back
<1>4. first \in Seq(T) /\ back \in Seq(T)
  BY <1>1, <1>2
<1>5. (a \o first) \o back = a \o (first \o back)
  BY <1>4, ConcatAssociative
<1> QED BY <1>2, <1>3, <1>5 DEF back

\* A message that is printed goes from one part of what has been got to the other.
LEMMA PrintLogOrder ==
    ASSUME TypeOK, LogOrder, PrintLog
    PROVE  LogOrder'
<1>1. printed \in Seq(Nat) /\ logQueue \in Seq(Nat) /\ logQueue # << >>
  BY LogsTyped DEF PrintLog
<1>2. Append(printed, Head(logQueue)) \o Tail(logQueue) = printed \o logQueue
  BY <1>1, HeadMoved
<1>3. printed' \o logQueue' = printed \o logQueue
  BY <1>2 DEF PrintLog
<1> QED BY <1>3 DEF LogOrder, PrintLog, deviceVars

\* Calls and the end of the stream change none of it.
LEMMA OtherOrder ==
    ASSUME LogOrder,
           \/ \E c \in Callers : Call(c) \/ Take(c) \/ GiveUp(c) \/ CallEnds(c)
           \/ ReadEnd
           \/ UNCHANGED vars
    PROVE  LogOrder'
<1>1. UNCHANGED <<printed, logQueue, rxBuf, fromDevice, logs>>
  BY DEF Call, Take, GiveUp, CallEnds, ReadEnd, ReceiveUnchanged, Exception,
         vars, deviceVars, receiveVars
<1> QED BY <1>1 DEF LogOrder

LEMMA NextOrder == TypeOK /\ LogOrder /\ [Next]_vars => LogOrder'
<1> SUFFICES ASSUME TypeOK, LogOrder, [Next]_vars PROVE LogOrder'
  OBVIOUS
<1>1. CASE \/ \E c \in Callers : Call(c) \/ Take(c) \/ GiveUp(c) \/ CallEnds(c)
           \/ UNCHANGED vars
  BY <1>1, OtherOrder
<1>2. CASE Device
  BY <1>2, DeviceOrder
<1>3. CASE LineFault
  BY <1>3, LineFaultOrder
<1>4. CASE Host
  BY <1>4, ReceiveOrder, ReadOrder, OtherOrder DEF Host
<1>5. CASE PrintLog
  BY <1>5, PrintLogOrder
<1> QED BY <1>1, <1>2, <1>3, <1>4, <1>5 DEF Next

\* For every packet and buffer size, and whatever the line loses or garbles, log
\* messages come to be printed at most once and in the order in which the device
\* has sent them (StreamTransport.recv, Channels.loop, print_logs).
THEOREM LogsPrintedInOrder == Spec => []LogsInOrder
<1>1. Init => LogOrder
  BY InitOrder
<1>2. TypeOK /\ LogOrder /\ [Next]_vars => LogOrder'
  BY NextOrder
<1>3. LogOrder => LogsInOrder
  BY DEF LogOrder, Ordered, LogsInOrder
<1> QED BY <1>1, <1>2, <1>3, HostTypeCorrect, PTL DEF Spec

-----------------------------------------------------------------------------
(* No log message is lost *)

\* Messages got are the first ones, without gaps; the others, up to the last, begin
\* on the line.
Complete(got, line, last) ==
    /\ \A i \in 1..Len(got) : got[i] = i
    /\ Len(got) <= last
    /\ \A j \in 1..Len(line) : StartsLog(line[j]) => Len(got) < Number(line[j])
    /\ \A n \in (Len(got) + 1)..last :
          \E j \in 1..Len(line) : StartsLog(line[j]) /\ Number(line[j]) = n

\* The inductive invariant, with LogOrder.
LogComplete == ~disturbed => Complete(printed \o logQueue, rxBuf \o fromDevice, logs)

\* Another message is added to the line, or bytes that begin none.
LEMMA CompleteMore ==
    ASSUME NEW got \in Seq(Nat), NEW line \in Seq(Byte), NEW last \in Nat,
           Complete(got, line, last),
           NEW next \in {last, last + 1}, NEW more \in Seq(Byte),
           next = last + 1 => Len(more) >= 1 /\ StartsLog(more[1]),
           \A i \in 1..Len(more) :
               StartsLog(more[i]) => i = 1 /\ Number(more[i]) = next /\ next = last + 1
    PROVE  Complete(got, line \o more, next)
<1> DEFINE all == line \o more
<1>1. Len(line) \in Nat /\ Len(more) \in Nat /\ Len(got) \in Nat
  BY LenProperties
<1>2. /\ Len(all) = Len(line) + Len(more)
      /\ \A i \in 1..Len(line) + Len(more) :
            all[i] = IF i <= Len(line) THEN line[i] ELSE more[i - Len(line)]
  BY ConcatProperties
<1> HIDE DEF all
<1>3. Len(got) <= last
  BY DEF Complete
<1>4. ASSUME NEW j \in 1..Len(all), StartsLog(all[j])
      PROVE  Len(got) < Number(all[j])
  <2>1. CASE j <= Len(line)
    <3>1. j \in 1..Len(line) /\ all[j] = line[j]
      BY <1>1, <1>2, <2>1
    <3> QED BY <1>4, <3>1 DEF Complete
  <2>2. CASE j > Len(line)
    <3>1. j - Len(line) \in 1..Len(more) /\ all[j] = more[j - Len(line)]
      BY <1>1, <1>2, <2>2
    <3>2. Number(all[j]) = last + 1
      BY <1>4, <3>1
    <3> QED BY <1>1, <1>3, <3>2
  <2> QED BY <1>1, <2>1, <2>2
<1>5. ASSUME NEW n \in (Len(got) + 1)..next
      PROVE  \E j \in 1..Len(all) : StartsLog(all[j]) /\ Number(all[j]) = n
  <2>1. CASE n <= last
    <3>1. PICK j \in 1..Len(line) : StartsLog(line[j]) /\ Number(line[j]) = n
      <4>1. n \in (Len(got) + 1)..last
        BY <1>1, <2>1
      <4> QED BY <4>1 DEF Complete
    <3>2. j \in 1..Len(all) /\ all[j] = line[j]
      BY <1>1, <1>2
    <3> QED BY <3>1, <3>2
  <2>2. CASE n > last
    <3>1. next = last + 1 /\ n = next
      BY <1>1, <2>2
    <3>2. Len(more) >= 1 /\ StartsLog(more[1])
      BY <3>1
    <3>3. 1 \in 1..Len(more)
      BY <1>1, <3>2
    <3>4. Number(more[1]) = n
      BY <3>1, <3>2, <3>3
    <3>5. /\ Len(line) + 1 \in 1..Len(all) /\ ~(Len(line) + 1 <= Len(line))
          /\ Len(line) + 1 \in 1..(Len(line) + Len(more))
          /\ Len(line) + 1 - Len(line) = 1
      BY <1>1, <1>2, <3>3
    <3>6. all[Len(line) + 1] = more[1]
      BY <1>2, <3>5
    <3> QED BY <3>2, <3>4, <3>5, <3>6
  <2> QED BY <1>1, <2>1, <2>2
<1>6. Len(got) <= next
  BY <1>1, <1>3
<1>7. \A i \in 1..Len(got) : got[i] = i
  BY DEF Complete
<1>8. Complete(got, all, next)
  BY <1>4, <1>5, <1>6, <1>7 DEF Complete
<1> QED BY <1>8 DEF all

\* Bytes that begin no message are taken out.
LEMMA CompleteLess ==
    ASSUME NEW got, NEW line, NEW rest, NEW last, Complete(got, line, last),
           NEW k \in Nat, Len(rest) \in Nat, Len(line) \in Nat, Len(rest) + k = Len(line),
           \A i \in 1..Len(rest) : rest[i] = line[i + k],
           \A j \in 1..k : ~StartsLog(line[j])
    PROVE  Complete(got, rest, last)
<1>1. ASSUME NEW i \in 1..Len(rest)
      PROVE  i + k \in 1..Len(line) /\ rest[i] = line[i + k]
  OBVIOUS
<1>2. ASSUME NEW j \in 1..Len(line), StartsLog(line[j])
      PROVE  j - k \in 1..Len(rest) /\ rest[j - k] = line[j]
  <2>1. j \notin 1..k
    BY <1>2
  <2>2. j - k \in 1..Len(rest) /\ j - k + k = j
    BY <2>1
  <2> QED BY <2>2
<1>3. ASSUME NEW n \in (Len(got) + 1)..last
      PROVE  \E i \in 1..Len(rest) : StartsLog(rest[i]) /\ Number(rest[i]) = n
  <2>1. PICK j \in 1..Len(line) : StartsLog(line[j]) /\ Number(line[j]) = n
    BY DEF Complete
  <2> QED BY <1>2, <2>1
<1>4. \A i \in 1..Len(rest) : StartsLog(rest[i]) => Len(got) < Number(rest[i])
  BY <1>1 DEF Complete
<1> QED BY <1>3, <1>4 DEF Complete

\* The first message of the line is the next one to get.
LEMMA CompleteMoved ==
    ASSUME NEW got \in Seq(Nat), NEW line \in Seq(Byte), NEW last \in Nat,
           Complete(got, line, last), Ordered(got, line, last),
           NEW k \in Nat \ {0}, NEW rest \in Seq(Byte), Len(rest) + k = Len(line),
           \A i \in 1..Len(rest) : rest[i] = line[i + k],
           StartsLog(line[1]), \A j \in 2..k : ~StartsLog(line[j])
    PROVE  Complete(Append(got, Number(line[1])), rest, last)
<1> DEFINE number == Number(line[1])
           more == Append(got, number)
<1>1. Len(rest) \in Nat /\ Len(line) \in Nat /\ Len(got) \in Nat /\ 1 \in 1..Len(line)
  BY LenProperties
<1>2. number \in Nat
  BY <1>1, ElementOfSeq, NumberTyped
<1>3. Len(got) < number /\ number <= last
  BY <1>1 DEF Complete, Ordered
<1>4. number = Len(got) + 1
  <2>1. Len(got) + 1 \in (Len(got) + 1)..last
    BY <1>1, <1>2, <1>3
  <2>2. PICK j \in 1..Len(line) : StartsLog(line[j]) /\ Number(line[j]) = Len(got) + 1
    BY <2>1 DEF Complete
  <2>3. CASE j = 1
    BY <2>2, <2>3
  <2>4. CASE j # 1
    <3>1. 1 < j
      BY <2>4
    <3>2. number < Len(got) + 1
      BY <1>1, <2>2, <3>1 DEF Ordered
    <3> QED BY <1>1, <1>2, <1>3, <3>2
  <2> QED BY <2>3, <2>4
<1>5. /\ Len(more) = Len(got) + 1
      /\ \A i \in 1..Len(got) : more[i] = got[i]
      /\ more[Len(got) + 1] = number
  BY <1>2, AppendProperties
<1> HIDE DEF number, more
<1>6. \A i \in 1..Len(more) : more[i] = i
  <2> SUFFICES ASSUME NEW i \in 1..Len(more) PROVE more[i] = i
    OBVIOUS
  <2>1. i \in 1..Len(got) \/ i = Len(got) + 1
    BY <1>1, <1>5
  <2> QED BY <1>4, <1>5, <2>1 DEF Complete
<1>7. ASSUME NEW i \in 1..Len(rest), StartsLog(rest[i])
      PROVE  Len(more) < Number(rest[i])
  <2>1. i + k \in 1..Len(line) /\ 1 < i + k /\ rest[i] = line[i + k]
    BY <1>1
  <2>2. number < Number(rest[i])
    BY <1>1, <1>7, <2>1 DEF Ordered, number
  <2> QED BY <1>4, <1>5, <2>2
<1>8. ASSUME NEW n \in (Len(more) + 1)..last
      PROVE  \E i \in 1..Len(rest) : StartsLog(rest[i]) /\ Number(rest[i]) = n
  <2>1. n \in (Len(got) + 1)..last /\ n # number
    BY <1>1, <1>4, <1>5
  <2>2. PICK j \in 1..Len(line) : StartsLog(line[j]) /\ Number(line[j]) = n
    BY <2>1 DEF Complete
  <2>3. j # 1
    BY <2>1, <2>2 DEF number
  <2>4. j \notin 2..k
    BY <2>2
  <2>5. j - k \in 1..Len(rest) /\ j - k + k = j
    BY <1>1, <2>3, <2>4
  <2>6. rest[j - k] = line[j]
    BY <2>5
  <2> QED BY <2>2, <2>5, <2>6
<1>9. Len(more) <= last
  BY <1>3, <1>4, <1>5
<1>10. Complete(more, rest, last)
  BY <1>6, <1>7, <1>8, <1>9 DEF Complete
<1> QED BY <1>10 DEF more, number

LEMMA DeviceComplete ==
    ASSUME TypeOK, LogComplete, Device
    PROVE  LogComplete'
<1> SUFFICES ASSUME ~disturbed'
             PROVE  Complete(printed' \o logQueue', rxBuf' \o fromDevice', logs')
  BY DEF LogComplete
<1> DEFINE got == printed \o logQueue
           line == rxBuf \o fromDevice
<1>1. got \in Seq(Nat) /\ line \in Seq(Byte) /\ logs \in Nat
  BY LogsTyped
<1>2. printed' \o logQueue' = got /\ Complete(got, line, logs)
  BY DeviceLine DEF LogComplete
<1>3. CASE rxBuf' \o fromDevice' = line /\ logs' = logs
  BY <1>2, <1>3
<1>4. CASE ~(rxBuf' \o fromDevice' = line /\ logs' = logs)
  <2>1. PICK more \in Seq(Byte) :
            /\ rxBuf' \o fromDevice' = line \o more
            /\ logs' = logs + 1 => Len(more) >= 1 /\ StartsLog(more[1])
            /\ \A i \in 1..Len(more) :
                  StartsLog(more[i]) =>
                      i = 1 /\ Number(more[i]) = logs' /\ logs' = logs + 1
    BY <1>4, DeviceLine
  <2>2. logs' \in {logs, logs + 1}
    BY <1>4, DeviceLine
  <2> HIDE DEF got, line
  <2>3. Complete(got, line \o more, logs')
    BY <1>1, <1>2, <2>1, <2>2, CompleteMore
  <2> QED BY <1>2, <2>1, <2>3
<1> QED BY <1>3, <1>4

LEMMA ReceiveComplete ==
    ASSUME TypeOK, LogOrder, LogComplete, Receive
    PROVE  LogComplete'
<1> SUFFICES ASSUME ~disturbed'
             PROVE  Complete(printed' \o logQueue', rxBuf' \o fromDevice', logs')
  BY DEF LogComplete
<1> DEFINE got == printed \o logQueue
           line == rxBuf \o fromDevice
           rest == rxBuf' \o fromDevice'
<1>1. got \in Seq(Nat) /\ line \in Seq(Byte) /\ logs \in Nat /\ Ordered(got, line, logs)
  BY LogsTyped DEF LogOrder
<1>2. PICK k \in Nat \ {0} : Taken(k)
  BY ReceiveLine
<1>3. /\ rest \in Seq(Byte) /\ Len(rest) + k = Len(line)
      /\ \A j \in 1..Len(rest) : rest[j] = line[j + k]
      /\ ~disturbed
  BY <1>2 DEF Taken
<1>4. logs' = logs /\ Complete(got, line, logs)
  BY <1>3, ReceiveLine DEF LogComplete
<1>5. CASE printed' \o logQueue' = got /\ \A j \in 1..k : ~StartsLog(line[j])
  <2>1. Len(rest) \in Nat /\ Len(line) \in Nat /\ k \in Nat
    BY <1>1, <1>3, LenProperties
  <2> HIDE DEF got, line, rest
  <2>2. Complete(got, rest, logs)
    BY <1>3, <1>4, <1>5, <2>1, CompleteLess
  <2> QED BY <1>4, <1>5, <2>2 DEF rest
<1>6. CASE /\ StartsLog(line[1]) /\ \A j \in 2..k : ~StartsLog(line[j])
           /\ printed' \o logQueue' = Append(got, Number(line[1]))
  <2> HIDE DEF got, line, rest
  <2>1. Complete(Append(got, Number(line[1])), rest, logs)
    BY <1>1, <1>3, <1>4, <1>6, CompleteMoved
  <2> QED BY <1>4, <1>6, <2>1 DEF rest
<1> QED BY <1>2, <1>5, <1>6 DEF Taken

LEMMA ReadComplete ==
    ASSUME TypeOK, LogComplete, NEW n \in 1..MaxBuffer, Read(n)
    PROVE  LogComplete'
<1>1. CASE Overfull(Len(rxBuf) + n)
  <2>1. disturbed'
    BY <1>1 DEF Read, Exception
  <2> QED BY <2>1 DEF LogComplete
<1>2. CASE ~Overfull(Len(rxBuf) + n)
  <2>1. /\ rxBuf' \o fromDevice' = rxBuf \o fromDevice
        /\ disturbed' = disturbed
    BY <1>2, ReadLine
  <2>2. printed' = printed /\ logQueue' = logQueue /\ logs' = logs
    BY <1>2 DEF Read, ReceiveUnchanged
  <2> QED BY <2>1, <2>2 DEF LogComplete
<1> QED BY <1>1, <1>2

LEMMA PrintLogComplete ==
    ASSUME TypeOK, LogComplete, PrintLog
    PROVE  LogComplete'
<1>1. printed \in Seq(Nat) /\ logQueue \in Seq(Nat) /\ logQueue # << >>
  BY LogsTyped DEF PrintLog
<1>2. Append(printed, Head(logQueue)) \o Tail(logQueue) = printed \o logQueue
  BY <1>1, HeadMoved
<1>3. printed' \o logQueue' = printed \o logQueue
  BY <1>2 DEF PrintLog
<1> QED BY <1>3 DEF LogComplete, PrintLog, deviceVars

\* Calls change none of it, and a fault or an exception is recorded.
LEMMA OtherComplete ==
    ASSUME LogComplete,
           \/ \E c \in Callers : Call(c) \/ Take(c) \/ GiveUp(c) \/ CallEnds(c)
           \/ ReadEnd \/ LineFault
           \/ UNCHANGED vars
    PROVE  LogComplete'
<1>1. CASE LineFault
  BY <1>1 DEF LineFault, LogComplete
<1>2. CASE ~LineFault
  <2>1. UNCHANGED <<printed, logQueue, rxBuf, fromDevice, logs>>
    BY <1>2 DEF Call, Take, GiveUp, CallEnds, ReadEnd, ReceiveUnchanged, Exception,
           vars, deviceVars, receiveVars
  <2>2. disturbed' \/ UNCHANGED disturbed
    BY <1>2 DEF Call, Take, GiveUp, CallEnds, ReadEnd, ReceiveUnchanged, Exception,
           vars, receiveVars
  <2> QED BY <2>1, <2>2 DEF LogComplete
<1> QED BY <1>1, <1>2

LEMMA NextComplete == TypeOK /\ LogOrder /\ LogComplete /\ [Next]_vars => LogComplete'
<1> SUFFICES ASSUME TypeOK, LogOrder, LogComplete, [Next]_vars PROVE LogComplete'
  OBVIOUS
<1>1. CASE \/ \E c \in Callers : Call(c) \/ Take(c) \/ GiveUp(c) \/ CallEnds(c)
           \/ UNCHANGED vars
  BY <1>1, OtherComplete
<1>2. CASE Device
  BY <1>2, DeviceComplete
<1>3. CASE LineFault
  BY <1>3, OtherComplete
<1>4. CASE Host
  BY <1>4, ReceiveComplete, ReadComplete, OtherComplete DEF Host
<1>5. CASE PrintLog
  BY <1>5, PrintLogComplete
<1> QED BY <1>1, <1>2, <1>3, <1>4, <1>5 DEF Next

LEMMA InitComplete == Init => LogComplete
<1> SUFFICES ASSUME Init PROVE LogComplete
  OBVIOUS
<1>1. << >> \o << >> = << >> /\ Len(<< >>) = 0
  BY ConcatEmptySeq, EmptySeq
<1> QED BY <1>1 DEF Init, LogComplete, Complete

\* What is got and what begins on the line are all messages, each once.
LEMMA CompleteKept ==
    ASSUME TypeOK, LogOrder, LogComplete
    PROVE  LogsKept
<1> DEFINE got == printed \o logQueue
           line == rxBuf \o fromDevice
           begun == {j \in 1..Len(line) : StartsLog(line[j])}
<1> SUFFICES ASSUME ~disturbed
             PROVE  /\ \A i \in 1..Len(got) : got[i] = i
                    /\ {line[j].message.number : j \in begun} = (Len(got) + 1)..logs
                    /\ \A j, k \in begun :
                          j < k => line[j].message.number < line[k].message.number
  BY DEF LogsKept
<1>1. got \in Seq(Nat) /\ line \in Seq(Byte) /\ logs \in Nat
  BY LogsTyped
<1>2. Len(got) \in Nat
  BY <1>1, LenProperties
<1>3. Complete(got, line, logs) /\ Ordered(got, line, logs)
  BY DEF LogComplete, LogOrder
<1> HIDE DEF got, line
<1>4. \A j \in begun : line[j].message.number \in (Len(got) + 1)..logs
  <2> SUFFICES ASSUME NEW j \in 1..Len(line), StartsLog(line[j])
               PROVE  Number(line[j]) \in (Len(got) + 1)..logs
    BY DEF Number
  <2>1. Number(line[j]) \in Nat
    BY <1>1, ElementOfSeq, NumberTyped
  <2>2. Len(got) < Number(line[j]) /\ Number(line[j]) <= logs
    BY <1>3 DEF Complete, Ordered
  <2> QED BY <1>1, <1>2, <2>1, <2>2
<1>5. \A n \in (Len(got) + 1)..logs : \E j \in begun : line[j].message.number = n
  BY <1>3 DEF Complete, Number
<1>6. \A j, k \in begun : j < k => line[j].message.number < line[k].message.number
  BY <1>3 DEF Ordered, Number
<1>7. \A i \in 1..Len(got) : got[i] = i
  BY <1>3 DEF Complete
<1> QED BY <1>4, <1>5, <1>6, <1>7

\* As long as nothing but packets comes from the device, and never so many at once
\* that the buffer is thrown away, every log message it has sent has been printed,
\* waits for print_logs or is on its way, once and in order, wherever the stream is
\* cut (StreamTransport.recv, Channels.loop).
THEOREM NoLogLost == Spec => []LogsKept
<1>1. Init => LogOrder /\ LogComplete
  BY InitOrder, InitComplete
<1>2. TypeOK /\ LogOrder /\ LogComplete /\ [Next]_vars => LogOrder' /\ LogComplete'
  BY NextOrder, NextComplete
<1>3. TypeOK /\ LogOrder /\ LogComplete => LogsKept
  BY CompleteKept
<1> QED BY <1>1, <1>2, <1>3, HostTypeCorrect, PTL DEF Spec
=============================================================================
