-------------------------- MODULE FreeRtosDemo_proofs --------------------------
(***************************************************************************)
(* The demo for every size, message length and number of requests.         *)
(*                                                                         *)
(* In builds that do not echo, with or without the mutex: the flag and the *)
(* UART agree, and a frame begun is always under way.                      *)
(*                                                                         *)
(* With the mutex: every step of the demo is one of Ccf's, so what is      *)
(* proved of Ccf holds in the demo, and whole messages are on the line.    *)
(***************************************************************************)
EXTENDS FreeRtosDemo, Ccf_proofs

\* What a producer's calls leave alone: the frame the transmitter holds.
LEMMA PushKeepsTaken == ASSUME NEW v, TX!Push(v) PROVE txTaken' = txTaken
  BY DEF TX!Push, TX!Accept, TX!Refuse, TX!vars

\* Nor do notify() and reset_dropped() touch it.
LEMMA NotifyKeepsTaken ==
  ASSUME TX!Notify \/ TX!ResetDropped PROVE txTaken' = txTaken
  BY DEF TX!Notify, TX!NotifyNothing, TX!ResetDropped, TX!Publish, TX!Discard, TX!vars

\* No step of poll or log takes a frame or gives one back.
LEMMA PollKeepsTaken ==
  ASSUME RpcPoll \/ RpcPollReturn PROVE txTaken' = txTaken
<1>1. ASSUME Poll \/ PollRelease \/ PollGet \/ PollReturn PROVE txTaken' = txTaken
  BY <1>1 DEF Poll, PollRelease, PollGet, PollReturn, txVars
<1>2. ASSUME PollCopy \/ PollCheck \/ PollCall PROVE txTaken' = txTaken
  BY <1>2 DEF PollCopy, PollCheck, PollCall, txVars
<1>3. ASSUME SendPush("poll") \/ PollErrorPush PROVE txTaken' = txTaken
  BY <1>3, PushKeepsTaken DEF SendPush, PollErrorPush
<1>4. ASSUME PollSent \/ PollErrorNotify PROVE txTaken' = txTaken
  BY <1>4, NotifyKeepsTaken DEF PollSent, SendDone, PollErrorNotify
<1> QED
  BY <1>1, <1>2, <1>3, <1>4 DEF RpcPoll, RpcPollReturn

\* The log task leaves the transmitter's frame alone until it starts it.
LEMMA LogKeepsTaken ==
  ASSUME LogLog \/ LogReturn PROVE txTaken' = txTaken
<1>1. ASSUME LogLock \/ LogFormat PROVE txTaken' = txTaken
  BY <1>1 DEF LogLock, LogFormat, txVars
<1>2. ASSUME SendPush("log") PROVE txTaken' = txTaken
  BY <1>2, PushKeepsTaken DEF SendPush
<1>3. ASSUME LogSent PROVE txTaken' = txTaken
  BY <1>3, NotifyKeepsTaken DEF LogSent, SendDone
<1> QED
  BY <1>1, <1>2, <1>3 DEF LogLog, LogReturn

\* commsCcfTxNext from an idle UART: either it found nothing to send, or a
\* character is on its way and the flag says so.
LEMMA TxNextFromIdle ==
  ASSUME TxNext(FALSE), ~shifting
  PROVE  \/ txTaken' = << >> /\ txBusy' = FALSE /\ ~shifting'
         \/ txBusy' = TRUE /\ shifting' = TRUE
<1>1. CASE txTaken = << >> /\ (txLost \/ txQueue = << >>) /\ txBusy' = FALSE
           /\ UNCHANGED <<txVars, toTx, shifting, line, lineEnd>>
  BY <1>1 DEF txVars
<1>2. CASE txBusy' = TRUE
           /\ \E frame, last : CharPut(frame[toTx + 1], last)
  BY <1>2 DEF CharPut
<1> QED
  BY <1>1, <1>2 DEF TxNext

\* The interrupt clears the flag and sets it again if there is more to send.
LEMMA TxDoneStep ==
  ASSUME BusyMeansSending, TxDone PROVE BusyMeansSending'
  BY TxNextFromIdle DEF BusyMeansSending, TxDone

\* A task that starts the transmitter does so only when it is idle.
LEMMA TxAvailableStep ==
  ASSUME BusyMeansSending, TxAvailable PROVE BusyMeansSending'
<1>1. CASE ~txBusy /\ TxNext(FALSE)
  BY <1>1, TxNextFromIdle DEF BusyMeansSending, TxAvailable
<1>2. CASE txBusy /\ UNCHANGED <<txVars, txBusy, toTx, shifting, line, lineEnd>>
  BY <1>2 DEF BusyMeansSending, TxAvailable, txVars
<1> QED
  BY <1>1, <1>2 DEF TxAvailable

\* Steps that touch neither the UART nor the frame.
LEMMA QuietStep ==
  ASSUME BusyMeansSending,
         UNCHANGED <<txBusy, shifting, txInterrupt>>, txTaken' = txTaken
  PROVE  BusyMeansSending'
  BY DEF BusyMeansSending

\* The whole next-state relation.
LEMMA HandshakeStep ==
  ASSUME ~Echo, BusyMeansSending, [DemoNext]_demoVars
  PROVE  BusyMeansSending'
<1>1. CASE RpcCreated \/ RpcNotified \/ RpcTimeout
  BY <1>1, QuietStep
     DEF RpcCreated, RpcNotified, RpcTimeout, uartVars, vars, txVars
<1>2. CASE RpcPoll \/ RpcPollReturn
  BY <1>2, PollKeepsTaken, QuietStep DEF RpcPoll, RpcPollReturn, uartVars
<1>3. CASE RpcStartTx \/ LogStartTx
  BY <1>3, TxAvailableStep DEF RpcStartTx, LogStartTx
<1>4. CASE LogLog \/ LogReturn
  BY <1>4, LogKeepsTaken, QuietStep DEF LogLog, LogReturn, uartVars
<1>5. CASE CharGone
  BY <1>5 DEF CharGone, BusyMeansSending, vars, txVars
<1>6. CASE TxDone
  BY <1>6, TxDoneStep
<1>7. CASE RxByte \/ RxDelimiter
  <2>1. UNCHANGED <<txBusy, shifting, txInterrupt>>
    BY <1>7 DEF RxByte, RxDelimiter, EchoByte
  <2>2. txTaken' = txTaken
    BY <1>7 DEF RxByte, RxDelimiter, ReceiveByte, ReceiveDelimiter, txVars
  <2> QED
    BY <2>1, <2>2, QuietStep
<1>8. CASE UNCHANGED demoVars
  BY <1>8, QuietStep DEF demoVars, uartVars, vars, txVars
<1> QED
  BY <1>1, <1>2, <1>3, <1>4, <1>5, <1>6, <1>7, <1>8
     DEF DemoNext, RpcNext, LogTaskNext, UartNext, RxNext

\* The transmit handshake of ccf-uart0.cpp: txBusy is set exactly while a
\* character is being sent or its interrupt is pending, and the frame held
\* in toTx is always being sent, whatever the tasks do and for all sizes.
THEOREM HandshakeCorrect ==
  ASSUME ~Echo PROVE DemoSpec => []BusyMeansSending
<1>1. DemoInit => BusyMeansSending
  BY DEF DemoInit, Init, TX!Init, BusyMeansSending
<1>2. BusyMeansSending /\ [DemoNext]_demoVars => BusyMeansSending'
  BY HandshakeStep
<1> QED
  BY <1>1, <1>2, PTL DEF DemoSpec

-----------------------------------------------------------------------------
(* The demo uses Ccf *)

\* A message has at least a channel and a delimiter.
ProperLengths == \A what \in Messages : TxLength[what] > 1

\* The frame in toTx is partly sent, or there is none.
FrameRight ==
    /\ toTx \in Nat
    /\ txTaken = << >> => toTx = 0
    /\ txTaken # << >> => 0 < toTx /\ toTx < Len(txTaken[1])

\* What of Ccf's proof the demo relies on.
CcfRight == Safe /\ TxRight /\ TxWhole

\* The next byte of the frame that is, or would be, held.
SendsByte(what, number) ==
    /\ txQueue # << >> /\ Head(txQueue) = Message(what, number)
    /\ toTx < TxLength[what]
    /\ txTaken # << >> => txTaken = <<Message(what, number)>>
    /\ CharPut(Holding(what, number), toTx + 1 = TxLength[what])
    /\ \/ /\ toTx + 1 = TxLength[what] /\ toTx' = 0
          /\ txTaken # << >> /\ TX!GiveBack
       \/ /\ toTx + 1 < TxLength[what] /\ toTx' = toTx + 1
          /\ txTaken' = <<Message(what, number)>>
          /\ (~txLost /\ TX!Take) \/ UNCHANGED txVars

LEMMA MessageIs ==
    ASSUME NEW what \in Messages, NEW number \in 0..MaxRequests
    PROVE  /\ Holding(what, number) \in Contents /\ Holding(what, number).what = what
           /\ TxLength[what] \in Nat \ {0}
           /\ Message(what, number) = Repeated(TxLength[what], Holding(what, number))
           /\ Message(what, number) \in Seq(Contents)
           /\ Len(Message(what, number)) = TxLength[what]
           /\ \A i \in 1..TxLength[what] : Message(what, number)[i] = Holding(what, number)
<1> DEFINE n == TxLength[what]
           c == Holding(what, number)
<1>1. n \in Nat \ {0} /\ c \in Contents /\ c.what = what
  BY CcfAssumption DEF Holding, Contents
<1>2. Message(what, number) = Repeated(n, c)
  BY DEF Message, Repeated
<1>3. \A i \in 1..n : Repeated(n, c)[i] = c
  BY DEF Repeated
<1> HIDE DEF n, c
<1>4. Repeated(n, c) \in Seq(Contents) /\ Len(Repeated(n, c)) = n
  BY <1>1, RepeatedIs
<1> QED BY <1>1, <1>2, <1>3, <1>4 DEF n, c

\* commsCcfTxNext finds nothing to send, or sends the next byte.
LEMMA TxNextIs ==
    ASSUME ProperLengths, CcfRight, FrameRight, NEW busy, TxNext(busy)
    PROVE  \/ /\ txTaken = << >>
              /\ UNCHANGED <<txVars, toTx, shifting, line, lineEnd>>
           \/ \E what \in Messages, number \in 0..MaxRequests : SendsByte(what, number)
<1> DEFINE Packets == Seq(Contents)
<1>1. /\ txQueue \in Seq(Packets)
      /\ txTaken = << >> \/ (txQueue # << >> /\ txTaken = <<txQueue[1]>>)
      /\ TxWhole /\ toTx \in Nat
  BY DEF CcfRight, Safe, TXF!Fits, TXF!Typed, FrameRight
<1>2. CASE txTaken = << >> /\ UNCHANGED <<txVars, toTx, shifting, line, lineEnd>>
  BY <1>2
<1>3. CASE /\ txTaken # << >> \/ (~txLost /\ txQueue # << >>)
           /\ LET frame == Head(txQueue)
                  last  == LastByte(frame)
              IN  /\ CharPut(frame[toTx + 1], last)
                  /\ toTx' = IF last THEN 0 ELSE toTx + 1
                  /\ txTaken' = IF last THEN << >> ELSE <<frame>>
                  /\ txQueue' = IF last THEN Tail(txQueue) ELSE txQueue
                  /\ txUsed' = IF last THEN txUsed - (Len(frame) + 1) ELSE txUsed
           /\ UNCHANGED <<txOpen, txLost>>
  <2> DEFINE frame == Head(txQueue)
  <2>1. txQueue # << >> /\ frame = txQueue[1] /\ 1 \in 1..Len(txQueue)
    <3>1. txQueue # << >>
      BY <1>1, <1>3
    <3> HIDE DEF Packets
    <3> QED BY <1>1, <3>1, EmptySeq, HeadTailProperties
  <2>2. PICK what \in Messages, number \in 0..MaxRequests : frame = Message(what, number)
    BY <1>1, <2>1 DEF TxWhole
  <2> DEFINE c == Holding(what, number)
             n == TxLength[what]
  <2>3. /\ n \in Nat \ {0} /\ n > 1 /\ Len(frame) = n
        /\ \A i \in 1..n : frame[i] = c
    BY <2>2, MessageIs DEF ProperLengths
  <2>4. txTaken # << >> => txTaken = <<frame>> /\ txTaken[1] = frame
    BY <1>1, <2>1
  <2>5. toTx + 1 \in 1..n /\ toTx < n /\ (txTaken = << >> => toTx + 1 < n)
    <3> HIDE DEF frame, n
    <3>1. CASE txTaken = << >>
      BY <1>1, <2>3, <3>1 DEF FrameRight
    <3>2. CASE txTaken # << >>
      BY <1>1, <2>3, <2>4, <3>2 DEF FrameRight
    <3> QED BY <3>1, <3>2
  <2>6. frame[toTx + 1] = c /\ (LastByte(frame) <=> toTx + 1 = n)
    BY <2>3, <2>5 DEF LastByte
  <2>7. /\ CharPut(c, toTx + 1 = n)
        /\ toTx' = IF toTx + 1 = n THEN 0 ELSE toTx + 1
        /\ txTaken' = IF toTx + 1 = n THEN << >> ELSE <<frame>>
        /\ txQueue' = IF toTx + 1 = n THEN Tail(txQueue) ELSE txQueue
        /\ txUsed' = IF toTx + 1 = n THEN txUsed - (Len(frame) + 1) ELSE txUsed
        /\ UNCHANGED <<txOpen, txLost>>
    <3>1. LastByte(frame) = (toTx + 1 = n)
      BY <2>6 DEF LastByte
    <3> QED BY <1>3, <2>6, <3>1
  <2> HIDE DEF frame, c, n
  <2>8. CASE toTx + 1 = n
    <3>1. txTaken # << >> /\ txTaken[1] = frame
      BY <2>4, <2>5, <2>8
    <3>2. TX!GiveBack
      BY <2>7, <2>8, <3>1 DEF TX!GiveBack
    <3> QED BY <2>1, <2>2, <2>4, <2>5, <2>7, <2>8, <3>1, <3>2 DEF SendsByte, frame, c, n
  <2>9. CASE toTx + 1 # n
    <3>1. toTx + 1 < n
      BY <1>1, <2>3, <2>5, <2>9
    <3>2. (~txLost /\ TX!Take) \/ UNCHANGED txVars
      <4>1. CASE txTaken = << >>
        BY <1>3, <2>1, <2>7, <2>9, <4>1 DEF TX!Take, frame
      <4>2. CASE txTaken # << >>
        BY <2>4, <2>7, <2>9, <4>2 DEF txVars
      <4> QED BY <4>1, <4>2
    <3> QED BY <2>1, <2>2, <2>4, <2>5, <2>7, <2>9, <3>1, <3>2 DEF SendsByte, frame, c, n
  <2> QED BY <2>8, <2>9
<1> QED BY <1>2, <1>3 DEF TxNext

\* The transmitter takes frames and gives them back as Ccf's does.
LEMMA SendsIsCcf ==
    ASSUME ProperLengths, CcfRight, FrameRight, NEW busy, TxNext(busy),
           UNCHANGED <<rxVars, incoming, threadVars>>
    PROVE  [Next]_vars /\ FrameRight'
<1>1. CASE txTaken = << >> /\ UNCHANGED <<txVars, toTx, shifting, line, lineEnd>>
  BY <1>1 DEF vars, txVars, FrameRight
<1>2. ASSUME NEW what \in Messages, NEW number \in 0..MaxRequests, SendsByte(what, number)
      PROVE  [Next]_vars /\ FrameRight'
  <2>1. toTx \in Nat /\ Len(Message(what, number)) = TxLength[what] /\ TxLength[what] \in Nat
    BY MessageIs DEF FrameRight
  <2>2. CASE /\ toTx + 1 = TxLength[what] /\ toTx' = 0
             /\ txTaken # << >> /\ TX!GiveBack
    <3>1. ReleaseFrame
      BY <2>2 DEF ReleaseFrame
    <3>2. txTaken' = << >>
      BY <2>2, TxEffects DEF TX!GiveBack
    <3> QED BY <2>2, <3>1, <3>2 DEF Next, TransmitNext, FrameRight
  <2>3. CASE /\ toTx + 1 < TxLength[what] /\ toTx' = toTx + 1
             /\ txTaken' = <<Message(what, number)>>
             /\ (~txLost /\ TX!Take) \/ UNCHANGED txVars
    <3>1. [Next]_vars
      BY <2>3 DEF TakeFrame, Next, TransmitNext, vars
    <3>2. txTaken' # << >> /\ txTaken'[1] = Message(what, number)
      BY <2>3
    <3>3. 0 < toTx' /\ toTx' \in Nat /\ toTx' < Len(txTaken'[1])
      BY <2>1, <2>3, <3>2
    <3> QED BY <3>1, <3>2, <3>3 DEF FrameRight
  <2> QED BY <1>2, <2>2, <2>3 DEF SendsByte
<1> QED BY <1>1, <1>2, TxNextIs

LEMMA DemoIsCcf ==
    ASSUME ProperLengths, CcfRight, FrameRight, [DemoNext]_demoVars
    PROVE  [Next]_vars /\ FrameRight'
<1>1. CASE RpcPoll \/ RpcPollReturn
  <2>1. PollNext
    BY <1>1 DEF RpcPoll, RpcPollReturn, PollNext
  <2>2. txTaken' = txTaken /\ toTx' = toTx
    BY <1>1, PollKeepsTaken DEF RpcPoll, RpcPollReturn, uartVars
  <2> QED BY <2>1, <2>2 DEF Next, FrameRight
<1>2. CASE LogLog \/ LogReturn
  <2>1. LogNext
    BY <1>2 DEF LogLog, LogReturn, LogNext
  <2>2. txTaken' = txTaken /\ toTx' = toTx
    BY <1>2, LogKeepsTaken DEF LogLog, LogReturn, uartVars
  <2> QED BY <2>1, <2>2 DEF Next, FrameRight
<1>3. CASE RxByte \/ RxDelimiter
  <2>1. ReceiveNext
    BY <1>3 DEF RxByte, RxDelimiter, ReceiveNext
  <2>2. txTaken' = txTaken /\ toTx' = toTx
    BY <1>3 DEF RxByte, RxDelimiter, EchoByte, ReceiveByte, ReceiveDelimiter, txVars
  <2> QED BY <2>1, <2>2 DEF Next, FrameRight
<1>4. CASE RpcCreated \/ RpcNotified \/ RpcTimeout \/ CharGone \/ UNCHANGED demoVars
  <2>1. UNCHANGED vars /\ toTx' = toTx
    BY <1>4 DEF RpcCreated, RpcNotified, RpcTimeout, CharGone, demoVars, uartVars
  <2> QED BY <2>1 DEF FrameRight, vars, txVars
<1>5. CASE RpcStartTx \/ LogStartTx \/ TxDone
  <2>1. UNCHANGED <<rxVars, incoming, threadVars>>
    BY <1>5 DEF RpcStartTx, LogStartTx, TxDone, TxAvailable
  <2>2. TxNext(FALSE) \/ UNCHANGED <<txVars, toTx>>
    BY <1>5 DEF RpcStartTx, LogStartTx, TxDone, TxAvailable
  <2>3. CASE TxNext(FALSE)
    BY <2>1, <2>3, SendsIsCcf
  <2>4. CASE UNCHANGED <<txVars, toTx>>
    BY <2>1, <2>4 DEF vars, txVars, FrameRight
  <2> QED BY <2>2, <2>3, <2>4
<1> QED BY <1>1, <1>2, <1>3, <1>4, <1>5
        DEF DemoNext, RpcNext, LogTaskNext, UartNext, RxNext

LEMMA CcfRightNext ==
    ASSUME PollLocks, CcfRight, [Next]_vars, [Unspoilt]_vars
    PROVE  CcfRight'
<1>1. Safe'
  BY RxRightNext, ThreadsNext, TxFitsNext DEF Safe, CcfRight
<1>2. TxRight' /\ TxWhole'
  BY InterruptTx, LogTx, PollTx DEF Next, CcfRight
<1> QED BY <1>1, <1>2 DEF CcfRight

LEMMA DemoStarts ==
    ASSUME DemoInit
    PROVE  Init /\ CcfRight /\ FrameRight
<1>1. Init
  BY DEF DemoInit
<1>2. Safe
  BY <1>1, RxInit, ThreadsInit, TxCalls, TXF!InitFits, CcfAssumption DEF Safe, Init
<1>3. TxRight /\ TxWhole
  BY <1>1, TxInit
<1>4. FrameRight
  BY <1>1 DEF DemoInit, FrameRight, Init, TX!Init
<1> QED BY <1>1, <1>2, <1>3, <1>4 DEF CcfRight

LEMMA DemoRight ==
    ASSUME PollLocks = TRUE, ProperLengths
    PROVE  DemoSpec /\ NeverSpoilt => [](CcfRight /\ FrameRight)
<1>1. DemoInit => CcfRight /\ FrameRight
  BY DemoStarts
<1>2. CcfRight /\ FrameRight /\ [DemoNext]_demoVars /\ [Unspoilt]_vars
      => CcfRight' /\ FrameRight'
  BY DemoIsCcf, CcfRightNext
<1> QED BY <1>1, <1>2, PTL DEF DemoSpec, NeverSpoilt

\* The demo's tasks and interrupt use Ccf as Ccf's model has it: every step is one
\* of Ccf's or leaves it alone.  So the theorems about Ccf hold in the demo, under
\* the same condition.
THEOREM DemoUsesCcf ==
    ASSUME PollLocks = TRUE, ProperLengths
    PROVE  DemoSpec /\ NeverSpoilt => UsesCcf
<1>1. DemoInit => Init
  BY DemoStarts
<1>2. CcfRight /\ FrameRight /\ [DemoNext]_demoVars => [Next]_vars
  BY DemoIsCcf
<1> QED BY <1>1, <1>2, DemoRight, PTL DEF DemoSpec, UsesCcf, Spec

-----------------------------------------------------------------------------
(* The line *)

\* The line ends with as much of the frame in toTx as has been sent, or with a
\* whole message.
LineRight ==
    /\ txTaken # << >> =>
           /\ ~lineEnd
           /\ \E what \in Messages, number \in 0..MaxRequests :
                  /\ txTaken[1] = Message(what, number)
                  /\ line = Repeated(toTx, Holding(what, number))
    /\ txTaken = << >> =>
           /\ lineEnd
           /\ \/ line = << >>
              \/ \E what \in Messages, number \in 0..MaxRequests : line = Message(what, number)

LEMMA LineRightIsWhole == LineRight /\ FrameRight => LineWhole
<1> SUFFICES ASSUME LineRight, FrameRight PROVE LineWhole
  OBVIOUS
<1>1. ASSUME NEW what \in Messages, NEW number \in 0..MaxRequests, NEW n \in Nat \ {0},
             line = Repeated(n, Holding(what, number)),
             lineEnd <=> n = TxLength[what]
      PROVE  LineWhole
  <2> DEFINE c == Holding(what, number)
  <2>1. c \in Contents /\ c.what = what
    BY MessageIs
  <2>2. line = Repeated(n, c)
    BY <1>1
  <2>3. DOMAIN line = 1..n /\ \A i \in 1..n : line[i] = c
    BY <2>2 DEF Repeated
  <2>4. n \in Nat /\ n > 0
    BY <1>1
  <2> HIDE DEF c
  <2>5. Len(Repeated(n, c)) = n /\ Repeated(n, c)[1] = c
    BY <2>1, <2>4, RepeatedIs
  <2>6. Len(line) = n /\ line[1] = c
    BY <2>2, <2>5
  <2> QED BY <1>1, <2>1, <2>3, <2>6 DEF LineWhole
<1>2. CASE txTaken # << >>
  <2>1. PICK what \in Messages, number \in 0..MaxRequests :
            /\ txTaken[1] = Message(what, number)
            /\ line = Repeated(toTx, Holding(what, number))
    BY <1>2 DEF LineRight
  <2>2. Len(Message(what, number)) = TxLength[what] /\ TxLength[what] \in Nat
    BY MessageIs
  <2>3. toTx \in Nat \ {0} /\ toTx # TxLength[what] /\ ~lineEnd
    BY <1>2, <2>1, <2>2 DEF FrameRight, LineRight
  <2> QED BY <1>1, <2>1, <2>3
<1>3. CASE txTaken = << >> /\ line = << >>
  BY <1>3 DEF LineWhole
<1>4. CASE txTaken = << >> /\ line # << >>
  <2>1. PICK what \in Messages, number \in 0..MaxRequests : line = Message(what, number)
    BY <1>4 DEF LineRight
  <2>2. line = Repeated(TxLength[what], Holding(what, number)) /\ TxLength[what] \in Nat \ {0}
    BY <2>1, MessageIs
  <2>3. lineEnd
    BY <1>4 DEF LineRight
  <2> QED BY <1>1, <2>2, <2>3
<1> QED BY <1>2, <1>3, <1>4

\* The next byte goes on the line after those before it.
LEMMA SendsLine ==
    ASSUME CcfRight, FrameRight, LineRight, ~shifting,
           NEW what \in Messages, NEW number \in 0..MaxRequests, SendsByte(what, number)
    PROVE  LineRight'
<1> DEFINE c == Holding(what, number)
           n == TxLength[what]
           message == Message(what, number)
<1>1. /\ c \in Contents /\ n \in Nat \ {0} /\ message = Repeated(n, c)
      /\ \A i \in 1..n : message[i] = c
  BY MessageIs
<1>2. toTx \in Nat /\ (txTaken = << >> => toTx = 0 /\ lineEnd) /\ (txTaken # << >> => ~lineEnd)
  BY DEF FrameRight, LineRight
<1>3. line' = (IF lineEnd THEN <<c>> ELSE Append(line, c)) /\ lineEnd' = (toTx + 1 = n)
  BY DEF SendsByte, CharPut
<1>4. line' = Repeated(toTx + 1, c)
  <2>1. CASE txTaken = << >>
    <3>1. <<c>> = Repeated(1, c)
      BY DEF Repeated
    <3>2. toTx + 1 = 1 /\ line' = <<c>>
      BY <1>2, <1>3, <2>1
    <3> QED BY <3>1, <3>2
  <2>2. CASE txTaken # << >>
    <3>1. PICK w \in Messages, m \in 0..MaxRequests :
              txTaken[1] = Message(w, m) /\ line = Repeated(toTx, Holding(w, m))
      BY <2>2 DEF LineRight
    <3>2. txTaken[1] = message
      BY <2>2 DEF SendsByte
    <3>3. message[1] = Holding(w, m) /\ message[1] = c
      <4>1. TxLength[w] \in Nat \ {0} /\ \A i \in 1..TxLength[w] : Message(w, m)[i] = Holding(w, m)
        BY MessageIs
      <4>2. Message(w, m)[1] = Holding(w, m)
        BY <4>1
      <4>3. message[1] = c
        BY <1>1
      <4> QED BY <3>1, <3>2, <4>2, <4>3
    <3>4. Append(Repeated(toTx, c), c) = Repeated(toTx + 1, c)
      BY <1>1, <1>2, RepeatedMore
    <3> QED BY <1>2, <1>3, <2>2, <3>1, <3>3, <3>4
  <2> QED BY <2>1, <2>2
<1> HIDE DEF c, n, message
<1>5. CASE toTx + 1 = n /\ txTaken # << >> /\ TX!GiveBack
  <2>1. txTaken' = << >>
    BY <1>5 DEF TX!GiveBack
  <2> QED BY <1>1, <1>3, <1>4, <1>5, <2>1 DEF LineRight, message
<1>6. CASE /\ toTx + 1 < n /\ toTx' = toTx + 1
           /\ txTaken' = <<message>>
  <2>1. txTaken' # << >> /\ txTaken'[1] = message
    BY <1>6
  <2>2. toTx + 1 # n
    BY <1>1, <1>2, <1>6
  <2>3. ~lineEnd'
    BY <1>3, <2>2
  <2> QED BY <1>4, <1>6, <2>1, <2>3 DEF LineRight, message, c
<1> QED BY <1>5, <1>6 DEF SendsByte, n, message

LEMMA LineStep ==
    ASSUME ~Echo, ProperLengths, CcfRight, FrameRight, BusyMeansSending, LineRight,
           [DemoNext]_demoVars
    PROVE  LineRight'
<1>1. CASE UNCHANGED <<txTaken, toTx, line, lineEnd>>
  BY <1>1 DEF LineRight
<1>2. CASE RpcPoll \/ RpcPollReturn \/ LogLog \/ LogReturn
  BY <1>1, <1>2, PollKeepsTaken, LogKeepsTaken
     DEF RpcPoll, RpcPollReturn, LogLog, LogReturn, uartVars
<1>3. CASE RxByte \/ RxDelimiter
  BY <1>1, <1>3 DEF RxByte, RxDelimiter, EchoByte, ReceiveByte, ReceiveDelimiter, txVars
<1>4. CASE RpcCreated \/ RpcNotified \/ RpcTimeout \/ CharGone \/ UNCHANGED demoVars
  BY <1>1, <1>4 DEF RpcCreated, RpcNotified, RpcTimeout, CharGone, demoVars, uartVars,
                    vars, txVars
<1>5. CASE RpcStartTx \/ LogStartTx \/ TxDone
  <2>1. \/ TxNext(FALSE) /\ ~shifting
        \/ UNCHANGED <<txTaken, toTx, line, lineEnd>>
    BY <1>5 DEF RpcStartTx, LogStartTx, TxDone, TxAvailable, BusyMeansSending, txVars
  <2>2. CASE TxNext(FALSE) /\ ~shifting
    <3>1. \/ UNCHANGED <<txTaken, toTx, line, lineEnd>>
          \/ \E what \in Messages, number \in 0..MaxRequests : SendsByte(what, number)
      BY <2>2, TxNextIs DEF txVars
    <3> QED BY <1>1, <2>2, <3>1, SendsLine
  <2> QED BY <1>1, <2>1, <2>2
<1> QED BY <1>2, <1>3, <1>4, <1>5
        DEF DemoNext, RpcNext, LogTaskNext, UartNext, RxNext

\* In builds that do not echo, with the mutex: between two delimiters there is one
\* whole message on the line, none lost to a busy UART, sent twice or put into
\* another (commsCcfTxNext and its callers), as long as no error text is dropped
\* from a txBuf that is exactly full.
THEOREM LinesWhole ==
    ASSUME PollLocks = TRUE, Echo = FALSE, ProperLengths
    PROVE  DemoSpec /\ NeverSpoilt => []LineWhole
<1>1. DemoInit => LineRight
  BY DEF DemoInit, Init, TX!Init, LineRight
<1>2. /\ CcfRight /\ FrameRight /\ BusyMeansSending /\ LineRight /\ [DemoNext]_demoVars
      => LineRight'
  BY LineStep
<1>3. DemoSpec => []BusyMeansSending
  BY HandshakeCorrect
<1> QED BY <1>1, <1>2, <1>3, DemoRight, LineRightIsWhole, PTL DEF DemoSpec

-----------------------------------------------------------------------------
(* Types *)

DemoTyped ==
    /\ rpcTask \in BOOLEAN
    /\ rpc \in {"poll", "start", "wait"}
    /\ notification \in BOOLEAN
    /\ log \in {"delay", "start"}
    /\ txBusy \in BOOLEAN
    /\ shifting \in BOOLEAN /\ txInterrupt \in BOOLEAN
    /\ line \in Seq(Contents)
    /\ lineEnd \in BOOLEAN

LEMMA CharPutTyped ==
    ASSUME NEW c \in Contents, NEW isDelimiter \in BOOLEAN, CharPut(c, isDelimiter), DemoTyped
    PROVE  shifting' \in BOOLEAN /\ line' \in Seq(Contents) /\ lineEnd' \in BOOLEAN
<1>1. <<c>> \in Seq(Contents) /\ Append(line, c) \in Seq(Contents)
  BY AppendProperties DEF DemoTyped
<1> QED BY <1>1 DEF CharPut, DemoTyped

LEMMA TxNextTyped ==
    ASSUME ProperLengths, CcfRight, FrameRight, DemoTyped, TxNext(FALSE)
    PROVE  /\ txBusy' \in BOOLEAN /\ shifting' \in BOOLEAN
           /\ line' \in Seq(Contents) /\ lineEnd' \in BOOLEAN
<1>1. txBusy' \in BOOLEAN
  BY DEF TxNext
<1>2. CASE UNCHANGED <<shifting, line, lineEnd>>
  BY <1>1, <1>2 DEF DemoTyped
<1>3. ASSUME NEW what \in Messages, NEW number \in 0..MaxRequests, SendsByte(what, number)
      PROVE  shifting' \in BOOLEAN /\ line' \in Seq(Contents) /\ lineEnd' \in BOOLEAN
  <2>1. CharPut(Holding(what, number), toTx + 1 = TxLength[what])
    BY <1>3 DEF SendsByte
  <2>2. Holding(what, number) \in Contents /\ (toTx + 1 = TxLength[what]) \in BOOLEAN
    BY MessageIs
  <2> QED BY <2>1, <2>2, CharPutTyped
<1> QED BY <1>1, <1>2, <1>3, TxNextIs

LEMMA TypedStep ==
    ASSUME ProperLengths, CcfRight, FrameRight, DemoTyped, [DemoNext]_demoVars
    PROVE  DemoTyped'
<1>1. CASE RpcPoll \/ RpcPollReturn \/ LogLog \/ LogReturn
  BY <1>1 DEF RpcPoll, RpcPollReturn, LogLog, LogReturn, taskVars, uartVars, DemoTyped
<1>2. CASE RpcCreated \/ RpcNotified \/ RpcTimeout \/ CharGone \/ UNCHANGED demoVars
  BY <1>2 DEF RpcCreated, RpcNotified, RpcTimeout, CharGone, demoVars, taskVars, uartVars,
              DemoTyped
<1>3. CASE RxByte \/ RxDelimiter
  <2>1. ASSUME NEW isDelimiter \in BOOLEAN, EchoByte(isDelimiter)
        PROVE  /\ shifting' \in BOOLEAN /\ line' \in Seq(Contents) /\ lineEnd' \in BOOLEAN
               /\ UNCHANGED <<txBusy, txInterrupt>>
    <3>1. Holding("request", incoming.number) \in Contents
      BY DEF CcfRight, Safe, RxRight, Holding, Contents
    <3>2. CASE UNCHANGED <<shifting, line, lineEnd>>
      BY <2>1, <3>2 DEF EchoByte, DemoTyped
    <3>3. CASE CharPut(Holding("request", incoming.number), isDelimiter)
      BY <2>1, <3>1, <3>3, CharPutTyped DEF EchoByte
    <3> QED BY <2>1, <3>2, <3>3 DEF EchoByte
  <2>2. UNCHANGED <<rpcTask, rpc, log>> /\ notification' \in BOOLEAN
    BY <1>3 DEF RxByte, RxDelimiter, taskVars, DemoTyped
  <2> QED BY <1>3, <2>1, <2>2 DEF RxByte, RxDelimiter, DemoTyped
<1>4. CASE RpcStartTx \/ LogStartTx \/ TxDone
  <2>1. /\ UNCHANGED <<rpcTask, notification>> /\ txInterrupt' \in BOOLEAN
        /\ rpc' \in {"poll", "start", "wait"} /\ log' \in {"delay", "start"}
    BY <1>4 DEF RpcStartTx, LogStartTx, TxDone, TxAvailable, taskVars, DemoTyped
  <2>2. TxNext(FALSE) \/ UNCHANGED <<txBusy, shifting, line, lineEnd>>
    BY <1>4 DEF RpcStartTx, LogStartTx, TxDone, TxAvailable
  <2>3. /\ txBusy' \in BOOLEAN /\ shifting' \in BOOLEAN
        /\ line' \in Seq(Contents) /\ lineEnd' \in BOOLEAN
    BY <2>2, TxNextTyped DEF DemoTyped
  <2> QED BY <2>1, <2>3, <1>4 DEF DemoTyped, RpcStartTx, LogStartTx
<1> QED BY <1>1, <1>2, <1>3, <1>4
        DEF DemoNext, RpcNext, LogTaskNext, UartNext, RxNext

\* Types, and txBuf's slots are counted rightly though the demo lets a frame go
\* byte by byte; with the echo or without (ccf-uart0.cpp), under that condition.
THEOREM DemoTypeCorrect ==
    ASSUME PollLocks = TRUE, ProperLengths
    PROVE  DemoSpec /\ NeverSpoilt => []DemoTypeOK
<1>1. DemoInit => DemoTyped
  <2>1. << >> \in Seq(Contents)
    BY EmptySeq
  <2> QED BY <2>1 DEF DemoInit, DemoTyped
<1>2. CcfRight /\ FrameRight /\ DemoTyped /\ [DemoNext]_demoVars => DemoTyped'
  BY TypedStep
<1>3. CcfRight /\ FrameRight /\ DemoTyped => DemoTypeOK
  BY SafeTyped DEF CcfRight, FrameRight, DemoTyped, DemoTypeOK
<1> QED BY <1>1, <1>2, <1>3, DemoRight, PTL DEF DemoSpec
=============================================================================
