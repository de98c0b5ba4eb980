---------------------------------- MODULE Ccf ----------------------------------
(***************************************************************************)
(* comms-ccf/ccf.hpp: the Ccf class between a serial line and two threads. *)
(*                                                                         *)
(*  - the receive interrupt calls receiveCharacter for every byte, which   *)
(*    assembles requests in rxBuf;                                         *)
(*  - one thread calls poll, which answers the requests in rxBuf by        *)
(*    sending through txBuf;                                               *)
(*  - another calls log, which formats into pktBuf and sends;              *)
(*  - the transmit interrupt takes frames out of txBuf.                    *)
(*                                                                         *)
(* poll and log share pktBuf and the producer's side of txBuf and are "not *)
(* threadsafe, use a mutex" (lines 131, 217, 352).  PollLocks says whether *)
(* the polling thread takes it, as the logging thread does.                *)
(*                                                                         *)
(* Each buffer is a FrameQueue, whose calls are atomic here: CircularBuffer *)
(* is shown to implement that.  An interrupt is not preempted by a thread, *)
(* so its calls are single steps; a thread may be between any two.         *)
(*                                                                         *)
(* A byte is represented by the message it belongs to, so a packet is      *)
(* whole when it is as long as its message and all of one message: that is *)
(* what its checksum tells.  The decoder's part is Cobs and CobsLink.      *)
(***************************************************************************)
EXTENDS Integers, Sequences

CONSTANTS
    RxSize, TxSize,  \* Config.rxBufSize, Config.txBufSize
    MaxPacket,       \* Config.maxPktSize
    Kinds,           \* kinds of request the host sends, a subset of AllKinds
    RxLength,        \* decoded bytes of a request, by kind
    TxLength,        \* bytes sent for a message, delimiter included
    MaxRequests,     \* bound: requests in one behaviour
    PollLocks        \* does the polling thread take the mutex?

\* What becomes of a request: answered, refused by rpc.call, its checksum is
\* wrong, or it is too short to have one.
AllKinds == {"ok", "fails", "corrupt", "short"}
Messages == {"response", "error", "log"}

ASSUME CcfAssumption ==
    /\ RxSize \in Nat /\ TxSize \in Nat
    /\ Kinds \subseteq AllKinds
    /\ RxLength \in [AllKinds -> Nat \ {0}]
    /\ TxLength \in [Messages -> Nat \ {0}]
    /\ MaxRequests \in Nat \ {0}
    /\ PollLocks \in BOOLEAN

VARIABLES
    rxQueue, rxOpen, rxLost, rxTaken, rxUsed,  \* rxBuf
    txQueue, txOpen, txLost, txTaken, txUsed,  \* txBuf
    incoming,    \* the request arriving: its number, kind, bytes to come
    pktBuf,      \* whose bytes the shared buffer holds
    mutex,       \* the thread holding the mutex, or "free"
    pc,          \* what each thread does next
    toPush,      \* bytes each thread has yet to push
    request,     \* poll's frame: the request copied from it
    output,      \* poll's result so far
    unanswered   \* history: requests executed and not yet answered

rxVars == <<rxQueue, rxOpen, rxLost, rxTaken, rxUsed>>
txVars == <<txQueue, txOpen, txLost, txTaken, txUsed>>
threadVars == <<pktBuf, mutex, pc, toPush, request, output, unanswered>>
vars == <<rxVars, txVars, incoming, threadVars>>

Requests == [number : 1..MaxRequests, kind : AllKinds]
NoRequest == [number |-> 0, kind |-> "short"]

\* What pktBuf or a pushed byte holds; only answers have a number.
Contents == [what : Messages \cup {"nothing", "request", "garbage"},
             number : 0..MaxRequests]
Holding(what, number) == [what |-> what, number |-> number]

RX == INSTANCE FrameQueue WITH
    Size <- RxSize, MaxPacketSize <- MaxPacket, Elements <- Requests,
    queue <- rxQueue, open <- rxOpen, lost <- rxLost,
    taken <- rxTaken, used <- rxUsed

TX == INSTANCE FrameQueue WITH
    Size <- TxSize, MaxPacketSize <- MaxPacket, Elements <- Contents,
    queue <- txQueue, open <- txOpen, lost <- txLost,
    taken <- txTaken, used <- txUsed

\* Both buffers keep within their slots, however they overflow, and each thread
\* is at a step of its call (ccf.hpp:399-404).
TypeOK ==
    /\ rxQueue \in Seq(Seq(Requests)) /\ rxOpen \in Seq(Requests)
    /\ rxTaken \in Seq(Seq(Requests)) /\ rxLost \in BOOLEAN
    /\ rxUsed \in 0..RxSize
    /\ txQueue \in Seq(Seq(Contents)) /\ txOpen \in Seq(Contents)
    /\ txTaken \in Seq(Seq(Contents)) /\ txLost \in BOOLEAN
    /\ txUsed \in 0..TxSize
    /\ incoming \in [number : 0..MaxRequests, kind : AllKinds, left : Nat]
    /\ pktBuf \in Contents
    /\ mutex \in {"free", "poll", "log"}
    /\ pc["poll"] \in {"idle", "release", "get", "copy", "check", "call",
                       "send", "error", "notify"}
    /\ pc["log"] \in {"idle", "format", "send"}
    /\ toPush \in [{"poll", "log"} -> Nat]
    /\ request \in Requests \cup {NoRequest}
    /\ output \in BOOLEAN
    /\ unanswered \subseteq 1..MaxRequests

Arriving(number, kind) ==
    [number |-> number, kind |-> kind, left |-> RxLength[kind]]

Init ==
    /\ RX!Init
    /\ TX!Init
    /\ incoming \in {Arriving(1, kind) : kind \in Kinds}
    /\ pktBuf = Holding("nothing", 0)
    /\ mutex = "free"
    /\ pc = [poll |-> "idle", log |-> "idle"]
    /\ toPush = [poll |-> 0, log |-> 0]
    /\ request = NoRequest
    /\ output = FALSE
    /\ unanswered = {}

-----------------------------------------------------------------------------
(* receiveCharacter, in the receive interrupt *)

ReceiveByte ==
    /\ incoming.left > 0
    /\ incoming' = [incoming EXCEPT !.left = incoming.left - 1]
    /\ RX!Push([number |-> incoming.number, kind |-> incoming.kind])
    /\ UNCHANGED <<txVars, threadVars>>

\* The zero after a request; it returns TRUE, "time to call poll".
ReceiveDelimiter ==
    /\ incoming.number > 0 /\ incoming.left = 0
    /\ \/ ~rxLost /\ RX!Notify
       \/ rxLost /\ RX!ResetDropped
    /\ incoming' \in
           IF incoming.number < MaxRequests
           THEN {Arriving(incoming.number + 1, kind) : kind \in Kinds}
           ELSE {[incoming EXCEPT !.number = 0]}
    /\ UNCHANGED <<txVars, threadVars>>

-----------------------------------------------------------------------------
(* charactersToSend, in the transmit interrupt: get_frame on txBuf *)

TakeFrame ==
    /\ ~txLost
    /\ TX!Take
    /\ UNCHANGED <<rxVars, incoming, threadVars>>

ReleaseFrame ==
    /\ TX!GiveBack
    /\ UNCHANGED <<rxVars, incoming, threadVars>>

-----------------------------------------------------------------------------
(* The mutex, FreeRTOS-Demo/mutex.hpp *)

\* Mutant of Lock: it does not wait.
LockAlways(t) == mutex' = t

Lock(t) == mutex = "free" /\ mutex' = t
Unlock(t) == mutex' = IF mutex = t THEN "free" ELSE mutex

-----------------------------------------------------------------------------
(* send(channel, data), the part after the packet is in pktBuf: its bytes  *)
(* are read as they are pushed, then the packet is published or dropped.   *)

StartSend(t, what) ==
    /\ pc' = [pc EXCEPT ![t] = "send"]
    /\ toPush' = [toPush EXCEPT ![t] = TxLength[what]]

SendPush(t) ==
    /\ pc[t] = "send" /\ toPush[t] > 0
    /\ TX!Push(pktBuf)
    /\ toPush' = [toPush EXCEPT ![t] = toPush[t] - 1]
    /\ UNCHANGED <<rxVars, incoming, pktBuf, mutex, pc, request, output,
                   unanswered>>

SendDone(t) ==
    /\ pc[t] = "send" /\ toPush[t] = 0
    /\ \/ ~txLost /\ TX!Notify
       \/ txLost /\ TX!ResetDropped

-----------------------------------------------------------------------------
(* log(level, module, fmt, ...) *)

LogLock ==
    /\ pc["log"] = "idle"
    /\ Lock("log")
    /\ pc' = [pc EXCEPT !["log"] = "format"]
    /\ UNCHANGED <<rxVars, txVars, incoming, pktBuf, toPush, request, output,
                   unanswered>>

\* vLogToBuffer into pktBuf, then send moves it by the channel byte.
LogFormat ==
    /\ pc["log"] = "format"
    /\ pktBuf' = Holding("log", 0)
    /\ StartSend("log", "log")
    /\ UNCHANGED <<rxVars, txVars, incoming, mutex, request, output, unanswered>>

LogSent ==
    /\ SendDone("log")
    /\ Unlock("log")
    /\ pc' = [pc EXCEPT !["log"] = "idle"]
    /\ UNCHANGED <<rxVars, incoming, pktBuf, toPush, request, output, unanswered>>

-----------------------------------------------------------------------------
(* poll(rpc) *)

PollGoto(label) == pc' = [pc EXCEPT !["poll"] = label]

Poll ==
    /\ pc["poll"] = "idle"
    /\ IF PollLocks THEN Lock("poll") ELSE UNCHANGED mutex
    /\ output' = FALSE
    /\ PollGoto("release")
    /\ UNCHANGED <<rxVars, txVars, incoming, pktBuf, toPush, request, unanswered>>

\* get_frame drops the frame of the last turn of the loop first ...
PollRelease ==
    /\ pc["poll"] = "release"
    /\ \/ RX!GiveBack
       \/ rxTaken = << >> /\ UNCHANGED rxVars
    /\ PollGoto("get")
    /\ UNCHANGED <<txVars, incoming, pktBuf, mutex, toPush, request, output,
                   unanswered>>

\* ... and then takes the next, unless there is none or a packet is being
\* dropped; poll returns output.
PollGet ==
    /\ pc["poll"] = "get"
    /\ ~rxLost
    /\ RX!Take
    /\ PollGoto("copy")
    /\ UNCHANGED <<txVars, incoming, pktBuf, mutex, toPush, request, output,
                   unanswered>>

PollReturn ==
    /\ pc["poll"] = "get"
    /\ rxLost \/ rxQueue = << >>
    /\ PollGoto("idle")
    /\ Unlock("poll")
    /\ UNCHANGED <<rxVars, txVars, incoming, pktBuf, toPush, request, output,
                   unanswered>>

\* What the checksum makes of a frame: the request whose packet it is, whole,
\* or a corrupt one.
RequestOf(frame) ==
    IF /\ \A i \in DOMAIN frame : frame[i] = frame[1]
       /\ Len(frame) = RxLength[frame[1].kind]
    THEN frame[1] ELSE [frame[1] EXCEPT !.kind = "corrupt"]

PollError ==
    /\ PollGoto("error")
    /\ toPush' = [toPush EXCEPT !["poll"] = TxLength["error"]]

PollCopy ==
    /\ pc["poll"] = "copy"
    /\ request' = RequestOf(rxTaken[1])
    /\ pktBuf' = Holding("request", request'.number)
    /\ IF request'.kind = "short" THEN PollError
       ELSE PollGoto("check") /\ UNCHANGED toPush
    /\ UNCHANGED <<rxVars, txVars, incoming, mutex, output, unanswered>>

RequestInPlace == pktBuf = Holding("request", request.number)

PollCheck ==
    /\ pc["poll"] = "check"
    /\ IF RequestInPlace /\ request.kind # "corrupt"
       THEN PollGoto("call") /\ UNCHANGED toPush
       ELSE PollError
    /\ UNCHANGED <<rxVars, txVars, incoming, pktBuf, mutex, request, output,
                   unanswered>>

\* rpc.call puts the response over the request.  `output || send(...)`: no
\* response is sent once there has been output.  If pktBuf has been written
\* by the other thread since the check, the call may do anything.
PollCall ==
    /\ pc["poll"] = "call"
    /\ \/ /\ RequestInPlace => request.kind = "ok"
          /\ pktBuf' = Holding(IF RequestInPlace THEN "response" ELSE "garbage",
                               request.number)
          /\ unanswered' = unanswered \cup {request.number}
          /\ IF output THEN PollGoto("release") /\ UNCHANGED toPush
             ELSE StartSend("poll", "response")
       \/ /\ RequestInPlace => request.kind = "fails"
          /\ PollError
          /\ UNCHANGED <<pktBuf, unanswered>>
    /\ UNCHANGED <<rxVars, txVars, incoming, mutex, request, output>>

PollSent ==
    /\ SendDone("poll")
    /\ output' = ~txLost
    /\ unanswered' = unanswered \ {request.number}
    /\ PollGoto("release")
    /\ UNCHANGED <<rxVars, incoming, pktBuf, mutex, toPush, request>>

\* std::ranges::copy(text, std::back_inserter(txBuf)), and a zero
PollErrorPush ==
    /\ pc["poll"] = "error"
    /\ TX!Push(Holding("error", request.number))
    /\ toPush' = [toPush EXCEPT !["poll"] = toPush["poll"] - 1]
    /\ PollGoto(IF toPush["poll"] > 1 THEN "error" ELSE "notify")
    /\ UNCHANGED <<rxVars, incoming, pktBuf, mutex, request, output, unanswered>>

\* Mutant of PollErrorNotify: `continue` is missing.
PollErrorGoesOn ==
    /\ pc["poll"] = "notify"
    /\ TX!Notify
    /\ output' = TRUE
    /\ PollGoto("check")
    /\ UNCHANGED <<rxVars, incoming, pktBuf, mutex, toPush, request, unanswered>>

PollErrorNotify ==
    /\ pc["poll"] = "notify"
    /\ TX!Notify
    /\ output' = TRUE
    /\ PollGoto("release")
    /\ UNCHANGED <<rxVars, incoming, pktBuf, mutex, toPush, request, unanswered>>

-----------------------------------------------------------------------------
PollNext ==
    \/ Poll
    \/ PollRelease
    \/ PollGet
    \/ PollReturn
    \/ PollCopy
    \/ PollCheck
    \/ PollCall
    \/ SendPush("poll")
    \/ PollSent
    \/ PollErrorPush
    \/ PollErrorNotify

LogNext ==
    \/ LogLock
    \/ LogFormat
    \/ SendPush("log")
    \/ LogSent

ReceiveNext == ReceiveByte \/ ReceiveDelimiter
TransmitNext == TakeFrame \/ ReleaseFrame

Next == PollNext \/ LogNext \/ ReceiveNext \/ TransmitNext

Spec == Init /\ [][Next]_vars

-----------------------------------------------------------------------------
Message(what, number) == [i \in 1..TxLength[what] |-> Holding(what, number)]

\* What the theorems about txBuf assume: no notify() that has nothing to publish
\* finds it exactly full with its oldest packet still to be taken.
Unspoilt == ~(TX!Spoils /\ TX!NotifyNothing)
NeverSpoilt == [][Unspoilt]_vars

\* Every packet given to the transmitter is one whole message: whatever was
\* dropped for want of room or written concurrently, no packet is a piece of
\* a message or a mixture of two (pktBuf and txBuf are shared by poll, log
\* and send).  It takes NeverSpoilt: an error text dropped from a txBuf that is
\* exactly full spoils a message.
TxWhole ==
    \A i \in 1..Len(txQueue) :
        \E what \in Messages, number \in 0..MaxRequests :
            txQueue[i] = Message(what, number)

\* Every packet poll sees is a request as the host sent it; one that did not
\* fit was dropped as a whole and does not spoil the next.
RxWhole ==
    \A i \in 1..Len(rxQueue) :
        /\ Len(rxQueue[i]) = RxLength[rxQueue[i][1].kind]
        /\ \A j \in DOMAIN rxQueue[i] : rxQueue[i][j] = rxQueue[i][1]

\* Answers are queued in the order of their requests, at most one for each,
\* and none for a request not yet copied out of rxBuf.
AnswersInOrder ==
    LET answers == {i \in 1..Len(txQueue) : txQueue[i][1].number > 0}
        Number(i) == txQueue[i][1].number
    IN  /\ \A i, j \in answers : i < j => Number(i) < Number(j)
        /\ \A i \in answers : Number(i) <= request.number

\* What poll returns without having answered is nothing: every call it has
\* executed was followed by an attempt to send the response (lines 134-135:
\* "Process any incoming packets").
AnswersEveryCall == pc["poll"] = "idle" => unanswered = {}
=============================================================================
