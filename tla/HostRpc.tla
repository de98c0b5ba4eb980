-------------------------------- MODULE HostRpc --------------------------------
(***************************************************************************)
(* The host, python/comms_ccf: StreamTransport, which cuts what it reads   *)
(* into packets; Channels, whose loop sorts them into a queue for each     *)
(* channel; Rpc, whose calls wait for the answer with their own sequence   *)
(* number; print_logs, which reads the other queue.                        *)
(*                                                                         *)
(* A step is what a coroutine does between two awaits.  The device is what *)
(* Ccf shows of it: it takes requests in order and answers each with a     *)
(* packet, with an error text, or not at all, and logs when it likes.      *)
(*                                                                         *)
(* A byte is represented by the message it belongs to and its place there; *)
(* a packet is whole when it is all the bytes of one message, in order:    *)
(* that is what COBS and the checksum tell.                                *)
(***************************************************************************)
EXTENDS Integers, Sequences, FiniteSets

CONSTANTS
    Callers,    \* coroutines that call
    SeqCount,   \* sequence numbers: 128, the even bytes
    NumbersReused, \* may a number be used again before its last use is over?
    FrameSize,  \* bytes of a packet, and of an error text, before the delimiter
    MaxBuffer,  \* MAX_PKT_SIZE
    MaxCalls,   \* bound: calls in one behaviour
    MaxLogs,    \* bound: log messages
    MaxLine,    \* bound: bytes on their way to the host
    MaxFaults   \* bound: lost answers, error texts and faults of the line

ASSUME HostRpcAssumption ==
    /\ SeqCount \in Nat \ {0}
    /\ NumbersReused \in BOOLEAN
    /\ FrameSize \in Nat \ {0}
    /\ MaxBuffer \in Nat \ {0}
    /\ MaxCalls \in Nat /\ MaxLogs \in Nat /\ MaxLine \in Nat /\ MaxFaults \in Nat

VARIABLES
    asked,       \* by caller: the call it waits for, or 0
    result,      \* by caller: its last call and the one whose answer it took, or 0
    calls,       \* calls so far; the last one's number
    toDevice,    \* requests on their way
    logs,        \* log messages so far
    fromDevice,  \* bytes on their way
    closed,      \* has the device's side been closed?
    rxBuf,       \* StreamTransport._rxBuf
    loop,        \* Channels.loop: "running", "ended" (EOF) or "stopped" (exception)
    rpcQueue,    \* answers
    logQueue,    \* log messages
    printed,     \* log messages that print_logs has had
    harmed,      \* history: calls whose answer was lost, or taken by another call
    disturbed,   \* history: has anything but whole packets been read?
    faults       \* lost answers, error texts and faults of the line so far

callVars == <<asked, result, calls>>
deviceVars == <<toDevice, logs, fromDevice, closed>>
receiveVars == <<rxBuf, loop, rpcQueue, logQueue, disturbed>>
vars == <<callVars, deviceVars, receiveVars, printed, harmed, faults>>

SeqNo(n) == n % SeqCount

Answer(n) == [channel |-> "rpc", number |-> n]
LogMessage(n) == [channel |-> "log", number |-> n]
ErrorText == [channel |-> "none", number |-> 0]

\* Answers to calls in S, and anything else that may be on the line.
Messages(S) == [channel : {"rpc"}, number : S] \cup [channel : {"log", "none"}, number : Nat]

Zero == [message |-> ErrorText, place |-> 0]
Garbage == [message |-> ErrorText, place |-> FrameSize + 1]
Bytes(S) == [message : Messages(S), place : 0..(FrameSize + 1)]

Body(m) == [i \in 1..FrameSize |-> [message |-> m, place |-> i]]

\* The numbers that calls after n - SeqCount and up to n have.
Window(n) == (n - SeqCount + 1)..n

Waiting(c) == asked[c] # 0

Init ==
    /\ asked = [c \in Callers |-> 0]
    /\ result = [c \in Callers |-> [asked |-> 0, answered |-> 0]]
    /\ calls = 0
    /\ toDevice = << >> /\ fromDevice = << >>
    /\ logs = 0
    /\ closed = FALSE
    /\ rxBuf = << >>
    /\ loop = "running"
    /\ rpcQueue = << >> /\ logQueue = << >>
    /\ printed = << >>
    /\ harmed = {}
    /\ disturbed = FALSE
    /\ faults = 0

-----------------------------------------------------------------------------
(* Rpc.__call__ *)

\* All calls that wait, and all requests and answers under way, are in S.
UnderWay(S) ==
    /\ asked \in [Callers -> S \cup {0}]
    /\ toDevice \in Seq(S) /\ rpcQueue \in Seq(S)
    /\ fromDevice \in Seq(Bytes(S)) /\ rxBuf \in Seq(Bytes(S))

\* A call, its request and its answer are gone when the number is used again,
\* SeqCount calls later.  Nothing in the code sees to it: it is an assumption,
\* which NumbersReused lifts.
NumberIsFree == UnderWay(Window(calls + 1))

\* The next number is taken, whatever has become of its last use, and the request
\* written before the first await.
Call(c) ==
    /\ ~Waiting(c)
    /\ calls < MaxCalls
    /\ NumbersReused \/ NumberIsFree
    /\ calls' = calls + 1
    /\ asked' = [asked EXCEPT ![c] = calls + 1]
    /\ result' = [result EXCEPT ![c] = [asked |-> 0, answered |-> 0]]
    /\ toDevice' = Append(toDevice, calls + 1)
    /\ UNCHANGED <<logs, fromDevice, closed, receiveVars, printed, harmed, faults>>

\* Mutant of IsFor: whatever comes is taken for the answer.
IsForAny(answer, n) == answer \in Nat /\ n \in Nat

\* data[0] is the call's sequence number + 1, which the device has made of the
\* request's.
IsFor(answer, n) == SeqNo(answer) = SeqNo(n)

\* Mutant of Take: a message with another number is not removed.
TakeOwn(c) ==
    /\ Waiting(c) /\ rpcQueue # << >>
    /\ IF IsFor(Head(rpcQueue), asked[c])
       THEN /\ result' = [result EXCEPT ![c] = [asked |-> asked[c], answered |-> Head(rpcQueue)]]
            /\ asked' = [asked EXCEPT ![c] = 0]
            /\ rpcQueue' = Tail(rpcQueue)
       ELSE UNCHANGED <<result, asked, rpcQueue>>
    /\ UNCHANGED <<calls, deviceVars, rxBuf, loop, logQueue, disturbed, printed, harmed, faults>>

\* Channels.recv gives a message to any of the calls that wait, and a call
\* throws away the messages that are not for it.
Take(c) ==
    /\ Waiting(c) /\ rpcQueue # << >>
    /\ rpcQueue' = Tail(rpcQueue)
    /\ IF IsFor(Head(rpcQueue), asked[c])
       THEN /\ result' = [result EXCEPT ![c] = [asked |-> asked[c], answered |-> Head(rpcQueue)]]
            /\ asked' = [asked EXCEPT ![c] = 0]
            /\ UNCHANGED harmed
       ELSE /\ harmed' = harmed \cup {Head(rpcQueue)}
            /\ UNCHANGED <<result, asked>>
    /\ UNCHANGED <<calls, deviceVars, rxBuf, loop, logQueue, disturbed, printed, faults>>

\* asyncio.timeout, or the exception of a queue that has been shut down.
GiveUp(c) ==
    /\ Waiting(c)
    /\ asked' = [asked EXCEPT ![c] = 0]
    /\ UNCHANGED <<result, calls, deviceVars, receiveVars, printed,
                   harmed, faults>>

CallEnds(c) == loop = "ended" /\ rpcQueue = << >> /\ GiveUp(c)

-----------------------------------------------------------------------------
(* Device and line *)

DeviceUnchanged ==
    UNCHANGED <<callVars, receiveVars, printed>>

Transmit(bytes) ==
    /\ ~closed /\ Len(fromDevice) + Len(bytes) <= MaxLine
    /\ fromDevice' = fromDevice \o bytes

DeviceAnswers ==
    /\ toDevice # << >>
    /\ toDevice' = Tail(toDevice)
    /\ Transmit(Append(Body(Answer(Head(toDevice))), Zero))
    /\ UNCHANGED <<logs, closed, harmed, faults>> /\ DeviceUnchanged

\* The request is lost, or its answer is dropped.
DeviceSilent ==
    /\ toDevice # << >> /\ faults < MaxFaults
    /\ toDevice' = Tail(toDevice)
    /\ harmed' = harmed \cup {Head(toDevice)}
    /\ faults' = faults + 1
    /\ UNCHANGED <<logs, closed, fromDevice>> /\ DeviceUnchanged

\* poll's error texts are copied with their terminating zero, and another is
\* pushed after it.
DeviceError ==
    /\ toDevice # << >> /\ faults < MaxFaults
    /\ toDevice' = Tail(toDevice)
    /\ Transmit(Body(ErrorText) \o <<Zero, Zero>>)
    /\ harmed' = harmed \cup {Head(toDevice)}
    /\ faults' = faults + 1
    /\ UNCHANGED <<logs, closed>> /\ DeviceUnchanged

DeviceLogs ==
    /\ logs < MaxLogs
    /\ logs' = logs + 1
    /\ Transmit(Append(Body(LogMessage(logs + 1)), Zero))
    /\ UNCHANGED <<toDevice, closed, harmed, faults>> /\ DeviceUnchanged

DeviceCloses ==
    /\ ~closed
    /\ closed' = TRUE
    /\ UNCHANGED <<toDevice, logs, fromDevice, harmed, faults>> /\ DeviceUnchanged

\* A byte is lost, or becomes another one.
LineFault ==
    /\ faults < MaxFaults
    /\ faults' = faults + 1
    /\ disturbed' = TRUE
    /\ \E i \in 1..Len(fromDevice) :
          \/ fromDevice' = SubSeq(fromDevice, 1, i - 1)
                               \o SubSeq(fromDevice, i + 1, Len(fromDevice))
          \/ \E byte \in {Zero, Garbage} : fromDevice' = [fromDevice EXCEPT ![i] = byte]
    /\ UNCHANGED <<callVars, toDevice, logs, closed, rxBuf, loop, rpcQueue, logQueue,
                   printed, harmed>>

-----------------------------------------------------------------------------
(* StreamTransport.recv and Channels.loop *)

ReceiveUnchanged == UNCHANGED <<callVars, toDevice, logs, closed, printed,
                                harmed, faults>>

\* An exception of recv: the loop raises it again, unless it has been started
\* with --debug.
Exception ==
    /\ loop' \in {loop, "stopped"}
    /\ disturbed' = TRUE
    /\ UNCHANGED <<rpcQueue, logQueue>>

\* rxBuf.find(0) finds the first zero; a zero at the very beginning is as good
\* as none.
FirstZero(i) == /\ i \in 2..Len(rxBuf) /\ rxBuf[i] = Zero
                /\ \A j \in 1..(i - 1) : rxBuf[j] # Zero

HasPacket == \E i \in 2..Len(rxBuf) : FirstZero(i)

\* Size, COBS and checksum are right.
Whole(data) == data = Body(data[1].message) /\ data[1].message # ErrorText

\* Mutant of After: what was read with a packet goes with it.
AfterNone(i) == SubSeq(rxBuf, i, i - 1)

\* Mutant of After: the packet stays in the buffer.
AfterAll(i) == rxBuf

\* What stays in the buffer.
After(i) == SubSeq(rxBuf, i + 1, Len(rxBuf))

Dispatch(m) ==
    /\ rpcQueue' = IF m.channel = "rpc" THEN Append(rpcQueue, m.number) ELSE rpcQueue
    /\ logQueue' = IF m.channel = "log" THEN Append(logQueue, m.number)
                   ELSE logQueue
    /\ UNCHANGED <<loop, disturbed>>

Receive ==
    /\ loop = "running"
    /\ \E i \in 2..Len(rxBuf) :
          /\ FirstZero(i)
          /\ rxBuf' = After(i)
          /\ LET data == SubSeq(rxBuf, 1, i - 1)
             IN  IF Whole(data) THEN Dispatch(data[1].message) ELSE Exception
    /\ UNCHANGED fromDevice /\ ReceiveUnchanged

\* Mutant of Overfull: off by one.
OverfullLate(size) == size > MaxBuffer

Overfull(size) == size >= MaxBuffer

\* A buffer that is too long is thrown away, whatever is in it: a part of a
\* packet that is too long, or several packets that have come at once.
Read(n) ==
    /\ loop = "running" /\ ~HasPacket
    /\ n \in 1..Len(fromDevice) /\ n <= MaxBuffer
    /\ fromDevice' = SubSeq(fromDevice, n + 1, Len(fromDevice))
    /\ IF Overfull(Len(rxBuf) + n)
       THEN rxBuf' = << >> /\ Exception
       ELSE /\ rxBuf' = rxBuf \o SubSeq(fromDevice, 1, n)
            /\ UNCHANGED <<loop, disturbed, rpcQueue, logQueue>>
    /\ ReceiveUnchanged

\* The end of the stream ends the loop and shuts the queues down, but an
\* unfinished packet is an exception like any other.
ReadEnd ==
    /\ loop = "running" /\ ~HasPacket
    /\ closed /\ fromDevice = << >>
    /\ IF rxBuf = << >>
       THEN loop' = "ended" /\ UNCHANGED <<disturbed, rpcQueue, logQueue>>
       ELSE Exception
    /\ UNCHANGED <<rxBuf, fromDevice>> /\ ReceiveUnchanged

\* print_logs
PrintLog ==
    /\ logQueue # << >>
    /\ printed' = Append(printed, Head(logQueue))
    /\ logQueue' = Tail(logQueue)
    /\ UNCHANGED <<callVars, deviceVars, rxBuf, loop, rpcQueue, disturbed, harmed, faults>>

-----------------------------------------------------------------------------
Device == DeviceAnswers \/ DeviceSilent \/ DeviceError \/ DeviceLogs \/ DeviceCloses

Host == Receive \/ (\E n \in 1..MaxBuffer : Read(n)) \/ ReadEnd

Next ==
    \/ \E c \in Callers : Call(c) \/ Take(c) \/ GiveUp(c) \/ CallEnds(c)
    \/ Device \/ LineFault \/ Host \/ PrintLog

\* Coroutines that can go on do, and so does the device.  A call that waits
\* need not time out, but the end of the stream ends it.
Spec ==
    /\ Init /\ [][Next]_vars
    /\ WF_vars(DeviceAnswers) /\ WF_vars(Host) /\ WF_vars(PrintLog)
    /\ \A c \in Callers : WF_vars(Take(c)) /\ WF_vars(CallEnds(c))

-----------------------------------------------------------------------------
(* Properties *)

\* The type of what is not under way.
RestTyped ==
    /\ result \in [Callers -> [asked : Nat, answered : Nat]]
    /\ calls \in 0..MaxCalls /\ logs \in 0..MaxLogs /\ faults \in 0..MaxFaults
    /\ Len(rxBuf) < MaxBuffer
    /\ logQueue \in Seq(Nat) /\ printed \in Seq(Nat)
    /\ loop \in {"running", "ended", "stopped"}
    /\ closed \in BOOLEAN /\ disturbed \in BOOLEAN
    /\ harmed \subseteq Nat

\* The calls whose requests and answers there may be.
Recent == IF NumbersReused THEN Nat ELSE Window(calls) \cap Nat

\* Requests and answers are those of the last SeqCount calls, unless numbers are
\* reused, everything else has its type, and the buffer stays below MAX_PKT_SIZE.
TypeOK == UnderWay(Recent) /\ RestTyped

\* A call that returns has the answer to its own request, though answers to calls
\* that timed out come late and others are calling.  In particular rpc.py's
\* assertion that the answer is to the same function holds.  It takes
\* ~NumbersReused: an answer that comes SeqCount calls late is taken for another.
RightAnswer == \A c \in Callers : result[c].answered = result[c].asked

\* Each log message is printed at most once, and in the order in which the
\* device has sent them, whatever happens on the line.
LogsInOrder ==
    LET got == printed \o logQueue
    IN  \A i, j \in 1..Len(got) : i < j => got[i] < got[j]

\* A log message is on its way as long as its first byte is.
StartsLog(byte) == byte.place = 1 /\ byte.message.channel = "log"

\* As long as nothing but packets has come and they have not come too many at
\* once, no log message is lost: each is printed, in the queue or on the way,
\* once and in order (StreamTransport.recv, Channels.loop, print_logs).
\* The docstring of channel.py says otherwise, "the channels only remember the
\* latest message"; its code has a queue.
LogsKept ==
    LET got == printed \o logQueue
        line == rxBuf \o fromDevice
        begun == {j \in 1..Len(line) : StartsLog(line[j])}
    IN  ~disturbed =>
            /\ \A i \in 1..Len(got) : got[i] = i
            /\ {line[j].message.number : j \in begun} = (Len(got) + 1)..logs
            /\ \A j, k \in begun : j < k => line[j].message.number < line[k].message.number

\* A call gets its answer if it does not time out, unless the request or answer
\* was lost, another call took it, or the line has been disturbed.  Answers to
\* earlier calls do not stand in its way, and the end of the stream ends it.
CallIsAnswered ==
    \A c \in Callers :
        Waiting(c) ~> (~Waiting(c) \/ asked[c] \in harmed \/ disturbed)
=============================================================================
