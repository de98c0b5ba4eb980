----------------------------- MODULE FreeRtosDemo -----------------------------
(***************************************************************************)
(* FreeRTOS-Demo: Ccf driven by two tasks and one UART.                    *)
(*                                                                         *)
(*  - rpc-task.cpp: poll, start the transmitter if there is output, wait   *)
(*    for a notification or a timeout, and again;                          *)
(*  - log-task.cpp: after a delay lock, log, unlock and, if the message    *)
(*    was queued, start the transmitter;                                   *)
(*  - ccf-uart0.cpp: the interrupt gives received bytes to Ccf, notifies   *)
(*    the RPC task at a delimiter and, when a character has gone, sends    *)
(*    the next one; commsCcfTxAvailable sends the first one if none is     *)
(*    going, in a critical section that holds the interrupt off.           *)
(*                                                                         *)
(* The tasks' calls of Ccf are the steps of module Ccf; this module says   *)
(* when each is made and what follows it.  An interrupt is one step.       *)
(*                                                                         *)
(* The UART is external: it takes one character at a time, loses one it is *)
(* given too early and raises its interrupt when a character has gone.     *)
(***************************************************************************)
EXTENDS Ccf

CONSTANT Echo  \* debug build: received bytes are sent back

ASSUME EchoAssumption == Echo \in BOOLEAN

VARIABLES
    rpcTask,      \* has xTaskCreateStatic returned the task's handle?
    rpc,          \* what the RPC task does next
    notification, \* its direct-to-task notification (taken all at once)
    log,          \* what the log task does next
    txBusy,       \* a character is about to be sent or being sent
    toTx,         \* how many bytes of the frame held have been sent
    shifting,     \* the UART is sending a character
    txInterrupt,  \* its transmit interrupt is pending
    line,         \* history: what was sent since the last delimiter, with it
    lineEnd       \* history: the last byte of line is a delimiter

taskVars == <<rpcTask, rpc, notification, log>>
uartVars == <<txBusy, toTx, shifting, txInterrupt, line, lineEnd>>
demoVars == <<vars, taskVars, uartVars>>

\* The same for the demo: txBuf's slots are counted rightly when its frames go
\* out byte by byte (ccf-uart0.cpp:51-72).
DemoTypeOK ==
    /\ TypeOK
    /\ rpcTask \in BOOLEAN
    /\ rpc \in {"poll", "start", "wait"}
    /\ notification \in BOOLEAN
    /\ log \in {"delay", "start"}
    /\ txBusy \in BOOLEAN
    /\ toTx \in Nat
    /\ shifting \in BOOLEAN /\ txInterrupt \in BOOLEAN
    /\ line \in Seq(Contents)
    /\ lineEnd \in BOOLEAN

DemoInit ==
    /\ Init
    /\ rpcTask = FALSE /\ rpc = "poll" /\ notification = FALSE
    /\ log = "delay"
    /\ txBusy = FALSE /\ toTx = 0
    /\ shifting = FALSE /\ txInterrupt = FALSE
    /\ line = << >> /\ lineEnd = TRUE

-----------------------------------------------------------------------------
(* The UART and its interrupt *)

\* UARTCharPutNonBlocking: a character given while another is being sent is
\* lost.
CharPut(c, isDelimiter) ==
    IF shifting THEN UNCHANGED <<shifting, line, lineEnd>>
    ELSE /\ shifting' = TRUE
         /\ line' = IF lineEnd THEN <<c>> ELSE Append(line, c)
         /\ lineEnd' = isDelimiter

CharGone ==
    /\ shifting
    /\ shifting' = FALSE
    /\ txInterrupt' = TRUE
    /\ UNCHANGED <<vars, taskVars, txBusy, toTx, line, lineEnd>>

\* Mutant of LastByte: the frame is let go one byte early.
LastByteEarly(frame) == toTx + 2 >= Len(frame)

\* toTx->begin() has reached toTx->end() once this byte is sent.
LastByte(frame) == toTx + 1 = Len(frame)

\* commsCcfTxNext, with whether txBusy is set otherwise: take a frame if none
\* is held, send its next byte, and let the frame go after its last.
TxNext(busy) ==
    \/ /\ txTaken = << >>
       /\ txLost \/ txQueue = << >>
       /\ txBusy' = busy
       /\ UNCHANGED <<txVars, toTx, shifting, line, lineEnd>>
    \/ /\ txTaken # << >> \/ (~txLost /\ txQueue # << >>)
       /\ txBusy' = TRUE
       /\ LET frame == Head(txQueue)
              last  == LastByte(frame)
          IN  /\ CharPut(frame[toTx + 1], last)
              /\ toTx' = IF last THEN 0 ELSE toTx + 1
              /\ txTaken' = IF last THEN << >> ELSE <<frame>>
              /\ txQueue' = IF last THEN Tail(txQueue) ELSE txQueue
              /\ txUsed' = IF last THEN txUsed - (Len(frame) + 1) ELSE txUsed
       /\ UNCHANGED <<txOpen, txLost>>

\* Mutant of TxDone: txBusy is not cleared.
TxDoneStaysBusy ==
    /\ txInterrupt
    /\ txInterrupt' = FALSE
    /\ TxNext(txBusy)
    /\ UNCHANGED <<rxVars, incoming, threadVars, taskVars>>

\* The transmit half of commsCcfUartIsr, commsCcfTxDone.
TxDone ==
    /\ txInterrupt
    /\ txInterrupt' = FALSE
    /\ TxNext(FALSE)
    /\ UNCHANGED <<rxVars, incoming, threadVars, taskVars>>

\* Mutant of TxAvailable: txBusy is not looked at.
TxAvailableAlways ==
    /\ TxNext(FALSE)
    /\ UNCHANGED <<rxVars, incoming, threadVars, txInterrupt>>

\* commsCcfTxAvailable, called by a task.
TxAvailable ==
    /\ \/ ~txBusy /\ TxNext(FALSE)
       \/ txBusy /\ UNCHANGED <<txVars, txBusy, toTx, shifting, line, lineEnd>>
    /\ UNCHANGED <<rxVars, incoming, threadVars, txInterrupt>>

\* The receive half of commsCcfUartIsr, commsCcfRx, for one byte.
EchoByte(isDelimiter) ==
    /\ IF Echo THEN CharPut(Holding("request", incoming.number), isDelimiter)
       ELSE UNCHANGED <<shifting, line, lineEnd>>
    /\ UNCHANGED <<txBusy, toTx, txInterrupt>>

RxByte ==
    /\ ReceiveByte
    /\ EchoByte(FALSE)
    /\ UNCHANGED taskVars

\* Mutant of RxDelimiter: nobody is notified.
RxDelimiterSilent ==
    /\ ReceiveDelimiter
    /\ EchoByte(TRUE)
    /\ UNCHANGED taskVars

\* No notification before the task has a handle.
RxDelimiter ==
    /\ ReceiveDelimiter
    /\ EchoByte(TRUE)
    /\ notification' = (notification \/ rpcTask)
    /\ UNCHANGED <<rpcTask, rpc, log>>

-----------------------------------------------------------------------------
(* commsCcfRpcTask *)

RpcCreated ==
    /\ ~rpcTask
    /\ rpcTask' = TRUE
    /\ UNCHANGED <<vars, rpc, notification, log, uartVars>>

RpcPoll ==
    /\ rpcTask /\ rpc = "poll"
    /\ \/ Poll \/ PollRelease \/ PollGet \/ PollCopy \/ PollCheck \/ PollCall
       \/ SendPush("poll") \/ PollSent \/ PollErrorPush \/ PollErrorNotify
    /\ UNCHANGED <<taskVars, uartVars>>

RpcPollReturn ==
    /\ PollReturn
    /\ rpc' = IF output THEN "start" ELSE "wait"
    /\ UNCHANGED <<rpcTask, notification, log, uartVars>>

RpcStartTx ==
    /\ rpc = "start"
    /\ rpc' = "wait"
    /\ TxAvailable
    /\ UNCHANGED <<rpcTask, notification, log>>

RpcNotified ==
    /\ rpc = "wait" /\ notification
    /\ rpc' = "poll"
    /\ notification' = FALSE
    /\ UNCHANGED <<vars, rpcTask, log, uartVars>>

RpcTimeout ==
    /\ rpc = "wait" /\ ~notification
    /\ rpc' = "poll"
    /\ UNCHANGED <<vars, rpcTask, notification, log, uartVars>>

-----------------------------------------------------------------------------
(* logTask *)

LogLog ==
    /\ log = "delay"
    /\ LogLock \/ LogFormat \/ SendPush("log")
    /\ UNCHANGED <<taskVars, uartVars>>

\* Mutant of LogReturn: the transmitter is not started.
LogReturnIdle ==
    /\ LogSent
    /\ UNCHANGED <<taskVars, uartVars>>

LogReturn ==
    /\ LogSent
    /\ log' = IF txLost THEN "delay" ELSE "start"
    /\ UNCHANGED <<rpcTask, rpc, notification, uartVars>>

LogStartTx ==
    /\ log = "start"
    /\ log' = "delay"
    /\ TxAvailable
    /\ UNCHANGED <<rpcTask, rpc, notification>>

-----------------------------------------------------------------------------
RpcNext == RpcPoll \/ RpcPollReturn \/ RpcStartTx \/ RpcNotified
LogTaskNext == LogLog \/ LogReturn \/ LogStartTx
UartNext == CharGone \/ TxDone
RxNext == RxByte \/ RxDelimiter

DemoNext ==
    \/ RpcCreated
    \/ RpcNext
    \/ RpcTimeout
    \/ LogTaskNext
    \/ UartNext
    \/ RxNext

DemoSpec == DemoInit /\ [][DemoNext]_demoVars

-----------------------------------------------------------------------------
(* Safety *)

\* The demo's transmitter and tasks use Ccf as its header asks: every step of
\* the demo is a step of Ccf or leaves it alone (one caller of poll, one
\* transmitter, frames taken oldest first and given back once).
UsesCcf == Spec

\* What is on the line between two delimiters is one whole message: nothing
\* is lost to a busy UART, sent twice, or put into the middle of a frame
\* (lines 22-25 and 82-84 of ccf-uart0.cpp).
LineWhole ==
    /\ \A i \in DOMAIN line : line[i] = line[1]
    /\ line # << >> /\ line[1].what \in Messages =>
           (lineEnd <=> Len(line) = TxLength[line[1].what])

\* "When this is set, we are either about to send a character, or the callback
\* hasn't arrived yet" (ccf-uart0.cpp:22-24), and conversely; and a frame half
\* sent always has a character under way, so that the interrupt goes on with
\* it without anybody's help.
BusyMeansSending ==
    /\ txBusy <=> shifting \/ txInterrupt
    /\ ~(shifting /\ txInterrupt)
    /\ txTaken # << >> => txBusy

-----------------------------------------------------------------------------
(* Liveness.  The tasks have equal priority and are time-sliced, so a call *)
(* that has begun goes on; a task that waits for the mutex gets it, for its *)
(* holder sleeps between two calls.  The UART sends what it is given and    *)
(* its interrupts are taken.  The host completes a request it has begun.    *)
(* Nothing is assumed of the RPC task's timeout, nor that the log task logs *)
(* again.                                                                   *)

LogContinues == LogTaskNext /\ (pc["log"] # "idle" \/ log = "start")
HostContinues == RxNext /\ incoming.left < RxLength[incoming.kind]

Fairness ==
    /\ WF_demoVars(RpcCreated)
    /\ SF_demoVars(RpcNext)
    /\ WF_demoVars(LogContinues)
    /\ WF_demoVars(CharGone)
    /\ WF_demoVars(TxDone)
    /\ WF_demoVars(HostContinues)

DemoFairSpec == DemoSpec /\ Fairness

\* The log task logs every second and the RPC task's timeout comes.
BusyDemoSpec ==
    DemoFairSpec /\ SF_demoVars(LogTaskNext) /\ SF_demoVars(RpcTimeout)

\* A request in rxBuf is taken by poll, though poll may have looked before its
\* delimiter, while a later one was being dropped, or before the task had a
\* handle to notify: the notification suffices, without the timeout.
RequestIsPolled == rxQueue # << >> ~> rxTaken # << >>

\* The transmitter does not stop while packets are queued, as long as no
\* message is dropped: whoever queues one when the last character has just
\* gone starts it again.
TransmitterRuns ==
    []~txLost => ((txQueue # << >> /\ txTaken = << >>) ~> txTaken # << >>)

\* The same though messages are dropped: "you should call the function to send
\* messages from the queue" only if send has succeeded (ccf.hpp:219-221).
QueuedIsSent == (txQueue # << >> /\ txTaken = << >>) ~> txTaken # << >>
=============================================================================
