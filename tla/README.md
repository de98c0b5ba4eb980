# A verification development for comms-ccf

TLA+ modules of the Communications Control Framework in this repository: the
embedded library under `comms-ccf/`, the FreeRTOS demo that uses it, and the
host's side under `python/comms_ccf/`. TLC checks them on small instances, TLAPS
proves the main facts for every instance.
`PROJECT.json` lists the runs, the mutants that show each property can fail, the
source lines behind each definition, the findings, the hazards and the theorems.

To check: `tlc -config CircularBuffer.cfg MCCircularBuffer`, and likewise for
each run; `tlapm CircularBuffer_proofs.tla`, and likewise for `FrameQueue_proofs`,
`CobsLink_proofs`, `Ccf_proofs`, `FreeRtosDemo_proofs`, `HostRpc_proofs`, `Cbor_proofs`
and `CcfPackets_proofs`. Each takes a few minutes at most.

## The system

A host (Python) calls functions of a device over a serial line. The device
answers and, on its own account, sends log messages.

    host --line--> receiveCharacter --> rxBuf --> poll --> rpc.call --+
                   (UART interrupt)            (RPC task)             |
                                                                    send
    host <--line-- charactersToSend <-- txBuf <-----------------------+
                   (UART interrupt)                                   |
                                                        log (log task)

| Component | State | Operations | What makes it correct |
|---|---|---|---|
| Circular buffer, `comms-ccf/circular_buffer.hpp` | slots, the cursors `read`, `notified`, `write`, the flag `dropped` | producer: `push_back`, `reset_dropped`, `notify`; consumer: `get_frame`, `~Frame`; both: `reset` | a FIFO of whole packets: nothing torn, reordered, overwritten before it is given back, or lost without being refused |
| COBS, `comms-ccf/cobs.cpp`, `.hpp` | encoder: run, index, header sent; decoder: run length, last run was the longest | `findRunLength`, `*`, `++`, `!=`; `feed`, `get`, constructor | decoding undoes encoding; no zero inside a packet; back in step at the next delimiter |
| `Ccf`, `comms-ccf/ccf.hpp` | `txBuf`, `rxBuf`, `decoder`, `pktBuf` | `receiveCharacter`, `charactersToSend`, `poll`, `send`, `log` | whole messages in both directions, answers in the order of requests; an answer or an error for each request and neither for a damaged one; a log message is read as it was logged |
| UART interrupt and tasks, `FreeRTOS-Demo/` | `txBusy`, `toTx`, task notification, mutex | receive and transmit interrupt, `commsCcfTxAvailable`, the two task loops | no character overtakes another; no wake-up is lost; the transmitter does not stop with work queued |
| Mutex wrapper, `FreeRTOS-Demo/mutex.hpp` | a FreeRTOS mutex; guards that own it | `lock`, `lock(timeout)`, `unlock` | one owner at a time, released once |
| CBOR, `comms-ccf/cbor.*` | none (pure) | encode and decode by type | decoding undoes encoding; no read beyond the span |
| RPC dispatch, `comms-ccf/rpc.hpp` | a fixed table | `Call::call`, `Rpc::call`, schema | the right function with the right arguments, or an error |
| Checksum, `comms-ccf/fnv1a.hpp` | none (pure) | `checksum`, `putAtEnd`, `checkAtEnd` | a damaged packet is told from a whole one |
| Host transport, channels, `python/comms_ccf/` | receive buffer, a queue per channel | `send`, `recv`, `loop` | resynchronises after rubbish, one queue entry per packet, the end of the stream reaches every waiting call |
| Host RPC client, `print_logs` | sequence number | `__call__`, discovery; printing | a call gets the answer to its own request; log messages once and in order |
| REPL, connectors, map-file tools | -- | -- | presentation and I/O |

### Interactions and what is hard about them

* *Two actors on one buffer without a lock.* The interrupt is `rxBuf`'s producer
  and `txBuf`'s consumer. Each operation of the buffer is several accesses to
  variables the other side changes, and only their order makes it work. The
  cursors wrap, independently of the slots and of each other.
* *A packet is visible all at once.* `push_back` may find out in the middle that
  the packet does not fit; then all of it goes, and the flag that says so is
  read by the consumer.
* *Two threads on one `Ccf`.* `poll` and `log` share `pktBuf` and `txBuf`'s
  producer side. The library leaves locking to its user.
* *The transmit handshake.* Two tasks and the interrupt decide who sends the
  next character. Each may run when another has just decided that there is
  nothing to do.
* *Wake-ups.* The receive interrupt may run between the poll that found nothing
  and the wait that follows it.
* *The line.* Bytes are lost, garbled or added; only delimiters bring sender and
  receiver back together.
* *One buffer for everything.* `poll` decodes the arguments out of `pktBuf` while
  it encodes the result into it, over what earlier packets left there.
* *The host's coroutines.* Calls at the same time wait on one queue, and each
  throws away what is not its own; answers come after their calls have timed out,
  and sequence numbers come round again.
* *Bounds.* Full buffers, packets of the greatest length, runs of exactly 254
  bytes, lengths that just do not fit a byte. `pktBuf` and `txBuf` have the same
  limit, `maxPktSize`, but `txBuf` is given two bytes more.

`PROJECT.json` ("hazards") gives each at its line with the properties about it.

## The modules

    FrameQueue            what the buffer promises: a FIFO of whole packets
      FrameQueue_proofs           its packets fit its slots
      ^  implemented by
    CircularBuffer        circular_buffer.hpp, access by access
      CircularBuffer_proofs       its inductive invariant; it implements FrameQueue

    Cobs                  encoder and decoder as operators
    CobsLink              one encoder, a faulty line, one decoder
      CobsLink_proofs             in step, and so the round trip

    Fnv1a                 the checksum
    Cbor                  values to bytes and back
    RpcDispatch           EXTENDS Cbor: the schema and the call by number
    DemoCalls             EXTENDS Cbor: the demo's table of functions
    CcfPackets            EXTENDS RpcDispatch: poll and log, byte by byte
      Cbor_proofs                 what the operators of these modules return
      CcfPackets_proofs           poll and log stay in their buffer, and say what they mean

    Ccf                   two FrameQueues, the interrupts, poll and log
      Ccf_proofs                  whole messages, answers in order
    FreeRtosDemo          EXTENDS Ccf: when tasks and interrupts make the calls
      FreeRtosDemo_proofs         the handshake, the line, the use of Ccf

    HostRpc               the host: transport, channels, calls, logs
      HostRpc_proofs              its types, the right answers, log messages once,
                                  in order and all

    MC...                 the instances TLC checks

**FrameQueue** is abstract: the open packet, the published packets, the packet
the consumer holds, whether an element was refused, and how many slots are
taken. `Accept`, `Refuse`, `Publish`, `Discard`, `Take`, `GiveBack`, `Clear` are
its steps. `Push`, `ResetDropped` and `Notify` put them together into whole
calls, for the modules that use the buffer. `Notify` does what the code does when
there is nothing to publish, too (`NotifyNothing`): it writes the length 0 behind
the last packet. That is harmless unless every slot is taken and the oldest packet
is still to be taken; then it is that packet's length (`Spoils`), and the consumer
finds a packet of no elements. What follows from there is not modelled.

**CircularBuffer** has the code's variables under the code's names. A step is one
access to something the other side sees: `PushCheck`, `PushReserve`, `PushStore`
are `push_back` (the check before, the slot for the length and the check after,
the store); `Notify`, `NotifyBump`, `NotifySize`, `NotifyPublish` are `notify`
(`reset_dropped`; `notified++` in the subscript, which the compiler may or may
not let the consumer see; the length; the final assignment); `GetFrame`,
`GetFrameTest`, `GetFrameLoad`, `GetFrameSize` are `get_frame` (the old frame's
destructor; the test of `dropped`; the copy of `notified`; the length byte and
the new frame). Program order is kept, as the header's comment on fences asks.
`packet` remembers where the open packet starts while `notify` is half done;
`queue` is a history variable that no step reads, except to keep itself up to date.
`Reset` may happen only when neither side is in a call and no frame is held.

The cursors are modulo `CursorModulus` (2^32 in the demo's build), the slots
modulo `Size`, the stored length modulo `ByteModulus`.

**Cobs** is the iterator `Encoder` as a record and operators (`FindRunLength`,
`Encoded` for `*`, `Advance` for `++`, `AtEnd`) and the state machine `Decoder`
(`Fed` and `Emits` for `feed`, `Get`). `MaxRunLength` is a constant, 254 in the
code. **CobsLink** sends packets through the encoder into the decoder as
`Ccf::send` and `Ccf::receiveCharacter` do, over a line with up to `MaxFaults`
faults. A *mid-packet* fault may spoil that packet and, if the delimiter is what
was lost, the next.

**Fnv1a**, **Cbor** and **RpcDispatch** are operators. The template `Cbor<T>` is an
operator with the type as a record; what is encoded goes to a *writer* (bytes so
far, room left, still succeeding), what is decoded comes from a *span* (address
and size) in a memory that goes on behind it, so that a read beyond the span is
visible. The word size is a power of `Base`, and so is everything that depends
on it; a floating-point value is its bytes, a type's name in the schema is one
byte. **DemoCalls** is the table of `rpc-task.cpp`, on a memory `ram` in place of
the processor's.

**CcfPackets** gives `Ccf` its bytes. Its state is `pktBuf`, `ram`, what has been
`handled` last and what has been `called` and `sent` for it; `written` is a
history variable, the memory as the host's accepted calls should have left it. A
step is one frame through `poll` (`PollHost`, encoded by the host's own encoder;
`PollDamaged`, the same with a byte changed, added or the end lost;
`PollForeign`, a whole packet whose arguments no encoder makes), or one message
through `log`, with both values of `DEFERRED_FORMATTING`. When `poll` and `log`
run is `Ccf`'s subject, COBS is `CobsLink`'s; but `send` has both of its limits.
`SendFits` is its first test, of `pktBuf`. `Pushed` is what `txBuf` makes of the
packet: its limit is `maxPktSize` too, and the COBS encoding with the delimiter is
two bytes longer than the packet, so that packets of `maxPktSize - 1` and
`maxPktSize` bytes are dropped however empty `txBuf` is.

**Ccf** replaces a byte by a record of the message it belongs to. A packet
mixed from two messages, or cut, is then visible as such, which in the code is the
checksum's task. Each step of `poll` ends where another thread or an interrupt
could see a difference. The frame in `poll` is the C++ local that `get_frame`
drops at the next turn of the loop, hence `PollRelease` before `PollGet`.
`PollLocks` says whether the polling thread takes the mutex. The mutex's `Lock`
blocks, `Unlock` is the guard's destructor.

**HostRpc** has one step for what a coroutine does between two awaits: `Call` is
`Rpc.__call__` up to its first await, `Take` what it does with one message of the
queue, `GiveUp` the time-out; `Read`, `ReadEnd` and `Receive` are
`StreamTransport.recv` with the turn of `Channels.loop` around it. `Call` takes the
next sequence number whatever has become of its last use, as the code does, if the
constant `NumbersReused` is true. If it is false the number must be free
(`NumberIsFree`): an assumption about the time between two uses of a number, 128
calls, of which the code knows nothing. A byte is the
message it belongs to and its place there, and a packet is whole when it is all
bytes of one message in order: that is what COBS and the checksum tell. The
device is `Ccf` seen from outside: it takes requests in order, answers with a
packet, an error text or nothing, logs, and may close. `result`, `harmed` and
`disturbed` are history variables. An exception ends the loop or, if it was
started with `--debug`, does not; both are allowed.

**FreeRtosDemo** keeps `Ccf`'s steps and adds what the demo does before and after
them: the state of both tasks, the notification, and the UART with its busy
flag. It replaces `TakeFrame` and `ReleaseFrame` by `commsCcfTxNext`, character
by character. The UART is external: it holds one character, loses one given to
it too early (`UARTCharPutNonBlocking` then returns false, which the code does
not look at) and raises an interrupt when the character has gone.

## The runs

| Run | Kind | Shows |
|---|---|---|
| `circular_buffer` | pass | types, cursor order, packets intact, frame is the oldest packet, the inductive invariant, refinement of `FrameQueue`; a published packet is handed out to a consumer that keeps asking, unless a packet is being dropped |
| `cobs_link` | pass | round trip, no zero, size bound, encoder and decoder in step, after any placement of faults |
| `ccf_packets` | pass | every call of the host is answered with the function's result for its arguments, or refused, unless the answer is of one of the two largest sizes, and the device's memory is what the accepted calls have made of it; damaged packets run nothing; results fit `pktBuf`; nothing left in `pktBuf` matters; log messages are read as logged or dropped for a reason |
| `largest_answer` | violation | a function has run and the host gets neither its answer, of `maxPktSize - 1` or `maxPktSize` bytes, nor an error |
| `host_rpc` | pass | if no sequence number is used again while something with it is under way, a call has the answer to its own request; log messages come once, in order, and none is lost on an undisturbed line; a call that does not time out ends, with its answer unless that was harmed |
| `ccf` | pass | whole messages in `txBuf` and `rxBuf`, answers in order and at most once |
| `ccf_unlocked` | violation | without the mutex around `poll`, messages mix |
| `ccf_answers` | violation | a second request found by the same `poll` is executed and not answered |
| `error_when_full` | violation | an error text dropped from an exactly full `txBuf` takes the oldest packet with it |
| `freertos_demo` | pass | whole frames on the line, the busy flag is right, and the demo uses `Ccf` as `Ccf`'s model has it; no wake-up is lost: requests are polled, the transmitter goes on |
| `tx_stall` | violation | after a message is dropped the transmitter can stop for good |
| `debug_echo` | violation | the debug build's echo tears a frame on the line |

A *violation* run checks one thing the repository says of itself; `PROJECT.json`
("findings") quotes where. Two of them bound what other runs show:

* `error_when_full`. `notify()` with nothing to publish writes a length all the
  same, on an exactly full buffer over the oldest one. `poll` calls it after each
  error text without asking whether that was dropped (`ccf.hpp:162`, `178`, `202`),
  against the advice of `circular_buffer.hpp:165-167`. Two log messages fill `txBuf` to
  the last slot, a request fails, and the first message's length becomes 0.
* `largest_answer`. A result that takes all of the room `poll` gives it, or all but
  a byte, passes the first test of `send()` and is always dropped at
  `ccf.hpp:251-255`. In the demo that is a `read_mem` of 245 or 246 bytes. A log
  message as long is dropped in the same way, but is only a log message.

In one place the code keeps more than its documentation says. `channel.py:7-11`
describes "a dictionary of futures" and says "The channels only remember the latest
message. An alternative could be using a queue instead of futures." The code has the
queue, without a limit (`channel.py:42`). `LogsKept` (no log message is lost) and
`CallIsAnswered` hold of the code and contradict that docstring: with two messages
queued, which `host_rpc` covers, both are received.

### Bounds, and why they are enough

* `CircularBuffer`: 4 slots, packets of at most 3 elements, cursors modulo 8,
  bytes modulo 4, two values to push. The deployed sizes have the same ratios
  (`ccf-config.cpp:7-11`: 256 slots, packets up to 255, so that one largest
  packet and its length fill the buffer and the length just fits a byte). The
  cursors wrap after two turns, so every position of every cursor relative to
  slot and modulus occurs. The state space is finite and searched whole; no
  bound is put on the number of packets. The theorems remove the bounds.
* `CobsLink`: runs of at most 2 in place of 254 and packets up to 5, so that a
  packet can have two full runs and a rest; 2 faults, one to lose the
  synchronisation and one more while it is lost. The bytes of packets are zero
  and the largest one, which is also the header of a full run.
* `Ccf`: 3 requests (one poll can then find two, and a third arrive meanwhile)
  of every kind, buffers that hold one request and part of a second, or two
  messages and part of a third: both overflow. `TxSize` and the lengths are chosen
  so that no messages fill `txBuf` *exactly*, also in `freertos_demo`: that case is
  `error_when_full`, with log messages and answers one byte longer.
* `CcfPackets`: a byte has 7 bits, words have 4 bytes, and the prime and initial
  hash are small, because TLC's integers have 32 bits; the argument of an item is
  embedded up to 3. Packets of up to 127 bytes are to a byte as the demo's 255
  are. The calls have arguments at and beside each limit of 1, 2, 4 and 8 bytes;
  results and log messages come up to the last byte that fits `txBuf`, the two
  sizes that fit `pktBuf` only, and one beyond. The error texts take 20 bytes at
  most, which `MaxPacket` must hold (`LongestErrorText`).
  There are two packets or messages in a behaviour, the second on top of what the
  first left in `pktBuf` and `ram`: no operation reads more of the past than that.
* `HostRpc`: 3 calls by 2 callers with 2 sequence numbers, so that a number is used
  again and an answer can go to the wrong caller; packets of 2 bytes and a
  delimiter, which can be torn by a read and by a fault; a buffer of 5, which two
  packets overfill; 2 log messages; at most 6 bytes on the line, two packets;
  1 fault, lost answer or error text.
* `FreeRtosDemo`: 2 requests; any number of log messages and timeouts.

### Fairness

* `CircularBuffer`: a call that has begun returns, and the consumer asks again
  and again (`poll` loops; the transmitter asks after every character). Nothing
  is assumed of the producer's starting calls.
* `FreeRtosDemo`: the two tasks have equal priority and are time-sliced, so a
  task that can go on does. A task waiting for the mutex gets it: its holder
  releases it and sleeps for a second before it asks again, so the wait is
  strong fairness of the RPC task and weak fairness of a log call begun. The
  UART sends what it is given, pending interrupts are taken, and the host
  completes a request it has begun. The RPC task's timeout is *not* assumed to
  come, and the log task need not log again, for the two properties that pass:
  notification and handshake alone must suffice. For `tx_stall` both are
  assumed, and still do not help.

* `HostRpc`: a coroutine that can go on does (the event loop is fair), and the
  device answers what it has received. Nothing is assumed of calls being made, of
  log messages, of the device closing, or of *time-outs*: `CallIsAnswered` holds
  without them. The end of the stream ends a waiting call (`queue.shutdown`).

## What is proved

`CircularBuffer_proofs`, for all constants that satisfy the module's assumptions
(a cursor modulus that is a multiple of the size, bytes that hold the elements):

* `TypeCorrect`: `Spec => []TypeOK`.
* `BufferCorrect`: `Spec => []IndInv`, and from it `CursorsNeverCross`,
  `PacketsSafe` (published packets intact) and `FrameIsOldest`. They
  assume `MaxPacketSize < ByteModulus` and `~EmptyNotifyWhenFull`. Neither can be left
  out. `SmallestTypeT` (`types.hpp`) yields one byte for every size, so that the
  length of a packet of 256 or more is cut, and `HeldFrameIsOldest` fails: TLC shows
  it with `Size = 8`, `MaxPacketSize = 5`, `CursorModulus = 16`. The second excludes
  a `notify()` with nothing to publish on a buffer whose slots are all unread, which
  overwrites the oldest length: with `EmptyNotifyWhenFull = TRUE`, `PublishedIntact`
  fails. That `poll` does this is shown by `error_when_full`.

The three properties are not inductive. `IndInv` adds that the published packets
are adjacent from `read` on and in order below the open packet (without it a
store could hit one that `CursorsOrdered` says nothing of), what the producer
knows between two accesses (after a check there is room, and the consumer can
only make more; before the last step of `notify` the length is in its slot), and
what the consumer knows of its copy of `notified` (it is past a published packet
or is the half-done increment that the zero-length test catches). The proof
first replaces all modular arithmetic by facts about distances between cursors
(`AddValue`, `DistanceAdd`, `DistanceBetween`, ...); `SlotDistinct`, that cursors
less than a buffer apart never name the same slot, needs the modulus to be a
multiple of the size. Then there is one lemma per step. `StoreOutside`
is the core: a store at or after the open packet's start and less than `Size`
from `read` hits no published packet.

`Refinement`, in the same module: `Spec => ImplementsFrameQueue` under
the same two assumptions. The open packet and the packet the consumer holds are
read out of the slots, so the mapping says what the two sides would really see,
not what the history says. Each step is matched with one of `FrameQueue`'s or
with none; `PushCheck` or `PushReserve` is where an element is refused,
`PushStore` where it is accepted, `NotifyPublish` where the packet appears,
`GetFrameSize` where it is taken and `~Frame` where it is given back. This is
what allows `Ccf` and `FreeRtosDemo` to treat the buffer's calls as atomic.

`FrameQueue_proofs`: `QueueFits`, for every size. The invariant `Fits` says that
the slots taken are those of the packets, one after another with a length each
(`EndsAt`), and that together with the open packet they are not more than there are.
Without the first part giving a packet back could take more than is left. `Ccf`'s
two buffers are instances of this module, and take its lemmas with them.

`CobsLink_proofs`, for every longest run, packet and number of faults:
`LinkTypeCorrect`, `EncodingDelimited` (no zero inside a packet, and no longer than
`maxEncodedSize`), `LinkInStep` and, from the last, `PacketsRoundTrip`. `InStep` is
inductive only with `AtPlace` (the encoder's run is the one that starts at `base`:
no zero within, and a zero, the packet's end or its greatest length at its end) and
`Counted` (what has been sent is what has been read, one more for each full run and
the header of this run, from which the size bound follows). That a run exists at every place is well-foundedness
of the natural numbers; nothing is proved by induction over packets.

`Ccf_proofs`, for every size, length and number of requests. The invariant is in
four parts:

* `RxRight`: whole requests in `rxBuf`, after them the bytes received so far of the
  one arriving, unless one of them was refused. Hence `RequestsWhole`
  (`Spec => []RxWhole`).
* `ThreadsRight`: where the threads are and what they then have. With it and `Fits`
  of both buffers, `CcfTypeCorrect` (`Spec /\ NeverSpoilt => []TypeOK`).
* `TxRight`, if `poll` takes the mutex: only the owner of the mutex is in a call,
  `pktBuf` holds what it put there, and the open packet is the beginning of its
  message. Hence `MessagesWhole` (`Spec /\ NeverSpoilt => []TxWhole`).
* `RxOrder` and `TxOrder`: requests wait in the order they came in, all later than
  the one `poll` has copied except for the frame it still holds; answers are to
  that one or earlier, and to earlier ones until it is answered. Hence
  `AnswersOrdered` (`Spec /\ NeverSpoilt => []AnswersInOrder`).

The last two assume `PollLocks`; `ccf_unlocked` shows that `MessagesWhole` fails
without it. The first two hold with and without. All but `RequestsWhole` are about
the behaviours with `NeverSpoilt`: no `notify()` that has nothing to publish finds
`txBuf` exactly full and its oldest packet not yet taken. The code does not see to
that, and `error_when_full` shows that `MessagesWhole` fails without it. It is a
condition on the behaviour, since whether messages can fill `txBuf` exactly depends
on all their lengths; sizes for which they cannot, as in the run `ccf`, satisfy it.
`rxBuf` needs no such condition: `receiveCharacter` asks `dropping()` first, and each
request of the host has at least one byte.

`FreeRtosDemo_proofs`: `HandshakeCorrect`, `DemoSpec => []BusyMeansSending`
for builds without the echo: the flag is set exactly while a character is being
sent or its interrupt is pending, and a frame half sent always has a character
under way. It is inductive as it stands; the lemmas show that no step of the
tasks takes a frame except through `commsCcfTxAvailable`. The other three assume
the mutex and that every message has at least two bytes (its channel and the
delimiter; a frame of one byte would be taken and given back in one step), and are
about the behaviours with `NeverSpoilt`, like those of `Ccf`:

* `DemoUsesCcf`, `DemoSpec /\ NeverSpoilt => UsesCcf`, the latter being `Ccf!Spec`: each step of the demo is
  one of `Ccf`'s or none. The invariant adds `FrameRight`, that the frame in `toTx`
  has been sent in part, to that of `Ccf`, which `Ccf`'s own lemmas preserve as soon
  as the step is known to be one of its steps. So all that is proved of `Ccf` under
  the mutex holds in the demo.
* `LinesWhole`, without the echo (`debug_echo` shows why): the line ends with as
  much of that frame as has been sent, or with a whole message (`LineRight`). It
  needs the handshake: a character given to a busy UART would be lost.
* `DemoTypeCorrect`.

`HostRpc_proofs`: `HostTypeCorrect`, `Spec => []TypeOK`, and `AnswersRight`,
`Spec => []RightAnswer`, for any number of callers and sequence numbers, any packet
and buffer size. `TypeOK` is inductive: unless numbers are reused it says that all
waiting calls, requests and answers are among the last `SeqCount` calls, which no
step of line or host can undo since parts of a sequence hold only what the sequence
held. `SameNumber` is the arithmetic: of `SeqCount` successive calls no two have the
same number, so an answer whose number fits is the call's own. `AnswersRight`
therefore assumes `~NumbersReused`: when a number is used again, everything of the
call that had it is gone. Nothing in the code sees to that but the time-out of 0.5 s
against 128 numbers. With `NumbersReused = TRUE` in `HostRpc.cfg` TLC finds
`RightAnswer` violated: a call is given up, its answer comes when its number has come
round again and is taken for the new call's, which `rpc.py:45` asserts cannot be
("Received response to a different function"). The other theorems about `HostRpc`
hold either way.

`LogsPrintedInOrder`, in the same module: `Spec => []LogsInOrder`. The inductive
invariant `LogOrder` looks past what is printed: the messages the host has got,
followed by those of which the *first* byte is on the line or in `rxBuf`, are in
increasing order and at most the last one logged. The device adds a greater one
at the end (`Transmitted`), the host moves the border (`Moved`), discarding
leaves the rest as it was (`Shortened`), and a fault can only take a message's
first byte away (`Thinned`). `NoLogLost`, `Spec => []LogsKept`, adds `LogComplete`:
while nothing has been disturbed, these are *all* messages logged, and `rxBuf`
starts with a packet's first byte, so that cutting it at a delimiter takes one
whole packet and leaves the same.

`Cbor_proofs` has no theorem of a specification, but the lemmas about `Fnv1a`,
`Cbor` and `RpcDispatch` that the next module needs, for every width of a byte:

* Encoders leave a writer that still fits its room (`EncodeItemsSteps`, ...), and,
  if there was room, have written what the host's encoder writes
  (`EncodeValueAsHost`): the same shortest head, the same bytes.
* Decoders leave a span inside the one they were given and a value of their type
  (`DecodeItemType`, `DecodeItemsType`), and give the same value for two memories
  that agree on the span (`UnpackSame`, `DecodeTupleSame`).
* Decoding undoes the host's encoding (`DecodeHostTuple`): arguments that the host has
  encoded are taken exactly when there are enough, each of its parameter's kind and
  size (`AcceptsAll`), and come out as they were, in the width of the parameter
  (`Reduced`). Under it, `NumberOfBigEndian` (bytes and back), `WrapWhole` (a negative
  number travels as its complement) and, for each kind of item, `DecodeHostItem`.
* `SchemaAsHost`: `Rpc::schema` writes the list of lists of texts that the host would
  write, whose items it counts itself, or fails if there is no room for all of it.
* The checksum has its four bytes, and `checkAtEnd` accepts what `putAtEnd` has
  written. `ByteChangeFound`: with one byte changed it never does. `hash ^ byte` is
  one to one in each of the two (bit by bit), and so is multiplying by an odd number
  modulo a power of two (`CancelsModulus`, halving by halving); hence the hash
  differs after the changed byte and stays different through the bytes that follow.

The recursive functions on `0..n` in these operators are not taken on trust: one
lemma, `Recursion`, shows that such a function exists, from the well-foundedness of
the numbers, and each operator has a lemma with its values.

`CcfPackets_proofs`, for every table of functions, width of a byte, largest packet
and any number of packets and messages, also packets that no encoder makes. All
but `ByteChangeRefused` and `DamageRefused` assume `ApplyTyped`: the functions of the
table take and return values of their C++ types, which the compiler sees to.
`DemoTyped` shows it of the demo's six.

* `TypeCorrect`, `Spec => []TypeOK`: no write outside `pktBuf`, nothing sent that is
  larger than a packet. It is inductive given what `HandleType` and `LogMessageType` say of
  one frame and one message.
* `LargestAreLost`, `Spec => []ResponsesFit`: a function that was run is answered, or
  refused, but for answers of the two largest sizes. `largest_answer` shows that the
  exception is one.
* `NothingStaleRead`, `Spec => NothingStale`, an action property: for each way of
  arriving, the frame handled on the real `pktBuf` and on an empty one give the
  same function called, the same bytes sent and the same memory.
* `LogsReadable`, `Spec => []LogReadable`. The length of the text is one byte, which
  `MaxPacket < Base` lets suffice; the demo's 255 is below 256.
* `ByteChangeRefused`, which has no assumption: a frame in which one byte differs
  from any whole packet's runs nothing.
* `DamageRefused`, `Spec => []DamageIsHarmless`, if no packet of the host that loses
  its end or is given a byte more has a right checksum (`LengthTold`). Four bytes of
  hash cannot promise that for every packet; a changed byte needs no such assumption.
  The run shows it of the packets that it damages.
* `OnlyAskedWrites`, `Spec => []MemoryAsWritten`, and `AnswersAsAsked`,
  `Spec => []AnsweredAsAsked`, with `ApplyTyped` and `LengthTold`: what the memory is,
  and what the host gets, is what its calls *mean*, whatever the functions, the values
  and the order of calls. `HostAnswered` follows one packet: it is copied to `pktBuf`
  and its arguments are found there (`HostPacketCopied`), decoded and encoded as above
  (`CallAsMeant`), and the header put over the sequence number and function they came
  with (`RespondSends`), whose next number does not wrap since the host's are even
  (`NextSeqNo`). The two are inductive together: an answer about the memory is right
  because the memory is. They rest on `SpansLast`, an assumption on the constants that
  every run evaluates: a byte string is a function's last parameter, with nothing
  given after it.

## Model-checked only

* Liveness (`PublishedIsTaken`, `RequestIsPolled`, `TransmitterRuns`,
  `CallIsAnswered`): the provers do not do fairness or ENABLED.
* The runs that expect a violation: each is a counterexample.
* `LengthTold` and `SpansLast`, hypotheses of theorems about `CcfPackets`, for the
  run's calls.

## Limits of the model

* Program order. The header (lines 46-50) leaves fences to its user; the model
  takes it that they are there.
* `CircularBuffer` does not let the interrupt preempt the *consumer* differently
  from the producer: any step of either may come between any two of the other.
  This allows more than one core with one interrupt does.
* `Ccf` and `FreeRtosDemo` use the buffer at the granularity of calls. With the
  mutex that is what `Refinement` justifies. Without it (`ccf_unlocked`) two
  producers are inside `push_back` at once, which breaks more than the run shows.
* `FreeRtosDemo` is checked with `PollLocks = TRUE`, that is, with the repair of
  `ccf_unlocked`: otherwise every other property would fail for that reason.
* The receive and transmit halves of the interrupt are steps of their own; the
  code runs them one after the other when both are pending. The model's
  behaviours include the code's.
* `Ccf` abstracts the size checks and the formatting of log messages to a fixed
  length for each kind of message; `CcfPackets` has them, but takes frames and
  messages one at a time. That `txBuf` may drop any packet for want of room is
  `Ccf`'s only; that it always drops the two largest sizes is `CcfPackets`'s.
* `MaxPacket` is below the number of values of a byte in `CcfPackets`, so that a
  packet that `txBuf` takes is shorter than a full COBS run and its encoding one byte
  longer than it. With a larger `maxPktSize` lengths would be cut anyway (see
  `BufferCorrect`).
* A delimiter with no byte before it, which the host never sends, is not among what
  `Ccf` receives. `receiveCharacter` would call `notify()` with nothing to publish;
  `CircularBuffer` with `EmptyNotifyWhenFull` has what that does.
* `FrameQueue` shows the packet that `Spoils` empties, not what the transmitter makes
  of the bytes behind it.
* `CcfPackets` leaves out packets for which the code's behaviour is undefined or
  arbitrary: six bytes with a right checksum (the argument span's size wraps),
  and a byte string followed by more arguments (it takes all that is left, its
  own length is not looked at). More arguments than parameters are otherwise
  ignored by the code and by the model. Integers beyond eight bytes, which the host
  would send as a byte string with a tag, are not among the calls. A format longer than `pktBuf` is copied without a
  test when formatting is deferred: `Log` requires that it fits.
* A log message's length byte would be cut if `maxPktSize` were above 262; in the
  demo it is 255, and in `CcfPackets` below 256.
* Strings encoded as literals include their terminating zero (`cbor.hpp:618-638`);
  in the model a text is what is sent.
* `HostRpc`: two zeros after an error text leave an empty packet at the start of
  `rxBuf`, which `find` gives as 0 and the code takes as none; nothing is received
  until the buffer overflows. The model does the same, and `CallIsAnswered`
  therefore promises nothing once the line is disturbed.
* Fault coverage of the checksum: `DamagedCalls` are changes of one byte by one,
  all truncations and one addition. The code's constants differ from the model's,
  so what the run checks of lengths is the place of the test, not the hash's
  strength; for changed bytes `ByteChangeRefused` covers the code's constants too.

## Not modelled

* `cbor.hpp`: decoding of arrays (an array with a missing item is undefined
  behaviour) and of `void`, `Cbor<T*>`, and lists of unknown length
  when encoding (`packEmbedded` refuses their head).
* `circular_buffer.hpp`: `pop_front`, which compares cursors by `<` and so does
  nothing once `notified` has wrapped, and which nothing calls; moving a `Frame`.
* `mutex.hpp`: `lock(timeout)`, which nothing calls.
* The host's discovery (one call, repeated until it succeeds) and its REPL;
  `log.py` with `--no-log`, which never opens its channel. Serial, TCP, stdio and
  RTT connectors: adapters.
* `main.c`, `startup.c`: straight-line set-up of the board. `debug/`, `test/`:
  read as documentation. `binutils_mapfile`: an offline report on code size.

## Plan

1. (done) `FrameQueue`, `CircularBuffer`, their invariant and refinement;
   `Cobs`, `CobsLink`; `Ccf`; `FreeRtosDemo` and its handshake.
2. (done) `HostRpc` with transport and channels, its types and right answers.
3. (done) `Fnv1a`, `Cbor`, `RpcDispatch`, `DemoCalls`, `CcfPackets`.
4. (done) Proofs of `FrameQueue`, `CobsLink`, `Ccf`, of the demo's use of `Ccf` and
   of its line, of log messages, and of `CcfPackets`.
5. (done) Decoding undoes encoding; with it the memory and the answers of
   `CcfPackets`. Every invariant that a run checks is now a theorem.
6. The composition of `HostRpc` with `Ccf`, in place of the device seen from outside.
