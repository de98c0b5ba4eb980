------------------------------ MODULE CcfPackets ------------------------------
(***************************************************************************)
(* comms-ccf/ccf.hpp, one packet at a time and byte by byte: what poll     *)
(* makes of a frame, what log makes of a message, and what the host reads. *)
(*                                                                         *)
(* Both use the buffer pktBuf: poll copies the frame there, the arguments  *)
(* are decoded out of it while the result is encoded into it, and what is  *)
(* left of one packet is still there under the next.  When poll and log    *)
(* run is module Ccf's subject; here each is one step.                     *)
(***************************************************************************)
EXTENDS RpcDispatch

CONSTANTS
    Prime, InitialHash,  \* of the checksum
    MaxPacket,           \* Config.maxPktSize: of pktBuf, and of a packet in txBuf
    RamSize,             \* bytes of memory that functions may look at
    HostCalls,           \* groups of calls of the host: function, arguments
    DamagedCalls,        \* groups of calls whose packets the line may damage
    ForeignCalls,        \* packets of another sender: function, arguments' bytes
    LogCalls,            \* groups of messages: level, module, text and arguments
    MaxPackets           \* bound: packets and messages in one behaviour

INSTANCE Fnv1a

\* Integers of more than eight bytes, which cbor2 tags, are not modelled.
IsCall(c) ==
    /\ c.function \in Byte
    /\ c.types \in Seq(ItemTypes) /\ DOMAIN c.args = DOMAIN c.types
    /\ \A i \in DOMAIN c.types :
          /\ OfKind(c.types[i], c.args[i])
          /\ c.types[i].kind = "integer" =>
                (c.args[i] \div Values[4]) \div Values[4] \in {-1, 0}

\* A level has the three bits of a major type.
IsMessage(m) ==
    /\ m.level \in 0..7 /\ m.module \in Nat /\ m.text \in Seq(Byte)
    /\ m.types \in Seq(ItemTypes) /\ DOMAIN m.args = DOMAIN m.types
    /\ \A i \in DOMAIN m.types : OfKind(m.types[i], m.args[i])

\* "Corrupted request\n", with the end that std::ranges::copy finds in the
\* literal and the delimiter.
LongestErrorText == 20

\* txBuf has room for an error text, and a byte for a packet's length.
ASSUME CcfPacketsAssumption ==
    /\ \E n \in 1..8 : Base = 2^n
    /\ Prime \in Nat /\ Prime % 2 = 1
    /\ InitialHash \in 0..(HashModulus - 1)
    /\ MaxPacket \in LongestErrorText..(Base - 1)
    /\ RamSize \in Nat /\ MaxPackets \in Nat
    /\ \A i \in DOMAIN HostCalls : \A c \in HostCalls[i] : IsCall(c)
    /\ \A i \in DOMAIN DamagedCalls : \A c \in DamagedCalls[i] : IsCall(c)
    /\ \A c \in ForeignCalls : c \in [function : Byte, bytes : Seq(Byte)]
    /\ \A i \in DOMAIN LogCalls : \A m \in LogCalls[i] : IsMessage(m)

\* A span takes what is left of the arguments, and `buf` is not moved past it: it
\* is the last parameter, and the host gives nothing after it.
SpanAtEnd(types, given) ==
    \A i \in 1..Len(types) :
        types[i].kind = "span" => i = Len(types) /\ Len(given) <= i

ASSUME SpansLast ==
    \A i \in DOMAIN HostCalls : \A c \in HostCalls[i] :
        c.function \in Functions => SpanAtEnd(Calls[c.function].args, c.types)

VARIABLES
    deferred,  \* is the build one with DEFERRED_FORMATTING?
    pktBuf,
    ram,
    written,   \* history: the memory as the host has written it
    handled,   \* the last packet or message: who it is from, and what it says
    called,    \* the function it has run and its arguments, or << >>
    sent,      \* what has been sent for it, or dropped by txBuf
    packets    \* how many there have been

vars == <<deferred, pktBuf, ram, written, handled, called, sent, packets>>

\* Channels
RpcChannel == 0
LogChannel == 1

Nothing == [what |-> "nothing", bytes |-> << >>]
Packet(bytes) == [what |-> "packet", bytes |-> bytes]
Dropped(bytes) == [what |-> "dropped", bytes |-> bytes]
ErrorText(text) == [what |-> text, bytes |-> << >>]

\* buf with bytes from index `at` on.
Over(buf, at, bytes) ==
    [i \in DOMAIN buf |->
        IF i \in at..(at + Len(bytes) - 1) THEN bytes[i - at + 1] ELSE buf[i]]

Slice(buf, at, size) == [i \in 1..size |-> buf[at + i - 1]]

-----------------------------------------------------------------------------
(* Device: poll and send *)

\* The first test of send(): a packet of `size` bytes of data fits pktBuf.
SendFits(size) == 1 + size + HashSize <= MaxPacket

\* txBuf drops a packet of more than MaxPacket bytes, even if it is empty.  It is
\* pushed as COBS encodes it, which adds one byte to fewer than Base - 2, and with
\* its delimiter.  Without room in txBuf it may drop any packet (module Ccf).
Pushed(bytes) == IF Len(bytes) + 2 <= MaxPacket THEN Packet(bytes) ELSE Dropped(bytes)

\* send(), of `size` bytes of pktBuf: they are moved behind the channel, if they
\* are not there yet.
Send(buf, channel, at, size) ==
    LET bytes == PutAtEnd(<<channel>> \o Slice(buf, at, size))
    IN  IF SendFits(size)
        THEN [buf |-> Over(buf, 0, bytes), sent |-> Pushed(bytes)]
        ELSE [buf |-> buf, sent |-> Nothing]

\* Channel, sequence number and function, before arguments and result.
Header == 3

\* Mutant of ReturnRoom: no space is left for the checksum.
ReturnRoomUnsummed == MaxPacket - Header

ReturnRoom == MaxPacket - Header - HashSize

\* What a call has encoded goes behind the header, and is sent if it succeeded.
Respond(buf, result) ==
    LET left == Over(buf, Header, result.out)
        head == <<(buf[1] + 1) % Base, buf[2]>>
        response ==
            IF result.ok
            THEN Send(Over(left, 1, head), RpcChannel, 1, 2 + Len(result.out))
            ELSE [buf |-> left, sent |-> ErrorText("RPC failed")]
    IN  [buf |-> response.buf, sent |-> response.sent,
         called |-> result.called, ram |-> result.ram]

\* A packet whose checksum is right, copied to buf.
Dispatch(buf, size, mem) ==
    LET args == [at |-> Header, size |-> size - Header - HashSize]
    IN  Respond(buf, RpcCall(buf[2], buf, args, ReturnRoom, mem))

\* One turn of poll's loop.
Handle(buf, mem, frame) ==
    LET copied == Over(buf, 0, frame)
        Bad(text) == [buf |-> copied, sent |-> ErrorText(text),
                      called |-> << >>, ram |-> mem]
    IN  CASE Len(frame) < 6 -> Bad("Bad RPC!")
          [] Len(frame) >= 6 /\ ~CheckAtEnd(frame) -> Bad("Corrupted request")
          [] Len(frame) >= 6 /\ CheckAtEnd(frame) -> Dispatch(copied, Len(frame), mem)

-----------------------------------------------------------------------------
(* Device: log *)

\* vsnprintf, given the formatted text: what it writes into `size` bytes.
Printed(text, size) == SubSeq(text, 1, Min({Len(text), size - 1})) \o <<0>>

\* vLogToBuffer on all of pktBuf: is it logged, which bytes are written, how
\* many are the message.  The test is against the span from its beginning,
\* though the text is written two bytes on.
FormatNow(first, text) ==
    [ok |-> 0 < Len(text) /\ Len(text) < MaxPacket, size |-> 2 + Len(text),
     out |-> <<first, Len(text) % Base>> \o Printed(text, MaxPacket - 2)]

\* Mutant of FormatLater: the length of the arguments is added to the format's.
FormatLaterWhole(first, text, types, args) ==
    LET w == EncodeItems(types, args, Writer(MaxPacket - 2 - Len(text)))
        length == Len(text) + Len(w.out)
    IN  [ok |-> w.ok, size |-> 2 + length,
         out |-> <<first, length % Base>> \o text \o w.out]

\* logToBuffer with DEFERRED_FORMATTING: the format, then the arguments.
FormatLater(first, text, types, args) ==
    LET w == EncodeItems(types, args, Writer(MaxPacket - 2 - Len(text)))
    IN  [ok |-> w.ok, size |-> 2 + Len(text) + Len(w.out),
         out |-> <<first, Len(text) % Base>> \o text \o w.out]

Formatted(m) ==
    LET first == m.level * MinorModulus + m.module
    IN  IF deferred THEN FormatLater(first, m.text, m.types, m.args)
        ELSE FormatNow(first, m.text)

\* log(): what is in pktBuf and what is sent.
LogMessage(m, buf) ==
    LET f == Formatted(m)
        left == Over(buf, 0, f.out)
    IN  IF m.module > MinorModulus - 1 THEN [buf |-> buf, sent |-> Nothing]
        ELSE IF ~f.ok THEN [buf |-> left, sent |-> Nothing]
        ELSE Send(left, LogChannel, 0, f.size)

-----------------------------------------------------------------------------
(* Host *)

\* What cbor2 makes of a value: the shortest form that RFC 8949 allows.
HostHead(major, n) ==
    LET fitting == {size \in {1, 2, 4} : n \div Values[size] = 0} \cup {8}
    IN  IF n <= EmbeddedMax THEN <<InitialByte(major, n)>>
        ELSE <<InitialByte(major, Follows[Min(fitting)])>>
                 \o BigEndian(n, Min(fitting))

HostItem(type, v) ==
    CASE type.kind = "integer" /\ v >= 0 -> HostHead(U64, v)
      [] type.kind = "integer" /\ v < 0 -> HostHead(Neg64, -v - 1)
      [] type.kind = "floating" -> <<InitialByte(Simple, Follows[Len(v)])>> \o v
      [] type.kind = "bool" -> <<InitialByte(Simple, IF v THEN TrueValue ELSE FalseValue)>>
      [] type.kind = "void" -> <<InitialByte(Simple, UndefinedValue)>>
      [] type.kind = "text" -> HostHead(Utf8, Len(v)) \o v
      [] type.kind = "span" -> HostHead(Bytes, Len(v)) \o v

HostItems(types, vs) == FlattenSeq([i \in DOMAIN types |-> HostItem(types[i], vs[i])])

HostList(types, vs) == HostHead(Array, Len(types)) \o HostItems(types, vs)

HostValue(type, v) ==
    IF type.kind \in {"tuple", "array"} THEN HostList(type.items, v)
    ELSE HostItem(type, v)

\* Rpc.__call__ and StreamTransport.send, before COBS.
HostPacket(seqNo, function, arguments) ==
    PutAtEnd(<<RpcChannel, seqNo, function>> \o arguments)

HostFrame(seqNo, c) == HostPacket(seqNo, c.function, HostList(c.types, c.args))

\* print_logs, of the data of a packet: the arguments are what follows the text.
HostLog(data) ==
    LET end == Min({2 + data[2], Len(data)})
    IN  [level |-> data[1] \div MinorModulus, module |-> data[1] % MinorModulus,
         text |-> SubSeq(data, 3, end), rest |-> SubSeq(data, end + 1, Len(data))]

\* What a damaged packet may arrive as: a byte changed, a byte added, the end lost.
Damaged(frame) ==
    {[frame EXCEPT ![i] = (@ + change) % Base] : i \in DOMAIN frame, change \in {1, Base - 1}}
        \cup {SubSeq(frame, 1, n) : n \in 0..(Len(frame) - 1)}
        \cup {Append(frame, 0)}

-----------------------------------------------------------------------------
Init ==
    /\ deferred \in BOOLEAN
    /\ pktBuf = [i \in 0..(MaxPacket - 1) |-> 0]
    /\ ram = [a \in 0..(RamSize - 1) |-> 0]
    /\ written = ram
    /\ handled = [from |-> "nobody"]
    /\ called = << >>
    /\ sent = Nothing
    /\ packets = 0

\* The host's sequence numbers are even.
SeqNo == (2 * packets) % Base

Arrives ==
    /\ packets < MaxPackets
    /\ packets' = packets + 1
    /\ UNCHANGED deferred

\* One turn of poll's loop, for a frame that rxBuf holds.  Not modelled: a frame
\* of 6 bytes whose checksum is right, the size of whose arguments wraps.
Poll(frame) ==
    /\ Len(frame) <= MaxPacket
    /\ Len(frame) = 6 => ~CheckAtEnd(frame)
    /\ \E r \in {Handle(pktBuf, ram, frame)} :
           pktBuf' = r.buf /\ ram' = r.ram /\ called' = r.called /\ sent' = r.sent

\* What the types of a function make of the host's arguments.
Accepts(type, given, v) ==
    /\ given.kind = type.kind
    /\ type.kind = "integer" => v \in -(Values[type.bytes])..(Values[type.bytes] - 1)
    /\ type.kind = "floating" => Len(v) <= type.bytes

\* Arguments beyond the function's are not looked at.
Accepted(c) ==
    /\ c.function \in Functions
    /\ Len(Calls[c.function].args) <= Len(c.types)
    /\ \A i \in DOMAIN Calls[c.function].args :
          Accepts(Calls[c.function].args[i], c.types[i], c.args[i])

InWidth(type, v) ==
    LET modulus == Values[type.bytes]
        low == v % modulus
    IN  IF type.kind # "integer" THEN v
        ELSE IF type.signed /\ low >= modulus \div 2 THEN low - modulus ELSE low

\* What the call is meant to do to a memory.
Meant(c, mem) ==
    Apply(c.function,
          [i \in DOMAIN Calls[c.function].args |->
              InWidth(Calls[c.function].args[i], c.args[i])], mem)

PollHost(c) ==
    LET frame == HostFrame(SeqNo, c)
    IN  /\ Arrives
        /\ Poll(frame)
        /\ written' = IF Accepted(c) THEN Meant(c, written).ram ELSE written
        /\ handled' = [from |-> "host", frame |-> frame, call |-> c, mem |-> written]

PollDamaged(frame) ==
    /\ Arrives
    /\ Poll(frame)
    /\ UNCHANGED written
    /\ handled' = [from |-> "line", frame |-> frame, mem |-> written]

\* A whole packet, with arguments that no encoder makes.  There is always a
\* function: poll does not look for one.
PollForeign(c) ==
    LET frame == HostPacket(SeqNo, c.function, c.bytes)
    IN  /\ Arrives
        /\ Poll(frame)
        /\ written' = ram'
        /\ handled' = [from |-> "stranger", frame |-> frame, mem |-> ram]

\* A deferred format is copied without looking at its length: it must fit.
Log(m) ==
    /\ Arrives
    /\ IF deferred THEN 2 + Len(m.text) <= MaxPacket ELSE m.args = << >>
    /\ \E r \in {LogMessage(m, pktBuf)} : pktBuf' = r.buf /\ sent' = r.sent
    /\ called' = << >>
    /\ handled' = [from |-> "log", message |-> m]
    /\ UNCHANGED <<ram, written>>

Next ==
    \/ \E i \in DOMAIN HostCalls : \E c \in HostCalls[i] : PollHost(c)
    \/ \E i \in DOMAIN DamagedCalls : \E c \in DamagedCalls[i] :
          \E frame \in Damaged(HostFrame(SeqNo, c)) : PollDamaged(frame)
    \/ \E c \in ForeignCalls : PollForeign(c)
    \/ \E i \in DOMAIN LogCalls : \E m \in LogCalls[i] : Log(m)

Spec == Init /\ [][Next]_vars

-----------------------------------------------------------------------------
(* Properties *)

\* Buffer and memory keep their sizes and hold bytes, and so does what is sent.
TypeOK ==
    /\ deferred \in BOOLEAN
    /\ pktBuf \in [0..(MaxPacket - 1) -> Byte]
    /\ {ram, written} \subseteq [0..(RamSize - 1) -> Byte]
    /\ sent.what \in {"nothing", "packet", "dropped", "Bad RPC!", "Corrupted request", "RPC failed"}
    /\ sent.bytes \in Seq(Byte) /\ Len(sent.bytes) <= MaxPacket
    /\ packets \in 0..MaxPackets

\* The bytes of the answer, by the host's encoder.
Answer(c, mem) ==
    IF c.function # 0 THEN HostValue(Calls[c.function].ret, Meant(c, mem).value)
    ELSE HostHead(Array, Len(Calls))
             \o FlattenSeq([n \in Functions |->
                    HostList([i \in DOMAIN Row(Calls[n]) |-> Text], Row(Calls[n]))])

\* The host gets, in a whole packet that says to which call it belongs, what the
\* function gives for the arguments it was called with, reduced to the width of
\* its parameters, and for the memory the host has written before.  It gets an
\* error if the arguments do not have the function's types, if there is no such
\* function, or if the answer does not fit the room in pktBuf, and only then
\* (Rpc::call, Cbor<T>::decode and encode, poll).  An answer that fills this room
\* but for one byte, or all of it, is lost: send() returns false after the call.
AnsweredAsAsked ==
    handled.from = "host" =>
        LET c == handled.call
            answer == HostPacket(handled.frame[2] + 1, c.function, Answer(c, handled.mem))
        IN  IF (c.function = 0 \/ Accepted(c)) /\ Len(answer) <= MaxPacket
            THEN sent = IF Len(answer) <= MaxPacket - 2 THEN Packet(answer) ELSE Dropped(answer)
            ELSE sent = ErrorText("RPC failed")

\* The device's memory is what the host's write_mem calls have made of it: no
\* call writes other bytes, elsewhere, or is done when it is refused.
MemoryAsWritten == ram = written

\* A packet with a byte changed, added, or the end lost runs no function, and
\* the host is told so (poll's length and checksum tests, Fnv1a::checkAtEnd).
DamageIsHarmless ==
    handled.from = "line" =>
        /\ called = << >>
        /\ sent.what \in {"Bad RPC!", "Corrupted request"}

\* What a function has left is never too large for pktBuf, so that send() gets as
\* far as txBuf: after a function has been run, poll sends an answer or an error,
\* but for the packets of the two largest sizes.
ResponsesFit ==
    called # << >> =>
        \/ sent.what \in {"packet", "RPC failed"}
        \/ sent.what = "dropped" /\ Len(sent.bytes) \in {MaxPacket - 1, MaxPacket}

\* "Reuse the pktBuf buffer for return (leaving space for channel, function, and
\* checksum)" (ccf.hpp): every function that is run is answered.
AnswersEveryRun == called # << >> => sent.what \in {"packet", "RPC failed"}

\* It does for a frame what it would do with an empty pktBuf.
AsWithEmptyBuffer ==
    handled'.from \in {"host", "line", "stranger"} =>
        \E fresh \in {Handle([i \in DOMAIN pktBuf |-> 0], ram, handled'.frame)} :
            <<fresh.called, fresh.sent, fresh.ram>> = <<called', sent', ram'>>

\* What poll does for a frame does not depend on what earlier packets and
\* messages left in pktBuf behind it: unpack() stays in its span.
NothingStale == [][AsWithEmptyBuffer]_vars

\* A message that is sent can be read by the host as it was logged: level,
\* module, text and, if formatting is deferred, all of the arguments; and one is
\* not sent only if with the two bytes that COBS takes it is larger than a packet
\* in txBuf, its module has no room in the first byte, or (formatted on the
\* device) it is empty.
LogReadable ==
    handled.from = "log" =>
        LET m == handled.message
            rest == HostItems(m.types, m.args)
            fits == 3 + Len(m.text) + Len(rest) + HashSize + 2 <= MaxPacket
            body == SubSeq(sent.bytes, 2, Len(sent.bytes) - HashSize)
        IN  IF fits /\ m.module < MinorModulus /\ (deferred \/ m.text # << >>)
            THEN /\ sent.what = "packet"
                 /\ CheckAtEnd(sent.bytes) /\ sent.bytes[1] = LogChannel
                 /\ HostLog(body) = [level |-> m.level, module |-> m.module,
                                     text |-> m.text, rest |-> rest]
            ELSE sent.what \in {"nothing", "dropped"}
=============================================================================
