--------------------------- MODULE CcfPackets_proofs ---------------------------
(***************************************************************************)
(* Proofs about CcfPackets, for every width of a byte, table of functions, *)
(* largest packet and input.                                               *)
(*                                                                         *)
(* ApplyTyped is a hypothesis of most theorems: the functions of the table *)
(* take and return values of their C++ types.  The demo's do (DemoTyped).  *)
(* LengthTold is one where the line may change a packet's length: a hash   *)
(* of four bytes cannot promise that it shows.  Most of the work is in     *)
(* what poll and log make of one packet or message; every step of          *)
(* CcfPackets is one of these.                                             *)
(***************************************************************************)
EXTENDS Cbor_proofs, DemoCalls

Buffers == [0..(MaxPacket - 1) -> Byte]
Memory == [0..(RamSize - 1) -> Byte]

-----------------------------------------------------------------------------
(* The buffer *)

LEMMA Sizing ==
    /\ MaxPacket \in Nat /\ MaxPacket > 7 /\ HashSize = 4 /\ Header = 3
    /\ MaxPacket < Base
    /\ ReturnRoom = MaxPacket - 7 /\ ReturnRoom \in Nat
    /\ RamSize \in Nat /\ MaxPackets \in Nat
<1>1. Base \in Nat
  BY Widths
<1> QED BY <1>1, CcfPacketsAssumption DEF HashSize, Header, ReturnRoom, LongestErrorText

LEMMA OverType ==
    ASSUME NEW buf \in Buffers, NEW at \in Nat, NEW bytes \in Seq(Byte)
    PROVE  /\ Over(buf, at, bytes) \in Buffers
           /\ \A i \in 0..(MaxPacket - 1) :
                 Over(buf, at, bytes)[i] =
                     IF i \in at..(at + Len(bytes) - 1) THEN bytes[i - at + 1] ELSE buf[i]
<1>1. DOMAIN buf = 0..(MaxPacket - 1)
  BY DEF Buffers
<1>2. ASSUME NEW i \in 0..(MaxPacket - 1)
      PROVE  (IF i \in at..(at + Len(bytes) - 1) THEN bytes[i - at + 1] ELSE buf[i]) \in Byte
  <2>1. CASE i \in at..(at + Len(bytes) - 1)
    <3>1. i - at + 1 \in 1..Len(bytes)
      BY <2>1, Sizing
    <3>2. bytes[i - at + 1] \in Byte
      BY <3>1
    <3> QED BY <2>1, <3>2
  <2>2. CASE i \notin at..(at + Len(bytes) - 1)
    BY <2>2 DEF Buffers
  <2> QED BY <2>1, <2>2
<1> QED BY <1>1, <1>2 DEF Over, Buffers

\* What is written is there, and nothing else has changed.
LEMMA OverParts ==
    ASSUME NEW buf \in Buffers, NEW at \in Nat, NEW bytes \in Seq(Byte),
           at + Len(bytes) <= MaxPacket
    PROVE  /\ Over(buf, at, bytes) \in Buffers
           /\ \A i \in 1..Len(bytes) : Over(buf, at, bytes)[at + i - 1] = bytes[i]
           /\ \A i \in 0..(MaxPacket - 1) :
                 i < at \/ i >= at + Len(bytes) => Over(buf, at, bytes)[i] = buf[i]
<1> DEFINE n == Len(bytes)
           over == Over(buf, at, bytes)
<1>1. n \in Nat /\ at + n <= MaxPacket
  OBVIOUS
<1>2. /\ over \in Buffers
      /\ \A i \in 0..(MaxPacket - 1) :
            over[i] = IF i \in at..(at + n - 1) THEN bytes[i - at + 1] ELSE buf[i]
  BY OverType
<1> HIDE DEF over, n
<1>3. ASSUME NEW i \in 1..n PROVE over[at + i - 1] = bytes[i]
  <2>1. /\ at + i - 1 \in 0..(MaxPacket - 1) /\ at + i - 1 \in at..(at + n - 1)
        /\ (at + i - 1) - at + 1 = i
    BY <1>1, Sizing
  <2> QED BY <1>2, <2>1
<1>4. ASSUME NEW i \in 0..(MaxPacket - 1), i < at \/ i >= at + n PROVE over[i] = buf[i]
  <2>1. i \notin at..(at + n - 1)
    BY <1>1, <1>4
  <2> QED BY <1>2, <2>1
<1> QED BY <1>2, <1>3, <1>4 DEF over, n

LEMMA SliceType ==
    ASSUME NEW buf \in Buffers, NEW at \in Nat, NEW size \in Nat, at + size <= MaxPacket
    PROVE  /\ Slice(buf, at, size) \in Seq(Byte) /\ Len(Slice(buf, at, size)) = size
           /\ \A i \in 1..size : Slice(buf, at, size)[i] = buf[at + i - 1]
<1>1. \A i \in 1..size : buf[at + i - 1] \in Byte
  <2>1. \A i \in 1..size : at + i - 1 \in 0..(MaxPacket - 1)
    BY Sizing
  <2> QED BY <2>1 DEF Buffers
<1> QED BY <1>1 DEF Slice

\* What has been written can be read.
LEMMA SliceOver ==
    ASSUME NEW buf \in Buffers, NEW at \in Nat, NEW bytes \in Seq(Byte),
           NEW size \in 0..Len(bytes), at + size <= MaxPacket
    PROVE  Slice(Over(buf, at, bytes), at, size) = SubSeq(bytes, 1, size)
<1> DEFINE slice == Slice(Over(buf, at, bytes), at, size)
           part == SubSeq(bytes, 1, size)
<1>1. Over(buf, at, bytes) \in Buffers
  BY OverType
<1>2. /\ slice \in Seq(Byte) /\ Len(slice) = size
      /\ \A i \in 1..size : slice[i] = Over(buf, at, bytes)[at + i - 1]
  <2> DEFINE over == Over(buf, at, bytes)
  <2>1. over \in Buffers /\ size \in Nat
    BY <1>1
  <2> HIDE DEF over
  <2>2. /\ Slice(over, at, size) \in Seq(Byte) /\ Len(Slice(over, at, size)) = size
        /\ \A i \in 1..size : Slice(over, at, size)[i] = over[at + i - 1]
    BY <2>1, SliceType
  <2> QED BY <2>2 DEF over
<1>3. part \in Seq(Byte) /\ Len(part) = size /\ \A i \in 1..size : part[i] = bytes[i]
  OBVIOUS
<1> HIDE DEF slice, part
<1>4. ASSUME NEW i \in 1..size PROVE slice[i] = part[i]
  <2>1. at + i - 1 \in 0..(MaxPacket - 1) /\ at + i - 1 \in at..(at + Len(bytes) - 1)
    BY Sizing
  <2>2. Over(buf, at, bytes)[at + i - 1] = bytes[(at + i - 1) - at + 1]
    BY <2>1, OverType
  <2>3. (at + i - 1) - at + 1 = i
    OBVIOUS
  <2> QED BY <1>2, <1>3, <2>2, <2>3
<1>5. slice = part
  BY <1>2, <1>3, <1>4
<1> QED BY <1>5 DEF slice, part

-----------------------------------------------------------------------------
(* Sending *)

Reasons == {"nothing", "packet", "dropped", "Bad RPC!", "Corrupted request", "RPC failed"}

\* What may be sent.
Sendable(s) ==
    /\ s.what \in Reasons
    /\ s.bytes \in Seq(Byte) /\ Len(s.bytes) <= MaxPacket

\* What is pushed for a function that has been run.
IsResponse(s) ==
    \/ s.what \in {"packet", "RPC failed"}
    \/ s.what = "dropped" /\ Len(s.bytes) \in {MaxPacket - 1, MaxPacket}

LEMMA ErrorSendable ==
    /\ \A text \in Reasons : Sendable(ErrorText(text))
    /\ IsResponse(ErrorText("RPC failed"))
<1>1. << >> \in Seq(Byte) /\ Len(<< >>) <= MaxPacket
  BY Sizing
<1>2. ASSUME NEW text \in Reasons PROVE Sendable(ErrorText(text))
  BY <1>1 DEF Sendable, ErrorText
<1>3. IsResponse(ErrorText("RPC failed"))
  BY DEF ErrorText, IsResponse
<1> QED BY <1>2, <1>3

LEMMA NothingSendable == Sendable(Nothing)
<1>1. << >> \in Seq(Byte) /\ Len(<< >>) <= MaxPacket
  BY Sizing
<1> QED BY <1>1 DEF Sendable, Nothing, Reasons

\* txBuf takes a packet, if it is not one of the largest.
LEMMA PushedType ==
    ASSUME NEW bytes \in Seq(Byte), Len(bytes) <= MaxPacket
    PROVE  Sendable(Pushed(bytes)) /\ IsResponse(Pushed(bytes))
<1>1. PICK n \in Nat : n = Len(bytes)
  OBVIOUS
<1>2. CASE n + 2 <= MaxPacket
  <2>1. Pushed(bytes) = Packet(bytes)
    BY <1>1, <1>2 DEF Pushed
  <2> QED BY <2>1 DEF Packet, Sendable, Reasons, IsResponse
<1>3. CASE ~(n + 2 <= MaxPacket)
  <2>1. Pushed(bytes) = Dropped(bytes)
    BY <1>1, <1>3 DEF Pushed
  <2>2. n \in {MaxPacket - 1, MaxPacket}
    BY <1>1, <1>3, Sizing
  <2> QED BY <1>1, <2>1, <2>2 DEF Dropped, Sendable, Reasons, IsResponse
<1> QED BY <1>2, <1>3

\* send() leaves the buffer a buffer; what it pushes has its size.
LEMMA SendType ==
    ASSUME NEW buf \in Buffers, NEW channel \in Byte, NEW at \in {0, 1}, NEW size \in Nat
    PROVE  LET s == Send(buf, channel, at, size)
           IN  /\ s.buf \in Buffers /\ Sendable(s.sent)
               /\ SendFits(size) =>
                     /\ IsResponse(s.sent)
                     /\ s.sent = Pushed(PutAtEnd(<<channel>> \o Slice(buf, at, size)))
               /\ ~SendFits(size) => s.sent = Nothing
<1> DEFINE bytes == PutAtEnd(<<channel>> \o Slice(buf, at, size))
<1>1. CASE SendFits(size)
  <2>1. at + size <= MaxPacket /\ 5 + size <= MaxPacket
    BY <1>1, Sizing DEF SendFits
  <2>2. Slice(buf, at, size) \in Seq(Byte) /\ Len(Slice(buf, at, size)) = size
    BY <2>1, SliceType
  <2>3. /\ <<channel>> \o Slice(buf, at, size) \in Seq(Byte)
        /\ Len(<<channel>> \o Slice(buf, at, size)) = 1 + size
    <3>1. <<channel>> \in Seq(Byte) /\ Len(<<channel>>) = 1
      OBVIOUS
    <3> QED BY <2>2, <3>1, JoinParts
  <2>4. bytes \in Seq(Byte) /\ Len(bytes) = 5 + size
    <3> DEFINE body == <<channel>> \o Slice(buf, at, size)
    <3> HIDE DEF body
    <3>1. /\ body \in Seq(Byte) /\ Len(body) = 1 + size /\ bytes = PutAtEnd(body)
      BY <2>3 DEF body
    <3> HIDE DEF bytes
    <3>2. bytes \in Seq(Byte) /\ Len(bytes) = Len(body) + 4
      BY <3>1, PutAtEndType, Sizing
    <3> QED BY <3>1, <3>2
  <2>5. Send(buf, channel, at, size) = [buf |-> Over(buf, 0, bytes), sent |-> Pushed(bytes)]
    BY <1>1 DEF Send
  <2> HIDE DEF bytes
  <2>6. Over(buf, 0, bytes) \in Buffers
    BY <2>4, OverType
  <2>7. Sendable(Pushed(bytes)) /\ IsResponse(Pushed(bytes))
    BY <2>1, <2>4, PushedType
  <2> QED BY <1>1, <2>5, <2>6, <2>7 DEF bytes
<1>2. CASE ~SendFits(size)
  <2>1. Send(buf, channel, at, size) = [buf |-> buf, sent |-> Nothing]
    BY <1>2 DEF Send
  <2> QED BY <1>2, <2>1, NothingSendable
<1> QED BY <1>1, <1>2
-----------------------------------------------------------------------------
(* Calls *)

\* What the C++ compiler knows of the functions: called with values of the
\* types of their parameters, they return a value of the type of their result.
\* The memory they may write keeps its size, and has bytes.
ApplyTyped ==
    \A n \in Functions, args \in Seq(Decodables), mem \in Memory :
        (/\ Len(args) = Len(Calls[n].args)
         /\ \A i \in 1..Len(args) : HasType(Calls[n].args[i], args[i]))
        => /\ HasKind(Calls[n].ret, Apply(n, args, mem).value)
           /\ Apply(n, args, mem).ram \in Memory

\* What a call leaves is no more than there is room for in the packet.
IsResult(r) ==
    /\ r.ok \in BOOLEAN
    /\ r.out \in Seq(Byte) /\ Len(r.out) <= ReturnRoom
    /\ r.ram \in Memory

LEMMA RefusedType ==
    ASSUME NEW mem \in Memory
    PROVE  IsResult(Refused(mem))
<1>1. << >> \in Seq(Byte) /\ Len(<< >>) <= ReturnRoom
  BY Sizing
<1> QED BY <1>1 DEF IsResult, Refused, Result

LEMMA WrittenType ==
    ASSUME NEW w, Keeps(Writer(ReturnRoom), w), NEW run, NEW mem \in Memory
    PROVE  IsResult(Result(w, run, mem))
<1>1. /\ w.ok \in BOOLEAN /\ w.out \in Seq(Byte) /\ w.room \in Nat
      /\ Len(w.out) + w.room = Len(Writer(ReturnRoom).out) + Writer(ReturnRoom).room
  BY WriterType DEF Keeps
<1>2. Len(Writer(ReturnRoom).out) = 0 /\ Writer(ReturnRoom).room = ReturnRoom
  BY DEF Writer
<1>3. Len(w.out) <= ReturnRoom
  <2>1. Len(w.out) \in Nat
    BY <1>1
  <2> QED BY <1>1, <1>2, <2>1, Sizing
<1> QED BY <1>1, <1>3 DEF IsResult, Result

LEMMA WriterKept ==
    /\ Writer(ReturnRoom) \in Writers
    /\ \A bytes, w : Encodes(Writer(ReturnRoom), bytes, w) => Keeps(Writer(ReturnRoom), w)
BY Sizing DEF Writer, Writers, Encodes, Keeps

\* A function gets arguments of its types, and what is encoded of its result
\* fits the room it was given.
LEMMA CallFunctionType ==
    ASSUME ApplyTyped, NEW n \in Functions,
           NEW lo \in Int, NEW hi \in Int, NEW buf, Holds(buf, lo, hi),
           NEW args \in Spans(lo, hi), NEW mem \in Memory
    PROVE  IsResult(CallFunction(n, buf, args, ReturnRoom, mem))
<1> DEFINE got == DecodeTuple(Calls[n].args, buf, args)
           applied == Apply(n, got.value, mem)
           w == EncodeValue(Calls[n].ret, applied.value, Writer(ReturnRoom))
<1>1. Calls[n].args \in Seq(ArgTypes) /\ Calls[n].ret \in Types
  BY CallsType
<1>2. CASE got.ok
  <2>1. /\ got.value \in Seq(Decodables) /\ Len(got.value) = Len(Calls[n].args)
        /\ \A i \in 1..Len(Calls[n].args) : HasType(Calls[n].args[i], got.value[i])
    BY <1>1, <1>2, DecodeTupleType
  <2>2. CallFunction(n, buf, args, ReturnRoom, mem) = Result(w, <<n, got.value>>, applied.ram)
    BY <1>2 DEF CallFunction, Applied
  <2> HIDE DEF got
  <2>3. HasKind(Calls[n].ret, applied.value) /\ applied.ram \in Memory
    BY <2>1 DEF ApplyTyped
  <2> HIDE DEF applied
  <2>4. Keeps(Writer(ReturnRoom), w)
    BY <1>1, <2>3, WriterKept, EncodeValueAsHost
  <2> HIDE DEF w
  <2> QED BY <2>2, <2>3, <2>4, WrittenType
<1>3. CASE ~got.ok
  <2>1. CallFunction(n, buf, args, ReturnRoom, mem) = Refused(mem)
    BY <1>3 DEF CallFunction, Applied
  <2> QED BY <2>1, RefusedType
<1> QED BY <1>2, <1>3

LEMMA RpcCallType ==
    ASSUME ApplyTyped, NEW n,
           NEW lo \in Int, NEW hi \in Int, NEW buf, Holds(buf, lo, hi),
           NEW args \in Spans(lo, hi), NEW mem \in Memory
    PROVE  IsResult(RpcCall(n, buf, args, ReturnRoom, mem))
<1>1. CASE n = 0
  <2>1. RpcCall(n, buf, args, ReturnRoom, mem) = Result(Schema(ReturnRoom), <<0>>, mem)
    <3>1. 0 \notin Functions
      BY DEF Functions
    <3> QED BY <1>1, <3>1 DEF RpcCall
  <2>2. Keeps(Writer(ReturnRoom), Schema(ReturnRoom))
    BY Sizing, SchemaKeeps
  <2> QED BY <2>1, <2>2, WrittenType
<1>2. CASE n # 0 /\ n \in Functions
  <2>1. RpcCall(n, buf, args, ReturnRoom, mem) = CallFunction(n, buf, args, ReturnRoom, mem)
    BY <1>2 DEF RpcCall
  <2> QED BY <1>2, <2>1, CallFunctionType
<1>3. CASE n # 0 /\ n \notin Functions
  <2>1. RpcCall(n, buf, args, ReturnRoom, mem) = Refused(mem)
    BY <1>3 DEF RpcCall
  <2> QED BY <2>1, RefusedType
<1> QED BY <1>1, <1>2, <1>3

\* A call is decided by its arguments, whatever is behind them.
LEMMA RpcCallSame ==
    ASSUME NEW n, NEW lo \in Int, NEW hi \in Int, NEW buf, NEW other,
           Holds(buf, lo, hi), Agree(buf, other, lo, hi),
           NEW args \in Spans(lo, hi), NEW room, NEW mem
    PROVE  RpcCall(n, buf, args, room, mem) = RpcCall(n, other, args, room, mem)
<1>1. CASE n \in Functions
  <2>1. DecodeTuple(Calls[n].args, buf, args) = DecodeTuple(Calls[n].args, other, args)
    <3>1. Calls[n].args \in Seq(ArgTypes)
      BY <1>1, CallsType
    <3> QED BY <3>1, DecodeTupleSame
  <2>2. CallFunction(n, buf, args, room, mem) = CallFunction(n, other, args, room, mem)
    BY <2>1 DEF CallFunction
  <2> QED BY <1>1, <2>2 DEF RpcCall
<1>2. CASE n \notin Functions
  BY <1>2 DEF RpcCall
<1> QED BY <1>1, <1>2
-----------------------------------------------------------------------------
(* Packets *)

\* The header of a response, over what is left of the request.
ResponseHead(buf) == <<(buf[1] + 1) % Base, buf[2]>>

LEMMA BufferBytes ==
    ASSUME NEW buf \in Buffers
    PROVE  buf[1] \in Byte /\ buf[2] \in Byte
<1>1. 1 \in 0..(MaxPacket - 1) /\ 2 \in 0..(MaxPacket - 1)
  BY Sizing
<1> QED BY <1>1 DEF Buffers

LEMMA ResponseHeadType ==
    ASSUME NEW buf \in Buffers
    PROVE  ResponseHead(buf) \in Seq(Byte) /\ Len(ResponseHead(buf)) = 2
<1>1. (buf[1] + 1) % Base \in Byte
  BY BufferBytes, Widths
<1> QED BY <1>1, BufferBytes DEF ResponseHead

\* What poll makes of a request's result: it is sent, or the reason why not.
LEMMA RespondType ==
    ASSUME NEW buf \in Buffers, NEW r, IsResult(r)
    PROVE  /\ Respond(buf, r).buf \in Buffers
           /\ Sendable(Respond(buf, r).sent) /\ IsResponse(Respond(buf, r).sent)
           /\ Respond(buf, r).called = r.called
           /\ Respond(buf, r).ram = r.ram
<1> DEFINE left == Over(buf, Header, r.out)
           full == Over(left, 1, ResponseHead(buf))
           response == IF r.ok THEN Send(full, RpcChannel, 1, 2 + Len(r.out))
                       ELSE [buf |-> left, sent |-> ErrorText("RPC failed")]
<1>1. Respond(buf, r) = [buf |-> response.buf, sent |-> response.sent,
                         called |-> r.called, ram |-> r.ram]
  BY DEF Respond, ResponseHead
<1> HIDE DEF response
<1>0. /\ Respond(buf, r).buf = response.buf /\ Respond(buf, r).sent = response.sent
      /\ Respond(buf, r).called = r.called /\ Respond(buf, r).ram = r.ram
  BY <1>1
<1>2. r.out \in Seq(Byte) /\ Len(r.out) \in Nat /\ Len(r.out) <= ReturnRoom
  BY DEF IsResult
<1>3. left \in Buffers
  BY <1>2, Sizing, OverType
<1> HIDE DEF left
<1>4. full \in Buffers
  BY <1>3, ResponseHeadType, OverType
<1> HIDE DEF full
<1>5. CASE r.ok
  <2> DEFINE size == 2 + Len(r.out)
             s == Send(full, RpcChannel, 1, size)
  <2>1. size \in Nat /\ SendFits(size)
    BY <1>2, Sizing DEF SendFits
  <2>2. RpcChannel \in Byte
    BY Widths DEF RpcChannel
  <2>3. response = s
    BY <1>5 DEF response
  <2> HIDE DEF size
  <2>4. s.buf \in Buffers /\ Sendable(s.sent) /\ IsResponse(s.sent)
    BY <1>4, <2>1, <2>2, SendType
  <2> HIDE DEF s
  <2> QED BY <1>0, <2>3, <2>4
<1>6. CASE ~r.ok
  <2>1. response = [buf |-> left, sent |-> ErrorText("RPC failed")]
    BY <1>6 DEF response
  <2>2. "RPC failed" \in Reasons
    BY DEF Reasons
  <2>3. Sendable(ErrorText("RPC failed")) /\ IsResponse(ErrorText("RPC failed"))
    BY <2>2, ErrorSendable
  <2>4. response.buf = left /\ response.sent = ErrorText("RPC failed")
    BY <2>1
  <2> QED BY <1>0, <1>3, <2>3, <2>4
<1> QED BY <1>5, <1>6

\* A frame that poll takes: the packets it takes none of the sizes of, and the
\* one it may not take, are out.
IsFrame(frame) ==
    /\ frame \in Seq(Byte) /\ Len(frame) <= MaxPacket
    /\ Len(frame) = 6 => ~CheckAtEnd(frame)

\* Where the arguments are.
Args(frame) == [at |-> Header, size |-> Len(frame) - Header - HashSize]

LEMMA CopiedFrame ==
    ASSUME NEW buf \in Buffers, NEW frame \in Seq(Byte), Len(frame) <= MaxPacket
    PROVE  /\ Over(buf, 0, frame) \in Buffers
           /\ \A i \in 0..(Len(frame) - 1) : Over(buf, 0, frame)[i] = frame[i + 1]
<1>1. Len(frame) \in Nat
  OBVIOUS
<1>2. \A i \in 0..(Len(frame) - 1) : i \in 0..(MaxPacket - 1) /\ i \in 0..(0 + Len(frame) - 1)
  BY <1>1, Sizing
<1>3. \A i \in 0..(MaxPacket - 1) :
         Over(buf, 0, frame)[i] = IF i \in 0..(0 + Len(frame) - 1) THEN frame[i - 0 + 1] ELSE buf[i]
  BY OverType
<1>4. \A i \in 0..(Len(frame) - 1) : i - 0 + 1 = i + 1
  BY <1>1
<1> QED BY <1>2, <1>3, <1>4, OverType

\* The arguments of a packet whose checksum is right are bytes of it.
LEMMA ArgsType ==
    ASSUME NEW buf \in Buffers, NEW frame, IsFrame(frame), Len(frame) >= 6, CheckAtEnd(frame)
    PROVE  /\ Len(frame) - HashSize \in Int
           /\ Args(frame) \in Spans(Header, Len(frame) - HashSize)
           /\ Holds(Over(buf, 0, frame), Header, Len(frame) - HashSize)
<1>1. Len(frame) \in Nat /\ Len(frame) >= 7 /\ Len(frame) <= MaxPacket /\ frame \in Seq(Byte)
  <2>1. frame \in Seq(Byte) /\ Len(frame) <= MaxPacket /\ Len(frame) # 6
    BY DEF IsFrame
  <2>2. Len(frame) \in Nat
    BY <2>1
  <2>3. Len(frame) >= 7
    <3>1. PICK k \in Nat : k = Len(frame)
      BY <2>2
    <3>2. k >= 6 /\ k # 6
      BY <2>1, <3>1
    <3>3. k >= 7
      BY <3>2
    <3> QED BY <3>1, <3>3
  <2> QED BY <2>1, <2>2, <2>3
<1>2. Args(frame) \in Spans(Header, Len(frame) - HashSize)
  <2> DEFINE size == Len(frame) - Header - HashSize
  <2>1. size \in Nat /\ Header \in Int /\ Header + size = Len(frame) - HashSize
    BY <1>1, Sizing
  <2>2. Args(frame) = [at |-> Header, size |-> size]
    BY DEF Args
  <2> HIDE DEF size
  <2> QED BY <2>1, <2>2 DEF Spans
<1>3. Over(buf, 0, frame) \in Buffers
  BY <1>1, CopiedFrame
<1>4. \A a \in Header..(Len(frame) - HashSize - 1) : a \in 0..(MaxPacket - 1)
  BY <1>1, Sizing
<1> QED BY <1>1, <1>2, <1>3, <1>4, Sizing DEF Holds, Buffers

\* What poll makes of a frame it has copied and does not call anything for.
Rejected(buf, mem, text) ==
    [buf |-> buf, sent |-> ErrorText(text), called |-> << >>, ram |-> mem]

LEMMA HandleCases ==
    ASSUME NEW buf, NEW mem, NEW frame \in Seq(Byte)
    PROVE  LET copied == Over(buf, 0, frame)
               call == RpcCall(copied[2], copied, Args(frame), ReturnRoom, mem)
           IN  /\ Len(frame) < 6 => Handle(buf, mem, frame) = Rejected(copied, mem, "Bad RPC!")
               /\ Len(frame) >= 6 /\ ~CheckAtEnd(frame) =>
                     Handle(buf, mem, frame) = Rejected(copied, mem, "Corrupted request")
               /\ Len(frame) >= 6 /\ CheckAtEnd(frame) =>
                     Handle(buf, mem, frame) = Respond(copied, call)
<1>1. Len(frame) < 6 <=> ~(Len(frame) >= 6)
  OBVIOUS
<1> QED BY <1>1, Zenon DEF Handle, Rejected, Dispatch, Args

\* One turn of poll's loop pushes something, that fits.
IsHandled(r) ==
    /\ r.buf \in Buffers /\ r.ram \in Memory
    /\ Sendable(r.sent) /\ (r.called # << >> => IsResponse(r.sent))

LEMMA HandleType ==
    ASSUME ApplyTyped, NEW buf \in Buffers, NEW mem \in Memory, NEW frame, IsFrame(frame)
    PROVE  IsHandled(Handle(buf, mem, frame))
<1> DEFINE copied == Over(buf, 0, frame)
           call == RpcCall(copied[2], copied, Args(frame), ReturnRoom, mem)
<1>1. frame \in Seq(Byte) /\ Len(frame) <= MaxPacket
  BY DEF IsFrame
<1>2. copied \in Buffers
  BY <1>1, CopiedFrame
<1>3. /\ Len(frame) < 6 => Handle(buf, mem, frame) = Rejected(copied, mem, "Bad RPC!")
      /\ Len(frame) >= 6 /\ ~CheckAtEnd(frame) =>
            Handle(buf, mem, frame) = Rejected(copied, mem, "Corrupted request")
      /\ Len(frame) >= 6 /\ CheckAtEnd(frame) =>
            Handle(buf, mem, frame) = Respond(copied, call)
  BY <1>1, HandleCases
<1>4. ASSUME Len(frame) >= 6, CheckAtEnd(frame) PROVE IsResult(call)
  <2>1. /\ Len(frame) - HashSize \in Int /\ Header \in Int
        /\ Args(frame) \in Spans(Header, Len(frame) - HashSize)
        /\ Holds(copied, Header, Len(frame) - HashSize)
    BY <1>4, ArgsType, Sizing
  <2> HIDE DEF copied
  <2> QED BY <2>1, RpcCallType
<1> HIDE DEF copied, call
<1>5. \A text \in Reasons : IsHandled(Rejected(copied, mem, text))
  BY <1>2, ErrorSendable DEF Rejected, IsHandled
<1>6. "Bad RPC!" \in Reasons /\ "Corrupted request" \in Reasons
  BY DEF Reasons
<1>7. CASE Len(frame) < 6
  BY <1>3, <1>5, <1>6, <1>7
<1>8. CASE Len(frame) >= 6 /\ ~CheckAtEnd(frame)
  BY <1>3, <1>5, <1>6, <1>8
<1>9. CASE Len(frame) >= 6 /\ CheckAtEnd(frame)
  <2>1. IsHandled(Respond(copied, call))
    BY <1>2, <1>4, <1>9, RespondType DEF IsHandled, IsResult
  <2> QED BY <1>3, <1>9, <2>1
<1>10. Len(frame) < 6 \/ Len(frame) >= 6
  BY <1>1
<1> QED BY <1>7, <1>8, <1>9, <1>10
-----------------------------------------------------------------------------
(* What arrives *)

LEMMA CallOf ==
    ASSUME NEW c, IsCall(c)
    PROVE  /\ c.function \in Byte
           /\ c.types \in Seq(ItemTypes)
           /\ DOMAIN c.types = 1..Len(c.types) /\ DOMAIN c.args = 1..Len(c.types)
           /\ \A i \in 1..Len(c.types) : OfKind(c.types[i], c.args[i])
           /\ Given(c.types, c.args)
BY DEF IsCall, Given, InEight

\* A packet of the host is bytes.
LEMMA HostPacketType ==
    ASSUME NEW seqNo \in Byte, NEW function \in Byte, NEW arguments \in Seq(Byte)
    PROVE  HostPacket(seqNo, function, arguments) \in Seq(Byte)
<1>1. <<RpcChannel, seqNo, function>> \in Seq(Byte)
  <2>1. RpcChannel \in Byte
    BY Widths DEF RpcChannel
  <2> QED BY <2>1
<1> DEFINE body == <<RpcChannel, seqNo, function>> \o arguments
<1>2. body \in Seq(Byte)
  BY <1>1, JoinParts
<1> HIDE DEF body
<1>3. PutAtEnd(body) \in Seq(Byte)
  BY <1>2, PutAtEndType
<1> QED BY <1>3 DEF HostPacket, body

LEMMA HostFrameType ==
    ASSUME NEW seqNo \in Byte, NEW c, IsCall(c)
    PROVE  HostFrame(seqNo, c) \in Seq(Byte)
<1>1. HostList(c.types, c.args) \in Seq(Byte)
  BY CallOf, WriterKept, EncodeTupleAsHost
<1> QED BY <1>1, CallOf, HostPacketType DEF HostFrame

\* and so is what the line makes of it.
LEMMA DamagedType ==
    ASSUME NEW frame \in Seq(Byte), NEW damaged \in Damaged(frame)
    PROVE  damaged \in Seq(Byte)
<1>1. CASE \E i \in DOMAIN frame, change \in {1, Base - 1} :
              damaged = [frame EXCEPT ![i] = (@ + change) % Base]
  <2>1. PICK i \in DOMAIN frame, change \in {1, Base - 1} :
            damaged = [frame EXCEPT ![i] = (@ + change) % Base]
    BY <1>1
  <2>2. frame[i] \in Nat /\ change \in Nat
    BY Widths
  <2>3. (frame[i] + change) % Base \in Byte
    BY <2>2, Widths
  <2> QED BY <2>1, <2>3
<1>2. CASE \E n \in 0..(Len(frame) - 1) : damaged = SubSeq(frame, 1, n)
  BY <1>2
<1>3. CASE damaged = Append(frame, 0)
  <2>1. 0 \in Byte
    BY Widths
  <2> QED BY <1>3, <2>1
<1> QED BY <1>1, <1>2, <1>3 DEF Damaged

LEMMA SeqNoType == packets \in Nat => SeqNo \in Byte
BY Widths DEF SeqNo

\* Every width of an integer type holds what is left of a number in it.
LEMMA InWidthType ==
    ASSUME NEW type, type.kind = "integer", type.bytes \in Sizes, type.signed \in BOOLEAN,
           NEW v \in Int
    PROVE  InWidth(type, v) \in Width(type)
<1> DEFINE modulus == Values[type.bytes]
           low == v % modulus
<1>1. modulus \in Nat /\ modulus > 0 /\ modulus % 2 = 0
  <2>1. type.bytes \in 0..8 /\ type.bytes \in 1..8
    BY DEF Sizes
  <2> QED BY <2>1, ValuesType, ValuesMore
<1>2. InWidth(type, v) = IF type.signed /\ low >= modulus \div 2 THEN low - modulus ELSE low
  BY DEF InWidth
<1>3. Width(type) = IF type.signed THEN -(modulus \div 2)..(modulus \div 2 - 1)
                    ELSE 0..(modulus - 1)
  BY DEF Width
<1> HIDE DEF modulus
<1>4. low \in Nat /\ low < modulus
  BY <1>1
<1> HIDE DEF low
<1>5. modulus = 2 * (modulus \div 2) /\ modulus \div 2 \in Nat
  BY <1>1
<1>6. CASE type.signed
  BY <1>2, <1>3, <1>4, <1>5, <1>6
<1>7. CASE ~type.signed
  BY <1>1, <1>2, <1>3, <1>4, <1>7
<1> QED BY <1>6, <1>7

\* What the host's call means is a memory too.
LEMMA MeantType ==
    ASSUME ApplyTyped, NEW c, IsCall(c), Accepted(c), NEW mem \in Memory
    PROVE  /\ Meant(c, mem).ram \in Memory
           /\ HasKind(Calls[c.function].ret, Meant(c, mem).value)
<1> DEFINE n == c.function
           types == Calls[n].args
           args == [i \in DOMAIN types |-> InWidth(types[i], c.args[i])]
<1>1. n \in Functions /\ types \in Seq(ArgTypes) /\ Len(types) <= Len(c.types)
  BY CallsType DEF Accepted
<1>2. /\ DOMAIN types = 1..Len(types) /\ Len(types) \in Nat
      /\ DOMAIN c.types = 1..Len(c.types) /\ 1..Len(types) \subseteq DOMAIN c.types
  <2> HIDE DEF types
  <2> QED BY <1>1, CallOf
<1>3. ASSUME NEW i \in 1..Len(types)
      PROVE  args[i] \in Decodables /\ HasType(Calls[n].args[i], args[i])
  <2> DEFINE type == Calls[n].args[i]
  <2>1. type \in ArgTypes
    BY <1>1
  <2>2. args[i] = InWidth(type, c.args[i])
    BY <1>2
  <2>3. /\ OfKind(c.types[i], c.args[i]) /\ c.types[i].kind = type.kind
        /\ type.kind = "floating" => Len(c.args[i]) <= type.bytes
    BY <1>2, CallOf DEF Accepted, Accepts
  <2> HIDE DEF type, args
  <2>4. CASE type.kind = "integer" /\ type.bytes \in Sizes /\ type.signed \in BOOLEAN
    <3>1. c.args[i] \in Int
      BY <2>3, <2>4 DEF OfKind
    <3>2. args[i] \in Width(type)
      BY <2>2, <2>4, <3>1, InWidthType
    <3>3. args[i] \in Int
      <4>1. Width(type) \subseteq Int
        BY DEF Width
      <4> QED BY <3>2, <4>1
    <3>4. HasType(type, args[i])
      BY <2>4, <3>2, <3>3 DEF HasType, OfKind
    <3> QED BY <3>3, <3>4 DEF Decodables, type
  <2>5. CASE type.kind = "floating"
    <3>1. args[i] = c.args[i]
      BY <2>2, <2>5 DEF InWidth
    <3>2. args[i] \in Seq(Byte) /\ HasType(type, args[i])
      BY <2>3, <2>5, <3>1 DEF HasType, OfKind
    <3> QED BY <3>2 DEF Decodables, type
  <2>6. CASE type.kind = "bool"
    <3>1. args[i] = c.args[i]
      BY <2>2, <2>6 DEF InWidth
    <3>2. args[i] \in BOOLEAN /\ HasType(type, args[i])
      BY <2>3, <2>6, <3>1 DEF HasType, OfKind
    <3> QED BY <3>2 DEF Decodables, type
  <2>7. CASE type.kind = "span"
    <3>1. args[i] = c.args[i]
      BY <2>2, <2>7 DEF InWidth
    <3>2. args[i] \in Seq(Byte) /\ HasType(type, args[i])
      BY <2>3, <2>7, <3>1 DEF HasType, OfKind
    <3> QED BY <3>2 DEF Decodables, type
  <2> QED BY <2>1, <2>4, <2>5, <2>6, <2>7, ArgKinds
<1>4. Meant(c, mem) = Apply(n, args, mem)
  BY DEF Meant
<1>5. DOMAIN args = 1..Len(types)
  BY <1>2
<1> HIDE DEF args
<1>6. args \in Seq(Decodables) /\ Len(args) = Len(types)
  <2>1. args = [i \in 1..Len(types) |-> args[i]]
    BY <1>5 DEF args
  <2> QED BY <1>2, <1>3, <2>1
<1> QED BY <1>1, <1>3, <1>4, <1>6 DEF ApplyTyped
-----------------------------------------------------------------------------
(* Messages *)

LEMMA MessageOf ==
    ASSUME NEW m, IsMessage(m)
    PROVE  /\ m.level \in 0..7 /\ m.module \in Nat /\ m.text \in Seq(Byte)
           /\ m.types \in Seq(ItemTypes)
           /\ DOMAIN m.types = 1..Len(m.types) /\ DOMAIN m.args = 1..Len(m.types)
           /\ \A i \in 1..Len(m.types) : OfKind(m.types[i], m.args[i])
BY DEF IsMessage

\* The first two bytes of a message.
LEMMA MessageHead ==
    ASSUME NEW level \in 0..7, NEW module \in Nat, module < M, NEW length \in Nat
    PROVE  /\ level * MinorModulus + module \in Byte
           /\ (level * MinorModulus + module) \div MinorModulus = level
           /\ (level * MinorModulus + module) % MinorModulus = module
           /\ <<level * MinorModulus + module, length % Base>> \in Seq(Byte)
<1>1. level * M <= 7 * M /\ level * M \in Nat
  BY Widths
<1>2. level * M + module \in Byte
  BY <1>1, Widths
<1>3. length % Base \in Byte
  BY Widths
<1>5. (level * M + module) \div M = level /\ (level * M + module) % M = module
  BY DivisionParts, Widths
<1> QED BY <1>2, <1>3, <1>5 DEF M

\* What fits of a formatted text, and its terminating zero.
LEMMA PrintedType ==
    ASSUME NEW text \in Seq(Byte), NEW size \in Nat, size >= 1
    PROVE  /\ Printed(text, size) \in Seq(Byte)
           /\ Len(Printed(text, size)) <= size
           /\ Len(text) < size => Printed(text, size) = text \o <<0>>
<1> DEFINE n == Min({Len(text), size - 1})
           part == SubSeq(text, 1, n)
<1>1. n = IF Len(text) <= size - 1 THEN Len(text) ELSE size - 1
  BY MinOfTwo
<1>2. n \in Nat /\ n <= Len(text) /\ n <= size - 1 /\ Len(text) \in Nat
  BY <1>1
<1>3. Printed(text, size) = part \o <<0>>
  BY DEF Printed
<1>4. Len(text) < size => n = Len(text)
  BY <1>1, <1>2
<1> HIDE DEF n
<1>5. part \in Seq(Byte) /\ Len(part) = n
  BY <1>2
<1>6. Len(text) < size => part = text
  BY <1>2, <1>4
<1> HIDE DEF part
<1>7. <<0>> \in Seq(Byte) /\ Len(<<0>>) = 1
  BY Widths
<1>8. part \o <<0>> \in Seq(Byte) /\ Len(part \o <<0>>) = n + 1
  BY <1>5, <1>7, JoinParts
<1> QED BY <1>2, <1>3, <1>6, <1>8

\* The two bytes before its text.
First(m) == m.level * MinorModulus + m.module
Leader(m) == <<First(m), Len(m.text) % Base>>

LEMMA LeaderOf ==
    ASSUME NEW m, IsMessage(m), m.module < MinorModulus
    PROVE  /\ m.text \in Seq(Byte) /\ Len(m.text) \in Nat
           /\ Leader(m) \in Seq(Byte) /\ Len(Leader(m)) = 2
<1>1. m.text \in Seq(Byte) /\ Len(m.text) \in Nat /\ m.level \in 0..7 /\ m.module \in Nat
  BY MessageOf
<1>2. Leader(m) \in Seq(Byte)
  BY <1>1, MessageHead DEF Leader, First, M
<1>3. Len(Leader(m)) = 2
  BY DEF Leader
<1> QED BY <1>1, <1>2, <1>3

\* A message as it is formatted on the device, if it is at all.
LEMMA FormatNowType ==
    ASSUME NEW m, IsMessage(m), m.module < MinorModulus, NEW f, f = FormatNow(First(m), m.text)
    PROVE  /\ f.out \in Seq(Byte) /\ f.size \in Nat /\ f.ok \in BOOLEAN
           /\ f.ok <=> 0 < Len(m.text) /\ Len(m.text) < MaxPacket
           /\ f.size = 2 + Len(m.text)
           /\ Len(m.text) < MaxPacket - 2 =>
                 f.out = Leader(m) \o (m.text \o <<0>>)
<1> DEFINE printed == Printed(m.text, MaxPacket - 2)
           ok == 0 < Len(m.text) /\ Len(m.text) < MaxPacket
           size == 2 + Len(m.text)
<1>1. f = [ok |-> ok, size |-> size, out |-> Leader(m) \o printed]
  BY DEF FormatNow, Leader
<1>2. Len(m.text) \in Nat /\ size \in Nat /\ ok \in BOOLEAN
  BY LeaderOf
<1>3. Leader(m) \in Seq(Byte)
  BY LeaderOf
<1>4. /\ printed \in Seq(Byte)
      /\ Len(m.text) < MaxPacket - 2 => printed = m.text \o <<0>>
  <2>1. MaxPacket - 2 \in Nat /\ MaxPacket - 2 >= 1
    BY Sizing
  <2> QED BY <2>1, LeaderOf, PrintedType
<1> HIDE DEF printed
<1>5. Leader(m) \o printed \in Seq(Byte)
  BY <1>3, <1>4, JoinParts
<1> HIDE DEF ok, size
<1>6. f.ok = ok /\ f.size = size /\ f.out = Leader(m) \o printed
  BY <1>1
<1> QED BY <1>2, <1>4, <1>5, <1>6 DEF ok, size
\* A message whose formatting is left to the host.
LEMMA FormatLaterType ==
    ASSUME NEW m, IsMessage(m), m.module < MinorModulus, 2 + Len(m.text) <= MaxPacket,
           NEW f, f = FormatLater(First(m), m.text, m.types, m.args),
           NEW rest, rest = HostItems(m.types, m.args)
    PROVE  /\ f.out \in Seq(Byte) /\ f.size \in Nat /\ f.ok \in BOOLEAN
           /\ rest \in Seq(Byte)
           /\ f.ok <=> 2 + Len(m.text) + Len(rest) <= MaxPacket
           /\ f.ok => /\ f.size = 2 + Len(m.text) + Len(rest)
                      /\ f.out = Leader(m) \o (m.text \o rest)
<1> DEFINE room == MaxPacket - 2 - Len(m.text)
           w == EncodeItems(m.types, m.args, Writer(room))
           size == 2 + Len(m.text) + Len(w.out)
<1>1. f = [ok |-> w.ok, size |-> size, out |-> Leader(m) \o m.text \o w.out]
  BY DEF FormatLater, Leader
<1>2. Len(m.text) \in Nat /\ room \in Nat
  <2>1. Len(m.text) \in Nat
    BY LeaderOf
  <2>2. room >= 0
    BY <2>1, Sizing
  <2> QED BY <2>1, <2>2, Sizing
<1>3. Leader(m) \in Seq(Byte)
  BY LeaderOf
<1>4. rest \in Seq(Byte) /\ Encodes(Writer(room), rest, w)
  <2>1. Writer(room) \in Writers
    BY <1>2 DEF Writer, Writers
  <2> QED BY <2>1, MessageOf, EncodeItemsAsHost
<1>5. /\ w.ok \in BOOLEAN /\ w.out \in Seq(Byte) /\ Len(w.out) \in Nat
      /\ w.ok <=> Len(rest) <= room
      /\ w.ok => w.out = rest
  <2>1. Writer(room).ok = TRUE /\ Writer(room).room = room /\ Writer(room).out = << >>
    BY DEF Writer
  <2>2. << >> \o rest = rest
    BY <1>4
  <2>3. w.ok \in BOOLEAN /\ w.out \in Seq(Byte)
    BY <1>4, WriterType DEF Encodes
  <2>4. (w.ok <=> Len(rest) <= room) /\ (w.ok => w.out = << >> \o rest)
    BY <1>4, <2>1 DEF Encodes
  <2>5. Len(w.out) \in Nat
    BY <2>3
  <2> QED BY <2>2, <2>3, <2>4, <2>5
<1>6. Len(rest) <= room <=> 2 + Len(m.text) + Len(rest) <= MaxPacket
  <2>1. Len(rest) \in Nat
    BY <1>4
  <2>2. \A a, b \in Nat : b <= MaxPacket - 2 - a <=> 2 + a + b <= MaxPacket
    BY Sizing
  <2> QED BY <1>2, <2>1, <2>2
<1> HIDE DEF w, room
<1>7. Leader(m) \o m.text \o w.out \in Seq(Byte) /\ Leader(m) \o m.text \o w.out = Leader(m) \o (m.text \o w.out)
  <2>1. Leader(m) \o m.text \in Seq(Byte)
    BY <1>3, LeaderOf, JoinParts
  <2>2. (Leader(m) \o m.text) \o w.out \in Seq(Byte)
    BY <1>5, <2>1, JoinParts
  <2>3. (Leader(m) \o m.text) \o w.out = Leader(m) \o (m.text \o w.out)
    BY <1>3, <1>5, LeaderOf, JoinAssociative
  <2> QED BY <2>2, <2>3
<1>8. size \in Nat
  <2>1. \A a, b \in Nat : 2 + a + b \in Nat
    OBVIOUS
  <2> QED BY <1>2, <1>5, <2>1
<1>9. f.ok = w.ok /\ f.size = size /\ f.out = Leader(m) \o m.text \o w.out
  <2> DEFINE out == Leader(m) \o m.text \o w.out
  <2>1. f = [ok |-> w.ok, size |-> size, out |-> out]
    BY <1>1
  <2> HIDE DEF size, out
  <2>2. f.ok = w.ok /\ f.size = size /\ f.out = out
    BY <2>1
  <2> QED BY <2>2 DEF out
<1>10. f.ok => f.size = 2 + Len(m.text) + Len(rest) /\ f.out = Leader(m) \o (m.text \o rest)
  BY <1>5, <1>7, <1>9
<1>11. f.out \in Seq(Byte) /\ f.size \in Nat /\ f.ok \in BOOLEAN
  BY <1>5, <1>7, <1>8, <1>9
<1>12. f.ok <=> 2 + Len(m.text) + Len(rest) <= MaxPacket
  BY <1>5, <1>6, <1>9
<1> QED BY <1>4, <1>10, <1>11, <1>12

\* The data of the message's packet, as the host should get it, and whether it
\* is sent.
Rest(m) == HostItems(m.types, m.args)
Body(m) == Leader(m) \o (m.text \o Rest(m))

Size(m) == 3 + Len(m.text) + Len(Rest(m)) + HashSize

\* It gets as far as txBuf, or to the host.
IsPushed(m) ==
    Size(m) <= MaxPacket /\ m.module < MinorModulus /\ (deferred \/ m.text # << >>)

IsLogged(m) ==
    Size(m) + 2 <= MaxPacket /\ m.module < MinorModulus /\ (deferred \/ m.text # << >>)

\* A message that may be logged in this build.
MayLog(m) ==
    /\ IsMessage(m)
    /\ IF deferred THEN 2 + Len(m.text) <= MaxPacket ELSE m.args = << >>

LEMMA BodyType ==
    ASSUME NEW m, IsMessage(m), m.module < MinorModulus
    PROVE  /\ Body(m) \in Seq(Byte)
           /\ Rest(m) \in Seq(Byte) /\ Len(Rest(m)) \in Nat
           /\ Len(Body(m)) = 2 + Len(m.text) + Len(Rest(m))
<1>1. m.text \in Seq(Byte) /\ Len(m.text) \in Nat /\ Leader(m) \in Seq(Byte) /\ Len(Leader(m)) = 2
  BY LeaderOf
<1>2. Rest(m) \in Seq(Byte)
  BY MessageOf, WriterKept, EncodeItemsAsHost DEF Rest
<1> DEFINE tail == m.text \o Rest(m)
<1>3. tail \in Seq(Byte) /\ Len(tail) = Len(m.text) + Len(Rest(m)) /\ Len(Rest(m)) \in Nat
  BY <1>1, <1>2, JoinParts
<1> HIDE DEF tail
<1>4. Leader(m) \o tail \in Seq(Byte) /\ Len(Leader(m) \o tail) = Len(Leader(m)) + Len(tail)
  BY <1>1, <1>3, JoinParts
<1>5. Body(m) = Leader(m) \o tail
  BY DEF Body, tail
<1> QED BY <1>1, <1>2, <1>3, <1>4, <1>5

\* Without deferred formatting there are no arguments.
LEMMA NoArguments ==
    ASSUME NEW m, IsMessage(m), m.args = << >>
    PROVE  Rest(m) = << >>
<1>1. DOMAIN m.types = 1..Len(m.types) /\ DOMAIN m.args = 1..Len(m.types)
      /\ m.types \in Seq(ItemTypes)
  BY MessageOf
<1>2. DOMAIN m.types = {}
  BY <1>1
<1>3. [i \in DOMAIN m.types |-> HostItem(m.types[i], m.args[i])] = << >>
  BY <1>2
<1>4. FlattenSeq(<< >>) = << >>
  <2> DEFINE none == << >>
  <2>1. none \in Seq(Seq(Byte)) /\ Len(none) = 0
    OBVIOUS
  <2> HIDE DEF none
  <2>2. \E f : f[0] = << >> /\ FlattenSeq(none) = f[Len(none)]
    BY <2>1, FlattenSteps
  <2> QED BY <2>1, <2>2 DEF none
<1> QED BY <1>3, <1>4 DEF HostItems, Rest
LEMMA JoinFront ==
    ASSUME NEW a \in Seq(Byte), NEW b \in Seq(Byte)
    PROVE  SubSeq(a \o b, 1, Len(a)) = a
<1> DEFINE join == a \o b
           front == SubSeq(join, 1, Len(a))
<1>1. /\ join \in Seq(Byte) /\ Len(join) = Len(a) + Len(b) /\ Len(a) \in Nat /\ Len(b) \in Nat
      /\ \A i \in 1..Len(a) : join[i] = a[i]
  BY JoinParts
<1> HIDE DEF join
<1>2. front \in Seq(Byte) /\ Len(front) = Len(a) /\ \A i \in 1..Len(a) : front[i] = join[i]
  BY <1>1
<1> HIDE DEF front
<1>3. front = a
  BY <1>1, <1>2
<1> QED BY <1>3 DEF front, join

\* Which messages are pushed, and that of what is formatted, it is the message
\* that is pushed.
IsFormatted(m, f) ==
    /\ f.out \in Seq(Byte) /\ f.size \in Nat /\ f.ok \in BOOLEAN
    /\ IsPushed(m) <=> f.ok /\ SendFits(f.size)
    /\ IsPushed(m) => f.size <= Len(f.out) /\ SubSeq(f.out, 1, f.size) = Body(m)

LEMMA FormattedType ==
    ASSUME NEW m, MayLog(m), m.module < MinorModulus
    PROVE  IsFormatted(m, Formatted(m))
<1> DEFINE f == Formatted(m)
<1>1. /\ m.text \in Seq(Byte) /\ Len(m.text) \in Nat /\ IsMessage(m)
      /\ Leader(m) \in Seq(Byte) /\ Len(Leader(m)) = 2
  BY LeaderOf DEF MayLog
<1>2. /\ Body(m) \in Seq(Byte) /\ Rest(m) \in Seq(Byte)
      /\ Len(Body(m)) = 2 + Len(m.text) + Len(Rest(m))
  BY <1>1, BodyType
<1>3. Body(m) = Leader(m) \o (m.text \o Rest(m))
  BY DEF Body
<1>4. Len(Rest(m)) \in Nat
  BY <1>2
<1>5. Size(m) <= MaxPacket <=> 7 + Len(m.text) + Len(Rest(m)) <= MaxPacket
  <2>1. Size(m) = 3 + Len(m.text) + Len(Rest(m)) + HashSize
    BY DEF Size
  <2> QED BY <1>1, <1>4, <2>1, Sizing
<1>6. ASSUME NEW size \in Nat PROVE SendFits(size) <=> 5 + size <= MaxPacket
  BY Sizing DEF SendFits
<1>7. CASE deferred
  <2>1. f = FormatLater(First(m), m.text, m.types, m.args)
    BY <1>7 DEF Formatted, First
  <2>2. 2 + Len(m.text) <= MaxPacket
    BY <1>7 DEF MayLog
  <2>3. /\ f.out \in Seq(Byte) /\ f.size \in Nat /\ f.ok \in BOOLEAN
        /\ f.ok <=> 2 + Len(m.text) + Len(Rest(m)) <= MaxPacket
        /\ f.ok => f.size = 2 + Len(m.text) + Len(Rest(m)) /\ f.out = Leader(m) \o (m.text \o Rest(m))
    <3> HIDE DEF f
    <3> QED BY <1>1, <2>1, <2>2, FormatLaterType DEF Rest
  <2> HIDE DEF f
  <2>4. IsPushed(m) <=> 7 + Len(m.text) + Len(Rest(m)) <= MaxPacket
    BY <1>5, <1>7 DEF IsPushed, MayLog
  <2>5. f.ok => f.out = Body(m) /\ f.size = Len(Body(m))
    BY <1>2, <1>3, <2>3
  <2>6. f.ok => (SendFits(f.size) <=> 7 + Len(m.text) + Len(Rest(m)) <= MaxPacket)
    BY <1>1, <1>4, <1>6, <2>3, Sizing
  <2>7. 7 + Len(m.text) + Len(Rest(m)) <= MaxPacket => f.ok
    BY <1>1, <1>4, <2>3, Sizing
  <2>8. SubSeq(Body(m), 1, Len(Body(m))) = Body(m) /\ Len(Body(m)) \in Nat
    BY <1>2
  <2>9. IsPushed(m) => f.size <= Len(f.out) /\ SubSeq(f.out, 1, f.size) = Body(m)
    BY <2>4, <2>5, <2>7, <2>8
  <2>10. IsPushed(m) <=> f.ok /\ SendFits(f.size)
    BY <2>4, <2>6, <2>7
  <2> QED BY <2>3, <2>9, <2>10 DEF IsFormatted, f
<1>8. CASE ~deferred
  <2>1. f = FormatNow(First(m), m.text)
    BY <1>8 DEF Formatted, First
  <2>2. Rest(m) = << >> /\ Len(Rest(m)) = 0
    <3>1. m.args = << >>
      BY <1>8 DEF MayLog
    <3> QED BY <1>1, <3>1, NoArguments
  <2>3. /\ f.out \in Seq(Byte) /\ f.size \in Nat /\ f.ok \in BOOLEAN
        /\ f.ok <=> 0 < Len(m.text) /\ Len(m.text) < MaxPacket
        /\ f.size = 2 + Len(m.text)
        /\ Len(m.text) < MaxPacket - 2 => f.out = Leader(m) \o (m.text \o <<0>>)
    <3> HIDE DEF f
    <3> QED BY <1>1, <2>1, FormatNowType
  <2> HIDE DEF f
  <2>5. m.text # << >> <=> 0 < Len(m.text)
    BY <1>1
  <2>6. IsPushed(m) <=> 7 + Len(m.text) <= MaxPacket /\ 0 < Len(m.text)
    BY <1>1, <1>5, <1>8, <2>2, <2>5 DEF IsPushed
  <2>7. SendFits(f.size) <=> 7 + Len(m.text) <= MaxPacket
    BY <1>1, <1>6, <2>3, Sizing
  <2>8. IsPushed(m) <=> f.ok /\ SendFits(f.size)
    BY <1>1, <2>3, <2>6, <2>7, Sizing
  <2>9. ASSUME IsPushed(m) PROVE f.size <= Len(f.out) /\ SubSeq(f.out, 1, f.size) = Body(m)
    <3> DEFINE message == Leader(m) \o m.text
    <3>1. message \in Seq(Byte) /\ Len(message) = 2 + Len(m.text)
      <4>1. message \in Seq(Byte) /\ Len(message) = Len(Leader(m)) + Len(m.text)
        BY <1>1, JoinParts
      <4> QED BY <1>1, <4>1
    <3>2. <<0>> \in Seq(Byte) /\ Len(<<0>>) = 1
      BY Widths
    <3>3. f.out = message \o <<0>>
      <4>1. f.out = Leader(m) \o (m.text \o <<0>>)
        <5>1. Len(m.text) < MaxPacket - 2
          BY <1>1, <2>6, <2>9, Sizing
        <5> QED BY <2>3, <5>1
      <4> QED BY <1>1, <3>2, <4>1, JoinAssociative
    <3>4. Body(m) = message
      <4>1. m.text \o Rest(m) = m.text
        BY <1>1, <2>2
      <4> QED BY <1>3, <4>1
    <3> HIDE DEF message
    <3>5. Len(f.out) = Len(message) + 1 /\ SubSeq(f.out, 1, Len(message)) = message
      BY <3>1, <3>2, <3>3, JoinParts, JoinFront
    <3>6. f.size = Len(message) /\ Len(message) \in Nat
      BY <2>3, <3>1
    <3> QED BY <3>4, <3>5, <3>6
  <2> QED BY <2>3, <2>8, <2>9 DEF IsFormatted, f
<1> QED BY <1>7, <1>8

\* log() pushes the message, whole, or nothing.
LEMMA LogMessageType ==
    ASSUME NEW m, MayLog(m), NEW buf \in Buffers
    PROVE  LET r == LogMessage(m, buf)
           IN  /\ r.buf \in Buffers /\ Sendable(r.sent)
               /\ IsPushed(m) => r.sent = Pushed(PutAtEnd(<<LogChannel>> \o Body(m)))
               /\ ~IsPushed(m) => r.sent = Nothing
<1> DEFINE f == Formatted(m)
           left == Over(buf, 0, f.out)
           s == Send(left, LogChannel, 0, f.size)
           r == LogMessage(m, buf)
<1>1. m.module \in Nat /\ MinorModulus \in Nat
  BY MessageOf, Widths DEF MayLog, M
<1>2. CASE m.module > MinorModulus - 1
  <2>1. r = [buf |-> buf, sent |-> Nothing]
    BY <1>2 DEF LogMessage
  <2>2. ~IsPushed(m)
    BY <1>1, <1>2 DEF IsPushed
  <2> QED BY <2>1, <2>2, NothingSendable
<1>3. CASE ~(m.module > MinorModulus - 1)
  <2>1. IsFormatted(m, f)
    BY <1>1, <1>3, FormattedType
  <2>2. r = IF ~f.ok THEN [buf |-> left, sent |-> Nothing] ELSE s
    BY <1>3 DEF LogMessage
  <2> HIDE DEF f, r
  <2>3. left \in Buffers
    BY <2>1, OverType DEF IsFormatted
  <2>4. CASE ~f.ok
    <3>1. r.buf = left /\ r.sent = Nothing
      BY <2>2, <2>4
    <3>2. ~IsPushed(m)
      BY <2>1, <2>4 DEF IsFormatted
    <3> HIDE DEF left
    <3> QED BY <2>3, <3>1, <3>2, NothingSendable DEF r
  <2>5. CASE f.ok
    <3>1. r = s
      BY <2>2, <2>5
    <3>2. LogChannel \in Byte /\ f.size \in Nat /\ f.out \in Seq(Byte)
      BY <2>1, Widths DEF LogChannel, IsFormatted
    <3>3. IsPushed(m) => Slice(left, 0, f.size) = Body(m)
      <4>1. ASSUME IsPushed(m) PROVE Slice(left, 0, f.size) = Body(m)
        <5>1. f.size <= Len(f.out) /\ SubSeq(f.out, 1, f.size) = Body(m) /\ SendFits(f.size)
          BY <2>1, <4>1 DEF IsFormatted
        <5>2. f.size \in 0..Len(f.out) /\ 0 + f.size <= MaxPacket
          BY <3>2, <5>1, Sizing DEF SendFits
        <5> QED BY <3>2, <5>1, <5>2, SliceOver
      <4> QED BY <4>1
    <3> HIDE DEF left
    <3>4. /\ s.buf \in Buffers /\ Sendable(s.sent)
          /\ SendFits(f.size) =>
                s.sent = Pushed(PutAtEnd(<<LogChannel>> \o Slice(left, 0, f.size)))
          /\ ~SendFits(f.size) => s.sent = Nothing
      BY <2>3, <3>2, SendType
    <3> HIDE DEF s
    <3>5. IsPushed(m) <=> SendFits(f.size)
      BY <2>1, <2>5 DEF IsFormatted
    <3>6. IsPushed(m) => s.sent = Pushed(PutAtEnd(<<LogChannel>> \o Body(m)))
      BY <3>3, <3>4, <3>5
    <3>7. ~IsPushed(m) => s.sent = Nothing
      BY <3>4, <3>5
    <3> QED BY <3>1, <3>4, <3>6, <3>7 DEF r
  <2> QED BY <2>4, <2>5
<1> QED BY <1>2, <1>3

\* Of the messages that it pushes, the host gets those that are not dropped.
LEMMA LogMessageSends ==
    ASSUME NEW m, MayLog(m), NEW buf \in Buffers, NEW sends, sends = LogMessage(m, buf).sent
    PROVE  /\ IsLogged(m) => sends = Packet(PutAtEnd(<<LogChannel>> \o Body(m)))
           /\ ~IsLogged(m) => sends.what \in {"nothing", "dropped"}
<1> DEFINE bytes == PutAtEnd(<<LogChannel>> \o Body(m))
<1>1. /\ IsPushed(m) => sends = Pushed(bytes)
      /\ ~IsPushed(m) => sends = Nothing
  BY LogMessageType
<1>2. m.module < MinorModulus => Size(m) \in Nat
  BY BodyType, MessageOf, Sizing DEF MayLog, Size
<1>3. IsLogged(m) <=> IsPushed(m) /\ Size(m) + 2 <= MaxPacket
  BY <1>2, Sizing DEF IsLogged, IsPushed
<1>4. CASE IsPushed(m)
  <2>1. IsMessage(m) /\ m.module < MinorModulus
    BY <1>4 DEF MayLog, IsPushed
  <2>2. /\ Body(m) \in Seq(Byte) /\ Len(m.text) \in Nat /\ Len(Rest(m)) \in Nat
        /\ Len(Body(m)) = 2 + Len(m.text) + Len(Rest(m))
    BY <2>1, BodyType, MessageOf
  <2>3. Len(bytes) = Size(m) /\ Size(m) \in Nat
    <3> DEFINE body == <<LogChannel>> \o Body(m)
    <3>1. <<LogChannel>> \in Seq(Byte) /\ Len(<<LogChannel>>) = 1
      BY Widths DEF LogChannel
    <3>2. body \in Seq(Byte) /\ Len(body) = 1 + Len(Body(m)) /\ bytes = PutAtEnd(body)
      BY <2>2, <3>1, JoinParts
    <3> HIDE DEF body, bytes
    <3>3. Len(bytes) = Len(body) + 4
      BY <3>2, PutAtEndType, Sizing
    <3> QED BY <2>2, <3>2, <3>3, Sizing DEF Size
  <2> HIDE DEF bytes
  <2>4. sends = IF Len(bytes) + 2 <= MaxPacket THEN Packet(bytes) ELSE Dropped(bytes)
    BY <1>1, <1>4 DEF Pushed
  <2> QED BY <1>3, <1>4, <2>3, <2>4 DEF Dropped, bytes
<1>5. CASE ~IsPushed(m)
  BY <1>1, <1>3, <1>5 DEF Nothing
<1> QED BY <1>4, <1>5

LEMMA BodyParts ==
    ASSUME NEW m, IsMessage(m), m.module < MinorModulus
    PROVE  /\ Body(m)[1] = First(m) /\ Body(m)[2] = Len(m.text) % Base
           /\ \A i \in 1..Len(m.text) : Body(m)[2 + i] = m.text[i]
           /\ \A i \in 1..Len(Rest(m)) : Body(m)[2 + Len(m.text) + i] = Rest(m)[i]
<1> DEFINE tail == m.text \o Rest(m)
<1>1. /\ m.text \in Seq(Byte) /\ Len(m.text) \in Nat /\ Rest(m) \in Seq(Byte)
      /\ Len(Rest(m)) \in Nat /\ Leader(m) \in Seq(Byte) /\ Len(Leader(m)) = 2
  BY LeaderOf, BodyType
<1>2. /\ tail \in Seq(Byte) /\ Len(tail) = Len(m.text) + Len(Rest(m))
      /\ \A i \in 1..Len(m.text) : tail[i] = m.text[i]
      /\ \A i \in 1..Len(Rest(m)) : tail[Len(m.text) + i] = Rest(m)[i]
  BY <1>1, JoinParts
<1> HIDE DEF tail
<1>3. /\ \A i \in 1..Len(Leader(m)) : (Leader(m) \o tail)[i] = Leader(m)[i]
      /\ \A i \in 1..Len(tail) : (Leader(m) \o tail)[Len(Leader(m)) + i] = tail[i]
  BY <1>1, <1>2, JoinParts
<1>4. Body(m) = Leader(m) \o tail
  BY DEF Body, tail
<1>5. /\ \A i \in 1..2 : Body(m)[i] = Leader(m)[i]
      /\ \A i \in 1..Len(tail) : Body(m)[2 + i] = tail[i]
  BY <1>1, <1>3, <1>4
<1>6. Leader(m)[1] = First(m) /\ Leader(m)[2] = Len(m.text) % Base
  BY DEF Leader
<1>7. \A i \in 1..Len(m.text) : Body(m)[2 + i] = m.text[i]
  BY <1>1, <1>2, <1>5
<1>8. ASSUME NEW i \in 1..Len(Rest(m)) PROVE Body(m)[2 + Len(m.text) + i] = Rest(m)[i]
  <2>1. Len(m.text) + i \in 1..Len(tail)
    BY <1>1, <1>2
  <2>2. Body(m)[2 + (Len(m.text) + i)] = tail[Len(m.text) + i]
    BY <1>5, <2>1
  <2>3. 2 + (Len(m.text) + i) = 2 + Len(m.text) + i
    BY <1>1
  <2> QED BY <1>2, <2>2, <2>3
<1>9. Body(m)[1] = First(m) /\ Body(m)[2] = Len(m.text) % Base
  <2>1. 1 \in 1..2 /\ 2 \in 1..2
    OBVIOUS
  <2>2. Body(m)[1] = Leader(m)[1] /\ Body(m)[2] = Leader(m)[2]
    BY <1>5, <2>1
  <2> QED BY <1>6, <2>2
<1> QED BY <1>7, <1>8, <1>9

\* The host finds level, module, text and arguments again, if the length of the
\* text fits its byte.
LEMMA HostLogReads ==
    ASSUME NEW m, IsMessage(m), m.module < MinorModulus, Len(m.text) < Base
    PROVE  HostLog(Body(m)) = [level |-> m.level, module |-> m.module,
                               text |-> m.text, rest |-> Rest(m)]
<1> DEFINE data == Body(m)
           end == Min({2 + data[2], Len(data)})
           n == Len(m.text)
<1>1. /\ m.text \in Seq(Byte) /\ n \in Nat /\ Rest(m) \in Seq(Byte) /\ Len(Rest(m)) \in Nat
      /\ data \in Seq(Byte) /\ Len(data) = 2 + n + Len(Rest(m))
  BY LeaderOf, BodyType
<1>2. /\ data[1] = First(m) /\ data[2] = n % Base
      /\ \A i \in 1..n : data[2 + i] = m.text[i]
      /\ \A i \in 1..Len(Rest(m)) : data[2 + n + i] = Rest(m)[i]
  BY BodyParts
<1>3. data[1] \div MinorModulus = m.level /\ data[1] % MinorModulus = m.module
  <2>1. m.level \in 0..7 /\ m.module \in Nat /\ m.module < M /\ 0 \in Nat
    BY MessageOf DEF M
  <2>2. First(m) \div MinorModulus = m.level /\ First(m) % MinorModulus = m.module
    BY <2>1, MessageHead DEF First
  <2> QED BY <1>2, <2>2
<1>4. HostLog(data) = [level |-> data[1] \div MinorModulus, module |-> data[1] % MinorModulus,
                       text |-> SubSeq(data, 3, end), rest |-> SubSeq(data, end + 1, Len(data))]
  BY DEF HostLog
<1> HIDE DEF data
<1>5. n < Base
  OBVIOUS
<1> HIDE DEF n
<1>9. n % Base = n
  BY <1>1, <1>5, SmallRemainder, Widths
<1>6. end = 2 + n
  <2>1. Min({2 + n, Len(data)}) = 2 + n
    BY <1>1, MinOfTwo
  <2> QED BY <1>2, <1>9, <2>1
<1> HIDE DEF end
<1>7. SubSeq(data, 3, 2 + n) = m.text
  <2> DEFINE part == SubSeq(data, 3, 2 + n)
  <2>1. part \in Seq(Byte) /\ Len(part) = n /\ \A i \in 1..n : part[i] = data[2 + i]
    BY <1>1
  <2> HIDE DEF part
  <2>2. Len(part) = Len(m.text) /\ \A i \in 1..Len(part) : part[i] = m.text[i]
    BY <1>2, <2>1 DEF n
  <2>3. part = m.text
    BY <1>1, <2>1, <2>2, SameSequence
  <2> QED BY <2>3 DEF part
<1>8. SubSeq(data, 2 + n + 1, Len(data)) = Rest(m)
  <2> DEFINE part == SubSeq(data, 2 + n + 1, Len(data))
  <2>1. /\ part \in Seq(Byte) /\ Len(part) = Len(Rest(m))
        /\ \A i \in 1..Len(Rest(m)) : part[i] = data[2 + n + i]
    BY <1>1, SMTT(30)
  <2> HIDE DEF part
  <2>2. part = Rest(m)
    BY <1>1, <1>2, <2>1
  <2> QED BY <2>2 DEF part
<1> QED BY <1>3, <1>4, <1>6, <1>7, <1>8 DEF data

\* A packet is what its channel, its data and its checksum are.
LEMMA PacketParts ==
    ASSUME NEW channel \in Byte, NEW data \in Seq(Byte)
    PROVE  LET bytes == PutAtEnd(<<channel>> \o data)
           IN  /\ CheckAtEnd(bytes) /\ bytes[1] = channel
               /\ SubSeq(bytes, 2, Len(bytes) - HashSize) = data
<1> DEFINE body == <<channel>> \o data
           bytes == PutAtEnd(body)
<1>1. <<channel>> \in Seq(Byte) /\ Len(<<channel>>) = 1 /\ <<channel>>[1] = channel
  OBVIOUS
<1>2. /\ body \in Seq(Byte) /\ Len(body) = 1 + Len(data) /\ Len(data) \in Nat
      /\ body[1] = channel /\ \A i \in 1..Len(data) : body[1 + i] = data[i]
  <2>1. /\ body \in Seq(Byte) /\ Len(body) = Len(<<channel>>) + Len(data) /\ Len(data) \in Nat
        /\ \A i \in 1..Len(<<channel>>) : body[i] = <<channel>>[i]
        /\ \A i \in 1..Len(data) : body[Len(<<channel>>) + i] = data[i]
    BY <1>1, JoinParts
  <2> HIDE DEF body
  <2> QED BY <1>1, <2>1
<1> HIDE DEF body
<1>3. /\ bytes \in Seq(Byte) /\ Len(bytes) = Len(body) + 4 /\ CheckAtEnd(bytes)
      /\ \A i \in 1..Len(body) : bytes[i] = body[i]
  BY <1>2, PutAtEndType, Sizing
<1> HIDE DEF bytes
<1>4. bytes[1] = channel
  BY <1>2, <1>3
<1>5. SubSeq(bytes, 2, Len(bytes) - HashSize) = data
  <2> DEFINE part == SubSeq(bytes, 2, Len(bytes) - HashSize)
  <2>1. Len(bytes) - HashSize = 1 + Len(data)
    BY <1>2, <1>3, Sizing
  <2>2. /\ part \in Seq(Byte) /\ Len(part) = Len(data)
        /\ \A i \in 1..Len(data) : part[i] = bytes[1 + i]
    BY <1>2, <1>3, <2>1
  <2> HIDE DEF part
  <2>3. ASSUME NEW i \in 1..Len(data) PROVE bytes[1 + i] = data[i]
    <3>1. 1 + i \in 1..Len(body)
      BY <1>2
    <3>2. bytes[1 + i] = body[1 + i]
      BY <1>3, <3>1
    <3> QED BY <1>2, <3>2
  <2>4. part = data
    BY <1>2, <2>2, <2>3
  <2> QED BY <2>4 DEF part
<1> QED BY <1>3, <1>4, <1>5 DEF bytes, body
-----------------------------------------------------------------------------
(* What a response is made of *)

\* The result is encoded where it is sent from: behind its header.
LEMMA ResponseBytes ==
    ASSUME NEW buf \in Buffers, NEW out \in Seq(Byte), Len(out) <= ReturnRoom,
           NEW head \in Seq(Byte), Len(head) = 2
    PROVE  Slice(Over(Over(buf, Header, out), 1, head), 1, 2 + Len(out)) = head \o out
<1> DEFINE left == Over(buf, Header, out)
           full == Over(left, 1, head)
           n == Len(out)
           slice == Slice(full, 1, 2 + n)
           join == head \o out
<1>1. n \in Nat /\ 2 + n \in Nat /\ 1 + (2 + n) <= MaxPacket /\ Header = 3
  BY Sizing
<1>2. /\ left \in Buffers
      /\ \A i \in 1..n : left[3 + i - 1] = out[i]
  <2>1. 3 \in Nat /\ 3 + Len(out) <= MaxPacket /\ left = Over(buf, 3, out)
    BY <1>1
  <2> HIDE DEF left
  <2> QED BY <2>1, OverParts
<1> HIDE DEF left
<1>3. /\ full \in Buffers
      /\ \A i \in 1..2 : full[1 + i - 1] = head[i]
      /\ \A i \in 0..(MaxPacket - 1) : i < 1 \/ i >= 1 + 2 => full[i] = left[i]
  <2>1. 1 \in Nat /\ 1 + Len(head) <= MaxPacket /\ full = Over(left, 1, head)
    BY Sizing
  <2> HIDE DEF full
  <2>2. /\ full \in Buffers
        /\ \A i \in 1..Len(head) : full[1 + i - 1] = head[i]
        /\ \A i \in 0..(MaxPacket - 1) : i < 1 \/ i >= 1 + Len(head) => full[i] = left[i]
    BY <1>2, <2>1, OverParts
  <2> QED BY <2>2
<1>4. /\ join \in Seq(Byte) /\ Len(join) = 2 + n
      /\ \A i \in 1..Len(head) : join[i] = head[i]
      /\ \A i \in 1..n : join[Len(head) + i] = out[i]
  <2>1. /\ join \in Seq(Byte) /\ Len(join) = Len(head) + Len(out)
        /\ \A i \in 1..Len(head) : join[i] = head[i]
        /\ \A i \in 1..Len(out) : join[Len(head) + i] = out[i]
    BY JoinParts
  <2> HIDE DEF join
  <2> QED BY <2>1
<1> HIDE DEF full, n, join
<1>5. /\ slice \in Seq(Byte) /\ Len(slice) = 2 + n
      /\ \A i \in 1..(2 + n) : slice[i] = full[1 + i - 1]
  BY <1>1, <1>3, SliceType
<1> HIDE DEF slice
<1>6. ASSUME NEW i \in 1..2 PROVE slice[i] = join[i]
  <2>1. i \in 1..(2 + n) /\ i \in 1..Len(head)
    BY <1>1
  <2> QED BY <1>3, <1>4, <1>5, <2>1
<1>7. ASSUME NEW i \in 1..n PROVE slice[2 + i] = join[2 + i]
  <2>1. /\ 2 + i \in 1..(2 + n) /\ 2 + i \in 0..(MaxPacket - 1) /\ 1 + (2 + i) - 1 = 2 + i
        /\ 2 + i >= 1 + 2 /\ 3 + i - 1 = 2 + i
    BY <1>1, Sizing
  <2>2. full[2 + i] = left[2 + i]
    BY <1>3, <2>1
  <2>3. left[2 + i] = out[i]
    BY <1>2, <2>1
  <2> QED BY <1>4, <1>5, <2>1, <2>2, <2>3
<1>8. ASSUME NEW i \in 1..(2 + n) PROVE slice[i] = join[i]
  <2>1. CASE i \in 1..2
    BY <1>6, <2>1
  <2>2. CASE i \notin 1..2
    <3>1. i - 2 \in 1..n /\ i = 2 + (i - 2)
      BY <1>1, <2>2
    <3> QED BY <1>7, <3>1
  <2> QED BY <2>1, <2>2
<1>9. slice = join
  BY <1>4, <1>5, <1>8
<1> QED BY <1>9 DEF slice, join, full, left, n

ResponseOf(head, out) == PutAtEnd(<<RpcChannel>> \o (head \o out))

\* A response has nothing of the buffer but what its header has.
LEMMA RespondSends ==
    ASSUME NEW buf \in Buffers, NEW r, IsResult(r)
    PROVE  /\ r.ok => Respond(buf, r).sent = Pushed(ResponseOf(ResponseHead(buf), r.out))
           /\ ~r.ok => Respond(buf, r).sent = ErrorText("RPC failed")
<1> DEFINE left == Over(buf, Header, r.out)
           full == Over(left, 1, ResponseHead(buf))
           response == IF r.ok THEN Send(full, RpcChannel, 1, 2 + Len(r.out))
                       ELSE [buf |-> left, sent |-> ErrorText("RPC failed")]
<1>1. Respond(buf, r) = [buf |-> response.buf, sent |-> response.sent,
                         called |-> r.called, ram |-> r.ram]
  BY DEF Respond, ResponseHead
<1> HIDE DEF response
<1>2. Respond(buf, r).sent = response.sent
  BY <1>1
<1>3. r.out \in Seq(Byte) /\ Len(r.out) \in Nat /\ Len(r.out) <= ReturnRoom
  BY DEF IsResult
<1>4. ResponseHead(buf) \in Seq(Byte) /\ Len(ResponseHead(buf)) = 2
  BY ResponseHeadType
<1>5. Slice(full, 1, 2 + Len(r.out)) = ResponseHead(buf) \o r.out
  BY <1>3, <1>4, ResponseBytes
<1>6. full \in Buffers
  <2>1. left \in Buffers
    BY <1>3, Sizing, OverType
  <2> HIDE DEF left
  <2> QED BY <1>4, <2>1, OverType
<1> HIDE DEF full, left
<1>7. CASE r.ok
  <2> DEFINE size == 2 + Len(r.out)
             s == Send(full, RpcChannel, 1, size)
  <2>1. size \in Nat /\ SendFits(size)
    BY <1>3, Sizing DEF SendFits
  <2>2. RpcChannel \in Byte
    BY Widths DEF RpcChannel
  <2>3. response = s
    BY <1>7 DEF response
  <2>4. Slice(full, 1, size) = ResponseHead(buf) \o r.out
    BY <1>5
  <2> HIDE DEF size
  <2>5. s.sent = Pushed(PutAtEnd(<<RpcChannel>> \o Slice(full, 1, size)))
    BY <1>6, <2>1, <2>2, SendType
  <2> HIDE DEF s
  <2> QED BY <1>2, <1>7, <2>3, <2>4, <2>5 DEF ResponseOf
<1>8. CASE ~r.ok
  <2>1. response.sent = ErrorText("RPC failed")
    BY <1>8 DEF response
  <2> QED BY <1>2, <1>8, <2>1
<1> QED BY <1>7, <1>8

\* What poll does for a frame is decided by the frame and the memory.
SameHandled(r, s) == r.called = s.called /\ r.sent = s.sent /\ r.ram = s.ram

LEMMA HandleSame ==
    ASSUME ApplyTyped, NEW buf \in Buffers, NEW other \in Buffers, NEW mem \in Memory,
           NEW frame, IsFrame(frame)
    PROVE  SameHandled(Handle(buf, mem, frame), Handle(other, mem, frame))
<1> DEFINE ours == Over(buf, 0, frame)
           theirs == Over(other, 0, frame)
           call(b) == RpcCall(b[2], b, Args(frame), ReturnRoom, mem)
<1>1. frame \in Seq(Byte) /\ Len(frame) <= MaxPacket /\ Len(frame) \in Nat
  BY DEF IsFrame
<1>2. /\ ours \in Buffers /\ theirs \in Buffers
      /\ \A i \in 0..(Len(frame) - 1) : ours[i] = frame[i + 1] /\ theirs[i] = frame[i + 1]
  BY <1>1, CopiedFrame
<1>3. /\ Len(frame) < 6 =>
            /\ Handle(buf, mem, frame) = Rejected(ours, mem, "Bad RPC!")
            /\ Handle(other, mem, frame) = Rejected(theirs, mem, "Bad RPC!")
      /\ Len(frame) >= 6 /\ ~CheckAtEnd(frame) =>
            /\ Handle(buf, mem, frame) = Rejected(ours, mem, "Corrupted request")
            /\ Handle(other, mem, frame) = Rejected(theirs, mem, "Corrupted request")
      /\ Len(frame) >= 6 /\ CheckAtEnd(frame) =>
            /\ Handle(buf, mem, frame) = Respond(ours, call(ours))
            /\ Handle(other, mem, frame) = Respond(theirs, call(theirs))
  BY <1>1, HandleCases
<1>4. ASSUME Len(frame) >= 6, CheckAtEnd(frame)
      PROVE  SameHandled(Respond(ours, call(ours)), Respond(theirs, call(theirs)))
  <2>1. /\ Len(frame) - HashSize \in Int /\ Header \in Int
        /\ Args(frame) \in Spans(Header, Len(frame) - HashSize)
        /\ Holds(ours, Header, Len(frame) - HashSize)
        /\ Holds(theirs, Header, Len(frame) - HashSize)
    BY <1>4, ArgsType, Sizing
  <2>2. Agree(ours, theirs, Header, Len(frame) - HashSize)
    <3>1. \A i \in Header..(Len(frame) - HashSize - 1) : i \in 0..(Len(frame) - 1)
      BY <1>1, Sizing
    <3> QED BY <1>2, <3>1 DEF Agree
  <2>3. ours[1] = theirs[1] /\ ours[2] = theirs[2]
    <3>1. 1 \in 0..(Len(frame) - 1) /\ 2 \in 0..(Len(frame) - 1)
      BY <1>1, <1>4
    <3> QED BY <1>2, <3>1
  <2> HIDE DEF ours, theirs
  <2>4. call(ours) = call(theirs)
    <3>1. RpcCall(ours[2], ours, Args(frame), ReturnRoom, mem)
              = RpcCall(ours[2], theirs, Args(frame), ReturnRoom, mem)
      BY <2>1, <2>2, RpcCallSame
    <3> QED BY <2>3, <3>1
  <2>5. IsResult(call(ours))
    BY <2>1, RpcCallType
  <2> DEFINE r == call(ours)
  <2>6. r = call(theirs) /\ IsResult(r)
    BY <2>4, <2>5
  <2> HIDE DEF r
  <2>7. ResponseHead(ours) = ResponseHead(theirs)
    BY <2>3 DEF ResponseHead
  <2>8. SameHandled(Respond(ours, r), Respond(theirs, r))
    <3>1. Respond(ours, r).sent = Respond(theirs, r).sent
      <4>1. CASE r.ok
        BY <1>2, <2>6, <2>7, <4>1, RespondSends
      <4>2. CASE ~r.ok
        BY <1>2, <2>6, <4>2, RespondSends
      <4> QED BY <4>1, <4>2
    <3>2. /\ Respond(ours, r).called = r.called /\ Respond(ours, r).ram = r.ram
          /\ Respond(theirs, r).called = r.called /\ Respond(theirs, r).ram = r.ram
      BY <1>2, <2>6, RespondType
    <3> QED BY <3>1, <3>2 DEF SameHandled
  <2> QED BY <2>6, <2>8 DEF r
<1>5. \A text : SameHandled(Rejected(ours, mem, text), Rejected(theirs, mem, text))
  BY DEF SameHandled, Rejected
<1> HIDE DEF ours, theirs, call
<1>6. CASE Len(frame) < 6
  BY <1>3, <1>5, <1>6
<1>7. CASE Len(frame) >= 6 /\ ~CheckAtEnd(frame)
  BY <1>3, <1>5, <1>7
<1>8. CASE Len(frame) >= 6 /\ CheckAtEnd(frame)
  BY <1>3, <1>4, <1>8
<1>9. Len(frame) < 6 \/ Len(frame) >= 6
  BY <1>1
<1> QED BY <1>6, <1>7, <1>8, <1>9
-----------------------------------------------------------------------------
(* Steps *)

LEMMA PollHandles ==
    ASSUME ApplyTyped, pktBuf \in Buffers, ram \in Memory,
           NEW frame \in Seq(Byte), Poll(frame)
    PROVE  /\ IsFrame(frame)
           /\ pktBuf' \in Buffers /\ ram' \in Memory
           /\ Sendable(sent') /\ (called' # << >> => IsResponse(sent'))
           /\ SameHandled([called |-> called', sent |-> sent', ram |-> ram'],
                          Handle(pktBuf, ram, frame))
<1> DEFINE r == Handle(pktBuf, ram, frame)
<1>1. pktBuf' = r.buf /\ ram' = r.ram /\ called' = r.called /\ sent' = r.sent
  BY DEF Poll
<1>2. IsFrame(frame)
  BY DEF Poll, IsFrame
<1> HIDE DEF r
<1>3. IsHandled(r)
  BY <1>2, HandleType DEF r
<1>4. SameHandled([called |-> called', sent |-> sent', ram |-> ram'], r)
  BY <1>1 DEF SameHandled
<1> QED BY <1>1, <1>2, <1>3, <1>4 DEF IsHandled, r

LEMMA TypedParts ==
    TypeOK <=> /\ deferred \in BOOLEAN /\ pktBuf \in Buffers
               /\ ram \in Memory /\ written \in Memory
               /\ Sendable(sent) /\ packets \in 0..MaxPackets
BY DEF TypeOK, Buffers, Memory, Sendable, Reasons

\* What the calls of Next are.
LEMMA Inputs ==
    /\ \A i \in DOMAIN HostCalls : \A c \in HostCalls[i] : IsCall(c)
    /\ \A i \in DOMAIN DamagedCalls : \A c \in DamagedCalls[i] : IsCall(c)
    /\ \A c \in ForeignCalls : c.function \in Byte /\ c.bytes \in Seq(Byte)
    /\ \A i \in DOMAIN LogCalls : \A m \in LogCalls[i] : IsMessage(m)
BY CcfPacketsAssumption

LEMMA LogMayLog ==
    ASSUME NEW m, IsMessage(m), Log(m)
    PROVE  /\ MayLog(m)
           /\ pktBuf' = LogMessage(m, pktBuf).buf /\ sent' = LogMessage(m, pktBuf).sent
BY DEF Log, MayLog

LEMMA InitTyped == Init => TypeOK
<1> SUFFICES ASSUME Init PROVE TypeOK
  OBVIOUS
<1>1. 0 \in Byte
  BY Widths
<1>2. pktBuf \in Buffers /\ ram \in Memory /\ written \in Memory
  BY <1>1 DEF Init, Buffers, Memory
<1>3. Sendable(sent)
  BY NothingSendable DEF Init
<1> QED BY <1>2, <1>3, Sizing, TypedParts DEF Init

LEMMA ArrivalsTyped ==
    ASSUME packets \in 0..MaxPackets, deferred \in BOOLEAN, Arrives
    PROVE  packets' \in 0..MaxPackets /\ deferred' \in BOOLEAN
BY Sizing DEF Arrives

\* Each step keeps the types.
LEMMA StepTyped ==
    ASSUME ApplyTyped, TypeOK, [Next]_vars
    PROVE  TypeOK'
<1>1. /\ deferred \in BOOLEAN /\ pktBuf \in Buffers
      /\ ram \in Memory /\ written \in Memory
      /\ Sendable(sent) /\ packets \in 0..MaxPackets
  BY TypedParts
<1>2. SeqNo \in Byte
  BY <1>1, SeqNoType
<1>3. ASSUME Arrives, pktBuf' \in Buffers, ram' \in Memory, written' \in Memory,
             Sendable(sent')
      PROVE  TypeOK'
  <2>1. packets' \in 0..MaxPackets /\ deferred' \in BOOLEAN
    BY <1>1, <1>3, ArrivalsTyped
  <2> QED BY <1>3, <2>1 DEF TypeOK, Buffers, Memory, Sendable, Reasons
<1>4. ASSUME NEW i \in DOMAIN HostCalls, NEW c \in HostCalls[i], PollHost(c)
      PROVE  TypeOK'
  <2>1. IsCall(c) /\ HostFrame(SeqNo, c) \in Seq(Byte)
    BY <1>2, Inputs, HostFrameType
  <2>2. Arrives /\ Poll(HostFrame(SeqNo, c))
    BY <1>4 DEF PollHost
  <2>3. pktBuf' \in Buffers /\ ram' \in Memory /\ Sendable(sent')
    BY <1>1, <2>1, <2>2, PollHandles
  <2>4. written' \in Memory
    <3>1. written' = IF Accepted(c) THEN Meant(c, written).ram ELSE written
      BY <1>4 DEF PollHost
    <3>2. CASE Accepted(c)
      BY <1>1, <2>1, <3>1, <3>2, MeantType
    <3>3. CASE ~Accepted(c)
      BY <1>1, <3>1, <3>3
    <3> QED BY <3>2, <3>3
  <2> QED BY <1>3, <2>2, <2>3, <2>4
<1>5. ASSUME NEW i \in DOMAIN DamagedCalls, NEW c \in DamagedCalls[i],
             NEW frame \in Damaged(HostFrame(SeqNo, c)), PollDamaged(frame)
      PROVE  TypeOK'
  <2>1. IsCall(c) /\ HostFrame(SeqNo, c) \in Seq(Byte)
    BY <1>2, Inputs, HostFrameType
  <2>2. frame \in Seq(Byte)
    BY <2>1, DamagedType
  <2>3. Arrives /\ Poll(frame) /\ written' = written
    BY <1>5 DEF PollDamaged
  <2>4. pktBuf' \in Buffers /\ ram' \in Memory /\ Sendable(sent')
    BY <1>1, <2>2, <2>3, PollHandles
  <2> QED BY <1>1, <1>3, <2>3, <2>4
<1>6. ASSUME NEW c \in ForeignCalls, PollForeign(c) PROVE TypeOK'
  <2>1. HostPacket(SeqNo, c.function, c.bytes) \in Seq(Byte)
    BY <1>2, Inputs, HostPacketType
  <2>2. Arrives /\ Poll(HostPacket(SeqNo, c.function, c.bytes)) /\ written' = ram'
    BY <1>6 DEF PollForeign
  <2>3. pktBuf' \in Buffers /\ ram' \in Memory /\ Sendable(sent')
    BY <1>1, <2>1, <2>2, PollHandles
  <2> QED BY <1>3, <2>2, <2>3
<1>7. ASSUME NEW i \in DOMAIN LogCalls, NEW m \in LogCalls[i], Log(m) PROVE TypeOK'
  <2>1. /\ MayLog(m)
        /\ pktBuf' = LogMessage(m, pktBuf).buf /\ sent' = LogMessage(m, pktBuf).sent
    BY <1>7, Inputs, LogMayLog
  <2>2. pktBuf' \in Buffers /\ Sendable(sent')
    BY <1>1, <2>1, LogMessageType
  <2>3. Arrives /\ ram' = ram /\ written' = written
    BY <1>7 DEF Log
  <2> QED BY <1>1, <1>3, <2>2, <2>3
<1>8. CASE UNCHANGED vars
  BY <1>8 DEF TypeOK, vars
<1> QED BY <1>4, <1>5, <1>6, <1>7, <1>8 DEF Next

\* Whatever packets arrive and whatever is logged, poll and log stay inside
\* pktBuf, and send no more than a packet: for every table of functions whose
\* functions keep to their C++ types (ApplyTyped), every Config.maxPktSize that
\* is told in a byte and holds the error texts, and any number of packets
\* (Ccf::poll, log, send; Cbor<T>::encode, decode).
THEOREM TypeCorrect ==
    ASSUME ApplyTyped
    PROVE  Spec => []TypeOK
<1>1. TypeOK /\ [Next]_vars => TypeOK'
  BY StepTyped
<1> QED BY <1>1, InitTyped, PTL DEF Spec

\* A result that has been encoded in the room it was given (Rpc::call's, retBuf
\* in poll) is never too large for send(): for the function it has run poll has an
\* answer, or an error, but for the two largest packets, which txBuf drops.
THEOREM LargestAreLost ==
    ASSUME ApplyTyped
    PROVE  Spec => []ResponsesFit
<1>1. Init => ResponsesFit
  BY DEF Init, ResponsesFit
<1>2. TypeOK /\ ResponsesFit /\ [Next]_vars => ResponsesFit'
  <2> SUFFICES ASSUME TypeOK, ResponsesFit, [Next]_vars PROVE ResponsesFit'
    OBVIOUS
  <2>1. pktBuf \in Buffers /\ ram \in Memory /\ SeqNo \in Byte
    BY TypedParts, SeqNoType
  <2>2. ASSUME NEW frame \in Seq(Byte), Poll(frame) PROVE ResponsesFit'
    BY <2>1, <2>2, PollHandles DEF ResponsesFit, IsResponse
  <2>3. ASSUME NEW i \in DOMAIN HostCalls, NEW c \in HostCalls[i], PollHost(c)
        PROVE  ResponsesFit'
    <3>1. HostFrame(SeqNo, c) \in Seq(Byte) /\ Poll(HostFrame(SeqNo, c))
      BY <2>1, <2>3, Inputs, HostFrameType DEF PollHost
    <3> QED BY <2>2, <3>1
  <2>4. ASSUME NEW i \in DOMAIN DamagedCalls, NEW c \in DamagedCalls[i],
               NEW frame \in Damaged(HostFrame(SeqNo, c)), PollDamaged(frame)
        PROVE  ResponsesFit'
    <3>1. frame \in Seq(Byte)
      BY <2>1, Inputs, HostFrameType, DamagedType
    <3> QED BY <2>2, <2>4, <3>1 DEF PollDamaged
  <2>5. ASSUME NEW c \in ForeignCalls, PollForeign(c) PROVE ResponsesFit'
    <3>1. HostPacket(SeqNo, c.function, c.bytes) \in Seq(Byte)
      BY <2>1, Inputs, HostPacketType
    <3> QED BY <2>2, <2>5, <3>1 DEF PollForeign
  <2>6. ASSUME NEW i \in DOMAIN LogCalls, NEW m \in LogCalls[i], Log(m)
        PROVE  ResponsesFit'
    BY <2>6 DEF Log, ResponsesFit
  <2>7. CASE UNCHANGED vars
    BY <2>7 DEF ResponsesFit, vars
  <2> QED BY <2>3, <2>4, <2>5, <2>6, <2>7 DEF Next
<1> QED BY <1>1, <1>2, TypeCorrect, PTL DEF Spec

\* What poll does for a frame is the same whatever earlier packets and messages
\* have left in pktBuf: decoding reads no byte that is not of the frame, and a
\* response has none (CborReader::unpack, Ccf::poll).
THEOREM NothingStaleRead ==
    ASSUME ApplyTyped
    PROVE  Spec => NothingStale
<1> DEFINE zeros == [i \in DOMAIN pktBuf |-> 0]
           Same(frame) == \E fresh \in {Handle(zeros, ram, frame)} :
                             <<fresh.called, fresh.sent, fresh.ram>> = <<called', sent', ram'>>
           Step == handled'.from \in {"host", "line", "stranger"} => Same(handled'.frame)
<1>1. TypeOK /\ [Next]_vars => [AsWithEmptyBuffer]_vars
  <2> SUFFICES ASSUME TypeOK, Next PROVE Step
    BY DEF AsWithEmptyBuffer
  <2>1. pktBuf \in Buffers /\ ram \in Memory /\ SeqNo \in Byte
    BY TypedParts, SeqNoType
  <2>2. zeros \in Buffers
    BY <2>1, Widths DEF Buffers
  <2> HIDE DEF zeros
  <2>3. ASSUME NEW frame \in Seq(Byte), Poll(frame) PROVE Same(frame)
    <3>1. /\ IsFrame(frame)
          /\ SameHandled([called |-> called', sent |-> sent', ram |-> ram'],
                         Handle(pktBuf, ram, frame))
      BY <2>1, <2>3, PollHandles
    <3>2. SameHandled(Handle(pktBuf, ram, frame), Handle(zeros, ram, frame))
      BY <2>1, <2>2, <3>1, HandleSame
    <3> QED BY <3>1, <3>2 DEF SameHandled
  <2> HIDE DEF Same
  <2>4. ASSUME NEW i \in DOMAIN HostCalls, NEW c \in HostCalls[i], PollHost(c) PROVE Step
    <3> DEFINE frame == HostFrame(SeqNo, c)
    <3>1. frame \in Seq(Byte) /\ Poll(frame) /\ handled'.frame = frame
      BY <2>1, <2>4, Inputs, HostFrameType DEF PollHost
    <3> HIDE DEF frame
    <3> QED BY <2>3, <3>1
  <2>5. ASSUME NEW i \in DOMAIN DamagedCalls, NEW c \in DamagedCalls[i],
               NEW frame \in Damaged(HostFrame(SeqNo, c)), PollDamaged(frame)
        PROVE  Step
    <3>1. frame \in Seq(Byte) /\ Poll(frame) /\ handled'.frame = frame
      BY <2>1, <2>5, Inputs, HostFrameType, DamagedType DEF PollDamaged
    <3> QED BY <2>3, <3>1
  <2>6. ASSUME NEW c \in ForeignCalls, PollForeign(c) PROVE Step
    <3> DEFINE frame == HostPacket(SeqNo, c.function, c.bytes)
    <3>1. frame \in Seq(Byte) /\ Poll(frame) /\ handled'.frame = frame
      BY <2>1, <2>6, Inputs, HostPacketType DEF PollForeign
    <3> HIDE DEF frame
    <3> QED BY <2>3, <3>1
  <2>7. ASSUME NEW i \in DOMAIN LogCalls, NEW m \in LogCalls[i], Log(m) PROVE Step
    BY <2>7 DEF Log
  <2> QED BY <2>4, <2>5, <2>6, <2>7 DEF Next
<1> QED BY <1>1, TypeCorrect, PTL DEF Spec, NothingStale

\* Whatever is logged, the host reads as it was logged, or not at all: what it
\* does not get is too large, by the two bytes that COBS takes in txBuf, or cannot
\* be logged (Ccf::log, logToBuffer, send; print_logs).
THEOREM LogsReadable ==
    ASSUME ApplyTyped
    PROVE  Spec => []LogReadable
<1> DEFINE Reads(m) ==
              IF IsLogged(m)
              THEN /\ sent.what = "packet"
                   /\ CheckAtEnd(sent.bytes) /\ sent.bytes[1] = LogChannel
                   /\ HostLog(SubSeq(sent.bytes, 2, Len(sent.bytes) - HashSize))
                          = [level |-> m.level, module |-> m.module, text |-> m.text,
                             rest |-> HostItems(m.types, m.args)]
              ELSE sent.what \in {"nothing", "dropped"}
<1>1. LogReadable <=> (handled.from = "log" => Reads(handled.message))
  BY Zenon DEF LogReadable, IsLogged, Size, Rest
<1>2. Init => LogReadable
  BY <1>1 DEF Init
<1>3. TypeOK /\ LogReadable /\ [Next]_vars => LogReadable'
  <2> SUFFICES ASSUME TypeOK, LogReadable, [Next]_vars PROVE LogReadable'
    OBVIOUS
  <2>1. pktBuf \in Buffers
    BY TypedParts
  <2>2. LogReadable' <=> (handled'.from = "log" => Reads(handled.message)')
    BY Zenon DEF LogReadable, IsLogged, Size, Rest
  <2>3. ASSUME NEW m, IsMessage(m), Log(m) PROVE LogReadable'
    <3>1. MayLog(m) /\ sent' = LogMessage(m, pktBuf).sent
      BY <2>3, LogMayLog
    <3>2. /\ IsLogged(m) => sent' = Packet(PutAtEnd(<<LogChannel>> \o Body(m)))
          /\ ~IsLogged(m) => sent'.what \in {"nothing", "dropped"}
      BY <2>1, <3>1, LogMessageSends
    <3>3. handled' = [from |-> "log", message |-> m] /\ deferred' = deferred
      BY <2>3 DEF Log, Arrives
    <3>4. ASSUME IsLogged(m)
          PROVE  /\ sent'.what = "packet"
                 /\ CheckAtEnd(sent'.bytes) /\ sent'.bytes[1] = LogChannel
                 /\ HostLog(SubSeq(sent'.bytes, 2, Len(sent'.bytes) - HashSize))
                        = [level |-> m.level, module |-> m.module, text |-> m.text,
                           rest |-> Rest(m)]
      <4> DEFINE bytes == PutAtEnd(<<LogChannel>> \o Body(m))
      <4>1. m.module < MinorModulus /\ Size(m) + 2 <= MaxPacket
        BY <3>4 DEF IsLogged
      <4>2. Body(m) \in Seq(Byte) /\ Len(m.text) \in Nat /\ Len(Rest(m)) \in Nat
        BY <2>3, <4>1, BodyType, MessageOf
      <4>3. LogChannel \in Byte
        BY Widths DEF LogChannel
      <4>4. /\ CheckAtEnd(bytes) /\ bytes[1] = LogChannel
            /\ SubSeq(bytes, 2, Len(bytes) - HashSize) = Body(m)
        BY <4>2, <4>3, PacketParts
      <4>5. Len(m.text) < Base
        <5>1. 3 + Len(m.text) + Len(Rest(m)) + 4 + 2 <= MaxPacket
          BY <4>1, Sizing DEF Size
        <5> QED BY <4>2, <5>1, Sizing, Widths
      <4>6. HostLog(Body(m)) = [level |-> m.level, module |-> m.module,
                                text |-> m.text, rest |-> Rest(m)]
        BY <2>3, <4>1, <4>5, HostLogReads
      <4>7. sent'.bytes = bytes /\ sent'.what = "packet"
        BY <3>2, <3>4 DEF Packet
      <4> HIDE DEF bytes
      <4> QED BY <4>4, <4>6, <4>7
    <3>5. IsLogged(m)' <=> IsLogged(m)
      BY <3>3 DEF IsLogged, Size, Rest
    <3>6. Reads(m)'
      BY <3>2, <3>4, <3>5 DEF Rest
    <3> HIDE DEF Reads
    <3>7. handled'.message = m
      BY <3>3
    <3> QED BY <2>2, <3>6, <3>7
  <2>4. ASSUME NEW i \in DOMAIN LogCalls, NEW m \in LogCalls[i], Log(m) PROVE LogReadable'
    BY <2>3, <2>4, Inputs
  <2>5. ASSUME handled'.from # "log" PROVE LogReadable'
    BY <2>2, <2>5
  <2>6. ASSUME NEW c, PollHost(c) PROVE handled'.from # "log"
    BY <2>6 DEF PollHost
  <2>7. ASSUME NEW frame, PollDamaged(frame) PROVE handled'.from # "log"
    BY <2>7 DEF PollDamaged
  <2>8. ASSUME NEW c, PollForeign(c) PROVE handled'.from # "log"
    BY <2>8 DEF PollForeign
  <2>9. CASE UNCHANGED vars
    BY <2>9 DEF LogReadable, vars
  <2> QED BY <2>4, <2>5, <2>6, <2>7, <2>8, <2>9 DEF Next
<1> QED BY <1>2, <1>3, TypeCorrect, PTL DEF Spec
-----------------------------------------------------------------------------
(* Damage *)

\* poll runs nothing for a frame that is too short or whose checksum is wrong.
Refusals == {"Bad RPC!", "Corrupted request"}
TurnedDown == called = << >> /\ sent.what \in Refusals

LEMMA WrongRefused ==
    ASSUME NEW frame \in Seq(Byte), Poll(frame), Len(frame) < 6 \/ ~CheckAtEnd(frame)
    PROVE  TurnedDown'
<1> DEFINE r == Handle(pktBuf, ram, frame)
           copied == Over(pktBuf, 0, frame)
<1>1. called' = r.called /\ sent' = r.sent
  BY DEF Poll
<1>2. PICK text \in Refusals : r = Rejected(copied, ram, text)
  <2>1. Len(frame) < 6 \/ (Len(frame) >= 6 /\ ~CheckAtEnd(frame))
    OBVIOUS
  <2>2. r = Rejected(copied, ram, "Bad RPC!") \/ r = Rejected(copied, ram, "Corrupted request")
    BY <2>1, HandleCases, Zenon
  <2> QED BY <2>2, Zenon DEF Refusals
<1> HIDE DEF r, copied
<1>3. r.called = << >> /\ r.sent.what = text
  BY <1>2 DEF Rejected, ErrorText
<1> QED BY <1>1, <1>3 DEF TurnedDown

\* A host's packet is whole: its checksum is right.
LEMMA HostFrameWhole ==
    ASSUME NEW seqNo \in Byte, NEW c, IsCall(c)
    PROVE  CheckAtEnd(HostFrame(seqNo, c))
<1> DEFINE body == <<RpcChannel, seqNo, c.function>> \o HostList(c.types, c.args)
<1>1. HostList(c.types, c.args) \in Seq(Byte)
  BY CallOf, WriterKept, EncodeTupleAsHost
<1>2. <<RpcChannel, seqNo, c.function>> \in Seq(Byte)
  <2>1. RpcChannel \in Byte /\ c.function \in Byte
    BY Widths, CallOf DEF RpcChannel
  <2> QED BY <2>1
<1>3. body \in Seq(Byte)
  BY <1>1, <1>2, JoinParts
<1> HIDE DEF body
<1>4. CheckAtEnd(PutAtEnd(body))
  BY <1>3, PutAtEndType
<1> QED BY <1>4 DEF HostFrame, HostPacket, body

\* One byte changed: another value in one place.
OneByteChanged(whole, frame) ==
    /\ whole \in Seq(Byte) /\ frame \in Seq(Byte) /\ Len(whole) = Len(frame)
    /\ \E k \in 1..Len(whole) : /\ whole[k] # frame[k]
                                /\ \A i \in 1..Len(whole) : i # k => whole[i] = frame[i]

LEMMA OneByteFound ==
    ASSUME NEW whole, NEW frame, OneByteChanged(whole, frame), CheckAtEnd(whole)
    PROVE  ~CheckAtEnd(frame)
BY ByteChangeFound DEF OneByteChanged

\* The line changes a byte into another.
LEMMA DamageChanges ==
    ASSUME NEW frame \in Seq(Byte), NEW k \in DOMAIN frame, NEW change \in {1, Base - 1}
    PROVE  OneByteChanged(frame, [frame EXCEPT ![k] = (@ + change) % Base])
<1> DEFINE damaged == [frame EXCEPT ![k] = (@ + change) % Base]
<1>1. frame[k] \in Byte /\ k \in 1..Len(frame)
  OBVIOUS
<1>2. \A b \in Byte : (b + change) % Base \in Byte /\ (b + change) % Base # b
  <2>1. CASE Base = 128
    BY <2>1 DEF Byte
  <2>2. CASE Base = 256
    BY <2>2 DEF Byte
  <2> QED BY <2>1, <2>2, BaseValues
<1>3. damaged[k] = (frame[k] + change) % Base
  BY <1>1
<1>4. damaged \in Seq(Byte) /\ Len(damaged) = Len(frame)
  BY <1>1, <1>2
<1>5. \A i \in 1..Len(frame) : i # k => frame[i] = damaged[i]
  OBVIOUS
<1> HIDE DEF damaged
<1>6. frame[k] # damaged[k]
  BY <1>1, <1>2, <1>3
<1> QED BY <1>1, <1>4, <1>5, <1>6 DEF OneByteChanged, damaged

\* What is to be refused once it has arrived.
Wrong(frame) == Len(frame) < 6 \/ ~CheckAtEnd(frame)
WrongIsRefused == handled.from = "line" /\ Wrong(handled.frame) => TurnedDown
LineInv == packets \in Nat /\ WrongIsRefused

LEMMA OnlyLineDamages ==
    ASSUME LineInv, [Next]_vars
    PROVE  LineInv'
<1>1. SeqNo \in Byte
  BY SeqNoType DEF LineInv
<1>2. Next => packets' \in Nat
  BY DEF LineInv, Next, PollHost, PollDamaged, PollForeign, Log, Arrives
<1>3. ASSUME NEW i \in DOMAIN HostCalls, NEW c \in HostCalls[i], PollHost(c)
      PROVE  WrongIsRefused'
  BY <1>3 DEF PollHost, WrongIsRefused
<1>4. ASSUME NEW i \in DOMAIN DamagedCalls, NEW c \in DamagedCalls[i],
             NEW frame \in Damaged(HostFrame(SeqNo, c)), PollDamaged(frame)
      PROVE  WrongIsRefused'
  <2>1. frame \in Seq(Byte)
    BY <1>1, Inputs, HostFrameType, DamagedType
  <2>2. Poll(frame) /\ handled'.frame = frame
    BY <1>4 DEF PollDamaged
  <2>3. Wrong(frame) => TurnedDown'
    BY <2>1, <2>2, WrongRefused DEF Wrong
  <2> QED BY <2>2, <2>3 DEF WrongIsRefused
<1>5. ASSUME NEW c \in ForeignCalls, PollForeign(c) PROVE WrongIsRefused'
  BY <1>5 DEF PollForeign, WrongIsRefused
<1>6. ASSUME NEW i \in DOMAIN LogCalls, NEW m \in LogCalls[i], Log(m) PROVE WrongIsRefused'
  BY <1>6 DEF Log, WrongIsRefused
<1>7. CASE UNCHANGED vars
  BY <1>7 DEF LineInv, vars, WrongIsRefused, TurnedDown
<1>8. UNCHANGED vars => packets' \in Nat
  BY DEF LineInv, vars
<1> QED BY <1>2, <1>3, <1>4, <1>5, <1>6, <1>7, <1>8 DEF LineInv, Next

\* Nothing runs for a frame in which one byte differs from a whole packet's.
ChangeIsHarmless ==
    handled.from = "line" =>
        \A whole : OneByteChanged(whole, handled.frame) /\ CheckAtEnd(whole) => TurnedDown

\* No packet in which one byte differs from a whole packet runs a function, and
\* the host is told so: whichever packet, byte and change it is, the checksum's
\* own bytes included, for every odd prime (poll, Fnv1a::checkAtEnd).
THEOREM ByteChangeRefused == Spec => []ChangeIsHarmless
<1>1. Init => LineInv
  BY DEF Init, LineInv, WrongIsRefused
<1>2. LineInv /\ [Next]_vars => LineInv'
  BY OnlyLineDamages
<1>3. LineInv => ChangeIsHarmless
  BY OneByteFound DEF LineInv, WrongIsRefused, Wrong, ChangeIsHarmless
<1> QED BY <1>1, <1>2, <1>3, PTL DEF Spec

\* No packet that loses its end, or gets a byte more, has a right checksum: which
\* a hash of four bytes makes likely and cannot promise.
LengthTold ==
    \A i \in DOMAIN DamagedCalls : \A c \in DamagedCalls[i], seqNo \in Byte :
        \A frame \in {HostFrame(seqNo, c)} :
            /\ ~CheckAtEnd(Append(frame, 0))
            /\ \A n \in 6..(Len(frame) - 1) : ~CheckAtEnd(SubSeq(frame, 1, n))

\* What the line damages is wrong.
LEMMA DamageIsWrong ==
    ASSUME LengthTold, NEW i \in DOMAIN DamagedCalls, NEW c \in DamagedCalls[i],
           NEW seqNo \in Byte, NEW damaged \in Damaged(HostFrame(seqNo, c))
    PROVE  Wrong(damaged)
<1> DEFINE frame == HostFrame(seqNo, c)
<1>1. frame \in Seq(Byte) /\ CheckAtEnd(frame)
  BY Inputs, HostFrameType, HostFrameWhole
<1>2. /\ ~CheckAtEnd(Append(frame, 0))
      /\ \A n \in 6..(Len(frame) - 1) : ~CheckAtEnd(SubSeq(frame, 1, n))
  BY DEF LengthTold
<1>3. damaged \in Damaged(frame)
  OBVIOUS
<1> HIDE DEF frame
<1>4. CASE \E k \in DOMAIN frame, change \in {1, Base - 1} :
              damaged = [frame EXCEPT ![k] = (@ + change) % Base]
  BY <1>1, <1>4, DamageChanges, OneByteFound DEF Wrong
<1>5. CASE \E n \in 0..(Len(frame) - 1) : damaged = SubSeq(frame, 1, n)
  <2>1. PICK n \in 0..(Len(frame) - 1) : damaged = SubSeq(frame, 1, n)
    BY <1>5
  <2>2. Len(damaged) = n
    BY <1>1, <2>1
  <2>3. n < 6 \/ n \in 6..(Len(frame) - 1)
    BY <1>1
  <2> QED BY <1>2, <2>1, <2>2, <2>3 DEF Wrong
<1>6. CASE damaged = Append(frame, 0)
  BY <1>2, <1>6 DEF Wrong
<1> QED BY <1>3, <1>4, <1>5, <1>6 DEF Damaged

\* Nothing that the line makes of the host's packets runs a function, if the
\* checksums tell the lengths apart; that they tell the bytes apart is proved
\* (poll's length and checksum tests).
THEOREM DamageRefused ==
    ASSUME LengthTold
    PROVE  Spec => []DamageIsHarmless
<1>1. DamageIsHarmless <=> (handled.from = "line" => TurnedDown)
  BY Zenon DEF DamageIsHarmless, TurnedDown, Refusals
<1>2. Init => LineInv /\ DamageIsHarmless
  BY <1>1 DEF Init, LineInv, WrongIsRefused
<1>3. DamageIsHarmless' <=> (handled'.from = "line" => TurnedDown')
  BY Zenon DEF DamageIsHarmless, TurnedDown, Refusals
<1>4. LineInv /\ DamageIsHarmless /\ [Next]_vars => LineInv' /\ DamageIsHarmless'
  <2> SUFFICES ASSUME LineInv, DamageIsHarmless, [Next]_vars PROVE DamageIsHarmless'
    BY OnlyLineDamages
  <2>1. LineInv' /\ SeqNo \in Byte
    BY OnlyLineDamages, SeqNoType DEF LineInv
  <2>2. ASSUME NEW i \in DOMAIN HostCalls, NEW c \in HostCalls[i], PollHost(c)
        PROVE  DamageIsHarmless'
    BY <1>3, <2>2 DEF PollHost
  <2>3. ASSUME NEW i \in DOMAIN DamagedCalls, NEW c \in DamagedCalls[i],
               NEW frame \in Damaged(HostFrame(SeqNo, c)), PollDamaged(frame)
        PROVE  DamageIsHarmless'
    <3>1. Wrong(frame)
      BY <2>1, DamageIsWrong
    <3>2. handled'.from = "line" /\ handled'.frame = frame
      BY <2>3 DEF PollDamaged
    <3> QED BY <1>3, <2>1, <3>1, <3>2 DEF LineInv, WrongIsRefused
  <2>4. ASSUME NEW c \in ForeignCalls, PollForeign(c) PROVE DamageIsHarmless'
    BY <1>3, <2>4 DEF PollForeign
  <2>5. ASSUME NEW i \in DOMAIN LogCalls, NEW m \in LogCalls[i], Log(m)
        PROVE  DamageIsHarmless'
    BY <1>3, <2>5 DEF Log
  <2>6. CASE UNCHANGED vars
    BY <1>1, <1>3, <2>6 DEF vars, TurnedDown
  <2> QED BY <2>2, <2>3, <2>4, <2>5, <2>6 DEF Next
<1> QED BY <1>2, <1>4, PTL DEF Spec

-----------------------------------------------------------------------------
(* What the host asks *)

\* A packet of the host, as poll has copied it.
LEMMA HostPacketCopied ==
    ASSUME NEW buf \in Buffers, NEW seqNo \in Byte, NEW function \in Byte,
           NEW arguments \in Seq(Byte), Len(arguments) > 0,
           NEW frame, frame = HostPacket(seqNo, function, arguments), Len(frame) <= MaxPacket,
           NEW copied, copied = Over(buf, 0, frame)
    PROVE  /\ IsFrame(frame) /\ Len(frame) >= 6 /\ CheckAtEnd(frame) /\ frame[2] = seqNo
           /\ copied \in Buffers /\ copied[1] = seqNo /\ copied[2] = function
           /\ Args(frame).at = 3 /\ Args(frame).size = Len(arguments)
           /\ Lies(copied, 3, arguments)
<1> DEFINE head == <<RpcChannel, seqNo, function>>
           body == head \o arguments
           n == Len(arguments)
<1>1. head \in Seq(Byte) /\ Len(head) = 3 /\ head[2] = seqNo /\ head[3] = function
  <2>1. RpcChannel \in Byte
    BY Widths DEF RpcChannel
  <2> QED BY <2>1
<1> HIDE DEF head
<1>2. /\ body \in Seq(Byte) /\ Len(body) = 3 + n /\ n \in Nat
      /\ body[2] = seqNo /\ body[3] = function
      /\ \A i \in 1..n : body[3 + i] = arguments[i]
  <2>1. /\ body \in Seq(Byte) /\ Len(body) = Len(head) + n /\ n \in Nat
        /\ \A i \in 1..Len(head) : body[i] = head[i]
        /\ \A i \in 1..n : body[Len(head) + i] = arguments[i]
    BY <1>1, JoinParts
  <2> HIDE DEF body, n
  <2> QED BY <1>1, <2>1
<1>3. frame = PutAtEnd(body)
  BY DEF HostPacket, head
<1> HIDE DEF body, n
<1>4. /\ frame \in Seq(Byte) /\ Len(frame) = 7 + n /\ CheckAtEnd(frame)
      /\ \A i \in 1..Len(body) : frame[i] = body[i]
  <2>1. /\ frame \in Seq(Byte) /\ Len(frame) = Len(body) + HashSize /\ CheckAtEnd(frame)
        /\ \A i \in 1..Len(body) : frame[i] = body[i]
    BY <1>2, <1>3, PutAtEndType
  <2> QED BY <1>2, <2>1, Sizing
<1>5. \A i \in 1..(3 + n) : frame[i] = body[i]
  BY <1>2, <1>4
<1>6. n > 0
  BY DEF n
<1>7. frame[2] = seqNo /\ frame[3] = function /\ \A i \in 1..n : frame[3 + i] = arguments[i]
  <2>1. 2 \in 1..(3 + n) /\ 3 \in 1..(3 + n) /\ \A i \in 1..n : 3 + i \in 1..(3 + n)
    BY <1>2
  <2> QED BY <1>2, <1>5, <2>1
<1>8. copied \in Buffers /\ \A i \in 0..(Len(frame) - 1) : copied[i] = frame[i + 1]
  BY <1>4, CopiedFrame
<1>9. copied[1] = seqNo /\ copied[2] = function
  <2>1. 1 \in 0..(Len(frame) - 1) /\ 2 \in 0..(Len(frame) - 1) /\ 1 + 1 = 2 /\ 2 + 1 = 3
    BY <1>2, <1>4
  <2> QED BY <1>7, <1>8, <2>1
<1>10. Lies(copied, 3, arguments)
  <2>1. ASSUME NEW i \in 1..n PROVE copied[3 + i - 1] = arguments[i]
    <3>1. 3 + i - 1 \in 0..(Len(frame) - 1) /\ 3 + i - 1 + 1 = 3 + i
      BY <1>2, <1>4
    <3> QED BY <1>7, <1>8, <3>1
  <2> QED BY <2>1 DEF Lies, n
<1>11. Args(frame).at = 3 /\ Args(frame).size = n
  <2>1. Len(frame) - Header - HashSize = n
    BY <1>2, <1>4, Sizing
  <2> QED BY <2>1, Sizing DEF Args
<1>12. IsFrame(frame) /\ Len(frame) >= 6
  BY <1>2, <1>4, <1>6 DEF IsFrame
<1> QED BY <1>4, <1>7, <1>8, <1>9, <1>10, <1>11, <1>12 DEF n

\* What a call leaves is what it is meant to leave.
AsMeant(r, c, mem) ==
    /\ r.ok <=> (c.function = 0 \/ Accepted(c)) /\ Len(Answer(c, mem)) <= ReturnRoom
    /\ r.ok => r.out = Answer(c, mem)
    /\ r.ram = IF Accepted(c) THEN Meant(c, mem).ram ELSE mem
    /\ c.function = 0 \/ Accepted(c) => Answer(c, mem) \in Seq(Byte)

LEMMA AcceptedIsDecoded ==
    ASSUME NEW c, IsCall(c), c.function \in Functions
    PROVE  /\ Accepted(c) <=> AcceptsAll(Calls[c.function].args, c.types, c.args)
           /\ \A mem : Meant(c, mem) =
                  Apply(c.function, Reduced(Calls[c.function].args, c.args), mem)
<1> DEFINE types == Calls[c.function].args
<1>1. types \in Seq(ArgTypes)
  BY CallsType
<1>2. Accepted(c) <=> /\ Len(types) <= Len(c.types)
                      /\ \A i \in DOMAIN types : Accepts(types[i], c.types[i], c.args[i])
  BY DEF Accepted
<1>3. \A mem : Meant(c, mem) =
          Apply(c.function, [i \in DOMAIN types |-> InWidth(types[i], c.args[i])], mem)
  BY DEF Meant
<1> HIDE DEF types
<1>4. DOMAIN types = 1..Len(types)
  BY <1>1
<1>5. Accepted(c) <=> AcceptsAll(types, c.types, c.args)
  BY <1>2, <1>4 DEF AcceptsAll
<1>6. [i \in DOMAIN types |-> InWidth(types[i], c.args[i])] = Reduced(types, c.args)
  BY <1>4 DEF Reduced
<1>7. \A mem : Meant(c, mem) = Apply(c.function, Reduced(types, c.args), mem)
  BY <1>3, <1>6
<1> QED BY <1>5, <1>7 DEF types

\* The bytes that are there for a call's arguments.
HasArguments(c, copied, lo, hi, args) ==
    /\ lo \in Int /\ hi \in Int /\ Holds(copied, lo, hi) /\ args \in Spans(lo, hi)
    /\ args.size = Len(HostList(c.types, c.args))
    /\ Lies(copied, args.at, HostList(c.types, c.args))

LEMMA FunctionAsMeant ==
    ASSUME ApplyTyped, NEW c, IsCall(c), c.function \in Functions,
           SpanAtEnd(Calls[c.function].args, c.types),
           NEW copied, NEW lo, NEW hi, NEW args, HasArguments(c, copied, lo, hi, args),
           NEW mem \in Memory
    PROVE  AsMeant(CallFunction(c.function, copied, args, ReturnRoom, mem), c, mem)
<1> DEFINE n == c.function
           types == Calls[n].args
           ret == Calls[n].ret
           got == DecodeTuple(types, copied, args)
           applied == Apply(n, got.value, mem)
           w == EncodeValue(ret, applied.value, Writer(ReturnRoom))
           r == CallFunction(n, copied, args, ReturnRoom, mem)
           answer == HostValue(ret, Meant(c, mem).value)
<1>1. types \in Seq(ArgTypes) /\ ret \in Types /\ n # 0
  BY CallsType DEF Functions
<1>2. (got.ok <=> Accepted(c)) /\ (got.ok => got.value = Reduced(types, c.args))
  <2>1. Given(c.types, c.args) /\ SpanAtEnd(types, c.types)
    BY CallOf
  <2>2. lo \in Int /\ hi \in Int /\ Holds(copied, lo, hi) /\ args \in Spans(lo, hi)
        /\ args.size = Len(HostList(c.types, c.args))
        /\ Lies(copied, args.at, HostList(c.types, c.args))
    BY DEF HasArguments
  <2>3. Accepted(c) <=> AcceptsAll(types, c.types, c.args)
    BY AcceptedIsDecoded
  <2> HIDE DEF types
  <2>4. /\ got.ok <=> AcceptsAll(types, c.types, c.args)
        /\ got.ok => got.value = Reduced(types, c.args)
    BY <1>1, <2>1, <2>2, DecodeHostTuple
  <2> QED BY <2>3, <2>4
<1>3. Answer(c, mem) = answer
  BY <1>1 DEF Answer
<1>4. CASE got.ok
  <2>1. applied = Meant(c, mem)
    BY <1>2, <1>4, AcceptedIsDecoded
  <2>2. r = Result(w, <<n, got.value>>, applied.ram)
    BY <1>4 DEF CallFunction, Applied
  <2>3. HasKind(ret, Meant(c, mem).value)
    BY <1>2, <1>4, MeantType
  <2>4. w = EncodeValue(ret, Meant(c, mem).value, Writer(ReturnRoom))
    BY <2>1
  <2>5. r.ok = w.ok /\ r.out = w.out /\ r.ram = Meant(c, mem).ram
    <3> HIDE DEF w, applied, got, r
    <3> QED BY <2>1, <2>2 DEF Result
  <2> HIDE DEF w, applied, got, r, ret
  <2>6. answer \in Seq(Byte) /\ Encodes(Writer(ReturnRoom), answer, w)
    BY <1>1, <2>3, <2>4, WriterKept, EncodeValueAsHost
  <2> HIDE DEF answer
  <2>7. (w.ok <=> Len(answer) <= ReturnRoom) /\ (w.ok => w.out = answer)
    <3>1. Writer(ReturnRoom).ok = TRUE /\ Writer(ReturnRoom).room = ReturnRoom
          /\ Writer(ReturnRoom).out = << >>
      BY DEF Writer
    <3>2. << >> \o answer = answer
      BY <2>6
    <3> QED BY <2>6, <3>1, <3>2 DEF Encodes
  <2> QED BY <1>2, <1>3, <1>4, <2>5, <2>6, <2>7 DEF AsMeant, r
<1>5. CASE ~got.ok
  <2>1. r = Refused(mem)
    BY <1>5 DEF CallFunction, Applied
  <2> HIDE DEF r, got, answer
  <2>2. r.ok = FALSE /\ r.ram = mem
    BY <2>1 DEF Refused, Result
  <2> QED BY <1>1, <1>2, <1>5, <2>2 DEF AsMeant, r
<1> QED BY <1>4, <1>5

LEMMA SchemaIsAnswer ==
    ASSUME NEW c, c.function = 0, NEW mem
    PROVE  Answer(c, mem) = HostSchema
BY DEF Answer, HostSchema, HostRow

LEMMA CallAsMeant ==
    ASSUME ApplyTyped, NEW c, IsCall(c),
           c.function \in Functions => SpanAtEnd(Calls[c.function].args, c.types),
           NEW copied, NEW lo, NEW hi, NEW args, HasArguments(c, copied, lo, hi, args),
           NEW mem \in Memory
    PROVE  AsMeant(RpcCall(c.function, copied, args, ReturnRoom, mem), c, mem)
<1> DEFINE n == c.function
           r == RpcCall(n, copied, args, ReturnRoom, mem)
<1>0. 0 \notin Functions
  BY DEF Functions
<1>1. CASE n = 0
  <2> DEFINE w == Schema(ReturnRoom)
  <2>1. r = Result(w, <<0>>, mem)
    BY <1>0, <1>1 DEF RpcCall
  <2>2. ReturnRoom \in Nat /\ ReturnRoom > 0
    BY Sizing
  <2>3. HostSchema \in Seq(Byte) /\ Encodes(Writer(ReturnRoom), HostSchema, w)
    BY <2>2, SchemaAsHost
  <2>4. Answer(c, mem) = HostSchema
    BY <1>1, SchemaIsAnswer
  <2> HIDE DEF w, r
  <2>5. r.ok = w.ok /\ r.out = w.out /\ r.ram = mem
    BY <2>1 DEF Result
  <2>6. (w.ok <=> Len(HostSchema) <= ReturnRoom) /\ (w.ok => w.out = HostSchema)
    <3> DEFINE answer == HostSchema
    <3>0. answer \in Seq(Byte) /\ Encodes(Writer(ReturnRoom), answer, w)
      BY <2>3
    <3> HIDE DEF answer
    <3>1. Writer(ReturnRoom).ok = TRUE /\ Writer(ReturnRoom).room = ReturnRoom
          /\ Writer(ReturnRoom).out = << >>
      BY DEF Writer
    <3>2. << >> \o answer = answer
      BY <3>0
    <3>3. (w.ok <=> Len(answer) <= ReturnRoom) /\ (w.ok => w.out = answer)
      BY <3>0, <3>1, <3>2 DEF Encodes
    <3> QED BY <3>3 DEF answer
  <2>7. ~Accepted(c)
    BY <1>0, <1>1 DEF Accepted
  <2> QED BY <1>1, <2>3, <2>4, <2>5, <2>6, <2>7 DEF AsMeant, r
<1>2. CASE n # 0 /\ n \in Functions
  <2>1. r = CallFunction(n, copied, args, ReturnRoom, mem)
    BY <1>2 DEF RpcCall
  <2>2. AsMeant(CallFunction(n, copied, args, ReturnRoom, mem), c, mem)
    BY <1>2, FunctionAsMeant
  <2> QED BY <2>1, <2>2
<1>3. CASE n # 0 /\ n \notin Functions
  <2>1. r = Refused(mem)
    BY <1>3 DEF RpcCall
  <2>2. ~Accepted(c)
    BY <1>3 DEF Accepted
  <2> HIDE DEF r
  <2>3. r.ok = FALSE /\ r.ram = mem
    BY <2>1 DEF Refused, Result
  <2> QED BY <1>3, <2>2, <2>3 DEF AsMeant, r
<1> QED BY <1>1, <1>2, <1>3

LEMMA ResponseIsPacket ==
    ASSUME NEW seqNo \in Byte, NEW function \in Byte, NEW out \in Seq(Byte)
    PROVE  ResponseOf(<<seqNo, function>>, out) = HostPacket(seqNo, function, out)
<1>1. RpcChannel \in Byte
  BY Widths DEF RpcChannel
<1>2. <<RpcChannel>> \in Seq(Byte) /\ <<seqNo, function>> \in Seq(Byte)
  BY <1>1
<1>3. (<<RpcChannel>> \o <<seqNo, function>>) \o out
          = <<RpcChannel>> \o (<<seqNo, function>> \o out)
  BY <1>2, JoinAssociative
<1>4. <<RpcChannel>> \o <<seqNo, function>> = <<RpcChannel, seqNo, function>>
  <2> DEFINE a == <<RpcChannel>>
             b == <<seqNo, function>>
             whole == <<RpcChannel, seqNo, function>>
  <2>1. /\ a \in Seq(Byte) /\ Len(a) = 1 /\ a[1] = RpcChannel
        /\ b \in Seq(Byte) /\ Len(b) = 2 /\ b[1] = seqNo /\ b[2] = function
        /\ whole \in Seq(Byte) /\ Len(whole) = 3
        /\ whole[1] = RpcChannel /\ whole[2] = seqNo /\ whole[3] = function
    BY <1>1
  <2> HIDE DEF a, b, whole
  <2>2. /\ a \o b \in Seq(Byte) /\ Len(a \o b) = 3
        /\ (a \o b)[1] = RpcChannel /\ (a \o b)[2] = seqNo /\ (a \o b)[3] = function
    <3>1. /\ a \o b \in Seq(Byte) /\ Len(a \o b) = Len(a) + Len(b)
          /\ \A i \in 1..Len(a) : (a \o b)[i] = a[i]
          /\ \A i \in 1..Len(b) : (a \o b)[Len(a) + i] = b[i]
      BY <2>1, JoinParts
    <3> DEFINE join == a \o b
    <3> HIDE DEF join
    <3>2. /\ join \in Seq(Byte) /\ Len(join) = 3 /\ join[1] = a[1]
          /\ join[1 + 1] = b[1] /\ join[1 + 2] = b[2]
      BY <2>1, <3>1 DEF join
    <3> QED BY <2>1, <3>2 DEF join
  <2>3. \A i \in 1..3 : (a \o b)[i] = whole[i]
    BY <2>1, <2>2
  <2>4. a \o b = whole
    BY <2>1, <2>2, <2>3, SameSequence
  <2> QED BY <2>4 DEF a, b, whole
<1> QED BY <1>3, <1>4 DEF ResponseOf, HostPacket

\* The host's sequence numbers are even: the next one is the answer's.
LEMMA NextSeqNo ==
    ASSUME packets \in Nat
    PROVE  SeqNo \in Byte /\ SeqNo + 1 \in Byte /\ (SeqNo + 1) % Base = SeqNo + 1
<1>1. CASE Base = 128
  BY <1>1 DEF SeqNo, Byte
<1>2. CASE Base = 256
  BY <1>2 DEF SeqNo, Byte
<1> QED BY <1>1, <1>2, BaseValues

LEMMA HostPacketSize ==
    ASSUME NEW seqNo \in Byte, NEW function \in Byte, NEW arguments \in Seq(Byte)
    PROVE  /\ HostPacket(seqNo, function, arguments) \in Seq(Byte)
           /\ Len(HostPacket(seqNo, function, arguments)) = Len(arguments) + 7
<1> DEFINE head == <<RpcChannel, seqNo, function>>
           body == head \o arguments
<1>1. head \in Seq(Byte) /\ Len(head) = 3
  BY Widths DEF RpcChannel
<1> HIDE DEF head
<1>2. body \in Seq(Byte) /\ Len(body) = Len(head) + Len(arguments) /\ Len(arguments) \in Nat
  BY <1>1, JoinParts
<1> HIDE DEF body
<1>3. PutAtEnd(body) \in Seq(Byte) /\ Len(PutAtEnd(body)) = Len(body) + 4
  BY <1>2, PutAtEndType, Sizing
<1> QED BY <1>1, <1>2, <1>3, Sizing DEF HostPacket, body, head

\* The answer to a call, its loss, or the error.
Answered(c, seqNo, mem, s) ==
    LET answer == HostPacket(seqNo + 1, c.function, Answer(c, mem))
    IN  IF (c.function = 0 \/ Accepted(c)) /\ Len(answer) <= MaxPacket
        THEN s = IF Len(answer) <= MaxPacket - 2 THEN Packet(answer) ELSE Dropped(answer)
        ELSE s = ErrorText("RPC failed")

\* What poll makes of a packet of the host.
LEMMA HostAnswered ==
    ASSUME ApplyTyped, packets \in Nat, pktBuf \in Buffers, ram \in Memory,
           NEW c, IsCall(c),
           c.function \in Functions => SpanAtEnd(Calls[c.function].args, c.types),
           NEW frame, frame = HostFrame(SeqNo, c), Poll(frame)
    PROVE  /\ frame[2] = SeqNo /\ Answered(c, SeqNo, ram, sent')
           /\ ram' = IF Accepted(c) THEN Meant(c, ram).ram ELSE ram
<1> DEFINE n == c.function
           arguments == HostList(c.types, c.args)
           copied == Over(pktBuf, 0, frame)
           lo == Header
           hi == Len(frame) - HashSize
           args == Args(frame)
           r == RpcCall(n, copied, args, ReturnRoom, ram)
           answer == Answer(c, ram)
<1>1. SeqNo \in Byte /\ SeqNo + 1 \in Byte /\ (SeqNo + 1) % Base = SeqNo + 1 /\ n \in Byte
  BY NextSeqNo, CallOf
<1>2. arguments \in Seq(Byte) /\ Len(arguments) > 0
  <2> DEFINE head == HostHead(Array, Len(c.types))
             items == HostItems(c.types, c.args)
  <2>1. arguments \in Seq(Byte)
    BY CallOf, WriterKept, EncodeTupleAsHost
  <2>2. Len(c.types) \in Nat /\ Array \in 0..7
    BY CallOf DEF Array
  <2>3. head \in Seq(Byte) /\ Len(head) > 0
    BY <2>2, HeadType
  <2>4. items \in Seq(Byte)
    BY CallOf, WriterKept, EncodeItemsAsHost
  <2>5. arguments = head \o items
    BY DEF HostList
  <2> HIDE DEF head, items, arguments
  <2> QED BY <2>1, <2>3, <2>4, <2>5, JoinParts
<1>3. frame = HostPacket(SeqNo, n, arguments) /\ Len(frame) <= MaxPacket
  BY DEF HostFrame, Poll
<1> HIDE DEF arguments
<1>4. /\ IsFrame(frame) /\ Len(frame) >= 6 /\ CheckAtEnd(frame) /\ frame[2] = SeqNo
      /\ copied \in Buffers /\ copied[1] = SeqNo /\ copied[2] = n
      /\ args.at = 3 /\ args.size = Len(arguments) /\ Lies(copied, 3, arguments)
  <2> HIDE DEF copied, args, n
  <2> QED BY <1>1, <1>2, <1>3, HostPacketCopied DEF copied, args
<1>5. HasArguments(c, copied, lo, hi, args)
  <2>1. /\ hi \in Int /\ lo \in Int /\ args \in Spans(lo, hi) /\ Holds(copied, lo, hi)
    BY <1>4, ArgsType, Sizing
  <2> HIDE DEF copied, args, lo, hi
  <2> QED BY <1>4, <2>1 DEF HasArguments, arguments
<1>6. IsResult(r)
  <2>1. /\ hi \in Int /\ lo \in Int /\ args \in Spans(lo, hi) /\ Holds(copied, lo, hi)
    BY <1>5 DEF HasArguments
  <2> HIDE DEF copied, args, lo, hi
  <2> QED BY <2>1, RpcCallType
<1>7. AsMeant(r, c, ram)
  <2> HIDE DEF copied, args, lo, hi
  <2> QED BY <1>5, CallAsMeant
<1>8. Handle(pktBuf, ram, frame) = Respond(copied, r)
  <2>1. frame \in Seq(Byte)
    BY <1>4 DEF IsFrame
  <2>2. Handle(pktBuf, ram, frame)
            = Respond(copied, RpcCall(copied[2], copied, args, ReturnRoom, ram))
    BY <1>4, <2>1, HandleCases
  <2> QED BY <1>4, <2>2
<1> HIDE DEF r, copied
<1>9. sent' = Respond(copied, r).sent /\ ram' = Respond(copied, r).ram
  BY <1>8 DEF Poll
<1>10. ram' = IF Accepted(c) THEN Meant(c, ram).ram ELSE ram
  <2>1. ram' = r.ram
    BY <1>4, <1>6, <1>9, RespondType
  <2> QED BY <1>7, <2>1 DEF AsMeant
<1>11. ResponseHead(copied) = <<SeqNo + 1, n>>
  BY <1>1, <1>4 DEF ResponseHead
<1> HIDE DEF answer
<1> DEFINE packet == HostPacket(SeqNo + 1, n, answer)
<1>12. r.ok <=> (n = 0 \/ Accepted(c)) /\ Len(packet) <= MaxPacket
  <2>1. /\ r.ok <=> (n = 0 \/ Accepted(c)) /\ Len(answer) <= ReturnRoom
        /\ n = 0 \/ Accepted(c) => answer \in Seq(Byte)
    BY <1>7 DEF AsMeant, answer
  <2>2. ASSUME answer \in Seq(Byte)
        PROVE  Len(answer) <= ReturnRoom <=> Len(packet) <= MaxPacket
    <3>1. Len(packet) = Len(answer) + 7
      BY <1>1, <2>2, HostPacketSize
    <3> HIDE DEF packet
    <3>2. Len(answer) \in Nat
      BY <2>2
    <3> QED BY <3>1, <3>2, Sizing
  <2> QED BY <2>1, <2>2
<1>13. ASSUME r.ok
       PROVE  sent' = IF Len(packet) <= MaxPacket - 2 THEN Packet(packet) ELSE Dropped(packet)
  <2>1. r.out = answer /\ answer \in Seq(Byte)
    BY <1>7, <1>13 DEF AsMeant, answer
  <2>2. sent' = Pushed(ResponseOf(ResponseHead(copied), r.out))
    BY <1>4, <1>6, <1>9, <1>13, RespondSends
  <2>3. ResponseOf(<<SeqNo + 1, n>>, answer) = packet
    BY <1>1, <2>1, ResponseIsPacket
  <2>4. Len(packet) \in Nat
    <3>1. packet \in Seq(Byte)
      BY <1>1, <2>1, HostPacketSize
    <3> QED BY <3>1
  <2> HIDE DEF packet
  <2>5. sent' = Pushed(packet)
    BY <1>11, <2>1, <2>2, <2>3
  <2>6. Len(packet) + 2 <= MaxPacket <=> Len(packet) <= MaxPacket - 2
    BY <2>4, Sizing
  <2> QED BY <2>5, <2>6 DEF Pushed
<1>14. ASSUME ~r.ok PROVE sent' = ErrorText("RPC failed")
  BY <1>4, <1>6, <1>9, <1>14, RespondSends
<1>15. Answered(c, SeqNo, ram, sent')
  BY <1>12, <1>13, <1>14 DEF Answered, answer
<1> QED BY <1>4, <1>10, <1>15

\* Nothing wrong touches the memory.
LEMMA WrongLeavesMemory ==
    ASSUME NEW frame \in Seq(Byte), Poll(frame), Wrong(frame)
    PROVE  ram' = ram
<1> DEFINE r == Handle(pktBuf, ram, frame)
           copied == Over(pktBuf, 0, frame)
<1>1. ram' = r.ram
  BY DEF Poll
<1>2. PICK text \in Refusals : r = Rejected(copied, ram, text)
  <2>1. Len(frame) < 6 \/ (Len(frame) >= 6 /\ ~CheckAtEnd(frame))
    BY DEF Wrong
  <2>2. r = Rejected(copied, ram, "Bad RPC!") \/ r = Rejected(copied, ram, "Corrupted request")
    BY <2>1, HandleCases, Zenon
  <2> QED BY <2>2, Zenon DEF Refusals
<1> HIDE DEF r, copied
<1> QED BY <1>1, <1>2 DEF Rejected

\* Every step keeps the memory as the host has written it.
LEMMA StepAsWritten ==
    ASSUME ApplyTyped, LengthTold, TypeOK, MemoryAsWritten, [Next]_vars
    PROVE  MemoryAsWritten'
<1>1. pktBuf \in Buffers /\ ram \in Memory /\ packets \in Nat /\ SeqNo \in Byte /\ ram = written
  BY TypedParts, SeqNoType, Sizing DEF MemoryAsWritten
<1>2. ASSUME NEW i \in DOMAIN HostCalls, NEW c \in HostCalls[i], PollHost(c)
      PROVE  MemoryAsWritten'
  <2> DEFINE frame == HostFrame(SeqNo, c)
  <2>1. IsCall(c) /\ (c.function \in Functions => SpanAtEnd(Calls[c.function].args, c.types))
    BY Inputs, SpansLast
  <2>2. Poll(frame)
    BY <1>2 DEF PollHost
  <2> HIDE DEF frame
  <2>3. ram' = IF Accepted(c) THEN Meant(c, ram).ram ELSE ram
    BY <1>1, <2>1, <2>2, HostAnswered DEF frame
  <2>4. written' = IF Accepted(c) THEN Meant(c, written).ram ELSE written
    BY <1>2 DEF PollHost
  <2> QED BY <1>1, <2>3, <2>4 DEF MemoryAsWritten
<1>3. ASSUME NEW i \in DOMAIN DamagedCalls, NEW c \in DamagedCalls[i],
             NEW frame \in Damaged(HostFrame(SeqNo, c)), PollDamaged(frame)
      PROVE  MemoryAsWritten'
  <2>1. frame \in Seq(Byte) /\ Wrong(frame)
    BY <1>1, Inputs, HostFrameType, DamagedType, DamageIsWrong
  <2>2. Poll(frame) /\ written' = written
    BY <1>3 DEF PollDamaged
  <2> QED BY <1>1, <2>1, <2>2, WrongLeavesMemory DEF MemoryAsWritten
<1>4. ASSUME NEW c \in ForeignCalls, PollForeign(c) PROVE MemoryAsWritten'
  BY <1>4 DEF PollForeign, MemoryAsWritten
<1>5. ASSUME NEW i \in DOMAIN LogCalls, NEW m \in LogCalls[i], Log(m)
      PROVE  MemoryAsWritten'
  BY <1>1, <1>5 DEF Log, MemoryAsWritten
<1>6. CASE UNCHANGED vars
  BY <1>1, <1>6 DEF vars, MemoryAsWritten
<1> QED BY <1>2, <1>3, <1>4, <1>5, <1>6 DEF Next

\* The device's memory is what the host's calls, with the values it gave them
\* and in the order it made them, have made of it: whatever it calls, of whatever
\* types, and whatever the line damages (Ccf::poll, Rpc::call, Cbor<T>::decode).
\* That a damaged length shows in the checksum is a hypothesis (LengthTold).
THEOREM OnlyAskedWrites ==
    ASSUME ApplyTyped, LengthTold
    PROVE  Spec => []MemoryAsWritten
<1>1. Init => MemoryAsWritten
  BY DEF Init, MemoryAsWritten
<1>2. TypeOK /\ MemoryAsWritten /\ [Next]_vars => MemoryAsWritten'
  BY StepAsWritten
<1> QED BY <1>1, <1>2, TypeCorrect, PTL DEF Spec

\* The host gets the answer to what it asked, or an error exactly when the
\* arguments are not of the function's types, there is no such function, or the
\* answer does not fit the room in pktBuf, or nothing exactly when the answer is
\* one of the two largest: for every table of functions, the schema included,
\* every call and whatever has been written to the memory before (Rpc::call,
\* Rpc::schema, Cbor<T>::decode and encode, Ccf::poll, Ccf::send).
THEOREM AnswersAsAsked ==
    ASSUME ApplyTyped, LengthTold
    PROVE  Spec => []AnsweredAsAsked
<1>1. AnsweredAsAsked <=>
          (handled.from = "host" =>
              Answered(handled.call, handled.frame[2], handled.mem, sent))
  BY Zenon DEF AnsweredAsAsked, Answered
<1>2. AnsweredAsAsked' <=>
          (handled'.from = "host" =>
              Answered(handled'.call, handled'.frame[2], handled'.mem, sent'))
  BY Zenon DEF AnsweredAsAsked, Answered
<1>3. Init => AnsweredAsAsked
  BY <1>1 DEF Init
<1>4. TypeOK /\ MemoryAsWritten /\ AnsweredAsAsked /\ [Next]_vars => AnsweredAsAsked'
  <2> SUFFICES ASSUME TypeOK, MemoryAsWritten, AnsweredAsAsked, [Next]_vars
               PROVE  AnsweredAsAsked'
    OBVIOUS
  <2>1. pktBuf \in Buffers /\ ram \in Memory /\ packets \in Nat /\ ram = written
    BY TypedParts, Sizing DEF MemoryAsWritten
  <2>2. ASSUME NEW i \in DOMAIN HostCalls, NEW c \in HostCalls[i], PollHost(c)
        PROVE  AnsweredAsAsked'
    <3> DEFINE frame == HostFrame(SeqNo, c)
    <3>1. IsCall(c) /\ (c.function \in Functions => SpanAtEnd(Calls[c.function].args, c.types))
      BY Inputs, SpansLast
    <3>2. Poll(frame) /\ handled'.frame = frame /\ handled'.call = c /\ handled'.mem = written
      BY <2>2 DEF PollHost
    <3> HIDE DEF frame
    <3>3. frame[2] = SeqNo /\ Answered(c, SeqNo, ram, sent')
      BY <2>1, <3>1, <3>2, HostAnswered DEF frame
    <3> QED BY <1>2, <2>1, <3>2, <3>3
  <2>3. ASSUME NEW frame, PollDamaged(frame) PROVE AnsweredAsAsked'
    BY <1>2, <2>3 DEF PollDamaged
  <2>4. ASSUME NEW c, PollForeign(c) PROVE AnsweredAsAsked'
    BY <1>2, <2>4 DEF PollForeign
  <2>5. ASSUME NEW m, Log(m) PROVE AnsweredAsAsked'
    BY <1>2, <2>5 DEF Log
  <2>6. CASE UNCHANGED vars
    BY <1>1, <1>2, <2>6 DEF vars
  <2> QED BY <2>2, <2>3, <2>4, <2>5, <2>6 DEF Next
<1> QED BY <1>3, <1>4, TypeCorrect, OnlyAskedWrites, PTL DEF Spec

-----------------------------------------------------------------------------
(* The demo's functions *)

LEMMA DemoTable ==
    /\ Len(Demo) = 6
    /\ Demo[1] = Version /\ Demo[2] = Add /\ Demo[3] = Sub
    /\ Demo[4] = Hello /\ Demo[5] = ReadMem /\ Demo[6] = WriteMem
    /\ Version.name = <<1>> /\ Add.name = <<2>> /\ Sub.name = <<3>>
    /\ Hello.name = <<4>> /\ ReadMem.name = <<5>> /\ WriteMem.name = <<6>>
    /\ Version.ret = Tuple(<<Text, Text, Integer(8, FALSE)>>) /\ Version.args = << >>
    /\ Add.args = <<Word, Word>> /\ Add.ret = Word
    /\ Sub.args = <<Word, Word>> /\ Sub.ret = Word
    /\ Hello.args = << >> /\ Hello.ret = Text
    /\ ReadMem.args = <<Word, Word>> /\ ReadMem.ret = Span
    /\ WriteMem.args = <<Word, Span>> /\ WriteMem.ret = Void
BY DEF Demo, Version, Add, Sub, Hello, ReadMem, WriteMem

LEMMA DemoCases ==
    ASSUME NEW args, NEW mem
    PROVE  /\ DemoApply(1, args, mem) = Returns(<<(<<7>>), (<<8, 9>>), GitHash>>, mem)
           /\ DemoApply(2, args, mem) = Returns((args[1] + args[2]) % WordModulus, mem)
           /\ DemoApply(3, args, mem) = Returns((args[1] - args[2]) % WordModulus, mem)
           /\ DemoApply(4, args, mem) = Returns(<<10, 11, 12, 13, 14>>, mem)
           /\ DemoApply(5, args, mem) =
                  Returns([i \in 1..args[2] |-> Load(mem, args[1] + i - 1)], mem)
           /\ DemoApply(6, args, mem) = Returns(0, Store(mem, args[1], args[2]))
<1>1. \A i, j \in 1..6 : i # j => <<i>> # <<j>>
  OBVIOUS
<1>2. \A i, j \in 1..6 : i # j => Demo[i] # Demo[j]
  <2> SUFFICES ASSUME NEW i \in 1..6, NEW j \in 1..6, i # j PROVE Demo[i] # Demo[j]
    OBVIOUS
  <2>1. Demo[i].name = <<i>> /\ Demo[j].name = <<j>>
    BY DemoTable
  <2> QED BY <1>1, <2>1
<1>3. /\ Demo[1] = Version /\ Demo[2] = Add /\ Demo[3] = Sub
      /\ Demo[4] = Hello /\ Demo[5] = ReadMem /\ Demo[6] = WriteMem
  BY DemoTable
<1>4. ASSUME NEW n \in 1..6
      PROVE  /\ n # 1 => Demo[n] # Version
             /\ n # 2 => Demo[n] # Add
             /\ n # 3 => Demo[n] # Sub
             /\ n # 4 => Demo[n] # Hello
             /\ n # 5 => Demo[n] # ReadMem
             /\ n # 6 => Demo[n] # WriteMem
  BY <1>2, <1>3
<1>5. DemoApply(1, args, mem) = Returns(<<(<<7>>), (<<8, 9>>), GitHash>>, mem)
  BY <1>3, <1>4 DEF DemoApply
<1>6. DemoApply(2, args, mem) = Returns((args[1] + args[2]) % WordModulus, mem)
  BY <1>3, <1>4 DEF DemoApply
<1>7. DemoApply(3, args, mem) = Returns((args[1] - args[2]) % WordModulus, mem)
  BY <1>3, <1>4 DEF DemoApply
<1>8. DemoApply(4, args, mem) = Returns(<<10, 11, 12, 13, 14>>, mem)
  BY <1>3, <1>4 DEF DemoApply
<1>9. DemoApply(5, args, mem) =
          Returns([i \in 1..args[2] |-> Load(mem, args[1] + i - 1)], mem)
  BY <1>3, <1>4 DEF DemoApply
<1>10. DemoApply(6, args, mem) = Returns(0, Store(mem, args[1], args[2]))
  BY <1>3, <1>4 DEF DemoApply
<1> QED BY <1>5, <1>6, <1>7, <1>8, <1>9, <1>10

\* What function n makes of its arguments is this value and this memory.
Makes(n, args, mem, value, left) ==
    DemoApply(n, args, mem).value = value /\ DemoApply(n, args, mem).ram = left

LEMMA DemoMakes ==
    ASSUME NEW args, NEW mem
    PROVE  /\ Makes(1, args, mem, <<(<<7>>), (<<8, 9>>), GitHash>>, mem)
           /\ Makes(2, args, mem, (args[1] + args[2]) % WordModulus, mem)
           /\ Makes(3, args, mem, (args[1] - args[2]) % WordModulus, mem)
           /\ Makes(4, args, mem, <<10, 11, 12, 13, 14>>, mem)
           /\ Makes(5, args, mem, [i \in 1..args[2] |-> Load(mem, args[1] + i - 1)], mem)
           /\ Makes(6, args, mem, 0, Store(mem, args[1], args[2]))
<1>1. ASSUME NEW n, NEW value, NEW left, DemoApply(n, args, mem) = Returns(value, left)
      PROVE  Makes(n, args, mem, value, left)
  BY <1>1 DEF Makes, Returns
<1> QED BY <1>1, DemoCases

\* A word is a number below the word's modulus.
LEMMA Words ==
    /\ WordModulus \in Nat /\ WordModulus > 0 /\ Word.kind = "integer"
    /\ \A v : HasType(Word, v) => v \in Nat
    /\ \A v \in Int : HasKind(Word, v)
<1>1. WordModulus \in Nat /\ WordModulus > 0
  <2>1. WordSize \in 0..8
    BY DEF WordSize
  <2> QED BY <2>1, ValuesType DEF WordModulus
<1>2. Word.kind = "integer" /\ Word.bytes = WordSize /\ Word.signed = FALSE
  BY DEF Word, Integer
<1>3. Width(Word) = 0..(WordModulus - 1)
  BY <1>2 DEF Width, WordModulus
<1>4. ASSUME NEW v, HasType(Word, v) PROVE v \in Nat
  BY <1>1, <1>2, <1>3, <1>4 DEF HasType
<1>5. ASSUME NEW v \in Int PROVE HasKind(Word, v)
  BY <1>2 DEF HasKind, OfKind
<1> QED BY <1>1, <1>2, <1>4, <1>5

\* The demo's functions (rpc-task.cpp) are as the C++ compiler knows functions:
\* the hypothesis of the theorems holds for the table the demo is built with.
THEOREM DemoTyped ==
    ASSUME Calls = Demo,
           \A n \in 1..6, args \in Seq(Decodables), mem \in Memory :
               Apply(n, args, mem) = DemoApply(n, args, mem)
    PROVE  ApplyTyped
<1> SUFFICES ASSUME NEW n \in Functions, NEW args \in Seq(Decodables), NEW mem \in Memory,
                    Len(args) = Len(Calls[n].args),
                    \A i \in 1..Len(args) : HasType(Calls[n].args[i], args[i])
             PROVE  /\ HasKind(Calls[n].ret, Apply(n, args, mem).value)
                    /\ Apply(n, args, mem).ram \in Memory
  BY DEF ApplyTyped
<1>1. n \in 1..6 /\ Apply(n, args, mem) = DemoApply(n, args, mem)
  BY DemoTable DEF Functions
<1>2. \A value, left : Makes(n, args, mem, value, left) =>
          Apply(n, args, mem).value = value /\ Apply(n, args, mem).ram = left
  BY <1>1 DEF Makes
<1>3. 7 \in Byte /\ 8 \in Byte /\ 9 \in Byte /\ 10 \in Byte /\ 11 \in Byte /\ 12 \in Byte
      /\ 13 \in Byte /\ 14 \in Byte /\ 0 \in Byte
  BY Widths
<1>4. CASE n = 1
  <2> DEFINE value == <<(<<7>>), (<<8, 9>>), GitHash>>
  <2>1. Apply(n, args, mem).value = value /\ Apply(n, args, mem).ram = mem
    BY <1>2, <1>4, DemoMakes
  <2>2. Calls[n].ret = Tuple(<<Text, Text, Integer(8, FALSE)>>)
    BY <1>4, DemoTable
  <2>3. OfKind(Text, <<7>>) /\ OfKind(Text, <<8, 9>>) /\ OfKind(Integer(8, FALSE), GitHash)
    <3>1. <<7>> \in Seq(Byte) /\ <<8, 9>> \in Seq(Byte) /\ GitHash \in Int
      BY <1>3 DEF GitHash
    <3> QED BY <3>1 DEF OfKind, Text, Integer
  <2>4. HasKind(Tuple(<<Text, Text, Integer(8, FALSE)>>), value)
    <3>1. /\ Tuple(<<Text, Text, Integer(8, FALSE)>>).kind = "tuple"
          /\ Tuple(<<Text, Text, Integer(8, FALSE)>>).items = <<Text, Text, Integer(8, FALSE)>>
      BY DEF Tuple
    <3>2. ASSUME NEW i \in 1..3
          PROVE  OfKind(<<Text, Text, Integer(8, FALSE)>>[i], value[i])
      <4>1. CASE i = 1
        BY <2>3, <4>1
      <4>2. CASE i = 2
        BY <2>3, <4>2
      <4>3. CASE i = 3
        BY <2>3, <4>3
      <4> QED BY <4>1, <4>2, <4>3
    <3> QED BY <3>1, <3>2 DEF HasKind
  <2> QED BY <2>1, <2>2, <2>4
<1>5. CASE n \in {2, 3}
  <2>1. Calls[n].args = <<Word, Word>> /\ Calls[n].ret = Word
    BY <1>5, DemoTable
  <2>2. HasType(Word, args[1]) /\ HasType(Word, args[2])
    BY <2>1
  <2>3. args[1] \in Nat /\ args[2] \in Nat
    BY <2>2, Words
  <2>4. (args[1] + args[2]) % WordModulus \in Int /\ (args[1] - args[2]) % WordModulus \in Int
    BY <2>3, Words
  <2>5. Apply(n, args, mem).value \in Int /\ Apply(n, args, mem).ram = mem
    <3>1. CASE n = 2
      BY <1>2, <2>4, <3>1, DemoMakes
    <3>2. CASE n = 3
      BY <1>2, <2>4, <3>2, DemoMakes
    <3> QED BY <1>5, <3>1, <3>2
  <2> QED BY <2>1, <2>5, Words
<1>6. CASE n = 4
  <2>1. Apply(n, args, mem).value = <<10, 11, 12, 13, 14>> /\ Apply(n, args, mem).ram = mem
    BY <1>2, <1>6, DemoMakes
  <2>2. <<10, 11, 12, 13, 14>> \in Seq(Byte)
    BY <1>3
  <2>3. Calls[n].ret = Text
    BY <1>6, DemoTable
  <2>4. HasKind(Text, <<10, 11, 12, 13, 14>>)
    BY <2>2 DEF HasKind, OfKind, Text
  <2> QED BY <2>1, <2>3, <2>4
<1>7. CASE n = 5
  <2>1. Calls[n].args = <<Word, Word>> /\ Calls[n].ret = Span
    BY <1>7, DemoTable
  <2>2. HasType(Word, args[1]) /\ HasType(Word, args[2])
    BY <2>1
  <2>3. args[1] \in Nat /\ args[2] \in Nat
    BY <2>2, Words
  <2>4. \A at : Load(mem, at) \in Byte
    BY <1>3 DEF Load, Memory
  <2>5. [i \in 1..args[2] |-> Load(mem, args[1] + i - 1)] \in Seq(Byte)
    <3> DEFINE size == args[2]
               byte(i) == Load(mem, args[1] + i - 1)
    <3>1. size \in Nat /\ \A i \in 1..size : byte(i) \in Byte
      BY <2>3, <2>4
    <3> HIDE DEF size, byte
    <3>2. [i \in 1..size |-> byte(i)] \in Seq(Byte)
      BY <3>1
    <3> QED BY <3>2 DEF size, byte
  <2>6. /\ Apply(n, args, mem).value = [i \in 1..args[2] |-> Load(mem, args[1] + i - 1)]
        /\ Apply(n, args, mem).ram = mem
    BY <1>2, <1>7, DemoMakes
  <2>7. \A v \in Seq(Byte) : HasKind(Span, v)
    BY DEF HasKind, OfKind, Span
  <2> QED BY <2>1, <2>5, <2>6, <2>7
<1>8. CASE n = 6
  <2>1. Calls[n].args = <<Word, Span>> /\ Calls[n].ret = Void
    BY <1>8, DemoTable
  <2>2. HasType(Word, args[1]) /\ HasType(Span, args[2])
    BY <2>1
  <2>3. args[1] \in Nat /\ args[2] \in Seq(Byte)
    BY <2>2, Words DEF HasType, OfKind, Span
  <2>4. Store(mem, args[1], args[2]) \in Memory
    <3> DEFINE at == args[1]
               bytes == args[2]
    <3>1. at \in Nat /\ bytes \in Seq(Byte)
      BY <2>3
    <3> HIDE DEF at, bytes
    <3>2. ASSUME NEW a \in 0..(RamSize - 1)
          PROVE  (IF a \in at..(at + Len(bytes) - 1) THEN bytes[a - at + 1] ELSE mem[a]) \in Byte
      <4>1. CASE a \in at..(at + Len(bytes) - 1)
        <5>1. a - at + 1 \in 1..Len(bytes)
          BY <3>1, <4>1, Sizing
        <5> QED BY <3>1, <4>1, <5>1
      <4>2. CASE a \notin at..(at + Len(bytes) - 1)
        BY <4>2 DEF Memory
      <4> QED BY <4>1, <4>2
    <3>3. DOMAIN mem = 0..(RamSize - 1)
      BY DEF Memory
    <3> QED BY <3>2, <3>3 DEF Store, Memory, at, bytes
  <2>5. Apply(n, args, mem).ram = Store(mem, args[1], args[2])
    BY <1>2, <1>8, DemoMakes
  <2>6. \A v : HasKind(Void, v)
    BY DEF HasKind, OfKind, Void
  <2> QED BY <2>1, <2>4, <2>5, <2>6
<1> QED BY <1>1, <1>4, <1>5, <1>6, <1>7, <1>8
=============================================================================
