------------------------------ MODULE RpcDispatch ------------------------------
(***************************************************************************)
(* comms-ccf/rpc.hpp: a table of functions, what it says of itself, and a  *)
(* call of one of them by its number.                                      *)
(*                                                                         *)
(* A word of a type's name is a byte.                                      *)
(***************************************************************************)
EXTENDS Cbor

CONSTANTS
    Calls,          \* the table: name, doc, argNames, args (types), ret (type)
    Apply(_, _, _)  \* what function n makes of arguments and memory

Functions == 1..Len(Calls)

ASSUME CallsAssumption ==
    /\ Calls \in Seq([name : Seq(Byte), doc : Seq(Byte), argNames : Seq(Seq(Byte)),
                      args : Seq(ArgTypes), ret : Types])
    /\ \A n \in Functions : Len(Calls[n].argNames) = Len(Calls[n].args)

-----------------------------------------------------------------------------
(* The schema *)

PyAny == <<0>>
PyInt == <<1>>
PyStr == <<2>>
PyBytes == <<3>>
TupleOpen == <<4>>
TupleNext == <<5>>
TupleClose == <<6>>

ItemType(type) ==
    CASE type.kind \in {"integer", "bool"} -> PyInt
      [] type.kind = "text" -> PyStr
      [] type.kind = "span" -> PyBytes
      [] OTHER -> PyAny

\* CompTimeString's comma puts a comma between two names.
Joined(types) ==
    LET upTo[i \in 0..Len(types)] ==
            IF i = 0 THEN << >>
            ELSE upTo[i - 1] \o (IF i = 1 THEN << >> ELSE TupleNext)
                     \o ItemType(types[i])
    IN  upTo[Len(types)]

\* Type<T>::python
PythonType(type) ==
    IF type.kind # "tuple" THEN ItemType(type)
    ELSE TupleOpen \o Joined(type.items) \o TupleClose

\* One row: the texts Call::schema encodes, in order.
Row(call) ==
    <<call.name, call.doc, PythonType(call.ret)>>
        \o FlattenSeq([i \in DOMAIN call.args |->
                          <<call.argNames[i], PythonType(call.args[i])>>])

EncodeRow(w, call) ==
    EncodeItems([i \in DOMAIN Row(call) |-> Text], Row(call),
                SequenceHead(3 + 2 * Len(call.args), w))

\* Rpc::schema gives up at the first row that fails.
Schema(room) ==
    LET upTo[i \in 0..Len(Calls)] ==
            IF i = 0 THEN SequenceHead(Len(Calls), Writer(room))
            ELSE LET before == upTo[i - 1]
                 IN  IF before.ok THEN EncodeRow(before, Calls[i]) ELSE before
    IN  upTo[Len(Calls)]

-----------------------------------------------------------------------------
(* Calls *)

\* What a call leaves: has it succeeded, what was encoded (of a failed one
\* too), which function has run, the memory.
Result(w, called, ram) == [ok |-> w.ok, out |-> w.out, called |-> called, ram |-> ram]

Refused(ram) == Result([ok |-> FALSE, out |-> << >>], << >>, ram)

\* Call::call.  The function runs before it is known whether its result fits.
Applied(n, got, room, ram) ==
    LET applied == Apply(n, got.value, ram)
    IN  IF got.ok
        THEN Result(EncodeValue(Calls[n].ret, applied.value, Writer(room)),
                    <<n, got.value>>, applied.ram)
        ELSE Refused(ram)

CallFunction(n, mem, args, room, ram) ==
    Applied(n, DecodeTuple(Calls[n].args, mem, args), room, ram)

\* Rpc::call
RpcCall(n, mem, args, room, ram) ==
    CASE n = 0            -> Result(Schema(room), <<0>>, ram)
      [] n \in Functions  -> CallFunction(n, mem, args, room, ram)
      [] OTHER            -> Refused(ram)
=============================================================================
