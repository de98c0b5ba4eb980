------------------------------- MODULE DemoCalls -------------------------------
(***************************************************************************)
(* FreeRTOS-Demo/rpc-task.cpp: the demo's table of functions, on a         *)
(* processor whose words have WordSize bytes.  The texts are as short as   *)
(* can be.                                                                 *)
(***************************************************************************)
EXTENDS Cbor

WordSize == 4
WordModulus == Values[WordSize]
Word == Integer(WordSize, FALSE)

Version == [name |-> <<1>>, doc |-> <<1>>, argNames |-> << >>, args |-> << >>,
            ret |-> Tuple(<<Text, Text, Integer(8, FALSE)>>)]
Add == [name |-> <<2>>, doc |-> <<2>>, argNames |-> <<(<<1>>), (<<2>>)>>,
        args |-> <<Word, Word>>, ret |-> Word]
Sub == [Add EXCEPT !.name = <<3>>, !.doc = <<3>>]
Hello == [name |-> <<4>>, doc |-> <<4>>, argNames |-> << >>, args |-> << >>,
          ret |-> Text]
ReadMem == [name |-> <<5>>, doc |-> <<5>>, argNames |-> <<(<<3>>), (<<4>>)>>,
            args |-> <<Word, Word>>, ret |-> Span]
WriteMem == [name |-> <<6>>, doc |-> <<6>>, argNames |-> <<(<<3>>), (<<5>>)>>,
             args |-> <<Word, Span>>, ret |-> Void]

Demo == <<Version, Add, Sub, Hello, ReadMem, WriteMem>>

GitHash == 19088743

\* The byte at an address; where there is no memory, anything may be read.
Load(ram, at) == IF at \in DOMAIN ram THEN ram[at] ELSE 0

\* The memory with bytes from an address on.
Store(ram, at, bytes) ==
    [a \in DOMAIN ram |->
        IF a \in at..(at + Len(bytes) - 1) THEN bytes[a - at + 1] ELSE ram[a]]

Returns(value, ram) == [value |-> value, ram |-> ram]

DemoApply(n, args, ram) ==
    CASE Demo[n] = Version  -> Returns(<<(<<7>>), (<<8, 9>>), GitHash>>, ram)
      [] Demo[n] = Add      -> Returns((args[1] + args[2]) % WordModulus, ram)
      [] Demo[n] = Sub      -> Returns((args[1] - args[2]) % WordModulus, ram)
      [] Demo[n] = Hello    -> Returns(<<10, 11, 12, 13, 14>>, ram)
      [] Demo[n] = ReadMem  ->
             Returns([i \in 1..args[2] |-> Load(ram, args[1] + i - 1)], ram)
      [] Demo[n] = WriteMem -> Returns(0, Store(ram, args[1], args[2]))
=============================================================================
