----------------------------- MODULE MCCcfPackets -----------------------------
(***************************************************************************)
(* Bytes of seven bits, so that a word of four and the checksum's product  *)
(* fit TLC's integers; a minor value has four bits, the argument of an     *)
(* item is its own byte up to 3.  The largest packet is one less than the  *)
(* number of bytes, as in the demo (255).                                  *)
(*                                                                         *)
(* The table is the demo's with three more functions, for the types that   *)
(* it does not use: they return their arguments or a constant.             *)
(***************************************************************************)
EXTENDS CcfPackets, DemoCalls

Double == Floating(8)
Short == Integer(2, TRUE)
Long == Integer(8, FALSE)

Echo == [name |-> <<7>>, doc |-> <<7>>, argNames |-> <<(<<6>>)>>,
         args |-> <<Double>>, ret |-> Double]
Negate == [name |-> <<8>>, doc |-> <<8>>, argNames |-> <<(<<6>>), (<<7>>)>>,
           args |-> <<Bool, Short>>, ret |-> Short]
Limits == [name |-> <<9>>, doc |-> <<9>>, argNames |-> << >>, args |-> << >>,
           ret |-> ArrayOf(Long, 3)]

Table == Demo \o <<Echo, Negate, Limits>>

TableApply(n, args, mem) ==
    CASE n <= Len(Demo)      -> DemoApply(n, args, mem)
      [] Table[n] = Echo     -> Returns(args[1], mem)
      [] Table[n] = Negate   -> Returns(InWidth(Short, IF args[1] THEN -args[2] ELSE args[2]), mem)
      [] Table[n] = Limits   -> Returns(<<WordModulus - 1, WordModulus, 2^30>>, mem)

Request(function, types, args) == [function |-> function, types |-> types, args |-> args]

Sums ==
    {Request(n, <<Word, Word>>, <<x, y>>) :
        n \in {2, 3}, x \in {-1, 3, 4, 128, Base^2},
        y \in {1, WordModulus - 1}}
Reads == {Request(5, <<Word, Word>>, <<at, size>>) : at \in {0, 1}, size \in {0, 3, 116, 117, 118, 119, 128}}
Writes == {Request(6, <<Word, Span>>, <<at, data>>) :
              at \in {0, 4}, data \in {<< >>, <<99>>, <<17, 34, 51, 68, 85>>}}
Constants == {Request(n, << >>, << >>) : n \in {0, 1, 4, 9, 10}}
Floats ==
    {Request(7, <<Floating(Len(v))>>, <<v>>) :
        v \in {<<60, 0>>, <<71, 67, 80, 0>>, <<1, 2, 3, 4, 5, 6, 7, 8>>}}
Negations ==
    {Request(8, <<Bool, Long>>, <<b, v>>) :
        b \in BOOLEAN, v \in {-3, 8190, 8191, 8192, 16384}}
TooFew == {Request(2, <<Word>>, <<1>>), Request(2, << >>, << >>)}
TooMany ==
    {Request(2, <<Word, Word, Word>>, <<1, 200, 3>>), Request(4, <<Word>>, <<1>>),
     Request(3, <<Word, Word, Text>>, <<5, 3, <<1, 2>>>>)}
TooLong == {Request(3, <<Long, Long>>, <<WordModulus, 1>>)}
NotTheType ==
    {Request(n, <<Word, Text>>, <<1, <<1>>>>) : n \in {3, 6}}

\* In groups, since TLC does not compare numbers with texts.
Asked == <<Sums, Reads, Writes, Constants, Floats, Negations, TooFew, TooMany, TooLong, NotTheType>>
Damageable ==
    <<{Request(2, <<Word, Word>>, <<1, 200>>)}, {Request(6, <<Word, Span>>, <<1, <<5>>>>)}>>

\* Arguments cut short, a reserved minor value, a list of unknown length with and
\* without its end.
Opened == InitialByte(Array, Indefinite)
Closed == InitialByte(Simple, Indefinite)
Strange ==
    {[function |-> n, bytes |-> b] : n \in {2, 6},
        b \in {<< >>, <<InitialByte(Array, 2)>>, <<InitialByte(Array, 2), 1>>,
               <<InitialByte(Array, 2), 1, Follows[1]>>,
               <<InitialByte(Array, 2), 1, Follows[4], 1, 1>>,
               <<InitialByte(Array, 2), 1, Follows[8] + 1>>,
               <<Opened, 1, 2, Closed>>, <<Opened, 1, 2>>}}
        \cup {[function |-> 7, bytes |-> <<InitialByte(Array, 1),
                                          InitialByte(Simple, Follows[8])>>]}

Message(level, module, text, types, args) ==
    [level |-> level, module |-> module, text |-> text, types |-> types, args |-> args]
Letters(n) == [i \in 1..n |-> 65]

Plain ==
    {Message(1, module, <<65, 66>>, << >>, << >>) : module \in {0, 15, 16}}
        \cup {Message(3, 2, Letters(n), << >>, << >>) :
                 n \in {0, 1, 118, 119, 120, 121, 125, 126, 127}}
Numbers == {Message(2, 1, <<65>>, <<Integer(4, TRUE)>>, <<v>>) : v \in {-129, 4, 16384}}
Literals == {Message(0, 1, <<65>>, <<Text, Double>>, <<(<<7, 0>>), (<<60, 0>>)>>)}
Mixed ==
    {Message(2, 1, Letters(n), <<Text, Short>>, <<(<<1, 2>>), 3>>) :
        n \in {114, 115, 116, 118, 121}}

Logged == <<Plain, Numbers, Literals, Mixed>>
=============================================================================
