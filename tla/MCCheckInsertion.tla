-------------------------- MODULE MCCheckInsertion --------------------------
(***************************************************************************)
(* CheckInsertion on all functions of three instructions of five kinds,    *)
(* with every shape of uses between them (forward, backward and on         *)
(* themselves), and on pairs with each of the opcodes.                     *)
(***************************************************************************)
EXTENDS CheckInsertion

Pairs(n) == {<<0, a>> : a \in 0 .. n} \cup {<<a, b>> \in (1 .. n) \X (1 .. n) : a < b}

Kinds(ops, args, direct) == [op : ops, args : args, direct : direct]

Instructions(n) ==
  Kinds({"add", "xor"}, Pairs(n), {FALSE})
  \cup Kinds({"udiv"}, Pairs(n), {TRUE})
  \cup Kinds({"other"}, {<<a>> : a \in 0 .. n}, BOOLEAN)

Triples == [1 .. 3 -> Instructions(3)]

EveryOpcode ==
  {<<i, [op |-> "other", args |-> <<a>>, direct |-> d]>> :
     i \in Kinds(BinaryOps, {0, 1, 2} \X {0, 2}, {FALSE})
           \cup Kinds(DivOps, {0, 1, 2} \X {0, 2}, {TRUE}),
     a \in 0 .. 2, d \in BOOLEAN}

AllFunctions == Triples \cup EveryOpcode

\* TLC evaluates a definition of its own, as AllFunctions, only once.
MCFunctions == AllFunctions
=============================================================================
