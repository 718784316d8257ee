----------------------------- MODULE MCSMTQuery -----------------------------
(***************************************************************************)
(* Families of small functions for SMTQuery, with integers and pointers of *)
(* two bits.  The checks are the ones CheckInsertion puts before an        *)
(* operation, with the values they consist of.                             *)
(***************************************************************************)
EXTENDS SMTQuery

Symbol(bits) == [op |-> "symbol", bits |-> bits]
Const(bits, n) == [op |-> "const", bits |-> bits, value |-> n]
Bin(op, l, r) == [op |-> op, bits |-> 2, nsw |-> FALSE, lhs |-> l, rhs |-> r]
NSW(i) == [i EXCEPT !.nsw = TRUE]
Compare(pred, l, r) == [op |-> "icmp", bits |-> 1, pred |-> pred, lhs |-> l, rhs |-> r]
Logic(op, l, r) == [op |-> op, bits |-> 1, lhs |-> l, rhs |-> r]
Cast(op, bits, src) == [op |-> op, bits |-> bits, src |-> src]
Select(l, r) == [op |-> "select", bits |-> 2, cond |-> "c", true |-> l, false |-> r]
Gep(terms) == [op |-> "gep", bits |-> 2, base |-> "a", offset |-> 3, terms |-> terms]
Times(scale, index) == [scale |-> scale, index |-> index]
Phi(block, incoming) == [op |-> "phi", bits |-> 2, block |-> block, incoming |-> incoming]

\* What functions use: arguments a, b and a condition c.
Arguments(bits) == [a |-> Symbol(bits), b |-> Symbol(bits), c |-> Symbol(1)]

Constants(bits) ==
  [zero |-> Const(bits, 0), one |-> Const(bits, 1), min |-> Const(bits, 2^(bits - 1)),
   ones |-> Const(bits, 2^bits - 1), width |-> Const(bits, Wrap(bits, bits))]

-----------------------------------------------------------------------------
(***************************************************************************)
(* The check of an operation i named op, as insertOverflowCheck,           *)
(* insertDivCheck or insertShiftCheck writes it, and its values.           *)
(***************************************************************************)
CheckValues(i) ==
  CASE i.op \in OverflowOps -> <<>>
    [] i.op \in SignedDivOps ->
         [divZero |-> Compare("eq", i.rhs, "zero"), negOne |-> Compare("eq", i.rhs, "ones"),
          isMin |-> Compare("eq", i.lhs, "min"), overflow |-> Logic("and", "negOne", "isMin"),
          check |-> Logic("or", "divZero", "overflow")]
    [] i.op \in {"udiv", "urem"} -> [check |-> Compare("eq", i.rhs, "zero")]
    [] i.op \in ShiftOps -> [check |-> Compare("uge", i.rhs, "width")]

CheckCall(op, i, block) ==
  IF i.op \in OverflowOps
  THEN [callee |-> "__kint_overflow", block |-> block, operation |-> op,
        opcode |-> i.op, nsw |-> i.nsw, lhs |-> i.lhs, rhs |-> i.rhs]
  ELSE [callee |-> "__kint_check", block |-> block, operation |-> op, cond |-> "check"]

Printf(block) == [callee |-> "printf", block |-> block]

Br(d) == [op |-> "br", succs |-> {d}]
CondBr(cond, t, e) == [op |-> "condbr", cond |-> cond, then |-> t, else |-> e, succs |-> {t, e}]
Switch(cond, cases, default) ==
  [op |-> "switch", cond |-> cond, cases |-> cases, default |-> default,
   succs |-> {default} \cup {c.dest : c \in ToSet(cases)}]
Case(v, d) == [value |-> v, dest |-> d]
Goes(op, dests) == [op |-> op, succs |-> dests]
Ret == Goes("other", {})

-----------------------------------------------------------------------------
(***************************************************************************)
(* FindFunctionBackedges: a depth-first search from the entry; an edge to  *)
(* a block that is still on the search's stack is a back edge.  Of a       *)
(* block's successors the one with the least number comes first.           *)
(***************************************************************************)
Least(S) == CHOOSE x \in S : \A y \in S : x <= y

Search(term) ==
  LET after[n \in 0 .. 20] ==
        IF n = 0 THEN [open |-> <<1>>, seen |-> {1}]
        ELSE LET s == after[n - 1]
                 new == IF s.open = <<>> THEN {} ELSE term[Last(s.open)].succs \ s.seen
             IN  IF s.open = <<>> THEN s
                 ELSE IF new = {} THEN [s EXCEPT !.open = Front(@)]
                 ELSE [open |-> Append(s.open, Least(new)), seen |-> s.seen \cup {Least(new)}]
  IN after

Backedges(term) ==
  LET after == Search(term) IN
  UNION {{<<Last(after[n].open), v>> : v \in term[Last(after[n].open)].succs \cap ToSet(after[n].open)} :
           n \in {n \in 0 .. 20 : after[n].open # <<>>}}

\* The values in an order in which each is behind its operands.
Order(values) ==
  LET first[n \in 0 .. Cardinality(DOMAIN values)] ==
        IF n = 0 THEN <<>>
        ELSE LET done == first[n - 1]
                 left == DOMAIN values \ ToSet(done)
             IN  Append(done, CHOOSE v \in left : OperandsOf(values[v]) \cap left = {})
  IN first[Cardinality(DOMAIN values)]

\* i is the guarded operation, in the given block; args and values is what it needs.
\* There is a check in the entry block and one in the last block as well.
WideFunction(bits, args, values, i, block, term) ==
  LET sum == [i EXCEPT !.op = "add", !.nsw = TRUE, !.lhs = "a", !.rhs = "one"]
      all == "op" :> i @@ "sum" :> sum @@ CheckValues(i) @@ values
               @@ Restrict(Arguments(bits), args) @@ Constants(bits)
  IN
  [values |-> all,
   order |-> Order(all),
   term |-> term,
   back |-> Backedges(term),
   calls |-> <<CheckCall("sum", sum, 1), Printf(1), CheckCall("op", i, block),
               CheckCall("sum", sum, Len(term))>>]

Function(args, values, i, block, term) == WideFunction(2, args, values, i, block, term)

-----------------------------------------------------------------------------
(***************************************************************************)
(* One block: every operation, and one on every kind of value.             *)
(***************************************************************************)
Guarded(bits) ==
  {[Bin(op, "a", "b") EXCEPT !.bits = bits] : op \in CheckedOps}
  \cup {[NSW(Bin(op, "a", "b")) EXCEPT !.bits = bits] : op \in OverflowOps}

Operations ==
  UNION {{WideFunction(bits, {"a", "b"}, <<>>, i, 1, <<Ret>>) : i \in Guarded(bits)} : bits \in 1 .. 3}

OperandValues ==
  {[x |-> Bin(op, "a", "b")] : op \in BinaryOps}
  \cup {[x |-> Cast(op, 2, "c")] : op \in {"zext", "sext", "inttoptr", "ptrtoint"}}
  \cup {[y |-> Cast("trunc", 1, "b"), x |-> Cast("sext", 2, "y")],
        [y |-> [op |-> "float", bits |-> 2], x |-> Cast("bitcast", 2, "y")],
        [x |-> Cast("bitcast", 2, "a")], [y |-> Symbol(3), x |-> Cast("ptrtoint", 2, "y")],
        [x |-> Gep(<<>>)], [x |-> Gep(<<Times(2, "b"), Times(1, "a")>>)],
        [x |-> Gep(<<Times(1, "c")>>)], [x |-> Select("a", "b")],
        [y |-> Select("a", "b"), x |-> Gep(<<Times(1, "y")>>)]}
  \cup {[y |-> Compare(pred, "a", "b"), x |-> Cast("zext", 2, "y")] : pred \in Predicates}

Operands == {Function({"a", "b", "c"}, values, i, 1, <<Ret>>) :
               values \in OperandValues,
               i \in {NSW(Bin("sub", "x", "one")), Bin("sdiv", "a", "x")}}

(***************************************************************************)
(* A diamond joined by a phi, whose branch may have one destination for    *)
(* both outcomes, or Z3 may refuse its condition or an incoming value.     *)
(***************************************************************************)
Conditions == [d |-> Compare("slt", "a", "one"), e |-> Compare("ne", "sel", "one"),
               sel |-> Select("a", "one")]

\* p may be used where the two sides have been joined, x on either of them.
Sides(l, r) == Conditions @@ [p |-> Phi(4, (2 :> l) @@ (3 :> r)), x |-> Bin("sub", "a", "one")]

Branch(cond, e) == <<CondBr(cond, 2, e), Br(4), Br(4), Ret>>

Diamonds ==
  {Function({"a", "c"}, Sides(l, r), Bin("udiv", "one", "p"), 4, Branch(cond, e)) :
     l \in {"a", "zero"}, r \in {"one", "sel"}, cond \in {"d", "e"}, e \in {2, 3}}
  \cup {Function({"a", "c"}, Sides("a", "sel"), Bin("shl", "a", "x"), 2, Branch(cond, e)) :
          cond \in {"d", "e"}, e \in {2, 3}}
  \cup {Function({"a", "c"}, Sides("a", kind) @@ (kind :> [op |-> kind, bits |-> 2]),
                 Bin("sdiv", "a", "p"), 4, Branch("d", 3)) : kind \in {"undef", "float"}}

(***************************************************************************)
(* Terminators: a switch with shared destinations, and the ones of which   *)
(* the pass knows only where they go, or not even that.                    *)
(***************************************************************************)
Terminators ==
  {Function({"a", "b"}, <<>>, i, block, <<t, Br(4), Br(4), Ret>>) :
     i \in {Bin("urem", "b", "a")}, block \in 2 .. 4,
     t \in {Switch("a", cases, default) : cases \in {<<Case(0, 2), Case(1, 3)>>,
                                                     <<Case(0, 2), Case(3, 2), Case(1, 3)>>},
                                          default \in 2 .. 4}
           \cup {Goes(op, {2, 3}) : op \in {"indirectbr", "invoke", "other"}}}

(***************************************************************************)
(* Loops: a loop with a counter, one nested in another, loops of one       *)
(* block, a loop with two entries, and code that cannot be reached, with   *)
(* and without a cycle, that leads into code that can.                     *)
(***************************************************************************)
Counter == [p |-> Phi(2, (1 :> "zero") @@ (3 :> "next")), next |-> Bin("add", "p", "one"),
            d |-> Compare("ult", "p", "a")]

Loops ==
  {Function({"a", "c"}, Counter, NSW(Bin("mul", "p", "a")), block,
            <<Br(2), CondBr("d", 3, 4), t, Ret>>) :
     block \in {3, 4}, t \in {Br(2), CondBr("c", 2, 3), CondBr("c", 2, 4)}}

Shapes ==
  {<<CondBr("c", 2, 3), CondBr("d", 3, 4), CondBr("d", 2, 4), Ret>>,
   <<Br(2), Br(3), CondBr("c", 2, 4), CondBr("d", 3, 5), Ret>>,
   <<Br(4), Br(4), Br(2), Ret>>,
   <<Br(4), Br(3), Br(4), Ret>>,
   <<Br(4), CondBr("c", 3, 4), Br(2), Ret>>,
   <<Br(4), CondBr("c", 2, 4), Br(4), Ret>>}

Graphs == {Function({"a", "b", "c"}, [d |-> Compare("sge", "a", "b")], Bin("ashr", "b", "a"), block, term) :
             block \in 2 .. 4, term \in Shapes}

\* One value that Z3 refuses: a select, or an address with a narrow index.
RefusedFunctions ==
  {Function({"a", "b", "c"}, [x |-> v], Bin("udiv", "a", "x"), 1, <<Ret>>) :
     v \in {Select("a", "b"), Gep(<<Times(1, "c")>>)}}

AllFunctions == Operations \cup Operands \cup Diamonds \cup Terminators \cup Loops \cup Graphs

\* TLC evaluates a definition of its own, as AllFunctions, only once.
MCFunctions == AllFunctions
=============================================================================
