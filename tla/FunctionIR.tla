----------------------------- MODULE FunctionIR -----------------------------
(***************************************************************************)
(* A function of LLVM IR with KINT's checks in it, as SMTQueryPass reads   *)
(* it, and what running it means.  LLVM is not part of this repository:    *)
(* the meaning is that of its language reference.  A function f has        *)
(*   values  for each value its operation, its width and its operands      *)
(*   order   its values, each behind its operands                          *)
(*   term    the terminators of its blocks, of which 1 is the entry        *)
(*   back    the edges FindFunctionBackedges reports                       *)
(*   calls   its calls, in layout order; a check names the operation it    *)
(*           was put before (operation) and what it passes on              *)
(***************************************************************************)
EXTENDS BitVectors, SequencesExt, CFG

CONSTANT Functions

\* Values that nothing is known of (arguments, loads, results of calls and so
\* on), or that are known only by the edge a block is entered by.
Symbolic == {"symbol", "undef", "float", "phi"}

Symbols(f) == {v \in DOMAIN f.values : f.values[v].op \in Symbolic}

Blocks(f) == DOMAIN f.term

Bits(f, v) == f.values[v].bits

MaxBits(f) == CHOOSE n \in {Bits(f, v) : v \in DOMAIN f.values} :
                \A v \in DOMAIN f.values : Bits(f, v) <= n

\* One run, for the part of it that takes no back edge: a value for each symbol.
Valuations(f) ==
  {sigma \in [Symbols(f) -> Domain(MaxBits(f))] :
     \A v \in Symbols(f) : sigma[v] \in Domain(Bits(f, v))}

-----------------------------------------------------------------------------
(***************************************************************************)
(* The value of everything in a run.  Where an operation is undefined the  *)
(* run has no meaning from there on, and any value does: the solver's.     *)
(***************************************************************************)
BinaryResult(op, bits, x, y) ==
  CASE op \in DivOps /\ DivUndefined(op, bits, x, y) ->
         (CASE op = "udiv" -> BvUDiv(bits, x, y)
            [] op = "urem" -> BvURem(x, y)
            [] op = "sdiv" -> BvSDiv(bits, x, y)
            [] op = "srem" -> BvSRem(bits, x, y))
    [] OTHER -> Result(op, bits, x, y)

Total(s) ==
  LET sum[n \in 0 .. Len(s)] == IF n = 0 THEN 0 ELSE sum[n - 1] + s[n]
  IN  sum[Len(s)]

\* The value of v, given the values of its operands.
ValueOf(f, sigma, val, v) ==
  LET i == f.values[v] IN
  CASE i.op \in Symbolic  -> sigma[v]
    [] i.op = "const"     -> i.value
    [] i.op \in BinaryOps -> BinaryResult(i.op, i.bits, val[i.lhs], val[i.rhs])
    [] i.op = "icmp" ->
         IF ICmp(i.pred, Bits(f, i.lhs), val[i.lhs], val[i.rhs]) THEN 1 ELSE 0
    [] i.op = "select"  -> IF val[i.cond] = 1 THEN val[i.true] ELSE val[i.false]
    [] i.op = "bitcast" -> val[i.src]
    [] i.op = "sext"    -> Wrap(i.bits, Signed(Bits(f, i.src), val[i.src]))
    [] i.op \in {"trunc", "zext", "inttoptr", "ptrtoint"} -> Wrap(i.bits, val[i.src])
    [] i.op = "gep" ->
         LET step == [n \in DOMAIN i.terms |-> LET t == i.terms[n] IN
                        t.scale * Signed(Bits(f, t.index), val[t.index])]
         IN  Wrap(i.bits, val[i.base] + i.offset + Total(step))

Values(f, sigma) ==
  LET val[v \in DOMAIN f.values] == ValueOf(f, sigma, val, v) IN val

-----------------------------------------------------------------------------
(***************************************************************************)
(* Where control goes.  An indirect branch, an invoke and what else the    *)
(* pass does not look into may go to any of their successors.              *)
(***************************************************************************)
SwitchDest(t, x) ==
  IF \E c \in ToSet(t.cases) : c.value = x
  THEN (CHOOSE c \in ToSet(t.cases) : c.value = x).dest
  ELSE t.default

MayGo(f, sigma, from, to) ==
  LET t == f.term[from] IN
  /\ to \in t.succs
  /\ t.op = "condbr" => to = IF Values(f, sigma)[t.cond] = 1 THEN t.then ELSE t.else
  /\ t.op = "switch" => to = SwitchDest(t, Values(f, sigma)[t.cond])

Phis(f, b) == {v \in DOMAIN f.values : f.values[v].op = "phi" /\ f.values[v].block = b}

PhisAgree(f, sigma, from, to) ==
  \A phi \in Phis(f, to) :
    LET v == f.values[phi].incoming[from] IN
    f.values[v].op = "undef" \/ sigma[phi] = Values(f, sigma)[v]

ForwardEdges(f) ==
  {e \in Blocks(f) \X Blocks(f) : e[2] \in f.term[e[1]].succs} \ f.back

Forward(f) == [b \in Blocks(f) |-> {c \in Blocks(f) : <<b, c>> \in ForwardEdges(f)}]

Steps(f, sigma) ==
  [b \in Blocks(f) |-> {c \in Forward(f)[b] : MayGo(f, sigma, b, c) /\ PhisAgree(f, sigma, b, c)}]

\* The runs that come to block b without taking a back edge.
Runs(f, b) == {sigma \in Valuations(f) : b \in {1} \cup Reachable(Steps(f, sigma), 1)}

\* The runs in which the operation that a check guards goes wrong.
Failures(f, c) ==
  LET i == f.values[c.operation] IN
  {sigma \in Runs(f, c.block) :
     GoesWrong(i.op, i.nsw, i.bits, Values(f, sigma)[i.lhs], Values(f, sigma)[i.rhs])}

-----------------------------------------------------------------------------
Checks == {"__kint_check", "__kint_overflow"}

IsCheck(c) == c.callee \in Checks

ReachableBlocks(f) == {1} \cup Reachable([b \in Blocks(f) |-> f.term[b].succs], 1)

\* What a value is computed from; a phi is a symbol.
OperandsOf(i) ==
  CASE i.op \in Symbolic \cup {"const"}  -> {}
    [] i.op \in BinaryOps \cup {"icmp"}  -> {i.lhs, i.rhs}
    [] i.op = "select"                   -> {i.cond, i.true, i.false}
    [] i.op = "gep" -> {i.base} \cup {i.terms[n].index : n \in DOMAIN i.terms}
    [] OTHER                             -> {i.src}

\* The widths that LLVM demands of each operation.
WellTyped(f, i) ==
  /\ i.bits \in Nat \ {0}
  /\ \/ i.op \in Symbolic
     \/ i.op = "const" /\ i.value \in Domain(i.bits)
     \/ i.op \in BinaryOps /\ Bits(f, i.lhs) = i.bits /\ Bits(f, i.rhs) = i.bits
     \/ i.op = "icmp" /\ i.bits = 1 /\ i.pred \in Predicates /\ Bits(f, i.lhs) = Bits(f, i.rhs)
     \/ i.op = "select" /\ Bits(f, i.cond) = 1 /\ \A v \in {i.true, i.false} : Bits(f, v) = i.bits
     \/ i.op = "bitcast" /\ Bits(f, i.src) = i.bits
     \/ i.op = "trunc" /\ Bits(f, i.src) > i.bits
     \/ i.op \in {"zext", "sext"} /\ Bits(f, i.src) < i.bits
     \/ i.op \in {"inttoptr", "ptrtoint"}
     \/ /\ i.op = "gep" /\ Bits(f, i.base) = i.bits /\ i.offset \in Int
        /\ i.terms \in Seq([scale : Int, index : DOMAIN f.values])

\* No value is computed from itself: LLVM's verifier sees to it, but for blocks that
\* cannot be reached, where a value may be its own operand; those are left out.
WellOrdered(f) ==
  /\ f.order \in Seq(DOMAIN f.values) /\ ToSet(f.order) = DOMAIN f.values
  /\ \A n \in DOMAIN f.order : \A w \in OperandsOf(f.values[f.order[n]]) :
       \E m \in 1 .. n - 1 : f.order[m] = w

\* A switch has each case value once.
WellFormedTerminator(f, t) ==
  \/ t.op \in {"br", "indirectbr", "invoke", "other"}
  \/ /\ t.op = "condbr"
     /\ t.cond \in DOMAIN f.values
     /\ t.succs = {t.then, t.else}
  \/ /\ t.op = "switch"
     /\ t.cond \in DOMAIN f.values
     /\ \A c, d \in ToSet(t.cases) : c.value = d.value => c.dest = d.dest

\* A phi node has a value for each predecessor of its block.
WellFormedPhi(f, i) ==
  \A p \in Blocks(f) : i.block \in f.term[p].succs =>
    p \in DOMAIN i.incoming /\ i.incoming[p] \in DOMAIN f.values

\* Both operands of an operation have its width.
WellFormedOverflowCheck(f, c, i) ==
  /\ c.callee = "__kint_overflow"
  /\ i.op \in OverflowOps /\ i.nsw \in BOOLEAN /\ i.bits \in Nat \ {0}
  /\ c.opcode = i.op /\ c.nsw = i.nsw /\ c.lhs = i.lhs /\ c.rhs = i.rhs
  /\ {i.lhs, i.rhs} \subseteq DOMAIN f.values
  /\ Bits(f, i.lhs) = i.bits /\ Bits(f, i.rhs) = i.bits

(***************************************************************************)
(* What check insertion guarantees of a call of __kint_check: its argument *)
(* is true exactly when the operation would go wrong.  This is             *)
(* CheckInsertion!ConditionsExact.                                         *)
(***************************************************************************)
WellFormedCheck(f, c, i) ==
  /\ c.callee = "__kint_check"
  /\ i.op \in DivOps \cup ShiftOps
  /\ c.cond \in DOMAIN f.values
  /\ \A sigma \in Valuations(f) : LET val == Values(f, sigma) IN
       val[c.cond] = 1 <=> GoesWrong(i.op, i.nsw, i.bits, val[i.lhs], val[i.rhs])

Guards(f, c) ==
  /\ c.operation \in DOMAIN f.values
  /\ LET i == f.values[c.operation] IN
     WellFormedOverflowCheck(f, c, i) \/ WellFormedCheck(f, c, i)

\* What LLVM and check insertion guarantee; the last two conjuncts are about
\* FindFunctionBackedges.
WellFormed(f) ==
  /\ f.term \in Seq(ToSet(f.term)) \ {<<>>} /\ f.calls \in Seq(ToSet(f.calls))
  /\ \A b \in Blocks(f) : f.term[b].succs \subseteq Blocks(f) \ {1} /\ WellFormedTerminator(f, f.term[b])
  /\ WellOrdered(f) /\ \A v \in DOMAIN f.values : WellTyped(f, f.values[v])
  /\ \A v \in DOMAIN f.values : f.values[v].op = "phi" => WellFormedPhi(f, f.values[v])
  /\ \A n \in DOMAIN f.calls :
       f.calls[n].block \in Blocks(f) /\ (IsCheck(f.calls[n]) => Guards(f, f.calls[n]))
  /\ \A e \in f.back : {e[1], e[2]} \subseteq ReachableBlocks(f) /\ e[2] \in f.term[e[1]].succs
  /\ \A b \in ReachableBlocks(f) : b \notin Reachable(Forward(f), b)

ASSUME FunctionsAssumption == \A f \in Functions : WellFormed(f)
=============================================================================
