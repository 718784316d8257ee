---------------------------- MODULE Constraints ----------------------------
(***************************************************************************)
(* ValueConstraint, and the part of PathConstraint that is about one edge  *)
(* (src/kint/constraint.cpp).  A Z3 expression stands for what it is under *)
(* every assignment sigma to the symbols: a bit vector for its value, a    *)
(* Boolean for its truth.                                                  *)
(***************************************************************************)
EXTENDS FunctionIR

isAnalyzable(f, v) == f.values[v].op # "float"

Bool2BV(b) == IF b THEN 1 ELSE 0

SResize(x, srcWidth, destWidth) ==
  CASE srcWidth = destWidth -> x
    [] srcWidth < destWidth -> BvSExt(srcWidth, destWidth, x)
    [] srcWidth > destWidth -> Wrap(destWidth, x)

\* Mutant: the unsigned division stands in for the signed one.
GetBinaryOperatorUnsigned(op, bits, lhs, rhs) ==
  CASE op \in {"udiv", "sdiv"} -> BvUDiv(bits, lhs, rhs)
    [] op = "urem" -> BvURem(lhs, rhs)
    [] op = "srem" -> BvSRem(bits, lhs, rhs)
    [] op \notin DivOps -> Result(op, bits, lhs, rhs)

\* Z3 and LLVM agree on what is not a division.
GetBinaryOperator(op, bits, lhs, rhs) ==
  CASE op = "udiv" -> BvUDiv(bits, lhs, rhs)
    [] op = "sdiv" -> BvSDiv(bits, lhs, rhs)
    [] op = "urem" -> BvURem(lhs, rhs)
    [] op = "srem" -> BvSRem(bits, lhs, rhs)
    [] op \notin DivOps -> Result(op, bits, lhs, rhs)

(***************************************************************************)
(* ValueConstraint::Get of v, given what it returns for v's operands.  A   *)
(* select has the same expression for both outcomes, but see Refused.      *)
(***************************************************************************)
GetOf(f, sigma, get, v) ==
  LET i == f.values[v] IN
  CASE i.op \in Symbolic  -> sigma[v]
    [] i.op = "const"     -> i.value
    [] i.op \in BinaryOps -> GetBinaryOperator(i.op, i.bits, get[i.lhs], get[i.rhs])
    [] i.op = "icmp"      -> Bool2BV(ICmp(i.pred, Bits(f, i.lhs), get[i.lhs], get[i.rhs]))
    [] i.op = "select"    -> get[i.true]
    [] i.op = "bitcast"   -> IF isAnalyzable(f, i.src) THEN get[i.src] ELSE sigma[i.src]
    [] i.op = "trunc"     -> Wrap(i.bits, get[i.src])
    [] i.op = "zext"      -> get[i.src]
    [] i.op = "sext"      -> BvSExt(Bits(f, i.src), i.bits, get[i.src])
    [] i.op \in {"inttoptr", "ptrtoint"} -> SResize(get[i.src], Bits(f, i.src), i.bits)
    [] i.op = "gep" ->
         LET totalOffset == i.offset + Total([n \in DOMAIN i.terms |->
                                                i.terms[n].scale * get[i.terms[n].index]])
         IN  Wrap(i.bits, get[i.base] + totalOffset)

Get(f, sigma) ==
  LET get[v \in DOMAIN f.values] == GetOf(f, sigma, get, v) IN get

(***************************************************************************)
(* Z3 refuses the bit vector of a select's condition, where a Boolean is   *)
(* due, and the product of an offset and an index of another width; that   *)
(* ends the process, also when an operand is refused.                      *)
(***************************************************************************)
Refused(f, i) ==
  \/ i.op = "select"
  \/ i.op = "gep" /\ \E n \in DOMAIN i.terms : Bits(f, i.terms[n].index) # i.bits

Untranslatable(f) ==
  LET fails[v \in DOMAIN f.values] ==
        Refused(f, f.values[v]) \/ \E w \in OperandsOf(f.values[v]) : fails[w]
  IN {v \in DOMAIN f.values : fails[v]}

-----------------------------------------------------------------------------
\* Mutant: an edge to the default destination is taken for the default alone.
EdgeConditionDefaultOnly(f, sigma, bb, pred) ==
  LET t == f.term[pred]
      cond == Get(f, sigma)[t.cond]
  IN
  CASE t.op \in {"br", "indirectbr", "invoke"} -> TRUE
    [] t.op = "condbr" -> IF t.then = bb THEN cond = 1 ELSE cond # 1
    [] t.op = "switch" -> IF t.default = bb
                          THEN \A c \in ToSet(t.cases) : cond # c.value
                          ELSE \E c \in ToSet(t.cases) : c.dest = bb /\ cond = c.value
    [] t.op = "other" -> FALSE

EdgeCondition(f, sigma, bb, pred) ==
  LET t == f.term[pred]
      cond == Get(f, sigma)[t.cond]
      nonDefault == \E c \in ToSet(t.cases) : c.dest = bb /\ cond = c.value
      defaultCase == \A c \in ToSet(t.cases) : cond # c.value
  IN
  CASE t.op \in {"br", "indirectbr", "invoke"} -> TRUE
    [] t.op = "condbr" -> IF t.then = bb THEN cond = 1 ELSE cond # 1
    [] t.op = "switch" -> nonDefault \/ (t.default = bb /\ defaultCase)
    [] t.op = "other" -> FALSE

\* The phi nodes that say something on the edge from pred, with their value there.
Assigned(f, bb, pred) ==
  {phi \in Phis(f, bb) : LET v == f.values[phi].incoming[pred] IN
                           f.values[v].op # "undef" /\ isAnalyzable(f, v)}

\* Mutant: an undefined value is assigned like any other.
PhiAssignmentOfUndef(f, sigma, bb, pred) ==
  \A phi \in Phis(f, bb) :
    Get(f, sigma)[phi] = Get(f, sigma)[f.values[phi].incoming[pred]]

PhiAssignment(f, sigma, bb, pred) ==
  \A phi \in Assigned(f, bb, pred) :
    Get(f, sigma)[phi] = Get(f, sigma)[f.values[phi].incoming[pred]]

EdgeHolds(f, sigma, bb, pred) ==
  EdgeCondition(f, sigma, bb, pred) /\ PhiAssignment(f, sigma, bb, pred)

EdgeConstraint(f, bb, pred) == {sigma \in Valuations(f) : EdgeHolds(f, sigma, bb, pred)}

\* What has to be translated for it, in any order.
EdgeOperands(f, bb, pred) ==
  (IF f.term[pred].op \in {"condbr", "switch"} THEN {f.term[pred].cond} ELSE {})
    \cup {f.values[phi].incoming[pred] : phi \in Assigned(f, bb, pred)}

Translatable(f, bb, pred) == EdgeOperands(f, bb, pred) \cap Untranslatable(f) = {}

-----------------------------------------------------------------------------
\* Mutant: the two bounds of a signed subtraction are taken for one.
OverflowConditionOneSided(op, nsw, bits, lhs, rhs) ==
  IF op = "sub" THEN ~NoUnderflow(op, bits, lhs, rhs, nsw)
                ELSE \/ ~NoOverflow(op, bits, lhs, rhs, nsw)
                     \/ nsw /\ ~NoUnderflow(op, bits, lhs, rhs, TRUE)

(***************************************************************************)
(* CallInstVisitor::visitCallInst on __kint_overflow: the bound that both  *)
(* kinds of numbers have, and with nsw the other one as well.              *)
(***************************************************************************)
OverflowCondition(op, nsw, bits, lhs, rhs) ==
  IF op = "sub"
  THEN \/ ~NoUnderflow(op, bits, lhs, rhs, nsw)
       \/ nsw /\ ~NoOverflow(op, bits, lhs, rhs, TRUE)
  ELSE \/ ~NoOverflow(op, bits, lhs, rhs, nsw)
       \/ nsw /\ ~NoUnderflow(op, bits, lhs, rhs, TRUE)

\* V of a check, under the assignment sigma.
Condition(f, c, sigma) ==
  IF c.callee = "__kint_check"
  THEN Get(f, sigma)[c.cond] = 1
  ELSE OverflowCondition(c.opcode, c.nsw, Bits(f, c.lhs), Get(f, sigma)[c.lhs], Get(f, sigma)[c.rhs])

ConditionOperands(c) == IF c.callee = "__kint_check" THEN {c.cond} ELSE {c.lhs, c.rhs}
=============================================================================
