----------------------------- MODULE BitVectors -----------------------------
(***************************************************************************)
(* Integers of a bit width, as LLVM's instructions work on them: which     *)
(* operations there are, when one is undefined and what it computes        *)
(* otherwise, by the LLVM language reference.  A value is the unsigned     *)
(* number its bits denote.                                                 *)
(***************************************************************************)
EXTENDS Integers

Domain(bits) == 0 .. 2^bits - 1

SignedDomain(bits) == -2^(bits - 1) .. 2^(bits - 1) - 1

Signed(bits, x) == IF 2 * x >= 2^bits THEN x - 2^bits ELSE x

Wrap(bits, n) == n % 2^bits

Ones(bits, x) == {i \in 0 .. bits - 1 : (x \div 2^i) % 2 = 1}

FromOnes(bits, S) == CHOOSE x \in Domain(bits) : Ones(bits, x) = S

-----------------------------------------------------------------------------
(***************************************************************************)
(* The operators of llvm::BinaryOperator on integers, by the check they    *)
(* need.                                                                   *)
(***************************************************************************)
OverflowOps == {"add", "sub", "mul"}
SignedDivOps == {"sdiv", "srem"}
DivOps == SignedDivOps \cup {"udiv", "urem"}
ShiftOps == {"shl", "lshr", "ashr"}
CheckedOps == OverflowOps \cup DivOps \cup ShiftOps
BinaryOps == CheckedOps \cup {"and", "or", "xor"}

Abs(x) == IF x < 0 THEN -x ELSE x

\* The quotient of two integers, rounded towards zero.
Quotient(x, y) == IF (x < 0) = (y < 0) THEN Abs(x) \div Abs(y) ELSE -(Abs(x) \div Abs(y))

Exact(op, x, y) ==
  CASE op = "add" -> x + y
    [] op = "sub" -> x - y
    [] op = "mul" -> x * y

(***************************************************************************)
(* An overflow check asks about the signed result of an operation with the *)
(* flag nsw, and about the unsigned result of one without.                 *)
(***************************************************************************)
Overflows(op, nsw, bits, x, y) ==
  IF nsw THEN Exact(op, Signed(bits, x), Signed(bits, y)) \notin SignedDomain(bits)
         ELSE Exact(op, x, y) \notin Domain(bits)

DivUndefined(op, bits, x, y) ==
  \/ y = 0
  \/ /\ op \in SignedDivOps
     /\ Quotient(Signed(bits, x), Signed(bits, y)) \notin SignedDomain(bits)

ShiftUndefined(bits, y) == y >= bits

GoesWrong(op, nsw, bits, x, y) ==
  CASE op \in OverflowOps -> Overflows(op, nsw, bits, x, y)
    [] op \in DivOps      -> DivUndefined(op, bits, x, y)
    [] op \in ShiftOps    -> ShiftUndefined(bits, y)

\* What an operation computes, where it is defined.
Result(op, bits, x, y) ==
  LET quotient == Quotient(Signed(bits, x), Signed(bits, y)) IN
  CASE op \in OverflowOps -> Wrap(bits, Exact(op, x, y))
    [] op = "udiv" -> x \div y
    [] op = "urem" -> x % y
    [] op = "sdiv" -> Wrap(bits, quotient)
    [] op = "srem" -> Wrap(bits, Signed(bits, x) - quotient * Signed(bits, y))
    [] op = "shl"  -> Wrap(bits, x * 2^y)
    [] op = "lshr" -> x \div 2^y
    [] op = "ashr" -> Wrap(bits, Signed(bits, x) \div 2^y)
    [] op = "and"  -> FromOnes(bits, Ones(bits, x) \cap Ones(bits, y))
    [] op = "or"   -> FromOnes(bits, Ones(bits, x) \cup Ones(bits, y))
    [] op = "xor"  -> FromOnes(bits, (Ones(bits, x) \cup Ones(bits, y))
                                     \ (Ones(bits, x) \cap Ones(bits, y)))

-----------------------------------------------------------------------------
(***************************************************************************)
(* The same operations as an SMT solver has them, total, by the theory of  *)
(* fixed-size bit vectors of SMT-LIB: the signed divisions are made of the *)
(* unsigned ones, and nothing is undefined.                                *)
(***************************************************************************)
IsNegative(bits, x) == 2 * x >= 2^bits
Negate(bits, x) == Wrap(bits, -x)
Magnitude(bits, x) == IF IsNegative(bits, x) THEN Negate(bits, x) ELSE x

BvUDiv(bits, x, y) == IF y = 0 THEN 2^bits - 1 ELSE x \div y
BvURem(x, y) == IF y = 0 THEN x ELSE x % y

BvSDiv(bits, x, y) ==
  LET quotient == BvUDiv(bits, Magnitude(bits, x), Magnitude(bits, y)) IN
  IF IsNegative(bits, x) = IsNegative(bits, y) THEN quotient ELSE Negate(bits, quotient)

BvSRem(bits, x, y) ==
  LET rest == BvURem(Magnitude(bits, x), Magnitude(bits, y)) IN
  IF IsNegative(bits, x) THEN Negate(bits, rest) ELSE rest

BvSExt(bits, newBits, x) ==
  IF IsNegative(bits, x) THEN x + 2^newBits - 2^bits ELSE x

\* Z3's bvadd_no_overflow, bvadd_no_underflow and their like.
NoOverflow(op, bits, x, y, isSigned) ==
  IF isSigned THEN Exact(op, Signed(bits, x), Signed(bits, y)) < 2^(bits - 1)
              ELSE Exact(op, x, y) < 2^bits

NoUnderflow(op, bits, x, y, isSigned) ==
  IF isSigned THEN Exact(op, Signed(bits, x), Signed(bits, y)) >= -2^(bits - 1)
              ELSE Exact(op, x, y) >= 0

-----------------------------------------------------------------------------
(***************************************************************************)
(* Comparisons of llvm::ICmpInst.                                          *)
(***************************************************************************)
Predicates == {"eq", "ne", "ult", "ule", "ugt", "uge", "slt", "sle", "sgt", "sge"}

ICmp(pred, bits, x, y) ==
  CASE pred = "eq"  -> x = y
    [] pred = "ne"  -> x # y
    [] pred = "ult" -> x < y
    [] pred = "ule" -> x <= y
    [] pred = "ugt" -> x > y
    [] pred = "uge" -> x >= y
    [] pred = "slt" -> Signed(bits, x) < Signed(bits, y)
    [] pred = "sle" -> Signed(bits, x) <= Signed(bits, y)
    [] pred = "sgt" -> Signed(bits, x) > Signed(bits, y)
    [] pred = "sge" -> Signed(bits, x) >= Signed(bits, y)
=============================================================================
