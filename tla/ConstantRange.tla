--------------------------- MODULE ConstantRange ---------------------------
(***************************************************************************)
(* llvm::ConstantRange, as far as KintConstantRange uses it.  LLVM is not  *)
(* part of this repository, so everything here is external but the default *)
(* constructor, which kint_constant_range.h redefines.                     *)
(*                                                                         *)
(* A range is a bit width and the set of unsigned values it denotes.  LLVM *)
(* stores a half-open interval that may wrap around 2^bits, hence not      *)
(* every set is a range.                                                   *)
(***************************************************************************)
EXTENDS BitVectors, FiniteSets

CONSTANT Widths   \* the bit widths in use

ASSUME WidthsAssumption ==
  /\ {0, 1} \subseteq Widths
  /\ Widths \subseteq Nat

\* The values of [lower, upper), wrapping around when lower > upper.
Span(bits, lower, upper) ==
  {x \in Domain(bits) :
     IF lower < upper THEN lower <= x /\ x < upper ELSE x >= lower \/ x < upper}

Shapes ==
  [bits \in Widths |->
     {{}, Domain(bits)}
       \cup {Span(bits, lower, upper) : lower \in Domain(bits), upper \in Domain(bits)}]

IsRange(r) ==
  /\ r = [bits |-> r.bits, set |-> r.set]
  /\ r.bits \in Widths
  /\ r.set \in Shapes[r.bits]

Empty(bits) == [bits |-> bits, set |-> {}]
Full(bits) == [bits |-> bits, set |-> Domain(bits)]
Single(bits, value) == [bits |-> bits, set |-> {value}]

(***************************************************************************)
(* KintConstantRange() is ConstantRange(0, true): full, and at width 0     *)
(* LLVM also takes it for empty, which is the test that decides in every   *)
(* operation used here.                                                    *)
(***************************************************************************)
DefaultRange == Empty(0)

(***************************************************************************)
(* The smallest range of the given width that holds all of S: what         *)
(* unionWith and intersectWith settle on (PreferredRangeType::Smallest)    *)
(* when the exact result is not an interval.  Between two ranges of the    *)
(* same size LLVM takes one of them and CHOOSE takes one of them.          *)
(***************************************************************************)
Covers(bits, S) == {C \in Shapes[bits] : S \subseteq C}

SmallestCover ==
  [bits \in Widths |->
     [S \in SUBSET Domain(bits) |->
        CHOOSE C \in Covers(bits, S) :
          \A D \in Covers(bits, S) : Cardinality(C) <= Cardinality(D)]]

Cover(bits, S) == [bits |-> bits, set |-> SmallestCover[bits][S]]

(***************************************************************************)
(* Operands of two widths trip an assertion in LLVM.  Where it is compiled *)
(* out, and one of the two is a DefaultRange, the left operand comes back: *)
(* it passes for full, or the right one passes for empty.                  *)
(***************************************************************************)
UnionWith(a, b) ==
  IF a.bits = b.bits THEN Cover(a.bits, a.set \cup b.set) ELSE a

IntersectWith(a, b) == Cover(a.bits, a.set \cap b.set)

-----------------------------------------------------------------------------
\* getInversePredicate: the predicate that holds when pred does not.
InversePredicate ==
  [eq |-> "ne", ne |-> "eq", ult |-> "uge", ule |-> "ugt", ugt |-> "ule",
   uge |-> "ult", slt |-> "sge", sle |-> "sgt", sgt |-> "sle", sge |-> "slt"]

\* getSwappedPredicate: the predicate for the operands in the other order.
SwappedPredicate ==
  [eq |-> "eq", ne |-> "ne", ult |-> "ugt", ule |-> "uge", ugt |-> "ult",
   uge |-> "ule", slt |-> "sgt", sle |-> "sge", sgt |-> "slt", sge |-> "sle"]

\* makeAllowedICmpRegion: the x that satisfy "x pred y" for some y of other.
AllowedICmpRegion(pred, other) ==
  [bits |-> other.bits,
   set |-> {x \in Domain(other.bits) : \E y \in other.set : ICmp(pred, other.bits, x, y)}]
=============================================================================
