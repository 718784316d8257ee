------------------------ MODULE ConstantRangeProofs ------------------------
(***************************************************************************)
(* What the proofs about the range analysis need to know of ranges: every  *)
(* set of values of a width has a smallest cover, so a union is a range    *)
(* that holds what both operands hold.                                     *)
(***************************************************************************)
EXTENDS ConstantRange, BitVectorsProofs

\* Every range of a width is a set of values of that width, and finite.
LEMMA ShapesAreSubsets ==
  ASSUME NEW bits \in Widths, NEW C \in Shapes[bits]
  PROVE  C \subseteq Domain(bits) /\ IsFiniteSet(C) /\ Cardinality(C) \in Nat
<1>1. C \subseteq Domain(bits)
  BY DEF Shapes, Span
<1>2. IsFiniteSet(Domain(bits))
  <2>1. 2^bits \in Nat \ {0} /\ bits \in Nat BY WidthsAssumption, PowerOfTwo
  <2> DEFINE greatest == 2^bits - 1
  <2>2. 0 \in Int /\ greatest \in Int BY <2>1
  <2>3. IsFiniteSet(0 .. greatest)
    <3> HIDE DEF greatest
    <3> QED BY <2>2, FS_Interval
  <2> QED BY <2>3 DEF Domain
<1> QED BY <1>1, <1>2, FS_Subset, FS_CardinalityType

\* unionWith and intersectWith have a result: a range that holds all of S.
LEMMA SmallestCoverCovers ==
  ASSUME NEW bits \in Widths, NEW S \in SUBSET Domain(bits)
  PROVE  /\ SmallestCover[bits][S] \in Shapes[bits]
         /\ S \subseteq SmallestCover[bits][S]
         /\ \A D \in Shapes[bits] : S \subseteq D =>
              Cardinality(SmallestCover[bits][S]) <= Cardinality(D)
<1> DEFINE covers == Covers(bits, S)
           sizes == {Cardinality(C) : C \in covers}
<1>1. Domain(bits) \in covers
  BY DEF Covers, Shapes
<1>2. \A C \in covers : Cardinality(C) \in Nat
  BY ShapesAreSubsets DEF Covers
<1>3. sizes \in SUBSET Nat /\ sizes # {}
  BY <1>1, <1>2
<1>4. PICK n \in sizes : \A m \in sizes : n <= m
  <2> HIDE DEF sizes
  <2> QED BY <1>3, LeastNat
<1>5. \E C \in covers : \A D \in covers : Cardinality(C) <= Cardinality(D)
  BY <1>4
<1>6. /\ SmallestCover[bits][S] \in covers
      /\ \A D \in covers : Cardinality(SmallestCover[bits][S]) <= Cardinality(D)
  <2> HIDE DEF covers
  <2> QED BY <1>5 DEF SmallestCover, covers
<1> QED BY <1>6 DEF Covers

LEMMA CoverIsRange ==
  ASSUME NEW bits \in Widths, NEW S \in SUBSET Domain(bits)
  PROVE  IsRange(Cover(bits, S)) /\ Cover(bits, S).bits = bits /\ S \subseteq Cover(bits, S).set
BY SmallestCoverCovers DEF Cover, IsRange

\* The smallest range that holds nothing is the empty one.
LEMMA CoverOfNothing ==
  ASSUME NEW bits \in Widths
  PROVE  Cover(bits, {}).set = {}
<1> DEFINE C == SmallestCover[bits][{}]
<1>1. {} \in SUBSET Domain(bits) /\ {} \in Shapes[bits]
  BY DEF Shapes
<1>2. C \in Shapes[bits] /\ Cardinality(C) <= Cardinality({})
  BY <1>1, SmallestCoverCovers
<1>3. IsFiniteSet(C) /\ Cardinality(C) \in Nat
  BY <1>2, ShapesAreSubsets
<1>4. C = {}
  <2> HIDE DEF C
  <2> QED BY <1>2, <1>3, FS_EmptySet
<1> QED BY <1>4 DEF Cover

\* Ranges are built of values of their width.
LEMMA RangeInDomain ==
  ASSUME NEW r, IsRange(r)
  PROVE  r.bits \in Widths /\ r.set \subseteq Domain(r.bits)
BY ShapesAreSubsets DEF IsRange

LEMMA EmptyAndFullAreRanges ==
  ASSUME NEW bits \in Widths
  PROVE  IsRange(Empty(bits)) /\ IsRange(Full(bits))
BY DEF IsRange, Empty, Full, Shapes

LEMMA DefaultIsRange == IsRange(DefaultRange)
BY EmptyAndFullAreRanges, WidthsAssumption DEF DefaultRange

(***************************************************************************)
(* unionWith loses nothing of its left operand, and nothing of its right   *)
(* operand when the widths agree.                                          *)
(***************************************************************************)
LEMMA UnionHoldsBoth ==
  ASSUME NEW a, NEW b, IsRange(a), IsRange(b)
  PROVE  /\ IsRange(UnionWith(a, b))
         /\ UnionWith(a, b).bits = a.bits
         /\ a.set \subseteq UnionWith(a, b).set
         /\ a.bits = b.bits => b.set \subseteq UnionWith(a, b).set
<1>1. CASE a.bits = b.bits
  <2>1. a.set \cup b.set \in SUBSET Domain(a.bits) /\ a.bits \in Widths
    BY <1>1, RangeInDomain
  <2> QED BY <1>1, <2>1, CoverIsRange DEF UnionWith
<1>2. CASE a.bits # b.bits
  BY <1>2 DEF UnionWith
<1> QED BY <1>1, <1>2

(***************************************************************************)
(* unionWith changes nothing when the one operand is part of the other: an *)
(* interval is the smallest one that holds it.                             *)
(***************************************************************************)
LEMMA UnionAbsorbs ==
  ASSUME NEW a, NEW b, IsRange(a), IsRange(b), a.bits = b.bits, b.set \subseteq a.set
  PROVE  UnionWith(a, b) = a /\ UnionWith(b, a) = a
<1> DEFINE C == SmallestCover[a.bits][a.set]
<1>1. a.bits \in Widths /\ a.set \in Shapes[a.bits] /\ a.set \in SUBSET Domain(a.bits)
  BY RangeInDomain DEF IsRange
<1>2. C \in Shapes[a.bits] /\ a.set \subseteq C /\ Cardinality(C) <= Cardinality(a.set)
  BY <1>1, SmallestCoverCovers
<1>3. /\ IsFiniteSet(C) /\ Cardinality(C) \in Nat
      /\ IsFiniteSet(a.set) /\ Cardinality(a.set) \in Nat
  BY <1>1, <1>2, ShapesAreSubsets
<1>4. C = a.set
  <2> HIDE DEF C
  <2>1. Cardinality(a.set) <= Cardinality(C)
        /\ (Cardinality(a.set) = Cardinality(C) => C = a.set)
    BY <1>2, <1>3, FS_Subset
  <2> QED BY <1>2, <1>3, <2>1
<1>5. a.set \cup b.set = a.set /\ b.set \cup a.set = a.set
  OBVIOUS
<1>6. a = [bits |-> a.bits, set |-> a.set]
  BY DEF IsRange
<1> QED BY <1>4, <1>5, <1>6 DEF UnionWith, Cover

(***************************************************************************)
(* A one-element range: [v, v + 1), or [v, 0) for the greatest v.          *)
(***************************************************************************)
LEMMA SingleIsRange ==
  ASSUME NEW bits \in Widths, NEW v \in Domain(bits)
  PROVE  IsRange(Single(bits, v))
<1>1. 2^bits \in Nat \ {0}
  BY WidthsAssumption, PowerOfTwo
<1>2. {v} \in Shapes[bits]
  <2>1. CASE v + 1 \in Domain(bits)
    <3>1. Span(bits, v, v + 1) = {v}
      BY <1>1, <2>1 DEF Span, Domain
    <3> QED BY <2>1, <3>1 DEF Shapes
  <2>2. CASE v + 1 \notin Domain(bits)
    <3>1. v = 2^bits - 1 /\ 0 \in Domain(bits)
      BY <1>1, <2>2 DEF Domain
    <3>2. Span(bits, v, 0) = {v}
      BY <1>1, <3>1 DEF Span, Domain
    <3> QED BY <3>1, <3>2 DEF Shapes
  <2> QED BY <2>1, <2>2
<1> QED BY <1>2 DEF IsRange, Single

(***************************************************************************)
(* A comparison is true or false, its inverse the opposite, and the        *)
(* swapped one compares the operands in the other order.                   *)
(***************************************************************************)
LEMMA Comparisons ==
  ASSUME NEW bits \in Nat, NEW x \in Domain(bits), NEW y \in Domain(bits),
         NEW pred \in Predicates
  PROVE  /\ ICmp(pred, bits, x, y) \in BOOLEAN
         /\ ICmp(InversePredicate[pred], bits, x, y) <=> ~ICmp(pred, bits, x, y)
         /\ ICmp(SwappedPredicate[pred], bits, y, x) <=> ICmp(pred, bits, x, y)
<1> DEFINE size == 2^bits
           s == Signed(bits, x)
           t == Signed(bits, y)
<1>1. size \in Nat /\ x \in Int /\ y \in Int
  BY PowerOfTwo DEF Domain
<1>2. s \in Int /\ t \in Int
  <2> s = IF 2 * x >= size THEN x - size ELSE x
    BY DEF Signed
  <2> t = IF 2 * y >= size THEN y - size ELSE y
    BY DEF Signed
  <2> HIDE DEF s, t, size
  <2> QED BY <1>1
<1> HIDE DEF s, t, size
<1>3. CASE pred = "eq"
  BY <1>1, <1>2, <1>3 DEF ICmp, InversePredicate, SwappedPredicate, s, t
<1>4. CASE pred = "ne"
  BY <1>1, <1>2, <1>4 DEF ICmp, InversePredicate, SwappedPredicate, s, t
<1>5. CASE pred = "ult"
  BY <1>1, <1>2, <1>5 DEF ICmp, InversePredicate, SwappedPredicate, s, t
<1>6. CASE pred = "ule"
  BY <1>1, <1>2, <1>6 DEF ICmp, InversePredicate, SwappedPredicate, s, t
<1>7. CASE pred = "ugt"
  BY <1>1, <1>2, <1>7 DEF ICmp, InversePredicate, SwappedPredicate, s, t
<1>8. CASE pred = "uge"
  BY <1>1, <1>2, <1>8 DEF ICmp, InversePredicate, SwappedPredicate, s, t
<1>9. CASE pred = "slt"
  BY <1>1, <1>2, <1>9 DEF ICmp, InversePredicate, SwappedPredicate, s, t
<1>10. CASE pred = "sle"
  BY <1>1, <1>2, <1>10 DEF ICmp, InversePredicate, SwappedPredicate, s, t
<1>11. CASE pred = "sgt"
  BY <1>1, <1>2, <1>11 DEF ICmp, InversePredicate, SwappedPredicate, s, t
<1>12. CASE pred = "sge"
  BY <1>1, <1>2, <1>12 DEF ICmp, InversePredicate, SwappedPredicate, s, t
<1> QED
  BY <1>3, <1>4, <1>5, <1>6, <1>7, <1>8, <1>9, <1>10, <1>11, <1>12 DEF Predicates
=============================================================================
