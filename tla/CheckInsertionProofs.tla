------------------------ MODULE CheckInsertionProofs ------------------------
(***************************************************************************)
(* Proofs about CheckInsertion, for every set of functions of any length:  *)
(* the checks go to the operations that the original function observes,    *)
(* and make nothing else observable.                                       *)
(***************************************************************************)
EXTENDS CheckInsertion, BitVectorsProofs, TLAPS

-----------------------------------------------------------------------------
(***************************************************************************)
(* The function and its nodes.                                             *)
(***************************************************************************)
LEMMA OriginalFunction ==
  ASSUME fn \in Functions
  PROVE  /\ Len(fn) \in Nat
         /\ \A k \in Insts : /\ fn[k].direct \in BOOLEAN
                             /\ fn[k].args \in Seq(0 .. Len(fn))
                             /\ Operands(fn[k]) \subseteq Insts
                             /\ fn[k].op \in BinaryOps => Len(fn[k].args) = 2
<1> DEFINE Inst == [op : BinaryOps \cup {"other"}, args : Seq(0 .. Len(fn)), direct : BOOLEAN]
<1>1. fn \in Seq(Inst) /\ \A k \in 1 .. Len(fn) : fn[k].op \in BinaryOps => Len(fn[k].args) = 2
  BY FunctionsAssumption DEF WellFormed
<1>2. Len(fn) \in Nat /\ \A k \in Insts : fn[k] \in Inst
  <2> HIDE DEF Inst
  <2> QED BY <1>1 DEF Insts
<1>3. ASSUME NEW k \in Insts PROVE Operands(fn[k]) \subseteq Insts
  <2>1. fn[k].args \in Seq(0 .. Len(fn))
    BY <1>2
  <2>2. \A n \in DOMAIN fn[k].args : fn[k].args[n] \in 0 .. Len(fn)
    BY <2>1
  <2> QED BY <1>2, <2>2 DEF Operands, Insts
<1> QED BY <1>1, <1>2, <1>3 DEF Insts

\* A node is an instruction or a check, never both.
LEMMA NodeKinds ==
  ASSUME TypeOK
  PROVE  /\ Insts \subseteq Nodes
         /\ \A x \in Nodes \ Insts : x - Len(fn) \in DOMAIN checks /\ isDirectlyObservable(x)
         /\ \A k \in DOMAIN checks : Len(fn) + k \in Nodes \ Insts
<1>1. Len(fn) \in Nat /\ DOMAIN checks \subseteq Insts
  BY OriginalFunction DEF TypeOK
<1> QED BY <1>1 DEF Nodes, Insts, isDirectlyObservable

(***************************************************************************)
(* The observable instructions are themselves closed: the operands of an   *)
(* observable instruction are observable, and a direct one is observable.  *)
(***************************************************************************)
LEMMA ObservableIsClosed ==
  ASSUME NEW y \in Insts
  PROVE  /\ fn[y].direct => Observable(y)
         /\ Observable(y) => \A k \in Operands(fn[y]) : Observable(k)
BY DEF Observable, ObservableSet

(***************************************************************************)
(* The invariant.  A check stands only where the original function         *)
(* observes, so that whatever a check reads is observable without it.      *)
(***************************************************************************)
Inv == TypeOK /\ ChecksIffObservable /\ WorklistInv

LEMMA CheckedOperands ==
  ASSUME TypeOK, ChecksIffObservable, NEW x \in Nodes \ Insts
  PROVE  \A k \in Uses(x) : Observable(k)
<1>1. x - Len(fn) \in DOMAIN checks /\ x - Len(fn) \in Insts
  BY NodeKinds DEF TypeOK
<1>2. Uses(x) \subseteq Operands(fn[x - Len(fn)])
  BY <1>1 DEF TypeOK, Uses
<1>3. Observable(x - Len(fn))
  BY <1>1 DEF ChecksIffObservable
<1> QED BY <1>1, <1>2, <1>3, ObservableIsClosed

-----------------------------------------------------------------------------
(***************************************************************************)
(* What a search finds out is what holds in the original function.         *)
(***************************************************************************)
LEMMA FoundIsObservable ==
  ASSUME Inv, searching, NEW Curr \in Worklist, isDirectlyObservable(Curr)
  PROVE  Observable(at)
<1>1. CASE Curr \in Insts
  BY <1>1, ObservableIsClosed DEF Inv, WorklistInv, isDirectlyObservable
<1>2. CASE Curr \notin Insts
  BY <1>2 DEF Inv, WorklistInv
<1> QED BY <1>1, <1>2

LEMMA ExhaustedIsUnobservable ==
  ASSUME Inv, searching, Worklist = {}
  PROVE  ~Observable(at)
<1> DEFINE rest == Insts \ Visited
<1>1. at \in Visited /\ at \in Insts
  BY DEF Inv, WorklistInv, TypeOK
<1>2. ASSUME NEW y \in Insts PROVE fn[y].direct => y \in rest
  BY <1>2 DEF Inv, WorklistInv, isDirectlyObservable
<1>3. ASSUME NEW y \in rest PROVE Operands(fn[y]) \subseteq rest
  <2>1. Operands(fn[y]) \subseteq Insts
    BY <1>3, OriginalFunction DEF Inv, TypeOK
  <2>2. ASSUME NEW k \in Operands(fn[y]), k \in Visited PROVE FALSE
    <3>1. y \in UsersOf(k)
      BY <1>3, <2>2, NodeKinds DEF Inv, UsersOf, Uses
    <3>2. y \in Visited
      BY <2>2, <3>1 DEF Inv, WorklistInv
    <3> QED BY <1>3, <3>2
  <2> QED BY <2>1, <2>2
<1>4. ObservableSet(rest)
  BY <1>2, <1>3 DEF ObservableSet
<1>5. at \notin rest
  BY <1>1
<1> HIDE DEF rest
<1> QED BY <1>4, <1>5 DEF Observable, ObservableSet

-----------------------------------------------------------------------------
(***************************************************************************)
(* The steps, one by one.                                                  *)
(***************************************************************************)
LEMMA InitInv == Init => Inv
<1> SUFFICES ASSUME Init PROVE Inv
  OBVIOUS
<1>1. Len(fn) \in Nat /\ fn \in Functions
  BY OriginalFunction DEF Init
<1>2. searching \in BOOLEAN /\ ~searching
  BY DEF Init
<1>3. at = 1 /\ DOMAIN checks = {} /\ Visited = {} /\ Worklist = {}
  BY DEF Init
<1>4. at \in 1 .. Len(fn) + 1 /\ \A k \in Insts : ~(k < at)
  BY <1>1, <1>3 DEF Insts
<1> QED BY <1>1, <1>2, <1>3, <1>4 DEF Inv, TypeOK, ChecksIffObservable, WorklistInv

\* Observability in the original function does not change, as it does not.
LEMMA SameObservable ==
  ASSUME fn' = fn, NEW k
  PROVE  Observable(k)' <=> Observable(k)
BY DEF Observable, ObservableSet, Insts

\* Between two searches: what Advance leaves to show.
LEMMA AdvanceStep ==
  ASSUME Inv, Advance, at \in Insts,
         DOMAIN checks' \subseteq {k \in Insts : k < at + 1 /\ fn[k].op \in CheckedOps},
         \A k \in DOMAIN checks' : checks'[k].uses \subseteq Operands(fn[k]),
         \A k \in Insts : k \in DOMAIN checks'
                           <=> k < at + 1 /\ fn[k].op \in CheckedOps /\ Observable(k)
  PROVE  Inv'
<1>1. fn' = fn /\ at' = at + 1 /\ Visited' = {} /\ Worklist' = {}
  BY DEF Advance
<1>2. searching' \in BOOLEAN /\ ~searching'
  BY DEF Advance
<1>3. at' \in 1 .. Len(fn) + 1
  BY <1>1, OriginalFunction DEF Inv, TypeOK, Insts
<1>4. Insts' = Insts
  BY <1>1 DEF Insts
<1>5. fn' \in Functions
  BY <1>1 DEF Inv, TypeOK
<1>6. TypeOK'
  BY <1>1, <1>2, <1>3, <1>4, <1>5 DEF TypeOK
<1>7. ChecksIffObservable'
  BY <1>1, <1>4, SameObservable DEF ChecksIffObservable
<1>8. WorklistInv'
  BY <1>1, <1>2 DEF WorklistInv
<1> QED BY <1>6, <1>7, <1>8 DEF Inv

LEMMA VisitOtherStep == Inv /\ VisitOther => Inv'
<1> SUFFICES ASSUME Inv, VisitOther PROVE Inv'
  OBVIOUS
<1>1. Advance /\ checks' = checks /\ at \in Insts /\ fn[at].op \notin CheckedOps
  BY DEF VisitOther, BinaryOps
<1>2. Len(fn) \in Nat
  BY OriginalFunction DEF Inv, TypeOK
<1>3. ASSUME NEW k \in Insts
      PROVE  k \in DOMAIN checks' <=> k < at + 1 /\ fn[k].op \in CheckedOps /\ Observable(k)
  BY <1>1, <1>2, <1>3 DEF Inv, ChecksIffObservable, Insts
<1> QED BY <1>1, <1>2, <1>3, AdvanceStep DEF Inv, TypeOK, Insts

LEMMA UnobservableStep == Inv /\ Unobservable => Inv'
<1> SUFFICES ASSUME Inv, Unobservable PROVE Inv'
  OBVIOUS
<1>1. Advance /\ checks' = checks /\ ~Observable(at)
  BY ExhaustedIsUnobservable DEF Unobservable
<1>2. Len(fn) \in Nat /\ at \in Insts
  BY OriginalFunction DEF Unobservable, Inv, TypeOK
<1>3. ASSUME NEW k \in Insts
      PROVE  k \in DOMAIN checks' <=> k < at + 1 /\ fn[k].op \in CheckedOps /\ Observable(k)
  BY <1>1, <1>2, <1>3 DEF Inv, ChecksIffObservable, Insts
<1> QED BY <1>1, <1>2, <1>3, AdvanceStep DEF Inv, TypeOK, Insts

LEMMA CheckForUses ==
  ASSUME fn \in Functions, NEW k \in Insts, fn[k].op \in CheckedOps
  PROVE  CheckFor(fn[k]).uses \subseteq Operands(fn[k])
<1>1. fn[k].args[2] \in Operands(fn[k]) \cup {0}
  <2>1. Len(fn[k].args) = 2 /\ fn[k].args \in Seq(0 .. Len(fn))
    BY OriginalFunction DEF BinaryOps
  <2> QED BY <2>1 DEF Operands
<1> QED BY <1>1 DEF CheckFor, insertOverflowCheck, insertDivCheck, insertShiftCheck,
              CheckedOps, OverflowOps, DivOps, SignedDivOps, ShiftOps

LEMMA InsertCheckStep == Inv /\ InsertCheck => Inv'
<1> SUFFICES ASSUME Inv, InsertCheck PROVE Inv'
  OBVIOUS
<1>1. Advance /\ Observable(at)
  BY FoundIsObservable DEF InsertCheck
<1>2. Len(fn) \in Nat /\ at \in Insts
  BY OriginalFunction DEF InsertCheck, Inv, TypeOK
<1>3. /\ DOMAIN checks' = DOMAIN checks \cup (IF fn[at].op \in CheckedOps THEN {at} ELSE {})
      /\ \A k \in DOMAIN checks : k # at => checks'[k] = checks[k]
      /\ fn[at].op \in CheckedOps => checks'[at] = CheckFor(fn[at])
  BY DEF InsertCheck
<1>4. ASSUME NEW k \in DOMAIN checks' PROVE checks'[k].uses \subseteq Operands(fn[k])
  BY <1>2, <1>3, <1>4, CheckForUses DEF Inv, TypeOK
<1>5. DOMAIN checks' \subseteq {k \in Insts : k < at + 1 /\ fn[k].op \in CheckedOps}
  BY <1>2, <1>3 DEF Inv, TypeOK, Insts
<1>6. ASSUME NEW k \in Insts
      PROVE  k \in DOMAIN checks' <=> k < at + 1 /\ fn[k].op \in CheckedOps /\ Observable(k)
  BY <1>1, <1>2, <1>3, <1>6 DEF Inv, ChecksIffObservable, Insts
<1> QED BY <1>1, <1>2, <1>4, <1>5, <1>6, AdvanceStep

\* The three steps of a search that leave the function and its checks alone.
LEMMA SearchStep ==
  ASSUME Inv, UNCHANGED <<fn, checks, at>>, at \in Insts, fn[at].op \in BinaryOps,
         searching' = TRUE, Visited' \subseteq Nodes, Worklist' \subseteq Nodes,
         at \in Visited' \cup Worklist',
         \A x \in Visited' \cup Worklist' : x \notin Insts \/ Observable(x) => Observable(at),
         \A x \in Visited' : /\ ~isDirectlyObservable(x)
                             /\ UsersOf(x) \subseteq Visited' \cup Worklist'
  PROVE  Inv'
<1>1. TypeOK'
  BY DEF Inv, TypeOK, Insts, Nodes
<1>2. ChecksIffObservable'
  BY SameObservable DEF Inv, ChecksIffObservable, Insts
<1>3. WorklistInv'
  <2>1. ASSUME NEW x PROVE /\ isDirectlyObservable(x)' <=> isDirectlyObservable(x)
                           /\ UsersOf(x)' = UsersOf(x)
    BY DEF isDirectlyObservable, UsersOf, Nodes, Uses, Insts
  <2>2. Insts' = Insts
    BY DEF Insts
  <2> QED BY <2>1, <2>2, SameObservable DEF WorklistInv
<1> QED BY <1>1, <1>2, <1>3 DEF Inv

LEMMA VisitBinaryOperatorStep == Inv /\ VisitBinaryOperator => Inv'
<1> SUFFICES ASSUME Inv, VisitBinaryOperator PROVE Inv'
  OBVIOUS
<1>1. /\ UNCHANGED <<fn, checks, at>> /\ Visited' = Visited /\ Worklist' = {at}
      /\ searching' = TRUE /\ at \in Insts /\ fn[at].op \in BinaryOps
  BY DEF VisitBinaryOperator
<1>2. Visited = {}
  BY DEF VisitBinaryOperator, Inv, WorklistInv
<1>3. at \in Nodes
  BY <1>1, NodeKinds DEF Inv
<1> QED BY <1>1, <1>2, <1>3, SearchStep

LEMMA SkipVisitedStep == Inv /\ SkipVisited => Inv'
<1> SUFFICES ASSUME Inv, SkipVisited PROVE Inv'
  OBVIOUS
<1>1. PICK Curr \in Worklist \cap Visited : Worklist' = Worklist \ {Curr}
  BY DEF SkipVisited
<1>2. UNCHANGED <<fn, checks, at>> /\ Visited' = Visited /\ searching' = TRUE
  BY DEF SkipVisited, Inv, TypeOK
<1>3. Visited' \cup Worklist' = Visited \cup Worklist /\ Worklist' \subseteq Worklist
  BY <1>1, <1>2
<1>4. searching /\ at \in Insts /\ fn[at].op \in BinaryOps
      /\ Visited \subseteq Nodes /\ Worklist \subseteq Nodes
  BY DEF SkipVisited, Inv, TypeOK
<1>5. /\ at \in Visited' \cup Worklist'
      /\ \A x \in Visited' \cup Worklist' : x \notin Insts \/ Observable(x) => Observable(at)
      /\ \A x \in Visited' : ~isDirectlyObservable(x)
                             /\ UsersOf(x) \subseteq Visited' \cup Worklist'
  BY <1>2, <1>3, <1>4 DEF Inv, WorklistInv
<1> QED BY <1>2, <1>3, <1>4, <1>5, SearchStep

LEMMA AddUsersStep == Inv /\ AddUsers => Inv'
<1> SUFFICES ASSUME Inv, AddUsers PROVE Inv'
  OBVIOUS
<1>1. PICK Curr \in Worklist \ Visited :
        /\ ~isDirectlyObservable(Curr)
        /\ Visited' = Visited \cup {Curr}
        /\ Worklist' = (Worklist \ {Curr}) \cup UsersOf(Curr)
  BY DEF AddUsers
<1>2. UNCHANGED <<fn, checks, at>> /\ searching' = TRUE /\ searching
  BY DEF AddUsers, Inv, TypeOK
<1>3. Visited' \cup Worklist' = Visited \cup Worklist \cup UsersOf(Curr)
  BY <1>1
<1>4. Curr \in Insts /\ UsersOf(Curr) \subseteq Nodes
  BY <1>1, NodeKinds DEF Inv, TypeOK, UsersOf
<1>5. ASSUME NEW y \in UsersOf(Curr), y \notin Insts \/ Observable(y)
      PROVE  Observable(at)
  <2>1. y \in Nodes /\ Curr \in Uses(y)
    BY <1>5 DEF UsersOf
  <2>2. Observable(Curr)
    <3>1. CASE y \in Insts
      BY <1>5, <2>1, <3>1, ObservableIsClosed DEF Uses
    <3>2. CASE y \notin Insts
      BY <2>1, <3>2, CheckedOperands DEF Inv
    <3> QED BY <3>1, <3>2
  <2> QED BY <1>1, <1>2, <2>2 DEF Inv, WorklistInv
<1> QED BY <1>1, <1>2, <1>3, <1>4, <1>5, SearchStep DEF Inv, WorklistInv, TypeOK

LEMMA StutterStep == Inv /\ UNCHANGED vars => Inv'
<1> SUFFICES ASSUME Inv, UNCHANGED vars PROVE Inv'
  OBVIOUS
<1>1. TypeOK'
  BY DEF vars, Inv, TypeOK, Insts, Nodes
<1>2. fn' = fn /\ checks' = checks /\ at' = at /\ Insts' = Insts
  BY DEF vars, Insts
<1>3. ChecksIffObservable'
  BY <1>2, SameObservable DEF Inv, ChecksIffObservable
<1>4. CASE ~searching
  BY <1>1, <1>3, <1>4 DEF vars, Inv, WorklistInv
<1>5. CASE searching
  BY <1>5, SearchStep DEF vars, Inv, WorklistInv, TypeOK
<1> QED BY <1>4, <1>5

-----------------------------------------------------------------------------
(***************************************************************************)
(* The invariant of the pass, and its three parts.                         *)
(***************************************************************************)
LEMMA Invariant == Spec => []Inv
<1>1. Inv /\ [Next]_vars => Inv'
  BY VisitOtherStep, VisitBinaryOperatorStep, SkipVisitedStep, AddUsersStep,
     InsertCheckStep, UnobservableStep, StutterStep DEF Next, Step, Terminated
<1> QED BY <1>1, InitInv, PTL DEF Spec

\* The types, and that a check reads operands of its operation only.
THEOREM CheckInsertionTypeOK == Spec => []TypeOK
BY Invariant, PTL DEF Inv

\* The invariant of isObservable's loop.
THEOREM CheckInsertionWorklistInv == Spec => []WorklistInv
BY Invariant, PTL DEF Inv

(***************************************************************************)
(* The checks are where the original function observes the operation, for  *)
(* all functions and all orders of the search.                             *)
(***************************************************************************)
THEOREM CheckInsertionChecksIffObservable == Spec => []ChecksIffObservable
BY Invariant, PTL DEF Inv

(***************************************************************************)
(* The checks make nothing observable: an observable set of the original   *)
(* function and the checks together are one of the function as it is.      *)
(***************************************************************************)
LEMMA KeptByChecks ==
  ASSUME Inv, NEW k \in Insts
  PROVE  ObservableNow(k) <=> Observable(k)
<1>1. ASSUME Observable(k), NEW S \in SUBSET Nodes, ObservableSetNow(S) PROVE k \in S
  <2>1. ObservableSet(S \cap Insts)
    <3>1. ASSUME NEW y \in Insts
          PROVE  /\ fn[y].direct => y \in S
                 /\ y \in S => Operands(fn[y]) \subseteq S \cap Insts
      BY <1>1, <3>1, NodeKinds, OriginalFunction
         DEF ObservableSetNow, isDirectlyObservable, Uses, Inv, TypeOK
    <3> QED BY <3>1 DEF ObservableSet
  <2> QED BY <1>1, <2>1 DEF Observable
<1>2. ASSUME ObservableNow(k), NEW S \in SUBSET Insts, ObservableSet(S) PROVE k \in S
  <2> DEFINE all == S \cup (Nodes \ Insts)
  <2>1. ASSUME NEW y \in Nodes, y \in all PROVE Uses(y) \subseteq all
    <3>1. CASE y \in Insts
      BY <1>2, <2>1, <3>1 DEF ObservableSet, Uses
    <3>2. CASE y \notin Insts
      <4>1. \A n \in Uses(y) : Observable(n)
        BY <3>2, CheckedOperands DEF Inv
      <4> QED BY <1>2, <4>1 DEF Observable
    <3> QED BY <3>1, <3>2
  <2>2. \A y \in Nodes : isDirectlyObservable(y) => y \in all
    BY <1>2 DEF ObservableSet, isDirectlyObservable
  <2>3. all \subseteq Nodes
    BY NodeKinds DEF Inv
  <2>4. k \in all
    <3> HIDE DEF all
    <3> QED BY <1>2, <2>1, <2>2, <2>3 DEF ObservableNow, ObservableSetNow
  <2> QED BY <2>4
<1> QED BY <1>1, <1>2 DEF Observable, ObservableNow

(***************************************************************************)
(* Hence the order in which the visitor meets the operations cannot        *)
(* decide which of them get a check.                                       *)
(***************************************************************************)
THEOREM CheckInsertionObservabilityKept == Spec => []ObservabilityKept
<1>1. Inv => ObservabilityKept
  BY KeptByChecks DEF ObservabilityKept
<1> QED BY <1>1, Invariant, PTL

-----------------------------------------------------------------------------
(***************************************************************************)
(* The conditions that the checks pass on, at any width.                   *)
(***************************************************************************)
LEMMA DivConditionExact ==
  ASSUME NEW op \in DivOps, NEW bits \in Nat \ {0}, NEW x \in Domain(bits), NEW y \in Domain(bits)
  PROVE  DivCondition(op, bits, x, y) <=> DivUndefined(op, bits, x, y)
<1> DEFINE half == 2^(bits - 1)
           size == 2^bits
           sx == Signed(bits, x)
           sy == Signed(bits, y)
<1>1. /\ half \in Nat \ {0} /\ size = 2 * half
      /\ x \in 0 .. size - 1 /\ y \in 0 .. size - 1
      /\ sx \in -half .. half - 1 /\ sx = IF x >= half THEN x - size ELSE x
      /\ sy \in -half .. half - 1 /\ sy = IF y >= half THEN y - size ELSE y
  BY SignedValue
<1>2. DivCondition(op, bits, x, y)
        <=> y = 0 \/ (op \in SignedDivOps /\ y = size - 1 /\ x = half)
  BY DEF DivCondition
<1>3. DivUndefined(op, bits, x, y)
        <=> y = 0 \/ (op \in SignedDivOps /\ Quotient(sx, sy) \notin -half .. half - 1)
  BY DEF DivUndefined, SignedDomain
<1> HIDE DEF half, size, sx, sy
<1>4. /\ y = 0 <=> sy = 0
      /\ y = size - 1 <=> sy = -1
      /\ x = half <=> sx = -half
  BY <1>1
<1>5. y # 0 => (Quotient(sx, sy) \notin -half .. half - 1 <=> sx = -half /\ sy = -1)
  BY <1>1, <1>4, QuotientRepresentable
<1> QED
  BY <1>2, <1>3, <1>4, <1>5

LEMMA ShiftConditionExact ==
  ASSUME NEW bits \in Nat \ {0}, NEW y \in Domain(bits)
  PROVE  ShiftCondition(bits, y) <=> ShiftUndefined(bits, y)
<1> DEFINE size == 2^bits
<1>1. bits < size /\ size \in Nat
  BY PowerOfTwo
<1>2. bits % size = bits
  <2> HIDE DEF size
  <2> QED BY <1>1
<1> QED
  BY <1>2 DEF ShiftCondition, ShiftUndefined

(***************************************************************************)
(* A division or shift check says, for all operands of all widths, what    *)
(* LLVM leaves undefined: constant -1, the smallest number and the width   *)
(* itself are numbers of that width, even where it is one bit.             *)
(***************************************************************************)
THEOREM CheckInsertionConditionsExact == Spec => []ConditionsExact
<1>1. ConditionsExact
  <2> SUFFICES ASSUME NEW k, NEW bits \in BitWidths,
                      NEW x \in 0 .. 2^bits - 1, NEW y \in 0 .. 2^bits - 1
               PROVE  /\ fn[k].op \in DivOps =>
                           (DivCondition(fn[k].op, bits, x, y) <=> DivUndefined(fn[k].op, bits, x, y))
                      /\ fn[k].op \in ShiftOps => (ShiftCondition(bits, y) <=> ShiftUndefined(bits, y))
    BY DEF ConditionsExact
  <2>1. bits \in Nat \ {0} /\ x \in Domain(bits) /\ y \in Domain(bits)
    BY BitWidthsAssumption DEF Domain
  <2> QED BY <2>1, DivConditionExact, ShiftConditionExact
<1> QED
  BY <1>1, PTL
=============================================================================
