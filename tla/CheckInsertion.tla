--------------------------- MODULE CheckInsertion ---------------------------
(***************************************************************************)
(* CheckInsertionPass::run and its BinaryOperatorVisitor (src/kint/        *)
(* check_insertion.cpp): right before each integer operation of a function *)
(* that can go wrong, and whose result something observable depends on, a  *)
(* call is put that states the condition of going wrong.                   *)
(*                                                                         *)
(* A function is the sequence of its instructions in layout order; an      *)
(* instruction has an opcode, its operands (the position of the one that   *)
(* computes it, or 0 for an argument or a constant) and what LLVM's        *)
(* isSafeToSpeculativelyExecute denies (direct).  Operands may come later  *)
(* in the layout, and in unreachable code they may form any cycle.         *)
(***************************************************************************)
EXTENDS BitVectors, Sequences

CONSTANTS
  Functions,   \* the functions the pass may be run on
  BitWidths    \* the widths of their operations

Operands(i) == {i.args[n] : n \in DOMAIN i.args} \ {0}

WellFormed(f) ==
  /\ f \in Seq([op : BinaryOps \cup {"other"}, args : Seq(0 .. Len(f)), direct : BOOLEAN])
  /\ \A k \in 1 .. Len(f) : f[k].op \in BinaryOps => Len(f[k].args) = 2

ASSUME FunctionsAssumption == \A f \in Functions : WellFormed(f)

ASSUME BitWidthsAssumption == BitWidths \subseteq Nat \ {0}

VARIABLES
  fn,         \* the function, as it was
  checks,     \* the check inserted before an instruction, if there is one
  at,         \* position of the visitor in fn
  searching,  \* is isObservable running?
  Visited, Worklist

vars == <<fn, checks, at, searching, Visited, Worklist>>

Insts == 1 .. Len(fn)

-----------------------------------------------------------------------------
(***************************************************************************)
(* The function as it is now.  The instructions of a check (comparisons,   *)
(* and, or, call) are one node, Len(fn) + k for the check before k: each   *)
(* of them leads to the call, which is observable.                         *)
(***************************************************************************)
Nodes == Insts \cup {Len(fn) + k : k \in DOMAIN checks}

Uses(x) == IF x \in Insts THEN Operands(fn[x]) ELSE checks[x - Len(fn)].uses

isDirectlyObservable(x) == IF x \in Insts THEN fn[x].direct ELSE TRUE

UsersOf(x) == {y \in Nodes : x \in Uses(y)}

(***************************************************************************)
(* What a check calls and which operands it reads: both for an overflow    *)
(* and a signed division, the second alone for other divisions and shifts. *)
(***************************************************************************)
insertOverflowCheck(i) == [callee |-> "__kint_overflow", uses |-> Operands(i)]

insertDivCheck(i) ==
  [callee |-> "__kint_check",
   uses |-> IF i.op \in SignedDivOps THEN Operands(i) ELSE {i.args[2]} \ {0}]

insertShiftCheck(i) == [callee |-> "__kint_check", uses |-> {i.args[2]} \ {0}]

CheckFor(i) ==
  CASE i.op \in OverflowOps -> insertOverflowCheck(i)
    [] i.op \in DivOps      -> insertDivCheck(i)
    [] i.op \in ShiftOps    -> insertShiftCheck(i)

(***************************************************************************)
(* What the call of __kint_check is given, as a function of the width and  *)
(* of the (unsigned) values of the operands.                               *)
(***************************************************************************)
\* Mutant: -1 is looked for in the numerator.
DivConditionSwapped(op, bits, numerator, denominator) ==
  \/ denominator = 0
  \/ op \in SignedDivOps /\ numerator = 2^bits - 1 /\ denominator = 2^(bits - 1)

DivCondition(op, bits, numerator, denominator) ==
  \/ denominator = 0
  \/ op \in SignedDivOps /\ denominator = 2^bits - 1 /\ numerator = 2^(bits - 1)

ShiftCondition(bits, amount) == amount >= bits % 2^bits

-----------------------------------------------------------------------------
Init ==
  /\ fn \in Functions
  /\ checks = [k \in {} |-> k]
  /\ at = 1
  /\ searching = FALSE
  /\ Visited = {}
  /\ Worklist = {}

\* The visitor goes on to the next instruction of the function as it was.
Advance ==
  /\ at' = at + 1
  /\ searching' = FALSE
  /\ Visited' = {}
  /\ Worklist' = {}
  /\ UNCHANGED fn

\* visitBinaryOperator, called for binary operators only, asks isObservable.
VisitOther ==
  /\ ~searching
  /\ at \in Insts
  /\ fn[at].op \notin BinaryOps
  /\ Advance
  /\ UNCHANGED checks

VisitBinaryOperator ==
  /\ ~searching
  /\ at \in Insts
  /\ fn[at].op \in BinaryOps
  /\ searching' = TRUE
  /\ Worklist' = {at}
  /\ UNCHANGED <<fn, checks, at, Visited>>

(***************************************************************************)
(* The turns of isObservable's loop.  The code pops the last value; here   *)
(* it is any.                                                              *)
(***************************************************************************)
SkipVisited ==
  /\ searching
  /\ \E Curr \in Worklist \cap Visited : Worklist' = Worklist \ {Curr}
  /\ UNCHANGED <<fn, checks, at, searching, Visited>>

\* Mutant: the users of a user are not looked at.
AddUsersOnce ==
  /\ searching
  /\ \E Curr \in Worklist \ Visited :
       /\ ~isDirectlyObservable(Curr)
       /\ Visited' = Visited \cup {Curr}
       /\ Worklist' = (Worklist \ {Curr}) \cup (IF Curr = at THEN UsersOf(Curr) ELSE {})
  /\ UNCHANGED <<fn, checks, at, searching>>

\* Mutant: nothing is marked as visited.
AddUsersUnmarked ==
  /\ searching
  /\ \E Curr \in Worklist \ Visited :
       /\ ~isDirectlyObservable(Curr)
       /\ Worklist' = (Worklist \ {Curr}) \cup UsersOf(Curr)
  /\ UNCHANGED <<fn, checks, at, searching, Visited>>

AddUsers ==
  /\ searching
  /\ \E Curr \in Worklist \ Visited :
       /\ ~isDirectlyObservable(Curr)
       /\ Visited' = Visited \cup {Curr}
       /\ Worklist' = (Worklist \ {Curr}) \cup UsersOf(Curr)
  /\ UNCHANGED <<fn, checks, at, searching>>

\* Mutant: whatever the search meets, the check is inserted.
InsertCheckAlways ==
  /\ searching
  /\ Worklist # {}
  /\ checks' = IF fn[at].op \in CheckedOps
               THEN [k \in DOMAIN checks \cup {at} |->
                       IF k = at THEN CheckFor(fn[at]) ELSE checks[k]]
               ELSE checks
  /\ Advance

\* Mutant: the check is inserted before the next instruction.
InsertCheckAfter ==
  /\ searching
  /\ \E Curr \in Worklist \ Visited : isDirectlyObservable(Curr)
  /\ checks' = IF fn[at].op \in CheckedOps
               THEN [k \in DOMAIN checks \cup {at + 1} |->
                       IF k = at + 1 THEN CheckFor(fn[at]) ELSE checks[k]]
               ELSE checks
  /\ Advance

\* isObservable returns true, and the check is inserted before the operator.
InsertCheck ==
  /\ searching
  /\ \E Curr \in Worklist \ Visited : isDirectlyObservable(Curr)
  /\ checks' = IF fn[at].op \in CheckedOps
               THEN [k \in DOMAIN checks \cup {at} |->
                       IF k = at THEN CheckFor(fn[at]) ELSE checks[k]]
               ELSE checks
  /\ Advance

\* isObservable returns false.
Unobservable ==
  /\ searching
  /\ Worklist = {}
  /\ Advance
  /\ UNCHANGED checks

Finished == at = Len(fn) + 1

Terminated == Finished /\ UNCHANGED vars

Step == VisitOther \/ VisitBinaryOperator \/ SkipVisited \/ AddUsers
        \/ InsertCheck \/ Unobservable

Next == Step \/ Terminated

\* One thread that is never suspended for good.
Spec == Init /\ [][Next]_vars /\ WF_vars(Step)

-----------------------------------------------------------------------------
(***************************************************************************)
(* Type invariant; a check stands before a visited operation that needs    *)
(* one and reads operands of that operation only.                          *)
(***************************************************************************)
TypeOK ==
  /\ fn \in Functions
  /\ at \in 1 .. Len(fn) + 1
  /\ searching \in BOOLEAN
  /\ searching => at \in Insts /\ fn[at].op \in BinaryOps
  /\ Visited \subseteq Nodes
  /\ Worklist \subseteq Nodes
  /\ DOMAIN checks \subseteq {k \in Insts : k < at /\ fn[k].op \in CheckedOps}
  /\ \A k \in DOMAIN checks : checks[k].uses \subseteq Operands(fn[k])

(***************************************************************************)
(* What is observable: the least set with all that is directly observable  *)
(* and all operands of what is in it.  Once for the function as it was,    *)
(* once for the function with the checks inserted so far.                  *)
(***************************************************************************)
ObservableSet(S) ==
  /\ S \subseteq Insts
  /\ \A y \in Insts : (fn[y].direct => y \in S) /\ (y \in S => Operands(fn[y]) \subseteq S)

Observable(k) == \A S \in SUBSET Insts : ObservableSet(S) => k \in S

ObservableSetNow(S) ==
  /\ S \subseteq Nodes
  /\ \A y \in Nodes : (isDirectlyObservable(y) => y \in S) /\ (y \in S => Uses(y) \subseteq S)

ObservableNow(k) == \A S \in SUBSET Nodes : ObservableSetNow(S) => k \in S

(***************************************************************************)
(* The checks are before exactly those operations the original function    *)
(* observes, although each search runs on a function that earlier checks,  *)
(* which are calls and read operands, have changed already.                *)
(***************************************************************************)
ChecksIffObservable ==
  \A k \in Insts :
    k \in DOMAIN checks <=> k < at /\ fn[k].op \in CheckedOps /\ Observable(k)

(***************************************************************************)
(* A check never makes an instruction observable that was not: the order   *)
(* in which the visitor meets the operations does not matter.              *)
(***************************************************************************)
ObservabilityKept == \A k \in Insts : ObservableNow(k) <=> Observable(k)

(***************************************************************************)
(* The invariant of isObservable's loop: what it has met is observable     *)
(* only if the operator is, and nothing it has looked at was observable or *)
(* has a user it will not look at.                                         *)
(***************************************************************************)
WorklistInv ==
  /\ searching =>
       /\ at \in Visited \cup Worklist
       /\ \A x \in Visited \cup Worklist : x \notin Insts \/ Observable(x) => Observable(at)
       /\ \A x \in Visited :
            ~isDirectlyObservable(x) /\ UsersOf(x) \subseteq Visited \cup Worklist
  /\ ~searching => Visited = {} /\ Worklist = {}

(***************************************************************************)
(* The condition of a division or shift check is true exactly when LLVM    *)
(* leaves the operation undefined: its divisor is zero, its quotient, that *)
(* of the integers rounded towards zero, has no representation, or its     *)
(* amount is the width or more.  Boundary widths are where it could fail.  *)
(***************************************************************************)
ConditionsExact ==
  Finished => \A k \in DOMAIN checks, bits \in BitWidths :
    \A x, y \in 0 .. 2^bits - 1 :
      /\ fn[k].op \in DivOps =>
           (DivCondition(fn[k].op, bits, x, y) <=> DivUndefined(fn[k].op, bits, x, y))
      /\ fn[k].op \in ShiftOps => (ShiftCondition(bits, y) <=> ShiftUndefined(bits, y))

(***************************************************************************)
(* The pass returns: it does not visit what it inserts, and a search ends  *)
(* on a cycle of users too.                                                *)
(***************************************************************************)
VisitorReturns == <>Finished
=============================================================================
