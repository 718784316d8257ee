------------------------------ MODULE SMTQuery ------------------------------
(***************************************************************************)
(* SMTQueryPass::run on one function (src/kint/smt_query.cpp): for each    *)
(* check, the path constraint of its block, by the recursion of            *)
(* PathConstraint::Get over predecessors (src/kint/constraint.cpp), the    *)
(* condition of going wrong, and a query to Z3.                            *)
(*                                                                         *)
(* A constraint is the set of assignments to the symbols that satisfy it.  *)
(* The pass is one thread; a step is one call, return or edge.             *)
(***************************************************************************)
EXTENDS Constraints, Exactness

CONSTANT MaxDepth   \* activations of PathConstraint::Get that fit the C++ stack

ASSUME DepthAssumption ==
  MaxDepth \in Nat /\ \A f \in Functions : Len(f.term) < MaxDepth

VARIABLES
  fn,       \* F of CheckFunction
  at,       \* the visitor's position among the calls
  pc,       \* where visitCallInst is
  stack,    \* the activations of PathConstraint::Get, innermost last
  path,     \* P, once it is known
  report    \* what Solve has printed

vars == <<fn, at, pc, stack, path, report>>

-----------------------------------------------------------------------------
Call == fn.calls[at]

Top == Last(stack)

Predecessors(f, b) == {p \in Blocks(f) : b \in f.term[p].succs}

\* An activation: its block, the predecessors not taken yet, Union so far, and
\* the constraint of the edge it is waiting for the predecessor of.
Activation(bb) ==
  [bb |-> bb, preds |-> Predecessors(fn, bb), union |-> {}, edge |-> {}]

Init ==
  /\ fn \in Functions
  /\ at = 1
  /\ pc = "visit"
  /\ stack = <<>>
  /\ path = {}
  /\ report = <<>>

VisitOther ==
  /\ pc = "visit" /\ at \in DOMAIN fn.calls
  /\ ~IsCheck(Call)
  /\ at' = at + 1
  /\ UNCHANGED <<fn, pc, stack, path, report>>

VisitCheck ==
  /\ pc = "visit" /\ at \in DOMAIN fn.calls
  /\ IsCheck(Call)
  /\ stack' = <<Activation(Call.block)>>
  /\ pc' = "walk"
  /\ UNCHANGED <<fn, at, path, report>>

Finish ==
  /\ pc = "visit" /\ at \notin DOMAIN fn.calls
  /\ pc' = "done"
  /\ UNCHANGED <<fn, at, stack, path, report>>

-----------------------------------------------------------------------------
\* Mutant: what the last predecessor returned replaces Union.
ReturnReplacing(constraint) ==
  IF Len(stack) = 1
  THEN /\ path' = constraint
       /\ stack' = <<>>
       /\ pc' = "solve"
  ELSE /\ stack' = [Front(stack) EXCEPT ![Len(stack) - 1].union =
                      stack[Len(stack) - 1].edge \cap constraint]
       /\ UNCHANGED <<path, pc>>

(***************************************************************************)
(* PathConstraint::Get returns: to visitCallInst, or to the activation     *)
(* below, which adds EdgeConstraint && PhiConstraint && PredConstraint.    *)
(***************************************************************************)
Return(constraint) ==
  IF Len(stack) = 1
  THEN /\ path' = constraint
       /\ stack' = <<>>
       /\ pc' = "solve"
  ELSE /\ stack' = [Front(stack) EXCEPT ![Len(stack) - 1].union =
                      @ \cup (stack[Len(stack) - 1].edge \cap constraint)]
       /\ UNCHANGED <<path, pc>>

ReturnTrue ==
  /\ pc = "walk"
  /\ Top.bb = 1
  /\ Return(Valuations(fn))
  /\ UNCHANGED <<fn, at, report>>

ReturnUnion ==
  /\ pc = "walk"
  /\ Top.bb # 1 /\ Top.preds = {}
  /\ Return(Top.union)
  /\ UNCHANGED <<fn, at, report>>

\* Mutant: only a block's edge to itself is dropped.
IsBackEdgeToItself(p) == p = Top.bb

IsBackEdge(p) == <<p, Top.bb>> \in fn.back

\* Mutant: the edge that is skipped is met again.
SkipBackEdgeForever ==
  /\ pc = "walk"
  /\ \E p \in Top.preds : IsBackEdge(p)
  /\ UNCHANGED vars

\* The predecessors come in the order of LLVM's use lists: any.
SkipBackEdge ==
  /\ pc = "walk"
  /\ \E p \in Top.preds :
       /\ IsBackEdge(p)
       /\ stack' = [stack EXCEPT ![Len(stack)].preds = @ \ {p}]
  /\ UNCHANGED <<fn, at, pc, path, report>>

TakesEdge(p) == p \in Top.preds /\ ~IsBackEdge(p)

FollowPred ==
  /\ pc = "walk"
  /\ Len(stack) < MaxDepth
  /\ \E p \in Blocks(fn) :
       /\ TakesEdge(p)
       /\ Translatable(fn, Top.bb, p)
       /\ stack' = Append([stack EXCEPT ![Len(stack)].preds = @ \ {p},
                                        ![Len(stack)].edge = EdgeConstraint(fn, Top.bb, p)],
                          Activation(p))
  /\ UNCHANGED <<fn, at, pc, path, report>>

StackOverflow ==
  /\ pc = "walk"
  /\ Len(stack) = MaxDepth
  /\ \E p \in Blocks(fn) : TakesEdge(p)
  /\ pc' = "overflow"
  /\ UNCHANGED <<fn, at, stack, path, report>>

-----------------------------------------------------------------------------
\* Mutant: the visitor comes back to the same check.
SolveAgain ==
  LET constraint == {sigma \in path : Condition(fn, Call, sigma)}
      models == Valuations(fn) \ constraint
  IN
  /\ pc = "solve"
  /\ report' = Append(report, [call |-> at, constraint |-> constraint, models |-> models,
                               verdict |-> IF models # {} THEN "Error example" ELSE "OK"])
  /\ pc' = "visit"
  /\ UNCHANGED <<fn, at, stack, path>>

(***************************************************************************)
(* The solver is given the negation of P && V, so a model it finds is one  *)
(* in which the guarded operation does not go wrong, or is not reached.    *)
(* models are those it may print.                                          *)
(***************************************************************************)
Solve ==
  LET constraint == {sigma \in path : Condition(fn, Call, sigma)}
      models == Valuations(fn) \ constraint
  IN
  /\ pc = "solve"
  /\ ConditionOperands(Call) \cap Untranslatable(fn) = {}
  /\ report' = Append(report, [call |-> at, constraint |-> constraint, models |-> models,
                               verdict |-> IF models # {} THEN "Error example" ELSE "OK"])
  /\ at' = at + 1
  /\ pc' = "visit"
  /\ UNCHANGED <<fn, stack, path>>

\* Z3 reports an error.
Abort ==
  /\ \/ /\ pc = "walk"
        /\ \E p \in Blocks(fn) : TakesEdge(p) /\ ~Translatable(fn, Top.bb, p)
     \/ pc = "solve" /\ ConditionOperands(Call) \cap Untranslatable(fn) # {}
  /\ pc' = "aborted"
  /\ UNCHANGED <<fn, at, stack, path, report>>

Ended == pc \in {"done", "aborted", "overflow"}

Step ==
  \/ VisitOther \/ VisitCheck \/ Finish
  \/ ReturnTrue \/ ReturnUnion \/ SkipBackEdge \/ FollowPred \/ StackOverflow
  \/ Solve \/ Abort

Next == Step \/ (Ended /\ UNCHANGED vars)

\* One thread that is never suspended for good, and a solver that answers.
Spec == Init /\ [][Next]_vars /\ WF_vars(Step)

Promise == INSTANCE SMTQueryAbs

-----------------------------------------------------------------------------
Activations ==
  [bb : Blocks(fn), preds : SUBSET Blocks(fn), union : SUBSET Valuations(fn), edge : SUBSET Valuations(fn)]

Answers ==
  [call : 1 .. at - 1, constraint : SUBSET Valuations(fn), models : SUBSET Valuations(fn),
   verdict : {"Error example", "OK"}]

(***************************************************************************)
(* Type invariant: the activations are of blocks of the function and there *)
(* are some exactly while the recursion is on; constraints and answers are *)
(* about the function's symbols and calls.                                 *)
(***************************************************************************)
TypeOK ==
  /\ fn \in Functions
  /\ at \in 1 .. Len(fn.calls) + 1
  /\ pc \in {"visit", "walk", "solve", "done", "aborted", "overflow"}
  /\ pc \in {"walk", "solve"} => at \in DOMAIN fn.calls /\ IsCheck(Call)
  /\ stack \in Seq(Activations) /\ Len(stack) <= MaxDepth
  /\ pc \in {"walk", "overflow"} => stack # <<>>
  /\ pc \in {"visit", "solve", "done"} => stack = <<>>
  /\ \A i \in DOMAIN stack : stack[i].preds \subseteq Predecessors(fn, stack[i].bb)
  /\ path \subseteq Valuations(fn)
  /\ report \in Seq(Answers)

(***************************************************************************)
(* The recursion computes, from the bottom up and edge by edge, what a     *)
(* search from the entry finds: Union holds the assignments that lead from *)
(* the entry, over edges that are not back edges and whose constraint      *)
(* holds, to one of the predecessors taken so far and on to the block.     *)
(***************************************************************************)
ConstraintGraph(f, sigma) ==
  [p \in Blocks(f) |->
     {b \in Forward(f)[p] : Translatable(f, b, p) /\ EdgeHolds(f, sigma, b, p)}]

PathTo(f, b) ==
  {sigma \in Valuations(f) : b \in {1} \cup Reachable(ConstraintGraph(f, sigma), 1)}

PathThrough(f, taken, b) ==
  {sigma \in Valuations(f) :
     \E p \in taken : b \in ConstraintGraph(f, sigma)[p] /\ sigma \in PathTo(f, p)}

Awaited(i) == IF i < Len(stack) THEN {stack[i + 1].bb} ELSE {}

WalkInv ==
  /\ \A i \in DOMAIN stack : LET a == stack[i] IN
       /\ i = 1 => a.bb = Call.block
       /\ \A p \in Awaited(i) : /\ p \in Predecessors(fn, a.bb) \ a.preds
                                /\ <<p, a.bb>> \notin fn.back
                                /\ a.edge = EdgeConstraint(fn, a.bb, p)
       /\ a.union = PathThrough(fn, Predecessors(fn, a.bb) \ (a.preds \cup Awaited(i)), a.bb)
  /\ pc = "solve" => path = PathTo(fn, Call.block)

(***************************************************************************)
(* With the back edges dropped, no block of the code that can be reached   *)
(* is met twice on the way to the entry, and the C++ stack is exhausted    *)
(* only in code that cannot be reached, whose back edges nobody reports.   *)
(***************************************************************************)
RecursionBounded ==
  /\ \A i, j \in DOMAIN stack :
       i # j /\ stack[i].bb = stack[j].bb => stack[i].bb \notin ReachableBlocks(fn)
  /\ pc = "overflow" => \E i \in DOMAIN stack : stack[i].bb \notin ReachableBlocks(fn)

(***************************************************************************)
(* ValueConstraint::Get says of each value that it can translate what LLVM *)
(* computes, in the value's width, for all assignments, and a symbol       *)
(* stands for itself.  Conversions of a pointer that make it wider, or an  *)
(* integer that becomes a wider pointer, are left out.                     *)
(***************************************************************************)
Faithful(f) ==
  \A sigma \in Valuations(f) :
    /\ \A v \in Symbols(f) : v \notin Untranslatable(f) /\ Get(f, sigma)[v] = sigma[v]
    /\ \A v \in DOMAIN f.values \ Untranslatable(f) :
         Get(f, sigma)[v] = Values(f, sigma)[v] /\ Get(f, sigma)[v] \in Domain(Bits(f, v))

TranslationExact ==
  report = <<>> /\ pc = "visit" /\ ~WidensPointer(fn) => Faithful(fn)

(***************************************************************************)
(* The pass answers as SMTQueryAbs says: in order, once, and by exactly    *)
(* the runs in which the operation behind the check goes wrong.            *)
(***************************************************************************)
ImplementsAbs == Promise!Spec

(***************************************************************************)
(* It comes to an end, and unless there is something Z3 refuses or a cycle *)
(* that cannot be reached, with an answer to every check.                  *)
(***************************************************************************)
Answerable(f) == Untranslatable(f) = {} /\ Acyclic(Forward(f))

AllAnswered ==
  <>(Ended /\ (Answerable(fn) => pc = "done" /\ Promise!Answered = Promise!ChecksOf(fn)))

-----------------------------------------------------------------------------
(***************************************************************************)
(* "Error example" (smt_query.cpp:92): what is printed under that heading  *)
(* is a run in which the operation goes wrong.  A run refutes this.        *)
(***************************************************************************)
ErrorExamplesAreErrors ==
  \A k \in DOMAIN report :
    report[k].verdict = "Error example" => report[k].models \subseteq report[k].constraint

(***************************************************************************)
(* "must return bitvectors" (constraint.cpp:34): on values of integers and *)
(* pointers ValueConstraint::Get always has an expression to return, so    *)
(* that Z3 never ends the process with checks left unanswered.  A run      *)
(* refutes this: a select's condition is no Boolean (line 94), and an      *)
(* index may be narrower than the pointer it moves (line 142).             *)
(***************************************************************************)
GetReturnsBitVectors == pc # "aborted"
=============================================================================
