----------------------------- MODULE BackEdges -----------------------------
(***************************************************************************)
(* KintRangeAnalysisPass::backEdgeAnalysis (src/kint/smt_solving.cpp): for *)
(* every block BB of a function, in layout order, a worklist search fills  *)
(* backEdges[BB].  The pass object is fresh when run() calls this once per *)
(* function, so no block has an entry in backEdges when its turn comes.    *)
(***************************************************************************)
EXTENDS Naturals, CFG

CONSTANT NumBlocks

ASSUME NumBlocksAssumption == NumBlocks \in Nat \ {0}

VARIABLES succ,               \* the function's control-flow graph
          bb,                 \* BB of the outer loop; NumBlocks + 1 at its end
          searching,          \* is the inner while loop running?
          remoteSuccessors,   \* the vector of blocks still to expand
          backEdges           \* DenseMap<BasicBlock *, SetVector<BasicBlock *>>

vars == <<succ, bb, searching, remoteSuccessors, backEdges>>

Block == 1 .. NumBlocks

\* The entry block has no predecessor in LLVM IR.
FunctionCFGs == [Block -> SUBSET (Block \ {1})]

Init ==
  /\ succ \in FunctionCFGs
  /\ bb = 1
  /\ searching = FALSE
  /\ remoteSuccessors = {}
  /\ backEdges = [b \in Block |-> {}]

\* Mutant: the loop over the blocks runs one too far.
StartBlockPastEnd ==
  /\ ~searching
  /\ bb \in 1 .. NumBlocks + 1
  /\ backEdges' = [b \in Block |-> IF b = bb THEN {} ELSE backEdges[b]]
  /\ remoteSuccessors' = {bb}
  /\ searching' = TRUE
  /\ UNCHANGED <<succ, bb>>

StartBlock ==
  /\ ~searching
  /\ bb \in Block
  /\ backEdges' = [backEdges EXCEPT ![bb] = {}]
  /\ remoteSuccessors' = {bb}
  /\ searching' = TRUE
  /\ UNCHANGED <<succ, bb>>

\* Mutant: BB itself counts, when the search comes back to it.
NewSuccessorsWithSelf(current) == {s \in succ[current] : s \notin backEdges[bb]}

\* Mutant: a successor counts each time the search meets it.
NewSuccessorsAgain(current) == {s \in succ[current] : s # bb}

\* The successors the search meets for the first time; BB itself never counts.
NewSuccessors(current) ==
  {s \in succ[current] : s # bb /\ s \notin backEdges[bb]}

\* Mutant: what is found is not put on the worklist.
ExpandBlockOnce ==
  /\ searching
  /\ \E current \in remoteSuccessors :
       /\ backEdges' = [backEdges EXCEPT ![bb] = @ \cup NewSuccessors(current)]
       /\ remoteSuccessors' = remoteSuccessors \ {current}
  /\ UNCHANGED <<succ, bb, searching>>

\* Mutant: the edge is entered under its source.
ExpandBlockSwapped ==
  /\ searching
  /\ \E current \in remoteSuccessors :
       /\ backEdges' = [b \in Block |-> IF b \in NewSuccessors(current)
                                       THEN backEdges[b] \cup {bb} ELSE backEdges[b]]
       /\ remoteSuccessors' = remoteSuccessors \ {current}
  /\ UNCHANGED <<succ, bb, searching>>

(***************************************************************************)
(* One turn of the while loop.  The code pops the back of the vector; the  *)
(* model pops any element, since a block is never on the vector twice and  *)
(* only the order of the search depends on the choice.                     *)
(***************************************************************************)
ExpandBlock ==
  /\ searching
  /\ \E current \in remoteSuccessors :
       /\ backEdges' = [backEdges EXCEPT ![bb] = @ \cup NewSuccessors(current)]
       /\ remoteSuccessors' = (remoteSuccessors \ {current}) \cup NewSuccessors(current)
  /\ UNCHANGED <<succ, bb, searching>>

FinishBlock ==
  /\ searching
  /\ remoteSuccessors = {}
  /\ searching' = FALSE
  /\ bb' = bb + 1
  /\ UNCHANGED <<succ, remoteSuccessors, backEdges>>

Finished == bb = NumBlocks + 1

\* The function has returned: the only behaviour left is to stay.
Terminated == Finished /\ UNCHANGED vars

Next == StartBlock \/ ExpandBlock \/ FinishBlock \/ Terminated

Spec == Init /\ [][Next]_vars /\ WF_vars(StartBlock \/ ExpandBlock \/ FinishBlock)

-----------------------------------------------------------------------------
(***************************************************************************)
(* Type invariant; a search runs only for a block of the function.         *)
(***************************************************************************)
TypeOK ==
  /\ succ \in FunctionCFGs
  /\ bb \in 1 .. NumBlocks + 1
  /\ searching \in BOOLEAN
  /\ searching => bb \in Block
  /\ remoteSuccessors \in SUBSET Block
  /\ backEdges \in [Block -> SUBSET Block]

(***************************************************************************)
(* The invariant of the while loop: everything found is reachable from BB, *)
(* and what has been found, with BB, is closed under succ but for the      *)
(* blocks still waiting in remoteSuccessors.  A search that forgot to      *)
(* re-queue a block, or stopped early, would leave a hole in the closure.  *)
(***************************************************************************)
Found == {bb} \cup backEdges[bb]

SearchInv ==
  /\ searching =>
       /\ remoteSuccessors \subseteq Found
       /\ backEdges[bb] \subseteq CyclePreds(succ, bb)
       /\ \A x \in Found : x \in remoteSuccessors \/ succ[x] \subseteq Found
  /\ ~searching => remoteSuccessors = {}
  /\ \A b \in Block : b < bb => backEdges[b] = CyclePreds(succ, b)
  /\ \A b \in Block : b > bb \/ (b = bb /\ ~searching) => backEdges[b] = {}

(***************************************************************************)
(* When the analysis is over, the edges that rangeAnalysis, handlePHINode  *)
(* and pathSolver still follow form a graph without a cycle, self loops    *)
(* apart.  (A self loop is never in backEdges, smt_solving.cpp:44.)  Of    *)
(* the three only pathSolver needs it for coming to an end, and no         *)
(* execution reaches that; the others do not walk from edge to edge.       *)
(***************************************************************************)
KeptEdgesAcyclic == Finished => Acyclic(KeptEdges(succ, backEdges))

(***************************************************************************)
(* An edge that is not on a cycle is never cut, whatever order the search  *)
(* takes: a loop-free function is analysed along all of its edges.         *)
(***************************************************************************)
StraightEdgesKept ==
  \A p, b \in Block :
    b \in succ[p] /\ p \notin Reachable(succ, b) => p \notin backEdges[b]

(***************************************************************************)
(* The search of every block ends, although the graph may be cyclic: the   *)
(* whole of backEdgeAnalysis returns.                                      *)
(***************************************************************************)
Returns == <>Finished

(***************************************************************************)
(* The worklist search implements BackEdgesAbs: a block's entry counts     *)
(* once its search is over.                                                *)
(***************************************************************************)
Abs == INSTANCE BackEdgesAbs WITH
         backEdges <- [b \in Block |-> IF b < bb THEN backEdges[b] ELSE {}]

ImplementsAbs == Abs!Spec
=============================================================================
