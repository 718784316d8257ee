-------------------------- MODULE BackEdgesProofs --------------------------
(***************************************************************************)
(* Proofs about BackEdges for every number of blocks and every graph.      *)
(***************************************************************************)
EXTENDS BackEdges, CFGProofs, TLAPS

(***************************************************************************)
(* If every edge p -> b of the graph with p reachable from b is cut, no    *)
(* block reaches itself along the kept edges.  A cycle of kept edges would *)
(* start with some b -> y, and y would reach b; but then b -> y is cut.    *)
(***************************************************************************)
LEMMA CuttingCyclesLeavesNone ==
  ASSUME NEW S, NEW succ_ \in [S -> SUBSET S], NEW cut \in [S -> SUBSET S],
         \A b \in S : cut[b] = CyclePreds(succ_, b)
  PROVE  Acyclic(KeptEdges(succ_, cut))
<1> DEFINE kept == KeptEdges(succ_, cut)
<1>1. kept \in [S -> SUBSET S] /\ DOMAIN kept = S
  BY DEF KeptEdges
<1>2. \A x \in S : kept[x] \subseteq succ_[x]
  BY DEF KeptEdges
<1> HIDE DEF kept
<1>3. ASSUME NEW b \in S PROVE b \notin Reachable(kept, b)
  <2> DEFINE T == {x \in S : \E y \in kept[b] : x = y \/ x \in Reachable(succ_, y)}
  <2>1. kept[b] \subseteq T
    BY <1>1, <1>3
  <2>2. Closed(kept, T)
    <3>1. ASSUME NEW x \in T, NEW z \in kept[x] PROVE z \in T
      <4>1. PICK y \in kept[b] : x = y \/ x \in Reachable(succ_, y)
        BY <3>1
      <4>2. y \in S /\ z \in S /\ z \in succ_[x]
        BY <1>1, <1>2, <1>3, <3>1, <4>1
      <4>3. z \in Reachable(succ_, y)
        BY <4>1, <4>2, ReachableSuccessors DEF Closed
      <4>4. QED
        BY <4>1, <4>2, <4>3
    <3>2. QED
      BY <3>1 DEF Closed
  <2>3. Reachable(kept, b) \subseteq T
    BY <1>1, <1>3, <2>1, <2>2, ReachableLeast
  <2>4. b \notin T
    <3>1. ASSUME NEW y \in kept[b], b = y \/ b \in Reachable(succ_, y)
          PROVE  FALSE
      <4>1. y \in S /\ y # b /\ b \notin cut[y]
        BY <1>1, <1>3, <3>1 DEF kept, KeptEdges
      <4>2. b \in cut[y]
        BY <3>1, <4>1 DEF CyclePreds
      <4>3. QED
        BY <4>1, <4>2
    <3>2. QED
      BY <3>1
  <2>5. QED
    BY <2>3, <2>4
<1>4. QED
  BY <1>1, <1>3 DEF Acyclic, kept

-----------------------------------------------------------------------------
(***************************************************************************)
(* The variables of the analysis keep their types.                         *)
(***************************************************************************)
THEOREM BackEdgesTypeOK == Spec => []TypeOK
<1> USE NumBlocksAssumption
<1>1. Init => TypeOK
  <2> SUFFICES ASSUME Init PROVE TypeOK
    OBVIOUS
  <2>1. 1 \in 1 .. NumBlocks + 1
    OBVIOUS
  <2>2. [b \in Block |-> {}] \in [Block -> SUBSET Block]
    OBVIOUS
  <2>3. QED
    BY <2>1, <2>2 DEF Init, TypeOK
<1>2. TypeOK /\ [Next]_vars => TypeOK'
  <2> SUFFICES ASSUME TypeOK, [Next]_vars PROVE TypeOK'
    OBVIOUS
  <2> USE DEF TypeOK
  <2>1. CASE StartBlock
    BY <2>1 DEF StartBlock
  <2>2. CASE ExpandBlock
    <3>1. \A x \in Block : NewSuccessors(x) \subseteq Block
      BY DEF NewSuccessors, FunctionCFGs
    <3>2. QED
      BY <2>2, <3>1 DEF ExpandBlock
  <2>3. CASE FinishBlock
    <3>1. bb' \in 1 .. NumBlocks + 1
      BY <2>3 DEF FinishBlock, Block
    <3>2. QED
      BY <2>3, <3>1 DEF FinishBlock
  <2>4. CASE UNCHANGED vars
    BY <2>4 DEF vars
  <2>5. QED
    BY <2>1, <2>2, <2>3, <2>4 DEF Next, Terminated
<1>3. QED
  BY <1>1, <1>2, PTL DEF Spec

(***************************************************************************)
(* The loop invariant of the search.  It is inductive together with the    *)
(* types; what it says of the finished blocks is that their entry is       *)
(* exactly the set the abstract specification assigns.                     *)
(***************************************************************************)
THEOREM BackEdgesSearchInv == Spec => []SearchInv
<1> USE NumBlocksAssumption
<1>1. Init => SearchInv
  BY DEF Init, SearchInv, Block
<1>2. TypeOK /\ SearchInv /\ [Next]_vars => SearchInv'
  <2> SUFFICES ASSUME TypeOK, SearchInv, [Next]_vars PROVE SearchInv'
    OBVIOUS
  <2>0. succ \in [Block -> SUBSET Block]
    BY DEF TypeOK, FunctionCFGs
  <2>1. CASE StartBlock
    <3>1. bb \in Block /\ succ' = succ /\ bb' = bb /\ searching'
          /\ remoteSuccessors' = {bb}
          /\ backEdges' = [backEdges EXCEPT ![bb] = {}]
      BY <2>1 DEF StartBlock
    <3>2. backEdges'[bb] = {} /\ \A b \in Block : b # bb => backEdges'[b] = backEdges[b]
      BY <3>1 DEF TypeOK
    <3>3. Found' = {bb}
      BY <3>1, <3>2 DEF Found
    <3>4. \A b \in Block : b < bb \/ b > bb => b # bb
      BY DEF TypeOK, Block
    <3>5. QED
      BY <3>1, <3>2, <3>3, <3>4 DEF SearchInv
  <2>2. CASE ExpandBlock
    <3>1. PICK current \in remoteSuccessors :
            /\ backEdges' = [backEdges EXCEPT ![bb] = @ \cup NewSuccessors(current)]
            /\ remoteSuccessors' = (remoteSuccessors \ {current}) \cup NewSuccessors(current)
      BY <2>2 DEF ExpandBlock
    <3>2. searching /\ bb \in Block /\ succ' = succ /\ bb' = bb /\ searching'
      BY <2>2 DEF ExpandBlock, TypeOK
    <3>3. /\ backEdges'[bb] = backEdges[bb] \cup NewSuccessors(current)
          /\ \A b \in Block : b # bb => backEdges'[b] = backEdges[b]
      BY <3>1, <3>2 DEF TypeOK
    <3>4. Found' = Found \cup NewSuccessors(current)
      BY <3>2, <3>3 DEF Found
    <3>5. remoteSuccessors' \subseteq Found'
      BY <3>1, <3>2, <3>4 DEF SearchInv
    <3>6. backEdges'[bb] \subseteq CyclePreds(succ, bb)
      <4>1. current \in Found /\ current \in Block
        BY <3>1, <3>2 DEF SearchInv, TypeOK
      <4>2. succ[current] \subseteq Reachable(succ, bb)
        <5>1. CASE current = bb
          BY <2>0, <3>2, <5>1, ReachableSuccessors
        <5>2. CASE current # bb
          <6>1. current \in Reachable(succ, bb)
            BY <3>2, <4>1, <5>2 DEF SearchInv, Found, CyclePreds
          <6>2. QED
            BY <2>0, <3>2, <6>1, ReachableSuccessors DEF Closed
        <5>3. QED
          BY <5>1, <5>2
      <4>3. QED
        BY <3>2, <3>3, <4>2 DEF SearchInv, NewSuccessors, CyclePreds
    <3>7. ASSUME NEW x \in Found', x \notin remoteSuccessors'
          PROVE  succ[x] \subseteq Found'
      <4>1. x \in Found
        BY <3>1, <3>4, <3>7
      <4>2. CASE x = current
        BY <3>4, <4>2 DEF NewSuccessors, Found
      <4>3. CASE x # current
        BY <3>1, <3>2, <3>4, <3>7, <4>1, <4>3 DEF SearchInv
      <4>4. QED
        BY <4>2, <4>3
    <3>8. \A b \in Block : /\ b < bb => backEdges'[b] = CyclePreds(succ, b)
                           /\ b > bb => backEdges'[b] = {}
      <4>1. \A b \in Block : b < bb \/ b > bb => b # bb
        BY DEF TypeOK, Block
      <4>2. QED
        BY <3>3, <4>1 DEF SearchInv
    <3>9. QED
      BY <3>2, <3>5, <3>6, <3>7, <3>8 DEF SearchInv
  <2>3. CASE FinishBlock
    <3>1. /\ searching /\ bb \in Block /\ remoteSuccessors = {}
          /\ succ' = succ /\ bb' = bb + 1 /\ ~searching'
          /\ remoteSuccessors' = remoteSuccessors /\ backEdges' = backEdges
      BY <2>3 DEF FinishBlock, TypeOK
    <3>2. Found \subseteq Block /\ succ[bb] \subseteq Found /\ Closed(succ, Found)
      BY <3>1 DEF SearchInv, Found, TypeOK, Closed
    <3>3. Reachable(succ, bb) \subseteq Found
      BY <2>0, <3>1, <3>2, ReachableLeast
    <3>4. bb \notin backEdges[bb]
      BY <3>1 DEF SearchInv, CyclePreds
    <3>5. backEdges[bb] = CyclePreds(succ, bb)
      BY <3>1, <3>3, <3>4 DEF SearchInv, CyclePreds, Found
    <3>6. \A b \in Block : /\ b < bb + 1 => b < bb \/ b = bb
                           /\ b > bb + 1 \/ b = bb + 1 => b > bb
      BY DEF TypeOK, Block
    <3>7. QED
      BY <3>1, <3>5, <3>6 DEF SearchInv
  <2>4. CASE UNCHANGED vars
    BY <2>4 DEF vars, SearchInv, Found
  <2>5. QED
    BY <2>1, <2>2, <2>3, <2>4 DEF Next, Terminated
<1>3. QED
  BY <1>1, <1>2, BackEdgesTypeOK, PTL DEF Spec

(***************************************************************************)
(* backEdgeAnalysis leaves no cycle among the edges its clients follow,    *)
(* self loops apart, in any function.                                      *)
(***************************************************************************)
THEOREM BackEdgesKeptAcyclic == Spec => []KeptEdgesAcyclic
<1>1. TypeOK /\ SearchInv => KeptEdgesAcyclic
  <2> SUFFICES ASSUME TypeOK, SearchInv, Finished PROVE Acyclic(KeptEdges(succ, backEdges))
    BY DEF KeptEdgesAcyclic
  <2>1. \A b \in Block : backEdges[b] = CyclePreds(succ, b)
    BY NumBlocksAssumption DEF SearchInv, Finished, Block
  <2>2. succ \in [Block -> SUBSET Block] /\ backEdges \in [Block -> SUBSET Block]
    BY DEF TypeOK, FunctionCFGs
  <2>3. QED
    BY <2>1, <2>2, CuttingCyclesLeavesNone
<1>2. QED
  BY <1>1, BackEdgesTypeOK, BackEdgesSearchInv, PTL

(***************************************************************************)
(* An edge on no cycle is never cut, at any moment of the analysis.        *)
(***************************************************************************)
THEOREM BackEdgesStraightKept == Spec => []StraightEdgesKept
<1>1. TypeOK /\ SearchInv => StraightEdgesKept
  <2> SUFFICES ASSUME TypeOK, SearchInv, NEW p \in Block, NEW b \in Block,
                      p \in backEdges[b]
               PROVE  p \in Reachable(succ, b)
    BY DEF StraightEdgesKept
  <2>1. b < bb \/ b = bb \/ b > bb
    BY DEF TypeOK, Block
  <2>2. p \in CyclePreds(succ, b)
    BY <2>1 DEF SearchInv
  <2>3. QED
    BY <2>2 DEF CyclePreds
<1>2. QED
  BY <1>1, BackEdgesTypeOK, BackEdgesSearchInv, PTL

(***************************************************************************)
(* The worklist search implements the one-step-per-block specification:    *)
(* FinishBlock is its AnalyzeBlock, every other step leaves the finished   *)
(* entries alone.                                                          *)
(***************************************************************************)
THEOREM BackEdgesImplementsAbs == Spec => ImplementsAbs
<1> USE NumBlocksAssumption
<1> DEFINE finished == [b \in Block |-> IF b < bb THEN backEdges[b] ELSE {}]
<1>1. Init => Abs!Init
  <2> SUFFICES ASSUME Init PROVE Abs!Init
    OBVIOUS
  <2>1. finished = [b \in Block |-> {}]
    BY DEF Init, Block
  <2>2. QED
    BY <2>1 DEF Init, Abs!Init, Abs!FunctionCFGs, Abs!Block, FunctionCFGs, Block
<1>2. TypeOK /\ SearchInv /\ SearchInv' /\ [Next]_vars => [Abs!AnalyzeBlock]_(Abs!vars)
  <2> SUFFICES ASSUME TypeOK, SearchInv, SearchInv', [Next]_vars
               PROVE  [Abs!AnalyzeBlock]_(Abs!vars)
    OBVIOUS
  <2>1. ASSUME UNCHANGED <<succ, bb>>, \A b \in Block : b < bb => backEdges'[b] = backEdges[b]
        PROVE  UNCHANGED Abs!vars
    <3>1. finished' = finished
      BY <2>1
    <3>2. QED
      BY <2>1, <3>1 DEF Abs!vars
  <2>2. CASE StartBlock \/ ExpandBlock
    <3>1. UNCHANGED <<succ, bb>> /\ \A b \in Block : b # bb => backEdges'[b] = backEdges[b]
      BY <2>2 DEF StartBlock, ExpandBlock, TypeOK
    <3>2. \A b \in Block : b < bb => b # bb
      BY DEF TypeOK, Block
    <3>3. QED
      BY <2>1, <3>1, <3>2
  <2>3. CASE FinishBlock
    <3>1. /\ bb \in Block /\ succ' = succ /\ bb' = bb + 1 /\ backEdges' = backEdges
      BY <2>3 DEF FinishBlock, TypeOK
    <3>2. /\ bb < bb + 1 /\ ~(bb < bb)
          /\ \A b \in Block : b # bb => (b < bb + 1 <=> b < bb)
      BY <3>1 DEF Block
    <3>3. backEdges[bb] = CyclePreds(succ, bb)
      BY <3>1, <3>2 DEF SearchInv
    <3>4. finished' = [finished EXCEPT ![bb] = CyclePreds(succ, bb)]
      BY <3>1, <3>2, <3>3
    <3>5. QED
      BY <3>1, <3>4 DEF Abs!AnalyzeBlock, Abs!Block, Block, Abs!CyclePreds, CyclePreds,
                        Abs!Reachable, Reachable, Abs!Closed, Closed
  <2>4. CASE UNCHANGED vars
    BY <2>1, <2>4 DEF vars
  <2>5. QED
    BY <2>2, <2>3, <2>4 DEF Next, Terminated
<1>3. QED
  BY <1>1, <1>2, BackEdgesTypeOK, BackEdgesSearchInv, PTL DEF Spec, ImplementsAbs, Abs!Spec
=============================================================================
