---------------------------- MODULE BackEdgesAbs ----------------------------
(***************************************************************************)
(* What KintRangeAnalysisPass::backEdgeAnalysis promises its callers, with *)
(* no worklist: the blocks of a function are taken in layout order, and in *)
(* one step backEdges[BB] becomes the set of all blocks, other than BB,    *)
(* that BB reaches.  A client that asks "is p -> BB a back edge?" is thus  *)
(* told whether the edge lies on some cycle through two or more blocks.    *)
(***************************************************************************)
EXTENDS Naturals, CFG

CONSTANT NumBlocks

VARIABLES succ,       \* the function's control-flow graph, never modified
          bb,         \* the next block in layout order
          backEdges   \* the result so far, for the blocks before bb

Block == 1 .. NumBlocks
vars == <<succ, bb, backEdges>>

(***************************************************************************)
(* LLVM's verifier guarantees that the entry block has no predecessor.     *)
(***************************************************************************)
FunctionCFGs == [Block -> SUBSET (Block \ {1})]

Init ==
  /\ succ \in FunctionCFGs
  /\ bb = 1
  /\ backEdges = [b \in Block |-> {}]

AnalyzeBlock ==
  /\ bb \in Block
  /\ backEdges' = [backEdges EXCEPT ![bb] = CyclePreds(succ, bb)]
  /\ bb' = bb + 1
  /\ UNCHANGED succ

Spec == Init /\ [][AnalyzeBlock]_vars
=============================================================================
