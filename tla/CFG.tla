-------------------------------- MODULE CFG --------------------------------
(***************************************************************************)
(* Control-flow graphs, as the KINT passes see them through LLVM's         *)
(* successors() and predecessors().  A graph is a function from each basic *)
(* block to the set of its successors; what the block contains does not    *)
(* matter here.                                                            *)
(***************************************************************************)

Closed(succ, S) == \A x \in S : succ[x] \subseteq S

(***************************************************************************)
(* The blocks that can be reached from b along one or more edges: those in *)
(* every set that holds b's successors and is closed under succ.           *)
(***************************************************************************)
Reachable(succ, b) ==
  {x \in DOMAIN succ : \A S \in SUBSET DOMAIN succ :
                         succ[b] \subseteq S /\ Closed(succ, S) => x \in S}

(***************************************************************************)
(* The edges p -> b that lie on a cycle through at least two blocks: b     *)
(* reaches p, and p is not b.                                              *)
(***************************************************************************)
CyclePreds(succ, b) == Reachable(succ, b) \ {b}

(***************************************************************************)
(* What is left of the graph when the edges that enter each block from the *)
(* set cut[b], and the self loops, are dropped.                            *)
(***************************************************************************)
KeptEdges(succ, cut) ==
  [p \in DOMAIN succ |-> {b \in succ[p] : b # p /\ p \notin cut[b]}]

Acyclic(succ) == \A b \in DOMAIN succ : b \notin Reachable(succ, b)
=============================================================================
