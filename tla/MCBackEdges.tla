---------------------------- MODULE MCBackEdges ----------------------------
(***************************************************************************)
(* BackEdges on every control-flow graph of at most NumBlocks blocks (a    *)
(* smaller function shows up as one with unreachable blocks).              *)
(***************************************************************************)
EXTENDS BackEdges
=============================================================================
