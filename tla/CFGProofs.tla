----------------------------- MODULE CFGProofs -----------------------------
(***************************************************************************)
(* Lemmas about what can be reached in a control-flow graph, for every     *)
(* graph, finite or not.                                                   *)
(***************************************************************************)
EXTENDS CFG, TLAPS

(***************************************************************************)
(* Facts about Reachable that the proofs below use in place of its         *)
(* definition: successors are reachable, reachability is closed under      *)
(* succ, and it is the least such set.                                     *)
(***************************************************************************)
LEMMA ReachableSuccessors ==
  ASSUME NEW S, NEW succ_ \in [S -> SUBSET S], NEW b \in S
  PROVE  /\ Reachable(succ_, b) \subseteq S
         /\ succ_[b] \subseteq Reachable(succ_, b)
         /\ Closed(succ_, Reachable(succ_, b))
<1>1. DOMAIN succ_ = S
  OBVIOUS
<1>2. succ_[b] \subseteq Reachable(succ_, b)
  BY <1>1 DEF Reachable
<1>3. ASSUME NEW x \in Reachable(succ_, b), NEW y \in succ_[x]
      PROVE  y \in Reachable(succ_, b)
  <2>1. x \in S /\ y \in S
    BY <1>1, <1>3 DEF Reachable
  <2>2. ASSUME NEW T \in SUBSET S, succ_[b] \subseteq T, Closed(succ_, T)
        PROVE  y \in T
    <3>1. x \in T
      BY <1>1, <2>2 DEF Reachable
    <3>2. QED
      BY <3>1, <2>2 DEF Closed
  <2>3. QED
    BY <1>1, <2>1, <2>2 DEF Reachable
<1>4. QED
  BY <1>1, <1>2, <1>3 DEF Reachable, Closed

LEMMA ReachableLeast ==
  ASSUME NEW S, NEW succ_ \in [S -> SUBSET S], NEW b \in S,
         NEW T \in SUBSET S, succ_[b] \subseteq T, Closed(succ_, T)
  PROVE  Reachable(succ_, b) \subseteq T
<1>1. DOMAIN succ_ = S
  OBVIOUS
<1>2. QED
  BY <1>1 DEF Reachable

\* What can be reached from a block that can be reached can be reached.
LEMMA ReachableTransitive ==
  ASSUME NEW S, NEW succ_ \in [S -> SUBSET S], NEW b \in S, NEW x \in Reachable(succ_, b)
  PROVE  Reachable(succ_, x) \subseteq Reachable(succ_, b)
<1>1. x \in S /\ Reachable(succ_, b) \in SUBSET S /\ Closed(succ_, Reachable(succ_, b))
  BY ReachableSuccessors
<1>2. succ_[x] \subseteq Reachable(succ_, b)
  BY <1>1 DEF Closed
<1>3. QED
  BY <1>1, <1>2, ReachableLeast

\* The last edge of a way: it leaves b, or a block that can be reached from b.
LEMMA ReachableLastEdge ==
  ASSUME NEW S, NEW succ_ \in [S -> SUBSET S], NEW b \in S, NEW x \in S
  PROVE  x \in Reachable(succ_, b) <=> \E p \in {b} \cup Reachable(succ_, b) : x \in succ_[p]
<1> DEFINE R == Reachable(succ_, b)
           T == {y \in R : \E p \in {b} \cup R : y \in succ_[p]}
<1>1. R \subseteq S /\ succ_[b] \subseteq R /\ \A p \in R : succ_[p] \subseteq R
  BY ReachableSuccessors DEF Closed
<1>2. R \subseteq T
  <2> HIDE DEF R
  <2>1. T \in SUBSET S /\ succ_[b] \subseteq T
    BY <1>1
  <2>2. Closed(succ_, T)
    BY <1>1 DEF Closed
  <2> HIDE DEF T
  <2>3. Reachable(succ_, b) \subseteq T
    BY <2>1, <2>2, ReachableLeast
  <2> QED BY <2>3 DEF R
<1>3. QED
  BY <1>1, <1>2
=============================================================================
