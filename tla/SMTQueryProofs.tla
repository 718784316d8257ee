--------------------------- MODULE SMTQueryProofs ---------------------------
(***************************************************************************)
(* Proofs about SMTQuery, for all functions of any number of blocks, over  *)
(* any symbols, and every C++ stack that is deeper than the function has   *)
(* blocks.                                                                 *)
(***************************************************************************)
EXTENDS SMTQuery, CFGProofs, BitVectorsProofs, SequenceTheorems, FiniteSetTheorems, TLAPS

-----------------------------------------------------------------------------
(***************************************************************************)
(* The invariant.  The activations are a way back over edges that the pass *)
(* can translate and that are not back edges; whatever block is below can  *)
(* be reached from the ones above.                                         *)
(***************************************************************************)
ChainInv ==
  /\ \A i \in DOMAIN stack : \A p \in Awaited(i) : Translatable(fn, stack[i].bb, p)
  /\ \A i, j \in DOMAIN stack : i < j => stack[i].bb \in Reachable(Forward(fn), stack[j].bb)
  /\ pc = "overflow" => Len(stack) = MaxDepth

IInv == TypeOK /\ WalkInv /\ ChainInv

-----------------------------------------------------------------------------
(***************************************************************************)
(* The function, its graphs and the constraints of its paths.              *)
(***************************************************************************)
LEMMA FunctionFacts ==
  ASSUME NEW f \in Functions
  PROVE  /\ Len(f.term) \in Nat \ {0} /\ Blocks(f) = 1 .. Len(f.term) /\ 1 \in Blocks(f)
         /\ Len(f.calls) \in Nat /\ DOMAIN f.calls = 1 .. Len(f.calls)
         /\ \A n \in DOMAIN f.calls : f.calls[n].block \in Blocks(f)
         /\ \A b \in Blocks(f) : b \in ReachableBlocks(f) => b \notin Reachable(Forward(f), b)
<1>1. WellFormed(f)
  BY FunctionsAssumption
<1>2. f.term \in Seq(ToSet(f.term)) /\ f.term # <<>> /\ f.calls \in Seq(ToSet(f.calls))
  BY <1>1 DEF WellFormed
<1>3. Len(f.term) \in Nat \ {0} /\ DOMAIN f.term = 1 .. Len(f.term)
  BY <1>2, LenProperties, EmptySeq
<1>4. Len(f.calls) \in Nat /\ DOMAIN f.calls = 1 .. Len(f.calls)
  BY <1>2, LenProperties
<1> QED
  BY <1>1, <1>3, <1>4 DEF WellFormed, Blocks

LEMMA GraphTypes ==
  ASSUME NEW f, NEW sigma
  PROVE  /\ Forward(f) \in [Blocks(f) -> SUBSET Blocks(f)]
         /\ \A b, c \in Blocks(f) : c \in Forward(f)[b] <=> c \in f.term[b].succs /\ <<b, c>> \notin f.back
         /\ ConstraintGraph(f, sigma) \in [Blocks(f) -> SUBSET Blocks(f)]
         /\ \A b, c \in Blocks(f) : c \in ConstraintGraph(f, sigma)[b]
              <=> c \in Forward(f)[b] /\ Translatable(f, c, b) /\ EdgeHolds(f, sigma, c, b)
<1>1. /\ Forward(f) \in [Blocks(f) -> SUBSET Blocks(f)]
      /\ \A b, c \in Blocks(f) : c \in Forward(f)[b] <=> c \in f.term[b].succs /\ <<b, c>> \notin f.back
  BY DEF Forward, ForwardEdges
<1>2. ConstraintGraph(f, sigma) = [p \in Blocks(f) |->
         {b \in Forward(f)[p] : Translatable(f, b, p) /\ EdgeHolds(f, sigma, b, p)}]
  BY DEF ConstraintGraph
<1> QED
  BY <1>1, <1>2

\* All assignments lead to the entry.
LEMMA PathToEntry ==
  ASSUME NEW f
  PROVE  PathTo(f, 1) = Valuations(f)
BY DEF PathTo

\* The way to any other block comes through one of its predecessors.
LEMMA PathToOther ==
  ASSUME NEW f \in Functions, NEW b \in Blocks(f), b # 1
  PROVE  PathTo(f, b) = PathThrough(f, Predecessors(f, b), b)
<1> SUFFICES ASSUME NEW sigma \in Valuations(f)
             PROVE  sigma \in PathTo(f, b) <=> sigma \in PathThrough(f, Predecessors(f, b), b)
  BY DEF PathTo, PathThrough
<1> DEFINE G == ConstraintGraph(f, sigma)
<1>1. G \in [Blocks(f) -> SUBSET Blocks(f)] /\ 1 \in Blocks(f)
  BY GraphTypes, FunctionFacts
<1>2. \A p \in {1} \cup Reachable(G, 1) : p \in Blocks(f)
  <2> HIDE DEF G
  <2> QED BY <1>1, ReachableSuccessors
<1>3. b \in Reachable(G, 1) <=> \E p \in {1} \cup Reachable(G, 1) : b \in G[p]
  <2> HIDE DEF G
  <2> QED BY <1>1, ReachableLastEdge
<1>4. \A p \in Blocks(f) : b \in G[p] => p \in Predecessors(f, b)
  BY GraphTypes DEF Predecessors
<1>5. \A p : sigma \in PathTo(f, p) <=> p \in {1} \cup Reachable(G, 1)
  BY DEF PathTo
<1>6. sigma \in PathThrough(f, Predecessors(f, b), b)
        <=> \E p \in Predecessors(f, b) : b \in G[p] /\ sigma \in PathTo(f, p)
  BY DEF PathThrough
<1> HIDE DEF G
<1> QED
  BY <1>2, <1>3, <1>4, <1>5, <1>6

\* One predecessor more: what its edge lets through of the assignments that lead to it.
LEMMA PathThroughOneMore ==
  ASSUME NEW f \in Functions, NEW b \in Blocks(f), NEW taken, NEW p \in Predecessors(f, b)
  PROVE  /\ <<p, b>> \in f.back => PathThrough(f, taken \cup {p}, b) = PathThrough(f, taken, b)
         /\ <<p, b>> \notin f.back /\ Translatable(f, b, p) =>
              PathThrough(f, taken \cup {p}, b)
                = PathThrough(f, taken, b) \cup (EdgeConstraint(f, b, p) \cap PathTo(f, p))
<1>1. p \in Blocks(f) /\ b \in f.term[p].succs
  BY DEF Predecessors
<1>2. ASSUME <<p, b>> \in f.back, NEW sigma
      PROVE  b \notin ConstraintGraph(f, sigma)[p]
  BY <1>1, <1>2, GraphTypes
<1>3. ASSUME <<p, b>> \notin f.back, Translatable(f, b, p), NEW sigma
      PROVE  b \in ConstraintGraph(f, sigma)[p] <=> EdgeHolds(f, sigma, b, p)
  BY <1>1, <1>3, GraphTypes
<1>4. \A sigma : sigma \in PathThrough(f, taken \cup {p}, b) <=>
        \/ sigma \in PathThrough(f, taken, b)
        \/ sigma \in Valuations(f) /\ b \in ConstraintGraph(f, sigma)[p] /\ sigma \in PathTo(f, p)
  BY DEF PathThrough
<1>5. <<p, b>> \in f.back => PathThrough(f, taken \cup {p}, b) = PathThrough(f, taken, b)
  BY <1>2, <1>4
<1>6. ASSUME <<p, b>> \notin f.back, Translatable(f, b, p)
      PROVE  PathThrough(f, taken \cup {p}, b)
                = PathThrough(f, taken, b) \cup (EdgeConstraint(f, b, p) \cap PathTo(f, p))
  <2>1. \A sigma : sigma \in EdgeConstraint(f, b, p) <=> sigma \in Valuations(f) /\ EdgeHolds(f, sigma, b, p)
    BY DEF EdgeConstraint
  <2> QED BY <1>3, <1>4, <1>6, <2>1
<1> QED
  BY <1>5, <1>6

\* No predecessor yet.
LEMMA PathThroughNone ==
  ASSUME NEW f, NEW b
  PROVE  PathThrough(f, {}, b) = {}
BY DEF PathThrough

-----------------------------------------------------------------------------
(***************************************************************************)
(* What the steps do to the stack.                                         *)
(***************************************************************************)
LEMMA StackFacts ==
  ASSUME TypeOK
  PROVE  /\ Len(stack) \in Nat /\ DOMAIN stack = 1 .. Len(stack)
         /\ stack = <<>> <=> Len(stack) = 0
         /\ \A i \in 1 .. Len(stack) :
              /\ stack[i] \in Activations
              /\ stack[i].bb \in Blocks(fn)
              /\ stack[i].preds \in SUBSET Blocks(fn)
              /\ stack[i].union \in SUBSET Valuations(fn)
              /\ stack[i].edge \in SUBSET Valuations(fn)
         /\ Top = stack[Len(stack)]
<1>1. Len(stack) \in Nat /\ DOMAIN stack = 1 .. Len(stack) /\ (stack = <<>> <=> Len(stack) = 0)
  BY LenProperties, EmptySeq DEF TypeOK
<1>2. \A i \in 1 .. Len(stack) : stack[i] \in Activations
  BY ElementOfSeq DEF TypeOK
<1>3. \A a \in Activations : /\ a.bb \in Blocks(fn)
                             /\ a.preds \in SUBSET Blocks(fn)
                             /\ a.union \in SUBSET Valuations(fn)
                             /\ a.edge \in SUBSET Valuations(fn)
  BY DEF Activations
<1>4. Top = stack[Len(stack)]
  BY DEF Top, Last
<1> QED
  BY <1>1, <1>2, <1>3, <1>4

\* A new activation has taken no predecessor.
LEMMA ActivationType ==
  ASSUME NEW b \in Blocks(fn)
  PROVE  /\ Activation(b) \in Activations
         /\ Activation(b).bb = b
         /\ Activation(b).preds = Predecessors(fn, b)
         /\ Activation(b).union = {}
<1>1. Predecessors(fn, b) \in SUBSET Blocks(fn)
  BY DEF Predecessors
<1> QED
  BY <1>1 DEF Activation, Activations

\* Fields of an activation are replaced one by one.
LEMMA ActivationFields ==
  ASSUME NEW a \in Activations, NEW s \in SUBSET Blocks(fn), NEW c \in SUBSET Valuations(fn)
  PROVE  /\ [a EXCEPT !.preds = s] \in Activations
         /\ [a EXCEPT !.preds = s].bb = a.bb
         /\ [a EXCEPT !.preds = s].preds = s
         /\ [a EXCEPT !.preds = s].union = a.union
         /\ [a EXCEPT !.union = c] \in Activations
         /\ [a EXCEPT !.union = c].bb = a.bb
         /\ [a EXCEPT !.union = c].preds = a.preds
         /\ [a EXCEPT !.union = c].union = c
         /\ [a EXCEPT !.union = c].edge = a.edge
         /\ [a EXCEPT !.edge = c] \in Activations
         /\ [a EXCEPT !.edge = c].bb = a.bb
         /\ [a EXCEPT !.edge = c].preds = a.preds
         /\ [a EXCEPT !.edge = c].union = a.union
         /\ [a EXCEPT !.edge = c].edge = c
BY DEF Activations

\* Return to the activation below: that one alone remains on top, with more in Union.
LEMMA ReturnBelow ==
  ASSUME TypeOK, NEW constraint \in SUBSET Valuations(fn), Len(stack) > 1
  PROVE  LET n == Len(stack) - 1 IN
         Return(constraint) =>
           /\ stack' \in Seq(Activations) /\ Len(stack') = n
           /\ \A i \in 1 .. n - 1 : stack'[i] = stack[i]
           /\ stack'[n].bb = stack[n].bb
           /\ stack'[n].preds = stack[n].preds
           /\ stack'[n].union = stack[n].union \cup (stack[n].edge \cap constraint)
           /\ path' = path /\ pc' = pc
<1> DEFINE n == Len(stack) - 1
           below == Front(stack)
           u == stack[n].union \cup (stack[n].edge \cap constraint)
           a == [stack[n] EXCEPT !.union = u]
<1>1. Len(stack) \in Nat /\ n \in 1 .. n /\ n \in Nat /\ n \in 1 .. Len(stack)
  BY StackFacts
<1>2. below \in Seq(Activations) /\ Len(below) = n /\ \A i \in 1 .. n : below[i] = stack[i]
  <2>1. below = SubSeq(stack, 1, n)
    BY DEF Front
  <2>2. \A i \in 1 .. n : stack[i] \in Activations
    BY <1>1, StackFacts
  <2> HIDE DEF n, below
  <2> QED BY <1>1, <2>1, <2>2, SubSeqProperties
<1>3. /\ a \in Activations /\ a.bb = stack[n].bb /\ a.preds = stack[n].preds /\ a.union = u
  <2>1. stack[n] \in Activations /\ u \in SUBSET Valuations(fn)
    BY <1>1, StackFacts
  <2> HIDE DEF u
  <2> QED BY <2>1, ActivationFields
<1>4. ASSUME Return(constraint)
      PROVE  stack' = [below EXCEPT ![n] = a] /\ path' = path /\ pc' = pc
  <2>1. Len(stack) # 1
    BY StackFacts
  <2>2. /\ stack' = [Front(stack) EXCEPT ![Len(stack) - 1].union = @ \cup (stack[Len(stack) - 1].edge \cap constraint)]
        /\ UNCHANGED <<path, pc>>
    BY <1>4, <2>1, Zenon DEF Return
  <2>3. below[n] = stack[n]
    BY <1>1, <1>2
  <2>4. stack' = [below EXCEPT ![n] = [below[n] EXCEPT !.union = below[n].union \cup (stack[n].edge \cap constraint)]]
    BY <2>2, Zenon
  <2> QED BY <2>2, <2>3, <2>4, Zenon
<1> HIDE DEF a, below, n, u
<1> SUFFICES ASSUME stack' = [below EXCEPT ![n] = a], path' = path, pc' = pc
             PROVE  /\ stack' \in Seq(Activations) /\ Len(stack') = n
                    /\ \A i \in 1 .. n - 1 : stack'[i] = stack[i]
                    /\ stack'[n].bb = stack[n].bb
                    /\ stack'[n].preds = stack[n].preds
                    /\ stack'[n].union = u
  BY <1>4, Zenon DEF n, u
<1>5. /\ stack' \in Seq(Activations) /\ Len(stack') = n
      /\ \A i \in 1 .. n : stack'[i] = IF i = n THEN a ELSE below[i]
  BY <1>1, <1>2, <1>3, ExceptSeq
<1>6. \A i \in 1 .. n - 1 : stack'[i] = stack[i]
  BY <1>1, <1>2, <1>5
<1>7. stack'[n] = a
  BY <1>1, <1>5
<1> QED
  BY <1>3, <1>5, <1>6, <1>7

\* A predecessor is taken off the innermost activation.
LEMMA TakePredecessor ==
  ASSUME TypeOK, stack # <<>>, NEW p
  PROVE  LET n == Len(stack)
             s == [stack EXCEPT ![Len(stack)].preds = @ \ {p}]
         IN  /\ s \in Seq(Activations) /\ Len(s) = n
             /\ \A i \in 1 .. n - 1 : s[i] = stack[i]
             /\ s[n].bb = stack[n].bb
             /\ s[n].preds = stack[n].preds \ {p}
             /\ s[n].union = stack[n].union
<1> DEFINE n == Len(stack)
           a == [stack[n] EXCEPT !.preds = stack[n].preds \ {p}]
           s == [stack EXCEPT ![Len(stack)].preds = @ \ {p}]
<1>1. n \in Nat \ {0} /\ n \in 1 .. n /\ stack \in Seq(Activations)
  BY StackFacts DEF TypeOK
<1>2. a \in Activations /\ a.bb = stack[n].bb /\ a.preds = stack[n].preds \ {p} /\ a.union = stack[n].union
  <2>1. stack[n] \in Activations /\ stack[n].preds \ {p} \in SUBSET Blocks(fn) /\ {} \in SUBSET Valuations(fn)
    BY <1>1, StackFacts
  <2> QED BY <2>1, ActivationFields
<1>3. s = [stack EXCEPT ![n] = a]
  BY Zenon
<1> HIDE DEF a, n, s
<1>4. /\ s \in Seq(Activations) /\ Len(s) = Len(stack)
      /\ \A i \in 1 .. Len(stack) : s[i] = IF i = n THEN a ELSE stack[i]
  BY <1>1, <1>2, <1>3, ExceptSeq DEF n
<1>5. s[n] = a /\ \A i \in 1 .. n - 1 : s[i] = stack[i]
  BY <1>1, <1>4 DEF n
<1>6. /\ s \in Seq(Activations) /\ Len(s) = n
      /\ \A i \in 1 .. n - 1 : s[i] = stack[i]
      /\ s[n].bb = stack[n].bb
      /\ s[n].preds = stack[n].preds \ {p}
      /\ s[n].union = stack[n].union
  BY <1>2, <1>4, <1>5 DEF n
<1> QED
  BY <1>6, Zenon DEF n, s

\* A predecessor is followed: the innermost activation waits for the new one.
LEMMA PushPredecessor ==
  ASSUME TypeOK, stack # <<>>, NEW p \in Blocks(fn), NEW c \in SUBSET Valuations(fn)
  PROVE  LET n == Len(stack)
             s == Append([stack EXCEPT ![Len(stack)].preds = @ \ {p}, ![Len(stack)].edge = c], Activation(p))
         IN  /\ s \in Seq(Activations) /\ Len(s) = n + 1
             /\ \A i \in 1 .. n - 1 : s[i] = stack[i]
             /\ s[n].bb = stack[n].bb
             /\ s[n].preds = stack[n].preds \ {p}
             /\ s[n].union = stack[n].union
             /\ s[n].edge = c
             /\ s[n + 1] = Activation(p)
<1> DEFINE n == Len(stack)
           r == [stack EXCEPT ![Len(stack)].preds = @ \ {p}]
           a == [r[n] EXCEPT !.edge = c]
           t == [r EXCEPT ![n] = a]
           s == Append([stack EXCEPT ![Len(stack)].preds = @ \ {p}, ![Len(stack)].edge = c], Activation(p))
<1>1. n \in Nat \ {0} /\ n \in 1 .. n
  BY StackFacts
<1>2. /\ r \in Seq(Activations) /\ Len(r) = n
      /\ \A i \in 1 .. n - 1 : r[i] = stack[i]
      /\ r[n].bb = stack[n].bb
      /\ r[n].preds = stack[n].preds \ {p}
      /\ r[n].union = stack[n].union
  BY TakePredecessor, Zenon
<1>3. s = Append(t, Activation(p))
  BY Zenon
<1> HIDE DEF r, n, s
<1>4. a \in Activations /\ a.bb = r[n].bb /\ a.preds = r[n].preds /\ a.union = r[n].union /\ a.edge = c
  <2>1. r[n] \in Activations /\ {} \in SUBSET Blocks(fn)
    BY <1>1, <1>2, ElementOfSeq
  <2> QED BY <2>1, ActivationFields
<1> HIDE DEF a
<1>5. /\ t \in Seq(Activations) /\ Len(t) = n
      /\ \A i \in 1 .. n : t[i] = IF i = n THEN a ELSE r[i]
  BY <1>1, <1>2, <1>4, ExceptSeq
<1> HIDE DEF t
<1>6. /\ s \in Seq(Activations) /\ Len(s) = n + 1
      /\ \A i \in 1 .. n : s[i] = t[i]
      /\ s[n + 1] = Activation(p)
  <2>1. Activation(p) \in Activations
    BY ActivationType
  <2>2. /\ Append(t, Activation(p)) \in Seq(Activations)
        /\ Len(Append(t, Activation(p))) = Len(t) + 1
        /\ \A i \in 1 .. Len(t) : Append(t, Activation(p))[i] = t[i]
        /\ Append(t, Activation(p))[Len(t) + 1] = Activation(p)
    BY <1>5, <2>1, AppendProperties
  <2> QED BY <1>3, <1>5, <2>2
<1>7. s[n] = a /\ \A i \in 1 .. n - 1 : s[i] = stack[i]
  <2>1. \A i \in 1 .. n - 1 : i \in 1 .. n /\ i # n
    BY <1>1
  <2> QED BY <1>1, <1>2, <1>5, <1>6, <2>1
<1>8. /\ s \in Seq(Activations) /\ Len(s) = n + 1
      /\ \A i \in 1 .. n - 1 : s[i] = stack[i]
      /\ s[n].bb = stack[n].bb
      /\ s[n].preds = stack[n].preds \ {p}
      /\ s[n].union = stack[n].union
      /\ s[n].edge = c
      /\ s[n + 1] = Activation(p)
  BY <1>2, <1>4, <1>6, <1>7
<1> QED
  BY <1>8, Zenon DEF n, s

-----------------------------------------------------------------------------
(***************************************************************************)
(* The invariant holds to begin with, and every step keeps it.             *)
(***************************************************************************)

\* A position on the stack, one conjunct of WalkInv and ChainInv each.
Starts(i) == i = 1 => stack[i].bb = Call.block

Waits(i) ==
  \A p \in Awaited(i) : /\ p \in Predecessors(fn, stack[i].bb) \ stack[i].preds
                        /\ <<p, stack[i].bb>> \notin fn.back
                        /\ stack[i].edge = EdgeConstraint(fn, stack[i].bb, p)
                        /\ Translatable(fn, stack[i].bb, p)

Unites(i) ==
  stack[i].union = PathThrough(fn, Predecessors(fn, stack[i].bb) \ (stack[i].preds \cup Awaited(i)), stack[i].bb)

Linked(i, j) == i < j => stack[i].bb \in Reachable(Forward(fn), stack[j].bb)

LEMMA ByPosition ==
  IInv <=> /\ TypeOK
           /\ \A i \in DOMAIN stack : Starts(i) /\ Waits(i) /\ Unites(i)
           /\ \A i, j \in DOMAIN stack : Linked(i, j)
           /\ pc = "solve" => path = PathTo(fn, Call.block)
           /\ pc = "overflow" => Len(stack) = MaxDepth
BY DEF IInv, WalkInv, ChainInv, Starts, Waits, Unites, Linked

LEMMA ByPositionNext ==
  ASSUME /\ TypeOK'
         /\ \A i \in DOMAIN stack' : Starts(i)' /\ Waits(i)' /\ Unites(i)'
         /\ \A i, j \in DOMAIN stack' : Linked(i, j)'
         /\ pc' = "solve" => path' = PathTo(fn', Call'.block)
         /\ pc' = "overflow" => Len(stack') = MaxDepth
  PROVE  IInv'
BY DEF IInv, WalkInv, ChainInv, Starts, Waits, Unites, Linked

LEMMA InitialInvariant == Init => IInv
<1> SUFFICES ASSUME Init PROVE IInv
  OBVIOUS
<1>1. fn \in Functions /\ at = 1 /\ pc = "visit" /\ stack = <<>> /\ path = {} /\ report = <<>>
  BY DEF Init
<1>2. Len(fn.calls) \in Nat
  BY <1>1, FunctionFacts
<1>3. <<>> \in Seq(Activations) /\ <<>> \in Seq(Answers) /\ Len(<<>>) = 0 /\ DOMAIN <<>> = {}
  BY EmptySeq
<1>4. TypeOK
  BY <1>1, <1>2, <1>3, DepthAssumption, FunctionFacts DEF TypeOK
<1> QED
  BY <1>1, <1>3, <1>4, ByPosition

\* PathConstraint::Get has found the constraint of its block.
LEMMA ReturnKeeps ==
  ASSUME IInv, pc = "walk", NEW constraint, constraint = PathTo(fn, Top.bb)
  PROVE  Return(constraint) /\ UNCHANGED <<fn, at, report>> => IInv'
<1> DEFINE n == Len(stack)
<1>1. /\ TypeOK
      /\ \A i \in DOMAIN stack : Starts(i) /\ Waits(i) /\ Unites(i)
      /\ \A i, j \in DOMAIN stack : Linked(i, j)
  BY ByPosition
<1>2. /\ n \in Nat \ {0} /\ DOMAIN stack = 1 .. n /\ Top = stack[n]
      /\ \A i \in 1 .. n : stack[i].bb \in Blocks(fn)
  BY <1>1, StackFacts DEF TypeOK
<1>3. constraint \in SUBSET Valuations(fn) /\ fn \in Functions
  BY <1>1 DEF PathTo, TypeOK
<1>4. ASSUME Return(constraint), UNCHANGED <<fn, at, report>>, n = 1
      PROVE  IInv'
  <2>1. path' = constraint /\ stack' = <<>> /\ pc' = "solve" /\ fn' = fn /\ at' = at /\ report' = report
    BY <1>4 DEF Return
  <2>2. Activations' = Activations /\ Answers' = Answers /\ Call' = Call
    BY <2>1 DEF Activations, Answers, Call
  <2>3. <<>> \in Seq(Activations) /\ Len(<<>>) = 0 /\ DOMAIN <<>> = {}
    BY EmptySeq
  <2>4. TypeOK'
    BY <1>1, <1>3, <2>1, <2>2, <2>3, DepthAssumption DEF TypeOK
  <2>5. Call.block = Top.bb
    BY <1>1, <1>2, <1>4 DEF Starts
  <2> QED BY <2>1, <2>2, <2>3, <2>4, <2>5, ByPositionNext
<1>5. ASSUME Return(constraint), UNCHANGED <<fn, at, report>>, n # 1
      PROVE  IInv'
  <2> DEFINE m == n - 1
             p == stack[n].bb
  <2>1. m \in Nat \ {0} /\ m \in 1 .. n /\ \A i \in 1 .. m : i \in 1 .. n /\ i < n
    BY <1>2, <1>5
  <2>2. /\ stack' \in Seq(Activations) /\ Len(stack') = m
        /\ \A i \in 1 .. m - 1 : stack'[i] = stack[i]
        /\ stack'[m].bb = stack[m].bb
        /\ stack'[m].preds = stack[m].preds
        /\ stack'[m].union = stack[m].union \cup (stack[m].edge \cap constraint)
        /\ path' = path /\ pc' = pc /\ fn' = fn /\ at' = at /\ report' = report
    <3>1. Len(stack) > 1
      BY <1>2, <1>5
    <3>2. TypeOK /\ constraint \in SUBSET Valuations(fn) /\ Return(constraint)
          /\ fn' = fn /\ at' = at /\ report' = report
      BY <1>1, <1>3, <1>5
    <3>3. /\ stack' \in Seq(Activations) /\ Len(stack') = m
          /\ \A i \in 1 .. m - 1 : stack'[i] = stack[i]
          /\ stack'[m].bb = stack[m].bb
          /\ stack'[m].preds = stack[m].preds
          /\ stack'[m].union = stack[m].union \cup (stack[m].edge \cap constraint)
          /\ path' = path /\ pc' = pc
      BY <3>1, <3>2, ReturnBelow, Zenon
    <3> QED BY <3>2, <3>3, Zenon
  <2>3. Activations' = Activations /\ Answers' = Answers /\ Call' = Call
    BY <2>2 DEF Activations, Answers, Call
  <2>4. DOMAIN stack' = 1 .. m
    BY <2>2, LenProperties
  <2>5. \A i \in 1 .. m : stack'[i].bb = stack[i].bb /\ stack'[i].preds = stack[i].preds
    <3>1. \A i \in 1 .. m : i = m \/ i \in 1 .. m - 1
      BY <2>1
    <3> QED BY <2>2, <3>1
  <2>6. TypeOK'
    <3>1. stack' # <<>> /\ Len(stack') <= MaxDepth
      BY <1>1, <1>2, <1>3, <2>1, <2>2, DepthAssumption, EmptySeq DEF TypeOK
    <3>2. \A i \in DOMAIN stack' : stack'[i].preds \subseteq Predecessors(fn, stack'[i].bb)
      BY <1>1, <1>2, <2>1, <2>4, <2>5 DEF TypeOK
    <3> QED BY <1>1, <2>2, <2>3, <3>1, <3>2 DEF TypeOK
  <2>7. ASSUME NEW i \in 1 .. m - 1
        PROVE  Starts(i)' /\ Waits(i)' /\ Unites(i)'
    <3>1. i \in 1 .. m /\ i + 1 \in 1 .. m /\ i < Len(stack') /\ i < Len(stack) /\ stack'[i] = stack[i]
      BY <1>2, <2>1, <2>2
    <3>2. Awaited(i)' = Awaited(i)
      BY <2>5, <3>1 DEF Awaited
    <3>3. Starts(i) /\ Waits(i) /\ Unites(i)
      BY <1>1, <1>2, <2>1, <3>1
    <3> QED BY <2>2, <2>3, <3>1, <3>2, <3>3 DEF Starts, Waits, Unites
  <2>8. ASSUME NEW i, i = m PROVE Starts(i)' /\ Waits(i)' /\ Unites(i)'
    <3>1. i \in 1 .. n /\ i < n /\ i + 1 = n /\ ~(i < Len(stack'))
      BY <1>2, <2>1, <2>2, <2>8
    <3>2. Awaited(i)' = {} /\ Awaited(i) = {p}
      BY <3>1 DEF Awaited
    <3>3. Starts(i) /\ Waits(i) /\ Unites(i)
      BY <1>1, <1>2, <3>1
    <3>4. Starts(i)'
      BY <2>2, <2>3, <2>8, <3>3 DEF Starts
    <3>5. Waits(i)'
      BY <3>2 DEF Waits
    <3> DEFINE b == stack[i].bb
               taken == Predecessors(fn, b) \ (stack[i].preds \cup {p})
    <3>6. /\ p \in Predecessors(fn, b) /\ p \notin stack[i].preds /\ b \in Blocks(fn)
          /\ <<p, b>> \notin fn.back /\ Translatable(fn, b, p)
          /\ stack[i].edge = EdgeConstraint(fn, b, p)
          /\ stack[i].union = PathThrough(fn, taken, b)
      BY <1>2, <3>1, <3>2, <3>3 DEF Waits, Unites
    <3>7. PathThrough(fn, taken \cup {p}, b)
            = PathThrough(fn, taken, b) \cup (EdgeConstraint(fn, b, p) \cap PathTo(fn, p))
      BY <1>3, <3>6, PathThroughOneMore
    <3>8. taken \cup {p} = Predecessors(fn, b) \ (stack[i].preds \cup {})
      BY <3>6
    <3>9. /\ stack'[i].union = stack[i].union \cup (stack[i].edge \cap PathTo(fn, p))
          /\ stack'[i].bb = b /\ stack'[i].preds = stack[i].preds
      BY <1>2, <2>2, <2>8
    <3>10. stack'[i].union = PathThrough(fn, Predecessors(fn, b) \ (stack[i].preds \cup {}), b)
      BY <3>6, <3>7, <3>8, <3>9, Zenon
    <3>11. Unites(i)'
      BY <2>2, <3>2, <3>9, <3>10, Zenon DEF Unites
    <3> QED BY <3>4, <3>5, <3>11
  <2>9. \A i \in DOMAIN stack' : Starts(i)' /\ Waits(i)' /\ Unites(i)'
    <3>1. \A i \in 1 .. m : i = m \/ i \in 1 .. m - 1
      BY <2>1
    <3> QED BY <2>4, <2>7, <2>8, <3>1
  <2>10. \A i, j \in DOMAIN stack' : Linked(i, j)'
    BY <1>1, <1>2, <2>1, <2>2, <2>4, <2>5 DEF Linked
  <2> QED BY <2>2, <2>6, <2>9, <2>10, ByPositionNext
<1> QED
  BY <1>4, <1>5

\* A step that leaves the stack alone.
LEMMA StackUnchanged ==
  ASSUME IInv, fn' = fn, stack' = stack, TypeOK', stack = <<>> \/ at' = at,
         pc' # "solve", pc' = "overflow" => Len(stack) = MaxDepth
  PROVE  IInv'
<1>1. /\ TypeOK
      /\ \A i \in DOMAIN stack : Starts(i) /\ Waits(i) /\ Unites(i)
      /\ \A i, j \in DOMAIN stack : Linked(i, j)
  BY ByPosition
<1>2. stack = <<>> => DOMAIN stack = {}
  OBVIOUS
<1>3. at' = at => Call' = Call
  BY DEF Call
<1>4. \A i : Awaited(i)' = Awaited(i)
  BY DEF Awaited
<1>5. \A i \in DOMAIN stack' : Starts(i)' /\ Waits(i)' /\ Unites(i)'
  BY <1>1, <1>2, <1>3, <1>4 DEF Starts, Waits, Unites
<1>6. \A i, j \in DOMAIN stack' : Linked(i, j)'
  BY <1>1 DEF Linked
<1> QED
  BY <1>5, <1>6, ByPositionNext

\* The answers that there are stay answers when the visitor moves on.
LEMMA AnswersGrow ==
  ASSUME TypeOK, fn' = fn, at' \in {at, at + 1}
  PROVE  /\ Activations' = Activations
         /\ Answers \subseteq Answers'
         /\ report \in Seq(Answers')
<1>1. at \in Nat
  BY FunctionFacts DEF TypeOK
<1>2. 1 .. at - 1 \subseteq 1 .. at' - 1
  <2>1. CASE at' = at
    BY <2>1
  <2>2. CASE at' = at + 1
    BY <1>1, <2>2
  <2> QED BY <2>1, <2>2
<1>3. Answers \subseteq Answers'
  BY <1>2 DEF Answers
<1>4. report \in Seq(Answers)
  BY DEF TypeOK
<1>5. report \in Seq(Answers')
  BY <1>3, <1>4, SeqMonotonic
<1> QED
  BY <1>3, <1>5 DEF Activations

LEMMA VisitOtherKeeps == IInv /\ VisitOther => IInv'
<1> SUFFICES ASSUME IInv, VisitOther PROVE IInv'
  OBVIOUS
<1>1. /\ pc = "visit" /\ at \in DOMAIN fn.calls /\ at' = at + 1
      /\ fn' = fn /\ pc' = pc /\ stack' = stack /\ path' = path /\ report' = report
  BY DEF VisitOther
<1>2. TypeOK /\ stack = <<>> /\ fn \in Functions
  BY <1>1 DEF IInv, TypeOK
<1>3. at' \in 1 .. Len(fn.calls) + 1
  BY <1>1, <1>2, FunctionFacts
<1>4. report' \in Seq(Answers') /\ Activations' = Activations
  BY <1>1, <1>2, AnswersGrow
<1>5. TypeOK'
  BY <1>1, <1>2, <1>3, <1>4 DEF TypeOK
<1> QED
  BY <1>1, <1>2, <1>5, StackUnchanged

LEMMA FinishKeeps == IInv /\ Finish => IInv'
<1> SUFFICES ASSUME IInv, Finish PROVE IInv'
  OBVIOUS
<1>1. /\ pc = "visit" /\ pc' = "done" /\ at' = at
      /\ fn' = fn /\ stack' = stack /\ path' = path /\ report' = report
  BY DEF Finish
<1>2. TypeOK
  BY DEF IInv
<1>3. report' \in Seq(Answers') /\ Activations' = Activations
  BY <1>1, <1>2, AnswersGrow
<1>4. TypeOK'
  BY <1>1, <1>2, <1>3 DEF TypeOK
<1> QED
  BY <1>1, <1>4, StackUnchanged

LEMMA StackOverflowKeeps == IInv /\ StackOverflow => IInv'
<1> SUFFICES ASSUME IInv, StackOverflow PROVE IInv'
  OBVIOUS
<1>1. /\ pc = "walk" /\ pc' = "overflow" /\ Len(stack) = MaxDepth /\ at' = at
      /\ fn' = fn /\ stack' = stack /\ path' = path /\ report' = report
  BY DEF StackOverflow
<1>2. TypeOK
  BY DEF IInv
<1>3. report' \in Seq(Answers') /\ Activations' = Activations
  BY <1>1, <1>2, AnswersGrow
<1>4. TypeOK'
  BY <1>1, <1>2, <1>3 DEF TypeOK
<1> QED
  BY <1>1, <1>4, StackUnchanged

LEMMA AbortKeeps == IInv /\ Abort => IInv'
<1> SUFFICES ASSUME IInv, Abort PROVE IInv'
  OBVIOUS
<1>1. /\ pc' = "aborted" /\ at' = at
      /\ fn' = fn /\ stack' = stack /\ path' = path /\ report' = report
  BY DEF Abort
<1>2. TypeOK
  BY DEF IInv
<1>3. report' \in Seq(Answers') /\ Activations' = Activations
  BY <1>1, <1>2, AnswersGrow
<1>4. TypeOK'
  BY <1>1, <1>2, <1>3 DEF TypeOK
<1> QED
  BY <1>1, <1>4, StackUnchanged

LEMMA EndedKeeps == IInv /\ UNCHANGED vars => IInv'
BY DEF vars, IInv, TypeOK, WalkInv, ChainInv, Activations, Answers, Awaited, Call

LEMMA SolveKeeps == IInv /\ Solve => IInv'
<1> SUFFICES ASSUME IInv, Solve PROVE IInv'
  OBVIOUS
<1> DEFINE constraint == {sigma \in path : Condition(fn, Call, sigma)}
           models == Valuations(fn) \ constraint
           answer == [call |-> at, constraint |-> constraint, models |-> models,
                      verdict |-> IF models # {} THEN "Error example" ELSE "OK"]
<1>1. /\ pc = "solve" /\ report' = Append(report, answer) /\ at' = at + 1 /\ pc' = "visit"
      /\ fn' = fn /\ stack' = stack /\ path' = path
  BY DEF Solve
<1>2. TypeOK /\ at \in DOMAIN fn.calls /\ stack = <<>> /\ fn \in Functions /\ path \subseteq Valuations(fn)
  BY <1>1 DEF IInv, TypeOK
<1>3. at \in 1 .. Len(fn.calls) /\ at' \in 1 .. Len(fn.calls) + 1 /\ at \in 1 .. at' - 1
  <2> DEFINE last == Len(fn.calls)
  <2>1. last \in Nat /\ at \in 1 .. last /\ at' = at + 1
    BY <1>1, <1>2, FunctionFacts
  <2> HIDE DEF last
  <2> QED BY <2>1 DEF last
<1>4. report \in Seq(Answers') /\ Activations' = Activations
  BY <1>1, <1>2, AnswersGrow
<1>5. answer \in Answers'
  <2>1. constraint \in SUBSET Valuations(fn) /\ models \in SUBSET Valuations(fn)
    BY <1>2
  <2> HIDE DEF constraint, models
  <2>2. (IF models # {} THEN "Error example" ELSE "OK") \in {"Error example", "OK"}
    OBVIOUS
  <2> QED BY <1>1, <1>3, <2>1, <2>2 DEF Answers
<1>6. report' \in Seq(Answers')
  <2> HIDE DEF answer
  <2> QED BY <1>1, <1>4, <1>5, AppendProperties
<1> HIDE DEF answer
<1>7. TypeOK'
  BY <1>1, <1>2, <1>3, <1>4, <1>6 DEF TypeOK
<1> QED
  BY <1>1, <1>2, <1>7, StackUnchanged

\* The recursion starts at the block of the check.
LEMMA VisitCheckKeeps == IInv /\ VisitCheck => IInv'
<1> SUFFICES ASSUME IInv, VisitCheck PROVE IInv'
  OBVIOUS
<1> DEFINE b == Call.block
<1>1. /\ pc = "visit" /\ at \in DOMAIN fn.calls /\ IsCheck(Call) /\ stack' = <<Activation(b)>> /\ pc' = "walk"
      /\ fn' = fn /\ at' = at /\ path' = path /\ report' = report
  BY DEF VisitCheck
<1>2. TypeOK /\ fn \in Functions /\ b \in Blocks(fn)
  <2>1. TypeOK /\ fn \in Functions
    BY DEF IInv, TypeOK
  <2> QED BY <1>1, <2>1, FunctionFacts DEF Call
<1>3. Activation(b) \in Activations /\ Activation(b).bb = b /\ Activation(b).preds = Predecessors(fn, b)
      /\ Activation(b).union = {}
  BY <1>2, ActivationType
<1>4. report' \in Seq(Answers') /\ Activations' = Activations /\ Call' = Call
  BY <1>1, <1>2, AnswersGrow DEF Call
<1>5. stack' \in Seq(Activations) /\ Len(stack') = 1 /\ DOMAIN stack' = {1} /\ stack'[1] = Activation(b)
  BY <1>1, <1>3
<1>6. 1 <= MaxDepth
  BY <1>2, FunctionFacts, DepthAssumption
<1>7. TypeOK'
  BY <1>1, <1>2, <1>3, <1>4, <1>5, <1>6 DEF TypeOK
<1>8. ASSUME NEW i \in DOMAIN stack'
      PROVE  Starts(i)' /\ Waits(i)' /\ Unites(i)'
  <2>1. i = 1 /\ stack'[i].bb = b /\ stack'[i].preds = Predecessors(fn, b) /\ stack'[i].union = {}
    BY <1>3, <1>5
  <2>2. Awaited(i)' = {}
    BY <1>5, <2>1 DEF Awaited
  <2>3. Predecessors(fn, b) \ (Predecessors(fn, b) \cup {}) = {}
    OBVIOUS
  <2>4. Unites(i)'
    BY <1>1, <2>1, <2>2, <2>3, PathThroughNone DEF Unites
  <2> QED BY <1>4, <2>1, <2>2, <2>4 DEF Starts, Waits
<1>9. \A i, j \in DOMAIN stack' : Linked(i, j)'
  BY <1>5 DEF Linked
<1> QED
  BY <1>1, <1>7, <1>8, <1>9, ByPositionNext

LEMMA ReturnTrueKeeps == IInv /\ ReturnTrue => IInv'
<1> SUFFICES ASSUME IInv, ReturnTrue PROVE IInv'
  OBVIOUS
<1> DEFINE constraint == Valuations(fn)
<1>1. pc = "walk" /\ Top.bb = 1 /\ Return(constraint) /\ UNCHANGED <<fn, at, report>>
  BY DEF ReturnTrue
<1>2. constraint = PathTo(fn, Top.bb)
  BY <1>1, PathToEntry
<1> HIDE DEF constraint
<1> QED
  BY <1>1, <1>2, ReturnKeeps, Zenon

LEMMA ReturnUnionKeeps == IInv /\ ReturnUnion => IInv'
<1> SUFFICES ASSUME IInv, ReturnUnion PROVE IInv'
  OBVIOUS
<1> DEFINE constraint == Top.union
           n == Len(stack)
<1>1. pc = "walk" /\ Top.bb # 1 /\ Top.preds = {} /\ Return(constraint) /\ UNCHANGED <<fn, at, report>>
  BY DEF ReturnUnion
<1>2. TypeOK /\ fn \in Functions /\ stack # <<>>
  BY <1>1 DEF IInv, TypeOK
<1>3. n \in DOMAIN stack /\ Top = stack[n] /\ Top.bb \in Blocks(fn) /\ Awaited(n) = {}
  BY <1>2, StackFacts DEF Awaited
<1>4. Unites(n)
  BY <1>3, ByPosition
<1>5. Predecessors(fn, Top.bb) \ ({} \cup {}) = Predecessors(fn, Top.bb)
  OBVIOUS
<1>6. constraint = PathThrough(fn, Predecessors(fn, Top.bb), Top.bb)
  BY <1>1, <1>3, <1>4, <1>5, Zenon DEF Unites
<1>7. constraint = PathTo(fn, Top.bb)
  BY <1>1, <1>2, <1>3, <1>6, PathToOther
<1> HIDE DEF constraint
<1> QED
  BY <1>1, <1>7, ReturnKeeps, Zenon

\* Below the innermost activation nothing changes.
LEMMA SkipBackEdgeKeeps == IInv /\ SkipBackEdge => IInv'
<1> SUFFICES ASSUME IInv, SkipBackEdge PROVE IInv'
  OBVIOUS
<1> DEFINE n == Len(stack)
           b == stack[n].bb
<1>1. /\ TypeOK
      /\ \A i \in DOMAIN stack : Starts(i) /\ Waits(i) /\ Unites(i)
      /\ \A i, j \in DOMAIN stack : Linked(i, j)
  BY ByPosition
<1>2. pc = "walk" /\ stack # <<>> /\ UNCHANGED <<fn, at, pc, path, report>>
  BY <1>1 DEF SkipBackEdge, TypeOK
<1>3. /\ n \in Nat \ {0} /\ DOMAIN stack = 1 .. n /\ n \in 1 .. n
      /\ Top = stack[n] /\ b \in Blocks(fn) /\ fn \in Functions
  BY <1>1, <1>2, StackFacts DEF TypeOK
<1>4. PICK p \in Top.preds : IsBackEdge(p) /\ stack' = [stack EXCEPT ![Len(stack)].preds = @ \ {p}]
  BY DEF SkipBackEdge
<1>5. /\ stack' \in Seq(Activations) /\ Len(stack') = n
      /\ \A i \in 1 .. n - 1 : stack'[i] = stack[i]
      /\ stack'[n].bb = b
      /\ stack'[n].preds = stack[n].preds \ {p}
      /\ stack'[n].union = stack[n].union
  BY <1>1, <1>2, <1>4, TakePredecessor, Zenon
<1>6. p \in stack[n].preds /\ <<p, b>> \in fn.back
  BY <1>3, <1>4 DEF IsBackEdge
<1> HIDE <1>4
<1>7. /\ Activations' = Activations /\ Answers' = Answers /\ Call' = Call
      /\ DOMAIN stack' = 1 .. n /\ \A i \in 1 .. n : i = n \/ i \in 1 .. n - 1
  <2>1. Activations' = Activations /\ Answers' = Answers /\ Call' = Call
    BY <1>2 DEF Activations, Answers, Call
  <2>2. DOMAIN stack' = 1 .. n
    <3> HIDE DEF n
    <3> QED BY <1>5, LenProperties
  <2>3. \A i \in 1 .. n : i = n \/ i \in 1 .. n - 1
    <3> HIDE DEF n
    <3> QED BY <1>3
  <2> QED BY <2>1, <2>2, <2>3
<1>8. /\ \A i \in 1 .. n : stack'[i].bb = stack[i].bb
      /\ \A i \in 1 .. n : stack'[i].preds \subseteq stack[i].preds
  BY <1>5, <1>7
<1>9. TypeOK'
  <2>1. stack' # <<>> /\ Len(stack') <= MaxDepth
    BY <1>1, <1>3, <1>5, EmptySeq DEF TypeOK
  <2>2. \A i \in DOMAIN stack' : stack'[i].preds \subseteq Predecessors(fn, stack'[i].bb)
    BY <1>1, <1>3, <1>7, <1>8 DEF TypeOK
  <2> QED BY <1>1, <1>2, <1>5, <1>7, <2>1, <2>2 DEF TypeOK
<1>10. \A i \in 1 .. n : Awaited(i)' = Awaited(i)
  <2>1. \A i \in 1 .. n : i < n => i + 1 \in 1 .. n
    <3> HIDE DEF n
    <3> QED BY <1>3
  <2> QED BY <1>5, <1>8, <2>1 DEF Awaited
<1>11. ASSUME NEW i \in 1 .. n - 1
       PROVE  Starts(i)' /\ Waits(i)' /\ Unites(i)'
  <2>1. i \in 1 .. n /\ Starts(i) /\ Waits(i) /\ Unites(i) /\ stack'[i] = stack[i]
    BY <1>1, <1>3, <1>5
  <2> QED BY <1>2, <1>7, <1>10, <2>1 DEF Starts, Waits, Unites
<1>12. ASSUME NEW i, i = n PROVE Starts(i)' /\ Waits(i)' /\ Unites(i)'
  <2> DEFINE taken == Predecessors(fn, b) \ (stack[n].preds \cup {})
  <2>1. Awaited(n) = {} /\ Awaited(i)' = {}
    <3>1. ~(n < Len(stack)) /\ ~(i < Len(stack'))
      BY <1>3, <1>5, <1>12
    <3> QED BY <3>1 DEF Awaited
  <2>2. Starts(n) /\ Unites(n) /\ p \in Predecessors(fn, b)
    BY <1>1, <1>3, <1>6 DEF TypeOK
  <2>3. taken \cup {p} = Predecessors(fn, b) \ ((stack[n].preds \ {p}) \cup {})
    BY <2>2
  <2>4. PathThrough(fn, taken \cup {p}, b) = PathThrough(fn, taken, b)
    BY <1>3, <1>6, <2>2, PathThroughOneMore
  <2>5. stack[n].union = PathThrough(fn, taken, b)
    BY <2>1, <2>2 DEF Unites
  <2>6. stack'[i].union = PathThrough(fn, Predecessors(fn, b) \ ((stack[n].preds \ {p}) \cup {}), b)
    BY <1>5, <1>12, <2>3, <2>4, <2>5
  <2>7. Unites(i)'
    BY <1>2, <1>5, <1>12, <2>1, <2>6 DEF Unites
  <2> QED BY <1>5, <1>7, <1>12, <2>1, <2>2, <2>7 DEF Starts, Waits
<1>13. \A i \in DOMAIN stack' : Starts(i)' /\ Waits(i)' /\ Unites(i)'
  BY <1>7, <1>11, <1>12
<1>14. \A i, j \in DOMAIN stack' : Linked(i, j)'
  <2>1. \A i, j \in 1 .. n : Linked(i, j)
    BY <1>1, <1>3
  <2>2. DOMAIN stack' = 1 .. n /\ fn' = fn
    BY <1>2, <1>7
  <2> HIDE DEF n
  <2> QED BY <1>8, <2>1, <2>2 DEF Linked
<1> QED
  BY <1>2, <1>9, <1>13, <1>14, ByPositionNext

\* The innermost activation waits for the one of the predecessor.
LEMMA FollowPredKeeps == IInv /\ FollowPred => IInv'
<1> SUFFICES ASSUME IInv, FollowPred PROVE IInv'
  OBVIOUS
<1> DEFINE n == Len(stack)
           b == stack[n].bb
<1>1. /\ TypeOK
      /\ \A i \in DOMAIN stack : Starts(i) /\ Waits(i) /\ Unites(i)
      /\ \A i, j \in DOMAIN stack : Linked(i, j)
  BY ByPosition
<1>2. pc = "walk" /\ stack # <<>> /\ n < MaxDepth /\ UNCHANGED <<fn, at, pc, path, report>>
  BY <1>1 DEF FollowPred, TypeOK
<1>3. /\ n \in Nat \ {0} /\ DOMAIN stack = 1 .. n /\ n \in 1 .. n
      /\ Top = stack[n] /\ b \in Blocks(fn) /\ fn \in Functions
      /\ \A i \in 1 .. n : stack[i].bb \in Blocks(fn)
  BY <1>1, <1>2, StackFacts DEF TypeOK
<1>4. PICK p \in Blocks(fn) :
        /\ TakesEdge(p) /\ Translatable(fn, Top.bb, p)
        /\ stack' = Append([stack EXCEPT ![Len(stack)].preds = @ \ {p},
                                         ![Len(stack)].edge = EdgeConstraint(fn, Top.bb, p)],
                           Activation(p))
  BY DEF FollowPred
<1> DEFINE c == EdgeConstraint(fn, Top.bb, p)
<1>5. /\ stack' \in Seq(Activations) /\ Len(stack') = n + 1
      /\ \A i \in 1 .. n - 1 : stack'[i] = stack[i]
      /\ stack'[n].bb = b
      /\ stack'[n].preds = stack[n].preds \ {p}
      /\ stack'[n].union = stack[n].union
      /\ stack'[n].edge = c
      /\ stack'[n + 1] = Activation(p)
  <2>1. c \in SUBSET Valuations(fn)
    BY DEF EdgeConstraint
  <2>2. stack' = Append([stack EXCEPT ![Len(stack)].preds = @ \ {p}, ![Len(stack)].edge = c], Activation(p))
    BY <1>4, Zenon
  <2> HIDE DEF c
  <2> DEFINE s == Append([stack EXCEPT ![Len(stack)].preds = @ \ {p}, ![Len(stack)].edge = c], Activation(p))
  <2>3. TypeOK /\ stack # <<>>
    BY <1>1, <1>2
  <2>4. /\ s \in Seq(Activations) /\ Len(s) = n + 1
        /\ \A i \in 1 .. n - 1 : s[i] = stack[i]
        /\ s[n].bb = b
        /\ s[n].preds = stack[n].preds \ {p}
        /\ s[n].union = stack[n].union
        /\ s[n].edge = c
        /\ s[n + 1] = Activation(p)
    BY <2>1, <2>3, PushPredecessor, Zenon
  <2>5. stack' = s
    BY <2>2, Zenon
  <2> HIDE DEF s
  <2> QED BY <2>4, <2>5
<1>6. /\ p \in stack[n].preds /\ p \in Predecessors(fn, b) /\ <<p, b>> \notin fn.back
      /\ Translatable(fn, b, p) /\ c = EdgeConstraint(fn, b, p)
  <2>1. p \in Top.preds /\ <<p, Top.bb>> \notin fn.back /\ Translatable(fn, Top.bb, p)
    BY <1>4, Zenon DEF TakesEdge, IsBackEdge
  <2> QED BY <1>1, <1>3, <2>1 DEF TypeOK
<1> HIDE <1>4
<1> HIDE DEF c
<1>7. /\ stack'[n + 1].bb = p /\ stack'[n + 1].preds = Predecessors(fn, p) /\ stack'[n + 1].union = {}
  BY <1>5, ActivationType
<1>8. /\ Activations' = Activations /\ Answers' = Answers /\ Call' = Call
  BY <1>2 DEF Activations, Answers, Call
<1>9. /\ DOMAIN stack' = 1 .. n + 1
      /\ \A i \in 1 .. n + 1 : i \in 1 .. n - 1 \/ i = n \/ i = n + 1
      /\ \A i \in 1 .. n : i = n \/ i \in 1 .. n - 1
      /\ \A i \in 1 .. n : i \in 1 .. n + 1 /\ i < n + 1 /\ i # n + 1
      /\ \A i \in 1 .. n - 1 : i < n /\ i \in 1 .. n /\ i + 1 \in 1 .. n
  <2> HIDE DEF n
  <2>1. DOMAIN stack' = 1 .. n + 1
    BY <1>5, LenProperties
  <2> QED BY <1>3, <2>1
<1>10. \A i \in 1 .. n : stack'[i].bb = stack[i].bb /\ stack'[i].preds \subseteq stack[i].preds
  BY <1>5, <1>9
<1>11. TypeOK'
  <2>1. stack' # <<>> /\ Len(stack') <= MaxDepth
    <3> HIDE DEF n
    <3>1. n + 1 # 0 /\ n + 1 <= MaxDepth
      BY <1>2, <1>3, DepthAssumption
    <3> QED BY <1>5, <3>1, EmptySeq
  <2>2. \A i \in DOMAIN stack' : stack'[i].preds \subseteq Predecessors(fn, stack'[i].bb)
    BY <1>1, <1>3, <1>7, <1>9, <1>10 DEF TypeOK
  <2> QED BY <1>1, <1>2, <1>5, <1>8, <2>1, <2>2 DEF TypeOK
<1>12. ASSUME NEW i \in 1 .. n - 1
       PROVE  Starts(i)' /\ Waits(i)' /\ Unites(i)'
  <2>1. i \in 1 .. n /\ i < Len(stack) /\ i < Len(stack') /\ i + 1 \in 1 .. n
    BY <1>5, <1>9
  <2>2. Starts(i) /\ Waits(i) /\ Unites(i) /\ stack'[i] = stack[i]
    BY <1>1, <1>3, <1>5, <2>1
  <2>3. Awaited(i)' = Awaited(i)
    BY <1>10, <2>1 DEF Awaited
  <2> QED BY <1>2, <1>8, <2>2, <2>3 DEF Starts, Waits, Unites
<1>13. ASSUME NEW i, i = n PROVE Starts(i)' /\ Waits(i)' /\ Unites(i)'
  <2>1. Awaited(n) = {} /\ Awaited(i)' = {p}
    <3>1. ~(n < Len(stack)) /\ i < Len(stack') /\ stack'[i + 1].bb = p
      BY <1>3, <1>5, <1>7, <1>13
    <3> QED BY <3>1 DEF Awaited
  <2>2. Starts(n) /\ Unites(n)
    BY <1>1, <1>3
  <2>3. Predecessors(fn, b) \ (stack[n].preds \cup {})
          = Predecessors(fn, b) \ ((stack[n].preds \ {p}) \cup {p})
    BY <1>6
  <2>4. stack'[i].union = PathThrough(fn, Predecessors(fn, b) \ ((stack[n].preds \ {p}) \cup {p}), b)
    BY <1>5, <1>13, <2>1, <2>2, <2>3, Zenon DEF Unites
  <2>5. Unites(i)'
    BY <1>2, <1>5, <1>13, <2>1, <2>4 DEF Unites
  <2>6. Waits(i)'
    BY <1>2, <1>5, <1>6, <1>13, <2>1 DEF Waits
  <2>7. Starts(i)'
    BY <1>2, <1>5, <1>8, <1>13, <2>2 DEF Starts
  <2> QED BY <2>5, <2>6, <2>7
<1>14. ASSUME NEW i, i = n + 1 PROVE Starts(i)' /\ Waits(i)' /\ Unites(i)'
  <2>1. Awaited(i)' = {} /\ i # 1
    <3>1. ~(i < Len(stack')) /\ i # 1
      BY <1>3, <1>5, <1>14
    <3> QED BY <3>1 DEF Awaited
  <2>2. Predecessors(fn, p) \ (Predecessors(fn, p) \cup {}) = {}
    OBVIOUS
  <2>3. Unites(i)'
    BY <1>2, <1>7, <1>14, <2>1, <2>2, PathThroughNone DEF Unites
  <2> QED BY <2>1, <2>3 DEF Starts, Waits
<1>15. \A i \in DOMAIN stack' : Starts(i)' /\ Waits(i)' /\ Unites(i)'
  BY <1>9, <1>12, <1>13, <1>14
<1>16. \A i \in 1 .. n : stack[i].bb \in Reachable(Forward(fn), p)
  <2> DEFINE G == Forward(fn)
  <2>1. G \in [Blocks(fn) -> SUBSET Blocks(fn)] /\ p \in Blocks(fn) /\ b \in G[p]
    BY <1>3, <1>6, GraphTypes DEF Predecessors
  <2> HIDE DEF G
  <2>2. b \in Reachable(G, p)
    BY <2>1, ReachableSuccessors
  <2>3. Reachable(G, b) \subseteq Reachable(G, p)
    BY <2>1, <2>2, ReachableTransitive
  <2>4. \A i \in 1 .. n - 1 : stack[i].bb \in Reachable(G, b)
    BY <1>1, <1>3, <1>9 DEF Linked, G
  <2> QED BY <1>9, <2>2, <2>3, <2>4 DEF G
<1>17. \A i, j \in DOMAIN stack' : Linked(i, j)'
  <2>1. \A i, j \in 1 .. n : Linked(i, j)
    BY <1>1, <1>3
  <2>2. fn' = fn
    BY <1>2
  <2> SUFFICES ASSUME NEW i \in 1 .. n + 1, NEW j \in 1 .. n + 1, i < j
               PROVE  stack'[i].bb \in Reachable(Forward(fn), stack'[j].bb)
    BY <1>9, <2>2 DEF Linked
  <2>3. i \in 1 .. n /\ (j \in 1 .. n \/ j = n + 1)
    <3> HIDE DEF n
    <3> QED BY <1>3
  <2>4. CASE j \in 1 .. n
    BY <1>10, <2>1, <2>3, <2>4 DEF Linked
  <2>5. CASE j = n + 1
    BY <1>7, <1>10, <1>16, <2>3, <2>5
  <2> QED BY <2>3, <2>4, <2>5
<1> QED
  BY <1>2, <1>11, <1>15, <1>17, ByPositionNext

-----------------------------------------------------------------------------
THEOREM SMTQueryInvariant == Spec => []IInv
<1>1. IInv /\ [Next]_vars => IInv'
  BY VisitOtherKeeps, VisitCheckKeeps, FinishKeeps, ReturnTrueKeeps, ReturnUnionKeeps, SkipBackEdgeKeeps,
     FollowPredKeeps, StackOverflowKeeps, SolveKeeps, AbortKeeps, EndedKeeps DEF Next, Step
<1> QED
  BY InitialInvariant, <1>1, PTL DEF Spec

(***************************************************************************)
(* The activations are of blocks of the function, there are some exactly   *)
(* while PathConstraint::Get runs, and never more than the stack holds.    *)
(***************************************************************************)
THEOREM SMTQueryTypeOK == Spec => []TypeOK
<1>1. IInv => TypeOK
  BY DEF IInv
<1> QED
  BY SMTQueryInvariant, <1>1, PTL

(***************************************************************************)
(* For every function, and whatever the order in which predecessors come,  *)
(* the recursion of PathConstraint::Get computes the assignments that lead *)
(* to the block from the entry.                                            *)
(***************************************************************************)
THEOREM SMTQueryWalkInv == Spec => []WalkInv
<1>1. IInv => WalkInv
  BY DEF IInv
<1> QED
  BY SMTQueryInvariant, <1>1, PTL

\* More activations than the function has blocks are not all of different ones.
LEMMA RecursionBoundedHolds == IInv => RecursionBounded
<1> SUFFICES ASSUME IInv PROVE RecursionBounded
  OBVIOUS
<1> DEFINE n == Len(stack)
           size == Len(fn.term)
<1>1. /\ TypeOK /\ fn \in Functions
      /\ \A i, j \in DOMAIN stack : Linked(i, j)
      /\ pc = "overflow" => n = MaxDepth
  BY ByPosition DEF TypeOK
<1>2. n \in Nat /\ DOMAIN stack = 1 .. n /\ \A i \in 1 .. n : stack[i].bb \in Blocks(fn)
  BY <1>1, StackFacts
<1>3. size \in Nat /\ Blocks(fn) = 1 .. size
  BY <1>1, FunctionFacts
<1>4. ASSUME NEW i \in 1 .. n, NEW j \in 1 .. n, i < j, stack[i].bb = stack[j].bb
      PROVE  stack[i].bb \notin ReachableBlocks(fn)
  <2>1. stack[i].bb \in Reachable(Forward(fn), stack[i].bb)
    BY <1>1, <1>2, <1>4 DEF Linked
  <2> QED BY <1>1, <1>2, <2>1, FunctionFacts
<1>5. ASSUME NEW i \in 1 .. n, NEW j \in 1 .. n, i # j, stack[i].bb = stack[j].bb
      PROVE  stack[i].bb \notin ReachableBlocks(fn)
  <2>1. i < j \/ j < i
    <3> HIDE DEF n
    <3> QED BY <1>2, <1>5
  <2> QED BY <1>4, <1>5, <2>1
<1>6. ASSUME pc = "overflow"
      PROVE  \E i \in 1 .. n : stack[i].bb \notin ReachableBlocks(fn)
  <2> DEFINE block == [i \in 1 .. n |-> stack[i].bb]
  <2>1. block \in [1 .. n -> 1 .. size]
    BY <1>2, <1>3
  <2>2. size < n
    BY <1>1, <1>6, DepthAssumption
  <2>3. \E i, j \in 1 .. n : i # j /\ block[i] = block[j]
    <3> HIDE DEF n, size, block
    <3>1. /\ IsFiniteSet(1 .. n) /\ Cardinality(1 .. n) = n
          /\ IsFiniteSet(1 .. size) /\ Cardinality(1 .. size) = size
      BY <1>2, <1>3, FS_Interval
    <3> QED BY <2>1, <2>2, <3>1, FS_PigeonHole
  <2> QED BY <1>5, <2>3
<1> QED
  BY <1>2, <1>5, <1>6 DEF RecursionBounded

(***************************************************************************)
(* For a stack deeper than any function has blocks: with the back edges    *)
(* dropped no block that can be reached is met twice in the recursion, and *)
(* only code that cannot be reached exhausts the stack.                    *)
(***************************************************************************)
THEOREM SMTQueryRecursionBounded == Spec => []RecursionBounded
BY SMTQueryInvariant, RecursionBoundedHolds, PTL

-----------------------------------------------------------------------------
(***************************************************************************)
(* The recursion has been over all that leads to the blocks it has         *)
(* returned from, and Z3 has refused nothing there.                        *)
(***************************************************************************)
Clean(f, b) ==
  \A c \in Blocks(f) : c = b \/ b \in Reachable(Forward(f), c) =>
    \A p \in Predecessors(f, c) : <<p, c>> \notin f.back => Translatable(f, c, p)

TakenClean(i) ==
  \A p \in Predecessors(fn, stack[i].bb) \ (stack[i].preds \cup Awaited(i)) :
    <<p, stack[i].bb>> \notin fn.back => Translatable(fn, stack[i].bb, p) /\ Clean(fn, p)

CleanInv ==
  /\ \A i \in DOMAIN stack : TakenClean(i)
  /\ pc = "solve" => Clean(fn, Call.block)

\* What leads to a block leads to one of its predecessors first.
LEMMA CleanJoins ==
  ASSUME NEW f \in Functions, NEW b \in Blocks(f),
         \A p \in Predecessors(f, b) : <<p, b>> \notin f.back => Translatable(f, b, p) /\ Clean(f, p)
  PROVE  Clean(f, b)
<1> DEFINE G == Forward(f)
<1>1. G \in [Blocks(f) -> SUBSET Blocks(f)]
  BY GraphTypes
<1>2. \A p, c \in Blocks(f) : c \in G[p] => p \in Predecessors(f, c) /\ <<p, c>> \notin f.back
  BY GraphTypes DEF Predecessors
<1> HIDE DEF G
<1>3. ASSUME NEW c \in Blocks(f), b \in Reachable(G, c)
      PROVE  \E d \in Blocks(f) : (c = d \/ d \in Reachable(G, c)) /\ b \in G[d]
  <2>1. PICK d \in {c} \cup Reachable(G, c) : b \in G[d]
    BY <1>1, <1>3, ReachableLastEdge
  <2>2. Reachable(G, c) \subseteq Blocks(f)
    BY <1>1, ReachableSuccessors
  <2> QED BY <2>1, <2>2
<1> SUFFICES ASSUME NEW c \in Blocks(f), c = b \/ b \in Reachable(G, c),
                    NEW p \in Predecessors(f, c), <<p, c>> \notin f.back
             PROVE  Translatable(f, c, p)
  BY DEF Clean, G
<1>4. CASE c = b
  BY <1>4
<1>5. CASE b \in Reachable(G, c)
  <2>1. PICK d \in Blocks(f) : (c = d \/ d \in Reachable(G, c)) /\ b \in G[d]
    BY <1>3, <1>5
  <2>2. Clean(f, d)
    BY <1>2, <2>1
  <2> QED BY <2>1, <2>2 DEF Clean, G
<1> QED BY <1>4, <1>5

\* An activation that returns has taken all predecessors.
LEMMA TopClean ==
  ASSUME IInv, CleanInv, pc = "walk", Top.bb = 1 \/ Top.preds = {}
  PROVE  Clean(fn, Top.bb)
<1> DEFINE n == Len(stack)
<1>1. TypeOK /\ fn \in Functions
  BY DEF IInv, TypeOK
<1>2. n \in DOMAIN stack /\ Top = stack[n] /\ Top.bb \in Blocks(fn) /\ Awaited(n) = {}
  <2>1. stack # <<>>
    BY <1>1 DEF TypeOK
  <2> QED BY <1>1, <2>1, StackFacts DEF Awaited
<1>3. TakenClean(n)
  BY <1>2 DEF CleanInv
<1>4. Predecessors(fn, 1) = {}
  BY <1>1, FunctionsAssumption DEF WellFormed, Predecessors
<1>5. \A p \in Predecessors(fn, Top.bb) :
        <<p, Top.bb>> \notin fn.back => Translatable(fn, Top.bb, p) /\ Clean(fn, p)
  <2>1. CASE Top.bb = 1
    BY <1>4, <2>1
  <2>2. CASE Top.preds = {}
    BY <1>2, <1>3, <2>2 DEF TakenClean
  <2> QED BY <2>1, <2>2
<1> QED BY <1>1, <1>2, <1>5, CleanJoins

LEMMA InitialClean == Init => CleanInv
BY DEF Init, CleanInv

\* A step that leaves the stack alone.
LEMMA CleanUnchanged ==
  ASSUME CleanInv, fn' = fn, stack' = stack, pc' # "solve" \/ (pc' = pc /\ at' = at)
  PROVE  CleanInv'
<1>1. \A i : Awaited(i)' = Awaited(i)
  BY DEF Awaited
<1>2. at' = at => Call' = Call
  BY DEF Call
<1>3. ASSUME NEW i \in DOMAIN stack PROVE TakenClean(i)'
  BY <1>1 DEF CleanInv, TakenClean
<1> QED BY <1>2, <1>3 DEF CleanInv

LEMMA ReturnClean ==
  ASSUME IInv, CleanInv, pc = "walk", Clean(fn, Top.bb),
         NEW constraint \in SUBSET Valuations(fn), Return(constraint), UNCHANGED <<fn, at, report>>
  PROVE  CleanInv'
<1> DEFINE n == Len(stack)
<1>1. /\ TypeOK
      /\ \A i \in DOMAIN stack : Starts(i) /\ Waits(i) /\ TakenClean(i)
  BY ByPosition DEF CleanInv
<1>2. /\ n \in Nat \ {0} /\ DOMAIN stack = 1 .. n /\ Top = stack[n]
      /\ \A i \in 1 .. n : stack[i].bb \in Blocks(fn)
  BY <1>1, StackFacts DEF TypeOK
<1>3. CASE n = 1
  <2>1. stack' = <<>> /\ fn' = fn /\ Call' = Call
    BY <1>3 DEF Return, Call
  <2>2. DOMAIN stack' = {}
    BY <2>1, EmptySeq
  <2>3. Call.block = Top.bb
    BY <1>1, <1>2, <1>3 DEF Starts
  <2> QED BY <2>1, <2>2, <2>3 DEF CleanInv
<1>4. CASE n # 1
  <2> DEFINE m == n - 1
  <2>1. m \in Nat \ {0} /\ m \in 1 .. n /\ \A i \in 1 .. m : i \in 1 .. n /\ i < n /\ i + 1 \in 1 .. n
    BY <1>2, <1>4
  <2>2. /\ stack' \in Seq(Activations) /\ Len(stack') = m
        /\ \A i \in 1 .. m - 1 : stack'[i] = stack[i]
        /\ stack'[m].bb = stack[m].bb
        /\ stack'[m].preds = stack[m].preds
        /\ pc' = pc /\ fn' = fn
    <3>1. Len(stack) > 1
      BY <1>2, <1>4
    <3> QED BY <1>1, <3>1, ReturnBelow, Zenon
  <2>3. DOMAIN stack' = 1 .. m
    BY <2>2, LenProperties
  <2>4. ASSUME NEW i \in 1 .. m
        PROVE  stack'[i].bb = stack[i].bb /\ stack'[i].preds = stack[i].preds
    <3>1. i = m \/ i \in 1 .. m - 1
      BY <2>1
    <3> QED BY <2>2, <3>1
  <2>5. ASSUME NEW i \in 1 .. m PROVE TakenClean(i)'
    <3>1. TakenClean(i) /\ Waits(i) /\ i < n
      BY <1>1, <1>2, <2>1
    <3>2. stack'[i].bb = stack[i].bb /\ stack'[i].preds = stack[i].preds /\ fn' = fn
      BY <2>2, <2>4
    <3>3. CASE i \in 1 .. m - 1
      <4>1. i + 1 \in 1 .. m /\ i < m
        BY <2>1, <3>3
      <4>2. Awaited(i)' = Awaited(i)
        BY <2>2, <2>4, <3>1, <4>1 DEF Awaited
      <4> QED BY <3>1, <3>2, <4>2 DEF TakenClean
    <3>4. CASE i = m
      <4>1. ~(i < m) /\ i + 1 = n
        BY <2>1, <3>4
      <4>2. Awaited(i)' = {} /\ Awaited(i) = {Top.bb}
        BY <1>2, <2>2, <3>1, <4>1 DEF Awaited
      <4>3. Translatable(fn, stack[i].bb, Top.bb)
        BY <3>1, <4>2 DEF Waits
      <4> QED BY <3>1, <3>2, <4>2, <4>3 DEF TakenClean
    <3> QED BY <2>1, <3>3, <3>4
  <2> QED BY <1>1, <2>2, <2>3, <2>5 DEF CleanInv
<1> QED BY <1>3, <1>4

LEMMA SkipClean == IInv /\ CleanInv /\ SkipBackEdge => CleanInv'
<1> SUFFICES ASSUME IInv, CleanInv, SkipBackEdge PROVE CleanInv'
  OBVIOUS
<1> DEFINE n == Len(stack)
           b == stack[n].bb
<1>1. TypeOK /\ \A i \in DOMAIN stack : TakenClean(i)
  BY DEF IInv, CleanInv
<1>2. pc = "walk" /\ stack # <<>> /\ UNCHANGED <<fn, at, pc, path, report>>
  BY <1>1 DEF SkipBackEdge, TypeOK
<1>3. n \in Nat \ {0} /\ DOMAIN stack = 1 .. n /\ Top = stack[n]
  BY <1>1, <1>2, StackFacts
<1>4. PICK p \in Top.preds : IsBackEdge(p) /\ stack' = [stack EXCEPT ![Len(stack)].preds = @ \ {p}]
  BY DEF SkipBackEdge
<1>5. /\ stack' \in Seq(Activations) /\ Len(stack') = n
      /\ \A i \in 1 .. n - 1 : stack'[i] = stack[i]
      /\ stack'[n].bb = b
      /\ stack'[n].preds = stack[n].preds \ {p}
  BY <1>1, <1>2, <1>4, TakePredecessor, Zenon
<1>6. <<p, b>> \in fn.back
  BY <1>3, <1>4 DEF IsBackEdge
<1> HIDE <1>4
<1> HIDE DEF n
<1>7. DOMAIN stack' = 1 .. n /\ \A i \in 1 .. n : i = n \/ i \in 1 .. n - 1
  BY <1>3, <1>5, LenProperties
<1>8. \A i \in 1 .. n : /\ stack'[i].bb = stack[i].bb
                        /\ stack'[i].preds = stack[i].preds \/ (i = n /\ stack'[i].preds = stack[i].preds \ {p})
  BY <1>5, <1>7 DEF n
<1>9. \A i \in 1 .. n : i < n => i + 1 \in 1 .. n
  BY <1>3
<1>10. \A i \in 1 .. n : Awaited(i)' = Awaited(i)
  BY <1>5, <1>8, <1>9 DEF Awaited, n
<1>11. ASSUME NEW i \in 1 .. n PROVE TakenClean(i)'
  <2>1. TakenClean(i)
    BY <1>1, <1>3
  <2>2. stack'[i].bb = stack[i].bb /\ Awaited(i)' = Awaited(i) /\ fn' = fn
    BY <1>2, <1>8, <1>10
  <2>3. CASE stack'[i].preds = stack[i].preds
    BY <2>1, <2>2, <2>3 DEF TakenClean
  <2>4. CASE i = n /\ stack'[i].preds = stack[i].preds \ {p}
    BY <1>6, <2>1, <2>2, <2>4 DEF TakenClean, n
  <2> QED BY <1>8, <2>3, <2>4
<1> QED BY <1>2, <1>7, <1>11 DEF CleanInv

LEMMA FollowClean == IInv /\ CleanInv /\ FollowPred => CleanInv'
<1> SUFFICES ASSUME IInv, CleanInv, FollowPred PROVE CleanInv'
  OBVIOUS
<1> DEFINE n == Len(stack)
           b == stack[n].bb
<1>1. TypeOK /\ \A i \in DOMAIN stack : TakenClean(i)
  BY DEF IInv, CleanInv
<1>2. pc = "walk" /\ stack # <<>> /\ UNCHANGED <<fn, at, pc, path, report>>
  BY <1>1 DEF FollowPred, TypeOK
<1>3. n \in Nat \ {0} /\ DOMAIN stack = 1 .. n /\ Top = stack[n]
  BY <1>1, <1>2, StackFacts
<1>4. PICK p \in Blocks(fn) :
        stack' = Append([stack EXCEPT ![Len(stack)].preds = @ \ {p},
                                      ![Len(stack)].edge = EdgeConstraint(fn, Top.bb, p)],
                        Activation(p))
  BY DEF FollowPred
<1> DEFINE c == EdgeConstraint(fn, Top.bb, p)
<1>5. /\ stack' \in Seq(Activations) /\ Len(stack') = n + 1
      /\ \A i \in 1 .. n - 1 : stack'[i] = stack[i]
      /\ stack'[n].bb = b
      /\ stack'[n].preds = stack[n].preds \ {p}
      /\ stack'[n + 1] = Activation(p)
  <2>1. c \in SUBSET Valuations(fn)
    BY DEF EdgeConstraint
  <2>2. stack' = Append([stack EXCEPT ![Len(stack)].preds = @ \ {p}, ![Len(stack)].edge = c], Activation(p))
    BY <1>4, Zenon
  <2> HIDE DEF c
  <2> DEFINE s == Append([stack EXCEPT ![Len(stack)].preds = @ \ {p}, ![Len(stack)].edge = c], Activation(p))
  <2>3. /\ s \in Seq(Activations) /\ Len(s) = n + 1
        /\ \A i \in 1 .. n - 1 : s[i] = stack[i]
        /\ s[n].bb = b
        /\ s[n].preds = stack[n].preds \ {p}
        /\ s[n + 1] = Activation(p)
    BY <1>1, <1>2, <2>1, PushPredecessor, Zenon
  <2>4. stack' = s
    BY <2>2, Zenon
  <2> HIDE DEF s
  <2> QED BY <2>3, <2>4
<1> HIDE <1>4
<1> HIDE DEF n
<1>6. stack'[n + 1].bb = p /\ stack'[n + 1].preds = Predecessors(fn, p)
  BY <1>5, ActivationType
<1>7. /\ DOMAIN stack' = 1 .. n + 1
      /\ \A i \in 1 .. n + 1 : i = n + 1 \/ i = n \/ i \in 1 .. n - 1
      /\ \A i \in 1 .. n - 1 : i \in 1 .. n /\ i < n /\ i < n + 1 /\ (i + 1 = n \/ i + 1 \in 1 .. n - 1)
      /\ n \in 1 .. n /\ n < n + 1 /\ ~(n < n) /\ ~(n + 1 < n + 1)
  BY <1>3, <1>5, LenProperties
<1>8. ASSUME NEW i \in 1 .. n - 1 PROVE TakenClean(i)'
  <2>1. TakenClean(i) /\ stack'[i] = stack[i] /\ fn' = fn
    BY <1>1, <1>2, <1>3, <1>5, <1>7
  <2>2. stack'[i + 1].bb = stack[i + 1].bb
    BY <1>5, <1>7
  <2>3. Awaited(i)' = Awaited(i)
    BY <1>5, <1>7, <2>2 DEF Awaited, n
  <2> QED BY <2>1, <2>3 DEF TakenClean
<1>9. ASSUME NEW i, i = n PROVE TakenClean(i)'
  <2>1. TakenClean(i) /\ fn' = fn
    BY <1>1, <1>2, <1>3, <1>7, <1>9
  <2>2. Awaited(i)' = {p} /\ Awaited(i) = {}
    BY <1>5, <1>6, <1>7, <1>9 DEF Awaited, n
  <2>3. stack'[i].bb = stack[i].bb /\ stack'[i].preds = stack[i].preds \ {p}
    BY <1>5, <1>9
  <2> QED BY <2>1, <2>2, <2>3 DEF TakenClean
<1>10. ASSUME NEW i, i = n + 1 PROVE TakenClean(i)'
  BY <1>2, <1>6, <1>10 DEF TakenClean
<1>11. \A i \in 1 .. n + 1 : TakenClean(i)'
  BY <1>7, <1>8, <1>9, <1>10
<1> QED BY <1>2, <1>7, <1>11 DEF CleanInv

LEMMA VisitClean == IInv /\ CleanInv /\ VisitCheck => CleanInv'
<1> SUFFICES ASSUME IInv, VisitCheck PROVE CleanInv'
  OBVIOUS
<1> DEFINE b == Call.block
<1>1. pc' = "walk" /\ fn' = fn /\ stack' = <<Activation(b)>>
  BY DEF VisitCheck
<1>2. fn \in Functions /\ b \in Blocks(fn)
  BY FunctionFacts DEF VisitCheck, IInv, TypeOK, Call
<1>3. Activation(b).bb = b /\ Activation(b).preds = Predecessors(fn, b)
  BY <1>2, ActivationType
<1> HIDE DEF b
<1>4. DOMAIN stack' = {1} /\ stack'[1] = Activation(b)
  BY <1>1
<1>5. TakenClean(1)'
  BY <1>1, <1>3, <1>4 DEF TakenClean
<1> QED BY <1>1, <1>4, <1>5 DEF CleanInv

LEMMA CleanStep == IInv /\ CleanInv /\ [Next]_vars => CleanInv'
<1> SUFFICES ASSUME IInv, CleanInv, [Next]_vars PROVE CleanInv'
  OBVIOUS
<1>1. TypeOK /\ fn \in Functions
  BY DEF IInv, TypeOK
<1>2. CASE VisitOther \/ Finish \/ StackOverflow \/ Solve \/ Abort \/ UNCHANGED vars
  BY <1>2, CleanUnchanged DEF VisitOther, Finish, StackOverflow, Solve, Abort, vars
<1>3. CASE ReturnTrue
  <2>1. pc = "walk" /\ Top.bb = 1 /\ Return(Valuations(fn)) /\ UNCHANGED <<fn, at, report>>
    BY <1>3 DEF ReturnTrue
  <2> QED BY <2>1, TopClean, ReturnClean
<1>4. CASE ReturnUnion
  <2>1. pc = "walk" /\ Top.preds = {} /\ Return(Top.union) /\ UNCHANGED <<fn, at, report>>
    BY <1>4 DEF ReturnUnion
  <2>2. Top.union \in SUBSET Valuations(fn)
    <3>1. stack # <<>>
      BY <1>1, <2>1 DEF TypeOK
    <3> QED BY <1>1, <3>1, StackFacts
  <2> QED BY <2>1, <2>2, TopClean, ReturnClean
<1> QED
  BY <1>2, <1>3, <1>4, SkipClean, FollowClean, VisitClean DEF Next, Step

-----------------------------------------------------------------------------
(***************************************************************************)
(* The translation of values.  A rank goes up from operands to the value   *)
(* that is computed from them, and stays below a limit.                    *)
(***************************************************************************)
Ranks(f, rank, limit) ==
  /\ limit \in Nat
  /\ rank \in [DOMAIN f.values -> 0 .. limit - 1]
  /\ \A v \in DOMAIN f.values : \A w \in OperandsOf(f.values[v]) :
       w \in DOMAIN f.values /\ rank[w] < rank[v]

(***************************************************************************)
(* The place of a value in the order is a rank: its operands have less.    *)
(***************************************************************************)
LEMMA RanksExist ==
  ASSUME NEW f \in Functions
  PROVE  \E rank : \E limit : Ranks(f, rank, limit)
<1> DEFINE D == DOMAIN f.values
           o == f.order
           limit == Len(o) + 1
           Places(v) == {n \in DOMAIN o : o[n] = v}
           First(v) == CHOOSE n \in Places(v) : \A m \in Places(v) : n <= m
           rank == [v \in D |-> First(v)]
<1>1. /\ o \in Seq(D) /\ ToSet(o) = D
      /\ \A n \in DOMAIN o : \A w \in OperandsOf(f.values[o[n]]) : \E m \in 1 .. n - 1 : o[m] = w
  BY FunctionsAssumption, Zenon DEF WellFormed, WellOrdered
<1>2. Len(o) \in Nat /\ DOMAIN o = 1 .. Len(o) /\ \A n \in DOMAIN o : o[n] \in D
  <2> HIDE DEF o, D
  <2> QED BY <1>1
<1>3. ASSUME NEW v \in D
      PROVE  First(v) \in Places(v) /\ \A m \in Places(v) : First(v) <= m
  <2>1. Places(v) # {} /\ Places(v) \in SUBSET Nat
    <3>1. v \in ToSet(o)
      BY <1>1
    <3>2. ToSet(o) = {o[n] : n \in DOMAIN o}
      BY Zenon DEF ToSet
    <3> HIDE DEF o, D
    <3> QED BY <1>2, <3>1, <3>2
  <2> HIDE DEF Places
  <2>2. \E n \in Places(v) : \A m \in Places(v) : n <= m
    BY <2>1, LeastNat
  <2> QED BY <2>2, Zenon
<1>4. ASSUME NEW v \in D, NEW w \in OperandsOf(f.values[v])
      PROVE  w \in D /\ First(w) < First(v)
  <2>1. First(v) \in DOMAIN o /\ o[First(v)] = v
    <3> HIDE DEF First
    <3> QED BY <1>3, Zenon
  <2> HIDE DEF First
  <2>2. PICK m \in 1 .. First(v) - 1 : o[m] = w
    BY <1>1, <2>1, Zenon
  <2> HIDE DEF o, D
  <2>3. m \in DOMAIN o /\ m < First(v)
    BY <1>2, <2>1, <2>2
  <2>4. w \in D /\ m \in Places(w)
    BY <1>2, <2>2, <2>3
  <2>5. First(w) \in Places(w) /\ First(w) <= m
    BY <1>3, <2>4, Zenon
  <2> QED BY <1>2, <2>1, <2>3, <2>4, <2>5
<1>5. rank \in [D -> 0 .. limit - 1] /\ limit \in Nat /\ \A v \in D : rank[v] = First(v)
  <2> HIDE DEF First, o, D
  <2>1. \A v \in D : First(v) \in 0 .. limit - 1
    BY <1>2, <1>3
  <2> QED BY <1>2, <2>1
<1> HIDE DEF rank, limit, First
<1>6. Ranks(f, rank, limit)
  BY <1>4, <1>5 DEF Ranks
<1> QED BY <1>6

\* Every value has the widths that LLVM demands.
LEMMA TypedValue ==
  ASSUME NEW f \in Functions, NEW v \in DOMAIN f.values
  PROVE  WellTyped(f, f.values[v])
BY FunctionsAssumption, Zenon DEF WellFormed

(***************************************************************************)
(* ValueOf, GetOf, Refused and OperandsOf, one kind of value at a time.    *)
(***************************************************************************)
ValueSteps(f, i, g) ==
  [n \in DOMAIN i.terms |-> i.terms[n].scale * Signed(Bits(f, i.terms[n].index), g[i.terms[n].index])]

GetSteps(i, g) == [n \in DOMAIN i.terms |-> i.terms[n].scale * g[i.terms[n].index]]

LEMMA ByOperation ==
  ASSUME NEW f, NEW sigma, NEW g, NEW v, NEW i, i = f.values[v]
  PROVE  /\ i.op \in Symbolic =>
              /\ OperandsOf(i) = {} /\ ~Refused(f, i)
              /\ ValueOf(f, sigma, g, v) = sigma[v] /\ GetOf(f, sigma, g, v) = sigma[v]
         /\ i.op = "const" =>
              /\ OperandsOf(i) = {} /\ ~Refused(f, i)
              /\ ValueOf(f, sigma, g, v) = i.value /\ GetOf(f, sigma, g, v) = i.value
         /\ i.op \in BinaryOps =>
              /\ OperandsOf(i) = {i.lhs, i.rhs} /\ ~Refused(f, i)
              /\ ValueOf(f, sigma, g, v) = BinaryResult(i.op, i.bits, g[i.lhs], g[i.rhs])
              /\ GetOf(f, sigma, g, v) = GetBinaryOperator(i.op, i.bits, g[i.lhs], g[i.rhs])
         /\ i.op = "icmp" =>
              /\ OperandsOf(i) = {i.lhs, i.rhs} /\ ~Refused(f, i)
              /\ ValueOf(f, sigma, g, v) =
                   IF ICmp(i.pred, Bits(f, i.lhs), g[i.lhs], g[i.rhs]) THEN 1 ELSE 0
              /\ GetOf(f, sigma, g, v) = Bool2BV(ICmp(i.pred, Bits(f, i.lhs), g[i.lhs], g[i.rhs]))
         /\ i.op = "select" =>
              /\ OperandsOf(i) = {i.cond, i.true, i.false} /\ Refused(f, i)
              /\ ValueOf(f, sigma, g, v) = IF g[i.cond] = 1 THEN g[i.true] ELSE g[i.false]
              /\ GetOf(f, sigma, g, v) = g[i.true]
         /\ i.op \in {"bitcast", "trunc", "zext", "sext", "inttoptr", "ptrtoint"} =>
              OperandsOf(i) = {i.src} /\ ~Refused(f, i)
         /\ i.op = "bitcast" =>
              /\ ValueOf(f, sigma, g, v) = g[i.src]
              /\ GetOf(f, sigma, g, v) = IF isAnalyzable(f, i.src) THEN g[i.src] ELSE sigma[i.src]
         /\ i.op \in {"trunc", "zext", "inttoptr", "ptrtoint"} =>
              ValueOf(f, sigma, g, v) = Wrap(i.bits, g[i.src])
         /\ i.op = "trunc" => GetOf(f, sigma, g, v) = Wrap(i.bits, g[i.src])
         /\ i.op = "zext" => GetOf(f, sigma, g, v) = g[i.src]
         /\ i.op = "sext" =>
              /\ ValueOf(f, sigma, g, v) = Wrap(i.bits, Signed(Bits(f, i.src), g[i.src]))
              /\ GetOf(f, sigma, g, v) = BvSExt(Bits(f, i.src), i.bits, g[i.src])
         /\ i.op \in {"inttoptr", "ptrtoint"} =>
              GetOf(f, sigma, g, v) = SResize(g[i.src], Bits(f, i.src), i.bits)
         /\ i.op = "gep" =>
              /\ OperandsOf(i) = {i.base} \cup {i.terms[n].index : n \in DOMAIN i.terms}
              /\ Refused(f, i) <=> \E n \in DOMAIN i.terms : Bits(f, i.terms[n].index) # i.bits
              /\ ValueOf(f, sigma, g, v) =
                   Wrap(i.bits, g[i.base] + i.offset + Total(ValueSteps(f, i, g)))
              /\ GetOf(f, sigma, g, v) =
                   Wrap(i.bits, g[i.base] + (i.offset + Total(GetSteps(i, g))))
<1>1. \A op : /\ op \in Symbolic <=> op = "symbol" \/ op = "undef" \/ op = "float" \/ op = "phi"
              /\ op \in BinaryOps <=> \/ op = "add" \/ op = "sub" \/ op = "mul"
                                      \/ op = "sdiv" \/ op = "srem" \/ op = "udiv" \/ op = "urem"
                                      \/ op = "shl" \/ op = "lshr" \/ op = "ashr"
                                      \/ op = "and" \/ op = "or" \/ op = "xor"
  BY DEF Symbolic, BinaryOps, CheckedOps, OverflowOps, DivOps, SignedDivOps, ShiftOps
<1>2. CASE i.op \in Symbolic
  BY <1>1, <1>2 DEF ValueOf, GetOf, OperandsOf, Refused
<1>3. CASE i.op = "const"
  BY <1>1, <1>3 DEF ValueOf, GetOf, OperandsOf, Refused
<1>4. CASE i.op \in BinaryOps
  BY <1>1, <1>4 DEF ValueOf, GetOf, OperandsOf, Refused
<1>5. CASE i.op = "icmp"
  BY <1>1, <1>5 DEF ValueOf, GetOf, OperandsOf, Refused
<1>6. CASE i.op = "select"
  BY <1>1, <1>6 DEF ValueOf, GetOf, OperandsOf, Refused
<1>7. CASE i.op = "bitcast"
  BY <1>1, <1>7 DEF ValueOf, GetOf, OperandsOf, Refused
<1>8. CASE i.op = "trunc"
  BY <1>1, <1>8 DEF ValueOf, GetOf, OperandsOf, Refused
<1>9. CASE i.op = "zext"
  BY <1>1, <1>9 DEF ValueOf, GetOf, OperandsOf, Refused
<1>10. CASE i.op = "sext"
  BY <1>1, <1>10 DEF ValueOf, GetOf, OperandsOf, Refused
<1>11. CASE i.op \in {"inttoptr", "ptrtoint"}
  BY <1>1, <1>11 DEF ValueOf, GetOf, OperandsOf, Refused
<1>12. CASE i.op = "gep"
  <2>1. /\ i.op # "const" /\ i.op # "icmp" /\ i.op # "select" /\ i.op # "bitcast" /\ i.op # "trunc"
        /\ i.op # "zext" /\ i.op # "sext" /\ i.op \notin {"inttoptr", "ptrtoint"}
        /\ i.op \notin {"trunc", "zext", "inttoptr", "ptrtoint"}
        /\ i.op \notin {"bitcast", "trunc", "zext", "sext", "inttoptr", "ptrtoint"}
        /\ i.op \notin Symbolic /\ i.op \notin BinaryOps /\ i.op \notin Symbolic \cup {"const"}
        /\ i.op \notin BinaryOps \cup {"icmp"}
    BY <1>1, <1>12
  <2>2. OperandsOf(i) = {i.base} \cup {i.terms[n].index : n \in DOMAIN i.terms}
    BY <1>12, <2>1 DEF OperandsOf
  <2>3. Refused(f, i) <=> \E n \in DOMAIN i.terms : Bits(f, i.terms[n].index) # i.bits
    BY <1>12, <2>1 DEF Refused
  <2>4. ValueOf(f, sigma, g, v) = Wrap(i.bits, g[i.base] + i.offset + Total(ValueSteps(f, i, g)))
    BY <1>12, <2>1 DEF ValueOf, ValueSteps
  <2>5. GetOf(f, sigma, g, v) = Wrap(i.bits, g[i.base] + (i.offset + Total(GetSteps(i, g))))
    BY <1>12, <2>1 DEF GetOf, GetSteps
  <2> QED BY <1>12, <2>1, <2>2, <2>3, <2>4, <2>5
<1>13. CASE i.op \notin Symbolic \cup BinaryOps \cup {"const", "icmp", "select", "bitcast", "trunc",
                                                     "zext", "sext", "inttoptr", "ptrtoint", "gep"}
  BY <1>13
<1> QED
  BY <1>2, <1>3, <1>4, <1>5, <1>6, <1>7, <1>8, <1>9, <1>10, <1>11, <1>12, <1>13

\* The kinds of values there are.
LEMMA Kinds ==
  ASSUME NEW f \in Functions, NEW v \in DOMAIN f.values, NEW i, i = f.values[v]
  PROVE  \/ i.op \in Symbolic \/ i.op = "const" \/ i.op \in BinaryOps \/ i.op = "icmp"
         \/ i.op = "select" \/ i.op = "bitcast" \/ i.op = "trunc" \/ i.op = "zext"
         \/ i.op = "sext" \/ i.op \in {"inttoptr", "ptrtoint"} \/ i.op = "gep"
<1>1. WellTyped(f, i)
  BY TypedValue
<1> QED BY <1>1 DEF WellTyped

(***************************************************************************)
(* What is computed for a value depends on its operands only.              *)
(***************************************************************************)
LEMMA OperandsSuffice ==
  ASSUME NEW f \in Functions, NEW sigma, NEW v \in DOMAIN f.values, NEW g, NEW h,
         \A w \in OperandsOf(f.values[v]) : g[w] = h[w]
  PROVE  ValueOf(f, sigma, g, v) = ValueOf(f, sigma, h, v) /\ GetOf(f, sigma, g, v) = GetOf(f, sigma, h, v)
<1> DEFINE i == f.values[v]
<1> HIDE DEF i
<1>1. i = f.values[v] /\ \A w \in OperandsOf(i) : g[w] = h[w]
  BY DEF i
<1>2. CASE i.op \in Symbolic
  BY <1>1, <1>2, ByOperation
<1>3. CASE i.op = "const"
  BY <1>1, <1>3, ByOperation
<1>4. CASE i.op \in BinaryOps
  BY <1>1, <1>4, ByOperation
<1>5. CASE i.op = "icmp"
  BY <1>1, <1>5, ByOperation
<1>6. CASE i.op = "select"
  BY <1>1, <1>6, ByOperation
<1>7. CASE i.op = "bitcast"
  BY <1>1, <1>7, ByOperation
<1>8. CASE i.op = "trunc"
  BY <1>1, <1>8, ByOperation
<1>9. CASE i.op = "zext"
  BY <1>1, <1>9, ByOperation
<1>10. CASE i.op = "sext"
  BY <1>1, <1>10, ByOperation
<1>11. CASE i.op \in {"inttoptr", "ptrtoint"}
  BY <1>1, <1>11, ByOperation
<1>12. CASE i.op = "gep"
  <2>1. OperandsOf(i) = {i.base} \cup {i.terms[n].index : n \in DOMAIN i.terms}
    BY <1>1, <1>12, ByOperation
  <2>2. g[i.base] = h[i.base] /\ \A n \in DOMAIN i.terms : g[i.terms[n].index] = h[i.terms[n].index]
    BY <1>1, <2>1
  <2>3. ValueSteps(f, i, g) = ValueSteps(f, i, h) /\ GetSteps(i, g) = GetSteps(i, h)
    BY <2>2 DEF ValueSteps, GetSteps
  <2> QED BY <1>1, <1>12, <2>2, <2>3, ByOperation
<1> QED
  BY <1>1, <1>2, <1>3, <1>4, <1>5, <1>6, <1>7, <1>8, <1>9, <1>10, <1>11, <1>12, Kinds

(***************************************************************************)
(* The recursive functions have the values they are defined to have: the   *)
(* values of rank below n, for each n, and so all of them.  (The proofs    *)
(* take a recursive function for no more than the choice of a solution.)   *)
(***************************************************************************)
LEMMA ValuesSolved ==
  ASSUME NEW f \in Functions, NEW sigma
  PROVE  Values(f, sigma) = [v \in DOMAIN f.values |-> ValueOf(f, sigma, Values(f, sigma), v)]
<1> DEFINE D == DOMAIN f.values
<1>1. PICK rank, limit : Ranks(f, rank, limit)
  BY RanksExist
<1>2. /\ limit \in Nat /\ \A v \in D : rank[v] \in 0 .. limit - 1
      /\ \A v \in D : \A w \in OperandsOf(f.values[v]) : w \in D /\ rank[w] < rank[v]
  BY <1>1 DEF Ranks
<1> DEFINE Solves(g, n) == /\ g = [v \in D |-> g[v]]
                           /\ \A v \in D : rank[v] < n => g[v] = ValueOf(f, sigma, g, v)
           T == {n \in Nat : \E g : Solves(g, n)}
<1>3. 0 \in T
  <2> DEFINE g == [v \in D |-> 0]
  <2>1. Solves(g, 0)
    BY <1>2
  <2> QED BY <2>1
<1>4. ASSUME NEW n \in Nat, n \in T PROVE n + 1 \in T
  <2>1. PICK g : Solves(g, n)
    BY <1>4
  <2> DEFINE h == [v \in D |-> ValueOf(f, sigma, g, v)]
  <2>2. h = [v \in D |-> h[v]] /\ \A v \in D : h[v] = ValueOf(f, sigma, g, v)
    OBVIOUS
  <2> HIDE DEF h
  <2>3. ASSUME NEW v \in D, rank[v] < n + 1
        PROVE  h[v] = ValueOf(f, sigma, h, v)
    <3>1. \A w \in OperandsOf(f.values[v]) : w \in D /\ rank[w] < n
      <4> HIDE DEF D
      <4> QED BY <1>2, <2>3
    <3>2. \A w \in OperandsOf(f.values[v]) : g[w] = h[w]
      BY <2>1, <2>2, <3>1
    <3>3. ValueOf(f, sigma, g, v) = ValueOf(f, sigma, h, v)
      BY <3>2, OperandsSuffice
    <3> QED BY <2>2, <3>3
  <2>4. Solves(h, n + 1)
    BY <2>2, <2>3
  <2> QED BY <2>4
<1>5. PICK g : Solves(g, limit)
  <2>1. limit \in T
    <3> HIDE DEF T
    <3> QED BY <1>2, <1>3, <1>4, Induction
  <2> QED BY <2>1
<1>6. g = [v \in D |-> ValueOf(f, sigma, g, v)]
  <2>1. \A v \in D : g[v] = ValueOf(f, sigma, g, v)
    BY <1>2, <1>5
  <2> QED BY <1>5, <2>1
<1>7. Values(f, sigma) = CHOOSE val : val = [v \in DOMAIN f.values |-> ValueOf(f, sigma, val, v)]
  BY Zenon DEF Values
<1> QED BY <1>6, <1>7, Zenon

\* What Get returns for a value is what it makes of the results for its operands.
LEMMA GetSolved ==
  ASSUME NEW f \in Functions, NEW sigma
  PROVE  Get(f, sigma) = [v \in DOMAIN f.values |-> GetOf(f, sigma, Get(f, sigma), v)]
<1> DEFINE D == DOMAIN f.values
<1>1. PICK rank, limit : Ranks(f, rank, limit)
  BY RanksExist
<1>2. /\ limit \in Nat /\ \A v \in D : rank[v] \in 0 .. limit - 1
      /\ \A v \in D : \A w \in OperandsOf(f.values[v]) : w \in D /\ rank[w] < rank[v]
  BY <1>1 DEF Ranks
<1> DEFINE Solves(g, n) == /\ g = [v \in D |-> g[v]]
                           /\ \A v \in D : rank[v] < n => g[v] = GetOf(f, sigma, g, v)
           T == {n \in Nat : \E g : Solves(g, n)}
<1>3. 0 \in T
  <2> DEFINE g == [v \in D |-> 0]
  <2>1. Solves(g, 0)
    BY <1>2
  <2> QED BY <2>1
<1>4. ASSUME NEW n \in Nat, n \in T PROVE n + 1 \in T
  <2>1. PICK g : Solves(g, n)
    BY <1>4
  <2> DEFINE h == [v \in D |-> GetOf(f, sigma, g, v)]
  <2>2. h = [v \in D |-> h[v]] /\ \A v \in D : h[v] = GetOf(f, sigma, g, v)
    OBVIOUS
  <2> HIDE DEF h
  <2>3. ASSUME NEW v \in D, rank[v] < n + 1
        PROVE  h[v] = GetOf(f, sigma, h, v)
    <3>1. \A w \in OperandsOf(f.values[v]) : w \in D /\ rank[w] < n
      <4> HIDE DEF D
      <4> QED BY <1>2, <2>3
    <3>2. \A w \in OperandsOf(f.values[v]) : g[w] = h[w]
      BY <2>1, <2>2, <3>1
    <3>3. GetOf(f, sigma, g, v) = GetOf(f, sigma, h, v)
      BY <3>2, OperandsSuffice
    <3> QED BY <2>2, <3>3
  <2>4. Solves(h, n + 1)
    BY <2>2, <2>3
  <2> QED BY <2>4
<1>5. PICK g : Solves(g, limit)
  <2>1. limit \in T
    <3> HIDE DEF T
    <3> QED BY <1>2, <1>3, <1>4, Induction
  <2> QED BY <2>1
<1>6. g = [v \in D |-> GetOf(f, sigma, g, v)]
  <2>1. \A v \in D : g[v] = GetOf(f, sigma, g, v)
    BY <1>2, <1>5
  <2> QED BY <1>5, <2>1
<1>7. Get(f, sigma) = CHOOSE get : get = [v \in DOMAIN f.values |-> GetOf(f, sigma, get, v)]
  BY Zenon DEF Get
<1> QED BY <1>6, <1>7, Zenon

\* A value is untranslatable when Z3 refuses it or one of its operands is.
LEMMA UntranslatableValues ==
  ASSUME NEW f \in Functions
  PROVE  /\ Untranslatable(f) \subseteq DOMAIN f.values
         /\ \A v \in DOMAIN f.values :
              v \in Untranslatable(f) <=>
                Refused(f, f.values[v]) \/ \E w \in OperandsOf(f.values[v]) : w \in Untranslatable(f)
<1> DEFINE D == DOMAIN f.values
           FailsOf(g, v) == Refused(f, f.values[v]) \/ \E w \in OperandsOf(f.values[v]) : g[w]
<1>1. PICK rank, limit : Ranks(f, rank, limit)
  BY RanksExist
<1>2. /\ limit \in Nat /\ \A v \in D : rank[v] \in 0 .. limit - 1
      /\ \A v \in D : \A w \in OperandsOf(f.values[v]) : w \in D /\ rank[w] < rank[v]
  BY <1>1 DEF Ranks
<1> DEFINE Solves(g, n) == /\ g = [v \in D |-> g[v]]
                           /\ \A v \in D : rank[v] < n => g[v] = FailsOf(g, v)
           T == {n \in Nat : \E g : Solves(g, n)}
<1>3. 0 \in T
  <2> DEFINE g == [v \in D |-> 0]
  <2>1. Solves(g, 0)
    BY <1>2
  <2> QED BY <2>1
<1>4. ASSUME NEW n \in Nat, n \in T PROVE n + 1 \in T
  <2>1. PICK g : Solves(g, n)
    BY <1>4
  <2> DEFINE h == [v \in D |-> FailsOf(g, v)]
  <2>2. h = [v \in D |-> h[v]] /\ \A v \in D : h[v] = FailsOf(g, v)
    OBVIOUS
  <2> HIDE DEF h
  <2>3. ASSUME NEW v \in D, rank[v] < n + 1
        PROVE  h[v] = FailsOf(h, v)
    <3>1. \A w \in OperandsOf(f.values[v]) : w \in D /\ rank[w] < n
      <4> HIDE DEF D
      <4> QED BY <1>2, <2>3
    <3>2. \A w \in OperandsOf(f.values[v]) : g[w] = h[w]
      BY <2>1, <2>2, <3>1
    <3>3. FailsOf(g, v) = FailsOf(h, v)
      BY <3>2
    <3> QED BY <2>2, <3>3
  <2>4. Solves(h, n + 1)
    BY <2>2, <2>3
  <2> HIDE DEF Solves
  <2> QED BY <2>4
<1>5. PICK g : Solves(g, limit)
  <2>1. limit \in T
    <3> HIDE DEF T
    <3> QED BY <1>2, <1>3, <1>4, Induction
  <2> QED BY <2>1
<1>6. g = [v \in D |-> FailsOf(g, v)]
  <2>1. \A v \in D : g[v] = FailsOf(g, v)
    BY <1>2, <1>5
  <2> QED BY <1>5, <2>1
<1> DEFINE fails == CHOOSE fails : fails = [v \in D |-> FailsOf(fails, v)]
<1>7. fails = [v \in D |-> FailsOf(fails, v)]
  <2> HIDE DEF FailsOf
  <2> QED BY <1>6, Zenon
<1>8. Untranslatable(f) = {v \in D : fails[v]}
  BY Zenon DEF Untranslatable
<1> HIDE DEF fails
<1>9. \A v \in D : fails[v] <=> FailsOf(fails, v)
  BY <1>7
<1>10. \A v \in D : v \in Untranslatable(f) <=> fails[v]
  BY <1>8
<1>11. ASSUME NEW v \in D
       PROVE  v \in Untranslatable(f) <=>
                Refused(f, f.values[v]) \/ \E w \in OperandsOf(f.values[v]) : w \in Untranslatable(f)
  <2>1. \A w \in OperandsOf(f.values[v]) : w \in D
    BY <1>2
  <2> QED BY <1>9, <1>10, <2>1
<1> QED BY <1>8, <1>11

(***************************************************************************)
(* A total is what adding up the numbers one by one leads to.              *)
(***************************************************************************)
LEMMA TotalSolved ==
  ASSUME NEW m \in Nat, NEW s \in [1 .. m -> Int]
  PROVE  \E sum \in [0 .. m -> Int] :
           /\ sum[0] = 0 /\ \A n \in 1 .. m : sum[n] = sum[n - 1] + s[n]
           /\ Total(s) = sum[m]
<1> DEFINE SumOf(g, n) == IF n = 0 THEN 0 ELSE g[n - 1] + s[n]
           Solves(g, n) == /\ g = [k \in 0 .. m |-> g[k]]
                           /\ \A k \in 0 .. m : k < n => g[k] \in Int /\ g[k] = SumOf(g, k)
           T == {n \in Nat : \E g : Solves(g, n)}
<1>1. 0 \in T
  <2> DEFINE g == [k \in 0 .. m |-> 0]
  <2>1. Solves(g, 0)
    OBVIOUS
  <2> HIDE DEF Solves
  <2> QED BY <2>1
<1>2. ASSUME NEW n \in Nat, n \in T PROVE n + 1 \in T
  <2>1. PICK g : Solves(g, n)
    BY <1>2
  <2> DEFINE h == [k \in 0 .. m |-> SumOf(g, k)]
  <2>2. h = [k \in 0 .. m |-> h[k]] /\ \A k \in 0 .. m : h[k] = SumOf(g, k)
    OBVIOUS
  <2> HIDE DEF h
  <2>3. ASSUME NEW k \in 0 .. m, k < n + 1
        PROVE  h[k] \in Int /\ h[k] = SumOf(h, k)
    <3>1. CASE k = 0
      BY <2>2, <3>1
    <3>2. CASE k # 0
      <4>1. k - 1 \in 0 .. m /\ k - 1 < n /\ k \in 1 .. m
        BY <2>3, <3>2
      <4>2. g[k - 1] \in Int /\ g[k - 1] = SumOf(g, k - 1) /\ h[k - 1] = SumOf(g, k - 1)
        BY <2>1, <2>2, <4>1
      <4>3. h[k - 1] = g[k - 1]
        <5> HIDE DEF SumOf
        <5> QED BY <4>2
      <4>4. h[k] = g[k - 1] + s[k] /\ s[k] \in Int
        BY <2>2, <3>2, <4>1
      <4> QED BY <3>2, <4>2, <4>3, <4>4
    <3> QED BY <3>1, <3>2
  <2>4. Solves(h, n + 1)
    BY <2>2, <2>3
  <2> HIDE DEF Solves
  <2> QED BY <2>4
<1>3. PICK g : Solves(g, m + 1)
  <2> HIDE DEF T
  <2>1. m + 1 \in T
    BY <1>1, <1>2, Induction
  <2> QED BY <2>1 DEF T
<1>4. \A k \in 0 .. m : g[k] \in Int /\ g[k] = SumOf(g, k)
  <2> HIDE DEF SumOf
  <2>1. \A k \in 0 .. m : k < m + 1
    OBVIOUS
  <2> QED BY <1>3, <2>1
<1>5. g = [k \in 0 .. m |-> SumOf(g, k)]
  <2> HIDE DEF SumOf
  <2>1. g = [k \in 0 .. m |-> g[k]]
    BY <1>3
  <2> QED BY <1>4, <2>1
<1> DEFINE partial == CHOOSE sum : sum = [k \in 0 .. m |-> SumOf(sum, k)]
<1>6. partial = [k \in 0 .. m |-> SumOf(partial, k)]
  <2> HIDE DEF SumOf
  <2> QED BY <1>5, Zenon
<1>7. Len(s) = m
  OBVIOUS
<1>8. Total(s) = partial[m]
  <2>1. Total(s) = (CHOOSE sum : sum = [n \in 0 .. Len(s) |-> IF n = 0 THEN 0 ELSE sum[n - 1] + s[n]])[Len(s)]
    BY Zenon DEF Total
  <2> QED BY <1>7, <2>1, Zenon
<1> HIDE DEF partial
<1>9. \A k \in 0 .. m : partial[k] = IF k = 0 THEN 0 ELSE partial[k - 1] + s[k]
  BY <1>6
<1> DEFINE U == {k \in Nat : k <= m => partial[k] \in Int}
<1>10. 0 \in U
  BY <1>9
<1>11. ASSUME NEW k \in Nat, k \in U PROVE k + 1 \in U
  <2>1. SUFFICES ASSUME k + 1 <= m PROVE partial[k + 1] \in Int
    OBVIOUS
  <2>2. k + 1 \in 0 .. m /\ k + 1 # 0 /\ (k + 1) - 1 = k /\ k + 1 \in 1 .. m /\ k <= m
    BY <2>1
  <2>3. partial[k + 1] = partial[k] + s[k + 1]
    BY <1>9, <2>2
  <2>4. partial[k] \in Int /\ s[k + 1] \in Int
    BY <1>11, <2>2
  <2> QED BY <2>3, <2>4
<1>12. \A k \in 0 .. m : partial[k] \in Int
  <2>1. Nat \subseteq U
    <3> HIDE DEF U
    <3> QED BY <1>10, <1>11, Induction
  <2> QED BY <2>1
<1>13. partial \in [0 .. m -> Int]
  <2>1. partial = [k \in 0 .. m |-> partial[k]]
    <3> HIDE DEF SumOf
    <3>1. DOMAIN partial = 0 .. m /\ \A k \in 0 .. m : partial[k] = SumOf(partial, k)
      BY <1>6
    <3> QED BY <1>6, <3>1
  <2> QED BY <1>12, <2>1
<1>14. partial[0] = 0 /\ \A n \in 1 .. m : partial[n] = partial[n - 1] + s[n]
  BY <1>9
<1> HIDE DEF U
<1> QED BY <1>8, <1>13, <1>14

(***************************************************************************)
(* Numbers that differ by multiples of a number have totals that do.       *)
(***************************************************************************)
LEMMA TotalsAgree ==
  ASSUME NEW m \in Nat, NEW size \in Nat \ {0},
         NEW s \in [1 .. m -> Int], NEW t \in [1 .. m -> Int], NEW c \in [1 .. m -> Int],
         \A n \in 1 .. m : s[n] = t[n] - (c[n] * size)
  PROVE  Total(s) \in Int /\ Total(t) \in Int /\ \E d \in Int : Total(s) = Total(t) - (d * size)
<1>1. PICK sum \in [0 .. m -> Int] : /\ sum[0] = 0 /\ \A n \in 1 .. m : sum[n] = sum[n - 1] + s[n]
                                     /\ Total(s) = sum[m]
  BY TotalSolved
<1>2. PICK tum \in [0 .. m -> Int] : /\ tum[0] = 0 /\ \A n \in 1 .. m : tum[n] = tum[n - 1] + t[n]
                                     /\ Total(t) = tum[m]
  BY TotalSolved
<1> DEFINE T == {n \in Nat : n <= m => \E d \in Int : sum[n] = tum[n] - (d * size)}
<1>3. 0 \in T
  <2>1. sum[0] = tum[0] - (0 * size)
    BY <1>1, <1>2
  <2>2. \E d \in Int : sum[0] = tum[0] - (d * size)
    <3> WITNESS 0 \in Int
    <3> QED BY <2>1
  <2> QED BY <2>2, Zenon
<1>4. ASSUME NEW n \in Nat, n \in T PROVE n + 1 \in T
  <2> SUFFICES ASSUME n + 1 <= m
               PROVE  \E d \in Int : sum[n + 1] = tum[n + 1] - (d * size)
    OBVIOUS
  <2>1. n \in 0 .. m /\ n + 1 \in 1 .. m /\ (n + 1) - 1 = n
    OBVIOUS
  <2>2. PICK d \in Int : sum[n] = tum[n] - (d * size)
    BY <1>4, <2>1
  <2> DEFINE k == n + 1
  <2>3. /\ sum[k] = sum[n] + s[k] /\ tum[k] = tum[n] + t[k] /\ s[k] = t[k] - (c[k] * size)
        /\ c[k] \in Int /\ sum[n] \in Int /\ tum[n] \in Int /\ s[k] \in Int /\ t[k] \in Int
    BY <1>1, <1>2, <2>1
  <2> DEFINE e == c[k]
  <2>4. (d + e) * size = (d * size) + (e * size) /\ e \in Int /\ d * size \in Int /\ e * size \in Int
    <3>1. e \in Int
      BY <2>3
    <3> HIDE DEF e
    <3> QED BY <3>1
  <2>5. sum[k] = tum[k] - ((d + e) * size)
    <3> DEFINE p == d * size
               q == e * size
               r == (d + e) * size
    <3>1. r = p + q /\ p \in Int /\ q \in Int /\ sum[n] = tum[n] - p /\ s[k] = t[k] - q
      BY <2>2, <2>3, <2>4
    <3>2. /\ sum[k] = sum[n] + s[k] /\ tum[k] = tum[n] + t[k]
          /\ sum[n] \in Int /\ tum[n] \in Int /\ s[k] \in Int /\ t[k] \in Int
      BY <2>3
    <3> HIDE DEF k, p, q, r
    <3>3. \A u, w, x, y \in Int : u = w - p /\ x = y - q => u + x = (w + y) - (p + q)
      BY <3>1
    <3>4. sum[k] = tum[k] - r
      BY <3>1, <3>2, <3>3
    <3> QED BY <3>4 DEF r
  <2>6. d + e \in Int
    BY <2>4
  <2> HIDE DEF e
  <2> QED BY <2>5, <2>6
<1>5. m \in T
  <2> HIDE DEF T
  <2> QED BY <1>3, <1>4, Induction
<1>6. \E d \in Int : sum[m] = tum[m] - (d * size)
  BY <1>5
<1> QED BY <1>1, <1>2, <1>6

(***************************************************************************)
(* The cases of the induction: what GetOf makes of the values of the       *)
(* operands is the value, and a number of its width.                       *)
(***************************************************************************)
LEMMA BinaryExact ==
  ASSUME NEW op \in BinaryOps,
         NEW bits \in Nat \ {0}, NEW x \in Domain(bits), NEW y \in Domain(bits)
  PROVE  /\ GetBinaryOperator(op, bits, x, y) = BinaryResult(op, bits, x, y)
         /\ GetBinaryOperator(op, bits, x, y) \in Domain(bits)
<1> DEFINE quotient == Quotient(Signed(bits, x), Signed(bits, y))
<1>1. /\ BvUDiv(bits, x, y) \in Domain(bits) /\ BvURem(x, y) \in Domain(bits)
      /\ BvSDiv(bits, x, y) \in Domain(bits) /\ BvSRem(bits, x, y) \in Domain(bits)
  BY SolverDivisionType
<1>2. DivUndefined(op, bits, x, y) \in BOOLEAN
  BY DEF DivUndefined
<1>3. ~DivUndefined(op, bits, x, y) => y # 0
  BY DEF DivUndefined
<1>4. CASE op = "udiv"
  <2>1. GetBinaryOperator(op, bits, x, y) = BvUDiv(bits, x, y)
    BY <1>4 DEF GetBinaryOperator, DivOps, SignedDivOps
  <2>2. Result(op, bits, x, y) = x \div y
    BY <1>4 DEF Result, OverflowOps
  <2>3. BinaryResult(op, bits, x, y) =
          IF DivUndefined(op, bits, x, y) THEN BvUDiv(bits, x, y) ELSE x \div y
    BY <1>2, <1>4, <2>2 DEF BinaryResult, DivOps
  <2>4. y # 0 => BvUDiv(bits, x, y) = x \div y
    BY DEF BvUDiv
  <2> QED BY <1>1, <1>3, <2>1, <2>3, <2>4
<1>5. CASE op = "urem"
  <2>1. GetBinaryOperator(op, bits, x, y) = BvURem(x, y)
    BY <1>5 DEF GetBinaryOperator, DivOps, SignedDivOps
  <2>2. Result(op, bits, x, y) = x % y
    BY <1>5 DEF Result, OverflowOps
  <2>3. BinaryResult(op, bits, x, y) =
          IF DivUndefined(op, bits, x, y) THEN BvURem(x, y) ELSE x % y
    BY <1>2, <1>5, <2>2 DEF BinaryResult, DivOps
  <2>4. y # 0 => BvURem(x, y) = x % y
    BY DEF BvURem
  <2> QED BY <1>1, <1>3, <2>1, <2>3, <2>4
<1>6. CASE op = "sdiv"
  <2>1. GetBinaryOperator(op, bits, x, y) = BvSDiv(bits, x, y)
    BY <1>6 DEF GetBinaryOperator, DivOps, SignedDivOps
  <2>2. Result(op, bits, x, y) = Wrap(bits, quotient)
    BY <1>6 DEF Result, OverflowOps
  <2> HIDE DEF quotient
  <2>3. BinaryResult(op, bits, x, y) =
          IF DivUndefined(op, bits, x, y) THEN BvSDiv(bits, x, y) ELSE Wrap(bits, quotient)
    BY <1>2, <1>6, <2>2 DEF BinaryResult, DivOps, SignedDivOps
  <2>4. y # 0 => BvSDiv(bits, x, y) = Wrap(bits, quotient)
    BY SignedDivisionsAgree DEF quotient
  <2> QED BY <1>1, <1>3, <2>1, <2>3, <2>4
<1>7. CASE op = "srem"
  <2> DEFINE rest == Wrap(bits, Signed(bits, x) - quotient * Signed(bits, y))
  <2>1. GetBinaryOperator(op, bits, x, y) = BvSRem(bits, x, y)
    BY <1>7 DEF GetBinaryOperator, DivOps, SignedDivOps
  <2>2. Result(op, bits, x, y) = rest
    BY <1>7 DEF Result, OverflowOps
  <2>3. y # 0 => BvSRem(bits, x, y) = rest
    BY SignedDivisionsAgree
  <2> HIDE DEF quotient, rest
  <2>4. BinaryResult(op, bits, x, y) =
          IF DivUndefined(op, bits, x, y) THEN BvSRem(bits, x, y) ELSE rest
    BY <1>2, <1>7, <2>2 DEF BinaryResult, DivOps, SignedDivOps
  <2> QED BY <1>1, <1>3, <2>1, <2>3, <2>4
<1>8. CASE op \notin DivOps
  <2>1. op # "udiv" /\ op # "sdiv" /\ op # "urem" /\ op # "srem"
    BY <1>8 DEF DivOps, SignedDivOps
  <2>2. GetBinaryOperator(op, bits, x, y) = Result(op, bits, x, y)
    BY <1>8, <2>1 DEF GetBinaryOperator
  <2>3. BinaryResult(op, bits, x, y) = Result(op, bits, x, y)
    BY <1>8 DEF BinaryResult
  <2> QED BY <1>8, <2>2, <2>3, ResultType
<1> QED BY <1>4, <1>5, <1>6, <1>7, <1>8 DEF DivOps, SignedDivOps

(***************************************************************************)
(* An index counts with its sign in LLVM and without one in the product    *)
(* of Z3; the offsets differ by multiples of the size of a pointer.        *)
(***************************************************************************)
LEMMA OffsetExact ==
  ASSUME NEW f, NEW i, NEW g, NEW V, i.bits \in Nat \ {0},
         i.terms \in Seq([scale : Int, index : V]),
         \A n \in DOMAIN i.terms : /\ Bits(f, i.terms[n].index) = i.bits
                                   /\ g[i.terms[n].index] \in Domain(i.bits),
         NEW base \in Int, NEW offset \in Int
  PROVE  /\ Wrap(i.bits, base + (offset + Total(GetSteps(i, g)))) =
              Wrap(i.bits, base + offset + Total(ValueSteps(f, i, g)))
         /\ Wrap(i.bits, base + (offset + Total(GetSteps(i, g)))) \in Domain(i.bits)
<1> DEFINE size == 2^i.bits
           m == Len(i.terms)
           Index(n) == g[i.terms[n].index]
           Scale(n) == i.terms[n].scale
           s == ValueSteps(f, i, g)
           t == GetSteps(i, g)
           c == [n \in 1 .. m |-> IF 2 * Index(n) >= size THEN Scale(n) ELSE 0]
<1>1. size \in Nat \ {0}
  BY PowerOfTwo
<1>2. m \in Nat /\ DOMAIN i.terms = 1 .. m
  OBVIOUS
<1>3. ASSUME NEW n \in 1 .. m
      PROVE  /\ Index(n) \in Int /\ Scale(n) \in Int
             /\ Signed(Bits(f, i.terms[n].index), Index(n)) =
                  IF 2 * Index(n) >= size THEN Index(n) - size ELSE Index(n)
  <2>1. Bits(f, i.terms[n].index) = i.bits /\ Index(n) \in Domain(i.bits)
    BY <1>2
  <2>2. Index(n) \in 0 .. size - 1
    <3> HIDE DEF Index
    <3> QED BY <2>1 DEF Domain
  <2>3. Scale(n) \in Int
    <3> DEFINE Terms == [scale : Int, index : V]
               ts == i.terms
    <3>1. ts \in Seq(Terms) /\ n \in DOMAIN ts
      BY <1>2
    <3> HIDE DEF Terms, ts
    <3>2. ts[n] \in Terms
      BY <3>1
    <3> QED BY <3>2 DEF Terms, ts
  <2>4. Signed(Bits(f, i.terms[n].index), Index(n)) =
          IF 2 * Index(n) >= size THEN Index(n) - size ELSE Index(n)
    <3> HIDE DEF Index
    <3> QED BY <2>1, Zenon DEF Signed
  <2> HIDE DEF Index, Scale, size
  <2> QED BY <1>1, <2>2, <2>3, <2>4
<1>4. /\ s = [n \in 1 .. m |-> Scale(n) * Signed(Bits(f, i.terms[n].index), Index(n))]
      /\ t = [n \in 1 .. m |-> Scale(n) * Index(n)]
  BY <1>2, Zenon DEF ValueSteps, GetSteps
<1> HIDE DEF Index, Scale, size, s, t, m
<1>5. ASSUME NEW n \in 1 .. m
      PROVE  s[n] \in Int /\ t[n] \in Int /\ c[n] \in Int /\ s[n] = t[n] - (c[n] * size)
  <2>1. t[n] = Scale(n) * Index(n) /\ t[n] \in Int
    BY <1>3, <1>4
  <2>2. CASE 2 * Index(n) >= size
    <3>1. s[n] = Scale(n) * (Index(n) - size) /\ c[n] = Scale(n)
      BY <1>3, <1>4, <2>2
    <3>2. Scale(n) * (Index(n) - size) = (Scale(n) * Index(n)) - (Scale(n) * size)
      BY <1>1, <1>3
    <3> QED BY <1>1, <1>3, <2>1, <3>1, <3>2
  <2>3. CASE ~(2 * Index(n) >= size)
    <3>1. s[n] = Scale(n) * Index(n) /\ c[n] = 0
      BY <1>3, <1>4, <2>3
    <3> QED BY <1>1, <1>3, <2>1, <3>1
  <2> QED BY <2>2, <2>3
<1>6. s \in [1 .. m -> Int] /\ t \in [1 .. m -> Int] /\ c \in [1 .. m -> Int]
  <2>1. DOMAIN s = 1 .. m /\ DOMAIN t = 1 .. m /\ DOMAIN c = 1 .. m
    BY <1>4
  <2>2. s = [n \in 1 .. m |-> s[n]] /\ t = [n \in 1 .. m |-> t[n]] /\ c = [n \in 1 .. m |-> c[n]]
    BY <1>4
  <2> HIDE DEF c
  <2> QED BY <1>5, <2>2
<1>7. Total(s) \in Int /\ Total(t) \in Int /\ \E d \in Int : Total(s) = Total(t) - (d * size)
  <2> HIDE DEF c
  <2> QED BY <1>1, <1>2, <1>5, <1>6, TotalsAgree
<1>8. PICK d \in Int : Total(s) = Total(t) - (d * size)
  BY <1>7
<1> DEFINE z == base + (offset + Total(t))
<1>9. z \in Int
  BY <1>7
<1>10. base + offset + Total(s) = z - (d * size)
  <2> DEFINE p == d * size
  <2>1. p \in Int /\ Total(s) = Total(t) - p
    BY <1>1, <1>8
  <2> HIDE DEF p
  <2>2. base + offset + Total(s) = z - p
    BY <1>7, <2>1
  <2> QED BY <2>2 DEF p
<1> HIDE DEF z
<1>11. Wrap(i.bits, z - (d * size)) = Wrap(i.bits, z) /\ Wrap(i.bits, z) \in Domain(i.bits)
  <2> DEFINE b == i.bits
  <2>1. b \in Nat
    OBVIOUS
  <2> HIDE DEF b
  <2>2. Wrap(b, z - (d * 2^b)) = Wrap(b, z) /\ Wrap(b, z) \in Domain(b)
    BY <1>9, <2>1, WrapMultiple, WrapIdentity
  <2> QED BY <2>2 DEF b, size
<1> QED BY <1>10, <1>11 DEF z, s, t

\* Get is exact for a value if it is exact for the operands.
LEMMA ValueExact ==
  ASSUME NEW f \in Functions, ~WidensPointer(f), NEW sigma \in Valuations(f),
         NEW v \in DOMAIN f.values, ~Refused(f, f.values[v]), NEW g,
         \A w \in OperandsOf(f.values[v]) : /\ g[w] \in Domain(Bits(f, w))
                                            /\ w \in Symbols(f) => g[w] = sigma[w]
  PROVE  /\ GetOf(f, sigma, g, v) = ValueOf(f, sigma, g, v)
         /\ GetOf(f, sigma, g, v) \in Domain(Bits(f, v))
<1> DEFINE i == f.values[v]
<1> HIDE DEF i
<1>1. /\ i = f.values[v] /\ ~Refused(f, i) /\ Bits(f, v) = i.bits
      /\ \A w \in OperandsOf(i) : /\ g[w] \in Domain(Bits(f, w))
                                  /\ w \in Symbols(f) => g[w] = sigma[w]
  BY DEF i, Bits
<1>2. WellTyped(f, i)
  BY TypedValue DEF i
<1>3. i.bits \in Nat \ {0}
  BY <1>2 DEF WellTyped
<1>4. \A w \in OperandsOf(i) : w \in DOMAIN f.values
  <2>1. PICK rank, limit : Ranks(f, rank, limit)
    BY RanksExist
  <2> QED BY <1>1, <2>1, Zenon DEF Ranks
<1>5. \A w \in OperandsOf(i) : Bits(f, w) \in Nat \ {0}
  <2>1. \A w \in DOMAIN f.values : WellTyped(f, f.values[w])
    BY TypedValue
  <2> QED BY <1>4, <2>1 DEF WellTyped, Bits
<1>6. CASE i.op \in Symbolic
  <2>1. v \in Symbols(f)
    BY <1>1, <1>6 DEF Symbols
  <2>2. sigma[v] \in Domain(Bits(f, v))
    BY <2>1 DEF Valuations
  <2> QED BY <1>1, <1>6, <2>2, ByOperation
<1>7. CASE i.op = "const"
  <2>1. i.value \in Domain(i.bits)
    BY <1>2, <1>7 DEF WellTyped, Symbolic, BinaryOps, CheckedOps, OverflowOps, DivOps, SignedDivOps, ShiftOps
  <2> QED BY <1>1, <1>7, <2>1, ByOperation
<1>8. CASE i.op \in BinaryOps
  <2>1. Bits(f, i.lhs) = i.bits /\ Bits(f, i.rhs) = i.bits
    BY <1>2, <1>8 DEF WellTyped, Symbolic, BinaryOps, CheckedOps, OverflowOps, DivOps, SignedDivOps, ShiftOps
  <2>2. /\ i.lhs \in OperandsOf(i) /\ i.rhs \in OperandsOf(i)
        /\ ValueOf(f, sigma, g, v) = BinaryResult(i.op, i.bits, g[i.lhs], g[i.rhs])
        /\ GetOf(f, sigma, g, v) = GetBinaryOperator(i.op, i.bits, g[i.lhs], g[i.rhs])
    BY <1>1, <1>8, ByOperation
  <2>3. g[i.lhs] \in Domain(i.bits) /\ g[i.rhs] \in Domain(i.bits)
    BY <1>1, <2>1, <2>2
  <2> QED BY <1>1, <1>3, <1>8, <2>2, <2>3, BinaryExact
<1>9. CASE i.op = "icmp"
  <2> DEFINE c == ICmp(i.pred, Bits(f, i.lhs), g[i.lhs], g[i.rhs])
  <2>1. i.bits = 1
    BY <1>2, <1>9 DEF WellTyped, Symbolic, BinaryOps, CheckedOps, OverflowOps, DivOps, SignedDivOps, ShiftOps
  <2>2. ValueOf(f, sigma, g, v) = (IF c THEN 1 ELSE 0) /\ GetOf(f, sigma, g, v) = Bool2BV(c)
    BY <1>1, <1>9, ByOperation
  <2> HIDE DEF c
  <2>3. Bool2BV(c) = IF c THEN 1 ELSE 0
    BY DEF Bool2BV
  <2>4. 0 \in Domain(1) /\ 1 \in Domain(1)
    <3>1. 2^(0 + 1) = 2 * 2^0 /\ 0 + 1 = 1
      BY PowerOfTwo
    <3> QED BY <3>1, TwoToTheZero DEF Domain
  <2> QED BY <1>1, <2>1, <2>2, <2>3, <2>4
<1>10. CASE i.op = "select"
  BY <1>1, <1>10, ByOperation
<1> DEFINE x == g[i.src]
           n == Bits(f, i.src)
<1>11. CASE i.op \in {"bitcast", "trunc", "zext", "sext", "inttoptr", "ptrtoint"}
  <2>1. i.src \in OperandsOf(i)
    BY <1>1, <1>11, ByOperation
  <2>2. x \in Domain(n) /\ n \in Nat \ {0} /\ i.src \in DOMAIN f.values
    BY <1>1, <1>4, <1>5, <2>1
  <2>3. x \in Int
    BY <2>2, SignedValue
  <2> HIDE DEF x, n
  <2>4. CASE i.op = "bitcast"
    <3>1. n = i.bits
      BY <1>2, <2>4 DEF n, WellTyped, Symbolic, BinaryOps, CheckedOps, OverflowOps, DivOps, SignedDivOps, ShiftOps
    <3>2. /\ ValueOf(f, sigma, g, v) = x
          /\ GetOf(f, sigma, g, v) = IF isAnalyzable(f, i.src) THEN x ELSE sigma[i.src]
      BY <1>1, <2>4, ByOperation DEF x
    <3>3. ~isAnalyzable(f, i.src) => sigma[i.src] = x
      <4>1. ~isAnalyzable(f, i.src) => i.src \in Symbols(f)
        BY <2>2 DEF isAnalyzable, Symbols, Symbolic
      <4> QED BY <1>1, <2>1, <4>1 DEF x
    <3> QED BY <1>1, <2>2, <3>1, <3>2, <3>3
  <2>5. CASE i.op = "trunc"
    <3>1. ValueOf(f, sigma, g, v) = Wrap(i.bits, x) /\ GetOf(f, sigma, g, v) = Wrap(i.bits, x)
      BY <1>1, <2>5, ByOperation DEF x
    <3> QED BY <1>1, <1>3, <2>3, <3>1, WrapIdentity
  <2>6. CASE i.op = "zext"
    <3>1. n < i.bits
      BY <1>2, <2>6 DEF n, WellTyped, Symbolic, BinaryOps, CheckedOps, OverflowOps, DivOps, SignedDivOps, ShiftOps
    <3>2. ValueOf(f, sigma, g, v) = Wrap(i.bits, x) /\ GetOf(f, sigma, g, v) = x
      BY <1>1, <2>6, ByOperation DEF x
    <3>3. n <= i.bits
      BY <1>3, <2>2, <3>1
    <3>4. Wrap(i.bits, x) = x /\ x \in Domain(i.bits)
      BY <1>3, <2>2, <3>3, Extension
    <3> QED BY <1>1, <3>2, <3>4
  <2>7. CASE i.op = "sext"
    <3>1. n < i.bits
      BY <1>2, <2>7 DEF n, WellTyped, Symbolic, BinaryOps, CheckedOps, OverflowOps, DivOps, SignedDivOps, ShiftOps
    <3>2. /\ ValueOf(f, sigma, g, v) = Wrap(i.bits, Signed(n, x))
          /\ GetOf(f, sigma, g, v) = BvSExt(n, i.bits, x)
      BY <1>1, <2>7, ByOperation DEF x, n
    <3>3. n <= i.bits
      BY <1>3, <2>2, <3>1
    <3>4. BvSExt(n, i.bits, x) = Wrap(i.bits, Signed(n, x)) /\ BvSExt(n, i.bits, x) \in Domain(i.bits)
      BY <1>3, <2>2, <3>3, Extension
    <3> QED BY <1>1, <3>2, <3>4
  <2>8. CASE i.op \in {"inttoptr", "ptrtoint"}
    <3>1. ~(n < i.bits)
      BY <1>1, <2>8 DEF n, WidensPointer
    <3>2. ValueOf(f, sigma, g, v) = Wrap(i.bits, x) /\ GetOf(f, sigma, g, v) = SResize(x, n, i.bits)
      BY <1>1, <2>8, ByOperation DEF x, n
    <3>3. n = i.bits => Wrap(i.bits, x) = x
      BY <1>3, <2>2, <2>3, WrapIdentity
    <3>4. SResize(x, n, i.bits) = Wrap(i.bits, x)
      <4>1. CASE n = i.bits
        BY <1>3, <2>2, <3>3, <4>1 DEF SResize
      <4>2. CASE n # i.bits
        <5>1. n > i.bits /\ ~(n < i.bits)
          BY <1>3, <2>2, <3>1, <4>2
        <5> QED BY <4>2, <5>1 DEF SResize
      <4> QED BY <4>1, <4>2
    <3>5. Wrap(i.bits, x) \in Domain(i.bits)
      BY <1>3, <2>3, WrapIdentity
    <3> QED BY <1>1, <3>2, <3>4, <3>5
  <2> QED BY <1>11, <2>4, <2>5, <2>6, <2>7, <2>8
<1>12. CASE i.op = "gep"
  <2>1. /\ Bits(f, i.base) = i.bits /\ i.offset \in Int
        /\ i.terms \in Seq([scale : Int, index : DOMAIN f.values])
    BY <1>2, <1>12 DEF WellTyped, Symbolic, BinaryOps, CheckedOps, OverflowOps, DivOps, SignedDivOps, ShiftOps
  <2>2. /\ OperandsOf(i) = {i.base} \cup {i.terms[k].index : k \in DOMAIN i.terms}
        /\ \A k \in DOMAIN i.terms : Bits(f, i.terms[k].index) = i.bits
        /\ ValueOf(f, sigma, g, v) = Wrap(i.bits, g[i.base] + i.offset + Total(ValueSteps(f, i, g)))
        /\ GetOf(f, sigma, g, v) = Wrap(i.bits, g[i.base] + (i.offset + Total(GetSteps(i, g))))
    BY <1>1, <1>12, ByOperation
  <2>3. g[i.base] \in Domain(i.bits)
    BY <1>1, <2>1, <2>2
  <2>4. g[i.base] \in Int
    BY <1>3, <2>3, SignedValue
  <2>5. \A k \in DOMAIN i.terms : g[i.terms[k].index] \in Domain(i.bits)
    BY <1>1, <2>2
  <2> DEFINE base == g[i.base]
             offset == i.offset
  <2>6. base \in Int /\ offset \in Int
    BY <2>1, <2>4
  <2>7. /\ Wrap(i.bits, base + (offset + Total(GetSteps(i, g)))) =
             Wrap(i.bits, base + offset + Total(ValueSteps(f, i, g)))
        /\ Wrap(i.bits, base + (offset + Total(GetSteps(i, g)))) \in Domain(i.bits)
    <3> HIDE DEF base, offset
    <3> QED BY <1>3, <2>1, <2>2, <2>5, <2>6, OffsetExact
  <2> QED BY <1>1, <2>2, <2>7
<1> QED BY <1>1, <1>6, <1>7, <1>8, <1>9, <1>10, <1>11, <1>12, Kinds

(***************************************************************************)
(* ValueConstraint::Get is exact: by induction over the ranks of values.   *)
(***************************************************************************)
LEMMA TranslationFaithful ==
  ASSUME NEW f \in Functions, ~WidensPointer(f)
  PROVE  Faithful(f)
<1> SUFFICES ASSUME NEW sigma \in Valuations(f)
             PROVE  /\ \A v \in Symbols(f) : v \notin Untranslatable(f) /\ Get(f, sigma)[v] = sigma[v]
                    /\ \A v \in DOMAIN f.values \ Untranslatable(f) :
                         /\ Get(f, sigma)[v] = Values(f, sigma)[v]
                         /\ Get(f, sigma)[v] \in Domain(Bits(f, v))
  BY DEF Faithful
<1> DEFINE D == DOMAIN f.values
           V == Values(f, sigma)
           G == Get(f, sigma)
           U == Untranslatable(f)
<1>1. /\ \A v \in D : V[v] = ValueOf(f, sigma, V, v)
      /\ \A v \in D : G[v] = GetOf(f, sigma, G, v)
  <2>1. V = [v \in D |-> ValueOf(f, sigma, V, v)]
    BY ValuesSolved
  <2>2. G = [v \in D |-> GetOf(f, sigma, G, v)]
    BY GetSolved
  <2> HIDE DEF V, G
  <2> QED BY <2>1, <2>2
<1>2. \A v \in D : v \in U <=> Refused(f, f.values[v]) \/ \E w \in OperandsOf(f.values[v]) : w \in U
  BY UntranslatableValues
<1> HIDE DEF V, G, U
<1>3. ASSUME NEW v \in Symbols(f)
      PROVE  v \notin U /\ G[v] = sigma[v]
  <2> DEFINE i == f.values[v]
  <2>1. v \in D /\ i.op \in Symbolic
    BY DEF Symbols
  <2>2. OperandsOf(i) = {} /\ ~Refused(f, i) /\ GetOf(f, sigma, G, v) = sigma[v]
    BY <2>1, ByOperation
  <2> QED BY <1>1, <1>2, <2>1, <2>2
<1>4. PICK rank, limit : Ranks(f, rank, limit)
  BY RanksExist
<1>5. /\ limit \in Nat /\ \A v \in D : rank[v] \in 0 .. limit - 1
      /\ \A v \in D : \A w \in OperandsOf(f.values[v]) : w \in D /\ rank[w] < rank[v]
  BY <1>4 DEF Ranks
<1> DEFINE Exactly(v) == v \in U \/ (G[v] = V[v] /\ G[v] \in Domain(Bits(f, v)))
           T == {n \in Nat : \A v \in D : rank[v] < n => Exactly(v)}
<1>6. 0 \in T
  BY <1>5
<1>7. ASSUME NEW n \in Nat, n \in T PROVE n + 1 \in T
  <2>1. ASSUME NEW v \in D, rank[v] < n + 1, v \notin U
        PROVE  G[v] = V[v] /\ G[v] \in Domain(Bits(f, v))
    <3>1. ~Refused(f, f.values[v]) /\ \A w \in OperandsOf(f.values[v]) : w \notin U
      BY <1>2, <2>1
    <3>2. ASSUME NEW w \in OperandsOf(f.values[v])
          PROVE  /\ G[w] = V[w] /\ G[w] \in Domain(Bits(f, w))
                 /\ w \in Symbols(f) => G[w] = sigma[w]
      <4>1. w \in D /\ rank[w] < n
        <5>1. w \in D /\ rank[w] < rank[v] /\ rank[w] \in Int /\ rank[v] \in Int
          BY <1>5
        <5> QED BY <2>1, <5>1
      <4>2. Exactly(w)
        BY <1>7, <4>1
      <4> QED BY <1>3, <3>1, <4>2
    <3>3. /\ GetOf(f, sigma, G, v) = ValueOf(f, sigma, G, v)
          /\ GetOf(f, sigma, G, v) \in Domain(Bits(f, v))
      BY <3>1, <3>2, ValueExact
    <3>4. ValueOf(f, sigma, G, v) = ValueOf(f, sigma, V, v)
      BY <3>2, OperandsSuffice
    <3> QED BY <1>1, <3>3, <3>4
  <2> HIDE DEF D
  <2> QED BY <2>1
<1>8. limit \in T
  <2> HIDE DEF T
  <2> QED BY <1>5, <1>6, <1>7, Induction
<1>9. \A v \in D : Exactly(v)
  BY <1>5, <1>8
<1> QED BY <1>3, <1>9 DEF V, G, U

(***************************************************************************)
(* Of every function, whatever its widths: the expression that             *)
(* ValueConstraint::Get builds for a value is, under every assignment,     *)
(* what LLVM computes, unless a pointer is made of a narrower integer or   *)
(* the reverse.                                                            *)
(***************************************************************************)
THEOREM SMTQueryTranslationExact == Spec => []TranslationExact
<1>1. TypeOK => TranslationExact
  BY TranslationFaithful DEF TypeOK, TranslationExact
<1> QED
  BY SMTQueryTypeOK, <1>1, PTL

-----------------------------------------------------------------------------
(***************************************************************************)
(* Along an edge.  What goes along it satisfies its constraint unless runs *)
(* may be missed, and the converse holds unless runs may be invented.      *)
(***************************************************************************)
LEMMA ConditionFaithful ==
  ASSUME NEW f \in Functions, Faithful(f), NEW sigma \in Valuations(f),
         NEW p \in Blocks(f), NEW b \in f.term[p].succs, Translatable(f, b, p)
  PROVE  /\ ~MayMiss(f) /\ MayGo(f, sigma, p, b) => EdgeCondition(f, sigma, b, p)
         /\ EdgeCondition(f, sigma, b, p) => MayGo(f, sigma, p, b)
<1> DEFINE t == f.term[p]
           get == Get(f, sigma)
           val == Values(f, sigma)
<1>1. WellFormedTerminator(f, t)
  BY FunctionsAssumption DEF WellFormed
<1>2. ~MayMiss(f) => ~(t.op = "condbr" /\ t.then = t.else) /\ t.op # "other"
  BY DEF MayMiss
<1>3. t.op \in {"condbr", "switch"} => get[t.cond] = val[t.cond]
  <2> SUFFICES ASSUME t.op \in {"condbr", "switch"} PROVE get[t.cond] = val[t.cond]
    OBVIOUS
  <2>1. t.cond \in EdgeOperands(f, b, p)
    BY DEF EdgeOperands
  <2>2. t.cond \in DOMAIN f.values
    BY <1>1 DEF WellFormedTerminator
  <2> QED BY <2>1, <2>2 DEF Translatable, Faithful
<1>4. MayGo(f, sigma, p, b) <=> /\ t.op = "condbr" => b = IF val[t.cond] = 1 THEN t.then ELSE t.else
                                /\ t.op = "switch" => b = SwitchDest(t, val[t.cond])
  BY DEF MayGo
<1>5. CASE t.op \in {"br", "indirectbr", "invoke"}
  BY <1>4, <1>5 DEF EdgeCondition
<1>6. CASE t.op = "other"
  BY <1>2, <1>6 DEF EdgeCondition
<1>7. CASE t.op = "condbr"
  <2>1. EdgeCondition(f, sigma, b, p) <=> IF t.then = b THEN val[t.cond] = 1 ELSE val[t.cond] # 1
    BY <1>3, <1>7 DEF EdgeCondition
  <2>2. b = t.then \/ b = t.else
    BY <1>1, <1>7 DEF WellFormedTerminator
  <2> QED BY <1>2, <1>4, <1>7, <2>1, <2>2
<1>8. CASE t.op = "switch"
  <2> DEFINE x == val[t.cond]
             cases == ToSet(t.cases)
  <2>1. EdgeCondition(f, sigma, b, p) <=> \/ \E c \in cases : c.dest = b /\ x = c.value
                                          \/ t.default = b /\ \A c \in cases : x # c.value
    BY <1>3, <1>8 DEF EdgeCondition
  <2>2. \A c, d \in cases : c.value = d.value => c.dest = d.dest
    BY <1>1, <1>8 DEF WellFormedTerminator
  <2> HIDE DEF x, cases
  <2>3. CASE \E c \in cases : c.value = x
    <3> DEFINE first == CHOOSE c \in cases : c.value = x
    <3>1. first \in cases /\ first.value = x
      BY <2>3
    <3>2. SwitchDest(t, x) = first.dest
      BY <2>3 DEF SwitchDest, cases
    <3> HIDE DEF first
    <3>3. (\E c \in cases : c.dest = b /\ x = c.value) <=> b = first.dest
      BY <2>2, <3>1
    <3> QED BY <1>4, <1>8, <2>1, <2>3, <3>2, <3>3 DEF x
  <2>4. CASE ~\E c \in cases : c.value = x
    <3>1. SwitchDest(t, x) = t.default
      BY <2>4 DEF SwitchDest, cases
    <3> QED BY <1>4, <1>8, <2>1, <2>4, <3>1 DEF x
  <2> QED BY <2>3, <2>4
<1> QED BY <1>1, <1>5, <1>6, <1>7, <1>8 DEF WellFormedTerminator

LEMMA PhisFaithful ==
  ASSUME NEW f \in Functions, Faithful(f), NEW sigma \in Valuations(f),
         NEW p \in Blocks(f), NEW b \in f.term[p].succs, Translatable(f, b, p)
  PROVE  /\ PhisAgree(f, sigma, p, b) => PhiAssignment(f, sigma, b, p)
         /\ ~MayInvent(f) /\ PhiAssignment(f, sigma, b, p) => PhisAgree(f, sigma, p, b)
<1> DEFINE in(phi) == f.values[phi].incoming[p]
           get == Get(f, sigma)
           val == Values(f, sigma)
<1>1. ASSUME NEW phi \in Phis(f, b)
      PROVE  /\ p \in DOMAIN f.values[phi].incoming /\ in(phi) \in DOMAIN f.values
             /\ phi \in Symbols(f) /\ f.values[phi].op = "phi"
             /\ get[phi] = sigma[phi]
  <2>1. phi \in DOMAIN f.values /\ f.values[phi].op = "phi" /\ f.values[phi].block = b
    BY DEF Phis
  <2>2. WellFormedPhi(f, f.values[phi])
    BY <2>1, FunctionsAssumption DEF WellFormed
  <2>3. phi \in Symbols(f)
    BY <2>1 DEF Symbols, Symbolic
  <2> QED BY <2>1, <2>2, <2>3 DEF WellFormedPhi, Faithful
<1>2. ASSUME NEW phi \in Assigned(f, b, p)
      PROVE  phi \in Phis(f, b) /\ get[in(phi)] = val[in(phi)]
  <2>1. phi \in Phis(f, b) /\ in(phi) \in EdgeOperands(f, b, p)
    BY DEF Assigned, EdgeOperands
  <2>2. in(phi) \in DOMAIN f.values \ Untranslatable(f)
    BY <1>1, <2>1 DEF Translatable
  <2> QED BY <2>1, <2>2 DEF Faithful
<1>3. ASSUME PhisAgree(f, sigma, p, b), NEW phi \in Assigned(f, b, p)
      PROVE  get[phi] = get[in(phi)]
  <2>1. phi \in Phis(f, b) /\ f.values[in(phi)].op # "undef"
    BY DEF Assigned
  <2>2. sigma[phi] = val[in(phi)]
    BY <1>3, <2>1 DEF PhisAgree
  <2> QED BY <1>1, <1>2, <2>1, <2>2
<1>4. ASSUME ~MayInvent(f), PhiAssignment(f, sigma, b, p), NEW phi \in Phis(f, b)
      PROVE  f.values[in(phi)].op = "undef" \/ sigma[phi] = val[in(phi)]
  <2>1. f.values[in(phi)].op # "float"
    BY <1>1, <1>4 DEF MayInvent
  <2>2. f.values[in(phi)].op # "undef" => phi \in Assigned(f, b, p)
    BY <2>1 DEF Assigned, isAnalyzable
  <2>3. phi \in Assigned(f, b, p) => get[phi] = get[in(phi)]
    BY <1>4 DEF PhiAssignment
  <2> QED BY <1>1, <1>2, <2>2, <2>3
<1>5. PhisAgree(f, sigma, p, b) => PhiAssignment(f, sigma, b, p)
  BY <1>3 DEF PhiAssignment
<1>6. ~MayInvent(f) /\ PhiAssignment(f, sigma, b, p) => PhisAgree(f, sigma, p, b)
  BY <1>4 DEF PhisAgree
<1> QED BY <1>5, <1>6

LEMMA EdgeFaithful ==
  ASSUME NEW f \in Functions, Faithful(f), NEW sigma \in Valuations(f),
         NEW p \in Blocks(f), NEW b \in Blocks(f), b \in Forward(f)[p]
  PROVE  /\ ~MayMiss(f) /\ Translatable(f, b, p) /\ b \in Steps(f, sigma)[p]
              => b \in ConstraintGraph(f, sigma)[p]
         /\ ~MayInvent(f) /\ b \in ConstraintGraph(f, sigma)[p] => b \in Steps(f, sigma)[p]
<1>1. b \in f.term[p].succs
  BY GraphTypes
<1>2. b \in Steps(f, sigma)[p] <=> MayGo(f, sigma, p, b) /\ PhisAgree(f, sigma, p, b)
  BY DEF Steps
<1>3. b \in ConstraintGraph(f, sigma)[p] <=> Translatable(f, b, p) /\ EdgeHolds(f, sigma, b, p)
  BY GraphTypes
<1>4. EdgeHolds(f, sigma, b, p) <=> EdgeCondition(f, sigma, b, p) /\ PhiAssignment(f, sigma, b, p)
  BY DEF EdgeHolds
<1> QED BY <1>1, <1>2, <1>3, <1>4, ConditionFaithful, PhisFaithful

(***************************************************************************)
(* The constraint of the path to a block and the runs that come to it.     *)
(***************************************************************************)
LEMMA PathFaithful ==
  ASSUME NEW f \in Functions, Faithful(f), NEW b \in Blocks(f)
  PROVE  /\ ~MayMiss(f) /\ Clean(f, b) => Runs(f, b) \subseteq PathTo(f, b)
         /\ ~MayInvent(f) => PathTo(f, b) \subseteq Runs(f, b)
<1> SUFFICES ASSUME NEW sigma \in Valuations(f)
             PROVE  /\ ~MayMiss(f) /\ Clean(f, b) /\ sigma \in Runs(f, b) => sigma \in PathTo(f, b)
                    /\ ~MayInvent(f) /\ sigma \in PathTo(f, b) => sigma \in Runs(f, b)
  BY DEF Runs, PathTo
<1> DEFINE F == Forward(f)
           S == Steps(f, sigma)
           A == ConstraintGraph(f, sigma)
           RS == Reachable(S, 1)
           RA == Reachable(A, 1)
<1>1. /\ 1 \in Blocks(f)
      /\ F \in [Blocks(f) -> SUBSET Blocks(f)]
      /\ S \in [Blocks(f) -> SUBSET Blocks(f)]
      /\ A \in [Blocks(f) -> SUBSET Blocks(f)]
      /\ \A p \in Blocks(f) : S[p] \subseteq F[p] /\ A[p] \subseteq F[p]
  <2>1. 1 \in Blocks(f) /\ F \in [Blocks(f) -> SUBSET Blocks(f)]
    BY FunctionFacts, GraphTypes
  <2>2. S = [p \in Blocks(f) |-> {c \in F[p] : MayGo(f, sigma, p, c) /\ PhisAgree(f, sigma, p, c)}]
    BY DEF Steps
  <2>3. A = [p \in Blocks(f) |-> {c \in F[p] : Translatable(f, c, p) /\ EdgeHolds(f, sigma, c, p)}]
    BY DEF ConstraintGraph
  <2> HIDE DEF F, S, A
  <2> QED BY <2>1, <2>2, <2>3
<1>2. ASSUME NEW p \in Blocks(f), NEW c \in F[p]
      PROVE  /\ c \in Blocks(f)
             /\ ~MayMiss(f) /\ Translatable(f, c, p) /\ c \in S[p] => c \in A[p]
             /\ ~MayInvent(f) /\ c \in A[p] => c \in S[p]
             /\ p \in Predecessors(f, c) /\ <<p, c>> \notin f.back
  <2>1. c \in Blocks(f)
    BY <1>1
  <2>2. p \in Predecessors(f, c) /\ <<p, c>> \notin f.back
    BY <2>1, GraphTypes DEF Predecessors
  <2> QED BY <2>1, <2>2, EdgeFaithful
<1>3. (sigma \in Runs(f, b) <=> b \in {1} \cup RS) /\ (sigma \in PathTo(f, b) <=> b \in {1} \cup RA)
  BY DEF Runs, PathTo
<1>4. Clean(f, b) <=> \A c \in Blocks(f) : c = b \/ b \in Reachable(F, c) =>
                        \A p \in Predecessors(f, c) : <<p, c>> \notin f.back => Translatable(f, c, p)
  BY DEF Clean
<1> HIDE DEF F, S, A
<1>5. /\ RA \subseteq Blocks(f) /\ A[1] \subseteq RA /\ \A p \in RA : A[p] \subseteq RA
      /\ RS \subseteq Blocks(f) /\ S[1] \subseteq RS /\ \A p \in RS : S[p] \subseteq RS
  BY <1>1, ReachableSuccessors DEF Closed
<1>6. ASSUME ~MayInvent(f) PROVE RA \subseteq RS
  <2>1. \A p \in Blocks(f) : A[p] \subseteq S[p]
    BY <1>1, <1>2, <1>6
  <2>2. A[1] \subseteq RS
    BY <1>1, <1>5, <2>1
  <2>3. Closed(A, RS)
    BY <1>5, <2>1 DEF Closed
  <2> HIDE DEF RS
  <2> QED BY <1>1, <1>5, <2>2, <2>3, ReachableLeast
<1>7. ASSUME ~MayMiss(f), Clean(f, b), b \in RS PROVE b \in {1} \cup RA
  <2> DEFINE Leads(c) == c = b \/ b \in Reachable(F, c)
             T == {c \in Blocks(f) : Leads(c) => c \in {1} \cup RA}
  <2>1. ASSUME NEW p \in Blocks(f), NEW c \in S[p], Leads(c)
        PROVE  Leads(p) /\ c \in A[p]
    <3>1. c \in F[p] /\ c \in Blocks(f)
      BY <1>1
    <3>2. b \in Reachable(F, p)
      <4>1. c \in Reachable(F, p)
        BY <1>1, <3>1, ReachableSuccessors
      <4>2. Reachable(F, c) \subseteq Reachable(F, p)
        BY <1>1, <4>1, ReachableTransitive
      <4> QED BY <2>1, <4>1, <4>2
    <3>3. Translatable(f, c, p)
      BY <1>2, <1>4, <1>7, <2>1, <3>1
    <3> QED BY <1>2, <1>7, <3>1, <3>2, <3>3
  <2>2. \A p \in Blocks(f) : (Leads(p) => p \in {1} \cup RA) => S[p] \subseteq T
    <3> SUFFICES ASSUME NEW p \in Blocks(f), Leads(p) => p \in {1} \cup RA, NEW c \in S[p], Leads(c)
                 PROVE  c \in Blocks(f) /\ c \in RA
      BY <1>1
    <3>1. p \in {1} \cup RA /\ c \in A[p]
      BY <2>1
    <3> QED BY <1>1, <1>5, <3>1
  <2>3. S[1] \subseteq T
    BY <1>1, <2>2
  <2>4. Closed(S, T)
    BY <2>2 DEF Closed
  <2>5. T \in SUBSET Blocks(f)
    OBVIOUS
  <2>6. RS \subseteq T
    <3> HIDE DEF T
    <3> QED BY <1>1, <2>3, <2>4, <2>5, ReachableLeast
  <2> QED BY <1>7, <2>6
<1> QED BY <1>3, <1>6, <1>7

-----------------------------------------------------------------------------
(***************************************************************************)
(* The condition of a check, and the answer.                               *)
(***************************************************************************)
LEMMA OverflowConditionExact ==
  ASSUME NEW op \in OverflowOps, NEW nsw \in BOOLEAN, NEW bits \in Nat \ {0},
         NEW x \in Domain(bits), NEW y \in Domain(bits)
  PROVE  OverflowCondition(op, nsw, bits, x, y) <=> GoesWrong(op, nsw, bits, x, y)
<1> DEFINE p == 2^bits
           h == 2^(bits - 1)
           sx == Signed(bits, x)
           sy == Signed(bits, y)
           s == Exact(op, sx, sy)
           u == Exact(op, x, y)
<1>1. p \in Nat /\ h \in Nat
  <2>1. bits - 1 \in Nat
    OBVIOUS
  <2> QED BY <2>1, PowerOfTwo
<1>2. x \in 0 .. p - 1 /\ y \in 0 .. p - 1
  BY DEF Domain
<1>3. sx = (IF 2 * x >= p THEN x - p ELSE x) /\ sy = (IF 2 * y >= p THEN y - p ELSE y)
  BY DEF Signed
<1>4. /\ op = "add" => s = sx + sy /\ u = x + y
      /\ op = "sub" => s = sx - sy /\ u = x - y
      /\ op = "mul" => s = sx * sy /\ u = x * y
  BY DEF Exact
<1>5. op \in {"add", "sub", "mul"}
  BY DEF OverflowOps
<1>6. GoesWrong(op, nsw, bits, x, y) <=> IF nsw THEN s \notin -h .. h - 1 ELSE u \notin 0 .. p - 1
  <2>1. GoesWrong(op, nsw, bits, x, y) <=> Overflows(op, nsw, bits, x, y)
    <3>1. op \notin DivOps /\ op \notin ShiftOps
      BY <1>5 DEF DivOps, SignedDivOps, ShiftOps
    <3>2. Overflows(op, nsw, bits, x, y) \in BOOLEAN
      BY DEF Overflows
    <3> QED BY <3>1, <3>2 DEF GoesWrong
  <2>2. Overflows(op, nsw, bits, x, y) <=> IF nsw THEN s \notin SignedDomain(bits) ELSE u \notin Domain(bits)
    BY DEF Overflows
  <2>3. SignedDomain(bits) = -h .. h - 1 /\ Domain(bits) = 0 .. p - 1
    BY DEF SignedDomain, Domain
  <2> HIDE DEF s, u, p, h
  <2> QED BY <2>1, <2>2, <2>3
<1>7. OverflowCondition(op, nsw, bits, x, y) <=>
        IF op = "sub" THEN ~(IF nsw THEN s >= -h ELSE u >= 0) \/ (nsw /\ ~(s < h))
                      ELSE ~(IF nsw THEN s < h ELSE u < p) \/ (nsw /\ ~(s >= -h))
  BY DEF OverflowCondition, NoUnderflow, NoOverflow
<1> HIDE DEF p, h, sx, sy, s, u
<1>8. x \in Nat /\ y \in Nat /\ sx \in Int /\ sy \in Int
  BY <1>1, <1>2, <1>3
<1>9. /\ s \in Int /\ u \in Int
      /\ op = "sub" => u <= p - 1
      /\ op # "sub" => u >= 0
  <2>1. CASE op = "add"
    BY <1>4, <1>8, <2>1
  <2>2. CASE op = "sub"
    BY <1>1, <1>2, <1>4, <1>8, <2>2
  <2>3. CASE op = "mul"
    <3>1. sx * sy \in Int /\ x * y \in Nat
      BY <1>8
    <3> QED BY <1>4, <2>3, <3>1
  <2> QED BY <1>5, <2>1, <2>2, <2>3
<1>10. CASE op = "sub"
  BY <1>1, <1>6, <1>7, <1>9, <1>10
<1>11. CASE op # "sub"
  BY <1>1, <1>6, <1>7, <1>9, <1>11
<1> QED BY <1>10, <1>11

\* What the operation behind check c does in a run.
Wrong(f, c, sigma) ==
  LET i == f.values[c.operation] IN
  GoesWrong(i.op, i.nsw, i.bits, Values(f, sigma)[i.lhs], Values(f, sigma)[i.rhs])

LEMMA CheckFaithful ==
  ASSUME NEW f \in Functions, Faithful(f), NEW sigma \in Valuations(f),
         NEW n \in DOMAIN f.calls, IsCheck(f.calls[n]),
         ConditionOperands(f.calls[n]) \cap Untranslatable(f) = {}
  PROVE  Condition(f, f.calls[n], sigma) <=> Wrong(f, f.calls[n], sigma)
<1> DEFINE c == f.calls[n]
           i == f.values[c.operation]
           get == Get(f, sigma)
           val == Values(f, sigma)
<1>1. WellFormedOverflowCheck(f, c, i) \/ WellFormedCheck(f, c, i)
  BY FunctionsAssumption DEF WellFormed, Guards
<1>2. Wrong(f, c, sigma) <=> GoesWrong(i.op, i.nsw, i.bits, val[i.lhs], val[i.rhs])
  BY DEF Wrong
<1>3. \A v \in DOMAIN f.values : v \notin Untranslatable(f)
        => get[v] = val[v] /\ get[v] \in Domain(Bits(f, v))
  BY DEF Faithful
<1>4. ASSUME WellFormedCheck(f, c, i)
      PROVE  Condition(f, c, sigma) <=> Wrong(f, c, sigma)
  <2>1. c.callee = "__kint_check" /\ c.cond \in DOMAIN f.values
        /\ (val[c.cond] = 1 <=> GoesWrong(i.op, i.nsw, i.bits, val[i.lhs], val[i.rhs]))
    BY <1>4 DEF WellFormedCheck
  <2>2. c.cond \notin Untranslatable(f)
    BY <2>1 DEF ConditionOperands
  <2>3. Condition(f, c, sigma) <=> get[c.cond] = 1
    BY <2>1 DEF Condition
  <2> HIDE DEF get, val, c
  <2> QED BY <1>2, <1>3, <2>1, <2>2, <2>3
<1>5. ASSUME WellFormedOverflowCheck(f, c, i)
      PROVE  Condition(f, c, sigma) <=> Wrong(f, c, sigma)
  <2>1. /\ c.callee = "__kint_overflow"
        /\ i.op \in OverflowOps /\ i.nsw \in BOOLEAN /\ i.bits \in Nat \ {0}
        /\ c.opcode = i.op /\ c.nsw = i.nsw /\ c.lhs = i.lhs /\ c.rhs = i.rhs
        /\ i.lhs \in DOMAIN f.values /\ i.rhs \in DOMAIN f.values
        /\ Bits(f, i.lhs) = i.bits /\ Bits(f, i.rhs) = i.bits
    BY <1>5 DEF WellFormedOverflowCheck
  <2>2. i.lhs \notin Untranslatable(f) /\ i.rhs \notin Untranslatable(f)
    BY <2>1 DEF ConditionOperands
  <2>3. Condition(f, c, sigma) <=> OverflowCondition(i.op, i.nsw, i.bits, get[i.lhs], get[i.rhs])
    BY <2>1 DEF Condition
  <2> HIDE DEF get, val, c, i
  <2>4. /\ get[i.lhs] = val[i.lhs] /\ get[i.lhs] \in Domain(i.bits)
        /\ get[i.rhs] = val[i.rhs] /\ get[i.rhs] \in Domain(i.bits)
    BY <1>3, <2>1, <2>2
  <2>5. OverflowCondition(i.op, i.nsw, i.bits, get[i.lhs], get[i.rhs])
          <=> GoesWrong(i.op, i.nsw, i.bits, get[i.lhs], get[i.rhs])
    BY <2>1, <2>4, OverflowConditionExact
  <2> QED BY <1>2, <2>3, <2>4, <2>5
<1> QED BY <1>1, <1>4, <1>5

LEMMA AnswerAllowed ==
  ASSUME NEW f \in Functions, ~WidensPointer(f) => Faithful(f),
         NEW n \in DOMAIN f.calls, IsCheck(f.calls[n]), Clean(f, f.calls[n].block),
         ConditionOperands(f.calls[n]) \cap Untranslatable(f) = {},
         NEW constraint,
         constraint = {sigma \in PathTo(f, f.calls[n].block) : Condition(f, f.calls[n], sigma)}
  PROVE  Allowed(f, f.calls[n], constraint)
<1> DEFINE c == f.calls[n]
<1>1. c.block \in Blocks(f)
  BY FunctionFacts
<1>2. Failures(f, c) = {sigma \in Runs(f, c.block) : Wrong(f, c, sigma)}
  BY DEF Failures, Wrong
<1>3. PathTo(f, c.block) \subseteq Valuations(f) /\ Runs(f, c.block) \subseteq Valuations(f)
  BY DEF PathTo, Runs
<1>4. ~WidensPointer(f) => \A sigma \in Valuations(f) : Condition(f, c, sigma) <=> Wrong(f, c, sigma)
  BY CheckFaithful
<1>5. /\ ~WidensPointer(f) /\ ~MayMiss(f) => Runs(f, c.block) \subseteq PathTo(f, c.block)
      /\ ~WidensPointer(f) /\ ~MayInvent(f) => PathTo(f, c.block) \subseteq Runs(f, c.block)
  BY <1>1, PathFaithful
<1>6. constraint = {sigma \in PathTo(f, c.block) : Condition(f, c, sigma)}
  OBVIOUS
<1> HIDE DEF c
<1>7. constraint \subseteq Valuations(f)
  BY <1>3, <1>6
<1>8. ~(MayMiss(f) \/ WidensPointer(f)) => Failures(f, c) \subseteq constraint
  BY <1>2, <1>3, <1>4, <1>5, <1>6
<1>9. ~(MayInvent(f) \/ WidensPointer(f)) => constraint \subseteq Failures(f, c)
  BY <1>2, <1>3, <1>4, <1>5, <1>6
<1> QED BY <1>7, <1>8, <1>9 DEF Allowed, c

-----------------------------------------------------------------------------
(***************************************************************************)
(* Refinement.  The checks answered are those the visitor has come past.   *)
(***************************************************************************)
OrderInv == Promise!Answered = {n \in Promise!ChecksOf(fn) : n < at}

\* A step that prints nothing.
LEMMA SilentOrder ==
  ASSUME TypeOK, OrderInv, fn' = fn, report' = report,
         at' = at \/ (at' = at + 1 /\ at \notin Promise!ChecksOf(fn))
  PROVE  OrderInv'
<1>1. at \in Nat /\ \A n \in Promise!ChecksOf(fn) : n \in Nat
  BY FunctionFacts DEF TypeOK, Promise!ChecksOf
<1>2. \A n \in Promise!ChecksOf(fn) : n < at' <=> n < at
  <2>1. CASE at' = at
    BY <2>1
  <2>2. CASE at' = at + 1 /\ at \notin Promise!ChecksOf(fn)
    <3>1. \A n \in Promise!ChecksOf(fn) : n # at
      BY <2>2
    <3> QED BY <1>1, <2>2, <3>1
  <2> QED BY <2>1, <2>2
<1>3. Promise!Answered' = Promise!Answered /\ Promise!ChecksOf(fn)' = Promise!ChecksOf(fn)
  BY DEF Promise!Answered, Promise!ChecksOf
<1> QED BY <1>2, <1>3 DEF OrderInv

LEMMA SolveAnswers ==
  ASSUME IInv, CleanInv, OrderInv, ~WidensPointer(fn) => Faithful(fn), Solve
  PROVE  Promise!Answer /\ OrderInv'
<1> DEFINE constraint == {sigma \in path : Condition(fn, Call, sigma)}
           models == Valuations(fn) \ constraint
           answer == [call |-> at, constraint |-> constraint, models |-> models,
                      verdict |-> IF models # {} THEN "Error example" ELSE "OK"]
<1>1. /\ pc = "solve" /\ report' = Append(report, answer) /\ at' = at + 1 /\ fn' = fn
      /\ ConditionOperands(Call) \cap Untranslatable(fn) = {}
  BY DEF Solve
<1>2. /\ TypeOK /\ fn \in Functions /\ at \in DOMAIN fn.calls /\ IsCheck(Call)
      /\ report \in Seq(Answers) /\ path = PathTo(fn, Call.block) /\ Clean(fn, Call.block)
  BY <1>1 DEF IInv, TypeOK, WalkInv, CleanInv
<1>3. answer.call = at /\ answer.constraint = constraint
  OBVIOUS
<1>4. Allowed(fn, fn.calls[at], constraint)
  BY <1>1, <1>2, AnswerAllowed DEF Call
<1> HIDE DEF answer, constraint, models
<1>5. /\ at \in Nat /\ at \in Promise!ChecksOf(fn)
      /\ \A n \in Promise!ChecksOf(fn) : n \in Nat
  BY <1>2, FunctionFacts DEF Promise!ChecksOf, Call
<1>6. Promise!Answered = {n \in Promise!ChecksOf(fn) : n < at}
  BY DEF OrderInv
<1>7. at \in Promise!ChecksOf(fn) \ Promise!Answered
      /\ \A n \in Promise!ChecksOf(fn) \ Promise!Answered : at <= n
  BY <1>5, <1>6
<1> DEFINE k == Len(report)
<1>8. /\ k \in Nat /\ DOMAIN report = 1 .. k
      /\ DOMAIN report' = 1 .. k + 1 /\ Len(report') = k + 1
      /\ report'[k + 1] = answer /\ \A m \in 1 .. k : report'[m] = report[m]
  BY <1>1, <1>2
<1> HIDE DEF k
<1>9. report' # report
  BY <1>8 DEF k
<1>10. Promise!Last(report') = answer
  BY <1>8 DEF Promise!Last
<1>11. Promise!Answer
  BY <1>1, <1>3, <1>4, <1>7, <1>9, <1>10 DEF Promise!Answer
<1>12. Promise!Answered' = Promise!Answered \cup {at}
  <2>1. \A m \in 1 .. k + 1 : m \in 1 .. k \/ m = k + 1
    BY <1>8
  <2>2. 1 .. k \subseteq 1 .. k + 1 /\ k + 1 \in 1 .. k + 1
    BY <1>8
  <2> QED BY <1>3, <1>8, <2>1, <2>2 DEF Promise!Answered
<1>13. Promise!ChecksOf(fn)' = Promise!ChecksOf(fn)
  BY <1>1 DEF Promise!ChecksOf
<1>14. {n \in Promise!ChecksOf(fn) : n < at + 1} = {n \in Promise!ChecksOf(fn) : n < at} \cup {at}
  <2>1. \A n \in Promise!ChecksOf(fn) : n < at + 1 <=> n < at \/ n = at
    BY <1>5
  <2> QED BY <1>5, <2>1
<1>15. OrderInv'
  BY <1>1, <1>6, <1>12, <1>13, <1>14 DEF OrderInv
<1> QED BY <1>11, <1>15

LEMMA StepAnswers ==
  ASSUME IInv, CleanInv, OrderInv, ~WidensPointer(fn) => Faithful(fn), [Next]_vars
  PROVE  [Promise!Answer]_(Promise!absVars) /\ OrderInv'
<1>1. TypeOK
  BY DEF IInv
<1>2. CASE VisitOther
  <2>1. fn' = fn /\ report' = report /\ at' = at + 1 /\ at \notin Promise!ChecksOf(fn)
    BY <1>2 DEF VisitOther, Promise!ChecksOf, Call
  <2> QED BY <1>1, <2>1, SilentOrder DEF Promise!absVars
<1>3. CASE ~VisitOther /\ ~Solve
  <2>1. fn' = fn /\ report' = report /\ at' = at
    BY <1>3 DEF Next, Step, VisitCheck, Finish, ReturnTrue, ReturnUnion, SkipBackEdge, FollowPred,
                StackOverflow, Abort, vars
  <2> QED BY <1>1, <2>1, SilentOrder DEF Promise!absVars
<1> QED BY <1>2, <1>3, SolveAnswers

(***************************************************************************)
(* SMTQuery implements SMTQueryAbs, for every function: each check is      *)
(* answered once, in layout order, and by exactly the runs in which the    *)
(* operation behind it goes wrong, up to the exceptions that Exactness     *)
(* names.                                                                  *)
(***************************************************************************)
THEOREM SMTQueryImplementsAbs == Spec => ImplementsAbs
<1> DEFINE Exactly == ~WidensPointer(fn) => Faithful(fn)
<1>1. Init => Promise!Init /\ Exactly /\ CleanInv /\ OrderInv
  <2> SUFFICES ASSUME Init
               PROVE  Promise!Init /\ Exactly /\ CleanInv /\ OrderInv
    OBVIOUS
  <2>1. fn \in Functions /\ at = 1 /\ report = <<>> /\ pc = "visit"
    BY DEF Init
  <2>2. Promise!Init /\ Exactly
    BY <2>1, TranslationFaithful DEF Promise!Init
  <2>3. OrderInv
    <3>1. Promise!Answered = {}
      BY <2>1 DEF Promise!Answered
    <3>2. \A n \in Promise!ChecksOf(fn) : ~(n < 1)
      BY <2>1, FunctionFacts DEF Promise!ChecksOf
    <3> QED BY <2>1, <3>1, <3>2 DEF OrderInv
  <2> QED BY <2>2, <2>3, InitialClean
<1>2. Exactly /\ [Next]_vars => Exactly'
  <2>1. [Next]_vars => fn' = fn
    BY DEF Next, Step, VisitOther, VisitCheck, Finish, ReturnTrue, ReturnUnion, SkipBackEdge,
           FollowPred, StackOverflow, Solve, Abort, vars
  <2> QED BY <2>1
<1>3. IInv /\ CleanInv /\ [Next]_vars => CleanInv'
  BY CleanStep
<1>4. IInv /\ CleanInv /\ OrderInv /\ Exactly /\ [Next]_vars => [Promise!Answer]_(Promise!absVars) /\ OrderInv'
  BY StepAnswers
<1> HIDE DEF Exactly
<1> QED
  BY <1>1, <1>2, <1>3, <1>4, SMTQueryInvariant, PTL DEF Spec, ImplementsAbs, Promise!Spec
=============================================================================
