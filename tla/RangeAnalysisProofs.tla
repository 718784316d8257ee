------------------------ MODULE RangeAnalysisProofs ------------------------
(***************************************************************************)
(* Proofs about RangeAnalysis, for every set of programs: types, the       *)
(* climbing of the ranges of globals and of functions, and what they cover *)
(* when the analysis is done.                                              *)
(***************************************************************************)
EXTENDS RangeAnalysis, ConstantRangeProofs

-----------------------------------------------------------------------------
(***************************************************************************)
(* Facts about single ranges and instructions.                             *)
(***************************************************************************)
\* getRange gives a value its width, and all it can be.
LEMMA GetRangeCovers ==
  ASSUME NEW v \in Value, NEW m
  PROVE  /\ IsRange(GetRange(v, m))
         /\ GetRange(v, m).bits = Width[v]
         /\ GetRange(v, m).set = Possible(v)
<1>1. Width[v] \in Widths
  BY ValuesAssumption
<1>2. CASE IsConst(v)
  <2>1. Const[v] \in Domain(Width[v])
    BY <1>2, ValuesAssumption DEF IsConst
  <2>2. IsRange(Single(Width[v], Const[v]))
    BY <1>1, <2>1, SingleIsRange
  <2> QED BY <1>2, <2>2 DEF GetRange, MemberKeys, Possible, Single
<1>3. CASE ~IsConst(v)
  <2>1. IsRange(Full(Width[v]))
    BY <1>1, EmptyAndFullAreRanges
  <2> QED BY <1>3, <2>1 DEF GetRange, MemberKeys, Possible, Full
<1> QED BY <1>2, <1>3

\* The initializer of a global integer or array gives a range of its width.
LEMMA InitialRangeIsRange ==
  ASSUME prog \in Programs, NEW G \in Global
  PROVE  IsRange(InitialRange(G)) /\ InitialRange(G).bits = prog.globals[G].bits
<1> DEFINE g == prog.globals[G]
<1>1. g.bits \in Widths /\ g.values \in Seq(Domain(g.bits))
  BY ProgramsAssumption DEF WellFormed
<1>2. CASE g.values = <<>>
  BY <1>1, <1>2, EmptyAndFullAreRanges DEF InitialRange, Full
<1>3. CASE g.values # <<>>
  <2>1. Last(g.values) \in Domain(g.bits)
    <3>1. Len(g.values) \in 1 .. Len(g.values)
      BY <1>1, <1>3
    <3> QED BY <1>1, <3>1 DEF Last
  <2> QED BY <1>1, <1>3, <2>1, SingleIsRange DEF InitialRange, Single
<1> QED BY <1>2, <1>3

\* The function at hand, its code and the instruction to handle.
LEMMA CurrentCode ==
  ASSUME prog \in Programs, NEW n \in DOMAIN prog.functions
  PROVE  LET f == prog.functions[n] IN
         /\ f \in Function
         /\ IsSequence(prog.succ[f]) /\ Len(prog.succ[f]) > 0
         /\ IsSequence(prog.code[f])
         /\ \A k \in DOMAIN prog.code[f] : WellFormedInstruction(prog, f, prog.code[f][k])
<1>1. WellFormedFunction(prog, prog.functions[n]) /\ prog.functions \in Seq(Function)
  BY ProgramsAssumption DEF WellFormed
<1>2. prog.functions[n] \in Function
  BY <1>1
<1> QED BY <1>1, <1>2 DEF WellFormedFunction

\* The pass does not change the module.
LEMMA ProgUnchanged ==
  ASSUME [Next]_vars
  PROVE  prog' = prog
BY DEF Next, Step, Terminated, vars, InitGlobalVariables, InitFunctionReturn,
       BeginIteration, EndIteration, EnterBlock, EndFunction, SkipBackEdge, FollowEdge,
       VisitEntry, LeaveBlock, EndVisit, HandleInstruction, HandleCall, SkipCall,
       HandleStore, HandleReturn, HandleSelect, HandleCast, HandleBinaryOperator,
       HandlePHI, HandleLoad, Proceed, Abort

LEMMA CurrentInstruction ==
  ASSUME TypeOK, pc = "visit", ip <= Len(prog.code[F])
  PROVE  /\ F \in Function
         /\ fi \in DOMAIN prog.functions
         /\ ip \in DOMAIN prog.code[F]
         /\ WellFormedInstruction(prog, F, Inst)
<1>1. fi \in DOMAIN prog.functions /\ prog \in Programs /\ ip \in Nat \ {0}
  BY DEF TypeOK, ControlOK
<1>2. IsSequence(prog.code[F]) /\ F \in Function
  BY <1>1, CurrentCode DEF F
<1>3. ip \in DOMAIN prog.code[F]
  BY <1>1, <1>2 DEF IsSequence
<1> QED BY <1>1, <1>2, <1>3, CurrentCode DEF F, Inst

LEMMA StoredValue ==
  ASSUME TypeOK, At("store")
  PROVE  Inst.val \in Value
<1>1. WellFormedInstruction(prog, F, Inst) /\ Inst.op = "store"
  BY CurrentInstruction DEF At
<1> QED BY <1>1 DEF WellFormedInstruction

\* An integer that is stored has the global's width, by the code or by the assertion.
LEMMA StoredWidth ==
  ASSUME TypeOK, WidthsKept, HandleStore, StoresToGlobal, HasRange(Inst.ptr)
  PROVE  Width[Inst.val] = prog.globals[Inst.ptr].bits
<1>1. pc = "visit" /\ WellFormedInstruction(prog, F, Inst) /\ Inst.op = "store"
  BY CurrentInstruction DEF HandleStore, At
<1>2. CASE Asserts
  <2>1. RangeOfGlobal(Inst.ptr).bits = prog.globals[Inst.ptr].bits
    BY <1>1 DEF WidthsKept, RangeOfGlobal, StoresToGlobal
  <2> QED BY <1>2, <2>1 DEF HandleStore
<1>3. CASE ~Asserts
  BY <1>1, <1>3 DEF WellFormedInstruction, StoresToGlobal, HasRange, Asserts
<1> QED BY <1>2, <1>3

LEMMA ReturnedValue ==
  ASSUME TypeOK, At("ret"), ReturnsInteger(prog, F)
  PROVE  Inst.val \in Value /\ Width[Inst.val] = prog.returns[F]
<1>1. WellFormedInstruction(prog, F, Inst) /\ Inst.op = "ret"
  BY CurrentInstruction DEF At
<1> QED BY <1>1 DEF WellFormedInstruction

LEMMA GlobalRangeIsRange ==
  ASSUME TypeOK, NEW G
  PROVE  IsRange(RangeOfGlobal(G))
BY DefaultIsRange DEF TypeOK, MapsOK, RangeOfGlobal

(***************************************************************************)
(* What a handler may do to the results: it joins a range to that of one   *)
(* global, or of one function, or it enters a DefaultRange for a function  *)
(* that has none.                                                          *)
(***************************************************************************)
LEMMA StoreStep ==
  ASSUME TypeOK, HandleStore
  PROVE  /\ retRange' = retRange
         /\ ~StoresToGlobal => gvRange' = gvRange
         /\ StoresToGlobal =>
              LET joined == UnionWith(RangeOfGlobal(Inst.ptr), GetRange(Inst.val, map)) IN
              /\ gvRange' = Put(gvRange, Inst.ptr, joined)
              /\ IsRange(joined)
              /\ joined.bits = RangeOfGlobal(Inst.ptr).bits
              /\ RangeOfGlobal(Inst.ptr).set \subseteq joined.set
              /\ RangeOfGlobal(Inst.ptr).bits = Width[Inst.val]
                   => Possible(Inst.val) \subseteq joined.set
<1>1. CASE ~StoresToGlobal
  BY <1>1 DEF HandleStore
<1>2. CASE StoresToGlobal
  <2> DEFINE old == RangeOfGlobal(Inst.ptr)
             new == GetRange(Inst.val, map)
  <2>1. IsRange(new) /\ new.bits = Width[Inst.val] /\ new.set = Possible(Inst.val)
    <3>1. Inst.val \in Value
      BY <1>2, StoredValue DEF HandleStore
    <3> QED BY <3>1, GetRangeCovers
  <2>2. IsRange(old)
    BY GlobalRangeIsRange
  <2>3. /\ IsRange(UnionWith(old, new))
        /\ UnionWith(old, new).bits = old.bits
        /\ old.set \subseteq UnionWith(old, new).set
        /\ old.bits = new.bits => new.set \subseteq UnionWith(old, new).set
    <3> HIDE DEF old, new
    <3> QED BY <2>1, <2>2, UnionHoldsBoth
  <2>4. retRange' = retRange /\ gvRange' = Put(gvRange, Inst.ptr, UnionWith(old, new))
    BY <1>2 DEF HandleStore
  <2> QED BY <1>2, <2>1, <2>3, <2>4
<1> QED BY <1>1, <1>2

LEMMA ReturnStep ==
  ASSUME TypeOK, WidthsKept, HandleReturn
  PROVE  /\ gvRange' = gvRange
         /\ ~ReturnsInteger(prog, F) => retRange' = retRange
         /\ ReturnsInteger(prog, F) =>
              LET joined == UnionWith(GetRange(Inst.val, map), retRange[F]) IN
              /\ F \in DOMAIN retRange
              /\ retRange' = Put(retRange, F, joined)
              /\ IsRange(joined)
              /\ joined.bits = retRange[F].bits
              /\ retRange[F].set \subseteq joined.set
              /\ Possible(Inst.val) \subseteq joined.set
<1>1. CASE ~ReturnsInteger(prog, F)
  BY <1>1 DEF HandleReturn
<1>2. CASE ReturnsInteger(prog, F)
  <2> DEFINE old == retRange[F]
             new == GetRange(Inst.val, map)
  <2>0. At("ret")
    BY DEF HandleReturn
  <2>1. IsRange(new) /\ new.bits = prog.returns[F] /\ new.set = Possible(Inst.val)
    <3>1. Inst.val \in Value /\ Width[Inst.val] = prog.returns[F]
      BY <1>2, <2>0, ReturnedValue
    <3> QED BY <3>1, GetRangeCovers
  <2>2. F \in DOMAIN retRange /\ IsRange(old) /\ old.bits = prog.returns[F]
    <3>1. pc = "visit" /\ fi \in DOMAIN prog.functions
      BY <2>0, CurrentInstruction DEF At
    <3>2. F \in DOMAIN retRange /\ old.bits = prog.returns[F]
      BY <1>2, <3>1 DEF WidthsKept, F
    <3> QED BY <3>2 DEF TypeOK, MapsOK
  <2>3. /\ IsRange(UnionWith(new, old))
        /\ UnionWith(new, old).bits = new.bits
        /\ new.set \subseteq UnionWith(new, old).set
        /\ old.set \subseteq UnionWith(new, old).set
    <3> HIDE DEF old, new
    <3> QED BY <2>1, <2>2, UnionHoldsBoth
  <2>4. gvRange' = gvRange /\ retRange' = Put(retRange, F, UnionWith(new, old))
    BY <1>2 DEF HandleReturn
  <2> QED BY <1>2, <2>1, <2>2, <2>3, <2>4
<1> QED BY <1>1, <1>2

LEMMA CallStep ==
  ASSUME TypeOK, HandleCall
  PROVE  /\ gvRange' = gvRange
         /\ \/ retRange' = retRange
            \/ /\ Inst.callee \in Function \ DOMAIN retRange
               /\ retRange' = Put(retRange, Inst.callee, DefaultRange)
BY DEF HandleCall, Emplace

-----------------------------------------------------------------------------
(***************************************************************************)
(* Invariance of the types.                                                *)
(***************************************************************************)
LEMMA ControlStep ==
  ASSUME ControlOK, [Next]_vars
  PROVE  ControlOK'
<1> USE BuildAssumption DEF ControlOK
<1>0. prog.functions \in Seq(Function) /\ Len(prog.functions) \in Nat
      /\ DOMAIN prog.functions = 1 .. Len(prog.functions)
  BY ProgramsAssumption DEF WellFormed
<1>1. CASE InitGlobalVariables
  BY <1>1 DEF InitGlobalVariables
<1>2. CASE InitFunctionReturn
  BY <1>2 DEF InitFunctionReturn
<1>3. CASE BeginIteration
  BY <1>0, <1>3 DEF BeginIteration
<1>4. CASE EndIteration
  BY <1>4 DEF EndIteration
<1>5. CASE EnterBlock
  BY <1>0, <1>5 DEF EnterBlock, Blocks, Predecessors, F
<1>6. CASE EndFunction
  BY <1>0, <1>6 DEF EndFunction
<1>7. CASE SkipBackEdge
  BY <1>7 DEF SkipBackEdge, Blocks, Predecessors, F
<1>8. CASE FollowEdge
  <2>1. preds' \subseteq preds
    BY <1>8 DEF FollowEdge, Follow
  <2> QED BY <1>8, <2>1 DEF FollowEdge, Blocks, Predecessors, F
<1>9. CASE VisitEntry
  BY <1>9 DEF VisitEntry, Blocks, Predecessors, F
<1>10. CASE LeaveBlock
  BY <1>10 DEF LeaveBlock
<1>11. CASE EndVisit
  BY <1>11 DEF EndVisit, Blocks, Predecessors, F
<1>12. CASE HandleInstruction
  <2>1. pc = "visit" /\ ip' = ip + 1
        /\ UNCHANGED <<prog, pc, iteration, fi, bb, preds>>
    BY <1>12 DEF HandleInstruction, HandleCall, SkipCall, HandleStore, HandleReturn,
                 HandleSelect, HandleCast, HandleBinaryOperator, HandlePHI, HandleLoad,
                 At, Proceed
  <2> QED BY <2>1 DEF Blocks, Predecessors, F
<1>13. CASE Abort
  BY <1>13 DEF Abort, Fails, At
<1>14. CASE UNCHANGED vars
  BY <1>14 DEF vars, Blocks, Predecessors, F
<1> QED
  BY <1>1, <1>2, <1>3, <1>4, <1>5, <1>6, <1>7, <1>8, <1>9, <1>10, <1>11, <1>12, <1>13,
     <1>14 DEF Next, Step, Terminated

\* Outside the two phases of initRange, a step that is none of the three
\* handlers above leaves the ranges of globals and functions alone.
LEMMA QuietStep ==
  ASSUME [Next]_vars, ~InitGlobalVariables, ~InitFunctionReturn,
         ~HandleCall, ~HandleStore, ~HandleReturn
  PROVE  /\ UNCHANGED <<prog, gvRange, retRange>>
         /\ pc = "initGlobals" <=> pc' = "initGlobals"
         /\ pc = "initReturns" <=> pc' = "initReturns"
<1> USE DEF results
<1>1. CASE BeginIteration \/ EndIteration \/ EnterBlock \/ EndFunction \/ SkipBackEdge
  BY <1>1 DEF BeginIteration, EndIteration, EnterBlock, EndFunction, SkipBackEdge
<1>2. CASE FollowEdge \/ VisitEntry \/ LeaveBlock \/ EndVisit
  BY <1>2 DEF FollowEdge, VisitEntry, LeaveBlock, EndVisit
<1>3. CASE SkipCall \/ HandleSelect \/ HandleCast \/ HandleBinaryOperator \/ HandlePHI
           \/ HandleLoad
  BY <1>3 DEF SkipCall, HandleSelect, HandleCast, HandleBinaryOperator, HandlePHI,
              HandleLoad, At, Proceed
<1>4. CASE Abort
  BY <1>4 DEF Abort, Fails, At
<1>5. CASE UNCHANGED vars
  BY <1>5 DEF vars
<1> QED
  BY <1>1, <1>2, <1>3, <1>4, <1>5 DEF Next, Step, HandleInstruction, Terminated

LEMMA MapsStep ==
  ASSUME TypeOK, WidthsKept, [Next]_vars
  PROVE  /\ DOMAIN gvRange' \subseteq Global
         /\ \A G \in DOMAIN gvRange' : IsRange(gvRange'[G])
         /\ DOMAIN retRange' \subseteq Function
         /\ \A f \in DOMAIN retRange' : IsRange(retRange'[f])
<1>0. /\ prog \in Programs
      /\ DOMAIN gvRange \subseteq Global /\ \A G \in DOMAIN gvRange : IsRange(gvRange[G])
      /\ DOMAIN retRange \subseteq Function
      /\ \A f \in DOMAIN retRange : IsRange(retRange[f])
  BY DEF TypeOK, MapsOK, ControlOK
<1>1. CASE InitGlobalVariables
  BY <1>0, <1>1, InitialRangeIsRange DEF InitGlobalVariables
<1>2. CASE InitFunctionReturn
  <2>1. \A f \in ToSet(prog.functions) : f \in Function /\ prog.returns[f] \in Widths
    BY <1>0, ProgramsAssumption DEF WellFormed, ToSet
  <2> QED BY <1>0, <1>2, <2>1, EmptyAndFullAreRanges DEF InitFunctionReturn
<1>3. CASE HandleCall
  BY <1>0, <1>3, CallStep, DefaultIsRange DEF Put
<1>4. CASE HandleStore
  BY <1>0, <1>4, StoreStep DEF Put, StoresToGlobal
<1>5. CASE HandleReturn
  BY <1>0, <1>5, ReturnStep DEF Put
<1>6. CASE ~(InitGlobalVariables \/ InitFunctionReturn \/ HandleCall \/ HandleStore
             \/ HandleReturn)
  BY <1>0, <1>6, QuietStep
<1> QED BY <1>1, <1>2, <1>3, <1>4, <1>5, <1>6

LEMMA ImpossibleStep ==
  ASSUME \A c \in DOMAIN impossible : impossible[c] \in BOOLEAN, [Next]_vars
  PROVE  \A c \in DOMAIN impossible' : impossible'[c] \in BOOLEAN
<1>1. CASE FollowEdge
  <2>1. PICK p \in preds : Follow(p, prog.term[F][p], BranchRange(p))
    BY <1>1 DEF FollowEdge
  <2> DEFINE t == prog.term[F][p]
  <2>2. impossible' = impossible \/ impossible' = Put(impossible, t.id, IsTrueBranch(t))
    BY <2>1 DEF Follow
  <2>3. IsTrueBranch(t) \in BOOLEAN
    BY DEF IsTrueBranch
  <2> HIDE DEF t
  <2> QED BY <2>2, <2>3 DEF Put
<1>2. CASE HandleInstruction
  BY <1>2 DEF HandleInstruction, HandleCall, SkipCall, HandleStore, HandleReturn,
              HandleSelect, HandleCast, HandleBinaryOperator, HandlePHI, HandleLoad, Proceed
<1>3. CASE ~FollowEdge /\ ~HandleInstruction
  <2>1. impossible' = impossible
    BY <1>3 DEF Next, Step, Terminated, vars, InitGlobalVariables, InitFunctionReturn,
                BeginIteration, EndIteration, EnterBlock, EndFunction, SkipBackEdge,
                VisitEntry, LeaveBlock, EndVisit, Abort
  <2> QED BY <2>1
<1> QED BY <1>1, <1>2, <1>3

\* No range changes its width, and none that is needed is missing.
LEMMA WidthsStep ==
  ASSUME TypeOK, WidthsKept, [Next]_vars
  PROVE  WidthsKept'
<1> DEFINE GlobalWidths ==
             \A G \in Global : HasRange(G) =>
               G \in DOMAIN gvRange /\ gvRange[G].bits = prog.globals[G].bits
           ReturnWidths ==
             \A n \in DOMAIN prog.functions : LET f == prog.functions[n] IN
               ReturnsInteger(prog, f) =>
                 f \in DOMAIN retRange /\ retRange[f].bits = prog.returns[f]
<1>0. prog \in Programs
  BY DEF TypeOK, ControlOK
<1>1. CASE InitGlobalVariables
  <2>1. GlobalWidths'
    BY <1>0, <1>1, InitialRangeIsRange DEF InitGlobalVariables, HasRange
  <2> QED BY <1>1, <2>1 DEF InitGlobalVariables, WidthsKept
<1>2. CASE InitFunctionReturn
  <2>1. GlobalWidths'
    BY <1>2 DEF InitFunctionReturn, WidthsKept, HasRange
  <2>2. ReturnWidths'
    BY <1>2 DEF InitFunctionReturn, ToSet, Empty
  <2> QED BY <2>1, <2>2 DEF WidthsKept
<1>3. CASE HandleCall
  <2>1. prog' = prog /\ pc' = pc /\ pc = "visit" /\ gvRange' = gvRange
    BY <1>3 DEF HandleCall, At, Proceed
  <2>2. \A f \in DOMAIN retRange : f \in DOMAIN retRange' /\ retRange'[f] = retRange[f]
    BY <1>3, CallStep DEF Put
  <2> QED BY <2>1, <2>2 DEF WidthsKept, HasRange
<1>4. CASE HandleStore
  <2>1. prog' = prog /\ pc' = pc /\ pc = "visit" /\ retRange' = retRange
    BY <1>4 DEF HandleStore, At, Proceed
  <2>2. \A G \in DOMAIN gvRange : G \in DOMAIN gvRange' /\ gvRange'[G].bits = gvRange[G].bits
    BY <1>4, StoreStep DEF Put, RangeOfGlobal
  <2> QED BY <2>1, <2>2 DEF WidthsKept, HasRange
<1>5. CASE HandleReturn
  <2>1. prog' = prog /\ pc' = pc /\ pc = "visit" /\ gvRange' = gvRange
    BY <1>5 DEF HandleReturn, At, Proceed
  <2>2. \A f \in DOMAIN retRange : f \in DOMAIN retRange' /\ retRange'[f].bits = retRange[f].bits
    BY <1>5, ReturnStep DEF Put
  <2> QED BY <2>1, <2>2 DEF WidthsKept, HasRange
<1>6. CASE ~(InitGlobalVariables \/ InitFunctionReturn \/ HandleCall \/ HandleStore
             \/ HandleReturn)
  <2>1. /\ UNCHANGED <<prog, gvRange, retRange>>
        /\ pc = "initGlobals" <=> pc' = "initGlobals"
        /\ pc = "initReturns" <=> pc' = "initReturns"
    BY <1>6, QuietStep
  <2> QED BY <2>1 DEF WidthsKept, HasRange
<1> QED BY <1>1, <1>2, <1>3, <1>4, <1>5, <1>6

LEMMA TypesInvariant == Spec => [](TypeOK /\ WidthsKept)
<1>1. Init => TypeOK /\ WidthsKept
  <2> SUFFICES ASSUME Init PROVE TypeOK /\ WidthsKept
    OBVIOUS
  <2>1. prog.functions \in Seq(Function)
    BY ProgramsAssumption DEF Init, WellFormed
  <2>2. ControlOK
    BY <2>1, BuildAssumption DEF Init, ControlOK
  <2>3. MapsOK
    BY DEF Init, MapsOK, EmptyMap
  <2> QED BY <2>2, <2>3 DEF Init, TypeOK, WidthsKept
<1>2. TypeOK /\ WidthsKept /\ [Next]_vars => (TypeOK /\ WidthsKept)'
  <2> SUFFICES ASSUME TypeOK, WidthsKept, [Next]_vars PROVE TypeOK' /\ WidthsKept'
    OBVIOUS
  <2>1. ControlOK'
    BY ControlStep DEF TypeOK
  <2>2. MapsOK'
    BY MapsStep, ImpossibleStep DEF TypeOK, MapsOK
  <2> QED BY <2>1, <2>2, WidthsStep DEF TypeOK
<1> QED BY <1>1, <1>2, PTL DEF Spec

(***************************************************************************)
(* The pass is always at some place in the code, and its maps of globals   *)
(* and of functions hold ranges: no union of the handlers ends outside the *)
(* intervals that ConstantRange can represent.                             *)
(***************************************************************************)
THEOREM RangeAnalysisTypeOK == Spec => []TypeOK
BY TypesInvariant, PTL

-----------------------------------------------------------------------------
(***************************************************************************)
(* The ranges climb.                                                       *)
(***************************************************************************)
LEMMA GrowStep ==
  ASSUME TypeOK, WidthsKept, [Next]_vars, pc \notin {"initGlobals", "initReturns"}
  PROVE  Grows(gvRange, gvRange') /\ Grows(retRange, retRange')
<1> USE DEF Grows
<1>1. CASE HandleCall
  BY <1>1, CallStep DEF Put
<1>2. CASE HandleStore
  BY <1>2, StoreStep DEF Put, RangeOfGlobal
<1>3. CASE HandleReturn
  BY <1>3, ReturnStep DEF Put
<1>4. CASE ~(HandleCall \/ HandleStore \/ HandleReturn)
  <2>1. ~InitGlobalVariables /\ ~InitFunctionReturn
    BY DEF InitGlobalVariables, InitFunctionReturn
  <2> QED BY <1>4, <2>1, QuietStep
<1> QED BY <1>1, <1>2, <1>3, <1>4

(***************************************************************************)
(* From the end of initRange on, no step of the pass takes a value away    *)
(* from the range of a global or of a function.                            *)
(***************************************************************************)
THEOREM RangeAnalysisRangesGrow == Spec => RangesGrow
<1>1. TypeOK /\ WidthsKept /\ [Next]_vars
      => [pc \notin {"initGlobals", "initReturns"}
          => Grows(gvRange, gvRange') /\ Grows(retRange, retRange')]_vars
  BY GrowStep
<1> QED BY <1>1, TypesInvariant, PTL DEF Spec, RangesGrow

-----------------------------------------------------------------------------
(***************************************************************************)
(* What has been visited stays covered.                                    *)
(***************************************************************************)
Covered(n, k) ==
  LET f == prog.functions[n] IN
  StoreCovered(prog.code[f][k]) /\ ReturnCovered(f, prog.code[f][k])

\* Ranges that grow keep what they cover.
LEMMA CoveredStays ==
  ASSUME TypeOK, WidthsKept, [Next]_vars, pc \notin {"initGlobals", "initReturns"},
         NEW n \in DOMAIN prog.functions, NEW k \in DOMAIN prog.code[prog.functions[n]],
         Covered(n, k)
  PROVE  Covered(n, k)'
<1> DEFINE f == prog.functions[n]
           i == prog.code[f][k]
<1>1. prog' = prog
  BY ProgUnchanged
<1>2. Grows(gvRange, gvRange') /\ Grows(retRange, retRange')
  BY GrowStep
<1>3. \A G \in Global : HasRange(G) => G \in DOMAIN gvRange
  BY DEF WidthsKept
<1>4. ReturnsInteger(prog, f) => f \in DOMAIN retRange
  BY DEF WidthsKept
<1>5. StoreCovered(i)'
  BY <1>1, <1>2, <1>3 DEF Covered, StoreCovered, Grows, HasRange, Possible
<1>6. ReturnCovered(f, i)'
  BY <1>1, <1>2, <1>4 DEF Covered, ReturnCovered, Grows, Possible
<1> QED BY <1>5, <1>6 DEF Covered

\* The instruction that a handler has just dealt with is covered.
LEMMA HandledIsCovered ==
  ASSUME TypeOK, WidthsKept, HandleInstruction, NEW n, NEW k, n = fi, k = ip
  PROVE  Covered(n, k)'
<1> DEFINE f == prog.functions[n]
           i == prog.code[f][k]
<1>0. pc = "visit" /\ ip <= Len(prog.code[F]) /\ prog' = prog
  BY DEF HandleInstruction, HandleCall, SkipCall, HandleStore, HandleReturn, HandleSelect,
         HandleCast, HandleBinaryOperator, HandlePHI, HandleLoad, At, Proceed
<1>1. f = F /\ i = Inst /\ f' = f /\ i' = i /\ fi \in DOMAIN prog.functions
  BY <1>0, CurrentInstruction DEF F, Inst
<1>2. StoreCovered(i)'
  <2>1. CASE HandleStore
    <3> DEFINE joined == UnionWith(RangeOfGlobal(Inst.ptr), GetRange(Inst.val, map))
    <3>1. SUFFICES ASSUME StoresToGlobal, HasRange(Inst.ptr)
                   PROVE  Possible(Inst.val) \subseteq gvRange'[Inst.ptr].set
      BY <1>0, <1>1 DEF StoreCovered, StoresToGlobal, HasRange, Possible
    <3>2. Width[Inst.val] = prog.globals[Inst.ptr].bits
      BY <2>1, <3>1, StoredWidth
    <3>3. RangeOfGlobal(Inst.ptr).bits = prog.globals[Inst.ptr].bits
      BY <1>0, <3>1 DEF WidthsKept, RangeOfGlobal, StoresToGlobal
    <3>4. gvRange' = Put(gvRange, Inst.ptr, joined) /\ Possible(Inst.val) \subseteq joined.set
      BY <2>1, <3>1, <3>2, <3>3, StoreStep
    <3> QED BY <3>4 DEF Put
  <2>2. CASE ~HandleStore
    <3>1. Inst.op # "store"
      BY <2>2 DEF HandleInstruction, HandleCall, SkipCall, HandleReturn, HandleSelect,
                  HandleCast, HandleBinaryOperator, HandlePHI, HandleLoad, At
    <3> QED BY <1>0, <1>1, <3>1 DEF StoreCovered
  <2> QED BY <2>1, <2>2
<1>3. ReturnCovered(f, i)'
  <2>1. CASE HandleReturn
    <3> DEFINE joined == UnionWith(GetRange(Inst.val, map), retRange[F])
    <3>1. SUFFICES ASSUME ReturnsInteger(prog, F)
                   PROVE  Possible(Inst.val) \subseteq retRange'[F].set
      BY <1>0, <1>1 DEF ReturnCovered, Possible
    <3>2. retRange' = Put(retRange, F, joined) /\ Possible(Inst.val) \subseteq joined.set
      BY <2>1, <3>1, ReturnStep
    <3> QED BY <3>2 DEF Put
  <2>2. CASE ~HandleReturn
    <3>1. Inst.op # "ret"
      BY <2>2 DEF HandleInstruction, HandleCall, SkipCall, HandleStore, HandleSelect,
                  HandleCast, HandleBinaryOperator, HandlePHI, HandleLoad, At
    <3> QED BY <1>0, <1>1, <3>1 DEF ReturnCovered
  <2> QED BY <2>1, <2>2
<1> QED BY <1>2, <1>3 DEF Covered

(***************************************************************************)
(* A step adds at most the instruction just handled to what is visited.    *)
(***************************************************************************)
LEMMA VisitedStep ==
  ASSUME TypeOK, VisitedCovered, [Next]_vars,
         NEW n \in DOMAIN prog.functions, NEW k \in DOMAIN prog.code[prog.functions[n]],
         Visited(n, k)'
  PROVE  /\ pc \notin {"initGlobals", "initReturns"}
         /\ Visited(n, k) \/ (HandleInstruction /\ n = fi /\ k = ip)
<1> USE DEF Visited
<1>0. /\ prog \in Programs
      /\ pc \in {"initGlobals", "initReturns"} => iteration = 0
      /\ pc \in {"function", "edges", "visit", "done", "aborted"} => iteration # 0
      /\ iteration \in Nat /\ fi \in Nat /\ bb \in Nat \ {0} /\ ip \in Nat \ {0}
      /\ pc \in {"edges", "visit"} => fi \in DOMAIN prog.functions /\ bb \in Blocks
  BY BuildAssumption DEF TypeOK, ControlOK
<1>1. n \in Nat /\ n <= Len(prog.functions) /\ Len(prog.functions) \in Nat
  BY <1>0, ProgramsAssumption DEF WellFormed
<1>2. k \in Nat /\ k <= Len(prog.code[prog.functions[n]])
  BY <1>0, CurrentCode DEF IsSequence
<1>3. CASE InitGlobalVariables \/ InitFunctionReturn
  BY <1>0, <1>3 DEF InitGlobalVariables, InitFunctionReturn
<1>4. CASE BeginIteration
  BY <1>0, <1>1, <1>4 DEF BeginIteration, VisitedCovered
<1>5. CASE EndIteration
  BY <1>0, <1>5 DEF EndIteration
<1>6. CASE EnterBlock
  BY <1>0, <1>6 DEF EnterBlock
<1>7. CASE EndFunction
  <2>1. 1 \in Blocks
    <3>1. fi \in DOMAIN prog.functions
      BY <1>0, <1>7, ProgramsAssumption DEF EndFunction, WellFormed, TypeOK, ControlOK
    <3>2. IsSequence(prog.succ[F]) /\ Len(prog.succ[F]) > 0
      BY <1>0, <3>1, CurrentCode DEF F
    <3> QED BY <3>2 DEF Blocks, IsSequence
  <2>2. bb > 1
    BY <1>0, <1>7, <2>1 DEF EndFunction
  <2> QED BY <1>0, <1>1, <1>7, <2>2 DEF EndFunction
<1>8. CASE SkipBackEdge \/ LeaveBlock
  BY <1>0, <1>8 DEF SkipBackEdge, LeaveBlock
<1>9. CASE FollowEdge \/ VisitEntry
  BY <1>0, <1>2, <1>9 DEF FollowEdge, VisitEntry
<1>10. CASE EndVisit
  <2>1. n = fi => k < ip
    BY <1>0, <1>2, <1>10, CurrentCode DEF EndVisit, F, IsSequence
  <2> QED BY <1>0, <1>10, <2>1 DEF EndVisit
<1>11. CASE HandleInstruction
  <2>1. pc = "visit" /\ ip' = ip + 1 /\ UNCHANGED <<prog, pc, iteration, fi, bb>>
    BY <1>11 DEF HandleInstruction, HandleCall, SkipCall, HandleStore, HandleReturn,
                 HandleSelect, HandleCast, HandleBinaryOperator, HandlePHI, HandleLoad,
                 At, Proceed
  <2> QED BY <1>0, <1>2, <1>11, <2>1
<1>12. CASE Abort
  BY <1>0, <1>12 DEF Abort, Fails, At
<1>13. CASE UNCHANGED vars
  BY <1>0, <1>13 DEF vars
<1> QED
  BY <1>3, <1>4, <1>5, <1>6, <1>7, <1>8, <1>9, <1>10, <1>11, <1>12, <1>13
     DEF Next, Step, Terminated

(***************************************************************************)
(* The first iteration passes all the code of the module, in order, and    *)
(* what it has passed is covered ever after.                               *)
(***************************************************************************)
THEOREM RangeAnalysisRangesInv == Spec => []RangesInv
<1>1. Init => VisitedCovered
  BY DEF Init, VisitedCovered, Visited
<1>2. TypeOK /\ WidthsKept /\ VisitedCovered /\ [Next]_vars => VisitedCovered'
  <2> SUFFICES ASSUME TypeOK, WidthsKept, VisitedCovered, [Next]_vars
               PROVE  VisitedCovered'
    OBVIOUS
  <2>1. (pc \in {"iterate", "done"} /\ iteration # 0 => fi > Len(prog.functions))'
    <3>1. CASE InitGlobalVariables \/ InitFunctionReturn \/ BeginIteration
      BY <3>1 DEF InitGlobalVariables, InitFunctionReturn, BeginIteration, TypeOK, ControlOK
    <3>2. CASE EndIteration
      BY <3>2 DEF EndIteration
    <3>3. CASE UNCHANGED vars
      BY <3>3 DEF vars, VisitedCovered
    <3>4. CASE ~(InitGlobalVariables \/ InitFunctionReturn \/ BeginIteration \/ EndIteration)
               /\ vars' # vars
      <4>1. pc' \in {"function", "edges", "visit", "aborted"}
        BY <3>4 DEF Next, Step, Terminated, EnterBlock, EndFunction,
                    SkipBackEdge, FollowEdge, VisitEntry, LeaveBlock, EndVisit, Abort,
                    HandleInstruction, HandleCall, SkipCall, HandleStore, HandleReturn,
                    HandleSelect, HandleCast, HandleBinaryOperator, HandlePHI, HandleLoad,
                    At, Proceed
      <4> QED BY <4>1
    <3> QED BY <3>1, <3>2, <3>3, <3>4
  <2>2. prog' = prog
    BY ProgUnchanged
  <2>3. ASSUME NEW n \in DOMAIN prog.functions,
               NEW k \in DOMAIN prog.code[prog.functions[n]], Visited(n, k)'
        PROVE  Covered(n, k)'
    <3>1. /\ pc \notin {"initGlobals", "initReturns"}
          /\ Visited(n, k) \/ (HandleInstruction /\ n = fi /\ k = ip)
      BY <2>3, VisitedStep
    <3>2. CASE Visited(n, k)
      <4>1. Covered(n, k)
        BY <3>2 DEF VisitedCovered, Covered
      <4> QED BY <3>1, <4>1, CoveredStays
    <3>3. CASE HandleInstruction /\ n = fi /\ k = ip
      BY <3>3, HandledIsCovered
    <3> QED BY <3>1, <3>2, <3>3
  <2> QED BY <2>1, <2>2, <2>3 DEF VisitedCovered, Covered
<1> QED BY <1>1, <1>2, TypesInvariant, PTL DEF Spec, RangesInv

(***************************************************************************)
(* At the end a global integer or array has in its range all that a store  *)
(* straight to it can write.                                               *)
(***************************************************************************)
LEMMA AllVisitedWhenDone ==
  ASSUME TypeOK, VisitedCovered, Done
  PROVE  \A n \in DOMAIN prog.functions : \A k \in DOMAIN prog.code[prog.functions[n]] :
           Visited(n, k)
<1>1. fi > Len(prog.functions) /\ iteration \in Nat /\ iteration # 0 /\ fi \in Nat
  BY BuildAssumption DEF TypeOK, ControlOK, VisitedCovered, Done
<1>2. \A n \in DOMAIN prog.functions : n \in Nat /\ n <= Len(prog.functions)
  BY ProgramsAssumption DEF TypeOK, ControlOK, WellFormed
<1>3. \A n \in DOMAIN prog.functions : n < fi
  BY <1>1, <1>2, ProgramsAssumption DEF TypeOK, ControlOK, WellFormed
<1> QED BY <1>1, <1>3 DEF Visited

THEOREM RangeAnalysisGlobalsCovered == Spec => []GlobalsCovered
<1>1. TypeOK /\ RangesInv => GlobalsCovered
  BY AllVisitedWhenDone DEF RangesInv, VisitedCovered, GlobalsCovered
<1> QED BY <1>1, RangeAnalysisTypeOK, RangeAnalysisRangesInv, PTL

(***************************************************************************)
(* And the return range of a function all that it can return.              *)
(***************************************************************************)
THEOREM RangeAnalysisReturnsCovered == Spec => []ReturnsCovered
<1>1. TypeOK /\ RangesInv => ReturnsCovered
  BY AllVisitedWhenDone DEF RangesInv, VisitedCovered, ReturnsCovered
<1> QED BY <1>1, RangeAnalysisTypeOK, RangeAnalysisRangesInv, PTL

-----------------------------------------------------------------------------
(***************************************************************************)
(* A map of blocks in which only the entry block can have a range.         *)
(***************************************************************************)
Blank(m) == \A b \in DOMAIN m \ {1} : m[b] = EmptyMap

RecordedInv == DOMAIN rangeInfo = Function /\ OnlyEntryRecorded

LEMMA BlankEmplace ==
  ASSUME NEW m, NEW k, Blank(m)
  PROVE  Blank(Emplace(m, k, EmptyMap))
BY DEF Blank, Emplace, Put

LEMMA BlankUpdate ==
  ASSUME NEW f \in Function, NEW info, RecordedInv, Blank(info),
         rangeInfo' = [rangeInfo EXCEPT ![f] = info]
  PROVE  RecordedInv'
<1>1. DOMAIN rangeInfo' = Function
  BY DEF RecordedInv
<1>2. ASSUME NEW g \in Function PROVE Blank(rangeInfo'[g])
  BY <1>2 DEF RecordedInv, OnlyEntryRecorded, Blank
<1> QED BY <1>1, <1>2 DEF RecordedInv, OnlyEntryRecorded, Blank

(***************************************************************************)
(* No range ever reaches the map of a block that is not an entry block:    *)
(* the five handlers that touch functionsToRangeInfo enter blocks with an  *)
(* empty map, or write the map of block 1.                                 *)
(***************************************************************************)
THEOREM RangeAnalysisOnlyEntryRecorded == Spec => []OnlyEntryRecorded
<1>1. Init => RecordedInv
  BY DEF Init, RecordedInv, OnlyEntryRecorded, EmptyMap
<1>2. TypeOK /\ RecordedInv /\ [Next]_vars => RecordedInv'
  <2> SUFFICES ASSUME TypeOK, RecordedInv, [Next]_vars
               PROVE  RecordedInv'
    OBVIOUS
  <2>1. ASSUME fi \in DOMAIN prog.functions
        PROVE  F \in Function /\ Blank(rangeInfo[F])
    <3>1. F \in Function
      BY <2>1, CurrentCode DEF F, TypeOK, ControlOK
    <3> QED BY <3>1 DEF RecordedInv, OnlyEntryRecorded, Blank
  <2>2. CASE UNCHANGED rangeInfo
    BY <2>2 DEF RecordedInv, OnlyEntryRecorded
  <2>3. CASE InitFunctionReturn
    BY <2>3 DEF InitFunctionReturn, RecordedInv, OnlyEntryRecorded, Put, EmptyMap
  <2>4. CASE EnterBlock
    <3>1. fi \in DOMAIN prog.functions
      BY <2>4, ProgramsAssumption DEF EnterBlock, TypeOK, ControlOK, WellFormed
    <3>2. rangeInfo' = [rangeInfo EXCEPT ![F] = Emplace(rangeInfo[F], bb, EmptyMap)]
      BY <2>4 DEF EnterBlock
    <3> QED BY <2>1, <3>1, <3>2, BlankEmplace, BlankUpdate
  <2>5. CASE FollowEdge
    <3>1. fi \in DOMAIN prog.functions
      BY <2>5 DEF FollowEdge, TypeOK, ControlOK
    <3>2. PICK p : rangeInfo' = [rangeInfo EXCEPT ![F] = Emplace(rangeInfo[F], p, EmptyMap)]
      BY <2>5 DEF FollowEdge, Follow
    <3> QED BY <2>1, <3>1, <3>2, BlankEmplace, BlankUpdate
  <2>6. CASE EndVisit /\ bb = 1
    <3> DEFINE info == [rangeInfo[F] EXCEPT ![1] = map]
    <3>1. fi \in DOMAIN prog.functions
      BY <2>6 DEF EndVisit, TypeOK, ControlOK
    <3>2. rangeInfo' = [rangeInfo EXCEPT ![F] = info]
      BY <2>6 DEF EndVisit
    <3>3. Blank(info)
      BY <2>1, <3>1 DEF Blank
    <3> HIDE DEF info
    <3> QED BY <2>1, <3>1, <3>2, <3>3, BlankUpdate
  <2>7. CASE HandlePHI
    <3> DEFINE from == {inc.from : inc \in ToSet(Inst.incoming)} \ BackEdges(Inst.parent)
               info == [b \in DOMAIN rangeInfo[F] \cup from |->
                          IF b \in DOMAIN rangeInfo[F] THEN rangeInfo[F][b] ELSE EmptyMap]
    <3>1. fi \in DOMAIN prog.functions
      BY <2>7 DEF HandlePHI, At, TypeOK, ControlOK
    <3>2. rangeInfo' = [rangeInfo EXCEPT ![F] = info]
      BY <2>7 DEF HandlePHI
    <3>3. Blank(info)
      <4> HIDE DEF from
      <4> QED BY <2>1, <3>1 DEF Blank
    <3> HIDE DEF info
    <3> QED BY <2>1, <3>1, <3>2, <3>3, BlankUpdate
  <2>8. CASE Terminated \/ UNCHANGED vars
    BY <2>2, <2>8 DEF Terminated, vars
  <2>9. CASE ~(InitFunctionReturn \/ EnterBlock \/ FollowEdge \/ (EndVisit /\ bb = 1)
               \/ HandlePHI \/ Terminated \/ UNCHANGED vars)
    <3>1. UNCHANGED rangeInfo
      BY <2>9 DEF Next, Step, HandleInstruction, InitGlobalVariables, BeginIteration,
                  EndIteration, SkipBackEdge, VisitEntry, LeaveBlock, EndVisit, EndFunction,
                  HandleCall, SkipCall, HandleStore, HandleReturn, HandleSelect, HandleCast,
                  HandleBinaryOperator, HandleLoad, Abort, results
    <3> QED BY <2>2, <3>1
  <2> QED BY <2>3, <2>4, <2>5, <2>6, <2>7, <2>8, <2>9
<1>3. RecordedInv => OnlyEntryRecorded
  BY DEF RecordedInv
<1> QED BY <1>1, <1>2, <1>3, RangeAnalysisTypeOK, PTL DEF Spec

-----------------------------------------------------------------------------
(***************************************************************************)
(* Branches that are called impossible.                                    *)
(***************************************************************************)
\* What is left of an operand by a comparison holds all that satisfies it.
LEMMA RefinedHolds ==
  ASSUME NEW v \in Value, ~IsConst(v), NEW range, NEW pred, NEW other,
         IsRange(range), other.bits = range.bits
  PROVE  \A x \in range.set, y \in other.set :
           ICmp(pred, range.bits, x, y) => x \in RefinedOperand(v, range, pred, other).set
<1> DEFINE region == AllowedICmpRegion(pred, other)
<1>1. range.bits \in Widths /\ range.set \subseteq Domain(range.bits)
  BY RangeInDomain
<1>2. range.set \cap region.set \subseteq Cover(range.bits, range.set \cap region.set).set
  <2> HIDE DEF region
  <2> QED BY <1>1, CoverIsRange
<1>3. RefinedOperand(v, range, pred, other) = Cover(range.bits, range.set \cap region.set)
  BY DEF RefinedOperand, IntersectWith
<1>4. \A x \in range.set, y \in other.set : ICmp(pred, range.bits, x, y) => x \in region.set
  BY <1>1 DEF AllowedICmpRegion
<1> QED BY <1>2, <1>3, <1>4

\* Nothing is left exactly if nothing satisfies it.
LEMMA RefinedEmpty ==
  ASSUME NEW v \in Value, ~IsConst(v), NEW range, NEW pred, NEW other,
         IsRange(range), other.bits = range.bits
  PROVE  RefinedOperand(v, range, pred, other).set = {}
         <=> \A x \in range.set, y \in other.set : ~ICmp(pred, range.bits, x, y)
<1> DEFINE region == AllowedICmpRegion(pred, other)
<1>1. ASSUME \A x \in range.set, y \in other.set : ~ICmp(pred, range.bits, x, y)
      PROVE  RefinedOperand(v, range, pred, other).set = {}
  <2>1. range.set \cap region.set = {}
    BY <1>1 DEF AllowedICmpRegion
  <2>2. RefinedOperand(v, range, pred, other) = Cover(range.bits, range.set \cap region.set)
    BY DEF RefinedOperand, IntersectWith
  <2>3. range.bits \in Widths
    BY RangeInDomain
  <2> HIDE DEF region
  <2> QED BY <2>1, <2>2, <2>3, CoverOfNothing
<1> QED BY <1>1, RefinedHolds

(***************************************************************************)
(* What the edge from p to bb leaves of the two operands of its comparison.*)
(***************************************************************************)
LeftPred(t) == IF IsTrueBranch(t) THEN t.pred ELSE InversePredicate[t.pred]

RightPred(t) == IF IsTrueBranch(t) THEN SwappedPredicate[t.pred] ELSE InversePredicate[t.pred]

LeftOver(t, p) ==
  RefinedOperand(t.lhs, GetRangeByBB(t.lhs, p), LeftPred(t), GetRangeByBB(t.rhs, p))

RightOver(t, p) ==
  RefinedOperand(t.rhs, GetRangeByBB(t.rhs, p), RightPred(t), GetRangeByBB(t.lhs, p))

LEMMA EdgeOperands ==
  ASSUME TypeOK, pc = "edges", NEW p \in preds, NEW t, t = prog.term[F][p], Compares(t)
  PROVE  /\ t.pred \in Predicates /\ Width[t.lhs] \in Nat
         /\ Possible(t.lhs) \subseteq Domain(Width[t.lhs]) /\ Possible(t.lhs) # {}
         /\ Possible(t.rhs) \subseteq Domain(Width[t.lhs]) /\ Possible(t.rhs) # {}
         /\ ~IsConst(t.rhs) => Possible(t.rhs) = Domain(Width[t.lhs])
         /\ ContradictsCompare(t, BranchRange(p)) =>
              LeftOver(t, p).set = {} \/ RightOver(t, p).set = {}
         /\ RightOver(t, p).set = {} => ContradictsCompare(t, BranchRange(p))
         /\ LeftOver(t, p).set = {} /\ t.lhs # t.rhs => ContradictsCompare(t, BranchRange(p))
         /\ LeftOver(t, p).set = {} <=>
              /\ ~IsConst(t.lhs)
              /\ \A x \in Possible(t.lhs), y \in Possible(t.rhs) :
                   ~ICmp(LeftPred(t), Width[t.lhs], x, y)
         /\ RightOver(t, p).set = {} <=>
              /\ ~IsConst(t.rhs)
              /\ \A x \in Possible(t.lhs), y \in Possible(t.rhs) :
                   ~ICmp(RightPred(t), Width[t.lhs], y, x)
<1> DEFINE bits == Width[t.lhs]
           L == GetRangeByBB(t.lhs, p)
           R == GetRangeByBB(t.rhs, p)
           old == Emplace(rangeInfo[F], p, EmptyMap)[p]
<1>1. /\ {t.lhs, t.rhs} \subseteq Value /\ t.pred \in Predicates
      /\ Width[t.rhs] = bits /\ bits \in Nat
  <2>1. fi \in DOMAIN prog.functions /\ prog \in Programs /\ p \in Blocks
    BY DEF TypeOK, ControlOK, Predecessors
  <2>2. WellFormedFunction(prog, F)
    BY <2>1, ProgramsAssumption DEF WellFormed, F
  <2>3. WellFormedTerminator(t) /\ t.op = "icmp"
    BY <2>1, <2>2 DEF WellFormedFunction, Blocks, Compares
  <2>4. {t.lhs, t.rhs} \subseteq Value /\ t.pred \in Predicates /\ Width[t.rhs] = bits
    BY <2>3 DEF WellFormedTerminator
  <2> QED BY <2>4, ValuesAssumption, WidthsAssumption
<1>2. /\ IsRange(L) /\ L.bits = bits /\ L.set = Possible(t.lhs)
      /\ IsRange(R) /\ R.bits = bits /\ R.set = Possible(t.rhs)
  BY <1>1, GetRangeCovers DEF GetRangeByBB
<1>3. BranchRange(p) = Put(Put(old, t.lhs, LeftOver(t, p)), t.rhs, RightOver(t, p))
  BY DEF BranchRange, RefineCompare, LeftOver, RightOver, LeftPred, RightPred
<1>4. /\ ContradictsCompare(t, BranchRange(p)) =>
           LeftOver(t, p).set = {} \/ RightOver(t, p).set = {}
      /\ RightOver(t, p).set = {} => ContradictsCompare(t, BranchRange(p))
      /\ LeftOver(t, p).set = {} /\ t.lhs # t.rhs => ContradictsCompare(t, BranchRange(p))
  <2> HIDE DEF old
  <2> QED BY <1>3 DEF ContradictsCompare, Put
<1>5. /\ Possible(t.lhs) \subseteq Domain(bits) /\ Possible(t.lhs) # {}
      /\ Possible(t.rhs) \subseteq Domain(bits) /\ Possible(t.rhs) # {}
      /\ ~IsConst(t.rhs) => Possible(t.rhs) = Domain(bits)
  <2>1. Domain(bits) # {}
    BY <1>1, PowerOfTwo DEF Domain
  <2> QED BY <1>1, <1>2, <2>1, RangeInDomain DEF Possible
<1> HIDE DEF bits, L, R
<1>6. LeftOver(t, p) = RefinedOperand(t.lhs, L, LeftPred(t), R)
      /\ RightOver(t, p) = RefinedOperand(t.rhs, R, RightPred(t), L)
  BY DEF LeftOver, RightOver, L, R
<1>7. LeftOver(t, p).set = {} <=>
        /\ ~IsConst(t.lhs)
        /\ \A x \in Possible(t.lhs), y \in Possible(t.rhs) : ~ICmp(LeftPred(t), bits, x, y)
  <2>1. CASE IsConst(t.lhs)
    BY <1>2, <1>5, <1>6, <2>1 DEF RefinedOperand
  <2>2. CASE ~IsConst(t.lhs)
    BY <1>1, <1>2, <1>6, <2>2, RefinedEmpty
  <2> QED BY <2>1, <2>2
<1>8. RightOver(t, p).set = {} <=>
        /\ ~IsConst(t.rhs)
        /\ \A x \in Possible(t.lhs), y \in Possible(t.rhs) : ~ICmp(RightPred(t), bits, y, x)
  <2>1. CASE IsConst(t.rhs)
    BY <1>2, <1>5, <1>6, <2>1 DEF RefinedOperand
  <2>2. CASE ~IsConst(t.rhs)
    BY <1>1, <1>2, <1>6, <2>2, RefinedEmpty
  <2> QED BY <2>1, <2>2
<1> QED BY <1>1, <1>4, <1>5, <1>7, <1>8 DEF bits

(***************************************************************************)
(* A contradiction on an edge: one of the operands has nothing left.  The  *)
(* right one loses its values to the wrong predicate on a false edge, but  *)
(* only when it is no constant, and then both operands can be anything, so *)
(* that it does not matter in which order they are compared.               *)
(***************************************************************************)
LEMMA ContradictionIsInfeasible ==
  ASSUME TypeOK, pc = "edges", NEW p \in preds, NEW t, t = prog.term[F][p], Compares(t),
         ~IsConst(t.lhs), ContradictsCompare(t, BranchRange(p))
  PROVE  Infeasible(t, IsTrueBranch(t))
<1> DEFINE bits == Width[t.lhs]
<1> SUFFICES ASSUME NEW x \in Possible(t.lhs), NEW y \in Possible(t.rhs)
             PROVE  ICmp(t.pred, bits, x, y) # IsTrueBranch(t)
  BY DEF Infeasible
<1>1. t.pred \in Predicates /\ bits \in Nat /\ x \in Domain(bits) /\ y \in Domain(bits)
  BY EdgeOperands
<1>2. IsTrueBranch(t) \in BOOLEAN
  BY DEF IsTrueBranch
<1>3. LeftOver(t, p).set = {} \/ RightOver(t, p).set = {}
  BY EdgeOperands
<1>4. CASE LeftOver(t, p).set = {}
  <2>1. ~ICmp(LeftPred(t), bits, x, y)
    BY <1>4, EdgeOperands
  <2> HIDE DEF bits
  <2> QED BY <1>1, <1>2, <2>1, Comparisons DEF LeftPred
<1>5. CASE RightOver(t, p).set = {}
  <2>1. Possible(t.lhs) = Domain(bits) /\ Possible(t.rhs) = Domain(bits)
    BY <1>5, EdgeOperands DEF Possible
  <2>2. ~ICmp(RightPred(t), bits, y, x) /\ ~ICmp(RightPred(t), bits, x, y)
    BY <1>1, <1>5, <2>1, EdgeOperands
  <2> HIDE DEF bits
  <2> QED BY <1>1, <1>2, <2>2, Comparisons DEF RightPred
<1> QED BY <1>3, <1>4, <1>5

(***************************************************************************)
(* On a true edge the right operand is refined by the swapped predicate,   *)
(* so there the contradiction is exact whichever operand is a constant;    *)
(* and where no values make the comparison true, the false edge leaves     *)
(* something of both operands and finds no contradiction.                  *)
(***************************************************************************)
LEMMA TrueEdgeExact ==
  ASSUME TypeOK, pc = "edges", NEW p \in preds, NEW t, t = prog.term[F][p], Compares(t)
  PROVE  /\ IsTrueBranch(t) /\ ContradictsCompare(t, BranchRange(p)) => Infeasible(t, TRUE)
         /\ IsTrueBranch(t) /\ Infeasible(t, TRUE) /\ Refinable(t)
              => ContradictsCompare(t, BranchRange(p))
         /\ ~IsTrueBranch(t) /\ Infeasible(t, TRUE) => ~ContradictsCompare(t, BranchRange(p))
<1> DEFINE bits == Width[t.lhs]
           Never(x, y) == ~ICmp(t.pred, bits, x, y)
<1>1. t.pred \in Predicates /\ bits \in Nat
  BY EdgeOperands
<1>2. /\ Possible(t.lhs) \subseteq Domain(bits) /\ Possible(t.lhs) # {}
      /\ Possible(t.rhs) \subseteq Domain(bits) /\ Possible(t.rhs) # {}
  BY EdgeOperands
<1>3. \A x \in Domain(bits), y \in Domain(bits) :
        /\ ICmp(t.pred, bits, x, y) \in BOOLEAN
        /\ ICmp(InversePredicate[t.pred], bits, x, y) <=> Never(x, y)
        /\ ~ICmp(SwappedPredicate[t.pred], bits, y, x) <=> Never(x, y)
  <2> HIDE DEF bits
  <2> QED BY <1>1, Comparisons DEF bits
<1>4. Infeasible(t, TRUE) <=> \A x \in Possible(t.lhs), y \in Possible(t.rhs) : Never(x, y)
  <2>1. \A x \in Possible(t.lhs), y \in Possible(t.rhs) :
          ICmp(t.pred, bits, x, y) # TRUE <=> Never(x, y)
    BY <1>2, <1>3
  <2> HIDE DEF Never
  <2> QED BY <2>1 DEF Infeasible
<1>5. CASE IsTrueBranch(t)
  <2>1. LeftOver(t, p).set = {} <=> ~IsConst(t.lhs) /\ Infeasible(t, TRUE)
    <3>1. LeftPred(t) = t.pred
      BY <1>5 DEF LeftPred
    <3>2. \A x \in Possible(t.lhs), y \in Possible(t.rhs) :
            ~ICmp(LeftPred(t), bits, x, y) <=> Never(x, y)
      BY <3>1
    <3>3. LeftOver(t, p).set = {} <=>
            /\ ~IsConst(t.lhs)
            /\ \A x \in Possible(t.lhs), y \in Possible(t.rhs) : ~ICmp(LeftPred(t), bits, x, y)
      BY EdgeOperands
    <3> HIDE DEF Never
    <3> QED BY <1>4, <3>2, <3>3
  <2>2. RightOver(t, p).set = {} <=> ~IsConst(t.rhs) /\ Infeasible(t, TRUE)
    <3>1. RightPred(t) = SwappedPredicate[t.pred]
      BY <1>5 DEF RightPred
    <3>2. \A x \in Possible(t.lhs), y \in Possible(t.rhs) :
            ~ICmp(RightPred(t), bits, y, x) <=> Never(x, y)
      BY <1>2, <1>3, <3>1
    <3>3. RightOver(t, p).set = {} <=>
            /\ ~IsConst(t.rhs)
            /\ \A x \in Possible(t.lhs), y \in Possible(t.rhs) : ~ICmp(RightPred(t), bits, y, x)
      BY EdgeOperands
    <3> HIDE DEF Never
    <3> QED BY <1>4, <3>2, <3>3
  <2>3. Refinable(t) => ~IsConst(t.rhs) \/ (~IsConst(t.lhs) /\ t.lhs # t.rhs)
    BY DEF Refinable
  <2> QED BY <1>5, <2>1, <2>2, <2>3, EdgeOperands
<1>6. CASE ~IsTrueBranch(t)
  <2> SUFFICES ASSUME Infeasible(t, TRUE), ContradictsCompare(t, BranchRange(p))
               PROVE  FALSE
    BY <1>6
  <2>1. PICK x \in Possible(t.lhs), y \in Possible(t.rhs) : TRUE
    BY <1>2
  <2>2. x \in Domain(bits) /\ y \in Domain(bits) /\ Never(x, y)
    BY <1>2, <1>4, <2>1
  <2>3. LeftPred(t) = InversePredicate[t.pred] /\ RightPred(t) = InversePredicate[t.pred]
    BY <1>6 DEF LeftPred, RightPred
  <2>4. CASE LeftOver(t, p).set = {}
    <3>1. ~ICmp(LeftPred(t), bits, x, y)
      BY <2>1, <2>4, EdgeOperands
    <3> HIDE DEF Never
    <3> QED BY <1>3, <2>2, <2>3, <3>1
  <2>5. CASE RightOver(t, p).set = {}
    <3>1. Possible(t.rhs) = Domain(bits)
      BY <2>5, EdgeOperands
    <3>2. Never(x, x) /\ ~ICmp(RightPred(t), bits, x, x)
      BY <1>4, <2>1, <2>2, <2>5, <3>1, EdgeOperands
    <3> HIDE DEF Never
    <3> QED BY <1>3, <2>2, <2>3, <3>2
  <2> QED BY <2>4, <2>5, EdgeOperands
<1> QED BY <1>5, <1>6

\* Only following an edge writes to impossibleBranches, and only a contradiction.
LEMMA ContradictionStep ==
  ASSUME [Next]_vars, impossible' # impossible
  PROVE  /\ FollowEdge
         /\ \E p \in preds : \E t :
              /\ t = prog.term[F][p] /\ Compares(t) /\ ContradictsCompare(t, BranchRange(p))
              /\ impossible' = Put(impossible, t.id, IsTrueBranch(t))
<1>1. FollowEdge
  BY DEF Next, Step, Terminated, vars, InitGlobalVariables, InitFunctionReturn,
         BeginIteration, EndIteration, EnterBlock, EndFunction, SkipBackEdge,
         VisitEntry, LeaveBlock, EndVisit, Abort, HandleInstruction, HandleCall,
         SkipCall, HandleStore, HandleReturn, HandleSelect, HandleCast,
         HandleBinaryOperator, HandlePHI, HandleLoad, Proceed
<1>2. PICK p \in preds \ BackEdges(bb) : Follow(p, prog.term[F][p], BranchRange(p))
  BY <1>1 DEF FollowEdge
<1> DEFINE t == prog.term[F][p]
           branchRange == BranchRange(p)
<1>3. /\ Compares(t) /\ ContradictsCompare(t, branchRange)
      /\ impossible' = Put(impossible, t.id, IsTrueBranch(t))
  <2>1. Follow(p, t, branchRange)
    BY <1>2
  <2> HIDE DEF branchRange
  <2> QED BY <2>1 DEF Follow
<1> QED BY <1>1, <1>2, <1>3

\* Another branch on the same comparison has its operands.
LEMMA SameComparison ==
  ASSUME TypeOK, pc = "edges", NEW p \in preds, NEW t, t = prog.term[F][p], Compares(t),
         NEW n \in DOMAIN prog.functions, NEW b \in DOMAIN prog.succ[prog.functions[n]],
         NEW u, u = prog.term[prog.functions[n]][b], u.op = "icmp", u.id = t.id
  PROVE  t.pred = u.pred /\ t.lhs = u.lhs /\ t.rhs = u.rhs
<1>1. /\ fi \in DOMAIN prog.functions /\ prog \in Programs
      /\ F = prog.functions[fi] /\ p \in DOMAIN prog.succ[F]
  BY DEF TypeOK, ControlOK, Predecessors, Blocks, F
<1>2. OneComparison(t, u)
  BY <1>1, ProgramsAssumption DEF WellFormed
<1> QED BY <1>2 DEF OneComparison, Compares

\* What ImpossibleAreInfeasible says of one branch t.
BranchOK(t) ==
  t.op = "icmp" /\ t.id \in DOMAIN impossible /\ ~IsConst(t.lhs)
  => Infeasible(t, impossible[t.id])

(***************************************************************************)
(* What impossibleBranches says of a comparison of anything but a constant *)
(* on the left is so, for all comparisons and for all that is recorded     *)
(* on any visit: no values of the operands give that outcome.              *)
(***************************************************************************)
THEOREM RangeAnalysisImpossibleAreInfeasible == Spec => []ImpossibleAreInfeasible
<1>1. Init => ImpossibleAreInfeasible
  BY DEF Init, ImpossibleAreInfeasible, EmptyMap
<1>2. TypeOK /\ ImpossibleAreInfeasible /\ [Next]_vars => ImpossibleAreInfeasible'
  <2> SUFFICES ASSUME TypeOK, ImpossibleAreInfeasible, [Next]_vars
               PROVE  ImpossibleAreInfeasible'
    OBVIOUS
  <2>1. prog' = prog
    BY ProgUnchanged
  <2>2. CASE impossible' = impossible
    <3>1. ASSUME NEW t, BranchOK(t) PROVE BranchOK(t)'
      BY <2>2, <3>1, Zenon DEF BranchOK, Infeasible, Possible
    <3> QED BY <2>1, <3>1 DEF ImpossibleAreInfeasible, BranchOK
  <2>3. CASE impossible' # impossible
    <3>1. PICK p \in preds : \E t :
            /\ t = prog.term[F][p] /\ Compares(t) /\ ContradictsCompare(t, BranchRange(p))
            /\ impossible' = Put(impossible, t.id, IsTrueBranch(t))
      BY <2>3, ContradictionStep
    <3>1a. PICK t :
            /\ t = prog.term[F][p] /\ Compares(t) /\ ContradictsCompare(t, BranchRange(p))
            /\ impossible' = Put(impossible, t.id, IsTrueBranch(t))
      BY <3>1
    <3>2. pc = "edges"
      BY <2>3, ContradictionStep DEF FollowEdge
    <3>3. ~IsConst(t.lhs) => Infeasible(t, IsTrueBranch(t))
      BY <3>1a, <3>2, ContradictionIsInfeasible
    <3> SUFFICES ASSUME NEW n \in DOMAIN prog.functions,
                        NEW b \in DOMAIN prog.succ[prog.functions[n]]
                 PROVE  BranchOK(prog.term[prog.functions[n]][b])'
      BY <2>1 DEF ImpossibleAreInfeasible, BranchOK
    <3> DEFINE u == prog.term[prog.functions[n]][b]
    <3> SUFFICES ASSUME u.op = "icmp", u.id \in DOMAIN impossible', ~IsConst(u.lhs)
                 PROVE  Infeasible(u, impossible'[u.id])
      BY <2>1 DEF BranchOK, Infeasible, Possible
    <3>4. CASE u.id = t.id
      <4>1. t.pred = u.pred /\ t.lhs = u.lhs /\ t.rhs = u.rhs
        BY <3>1a, <3>2, <3>4, SameComparison
      <4>2. Infeasible(u, IsTrueBranch(t))
        <5> HIDE DEF u
        <5> QED BY <3>3, <4>1 DEF Infeasible, u
      <4>3. impossible'[u.id] = IsTrueBranch(t)
        BY <3>1a, <3>4 DEF Put
      <4> QED BY <4>2, <4>3
    <3>5. CASE u.id # t.id
      <4>1. u.id \in DOMAIN impossible /\ impossible'[u.id] = impossible[u.id]
        BY <3>1a, <3>5 DEF Put
      <4>2. BranchOK(u)
        BY DEF ImpossibleAreInfeasible, BranchOK
      <4> HIDE DEF u
      <4> QED BY <4>1, <4>2 DEF BranchOK
    <3> QED BY <3>4, <3>5
  <2> QED BY <2>2, <2>3
<1> QED BY <1>1, <1>2, RangeAnalysisTypeOK, PTL DEF Spec

-----------------------------------------------------------------------------
(***************************************************************************)
(* The entry block's map.  Its keys are instructions that analyzeFunction  *)
(* always records; what it holds for a PHI node does not depend on any     *)
(* map, and what it holds for a select is the union of what it holds for   *)
(* the operands.  To visit the code on it once more therefore finds        *)
(* everything there as it would be computed.  A call is never in it.       *)
(***************************************************************************)
IsFcn(m) == m = [k \in DOMAIN m |-> m[k]]

Extends(m, next) == \A v \in DOMAIN m : v \in DOMAIN next /\ next[v] = m[v]

Records(p, i) ==
  \/ i.op \in {"select", "cast", "binop", "phi"}
  \/ /\ i.op = "load"
     /\ i.ptr \in Global
     /\ p.globals[i.ptr].type = "integer"
     /\ p.globals[i.ptr].values # <<>>

RecordedKeys(p, f) ==
  {p.code[f][k].id : k \in {j \in DOMAIN p.code[f] : Records(p, p.code[f][j])}}

PHIRange(p, f, i) ==
  LET merged == MergedIncoming(i.incoming, CyclePreds(p.succ[f], i.parent))
  IN  UnionOf(Width[i.id], [k \in DOMAIN merged |-> GetRange(merged[k].val, EmptyMap)])

RecordOK(p, f, i, m) ==
  i.id \in DOMAIN m =>
    /\ i.op = "phi" => m[i.id] = PHIRange(p, f, i)
    /\ i.op = "select" => /\ i.true \in DOMAIN m /\ i.false \in DOMAIN m
                          /\ m[i.id] = UnionWith(m[i.true], m[i.false])

EntryMapOK(p, f, m) ==
  /\ IsFcn(m)
  /\ DOMAIN m \subseteq RecordedKeys(p, f)
  /\ \A k \in DOMAIN p.code[f] :
       Records(p, p.code[f][k]) => RecordOK(p, f, p.code[f][k], m)

\* An instruction whose result is recorded, by what its handler does to the map.
Updates(p, f, i, m, next) ==
  \/ ~Records(p, i) /\ next = m
  \/ /\ Records(p, i) /\ i.op \notin {"phi", "select"}
     /\ \E r : next = Emplace(m, i.id, r)
  \/ i.op = "phi" /\ next = Put(m, i.id, PHIRange(p, f, i))
  \/ /\ i.op = "select"
     /\ LET ranges == Emplace(m, i.id, Full(Width[i.id])) IN
        /\ i.true \in DOMAIN ranges /\ i.false \in DOMAIN ranges
        /\ next = Put(ranges, i.id, UnionWith(ranges[i.true], ranges[i.false]))

\* The result of i is recorded, and no other instruction of f has it.
IsInstruction(p, f, i) ==
  /\ Records(p, i) => i.id \in RecordedKeys(p, f)
  /\ \A k \in DOMAIN p.code[f] :
       Records(p, i) /\ Records(p, p.code[f][k]) /\ p.code[f][k].id = i.id => p.code[f][k] = i
  /\ i.op = "select" => i.id # i.true /\ i.id # i.false
  /\ i.op = "call" => i.id \notin RecordedKeys(p, f)

LEMMA InstructionsAre ==
  ASSUME NEW p \in Programs, NEW n \in DOMAIN p.functions,
         NEW k \in DOMAIN p.code[p.functions[n]]
  PROVE  IsInstruction(p, p.functions[n], p.code[p.functions[n]][k])
<1> DEFINE f == p.functions[n]
           i == p.code[f][k]
<1>1. WellFormedInstruction(p, f, i) /\ SingleAssignment(p, f)
  BY ProgramsAssumption DEF WellFormed, WellFormedFunction
<1>2. \A j \in DOMAIN p.code[f] : Records(p, p.code[f][j]) => Defines(p.code[f][j])
  BY DEF Records, Defines
<1>3. Records(p, i) => i.id \in RecordedKeys(p, f)
  BY DEF RecordedKeys
<1>4. ASSUME NEW j \in DOMAIN p.code[f],
             Records(p, i), Records(p, p.code[f][j]), p.code[f][j].id = i.id
      PROVE  p.code[f][j] = i
  BY <1>1, <1>2, <1>4 DEF SingleAssignment
<1>5. i.op = "select" => i.id # i.true /\ i.id # i.false
  BY <1>1 DEF WellFormedInstruction
<1>6. ASSUME i.op = "call", i.id \in RecordedKeys(p, f)
      PROVE  FALSE
  <2>1. PICK j \in DOMAIN p.code[f] : Records(p, p.code[f][j]) /\ p.code[f][j].id = i.id
    BY <1>6 DEF RecordedKeys
  <2>2. Defines(i)
    BY <1>6 DEF Defines
  <2>3. j = k
    BY <1>1, <1>2, <2>1, <2>2 DEF SingleAssignment
  <2> QED BY <1>6, <2>1, <2>3 DEF Records
<1> QED BY <1>3, <1>4, <1>5, <1>6 DEF IsInstruction

\* What is right about a record of u stays so in a map that extends the one it is in.
LEMMA RecordStays ==
  ASSUME NEW p, NEW f, NEW u, NEW m, NEW next, RecordOK(p, f, u, m), Extends(m, next),
         u.id \in DOMAIN next => u.id \in DOMAIN m
  PROVE  RecordOK(p, f, u, next)
BY DEF RecordOK, Extends

\* On the entry block's map, what is assigned is what was there, if anything was.
LEMMA UpdateStep ==
  ASSUME NEW p, NEW f, NEW i, IsInstruction(p, f, i),
         NEW m, NEW next, EntryMapOK(p, f, m), Updates(p, f, i, m, next)
  PROVE  /\ EntryMapOK(p, f, next)
         /\ Extends(m, next)
         /\ Records(p, i) => i.id \in DOMAIN next
<1>1. CASE ~Records(p, i) /\ next = m
  BY <1>1 DEF Extends
<1>2. ASSUME Records(p, i)
      PROVE  IsFcn(m) /\ RecordOK(p, f, i, m)
  <2>1. PICK k \in DOMAIN p.code[f] : Records(p, p.code[f][k]) /\ p.code[f][k].id = i.id
    BY <1>2 DEF IsInstruction, RecordedKeys
  <2>2. p.code[f][k] = i
    BY <1>2, <2>1 DEF IsInstruction
  <2>3. RecordOK(p, f, p.code[f][k], m)
    BY <2>1 DEF EntryMapOK
  <2> QED BY <2>2, <2>3 DEF EntryMapOK
<1>3. ASSUME Records(p, i), IsFcn(next), DOMAIN next = DOMAIN m \cup {i.id}, Extends(m, next),
             RecordOK(p, f, i, next)
      PROVE  EntryMapOK(p, f, next) /\ i.id \in DOMAIN next
  <2>1. i.id \in RecordedKeys(p, f)
    BY <1>3 DEF IsInstruction
  <2>2. ASSUME NEW j \in DOMAIN p.code[f], Records(p, p.code[f][j])
        PROVE  RecordOK(p, f, p.code[f][j], next)
    <3> DEFINE u == p.code[f][j]
    <3>1. CASE u.id = i.id
      BY <1>3, <2>2, <3>1 DEF IsInstruction
    <3>2. CASE u.id # i.id
      <4>1. RecordOK(p, f, u, m)
        BY <2>2 DEF EntryMapOK
      <4>2. u.id \in DOMAIN next => u.id \in DOMAIN m
        BY <1>3, <3>2
      <4> QED BY <1>3, <4>1, <4>2, RecordStays
    <3> QED BY <3>1, <3>2
  <2> QED BY <1>3, <2>1, <2>2 DEF EntryMapOK
<1>4. ASSUME NEW r, Records(p, i), i.op \notin {"phi", "select"}, next = Emplace(m, i.id, r)
      PROVE  EntryMapOK(p, f, next) /\ Extends(m, next) /\ i.id \in DOMAIN next
  <2>1. IsFcn(next) /\ DOMAIN next = DOMAIN m \cup {i.id} /\ Extends(m, next)
    BY <1>2, <1>4 DEF Emplace, Put, IsFcn, Extends
  <2>2. RecordOK(p, f, i, next)
    BY <1>4 DEF RecordOK
  <2> QED BY <1>3, <1>4, <2>1, <2>2
<1>5. CASE i.op = "phi" /\ next = Put(m, i.id, PHIRange(p, f, i))
  <2> DEFINE r == PHIRange(p, f, i)
  <2>1. Records(p, i) /\ next = Put(m, i.id, r)
    BY <1>5 DEF Records
  <2> HIDE DEF r
  <2>2. /\ IsFcn(next) /\ DOMAIN next = DOMAIN m \cup {i.id}
        /\ next[i.id] = r /\ \A w \in DOMAIN m \ {i.id} : next[w] = m[w]
    BY <2>1 DEF Put, IsFcn
  <2>3. i.id \in DOMAIN m => m[i.id] = r
    BY <1>2, <1>5, <2>1 DEF RecordOK, r
  <2>4. Extends(m, next)
    BY <2>2, <2>3 DEF Extends
  <2>5. RecordOK(p, f, i, next)
    BY <1>5, <2>2 DEF RecordOK, r
  <2> QED BY <1>3, <2>1, <2>2, <2>4, <2>5
<1>6. CASE i.op = "select" /\ Updates(p, f, i, m, next)
  <2> DEFINE full == Full(Width[i.id])
             ranges == Emplace(m, i.id, full)
             union == UnionWith(ranges[i.true], ranges[i.false])
  <2>0. Records(p, i) /\ i.id # i.true /\ i.id # i.false
    BY <1>6 DEF Records, IsInstruction
  <2>1. /\ i.true \in DOMAIN ranges /\ i.false \in DOMAIN ranges
        /\ next = Put(ranges, i.id, union)
    BY <1>6, <2>0 DEF Updates
  <2> HIDE DEF full
  <2>2. DOMAIN ranges = DOMAIN m \cup {i.id} /\ Extends(m, ranges)
    BY DEF Emplace, Put, Extends
  <2> HIDE DEF ranges
  <2>3. union = UnionWith(m[i.true], m[i.false]) /\ i.true \in DOMAIN m /\ i.false \in DOMAIN m
    BY <2>0, <2>1, <2>2 DEF Extends
  <2> HIDE DEF union
  <2>4. /\ IsFcn(next) /\ DOMAIN next = DOMAIN ranges \cup {i.id}
        /\ next[i.id] = union /\ \A w \in DOMAIN ranges \ {i.id} : next[w] = ranges[w]
    BY <2>1 DEF Put, IsFcn
  <2>5. DOMAIN next = DOMAIN m \cup {i.id} /\ \A w \in DOMAIN m \ {i.id} : next[w] = m[w]
    BY <2>2, <2>4 DEF Extends
  <2>6. i.id \in DOMAIN m => m[i.id] = union
    BY <1>2, <1>6, <2>0, <2>3 DEF RecordOK
  <2>7. Extends(m, next)
    BY <2>4, <2>5, <2>6 DEF Extends
  <2>8. RecordOK(p, f, i, next)
    BY <1>6, <2>0, <2>3, <2>4, <2>5 DEF RecordOK
  <2> QED BY <1>3, <2>0, <2>4, <2>5, <2>7, <2>8
<1> QED BY <1>1, <1>4, <1>5, <1>6 DEF Updates

\* In all places but calls, the handler is what Updates says.
LEMMA HandlerUpdates ==
  ASSUME TypeOK, HandleInstruction, ~HandleCall
  PROVE  Updates(prog, F, Inst, map, map')
<1>1. CASE SkipCall
  BY <1>1 DEF SkipCall, At, Proceed, Updates, Records
<1>2. CASE HandleStore
  BY <1>2 DEF HandleStore, At, Proceed, Updates, Records
<1>3. CASE HandleReturn
  BY <1>3 DEF HandleReturn, At, Proceed, Updates, Records
<1>4. CASE HandleSelect
  BY <1>4 DEF HandleSelect, SelectKnown, At, Proceed, Updates
<1>5. CASE HandleCast
  BY <1>5 DEF HandleCast, At, Proceed, Updates, Records
<1>6. CASE HandleBinaryOperator
  BY <1>6 DEF HandleBinaryOperator, At, Proceed, Updates, Records
<1>7. CASE HandlePHI
  <2> DEFINE merged == MergedIncoming(Inst.incoming, BackEdges(Inst.parent))
             ranges == [k \in DOMAIN merged |-> GetRangeByBB(merged[k].val, merged[k].from)]
  <2>1. ranges = [k \in DOMAIN merged |-> GetRange(merged[k].val, EmptyMap)]
    <3> HIDE DEF merged
    <3> QED BY DEF GetRangeByBB, GetRange, MemberKeys
  <2>2. UnionOf(Width[Inst.id], ranges) = PHIRange(prog, F, Inst)
    BY <2>1 DEF PHIRange, BackEdges
  <2>3. Inst.op = "phi" /\ map' = Put(map, Inst.id, UnionOf(Width[Inst.id], ranges))
    BY <1>7 DEF HandlePHI, At, Proceed
  <2> HIDE DEF ranges
  <2> QED BY <2>2, <2>3 DEF Updates
<1>8. CASE HandleLoad
  <2>1. Records(prog, Inst) <=> LoadsInitializer
    BY <1>8 DEF HandleLoad, At, Records, LoadsInitializer
  <2> QED BY <1>8, <2>1 DEF HandleLoad, At, Proceed, Updates
<1> QED
  BY <1>1, <1>2, <1>3, <1>4, <1>5, <1>6, <1>7, <1>8 DEF HandleInstruction

\* One instruction of the entry block's visit: no call, and all that was there stays.
LEMMA EntryMapStep ==
  ASSUME TypeOK, HandleInstruction, EntryMapOK(prog, F, map)
  PROVE  /\ ~HandleCall
         /\ EntryMapOK(prog, F, map')
         /\ Extends(map, map')
         /\ Records(prog, Inst) => Inst.id \in DOMAIN map'
<1>0. pc = "visit" /\ ip <= Len(prog.code[F])
  BY DEF HandleInstruction, HandleCall, SkipCall, HandleStore, HandleReturn, HandleSelect,
         HandleCast, HandleBinaryOperator, HandlePHI, HandleLoad, At
<1>1. IsInstruction(prog, F, Inst)
  BY <1>0, CurrentInstruction, InstructionsAre DEF F, Inst, TypeOK, ControlOK
<1>2. ~HandleCall
  BY <1>1 DEF HandleCall, At, EntryMapOK, IsInstruction
<1>3. Updates(prog, F, Inst, map, map')
  BY <1>2, HandlerUpdates
<1> QED BY <1>1, <1>2, <1>3, UpdateStep

-----------------------------------------------------------------------------
(***************************************************************************)
(* The maps of the blocks, from step to step.                              *)
(***************************************************************************)
InfoOK ==
  /\ rangeInfo = [f \in Function |-> rangeInfo[f]]
  /\ \A f \in Function : IsFcn(rangeInfo[f])

\* What may become of the maps of the blocks of one function.
BlocksChange(old, new, changed) ==
  /\ IsFcn(new)
  /\ \A b \in DOMAIN old : b \in DOMAIN new /\ (new[b] = old[b] \/ (changed /\ b = 1 /\ new[b] = map))
  /\ \A b \in DOMAIN new \ DOMAIN old : new[b] = EmptyMap

LEMMA InfoUpdate ==
  ASSUME NEW info, info = [f \in Function |-> info[f]], NEW g \in Function, NEW new,
         NEW next, next = [info EXCEPT ![g] = new]
  PROVE  /\ next = [f \in Function |-> next[f]]
         /\ next[g] = new
         /\ \A f \in Function \ {g} : next[f] = info[f]
OBVIOUS

LEMMA InfoStep ==
  ASSUME TypeOK, InfoOK, [Next]_vars, pc \notin {"initGlobals", "initReturns"}
  PROVE  /\ rangeInfo' = [f \in Function |-> rangeInfo'[f]]
         /\ \A f \in Function :
              BlocksChange(rangeInfo[f], rangeInfo'[f], EndVisit /\ bb = 1 /\ f = F)
<1> DEFINE changed == EndVisit /\ bb = 1
<1>1. ASSUME NEW f \in Function, NEW c, rangeInfo'[f] = rangeInfo[f]
      PROVE  BlocksChange(rangeInfo[f], rangeInfo'[f], c)
  BY <1>1 DEF InfoOK, BlocksChange
<1>2. CASE UNCHANGED rangeInfo
  BY <1>1, <1>2 DEF InfoOK
<1>3. ASSUME NEW new, rangeInfo' = [rangeInfo EXCEPT ![F] = new], F \in Function,
             BlocksChange(rangeInfo[F], new, changed)
      PROVE  /\ rangeInfo' = [f \in Function |-> rangeInfo'[f]]
             /\ \A f \in Function :
                  BlocksChange(rangeInfo[f], rangeInfo'[f], changed /\ f = F)
  <2> HIDE DEF changed
  <2>1. /\ rangeInfo' = [f \in Function |-> rangeInfo'[f]]
        /\ rangeInfo'[F] = new
        /\ \A f \in Function \ {F} : rangeInfo'[f] = rangeInfo[f]
    BY <1>3, InfoUpdate DEF InfoOK
  <2>2. BlocksChange(rangeInfo[F], rangeInfo'[F], changed /\ F = F)
    BY <1>3, <2>1 DEF BlocksChange
  <2> QED BY <1>1, <2>1, <2>2
<1>4. ASSUME fi \in DOMAIN prog.functions
      PROVE  F \in Function
  BY <1>4, CurrentCode DEF F, TypeOK, ControlOK
<1>5. ASSUME NEW b, F \in Function
      PROVE  BlocksChange(rangeInfo[F], Emplace(rangeInfo[F], b, EmptyMap), changed)
  <2> HIDE DEF changed
  <2> QED BY <1>5 DEF InfoOK, BlocksChange, Emplace, Put, IsFcn
<1>6. CASE EnterBlock
  <2>1. fi \in DOMAIN prog.functions
    BY <1>6, ProgramsAssumption DEF EnterBlock, TypeOK, ControlOK, WellFormed
  <2>2. rangeInfo' = [rangeInfo EXCEPT ![F] = Emplace(rangeInfo[F], bb, EmptyMap)]
    BY <1>6 DEF EnterBlock
  <2> QED BY <1>3, <1>4, <1>5, <2>1, <2>2
<1>7. CASE FollowEdge
  <2>1. fi \in DOMAIN prog.functions
    BY <1>7 DEF FollowEdge, TypeOK, ControlOK
  <2>2. PICK p : rangeInfo' = [rangeInfo EXCEPT ![F] = Emplace(rangeInfo[F], p, EmptyMap)]
    BY <1>7 DEF FollowEdge, Follow
  <2> QED BY <1>3, <1>4, <1>5, <2>1, <2>2
<1>8. CASE EndVisit /\ bb = 1
  <2> DEFINE new == [rangeInfo[F] EXCEPT ![1] = map]
  <2>1. fi \in DOMAIN prog.functions
    BY <1>8 DEF EndVisit, TypeOK, ControlOK
  <2>2. rangeInfo' = [rangeInfo EXCEPT ![F] = new]
    BY <1>8 DEF EndVisit
  <2>3. BlocksChange(rangeInfo[F], new, changed)
    BY <1>4, <1>8, <2>1 DEF InfoOK, BlocksChange, IsFcn
  <2> QED BY <1>3, <1>4, <2>1, <2>2, <2>3
<1>9. CASE HandlePHI
  <2> DEFINE from == {inc.from : inc \in ToSet(Inst.incoming)} \ BackEdges(Inst.parent)
             new == [b \in DOMAIN rangeInfo[F] \cup from |->
                       IF b \in DOMAIN rangeInfo[F] THEN rangeInfo[F][b] ELSE EmptyMap]
  <2>1. fi \in DOMAIN prog.functions
    BY <1>9 DEF HandlePHI, At, TypeOK, ControlOK
  <2>2. rangeInfo' = [rangeInfo EXCEPT ![F] = new]
    BY <1>9 DEF HandlePHI
  <2>3. BlocksChange(rangeInfo[F], new, changed)
    <3> HIDE DEF from, changed
    <3> QED BY DEF BlocksChange, IsFcn
  <2> HIDE DEF new
  <2> QED BY <1>3, <1>4, <2>1, <2>2, <2>3
<1>10. CASE ~(EnterBlock \/ FollowEdge \/ (EndVisit /\ bb = 1) \/ HandlePHI)
  <2>1. UNCHANGED rangeInfo
    BY <1>10 DEF Next, Step, HandleInstruction, InitGlobalVariables, InitFunctionReturn,
                 BeginIteration, EndIteration, SkipBackEdge, VisitEntry, LeaveBlock, EndVisit,
                 EndFunction, HandleCall, SkipCall, HandleStore, HandleReturn, HandleSelect,
                 HandleCast, HandleBinaryOperator, HandleLoad, Abort, results, Terminated, vars
  <2> QED BY <1>2, <2>1
<1> QED BY <1>6, <1>7, <1>8, <1>9, <1>10

(***************************************************************************)
(* The visit of the entry block's map, which is written back at its end:   *)
(* so far it has kept what was recorded, and recorded what it has passed.  *)
(***************************************************************************)
EntryVisit ==
  /\ 1 \in DOMAIN rangeInfo[F]
  /\ EntryMapOK(prog, F, map)
  /\ Extends(rangeInfo[F][1], map)
  /\ \A k \in DOMAIN prog.code[F] :
       k < ip /\ Records(prog, prog.code[F][k]) => prog.code[F][k].id \in DOMAIN map

EntriesOK ==
  \A n \in DOMAIN prog.functions : LET f == prog.functions[n] IN
    1 \in DOMAIN rangeInfo[f] => EntryMapOK(prog, f, rangeInfo[f][1])

EntryInv ==
  /\ InfoOK
  /\ EntriesOK
  /\ pc \in {"edges", "visit"} => bb \in DOMAIN rangeInfo[F]
  /\ pc = "visit" /\ bb = 1 => EntryVisit

LEMMA EmptyMapOK ==
  ASSUME NEW p, NEW f
  PROVE  EntryMapOK(p, f, EmptyMap)
BY DEF EntryMapOK, EmptyMap, IsFcn, RecordOK

LEMMA InitialInfo ==
  ASSUME TypeOK, InfoOK, EntriesOK, pc \in {"initGlobals", "initReturns"}, [Next]_vars
  PROVE  InfoOK' /\ EntriesOK' /\ pc' \notin {"edges", "visit"}
<1>1. prog' = prog
  BY ProgUnchanged
<1>2. CASE UNCHANGED rangeInfo /\ pc' \notin {"edges", "visit"}
  BY <1>1, <1>2 DEF InfoOK, EntriesOK
<1>3. CASE InitFunctionReturn
  <2> DEFINE bodies == {f \in ToSet(prog.functions) : ReturnsInteger(prog, f)}
  <2>1. /\ pc' = "iterate"
        /\ rangeInfo' = [f \in Function |->
                           IF f \in bodies THEN Put(EmptyMap, 1, EmptyMap) ELSE EmptyMap]
    BY <1>3 DEF InitFunctionReturn
  <2> HIDE DEF bodies
  <2>2. IsFcn(EmptyMap) /\ IsFcn(Put(EmptyMap, 1, EmptyMap))
    BY DEF IsFcn, EmptyMap, Put
  <2>3. InfoOK'
    BY <2>1, <2>2 DEF InfoOK
  <2>4. \A f \in Function : 1 \in DOMAIN rangeInfo'[f] => rangeInfo'[f][1] = EmptyMap
    BY <2>1 DEF EmptyMap, Put
  <2>5. \A n \in DOMAIN prog.functions : prog.functions[n] \in Function
    BY CurrentCode DEF TypeOK, ControlOK
  <2>6. EntriesOK'
    BY <1>1, <2>4, <2>5, EmptyMapOK DEF EntriesOK
  <2> QED BY <2>1, <2>3, <2>6
<1> QED
  BY <1>2, <1>3 DEF Next, Step, HandleInstruction, InitGlobalVariables, BeginIteration,
     EndIteration, EnterBlock, EndFunction, SkipBackEdge, FollowEdge, VisitEntry, LeaveBlock,
     EndVisit, HandleCall, SkipCall, HandleStore, HandleReturn, HandleSelect, HandleCast,
     HandleBinaryOperator, HandlePHI, HandleLoad, At, Abort, Fails, Terminated, vars

\* The entry block has no predecessor.
LEMMA EntryHasNone ==
  ASSUME TypeOK, fi \in DOMAIN prog.functions
  PROVE  Predecessors(1) = {}
<1>1. WellFormedFunction(prog, F)
  BY ProgramsAssumption DEF TypeOK, ControlOK, WellFormed, F
<1>2. \A b \in DOMAIN prog.succ[F] : prog.succ[F][b] \subseteq 2 .. Len(prog.succ[F])
  BY <1>1 DEF WellFormedFunction
<1>3. 1 \notin 2 .. Len(prog.succ[F])
  OBVIOUS
<1> QED BY <1>2, <1>3 DEF Predecessors, Blocks

LEMMA EntryStep ==
  ASSUME TypeOK, EntryInv, [Next]_vars
  PROVE  EntryInv'
<1>0. CASE pc \in {"initGlobals", "initReturns"}
  BY <1>0, InitialInfo DEF EntryInv
<1>1. SUFFICES ASSUME pc \notin {"initGlobals", "initReturns"}
               PROVE  EntryInv'
  BY <1>0
<1>2. /\ rangeInfo' = [f \in Function |-> rangeInfo'[f]]
      /\ \A f \in Function :
           BlocksChange(rangeInfo[f], rangeInfo'[f], EndVisit /\ bb = 1 /\ f = F)
  BY <1>1, InfoStep DEF EntryInv
<1>3. prog' = prog /\ \A n \in DOMAIN prog.functions : prog.functions[n] \in Function
  BY ProgUnchanged, CurrentCode DEF TypeOK, ControlOK
<1>4. pc \in {"edges", "visit"} => fi \in DOMAIN prog.functions /\ F \in Function
  BY <1>3 DEF TypeOK, ControlOK, F
<1>5. InfoOK'
  BY <1>2 DEF InfoOK, BlocksChange
<1>6. EntriesOK'
  <2> SUFFICES ASSUME NEW n \in DOMAIN prog.functions,
                      1 \in DOMAIN rangeInfo'[prog.functions[n]]
               PROVE  EntryMapOK(prog, prog.functions[n], rangeInfo'[prog.functions[n]][1])
    BY <1>3 DEF EntriesOK
  <2> DEFINE f == prog.functions[n]
             new == rangeInfo'[f]
  <2>1. BlocksChange(rangeInfo[f], new, EndVisit /\ bb = 1 /\ f = F)
    BY <1>2, <1>3
  <2>2. CASE 1 \in DOMAIN rangeInfo[f] /\ new[1] = rangeInfo[f][1]
    BY <2>2 DEF EntryInv, EntriesOK
  <2>3. CASE EndVisit /\ bb = 1 /\ f = F /\ new[1] = map
    BY <2>3 DEF EndVisit, EntryInv, EntryVisit
  <2>4. CASE new[1] = EmptyMap
    BY <2>4, EmptyMapOK
  <2> HIDE DEF new
  <2>5. 1 \in DOMAIN new
    BY DEF new
  <2> QED BY <2>1, <2>2, <2>3, <2>4, <2>5 DEF BlocksChange
<1>7. ASSUME pc \in {"edges", "visit"}, UNCHANGED <<fi, bb>>
      PROVE  bb' \in DOMAIN rangeInfo'[F']
  <2>1. F' = F
    BY <1>3, <1>7 DEF F
  <2>2. BlocksChange(rangeInfo[F], rangeInfo'[F], EndVisit /\ bb = 1 /\ F = F)
    BY <1>2, <1>4, <1>7
  <2>3. bb \in DOMAIN rangeInfo[F]
    BY <1>7 DEF EntryInv
  <2> QED BY <1>7, <2>1, <2>2, <2>3 DEF BlocksChange
<1>8. (pc \in {"edges", "visit"} => bb \in DOMAIN rangeInfo[F])'
  <2>1. CASE EnterBlock
    <3>1. rangeInfo' = [rangeInfo EXCEPT ![F] = Emplace(rangeInfo[F], bb, EmptyMap)]
          /\ bb' = bb /\ fi' = fi
      BY <2>1 DEF EnterBlock
    <3>2. fi \in DOMAIN prog.functions
      BY <2>1, ProgramsAssumption DEF EnterBlock, TypeOK, ControlOK, WellFormed
    <3>3. F \in Function /\ F' = F
      BY <1>3, <3>1, <3>2 DEF F
    <3>4. rangeInfo'[F] = Emplace(rangeInfo[F], bb, EmptyMap)
      BY <3>1, <3>3 DEF EntryInv, InfoOK
    <3> QED BY <3>1, <3>3, <3>4 DEF Emplace, Put
  <2>2. CASE SkipBackEdge \/ FollowEdge \/ VisitEntry \/ (EndVisit /\ bb # 1)
             \/ HandleInstruction \/ (UNCHANGED vars /\ pc \in {"edges", "visit"})
    <3>1. pc \in {"edges", "visit"} /\ UNCHANGED <<fi, bb>>
      BY <2>2 DEF SkipBackEdge, FollowEdge, VisitEntry, EndVisit, vars, HandleInstruction,
                  HandleCall, SkipCall, HandleStore, HandleReturn, HandleSelect, HandleCast,
                  HandleBinaryOperator, HandlePHI, HandleLoad, At, Proceed
    <3> QED BY <1>7, <3>1
  <2>3. CASE ~EnterBlock /\ pc' \in {"edges", "visit"}
    BY <2>2, <2>3 DEF Next, Step, InitGlobalVariables, InitFunctionReturn, BeginIteration,
       EndIteration, EndFunction, LeaveBlock, EndVisit, Abort, Terminated, vars
  <2> QED BY <2>1, <2>3
<1>9. ASSUME pc' = "visit", bb' = 1
      PROVE  EntryVisit'
  <2>1. CASE VisitEntry
    <3>1. /\ map' = rangeInfo[F][1] /\ rangeInfo' = rangeInfo /\ fi' = fi /\ ip' = 1
          /\ pc = "edges" /\ bb = 1
      BY <2>1 DEF VisitEntry
    <3>2. F' = F /\ 1 \in DOMAIN rangeInfo[F] /\ fi \in DOMAIN prog.functions
      BY <1>3, <1>4, <3>1 DEF F, EntryInv
    <3>3. EntryMapOK(prog, F, rangeInfo[F][1])
      BY <3>2 DEF EntryInv, EntriesOK, F
    <3>4. \A k \in DOMAIN prog.code[F] : ~(k < 1)
      BY <3>2, CurrentCode DEF IsSequence, F, TypeOK, ControlOK
    <3> QED BY <1>3, <3>1, <3>2, <3>3, <3>4 DEF EntryVisit, Extends
  <2>2. CASE HandleInstruction
    <3>1. pc = "visit" /\ ip' = ip + 1 /\ UNCHANGED <<fi, bb>> /\ ip <= Len(prog.code[F])
      BY <2>2 DEF HandleInstruction, HandleCall, SkipCall, HandleStore, HandleReturn,
                  HandleSelect, HandleCast, HandleBinaryOperator, HandlePHI, HandleLoad,
                  At, Proceed
    <3>2. F' = F /\ F \in Function /\ EntryVisit
      BY <1>3, <1>4, <1>9, <3>1 DEF F, EntryInv
    <3>3. /\ EntryMapOK(prog, F, map')
          /\ Extends(map, map')
          /\ Records(prog, Inst) => Inst.id \in DOMAIN map'
      BY <2>2, <3>2, EntryMapStep DEF EntryVisit
    <3>4. 1 \in DOMAIN rangeInfo'[F] /\ rangeInfo'[F][1] = rangeInfo[F][1]
      <4>1. ~EndVisit
        BY <1>9, <3>1 DEF EndVisit
      <4> QED BY <1>2, <3>2, <4>1 DEF BlocksChange, EntryVisit
    <3>5. Extends(rangeInfo[F][1], map')
      BY <3>2, <3>3 DEF EntryVisit, Extends
    <3>6. ASSUME NEW k \in DOMAIN prog.code[F], k < ip + 1, Records(prog, prog.code[F][k])
          PROVE  prog.code[F][k].id \in DOMAIN map'
      <4>1. k \in Nat /\ ip \in Nat
        BY <1>4, <3>1, CurrentCode DEF IsSequence, F, TypeOK, ControlOK
      <4>2. CASE k = ip
        BY <3>3, <3>6, <4>2 DEF Inst
      <4>3. CASE k < ip
        BY <3>2, <3>3, <3>6, <4>3 DEF EntryVisit, Extends
      <4> QED BY <3>6, <4>1, <4>2, <4>3
    <3> QED BY <1>3, <3>1, <3>2, <3>3, <3>4, <3>5, <3>6 DEF EntryVisit
  <2>3. CASE UNCHANGED vars
    BY <1>9, <2>3 DEF vars, EntryInv, EntryVisit, F
  <2>4. ~FollowEdge
    <3>1. ASSUME FollowEdge PROVE FALSE
      <4>1. bb = 1 /\ preds # {} /\ pc = "edges"
        BY <1>9, <3>1 DEF FollowEdge
      <4>2. preds \subseteq Predecessors(1) /\ fi \in DOMAIN prog.functions
        BY <4>1 DEF TypeOK, ControlOK
      <4> QED BY <4>1, <4>2, EntryHasNone
    <3> QED BY <3>1
  <2> QED
    BY <1>9, <2>1, <2>2, <2>3, <2>4 DEF Next, Step, InitGlobalVariables, InitFunctionReturn,
       BeginIteration, EndIteration, EnterBlock, SkipBackEdge, LeaveBlock, EndVisit,
       EndFunction, Abort, Terminated
<1> QED BY <1>5, <1>6, <1>8, <1>9 DEF EntryInv

LEMMA EntryInvariant == Spec => []EntryInv
<1>1. Init => EntryInv
  <2> SUFFICES ASSUME Init PROVE EntryInv
    OBVIOUS
  <2>1. \A n \in DOMAIN prog.functions : prog.functions[n] \in Function
    BY ProgramsAssumption DEF Init, WellFormed
  <2>2. \A f \in Function : rangeInfo[f] = EmptyMap
    BY DEF Init
  <2>3. InfoOK
    BY <2>2 DEF Init, InfoOK, IsFcn, EmptyMap
  <2>4. EntriesOK
    BY <2>1, <2>2 DEF EntriesOK, EmptyMap
  <2> QED BY <2>3, <2>4 DEF Init, EntryInv
<1>2. TypeOK /\ EntryInv /\ [Next]_vars => EntryInv'
  BY EntryStep
<1> QED BY <1>1, <1>2, RangeAnalysisTypeOK, PTL DEF Spec

(***************************************************************************)
(* What is recorded for a value stays as it was first recorded, although   *)
(* handlePHINode and handleSelectInst assign: whatever they compute on a   *)
(* later visit is what is there.                                           *)
(***************************************************************************)
THEOREM RangeAnalysisRecordedStays == Spec => RecordedStays
<1> DEFINE Stays ==
      \A f \in Function : \A b \in DOMAIN rangeInfo[f] :
        /\ b \in DOMAIN rangeInfo'[f]
        /\ \A v \in DOMAIN rangeInfo[f][b] :
             v \in DOMAIN rangeInfo'[f][b] /\ rangeInfo'[f][b][v] = rangeInfo[f][b][v]
<1>1. TypeOK /\ EntryInv /\ [Next]_vars
      => [pc \notin {"initGlobals", "initReturns"} => Stays]_vars
  <2> SUFFICES ASSUME TypeOK, EntryInv, [Next]_vars, pc \notin {"initGlobals", "initReturns"},
                      NEW f \in Function, NEW b \in DOMAIN rangeInfo[f]
               PROVE  /\ b \in DOMAIN rangeInfo'[f]
                      /\ Extends(rangeInfo[f][b], rangeInfo'[f][b])
    BY DEF Extends
  <2>1. BlocksChange(rangeInfo[f], rangeInfo'[f], EndVisit /\ bb = 1 /\ f = F)
    BY InfoStep DEF EntryInv
  <2>2. CASE rangeInfo'[f][b] = rangeInfo[f][b]
    BY <2>1, <2>2 DEF BlocksChange, Extends
  <2>3. CASE EndVisit /\ bb = 1 /\ f = F /\ b = 1 /\ rangeInfo'[f][b] = map
    <3>1. EntryVisit
      BY <2>3 DEF EndVisit, EntryInv
    <3> QED BY <2>1, <2>3, <3>1 DEF BlocksChange, EntryVisit
  <2> QED BY <2>1, <2>2, <2>3 DEF BlocksChange
<1> QED BY <1>1, EntryInvariant, RangeAnalysisTypeOK, PTL DEF Spec, RecordedStays

-----------------------------------------------------------------------------
(***************************************************************************)
(* What the first iteration leaves for the second to find: each block has  *)
(* its map, each entry block a complete one, and each function that a call *)
(* will ask about has a range.                                             *)
(***************************************************************************)
Passed(n, b) ==
  \/ iteration > 1
  \/ iteration = 1 /\ (n < fi \/ (n = fi /\ b < bb))

Here(n, b) == n = fi /\ b = bb /\ pc \in {"edges", "visit"}

BlocksSeen ==
  \A n \in DOMAIN prog.functions : \A b \in DOMAIN prog.succ[prog.functions[n]] :
    Passed(n, b) \/ Here(n, b) => b \in DOMAIN rangeInfo[prog.functions[n]]

EntriesSeen ==
  \A n \in DOMAIN prog.functions : LET f == prog.functions[n] IN
    Passed(n, 1) => 1 \in DOMAIN rangeInfo[f]
                    /\ RecordedKeys(prog, f) \subseteq DOMAIN rangeInfo[f][1]

\* A step passes at most the block it is in.
LEMMA PassedStep ==
  ASSUME TypeOK, VisitedCovered, [Next]_vars, NEW n \in DOMAIN prog.functions,
         NEW b \in DOMAIN prog.succ[prog.functions[n]], Passed(n, b)'
  PROVE  /\ pc \notin {"initGlobals", "initReturns"}
         /\ \/ Passed(n, b)
            \/ n = fi /\ b = bb /\ bb = 1 /\ EndVisit
            \/ n = fi /\ b = bb /\ LeaveBlock
<1> USE DEF Passed
<1>0. /\ prog \in Programs
      /\ pc \in {"initGlobals", "initReturns"} => iteration = 0
      /\ pc \in {"function", "edges", "visit", "done", "aborted"} => iteration # 0
      /\ iteration \in Nat /\ fi \in Nat /\ bb \in Nat \ {0}
  BY BuildAssumption DEF TypeOK, ControlOK
<1>1. n \in Nat \ {0} /\ n <= Len(prog.functions) /\ Len(prog.functions) \in Nat
  BY <1>0, ProgramsAssumption DEF WellFormed
<1>2. IsSequence(prog.succ[prog.functions[n]])
  BY <1>0, CurrentCode
<1>3. b \in Nat \ {0} /\ b <= Len(prog.succ[prog.functions[n]])
  BY <1>2 DEF IsSequence
<1>4. CASE InitGlobalVariables \/ InitFunctionReturn
  BY <1>0, <1>4 DEF InitGlobalVariables, InitFunctionReturn
<1>5. CASE BeginIteration
  BY <1>0, <1>1, <1>3, <1>5 DEF BeginIteration, VisitedCovered
<1>6. CASE EndIteration \/ EnterBlock \/ SkipBackEdge \/ FollowEdge \/ VisitEntry
  BY <1>0, <1>6 DEF EndIteration, EnterBlock, SkipBackEdge, FollowEdge, VisitEntry
<1>7. CASE EndFunction
  <2>1. n = fi => b < bb
    BY <1>0, <1>2, <1>3, <1>7 DEF EndFunction, Blocks, F, IsSequence
  <2> QED BY <1>0, <1>1, <1>3, <1>7, <2>1 DEF EndFunction
<1>8. CASE LeaveBlock
  BY <1>0, <1>1, <1>3, <1>8 DEF LeaveBlock
<1>9. CASE EndVisit
  BY <1>0, <1>1, <1>3, <1>9 DEF EndVisit
<1>10. CASE HandleInstruction
  <2>1. pc = "visit" /\ UNCHANGED <<iteration, fi, bb>>
    BY <1>10 DEF HandleInstruction, HandleCall, SkipCall, HandleStore, HandleReturn,
                 HandleSelect, HandleCast, HandleBinaryOperator, HandlePHI, HandleLoad,
                 At, Proceed
  <2> QED BY <1>0, <2>1
<1>11. CASE Abort
  BY <1>0, <1>11 DEF Abort, Fails, At
<1>12. CASE UNCHANGED vars
  BY <1>0, <1>12 DEF vars
<1> QED
  BY <1>4, <1>5, <1>6, <1>7, <1>8, <1>9, <1>10, <1>11, <1>12 DEF Next, Step, Terminated

\* A step comes to be in a block only by entering it.
LEMMA HereStep ==
  ASSUME TypeOK, [Next]_vars, NEW n, NEW b, Here(n, b)'
  PROVE  \/ Here(n, b)
         \/ EnterBlock /\ n = fi /\ b = bb
<1> USE DEF Here
<1>1. CASE EnterBlock
  BY <1>1 DEF EnterBlock
<1>2. CASE SkipBackEdge \/ FollowEdge \/ VisitEntry \/ EndVisit
  BY <1>2 DEF SkipBackEdge, FollowEdge, VisitEntry, EndVisit
<1>3. CASE HandleInstruction
  BY <1>3 DEF HandleInstruction, HandleCall, SkipCall, HandleStore, HandleReturn,
              HandleSelect, HandleCast, HandleBinaryOperator, HandlePHI, HandleLoad,
              At, Proceed
<1>4. CASE UNCHANGED vars
  BY <1>4 DEF vars
<1> QED
  BY <1>1, <1>2, <1>3, <1>4 DEF Next, Step, Terminated, InitGlobalVariables,
     InitFunctionReturn, BeginIteration, EndIteration, EndFunction, LeaveBlock, Abort

LEMMA BlocksSeenStep ==
  ASSUME TypeOK, VisitedCovered, EntryInv, EntryInv', BlocksSeen, [Next]_vars
  PROVE  BlocksSeen'
<1> SUFFICES ASSUME NEW n \in DOMAIN prog.functions,
                    NEW b \in DOMAIN prog.succ[prog.functions[n]],
                    Passed(n, b)' \/ Here(n, b)'
             PROVE  b \in DOMAIN rangeInfo'[prog.functions[n]]
  BY ProgUnchanged DEF BlocksSeen
<1> DEFINE f == prog.functions[n]
<1>1. CASE Passed(n, b) \/ Here(n, b)
  <2>1. pc \notin {"initGlobals", "initReturns"}
    BY <1>1 DEF Passed, Here, TypeOK, ControlOK
  <2>2. BlocksChange(rangeInfo[f], rangeInfo'[f], EndVisit /\ bb = 1 /\ f = F)
    BY <2>1, InfoStep, CurrentCode DEF EntryInv, TypeOK, ControlOK
  <2>3. b \in DOMAIN rangeInfo[f]
    BY <1>1 DEF BlocksSeen
  <2> QED BY <2>2, <2>3 DEF BlocksChange
<1>2. CASE EnterBlock /\ n = fi /\ b = bb
  <2>1. pc' = "edges" /\ fi' = fi /\ bb' = bb
    BY <1>2 DEF EnterBlock
  <2>2. bb' \in DOMAIN rangeInfo'[F']
    BY <2>1 DEF EntryInv
  <2> QED BY <1>2, <2>1, <2>2, ProgUnchanged DEF F
<1>3. ASSUME EndVisit \/ LeaveBlock, n = fi, b = bb
      PROVE  Here(n, b)
  BY <1>3 DEF EndVisit, LeaveBlock, Here
<1> QED BY <1>1, <1>2, <1>3, PassedStep, HereStep

LEMMA EntriesSeenStep ==
  ASSUME TypeOK, VisitedCovered, EntryInv, EntriesSeen, [Next]_vars
  PROVE  EntriesSeen'
<1> SUFFICES ASSUME NEW n \in DOMAIN prog.functions, Passed(n, 1)'
             PROVE  /\ 1 \in DOMAIN rangeInfo'[prog.functions[n]]
                    /\ RecordedKeys(prog, prog.functions[n])
                         \subseteq DOMAIN rangeInfo'[prog.functions[n]][1]
  BY ProgUnchanged DEF EntriesSeen
<1> DEFINE f == prog.functions[n]
<1>0. f \in Function /\ 1 \in DOMAIN prog.succ[f]
  BY CurrentCode DEF IsSequence, TypeOK, ControlOK
<1>1. /\ pc \notin {"initGlobals", "initReturns"}
      /\ Passed(n, 1) \/ (n = fi /\ bb = 1 /\ EndVisit) \/ (n = fi /\ bb = 1 /\ LeaveBlock)
  BY <1>0, PassedStep
<1>2. BlocksChange(rangeInfo[f], rangeInfo'[f], EndVisit /\ bb = 1 /\ f = F)
  BY <1>0, <1>1, InfoStep DEF EntryInv
<1>3. ASSUME EndVisit, bb = 1
      PROVE  /\ EntryVisit
             /\ RecordedKeys(prog, F) \subseteq DOMAIN map
  <2>1. EntryVisit /\ ip > Len(prog.code[F]) /\ ip \in Nat /\ fi \in DOMAIN prog.functions
    BY <1>3 DEF EndVisit, EntryInv, TypeOK, ControlOK
  <2>2. \A k \in DOMAIN prog.code[F] : k < ip
    BY <2>1, CurrentCode DEF F, IsSequence, TypeOK, ControlOK
  <2> QED BY <2>1, <2>2 DEF EntryVisit, RecordedKeys
<1>4. CASE Passed(n, 1)
  <2>1. 1 \in DOMAIN rangeInfo[f] /\ RecordedKeys(prog, f) \subseteq DOMAIN rangeInfo[f][1]
    BY <1>4 DEF EntriesSeen
  <2>2. CASE rangeInfo'[f][1] = rangeInfo[f][1]
    BY <1>2, <2>1, <2>2 DEF BlocksChange
  <2>3. CASE EndVisit /\ bb = 1 /\ f = F /\ rangeInfo'[f][1] = map
    BY <1>2, <1>3, <2>1, <2>3 DEF BlocksChange
  <2> QED BY <1>2, <2>1, <2>2, <2>3 DEF BlocksChange
<1>5. CASE n = fi /\ bb = 1 /\ EndVisit
  <2>1. rangeInfo'[F] = [rangeInfo[F] EXCEPT ![1] = map] /\ f = F
    <3>1. f = F
      BY <1>5 DEF F
    <3>2. rangeInfo' = [rangeInfo EXCEPT ![F][1] = map]
      BY <1>5 DEF EndVisit
    <3> QED BY <1>0, <3>1, <3>2 DEF EntryInv, InfoOK
  <2>2. 1 \in DOMAIN rangeInfo[F] /\ RecordedKeys(prog, F) \subseteq DOMAIN map
    BY <1>3, <1>5 DEF EntryVisit
  <2> QED BY <2>1, <2>2
<1>6. ~(bb = 1 /\ LeaveBlock)
  BY DEF LeaveBlock
<1> QED BY <1>1, <1>4, <1>5, <1>6

\* A global that was given no range at first has a DefaultRange once it is stored to.
StoresSeen ==
  /\ IsFcn(gvRange)
  /\ \A G \in DOMAIN gvRange : HasRange(G) \/ gvRange[G].bits = 0
  /\ \A n \in DOMAIN prog.functions : \A k \in DOMAIN prog.code[prog.functions[n]] :
       LET i == prog.code[prog.functions[n]][k] IN
       Visited(n, k) /\ i.op = "store" /\ i.ptr \in Global /\ Width[i.val] # 0
       => i.ptr \in DOMAIN gvRange

LEMMA StoresSeenStep ==
  ASSUME TypeOK, WidthsKept, VisitedCovered, StoresSeen, [Next]_vars
  PROVE  StoresSeen'
<1> DEFINE Kept == /\ IsFcn(gvRange')
                   /\ \A G \in DOMAIN gvRange' : HasRange(G) \/ gvRange'[G].bits = 0
<1>0. prog' = prog
  BY ProgUnchanged
<1>1. Kept
  <2>1. CASE InitGlobalVariables
    <3>1. gvRange' = [G \in {G \in Global : HasRange(G)} |-> InitialRange(G)]
      BY <2>1 DEF InitGlobalVariables
    <3> QED BY <3>1 DEF IsFcn
  <2>2. CASE HandleStore /\ StoresToGlobal
    <3> DEFINE joined == UnionWith(RangeOfGlobal(Inst.ptr), GetRange(Inst.val, map))
    <3>1. gvRange' = Put(gvRange, Inst.ptr, joined) /\ joined.bits = RangeOfGlobal(Inst.ptr).bits
      BY <2>2, StoreStep
    <3>2. Inst.ptr \in DOMAIN gvRange \/ joined.bits = 0
      BY <3>1 DEF RangeOfGlobal, DefaultRange, Empty
    <3>3. Inst.ptr \in DOMAIN gvRange => joined.bits = gvRange[Inst.ptr].bits
      BY <3>1 DEF RangeOfGlobal
    <3> HIDE DEF joined
    <3>4. DOMAIN gvRange' = DOMAIN gvRange \cup {Inst.ptr} /\ IsFcn(gvRange')
          /\ gvRange'[Inst.ptr] = joined
          /\ \A G \in DOMAIN gvRange \ {Inst.ptr} : gvRange'[G] = gvRange[G]
      BY <3>1 DEF Put, IsFcn
    <3> QED BY <3>2, <3>3, <3>4 DEF StoresSeen
  <2>3. CASE gvRange' = gvRange
    BY <2>3 DEF StoresSeen
  <2>4. CASE InitFunctionReturn \/ HandleCall \/ HandleReturn
    BY <2>3, <2>4 DEF InitFunctionReturn, HandleCall, HandleReturn
  <2> QED BY <2>1, <2>2, <2>3, <2>4, StoreStep, QuietStep
<1>2. ASSUME NEW n \in DOMAIN prog.functions, NEW k \in DOMAIN prog.code[prog.functions[n]],
             Visited(n, k)', prog.code[prog.functions[n]][k].op = "store",
             prog.code[prog.functions[n]][k].ptr \in Global,
             Width[prog.code[prog.functions[n]][k].val] # 0
      PROVE  prog.code[prog.functions[n]][k].ptr \in DOMAIN gvRange'
  <2> DEFINE i == prog.code[prog.functions[n]][k]
  <2>1. /\ pc \notin {"initGlobals", "initReturns"}
        /\ Visited(n, k) \/ (HandleInstruction /\ n = fi /\ k = ip)
    BY <1>2, VisitedStep
  <2>2. CASE Visited(n, k)
    <3>1. i.ptr \in DOMAIN gvRange
      BY <1>2, <2>2 DEF StoresSeen
    <3> QED BY <2>1, <3>1, GrowStep DEF Grows
  <2>3. CASE HandleInstruction /\ n = fi /\ k = ip
    <3>1. i = Inst
      BY <2>3 DEF Inst, F
    <3>2. HandleStore
      BY <1>2, <2>3, <3>1 DEF HandleInstruction, HandleCall, SkipCall, HandleReturn,
         HandleSelect, HandleCast, HandleBinaryOperator, HandlePHI, HandleLoad, At
    <3> QED BY <1>2, <3>1, <3>2, StoreStep DEF StoresToGlobal, Put
  <2> QED BY <2>1, <2>2, <2>3
<1> QED BY <1>0, <1>1, <1>2 DEF StoresSeen, HasRange

(***************************************************************************)
(* A call is looked at only on an edge whose branch asks about its result, *)
(* and then always.                                                        *)
(***************************************************************************)
EdgeKeys(t) ==
  IF Compares(t) THEN {t.lhs, t.rhs} ELSE IF t.op = "switch" THEN {t.cond} ELSE {}

CallKnown(p, i, ranges) ==
  i.callee \in Function /\ ReturnsInteger(p, i.callee) => i.callee \in DOMAIN ranges

\* Instruction k is a call whose result the branch at the end of block p is on.
BranchesOn(f, p, k) ==
  prog.code[f][k].op = "call" /\ prog.code[f][k].id \in EdgeKeys(prog.term[f][p])

\* The edge from p to b has been followed, or is being followed.
Taken(n, b, p) == Passed(n, b) \/ (Here(n, b) /\ p \notin preds)

Awaited(n, b, k) ==
  pc = "visit" /\ n = fi /\ b = bb /\ ip <= k /\ prog.code[F][k].id \in DOMAIN map

EdgeCallsSeen ==
  \A n \in DOMAIN prog.functions : LET f == prog.functions[n] IN
    \A b \in DOMAIN prog.succ[f], p \in DOMAIN prog.succ[f], k \in DOMAIN prog.code[f] :
      /\ b \in prog.succ[f][p]
      /\ p \notin CyclePreds(prog.succ[f], b)
      /\ BranchesOn(f, p, k)
      /\ Taken(n, b, p)
      => CallKnown(prog, prog.code[f][k], retRange) \/ Awaited(n, b, k)

VisitCallsSeen ==
  pc = "visit" /\ iteration > 1 =>
    \A k \in DOMAIN prog.code[F] :
      prog.code[F][k].op = "call" /\ prog.code[F][k].id \in DOMAIN map
      => CallKnown(prog, prog.code[F][k], retRange)

\* No handler enters a call into the map, or takes one out.
LEMMA CallsInMap ==
  ASSUME TypeOK, HandleInstruction, NEW k \in DOMAIN prog.code[F],
         prog.code[F][k].op = "call"
  PROVE  prog.code[F][k].id \in DOMAIN map' <=> prog.code[F][k].id \in DOMAIN map
<1> DEFINE c == prog.code[F][k].id
<1>0. pc = "visit" /\ ip <= Len(prog.code[F])
  BY DEF HandleInstruction, HandleCall, SkipCall, HandleStore, HandleReturn, HandleSelect,
         HandleCast, HandleBinaryOperator, HandlePHI, HandleLoad, At
<1>1. fi \in DOMAIN prog.functions /\ ip \in DOMAIN prog.code[F] /\ prog \in Programs
  BY <1>0, CurrentInstruction DEF TypeOK, ControlOK
<1>2. CASE HandleCall
  <2> DEFINE params == prog.params[Inst.callee]
             passed == {j \in DOMAIN params : Width[params[j]] # 0}
  <2>1. Inst.id \in DOMAIN map
        /\ DOMAIN map' = {Inst.id} \cup
             (IF Inst.callee \in Function THEN DOMAIN WithArguments ELSE DOMAIN map)
    BY <1>2 DEF HandleCall, Proceed, Put
  <2>2. DOMAIN WithArguments = DOMAIN map \cup {params[j] : j \in passed}
    BY DEF WithArguments
  <2>3. ASSUME Inst.callee \in Function
        PROVE  \A j \in DOMAIN params : params[j] # c
    <3>1. SingleAssignment(prog, F)
      BY <1>1, ProgramsAssumption DEF WellFormed, WellFormedFunction, F
    <3>2. Defines(prog.code[F][k])
      BY DEF Defines
    <3> QED BY <2>3, <3>1, <3>2 DEF SingleAssignment
  <2> QED BY <2>1, <2>2, <2>3
<1>3. CASE ~HandleCall
  <2>1. Updates(prog, F, Inst, map, map')
    BY <1>3, HandlerUpdates
  <2>2. IsInstruction(prog, F, Inst) /\ IsInstruction(prog, F, prog.code[F][k])
    BY <1>1, InstructionsAre DEF F, Inst
  <2>3. c \notin RecordedKeys(prog, F)
    BY <2>2 DEF IsInstruction
  <2>4. Records(prog, Inst) => Inst.id # c
    BY <2>2, <2>3 DEF IsInstruction
  <2>5. map' = map \/ (Records(prog, Inst) /\ DOMAIN map' = DOMAIN map \cup {Inst.id})
    <3>1. CASE ~Records(prog, Inst)
      BY <2>1, <3>1 DEF Updates, Records
    <3>2. ASSUME Records(prog, Inst), NEW r, map' = Emplace(map, Inst.id, r)
          PROVE  DOMAIN map' = DOMAIN map \cup {Inst.id}
      BY <3>2 DEF Emplace, Put
    <3>3. ASSUME NEW r, map' = Put(map, Inst.id, r)
          PROVE  DOMAIN map' = DOMAIN map \cup {Inst.id}
      BY <3>3 DEF Put
    <3>4. ASSUME NEW r, NEW s, map' = Put(Emplace(map, Inst.id, r), Inst.id, s)
          PROVE  DOMAIN map' = DOMAIN map \cup {Inst.id}
      BY <3>4 DEF Put, Emplace
    <3> QED BY <2>1, <3>1, <3>2, <3>3, <3>4 DEF Updates
  <2> QED BY <2>4, <2>5
<1> QED BY <1>2, <1>3

\* Of the results of calls, a followed edge has in its map those its branch is on.
LEMMA FollowedKeys ==
  ASSUME TypeOK, EntryInv, OnlyEntryRecorded, pc = "edges", NEW p \in preds,
         Follow(p, prog.term[F][p], BranchRange(p)),
         NEW k \in DOMAIN prog.code[F], prog.code[F][k].op = "call"
  PROVE  prog.code[F][k].id \in DOMAIN map'
         <=> prog.code[F][k].id \in EdgeKeys(prog.term[F][p])
<1> DEFINE c == prog.code[F][k].id
           t == prog.term[F][p]
           before == Emplace(rangeInfo[F], p, EmptyMap)[p]
<1>0. /\ fi \in DOMAIN prog.functions /\ prog \in Programs /\ F \in Function
      /\ p \in DOMAIN prog.succ[F]
  BY CurrentCode DEF TypeOK, ControlOK, Predecessors, Blocks, F
<1>1. c \notin DOMAIN before
  <2>1. IsInstruction(prog, F, prog.code[F][k])
    BY <1>0, InstructionsAre DEF F
  <2>2. CASE p \notin DOMAIN rangeInfo[F]
    <3>1. before = EmptyMap
      BY <2>2 DEF Emplace, Put
    <3> QED BY <3>1 DEF EmptyMap
  <2>3. CASE p \in DOMAIN rangeInfo[F] /\ p # 1
    <3>1. before = rangeInfo[F][p] /\ rangeInfo[F][p] = EmptyMap
      BY <1>0, <2>3 DEF Emplace, OnlyEntryRecorded
    <3> QED BY <3>1 DEF EmptyMap
  <2>4. CASE p \in DOMAIN rangeInfo[F] /\ p = 1
    <3>1. before = rangeInfo[F][1] /\ EntryMapOK(prog, F, rangeInfo[F][1])
      BY <1>0, <2>4 DEF Emplace, EntryInv, EntriesOK, F
    <3> QED BY <2>1, <3>1 DEF EntryMapOK, IsInstruction
  <2> QED BY <2>2, <2>3, <2>4
<1>2. t.op = "icmp" => t.id # c
  <2>1. SingleAssignment(prog, F)
    BY <1>0, ProgramsAssumption DEF WellFormed, WellFormedFunction, F
  <2>2. Defines(prog.code[F][k])
    BY DEF Defines
  <2> QED BY <1>0, <2>1, <2>2 DEF SingleAssignment
<1>3. DOMAIN BranchRange(p) = DOMAIN before \cup EdgeKeys(t)
  <2>1. CASE Compares(t)
    <3>1. \A l, r : DOMAIN RefineCompare(t, l, r, before) = DOMAIN before \cup {t.lhs, t.rhs}
      BY DEF RefineCompare, Put
    <3>2. BranchRange(p) = RefineCompare(t, GetRangeByBB(t.lhs, p), GetRangeByBB(t.rhs, p), before)
      BY <2>1 DEF BranchRange
    <3> HIDE DEF before, t
    <3> QED BY <2>1, <3>1, <3>2 DEF EdgeKeys
  <2>2. CASE ~Compares(t) /\ t.op = "switch"
    <3>1. \A l : DOMAIN RefineSwitch(t, l, before) = DOMAIN before \cup {t.cond}
      BY DEF RefineSwitch, Put
    <3>2. BranchRange(p) = RefineSwitch(t, GetRangeByBB(t.cond, p), before)
      BY <2>2 DEF BranchRange
    <3> HIDE DEF before, t
    <3> QED BY <2>2, <3>1, <3>2 DEF EdgeKeys
  <2>3. CASE ~Compares(t) /\ t.op # "switch"
    BY <2>3 DEF BranchRange, EdgeKeys
  <2> QED BY <2>1, <2>2, <2>3
<1>4. \/ DOMAIN map' = DOMAIN BranchRange(p)
      \/ t.op = "icmp" /\ DOMAIN map' = DOMAIN BranchRange(p) \cup {t.id}
  <2> DEFINE after == BranchRange(p)
             truth == Single(1, IF IsTrueBranch(t) THEN 1 ELSE 0)
  <2>1. map' = after \/ (t.op = "icmp" /\ map' = Put(after, t.id, truth))
    BY DEF Follow, Compares
  <2> HIDE DEF t, after, truth
  <2>2. DOMAIN Put(after, t.id, truth) = DOMAIN after \cup {t.id}
    BY DEF Put
  <2>3. \/ DOMAIN map' = DOMAIN after
        \/ t.op = "icmp" /\ DOMAIN map' = DOMAIN after \cup {t.id}
    BY <2>1, <2>2
  <2> QED BY <2>3 DEF t, after
<1> QED BY <1>1, <1>2, <1>3, <1>4

LEMMA VisitCallsSeenStep ==
  ASSUME TypeOK, WidthsKept, EntryInv, OnlyEntryRecorded, EdgeCallsSeen, VisitCallsSeen,
         [Next]_vars
  PROVE  VisitCallsSeen'
<1>0. prog' = prog
  BY ProgUnchanged
<1>1. CASE HandleInstruction
  <2>1. pc = "visit" /\ UNCHANGED <<iteration, fi>>
    BY <1>1 DEF HandleInstruction, HandleCall, SkipCall, HandleStore, HandleReturn,
                HandleSelect, HandleCast, HandleBinaryOperator, HandlePHI, HandleLoad,
                At, Proceed
  <2>2. F' = F /\ Grows(retRange, retRange')
    BY <1>0, <2>1, GrowStep DEF F
  <2>3. \A k \in DOMAIN prog.code[F] : prog.code[F][k].op = "call" =>
          (prog.code[F][k].id \in DOMAIN map' <=> prog.code[F][k].id \in DOMAIN map)
    BY <1>1, CallsInMap
  <2> QED BY <1>0, <2>1, <2>2, <2>3 DEF VisitCallsSeen, CallKnown, Grows
<1>2. CASE FollowEdge
  <2>1. pc = "edges" /\ UNCHANGED <<iteration, fi, retRange>> /\ fi \in DOMAIN prog.functions
        /\ bb \in DOMAIN prog.succ[F]
    BY <1>2 DEF FollowEdge, TypeOK, ControlOK, Blocks
  <2>2. PICK p \in preds \ BackEdges(bb) : Follow(p, prog.term[F][p], BranchRange(p))
    BY <1>2 DEF FollowEdge
  <2>3. p \in DOMAIN prog.succ[F] /\ bb \in prog.succ[F][p]
    BY <2>1, <2>2 DEF TypeOK, ControlOK, Predecessors, Blocks
  <2>4. ASSUME iteration > 1, NEW k \in DOMAIN prog.code[F], prog.code[F][k].op = "call",
               prog.code[F][k].id \in DOMAIN map'
        PROVE  CallKnown(prog, prog.code[F][k], retRange)
    <3>1. prog.code[F][k].id \in EdgeKeys(prog.term[F][p])
      BY <2>1, <2>2, <2>4, FollowedKeys
    <3>2. BranchesOn(F, p, k) /\ Taken(fi, bb, p) /\ ~Awaited(fi, bb, k)
      BY <2>1, <2>4, <3>1 DEF BranchesOn, Taken, Passed, Awaited
    <3> QED BY <2>1, <2>2, <2>3, <3>2 DEF EdgeCallsSeen, BackEdges, F
  <2>5. F' = F
    BY <1>0, <2>1 DEF F
  <2> QED BY <1>0, <2>1, <2>4, <2>5 DEF VisitCallsSeen
<1>3. CASE VisitEntry
  <2>1. pc = "edges" /\ bb = 1 /\ map' = rangeInfo[F][1] /\ UNCHANGED fi
        /\ fi \in DOMAIN prog.functions /\ prog \in Programs
    BY <1>3 DEF VisitEntry, TypeOK, ControlOK
  <2>2. EntryMapOK(prog, F, map')
    BY <2>1 DEF EntryInv, EntriesOK, F
  <2>3. \A k \in DOMAIN prog.code[F] : IsInstruction(prog, F, prog.code[F][k])
    BY <2>1, InstructionsAre DEF F
  <2>4. \A k \in DOMAIN prog.code[F] :
          prog.code[F][k].op = "call" => prog.code[F][k].id \notin DOMAIN map'
    BY <2>2, <2>3 DEF EntryMapOK, IsInstruction
  <2>5. F' = F
    BY <1>0, <2>1 DEF F
  <2> QED BY <1>0, <2>4, <2>5 DEF VisitCallsSeen
<1>4. CASE UNCHANGED vars
  BY <1>4 DEF vars, VisitCallsSeen, F
<1>5. CASE pc' # "visit"
  BY <1>5 DEF VisitCallsSeen
<1> QED
  BY <1>1, <1>2, <1>3, <1>4, <1>5 DEF Next, Step, Terminated, InitGlobalVariables,
     InitFunctionReturn, BeginIteration, EndIteration, EnterBlock, EndFunction,
     SkipBackEdge, LeaveBlock, EndVisit, Abort

\* Where the walk along the edges into a block is over, or has skipped one edge.
LEMMA TakenStep ==
  ASSUME TypeOK, VisitedCovered, [Next]_vars, NEW n \in DOMAIN prog.functions,
         NEW b \in DOMAIN prog.succ[prog.functions[n]],
         NEW p \in DOMAIN prog.succ[prog.functions[n]],
         b \in prog.succ[prog.functions[n]][p],
         p \notin CyclePreds(prog.succ[prog.functions[n]], b),
         Taken(n, b, p)'
  PROVE  \/ Taken(n, b, p)
         \/ /\ pc = "edges" /\ n = fi /\ b = bb /\ p \in preds
            /\ Follow(p, prog.term[F][p], BranchRange(p))
            /\ FollowEdge
<1> DEFINE f == prog.functions[n]
<1>1. CASE Passed(n, b)'
  <2>1. CASE n = fi /\ b = bb /\ bb = 1 /\ EndVisit
    <3>1. Predecessors(1) = {}
      BY <2>1, EntryHasNone DEF EndVisit, TypeOK, ControlOK
    <3> QED BY <2>1, <3>1 DEF Predecessors, Blocks, F
  <2>2. CASE n = fi /\ b = bb /\ LeaveBlock
    BY <2>2 DEF LeaveBlock, Taken, Here
  <2> QED BY <1>1, <2>1, <2>2, PassedStep DEF Taken
<1>2. CASE Here(n, b)' /\ p \notin preds'
  <2>1. CASE EnterBlock
    <3>1. n = fi /\ b = bb /\ preds' = Predecessors(bb)
      BY <1>2, <2>1 DEF EnterBlock, Here
    <3> QED BY <1>2, <3>1 DEF Predecessors, Blocks, F
  <2>2. CASE SkipBackEdge
    <3>1. PICK q \in preds : q \in BackEdges(bb) /\ preds' = preds \ {q}
      BY <2>2 DEF SkipBackEdge
    <3>2. Here(n, b) /\ n = fi /\ b = bb
      BY <1>2, <2>2 DEF SkipBackEdge, Here
    <3>3. p \notin preds
      BY <1>2, <3>1, <3>2 DEF BackEdges, F
    <3> QED BY <3>2, <3>3 DEF Taken
  <2>3. CASE FollowEdge
    <3>1. PICK q \in preds : Follow(q, prog.term[F][q], BranchRange(q))
      BY <2>3 DEF FollowEdge
    <3>2. Here(n, b) /\ n = fi /\ b = bb /\ pc = "edges"
      BY <1>2, <2>3 DEF FollowEdge, Here
    <3>3. preds' = preds \ {q}
      BY <3>1 DEF Follow
    <3>4. CASE p \in preds
      <4>1. q = p
        BY <1>2, <3>3, <3>4
      <4> QED BY <2>3, <3>1, <3>2, <4>1
    <3> QED BY <3>2, <3>4 DEF Taken
  <2>4. CASE VisitEntry \/ EndVisit
    BY <1>2, <2>4 DEF VisitEntry, EndVisit, Here, Taken
  <2>5. CASE HandleInstruction
    BY <1>2, <2>5 DEF HandleInstruction, HandleCall, SkipCall, HandleStore, HandleReturn,
       HandleSelect, HandleCast, HandleBinaryOperator, HandlePHI, HandleLoad, At, Proceed,
       Here, Taken
  <2>6. CASE UNCHANGED vars
    BY <1>2, <2>6 DEF vars, Here, Taken
  <2> QED
    BY <1>2, <2>1, <2>2, <2>3, <2>4, <2>5, <2>6 DEF Next, Step, Terminated, Here,
       InitGlobalVariables, InitFunctionReturn, BeginIteration, EndIteration, EndFunction,
       LeaveBlock, Abort
<1>3. Passed(n, b)' \/ (Here(n, b)' /\ p \notin preds')
  BY DEF Taken
<1> QED BY <1>1, <1>2, <1>3

\* A call that is awaited is looked at in this visit, unless the process ends before.
LEMMA AwaitedStep ==
  ASSUME TypeOK, VisitCallsSeen, [Next]_vars, NEW n \in DOMAIN prog.functions,
         NEW b \in DOMAIN prog.succ[prog.functions[n]],
         NEW k \in DOMAIN prog.code[prog.functions[n]],
         prog.code[prog.functions[n]][k].op = "call",
         Awaited(n, b, k), NEW p, Taken(n, b, p)'
  PROVE  Awaited(n, b, k)' \/ CallKnown(prog, prog.code[prog.functions[n]][k], retRange')
<1> DEFINE i == prog.code[F][k]
<1>0. /\ pc = "visit" /\ n = fi /\ b = bb /\ ip <= k /\ i.id \in DOMAIN map
      /\ prog' = prog /\ ip \in Nat /\ k \in Nat /\ k <= Len(prog.code[F])
      /\ k \in DOMAIN prog.code[F] /\ i.op = "call" /\ i = prog.code[prog.functions[n]][k]
      /\ b \in Nat /\ n \in Nat
  <2>1. IsSequence(prog.code[prog.functions[n]]) /\ IsSequence(prog.succ[prog.functions[n]])
    BY CurrentCode DEF TypeOK, ControlOK
  <2>2. n \in Nat
    BY ProgramsAssumption DEF TypeOK, ControlOK, WellFormed
  <2> QED BY <2>1, <2>2, ProgUnchanged DEF Awaited, F, IsSequence, TypeOK, ControlOK
<1>1. CASE HandleInstruction /\ ip = k
  <2>1. Inst = i
    BY <1>0, <1>1 DEF Inst
  <2>2. HandleCall
    BY <1>0, <1>1, <2>1 DEF HandleInstruction, SkipCall, HandleStore, HandleReturn,
       HandleSelect, HandleCast, HandleBinaryOperator, HandlePHI, HandleLoad, At
  <2>3. i.callee \in Function /\ ReturnsInteger(prog, i.callee)
        => retRange' = Emplace(retRange, i.callee, DefaultRange)
    BY <2>1, <2>2 DEF HandleCall
  <2>4. \A g : g \in DOMAIN Emplace(retRange, g, DefaultRange)
    BY DEF Emplace, Put
  <2> QED BY <1>0, <2>3, <2>4 DEF CallKnown
<1>2. CASE HandleInstruction /\ ip # k
  <2>1. ip' = ip + 1 /\ UNCHANGED <<pc, fi, bb>>
    BY <1>2 DEF HandleInstruction, HandleCall, SkipCall, HandleStore, HandleReturn,
       HandleSelect, HandleCast, HandleBinaryOperator, HandlePHI, HandleLoad, At, Proceed
  <2>2. i.id \in DOMAIN map'
    BY <1>0, <1>2, CallsInMap
  <2>3. F' = F
    BY <1>0, <2>1 DEF F
  <2> QED BY <1>0, <1>2, <2>1, <2>2, <2>3 DEF Awaited
<1>3. CASE EndVisit
  BY <1>0, <1>3 DEF EndVisit
<1>4. CASE Abort
  <2>1. iteration > 1
    BY <1>0, <1>4 DEF Abort, Taken, Passed, Here
  <2> QED BY <1>0, <1>4, <2>1 DEF VisitCallsSeen, Abort, CallKnown
<1>5. CASE UNCHANGED vars
  BY <1>0, <1>5 DEF vars, Awaited, F
<1> QED
  BY <1>0, <1>1, <1>2, <1>3, <1>4, <1>5 DEF Next, Step, Terminated, InitGlobalVariables,
     InitFunctionReturn, BeginIteration, EndIteration, EnterBlock, EndFunction, SkipBackEdge,
     FollowEdge, VisitEntry, LeaveBlock

LEMMA EdgeCallsSeenStep ==
  ASSUME TypeOK, WidthsKept, VisitedCovered, EntryInv, OnlyEntryRecorded, EdgeCallsSeen,
         VisitCallsSeen, [Next]_vars
  PROVE  EdgeCallsSeen'
<1> SUFFICES ASSUME NEW n \in DOMAIN prog.functions,
                    NEW b \in DOMAIN prog.succ[prog.functions[n]],
                    NEW p \in DOMAIN prog.succ[prog.functions[n]],
                    NEW k \in DOMAIN prog.code[prog.functions[n]],
                    b \in prog.succ[prog.functions[n]][p],
                    p \notin CyclePreds(prog.succ[prog.functions[n]], b),
                    BranchesOn(prog.functions[n], p, k), Taken(n, b, p)'
             PROVE  CallKnown(prog, prog.code[prog.functions[n]][k], retRange')
                    \/ Awaited(n, b, k)'
  BY ProgUnchanged DEF EdgeCallsSeen, BranchesOn
<1> DEFINE f == prog.functions[n]
           i == prog.code[f][k]
<1>1. CASE Taken(n, b, p)
  <2>1. CallKnown(prog, i, retRange) \/ Awaited(n, b, k)
    BY <1>1 DEF EdgeCallsSeen
  <2>2. CASE CallKnown(prog, i, retRange)
    <3>1. pc \notin {"initGlobals", "initReturns"}
      BY <1>1 DEF Taken, Passed, Here, TypeOK, ControlOK
    <3> QED BY <2>2, <3>1, GrowStep DEF CallKnown, Grows
  <2>3. CASE Awaited(n, b, k)
    <3>1. i.op = "call"
      BY DEF BranchesOn
    <3> QED BY <2>3, <3>1, AwaitedStep
  <2> QED BY <2>1, <2>2, <2>3
<1>2. CASE /\ pc = "edges" /\ n = fi /\ b = bb /\ p \in preds
           /\ Follow(p, prog.term[F][p], BranchRange(p))
           /\ FollowEdge
  <2>1. f = F /\ prog' = prog
    BY <1>2, ProgUnchanged DEF F
  <2>2. i.id \in DOMAIN map'
    BY <1>2, <2>1, FollowedKeys DEF BranchesOn
  <2>3. pc' = "visit" /\ ip' = 1 /\ UNCHANGED <<fi, bb>>
    BY <1>2 DEF FollowEdge
  <2>4. 1 <= k
    BY CurrentCode DEF IsSequence, TypeOK, ControlOK
  <2>5. F' = F
    BY <2>1, <2>3 DEF F
  <2> QED BY <1>2, <2>1, <2>2, <2>3, <2>4, <2>5 DEF Awaited
<1> QED BY <1>1, <1>2, TakenStep

(***************************************************************************)
(* From the second iteration on, no step changes the three maps.           *)
(***************************************************************************)
SettledInv ==
  /\ BlocksSeen
  /\ EntriesSeen
  /\ StoresSeen
  /\ EdgeCallsSeen
  /\ VisitCallsSeen
  /\ IsFcn(retRange)

LEMMA PutIdle ==
  ASSUME NEW m, IsFcn(m), NEW k \in DOMAIN m, NEW v, v = m[k]
  PROVE  Put(m, k, v) = m
BY DEF IsFcn, Put

LEMMA ReturnRangesAreFcn ==
  ASSUME IsFcn(retRange), TypeOK, WidthsKept, [Next]_vars
  PROVE  IsFcn(retRange')
<1>1. \A k, v : IsFcn(Put(retRange, k, v))
  BY DEF Put, IsFcn
<1>2. CASE InitFunctionReturn
  <2>1. retRange' = [f \in {g \in ToSet(prog.functions) : ReturnsInteger(prog, g)} |->
                       Empty(prog.returns[f])]
    BY <1>2 DEF InitFunctionReturn
  <2> QED BY <2>1 DEF IsFcn
<1>3. CASE HandleCall
  BY <1>1, <1>3, CallStep
<1>4. CASE HandleReturn
  BY <1>1, <1>4, ReturnStep
<1>5. CASE UNCHANGED retRange
  BY <1>5
<1>6. CASE InitGlobalVariables \/ HandleStore
  BY <1>6 DEF InitGlobalVariables, HandleStore
<1> QED BY <1>2, <1>3, <1>4, <1>5, <1>6, QuietStep

LEMMA VisitedLater ==
  ASSUME iteration > 1, TypeOK, VisitedCovered, pc = "visit", ip <= Len(prog.code[F])
  PROVE  StoreCovered(Inst) /\ ReturnCovered(F, Inst)
<1>1. fi \in DOMAIN prog.functions /\ ip \in DOMAIN prog.code[F]
  BY CurrentInstruction
<1> QED BY <1>1 DEF VisitedCovered, Visited, F, Inst

LEMMA StoreIdle ==
  ASSUME iteration > 1, TypeOK, WidthsKept, VisitedCovered, StoresSeen, HandleStore
  PROVE  gvRange' = gvRange
<1> SUFFICES ASSUME StoresToGlobal
             PROVE  gvRange' = gvRange
  BY DEF HandleStore
<1> DEFINE G == Inst.ptr
           old == gvRange[G]
           new == GetRange(Inst.val, map)
<1>1. /\ pc = "visit" /\ ip <= Len(prog.code[F]) /\ Inst.op = "store"
      /\ G \in Global /\ Width[Inst.val] # 0
  BY DEF HandleStore, At, StoresToGlobal
<1>2. fi \in DOMAIN prog.functions /\ ip \in DOMAIN prog.code[F]
  BY <1>1, CurrentInstruction
<1>3. G \in DOMAIN gvRange
  BY <1>1, <1>2 DEF StoresSeen, Visited, Inst, F
<1>4. /\ IsRange(new) /\ new.bits = Width[Inst.val] /\ new.set = Possible(Inst.val)
      /\ HasRange(G) => Width[Inst.val] = prog.globals[G].bits
  BY StoredValue, StoredWidth, GetRangeCovers DEF HandleStore
<1>5. IsRange(old)
  BY <1>3 DEF TypeOK, MapsOK
<1>6. UnionWith(old, new) = old
  <2>1. CASE HasRange(G)
    <3>1. old.bits = prog.globals[G].bits
      BY <1>1, <2>1 DEF WidthsKept
    <3>2. new.set \subseteq old.set
      BY <1>1, <1>4, <2>1, VisitedLater DEF StoreCovered
    <3> HIDE DEF old, new
    <3> QED BY <1>4, <1>5, <2>1, <3>1, <3>2, UnionAbsorbs
  <2>2. CASE ~HasRange(G)
    <3>1. old.bits = 0
      BY <1>3, <2>2 DEF StoresSeen
    <3> QED BY <1>1, <1>4, <3>1 DEF UnionWith
  <2> QED BY <2>1, <2>2
<1>7. gvRange' = Put(gvRange, G, UnionWith(old, new))
  BY <1>3 DEF HandleStore, RangeOfGlobal
<1> HIDE DEF G, old, new
<1>8. IsFcn(gvRange)
  BY DEF StoresSeen
<1> QED BY <1>3, <1>6, <1>7, <1>8, PutIdle DEF old

LEMMA ReturnIdle ==
  ASSUME iteration > 1, TypeOK, WidthsKept, VisitedCovered, IsFcn(retRange), HandleReturn
  PROVE  retRange' = retRange
<1> SUFFICES ASSUME ReturnsInteger(prog, F)
             PROVE  retRange' = retRange
  BY DEF HandleReturn
<1> DEFINE old == retRange[F]
           new == GetRange(Inst.val, map)
<1>1. pc = "visit" /\ ip <= Len(prog.code[F]) /\ Inst.op = "ret"
  BY DEF HandleReturn, At
<1>2. Inst.val \in Value /\ Width[Inst.val] = prog.returns[F]
  BY ReturnedValue DEF HandleReturn
<1>3. IsRange(new) /\ new.bits = prog.returns[F] /\ new.set = Possible(Inst.val)
  BY <1>2, GetRangeCovers
<1>4. F \in DOMAIN retRange /\ old.bits = prog.returns[F]
  BY <1>1, CurrentInstruction DEF WidthsKept, F
<1>5. IsRange(old)
  BY <1>4 DEF TypeOK, MapsOK
<1>6. new.set \subseteq old.set
  BY <1>1, <1>3, VisitedLater DEF ReturnCovered
<1>7. retRange' = Put(retRange, F, UnionWith(new, old))
  BY DEF HandleReturn
<1> HIDE DEF old, new
<1>8. UnionWith(new, old) = old
  BY <1>3, <1>4, <1>5, <1>6, UnionAbsorbs
<1> QED BY <1>4, <1>7, <1>8, PutIdle DEF old

LEMMA CallIdle ==
  ASSUME iteration > 1, TypeOK, VisitCallsSeen, HandleCall
  PROVE  retRange' = retRange
<1>1. /\ pc = "visit" /\ ip <= Len(prog.code[F]) /\ Inst.op = "call"
      /\ Inst.id \in DOMAIN map
  BY DEF HandleCall, At
<1>2. ip \in DOMAIN prog.code[F]
  BY <1>1, CurrentInstruction
<1>3. CallKnown(prog, Inst, retRange)
  BY <1>1, <1>2 DEF VisitCallsSeen, Inst
<1> QED BY <1>3 DEF HandleCall, CallKnown, Emplace

\* What an entry block has on record is all there is to record.
LEMMA EntryIdle ==
  ASSUME iteration > 1, TypeOK, EntryInv, EntriesSeen, pc = "visit", bb = 1,
         ip > Len(prog.code[F])
  PROVE  1 \in DOMAIN rangeInfo[F] /\ map = rangeInfo[F][1]
<1> DEFINE m == rangeInfo[F][1]
<1>1. fi \in DOMAIN prog.functions /\ EntryVisit
  BY DEF EntryInv, TypeOK, ControlOK
<1>2. EntryMapOK(prog, F, map) /\ EntryMapOK(prog, F, m) /\ Extends(m, map)
  BY <1>1 DEF EntryVisit, EntryInv, EntriesOK, F
<1>3. RecordedKeys(prog, F) \subseteq DOMAIN m
  BY <1>1 DEF EntriesSeen, Passed, F
<1>4. 1 \in DOMAIN rangeInfo[F]
  BY <1>1 DEF EntryVisit
<1> HIDE DEF m
<1>5. DOMAIN map = DOMAIN m /\ \A v \in DOMAIN m : map[v] = m[v]
  BY <1>2, <1>3 DEF EntryMapOK, Extends
<1>6. map = m
  BY <1>2, <1>5 DEF EntryMapOK, IsFcn
<1> QED BY <1>4, <1>6 DEF m

LEMMA InfoIdle ==
  ASSUME iteration > 1, TypeOK, EntryInv, BlocksSeen, EntriesSeen, [Next]_vars
  PROVE  rangeInfo' = rangeInfo
<1>0. /\ rangeInfo = [f \in Function |-> rangeInfo[f]]
      /\ \A f \in Function : IsFcn(rangeInfo[f])
      /\ pc \notin {"initGlobals", "initReturns"}
  BY DEF EntryInv, InfoOK, TypeOK, ControlOK
<1>1. ASSUME NEW new, new = rangeInfo[F], rangeInfo' = [rangeInfo EXCEPT ![F] = new]
      PROVE  rangeInfo' = rangeInfo
  BY <1>0, <1>1
<1>2. ASSUME fi \in DOMAIN prog.functions
      PROVE  /\ F \in Function
             /\ \A b \in Blocks : b \in DOMAIN rangeInfo[F]
  BY <1>2, CurrentCode DEF BlocksSeen, Passed, Blocks, F, TypeOK, ControlOK
<1>3. CASE EnterBlock
  <2>1. fi \in DOMAIN prog.functions
    BY <1>3, ProgramsAssumption DEF EnterBlock, TypeOK, ControlOK, WellFormed
  <2>2. rangeInfo' = [rangeInfo EXCEPT ![F] = Emplace(rangeInfo[F], bb, EmptyMap)]
        /\ bb \in Blocks
    BY <1>3 DEF EnterBlock
  <2>3. Emplace(rangeInfo[F], bb, EmptyMap) = rangeInfo[F]
    BY <1>2, <2>1, <2>2 DEF Emplace
  <2> QED BY <1>1, <2>2, <2>3
<1>4. CASE FollowEdge
  <2>1. fi \in DOMAIN prog.functions /\ preds \subseteq Blocks
    BY <1>4 DEF FollowEdge, TypeOK, ControlOK, Predecessors
  <2>2. PICK p \in preds :
          rangeInfo' = [rangeInfo EXCEPT ![F] = Emplace(rangeInfo[F], p, EmptyMap)]
    BY <1>4 DEF FollowEdge, Follow
  <2>3. Emplace(rangeInfo[F], p, EmptyMap) = rangeInfo[F]
    BY <1>2, <2>1, <2>2 DEF Emplace
  <2> QED BY <1>1, <2>2, <2>3
<1>5. CASE EndVisit /\ bb = 1
  <2> DEFINE new == [rangeInfo[F] EXCEPT ![1] = map]
  <2>1. fi \in DOMAIN prog.functions
    BY <1>5 DEF EndVisit, TypeOK, ControlOK
  <2>2. rangeInfo' = [rangeInfo EXCEPT ![F] = new]
    BY <1>5 DEF EndVisit
  <2>3. 1 \in DOMAIN rangeInfo[F] /\ map = rangeInfo[F][1]
    BY <1>5, EntryIdle DEF EndVisit
  <2>4. new = rangeInfo[F]
    BY <1>0, <1>2, <2>1, <2>3 DEF IsFcn
  <2> HIDE DEF new
  <2> QED BY <1>1, <2>2, <2>4
<1>6. CASE HandlePHI
  <2> DEFINE from == {inc.from : inc \in ToSet(Inst.incoming)} \ BackEdges(Inst.parent)
             new == [b \in DOMAIN rangeInfo[F] \cup from |->
                       IF b \in DOMAIN rangeInfo[F] THEN rangeInfo[F][b] ELSE EmptyMap]
  <2>1. pc = "visit" /\ ip <= Len(prog.code[F]) /\ Inst.op = "phi"
    BY <1>6 DEF HandlePHI, At
  <2>2. fi \in DOMAIN prog.functions /\ WellFormedInstruction(prog, F, Inst)
    BY <2>1, CurrentInstruction
  <2>3. \A k \in DOMAIN Inst.incoming : Inst.incoming[k].from \in Blocks
    BY <2>1, <2>2 DEF WellFormedInstruction, Blocks
  <2>4. from \subseteq DOMAIN rangeInfo[F]
    BY <1>2, <2>2, <2>3 DEF ToSet
  <2>5. new = rangeInfo[F]
    <3> HIDE DEF from
    <3> QED BY <1>0, <1>2, <2>2, <2>4 DEF IsFcn
  <2>6. rangeInfo' = [rangeInfo EXCEPT ![F] = new]
    BY <1>6 DEF HandlePHI
  <2> HIDE DEF new
  <2> QED BY <1>1, <2>5, <2>6
<1>7. CASE ~(EnterBlock \/ FollowEdge \/ (EndVisit /\ bb = 1) \/ HandlePHI)
  BY <1>0, <1>7 DEF Next, Step, HandleInstruction, InitGlobalVariables, InitFunctionReturn,
     BeginIteration, EndIteration, SkipBackEdge, VisitEntry, LeaveBlock, EndVisit,
     EndFunction, HandleCall, SkipCall, HandleStore, HandleReturn, HandleSelect,
     HandleCast, HandleBinaryOperator, HandleLoad, Abort, results, Terminated, vars
<1> QED BY <1>3, <1>4, <1>5, <1>6, <1>7

LEMMA SecondIterationIdle ==
  ASSUME iteration > 1, TypeOK, RangesInv, EntryInv, SettledInv, [Next]_vars
  PROVE  results' = results
<1> USE DEF RangesInv, SettledInv
<1>0. ~InitGlobalVariables /\ ~InitFunctionReturn
  BY DEF InitGlobalVariables, InitFunctionReturn, TypeOK, ControlOK
<1>1. gvRange' = gvRange
  BY <1>0, StoreIdle, QuietStep DEF HandleCall, HandleReturn
<1>2. retRange' = retRange
  BY <1>0, ReturnIdle, CallIdle, QuietStep DEF HandleStore
<1>3. rangeInfo' = rangeInfo
  BY InfoIdle
<1> QED BY <1>1, <1>2, <1>3 DEF results

(***************************************************************************)
(* The second iteration therefore ends with the maps it began with, and    *)
(* is the last: the bound of ten iterations is never what ends the loop.   *)
(***************************************************************************)
IdleInv ==
  /\ iteration <= 2
  /\ iteration = 2 => results = saved
  /\ pc = "iterate" => iteration < 2
  /\ Done => results = saved

LEMMA IdleStep ==
  ASSUME TypeOK, RangesInv, EntryInv, SettledInv, IdleInv, [Next]_vars
  PROVE  IdleInv'
<1>0. iteration \in Nat /\ MaxIterations > 1 /\ MaxIterations \in Nat
      /\ (pc \in {"initGlobals", "initReturns"} => iteration = 0)
  BY BuildAssumption DEF TypeOK, ControlOK
<1>1. iteration = 2 => results' = results
  BY <1>0, SecondIterationIdle
<1>2. CASE InitGlobalVariables \/ InitFunctionReturn
  BY <1>0, <1>2 DEF InitGlobalVariables, InitFunctionReturn, IdleInv, Done
<1>3. CASE BeginIteration
  <2>1. iteration < 2 /\ iteration' = iteration + 1 /\ saved' = results /\ pc' = "function"
        /\ results' = results
    BY <1>3 DEF BeginIteration, IdleInv, results
  <2> QED BY <1>0, <2>1 DEF IdleInv, Done
<1>4. CASE EndIteration
  <2>1. /\ UNCHANGED <<iteration, saved>> /\ results' = results /\ pc = "function"
        /\ pc' = IF results = saved \/ iteration = MaxIterations THEN "done" ELSE "iterate"
    BY <1>4 DEF EndIteration, results
  <2>2. iteration <= 2 /\ (iteration = 2 => results = saved)
    BY DEF IdleInv
  <2>3. CASE results = saved
    BY <2>1, <2>2, <2>3 DEF IdleInv, Done
  <2>4. CASE results # saved
    <3>1. iteration < 2 /\ iteration # MaxIterations
      BY <1>0, <2>2, <2>4
    <3>2. pc' = "iterate"
      BY <2>1, <2>4, <3>1
    <3> QED BY <2>1, <2>2, <2>4, <3>1, <3>2 DEF IdleInv, Done
  <2> QED BY <2>3, <2>4
<1>5. CASE UNCHANGED vars
  BY <1>5 DEF vars, IdleInv, Done, results
<1>6. ASSUME UNCHANGED <<iteration, saved>>, pc' \notin {"iterate", "done"}
      PROVE  IdleInv'
  BY <1>1, <1>6 DEF IdleInv, Done
<1>7. CASE \/ EnterBlock \/ EndFunction \/ SkipBackEdge \/ FollowEdge \/ VisitEntry
           \/ LeaveBlock \/ EndVisit \/ Abort
  BY <1>6, <1>7 DEF EnterBlock, EndFunction, SkipBackEdge, FollowEdge, VisitEntry,
     LeaveBlock, EndVisit, Abort
<1>8. CASE HandleInstruction
  BY <1>6, <1>8 DEF HandleInstruction, HandleCall, SkipCall, HandleStore, HandleReturn,
     HandleSelect, HandleCast, HandleBinaryOperator, HandlePHI, HandleLoad, At, Proceed
<1> QED
  BY <1>2, <1>3, <1>4, <1>5, <1>7, <1>8 DEF Next, Step, Terminated

LEMMA SettledInvariant == Spec => [](SettledInv /\ IdleInv)
<1>1. Init => SettledInv /\ IdleInv
  <2> SUFFICES ASSUME Init PROVE SettledInv /\ IdleInv
    OBVIOUS
  <2>1. iteration = 0 /\ pc = "initGlobals" /\ gvRange = EmptyMap /\ retRange = EmptyMap
    BY DEF Init
  <2>2. IsFcn(EmptyMap)
    BY DEF IsFcn, EmptyMap
  <2>3. BlocksSeen /\ EntriesSeen /\ EdgeCallsSeen /\ VisitCallsSeen
    BY <2>1 DEF BlocksSeen, EntriesSeen, EdgeCallsSeen, VisitCallsSeen, Passed, Here, Taken
  <2>4. StoresSeen
    BY <2>1, <2>2 DEF StoresSeen, Visited, EmptyMap
  <2>5. IdleInv
    BY <2>1 DEF IdleInv, Done
  <2> QED BY <2>1, <2>2, <2>3, <2>4, <2>5 DEF SettledInv
<1>2. TypeOK /\ RangesInv /\ EntryInv /\ EntryInv' /\ OnlyEntryRecorded
      /\ SettledInv /\ IdleInv /\ [Next]_vars
      => (SettledInv /\ IdleInv)'
  <2> SUFFICES ASSUME TypeOK, RangesInv, EntryInv, EntryInv', OnlyEntryRecorded,
                      SettledInv, IdleInv, [Next]_vars
               PROVE  SettledInv' /\ IdleInv'
    OBVIOUS
  <2>1. BlocksSeen'
    BY BlocksSeenStep DEF SettledInv, RangesInv
  <2>2. EntriesSeen'
    BY EntriesSeenStep DEF SettledInv, RangesInv
  <2>3. StoresSeen'
    BY StoresSeenStep DEF SettledInv, RangesInv
  <2>4. EdgeCallsSeen'
    BY EdgeCallsSeenStep DEF SettledInv, RangesInv
  <2>5. VisitCallsSeen'
    BY VisitCallsSeenStep DEF SettledInv, RangesInv
  <2>6. IsFcn(retRange)'
    BY ReturnRangesAreFcn DEF SettledInv, RangesInv
  <2> QED BY <2>1, <2>2, <2>3, <2>4, <2>5, <2>6, IdleStep DEF SettledInv
<1> QED
  BY <1>1, <1>2, RangeAnalysisTypeOK, RangeAnalysisRangesInv, EntryInvariant,
     RangeAnalysisOnlyEntryRecorded, PTL DEF Spec

(***************************************************************************)
(* run() ends after at most two iterations, because the maps are the same  *)
(* as before, for every module of IR.                                      *)
(***************************************************************************)
THEOREM RangeAnalysisConvergesInTwo == Spec => []ConvergesInTwo
<1>1. IdleInv => ConvergesInTwo
  BY DEF IdleInv, ConvergesInTwo
<1> QED BY <1>1, SettledInvariant, PTL

-----------------------------------------------------------------------------
(***************************************************************************)
(* What printRanges shows, in two parts: the comparisons with the record   *)
(* TRUE cannot be true; and a comparison that cannot be true has it from   *)
(* the moment on at which its true edge has been followed, for good, since *)
(* no other edge finds a contradiction in it.                              *)
(***************************************************************************)
PrintedOK(t) == t.op = "icmp" /\ t.id \in Printed => Infeasible(t, TRUE)

PrintedInfeasible ==
  \A n \in DOMAIN prog.functions : \A b \in DOMAIN prog.succ[prog.functions[n]] :
    PrintedOK(prog.term[prog.functions[n]][b])

FollowedOK(f, n, b) ==
  LET t == prog.term[f][b] IN
  Refinable(t) /\ TrueEdgeFollowed(f, b) /\ Taken(n, t.then, b) /\ Infeasible(t, TRUE)
  => t.id \in Printed

FollowedPrinted ==
  \A n \in DOMAIN prog.functions : \A b \in DOMAIN prog.succ[prog.functions[n]] :
    FollowedOK(prog.functions[n], n, b)

\* An edge that records a comparison records TRUE exactly if it cannot be true.
LEMMA RecordedStep ==
  ASSUME TypeOK, [Next]_vars, impossible' # impossible
  PROVE  /\ pc = "edges" /\ FollowEdge
         /\ \E p \in preds : \E t :
              /\ t = prog.term[F][p] /\ Compares(t)
              /\ Printed' = IF Infeasible(t, TRUE) THEN Printed \cup {t.id}
                                                   ELSE Printed \ {t.id}
<1>1. FollowEdge /\ pc = "edges"
  BY ContradictionStep DEF FollowEdge
<1>2. PICK p \in preds : \E t :
        /\ t = prog.term[F][p] /\ Compares(t) /\ ContradictsCompare(t, BranchRange(p))
        /\ impossible' = Put(impossible, t.id, IsTrueBranch(t))
  BY ContradictionStep
<1>2a. PICK t :
        /\ t = prog.term[F][p] /\ Compares(t) /\ ContradictsCompare(t, BranchRange(p))
        /\ impossible' = Put(impossible, t.id, IsTrueBranch(t))
  BY <1>2
<1>3. IsTrueBranch(t) <=> Infeasible(t, TRUE)
  BY <1>1, <1>2a, TrueEdgeExact
<1>4. IsTrueBranch(t) \in BOOLEAN
  BY DEF IsTrueBranch
<1>5. Printed' = IF IsTrueBranch(t) THEN Printed \cup {t.id} ELSE Printed \ {t.id}
  BY <1>2a, <1>4 DEF Printed, Put
<1> QED BY <1>1, <1>2a, <1>3, <1>5

LEMMA PrintedInfeasibleStep ==
  ASSUME TypeOK, PrintedInfeasible, [Next]_vars
  PROVE  PrintedInfeasible'
<1>1. prog' = prog
  BY ProgUnchanged
<1>2. \A t, outcome : Infeasible(t, outcome)' <=> Infeasible(t, outcome)
  BY Zenon DEF Infeasible, Possible
<1> SUFFICES ASSUME NEW n \in DOMAIN prog.functions,
                    NEW b \in DOMAIN prog.succ[prog.functions[n]], NEW u,
                    u = prog.term[prog.functions[n]][b], u.op = "icmp", u.id \in Printed'
             PROVE  Infeasible(u, TRUE)
  BY <1>1, <1>2 DEF PrintedInfeasible, PrintedOK
<1>3. u.id \in Printed => Infeasible(u, TRUE)
  BY DEF PrintedInfeasible, PrintedOK
<1>4. CASE impossible' = impossible
  BY <1>3, <1>4 DEF Printed
<1>5. CASE impossible' # impossible
  <2>1. pc = "edges"
    BY <1>5, RecordedStep
  <2>2. PICK p \in preds : \E t :
          /\ t = prog.term[F][p] /\ Compares(t)
          /\ Printed' = IF Infeasible(t, TRUE) THEN Printed \cup {t.id} ELSE Printed \ {t.id}
    BY <1>5, RecordedStep
  <2>2a. PICK t :
          /\ t = prog.term[F][p] /\ Compares(t)
          /\ Printed' = IF Infeasible(t, TRUE) THEN Printed \cup {t.id} ELSE Printed \ {t.id}
    BY <2>2
  <2>3. u.id = t.id => (Infeasible(t, TRUE) <=> Infeasible(u, TRUE))
    <3>1. u.id = t.id => t.pred = u.pred /\ t.lhs = u.lhs /\ t.rhs = u.rhs
      BY <2>1, <2>2a, SameComparison
    <3> QED BY <3>1 DEF Infeasible
  <2> QED BY <1>3, <2>2a, <2>3
<1> QED BY <1>4, <1>5

LEMMA FollowedPrintedStep ==
  ASSUME TypeOK, VisitedCovered, FollowedPrinted, [Next]_vars
  PROVE  FollowedPrinted'
<1>1. prog' = prog
  BY ProgUnchanged
<1>2. \A t, outcome : Infeasible(t, outcome)' <=> Infeasible(t, outcome)
  BY Zenon DEF Infeasible, Possible
<1> SUFFICES ASSUME NEW n \in DOMAIN prog.functions,
                    NEW b \in DOMAIN prog.succ[prog.functions[n]], NEW f, NEW u,
                    f = prog.functions[n], u = prog.term[f][b],
                    Refinable(u), TrueEdgeFollowed(f, b), Taken(n, u.then, b)',
                    Infeasible(u, TRUE)
             PROVE  u.id \in Printed'
  BY <1>1, <1>2 DEF FollowedPrinted, FollowedOK, Refinable, Compares, TrueEdgeFollowed
<1>3. u.then \in prog.succ[f][b] /\ b \notin CyclePreds(prog.succ[f], u.then)
  BY DEF TrueEdgeFollowed
<1>4. u.then \in DOMAIN prog.succ[f]
  <2>1. WellFormedFunction(prog, f) /\ IsSequence(prog.succ[f])
    BY ProgramsAssumption DEF TypeOK, ControlOK, WellFormed, WellFormedFunction
  <2>2. prog.succ[f][b] \subseteq 2 .. Len(prog.succ[f])
    BY <2>1 DEF WellFormedFunction
  <2> QED BY <1>3, <2>1, <2>2 DEF IsSequence
<1>5. CASE Taken(n, u.then, b)
  <2>1. u.id \in Printed
    BY <1>5 DEF FollowedPrinted, FollowedOK
  <2>2. CASE impossible' = impossible
    BY <2>1, <2>2 DEF Printed
  <2>3. CASE impossible' # impossible
    <3>1. pc = "edges"
      BY <2>3, RecordedStep
    <3>2. PICK p \in preds : \E t :
            /\ t = prog.term[F][p] /\ Compares(t)
            /\ Printed' = IF Infeasible(t, TRUE) THEN Printed \cup {t.id} ELSE Printed \ {t.id}
      BY <2>3, RecordedStep
    <3>2a. PICK t :
            /\ t = prog.term[F][p] /\ Compares(t)
            /\ Printed' = IF Infeasible(t, TRUE) THEN Printed \cup {t.id} ELSE Printed \ {t.id}
      BY <3>2
    <3>3. u.id = t.id => Infeasible(t, TRUE)
      <4>1. u = prog.term[prog.functions[n]][b] /\ u.op = "icmp"
        BY DEF Refinable, Compares
      <4>2. u.id = t.id => t.pred = u.pred /\ t.lhs = u.lhs /\ t.rhs = u.rhs
        BY <3>1, <3>2a, <4>1, SameComparison
      <4> QED BY <4>2 DEF Infeasible
    <3> QED BY <2>1, <3>2a, <3>3
  <2> QED BY <2>2, <2>3
<1>6. CASE /\ pc = "edges" /\ n = fi /\ u.then = bb /\ b \in preds
           /\ Follow(b, prog.term[F][b], BranchRange(b))
  <2>1. u = prog.term[F][b] /\ IsTrueBranch(u) /\ Compares(u)
    BY <1>6 DEF F, IsTrueBranch, Refinable
  <2>2. ContradictsCompare(u, BranchRange(b))
    BY <1>6, <2>1, TrueEdgeExact
  <2>3. impossible' = Put(impossible, u.id, IsTrueBranch(u))
    <3> DEFINE branchRange == BranchRange(b)
    <3>1. Follow(b, u, branchRange) /\ ContradictsCompare(u, branchRange)
      BY <1>6, <2>1, <2>2
    <3> HIDE DEF branchRange
    <3> QED BY <2>1, <3>1 DEF Follow
  <2> QED BY <2>1, <2>3 DEF Printed, Put
<1> QED BY <1>3, <1>4, <1>5, <1>6, TakenStep

(***************************************************************************)
(* "Printing impossible branches" shows exactly the comparisons that no    *)
(* values of the operands make true, for every module of IR, wherever the  *)
(* comparison is refined at all and its true edge is not skipped.          *)
(***************************************************************************)
THEOREM RangeAnalysisPrintedExact == Spec => []PrintedExact
<1>1. Init => PrintedInfeasible /\ FollowedPrinted
  BY DEF Init, PrintedInfeasible, PrintedOK, FollowedPrinted, FollowedOK, Printed, EmptyMap,
         Taken, Passed, Here
<1>2. TypeOK /\ VisitedCovered /\ PrintedInfeasible /\ FollowedPrinted /\ [Next]_vars
      => (PrintedInfeasible /\ FollowedPrinted)'
  BY PrintedInfeasibleStep, FollowedPrintedStep
<1>3. TypeOK /\ VisitedCovered /\ PrintedInfeasible /\ FollowedPrinted => PrintedExact
  <2> SUFFICES ASSUME TypeOK, VisitedCovered, PrintedInfeasible, FollowedPrinted, Done,
                      NEW n \in DOMAIN prog.functions,
                      NEW b \in DOMAIN prog.succ[prog.functions[n]], NEW f, NEW t,
                      f = prog.functions[n], t = prog.term[f][b],
                      Refinable(t), TrueEdgeFollowed(f, b)
               PROVE  t.id \in Printed <=> Infeasible(t, TRUE)
    BY DEF PrintedExact
  <2>1. Taken(n, t.then, b)
    <3>1. fi > Len(prog.functions) /\ iteration \in Nat \ {0} /\ fi \in Nat
      BY BuildAssumption DEF TypeOK, ControlOK, VisitedCovered, Done
    <3>2. n \in Nat /\ n <= Len(prog.functions) /\ Len(prog.functions) \in Nat
      BY ProgramsAssumption DEF TypeOK, ControlOK, WellFormed
    <3> QED BY <3>1, <3>2 DEF Taken, Passed
  <2>2. t.op = "icmp"
    BY DEF Refinable, Compares
  <2> QED BY <2>1, <2>2 DEF PrintedInfeasible, PrintedOK, FollowedPrinted, FollowedOK
<1> QED
  BY <1>1, <1>2, <1>3, RangeAnalysisTypeOK, RangeAnalysisRangesInv, PTL DEF Spec, RangesInv
=============================================================================
