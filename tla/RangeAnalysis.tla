--------------------------- MODULE RangeAnalysis ---------------------------
(***************************************************************************)
(* KintRangeAnalysisPass::run and the handlers it drives (src/kint/        *)
(* range.cpp, range_helper.cpp, init_range.cpp): integer ranges of the     *)
(* globals, of the return values and of the values of each function, by    *)
(* repeated visits of all the code until nothing changes.                  *)
(*                                                                         *)
(* The pass is one thread; a step is one instruction, one edge or one      *)
(* phase.  A module of LLVM IR is a member of Programs.  A function's      *)
(* blocks are 1 .. n in layout order, its code is one sequence.            *)
(***************************************************************************)
EXTENDS KintIR, SequencesExt, CFG

CONSTANT MaxIterations   \* maxIterations

\* It is 10; with 1, run() could not see that nothing changes.
ASSUME BuildAssumption == MaxIterations \in Nat /\ MaxIterations > 1

\* unionWith of the ranges of a sequence, one after the other, from the empty range.
UnionOf(bits, ranges) == FoldLeft(UnionWith, Empty(bits), ranges)

EmptyMap == [k \in {} |-> k]

\* The maps of the pass: m[k] = v; m.emplace(k, v), which keeps an old value.
Put(m, k, v) == [x \in DOMAIN m \cup {k} |-> IF x = k THEN v ELSE m[x]]
Emplace(m, k, v) == IF k \in DOMAIN m THEN m ELSE Put(m, k, v)

VARIABLES
  prog,        \* the module, never modified by this pass after the taint marking
  pc,          \* where run() is
  iteration,   \* its loop counter, from 1
  fi,          \* position in rangeAnalysisFunctions
  bb,          \* BB of rangeAnalysis
  preds,       \* predecessors of bb not taken yet
  ip,          \* position of analyzeFunction in the function's code
  map,         \* the RangeMap analyzeFunction works on
  rangeInfo,   \* functionsToRangeInfo
  gvRange,     \* globalValueRangeMap
  retRange,    \* functionReturnRangeMap
  impossible,  \* impossibleBranches
  saved        \* the three maps at the start of the iteration

results == <<rangeInfo, gvRange, retRange>>
vars == <<prog, pc, iteration, fi, bb, preds, ip, map, rangeInfo, gvRange,
          retRange, impossible, saved>>

-----------------------------------------------------------------------------
F == prog.functions[fi]
Inst == prog.code[F][ip]
Asserts == prog.asserts
Blocks == DOMAIN prog.succ[F]
Predecessors(b) == {p \in Blocks : b \in prog.succ[F][p]}

\* backEdgeAnalysis has run before; BackEdges says what it leaves behind.
BackEdges(b) == CyclePreds(prog.succ[F], b)

(***************************************************************************)
(* getRange.  The test in it is on the member globalRangeMap, which no     *)
(* statement of the pass adds to: the parameter of the same name shadows   *)
(* it in every handler.  A global's own range is out of reach as well: a   *)
(* GlobalVariable is a pointer, and only integers are asked for.           *)
(***************************************************************************)
MemberKeys == {}

GetRange(v, ranges) ==
  IF v \in MemberKeys THEN ranges[v]
  ELSE IF IsConst(v) THEN Single(Width[v], Const[v])
  ELSE Full(Width[v])

GetRangeByBB(v, b) ==
  GetRange(v, IF b \in DOMAIN rangeInfo[F] THEN rangeInfo[F][b] ELSE EmptyMap)

-----------------------------------------------------------------------------
Init ==
  /\ prog \in Programs
  /\ pc = "initGlobals"
  /\ iteration = 0
  /\ fi = 1
  /\ bb = 1
  /\ preds = {}
  /\ ip = 1
  /\ map = EmptyMap
  /\ rangeInfo = [f \in Function |-> EmptyMap]
  /\ gvRange = EmptyMap
  /\ retRange = EmptyMap
  /\ impossible = EmptyMap
  /\ saved = <<>>

(***************************************************************************)
(* Integers and arrays of integers get a range.  values holds a constant   *)
(* initializer's elements in order: each assignment of the loop over them  *)
(* replaces the one before.  (An array of no integers has no range: KintIR *)
(* counts it among the globals of another type.)                           *)
(***************************************************************************)
HasRange(G) == prog.globals[G].type \in {"integer", "array"}

InitialRange(G) ==
  IF prog.globals[G].values = <<>>
  THEN Full(prog.globals[G].bits)
  ELSE Single(prog.globals[G].bits, Last(prog.globals[G].values))

InitGlobalVariables ==
  /\ pc = "initGlobals"
  /\ gvRange' = [G \in {G \in Global : HasRange(G)} |-> InitialRange(G)]
  /\ pc' = "initReturns"
  /\ UNCHANGED <<prog, iteration, fi, bb, preds, ip, map, rangeInfo, retRange,
                 impossible, saved>>

(***************************************************************************)
(* Only the functions with a body get a range (a declaration has no block  *)
(* to look at), and only if they return an integer.  Their parameters'     *)
(* ranges go into EB, a copy of the entry block's map, so all that is left *)
(* of them is the entry block's empty map.                                 *)
(***************************************************************************)
InitFunctionReturn ==
  LET bodies == {f \in ToSet(prog.functions) : ReturnsInteger(prog, f)} IN
  /\ pc = "initReturns"
  /\ retRange' = [f \in bodies |-> Empty(prog.returns[f])]
  /\ rangeInfo' = [f \in Function |->
                     IF f \in bodies THEN Put(EmptyMap, 1, EmptyMap) ELSE EmptyMap]
  /\ pc' = "iterate"
  /\ UNCHANGED <<prog, iteration, fi, bb, preds, ip, map, gvRange, impossible, saved>>

-----------------------------------------------------------------------------
(***************************************************************************)
(* The loop of run().                                                      *)
(***************************************************************************)
BeginIteration ==
  /\ pc = "iterate"
  /\ iteration' = iteration + 1
  /\ saved' = results
  /\ fi' = 1
  /\ bb' = 1
  /\ pc' = "function"
  /\ UNCHANGED <<prog, preds, ip, map, rangeInfo, gvRange, retRange, impossible>>

\* Mutant: the comparison with the saved maps is forgotten.
EndIterationUncompared ==
  /\ pc = "function"
  /\ fi > Len(prog.functions)
  /\ pc' = IF iteration = MaxIterations THEN "done" ELSE "iterate"
  /\ UNCHANGED <<prog, iteration, fi, bb, preds, ip, map, rangeInfo, gvRange,
                 retRange, impossible, saved>>

EndIteration ==
  /\ pc = "function"
  /\ fi > Len(prog.functions)
  /\ pc' = IF results = saved \/ iteration = MaxIterations THEN "done" ELSE "iterate"
  /\ UNCHANGED <<prog, iteration, fi, bb, preds, ip, map, rangeInfo, gvRange,
                 retRange, impossible, saved>>

-----------------------------------------------------------------------------
(***************************************************************************)
(* The loops of rangeAnalysis, over the blocks and over their incoming     *)
(* edges.  The order of predecessors() is that of LLVM's use lists: any.   *)
(***************************************************************************)
EnterBlock ==
  /\ pc = "function"
  /\ fi <= Len(prog.functions)
  /\ bb \in Blocks
  /\ rangeInfo' = [rangeInfo EXCEPT ![F] = Emplace(@, bb, EmptyMap)]
  /\ preds' = Predecessors(bb)
  /\ pc' = "edges"
  /\ UNCHANGED <<prog, iteration, fi, bb, ip, map, gvRange, retRange, impossible, saved>>

EndFunction ==
  /\ pc = "function"
  /\ fi <= Len(prog.functions)
  /\ bb \notin Blocks
  /\ fi' = fi + 1
  /\ bb' = 1
  /\ UNCHANGED <<prog, pc, iteration, preds, ip, map, rangeInfo, gvRange, retRange,
                 impossible, saved>>

\* Mutant: the edge that is skipped is met again.
SkipBackEdgeForever ==
  /\ pc = "edges"
  /\ preds \cap BackEdges(bb) # {}
  /\ UNCHANGED vars

SkipBackEdge ==
  /\ pc = "edges"
  /\ \E p \in preds :
       /\ p \in BackEdges(bb)
       /\ preds' = preds \ {p}
  /\ UNCHANGED <<prog, pc, iteration, fi, bb, ip, map, rangeInfo, gvRange, retRange,
                 impossible, saved>>

(***************************************************************************)
(* What a comparison says about its operands on the edge to bb.  On the    *)
(* false edge both operands get the region of the inverse predicate: the   *)
(* operands are not swapped for the right one (range_helper.cpp:89).       *)
(***************************************************************************)
IsTrueBranch(t) == t.then = bb

RefinedOperand(v, range, pred, other) ==
  IF IsConst(v) THEN range ELSE IntersectWith(range, AllowedICmpRegion(pred, other))

\* Mutant: the left operand is refined by the predicate on both edges.
RefineCompareUninverted(t, lRange, rRange, branchRange) ==
  LET rPred == IF IsTrueBranch(t) THEN SwappedPredicate[t.pred] ELSE InversePredicate[t.pred]
  IN  Put(Put(branchRange, t.lhs, RefinedOperand(t.lhs, lRange, t.pred, rRange)),
          t.rhs, RefinedOperand(t.rhs, rRange, rPred, lRange))

\* Mutant: the right operand is refined by the predicate as it stands, unswapped.
RefineCompareUnswapped(t, lRange, rRange, branchRange) ==
  LET pred == IF IsTrueBranch(t) THEN t.pred ELSE InversePredicate[t.pred]
  IN  Put(Put(branchRange, t.lhs, RefinedOperand(t.lhs, lRange, pred, rRange)),
          t.rhs, RefinedOperand(t.rhs, rRange, pred, lRange))

RefineCompare(t, lRange, rRange, branchRange) ==
  LET lPred == IF IsTrueBranch(t) THEN t.pred ELSE InversePredicate[t.pred]
      rPred == IF IsTrueBranch(t) THEN SwappedPredicate[t.pred] ELSE InversePredicate[t.pred]
  IN  Put(Put(branchRange, t.lhs, RefinedOperand(t.lhs, lRange, lPred, rRange)),
          t.rhs, RefinedOperand(t.rhs, rRange, rPred, lRange))

(***************************************************************************)
(* What a switch says about its condition: the union of the case values    *)
(* that lead to bb; on the default edge, the union of all of them.         *)
(***************************************************************************)
RefineSwitch(t, condRange, branchRange) ==
  LET taken == SelectSeq(t.cases, LAMBDA c : t.default = bb \/ c.dest = bb)
      values == UnionOf(condRange.bits,
                        [k \in DOMAIN taken |-> Single(condRange.bits, taken[k].value)])
  IN  Put(branchRange, t.cond, IntersectWith(condRange, values))

Compares(t) == t.op = "icmp" /\ Width[t.lhs] # 0 /\ Width[t.rhs] # 0

(***************************************************************************)
(* One incoming edge: analyzeFunction is to run over the whole function on *)
(* a refined copy of the predecessor's map.  Nothing is merged into bb's.  *)
(***************************************************************************)
BranchRange(p) ==
  LET t == prog.term[F][p]
      branchRange == Emplace(rangeInfo[F], p, EmptyMap)[p]
  IN  IF Compares(t)
      THEN RefineCompare(t, GetRangeByBB(t.lhs, p), GetRangeByBB(t.rhs, p), branchRange)
      ELSE IF t.op = "switch"
      THEN RefineSwitch(t, GetRangeByBB(t.cond, p), branchRange)
      ELSE branchRange

ContradictsCompare(t, branchRange) ==
  branchRange[t.lhs].set = {} \/ branchRange[t.rhs].set = {}

Follow(p, t, branchRange) ==
  /\ preds' = preds \ {p}
  /\ rangeInfo' = [rangeInfo EXCEPT ![F] = Emplace(@, p, EmptyMap)]
  /\ IF Compares(t)
     THEN IF ContradictsCompare(t, branchRange)
          THEN /\ impossible' = Put(impossible, t.id, IsTrueBranch(t))
               /\ map' = branchRange
          ELSE /\ map' = Put(branchRange, t.id, Single(1, IF IsTrueBranch(t) THEN 1 ELSE 0))
               /\ UNCHANGED impossible
     ELSE /\ map' = branchRange
          /\ UNCHANGED impossible

FollowEdge ==
  /\ pc = "edges"
  /\ \E p \in preds \ BackEdges(bb) : Follow(p, prog.term[F][p], BranchRange(p))
  /\ ip' = 1
  /\ pc' = "visit"
  /\ UNCHANGED <<prog, iteration, fi, bb, gvRange, retRange, saved>>

\* The entry block has no predecessor and is analysed on its own map, in place.
VisitEntry ==
  /\ pc = "edges"
  /\ preds = {}
  /\ bb = 1
  /\ map' = rangeInfo[F][bb]
  /\ ip' = 1
  /\ pc' = "visit"
  /\ UNCHANGED <<prog, iteration, fi, bb, preds, rangeInfo, gvRange, retRange,
                 impossible, saved>>

LeaveBlock ==
  /\ pc = "edges"
  /\ preds = {}
  /\ bb # 1
  /\ bb' = bb + 1
  /\ pc' = "function"
  /\ UNCHANGED <<prog, iteration, fi, preds, ip, map, rangeInfo, gvRange, retRange,
                 impossible, saved>>

\* Mutant: the map of every visit is kept for the block.
EndVisitKeeping ==
  /\ pc = "visit"
  /\ ip > Len(prog.code[F])
  /\ rangeInfo' = [rangeInfo EXCEPT ![F][bb] = map]
  /\ bb' = IF bb = 1 THEN 2 ELSE bb
  /\ pc' = IF bb = 1 THEN "function" ELSE "edges"
  /\ map' = EmptyMap
  /\ UNCHANGED <<prog, iteration, fi, preds, ip, gvRange, retRange, impossible, saved>>

(***************************************************************************)
(* analyzeFunction returns.  Writing the entry block's map back here is    *)
(* the same as in place, since getRange never looks into it.               *)
(***************************************************************************)
EndVisit ==
  /\ pc = "visit"
  /\ ip > Len(prog.code[F])
  /\ IF bb = 1
     THEN /\ rangeInfo' = [rangeInfo EXCEPT ![F][1] = map]
          /\ bb' = 2
          /\ pc' = "function"
     ELSE /\ pc' = "edges"
          /\ UNCHANGED <<rangeInfo, bb>>
  /\ map' = EmptyMap
  /\ UNCHANGED <<prog, iteration, fi, preds, ip, gvRange, retRange, impossible, saved>>

-----------------------------------------------------------------------------
(***************************************************************************)
(* analyzeFunction: one step per instruction, by its kind.                 *)
(***************************************************************************)
At(op) == pc = "visit" /\ ip <= Len(prog.code[F]) /\ Inst.op = op

Proceed(ranges) ==
  /\ map' = ranges
  /\ ip' = ip + 1
  /\ UNCHANGED <<prog, pc, iteration, fi, bb, preds, impossible, saved>>

(***************************************************************************)
(* A call is looked at only if the map has an entry for it, which only a   *)
(* comparison of its result can have made.  The callee's parameters are    *)
(* entered in the caller's map.  (sinkedFunctions is always empty, so its  *)
(* branch is never taken.)  Reading functionReturnRangeMap for a function  *)
(* it does not have adds a DefaultRange.                                   *)
(***************************************************************************)
WithArguments ==
  LET params == prog.params[Inst.callee]
      passed == {i \in DOMAIN params : Width[params[i]] # 0}
  IN  [v \in DOMAIN map \cup {params[i] : i \in passed} |->
         IF \E i \in passed : params[i] = v
         THEN UnionWith(GetRange(Inst.args[CHOOSE i \in passed : params[i] = v], map),
                        GetRange(v, map))
         ELSE map[v]]

HandleCall ==
  LET direct == Inst.callee \in Function
      known == direct /\ ReturnsInteger(prog, Inst.callee)
  IN
  /\ At("call")
  /\ Inst.id \in DOMAIN map
  /\ retRange' = IF known THEN Emplace(retRange, Inst.callee, DefaultRange) ELSE retRange
  /\ Proceed(Put(IF direct THEN WithArguments ELSE map, Inst.id,
                 IF known THEN retRange'[Inst.callee] ELSE Full(Width[Inst.id])))
  /\ UNCHANGED <<rangeInfo, gvRange>>

SkipCall ==
  /\ At("call")
  /\ Inst.id \notin DOMAIN map
  /\ Proceed(map)
  /\ UNCHANGED results

(***************************************************************************)
(* Only a store of an integer straight to a global changes anything: the   *)
(* GEP branch looks the array up in a map that never has globals.          *)
(***************************************************************************)
StoresToGlobal == Inst.ptr \in Global /\ Width[Inst.val] # 0

RangeOfGlobal(G) == IF G \in DOMAIN gvRange THEN gvRange[G] ELSE DefaultRange

\* Mutant: the stored range replaces the global's.
HandleStoreAssigning ==
  /\ At("store")
  /\ StoresToGlobal /\ Asserts => RangeOfGlobal(Inst.ptr).bits = Width[Inst.val]
  /\ gvRange' = IF StoresToGlobal THEN Put(gvRange, Inst.ptr, GetRange(Inst.val, map))
                                  ELSE gvRange
  /\ Proceed(map)
  /\ UNCHANGED <<rangeInfo, retRange>>

\* Mutant: the global keeps the range it has.
HandleStoreEmplacing ==
  /\ At("store")
  /\ StoresToGlobal /\ Asserts => RangeOfGlobal(Inst.ptr).bits = Width[Inst.val]
  /\ gvRange' = IF StoresToGlobal THEN Emplace(gvRange, Inst.ptr, GetRange(Inst.val, map))
                                  ELSE gvRange
  /\ Proceed(map)
  /\ UNCHANGED <<rangeInfo, retRange>>

HandleStore ==
  /\ At("store")
  /\ IF StoresToGlobal
     THEN /\ Asserts => RangeOfGlobal(Inst.ptr).bits = Width[Inst.val]
          /\ gvRange' = Put(gvRange, Inst.ptr,
                            UnionWith(RangeOfGlobal(Inst.ptr), GetRange(Inst.val, map)))
     ELSE UNCHANGED gvRange
  /\ Proceed(map)
  /\ UNCHANGED <<rangeInfo, retRange>>

\* Mutant: the range of the last return instruction is all that is kept.
HandleReturnAssigning ==
  /\ At("ret")
  /\ retRange' = IF ReturnsInteger(prog, F) THEN Put(retRange, F, GetRange(Inst.val, map))
                                            ELSE retRange
  /\ Proceed(map)
  /\ UNCHANGED <<rangeInfo, gvRange>>

\* Mutant: the function keeps the range it has.
HandleReturnEmplacing ==
  /\ At("ret")
  /\ retRange' = IF ReturnsInteger(prog, F) THEN Emplace(retRange, F, GetRange(Inst.val, map))
                                            ELSE retRange
  /\ Proceed(map)
  /\ UNCHANGED <<rangeInfo, gvRange>>

\* Mutant: the range is entered under the value, not under the function.
HandleReturnMiskeyed ==
  /\ At("ret")
  /\ retRange' = IF ReturnsInteger(prog, F)
                 THEN Put(retRange, Inst.val, UnionWith(GetRange(Inst.val, map), retRange[F]))
                 ELSE retRange
  /\ Proceed(map)
  /\ UNCHANGED <<rangeInfo, gvRange>>

HandleReturn ==
  /\ At("ret")
  /\ retRange' = IF ReturnsInteger(prog, F)
                 THEN Put(retRange, F, UnionWith(GetRange(Inst.val, map), retRange[F]))
                 ELSE retRange
  /\ Proceed(map)
  /\ UNCHANGED <<rangeInfo, gvRange>>

(***************************************************************************)
(* A select takes its operands from the map itself, with at(): a constant  *)
(* or an argument is not there.                                            *)
(***************************************************************************)
SelectKnown ==
  {Inst.true, Inst.false} \subseteq DOMAIN Emplace(map, Inst.id, Full(Width[Inst.id]))

HandleSelect ==
  /\ At("select")
  /\ SelectKnown
  /\ LET ranges == Emplace(map, Inst.id, Full(Width[Inst.id])) IN
       /\ Asserts => ranges[Inst.true].bits = ranges[Inst.false].bits
       /\ Proceed(Put(ranges, Inst.id, UnionWith(ranges[Inst.true], ranges[Inst.false])))
  /\ UNCHANGED results

(***************************************************************************)
(* A cast between integers also takes its operand from the map; when it is *)
(* not there the result is the DefaultRange, whatever the type.  converts  *)
(* is the function of trunc, zext or sext from the operand's values to the *)
(* result's.                                                               *)
(***************************************************************************)
CastRange ==
  IF Width[Inst.id] = 0 THEN DefaultRange
  ELSE IF Width[Inst.inp] = 0 THEN Full(Width[Inst.id])
  ELSE IF Inst.inp \notin DOMAIN map THEN DefaultRange
  ELSE IF Inst.kind = "other" THEN map[Inst.inp]
  ELSE Cover(Width[Inst.id], {Inst.converts[x] : x \in map[Inst.inp].set})

TruncatesTooLittle ==
  /\ Inst.kind = "trunc"
  /\ Inst.inp \in DOMAIN map
  /\ map[Inst.inp].bits <= Width[Inst.id]

HandleCast ==
  /\ At("cast")
  /\ ~(Asserts /\ TruncatesTooLittle)
  /\ Proceed(Emplace(map, Inst.id, CastRange))
  /\ UNCHANGED results

(***************************************************************************)
(* computes maps two operand values to the results of the operation: none  *)
(* where it is undefined (division by zero).  It stands for all thirteen   *)
(* operations ConstantRange has, each of which returns a range that holds  *)
(* all results, here the smallest such.                                    *)
(***************************************************************************)
ComputeBinaryOperatorRange ==
  Cover(Width[Inst.id],
        UNION {Inst.computes[<<x, y>>] : x \in GetRange(Inst.lhs, map).set,
                                         y \in GetRange(Inst.rhs, map).set})

HandleBinaryOperator ==
  /\ At("binop")
  /\ Proceed(Emplace(map, Inst.id, ComputeBinaryOperatorRange))
  /\ UNCHANGED results

(***************************************************************************)
(* The incoming values whose edge is not a back edge; asking for the range *)
(* at the incoming block gives that block a map, if it had none.           *)
(***************************************************************************)
MergedIncoming(incoming, back) == SelectSeq(incoming, LAMBDA inc : inc.from \notin back)

HandlePHI ==
  LET back == BackEdges(Inst.parent)
      merged == MergedIncoming(Inst.incoming, back)
  IN
  /\ At("phi")
  /\ Proceed(Put(map, Inst.id,
                 UnionOf(Width[Inst.id],
                         [k \in DOMAIN merged |-> GetRangeByBB(merged[k].val, merged[k].from)])))
  /\ rangeInfo' = [rangeInfo EXCEPT ![F] =
       [b \in DOMAIN @ \cup ({inc.from : inc \in ToSet(Inst.incoming)} \ back) |->
          IF b \in DOMAIN rangeInfo[F] THEN rangeInfo[F][b] ELSE EmptyMap]]
  /\ UNCHANGED <<gvRange, retRange>>

(***************************************************************************)
(* A load from a global integer with a constant initializer gets the       *)
(* initializer; any other load gets no entry.                              *)
(***************************************************************************)
LoadsInitializer ==
  /\ Inst.ptr \in Global
  /\ prog.globals[Inst.ptr].type = "integer"
  /\ prog.globals[Inst.ptr].values # <<>>

\* Mutant: a load gets the global's current range.
HandleLoadCurrent ==
  /\ At("load")
  /\ Proceed(IF Inst.ptr \in DOMAIN gvRange THEN Put(map, Inst.id, gvRange[Inst.ptr]) ELSE map)
  /\ UNCHANGED results

HandleLoad ==
  /\ At("load")
  /\ Proceed(IF LoadsInitializer
             THEN Emplace(map, Inst.id, Single(prog.globals[Inst.ptr].bits,
                                               Last(prog.globals[Inst.ptr].values)))
             ELSE map)
  /\ UNCHANGED results

(***************************************************************************)
(* at() finds no entry (std::out_of_range, caught nowhere), or LLVM's      *)
(* assertion on the widths fails: the process ends.                        *)
(***************************************************************************)
Fails ==
  \/ At("select") /\ ~SelectKnown
  \/ /\ Asserts
     /\ \/ At("store") /\ StoresToGlobal
           /\ RangeOfGlobal(Inst.ptr).bits # Width[Inst.val]
        \/ At("select") /\ SelectKnown
           /\ LET ranges == Emplace(map, Inst.id, Full(Width[Inst.id])) IN
                ranges[Inst.true].bits # ranges[Inst.false].bits
        \/ At("cast") /\ TruncatesTooLittle

Abort ==
  /\ Fails
  /\ pc' = "aborted"
  /\ UNCHANGED <<prog, iteration, fi, bb, preds, ip, map, rangeInfo, gvRange, retRange,
                 impossible, saved>>

-----------------------------------------------------------------------------
HandleInstruction ==
  \/ HandleCall \/ SkipCall \/ HandleStore \/ HandleReturn \/ HandleSelect
  \/ HandleCast \/ HandleBinaryOperator \/ HandlePHI \/ HandleLoad

Step ==
  \/ InitGlobalVariables \/ InitFunctionReturn
  \/ BeginIteration \/ EndIteration
  \/ EnterBlock \/ SkipBackEdge \/ FollowEdge \/ VisitEntry \/ LeaveBlock
  \/ EndVisit \/ EndFunction
  \/ HandleInstruction
  \/ Abort

Terminated == pc \in {"done", "aborted"} /\ UNCHANGED vars

Next == Step \/ Terminated

\* One thread that is never suspended for good.
Spec == Init /\ [][Next]_vars /\ WF_vars(Step)

-----------------------------------------------------------------------------
(***************************************************************************)
(* Type invariant: the position in the code is a position, the maps have   *)
(* the keys and the values their C++ types promise.                        *)
(***************************************************************************)
ControlOK ==
  /\ prog \in Programs
  /\ pc \in {"initGlobals", "initReturns", "iterate", "function", "edges", "visit",
             "done", "aborted"}
  /\ iteration \in 0 .. MaxIterations
  /\ pc \in {"function", "edges", "visit", "done", "aborted"} => iteration # 0
  /\ pc \in {"initGlobals", "initReturns"} => iteration = 0
  /\ pc = "iterate" => iteration < MaxIterations
  /\ fi \in 1 .. Len(prog.functions) + 1
  /\ bb \in Nat \ {0}
  /\ ip \in Nat \ {0}
  /\ pc \in {"edges", "visit"} =>
       fi \in DOMAIN prog.functions /\ bb \in Blocks /\ preds \subseteq Predecessors(bb)

MapsOK ==
  /\ DOMAIN gvRange \subseteq Global
  /\ \A G \in DOMAIN gvRange : IsRange(gvRange[G])
  /\ DOMAIN retRange \subseteq Function
  /\ \A f \in DOMAIN retRange : IsRange(retRange[f])
  /\ \A c \in DOMAIN impossible : impossible[c] \in BOOLEAN

TypeOK == ControlOK /\ MapsOK

\* What a value can be when the program runs, as far as one instruction tells.
Possible(v) == IF IsConst(v) THEN {Const[v]} ELSE Domain(Width[v])

(***************************************************************************)
(* What has to be in the ranges of a global, and of a function, once a     *)
(* visit has come past an instruction i of f.                              *)
(***************************************************************************)
StoreCovered(i) ==
  i.op = "store" /\ i.ptr \in Global /\ Width[i.val] # 0 /\ HasRange(i.ptr)
  => Possible(i.val) \subseteq gvRange[i.ptr].set

ReturnCovered(f, i) ==
  i.op = "ret" /\ ReturnsInteger(prog, f) => Possible(i.val) \subseteq retRange[f].set

(***************************************************************************)
(* When the analysis is over, the range of a global integer or array holds *)
(* every value that a store straight to it, in any function, in any block, *)
(* reachable or not, can write.                                            *)
(***************************************************************************)
Done == pc = "done"

GlobalsCovered ==
  Done => \A n \in DOMAIN prog.functions : LET f == prog.functions[n] IN
    \A k \in DOMAIN prog.code[f] : StoreCovered(prog.code[f][k])

(***************************************************************************)
(* Likewise the return range of a function with a body holds all that any  *)
(* of its return instructions can return, across all visits.               *)
(***************************************************************************)
ReturnsCovered ==
  Done => \A n \in DOMAIN prog.functions : LET f == prog.functions[n] IN
    \A k \in DOMAIN prog.code[f] : ReturnCovered(f, prog.code[f][k])

(***************************************************************************)
(* Why it is so.  The entry block comes first and its visit takes all the  *)
(* code of the function, so what the first iteration has passed is an      *)
(* initial part of the module's code, and all of it by its end.  No range  *)
(* changes its width, without which a union could lose an operand.         *)
(***************************************************************************)
Visited(n, k) ==
  \/ iteration > 1
  \/ /\ iteration = 1
     /\ n < fi \/ (n = fi /\ (bb > 1 \/ (pc = "visit" /\ k < ip)))

WidthsKept ==
  /\ pc # "initGlobals" =>
       \A G \in Global : HasRange(G) =>
         G \in DOMAIN gvRange /\ gvRange[G].bits = prog.globals[G].bits
  /\ pc \notin {"initGlobals", "initReturns"} =>
       \A n \in DOMAIN prog.functions : LET f == prog.functions[n] IN
         ReturnsInteger(prog, f) =>
           f \in DOMAIN retRange /\ retRange[f].bits = prog.returns[f]

VisitedCovered ==
  /\ pc \in {"iterate", "done"} /\ iteration # 0 => fi > Len(prog.functions)
  /\ \A n \in DOMAIN prog.functions : LET f == prog.functions[n] IN
       \A k \in DOMAIN prog.code[f] : Visited(n, k) =>
         StoreCovered(prog.code[f][k]) /\ ReturnCovered(f, prog.code[f][k])

RangesInv == WidthsKept /\ VisitedCovered

(***************************************************************************)
(* No later visit, refined or not, takes a value away from a global's or   *)
(* a function's range, or removes the range: run() climbs.                 *)
(***************************************************************************)
Grows(ranges, next) ==
  \A k \in DOMAIN ranges : k \in DOMAIN next /\ ranges[k].set \subseteq next[k].set

RangesGrow ==
  [][pc \notin {"initGlobals", "initReturns"}
     => Grows(gvRange, gvRange') /\ Grows(retRange, retRange')]_vars

(***************************************************************************)
(* What is recorded for a value of a block stays as it was first recorded, *)
(* through all further visits and iterations, although some handlers       *)
(* assign and others only emplace.                                         *)
(***************************************************************************)
RecordedStays ==
  [][pc \notin {"initGlobals", "initReturns"}
     => \A f \in Function : \A b \in DOMAIN rangeInfo[f] :
          /\ b \in DOMAIN rangeInfo'[f]
          /\ \A v \in DOMAIN rangeInfo[f][b] :
               v \in DOMAIN rangeInfo'[f][b] /\ rangeInfo'[f][b][v] = rangeInfo[f][b][v]]_vars

(***************************************************************************)
(* The refined ranges of an edge die with the copy they were made on: only *)
(* an entry block ever has a range recorded, whatever the branches say.    *)
(* (What pathSolver reads of any other block is therefore empty.)          *)
(***************************************************************************)
OnlyEntryRecorded ==
  \A f \in Function : \A b \in DOMAIN rangeInfo[f] \ {1} : rangeInfo[f][b] = EmptyMap

(***************************************************************************)
(* The loop of run() reaches its fixed point: the second iteration changes *)
(* nothing, and the bound on iterations never decides when to stop.        *)
(***************************************************************************)
ConvergesInTwo == iteration <= 2 /\ (Done => results = saved)

(***************************************************************************)
(* A branch in impossibleBranches cannot be taken: no values of the two    *)
(* operands make the comparison come out as recorded.  Here, comparisons   *)
(* whose left operand is not a constant.  With one that is, a false edge   *)
(* may be recorded wrongly; of the records only the true edges have a      *)
(* reader (printRanges, below), since pathSolver is never reached.         *)
(***************************************************************************)
Infeasible(t, outcome) ==
  \A x \in Possible(t.lhs), y \in Possible(t.rhs) :
    ICmp(t.pred, Width[t.lhs], x, y) # outcome

ImpossibleAreInfeasible ==
  \A n \in DOMAIN prog.functions : LET f == prog.functions[n] IN
    \A b \in DOMAIN prog.succ[f] : LET t == prog.term[f][b] IN
      t.op = "icmp" /\ t.id \in DOMAIN impossible /\ ~IsConst(t.lhs)
      => Infeasible(t, impossible[t.id])

\* What printRanges shows of impossibleBranches: the comparisons with TRUE.
Printed == {c \in DOMAIN impossible : impossible[c]}

(***************************************************************************)
(* "Printing impossible branches" shows a comparison exactly if no values  *)
(* of the two operands make it true, whichever of the two is a constant,   *)
(* and though the false edge may write to the same record.  The comparison *)
(* is of integers that are not both constants (those are never refined),   *)
(* and it decides a branch whose true edge is not skipped as a back edge.  *)
(***************************************************************************)
TrueEdgeFollowed(f, b) ==
  LET t == prog.term[f][b] IN
  t.then \in prog.succ[f][b] /\ b \notin CyclePreds(prog.succ[f], t.then)

Refinable(t) == Compares(t) /\ ~(IsConst(t.lhs) /\ IsConst(t.rhs))

PrintedExact ==
  Done => \A n \in DOMAIN prog.functions : LET f == prog.functions[n] IN
    \A b \in DOMAIN prog.succ[f] : LET t == prog.term[f][b] IN
      Refinable(t) /\ TrueEdgeFollowed(f, b) => (t.id \in Printed <=> Infeasible(t, TRUE))

(***************************************************************************)
(* The pass comes to an end, whatever loops the code it reads has.         *)
(***************************************************************************)
Terminates == <>(pc \in {"done", "aborted"})

-----------------------------------------------------------------------------
(***************************************************************************)
(* What comments of the source say and the code does not do.  Each of the  *)
(* properties below is refuted by a run.                                   *)
(***************************************************************************)
\* The map an iteration leaves for the entry block of a function.
Recorded(f) == rangeInfo[f][1]

Instructions(f) == ToSet(prog.code[f])

DefinedFunctions == ToSet(prog.functions)

(***************************************************************************)
(* "get const range from initializer" (init_range.cpp:91), in a loop over  *)
(* an array's elements: the array's range holds each of them.              *)
(***************************************************************************)
InitializersCovered ==
  pc # "initGlobals" =>
    \A G \in Global : HasRange(G) => ToSet(prog.globals[G].values) \subseteq gvRange[G].set

(***************************************************************************)
(* "init the range of function parameters" (init_range.cpp:45): once that  *)
(* is done, the entry block's map has the parameters.                      *)
(***************************************************************************)
ParametersInitialized ==
  pc = "iterate" =>
    \A f \in DefinedFunctions : ReturnsInteger(prog, f) =>
      \A v \in ToSet(prog.params[f]) : Width[v] # 0 => v \in DOMAIN Recorded(f)

(***************************************************************************)
(* "If the address is a GlobalVariable, it retrieves the range associated  *)
(* with the global variable" (range_helper.cpp:354): what is recorded for  *)
(* a load holds at the end what the global can hold.                       *)
(***************************************************************************)
LoadsSeeGlobals ==
  Done => \A f \in DefinedFunctions : \A i \in Instructions(f) :
    i.op = "load" /\ i.ptr \in DOMAIN gvRange /\ i.id \in DOMAIN Recorded(f)
    => gvRange[i.ptr].set \subseteq Recorded(f)[i.id].set

(***************************************************************************)
(* "Union the incoming range with the PHI node range"                      *)
(* (range_helper.cpp:341), for the incoming values of the PHI node: the    *)
(* recorded range holds what comes in, at least along the edges that go    *)
(* forward in the code.                                                    *)
(***************************************************************************)
PHIsCoverIncoming ==
  Done => \A f \in DefinedFunctions : \A i \in Instructions(f) :
    i.op = "phi" => \A inc \in ToSet(i.incoming) :
                     inc.from < i.parent => Possible(inc.val) \subseteq Recorded(f)[i.id].set

(***************************************************************************)
(* "Compute the new range by taking the union of the true and false value  *)
(* ranges" (range_helper.cpp:278): there is such a range for every select. *)
(***************************************************************************)
SelectsComputed == pc # "aborted"
=============================================================================
