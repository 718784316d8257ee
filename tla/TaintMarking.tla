---------------------------- MODULE TaintMarking ----------------------------
(***************************************************************************)
(* The marking of taint sources before the range analysis: run's loop over *)
(* the module (src/kint/range.cpp) and initRange's (src/kint/init_range.cpp)*)
(* both call getTaintSource (src/kint/tainted.cpp) for every function,     *)
(* which puts a call into it for each argument, has the argument's users   *)
(* read the call, and declares what is called in the list both walk.       *)
(*                                                                         *)
(* markSinkedFuncs, which both loops call next, changes nothing: line 69   *)
(* compares the address of a name with that of its demangled copy.         *)
(***************************************************************************)
EXTENDS Naturals, SequencesExt

CONSTANTS
  Modules,      \* modules of LLVM IR: sequences of functions, see WellFormed
  TaintNames    \* the names isTaintSource knows, or that start with sys_

VARIABLES
  initial,        \* the module before the pass
  functions,      \* the module as it is
  round,          \* 1: in run's loop, 2: in initRange's
  at,             \* F of the loop
  pc,             \* "loop", or where getTaintSource is: "args", "return"; "done"
  arg,            \* the argument its loop is at
  taintSources,   \* its result
  functionsToTaintSources

vars == <<initial, functions, round, at, pc, arg, taintSources, functionsToTaintSources>>

-----------------------------------------------------------------------------
(***************************************************************************)
(* A value is an argument (round 0) or the call put in for it in a round.  *)
(* A function has a name, a number of args, the instructions of its entry  *)
(* block with what each defines and uses, the terminator last, and what    *)
(* later blocks use.  A declaration has no instructions.  A name consists  *)
(* of the name of a function of the program (base) and what is added to it *)
(* for the callees of its arguments (path).                                *)
(***************************************************************************)
Values == [arg : Nat, round : {0, 1, 2}]

Value(n, r) == [arg |-> n, round |-> r]

Nothing == Value(0, 0)

Names == [base : STRING, path : Seq(Nat)]

Instructions == [def : Values, uses : SUBSET Values]

Function == [name : Names, args : Nat, entry : Seq(Instructions), later : SUBSET Values]

Declaration(name) == [name |-> name, args |-> 0, entry |-> <<>>, later |-> {}]

ArgName(name, n) == [base |-> name.base, path |-> Append(name.path, n)]

IsTaintSource(name) == name.base \in TaintNames

Empty(f) == f.entry = <<>>

UsedValues(f) == f.later \cup UNION {f.entry[i].uses : i \in DOMAIN f.entry}

WellFormedFunction(f) ==
  /\ Empty(f) => f.later = {}
  /\ \A i \in DOMAIN f.entry : f.entry[i].def = Nothing
  /\ UsedValues(f) \subseteq {Value(n, 0) : n \in 1 .. f.args}

\* The verifier's rules.  A callee may be there already, from another module the
\* pass has been over and this one was linked with.
WellFormed(m) ==
  /\ m \in Seq(Function)
  /\ \A i \in DOMAIN m : WellFormedFunction(m[i]) /\ (m[i].name.path # <<>> => m[i] = Declaration(m[i].name))
  /\ \A i, j \in DOMAIN m : m[i].name = m[j].name => i = j

ASSUME ModulesAssumption == \A m \in Modules : WellFormed(m)

-----------------------------------------------------------------------------
F == functions[at]

NamesOf(m) == {m[i].name : i \in DOMAIN m}

Init ==
  /\ initial \in Modules
  /\ functions = initial
  /\ round = 1
  /\ at = 1
  /\ pc = "loop"
  /\ arg = 0
  /\ taintSources = <<>>
  /\ functionsToTaintSources = <<>>

\* Mutant: run keeps what getTaintSource returns for every function.
VisitOtherRecorded ==
  /\ pc = "loop" /\ at \in DOMAIN functions
  /\ ~IsTaintSource(F.name)
  /\ functionsToTaintSources' =
       [i \in DOMAIN functionsToTaintSources \cup {at} |->
          IF i = at THEN <<>> ELSE functionsToTaintSources[i]]
  /\ at' = at + 1
  /\ UNCHANGED <<initial, functions, round, pc, arg, taintSources>>

VisitOther ==
  /\ pc = "loop" /\ at \in DOMAIN functions
  /\ ~IsTaintSource(F.name)
  /\ at' = at + 1
  /\ UNCHANGED <<initial, functions, round, pc, arg, taintSources, functionsToTaintSources>>

VisitTaintSource ==
  /\ pc = "loop" /\ at \in DOMAIN functions
  /\ IsTaintSource(F.name)
  /\ pc' = "args"
  /\ arg' = 1
  /\ taintSources' = <<>>
  /\ UNCHANGED <<initial, functions, round, at, functionsToTaintSources>>

-----------------------------------------------------------------------------
\* Mutant: a function of that name is not looked for.
GetOrInsertFunctionAlways(m, name) == Append(m, Declaration(name))

\* A new function comes last in the list.
GetOrInsertFunction(m, name) ==
  IF name \in NamesOf(m) THEN m ELSE Append(m, Declaration(name))

\* Mutant: an earlier call that stands for the argument is replaced as well.
ReplaceUsesForArgument(uses, n, call) ==
  {IF v.arg = n THEN call ELSE v : v \in uses}

ReplaceUses(uses, n, call) ==
  {IF v = Value(n, 0) THEN call ELSE v : v \in uses}

\* Mutant: the call comes first in the entry block, as the lines that are commented out have it.
InsertCallFirst(entry, call) == InsertAt(entry, 1, [def |-> call, uses |-> {}])

\* The call comes before the terminator of the entry block.
InsertCall(entry, call) == InsertAt(entry, Len(entry), [def |-> call, uses |-> {}])

WithCall(f, n, call) ==
  LET entry == InsertCall(f.entry, call) IN
  [f EXCEPT !.entry = [i \in DOMAIN entry |->
                         [entry[i] EXCEPT !.uses = ReplaceUses(entry[i].uses, n, call)]],
            !.later = ReplaceUses(f.later, n, call)]

TaintArgument ==
  LET call == Value(arg, round) IN
  /\ pc = "args"
  /\ arg <= F.args /\ ~Empty(F)
  /\ functions' = [GetOrInsertFunction(functions, ArgName(F.name, arg))
                     EXCEPT ![at] = WithCall(@, arg, call)]
  /\ taintSources' = Append(taintSources, call)
  /\ arg' = arg + 1
  /\ UNCHANGED <<initial, round, at, pc, functionsToTaintSources>>

\* A function without a body: the declaration for its first argument has been made.
LeaveEmpty ==
  /\ pc = "args"
  /\ arg <= F.args /\ Empty(F)
  /\ functions' = GetOrInsertFunction(functions, ArgName(F.name, arg))
  /\ pc' = "return"
  /\ UNCHANGED <<initial, round, at, arg, taintSources, functionsToTaintSources>>

\* Mutant: the walk begins anew when the module may have changed.
ReturnRestarting ==
  /\ pc = "return" \/ (pc = "args" /\ arg > F.args)
  /\ functionsToTaintSources' = functionsToTaintSources
  /\ at' = 1
  /\ pc' = "loop"
  /\ UNCHANGED <<initial, functions, round, arg, taintSources>>

\* Mutant: initRange keeps what it is given, as run does.
ReturnRecordingAlways ==
  /\ pc = "return" \/ (pc = "args" /\ arg > F.args)
  /\ functionsToTaintSources' =
       [i \in DOMAIN functionsToTaintSources \cup {at} |->
          IF i = at THEN taintSources ELSE functionsToTaintSources[i]]
  /\ at' = at + 1
  /\ pc' = "loop"
  /\ UNCHANGED <<initial, functions, round, arg, taintSources>>

\* Only run keeps the result.
Return ==
  /\ pc = "return" \/ (pc = "args" /\ arg > F.args)
  /\ functionsToTaintSources' =
       IF round = 1
       THEN [i \in DOMAIN functionsToTaintSources \cup {at} |->
               IF i = at THEN taintSources ELSE functionsToTaintSources[i]]
       ELSE functionsToTaintSources
  /\ at' = at + 1
  /\ pc' = "loop"
  /\ UNCHANGED <<initial, functions, round, arg, taintSources>>

EndRound ==
  /\ pc = "loop" /\ at \notin DOMAIN functions
  /\ IF round = 1
     THEN round' = 2 /\ at' = 1 /\ pc' = pc
     ELSE pc' = "done" /\ UNCHANGED <<round, at>>
  /\ UNCHANGED <<initial, functions, arg, taintSources, functionsToTaintSources>>

Step == VisitOther \/ VisitTaintSource \/ TaintArgument \/ LeaveEmpty \/ Return \/ EndRound

Terminated == pc = "done" /\ UNCHANGED vars

Next == Step \/ Terminated

Spec == Init /\ [][Next]_vars /\ WF_vars(Step)

-----------------------------------------------------------------------------
Originals == DOMAIN initial

Recorded == DOMAIN functionsToTaintSources

(***************************************************************************)
(* Type invariant: control stays in the list, of which the initial module  *)
(* remains the first part, and the record is of taint sources in the list. *)
(***************************************************************************)
TypeOK ==
  /\ initial \in Modules
  /\ functions \in Seq(Function)
  /\ Originals \subseteq DOMAIN functions
  /\ round \in {1, 2}
  /\ at \in 1 .. Len(functions) + 1
  /\ pc \in {"loop", "args", "return", "done"}
  /\ pc \in {"args", "return"} => at \in DOMAIN functions /\ arg \in 1 .. F.args + 1
  /\ taintSources \in Seq(Values)
  /\ Recorded \subseteq {i \in DOMAIN functions : IsTaintSource(functions[i].name)}
  /\ \A i \in DOMAIN functions :
       /\ i \in Originals => /\ functions[i].name = initial[i].name
                             /\ functions[i].args = initial[i].args
                             /\ Empty(functions[i]) <=> Empty(initial[i])
       /\ i \notin Originals => functions[i] = Declaration(functions[i].name)

(***************************************************************************)
(* The list grows while it is walked, and twice: still there is one        *)
(* function of each name, and all that is new is a callee for an argument  *)
(* of a function of the initial module, never one for an argument of such  *)
(* a callee.  A taint source without a body gets one for its first         *)
(* argument alone.                                                         *)
(***************************************************************************)
Callees(f) ==
  IF IsTaintSource(f.name)
  THEN {ArgName(f.name, n) : n \in {n \in 1 .. f.args : Empty(f) => n = 1}}
  ELSE {}

AllCallees == UNION {Callees(initial[i]) : i \in Originals}

DeclarationsExact ==
  /\ \A i, j \in DOMAIN functions : functions[i].name = functions[j].name => i = j
  /\ NamesOf(functions) \subseteq NamesOf(initial) \cup AllCallees
  /\ round = 2 => AllCallees \subseteq NamesOf(functions)

(***************************************************************************)
(* From the end of run's loop on, the record of a taint source with a body *)
(* has one call per argument, at the argument's number (by which           *)
(* range_helper.cpp:190 takes it), and all that used an argument uses the  *)
(* recorded call, although initRange puts in calls once more.              *)
(***************************************************************************)
RecordedCallsUsed ==
  round = 2 =>
    /\ Recorded = {i \in DOMAIN functions : IsTaintSource(functions[i].name)}
    /\ \A i \in Recorded : LET f == functions[i] IN
         /\ functionsToTaintSources[i] = [n \in 1 .. IF Empty(f) THEN 0 ELSE f.args |-> Value(n, 1)]
         /\ UsedValues(f) \subseteq ToSet(functionsToTaintSources[i])

(***************************************************************************)
(* A use comes before its definition, which LLVM does not allow, exactly   *)
(* where the entry block of a taint source used an argument before its     *)
(* terminator; code that clang -O0 emits always does.                      *)
(***************************************************************************)
Dominated(f) ==
  \A p, q \in DOMAIN f.entry : f.entry[p].def \in f.entry[q].uses => p < q

UsesEarly(f) ==
  \E p \in DOMAIN f.entry : p < Len(f.entry) /\ f.entry[p].uses # {}

DominanceExact ==
  pc = "done" =>
    \A i \in Originals :
      Dominated(functions[i]) <=> ~(IsTaintSource(initial[i].name) /\ UsesEarly(initial[i]))

(***************************************************************************)
(* initRange's loop leaves no trace but calls that nothing uses: a step of *)
(* it changes neither the list nor the record, and a function at most by a *)
(* call put into its entry block whose value is used nowhere.              *)
(***************************************************************************)
AddsDeadCall(f, g) ==
  \E p \in DOMAIN f.entry :
    /\ g = [f EXCEPT !.entry = InsertAt(@, p, g.entry[p])]
    /\ g.entry[p].uses = {}
    /\ g.entry[p].def \notin UsedValues(g)

SecondRoundIdle ==
  [][round = 2 =>
       /\ functionsToTaintSources' = functionsToTaintSources
       /\ DOMAIN functions' = DOMAIN functions
       /\ \A i \in DOMAIN functions :
            functions'[i] = functions[i] \/ AddsDeadCall(functions[i], functions'[i])]_vars

(***************************************************************************)
(* Both walks end although what they do extends the list they walk: a      *)
(* callee has a taint source's name, but no argument.                      *)
(***************************************************************************)
MarkingTerminates == <>(pc = "done")
=============================================================================
