------------------------------- MODULE KintIR -------------------------------
(***************************************************************************)
(* The LLVM modules the range analysis reads, cut down to what it looks    *)
(* at.  LLVM is not part of this repository: this is its IR as the pass    *)
(* uses it.  A module p of IR is a record:                                 *)
(*   functions  the functions with a body, in order                        *)
(*   returns    for each function, the width of its result, or 0           *)
(*   params     for each function, its formal arguments                    *)
(*   globals    for each global, its type ("integer", "array" of one or    *)
(*              more integers, or "other"), the width of the integers and  *)
(*              the values of its initializer, if they are constants       *)
(*   succ       for each function, the successors of blocks 1 .. n         *)
(*   term       and the terminator of each block                           *)
(*   code       and the other instructions of all blocks, in order; those  *)
(*              that analyzeFunction does nothing about are left out       *)
(*   asserts    was the LLVM that reads it compiled with assertions?       *)
(***************************************************************************)
EXTENDS ConstantRange, Sequences

CONSTANTS
  Value,      \* SSA values, arguments and integer constants
  Width,      \* the bit width of each, 0 when it is not an integer
  Const,      \* the unsigned value of those that are a ConstantInt
  Global,     \* global variables
  Function,   \* functions, declared or defined
  Programs    \* the modules to analyse

IsConst(v) == v \in DOMAIN Const

ReturnsInteger(p, f) == p.returns[f] # 0

(***************************************************************************)
(* What LLVM's verifier, and clang's code for C, guarantee of an           *)
(* instruction i of function f.  A phi, a select, a binary operator or a   *)
(* switch is on integers.  A select does not use itself: LLVM allows that  *)
(* in unreachable code only, and clang emits none.                         *)
(* Nothing guarantees that an integer is stored to a global integer or     *)
(* array of its own width.  A build with assertions stops at another one   *)
(* (Fails in RangeAnalysis); one without goes on with a union of two       *)
(* widths, whose outcome LLVM does not define, and is not modelled there.  *)
(***************************************************************************)
WellFormedInstruction(p, f, i) ==
  \/ /\ i.op = "call"
     /\ i.id \in Value
     /\ i.callee \in Function => Len(i.args) >= Len(p.params[i.callee])
     /\ \A k \in DOMAIN i.args : i.args[k] \in Value
  \/ /\ i.op = "store"
     /\ i.val \in Value
     /\ ~p.asserts /\ i.ptr \in Global /\ p.globals[i.ptr].type # "other" /\ Width[i.val] # 0
          => Width[i.val] = p.globals[i.ptr].bits
  \/ /\ i.op = "ret"
     /\ ReturnsInteger(p, f) => i.val \in Value /\ Width[i.val] = p.returns[f]
  \/ /\ i.op = "select"
     /\ {i.id, i.true, i.false} \subseteq Value /\ i.id \notin {i.true, i.false}
     /\ Width[i.id] # 0 /\ Width[i.true] = Width[i.id] /\ Width[i.false] = Width[i.id]
  \/ i.op = "cast" /\ {i.id, i.inp} \subseteq Value
  \/ /\ i.op = "binop"
     /\ {i.id, i.lhs, i.rhs} \subseteq Value
     /\ Width[i.id] # 0 /\ Width[i.lhs] = Width[i.id] /\ Width[i.rhs] = Width[i.id]
  \/ /\ i.op = "phi"
     /\ i.id \in Value /\ Width[i.id] # 0
     /\ i.parent \in DOMAIN p.succ[f]
     /\ \A k \in DOMAIN i.incoming :
          /\ i.incoming[k].from \in DOMAIN p.succ[f]
          /\ i.incoming[k].val \in Value /\ Width[i.incoming[k].val] = Width[i.id]
  \/ i.op = "load" /\ i.id \in Value

WellFormedTerminator(t) ==
  \/ /\ t.op = "icmp"
     /\ {t.id, t.lhs, t.rhs} \subseteq Value
     /\ t.pred \in Predicates
     /\ Width[t.lhs] = Width[t.rhs]
  \/ t.op = "switch" /\ t.cond \in Value
  \/ t.op = "other"

(***************************************************************************)
(* A value is defined in one place: the result of an instruction is not    *)
(* that of another one, nor a comparison a branch is on, nor an argument.  *)
(***************************************************************************)
Defines(i) == i.op \in {"call", "select", "cast", "binop", "phi", "load"}

SingleAssignment(p, f) ==
  \A k \in DOMAIN p.code[f] : Defines(p.code[f][k]) =>
    LET id == p.code[f][k].id IN
    /\ \A j \in DOMAIN p.code[f] : Defines(p.code[f][j]) /\ p.code[f][j].id = id => j = k
    /\ \A b \in DOMAIN p.succ[f] : p.term[f][b].op = "icmp" => p.term[f][b].id # id
    /\ \A g \in Function : \A n \in DOMAIN p.params[g] : p.params[g][n] # id

\* Several branches may be on one comparison.
OneComparison(t, u) ==
  t.op = "icmp" /\ u.op = "icmp" /\ t.id = u.id
  => t.pred = u.pred /\ t.lhs = u.lhs /\ t.rhs = u.rhs

IsSequence(s) == Len(s) \in Nat /\ DOMAIN s = 1 .. Len(s)

\* A function has an entry block, 1, which has no predecessor.
WellFormedFunction(p, f) ==
  /\ IsSequence(p.succ[f])
  /\ Len(p.succ[f]) > 0
  /\ \A b \in DOMAIN p.succ[f] :
       p.succ[f][b] \subseteq 2 .. Len(p.succ[f]) /\ WellFormedTerminator(p.term[f][b])
  /\ IsSequence(p.code[f])
  /\ \A k \in DOMAIN p.code[f] : WellFormedInstruction(p, f, p.code[f][k])
  /\ SingleAssignment(p, f)

WellFormed(p) ==
  /\ p.asserts \in BOOLEAN
  /\ p.functions \in Seq(Function)
  /\ p.returns \in [Function -> Widths]
  /\ p.params \in [Function -> Seq(Value)]
  /\ \A G \in Global :
       /\ p.globals[G].bits \in Widths
       /\ p.globals[G].values \in Seq(Domain(p.globals[G].bits))
  /\ \A n \in DOMAIN p.functions : WellFormedFunction(p, p.functions[n])
  /\ \A m, n \in DOMAIN p.functions : LET f == p.functions[m]
                                         g == p.functions[n] IN
       \A b \in DOMAIN p.succ[f], c \in DOMAIN p.succ[g] :
         OneComparison(p.term[f][b], p.term[g][c])

ASSUME ValuesAssumption ==
  /\ Width \in [Value -> Widths]
  /\ DOMAIN Const \subseteq Value
  /\ \A v \in DOMAIN Const : Width[v] # 0 /\ Const[v] \in Domain(Width[v])

ASSUME ProgramsAssumption == \A p \in Programs : WellFormed(p)
=============================================================================
