----------------------------- MODULE Exactness -----------------------------
(***************************************************************************)
(* By which constraints a check may be answered: the set of runs, as far   *)
(* as they take no back edge, in which the guarded operation goes wrong.   *)
(* Some shapes of code loosen that on one side.                            *)
(***************************************************************************)
EXTENDS FunctionIR

(***************************************************************************)
(* Runs may be missed behind a branch with one destination for both        *)
(* outcomes, of which only the first counts, and behind a terminator the   *)
(* pass does not know.                                                     *)
(***************************************************************************)
MayMiss(f) ==
  \E b \in Blocks(f) : LET t == f.term[b] IN
    \/ t.op = "condbr" /\ t.then = t.else
    \/ t.op = "other" /\ t.succs # {}

\* Runs may be invented behind a phi of floating-point numbers.
MayInvent(f) ==
  \E phi \in Symbols(f) : /\ f.values[phi].op = "phi"
                          /\ \E b \in DOMAIN f.values[phi].incoming :
                               f.values[f.values[phi].incoming[b]].op = "float"

\* A conversion between a pointer and an integer that LLVM extends with zeros.
WidensPointer(f) ==
  \E v \in DOMAIN f.values : LET i == f.values[v] IN
    i.op \in {"inttoptr", "ptrtoint"} /\ Bits(f, i.src) < i.bits

Allowed(f, c, constraint) ==
  /\ constraint \subseteq Valuations(f)
  /\ ~(MayMiss(f) \/ WidensPointer(f)) => Failures(f, c) \subseteq constraint
  /\ ~(MayInvent(f) \/ WidensPointer(f)) => constraint \subseteq Failures(f, c)
=============================================================================
