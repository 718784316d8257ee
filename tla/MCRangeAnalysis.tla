-------------------------- MODULE MCRangeAnalysis --------------------------
(***************************************************************************)
(* Families of small programs for RangeAnalysis, with integers of two bits *)
(* (one for comparisons and truncations).  Each family varies the operands *)
(* of one shape of control flow.                                           *)
(***************************************************************************)
EXTENDS RangeAnalysis

MCWidths == {0, 1, 2}
MCValue == {"p", "fp", "cmp", "bit", "x", "y", "call", "sum", "quot", "phi", "join",
            "sel", "ext", "ld", "ld2", "k0", "k1", "k3"}
MCWidth == [v \in MCValue |->
              CASE v \in {"p", "fp"} -> 0
                [] v \in {"cmp", "bit"} -> 1
                [] OTHER -> 2]
MCConst == [k0 |-> 0, k1 |-> 1, k3 |-> 3]
MCGlobal == {"g", "arr", "undef", "struct"}
MCFunction == {"f", "h", "lib"}

Globals(gInit) ==
  [g |-> [type |-> "integer", bits |-> 2, values |-> <<gInit>>],
   arr |-> [type |-> "array", bits |-> 2, values |-> <<0, 0>>],
   undef |-> [type |-> "array", bits |-> 2, values |-> <<>>],
   struct |-> [type |-> "other", bits |-> 0, values |-> <<>>]]

-----------------------------------------------------------------------------
Store(v, ptr) == [op |-> "store", val |-> v, ptr |-> ptr]
Ret(v) == [op |-> "ret", val |-> v]
Load(id, ptr) == [op |-> "load", id |-> id, ptr |-> ptr]
Call(callee) == [op |-> "call", id |-> "call", callee |-> callee, args |-> <<"x">>]
Phi(id, parent, incoming) ==
  [op |-> "phi", id |-> id, parent |-> parent, incoming |-> incoming]
From(b, v) == [from |-> b, val |-> v]
Select(t, e) == [op |-> "select", id |-> "sel", true |-> t, false |-> e]

Pairs == Domain(2) \X Domain(2)
Add(l, r) == [op |-> "binop", id |-> "sum", lhs |-> l, rhs |-> r,
              computes |-> [xy \in Pairs |-> {(xy[1] + xy[2]) % 4}]]
UDiv(l, r) == [op |-> "binop", id |-> "quot", lhs |-> l, rhs |-> r,
               computes |-> [xy \in Pairs |-> IF xy[2] = 0 THEN {} ELSE {xy[1] \div xy[2]}]]

Cast(kind, id, inp, converts) ==
  [op |-> "cast", kind |-> kind, id |-> id, inp |-> inp, converts |-> converts]
Trunc(inp) == Cast("trunc", "bit", inp, [x \in Domain(2) |-> x % 2])
SExt(inp) == Cast("sext", "ext", inp, [x \in Domain(1) |-> 3 * x])
ZExt(inp) == Cast("zext", "ext", inp, [x \in Domain(1) |-> x])
PtrToInt == Cast("other", "ext", "p", <<>>)
SIToFP == Cast("other", "fp", "x", <<>>)
Freeze(inp) == Cast("other", "ext", inp, <<>>)

ICmpBr(pred, l, r, then) ==
  [op |-> "icmp", id |-> "cmp", pred |-> pred, lhs |-> l, rhs |-> r, then |-> then]
Switch(cases, default) ==
  [op |-> "switch", cond |-> "x", cases |-> cases, default |-> default]
Case(v, b) == [value |-> v, dest |-> b]
Other == [op |-> "other"]

Program(functions, gInit, succ, term, code) ==
  [asserts |-> TRUE,
   functions |-> functions,
   returns |-> [f |-> 2, h |-> 2, lib |-> 2],
   params |-> [f |-> <<"x">>, h |-> <<"y">>, lib |-> <<"y">>],
   globals |-> Globals(gInit),
   succ |-> succ, term |-> term, code |-> code]

(***************************************************************************)
(* Two functions of one block, which store to the same globals and return. *)
(***************************************************************************)
StraightPrograms ==
  {Program(<<"f", "h">>, gInit,
           [f |-> <<{}>>, h |-> <<{}>>],
           [f |-> <<Other>>, h |-> <<Other>>],
           [f |-> <<Load("ld", "g"), Store(v1, "g"), Store(v2, "arr"), Store("p", "g"),
                    Store("x", "p"), Ret(v3)>>,
            h |-> <<Store(v4, "g"), Store(v1, "undef"), Load("ld2", "p"), Ret(v2)>>]) :
     gInit \in {0, 1}, v1 \in {"k0", "k3", "x"}, v2 \in {"k0", "k3"},
     v3 \in {"k1", "y"}, v4 \in {"k1", "k3"}}

(***************************************************************************)
(* A diamond on a comparison, joined by a phi; the result of a call to a   *)
(* function with or without a body, or to a pointer, may be compared.      *)
(***************************************************************************)
Diamond == <<{2, 3}, {4}, {4}, {}>>

BranchPrograms(lefts, rights, callees) ==
  {Program(<<"f", "h">>, 1,
           [f |-> Diamond, h |-> <<{}>>],
           [f |-> <<ICmpBr(pred, l, r, 2), Other, Other, Other>>, h |-> <<Other>>],
           [f |-> <<Call(callee), Store(l, "g"), Phi("join", 4, <<From(2, r), From(3, "k0")>>),
                    Ret("join")>>,
            h |-> <<Ret("k1")>>]) :
     pred \in Predicates, l \in lefts, r \in rights, callee \in callees}

(***************************************************************************)
(* Two branches on one comparison, the outer one's true edge to the inner. *)
(***************************************************************************)
NestedPrograms ==
  {Program(<<"f">>, 0, [f |-> <<{2, 3}, {3, 4}, {4}, {}>>],
           [f |-> <<ICmpBr(pred, l, r, 2), ICmpBr(pred, l, r, 4), Other, Other>>],
           [f |-> <<Ret("k0")>>]) :
     pred \in Predicates, l \in {"k0", "x"}, r \in {"k0", "y"}}

(***************************************************************************)
(* A loop 2 -> 3 -> 2, whose body may also be a loop of one block, with    *)
(* arithmetic, casts and a select of computed values.                      *)
(***************************************************************************)
Loops == {<<{2}, {3, 4}, {2}, {}>>, <<{2}, {3, 4}, {2, 3}, {}>>}

LoopPrograms ==
  {Program(<<"f">>, 1,
           [f |-> succ],
           [f |-> <<Other, ICmpBr("ult", "phi", "k3", 3), Other, Other>>],
           [f |-> <<Phi("phi", 2, <<From(1, v), From(3, "sum")>>),
                    Phi("join", 3, <<From(2, "k1")>>), Add("phi", v), UDiv("x", r),
                    Select("sum", "quot"), Trunc("quot"), cast, SIToFP, Store("sum", "g"),
                    Ret("phi")>>]) :
     succ \in Loops, v \in {"k0", "k3"}, r \in {"k0", "k1", "y"},
     cast \in {SExt("bit"), ZExt("bit"), PtrToInt, Freeze("sum"), ZExt("cmp")}}

(***************************************************************************)
(* A switch to three returns; a case may share the default's destination.  *)
(***************************************************************************)
SwitchPrograms ==
  {Program(<<"f">>, 0,
           [f |-> <<{2, 3, 4}, {}, {}, {}>>],
           [f |-> <<Switch(cases, default), Other, Other, Other>>],
           [f |-> <<Store("k1", "g"), Ret("k0"), Ret("k3"), Ret("k1")>>]) :
     cases \in {<<Case(0, 2), Case(2, 4)>>, <<Case(0, 2), Case(3, 3), Case(1, 4)>>,
               <<Case(1, 4), Case(3, 2), Case(0, 3)>>},
     default \in {2, 3}}

(***************************************************************************)
(* What stops the pass, or only a build with assertions: a select of an    *)
(* argument or a constant, of a range with no width, a store to the first  *)
(* field of a struct, a truncation of a range with no width.               *)
(***************************************************************************)
FailingInstructions ==
  {<<ZExt("cmp"), Select("ext", "sum")>>, <<ZExt("cmp"), Select("sum", "ext")>>,
   <<Store("k1", "struct"), Store("k3", "struct")>>, <<ZExt("cmp"), Trunc("ext")>>,
   <<Select("sum", "x")>>, <<Select("k0", "sum")>>}

FailingPrograms ==
  {Program(<<"f">>, 1, [f |-> Diamond],
           [f |-> <<ICmpBr("ne", "x", "k3", 2), Other, Other, Other>>],
           [f |-> <<Add("x", "k1")>> \o code \o <<Store("k0", "g"), Ret("x")>>]) :
     code \in FailingInstructions}

\* A store of another width than the global's, which only assertions look at.
NarrowStores ==
  {Program(<<"f">>, 1, [f |-> <<{}>>], [f |-> <<Other>>],
           [f |-> <<Trunc("x"), Store("k1", "g"), Store("bit", G), Ret("x")>>]) : G \in {"g", "arr"}}

(***************************************************************************)
(* One program for each disagreement between the comments and the code.    *)
(***************************************************************************)
OneBlock(globals, code) ==
  [Program(<<"f">>, 0, [f |-> <<{}>>], [f |-> <<Other>>], [f |-> code])
   EXCEPT !.globals.arr.values = globals]

ArrayPrograms == {OneBlock(<<0, 3, 1>>, <<Ret("k1")>>)}
LoadPrograms == {OneBlock(<<0>>, <<Load("ld", "g"), Store("k3", "g"), Ret("ld")>>)}
SelectPrograms == {OneBlock(<<0>>, <<Select("x", "k1"), Ret("sel")>>)}

\* The same read by a build of LLVM without assertions.
InRelease(programs) == {[p EXCEPT !.asserts = FALSE] : p \in programs}

AllPrograms ==
  StraightPrograms
    \cup BranchPrograms({"x", "call"}, {"k0", "k3", "y"}, {"h", "lib", "p"})
    \cup BranchPrograms({"k1"}, {"k0", "k1"}, {"h"})
    \cup BranchPrograms({"k0", "k3"}, {"x"}, {"h"})
    \cup NestedPrograms \cup LoopPrograms \cup SwitchPrograms
    \cup FailingPrograms \cup NarrowStores
    \cup InRelease(LoopPrograms \cup FailingPrograms)

\* TLC evaluates a definition of its own, as AllPrograms, only once.
MCPrograms == AllPrograms
=============================================================================
