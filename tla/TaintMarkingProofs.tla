------------------------- MODULE TaintMarkingProofs -------------------------
(***************************************************************************)
(* Proofs about TaintMarking, for all modules of any number of functions,  *)
(* arguments and instructions.                                             *)
(***************************************************************************)
EXTENDS TaintMarking, SequenceTheorems, TLAPS

-----------------------------------------------------------------------------
(***************************************************************************)
(* The invariant.  Walked(i) says that run's loop has left function i      *)
(* behind; Tainted(i) is how many arguments of a function with a body have *)
(* been given their recorded call.                                         *)
(***************************************************************************)
Walked(i) == round = 2 \/ i < at

Tainted(i) ==
  IF Walked(i) THEN functions[i].args
  ELSE IF i = at /\ pc = "args" THEN arg - 1 ELSE 0

Marked(i) == IsTaintSource(functions[i].name) /\ ~Empty(functions[i])

\* Where control is.
ControlInv ==
  /\ pc \in {"args", "return"} => IsTaintSource(F.name)
  /\ pc = "args" /\ Empty(F) => arg = 1
  /\ pc = "return" => Empty(F)
  /\ pc = "done" => round = 2

\* Which declarations have been made.
CalleesInv ==
  /\ \A i, j \in DOMAIN functions : functions[i].name = functions[j].name => i = j
  /\ NamesOf(functions) \subseteq NamesOf(initial) \cup AllCallees
  /\ \A i \in Originals : Walked(i) => Callees(initial[i]) \subseteq NamesOf(functions)
  /\ pc = "args" => \A n \in 1 .. arg - 1 : ArgName(F.name, n) \in NamesOf(functions)
  /\ pc = "return" => ArgName(F.name, 1) \in NamesOf(functions)

\* What is on record.
RecordedCalls(f) == [n \in 1 .. IF Empty(f) THEN 0 ELSE f.args |-> Value(n, 1)]

RecordInv ==
  /\ Recorded = {i \in DOMAIN functions : IsTaintSource(functions[i].name) /\ Walked(i)}
  /\ \A i \in Recorded : functionsToTaintSources[i] = RecordedCalls(functions[i])
  /\ pc \in {"args", "return"} /\ Empty(F) => taintSources = <<>>
  /\ pc = "args" /\ round = 1 => taintSources = [n \in 1 .. arg - 1 |-> Value(n, 1)]

\* What a function that has been marked looks like: its instructions, the calls, its terminator.
Shape(f, o) ==
  /\ Len(o.entry) <= Len(f.entry)
  /\ \A p \in 1 .. Len(o.entry) - 1 :
       f.entry[p].def = Nothing /\ (f.entry[p].uses = {} <=> o.entry[p].uses = {})
  /\ \A p \in Len(o.entry) .. Len(f.entry) - 1 :
       f.entry[p].uses = {} /\ f.entry[p].def.round # 0
  /\ f.entry[Len(f.entry)].def = Nothing

\* Its first k arguments have been replaced by their calls.
Replaced(f, o, k) ==
  /\ UsedValues(f) \subseteq {Value(n, 1) : n \in 1 .. k} \cup {Value(n, 0) : n \in k + 1 .. f.args}
  /\ \A n \in 1 .. k : \E p \in Len(o.entry) .. Len(f.entry) - 1 : f.entry[p].def = Value(n, 1)

BodiesInv ==
  \A i \in Originals :
    IF Marked(i)
    THEN Shape(functions[i], initial[i]) /\ Replaced(functions[i], initial[i], Tainted(i))
    ELSE functions[i] = initial[i]

IInv == TypeOK /\ ControlInv /\ CalleesInv /\ RecordInv /\ BodiesInv

-----------------------------------------------------------------------------
(***************************************************************************)
(* Names, values and instructions.                                         *)
(***************************************************************************)

\* A pair of numbers is a value, and the value tells them.
LEMMA ValueType ==
  ASSUME NEW n \in Nat, NEW r \in {0, 1, 2}
  PROVE  /\ Value(n, r) \in Values
         /\ Value(n, r).arg = n
         /\ Value(n, r).round = r
BY DEF Value, Values

\* What is declared has a name and is a function.
LEMMA DeclarationType ==
  ASSUME NEW name \in Names
  PROVE  /\ Declaration(name) \in Function
         /\ Declaration(name).name = name
         /\ Declaration(name).args = 0
         /\ Empty(Declaration(name))
         /\ UsedValues(Declaration(name)) = {}
<1>1. <<>> \in Seq(Instructions)
  BY EmptySeq
<1> QED
  BY <1>1 DEF Declaration, Function, Empty, UsedValues

\* The callee of a taint source's argument has a taint source's name.
LEMMA ArgNameType ==
  ASSUME NEW name \in Names, NEW n \in Nat
  PROVE  /\ ArgName(name, n) \in Names
         /\ IsTaintSource(ArgName(name, n)) <=> IsTaintSource(name)
<1>1. Append(name.path, n) \in Seq(Nat)
  BY AppendProperties DEF Names
<1> QED
  BY <1>1 DEF ArgName, Names, IsTaintSource

\* Replacing an argument in a set of uses: the call comes in its place.
LEMMA ReplaceUsesMembers ==
  ASSUME NEW uses \in SUBSET Values, NEW n \in Nat, NEW call \in Values
  PROVE  /\ ReplaceUses(uses, n, call) \in SUBSET Values
         /\ \A v : v \in ReplaceUses(uses, n, call) <=>
                     (v \in uses /\ v # Value(n, 0)) \/ (v = call /\ Value(n, 0) \in uses)
         /\ ReplaceUses(uses, n, call) = {} <=> uses = {}
         /\ Value(n, 0) \notin uses => ReplaceUses(uses, n, call) = uses
BY DEF ReplaceUses

\* The call is the last but one instruction, and the others stay in order.
LEMMA InsertCallShape ==
  ASSUME NEW entry \in Seq(Instructions), entry # <<>>, NEW call \in Values
  PROVE  /\ InsertCall(entry, call) \in Seq(Instructions)
         /\ Len(InsertCall(entry, call)) = Len(entry) + 1
         /\ \A p \in 1 .. Len(entry) - 1 : InsertCall(entry, call)[p] = entry[p]
         /\ InsertCall(entry, call)[Len(entry)] = [def |-> call, uses |-> {}]
         /\ InsertCall(entry, call)[Len(entry) + 1] = entry[Len(entry)]
<1> DEFINE n == Len(entry)
           i == [def |-> call, uses |-> {}]
           a == SubSeq(entry, 1, n - 1)
           c == SubSeq(entry, n, n)
<1>1. n \in Nat \ {0} /\ entry \in [1 .. n -> Instructions]
  BY EmptySeq, LenProperties
<1>2. i \in Instructions
  BY DEF Instructions
<1>3. /\ a \in Seq(Instructions) /\ Len(a) = n - 1
      /\ \A p \in 1 .. n - 1 : a[p] = entry[p]
  BY <1>1, SubSeqProperties
<1>4. c \in Seq(Instructions) /\ Len(c) = 1 /\ c[1] = entry[n]
  BY <1>1, SubSeqProperties
<1>5. <<i>> \in Seq(Instructions) /\ Len(<<i>>) = 1 /\ <<i>>[1] = i
  BY <1>2
<1>6. /\ a \o <<i>> \in Seq(Instructions) /\ Len(a \o <<i>>) = n
      /\ \A p \in 1 .. n - 1 : (a \o <<i>>)[p] = entry[p]
      /\ (a \o <<i>>)[n] = i
  <2> HIDE DEF a, c, i, n
  <2> QED BY <1>1, <1>3, <1>5, ConcatProperties
<1>7. /\ (a \o <<i>>) \o c \in Seq(Instructions)
      /\ Len((a \o <<i>>) \o c) = n + 1
      /\ \A p \in 1 .. n - 1 : ((a \o <<i>>) \o c)[p] = entry[p]
      /\ ((a \o <<i>>) \o c)[n] = i
      /\ ((a \o <<i>>) \o c)[n + 1] = entry[n]
  <2> DEFINE b == a \o <<i>>
  <2> HIDE DEF b, a, c, i, n
  <2>1. b \in Seq(Instructions) /\ Len(b) = n
    BY <1>6 DEF b
  <2>2. c \in Seq(Instructions) /\ Len(c) = 1 /\ c[1] = entry[n] /\ n \in Nat \ {0}
    BY <1>1, <1>4
  <2>3. /\ b \o c \in Seq(Instructions) /\ Len(b \o c) = Len(b) + Len(c)
        /\ \A p \in 1 .. Len(b) + Len(c) :
             (b \o c)[p] = IF p <= Len(b) THEN b[p] ELSE c[p - Len(b)]
    BY <2>1, <2>2, ConcatProperties
  <2>4. /\ b \o c \in Seq(Instructions) /\ Len(b \o c) = n + 1
        /\ \A p \in 1 .. n + 1 : (b \o c)[p] = IF p <= n THEN b[p] ELSE c[p - n]
    BY <2>1, <2>2, <2>3
  <2>5. (b \o c)[n + 1] = entry[n] /\ \A p \in 1 .. n : (b \o c)[p] = b[p]
    BY <2>2, <2>4
  <2> QED BY <1>6, <2>2, <2>4, <2>5 DEF b
<1>8. InsertCall(entry, call) = (a \o <<i>>) \o c
  BY DEF InsertCall, InsertAt
<1> QED
  BY <1>7, <1>8

\* The uses of a function are those of its instructions and of its later blocks.
LEMMA UsedValuesMembers ==
  ASSUME NEW f \in Function
  PROVE  /\ DOMAIN f.entry = 1 .. Len(f.entry) /\ Len(f.entry) \in Nat
         /\ Empty(f) <=> Len(f.entry) = 0
         /\ \A p \in 1 .. Len(f.entry) : f.entry[p] \in Instructions /\ f.entry[p].uses \subseteq UsedValues(f)
         /\ \A v : v \in UsedValues(f) <=> v \in f.later \/ \E p \in 1 .. Len(f.entry) : v \in f.entry[p].uses
         /\ UsedValues(f) \subseteq Values
<1>1. f.entry \in Seq(Instructions) /\ f.later \subseteq Values
  BY DEF Function
<1>2. DOMAIN f.entry = 1 .. Len(f.entry) /\ Len(f.entry) \in Nat
  BY <1>1, LenProperties
<1>3. f.entry = <<>> <=> Len(f.entry) = 0
  BY <1>1, EmptySeq
<1>4. \A p \in 1 .. Len(f.entry) : f.entry[p] \in Instructions /\ f.entry[p].uses \subseteq Values
  <2>1. \A p \in 1 .. Len(f.entry) : f.entry[p] \in Instructions
    BY <1>1, ElementOfSeq
  <2> QED BY <2>1 DEF Instructions
<1>5. \A v : v \in UsedValues(f) <=> v \in f.later \/ \E p \in 1 .. Len(f.entry) : v \in f.entry[p].uses
  BY <1>2 DEF UsedValues
<1> QED
  BY <1>1, <1>2, <1>3, <1>4, <1>5 DEF Empty

\* A call is put into a function: where its instructions are, and what they use.
LEMMA WithCallShape ==
  ASSUME NEW f \in Function, ~Empty(f), NEW n \in Nat, NEW call \in Values
  PROVE  LET g == WithCall(f, n, call)
             l == Len(f.entry)
         IN  /\ g \in Function /\ ~Empty(g)
             /\ g.name = f.name /\ g.args = f.args
             /\ Len(g.entry) = l + 1
             /\ \A p \in 1 .. l - 1 : /\ g.entry[p].def = f.entry[p].def
                                      /\ g.entry[p].uses = ReplaceUses(f.entry[p].uses, n, call)
             /\ g.entry[l] = [def |-> call, uses |-> {}]
             /\ g.entry[l + 1].def = f.entry[l].def
             /\ g.entry[l + 1].uses = ReplaceUses(f.entry[l].uses, n, call)
             /\ g.later = ReplaceUses(f.later, n, call)
<1> DEFINE l == Len(f.entry)
           e == InsertCall(f.entry, call)
           h == [i \in DOMAIN e |-> [e[i] EXCEPT !.uses = ReplaceUses(e[i].uses, n, call)]]
<1>1. f.entry \in Seq(Instructions) /\ f.entry # <<>> /\ l \in Nat \ {0} /\ f.later \subseteq Values
  BY UsedValuesMembers DEF Function, Empty
<1>2. /\ e \in Seq(Instructions) /\ Len(e) = l + 1
      /\ \A p \in 1 .. l - 1 : e[p] = f.entry[p]
      /\ e[l] = [def |-> call, uses |-> {}]
      /\ e[l + 1] = f.entry[l]
  BY <1>1, InsertCallShape
<1>3. DOMAIN e = 1 .. l + 1 /\ \A p \in 1 .. l + 1 : e[p] \in Instructions
  BY <1>1, <1>2, LenProperties, ElementOfSeq
<1>4. \A p \in 1 .. l + 1 : /\ h[p] \in Instructions
                            /\ h[p].def = e[p].def
                            /\ h[p].uses = ReplaceUses(e[p].uses, n, call)
  <2> SUFFICES ASSUME NEW p \in 1 .. l + 1
               PROVE  /\ h[p] \in Instructions
                      /\ h[p].def = e[p].def
                      /\ h[p].uses = ReplaceUses(e[p].uses, n, call)
    OBVIOUS
  <2>1. h[p] = [e[p] EXCEPT !.uses = ReplaceUses(e[p].uses, n, call)]
    BY <1>3
  <2>2. e[p] \in [def : Values, uses : SUBSET Values]
    BY <1>3 DEF Instructions
  <2>3. ReplaceUses(e[p].uses, n, call) \in SUBSET Values
    BY <2>2, ReplaceUsesMembers
  <2> HIDE DEF h, e
  <2> QED BY <2>1, <2>2, <2>3 DEF Instructions
<1>5. h \in Seq(Instructions) /\ Len(h) = l + 1 /\ DOMAIN h = 1 .. l + 1
  <2>1. DOMAIN h = 1 .. l + 1
    BY <1>3
  <2>2. h \in [1 .. l + 1 -> Instructions]
    BY <1>3, <1>4
  <2> HIDE DEF h
  <2>3. h \in Seq(Instructions)
    BY <1>1, <2>2, SeqDef
  <2> QED BY <1>1, <2>1, <2>3, LenProperties
<1>6. h[l] = [def |-> call, uses |-> {}]
  <2>1. h[l] = [e[l] EXCEPT !.uses = ReplaceUses(e[l].uses, n, call)]
    BY <1>1, <1>3
  <2>2. ReplaceUses({}, n, call) = {}
    BY DEF ReplaceUses
  <2>3. e[l].uses = {} /\ e[l] = [def |-> call, uses |-> {}]
    BY <1>2
  <2>4. h[l] = [[def |-> call, uses |-> {}] EXCEPT !.uses = {}]
    BY <2>1, <2>2, <2>3
  <2> HIDE DEF h, e
  <2> QED BY <2>4
<1>7. WithCall(f, n, call) = [f EXCEPT !.entry = h, !.later = ReplaceUses(f.later, n, call)]
  BY DEF WithCall
<1>8. ReplaceUses(f.later, n, call) \in SUBSET Values
  BY <1>1, ReplaceUsesMembers
<1> DEFINE g == WithCall(f, n, call)
<1>9. /\ g \in Function /\ g.entry = h /\ g.name = f.name /\ g.args = f.args
       /\ g.later = ReplaceUses(f.later, n, call)
  <2> DEFINE u == ReplaceUses(f.later, n, call)
           k == [f EXCEPT !.entry = h]
  <2>1. k = [f EXCEPT !.entry = h] /\ g = [k EXCEPT !.later = u]
    BY <1>7
  <2>2. h \in Seq(Instructions) /\ u \in SUBSET Values
    BY <1>5, <1>8
  <2> HIDE DEF h, u, g, k
  <2>3. g \in Function /\ g.entry = h /\ g.name = f.name /\ g.args = f.args /\ g.later = u
    BY <2>1, <2>2 DEF Function
  <2> QED BY <2>3 DEF u
<1>10. ~Empty(g)
  <2> HIDE DEF h, e, g
  <2> QED BY <1>1, <1>5, <1>9, UsedValuesMembers
<1>11. \A p \in 1 .. l - 1 : /\ h[p].def = f.entry[p].def
                             /\ h[p].uses = ReplaceUses(f.entry[p].uses, n, call)
  <2> HIDE DEF h, e
  <2>1. l \in Nat /\ \A p \in 1 .. l - 1 : p \in 1 .. l + 1
    BY <1>1
  <2> QED BY <1>2, <1>4, <2>1
<1>12. h[l + 1].def = f.entry[l].def /\ h[l + 1].uses = ReplaceUses(f.entry[l].uses, n, call)
  <2> HIDE DEF h, e
  <2> QED BY <1>1, <1>2, <1>4
<1> QED
  <2> HIDE DEF h, e, g
  <2> QED BY <1>5, <1>6, <1>9, <1>10, <1>11, <1>12 DEF g

\* All uses in it are replaced.
LEMMA WithCallUses ==
  ASSUME NEW f \in Function, ~Empty(f), NEW n \in Nat, NEW call \in Values
  PROVE  UsedValues(WithCall(f, n, call)) = ReplaceUses(UsedValues(f), n, call)
<1> DEFINE g == WithCall(f, n, call)
           l == Len(f.entry)
<1>1. /\ g \in Function /\ Len(g.entry) = l + 1
      /\ \A p \in 1 .. l - 1 : g.entry[p].uses = ReplaceUses(f.entry[p].uses, n, call)
      /\ g.entry[l].uses = {}
      /\ g.entry[l + 1].uses = ReplaceUses(f.entry[l].uses, n, call)
      /\ g.later = ReplaceUses(f.later, n, call)
  <2>1. /\ g \in Function /\ Len(g.entry) = l + 1
        /\ \A p \in 1 .. l - 1 : /\ g.entry[p].def = f.entry[p].def
                                 /\ g.entry[p].uses = ReplaceUses(f.entry[p].uses, n, call)
        /\ g.entry[l] = [def |-> call, uses |-> {}]
        /\ g.entry[l + 1].uses = ReplaceUses(f.entry[l].uses, n, call)
        /\ g.later = ReplaceUses(f.later, n, call)
    BY WithCallShape
  <2> HIDE DEF g
  <2> QED BY <2>1
<1> HIDE DEF g
<1>2. l \in Nat \ {0}
  BY UsedValuesMembers
<1>3. \A v : v \in UsedValues(g) <=> v \in g.later \/ \E p \in 1 .. l + 1 : v \in g.entry[p].uses
  BY <1>1, UsedValuesMembers
<1>4. \A v : v \in UsedValues(f) <=> v \in f.later \/ \E p \in 1 .. l : v \in f.entry[p].uses
  BY UsedValuesMembers
<1>5. \A v : (\E p \in 1 .. l + 1 : v \in g.entry[p].uses)
               <=> \E p \in 1 .. l : v \in ReplaceUses(f.entry[p].uses, n, call)
  <2>1. ASSUME NEW v, NEW p \in 1 .. l + 1, v \in g.entry[p].uses
        PROVE  \E q \in 1 .. l : v \in ReplaceUses(f.entry[q].uses, n, call)
    <3>1. CASE p < l
      BY <1>1, <1>2, <2>1, <3>1
    <3>2. CASE p = l
      BY <1>1, <2>1, <3>2
    <3>3. CASE p = l + 1
      BY <1>1, <1>2, <2>1, <3>3
    <3> QED BY <1>2, <3>1, <3>2, <3>3
  <2>2. ASSUME NEW v, NEW q \in 1 .. l, v \in ReplaceUses(f.entry[q].uses, n, call)
        PROVE  \E p \in 1 .. l + 1 : v \in g.entry[p].uses
    <3>1. CASE q < l
      BY <1>1, <1>2, <2>2, <3>1
    <3>2. CASE q = l
      BY <1>1, <1>2, <2>2, <3>2
    <3> QED BY <1>2, <3>1, <3>2
  <2> QED BY <2>1, <2>2
<1>6. \A v : v \in UsedValues(g)
               <=> \/ v \in ReplaceUses(f.later, n, call)
                   \/ \E p \in 1 .. l : v \in ReplaceUses(f.entry[p].uses, n, call)
  BY <1>1, <1>3, <1>5
<1>7. \A v : v \in UsedValues(g) <=> v \in ReplaceUses(UsedValues(f), n, call)
  <2>1. f.later \subseteq Values /\ UsedValues(f) \subseteq Values
    BY UsedValuesMembers DEF Function
  <2>2. \A p \in 1 .. l : f.entry[p].uses \subseteq Values
    BY <2>1, UsedValuesMembers
  <2>3. \A uses \in SUBSET Values : \A v :
          v \in ReplaceUses(uses, n, call) <=> (v \in uses /\ v # Value(n, 0)) \/ (v = call /\ Value(n, 0) \in uses)
    BY ReplaceUsesMembers
  <2> QED BY <1>4, <1>6, <2>1, <2>2, <2>3
<1> QED
  BY <1>7 DEF g

\* A function is found, or declared at the end of the list; the others stay where they are.
LEMMA GetOrInsertFunctionProperties ==
  ASSUME NEW m \in Seq(Function), NEW name \in Names
  PROVE  LET g == GetOrInsertFunction(m, name) IN
         /\ g \in Seq(Function)
         /\ Len(g) \in Nat /\ Len(m) \in Nat /\ Len(m) <= Len(g)
         /\ \A i \in 1 .. Len(m) : g[i] = m[i]
         /\ \A i \in 1 .. Len(g) : i > Len(m) => g[i] = Declaration(name)
         /\ NamesOf(g) = NamesOf(m) \cup {name}
         /\ name \in NamesOf(m) => g = m
         /\ (\A i, j \in DOMAIN m : m[i].name = m[j].name => i = j)
              => \A i, j \in DOMAIN g : g[i].name = g[j].name => i = j
<1>1. CASE name \in NamesOf(m)
  <2>1. GetOrInsertFunction(m, name) = m
    BY <1>1 DEF GetOrInsertFunction
  <2>2. Len(m) \in Nat
    BY LenProperties
  <2> QED BY <1>1, <2>1, <2>2
<1>2. CASE name \notin NamesOf(m)
  <2> DEFINE g == Append(m, Declaration(name))
  <2>1. GetOrInsertFunction(m, name) = g
    BY <1>2 DEF GetOrInsertFunction
  <2>2. Declaration(name) \in Function /\ Declaration(name).name = name
    BY DeclarationType
  <2>3. /\ g \in Seq(Function) /\ Len(g) = Len(m) + 1
        /\ \A i \in 1 .. Len(m) : g[i] = m[i]
        /\ g[Len(m) + 1] = Declaration(name)
    BY <2>2, AppendProperties
  <2>4. Len(m) \in Nat /\ DOMAIN m = 1 .. Len(m) /\ DOMAIN g = 1 .. Len(m) + 1
    BY <2>3, LenProperties
  <2> HIDE DEF g
  <2>5. NamesOf(g) = NamesOf(m) \cup {name}
    BY <2>2, <2>3, <2>4 DEF NamesOf
  <2>6. \A i \in DOMAIN m : m[i].name # name
    BY <1>2 DEF NamesOf
  <2>7. (\A i, j \in DOMAIN m : m[i].name = m[j].name => i = j)
          => \A i, j \in DOMAIN g : g[i].name = g[j].name => i = j
    BY <2>2, <2>3, <2>4, <2>6
  <2> QED BY <1>2, <2>1, <2>3, <2>4, <2>5, <2>7
<1> QED
  BY <1>1, <1>2

-----------------------------------------------------------------------------
(***************************************************************************)
(* The invariant holds to begin with, and every step keeps it.             *)
(***************************************************************************)

\* The lists, and what is in them.
LEMMA ModuleFacts ==
  ASSUME TypeOK
  PROVE  /\ Len(initial) \in Nat /\ Originals = 1 .. Len(initial)
         /\ Len(functions) \in Nat /\ DOMAIN functions = 1 .. Len(functions)
         /\ Len(initial) <= Len(functions)
         /\ \A i \in DOMAIN functions : functions[i] \in Function /\ functions[i].name \in Names /\ functions[i].args \in Nat
         /\ \A i \in Originals : initial[i] \in Function /\ WellFormedFunction(initial[i])
<1>1. initial \in Seq(Function) /\ \A i \in DOMAIN initial : WellFormedFunction(initial[i])
  BY ModulesAssumption DEF TypeOK, WellFormed
<1>2. /\ Len(initial) \in Nat /\ Originals = 1 .. Len(initial)
      /\ \A i \in 1 .. Len(initial) : initial[i] \in Function
  BY <1>1, LenProperties, ElementOfSeq DEF Originals
<1>3. /\ Len(functions) \in Nat /\ DOMAIN functions = 1 .. Len(functions)
      /\ \A i \in 1 .. Len(functions) : functions[i] \in Function
  BY LenProperties, ElementOfSeq DEF TypeOK
<1>4. Len(initial) <= Len(functions)
  BY <1>2, <1>3 DEF TypeOK
<1>5. \A i \in DOMAIN functions : functions[i].name \in Names /\ functions[i].args \in Nat
  BY <1>3 DEF Function
<1> QED
  BY <1>1, <1>2, <1>3, <1>4, <1>5 DEF Originals

LEMMA InitialInvariant == Init => IInv
<1> SUFFICES ASSUME Init PROVE IInv
  OBVIOUS
<1>1. /\ initial \in Seq(Function) /\ Len(initial) \in Nat /\ Originals = 1 .. Len(initial)
      /\ DOMAIN functions = Originals /\ functions = initial
  BY ModulesAssumption, LenProperties DEF Init, WellFormed, Originals
<1>2. /\ \A i \in Originals : initial[i] \in Function /\ WellFormedFunction(initial[i])
      /\ \A i, j \in Originals : initial[i].name = initial[j].name => i = j
  BY <1>1, ModulesAssumption, ElementOfSeq DEF Init, WellFormed
<1>3. TypeOK
  <2>1. at \in 1 .. Len(functions) + 1
    BY <1>1 DEF Init
  <2>2. Recorded = {} /\ taintSources \in Seq(Values)
    BY EmptySeq DEF Init, Recorded
  <2> QED BY <1>1, <2>1, <2>2 DEF Init, TypeOK
<1>4. ControlInv
  BY DEF Init, ControlInv
<1>5. \A i \in Originals : ~Walked(i)
  BY <1>1 DEF Init, Walked
<1>6. CalleesInv
  BY <1>1, <1>2, <1>5 DEF Init, CalleesInv
<1>7. RecordInv
  BY <1>1, <1>5 DEF Init, RecordInv, Recorded
<1>8. BodiesInv
  <2> SUFFICES ASSUME NEW i \in Originals, Marked(i)
               PROVE  Shape(initial[i], initial[i]) /\ Replaced(initial[i], initial[i], Tainted(i))
    BY <1>1 DEF BodiesInv
  <2> DEFINE o == initial[i]
  <2>1. Tainted(i) = 0
    BY <1>5 DEF Tainted, Init
  <2>2. /\ DOMAIN o.entry = 1 .. Len(o.entry) /\ Len(o.entry) \in Nat \ {0}
        /\ UsedValues(o) \subseteq {Value(n, 0) : n \in 1 .. o.args} /\ o.args \in Nat
        /\ \A p \in 1 .. Len(o.entry) : o.entry[p].def = Nothing
    BY <1>1, <1>2, UsedValuesMembers DEF Marked, WellFormedFunction, Function
  <2> HIDE DEF o
  <2>3. Shape(o, o)
    BY <2>2 DEF Shape
  <2>4. Replaced(o, o, 0)
    BY <2>2 DEF Replaced
  <2> QED BY <2>1, <2>3, <2>4 DEF o
<1> QED
  BY <1>3, <1>4, <1>6, <1>7, <1>8 DEF IInv

\* A function that is no taint source is left as it is.
LEMMA VisitOtherKeeps == IInv /\ VisitOther => IInv'
<1> SUFFICES ASSUME IInv, VisitOther PROVE IInv'
  OBVIOUS
<1> USE DEF VisitOther
<1>1. TypeOK /\ ControlInv /\ CalleesInv /\ RecordInv /\ BodiesInv
  BY DEF IInv
<1>2. TypeOK'
  BY <1>1, ModuleFacts DEF TypeOK, Originals, Recorded
<1>3. ControlInv'
  BY <1>1 DEF ControlInv
<1>4. \A i \in DOMAIN functions : Walked(i)' <=> Walked(i) \/ i = at
  BY <1>1, ModuleFacts DEF Walked, TypeOK
<1>5. CalleesInv'
  <2>1. at \in Originals => Callees(initial[at]) = {}
    BY <1>1, ModuleFacts DEF TypeOK, Callees, F
  <2>2. NamesOf(functions)' = NamesOf(functions) /\ NamesOf(initial)' = NamesOf(initial)
        /\ AllCallees' = AllCallees /\ Originals' = Originals
    BY DEF NamesOf, AllCallees, Originals
  <2>3. \A i \in Originals : Walked(i)' => Callees(initial[i]) \subseteq NamesOf(functions)
    BY <1>1, <1>4, <2>1, ModuleFacts DEF CalleesInv
  <2> QED BY <1>1, <2>2, <2>3 DEF CalleesInv
<1>6. RecordInv'
  BY <1>1, <1>4 DEF RecordInv, Recorded, F
<1>7. BodiesInv'
  <2>1. \A i \in Originals : Marked(i) => Tainted(i)' = Tainted(i)
    BY <1>1, <1>4, ModuleFacts DEF Marked, Tainted, F
  <2> QED BY <1>1, <2>1 DEF BodiesInv, Originals, Marked
<1> QED
  BY <1>2, <1>3, <1>5, <1>6, <1>7 DEF IInv

\* No argument of the taint source has its call yet.
LEMMA VisitTaintSourceKeeps == IInv /\ VisitTaintSource => IInv'
<1> SUFFICES ASSUME IInv, VisitTaintSource PROVE IInv'
  OBVIOUS
<1> USE DEF VisitTaintSource
<1>1. TypeOK /\ ControlInv /\ CalleesInv /\ RecordInv /\ BodiesInv
  BY DEF IInv
<1>2. TypeOK'
  <2>1. <<>> \in Seq(Values)
    BY EmptySeq
  <2>2. F.args \in Nat /\ 1 \in 1 .. F.args + 1
    BY <1>1, ModuleFacts DEF F
  <2> QED BY <1>1, <2>1, <2>2 DEF TypeOK, Originals, Recorded, F
<1>3. ControlInv'
  BY <1>1 DEF ControlInv, F
<1>4. \A i : Walked(i)' <=> Walked(i)
  BY DEF Walked
<1>5. CalleesInv'
  <2>1. NamesOf(functions)' = NamesOf(functions) /\ NamesOf(initial)' = NamesOf(initial)
        /\ AllCallees' = AllCallees /\ Originals' = Originals
    BY DEF NamesOf, AllCallees, Originals
  <2> QED BY <1>1, <1>4, <2>1 DEF CalleesInv
<1>6. RecordInv'
  <2>1. [n \in 1 .. 0 |-> Value(n, 1)] = <<>>
    BY SMT
  <2>2. (arg - 1)' = 0
    OBVIOUS
  <2> QED BY <1>1, <1>4, <2>1, <2>2 DEF RecordInv, Recorded, F
<1>7. BodiesInv'
  <2>1. \A i \in Originals : Tainted(i)' = Tainted(i)
    BY <1>4 DEF Tainted
  <2> QED BY <1>1, <2>1 DEF BodiesInv, Originals, Marked
<1> QED
  BY <1>2, <1>3, <1>5, <1>6, <1>7 DEF IInv

\* The function is behind: it has all of its callees, and its calls are on record.
LEMMA ReturnKeeps == IInv /\ Return => IInv'
<1> SUFFICES ASSUME IInv, Return PROVE IInv'
  OBVIOUS
<1>1. TypeOK /\ ControlInv /\ CalleesInv /\ RecordInv /\ BodiesInv
  BY DEF IInv
<1>2. /\ initial' = initial /\ functions' = functions /\ round' = round /\ arg' = arg
      /\ taintSources' = taintSources /\ at' = at + 1 /\ pc' = "loop"
      /\ pc = "return" \/ (pc = "args" /\ arg > F.args)
  BY DEF Return
<1>3. /\ at \in DOMAIN functions /\ IsTaintSource(F.name) /\ F.args \in Nat /\ arg \in 1 .. F.args + 1
      /\ at \in 1 .. Len(functions) /\ Len(functions) \in Nat
  BY <1>1, <1>2, ModuleFacts DEF TypeOK, ControlInv, F
<1>4. \A i \in DOMAIN functions : Walked(i)' <=> Walked(i) \/ i = at
  BY <1>2, <1>3, ModuleFacts, <1>1 DEF Walked
<1>5. Recorded' = IF round = 1 THEN Recorded \cup {at} ELSE Recorded
  BY <1>2 DEF Return, Recorded
<1>6. TypeOK'
  BY <1>1, <1>2, <1>3, <1>5, ModuleFacts DEF TypeOK, Originals, F
<1>7. ControlInv'
  BY <1>2 DEF ControlInv
<1>8. CalleesInv'
  <2>1. NamesOf(functions)' = NamesOf(functions) /\ NamesOf(initial)' = NamesOf(initial)
        /\ AllCallees' = AllCallees /\ Originals' = Originals
    BY <1>2 DEF NamesOf, AllCallees, Originals
  <2>2. at \in Originals => Callees(initial[at]) \subseteq NamesOf(functions)
    <3> SUFFICES ASSUME at \in Originals, NEW n \in 1 .. F.args, Empty(F) => n = 1
                 PROVE  ArgName(F.name, n) \in NamesOf(functions)
      BY <1>1, <1>3 DEF TypeOK, Callees, F
    <3>1. CASE pc = "return"
      BY <1>1, <3>1 DEF ControlInv, CalleesInv
    <3>2. CASE pc = "args" /\ arg > F.args
      BY <1>1, <1>3, <3>2 DEF CalleesInv
    <3> QED BY <1>2, <3>1, <3>2
  <2>3. \A i \in Originals : Walked(i)' => Callees(initial[i]) \subseteq NamesOf(functions)
    BY <1>1, <1>4, <2>2, ModuleFacts DEF CalleesInv
  <2> QED BY <1>1, <1>2, <2>1, <2>3 DEF CalleesInv
<1>9. RecordInv'
  <2>1. Recorded' = {i \in DOMAIN functions : IsTaintSource(functions[i].name) /\ Walked(i)'}
    <3>1. round = 2 => Walked(at)
      BY DEF Walked
    <3> QED BY <1>1, <1>3, <1>4, <1>5, <3>1 DEF RecordInv, F, TypeOK
  <2>2. ASSUME NEW i \in Recorded'
        PROVE  functionsToTaintSources'[i] = RecordedCalls(functions[i])
    <3>1. CASE round = 1 /\ i = at
      <4>1. functionsToTaintSources'[i] = taintSources
        BY <3>1 DEF Return
      <4>2. CASE Empty(F)
        <5>1. [n \in 1 .. 0 |-> Value(n, 1)] = <<>>
          BY SMT
        <5>2. taintSources = <<>>
          BY <1>1, <1>2, <4>2 DEF RecordInv
        <5> QED BY <3>1, <4>1, <4>2, <5>1, <5>2 DEF RecordedCalls, F
      <4>3. CASE ~Empty(F)
        <5>1. pc = "args" /\ arg - 1 = F.args
          BY <1>1, <1>2, <1>3, <4>3 DEF ControlInv
        <5>2. taintSources = [n \in 1 .. arg - 1 |-> Value(n, 1)]
          BY <1>1, <3>1, <5>1 DEF RecordInv
        <5> QED BY <3>1, <4>1, <4>3, <5>1, <5>2 DEF RecordedCalls, F
      <4> QED BY <4>2, <4>3
    <3>2. CASE ~(round = 1 /\ i = at)
      <4>1. i \in Recorded /\ functionsToTaintSources'[i] = functionsToTaintSources[i]
        BY <1>5, <2>2, <3>2 DEF Return, Recorded
      <4> QED BY <1>1, <4>1 DEF RecordInv
    <3> QED BY <3>1, <3>2
  <2> QED BY <1>2, <2>1, <2>2 DEF RecordInv
<1>10. BodiesInv'
  <2>1. \A i \in Originals : Marked(i) => Tainted(i)' = Tainted(i)
    <3> SUFFICES ASSUME NEW i \in Originals, Marked(i)
                 PROVE  Tainted(i)' = Tainted(i)
      OBVIOUS
    <3>1. CASE i = at
      <4>1. pc = "args" /\ arg - 1 = F.args
        BY <1>1, <1>2, <1>3, <3>1 DEF ControlInv, Marked, F
      <4> QED BY <1>2, <1>3, <1>4, <3>1, <4>1 DEF Tainted, F
    <3>2. CASE i # at
      BY <1>1, <1>2, <1>4, <3>2, ModuleFacts DEF Tainted
    <3> QED BY <3>1, <3>2
  <2> QED BY <1>1, <1>2, <2>1 DEF BodiesInv, Originals, Marked
<1> QED
  BY <1>6, <1>7, <1>8, <1>9, <1>10 DEF IInv

\* At the end of a loop every function is behind.
LEMMA EndRoundKeeps == IInv /\ EndRound => IInv'
<1> SUFFICES ASSUME IInv, EndRound PROVE IInv'
  OBVIOUS
<1>1. TypeOK /\ ControlInv /\ CalleesInv /\ RecordInv /\ BodiesInv
  BY DEF IInv
<1>2. /\ initial' = initial /\ functions' = functions /\ arg' = arg /\ taintSources' = taintSources
      /\ functionsToTaintSources' = functionsToTaintSources
      /\ pc = "loop" /\ pc' \in {"loop", "done"} /\ (pc' = "done" => round' = 2)
      /\ at \notin DOMAIN functions
      /\ round' = 2 /\ at' \in {1, at}
  BY <1>1 DEF EndRound, TypeOK
<1>3. \A i \in DOMAIN functions : Walked(i) /\ Walked(i)'
  BY <1>1, <1>2, ModuleFacts DEF Walked, TypeOK
<1>4. TypeOK'
  BY <1>1, <1>2, ModuleFacts DEF TypeOK, Originals, Recorded
<1>5. ControlInv'
  BY <1>2 DEF ControlInv
<1>6. CalleesInv'
  <2>1. NamesOf(functions)' = NamesOf(functions) /\ NamesOf(initial)' = NamesOf(initial)
        /\ AllCallees' = AllCallees /\ Originals' = Originals
    BY <1>2 DEF NamesOf, AllCallees, Originals
  <2> QED BY <1>1, <1>2, <1>3, <2>1, ModuleFacts DEF CalleesInv
<1>7. RecordInv'
  BY <1>1, <1>2, <1>3 DEF RecordInv, Recorded
<1>8. BodiesInv'
  <2>1. \A i \in Originals : Tainted(i)' = Tainted(i)
    BY <1>1, <1>2, <1>3, ModuleFacts DEF Tainted
  <2> QED BY <1>1, <1>2, <2>1 DEF BodiesInv, Originals, Marked
<1> QED
  BY <1>4, <1>5, <1>6, <1>7, <1>8 DEF IInv

(***************************************************************************)
(* The two steps that change the list declare a callee that the module has *)
(* or is to have; initRange's loop finds all of them.                      *)
(***************************************************************************)
Name == ArgName(F.name, arg)

List == GetOrInsertFunction(functions, Name)

LEMMA CalleeDeclared ==
  ASSUME IInv, pc = "args", arg <= F.args
  PROVE  /\ at \in Originals /\ arg \in 1 .. F.args /\ arg \in Nat
         /\ IsTaintSource(F.name) /\ F.name = initial[at].name /\ F.args = initial[at].args
         /\ F \in Function /\ WellFormedFunction(initial[at]) /\ initial[at] \in Function
         /\ Name \in AllCallees
         /\ IsTaintSource(Name)
         /\ List \in Seq(Function) /\ DOMAIN List = 1 .. Len(List) /\ Len(functions) <= Len(List) /\ Len(List) \in Nat
         /\ \A i \in DOMAIN functions : List[i] = functions[i]
         /\ \A i \in DOMAIN List : i \notin DOMAIN functions => List[i] = Declaration(Name) /\ List[i].name = Name
         /\ NamesOf(List) = NamesOf(functions) \cup {Name}
         /\ \A i, j \in DOMAIN List : List[i].name = List[j].name => i = j
         /\ round = 2 => List = functions
<1>1. TypeOK /\ ControlInv /\ CalleesInv
  BY DEF IInv
<1>2. /\ at \in DOMAIN functions /\ F \in Function /\ F.name \in Names /\ F.args \in Nat
      /\ arg \in 1 .. F.args /\ arg \in Nat
      /\ IsTaintSource(F.name) /\ (Empty(F) => arg = 1)
  BY <1>1, ModuleFacts DEF TypeOK, ControlInv, F
<1>3. at \in Originals
  BY <1>1, <1>2, DeclarationType DEF TypeOK, F
<1>4. F.name = initial[at].name /\ F.args = initial[at].args /\ (Empty(F) <=> Empty(initial[at]))
  BY <1>1, <1>2, <1>3 DEF TypeOK, F
<1>5. Name \in Names /\ IsTaintSource(Name)
  BY <1>2, ArgNameType DEF Name
<1>6. Name \in Callees(initial[at])
  BY <1>2, <1>4 DEF Callees, Name
<1>7. Name \in AllCallees
  BY <1>3, <1>6 DEF AllCallees
<1>8. /\ List \in Seq(Function)
      /\ Len(functions) <= Len(List) /\ Len(List) \in Nat /\ Len(functions) \in Nat
      /\ \A i \in 1 .. Len(functions) : List[i] = functions[i]
      /\ \A i \in 1 .. Len(List) : i > Len(functions) => List[i] = Declaration(Name)
      /\ NamesOf(List) = NamesOf(functions) \cup {Name}
      /\ Name \in NamesOf(functions) => List = functions
      /\ \A i, j \in DOMAIN List : List[i].name = List[j].name => i = j
  <2>1. functions \in Seq(Function) /\ \A i, j \in DOMAIN functions : functions[i].name = functions[j].name => i = j
    BY <1>1 DEF TypeOK, CalleesInv
  <2> QED BY <1>5, <2>1, GetOrInsertFunctionProperties DEF List
<1>9. DOMAIN List = 1 .. Len(List) /\ DOMAIN functions = 1 .. Len(functions) /\ Len(functions) \in Nat
  BY <1>1, <1>8, ModuleFacts, LenProperties
<1>10. \A i \in DOMAIN List : i \notin DOMAIN functions => List[i] = Declaration(Name) /\ List[i].name = Name
  <2>1. Declaration(Name).name = Name
    BY <1>5, DeclarationType
  <2>2. \A i \in DOMAIN List : i \notin DOMAIN functions => i \in 1 .. Len(List) /\ i > Len(functions)
    BY <1>8, <1>9
  <2> QED BY <1>8, <2>1, <2>2
<1>11. round = 2 => List = functions
  BY <1>1, <1>3, <1>6, <1>8 DEF Walked, CalleesInv
<1> QED
  BY <1>2, <1>3, <1>4, <1>1, <1>5, <1>7, <1>8, <1>9, <1>10, <1>11, ModuleFacts

\* What they leave of the list: every function keeps its place, its name and its
\* number of arguments, and but for F all of it.
Extended ==
  /\ functions' \in Seq(Function) /\ DOMAIN functions' = 1 .. Len(functions') /\ Len(functions') \in Nat
  /\ Len(functions) <= Len(functions')
  /\ \A i \in DOMAIN functions : /\ functions'[i].name = functions[i].name
                                 /\ functions'[i].args = functions[i].args
                                 /\ Empty(functions'[i]) <=> Empty(functions[i])
                                 /\ i # at => functions'[i] = functions[i]
  /\ \A i \in DOMAIN functions' : i \notin DOMAIN functions =>
        functions'[i] = Declaration(Name) /\ functions'[i].name = Name
  /\ NamesOf(functions)' = NamesOf(functions) \cup {Name}
  /\ \A i, j \in DOMAIN functions' : functions'[i].name = functions'[j].name => i = j
  /\ round = 2 => DOMAIN functions' = DOMAIN functions

LEMMA LeaveEmptyExtends == IInv /\ LeaveEmpty => Extended
<1> SUFFICES ASSUME IInv, LeaveEmpty PROVE Extended
  OBVIOUS
<1>1. pc = "args" /\ arg <= F.args /\ functions' = List
  BY DEF LeaveEmpty, List, Name
<1>2. DOMAIN functions = 1 .. Len(functions) /\ Len(functions) \in Nat
  BY ModuleFacts DEF IInv
<1> QED
  BY <1>1, <1>2, CalleeDeclared DEF Extended, NamesOf

LEMMA TaintArgumentExtends ==
  IInv /\ TaintArgument => Extended /\ functions'[at] = WithCall(F, arg, Value(arg, round))
<1> SUFFICES ASSUME IInv, TaintArgument
             PROVE  Extended /\ functions'[at] = WithCall(F, arg, Value(arg, round))
  OBVIOUS
<1> DEFINE g == WithCall(F, arg, Value(arg, round))
           L == List
<1>1. pc = "args" /\ arg <= F.args /\ ~Empty(F)
  BY DEF TaintArgument
<1>2. at \in DOMAIN functions /\ DOMAIN functions = 1 .. Len(functions) /\ Len(functions) \in Nat
  BY <1>1, ModuleFacts DEF IInv, TypeOK
<1>3. functions' = [L EXCEPT ![at] = g]
  <2>1. functions' = [List EXCEPT ![at] = WithCall(List[at], arg, Value(arg, round))]
    BY DEF TaintArgument, List, Name
  <2>2. List[at] = F
    BY <1>1, <1>2, CalleeDeclared DEF F
  <2> QED BY <2>1, <2>2
<1>4. g \in Function /\ ~Empty(g) /\ g.name = F.name /\ g.args = F.args
  <2>1. F \in Function /\ arg \in Nat /\ Value(arg, round) \in Values
    BY <1>1, CalleeDeclared, ValueType DEF IInv, TypeOK
  <2> QED BY <1>1, <2>1, WithCallShape
<1> HIDE DEF g
<1>5. /\ L \in Seq(Function) /\ DOMAIN L = 1 .. Len(L) /\ Len(functions) <= Len(L) /\ Len(L) \in Nat
      /\ \A i \in DOMAIN functions : L[i] = functions[i]
      /\ \A i \in DOMAIN L : i \notin DOMAIN functions => L[i] = Declaration(Name) /\ L[i].name = Name
      /\ NamesOf(L) = NamesOf(functions) \cup {Name}
      /\ \A i, j \in DOMAIN L : L[i].name = L[j].name => i = j
      /\ round = 2 => L = functions
  BY <1>1, CalleeDeclared
<1> HIDE DEF L
<1>6. /\ functions' \in Seq(Function) /\ Len(functions') = Len(L)
      /\ DOMAIN functions' = DOMAIN L
      /\ functions'[at] = g /\ \A i \in DOMAIN L : i # at => functions'[i] = L[i]
  <2>1. at \in 1 .. Len(L)
    BY <1>2, <1>5
  <2>2. /\ functions' \in Seq(Function) /\ Len(functions') = Len(L)
        /\ \A j \in 1 .. Len(L) : functions'[j] = IF j = at THEN g ELSE L[j]
    BY <1>3, <1>4, <1>5, <2>1, ExceptSeq
  <2> QED BY <1>3, <1>5, <2>1, <2>2
<1>7. \A i \in DOMAIN L : functions'[i].name = L[i].name
  BY <1>2, <1>4, <1>5, <1>6 DEF F
<1>8. NamesOf(functions)' = NamesOf(L)
  BY <1>6, <1>7 DEF NamesOf
<1>9. \A i \in DOMAIN functions : /\ functions'[i].name = functions[i].name
                                  /\ functions'[i].args = functions[i].args
                                  /\ Empty(functions'[i]) <=> Empty(functions[i])
                                  /\ i # at => functions'[i] = functions[i]
  BY <1>1, <1>2, <1>4, <1>5, <1>6 DEF F
<1>10. \A i \in DOMAIN functions' : i \notin DOMAIN functions =>
         functions'[i] = Declaration(Name) /\ functions'[i].name = Name
  BY <1>2, <1>5, <1>6
<1>11. \A i, j \in DOMAIN functions' : functions'[i].name = functions'[j].name => i = j
  BY <1>5, <1>6, <1>7
<1> QED
  BY <1>5, <1>6, <1>8, <1>9, <1>10, <1>11 DEF Extended, g

\* In both steps control, names and record stay as they have to be.
LEMMA ExtendedKeeps ==
  ASSUME IInv, TaintArgument \/ LeaveEmpty
  PROVE  TypeOK' /\ ControlInv' /\ CalleesInv' /\ RecordInv'
<1>1. TypeOK /\ ControlInv /\ CalleesInv /\ RecordInv
  BY DEF IInv
<1>2. /\ initial' = initial /\ round' = round /\ at' = at
      /\ functionsToTaintSources' = functionsToTaintSources
      /\ pc = "args" /\ arg <= F.args
      /\ \/ pc' = "args" /\ arg' = arg + 1 /\ ~Empty(F) /\ taintSources' = Append(taintSources, Value(arg, round))
         \/ pc' = "return" /\ arg' = arg /\ Empty(F) /\ taintSources' = taintSources
  BY DEF TaintArgument, LeaveEmpty
<1>3. /\ at \in DOMAIN functions /\ arg \in 1 .. F.args /\ arg \in Nat /\ F.args \in Nat
      /\ IsTaintSource(F.name) /\ Name \in AllCallees /\ IsTaintSource(Name) /\ Name \in Names
  BY <1>1, <1>2, CalleeDeclared, ModuleFacts, ArgNameType DEF TypeOK, Name, F
<1>4. Extended
  BY LeaveEmptyExtends, TaintArgumentExtends
<1>5. /\ DOMAIN functions = 1 .. Len(functions) /\ DOMAIN functions' = 1 .. Len(functions')
      /\ Len(functions) \in Nat /\ Len(functions') \in Nat /\ Len(functions) <= Len(functions')
      /\ DOMAIN functions \subseteq DOMAIN functions'
      /\ at \in DOMAIN functions'
  <2>1. /\ DOMAIN functions = 1 .. Len(functions) /\ Len(functions) \in Nat
        /\ DOMAIN functions' = 1 .. Len(functions') /\ Len(functions') \in Nat
        /\ Len(functions) <= Len(functions')
    BY <1>1, <1>4, ModuleFacts DEF Extended
  <2>2. DOMAIN functions \subseteq DOMAIN functions'
    BY <2>1
  <2> QED BY <1>3, <2>1, <2>2
<1>6. F'.name = F.name /\ F'.args = F.args /\ (Empty(F)' <=> Empty(F))
  <2>1. F' = functions'[at] /\ F = functions[at] /\ (Empty(F)' <=> Empty(F'))
    BY <1>2 DEF F, Empty
  <2> QED BY <1>3, <1>4, <2>1 DEF Extended
<1>7. TypeOK'
  <2>1. Value(arg, round) \in Values
    BY <1>1, <1>3, ValueType DEF TypeOK
  <2>2. taintSources' \in Seq(Values)
    <3>1. taintSources \in Seq(Values)
      BY <1>1 DEF TypeOK
    <3>2. Append(taintSources, Value(arg, round)) \in Seq(Values)
      BY <2>1, <3>1, AppendProperties
    <3> QED BY <1>2, <3>1, <3>2
  <2>3. \A i \in DOMAIN functions' :
          /\ i \in Originals => /\ functions'[i].name = initial[i].name
                                /\ functions'[i].args = initial[i].args
                                /\ Empty(functions'[i]) <=> Empty(initial[i])
          /\ i \notin Originals => functions'[i] = Declaration(functions'[i].name)
    <3>1. at \in Originals
      BY <1>2, CalleeDeclared
    <3>2. Originals \subseteq DOMAIN functions
      BY <1>1 DEF TypeOK
    <3> QED BY <1>1, <1>4, <3>1, <3>2 DEF Extended, TypeOK
  <2>4. Recorded' \subseteq {i \in DOMAIN functions' : IsTaintSource(functions'[i].name)}
    BY <1>1, <1>2, <1>4, <1>5 DEF TypeOK, Extended, Recorded
  <2>5. at' \in 1 .. Len(functions') + 1
    BY <1>2, <1>5
  <2>6. arg' \in 1 .. F'.args + 1
    BY <1>2, <1>3, <1>6
  <2>7. initial' \in Modules /\ functions' \in Seq(Function) /\ Originals' \subseteq DOMAIN functions' /\ Originals' = Originals
    BY <1>1, <1>2, <1>4, <1>5 DEF TypeOK, Originals, Extended
  <2>8. round' \in {1, 2} /\ pc' \in {"args", "return"} /\ at' \in DOMAIN functions'
    BY <1>1, <1>2, <1>5 DEF TypeOK
  <2> QED BY <1>2, <2>2, <2>3, <2>4, <2>5, <2>6, <2>7, <2>8 DEF TypeOK
<1>8. ControlInv'
  BY <1>2, <1>3, <1>6 DEF ControlInv
<1>9. CalleesInv'
  <2>1. NamesOf(initial)' = NamesOf(initial) /\ AllCallees' = AllCallees /\ Originals' = Originals
    BY <1>2 DEF NamesOf, AllCallees, Originals
  <2>2. NamesOf(functions)' = NamesOf(functions) \cup {Name}
    BY <1>4 DEF Extended
  <2>3. \A i : Walked(i)' <=> Walked(i)
    BY <1>2 DEF Walked
  <2>4. \A i \in Originals : Walked(i) => Callees(initial[i]) \subseteq NamesOf(functions)'
    BY <1>1, <2>2 DEF CalleesInv
  <2>5. pc' = "args" => \A n \in 1 .. arg' - 1 : ArgName(F'.name, n) \in NamesOf(functions)'
    <3> SUFFICES ASSUME pc' = "args", NEW n \in 1 .. arg' - 1
                 PROVE  ArgName(F.name, n) \in NamesOf(functions)'
      BY <1>6
    <3>1. arg' - 1 = arg
      BY <1>2, <1>3
    <3>2. CASE n = arg
      BY <2>2, <3>2 DEF Name
    <3>3. CASE n # arg
      <4>1. n \in 1 .. arg - 1
        BY <1>3, <3>1, <3>3
      <4> QED BY <1>1, <1>2, <2>2, <4>1 DEF CalleesInv
    <3> QED BY <3>2, <3>3
  <2>6. pc' = "return" => ArgName(F'.name, 1) \in NamesOf(functions)'
    <3>1. pc' = "return" => arg = 1
      BY <1>1, <1>2 DEF ControlInv
    <3> QED BY <1>6, <2>2, <3>1 DEF Name
  <2>7. NamesOf(functions)' \subseteq NamesOf(initial) \cup AllCallees
    BY <1>1, <1>3, <2>2 DEF CalleesInv
  <2>8. \A i, j \in DOMAIN functions' : functions'[i].name = functions'[j].name => i = j
    BY <1>4 DEF Extended
  <2> QED BY <1>2, <2>1, <2>3, <2>4, <2>5, <2>6, <2>7, <2>8 DEF CalleesInv
<1>10. RecordInv'
  <2>1. Recorded' = Recorded /\ \A i : Walked(i)' <=> Walked(i)
    BY <1>2 DEF Recorded, Walked
  <2>2. \A i \in DOMAIN functions' : i \notin DOMAIN functions => ~Walked(i)
    <3>1. round = 2 => DOMAIN functions' = DOMAIN functions
      BY <1>4 DEF Extended
    <3>2. at \in 1 .. Len(functions)
      BY <1>3, <1>5
    <3>3. \A i \in DOMAIN functions' : i \notin DOMAIN functions => ~(i < at)
      BY <1>5, <3>2
    <3> QED BY <3>1, <3>3 DEF Walked
  <2>3. Recorded = {i \in DOMAIN functions' : IsTaintSource(functions'[i].name) /\ Walked(i)}
    <3>1. Recorded = {i \in DOMAIN functions : IsTaintSource(functions[i].name) /\ Walked(i)}
      BY <1>1 DEF RecordInv
    <3>2. \A i \in DOMAIN functions : functions'[i].name = functions[i].name
      BY <1>4 DEF Extended
    <3> QED BY <1>5, <2>2, <3>1, <3>2
  <2>4. \A i \in Recorded : functionsToTaintSources[i] = RecordedCalls(functions'[i])
    <3> SUFFICES ASSUME NEW i \in Recorded PROVE RecordedCalls(functions'[i]) = RecordedCalls(functions[i])
      BY <1>1 DEF RecordInv
    <3>1. i \in DOMAIN functions
      BY <1>1 DEF TypeOK
    <3> QED BY <1>4, <3>1 DEF Extended, RecordedCalls
  <2>5. Empty(F)' => taintSources' = <<>>
    BY <1>1, <1>2, <1>6 DEF RecordInv
  <2>6. pc' = "args" /\ round' = 1 => taintSources' = [n \in 1 .. arg' - 1 |-> Value(n, 1)]
    <3> SUFFICES ASSUME pc' = "args", round = 1
                 PROVE  Append(taintSources, Value(arg, 1)) = [n \in 1 .. arg |-> Value(n, 1)]
      <4>1. pc' = "args" => arg' - 1 = arg /\ taintSources' = Append(taintSources, Value(arg, round))
        BY <1>2, <1>3
      <4> QED BY <1>2, <4>1
    <3> DEFINE s == taintSources
               t == [n \in 1 .. arg |-> Value(n, 1)]
               a == Append(s, Value(arg, 1))
    <3>1. s = [n \in 1 .. arg - 1 |-> Value(n, 1)] /\ s \in Seq(Values)
      BY <1>1, <1>2 DEF RecordInv, TypeOK
    <3>2. DOMAIN s = 1 .. arg - 1 /\ Len(s) = arg - 1
      <4>1. DOMAIN s = 1 .. arg - 1
        BY <3>1
      <4> HIDE DEF s
      <4>2. Len(s) \in Nat /\ DOMAIN s = 1 .. Len(s)
        BY <3>1, LenProperties
      <4> QED BY <1>3, <4>1, <4>2
    <3>3. \A n \in 1 .. arg : Value(n, 1) \in Values
      BY <1>3, ValueType
    <3>4. a \in Seq(Values) /\ Len(a) = arg /\ a[arg] = Value(arg, 1) /\ \A n \in 1 .. arg - 1 : a[n] = s[n]
      <4> HIDE DEF s
      <4>1. /\ a \in Seq(Values) /\ Len(a) = Len(s) + 1
            /\ \A n \in 1 .. Len(s) : a[n] = s[n]
            /\ a[Len(s) + 1] = Value(arg, 1)
        BY <1>3, <3>1, <3>3, AppendProperties
      <4>2. Len(s) + 1 = arg
        BY <1>3, <3>2
      <4> HIDE DEF a
      <4> QED BY <3>2, <4>1, <4>2
    <3>5. \A n \in 1 .. arg : a[n] = Value(n, 1)
      <4>1. \A n \in 1 .. arg - 1 : a[n] = Value(n, 1)
        BY <3>1, <3>4
      <4> HIDE DEF a, s
      <4> QED BY <1>3, <3>4, <4>1
    <3>6. a \in [1 .. arg -> Values]
      <4> HIDE DEF a, s
      <4> QED BY <3>4, LenProperties
    <3> HIDE DEF a, s
    <3> QED BY <3>5, <3>6 DEF a, s
  <2> QED BY <1>2, <2>1, <2>3, <2>4, <2>5, <2>6 DEF RecordInv
<1> QED
  BY <1>7, <1>8, <1>9, <1>10

\* A call is put into a body: the arguments before n had their calls, and now n has
\* its own; or all had one before, and nothing reads this one.
LEMMA BodyWithCall ==
  ASSUME NEW f \in Function, NEW o \in Function, ~Empty(f), ~Empty(o),
         NEW n \in 1 .. f.args, NEW r \in {1, 2},
         Shape(f, o), Replaced(f, o, IF r = 1 THEN n - 1 ELSE f.args)
  PROVE  LET g == WithCall(f, n, Value(n, r)) IN
         /\ Shape(g, o)
         /\ Replaced(g, o, IF r = 1 THEN n ELSE f.args)
<1> DEFINE call == Value(n, r)
           g == WithCall(f, n, call)
           l == Len(f.entry)
           m == Len(o.entry)
<1>1. n \in Nat \ {0} /\ f.args \in Nat /\ call \in Values /\ call.round = r
  <2>1. f.args \in Nat
    BY DEF Function
  <2> QED BY <2>1, ValueType
<1>2. /\ g \in Function /\ g.args = f.args
      /\ Len(g.entry) = l + 1
      /\ \A p \in 1 .. l - 1 : /\ g.entry[p].def = f.entry[p].def
                               /\ g.entry[p].uses = ReplaceUses(f.entry[p].uses, n, call)
      /\ g.entry[l] = [def |-> call, uses |-> {}]
      /\ g.entry[l + 1].def = f.entry[l].def
      /\ UsedValues(g) = ReplaceUses(UsedValues(f), n, call)
  BY <1>1, WithCallShape, WithCallUses
<1>3. l \in Nat \ {0} /\ m \in Nat \ {0} /\ m <= l
  BY UsedValuesMembers DEF Shape
<1>4. \A p \in 1 .. l : f.entry[p].uses \in SUBSET Values
  BY UsedValuesMembers
<1> HIDE DEF call, g
<1>5. Shape(g, o)
  <2>1. \A p \in 1 .. m - 1 : g.entry[p].def = Nothing /\ (g.entry[p].uses = {} <=> o.entry[p].uses = {})
    <3> SUFFICES ASSUME NEW p \in 1 .. m - 1
                 PROVE  g.entry[p].def = Nothing /\ (g.entry[p].uses = {} <=> o.entry[p].uses = {})
      OBVIOUS
    <3>1. p \in 1 .. l - 1 /\ p \in 1 .. l
      BY <1>3
    <3>2. g.entry[p].uses = {} <=> f.entry[p].uses = {}
      <4>1. g.entry[p].uses = ReplaceUses(f.entry[p].uses, n, call)
        BY <1>2, <3>1
      <4>2. n \in Nat /\ call \in Values /\ f.entry[p].uses \in SUBSET Values
        BY <1>1, <1>4, <3>1
      <4> QED BY <4>1, <4>2, ReplaceUsesMembers
    <3> QED BY <1>2, <3>1, <3>2 DEF Shape
  <2>2. \A p \in m .. l : g.entry[p].uses = {} /\ g.entry[p].def.round # 0
    <3> SUFFICES ASSUME NEW p \in m .. l PROVE g.entry[p].uses = {} /\ g.entry[p].def.round # 0
      OBVIOUS
    <3>1. CASE p = l
      BY <1>1, <1>2, <3>1
    <3>2. CASE p # l
      <4>1. p \in m .. l - 1 /\ p \in 1 .. l - 1
        BY <1>3, <3>2
      <4>2. ReplaceUses({}, n, call) = {}
        BY DEF ReplaceUses
      <4> QED BY <1>2, <4>1, <4>2 DEF Shape
    <3> QED BY <3>1, <3>2
  <2>3. g.entry[Len(g.entry)].def = Nothing
    BY <1>2 DEF Shape
  <2>4. Len(g.entry) - 1 = l /\ m <= Len(g.entry)
    <3>1. Len(g.entry) = l + 1
      BY <1>2
    <3> QED BY <1>3, <3>1
  <2> QED BY <2>1, <2>2, <2>3, <2>4 DEF Shape
<1>6. \A p \in m .. l - 1 : g.entry[p].def = f.entry[p].def /\ p \in m .. l
  BY <1>2, <1>3
<1>7. UsedValues(f) \in SUBSET Values
  BY UsedValuesMembers
<1>8. CASE r = 1
  <2>1. /\ UsedValues(f) \subseteq {Value(j, 1) : j \in 1 .. n - 1} \cup {Value(j, 0) : j \in n .. f.args}
        /\ \A j \in 1 .. n - 1 : \E p \in m .. l - 1 : f.entry[p].def = Value(j, 1)
    <3>1. (n - 1) + 1 = n
      BY <1>1
    <3> QED BY <1>8, <3>1 DEF Replaced
  <2>2. call = Value(n, 1)
    BY <1>8 DEF call
  <2>3. UsedValues(g) \subseteq {Value(j, 1) : j \in 1 .. n} \cup {Value(j, 0) : j \in n + 1 .. g.args}
    <3> SUFFICES ASSUME NEW v \in UsedValues(g), v \notin {Value(j, 1) : j \in 1 .. n}
                 PROVE  v \in {Value(j, 0) : j \in n + 1 .. f.args}
      BY <1>2
    <3>1. v # call
      BY <1>1, <2>2
    <3>2. v \in UsedValues(f) /\ v # Value(n, 0)
      BY <1>1, <1>2, <1>7, <3>1, ReplaceUsesMembers
    <3>3. v \notin {Value(j, 1) : j \in 1 .. n - 1}
      BY <1>1
    <3>4. PICK j \in n .. f.args : v = Value(j, 0)
      BY <2>1, <3>2, <3>3
    <3>5. j \in n + 1 .. f.args
      BY <1>1, <3>2, <3>4
    <3> QED BY <3>4, <3>5
  <2>4. \A j \in 1 .. n : \E p \in m .. l : g.entry[p].def = Value(j, 1)
    <3> SUFFICES ASSUME NEW j \in 1 .. n PROVE \E p \in m .. l : g.entry[p].def = Value(j, 1)
      OBVIOUS
    <3>1. CASE j = n
      BY <1>2, <1>3, <2>2, <3>1
    <3>2. CASE j # n
      <4>1. j \in 1 .. n - 1
        BY <1>1, <3>2
      <4>2. PICK p \in m .. l - 1 : f.entry[p].def = Value(j, 1)
        BY <2>1, <4>1
      <4> QED BY <1>6, <4>2
    <3> QED BY <3>1, <3>2
  <2>5. Replaced(g, o, n)
    <3>1. Len(g.entry) - 1 = l
      BY <1>2, <1>3
    <3> QED BY <2>3, <2>4, <3>1 DEF Replaced
  <2> QED BY <1>5, <1>8, <2>5 DEF g, call
<1>9. CASE r = 2
  <2>1. /\ UsedValues(f) \subseteq {Value(j, 1) : j \in 1 .. f.args} \cup {Value(j, 0) : j \in f.args + 1 .. f.args}
        /\ \A j \in 1 .. f.args : \E p \in m .. l - 1 : f.entry[p].def = Value(j, 1)
    BY <1>9 DEF Replaced
  <2>2. Value(n, 0) \notin UsedValues(f)
    BY <1>1, <2>1 DEF Value
  <2>3. UsedValues(g) = UsedValues(f)
    BY <1>1, <1>2, <1>7, <2>2, ReplaceUsesMembers
  <2>4. \A j \in 1 .. f.args : \E p \in m .. l : g.entry[p].def = Value(j, 1)
    BY <1>6, <2>1
  <2>5. Replaced(g, o, f.args)
    <3>1. Len(g.entry) - 1 = l
      BY <1>2, <1>3
    <3> QED BY <1>2, <2>1, <2>3, <2>4, <3>1 DEF Replaced
  <2> QED BY <1>5, <1>9, <2>5 DEF g, call
<1> QED
  BY <1>8, <1>9

LEMMA TaintArgumentKeeps == IInv /\ TaintArgument => IInv'
<1> SUFFICES ASSUME IInv, TaintArgument PROVE IInv'
  OBVIOUS
<1>1. TypeOK /\ BodiesInv
  BY DEF IInv
<1>2. /\ initial' = initial /\ round' = round /\ at' = at /\ arg' = arg + 1
      /\ pc = "args" /\ pc' = "args" /\ arg <= F.args /\ ~Empty(F)
  BY DEF TaintArgument
<1>3. /\ at \in Originals /\ arg \in 1 .. F.args /\ arg \in Nat /\ F \in Function /\ F.args \in Nat
      /\ initial[at] \in Function /\ IsTaintSource(F.name) /\ at \in DOMAIN functions
  BY <1>1, <1>2, CalleeDeclared, ModuleFacts DEF TypeOK, F
<1>4. Extended /\ functions'[at] = WithCall(F, arg, Value(arg, round))
  BY TaintArgumentExtends
<1>5. \A i \in Originals : Marked(i)' <=> Marked(i)
  <2>1. \A i \in Originals : i \in DOMAIN functions
    BY <1>1 DEF TypeOK
  <2> QED BY <1>4, <2>1 DEF Extended, Marked
<1>6. Marked(at) /\ Tainted(at) = IF round = 1 THEN arg - 1 ELSE F.args
  <2>1. round # 1 => round = 2
    BY <1>1 DEF TypeOK
  <2>2. Walked(at) <=> round = 2
    BY <1>1, <1>3, ModuleFacts DEF Walked
  <2> QED BY <1>2, <1>3, <2>1, <2>2 DEF Marked, Tainted, F
<1>7. \A i : i = at => Tainted(i)' = IF round = 1 THEN arg ELSE F.args
  <2> SUFFICES ASSUME NEW i, i = at PROVE Tainted(i)' = IF round = 1 THEN arg ELSE F.args
    OBVIOUS
  <2>1. round # 1 => round = 2
    BY <1>1 DEF TypeOK
  <2>2. Walked(i)' <=> round = 2
    BY <1>1, <1>2, <1>3, ModuleFacts DEF Walked
  <2>3. functions'[i].args = F.args
    BY <1>3, <1>4 DEF Extended, F
  <2>4. arg' - 1 = arg
    BY <1>2, <1>3
  <2> QED BY <1>2, <2>1, <2>2, <2>3, <2>4 DEF Tainted
<1>8. \A i : i = at => Shape(functions'[i], initial[i]) /\ Replaced(functions'[i], initial[i], Tainted(i)')
  <2>1. Shape(F, initial[at]) /\ Replaced(F, initial[at], IF round = 1 THEN arg - 1 ELSE F.args)
    BY <1>1, <1>3, <1>6 DEF BodiesInv, F
  <2>2. ~Empty(initial[at]) /\ round \in {1, 2}
    BY <1>1, <1>2, <1>3 DEF TypeOK, F
  <2> QED BY <1>2, <1>3, <1>4, <1>7, <2>1, <2>2, BodyWithCall
<1>9. \A i \in Originals : i # at => Tainted(i)' = Tainted(i) /\ functions'[i] = functions[i]
  <2>1. \A i \in Originals : i \in DOMAIN functions
    BY <1>1 DEF TypeOK
  <2> QED BY <1>2, <1>4, <2>1 DEF Extended, Tainted, Walked
<1>10. BodiesInv'
  <2> SUFFICES ASSUME NEW i \in Originals
               PROVE  IF Marked(i)'
                      THEN Shape(functions'[i], initial[i]) /\ Replaced(functions'[i], initial[i], Tainted(i)')
                      ELSE functions'[i] = initial[i]
    <3>1. Originals' = Originals /\ initial' = initial
      BY <1>2 DEF Originals
    <3> QED BY <3>1 DEF BodiesInv
  <2>1. CASE i = at
    BY <1>5, <1>6, <1>8, <2>1
  <2>2. CASE i # at
    BY <1>1, <1>5, <1>9, <2>2 DEF BodiesInv
  <2> QED BY <2>1, <2>2
<1> QED
  BY <1>10, ExtendedKeeps DEF IInv

LEMMA LeaveEmptyKeeps == IInv /\ LeaveEmpty => IInv'
<1> SUFFICES ASSUME IInv, LeaveEmpty PROVE IInv'
  OBVIOUS
<1>1. TypeOK /\ BodiesInv
  BY DEF IInv
<1>2. /\ initial' = initial /\ round' = round /\ at' = at
      /\ pc = "args" /\ pc' = "return" /\ arg <= F.args /\ Empty(F)
  BY DEF LeaveEmpty
<1>3. \A i \in Originals : functions'[i] = functions[i]
  <2>1. functions' = List
    BY DEF LeaveEmpty, List, Name
  <2>2. \A i \in Originals : i \in DOMAIN functions
    BY <1>1 DEF TypeOK
  <2> QED BY <1>2, <2>1, <2>2, CalleeDeclared
<1>4. \A i \in Originals : Marked(i)' <=> Marked(i)
  BY <1>3 DEF Marked
<1>5. \A i \in Originals : Marked(i) => Tainted(i)' = Tainted(i)
  BY <1>2, <1>3 DEF Marked, Tainted, Walked, F
<1>6. BodiesInv'
  BY <1>1, <1>2, <1>3, <1>4, <1>5 DEF BodiesInv, Originals
<1> QED
  BY <1>6, ExtendedKeeps DEF IInv

THEOREM TaintMarkingInvariant == Spec => []IInv
<1>1. Init => IInv
  BY InitialInvariant
<1>2. IInv /\ [Next]_vars => IInv'
  <2> SUFFICES ASSUME IInv, [Next]_vars PROVE IInv'
    OBVIOUS
  <2>1. CASE VisitOther
    BY <2>1, VisitOtherKeeps
  <2>2. CASE VisitTaintSource
    BY <2>2, VisitTaintSourceKeeps
  <2>3. CASE TaintArgument
    BY <2>3, TaintArgumentKeeps
  <2>4. CASE LeaveEmpty
    BY <2>4, LeaveEmptyKeeps
  <2>5. CASE Return
    BY <2>5, ReturnKeeps
  <2>6. CASE EndRound
    BY <2>6, EndRoundKeeps
  <2>7. CASE UNCHANGED vars
    <3>1. /\ F' = F /\ Originals' = Originals /\ Recorded' = Recorded /\ AllCallees' = AllCallees
          /\ NamesOf(functions)' = NamesOf(functions) /\ NamesOf(initial)' = NamesOf(initial)
          /\ \A i : (Walked(i)' <=> Walked(i)) /\ Tainted(i)' = Tainted(i) /\ (Marked(i)' <=> Marked(i))
      BY <2>7 DEF vars, F, Originals, Recorded, AllCallees, NamesOf, Walked, Tainted, Marked
    <3>2. TypeOK' /\ ControlInv'
      BY <2>7, <3>1 DEF vars, IInv, TypeOK, ControlInv
    <3>3. CalleesInv' /\ RecordInv' /\ BodiesInv'
      BY <2>7, <3>1 DEF vars, IInv, CalleesInv, RecordInv, BodiesInv
    <3> QED BY <3>2, <3>3 DEF IInv
  <2> QED BY <2>1, <2>2, <2>3, <2>4, <2>5, <2>6, <2>7 DEF Next, Step, Terminated
<1> QED
  BY <1>1, <1>2, PTL DEF Spec

-----------------------------------------------------------------------------
(***************************************************************************)
(* What follows from it.                                                   *)
(***************************************************************************)

\* Whatever module the marking starts from, its state is of the stated type.
THEOREM TaintMarkingTypeOK == Spec => []TypeOK
BY TaintMarkingInvariant, PTL DEF IInv

\* Whatever the module, the callees declared are the ones its taint sources'
\* arguments have (getTaintSource), one of each name, and all of them after run's loop.
THEOREM TaintMarkingDeclarationsExact == Spec => []DeclarationsExact
<1>1. IInv => DeclarationsExact
  <2> SUFFICES ASSUME IInv PROVE DeclarationsExact
    OBVIOUS
  <2>1. round = 2 => AllCallees \subseteq NamesOf(functions)
    BY DEF IInv, CalleesInv, Walked, AllCallees
  <2> QED BY <2>1 DEF IInv, CalleesInv, DeclarationsExact
<1> QED
  BY <1>1, TaintMarkingInvariant, PTL

\* In initRange's loop a taint source with a body reads its recorded calls alone.
LEMMA MarkedInSecondRound ==
  ASSUME IInv, round = 2, NEW i \in Originals, Marked(i)
  PROVE  /\ Shape(functions[i], initial[i])
         /\ UsedValues(functions[i]) \subseteq {Value(n, 1) : n \in 1 .. functions[i].args}
         /\ \A n \in 1 .. functions[i].args : \E p \in Len(initial[i].entry) .. Len(functions[i].entry) - 1 :
              functions[i].entry[p].def = Value(n, 1)
<1>1. Shape(functions[i], initial[i]) /\ Replaced(functions[i], initial[i], functions[i].args)
  BY DEF IInv, BodiesInv, Tainted, Walked
<1>2. i \in DOMAIN functions /\ functions[i].args \in Nat
  BY ModuleFacts DEF IInv, TypeOK
<1> DEFINE f == functions[i]
<1>3. {Value(n, 0) : n \in f.args + 1 .. f.args} = {}
  BY <1>2
<1> QED
  BY <1>1, <1>3 DEF Replaced

LEMMA UnmarkedUses ==
  ASSUME IInv, NEW i \in DOMAIN functions, Empty(functions[i])
  PROVE  UsedValues(functions[i]) = {}
<1>1. CASE i \in Originals
  <2>1. functions[i] = initial[i] /\ WellFormedFunction(initial[i])
    BY <1>1, ModuleFacts DEF IInv, BodiesInv, Marked
  <2>2. functions[i].later = {} /\ functions[i].entry = <<>>
    BY <2>1 DEF WellFormedFunction, Empty
  <2> QED BY <2>2 DEF UsedValues
<1>2. CASE i \notin Originals
  <2>1. functions[i] = Declaration(functions[i].name) /\ functions[i].name \in Names
    BY <1>2, ModuleFacts DEF IInv, TypeOK
  <2> QED BY <2>1, DeclarationType
<1> QED
  BY <1>1, <1>2

\* Whatever the module, run's loop leaves one recorded call per argument of a taint
\* source with a body, and all that used the argument reads it from there on.
THEOREM TaintMarkingRecordedCallsUsed == Spec => []RecordedCallsUsed
<1>1. IInv => RecordedCallsUsed
  <2> SUFFICES ASSUME IInv, round = 2 PROVE RecordedCallsUsed
    BY DEF RecordedCallsUsed
  <2>1. /\ Recorded = {i \in DOMAIN functions : IsTaintSource(functions[i].name)}
        /\ \A i \in Recorded : functionsToTaintSources[i] = RecordedCalls(functions[i])
    BY DEF IInv, RecordInv, Walked
  <2>2. ASSUME NEW i \in Recorded
        PROVE  UsedValues(functions[i]) \subseteq ToSet(RecordedCalls(functions[i]))
    <3> DEFINE f == functions[i]
    <3>1. i \in DOMAIN functions /\ IsTaintSource(f.name)
      BY <2>1
    <3>2. CASE Empty(f)
      BY <3>1, <3>2, UnmarkedUses
    <3>3. CASE ~Empty(f)
      <4>1. i \in Originals
        BY <3>1, <3>3, ModuleFacts, DeclarationType DEF IInv, TypeOK
      <4>2. UsedValues(f) \subseteq {Value(n, 1) : n \in 1 .. f.args}
        BY <3>1, <3>3, <4>1, MarkedInSecondRound DEF Marked
      <4>3. RecordedCalls(f) = [n \in 1 .. f.args |-> Value(n, 1)]
        BY <3>3 DEF RecordedCalls
      <4>4. ToSet(RecordedCalls(f)) = {Value(n, 1) : n \in 1 .. f.args}
        BY <4>3 DEF ToSet
      <4> QED BY <4>2, <4>4
    <3> QED BY <3>2, <3>3
  <2> QED BY <2>1, <2>2 DEF RecordedCallsUsed, RecordedCalls
<1> QED
  BY <1>1, TaintMarkingInvariant, PTL

\* Whatever the module, the pass breaks SSA in exactly the functions that are marked and
\* use an argument in their entry block before its terminator.
THEOREM TaintMarkingDominanceExact == Spec => []DominanceExact
<1>1. IInv => DominanceExact
  <2> SUFFICES ASSUME IInv, pc = "done", NEW i \in Originals
               PROVE  Dominated(functions[i]) <=> ~(IsTaintSource(initial[i].name) /\ UsesEarly(initial[i]))
    BY DEF DominanceExact
  <2> DEFINE f == functions[i]
             o == initial[i]
             l == Len(f.entry)
             m == Len(o.entry)
  <2>1. /\ round = 2 /\ i \in DOMAIN functions
        /\ f \in Function /\ o \in Function /\ WellFormedFunction(o)
        /\ f.name = o.name /\ f.args = o.args /\ (Empty(f) <=> Empty(o)) /\ f.args \in Nat
    BY ModuleFacts DEF IInv, ControlInv, TypeOK
  <2>2. /\ DOMAIN f.entry = 1 .. l /\ l \in Nat /\ DOMAIN o.entry = 1 .. m /\ m \in Nat
        /\ \A p \in 1 .. l : f.entry[p].uses \subseteq UsedValues(f)
        /\ \A p \in 1 .. m : o.entry[p].uses \subseteq UsedValues(o)
        /\ Empty(f) => l = 0
        /\ Empty(o) <=> m = 0
    BY <2>1, UsedValuesMembers
  <2>3. CASE Marked(i)
    <3>1. /\ UsedValues(f) \subseteq {Value(n, 1) : n \in 1 .. f.args}
          /\ \A n \in 1 .. f.args : \E p \in m .. l - 1 : f.entry[p].def = Value(n, 1)
          /\ Shape(f, o)
      BY <2>1, <2>3, MarkedInSecondRound
    <3>2. m \in Nat \ {0} /\ m <= l /\ IsTaintSource(o.name)
      BY <2>1, <2>2, <2>3, <3>1 DEF Marked, Shape
    <3>3. ASSUME UsesEarly(o) PROVE ~Dominated(f)
      <4>1. PICK p \in 1 .. m : p < m /\ o.entry[p].uses # {}
        BY <2>2, <3>3 DEF UsesEarly
      <4>2. p \in 1 .. m - 1 /\ p \in 1 .. l
        BY <3>2, <4>1
      <4>3. f.entry[p].uses # {}
        BY <3>1, <4>1, <4>2 DEF Shape
      <4>4. PICK v : v \in f.entry[p].uses
        BY <4>3
      <4>5. PICK n \in 1 .. f.args : v = Value(n, 1)
        BY <2>2, <3>1, <4>2, <4>4
      <4>6. PICK q \in m .. l - 1 : f.entry[q].def = v
        BY <3>1, <4>5
      <4>7. q \in 1 .. l /\ ~(q < p)
        BY <3>2, <4>2, <4>6
      <4> QED BY <2>2, <4>2, <4>4, <4>6, <4>7 DEF Dominated
    <3>4. ASSUME ~UsesEarly(o), NEW p \in 1 .. l, NEW q \in 1 .. l, f.entry[p].def \in f.entry[q].uses
          PROVE  p < q
      <4>1. q = l
        <5>1. \A k \in 1 .. m - 1 : o.entry[k].uses = {}
          BY <2>2, <3>2, <3>4 DEF UsesEarly
        <5>2. \A k \in 1 .. m - 1 : f.entry[k].uses = {}
          BY <3>1, <5>1 DEF Shape
        <5>3. \A k \in m .. l - 1 : f.entry[k].uses = {}
          BY <3>1 DEF Shape
        <5> QED BY <3>2, <3>4, <5>2, <5>3
      <4>2. p # l
        <5>1. f.entry[l].def = Nothing
          BY <3>1 DEF Shape
        <5>2. Nothing \notin UsedValues(f)
          BY <3>1 DEF Nothing, Value
        <5> QED BY <2>2, <3>4, <5>1, <5>2
      <4> QED BY <2>2, <4>1, <4>2
    <3> QED BY <2>2, <3>2, <3>3, <3>4 DEF Dominated
  <2>4. CASE ~Marked(i)
    <3>1. f = o
      BY <2>4 DEF IInv, BodiesInv
    <3>2. Dominated(o)
      <4>1. \A p \in 1 .. m : o.entry[p].def = Nothing
        BY <2>1, <2>2 DEF WellFormedFunction
      <4>2. Nothing \notin UsedValues(o)
        BY <2>1, ValueType DEF WellFormedFunction, Nothing, Value
      <4> QED BY <2>2, <4>1, <4>2 DEF Dominated
    <3>3. ~(IsTaintSource(o.name) /\ UsesEarly(o))
      BY <2>1, <2>2, <2>4 DEF Marked, UsesEarly
    <3> QED BY <3>1, <3>2, <3>3
  <2> QED BY <2>3, <2>4
<1> QED
  BY <1>1, TaintMarkingInvariant, PTL

\* When no use is replaced the call is all that is new.
LEMMA DeadCall ==
  ASSUME NEW f \in Function, ~Empty(f), NEW n \in Nat, NEW call \in Values, Value(n, 0) \notin UsedValues(f)
  PROVE  WithCall(f, n, call) = [f EXCEPT !.entry = InsertCall(f.entry, call)]
<1> DEFINE l == Len(f.entry)
           e == InsertCall(f.entry, call)
           h == [i \in DOMAIN e |-> [e[i] EXCEPT !.uses = ReplaceUses(e[i].uses, n, call)]]
<1>1. f.entry \in Seq(Instructions) /\ f.entry # <<>> /\ l \in Nat \ {0} /\ f.later \in SUBSET Values
  BY UsedValuesMembers DEF Function, Empty
<1>2. /\ e \in Seq(Instructions) /\ Len(e) = l + 1
      /\ \A p \in 1 .. l - 1 : e[p] = f.entry[p]
      /\ e[l] = [def |-> call, uses |-> {}]
      /\ e[l + 1] = f.entry[l]
  BY <1>1, InsertCallShape
<1>3. DOMAIN e = 1 .. l + 1 /\ e \in [1 .. l + 1 -> Instructions]
  BY <1>1, <1>2, LenProperties
<1>4. \A p \in 1 .. l + 1 : e[p].uses \in SUBSET Values /\ Value(n, 0) \notin e[p].uses
  <2>1. \A p \in 1 .. l : f.entry[p].uses \subseteq UsedValues(f)
    BY UsedValuesMembers
  <2> SUFFICES ASSUME NEW p \in 1 .. l + 1
               PROVE  e[p].uses \in SUBSET Values /\ Value(n, 0) \notin e[p].uses
    OBVIOUS
  <2>2. e[p].uses \in SUBSET Values
    BY <1>3 DEF Instructions
  <2>3. CASE p < l
    <3>1. p \in 1 .. l - 1 /\ p \in 1 .. l
      BY <1>1, <2>3
    <3> HIDE DEF e
    <3> QED BY <1>2, <2>1, <2>2, <3>1
  <2>4. CASE p = l
    BY <1>2, <2>2, <2>4
  <2>5. CASE p = l + 1
    BY <1>1, <1>2, <2>1, <2>2, <2>5
  <2> QED BY <1>1, <2>3, <2>4, <2>5
<1>5. \A p \in 1 .. l + 1 : [e[p] EXCEPT !.uses = ReplaceUses(e[p].uses, n, call)] = e[p]
  <2> SUFFICES ASSUME NEW p \in 1 .. l + 1
               PROVE  [e[p] EXCEPT !.uses = ReplaceUses(e[p].uses, n, call)] = e[p]
    OBVIOUS
  <2>1. ReplaceUses(e[p].uses, n, call) = e[p].uses
    BY <1>4, ReplaceUsesMembers
  <2>2. e[p] \in [def : Values, uses : SUBSET Values]
    BY <1>3 DEF Instructions
  <2> HIDE DEF e
  <2> QED BY <2>1, <2>2
<1>6. h = e
  <2>1. h = [p \in 1 .. l + 1 |-> e[p]]
    BY <1>3, <1>5, Zenon
  <2> HIDE DEF h, e
  <2> QED BY <1>3, <2>1
<1>7. ReplaceUses(f.later, n, call) = f.later
  BY <1>1, ReplaceUsesMembers, UsedValuesMembers
<1>8. WithCall(f, n, call) = [f EXCEPT !.entry = h, !.later = ReplaceUses(f.later, n, call)]
  BY DEF WithCall
<1> DEFINE k == [f EXCEPT !.entry = e]
<1>9. WithCall(f, n, call) = [k EXCEPT !.later = f.later]
  BY <1>6, <1>7, <1>8
<1>10. k.later = f.later /\ k \in [name : Names, args : Nat, entry : Seq(Instructions), later : SUBSET Values]
  <2> HIDE DEF e
  <2> QED BY <1>2 DEF Function
<1> HIDE DEF k
<1>11. [k EXCEPT !.later = f.later] = k
  BY <1>10
<1> QED
  BY <1>9, <1>11 DEF k

\* Whatever the module, a step of initRange's loop changes at most the entry block of one
\* function, by a call that nothing uses.
THEOREM TaintMarkingSecondRoundIdle == Spec => SecondRoundIdle
<1> DEFINE Idle ==
      round = 2 =>
        /\ functionsToTaintSources' = functionsToTaintSources
        /\ DOMAIN functions' = DOMAIN functions
        /\ \A i \in DOMAIN functions :
             functions'[i] = functions[i] \/ AddsDeadCall(functions[i], functions'[i])
<1>1. IInv /\ [Next]_vars => Idle
  <2> SUFFICES ASSUME IInv, [Next]_vars, round = 2 PROVE Idle
    OBVIOUS
  <2>1. CASE TaintArgument
    <3> DEFINE call == Value(arg, 2)
               g == WithCall(F, arg, call)
               l == Len(F.entry)
    <3>1. /\ at \in Originals /\ F \in Function /\ arg \in Nat /\ ~Empty(F) /\ IsTaintSource(F.name)
          /\ pc = "args" /\ arg <= F.args /\ List = functions
      BY <2>1, CalleeDeclared DEF TaintArgument
    <3>2. UsedValues(F) \subseteq {Value(n, 1) : n \in 1 .. F.args} /\ F.args \in Nat
      BY <3>1, MarkedInSecondRound, ModuleFacts DEF Marked, F, IInv, TypeOK
    <3>3. Extended /\ functions'[at] = g
      BY <2>1, TaintArgumentExtends
    <3>4. call \in Values /\ Value(arg, 0) \notin UsedValues(F) /\ call \notin UsedValues(F)
      <4>1. \A n : Value(n, 1) # Value(arg, 0) /\ Value(n, 1) # Value(arg, 2)
        BY DEF Value
      <4> QED BY <3>1, <3>2, <4>1, ValueType
    <3>5. AddsDeadCall(F, g)
      <4>1. /\ g.entry[l] = [def |-> call, uses |-> {}]
            /\ l \in DOMAIN F.entry
        <5>1. g.entry[l] = [def |-> call, uses |-> {}]
          BY <3>1, <3>4, WithCallShape
        <5>2. DOMAIN F.entry = 1 .. l /\ l \in Nat /\ l # 0
          BY <3>1, UsedValuesMembers
        <5> QED BY <5>1, <5>2
      <4>2. g = [F EXCEPT !.entry = InsertCall(F.entry, call)]
        BY <3>1, <3>4, DeadCall
      <4>3. UsedValues(g) = UsedValues(F)
        <5>1. UsedValues(g) = ReplaceUses(UsedValues(F), arg, call)
          BY <3>1, <3>4, WithCallUses
        <5>2. UsedValues(F) \in SUBSET Values
          BY <3>1, UsedValuesMembers
        <5> HIDE DEF g, call
        <5> QED BY <3>1, <3>4, <5>1, <5>2, ReplaceUsesMembers
      <4>4. InsertCall(F.entry, call) = InsertAt(F.entry, l, g.entry[l])
        BY <4>1 DEF InsertCall
      <4>5. g = [F EXCEPT !.entry = InsertAt(F.entry, l, g.entry[l])]
        BY <4>2, <4>4
      <4>6. g.entry[l].uses = {} /\ g.entry[l].def \notin UsedValues(g)
        BY <3>4, <4>1, <4>3
      <4> HIDE DEF g, call
      <4> QED BY <4>1, <4>5, <4>6 DEF AddsDeadCall
    <3>6. functionsToTaintSources' = functionsToTaintSources
      BY <2>1 DEF TaintArgument
    <3> QED BY <3>3, <3>5, <3>6 DEF Extended, F
  <2>2. CASE LeaveEmpty
    <3>1. functions' = functions
      BY <2>2, CalleeDeclared DEF LeaveEmpty, List, Name
    <3> QED BY <2>2, <3>1 DEF LeaveEmpty
  <2>3. CASE VisitOther \/ VisitTaintSource \/ Return \/ EndRound \/ UNCHANGED vars
    BY <2>3 DEF VisitOther, VisitTaintSource, Return, EndRound, vars
  <2> QED BY <2>1, <2>2, <2>3 DEF Next, Step, Terminated
<1>2. [][IInv /\ [Next]_vars => Idle]_vars
  BY <1>1, PTL
<1> QED
  BY <1>1, TaintMarkingInvariant, PTL DEF Spec, SecondRoundIdle
=============================================================================
