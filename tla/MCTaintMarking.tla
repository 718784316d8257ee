--------------------------- MODULE MCTaintMarking ---------------------------
(***************************************************************************)
(* Modules of one or two functions with up to two arguments each, used in  *)
(* the entry block, by its terminator or in later blocks; some have been   *)
(* linked with a module the pass has been over.                            *)
(***************************************************************************)
EXTENDS TaintMarking

Name(base) == [base |-> base, path |-> <<>>]

Instruction(uses) == [def |-> Nothing, uses |-> uses]

Arguments(n) == {Value(k, 0) : k \in 1 .. n}

Defined(name, args) ==
  {[name |-> Name(name), args |-> args,
    entry |-> <<Instruction(early), Instruction(middle), Instruction(terminator)>>, later |-> later] :
     early \in SUBSET Arguments(args), middle \in {{}, Arguments(args)},
     terminator \in SUBSET Arguments(args), later \in SUBSET Arguments(args)}

Declared(name, args) ==
  [name |-> Name(name), args |-> args, entry |-> <<>>, later |-> {}]

Wrapper(name) ==
  [name |-> Name(name), args |-> 1, entry |-> <<Instruction({}), Instruction(Arguments(1))>>, later |-> {}]

AllModules ==
  {<<f, g>> : f \in UNION {Defined("sys_f", n) : n \in 0 .. 2},
              g \in {Declared("scanf", 2), Declared("printf", 1)}}
  \cup {<<f, g>> : f \in {Declared("scanf", n) : n \in 0 .. 2} \cup Defined("main", 1),
                   g \in {Wrapper("sys_f"), Wrapper("main"), Declared("sys_f", 1)}}
  \cup {<<Declaration(ArgName(Name("sys_f"), 1)), f, Declaration(ArgName(Name("scanf"), 1)), Declared("scanf", 2)>> :
          f \in Defined("sys_f", 2)}

MCModules == {m \in AllModules : \A i, j \in DOMAIN m : m[i].name = m[j].name => i = j}
=============================================================================
