---------------------------- MODULE SMTQueryAbs ----------------------------
(***************************************************************************)
(* What SMTQueryPass promises of a function: its checks are answered in    *)
(* layout order, each once, and by a constraint that is allowed for it.    *)
(***************************************************************************)
EXTENDS Naturals, Sequences, SequencesExt

CONSTANTS
  Functions,
  IsCheck(_),         \* which calls are checks
  Allowed(_, _, _)    \* by which constraints a check of a function may be answered

VARIABLES fn,       \* the function
          report    \* the answers so far

absVars == <<fn, report>>

Init == fn \in Functions /\ report = <<>>

ChecksOf(f) == {n \in DOMAIN f.calls : IsCheck(f.calls[n])}

Answered == {report[k].call : k \in DOMAIN report}

Answer ==
  LET answer == Last(report') IN
  /\ report' # report
  /\ report' = Append(report, answer)
  /\ answer.call \in ChecksOf(fn) \ Answered
  /\ \A n \in ChecksOf(fn) \ Answered : answer.call <= n
  /\ Allowed(fn, fn.calls[answer.call], answer.constraint)
  /\ UNCHANGED fn

Spec == Init /\ [][Answer]_absVars
=============================================================================
