---------------------------- MODULE Inclusions ----------------------------
(***************************************************************************)
(* What topc's cubic solver (src/src/semantic/solver/cubic) promises: the  *)
(* constraints are added one at a time, and after each one every variable  *)
(* holds the elements that all solutions give it, no more and no fewer.    *)
(***************************************************************************)
CONSTANTS
  Var,       \* what the constraints are about: nodes of the syntax tree
  Element    \* what the sets contain: functions

(* e is in v; from is within to; from is within to if e is in "in".        *)
ElementOf == [type : {"element"}, elem : Element, var : Var]
Subset == [type : {"subset"}, from : Var, to : Var]
Conditional == [type : {"conditional"}, elem : Element, in : Var, from : Var, to : Var]

Constraint == ElementOf \cup Subset \cup Conditional

Assignment == [Var -> SUBSET Element]

Holds(c, S) ==
  \/ c.type = "element" /\ c.elem \in S[c.var]
  \/ c.type = "subset" /\ S[c.from] \subseteq S[c.to]
  \/ c.type = "conditional" /\ (c.elem \in S[c.in] => S[c.from] \subseteq S[c.to])

Solves(S, constraints) == \A c \in constraints : Holds(c, S)

Below(S, T) == \A v \in Var : S[v] \subseteq T[v]

-----------------------------------------------------------------------------
VARIABLES
  asked,   \* the constraints added
  sol,     \* the elements found for each variable
  busy     \* a constraint is being added

ivars == <<asked, sol, busy>>

TypeOK ==
  /\ asked \in SUBSET Constraint
  /\ sol \in Assignment
  /\ busy \in BOOLEAN

Init ==
  /\ asked = {}
  /\ sol = [v \in Var |-> {}]
  /\ busy = FALSE

(* Elements are added that no solution can do without; the call returns    *)
(* only when nothing is missing.                                           *)
Advance ==
  /\ sol' \in Assignment
  /\ Below(sol, sol')
  /\ \A S \in Assignment : Solves(S, asked') /\ Below(sol, S) => Below(sol', S)
  /\ busy' \in BOOLEAN
  /\ busy' \/ Solves(sol', asked')

Ask(c) ==
  /\ ~busy
  /\ asked' = asked \cup {c}
  /\ Advance

Deduce ==
  /\ busy
  /\ asked' = asked
  /\ Advance

Next == (\E c \in Constraint : Ask(c)) \/ Deduce

Spec == Init /\ [][Next]_ivars

-----------------------------------------------------------------------------
(* Nothing is found that some solution does without, not even while a      *)
(* constraint is being added: no call is given a callee it cannot have.    *)
NeverTooMuch == \A S \in Assignment : Solves(S, asked) => Below(sol, S)

(* Between two additions the sets are the least solution: a call has       *)
(* exactly the callees that the constraints force on it.                   *)
LeastWhenSettled == ~busy => Solves(sol, asked) /\ NeverTooMuch
=============================================================================
