------------------------------- MODULE TopoSort -------------------------------
(***************************************************************************)
(* The order in which the functions are given their types (topoSort-       *)
(* NonRecursive): the functions that neither are nor call recursive ones   *)
(* are found by searches of the call graph, and are put out callees first  *)
(* by a depth-first search, one step of which is an action. The call graph *)
(* is given; what is done with the functions in that order (runPoly) is    *)
(* TypeInference's.                                                        *)
(***************************************************************************)
EXTENDS Pipeline, Naturals

VARIABLES
  callees,   \* the call graph: per function, what it may call
  reached,    \* per function, what it has been found to call, directly or not
  poly,      \* the functions that are generalised
  unmarked,  \* those of them that have not been visited
  visits,    \* the calls of topoVisit, the innermost last
  sorted     \* the functions that are still to be solved, callees first

sorting == <<callees, reached, poly, unmarked, visits, sorted>>
tvars == <<prog, phase, reason, sorting>>

CallGraph ==
  /\ callees \in [Names -> SUBSET Names]
  /\ prog.order \in Seq(Names)

-----------------------------------------------------------------------------
(* mayIndirectlyCall: f calls g, or something that may call g. The searches *)
(* for all pairs go on together, a call further at each step.              *)
OneFurther ==
  [f \in DOMAIN callees |-> reached[f] \cup UNION {callees[g] : g \in reached[f]}]

MayIndirectlyCall(f, g) == g \in reached[f]

(* recursiveFuncs.                                                         *)
Recursive == {f \in DOMAIN callees : MayIndirectlyCall(f, f)}

(* topoSortNonRecursive.                                                   *)
NonRecursive ==
  {f \in DOMAIN callees : \A r \in Recursive : f # r /\ ~MayIndirectlyCall(f, r)}

Search ==
  /\ phase = "search"
  /\ OneFurther # reached
  /\ reached' = OneFurther
  /\ UNCHANGED <<prog, phase, reason, callees, poly, unmarked, visits, sorted>>

(* setPoly, and the start of topoSort.                                     *)
StartSort ==
  /\ phase = "search"
  /\ OneFurther = reached
  /\ poly' = NonRecursive
  /\ unmarked' = NonRecursive
  /\ phase' = "sort"
  /\ UNCHANGED <<prog, reason, callees, reached, visits, sorted>>

-----------------------------------------------------------------------------
(* topoVisit of an unmarked function, called where the visits are those.   *)
TopoVisit(f, within) ==
  /\ unmarked' = unmarked \ {f}
  /\ visits' = Append(within, [fn |-> f, left |-> callees[f]])

(* topoSort takes the last of the unmarked functions.                      *)
VisitRoot ==
  /\ phase = "sort"
  /\ visits = <<>>
  /\ \E i \in DOMAIN prog.order :
       /\ prog.order[i] \in unmarked
       /\ \A j \in DOMAIN prog.order : i < j => prog.order[j] \notin unmarked
       /\ TopoVisit(prog.order[i], <<>>)
  /\ UNCHANGED <<prog, phase, reason, callees, reached, poly, sorted>>

(* The next of the callees, which are a set; a marked one returns at once. *)
VisitCallee ==
  /\ phase = "sort"
  /\ visits # <<>>
  /\ \E g \in Last(visits).left :
       LET rest == Append(Front(visits),
                          [fn |-> Last(visits).fn, left |-> Last(visits).left \ {g}])
       IN  IF g \in unmarked THEN TopoVisit(g, rest)
           ELSE visits' = rest /\ UNCHANGED unmarked
  /\ UNCHANGED <<prog, phase, reason, callees, reached, poly, sorted>>

(* Mutant: a deque, filled at the wrong end.                               *)
AddToFront(f) == sorted' = <<f>> \o sorted

AddToSorted(f) == sorted' = Append(sorted, f)

(* All callees have been visited.                                          *)
Leave ==
  /\ phase = "sort"
  /\ visits # <<>>
  /\ Last(visits).left = {}
  /\ AddToSorted(Last(visits).fn)
  /\ visits' = Front(visits)
  /\ UNCHANGED <<prog, phase, reason, callees, reached, poly, unmarked>>

EndSort ==
  /\ phase = "sort"
  /\ visits = <<>>
  /\ unmarked = {}
  /\ phase' = "stages"
  /\ UNCHANGED <<prog, reason, sorting>>

Sort == Search \/ StartSort \/ VisitRoot \/ VisitCallee \/ Leave \/ EndSort

(* runPoly goes over the functions in that order.                          *)
TakeNext ==
  /\ phase = "stages"
  /\ sorted # <<>>
  /\ sorted' = Tail(sorted)
  /\ UNCHANGED <<prog, callees, reached, poly, unmarked, visits>>

-----------------------------------------------------------------------------
(* The sort of any call graph on its own: a function that is taken gets    *)
(* its type, or has none.                                                  *)
NoSort == poly = {} /\ unmarked = {} /\ visits = <<>> /\ sorted = <<>>

SortInit ==
  /\ phase = "search"
  /\ reason = "none"
  /\ CallGraph
  /\ reached = callees
  /\ NoSort

TakeOne == TakeNext /\ (UNCHANGED <<phase, reason>> \/ Reject("type"))

SortNext == Sort \/ TakeOne

SortSpec == SortInit /\ [][SortNext]_tvars

-----------------------------------------------------------------------------
(* Properties.                                                             *)

(* When a function is given its type, all it may call are generalised and  *)
(* have theirs: what a call copies is the whole type.                      *)
CalleesFirst ==
  phase = "stages" /\ sorted # <<>> =>
    callees[Head(sorted)] \subseteq poly \ ToSet(sorted)

(* No function is left out of the stages and none gets two: the functions  *)
(* that cannot come to a recursive one, each once.                         *)
SortedOnce ==
  [][phase = "sort" /\ phase' = "stages" =>
       /\ ToSet(sorted) = poly
       /\ \A i, j \in DOMAIN sorted : sorted[i] = sorted[j] => i = j]_tvars
=============================================================================
