--------------------------- MODULE OwnershipState ---------------------------
(***************************************************************************)
(* The dataflow facts of topc's MoveAnalysis: what is known of every       *)
(* Own-classified variable of a function at a program point, how the facts *)
(* of several paths are joined, and which agreements a join and a loop     *)
(* demand (src/src/semantic/ownership/MoveAnalysis.cpp), under the rule    *)
(* toggles of src/src/error/RuleToggles.cpp.                               *)
(***************************************************************************)
EXTENDS Naturals

CONSTANTS
  Var,            \* the Own-classified variables of the function analysed
  DisabledRules   \* rules switched off by --unsafe-disable

(* The rules and mechanisms of RuleToggles that act in this component.     *)
RuleIds == {"use-after-move", "assign-over-live", "call-held-borrow",
            "join-agreement", "loop-body-invariant", "loop-condition",
            "destroy-at-exit", "free-unbound-reference"}

ASSUME RulesAssumption == DisabledRules \subseteq RuleIds

Enabled(id) == id \notin DisabledRules

-----------------------------------------------------------------------------
(* A StateMap entry. A variable with no entry is "absent": nothing was     *)
(* assigned to it on any path.                                             *)
Mark == {"absent", "Owned", "Moved"}
StateMap == [Var -> Mark]

NoEntries == [x \in Var |-> "absent"]

OwnedIn(s) == {x \in Var : s[x] = "Owned"}

(* Two states agree when they own the same variables: "absent" and "Moved" *)
(* count alike, there is nothing to free either way.                       *)
Agree(s, t) == OwnedIn(s) = OwnedIn(t)

(* The fact two branches leave of one variable.                            *)
(* Mutation: a move on one branch is forgotten.                            *)
JoinMarkBothMoved(m, n) ==
  CASE m = "Owned" /\ n = "Owned" -> "Owned"
    [] m = "Moved" /\ n = "Moved" -> "Moved"
    [] OTHER                      -> "absent"

JoinMark(m, n) ==
  CASE m = "Owned" /\ n = "Owned" -> "Owned"
    [] m = "Moved" \/ n = "Moved" -> "Moved"
    [] OTHER                      -> "absent"

JoinStates(s, t) == [x \in Var |-> JoinMark(s[x], t[x])]

(* The checks of a join and of a loop: a failed check rejects the program  *)
(* unless its rule is disabled.                                            *)
(* Mutation: only variables with an entry on both branches are compared.   *)
JoinAcceptedBothAssigned(s, t) ==
  \A x \in Var : "absent" \notin {s[x], t[x]} => (s[x] = "Owned" <=> t[x] = "Owned")

JoinAccepted(s, t) == Agree(s, t) \/ ~Enabled("join-agreement")

LoopConditionAccepted(pre, s) == s = pre \/ ~Enabled("loop-condition")

(* Mutation: an owner acquired in the body is not noticed.                 *)
LoopBodyAcceptedMovesOnly(pre, s) == OwnedIn(pre) \subseteq OwnedIn(s)

LoopBodyAccepted(pre, s) == Agree(pre, s) \/ ~Enabled("loop-body-invariant")

=============================================================================
