---------------------------- MODULE Unification ----------------------------
(***************************************************************************)
(* What topc's type unifier promises (src/src/semantic/solver/term): it    *)
(* merges terms into classes until the classes solve every equation asked, *)
(* merging nothing that some solution keeps apart, or it reports that no   *)
(* solution exists. Solutions are over regular trees: no occurs check is   *)
(* made, a variable may stand for a term it occurs in.                     *)
(***************************************************************************)
EXTENDS Terms

VARIABLES
  rep,      \* the representative of each term's class
  asked,    \* the equations asked so far
  pending,  \* the equations still to be processed
  failed    \* a clash was reported

uvars == <<rep, asked, pending, failed>>

(* The equations between the subterms of two matching terms.               *)
Decomposition(t, u) ==
  {<<Subterms[t][i], Subterms[u][i]>> : i \in DOMAIN Subterms[t]}

TypeOK ==
  /\ rep \in [Term -> Term]
  /\ asked \in SUBSET Equation
  /\ pending \in SUBSET Equation
  /\ failed \in BOOLEAN

Init ==
  /\ rep = [t \in Term |-> t]
  /\ asked = {}
  /\ pending = {}
  /\ failed = FALSE

Ask(e) ==
  /\ ~failed
  /\ asked' = asked \cup {e}
  /\ pending' = pending \cup {e}
  /\ UNCHANGED <<rep, failed>>

(* r becomes the representative of s's class.                              *)
Merge(s, r) == rep' = [t \in Term |-> IF rep[t] = s THEN r ELSE rep[t]]

(* The equation just processed may have been pending twice.                *)
Replace(e, new) ==
  \/ pending' = (pending \ {e}) \cup new
  \/ pending' = pending \cup new

Equate(e) ==
  LET s == rep[e[1]]
      r == rep[e[2]]
  IN  /\ ~failed
      /\ e \in pending
      /\ \/ s = r /\ UNCHANGED rep /\ Replace(e, {})
         \/ s # r /\ s \in Variable /\ Merge(s, r) /\ Replace(e, {})
         \/ s # r /\ r \in Variable /\ Merge(r, s) /\ Replace(e, {})
         \/ /\ s # r /\ s \notin Variable /\ r \notin Variable
            /\ Matches(s, r)
            /\ Merge(s, r) /\ Replace(e, Decomposition(s, r))
      /\ UNCHANGED <<asked, failed>>

Clash(e) ==
  LET s == rep[e[1]]
      r == rep[e[2]]
  IN  /\ ~failed
      /\ e \in pending
      /\ s \notin Variable /\ r \notin Variable /\ ~Matches(s, r)
      /\ failed' = TRUE
      /\ UNCHANGED <<rep, asked, pending>>

Next == \E e \in Equation : Ask(e) \/ Equate(e) \/ Clash(e)

Spec == Init /\ [][Next]_uvars

-----------------------------------------------------------------------------
(* The partitions of the terms, each class labelled by one of its members. *)
Partition ==
  {s \in [Term -> Term] : \A t \in Term : s[t] = CHOOSE u \in Term : s[u] = s[t]}

(* s puts the sides of each of the equations into one class.               *)
Solves(s, equations) == \A e \in equations : s[e[1]] = s[e[2]]

(* Terms of one class that are not variables have the same functor and     *)
(* their subterms are in one class pairwise: the classes denote trees.     *)
Congruent(s) ==
  \A t, u \in Term \ Variable : s[t] = s[u] =>
    Matches(t, u) /\ \A i \in DOMAIN Subterms[t] : s[Subterms[t][i]] = s[Subterms[u][i]]

Solution(s) == Solves(s, asked) /\ Congruent(s)

(* With nothing pending the classes solve every equation asked: all        *)
(* inferred types together satisfy all of their constraints,               *)
(* those of an earlier solve() included.                                   *)
SolvedWhenDone == pending = {} => Solution(rep)

(* Most general: terms share a class only when every solution equates      *)
(* them, so no type is less general than its constraints demand.           *)
MostGeneral ==
  \A s \in Partition : Solution(s) => \A t \in Term : s[t] = s[rep[t]]

(* A reported clash is real: the equations have no solution.               *)
FailureIsReal == failed => \A s \in Partition : ~Solution(s)

(* "When a variable is merged with a proper type, the proper type becomes  *)
(* the canonical representative" (TermUnionFind.h): a variable represents  *)
(* its class only when the class has no proper type.                       *)
ProperRepresentative == \A t \in Term \ Variable : rep[t] \notin Variable
=============================================================================
