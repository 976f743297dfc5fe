---------------------------- MODULE TermUnifier ----------------------------
(***************************************************************************)
(* topc's type unifier: TermUnifier's queue of equations over              *)
(* TermUnionFind's parent edges. Constraints are added in batches, one per *)
(* function in type inference, and each batch is solved before the next    *)
(* is added; the types found so far are looked up in between. A clash ends *)
(* the compilation.                                                        *)
(***************************************************************************)
EXTENDS Terms, SequencesExt, FiniteSets

CONSTANTS
  Input,      \* the equations a program may give rise to
  MaxAsked    \* bound: equations added in all

ASSUME InputAssumption == Input \subseteq Equation /\ MaxAsked \in Nat

VARIABLES
  edges,         \* the parent edges of the union-find, of the terms inserted
  constraints,   \* the queue of equations
  next,          \* solve()'s index into it
  status,        \* "idle", "solving" or "threw"
  asked          \* history: the equations added, in order

vars == <<edges, constraints, next, status, asked>>

-----------------------------------------------------------------------------
(* TermUnionFind.                                                          *)

(* Mutation: terms of one functor are taken for equal.                     *)
InsertByFunctor(e, t) ==
  LET alike == {u \in DOMAIN e : Functor[u] = Functor[t]}
  IN  [u \in DOMAIN e \cup {t} |-> IF u \in DOMAIN e THEN e[u]
                                 ELSE IF alike = {} THEN t ELSE CHOOSE v \in alike : TRUE]

(* smart_insert: a term not seen before is its own root.                   *)
Insert(e, t) == [u \in DOMAIN e \cup {t} |-> IF u \in DOMAIN e THEN e[u] ELSE t]

(* Mutation: find does not climb.                                          *)
FindStored(e, t) == t

(* find of the inserted terms: climb to the term that is its own parent.   *)
Roots(e) ==
  LET climb[u \in DOMAIN e] == IF e[u] = u THEN u ELSE climb[e[u]]
  IN  climb

FindIn(e, t) == Roots(e)[t]

(* quick_union: u's root becomes the parent of t's root.                   *)
Union(e, t, u) ==
  LET both == Insert(Insert(e, t), u)
  IN  [both EXCEPT ![FindIn(both, t)] = FindIn(both, u)]

-----------------------------------------------------------------------------
Init ==
  /\ edges = <<>>
  /\ constraints = <<>>
  /\ next = 1
  /\ status = "idle"
  /\ asked = <<>>

(* addConstraint.                                                          *)
AddConstraint(e) ==
  /\ status = "idle"
  /\ Len(asked) < MaxAsked
  /\ constraints' = Append(constraints, e)
  /\ asked' = Append(asked, e)
  /\ UNCHANGED <<edges, next, status>>

(* inferred: find of a type variable between two solves, which may insert  *)
(* it.                                                                     *)
Find(t) ==
  /\ status = "idle"
  /\ edges' = Insert(edges, t)
  /\ UNCHANGED <<constraints, next, status, asked>>

Solve ==
  /\ status = "idle"
  /\ constraints # <<>>
  /\ status' = "solving"
  /\ UNCHANGED <<edges, constraints, next, asked>>

-----------------------------------------------------------------------------
(* unify of the next equation. Both sides are inserted and replaced by     *)
(* their roots r1 and r2.                                                  *)
Inserted == Insert(Insert(edges, constraints[next][1]), constraints[next][2])

Unifying(r1, r2) ==
  /\ status = "solving"
  /\ next <= Len(constraints)
  /\ r1 = FindIn(Inserted, constraints[next][1])
  /\ r2 = FindIn(Inserted, constraints[next][2])

(* Mutation: the equation is not taken off.                                *)
UnifyEqualAgain(r1, r2) ==
  /\ Unifying(r1, r2)
  /\ r1 = r2
  /\ edges' = Inserted
  /\ UNCHANGED <<constraints, next, status, asked>>

UnifyEqual(r1, r2) ==
  /\ Unifying(r1, r2)
  /\ r1 = r2
  /\ edges' = Inserted
  /\ next' = next + 1
  /\ UNCHANGED <<constraints, status, asked>>

(* A variable is hung under the other root, be it a variable or a proper   *)
(* type.                                                                   *)
(* Mutation: the first root is hung under the second.                      *)
UnifyVariableInOrder(r1, r2) ==
  /\ Unifying(r1, r2)
  /\ r1 # r2
  /\ {r1, r2} \cap Variable # {}
  /\ edges' = Union(Inserted, r1, r2)
  /\ next' = next + 1
  /\ UNCHANGED <<constraints, status, asked>>

UnifyVariable(r1, r2) ==
  /\ Unifying(r1, r2)
  /\ r1 # r2
  /\ {r1, r2} \cap Variable # {}
  /\ edges' = IF r1 \in Variable THEN Union(Inserted, r1, r2) ELSE Union(Inserted, r2, r1)
  /\ next' = next + 1
  /\ UNCHANGED <<constraints, status, asked>>

BothProper(r1, r2) == r1 # r2 /\ {r1, r2} \cap Variable = {}

(* Mutation: the last subterms are left out.                               *)
SubtermPairsButLast(t, u) ==
  [i \in 1..(Len(Subterms[t]) - 1) |-> <<Subterms[t][i], Subterms[u][i]>>]

SubtermPairs(t, u) ==
  [i \in DOMAIN Subterms[t] |-> <<Subterms[t][i], Subterms[u][i]>>]

UnifyProper(r1, r2) ==
  /\ Unifying(r1, r2)
  /\ BothProper(r1, r2)
  /\ Matches(r1, r2)
  /\ edges' = Union(Inserted, r1, r2)
  /\ constraints' = constraints \o SubtermPairs(r1, r2)
  /\ next' = next + 1
  /\ UNCHANGED <<status, asked>>

(* TermUnificationError: solve is left with its queue as it is.            *)
(* Mutation: a variable on the right is not recognised.                    *)
ThrowOnVariable(r1, r2) ==
  /\ Unifying(r1, r2)
  /\ r1 # r2 /\ r1 \notin Variable
  /\ ~Matches(r1, r2)
  /\ edges' = Inserted
  /\ status' = "threw"
  /\ UNCHANGED <<constraints, next, asked>>

Throw(r1, r2) ==
  /\ Unifying(r1, r2)
  /\ BothProper(r1, r2)
  /\ ~Matches(r1, r2)
  /\ edges' = Inserted
  /\ status' = "threw"
  /\ UNCHANGED <<constraints, next, asked>>

(* The queue is exhausted: the processed equations are erased.             *)
(* Mutation: solve stops where the queue ended when it began.              *)
SolveCompleteEarly ==
  /\ status = "solving"
  /\ next > Len(asked)
  /\ constraints' = <<>>
  /\ next' = 1
  /\ status' = "idle"
  /\ UNCHANGED <<edges, asked>>

SolveComplete ==
  /\ status = "solving"
  /\ next > Len(constraints)
  /\ constraints' = <<>>
  /\ next' = 1
  /\ status' = "idle"
  /\ UNCHANGED <<edges, asked>>

-----------------------------------------------------------------------------
SolveStep ==
  \/ \E r1, r2 \in Term :
       \/ UnifyEqual(r1, r2) \/ UnifyVariable(r1, r2) \/ UnifyProper(r1, r2)
       \/ Throw(r1, r2)
  \/ SolveComplete

Next ==
  \/ \E e \in Input : AddConstraint(e)
  \/ \E t \in Variable : Find(t)
  \/ Solve
  \/ SolveStep

(* solve() is a loop of one thread: once entered it runs on.               *)
Spec == Init /\ [][Next]_vars /\ WF_vars(SolveStep)

-----------------------------------------------------------------------------
(* Properties.                                                             *)

(* find's loop ends: whatever cycles the terms form, the parent edges      *)
(* close none but a root's own. Terms from which no root can be reached    *)
(* would be a set that no edge leaves.                                     *)
FindTerminates ==
  \A C \in SUBSET DOMAIN edges :
    C # {} => \E t \in C : edges[t] = t \/ edges[t] \notin C

(* Each solve() ends, in success or in an error. Nothing checks for a      *)
(* variable occurring in its own type, so cyclic equations must run dry by *)
(* themselves.                                                             *)
SolveTerminates == status = "solving" ~> status # "solving"

(* The classes of the union-find.                                          *)
Class(t) == IF t \in DOMAIN edges THEN FindIn(edges, t) ELSE t

Representatives == {Class(t) : t \in Term}

(* Why: each turn of solve's loop loses a representative, of which there   *)
(* are as many as terms at most, or adds no equation and leaves fewer to   *)
(* process. Equal subterms that are paired again and again merge nothing   *)
(* and are not decomposed.                                                 *)
SolveRunsDown ==
  [][status = "solving" /\ status' = "solving" =>
       \/ Representatives' \subseteq Representatives /\ Representatives' # Representatives
       \/ /\ Representatives' = Representatives
          /\ Len(constraints') - next' < Len(constraints) - next]_vars

Classes == INSTANCE Unification WITH
             rep     <- [t \in Term |-> Class(t)],
             asked   <- ToSet(asked),
             pending <- ToSet(SubSeq(constraints, next, Len(constraints))),
             failed  <- status = "threw"

(* The unifier implements the abstract one, so what is proved of           *)
(* Unification holds of it.                                                *)
UnificationSpec == Classes!Spec

(* Between solves the representatives solve every equation asked, those of *)
(* earlier batches included.                                               *)
SolvedWhenDone == Classes!SolvedWhenDone

(* The classes merge nothing that some solution keeps apart.               *)
MostGeneral == Classes!MostGeneral

(* A TermUnificationError means there is no solution.                      *)
FailureIsReal == Classes!FailureIsReal

(* A proper type is never represented by a variable.                       *)
ProperRepresentative == Classes!ProperRepresentative
=============================================================================
