------------------------------- MODULE Terms -------------------------------
(***************************************************************************)
(* The terms topc's type unifier works on (TermInterface.h): the nodes of  *)
(* a graph, each a type variable or a functor applied to subterms. Terms   *)
(* are compared by value (Term::equals), so a term is its value.           *)
(***************************************************************************)
EXTENDS Naturals, Sequences

CONSTANTS
  Term,       \* the terms of one program, closed under subterms
  Variable,   \* the terms that are type variables
  Functor,    \* Functor[t]: the functor of t
  Subterms    \* Subterms[t]: the subterms of t, in order

ASSUME TermAssumption ==
  /\ Variable \subseteq Term
  /\ Subterms \in [Term -> Seq(Term)]

Equation == Term \X Term

(* Same functor and arity.                                                 *)
Matches(t, u) ==
  Functor[t] = Functor[u] /\ Len(Subterms[t]) = Len(Subterms[u])
=============================================================================
