-------------------------- MODULE InclusionsProofs --------------------------
(***************************************************************************)
(* Proofs about Inclusions, for every set of variables and of elements:    *)
(* a solver that only ever adds what no solution can do without, and stops *)
(* only when nothing is missing, has the least solution when it stops.     *)
(***************************************************************************)
EXTENDS Inclusions, TLAPS

-----------------------------------------------------------------------------
(* What solves more constraints solves fewer.                              *)
LEMMA SolvesFewer ==
  ASSUME NEW S, NEW A, NEW B, A \subseteq B, Solves(S, B)
  PROVE  Solves(S, A)
  BY DEF Solves

(* The sets always hold elements, and what is asked are constraints.       *)
THEOREM TypeCorrect == Spec => []TypeOK
<1>1. Init => TypeOK
  BY DEF Init, TypeOK, Assignment
<1>2. TypeOK /\ [Next]_ivars => TypeOK'
  BY DEF TypeOK, Next, Ask, Deduce, Advance, ivars
<1> QED
  BY <1>1, <1>2, PTL DEF Spec

(* addElementofConstraint, addSubseteqConstraint, addConditionalConstraint *)
(* never give a variable an element that some solution does without.       *)
THEOREM NothingTooMuch == Spec => []NeverTooMuch
<1>1. Init => NeverTooMuch
  BY DEF Init, NeverTooMuch, Below, Assignment
<1>2. NeverTooMuch /\ [Next]_ivars => NeverTooMuch'
  <2> SUFFICES ASSUME NeverTooMuch, [Next]_ivars,
                      NEW S \in Assignment, Solves(S, asked')
               PROVE  Below(sol', S)
    BY DEF NeverTooMuch
  <2>1. CASE Advance /\ asked \subseteq asked'
    <3>1. Solves(S, asked)
      BY <2>1, SolvesFewer
    <3>2. Below(sol, S)
      BY <3>1 DEF NeverTooMuch
    <3> QED
      BY <2>1, <3>2 DEF Advance
  <2>2. CASE UNCHANGED ivars
    BY <2>2 DEF NeverTooMuch, ivars
  <2> QED
    BY <2>1, <2>2 DEF Next, Ask, Deduce
<1> QED
  BY <1>1, <1>2, PTL DEF Spec

(* When no constraint is being added, getElements returns the sets of the  *)
(* least solution.                                                         *)
THEOREM LeastSolution == Spec => []LeastWhenSettled
<1> DEFINE Settled == ~busy => Solves(sol, asked)
<1>1. Init => Settled
  BY DEF Init, Solves
<1>2. Settled /\ [Next]_ivars => Settled'
  BY DEF Next, Ask, Deduce, Advance, ivars
<1>3. Settled /\ NeverTooMuch => LeastWhenSettled
  BY DEF LeastWhenSettled
<1> HIDE DEF Settled
<1>4. Spec => []Settled
  BY <1>1, <1>2, PTL DEF Spec
<1> QED
  BY <1>3, <1>4, NothingTooMuch, PTL
=============================================================================
