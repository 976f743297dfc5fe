------------------------- MODULE UnificationProofs -------------------------
(***************************************************************************)
(* The classes a Unification ends with are the most general solution of    *)
(* the equations asked, and a failure means there is none, whatever the    *)
(* terms and the order in which pending equations are processed. Neither   *)
(* the set of terms nor that of equations need be finite.                  *)
(*                                                                         *)
(* The argument is about all labellings s at once. Covered: one that       *)
(* respects the classes and the pending equations respects every equation  *)
(* asked and every decomposition made; with nothing pending, rep itself is *)
(* such a labelling. Sound: a solution respects the classes and the        *)
(* pending equations.                                                      *)
(***************************************************************************)
EXTENDS Unification, TLAPS

Proper == Term \ Variable

(* s gives a term and its representative one label.                        *)
Respects(s) == \A t \in Term : s[t] = s[rep[t]]

Covered ==
  \A s \in [Term -> Term] : Respects(s) /\ Solves(s, pending) =>
    /\ Solves(s, asked)
    /\ \A t \in Proper : \A i \in DOMAIN Subterms[t] :
         s[Subterms[t][i]] = s[Subterms[rep[t]][i]]

Sound == \A s \in Partition : Solution(s) => Solves(s, pending) /\ Respects(s)

Representatives ==
  /\ \A t \in Term : rep[rep[t]] = rep[t]
  /\ \A t \in Proper : rep[t] \in Proper /\ Matches(t, rep[t])

IInv == TypeOK /\ Representatives /\ Covered /\ Sound /\ FailureIsReal

(* The initial state satisfies the invariant: every term is alone.         *)
LEMMA IInvInit == Init => IInv
<1> SUFFICES ASSUME Init PROVE IInv
  OBVIOUS
<1> USE TermAssumption
<1>1. TypeOK /\ Representatives
  BY DEF Init, TypeOK, Representatives, Proper, Matches
<1>2. Covered
  BY DEF Init, Covered, Respects, Solves, Proper
<1>3. Sound
  BY DEF Init, Sound, Respects, Solves, Partition
<1>4. QED
  BY <1>1, <1>2, <1>3 DEF IInv, FailureIsReal, Init

(* Partitions are labellings; how the labels are chosen does not matter.   *)
LEMMA PartitionType == Partition \subseteq [Term -> Term]
BY DEF Partition

(* The subterms of a term are terms.                                       *)
LEMMA SubtermType ==
  ASSUME NEW t \in Term, NEW i \in DOMAIN Subterms[t]
  PROVE  Subterms[t][i] \in Term
BY TermAssumption

(* A new equation is asked.                                                *)
LEMMA AskStep ==
  ASSUME IInv, NEW e \in Equation, Ask(e)
  PROVE  IInv'
<1>1. TypeOK' /\ Representatives'
  BY DEF IInv, Ask, TypeOK, Representatives, Proper, Matches
<1>2. Covered'
  <2> SUFFICES ASSUME NEW s \in [Term -> Term], Respects(s)', Solves(s, pending')
               PROVE  /\ Solves(s, asked')
                      /\ \A t \in Proper : \A i \in DOMAIN Subterms[t] :
                           s[Subterms[t][i]] = s[Subterms[rep'[t]][i]]
    BY DEF Covered
  <2>1. Respects(s) /\ Solves(s, pending) /\ s[e[1]] = s[e[2]]
    BY DEF Ask, Respects, Solves
  <2>2. Solves(s, asked) /\ \A t \in Proper : \A i \in DOMAIN Subterms[t] :
                              s[Subterms[t][i]] = s[Subterms[rep[t]][i]]
    BY <2>1 DEF IInv, Covered
  <2>3. QED
    BY <2>1, <2>2 DEF Ask, Solves
<1>3. Sound'
  <2> SUFFICES ASSUME NEW s \in Partition, Solution(s)'
               PROVE  Solves(s, pending') /\ Respects(s)'
    BY DEF Sound
  <2>1. Solution(s) /\ s[e[1]] = s[e[2]]
    BY DEF Ask, Solution, Solves
  <2>2. Solves(s, pending) /\ Respects(s)
    BY <2>1 DEF IInv, Sound
  <2>3. QED
    BY <2>1, <2>2 DEF Ask, Solves, Respects
<1>4. FailureIsReal'
  BY DEF Ask, FailureIsReal
<1>5. QED
  BY <1>1, <1>2, <1>3, <1>4 DEF IInv

(* An equation whose sides are in one class is taken off.                  *)
LEMMA TakeOff ==
  ASSUME IInv, NEW e \in Equation, rep[e[1]] = rep[e[2]], Replace(e, {}),
         UNCHANGED <<rep, asked, failed>>
  PROVE  IInv'
<1> USE PartitionType
<1>1. TypeOK' /\ Representatives'
  BY DEF IInv, Replace, TypeOK, Representatives, Proper, Matches
<1>2. ASSUME NEW s \in [Term -> Term], Respects(s)
      PROVE  Solves(s, pending') <=> Solves(s, pending)
  <2>1. s[e[1]] = s[e[2]]
    BY <1>2 DEF Respects, Equation
  <2>2. pending' \cup {e} = pending \cup {e}
    BY DEF Replace
  <2>3. QED
    BY <2>1, <2>2 DEF Solves
<1>3. Covered'
  BY <1>2 DEF IInv, Covered, Respects
<1>4. Sound'
  BY <1>2 DEF IInv, Sound, Respects, Solution
<1>5. QED
  BY <1>1, <1>3, <1>4 DEF IInv, FailureIsReal, Solution

(* The class of s is merged into that of r.                                *)
LEMMA MergeStep ==
  ASSUME IInv, NEW e \in Equation, NEW a \in Term, NEW b \in Term,
         a # b, {a, b} = {rep[e[1]], rep[e[2]]}, e \in pending, ~failed,
         Merge(a, b),
         NEW new \in SUBSET Equation,
         \/ a \in Variable /\ new = {}
         \/ a \in Proper /\ b \in Proper /\ Matches(a, b) /\ new = Decomposition(a, b),
         Replace(e, new), UNCHANGED <<asked, failed>>
  PROVE  IInv'
<1> USE PartitionType
<1>1. TypeOK'
  BY DEF IInv, TypeOK, Merge, Replace, Equation
<1>2. rep[a] = a /\ rep[b] = b
  BY DEF IInv, TypeOK, Representatives, Equation
<1>3. \A t \in Term : rep'[t] = IF rep[t] = a THEN b ELSE rep[t]
  BY DEF Merge
<1>4. Representatives'
  <2>1. \A t \in Term : rep'[rep'[t]] = rep'[t]
    BY <1>1, <1>2, <1>3 DEF IInv, TypeOK, Representatives
  <2>2. ASSUME NEW t \in Proper PROVE rep'[t] \in Proper /\ Matches(t, rep'[t])
    <3>1. rep[t] \in Proper /\ Matches(t, rep[t])
      BY DEF IInv, Representatives
    <3>2. CASE rep[t] = a
      <4>1. b \in Proper /\ Matches(a, b)
        BY <3>1, <3>2 DEF Proper
      <4>2. QED
        BY <3>1, <3>2, <4>1, <1>3 DEF Matches, Proper
    <3>3. CASE rep[t] # a
      BY <3>1, <3>3, <1>3 DEF Proper
    <3>4. QED
      BY <3>2, <3>3
  <2>3. QED
    BY <2>1, <2>2 DEF Representatives, Matches, Proper
<1>5. ASSUME NEW s \in [Term -> Term]
      PROVE  Respects(s)' <=> Respects(s) /\ s[a] = s[b]
  <2>1. ASSUME Respects(s)' PROVE s[a] = s[b]
    BY <2>1, <1>2, <1>3 DEF Respects
  <2>2. ASSUME Respects(s)', NEW t \in Term PROVE s[t] = s[rep[t]]
    BY <2>1, <2>2, <1>3 DEF Respects
  <2>3. ASSUME Respects(s), s[a] = s[b], NEW t \in Term PROVE s[t] = s[rep'[t]]
    BY <2>3, <1>3 DEF Respects
  <2>4. QED
    BY <2>1, <2>2, <2>3 DEF Respects
<1>6. pending' \subseteq pending \cup new /\ pending \subseteq pending' \cup {e} /\ new \subseteq pending'
  BY DEF Replace
<1>7. Covered'
  <2> SUFFICES ASSUME NEW s \in [Term -> Term], Respects(s)', Solves(s, pending')
               PROVE  /\ Solves(s, asked')
                      /\ \A t \in Proper : \A i \in DOMAIN Subterms[t] :
                           s[Subterms[t][i]] = s[Subterms[rep'[t]][i]]
    BY DEF Covered
  <2>1. Respects(s) /\ s[a] = s[b]
    BY <1>5
  <2>2. s[e[1]] = s[e[2]]
    BY <2>1 DEF Respects, Equation
  <2>3. Solves(s, pending)
    BY <2>2, <1>6 DEF Solves
  <2>4. Solves(s, asked) /\ \A t \in Proper : \A i \in DOMAIN Subterms[t] :
                              s[Subterms[t][i]] = s[Subterms[rep[t]][i]]
    BY <2>1, <2>3 DEF IInv, Covered
  <2>5. ASSUME NEW t \in Proper, NEW i \in DOMAIN Subterms[t]
        PROVE  s[Subterms[t][i]] = s[Subterms[rep'[t]][i]]
    <3>1. CASE rep[t] # a
      BY <3>1, <2>4, <1>3 DEF Proper
    <3>2. CASE rep[t] = a
      <4>1. a \in Proper /\ Matches(t, a)
        BY <3>2 DEF IInv, Representatives
      <4>2. new = Decomposition(a, b)
        BY <4>1 DEF Proper
      <4>3. DOMAIN Subterms[t] = DOMAIN Subterms[a]
        BY <4>1, TermAssumption DEF Matches, Proper
      <4>4. <<Subterms[a][i], Subterms[b][i]>> \in pending'
        BY <4>2, <4>3, <1>6 DEF Decomposition
      <4>5. s[Subterms[a][i]] = s[Subterms[b][i]]
        BY <4>4 DEF Solves
      <4>6. QED
        BY <4>5, <3>2, <2>4, <1>3 DEF Proper
    <3>3. QED
      BY <3>1, <3>2
  <2>6. QED
    BY <2>4, <2>5
<1>8. Sound'
  <2> SUFFICES ASSUME NEW s \in Partition, Solution(s)
               PROVE  Solves(s, pending') /\ Respects(s)'
    BY DEF Sound, Solution
  <2>1. Solves(s, pending) /\ Respects(s)
    BY DEF IInv, Sound
  <2>2. s[e[1]] = s[e[2]]
    BY <2>1 DEF Solves
  <2>3. s[a] = s[b]
    BY <2>1, <2>2 DEF Respects, Equation
  <2>4. Solves(s, new)
    <3>1. CASE new = {}
      BY <3>1 DEF Solves
    <3>2. CASE a \in Proper /\ b \in Proper /\ new = Decomposition(a, b)
      BY <3>2, <2>3 DEF Solves, Solution, Congruent, Proper, Decomposition
    <3>3. QED
      BY <3>1, <3>2
  <2>5. QED
    BY <2>1, <2>3, <2>4, <1>5, <1>6 DEF Solves
<1>9. QED
  BY <1>1, <1>4, <1>7, <1>8 DEF IInv, FailureIsReal, Solution

(* The equations of a decomposition are equations.                         *)
LEMMA DecompositionType ==
  ASSUME NEW t \in Term, NEW u \in Term, Matches(t, u)
  PROVE  Decomposition(t, u) \in SUBSET Equation
BY TermAssumption DEF Decomposition, Equation, Matches

(* An equation is processed.                                               *)
LEMMA EquateStep ==
  ASSUME IInv, NEW e \in Equation, Equate(e)
  PROVE  IInv'
<1> DEFINE s == rep[e[1]]
           r == rep[e[2]]
<1>1. s \in Term /\ r \in Term
  BY DEF IInv, TypeOK, Equation
<1>2. ~failed /\ e \in pending /\ UNCHANGED <<asked, failed>>
  BY DEF Equate
<1>3. CASE s = r /\ UNCHANGED rep /\ Replace(e, {})
  BY <1>2, <1>3, TakeOff
<1>4. CASE s # r /\ s \in Variable /\ Merge(s, r) /\ Replace(e, {})
  BY <1>1, <1>2, <1>4, MergeStep
<1>5. CASE s # r /\ r \in Variable /\ Merge(r, s) /\ Replace(e, {})
  BY <1>1, <1>2, <1>5, MergeStep
<1>6. CASE /\ s # r /\ s \notin Variable /\ r \notin Variable
           /\ Matches(s, r)
           /\ Merge(s, r) /\ Replace(e, Decomposition(s, r))
  <2>1. Decomposition(s, r) \in SUBSET Equation
    BY <1>1, <1>6, DecompositionType
  <2>2. s \in Proper /\ r \in Proper
    BY <1>1, <1>6 DEF Proper
  <2>3. QED
    BY <1>1, <1>2, <1>6, <2>1, <2>2, MergeStep
<1>7. QED
  BY <1>3, <1>4, <1>5, <1>6 DEF Equate

(* A clash is reported: any solution would match the two terms.            *)
LEMMA ClashStep ==
  ASSUME IInv, NEW e \in Equation, Clash(e)
  PROVE  IInv'
<1>1. TypeOK' /\ Representatives' /\ Covered'
  BY DEF IInv, Clash, TypeOK, Representatives, Covered, Respects, Matches, Proper
<1>2. Sound'
  BY DEF IInv, Clash, Sound, Respects, Solution
<1>3. ASSUME NEW s \in Partition, Solution(s) PROVE FALSE
  <2>1. Solves(s, pending) /\ Respects(s)
    BY <1>3 DEF IInv, Sound
  <2>2. rep[e[1]] \in Term /\ rep[e[2]] \in Term
    BY DEF IInv, TypeOK, Equation
  <2>3. s[rep[e[1]]] = s[rep[e[2]]]
    BY <2>1 DEF Solves, Respects, Clash, Equation
  <2>4. QED
    BY <1>3, <2>2, <2>3 DEF Solution, Congruent, Clash
<1>4. FailureIsReal'
  BY <1>3 DEF FailureIsReal, Clash, Solution
<1>5. QED
  BY <1>1, <1>2, <1>4 DEF IInv

(* The invariant holds in every reachable state.                           *)
THEOREM Invariance == Spec => []IInv
<1>1. IInv /\ [Next]_uvars => IInv'
  <2> SUFFICES ASSUME IInv, [Next]_uvars PROVE IInv'
    OBVIOUS
  <2>1. CASE UNCHANGED uvars
    BY <2>1 DEF uvars, IInv, TypeOK, Representatives, Covered, Sound, FailureIsReal,
                Respects, Solution, Matches, Proper
  <2>2. ASSUME NEW e \in Equation, Ask(e) \/ Equate(e) \/ Clash(e) PROVE IInv'
    BY <2>2, AskStep, EquateStep, ClashStep
  <2>3. QED
    BY <2>1, <2>2 DEF Next
<1>2. QED
  BY IInvInit, <1>1, PTL DEF Spec

(* With nothing pending the classes solve every equation asked: what the   *)
(* types inferred by topc rest on.                                         *)
THEOREM Completeness == Spec => []SolvedWhenDone
<1>1. IInv => SolvedWhenDone
  <2> SUFFICES ASSUME IInv, pending = {} PROVE Solution(rep)
    BY DEF SolvedWhenDone
  <2>1. rep \in [Term -> Term] /\ Respects(rep) /\ Solves(rep, pending)
    BY DEF IInv, TypeOK, Representatives, Respects, Solves
  <2>2. Solves(rep, asked)
    BY <2>1 DEF IInv, Covered
  <2>3. \A t \in Proper : \A i \in DOMAIN Subterms[t] :
          rep[Subterms[t][i]] = rep[Subterms[rep[t]][i]]
    BY <2>1 DEF IInv, Covered
  <2>4. ASSUME NEW t \in Proper, NEW u \in Proper, rep[t] = rep[u]
        PROVE  /\ Matches(t, u)
               /\ \A i \in DOMAIN Subterms[t] : rep[Subterms[t][i]] = rep[Subterms[u][i]]
    <3>1. Matches(t, rep[t]) /\ Matches(u, rep[u])
      BY DEF IInv, Representatives
    <3>2. Matches(t, u)
      BY <3>1, <2>4 DEF Matches
    <3>3. DOMAIN Subterms[t] = DOMAIN Subterms[u]
      BY <3>2, TermAssumption DEF Matches, Proper
    <3>4. QED
      BY <2>3, <2>4, <3>2, <3>3
  <2>5. QED
    BY <2>2, <2>4 DEF Solution, Congruent, Proper
<1>2. QED
  BY <1>1, Invariance, PTL

(* Terms share a class only if every solution equates them.                *)
THEOREM Generality == Spec => []MostGeneral
<1>1. IInv => MostGeneral
  BY DEF IInv, Sound, Respects, MostGeneral
<1>2. QED
  BY <1>1, Invariance, PTL

(* A clash is reported only if there is no solution.                       *)
THEOREM Refutation == Spec => []FailureIsReal
<1>1. IInv => FailureIsReal
  BY DEF IInv
<1>2. QED
  BY <1>1, Invariance, PTL

(* A proper type is never represented by a variable.                       *)
THEOREM ProperTypesRepresent == Spec => []ProperRepresentative
<1>1. IInv => ProperRepresentative
  BY DEF IInv, Representatives, ProperRepresentative, Proper
<1>2. QED
  BY <1>1, Invariance, PTL
=============================================================================
