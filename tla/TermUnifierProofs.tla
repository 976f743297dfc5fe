------------------------- MODULE TermUnifierProofs -------------------------
(***************************************************************************)
(* The unifier implements the abstract Unification, so what is proved of   *)
(* Unification holds of it, whatever the terms, the batches of equations   *)
(* and the lookups in between.                                             *)
(*                                                                         *)
(* What has to be shown of the union-find is that find climbs to a root:   *)
(* the recursion of Roots has a solution (Climbs), only one, and that one  *)
(* changes as inserting and linking say it does. No step counts the edges  *)
(* to a root; that every set of terms has a member that is a root or whose *)
(* parent is outside (Grounded) is enough for each.                        *)
(***************************************************************************)
EXTENDS TermUnifier, TLAPS

(* f assigns each inserted term the root it climbs to.                     *)
Climbs(e, f) == f = [u \in DOMAIN e |-> IF e[u] = u THEN u ELSE f[e[u]]]

Grounded(e) ==
  \A C \in SUBSET DOMAIN e : C # {} => \E t \in C : e[t] = t \/ e[t] \notin C

Forest(e) ==
  /\ DOMAIN e \subseteq Term
  /\ e \in [DOMAIN e -> DOMAIN e]
  /\ Grounded(e)
  /\ \E f : Climbs(e, f)

TypeOK ==
  /\ constraints \in Seq(Equation)
  /\ next \in 1..(Len(constraints) + 1)
  /\ asked \in Seq(Equation)
  /\ status \in {"idle", "solving", "threw"}
  /\ status = "idle" => next = 1

IInv == TypeOK /\ Forest(edges)

-----------------------------------------------------------------------------
(* The recursion that defines Roots has a solution in a forest.            *)
LEMMA RootsClimb ==
  ASSUME NEW e, Forest(e)
  PROVE  Climbs(e, Roots(e))
<1>1. PICK f : Climbs(e, f)
  BY DEF Forest
<1> DEFINE R == CHOOSE g : Climbs(e, g)
<1>2. Climbs(e, R)
  BY <1>1, Zenon
<1>3. Roots(e) = R
  BY DEF Roots, Climbs
<1>4. QED
  BY <1>2, <1>3

(* Every inserted term climbs to a root, and a root stays where it is.     *)
LEMMA RootsAreRoots ==
  ASSUME NEW e, Forest(e)
  PROVE  /\ Roots(e) \in [DOMAIN e -> DOMAIN e]
         /\ \A u \in DOMAIN e : e[Roots(e)[u]] = Roots(e)[u]
         /\ \A u \in DOMAIN e : e[u] = u => Roots(e)[u] = u
<1> DEFINE R == Roots(e)
           Astray == {u \in DOMAIN e : R[u] \notin DOMAIN e \/ e[R[u]] # R[u]}
<1> HIDE DEF R
<1>1. R = [u \in DOMAIN e |-> IF e[u] = u THEN u ELSE R[e[u]]]
  BY RootsClimb DEF Climbs, R
<1>2. \A u \in DOMAIN e : e[u] \in DOMAIN e
  BY DEF Forest
<1>3. \A u \in DOMAIN e : R[u] = IF e[u] = u THEN u ELSE R[e[u]]
  BY <1>1
<1>4. Astray = {}
  <2> SUFFICES ASSUME Astray # {} PROVE FALSE
    OBVIOUS
  <2>1. PICK t \in Astray : e[t] = t \/ e[t] \notin Astray
    BY DEF Forest, Grounded
  <2>2. QED
    BY <2>1, <1>2, <1>3
<1>5. QED
  BY <1>1, <1>3, <1>4 DEF R

(* Whatever satisfies the recursion is Roots.                              *)
LEMMA RootsUnique ==
  ASSUME NEW e, Forest(e), NEW f, Climbs(e, f)
  PROVE  f = Roots(e)
<1> DEFINE R == Roots(e)
           Differ == {u \in DOMAIN e : f[u] # R[u]}
<1> HIDE DEF R
<1>1. R = [u \in DOMAIN e |-> IF e[u] = u THEN u ELSE R[e[u]]]
  BY RootsClimb DEF Climbs, R
<1>2. f = [u \in DOMAIN e |-> IF e[u] = u THEN u ELSE f[e[u]]]
  BY DEF Climbs
<1>3. \A u \in DOMAIN e : e[u] \in DOMAIN e
  BY DEF Forest
<1>4. \A u \in DOMAIN e : R[u] = IF e[u] = u THEN u ELSE R[e[u]]
  BY <1>1
<1>5. \A u \in DOMAIN e : f[u] = IF e[u] = u THEN u ELSE f[e[u]]
  BY <1>2
<1>6. Differ = {}
  <2> SUFFICES ASSUME Differ # {} PROVE FALSE
    OBVIOUS
  <2>1. PICK t \in Differ : e[t] = t \/ e[t] \notin Differ
    BY DEF Forest, Grounded
  <2>2. QED
    BY <2>1, <1>3, <1>4, <1>5
<1>7. f = R
  BY <1>1, <1>2, <1>6
<1>8. QED
  BY <1>7 DEF R

(* The representative of a term, inserted or not.                          *)
ClassIn(e, t) == IF t \in DOMAIN e THEN Roots(e)[t] ELSE t

(* A term inserted is a root and changes no other term's root.             *)
LEMMA InsertKeepsClasses ==
  ASSUME NEW e, Forest(e), NEW t \in Term
  PROVE  /\ Forest(Insert(e, t))
         /\ DOMAIN Insert(e, t) = DOMAIN e \cup {t}
         /\ \A u \in DOMAIN e : Insert(e, t)[u] = e[u]
         /\ \A u \in Term : ClassIn(Insert(e, t), u) = ClassIn(e, u)
<1> DEFINE i == Insert(e, t)
           R == Roots(e)
           f == [u \in DOMAIN i |-> IF u \in DOMAIN e THEN R[u] ELSE u]
<1>1. /\ DOMAIN i = DOMAIN e \cup {t}
      /\ \A u \in DOMAIN e : i[u] = e[u]
      /\ t \notin DOMAIN e => i[t] = t
      /\ i = [u \in DOMAIN e \cup {t} |-> i[u]]
  BY DEF Insert
<1>2. \A u \in DOMAIN e : e[u] \in DOMAIN e /\ R[u] = IF e[u] = u THEN u ELSE R[e[u]]
  BY RootsClimb DEF Forest, Climbs
<1> HIDE DEF i, R
<1>3. i \in [DOMAIN i -> DOMAIN i]
  BY <1>1, <1>2
<1>4. Grounded(i)
  <2> SUFFICES ASSUME NEW C \in SUBSET DOMAIN i, C # {}
               PROVE  \E u \in C : i[u] = u \/ i[u] \notin C
    BY DEF Grounded
  <2>1. CASE C \cap DOMAIN e = {}
    BY <2>1, <1>1
  <2>2. CASE C \cap DOMAIN e # {}
    <3>1. PICK u \in C \cap DOMAIN e : e[u] = u \/ e[u] \notin C \cap DOMAIN e
      BY <2>2 DEF Forest, Grounded
    <3>2. QED
      BY <3>1, <1>1, <1>2
  <2>3. QED
    BY <2>1, <2>2
<1>5. Climbs(i, f)
  <2>1. ASSUME NEW u \in DOMAIN i PROVE f[u] = IF i[u] = u THEN u ELSE f[i[u]]
    BY <1>1, <1>2
  <2>2. QED
    BY <2>1 DEF Climbs
<1>6. Forest(i)
  BY <1>1, <1>3, <1>4, <1>5 DEF Forest
<1>7. f = Roots(i)
  BY <1>5, <1>6, RootsUnique
<1>8. ASSUME NEW u \in Term PROVE ClassIn(i, u) = ClassIn(e, u)
  BY <1>1, <1>7 DEF ClassIn, R
<1>9. QED
  BY <1>1, <1>6, <1>8 DEF i

(* Hanging the root a under the root b moves a's class to b and no other.  *)
LEMMA LinkMovesClass ==
  ASSUME NEW e, Forest(e), NEW a \in DOMAIN e, NEW b \in DOMAIN e,
         a # b, e[a] = a, e[b] = b,
         NEW l \in [DOMAIN e -> DOMAIN e],
         l[a] = b, \A u \in DOMAIN e \ {a} : l[u] = e[u]
  PROVE  /\ Forest(l)
         /\ \A u \in Term : ClassIn(l, u) = IF ClassIn(e, u) = a THEN b ELSE ClassIn(e, u)
<1> DEFINE R == Roots(e)
           f == [u \in DOMAIN e |-> IF R[u] = a THEN b ELSE R[u]]
<1>1. /\ DOMAIN l = DOMAIN e
      /\ \A u \in DOMAIN e : l[u] = IF u = a THEN b ELSE e[u]
      /\ l \in [DOMAIN e -> DOMAIN e]
  OBVIOUS
<1>2. \A u \in DOMAIN e : e[u] \in DOMAIN e /\ R[u] = IF e[u] = u THEN u ELSE R[e[u]]
  BY RootsClimb DEF Forest, Climbs
<1> HIDE DEF R
<1>3. Grounded(l)
  <2> SUFFICES ASSUME NEW C \in SUBSET DOMAIN e, C # {}
               PROVE  \E u \in C : l[u] = u \/ l[u] \notin C
    BY <1>1 DEF Grounded
  <2>1. PICK u \in C : e[u] = u \/ e[u] \notin C
    BY DEF Forest, Grounded
  <2>2. CASE u # a
    BY <2>1, <2>2, <1>1
  <2>3. CASE u = a /\ b \in C
    BY <2>3, <1>1
  <2>4. CASE u = a /\ b \notin C
    BY <2>4, <1>1
  <2>5. QED
    BY <2>2, <2>3, <2>4
<1>4. Climbs(l, f)
  <2>1. ASSUME NEW u \in DOMAIN e PROVE f[u] = IF l[u] = u THEN u ELSE f[l[u]]
    BY <1>1, <1>2
  <2>2. QED
    BY <2>1, <1>1 DEF Climbs
<1>5. Forest(l)
  BY <1>1, <1>3, <1>4 DEF Forest
<1>6. f = Roots(l)
  BY <1>4, <1>5, RootsUnique
<1>7. ASSUME NEW u \in Term
      PROVE  ClassIn(l, u) = IF ClassIn(e, u) = a THEN b ELSE ClassIn(e, u)
  BY <1>1, <1>6 DEF ClassIn, R
<1>8. QED
  BY <1>5, <1>7

(* The union of two roots that have been inserted links the first to the   *)
(* second.                                                                 *)
LEMMA UnionLinksRoots ==
  ASSUME NEW e, Forest(e), NEW a \in DOMAIN e, NEW b \in DOMAIN e,
         e[a] = a, e[b] = b
  PROVE  Union(e, a, b) = [e EXCEPT ![a] = b]
<1>1. e = [u \in DOMAIN e |-> e[u]]
  BY DEF Forest
<1>2. Insert(e, a) = e /\ Insert(e, b) = e
  BY <1>1 DEF Insert
<1>3. FindIn(e, a) = a /\ FindIn(e, b) = b
  BY RootsAreRoots DEF FindIn
<1>4. QED
  BY <1>2, <1>3 DEF Union

-----------------------------------------------------------------------------
(* The representatives and the equations to do, as Unification sees them.  *)
Reps == [t \in Term |-> Class(t)]

Pending == ToSet(SubSeq(constraints, next, Len(constraints)))

(* A queue's rest is the set of its elements from the index on.            *)
LEMMA RestOfQueue ==
  ASSUME NEW S, NEW q \in Seq(S), NEW n \in 1..(Len(q) + 1)
  PROVE  ToSet(SubSeq(q, n, Len(q))) = {q[i] : i \in n..Len(q)}
<1> DEFINE r == SubSeq(q, n, Len(q))
<1>1. Len(r) = Len(q) - n + 1 /\ \A i \in 1..Len(r) : r[i] = q[n + i - 1]
  OBVIOUS
<1>2. DOMAIN r = 1..Len(r) /\ Len(r) \in Nat
  OBVIOUS
<1> HIDE DEF r
<1>3. ASSUME NEW i \in DOMAIN r PROVE r[i] \in {q[j] : j \in n..Len(q)}
  <2>1. n + i - 1 \in n..Len(q)
    BY <1>1, <1>2
  <2>2. QED
    BY <2>1, <1>1, <1>2
<1>4. ASSUME NEW j \in n..Len(q) PROVE \E i \in DOMAIN r : r[i] = q[j]
  <2>1. j - n + 1 \in DOMAIN r /\ n + (j - n + 1) - 1 = j
    BY <1>1, <1>2
  <2>2. QED
    BY <2>1, <1>1, <1>2
<1>5. QED
  BY <1>3, <1>4 DEF ToSet, r

(* Appending to the queue adds to what is left of it.                      *)
LEMMA AppendToQueue ==
  ASSUME NEW S, NEW q \in Seq(S), NEW n \in 1..(Len(q) + 1), NEW r \in Seq(S)
  PROVE  ToSet(SubSeq(q \o r, n, Len(q \o r))) = ToSet(SubSeq(q, n, Len(q))) \cup ToSet(r)
<1> DEFINE qr == q \o r
<1>1. qr \in Seq(S) /\ Len(qr) = Len(q) + Len(r)
  OBVIOUS
<1>2. /\ \A i \in 1..Len(q) : qr[i] = q[i]
      /\ \A i \in (Len(q) + 1)..Len(qr) : qr[i] = r[i - Len(q)]
  OBVIOUS
<1>3. Len(q) \in Nat /\ Len(r) \in Nat /\ DOMAIN r = 1..Len(r)
  OBVIOUS
<1>4. ToSet(SubSeq(q, n, Len(q))) = {q[i] : i \in n..Len(q)}
  BY RestOfQueue
<1> HIDE DEF qr
<1>5. ToSet(SubSeq(qr, n, Len(qr))) = {qr[i] : i \in n..Len(qr)}
  <2>1. n \in 1..(Len(qr) + 1)
    BY <1>1, <1>3
  <2>2. QED
    BY <2>1, <1>1, RestOfQueue
<1>6. {qr[i] : i \in n..Len(qr)} = {qr[i] : i \in n..Len(q)} \cup {qr[i] : i \in (Len(q) + 1)..Len(qr)}
  BY <1>1, <1>3
<1>7. {qr[i] : i \in n..Len(q)} = {q[i] : i \in n..Len(q)}
  BY <1>2, <1>3
<1>8. {qr[i] : i \in (Len(q) + 1)..Len(qr)} = {r[i] : i \in 1..Len(r)}
  <2>1. \A i \in (Len(q) + 1)..Len(qr) : i - Len(q) \in 1..Len(r)
    BY <1>1, <1>3
  <2>2. \A i \in 1..Len(r) : /\ i + Len(q) \in (Len(q) + 1)..Len(qr)
                             /\ (i + Len(q)) - Len(q) = i
    BY <1>1, <1>3
  <2>3. \A i \in (Len(q) + 1)..Len(qr) : \E k \in 1..Len(r) : qr[i] = r[k]
    BY <2>1, <1>2
  <2>4. \A k \in 1..Len(r) : \E i \in (Len(q) + 1)..Len(qr) : qr[i] = r[k]
    BY <2>2, <1>2
  <2>5. {qr[i] : i \in (Len(q) + 1)..Len(qr)} \subseteq {r[i] : i \in 1..Len(r)}
    BY <2>3
  <2>6. {r[i] : i \in 1..Len(r)} \subseteq {qr[i] : i \in (Len(q) + 1)..Len(qr)}
    BY <2>4
  <2>7. QED
    BY <2>5, <2>6
<1>9. QED
  BY <1>3, <1>4, <1>5, <1>6, <1>7, <1>8 DEF ToSet, qr

(* The equation at the index is pending; past it, only it may have gone.   *)
LEMMA TakeFromQueue ==
  ASSUME NEW S, NEW q \in Seq(S), NEW n \in 1..Len(q)
  PROVE  /\ q[n] \in ToSet(SubSeq(q, n, Len(q)))
         /\ \/ ToSet(SubSeq(q, n + 1, Len(q))) = ToSet(SubSeq(q, n, Len(q))) \ {q[n]}
            \/ ToSet(SubSeq(q, n + 1, Len(q))) = ToSet(SubSeq(q, n, Len(q)))
<1>1. /\ ToSet(SubSeq(q, n, Len(q))) = {q[i] : i \in n..Len(q)}
      /\ ToSet(SubSeq(q, n + 1, Len(q))) = {q[i] : i \in (n + 1)..Len(q)}
  BY RestOfQueue
<1>2. {q[i] : i \in n..Len(q)} = {q[i] : i \in (n + 1)..Len(q)} \cup {q[n]}
  OBVIOUS
<1>3. QED
  BY <1>1, <1>2

(* So does inserting both sides of an equation.                            *)
LEMMA InsertBoth ==
  ASSUME NEW e, Forest(e), NEW t \in Term, NEW u \in Term, NEW i,
         i = Insert(Insert(e, t), u)
  PROVE  /\ Forest(i)
         /\ t \in DOMAIN i /\ u \in DOMAIN i
         /\ \A v \in Term : ClassIn(i, v) = ClassIn(e, v)
<1> DEFINE once == Insert(e, t)
<1>1. /\ Forest(once) /\ DOMAIN once = DOMAIN e \cup {t}
      /\ \A v \in Term : ClassIn(once, v) = ClassIn(e, v)
  BY InsertKeepsClasses
<1> HIDE DEF once
<1>2. /\ Forest(Insert(once, u)) /\ DOMAIN Insert(once, u) = DOMAIN once \cup {u}
      /\ \A v \in Term : ClassIn(Insert(once, u), v) = ClassIn(once, v)
  BY <1>1, InsertKeepsClasses
<1>3. i = Insert(once, u)
  BY DEF once
<1>4. QED
  BY <1>1, <1>2, <1>3

-----------------------------------------------------------------------------
(* What the invariant says of the equation at the index.                   *)
LEMMA UnifyingFacts ==
  ASSUME IInv, NEW r1 \in Term, NEW r2 \in Term, Unifying(r1, r2)
  PROVE  /\ constraints[next] \in Equation
         /\ Forest(Inserted)
         /\ r1 \in DOMAIN Inserted /\ Inserted[r1] = r1
         /\ r2 \in DOMAIN Inserted /\ Inserted[r2] = r2
         /\ r1 = Reps[constraints[next][1]] /\ r2 = Reps[constraints[next][2]]
         /\ \A t \in Term : ClassIn(Inserted, t) = Reps[t]
<1> DEFINE left == constraints[next][1]
           right == constraints[next][2]
<1>1. constraints[next] \in Equation
  BY DEF IInv, TypeOK, Unifying
<1>2. left \in Term /\ right \in Term
  BY <1>1 DEF Equation
<1>3. Inserted = Insert(Insert(edges, left), right)
  BY DEF Inserted
<1>4. r1 = Roots(Inserted)[left] /\ r2 = Roots(Inserted)[right]
  BY DEF Unifying, FindIn
<1> HIDE DEF left, right
<1>5. /\ Forest(Inserted)
      /\ left \in DOMAIN Inserted /\ right \in DOMAIN Inserted
      /\ \A t \in Term : ClassIn(Inserted, t) = ClassIn(edges, t)
  BY <1>2, <1>3, InsertBoth DEF IInv
<1>6. \A t \in Term : ClassIn(Inserted, t) = Reps[t]
  BY <1>5 DEF Reps, Class, ClassIn, FindIn
<1>7. /\ r1 \in DOMAIN Inserted /\ Inserted[r1] = r1
      /\ r2 \in DOMAIN Inserted /\ Inserted[r2] = r2
  BY <1>4, <1>5, RootsAreRoots
<1>8. r1 = Reps[left] /\ r2 = Reps[right]
  BY <1>2, <1>4, <1>5, <1>6 DEF ClassIn
<1>9. QED
  BY <1>1, <1>5, <1>6, <1>7, <1>8 DEF left, right

(* Unifying two variables, or a variable and a proper type, or two proper  *)
(* types, merges the class of the one into that of the other.              *)
LEMMA UnionMerges ==
  ASSUME NEW e, Forest(e), \A t \in Term : ClassIn(e, t) = Reps[t],
         NEW a \in DOMAIN e, NEW b \in DOMAIN e, a # b, e[a] = a, e[b] = b,
         edges' = Union(e, a, b)
  PROVE  Forest(edges') /\ Reps' = [t \in Term |-> IF Reps[t] = a THEN b ELSE Reps[t]]
<1>1. edges' = [e EXCEPT ![a] = b]
  BY UnionLinksRoots
<1>2. /\ Forest(edges')
      /\ \A t \in Term : ClassIn(edges', t) = IF ClassIn(e, t) = a THEN b ELSE ClassIn(e, t)
  <2>1. /\ edges' \in [DOMAIN e -> DOMAIN e]
        /\ edges'[a] = b
        /\ \A u \in DOMAIN e \ {a} : edges'[u] = e[u]
    BY <1>1 DEF Forest
  <2>2. QED
    BY <2>1, LinkMovesClass
<1>3. Reps' = [t \in Term |-> ClassIn(edges', t)]
  BY DEF Reps, Class, ClassIn, FindIn
<1>4. QED
  BY <1>2, <1>3

-----------------------------------------------------------------------------
(* Each action keeps the invariant and is a step of Unification, or none.  *)

(* Nothing is inserted, asked or pending to begin with.                    *)
LEMMA Start ==
  ASSUME Init
  PROVE  IInv /\ Classes!Init
<1>1. TypeOK
  BY DEF Init, TypeOK
<1>2. Forest(edges)
  <2>1. DOMAIN edges = {} /\ edges = [u \in {} |-> u]
    BY DEF Init
  <2>2. Climbs(edges, edges)
    BY <2>1 DEF Climbs
  <2>3. QED
    BY <2>1, <2>2 DEF Forest, Grounded
<1>3. Reps = [t \in Term |-> t]
  BY DEF Init, Reps, Class
<1>4. Pending = {} /\ ToSet(asked) = {}
  BY DEF Init, Pending, ToSet
<1>5. QED
  BY <1>1, <1>2, <1>3, <1>4 DEF IInv, Classes!Init, Init, Reps, Pending

LEMMA AddConstraintStep ==
  ASSUME IInv, NEW e \in Input, AddConstraint(e)
  PROVE  IInv' /\ \E q \in Equation : Classes!Ask(q)
<1> DEFINE new == <<e>>
<1>1. e \in Equation
  BY InputAssumption
<1>2. /\ constraints \in Seq(Equation) /\ next \in 1..(Len(constraints) + 1)
      /\ asked \in Seq(Equation) /\ new \in Seq(Equation)
  BY <1>1 DEF IInv, TypeOK
<1>3. /\ constraints' = constraints \o new /\ Len(constraints') = Len(constraints) + 1
      /\ asked' = asked \o new
  BY <1>2 DEF AddConstraint
<1>4. ToSet(new) = {e}
  BY DEF ToSet
<1> HIDE DEF new
<1>5. Pending' = Pending \cup {e}
  BY <1>2, <1>3, <1>4, AppendToQueue DEF Pending, AddConstraint
<1>6. ToSet(asked') = ToSet(asked) \cup {e}
  <2>1. ToSet(SubSeq(asked', 1, Len(asked'))) = ToSet(SubSeq(asked, 1, Len(asked))) \cup {e}
    <3>1. 1 \in 1..(Len(asked) + 1)
      BY <1>2
    <3>2. QED
      BY <3>1, <1>2, <1>3, <1>4, AppendToQueue
  <2>2. SubSeq(asked, 1, Len(asked)) = asked /\ SubSeq(asked', 1, Len(asked')) = asked'
    BY <1>2, <1>3
  <2>3. QED
    BY <2>1, <2>2
<1>7. Reps' = Reps
  BY DEF AddConstraint, Reps, Class
<1>8. IInv'
  <2>1. constraints' \in Seq(Equation) /\ asked' \in Seq(Equation)
    BY <1>2, <1>3
  <2>2. TypeOK'
    BY <2>1, <1>2, <1>3 DEF IInv, TypeOK, AddConstraint
  <2>3. QED
    BY <2>2 DEF IInv, AddConstraint
<1>9. Classes!Ask(e)
  BY <1>5, <1>6, <1>7 DEF Classes!Ask, AddConstraint, Reps, Pending
<1>10. QED
  BY <1>1, <1>8, <1>9

LEMMA FindStep ==
  ASSUME IInv, NEW t \in Variable, Find(t)
  PROVE  IInv' /\ UNCHANGED Classes!uvars
<1>1. t \in Term
  BY TermAssumption
<1>2. Forest(edges') /\ \A u \in Term : ClassIn(edges', u) = ClassIn(edges, u)
  BY <1>1, InsertKeepsClasses DEF Find, IInv
<1>3. Reps' = Reps
  BY <1>2 DEF Reps, Class, ClassIn, FindIn
<1>4. TypeOK'
  BY DEF IInv, TypeOK, Find
<1>5. QED
  BY <1>2, <1>3, <1>4 DEF IInv, Classes!uvars, Find, Reps

LEMMA SolveStarts ==
  ASSUME IInv, Solve
  PROVE  IInv' /\ UNCHANGED Classes!uvars
<1>1. Reps' = Reps
  BY DEF Solve, Reps, Class
<1>2. QED
  BY <1>1 DEF IInv, TypeOK, Solve, Classes!uvars, Reps

(* When an equation is taken off, the index moves on.                      *)
LEMMA TakenOff ==
  ASSUME IInv, NEW r1 \in Term, NEW r2 \in Term, Unifying(r1, r2),
         constraints' = constraints, next' = next + 1
  PROVE  /\ constraints[next] \in Pending
         /\ Pending' = Pending \ {constraints[next]} \/ Pending' = Pending
         /\ next' \in 1..(Len(constraints') + 1)
<1>1. constraints \in Seq(Equation) /\ next \in 1..Len(constraints)
  BY DEF IInv, TypeOK, Unifying
<1>2. QED
  BY <1>1, TakeFromQueue DEF Pending

LEMMA UnifyEqualStep ==
  ASSUME IInv, NEW r1 \in Term, NEW r2 \in Term, UnifyEqual(r1, r2)
  PROVE  IInv' /\ \E q \in Equation : Classes!Equate(q)
<1> DEFINE q == constraints[next]
<1>1. Unifying(r1, r2) /\ r1 = r2 /\ status = "solving"
  BY DEF UnifyEqual, Unifying
<1>2. /\ q \in Equation /\ Forest(Inserted)
      /\ r1 = Reps[q[1]] /\ r2 = Reps[q[2]]
      /\ \A t \in Term : ClassIn(Inserted, t) = Reps[t]
  BY <1>1, UnifyingFacts
<1>3. Reps' = [t \in Term |-> ClassIn(Inserted, t)]
  BY DEF UnifyEqual, Reps, Class, ClassIn, FindIn
<1>4. Reps' = Reps
  BY <1>2, <1>3 DEF Reps
<1>5. /\ q \in Pending
      /\ Pending' = (Pending \ {q}) \cup {} \/ Pending' = Pending \cup {}
      /\ next' \in 1..(Len(constraints') + 1)
  BY <1>1, TakenOff DEF UnifyEqual
<1>6. IInv'
  BY <1>1, <1>2, <1>5 DEF IInv, TypeOK, UnifyEqual
<1>7. Classes!Equate(q)
  <2>1. Classes!Replace(q, {})
    BY <1>5 DEF Classes!Replace, Pending
  <2>2. QED
    BY <2>1, <1>1, <1>2, <1>4, <1>5 DEF Classes!Equate, UnifyEqual, Reps, Pending
<1>8. QED
  BY <1>2, <1>6, <1>7

LEMMA UnifyVariableStep ==
  ASSUME IInv, NEW r1 \in Term, NEW r2 \in Term, UnifyVariable(r1, r2)
  PROVE  IInv' /\ \E q \in Equation : Classes!Equate(q)
<1> DEFINE q == constraints[next]
<1>1. Unifying(r1, r2) /\ r1 # r2 /\ status = "solving"
  BY DEF UnifyVariable, Unifying
<1>2. /\ q \in Equation /\ Forest(Inserted)
      /\ r1 \in DOMAIN Inserted /\ Inserted[r1] = r1
      /\ r2 \in DOMAIN Inserted /\ Inserted[r2] = r2
      /\ r1 = Reps[q[1]] /\ r2 = Reps[q[2]]
      /\ \A t \in Term : ClassIn(Inserted, t) = Reps[t]
  BY <1>1, UnifyingFacts
<1>3. /\ q \in Pending
      /\ Pending' = (Pending \ {q}) \cup {} \/ Pending' = Pending \cup {}
      /\ next' \in 1..(Len(constraints') + 1)
  BY <1>1, TakenOff DEF UnifyVariable
<1>4. TypeOK'
  BY <1>1, <1>3 DEF IInv, TypeOK, UnifyVariable
<1>5. Classes!Replace(q, {})
  BY <1>3 DEF Classes!Replace, Pending
<1>6. CASE r1 \in Variable
  <2>1. Forest(edges') /\ Reps' = [t \in Term |-> IF Reps[t] = r1 THEN r2 ELSE Reps[t]]
    BY <1>1, <1>2, <1>6, UnionMerges DEF UnifyVariable
  <2>2. Classes!Equate(q)
    BY <2>1, <1>1, <1>2, <1>3, <1>5, <1>6
       DEF Classes!Equate, Classes!Merge, UnifyVariable, Reps, Pending
  <2>3. QED
    BY <2>1, <2>2, <1>2, <1>4 DEF IInv
<1>7. CASE r1 \notin Variable
  <2>1. Forest(edges') /\ Reps' = [t \in Term |-> IF Reps[t] = r2 THEN r1 ELSE Reps[t]]
    BY <1>1, <1>2, <1>7, UnionMerges DEF UnifyVariable
  <2>2. r2 \in Variable
    BY <1>7 DEF UnifyVariable
  <2>3. Classes!Equate(q)
    BY <2>1, <2>2, <1>1, <1>2, <1>3, <1>5
       DEF Classes!Equate, Classes!Merge, UnifyVariable, Reps, Pending
  <2>4. QED
    BY <2>1, <2>3, <1>2, <1>4 DEF IInv
<1>8. QED
  BY <1>6, <1>7

(* The equations between subterms, in order, are the decomposition.        *)
LEMMA SubtermPairsFacts ==
  ASSUME NEW t \in Term, NEW u \in Term, Matches(t, u)
  PROVE  /\ SubtermPairs(t, u) \in Seq(Equation)
         /\ ToSet(SubtermPairs(t, u)) = Classes!Decomposition(t, u)
<1>1. /\ Subterms[t] \in Seq(Term) /\ Subterms[u] \in Seq(Term)
      /\ Len(Subterms[t]) = Len(Subterms[u])
  BY TermAssumption DEF Matches
<1>2. \A i \in 1..Len(Subterms[t]) : <<Subterms[t][i], Subterms[u][i]>> \in Equation
  BY <1>1 DEF Equation
<1>3. DOMAIN Subterms[t] = 1..Len(Subterms[t]) /\ Len(Subterms[t]) \in Nat
  BY <1>1
<1>4. SubtermPairs(t, u) \in Seq(Equation)
  BY <1>2, <1>3 DEF SubtermPairs
<1>5. ToSet(SubtermPairs(t, u)) = Classes!Decomposition(t, u)
  BY DEF ToSet, SubtermPairs, Classes!Decomposition
<1>6. QED
  BY <1>4, <1>5

LEMMA UnifyProperStep ==
  ASSUME IInv, NEW r1 \in Term, NEW r2 \in Term, UnifyProper(r1, r2)
  PROVE  IInv' /\ \E q \in Equation : Classes!Equate(q)
<1> DEFINE q == constraints[next]
           pairs == SubtermPairs(r1, r2)
<1>1. /\ Unifying(r1, r2) /\ r1 # r2 /\ status = "solving"
      /\ r1 \notin Variable /\ r2 \notin Variable /\ Matches(r1, r2)
  BY DEF UnifyProper, Unifying, BothProper
<1>2. /\ q \in Equation /\ Forest(Inserted)
      /\ r1 \in DOMAIN Inserted /\ Inserted[r1] = r1
      /\ r2 \in DOMAIN Inserted /\ Inserted[r2] = r2
      /\ r1 = Reps[q[1]] /\ r2 = Reps[q[2]]
      /\ \A t \in Term : ClassIn(Inserted, t) = Reps[t]
  BY <1>1, UnifyingFacts
<1>3. pairs \in Seq(Equation) /\ ToSet(pairs) = Classes!Decomposition(r1, r2)
  BY <1>1, SubtermPairsFacts
<1>4. /\ constraints \in Seq(Equation) /\ next \in 1..Len(constraints)
      /\ constraints' = constraints \o pairs /\ next' = next + 1
  BY <1>1 DEF IInv, TypeOK, Unifying, UnifyProper
<1> HIDE DEF pairs
<1>5. TypeOK'
  <2>1. constraints' \in Seq(Equation) /\ Len(constraints') = Len(constraints) + Len(pairs)
    BY <1>3, <1>4
  <2>2. Len(pairs) \in Nat /\ Len(constraints) \in Nat
    BY <1>3, <1>4
  <2>3. QED
    BY <2>1, <2>2, <1>1, <1>4 DEF IInv, TypeOK, UnifyProper
<1>6. q \in Pending /\ Classes!Replace(q, Classes!Decomposition(r1, r2))
  <2> DEFINE rest == ToSet(SubSeq(constraints, next + 1, Len(constraints)))
  <2>1. q \in Pending /\ (rest = Pending \ {q} \/ rest = Pending)
    BY <1>4, TakeFromQueue DEF Pending
  <2>2. next' \in 1..(Len(constraints) + 1)
    BY <1>4
  <2>3. Pending' = rest \cup ToSet(pairs)
    BY <2>2, <1>3, <1>4, AppendToQueue DEF Pending
  <2> HIDE DEF rest
  <2>4. QED
    BY <2>1, <2>3, <1>3 DEF Classes!Replace, Pending
<1>7. Forest(edges') /\ Reps' = [t \in Term |-> IF Reps[t] = r1 THEN r2 ELSE Reps[t]]
  BY <1>1, <1>2, UnionMerges DEF UnifyProper
<1>8. Classes!Equate(q)
  BY <1>1, <1>2, <1>6, <1>7
     DEF Classes!Equate, Classes!Merge, Classes!Matches, Matches, UnifyProper, Reps, Pending
<1>9. QED
  BY <1>2, <1>5, <1>7, <1>8 DEF IInv

LEMMA ThrowStep ==
  ASSUME IInv, NEW r1 \in Term, NEW r2 \in Term, Throw(r1, r2)
  PROVE  IInv' /\ \E q \in Equation : Classes!Clash(q)
<1> DEFINE q == constraints[next]
<1>1. /\ Unifying(r1, r2) /\ r1 \notin Variable /\ r2 \notin Variable
      /\ ~Matches(r1, r2) /\ status = "solving"
  BY DEF Throw, Unifying, BothProper
<1>2. /\ q \in Equation /\ Forest(Inserted)
      /\ r1 = Reps[q[1]] /\ r2 = Reps[q[2]]
      /\ \A t \in Term : ClassIn(Inserted, t) = Reps[t]
  BY <1>1, UnifyingFacts
<1>3. Reps' = Reps
  BY <1>2 DEF Throw, Reps, Class, ClassIn, FindIn
<1>4. q \in Pending
  BY <1>1, TakeFromQueue DEF IInv, TypeOK, Unifying, Pending
<1>5. IInv'
  BY <1>2 DEF IInv, TypeOK, Throw
<1>6. Classes!Clash(q)
  BY <1>1, <1>2, <1>3, <1>4 DEF Classes!Clash, Classes!Matches, Matches, Throw, Reps, Pending
<1>7. QED
  BY <1>2, <1>5, <1>6

(* Erasing the equations that have been processed leaves none pending:     *)
(* none was.                                                               *)
LEMMA SolveCompleteStep ==
  ASSUME IInv, SolveComplete
  PROVE  IInv' /\ UNCHANGED Classes!uvars
<1>1. Pending = {}
  <2>1. constraints \in Seq(Equation) /\ next = Len(constraints) + 1
    BY DEF IInv, TypeOK, SolveComplete
  <2>2. Pending = {constraints[i] : i \in next..Len(constraints)}
    BY <2>1, RestOfQueue DEF Pending, IInv, TypeOK
  <2>3. next..Len(constraints) = {}
    BY <2>1
  <2>4. QED
    BY <2>2, <2>3
<1>2. Pending' = {}
  BY DEF Pending, SolveComplete, ToSet
<1>3. Reps' = Reps
  BY DEF SolveComplete, Reps, Class
<1>4. IInv'
  BY DEF IInv, TypeOK, SolveComplete
<1>5. QED
  BY <1>1, <1>2, <1>3, <1>4 DEF Classes!uvars, SolveComplete, Reps, Pending

LEMMA NextStep ==
  ASSUME IInv, [Next]_vars
  PROVE  IInv' /\ [Classes!Next]_(Classes!uvars)
<1>1. CASE UNCHANGED vars
  BY <1>1 DEF vars, IInv, TypeOK, Classes!uvars, Class
<1>2. ASSUME NEW e \in Input, AddConstraint(e) PROVE IInv' /\ [Classes!Next]_(Classes!uvars)
  BY <1>2, AddConstraintStep DEF Classes!Next, Equation, Classes!Equation
<1>3. ASSUME NEW t \in Variable, Find(t) PROVE IInv' /\ [Classes!Next]_(Classes!uvars)
  BY <1>3, FindStep
<1>4. CASE Solve
  BY <1>4, SolveStarts
<1>5. ASSUME NEW r1 \in Term, NEW r2 \in Term,
             \/ UnifyEqual(r1, r2) \/ UnifyVariable(r1, r2) \/ UnifyProper(r1, r2)
             \/ Throw(r1, r2)
      PROVE  IInv' /\ [Classes!Next]_(Classes!uvars)
  BY <1>5, UnifyEqualStep, UnifyVariableStep, UnifyProperStep, ThrowStep
     DEF Classes!Next, Equation, Classes!Equation
<1>6. CASE SolveComplete
  BY <1>6, SolveCompleteStep
<1>7. QED
  BY <1>1, <1>2, <1>3, <1>4, <1>5, <1>6 DEF Next, SolveStep

-----------------------------------------------------------------------------
THEOREM Invariance == Spec => []IInv
<1>1. Init => IInv
  BY Start
<1>2. IInv /\ [Next]_vars => IInv'
  BY NextStep
<1>3. QED
  BY <1>1, <1>2, PTL DEF Spec

(* Every reachable state has its type: in particular solve's index is      *)
(* never past the end of the queue by more than one.                       *)
THEOREM TypeCorrect == Spec => []TypeOK
<1>1. IInv => TypeOK
  BY DEF IInv
<1>2. QED
  BY <1>1, Invariance, PTL

(* The loop of TermUnionFind::find ends: parent edges close no cycle but   *)
(* a root's own, however the terms refer to each other.                    *)
THEOREM FindEnds == Spec => []FindTerminates
<1>1. IInv => FindTerminates
  BY DEF IInv, Forest, Grounded, FindTerminates
<1>2. QED
  BY <1>1, Invariance, PTL

(* Merging two classes leaves one representative fewer.                    *)
LEMMA MergeLosesOne ==
  ASSUME NEW a \in Representatives, NEW b \in Representatives, a # b,
         Reps' = [t \in Term |-> IF Reps[t] = a THEN b ELSE Reps[t]]
  PROVE  Representatives' \subseteq Representatives /\ Representatives' # Representatives
<1>1. \A t \in Term : Class(t)' = IF Class(t) = a THEN b ELSE Class(t)
  BY DEF Reps
<1>2. Representatives' = {IF Class(t) = a THEN b ELSE Class(t) : t \in Term}
  BY <1>1 DEF Representatives
<1>3. a \notin Representatives'
  BY <1>2
<1>4. Representatives' \subseteq Representatives
  BY <1>2 DEF Representatives
<1>5. QED
  BY <1>3, <1>4

(* Two different roots on which unify works are representatives.           *)
LEMMA MergingLosesOne ==
  ASSUME IInv, NEW r1 \in Term, NEW r2 \in Term, Unifying(r1, r2), r1 # r2,
         edges' = Union(Inserted, r1, r2) \/ edges' = Union(Inserted, r2, r1)
  PROVE  Representatives' \subseteq Representatives /\ Representatives' # Representatives
<1>1. /\ Forest(Inserted)
      /\ r1 \in DOMAIN Inserted /\ Inserted[r1] = r1
      /\ r2 \in DOMAIN Inserted /\ Inserted[r2] = r2
      /\ \A t \in Term : ClassIn(Inserted, t) = Reps[t]
  BY UnifyingFacts
<1>2. r1 \in Representatives /\ r2 \in Representatives
  <2>1. /\ constraints[next][1] \in Term /\ constraints[next][2] \in Term
        /\ r1 = Reps[constraints[next][1]] /\ r2 = Reps[constraints[next][2]]
    BY UnifyingFacts DEF Equation
  <2>2. QED
    BY <2>1 DEF Reps, Representatives
<1>3. CASE edges' = Union(Inserted, r1, r2)
  BY <1>1, <1>2, <1>3, UnionMerges, MergeLosesOne
<1>4. CASE edges' = Union(Inserted, r2, r1)
  BY <1>1, <1>2, <1>4, UnionMerges, MergeLosesOne
<1>5. QED
  BY <1>3, <1>4

(* Each turn of solve's loop loses a representative or leaves fewer        *)
(* equations to process. With finitely many terms the pair, of how many    *)
(* representatives and how many equations there are, cannot go down for    *)
(* ever: solve() ends on cyclic terms too.                                 *)
THEOREM SolveRunsOut == Spec => SolveRunsDown
<1> DEFINE Down == status = "solving" /\ status' = "solving" =>
       \/ Representatives' \subseteq Representatives /\ Representatives' # Representatives
       \/ /\ Representatives' = Representatives
          /\ Len(constraints') - next' < Len(constraints) - next
<1>1. ASSUME IInv, Next PROVE Down
  <2> SUFFICES ASSUME status = "solving", status' = "solving" PROVE Down
    OBVIOUS
  <2>1. ASSUME NEW r1 \in Term, NEW r2 \in Term, UnifyEqual(r1, r2) PROVE Down
    <3>1. Unifying(r1, r2) /\ constraints' = constraints /\ next' = next + 1
      BY <2>1 DEF UnifyEqual
    <3>2. constraints \in Seq(Equation) /\ next \in Nat
      BY <1>1 DEF IInv, TypeOK
    <3>3. Len(constraints') - next' < Len(constraints) - next
      BY <3>1, <3>2
    <3>4. \A t \in Term : ClassIn(Inserted, t) = Class(t)
      BY <3>1, <1>1, UnifyingFacts DEF Reps
    <3>5. \A t \in Term : Class(t)' = Class(t)
      BY <2>1, <3>4 DEF UnifyEqual, Class, ClassIn, FindIn
    <3>6. Representatives' = Representatives
      BY <3>5 DEF Representatives
    <3>7. QED
      BY <3>3, <3>6
  <2>2. ASSUME NEW r1 \in Term, NEW r2 \in Term, UnifyVariable(r1, r2) PROVE Down
    BY <2>2, <1>1, MergingLosesOne DEF UnifyVariable
  <2>3. ASSUME NEW r1 \in Term, NEW r2 \in Term, UnifyProper(r1, r2) PROVE Down
    BY <2>3, <1>1, MergingLosesOne DEF UnifyProper, BothProper
  <2>4. ~Solve /\ ~SolveComplete /\ \A e \in Input : ~AddConstraint(e)
    BY DEF Solve, SolveComplete, AddConstraint
  <2>5. \A t \in Variable : ~Find(t)
    BY DEF Find
  <2>6. \A r1, r2 \in Term : ~Throw(r1, r2)
    BY DEF Throw
  <2>7. QED
    BY <1>1, <2>1, <2>2, <2>3, <2>4, <2>5, <2>6 DEF Next, SolveStep
<1>2. IInv /\ [Next]_vars => [Down]_vars
  BY <1>1
<1>3. QED
  BY <1>2, Invariance, PTL DEF Spec, SolveRunsDown

(* Every run of the unifier is one of the abstract unification: its queue, *)
(* its batches and its parent edges add no behaviour.                      *)
THEOREM Refinement == Spec => UnificationSpec
<1>1. Init => Classes!Init
  BY Start
<1>2. IInv /\ [Next]_vars => [Classes!Next]_(Classes!uvars)
  BY NextStep
<1>3. QED
  BY <1>1, <1>2, Invariance, PTL DEF Spec, UnificationSpec, Classes!Spec

-----------------------------------------------------------------------------
(* What is proved of Unification, read with the unifier's classes.         *)
Proved == INSTANCE UnificationProofs WITH
            rep     <- [t \in Term |-> Class(t)],
            asked   <- ToSet(asked),
            pending <- ToSet(SubSeq(constraints, next, Len(constraints))),
            failed  <- status = "threw"

LEMMA Transfer == Spec => Proved!Spec
<1>1. Classes!Init => Proved!Init
  BY DEF Classes!Init, Proved!Init
<1>2. [Classes!Next]_(Classes!uvars) => [Proved!Next]_(Proved!uvars)
  BY DEF Classes!Next, Classes!Ask, Classes!Equate, Classes!Clash, Classes!Merge,
         Classes!Replace, Classes!Decomposition, Classes!Matches, Classes!Equation,
         Classes!uvars,
         Proved!Next, Proved!Ask, Proved!Equate, Proved!Clash, Proved!Merge,
         Proved!Replace, Proved!Decomposition, Proved!Matches, Proved!Equation,
         Proved!uvars
<1>3. QED
  BY <1>1, <1>2, Refinement, PTL DEF UnificationSpec, Classes!Spec, Proved!Spec

(* The assumption on the terms is the same one.                            *)
LEMMA TransferAssumption == Proved!TermAssumption
BY TermAssumption DEF Proved!TermAssumption

(* Between solves the representatives solve every equation asked, those of *)
(* the batches of other functions included.                                *)
THEOREM Completeness == Spec => []SolvedWhenDone
<1>1. Proved!SolvedWhenDone => SolvedWhenDone
  BY DEF SolvedWhenDone, Classes!SolvedWhenDone, Classes!Solution, Classes!Solves,
         Classes!Congruent, Classes!Matches,
         Proved!SolvedWhenDone, Proved!Solution, Proved!Solves,
         Proved!Congruent, Proved!Matches
<1>2. Proved!Spec => []Proved!SolvedWhenDone
  BY TransferAssumption, Proved!Completeness, PTL
<1>3. QED
  BY <1>1, <1>2, Transfer, PTL

(* Terms have one representative only if every solution equates them: no   *)
(* inferred type is less general than its constraints demand.              *)
THEOREM Generality == Spec => []MostGeneral
<1>1. Proved!MostGeneral => MostGeneral
  BY DEF MostGeneral, Classes!MostGeneral, Classes!Partition, Classes!Solution,
         Classes!Solves, Classes!Congruent, Classes!Matches,
         Proved!MostGeneral, Proved!Partition, Proved!Solution,
         Proved!Solves, Proved!Congruent, Proved!Matches
<1>2. Proved!Spec => []Proved!MostGeneral
  BY TransferAssumption, Proved!Generality, PTL
<1>3. QED
  BY <1>1, <1>2, Transfer, PTL

(* A TermUnificationError means that the equations have no solution.       *)
THEOREM Refutation == Spec => []FailureIsReal
<1>1. Proved!FailureIsReal => FailureIsReal
  BY DEF FailureIsReal, Classes!FailureIsReal, Classes!Partition, Classes!Solution,
         Classes!Solves, Classes!Congruent, Classes!Matches,
         Proved!FailureIsReal, Proved!Partition, Proved!Solution,
         Proved!Solves, Proved!Congruent, Proved!Matches
<1>2. Proved!Spec => []Proved!FailureIsReal
  BY TransferAssumption, Proved!Refutation, PTL
<1>3. QED
  BY <1>1, <1>2, Transfer, PTL

(* A proper type is never represented by a variable.                       *)
THEOREM ProperTypesRepresent == Spec => []ProperRepresentative
<1>1. Proved!ProperRepresentative => ProperRepresentative
  BY DEF ProperRepresentative, Classes!ProperRepresentative, Proved!ProperRepresentative
<1>2. Proved!Spec => []Proved!ProperRepresentative
  BY TransferAssumption, Proved!ProperTypesRepresent, PTL
<1>3. QED
  BY <1>1, <1>2, Transfer, PTL
=============================================================================
