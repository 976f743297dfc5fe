------------------------ MODULE MatchOwnershipProofs ------------------------
(***************************************************************************)
(* Proofs about MatchOwnership, for every set of names and boxes, every    *)
(* set of patterns and every depth of cases: what the analysis accepts     *)
(* frees every box once, uses none that is freed, and leaves what was lent *)
(* whole.                                                                  *)
(***************************************************************************)
EXTENDS MatchOwnership, FiniteSetTheorems, SequenceTheorems, WellFoundedInduction, TLAPS

-----------------------------------------------------------------------------
(* Heaps: L are the live boxes, M the payloads of each box, and R the      *)
(* boxes that are no payload: the roots, which somebody else has to free.  *)

(* f is the tree below each box.                                           *)
Solves(M, f) == f = [d \in Cell |-> {d} \cup UNION {f[k] : k \in M[d]}]

Grounded(M) == \A C \in SUBSET Cell : C # {} => \E d \in C : M[d] \cap C = {}
Rooted(M) == \A C \in SUBSET Cell : C # {} => \E d \in C : \A p \in C : d \notin M[p]

Heap(L, M, R) ==
  /\ L \subseteq Cell
  /\ R \subseteq L
  /\ M \in [Cell -> SUBSET Cell]
  /\ \A d \in Cell \ L : M[d] = {}
  /\ \A d \in Cell : M[d] \subseteq L \ R
  /\ \A d, e \in Cell : M[d] \cap M[e] # {} => d = e
  /\ \A c \in L \ R : \E d \in L : c \in M[d]
  /\ Grounded(M) /\ Rooted(M)
  /\ \E f : Solves(M, f)

Cleared(M, S) == [d \in Cell |-> IF d \in S THEN {} ELSE M[d]]

(* What is below a box.                                                    *)
LEMMA Below ==
  ASSUME NEW M \in [Cell -> SUBSET Cell], Grounded(M), NEW f, Solves(M, f)
  PROVE  /\ \A d \in Cell : f[d] = {d} \cup UNION {f[k] : k \in M[d]}
         /\ \A d \in Cell : f[d] \subseteq Cell /\ d \in f[d]
         /\ \A d \in Cell : \A e \in f[d] : f[e] \subseteq f[d]
         /\ \A d \in Cell : \A e \in f[d] : e = d \/ \E p \in f[d] : e \in M[p]
<1>1. \A d \in Cell : f[d] = {d} \cup UNION {f[k] : k \in M[d]}
  BY DEF Solves
<1>2. \A d \in Cell : f[d] \subseteq Cell
  <2> DEFINE Bad == {d \in Cell : ~(f[d] \subseteq Cell)}
  <2>1. Bad = {}
    <3> SUFFICES ASSUME Bad # {} PROVE FALSE
      OBVIOUS
    <3>1. PICK d \in Bad : M[d] \cap Bad = {}
      BY DEF Grounded
    <3> QED
      BY <1>1, <3>1
  <2> QED
    BY <2>1
<1>3. \A d \in Cell : \A k \in M[d] : f[k] \subseteq f[d]
  BY <1>1
<1>4. \A d \in Cell : \A e \in f[d] : f[e] \subseteq f[d]
  <2> DEFINE Bad == {d \in Cell : \E e \in f[d] : ~(f[e] \subseteq f[d])}
  <2>1. Bad = {}
    <3> SUFFICES ASSUME Bad # {} PROVE FALSE
      OBVIOUS
    <3>1. PICK d \in Bad : M[d] \cap Bad = {}
      BY DEF Grounded
    <3>2. PICK e \in f[d] : ~(f[e] \subseteq f[d])
      BY <3>1
    <3>3. PICK k \in M[d] : e \in f[k]
      BY <1>1, <3>1, <3>2
    <3>4. k \in Cell /\ f[e] \subseteq f[k]
      BY <3>1, <3>3
    <3> QED
      BY <1>3, <3>1, <3>2, <3>3, <3>4
  <2> QED
    BY <2>1
<1>5. \A d \in Cell : \A e \in f[d] : e = d \/ \E p \in f[d] : e \in M[p]
  <2> DEFINE Bad == {d \in Cell : \E e \in f[d] : ~(e = d \/ \E p \in f[d] : e \in M[p])}
  <2>1. Bad = {}
    <3> SUFFICES ASSUME Bad # {} PROVE FALSE
      OBVIOUS
    <3>1. PICK d \in Bad : M[d] \cap Bad = {}
      BY DEF Grounded
    <3>2. PICK e \in f[d] : ~(e = d \/ \E p \in f[d] : e \in M[p])
      BY <3>1
    <3>3. PICK k \in M[d] : e \in f[k]
      BY <1>1, <3>1, <3>2
    <3>4. k \in Cell /\ k \notin Bad /\ d \in f[d] /\ f[k] \subseteq f[d]
      BY <1>1, <1>3, <3>1, <3>3
    <3>5. e = k \/ \E p \in f[k] : e \in M[p]
      BY <3>3, <3>4
    <3> QED
      BY <3>2, <3>3, <3>4, <3>5
  <2> QED
    BY <2>1
<1> QED
  BY <1>1, <1>2, <1>4, <1>5

(* Only one function is the trees of the boxes.                            *)
LEMMA OneSolution ==
  ASSUME NEW M \in [Cell -> SUBSET Cell], Grounded(M), NEW f, NEW g, Solves(M, f), Solves(M, g)
  PROVE  f = g
<1> DEFINE Bad == {d \in Cell : f[d] # g[d]}
<1>1. /\ \A d \in Cell : f[d] = {d} \cup UNION {f[k] : k \in M[d]}
      /\ \A d \in Cell : g[d] = {d} \cup UNION {g[k] : k \in M[d]}
  BY DEF Solves
<1>2. Bad = {}
  <2> SUFFICES ASSUME Bad # {} PROVE FALSE
    OBVIOUS
  <2>1. PICK d \in Bad : M[d] \cap Bad = {}
    BY DEF Grounded
  <2>2. \A k \in M[d] : f[k] = g[k]
    BY <2>1
  <2>3. {f[k] : k \in M[d]} = {g[k] : k \in M[d]}
    BY <2>2
  <2> QED
    BY <1>1, <2>1, <2>3
<1>3. f = [d \in Cell |-> f[d]] /\ g = [d \in Cell |-> g[d]]
  BY DEF Solves
<1> QED
  BY <1>2, <1>3

LEMMA HeapTrees ==
  ASSUME NEW L, NEW M, NEW R, Heap(L, M, R), NEW f, Solves(M, f)
  PROVE  /\ \A d \in Cell : f[d] \subseteq Cell /\ d \in f[d]
         /\ \A d \in Cell : \A e \in f[d] : f[e] \subseteq f[d]
         /\ \A d \in Cell : \A k \in M[d] : k \in f[d]
         /\ \A d \in L : f[d] \subseteq L
         /\ \A d \in R : \A k \in f[d] : \A p \in Cell : k # d /\ k \in M[p] => p \in f[d]
         /\ \A d \in R : \A e \in Cell \ f[d] : f[e] \cap f[d] = {}
         /\ \A d, e \in R : d # e => f[e] \cap f[d] = {}
<1>0. /\ M \in [Cell -> SUBSET Cell] /\ Grounded(M) /\ L \subseteq Cell /\ R \subseteq L
      /\ \A d \in Cell : M[d] \subseteq L \ R
      /\ \A d, e \in Cell : M[d] \cap M[e] # {} => d = e
  BY DEF Heap
<1>1. /\ \A d \in Cell : f[d] = {d} \cup UNION {f[k] : k \in M[d]}
      /\ \A d \in Cell : f[d] \subseteq Cell /\ d \in f[d]
      /\ \A d \in Cell : \A e \in f[d] : f[e] \subseteq f[d]
      /\ \A d \in Cell : \A e \in f[d] : e = d \/ \E p \in f[d] : e \in M[p]
  BY <1>0, Below
<1>2. \A d \in Cell : \A k \in M[d] : k \in f[d]
  BY <1>0, <1>1
<1>3. \A d \in L : f[d] \subseteq L
  BY <1>0, <1>1
<1>4. \A d \in R : \A k \in f[d] : \A p \in Cell : k # d /\ k \in M[p] => p \in f[d]
  <2> TAKE d \in R
  <2> TAKE k \in f[d]
  <2> TAKE p \in Cell
  <2> HAVE k # d /\ k \in M[p]
  <2>1. PICK q \in f[d] : k \in M[q]
    BY <1>0, <1>1
  <2>2. q = p
    BY <1>0, <1>1, <2>1
  <2> QED
    BY <2>1, <2>2
<1>5. \A d \in R : \A e \in Cell \ f[d] : f[e] \cap f[d] = {}
  <2> TAKE d \in R
  <2> DEFINE Bad == {e \in Cell \ f[d] : f[e] \cap f[d] # {}}
  <2>1. Bad = {}
    <3> SUFFICES ASSUME Bad # {} PROVE FALSE
      OBVIOUS
    <3>1. PICK e \in Bad : M[e] \cap Bad = {}
      BY <1>0 DEF Grounded
    <3>2. PICK x \in f[e] : x \in f[d]
      BY <3>1
    <3>3. PICK k \in M[e] : x \in f[k]
      BY <1>1, <3>1, <3>2
    <3>4. k \in Cell /\ k \notin Bad /\ k # d
      BY <1>0, <3>1, <3>3
    <3>5. k \in f[d]
      BY <3>2, <3>3, <3>4
    <3> QED
      BY <1>4, <3>1, <3>3, <3>4, <3>5
  <2> QED
    BY <2>1
<1>6. \A d, e \in R : d # e => f[e] \cap f[d] = {}
  <2> TAKE d, e \in R
  <2> HAVE d # e
  <2>1. e \notin f[d]
    BY <1>0, <1>1
  <2> QED
    BY <1>0, <1>5, <2>1
<1> QED
  BY <1>1, <1>2, <1>3, <1>4, <1>5, <1>6

(* The trees when boxes that are no payload get other payloads.            *)
Within(M, N, T) == \A d \in Cell : N[d] \cap T = {} /\ (d \notin T => N[d] = M[d])

LEMMA NewTrees ==
  ASSUME NEW M \in [Cell -> SUBSET Cell], NEW N \in [Cell -> SUBSET Cell], NEW f, Solves(M, f), NEW T,
         Within(M, N, T)
  PROVE  \E g : Solves(N, g) /\ \A d \in Cell \ T : g[d] = f[d]
<1>0. /\ \A d \in Cell : N[d] \cap T = {}
      /\ \A d \in Cell \ T : N[d] = M[d]
  BY DEF Within
<1> DEFINE g == [d \in Cell |-> IF d \in T THEN {d} \cup UNION {f[k] : k \in N[d]} ELSE f[d]]
<1>1. /\ \A d \in Cell \ T : g[d] = f[d]
      /\ \A d \in Cell \cap T : g[d] = {d} \cup UNION {f[k] : k \in N[d]}
  OBVIOUS
<1>2. g = [d \in Cell |-> g[d]]
  OBVIOUS
<1> HIDE DEF g
<1>3. \A d \in Cell : {g[k] : k \in N[d]} = {f[k] : k \in N[d]}
  <2> TAKE d \in Cell
  <2>1. \A k \in N[d] : g[k] = f[k]
    BY <1>0, <1>1
  <2> QED
    BY <2>1
<1>4. \A d \in Cell : f[d] = {d} \cup UNION {f[k] : k \in M[d]}
  BY DEF Solves
<1>5. \A d \in Cell : g[d] = {d} \cup UNION {g[k] : k \in N[d]}
  <2> TAKE d \in Cell
  <2>1. CASE d \in T
    BY <1>1, <1>3, <2>1
  <2>2. CASE d \notin T
    BY <1>0, <1>1, <1>3, <1>4, <2>2
  <2> QED
    BY <2>1, <2>2
<1>6. Solves(N, g)
  BY <1>2, <1>5 DEF Solves
<1> QED
  BY <1>1, <1>6

(* Fewer payloads are still grounded.                                      *)
LEMMA GroundedCleared ==
  ASSUME NEW M, Grounded(M), NEW S
  PROVE  Grounded(Cleared(M, S))
  BY DEF Grounded, Cleared

LEMMA RootedCleared ==
  ASSUME NEW M, Rooted(M), NEW S
  PROVE  Rooted(Cleared(M, S))
<1> SUFFICES ASSUME NEW C \in SUBSET Cell, C # {}
             PROVE  \E d \in C : \A p \in C : d \notin Cleared(M, S)[p]
  BY DEF Rooted
<1>1. PICK d \in C : \A p \in C : d \notin M[p]
  BY DEF Rooted
<1>2. \A p \in C : Cleared(M, S)[p] = IF p \in S THEN {} ELSE M[p]
  BY DEF Cleared
<1> QED
  BY <1>1, <1>2

(* Every live box is in the tree of a root: the boxes that are in none     *)
(* would each be the payload of another one of them.                       *)
LEMMA NothingUnheld ==
  ASSUME NEW L, NEW M, NEW R, Heap(L, M, R), NEW f, Solves(M, f)
  PROVE  \A x : x \in L <=> \E r \in R : x \in f[r]
<1>1. /\ M \in [Cell -> SUBSET Cell] /\ Rooted(M) /\ L \subseteq Cell /\ R \subseteq L
      /\ \A c \in L \ R : \E d \in L : c \in M[d]
  BY DEF Heap
<1>2. /\ \A d \in Cell : f[d] \subseteq Cell /\ d \in f[d]
      /\ \A d \in Cell : \A e \in f[d] : f[e] \subseteq f[d]
      /\ \A d \in Cell : \A k \in M[d] : k \in f[d]
      /\ \A d \in L : f[d] \subseteq L
  BY HeapTrees
<1> DEFINE C == {x \in L : \A r \in R : x \notin f[r]}
<1>3. C = {}
  <2> SUFFICES ASSUME C # {} PROVE FALSE
    OBVIOUS
  <2>1. PICK c \in C : \A p \in C : c \notin M[p]
    BY <1>1 DEF Rooted
  <2>2. PICK d \in L : c \in M[d]
    BY <1>1, <1>2, <2>1
  <2>3. PICK r \in R : d \in f[r]
    BY <2>1, <2>2
  <2>4. c \in f[r]
    BY <1>1, <1>2, <2>2, <2>3
  <2> QED
    BY <2>1, <2>4
<1> QED
  BY <1>1, <1>2, <1>3

(* The trees of some of the roots are freed.                               *)
LEMMA RootsFreed ==
  ASSUME NEW L, NEW M, NEW R, Heap(L, M, R), NEW f, Solves(M, f), NEW S \in SUBSET R
  PROVE  \A F : (\A x : x \in F <=> \E s \in S : x \in f[s]) =>
           Heap(L \ F, Cleared(M, F), R \ S)
<1>0. SUFFICES ASSUME NEW F, \A x : x \in F <=> \E s \in S : x \in f[s]
               PROVE  Heap(L \ F, Cleared(M, F), R \ S)
  OBVIOUS
<1>1. /\ M \in [Cell -> SUBSET Cell] /\ Grounded(M) /\ Rooted(M) /\ L \subseteq Cell /\ R \subseteq L
      /\ \A d \in Cell \ L : M[d] = {}
      /\ \A d \in Cell : M[d] \subseteq L \ R
      /\ \A d, e \in Cell : M[d] \cap M[e] # {} => d = e
      /\ \A c \in L \ R : \E d \in L : c \in M[d]
  BY DEF Heap
<1>2. /\ \A d \in Cell : f[d] = {d} \cup UNION {f[k] : k \in M[d]}
      /\ \A d \in Cell : f[d] \subseteq Cell /\ d \in f[d]
      /\ \A d \in Cell : \A e \in f[d] : f[e] \subseteq f[d]
      /\ \A d \in Cell : \A k \in M[d] : k \in f[d]
      /\ \A d \in L : f[d] \subseteq L
      /\ \A d \in R : \A k \in f[d] : \A p \in Cell : k # d /\ k \in M[p] => p \in f[d]
      /\ \A d \in R : \A e \in Cell \ f[d] : f[e] \cap f[d] = {}
      /\ \A d, e \in R : d # e => f[e] \cap f[d] = {}
  BY <1>1, HeapTrees, Below
<1>3. F \subseteq L /\ S \subseteq F
  BY <1>0, <1>1, <1>2
<1>4. \A d \in R \ S : f[d] \cap F = {}
  BY <1>0, <1>2
<1>5. \A d \in Cell \ F : f[d] \cap F = {}
  BY <1>0, <1>1, <1>2
<1>6. \A d \in F : M[d] \subseteq F
  BY <1>0, <1>1, <1>2
<1> DEFINE N == Cleared(M, F)
<1>7. N \in [Cell -> SUBSET Cell] /\ \A d \in Cell : N[d] = IF d \in F THEN {} ELSE M[d]
  BY <1>1 DEF Cleared
<1>8. Grounded(N) /\ Rooted(N)
  BY <1>1, GroundedCleared, RootedCleared
<1> HIDE DEF N
<1>9. \E g : Solves(N, g)
  <2>1. \A d \in Cell : N[d] \cap F = {}
    BY <1>1, <1>2, <1>5, <1>7
  <2>2. \A d \in Cell \ F : N[d] = M[d]
    BY <1>7
  <2> QED
    <3>1. M \in [Cell -> SUBSET Cell] /\ N \in [Cell -> SUBSET Cell]
      BY <1>1, <1>7
    <3>2. Within(M, N, F)
      BY <2>1, <2>2 DEF Within
    <3> QED
      BY <3>1, <3>2, NewTrees
<1>10. R \ S \subseteq L \ F
  BY <1>0, <1>1, <1>2, <1>4
<1>11. \A d \in Cell : N[d] \subseteq (L \ F) \ (R \ S)
  BY <1>1, <1>2, <1>5, <1>7
<1>12. \A c \in (L \ F) \ (R \ S) : \E d \in L \ F : c \in N[d]
  <2> TAKE c \in (L \ F) \ (R \ S)
  <2>1. PICK d \in L : c \in M[d]
    BY <1>1, <1>3
  <2>2. d \notin F
    BY <1>6, <2>1
  <2> QED
    BY <1>1, <1>7, <2>1, <2>2
<1>13. /\ L \ F \subseteq Cell
       /\ \A d \in Cell \ (L \ F) : N[d] = {}
       /\ \A d, e \in Cell : N[d] \cap N[e] # {} => d = e
  BY <1>1, <1>7
<1>14. Heap(L \ F, N, R \ S)
  BY <1>7, <1>8, <1>9, <1>10, <1>11, <1>12, <1>13 DEF Heap
<1> QED
  BY <1>3, <1>4, <1>14 DEF N

(* A new box without payloads.                                             *)
LEMMA Planted ==
  ASSUME NEW L, NEW M, NEW R, Heap(L, M, R), NEW e \in Cell \ L
  PROVE  Heap(L \cup {e}, M, R \cup {e})
BY DEF Heap

(* A new box with two roots for payloads.                                  *)
LEMMA Joined2 ==
  ASSUME NEW L, NEW M, NEW R, Heap(L, M, R), NEW e \in Cell \ L, NEW y \in R, NEW z \in R
  PROVE  Heap(L \cup {e}, [M EXCEPT ![e] = {y, z}], (R \ {y, z}) \cup {e})
<1>1. /\ M \in [Cell -> SUBSET Cell] /\ Grounded(M) /\ Rooted(M) /\ L \subseteq Cell /\ R \subseteq L
      /\ \A d \in Cell \ L : M[d] = {}
      /\ \A d \in Cell : M[d] \subseteq L \ R
      /\ \A d, c \in Cell : M[d] \cap M[c] # {} => d = c
      /\ \A c \in L \ R : \E d \in L : c \in M[d]
  BY DEF Heap
<1> DEFINE N == [M EXCEPT ![e] = {y, z}]
<1>2. /\ N \in [Cell -> SUBSET Cell] /\ N[e] = {y, z}
      /\ \A d \in Cell : d # e => N[d] = M[d]
  BY <1>1
<1>3. Grounded(N)
  <2> SUFFICES ASSUME NEW C \in SUBSET Cell, C # {}
               PROVE  \E d \in C : N[d] \cap C = {}
    BY DEF Grounded
  <2>1. CASE C \ {e} = {}
    <3>1. e \in C /\ N[e] \cap C = {}
      BY <1>1, <1>2, <2>1
    <3> QED
      BY <3>1
  <2>2. CASE C \ {e} # {}
    <3>1. PICK d \in C \ {e} : M[d] \cap (C \ {e}) = {}
      BY <1>1, <2>2 DEF Grounded
    <3>2. N[d] = M[d] /\ e \notin M[d]
      BY <1>1, <1>2, <3>1
    <3> QED
      BY <3>1, <3>2
  <2> QED
    BY <2>1, <2>2
<1> HIDE DEF N
<1>4. Rooted(N)
  <2> SUFFICES ASSUME NEW C \in SUBSET Cell, C # {}
               PROVE  \E d \in C : \A p \in C : d \notin N[p]
    BY DEF Rooted
  <2>1. CASE e \in C
    <3>1. \A p \in Cell : e \notin N[p]
      BY <1>1, <1>2
    <3> QED
      BY <2>1, <3>1
  <2>2. CASE e \notin C
    <3>1. PICK d \in C : \A p \in C : d \notin M[p]
      BY <1>1 DEF Rooted
    <3>2. \A p \in C : N[p] = M[p]
      BY <1>2, <2>2
    <3> QED
      BY <3>1, <3>2
  <2> QED
    BY <2>1, <2>2
<1>5. \E g : Solves(N, g)
  <2>1. PICK f : Solves(M, f)
    BY DEF Heap
  <2>2. \A d \in Cell : N[d] \cap {e} = {}
    BY <1>1, <1>2
  <2>3. \A d \in Cell \ {e} : N[d] = M[d]
    BY <1>2
  <2> QED
    <3>1. M \in [Cell -> SUBSET Cell] /\ N \in [Cell -> SUBSET Cell]
      BY <1>1, <1>2
    <3> QED
      <4>1. Within(M, N, {e})
        BY <2>2, <2>3 DEF Within
      <4> QED
        BY <2>1, <3>1, <4>1, NewTrees
<1>6. \A d \in Cell : N[d] \subseteq (L \cup {e}) \ ((R \ {y, z}) \cup {e})
  BY <1>1, <1>2
<1>7. \A d, c \in Cell : N[d] \cap N[c] # {} => d = c
  BY <1>1, <1>2
<1>8. \A c \in (L \cup {e}) \ ((R \ {y, z}) \cup {e}) : \E d \in L \cup {e} : c \in N[d]
  BY <1>1, <1>2
<1>9. Heap(L \cup {e}, N, (R \ {y, z}) \cup {e})
  BY <1>1, <1>2, <1>3, <1>4, <1>5, <1>6, <1>7, <1>8 DEF Heap
<1> QED
  BY <1>9 DEF N

(* A root loses its payloads, and some of these lose theirs: all the boxes *)
(* lost are roots then. Nothing below them changes.                        *)
Nested(M, c, K) == \A k \in K : k \in M[c]
Emptied(M, c, K) == Cleared(M, {c} \cup K)
Loose(M, R, c, K) == R \cup M[c] \cup UNION {M[k] : k \in K}

LEMMA Unboxed ==
  ASSUME NEW L, NEW M, NEW R, Heap(L, M, R), NEW f, Solves(M, f), NEW c \in R, NEW K, Nested(M, c, K)
  PROVE  /\ Heap(L, Emptied(M, c, K), Loose(M, R, c, K))
         /\ \A g : Solves(Emptied(M, c, K), g) => /\ \A d \in Cell \ ({c} \cup K) : g[d] = f[d]
                                                  /\ \A d \in {c} \cup K : g[d] = {d}
<1>0. SUFFICES ASSUME NEW N, NEW P, N = Cleared(M, {c} \cup K), P = R \cup M[c] \cup UNION {M[k] : k \in K},
                      \A k \in K : k \in M[c]
               PROVE  /\ Heap(L, N, P)
                      /\ \A g : Solves(N, g) => /\ \A d \in Cell \ ({c} \cup K) : g[d] = f[d]
                                                /\ \A d \in {c} \cup K : g[d] = {d}
  BY DEF Loose, Emptied, Nested
<1>1. /\ M \in [Cell -> SUBSET Cell] /\ Grounded(M) /\ Rooted(M) /\ L \subseteq Cell /\ R \subseteq L
      /\ \A d \in Cell \ L : M[d] = {}
      /\ \A d \in Cell : M[d] \subseteq L \ R
      /\ \A d, e \in Cell : M[d] \cap M[e] # {} => d = e
      /\ \A e \in L \ R : \E d \in L : e \in M[d]
  BY DEF Heap
<1> DEFINE T == {c} \cup K
<1>2. N \in [Cell -> SUBSET Cell] /\ \A d \in Cell : N[d] = IF d \in T THEN {} ELSE M[d]
  BY <1>0, <1>1 DEF Cleared
<1>3. Grounded(N) /\ Rooted(N)
  BY <1>0, <1>1, GroundedCleared, RootedCleared
<1>4. \A d \in Cell \ T : M[d] \cap T = {}
  BY <1>0, <1>1
<1> HIDE DEF T
<1>5. /\ \A d \in Cell : N[d] \cap T = {}
      /\ \A d \in Cell \ T : N[d] = M[d]
  BY <1>2, <1>4
<1>6. PICK g : Solves(N, g) /\ \A d \in Cell \ T : g[d] = f[d]
  <2>1. M \in [Cell -> SUBSET Cell] /\ N \in [Cell -> SUBSET Cell]
    BY <1>1, <1>2
  <2> QED
    <3>1. Within(M, N, T)
      BY <1>5 DEF Within
    <3> QED
      BY <2>1, <3>1, NewTrees
<1>7. \A h : Solves(N, h) => h = g
  BY <1>2, <1>3, <1>6, OneSolution
<1>8. \A d \in T : d \in Cell /\ g[d] = {d}
  <2>0. T \subseteq Cell
    BY <1>0, <1>1 DEF T
  <2>1. \A d \in T : d \in Cell /\ N[d] = {}
    BY <1>2, <2>0
  <2>2. \A d \in Cell : g[d] = {d} \cup UNION {g[k] : k \in N[d]}
    BY <1>6 DEF Solves
  <2> QED
    BY <2>1, <2>2
<1>9. P \subseteq L /\ T \subseteq P
  BY <1>0, <1>1 DEF T
<1>10. \A d \in Cell : N[d] \subseteq L \ P
  <2>1. \A d \in Cell \ T : M[d] \cap P = {}
    <3> TAKE d \in Cell \ T
    <3>1. \A e \in {c} \cup K : M[d] \cap M[e] = {}
      BY <1>0, <1>1 DEF T
    <3> QED
      BY <1>0, <1>1, <3>1
  <2> QED
    BY <1>0, <1>1, <1>2, <2>1
<1>11. \A e \in L \ P : \E d \in L : e \in N[d]
  <2> TAKE e \in L \ P
  <2>1. PICK d \in L : e \in M[d]
    BY <1>0, <1>1
  <2>2. d \notin T
    BY <1>0, <2>1 DEF T
  <2> QED
    BY <1>1, <1>2, <2>1, <2>2
<1>12. /\ \A d \in Cell \ L : N[d] = {}
       /\ \A d, e \in Cell : N[d] \cap N[e] # {} => d = e
  BY <1>1, <1>2
<1>13. Heap(L, N, P)
  BY <1>1, <1>2, <1>3, <1>6, <1>9, <1>10, <1>11, <1>12 DEF Heap
<1> QED
  BY <1>6, <1>7, <1>8, <1>13 DEF T

-----------------------------------------------------------------------------
(* The invariant.                                                          *)

(* The boxes a box owns.                                                   *)
Payloads == [d \in Cell |-> Range(kids[d])]

Roots ==
  {c \in Cell : \/ VarsOf(c) # {}
                \/ \E i \in DOMAIN frames : HiddenOf(i, c) # {}
                \/ CasesOf(c) # {}
                \/ c \in {lent, returned}}

(* No box is due to be freed by two of them.                               *)
OneHolder ==
  \A c \in Cell :
    /\ \A n, m \in VarsOf(c) : n = m
    /\ \A i, j \in DOMAIN frames : \A n \in HiddenOf(i, c) : \A m \in HiddenOf(j, c) : i = j /\ n = m
    /\ \A i, j \in CasesOf(c) : i = j
    /\ VarsOf(c) # {} => /\ \A i \in DOMAIN frames : HiddenOf(i, c) = {}
                         /\ CasesOf(c) = {}
    /\ c \in {lent, returned} => /\ VarsOf(c) = {} /\ CasesOf(c) = {}
                                 /\ \A i \in DOMAIN frames : HiddenOf(i, c) = {}
    /\ CasesOf(c) # {} => \A i \in DOMAIN frames : HiddenOf(i, c) = {}

(* A box is a leaf, or has two payloads.                                   *)
Shaped == \A c \in Cell : kids[c] = <<>> \/ \E l, r \in Cell : l # r /\ kids[c] = <<l, r>>

(* Only the declarations that uses stand for are ever Owned.               *)
KeysOnly(s) == s \in StateMap /\ \A d \in Decl : s[d] = "Owned" => d = Key(d[1])

(* A join keeps who is an owner, and who may have been assigned to.        *)
Keeps(s, t) ==
  \A n \in Name : /\ s[Key(n)] = "Owned" <=> t[Key(n)] = "Owned"
                  /\ s[Key(n)] = "absent" => t[Key(n)] = "absent"

FrameType ==
  [byValue : BOOLEAN, arm : Arm \cup {NoArm}, entry : StateMap, joined : StateMap,
   seen : SUBSET Arm, aliases : SUBSET Name,
   saved : UNION {[S -> [ptr : Cell \cup {Null}, mark : Mark]] : S \in SUBSET Name},
   box : Cell, taken : BOOLEAN]

TypeOK ==
  /\ bounds \in Bounds /\ phase \in {"walk", "exited", "rejected"}
  /\ rebound \subseteq Name /\ state \in StateMap /\ aliases \subseteq Name
  /\ frames \in Seq(FrameType)
  /\ live \subseteq Cell /\ kids \in [Cell -> Seq(Cell)]
  /\ slot \in [Name -> Cell \cup {Null}]
  /\ lent \in Cell \cup {Null} /\ returned \in Cell \cup {Null}

(* What the caller lends.                                                  *)
Borrowed == IF lent = Null THEN {} ELSE {lent} \cup Range(kids[lent])

(* A case: while an arm is open, what its binders hide is saved, with the  *)
(* mark each name had when the case began; a consuming match has moved the *)
(* payloads out of its box once an arm is taken; one on a borrow is of     *)
(* what is lent. No arm passed over matches the box. A hidden name that is *)
(* unassigned holds nothing, and a hidden alias points into what is lent.  *)
FrameOK(f) ==
  /\ KeysOnly(f.entry) /\ KeysOnly(f.joined)
  /\ DOMAIN f.saved = Binders(f.arm)
  /\ \A n \in Binders(f.arm) : f.saved[n].mark = f.entry[Key(n)]
  /\ f.arm # NoArm => f.taken /\ BoundTwice(f.arm) = {}
  /\ ~f.byValue => f.box = lent /\ lent # Null
  /\ f.byValue /\ f.taken => kids[f.box] = <<>>
  /\ f.taken /\ f.arm = NoArm => f.seen # {}
  /\ ~f.taken => \A arm \in f.seen : ~Matches(arm, f.box)
  /\ \A n \in Binders(f.arm) \ f.aliases : f.saved[n].mark = "absent" => f.saved[n].ptr = Null
  /\ \A n \in Binders(f.arm) \cap f.aliases : f.saved[n].ptr \in Borrowed

(* The alias names in scope in the i-th arm, and the state known there.    *)
AliasesAt(i) == IF i = depth THEN aliases ELSE frames[i + 1].aliases
StateAt(i) == IF i = depth THEN Track ELSE frames[i + 1].entry

(* What is known of an alias name stays what it was when the case began.   *)
Nesting(i) ==
  LET f == frames[i]
  IN  /\ AliasesAt(i) = (f.aliases \ Binders(f.arm)) \cup (IF f.byValue THEN {} ELSE Binders(f.arm))
      /\ \A n \in AliasesAt(i) :
           /\ StateAt(i)[Key(n)] = "Owned" <=> f.entry[Key(n)] = "Owned"
           /\ StateAt(i)[Key(n)] = "absent" => f.entry[Key(n)] = "absent"
      /\ i < depth => f.arm # NoArm

(* What is lent is a box with two leaves.                                  *)
LentOK ==
  lent # Null => \E l, r \in Cell : /\ kids[lent] = <<l, r>> /\ l # r /\ lent \notin {l, r}
                                    /\ kids[l] = <<>> /\ kids[r] = <<>>

(* While the function runs: before an arm of a case is taken its state is  *)
(* the one the case began with, no alias is left outside every case, an    *)
(* unassigned name holds nothing, and an alias points into what is lent.   *)
WalkInv ==
  /\ KeysOnly(state)
  /\ BetweenArms /\ ~inner.taken => state = inner.entry
  /\ \A i \in 1 .. depth : FrameOK(frames[i]) /\ Nesting(i)
  /\ AliasesAt(0) = {}
  /\ \A n \in Name \ aliases : Track[Key(n)] = "absent" => slot[n] = Null
  /\ \A n \in aliases : slot[n] \in Borrowed

(* The heap is a forest of boxes without a cycle, each root of it is due   *)
(* to be freed by one holder, and nothing has gone wrong.                  *)
Inv ==
  /\ TypeOK
  /\ fault = {} /\ Shaped /\ LentOK /\ OneHolder
  /\ Heap(live, Payloads, Roots)
  /\ phase = "walk" => WalkInv /\ returned = Null
  /\ phase # "walk" => frames = <<>> /\ aliases = {}
  /\ phase = "rejected" => lent = Null

-----------------------------------------------------------------------------
LEMMA Keys ==
  /\ \A n \in Name : Key(n) \in Decl /\ Key(n)[1] = n
  /\ \A n, m \in Name : Key(n) = Key(m) => n = m
BY DEF Key, Decl

LEMMA TreeIs ==
  ASSUME \E f : Solves(Payloads, f)
  PROVE  /\ Solves(Payloads, [c \in Cell |-> Tree(c)])
         /\ \A c : c \notin Cell => Tree(c) = {}
<1> DEFINE tree == CHOOSE f : Solves(Payloads, f)
<1>1. Solves(Payloads, tree)
  OBVIOUS
<1>2. \A c \in Cell : Tree(c) = tree[c]
  <2> TAKE c \in Cell
  <2>1. \A f : Solves(Payloads, f) <=> f = [d \in Cell |-> {d} \cup UNION {f[k] : k \in Range(kids[d])}]
    BY DEF Solves, Payloads
  <2>2. tree = CHOOSE f : f = [d \in Cell |-> {d} \cup UNION {f[k] : k \in Range(kids[d])}]
    BY <2>1
  <2> QED
    BY <2>2 DEF Tree
<1>3. [c \in Cell |-> Tree(c)] = tree
  <2> HIDE DEF tree
  <2> QED
  BY <1>1, <1>2 DEF Solves
<1> QED
  BY <1>1, <1>3 DEF Tree

LEMMA PairRange ==
  /\ Range(<<>>) = {}
  /\ \A l, r : Range(<<l, r>>) = {l, r}
<1>1. DOMAIN <<>> = {}
  OBVIOUS
<1>2. \A l, r : DOMAIN <<l, r>> = {1, 2} /\ <<l, r>>[1] = l /\ <<l, r>>[2] = r
  OBVIOUS
<1> QED
  BY <1>1, <1>2 DEF Range

LEMMA MinOf ==
  ASSUME NEW S \in SUBSET Nat, S # {}
  PROVE  Min(S) \in S
<1>1. PICK x \in S : \A y \in S : ~(<<y, x>> \in OpToRel(<, Nat))
  BY WFMin, NatLessThanWellFounded, Zenon
<1>2. \A y \in S : ~(y < x)
  BY <1>1, Zenon DEF OpToRel
<1>3. \A y \in S : x <= y
  BY <1>2
<1> QED
  BY <1>3 DEF Min

(* Freeing the trees of some holders.                                      *)
LEMMA TreesOfRoots ==
  ASSUME NEW R, Heap(live, Payloads, R)
  PROVE  /\ Solves(Payloads, [c \in Cell |-> Tree(c)])
         /\ R \subseteq live /\ live \subseteq Cell
         /\ \A c \in R : c \in Tree(c) /\ Tree(c) \subseteq live /\ \A k \in Range(kids[c]) : k \in Tree(c)
         /\ \A c, d \in R : c # d => Tree(c) \cap Tree(d) = {}
<1> DEFINE f == [c \in Cell |-> Tree(c)]
<1>1. R \subseteq live /\ live \subseteq Cell /\ \E g : Solves(Payloads, g)
  BY DEF Heap
<1>2. Solves(Payloads, f)
  BY <1>1, TreeIs
<1>3. \A c \in Cell : f[c] = Tree(c) /\ Payloads[c] = Range(kids[c])
  BY DEF Payloads
<1> HIDE DEF f
<1>4. /\ \A d \in Cell : d \in f[d]
      /\ \A d \in live : f[d] \subseteq live
      /\ \A d \in Cell : \A k \in Payloads[d] : k \in f[d]
      /\ \A d, e \in R : d # e => f[e] \cap f[d] = {}
  BY <1>2, HeapTrees
<1> QED
  BY <1>1, <1>2, <1>3, <1>4 DEF f

LEMMA FreeStep ==
  ASSUME TypeOK, Shaped, LentOK, NEW R, Heap(live, Payloads, R), NEW S \in SUBSET R,
         lent \in Cell => lent \in R \ S, Free(Trees(S)), lent' = lent
  PROVE  /\ Heap(live', Payloads', R \ S)
         /\ live' \subseteq Cell /\ kids' \in [Cell -> Seq(Cell)]
         /\ Shaped' /\ LentOK' /\ Borrowed' = Borrowed
         /\ \A c \in Cell : kids[c] = <<>> => kids'[c] = <<>>
         /\ Trees(S) \subseteq live
<1> DEFINE f == [c \in Cell |-> Tree(c)]
           F == Trees(S)
<1>1. /\ Solves(Payloads, f) /\ R \subseteq live /\ live \subseteq Cell
      /\ \A c \in R : c \in Tree(c) /\ Tree(c) \subseteq live /\ \A k \in Range(kids[c]) : k \in Tree(c)
  BY TreesOfRoots
<1>2. \A x : x \in F <=> \E s \in S : x \in f[s]
  <2>1. \A s \in S : f[s] = Tree(s)
    BY <1>1
  <2> QED
    BY <2>1 DEF Trees
<1>3. \A c \in R : f[c] = Tree(c)
  BY <1>1
<1>4. F \subseteq live
  BY <1>1 DEF Trees
<1> HIDE DEF f, F
<1>5. Heap(live \ F, Cleared(Payloads, F), R \ S)
  <2>1. Solves(Payloads, f)
    BY <1>1
  <2>2. \A T \in SUBSET R : \A G : (\A x : x \in G <=> \E s \in T : x \in f[s]) =>
         Heap(live \ G, Cleared(Payloads, G), R \ T)
    BY <2>1, RootsFreed
  <2> QED
    BY <1>2, <2>2
<1>6. /\ live' = live \ F
      /\ kids' = [c \in Cell |-> IF c \in F THEN <<>> ELSE kids[c]]
  BY DEF Free, F
<1>7. Payloads' = Cleared(Payloads, F)
  <2>1. \A c \in Cell : Range(kids'[c]) = IF c \in F THEN {} ELSE Range(kids[c])
    BY <1>6, PairRange
  <2> QED
    BY <2>1 DEF Payloads, Cleared
<1>8. \A c \in Cell : kids[c] \in Seq(Cell) /\ kids'[c] = IF c \in F THEN <<>> ELSE kids[c]
  BY <1>6 DEF TypeOK
<1>9. kids' \in [Cell -> Seq(Cell)]
  BY <1>6, <1>8
<1>10. Shaped'
  BY <1>8 DEF Shaped
<1>11. LentOK' /\ Borrowed' = Borrowed
  <2>1. CASE lent = Null
    BY <2>1 DEF LentOK, Borrowed
  <2>2. CASE lent # Null
    <3>1. PICK l, r \in Cell : /\ kids[lent] = <<l, r>> /\ l # r /\ lent \notin {l, r}
                               /\ kids[l] = <<>> /\ kids[r] = <<>>
      BY <2>2 DEF LentOK
    <3>2. lent \in Cell /\ lent \in R \ S
      BY <2>2 DEF TypeOK
    <3>4. lent \notin F
      BY <1>5, <3>2 DEF Heap
    <3>5. kids'[lent] = kids[lent] /\ kids'[l] = <<>> /\ kids'[r] = <<>>
      BY <1>8, <3>1, <3>2, <3>4
    <3> QED
      BY <3>1, <3>5 DEF LentOK, Borrowed
  <2> QED
    BY <2>1, <2>2
<1> QED
  BY <1>1, <1>4, <1>5, <1>6, <1>7, <1>8, <1>9, <1>10, <1>11 DEF F

LEMMA RoomFacts ==
  ASSUME TypeOK
  PROVE  /\ IsFiniteSet(Room) /\ Room \in SUBSET Nat /\ Room \subseteq Cell \ live
         /\ Room \cap Named = {}
<1>1. bounds.boxes \in Nat
  BY BoundsAssumption DEF TypeOK
<1>2. Room \in SUBSET Nat /\ \A c \in Room : c <= bounds.boxes
  BY CellAssumption DEF Room
<1>3. IsFiniteSet(Room)
  BY <1>1, <1>2, FS_BoundedSetOfNaturals
<1> QED
  BY <1>2, <1>3 DEF Room

LEMMA GrowStep ==
  ASSUME TypeOK, Shaped, NEW R, Heap(live, Payloads, R), NEW tag, Grow(tag)
  PROVE  /\ Fresh \in Cell \ live /\ Fresh \notin Named
         /\ Heap(live', Payloads', R \cup {Fresh})
         /\ live' \subseteq Cell /\ kids' \in [Cell -> Seq(Cell)] /\ Fresh \in live'
         /\ Shaped' /\ \A c \in live : kids'[c] = kids[c]
<1>1. /\ IsFiniteSet(Room) /\ Room \in SUBSET Nat /\ Room \subseteq Cell \ live
      /\ Room \cap Named = {}
  BY RoomFacts
<1>2. live \subseteq Cell /\ kids \in [Cell -> Seq(Cell)]
  BY DEF TypeOK
<1>3. CASE tag = "Leaf"
  <2>1. Room # {} /\ live' = live \cup {Fresh} /\ kids' = kids
    BY <1>3 DEF Grow
  <2>2. Fresh \in Room
    BY <1>1, <2>1, MinOf DEF Fresh
  <2>3. Heap(live \cup {Fresh}, Payloads, R \cup {Fresh})
    BY <1>1, <2>2, Planted
  <2>4. Payloads' = Payloads
    BY <2>1 DEF Payloads
  <2> QED
    BY <1>1, <1>2, <2>1, <2>2, <2>3, <2>4 DEF Shaped
<1>4. CASE tag # "Leaf"
  <2> DEFINE left  == Min(Room \ {Fresh})
             right == Min(Room \ {Fresh, left})
  <2>1. /\ Cardinality(Room) >= 3
        /\ live' = live \cup {Fresh, left, right}
        /\ kids' = [kids EXCEPT ![Fresh] = <<left, right>>]
    BY <1>4 DEF Grow
  <2>2. Cardinality(Room) \in Nat /\ Room # {}
    BY <1>1, <2>1, FS_CardinalityType, FS_EmptySet
  <2>3. Fresh \in Room
    BY <1>1, <2>2, MinOf DEF Fresh
  <2>4. IsFiniteSet(Room \ {Fresh}) /\ Cardinality(Room \ {Fresh}) = Cardinality(Room) - 1
    BY <1>1, <2>3, FS_RemoveElement
  <2>5. Room \ {Fresh} # {} /\ Room \ {Fresh} \in SUBSET Nat
    <3>1. Cardinality(Room \ {Fresh}) # 0
      BY <2>1, <2>2, <2>4
    <3> QED
      BY <1>1, <3>1, FS_EmptySet
  <2>6. left \in Room \ {Fresh}
    BY <2>5, MinOf
  <2> HIDE DEF left
  <2>7. (Room \ {Fresh}) \ {left} = Room \ {Fresh, left}
    OBVIOUS
  <2>8. Cardinality(Room \ {Fresh, left}) = Cardinality(Room \ {Fresh}) - 1
    BY <2>4, <2>6, <2>7, FS_RemoveElement
  <2>9. Room \ {Fresh, left} # {} /\ Room \ {Fresh, left} \in SUBSET Nat
    <3>1. Cardinality(Room \ {Fresh, left}) # 0
      BY <2>1, <2>2, <2>4, <2>8
    <3> QED
      BY <1>1, <3>1, FS_EmptySet
  <2>10. right \in Room \ {Fresh, left}
    BY <2>9, MinOf
  <2> HIDE DEF right
  <2>11. Heap(live \cup {left}, Payloads, R \cup {left})
    BY <1>1, <2>6, Planted
  <2>12. Heap((live \cup {left}) \cup {right}, Payloads, (R \cup {left}) \cup {right})
    BY <1>1, <2>10, <2>11, Planted
  <2>13. Heap(((live \cup {left}) \cup {right}) \cup {Fresh}, [Payloads EXCEPT ![Fresh] = {left, right}],
              (((R \cup {left}) \cup {right}) \ {left, right}) \cup {Fresh})
    <3>1. Fresh \in Cell \ ((live \cup {left}) \cup {right})
      BY <1>1, <2>3, <2>6, <2>10
    <3>2. left \in (R \cup {left}) \cup {right} /\ right \in (R \cup {left}) \cup {right}
      OBVIOUS
    <3> QED
      BY <2>12, <3>1, <3>2, Joined2
  <2>14. R \subseteq live
    BY DEF Heap
  <2>15. (((R \cup {left}) \cup {right}) \ {left, right}) \cup {Fresh} = R \cup {Fresh}
    BY <1>1, <2>6, <2>10, <2>14
  <2>16. ((live \cup {left}) \cup {right}) \cup {Fresh} = live'
    BY <2>1 DEF left, right
  <2>17. kids' = [kids EXCEPT ![Fresh] = <<left, right>>]
    BY <2>1 DEF left, right
  <2>18. left \in Cell /\ right \in Cell /\ Fresh \in Cell /\ left # right
    BY <1>1, <2>3, <2>6, <2>10
  <2>19. kids'[Fresh] = <<left, right>> /\ \A c \in Cell : c # Fresh => kids'[c] = kids[c]
    BY <1>2, <2>17, <2>18
  <2>20. Payloads' = [Payloads EXCEPT ![Fresh] = {left, right}]
    <3>1. \A c \in Cell : Range(kids'[c]) = IF c = Fresh THEN {left, right} ELSE Range(kids[c])
      BY <2>18, <2>19, PairRange
    <3>2. Payloads' = [c \in Cell |-> IF c = Fresh THEN {left, right} ELSE Range(kids[c])]
      BY <3>1 DEF Payloads
    <3> QED
      BY <3>2 DEF Payloads
  <2>21. kids' \in [Cell -> Seq(Cell)]
    BY <1>2, <2>17, <2>18
  <2>22. Shaped'
    BY <2>18, <2>19 DEF Shaped
  <2>23. Heap(live', Payloads', R \cup {Fresh})
    BY <2>13, <2>15, <2>16, <2>20
  <2>24. live' \subseteq Cell /\ Fresh \in live' /\ \A c \in live : kids'[c] = kids[c]
    BY <1>1, <1>2, <2>3, <2>6, <2>10, <2>16, <2>19
  <2> QED
    BY <1>1, <2>3, <2>21, <2>22, <2>23, <2>24
<1> QED
  BY <1>3, <1>4

-----------------------------------------------------------------------------
(* Where the walk is.                                                      *)

LEMMA Depth ==
  ASSUME TypeOK
  PROVE  /\ depth \in Nat /\ DOMAIN frames = 1 .. depth
         /\ \A i \in 1 .. depth : frames[i] \in FrameType
         /\ depth > 0 => inner = frames[depth] /\ depth \in 1 .. depth
         /\ depth = 0 => frames = <<>>
<1>1. frames \in Seq(FrameType)
  BY DEF TypeOK
<1>2. depth \in Nat /\ DOMAIN frames = 1 .. depth /\ \A i \in 1 .. depth : frames[i] \in FrameType
  BY <1>1 DEF depth
<1>3. inner = frames[depth]
  BY DEF inner, depth, Last
<1>4. depth = 0 => frames = <<>>
  BY <1>1 DEF depth
<1> QED
  BY <1>2, <1>3, <1>4

LEMMA TrackAtStmt ==
  ASSUME AtStmt
  PROVE  Track = state
<1>1. ~BetweenArms
  BY DEF AtStmt, BetweenArms
<1> QED
  BY <1>1 DEF Track

LEMMA AllTaken ==
  ASSUME Inv, AtStmt
  PROVE  \A i \in 1 .. depth : frames[i].arm # NoArm /\ frames[i].taken
<1>1. TypeOK /\ WalkInv
  BY DEF Inv, AtStmt
<1>2. depth \in Nat /\ (depth > 0 => inner = frames[depth])
  BY <1>1, Depth
<1>3. \A i \in 1 .. depth : FrameOK(frames[i]) /\ Nesting(i)
  BY <1>1 DEF WalkInv
<1>4. \A i \in 1 .. depth : frames[i].arm # NoArm
  <2> TAKE i \in 1 .. depth
  <2>1. CASE i < depth
    BY <1>3, <2>1 DEF Nesting
  <2>2. CASE i = depth
    BY <1>2, <2>2 DEF AtStmt
  <2> QED
    BY <1>2, <2>1, <2>2
<1> QED
  BY <1>3, <1>4 DEF FrameOK

LEMMA OwnerIs ==
  ASSUME Inv, AtStmt, NEW x \in Name, Takeable(x), Assigned(x)
  PROVE  /\ slot[x] \in Cell /\ x \in VarsOf(slot[x]) /\ slot[x] \in Roots
         /\ state[Key(x)] = "Owned" /\ x \notin aliases /\ slot[x] # lent
<1>1. /\ TypeOK /\ WalkInv /\ OneHolder /\ phase = "walk"
  BY DEF Inv, AtStmt
<1>2. x \notin aliases /\ state[Key(x)] # "Moved" /\ slot[x] # Null
  BY DEF Takeable, Usable, Assigned
<1>3. slot[x] \in Cell
  BY <1>1, <1>2 DEF TypeOK
<1>4. state[Key(x)] \in {"absent", "Owned", "Moved"}
  BY <1>1, Keys DEF TypeOK, StateMap, Mark
<1>5. state[Key(x)] # "absent"
  BY <1>1, <1>2, TrackAtStmt DEF WalkInv
<1>6. state[Key(x)] = "Owned"
  BY <1>2, <1>4, <1>5
<1>7. x \in VarsOf(slot[x])
  BY <1>1, <1>2, <1>6, TrackAtStmt DEF VarsOf
<1>8. slot[x] \in Roots
  BY <1>3, <1>7 DEF Roots
<1>9. slot[x] # lent
  BY <1>1, <1>3, <1>7 DEF OneHolder
<1> QED
  BY <1>2, <1>3, <1>6, <1>7, <1>8, <1>9

(* A statement keeps what is known of the cases around it.                 *)
LEMMA StatementKeeps ==
  ASSUME Inv, AtStmt, UNCHANGED <<bounds, phase, rebound, aliases, frames, lent, returned>>,
         KeysOnly(state)',
         \A n \in aliases : state'[Key(n)] = state[Key(n)] /\ slot'[n] = slot[n],
         \A n \in Name \ aliases : state'[Key(n)] = "absent" => slot'[n] = Null,
         Borrowed' = Borrowed, \A c \in live : kids[c] = <<>> => kids'[c] = <<>>
  PROVE  WalkInv' /\ AtStmt'
<1>1. TypeOK /\ WalkInv /\ Roots \subseteq live
  BY DEF Inv, AtStmt, Heap
<1>2. /\ depth' = depth /\ inner' = inner /\ AtStmt' /\ ~BetweenArms' /\ Track' = state'
  <2>1. depth' = depth /\ inner' = inner
    BY DEF depth, inner
  <2>2. AtStmt' /\ ~BetweenArms'
    BY <2>1 DEF AtStmt, BetweenArms
  <2> QED
    BY <2>1, <2>2 DEF Track
<1>3. \A n \in Name : Key(n)' = Key(n)
  BY DEF Key
<1>4. \A i \in 1 .. depth : FrameOK(frames[i]) /\ Nesting(i) /\ frames[i].taken /\ i \in DOMAIN frames
                            /\ frames[i] \in FrameType
  BY <1>1, AllTaken, Depth DEF WalkInv
<1>5. \A i \in 1 .. depth : FrameOK(frames[i])'
  <2> TAKE i \in 1 .. depth
  <2>1. FrameOK(frames[i]) /\ frames[i].taken /\ i \in DOMAIN frames /\ frames[i] \in FrameType
    BY <1>4
  <2>2. frames[i].byValue => frames[i].box \in live
    <3> SUFFICES ASSUME frames[i].byValue PROVE frames[i].box \in live
      OBVIOUS
    <3>1. frames[i].box \in Cell
      BY <2>1 DEF FrameType
    <3>2. i \in CasesOf(frames[i].box)
      BY <2>1 DEF CasesOf
    <3> QED
      BY <1>1, <3>1, <3>2 DEF Roots
  <2>3. frames' = frames /\ frames'[i] = frames[i] /\ lent' = lent
    OBVIOUS
  <2>4. \A s : KeysOnly(s)' <=> KeysOnly(s)
    BY DEF KeysOnly, Key
  <2>5. Binders(frames[i].arm) \subseteq Name
    BY DEF Binders, Bound
  <2>6. \A n \in Binders(frames[i].arm) : Key(n)' = Key(n)
    BY <1>3, <2>5
  <2> QED
    BY <2>1, <2>2, <2>3, <2>4, <2>6 DEF FrameOK
<1>6. \A i \in 1 .. depth : Nesting(i)'
  <2> TAKE i \in 1 .. depth
  <2>1. AliasesAt(i)' = AliasesAt(i)
    BY <1>2 DEF AliasesAt
  <2>2. AliasesAt(i) \subseteq Name
    <3>1. \A j \in 1 .. depth : frames[j].aliases \subseteq Name
      BY <1>4 DEF FrameType
    <3>2. depth \in Nat /\ aliases \subseteq Name
      BY <1>1, Depth DEF TypeOK
    <3> HIDE DEF depth
    <3>3. i = depth \/ i + 1 \in 1 .. depth
      BY <3>2
    <3> QED
      BY <3>1, <3>2, <3>3 DEF AliasesAt
  <2>3. \A n \in AliasesAt(i) : StateAt(i)'[Key(n)'] = StateAt(i)[Key(n)]
    <3>1. CASE i = depth
      BY <1>2, <1>3, <2>2, <3>1, TrackAtStmt DEF AliasesAt, StateAt
    <3>2. CASE i # depth
      BY <1>2, <1>3, <2>2, <3>2 DEF StateAt
    <3> QED
      BY <3>1, <3>2
  <2>4. Nesting(i)
    BY <1>4
  <2> QED
    BY <1>2, <1>3, <2>1, <2>2, <2>3, <2>4 DEF Nesting
<1>7. AliasesAt(0)' = {}
  BY <1>1, <1>2 DEF WalkInv, AliasesAt
<1>8. \A n \in aliases' : slot'[n] \in Borrowed'
  BY <1>1 DEF WalkInv
<1>9. \A n \in Name \ aliases' : Track'[Key(n)'] = "absent" => slot'[n] = Null
  BY <1>2, <1>3
<1> QED
  BY <1>2, <1>5, <1>6, <1>7, <1>8, <1>9 DEF WalkInv

(* A statement takes what the names X own from them and gives the boxes G, *)
(* at most one, to x.                                                      *)
LEMMA HoldersChange ==
  ASSUME OneHolder, frames' = frames, lent' = lent, returned' = returned,
         NEW X, \A n \in X : slot[n] \in Cell /\ n \in VarsOf(slot[n]),
         NEW G \in SUBSET Cell, \A c \in G : c \in Roots => \E n \in X : slot[n] = c, NEW x,
         \A c \in Cell : VarsOf(c)' = (VarsOf(c) \ X) \cup (IF c \in G THEN {x} ELSE {})
  PROVE  OneHolder' /\ Roots' = (Roots \ {slot[n] : n \in X}) \cup G
<1>1. \A i, c : HiddenOf(i, c)' = HiddenOf(i, c)
  BY DEF HiddenOf
<1>2. \A c : CasesOf(c)' = CasesOf(c)
  BY DEF CasesOf
<1>3. \A c \in Cell : \A n \in X : n \in VarsOf(c) => slot[n] = c
  BY DEF VarsOf
<1>4. \A n \in X : \A m \in VarsOf(slot[n]) : m = n
  BY DEF OneHolder
<1>5. \A c \in G : /\ VarsOf(c) \ X = {} /\ CasesOf(c) = {} /\ c \notin {lent, returned}
                   /\ \A i \in DOMAIN frames : HiddenOf(i, c) = {}
  <2> TAKE c \in G
  <2>1. CASE c \in Roots
    <3>1. PICK n \in X : slot[n] = c
      BY <2>1
    <3>2. n \in VarsOf(c) /\ c \in Cell
      BY <3>1
    <3>3. VarsOf(c) \ X = {}
      BY <1>4, <3>1
    <3> QED
      BY <3>2, <3>3 DEF OneHolder
  <2>2. CASE c \notin Roots
    BY <2>2 DEF Roots
  <2> QED
    BY <2>1, <2>2
<1>6. OneHolder'
  <2> SUFFICES ASSUME NEW c \in Cell
               PROVE  /\ \A n, m \in VarsOf(c)' : n = m
                      /\ \A i, j \in DOMAIN frames : \A n \in HiddenOf(i, c) : \A m \in HiddenOf(j, c) : i = j /\ n = m
                      /\ \A i, j \in CasesOf(c) : i = j
                      /\ VarsOf(c)' # {} => /\ \A i \in DOMAIN frames : HiddenOf(i, c) = {}
                                            /\ CasesOf(c) = {}
                      /\ c \in {lent, returned} => /\ VarsOf(c)' = {} /\ CasesOf(c) = {}
                                                   /\ \A i \in DOMAIN frames : HiddenOf(i, c) = {}
                      /\ CasesOf(c) # {} => \A i \in DOMAIN frames : HiddenOf(i, c) = {}
    BY <1>1, <1>2 DEF OneHolder
  <2>1. CASE c \in G
    <3>1. VarsOf(c)' = {x}
      BY <1>5, <2>1
    <3> QED
      BY <1>5, <2>1, <3>1
  <2>2. CASE c \notin G
    <3>1. VarsOf(c)' = VarsOf(c) \ X
      BY <2>2
    <3> QED
      BY <3>1 DEF OneHolder
  <2> QED
    BY <2>1, <2>2
<1>7. Roots' = {c \in Cell : \/ VarsOf(c)' # {}
                             \/ \E i \in DOMAIN frames : HiddenOf(i, c) # {}
                             \/ CasesOf(c) # {}
                             \/ c \in {lent, returned}}
  BY <1>1, <1>2 DEF Roots
<1>8. \A c \in Cell : c \in Roots' <=> c \in (Roots \ {slot[n] : n \in X}) \cup G
  <2> TAKE c \in Cell
  <2>1. CASE c \in G
    <3>1. VarsOf(c)' = {x}
      BY <1>5, <2>1
    <3> QED
      BY <1>7, <2>1, <3>1
  <2>2. CASE c \notin G /\ \E n \in X : slot[n] = c
    <3>1. PICK n \in X : slot[n] = c
      BY <2>2
    <3>2. n \in VarsOf(c) /\ VarsOf(c)' = {}
      BY <1>4, <2>2, <3>1
    <3>3. CasesOf(c) = {} /\ c \notin {lent, returned} /\ \A i \in DOMAIN frames : HiddenOf(i, c) = {}
      BY <3>2 DEF OneHolder
    <3> QED
      BY <1>7, <2>2, <3>1, <3>2, <3>3
  <2>3. CASE c \notin G /\ ~\E n \in X : slot[n] = c
    <3>1. VarsOf(c)' = VarsOf(c)
      BY <1>3, <2>3
    <3>2. c \in Roots' <=> c \in Roots
      BY <1>7, <3>1 DEF Roots
    <3> QED
      BY <2>3, <3>2
  <2> QED
    BY <2>1, <2>2, <2>3
<1>9. Roots' \subseteq Cell /\ (Roots \ {slot[n] : n \in X}) \cup G \subseteq Cell
  BY <1>7 DEF Roots
<1> QED
  BY <1>6, <1>8, <1>9

LEMMA VarsAtStmt ==
  ASSUME AtStmt
  PROVE  \A c : VarsOf(c) = {n \in Name \ aliases : state[Key(n)] = "Owned" /\ slot[n] = c}
BY TrackAtStmt DEF VarsOf, AtStmt

LEMMA VarsNextStmt ==
  ASSUME AtStmt, UNCHANGED <<phase, aliases, frames, rebound>>
  PROVE  \A c : VarsOf(c)' = {n \in Name \ aliases : state'[Key(n)] = "Owned" /\ slot'[n] = c}
<1>1. ~BetweenArms'
  BY DEF AtStmt, BetweenArms, depth, inner
<1>2. Track' = state'
  BY <1>1 DEF Track
<1> QED
  BY <1>2 DEF VarsOf, Key, AtStmt

LEMMA Moved ==
  ASSUME KeysOnly(state), NEW S \in SUBSET Name
  PROVE  /\ KeysOnly(MovedOut(S)) /\ MovedOut(S) \in StateMap
         /\ \A n \in Name : MovedOut(S)[Key(n)] = IF n \in S THEN "Moved" ELSE state[Key(n)]
<1>1. \A n \in Name : Key(n) \in {Key(m) : m \in S} <=> n \in S
  BY Keys
<1>2. MovedOut(S) \in StateMap
  BY DEF MovedOut, KeysOnly, StateMap, Mark
<1>3. \A n \in Name : MovedOut(S)[Key(n)] = IF n \in S THEN "Moved" ELSE state[Key(n)]
  BY <1>1, Keys DEF MovedOut
<1>4. \A d \in Decl : MovedOut(S)[d] = "Owned" => state[d] = "Owned"
  BY DEF MovedOut
<1> QED
  BY <1>2, <1>3, <1>4 DEF KeysOnly

(* A name receives a value.                                                *)
LEMMA Received ==
  ASSUME NEW s, KeysOnly(s), NEW x \in Name
  PROVE  /\ KeysOnly([s EXCEPT ![Key(x)] = "Owned"])
         /\ \A n \in Name : [s EXCEPT ![Key(x)] = "Owned"][Key(n)] = IF n = x THEN "Owned" ELSE s[Key(n)]
<1> DEFINE t == [s EXCEPT ![Key(x)] = "Owned"]
<1>1. Key(x) \in Decl /\ Key(x)[1] = x
  BY Keys
<1>2. s \in [Decl -> Mark]
  BY DEF KeysOnly, StateMap
<1>3. t \in StateMap /\ \A d \in Decl : t[d] = IF d = Key(x) THEN "Owned" ELSE s[d]
  BY <1>1, <1>2 DEF StateMap, Mark
<1> HIDE DEF t
<1>4. KeysOnly(t) /\ \A n \in Name : t[Key(n)] = IF n = x THEN "Owned" ELSE s[Key(n)]
  BY <1>1, <1>3, Keys DEF KeysOnly
<1> QED
  BY <1>4 DEF t

-----------------------------------------------------------------------------
(* The statements.                                                         *)

LEMMA StatementInv ==
  ASSUME Inv, AtStmt, UNCHANGED <<bounds, phase, rebound, aliases, frames, lent, returned>>,
         KeysOnly(state)', slot' \in [Name -> Cell \cup {Null}],
         \A n \in aliases : state'[Key(n)] = state[Key(n)] /\ slot'[n] = slot[n],
         \A n \in Name \ aliases : state'[Key(n)] = "absent" => slot'[n] = Null,
         live' \subseteq Cell, kids' \in [Cell -> Seq(Cell)], Shaped', LentOK',
         Borrowed' = Borrowed, \A c \in live : kids[c] = <<>> => kids'[c] = <<>>,
         fault' = {}, OneHolder', Heap(live', Payloads', Roots')
  PROVE  Inv'
<1>1. TypeOK'
  BY DEF Inv, TypeOK, KeysOnly
<1>2. WalkInv'
  BY StatementKeeps
<1>3. /\ phase = "walk" /\ phase' = "walk" /\ returned' = Null
  BY DEF Inv, AtStmt
<1>4. Heap(live, Payloads, Roots)'
  OBVIOUS
<1> QED
  BY <1>1, <1>2, <1>3, <1>4 DEF Inv

LEMMA LentHeld ==
  ASSUME Inv
  PROVE  lent \in Cell => lent \in Roots
BY DEF Roots

LEMMA OneDestroy ==
  ASSUME NEW c, Tree(c) \subseteq live, NEW h
  PROVE  DestroyFault([g \in {h} |-> c]) = {}
<1> DEFINE roots == [g \in {h} |-> c]
<1>1. DOMAIN roots = {h} /\ roots[h] = c
  OBVIOUS
<1> HIDE DEF roots
<1>2. DestroyFault(roots) = {}
  BY <1>1 DEF DestroyFault
<1> QED
  BY <1>2 DEF roots

(* What the caller lends is not touched by what happens to other boxes.    *)
LEMMA LentApart ==
  ASSUME Inv, lent' = lent, \A c \in live : kids'[c] = kids[c]
  PROVE  LentOK' /\ Borrowed' = Borrowed
<1>1. CASE lent = Null
  BY <1>1 DEF LentOK, Borrowed
<1>2. CASE lent # Null
  <2>1. PICK l, r \in Cell : /\ kids[lent] = <<l, r>> /\ l # r /\ lent \notin {l, r}
                             /\ kids[l] = <<>> /\ kids[r] = <<>>
    BY <1>2 DEF Inv, LentOK
  <2>2. lent \in Roots /\ lent \in Cell
    BY <1>2, LentHeld DEF Inv, TypeOK
  <2>3. Roots \subseteq live /\ \A d \in Cell : Payloads[d] \subseteq live
    BY DEF Inv, Heap
  <2>4. Payloads[lent] = {l, r}
    BY <2>1, <2>2, PairRange DEF Payloads
  <2>5. lent \in live /\ l \in live /\ r \in live
    BY <2>2, <2>3, <2>4
  <2>6. kids'[lent] = <<l, r>> /\ kids'[l] = <<>> /\ kids'[r] = <<>>
    BY <2>1, <2>5
  <2> QED
    BY <2>1, <2>6 DEF LentOK, Borrowed
<1> QED
  BY <1>1, <1>2

LEMMA StmtFacts ==
  ASSUME Inv, AtStmt
  PROVE  /\ TypeOK /\ fault = {} /\ OneHolder /\ Heap(live, Payloads, Roots) /\ LentOK /\ Shaped
         /\ KeysOnly(state) /\ phase = "walk"
         /\ slot \in [Name -> Cell \cup {Null}] /\ live \subseteq Cell /\ Roots \subseteq live
         /\ kids \in [Cell -> Seq(Cell)] /\ aliases \subseteq Name
         /\ \A n \in Name \ aliases : state[Key(n)] = "absent" => slot[n] = Null
<1>1. /\ TypeOK /\ fault = {} /\ OneHolder /\ Heap(live, Payloads, Roots) /\ LentOK /\ Shaped
      /\ WalkInv /\ phase = "walk"
  BY DEF Inv, AtStmt
<1>2. Track = state
  BY TrackAtStmt
<1> QED
  BY <1>1, <1>2 DEF WalkInv, TypeOK, Heap

LEMMA LendStep ==
  ASSUME Inv, NEW x \in Name, Lend(x)
  PROVE  Inv'
<1>1. /\ AtStmt /\ Usable(x) /\ Assigned(x) /\ fault' = fault \cup Touch(Tree(slot[x]))
      /\ UNCHANGED <<walkVars, live, kids, slot, lent, returned>>
  BY DEF Lend
<1>2. /\ TypeOK /\ fault = {} /\ WalkInv /\ OneHolder /\ Heap(live, Payloads, Roots) /\ LentOK
  BY <1>1 DEF Inv, AtStmt
<1>3. Tree(slot[x]) \subseteq live
  <2>1. CASE x \in aliases
    <3>1. slot[x] \in Borrowed /\ lent # Null
      BY <1>2, <2>1 DEF WalkInv, Borrowed
    <3>2. lent \in Roots /\ lent \in Cell
      BY <1>2, <3>1, LentHeld DEF TypeOK
    <3>3. slot[x] \in Tree(lent) /\ Tree(lent) \subseteq live
      BY <1>2, <3>1, <3>2, TreesOfRoots DEF Borrowed
    <3>4. slot[x] \in live
      BY <3>3
    <3>5. Solves(Payloads, [c \in Cell |-> Tree(c)]) /\ live \subseteq Cell
      BY <1>2, TreesOfRoots
    <3> DEFINE f == [c \in Cell |-> Tree(c)]
    <3>6. f[slot[x]] = Tree(slot[x])
      BY <3>4, <3>5
    <3> HIDE DEF f
    <3>7. Solves(Payloads, f)
      BY <3>5 DEF f
    <3>8. \A d \in live : f[d] \subseteq live
      BY <1>2, <3>7, HeapTrees
    <3> QED
      BY <3>4, <3>6, <3>8
  <2>2. CASE x \notin aliases
    <3>1. slot[x] \in Roots
      BY <1>1, <2>2, OwnerIs DEF Takeable
    <3> QED
      BY <1>2, <3>1, TreesOfRoots
  <2> QED
    BY <2>1, <2>2
<1>4. fault' = {}
  BY <1>1, <1>2, <1>3 DEF Touch
<1>5. /\ \A c : VarsOf(c)' = VarsOf(c)
      /\ \A i, c : HiddenOf(i, c)' = HiddenOf(i, c)
      /\ \A c : CasesOf(c)' = CasesOf(c)
      /\ Payloads' = Payloads /\ Roots' = Roots
  BY <1>1, VarsAtStmt, VarsNextStmt DEF VarsOf, HiddenOf, CasesOf, Payloads, Roots, walkVars
<1>6. OneHolder'
  BY <1>1, <1>2, <1>5 DEF OneHolder, walkVars
<1>7. KeysOnly(state)'
  BY <1>1, <1>2 DEF WalkInv, KeysOnly, Key, walkVars
<1>8. Shaped' /\ LentOK' /\ Borrowed' = Borrowed
  BY <1>1, <1>2 DEF Inv, Shaped, LentOK, Borrowed
<1>9. Heap(live', Payloads', Roots')
  BY <1>1, <1>2, <1>5
<1>10. /\ \A n \in Name \ aliases : state'[Key(n)] = "absent" => slot'[n] = Null
       /\ live' \subseteq Cell /\ kids' \in [Cell -> Seq(Cell)] /\ slot' \in [Name -> Cell \cup {Null}]
       /\ UNCHANGED <<bounds, phase, rebound, aliases, frames, lent, returned>>
       /\ \A n \in aliases : state'[Key(n)] = state[Key(n)] /\ slot'[n] = slot[n]
       /\ \A c \in live : kids[c] = <<>> => kids'[c] = <<>>
  BY <1>1, <1>2, TrackAtStmt DEF WalkInv, TypeOK, walkVars
<1> QED
  BY <1>1, <1>4, <1>6, <1>7, <1>8, <1>9, <1>10, StatementInv

LEMMA ConsumeStep ==
  ASSUME Inv, NEW x \in Name, Consume(x)
  PROVE  Inv'
<1>1. /\ AtStmt /\ Takeable(x) /\ Assigned(x)
      /\ state' = [state EXCEPT ![Key(x)] = "Moved"]
      /\ Free(Tree(slot[x]))
      /\ fault' = fault \cup DestroyFault([h \in {x} |-> slot[x]])
      /\ UNCHANGED <<bounds, phase, rebound, aliases, frames, slot, lent, returned>>
  BY DEF Consume
<1>2. /\ TypeOK /\ fault = {} /\ OneHolder /\ Heap(live, Payloads, Roots) /\ LentOK /\ Shaped
      /\ KeysOnly(state) /\ slot \in [Name -> Cell \cup {Null}] /\ live \subseteq Cell /\ aliases \subseteq Name
      /\ \A n \in Name \ aliases : state[Key(n)] = "absent" => slot[n] = Null
  BY <1>1, StmtFacts
<1>3. /\ slot[x] \in Cell /\ x \in VarsOf(slot[x]) /\ slot[x] \in Roots
      /\ state[Key(x)] = "Owned" /\ x \notin aliases /\ slot[x] # lent
  BY <1>1, OwnerIs
<1>4. Trees({slot[x]}) = Tree(slot[x]) /\ {slot[n] : n \in {x}} = {slot[x]}
  BY DEF Trees
<1>5. /\ Heap(live', Payloads', Roots \ {slot[x]})
      /\ live' \subseteq Cell /\ kids' \in [Cell -> Seq(Cell)]
      /\ Shaped' /\ LentOK' /\ Borrowed' = Borrowed
      /\ \A c \in Cell : kids[c] = <<>> => kids'[c] = <<>>
      /\ Trees({slot[x]}) \subseteq live
  <2>1. lent \in Cell => lent \in Roots \ {slot[x]}
    BY <1>3, LentHeld
  <2>2. Free(Trees({slot[x]})) /\ lent' = lent
    BY <1>1, <1>4
  <2> QED
    <3>1. Heap(live, Payloads, Roots) /\ {slot[x]} \in SUBSET Roots /\ TypeOK /\ Shaped /\ LentOK
      BY <1>2, <1>3
    <3> QED
      BY <2>1, <2>2, <3>1, FreeStep
<1>6. fault' = {}
  BY <1>1, <1>2, <1>4, <1>5, OneDestroy
<1>7. /\ KeysOnly(state') /\ \A n \in Name : state'[Key(n)] = IF n = x THEN "Moved" ELSE state[Key(n)]
  <2>1. state' = MovedOut({x})
    BY <1>1, <1>2 DEF MovedOut, TypeOK, StateMap
  <2> QED
    BY <1>2, <2>1, Moved
<1>8. KeysOnly(state)'
  BY <1>1, <1>7 DEF KeysOnly, Key
<1>9. \A c : VarsOf(c)' = (VarsOf(c) \ {x})
  BY <1>1, <1>7, VarsAtStmt, VarsNextStmt
<1>10. OneHolder' /\ Roots' = Roots \ {slot[x]}
  <2>1. /\ \A n \in {x} : slot[n] \in Cell /\ n \in VarsOf(slot[n])
        /\ \A c \in Cell : VarsOf(c)' = (VarsOf(c) \ {x}) \cup (IF c \in {} THEN {x} ELSE {})
        /\ \A c \in {} : c \in Roots => \E n \in {x} : slot[n] = c
    BY <1>3, <1>9
  <2>2. OneHolder' /\ Roots' = (Roots \ {slot[n] : n \in {x}}) \cup {}
    BY <1>1, <1>2, <2>1, HoldersChange
  <2> QED
    BY <1>4, <2>2
<1>11. /\ \A n \in Name \ aliases : state'[Key(n)] = "absent" => slot'[n] = Null
       /\ slot' \in [Name -> Cell \cup {Null}]
       /\ \A n \in aliases : state'[Key(n)] = state[Key(n)] /\ slot'[n] = slot[n]
       /\ \A c \in live : kids[c] = <<>> => kids'[c] = <<>>
       /\ UNCHANGED <<bounds, phase, rebound, aliases, frames, lent, returned>>
  BY <1>1, <1>2, <1>3, <1>5, <1>7
<1> QED
  BY <1>1, <1>5, <1>6, <1>8, <1>10, <1>11, StatementInv

LEMMA BindStep ==
  ASSUME Inv, NEW x \in Name, NEW tag, Bind(x, tag)
  PROVE  Inv'
<1>1. /\ AtStmt /\ state[Key(x)] # "Owned" /\ x \notin aliases
      /\ state' = [state EXCEPT ![Key(x)] = "Owned"]
      /\ Grow(tag)
      /\ slot' = [slot EXCEPT ![x] = Fresh]
      /\ UNCHANGED <<bounds, phase, rebound, aliases, frames, lent, fault, returned>>
  BY DEF Bind, Receives
<1>2. /\ TypeOK /\ fault = {} /\ OneHolder /\ Heap(live, Payloads, Roots) /\ LentOK /\ Shaped
      /\ KeysOnly(state) /\ slot \in [Name -> Cell \cup {Null}] /\ live \subseteq Cell /\ aliases \subseteq Name
      /\ \A n \in Name \ aliases : state[Key(n)] = "absent" => slot[n] = Null
      /\ Roots \subseteq live
  BY <1>1, StmtFacts
<1>3. /\ Fresh \in Cell \ live /\ Fresh \notin Named
      /\ Heap(live', Payloads', Roots \cup {Fresh})
      /\ live' \subseteq Cell /\ kids' \in [Cell -> Seq(Cell)] /\ Fresh \in live'
      /\ Shaped' /\ \A c \in live : kids'[c] = kids[c]
  BY <1>1, <1>2, GrowStep
<1>4. LentOK' /\ Borrowed' = Borrowed
  BY <1>1, <1>3, LentApart
<1>5. KeysOnly(state') /\ \A n \in Name : state'[Key(n)] = IF n = x THEN "Owned" ELSE state[Key(n)]
  <2>1. /\ KeysOnly([state EXCEPT ![Key(x)] = "Owned"])
        /\ \A n \in Name :
             [state EXCEPT ![Key(x)] = "Owned"][Key(n)] = IF n = x THEN "Owned" ELSE state[Key(n)]
    BY <1>2, Received
  <2> QED
    BY <1>1, <2>1
<1>6. KeysOnly(state)'
  BY <1>1, <1>5 DEF KeysOnly, Key
<1>7. \A n \in Name : slot'[n] = IF n = x THEN Fresh ELSE slot[n]
  BY <1>1, <1>2
<1>8. \A c : VarsOf(c)' = VarsOf(c) \cup (IF c \in {Fresh} THEN {x} ELSE {})
  BY <1>1, <1>5, <1>7, VarsAtStmt, VarsNextStmt
<1>9. OneHolder' /\ Roots' = Roots \cup {Fresh}
  <2>1. /\ \A n \in {} : slot[n] \in Cell /\ n \in VarsOf(slot[n])
        /\ \A c \in Cell : VarsOf(c)' = (VarsOf(c) \ {}) \cup (IF c \in {Fresh} THEN {x} ELSE {})
        /\ \A c \in {Fresh} : c \in Roots => \E n \in {} : slot[n] = c
    BY <1>2, <1>3, <1>8
  <2>2. {Fresh} \in SUBSET Cell
    BY <1>3
  <2>3. OneHolder' /\ Roots' = (Roots \ {slot[n] : n \in {}}) \cup {Fresh}
    BY <1>1, <1>2, <2>1, <2>2, HoldersChange
  <2> QED
    BY <2>3
<1>10. /\ \A n \in Name \ aliases : state'[Key(n)] = "absent" => slot'[n] = Null
       /\ \A n \in aliases : state'[Key(n)] = state[Key(n)] /\ slot'[n] = slot[n]
       /\ \A c \in live : kids[c] = <<>> => kids'[c] = <<>>
       /\ UNCHANGED <<bounds, phase, rebound, aliases, frames, lent, returned>>
       /\ fault' = {}
  BY <1>1, <1>2, <1>3, <1>5, <1>7
<1>11. slot' \in [Name -> Cell \cup {Null}]
  BY <1>1, <1>2, <1>3
<1> QED
  BY <1>1, <1>3, <1>4, <1>6, <1>9, <1>10, <1>11, StatementInv

LEMMA ConstructStep ==
  ASSUME Inv, NEW x \in Name, NEW y \in Name, NEW z \in Name, Construct(x, y, z)
  PROVE  Inv'
<1>1. /\ AtStmt /\ y # z /\ Takeable(y) /\ Takeable(z) /\ Assigned(y) /\ Assigned(z)
      /\ MovedOut({y, z})[Key(x)] # "Owned" /\ x \notin aliases
      /\ state' = [MovedOut({y, z}) EXCEPT ![Key(x)] = "Owned"]
      /\ Room # {} /\ live' = live \cup {Fresh}
      /\ kids' = [kids EXCEPT ![Fresh] = <<slot[y], slot[z]>>]
      /\ slot' = [slot EXCEPT ![x] = Fresh]
      /\ UNCHANGED <<bounds, phase, rebound, aliases, frames, lent, fault, returned>>
  BY DEF Construct, Receives
<1>2. /\ TypeOK /\ fault = {} /\ OneHolder /\ Heap(live, Payloads, Roots) /\ LentOK /\ Shaped
      /\ KeysOnly(state) /\ slot \in [Name -> Cell \cup {Null}] /\ live \subseteq Cell /\ aliases \subseteq Name
      /\ \A n \in Name \ aliases : state[Key(n)] = "absent" => slot[n] = Null
      /\ Roots \subseteq live /\ kids \in [Cell -> Seq(Cell)]
  BY <1>1, StmtFacts
<1>3. /\ slot[y] \in Cell /\ y \in VarsOf(slot[y]) /\ slot[y] \in Roots /\ y \notin aliases
      /\ slot[z] \in Cell /\ z \in VarsOf(slot[z]) /\ slot[z] \in Roots /\ z \notin aliases
  BY <1>1, OwnerIs
<1>4. slot[y] # slot[z]
  BY <1>1, <1>2, <1>3 DEF OneHolder
<1>5. Fresh \in Cell \ live
  BY <1>1, <1>2, RoomFacts, MinOf DEF Fresh
<1>6. kids' \in [Cell -> Seq(Cell)] /\ kids'[Fresh] = <<slot[y], slot[z]>>
      /\ \A c \in Cell : c # Fresh => kids'[c] = kids[c]
  BY <1>1, <1>2, <1>3, <1>5
<1>7. Shaped'
  <2>1. \A c \in Cell : kids'[c] = <<>> \/ \E l, r \in Cell : l # r /\ kids'[c] = <<l, r>>
    <3> TAKE c \in Cell
    <3>1. CASE c = Fresh
      BY <1>3, <1>4, <1>6, <3>1
    <3>2. CASE c # Fresh
      BY <1>2, <1>6, <3>2 DEF Shaped
    <3> QED
      BY <3>1, <3>2
  <2> QED
    BY <2>1 DEF Shaped
<1>8. LentOK' /\ Borrowed' = Borrowed
  BY <1>1, <1>2, <1>5, <1>6, LentApart
<1>9. Heap(live', Payloads', (Roots \ {slot[y], slot[z]}) \cup {Fresh})
  <2>1. \A c \in Cell : Range(kids'[c]) = IF c = Fresh THEN {slot[y], slot[z]} ELSE Range(kids[c])
    BY <1>3, <1>5, <1>6, PairRange
  <2>2. Payloads' = [c \in Cell |-> IF c = Fresh THEN {slot[y], slot[z]} ELSE Range(kids[c])]
    BY <2>1 DEF Payloads
  <2>3. Payloads' = [Payloads EXCEPT ![Fresh] = {slot[y], slot[z]}]
    BY <2>2 DEF Payloads
  <2>4. Heap(live \cup {Fresh}, [Payloads EXCEPT ![Fresh] = {slot[y], slot[z]}],
             (Roots \ {slot[y], slot[z]}) \cup {Fresh})
    BY <1>2, <1>3, <1>5, Joined2
  <2> QED
    BY <1>1, <2>3, <2>4
<1>10. /\ KeysOnly(MovedOut({y, z})) /\ MovedOut({y, z}) \in StateMap
       /\ \A n \in Name : MovedOut({y, z})[Key(n)] = IF n \in {y, z} THEN "Moved" ELSE state[Key(n)]
  <2>1. {y, z} \in SUBSET Name
    OBVIOUS
  <2> QED
    BY <1>2, <2>1, Moved
<1>11. KeysOnly(state') /\ \A n \in Name :
         state'[Key(n)] = IF n = x THEN "Owned" ELSE IF n \in {y, z} THEN "Moved" ELSE state[Key(n)]
  <2> DEFINE s == MovedOut({y, z})
  <2>1. KeysOnly(s) /\ state' = [s EXCEPT ![Key(x)] = "Owned"]
    BY <1>1, <1>10
  <2>2. \A n \in Name : s[Key(n)] = IF n \in {y, z} THEN "Moved" ELSE state[Key(n)]
    BY <1>10
  <2> HIDE DEF s
  <2>3. /\ KeysOnly([s EXCEPT ![Key(x)] = "Owned"])
        /\ \A n \in Name : [s EXCEPT ![Key(x)] = "Owned"][Key(n)] = IF n = x THEN "Owned" ELSE s[Key(n)]
    BY <2>1, Received
  <2> QED
    BY <2>1, <2>2, <2>3
<1>12. KeysOnly(state)'
  BY <1>1, <1>11 DEF KeysOnly, Key
<1>13. \A n \in Name : slot'[n] = IF n = x THEN Fresh ELSE slot[n]
  BY <1>1, <1>2
<1>14. x \in {y, z} \/ state[Key(x)] # "Owned"
  BY <1>1, <1>10
<1>15. \A c : VarsOf(c)' = (VarsOf(c) \ {y, z}) \cup (IF c \in {Fresh} THEN {x} ELSE {})
  <2> TAKE c
  <2>1. VarsOf(c) = {n \in Name \ aliases : state[Key(n)] = "Owned" /\ slot[n] = c}
    BY <1>1, VarsAtStmt
  <2>2. VarsOf(c)' = {n \in Name \ aliases : state'[Key(n)] = "Owned" /\ slot'[n] = c}
    BY <1>1, VarsNextStmt
  <2>3. \A n \in Name : n \in VarsOf(c)' <=> \/ n \in VarsOf(c) \ {y, z}
                                             \/ c = Fresh /\ n = x
    <3>1. x \notin aliases
      BY <1>1
    <3> QED
      BY <1>11, <1>13, <1>14, <2>1, <2>2, <3>1
  <2> QED
    BY <2>1, <2>2, <2>3
<1>16. OneHolder' /\ Roots' = (Roots \ {slot[y], slot[z]}) \cup {Fresh}
  <2>1. /\ \A n \in {y, z} : slot[n] \in Cell /\ n \in VarsOf(slot[n])
        /\ \A c \in Cell : VarsOf(c)' = (VarsOf(c) \ {y, z}) \cup (IF c \in {Fresh} THEN {x} ELSE {})
        /\ \A c \in {Fresh} : c \in Roots => \E n \in {y, z} : slot[n] = c
    BY <1>2, <1>3, <1>5, <1>15
  <2>2. {Fresh} \in SUBSET Cell
    BY <1>5
  <2>3. OneHolder' /\ Roots' = (Roots \ {slot[n] : n \in {y, z}}) \cup {Fresh}
    BY <1>1, <1>2, <2>1, <2>2, HoldersChange
  <2>4. {slot[n] : n \in {y, z}} = {slot[y], slot[z]}
    OBVIOUS
  <2> QED
    BY <2>3, <2>4
<1>17. /\ \A n \in Name \ aliases : state'[Key(n)] = "absent" => slot'[n] = Null
       /\ \A n \in aliases : state'[Key(n)] = state[Key(n)] /\ slot'[n] = slot[n]
       /\ \A c \in live : kids[c] = <<>> => kids'[c] = <<>>
       /\ UNCHANGED <<bounds, phase, rebound, aliases, frames, lent, returned>>
       /\ fault' = {} /\ live' \subseteq Cell
  <2>1. \A n \in Name \ aliases : state'[Key(n)] = "absent" => slot'[n] = Null
    BY <1>2, <1>11, <1>13
  <2>2. \A n \in aliases : state'[Key(n)] = state[Key(n)] /\ slot'[n] = slot[n]
    <3>1. x \notin aliases /\ y \notin aliases /\ z \notin aliases /\ aliases \subseteq Name
      BY <1>1, <1>2, <1>3
    <3> QED
      BY <1>11, <1>13, <3>1
  <2>3. \A c \in live : kids[c] = <<>> => kids'[c] = <<>>
    BY <1>2, <1>5, <1>6
  <2>4. fault' = {} /\ live' \subseteq Cell
    BY <1>1, <1>2, <1>5
  <2> QED
    BY <1>1, <2>1, <2>2, <2>3, <2>4
<1>18. slot' \in [Name -> Cell \cup {Null}]
  BY <1>1, <1>2, <1>5
<1> QED
  BY <1>1, <1>6, <1>7, <1>8, <1>9, <1>12, <1>16, <1>17, <1>18, StatementInv

LEMMA MoveAssignStep ==
  ASSUME Inv, NEW x \in Name, NEW y \in Name, MoveAssign(x, y)
  PROVE  Inv'
<1>1. /\ AtStmt /\ Takeable(y) /\ Assigned(y)
      /\ MovedOut({y})[Key(x)] # "Owned" /\ x \notin aliases
      /\ state' = [MovedOut({y}) EXCEPT ![Key(x)] = "Owned"]
      /\ slot' = [slot EXCEPT ![x] = slot[y]]
      /\ UNCHANGED <<bounds, phase, rebound, aliases, frames, live, kids, lent, fault, returned>>
  BY DEF MoveAssign, Receives
<1>2. /\ TypeOK /\ fault = {} /\ OneHolder /\ Heap(live, Payloads, Roots) /\ LentOK /\ Shaped
      /\ KeysOnly(state) /\ slot \in [Name -> Cell \cup {Null}] /\ live \subseteq Cell /\ aliases \subseteq Name
      /\ \A n \in Name \ aliases : state[Key(n)] = "absent" => slot[n] = Null
      /\ kids \in [Cell -> Seq(Cell)]
  BY <1>1, StmtFacts
<1>3. slot[y] \in Cell /\ y \in VarsOf(slot[y]) /\ slot[y] \in Roots /\ y \notin aliases
  BY <1>1, OwnerIs
<1>4. LentOK' /\ Borrowed' = Borrowed /\ Shaped' /\ Payloads' = Payloads
  BY <1>1, <1>2 DEF LentOK, Borrowed, Shaped, Payloads
<1>5. /\ KeysOnly(MovedOut({y})) /\ MovedOut({y}) \in StateMap
      /\ \A n \in Name : MovedOut({y})[Key(n)] = IF n \in {y} THEN "Moved" ELSE state[Key(n)]
  BY <1>2, Moved
<1>6. KeysOnly(state') /\ \A n \in Name :
        state'[Key(n)] = IF n = x THEN "Owned" ELSE IF n = y THEN "Moved" ELSE state[Key(n)]
  <2> DEFINE s == MovedOut({y})
  <2>1. KeysOnly(s) /\ state' = [s EXCEPT ![Key(x)] = "Owned"]
    BY <1>1, <1>5
  <2>2. \A n \in Name : s[Key(n)] = IF n = y THEN "Moved" ELSE state[Key(n)]
    BY <1>5
  <2> HIDE DEF s
  <2>3. /\ KeysOnly([s EXCEPT ![Key(x)] = "Owned"])
        /\ \A n \in Name : [s EXCEPT ![Key(x)] = "Owned"][Key(n)] = IF n = x THEN "Owned" ELSE s[Key(n)]
    BY <2>1, Received
  <2> QED
    BY <2>1, <2>2, <2>3
<1>7. KeysOnly(state)'
  BY <1>1, <1>6 DEF KeysOnly, Key
<1>8. \A n \in Name : slot'[n] = IF n = x THEN slot[y] ELSE slot[n]
  BY <1>1, <1>2
<1>9. x = y \/ state[Key(x)] # "Owned"
  BY <1>1, <1>5
<1>10. \A c : VarsOf(c)' = (VarsOf(c) \ {y}) \cup (IF c \in {slot[y]} THEN {x} ELSE {})
  <2> TAKE c
  <2>1. VarsOf(c) = {n \in Name \ aliases : state[Key(n)] = "Owned" /\ slot[n] = c}
    BY <1>1, VarsAtStmt
  <2>2. VarsOf(c)' = {n \in Name \ aliases : state'[Key(n)] = "Owned" /\ slot'[n] = c}
    BY <1>1, VarsNextStmt
  <2>3. \A n \in Name : n \in VarsOf(c)' <=> \/ n \in VarsOf(c) \ {y}
                                             \/ c = slot[y] /\ n = x
    <3>1. x \notin aliases
      BY <1>1
    <3> QED
      BY <1>6, <1>8, <1>9, <2>1, <2>2, <3>1
  <2> QED
    BY <2>1, <2>2, <2>3
<1>11. OneHolder' /\ Roots' = Roots
  <2>1. /\ \A n \in {y} : slot[n] \in Cell /\ n \in VarsOf(slot[n])
        /\ \A c \in Cell : VarsOf(c)' = (VarsOf(c) \ {y}) \cup (IF c \in {slot[y]} THEN {x} ELSE {})
        /\ \A c \in {slot[y]} : c \in Roots => \E n \in {y} : slot[n] = c
    BY <1>3, <1>10
  <2>2. {slot[y]} \in SUBSET Cell
    BY <1>3
  <2>3. OneHolder' /\ Roots' = (Roots \ {slot[n] : n \in {y}}) \cup {slot[y]}
    BY <1>1, <1>2, <2>1, <2>2, HoldersChange
  <2>4. {slot[n] : n \in {y}} = {slot[y]}
    OBVIOUS
  <2> QED
    BY <1>3, <2>3, <2>4
<1>12. /\ \A n \in Name \ aliases : state'[Key(n)] = "absent" => slot'[n] = Null
       /\ \A n \in aliases : state'[Key(n)] = state[Key(n)] /\ slot'[n] = slot[n]
       /\ \A c \in live : kids[c] = <<>> => kids'[c] = <<>>
       /\ UNCHANGED <<bounds, phase, rebound, aliases, frames, lent, returned>>
       /\ fault' = {} /\ live' \subseteq Cell /\ kids' \in [Cell -> Seq(Cell)]
  <2>1. \A n \in Name \ aliases : state'[Key(n)] = "absent" => slot'[n] = Null
    BY <1>2, <1>6, <1>8
  <2>2. \A n \in aliases : state'[Key(n)] = state[Key(n)] /\ slot'[n] = slot[n]
    <3>1. x \notin aliases /\ y \notin aliases /\ aliases \subseteq Name
      BY <1>1, <1>2, <1>3
    <3> QED
      BY <1>6, <1>8, <3>1
  <2>3. UNCHANGED <<live, kids, fault>>
    BY <1>1
  <2> QED
    BY <1>1, <1>2, <2>1, <2>2, <2>3
<1>13. slot' \in [Name -> Cell \cup {Null}]
  BY <1>1, <1>2, <1>3
<1>14. Heap(live', Payloads', Roots')
  BY <1>1, <1>2, <1>4, <1>11
<1> QED
  BY <1>1, <1>4, <1>7, <1>11, <1>12, <1>13, <1>14, StatementInv

-----------------------------------------------------------------------------
(* Cases around a step.                                                    *)

LEMMA BoxLive ==
  ASSUME Inv, NEW i \in DOMAIN frames, frames[i].byValue
  PROVE  frames[i].box \in Roots /\ frames[i].box \in live /\ i \in CasesOf(frames[i].box)
<1>1. TypeOK /\ Roots \subseteq live
  BY DEF Inv, Heap
<1>2. frames[i] \in FrameType
  BY <1>1, Depth
<1>3. frames[i].box \in Cell
  BY <1>2 DEF FrameType
<1>4. i \in CasesOf(frames[i].box)
  BY DEF CasesOf
<1> QED
  BY <1>1, <1>3, <1>4 DEF Roots

(* A case that the step does not change.                                   *)
LEMMA FrameKept ==
  ASSUME Inv, NEW i \in 1 .. depth, FrameOK(frames[i]), frames[i].taken, frames'[i] = frames[i],
         lent' = lent, rebound' = rebound, Borrowed' = Borrowed,
         \A c \in live : kids[c] = <<>> => kids'[c] = <<>>
  PROVE  FrameOK(frames[i])'
<1>1. i \in DOMAIN frames
  BY Depth DEF Inv
<1>2. frames[i].byValue => frames[i].box \in live
  BY <1>1, BoxLive
<1>3. \A s : KeysOnly(s)' <=> KeysOnly(s)
  BY DEF KeysOnly, Key
<1>4. \A n \in Binders(frames[i].arm) : Key(n)' = Key(n)
  BY DEF Key
<1> QED
  BY <1>2, <1>3, <1>4 DEF FrameOK

LEMMA NestingKept ==
  ASSUME NEW i, Nesting(i), frames'[i] = frames[i], rebound' = rebound, AliasesAt(i)' = AliasesAt(i),
         \A n \in AliasesAt(i) :
           /\ StateAt(i)'[Key(n)] = "Owned" <=> StateAt(i)[Key(n)] = "Owned"
           /\ StateAt(i)'[Key(n)] = "absent" => StateAt(i)[Key(n)] = "absent",
         i < depth' => frames[i].arm # NoArm
  PROVE  Nesting(i)'
<1>1. \A n : Key(n)' = Key(n)
  BY DEF Key
<1> QED
  BY <1>1 DEF Nesting

LEMMA NoBinders == Binders(NoArm) = {}
<1>1. DOMAIN NoArm = {}
  BY DEF NoArm
<1> QED
  BY <1>1 DEF Binders, Bound

LEMMA CaseFrames ==
  ASSUME TypeOK, NEW f \in FrameType, frames' = Append(frames, f), NEW d, d = depth
  PROVE  /\ d \in Nat /\ depth' = d + 1 /\ DOMAIN frames' = 1 .. d + 1 /\ DOMAIN frames = 1 .. d
         /\ \A i \in 1 .. d : frames'[i] = frames[i]
         /\ frames'[d + 1] = f /\ inner' = f /\ frames' \in Seq(FrameType)
<1>1. frames \in Seq(FrameType) /\ Len(frames) = d
  BY DEF TypeOK, depth
<1>2. /\ d \in Nat /\ DOMAIN frames = 1 .. d /\ frames' \in Seq(FrameType)
      /\ Len(frames') = d + 1 /\ DOMAIN frames' = 1 .. d + 1
      /\ \A i \in 1 .. d : frames'[i] = frames[i]
      /\ frames'[d + 1] = f
  BY <1>1
<1>3. depth' = d + 1 /\ inner' = frames'[Len(frames')]
  BY <1>2 DEF depth, inner, Last
<1> QED
  BY <1>2, <1>3

(* The names a scrutinee moves, s being the state after it, and the boxes  *)
(* they held.                                                              *)
MovedBy(s) == {n \in Name : s[Key(n)] # state[Key(n)]}
GivenUp(s) == {slot[n] : n \in MovedBy(s)}

(* A case opens: on a box that a name gave up, on a new box, or on what is *)
(* lent.                                                                   *)
LEMMA CaseStep ==
  ASSUME Inv, NEW byValue \in BOOLEAN, NEW s, KeysOnly(s), NEW box \in Cell, Case(byValue, s, box),
         ~byValue => box = lent /\ lent # Null,
         \A n \in MovedBy(s) : slot[n] \in Cell /\ n \in VarsOf(slot[n]) /\ s[Key(n)] = "Moved",
         byValue => (box \in Roots => box \in GivenUp(s)),
         live' \subseteq Cell, kids' \in [Cell -> Seq(Cell)], Shaped', LentOK',
         Borrowed' = Borrowed, \A c \in live : kids[c] = <<>> => kids'[c] = <<>>,
         box \in live',
         Heap(live', Payloads', (Roots \ GivenUp(s)) \cup (IF byValue THEN {box} ELSE {}))
  PROVE  Inv'
<1> DEFINE f == [byValue |-> byValue, arm |-> NoArm, entry |-> s, joined |-> s, seen |-> {},
                 aliases |-> aliases, saved |-> <<>>, box |-> box, taken |-> FALSE]
<1>1. PICK X : X = MovedBy(s)
  OBVIOUS
<1>2. /\ \A n \in X : slot[n] \in Cell /\ n \in VarsOf(slot[n])
      /\ \A n \in Name : s[Key(n)] = IF n \in X THEN "Moved" ELSE state[Key(n)]
      /\ byValue => (box \in Roots => \E n \in X : slot[n] = box)
      /\ GivenUp(s) = {slot[n] : n \in X}
  BY <1>1 DEF MovedBy, GivenUp
<1>3. /\ AtStmt /\ state' = s
      /\ frames' = Append(frames, f)
      /\ fault' = fault \cup IF box \in live' THEN {} ELSE {"use-after-free"}
      /\ UNCHANGED <<bounds, phase, rebound, aliases, slot, lent, returned>>
  BY DEF Case
<1>4. /\ TypeOK /\ fault = {} /\ OneHolder /\ Heap(live, Payloads, Roots)
      /\ KeysOnly(state) /\ slot \in [Name -> Cell \cup {Null}] /\ live \subseteq Cell /\ aliases \subseteq Name
      /\ \A n \in Name \ aliases : state[Key(n)] = "absent" => slot[n] = Null
  BY <1>3, StmtFacts
<1>5. WalkInv /\ returned = Null
  BY <1>3 DEF Inv, AtStmt
<1>6. f \in FrameType
  <2>1. <<>> \in [{} -> [ptr : Cell \cup {Null}, mark : Mark]]
    OBVIOUS
  <2>2. <<>> \in UNION {[S -> [ptr : Cell \cup {Null}, mark : Mark]] : S \in SUBSET Name}
    BY <2>1
  <2>3. s \in StateMap
    BY DEF KeysOnly
  <2> QED
    BY <1>4, <2>2, <2>3 DEF FrameType
<1>7. /\ f.byValue = byValue /\ f.arm = NoArm /\ f.entry = s /\ f.joined = s /\ f.seen = {}
      /\ f.aliases = aliases /\ f.saved = <<>> /\ f.box = box /\ ~f.taken
  OBVIOUS
<1> HIDE DEF f
<1>8. PICK d : d = depth
  OBVIOUS
<1>9. /\ d \in Nat /\ depth' = d + 1 /\ DOMAIN frames' = 1 .. d + 1 /\ DOMAIN frames = 1 .. d
      /\ \A i \in 1 .. d : frames'[i] = frames[i]
      /\ frames'[d + 1] = f /\ inner' = f /\ frames' \in Seq(FrameType)
  BY <1>3, <1>4, <1>6, <1>8, CaseFrames
<1>10. Track' = s /\ Track = state /\ BetweenArms'
  <2>1. BetweenArms'
    BY <1>3, <1>7, <1>9 DEF BetweenArms, AtStmt
  <2>2. ~inner'.taken
    BY <1>7, <1>9
  <2> QED
    BY <1>3, <2>1, <2>2, TrackAtStmt DEF Track
<1>11. \A n : Key(n)' = Key(n)
  BY <1>3 DEF Key
<1>12. \A t : KeysOnly(t)' <=> KeysOnly(t)
  BY <1>3 DEF KeysOnly, Key
<1>13. \A n \in aliases : s[Key(n)] = state[Key(n)]
  <2>1. \A n \in X : n \notin aliases
    BY <1>2 DEF VarsOf
  <2> QED
    BY <1>4, <1>2, <2>1
<1>14. \A i \in 1 .. d : FrameOK(frames[i])'
  <2> TAKE i \in 1 .. d
  <2>1. FrameOK(frames[i]) /\ frames[i].taken
    BY <1>3, <1>5, <1>8, AllTaken DEF WalkInv
  <2> QED
    BY <1>3, <1>8, <1>9, <2>1, FrameKept
<1>15. \A i \in 1 .. d : Nesting(i)'
  <2> TAKE i \in 1 .. d
  <2>1. Nesting(i) /\ frames'[i] = frames[i] /\ frames[i].arm # NoArm
    BY <1>3, <1>5, <1>8, <1>9, AllTaken DEF WalkInv
  <2>2. CASE i = d
    <3>1. AliasesAt(i)' = aliases /\ AliasesAt(i) = aliases
      BY <1>7, <1>8, <1>9, <2>2 DEF AliasesAt
    <3>2. StateAt(i)' = s /\ StateAt(i) = state
      BY <1>7, <1>8, <1>9, <1>10, <2>2 DEF StateAt
    <3> QED
      BY <1>3, <1>13, <2>1, <3>1, <3>2, NestingKept
  <2>3. CASE i # d
    <3>1. i + 1 \in 1 .. d /\ i # depth /\ i # depth'
      BY <1>8, <1>9, <2>3
    <3>2. frames'[i + 1] = frames[i + 1]
      BY <1>9, <3>1
    <3>3. AliasesAt(i)' = AliasesAt(i) /\ StateAt(i)' = StateAt(i)
      BY <3>1, <3>2 DEF AliasesAt, StateAt
    <3> QED
      BY <1>3, <2>1, <3>3, NestingKept
  <2> QED
    BY <2>2, <2>3
<1>16. FrameOK(frames[d + 1])'
  <2>1. DOMAIN <<>> = {}
    OBVIOUS
  <2> QED
    BY <1>3, <1>7, <1>9, <1>12, <2>1, NoBinders DEF FrameOK
<1>17. Nesting(d + 1)'
  <2>1. AliasesAt(d + 1)' = aliases /\ StateAt(d + 1)' = s
    BY <1>3, <1>9, <1>10 DEF AliasesAt, StateAt
  <2> QED
    BY <1>7, <1>9, <2>1, NoBinders DEF Nesting
<1>18. AliasesAt(0)' = {}
  <2>1. AliasesAt(0) = {}
    BY <1>5 DEF WalkInv
  <2>2. CASE d = 0
    BY <1>7, <1>8, <1>9, <2>1, <2>2 DEF AliasesAt
  <2>3. CASE d # 0
    <3>1. 0 + 1 \in 1 .. d /\ 0 # depth /\ 0 # depth'
      BY <1>8, <1>9, <2>3
    <3> QED
      BY <1>9, <2>1, <3>1 DEF AliasesAt
  <2> QED
    BY <2>2, <2>3
<1>19. WalkInv'
  <2>1. KeysOnly(state)'
    BY <1>3, <1>12
  <2>2. inner'.entry = s
    BY <1>7, <1>9
  <2>3. \A i \in 1 .. d + 1 : FrameOK(frames[i])' /\ Nesting(i)'
    <3> TAKE i \in 1 .. d + 1
    <3>1. i \in 1 .. d \/ i = d + 1
      BY <1>9
    <3> QED
      BY <1>14, <1>15, <1>16, <1>17, <3>1
  <2>4. \A n \in Name \ aliases' : Track'[Key(n)'] = "absent" => slot'[n] = Null
    BY <1>3, <1>4, <1>2, <1>10, <1>11
  <2>5. \A n \in aliases' : slot'[n] \in Borrowed'
    BY <1>3, <1>5 DEF WalkInv
  <2> QED
    BY <1>3, <1>9, <1>18, <2>1, <2>2, <2>3, <2>4, <2>5 DEF WalkInv
<1>20. /\ \A c \in Cell : VarsOf(c)' = VarsOf(c) \ X
       /\ \A i \in 1 .. d : \A c : HiddenOf(i, c)' = HiddenOf(i, c)
       /\ \A c : HiddenOf(d + 1, c)' = {}
       /\ \A c : CasesOf(c)' = CasesOf(c) \cup (IF byValue /\ c = box THEN {d + 1} ELSE {})
  <2>1. \A c \in Cell : VarsOf(c)' = VarsOf(c) \ X
    <3>1. \A c : VarsOf(c)' = {n \in Name \ aliases : s[Key(n)] = "Owned" /\ slot[n] = c}
      BY <1>3, <1>10, <1>11 DEF VarsOf, AtStmt
    <3>2. \A c : VarsOf(c) = {n \in Name \ aliases : state[Key(n)] = "Owned" /\ slot[n] = c}
      BY <1>3, VarsAtStmt
    <3> QED
      BY <1>2, <3>1, <3>2
  <2>2. \A i \in 1 .. d : \A c : HiddenOf(i, c)' = HiddenOf(i, c)
    BY <1>9 DEF HiddenOf
  <2>3. \A c : HiddenOf(d + 1, c)' = {}
    BY <1>7, <1>9 DEF HiddenOf
  <2>4. \A c : CasesOf(c)' = CasesOf(c) \cup (IF byValue /\ c = box THEN {d + 1} ELSE {})
    BY <1>7, <1>9 DEF CasesOf
  <2> QED
    BY <2>1, <2>2, <2>3, <2>4
<1>21. \A c : CasesOf(c) \subseteq 1 .. d
  BY <1>9 DEF CasesOf
<1>22. byValue => /\ VarsOf(box) \ X = {} /\ CasesOf(box) = {} /\ box \notin {lent, returned}
                  /\ \A i \in DOMAIN frames : HiddenOf(i, box) = {}
  <2> SUFFICES ASSUME byValue
               PROVE  /\ VarsOf(box) \ X = {} /\ CasesOf(box) = {} /\ box \notin {lent, returned}
                      /\ \A i \in DOMAIN frames : HiddenOf(i, box) = {}
    OBVIOUS
  <2>1. CASE box \in Roots
    <3>1. PICK n \in X : slot[n] = box
      BY <1>2, <2>1
    <3>2. n \in VarsOf(box) /\ VarsOf(box) # {}
      BY <1>2, <3>1
    <3>3. \A m \in VarsOf(box) : m = n
      BY <1>4, <3>2 DEF OneHolder
    <3>4. VarsOf(box) \ X = {}
      BY <3>1, <3>3
    <3> QED
      BY <1>4, <3>2, <3>4 DEF OneHolder
  <2>2. CASE box \notin Roots
    BY <2>2 DEF Roots
  <2> QED
    BY <2>1, <2>2
<1>23. OneHolder'
  <2> SUFFICES ASSUME NEW c \in Cell
               PROVE  /\ \A n, m \in VarsOf(c)' : n = m
                      /\ \A i, j \in 1 .. d + 1 : \A n \in HiddenOf(i, c)' : \A m \in HiddenOf(j, c)' : i = j /\ n = m
                      /\ \A i, j \in CasesOf(c)' : i = j
                      /\ VarsOf(c)' # {} => /\ \A i \in 1 .. d + 1 : HiddenOf(i, c)' = {}
                                            /\ CasesOf(c)' = {}
                      /\ c \in {lent, returned} => /\ VarsOf(c)' = {} /\ CasesOf(c)' = {}
                                                   /\ \A i \in 1 .. d + 1 : HiddenOf(i, c)' = {}
                      /\ CasesOf(c)' # {} => \A i \in 1 .. d + 1 : HiddenOf(i, c)' = {}
    BY <1>3, <1>9 DEF OneHolder
  <2>1. VarsOf(c)' \subseteq VarsOf(c)
    BY <1>20
  <2>2. \A i \in 1 .. d + 1 : HiddenOf(i, c)' = IF i \in 1 .. d THEN HiddenOf(i, c) ELSE {}
    <3> TAKE i \in 1 .. d + 1
    <3>1. i \in 1 .. d \/ i = d + 1
      BY <1>9
    <3>2. d + 1 \notin 1 .. d
      BY <1>9
    <3> QED
      BY <1>20, <3>1, <3>2
  <2>3. CASE byValue /\ c = box
    <3>1. VarsOf(c)' = {} /\ CasesOf(c)' = {d + 1}
      BY <1>20, <1>22, <2>3
    <3>2. \A i \in 1 .. d + 1 : HiddenOf(i, c)' = {}
      BY <1>9, <1>22, <2>2, <2>3
    <3> QED
      BY <1>22, <2>3, <3>1, <3>2
  <2>4. CASE ~(byValue /\ c = box)
    <3>1. CasesOf(c)' = CasesOf(c)
      BY <1>20, <2>4
    <3> QED
      <4>1. /\ \A n, m \in VarsOf(c) : n = m
            /\ \A i, j \in 1 .. d : \A n \in HiddenOf(i, c) : \A m \in HiddenOf(j, c) : i = j /\ n = m
            /\ \A i, j \in CasesOf(c) : i = j
            /\ VarsOf(c) # {} => /\ \A i \in 1 .. d : HiddenOf(i, c) = {}
                                 /\ CasesOf(c) = {}
            /\ c \in {lent, returned} => /\ VarsOf(c) = {} /\ CasesOf(c) = {}
                                         /\ \A i \in 1 .. d : HiddenOf(i, c) = {}
            /\ CasesOf(c) # {} => \A i \in 1 .. d : HiddenOf(i, c) = {}
        BY <1>4, <1>9 DEF OneHolder
      <4>2. \A i \in 1 .. d + 1 : \A n \in HiddenOf(i, c)' : i \in 1 .. d /\ n \in HiddenOf(i, c)
        BY <2>2
      <4>3. \A i, j \in 1 .. d + 1 : \A n \in HiddenOf(i, c)' : \A m \in HiddenOf(j, c)' : i = j /\ n = m
        BY <4>1, <4>2
      <4>4. /\ \A n, m \in VarsOf(c)' : n = m
            /\ VarsOf(c)' # {} => VarsOf(c) # {}
            /\ \A i, j \in CasesOf(c)' : i = j
        BY <2>1, <3>1, <4>1
      <4>5. (\A i \in 1 .. d : HiddenOf(i, c) = {}) => \A i \in 1 .. d + 1 : HiddenOf(i, c)' = {}
        BY <2>2
      <4>6. VarsOf(c)' # {} => /\ \A i \in 1 .. d + 1 : HiddenOf(i, c)' = {}
                               /\ CasesOf(c)' = {}
        BY <3>1, <4>1, <4>4, <4>5
      <4>7. c \in {lent, returned} => /\ VarsOf(c)' = {} /\ CasesOf(c)' = {}
                                      /\ \A i \in 1 .. d + 1 : HiddenOf(i, c)' = {}
        BY <3>1, <4>1, <4>4, <4>5
      <4>8. CasesOf(c)' # {} => \A i \in 1 .. d + 1 : HiddenOf(i, c)' = {}
        BY <3>1, <4>1, <4>5
      <4> QED
        BY <4>3, <4>4, <4>6, <4>7, <4>8
  <2> QED
    BY <2>3, <2>4
<1>24. Roots' = (Roots \ GivenUp(s)) \cup (IF byValue THEN {box} ELSE {})
  <2>1. Roots' = {c \in Cell : \/ VarsOf(c)' # {}
                               \/ \E i \in 1 .. d + 1 : HiddenOf(i, c)' # {}
                               \/ CasesOf(c)' # {}
                               \/ c \in {lent, returned}}
    BY <1>3, <1>9 DEF Roots
  <2>2. \A c \in Cell : (\E i \in 1 .. d + 1 : HiddenOf(i, c)' # {})
                          <=> \E i \in 1 .. d : HiddenOf(i, c) # {}
    <3> TAKE c \in Cell
    <3>1. \A i \in 1 .. d + 1 : i \in 1 .. d \/ i = d + 1
      BY <1>9
    <3>2. \A i \in 1 .. d : i \in 1 .. d + 1
      BY <1>9
    <3> QED
      BY <1>20, <3>1, <3>2
  <2>3. \A c \in Cell : c \in Roots' <=>
          c \in (Roots \ GivenUp(s)) \cup (IF byValue THEN {box} ELSE {})
    <3> TAKE c \in Cell
    <3>1. CASE byValue /\ c = box
      BY <1>20, <2>1, <3>1
    <3>2. CASE ~(byValue /\ c = box) /\ \E n \in X : slot[n] = c
      <4>1. PICK n \in X : slot[n] = c
        BY <3>2
      <4>2. n \in VarsOf(c) /\ \A m \in VarsOf(c) : m = n
        BY <1>4, <1>2, <4>1 DEF OneHolder
      <4>3. /\ CasesOf(c) = {} /\ c \notin {lent, returned}
            /\ \A i \in 1 .. d : HiddenOf(i, c) = {}
        BY <1>4, <1>9, <4>2 DEF OneHolder
      <4>4. VarsOf(c)' = {}
        BY <1>20, <4>1, <4>2
      <4> QED
        BY <1>20, <1>2, <2>1, <2>2, <3>2, <4>1, <4>3, <4>4
    <3>3. CASE ~(byValue /\ c = box) /\ ~\E n \in X : slot[n] = c
      <4>1. VarsOf(c)' = VarsOf(c)
        <5>1. \A n \in VarsOf(c) : n \notin X
          BY <3>3 DEF VarsOf
        <5> QED
          BY <1>20, <5>1
      <4>2. CasesOf(c)' = CasesOf(c)
        BY <1>20, <3>3
      <4>3. c \in Roots <=> c \in Roots'
        BY <1>9, <2>1, <2>2, <4>1, <4>2 DEF Roots
      <4> QED
        BY <3>3, <4>3, <1>2
    <3> QED
      BY <3>1, <3>2, <3>3
  <2>4. Roots' \subseteq Cell /\ (Roots \ GivenUp(s)) \cup (IF byValue THEN {box} ELSE {}) \subseteq Cell
    BY <2>1 DEF Roots
  <2> QED
    BY <2>3, <2>4
<1>25. TypeOK'
  <2>1. state' \in StateMap
    BY <1>3 DEF KeysOnly
  <2> QED
    BY <1>3, <1>4, <1>9, <2>1 DEF TypeOK
<1>26. Heap(live, Payloads, Roots)'
  BY <1>24
<1>27. fault' = {}
  BY <1>3, <1>4
<1> QED
  BY <1>3, <1>5, <1>19, <1>23, <1>25, <1>26, <1>27 DEF Inv, AtStmt

LEMMA CaseVarStep ==
  ASSUME Inv, NEW x \in Name, CaseVar(x)
  PROVE  Inv'
<1>1. /\ Takeable(x) /\ Assigned(x) /\ UNCHANGED <<live, kids>>
      /\ Case(TRUE, MovedOut({x}), slot[x]) /\ AtStmt /\ lent' = lent
  BY DEF CaseVar, Case
<1>2. /\ OneHolder /\ Heap(live, Payloads, Roots) /\ KeysOnly(state) /\ LentOK /\ Shaped
      /\ live \subseteq Cell /\ Roots \subseteq live /\ kids \in [Cell -> Seq(Cell)]
  BY <1>1, StmtFacts
<1>3. slot[x] \in Cell /\ x \in VarsOf(slot[x]) /\ slot[x] \in Roots
  BY <1>1, OwnerIs
<1>4. PICK s : s = MovedOut({x})
  OBVIOUS
<1>5. PICK box : box = slot[x]
  OBVIOUS
<1>6. KeysOnly(s) /\ \A n \in Name : s[Key(n)] = IF n = x THEN "Moved" ELSE state[Key(n)]
  <2>1. {x} \in SUBSET Name
    OBVIOUS
  <2> QED
    BY <1>2, <1>4, <2>1, Moved
<1>7. MovedBy(s) = {x} /\ GivenUp(s) = {slot[x]}
  <2>1. MovedBy(s) = {x}
    BY <1>1, <1>6, OwnerIs DEF MovedBy
  <2> QED
    BY <2>1 DEF GivenUp
<1>8. Shaped' /\ LentOK' /\ Borrowed' = Borrowed /\ Payloads' = Payloads
  BY <1>1, <1>2 DEF LentOK, Borrowed, Shaped, Payloads
<1>9. (Roots \ GivenUp(s)) \cup (IF TRUE THEN {box} ELSE {}) = Roots
  BY <1>3, <1>5, <1>7
<1>10. Heap(live', Payloads', (Roots \ GivenUp(s)) \cup (IF TRUE THEN {box} ELSE {}))
  BY <1>1, <1>2, <1>8, <1>9
<1>11. /\ Case(TRUE, s, box) /\ box \in Cell /\ TRUE \in BOOLEAN
       /\ \A n \in MovedBy(s) : slot[n] \in Cell /\ n \in VarsOf(slot[n]) /\ s[Key(n)] = "Moved"
       /\ box \in Roots => box \in GivenUp(s)
  BY <1>1, <1>3, <1>6, <1>4, <1>5, <1>7
<1>12. /\ live' \subseteq Cell /\ kids' \in [Cell -> Seq(Cell)] /\ box \in live'
       /\ \A c \in live : kids[c] = <<>> => kids'[c] = <<>>
  BY <1>1, <1>2, <1>3, <1>5
<1> QED
  BY <1>6, <1>8, <1>10, <1>11, <1>12, CaseStep

LEMMA CaseTempStep ==
  ASSUME Inv, NEW tag, CaseTemp(tag)
  PROVE  Inv'
<1>1. Grow(tag) /\ Case(TRUE, state, Fresh) /\ AtStmt /\ lent' = lent
  BY DEF CaseTemp, Case
<1>2. /\ TypeOK /\ OneHolder /\ Heap(live, Payloads, Roots) /\ KeysOnly(state) /\ LentOK /\ Shaped
      /\ live \subseteq Cell /\ Roots \subseteq live
  BY <1>1, StmtFacts
<1>3. /\ Fresh \in Cell \ live
      /\ Heap(live', Payloads', Roots \cup {Fresh})
      /\ live' \subseteq Cell /\ kids' \in [Cell -> Seq(Cell)] /\ Fresh \in live'
      /\ Shaped' /\ \A c \in live : kids'[c] = kids[c]
  BY <1>1, <1>2, GrowStep
<1>4. LentOK' /\ Borrowed' = Borrowed
  BY <1>1, <1>3, LentApart
<1>5. PICK box : box = Fresh
  OBVIOUS
<1>6. PICK s : s = state
  OBVIOUS
<1>7. Heap(live', Payloads', (Roots \ GivenUp(s)) \cup (IF TRUE THEN {box} ELSE {}))
  <2>1. (Roots \ GivenUp(s)) \cup (IF TRUE THEN {box} ELSE {}) = Roots \cup {Fresh}
    BY <1>5, <1>6 DEF GivenUp, MovedBy
  <2> QED
    BY <1>3, <2>1
<1>8. /\ Case(TRUE, s, box) /\ box \in Cell /\ TRUE \in BOOLEAN
      /\ \A n \in MovedBy(s) : slot[n] \in Cell /\ n \in VarsOf(slot[n]) /\ s[Key(n)] = "Moved"
      /\ box \in Roots => box \in GivenUp(s)
      /\ KeysOnly(s) /\ box \in live'
  BY <1>1, <1>2, <1>3, <1>5, <1>6 DEF MovedBy
<1>9. \A c \in live : kids[c] = <<>> => kids'[c] = <<>>
  BY <1>3
<1>10. live' \subseteq Cell /\ kids' \in [Cell -> Seq(Cell)] /\ Shaped'
  BY <1>3
<1> QED
  BY <1>4, <1>7, <1>8, <1>9, <1>10, CaseStep

LEMMA CaseLentStep ==
  ASSUME Inv, CaseLent
  PROVE  Inv'
<1>1. lent # Null /\ UNCHANGED <<live, kids>> /\ Case(FALSE, state, lent) /\ AtStmt /\ lent' = lent
  BY DEF CaseLent, Case
<1>2. /\ TypeOK /\ OneHolder /\ Heap(live, Payloads, Roots) /\ KeysOnly(state) /\ LentOK /\ Shaped
      /\ live \subseteq Cell /\ Roots \subseteq live /\ kids \in [Cell -> Seq(Cell)]
  BY <1>1, StmtFacts
<1>3. lent \in Cell /\ lent \in live
  BY <1>1, <1>2, LentHeld DEF TypeOK
<1>4. Shaped' /\ LentOK' /\ Borrowed' = Borrowed /\ Payloads' = Payloads
  BY <1>1, <1>2 DEF LentOK, Borrowed, Shaped, Payloads
<1>5. PICK box : box = lent
  OBVIOUS
<1>6. PICK s : s = state
  OBVIOUS
<1>7. Heap(live', Payloads', (Roots \ GivenUp(s)) \cup (IF FALSE THEN {box} ELSE {}))
  <2>1. (Roots \ GivenUp(s)) \cup (IF FALSE THEN {box} ELSE {}) = Roots
    BY <1>6 DEF GivenUp, MovedBy
  <2> QED
    BY <1>1, <1>2, <1>4, <2>1
<1>8. /\ Case(FALSE, s, box) /\ box \in Cell /\ FALSE \in BOOLEAN
      /\ \A n \in MovedBy(s) : slot[n] \in Cell /\ n \in VarsOf(slot[n]) /\ s[Key(n)] = "Moved"
      /\ ~FALSE => box = lent /\ lent # Null
      /\ KeysOnly(s) /\ box \in live'
  BY <1>1, <1>2, <1>3, <1>5, <1>6 DEF MovedBy
<1>9. /\ live' \subseteq Cell /\ kids' \in [Cell -> Seq(Cell)]
      /\ \A c \in live : kids[c] = <<>> => kids'[c] = <<>>
  BY <1>1, <1>2
<1> QED
  BY <1>4, <1>7, <1>8, <1>9, CaseStep

-----------------------------------------------------------------------------
(* Arms.                                                                   *)

LEMMA Fronts ==
  /\ \A i \in {1, 2} : Front(<<i>>) = <<>>
  /\ \A i, j \in {1, 2} : Front(<<i, j>>) = <<i>>
<1>1. ASSUME NEW i \in {1, 2} PROVE Front(<<i>>) = <<>>
  <2>1. <<i>> \in Seq({1, 2}) /\ Len(<<i>>) = 1
    OBVIOUS
  <2> DEFINE s == SubSeq(<<i>>, 1, 0)
  <2>2. s \in Seq({1, 2}) /\ Len(s) = 0
    BY <2>1, SubSeqProperties
  <2>3. s = <<>>
    BY <2>2
  <2> QED
    BY <2>1, <2>3 DEF Front
<1>2. ASSUME NEW i \in {1, 2}, NEW j \in {1, 2} PROVE Front(<<i, j>>) = <<i>>
  <2>1. <<i, j>> \in Seq({1, 2}) /\ Len(<<i, j>>) = 2 /\ <<i, j>>[1] = i
    OBVIOUS
  <2> DEFINE s == SubSeq(<<i, j>>, 1, 1)
  <2>2. s \in Seq({1, 2}) /\ Len(s) = 1 /\ s[1] = i
    BY <2>1, SubSeqProperties
  <2>3. <<i>> \in Seq({1, 2}) /\ Len(<<i>>) = 1 /\ <<i>>[1] = i
    OBVIOUS
  <2>4. s = <<i>>
    <3> HIDE DEF s
    <3>1. \A k \in 1 .. Len(s) : s[k] = <<i>>[k]
      BY <2>2, <2>3
    <3> QED
      BY <2>2, <2>3, <3>1, SeqEqual
  <2> QED
    BY <2>1, <2>4 DEF Front
<1> QED
  BY <1>1, <1>2

(* The positions of an arm.                                                *)
LEMMA Positions ==
  ASSUME NEW arm \in Arm
  PROVE  /\ \A p \in DOMAIN arm :
              \/ p = <<>>
              \/ \E i \in {1, 2} : p = <<i>> /\ arm[<<>>] = "Node"
              \/ \E i, j \in {1, 2} :
                   p = <<i, j>> /\ <<i>> \in DOMAIN arm /\ arm[<<i>>] = "Node" /\ arm[<<>>] = "Node"
         /\ \A p \in Tests(arm) : p = <<>> \/ \E i \in {1, 2} : p = <<i>>
         /\ arm[<<>>] = "Node" => \A i \in {1, 2} : <<i>> \in DOMAIN arm
         /\ \A i, j \in {1, 2} : <<i>> \in DOMAIN arm /\ arm[<<i>>] = "Node" => <<i, j>> \in DOMAIN arm
         /\ <<>> \in DOMAIN arm /\ arm[<<>>] \in Tag
         /\ \A p \in DOMAIN arm : arm[p] \in Tag \cup Name \cup {Wild}
         /\ Binders(arm) \subseteq Name
<1>1. /\ arm \in [DOMAIN arm -> PatternHead]
      /\ DOMAIN arm = {p \in Position : p # <<>> => Front(p) \in Nodes(arm)}
      /\ <<>> \in Tests(arm)
      /\ \A p \in Tests(arm) : Len(p) < 2
  BY ArmAssumption
<1>2. \A i, j : Len(<<i, j>>) = 2 /\ <<i>> # <<>> /\ <<i, j>> # <<>>
  OBVIOUS
<1>3. \A p \in Position : Len(p) < 2 => p = <<>> \/ \E i \in {1, 2} : p = <<i>>
  BY <1>2 DEF Position
<1>4. \A p \in Tests(arm) : p = <<>> \/ \E i \in {1, 2} : p = <<i>>
  BY <1>1, <1>3 DEF Tests
<1>5. \A i \in {1, 2} : <<i>> \in Position /\ \A j \in {1, 2} : <<i, j>> \in Position
  BY DEF Position
<1>6. \A p : p \in Nodes(arm) <=> p \in DOMAIN arm /\ arm[p] = "Node"
  BY DEF Nodes
<1>7. \A i \in {1, 2} : <<i>> \in DOMAIN arm <=> <<>> \in Nodes(arm)
  BY <1>1, <1>2, <1>5, Fronts
<1>8. \A i, j \in {1, 2} : <<i, j>> \in DOMAIN arm <=> <<i>> \in Nodes(arm)
  BY <1>1, <1>2, <1>5, Fronts
<1>9. \A p \in DOMAIN arm :
              \/ p = <<>>
              \/ \E i \in {1, 2} : p = <<i>> /\ arm[<<>>] = "Node"
              \/ \E i, j \in {1, 2} :
                   p = <<i, j>> /\ <<i>> \in DOMAIN arm /\ arm[<<i>>] = "Node" /\ arm[<<>>] = "Node"
  <2> TAKE p \in DOMAIN arm
  <2>1. p \in Position
    BY <1>1
  <2>2. p = <<>> \/ (\E i \in {1, 2} : p = <<i>>) \/ \E i, j \in {1, 2} : p = <<i, j>>
    BY <2>1 DEF Position
  <2>3. CASE \E i \in {1, 2} : p = <<i>>
    BY <1>6, <1>7, <2>3
  <2>4. CASE \E i, j \in {1, 2} : p = <<i, j>>
    BY <1>6, <1>7, <1>8, <2>4
  <2> QED
    BY <2>2, <2>3, <2>4
<1>10. <<>> \in DOMAIN arm /\ arm[<<>>] \in Tag
  BY <1>1 DEF Tests
<1>11. \A p \in DOMAIN arm : arm[p] \in Tag \cup Name \cup {Wild}
  BY <1>1 DEF PatternHead
<1>12. Binders(arm) \subseteq Name
  BY DEF Binders, Bound
<1>13. /\ arm[<<>>] = "Node" => \A i \in {1, 2} : <<i>> \in DOMAIN arm
       /\ \A i, j \in {1, 2} : <<i>> \in DOMAIN arm /\ arm[<<i>>] = "Node" => <<i, j>> \in DOMAIN arm
  BY <1>6, <1>7, <1>8, <1>10
<1> QED
  BY <1>4, <1>9, <1>10, <1>11, <1>12, <1>13

LEMMA AtIs ==
  /\ \A c : At(c, <<>>) = c
  /\ \A c, i : At(c, <<i>>) = kids[c][i]
  /\ \A c, i, j : At(c, <<i, j>>) = kids[kids[c][i]][j]
<1>1. Len(<<>>) = 0
  OBVIOUS
<1>2. \A i : Len(<<i>>) = 1 /\ <<i>>[1] = i
  OBVIOUS
<1>3. \A i, j : Len(<<i, j>>) = 2 /\ <<i, j>>[1] = i /\ <<i, j>>[2] = j
  OBVIOUS
<1>4. \A c : At(c, <<>>) = c
  BY <1>1 DEF At
<1>5. \A c, i : At(c, <<i>>) = kids[c][i]
  BY <1>2 DEF At
<1>6. \A c, i, j : At(c, <<i, j>>) = kids[kids[c][i]][j]
  BY <1>3 DEF At
<1> QED
  BY <1>4, <1>5, <1>6

LEMMA ShapeOf ==
  ASSUME TypeOK, Shaped, NEW c \in Cell
  PROVE  \/ kids[c] = <<>> /\ TagOf(c) = "Leaf" /\ Payloads[c] = {}
         \/ /\ TagOf(c) = "Node" /\ kids[c] # <<>>
            /\ kids[c][1] \in Cell /\ kids[c][2] \in Cell /\ kids[c][1] # kids[c][2]
            /\ Payloads[c] = {kids[c][1], kids[c][2]}
<1>1. CASE kids[c] = <<>>
  BY <1>1, PairRange DEF TagOf, Payloads
<1>2. CASE kids[c] # <<>>
  <2>1. PICK l, r \in Cell : l # r /\ kids[c] = <<l, r>>
    BY <1>2 DEF Shaped
  <2>2. kids[c][1] = l /\ kids[c][2] = r
    BY <2>1
  <2>3. Payloads[c] = {l, r}
    BY <2>1, PairRange DEF Payloads
  <2> QED
    BY <1>2, <2>1, <2>2, <2>3 DEF TagOf
<1> QED
  BY <1>1, <1>2

(* The boxes an arm matches are different ones.                            *)
LEMMA Opened ==
  ASSUME TypeOK, Shaped, NEW R, Heap(live, Payloads, R), NEW c \in R, NEW arm \in Arm, Matches(arm, c)
  PROVE  /\ \A p \in DOMAIN arm : At(c, p) \in Cell
         /\ \A p, q \in DOMAIN arm : At(c, p) = At(c, q) => p = q
         /\ \A p \in Tests(arm) \ {<<>>} : At(c, p) \in Payloads[c]
         /\ \A p \in DOMAIN arm \ {<<>>} :
              \/ At(c, p) \in Payloads[c]
              \/ \E q \in Tests(arm) \ {<<>>} : At(c, p) \in Payloads[At(c, q)]
         /\ \A e \in Payloads[c] : \E p \in DOMAIN arm \ {<<>>} : At(c, p) = e
         /\ \A q \in Tests(arm) \ {<<>>} : \A e \in Payloads[At(c, q)] :
              \E p \in DOMAIN arm \ {<<>>} : At(c, p) = e
<1>1. /\ c \in Cell /\ \A d \in Cell : Payloads[d] \subseteq Cell /\ Payloads[d] \cap R = {}
      /\ \A d, e \in Cell : Payloads[d] \cap Payloads[e] # {} => d = e
      /\ Grounded(Payloads)
  BY DEF Heap
<1>2. /\ \A p \in DOMAIN arm :
           \/ p = <<>>
           \/ \E i \in {1, 2} : p = <<i>> /\ arm[<<>>] = "Node"
           \/ \E i, j \in {1, 2} :
                p = <<i, j>> /\ <<i>> \in DOMAIN arm /\ arm[<<i>>] = "Node" /\ arm[<<>>] = "Node"
      /\ \A p \in Tests(arm) : p = <<>> \/ \E i \in {1, 2} : p = <<i>>
      /\ arm[<<>>] = "Node" => \A i \in {1, 2} : <<i>> \in DOMAIN arm
      /\ \A i, j \in {1, 2} : <<i>> \in DOMAIN arm /\ arm[<<i>>] = "Node" => <<i, j>> \in DOMAIN arm
      /\ <<>> \in DOMAIN arm /\ arm[<<>>] \in Tag
  BY Positions
<1>3. \A p \in Tests(arm) : TagOf(At(c, p)) = arm[p] /\ p \in DOMAIN arm
  BY DEF Matches, Tests
<1>4. /\ At(c, <<>>) = c
      /\ \A i : At(c, <<i>>) = kids[c][i]
      /\ \A i, j : At(c, <<i, j>>) = kids[kids[c][i]][j]
  BY AtIs
<1>5. TagOf(c) = arm[<<>>]
  BY <1>2, <1>3, <1>4 DEF Tests
<1>6. \A i, j : Len(<<i>>) = 1 /\ Len(<<i, j>>) = 2 /\ <<i>> # <<>> /\ <<i, j>> # <<>>
  OBVIOUS
<1>7. arm[<<>>] = "Node" =>
        /\ kids[c][1] \in Cell /\ kids[c][2] \in Cell /\ kids[c][1] # kids[c][2]
        /\ Payloads[c] = {kids[c][1], kids[c][2]}
  BY <1>1, <1>5, ShapeOf
<1>8. arm[<<>>] # "Node" => Payloads[c] = {}
  BY <1>1, <1>5, ShapeOf
<1>9. ASSUME NEW i \in {1, 2}, <<i>> \in DOMAIN arm, arm[<<i>>] = "Node"
      PROVE  /\ kids[c][i] \in Payloads[c] /\ kids[c][i] \in Cell
             /\ kids[kids[c][i]][1] \in Cell /\ kids[kids[c][i]][2] \in Cell
             /\ kids[kids[c][i]][1] # kids[kids[c][i]][2]
             /\ Payloads[kids[c][i]] = {kids[kids[c][i]][1], kids[kids[c][i]][2]}
             /\ <<i>> \in Tests(arm)
  <2>1. arm[<<>>] = "Node"
    BY <1>2, <1>6, <1>9
  <2>2. kids[c][i] \in Payloads[c] /\ kids[c][i] \in Cell
    BY <1>7, <2>1
  <2>3. <<i>> \in Tests(arm)
    BY <1>9 DEF Tests, Tag
  <2>4. TagOf(kids[c][i]) = "Node"
    BY <1>3, <1>4, <1>9, <2>3
  <2> QED
    BY <2>2, <2>3, <2>4, ShapeOf
<1>10. ASSUME NEW i \in {1, 2}, <<i>> \in DOMAIN arm
       PROVE  kids[c][i] \in Payloads[c] /\ kids[c][i] \in Cell
  <2>1. arm[<<>>] = "Node"
    BY <1>2, <1>6, <1>10
  <2> QED
    BY <1>7, <2>1
<1>11. \A p \in DOMAIN arm : At(c, p) \in Cell
  <2> TAKE p \in DOMAIN arm
  <2>1. CASE p = <<>>
    BY <1>1, <1>4, <2>1
  <2>2. CASE \E i \in {1, 2} : p = <<i>>
    BY <1>4, <1>10, <2>2
  <2>3. CASE \E i, j \in {1, 2} : p = <<i, j>> /\ <<i>> \in DOMAIN arm /\ arm[<<i>>] = "Node"
    BY <1>4, <1>9, <2>3
  <2> QED
    BY <1>2, <2>1, <2>2, <2>3
<1>12. \A p \in Tests(arm) \ {<<>>} : At(c, p) \in Payloads[c]
  <2> TAKE p \in Tests(arm) \ {<<>>}
  <2>1. PICK i \in {1, 2} : p = <<i>>
    BY <1>2
  <2> QED
    BY <1>3, <1>4, <1>10, <2>1
<1>13. \A p \in DOMAIN arm \ {<<>>} :
              \/ At(c, p) \in Payloads[c]
              \/ \E q \in Tests(arm) \ {<<>>} : At(c, p) \in Payloads[At(c, q)]
  <2> TAKE p \in DOMAIN arm \ {<<>>}
  <2>1. CASE \E i \in {1, 2} : p = <<i>>
    BY <1>4, <1>10, <2>1
  <2>2. CASE \E i, j \in {1, 2} : p = <<i, j>> /\ <<i>> \in DOMAIN arm /\ arm[<<i>>] = "Node"
    <3>1. PICK i, j \in {1, 2} : p = <<i, j>> /\ <<i>> \in DOMAIN arm /\ arm[<<i>>] = "Node"
      BY <2>2
    <3>2. At(c, p) \in Payloads[At(c, <<i>>)] /\ <<i>> \in Tests(arm) \ {<<>>}
      BY <1>4, <1>6, <1>9, <3>1
    <3> QED
      BY <3>2
  <2> QED
    BY <1>2, <2>1, <2>2
<1>14. \A e \in Payloads[c] : \E p \in DOMAIN arm \ {<<>>} : At(c, p) = e
  <2> TAKE e \in Payloads[c]
  <2>1. arm[<<>>] = "Node"
    BY <1>8
  <2>2. PICK i \in {1, 2} : e = kids[c][i]
    BY <1>7, <2>1
  <2>3. <<i>> \in DOMAIN arm \ {<<>>}
    BY <1>2, <1>6, <2>1
  <2> QED
    BY <1>4, <2>2, <2>3
<1>15. \A q \in Tests(arm) \ {<<>>} : \A e \in Payloads[At(c, q)] :
              \E p \in DOMAIN arm \ {<<>>} : At(c, p) = e
  <2> TAKE q \in Tests(arm) \ {<<>>}
  <2> TAKE e \in Payloads[At(c, q)]
  <2>1. PICK i \in {1, 2} : q = <<i>> /\ <<i>> \in DOMAIN arm
    BY <1>2, <1>3
  <2>2. arm[<<i>>] = "Node"
    <3>1. TagOf(kids[c][i]) = arm[<<i>>] /\ kids[c][i] \in Cell /\ Payloads[kids[c][i]] # {}
      BY <1>3, <1>4, <1>10, <2>1
    <3> QED
      BY <3>1, ShapeOf
  <2>3. PICK j \in {1, 2} : e = kids[kids[c][i]][j]
    BY <1>4, <1>9, <2>1, <2>2
  <2>4. <<i, j>> \in DOMAIN arm \ {<<>>}
    BY <1>2, <1>6, <2>1, <2>2
  <2> QED
    BY <1>4, <2>3, <2>4
<1>16. \A p, q \in DOMAIN arm : At(c, p) = At(c, q) => p = q
  <2>1. \A i \in {1, 2} : <<i>> \in DOMAIN arm => kids[c][i] \in Payloads[c]
    BY <1>10
  <2>2. \A i, j \in {1, 2} : <<i>> \in DOMAIN arm /\ arm[<<i>>] = "Node" =>
           kids[c][i] \in Payloads[c] /\ kids[c][i] \in Cell /\ kids[kids[c][i]][j] \in Payloads[kids[c][i]]
    BY <1>9
  <2>3. \A d \in Cell : c \notin Payloads[d]
    BY <1>1
  <2>4. \A i, h \in {1, 2} : <<i>> \in DOMAIN arm /\ kids[c][i] = kids[c][h] => i = h
    <3> TAKE i, h \in {1, 2}
    <3> HAVE <<i>> \in DOMAIN arm /\ kids[c][i] = kids[c][h]
    <3>1. arm[<<>>] = "Node"
      BY <1>2, <1>6
    <3> QED
      BY <1>7, <3>1
  <2>5. \A i, h, j, g \in {1, 2} :
          (/\ <<i>> \in DOMAIN arm /\ arm[<<i>>] = "Node" /\ <<h>> \in DOMAIN arm /\ arm[<<h>>] = "Node"
           /\ kids[kids[c][i]][j] = kids[kids[c][h]][g]) => i = h /\ j = g
    <3> TAKE i, h, j, g \in {1, 2}
    <3> HAVE /\ <<i>> \in DOMAIN arm /\ arm[<<i>>] = "Node" /\ <<h>> \in DOMAIN arm /\ arm[<<h>>] = "Node"
             /\ kids[kids[c][i]][j] = kids[kids[c][h]][g]
    <3>1. Payloads[kids[c][i]] \cap Payloads[kids[c][h]] # {}
      BY <2>2
    <3>2. kids[c][i] = kids[c][h]
      BY <1>1, <2>2, <3>1
    <3>3. i = h
      BY <2>4, <3>2
    <3>4. kids[kids[c][i]][1] # kids[kids[c][i]][2]
      BY <1>9
    <3> QED
      BY <3>3, <3>4
  <2>6. \A i, h, g \in {1, 2} : (<<i>> \in DOMAIN arm /\ <<h>> \in DOMAIN arm /\ arm[<<h>>] = "Node")
            => kids[c][i] # kids[kids[c][h]][g]
    <3> TAKE i, h, g \in {1, 2}
    <3> HAVE <<i>> \in DOMAIN arm /\ <<h>> \in DOMAIN arm /\ arm[<<h>>] = "Node"
    <3> SUFFICES ASSUME kids[c][i] = kids[kids[c][h]][g] PROVE FALSE
      OBVIOUS
    <3>1. Payloads[c] \cap Payloads[kids[c][h]] # {}
      BY <2>1, <2>2
    <3>2. c = kids[c][h]
      BY <1>1, <2>2, <3>1
    <3> QED
      BY <1>1, <2>2, <2>3, <3>2
  <2> TAKE p, q \in DOMAIN arm
  <2> HAVE At(c, p) = At(c, q)
  <2>7. CASE p = <<>> \/ q = <<>>
    <3>1. \A r \in DOMAIN arm : r # <<>> => At(c, r) # c
      BY <1>1, <1>2, <1>4, <2>1, <2>2, <2>3
    <3> QED
      BY <1>4, <2>7, <3>1
  <2>8. CASE p # <<>> /\ q # <<>>
    <3>1. \/ \E i \in {1, 2} : p = <<i>>
          \/ \E i, j \in {1, 2} : p = <<i, j>> /\ <<i>> \in DOMAIN arm /\ arm[<<i>>] = "Node"
      BY <1>2, <2>8
    <3>2. \/ \E i \in {1, 2} : q = <<i>>
          \/ \E i, j \in {1, 2} : q = <<i, j>> /\ <<i>> \in DOMAIN arm /\ arm[<<i>>] = "Node"
      BY <1>2, <2>8
    <3>3. CASE \E i, h \in {1, 2} : p = <<i>> /\ q = <<h>>
      BY <1>4, <2>4, <3>3
    <3>4. CASE \E i, h, g \in {1, 2} : p = <<i>> /\ q = <<h, g>> /\ <<h>> \in DOMAIN arm /\ arm[<<h>>] = "Node"
      BY <1>4, <2>6, <3>4
    <3>5. CASE \E i, h, g \in {1, 2} : q = <<i>> /\ p = <<h, g>> /\ <<h>> \in DOMAIN arm /\ arm[<<h>>] = "Node"
      BY <1>4, <2>6, <3>5
    <3>6. CASE \E i, j, h, g \in {1, 2} :
                 /\ p = <<i, j>> /\ <<i>> \in DOMAIN arm /\ arm[<<i>>] = "Node"
                 /\ q = <<h, g>> /\ <<h>> \in DOMAIN arm /\ arm[<<h>>] = "Node"
      BY <1>4, <2>5, <3>6
    <3> QED
      BY <3>1, <3>2, <3>3, <3>4, <3>5, <3>6
  <2> QED
    BY <2>7, <2>8
<1> QED
  BY <1>11, <1>12, <1>13, <1>14, <1>15, <1>16

(* The boxes that an arm's binders get.                                    *)
BoundBoxes(arm, c) == {At(c, p) : p \in Bound(arm)}

(* What a match leaves of a tree: the binders' boxes are roots.            *)
LEMMA TakenHeap ==
  ASSUME TypeOK, Shaped, LentOK, fault = {}, NEW R, Heap(live, Payloads, R), NEW c \in R,
         NEW arm \in Arm, Matches(arm, c), TakeApart(arm, c), lent' = lent, lent \in Cell => lent \in R \ {c}
  PROVE  /\ Heap(live', Payloads', R \cup BoundBoxes(arm, c))
         /\ live' \subseteq Cell /\ kids' \in [Cell -> Seq(Cell)]
         /\ Shaped' /\ LentOK' /\ Borrowed' = Borrowed
         /\ \A d \in Cell : kids[d] = <<>> => kids'[d] = <<>>
         /\ kids'[c] = <<>> /\ fault' = {}
         /\ \A p \in Bound(arm) : At(c, p) \in Cell /\ At(c, p) \notin R
<1> DEFINE f == [d \in Cell |-> Tree(d)]
           K == {At(c, p) : p \in Tests(arm) \ {<<>>}}
           D == {At(c, p) : p \in Discarded(arm)}
           B == BoundBoxes(arm, c)
           F == TakenApart(arm, c)
<1>1. /\ \A p \in DOMAIN arm : At(c, p) \in Cell
      /\ \A p, q \in DOMAIN arm : At(c, p) = At(c, q) => p = q
      /\ \A p \in Tests(arm) \ {<<>>} : At(c, p) \in Payloads[c]
      /\ \A p \in DOMAIN arm \ {<<>>} :
           \/ At(c, p) \in Payloads[c]
           \/ \E q \in Tests(arm) \ {<<>>} : At(c, p) \in Payloads[At(c, q)]
      /\ \A e \in Payloads[c] : \E p \in DOMAIN arm \ {<<>>} : At(c, p) = e
      /\ \A q \in Tests(arm) \ {<<>>} : \A e \in Payloads[At(c, q)] :
           \E p \in DOMAIN arm \ {<<>>} : At(c, p) = e
  BY Opened
<1>2. /\ Solves(Payloads, f) /\ \A d \in Cell : f[d] = Tree(d)
      /\ R \subseteq live /\ live \subseteq Cell
  BY TreesOfRoots
<1>3. /\ c \in Cell /\ \A d \in Cell : Payloads[d] \subseteq live \ R
  BY DEF Heap
<1>4. /\ \A p \in DOMAIN arm : p \in Tests(arm) \/ p \in Bound(arm) \/ p \in Discarded(arm)
      /\ \A p \in Bound(arm) : p \notin Tests(arm) /\ p \notin Discarded(arm)
      /\ \A p \in Discarded(arm) : p \notin Tests(arm)
      /\ Tests(arm) \subseteq DOMAIN arm /\ Bound(arm) \subseteq DOMAIN arm /\ Discarded(arm) \subseteq DOMAIN arm
      /\ <<>> \in Tests(arm)
  BY Positions, NameAssumption DEF Tests, Bound, Discarded
<1>5. /\ \A x : x \in K <=> \E p \in Tests(arm) : p # <<>> /\ At(c, p) = x
      /\ \A x : x \in D <=> \E p \in Discarded(arm) : At(c, p) = x
      /\ \A x : x \in B <=> \E p \in Bound(arm) : At(c, p) = x
  BY DEF BoundBoxes
<1>6. \A x : x \in F <=> x \in K \/ \E d \in D : x \in Tree(d)
  BY DEF TakenApart, Trees
<1>7. /\ live' = live \ F
      /\ kids' = [d \in Cell |-> IF d \in F \cup {c} THEN <<>> ELSE kids[d]]
      /\ fault' = fault \cup Touch(F)
  BY DEF TakeApart
<1> HIDE DEF f, K, D, B, F
<1>8. \A x : (x \in K \/ x \in D \/ x \in B) <=> \E p \in DOMAIN arm : p # <<>> /\ At(c, p) = x
  BY <1>4, <1>5
<1>9. K \subseteq Payloads[c]
  BY <1>1, <1>5
<1>10. \A x : (x \in K \/ x \in D \/ x \in B) <=> (x \in Payloads[c] \/ \E k \in K : x \in Payloads[k])
  <2> TAKE x
  <2>1. ASSUME x \in K \/ x \in D \/ x \in B PROVE x \in Payloads[c] \/ \E k \in K : x \in Payloads[k]
    <3>1. PICK p \in DOMAIN arm : p # <<>> /\ At(c, p) = x
      BY <1>8, <2>1
    <3>2. x \in Payloads[c] \/ \E q \in Tests(arm) \ {<<>>} : x \in Payloads[At(c, q)]
      BY <1>1, <3>1
    <3> QED
      BY <1>5, <3>2
  <2>2. ASSUME x \in Payloads[c] \/ \E k \in K : x \in Payloads[k] PROVE x \in K \/ x \in D \/ x \in B
    <3>1. CASE x \in Payloads[c]
      BY <1>1, <1>8, <3>1
    <3>2. CASE \E k \in K : x \in Payloads[k]
      <4>1. PICK q \in Tests(arm) : q # <<>> /\ x \in Payloads[At(c, q)]
        BY <1>5, <3>2
      <4> QED
        BY <1>1, <1>8, <4>1
    <3> QED
      BY <2>2, <3>1, <3>2
  <2> QED
    BY <2>1, <2>2
<1>11. \A x : x \in K \/ x \in D \/ x \in B => x \in live /\ x \notin R
  BY <1>2, <1>3, <1>9, <1>10
<1>12. \A x \in B : x \notin K /\ x \notin D
  BY <1>1, <1>4, <1>5
<1>13. \A x \in D : x \notin K /\ x # c
  BY <1>1, <1>4, <1>5, <1>11
<1>14. PICK N : N = Emptied(Payloads, c, K)
  OBVIOUS
<1>15. PICK P : P = Loose(Payloads, R, c, K)
  OBVIOUS
<1>16. /\ Heap(live, N, P)
       /\ \A g : Solves(N, g) => /\ \A d \in Cell \ ({c} \cup K) : g[d] = f[d]
                                 /\ \A d \in {c} \cup K : g[d] = {d}
  <2>1. Solves(Payloads, f) /\ Nested(Payloads, c, K)
    BY <1>2, <1>9 DEF Nested
  <2> QED
    BY <1>14, <1>15, <2>1, Unboxed
<1>17. PICK g : Solves(N, g)
  BY <1>16 DEF Heap
<1>18. \A x : x \in P <=> x \in R \/ x \in K \/ x \in D \/ x \in B
  BY <1>10, <1>15 DEF Loose
<1>19. \A x : x \in F <=> \E s \in K \cup D : x \in g[s]
  <2>1. \A s \in K : g[s] = {s}
    BY <1>16, <1>17
  <2>2. \A s \in D : g[s] = Tree(s)
    BY <1>2, <1>11, <1>13, <1>16, <1>17
  <2> QED
    BY <1>6, <2>1, <2>2
<1>20. Heap(live \ F, Cleared(N, F), P \ (K \cup D))
  <2>1. \A S \in SUBSET P : \A G : (\A x : x \in G <=> \E s \in S : x \in g[s]) =>
          Heap(live \ G, Cleared(N, G), P \ S)
    BY <1>16, <1>17, RootsFreed
  <2>2. K \cup D \in SUBSET P
    BY <1>18
  <2> QED
    BY <1>19, <2>1, <2>2
<1>21. P \ (K \cup D) = R \cup B
  BY <1>11, <1>12, <1>18
<1>22. \A d \in Cell : kids[d] \in Seq(Cell) /\ kids'[d] = IF d \in F \cup {c} THEN <<>> ELSE kids[d]
  BY <1>7 DEF TypeOK
<1>23. Payloads' = Cleared(N, F)
  <2>1. \A d \in Cell : Range(kids'[d]) = IF d \in F \cup {c} THEN {} ELSE Range(kids[d])
    BY <1>22, PairRange
  <2>2. \A d \in Cell : N[d] = IF d \in {c} \cup K THEN {} ELSE Range(kids[d])
    BY <1>14 DEF Emptied, Cleared, Payloads
  <2>3. \A d \in K : d \in F
    BY <1>6
  <2>4. \A d \in Cell : Range(kids'[d]) = IF d \in F THEN {} ELSE N[d]
    BY <2>1, <2>2, <2>3
  <2> QED
    BY <2>4 DEF Cleared, Payloads
<1>24. Heap(live', Payloads', R \cup B)
  BY <1>7, <1>20, <1>21, <1>23
<1>25. kids' \in [Cell -> Seq(Cell)] /\ live' \subseteq Cell
  BY <1>2, <1>7, <1>22
<1>26. Shaped' /\ kids'[c] = <<>> /\ \A d \in Cell : kids[d] = <<>> => kids'[d] = <<>>
  BY <1>3, <1>22 DEF Shaped
<1>27. LentOK' /\ Borrowed' = Borrowed
  <2>1. CASE lent = Null
    BY <2>1 DEF LentOK, Borrowed
  <2>2. CASE lent # Null
    <3>1. PICK l, r \in Cell : /\ kids[lent] = <<l, r>> /\ l # r /\ lent \notin {l, r}
                               /\ kids[l] = <<>> /\ kids[r] = <<>>
      BY <2>2 DEF LentOK
    <3>2. lent \in Cell /\ lent \in R /\ lent # c
      BY <2>2 DEF TypeOK
    <3>3. lent \notin F
      BY <1>7, <1>24, <3>2 DEF Heap
    <3>4. kids'[lent] = kids[lent] /\ kids'[l] = <<>> /\ kids'[r] = <<>>
      BY <1>22, <3>1, <3>2, <3>3
    <3> QED
      BY <3>1, <3>4 DEF LentOK, Borrowed
  <2> QED
    BY <2>1, <2>2
<1>28. fault' = {}
  <2>1. \A d \in live : f[d] \subseteq live
    BY <1>2, HeapTrees
  <2>2. F \subseteq live
    BY <1>2, <1>6, <1>11, <2>1
  <2> QED
    BY <1>7, <2>2 DEF Touch
<1>29. \A p \in Bound(arm) : At(c, p) \in Cell /\ At(c, p) \notin R
  BY <1>2, <1>5, <1>11
<1> QED
  BY <1>24, <1>25, <1>26, <1>27, <1>28, <1>29 DEF B

LEMMA FrameChanged ==
  ASSUME TypeOK, NEW d, d = depth, depth > 0, NEW g \in FrameType, frames' = [frames EXCEPT ![depth] = g]
  PROVE  /\ d \in Nat /\ d \in 1 .. d /\ depth' = d /\ DOMAIN frames' = 1 .. d /\ DOMAIN frames = 1 .. d
         /\ \A i \in 1 .. d : i # d => frames'[i] = frames[i]
         /\ frames'[d] = g /\ inner' = g /\ frames' \in Seq(FrameType)
<1>1. frames \in Seq(FrameType) /\ Len(frames) = d /\ d > 0
  BY DEF TypeOK, depth
<1>2. frames' = [frames EXCEPT ![d] = g]
  OBVIOUS
<1>3. d \in Nat /\ d \in 1 .. d /\ DOMAIN frames = 1 .. d
  BY <1>1
<1>4. /\ frames' \in Seq(FrameType) /\ Len(frames') = d /\ DOMAIN frames' = 1 .. d
      /\ frames'[d] = g /\ \A i \in 1 .. d : i # d => frames'[i] = frames[i]
  BY <1>1, <1>2, <1>3
<1>5. depth' = d /\ inner' = frames'[Len(frames')]
  BY <1>4 DEF depth, inner, Last
<1> QED
  BY <1>3, <1>4, <1>5

(* What happens in a case does not change what is known of the cases       *)
(* around it.                                                              *)
LEMMA OuterKept ==
  ASSUME Inv, phase = "walk", NEW d, d = depth, d \in 1 .. d, depth' = d,
         \A i \in 1 .. d : i # d => frames'[i] = frames[i],
         frames'[d].entry = frames[d].entry, frames'[d].aliases = frames[d].aliases,
         lent' = lent, rebound' = rebound, Borrowed' = Borrowed,
         \A c \in live : kids[c] = <<>> => kids'[c] = <<>>
  PROVE  /\ \A i \in 1 .. d : i # d => FrameOK(frames[i])' /\ Nesting(i)'
         /\ AliasesAt(0)' = {}
<1>1. TypeOK /\ WalkInv
  BY DEF Inv
<1>2. d \in Nat /\ \A i \in 1 .. d : FrameOK(frames[i]) /\ Nesting(i)
  BY <1>1, Depth DEF WalkInv
<1>3. \A i \in 1 .. d : frames'[i].aliases = frames[i].aliases /\ frames'[i].entry = frames[i].entry
  OBVIOUS
<1>4. ASSUME NEW i \in 1 .. d, i # d
      PROVE  FrameOK(frames[i])' /\ Nesting(i)'
  <2>1. i < depth /\ i < depth' /\ i # depth /\ i # depth' /\ i + 1 \in 1 .. d /\ i \in 1 .. depth
    BY <1>2, <1>4
  <2>2. FrameOK(frames[i]) /\ Nesting(i) /\ frames'[i] = frames[i]
    BY <1>2, <1>4
  <2>3. frames[i].arm # NoArm /\ frames[i].taken
    BY <2>1, <2>2 DEF FrameOK, Nesting
  <2>4. AliasesAt(i)' = AliasesAt(i) /\ StateAt(i)' = StateAt(i)
    BY <1>3, <2>1 DEF AliasesAt, StateAt
  <2>5. FrameOK(frames[i])'
    BY <2>1, <2>2, <2>3, FrameKept
  <2>6. Nesting(i)'
    BY <2>2, <2>3, <2>4, NestingKept
  <2> QED
    BY <2>5, <2>6
<1>5. AliasesAt(0)' = {}
  <2>1. 0 # depth /\ 0 # depth' /\ 0 + 1 \in 1 .. d
    BY <1>2
  <2>2. AliasesAt(0)' = AliasesAt(0)
    BY <1>3, <2>1 DEF AliasesAt
  <2> QED
    BY <1>1, <2>2 DEF WalkInv
<1> QED
  BY <1>4, <1>5

(* A match hides the owners called like its binders, the names B, and      *)
(* gives new boxes to New.                                                 *)
Hides(d, B) == \A c \in Cell : \A n : n \in HiddenOf(d, c)' <=> n \in VarsOf(c) /\ n \in B
Gives(B, New) ==
  \A c \in Cell : \A n : n \in VarsOf(c)' <=> \/ n \in VarsOf(c) /\ n \notin B
                                              \/ n \in New /\ slot'[n] = c

LEMMA OpenHolders ==
  ASSUME OneHolder, lent' = lent, returned' = returned, NEW d, d \in 1 .. d,
         DOMAIN frames = 1 .. d, DOMAIN frames' = 1 .. d,
         \A c : CasesOf(c)' = CasesOf(c),
         \A i \in 1 .. d : i # d => \A c : HiddenOf(i, c)' = HiddenOf(i, c),
         \A c : HiddenOf(d, c) = {}, NEW B, NEW New, Hides(d, B), Gives(B, New),
         \A n \in New : slot'[n] \in Cell /\ slot'[n] \notin Roots,
         \A n, m \in New : slot'[n] = slot'[m] => n = m
  PROVE  OneHolder' /\ Roots' = Roots \cup {slot'[n] : n \in New}
<1>0. /\ \A c \in Cell : \A n : n \in HiddenOf(d, c)' <=> n \in VarsOf(c) /\ n \in B
      /\ \A c \in Cell : \A n : n \in VarsOf(c)' <=> \/ n \in VarsOf(c) /\ n \notin B
                                                     \/ n \in New /\ slot'[n] = c
  BY DEF Hides, Gives
<1>1. \A c \in Cell :
        /\ \A n, m \in VarsOf(c) : n = m
        /\ \A i, j \in 1 .. d : \A n \in HiddenOf(i, c) : \A m \in HiddenOf(j, c) : i = j /\ n = m
        /\ \A i, j \in CasesOf(c) : i = j
        /\ VarsOf(c) # {} => /\ \A i \in 1 .. d : HiddenOf(i, c) = {}
                             /\ CasesOf(c) = {}
        /\ c \in {lent, returned} => /\ VarsOf(c) = {} /\ CasesOf(c) = {}
                                     /\ \A i \in 1 .. d : HiddenOf(i, c) = {}
        /\ CasesOf(c) # {} => \A i \in 1 .. d : HiddenOf(i, c) = {}
  BY DEF OneHolder
<1>2. \A n \in New : /\ VarsOf(slot'[n]) = {} /\ CasesOf(slot'[n]) = {} /\ slot'[n] \notin {lent, returned}
                     /\ \A i \in 1 .. d : HiddenOf(i, slot'[n]) = {}
  BY DEF Roots
<1>3. \A c \in Cell : \A i \in 1 .. d : \A n : n \in HiddenOf(i, c)' <=>
         (n \in HiddenOf(i, c) \/ (i = d /\ n \in VarsOf(c) /\ n \in B))
  BY <1>0
<1>4. ASSUME NEW c \in Cell
      PROVE  /\ \A n, m \in VarsOf(c)' : n = m
             /\ \A i, j \in 1 .. d : \A n \in HiddenOf(i, c)' : \A m \in HiddenOf(j, c)' : i = j /\ n = m
             /\ \A i, j \in CasesOf(c)' : i = j
             /\ VarsOf(c)' # {} => /\ \A i \in 1 .. d : HiddenOf(i, c)' = {}
                                   /\ CasesOf(c)' = {}
             /\ c \in {lent, returned} => /\ VarsOf(c)' = {} /\ CasesOf(c)' = {}
                                          /\ \A i \in 1 .. d : HiddenOf(i, c)' = {}
             /\ CasesOf(c)' # {} => \A i \in 1 .. d : HiddenOf(i, c)' = {}
             /\ (\/ VarsOf(c)' # {} \/ CasesOf(c)' # {} \/ c \in {lent, returned}
                 \/ \E i \in 1 .. d : HiddenOf(i, c)' # {}) <=> c \in Roots \cup {slot'[n] : n \in New}
  <2>1. c \in Roots <=> \/ VarsOf(c) # {} \/ CasesOf(c) # {} \/ c \in {lent, returned}
                        \/ \E i \in 1 .. d : HiddenOf(i, c) # {}
    BY DEF Roots
  <2>2. CasesOf(c)' = CasesOf(c)
    OBVIOUS
  <2>3. CASE \E n \in New : slot'[n] = c
    <3>1. PICK x \in New : slot'[x] = c
      BY <2>3
    <3>2. VarsOf(c) = {} /\ CasesOf(c) = {} /\ c \notin {lent, returned} /\ \A i \in 1 .. d : HiddenOf(i, c) = {}
      BY <1>2, <3>1
    <3>3. \A n : n \in VarsOf(c)' <=> n = x
      BY <1>0, <3>1, <3>2
    <3>4. \A i \in 1 .. d : HiddenOf(i, c)' = {}
      BY <1>3, <3>2
    <3> QED
      BY <2>2, <3>1, <3>2, <3>3, <3>4
  <2>4. CASE ~\E n \in New : slot'[n] = c
    <3>1. \A n : n \in VarsOf(c)' <=> n \in VarsOf(c) /\ n \notin B
      BY <1>0, <2>4
    <3>2. CASE VarsOf(c) = {}
      <4>1. VarsOf(c)' = {} /\ \A i \in 1 .. d : \A n : n \in HiddenOf(i, c)' <=> n \in HiddenOf(i, c)
        BY <1>3, <3>1, <3>2
      <4>2. \A i \in 1 .. d : HiddenOf(i, c)' = HiddenOf(i, c)
        <5> TAKE i \in 1 .. d
        <5>1. HiddenOf(i, c) \subseteq HiddenOf(i, c)' /\ HiddenOf(i, c)' \subseteq HiddenOf(i, c)
          BY <4>1
        <5> QED
          BY <5>1
      <4> QED
        BY <1>1, <2>1, <2>2, <2>4, <3>2, <4>1, <4>2
    <3>3. CASE VarsOf(c) # {}
      <4>1. PICK x \in VarsOf(c) : \A n : n \in VarsOf(c) <=> n = x
        BY <1>1, <3>3
      <4>2. CasesOf(c) = {} /\ c \notin {lent, returned} /\ \A i \in 1 .. d : HiddenOf(i, c) = {}
        BY <1>1, <3>3
      <4>3. CASE x \in B
        <5>1. VarsOf(c)' = {}
          BY <3>1, <4>1, <4>3
        <5>2. \A i \in 1 .. d : \A n : n \in HiddenOf(i, c)' <=> i = d /\ n = x
          BY <1>3, <4>1, <4>2, <4>3
        <5>3. \E i \in 1 .. d : HiddenOf(i, c)' # {}
          BY <5>2
        <5> QED
          BY <2>1, <2>2, <3>3, <4>2, <5>1, <5>2, <5>3
      <4>4. CASE x \notin B
        <5>1. \A n : n \in VarsOf(c)' <=> n = x
          BY <3>1, <4>1, <4>4
        <5>2. \A i \in 1 .. d : \A n : n \notin HiddenOf(i, c)'
          BY <1>3, <4>1, <4>2, <4>4
        <5>3. \A i \in 1 .. d : HiddenOf(i, c)' = {}
          BY <5>2
        <5> QED
          BY <2>1, <2>2, <3>3, <4>2, <5>1, <5>3
      <4> QED
        BY <4>3, <4>4
    <3> QED
      BY <3>2, <3>3
  <2> QED
    BY <2>3, <2>4
<1>5. OneHolder'
  BY <1>4 DEF OneHolder
<1>6. Roots' = {c \in Cell : \/ VarsOf(c)' # {}
                             \/ \E i \in 1 .. d : HiddenOf(i, c)' # {}
                             \/ CasesOf(c)' # {}
                             \/ c \in {lent, returned}}
  BY DEF Roots
<1>7. Roots \cup {slot'[n] : n \in New} \subseteq Cell
  BY DEF Roots
<1>8. \A c \in Cell : c \in Roots' <=> c \in Roots \cup {slot'[n] : n \in New}
  BY <1>4, <1>6
<1>9. Roots' \subseteq Cell
  BY <1>6
<1>10. Roots' = Roots \cup {slot'[n] : n \in New}
  BY <1>7, <1>8, <1>9
<1> QED
  BY <1>5, <1>10

Saves == UNION {[S -> [ptr : Cell \cup {Null}, mark : Mark]] : S \in SUBSET Name}

(* A frame when its arm a is taken, when the walk leaves the arm, and when *)
(* it passes an arm that is not taken.                                     *)
Entered(f, a, s) == [f EXCEPT !.arm = a, !.taken = TRUE, !.saved = s]
Left(f, S, j) == [f EXCEPT !.arm = NoArm, !.saved = <<>>, !.seen = S, !.joined = j]
Passed(f, S, j) == [f EXCEPT !.seen = S, !.joined = j]

LEMMA FrameOpened ==
  ASSUME NEW f \in FrameType, NEW a \in Arm, NEW s \in Saves, NEW g, g = Entered(f, a, s)
  PROVE  /\ g \in FrameType
         /\ g.arm = a /\ g.taken /\ g.saved = s /\ g.byValue = f.byValue /\ g.entry = f.entry
         /\ g.joined = f.joined /\ g.seen = f.seen /\ g.aliases = f.aliases /\ g.box = f.box
<1>1. g \in FrameType
  BY DEF FrameType, Saves, Entered
<1>2. /\ g.arm = a /\ g.taken /\ g.saved = s /\ g.byValue = f.byValue /\ g.entry = f.entry
      /\ g.joined = f.joined /\ g.seen = f.seen /\ g.aliases = f.aliases /\ g.box = f.box
  BY DEF FrameType, Entered
<1> QED
  BY <1>1, <1>2

LEMMA FrameClosed ==
  ASSUME NEW f \in FrameType, NEW S \in SUBSET Arm, NEW j \in StateMap, NEW g, g = Left(f, S, j)
  PROVE  /\ g \in FrameType
         /\ g.arm = NoArm /\ g.saved = <<>> /\ g.seen = S /\ g.joined = j /\ g.byValue = f.byValue
         /\ g.entry = f.entry /\ g.aliases = f.aliases /\ g.box = f.box /\ g.taken = f.taken
<1>1. <<>> \in Saves
  <2>1. <<>> \in [{} -> [ptr : Cell \cup {Null}, mark : Mark]]
    OBVIOUS
  <2> QED
    BY <2>1 DEF Saves
<1>2. g \in FrameType
  BY <1>1 DEF FrameType, Saves, Left
<1>3. /\ g.arm = NoArm /\ g.saved = <<>> /\ g.seen = S /\ g.joined = j /\ g.byValue = f.byValue
      /\ g.entry = f.entry /\ g.aliases = f.aliases /\ g.box = f.box /\ g.taken = f.taken
  BY DEF FrameType, Left
<1> QED
  BY <1>2, <1>3

LEMMA FrameSkipped ==
  ASSUME NEW f \in FrameType, NEW S \in SUBSET Arm, NEW j \in StateMap, NEW g, g = Passed(f, S, j)
  PROVE  /\ g \in FrameType
         /\ g.arm = f.arm /\ g.saved = f.saved /\ g.seen = S /\ g.joined = j /\ g.byValue = f.byValue
         /\ g.entry = f.entry /\ g.aliases = f.aliases /\ g.box = f.box /\ g.taken = f.taken
<1>1. g \in FrameType
  BY DEF FrameType, Passed
<1>2. /\ g.arm = f.arm /\ g.saved = f.saved /\ g.seen = S /\ g.joined = j /\ g.byValue = f.byValue
      /\ g.entry = f.entry /\ g.aliases = f.aliases /\ g.box = f.box /\ g.taken = f.taken
  BY DEF FrameType, Passed
<1> QED
  BY <1>1, <1>2

LEMMA BetweenFacts ==
  ASSUME Inv, BetweenArms
  PROVE  /\ TypeOK /\ WalkInv /\ phase = "walk" /\ fault = {} /\ OneHolder /\ Shaped /\ LentOK /\ returned = Null
         /\ Heap(live, Payloads, Roots) /\ Roots \subseteq live /\ live \subseteq Cell
         /\ KeysOnly(state) /\ slot \in [Name -> Cell \cup {Null}]
         /\ depth > 0 /\ depth \in 1 .. depth /\ inner = frames[depth] /\ inner \in FrameType
         /\ FrameOK(inner) /\ inner.arm = NoArm /\ DOMAIN inner.saved = {}
         /\ Nesting(depth) /\ aliases = inner.aliases /\ aliases \subseteq Name
         /\ \A n \in aliases : /\ Track[Key(n)] = "Owned" <=> inner.entry[Key(n)] = "Owned"
                               /\ Track[Key(n)] = "absent" => inner.entry[Key(n)] = "absent"
         /\ \A c : HiddenOf(depth, c) = {}
         /\ ~inner.taken => Track = state /\ state = inner.entry
         /\ inner.taken => Track = inner.joined
<1>1. /\ TypeOK /\ WalkInv /\ phase = "walk" /\ fault = {} /\ OneHolder /\ Shaped /\ LentOK /\ returned = Null
      /\ Heap(live, Payloads, Roots) /\ Roots \subseteq live /\ live \subseteq Cell
      /\ slot \in [Name -> Cell \cup {Null}] /\ aliases \subseteq Name
  BY DEF Inv, BetweenArms, Heap, TypeOK
<1>2. depth > 0 /\ inner.arm = NoArm
  BY DEF BetweenArms
<1>3. depth \in Nat /\ depth \in 1 .. depth /\ inner = frames[depth] /\ inner \in FrameType
  BY <1>1, <1>2, Depth
<1>4. FrameOK(inner) /\ Nesting(depth) /\ KeysOnly(state)
  BY <1>1, <1>3 DEF WalkInv
<1>5. DOMAIN inner.saved = {}
  BY <1>2, <1>4, NoBinders DEF FrameOK
<1>6. aliases = inner.aliases /\ StateAt(depth) = Track
  BY <1>2, <1>3, <1>4, NoBinders DEF Nesting, AliasesAt, StateAt
<1>7. \A n \in aliases : /\ Track[Key(n)] = "Owned" <=> inner.entry[Key(n)] = "Owned"
                         /\ Track[Key(n)] = "absent" => inner.entry[Key(n)] = "absent"
  BY <1>3, <1>4, <1>6 DEF Nesting, AliasesAt
<1>8. \A c : HiddenOf(depth, c) = {}
  BY <1>3, <1>5 DEF HiddenOf
<1>9. /\ ~inner.taken => Track = state /\ state = inner.entry
      /\ inner.taken => Track = inner.joined
  BY <1>1 DEF Track, WalkInv
<1> QED
  BY <1>1, <1>2, <1>3, <1>4, <1>5, <1>6, <1>7, <1>8, <1>9

LEMMA BindingIs ==
  ASSUME NEW arm \in Arm, BoundTwice(arm) = {}
  PROVE  /\ \A n \in Binders(arm) : Binding(arm, n) \in Bound(arm) /\ arm[Binding(arm, n)] = n
         /\ \A p, q \in Bound(arm) : arm[p] = arm[q] => p = q
         /\ \A p \in Bound(arm) : arm[p] \in Binders(arm) /\ Binding(arm, arm[p]) = p
<1>1. \A p, q \in Bound(arm) : arm[p] = arm[q] => p = q
  BY DEF BoundTwice, Binders
<1>2. \A n \in Binders(arm) : Binding(arm, n) \in Bound(arm) /\ arm[Binding(arm, n)] = n
  <2> TAKE n \in Binders(arm)
  <2>1. PICK p \in Bound(arm) : arm[p] = n
    BY DEF Binders
  <2>2. \A q \in Bound(arm) : arm[q] = n => q = p \/ Later(p, q)
    BY <1>1, <2>1
  <2> QED
    BY <2>1, <2>2 DEF Binding
<1>3. \A p \in Bound(arm) : arm[p] \in Binders(arm)
  BY DEF Binders
<1> QED
  BY <1>1, <1>2, <1>3

(* What the run and the walk know in an arm that was taken; f is the frame *)
(* of the case before it.                                                  *)
LEMMA OpenFacts ==
  ASSUME ~DuplicateBinders, Inv, NEW arm \in Arm, OpenArm(arm), NEW d, d = depth, NEW f, f = inner
  PROVE  /\ BetweenArms /\ BoundTwice(arm) = {} /\ ~f.taken /\ Matches(arm, f.box)
         /\ Binders(arm) \subseteq Name
         /\ KeysOnly(state)' /\ \A n \in Name : Key(n)' = Key(n)
         /\ \A n \in Name :
              state'[Key(n)] = IF f.byValue /\ n \in Binders(arm) THEN "Owned" ELSE state[Key(n)]
         /\ \A n \in Name :
              slot'[n] = IF n \in Binders(arm) THEN At(f.box, Binding(arm, n)) ELSE slot[n]
         /\ aliases' = (aliases \ Binders(arm)) \cup (IF f.byValue THEN {} ELSE Binders(arm))
         /\ d \in 1 .. d /\ depth' = d /\ DOMAIN frames' = 1 .. d /\ DOMAIN frames = 1 .. d
         /\ \A i \in 1 .. d : i # d => frames'[i] = frames[i]
         /\ frames[d] = f /\ frames'[d] = inner' /\ frames' \in Seq(FrameType)
         /\ inner'.arm = arm /\ inner'.taken /\ inner'.byValue = f.byValue /\ inner'.entry = f.entry
         /\ inner'.joined = f.joined /\ inner'.seen = f.seen /\ inner'.aliases = f.aliases /\ inner'.box = f.box
         /\ DOMAIN inner'.saved = Binders(arm)
         /\ \A n \in Binders(arm) : inner'.saved[n] = [ptr |-> slot[n], mark |-> f.entry[Key(n)]]
         /\ ~BetweenArms' /\ Track' = state'
         /\ IF f.byValue THEN TakeApart(arm, f.box) ELSE UNCHANGED <<live, kids, fault>>
         /\ UNCHANGED <<bounds, phase, rebound, lent, returned>>
<1> DEFINE own == OwnedBinders(f.byValue, arm)
           saves == [n \in Binders(arm) |-> [ptr |-> slot[n], mark |-> f.entry[Key(n)]]]
<1>1. /\ NextArm(arm) /\ Taken(arm)
      /\ state' = [x \in Decl |-> IF \E n \in own : x = Key(n) THEN "Owned" ELSE f.entry[x]]
      /\ aliases' = (aliases \ Binders(arm)) \cup (IF f.byValue THEN {} ELSE Binders(arm))
      /\ slot' = BinderSlots(arm, f.box)
      /\ IF f.byValue THEN TakeApart(arm, f.box) ELSE UNCHANGED <<live, kids, fault>>
      /\ UNCHANGED <<bounds, phase, rebound, lent, returned>>
  BY DEF OpenArm
<1>2. frames' = [frames EXCEPT ![depth] = [inner EXCEPT !.arm = arm, !.taken = TRUE, !.saved = saves]]
  BY DEF OpenArm
<1>3. BetweenArms /\ BoundTwice(arm) = {} /\ ~f.taken /\ Matches(arm, f.box)
  BY <1>1 DEF NextArm, Taken
<1>4. /\ TypeOK /\ WalkInv /\ KeysOnly(state) /\ slot \in [Name -> Cell \cup {Null}]
      /\ depth > 0 /\ depth \in 1 .. depth /\ inner = frames[depth] /\ inner \in FrameType
      /\ FrameOK(inner) /\ state = inner.entry /\ phase = "walk"
  BY <1>3, BetweenFacts
<1>5. Binders(arm) \subseteq Name
  BY Positions
<1>6. f.entry \in StateMap /\ KeysOnly(f.entry) /\ state = f.entry
  BY <1>4 DEF FrameType, FrameOK
<1>7. saves \in Saves
  <2>1. saves \in [Binders(arm) -> [ptr : Cell \cup {Null}, mark : Mark]]
    <3> SUFFICES ASSUME NEW n \in Binders(arm)
                 PROVE  slot[n] \in Cell \cup {Null} /\ f.entry[Key(n)] \in Mark
      OBVIOUS
    <3>1. n \in Name /\ Key(n) \in Decl
      BY <1>5, Keys
    <3> QED
      BY <1>4, <1>6, <3>1 DEF StateMap
  <2>2. Binders(arm) \in SUBSET Name
    BY <1>5
  <2> HIDE DEF saves
  <2> QED
    BY <2>1, <2>2 DEF Saves
<1>8. DOMAIN saves = Binders(arm) /\ \A n \in Binders(arm) : saves[n] = [ptr |-> slot[n], mark |-> f.entry[Key(n)]]
  OBVIOUS
<1>9. PICK s \in Saves : s = saves
  BY <1>7
<1>10. frames' = [frames EXCEPT ![depth] = Entered(f, arm, s)]
  BY <1>2, <1>4, <1>9 DEF Entered
<1> HIDE DEF saves
<1>11. PICK h : h = Entered(f, arm, s)
  OBVIOUS
<1>12. /\ h \in FrameType
       /\ h.arm = arm /\ h.taken /\ h.saved = s /\ h.byValue = f.byValue /\ h.entry = f.entry
       /\ h.joined = f.joined /\ h.seen = f.seen /\ h.aliases = f.aliases /\ h.box = f.box
  <2>1. f \in FrameType
    BY <1>4
  <2> QED
    BY <1>11, <2>1, FrameOpened
<1>13. /\ d \in 1 .. d /\ depth' = d /\ DOMAIN frames' = 1 .. d /\ DOMAIN frames = 1 .. d
       /\ \A i \in 1 .. d : i # d => frames'[i] = frames[i]
       /\ frames'[d] = h /\ inner' = h /\ frames' \in Seq(FrameType)
  BY <1>4, <1>10, <1>11, <1>12, FrameChanged
<1>14. \A n : Key(n)' = Key(n)
  BY <1>1 DEF Key
<1>15. /\ \A n \in Name :
            state'[Key(n)] = IF f.byValue /\ n \in Binders(arm) THEN "Owned" ELSE state[Key(n)]
       /\ KeysOnly(state)'
  <2>1. \A n : n \in own <=> f.byValue /\ n \in Binders(arm)
    BY DEF OwnedBinders
  <2>2. own \subseteq Name
    BY <1>5, <2>1
  <2> HIDE DEF own
  <2>3. \A n \in Name : (\E m \in own : Key(n) = Key(m)) <=> n \in own
    BY <2>2, Keys
  <2>4. \A n \in Name : state'[Key(n)] = IF n \in own THEN "Owned" ELSE f.entry[Key(n)]
    BY <1>1, <2>3, Keys
  <2>5. state' \in StateMap
    BY <1>1, <1>6 DEF StateMap, Mark
  <2>6. \A x \in Decl : state'[x] = "Owned" => x = Key(x[1])
    <3> TAKE x \in Decl
    <3> HAVE state'[x] = "Owned"
    <3>1. CASE \E n \in own : x = Key(n)
      BY <2>2, <3>1, Keys
    <3>2. CASE ~\E n \in own : x = Key(n)
      BY <1>1, <1>6, <3>2 DEF KeysOnly
    <3> QED
      BY <3>1, <3>2
  <2>7. KeysOnly(state)'
    BY <1>1, <2>5, <2>6 DEF KeysOnly, Key
  <2> QED
    BY <1>6, <2>1, <2>4, <2>7
<1>16. \A n \in Name : slot'[n] = IF n \in Binders(arm) THEN At(f.box, Binding(arm, n)) ELSE slot[n]
  BY <1>1 DEF BinderSlots
<1>17. ~BetweenArms' /\ Track' = state'
  <2>1. inner'.arm # NoArm
    <3>1. <<>> \in DOMAIN arm /\ DOMAIN NoArm = {}
      BY Positions DEF NoArm
    <3> QED
      BY <1>12, <1>13, <3>1
  <2>2. ~BetweenArms'
    BY <2>1 DEF BetweenArms
  <2> QED
    BY <2>2 DEF Track
<1>18. frames[d] = f /\ frames'[d] = inner'
  BY <1>4, <1>13
<1>19. DOMAIN inner'.saved = Binders(arm) /\ \A n \in Binders(arm) : inner'.saved[n] = [ptr |-> slot[n], mark |-> f.entry[Key(n)]]
  BY <1>8, <1>9, <1>12, <1>13
<1> QED
  BY <1>1, <1>3, <1>5, <1>12, <1>13, <1>14, <1>15, <1>16, <1>17, <1>18, <1>19

LEMMA OpenArmStep ==
  ASSUME ~DuplicateBinders, Inv, NEW arm \in Arm, OpenArm(arm)
  PROVE  Inv'
<1>1. PICK d : d = depth
  OBVIOUS
<1>2. PICK f : f = inner
  OBVIOUS
<1>3. PICK B : B = Binders(arm)
  OBVIOUS
<1>4. /\ BetweenArms /\ BoundTwice(arm) = {} /\ ~f.taken /\ Matches(arm, f.box) /\ B \subseteq Name
      /\ KeysOnly(state)' /\ \A n \in Name : Key(n)' = Key(n)
      /\ \A n \in Name : state'[Key(n)] = IF f.byValue /\ n \in B THEN "Owned" ELSE state[Key(n)]
      /\ \A n \in Name : slot'[n] = IF n \in B THEN At(f.box, Binding(arm, n)) ELSE slot[n]
      /\ aliases' = (aliases \ B) \cup (IF f.byValue THEN {} ELSE B)
      /\ d \in 1 .. d /\ depth' = d /\ DOMAIN frames' = 1 .. d /\ DOMAIN frames = 1 .. d
      /\ \A i \in 1 .. d : i # d => frames'[i] = frames[i]
      /\ frames[d] = f /\ frames'[d] = inner' /\ frames' \in Seq(FrameType)
      /\ inner'.arm = arm /\ inner'.taken /\ inner'.byValue = f.byValue /\ inner'.entry = f.entry
      /\ inner'.joined = f.joined /\ inner'.seen = f.seen /\ inner'.aliases = f.aliases /\ inner'.box = f.box
      /\ DOMAIN inner'.saved = B
      /\ \A n \in B : inner'.saved[n] = [ptr |-> slot[n], mark |-> f.entry[Key(n)]]
      /\ ~BetweenArms' /\ Track' = state'
      /\ IF f.byValue THEN TakeApart(arm, f.box) ELSE UNCHANGED <<live, kids, fault>>
      /\ UNCHANGED <<bounds, phase, rebound, lent, returned>>
  BY <1>1, <1>2, <1>3, OpenFacts
<1>5. /\ TypeOK /\ WalkInv /\ phase = "walk" /\ fault = {} /\ OneHolder /\ Shaped /\ LentOK /\ returned = Null
      /\ Heap(live, Payloads, Roots) /\ Roots \subseteq live /\ live \subseteq Cell
      /\ slot \in [Name -> Cell \cup {Null}] /\ f \in FrameType /\ FrameOK(f)
      /\ aliases = f.aliases /\ aliases \subseteq Name /\ Track = state /\ state = f.entry
      /\ \A c : HiddenOf(d, c) = {}
  BY <1>1, <1>2, <1>4, BetweenFacts
<1>6. /\ \A n \in B : Binding(arm, n) \in Bound(arm) /\ arm[Binding(arm, n)] = n
      /\ \A p \in Bound(arm) : arm[p] \in B /\ Binding(arm, arm[p]) = p
  BY <1>3, <1>4, BindingIs
<1>7. \A c : \A n : n \in VarsOf(c) <=> n \in Name /\ n \notin aliases /\ state[Key(n)] = "Owned" /\ slot[n] = c
  BY <1>5 DEF VarsOf
<1>8. \A c : \A n : n \in VarsOf(c)' <=> n \in Name /\ n \notin aliases' /\ state'[Key(n)] = "Owned" /\ slot'[n] = c
  BY <1>4, <1>5 DEF VarsOf
<1>9. \A c : CasesOf(c)' = CasesOf(c)
  <2>1. \A i \in 1 .. d : frames'[i].byValue = frames[i].byValue /\ frames'[i].box = frames[i].box
    BY <1>4
  <2> QED
    BY <1>4, <2>1 DEF CasesOf
<1>10. \A i \in 1 .. d : i # d => \A c : HiddenOf(i, c)' = HiddenOf(i, c)
  BY <1>4 DEF HiddenOf
<1>11. \A c \in Cell : \A n : n \in HiddenOf(d, c)' <=> n \in VarsOf(c) /\ n \in B
  <2> TAKE c \in Cell
  <2> TAKE n
  <2>1. n \in HiddenOf(d, c)' <=> n \in B /\ n \notin f.aliases /\ inner'.saved[n] = [ptr |-> c, mark |-> "Owned"]
    BY <1>4 DEF HiddenOf
  <2>2. CASE n \in B
    <3>0. inner'.saved[n] = [ptr |-> slot[n], mark |-> f.entry[Key(n)]]
      BY <1>4, <2>2
    <3>1. inner'.saved[n] = [ptr |-> c, mark |-> "Owned"] <=> slot[n] = c /\ f.entry[Key(n)] = "Owned"
      BY <3>0
    <3> QED
      BY <1>4, <1>5, <1>7, <2>1, <2>2, <3>1
  <2>3. CASE n \notin B
    BY <2>1, <2>3
  <2> QED
    BY <2>2, <2>3
<1>12. f.byValue => f.box \in Roots /\ f.box \in live /\ f.box # lent
  <2> SUFFICES ASSUME f.byValue PROVE f.box \in Roots /\ f.box \in live /\ f.box # lent
    OBVIOUS
  <2>1. f.box \in Roots /\ f.box \in live /\ d \in CasesOf(f.box)
    BY <1>4, BoxLive
  <2>2. f.box \in Cell
    BY <1>5, <2>1
  <2> QED
    BY <2>1, <2>2, <1>5 DEF OneHolder
<1>13. /\ Heap(live', Payloads', Roots \cup (IF f.byValue THEN BoundBoxes(arm, f.box) ELSE {}))
       /\ live' \subseteq Cell /\ kids' \in [Cell -> Seq(Cell)] /\ Shaped' /\ LentOK' /\ Borrowed' = Borrowed
       /\ \A c \in Cell : kids[c] = <<>> => kids'[c] = <<>>
       /\ f.byValue => kids'[f.box] = <<>> /\ \A p \in Bound(arm) : At(f.box, p) \in Cell /\ At(f.box, p) \notin Roots
       /\ fault' = {}
  <2>1. CASE f.byValue
    <3>1. TakeApart(arm, f.box) /\ f.box \in Roots /\ Matches(arm, f.box) /\ lent' = lent
      BY <1>4, <1>12, <2>1
    <3>2. lent \in Cell => lent \in Roots \ {f.box}
      BY <1>12, <2>1, LentHeld
    <3>3. /\ Heap(live', Payloads', Roots \cup BoundBoxes(arm, f.box))
          /\ live' \subseteq Cell /\ kids' \in [Cell -> Seq(Cell)] /\ Shaped' /\ LentOK' /\ Borrowed' = Borrowed
          /\ \A c \in Cell : kids[c] = <<>> => kids'[c] = <<>>
          /\ kids'[f.box] = <<>> /\ fault' = {}
          /\ \A p \in Bound(arm) : At(f.box, p) \in Cell /\ At(f.box, p) \notin Roots
      BY <1>5, <3>1, <3>2, TakenHeap
    <3> QED
      BY <2>1, <3>3
  <2>2. CASE ~f.byValue
    <3>1. UNCHANGED <<live, kids, fault, lent>>
      BY <1>4, <2>2
    <3>2. Payloads' = Payloads /\ Shaped' /\ LentOK' /\ Borrowed' = Borrowed
      BY <1>5, <3>1 DEF Payloads, Shaped, LentOK, Borrowed
    <3>3. kids \in [Cell -> Seq(Cell)]
      BY <1>5 DEF TypeOK
    <3> QED
      BY <1>5, <2>2, <3>1, <3>2, <3>3
  <2> QED
    BY <2>1, <2>2
<1>14. ~f.byValue => \A p \in Bound(arm) : At(f.box, p) \in Borrowed /\ At(f.box, p) \in Cell
  <2> SUFFICES ASSUME ~f.byValue, NEW p \in Bound(arm) PROVE At(f.box, p) \in Borrowed /\ At(f.box, p) \in Cell
    OBVIOUS
  <2>1. f.box = lent /\ lent # Null
    BY <1>5 DEF FrameOK
  <2>2. PICK l, r \in Cell : /\ kids[lent] = <<l, r>> /\ l # r /\ lent \notin {l, r}
                             /\ kids[l] = <<>> /\ kids[r] = <<>>
    BY <1>5, <2>1 DEF LentOK
  <2>3. lent \in Roots
    BY <1>5, <2>1, LentHeld DEF TypeOK
  <2>4. /\ \A q \in DOMAIN arm : At(lent, q) \in Cell
        /\ \A q \in Tests(arm) \ {<<>>} : At(lent, q) \in Payloads[lent]
        /\ \A q \in DOMAIN arm \ {<<>>} :
             \/ At(lent, q) \in Payloads[lent]
             \/ \E t \in Tests(arm) \ {<<>>} : At(lent, q) \in Payloads[At(lent, t)]
    BY <1>4, <1>5, <2>1, <2>3, Opened
  <2>5. Payloads[lent] = {l, r} /\ Payloads[l] = {} /\ Payloads[r] = {}
    BY <1>5, <2>2, <2>3, PairRange DEF Payloads
  <2>6. p \in DOMAIN arm /\ p # <<>>
    <3>1. p \in DOMAIN arm /\ arm[p] \in Name /\ arm[<<>>] \in Tag
      BY Positions DEF Bound
    <3> QED
      BY <3>1, NameAssumption
  <2>7. At(lent, p) \in Payloads[lent]
    BY <2>4, <2>5, <2>6
  <2>8. Borrowed = {lent, l, r}
    BY <2>1, <2>2, PairRange DEF Borrowed
  <2> QED
    BY <2>1, <2>4, <2>5, <2>6, <2>7, <2>8
<1>15. PICK New : New = IF f.byValue THEN B ELSE {}
  OBVIOUS
<1>16. \A n \in B : slot'[n] = At(f.box, Binding(arm, n)) /\ Binding(arm, n) \in Bound(arm)
  BY <1>4, <1>6
<1>17. OneHolder' /\ Roots' = Roots \cup {slot'[n] : n \in New}
  <2>1. \A c \in Cell : \A n : n \in VarsOf(c)' <=> \/ n \in VarsOf(c) /\ n \notin B
                                                    \/ n \in New /\ slot'[n] = c
    <3> TAKE c \in Cell
    <3> TAKE n
    <3>1. CASE n \in B
      BY <1>4, <1>7, <1>8, <1>15, <3>1
    <3>2. CASE n \notin B
      BY <1>4, <1>7, <1>8, <1>15, <3>2
    <3> QED
      BY <3>1, <3>2
  <2>2. \A n \in New : slot'[n] \in Cell /\ slot'[n] \notin Roots
    BY <1>13, <1>15, <1>16
  <2>3. \A n, m \in New : slot'[n] = slot'[m] => n = m
    <3> TAKE n, m \in New
    <3> HAVE slot'[n] = slot'[m]
    <3>1. f.byValue /\ n \in B /\ m \in B
      BY <1>15
    <3>2. \A p, q \in DOMAIN arm : At(f.box, p) = At(f.box, q) => p = q
      BY <1>4, <1>5, <1>12, <3>1, Opened
    <3>3. Binding(arm, n) \in DOMAIN arm /\ Binding(arm, m) \in DOMAIN arm
      BY <1>6, <3>1 DEF Bound
    <3>4. Binding(arm, n) = Binding(arm, m)
      BY <1>16, <3>1, <3>2, <3>3
    <3> QED
      BY <1>6, <3>1, <3>4
  <2>4. Hides(d, B) /\ Gives(B, New)
    BY <1>11, <2>1 DEF Hides, Gives
  <2>5. /\ lent' = lent /\ returned' = returned /\ d \in 1 .. d
        /\ DOMAIN frames = 1 .. d /\ DOMAIN frames' = 1 .. d
    BY <1>4
  <2> QED
    BY <1>5, <1>9, <1>10, <2>2, <2>3, <2>4, <2>5, OpenHolders
<1>18. {slot'[n] : n \in New} = IF f.byValue THEN BoundBoxes(arm, f.box) ELSE {}
  <2>1. CASE f.byValue
    <3>1. \A n \in B : slot'[n] \in BoundBoxes(arm, f.box)
      BY <1>16 DEF BoundBoxes
    <3>2. \A p \in Bound(arm) : arm[p] \in B /\ slot'[arm[p]] = At(f.box, p)
      BY <1>6, <1>16
    <3> QED
      BY <1>15, <2>1, <3>1, <3>2 DEF BoundBoxes
  <2>2. CASE ~f.byValue
    BY <1>15, <2>2
  <2> QED
    BY <2>1, <2>2
<1>19. Heap(live, Payloads, Roots)'
  BY <1>13, <1>17, <1>18
<1>20. slot' \in [Name -> Cell \cup {Null}]
  <2>1. \A n \in Name : slot'[n] \in Cell \cup {Null}
    BY <1>5, <1>4, <1>13, <1>14, <1>16
  <2>2. slot' = [n \in Name |-> slot'[n]]
    BY DEF OpenArm, BinderSlots
  <2> QED
    BY <2>1, <2>2
<1>21. TypeOK'
  <2>1. aliases' \subseteq Name
    BY <1>4, <1>5
  <2>2. state' \in StateMap
    BY <1>4 DEF KeysOnly
  <2> QED
    BY <1>4, <1>5, <1>13, <1>20, <2>1, <2>2 DEF TypeOK
<1>22. FrameOK(frames[d])'
  <2>1. \A t : KeysOnly(t)' <=> KeysOnly(t)
    <3>1. \A t : KeysOnly(t)' <=> t \in StateMap /\ \A x \in Decl : t[x] = "Owned" => x = Key(x[1])'
      BY <1>4 DEF KeysOnly
    <3>2. \A x \in Decl : Key(x[1])' = Key(x[1])
      BY <1>4 DEF Key
    <3> QED
      BY <3>1, <3>2 DEF KeysOnly
  <2>2. KeysOnly(f.entry) /\ KeysOnly(f.joined)
    BY <1>5 DEF FrameOK
  <2>0. PICK g : g = inner'
    OBVIOUS
  <2>3. \A n \in B : Key(n)' = Key(n) /\ g.saved[n].mark = f.entry[Key(n)] /\ g.saved[n].ptr = slot[n]
    <3> TAKE n \in B
    <3>1. g.saved[n] = [ptr |-> slot[n], mark |-> f.entry[Key(n)]]
      BY <1>4, <2>0
    <3>2. Key(n)' = Key(n)
      BY <1>4
    <3> QED
      BY <3>1, <3>2
  <2>4. \A n \in B \ f.aliases : f.entry[Key(n)] = "absent" => slot[n] = Null
    BY <1>4, <1>5 DEF WalkInv
  <2>5. \A n \in B \cap f.aliases : slot[n] \in Borrowed
    BY <1>5 DEF WalkInv
  <2>6. ~f.byValue => f.box = lent /\ lent # Null
    BY <1>5 DEF FrameOK
  <2>7. arm # NoArm
    <3>1. <<>> \in DOMAIN arm /\ DOMAIN NoArm = {}
      BY Positions DEF NoArm
    <3> QED
      BY <3>1
  <2>8. /\ frames'[d] = g /\ g.arm = arm /\ g.taken /\ g.byValue = f.byValue /\ g.entry = f.entry
        /\ g.joined = f.joined /\ g.aliases = f.aliases /\ g.box = f.box /\ DOMAIN g.saved = B
        /\ BoundTwice(arm) = {} /\ lent' = lent
    BY <1>4, <2>0
  <2>9. f.byValue => kids'[f.box] = <<>>
    BY <1>13
  <2>10. Borrowed' = Borrowed /\ Binders(arm) = B
    BY <1>3, <1>13
  <2> QED
    BY <2>1, <2>2, <2>3, <2>4, <2>5, <2>6, <2>7, <2>8, <2>9, <2>10 DEF FrameOK
<1>23. Nesting(d)'
  <2>1. AliasesAt(d)' = aliases' /\ StateAt(d)' = state'
    BY <1>4 DEF AliasesAt, StateAt
  <2>2. \A n \in aliases' : state'[Key(n)] = f.entry[Key(n)] /\ Key(n)' = Key(n)
    <3> TAKE n \in aliases'
    <3>1. n \in Name
      BY <1>4, <1>5
    <3>2. ~(f.byValue /\ n \in B)
      BY <1>4
    <3> QED
      BY <1>4, <1>5, <3>1, <3>2
  <2>3. ~(d < depth')
    BY <1>4
  <2> QED
    BY <1>3, <1>4, <1>5, <2>1, <2>2, <2>3 DEF Nesting
<1>24. /\ \A i \in 1 .. d : i # d => FrameOK(frames[i])' /\ Nesting(i)'
       /\ AliasesAt(0)' = {}
  <2>1. \A c \in live : kids[c] = <<>> => kids'[c] = <<>>
    BY <1>5, <1>13
  <2>2. frames'[d].entry = frames[d].entry /\ frames'[d].aliases = frames[d].aliases
    BY <1>4
  <2> QED
    BY <1>1, <1>4, <1>5, <1>13, <2>1, <2>2, OuterKept
<1>25. WalkInv'
  <2>1. \A i \in 1 .. d : FrameOK(frames[i])' /\ Nesting(i)'
    BY <1>22, <1>23, <1>24
  <2>2. \A n \in Name \ aliases' : Track'[Key(n)'] = "absent" => slot'[n] = Null
    <3> SUFFICES ASSUME NEW n \in Name, n \notin aliases', state'[Key(n)] = "absent" PROVE slot'[n] = Null
      BY <1>4
    <3>1. n \notin B
      BY <1>4
    <3> QED
      BY <1>4, <1>5, <3>1 DEF WalkInv
  <2>3. \A n \in aliases' : slot'[n] \in Borrowed'
    <3> TAKE n \in aliases'
    <3>1. CASE n \in B
      BY <1>4, <1>13, <1>14, <1>16, <3>1
    <3>2. CASE n \notin B
      BY <1>4, <1>5, <1>13, <3>2 DEF WalkInv
    <3> QED
      BY <3>1, <3>2
  <2> QED
    BY <1>4, <1>24, <2>1, <2>2, <2>3 DEF WalkInv
<1> QED
  BY <1>4, <1>5, <1>13, <1>17, <1>19, <1>21, <1>25 DEF Inv

-----------------------------------------------------------------------------
(* Joins.                                                                  *)

LEMMA Joins ==
  ASSUME NEW s, NEW t, KeysOnly(s), KeysOnly(t), JoinAccepted(s, t)
  PROVE  /\ KeysOnly(JoinStates(s, t)) /\ Keeps(JoinStates(s, t), s) /\ Keeps(JoinStates(s, t), t)
<1>1. s \in [Decl -> Mark] /\ t \in [Decl -> Mark]
  BY DEF KeysOnly, StateMap
<1>2. \A x \in Decl : s[x] = "Owned" <=> t[x] = "Owned"
  BY <1>1 DEF JoinAccepted, Agree, OwnedIn, Enabled
<1>3. /\ JoinStates(s, t) \in StateMap
      /\ \A x \in Decl : JoinStates(s, t)[x] = JoinMark(s[x], t[x])
  BY DEF JoinStates, StateMap, JoinMark, Mark
<1>4. \A m, n \in Mark : (m = "Owned" <=> n = "Owned") =>
        /\ JoinMark(m, n) = "Owned" <=> m = "Owned"
        /\ JoinMark(m, n) = "absent" => m = "absent" /\ n = "absent"
  BY DEF JoinMark, Mark
<1>5. \A x \in Decl : s[x] \in Mark /\ t[x] \in Mark
  BY <1>1
<1> DEFINE j == JoinStates(s, t)
<1> HIDE DEF j
<1>6. \A x \in Decl : /\ j[x] = "Owned" <=> s[x] = "Owned"
                      /\ j[x] = "absent" => s[x] = "absent" /\ t[x] = "absent"
  BY <1>2, <1>3, <1>4, <1>5 DEF j
<1>7. KeysOnly(j)
  BY <1>3, <1>6 DEF KeysOnly, j
<1>8. Keeps(j, s) /\ Keeps(j, t)
  BY <1>2, <1>6, Keys DEF Keeps
<1> QED
  BY <1>7, <1>8 DEF j

LEMMA JoinedIs ==
  ASSUME NEW s, KeysOnly(s), KeysOnly(inner.joined), ArmAccepted(s)
  PROVE  /\ KeysOnly(Joined(s)) /\ Keeps(Joined(s), s)
         /\ inner.seen # {} => Keeps(Joined(s), inner.joined)
<1>1. CASE inner.seen = {}
  <2>1. Joined(s) = s
    BY <1>1 DEF Joined
  <2>2. Keeps(s, s)
    BY DEF Keeps
  <2> QED
    BY <1>1, <2>1, <2>2
<1>2. CASE inner.seen # {}
  <2>1. Joined(s) = JoinStates(s, inner.joined) /\ JoinAccepted(s, inner.joined)
    BY <1>2 DEF Joined, ArmAccepted
  <2> QED
    BY <2>1, Joins
<1> QED
  BY <1>1, <1>2

(* Whatever a body leaves, a use stands for one declaration.               *)
LEMMA LeftKeys ==
  ASSUME NEW arm \in Arm, BoundTwice(arm) = {}, KeysOnly(inner.entry), NEW s \in BodyLeaves(arm)
  PROVE  KeysOnly(s)
<1> DEFINE used == {Key(n) : n \in Name \ (Binders(arm) \cup inner.aliases)}
<1>1. PICK left \in [used -> Mark] :
        s = [d \in Decl |-> IF d \in used THEN left[d] ELSE RestoredMark(arm, d, inner.entry[d])]
  BY DEF BodyLeaves
<1>2. \A d \in used : d = Key(d[1])
  BY Keys
<1> HIDE DEF used
<1>3. inner.entry \in [Decl -> Mark] /\ \A d \in Decl : inner.entry[d] = "Owned" => d = Key(d[1])
  BY DEF KeysOnly, StateMap
<1>4. \A d \in Decl : RestoredMark(arm, d, inner.entry[d]) = inner.entry[d]
  BY DEF RestoredMark
<1>5. \A d \in Decl : s[d] = IF d \in used THEN left[d] ELSE inner.entry[d]
  BY <1>1, <1>4
<1>6. s \in [Decl -> Mark]
  <2>1. \A d \in Decl : s[d] \in Mark
    BY <1>1, <1>3, <1>5
  <2>2. s = [d \in Decl |-> s[d]]
    BY <1>1
  <2> QED
    BY <2>1, <2>2
<1> QED
  BY <1>2, <1>3, <1>5, <1>6 DEF KeysOnly, StateMap

LEMMA SkipArmStep ==
  ASSUME ~DuplicateBinders, Inv, NEW arm \in Arm, SkipArm(arm)
  PROVE  Inv'
<1>1. PICK d : d = depth
  OBVIOUS
<1>2. PICK f : f = inner
  OBVIOUS
<1>3. PICK s \in BodyLeaves(arm) :
        /\ ArmAccepted(s)
        /\ frames' = [frames EXCEPT ![depth] = [inner EXCEPT !.seen = @ \cup {arm}, !.joined = Joined(s)]]
  BY DEF SkipArm
<1>4. /\ BetweenArms /\ BoundTwice(arm) = {}
      /\ f.taken \/ ~Matches(arm, f.box)
      /\ UNCHANGED <<bounds, phase, rebound, state, aliases, runVars>>
  BY <1>2 DEF SkipArm, NextArm, Taken
<1>5. /\ TypeOK /\ WalkInv /\ phase = "walk" /\ fault = {} /\ OneHolder /\ Shaped /\ LentOK /\ returned = Null
      /\ Heap(live, Payloads, Roots) /\ live \subseteq Cell
      /\ f \in FrameType /\ FrameOK(f) /\ f.arm = NoArm /\ DOMAIN f.saved = {} /\ frames[d] = f
      /\ aliases = f.aliases /\ aliases \subseteq Name /\ depth > 0 /\ Nesting(d)
      /\ \A n \in aliases : /\ Track[Key(n)] = "Owned" <=> f.entry[Key(n)] = "Owned"
                            /\ Track[Key(n)] = "absent" => f.entry[Key(n)] = "absent"
      /\ ~f.taken => Track = state /\ state = f.entry
      /\ f.taken => Track = f.joined
  BY <1>1, <1>2, <1>4, BetweenFacts
<1>6. KeysOnly(s)
  BY <1>2, <1>4, <1>5, LeftKeys DEF FrameOK
<1>7. PICK j : j = Joined(s)
  OBVIOUS
<1>8. KeysOnly(j) /\ (f.seen # {} => Keeps(j, f.joined))
  BY <1>2, <1>3, <1>5, <1>6, <1>7, JoinedIs DEF FrameOK
<1>9. PICK S : S = f.seen \cup {arm}
  OBVIOUS
<1>10. PICK g : g = Passed(f, S, j)
  OBVIOUS
<1>11. frames' = [frames EXCEPT ![depth] = g]
  <2>1. [inner EXCEPT !.seen = @ \cup {arm}, !.joined = Joined(s)] = Passed(inner, inner.seen \cup {arm}, Joined(s))
    BY DEF Passed
  <2>2. Passed(inner, inner.seen \cup {arm}, Joined(s)) = g
    BY <1>2, <1>7, <1>9, <1>10
  <2> QED
    BY <1>3, <2>1, <2>2
<1>12. j \in StateMap /\ S \in SUBSET Arm
  BY <1>5, <1>8, <1>9 DEF KeysOnly, FrameType
<1>13. /\ g \in FrameType
       /\ g.arm = NoArm /\ g.saved = f.saved /\ g.seen = S /\ g.joined = j /\ g.byValue = f.byValue
       /\ g.entry = f.entry /\ g.aliases = f.aliases /\ g.box = f.box /\ g.taken = f.taken
  BY <1>5, <1>10, <1>12, FrameSkipped
<1>14. /\ d \in 1 .. d /\ depth' = d /\ DOMAIN frames' = 1 .. d /\ DOMAIN frames = 1 .. d
       /\ \A i \in 1 .. d : i # d => frames'[i] = frames[i]
       /\ frames'[d] = g /\ inner' = g /\ frames' \in Seq(FrameType)
  BY <1>1, <1>5, <1>11, <1>13, FrameChanged
<1>15. BetweenArms'
  BY <1>4, <1>5, <1>1, <1>13, <1>14 DEF BetweenArms
<1>16. /\ f.taken => Track' = j
       /\ ~f.taken => Track' = state
  BY <1>4, <1>13, <1>14, <1>15 DEF Track
<1>17. \A n : Key(n)' = Key(n)
  BY <1>4 DEF Key
<1>18. \A n \in Name : /\ Track'[Key(n)] = "Owned" <=> Track[Key(n)] = "Owned"
                       /\ Track'[Key(n)] = "absent" => Track[Key(n)] = "absent"
  <2>1. CASE f.taken
    <3>1. f.seen # {}
      BY <1>5, <2>1 DEF FrameOK
    <3>2. Keeps(Track', Track)
      BY <1>5, <1>8, <1>16, <2>1, <3>1
    <3> QED
      BY <3>2 DEF Keeps
  <2>2. CASE ~f.taken
    BY <1>5, <1>16, <2>2
  <2> QED
    BY <2>1, <2>2
<1>19. /\ \A c : VarsOf(c)' = VarsOf(c)
       /\ \A c : CasesOf(c)' = CasesOf(c)
       /\ \A i \in 1 .. d : \A c : HiddenOf(i, c)' = HiddenOf(i, c)
       /\ Payloads' = Payloads
  <2>1. \A c : VarsOf(c)' = VarsOf(c)
    BY <1>4, <1>17, <1>18 DEF VarsOf, runVars
  <2>2. \A i \in 1 .. d : /\ frames'[i].byValue = frames[i].byValue /\ frames'[i].box = frames[i].box
                          /\ frames'[i].saved = frames[i].saved /\ frames'[i].aliases = frames[i].aliases
    BY <1>5, <1>13, <1>14
  <2>3. \A c : CasesOf(c)' = CasesOf(c)
    BY <1>14, <2>2 DEF CasesOf
  <2>4. \A i \in 1 .. d : \A c : HiddenOf(i, c)' = HiddenOf(i, c)
    BY <1>14, <2>2 DEF HiddenOf
  <2> QED
    BY <1>4, <2>1, <2>3, <2>4 DEF Payloads, runVars
<1>20. UNCHANGED <<live, kids, slot, lent, fault, returned>>
  BY <1>4 DEF runVars
<1>21. OneHolder' /\ Roots' = Roots
  BY <1>5, <1>14, <1>19, <1>20 DEF OneHolder, Roots
<1>22. TypeOK'
  BY <1>4, <1>5, <1>14, <1>20 DEF TypeOK
<1>23. Shaped' /\ LentOK' /\ Borrowed' = Borrowed
  BY <1>5, <1>20 DEF Shaped, LentOK, Borrowed
<1>24. FrameOK(frames[d])'
  <2>1. \A t : KeysOnly(t)' <=> KeysOnly(t)
    BY <1>4 DEF KeysOnly, Key
  <2>2. ~f.taken => \A a \in S : ~Matches(a, f.box)
    BY <1>4, <1>5, <1>9 DEF FrameOK
  <2>3. \A a, c : Matches(a, c)' <=> Matches(a, c)
    BY <1>20 DEF Matches, TagOf, At
  <2>4. KeysOnly(f.entry) /\ (f.byValue /\ f.taken => kids[f.box] = <<>>) /\ (~f.byValue => f.box = lent /\ lent # Null)
    BY <1>5 DEF FrameOK
  <2>5. /\ frames'[d] = g /\ g.arm = NoArm /\ DOMAIN g.saved = {} /\ Binders(NoArm) = {} /\ S # {}
        /\ lent' = lent /\ kids' = kids
    BY <1>5, <1>9, <1>13, <1>14, <1>20, NoBinders
  <2> QED
    BY <1>8, <1>13, <2>1, <2>2, <2>3, <2>4, <2>5 DEF FrameOK
<1>25. Nesting(d)'
  <2>1. AliasesAt(d)' = aliases /\ StateAt(d)' = Track'
    BY <1>4, <1>14 DEF AliasesAt, StateAt
  <2>2. \A n \in aliases : /\ Track'[Key(n)'] = "Owned" <=> f.entry[Key(n)] = "Owned"
                           /\ Track'[Key(n)'] = "absent" => f.entry[Key(n)] = "absent"
    BY <1>5, <1>17, <1>18
  <2>3. ~(d < depth') /\ (IF g.byValue THEN {} ELSE Binders(g.arm)) = {} /\ aliases = (g.aliases \ Binders(g.arm))
    BY <1>5, <1>13, <1>14, NoBinders
  <2> QED
    BY <1>13, <1>14, <1>17, <2>1, <2>2, <2>3 DEF Nesting
<1>26. /\ \A i \in 1 .. d : i # d => FrameOK(frames[i])' /\ Nesting(i)'
       /\ AliasesAt(0)' = {}
  <2>1. \A c \in live : kids[c] = <<>> => kids'[c] = <<>>
    BY <1>20
  <2>2. frames'[d].entry = frames[d].entry /\ frames'[d].aliases = frames[d].aliases
    BY <1>5, <1>13, <1>14
  <2>3. lent' = lent /\ rebound' = rebound
    BY <1>4, <1>20
  <2> QED
    BY <1>1, <1>5, <1>14, <1>23, <2>1, <2>2, <2>3, OuterKept
<1>27. WalkInv'
  <2>1. \A i \in 1 .. d : FrameOK(frames[i])' /\ Nesting(i)'
    BY <1>24, <1>25, <1>26
  <2>2. \A n \in Name \ aliases' : Track'[Key(n)'] = "absent" => slot'[n] = Null
    BY <1>4, <1>5, <1>17, <1>18, <1>20 DEF WalkInv
  <2>3. \A n \in aliases' : slot'[n] \in Borrowed'
    BY <1>4, <1>5, <1>20, <1>23 DEF WalkInv
  <2>4. KeysOnly(state)'
    BY <1>4, <1>5 DEF WalkInv, KeysOnly, Key
  <2>5. ~inner'.taken => state' = inner'.entry
    BY <1>4, <1>5, <1>13, <1>14
  <2> QED
    BY <1>14, <1>26, <2>1, <2>2, <2>3, <2>4, <2>5 DEF WalkInv
<1> QED
  BY <1>4, <1>5, <1>19, <1>20, <1>21, <1>22, <1>23, <1>27 DEF Inv

-----------------------------------------------------------------------------
(* The end of an arm.                                                      *)

(* The names B get back what they stood for before the arm; S: the trees   *)
(* that names in B still own.                                              *)
Drops(S, B) == \A c \in Cell : c \in S <=> \E n \in VarsOf(c) : n \in B
Restores(d, B) ==
  \A c \in Cell : \A n : n \in VarsOf(c)' <=> \/ n \in VarsOf(c) /\ n \notin B
                                              \/ n \in HiddenOf(d, c)

LEMMA CloseHolders ==
  ASSUME OneHolder, lent' = lent, returned' = returned, NEW d, d \in 1 .. d,
         DOMAIN frames = 1 .. d, DOMAIN frames' = 1 .. d,
         \A c : CasesOf(c)' = CasesOf(c),
         \A i \in 1 .. d : i # d => \A c : HiddenOf(i, c)' = HiddenOf(i, c),
         \A c : HiddenOf(d, c)' = {}, NEW B, NEW S, Drops(S, B), Restores(d, B)
  PROVE  OneHolder' /\ Roots' = Roots \ S
<1>0. /\ \A c \in Cell : c \in S <=> \E n \in VarsOf(c) : n \in B
      /\ \A c \in Cell : \A n : n \in VarsOf(c)' <=> \/ n \in VarsOf(c) /\ n \notin B
                                                     \/ n \in HiddenOf(d, c)
  BY DEF Drops, Restores
<1>1. \A c \in Cell :
        /\ \A n, m \in VarsOf(c) : n = m
        /\ \A i, j \in 1 .. d : \A n \in HiddenOf(i, c) : \A m \in HiddenOf(j, c) : i = j /\ n = m
        /\ \A i, j \in CasesOf(c) : i = j
        /\ VarsOf(c) # {} => /\ \A i \in 1 .. d : HiddenOf(i, c) = {}
                             /\ CasesOf(c) = {}
        /\ c \in {lent, returned} => /\ VarsOf(c) = {} /\ CasesOf(c) = {}
                                     /\ \A i \in 1 .. d : HiddenOf(i, c) = {}
        /\ CasesOf(c) # {} => \A i \in 1 .. d : HiddenOf(i, c) = {}
  BY DEF OneHolder
<1>2. \A c \in Cell : \A i \in 1 .. d : \A n : n \in HiddenOf(i, c)' <=> (i # d /\ n \in HiddenOf(i, c))
  OBVIOUS
<1>3. ASSUME NEW c \in Cell
      PROVE  /\ \A n, m \in VarsOf(c)' : n = m
             /\ \A i, j \in 1 .. d : \A n \in HiddenOf(i, c)' : \A m \in HiddenOf(j, c)' : i = j /\ n = m
             /\ \A i, j \in CasesOf(c)' : i = j
             /\ VarsOf(c)' # {} => /\ \A i \in 1 .. d : HiddenOf(i, c)' = {}
                                   /\ CasesOf(c)' = {}
             /\ c \in {lent, returned} => /\ VarsOf(c)' = {} /\ CasesOf(c)' = {}
                                          /\ \A i \in 1 .. d : HiddenOf(i, c)' = {}
             /\ CasesOf(c)' # {} => \A i \in 1 .. d : HiddenOf(i, c)' = {}
             /\ (\/ VarsOf(c)' # {} \/ CasesOf(c)' # {} \/ c \in {lent, returned}
                 \/ \E i \in 1 .. d : HiddenOf(i, c)' # {}) <=> c \in Roots \ S
  <2>1. c \in Roots <=> \/ VarsOf(c) # {} \/ CasesOf(c) # {} \/ c \in {lent, returned}
                        \/ \E i \in 1 .. d : HiddenOf(i, c) # {}
    BY DEF Roots
  <2>2. CasesOf(c)' = CasesOf(c)
    OBVIOUS
  <2>3. CASE c \in S
    <3>1. PICK x \in VarsOf(c) : x \in B
      BY <1>0, <2>3
    <3>2. /\ CasesOf(c) = {} /\ c \notin {lent, returned} /\ \A i \in 1 .. d : HiddenOf(i, c) = {}
          /\ \A n \in VarsOf(c) : n = x
      BY <1>1, <3>1
    <3>3. VarsOf(c)' = {}
      BY <1>0, <3>1, <3>2
    <3>4. \A i \in 1 .. d : HiddenOf(i, c)' = {}
      BY <1>2, <3>2
    <3> QED
      BY <2>2, <2>3, <3>2, <3>3, <3>4
  <2>4. CASE c \notin S /\ VarsOf(c) # {}
    <3>1. /\ CasesOf(c) = {} /\ c \notin {lent, returned} /\ \A i \in 1 .. d : HiddenOf(i, c) = {}
          /\ \A n, m \in VarsOf(c) : n = m
      BY <1>1, <2>4
    <3>2. \A n : n \in VarsOf(c)' <=> n \in VarsOf(c)
      BY <1>0, <2>4, <3>1
    <3>3. \A i \in 1 .. d : HiddenOf(i, c)' = {}
      BY <1>2, <3>1
    <3> QED
      BY <2>1, <2>2, <2>4, <3>1, <3>2, <3>3
  <2>5. CASE c \notin S /\ VarsOf(c) = {} /\ HiddenOf(d, c) # {}
    <3>1. PICK x \in HiddenOf(d, c) : TRUE
      BY <2>5
    <3>2. /\ \A n \in HiddenOf(d, c) : n = x
          /\ \A i \in 1 .. d : i # d => HiddenOf(i, c) = {}
          /\ CasesOf(c) = {} /\ c \notin {lent, returned}
      BY <1>1, <3>1
    <3>3. \A n : n \in VarsOf(c)' <=> n = x
      BY <1>0, <2>5, <3>1, <3>2
    <3>4. \A i \in 1 .. d : HiddenOf(i, c)' = {}
      BY <1>2, <3>2
    <3> QED
      BY <2>1, <2>2, <2>5, <3>1, <3>2, <3>3, <3>4
  <2>6. CASE c \notin S /\ VarsOf(c) = {} /\ HiddenOf(d, c) = {}
    <3>1. VarsOf(c)' = {}
      BY <1>0, <2>6
    <3>2. \A i \in 1 .. d : HiddenOf(i, c)' = HiddenOf(i, c)
      BY <2>6
    <3> QED
      BY <1>1, <2>1, <2>2, <2>6, <3>1, <3>2
  <2> QED
    BY <2>3, <2>4, <2>5, <2>6
<1>5. OneHolder'
  BY <1>3 DEF OneHolder
<1>6. Roots' = {c \in Cell : \/ VarsOf(c)' # {}
                             \/ \E i \in 1 .. d : HiddenOf(i, c)' # {}
                             \/ CasesOf(c)' # {}
                             \/ c \in {lent, returned}}
  BY DEF Roots
<1>7. \A c \in Cell : c \in Roots' <=> c \in Roots \ S
  BY <1>3, <1>6
<1>8. Roots' \subseteq Cell /\ Roots \subseteq Cell
  BY <1>6 DEF Roots
<1>9. Roots' = Roots \ S
  BY <1>7, <1>8
<1> QED
  BY <1>5, <1>9

(* Destroying what several holders hold: different trees of the heap.      *)
LEMMA ManyDestroyed ==
  ASSUME NEW R, Heap(live, Payloads, R), NEW r,
         \A h \in DOMAIN r : r[h] \in R \/ r[h] \notin Cell,
         \A h, g \in DOMAIN r : r[h] = r[g] /\ r[h] \in Cell => h = g
  PROVE  /\ DestroyFault(r) = {} /\ Range(r) \cap Cell \in SUBSET R
         /\ Trees(Range(r)) = Trees(Range(r) \cap Cell)
<1>1. /\ Solves(Payloads, [c \in Cell |-> Tree(c)])
      /\ R \subseteq live /\ live \subseteq Cell
      /\ \A c \in R : Tree(c) \subseteq live
      /\ \A c, d \in R : c # d => Tree(c) \cap Tree(d) = {}
  BY TreesOfRoots
<1>2. \A c : c \notin Cell => Tree(c) = {}
  BY DEF Tree
<1>3. \A h \in DOMAIN r : Tree(r[h]) \subseteq live
  BY <1>1, <1>2
<1>4. \A h, g \in DOMAIN r : h # g => Tree(r[h]) \cap Tree(r[g]) = {}
  <2> TAKE h, g \in DOMAIN r
  <2> HAVE h # g
  <2>1. CASE r[h] \in R /\ r[g] \in R
    BY <1>1, <2>1
  <2>2. CASE r[h] \notin Cell \/ r[g] \notin Cell
    BY <1>2, <2>2
  <2> QED
    BY <2>1, <2>2
<1>5. DestroyFault(r) = {}
  BY <1>3, <1>4 DEF DestroyFault
<1>6. Range(r) \cap Cell \in SUBSET R
  BY DEF Range
<1>7. Trees(Range(r)) = Trees(Range(r) \cap Cell)
  <2>1. \A x : x \in Trees(Range(r)) <=> \E c \in Range(r) : x \in Tree(c)
    BY DEF Trees
  <2>2. \A x : x \in Trees(Range(r) \cap Cell) <=> \E c \in Range(r) \cap Cell : x \in Tree(c)
    BY DEF Trees
  <2> QED
    BY <1>2, <2>1, <2>2
<1> QED
  BY <1>5, <1>6, <1>7

(* What the run and the walk know when an arm ends; f is the frame of the  *)
(* case before that, r the state the arm leaves, own the binders it has    *)
(* to destroy.                                                             *)
LEMMA CloseFacts ==
  ASSUME Inv, CloseArm, NEW d, d = depth, NEW f, f = inner
  PROVE  /\ AtStmt /\ f \in FrameType /\ FrameOK(f) /\ Nesting(d) /\ f.arm \in Arm /\ BoundTwice(f.arm) = {}
         /\ Binders(f.arm) \subseteq Name /\ f.taken
         /\ aliases = (f.aliases \ Binders(f.arm)) \cup (IF f.byValue THEN {} ELSE Binders(f.arm))
         /\ \A n : Key(n)' = Key(n)
         /\ state' = f.entry /\ aliases' = f.aliases
         /\ \A n \in Name : slot'[n] = IF n \in Binders(f.arm) THEN f.saved[n].ptr ELSE slot[n]
         /\ d \in 1 .. d /\ depth' = d /\ DOMAIN frames' = 1 .. d /\ DOMAIN frames = 1 .. d
         /\ \A i \in 1 .. d : i # d => frames'[i] = frames[i]
         /\ frames[d] = f /\ frames'[d] = inner' /\ frames' \in Seq(FrameType)
         /\ inner'.arm = NoArm /\ inner'.saved = <<>> /\ inner'.seen # {} /\ inner'.byValue = f.byValue
         /\ inner'.entry = f.entry /\ inner'.aliases = f.aliases /\ inner'.box = f.box /\ inner'.taken
         /\ BetweenArms' /\ Track' = inner'.joined /\ KeysOnly(Track')
         /\ \A n \in Name :
              LET m == IF f.byValue /\ n \in Binders(f.arm) THEN f.entry[Key(n)] ELSE state[Key(n)]
              IN  /\ Track'[Key(n)] = "Owned" <=> m = "Owned"
                  /\ Track'[Key(n)] = "absent" => m = "absent"
         /\ UNCHANGED <<bounds, phase, rebound, lent, returned>>
<1>1. /\ AtStmt /\ depth > 0
      /\ ArmAccepted(Restored(inner.arm))
      /\ state' = inner.entry
      /\ aliases' = inner.aliases
      /\ slot' = [n \in Name |-> IF n \in Binders(inner.arm) THEN inner.saved[n].ptr ELSE slot[n]]
      /\ UNCHANGED <<bounds, phase, rebound, lent, returned>>
  BY DEF CloseArm
<1>2. frames' = [frames EXCEPT ![depth] =
        [inner EXCEPT !.arm = NoArm, !.saved = <<>>, !.seen = @ \cup {inner.arm},
                      !.joined = Joined(Restored(inner.arm))]]
  BY DEF CloseArm
<1>3. /\ TypeOK /\ KeysOnly(state) /\ phase = "walk" /\ WalkInv
  BY <1>1, StmtFacts DEF Inv
<1>4. /\ d \in 1 .. d /\ inner = frames[d] /\ f \in FrameType
      /\ FrameOK(f) /\ Nesting(d)
  BY <1>1, <1>3, Depth DEF WalkInv
<1>5. f.arm # NoArm /\ f.taken /\ BoundTwice(f.arm) = {} /\ f.arm \in Arm
  BY <1>1, <1>4 DEF AtStmt, FrameOK, FrameType
<1>6. Binders(f.arm) \subseteq Name
  BY <1>5, Positions
<1>7. aliases = (f.aliases \ Binders(f.arm)) \cup (IF f.byValue THEN {} ELSE Binders(f.arm))
  BY <1>4 DEF Nesting, AliasesAt
<1>8. KeysOnly(f.entry) /\ KeysOnly(f.joined)
  BY <1>4 DEF FrameOK
<1>9. PICK r : r = Restored(f.arm)
  OBVIOUS
<1>10. /\ KeysOnly(r)
       /\ \A n \in Name : r[Key(n)] = IF f.byValue /\ n \in Binders(f.arm) THEN f.entry[Key(n)] ELSE state[Key(n)]
  <2> DEFINE own == OwnedBinders(f.byValue, f.arm)
  <2>1. \A n : n \in own <=> f.byValue /\ n \in Binders(f.arm)
    BY DEF OwnedBinders
  <2>2. own \subseteq Name
    BY <1>6, <2>1
  <2>3. \A x \in Decl : r[x] = IF \E n \in own : x = Key(n) THEN f.entry[x] ELSE state[x]
    BY <1>5, <1>9 DEF Restored, RestoredMark
  <2>4. r = [x \in Decl |-> r[x]]
    BY <1>9 DEF Restored
  <2> HIDE DEF own
  <2>5. \A n \in Name : (\E m \in own : Key(n) = Key(m)) <=> n \in own
    BY <2>2, Keys
  <2>6. \A n \in Name : r[Key(n)] = IF n \in own THEN f.entry[Key(n)] ELSE state[Key(n)]
    BY <2>3, <2>5, Keys
  <2>7. /\ f.entry \in [Decl -> Mark] /\ state \in [Decl -> Mark]
        /\ \A x \in Decl : f.entry[x] = "Owned" => x = Key(x[1])
        /\ \A x \in Decl : state[x] = "Owned" => x = Key(x[1])
    BY <1>3, <1>8 DEF KeysOnly, StateMap
  <2>8. \A x \in Decl : r[x] \in Mark /\ (r[x] = "Owned" => x = Key(x[1]))
    BY <2>3, <2>7
  <2>9. r \in StateMap
    BY <2>4, <2>8 DEF StateMap
  <2>10. KeysOnly(r)
    BY <2>8, <2>9 DEF KeysOnly
  <2> QED
    BY <2>1, <2>6, <2>10
<1>11. PICK j : j = Joined(r)
  OBVIOUS
<1>12. KeysOnly(j) /\ Keeps(j, r)
  BY <1>1, <1>8, <1>9, <1>10, <1>11, JoinedIs
<1>13. PICK S : S = f.seen \cup {f.arm}
  OBVIOUS
<1>14. PICK g : g = Left(f, S, j)
  OBVIOUS
<1>15. frames' = [frames EXCEPT ![depth] = g]
  <2>1. [inner EXCEPT !.arm = NoArm, !.saved = <<>>, !.seen = @ \cup {inner.arm},
                      !.joined = Joined(Restored(inner.arm))]
          = Left(inner, inner.seen \cup {inner.arm}, Joined(Restored(inner.arm)))
    BY DEF Left
  <2>2. Left(inner, inner.seen \cup {inner.arm}, Joined(Restored(inner.arm))) = g
    BY <1>9, <1>11, <1>13, <1>14
  <2> QED
    BY <1>2, <2>1, <2>2
<1>16. j \in StateMap /\ S \in SUBSET Arm /\ S # {}
  BY <1>4, <1>5, <1>12, <1>13 DEF KeysOnly, FrameType
<1>17. /\ g \in FrameType
       /\ g.arm = NoArm /\ g.saved = <<>> /\ g.seen = S /\ g.joined = j /\ g.byValue = f.byValue
       /\ g.entry = f.entry /\ g.aliases = f.aliases /\ g.box = f.box /\ g.taken = f.taken
  BY <1>4, <1>14, <1>16, FrameClosed
<1>18. /\ d \in 1 .. d /\ depth' = d /\ DOMAIN frames' = 1 .. d /\ DOMAIN frames = 1 .. d
       /\ \A i \in 1 .. d : i # d => frames'[i] = frames[i]
       /\ frames'[d] = g /\ inner' = g /\ frames' \in Seq(FrameType)
  BY <1>1, <1>3, <1>15, <1>17, FrameChanged
<1>19. BetweenArms' /\ Track' = j
  <2>1. BetweenArms'
    BY <1>1, <1>3, <1>17, <1>18 DEF BetweenArms
  <2> QED
    BY <1>5, <1>17, <1>18, <2>1 DEF Track
<1>20. \A n : Key(n)' = Key(n)
  BY <1>1 DEF Key
<1>21. \A n \in Name : slot'[n] = IF n \in Binders(f.arm) THEN f.saved[n].ptr ELSE slot[n]
  BY <1>1
<1>22. \A n \in Name :
         LET m == IF f.byValue /\ n \in Binders(f.arm) THEN f.entry[Key(n)] ELSE state[Key(n)]
         IN  /\ Track'[Key(n)] = "Owned" <=> m = "Owned"
             /\ Track'[Key(n)] = "absent" => m = "absent"
  BY <1>10, <1>12, <1>19 DEF Keeps
<1>23. /\ frames[d] = f /\ frames'[d] = inner'
       /\ inner'.arm = NoArm /\ inner'.saved = <<>> /\ inner'.seen # {} /\ inner'.byValue = f.byValue
       /\ inner'.entry = f.entry /\ inner'.aliases = f.aliases /\ inner'.box = f.box /\ inner'.taken
       /\ Track' = inner'.joined /\ KeysOnly(Track')
  BY <1>4, <1>5, <1>12, <1>16, <1>17, <1>18, <1>19
<1> QED
  BY <1>1, <1>4, <1>5, <1>6, <1>7, <1>18, <1>19, <1>20, <1>21, <1>22, <1>23

(* What the binders that are still owners hold is destroyed.               *)
LEMMA CloseHeap ==
  ASSUME Inv, CloseArm, NEW f, f = inner,
         NEW own, own = {n \in OwnedBinders(f.byValue, f.arm) : state[Key(n)] = "Owned"}
  PROVE  /\ {slot[n] : n \in own} \cap Cell \in SUBSET Roots
         /\ lent \notin {slot[n] : n \in own} \cap Cell
         /\ Free(Trees({slot[n] : n \in own} \cap Cell)) /\ fault' = {}
<1> DEFINE dead == [p \in {q \in Bound(f.arm) : f.arm[q] \in own} |-> slot[f.arm[p]]]
<1>1. /\ AtStmt /\ f.arm \in Arm /\ BoundTwice(f.arm) = {} /\ Binders(f.arm) \subseteq Name
      /\ aliases = (f.aliases \ Binders(f.arm)) \cup (IF f.byValue THEN {} ELSE Binders(f.arm))
  BY CloseFacts
<1>2. Free(Trees(Range(dead))) /\ fault' = fault \cup DestroyFault(dead)
  BY DEF CloseArm
<1>3. /\ fault = {} /\ OneHolder /\ Heap(live, Payloads, Roots)
  BY DEF Inv
<1>4. /\ \A n \in Binders(f.arm) : Binding(f.arm, n) \in Bound(f.arm) /\ f.arm[Binding(f.arm, n)] = n
      /\ \A p, q \in Bound(f.arm) : f.arm[p] = f.arm[q] => p = q
  BY <1>1, BindingIs
<1>5. \A n \in own : n \in Binders(f.arm) /\ n \in Name /\ n \notin aliases /\ state[Key(n)] = "Owned"
  BY <1>1 DEF OwnedBinders
<1>6. \A n \in own : n \in VarsOf(slot[n])
  BY <1>1, <1>5, VarsAtStmt
<1>7. \A n \in own : slot[n] \in Roots \/ slot[n] \notin Cell
  BY <1>6 DEF Roots
<1>8. \A n, m \in own : slot[n] = slot[m] /\ slot[n] \in Cell => n = m
  BY <1>3, <1>6 DEF OneHolder
<1>9. DOMAIN dead = {q \in Bound(f.arm) : f.arm[q] \in own} /\ \A p \in DOMAIN dead : dead[p] = slot[f.arm[p]]
  OBVIOUS
<1> HIDE DEF dead
<1>10. Range(dead) = {slot[n] : n \in own}
  <2>1. \A p \in DOMAIN dead : dead[p] \in {slot[n] : n \in own}
    BY <1>9
  <2>2. \A n \in own : slot[n] \in Range(dead)
    <3> TAKE n \in own
    <3>1. Binding(f.arm, n) \in Bound(f.arm) /\ f.arm[Binding(f.arm, n)] = n
      BY <1>4, <1>5
    <3>2. Binding(f.arm, n) \in DOMAIN dead /\ dead[Binding(f.arm, n)] = slot[n]
      BY <1>9, <3>1
    <3> QED
      BY <3>2 DEF Range
  <2> QED
    BY <2>1, <2>2 DEF Range
<1>11. \A p \in DOMAIN dead : dead[p] \in Roots \/ dead[p] \notin Cell
  BY <1>7, <1>9
<1>12. \A p, q \in DOMAIN dead : dead[p] = dead[q] /\ dead[p] \in Cell => p = q
  BY <1>4, <1>8, <1>9
<1>13. /\ DestroyFault(dead) = {} /\ Range(dead) \cap Cell \in SUBSET Roots
       /\ Trees(Range(dead)) = Trees(Range(dead) \cap Cell)
  BY <1>3, <1>11, <1>12, ManyDestroyed
<1>14. lent \notin {slot[n] : n \in own} \cap Cell
  <2> SUFFICES ASSUME NEW n \in own, slot[n] = lent, lent \in Cell PROVE FALSE
    OBVIOUS
  <2>1. VarsOf(lent) # {}
    BY <1>6
  <2> QED
    BY <1>3, <2>1 DEF OneHolder
<1> QED
  BY <1>2, <1>3, <1>10, <1>13, <1>14

LEMMA CloseArmStep ==
  ASSUME Inv, CloseArm
  PROVE  Inv'
<1>1. PICK d : d = depth
  OBVIOUS
<1>2. PICK f : f = inner
  OBVIOUS
<1>3. PICK B : B = Binders(f.arm)
  OBVIOUS
<1>4. /\ AtStmt /\ f \in FrameType /\ FrameOK(f) /\ Nesting(d) /\ f.arm \in Arm /\ BoundTwice(f.arm) = {}
      /\ B \subseteq Name /\ f.taken
      /\ aliases = (f.aliases \ B) \cup (IF f.byValue THEN {} ELSE B)
      /\ \A n : Key(n)' = Key(n)
      /\ state' = f.entry /\ aliases' = f.aliases
      /\ \A n \in Name : slot'[n] = IF n \in B THEN f.saved[n].ptr ELSE slot[n]
      /\ d \in 1 .. d /\ depth' = d /\ DOMAIN frames' = 1 .. d /\ DOMAIN frames = 1 .. d
      /\ \A i \in 1 .. d : i # d => frames'[i] = frames[i]
      /\ frames[d] = f /\ frames'[d] = inner' /\ frames' \in Seq(FrameType)
      /\ inner'.arm = NoArm /\ inner'.saved = <<>> /\ inner'.seen # {} /\ inner'.byValue = f.byValue
      /\ inner'.entry = f.entry /\ inner'.aliases = f.aliases /\ inner'.box = f.box /\ inner'.taken
      /\ BetweenArms' /\ Track' = inner'.joined /\ KeysOnly(Track')
      /\ \A n \in Name :
           LET m == IF f.byValue /\ n \in B THEN f.entry[Key(n)] ELSE state[Key(n)]
           IN  /\ Track'[Key(n)] = "Owned" <=> m = "Owned"
               /\ Track'[Key(n)] = "absent" => m = "absent"
      /\ UNCHANGED <<bounds, phase, rebound, lent, returned>>
  BY <1>1, <1>2, <1>3, CloseFacts
<1>5. PICK g : g = inner'
  OBVIOUS
<1>6. /\ TypeOK /\ WalkInv /\ phase = "walk" /\ fault = {} /\ OneHolder /\ Shaped /\ LentOK /\ returned = Null
      /\ Heap(live, Payloads, Roots) /\ live \subseteq Cell
      /\ slot \in [Name -> Cell \cup {Null}] /\ aliases \subseteq Name /\ kids \in [Cell -> Seq(Cell)]
      /\ \A n \in Name \ aliases : state[Key(n)] = "absent" => slot[n] = Null
  BY <1>4, StmtFacts DEF Inv
<1>7. PICK own : own = {n \in OwnedBinders(f.byValue, f.arm) : state[Key(n)] = "Owned"}
  OBVIOUS
<1>8. PICK S : S = {slot[n] : n \in own} \cap Cell
  OBVIOUS
<1>9. S \in SUBSET Roots /\ lent \notin S /\ Free(Trees(S)) /\ fault' = {}
  BY <1>2, <1>7, <1>8, CloseHeap
<1>10. \A n : n \in own <=> f.byValue /\ n \in B /\ state[Key(n)] = "Owned"
  BY <1>3, <1>7 DEF OwnedBinders
<1>11. \A n \in B : f.saved[n].mark = f.entry[Key(n)] /\ f.saved[n] \in [ptr : Cell \cup {Null}, mark : Mark]
  <2>1. DOMAIN f.saved = B /\ \A n \in B : f.saved[n].mark = f.entry[Key(n)]
    BY <1>3, <1>4 DEF FrameOK
  <2>2. PICK T \in SUBSET Name : f.saved \in [T -> [ptr : Cell \cup {Null}, mark : Mark]]
    BY <1>4 DEF FrameType
  <2> QED
    BY <2>1, <2>2
<1>12. \A n \in aliases : /\ state[Key(n)] = "Owned" <=> f.entry[Key(n)] = "Owned"
                          /\ state[Key(n)] = "absent" => f.entry[Key(n)] = "absent"
  <2>1. AliasesAt(d) = aliases /\ StateAt(d) = state
    BY <1>1, <1>4, TrackAtStmt DEF AliasesAt, StateAt
  <2> QED
    BY <1>4, <2>1 DEF Nesting
(* A name of B is what it was at the start of the case, another one what   *)
(* it is.                                                                  *)
<1>13. \A n \in Name : n \in B => /\ Track'[Key(n)] = "Owned" <=> f.entry[Key(n)] = "Owned"
                                  /\ Track'[Key(n)] = "absent" => f.entry[Key(n)] = "absent"
  BY <1>4, <1>12
<1>14. \A n \in Name : n \notin B => /\ Track'[Key(n)] = "Owned" <=> state[Key(n)] = "Owned"
                                     /\ Track'[Key(n)] = "absent" => state[Key(n)] = "absent"
  BY <1>4
<1>15. \A n \in Name : n \notin B => (n \in aliases <=> n \in aliases')
  BY <1>4
<1>16. \A c : \A n : n \in VarsOf(c) <=> n \in Name /\ n \notin aliases /\ state[Key(n)] = "Owned" /\ slot[n] = c
  BY <1>4, VarsAtStmt
<1>17. \A c : \A n : n \in VarsOf(c)' <=> n \in Name /\ n \notin aliases' /\ Track'[Key(n)] = "Owned" /\ slot'[n] = c
  BY <1>4, <1>6 DEF VarsOf
<1>18. \A c : CasesOf(c)' = CasesOf(c)
  <2>1. \A i \in 1 .. d : frames'[i].byValue = frames[i].byValue /\ frames'[i].box = frames[i].box
    BY <1>4
  <2> QED
    BY <1>4, <2>1 DEF CasesOf
<1>19. \A i \in 1 .. d : i # d => \A c : HiddenOf(i, c)' = HiddenOf(i, c)
  BY <1>4 DEF HiddenOf
<1>20. \A c : HiddenOf(d, c)' = {}
  <2>1. DOMAIN frames'[d].saved = {}
    BY <1>4
  <2> QED
    BY <2>1 DEF HiddenOf
<1>21. \A c : \A n : n \in HiddenOf(d, c) <=>
         n \in B /\ n \notin f.aliases /\ f.saved[n].ptr = c /\ f.entry[Key(n)] = "Owned"
  <2> TAKE c
  <2> TAKE n
  <2>1. DOMAIN f.saved = B
    BY <1>3, <1>4 DEF FrameOK
  <2>2. n \in HiddenOf(d, c) <=> n \in B /\ n \notin f.aliases /\ f.saved[n] = [ptr |-> c, mark |-> "Owned"]
    BY <1>4, <2>1 DEF HiddenOf
  <2>3. CASE n \in B
    <3>1. PICK v \in [ptr : Cell \cup {Null}, mark : Mark] : v = f.saved[n]
      BY <1>11, <2>3
    <3>2. v = [ptr |-> c, mark |-> "Owned"] <=> v.ptr = c /\ v.mark = "Owned"
      OBVIOUS
    <3> QED
      BY <1>11, <2>2, <2>3, <3>1, <3>2
  <2>4. CASE n \notin B
    BY <2>2, <2>4
  <2> QED
    BY <2>3, <2>4
<1>22. Restores(d, B)
  <2> SUFFICES ASSUME NEW c \in Cell, NEW n
               PROVE  n \in VarsOf(c)' <=> \/ n \in VarsOf(c) /\ n \notin B
                                           \/ n \in HiddenOf(d, c)
    BY DEF Restores
  <2>1. CASE n \in B
    BY <1>4, <1>13, <1>17, <1>21, <2>1
  <2>2. CASE n \notin B
    <3>1. n \notin HiddenOf(d, c)
      BY <1>21, <2>2
    <3> QED
      BY <1>4, <1>14, <1>15, <1>16, <1>17, <2>2, <3>1
  <2> QED
    BY <2>1, <2>2
<1>23. Drops(S, B)
  <2> SUFFICES ASSUME NEW c \in Cell PROVE c \in S <=> \E n \in VarsOf(c) : n \in B
    BY DEF Drops
  <2>1. \A n \in B : n \notin aliases => f.byValue
    BY <1>4
  <2>2. \A n \in own : n \in VarsOf(slot[n])
    BY <1>4, <1>10, <1>16
  <2>3. \A n \in VarsOf(c) : n \in B => n \in own /\ slot[n] = c
    BY <1>10, <1>16, <2>1
  <2> QED
    BY <1>8, <1>10, <2>2, <2>3
<1>24. OneHolder' /\ Roots' = Roots \ S
  <2>1. /\ lent' = lent /\ returned' = returned /\ d \in 1 .. d
        /\ DOMAIN frames = 1 .. d /\ DOMAIN frames' = 1 .. d
    BY <1>4
  <2> QED
    BY <1>6, <1>18, <1>19, <1>20, <1>22, <1>23, <2>1, CloseHolders
<1>25. /\ Heap(live', Payloads', Roots \ S)
       /\ live' \subseteq Cell /\ kids' \in [Cell -> Seq(Cell)]
       /\ Shaped' /\ LentOK' /\ Borrowed' = Borrowed
       /\ \A c \in Cell : kids[c] = <<>> => kids'[c] = <<>>
  <2>1. lent \in Cell => lent \in Roots \ S
    BY <1>9, LentHeld
  <2>2. lent' = lent
    BY <1>4
  <2> QED
    BY <1>6, <1>9, <2>1, <2>2, FreeStep
<1>26. slot' \in [Name -> Cell \cup {Null}]
  <2>1. \A n \in Name : slot'[n] \in Cell \cup {Null}
    BY <1>4, <1>6, <1>11
  <2>2. slot' = [n \in Name |-> slot'[n]]
    BY DEF CloseArm
  <2> QED
    BY <2>1, <2>2
<1>27. \A t : KeysOnly(t)' <=> KeysOnly(t)
  BY <1>4 DEF KeysOnly, Key
<1>28. KeysOnly(f.entry)
  BY <1>4 DEF FrameOK
<1>29. TypeOK'
  <2>1. state' \in StateMap /\ aliases' \in SUBSET Name
    BY <1>4, <1>28 DEF KeysOnly, FrameType
  <2> QED
    BY <1>4, <1>6, <1>25, <1>26, <2>1 DEF TypeOK
<1>30. FrameOK(frames[d])'
  <2>1. /\ frames'[d] = g /\ g.arm = NoArm /\ DOMAIN g.saved = {} /\ Binders(NoArm) = {} /\ g.seen # {}
        /\ g.taken /\ g.byValue = f.byValue /\ g.entry = f.entry /\ g.box = f.box /\ lent' = lent
    BY <1>4, <1>5, NoBinders
  <2>2. KeysOnly(f.entry) /\ KeysOnly(g.joined)
    BY <1>4, <1>5, <1>28
  <2>3. (f.byValue => kids'[f.box] = <<>>) /\ (~f.byValue => f.box = lent /\ lent # Null)
    <3>1. f.box \in Cell
      BY <1>4 DEF FrameType
    <3> QED
      BY <1>4, <1>25, <3>1 DEF FrameOK
  <2> QED
    BY <1>27, <2>1, <2>2, <2>3 DEF FrameOK
<1>31. Nesting(d)'
  <2>1. AliasesAt(d)' = f.aliases /\ StateAt(d)' = Track'
    BY <1>4 DEF AliasesAt, StateAt
  <2>2. f.aliases \subseteq Name
    BY <1>4 DEF FrameType
  <2>3. \A n \in f.aliases : /\ Track'[Key(n)] = "Owned" <=> f.entry[Key(n)] = "Owned"
                             /\ Track'[Key(n)] = "absent" => f.entry[Key(n)] = "absent"
    <3> TAKE n \in f.aliases
    <3>1. CASE n \in B
      BY <1>13, <2>2, <3>1
    <3>2. CASE n \notin B
      BY <1>4, <1>12, <1>14, <2>2, <3>2
    <3> QED
      BY <3>1, <3>2
  <2>4. ~(d < depth')
    BY <1>4
  <2>5. (f.aliases \ Binders(NoArm)) \cup (IF f.byValue THEN {} ELSE Binders(NoArm)) = f.aliases
    BY NoBinders
  <2> QED
    BY <1>4, <2>1, <2>3, <2>4, <2>5 DEF Nesting
<1>32. /\ \A i \in 1 .. d : i # d => FrameOK(frames[i])' /\ Nesting(i)'
       /\ AliasesAt(0)' = {}
  <2>1. \A c \in live : kids[c] = <<>> => kids'[c] = <<>>
    BY <1>6, <1>25
  <2>2. frames'[d].entry = frames[d].entry /\ frames'[d].aliases = frames[d].aliases
    BY <1>4
  <2> QED
    BY <1>1, <1>4, <1>6, <1>25, <2>1, <2>2, OuterKept
<1>33. WalkInv'
  <2>1. \A i \in 1 .. d : FrameOK(frames[i])' /\ Nesting(i)'
    BY <1>30, <1>31, <1>32
  <2>2. \A n \in Name \ aliases' : Track'[Key(n)'] = "absent" => slot'[n] = Null
    <3> SUFFICES ASSUME NEW n \in Name, n \notin f.aliases, Track'[Key(n)] = "absent" PROVE slot'[n] = Null
      BY <1>4
    <3>1. CASE n \in B
      <4>1. f.saved[n].mark = "absent"
        BY <1>11, <1>13, <3>1
      <4>2. f.saved[n].ptr = Null
        BY <1>3, <1>4, <3>1, <4>1 DEF FrameOK
      <4> QED
        BY <1>4, <3>1, <4>2
    <3>2. CASE n \notin B
      BY <1>4, <1>6, <1>14, <1>15, <3>2
    <3> QED
      BY <3>1, <3>2
  <2>3. \A n \in aliases' : slot'[n] \in Borrowed'
    <3> SUFFICES ASSUME NEW n \in f.aliases PROVE slot'[n] \in Borrowed
      BY <1>4, <1>25
    <3>0. n \in Name
      BY <1>4 DEF FrameType
    <3>1. CASE n \in B
      BY <1>3, <1>4, <3>0, <3>1 DEF FrameOK
    <3>2. CASE n \notin B
      BY <1>4, <1>6, <3>0, <3>2 DEF WalkInv
    <3> QED
      BY <3>1, <3>2
  <2>4. KeysOnly(state)'
    BY <1>4, <1>27, <1>28 DEF KeysOnly, Key
  <2>5. ~inner'.taken => state' = inner'.entry
    BY <1>4
  <2> QED
    BY <1>4, <1>32, <2>1, <2>2, <2>3, <2>4, <2>5 DEF WalkInv
<1>34. Heap(live, Payloads, Roots)'
  BY <1>24, <1>25
<1> QED
  BY <1>4, <1>6, <1>9, <1>24, <1>25, <1>29, <1>33, <1>34 DEF Inv

-----------------------------------------------------------------------------
(* The end of a case.                                                      *)

(* Of arms that cover nested patterns one matches.                         *)
LEMMA SomeArmMatches ==
  ASSUME TypeOK, Shaped, NEW c \in Cell, NEW seen \in SUBSET Arm, Covered(seen), NoGap(seen)
  PROVE  \E arm \in seen : Matches(arm, c)
<1>1. CASE TagOf(c) = "Leaf"
  <2>1. PICK arm \in seen : arm[<<>>] = "Leaf"
    <3>1. "Leaf" \in {arm[<<>>] : arm \in seen}
      BY DEF Covered, Tag
    <3> QED
      BY <3>1
  <2>2. \A p \in Tests(arm) : p = <<>>
    <3> TAKE p \in Tests(arm)
    <3>1. arm \in Arm /\ p \in DOMAIN arm /\ arm[<<>>] # "Node"
      BY <2>1 DEF Tests
    <3> QED
      BY <3>1, Positions
  <2>3. Matches(arm, c)
    BY <1>1, <2>1, <2>2, AtIs DEF Matches
  <2> QED
    BY <2>3
<1>2. CASE TagOf(c) = "Node"
  <2>1. /\ kids[c][1] \in Cell /\ kids[c][2] \in Cell
    BY <1>2, ShapeOf
  <2>2. PICK pair \in Tag \X Tag : pair[1] = TagOf(kids[c][1]) /\ pair[2] = TagOf(kids[c][2])
    <3>1. PICK t \in Tag : t = TagOf(kids[c][1])
      BY DEF TagOf, Tag
    <3>2. PICK u \in Tag : u = TagOf(kids[c][2])
      BY DEF TagOf, Tag
    <3>3. <<t, u>> \in Tag \X Tag /\ <<t, u>>[1] = t /\ <<t, u>>[2] = u
      OBVIOUS
    <3> QED
      BY <3>1, <3>2, <3>3
  <2>3. PICK arm \in seen : arm[<<>>] = "Node" /\ \A i \in {1, 2} : arm[<<i>>] \in Tag => arm[<<i>>] = pair[i]
    BY DEF NoGap
  <2>4. arm \in Arm
    OBVIOUS
  <2>5. \A p \in Tests(arm) : (p = <<>> \/ p = <<1>> \/ p = <<2>>) /\ arm[p] \in Tag
    <3>1. \A p \in Tests(arm) : p = <<>> \/ \E i \in {1, 2} : p = <<i>>
      BY <2>4, Positions
    <3> QED
      BY <3>1 DEF Tests
  <2>6. \A p \in Tests(arm) : TagOf(At(c, p)) = arm[p]
    <3> TAKE p \in Tests(arm)
    <3>1. CASE p = <<>>
      BY <1>2, <2>3, <3>1, AtIs
    <3>2. CASE p = <<1>>
      BY <2>2, <2>3, <2>5, <3>2, AtIs
    <3>3. CASE p = <<2>>
      BY <2>2, <2>3, <2>5, <3>3, AtIs
    <3> QED
      BY <2>5, <3>1, <3>2, <3>3
  <2>7. Matches(arm, c)
    BY <1>2, <2>6 DEF Matches
  <2> QED
    BY <2>7
<1> QED
  BY <1>1, <1>2 DEF TagOf

LEMMA FrontFrames ==
  ASSUME TypeOK, NEW d, d = depth, depth > 0, frames' = Front(frames)
  PROVE  /\ d \in Nat /\ d > 0 /\ depth' = d - 1 /\ DOMAIN frames' = 1 .. d - 1 /\ DOMAIN frames = 1 .. d
         /\ \A i \in 1 .. d - 1 : frames'[i] = frames[i]
         /\ frames' \in Seq(FrameType) /\ (d > 1 => inner' = frames[d - 1])
<1>1. frames \in Seq(FrameType) /\ Len(frames) = d /\ d \in Nat /\ d > 0
  BY DEF TypeOK, depth
<1>2. frames' = SubSeq(frames, 1, d - 1)
  BY <1>1 DEF Front
<1>3. /\ frames' \in Seq(FrameType) /\ Len(frames') = d - 1 /\ DOMAIN frames' = 1 .. d - 1
      /\ \A i \in 1 .. d - 1 : frames'[i] = frames[i]
  BY <1>1, <1>2, SubSeqProperties
<1>4. depth' = d - 1 /\ inner' = frames'[Len(frames')]
  BY <1>3 DEF depth, inner, Last
<1> QED
  BY <1>1, <1>3, <1>4

(* No arm that was passed over matches: a case that ends in its default    *)
(* block has a gap.                                                        *)
LEMMA DefaultLeavesGap ==
  ASSUME Inv, CloseUnmatched
  PROVE  ~NoGap(inner.seen)
<1> SUFFICES ASSUME NoGap(inner.seen) PROVE FALSE
  OBVIOUS
<1>1. /\ TypeOK /\ Shaped /\ BetweenArms /\ inner \in FrameType /\ FrameOK(inner)
      /\ Covered(inner.seen) /\ ~inner.taken
  BY BetweenFacts DEF CloseUnmatched, Merge
<1>2. inner.box \in Cell /\ inner.seen \in SUBSET Arm
  BY <1>1 DEF FrameType
<1>3. \E arm \in inner.seen : Matches(arm, inner.box)
  BY <1>1, <1>2, SomeArmMatches
<1> QED
  BY <1>1, <1>3 DEF FrameOK

LEMMA CloseCaseStep ==
  ASSUME Inv, CloseCase
  PROVE  Inv'
<1>1. PICK d : d = depth
  OBVIOUS
<1>2. PICK f : f = inner
  OBVIOUS
<1>3. /\ BetweenArms /\ state' = f.joined /\ frames' = Front(frames)
      /\ IF f.byValue
           THEN /\ live' = live \ {f.box}
                /\ kids' = [kids EXCEPT ![f.box] = <<>>]
                /\ fault' = fault \cup DestroyFault([h \in {"case"} |-> f.box])
           ELSE UNCHANGED <<live, kids, fault>>
      /\ UNCHANGED <<bounds, phase, rebound, aliases, slot, lent, returned>>
  BY <1>2 DEF CloseCase, Merge
<1>4. /\ TypeOK /\ WalkInv /\ phase = "walk" /\ fault = {} /\ OneHolder /\ Shaped /\ LentOK /\ returned = Null
      /\ Heap(live, Payloads, Roots) /\ live \subseteq Cell /\ Roots \subseteq live
      /\ f \in FrameType /\ FrameOK(f) /\ frames[d] = f
      /\ aliases = f.aliases /\ aliases \subseteq Name /\ depth > 0 /\ Nesting(d)
      /\ \A n \in aliases : /\ Track[Key(n)] = "Owned" <=> f.entry[Key(n)] = "Owned"
                            /\ Track[Key(n)] = "absent" => f.entry[Key(n)] = "absent"
      /\ \A c : HiddenOf(d, c) = {}
      /\ f.taken /\ Track = f.joined
  BY <1>1, <1>2, <1>3, BetweenFacts DEF CloseCase
<1>5. /\ d \in Nat /\ d > 0 /\ depth' = d - 1 /\ DOMAIN frames' = 1 .. d - 1 /\ DOMAIN frames = 1 .. d
      /\ \A i \in 1 .. d - 1 : frames'[i] = frames[i]
      /\ frames' \in Seq(FrameType) /\ (d > 1 => inner' = frames[d - 1])
  BY <1>1, <1>3, <1>4, FrontFrames
<1>6. \A i \in 1 .. d - 1 : FrameOK(frames[i]) /\ Nesting(i) /\ frames[i].arm # NoArm /\ frames[i].taken
  <2> TAKE i \in 1 .. d - 1
  <2>1. i \in 1 .. depth /\ i < depth
    BY <1>1, <1>5
  <2>2. FrameOK(frames[i]) /\ Nesting(i)
    BY <1>4, <2>1 DEF WalkInv
  <2>3. frames[i].arm # NoArm
    BY <2>1, <2>2 DEF Nesting
  <2> QED
    BY <2>2, <2>3 DEF FrameOK
<1>7. ~BetweenArms' /\ Track' = state' /\ Track' = Track
  <2>1. ~BetweenArms'
    <3>1. CASE d > 1
      <4>1. inner'.arm # NoArm
        BY <1>5, <1>6, <3>1
      <4> QED
        BY <4>1 DEF BetweenArms
    <3>2. CASE ~(d > 1)
      BY <1>5, <3>2 DEF BetweenArms
    <3> QED
      BY <3>1, <3>2
  <2> QED
    BY <1>3, <1>4, <2>1 DEF Track
<1>8. \A n : Key(n)' = Key(n)
  BY <1>3 DEF Key
<1>9. \A c : VarsOf(c)' = VarsOf(c)
  BY <1>3, <1>4, <1>7, <1>8 DEF VarsOf
<1>10. \A i \in 1 .. d - 1 : \A c : HiddenOf(i, c)' = HiddenOf(i, c)
  BY <1>5 DEF HiddenOf
<1>11. \A c : \A i : i \in CasesOf(c)' <=> i \in CasesOf(c) /\ i # d
  <2>1. \A i : i \in 1 .. d - 1 <=> i \in 1 .. d /\ i # d
    BY <1>5
  <2> QED
    BY <1>5, <2>1 DEF CasesOf
<1>12. PICK S : S = IF f.byValue THEN {f.box} ELSE {}
  OBVIOUS
<1>13. f.box \in Cell
  BY <1>4 DEF FrameType
<1>14. f.byValue => /\ f.box \in Roots /\ d \in CasesOf(f.box) /\ VarsOf(f.box) = {}
                    /\ f.box \notin {lent, returned} /\ \A i \in 1 .. d : HiddenOf(i, f.box) = {}
                    /\ \A i \in CasesOf(f.box) : i = d
  <2> SUFFICES ASSUME f.byValue
               PROVE  /\ f.box \in Roots /\ d \in CasesOf(f.box) /\ VarsOf(f.box) = {}
                      /\ f.box \notin {lent, returned} /\ \A i \in 1 .. d : HiddenOf(i, f.box) = {}
                      /\ \A i \in CasesOf(f.box) : i = d
    OBVIOUS
  <2>1. d \in DOMAIN frames
    BY <1>5
  <2>2. f.box \in Roots /\ d \in CasesOf(f.box)
    BY <1>4, <2>1, BoxLive
  <2> QED
    BY <1>4, <1>5, <1>13, <2>2 DEF OneHolder
<1>15. S \in SUBSET Roots /\ lent \notin S
  BY <1>12, <1>14
<1>16. /\ Heap(live', Payloads', Roots \ S)
       /\ live' \subseteq Cell /\ kids' \in [Cell -> Seq(Cell)] /\ fault' = {}
       /\ Shaped' /\ LentOK' /\ Borrowed' = Borrowed
       /\ \A c \in Cell : kids[c] = <<>> => kids'[c] = <<>>
  <2>1. CASE f.byValue
    <3>1. kids[f.box] = <<>>
      BY <1>4, <2>1 DEF FrameOK
    <3>2. /\ Solves(Payloads, [c \in Cell |-> Tree(c)])
          /\ \A c \in Roots : c \in Tree(c) /\ Tree(c) \subseteq live
      BY <1>4, TreesOfRoots
    <3>3. Tree(f.box) = {f.box}
      <4>1. PICK t : t = [c \in Cell |-> Tree(c)]
        OBVIOUS
      <4>2. t[f.box] = {f.box} \cup UNION {t[k] : k \in Payloads[f.box]}
        BY <1>13, <3>2, <4>1 DEF Solves
      <4>3. Payloads[f.box] = {}
        BY <1>13, <3>1, PairRange DEF Payloads
      <4> QED
        BY <1>13, <4>1, <4>2, <4>3
    <3>4. Trees(S) = {f.box}
      BY <1>12, <2>1, <3>3 DEF Trees
    <3>5. kids' = [c \in Cell |-> IF c \in Trees(S) THEN <<>> ELSE kids[c]]
      <4>1. kids \in [Cell -> Seq(Cell)]
        BY <1>4 DEF TypeOK
      <4>2. kids' = [kids EXCEPT ![f.box] = <<>>]
        BY <1>3, <2>1
      <4> QED
        BY <1>13, <3>4, <4>1, <4>2
    <3>6. Free(Trees(S))
      BY <1>3, <2>1, <3>4, <3>5 DEF Free
    <3>7. lent \in Cell => lent \in Roots \ S
      BY <1>15, LentHeld
    <3>8. DestroyFault([h \in {"case"} |-> f.box]) = {}
      <4>1. Tree(f.box) \subseteq live
        BY <1>14, <2>1, <3>2
      <4> QED
        BY <4>1, OneDestroy
    <3>9. fault' = {}
      BY <1>3, <1>4, <2>1, <3>8
    <3>10. lent' = lent
      BY <1>3
    <3> QED
      BY <1>4, <1>15, <3>6, <3>7, <3>9, <3>10, FreeStep
  <2>2. CASE ~f.byValue
    <3>1. UNCHANGED <<live, kids, fault, lent>> /\ Roots \ S = Roots
      BY <1>3, <1>12, <2>2
    <3>2. Payloads' = Payloads /\ Shaped' /\ LentOK' /\ Borrowed' = Borrowed
      BY <1>4, <3>1 DEF Payloads, Shaped, LentOK, Borrowed
    <3>3. kids \in [Cell -> Seq(Cell)]
      BY <1>4 DEF TypeOK
    <3> QED
      BY <1>4, <3>1, <3>2, <3>3
  <2> QED
    BY <2>1, <2>2
<1>17. OneHolder'
  <2>1. \A c \in Cell :
        /\ \A n, m \in VarsOf(c) : n = m
        /\ \A i, j \in 1 .. d : \A n \in HiddenOf(i, c) : \A m \in HiddenOf(j, c) : i = j /\ n = m
        /\ \A i, j \in CasesOf(c) : i = j
        /\ VarsOf(c) # {} => /\ \A i \in 1 .. d : HiddenOf(i, c) = {}
                             /\ CasesOf(c) = {}
        /\ c \in {lent, returned} => /\ VarsOf(c) = {} /\ CasesOf(c) = {}
                                     /\ \A i \in 1 .. d : HiddenOf(i, c) = {}
        /\ CasesOf(c) # {} => \A i \in 1 .. d : HiddenOf(i, c) = {}
    BY <1>4, <1>5 DEF OneHolder
  <2>2. \A i \in 1 .. d - 1 : i \in 1 .. d
    BY <1>5
  <2>3. ASSUME NEW c \in Cell
        PROVE  /\ \A n, m \in VarsOf(c) : n = m
               /\ \A i, j \in 1 .. d - 1 : \A n \in HiddenOf(i, c) : \A m \in HiddenOf(j, c) : i = j /\ n = m
               /\ \A i, j \in CasesOf(c)' : i = j
               /\ VarsOf(c) # {} => /\ \A i \in 1 .. d - 1 : HiddenOf(i, c) = {}
                                    /\ CasesOf(c)' = {}
               /\ c \in {lent, returned} => /\ VarsOf(c) = {} /\ CasesOf(c)' = {}
                                            /\ \A i \in 1 .. d - 1 : HiddenOf(i, c) = {}
               /\ CasesOf(c)' # {} => \A i \in 1 .. d - 1 : HiddenOf(i, c) = {}
    <3>1. \A i : i \in CasesOf(c)' => i \in CasesOf(c)
      BY <1>11
    <3> QED
      BY <2>1, <2>2, <3>1
  <2> QED
    BY <1>3, <1>5, <1>9, <1>10, <2>3 DEF OneHolder
<1>18. Roots' = Roots \ S
  <2>1. Roots' = {c \in Cell : \/ VarsOf(c) # {}
                               \/ \E i \in 1 .. d - 1 : HiddenOf(i, c) # {}
                               \/ CasesOf(c)' # {}
                               \/ c \in {lent, returned}}
    BY <1>3, <1>5, <1>9, <1>10 DEF Roots
  <2>2. \A c \in Cell : c \in Roots' <=> c \in Roots \ S
    <3> TAKE c \in Cell
    <3>1. (\E i \in 1 .. d - 1 : HiddenOf(i, c) # {}) <=> (\E i \in 1 .. d : HiddenOf(i, c) # {})
      <4>1. \A i \in 1 .. d : i \in 1 .. d - 1 \/ i = d
        BY <1>5
      <4>2. \A i \in 1 .. d - 1 : i \in 1 .. d
        BY <1>5
      <4> QED
        BY <1>4, <4>1, <4>2
    <3>2. c \in Roots <=> \/ VarsOf(c) # {}
                          \/ \E i \in 1 .. d : HiddenOf(i, c) # {}
                          \/ CasesOf(c) # {}
                          \/ c \in {lent, returned}
      BY <1>5 DEF Roots
    <3>3. CASE c \in S
      <4>1. c = f.box /\ f.byValue
        BY <1>12, <3>3
      <4>2. CasesOf(c)' = {}
        BY <1>11, <1>14, <4>1
      <4> QED
        BY <1>5, <1>14, <2>1, <3>1, <3>3, <4>1, <4>2
    <3>4. CASE c \notin S
      <4>1. d \notin CasesOf(c)
        BY <1>4, <1>12, <3>4 DEF CasesOf
      <4>2. \A i : i \in CasesOf(c)' <=> i \in CasesOf(c)
        BY <1>11, <4>1
      <4>3. CasesOf(c)' # {} <=> CasesOf(c) # {}
        BY <4>2
      <4> QED
        BY <2>1, <3>1, <3>2, <3>4, <4>3
    <3> QED
      BY <3>3, <3>4
  <2>3. Roots' \subseteq Cell /\ Roots \subseteq Cell
    BY <2>1 DEF Roots
  <2> QED
    BY <2>2, <2>3
<1>19. KeysOnly(state)'
  <2>1. KeysOnly(f.joined)
    BY <1>4 DEF FrameOK
  <2> QED
    BY <1>3, <1>8, <2>1 DEF KeysOnly, Key
<1>20. TypeOK'
  <2>1. state' \in StateMap
    BY <1>19 DEF KeysOnly
  <2> QED
    BY <1>3, <1>4, <1>5, <1>16, <2>1 DEF TypeOK
<1>21. \A i \in 1 .. d - 1 : FrameOK(frames[i])'
  <2> TAKE i \in 1 .. d - 1
  <2>1. /\ i \in 1 .. depth /\ FrameOK(frames[i]) /\ frames[i].taken /\ frames'[i] = frames[i]
        /\ lent' = lent /\ rebound' = rebound /\ Borrowed' = Borrowed
        /\ \A c \in live : kids[c] = <<>> => kids'[c] = <<>>
    BY <1>1, <1>3, <1>4, <1>5, <1>6, <1>16
  <2> QED
    BY <2>1, FrameKept
<1>22. \A i \in 1 .. d - 1 : Nesting(i)'
  <2> TAKE i \in 1 .. d - 1
  <2>1. Nesting(i) /\ frames[i].arm # NoArm /\ frames'[i] = frames[i] /\ rebound' = rebound
    BY <1>3, <1>5, <1>6
  <2>2. AliasesAt(i)' = AliasesAt(i) /\ \A n \in AliasesAt(i) :
           /\ StateAt(i)'[Key(n)] = "Owned" <=> StateAt(i)[Key(n)] = "Owned"
           /\ StateAt(i)'[Key(n)] = "absent" => StateAt(i)[Key(n)] = "absent"
    <3>1. CASE i = d - 1
      <4>1. i = depth' /\ i # depth /\ i + 1 = d
        BY <1>1, <1>5, <3>1
      <4>2. AliasesAt(i)' = aliases /\ AliasesAt(i) = aliases
        BY <1>3, <1>4, <4>1 DEF AliasesAt
      <4>3. StateAt(i)' = Track /\ StateAt(i) = f.entry
        BY <1>4, <1>7, <4>1 DEF StateAt
      <4> QED
        BY <1>4, <4>2, <4>3
    <3>2. CASE i # d - 1
      <4>1. i # depth' /\ i # depth /\ i + 1 \in 1 .. d - 1
        BY <1>1, <1>5, <3>2
      <4>2. AliasesAt(i)' = AliasesAt(i) /\ StateAt(i)' = StateAt(i)
        BY <1>5, <4>1 DEF AliasesAt, StateAt
      <4> QED
        BY <4>2
    <3> QED
      BY <3>1, <3>2
  <2> QED
    BY <2>1, <2>2, NestingKept
<1>23. AliasesAt(0)' = {}
  <2>1. AliasesAt(0) = {}
    BY <1>4 DEF WalkInv
  <2>2. CASE d = 1
    <3>1. 0 = depth' /\ 0 # depth /\ 0 + 1 = d
      BY <1>1, <1>5, <2>2
    <3> QED
      BY <1>3, <1>4, <2>1, <3>1 DEF AliasesAt
  <2>3. CASE d # 1
    <3>1. 0 # depth' /\ 0 # depth /\ 0 + 1 \in 1 .. d - 1
      BY <1>1, <1>5, <2>3
    <3> QED
      BY <1>5, <2>1, <3>1 DEF AliasesAt
  <2> QED
    BY <2>2, <2>3
<1>24. WalkInv'
  <2>1. \A n \in Name \ aliases' : Track'[Key(n)'] = "absent" => slot'[n] = Null
    BY <1>3, <1>4, <1>7, <1>8 DEF WalkInv
  <2>2. \A n \in aliases' : slot'[n] \in Borrowed'
    BY <1>3, <1>4, <1>16 DEF WalkInv
  <2> QED
    BY <1>5, <1>7, <1>19, <1>21, <1>22, <1>23, <2>1, <2>2 DEF WalkInv
<1>25. Heap(live, Payloads, Roots)'
  BY <1>16, <1>18
<1> QED
  BY <1>3, <1>4, <1>16, <1>17, <1>20, <1>24, <1>25 DEF Inv

-----------------------------------------------------------------------------
(* The exit.                                                               *)

(* The function returns a tree or nothing; what the names that are still   *)
(* owners hold is destroyed.                                               *)
LEMMA ExitStep ==
  ASSUME Inv, NEW s, KeysOnly(s), NEW tree, Exit(s, tree),
         \A n \in Name : s[Key(n)] = "Owned" => state[Key(n)] = "Owned",
         \A n \in Name : state[Key(n)] = "Owned" => s[Key(n)] = "Owned" \/ slot[n] = tree,
         tree = Null \/ (tree \in Cell /\ \E x \in VarsOf(tree) : s[Key(x)] # "Owned")
  PROVE  Inv'
<1> DEFINE roots == [x \in OwnedIn(s) |-> slot[x[1]]]
<1>1. /\ AtStmt /\ depth = 0 /\ phase' = "exited" /\ state' = s /\ returned' = tree
      /\ Free(Trees(Range(roots))) /\ fault' = fault \cup DestroyFault(roots)
      /\ UNCHANGED <<bounds, rebound, aliases, frames, slot, lent>>
  BY DEF Exit
<1>2. /\ TypeOK /\ fault = {} /\ OneHolder /\ Heap(live, Payloads, Roots) /\ LentOK /\ Shaped
      /\ KeysOnly(state) /\ slot \in [Name -> Cell \cup {Null}] /\ live \subseteq Cell
      /\ returned = Null /\ WalkInv /\ phase = "walk"
  BY <1>1, StmtFacts DEF Inv
<1>3. aliases = {} /\ frames = <<>> /\ DOMAIN frames = {}
  <2>1. AliasesAt(0) = {}
    BY <1>2 DEF WalkInv
  <2>2. frames = <<>>
    BY <1>1, <1>2, Depth
  <2> QED
    BY <1>1, <2>1, <2>2 DEF AliasesAt
<1>4. \A c : \A n : n \in VarsOf(c) <=> n \in Name /\ state[Key(n)] = "Owned" /\ slot[n] = c
  BY <1>1, <1>3, VarsAtStmt
<1>5. \A x \in OwnedIn(s) : x[1] \in Name /\ x = Key(x[1]) /\ s[x] = "Owned"
  BY DEF OwnedIn, KeysOnly, Decl
<1>6. \A n \in Name : s[Key(n)] = "Owned" => Key(n) \in OwnedIn(s) /\ Key(n)[1] = n
  BY Keys DEF OwnedIn
<1>7. DOMAIN roots = OwnedIn(s) /\ \A x \in OwnedIn(s) : roots[x] = slot[x[1]]
  OBVIOUS
<1> HIDE DEF roots
<1>8. \A x \in OwnedIn(s) : x[1] \in VarsOf(roots[x])
  BY <1>4, <1>5, <1>7
<1>9. \A x \in DOMAIN roots : roots[x] \in Roots \/ roots[x] \notin Cell
  BY <1>7, <1>8 DEF Roots
<1>10. \A x, y \in DOMAIN roots : roots[x] = roots[y] /\ roots[x] \in Cell => x = y
  <2> SUFFICES ASSUME NEW x \in OwnedIn(s), NEW y \in OwnedIn(s), roots[x] = roots[y], roots[x] \in Cell
               PROVE  x = y
    BY <1>7
  <2>1. x[1] = y[1]
    BY <1>2, <1>8 DEF OneHolder
  <2>2. x = Key(x[1]) /\ y = Key(y[1])
    BY <1>5
  <2> QED
    BY <2>1, <2>2
<1>11. PICK S : S = Range(roots) \cap Cell
  OBVIOUS
<1>12. DestroyFault(roots) = {} /\ S \in SUBSET Roots /\ Trees(Range(roots)) = Trees(S)
  BY <1>2, <1>9, <1>10, <1>11, ManyDestroyed
<1>13. \A c \in Cell : c \in S <=> \E n \in Name : s[Key(n)] = "Owned" /\ slot[n] = c
  <2> TAKE c \in Cell
  <2>1. c \in S => \E n \in Name : s[Key(n)] = "Owned" /\ slot[n] = c
    BY <1>5, <1>7, <1>11 DEF Range
  <2>2. ASSUME NEW n \in Name, s[Key(n)] = "Owned", slot[n] = c
        PROVE  c \in S
    <3>1. Key(n) \in DOMAIN roots /\ roots[Key(n)] = c
      BY <1>6, <1>7, <2>2
    <3> QED
      BY <1>11, <3>1 DEF Range
  <2> QED
    BY <2>1, <2>2
<1>14. \A c \in S : c # lent
  <2> SUFFICES ASSUME NEW c \in S, c = lent PROVE FALSE
    OBVIOUS
  <2>1. c \in Cell
    BY <1>11
  <2>2. VarsOf(c) # {}
    BY <1>4, <1>13, <2>1
  <2> QED
    BY <1>2, <2>1, <2>2 DEF OneHolder
<1>15. /\ Heap(live', Payloads', Roots \ S)
       /\ live' \subseteq Cell /\ kids' \in [Cell -> Seq(Cell)]
       /\ Shaped' /\ LentOK'
  <2>1. lent \in Cell => lent \in Roots \ S
    BY <1>14, LentHeld
  <2>2. Free(Trees(S)) /\ lent' = lent
    BY <1>1, <1>12
  <2> QED
    BY <1>2, <1>12, <2>1, <2>2, FreeStep
<1>16. fault' = {}
  BY <1>1, <1>2, <1>12
<1>17. /\ \A c : VarsOf(c)' = {}
       /\ \A c : CasesOf(c)' = {}
       /\ DOMAIN frames' = {}
  <2>1. DOMAIN frames' = {}
    BY <1>1, <1>3
  <2> QED
    BY <1>1, <2>1 DEF VarsOf, CasesOf
<1>18. OneHolder'
  BY <1>17 DEF OneHolder
<1>19. Roots' = {c \in Cell : c \in {lent, tree}}
  BY <1>1, <1>17 DEF Roots
<1>20. \A c \in Cell : c \in Roots <=> VarsOf(c) # {} \/ c = lent
  <2>1. \A c : CasesOf(c) = {}
    BY <1>3 DEF CasesOf
  <2>2. \A c \in Cell : c # returned
    BY <1>2, NullAssumption
  <2> QED
    BY <1>3, <2>1, <2>2 DEF Roots
<1>21. \A c \in Cell : c \in Roots' <=> c \in Roots \ S
  <2> TAKE c \in Cell
  <2>1. CASE c = lent
    BY <1>14, <1>19, <1>20, <2>1
  <2>2. CASE c # lent /\ c = tree
    <3>1. PICK x \in VarsOf(tree) : s[Key(x)] # "Owned"
      BY <2>2, NullAssumption
    <3>2. \A n \in VarsOf(c) : n = x
      BY <1>2, <2>2, <3>1 DEF OneHolder
    <3>3. \A n \in Name : s[Key(n)] = "Owned" /\ slot[n] = c => n \in VarsOf(c)
      BY <1>4
    <3>4. c \notin S
      BY <1>13, <3>1, <3>2, <3>3
    <3>5. c \in Roots /\ c \in Roots'
      BY <1>19, <1>20, <2>2, <3>1
    <3> QED
      BY <3>4, <3>5
  <2>3. CASE c # lent /\ c # tree
    <3>1. c \notin Roots'
      BY <1>19, <2>3
    <3>2. c \in Roots => c \in S
      BY <1>4, <1>13, <1>20, <2>3
    <3> QED
      BY <3>1, <3>2
  <2> QED
    BY <2>1, <2>2, <2>3
<1>22. Roots' = Roots \ S
  <2>1. Roots' \subseteq Cell /\ Roots \subseteq Cell
    BY <1>19 DEF Roots
  <2> QED
    BY <1>21, <2>1
<1>23. TypeOK'
  <2>1. s \in StateMap
    BY DEF KeysOnly
  <2> QED
    BY <1>1, <1>2, <1>15, <2>1 DEF TypeOK
<1>24. Heap(live, Payloads, Roots)'
  BY <1>15, <1>22
<1>25. phase' = "exited" /\ frames' = <<>> /\ aliases' = {}
  BY <1>1, <1>3
<1> QED
  BY <1>15, <1>16, <1>18, <1>23, <1>24, <1>25 DEF Inv

LEMMA ReturnVarStep ==
  ASSUME Inv, NEW x \in Name, ReturnVar(x)
  PROVE  Inv'
<1>1. AtStmt /\ Takeable(x) /\ Assigned(x) /\ Exit(MovedOut({x}), slot[x])
  BY DEF ReturnVar, Exit
<1>2. KeysOnly(state)
  BY <1>1, StmtFacts
<1>3. slot[x] \in Cell /\ x \in VarsOf(slot[x])
  BY <1>1, OwnerIs
<1>4. /\ KeysOnly(MovedOut({x}))
      /\ \A n \in Name : MovedOut({x})[Key(n)] = IF n \in {x} THEN "Moved" ELSE state[Key(n)]
  BY <1>2, Moved
<1>5. PICK s : s = MovedOut({x})
  OBVIOUS
<1>6. PICK tree : tree = slot[x]
  OBVIOUS
<1>7. /\ KeysOnly(s) /\ Exit(s, tree)
      /\ \A n \in Name : s[Key(n)] = "Owned" => state[Key(n)] = "Owned"
      /\ \A n \in Name : state[Key(n)] = "Owned" => s[Key(n)] = "Owned" \/ slot[n] = tree
      /\ tree \in Cell /\ x \in VarsOf(tree) /\ s[Key(x)] # "Owned"
  BY <1>1, <1>3, <1>4, <1>5, <1>6
<1> QED
  BY <1>7, ExitStep

LEMMA ReturnCopyStep ==
  ASSUME Inv, ReturnCopy
  PROVE  Inv'
<1>1. AtStmt /\ Exit(state, Null)
  BY DEF ReturnCopy, Exit
<1>2. KeysOnly(state)
  BY <1>1, StmtFacts
<1>3. PICK s : s = state
  OBVIOUS
<1>4. KeysOnly(s) /\ Exit(s, Null) /\ \A n \in Name : s[Key(n)] = state[Key(n)]
  BY <1>1, <1>2, <1>3
<1> QED
  BY <1>4, ExitStep

-----------------------------------------------------------------------------
(* A rejected program has no run: an empty heap.                           *)

LEMMA EmptyHeap == Heap({}, [c \in Cell |-> {}], {})
<1> DEFINE M == [c \in Cell |-> {}]
           f == [d \in Cell |-> {d}]
<1>1. \A d \in Cell : M[d] = {} /\ f[d] = {d}
  OBVIOUS
<1>2. \A d \in Cell : {d} \cup UNION {f[k] : k \in M[d]} = {d}
  BY <1>1
<1>3. f = [d \in Cell |-> {d} \cup UNION {f[k] : k \in M[d]}]
  BY <1>2
<1>4. Solves(M, f)
  BY <1>3 DEF Solves
<1> HIDE DEF M, f
<1>5. Grounded(M) /\ Rooted(M)
  BY <1>1 DEF Grounded, Rooted
<1> QED
  BY <1>1, <1>4, <1>5 DEF Heap, M

LEMMA RejectStep ==
  ASSUME Inv, Reject
  PROVE  Inv'
<1>1. /\ phase' = "rejected" /\ state' = NoEntries /\ aliases' = {} /\ frames' = <<>>
      /\ live' = {} /\ kids' = [c \in Cell |-> <<>>] /\ slot' = [n \in Name |-> Null]
      /\ lent' = Null /\ fault' = {} /\ returned' = Null
      /\ UNCHANGED <<bounds, rebound>>
  BY DEF Reject
<1>2. TypeOK
  BY DEF Inv
<1>3. TypeOK'
  <2>1. kids' \in [Cell -> Seq(Cell)] /\ frames' \in Seq(FrameType)
    BY <1>1
  <2>2. state' \in StateMap
    BY <1>1 DEF StateMap, NoEntries, Mark
  <2> QED
    BY <1>1, <1>2, <2>1, <2>2 DEF TypeOK
<1>4. Payloads' = [c \in Cell |-> {}]
  BY <1>1, PairRange DEF Payloads
<1>5. /\ DOMAIN frames' = {}
      /\ \A c : VarsOf(c)' = {}
      /\ \A c : CasesOf(c)' = {}
  <2>1. DOMAIN frames' = {}
    BY <1>1
  <2> QED
    BY <1>1, <2>1 DEF VarsOf, CasesOf
<1>6. OneHolder' /\ Roots' = {}
  <2>1. \A c \in Cell : c \notin {lent', returned'}
    BY <1>1, NullAssumption
  <2> QED
    BY <1>5, <2>1 DEF OneHolder, Roots
<1>7. Shaped' /\ LentOK'
  BY <1>1 DEF Shaped, LentOK
<1>8. Heap(live, Payloads, Roots)'
  BY <1>1, <1>4, <1>6, EmptyHeap
<1> QED
  BY <1>1, <1>3, <1>6, <1>7, <1>8 DEF Inv

-----------------------------------------------------------------------------
(* The start: leaves for the formals, and a node that is lent.             *)

(* Boxes 1 .. k + m, of which the last m are leaves of their own and the   *)
(* first three, if k is 3, a node.                                         *)
LEMMA FirstHeap ==
  ASSUME NEW borrows \in BOOLEAN, NEW k, k = (IF borrows THEN 3 ELSE 0), NEW m \in Nat,
         1 .. k + m \subseteq Cell, NEW M,
         M = [c \in Cell |-> IF borrows /\ c = 1 THEN {2, 3} ELSE {}]
  PROVE  Heap(1 .. k + m, M, (k + 1 .. k + m) \cup (IF borrows THEN {1} ELSE {}))
<1>1. PICK L : L = 1 .. k + m
  OBVIOUS
<1>2. PICK R : R = (k + 1 .. k + m) \cup (IF borrows THEN {1} ELSE {})
  OBVIOUS
<1>3. borrows => 1 \in L /\ 2 \in L /\ 3 \in L /\ 1 \in R /\ 2 \notin R /\ 3 \notin R
  BY <1>1, <1>2
<1>4. L \subseteq Cell /\ R \subseteq L
  BY <1>1, <1>2
<1>5. \A c \in L \ R : borrows /\ c \in {2, 3}
  BY <1>1, <1>2
<1>6. \A c \in Cell : M[c] = IF borrows /\ c = 1 THEN {2, 3} ELSE {}
  OBVIOUS
<1>7. M \in [Cell -> SUBSET Cell]
  <2>1. \A c \in Cell : M[c] \in SUBSET Cell
    BY <1>3, <1>4, <1>6
  <2> QED
    BY <2>1
<1>8. \A d \in Cell : M[d] \subseteq L \ R
  BY <1>3, <1>6
<1>9. \A d \in Cell \ L : M[d] = {}
  BY <1>3, <1>6
<1>10. \A d, e \in Cell : M[d] \cap M[e] # {} => d = e
  BY <1>6
<1>11. \A c \in L \ R : \E d \in L : c \in M[d]
  BY <1>3, <1>4, <1>5, <1>6
<1>12. Grounded(M)
  <2> SUFFICES ASSUME NEW C \in SUBSET Cell, C # {} PROVE \E d \in C : M[d] \cap C = {}
    BY DEF Grounded
  <2>1. CASE \E d \in C : d # 1
    BY <1>6, <2>1
  <2>2. CASE \A d \in C : d = 1
    <3>1. 1 \in C /\ 2 \notin C /\ 3 \notin C
      BY <2>2
    <3> QED
      BY <1>6, <3>1
  <2> QED
    BY <2>1, <2>2
<1>13. Rooted(M)
  <2> SUFFICES ASSUME NEW C \in SUBSET Cell, C # {} PROVE \E d \in C : \A p \in C : d \notin M[p]
    BY DEF Rooted
  <2>1. CASE borrows /\ 1 \in C
    BY <1>6, <2>1
  <2>2. CASE ~(borrows /\ 1 \in C)
    <3>1. \A p \in C : M[p] = {}
      BY <1>6, <2>2
    <3> QED
      BY <3>1
  <2> QED
    BY <2>1, <2>2
<1>14. \E f : Solves(M, f)
  <2> DEFINE f == [d \in Cell |-> IF borrows /\ d = 1 THEN {1, 2, 3} ELSE {d}]
  <2>1. \A d \in Cell : f[d] = IF borrows /\ d = 1 THEN {1, 2, 3} ELSE {d}
    OBVIOUS
  <2>2. \A d \in Cell : f[d] = {d} \cup UNION {f[j] : j \in M[d]}
    <3> TAKE d \in Cell
    <3> HIDE DEF f
    <3>1. CASE borrows /\ d = 1
      <4>1. f[2] = {2} /\ f[3] = {3}
        BY <1>3, <1>4, <2>1, <3>1
      <4>2. M[d] = {2, 3} /\ f[d] = {1, 2, 3}
        BY <1>6, <2>1, <3>1
      <4>3. UNION {f[j] : j \in {2, 3}} = {2, 3}
        BY <4>1
      <4> QED
        BY <3>1, <4>2, <4>3
    <3>2. CASE ~(borrows /\ d = 1)
      BY <1>6, <2>1, <3>2
    <3> QED
      BY <3>1, <3>2
  <2>3. f = [d \in Cell |-> f[d]]
    OBVIOUS
  <2> HIDE DEF f
  <2>4. Solves(M, f)
    BY <2>2, <2>3 DEF Solves
  <2> QED
    BY <2>4
<1> QED
  BY <1>1, <1>2, <1>4, <1>7, <1>8, <1>9, <1>10, <1>11, <1>12, <1>13, <1>14 DEF Heap

LEMMA InitInv ==
  ASSUME ~RebindFormals, Init
  PROVE  Inv
<1>1. PICK b \in Bounds, formals \in SUBSET Name :
        LET k == IF b.borrows THEN 3 ELSE 0
        IN  /\ bounds = b
            /\ k + Cardinality(formals) <= b.boxes
            /\ phase = "walk"
            /\ RebindFormals \/ owed = {}
            /\ rebound = (Name \ formals) \cup owed
            /\ aliases = {} /\ frames = <<>>
            /\ lent = IF b.borrows THEN 1 ELSE Null
            /\ kids = [c \in Cell |-> IF c = lent THEN <<2, 3>> ELSE <<>>]
            /\ \E leaf \in Bijection(formals, k+1 .. k+Cardinality(formals)) :
                 slot = [n \in Name |-> IF n \in formals THEN leaf[n] ELSE Null]
            /\ live = 1 .. k+Cardinality(formals)
            /\ state = [d \in Decl |-> IF d[1] \in formals /\ d[2] = "own" THEN "Owned" ELSE "absent"]
            /\ fault = {} /\ returned = Null
  BY DEF Init
<1>2. PICK k : k = IF b.borrows THEN 3 ELSE 0
  OBVIOUS
<1>3. PICK m : m = Cardinality(formals)
  OBVIOUS
<1>4. /\ bounds = b /\ k + m <= b.boxes /\ phase = "walk" /\ rebound = Name \ formals
      /\ aliases = {} /\ frames = <<>> /\ lent = IF b.borrows THEN 1 ELSE Null
      /\ kids = [c \in Cell |-> IF c = lent THEN <<2, 3>> ELSE <<>>]
      /\ live = 1 .. k + m
      /\ state = [d \in Decl |-> IF d[1] \in formals /\ d[2] = "own" THEN "Owned" ELSE "absent"]
      /\ fault = {} /\ returned = Null
      /\ \E leaf \in Bijection(formals, k+1 .. k+m) :
           slot = [n \in Name |-> IF n \in formals THEN leaf[n] ELSE Null]
  BY <1>1, <1>2, <1>3
<1>5. PICK leaf \in Bijection(formals, k+1 .. k+m) :
        slot = [n \in Name |-> IF n \in formals THEN leaf[n] ELSE Null]
  BY <1>4
<1>6. m \in Nat
  <2>1. IsFiniteSet(formals)
    BY NameAssumption, FS_Subset
  <2> QED
    BY <1>3, <2>1, FS_CardinalityType
<1>7. b.boxes \in Nat /\ b.borrows \in BOOLEAN /\ 1 .. b.boxes \subseteq Cell
  BY BoundsAssumption
<1>8. 1 .. k + m \subseteq Cell /\ k \in Nat /\ (b.borrows => k = 3) /\ (~b.borrows => k = 0)
  <2>1. k \in Nat /\ (b.borrows => k = 3) /\ (~b.borrows => k = 0)
    BY <1>2
  <2>2. 1 .. k + m \subseteq 1 .. b.boxes
    BY <1>4, <1>6, <1>7, <2>1
  <2> QED
    BY <1>7, <2>1, <2>2
<1>9. /\ \A n \in formals : leaf[n] \in k+1 .. k+m
      /\ \A n, o \in formals : leaf[n] = leaf[o] => n = o
      /\ \A c \in k+1 .. k+m : \E n \in formals : leaf[n] = c
  BY DEF Bijection, Injection, Surjection, IsInjective
<1>10. \A n \in Name : slot[n] = IF n \in formals THEN leaf[n] ELSE Null
  BY <1>5
<1>11. \A c \in k+1 .. k+m : c \in Cell /\ c # lent /\ c # Null
  BY <1>4, <1>6, <1>8, NullAssumption
<1>12. b.borrows => {1, 2, 3} \subseteq Cell /\ lent = 1 /\ lent # Null
  BY <1>4, <1>6, <1>8, NullAssumption
<1>13. ~b.borrows => lent = Null
  BY <1>4
<1>14. \A n \in Name : Key(n) = IF n \in formals THEN <<n, "own">> ELSE <<n, "arm">>
  BY <1>4 DEF Key
<1>15. KeysOnly(state) /\ \A n \in Name : state[Key(n)] = IF n \in formals THEN "Owned" ELSE "absent"
  <2>1. state \in StateMap
    BY <1>4 DEF StateMap, Mark
  <2>2. \A x \in Decl : state[x] = IF x[1] \in formals /\ x[2] = "own" THEN "Owned" ELSE "absent"
    BY <1>4
  <2>3. \A x \in Decl : x = <<x[1], x[2]>>
    BY DEF Decl
  <2>4. \A x \in Decl : state[x] = "Owned" => x = Key(x[1])
    BY <1>14, <2>2, <2>3
  <2>5. \A n \in Name : state[Key(n)] = IF n \in formals THEN "Owned" ELSE "absent"
    BY <1>14, <2>2, Keys
  <2> QED
    BY <2>1, <2>4, <2>5 DEF KeysOnly
<1>16. depth = 0 /\ DOMAIN frames = {}
  BY <1>4 DEF depth
<1>17. ~BetweenArms /\ Track = state
  BY <1>16 DEF BetweenArms, Track
<1>18. \A c : \A n : n \in VarsOf(c) <=> n \in formals /\ leaf[n] = c
  BY <1>4, <1>10, <1>15, <1>17 DEF VarsOf
<1>19. /\ \A c : CasesOf(c) = {}
       /\ \A c \in Cell : c # returned
  BY <1>4, <1>16, NullAssumption DEF CasesOf
<1>20. OneHolder
  <2>1. \A c \in Cell : \A n, o \in VarsOf(c) : n = o
    BY <1>9, <1>18
  <2>2. \A c \in Cell : c \in {lent, returned} => VarsOf(c) = {}
    BY <1>9, <1>11, <1>18, <1>19
  <2> QED
    BY <1>16, <1>19, <2>1, <2>2 DEF OneHolder
<1>21. Roots = (k + 1 .. k + m) \cup (IF b.borrows THEN {1} ELSE {})
  <2>1. \A c \in Cell : VarsOf(c) # {} <=> c \in k + 1 .. k + m
    <3> TAKE c \in Cell
    <3>1. VarsOf(c) # {} <=> \E n \in formals : leaf[n] = c
      BY <1>18
    <3> QED
      BY <1>9, <3>1
  <2>2. Roots = {c \in Cell : c \in k + 1 .. k + m \/ c = lent}
    BY <1>16, <1>19, <2>1 DEF Roots
  <2>3. \A c \in Cell : c = lent <=> b.borrows /\ c = 1
    BY <1>12, <1>13, NullAssumption
  <2>4. \A c \in k + 1 .. k + m : c \in Cell
    BY <1>11
  <2>5. b.borrows => 1 \in Cell
    BY <1>12
  <2> QED
    BY <2>2, <2>3, <2>4, <2>5
<1>22. \A c \in Cell : kids[c] = IF b.borrows /\ c = 1 THEN <<2, 3>> ELSE <<>>
  <2>1. \A c \in Cell : c = lent <=> b.borrows /\ c = 1
    BY <1>12, <1>13, NullAssumption
  <2> QED
    BY <1>4, <2>1
<1>23. Payloads = [c \in Cell |-> IF b.borrows /\ c = 1 THEN {2, 3} ELSE {}]
  <2>1. \A c \in Cell : Range(kids[c]) = IF b.borrows /\ c = 1 THEN {2, 3} ELSE {}
    <3>1. Range(<<>>) = {} /\ Range(<<2, 3>>) = {2, 3}
      BY PairRange
    <3> TAKE c \in Cell
    <3>2. kids[c] = IF b.borrows /\ c = 1 THEN <<2, 3>> ELSE <<>>
      BY <1>22
    <3> QED
      BY <3>1, <3>2
  <2> QED
    BY <2>1 DEF Payloads
<1>24. Heap(live, Payloads, Roots)
  <2>1. Heap(1 .. k + m, Payloads, (k + 1 .. k + m) \cup (IF b.borrows THEN {1} ELSE {}))
    BY <1>2, <1>6, <1>7, <1>8, <1>23, FirstHeap
  <2> QED
    BY <1>4, <1>21, <2>1
<1>25. Shaped /\ LentOK
  <2>1. Shaped
    BY <1>12, <1>22 DEF Shaped
  <2>2. ASSUME lent # Null
        PROVE  /\ 2 \in Cell /\ 3 \in Cell /\ kids[lent] = <<2, 3>> /\ 2 # 3 /\ lent \notin {2, 3}
               /\ kids[2] = <<>> /\ kids[3] = <<>>
    BY <1>7, <1>12, <1>13, <1>22, <2>2
  <2> QED
    BY <2>1, <2>2 DEF LentOK
<1>26. TypeOK
  <2>1. slot \in [Name -> Cell \cup {Null}]
    <3>1. \A n \in Name : slot[n] \in Cell \cup {Null}
      BY <1>9, <1>10, <1>11
    <3> QED
      BY <1>5, <3>1
  <2>2. kids \in [Cell -> Seq(Cell)]
    <3>1. \A c \in Cell : kids[c] \in Seq(Cell)
      <4> TAKE c \in Cell
      <4>1. CASE b.borrows /\ c = 1
        <5>1. 2 \in Cell /\ 3 \in Cell
          BY <1>12, <4>1
        <5>2. <<2, 3>> \in Seq(Cell)
          BY <5>1
        <5> QED
          BY <1>22, <4>1, <5>2
      <4>2. CASE ~(b.borrows /\ c = 1)
        <5>1. kids[c] = <<>>
          BY <1>22, <4>2
        <5>2. <<>> \in Seq(Cell)
          OBVIOUS
        <5> QED
          BY <5>1, <5>2
      <4> QED
        BY <4>1, <4>2
    <3> QED
      BY <1>4, <3>1
  <2>3. lent \in Cell \cup {Null} /\ live \subseteq Cell /\ frames \in Seq(FrameType)
    BY <1>4, <1>7, <1>8, <1>12
  <2> QED
    BY <1>4, <1>15, <2>1, <2>2, <2>3 DEF TypeOK, KeysOnly
<1>27. WalkInv
  <2>1. AliasesAt(0) = {}
    BY <1>4, <1>16 DEF AliasesAt
  <2>2. \A n \in Name \ aliases : Track[Key(n)] = "absent" => slot[n] = Null
    BY <1>10, <1>15, <1>17
  <2>3. 1 .. depth = {}
    BY <1>16
  <2> QED
    BY <1>4, <1>15, <1>17, <2>1, <2>2, <2>3 DEF WalkInv
<1> QED
  BY <1>4, <1>20, <1>24, <1>25, <1>26, <1>27 DEF Inv

(* What the invariant speaks about is all in vars.                         *)
LEMMA Unchanged ==
  ASSUME Inv, UNCHANGED vars
  PROVE  Inv'
<1>1. UNCHANGED <<bounds, phase, rebound, state, aliases, frames, live, kids, slot, lent, fault, returned>>
  BY DEF vars, walkVars, runVars
<1>2. depth' = depth /\ inner' = inner /\ (BetweenArms' <=> BetweenArms)
  BY <1>1 DEF depth, inner, BetweenArms
<1>3. Track' = Track /\ Payloads' = Payloads /\ Borrowed' = Borrowed
  BY <1>1, <1>2 DEF Track, Payloads, Borrowed
<1>4. \A n : Key(n)' = Key(n)
  BY <1>1 DEF Key
<1>5. /\ \A c : VarsOf(c)' = VarsOf(c)
      /\ \A c : CasesOf(c)' = CasesOf(c)
      /\ \A i, c : HiddenOf(i, c)' = HiddenOf(i, c)
  BY <1>1, <1>3, <1>4 DEF VarsOf, CasesOf, HiddenOf
<1>6. OneHolder' /\ Roots' = Roots
  BY <1>1, <1>5 DEF Inv, OneHolder, Roots
<1>7. TypeOK' /\ Shaped' /\ LentOK' /\ (Heap(live, Payloads, Roots))'
  BY <1>1, <1>3, <1>6 DEF Inv, TypeOK, Shaped, LentOK
<1>8. \A t : KeysOnly(t)' <=> KeysOnly(t)
  BY <1>1 DEF KeysOnly, Key
<1>9. phase = "walk" => WalkInv'
  <2> SUFFICES ASSUME WalkInv PROVE WalkInv'
    BY DEF Inv
  <2>1. \A i \in 1 .. depth : FrameOK(frames[i])'
    <3>1. \A arm, c : Matches(arm, c)' <=> Matches(arm, c)
      BY <1>1 DEF Matches, TagOf, At
    <3>2. \A i \in 1 .. depth : FrameOK(frames[i])
      BY DEF WalkInv
    <3> QED
      BY <1>1, <1>3, <1>4, <1>8, <3>1, <3>2 DEF FrameOK
  <2>2. \A i \in 1 .. depth : Nesting(i)'
    <3>1. \A i : AliasesAt(i)' = AliasesAt(i) /\ StateAt(i)' = StateAt(i)
      BY <1>1, <1>2, <1>3 DEF AliasesAt, StateAt
    <3>2. \A i \in 1 .. depth : Nesting(i)
      BY DEF WalkInv
    <3> QED
      BY <1>1, <1>2, <1>4, <3>1, <3>2 DEF Nesting
  <2>3. AliasesAt(0)' = {}
    BY <1>1, <1>2 DEF WalkInv, AliasesAt
  <2>4. /\ \A n \in Name \ aliases' : Track'[Key(n)'] = "absent" => slot'[n] = Null
        /\ \A n \in aliases' : slot'[n] \in Borrowed'
    BY <1>1, <1>3, <1>4 DEF WalkInv
  <2>5. KeysOnly(state)' /\ (BetweenArms' /\ ~inner'.taken => state' = inner'.entry)
    BY <1>1, <1>2, <1>8 DEF WalkInv, KeysOnly, Key
  <2> QED
    BY <1>2, <2>1, <2>2, <2>3, <2>4, <2>5 DEF WalkInv
<1> QED
  BY <1>1, <1>6, <1>7, <1>9 DEF Inv

-----------------------------------------------------------------------------
(* The steps together.                                                     *)

LEMMA NextInv ==
  ASSUME ~DuplicateBinders, Inv, Next, ~CloseUnmatched
  PROVE  Inv'
<1>1. CASE Statement
  <2>1. ASSUME NEW x \in Name, Lend(x) \/ Consume(x) PROVE Inv'
    BY <2>1, LendStep, ConsumeStep
  <2>2. ASSUME NEW x \in Name, NEW tag \in Tag, Bind(x, tag) PROVE Inv'
    BY <2>2, BindStep
  <2>3. ASSUME NEW x \in Name, NEW y \in Name, MoveAssign(x, y) PROVE Inv'
    BY <2>3, MoveAssignStep
  <2>4. ASSUME NEW x \in Name, NEW y \in Name, NEW z \in Name, Construct(x, y, z) PROVE Inv'
    BY <2>4, ConstructStep
  <2> QED
    BY <1>1, <2>1, <2>2, <2>3, <2>4 DEF Statement
<1>2. CASE Match
  <2>1. bounds.patterns \subseteq Arm
    BY BoundsAssumption DEF Inv, TypeOK
  <2>2. ASSUME NEW arm \in bounds.patterns, OpenArm(arm) \/ SkipArm(arm) PROVE Inv'
    BY <2>1, <2>2, OpenArmStep, SkipArmStep
  <2>3. ASSUME NEW x \in Name, CaseVar(x) PROVE Inv'
    BY <2>3, CaseVarStep
  <2>4. ASSUME NEW tag \in Tag, CaseTemp(tag) PROVE Inv'
    BY <2>4, CaseTempStep
  <2> QED
    BY <1>2, <2>2, <2>3, <2>4, CaseLentStep, CloseArmStep, CloseCaseStep DEF Match
<1>3. CASE Return
  <2>1. ASSUME NEW x \in Name, ReturnVar(x) PROVE Inv'
    BY <2>1, ReturnVarStep
  <2> QED
    BY <1>3, <2>1, ReturnCopyStep DEF Return
<1>4. CASE Rejection
  <2>1. Reject
    BY <1>4 DEF Rejection, RejectUseAfterMove, RejectAliasTaken, RejectAssignOverLive,
                RejectJoin, RejectIncomplete, RejectRedundant
  <2> QED
    BY <2>1, RejectStep
<1>5. CASE Done
  <2>1. UNCHANGED vars
    BY <1>5 DEF Done
  <2> QED
    BY <2>1, Unchanged
<1> QED
  BY <1>1, <1>2, <1>3, <1>4, <1>5 DEF Next

-----------------------------------------------------------------------------
(* What the invariant says of the heap.                                    *)

LEMMA HoldersAre ==
  ASSUME Inv, NEW c
  PROVE  \A h : h \in HoldersOf(c) <=>
           \/ \E n \in VarsOf(c) : h = <<"var", n>>
           \/ \E i \in DOMAIN frames : \E n \in HiddenOf(i, c) : h = <<"hidden", <<i, n>>>>
           \/ \E d \in live : c \in Range(kids[d]) /\ h = <<"box", d>>
           \/ \E i \in CasesOf(c) : h = <<"case", i>>
           \/ c \in {lent, returned} /\ h = <<"caller", c>>
<1>1. \A i \in DOMAIN frames : HiddenOf(i, c) \subseteq Name
  <2> TAKE i \in DOMAIN frames
  <2>1. frames[i] \in FrameType
    BY Depth DEF Inv
  <2>2. PICK T \in SUBSET Name : frames[i].saved \in [T -> [ptr : Cell \cup {Null}, mark : Mark]]
    BY <2>1 DEF FrameType
  <2> QED
    BY <2>2 DEF HiddenOf
<1>2. PICK hidden : hidden = {h \in (DOMAIN frames) \X Name : h[2] \in HiddenOf(h[1], c)}
  OBVIOUS
<1>3. PICK boxes : boxes = {d \in live : c \in Range(kids[d])}
  OBVIOUS
<1>4. PICK caller : caller = {lent, returned} \cap {c}
  OBVIOUS
<1>5. \A p : p \in hidden <=> \E i \in DOMAIN frames : \E n \in HiddenOf(i, c) : p = <<i, n>>
  <2>1. \A p \in hidden : \E i \in DOMAIN frames : \E n \in HiddenOf(i, c) : p = <<i, n>>
    BY <1>2
  <2>2. ASSUME NEW i \in DOMAIN frames, NEW n \in HiddenOf(i, c)
        PROVE  <<i, n>> \in hidden
    <3>1. <<i, n>> \in (DOMAIN frames) \X Name /\ <<i, n>>[1] = i /\ <<i, n>>[2] = n
      BY <1>1
    <3> QED
      BY <1>2, <3>1
  <2> QED
    BY <2>1, <2>2
<1>6. \A h : h \in HoldersOf(c) <=>
        h \in ({"var"} \X VarsOf(c)) \cup ({"hidden"} \X hidden) \cup ({"case"} \X CasesOf(c))
                \cup ({"box"} \X boxes) \cup ({"caller"} \X caller)
  BY <1>2, <1>3, <1>4 DEF HoldersOf
<1>7. \A k, S : \A h : h \in {k} \X S <=> \E s \in S : h = <<k, s>>
  OBVIOUS
<1>8. \A h : h \in HoldersOf(c) <=>
        \/ \E n \in VarsOf(c) : h = <<"var", n>>
        \/ \E p \in hidden : h = <<"hidden", p>>
        \/ \E i \in CasesOf(c) : h = <<"case", i>>
        \/ \E d \in boxes : h = <<"box", d>>
        \/ \E x \in caller : h = <<"caller", x>>
  BY <1>6, <1>7
<1> TAKE h
<1>9. (\E p \in hidden : h = <<"hidden", p>>)
        <=> \E i \in DOMAIN frames : \E n \in HiddenOf(i, c) : h = <<"hidden", <<i, n>>>>
  <2>1. (\E p \in hidden : h = <<"hidden", p>>)
          <=> \E p : h = <<"hidden", p>> /\ \E i \in DOMAIN frames : \E n \in HiddenOf(i, c) : p = <<i, n>>
    BY <1>5
  <2> QED
    BY <2>1
<1>10. (\E d \in boxes : h = <<"box", d>>) <=> \E d \in live : c \in Range(kids[d]) /\ h = <<"box", d>>
  BY <1>3
<1>11. (\E x \in caller : h = <<"caller", x>>) <=> c \in {lent, returned} /\ h = <<"caller", c>>
  BY <1>4
<1> QED
  BY <1>8, <1>9, <1>10, <1>11

LEMMA OneOrNone ==
  ASSUME Inv
  PROVE  SoleHolder
<1> SUFFICES ASSUME NEW c \in Cell
             PROVE  Cardinality(HoldersOf(c)) = IF c \in live THEN 1 ELSE 0
  BY DEF SoleHolder
<1>1. /\ OneHolder /\ Roots \subseteq live
      /\ \A d \in Cell : Payloads[d] \subseteq live \ Roots
      /\ \A d, e \in Cell : Payloads[d] \cap Payloads[e] # {} => d = e
      /\ \A b \in live \ Roots : \E d \in live : b \in Payloads[d]
      /\ live \subseteq Cell
  BY DEF Inv, Heap
<1>2. \A d \in live : c \in Range(kids[d]) <=> c \in Payloads[d]
  BY <1>1 DEF Payloads
<1>3. c \in Roots <=> \/ VarsOf(c) # {}
                      \/ \E i \in DOMAIN frames : HiddenOf(i, c) # {}
                      \/ CasesOf(c) # {}
                      \/ c \in {lent, returned}
  BY DEF Roots
<1>4. \A h : h \in HoldersOf(c) <=>
        \/ \E n \in VarsOf(c) : h = <<"var", n>>
        \/ \E i \in DOMAIN frames : \E n \in HiddenOf(i, c) : h = <<"hidden", <<i, n>>>>
        \/ \E d \in live : c \in Payloads[d] /\ h = <<"box", d>>
        \/ \E i \in CasesOf(c) : h = <<"case", i>>
        \/ c \in {lent, returned} /\ h = <<"caller", c>>
  BY <1>2, HoldersAre
<1>5. /\ \A n, m \in VarsOf(c) : n = m
      /\ \A i, j \in DOMAIN frames : \A n \in HiddenOf(i, c) : \A m \in HiddenOf(j, c) : i = j /\ n = m
      /\ \A i, j \in CasesOf(c) : i = j
      /\ VarsOf(c) # {} => /\ \A i \in DOMAIN frames : HiddenOf(i, c) = {}
                           /\ CasesOf(c) = {}
      /\ c \in {lent, returned} => /\ VarsOf(c) = {} /\ CasesOf(c) = {}
                                   /\ \A i \in DOMAIN frames : HiddenOf(i, c) = {}
      /\ CasesOf(c) # {} => \A i \in DOMAIN frames : HiddenOf(i, c) = {}
  BY <1>1 DEF OneHolder
<1>6. CASE c \in Roots
  <2>1. c \in live /\ \A d \in live : c \notin Payloads[d]
    BY <1>1, <1>6
  <2>2. CASE VarsOf(c) # {}
    <3>1. PICK n \in VarsOf(c) : \A m \in VarsOf(c) : m = n
      BY <1>5, <2>2
    <3>2. \A g : g \in HoldersOf(c) <=> g = <<"var", n>>
      BY <1>4, <1>5, <2>1, <3>1
    <3>3. HoldersOf(c) = {<<"var", n>>}
      BY <3>2
    <3> QED
      BY <2>1, <3>3, FS_Singleton
  <2>3. CASE \E i \in DOMAIN frames : HiddenOf(i, c) # {}
    <3>0. PICK i \in DOMAIN frames : HiddenOf(i, c) # {}
      BY <2>3
    <3>1. PICK n \in HiddenOf(i, c) : \A j \in DOMAIN frames : \A m \in HiddenOf(j, c) : j = i /\ m = n
      BY <1>5, <3>0
    <3>2. VarsOf(c) = {} /\ CasesOf(c) = {} /\ c \notin {lent, returned}
      BY <1>5, <3>1
    <3>3. \A g : g \in HoldersOf(c) <=> g = <<"hidden", <<i, n>>>>
      BY <1>4, <2>1, <3>1, <3>2
    <3>4. HoldersOf(c) = {<<"hidden", <<i, n>>>>}
      BY <3>3
    <3> QED
      BY <2>1, <3>4, FS_Singleton
  <2>4. CASE CasesOf(c) # {}
    <3>1. PICK i \in CasesOf(c) : \A j \in CasesOf(c) : j = i
      BY <1>5, <2>4
    <3>2. VarsOf(c) = {} /\ c \notin {lent, returned} /\ \A j \in DOMAIN frames : HiddenOf(j, c) = {}
      BY <1>5, <2>4
    <3>3. \A g : g \in HoldersOf(c) <=> g = <<"case", i>>
      BY <1>4, <2>1, <3>1, <3>2
    <3>4. HoldersOf(c) = {<<"case", i>>}
      BY <3>3
    <3> QED
      BY <2>1, <3>4, FS_Singleton
  <2>5. CASE c \in {lent, returned}
    <3>1. VarsOf(c) = {} /\ CasesOf(c) = {} /\ \A j \in DOMAIN frames : HiddenOf(j, c) = {}
      BY <1>5, <2>5
    <3>2. \A g : g \in HoldersOf(c) <=> g = <<"caller", c>>
      BY <1>4, <2>1, <2>5, <3>1
    <3>3. HoldersOf(c) = {<<"caller", c>>}
      BY <3>2
    <3> QED
      BY <2>1, <3>3, FS_Singleton
  <2> QED
    BY <1>3, <1>6, <2>2, <2>3, <2>4, <2>5
<1>7. CASE c \notin Roots
  <2>1. /\ VarsOf(c) = {} /\ CasesOf(c) = {} /\ c \notin {lent, returned}
        /\ \A i \in DOMAIN frames : HiddenOf(i, c) = {}
    BY <1>3, <1>7
  <2>2. \A h : h \in HoldersOf(c) <=> \E d \in live : c \in Payloads[d] /\ h = <<"box", d>>
    BY <1>4, <2>1
  <2>3. CASE c \in live
    <3>1. PICK d \in live : c \in Payloads[d]
      BY <1>1, <1>7, <2>3
    <3>2. \A e \in live : c \in Payloads[e] => e = d
      BY <1>1, <3>1
    <3>3. \A g : g \in HoldersOf(c) <=> g = <<"box", d>>
      BY <2>2, <3>1, <3>2
    <3>4. HoldersOf(c) = {<<"box", d>>}
      BY <3>3
    <3> QED
      BY <2>3, <3>4, FS_Singleton
  <2>4. CASE c \notin live
    <3>1. \A d \in live : c \notin Payloads[d]
      BY <1>1, <2>4
    <3>2. \A g : g \notin HoldersOf(c)
      BY <2>2, <3>1
    <3>3. HoldersOf(c) = {}
      BY <3>2
    <3> QED
      BY <2>4, <3>3, FS_EmptySet
  <2> QED
    BY <2>3, <2>4
<1> QED
  BY <1>6, <1>7

LEMMA LentWhole ==
  ASSUME Inv
  PROVE  LentIntact
<1> SUFFICES ASSUME lent # Null
             PROVE  Cardinality(Tree(lent)) = 3 /\ Tree(lent) \subseteq live
  BY DEF LentIntact
<1>1. PICK l, r \in Cell : /\ kids[lent] = <<l, r>> /\ l # r /\ lent \notin {l, r}
                           /\ kids[l] = <<>> /\ kids[r] = <<>>
  BY DEF Inv, LentOK
<1>2. lent \in Cell /\ lent \in Roots
  BY LentHeld DEF Inv, TypeOK
<1>3. /\ Solves(Payloads, [c \in Cell |-> Tree(c)])
      /\ \A c \in Roots : Tree(c) \subseteq live
  BY TreesOfRoots DEF Inv
<1>4. PICK t : t = [c \in Cell |-> Tree(c)]
  OBVIOUS
<1>5. \A c \in Cell : t[c] = {c} \cup UNION {t[k] : k \in Payloads[c]}
  BY <1>3, <1>4 DEF Solves
<1>6. Payloads[lent] = {l, r} /\ Payloads[l] = {} /\ Payloads[r] = {}
  BY <1>1, <1>2, PairRange DEF Payloads
<1>7. t[l] = {l} /\ t[r] = {r}
  BY <1>5, <1>6
<1>8. UNION {t[k] : k \in {l, r}} = {l, r}
  BY <1>7
<1>9. Tree(lent) = {lent, l, r}
  BY <1>2, <1>4, <1>5, <1>6, <1>8
<1>10. Cardinality({lent, l, r}) = 3
  <2>1. PICK S : S = {r}
    OBVIOUS
  <2>2. IsFiniteSet(S) /\ Cardinality(S) = 1 /\ l \notin S
    BY <1>1, <2>1, FS_Singleton
  <2>3. PICK T : T = S \cup {l}
    OBVIOUS
  <2>4. IsFiniteSet(T) /\ Cardinality(T) = 2 /\ lent \notin T
    <3>1. IsFiniteSet(S) /\ l \notin S
      BY <2>2
    <3>2. IsFiniteSet(S \cup {l}) /\ Cardinality(S \cup {l}) = Cardinality(S) + 1
      BY <3>1, FS_AddElement
    <3>3. IsFiniteSet(T) /\ Cardinality(T) = 2
      BY <2>2, <2>3, <3>2
    <3>4. T = {l, r} /\ lent # l /\ lent # r
      BY <1>1, <2>1, <2>3
    <3>5. lent \notin T
      BY <3>4
    <3> QED
      BY <3>3, <3>5
  <2>5. PICK U : U = T \cup {lent}
    OBVIOUS
  <2>6. Cardinality(U) = 3
    <3>1. IsFiniteSet(T) /\ lent \notin T
      BY <2>4
    <3>2. Cardinality(T \cup {lent}) = Cardinality(T) + 1
      BY <3>1, FS_AddElement
    <3> QED
      BY <2>4, <2>5, <3>2
  <2>7. U = {lent, l, r}
    BY <2>1, <2>3, <2>5
  <2> QED
    BY <2>6, <2>7
<1> QED
  BY <1>2, <1>3, <1>9, <1>10

(* When the emitted code returns, nothing is live but what the caller lent *)
(* and what it gets, but for the payloads that default blocks lost.        *)
LeakFree ==
  phase = "exited" /\ ~unmatched => live = Trees({lent, returned} \cap Cell)

(* The roots are these two then.                                           *)
LEMMA AllFreed ==
  ASSUME Inv, phase = "exited"
  PROVE  live = Trees({lent, returned} \cap Cell)
<1>1. frames = <<>> /\ Heap(live, Payloads, Roots) /\ live \subseteq Cell
  BY DEF Inv, Heap
<1>2. Roots = {lent, returned} \cap Cell
  <2>1. \A c : VarsOf(c) = {} /\ CasesOf(c) = {}
    BY <1>1 DEF VarsOf, CasesOf
  <2> QED
    BY <1>1, <2>1 DEF Roots
<1>3. /\ Solves(Payloads, [c \in Cell |-> Tree(c)])
      /\ Roots \subseteq Cell
  BY <1>1, TreesOfRoots DEF Inv, Roots
<1>4. PICK t : t = [c \in Cell |-> Tree(c)]
  OBVIOUS
<1>5. \A x : x \in live <=> \E r \in Roots : x \in t[r]
  BY <1>1, <1>3, <1>4, NothingUnheld
<1>6. \A r \in Roots : t[r] = Tree(r)
  BY <1>3, <1>4
<1>7. \A x : x \in live <=> x \in Trees(Roots)
  BY <1>5, <1>6 DEF Trees
<1> QED
  BY <1>2, <1>7

-----------------------------------------------------------------------------
(* Runs through a default block.                                           *)

(* unmatched only ever becomes TRUE, when a default block is left.         *)
LEMMA History ==
  ASSUME Next
  PROVE  /\ unmatched => unmatched'
         /\ CloseUnmatched => unmatched'
<1>1. CloseUnmatched => unmatched'
  BY DEF CloseUnmatched
<1>2. ASSUME ~CloseUnmatched
      PROVE  unmatched' = unmatched
  <2>1. CASE Statement
    BY <2>1 DEF Statement, Lend, Consume, Bind, MoveAssign, Construct
  <2>2. CASE Match
    BY <1>2, <2>2 DEF Match, CaseLent, CaseVar, CaseTemp, Case, CloseArm, CloseCase, OpenArm, SkipArm, runVars
  <2>3. CASE Return
    BY <2>3 DEF Return, ReturnCopy, ReturnVar, Exit
  <2>4. CASE Rejection
    <3>1. Reject
      BY <2>4 DEF Rejection, RejectUseAfterMove, RejectAliasTaken, RejectAssignOverLive,
                  RejectJoin, RejectIncomplete, RejectRedundant
    <3> QED
      BY <3>1 DEF Reject
  <2>5. CASE Done
    BY <2>5 DEF Done, vars, runVars
  <2> QED
    BY <2>1, <2>2, <2>3, <2>4, <2>5 DEF Next
<1> QED
  BY <1>1, <1>2

(* Until then the run keeps Inv.                                           *)
MatchedInv == ~unmatched => Inv

LEMMA MatchedStep ==
  ASSUME ~DuplicateBinders, MatchedInv, [Next]_vars
  PROVE  MatchedInv'
<1>1. CASE UNCHANGED vars
  <2>1. unmatched' = unmatched
    BY <1>1 DEF vars, runVars
  <2> QED
    BY <1>1, <2>1, Unchanged DEF MatchedInv
<1>2. CASE Next
  <2>1. SUFFICES ASSUME ~unmatched'
                 PROVE  Inv'
    BY DEF MatchedInv
  <2>2. ~unmatched /\ ~CloseUnmatched
    BY <1>2, <2>1, History
  <2> QED
    BY <1>2, <2>2, NextInv DEF MatchedInv
<1> QED
  BY <1>1, <1>2

-----------------------------------------------------------------------------
(* The theorems: functions whose patterns bind a name once and whose arms  *)
(* leave the names of owned formals alone.                                 *)

(* Through every statement, case, arm and exit of visit(AST...) in         *)
(* MoveAnalysis and the code CodeGenVisitor emits for it, the heap is a    *)
(* forest whose roots are what the declarations MoveAnalysis calls Owned,  *)
(* hidden binders, open matches and the caller hold, each one - unless the *)
(* run has come through a default block.                                   *)
THEOREM Invariant ==
  ASSUME ~DuplicateBinders, ~RebindFormals
  PROVE  Spec => []MatchedInv
<1>1. Init => MatchedInv
  BY InitInv DEF MatchedInv
<1>2. MatchedInv /\ [Next]_vars => MatchedInv'
  BY MatchedStep
<1> QED
  BY <1>1, <1>2, PTL DEF Spec

(* A live box is due to be freed exactly once: by the name MoveAnalysis    *)
(* calls its owner, a binder's hidden owner, the box it is in, the match   *)
(* that took it apart, or the caller; a freed box by nobody.               *)
THEOREM OwnersAreSole ==
  ASSUME ~DuplicateBinders, ~RebindFormals
  PROVE  Spec => []SoleHolder
<1>1. Spec => []MatchedInv
  BY Invariant
<1>2. MatchedInv => SoleHolder
  BY OneOrNone DEF MatchedInv, SoleHolder
<1> QED
  BY <1>1, <1>2, PTL

(* Neither the destroys emitDestroys places at arms and exits nor the      *)
(* frees of a consuming match free a box twice or read a freed one.        *)
THEOREM MatchesAreSafe ==
  ASSUME ~DuplicateBinders, ~RebindFormals
  PROVE  Spec => []MemorySafe
<1>1. Spec => []MatchedInv
  BY Invariant
<1>2. MatchedInv => MemorySafe
  BY DEF MatchedInv, Inv, MemorySafe
<1> QED
  BY <1>1, <1>2, PTL

(* However a function matches on what it borrows and whatever its arms do  *)
(* with the alias binders, the lent tree stays whole and alive.            *)
THEOREM LentStaysIntact ==
  ASSUME ~DuplicateBinders, ~RebindFormals
  PROVE  Spec => []LentIntact
<1>1. Spec => []MatchedInv
  BY Invariant
<1>2. MatchedInv => LentIntact
  BY LentWhole DEF MatchedInv, LentIntact
<1> QED
  BY <1>1, <1>2, PTL

(* When the emitted code returns, nothing is live but the tree the caller  *)
(* lent and the tree it is given: the destroys of the exit, of the arms    *)
(* and of assignments and the frees of matches leave no box behind. Runs   *)
(* that come through a default block are exempt: it frees the box of the   *)
(* value that no arm matched, and what its payloads own is lost.           *)
THEOREM NothingLeaks ==
  ASSUME ~DuplicateBinders, ~RebindFormals
  PROVE  Spec => []LeakFree
<1>1. Spec => []MatchedInv
  BY Invariant
<1>2. MatchedInv => LeakFree
  BY AllFreed DEF MatchedInv, LeakFree
<1> QED
  BY <1>1, <1>2, PTL

(* The first default block of a run is entered for a gap among the nested  *)
(* patterns: where the arms leave none, every value that arrives there,    *)
(* whatever was taken apart or assigned before, matches an arm, and the    *)
(* block is unreachable as emitCaseExpr's comment has it.                  *)
THEOREM DefaultOnlyAtGaps ==
  ASSUME ~DuplicateBinders, ~RebindFormals
  PROVE  Spec => DefaultMeansGap
<1>1. Spec => []MatchedInv
  BY Invariant
<1>2. MatchedInv => (CloseUnmatched /\ ~unmatched => ~NoGap(inner.seen))
  BY DefaultLeavesGap DEF MatchedInv
<1>3. MatchedInv /\ [Next]_vars => [CloseUnmatched /\ ~unmatched => ~NoGap(inner.seen)]_vars
  BY <1>2
<1> QED
  BY <1>1, <1>3, PTL DEF Spec, DefaultMeansGap
=============================================================================
