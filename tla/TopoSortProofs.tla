---------------------------- MODULE TopoSortProofs ----------------------------
(***************************************************************************)
(* Proofs about TopoSort, for every call graph: the invariant of the       *)
(* depth-first search, that it puts out callees first, and that it puts    *)
(* out each function that cannot come to a recursive one once.             *)
(***************************************************************************)
EXTENDS TopoSort, SequenceTheorems, TLAPS

Visit == [fn : Names, left : SUBSET Names]

(* Type correctness.                                                       *)
TypeInv ==
  /\ phase \in {"search", "sort", "stages", "rejected"}
  /\ CallGraph
  /\ reached \in [Names -> SUBSET Names]
  /\ poly \subseteq Names
  /\ unmarked \subseteq Names
  /\ visits \in Seq(Visit)
  /\ sorted \in Seq(Names)

(* A set that no call leads out of.                                        *)
NoWayOut(S) == \A g \in S : callees[g] \subseteq S

(* The searches find nothing that is not called, in the end all of it.     *)
SearchInv ==
  /\ \A f \in Names : callees[f] \subseteq reached[f]
  /\ \A f \in Names : \A S \in SUBSET Names :
       callees[f] \subseteq S /\ NoWayOut(S) => reached[f] \subseteq S
  /\ phase # "search" => \A f \in Names : NoWayOut(reached[f])

PolyInv == IF phase = "search" THEN NoSort ELSE poly = NonRecursive

(* Where a function is in the sort.                                        *)
Visiting == {visits[k].fn : k \in DOMAIN visits}

PartsInv ==
  phase = "sort" =>
    /\ poly = unmarked \cup Visiting \cup ToSet(sorted)
    /\ unmarked \cap Visiting = {}
    /\ unmarked \cap ToSet(sorted) = {}
    /\ Visiting \cap ToSet(sorted) = {}
    /\ \A k, m \in DOMAIN visits : visits[k].fn = visits[m].fn => k = m

(* The visits are a chain of calls, and what a visit has left behind is    *)
(* sorted, up to the function it is visiting.                              *)
ChainInv ==
  \A k, m \in DOMAIN visits : k < m => visits[m].fn \in reached[visits[k].fn]

LeftInv ==
  \A k \in DOMAIN visits :
    /\ visits[k].left \subseteq callees[visits[k].fn]
    /\ \A g \in callees[visits[k].fn] \ visits[k].left :
         g \in ToSet(sorted) \/ (k + 1 \in DOMAIN visits /\ g = visits[k + 1].fn)

Before(s, i) == {s[j] : j \in {j \in DOMAIN s : j < i}}

(* The functions that have been taken from the sorted ones.                *)
Taken == IF phase = "sort" THEN {} ELSE poly \ ToSet(sorted)

OrderInv ==
  /\ \A i, j \in DOMAIN sorted : sorted[i] = sorted[j] => i = j
  /\ \A i \in DOMAIN sorted :
       callees[sorted[i]] \subseteq Taken \cup Before(sorted, i)

EndInv == phase \notin {"search", "sort"} => visits = <<>> /\ ToSet(sorted) \subseteq poly

SortInv ==
  /\ TypeInv /\ SearchInv /\ PolyInv /\ PartsInv
  /\ ChainInv /\ LeftInv /\ OrderInv /\ EndInv

-----------------------------------------------------------------------------
(* Stacks and queues.                                                      *)

(* The last element, and what is before it.                                *)
LEMMA LastFront ==
  ASSUME NEW S, NEW s \in Seq(S), s # <<>>
  PROVE  /\ Len(s) \in Nat \ {0}
         /\ DOMAIN s = 1..Len(s)
         /\ Last(s) = s[Len(s)]
         /\ Last(s) \in S
         /\ Front(s) \in Seq(S)
         /\ Len(Front(s)) = Len(s) - 1
         /\ \A i \in 1..(Len(s) - 1) : Front(s)[i] = s[i]
<1>1. Len(s) \in Nat \ {0} /\ DOMAIN s = 1..Len(s)
  BY EmptySeq, LenProperties
<1>2. Last(s) = s[Len(s)] /\ Last(s) \in S
  BY <1>1, ElementOfSeq DEF Last
<1>3. \A i \in 1..(Len(s) - 1) : s[i] \in S
  BY <1>1, ElementOfSeq
<1>4. Len(s) - 1 \in Int /\ 1 \in Int
  BY <1>1
<1>5. /\ SubSeq(s, 1, Len(s) - 1) \in Seq(S)
      /\ Len(SubSeq(s, 1, Len(s) - 1)) = IF 1 <= Len(s) - 1 THEN (Len(s) - 1) - 1 + 1 ELSE 0
      /\ \A i \in 1..((Len(s) - 1) - 1 + 1) : SubSeq(s, 1, Len(s) - 1)[i] = s[1 + i - 1]
  BY <1>3, <1>4, SubSeqProperties
<1>6. /\ (IF 1 <= Len(s) - 1 THEN (Len(s) - 1) - 1 + 1 ELSE 0) = Len(s) - 1
      /\ (Len(s) - 1) - 1 + 1 = Len(s) - 1
      /\ \A i \in 1..(Len(s) - 1) : 1 + i - 1 = i
  BY <1>1
<1> QED
  BY <1>1, <1>2, <1>5, <1>6, Zenon DEF Front

(* A sequence with one more element.                                       *)
LEMMA Appended ==
  ASSUME NEW S, NEW s \in Seq(S), NEW e \in S
  PROVE  /\ Append(s, e) \in Seq(S)
         /\ Append(s, e) # <<>>
         /\ Len(s) \in Nat
         /\ DOMAIN s = 1..Len(s)
         /\ DOMAIN Append(s, e) = 1..(Len(s) + 1)
         /\ Len(Append(s, e)) = Len(s) + 1
         /\ \A i \in 1..Len(s) : Append(s, e)[i] = s[i]
         /\ Append(s, e)[Len(s) + 1] = e
<1>1. /\ Append(s, e) \in Seq(S)
      /\ Append(s, e) # <<>>
      /\ Len(Append(s, e)) = Len(s) + 1
      /\ \A i \in 1..Len(s) : Append(s, e)[i] = s[i]
      /\ Append(s, e)[Len(s) + 1] = e
  BY AppendProperties
<1>2. Len(s) \in Nat /\ DOMAIN s = 1..Len(s)
  BY LenProperties
<1>3. DOMAIN Append(s, e) = 1..Len(Append(s, e))
  BY <1>1, LenProperties
<1> QED
  BY <1>1, <1>2, <1>3

(* A sequence without its first element.                                   *)
LEMMA TailOf ==
  ASSUME NEW S, NEW s \in Seq(S), s # <<>>
  PROVE  /\ Len(s) \in Nat \ {0}
         /\ DOMAIN s = 1..Len(s)
         /\ Head(s) = s[1]
         /\ Tail(s) \in Seq(S)
         /\ DOMAIN Tail(s) = 1..(Len(s) - 1)
         /\ \A i \in 1..(Len(s) - 1) : Tail(s)[i] = s[i + 1]
<1>1. Len(s) \in Nat \ {0} /\ DOMAIN s = 1..Len(s)
  BY EmptySeq, LenProperties
<1>2. /\ Tail(s) \in Seq(S)
      /\ Len(Tail(s)) = Len(s) - 1
      /\ \A i \in 1..Len(Tail(s)) : Tail(s)[i] = s[i + 1]
  BY HeadTailProperties
<1>3. DOMAIN Tail(s) = 1..Len(Tail(s))
  BY <1>2, LenProperties
<1>4. Head(s) = s[1]
  BY <1>1
<1> QED
  BY <1>1, <1>2, <1>3, <1>4

-----------------------------------------------------------------------------
(* The searches.                                                           *)

(* What is called from what is called.                                     *)
LEMMA ReachedFurther ==
  ASSUME TypeInv, SearchInv, phase # "search",
         NEW f \in Names, NEW g \in reached[f]
  PROVE  g \in Names /\ callees[g] \subseteq reached[f] /\ reached[g] \subseteq reached[f]
<1>1. g \in Names /\ reached[f] \in SUBSET Names
  BY DEF TypeInv
<1>2. NoWayOut(reached[f])
  BY DEF SearchInv
<1>3. callees[g] \subseteq reached[f]
  BY <1>2 DEF NoWayOut
<1>4. reached[g] \subseteq reached[f]
  BY <1>1, <1>2, <1>3 DEF SearchInv
<1> QED
  BY <1>1, <1>3, <1>4

(* Functions that are generalised call only such functions, and are not    *)
(* recursive.                                                              *)
LEMMA PolyClosed ==
  ASSUME TypeInv, SearchInv, PolyInv, phase # "search", NEW f \in poly
  PROVE  /\ f \in Names
         /\ f \notin reached[f]
         /\ callees[f] \subseteq poly
<1>1. DOMAIN callees = Names
  BY DEF TypeInv, CallGraph
<1>2. f \in Names /\ \A r \in Recursive : f # r /\ r \notin reached[f]
  BY <1>1 DEF PolyInv, NonRecursive, MayIndirectlyCall
<1>3. f \notin reached[f]
  BY <1>1, <1>2 DEF Recursive, MayIndirectlyCall
<1>4. ASSUME NEW g \in callees[f] PROVE g \in poly
  <2>1. g \in reached[f]
    BY <1>2 DEF SearchInv
  <2>2. g \in Names /\ reached[g] \subseteq reached[f]
    BY <1>2, <2>1, ReachedFurther
  <2>3. \A r \in Recursive : g # r /\ r \notin reached[g]
    BY <1>2, <2>1, <2>2
  <2>4. g \in NonRecursive
    BY <1>1, <2>2, <2>3 DEF NonRecursive, MayIndirectlyCall
  <2> QED
    BY <2>4 DEF PolyInv
<1> QED
  BY <1>2, <1>3, <1>4

-----------------------------------------------------------------------------
(* The steps.                                                              *)

LEMMA InitInv == SortInit => SortInv
<1> SUFFICES ASSUME SortInit PROVE SortInv
  OBVIOUS
<1> USE DEF SortInit, CallGraph, NoSort
<1>1. <<>> \in Seq(Visit) /\ <<>> \in Seq(Names) /\ DOMAIN <<>> = {}
  BY EmptySeq
<1>2. TypeInv
  BY <1>1 DEF TypeInv
<1>3. SearchInv
  BY DEF SearchInv
<1>4. PolyInv /\ PartsInv /\ EndInv
  BY DEF PolyInv, PartsInv, EndInv
<1>5. ChainInv /\ LeftInv /\ OrderInv
  BY <1>1 DEF ChainInv, LeftInv, OrderInv
<1> QED
  BY <1>2, <1>3, <1>4, <1>5 DEF SortInv

(* A search goes on: what is found is called by what was found.            *)
LEMMA SearchStep == SortInv /\ Search => SortInv'
<1> SUFFICES ASSUME SortInv, Search PROVE SortInv'
  OBVIOUS
<1>1. /\ phase = "search" /\ phase' = "search" /\ reached' = OneFurther
      /\ prog' = prog /\ callees' = callees /\ poly' = poly /\ unmarked' = unmarked
      /\ visits' = visits /\ sorted' = sorted
  BY DEF Search
<1>2. Names' = Names
  BY <1>1 DEF Names
<1>3. /\ callees \in [Names -> SUBSET Names]
      /\ reached \in [Names -> SUBSET Names]
  BY DEF SortInv, TypeInv, CallGraph
<1>4. /\ reached' \in [Names -> SUBSET Names]
      /\ \A f \in Names : reached'[f] = reached[f] \cup UNION {callees[g] : g \in reached[f]}
  BY <1>1, <1>3 DEF OneFurther
<1>5. TypeInv'
  BY <1>1, <1>2, <1>4 DEF SortInv, TypeInv, CallGraph, Visit
<1>6. \A f \in Names : callees[f] \subseteq reached'[f]
  BY <1>4 DEF SortInv, SearchInv
<1>7. ASSUME NEW f \in Names, NEW S \in SUBSET Names,
             callees[f] \subseteq S, NoWayOut(S)
      PROVE  reached'[f] \subseteq S
  <2>1. reached[f] \subseteq S
    BY <1>7 DEF SortInv, SearchInv
  <2> QED
    BY <1>4, <1>7, <2>1 DEF NoWayOut
<1>8. SearchInv'
  BY <1>1, <1>2, <1>6, <1>7 DEF SearchInv, NoWayOut
<1>9. PolyInv' /\ PartsInv' /\ EndInv'
  BY <1>1 DEF SortInv, PolyInv, NoSort, PartsInv, EndInv
<1>10. visits' = <<>> /\ sorted' = <<>> /\ DOMAIN <<>> = {}
  BY <1>1, EmptySeq DEF SortInv, PolyInv, NoSort
<1>11. ChainInv' /\ LeftInv' /\ OrderInv'
  BY <1>10 DEF ChainInv, LeftInv, OrderInv
<1> QED
  BY <1>5, <1>8, <1>9, <1>11 DEF SortInv

(* The searches are over.                                                  *)
LEMMA StartStep == SortInv /\ StartSort => SortInv'
<1> SUFFICES ASSUME SortInv, StartSort PROVE SortInv'
  OBVIOUS
<1>1. /\ phase = "search" /\ phase' = "sort" /\ OneFurther = reached
      /\ poly' = NonRecursive /\ unmarked' = NonRecursive
      /\ prog' = prog /\ callees' = callees /\ reached' = reached
      /\ visits' = visits /\ sorted' = sorted
  BY DEF StartSort
<1>2. Names' = Names
  BY <1>1 DEF Names
<1>3. /\ callees \in [Names -> SUBSET Names]
      /\ reached \in [Names -> SUBSET Names]
  BY DEF SortInv, TypeInv, CallGraph
<1>4. visits' = <<>> /\ sorted' = <<>> /\ DOMAIN <<>> = {}
  BY <1>1, EmptySeq DEF SortInv, PolyInv, NoSort
<1>5. NonRecursive \subseteq Names
  BY <1>3 DEF NonRecursive
<1>6. TypeInv'
  BY <1>1, <1>2, <1>5 DEF SortInv, TypeInv, CallGraph, Visit
<1>7. \A f \in Names : NoWayOut(reached[f])
  <2> SUFFICES ASSUME NEW f \in Names, NEW g \in reached[f]
               PROVE  callees[g] \subseteq reached[f]
    BY DEF NoWayOut
  <2>1. reached[f] = reached[f] \cup UNION {callees[h] : h \in reached[f]}
    BY <1>1, <1>3 DEF OneFurther
  <2> QED
    BY <2>1
<1>8. SearchInv'
  BY <1>1, <1>2, <1>7 DEF SortInv, SearchInv, NoWayOut
<1>9. NonRecursive' = NonRecursive
  BY <1>1 DEF NonRecursive, Recursive, MayIndirectlyCall
<1>10. PolyInv' /\ EndInv'
  BY <1>1, <1>9 DEF PolyInv, EndInv
<1>11. Visiting' = {} /\ ToSet(sorted') = {}
  BY <1>4 DEF Visiting, ToSet
<1>12. PartsInv'
  BY <1>1, <1>4, <1>11 DEF PartsInv
<1>13. ChainInv' /\ LeftInv' /\ OrderInv'
  BY <1>4 DEF ChainInv, LeftInv, OrderInv
<1> QED
  BY <1>6, <1>8, <1>10, <1>12, <1>13 DEF SortInv

(* What a step that leaves the graph and the searches alone keeps.         *)
LEMMA GraphKept ==
  ASSUME SortInv, phase # "search", phase' # "search",
         prog' = prog, callees' = callees, reached' = reached, poly' = poly
  PROVE  /\ Names' = Names
         /\ SearchInv' /\ PolyInv' /\ CallGraph'
         /\ reached' \in [Names -> SUBSET Names]
         /\ poly' \subseteq Names
<1>1. Names' = Names
  BY DEF Names
<1>2. SearchInv'
  BY <1>1 DEF SortInv, SearchInv, NoWayOut
<1>3. NonRecursive' = NonRecursive
  BY DEF NonRecursive, Recursive, MayIndirectlyCall
<1>4. PolyInv'
  BY <1>3 DEF SortInv, PolyInv
<1>5. CallGraph' /\ reached' \in [Names -> SUBSET Names] /\ poly' \subseteq Names
  BY <1>1 DEF SortInv, TypeInv, CallGraph
<1> QED
  BY <1>1, <1>2, <1>4, <1>5

(* All are sorted.                                                         *)
LEMMA EndStep ==
  ASSUME SortInv, EndSort
  PROVE  SortInv' /\ ToSet(sorted) = poly
<1>1. /\ phase = "sort" /\ phase' = "stages" /\ visits = <<>> /\ unmarked = {}
      /\ prog' = prog /\ callees' = callees /\ reached' = reached /\ poly' = poly
      /\ unmarked' = unmarked /\ visits' = visits /\ sorted' = sorted
  BY DEF EndSort, sorting
<1>2. /\ Names' = Names /\ SearchInv' /\ PolyInv' /\ CallGraph'
      /\ reached' \in [Names -> SUBSET Names] /\ poly' \subseteq Names
  BY <1>1, GraphKept
<1>3. TypeInv'
  BY <1>1, <1>2 DEF SortInv, TypeInv, Visit
<1>4. Visiting = {}
  BY <1>1, EmptySeq DEF Visiting
<1>5. ToSet(sorted) = poly
  BY <1>1, <1>4 DEF SortInv, PartsInv
<1>6. PartsInv' /\ EndInv'
  BY <1>1, <1>5 DEF PartsInv, EndInv, ToSet
<1>7. ChainInv' /\ LeftInv'
  BY <1>1 DEF SortInv, ChainInv, LeftInv, ToSet
<1>8. Taken = {} /\ Taken' = {}
  BY <1>1, <1>5 DEF Taken, ToSet
<1>9. OrderInv'
  BY <1>1, <1>8 DEF SortInv, OrderInv, Before
<1> QED
  BY <1>2, <1>3, <1>5, <1>6, <1>7, <1>9 DEF SortInv

(* The first of them gets its type.                                        *)
LEMMA TakeStep == SortInv /\ TakeOne => SortInv'
<1> SUFFICES ASSUME SortInv, TakeOne PROVE SortInv'
  OBVIOUS
<1>1. /\ phase = "stages" /\ phase' \in {"stages", "rejected"}
      /\ sorted # <<>> /\ sorted' = Tail(sorted)
      /\ prog' = prog /\ callees' = callees /\ reached' = reached /\ poly' = poly
      /\ unmarked' = unmarked /\ visits' = visits
  BY DEF TakeOne, TakeNext, Reject
<1>2. /\ Names' = Names /\ SearchInv' /\ PolyInv' /\ CallGraph'
      /\ reached' \in [Names -> SUBSET Names] /\ poly' \subseteq Names
  BY <1>1, GraphKept
<1>3. sorted \in Seq(Names)
  BY DEF SortInv, TypeInv
<1>4. /\ Len(sorted) \in Nat \ {0} /\ DOMAIN sorted = 1..Len(sorted)
      /\ sorted' \in Seq(Names)
      /\ DOMAIN sorted' = 1..(Len(sorted) - 1)
      /\ \A i \in 1..(Len(sorted) - 1) : sorted'[i] = sorted[i + 1]
  BY <1>1, <1>3, TailOf
<1>5. TypeInv'
  BY <1>1, <1>2, <1>4 DEF SortInv, TypeInv, Visit
<1>6. visits = <<>> /\ ToSet(sorted) \subseteq poly /\ DOMAIN <<>> = {}
  BY <1>1, EmptySeq DEF SortInv, EndInv
<1>7. \A i \in DOMAIN sorted' : i + 1 \in DOMAIN sorted /\ sorted'[i] = sorted[i + 1]
  BY <1>4
<1>8. ToSet(sorted') \subseteq ToSet(sorted)
  BY <1>7 DEF ToSet
<1>9. PartsInv' /\ EndInv'
  BY <1>1, <1>6, <1>8 DEF PartsInv, EndInv, ToSet
<1>10. ChainInv' /\ LeftInv'
  BY <1>1, <1>6 DEF ChainInv, LeftInv
<1>11. \A i, j \in DOMAIN sorted' : sorted'[i] = sorted'[j] => i = j
  <2> SUFFICES ASSUME NEW i \in DOMAIN sorted', NEW j \in DOMAIN sorted',
                      sorted'[i] = sorted'[j]
               PROVE  i = j
    OBVIOUS
  <2>1. i + 1 = j + 1
    BY <1>7 DEF SortInv, OrderInv
  <2> QED
    BY <2>1, <1>4
<1>12. ASSUME NEW i \in DOMAIN sorted', NEW g \in callees[sorted'[i]]
       PROVE  g \in Taken' \cup Before(sorted', i)
  <2>1. i \in 1..(Len(sorted) - 1) /\ i + 1 \in DOMAIN sorted
    BY <1>4
  <2>2. g \in Taken \/ \E j \in DOMAIN sorted : j < i + 1 /\ g = sorted[j]
    BY <1>7, <1>12, <2>1 DEF SortInv, OrderInv, Before
  <2>3. CASE g \in Taken
    <3>1. g \in poly /\ g \notin ToSet(sorted')
      BY <1>1, <1>8, <2>3 DEF Taken
    <3> QED
      BY <1>1, <3>1 DEF Taken, ToSet
  <2>4. ASSUME NEW j \in DOMAIN sorted, j < i + 1, g = sorted[j]
        PROVE  g \in Taken' \cup Before(sorted', i)
    <3>1. CASE j = 1
      <4>1. g \in poly
        BY <1>6, <2>4 DEF ToSet
      <4>2. ASSUME NEW m \in DOMAIN sorted', sorted'[m] = g PROVE FALSE
        <5>1. m \in 1..(Len(sorted) - 1) /\ m + 1 \in DOMAIN sorted /\ sorted[m + 1] = sorted[j]
          BY <1>4, <1>7, <2>4, <4>2
        <5>2. m + 1 = j
          BY <5>1, <2>4 DEF SortInv, OrderInv
        <5> QED
          BY <5>1, <5>2, <3>1
      <4> QED
        BY <1>1, <4>1, <4>2 DEF Taken, ToSet
    <3>2. CASE j # 1
      <4>1. j - 1 \in DOMAIN sorted' /\ j - 1 < i /\ sorted'[j - 1] = sorted[j]
        BY <1>4, <2>1, <2>4, <3>2
      <4> QED
        BY <2>4, <4>1 DEF Before
    <3> QED
      BY <3>1, <3>2
  <2> QED
    BY <2>2, <2>3, <2>4
<1>13. OrderInv'
  BY <1>1, <1>11, <1>12 DEF OrderInv, Taken, Before, ToSet
<1> QED
  BY <1>2, <1>5, <1>9, <1>10, <1>13 DEF SortInv

(* A visit without callees begins from the sort itself.                    *)
LEMMA RootStep == SortInv /\ VisitRoot => SortInv'
<1> SUFFICES ASSUME SortInv, VisitRoot PROVE SortInv'
  OBVIOUS
<1>1. /\ phase = "sort" /\ phase' = "sort" /\ visits = <<>>
      /\ prog' = prog /\ callees' = callees /\ reached' = reached /\ poly' = poly
      /\ sorted' = sorted
  BY DEF VisitRoot
<1>2. PICK i \in DOMAIN prog.order :
        prog.order[i] \in unmarked /\ TopoVisit(prog.order[i], <<>>)
  BY DEF VisitRoot
<1> DEFINE f == prog.order[i]
<1>3. /\ Names' = Names /\ SearchInv' /\ PolyInv' /\ CallGraph'
      /\ reached' \in [Names -> SUBSET Names] /\ poly' \subseteq Names
  BY <1>1, GraphKept
<1>4. /\ f \in Names /\ f \in unmarked /\ callees[f] \in SUBSET Names
      /\ unmarked' = unmarked \ {f}
      /\ visits' = Append(<<>>, [fn |-> f, left |-> callees[f]])
  BY <1>2 DEF SortInv, TypeInv, CallGraph, TopoVisit
<1>5. [fn |-> f, left |-> callees[f]] \in Visit /\ <<>> \in Seq(Visit) /\ Len(<<>>) = 0
  BY <1>4, EmptySeq DEF Visit
<1>6. /\ visits' \in Seq(Visit)
      /\ DOMAIN visits' = 1..1
      /\ visits'[1] = [fn |-> f, left |-> callees[f]]
  BY <1>4, <1>5, Appended
<1>7. DOMAIN visits' = {1}
  BY <1>6
<1>8. TypeInv'
  <2>1. Visit' = Visit
    BY <1>3 DEF Visit
  <2>2. visits' \in Seq(Visit')
    BY <1>6, <2>1
  <2>3. unmarked' \subseteq Names' /\ sorted' \in Seq(Names')
    BY <1>1, <1>3, <1>4 DEF SortInv, TypeInv
  <2> QED
    BY <1>1, <1>3, <2>2, <2>3 DEF TypeInv
<1>9. Visiting = {} /\ Visiting' = {f}
  BY <1>1, <1>6, <1>7, EmptySeq DEF Visiting
<1>10. PartsInv'
  BY <1>1, <1>4, <1>7, <1>9 DEF SortInv, PartsInv, ToSet
<1>11. ChainInv' /\ LeftInv'
  BY <1>1, <1>6, <1>7 DEF ChainInv, LeftInv
<1>12. OrderInv' /\ EndInv'
  BY <1>1 DEF SortInv, OrderInv, EndInv, Taken, Before, ToSet
<1> QED
  BY <1>3, <1>8, <1>10, <1>11, <1>12 DEF SortInv

(* The stack with another innermost visit.                                 *)
LEMMA ReplaceLast ==
  ASSUME NEW S, NEW s \in Seq(S), s # <<>>, NEW e \in S
  PROVE  /\ Append(Front(s), e) \in Seq(S)
         /\ Len(s) \in Nat \ {0}
         /\ DOMAIN s = 1..Len(s)
         /\ DOMAIN Append(Front(s), e) = 1..Len(s)
         /\ Len(Append(Front(s), e)) = Len(s)
         /\ \A i \in 1..(Len(s) - 1) : Append(Front(s), e)[i] = s[i]
         /\ Append(Front(s), e)[Len(s)] = e
         /\ Last(s) = s[Len(s)]
<1>1. /\ Len(s) \in Nat \ {0}
      /\ DOMAIN s = 1..Len(s)
      /\ Last(s) = s[Len(s)]
      /\ Front(s) \in Seq(S)
      /\ Len(Front(s)) = Len(s) - 1
      /\ \A i \in 1..(Len(s) - 1) : Front(s)[i] = s[i]
  BY LastFront
<1>2. Len(Front(s)) + 1 = Len(s) /\ Front(s) \in Seq(S)
  BY <1>1
<1>3. /\ Append(Front(s), e) \in Seq(S)
      /\ Len(Append(Front(s), e)) = Len(Front(s)) + 1
      /\ \A i \in 1..Len(Front(s)) : Append(Front(s), e)[i] = Front(s)[i]
      /\ Append(Front(s), e)[Len(Front(s)) + 1] = e
  BY <1>2, AppendProperties
<1>4. DOMAIN Append(Front(s), e) = 1..Len(Append(Front(s), e))
  BY <1>3, LenProperties
<1>5. \A i \in 1..(Len(s) - 1) : Append(Front(s), e)[i] = s[i]
  BY <1>1, <1>3, Zenon
<1> QED
  BY <1>1, <1>2, <1>3, <1>4, <1>5, Zenon

(* What is left of the innermost visit when it turns to a callee.          *)
Without(g) == [fn |-> Last(visits).fn, left |-> Last(visits).left \ {g}]
Turn(g) == Append(Front(visits), Without(g))

LEMMA Turned ==
  ASSUME TypeInv, visits # <<>>, NEW g
  PROVE  /\ Turn(g) \in Seq(Visit)
         /\ Len(visits) \in Nat \ {0}
         /\ DOMAIN visits = 1..Len(visits)
         /\ DOMAIN Turn(g) = 1..Len(visits)
         /\ Len(Turn(g)) = Len(visits)
         /\ \A k \in 1..Len(visits) : Turn(g)[k].fn = visits[k].fn
         /\ \A k \in 1..(Len(visits) - 1) : Turn(g)[k] = visits[k]
         /\ Turn(g)[Len(visits)].left = visits[Len(visits)].left \ {g}
         /\ Last(visits) = visits[Len(visits)]
<1>1. visits \in Seq(Visit)
  BY DEF TypeInv
<1>2. Last(visits) \in Visit
  BY <1>1, LastFront
<1>3. Without(g) \in Visit
  BY <1>2 DEF Visit, Without
<1>4. /\ Turn(g) \in Seq(Visit)
      /\ Len(visits) \in Nat \ {0}
      /\ DOMAIN visits = 1..Len(visits)
      /\ DOMAIN Turn(g) = 1..Len(visits)
      /\ Len(Turn(g)) = Len(visits)
      /\ \A i \in 1..(Len(visits) - 1) : Turn(g)[i] = visits[i]
      /\ Turn(g)[Len(visits)] = Without(g)
      /\ Last(visits) = visits[Len(visits)]
  BY <1>1, <1>3, ReplaceLast DEF Turn
<1>5. /\ Without(g).fn = Last(visits).fn
      /\ Without(g).left = Last(visits).left \ {g}
  BY DEF Without
<1>6. /\ Turn(g)[Len(visits)].left = visits[Len(visits)].left \ {g}
      /\ Turn(g)[Len(visits)].fn = visits[Len(visits)].fn
  BY <1>4, <1>5, Zenon
<1>7. \A k \in 1..Len(visits) : k = Len(visits) \/ k \in 1..(Len(visits) - 1)
  BY <1>1, LenProperties
<1>8. \A k \in 1..Len(visits) : Turn(g)[k].fn = visits[k].fn
  BY <1>4, <1>6, <1>7, Zenon
<1> QED
  BY <1>4, <1>6, <1>8, Zenon

(* What a visit turns to has not been marked, or has been sorted: were it  *)
(* being visited, it would be recursive.                                   *)
LEMMA NoneVisited ==
  ASSUME SortInv, phase = "sort", visits # <<>>, NEW g \in Last(visits).left
  PROVE  /\ g \in poly
         /\ g \in callees[Last(visits).fn]
         /\ g \in unmarked \/ g \in ToSet(sorted)
         /\ \A k \in DOMAIN visits : g \in reached[visits[k].fn]
<1> DEFINE n == Len(visits)
           top == Last(visits).fn
<1>1. n \in Nat \ {0} /\ DOMAIN visits = 1..n /\ Last(visits) = visits[n]
  BY LastFront DEF SortInv, TypeInv
<1>2. \A k \in DOMAIN visits : visits[k] \in Visit /\ visits[k].fn \in poly
  BY <1>1, ElementOfSeq DEF SortInv, TypeInv, PartsInv, Visiting
<1>3. top \in poly /\ g \in callees[top]
  BY <1>1, <1>2 DEF SortInv, LeftInv
<1>4. g \in poly /\ g \notin reached[g] /\ g \in Names
  BY <1>3, PolyClosed DEF SortInv
<1>5. ASSUME NEW k \in DOMAIN visits PROVE g \in reached[visits[k].fn]
  <2>1. visits[k].fn \in Names
    BY <1>2 DEF Visit
  <2>2. CASE k = n
    BY <1>1, <1>3, <2>1, <2>2 DEF SortInv, SearchInv
  <2>3. CASE k < n
    <3>1. top \in reached[visits[k].fn]
      BY <1>1, <2>3 DEF SortInv, ChainInv
    <3> QED
      BY <1>3, <2>1, <3>1, ReachedFurther DEF SortInv
  <2> QED
    BY <1>1, <2>2, <2>3
<1>6. g \notin Visiting
  BY <1>4, <1>5 DEF Visiting
<1> QED
  BY <1>3, <1>4, <1>5, <1>6 DEF SortInv, PartsInv

(* A visit turns to a function that has been sorted.                       *)
LEMMA PassStep ==
  ASSUME SortInv, phase = "sort", visits # <<>>, NEW g \in Last(visits).left,
         g \notin unmarked,
         visits' = Turn(g),
         UNCHANGED <<prog, phase, reason, callees, reached, poly, unmarked, sorted>>
  PROVE  SortInv'
<1> DEFINE n == Len(visits)
<1>1. /\ phase' = "sort"
      /\ prog' = prog /\ callees' = callees /\ reached' = reached /\ poly' = poly
      /\ unmarked' = unmarked /\ sorted' = sorted
  OBVIOUS
<1>2. /\ Names' = Names /\ SearchInv' /\ PolyInv' /\ CallGraph'
      /\ reached' \in [Names -> SUBSET Names] /\ poly' \subseteq Names
  BY <1>1, GraphKept
<1>3. TypeInv
  BY DEF SortInv
<1>4. /\ visits' \in Seq(Visit)
      /\ n \in Nat \ {0}
      /\ DOMAIN visits = 1..n
      /\ DOMAIN visits' = 1..n
      /\ \A k \in 1..n : visits'[k].fn = visits[k].fn
      /\ \A k \in 1..(n - 1) : visits'[k] = visits[k]
      /\ visits'[n].left = visits[n].left \ {g}
      /\ Last(visits) = visits[n]
  BY <1>3, Turned
<1>5. g \in ToSet(sorted)
  BY NoneVisited
<1>6. TypeInv'
  BY <1>1, <1>2, <1>4 DEF SortInv, TypeInv, Visit
<1>7. Visiting' = Visiting
  BY <1>4 DEF Visiting
<1>8. PartsInv'
  <2>1. ToSet(sorted') = ToSet(sorted)
    BY <1>1
  <2>2. \A k, m \in DOMAIN visits' : visits'[k].fn = visits'[m].fn => k = m
    BY <1>4 DEF SortInv, PartsInv
  <2> QED
    BY <1>1, <1>7, <2>1, <2>2, Zenon DEF SortInv, PartsInv
<1>9. ChainInv'
  BY <1>1, <1>4 DEF SortInv, ChainInv
<1>10. LeftInv'
  <2> SUFFICES ASSUME NEW k \in DOMAIN visits'
               PROVE  /\ visits'[k].left \subseteq callees[visits'[k].fn]
                      /\ \A h \in callees[visits'[k].fn] \ visits'[k].left :
                           \/ h \in ToSet(sorted)
                           \/ k + 1 \in DOMAIN visits' /\ h = visits'[k + 1].fn
    BY <1>1 DEF LeftInv, ToSet
  <2>1. /\ visits[k].left \subseteq callees[visits[k].fn]
        /\ \A h \in callees[visits[k].fn] \ visits[k].left :
             \/ h \in ToSet(sorted)
             \/ k + 1 \in DOMAIN visits /\ h = visits[k + 1].fn
    BY <1>4 DEF SortInv, LeftInv
  <2>2. k + 1 \in DOMAIN visits => visits'[k + 1].fn = visits[k + 1].fn
    BY <1>4
  <2>3. CASE k = n
    BY <1>4, <1>5, <2>1, <2>2, <2>3
  <2>4. CASE k # n
    <3>1. k \in 1..(n - 1)
      BY <1>4, <2>4
    <3>2. visits'[k] = visits[k]
      BY <1>4, <3>1, Zenon
    <3> QED
      BY <1>4, <2>1, <2>2, <3>2
  <2> QED
    BY <2>3, <2>4
<1>11. OrderInv' /\ EndInv'
  BY <1>1 DEF SortInv, OrderInv, EndInv, Taken, Before, ToSet
<1> QED
  BY <1>2, <1>6, <1>8, <1>9, <1>10, <1>11 DEF SortInv

(* A visit turns to a function that has not been visited.                  *)
LEMMA DeeperStep ==
  ASSUME SortInv, phase = "sort", visits # <<>>, NEW g \in Last(visits).left,
         g \in unmarked,
         TopoVisit(g, Turn(g)),
         UNCHANGED <<prog, phase, reason, callees, reached, poly, sorted>>
  PROVE  SortInv'
<1> DEFINE n == Len(visits)
           rest == Turn(g)
           new == [fn |-> g, left |-> callees[g]]
<1>1. /\ phase' = "sort"
      /\ prog' = prog /\ callees' = callees /\ reached' = reached /\ poly' = poly
      /\ sorted' = sorted
      /\ unmarked' = unmarked \ {g} /\ visits' = Append(rest, new)
  BY DEF TopoVisit
<1>2. /\ Names' = Names /\ SearchInv' /\ PolyInv' /\ CallGraph'
      /\ reached' \in [Names -> SUBSET Names] /\ poly' \subseteq Names
  BY <1>1, GraphKept
<1>3. TypeInv
  BY DEF SortInv
<1> HIDE DEF n, rest, new
<1>4. /\ rest \in Seq(Visit)
      /\ n \in Nat \ {0}
      /\ DOMAIN visits = 1..n
      /\ Len(rest) = n
      /\ \A k \in 1..n : rest[k].fn = visits[k].fn
      /\ \A k \in 1..(n - 1) : rest[k] = visits[k]
      /\ rest[n].left = visits[n].left \ {g}
      /\ Last(visits) = visits[n]
  BY <1>3, Turned DEF n, rest
<1>5. g \in Names /\ new \in Visit
  BY DEF SortInv, TypeInv, CallGraph, new, Visit
<1>6. /\ visits' \in Seq(Visit)
      /\ DOMAIN visits' = 1..(Len(rest) + 1)
      /\ \A k \in 1..Len(rest) : visits'[k] = rest[k]
      /\ visits'[Len(rest) + 1] = new
  BY <1>1, <1>4, <1>5, Appended
<1>7. /\ DOMAIN visits' = 1..(n + 1)
      /\ \A k \in 1..n : visits'[k].fn = visits[k].fn
      /\ \A k \in 1..(n - 1) : visits'[k] = visits[k]
      /\ visits'[n].left = visits[n].left \ {g}
      /\ visits'[n + 1].fn = g
      /\ visits'[n + 1].left = callees[g]
  BY <1>4, <1>6 DEF new
<1>8. TypeInv'
  <2>1. unmarked' \subseteq Names' /\ sorted' \in Seq(Names')
    BY <1>1, <1>2 DEF SortInv, TypeInv
  <2>2. visits' \in Seq(Visit')
    BY <1>2, <1>6 DEF Visit
  <2> QED
    BY <1>1, <1>2, <2>1, <2>2 DEF TypeInv
<1>9. Visiting' = Visiting \cup {g}
  <2>1. \A x \in Visiting' : x \in Visiting \cup {g}
    BY <1>4, <1>7 DEF Visiting
  <2>2. \A x \in Visiting : x \in Visiting'
    BY <1>4, <1>7 DEF Visiting
  <2>3. g \in Visiting'
    BY <1>4, <1>7 DEF Visiting
  <2> QED
    BY <2>1, <2>2, <2>3
<1>10. g \notin Visiting /\ g \notin ToSet(sorted)
  BY DEF SortInv, PartsInv
<1>11. \A k, m \in DOMAIN visits' : visits'[k].fn = visits'[m].fn => k = m
  <2>1. \A k \in 1..n : visits'[k].fn # g
    BY <1>4, <1>7, <1>10 DEF Visiting
  <2>2. \A k, m \in 1..n : visits'[k].fn = visits'[m].fn => k = m
    <3>1. \A k, m \in DOMAIN visits : visits[k].fn = visits[m].fn => k = m
      BY DEF SortInv, PartsInv
    <3>2. DOMAIN visits = 1..n
      BY <1>4
    <3> QED
      BY <1>7, <3>1, <3>2
  <2> QED
    BY <1>4, <1>7, <2>1, <2>2
<1>12. PartsInv'
  <2>1. ToSet(sorted') = ToSet(sorted)
    BY <1>1
  <2>2. /\ poly = unmarked \cup Visiting \cup ToSet(sorted)
        /\ unmarked \cap Visiting = {}
        /\ unmarked \cap ToSet(sorted) = {}
        /\ Visiting \cap ToSet(sorted) = {}
    BY DEF SortInv, PartsInv
  <2>3. /\ poly = unmarked' \cup Visiting' \cup ToSet(sorted')
        /\ unmarked' \cap Visiting' = {}
        /\ unmarked' \cap ToSet(sorted') = {}
        /\ Visiting' \cap ToSet(sorted') = {}
    BY <1>1, <1>9, <1>10, <2>1, <2>2
  <2> QED
    BY <1>1, <1>11, <2>3 DEF PartsInv
<1>13. ChainInv'
  <2> SUFFICES ASSUME NEW k \in DOMAIN visits', NEW m \in DOMAIN visits', k < m
               PROVE  visits'[m].fn \in reached[visits'[k].fn]
    BY <1>1 DEF ChainInv
  <2>1. k \in 1..n /\ visits'[k].fn = visits[k].fn
    BY <1>4, <1>7
  <2>2. CASE m = n + 1
    BY <1>4, <1>7, <2>1, <2>2, NoneVisited
  <2>3. CASE m # n + 1
    <3>1. m \in 1..n /\ visits'[m].fn = visits[m].fn
      BY <1>4, <1>7, <2>3
    <3> QED
      BY <1>4, <2>1, <3>1 DEF SortInv, ChainInv
  <2> QED
    BY <2>2, <2>3
<1>14. LeftInv'
  <2> SUFFICES ASSUME NEW k \in DOMAIN visits'
               PROVE  /\ visits'[k].left \subseteq callees[visits'[k].fn]
                      /\ \A h \in callees[visits'[k].fn] \ visits'[k].left :
                           \/ h \in ToSet(sorted)
                           \/ k + 1 \in DOMAIN visits' /\ h = visits'[k + 1].fn
    BY <1>1 DEF LeftInv, ToSet
  <2>1. CASE k = n + 1
    BY <1>7, <2>1
  <2>2. CASE k \in 1..n
    <3>1. /\ visits[k].left \subseteq callees[visits[k].fn]
          /\ \A h \in callees[visits[k].fn] \ visits[k].left :
               \/ h \in ToSet(sorted)
               \/ k + 1 \in DOMAIN visits /\ h = visits[k + 1].fn
      BY <1>4, <2>2 DEF SortInv, LeftInv
    <3>2. visits'[k].fn = visits[k].fn /\ k + 1 \in DOMAIN visits'
      BY <1>4, <1>7, <2>2
    <3>3. k + 1 \in DOMAIN visits => visits'[k + 1].fn = visits[k + 1].fn
      BY <1>4, <1>7
    <3>4. CASE k = n
      <4>1. k + 1 \notin DOMAIN visits /\ visits'[k + 1].fn = g
        BY <1>4, <1>7, <3>4
      <4>2. visits'[k].left = visits[k].left \ {g}
        BY <1>7, <3>4
      <4> QED
        BY <3>1, <3>2, <4>1, <4>2
    <3>5. CASE k # n
      <4>1. visits'[k] = visits[k]
        BY <1>4, <1>7, <2>2, <3>5
      <4> QED
        BY <3>1, <3>2, <3>3, <4>1
    <3> QED
      BY <3>4, <3>5
  <2> QED
    BY <1>4, <1>7, <2>1, <2>2
<1>15. OrderInv' /\ EndInv'
  BY <1>1 DEF SortInv, OrderInv, EndInv, Taken, Before, ToSet
<1> QED
  BY <1>2, <1>8, <1>12, <1>13, <1>14, <1>15 DEF SortInv

(* A function is put out when all it calls has been.                       *)
LEMMA LeaveStep == SortInv /\ Leave => SortInv'
<1> SUFFICES ASSUME SortInv, Leave PROVE SortInv'
  OBVIOUS
<1> DEFINE n == Len(visits)
           m == Len(sorted)
           f == Last(visits).fn
<1>1. /\ phase = "sort" /\ phase' = "sort" /\ visits # <<>> /\ Last(visits).left = {}
      /\ sorted' = Append(sorted, f)
      /\ visits' = Front(visits)
      /\ prog' = prog /\ callees' = callees /\ reached' = reached /\ poly' = poly
      /\ unmarked' = unmarked
  BY DEF Leave, AddToSorted
<1>2. /\ Names' = Names /\ SearchInv' /\ PolyInv' /\ CallGraph'
      /\ reached' \in [Names -> SUBSET Names] /\ poly' \subseteq Names
  BY <1>1, GraphKept
<1>3. visits \in Seq(Visit) /\ sorted \in Seq(Names)
  BY DEF SortInv, TypeInv
<1>4. /\ n \in Nat \ {0}
      /\ DOMAIN visits = 1..n
      /\ Last(visits) = visits[n]
      /\ Last(visits) \in Visit
      /\ visits' \in Seq(Visit)
      /\ Len(visits') = n - 1
      /\ \A k \in 1..(n - 1) : visits'[k] = visits[k]
  BY <1>1, <1>3, LastFront
<1>5. DOMAIN visits' = 1..(n - 1)
  BY <1>4, LenProperties
<1>6. f \in Names
  BY <1>4 DEF Visit
<1>7. /\ sorted' \in Seq(Names)
      /\ m \in Nat
      /\ DOMAIN sorted = 1..m
      /\ DOMAIN sorted' = 1..(m + 1)
      /\ \A i \in 1..m : sorted'[i] = sorted[i]
      /\ sorted'[m + 1] = f
  BY <1>1, <1>3, <1>6, Appended
<1>8. \A k \in 1..n : k = n \/ k \in 1..(n - 1)
  BY <1>3, LenProperties
<1>9. 1..(n - 1) \subseteq 1..n /\ n \in 1..n /\ n \notin 1..(n - 1)
  BY <1>4
<1>10. \A i \in 1..(m + 1) : i = m + 1 \/ i \in 1..m
  BY <1>3, LenProperties
<1>11. 1..m \subseteq 1..(m + 1) /\ m + 1 \in 1..(m + 1) /\ m + 1 \notin 1..m
  BY <1>7
<1>12. TypeInv'
  <2>1. visits' \in Seq(Visit')
    BY <1>2, <1>4 DEF Visit
  <2>2. sorted' \in Seq(Names') /\ unmarked' \subseteq Names'
    BY <1>1, <1>2, <1>7 DEF SortInv, TypeInv
  <2> QED
    BY <1>1, <1>2, <2>1, <2>2 DEF TypeInv
<1>13. ToSet(sorted') = ToSet(sorted) \cup {f}
  <2>1. \A x \in ToSet(sorted') : x \in ToSet(sorted) \cup {f}
    BY <1>7, <1>10, Zenon DEF ToSet
  <2>2. \A x \in ToSet(sorted) : x \in ToSet(sorted')
    BY <1>7, <1>11 DEF ToSet
  <2>3. f \in ToSet(sorted')
    BY <1>7, <1>11 DEF ToSet
  <2> QED
    BY <2>1, <2>2, <2>3
<1>14. \A k, l \in 1..n : visits[k].fn = visits[l].fn => k = l
  BY <1>1, <1>4 DEF SortInv, PartsInv
<1>15. Visiting' = Visiting \ {f}
  <2>1. ASSUME NEW k \in DOMAIN visits' PROVE visits'[k].fn \in Visiting \ {f}
    <3>1. k \in 1..n /\ k # n /\ visits'[k] = visits[k]
      BY <1>4, <1>5
    <3>2. visits[k].fn # visits[n].fn
      BY <1>9, <1>14, <3>1
    <3> QED
      BY <1>4, <3>1, <3>2 DEF Visiting
  <2>2. \A x \in Visiting : x = f \/ x \in Visiting'
    BY <1>4, <1>5, <1>8, Zenon DEF Visiting
  <2> QED
    BY <2>1, <2>2 DEF Visiting
<1>16. /\ poly = unmarked \cup Visiting \cup ToSet(sorted)
       /\ unmarked \cap Visiting = {}
       /\ unmarked \cap ToSet(sorted) = {}
       /\ Visiting \cap ToSet(sorted) = {}
  BY <1>1 DEF SortInv, PartsInv
<1>17. f \in Visiting
  BY <1>4, <1>9 DEF Visiting
<1>18. PartsInv'
  <2>1. \A k, l \in DOMAIN visits' : visits'[k].fn = visits'[l].fn => k = l
    BY <1>4, <1>5, <1>9, <1>14, Zenon
  <2>2. /\ poly = unmarked \cup Visiting' \cup ToSet(sorted')
        /\ unmarked \cap Visiting' = {}
        /\ unmarked \cap ToSet(sorted') = {}
        /\ Visiting' \cap ToSet(sorted') = {}
    BY <1>13, <1>15, <1>16, <1>17
  <2> QED
    BY <1>1, <2>1, <2>2 DEF PartsInv
<1>19. ChainInv'
  BY <1>1, <1>4, <1>5, <1>9, Zenon DEF SortInv, ChainInv
<1>20. LeftInv'
  <2> SUFFICES ASSUME NEW k \in 1..(n - 1)
               PROVE  /\ visits'[k].left \subseteq callees[visits'[k].fn]
                      /\ \A h \in callees[visits'[k].fn] \ visits'[k].left :
                           \/ h \in ToSet(sorted')
                           \/ k + 1 \in DOMAIN visits' /\ h = visits'[k + 1].fn
    BY <1>1, <1>5 DEF LeftInv, ToSet
  <2>1. /\ visits[k].left \subseteq callees[visits[k].fn]
        /\ \A h \in callees[visits[k].fn] \ visits[k].left :
             \/ h \in ToSet(sorted)
             \/ k + 1 \in DOMAIN visits /\ h = visits[k + 1].fn
    BY <1>4, <1>9 DEF SortInv, LeftInv
  <2>2. visits'[k] = visits[k]
    BY <1>4
  <2>3. CASE k + 1 = n
    <3>1. visits[k + 1].fn = f
      BY <1>4, <2>3
    <3> QED
      BY <1>13, <2>1, <2>2, <3>1
  <2>4. CASE k + 1 # n
    <3>1. k + 1 \in 1..(n - 1)
      BY <1>4, <2>4
    <3>2. visits'[k + 1] = visits[k + 1]
      BY <1>4, <3>1
    <3> QED
      BY <1>5, <1>13, <2>1, <2>2, <3>1, <3>2
  <2> QED
    BY <2>3, <2>4
<1>21. \A h \in callees[f] : h \in ToSet(sorted)
  <2>1. n + 1 \notin DOMAIN visits
    BY <1>4
  <2> QED
    BY <1>1, <1>4, <1>9, <2>1 DEF SortInv, LeftInv
<1>22. \A i, j \in DOMAIN sorted' : sorted'[i] = sorted'[j] => i = j
  <2>1. \A i \in 1..m : sorted'[i] # f
    BY <1>7, <1>16, <1>17 DEF ToSet
  <2>2. \A i, j \in 1..m : sorted'[i] = sorted'[j] => i = j
    BY <1>7 DEF SortInv, OrderInv
  <2> QED
    BY <1>7, <1>10, <2>1, <2>2, Zenon
<1>23. ASSUME NEW i \in 1..(m + 1), NEW h \in callees[sorted'[i]]
       PROVE  h \in Before(sorted', i)
  <2>1. CASE i = m + 1
    <3>1. h \in ToSet(sorted)
      BY <1>7, <1>21, <1>23, <2>1
    <3>2. PICK j \in 1..m : h = sorted[j]
      BY <1>7, <3>1 DEF ToSet
    <3>3. j \in DOMAIN sorted' /\ j < i /\ h = sorted'[j]
      BY <1>7, <1>11, <2>1, <3>2
    <3> QED
      BY <3>3 DEF Before
  <2>2. CASE i \in 1..m
    <3>1. h \in callees[sorted[i]]
      BY <1>7, <1>23, <2>2
    <3>2. h \in Before(sorted, i)
      BY <1>1, <1>7, <2>2, <3>1 DEF SortInv, OrderInv, Taken
    <3>3. PICK j \in 1..m : j < i /\ h = sorted[j]
      BY <1>7, <3>2 DEF Before
    <3>4. j \in DOMAIN sorted' /\ h = sorted'[j]
      BY <1>7, <1>11, <3>3
    <3> QED
      BY <3>3, <3>4 DEF Before
  <2> QED
    BY <1>10, <2>1, <2>2
<1>24. OrderInv' /\ EndInv'
  <2>1. \A i \in DOMAIN sorted' : callees'[sorted'[i]] \subseteq Before(sorted', i)
    BY <1>1, <1>7, <1>23
  <2> QED
    BY <1>1, <1>22, <2>1 DEF OrderInv, EndInv, Taken, Before
<1> QED
  BY <1>2, <1>12, <1>18, <1>19, <1>20, <1>24 DEF SortInv

-----------------------------------------------------------------------------
(* The invariant of the sort: of every call graph, the functions that are  *)
(* generalised are those not yet visited, those being visited, which call  *)
(* each other in a chain, and those sorted, which call sorted ones only.   *)
THEOREM Invariant == SortSpec => []SortInv
<1>1. SortInit => SortInv
  BY InitInv
<1>2. SortInv /\ [SortNext]_tvars => SortInv'
  <2> SUFFICES ASSUME SortInv, [SortNext]_tvars PROVE SortInv'
    OBVIOUS
  <2>1. CASE Search
    BY <2>1, SearchStep
  <2>2. CASE StartSort
    BY <2>2, StartStep
  <2>3. CASE VisitRoot
    BY <2>3, RootStep
  <2>4. CASE VisitCallee
    <3>1. /\ phase = "sort" /\ visits # <<>>
          /\ UNCHANGED <<prog, phase, reason, callees, reached, poly, sorted>>
      BY <2>4 DEF VisitCallee
    <3>2. PICK g \in Last(visits).left :
            IF g \in unmarked THEN TopoVisit(g, Turn(g))
            ELSE visits' = Turn(g) /\ UNCHANGED unmarked
      BY <2>4 DEF VisitCallee, Turn, Without
    <3>3. CASE g \in unmarked
      BY <3>1, <3>2, <3>3, DeeperStep
    <3>4. CASE g \notin unmarked
      BY <3>1, <3>2, <3>4, PassStep
    <3> QED
      BY <3>3, <3>4
  <2>5. CASE Leave
    BY <2>5, LeaveStep
  <2>6. CASE EndSort
    BY <2>6, EndStep
  <2>7. CASE TakeOne
    BY <2>7, TakeStep
  <2>8. CASE UNCHANGED tvars
    <3>1. SortInv' = SortInv
      BY <2>8 DEF tvars, sorting, SortInv, TypeInv, SearchInv, PolyInv, PartsInv, ChainInv,
                  LeftInv, OrderInv, EndInv, CallGraph, Names, NoWayOut, NoSort,
                  NonRecursive, Recursive, MayIndirectlyCall, Visiting, ToSet,
                  Before, Taken, Visit
    <3> QED
      BY <3>1
  <2> QED
    BY <2>1, <2>2, <2>3, <2>4, <2>5, <2>6, <2>7, <2>8 DEF SortNext, Sort
<1> QED
  BY <1>1, <1>2, PTL DEF SortSpec

(* Whatever the call graph, and in whatever order its sets are gone over,  *)
(* a function is given its type when all that it may call are generalised  *)
(* and have theirs.                                                        *)
THEOREM SolvedCalleesFirst == SortSpec => []CalleesFirst
<1>1. SortInv => CalleesFirst
  <2> SUFFICES ASSUME SortInv, phase = "stages", sorted # <<>>
               PROVE  callees[Head(sorted)] \subseteq poly \ ToSet(sorted)
    BY DEF CalleesFirst
  <2>1. /\ 1 \in DOMAIN sorted
        /\ Head(sorted) = sorted[1]
        /\ \A j \in DOMAIN sorted : ~(j < 1)
    <3>1. sorted \in Seq(Names)
      BY DEF SortInv, TypeInv
    <3> QED
      BY <3>1, TailOf
  <2>2. Before(sorted, 1) = {}
    BY <2>1 DEF Before
  <2>3. callees[sorted[1]] \subseteq Taken
    BY <2>1, <2>2 DEF SortInv, OrderInv
  <2>4. Taken = poly \ ToSet(sorted)
    BY DEF Taken, ToSet
  <2> QED
    BY <2>1, <2>3, <2>4
<1> QED
  BY <1>1, Invariant, PTL

(* No function is left out of the stages and none is in them twice.        *)
THEOREM SortsAllOnce == SortSpec => SortedOnce
<1>1. SortInv /\ [SortNext]_tvars /\ phase = "sort" /\ phase' = "stages" =>
        /\ ToSet(sorted) = poly
        /\ \A i, j \in DOMAIN sorted : sorted[i] = sorted[j] => i = j
  <2> SUFFICES ASSUME SortInv, [SortNext]_tvars, phase = "sort", phase' = "stages"
               PROVE  /\ ToSet(sorted) = poly
                      /\ \A i, j \in DOMAIN sorted : sorted[i] = sorted[j] => i = j
    OBVIOUS
  <2>1. EndSort
    BY DEF SortNext, Sort, Search, StartSort, VisitRoot, VisitCallee, Leave, TakeOne,
           TakeNext, tvars
  <2>2. ToSet(sorted) = poly
    BY <2>1, EndStep
  <2> QED
    BY <2>2 DEF SortInv, OrderInv, ToSet
<1> QED
  BY <1>1, Invariant, PTL DEF SortSpec, SortedOnce

(* What the searches find is what can be called and nothing else: the      *)
(* functions that are generalised are those from which no chain of calls   *)
(* leads to a function that a chain of calls leads back to.                *)
LeadsTo(f, g) ==
  \A S \in SUBSET Names : callees[f] \subseteq S /\ NoWayOut(S) => g \in S

GeneralisedRight ==
  phase # "search" =>
    poly = {f \in Names : \A r \in Names : LeadsTo(r, r) => f # r /\ ~LeadsTo(f, r)}

THEOREM GeneralisesRight == SortSpec => []GeneralisedRight
<1>1. SortInv => GeneralisedRight
  <2> SUFFICES ASSUME SortInv, phase # "search"
               PROVE  poly = {f \in Names : \A r \in Names :
                                LeadsTo(r, r) => f # r /\ ~LeadsTo(f, r)}
    BY DEF GeneralisedRight
  <2>1. /\ DOMAIN callees = Names
        /\ \A f \in Names : reached[f] \in SUBSET Names
    BY DEF SortInv, TypeInv, CallGraph
  <2>2. ASSUME NEW f \in Names, NEW g PROVE LeadsTo(f, g) <=> g \in reached[f]
    <3>1. g \in reached[f] => LeadsTo(f, g)
      BY DEF SortInv, SearchInv, LeadsTo
    <3>2. callees[f] \subseteq reached[f] /\ NoWayOut(reached[f])
      BY DEF SortInv, SearchInv
    <3> QED
      BY <2>1, <3>1, <3>2 DEF LeadsTo
  <2>3. Recursive = {r \in Names : LeadsTo(r, r)}
    BY <2>1, <2>2 DEF Recursive, MayIndirectlyCall
  <2>4. poly = NonRecursive
    BY DEF SortInv, PolyInv
  <2> QED
    BY <2>1, <2>2, <2>3, <2>4 DEF NonRecursive, MayIndirectlyCall
<1> QED
  BY <1>1, Invariant, PTL
=============================================================================
