-------------------------- MODULE CubicSolverProofs --------------------------
(***************************************************************************)
(* Proofs about CubicSolver, for every finite set of variables, every set  *)
(* of elements and every order of constraints: its data structures stay    *)
(* well formed through merging, the edges agree in both directions, and no *)
(* variable is given an element that some solution does without. Then: it  *)
(* implements Inclusions, between additions its sets lack nothing either,  *)
(* and no cycle is left (second part).                                     *)
(***************************************************************************)
EXTENDS CubicSolver, SequenceTheorems, FiniteSetTheorems, TLAPS

-----------------------------------------------------------------------------
(* The inductive invariant.                                                *)

Known(v) == v \in Var /\ node[v] # None

(* The constraints of a list are about variables that have nodes.          *)
Named(list) == \A i \in DOMAIN list : Known(list[i][1]) /\ Known(list[i][2])

In(op) == stack # <<>> /\ Top.op = op

Irreflexive == \A n \in Var : n \notin sups[n] /\ n \notin subs[n]

(* A node that stands for a variable stands for itself, so that what is    *)
(* merged away is not mapped to any more.                                  *)
Representative == \A v \in Var : node[v] # None => node[node[v]] = node[v]

(* A variable without a node has no edges.                                 *)
FreshIsBare == \A v \in Var : node[v] = None => sups[v] = {} /\ subs[v] = {}

WaitingNamed == \A n \in Var : \A e \in Element : Named(conds[n][e])

ListsNamed == \A i \in DOMAIN stack : Named(stack[i].list)

(* Cycles are looked for by the innermost call only, at a node in use.     *)
Buried ==
  \A i \in 1..(Len(stack) - 1) : stack[i].op \notin {"kill", "search", "walk"}

KillInv ==
  In("kill") \/ In("search") \/ In("walk") => Known(Top.from) /\ Top.at \in Live

SearchInv == In("search") \/ In("walk") => Top.cur \in Var /\ Top.cur # Top.at

ReachedLive == In("search") => DOMAIN dist \subseteq Live

(* The walk back starts at the target, and gets nearer to the source with  *)
(* every step.                                                             *)
NoWalk == ~In("walk") => path = <<>>
WalkInv ==
  In("walk") =>
    /\ Len(path) > 0
    /\ path[1] = Top.at
    /\ \A i \in 1..Len(path) : path[i] \in Live
    /\ \A i, j \in 1..Len(path) : i < j => dist[path[j]] < dist[path[i]]

GraphInv == Irreflexive /\ Representative /\ FreshIsBare /\ WaitingNamed
CallsInv == ListsNamed /\ Buried /\ KillInv /\ SearchInv
PathInv == ReachedLive /\ NoWalk /\ WalkInv

ShapeInv == TypeOK /\ GraphInv /\ CallsInv /\ PathInv /\ EdgesMirrored

-----------------------------------------------------------------------------
(* Stacks.                                                                 *)

(* The last element, and what is before it.                                *)
LEMMA LastFront ==
  ASSUME NEW S, NEW s \in Seq(S), s # <<>>
  PROVE  /\ Len(s) \in Nat \ {0}
         /\ DOMAIN s = 1..Len(s)
         /\ Last(s) = s[Len(s)]
         /\ Last(s) \in S
         /\ Front(s) \in Seq(S)
         /\ Len(Front(s)) = Len(s) - 1
         /\ \A i \in 1..(Len(s) - 1) : Front(s)[i] = s[i]
<1>1. Len(s) \in Nat \ {0} /\ DOMAIN s = 1..Len(s)
  BY EmptySeq, LenProperties
<1>2. Last(s) = s[Len(s)] /\ Last(s) \in S
  BY <1>1, ElementOfSeq DEF Last
<1>3. \A i \in 1..(Len(s) - 1) : s[i] \in S
  BY <1>1, ElementOfSeq
<1>4. Len(s) - 1 \in Int /\ 1 \in Int
  BY <1>1
<1>5. /\ SubSeq(s, 1, Len(s) - 1) \in Seq(S)
      /\ Len(SubSeq(s, 1, Len(s) - 1)) = IF 1 <= Len(s) - 1 THEN (Len(s) - 1) - 1 + 1 ELSE 0
      /\ \A i \in 1..((Len(s) - 1) - 1 + 1) : SubSeq(s, 1, Len(s) - 1)[i] = s[1 + i - 1]
  BY <1>3, <1>4, SubSeqProperties
<1>6. /\ (IF 1 <= Len(s) - 1 THEN (Len(s) - 1) - 1 + 1 ELSE 0) = Len(s) - 1
      /\ (Len(s) - 1) - 1 + 1 = Len(s) - 1
      /\ \A i \in 1..(Len(s) - 1) : 1 + i - 1 = i
  BY <1>1
<1> QED
  BY <1>1, <1>2, <1>5, <1>6, Zenon DEF Front

(* Replacing the last element.                                             *)
LEMMA ReplaceLast ==
  ASSUME NEW S, NEW s \in Seq(S), s # <<>>, NEW e \in S
  PROVE  /\ Append(Front(s), e) \in Seq(S)
         /\ Append(Front(s), e) # <<>>
         /\ Len(Append(Front(s), e)) = Len(s)
         /\ \A i \in 1..(Len(s) - 1) : Append(Front(s), e)[i] = s[i]
         /\ Append(Front(s), e)[Len(s)] = e
         /\ Last(Append(Front(s), e)) = e
<1>1. /\ Len(s) \in Nat \ {0}
      /\ Front(s) \in Seq(S)
      /\ Len(Front(s)) = Len(s) - 1
      /\ \A i \in 1..(Len(s) - 1) : Front(s)[i] = s[i]
  BY LastFront
<1>2. /\ Append(Front(s), e) \in Seq(S)
      /\ Append(Front(s), e) # <<>>
      /\ Len(Append(Front(s), e)) = Len(Front(s)) + 1
      /\ \A i \in 1..Len(Front(s)) : Append(Front(s), e)[i] = Front(s)[i]
      /\ Append(Front(s), e)[Len(Front(s)) + 1] = e
  BY <1>1, AppendProperties
<1>3. Last(Append(Front(s), e)) = e
  BY <1>1, <1>2, LastFront
<1> QED
  BY <1>1, <1>2, <1>3

(* Adding an element.                                                      *)
LEMMA AddLast ==
  ASSUME NEW S, NEW s \in Seq(S), NEW e \in S
  PROVE  /\ Append(s, e) \in Seq(S)
         /\ Append(s, e) # <<>>
         /\ Len(Append(s, e)) = Len(s) + 1
         /\ \A i \in 1..Len(s) : Append(s, e)[i] = s[i]
         /\ Append(s, e)[Len(s) + 1] = e
         /\ Last(Append(s, e)) = e
<1>1. /\ Append(s, e) \in Seq(S)
      /\ Append(s, e) # <<>>
      /\ Len(Append(s, e)) = Len(s) + 1
      /\ \A i \in 1..Len(s) : Append(s, e)[i] = s[i]
      /\ Append(s, e)[Len(s) + 1] = e
  BY AppendProperties
<1>2. Last(Append(s, e)) = e
  BY <1>1, LastFront
<1> QED
  BY <1>1, <1>2

(* A stack of one call.                                                    *)
LEMMA OneCall ==
  ASSUME NEW S, NEW e \in S
  PROVE  /\ <<e>> \in Seq(S)
         /\ <<e>> # <<>>
         /\ Len(<<e>>) = 1
         /\ <<e>>[1] = e
         /\ Last(<<e>>) = e
         /\ DOMAIN <<e>> = {1}
  BY DEF Last

-----------------------------------------------------------------------------
(* Calls in progress.                                                      *)

(* A call to killCyclesAt or to propagateNodeChanges starts with nothing   *)
(* left to activate.                                                       *)
LEMMA NewFrames ==
  ASSUME NEW at \in Var, NEW from \in Var
  PROVE  /\ Kill(at, from) \in FrameType /\ Kill(at, from).op = "kill"
         /\ Kill(at, from).at = at /\ Kill(at, from).from = from
         /\ Kill(at, from).list = <<>>
         /\ Propagate(at) \in FrameType /\ Propagate(at).op = "activate"
         /\ Propagate(at).at = at /\ Propagate(at).list = <<>>
<1>1. NumElements \in Nat
  BY CubicAssumption
<1>2. <<>> \in Seq(Var \X Var)
  BY EmptySeq
<1> QED
  BY <1>1, <1>2 DEF Kill, Propagate, Frame, FrameType

(* The innermost call.                                                     *)
LEMMA TopFrame ==
  ASSUME TypeOK, stack # <<>>
  PROVE  /\ Len(stack) \in Nat \ {0}
         /\ DOMAIN stack = 1..Len(stack)
         /\ Top = stack[Len(stack)]
         /\ Top \in FrameType
  BY LastFront DEF TypeOK, Top

(* The innermost call goes on.                                             *)
LEMMA Retopped ==
  ASSUME TypeOK, stack # <<>>, NEW f \in FrameType, Retop(f)
  PROVE  /\ stack' \in Seq(FrameType)
         /\ stack' # <<>>
         /\ Len(stack') = Len(stack)
         /\ DOMAIN stack' = 1..Len(stack)
         /\ \A i \in 1..(Len(stack) - 1) : stack'[i] = stack[i]
         /\ stack'[Len(stack)] = f
         /\ Top' = f
<1>1. stack \in Seq(FrameType)
  BY DEF TypeOK
<1>2. /\ stack' \in Seq(FrameType)
      /\ stack' # <<>>
      /\ Len(stack') = Len(stack)
      /\ \A i \in 1..(Len(stack) - 1) : stack'[i] = stack[i]
      /\ stack'[Len(stack)] = f
      /\ Last(stack') = f
  BY <1>1, ReplaceLast DEF Retop
<1> QED
  BY <1>2, LastFront DEF Top

(* The innermost call goes on and makes a call.                            *)
LEMMA Called ==
  ASSUME TypeOK, stack # <<>>, NEW f \in FrameType, NEW g \in FrameType,
         stack' = Append(Append(Front(stack), f), g)
  PROVE  /\ stack' \in Seq(FrameType)
         /\ stack' # <<>>
         /\ Len(stack') = Len(stack) + 1
         /\ DOMAIN stack' = 1..(Len(stack) + 1)
         /\ \A i \in 1..(Len(stack) - 1) : stack'[i] = stack[i]
         /\ stack'[Len(stack)] = f
         /\ stack'[Len(stack) + 1] = g
         /\ Top' = g
<1>1. stack \in Seq(FrameType)
  BY DEF TypeOK
<1> DEFINE s == Append(Front(stack), f)
<1>2. /\ s \in Seq(FrameType)
      /\ Len(s) = Len(stack)
      /\ \A i \in 1..(Len(stack) - 1) : s[i] = stack[i]
      /\ s[Len(stack)] = f
  BY <1>1, ReplaceLast
<1>3. stack' = Append(s, g)
  OBVIOUS
<1>4. Len(stack) \in Nat \ {0}
  BY TopFrame
<1> HIDE DEF s
<1>5. /\ stack' \in Seq(FrameType)
      /\ stack' # <<>>
      /\ Len(stack') = Len(stack) + 1
      /\ \A i \in 1..Len(stack) : stack'[i] = s[i]
      /\ stack'[Len(stack) + 1] = g
      /\ Last(stack') = g
  BY <1>2, <1>3, AddLast
<1>6. DOMAIN stack' = 1..(Len(stack) + 1)
  BY <1>5, LastFront
<1> QED
  BY <1>2, <1>4, <1>5, <1>6 DEF Top

(* The innermost call returns.                                             *)
LEMMA Returned ==
  ASSUME TypeOK, stack # <<>>, stack' = Front(stack)
  PROVE  /\ stack' \in Seq(FrameType)
         /\ Len(stack') = Len(stack) - 1
         /\ DOMAIN stack' = 1..(Len(stack) - 1)
         /\ \A i \in 1..(Len(stack) - 1) : stack'[i] = stack[i]
         /\ stack' # <<>> => Top' = stack[Len(stack) - 1] /\ Len(stack) - 1 \in 1..(Len(stack) - 1)
<1>1. stack \in Seq(FrameType)
  BY DEF TypeOK
<1>2. /\ Len(stack) \in Nat \ {0}
      /\ stack' \in Seq(FrameType)
      /\ Len(stack') = Len(stack) - 1
      /\ \A i \in 1..(Len(stack) - 1) : stack'[i] = stack[i]
  BY <1>1, LastFront
<1>3. DOMAIN stack' = 1..(Len(stack) - 1)
  BY <1>2, LenProperties
<1>4. ASSUME stack' # <<>>
      PROVE  Top' = stack'[Len(stack) - 1] /\ Len(stack) - 1 \in 1..(Len(stack) - 1)
  <2>1. Len(stack') \in Nat \ {0} /\ Last(stack') = stack'[Len(stack')]
    BY <1>2, <1>4, LastFront
  <2> QED
    BY <1>2, <2>1 DEF Top
<1> QED
  BY <1>2, <1>3, <1>4

-----------------------------------------------------------------------------
(* Nodes.                                                                  *)

(* The parts of a constraint.                                              *)
LEMMA ConstraintParts ==
  ASSUME NEW c \in Input
  PROVE  /\ c \in I!Constraint
         /\ c.type = "element" => c.elem \in Element /\ c.var \in Var
         /\ c.type = "subset" => c.from \in Var /\ c.to \in Var
         /\ c.type = "conditional" =>
              c.elem \in Element /\ c.in \in Var /\ c.from \in Var /\ c.to \in Var
<1>1. c \in I!Constraint
  BY CubicAssumption
<1> QED
  BY <1>1 DEF I!Constraint, I!ElementOf, I!Subset, I!Conditional

(* No node is at address 0, and the nodes in use are of the variables.     *)
LEMMA NodesInUse ==
  ASSUME TypeOK
  PROVE  /\ None \notin Var
         /\ Live \subseteq Var
         /\ \A v \in Var : Known(v) <=> node[v] \in Live
         /\ \A v \in Var : Known(v) => node[v] \in Var
  BY CubicAssumption DEF TypeOK, Live, Known, None

(* addEmptyVariableIfNecessary gives a node to each of the variables, and  *)
(* leaves the nodes there are.                                             *)
LEMMA NodesAdded ==
  ASSUME TypeOK, NEW V \in SUBSET Var, node' = WithNodes(V)
  PROVE  /\ node' \in [Var -> Var \cup {None}]
         /\ \A v \in V : node'[v] \in Var /\ Known(v)'
         /\ \A v \in Var : node[v] # None => node'[v] = node[v]
         /\ \A v \in Var : Known(v) => Known(v)'
         /\ \A v \in Var : node'[v] # None /\ node[v] = None => node'[v] = v
  BY NodesInUse, CubicAssumption DEF TypeOK, WithNodes, Known, None

(* The same of a list after the step.                                      *)
NamedNext(list) ==
  \A i \in DOMAIN list :
    /\ list[i][1] \in Var /\ node'[list[i][1]] # None
    /\ list[i][2] \in Var /\ node'[list[i][2]] # None

(* A list stays about variables that have nodes.                           *)
LEMMA StillNamed ==
  ASSUME NEW list, Named(list), \A v \in Var : Known(v) => Known(v)'
  PROVE  NamedNext(list)
  BY DEF Named, NamedNext, Known

-----------------------------------------------------------------------------
(* Type correctness: every action by itself.                               *)

(* populateDistances gives distances to the supersets of the node.         *)
LEMMA VisitType ==
  ASSUME TypeOK, NEW n \in Var, NEW known, DOMAIN known \subseteq Var,
         known \in [DOMAIN known -> Nat], n \in DOMAIN known,
         NEW rest \in Seq(DOMAIN known), Visit(n, known, rest)
  PROVE  /\ DOMAIN dist' = DOMAIN known \cup sups[n]
         /\ DOMAIN dist' \subseteq Var
         /\ dist' \in [DOMAIN dist' -> Nat]
         /\ queue' \in Seq(DOMAIN dist')
<1> DEFINE new == sups[n] \ DOMAIN known
<1>1. sups[n] \subseteq Var
  BY DEF TypeOK
<1>2. new \subseteq Var
  BY <1>1
<1>3. IsFiniteSet(new)
  BY <1>2, CubicAssumption, FS_Subset
<1>4. Cardinality(new) \in Nat
  BY <1>3, FS_CardinalityType
<1>5. dist' = [m \in DOMAIN known \cup new |-> IF m \in new THEN known[n] + 1 ELSE known[m]]
  BY Zenon DEF Visit
<1>6. PICK order \in Ascending(new) : queue' = rest \o order
  BY Zenon DEF Visit
<1> HIDE DEF new
<1>7. order \in Seq(new)
  <2>1. order \in [1..Cardinality(new) -> new]
    BY <1>6 DEF Ascending
  <2> QED
    BY <1>4, <2>1, SeqDef
<1>8. DOMAIN dist' = DOMAIN known \cup new
  BY <1>5
<1>9. order \in Seq(DOMAIN dist') /\ rest \in Seq(DOMAIN dist')
  BY <1>7, <1>8, SeqDef
<1>10. queue' \in Seq(DOMAIN dist')
  BY <1>6, <1>9, ConcatProperties
<1>11. DOMAIN dist' = DOMAIN known \cup sups[n]
  BY <1>8 DEF new
<1>12. dist' \in [DOMAIN dist' -> Nat]
  BY <1>5, <1>8
<1> QED
  BY <1>1, <1>10, <1>11, <1>12

(* A sequence over a set is one over a larger set; the empty sequence is   *)
(* one over any.                                                           *)
LEMMA WiderSeq ==
  ASSUME NEW S, NEW T, S \subseteq T
  PROVE  Seq(S) \subseteq Seq(T) /\ <<>> \in Seq(T)
  BY SeqDef, EmptySeq

(* The constraints that are added.                                         *)
LEMMA AddType ==
  ASSUME TypeOK, NEW c \in Input, Add(c)
  PROVE  TypeOK'
<1> USE DEF I!Constraint
<1>1. /\ c \in I!Constraint
      /\ c.type = "element" => c.elem \in Element /\ c.var \in Var
      /\ c.type = "subset" => c.from \in Var /\ c.to \in Var
      /\ c.type = "conditional" =>
           c.elem \in Element /\ c.in \in Var /\ c.from \in Var /\ c.to \in Var
  BY ConstraintParts
<1> HIDE DEF I!Constraint
<1>2. ASSUME Accept(c)
      PROVE  asked' \in SUBSET I!Constraint /\ UNCHANGED <<dist, queue, path, lost, missed>>
  BY <1>1, <1>2 DEF Accept, TypeOK, searching
<1>3. CASE AddElement(c)
  <2>1. node' \in [Var -> Var \cup {None}] /\ node'[c.var] \in Var
    BY <1>1, <1>3, NodesAdded DEF AddElement
  <2>2. bits' \in [Var -> SUBSET Element]
    BY <1>1, <1>3, <2>1 DEF AddElement, TypeOK
  <2>3. stack' \in Seq(FrameType)
    BY <1>3, <2>1, NewFrames, OneCall DEF AddElement
  <2> QED
    BY <1>2, <1>3, <2>1, <2>2, <2>3 DEF AddElement, TypeOK
<1>4. CASE AddConditional(c)
  <2>1. node' \in [Var -> Var \cup {None}] /\ node'[c.in] \in Var
    <3>1. {c.in, c.from, c.to} \in SUBSET Var /\ node' = WithNodes({c.in, c.from, c.to})
      BY <1>1, <1>4 DEF AddConditional
    <3> QED
      BY <3>1, NodesAdded
  <2>2. <<c.from, c.to>> \in Var \X Var
    BY <1>1, <1>4 DEF AddConditional
  <2>3. conds[node'[c.in]][c.elem] \in Seq(Var \X Var)
    <3>1. conds \in [Var -> [Element -> Seq(Var \X Var)]]
      BY DEF TypeOK
    <3>2. c.elem \in Element
      BY <1>1, <1>4 DEF AddConditional
    <3> QED
      BY <2>1, <3>1, <3>2
  <2>4. Append(conds[node'[c.in]][c.elem], <<c.from, c.to>>) \in Seq(Var \X Var)
    BY <2>2, <2>3, AppendProperties
  <2>5. conds' \in [Var -> [Element -> Seq(Var \X Var)]]
    BY <1>1, <1>4, <2>1, <2>4 DEF TypeOK, AddConditional
  <2>6. stack' \in Seq(FrameType)
    BY <1>4, <2>1, NewFrames, OneCall DEF AddConditional
  <2> QED
    BY <1>2, <1>4, <2>1, <2>5, <2>6 DEF AddConditional, TypeOK
<1>5. CASE AddSubset(c)
  <2>1. node' \in [Var -> Var \cup {None}] /\ node'[c.from] \in Var /\ node'[c.to] \in Var
    <3>1. {c.from, c.to} \in SUBSET Var /\ node' = WithNodes({c.from, c.to})
      BY <1>1, <1>5 DEF AddSubset
    <3> QED
      BY <3>1, NodesAdded
  <2>2. sups' \in [Var -> SUBSET Var] /\ subs' \in [Var -> SUBSET Var]
    <3>1. CASE UNCHANGED <<sups, subs>>
      BY <3>1 DEF TypeOK
    <3>2. CASE Connect(node'[c.from], node'[c.to])
      BY <2>1, <3>2 DEF Connect, TypeOK
    <3> QED
      BY <1>5, <3>1, <3>2 DEF AddSubset
  <2>3. stack' \in Seq(FrameType)
    <3>1. CASE UNCHANGED stack
      BY <3>1 DEF TypeOK
    <3>2. CASE stack' = <<Kill(node'[c.from], c.from)>>
      BY <1>1, <1>5, <2>1, <3>2, NewFrames, OneCall DEF AddSubset
    <3> QED
      BY <1>5, <3>1, <3>2 DEF AddSubset
  <2> QED
    BY <1>2, <1>5, <2>1, <2>2, <2>3 DEF AddSubset, TypeOK
<1> QED
  BY <1>3, <1>4, <1>5 DEF Add

(* What the steps of a call make of it.                                    *)
LEMMA FrameSteps ==
  ASSUME NEW f \in FrameType
  PROVE  /\ f.at \in Var /\ f.from \in Var \cup {None} /\ f.cur \in Var \cup {None}
         /\ f.list \in Seq(Var \X Var)
         /\ \A op \in {"kill", "walk", "push"} : [f EXCEPT !.op = op] \in FrameType
         /\ \A t \in Var : [f EXCEPT !.cur = t] \in FrameType
         /\ \A t \in Var : [f EXCEPT !.op = "search", !.cur = t] \in FrameType
         /\ \A l \in Seq(Var \X Var) : [f EXCEPT !.list = l] \in FrameType
         /\ \A e \in Element : \A l \in Seq(Var \X Var) :
              [f EXCEPT !.elem = e + 1, !.list = l] \in FrameType
<1>1. NumElements \in Nat
  BY CubicAssumption
<1>2. \A e \in Element : e + 1 \in 1..(NumElements + 1)
  BY <1>1 DEF Element
<1> QED
  BY <1>2 DEF FrameType

(* killCyclesAt looks at the next superset.                                *)
LEMMA StartSearchType ==
  ASSUME ShapeInv, StartSearch
  PROVE  TypeOK'
<1>1. TypeOK /\ stack # <<>> /\ Top \in FrameType /\ path = <<>>
  BY TopFrame DEF ShapeInv, StartSearch, Running, PathInv, NoWalk, In
<1>2. PICK t \in Ahead :
        /\ Visit(t, [n \in {t} |-> 0], <<>>)
        /\ Retop([Top EXCEPT !.op = "search", !.cur = t])
  BY Zenon DEF StartSearch
<1>3. t \in Var
  BY <1>1, <1>2, FrameSteps DEF Ahead, TypeOK
<1> DEFINE known == [n \in {t} |-> 0]
<1>4. DOMAIN known = {t} /\ known \in [DOMAIN known -> Nat] /\ <<>> \in Seq(DOMAIN known)
  BY EmptySeq
<1>5. Visit(t, known, <<>>)
  BY <1>2
<1> HIDE DEF known
<1>6. /\ DOMAIN dist' \subseteq Var
      /\ dist' \in [DOMAIN dist' -> Nat]
      /\ queue' \in Seq(DOMAIN dist')
  BY <1>1, <1>3, <1>4, <1>5, VisitType
<1>7. [Top EXCEPT !.op = "search", !.cur = t] \in FrameType
  BY <1>1, <1>3, FrameSteps
<1>8. stack' \in Seq(FrameType)
  BY <1>1, <1>2, <1>7, Retopped
<1>9. path' \in Seq(DOMAIN dist')
  BY <1>1, EmptySeq DEF StartSearch
<1> QED
  BY <1>1, <1>6, <1>8, <1>9 DEF TypeOK, StartSearch, graph

(* findPath takes a node off the queue.                                    *)
LEMMA SearchType ==
  ASSUME ShapeInv, Search
  PROVE  TypeOK' /\ DOMAIN dist' = DOMAIN dist \cup sups[Head(queue)] /\ Head(queue) \in DOMAIN dist
<1>1. TypeOK /\ stack # <<>> /\ Top \in FrameType /\ path = <<>>
  BY TopFrame DEF ShapeInv, Search, Running, PathInv, NoWalk, In
<1>2. queue \in Seq(DOMAIN dist) /\ queue # <<>> /\ DOMAIN dist \subseteq Var
      /\ dist \in [DOMAIN dist -> Nat]
  BY <1>1 DEF TypeOK, Search
<1>3. Head(queue) \in DOMAIN dist /\ Tail(queue) \in Seq(DOMAIN dist)
  BY <1>2, HeadTailProperties
<1>4. /\ DOMAIN dist' = DOMAIN dist \cup sups[Head(queue)]
      /\ DOMAIN dist' \subseteq Var
      /\ dist' \in [DOMAIN dist' -> Nat]
      /\ queue' \in Seq(DOMAIN dist')
  BY <1>1, <1>2, <1>3, VisitType DEF Search
<1>5. stack' \in Seq(FrameType) /\ path' \in Seq(DOMAIN dist')
  <2>1. CASE Top.at \in DOMAIN dist'
    <3>1. [Top EXCEPT !.op = "walk"] \in FrameType
      BY <1>1, FrameSteps
    <3>2. Retop([Top EXCEPT !.op = "walk"]) /\ path' = <<Top.at>>
      BY <2>1 DEF Search
    <3> QED
      BY <1>1, <2>1, <3>1, <3>2, Retopped, OneCall
  <2>2. CASE Top.at \notin DOMAIN dist'
    BY <1>1, <2>2, EmptySeq DEF Search, TypeOK
  <2> QED
    BY <2>1, <2>2
<1> QED
  BY <1>1, <1>3, <1>4, <1>5 DEF TypeOK, Search, graph

(* findPath finds no path.                                                 *)
LEMMA NoPathType ==
  ASSUME ShapeInv, NoPath
  PROVE  TypeOK'
<1>1. TypeOK /\ stack # <<>> /\ Top \in FrameType /\ path = <<>>
  BY TopFrame DEF ShapeInv, NoPath, Running, PathInv, NoWalk, In
<1>2. stack' \in Seq(FrameType)
  BY <1>1, FrameSteps, Retopped DEF NoPath
<1>3. dist' = <<>> /\ DOMAIN dist' = {} /\ queue' = <<>> /\ path' = <<>>
  BY <1>1 DEF NoPath
<1> QED
  BY <1>1, <1>2, <1>3, EmptySeq DEF TypeOK, NoPath, graph

(* The path, while findPath walks back and mergePath shortens it.          *)
LEMMA PathShape ==
  ASSUME ShapeInv, Running("walk")
  PROVE  /\ TypeOK /\ stack # <<>> /\ Top \in FrameType /\ In("walk")
         /\ path \in Seq(DOMAIN dist) /\ path # <<>>
         /\ Len(path) \in Nat \ {0}
         /\ \A i \in 1..Len(path) : path[i] \in Var /\ path[i] \in Live /\ path[i] \in DOMAIN dist
         /\ Last(path) = path[Len(path)]
         /\ path[1] = Top.at
         /\ Top.cur \in Var /\ Top.cur # Top.at
         /\ Top.at \in Live
         /\ Known(Top.from)
<1>1. TypeOK /\ stack # <<>> /\ Top \in FrameType /\ In("walk")
  BY TopFrame DEF ShapeInv, Running, In
<1>2. path \in Seq(DOMAIN dist) /\ DOMAIN dist \subseteq Var
  BY <1>1 DEF TypeOK
<1>3. Len(path) > 0 /\ path[1] = Top.at /\ \A i \in 1..Len(path) : path[i] \in Live
  BY <1>1 DEF ShapeInv, PathInv, WalkInv
<1>4. path # <<>>
  BY <1>2, <1>3, EmptySeq
<1>5. Len(path) \in Nat \ {0} /\ Last(path) = path[Len(path)]
  BY <1>2, <1>4, LastFront
<1>6. \A i \in 1..Len(path) : path[i] \in DOMAIN dist
  BY <1>2, ElementOfSeq
<1>7. Top.cur \in Var /\ Top.cur # Top.at /\ Top.at \in Live /\ Known(Top.from)
  BY <1>1 DEF ShapeInv, CallsInv, SearchInv, KillInv
<1> QED
  BY <1>1, <1>2, <1>3, <1>4, <1>5, <1>6, <1>7

(* findPath steps back.                                                    *)
LEMMA WalkBackType ==
  ASSUME ShapeInv, WalkBack
  PROVE  TypeOK'
<1>1. Running("walk")
  BY DEF WalkBack
<1>2. TypeOK /\ path \in Seq(DOMAIN dist)
  BY <1>1, PathShape
<1>3. PICK n \in DOMAIN dist : path' = IF dist[n] = dist[Last(path)] - 1 THEN Append(path, n) ELSE path
  BY DEF WalkBack
<1>4. path' \in Seq(DOMAIN dist)
  BY <1>2, <1>3, AppendProperties
<1>5. UNCHANGED <<node, bits, conds, sups, subs, stack, dist, queue, lost, missed, asked>>
  BY DEF WalkBack, graph
<1> QED
  BY <1>2, <1>4, <1>5 DEF TypeOK

(* The two nodes that mergeNodes merges are different, in use, and at the  *)
(* end of the path.                                                        *)
LEMMA MergedNodes ==
  ASSUME ShapeInv, MergeNodes
  PROVE  /\ Len(path) \in Nat \ {0, 1}
         /\ Last(path) = path[Len(path)]
         /\ path[Len(path)] # path[Len(path) - 1]
         /\ path[Len(path)] \in Live /\ path[Len(path) - 1] \in Live
         /\ path[Len(path)] \in Var /\ path[Len(path) - 1] \in Var
         /\ path[Len(path)] = Top.cur
<1>1. Running("walk") /\ Last(path) = Top.cur
  BY DEF MergeNodes
<1>2. /\ Len(path) \in Nat \ {0}
      /\ \A i \in 1..Len(path) : path[i] \in Var /\ path[i] \in Live /\ path[i] \in DOMAIN dist
      /\ Last(path) = path[Len(path)]
      /\ path[1] = Top.at
      /\ Top.cur # Top.at
      /\ In("walk")
      /\ TypeOK
  BY <1>1, PathShape
<1>3. Len(path) \in Nat \ {0, 1}
  BY <1>1, <1>2
<1>4. Len(path) - 1 \in 1..Len(path) /\ Len(path) \in 1..Len(path) /\ Len(path) - 1 < Len(path)
  <2> DEFINE L == Len(path)
  <2>1. L \in Nat /\ L # 0 /\ L # 1
    BY <1>3
  <2> HIDE DEF L
  <2>2. L - 1 \in 1..L /\ L \in 1..L /\ L - 1 < L
    BY <2>1
  <2> QED
    BY <2>2 DEF L
<1>5. dist[path[Len(path)]] < dist[path[Len(path) - 1]]
  BY <1>2, <1>4 DEF ShapeInv, PathInv, WalkInv
<1>6. dist[path[Len(path)]] \in Nat
  BY <1>2, <1>4 DEF TypeOK
<1>7. path[Len(path)] # path[Len(path) - 1]
  BY <1>5, <1>6
<1> QED
  BY <1>1, <1>2, <1>3, <1>4, <1>7

(* mergeNodes moves what the one node has to the other.                    *)
LEMMA MergeType ==
  ASSUME ShapeInv, MergeNodes
  PROVE  TypeOK'
<1> DEFINE n1 == path[Len(path)]
           n2 == path[Len(path) - 1]
<1>1. /\ Len(path) \in Nat \ {0, 1} /\ Last(path) = n1
      /\ n1 \in Var /\ n2 \in Var
  BY MergedNodes
<1>2. /\ TypeOK /\ stack # <<>> /\ Top \in FrameType
      /\ path \in Seq(DOMAIN dist) /\ path # <<>> /\ Known(Top.from)
      /\ \A i \in 1..Len(path) : path[i] \in DOMAIN dist
  BY PathShape DEF MergeNodes
<1>3. node' = [v \in Var |-> IF node[v] = n2 THEN n1 ELSE node[v]]
  BY <1>1 DEF MergeNodes
<1>4. node' \in [Var -> Var \cup {None}]
  BY <1>1, <1>2, <1>3 DEF TypeOK
<1>5. bits' = [bits EXCEPT ![n1] = @ \cup bits[n2]]
  BY <1>1 DEF MergeNodes
<1>6. bits' \in [Var -> SUBSET Element]
  BY <1>1, <1>2, <1>5 DEF TypeOK
<1>7. conds' = [conds EXCEPT ![n1] = [e \in Element |-> @[e] \o conds[n2][e]]]
  BY <1>1 DEF MergeNodes
<1>8. \A e \in Element : conds[n1][e] \o conds[n2][e] \in Seq(Var \X Var)
  <2> TAKE e \in Element
  <2>1. conds[n1][e] \in Seq(Var \X Var) /\ conds[n2][e] \in Seq(Var \X Var)
    BY <1>1, <1>2 DEF TypeOK
  <2> QED
    BY <2>1, ConcatProperties
<1>9. conds' \in [Var -> [Element -> Seq(Var \X Var)]]
  BY <1>1, <1>2, <1>7, <1>8 DEF TypeOK
<1>10. sups' = Renamed(sups, subs, n1, n2) /\ subs' = Renamed(subs, sups, n1, n2)
  BY <1>1 DEF MergeNodes
<1>11. sups' \in [Var -> SUBSET Var] /\ subs' \in [Var -> SUBSET Var]
  BY <1>1, <1>2, <1>10 DEF TypeOK, Renamed
<1>12. /\ stack' \in Seq(FrameType) /\ queue' \in Seq(DOMAIN dist')
       /\ DOMAIN dist' \subseteq Var /\ dist' \in [DOMAIN dist' -> Nat]
       /\ path' \in Seq(DOMAIN dist')
  <2>1. CASE Len(path) = 2
    <3>1. Retop(Kill(n1, Top.from)) /\ dist' = <<>> /\ queue' = <<>> /\ path' = <<>>
      BY <1>1, <2>1 DEF MergeNodes
    <3>2. Kill(n1, Top.from) \in FrameType
      BY <1>1, <1>2, NewFrames DEF Known
    <3>3. DOMAIN dist' = {}
      BY <3>1
    <3> QED
      BY <1>2, <3>1, <3>2, <3>3, Retopped, EmptySeq
  <2>2. CASE Len(path) # 2
    <3>1. path' = Append(Front(Front(path)), n1) /\ UNCHANGED <<stack, dist, queue>>
      BY <1>1, <2>2 DEF MergeNodes
    <3>2. Front(path) \in Seq(DOMAIN dist) /\ Len(Front(path)) = Len(path) - 1
      BY <1>2, LastFront
    <3>3. Len(Front(path)) # 0
      BY <1>1, <3>2
    <3>4. Front(path) # <<>>
      BY <3>2, <3>3, EmptySeq
    <3>5. Front(Front(path)) \in Seq(DOMAIN dist)
      BY <3>2, <3>4, LastFront
    <3>6. n1 \in DOMAIN dist
      BY <1>1, <1>2
    <3> QED
      BY <1>2, <3>1, <3>5, <3>6, AppendProperties DEF TypeOK
  <2> QED
    BY <2>1, <2>2
<1>13. UNCHANGED <<lost, asked>> /\ missed' \in BOOLEAN
  BY DEF MergeNodes
<1> QED
  BY <1>2, <1>4, <1>6, <1>9, <1>11, <1>12, <1>13 DEF TypeOK

(* The loops over the supersets and over the waiting constraints.          *)
LEMMA LoopType ==
  ASSUME ShapeInv, NoCycle \/ TakeConstraints \/ StartPush \/ PushNext \/ Return \/ IteratorLost
  PROVE  TypeOK'
<1>1. TypeOK /\ stack # <<>> /\ Top \in FrameType
  BY TopFrame DEF ShapeInv, NoCycle, TakeConstraints, StartPush, PushNext, Return, IteratorLost,
                  Running
<1>2. CASE NoCycle
  <2>1. Known(Top.from)
    BY <1>2 DEF ShapeInv, CallsInv, KillInv, NoCycle, Running, In
  <2>2. node[Top.from] \in Var
    BY <1>1, <2>1, NodesInUse DEF Known
  <2>3. stack' \in Seq(FrameType)
    BY <1>1, <1>2, <2>2, NewFrames, Retopped DEF NoCycle
  <2> QED
    BY <1>1, <1>2, <2>3 DEF TypeOK, NoCycle, graph, searching
<1>3. CASE TakeConstraints
  <2>1. PICK e \in Waiting :
          /\ Retop([Top EXCEPT !.elem = e + 1, !.list = conds[Top.at][e]])
          /\ conds' = [conds EXCEPT ![Top.at][e] = <<>>]
    BY <1>3 DEF TakeConstraints
  <2>2. Top.at \in Var
    BY <1>1, FrameSteps
  <2>3. e \in Element
    BY <1>1, <2>1, <2>2 DEF Waiting, TypeOK
  <2>4. conds[Top.at][e] \in Seq(Var \X Var)
    BY <1>1, <2>2, <2>3 DEF TypeOK
  <2>5. [Top EXCEPT !.elem = e + 1, !.list = conds[Top.at][e]] \in FrameType
    BY <1>1, <2>3, <2>4, FrameSteps
  <2>6. stack' \in Seq(FrameType)
    BY <1>1, <2>1, <2>5, Retopped
  <2>7. conds' \in [Var -> [Element -> Seq(Var \X Var)]]
    BY <1>1, <2>1, <2>2, <2>3, EmptySeq DEF TypeOK
  <2> QED
    BY <1>1, <1>3, <2>6, <2>7 DEF TypeOK, TakeConstraints, searching
<1>4. CASE StartPush
  <2>1. stack' \in Seq(FrameType)
    BY <1>1, <1>4, FrameSteps, Retopped DEF StartPush
  <2> QED
    BY <1>1, <1>4, <2>1 DEF TypeOK, StartPush, graph, searching
<1>5. CASE PushNext
  <2>1. PICK s \in Ahead :
          /\ bits' = [bits EXCEPT ![s] = @ \cup bits[Top.at]]
          /\ stack' = Append(Append(Front(stack), [Top EXCEPT !.cur = s]), Propagate(s))
    BY <1>5 DEF PushNext
  <2>2. Top.at \in Var /\ s \in Var
    BY <1>1, <2>1, FrameSteps DEF Ahead, TypeOK
  <2>3. [Top EXCEPT !.cur = s] \in FrameType /\ Propagate(s) \in FrameType
    BY <1>1, <2>2, FrameSteps, NewFrames
  <2>4. stack' \in Seq(FrameType)
    BY <1>1, <2>1, <2>3, Called
  <2>5. bits' \in [Var -> SUBSET Element]
    BY <1>1, <2>1, <2>2 DEF TypeOK
  <2> QED
    BY <1>1, <1>5, <2>4, <2>5 DEF TypeOK, PushNext, searching
<1>6. CASE Return
  <2>1. stack' \in Seq(FrameType)
    BY <1>1, <1>6, Returned DEF Return
  <2> QED
    BY <1>1, <1>6, <2>1 DEF TypeOK, Return, graph, searching
<1>7. CASE IteratorLost
  BY <1>1, <1>7 DEF TypeOK, IteratorLost, graph, searching
<1> QED
  BY <1>2, <1>3, <1>4, <1>5, <1>6, <1>7

(* The constraint that is activated next, and what is left of the list.    *)
LEMMA NextConstraint ==
  ASSUME ShapeInv, Running("activate"), Top.list # <<>>
  PROVE  /\ Top.list \in Seq(Var \X Var)
         /\ Head(Top.list) = Top.list[1] /\ 1 \in DOMAIN Top.list
         /\ Head(Top.list)[1] \in Var /\ Head(Top.list)[2] \in Var
         /\ Known(Head(Top.list)[1]) /\ Known(Head(Top.list)[2])
         /\ Tail(Top.list) \in Seq(Var \X Var)
         /\ \A j \in DOMAIN Tail(Top.list) :
              j + 1 \in DOMAIN Top.list /\ Tail(Top.list)[j] = Top.list[j + 1]
         /\ Named(Tail(Top.list))
         /\ [Top EXCEPT !.list = Tail(@)] = [Top EXCEPT !.list = Tail(Top.list)]
         /\ [Top EXCEPT !.list = Tail(@)] \in FrameType
<1>1. stack # <<>> /\ Top \in FrameType /\ Len(stack) \in DOMAIN stack /\ Top = stack[Len(stack)]
  BY TopFrame DEF ShapeInv, Running
<1>2. Top.list \in Seq(Var \X Var)
  BY <1>1, FrameSteps
<1>3. Named(Top.list)
  BY <1>1 DEF ShapeInv, CallsInv, ListsNamed
<1>4. /\ Len(Top.list) \in Nat \ {0} /\ DOMAIN Top.list = 1..Len(Top.list)
      /\ Head(Top.list) = Top.list[1]
  BY <1>2, LastFront, HeadTailProperties
<1>5. Head(Top.list) \in Var \X Var
  BY <1>2, HeadTailProperties
<1>6. /\ Tail(Top.list) \in Seq(Var \X Var) /\ Len(Tail(Top.list)) = Len(Top.list) - 1
      /\ \A j \in 1..Len(Tail(Top.list)) : Tail(Top.list)[j] = Top.list[j + 1]
  BY <1>2, HeadTailProperties
<1>7. DOMAIN Tail(Top.list) = 1..Len(Tail(Top.list))
  BY <1>6, LenProperties
<1>8. \A j \in DOMAIN Tail(Top.list) :
        j + 1 \in DOMAIN Top.list /\ Tail(Top.list)[j] = Top.list[j + 1]
  BY <1>4, <1>6, <1>7
<1>9. Known(Head(Top.list)[1]) /\ Known(Head(Top.list)[2])
  BY <1>3, <1>4 DEF Named
<1>10. Named(Tail(Top.list))
  BY <1>3, <1>8 DEF Named
<1>11. [Top EXCEPT !.list = Tail(@)] = [Top EXCEPT !.list = Tail(Top.list)]
  OBVIOUS
<1>12. [Top EXCEPT !.list = Tail(Top.list)] \in FrameType
  BY <1>1, <1>6, FrameSteps
<1> QED
  BY <1>2, <1>4, <1>5, <1>6, <1>8, <1>9, <1>10, <1>11, <1>12

(* activateConditionalConstraint.                                          *)
LEMMA ActivateType ==
  ASSUME ShapeInv, Activate
  PROVE  TypeOK'
<1> DEFINE from == Head(Top.list)[1]
           to   == Head(Top.list)[2]
           f    == [Top EXCEPT !.list = Tail(@)]
<1>1. TypeOK /\ stack # <<>> /\ Running("activate") /\ Top.list # <<>>
  BY DEF ShapeInv, Activate, Running
<1>2. from \in Var /\ to \in Var /\ node[from] \in Var /\ node[to] \in Var /\ f \in FrameType
  BY <1>1, NextConstraint, NodesInUse
<1>3. CASE node[from] = node[to]
  <2>1. Retop(f) /\ UNCHANGED <<sups, subs>>
    BY <1>3 DEF Activate, Retop
  <2>2. stack' \in Seq(FrameType)
    BY <1>1, <1>2, <2>1, Retopped
  <2> QED
    BY <1>1, <2>1, <2>2 DEF Activate, TypeOK, searching
<1>4. CASE node[from] # node[to]
  <2>1. /\ Connect(node[from], node[to])
        /\ stack' = Append(Append(Front(stack), f), Kill(node[from], from))
    BY <1>4 DEF Activate
  <2>2. Kill(node[from], from) \in FrameType
    BY <1>2, NewFrames
  <2>3. stack' \in Seq(FrameType)
    BY <1>1, <1>2, <2>1, <2>2, Called
  <2>4. sups' \in [Var -> SUBSET Var] /\ subs' \in [Var -> SUBSET Var]
    BY <1>1, <1>2, <2>1 DEF Connect, TypeOK
  <2> QED
    BY <1>1, <2>3, <2>4 DEF Activate, TypeOK, searching
<1> QED
  BY <1>3, <1>4

LEMMA TypeStep ==
  ASSUME ShapeInv, [Next]_vars
  PROVE  TypeOK'
<1>1. CASE \E c \in Input : Add(c)
  BY <1>1, AddType DEF ShapeInv
<1>2. CASE Step
  BY <1>2, StartSearchType, SearchType, NoPathType, WalkBackType, MergeType, LoopType,
     ActivateType DEF Step
<1>3. CASE UNCHANGED vars
  BY <1>3 DEF ShapeInv, TypeOK, vars
<1> QED
  BY <1>1, <1>2, <1>3 DEF Next

-----------------------------------------------------------------------------
(* The graph.                                                              *)

(* Nodes are only added.                                                   *)
Grown ==
  /\ node' \in [Var -> Var \cup {None}]
  /\ \A v \in Var : node[v] # None => node'[v] = node[v]
  /\ \A v \in Var : node'[v] # None /\ node[v] = None => node'[v] = v

(* A node in use is its own representative.                                *)
LEMMA LiveNodes ==
  ASSUME TypeOK, Representative
  PROVE  \A n : n \in Live <=> n \in Var /\ node[n] = n
<1>1. ASSUME NEW n, n \in Live PROVE n \in Var /\ node[n] = n
  <2>1. PICK v \in Var : node[v] = n /\ n # None
    BY <1>1 DEF Live
  <2> QED
    BY <2>1, NodesInUse DEF Representative, Known
<1>2. ASSUME NEW n \in Var, node[n] = n PROVE n \in Live
  BY <1>2, NodesInUse DEF Live
<1> QED
  BY <1>1, <1>2

(* Adding nodes keeps what is in use.                                      *)
LEMMA GrownNodes ==
  ASSUME TypeOK, Representative, Grown
  PROVE  /\ Representative'
         /\ \A n : n \in Live' <=> n \in Var /\ node'[n] = n
         /\ \A n \in Var : n \in Live' /\ n \notin Live => node[n] = None
         /\ Live \subseteq Live'
         /\ \A v \in Var : Known(v) => Known(v)'
<1>1. Representative'
  BY NodesInUse DEF Representative, Grown, Known
<1>2. \A n : n \in Live <=> n \in Var /\ node[n] = n
  BY LiveNodes
<1>3. \A n : n \in Live' <=> n \in Var /\ node'[n] = n
  <2>1. ASSUME NEW n, n \in Live' PROVE n \in Var /\ node'[n] = n
    <3>1. PICK v \in Var : node'[v] = n /\ n # None
      BY <2>1 DEF Live
    <3> QED
      BY <1>1, <3>1 DEF Representative, Grown
  <2>2. ASSUME NEW n \in Var, node'[n] = n PROVE n \in Live'
    BY <2>2, NodesInUse DEF Live
  <2> QED
    BY <2>1, <2>2
<1>4. \A n \in Var : n \in Live' /\ n \notin Live => node[n] = None
  BY <1>2, <1>3 DEF Grown
<1>5. Live \subseteq Live'
  BY <1>2, <1>3, NodesInUse DEF Grown
<1>6. \A v \in Var : Known(v) => Known(v)'
  BY DEF Grown, Known
<1> QED
  BY <1>1, <1>3, <1>4, <1>5, <1>6

(* addSubseteqConstraint and activateConditionalConstraint add an edge     *)
(* between two different nodes, or none.                                   *)
LEMMA EdgesAfterAdd ==
  ASSUME ShapeInv, Grown,
         \/ UNCHANGED <<sups, subs>>
         \/ \E a, b \in Live' : a # b /\ Connect(a, b)
  PROVE  Irreflexive' /\ Representative' /\ FreshIsBare' /\ EdgesMirrored'
<1>1. /\ TypeOK /\ Irreflexive /\ Representative /\ FreshIsBare /\ EdgesMirrored
  BY DEF ShapeInv, GraphInv
<1>2. /\ Representative'
      /\ \A n : n \in Live' <=> n \in Var /\ node'[n] = n
      /\ \A n \in Var : n \in Live' /\ n \notin Live => node[n] = None
      /\ Live \subseteq Live'
  BY <1>1, GrownNodes
<1>3. \A n \in Var : node'[n] = None => node[n] = None
  BY DEF Grown
<1>4. \A n \in Live' : /\ n \notin sups[n]
                       /\ sups[n] \cup subs[n] \subseteq Live'
                       /\ \A m \in Live' : m \in sups[n] <=> n \in subs[m]
  <2> SUFFICES ASSUME NEW n \in Live'
               PROVE  /\ n \notin sups[n]
                      /\ sups[n] \cup subs[n] \subseteq Live'
                      /\ \A m \in Live' : m \in sups[n] <=> n \in subs[m]
    OBVIOUS
  <2>1. n \in Var
    BY <1>2
  <2>2. CASE n \in Live
    <3>1. n \notin sups[n] /\ sups[n] \cup subs[n] \subseteq Live
      BY <1>1, <2>2 DEF EdgesMirrored
    <3>2. ASSUME NEW m \in Live', m \notin Live PROVE m \notin sups[n] /\ n \notin subs[m]
      BY <1>1, <1>2, <3>1, <3>2 DEF FreshIsBare
    <3>3. ASSUME NEW m \in Live PROVE m \in sups[n] <=> n \in subs[m]
      BY <1>1, <2>2 DEF EdgesMirrored
    <3> QED
      BY <1>2, <3>1, <3>2, <3>3
  <2>3. CASE n \notin Live
    <3>1. sups[n] = {} /\ subs[n] = {}
      BY <1>1, <1>2, <2>1, <2>3 DEF FreshIsBare
    <3>2. ASSUME NEW m \in Live' PROVE n \notin subs[m]
      <4>1. CASE m \in Live
        BY <1>1, <2>3, <4>1 DEF EdgesMirrored
      <4>2. CASE m \notin Live
        BY <1>1, <1>2, <4>2 DEF FreshIsBare
      <4> QED
        BY <4>1, <4>2
    <3> QED
      BY <3>1, <3>2
  <2> QED
    BY <2>2, <2>3
<1>5. CASE UNCHANGED <<sups, subs>>
  BY <1>1, <1>2, <1>3, <1>4, <1>5 DEF Irreflexive, FreshIsBare, EdgesMirrored
<1>6. CASE \E a, b \in Live' : a # b /\ Connect(a, b)
  <2>1. PICK a, b \in Live' : a # b /\ Connect(a, b)
    BY <1>6
  <2>2. a \in Var /\ b \in Var /\ node'[a] # None /\ node'[b] # None
    BY <1>2, <1>1, NodesInUse
  <2>3. /\ \A n \in Var : sups'[n] = IF n = a THEN sups[n] \cup {b} ELSE sups[n]
        /\ \A n \in Var : subs'[n] = IF n = b THEN subs[n] \cup {a} ELSE subs[n]
    BY <1>1, <2>1, <2>2 DEF Connect, TypeOK
  <2>4. Irreflexive'
    BY <1>1, <2>1, <2>3 DEF Irreflexive
  <2>5. FreshIsBare'
    BY <1>1, <1>3, <2>2, <2>3 DEF FreshIsBare
  <2>6. EdgesMirrored'
    <3> SUFFICES ASSUME NEW n \in Live'
                 PROVE  /\ n \notin sups'[n]
                        /\ sups'[n] \cup subs'[n] \subseteq Live'
                        /\ \A m \in Live' : m \in sups'[n] <=> n \in subs'[m]
      BY DEF EdgesMirrored
    <3>1. n \in Var /\ Live' \subseteq Var
      BY <1>2
    <3>2. n \notin sups'[n]
      BY <2>4, <3>1 DEF Irreflexive
    <3>3. sups'[n] \cup subs'[n] \subseteq Live'
      <4>1. sups[n] \cup subs[n] \subseteq Live'
        BY <1>4
      <4>2. sups'[n] \subseteq sups[n] \cup {b} /\ subs'[n] \subseteq subs[n] \cup {a}
        BY <2>3, <3>1
      <4> QED
        BY <2>1, <4>1, <4>2
    <3>4. ASSUME NEW m \in Live' PROVE m \in sups'[n] <=> n \in subs'[m]
      <4>1. m \in sups[n] <=> n \in subs[m]
        BY <1>4
      <4>2. m \in sups'[n] <=> m \in sups[n] \/ (n = a /\ m = b)
        BY <2>3, <3>1
      <4>3. n \in subs'[m] <=> n \in subs[m] \/ (m = b /\ n = a)
        BY <2>3, <3>1
      <4> QED
        BY <4>1, <4>2, <4>3
    <3> QED
      BY <3>2, <3>3, <3>4
  <2> QED
    BY <1>2, <2>4, <2>5, <2>6
<1> QED
  BY <1>5, <1>6

(* mergeNodes puts the one node in the place of the other.                 *)
LEMMA EdgesAfterMerge ==
  ASSUME ShapeInv, NEW n1 \in Live, NEW n2 \in Live, n1 # n2,
         node' = [v \in Var |-> IF node[v] = n2 THEN n1 ELSE node[v]],
         sups' = Renamed(sups, subs, n1, n2),
         subs' = Renamed(subs, sups, n1, n2)
  PROVE  /\ Irreflexive' /\ Representative' /\ FreshIsBare' /\ EdgesMirrored'
         /\ \A v \in Var : Known(v) => Known(v)'
         /\ Live' = Live \ {n2}
<1>1. /\ TypeOK /\ Irreflexive /\ Representative /\ FreshIsBare /\ EdgesMirrored
  BY DEF ShapeInv, GraphInv
<1>2. /\ Live \subseteq Var /\ None \notin Var
      /\ \A n : n \in Live <=> n \in Var /\ node[n] = n
  BY <1>1, NodesInUse, LiveNodes
<1>3. n1 \in Var /\ n2 \in Var /\ node[n1] = n1 /\ node[n2] = n2
  BY <1>2
<1>4. /\ \A v \in Var : node'[v] = IF node[v] = n2 THEN n1 ELSE node[v]
      /\ \A v \in Var : node'[v] = None <=> node[v] = None
  BY <1>2, <1>3
<1>5. Representative'
  <2> SUFFICES ASSUME NEW v \in Var, node'[v] # None PROVE node'[node'[v]] = node'[v]
    BY DEF Representative
  <2>1. node[v] # None /\ node[v] \in Var /\ node[node[v]] = node[v]
    BY <1>1, <1>4, NodesInUse DEF Representative, Known
  <2>2. CASE node[v] = n2
    BY <1>3, <1>4, <2>2
  <2>3. CASE node[v] # n2
    BY <1>4, <2>1, <2>3
  <2> QED
    BY <2>2, <2>3
<1>6. Live' = Live \ {n2}
  <2>1. ASSUME NEW n, n \in Live' PROVE n \in Live \ {n2}
    <3>1. PICK v \in Var : node'[v] = n /\ n # None
      BY <2>1 DEF Live
    <3>2. CASE node[v] = n2
      BY <1>4, <3>1, <3>2
    <3>3. CASE node[v] # n2
      BY <1>4, <3>1, <3>3 DEF Live
    <3> QED
      BY <3>2, <3>3
  <2>2. ASSUME NEW n \in Live, n # n2 PROVE n \in Live'
    <3>1. n \in Var /\ node[n] = n /\ n # None
      BY <1>2
    <3>2. node'[n] = n
      BY <1>4, <2>2, <3>1
    <3> QED
      BY <3>1, <3>2 DEF Live
  <2> QED
    BY <2>1, <2>2
<1>7. /\ \A n \in Var : sups'[n] = IF n = n1 THEN (sups[n1] \cup sups[n2]) \ {n1, n2}
                                   ELSE IF n \in subs[n2] THEN (sups[n] \ {n2}) \cup {n1}
                                   ELSE sups[n]
      /\ \A n \in Var : subs'[n] = IF n = n1 THEN (subs[n1] \cup subs[n2]) \ {n1, n2}
                                   ELSE IF n \in sups[n2] THEN (subs[n] \ {n2}) \cup {n1}
                                   ELSE subs[n]
  BY DEF Renamed
<1>8. Irreflexive'
  BY <1>1, <1>7 DEF Irreflexive
<1>9. subs[n2] \subseteq Live /\ sups[n2] \subseteq Live
  BY <1>1 DEF EdgesMirrored
<1>10. FreshIsBare'
  <2> SUFFICES ASSUME NEW v \in Var, node'[v] = None PROVE sups'[v] = {} /\ subs'[v] = {}
    BY DEF FreshIsBare
  <2>1. node[v] = None /\ sups[v] = {} /\ subs[v] = {}
    BY <1>1, <1>4 DEF FreshIsBare
  <2>2. v \notin Live
    BY <1>2, <2>1
  <2> QED
    BY <1>7, <1>9, <2>1, <2>2
<1>11. EdgesMirrored'
  <2> SUFFICES ASSUME NEW n \in Live'
               PROVE  /\ n \notin sups'[n]
                      /\ sups'[n] \cup subs'[n] \subseteq Live'
                      /\ \A m \in Live' : m \in sups'[n] <=> n \in subs'[m]
    BY DEF EdgesMirrored
  <2>1. n \in Live /\ n # n2 /\ n \in Var
    BY <1>2, <1>6
  <2>2. \A k \in Live : sups[k] \cup subs[k] \subseteq Live
    BY <1>1 DEF EdgesMirrored
  <2>3. \A k, m \in Live : m \in sups[k] <=> k \in subs[m]
    BY <1>1 DEF EdgesMirrored
  <2>4. n \notin sups'[n]
    BY <1>8, <2>1 DEF Irreflexive
  <2>5. sups'[n] \cup subs'[n] \subseteq Live'
    <3>1. n2 \notin sups'[n] /\ n2 \notin subs'[n]
      <4>1. CASE n = n1
        BY <1>7, <2>1, <4>1
      <4>2. CASE n # n1
        <5>1. n2 \in sups[n] <=> n \in subs[n2]
          BY <2>1, <2>3
        <5>2. n2 \in subs[n] <=> n \in sups[n2]
          BY <2>1, <2>3
        <5>6. sups'[n] = IF n \in subs[n2] THEN (sups[n] \ {n2}) \cup {n1} ELSE sups[n]
          BY <1>7, <2>1, <4>2
        <5>3. n2 \notin sups'[n]
          BY <1>2, <5>1, <5>6
        <5>4. subs'[n] = IF n \in sups[n2] THEN (subs[n] \ {n2}) \cup {n1} ELSE subs[n]
          BY <1>7, <2>1, <4>2
        <5>5. n2 \notin subs'[n]
          BY <5>2, <5>4
        <5> QED
          BY <5>3, <5>5
      <4> QED
        BY <4>1, <4>2
    <3>2. sups'[n] \subseteq sups[n1] \cup sups[n2] \cup sups[n] \cup {n1}
      BY <1>7, <2>1
    <3>3. subs'[n] \subseteq subs[n1] \cup subs[n2] \cup subs[n] \cup {n1}
      BY <1>7, <2>1
    <3>4. n1 \in Live /\ n2 \in Live
      BY <1>2
    <3> QED
      BY <1>6, <2>1, <2>2, <3>1, <3>2, <3>3, <3>4
  <2>6. ASSUME NEW m \in Live' PROVE m \in sups'[n] <=> n \in subs'[m]
    <3>1. m \in Live /\ m # n2 /\ m \in Var
      BY <1>2, <1>6
    <3>2. CASE n = n1 /\ m = n1
      BY <1>7, <2>1, <3>1, <3>2
    <3>3. CASE n = n1 /\ m # n1
      <4>1. m \in sups'[n] <=> m \in sups[n1] \/ m \in sups[n2]
        BY <1>7, <2>1, <3>1, <3>3
      <4>2. n \in subs'[m] <=> m \in sups[n2] \/ n1 \in subs[m]
        BY <1>7, <3>1, <3>3
      <4> QED
        BY <2>3, <3>1, <4>1, <4>2
    <3>4. CASE n # n1 /\ m = n1
      <4>1. m \in sups'[n] <=> n \in subs[n2] \/ n1 \in sups[n]
        BY <1>7, <2>1, <3>1, <3>4
      <4>2. n \in subs'[m] <=> n \in subs[n1] \/ n \in subs[n2]
        BY <1>7, <2>1, <3>1, <3>4
      <4> QED
        BY <2>1, <2>3, <4>1, <4>2
    <3>5. CASE n # n1 /\ m # n1
      <4>1. m \in sups'[n] <=> m \in sups[n]
        BY <1>7, <2>1, <3>1, <3>5
      <4>2. n \in subs'[m] <=> n \in subs[m]
        BY <1>7, <2>1, <3>1, <3>5
      <4> QED
        BY <2>1, <2>3, <3>1, <4>1, <4>2
    <3> QED
      BY <3>2, <3>3, <3>4, <3>5
  <2> QED
    BY <2>4, <2>5, <2>6
<1>12. \A v \in Var : Known(v) => Known(v)'
  BY <1>4 DEF Known
<1> QED
  BY <1>5, <1>6, <1>8, <1>10, <1>11, <1>12

-----------------------------------------------------------------------------
(* The calls in progress.                                                  *)

(* What a call must satisfy after a step to be the innermost one.          *)
InnermostNext(f) ==
  /\ NamedNext(f.list)
  /\ f.op \in {"kill", "search", "walk"} =>
       f.from \in Var /\ node'[f.from] # None /\ f.at \in Live'
  /\ f.op \in {"search", "walk"} => f.cur \in Var /\ f.cur # f.at

KnownKept == \A v \in Var : Known(v) => Known(v)'

(* The calls the innermost one interrupts are left as they are.            *)
LEMMA OuterCalls ==
  ASSUME ShapeInv, KnownKept, stack # <<>>
  PROVE  \A i \in 1..(Len(stack) - 1) :
           NamedNext(stack[i].list) /\ stack[i].op \notin {"kill", "search", "walk"}
<1>1. DOMAIN stack = 1..Len(stack) /\ Len(stack) \in Nat \ {0}
  BY TopFrame DEF ShapeInv
<1>2. \A i \in 1..(Len(stack) - 1) : Named(stack[i].list)
  BY <1>1 DEF ShapeInv, CallsInv, ListsNamed
<1> QED
  BY <1>2, StillNamed DEF KnownKept, ShapeInv, CallsInv, Buried

(* The innermost call goes on.                                             *)
LEMMA CallsAfterRetop ==
  ASSUME ShapeInv, KnownKept, stack # <<>>, NEW f \in FrameType, Retop(f), InnermostNext(f)
  PROVE  CallsInv'
<1>1. /\ Len(stack) \in Nat \ {0}
      /\ stack' # <<>> /\ Len(stack') = Len(stack) /\ DOMAIN stack' = 1..Len(stack)
      /\ \A i \in 1..(Len(stack) - 1) : stack'[i] = stack[i]
      /\ stack'[Len(stack)] = f /\ Top' = f
  BY TopFrame, Retopped DEF ShapeInv
<1>2. \A i \in 1..(Len(stack) - 1) :
        NamedNext(stack[i].list) /\ stack[i].op \notin {"kill", "search", "walk"}
  BY OuterCalls
<1>3. \A i \in DOMAIN stack' : NamedNext(stack'[i].list)
  <2> TAKE i \in DOMAIN stack'
  <2>1. CASE i = Len(stack)
    BY <1>1, <2>1 DEF InnermostNext
  <2>2. CASE i # Len(stack)
    BY <1>1, <1>2, <2>2
  <2> QED
    BY <2>1, <2>2
<1>4. ListsNamed'
  BY <1>3 DEF ListsNamed, Named, NamedNext, Known
<1>5. Buried'
  BY <1>1, <1>2 DEF Buried
<1>6. KillInv' /\ SearchInv'
  BY <1>1 DEF KillInv, SearchInv, In, InnermostNext, Known
<1> QED
  BY <1>4, <1>5, <1>6 DEF CallsInv

(* The innermost call goes on and makes a call.                            *)
LEMMA CallsAfterCall ==
  ASSUME ShapeInv, KnownKept, stack # <<>>, NEW f \in FrameType, NEW g \in FrameType,
         stack' = Append(Append(Front(stack), f), g),
         NamedNext(f.list), f.op \notin {"kill", "search", "walk"}, InnermostNext(g)
  PROVE  CallsInv'
<1>1. /\ Len(stack) \in Nat \ {0}
      /\ stack' # <<>> /\ Len(stack') = Len(stack) + 1
      /\ DOMAIN stack' = 1..(Len(stack) + 1)
      /\ \A i \in 1..(Len(stack) - 1) : stack'[i] = stack[i]
      /\ stack'[Len(stack)] = f /\ stack'[Len(stack) + 1] = g /\ Top' = g
  BY TopFrame, Called DEF ShapeInv
<1>2. \A i \in 1..(Len(stack) - 1) :
        NamedNext(stack[i].list) /\ stack[i].op \notin {"kill", "search", "walk"}
  BY OuterCalls
<1>3. \A i \in 1..Len(stack) :
        NamedNext(stack'[i].list) /\ stack'[i].op \notin {"kill", "search", "walk"}
  <2> TAKE i \in 1..Len(stack)
  <2>1. CASE i = Len(stack)
    BY <1>1, <2>1
  <2>2. CASE i # Len(stack)
    BY <1>1, <1>2, <2>2
  <2> QED
    BY <2>1, <2>2
<1>4. \A i \in DOMAIN stack' : NamedNext(stack'[i].list)
  <2> TAKE i \in DOMAIN stack'
  <2>1. CASE i = Len(stack) + 1
    BY <1>1, <2>1 DEF InnermostNext
  <2>2. CASE i # Len(stack) + 1
    BY <1>1, <1>3, <2>2
  <2> QED
    BY <2>1, <2>2
<1>5. ListsNamed'
  BY <1>4 DEF ListsNamed, Named, NamedNext, Known
<1>6. Buried'
  BY <1>1, <1>3 DEF Buried
<1>7. KillInv' /\ SearchInv'
  BY <1>1 DEF KillInv, SearchInv, In, InnermostNext, Known
<1> QED
  BY <1>5, <1>6, <1>7 DEF CallsInv

(* A constraint is added: one call.                                        *)
LEMMA CallsAfterFirst ==
  ASSUME NEW g \in FrameType, stack' = <<g>>, InnermostNext(g)
  PROVE  CallsInv'
<1>1. /\ stack' # <<>> /\ Len(stack') = 1 /\ DOMAIN stack' = {1}
      /\ stack'[1] = g /\ Top' = g
  BY OneCall DEF Top
<1>2. ListsNamed'
  BY <1>1 DEF ListsNamed, Named, NamedNext, Known, InnermostNext
<1>3. Buried'
  BY <1>1 DEF Buried
<1>4. KillInv' /\ SearchInv'
  BY <1>1 DEF KillInv, SearchInv, In, InnermostNext, Known
<1> QED
  BY <1>2, <1>3, <1>4 DEF CallsInv

(* The calls after a new call to killCyclesAt or propagateNodeChanges.     *)
LEMMA NewInnermost ==
  ASSUME NEW at \in Var, NEW from \in Var
  PROVE  /\ InnermostNext(Propagate(at))
         /\ at \in Live' /\ node'[from] # None => InnermostNext(Kill(at, from))
<1>1. NamedNext(<<>>)
  BY DEF NamedNext
<1> QED
  BY <1>1, NewFrames DEF InnermostNext

(* Where no path is looked for, none is kept.                              *)
LEMMA NoPathKept ==
  ASSUME ShapeInv, ~In("walk"), UNCHANGED path, ~In("walk")', ~In("search")'
  PROVE  PathInv'
  BY DEF ShapeInv, PathInv, NoWalk, WalkInv, ReachedLive

-----------------------------------------------------------------------------
(* Constraints that are added.                                             *)

LEMMA AddShape ==
  ASSUME ShapeInv, NEW c \in Input, Add(c)
  PROVE  ShapeInv'
<1>1. /\ c.type = "element" => c.elem \in Element /\ c.var \in Var
      /\ c.type = "subset" => c.from \in Var /\ c.to \in Var
      /\ c.type = "conditional" =>
           c.elem \in Element /\ c.in \in Var /\ c.from \in Var /\ c.to \in Var
  BY ConstraintParts
<1>2. /\ TypeOK /\ Irreflexive /\ Representative /\ FreshIsBare /\ WaitingNamed /\ EdgesMirrored
  BY DEF ShapeInv, GraphInv
<1>3. TypeOK'
  BY <1>2, AddType
<1>4. stack = <<>> /\ UNCHANGED path
  BY DEF Add, AddElement, AddConditional, AddSubset, Accept, searching
<1>5. ~In("walk")
  BY <1>4 DEF In
<1>6. ASSUME NEW V \in SUBSET Var, node' = WithNodes(V)
      PROVE  Grown /\ (\A v \in V : node'[v] \in Var) /\ KnownKept
  BY <1>2, <1>6, NodesAdded DEF Grown, KnownKept
<1>7. ASSUME Grown, UNCHANGED conds
      PROVE  WaitingNamed'
  <2>1. KnownKept
    BY <1>7 DEF Grown, KnownKept, Known
  <2>2. \A n \in Var : \A e \in Element : NamedNext(conds[n][e])
    BY <1>2, <2>1, StillNamed DEF WaitingNamed, KnownKept
  <2> QED
    BY <1>7, <2>2 DEF WaitingNamed, Named, NamedNext, Known
<1>8. CASE AddElement(c)
  <2>1. Grown /\ node'[c.var] \in Var
    BY <1>1, <1>6, <1>8 DEF AddElement
  <2>2. Irreflexive' /\ Representative' /\ FreshIsBare' /\ EdgesMirrored'
    BY <1>8, <2>1, EdgesAfterAdd DEF AddElement
  <2>3. WaitingNamed'
    BY <1>7, <1>8, <2>1 DEF AddElement
  <2>4. stack' = <<Propagate(node'[c.var])>>
    BY <1>8 DEF AddElement
  <2>5. CallsInv'
    BY <2>1, <2>4, NewFrames, NewInnermost, CallsAfterFirst
  <2>6. PathInv'
    <3>1. Top'.op = "activate"
      BY <2>1, <2>4, NewFrames, OneCall DEF Top
    <3> QED
      BY <1>4, <1>5, <3>1, NoPathKept DEF In
  <2> QED
    BY <1>3, <2>2, <2>3, <2>5, <2>6 DEF ShapeInv, GraphInv
<1>9. CASE AddConditional(c)
  <2> DEFINE V == {c.in, c.from, c.to}
  <2>1. V \in SUBSET Var /\ node' = WithNodes(V) /\ c.type = "conditional"
    BY <1>1, <1>9 DEF AddConditional
  <2>2. Grown /\ KnownKept /\ node'[c.in] \in Var /\ node'[c.from] \in Var /\ node'[c.to] \in Var
    BY <1>6, <2>1
  <2>3. Irreflexive' /\ Representative' /\ FreshIsBare' /\ EdgesMirrored'
    BY <1>9, <2>2, EdgesAfterAdd DEF AddConditional
  <2>4. WaitingNamed'
    <3> DEFINE n0 == node'[c.in]
               s0 == conds[n0][c.elem]
    <3>1. c.elem \in Element /\ c.from \in Var /\ c.to \in Var
      BY <1>1, <2>1
    <3>2. \A n \in Var : \A e \in Element : NamedNext(conds[n][e])
      BY <1>2, <2>2, StillNamed DEF WaitingNamed, KnownKept
    <3>3. s0 \in Seq(Var \X Var) /\ NamedNext(s0)
      BY <1>2, <2>2, <3>1, <3>2 DEF TypeOK
    <3>4. conds' = [conds EXCEPT ![n0][c.elem] = Append(s0, <<c.from, c.to>>)]
      BY <1>9 DEF AddConditional
    <3>5. NamedNext(Append(s0, <<c.from, c.to>>))
      <4> HIDE DEF s0
      <4>1. /\ Len(Append(s0, <<c.from, c.to>>)) = Len(s0) + 1
            /\ \A i \in 1..Len(s0) : Append(s0, <<c.from, c.to>>)[i] = s0[i]
            /\ Append(s0, <<c.from, c.to>>)[Len(s0) + 1] = <<c.from, c.to>>
            /\ Append(s0, <<c.from, c.to>>) \in Seq(Var \X Var)
        BY <3>1, <3>3, AddLast
      <4>2. /\ DOMAIN Append(s0, <<c.from, c.to>>) = 1..(Len(s0) + 1)
            /\ DOMAIN s0 = 1..Len(s0) /\ Len(s0) \in Nat
        BY <3>3, <4>1, LenProperties
      <4>3. node'[c.from] # None /\ node'[c.to] # None
        BY <1>2, <2>2, NodesInUse
      <4> QED
        BY <3>1, <3>3, <4>1, <4>2, <4>3 DEF NamedNext
    <3>6. \A n \in Var : \A e \in Element : NamedNext(conds'[n][e])
      <4> HIDE DEF n0, s0
      <4> TAKE n \in Var
      <4> TAKE e \in Element
      <4>1. CASE n = n0 /\ e = c.elem
        BY <1>2, <3>1, <3>4, <3>5, <4>1 DEF TypeOK
      <4>2. CASE ~(n = n0 /\ e = c.elem)
        <5>1. conds'[n][e] = conds[n][e]
          BY <1>2, <3>1, <3>4, <4>2 DEF TypeOK
        <5> QED
          BY <3>2, <5>1
      <4> QED
        BY <4>1, <4>2
    <3> QED
      BY <3>6 DEF WaitingNamed, Named, NamedNext, Known
  <2>5. stack' = <<Propagate(node'[c.in])>>
    BY <1>9 DEF AddConditional
  <2>6. CallsInv'
    BY <2>2, <2>5, NewFrames, NewInnermost, CallsAfterFirst
  <2>7. PathInv'
    <3>1. Top'.op = "activate"
      BY <2>2, <2>5, NewFrames, OneCall DEF Top
    <3> QED
      BY <1>4, <1>5, <3>1, NoPathKept DEF In
  <2> QED
    BY <1>3, <2>3, <2>4, <2>6, <2>7 DEF ShapeInv, GraphInv
<1>10. CASE AddSubset(c)
  <2> DEFINE a == node'[c.from]
             b == node'[c.to]
  <2>1. {c.from, c.to} \in SUBSET Var /\ node' = WithNodes({c.from, c.to}) /\ c.type = "subset"
    BY <1>1, <1>10 DEF AddSubset
  <2>2. Grown /\ a \in Var /\ b \in Var
    BY <1>6, <2>1
  <2>3. a \in Live' /\ b \in Live' /\ node'[c.from] # None /\ c.from \in Var
    BY <1>1, <1>2, <2>1, <2>2, NodesInUse DEF Live
  <2>4. \/ a = b /\ UNCHANGED <<sups, subs, stack>>
        \/ a # b /\ Connect(a, b) /\ stack' = <<Kill(a, c.from)>>
    BY <1>10 DEF AddSubset
  <2> HIDE DEF a, b
  <2>5. Irreflexive' /\ Representative' /\ FreshIsBare' /\ EdgesMirrored'
    BY <2>2, <2>3, <2>4, EdgesAfterAdd
  <2>6. WaitingNamed'
    BY <1>7, <1>10, <2>2 DEF AddSubset
  <2>7. CASE a = b /\ UNCHANGED <<sups, subs, stack>>
    <3>1. stack' = <<>>
      BY <1>4, <2>7
    <3>2. CallsInv'
      BY <3>1 DEF CallsInv, ListsNamed, Buried, KillInv, SearchInv, In
    <3>3. PathInv'
      BY <1>4, <1>5, <3>1, NoPathKept DEF In
    <3> QED
      BY <1>3, <2>5, <2>6, <3>2, <3>3 DEF ShapeInv, GraphInv
  <2>8. CASE a # b /\ Connect(a, b) /\ stack' = <<Kill(a, c.from)>>
    <3>1. Kill(a, c.from) \in FrameType /\ InnermostNext(Kill(a, c.from))
      BY <2>2, <2>3, NewFrames, NewInnermost
    <3>2. CallsInv'
      BY <2>8, <3>1, CallsAfterFirst
    <3>3. Top'.op = "kill"
      BY <2>2, <2>3, <2>8, <3>1, NewFrames, OneCall DEF Top
    <3>4. PathInv'
      BY <1>4, <1>5, <3>3, NoPathKept DEF In
    <3> QED
      BY <1>3, <2>5, <2>6, <3>2, <3>4 DEF ShapeInv, GraphInv
  <2> QED
    BY <2>4, <2>7, <2>8
<1> QED
  BY <1>8, <1>9, <1>10 DEF Add

-----------------------------------------------------------------------------
(* Steps that leave the graph as it is.                                    *)

(* The graph of nodes and edges is the same.                               *)
LEMMA SameGraph ==
  ASSUME ShapeInv, UNCHANGED <<node, sups, subs>>
  PROVE  /\ Irreflexive' /\ Representative' /\ FreshIsBare' /\ EdgesMirrored'
         /\ KnownKept /\ Live' = Live
         /\ UNCHANGED conds => WaitingNamed'
<1>1. Live' = Live
  BY DEF Live
<1>2. Irreflexive /\ Representative /\ FreshIsBare /\ WaitingNamed /\ EdgesMirrored
  BY DEF ShapeInv, GraphInv
<1>3. Irreflexive' /\ Representative' /\ FreshIsBare'
  BY <1>2 DEF Irreflexive, Representative, FreshIsBare
<1>4. EdgesMirrored'
  BY <1>1, <1>2 DEF EdgesMirrored
<1>5. KnownKept
  BY DEF KnownKept, Known
<1>6. UNCHANGED conds => WaitingNamed'
  BY <1>2 DEF WaitingNamed, Named, Known
<1> QED
  BY <1>1, <1>3, <1>4, <1>5, <1>6

(* What is known of the innermost call.                                    *)
LEMMA TopInv ==
  ASSUME ShapeInv, stack # <<>>
  PROVE  /\ TypeOK /\ Top \in FrameType /\ Top.at \in Var
         /\ KnownKept => NamedNext(Top.list)
         /\ Top.op \in {"kill", "search", "walk"} => Known(Top.from) /\ Top.at \in Live
         /\ Top.op \in {"search", "walk"} => Top.cur \in Var /\ Top.cur # Top.at
         /\ Top.op # "walk" => path = <<>>
<1>1. /\ TypeOK /\ Top \in FrameType /\ Len(stack) \in DOMAIN stack /\ Top = stack[Len(stack)]
  BY TopFrame DEF ShapeInv
<1>2. Named(Top.list)
  BY <1>1 DEF ShapeInv, CallsInv, ListsNamed
<1>3. KnownKept => NamedNext(Top.list)
  BY <1>2, StillNamed DEF KnownKept
<1>4. /\ Top.op \in {"kill", "search", "walk"} => Known(Top.from) /\ Top.at \in Live
      /\ Top.op \in {"search", "walk"} => Top.cur \in Var /\ Top.cur # Top.at
      /\ Top.op # "walk" => path = <<>>
  BY DEF ShapeInv, CallsInv, KillInv, SearchInv, PathInv, NoWalk, In
<1> QED
  BY <1>1, <1>3, <1>4, FrameSteps

LEMMA StartSearchShape ==
  ASSUME ShapeInv, StartSearch
  PROVE  ShapeInv'
<1>1. stack # <<>> /\ Top.op = "kill"
  BY DEF StartSearch, Running
<1>2. UNCHANGED <<node, sups, subs, conds, path>>
  BY DEF StartSearch, graph
<1>3. PICK t \in Ahead :
        /\ Visit(t, [n \in {t} |-> 0], <<>>)
        /\ Retop([Top EXCEPT !.op = "search", !.cur = t])
  BY Zenon DEF StartSearch
<1> DEFINE f == [Top EXCEPT !.op = "search", !.cur = t]
<1>4. /\ Top \in FrameType /\ Top.at \in Var /\ TypeOK /\ path = <<>>
      /\ Known(Top.from) /\ Top.at \in Live
  BY <1>1, TopInv
<1>5. t \in sups[Top.at] /\ t \in Live /\ t # Top.at /\ t \in Var
  BY <1>3, <1>4, NodesInUse DEF Ahead, ShapeInv, EdgesMirrored
<1>6. KnownKept /\ Live' = Live /\ NamedNext(Top.list)
  BY <1>1, <1>2, SameGraph, TopInv
<1>7. f \in FrameType
  BY <1>4, <1>5, FrameSteps
<1>8. f.op = "search" /\ f.cur = t /\ f.at = Top.at /\ f.from = Top.from /\ f.list = Top.list
  BY <1>4 DEF FrameType
<1>9. Retop(f)
  BY <1>3
<1> HIDE DEF f
<1>10. InnermostNext(f)
  BY <1>2, <1>4, <1>5, <1>6, <1>8 DEF InnermostNext, Known
<1>11. CallsInv'
  BY <1>1, <1>6, <1>7, <1>9, <1>10, CallsAfterRetop
<1>12. PathInv'
  <2>1. stack' # <<>> /\ Top' = f
    BY <1>1, <1>4, <1>7, <1>9, Retopped
  <2>2. DOMAIN dist' = {t} \cup sups[t]
    <3> DEFINE known == [n \in {t} |-> 0]
    <3>1. DOMAIN known = {t} /\ known \in [DOMAIN known -> Nat] /\ <<>> \in Seq(DOMAIN known)
      BY EmptySeq
    <3>2. Visit(t, known, <<>>)
      BY <1>3
    <3> HIDE DEF known
    <3> QED
      BY <1>4, <1>5, <3>1, <3>2, VisitType
  <2>3. DOMAIN dist' \subseteq Live'
    BY <1>5, <1>6, <2>2 DEF ShapeInv, EdgesMirrored
  <2> QED
    BY <1>2, <1>4, <1>8, <2>1, <2>3 DEF PathInv, NoWalk, WalkInv, ReachedLive, In
<1> QED
  BY <1>2, <1>11, <1>12, SameGraph, StartSearchType DEF ShapeInv, GraphInv

LEMMA SearchShape ==
  ASSUME ShapeInv, Search
  PROVE  ShapeInv'
<1>1. stack # <<>> /\ Top.op = "search"
  BY DEF Search, Running
<1>2. UNCHANGED <<node, sups, subs, conds>>
  BY DEF Search, graph
<1>3. /\ Top \in FrameType /\ TypeOK /\ path = <<>>
      /\ Known(Top.from) /\ Top.at \in Live /\ Top.cur \in Var /\ Top.cur # Top.at
  BY <1>1, TopInv
<1>4. KnownKept /\ Live' = Live /\ NamedNext(Top.list)
  BY <1>1, <1>2, SameGraph, TopInv
<1>5. TypeOK' /\ DOMAIN dist' = DOMAIN dist \cup sups[Head(queue)] /\ Head(queue) \in DOMAIN dist
  BY SearchType
<1>6. DOMAIN dist \subseteq Live
  BY <1>1 DEF ShapeInv, PathInv, ReachedLive, In
<1>7. DOMAIN dist' \subseteq Live'
  BY <1>4, <1>5, <1>6 DEF ShapeInv, EdgesMirrored
<1>8. CASE Top.at \in DOMAIN dist'
  <2> DEFINE f == [Top EXCEPT !.op = "walk"]
  <2>1. Retop(f) /\ path' = <<Top.at>>
    BY <1>8 DEF Search
  <2>2. f \in FrameType
    BY <1>3, FrameSteps
  <2>3. f.op = "walk" /\ f.cur = Top.cur /\ f.at = Top.at /\ f.from = Top.from /\ f.list = Top.list
    BY <1>3 DEF FrameType
  <2> HIDE DEF f
  <2>4. InnermostNext(f)
    BY <1>2, <1>3, <1>4, <2>3 DEF InnermostNext, Known
  <2>5. CallsInv'
    BY <1>1, <1>4, <2>1, <2>2, <2>4, CallsAfterRetop
  <2>6. stack' # <<>> /\ Top' = f
    BY <1>1, <1>3, <2>1, <2>2, Retopped
  <2>7. Len(path') = 1 /\ path'[1] = Top'.at /\ path'[1] \in Live'
    BY <1>3, <1>4, <2>1, <2>3, <2>6
  <2>8. PathInv'
    <3>1. WalkInv'
      BY <2>7 DEF WalkInv
    <3>2. NoWalk' /\ ReachedLive'
      BY <1>7, <2>3, <2>6 DEF NoWalk, ReachedLive, In
    <3> QED
      BY <3>1, <3>2 DEF PathInv
  <2> QED
    BY <1>2, <1>5, <2>5, <2>8, SameGraph DEF ShapeInv, GraphInv
<1>9. CASE Top.at \notin DOMAIN dist'
  <2>1. UNCHANGED <<stack, path>>
    BY <1>9 DEF Search
  <2>2. Top' = Top
    BY <2>1 DEF Top
  <2>3. CallsInv'
    BY <1>2, <1>4, <2>1, <2>2
       DEF ShapeInv, CallsInv, ListsNamed, Buried, KillInv, SearchInv, In, Named, Known
  <2>4. PathInv'
    BY <1>1, <1>3, <1>7, <2>1, <2>2 DEF PathInv, ReachedLive, NoWalk, WalkInv, In
  <2> QED
    BY <1>2, <1>5, <2>3, <2>4, SameGraph DEF ShapeInv, GraphInv
<1> QED
  BY <1>8, <1>9

LEMMA NoPathShape ==
  ASSUME ShapeInv, NoPath
  PROVE  ShapeInv'
<1>1. stack # <<>> /\ Top.op = "search"
  BY DEF NoPath, Running
<1>2. UNCHANGED <<node, sups, subs, conds, path>>
  BY DEF NoPath, graph
<1>3. Top \in FrameType /\ TypeOK /\ Known(Top.from) /\ Top.at \in Live
  BY <1>1, TopInv
<1>4. KnownKept /\ Live' = Live /\ NamedNext(Top.list)
  BY <1>1, <1>2, SameGraph, TopInv
<1> DEFINE f == [Top EXCEPT !.op = "kill"]
<1>5. Retop(f) /\ f \in FrameType
  BY <1>3, FrameSteps DEF NoPath
<1>6. f.op = "kill" /\ f.at = Top.at /\ f.from = Top.from /\ f.list = Top.list
  BY <1>3 DEF FrameType
<1> HIDE DEF f
<1>7. InnermostNext(f)
  BY <1>2, <1>3, <1>4, <1>6 DEF InnermostNext, Known
<1>8. CallsInv'
  BY <1>1, <1>4, <1>5, <1>7, CallsAfterRetop
<1>9. Top' = f
  BY <1>1, <1>3, <1>5, Retopped
<1>10. PathInv'
  BY <1>1, <1>2, <1>6, <1>9, NoPathKept DEF In
<1> QED
  BY <1>2, <1>8, <1>10, SameGraph, NoPathType DEF ShapeInv, GraphInv

LEMMA WalkBackShape ==
  ASSUME ShapeInv, WalkBack
  PROVE  ShapeInv'
<1>1. Running("walk") /\ UNCHANGED <<node, sups, subs, conds, stack, dist>>
  BY DEF WalkBack, graph
<1>2. /\ TypeOK /\ In("walk") /\ path \in Seq(DOMAIN dist) /\ Len(path) \in Nat \ {0}
      /\ Last(path) = path[Len(path)] /\ path[1] = Top.at
      /\ \A i \in 1..Len(path) : path[i] \in Var /\ path[i] \in Live /\ path[i] \in DOMAIN dist
  BY <1>1, PathShape
<1>3. \A i, j \in 1..Len(path) : i < j => dist[path[j]] < dist[path[i]]
  BY <1>2 DEF ShapeInv, PathInv, WalkInv
<1>4. PICK n \in DOMAIN dist :
        /\ First(n, subs[Last(path)] \cap DOMAIN dist)
        /\ path' = IF dist[n] = dist[Last(path)] - 1 THEN Append(path, n) ELSE path
  BY DEF WalkBack
<1>5. n \in Live
  BY <1>2, <1>4 DEF First, ShapeInv, EdgesMirrored
<1>6. Live' = Live /\ Top' = Top /\ In("walk")' /\ KnownKept
  BY <1>1, <1>2, SameGraph DEF Live, Top, In
<1>7. CallsInv'
  BY <1>1, <1>6
     DEF ShapeInv, CallsInv, ListsNamed, Buried, KillInv, SearchInv, In, Named, Known
<1>8. WalkInv'
  <2>1. CASE dist[n] = dist[Last(path)] - 1
    <3>1. path' = Append(path, n)
      BY <1>4, <2>1
    <3>2. /\ Len(path') = Len(path) + 1
          /\ \A i \in 1..Len(path) : path'[i] = path[i]
          /\ path'[Len(path) + 1] = n
      BY <1>2, <3>1, AddLast
    <3>3. \A i \in 1..Len(path) : dist[path[i]] \in Nat /\ dist[n] \in Nat
      BY <1>2 DEF TypeOK
    <3>4. \A i \in 1..Len(path) : dist[n] < dist[path[i]]
      <4> TAKE i \in 1..Len(path)
      <4>1. CASE i = Len(path)
        BY <1>2, <2>1, <3>3, <4>1
      <4>2. CASE i # Len(path)
        <5>1. dist[path[Len(path)]] < dist[path[i]]
          BY <1>2, <1>3, <4>2
        <5>2. dist[path[Len(path)]] \in Nat
          BY <1>2, <3>3
        <5> QED
          BY <1>2, <2>1, <3>3, <5>1, <5>2
      <4> QED
        BY <4>1, <4>2
    <3>5. \A i \in 1..Len(path') : path'[i] \in Live
      BY <1>2, <1>5, <3>2
    <3>6. \A i, j \in 1..Len(path') : i < j => dist[path'[j]] < dist[path'[i]]
      <4> TAKE i, j \in 1..Len(path')
      <4> HAVE i < j
      <4>1. i \in 1..Len(path)
        BY <1>2, <3>2
      <4>2. CASE j = Len(path) + 1
        BY <3>2, <3>4, <4>1, <4>2
      <4>3. CASE j # Len(path) + 1
        <5>1. j \in 1..Len(path)
          BY <1>2, <3>2, <4>3
        <5> QED
          BY <1>3, <3>2, <4>1, <5>1
      <4> QED
        BY <4>2, <4>3
    <3>7. Len(path') > 0 /\ path'[1] = Top.at
      BY <1>2, <3>2
    <3> QED
      BY <1>1, <1>6, <3>5, <3>6, <3>7 DEF WalkInv
  <2>2. CASE dist[n] # dist[Last(path)] - 1
    <3>1. path' = path
      BY <1>4, <2>2
    <3> QED
      BY <1>1, <1>2, <1>3, <1>6, <3>1 DEF WalkInv
  <2> QED
    BY <2>1, <2>2
<1>9. PathInv'
  BY <1>6, <1>8 DEF PathInv, NoWalk, ReachedLive, In
<1> QED
  BY <1>1, <1>7, <1>9, SameGraph, WalkBackType DEF ShapeInv, GraphInv

-----------------------------------------------------------------------------
(* Steps that change the graph.                                            *)

(* mergeNodes appends the constraints that wait at the node merged away.   *)
LEMMA MergedWaiting ==
  ASSUME ShapeInv, KnownKept, NEW n1 \in Var, NEW n2 \in Var,
         conds' = [conds EXCEPT ![n1] = [e \in Element |-> @[e] \o conds[n2][e]]]
  PROVE  WaitingNamed'
<1>1. TypeOK /\ WaitingNamed
  BY DEF ShapeInv, GraphInv
<1>2. \A n \in Var : \A e \in Element :
        NamedNext(conds[n][e]) /\ conds[n][e] \in Seq(Var \X Var)
  BY <1>1, StillNamed DEF WaitingNamed, KnownKept, TypeOK
<1>3. \A e \in Element : NamedNext(conds[n1][e] \o conds[n2][e])
  <2> TAKE e \in Element
  <2> DEFINE s == conds[n1][e]
             t == conds[n2][e]
  <2>1. s \in Seq(Var \X Var) /\ t \in Seq(Var \X Var) /\ NamedNext(s) /\ NamedNext(t)
    BY <1>2
  <2> SUFFICES NamedNext(s \o t)
    OBVIOUS
  <2> HIDE DEF s, t
  <2>2. /\ s \o t \in Seq(Var \X Var) /\ Len(s \o t) = Len(s) + Len(t)
        /\ \A i \in 1..(Len(s) + Len(t)) :
             (s \o t)[i] = IF i <= Len(s) THEN s[i] ELSE t[i - Len(s)]
    BY <2>1, ConcatProperties
  <2>3. /\ DOMAIN (s \o t) = 1..(Len(s) + Len(t)) /\ DOMAIN s = 1..Len(s) /\ DOMAIN t = 1..Len(t)
        /\ Len(s) \in Nat /\ Len(t) \in Nat
    BY <2>1, <2>2, LenProperties
  <2>4. \A i \in DOMAIN (s \o t) :
          \/ i \in DOMAIN s /\ (s \o t)[i] = s[i]
          \/ i - Len(s) \in DOMAIN t /\ (s \o t)[i] = t[i - Len(s)]
    BY <2>2, <2>3
  <2> QED
    BY <2>1, <2>4 DEF NamedNext
<1>4. \A n \in Var : \A e \in Element :
        conds'[n][e] = IF n = n1 THEN conds[n1][e] \o conds[n2][e] ELSE conds[n][e]
  BY <1>1 DEF TypeOK
<1>5. \A n \in Var : \A e \in Element : NamedNext(conds'[n][e])
  <2> TAKE n \in Var
  <2> TAKE e \in Element
  <2>1. CASE n = n1
    <3>1. conds'[n][e] = conds[n1][e] \o conds[n2][e]
      BY <1>4, <2>1
    <3> QED
      BY <1>3, <3>1
  <2>2. CASE n # n1
    <3>1. conds'[n][e] = conds[n][e]
      BY <1>4, <2>2
    <3> QED
      BY <1>2, <3>1
  <2> QED
    BY <2>1, <2>2
<1> QED
  BY <1>5 DEF WaitingNamed, Named, NamedNext, Known

LEMMA MergeShape ==
  ASSUME ShapeInv, MergeNodes
  PROVE  ShapeInv'
<1> DEFINE n1 == path[Len(path)]
           n2 == path[Len(path) - 1]
<1>1. /\ Len(path) \in Nat \ {0, 1} /\ Last(path) = n1 /\ n1 # n2
      /\ n1 \in Live /\ n2 \in Live /\ n1 \in Var /\ n2 \in Var /\ n1 = Top.cur
  BY MergedNodes
<1>2. /\ TypeOK /\ stack # <<>> /\ Top \in FrameType /\ In("walk")
      /\ path \in Seq(DOMAIN dist) /\ path # <<>>
      /\ \A i \in 1..Len(path) : path[i] \in Var /\ path[i] \in Live /\ path[i] \in DOMAIN dist
      /\ path[1] = Top.at /\ Top.cur # Top.at /\ Top.at \in Live /\ Known(Top.from)
  BY PathShape DEF MergeNodes
<1>3. /\ node' = [v \in Var |-> IF node[v] = n2 THEN n1 ELSE node[v]]
      /\ conds' = [conds EXCEPT ![n1] = [e \in Element |-> @[e] \o conds[n2][e]]]
      /\ sups' = Renamed(sups, subs, n1, n2)
      /\ subs' = Renamed(subs, sups, n1, n2)
  BY <1>1 DEF MergeNodes
<1>4. /\ Irreflexive' /\ Representative' /\ FreshIsBare' /\ EdgesMirrored'
      /\ KnownKept /\ Live' = Live \ {n2}
  <2>1. /\ Irreflexive' /\ Representative' /\ FreshIsBare' /\ EdgesMirrored'
        /\ \A v \in Var : Known(v) => Known(v)'
        /\ Live' = Live \ {n2}
    BY <1>1, <1>3, EdgesAfterMerge
  <2> QED
    BY <2>1 DEF KnownKept
<1>5. WaitingNamed'
  BY <1>1, <1>3, <1>4, MergedWaiting
<1>6. NamedNext(Top.list) /\ node'[Top.from] # None /\ Top.from \in Var
  BY <1>2, <1>4, TopInv DEF KnownKept, Known
<1>7. CASE Len(path) = 2
  <2>1. Retop(Kill(n1, Top.from)) /\ path' = <<>>
    BY <1>1, <1>7 DEF MergeNodes
  <2>2. /\ Kill(n1, Top.from) \in FrameType /\ Kill(n1, Top.from).op = "kill"
        /\ InnermostNext(Kill(n1, Top.from))
    BY <1>1, <1>4, <1>6, NewFrames, NewInnermost
  <2>3. CallsInv'
    BY <1>2, <1>4, <2>1, <2>2, CallsAfterRetop
  <2>4. Top' = Kill(n1, Top.from)
    BY <1>2, <2>1, <2>2, Retopped
  <2>5. PathInv'
    BY <2>1, <2>2, <2>4 DEF PathInv, ReachedLive, NoWalk, WalkInv, In
  <2> QED
    BY <1>4, <1>5, <2>3, <2>5, MergeType DEF ShapeInv, GraphInv
<1>8. CASE Len(path) # 2
  <2>1. path' = Append(Front(Front(path)), n1) /\ UNCHANGED <<stack, dist, queue>>
    BY <1>1, <1>8 DEF MergeNodes
  <2>2. Top' = Top /\ In("walk")'
    BY <1>2, <2>1 DEF Top, In
  <2>3. Top.at # n2 /\ Top.at \in Live'
    <3> DEFINE L == Len(path)
    <3>1. L \in Nat /\ L # 0 /\ L # 1 /\ L # 2
      BY <1>1, <1>8
    <3>2. dist[path[L - 1]] < dist[path[1]] /\ dist[path[L - 1]] \in Nat
      <4> HIDE DEF L
      <4>1. L - 1 \in 1..L /\ 1 \in 1..L /\ 1 < L - 1
        BY <3>1
      <4> QED
        BY <1>2, <4>1 DEF L, ShapeInv, PathInv, WalkInv, TypeOK
    <3>3. path[L - 1] # path[1]
      BY <3>2
    <3> QED
      BY <1>2, <1>4, <3>3
  <2>4. CallsInv'
    <3>1. \A i \in 1..(Len(stack) - 1) :
            NamedNext(stack[i].list) /\ stack[i].op \notin {"kill", "search", "walk"}
      BY <1>2, <1>4, OuterCalls
    <3>2. Top = stack[Len(stack)] /\ DOMAIN stack = 1..Len(stack) /\ Len(stack) \in Nat \ {0}
      BY <1>2, TopFrame
    <3>3. \A i \in DOMAIN stack : NamedNext(stack[i].list)
      <4> TAKE i \in DOMAIN stack
      <4>1. CASE i = Len(stack)
        BY <1>6, <3>2, <4>1
      <4>2. CASE i # Len(stack)
        BY <3>1, <3>2, <4>2
      <4> QED
        BY <4>1, <4>2
    <3>4. ListsNamed'
      BY <2>1, <3>3 DEF ListsNamed, Named, NamedNext, Known
    <3>5. Buried'
      BY <2>1, <3>1 DEF Buried
    <3>6. KillInv' /\ SearchInv'
      BY <1>1, <1>2, <1>6, <2>2, <2>3 DEF KillInv, SearchInv, In, Known
    <3> QED
      BY <3>4, <3>5, <3>6 DEF CallsInv
  <2>5. /\ Len(path') = Len(path) - 1
        /\ \A i \in 1..(Len(path) - 2) : path'[i] = path[i]
        /\ path'[Len(path) - 1] = n1
    <3>1. /\ Front(path) \in Seq(DOMAIN dist) /\ Len(Front(path)) = Len(path) - 1
          /\ \A i \in 1..(Len(path) - 1) : Front(path)[i] = path[i]
      BY <1>2, LastFront
    <3>2. Front(path) # <<>>
      <4>1. Len(Front(path)) # 0
        BY <1>1, <3>1
      <4> QED
        BY <3>1, <4>1, EmptySeq
    <3>3. /\ Front(Front(path)) \in Seq(DOMAIN dist) /\ Len(Front(Front(path))) = Len(path) - 2
          /\ \A i \in 1..(Len(path) - 2) : Front(Front(path))[i] = path[i]
      <4>1. /\ Front(Front(path)) \in Seq(DOMAIN dist)
            /\ Len(Front(Front(path))) = Len(Front(path)) - 1
            /\ \A i \in 1..(Len(Front(path)) - 1) : Front(Front(path))[i] = Front(path)[i]
        BY <3>1, <3>2, LastFront
      <4> DEFINE L == Len(path)
      <4>2. L \in Nat /\ L - 1 - 1 = L - 2 /\ \A i \in 1..(L - 2) : i \in 1..(L - 1)
        BY <1>1
      <4>3. Len(Front(path)) - 1 = L - 2
        BY <3>1, <4>2
      <4> QED
        BY <3>1, <4>1, <4>2, <4>3
    <3>4. n1 \in DOMAIN dist
      BY <1>1, <1>2
    <3>5. /\ Len(path') = Len(Front(Front(path))) + 1
          /\ \A i \in 1..Len(Front(Front(path))) : path'[i] = Front(Front(path))[i]
          /\ path'[Len(Front(Front(path))) + 1] = n1
      BY <2>1, <3>3, <3>4, AddLast
    <3>6. (Len(path) - 2) + 1 = Len(path) - 1
      BY <1>1
    <3> QED
      BY <3>3, <3>5, <3>6
  <2>6. WalkInv'
    <3> DEFINE L == Len(path)
    <3>1. L \in Nat /\ L # 0 /\ L # 1 /\ L # 2
      BY <1>1, <1>8
    <3>2. \A i, j \in 1..L : i < j => dist[path[j]] < dist[path[i]]
      BY <1>2 DEF ShapeInv, PathInv, WalkInv
    <3>3. \A i \in 1..L : dist[path[i]] \in Nat
      BY <1>2 DEF TypeOK
    <3>4. /\ Len(path') = L - 1
          /\ \A i \in 1..(L - 2) : path'[i] = path[i]
          /\ path'[L - 1] = path[L]
      BY <2>5
    <3>5. \A i \in 1..L : path[i] \in Live
      BY <1>2
    <3>6. Live' = Live \ {path[L - 1]} /\ path[1] = Top.at
      BY <1>2, <1>4
    <3> HIDE DEF L
    <3>7. \A i \in 1..L : i # L - 1 => path[i] # path[L - 1]
      <4> TAKE i \in 1..L
      <4> HAVE i # L - 1
      <4>1. L - 1 \in 1..L /\ (i < L - 1 \/ L - 1 < i)
        BY <3>1
      <4> QED
        BY <3>2, <3>3, <4>1
    <3>8. \A i \in 1..(L - 1) : path'[i] \in Live'
      <4> TAKE i \in 1..(L - 1)
      <4>1. CASE i = L - 1
        BY <3>1, <3>4, <3>5, <3>6, <3>7, <4>1
      <4>2. CASE i # L - 1
        BY <3>1, <3>4, <3>5, <3>6, <3>7, <4>2
      <4> QED
        BY <4>1, <4>2
    <3>9. \A i, j \in 1..(L - 1) : i < j => dist'[path'[j]] < dist'[path'[i]]
      <4> TAKE i, j \in 1..(L - 1)
      <4> HAVE i < j
      <4>1. i \in 1..(L - 2) /\ i \in 1..L /\ path'[i] = path[i]
        BY <3>1, <3>4
      <4>2. CASE j = L - 1
        <5>1. path'[j] = path[L] /\ L \in 1..L /\ i < L
          BY <3>1, <3>4, <4>2
        <5> QED
          BY <2>1, <3>2, <4>1, <5>1
      <4>3. CASE j # L - 1
        <5>1. path'[j] = path[j] /\ j \in 1..L
          BY <3>1, <3>4, <4>3
        <5> QED
          BY <2>1, <3>2, <4>1, <5>1
      <4> QED
        BY <4>2, <4>3
    <3>10. Len(path') > 0 /\ path'[1] = Top'.at
      BY <2>2, <3>1, <3>4, <3>6
    <3> QED
      BY <3>4, <3>8, <3>9, <3>10 DEF WalkInv
  <2>7. PathInv'
    BY <2>2, <2>6 DEF PathInv, ReachedLive, NoWalk, In
  <2> QED
    BY <1>4, <1>5, <2>4, <2>7, MergeType DEF ShapeInv, GraphInv
<1> QED
  BY <1>7, <1>8

LEMMA ActivateShape ==
  ASSUME ShapeInv, Activate
  PROVE  ShapeInv'
<1> DEFINE from == Head(Top.list)[1]
           to   == Head(Top.list)[2]
           f    == [Top EXCEPT !.list = Tail(@)]
<1>1. /\ stack # <<>> /\ Top.op = "activate" /\ Running("activate") /\ Top.list # <<>>
      /\ UNCHANGED <<node, conds, path>>
  BY DEF Activate, Running, searching
<1>2. /\ from \in Var /\ Known(from) /\ Known(to) /\ to \in Var
      /\ Named(Tail(Top.list)) /\ f = [Top EXCEPT !.list = Tail(Top.list)] /\ f \in FrameType
  BY <1>1, NextConstraint
<1>3. TypeOK /\ Top \in FrameType /\ Representative /\ path = <<>>
  BY <1>1, TopInv DEF ShapeInv, GraphInv
<1>4. f.op = "activate" /\ f.list = Tail(Top.list)
  BY <1>1, <1>2, <1>3 DEF FrameType
<1>5. KnownKept /\ Live' = Live /\ Grown
  BY <1>1, <1>3 DEF KnownKept, Known, Live, Grown, TypeOK
<1>6. NamedNext(Tail(Top.list))
  BY <1>2, <1>5, StillNamed DEF KnownKept
<1>7. node[from] \in Live' /\ node[to] \in Live' /\ node[from] \in Var /\ node'[from] # None
  BY <1>1, <1>2, <1>3, <1>5, NodesInUse DEF Known
<1>8. \/ node[from] = node[to] /\ UNCHANGED <<sups, subs>> /\ Retop(f)
      \/ /\ node[from] # node[to]
         /\ Connect(node[from], node[to])
         /\ stack' = Append(Append(Front(stack), f), Kill(node[from], from))
  BY DEF Activate, Retop
<1> HIDE DEF from, to, f
<1>9. Irreflexive' /\ Representative' /\ FreshIsBare' /\ EdgesMirrored'
  BY <1>5, <1>7, <1>8, EdgesAfterAdd
<1>10. WaitingNamed'
  BY <1>1 DEF ShapeInv, GraphInv, WaitingNamed, Named, Known
<1>11. CASE Retop(f)
  <2>1. InnermostNext(f)
    BY <1>4, <1>6 DEF InnermostNext
  <2>2. CallsInv'
    BY <1>1, <1>2, <1>5, <1>11, <2>1, CallsAfterRetop
  <2>3. Top' = f
    BY <1>1, <1>2, <1>3, <1>11, Retopped
  <2>4. PathInv'
    BY <1>1, <1>4, <2>3, NoPathKept DEF In
  <2> QED
    BY <1>9, <1>10, <2>2, <2>4, ActivateType DEF ShapeInv, GraphInv
<1>12. CASE stack' = Append(Append(Front(stack), f), Kill(node[from], from))
  <2>1. /\ Kill(node[from], from) \in FrameType /\ Kill(node[from], from).op = "kill"
        /\ InnermostNext(Kill(node[from], from))
    BY <1>2, <1>7, NewFrames, NewInnermost
  <2>2. NamedNext(f.list) /\ f.op \notin {"kill", "search", "walk"}
    BY <1>4, <1>6
  <2>3. CallsInv'
    BY <1>1, <1>2, <1>5, <1>12, <2>1, <2>2, CallsAfterCall
  <2>4. Top' = Kill(node[from], from)
    BY <1>1, <1>2, <1>3, <1>12, <2>1, Called
  <2>5. PathInv'
    BY <1>1, <2>1, <2>4, NoPathKept DEF In
  <2> QED
    BY <1>9, <1>10, <2>3, <2>5, ActivateType DEF ShapeInv, GraphInv
<1> QED
  BY <1>8, <1>11, <1>12

LEMMA LoopShape ==
  ASSUME ShapeInv, NoCycle \/ TakeConstraints \/ StartPush \/ PushNext \/ Return \/ IteratorLost
  PROVE  ShapeInv'
<1>1. /\ stack # <<>> /\ Top.op \in {"kill", "activate", "push"}
      /\ UNCHANGED <<node, sups, subs, path>>
  BY DEF NoCycle, TakeConstraints, StartPush, PushNext, Return, IteratorLost, Running,
         graph, searching
<1>2. /\ TypeOK /\ Top \in FrameType /\ Top.at \in Var /\ path = <<>> /\ TypeOK'
      /\ Representative
  BY <1>1, TopInv, LoopType DEF ShapeInv, GraphInv
<1>3. /\ Irreflexive' /\ Representative' /\ FreshIsBare' /\ EdgesMirrored'
      /\ KnownKept /\ Live' = Live /\ NamedNext(Top.list)
      /\ UNCHANGED conds => WaitingNamed'
  BY <1>1, SameGraph, TopInv
<1>4. ASSUME NEW f \in FrameType, Retop(f), InnermostNext(f),
             f.op \notin {"search", "walk"}
      PROVE  CallsInv' /\ PathInv'
  <2>1. CallsInv'
    BY <1>1, <1>3, <1>4, CallsAfterRetop
  <2>2. Top' = f
    BY <1>1, <1>2, <1>4, Retopped
  <2> QED
    BY <1>1, <1>4, <2>1, <2>2, NoPathKept DEF In
<1>5. CASE NoCycle
  <2>1. Known(Top.from) /\ node[Top.from] \in Var
    <3>1. Top.op = "kill"
      BY <1>5 DEF NoCycle, Running
    <3> QED
      BY <1>1, <1>2, <3>1, TopInv, NodesInUse DEF Known
  <2>2. /\ Propagate(node[Top.from]) \in FrameType
        /\ Propagate(node[Top.from]).op = "activate"
        /\ InnermostNext(Propagate(node[Top.from]))
    BY <2>1, NewFrames, NewInnermost
  <2>3. Retop(Propagate(node[Top.from])) /\ UNCHANGED conds
    BY <1>5 DEF NoCycle, graph
  <2> QED
    BY <1>2, <1>3, <1>4, <2>2, <2>3 DEF ShapeInv, GraphInv
<1>6. CASE TakeConstraints
  <2>1. PICK e \in Waiting :
          /\ Retop([Top EXCEPT !.elem = e + 1, !.list = conds[Top.at][e]])
          /\ conds' = [conds EXCEPT ![Top.at][e] = <<>>]
    BY <1>6 DEF TakeConstraints
  <2> DEFINE f == [Top EXCEPT !.elem = e + 1, !.list = conds[Top.at][e]]
  <2>2. e \in Element /\ conds[Top.at][e] \in Seq(Var \X Var) /\ f \in FrameType
    <3>1. e \in Element
      BY <1>2, <2>1 DEF Waiting, TypeOK
    <3>2. conds[Top.at][e] \in Seq(Var \X Var)
      BY <1>2, <3>1 DEF TypeOK
    <3> QED
      BY <1>2, <3>1, <3>2, FrameSteps
  <2>3. f.op = "activate" /\ f.list = conds[Top.at][e]
    BY <1>2, <1>6 DEF FrameType, TakeConstraints, Running
  <2>4. Retop(f)
    BY <2>1
  <2> HIDE DEF f
  <2>5. NamedNext(conds[Top.at][e])
    BY <1>2, <1>3, <2>2, StillNamed DEF KnownKept, ShapeInv, GraphInv, WaitingNamed
  <2>6. InnermostNext(f)
    BY <2>3, <2>5 DEF InnermostNext
  <2>7. WaitingNamed'
    <3>1. \A n \in Var : \A d \in Element : conds'[n][d] = <<>> \/ conds'[n][d] = conds[n][d]
      BY <1>2, <2>1, <2>2 DEF TypeOK
    <3>2. \A n \in Var : \A d \in Element : NamedNext(conds[n][d])
      BY <1>3, StillNamed DEF KnownKept, ShapeInv, GraphInv, WaitingNamed
    <3>3. \A n \in Var : \A d \in Element : NamedNext(conds'[n][d])
      BY <3>1, <3>2 DEF NamedNext
    <3> QED
      BY <3>3 DEF WaitingNamed, Named, NamedNext, Known
  <2> QED
    BY <1>2, <1>3, <1>4, <2>2, <2>3, <2>4, <2>6, <2>7 DEF ShapeInv, GraphInv
<1>7. CASE StartPush
  <2> DEFINE f == [Top EXCEPT !.op = "push"]
  <2>1. Retop(f) /\ UNCHANGED conds /\ f \in FrameType
    BY <1>2, <1>7, FrameSteps DEF StartPush, graph
  <2>2. f.op = "push" /\ f.list = Top.list
    BY <1>2 DEF FrameType
  <2> HIDE DEF f
  <2>3. InnermostNext(f)
    BY <1>3, <2>2 DEF InnermostNext
  <2> QED
    BY <1>2, <1>3, <1>4, <2>1, <2>2, <2>3 DEF ShapeInv, GraphInv
<1>8. CASE PushNext
  <2>1. PICK s \in Ahead :
          stack' = Append(Append(Front(stack), [Top EXCEPT !.cur = s]), Propagate(s))
    BY <1>8 DEF PushNext
  <2> DEFINE f == [Top EXCEPT !.cur = s]
  <2>2. s \in Var /\ f \in FrameType
    BY <1>2, <2>1, FrameSteps DEF Ahead, TypeOK
  <2>3. f.op = "push" /\ f.list = Top.list
    BY <1>2, <1>8 DEF FrameType, PushNext, Running
  <2>4. stack' = Append(Append(Front(stack), f), Propagate(s)) /\ UNCHANGED conds
    BY <1>8, <2>1 DEF PushNext
  <2> HIDE DEF f
  <2>5. /\ Propagate(s) \in FrameType /\ Propagate(s).op = "activate"
        /\ InnermostNext(Propagate(s))
    BY <2>2, NewFrames, NewInnermost
  <2>6. CallsInv'
    BY <1>1, <1>3, <2>2, <2>3, <2>4, <2>5, CallsAfterCall
  <2>7. Top' = Propagate(s)
    BY <1>1, <1>2, <2>2, <2>4, <2>5, Called
  <2>8. PathInv'
    BY <1>1, <2>5, <2>7, NoPathKept DEF In
  <2> QED
    BY <1>2, <1>3, <2>4, <2>6, <2>8 DEF ShapeInv, GraphInv
<1>9. CASE Return
  <2>1. stack' = Front(stack) /\ UNCHANGED conds
    BY <1>9 DEF Return, graph
  <2>2. /\ DOMAIN stack' = 1..(Len(stack) - 1) /\ Len(stack') = Len(stack) - 1
        /\ \A i \in 1..(Len(stack) - 1) : stack'[i] = stack[i]
        /\ stack' # <<>> => /\ Top' = stack[Len(stack) - 1]
                            /\ Len(stack) - 1 \in 1..(Len(stack) - 1)
    BY <1>1, <1>2, <2>1, Returned
  <2>3. \A i \in 1..(Len(stack) - 1) :
          NamedNext(stack[i].list) /\ stack[i].op \notin {"kill", "search", "walk"}
    BY <1>1, <1>3, OuterCalls
  <2>4. ListsNamed'
    BY <2>2, <2>3 DEF ListsNamed, Named, NamedNext, Known
  <2>5. Buried'
    <3>1. Len(stack) \in Nat \ {0}
      BY <1>1, <1>2, TopFrame
    <3> QED
      BY <2>2, <2>3, <3>1 DEF Buried
  <2>6. ~In("kill")' /\ ~In("search")' /\ ~In("walk")'
    BY <2>2, <2>3 DEF In
  <2>7. CallsInv' /\ PathInv'
    BY <1>1, <2>4, <2>5, <2>6, NoPathKept DEF CallsInv, KillInv, SearchInv, In
  <2> QED
    BY <1>2, <1>3, <2>1, <2>7 DEF ShapeInv, GraphInv
<1>10. CASE IteratorLost
  <2>1. UNCHANGED <<stack, conds, dist>>
    BY <1>10 DEF IteratorLost, graph, searching
  <2>2. Top' = Top
    BY <2>1 DEF Top
  <2>3. CallsInv'
    BY <1>1, <1>3, <2>1, <2>2
       DEF ShapeInv, CallsInv, ListsNamed, Buried, KillInv, SearchInv, In, Named, Known
  <2>4. PathInv'
    BY <1>1, <2>1, <2>2, NoPathKept DEF In
  <2> QED
    BY <1>2, <1>3, <2>1, <2>3, <2>4 DEF ShapeInv, GraphInv
<1> QED
  BY <1>5, <1>6, <1>7, <1>8, <1>9, <1>10

-----------------------------------------------------------------------------
(* The invariant holds.                                                    *)

LEMMA ShapeInit == Init => ShapeInv
<1> SUFFICES ASSUME Init PROVE ShapeInv
  OBVIOUS
<1>1. TypeOK
  <2>1. /\ node \in [Var -> Var \cup {None}] /\ bits \in [Var -> SUBSET Element]
        /\ sups \in [Var -> SUBSET Var] /\ subs \in [Var -> SUBSET Var]
        /\ lost \in BOOLEAN /\ missed \in BOOLEAN /\ asked \in SUBSET I!Constraint
    BY DEF Init
  <2>2. conds \in [Var -> [Element -> Seq(Var \X Var)]]
    BY EmptySeq DEF Init
  <2>3. dist = <<>> /\ DOMAIN dist = {}
    BY DEF Init
  <2>4. dist \in [DOMAIN dist -> Nat] /\ DOMAIN dist \subseteq Var
    BY <2>3
  <2>5. stack \in Seq(FrameType) /\ queue \in Seq(DOMAIN dist) /\ path \in Seq(DOMAIN dist)
    BY EmptySeq DEF Init
  <2> QED
    BY <2>1, <2>2, <2>4, <2>5 DEF TypeOK
<1>2. GraphInv
  BY DEF Init, GraphInv, Irreflexive, Representative, FreshIsBare, WaitingNamed, Named
<1>3. CallsInv /\ PathInv
  BY DEF Init, CallsInv, ListsNamed, Buried, KillInv, SearchInv, PathInv, ReachedLive, NoWalk,
         WalkInv, In
<1>4. EdgesMirrored
  BY DEF Init, EdgesMirrored, Live
<1> QED
  BY <1>1, <1>2, <1>3, <1>4 DEF ShapeInv

LEMMA ShapeStep == ShapeInv /\ [Next]_vars => ShapeInv'
<1> SUFFICES ASSUME ShapeInv, [Next]_vars PROVE ShapeInv'
  OBVIOUS
<1>1. CASE \E c \in Input : Add(c)
  BY <1>1, AddShape
<1>2. CASE Step
  BY <1>2, StartSearchShape, SearchShape, NoPathShape, WalkBackShape, MergeShape, LoopShape,
     ActivateShape DEF Step
<1>3. CASE UNCHANGED vars
  <2>1. UNCHANGED <<node, sups, subs, conds, stack, dist, path>>
    BY <1>3 DEF vars
  <2>2. Top' = Top /\ Live' = Live
    BY <2>1 DEF Top, Live
  <2>3. GraphInv' /\ EdgesMirrored'
    BY <2>1, SameGraph DEF GraphInv
  <2>4. CallsInv'
    BY <2>1, <2>2
       DEF ShapeInv, CallsInv, ListsNamed, Buried, KillInv, SearchInv, In, Named, Known
  <2>5. PathInv'
    BY <2>1, <2>2 DEF ShapeInv, PathInv, ReachedLive, NoWalk, WalkInv, In
  <2> QED
    BY <2>3, <2>4, <2>5, TypeStep DEF ShapeInv
<1> QED
  BY <1>1, <1>2, <1>3 DEF Next

LEMMA ShapeHolds == Spec => []ShapeInv
  BY ShapeInit, ShapeStep, PTL DEF Spec

(* The solver's structures keep their types: every call in progress is at  *)
(* a node, and every node that is looked up was made.                      *)
THEOREM TypeCorrect == Spec => []TypeOK
<1>1. ShapeInv => TypeOK
  BY DEF ShapeInv
<1> QED
  BY <1>1, ShapeHolds, PTL

(* The supersets and the subsets of the nodes in use agree after every     *)
(* step, mergeNodes' included, and none is its own superset: what          *)
(* propagateNodeChanges asserts.                                           *)
THEOREM EdgesAgree == Spec => []EdgesMirrored
<1>1. ShapeInv => EdgesMirrored
  BY DEF ShapeInv
<1> QED
  BY <1>1, ShapeHolds, PTL

-----------------------------------------------------------------------------
(* No element too many. S is any solution: what the solver holds, and what *)
(* it is about to do, fits S.                                              *)

Fits(S, list) == \A i \in DOMAIN list : S[list[i][1]] \subseteq S[list[i][2]]

NodesFit(S) == \A v \in Var : node[v] # None => S[node[v]] = S[v]
BitsFit(S) == \A n \in Var : bits[n] \subseteq S[n]
EdgesFit(S) ==
  \A n \in Var : /\ \A m \in sups[n] : S[n] \subseteq S[m]
                 /\ \A m \in subs[n] : S[m] \subseteq S[n]
WaitingFit(S) ==
  \A n \in Var : \A e \in Element : e \in S[n] => Fits(S, conds[n][e])
ListsFit(S) == \A i \in DOMAIN stack : Fits(S, stack[i].list)

(* What findPath reaches includes the source, which includes the target    *)
(* when there is an edge to it; on a cycle all are the same.               *)
SearchFits(S) ==
  In("search") \/ In("walk") =>
    /\ S[Top.at] \subseteq S[Top.cur]
    /\ \A n \in DOMAIN dist : S[Top.cur] \subseteq S[n]
WalkFits(S) == In("walk") => \A i \in 1..Len(path) : S[path[i]] = S[Top.cur]

Sound(S) ==
  /\ NodesFit(S) /\ BitsFit(S) /\ EdgesFit(S) /\ WaitingFit(S) /\ ListsFit(S)
  /\ SearchFits(S) /\ WalkFits(S)

(* The lists of the calls.                                                 *)
LEMMA ListsAfterRetop ==
  ASSUME ShapeInv, NEW S, ListsFit(S), stack # <<>>,
         NEW f \in FrameType, Retop(f), Fits(S, f.list)
  PROVE  ListsFit(S)'
<1>1. /\ DOMAIN stack' = 1..Len(stack) /\ DOMAIN stack = 1..Len(stack)
      /\ Len(stack) \in Nat \ {0}
      /\ \A i \in 1..(Len(stack) - 1) : stack'[i] = stack[i]
      /\ stack'[Len(stack)] = f
  BY TopFrame, Retopped DEF ShapeInv
<1>2. \A i \in DOMAIN stack' : Fits(S, stack'[i].list)
  <2> TAKE i \in DOMAIN stack'
  <2>1. CASE i = Len(stack)
    BY <1>1, <2>1
  <2>2. CASE i # Len(stack)
    BY <1>1, <2>2 DEF ListsFit
  <2> QED
    BY <2>1, <2>2
<1> QED
  BY <1>2 DEF ListsFit, Fits

LEMMA ListsAfterCall ==
  ASSUME ShapeInv, NEW S, ListsFit(S), stack # <<>>,
         NEW f \in FrameType, NEW g \in FrameType,
         stack' = Append(Append(Front(stack), f), g),
         Fits(S, f.list), Fits(S, g.list)
  PROVE  ListsFit(S)'
<1>1. /\ DOMAIN stack' = 1..(Len(stack) + 1) /\ DOMAIN stack = 1..Len(stack)
      /\ Len(stack) \in Nat \ {0}
      /\ \A i \in 1..(Len(stack) - 1) : stack'[i] = stack[i]
      /\ stack'[Len(stack)] = f /\ stack'[Len(stack) + 1] = g
  BY TopFrame, Called DEF ShapeInv
<1>2. \A i \in DOMAIN stack' : Fits(S, stack'[i].list)
  <2> TAKE i \in DOMAIN stack'
  <2>1. CASE i = Len(stack) \/ i = Len(stack) + 1
    BY <1>1, <2>1
  <2>2. CASE i # Len(stack) /\ i # Len(stack) + 1
    <3>1. Len(stack) \in Nat /\ i \in 1..(Len(stack) + 1)
      BY <1>1
    <3>2. i \in 1..(Len(stack) - 1)
      BY <2>2, <3>1
    <3>3. i \in 1..Len(stack)
      BY <3>1, <3>2
    <3>4. i \in DOMAIN stack
      BY <1>1, <3>3
    <3>5. stack'[i] = stack[i]
      BY <1>1, <3>2
    <3> QED
      BY <3>4, <3>5 DEF ListsFit
  <2> QED
    BY <2>1, <2>2
<1> QED
  BY <1>2 DEF ListsFit, Fits

(* Where no path is looked for, there is nothing to know of one.           *)
LEMMA NoSearchFits ==
  ASSUME NEW S, stack' = <<>> \/ Top'.op \notin {"search", "walk"}
  PROVE  SearchFits(S)' /\ WalkFits(S)'
  BY DEF SearchFits, WalkFits, In

(* The lists of the calls that were in progress.                           *)
LEMMA TopFits ==
  ASSUME ShapeInv, NEW S, ListsFit(S), stack # <<>>
  PROVE  Fits(S, Top.list)
  BY TopFrame DEF ShapeInv, ListsFit

(* An added constraint holds in S.                                         *)
LEMMA AddSound ==
  ASSUME ShapeInv, NEW S \in Solution!Assignment, NEW c \in Input, Add(c),
         Solution!Solves(S, asked'), Sound(S)
  PROVE  Sound(S)'
<1>1. /\ c.type = "element" => c.elem \in Element /\ c.var \in Var
      /\ c.type = "subset" => c.from \in Var /\ c.to \in Var
      /\ c.type = "conditional" =>
           c.elem \in Element /\ c.in \in Var /\ c.from \in Var /\ c.to \in Var
  BY ConstraintParts
<1>2. Solution!Holds(c, S) /\ stack = <<>>
  BY DEF Add, AddElement, AddConditional, AddSubset, Accept, Solution!Solves
<1>3. TypeOK
  BY DEF ShapeInv
<1>4. NodesFit(S) /\ BitsFit(S) /\ EdgesFit(S) /\ WaitingFit(S) /\ ListsFit(S)
  BY DEF Sound
<1>5. ASSUME NEW V \in SUBSET Var, node' = WithNodes(V)
      PROVE  NodesFit(S)' /\ \A v \in V : node'[v] \in Var /\ S[node'[v]] = S[v]
  <2>1. NodesFit(S)'
    BY <1>3, <1>4, <1>5, NodesAdded DEF NodesFit
  <2> QED
    BY <1>3, <1>5, <2>1, NodesAdded, NodesInUse DEF NodesFit
<1>6. ASSUME NEW at \in Var, NEW from \in Var,
             \/ stack' = <<Propagate(at)>>
             \/ stack' = <<Kill(at, from)>>
      PROVE  ListsFit(S)' /\ SearchFits(S)' /\ WalkFits(S)'
  <2>1. PICK g \in FrameType : stack' = <<g>> /\ g.list = <<>> /\ g.op \notin {"search", "walk"}
    BY <1>6, NewFrames
  <2>2. DOMAIN stack' = {1} /\ stack'[1] = g /\ Top' = g
    BY <2>1, OneCall DEF Top
  <2>3. ListsFit(S)'
    BY <2>1, <2>2 DEF ListsFit, Fits
  <2> QED
    BY <2>1, <2>2, <2>3, NoSearchFits
<1>7. CASE AddElement(c)
  <2>1. {c.var} \in SUBSET Var /\ node' = WithNodes({c.var}) /\ c.type = "element"
    BY <1>1, <1>7 DEF AddElement
  <2>2. NodesFit(S)' /\ node'[c.var] \in Var /\ S[node'[c.var]] = S[c.var]
    BY <1>5, <2>1
  <2>3. c.elem \in S[c.var]
    BY <1>2, <2>1 DEF Solution!Holds
  <2>4. BitsFit(S)'
    BY <1>3, <1>4, <1>7, <2>2, <2>3 DEF AddElement, BitsFit, TypeOK
  <2>5. EdgesFit(S)' /\ WaitingFit(S)'
    BY <1>4, <1>7 DEF AddElement, EdgesFit, WaitingFit
  <2>6. ListsFit(S)' /\ SearchFits(S)' /\ WalkFits(S)'
    BY <1>6, <1>7, <2>2 DEF AddElement
  <2> QED
    BY <2>2, <2>4, <2>5, <2>6 DEF Sound
<1>8. CASE AddConditional(c)
  <2>1. /\ {c.in, c.from, c.to} \in SUBSET Var /\ node' = WithNodes({c.in, c.from, c.to})
        /\ c.type = "conditional" /\ c.elem \in Element /\ c.from \in Var /\ c.to \in Var
    BY <1>1, <1>8 DEF AddConditional
  <2>2. NodesFit(S)' /\ node'[c.in] \in Var /\ S[node'[c.in]] = S[c.in]
    BY <1>5, <2>1
  <2>3. c.elem \in S[c.in] => S[c.from] \subseteq S[c.to]
    BY <1>2, <2>1 DEF Solution!Holds
  <2> DEFINE n0 == node'[c.in]
             s0 == conds[n0][c.elem]
  <2>4. conds' = [conds EXCEPT ![n0][c.elem] = Append(s0, <<c.from, c.to>>)]
    BY <1>8 DEF AddConditional
  <2>5. s0 \in Seq(Var \X Var)
    BY <1>3, <2>1, <2>2 DEF TypeOK
  <2>6. \A i \in DOMAIN Append(s0, <<c.from, c.to>>) :
          \/ i \in DOMAIN s0 /\ Append(s0, <<c.from, c.to>>)[i] = s0[i]
          \/ Append(s0, <<c.from, c.to>>)[i] = <<c.from, c.to>>
    <3> HIDE DEF s0
    <3>1. /\ Append(s0, <<c.from, c.to>>) \in Seq(Var \X Var)
          /\ Len(Append(s0, <<c.from, c.to>>)) = Len(s0) + 1
          /\ \A i \in 1..Len(s0) : Append(s0, <<c.from, c.to>>)[i] = s0[i]
          /\ Append(s0, <<c.from, c.to>>)[Len(s0) + 1] = <<c.from, c.to>>
      BY <2>1, <2>5, AddLast
    <3>2. /\ DOMAIN Append(s0, <<c.from, c.to>>) = 1..(Len(s0) + 1)
          /\ DOMAIN s0 = 1..Len(s0) /\ Len(s0) \in Nat
      BY <2>5, <3>1, LenProperties
    <3> QED
      BY <3>1, <3>2
  <2>7. WaitingFit(S)'
    <3> SUFFICES ASSUME NEW n \in Var, NEW e \in Element, e \in S[n]
                 PROVE  Fits(S, conds'[n][e])
      BY DEF WaitingFit, Fits
    <3>1. CASE n = n0 /\ e = c.elem
      <4>1. conds'[n][e] = Append(s0, <<c.from, c.to>>)
        BY <1>3, <2>1, <2>2, <2>4, <3>1 DEF TypeOK
      <4>2. Fits(S, s0)
        BY <1>4, <3>1 DEF WaitingFit
      <4>3. S[c.from] \subseteq S[c.to]
        BY <2>2, <2>3, <3>1
      <4> DEFINE s1 == Append(s0, <<c.from, c.to>>)
      <4>4. ASSUME NEW i \in DOMAIN s1
            PROVE  S[s1[i][1]] \subseteq S[s1[i][2]]
        <5> HIDE DEF s1
        <5>1. (i \in DOMAIN s0 /\ s1[i] = s0[i]) \/ s1[i] = <<c.from, c.to>>
          BY <2>6, <4>4 DEF s1
        <5>2. CASE i \in DOMAIN s0 /\ s1[i] = s0[i]
          BY <4>2, <5>2 DEF Fits
        <5>3. CASE s1[i] = <<c.from, c.to>>
          BY <4>3, <5>3
        <5> QED
          BY <5>1, <5>2, <5>3
      <4> QED
        BY <4>1, <4>4 DEF Fits
    <3>2. CASE ~(n = n0 /\ e = c.elem)
      <4>1. conds'[n][e] = conds[n][e]
        BY <1>3, <2>1, <2>2, <2>4, <3>2 DEF TypeOK
      <4> QED
        BY <1>4, <4>1 DEF WaitingFit
    <3> QED
      BY <3>1, <3>2
  <2>8. BitsFit(S)' /\ EdgesFit(S)'
    BY <1>4, <1>8 DEF AddConditional, BitsFit, EdgesFit
  <2>9. ListsFit(S)' /\ SearchFits(S)' /\ WalkFits(S)'
    BY <1>6, <1>8, <2>2 DEF AddConditional
  <2> QED
    BY <2>2, <2>7, <2>8, <2>9 DEF Sound
<1>9. CASE AddSubset(c)
  <2> DEFINE a == node'[c.from]
             b == node'[c.to]
  <2>1. /\ {c.from, c.to} \in SUBSET Var /\ node' = WithNodes({c.from, c.to})
        /\ c.type = "subset" /\ c.from \in Var
    BY <1>1, <1>9 DEF AddSubset
  <2>2. /\ NodesFit(S)' /\ a \in Var /\ S[a] = S[c.from] /\ b \in Var /\ S[b] = S[c.to]
    BY <1>5, <2>1
  <2>3. S[a] \subseteq S[b]
    BY <1>2, <2>1, <2>2 DEF Solution!Holds
  <2>4. \/ UNCHANGED <<sups, subs, stack>>
        \/ Connect(a, b) /\ stack' = <<Kill(a, c.from)>>
    BY <1>9 DEF AddSubset
  <2> HIDE DEF a, b
  <2>5. BitsFit(S)' /\ WaitingFit(S)'
    BY <1>4, <1>9 DEF AddSubset, BitsFit, WaitingFit
  <2>6. CASE UNCHANGED <<sups, subs, stack>>
    <3>1. EdgesFit(S)' /\ ListsFit(S)'
      BY <1>4, <2>6 DEF EdgesFit, ListsFit
    <3>2. SearchFits(S)' /\ WalkFits(S)'
      BY <1>2, <2>6, NoSearchFits
    <3> QED
      BY <2>2, <2>5, <3>1, <3>2 DEF Sound
  <2>7. CASE Connect(a, b) /\ stack' = <<Kill(a, c.from)>>
    <3>1. EdgesFit(S)'
      BY <1>3, <1>4, <2>2, <2>3, <2>7 DEF EdgesFit, Connect, TypeOK
    <3>2. ListsFit(S)' /\ SearchFits(S)' /\ WalkFits(S)'
      BY <1>6, <2>1, <2>2, <2>7
    <3> QED
      BY <2>2, <2>5, <3>1, <3>2 DEF Sound
  <2> QED
    BY <2>4, <2>6, <2>7
<1> QED
  BY <1>7, <1>8, <1>9 DEF Add

(* Looking for a path.                                                     *)
LEMMA SearchSound ==
  ASSUME ShapeInv, NEW S \in Solution!Assignment, Sound(S),
         StartSearch \/ Search \/ NoPath \/ WalkBack
  PROVE  Sound(S)'
<1>1. UNCHANGED <<node, bits, conds, sups, subs>> /\ stack # <<>>
  BY DEF StartSearch, Search, NoPath, WalkBack, graph, Running
<1>2. NodesFit(S)' /\ BitsFit(S)' /\ EdgesFit(S)' /\ WaitingFit(S)'
  BY <1>1 DEF Sound, NodesFit, BitsFit, EdgesFit, WaitingFit
<1>3. TypeOK /\ Top \in FrameType /\ Top.at \in Var /\ Fits(S, Top.list)
  BY <1>1, TopInv, TopFits DEF Sound
<1>4. CASE StartSearch
  <2>1. PICK t \in Ahead :
          /\ Visit(t, [n \in {t} |-> 0], <<>>)
          /\ Retop([Top EXCEPT !.op = "search", !.cur = t])
    BY <1>4, Zenon DEF StartSearch
  <2>2. t \in Var /\ t \in sups[Top.at] /\ S[Top.at] \subseteq S[t]
    BY <1>3, <2>1 DEF Ahead, TypeOK, Sound, EdgesFit
  <2> DEFINE f == [Top EXCEPT !.op = "search", !.cur = t]
             known == [n \in {t} |-> 0]
  <2>3. f \in FrameType
    BY <1>3, <2>2, FrameSteps
  <2>4. f.op = "search" /\ f.at = Top.at /\ f.cur = t /\ f.list = Top.list
    BY <1>3 DEF FrameType
  <2>5. DOMAIN known = {t} /\ known \in [DOMAIN known -> Nat] /\ <<>> \in Seq(DOMAIN known)
    BY EmptySeq
  <2>6. Retop(f) /\ Visit(t, known, <<>>)
    BY <2>1
  <2> HIDE DEF f, known
  <2>7. DOMAIN dist' = {t} \cup sups[t]
    BY <1>3, <2>2, <2>5, <2>6, VisitType
  <2>8. Top' = f
    BY <1>1, <1>3, <2>3, <2>6, Retopped
  <2>9. ListsFit(S)'
    BY <1>1, <1>3, <2>3, <2>4, <2>6, ListsAfterRetop DEF Sound
  <2>10. \A n \in DOMAIN dist' : S[t] \subseteq S[n]
    BY <2>2, <2>7 DEF Sound, EdgesFit
  <2> QED
    BY <1>2, <2>2, <2>4, <2>8, <2>9, <2>10 DEF Sound, SearchFits, WalkFits, In
<1>5. CASE Search
  <2>1. Top.op = "search"
    BY <1>5 DEF Search, Running
  <2>2. S[Top.at] \subseteq S[Top.cur] /\ \A n \in DOMAIN dist : S[Top.cur] \subseteq S[n]
    BY <1>1, <2>1 DEF Sound, SearchFits, In
  <2>3. DOMAIN dist' = DOMAIN dist \cup sups[Head(queue)] /\ Head(queue) \in DOMAIN dist
    BY <1>5, SearchType
  <2>4. Head(queue) \in Var
    BY <1>3, <2>3 DEF TypeOK
  <2>5. \A n \in DOMAIN dist' : S[Top.cur] \subseteq S[n]
    BY <2>2, <2>3, <2>4 DEF Sound, EdgesFit
  <2>6. CASE Top.at \in DOMAIN dist'
    <3> DEFINE f == [Top EXCEPT !.op = "walk"]
    <3>1. Retop(f) /\ path' = <<Top.at>>
      BY <1>5, <2>6 DEF Search
    <3>2. f \in FrameType
      BY <1>3, FrameSteps
    <3>3. f.op = "walk" /\ f.cur = Top.cur /\ f.at = Top.at /\ f.list = Top.list
      BY <1>3 DEF FrameType
    <3> HIDE DEF f
    <3>4. ListsFit(S)'
      BY <1>1, <1>3, <3>1, <3>2, <3>3, ListsAfterRetop DEF Sound
    <3>5. Top' = f
      BY <1>1, <1>3, <3>1, <3>2, Retopped
    <3>6. S[Top.at] = S[Top.cur]
      BY <2>2, <2>5, <2>6
    <3>7. WalkFits(S)'
      BY <3>1, <3>3, <3>5, <3>6 DEF WalkFits, In
    <3>8. SearchFits(S)'
      BY <2>2, <2>5, <3>3, <3>5 DEF SearchFits, In
    <3> QED
      BY <1>2, <3>4, <3>7, <3>8 DEF Sound
  <2>7. CASE Top.at \notin DOMAIN dist'
    <3>1. UNCHANGED <<stack, path>>
      BY <1>5, <2>7 DEF Search
    <3>2. Top' = Top
      BY <3>1 DEF Top
    <3>3. ListsFit(S)'
      BY <3>1 DEF Sound, ListsFit
    <3>4. SearchFits(S)' /\ WalkFits(S)'
      BY <2>1, <2>2, <2>5, <3>2 DEF SearchFits, WalkFits, In
    <3> QED
      BY <1>2, <3>3, <3>4 DEF Sound
  <2> QED
    BY <2>6, <2>7
<1>6. CASE NoPath
  <2> DEFINE f == [Top EXCEPT !.op = "kill"]
  <2>1. Retop(f) /\ f \in FrameType
    BY <1>3, <1>6, FrameSteps DEF NoPath
  <2>2. f.op = "kill" /\ f.list = Top.list
    BY <1>3 DEF FrameType
  <2> HIDE DEF f
  <2>3. ListsFit(S)'
    BY <1>1, <1>3, <2>1, <2>2, ListsAfterRetop DEF Sound
  <2>4. Top' = f
    BY <1>1, <1>3, <2>1, Retopped
  <2>5. SearchFits(S)' /\ WalkFits(S)'
    BY <2>2, <2>4, NoSearchFits
  <2> QED
    BY <1>2, <2>3, <2>5 DEF Sound
<1>7. CASE WalkBack
  <2>1. Running("walk") /\ UNCHANGED <<stack, dist>>
    BY <1>7 DEF WalkBack
  <2>2. /\ In("walk") /\ path \in Seq(DOMAIN dist) /\ Len(path) \in Nat \ {0}
        /\ Last(path) = path[Len(path)]
        /\ \A i \in 1..Len(path) : path[i] \in Var /\ path[i] \in DOMAIN dist
    BY <2>1, PathShape
  <2>3. /\ S[Top.at] \subseteq S[Top.cur] /\ \A n \in DOMAIN dist : S[Top.cur] \subseteq S[n]
        /\ \A i \in 1..Len(path) : S[path[i]] = S[Top.cur]
    BY <2>2 DEF Sound, SearchFits, WalkFits
  <2>4. PICK n \in DOMAIN dist :
          /\ n \in subs[Last(path)]
          /\ path' = IF dist[n] = dist[Last(path)] - 1 THEN Append(path, n) ELSE path
    BY <1>7 DEF WalkBack, First
  <2>5. S[n] = S[Top.cur]
    <3>1. Len(path) \in 1..Len(path)
      BY <2>2
    <3>2. Last(path) \in Var /\ S[Last(path)] = S[Top.cur]
      BY <2>2, <2>3, <3>1
    <3>3. S[n] \subseteq S[Last(path)]
      BY <2>4, <3>2 DEF Sound, EdgesFit
    <3>4. S[Top.cur] \subseteq S[n]
      BY <2>3, <2>4
    <3> QED
      BY <3>2, <3>3, <3>4
  <2>6. Top' = Top /\ In("walk")'
    BY <2>1, <2>2 DEF Top, In
  <2>7. \A i \in 1..Len(path') : S[path'[i]] = S[Top.cur]
    <3>1. CASE path' = path
      BY <2>3, <3>1
    <3>2. CASE path' = Append(path, n)
      <4>1. /\ Len(path') = Len(path) + 1
            /\ \A i \in 1..Len(path) : path'[i] = path[i]
            /\ path'[Len(path) + 1] = n
        BY <2>2, <3>2, AddLast
      <4> TAKE i \in 1..Len(path')
      <4>2. CASE i = Len(path) + 1
        BY <2>5, <4>1, <4>2
      <4>3. CASE i # Len(path) + 1
        <5>1. i \in 1..Len(path)
          BY <2>2, <4>1, <4>3
        <5> QED
          BY <2>3, <4>1, <5>1
      <4> QED
        BY <4>2, <4>3
    <3> QED
      BY <2>4, <3>1, <3>2
  <2>8. ListsFit(S)'
    BY <2>1 DEF Sound, ListsFit
  <2>9. SearchFits(S)' /\ WalkFits(S)'
    BY <2>1, <2>3, <2>6, <2>7 DEF SearchFits, WalkFits
  <2> QED
    BY <1>2, <2>8, <2>9 DEF Sound
<1> QED
  BY <1>4, <1>5, <1>6, <1>7

(* mergeNodes: the two nodes have the same elements in S.                  *)
LEMMA MergeSound ==
  ASSUME ShapeInv, NEW S \in Solution!Assignment, Sound(S), MergeNodes
  PROVE  Sound(S)'
<1> DEFINE n1 == path[Len(path)]
           n2 == path[Len(path) - 1]
<1>1. /\ Len(path) \in Nat \ {0, 1} /\ Last(path) = n1 /\ n1 \in Var /\ n2 \in Var
      /\ n1 = Top.cur
  BY MergedNodes
<1>2. /\ TypeOK /\ stack # <<>> /\ Top \in FrameType /\ In("walk") /\ Known(Top.from)
      /\ path \in Seq(DOMAIN dist) /\ path # <<>>
      /\ \A i \in 1..Len(path) : path[i] \in DOMAIN dist
  BY PathShape DEF MergeNodes
<1>3. /\ node' = [v \in Var |-> IF node[v] = n2 THEN n1 ELSE node[v]]
      /\ bits' = [bits EXCEPT ![n1] = @ \cup bits[n2]]
      /\ conds' = [conds EXCEPT ![n1] = [e \in Element |-> @[e] \o conds[n2][e]]]
      /\ sups' = Renamed(sups, subs, n1, n2)
      /\ subs' = Renamed(subs, sups, n1, n2)
  BY <1>1 DEF MergeNodes
<1>4. /\ S[Top.at] \subseteq S[Top.cur]
      /\ \A n \in DOMAIN dist : S[Top.cur] \subseteq S[n]
      /\ \A i \in 1..Len(path) : S[path[i]] = S[Top.cur]
  BY <1>2 DEF Sound, SearchFits, WalkFits
<1>5. S[n1] = S[n2]
  <2> DEFINE L == Len(path)
  <2>1. L \in Nat /\ L # 0 /\ L # 1
    BY <1>1
  <2>2. L \in 1..L /\ L - 1 \in 1..L
    <3> HIDE DEF L
    <3> QED
      BY <2>1
  <2> QED
    BY <1>4, <2>2
<1>6. NodesFit(S)'
  BY <1>2, <1>3, <1>5, <1>1, NodesInUse DEF Sound, NodesFit, Known
<1>7. BitsFit(S)'
  BY <1>1, <1>2, <1>3, <1>5 DEF Sound, BitsFit, TypeOK
<1>8. EdgesFit(S)'
  <2> HIDE DEF n1, n2
  <2>1. \A n \in Var : /\ \A m \in sups[n] : S[n] \subseteq S[m]
                       /\ \A m \in subs[n] : S[m] \subseteq S[n]
    BY DEF Sound, EdgesFit
  <2>2. /\ \A n \in Var : sups'[n] = IF n = n1 THEN (sups[n1] \cup sups[n2]) \ {n1, n2}
                                     ELSE IF n \in subs[n2] THEN (sups[n] \ {n2}) \cup {n1}
                                     ELSE sups[n]
        /\ \A n \in Var : subs'[n] = IF n = n1 THEN (subs[n1] \cup subs[n2]) \ {n1, n2}
                                     ELSE IF n \in sups[n2] THEN (subs[n] \ {n2}) \cup {n1}
                                     ELSE subs[n]
    BY <1>3 DEF Renamed
  <2>3. ASSUME NEW n \in Var, NEW m \in sups'[n] PROVE S[n] \subseteq S[m]
    <3>1. \/ n = n1 /\ (m \in sups[n1] \/ m \in sups[n2])
          \/ n \in subs[n2] /\ m = n1
          \/ m \in sups[n]
      BY <2>2, <2>3
    <3> QED
      BY <1>1, <1>5, <2>1, <3>1 DEF n1, n2
  <2>4. ASSUME NEW n \in Var, NEW m \in subs'[n] PROVE S[m] \subseteq S[n]
    <3>1. \/ n = n1 /\ (m \in subs[n1] \/ m \in subs[n2])
          \/ n \in sups[n2] /\ m = n1
          \/ m \in subs[n]
      BY <2>2, <2>4
    <3> QED
      BY <1>1, <1>5, <2>1, <3>1 DEF n1, n2
  <2> QED
    BY <2>3, <2>4 DEF EdgesFit
<1>9. WaitingFit(S)'
  <2> SUFFICES ASSUME NEW n \in Var, NEW e \in Element, e \in S[n]
               PROVE  Fits(S, conds'[n][e])
    BY DEF WaitingFit, Fits
  <2>1. CASE n = n1
    <3> DEFINE s == conds[n1][e]
               t == conds[n2][e]
    <3>1. conds'[n][e] = s \o t
      BY <1>1, <1>2, <1>3, <2>1 DEF TypeOK
    <3>2. s \in Seq(Var \X Var) /\ t \in Seq(Var \X Var)
      <4>1. conds \in [Var -> [Element -> Seq(Var \X Var)]]
        BY <1>2 DEF TypeOK
      <4>2. n1 \in Var /\ n2 \in Var
        BY <1>1, <1>2
      <4> HIDE DEF n1, n2
      <4> QED
        BY <4>1, <4>2
    <3>3. Fits(S, s) /\ Fits(S, t)
      BY <1>1, <1>5, <2>1 DEF Sound, WaitingFit
    <3>4. Fits(S, s \o t)
      <4> HIDE DEF s, t
      <4>1. /\ s \o t \in Seq(Var \X Var) /\ Len(s \o t) = Len(s) + Len(t)
            /\ \A i \in 1..(Len(s) + Len(t)) :
                 (s \o t)[i] = IF i <= Len(s) THEN s[i] ELSE t[i - Len(s)]
        BY <3>2, ConcatProperties
      <4>2. /\ DOMAIN (s \o t) = 1..(Len(s) + Len(t)) /\ DOMAIN s = 1..Len(s)
            /\ DOMAIN t = 1..Len(t) /\ Len(s) \in Nat /\ Len(t) \in Nat
        BY <3>2, <4>1, LenProperties
      <4>3. \A i \in DOMAIN (s \o t) :
              \/ i \in DOMAIN s /\ (s \o t)[i] = s[i]
              \/ i - Len(s) \in DOMAIN t /\ (s \o t)[i] = t[i - Len(s)]
        BY <4>1, <4>2
      <4> QED
        BY <3>3, <4>3 DEF Fits
    <3> QED
      BY <3>1, <3>4
  <2>2. CASE n # n1
    <3>1. conds'[n][e] = conds[n][e]
      BY <1>2, <1>3, <2>2 DEF TypeOK
    <3> QED
      BY <3>1 DEF Sound, WaitingFit
  <2> QED
    BY <2>1, <2>2
<1>10. CASE Len(path) = 2
  <2>1. Retop(Kill(n1, Top.from))
    BY <1>1, <1>10 DEF MergeNodes
  <2>2. /\ Kill(n1, Top.from) \in FrameType /\ Kill(n1, Top.from).op = "kill"
        /\ Kill(n1, Top.from).list = <<>>
    BY <1>1, <1>2, NewFrames DEF Known
  <2>3. Fits(S, <<>>)
    BY DEF Fits
  <2>4. ListsFit(S)'
    BY <1>2, <2>1, <2>2, <2>3, ListsAfterRetop DEF Sound
  <2>5. Top' = Kill(n1, Top.from)
    BY <1>2, <2>1, <2>2, Retopped
  <2>6. SearchFits(S)' /\ WalkFits(S)'
    BY <2>2, <2>5, NoSearchFits
  <2> QED
    BY <1>6, <1>7, <1>8, <1>9, <2>4, <2>6 DEF Sound
<1>11. CASE Len(path) # 2
  <2>1. path' = Append(Front(Front(path)), n1) /\ UNCHANGED <<stack, dist>>
    BY <1>1, <1>11 DEF MergeNodes
  <2>2. Top' = Top
    BY <2>1 DEF Top
  <2>3. ListsFit(S)'
    BY <2>1 DEF Sound, ListsFit
  <2>4. SearchFits(S)'
    BY <1>4, <2>1, <2>2 DEF SearchFits
  <2>5. \A i \in 1..Len(path') : S[path'[i]] = S[Top.cur]
    <3>1. ShapeInv'
      BY MergeShape
    <3>2. In("walk")'
      BY <1>2, <2>1, <2>2 DEF In
    <3>3. path' \in Seq(DOMAIN dist')
      BY <3>1 DEF ShapeInv, TypeOK
    <3>4. /\ Front(path) \in Seq(DOMAIN dist) /\ Len(Front(path)) = Len(path) - 1
          /\ \A i \in 1..(Len(path) - 1) : Front(path)[i] = path[i]
      BY <1>2, LastFront
    <3>5. Front(path) # <<>>
      <4>1. Len(Front(path)) # 0
        BY <1>1, <3>4
      <4> QED
        BY <3>4, <4>1, EmptySeq
    <3>6. /\ Front(Front(path)) \in Seq(DOMAIN dist)
          /\ Len(Front(Front(path))) = Len(Front(path)) - 1
          /\ \A i \in 1..(Len(Front(path)) - 1) : Front(Front(path))[i] = Front(path)[i]
      BY <3>4, <3>5, LastFront
    <3> DEFINE q == Front(Front(path))
               L == Len(path)
    <3>7. L \in Nat /\ L # 0 /\ L # 1 /\ Len(q) = L - 2
      BY <1>1, <3>4, <3>6
    <3>8. \A i \in 1..Len(q) : q[i] = path[i] /\ i \in 1..L
      <4>1. \A i \in 1..(L - 2) : i \in 1..(L - 1) /\ i \in 1..L
        <5> HIDE DEF L, q
        <5> QED
          BY <3>7
      <4>2. Len(Front(path)) - 1 = L - 2
        BY <3>6, <3>7
      <4> QED
        BY <3>4, <3>6, <3>7, <4>1, <4>2
    <3>9. n1 \in DOMAIN dist /\ S[n1] = S[Top.cur]
      BY <1>1, <1>2
    <3> HIDE DEF q, L
    <3>10. path' = Append(q, n1) /\ q \in Seq(DOMAIN dist)
      BY <2>1, <3>6 DEF q
    <3>11. /\ Len(path') = Len(q) + 1
           /\ \A i \in 1..Len(q) : path'[i] = q[i]
           /\ path'[Len(q) + 1] = n1
      BY <3>9, <3>10, AddLast
    <3>12. Len(q) \in Nat
      BY <3>10, LenProperties
    <3> TAKE i \in 1..Len(path')
    <3>13. CASE i = Len(q) + 1
      BY <3>9, <3>11, <3>13
    <3>14. CASE i # Len(q) + 1
      <4>1. i \in 1..Len(q)
        BY <3>11, <3>12, <3>14
      <4>2. path'[i] = path[i] /\ i \in 1..Len(path)
        BY <3>8, <3>11, <4>1 DEF L
      <4> QED
        BY <1>4, <4>2
    <3> QED
      BY <3>13, <3>14
  <2>6. WalkFits(S)'
    BY <2>2, <2>5 DEF WalkFits
  <2> QED
    BY <1>6, <1>7, <1>8, <1>9, <2>3, <2>4, <2>6 DEF Sound
<1> QED
  BY <1>10, <1>11

(* Activating and pushing.                                                 *)
LEMMA LoopSound ==
  ASSUME ShapeInv, NEW S \in Solution!Assignment, Sound(S),
         \/ NoCycle \/ TakeConstraints \/ Activate \/ StartPush
         \/ PushNext \/ Return \/ IteratorLost
  PROVE  Sound(S)'
<1>1. stack # <<>> /\ UNCHANGED node /\ Top.op \in {"kill", "activate", "push"}
  BY DEF NoCycle, TakeConstraints, Activate, StartPush, PushNext, Return, IteratorLost, Running,
         graph
<1>2. /\ NodesFit(S) /\ BitsFit(S) /\ EdgesFit(S) /\ WaitingFit(S) /\ ListsFit(S)
      /\ NodesFit(S)'
  BY <1>1 DEF Sound, NodesFit
<1>3. TypeOK /\ Top \in FrameType /\ Top.at \in Var /\ Fits(S, Top.list)
  BY <1>1, <1>2, TopInv, TopFits
<1>4. UNCHANGED bits => BitsFit(S)'
  BY <1>2 DEF BitsFit
<1>5. UNCHANGED <<sups, subs>> => EdgesFit(S)'
  BY <1>2 DEF EdgesFit
<1>6. UNCHANGED conds => WaitingFit(S)'
  BY <1>2 DEF WaitingFit
<1>7. Fits(S, <<>>)
  BY DEF Fits
<1>8. ASSUME NEW f \in FrameType, Retop(f), Fits(S, f.list), f.op \notin {"search", "walk"}
      PROVE  ListsFit(S)' /\ SearchFits(S)' /\ WalkFits(S)'
  <2>1. ListsFit(S)'
    BY <1>1, <1>2, <1>8, ListsAfterRetop
  <2>2. Top' = f
    BY <1>1, <1>3, <1>8, Retopped
  <2> QED
    BY <1>8, <2>1, <2>2, NoSearchFits
<1>9. ASSUME NEW f \in FrameType, NEW g \in FrameType,
             stack' = Append(Append(Front(stack), f), g),
             Fits(S, f.list), g.list = <<>>, g.op \notin {"search", "walk"}
      PROVE  ListsFit(S)' /\ SearchFits(S)' /\ WalkFits(S)'
  <2>1. ListsFit(S)'
    BY <1>1, <1>2, <1>7, <1>9, ListsAfterCall
  <2>2. Top' = g
    BY <1>1, <1>3, <1>9, Called
  <2> QED
    BY <1>9, <2>1, <2>2, NoSearchFits
<1>10. CASE NoCycle
  <2>1. Retop(Propagate(node[Top.from])) /\ UNCHANGED <<bits, conds, sups, subs>>
    BY <1>10 DEF NoCycle, graph
  <2>2. node[Top.from] \in Var
    <3>1. Top.op = "kill"
      BY <1>10 DEF NoCycle, Running
    <3> QED
      BY <1>1, <1>3, <3>1, TopInv, NodesInUse DEF Known
  <2>3. /\ Propagate(node[Top.from]) \in FrameType
        /\ Propagate(node[Top.from]).op = "activate"
        /\ Propagate(node[Top.from]).list = <<>>
    BY <2>2, NewFrames
  <2> QED
    BY <1>2, <1>4, <1>5, <1>6, <1>7, <1>8, <2>1, <2>3 DEF Sound
<1>11. CASE TakeConstraints
  <2>1. PICK e \in Waiting :
          /\ Retop([Top EXCEPT !.elem = e + 1, !.list = conds[Top.at][e]])
          /\ conds' = [conds EXCEPT ![Top.at][e] = <<>>]
    BY <1>11 DEF TakeConstraints
  <2> DEFINE f == [Top EXCEPT !.elem = e + 1, !.list = conds[Top.at][e]]
  <2>2. e \in bits[Top.at] /\ e \in Element
    BY <1>3, <2>1 DEF Waiting, TypeOK
  <2>3. conds[Top.at][e] \in Seq(Var \X Var)
    BY <1>3, <2>2 DEF TypeOK
  <2>4. f \in FrameType
    BY <1>3, <2>2, <2>3, FrameSteps
  <2>5. f.op = "activate" /\ f.list = conds[Top.at][e]
    BY <1>3, <1>11 DEF FrameType, TakeConstraints, Running
  <2>6. Retop(f) /\ UNCHANGED <<bits, sups, subs>>
    BY <1>11, <2>1 DEF TakeConstraints
  <2> HIDE DEF f
  <2>7. e \in S[Top.at]
    BY <1>2, <1>3, <2>2 DEF BitsFit
  <2>8. Fits(S, conds[Top.at][e])
    BY <1>2, <1>3, <2>2, <2>7 DEF WaitingFit
  <2>9. WaitingFit(S)'
    <3>1. \A n \in Var : \A d \in Element : conds'[n][d] = <<>> \/ conds'[n][d] = conds[n][d]
      BY <1>3, <2>1, <2>2 DEF TypeOK
    <3>2. \A n \in Var : \A d \in Element : d \in S[n] => Fits(S, conds'[n][d])
      BY <1>2, <1>7, <3>1 DEF WaitingFit
    <3> QED
      BY <3>2 DEF WaitingFit, Fits
  <2> QED
    BY <1>2, <1>4, <1>5, <1>8, <2>4, <2>5, <2>6, <2>8, <2>9 DEF Sound
<1>12. CASE Activate
  <2> DEFINE from == Head(Top.list)[1]
             to   == Head(Top.list)[2]
             f    == [Top EXCEPT !.list = Tail(@)]
  <2>1. Running("activate") /\ Top.list # <<>> /\ UNCHANGED <<bits, conds>>
    BY <1>12 DEF Activate
  <2>2. /\ from \in Var /\ to \in Var /\ Known(from) /\ Known(to) /\ f \in FrameType
        /\ f = [Top EXCEPT !.list = Tail(Top.list)]
        /\ 1 \in DOMAIN Top.list /\ Head(Top.list) = Top.list[1]
        /\ \A j \in DOMAIN Tail(Top.list) :
             j + 1 \in DOMAIN Top.list /\ Tail(Top.list)[j] = Top.list[j + 1]
    BY <2>1, NextConstraint
  <2>3. S[from] \subseteq S[to]
    BY <1>3, <2>2 DEF Fits
  <2>4. node[from] \in Var /\ node[to] \in Var /\ S[node[from]] \subseteq S[node[to]]
    BY <1>2, <1>3, <2>2, <2>3, NodesInUse DEF NodesFit, Known
  <2>5. f.list = Tail(Top.list) /\ f.op = "activate"
    BY <1>3, <2>1, <2>2 DEF FrameType, Running
  <2>6. Fits(S, f.list)
    BY <1>3, <2>2, <2>5 DEF Fits
  <2>7. \/ UNCHANGED <<sups, subs>> /\ Retop(f)
        \/ /\ Connect(node[from], node[to])
           /\ stack' = Append(Append(Front(stack), f), Kill(node[from], from))
    BY <1>12 DEF Activate, Retop
  <2> HIDE DEF from, to, f
  <2>8. CASE UNCHANGED <<sups, subs>> /\ Retop(f)
    BY <1>2, <1>4, <1>5, <1>6, <1>8, <2>1, <2>2, <2>5, <2>6, <2>8 DEF Sound
  <2>9. CASE /\ Connect(node[from], node[to])
             /\ stack' = Append(Append(Front(stack), f), Kill(node[from], from))
    <3>1. EdgesFit(S)'
      BY <1>2, <1>3, <2>4, <2>9 DEF EdgesFit, Connect, TypeOK
    <3>2. /\ Kill(node[from], from) \in FrameType /\ Kill(node[from], from).op = "kill"
          /\ Kill(node[from], from).list = <<>>
      BY <2>2, <2>4, NewFrames
    <3> QED
      BY <1>2, <1>4, <1>6, <1>9, <2>1, <2>2, <2>6, <2>9, <3>1, <3>2 DEF Sound
  <2> QED
    BY <2>7, <2>8, <2>9
<1>13. CASE StartPush
  <2> DEFINE f == [Top EXCEPT !.op = "push"]
  <2>1. Retop(f) /\ UNCHANGED <<bits, conds, sups, subs>> /\ f \in FrameType
    BY <1>3, <1>13, FrameSteps DEF StartPush, graph
  <2>2. f.op = "push" /\ f.list = Top.list
    BY <1>3 DEF FrameType
  <2> HIDE DEF f
  <2> QED
    BY <1>2, <1>3, <1>4, <1>5, <1>6, <1>8, <2>1, <2>2 DEF Sound
<1>14. CASE PushNext
  <2>1. PICK s \in Ahead :
          /\ bits' = [bits EXCEPT ![s] = @ \cup bits[Top.at]]
          /\ stack' = Append(Append(Front(stack), [Top EXCEPT !.cur = s]), Propagate(s))
    BY <1>14 DEF PushNext
  <2> DEFINE f == [Top EXCEPT !.cur = s]
  <2>2. s \in Var /\ s \in sups[Top.at] /\ f \in FrameType
    BY <1>3, <2>1, FrameSteps DEF Ahead, TypeOK
  <2>3. f.op = "push" /\ f.list = Top.list
    BY <1>3, <1>14 DEF FrameType, PushNext, Running
  <2>4. stack' = Append(Append(Front(stack), f), Propagate(s)) /\ UNCHANGED <<conds, sups, subs>>
    BY <1>14, <2>1 DEF PushNext
  <2> HIDE DEF f
  <2>5. S[Top.at] \subseteq S[s]
    BY <1>2, <1>3, <2>2 DEF EdgesFit
  <2>6. BitsFit(S)'
    BY <1>2, <1>3, <2>1, <2>2, <2>5 DEF BitsFit, TypeOK
  <2>7. Propagate(s) \in FrameType /\ Propagate(s).op = "activate" /\ Propagate(s).list = <<>>
    BY <2>2, NewFrames
  <2> QED
    BY <1>2, <1>3, <1>5, <1>6, <1>9, <2>2, <2>3, <2>4, <2>6, <2>7 DEF Sound
<1>15. CASE Return
  <2>1. stack' = Front(stack) /\ UNCHANGED <<bits, conds, sups, subs>>
    BY <1>15 DEF Return, graph
  <2>2. /\ DOMAIN stack' = 1..(Len(stack) - 1) /\ DOMAIN stack = 1..Len(stack)
        /\ Len(stack) \in Nat \ {0}
        /\ \A i \in 1..(Len(stack) - 1) : stack'[i] = stack[i]
        /\ stack' # <<>> => /\ Top' = stack[Len(stack) - 1]
                            /\ Len(stack) - 1 \in 1..(Len(stack) - 1)
    BY <1>1, <1>3, <2>1, Returned, TopFrame
  <2>3. ListsFit(S)'
    BY <1>2, <2>2 DEF ListsFit
  <2>4. stack' = <<>> \/ Top'.op \notin {"search", "walk"}
    BY <2>2 DEF ShapeInv, CallsInv, Buried
  <2> QED
    BY <1>2, <1>4, <1>5, <1>6, <2>1, <2>3, <2>4, NoSearchFits DEF Sound
<1>16. CASE IteratorLost
  <2>1. UNCHANGED <<bits, conds, sups, subs, stack>>
    BY <1>16 DEF IteratorLost, graph
  <2>2. Top'.op \notin {"search", "walk"}
    BY <1>1, <2>1 DEF Top
  <2>3. ListsFit(S)'
    BY <1>2, <2>1 DEF ListsFit
  <2> QED
    BY <1>2, <1>4, <1>5, <1>6, <2>1, <2>2, <2>3, NoSearchFits DEF Sound
<1> QED
  BY <1>10, <1>11, <1>12, <1>13, <1>14, <1>15, <1>16

-----------------------------------------------------------------------------
(* Every solution of what was asked so far bounds what the solver holds.   *)

SoundInv ==
  \A S \in Solution!Assignment : Solution!Solves(S, asked) => Sound(S)

LEMMA SoundInit == Init => SoundInv
  BY DEF Init, SoundInv, Sound, NodesFit, BitsFit, EdgesFit, WaitingFit, ListsFit, SearchFits,
         WalkFits, Fits, In

LEMMA SoundStep == ShapeInv /\ SoundInv /\ [Next]_vars => SoundInv'
<1> SUFFICES ASSUME ShapeInv, SoundInv, [Next]_vars,
                    NEW S \in Solution!Assignment, Solution!Solves(S, asked')
             PROVE  Sound(S)'
  BY DEF SoundInv
<1>1. asked \subseteq asked'
  BY DEF Next, Add, AddElement, AddConditional, AddSubset, Accept, Step, StartSearch, Search,
         NoPath, WalkBack, MergeNodes, NoCycle, TakeConstraints, Activate, StartPush, PushNext,
         Return, IteratorLost, vars
<1>2. Sound(S)
  BY <1>1 DEF SoundInv, Solution!Solves
<1>3. CASE \E c \in Input : Add(c)
  BY <1>2, <1>3, AddSound
<1>4. CASE Step
  BY <1>2, <1>4, SearchSound, MergeSound, LoopSound DEF Step
<1>5. CASE UNCHANGED vars
  <2>1. UNCHANGED <<node, bits, conds, sups, subs, stack, dist, path>>
    BY <1>5 DEF vars
  <2>2. Top' = Top
    BY <2>1 DEF Top
  <2> QED
    BY <1>2, <2>1, <2>2
       DEF Sound, NodesFit, BitsFit, EdgesFit, WaitingFit, ListsFit, SearchFits, WalkFits, Fits, In
<1> QED
  BY <1>3, <1>4, <1>5 DEF Next

(* getElements never returns an element that some solution of the          *)
(* constraints does without: not while a constraint is being added, not    *)
(* after nodes were merged, and whatever edges appeared while a push was   *)
(* under way.                                                              *)
THEOREM NothingTooMuch == Spec => []NeverTooMuch
<1>1. ShapeInv /\ SoundInv => NeverTooMuch
  <2> SUFFICES ASSUME ShapeInv, SoundInv,
                      NEW S \in Solution!Assignment, Solution!Solves(S, asked),
                      NEW v \in Var
               PROVE  Elements(v) \subseteq S[v]
    BY DEF NeverTooMuch, Solution!NeverTooMuch, Solution!Below
  <2>1. Sound(S) /\ TypeOK
    BY DEF SoundInv, ShapeInv
  <2>2. CASE node[v] = None
    BY <2>2 DEF Elements
  <2>3. CASE node[v] # None
    <3>1. node[v] \in Var /\ S[node[v]] = S[v] /\ bits[node[v]] \subseteq S[node[v]]
      BY <2>1, <2>3, NodesInUse DEF Known, Sound, NodesFit, BitsFit
    <3> QED
      BY <2>3, <3>1 DEF Elements
  <2> QED
    BY <2>2, <2>3
<1>2. Spec => []SoundInv
  BY ShapeHolds, SoundInit, SoundStep, PTL DEF Spec
<1> QED
  BY <1>1, <1>2, ShapeHolds, PTL

-----------------------------------------------------------------------------
(***************************************************************************)
(* The cubic solver implements Inclusions: between additions its sets are  *)
(* the least solution, unless a push passed over a superset (PassedOver).  *)
(* That nothing is too much is shown above; here, that nothing is missing. *)
(*                                                                         *)
(* While calls are in progress, what is missing is owed by one of them: an *)
(* edge whose end lacks elements is one that a call will push along, and a *)
(* list that waits for an element that has arrived is one that a call will *)
(* look at. A call that looks for cycles will push along every edge of its *)
(* node, and, when it is about to merge, of the node that is to be kept.   *)
(*                                                                         *)
(* And no cycle is left when the search for cycles is over.                *)
(***************************************************************************)

(* The call f will push the elements of n to its superset m.               *)
Pushes(f, n, m) ==
  \/ f.op \in {"kill", "search", "walk", "activate"} /\ f.at = n
  \/ f.op = "walk" /\ f.cur = n
  \/ f.op = "push" /\ f.at = n /\ f.cur < m

(* It will look at what waits in n for the element e.                      *)
Activates(f, n, e) ==
  \/ f.op \in {"kill", "search", "walk"} /\ f.at = n
  \/ f.op = "walk" /\ f.cur = n
  \/ f.op = "activate" /\ f.at = n /\ f.elem <= e

(* from is within to by the constraint v in w.                             *)
Listed(list, v, w) == \E i \in DOMAIN list : list[i] = <<v, w>>

WillPush(n, m) == \E i \in DOMAIN stack : Pushes(stack[i], n, m)
WillActivate(n, e) == \E i \in DOMAIN stack : Activates(stack[i], n, e)
WillLink(v, w) == \E i \in DOMAIN stack : Listed(stack[i].list, v, w)

Included(v, w) == node[v] = node[w] \/ node[w] \in sups[node[v]]

-----------------------------------------------------------------------------
(* The inductive invariant, on top of ShapeInv.                            *)

ElementsHeld ==
  \A c \in asked : c.type = "element" => Known(c.var) /\ c.elem \in bits[node[c.var]]

SubsetsLinked ==
  \A c \in asked : c.type = "subset" =>
    Known(c.from) /\ Known(c.to) /\ Included(c.from, c.to)

(* A conditional constraint is linked, waits, or is about to be activated. *)
ConditionalsKept ==
  \A c \in asked : c.type = "conditional" =>
    /\ Known(c.in) /\ Known(c.from) /\ Known(c.to)
    /\ \/ Included(c.from, c.to)
       \/ Listed(conds[node[c.in]][c.elem], c.from, c.to)
       \/ WillLink(c.from, c.to)

EdgesServed ==
  \A n \in Live : \A m \in sups[n] : missed \/ bits[n] \subseteq bits[m] \/ WillPush(n, m)

WaitingServed ==
  \A n \in Live : \A e \in bits[n] : conds[n][e] # <<>> => WillActivate(n, e)

(* A variable without a node has nothing, and is nobody's superset.        *)
FreshIsEmpty ==
  \A v \in Var : node[v] = None => bits[v] = {} /\ \A e \in Element : conds[v][e] = <<>>

SupersKnown == \A n \in Var : \A m \in sups[n] : node[m] # None

AtIsNode == In("kill") \/ In("search") \/ In("walk") => node[Top.from] = Top.at

(* A push is at a superset, unless one of the two nodes was merged away.   *)
InPlace(f) ==
  f.op = "push" /\ f.at \in Live /\ f.cur \in Live => f.cur \in sups[f.at]

PushInPlace == \A i \in DOMAIN stack : InPlace(stack[i])

(* Constraints are taken by the first loop of propagateNodeChanges only,   *)
(* and the second one begins with the first superset.                      *)
InOrder(f) ==
  /\ f.op # "activate" => f.list = <<>>
  /\ f.op = "activate" => f.cur = None

CallsInOrder == \A i \in DOMAIN stack : InOrder(stack[i])

Owed == EdgesServed /\ WaitingServed
Linked == ElementsHeld /\ SubsetsLinked /\ ConditionalsKept
Placed == FreshIsEmpty /\ SupersKnown /\ AtIsNode /\ PushInPlace /\ CallsInOrder

Complete == Linked /\ Owed /\ Placed

-----------------------------------------------------------------------------
(* The innermost call is replaced by those of N; the others stay.          *)
StackBecomes(N) ==
  /\ \A i \in DOMAIN stack \ {Len(stack)} : i \in DOMAIN stack' /\ stack'[i] = stack[i]
  /\ \A f \in N : \E i \in DOMAIN stack' : stack'[i] = f
  /\ \A i \in DOMAIN stack' :
       stack'[i] \in N \/ \E j \in DOMAIN stack \ {Len(stack)} : stack'[i] = stack[j]

LEMMA AfterRetop ==
  ASSUME TypeOK, stack # <<>>, NEW f \in FrameType, Retop(f)
  PROVE  StackBecomes({f}) /\ Top' = f /\ stack' # <<>>
<1>1. /\ stack' # <<>>
      /\ DOMAIN stack' = 1..Len(stack)
      /\ \A i \in 1..(Len(stack) - 1) : stack'[i] = stack[i]
      /\ stack'[Len(stack)] = f
      /\ Top' = f
  BY Retopped
<1>2. Len(stack) \in Nat \ {0} /\ DOMAIN stack = 1..Len(stack)
  BY TopFrame
<1>3. \A i \in DOMAIN stack \ {Len(stack)} : i \in 1..(Len(stack) - 1)
  BY <1>2
<1> QED
  BY <1>1, <1>2, <1>3 DEF StackBecomes

LEMMA AfterCall ==
  ASSUME TypeOK, stack # <<>>, NEW f \in FrameType, NEW g \in FrameType,
         stack' = Append(Append(Front(stack), f), g)
  PROVE  StackBecomes({f, g}) /\ Top' = g /\ stack' # <<>>
<1>1. /\ stack' # <<>>
      /\ DOMAIN stack' = 1..(Len(stack) + 1)
      /\ \A i \in 1..(Len(stack) - 1) : stack'[i] = stack[i]
      /\ stack'[Len(stack)] = f
      /\ stack'[Len(stack) + 1] = g
      /\ Top' = g
  BY Called
<1>2. Len(stack) \in Nat \ {0} /\ DOMAIN stack = 1..Len(stack)
  BY TopFrame
<1>3. /\ \A i \in DOMAIN stack \ {Len(stack)} : i \in 1..(Len(stack) - 1)
      /\ \A i \in DOMAIN stack' : i \in DOMAIN stack \ {Len(stack)} \/ i = Len(stack) \/ i = Len(stack) + 1
      /\ DOMAIN stack \subseteq DOMAIN stack'
      /\ Len(stack) \in DOMAIN stack' /\ Len(stack) + 1 \in DOMAIN stack'
  <2> DEFINE L == Len(stack)
  <2>1. L \in Nat \ {0} /\ DOMAIN stack = 1..L /\ DOMAIN stack' = 1..(L + 1)
    BY <1>1, <1>2
  <2> HIDE DEF L
  <2>2. /\ \A i \in DOMAIN stack \ {L} : i \in 1..(L - 1)
        /\ \A i \in DOMAIN stack' : i \in DOMAIN stack \ {L} \/ i = L \/ i = L + 1
        /\ DOMAIN stack \subseteq DOMAIN stack'
        /\ L \in DOMAIN stack' /\ L + 1 \in DOMAIN stack'
    BY <2>1
  <2> QED
    BY <2>2 DEF L
<1> QED
  BY <1>1, <1>3 DEF StackBecomes

LEMMA AfterReturn ==
  ASSUME TypeOK, stack # <<>>, stack' = Front(stack)
  PROVE  StackBecomes({})
<1>1. /\ DOMAIN stack' = 1..(Len(stack) - 1)
      /\ \A i \in 1..(Len(stack) - 1) : stack'[i] = stack[i]
  BY Returned
<1>2. Len(stack) \in Nat \ {0} /\ DOMAIN stack = 1..Len(stack)
  BY TopFrame
<1>3. DOMAIN stack \ {Len(stack)} = 1..(Len(stack) - 1)
  BY <1>2
<1> QED
  BY <1>1, <1>3 DEF StackBecomes

LEMMA AfterNothing ==
  ASSUME TypeOK, stack # <<>>, UNCHANGED stack
  PROVE  StackBecomes({Top}) /\ Top' = Top
<1>1. Len(stack) \in DOMAIN stack /\ Top = stack[Len(stack)]
  BY TopFrame
<1> QED
  BY <1>1 DEF StackBecomes, Top

(* What the calls in progress will do stays owed, unless it was owed by    *)
(* the innermost call only.                                                *)
LEMMA StillOwed ==
  ASSUME TypeOK, stack # <<>>, NEW N, StackBecomes(N)
  PROVE  /\ \A n, m : WillPush(n, m) =>
              Pushes(Top, n, m) \/ WillPush(n, m)'
         /\ \A n, m : (\E f \in N : Pushes(f, n, m)) => WillPush(n, m)'
         /\ \A n, e : WillActivate(n, e) =>
              Activates(Top, n, e) \/ WillActivate(n, e)'
         /\ \A n, e : (\E f \in N : Activates(f, n, e)) => WillActivate(n, e)'
         /\ \A v, w : WillLink(v, w) =>
              Listed(Top.list, v, w) \/ WillLink(v, w)'
         /\ \A v, w : (\E f \in N : Listed(f.list, v, w)) => WillLink(v, w)'
<1>1. Top = stack[Len(stack)]
  BY TopFrame
<1>2. /\ \A i \in DOMAIN stack : i # Len(stack) => i \in DOMAIN stack' /\ stack'[i] = stack[i]
      /\ \A f \in N : \E i \in DOMAIN stack' : stack'[i] = f
  BY DEF StackBecomes
<1>3. \A n, m : WillPush(n, m) => Pushes(Top, n, m) \/ WillPush(n, m)'
  BY <1>1, <1>2 DEF WillPush
<1>4. \A n, e : WillActivate(n, e) => Activates(Top, n, e) \/ WillActivate(n, e)'
  BY <1>1, <1>2 DEF WillActivate
<1>5. \A v, w : WillLink(v, w) => Listed(Top.list, v, w) \/ WillLink(v, w)'
  BY <1>1, <1>2 DEF WillLink
<1>6. \A n, m : (\E f \in N : Pushes(f, n, m)) => WillPush(n, m)'
  BY <1>2 DEF WillPush
<1>7. \A n, e : (\E f \in N : Activates(f, n, e)) => WillActivate(n, e)'
  BY <1>2 DEF WillActivate
<1>8. \A v, w : (\E f \in N : Listed(f.list, v, w)) => WillLink(v, w)'
  BY <1>2 DEF WillLink
<1> QED
  BY <1>3, <1>4, <1>5, <1>6, <1>7, <1>8

-----------------------------------------------------------------------------
(* A step of the innermost call that merges nothing. What it does must be  *)
(* answered for by the calls N that take its place.                        *)

EdgesAnswered(N) ==
  \A n \in Live : \A m \in sups'[n] :
    \/ /\ m \in sups[n] /\ bits'[n] = bits[n] /\ bits[m] \subseteq bits'[m]
       /\ Pushes(Top, n, m) => bits'[n] \subseteq bits'[m] \/ \E f \in N : Pushes(f, n, m)
    \/ bits'[n] \subseteq bits'[m]
    \/ \E f \in N : Pushes(f, n, m)

WaitingAnswered(N) ==
  \A n \in Live : \A e \in bits'[n] : conds'[n][e] # <<>> =>
    \/ /\ e \in bits[n] /\ conds[n][e] # <<>>
       /\ Activates(Top, n, e) => \E f \in N : Activates(f, n, e)
    \/ \E f \in N : Activates(f, n, e)

ListsAnswered(N) ==
  /\ \A n \in Var : \A e \in Element : \A v, w \in Var : Listed(conds[n][e], v, w) =>
       Listed(conds'[n][e], v, w) \/ \E f \in N : Listed(f.list, v, w)
  /\ \A v, w \in Var : Listed(Top.list, v, w) =>
       Included(v, w)' \/ \E f \in N : Listed(f.list, v, w)

GraphGrows ==
  /\ UNCHANGED <<node, asked>>
  /\ missed => missed'
  /\ \A n \in Var : sups[n] \subseteq sups'[n] /\ bits[n] \subseteq bits'[n]
  /\ \A n \in Var : \A m \in sups'[n] : m \in sups[n] \/ node[m] # None
  /\ \A v \in Var : node[v] = None => bits'[v] = bits[v] /\ conds'[v] = conds[v]

LEMMA OwedAfter ==
  ASSUME TypeOK, stack # <<>>, Owed, GraphGrows, NEW N, StackBecomes(N),
         EdgesAnswered(N), WaitingAnswered(N)
  PROVE  Owed'
<1>1. Live' = Live
  BY DEF GraphGrows, Live
<1>2. /\ \A n, m : WillPush(n, m) => Pushes(Top, n, m) \/ WillPush(n, m)'
      /\ \A n, m : (\E f \in N : Pushes(f, n, m)) => WillPush(n, m)'
      /\ \A n, e : WillActivate(n, e) => Activates(Top, n, e) \/ WillActivate(n, e)'
      /\ \A n, e : (\E f \in N : Activates(f, n, e)) => WillActivate(n, e)'
  BY StillOwed
<1>3. ASSUME NEW n \in Live, NEW m \in sups'[n]
      PROVE  missed' \/ bits'[n] \subseteq bits'[m] \/ WillPush(n, m)'
  <2>1. CASE m \in sups[n] /\ bits'[n] = bits[n] /\ bits[m] \subseteq bits'[m]
             /\ (Pushes(Top, n, m) => bits'[n] \subseteq bits'[m] \/ \E f \in N : Pushes(f, n, m))
    <3>1. missed \/ bits[n] \subseteq bits[m] \/ WillPush(n, m)
      BY <2>1 DEF Owed, EdgesServed
    <3>2. CASE WillPush(n, m)
      BY <1>2, <2>1, <3>2
    <3>3. CASE missed \/ bits[n] \subseteq bits[m]
      BY <2>1, <3>3 DEF GraphGrows
    <3> QED
      BY <3>1, <3>2, <3>3
  <2>2. CASE bits'[n] \subseteq bits'[m]
    BY <2>2
  <2>3. CASE \E f \in N : Pushes(f, n, m)
    BY <1>2, <2>3
  <2> QED
    BY <2>1, <2>2, <2>3 DEF EdgesAnswered
<1>4. ASSUME NEW n \in Live, NEW e \in bits'[n], conds'[n][e] # <<>>
      PROVE  WillActivate(n, e)'
  <2>1. CASE /\ e \in bits[n] /\ conds[n][e] # <<>>
             /\ Activates(Top, n, e) => \E f \in N : Activates(f, n, e)
    <3>1. WillActivate(n, e)
      BY <2>1 DEF Owed, WaitingServed
    <3> QED
      BY <1>2, <2>1, <3>1
  <2>2. CASE \E f \in N : Activates(f, n, e)
    BY <1>2, <2>2
  <2> QED
    BY <1>4, <2>1, <2>2 DEF WaitingAnswered
<1> QED
  BY <1>1, <1>3, <1>4 DEF Owed, EdgesServed, WaitingServed

(* The parts of a constraint that has been asked.                          *)
LEMMA AskedParts ==
  ASSUME TypeOK, NEW c \in asked
  PROVE  /\ c.type = "element" => c.elem \in Element /\ c.var \in Var
         /\ c.type = "subset" => c.from \in Var /\ c.to \in Var
         /\ c.type = "conditional" =>
              c.elem \in Element /\ c.in \in Var /\ c.from \in Var /\ c.to \in Var
BY DEF TypeOK, I!Constraint, I!ElementOf, I!Subset, I!Conditional

LEMMA LinkedAfter ==
  ASSUME TypeOK, stack # <<>>, Linked, GraphGrows, NEW N, StackBecomes(N),
         ListsAnswered(N)
  PROVE  Linked'
<1>1. /\ \A v, w : WillLink(v, w) => Listed(Top.list, v, w) \/ WillLink(v, w)'
      /\ \A v, w : (\E f \in N : Listed(f.list, v, w)) => WillLink(v, w)'
  BY StillOwed
<1>2. \A v \in Var : Known(v) => Known(v)' /\ node'[v] = node[v] /\ node[v] \in Var
  BY NodesInUse DEF GraphGrows, Known
<1>3. \A v, w \in Var : Known(v) /\ Included(v, w) => Included(v, w)'
  BY <1>2 DEF GraphGrows, Included
<1>4. ElementsHeld'
  <2> SUFFICES ASSUME NEW c \in asked, c.type = "element"
               PROVE  Known(c.var)' /\ c.elem \in bits'[node'[c.var]]
    BY DEF ElementsHeld, GraphGrows
  <2>1. Known(c.var) /\ c.elem \in bits[node[c.var]] /\ c.var \in Var
    BY DEF Linked, ElementsHeld, Known
  <2> QED
    BY <1>2, <2>1 DEF GraphGrows
<1>5. SubsetsLinked'
  <2> SUFFICES ASSUME NEW c \in asked, c.type = "subset"
               PROVE  Known(c.from)' /\ Known(c.to)' /\ Included(c.from, c.to)'
    BY DEF SubsetsLinked, GraphGrows
  <2>1. /\ Known(c.from) /\ Known(c.to) /\ Included(c.from, c.to)
        /\ c.from \in Var /\ c.to \in Var
    BY DEF Linked, SubsetsLinked, Known
  <2> QED
    BY <1>2, <1>3, <2>1
<1>6. ConditionalsKept'
  <2> SUFFICES ASSUME NEW c \in asked, c.type = "conditional"
               PROVE  /\ Known(c.in)' /\ Known(c.from)' /\ Known(c.to)'
                      /\ \/ Included(c.from, c.to)'
                         \/ Listed(conds'[node'[c.in]][c.elem], c.from, c.to)
                         \/ WillLink(c.from, c.to)'
    BY DEF ConditionalsKept, GraphGrows
  <2>1. /\ Known(c.in) /\ Known(c.from) /\ Known(c.to)
        /\ c.in \in Var /\ c.from \in Var /\ c.to \in Var /\ c.elem \in Element
    BY AskedParts DEF Linked, ConditionalsKept
  <2>2. /\ Known(c.in)' /\ Known(c.from)' /\ Known(c.to)'
        /\ node'[c.in] = node[c.in] /\ node[c.in] \in Var
    BY <1>2, <2>1
  <2>3. CASE Included(c.from, c.to)
    BY <1>3, <2>1, <2>2, <2>3
  <2>4. CASE Listed(conds[node[c.in]][c.elem], c.from, c.to)
    <3>1. \/ Listed(conds'[node[c.in]][c.elem], c.from, c.to)
          \/ \E f \in N : Listed(f.list, c.from, c.to)
      BY <2>1, <2>2, <2>4 DEF ListsAnswered
    <3> QED
      BY <1>1, <2>2, <3>1
  <2>5. CASE WillLink(c.from, c.to)
    <3>1. CASE Listed(Top.list, c.from, c.to)
      <4>1. Included(c.from, c.to)' \/ \E f \in N : Listed(f.list, c.from, c.to)
        BY <2>1, <3>1 DEF ListsAnswered
      <4> QED
        BY <1>1, <2>2, <4>1
    <3>2. CASE WillLink(c.from, c.to)'
      BY <2>2, <3>2
    <3> QED
      BY <1>1, <2>5, <3>1, <3>2
  <2>6. \/ Included(c.from, c.to)
        \/ Listed(conds[node[c.in]][c.elem], c.from, c.to)
        \/ WillLink(c.from, c.to)
    BY DEF Linked, ConditionalsKept
  <2> QED
    BY <2>3, <2>4, <2>5, <2>6
<1> QED
  BY <1>4, <1>5, <1>6 DEF Linked

LEMMA PlacedAfter ==
  ASSUME TypeOK, stack # <<>>, Placed, GraphGrows, NEW N, StackBecomes(N),
         \A f \in N : f.op = "push" /\ f.at \in Live /\ f.cur \in Live => f.cur \in sups'[f.at],
         \A f \in N : InOrder(f),
         AtIsNode'
  PROVE  Placed'
<1>1. Live' = Live /\ Live \subseteq Var
  BY NodesInUse DEF GraphGrows, Live
<1>2. FreshIsEmpty'
  BY DEF Placed, FreshIsEmpty, GraphGrows
<1>3. SupersKnown'
  BY DEF Placed, SupersKnown, GraphGrows
<1>4. PushInPlace'
  <2> SUFFICES ASSUME NEW i \in DOMAIN stack',
                      stack'[i].op = "push" /\ stack'[i].at \in Live /\ stack'[i].cur \in Live
               PROVE  stack'[i].cur \in sups'[stack'[i].at]
    BY <1>1 DEF PushInPlace, InPlace
  <2>1. CASE stack'[i] \in N
    BY <2>1
  <2>2. CASE \E j \in DOMAIN stack \ {Len(stack)} : stack'[i] = stack[j]
    <3>1. stack'[i].cur \in sups[stack'[i].at]
      BY <2>2 DEF Placed, PushInPlace, InPlace
    <3> QED
      BY <1>1, <3>1 DEF GraphGrows
  <2> QED
    BY <2>1, <2>2 DEF StackBecomes
<1>5. CallsInOrder'
  BY DEF Placed, CallsInOrder, StackBecomes, InOrder
<1> QED
  BY <1>2, <1>3, <1>4, <1>5 DEF Placed

-----------------------------------------------------------------------------
(* The steps that merge nothing, one by one.                               *)

(* A new call to killCyclesAt or to propagateNodeChanges is at its         *)
(* beginning.                                                              *)
LEMMA NewCalls ==
  ASSUME NEW at, NEW from
  PROVE  /\ Kill(at, from).op = "kill" /\ Kill(at, from).at = at /\ Kill(at, from).from = from
         /\ Kill(at, from).list = <<>> /\ Kill(at, from).cur = None /\ InOrder(Kill(at, from))
         /\ Propagate(at).op = "activate" /\ Propagate(at).at = at /\ Propagate(at).elem = 1
         /\ Propagate(at).list = <<>> /\ InOrder(Propagate(at))
  BY DEF Kill, Propagate, Frame, InOrder

(* The superset the second loop is at is a number.                         *)
LEMMA CurIsNumber ==
  ASSUME NEW f \in FrameType
  PROVE  f.cur \in Nat /\ (f.cur = None \/ f.cur > None) /\ Var \subseteq Nat \ {0}
<1>1. f.cur \in Var \cup {None}
  BY FrameSteps
<1>2. Var \subseteq Nat \ {0}
  BY CubicAssumption
<1> DEFINE c == f.cur
<1>3. c \in Var \cup {None}
  BY <1>1
<1> HIDE DEF c
<1>4. c \in Nat /\ (c = None \/ c > None)
  BY <1>2, <1>3 DEF None
<1> QED
  BY <1>2, <1>4 DEF c

(* The innermost call is in order.                                         *)
LEMMA TopInOrder ==
  ASSUME ShapeInv, Placed, stack # <<>>
  PROVE  /\ InOrder(Top) /\ InPlace(Top) /\ TypeOK /\ Top \in FrameType /\ Top.at \in Var
         /\ \A n \in Var : n \notin sups[n]
<1>1. TypeOK /\ Top = stack[Len(stack)] /\ Len(stack) \in DOMAIN stack /\ Top \in FrameType
  BY TopFrame DEF ShapeInv
<1> QED
  BY <1>1, TopInv DEF Placed, CallsInOrder, PushInPlace, ShapeInv, GraphInv, Irreflexive

(* The graph is left alone, and the innermost call goes on as f, which     *)
(* will do what it would have done.                                        *)
LEMMA GraphAlone ==
  ASSUME ShapeInv, Complete, stack # <<>>, UNCHANGED <<graph, missed, asked>>,
         NEW N, StackBecomes(N),
         \A n \in Live : \A m \in sups[n] : Pushes(Top, n, m) =>
           bits[n] \subseteq bits[m] \/ \E f \in N : Pushes(f, n, m),
         \A n \in Live : \A e \in bits[n] : conds[n][e] # <<>> /\ Activates(Top, n, e) =>
           \E f \in N : Activates(f, n, e),
         \A v, w \in Var : Listed(Top.list, v, w) => \E f \in N : Listed(f.list, v, w),
         \A f \in N : InOrder(f) /\ InPlace(f),
         AtIsNode'
  PROVE  Complete'
<1>1. TypeOK
  BY DEF ShapeInv
<1>2. GraphGrows
  BY DEF GraphGrows, graph
<1>3. EdgesAnswered(N) /\ WaitingAnswered(N) /\ ListsAnswered(N)
  BY DEF EdgesAnswered, WaitingAnswered, ListsAnswered, graph
<1>4. Owed'
  BY <1>1, <1>2, <1>3, OwedAfter DEF Complete
<1>5. Linked'
  BY <1>1, <1>2, <1>3, LinkedAfter DEF Complete
<1>6. Placed'
  BY <1>1, <1>2, PlacedAfter DEF Complete, InPlace, graph
<1> QED
  BY <1>4, <1>5, <1>6 DEF Complete

(* Looking for cycles: the call stays at the node, and will push along all *)
(* of its edges when it is done.                                           *)
LEMMA SearchComplete ==
  ASSUME ShapeInv, Complete, StartSearch \/ Search \/ NoPath \/ WalkBack
  PROVE  Complete'
<1>1. stack # <<>> /\ UNCHANGED <<graph, missed, asked>> /\ Top.op \in {"kill", "search", "walk"}
  BY DEF StartSearch, Search, NoPath, WalkBack, Running
<1>2. /\ InOrder(Top) /\ InPlace(Top) /\ TypeOK /\ Top \in FrameType /\ Top.at \in Var
      /\ node[Top.from] = Top.at /\ Top.list = <<>>
  BY <1>1, TopInOrder DEF Complete, Placed, AtIsNode, In, InOrder
<1>3. ASSUME NEW f \in FrameType, StackBecomes({f}), Top' = f,
             f.op \in {"kill", "search", "walk"}, f.at = Top.at, f.from = Top.from,
             f.list = <<>>, Top.op = "walk" => f = Top
      PROVE  Complete'
  <2>1. \A n, m : Pushes(Top, n, m) => Pushes(f, n, m)
    BY <1>1, <1>3 DEF Pushes
  <2>2. \A n, e : Activates(Top, n, e) => Activates(f, n, e)
    BY <1>1, <1>3 DEF Activates
  <2>3. AtIsNode'
    BY <1>1, <1>2, <1>3 DEF AtIsNode, graph
  <2>4. InOrder(f) /\ InPlace(f)
    BY <1>3 DEF InOrder, InPlace
  <2>5. \A v, w : ~Listed(Top.list, v, w)
    BY <1>2 DEF Listed
  <2> QED
    BY <1>1, <1>3, <2>1, <2>2, <2>3, <2>4, <2>5, GraphAlone
<1>4. ASSUME NEW f \in FrameType, Retop(f), f.op \in {"kill", "search", "walk"},
             f.at = Top.at, f.from = Top.from, f.list = Top.list, Top.op # "walk"
      PROVE  Complete'
  BY <1>1, <1>2, <1>3, <1>4, AfterRetop
<1>5. ASSUME UNCHANGED stack
      PROVE  Complete'
  BY <1>1, <1>2, <1>3, <1>5, AfterNothing
<1>6. CASE StartSearch
  <2>1. PICK t \in Ahead : Retop([Top EXCEPT !.op = "search", !.cur = t])
    BY <1>6, Zenon DEF StartSearch
  <2> DEFINE f == [Top EXCEPT !.op = "search", !.cur = t]
  <2>2. t \in Var
    BY <1>2 DEF Ahead, TypeOK
  <2>3. /\ f.op = "search" /\ f.at = Top.at /\ f.from = Top.from
        /\ f.list = Top.list
    BY <1>2 DEF FrameType
  <2>5. f \in FrameType
    BY <1>2, <2>2, FrameSteps
  <2>4. Top.op # "walk"
    BY <1>6 DEF StartSearch, Running
  <2> HIDE DEF f
  <2> QED
    BY <1>4, <2>1, <2>3, <2>4, <2>5 DEF f
<1>7. ASSUME NEW op \in {"kill", "walk"}, Retop([Top EXCEPT !.op = op]), Top.op # "walk"
      PROVE  Complete'
  <2> DEFINE f == [Top EXCEPT !.op = op]
  <2>1. /\ f.op = op /\ f.at = Top.at /\ f.from = Top.from
        /\ f.list = Top.list
    BY <1>2 DEF FrameType
  <2>2. f \in FrameType /\ Retop(f)
    BY <1>2, <1>7, FrameSteps
  <2> HIDE DEF f
  <2> QED
    BY <1>4, <1>7, <2>1, <2>2
<1>8. CASE Search
  <2>1. Top.op # "walk" /\ (Retop([Top EXCEPT !.op = "walk"]) \/ UNCHANGED stack)
    BY <1>8 DEF Search, Running
  <2> QED
    BY <1>5, <1>7, <2>1
<1>9. CASE NoPath
  <2>1. Top.op # "walk" /\ Retop([Top EXCEPT !.op = "kill"])
    BY <1>9 DEF NoPath, Running
  <2> QED
    BY <1>7, <2>1
<1>10. CASE WalkBack
  BY <1>5, <1>10 DEF WalkBack
<1> QED
  BY <1>6, <1>8, <1>9, <1>10

(* The end of killCyclesAt, of the first loop and of the second one.       *)
LEMMA LoopEndsComplete ==
  ASSUME ShapeInv, Complete, NoCycle \/ StartPush \/ Return \/ IteratorLost
  PROVE  Complete'
<1>1. stack # <<>> /\ UNCHANGED <<graph, missed, asked>> /\ Top.op \in {"kill", "activate", "push"}
  BY DEF NoCycle, StartPush, Return, IteratorLost, Running
<1>2. /\ InOrder(Top) /\ InPlace(Top) /\ TypeOK /\ Top \in FrameType /\ Top.at \in Var
      /\ Owed
  BY <1>1, TopInOrder DEF Complete
<1>3. \A v, w : Top.list = <<>> => ~Listed(Top.list, v, w)
  BY DEF Listed
<1>4. /\ bits \in [Var -> SUBSET Element] /\ Live \subseteq Var
      /\ \A n \in Live : \A m \in sups[n] : m \in Var /\ m \in Nat /\ m > None
      /\ \A n \in Live : \A e \in bits[n] : e \in Element /\ e \in Nat /\ 1 <= e
  BY <1>2, NodesInUse, CubicAssumption DEF TypeOK, Element, None
<1>5. CASE NoCycle
  <2> DEFINE f == Propagate(Top.at)
  <2>1. node[Top.from] = Top.at /\ Top.op = "kill" /\ Retop(f)
    BY <1>1, <1>5 DEF NoCycle, Running, Complete, Placed, AtIsNode, In
  <2>2. f.op = "activate" /\ f.at = Top.at /\ f.elem = 1 /\ f.list = <<>> /\ InOrder(f) /\ f \in FrameType
    BY <1>2, NewCalls, NewFrames
  <2> HIDE DEF f
  <2>3. StackBecomes({f}) /\ Top' = f
    BY <1>1, <1>2, <2>1, <2>2, AfterRetop
  <2>4. \A n, m : Pushes(Top, n, m) => Pushes(f, n, m)
    BY <2>1, <2>2 DEF Pushes
  <2>5. \A n \in Live : \A e \in bits[n] : Activates(Top, n, e) => Activates(f, n, e)
    BY <1>4, <2>1, <2>2 DEF Activates
  <2>6. AtIsNode'
    BY <2>2, <2>3 DEF AtIsNode, In
  <2>7. InPlace(f) /\ Top.list = <<>>
    BY <1>2, <2>1, <2>2 DEF InPlace, InOrder
  <2> QED
    BY <1>1, <1>3, <2>2, <2>3, <2>4, <2>5, <2>6, <2>7, GraphAlone
<1>6. CASE StartPush
  <2> DEFINE f == [Top EXCEPT !.op = "push"]
  <2>1. Top.op = "activate" /\ Top.list = <<>> /\ Waiting = {} /\ Retop(f) /\ Top.cur = None
    BY <1>2, <1>6 DEF StartPush, Running, InOrder
  <2>2. f.op = "push" /\ f.at = Top.at /\ f.list = <<>> /\ f.cur = None
    BY <1>2, <2>1 DEF FrameType
  <2>8. f \in FrameType
    BY <1>2, FrameSteps
  <2> HIDE DEF f
  <2>3. StackBecomes({f}) /\ Top' = f
    BY <1>1, <1>2, <2>1, <2>8, AfterRetop
  <2>4. \A n \in Live : \A m \in sups[n] : Pushes(Top, n, m) => Pushes(f, n, m)
    BY <1>4, <2>1, <2>2 DEF Pushes
  <2>5. \A n \in Live : \A e \in bits[n] : conds[n][e] # <<>> /\ Activates(Top, n, e) => FALSE
    <3> SUFFICES ASSUME NEW n \in Live, NEW e \in bits[n], conds[n][e] # <<>>, Activates(Top, n, e)
                 PROVE  FALSE
      OBVIOUS
    <3>1. Top.at = n /\ Top.elem <= e
      BY <2>1 DEF Activates
    <3>2. Top.elem \in Nat /\ e \in Nat
      BY <1>2, <1>4, CubicAssumption DEF FrameType
    <3>3. e >= Top.elem
      BY <3>1, <3>2
    <3> QED
      BY <2>1, <3>1, <3>3 DEF Waiting
  <2>6. AtIsNode'
    BY <2>2, <2>3 DEF AtIsNode, In
  <2>7. InPlace(f) /\ InOrder(f)
    BY <1>2, <2>2, NodesInUse DEF InPlace, InOrder
  <2> QED
    BY <1>1, <1>3, <2>1, <2>3, <2>4, <2>5, <2>6, <2>7, GraphAlone
<1>7. CASE Return
  <2>1. Top.op = "push" /\ Ahead = {} /\ stack' = Front(stack) /\ Top.list = <<>>
    BY <1>2, <1>7 DEF Return, Running, InOrder
  <2>2. StackBecomes({})
    BY <1>1, <1>2, <2>1, AfterReturn
  <2>3. \A n \in Live : \A m \in sups[n] : ~Pushes(Top, n, m)
    <3> SUFFICES ASSUME NEW n \in Live, NEW m \in sups[n], Pushes(Top, n, m)
                 PROVE  FALSE
      OBVIOUS
    <3>1. Top.at = n /\ Top.cur < m
      BY <2>1 DEF Pushes
    <3>2. Top.cur \in Nat /\ m \in Nat
      BY <1>2, <1>4, CurIsNumber
    <3>3. m > Top.cur
      BY <3>1, <3>2
    <3> QED
      BY <2>1, <3>1, <3>3 DEF Ahead
  <2>4. \A n, e : ~Activates(Top, n, e)
    BY <2>1 DEF Activates
  <2>5. AtIsNode'
    <3>1. /\ \A i \in 1..(Len(stack) - 1) : stack'[i] = stack[i]
          /\ stack' # <<>> => Top' = stack[Len(stack) - 1] /\ Len(stack) - 1 \in 1..(Len(stack) - 1)
      BY <1>1, <1>2, <2>1, Returned
    <3>2. stack' # <<>> => Top'.op \notin {"kill", "search", "walk"}
      BY <3>1 DEF ShapeInv, CallsInv, Buried
    <3> QED
      BY <3>2 DEF AtIsNode, In
  <2> QED
    BY <1>1, <1>3, <2>1, <2>2, <2>3, <2>4, <2>5, GraphAlone
<1>8. CASE IteratorLost
  <2>1. UNCHANGED stack
    BY <1>8 DEF IteratorLost
  <2>2. StackBecomes({Top}) /\ Top' = Top
    BY <1>1, <1>2, <2>1, AfterNothing
  <2>3. Top.op = "push"
    BY <1>8 DEF IteratorLost, Running
  <2>4. AtIsNode'
    BY <2>2, <2>3 DEF AtIsNode, In
  <2> QED
    BY <1>1, <1>2, <2>2, <2>4, GraphAlone
<1> QED
  BY <1>5, <1>6, <1>7, <1>8

(* The constraints that wait for an element move from the node to the      *)
(* call.                                                                   *)
LEMMA TakeComplete ==
  ASSUME ShapeInv, Complete, TakeConstraints
  PROVE  Complete'
<1>1. /\ stack # <<>> /\ Top.op = "activate" /\ Top.list = <<>>
      /\ UNCHANGED <<node, bits, sups, subs, missed, asked>>
  BY DEF TakeConstraints, Running
<1>2. /\ InOrder(Top) /\ InPlace(Top) /\ TypeOK /\ Top \in FrameType /\ Top.at \in Var
      /\ Linked /\ Owed /\ Placed
  BY <1>1, TopInOrder DEF Complete
<1>3. PICK e \in Waiting :
        /\ First(e, Waiting)
        /\ Retop([Top EXCEPT !.elem = e + 1, !.list = conds[Top.at][e]])
        /\ conds' = [conds EXCEPT ![Top.at][e] = <<>>]
  BY DEF TakeConstraints
<1> DEFINE f == [Top EXCEPT !.elem = e + 1, !.list = conds[Top.at][e]]
           at == Top.at
<1>4. e \in bits[at] /\ e \in Element /\ conds[at][e] # <<>> /\ conds[at][e] \in Seq(Var \X Var)
  BY <1>2, <1>3 DEF Waiting, TypeOK
<1>5. f \in FrameType
  BY <1>2, <1>4, FrameSteps
<1>6. /\ f.op = "activate" /\ f.at = at /\ f.list = conds[at][e] /\ f.cur = Top.cur
      /\ f.elem = e + 1
  BY <1>1, <1>2 DEF FrameType
<1>7. Retop(f) /\ \A y \in Waiting : e <= y
  BY <1>3 DEF First
<1>8. /\ \A n \in Var : n # at => conds'[n] = conds[n]
      /\ \A d \in Element : d # e => conds'[at][d] = conds[at][d]
      /\ conds'[at][e] = <<>>
  <2>1. conds \in [Var -> [Element -> Seq(Var \X Var)]] /\ at \in Var
    BY <1>2 DEF TypeOK
  <2>2. conds' = [conds EXCEPT ![at] = [conds[at] EXCEPT ![e] = <<>>]]
    BY <1>3
  <2>3. /\ conds'[at] = [conds[at] EXCEPT ![e] = <<>>]
        /\ \A n \in Var : n # at => conds'[n] = conds[n]
    BY <2>1, <2>2
  <2>4. conds[at] \in [Element -> Seq(Var \X Var)]
    BY <2>1
  <2> QED
    BY <1>4, <2>3, <2>4
<1> HIDE DEF f
<1>9. StackBecomes({f}) /\ Top' = f
  BY <1>1, <1>2, <1>5, <1>7, AfterRetop
<1>10. node[at] # None
  BY <1>2, <1>4 DEF Placed, FreshIsEmpty
<1>11. GraphGrows
  BY <1>1, <1>8, <1>10 DEF GraphGrows
<1>12. Live \subseteq Var /\ bits \in [Var -> SUBSET Element]
  BY <1>2, NodesInUse DEF TypeOK
<1>13. EdgesAnswered({f})
  BY <1>1, <1>6 DEF EdgesAnswered, Pushes
<1>14. WaitingAnswered({f})
  <2> SUFFICES ASSUME NEW n \in Live, NEW d \in bits[n], conds'[n][d] # <<>>
               PROVE  /\ conds[n][d] # <<>>
                      /\ Activates(Top, n, d) => Activates(f, n, d)
    BY <1>1 DEF WaitingAnswered
  <2>1. n \in Var /\ d \in Element /\ d \in Nat
    BY <1>12 DEF Element
  <2>2. conds[n][d] # <<>> /\ ~(n = at /\ d = e)
    BY <1>8, <2>1
  <2>3. ASSUME Activates(Top, n, d)
        PROVE  n = at /\ e + 1 <= d
    <3>1. n = at /\ Top.elem <= d
      BY <1>1, <2>3 DEF Activates
    <3>2. Top.elem \in Nat
      BY <1>2, CubicAssumption DEF FrameType
    <3>3. d \in Waiting
      BY <2>1, <2>2, <3>1, <3>2 DEF Waiting
    <3>4. e <= d /\ e # d /\ e \in Nat
      BY <1>4, <1>7, <2>2, <3>1, <3>3 DEF Element
    <3> QED
      BY <2>1, <3>1, <3>4
  <2> QED
    BY <1>6, <2>2, <2>3 DEF Activates
<1>15. ListsAnswered({f})
  BY <1>1, <1>6, <1>8 DEF ListsAnswered, Listed
<1>16. Owed' /\ Linked'
  BY <1>1, <1>2, <1>9, <1>11, <1>13, <1>14, <1>15, OwedAfter, LinkedAfter
<1>17. Placed'
  <2>1. AtIsNode' /\ InOrder(f)
    BY <1>1, <1>2, <1>6, <1>9 DEF AtIsNode, In, InOrder
  <2> QED
    BY <1>1, <1>2, <1>6, <1>9, <1>11, <2>1, PlacedAfter
<1> QED
  BY <1>16, <1>17 DEF Complete

(* What is before the head of a list is the head, or in its tail.          *)
LEMMA HeadOrTail ==
  ASSUME NEW list \in Seq(Var \X Var), list # <<>>, NEW v, NEW w, Listed(list, v, w)
  PROVE  Head(list) = <<v, w>> \/ Listed(Tail(list), v, w)
<1>1. PICK i \in DOMAIN list : list[i] = <<v, w>>
  BY DEF Listed
<1>2. /\ DOMAIN list = 1..Len(list) /\ Len(list) \in Nat /\ Head(list) = list[1]
      /\ Tail(list) \in Seq(Var \X Var) /\ Len(Tail(list)) = Len(list) - 1
      /\ \A j \in 1..(Len(list) - 1) : Tail(list)[j] = list[j + 1]
  BY HeadTailProperties, LenProperties
<1>3. DOMAIN Tail(list) = 1..(Len(list) - 1)
  BY <1>2, LenProperties
<1> DEFINE L == Len(list)
<1>4. i \in 1..L /\ L \in Nat
  BY <1>1, <1>2
<1> HIDE DEF L
<1>5. i = 1 \/ (i - 1 \in 1..(L - 1) /\ (i - 1) + 1 = i)
  BY <1>4
<1> QED
  BY <1>1, <1>2, <1>3, <1>5 DEF L, Listed

(* Activating a constraint: its two ends are one node, or linked from now  *)
(* on, and what the new edge owes is owed by the call that looks for the   *)
(* cycles it closes.                                                       *)
LEMMA ActivateComplete ==
  ASSUME ShapeInv, Complete, Activate
  PROVE  Complete'
<1>0. PICK from, to : from = Head(Top.list)[1] /\ to = Head(Top.list)[2]
  OBVIOUS
<1> DEFINE f == [Top EXCEPT !.list = Tail(@)]
           k == Kill(node[from], from)
<1>1. /\ Running("activate") /\ Top.list # <<>> /\ stack # <<>> /\ Top.op = "activate"
      /\ UNCHANGED <<node, bits, conds, missed, asked>>
  BY DEF Activate, Running
<1>2. /\ InOrder(Top) /\ InPlace(Top) /\ TypeOK /\ Top \in FrameType /\ Top.at \in Var
      /\ Linked /\ Owed /\ Placed
  BY <1>1, TopInOrder DEF Complete
<1>3. /\ from \in Var /\ to \in Var /\ Known(from) /\ Known(to) /\ f \in FrameType
      /\ f = [Top EXCEPT !.list = Tail(Top.list)] /\ Top.list \in Seq(Var \X Var)
  BY <1>0, <1>1, NextConstraint
<1>4. node[from] \in Var /\ node[to] \in Var
  BY <1>2, <1>3, NodesInUse
<1>5. /\ f.list = Tail(Top.list) /\ f.op = "activate" /\ f.at = Top.at /\ f.elem = Top.elem
      /\ f.cur = Top.cur
  BY <1>1, <1>2, <1>3 DEF FrameType
<1>6. /\ k \in FrameType /\ k.op = "kill" /\ k.at = node[from] /\ k.from = from
      /\ InOrder(k)
  BY <1>3, <1>4, NewFrames, NewCalls
<1>7. \/ node[from] = node[to] /\ UNCHANGED sups /\ Retop(f)
      \/ Connect(node[from], node[to]) /\ stack' = Append(Append(Front(stack), f), k)
  BY <1>0 DEF Activate, Retop
<1>8. \A v, w \in Var : Listed(Top.list, v, w) => (v = from /\ w = to) \/ Listed(f.list, v, w)
  <2> TAKE v, w \in Var
  <2> HAVE Listed(Top.list, v, w)
  <2>1. Head(Top.list) = <<v, w>> \/ Listed(Tail(Top.list), v, w)
    BY <1>1, <1>3, HeadOrTail
  <2> QED
    BY <1>0, <1>5, <2>1
<1>9. \A n, m, e : /\ Pushes(Top, n, m) => Pushes(f, n, m)
                   /\ Activates(Top, n, e) => Activates(f, n, e)
  BY <1>1, <1>5 DEF Pushes, Activates
<1>10. InOrder(f)
  BY <1>1, <1>2, <1>5 DEF InOrder
<1> HIDE DEF f, k
<1>11. ASSUME NEW N, StackBecomes(N), f \in N, \A g \in N : InOrder(g) /\ g.op # "push",
              GraphGrows, EdgesAnswered(N), Included(from, to)', AtIsNode'
       PROVE  Complete'
  <2>1. WaitingAnswered(N)
    BY <1>1, <1>9, <1>11 DEF WaitingAnswered
  <2>2. ListsAnswered(N)
    BY <1>1, <1>8, <1>11 DEF ListsAnswered
  <2>3. Owed' /\ Linked'
    BY <1>1, <1>2, <1>11, <2>1, <2>2, OwedAfter, LinkedAfter
  <2>4. Placed'
    BY <1>1, <1>2, <1>11, PlacedAfter
  <2> QED
    BY <2>3, <2>4 DEF Complete
<1>12. CASE node[from] = node[to] /\ UNCHANGED sups /\ Retop(f)
  <2>1. StackBecomes({f}) /\ Top' = f
    BY <1>1, <1>2, <1>3, <1>12, AfterRetop
  <2>2. GraphGrows
    BY <1>1, <1>12 DEF GraphGrows
  <2>3. EdgesAnswered({f})
    BY <1>1, <1>9, <1>12 DEF EdgesAnswered
  <2>4. Included(from, to)' /\ AtIsNode'
    BY <1>1, <1>5, <1>12, <2>1 DEF Included, AtIsNode, In
  <2> QED
    BY <1>5, <1>10, <1>11, <2>1, <2>2, <2>3, <2>4
<1>13. CASE Connect(node[from], node[to]) /\ stack' = Append(Append(Front(stack), f), k)
  <2>1. StackBecomes({f, k}) /\ Top' = k
    BY <1>1, <1>2, <1>3, <1>6, <1>13, AfterCall
  <2>2. /\ \A n \in Var : sups[n] \subseteq sups'[n]
        /\ \A n \in Var : \A m \in sups'[n] :
             m \in sups[n] \/ (n = node[from] /\ m = node[to])
        /\ node[to] \in sups'[node[from]]
    <3> DEFINE a == node[from]
               b == node[to]
    <3>1. sups \in [Var -> SUBSET Var] /\ a \in Var /\ b \in Var
      BY <1>2, <1>4 DEF TypeOK
    <3>2. sups' = [sups EXCEPT ![a] = @ \cup {b}]
      BY <1>13 DEF Connect
    <3> HIDE DEF a, b
    <3>3. /\ \A n \in Var : n # a => sups'[n] = sups[n]
          /\ sups'[a] = sups[a] \cup {b}
      BY <3>1, <3>2
    <3>4. \A n \in Var : sups[n] \subseteq sups'[n]
      BY <3>3
    <3>5. \A n \in Var : \A m \in sups'[n] : m \in sups[n] \/ (n = a /\ m = b)
      BY <3>3
    <3>6. b \in sups'[a]
      BY <3>3
    <3> QED
      BY <3>4, <3>5, <3>6 DEF a, b
  <2>3. node[node[to]] # None
    BY <1>2, <1>3 DEF ShapeInv, GraphInv, Representative, Known
  <2>4. GraphGrows
    BY <1>1, <2>2, <2>3 DEF GraphGrows
  <2>5. \A m : Pushes(k, node[from], m)
    BY <1>6 DEF Pushes
  <2>6. EdgesAnswered({f, k})
    <3>1. Live \subseteq Var
      BY <1>2, NodesInUse
    <3> QED
      BY <1>1, <1>9, <2>2, <2>5, <3>1 DEF EdgesAnswered
  <2>7. Included(from, to)'
    BY <1>1, <2>2 DEF Included
  <2>8. AtIsNode'
    BY <1>1, <1>6, <2>1 DEF AtIsNode
  <2> QED
    BY <1>5, <1>6, <1>10, <1>11, <2>1, <2>4, <2>6, <2>7, <2>8
<1> QED
  BY <1>7, <1>12, <1>13

(* Pushing to the next superset: it is told by a call of its own.          *)
LEMMA PushComplete ==
  ASSUME ShapeInv, Complete, PushNext
  PROVE  Complete'
<1>1. /\ stack # <<>> /\ Top.op = "push"
      /\ UNCHANGED <<node, conds, sups, subs, missed, asked>>
  BY DEF PushNext, Running
<1>2. /\ InOrder(Top) /\ TypeOK /\ Top \in FrameType /\ Top.at \in Var /\ Top.list = <<>>
      /\ Linked /\ Owed /\ Placed
      /\ \A n \in Var : n \notin sups[n]
  BY <1>1, TopInOrder DEF Complete, InOrder
<1>3. PICK s \in Ahead :
        /\ First(s, Ahead)
        /\ bits' = [bits EXCEPT ![s] = @ \cup bits[Top.at]]
        /\ stack' = Append(Append(Front(stack), [Top EXCEPT !.cur = s]), Propagate(s))
  BY DEF PushNext
<1> DEFINE f == [Top EXCEPT !.cur = s]
           g == Propagate(s)
           at == Top.at
<1>4. s \in Var /\ s \in sups[at] /\ s # at
  BY <1>2, <1>3 DEF Ahead, TypeOK
<1>5. node[s] # None
  BY <1>2, <1>4 DEF Placed, SupersKnown
<1>6. f \in FrameType
  BY <1>2, <1>4, FrameSteps
<1>7. f.op = "push" /\ f.at = at /\ f.cur = s /\ f.list = <<>>
  BY <1>1, <1>2 DEF FrameType
<1>8. g \in FrameType /\ g.op = "activate" /\ g.at = s /\ g.elem = 1 /\ g.list = <<>> /\ InOrder(g)
  BY <1>4, NewFrames, NewCalls
<1>9. /\ bits'[s] = bits[s] \cup bits[at]
      /\ \A n \in Var : n # s => bits'[n] = bits[n]
      /\ \A n \in Var : bits[n] \subseteq bits'[n]
  BY <1>2, <1>3, <1>4 DEF TypeOK
<1>10. \A m \in sups[at] : m \in Nat /\ Top.cur \in Nat /\ s \in Nat /\ (Top.cur < m => s <= m)
  <2>1. \A m \in sups[at] : m \in Nat /\ Top.cur \in Nat
    BY <1>2, CurIsNumber DEF TypeOK
  <2>2. \A m \in sups[at] : m > Top.cur => s <= m
    BY <1>3 DEF First, Ahead
  <2> QED
    BY <1>4, <2>1, <2>2
<1>11. stack' = Append(Append(Front(stack), f), g)
  BY <1>3
<1> HIDE DEF f, g
<1>12. StackBecomes({f, g}) /\ Top' = g
  BY <1>1, <1>2, <1>6, <1>8, <1>11, AfterCall
<1>13. GraphGrows
  BY <1>1, <1>5, <1>9 DEF GraphGrows
<1>14. Live \subseteq Var /\ sups \in [Var -> SUBSET Var] /\ bits \in [Var -> SUBSET Element]
       /\ bits' \in [Var -> SUBSET Element]
  BY <1>2, <1>3, <1>4, NodesInUse DEF TypeOK
<1>15. EdgesAnswered({f, g})
  <2> SUFFICES ASSUME NEW n \in Live, NEW m \in sups[n]
               PROVE  \/ /\ bits'[n] = bits[n] /\ bits[m] \subseteq bits'[m]
                         /\ Pushes(Top, n, m) =>
                              bits'[n] \subseteq bits'[m] \/ \E h \in {f, g} : Pushes(h, n, m)
                      \/ \E h \in {f, g} : Pushes(h, n, m)
    BY <1>1 DEF EdgesAnswered
  <2>1. n \in Var /\ m \in Var
    BY <1>14
  <2>2. CASE n = s
    BY <1>8, <2>2 DEF Pushes
  <2>3. CASE n # s
    <3>1. bits'[n] = bits[n] /\ bits[m] \subseteq bits'[m]
      BY <1>9, <2>1, <2>3
    <3>2. ASSUME Pushes(Top, n, m)
          PROVE  bits'[n] \subseteq bits'[m] \/ Pushes(f, n, m)
      <4>1. n = at /\ Top.cur < m
        BY <1>1, <3>2 DEF Pushes
      <4>2. CASE m = s
        BY <1>9, <3>1, <4>1, <4>2
      <4>3. CASE m # s
        <5>1. s < m
          BY <1>10, <4>1, <4>3
        <5> QED
          BY <1>7, <4>1, <5>1 DEF Pushes
      <4> QED
        BY <4>2, <4>3
    <3> QED
      BY <3>1, <3>2
  <2> QED
    BY <2>2, <2>3
<1>16. WaitingAnswered({f, g})
  <2> SUFFICES ASSUME NEW n \in Live, NEW e \in bits'[n], conds[n][e] # <<>>
               PROVE  \/ e \in bits[n] /\ ~Activates(Top, n, e)
                      \/ Activates(g, n, e)
    BY <1>1 DEF WaitingAnswered
  <2>1. e \in Nat /\ 1 <= e /\ n \in Var
    BY <1>14 DEF Element
  <2> QED
    BY <1>1, <1>8, <1>9, <2>1 DEF Activates
<1>17. ListsAnswered({f, g})
  BY <1>1, <1>2 DEF ListsAnswered, Listed
<1>18. Owed' /\ Linked'
  BY <1>1, <1>2, <1>12, <1>13, <1>15, <1>16, <1>17, OwedAfter, LinkedAfter
<1>19. Placed'
  <2>1. AtIsNode'
    BY <1>8, <1>12 DEF AtIsNode, In
  <2>2. InOrder(f) /\ \A h \in {f, g} : h.op = "push" => h.cur \in sups'[h.at]
    BY <1>1, <1>4, <1>7, <1>8 DEF InOrder
  <2> QED
    BY <1>1, <1>2, <1>8, <1>12, <1>13, <2>1, <2>2, PlacedAfter
<1> QED
  BY <1>18, <1>19 DEF Complete

-----------------------------------------------------------------------------
(* Merging.                                                                *)

(* What is in one of two lists is in their concatenation.                  *)
LEMMA ListedInBoth ==
  ASSUME NEW s \in Seq(Var \X Var), NEW t \in Seq(Var \X Var), NEW v, NEW w,
         Listed(s, v, w) \/ Listed(t, v, w)
  PROVE  Listed(s \o t, v, w)
<1>1. /\ s \o t \in Seq(Var \X Var) /\ Len(s \o t) = Len(s) + Len(t)
      /\ \A i \in 1..(Len(s) + Len(t)) :
           (s \o t)[i] = IF i <= Len(s) THEN s[i] ELSE t[i - Len(s)]
  BY ConcatProperties
<1>2. /\ DOMAIN (s \o t) = 1..(Len(s) + Len(t)) /\ DOMAIN s = 1..Len(s)
      /\ DOMAIN t = 1..Len(t) /\ Len(s) \in Nat /\ Len(t) \in Nat
  BY <1>1, LenProperties
<1> DEFINE S == Len(s)
           T == Len(t)
<1>3. /\ DOMAIN (s \o t) = 1..(S + T) /\ DOMAIN s = 1..S /\ DOMAIN t = 1..T
      /\ S \in Nat /\ T \in Nat
      /\ \A i \in 1..(S + T) : (s \o t)[i] = IF i <= S THEN s[i] ELSE t[i - S]
  BY <1>1, <1>2
<1> HIDE DEF S, T
<1>4. \A i \in DOMAIN s : i \in DOMAIN (s \o t) /\ (s \o t)[i] = s[i]
  BY <1>3
<1>5. \A i \in DOMAIN t : i + S \in DOMAIN (s \o t) /\ (s \o t)[i + S] = t[i]
  BY <1>3
<1> QED
  BY <1>4, <1>5 DEF Listed

(* What mergeNodes does to the two nodes, and to the innermost call: it    *)
(* answers for all that the node kept may owe, and for what it answered    *)
(* for, except at the node merged away.                                    *)
Merges(n1, n2) ==
  /\ n1 \in Live /\ n2 \in Live /\ n1 \in Var /\ n2 \in Var /\ n1 # n2
  /\ node[n1] = n1 /\ Live' = Live \ {n2}
  /\ \A v \in Var : node'[v] = IF node[v] = n2 THEN n1 ELSE node[v]
  /\ bits'[n1] = bits[n1] \cup bits[n2]
  /\ \A n \in Var : n # n1 => bits'[n] = bits[n]
  /\ \A n \in Var : n # n1 => conds'[n] = conds[n]
  /\ \A e \in Element : conds'[n1][e] = conds[n1][e] \o conds[n2][e]
  /\ sups'[n1] = (sups[n1] \cup sups[n2]) \ {n1, n2}
  /\ \A n \in Var : n # n1 /\ n \in subs[n2] => sups'[n] = (sups[n] \ {n2}) \cup {n1}
  /\ \A n \in Var : n # n1 /\ n \notin subs[n2] => sups'[n] = sups[n]
  /\ missed' = (missed \/ PassedOver(n1, n2))
  /\ UNCHANGED asked

MergeAnswered(n1, f) ==
  /\ f.op \in {"kill", "walk"} /\ f.list = <<>>
  /\ \A m : Pushes(f, n1, m)
  /\ \A e : Activates(f, n1, e)
  /\ \A n \in Live' : \A m : n # n1 /\ Pushes(Top, n, m) => \A l : Pushes(f, n, l)
  /\ \A n \in Live' : \A e : n # n1 /\ Activates(Top, n, e) => Activates(f, n, e)

(* The last merge of a path is of the node the call is at.                 *)
MergeTop(n1, n2, f) ==
  /\ n1 = Top.cur
  /\ f = Top \/ (f.op = "kill" /\ f.at = n1 /\ f.cur = None /\ Top.at = n2)

LEMMA MergeParts ==
  ASSUME ShapeInv, Complete, MergeNodes
  PROVE  \E n1, n2, f :
           /\ Merges(n1, n2)
           /\ StackBecomes({f}) /\ Top' = f
           /\ MergeAnswered(n1, f)
           /\ MergeTop(n1, n2, f)
           /\ node'[f.from] = f.at
<1>0. PICK n1, n2 : n1 = path[Len(path)] /\ n2 = path[Len(path) - 1]
  OBVIOUS
<1>1. /\ Last(path) = n1 /\ n1 # n2 /\ n1 \in Live /\ n2 \in Live
      /\ n1 \in Var /\ n2 \in Var /\ n1 = Top.cur
  BY <1>0, MergedNodes
<1>2. /\ TypeOK /\ stack # <<>> /\ Top \in FrameType /\ Top.op = "walk"
      /\ path[1] = Top.at /\ Known(Top.from)
  BY PathShape DEF MergeNodes, In
<1>3. /\ node' = [v \in Var |-> IF node[v] = n2 THEN n1 ELSE node[v]]
      /\ bits' = [bits EXCEPT ![n1] = @ \cup bits[n2]]
      /\ conds' = [conds EXCEPT ![n1] = [e \in Element |-> @[e] \o conds[n2][e]]]
      /\ sups' = Renamed(sups, subs, n1, n2)
      /\ subs' = Renamed(subs, sups, n1, n2)
      /\ missed' = (missed \/ PassedOver(n1, n2))
      /\ UNCHANGED asked
  BY <1>0, <1>1 DEF MergeNodes
<1>4. Live' = Live \ {n2}
  BY <1>1, <1>3, EdgesAfterMerge
<1>5. node[n1] = n1
  BY <1>1, <1>2, LiveNodes DEF ShapeInv, GraphInv
<1>6. Merges(n1, n2)
  <2>1. /\ bits'[n1] = bits[n1] \cup bits[n2]
        /\ \A n \in Var : n # n1 => bits'[n] = bits[n]
    BY <1>1, <1>2, <1>3 DEF TypeOK
  <2>2. /\ \A n \in Var : n # n1 => conds'[n] = conds[n]
        /\ \A e \in Element : conds'[n1][e] = conds[n1][e] \o conds[n2][e]
    BY <1>1, <1>2, <1>3 DEF TypeOK
  <2>3. /\ sups'[n1] = (sups[n1] \cup sups[n2]) \ {n1, n2}
        /\ \A n \in Var : n # n1 /\ n \in subs[n2] => sups'[n] = (sups[n] \ {n2}) \cup {n1}
        /\ \A n \in Var : n # n1 /\ n \notin subs[n2] => sups'[n] = sups[n]
    BY <1>1, <1>3 DEF Renamed
  <2> QED
    BY <1>1, <1>3, <1>4, <1>5, <2>1, <2>2, <2>3 DEF Merges
<1>7. Top.list = <<>> /\ node[Top.from] = Top.at
  BY <1>2, TopInOrder DEF Complete, Placed, InOrder, AtIsNode, In
<1>8. CASE Len(path) = 2
  <2> DEFINE f == Kill(n1, Top.from)
  <2>1. Retop(f) /\ n2 = Top.at
    BY <1>0, <1>1, <1>2, <1>8 DEF MergeNodes
  <2>2. /\ f \in FrameType /\ f.op = "kill" /\ f.at = n1 /\ f.from = Top.from /\ f.list = <<>>
        /\ f.cur = None
    BY <1>1, <1>2, NewFrames, NewCalls DEF Known
  <2> HIDE DEF f
  <2>3. StackBecomes({f}) /\ Top' = f
    BY <1>2, <2>1, <2>2, AfterRetop
  <2>4. MergeAnswered(n1, f)
    BY <1>1, <1>2, <1>4, <2>1, <2>2 DEF MergeAnswered, Pushes, Activates
  <2>5. node'[f.from] = f.at
    BY <1>2, <1>3, <1>7, <2>1, <2>2 DEF Known
  <2>6. MergeTop(n1, n2, f)
    BY <1>1, <2>1, <2>2 DEF MergeTop
  <2> QED
    BY <1>6, <2>3, <2>4, <2>5, <2>6
<1>9. CASE Len(path) # 2
  <2>1. UNCHANGED stack
    BY <1>9 DEF MergeNodes
  <2>2. StackBecomes({Top}) /\ Top' = Top
    BY <1>2, <2>1, AfterNothing
  <2>3. MergeAnswered(n1, Top)
    BY <1>1, <1>2, <1>7 DEF MergeAnswered, Pushes, Activates
  <2>4. Top.at # n2
    BY <1>2, <1>4, <2>1, <2>2, MergeShape DEF ShapeInv, CallsInv, KillInv, In
  <2>5. node'[Top.from] = Top.at
    BY <1>2, <1>3, <1>7, <2>4 DEF Known
  <2>6. MergeTop(n1, n2, Top)
    BY <1>1 DEF MergeTop
  <2> QED
    BY <1>6, <2>2, <2>3, <2>5, <2>6
<1> QED
  BY <1>8, <1>9

LEMMA MergeLinked ==
  ASSUME ShapeInv, Complete, stack # <<>>, NEW n1, NEW n2, NEW f, Merges(n1, n2),
         StackBecomes({f}), Top.list = <<>>
  PROVE  Linked'
<1>1. TypeOK /\ EdgesMirrored /\ Live \subseteq Var /\ None \notin Var /\ Linked
  BY NodesInUse DEF ShapeInv, Complete
<1>2. \A v, w : WillLink(v, w) => WillLink(v, w)'
  BY <1>1, StillOwed DEF Listed
<1>3. \A v \in Var : Known(v) => Known(v)' /\ node[v] \in Live /\ node[v] \in Var
  BY <1>1, NodesInUse DEF Merges, Known
<1>4. ASSUME NEW v \in Var, NEW w \in Var, Known(v), Known(w), Included(v, w)
      PROVE  Included(v, w)'
  <2> DEFINE a == node[v]
             b == node[w]
  <2>1. a \in Live /\ a \in Var /\ b \in Live /\ b \in Var /\ (a = b \/ b \in sups[a])
    BY <1>3, <1>4 DEF Included
  <2>2. /\ node'[v] = IF a = n2 THEN n1 ELSE a
        /\ node'[w] = IF b = n2 THEN n1 ELSE b
    BY DEF Merges
  <2>3. b \in sups[a] => a \in subs[b]
    BY <1>1, <2>1 DEF EdgesMirrored
  <2> HIDE DEF a, b
  <2>4. node'[v] = node'[w] \/ node'[w] \in sups'[node'[v]]
    <3>1. CASE a = b
      BY <2>2, <3>1
    <3>2. CASE a \in {n1, n2} /\ b \in {n1, n2}
      BY <2>2, <3>2
    <3>3. CASE a \in {n1, n2} /\ b \notin {n1, n2} /\ b \in sups[a]
      BY <2>2, <3>3 DEF Merges
    <3>4. CASE a \notin {n1, n2} /\ b = n2 /\ b \in sups[a]
      BY <2>1, <2>2, <2>3, <3>4 DEF Merges
    <3>5. CASE a \notin {n1, n2} /\ b # n2 /\ b \in sups[a]
      <4>1. b \in sups'[a]
        BY <2>1, <3>5 DEF Merges
      <4> QED
        BY <2>2, <3>5, <4>1
    <3> QED
      BY <2>1, <3>1, <3>2, <3>3, <3>4, <3>5
  <2> QED
    BY <2>4 DEF Included
<1>5. ElementsHeld'
  <2> SUFFICES ASSUME NEW c \in asked, c.type = "element"
               PROVE  Known(c.var)' /\ c.elem \in bits'[node'[c.var]]
    BY DEF ElementsHeld, Merges
  <2>1. Known(c.var) /\ c.elem \in bits[node[c.var]] /\ c.var \in Var
    BY <1>1 DEF Linked, ElementsHeld, Known
  <2> QED
    BY <1>3, <2>1 DEF Merges
<1>6. SubsetsLinked'
  <2> SUFFICES ASSUME NEW c \in asked, c.type = "subset"
               PROVE  Known(c.from)' /\ Known(c.to)' /\ Included(c.from, c.to)'
    BY DEF SubsetsLinked, Merges
  <2>1. /\ Known(c.from) /\ Known(c.to) /\ Included(c.from, c.to)
        /\ c.from \in Var /\ c.to \in Var
    BY <1>1 DEF Linked, SubsetsLinked, Known
  <2> QED
    BY <1>3, <1>4, <2>1
<1>7. ConditionalsKept'
  <2> SUFFICES ASSUME NEW c \in asked, c.type = "conditional"
               PROVE  /\ Known(c.in)' /\ Known(c.from)' /\ Known(c.to)'
                      /\ \/ Included(c.from, c.to)'
                         \/ Listed(conds'[node'[c.in]][c.elem], c.from, c.to)
                         \/ WillLink(c.from, c.to)'
    BY DEF ConditionalsKept, Merges
  <2>1. /\ Known(c.in) /\ Known(c.from) /\ Known(c.to)
        /\ c.in \in Var /\ c.from \in Var /\ c.to \in Var /\ c.elem \in Element
        /\ \/ Included(c.from, c.to)
           \/ Listed(conds[node[c.in]][c.elem], c.from, c.to)
           \/ WillLink(c.from, c.to)
    BY <1>1, AskedParts DEF Linked, ConditionalsKept
  <2>2. ASSUME Listed(conds[node[c.in]][c.elem], c.from, c.to)
        PROVE  Listed(conds'[node'[c.in]][c.elem], c.from, c.to)
    <3> DEFINE a == node[c.in]
    <3>1. a \in Var /\ node'[c.in] = IF a = n2 THEN n1 ELSE a
      BY <1>3, <2>1 DEF Merges
    <3>2. \A n \in Var : conds[n][c.elem] \in Seq(Var \X Var)
      BY <1>1, <2>1 DEF TypeOK
    <3>3. Listed(conds[a][c.elem], c.from, c.to)
      BY <2>2
    <3> HIDE DEF a
    <3>4. CASE a \in {n1, n2}
      <4>1. conds'[n1][c.elem] = conds[n1][c.elem] \o conds[n2][c.elem]
        BY <2>1 DEF Merges
      <4>2. conds[n1][c.elem] \in Seq(Var \X Var) /\ conds[n2][c.elem] \in Seq(Var \X Var)
        BY <3>2 DEF Merges
      <4>3. Listed(conds'[n1][c.elem], c.from, c.to)
        BY <3>3, <3>4, <4>1, <4>2, ListedInBoth
      <4> QED
        BY <3>1, <3>4, <4>3
    <3>5. CASE a \notin {n1, n2}
      BY <3>1, <3>3, <3>5 DEF Merges
    <3> QED
      BY <3>4, <3>5
  <2> QED
    BY <1>2, <1>3, <1>4, <2>1, <2>2
<1> QED
  BY <1>5, <1>6, <1>7 DEF Linked

(* A call that would have pushed to the node merged away pushes to the one *)
(* that takes its place; or it has done so; or it passes over it.          *)
LEMMA PushRenamed ==
  ASSUME ShapeInv, Complete, stack # <<>>, NEW n1, NEW n2, NEW f, Merges(n1, n2),
         StackBecomes({f}), Top.op = "walk", MergeAnswered(n1, f),
         NEW n \in Live', n # n1, n \in subs[n2], n1 \notin sups[n],
         NEW i \in DOMAIN stack, Pushes(stack[i], n, n2)
  PROVE  missed' \/ bits'[n] \subseteq bits'[n1] \/ WillPush(n, n1)'
<1>1. /\ n \in Live /\ n \in Var /\ TypeOK /\ bits'[n] = bits[n] /\ n1 \in Live
      /\ bits'[n1] = bits[n1] \cup bits[n2] /\ n1 \in Var /\ n2 \in Var
  BY NodesInUse DEF Merges, ShapeInv
<1>2. /\ stack \in Seq(FrameType) /\ DOMAIN stack = 1..Len(stack) /\ Len(stack) \in Nat
      /\ Top = stack[Len(stack)]
  BY <1>1, TopFrame DEF TypeOK
<1>3. stack[i] \in FrameType
  BY <1>2, ElementOfSeq
<1>4. CASE i = Len(stack)
  <2>1. Pushes(f, n, n1)
    BY <1>2, <1>4 DEF MergeAnswered
  <2> QED
    BY <1>1, <2>1, StillOwed
<1>5. CASE i # Len(stack)
  <2>1. i \in DOMAIN stack' /\ stack'[i] = stack[i]
    BY <1>5 DEF StackBecomes
  <2>2. stack[i].op \notin {"kill", "search", "walk"}
    BY <1>2, <1>5 DEF ShapeInv, CallsInv, Buried
  <2>3. Pushes(stack[i], n, n1) => WillPush(n, n1)'
    BY <2>1 DEF WillPush
  <2>4. CASE stack[i].op = "activate"
    <3>1. Pushes(stack[i], n, n1)
      BY <2>4 DEF Pushes
    <3> QED
      BY <2>3, <3>1
  <2>5. CASE stack[i].op = "push"
    <3> DEFINE c == stack[i].cur
    <3>1. stack[i].at = n /\ c < n2
      BY <2>5 DEF Pushes
    <3>2. c \in Nat /\ n1 \in Nat
      BY <1>1, <1>3, CurIsNumber
    <3>3. c # n1
      BY <1>1, <2>5, <3>1 DEF Complete, Placed, PushInPlace, InPlace
    <3>4. c < n1 => Pushes(stack[i], n, n1)
      BY <2>5, <3>1 DEF Pushes
    <3>5. n1 < c => missed' \/ bits'[n] \subseteq bits'[n1]
      <4> HAVE n1 < c
      <4>1. bits[n] \subseteq bits[n1] \cup bits[n2] \/ PassedOver(n1, n2)
        BY <2>5, <3>1 DEF PassedOver
      <4> QED
        BY <1>1, <4>1 DEF Merges
    <3> HIDE DEF c
    <3>6. c < n1 \/ n1 < c
      BY <3>2, <3>3
    <3> QED
      BY <2>3, <3>4, <3>5, <3>6
  <2> QED
    BY <2>2, <2>4, <2>5 DEF Pushes
<1> QED
  BY <1>4, <1>5

LEMMA MergeOwed ==
  ASSUME ShapeInv, Complete, stack # <<>>, NEW n1, NEW n2, NEW f, Merges(n1, n2),
         StackBecomes({f}), Top.op = "walk", MergeAnswered(n1, f)
  PROVE  Owed'
<1>1. TypeOK /\ EdgesMirrored /\ Live \subseteq Var /\ Owed
  BY NodesInUse DEF ShapeInv, Complete
<1>2. /\ \A n, m : WillPush(n, m) => Pushes(Top, n, m) \/ WillPush(n, m)'
      /\ \A n, m : Pushes(f, n, m) => WillPush(n, m)'
      /\ \A n, e : WillActivate(n, e) => Activates(Top, n, e) \/ WillActivate(n, e)'
      /\ \A n, e : Activates(f, n, e) => WillActivate(n, e)'
  BY <1>1, StillOwed
<1>3. Live' \subseteq Live /\ (missed => missed')
  BY DEF Merges
<1>4. ASSUME NEW n \in Live', NEW m \in sups'[n]
      PROVE  missed' \/ bits'[n] \subseteq bits'[m] \/ WillPush(n, m)'
  <2>1. CASE n = n1
    BY <1>2, <2>1 DEF MergeAnswered
  <2>2. CASE n # n1
    <3>1. n \in Live /\ n \in Var /\ bits'[n] = bits[n]
      BY <1>1, <1>3, <2>2 DEF Merges
    <3>2. \A l \in sups[n] : WillPush(n, l) => WillPush(n, l)'
      BY <1>2, <2>2 DEF MergeAnswered
    <3>3. ASSUME m \in sups[n]
          PROVE  missed' \/ bits'[n] \subseteq bits'[m] \/ WillPush(n, m)'
      <4>1. missed \/ bits[n] \subseteq bits[m] \/ WillPush(n, m)
        BY <1>1, <3>1, <3>3 DEF Owed, EdgesServed
      <4>2. bits[m] \subseteq bits'[m]
        BY <1>1, <3>1, <3>3 DEF Merges, TypeOK
      <4> QED
        BY <1>3, <3>1, <3>2, <3>3, <4>1, <4>2
    <3>4. ASSUME m \notin sups[n]
          PROVE  missed' \/ bits'[n] \subseteq bits'[m] \/ WillPush(n, m)'
      <4>1. m = n1 /\ n \in subs[n2]
        BY <2>2, <3>1, <3>4 DEF Merges
      <4>2. n2 \in sups[n]
        BY <1>1, <3>1, <4>1 DEF EdgesMirrored, Merges
      <4>3. missed \/ bits[n] \subseteq bits[n2] \/ WillPush(n, n2)
        BY <1>1, <3>1, <4>2 DEF Owed, EdgesServed
      <4>4. CASE WillPush(n, n2)
        <5>1. PICK i \in DOMAIN stack : Pushes(stack[i], n, n2)
          BY <4>4 DEF WillPush
        <5> QED
          BY <2>2, <3>4, <4>1, <5>1, PushRenamed
      <4> QED
        BY <1>3, <3>1, <4>1, <4>3, <4>4 DEF Merges
    <3> QED
      BY <3>3, <3>4
  <2> QED
    BY <2>1, <2>2
<1>5. ASSUME NEW n \in Live', NEW e \in bits'[n], conds'[n][e] # <<>>
      PROVE  WillActivate(n, e)'
  <2>1. CASE n = n1
    BY <1>2, <2>1 DEF MergeAnswered
  <2>2. CASE n # n1
    <3>1. n \in Live /\ n \in Var /\ bits'[n] = bits[n] /\ conds'[n] = conds[n]
      BY <1>1, <1>3, <2>2 DEF Merges
    <3>2. WillActivate(n, e)
      BY <1>1, <1>5, <3>1 DEF Owed, WaitingServed
    <3> QED
      BY <1>2, <2>2, <3>2 DEF MergeAnswered
  <2> QED
    BY <2>1, <2>2
<1> QED
  BY <1>4, <1>5 DEF Owed, EdgesServed, WaitingServed

LEMMA MergePlaced ==
  ASSUME ShapeInv, Complete, stack # <<>>, NEW n1, NEW n2, NEW f, Merges(n1, n2),
         StackBecomes({f}), Top' = f, MergeAnswered(n1, f), node'[f.from] = f.at
  PROVE  Placed'
<1>1. /\ TypeOK /\ Live \subseteq Var /\ None \notin Var /\ Placed
      /\ \A n \in Var : n \notin sups[n]
  BY NodesInUse DEF ShapeInv, Complete, GraphInv, Irreflexive
<1>2. FreshIsEmpty'
  BY <1>1 DEF Placed, FreshIsEmpty, Merges
<1>3. SupersKnown'
  <2> SUFFICES ASSUME NEW n \in Var, NEW m \in sups'[n]
               PROVE  node'[m] # None
    BY DEF SupersKnown
  <2>1. m \in sups[n] \/ m \in sups[n2] \/ m = n1
    BY DEF Merges
  <2>2. node[m] # None /\ m \in Var
    BY <1>1, <2>1 DEF Placed, SupersKnown, Merges, TypeOK
  <2> QED
    BY <1>1, <2>2 DEF Merges
<1>4. AtIsNode'
  BY DEF AtIsNode
<1>5. PushInPlace'
  <2> SUFFICES ASSUME NEW i \in DOMAIN stack',
                      stack'[i].op = "push" /\ stack'[i].at \in Live' /\ stack'[i].cur \in Live'
               PROVE  stack'[i].cur \in sups'[stack'[i].at]
    BY DEF PushInPlace, InPlace
  <2>1. stack'[i] # f
    BY DEF MergeAnswered
  <2>2. PICK j \in DOMAIN stack : stack'[i] = stack[j]
    BY <2>1 DEF StackBecomes
  <2> DEFINE a == stack[j].at
             c == stack[j].cur
  <2>3. /\ c \in sups[a] /\ a \in Live /\ a \in Var /\ c \in Live /\ a # n2 /\ c # n2 /\ c # a
    BY <1>1, <2>2 DEF Placed, PushInPlace, InPlace, Merges
  <2> HIDE DEF a, c
  <2>4. c \in sups'[a]
    BY <2>3 DEF Merges
  <2> QED
    BY <2>2, <2>4 DEF a, c
<1>6. CallsInOrder'
  BY <1>1 DEF Placed, CallsInOrder, StackBecomes, InOrder, MergeAnswered
<1> QED
  BY <1>2, <1>3, <1>4, <1>5, <1>6 DEF Placed

LEMMA MergeComplete ==
  ASSUME ShapeInv, Complete, MergeNodes
  PROVE  Complete'
<1>1. PICK n1, n2, f :
        /\ Merges(n1, n2)
        /\ StackBecomes({f}) /\ Top' = f
        /\ MergeAnswered(n1, f)
        /\ node'[f.from] = f.at
  BY MergeParts
<1>2. stack # <<>> /\ Top.op = "walk"
  BY DEF MergeNodes, Running
<1>3. Top.list = <<>>
  BY <1>2, TopInOrder DEF Complete, InOrder
<1> QED
  BY <1>1, <1>2, <1>3, MergeLinked, MergeOwed, MergePlaced DEF Complete

LEMMA StepComplete ==
  ASSUME ShapeInv, Complete, Step
  PROVE  Complete'
BY SearchComplete, LoopEndsComplete, TakeComplete, ActivateComplete, PushComplete, MergeComplete
   DEF Step

-----------------------------------------------------------------------------
(* Adding a constraint.                                                    *)

(* Only the node a changes, and the call that is made answers for it.      *)
AddsAt(a) ==
  /\ a \in Var /\ node'[a] # None
  /\ \A n \in Var : n # a => bits'[n] = bits[n] /\ conds'[n] = conds[n] /\ sups'[n] = sups[n]
  /\ bits[a] \subseteq bits'[a]
  /\ sups[a] \subseteq sups'[a]
  /\ \A m \in sups'[a] : m \in sups[a] \/ node'[m] # None
  /\ \A e \in Element : \A v, w : Listed(conds[a][e], v, w) => Listed(conds'[a][e], v, w)
  /\ UNCHANGED missed
  /\ \/ stack' = <<>> /\ bits'[a] = bits[a] /\ conds'[a] = conds[a] /\ sups'[a] = sups[a]
     \/ \E g \in FrameType :
          /\ stack' = <<g>> /\ g.at = a /\ InOrder(g)
          /\ \/ g.op = "kill" /\ node'[g.from] = a
             \/ g.op = "activate" /\ g.elem = 1

(* The new constraint is kept.                                             *)
Keeps(c) ==
  /\ asked' = asked \cup {c}
  /\ c.type = "element" => Known(c.var)' /\ c.elem \in bits'[node'[c.var]]
  /\ c.type = "subset" =>
       /\ Known(c.from)' /\ Known(c.to)'
       /\ node'[c.from] = node'[c.to] \/ node'[c.to] \in sups'[node'[c.from]]
  /\ c.type = "conditional" =>
       /\ Known(c.in)' /\ Known(c.from)' /\ Known(c.to)'
       /\ Listed(conds'[node'[c.in]][c.elem], c.from, c.to)

LEMMA AddedComplete ==
  ASSUME ShapeInv, ShapeInv', Complete, stack = <<>>, Grown, NEW a, AddsAt(a), NEW c, Keeps(c)
  PROVE  Complete'
<1>1. /\ TypeOK /\ TypeOK' /\ Representative /\ FreshIsBare /\ Linked /\ Owed /\ Placed
      /\ None \notin Var /\ Live \subseteq Var
  BY NodesInUse DEF ShapeInv, GraphInv, Complete
<1>2. /\ \A n \in Var : n \in Live' /\ n \notin Live => node[n] = None
      /\ Live' \subseteq Var
      /\ \A v \in Var : Known(v) => Known(v)' /\ node'[v] = node[v] /\ node[v] \in Var
  <2>1. /\ \A n : n \in Live' <=> n \in Var /\ node'[n] = n
        /\ \A n \in Var : n \in Live' /\ n \notin Live => node[n] = None
    BY <1>1, GrownNodes
  <2> QED
    BY <1>1, <2>1, NodesInUse DEF Grown, Known
<1>3. /\ \A n, m : ~WillPush(n, m)
      /\ \A n, e : ~WillActivate(n, e)
      /\ \A v, w : ~WillLink(v, w)
  BY DEF WillPush, WillActivate, WillLink
<1>4. \/ bits'[a] = bits[a] /\ conds'[a] = conds[a] /\ sups'[a] = sups[a]
      \/ /\ \A m : WillPush(a, m)'
         /\ \A e \in Element : WillActivate(a, e)'
  <2> SUFFICES ASSUME NEW g \in FrameType, stack' = <<g>>, g.at = a,
                      g.op = "kill" \/ (g.op = "activate" /\ g.elem = 1)
               PROVE  /\ \A m : WillPush(a, m)'
                      /\ \A e \in Element : WillActivate(a, e)'
    BY DEF AddsAt
  <2>1. 1 \in DOMAIN stack' /\ stack'[1] = g
    BY OneCall
  <2>2. /\ \A m : Pushes(g, a, m)
        /\ \A e \in Element : Activates(g, a, e)
    BY DEF Pushes, Activates, Element
  <2> QED
    BY <2>1, <2>2 DEF WillPush, WillActivate
<1>5. \A n \in Var : bits[n] \subseteq bits'[n] /\ sups[n] \subseteq sups'[n]
  BY DEF AddsAt
<1>6. EdgesServed'
  <2> SUFFICES ASSUME NEW n \in Live', NEW m \in sups'[n]
               PROVE  missed' \/ bits'[n] \subseteq bits'[m] \/ WillPush(n, m)'
    BY DEF EdgesServed
  <2>1. CASE n = a /\ WillPush(a, m)'
    BY <2>1
  <2>2. CASE bits'[n] = bits[n] /\ sups'[n] = sups[n]
    <3>1. n \in Live
      BY <1>1, <1>2, <2>2 DEF FreshIsBare
    <3>2. missed \/ bits[n] \subseteq bits[m]
      BY <1>1, <1>3, <2>2, <3>1 DEF Owed, EdgesServed
    <3>3. m \in Var
      BY <1>1, <1>2 DEF TypeOK
    <3> QED
      BY <1>5, <2>2, <3>2, <3>3 DEF AddsAt
  <2> QED
    BY <1>2, <1>4, <2>1, <2>2 DEF AddsAt
<1>7. WaitingServed'
  <2> SUFFICES ASSUME NEW n \in Live', NEW e \in bits'[n], conds'[n][e] # <<>>
               PROVE  WillActivate(n, e)'
    BY DEF WaitingServed
  <2>1. CASE bits'[n] = bits[n] /\ conds'[n] = conds[n]
    <3>1. n \in Live
      BY <1>1, <1>2, <2>1 DEF Placed, FreshIsEmpty
    <3> QED
      BY <1>1, <1>3, <2>1, <3>1 DEF Owed, WaitingServed
  <2>2. n \in Var /\ e \in Element
    BY <1>1, <1>2 DEF TypeOK
  <2> QED
    BY <1>4, <2>1, <2>2 DEF AddsAt
<1>8. \A v, w \in Var : Known(v) /\ Known(w) /\ Included(v, w) => Included(v, w)'
  BY <1>2, <1>5 DEF Included
<1>9. ElementsHeld'
  <2> SUFFICES ASSUME NEW d \in asked, d.type = "element"
               PROVE  Known(d.var)' /\ d.elem \in bits'[node'[d.var]]
    BY DEF ElementsHeld, Keeps
  <2>1. Known(d.var) /\ d.elem \in bits[node[d.var]] /\ d.var \in Var
    BY <1>1 DEF Linked, ElementsHeld, Known
  <2> QED
    BY <1>2, <1>5, <2>1
<1>10. SubsetsLinked'
  <2>1. ASSUME NEW d \in asked, d.type = "subset"
        PROVE  Known(d.from)' /\ Known(d.to)' /\ Included(d.from, d.to)'
    <3>1. /\ Known(d.from) /\ Known(d.to) /\ Included(d.from, d.to)
          /\ d.from \in Var /\ d.to \in Var
      BY <1>1, <2>1 DEF Linked, SubsetsLinked, Known
    <3> QED
      BY <1>2, <1>8, <3>1
  <2>2. c.type = "subset" => Known(c.from)' /\ Known(c.to)' /\ Included(c.from, c.to)'
    BY DEF Keeps, Included
  <2> QED
    BY <2>1, <2>2 DEF SubsetsLinked, Keeps
<1>11. ConditionalsKept'
  <2>1. ASSUME NEW d \in asked, d.type = "conditional"
        PROVE  /\ Known(d.in)' /\ Known(d.from)' /\ Known(d.to)'
               /\ Included(d.from, d.to)' \/ Listed(conds'[node'[d.in]][d.elem], d.from, d.to)
    <3>1. /\ Known(d.in) /\ Known(d.from) /\ Known(d.to)
          /\ d.in \in Var /\ d.from \in Var /\ d.to \in Var /\ d.elem \in Element
          /\ \/ Included(d.from, d.to)
             \/ Listed(conds[node[d.in]][d.elem], d.from, d.to)
      BY <1>1, <1>3, <2>1, AskedParts DEF Linked, ConditionalsKept
    <3>2. /\ Known(d.in)' /\ Known(d.from)' /\ Known(d.to)'
          /\ node'[d.in] = node[d.in] /\ node[d.in] \in Var
      BY <1>2, <3>1
    <3>3. Listed(conds[node[d.in]][d.elem], d.from, d.to) =>
            Listed(conds'[node[d.in]][d.elem], d.from, d.to)
      BY <3>1, <3>2 DEF AddsAt
    <3> QED
      BY <1>8, <3>1, <3>2, <3>3
  <2> QED
    BY <2>1 DEF ConditionalsKept, Keeps
<1>12. FreshIsEmpty' /\ SupersKnown'
  <2>1. FreshIsEmpty'
    BY <1>1 DEF Placed, FreshIsEmpty, AddsAt, Grown
  <2>2. SupersKnown'
    BY <1>1, <1>2 DEF Placed, SupersKnown, AddsAt, Known, TypeOK
  <2> QED
    BY <2>1, <2>2
<1>13. AtIsNode' /\ PushInPlace' /\ CallsInOrder'
  <2>1. CASE stack' = <<>>
    BY <2>1 DEF AtIsNode, In, PushInPlace, CallsInOrder
  <2>2. ASSUME NEW g \in FrameType, stack' = <<g>>, g.at = a, InOrder(g),
               \/ g.op = "kill" /\ node'[g.from] = a
               \/ g.op = "activate" /\ g.elem = 1
        PROVE  AtIsNode' /\ PushInPlace' /\ CallsInOrder'
    <3>1. Top' = g /\ DOMAIN stack' = {1} /\ stack'[1] = g
      BY <2>2, OneCall DEF Top
    <3> QED
      BY <2>2, <3>1 DEF AtIsNode, In, PushInPlace, InPlace, CallsInOrder, InOrder
  <2> QED
    BY <2>1, <2>2 DEF AddsAt
<1> QED
  BY <1>6, <1>7, <1>9, <1>10, <1>11, <1>12, <1>13 DEF Complete, Linked, Owed, Placed

LEMMA AddParts ==
  ASSUME ShapeInv, NEW c \in Input, Add(c)
  PROVE  stack = <<>> /\ Grown /\ Keeps(c) /\ \E a : AddsAt(a)
<1>1. /\ c.type = "element" => c.elem \in Element /\ c.var \in Var
      /\ c.type = "subset" => c.from \in Var /\ c.to \in Var
      /\ c.type = "conditional" =>
           c.elem \in Element /\ c.in \in Var /\ c.from \in Var /\ c.to \in Var
  BY ConstraintParts
<1>2. TypeOK /\ None \notin Var
  BY NodesInUse DEF ShapeInv
<1>3. stack = <<>> /\ asked' = asked \cup {c} /\ UNCHANGED missed
  BY DEF Add, AddElement, AddConditional, AddSubset, Accept
<1>4. ASSUME NEW V \in SUBSET Var, node' = WithNodes(V)
      PROVE  Grown /\ (\A v \in V : node'[v] \in Var /\ Known(v)')
  BY <1>2, <1>4, NodesAdded DEF Grown
<1>5. \A v \in Var : node'[v] # None => node'[node'[v]] # None
  BY AddShape DEF ShapeInv, GraphInv, Representative
<1>6. CASE AddElement(c)
  <2>1. PICK a : a = node'[c.var]
    OBVIOUS
  <2>2. {c.var} \in SUBSET Var /\ node' = WithNodes({c.var}) /\ c.type = "element"
    BY <1>1, <1>6 DEF AddElement
  <2>3. Grown /\ a \in Var /\ Known(c.var)' /\ node'[a] # None
    BY <1>1, <1>4, <1>5, <2>1, <2>2 DEF Known
  <2>4. /\ bits'[a] = bits[a] \cup {c.elem}
        /\ \A n \in Var : n # a => bits'[n] = bits[n]
    BY <1>2, <1>6, <2>1, <2>3 DEF AddElement, TypeOK
  <2>5. /\ Propagate(a) \in FrameType /\ Propagate(a).at = a /\ InOrder(Propagate(a))
        /\ Propagate(a).op = "activate" /\ Propagate(a).elem = 1
    BY <2>3, NewFrames, NewCalls
  <2>6. stack' = <<Propagate(a)>> /\ UNCHANGED <<conds, sups>>
    BY <1>6, <2>1 DEF AddElement
  <2>7. AddsAt(a)
    BY <1>3, <2>3, <2>4, <2>5, <2>6 DEF AddsAt
  <2>8. Keeps(c)
    BY <1>3, <2>1, <2>2, <2>3, <2>4 DEF Keeps
  <2> QED
    BY <1>3, <2>3, <2>7, <2>8
<1>7. CASE AddConditional(c)
  <2>1. PICK a : a = node'[c.in]
    OBVIOUS
  <2>2. /\ {c.in, c.from, c.to} \in SUBSET Var /\ node' = WithNodes({c.in, c.from, c.to})
        /\ c.type = "conditional"
    BY <1>1, <1>7 DEF AddConditional
  <2>3. /\ Grown /\ a \in Var /\ Known(c.in)' /\ Known(c.from)' /\ Known(c.to)'
        /\ node'[a] # None
    BY <1>1, <1>4, <1>5, <2>1, <2>2 DEF Known
  <2>4. PICK l : l = Append(conds[a][c.elem], <<c.from, c.to>>)
    OBVIOUS
  <2>5. /\ conds'[a][c.elem] = l
        /\ \A e \in Element : e # c.elem => conds'[a][e] = conds[a][e]
        /\ \A n \in Var : n # a => conds'[n] = conds[n]
    <3>1. conds' = [conds EXCEPT ![a] = [conds[a] EXCEPT ![c.elem] = l]]
      BY <1>7, <2>1, <2>4 DEF AddConditional
    <3>2. conds \in [Var -> [Element -> Seq(Var \X Var)]]
      BY <1>2 DEF TypeOK
    <3>3. conds[a] \in [Element -> Seq(Var \X Var)]
      BY <2>3, <3>2
    <3>4. /\ conds'[a] = [conds[a] EXCEPT ![c.elem] = l]
          /\ \A n \in Var : n # a => conds'[n] = conds[n]
      BY <2>3, <3>1, <3>2
    <3> QED
      BY <1>1, <2>2, <3>3, <3>4
  <2>6. /\ Listed(l, c.from, c.to)
        /\ \A v, w : Listed(conds[a][c.elem], v, w) => Listed(l, v, w)
    <3> DEFINE s == conds[a][c.elem]
    <3>1. s \in Seq(Var \X Var) /\ <<c.from, c.to>> \in Var \X Var
      BY <1>1, <1>2, <2>2, <2>3 DEF TypeOK
    <3>2. l = Append(s, <<c.from, c.to>>)
      BY <2>4
    <3> HIDE DEF s
    <3>3. /\ Len(l) = Len(s) + 1 /\ l \in Seq(Var \X Var)
          /\ \A i \in 1..Len(s) : l[i] = s[i]
          /\ l[Len(s) + 1] = <<c.from, c.to>>
      BY <3>1, <3>2, AddLast
    <3>4. DOMAIN l = 1..(Len(s) + 1) /\ DOMAIN s = 1..Len(s) /\ Len(s) \in Nat
      BY <3>1, <3>3, LenProperties
    <3>5. Len(s) + 1 \in DOMAIN l /\ DOMAIN s \subseteq DOMAIN l
      BY <3>4
    <3> QED
      BY <3>3, <3>4, <3>5 DEF Listed, s
  <2>7. /\ Propagate(a) \in FrameType /\ Propagate(a).at = a /\ InOrder(Propagate(a))
        /\ Propagate(a).op = "activate" /\ Propagate(a).elem = 1
    BY <2>3, NewFrames, NewCalls
  <2>8. stack' = <<Propagate(a)>> /\ UNCHANGED <<bits, sups>>
    BY <1>7, <2>1 DEF AddConditional
  <2>9. \A e \in Element : \A v, w : Listed(conds[a][e], v, w) => Listed(conds'[a][e], v, w)
    BY <2>5, <2>6
  <2>10. AddsAt(a)
    BY <1>3, <2>3, <2>5, <2>7, <2>8, <2>9 DEF AddsAt
  <2>11. Keeps(c)
    BY <1>3, <2>1, <2>2, <2>3, <2>5, <2>6 DEF Keeps
  <2> QED
    BY <1>3, <2>3, <2>10, <2>11
<1>8. CASE AddSubset(c)
  <2>1. PICK a, b : a = node'[c.from] /\ b = node'[c.to]
    OBVIOUS
  <2>2. {c.from, c.to} \in SUBSET Var /\ node' = WithNodes({c.from, c.to}) /\ c.type = "subset"
    BY <1>1, <1>8 DEF AddSubset
  <2>3. /\ Grown /\ a \in Var /\ b \in Var /\ Known(c.from)' /\ Known(c.to)'
        /\ node'[a] # None /\ node'[b] # None
    BY <1>1, <1>4, <1>5, <2>1, <2>2 DEF Known
  <2>4. \/ a = b /\ UNCHANGED <<sups, stack>>
        \/ sups' = [sups EXCEPT ![a] = @ \cup {b}] /\ stack' = <<Kill(a, c.from)>>
    BY <1>8, <2>1 DEF AddSubset, Connect
  <2>5. UNCHANGED <<bits, conds>>
    BY <1>8 DEF AddSubset
  <2>6. /\ Kill(a, c.from) \in FrameType /\ Kill(a, c.from).at = a /\ InOrder(Kill(a, c.from))
        /\ Kill(a, c.from).op = "kill" /\ node'[Kill(a, c.from).from] = a
    BY <2>1, <2>3, NewFrames, NewCalls DEF Known
  <2>7. CASE a = b /\ UNCHANGED <<sups, stack>>
    <3>1. AddsAt(a)
      BY <1>3, <2>3, <2>5, <2>7 DEF AddsAt
    <3>2. Keeps(c)
      BY <1>3, <2>1, <2>2, <2>3, <2>7 DEF Keeps
    <3> QED
      BY <1>3, <2>3, <3>1, <3>2
  <2>8. CASE sups' = [sups EXCEPT ![a] = @ \cup {b}] /\ stack' = <<Kill(a, c.from)>>
    <3>1. /\ sups'[a] = sups[a] \cup {b}
          /\ \A n \in Var : n # a => sups'[n] = sups[n]
      BY <1>2, <2>3, <2>8 DEF TypeOK
    <3>2. AddsAt(a)
      BY <1>3, <2>3, <2>5, <2>6, <2>8, <3>1 DEF AddsAt
    <3>3. Keeps(c)
      BY <1>3, <2>1, <2>2, <2>3, <3>1 DEF Keeps
    <3> QED
      BY <1>3, <2>3, <3>2, <3>3
  <2> QED
    BY <2>4, <2>7, <2>8
<1> QED
  BY <1>6, <1>7, <1>8 DEF Add

LEMMA AddComplete ==
  ASSUME ShapeInv, Complete, NEW c \in Input, Add(c)
  PROVE  Complete'
<1>1. stack = <<>> /\ Grown /\ Keeps(c) /\ ShapeInv'
  BY AddParts, AddShape
<1>2. PICK a : AddsAt(a)
  BY AddParts
<1> QED
  BY <1>1, <1>2, AddedComplete

-----------------------------------------------------------------------------
(* The invariant holds.                                                    *)

LEMMA CompleteInit == Init => Complete
<1> SUFFICES ASSUME Init PROVE Complete
  OBVIOUS
<1>1. stack = <<>> /\ asked = {} /\ Live = {}
  BY DEF Init, Live
<1>2. Linked /\ Owed
  BY <1>1 DEF Linked, ElementsHeld, SubsetsLinked, ConditionalsKept, Owed, EdgesServed, WaitingServed
<1>3. FreshIsEmpty /\ SupersKnown
  BY DEF Init, FreshIsEmpty, SupersKnown
<1>4. AtIsNode /\ PushInPlace /\ CallsInOrder
  BY <1>1 DEF AtIsNode, In, PushInPlace, CallsInOrder
<1> QED
  BY <1>2, <1>3, <1>4 DEF Complete, Placed

LEMMA CompleteStep == ShapeInv /\ Complete /\ [Next]_vars => Complete'
<1> SUFFICES ASSUME ShapeInv, Complete, [Next]_vars PROVE Complete'
  OBVIOUS
<1>1. CASE \E c \in Input : Add(c)
  BY <1>1, AddComplete
<1>2. CASE Step
  BY <1>2, StepComplete
<1>3. CASE UNCHANGED vars
  <2>1. UNCHANGED <<node, bits, conds, sups, subs, stack, missed, asked>>
    BY <1>3 DEF vars
  <2>2. Top' = Top /\ Live' = Live
    BY <2>1 DEF Top, Live
  <2>3. Linked'
    BY <2>1 DEF Complete, Linked, ElementsHeld, SubsetsLinked, ConditionalsKept, Known, Included,
                Listed, WillLink
  <2>4. Owed'
    BY <2>1, <2>2 DEF Complete, Owed, EdgesServed, WaitingServed, WillPush, WillActivate
  <2>5. Placed'
    BY <2>1, <2>2 DEF Complete, Placed, FreshIsEmpty, SupersKnown, AtIsNode, In, PushInPlace,
                      InPlace, CallsInOrder
  <2> QED
    BY <2>3, <2>4, <2>5 DEF Complete
<1> QED
  BY <1>1, <1>2, <1>3 DEF Next

LEMMA CompleteHolds == Spec => []Complete
  BY ShapeHolds, CompleteInit, CompleteStep, PTL DEF Spec

(* When no call is in progress, nothing is owed.                           *)
LEMMA NothingMissing ==
  ASSUME ShapeInv, Complete, stack = <<>>, ~missed
  PROVE  Solution!Solves([v \in Var |-> Elements(v)], asked)
<1>1. /\ TypeOK /\ Linked /\ Owed
      /\ \A v \in Var : Known(v) => node[v] \in Live /\ Elements(v) = bits[node[v]]
      /\ \A v \in Var : ~Known(v) => Elements(v) = {}
  BY NodesInUse DEF ShapeInv, Complete, Known, Elements
<1>2. /\ \A n, m : ~WillPush(n, m)
      /\ \A n, e : ~WillActivate(n, e)
      /\ \A v, w : ~WillLink(v, w)
  BY DEF WillPush, WillActivate, WillLink
<1>3. \A v, w \in Var : Known(v) /\ Known(w) /\ Included(v, w) => Elements(v) \subseteq Elements(w)
  BY <1>1, <1>2 DEF Included, Owed, EdgesServed
<1> SUFFICES ASSUME NEW c \in asked
             PROVE  Solution!Holds(c, [v \in Var |-> Elements(v)])
  BY DEF Solution!Solves
<1>4. /\ c.type = "element" => c.elem \in Element /\ c.var \in Var
      /\ c.type = "subset" => c.from \in Var /\ c.to \in Var
      /\ c.type = "conditional" =>
           c.elem \in Element /\ c.in \in Var /\ c.from \in Var /\ c.to \in Var
      /\ c.type \in {"element", "subset", "conditional"}
  BY <1>1, AskedParts DEF TypeOK, I!Constraint, I!ElementOf, I!Subset, I!Conditional
<1>5. CASE c.type = "element"
  BY <1>1, <1>4, <1>5 DEF Solution!Holds, Linked, ElementsHeld
<1>6. CASE c.type = "subset"
  BY <1>1, <1>3, <1>4, <1>6 DEF Solution!Holds, Linked, SubsetsLinked
<1>7. CASE c.type = "conditional"
  <2>1. /\ Known(c.in) /\ Known(c.from) /\ Known(c.to)
        /\ \/ Included(c.from, c.to)
           \/ Listed(conds[node[c.in]][c.elem], c.from, c.to)
    BY <1>1, <1>2, <1>7 DEF Linked, ConditionalsKept
  <2>2. Listed(conds[node[c.in]][c.elem], c.from, c.to) => c.elem \notin Elements(c.in)
    <3> SUFFICES ASSUME Listed(conds[node[c.in]][c.elem], c.from, c.to), c.elem \in Elements(c.in)
                 PROVE  FALSE
      OBVIOUS
    <3>1. conds[node[c.in]][c.elem] # <<>>
      BY DEF Listed
    <3>2. node[c.in] \in Live /\ c.elem \in bits[node[c.in]]
      BY <1>1, <1>4, <1>7, <2>1
    <3> QED
      BY <1>1, <1>2, <3>1, <3>2 DEF Owed, WaitingServed
  <2> QED
    BY <1>3, <1>4, <1>7, <2>1, <2>2 DEF Solution!Holds
<1> QED
  BY <1>4, <1>5, <1>6, <1>7

(* When an addition returns, the sets are the least solution of all that   *)
(* was added, in whatever order the constraints came and whatever nodes    *)
(* were merged while they were propagated: unless some push passed over a  *)
(* superset that was merged away (PassedOver), nothing is missing and      *)
(* nothing is too much.                                                    *)
THEOREM LeastWhenDone == Spec => []LeastUnlessMissed
<1>1. ShapeInv /\ Complete /\ NeverTooMuch => LeastUnlessMissed
  BY NothingMissing DEF LeastUnlessMissed, Solution!LeastWhenSettled, NeverTooMuch
<1> QED
  BY <1>1, ShapeHolds, CompleteHolds, NothingTooMuch, PTL

-----------------------------------------------------------------------------
(* The refinement.                                                         *)

(* No variable loses an element, not by being mapped to another node       *)
(* either.                                                                 *)
LEMMA NothingLost ==
  ASSUME ShapeInv, Complete, [Next]_vars, NEW v \in Var
  PROVE  Elements(v) \subseteq Elements(v)'
<1>1. TypeOK /\ None \notin Var
  BY NodesInUse DEF ShapeInv
<1>2. ASSUME UNCHANGED node, \A n \in Var : bits[n] \subseteq bits'[n]
      PROVE  Elements(v) \subseteq Elements(v)'
  BY <1>1, <1>2 DEF Elements, TypeOK
<1>3. CASE \E c \in Input : Add(c)
  <2>1. PICK c \in Input : Add(c)
    BY <1>3
  <2>2. Grown
    BY <2>1, AddParts
  <2>3. PICK a : AddsAt(a)
    BY <2>1, AddParts
  <2>4. \A n \in Var : bits[n] \subseteq bits'[n]
    BY <2>3 DEF AddsAt
  <2> QED
    BY <1>1, <2>2, <2>4 DEF Elements, Grown, TypeOK
<1>4. CASE MergeNodes
  <2>1. PICK n1, n2 : Merges(n1, n2)
    BY <1>4, MergeParts
  <2>2. /\ n1 \in Var /\ n2 \in Var
        /\ node'[v] = IF node[v] = n2 THEN n1 ELSE node[v]
        /\ bits'[n1] = bits[n1] \cup bits[n2]
        /\ \A n \in Var : n # n1 => bits'[n] = bits[n]
    BY <2>1 DEF Merges
  <2>3. node[v] \in Var \cup {None}
    BY <1>1 DEF TypeOK
  <2>4. Elements(v)' = IF node'[v] = None THEN {} ELSE bits'[node'[v]]
    BY DEF Elements
  <2>5. CASE node[v] = None
    BY <2>5 DEF Elements
  <2>6. CASE node[v] = n2
    <3>1. node'[v] = n1 /\ n1 # None /\ n2 # None
      BY <1>1, <2>2, <2>6
    <3>2. Elements(v)' = bits[n1] \cup bits[n2]
      BY <2>2, <2>4, <3>1
    <3>3. Elements(v) = bits[n2]
      BY <2>6, <3>1 DEF Elements
    <3> QED
      BY <3>2, <3>3
  <2>7. CASE node[v] # None /\ node[v] # n2
    <3>1. node'[v] = node[v]
      BY <2>2, <2>7
    <3>2. bits[node[v]] \subseteq bits'[node[v]]
      BY <2>2, <2>3, <2>7
    <3> QED
      BY <2>4, <2>7, <3>1, <3>2 DEF Elements
  <2> QED
    BY <2>5, <2>6, <2>7
<1>5. CASE PushNext
  <2>1. PICK s \in Ahead : bits' = [bits EXCEPT ![s] = @ \cup bits[Top.at]]
    BY <1>5 DEF PushNext
  <2>2. stack # <<>>
    BY <1>5 DEF PushNext, Running
  <2>3. s \in Var
    BY <2>2, TopInv DEF Ahead, TypeOK
  <2> QED
    BY <1>1, <1>2, <1>5, <2>1, <2>3 DEF TypeOK, PushNext
<1>6. CASE UNCHANGED <<node, bits>>
  BY <1>2, <1>6
<1>7. CASE \/ StartSearch \/ Search \/ NoPath \/ WalkBack \/ NoCycle \/ TakeConstraints
           \/ Activate \/ StartPush \/ Return \/ IteratorLost
  BY <1>6, <1>7 DEF StartSearch, Search, NoPath, WalkBack, NoCycle, TakeConstraints, Activate,
                    StartPush, Return, IteratorLost, graph
<1> QED
  BY <1>3, <1>4, <1>5, <1>6, <1>7 DEF Next, Step, vars

(* Each of its steps is one of Inclusions, or changes nothing of it: while *)
(* a call is in progress elements are added that no solution can do        *)
(* without, and the last call returns only when nothing is missing.        *)
THEOREM Refinement == Spec => InclusionsSpec
<1>1. Init => Solution!Init
  BY DEF Init, Solution!Init, Elements
<1>2. ShapeInv /\ Complete /\ stack = <<>> /\ ~missed =>
        Solution!Solves([v \in Var |-> Elements(v)], asked)
  BY NothingMissing
<1>3. (ShapeInv /\ Complete /\ stack = <<>> /\ ~missed =>
        Solution!Solves([v \in Var |-> Elements(v)], asked))'
  BY <1>2, PTL
<1>4. /\ ShapeInv /\ Complete /\ SoundInv /\ ShapeInv' /\ Complete' /\ SoundInv' /\ [Next]_vars
      => [Solution!Next \/ missed']_(Solution!ivars)
  <2> SUFFICES ASSUME ShapeInv, Complete, SoundInv, ShapeInv', Complete', SoundInv', [Next]_vars,
                      ~missed'
               PROVE  [Solution!Next]_(Solution!ivars)
    OBVIOUS
  <2> DEFINE Q == [v \in Var |-> Elements(v)]
  <2>1. \A v \in Var : Elements(v)' \subseteq Element
    BY NodesInUse DEF ShapeInv, TypeOK, Elements, Known
  <2>2. Q' = [v \in Var |-> Elements(v)']
    OBVIOUS
  <2>3. Q' \in Solution!Assignment
    BY <2>1, <2>2 DEF Solution!Assignment
  <2>4. Solution!Below(Q, Q')
    BY NothingLost, <2>2 DEF Solution!Below
  <2>5. \A S \in Solution!Assignment : Solution!Solves(S, asked') => Solution!Below(Q', S)
    <3> SUFFICES ASSUME NEW S \in Solution!Assignment, Solution!Solves(S, asked'),
                        NEW v \in Var
                 PROVE  Elements(v)' \subseteq S[v]
      BY <2>2 DEF Solution!Below
    <3>1. Sound(S)' /\ TypeOK'
      BY DEF SoundInv, ShapeInv
    <3>2. CASE node'[v] = None
      BY <3>2 DEF Elements
    <3>3. CASE node'[v] # None
      <4>1. node'[v] \in Var
        BY <3>1, <3>3 DEF TypeOK
      <4>2. S[node'[v]] = S[v] /\ bits'[node'[v]] \subseteq S[node'[v]]
        BY <3>1, <3>3, <4>1 DEF Sound, NodesFit, BitsFit
      <4> QED
        BY <3>3, <4>2 DEF Elements
    <3> QED
      BY <3>2, <3>3
  <2>6. stack' = <<>> => Solution!Solves(Q', asked')
    BY <1>3
  <2>7. Solution!Advance
    BY <2>3, <2>4, <2>5, <2>6 DEF Solution!Advance
  <2>8. CASE \E c \in Input : Add(c)
    <3>1. PICK c \in Input : Add(c)
      BY <2>8
    <3>2. c \in Solution!Constraint /\ stack = <<>> /\ asked' = asked \cup {c}
      BY <3>1, ConstraintParts, AddParts
         DEF Keeps, I!Constraint, I!ElementOf, I!Subset, I!Conditional,
             Solution!Constraint, Solution!ElementOf, Solution!Subset, Solution!Conditional
    <3> QED
      BY <2>7, <3>2 DEF Solution!Next, Solution!Ask
  <2>9. CASE Step
    <3>1. stack # <<>> /\ asked' = asked
      BY <2>9 DEF Step, StartSearch, Search, NoPath, WalkBack, MergeNodes, NoCycle,
                  TakeConstraints, Activate, StartPush, PushNext, Return, IteratorLost, Running
    <3> QED
      BY <2>7, <3>1 DEF Solution!Next, Solution!Deduce
  <2>10. CASE UNCHANGED vars
    BY <2>10 DEF Solution!ivars, vars, Elements
  <2> QED
    BY <2>8, <2>9, <2>10 DEF Next
<1>5. Spec => []SoundInv
  BY ShapeHolds, SoundInit, SoundStep, PTL DEF Spec
<1> QED
  BY <1>1, <1>4, <1>5, ShapeHolds, CompleteHolds, PTL DEF Spec, InclusionsSpec

-----------------------------------------------------------------------------
(* No cycle is left.                                                       *)
(*                                                                         *)
(* Every edge is added by a call that then looks for cycles at its source: *)
(* until that call is done, every cycle passes through its node, or, while *)
(* a path is being merged, through the node that is to be kept. A superset *)
(* that the call is past has no path back to the node; what findPath has   *)
(* reached, when its queue is empty, is closed under supersets.            *)

CyclesMeet(K) ==
  \A C \in SUBSET (Live \ K) : C # {} => \E n \in C : sups[n] \cap C = {}

(* The same after the step.                                                *)
CyclesMeetNext(K) ==
  \A C \in SUBSET (Live' \ K) : C # {} => \E n \in C : sups'[n] \cap C = {}

CyclesAtNode ==
  /\ In("kill") \/ In("search") => CyclesMeet({Top.at})
  /\ In("walk") => CyclesMeet({Top.at, Top.cur})
  /\ ~(In("kill") \/ In("search") \/ In("walk")) => CyclesMeet({})

NoWayBack(t, at) ==
  \E D \in SUBSET Live : t \in D /\ at \notin D /\ \A n \in D : sups[n] \subseteq D

Cleared ==
  In("kill") \/ In("search") =>
    \A t \in sups[Top.at] :
      t > Top.cur \/ (In("search") /\ t = Top.cur) \/ NoWayBack(t, Top.at)

Queued(n) == \E i \in DOMAIN queue : queue[i] = n

Explored ==
  In("search") =>
    /\ Top.cur \in DOMAIN dist
    /\ \A n \in DOMAIN dist : sups[n] \subseteq DOMAIN dist \/ Queued(n)
    /\ Top.at \in DOMAIN dist => queue # <<>>

CycleInv == CyclesAtNode /\ Cleared /\ Explored

(* populateDistances queues what it reaches for the first time, behind     *)
(* what was queued.                                                        *)
LEMMA VisitQueues ==
  ASSUME TypeOK, NEW n \in Var, NEW known, DOMAIN known \subseteq Var,
         NEW rest \in Seq(DOMAIN known), Visit(n, known, rest)
  PROVE  /\ \A m \in sups[n] : m \in DOMAIN known \/ Queued(m)'
         /\ \A i \in DOMAIN rest : Queued(rest[i])'
<1> DEFINE new == sups[n] \ DOMAIN known
<1>1. new \subseteq Var
  BY DEF TypeOK
<1>2. IsFiniteSet(new)
  BY <1>1, CubicAssumption, FS_Subset
<1>3. PICK order \in Ascending(new) : queue' = rest \o order
  BY Zenon DEF Visit
<1>4. new \subseteq Nat
  BY <1>1, CubicAssumption
<1> DEFINE K == Cardinality(new)
<1>5. order \in [1..K -> new] /\ \A i, j \in DOMAIN order : i < j => order[i] < order[j]
  BY <1>3 DEF Ascending
<1> HIDE DEF new
<1>6. K \in Nat
  BY <1>2, FS_CardinalityType
<1>7. IsFiniteSet(1..K) /\ Cardinality(1..K) = K
  <2> HIDE DEF K
  <2>1. /\ IsFiniteSet(1..K)
        /\ Cardinality(1..K) = IF 1 > K THEN 0 ELSE K - 1 + 1
    BY <1>6, FS_Interval
  <2> QED
    BY <1>6, <2>1
<1>8. \A i, j \in 1..K : order[i] = order[j] => i = j
  <2> HIDE DEF K
  <2> SUFFICES ASSUME NEW i \in 1..K, NEW j \in 1..K, order[i] = order[j], i # j
               PROVE  FALSE
    OBVIOUS
  <2>1. order[i] \in Nat /\ order[j] \in Nat /\ DOMAIN order = 1..K
    BY <1>4, <1>5
  <2>2. i < j \/ j < i
    BY <1>6
  <2> QED
    BY <1>5, <2>1, <2>2
<1>9. order \in Injection(1..K, new)
  BY <1>5, <1>8 DEF Injection, IsInjective
<1>10. order \in Surjection(1..K, new)
  BY <1>2, <1>7, <1>9, FS_Injection
<1>11. \A m \in new : \E i \in 1..K : order[i] = m
  BY <1>10 DEF Surjection
<1>12. order \in Seq(Var) /\ rest \in Seq(Var) /\ Len(order) = K
  <2>1. order \in Seq(new) /\ Len(order) = K
    BY <1>5, <1>6, SeqDef, LenProperties
  <2> QED
    BY <1>1, <2>1, WiderSeq
<1> DEFINE R == Len(rest)
<1>13. /\ DOMAIN queue' = 1..(R + K) /\ DOMAIN rest = 1..R /\ R \in Nat
       /\ \A i \in 1..(R + K) : queue'[i] = IF i <= R THEN rest[i] ELSE order[i - R]
  <2>1. /\ rest \o order \in Seq(Var) /\ Len(rest \o order) = Len(rest) + Len(order)
        /\ \A i \in 1..(Len(rest) + Len(order)) :
             (rest \o order)[i] = IF i <= Len(rest) THEN rest[i] ELSE order[i - Len(rest)]
    BY <1>12, ConcatProperties
  <2> QED
    BY <1>3, <1>12, <2>1, LenProperties
<1> HIDE DEF K, R
<1>14. \A i \in DOMAIN rest : i \in DOMAIN queue' /\ queue'[i] = rest[i]
  BY <1>6, <1>13
<1>15. \A i \in 1..K : R + i \in DOMAIN queue' /\ queue'[R + i] = order[i]
  BY <1>6, <1>13
<1> QED
  BY <1>11, <1>14, <1>15 DEF new, Queued

(* A cycle after the step is one before it.                                *)
LEMMA MeetAfter ==
  ASSUME NEW K, NEW J, CyclesMeet(K),
         \A n \in Live' \ J :
           \/ sups'[n] = {}
           \/ n \in Live \ K /\ sups'[n] \cap (Live' \ J) \subseteq sups[n]
  PROVE  CyclesMeetNext(J)
<1> SUFFICES ASSUME NEW C \in SUBSET (Live' \ J), C # {}, \A n \in C : sups'[n] # {}
             PROVE  \E n \in C : sups'[n] \cap C = {}
  BY DEF CyclesMeetNext
<1>1. C \in SUBSET (Live \ K)
  OBVIOUS
<1>2. PICK n \in C : sups[n] \cap C = {}
  BY <1>1 DEF CyclesMeet
<1> QED
  BY <1>2

(* Of the innermost call after the step.                                   *)
LEMMA AtNodeAfter ==
  /\ (In("kill") \/ In("search"))' /\ CyclesMeetNext({Top'.at}) => CyclesAtNode'
  /\ In("walk")' /\ CyclesMeetNext({Top'.at, Top'.cur}) => CyclesAtNode'
  /\ ~(In("kill") \/ In("search") \/ In("walk"))' /\ CyclesMeetNext({}) =>
       CyclesAtNode' /\ Cleared' /\ Explored'
  /\ In("walk")' => Cleared' /\ Explored'
  /\ In("kill")' => Explored'
  BY DEF CyclesAtNode, CyclesMeet, CyclesMeetNext, Cleared, Explored, In

(* The graph is left alone.                                                *)
LEMMA MeetKept ==
  ASSUME UNCHANGED <<node, sups>>, NEW K, NEW J, K \subseteq J, CyclesMeet(K)
  PROVE  CyclesMeetNext(J)
<1>1. Live' = Live
  BY DEF Live
<1> SUFFICES ASSUME NEW C \in SUBSET (Live' \ J), C # {}
             PROVE  \E n \in C : sups'[n] \cap C = {}
  BY DEF CyclesMeetNext
<1>2. C \in SUBSET (Live \ K)
  BY <1>1
<1> QED
  BY <1>2 DEF CyclesMeet

LEMMA StartSearchCycles ==
  ASSUME ShapeInv, CycleInv, StartSearch
  PROVE  CycleInv'
<1>1. stack # <<>> /\ Top.op = "kill" /\ UNCHANGED <<node, sups>>
  BY DEF StartSearch, Running, graph
<1>2. PICK t \in Ahead :
        /\ First(t, Ahead)
        /\ Visit(t, [n \in {t} |-> 0], <<>>)
        /\ Retop([Top EXCEPT !.op = "search", !.cur = t])
  BY Zenon DEF StartSearch
<1> DEFINE f == [Top EXCEPT !.op = "search", !.cur = t]
<1>3. /\ Top \in FrameType /\ Top.at \in Var /\ TypeOK
      /\ CyclesMeet({Top.at})
      /\ \A s \in sups[Top.at] : s > Top.cur \/ NoWayBack(s, Top.at)
  BY <1>1, TopInv DEF CycleInv, CyclesAtNode, Cleared, In
<1>4. t \in sups[Top.at] /\ t # Top.at /\ t \in Var
  BY <1>2, <1>3, NodesInUse DEF Ahead, ShapeInv, GraphInv, Irreflexive, TypeOK
<1>5. f \in FrameType
  BY <1>3, <1>4, FrameSteps
<1>6. f.op = "search" /\ f.cur = t /\ f.at = Top.at
  BY <1>3 DEF FrameType
<1>7. Retop(f)
  BY <1>2
<1> HIDE DEF f
<1>8. stack' # <<>> /\ Top' = f /\ Live' = Live
  BY <1>1, <1>3, <1>5, <1>7, Retopped DEF Live
<1>9. CyclesMeetNext({Top'.at})
  BY <1>1, <1>3, <1>6, <1>8, MeetKept
<1>10. Cleared'
  <2> SUFFICES ASSUME NEW s \in sups[Top.at], ~(s > t), s # t
               PROVE  NoWayBack(s, Top.at)'
    BY <1>1, <1>6, <1>8 DEF Cleared, In
  <2>1. s \in Nat /\ t \in Nat /\ Top.cur \in Nat
    BY <1>3, <1>4, CurIsNumber DEF TypeOK
  <2>2. s \notin Ahead
    BY <1>2, <2>1 DEF First
  <2>3. NoWayBack(s, Top.at)
    BY <1>3, <2>2 DEF Ahead
  <2> QED
    BY <1>1, <1>6, <1>8, <2>3 DEF NoWayBack
<1>11. Explored'
  <2> DEFINE known == [n \in {t} |-> 0]
  <2>1. DOMAIN known = {t} /\ known \in [DOMAIN known -> Nat] /\ <<>> \in Seq(DOMAIN known)
    BY EmptySeq
  <2>2. Visit(t, known, <<>>)
    BY <1>2
  <2> HIDE DEF known
  <2>3. DOMAIN dist' = {t} \cup sups[t]
    BY <1>3, <1>4, <2>1, <2>2, VisitType
  <2>4. \A m \in sups[t] : m = t \/ Queued(m)'
    BY <1>3, <1>4, <2>1, <2>2, VisitQueues
  <2>5. \A m \in DOMAIN dist' : sups'[m] \subseteq DOMAIN dist' \/ Queued(m)'
    BY <1>1, <2>3, <2>4
  <2>6. Top.at \in DOMAIN dist' => queue' # <<>>
    BY <1>4, <2>3, <2>4 DEF Queued
  <2> QED
    BY <1>6, <1>8, <2>3, <2>5, <2>6 DEF Explored
<1>12. In("search")'
  BY <1>6, <1>8 DEF In
<1> QED
  BY <1>9, <1>10, <1>11, <1>12, AtNodeAfter DEF CycleInv

LEMMA SearchCycles ==
  ASSUME ShapeInv, CycleInv, Search
  PROVE  CycleInv'
<1>1. stack # <<>> /\ Top.op = "search" /\ UNCHANGED <<node, sups>> /\ queue # <<>>
      /\ Visit(Head(queue), dist, Tail(queue))
  BY DEF Search, Running, graph
<1>2. /\ Top \in FrameType /\ TypeOK /\ CyclesMeet({Top.at}) /\ Cleared
      /\ Top.cur \in DOMAIN dist
      /\ \A n \in DOMAIN dist : sups[n] \subseteq DOMAIN dist \/ Queued(n)
  BY <1>1, TopInv DEF CycleInv, CyclesAtNode, Explored, In
<1>3. DOMAIN dist' = DOMAIN dist \cup sups[Head(queue)] /\ Head(queue) \in DOMAIN dist
  BY SearchType
<1>4. CASE Top.at \in DOMAIN dist'
  <2> DEFINE f == [Top EXCEPT !.op = "walk"]
  <2>1. Retop(f)
    BY <1>4 DEF Search
  <2>2. f \in FrameType
    BY <1>2, FrameSteps
  <2>3. f.op = "walk" /\ f.at = Top.at
    BY <1>2 DEF FrameType
  <2> HIDE DEF f
  <2>4. stack' # <<>> /\ Top' = f
    BY <1>1, <1>2, <2>1, <2>2, Retopped
  <2>5. In("walk")' /\ CyclesMeetNext({Top'.at, Top'.cur})
    BY <1>1, <1>2, <2>3, <2>4, MeetKept DEF In
  <2> QED
    BY <2>5, AtNodeAfter DEF CycleInv
<1>5. CASE Top.at \notin DOMAIN dist'
  <2>1. UNCHANGED stack
    BY <1>5 DEF Search
  <2>2. Top' = Top /\ In("search")' /\ Live' = Live
    BY <1>1, <2>1 DEF Top, In, Live
  <2>3. CyclesMeetNext({Top'.at})
    BY <1>1, <1>2, <2>2, MeetKept
  <2>4. Cleared'
    BY <1>1, <1>2, <2>2 DEF Cleared, NoWayBack, In
  <2>5. \A n \in DOMAIN dist' : sups'[n] \subseteq DOMAIN dist' \/ Queued(n)'
    <3>1. /\ queue \in Seq(DOMAIN dist) /\ dist \in [DOMAIN dist -> Nat] /\ DOMAIN dist \subseteq Var
      BY <1>2 DEF TypeOK
    <3>2. /\ Tail(queue) \in Seq(DOMAIN dist) /\ Head(queue) = queue[1]
          /\ Len(queue) \in Nat /\ DOMAIN queue = 1..Len(queue)
          /\ Len(Tail(queue)) = Len(queue) - 1
          /\ \A i \in 1..Len(Tail(queue)) : Tail(queue)[i] = queue[i + 1]
      BY <1>1, <3>1, HeadTailProperties, LenProperties
    <3>3. DOMAIN Tail(queue) = 1..(Len(queue) - 1)
      BY <3>2, LenProperties
    <3>4. PICK h, known, rest : h = Head(queue) /\ known = dist /\ rest = Tail(queue)
      OBVIOUS
    <3>5. /\ \A m \in sups[h] : m \in DOMAIN known \/ Queued(m)'
          /\ \A i \in DOMAIN rest : Queued(rest[i])'
      BY <1>1, <1>2, <1>3, <3>1, <3>2, <3>4, VisitQueues
    <3>6. ASSUME NEW n \in DOMAIN dist, Queued(n)
          PROVE  n = Head(queue) \/ Queued(n)'
      <4>1. PICK i \in DOMAIN queue : queue[i] = n
        BY <3>6 DEF Queued
      <4>2. i = 1 \/ (i - 1 \in DOMAIN Tail(queue) /\ Tail(queue)[i - 1] = n)
        <5> DEFINE L == Len(queue)
        <5>1. i \in 1..L /\ L \in Nat
          BY <3>2, <4>1
        <5>2. i = 1 \/ (i - 1 \in 1..(L - 1) /\ (i - 1) + 1 = i)
          <6> HIDE DEF L
          <6> QED
            BY <5>1
        <5> QED
          BY <3>2, <3>3, <4>1, <5>2
      <4> QED
        BY <3>2, <3>5, <3>4, <4>1, <4>2
    <3> QED
      BY <1>1, <1>2, <1>3, <3>5, <3>6, <3>4
  <2>6. Explored'
    BY <1>2, <1>3, <1>5, <2>2, <2>5 DEF Explored
  <2> QED
    BY <2>2, <2>3, <2>4, <2>6, AtNodeAfter DEF CycleInv
<1> QED
  BY <1>4, <1>5

LEMMA NoPathCycles ==
  ASSUME ShapeInv, CycleInv, NoPath
  PROVE  CycleInv'
<1>1. stack # <<>> /\ Top.op = "search" /\ UNCHANGED <<node, sups>> /\ queue = <<>>
      /\ Retop([Top EXCEPT !.op = "kill"])
  BY DEF NoPath, Running, graph
<1> DEFINE f == [Top EXCEPT !.op = "kill"]
<1>2. /\ Top \in FrameType /\ TypeOK /\ CyclesMeet({Top.at}) /\ Cleared
      /\ Top.cur \in DOMAIN dist /\ Top.at \notin DOMAIN dist
      /\ \A n \in DOMAIN dist : sups[n] \subseteq DOMAIN dist
      /\ DOMAIN dist \subseteq Live
  BY <1>1, TopInv
     DEF CycleInv, CyclesAtNode, Explored, In, Queued, ShapeInv, PathInv, ReachedLive
<1>3. NoWayBack(Top.cur, Top.at)
  BY <1>2 DEF NoWayBack
<1>4. f \in FrameType
  BY <1>2, FrameSteps
<1>5. f.op = "kill" /\ f.at = Top.at /\ f.cur = Top.cur
  BY <1>2 DEF FrameType
<1>6. Retop(f)
  BY <1>1
<1> HIDE DEF f
<1>7. stack' # <<>> /\ Top' = f /\ Live' = Live
  BY <1>1, <1>2, <1>4, <1>6, Retopped DEF Live
<1>8. In("kill")' /\ CyclesMeetNext({Top'.at})
  BY <1>1, <1>2, <1>5, <1>7, MeetKept DEF In
<1>9. Cleared'
  <2> SUFFICES ASSUME NEW t \in sups[Top.at], ~(t > Top.cur)
               PROVE  NoWayBack(t, Top.at)'
    BY <1>1, <1>5, <1>7 DEF Cleared
  <2>1. NoWayBack(t, Top.at)
    BY <1>1, <1>2, <1>3 DEF Cleared, In
  <2> QED
    BY <1>1, <1>5, <1>7, <2>1 DEF NoWayBack
<1> QED
  BY <1>8, <1>9, AtNodeAfter DEF CycleInv

(* killCyclesAt is past every superset: none has a path back.              *)
LEMMA NoCycleCycles ==
  ASSUME ShapeInv, CycleInv, NoCycle
  PROVE  CycleInv'
<1>1. stack # <<>> /\ Top.op = "kill" /\ UNCHANGED <<node, sups>> /\ Ahead = {}
      /\ Retop(Propagate(node[Top.from]))
  BY DEF NoCycle, Running, graph
<1>2. /\ TypeOK /\ Top \in FrameType /\ CyclesMeet({Top.at})
      /\ \A t \in sups[Top.at] : NoWayBack(t, Top.at)
      /\ Known(Top.from)
  BY <1>1, TopInv DEF CycleInv, CyclesAtNode, Cleared, In, Ahead
<1>3. CyclesMeet({})
  <2> SUFFICES ASSUME NEW C \in SUBSET Live, C # {}
               PROVE  \E n \in C : sups[n] \cap C = {}
    BY DEF CyclesMeet
  <2>1. CASE Top.at \notin C
    BY <1>2, <2>1 DEF CyclesMeet
  <2>2. CASE Top.at \in C /\ sups[Top.at] \cap C = {}
    BY <2>2
  <2>3. CASE sups[Top.at] \cap C # {}
    <3>1. PICK t \in C : t \in sups[Top.at]
      BY <2>3
    <3>2. PICK D \in SUBSET Live : t \in D /\ Top.at \notin D /\ \A n \in D : sups[n] \subseteq D
      BY <1>2, <3>1 DEF NoWayBack
    <3>3. C \cap D \in SUBSET (Live \ {Top.at}) /\ C \cap D # {}
      BY <3>1, <3>2
    <3>4. PICK n \in C \cap D : sups[n] \cap (C \cap D) = {}
      BY <1>2, <3>3 DEF CyclesMeet
    <3> QED
      BY <3>2, <3>4
  <2> QED
    BY <2>1, <2>2, <2>3
<1> DEFINE f == Propagate(node[Top.from])
<1>4. f \in FrameType /\ f.op = "activate"
  <2>1. node[Top.from] \in Var /\ Top.from \in Var
    BY <1>2, NodesInUse DEF Known
  <2> QED
    BY <2>1, NewFrames
<1>5. Retop(f)
  BY <1>1
<1> HIDE DEF f
<1>6. Top' = f
  BY <1>1, <1>2, <1>4, <1>5, Retopped
<1>7. CyclesMeetNext({})
  BY <1>1, <1>3, MeetKept
<1> QED
  BY <1>4, <1>6, <1>7, AtNodeAfter DEF CycleInv, In

(* A call to killCyclesAt starts over with the first superset.             *)
LEMMA NothingCleared ==
  ASSUME TypeOK', stack' # <<>>, Top'.op = "kill", Top'.cur = None
  PROVE  Cleared'
<1>1. Top'.at \in Var
  <2>1. Top' \in FrameType
    BY LastFront DEF TypeOK, Top
  <2> QED
    BY <2>1 DEF FrameType
<1>2. \A t \in sups'[Top'.at] : t > None
  BY <1>1, CubicAssumption DEF TypeOK, None
<1> QED
  BY <1>2 DEF Cleared

LEMMA MergeCycles ==
  ASSUME ShapeInv, Complete, CycleInv, MergeNodes
  PROVE  CycleInv'
<1>1. PICK n1, n2, f : Merges(n1, n2) /\ StackBecomes({f}) /\ Top' = f /\ MergeTop(n1, n2, f)
  BY MergeParts
<1>2. stack # <<>> /\ Top.op = "walk" /\ TypeOK' /\ Live \subseteq Var
  BY MergeShape, NodesInUse DEF MergeNodes, Running, ShapeInv
<1>3. stack' # <<>>
  BY <1>1 DEF StackBecomes
<1>4. CyclesMeet({Top.at, Top.cur})
  BY <1>2 DEF CycleInv, CyclesAtNode, In
<1>5. ASSUME NEW J, n1 \in J, Top.at = n2 \/ Top.at \in J
      PROVE  CyclesMeetNext(J)
  <2>1. ASSUME NEW n \in Live' \ J
        PROVE  /\ n \in Live \ {Top.at, Top.cur}
               /\ sups'[n] \cap (Live' \ J) \subseteq sups[n]
    <3>1. n \in Live /\ n \in Var /\ n # n1 /\ n # n2 /\ n # Top.at /\ n # Top.cur
      BY <1>1, <1>2, <1>5, <2>1 DEF Merges, MergeTop
    <3>2. sups'[n] \subseteq sups[n] \cup {n1}
      BY <1>1, <3>1 DEF Merges
    <3> QED
      BY <1>5, <3>1, <3>2
  <2> QED
    BY <1>4, <2>1, MeetAfter
<1>6. CASE f = Top
  <2>1. In("walk")' /\ CyclesMeetNext({Top'.at, Top'.cur})
    BY <1>1, <1>2, <1>3, <1>5, <1>6 DEF In, MergeTop
  <2> QED
    BY <2>1, AtNodeAfter DEF CycleInv
<1>7. CASE f.op = "kill" /\ f.at = n1 /\ f.cur = None /\ Top.at = n2
  <2>1. In("kill")' /\ CyclesMeetNext({Top'.at})
    BY <1>1, <1>3, <1>5, <1>7 DEF In
  <2>2. Cleared'
    BY <1>1, <1>2, <1>3, <1>7, NothingCleared
  <2> QED
    BY <2>1, <2>2, AtNodeAfter DEF CycleInv
<1> QED
  BY <1>1, <1>6, <1>7 DEF MergeTop

(* The two loops of propagateNodeChanges: no cycle is being looked for.    *)
LEMMA LoopCycles ==
  ASSUME ShapeInv, CycleInv, TakeConstraints \/ StartPush \/ PushNext \/ Return \/ IteratorLost
  PROVE  CycleInv'
<1>1. /\ stack # <<>> /\ Top.op \in {"activate", "push"} /\ UNCHANGED <<node, sups>>
      /\ TypeOK /\ Top \in FrameType
  BY TopInv DEF TakeConstraints, StartPush, PushNext, Return, IteratorLost, Running, graph
<1>2. CyclesMeet({})
  BY <1>1 DEF CycleInv, CyclesAtNode, In
<1>3. CyclesMeetNext({})
  BY <1>1, <1>2, MeetKept
<1>4. ASSUME NEW f \in FrameType, Retop(f), f.op \in {"activate", "push"}
      PROVE  ~(In("kill") \/ In("search") \/ In("walk"))'
  BY <1>1, <1>4, Retopped DEF In
<1>5. CASE TakeConstraints
  <2>1. PICK e \in Waiting : Retop([Top EXCEPT !.elem = e + 1, !.list = conds[Top.at][e]])
    BY <1>5 DEF TakeConstraints
  <2> DEFINE f == [Top EXCEPT !.elem = e + 1, !.list = conds[Top.at][e]]
  <2>2. e \in Element
    BY <1>1, TopInv, <2>1 DEF Waiting, TypeOK
  <2>3. conds[Top.at][e] \in Seq(Var \X Var)
    BY <1>1, <2>2, TopInv DEF TypeOK
  <2>4. f \in FrameType
    BY <1>1, <2>2, <2>3, FrameSteps
  <2>5. f.op = Top.op
    BY <1>1 DEF FrameType
  <2>6. Retop(f)
    BY <2>1
  <2> HIDE DEF f
  <2> QED
    BY <1>1, <1>3, <1>4, <2>4, <2>5, <2>6, AtNodeAfter DEF CycleInv
<1>6. CASE StartPush
  <2> DEFINE f == [Top EXCEPT !.op = "push"]
  <2>1. Retop(f) /\ f \in FrameType
    BY <1>1, <1>6, FrameSteps DEF StartPush
  <2>2. f.op = "push"
    BY <1>1 DEF FrameType
  <2> HIDE DEF f
  <2> QED
    BY <1>3, <1>4, <2>1, <2>2, AtNodeAfter DEF CycleInv
<1>7. CASE PushNext
  <2>1. PICK s \in Ahead :
          stack' = Append(Append(Front(stack), [Top EXCEPT !.cur = s]), Propagate(s))
    BY <1>7 DEF PushNext
  <2>2. s \in Var
    BY <1>1, <2>1, TopInv DEF Ahead, TypeOK
  <2>3. [Top EXCEPT !.cur = s] \in FrameType /\ Propagate(s) \in FrameType /\ Propagate(s).op = "activate"
    BY <1>1, <2>2, FrameSteps, NewFrames
  <2>4. Top' = Propagate(s)
    BY <1>1, <2>1, <2>3, Called
  <2>5. ~(In("kill") \/ In("search") \/ In("walk"))'
    BY <2>3, <2>4 DEF In
  <2> QED
    BY <1>3, <2>5, AtNodeAfter DEF CycleInv
<1>8. CASE Return
  <2>1. stack' = Front(stack)
    BY <1>8 DEF Return
  <2>2. /\ \A i \in 1..(Len(stack) - 1) : stack'[i] = stack[i]
        /\ stack' # <<>> => Top' = stack[Len(stack) - 1] /\ Len(stack) - 1 \in 1..(Len(stack) - 1)
    BY <1>1, <2>1, Returned
  <2>3. ~(In("kill") \/ In("search") \/ In("walk"))'
    BY <2>2 DEF ShapeInv, CallsInv, Buried, In
  <2> QED
    BY <1>3, <2>3, AtNodeAfter DEF CycleInv
<1>9. CASE IteratorLost
  <2>1. ~(In("kill") \/ In("search") \/ In("walk"))'
    BY <1>1, <1>9 DEF IteratorLost, In, Top
  <2> QED
    BY <1>3, <2>1, AtNodeAfter DEF CycleInv
<1> QED
  BY <1>5, <1>6, <1>7, <1>8, <1>9

(* The walk back is at the same node, of the same graph.                   *)
LEMMA WalkBackCycles ==
  ASSUME ShapeInv, CycleInv, WalkBack
  PROVE  CycleInv'
<1>1. stack # <<>> /\ Top.op = "walk" /\ UNCHANGED <<node, sups, stack>>
  BY DEF WalkBack, Running, graph
<1>2. Top' = Top /\ In("walk")'
  BY <1>1 DEF Top, In
<1>3. CyclesMeet({Top.at, Top.cur})
  BY <1>1 DEF CycleInv, CyclesAtNode, In
<1>4. CyclesMeetNext({Top'.at, Top'.cur})
  BY <1>1, <1>2, <1>3, MeetKept
<1> QED
  BY <1>2, <1>4, AtNodeAfter DEF CycleInv

(* A constraint that is activated adds one edge at most, and looks for     *)
(* cycles at its source.                                                   *)
LEMMA ActivateCycles ==
  ASSUME ShapeInv, CycleInv, Activate
  PROVE  CycleInv'
<1>0. PICK from, to : from = Head(Top.list)[1] /\ to = Head(Top.list)[2]
  OBVIOUS
<1> DEFINE f == [Top EXCEPT !.list = Tail(@)]
           k == Kill(node[from], from)
<1>1. /\ Running("activate") /\ Top.list # <<>> /\ stack # <<>> /\ Top.op = "activate"
      /\ UNCHANGED node /\ TypeOK /\ Top \in FrameType
  BY TopInv DEF Activate, Running
<1>2. /\ from \in Var /\ to \in Var /\ Known(from) /\ Known(to) /\ f \in FrameType
      /\ node[from] \in Var
  BY <1>0, <1>1, NextConstraint, NodesInUse
<1>3. f.op = "activate"
  BY <1>1 DEF FrameType
<1>4. k \in FrameType /\ k.op = "kill" /\ k.at = node[from] /\ k.cur = None
  BY <1>2, NewFrames, NewCalls
<1>5. \/ UNCHANGED sups /\ Retop(f)
      \/ Connect(node[from], node[to]) /\ stack' = Append(Append(Front(stack), f), k)
  BY <1>0 DEF Activate, Retop
<1> HIDE DEF f, k
<1>6. CyclesMeet({}) /\ Live' = Live
  BY <1>1 DEF CycleInv, CyclesAtNode, In, Live
<1>7. CASE UNCHANGED sups /\ Retop(f)
  <2>1. Top' = f
    BY <1>1, <1>2, <1>7, Retopped
  <2>2. CyclesMeetNext({})
    BY <1>1, <1>6, <1>7, MeetKept
  <2> QED
    BY <1>3, <2>1, <2>2, AtNodeAfter DEF CycleInv, In
<1>8. CASE Connect(node[from], node[to]) /\ stack' = Append(Append(Front(stack), f), k)
  <2>1. Top' = k /\ stack' # <<>>
    BY <1>1, <1>2, <1>4, <1>8, Called
  <2>2. PICK a, b : a = node[from] /\ b = node[to]
    OBVIOUS
  <2>3. \A n \in Var : n # a => sups'[n] = sups[n]
    BY <1>1, <1>2, <1>8, <2>2 DEF Connect, TypeOK
  <2>4. Live \subseteq Var
    BY <1>1, NodesInUse
  <2>5. \A n \in Live' \ {a} : n \in Live \ {} /\ sups'[n] \cap (Live' \ {a}) \subseteq sups[n]
    BY <1>6, <2>3, <2>4
  <2>6. CyclesMeetNext({a})
    BY <1>6, <2>5, MeetAfter
  <2>7. Cleared'
    BY <1>4, <2>1, ActivateType, NothingCleared
  <2> QED
    BY <1>4, <2>1, <2>2, <2>6, <2>7, AtNodeAfter DEF CycleInv, In
<1> QED
  BY <1>5, <1>7, <1>8

(* So does a constraint that is added: the nodes that are made for it have *)
(* no other edges.                                                         *)
LEMMA AddCycles ==
  ASSUME ShapeInv, CycleInv, NEW c \in Input, Add(c)
  PROVE  CycleInv'
<1>1. stack = <<>> /\ Grown
  BY AddParts
<1>2. TypeOK /\ Representative /\ FreshIsBare /\ TypeOK' /\ CyclesMeet({})
  BY <1>1, AddShape DEF ShapeInv, GraphInv, CycleInv, CyclesAtNode, In
<1>3. /\ \A n \in Live' : n \in Var
      /\ \A n \in Var : n \in Live' /\ n \notin Live => sups[n] = {}
  BY <1>1, <1>2, GrownNodes DEF FreshIsBare
<1>4. ASSUME NEW J, \A n \in Var \ J : sups'[n] = sups[n]
      PROVE  CyclesMeetNext(J)
  <2>1. \A n \in Live' \ J :
          \/ sups'[n] = {}
          \/ n \in Live \ {} /\ sups'[n] \cap (Live' \ J) \subseteq sups[n]
    BY <1>3, <1>4
  <2> QED
    BY <1>2, <2>1, MeetAfter
<1>5. ASSUME UNCHANGED sups, ~In("kill")', ~In("search")', ~In("walk")'
      PROVE  CycleInv'
  <2>1. CyclesMeetNext({})
    BY <1>4, <1>5
  <2> QED
    BY <1>5, <2>1, AtNodeAfter DEF CycleInv
<1>6. ASSUME NEW g \in FrameType, stack' = <<g>>
      PROVE  Top' = g /\ stack' # <<>>
  BY <1>6, OneCall DEF Top
<1>7. CASE AddElement(c) \/ AddConditional(c)
  <2>1. PICK a : a \in Var /\ stack' = <<Propagate(a)>> /\ UNCHANGED sups
    <3>1. CASE AddElement(c)
      <4>1. {c.var} \in SUBSET Var /\ node' = WithNodes({c.var})
        BY <3>1, ConstraintParts DEF AddElement
      <4> QED
        BY <1>2, <3>1, <4>1, NodesAdded DEF AddElement
    <3>2. CASE AddConditional(c)
      <4>1. {c.in, c.from, c.to} \in SUBSET Var /\ node' = WithNodes({c.in, c.from, c.to})
        BY <3>2, ConstraintParts DEF AddConditional
      <4> QED
        BY <1>2, <3>2, <4>1, NodesAdded DEF AddConditional
    <3> QED
      BY <1>7, <3>1, <3>2
  <2>2. Propagate(a) \in FrameType /\ Propagate(a).op = "activate"
    BY <2>1, NewFrames, NewCalls
  <2>3. Top' = Propagate(a)
    BY <1>6, <2>1, <2>2
  <2> QED
    BY <1>5, <2>1, <2>2, <2>3 DEF In
<1>8. CASE AddSubset(c)
  <2>1. PICK a, b : a = node'[c.from] /\ b = node'[c.to]
    OBVIOUS
  <2>2. c.from \in Var /\ c.to \in Var /\ a \in Var
    <3>1. c.from \in Var /\ c.to \in Var
      BY <1>8, ConstraintParts DEF AddSubset
    <3> QED
      BY <1>2, <1>8, <2>1, <3>1, NodesAdded DEF AddSubset
  <2>3. CASE UNCHANGED <<sups, stack>>
    <3>1. ~In("kill")' /\ ~In("search")' /\ ~In("walk")'
      BY <1>1, <2>3 DEF In
    <3> QED
      BY <1>5, <2>3, <3>1
  <2>4. CASE sups' = [sups EXCEPT ![a] = @ \cup {b}] /\ stack' = <<Kill(a, c.from)>>
    <3>1. /\ Kill(a, c.from) \in FrameType /\ Kill(a, c.from).op = "kill"
          /\ Kill(a, c.from).at = a /\ Kill(a, c.from).cur = None
      BY <2>2, NewFrames, NewCalls
    <3>2. Top' = Kill(a, c.from) /\ stack' # <<>>
      BY <1>6, <2>4, <3>1
    <3>3. \A n \in Var \ {a} : sups'[n] = sups[n]
      BY <1>2, <2>2, <2>4 DEF TypeOK
    <3>4. CyclesMeetNext({a})
      BY <1>4, <3>3
    <3>5. Cleared'
      BY <1>2, <3>1, <3>2, NothingCleared
    <3> QED
      BY <3>1, <3>2, <3>4, <3>5, AtNodeAfter DEF CycleInv, In
  <2> QED
    BY <1>8, <2>1, <2>3, <2>4 DEF AddSubset, Connect
<1> QED
  BY <1>7, <1>8 DEF Add

LEMMA CycleInit == Init => CycleInv
  BY DEF Init, CycleInv, CyclesAtNode, CyclesMeet, Cleared, Explored, In, Live

LEMMA CycleStep == ShapeInv /\ Complete /\ CycleInv /\ [Next]_vars => CycleInv'
<1> SUFFICES ASSUME ShapeInv, Complete, CycleInv, [Next]_vars PROVE CycleInv'
  OBVIOUS
<1>1. CASE \E c \in Input : Add(c)
  BY <1>1, AddCycles
<1>2. CASE Step
  BY <1>2, StartSearchCycles, SearchCycles, NoPathCycles, WalkBackCycles, MergeCycles,
     NoCycleCycles, LoopCycles, ActivateCycles DEF Step
<1>3. CASE UNCHANGED vars
  <2>1. UNCHANGED <<node, sups, stack, dist, queue>>
    BY <1>3 DEF vars
  <2>2. Top' = Top /\ Live' = Live
    BY <2>1 DEF Top, Live
  <2>3. CyclesAtNode'
    BY <2>1, <2>2 DEF CycleInv, CyclesAtNode, CyclesMeet, In
  <2>4. Cleared' /\ Explored'
    BY <2>1, <2>2 DEF CycleInv, Cleared, NoWayBack, Explored, Queued, In
  <2> QED
    BY <2>3, <2>4 DEF CycleInv
<1> QED
  BY <1>1, <1>2, <1>3 DEF Next

(* Whenever killCyclesAt is not looking for a cycle, none is left among    *)
(* the nodes that variables are mapped to: the recursion of                *)
(* propagateNodeChanges, which has no other bound, cannot come round.      *)
THEOREM NoCycleLeft == Spec => []Acyclic
<1>1. CycleInv => Acyclic
  <2> SUFFICES ASSUME CyclesMeet({})
               PROVE  \A C \in (SUBSET Live) \ {{}} : \E n \in C : sups[n] \cap C = {}
    BY DEF CycleInv, CyclesAtNode, Acyclic, In
  <2> SUFFICES ASSUME NEW C \in (SUBSET Live) \ {{}}
               PROVE  \E n \in C : sups[n] \cap C = {}
    OBVIOUS
  <2>1. C \in SUBSET (Live \ {}) /\ C # {}
    OBVIOUS
  <2> QED
    BY <2>1 DEF CyclesMeet
<1> QED
  BY <1>1, ShapeHolds, CompleteHolds, CycleInit, CycleStep, PTL DEF Spec
=============================================================================
