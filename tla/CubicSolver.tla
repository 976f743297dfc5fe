---------------------------- MODULE CubicSolver ----------------------------
(***************************************************************************)
(* topc's solver for inclusion constraints (CubicSolverT), used by the     *)
(* control flow analysis. Variables are mapped to nodes of a graph whose   *)
(* edges are inclusions. Nodes on a cycle are merged; what a node gains is *)
(* pushed to its supersets; an element that arrives activates the          *)
(* conditional constraints that wait for it, and these add edges, and may  *)
(* merge nodes, while the push is under way. The calls in progress are     *)
(* kept on an explicit stack.                                              *)
(***************************************************************************)
EXTENDS Naturals, FiniteSets, Sequences, SequencesExt

CONSTANTS
  Var,        \* the variables; the address of the node made for one is itself
  NumElements,
  Input,      \* the constraints a program may give rise to
  MaxAsked,   \* bound: constraints added in all
  MaxConditionals   \* bound: conditional ones among them

Element == 1..NumElements

I == INSTANCE Inclusions WITH asked <- {}, sol <- <<>>, busy <- FALSE

ASSUME CubicAssumption ==
  /\ Var \subseteq Nat \ {0}
  /\ IsFiniteSet(Var)
  /\ NumElements \in Nat
  /\ Input \subseteq I!Constraint
  /\ MaxAsked \in Nat
  /\ MaxConditionals \in Nat

None == 0

VARIABLES
  node,    \* dagmapping: the node of a variable
  bits,    \* the elements of a node
  conds,   \* its conditional constraints, a list per element
  sups,    \* its supersets
  subs,    \* its subsets
  stack,   \* the calls in progress, the innermost last
  dist,    \* in findPath: the distances found so far
  queue,   \* in findPath: the nodes to visit
  path,    \* in findPath and mergePath: the path, from its end
  lost,    \* an iterator was advanced after its element was erased
  missed,  \* history: elements were left behind (see PassedOver)
  asked    \* history: the constraints added

vars == <<node, bits, conds, sups, subs, stack, dist, queue, path, lost, missed, asked>>

-----------------------------------------------------------------------------
(* A call in progress. killCyclesAt the node "at": "kill" is the loop over *)
(* its supersets, at "cur"; "search" and "walk" are the two halves of      *)
(* findPath from cur to at; then the changes of from's node are            *)
(* propagated. "activate" and "push": the two loops of                     *)
(* propagateNodeChanges, with the list of constraints left to activate and *)
(* the superset the second loop is at.                                     *)
Frame(op, at, from) ==
  [op |-> op, at |-> at, from |-> from, elem |-> 1, list |-> <<>>, cur |-> None]

Kill(at, from) == Frame("kill", at, from)
Propagate(at) == Frame("activate", at, None)

Top == Last(stack)
Running(op) == stack # <<>> /\ ~lost /\ Top.op = op
Retop(frame) == stack' = Append(Front(stack), frame)

First(x, S) == x \in S /\ \A y \in S : x <= y

searching == <<dist, queue, path>>

Init ==
  /\ node = [v \in Var |-> None]
  /\ bits = [v \in Var |-> {}]
  /\ conds = [v \in Var |-> [e \in Element |-> <<>>]]
  /\ sups = [v \in Var |-> {}]
  /\ subs = [v \in Var |-> {}]
  /\ stack = <<>>
  /\ dist = <<>>
  /\ queue = <<>>
  /\ path = <<>>
  /\ lost = FALSE
  /\ missed = FALSE
  /\ asked = {}

(* addEmptyVariableIfNecessary, for each of the variables.                 *)
WithNodes(V) == [v \in Var |-> IF v \in V /\ node[v] = None THEN v ELSE node[v]]

Accept(c) ==
  /\ stack = <<>>
  /\ Cardinality(asked) < MaxAsked
  /\ asked' = asked \cup {c}
  /\ UNCHANGED <<searching, lost, missed>>

AddElement(c) ==
  /\ c.type = "element"
  /\ Accept(c)
  /\ node' = WithNodes({c.var})
  /\ bits' = [bits EXCEPT ![node'[c.var]] = @ \cup {c.elem}]
  /\ stack' = <<Propagate(node'[c.var])>>
  /\ UNCHANGED <<conds, sups, subs>>

AddConditional(c) ==
  /\ c.type = "conditional"
  /\ Cardinality({d \in asked : d.type = "conditional"}) < MaxConditionals
  /\ Accept(c)
  /\ node' = WithNodes({c.in, c.from, c.to})
  /\ conds' = [conds EXCEPT ![node'[c.in]][c.elem] = Append(@, <<c.from, c.to>>)]
  /\ stack' = <<Propagate(node'[c.in])>>
  /\ UNCHANGED <<bits, sups, subs>>

(* An edge, with both of its ends told.                                    *)
Connect(a, b) ==
  /\ sups' = [sups EXCEPT ![a] = @ \cup {b}]
  /\ subs' = [subs EXCEPT ![b] = @ \cup {a}]

(* Mutants: the target gets no node; the cycles are left.                  *)
AddSubsetNoTarget(c) ==
  /\ c.type = "subset"
  /\ Accept(c)
  /\ node' = WithNodes({c.from})
  /\ Connect(node'[c.from], node'[c.to])
  /\ stack' = <<Kill(node'[c.from], c.from)>>
  /\ UNCHANGED <<bits, conds>>

AddSubsetUncollapsed(c) ==
  /\ c.type = "subset"
  /\ Accept(c)
  /\ node' = WithNodes({c.from, c.to})
  /\ Connect(node'[c.from], node'[c.to])
  /\ stack' = <<Propagate(node'[c.from])>>
  /\ UNCHANGED <<bits, conds>>

AddSubset(c) ==
  /\ c.type = "subset"
  /\ Accept(c)
  /\ node' = WithNodes({c.from, c.to})
  /\ IF node'[c.from] = node'[c.to]
     THEN UNCHANGED <<sups, subs, stack>>
     ELSE /\ Connect(node'[c.from], node'[c.to])
          /\ stack' = <<Kill(node'[c.from], c.from)>>
  /\ UNCHANGED <<bits, conds>>

-----------------------------------------------------------------------------
graph == <<node, bits, conds, sups, subs>>

Ascending(S) ==
  {s \in [1..Cardinality(S) -> S] : \A i, j \in DOMAIN s : i < j => s[i] < s[j]}

(* populateDistances.                                                      *)
Visit(n, known, rest) ==
  LET new == sups[n] \ DOMAIN known
  IN  /\ dist' = [m \in DOMAIN known \cup new |->
                    IF m \in new THEN known[n] + 1 ELSE known[m]]
      /\ \E order \in Ascending(new) : queue' = rest \o order

(* What the loop of a set over the nodes has before it.                    *)
Ahead == {s \in sups[Top.at] : s > Top.cur}

(* killCyclesAt looks for a path from the next superset, in the order of   *)
(* the addresses, back to the node.                                        *)
StartSearch ==
  /\ Running("kill")
  /\ \E t \in Ahead :
       /\ First(t, Ahead)
       /\ Visit(t, [n \in {t} |-> 0], <<>>)
       /\ Retop([Top EXCEPT !.op = "search", !.cur = t])
  /\ UNCHANGED <<graph, path, lost, missed, asked>>

(* One node is taken off the queue. That the target has a distance is seen *)
(* only afterwards.                                                        *)
Search ==
  /\ Running("search")
  /\ queue # <<>>
  /\ Visit(Head(queue), dist, Tail(queue))
  /\ IF Top.at \in DOMAIN dist'
     THEN Retop([Top EXCEPT !.op = "walk"]) /\ path' = <<Top.at>>
     ELSE UNCHANGED <<stack, path>>
  /\ UNCHANGED <<graph, lost, missed, asked>>

NoPath ==
  /\ Running("search")
  /\ queue = <<>>
  /\ Retop([Top EXCEPT !.op = "kill"])
  /\ dist' = <<>>
  /\ UNCHANGED <<graph, queue, path, lost, missed, asked>>

(* One round of the walk back from the target: the first subset that has a *)
(* distance is looked at, and only that one. If it is not one nearer to    *)
(* the source, the walk is where it was (and the path grows by a copy of   *)
(* its last node, which is left out here).                                 *)
WalkBack ==
  /\ Running("walk")
  /\ Last(path) # Top.cur
  /\ \E n \in DOMAIN dist :
       /\ First(n, subs[Last(path)] \cap DOMAIN dist)
       /\ path' = IF dist[n] = dist[Last(path)] - 1 THEN Append(path, n) ELSE path
  /\ UNCHANGED <<graph, stack, dist, queue, lost, missed, asked>>

(* Mutant: the node merged away stays in the sets that list it.            *)
RenamedKept(f, back, n1, n2) ==
  [n \in Var |->
     IF n = n1 THEN (f[n1] \cup f[n2]) \ {n1, n2}
     ELSE IF n \in back[n2] THEN f[n] \cup {n1}
     ELSE f[n]]

(* n1 takes the place of n2 in the sets of the nodes that list it; f are   *)
(* the edges one way, back those the other way.                            *)
Renamed(f, back, n1, n2) ==
  [n \in Var |->
     IF n = n1 THEN (f[n1] \cup f[n2]) \ {n1, n2}
     ELSE IF n \in back[n2] THEN (f[n] \ {n2}) \cup {n1}
     ELSE f[n]]

(* A call that pushes to its supersets had n2 before it, is past n1, which *)
(* takes n2's place, and has elements that neither has.                    *)
PassedOver(n1, n2) ==
  \E i \in DOMAIN stack :
    /\ stack[i].op = "push"
    /\ stack[i].at \in subs[n2]
    /\ n1 < stack[i].cur /\ stack[i].cur < n2
    /\ ~(bits[stack[i].at] \subseteq bits[n1] \cup bits[n2])

(* mergeNodes of the last two nodes of the path. The node merged away      *)
(* keeps what it had: a call in progress may still be at it.               *)
MergeNodes ==
  LET n1 == Last(path)
      n2 == path[Len(path) - 1]
  IN  /\ Running("walk")
      /\ n1 = Top.cur
      /\ node' = [v \in Var |-> IF node[v] = n2 THEN n1 ELSE node[v]]
      /\ bits' = [bits EXCEPT ![n1] = @ \cup bits[n2]]
      /\ conds' = [conds EXCEPT ![n1] = [e \in Element |-> @[e] \o conds[n2][e]]]
      /\ sups' = Renamed(sups, subs, n1, n2)
      /\ subs' = Renamed(subs, sups, n1, n2)
      /\ IF Len(path) = 2
         THEN /\ Retop(Kill(n1, Top.from))
              /\ dist' = <<>> /\ queue' = <<>> /\ path' = <<>>
         ELSE /\ path' = Append(Front(Front(path)), n1)
              /\ UNCHANGED <<stack, dist, queue>>
      /\ missed' = (missed \/ PassedOver(n1, n2))
      /\ UNCHANGED <<lost, asked>>

NoCycle ==
  /\ Running("kill")
  /\ Ahead = {}
  /\ Retop(Propagate(node[Top.from]))
  /\ UNCHANGED <<graph, searching, lost, missed, asked>>

-----------------------------------------------------------------------------
(* Mutant: constraints are activated whether or not the element is there.  *)
WaitingForAny == {e \in Element : e >= Top.elem /\ conds[Top.at][e] # <<>>}

(* propagateNodeChanges, first loop: the constraints that wait for an      *)
(* element the node has are taken off it, and activated one by one.        *)
Waiting == {e \in bits[Top.at] : e >= Top.elem /\ conds[Top.at][e] # <<>>}

(* Mutant: they stay on the node, and the loop stays at the element.       *)
TakeConstraintsAgain ==
  /\ Running("activate")
  /\ Top.list = <<>>
  /\ \E e \in Waiting :
       /\ First(e, Waiting)
       /\ Retop([Top EXCEPT !.list = conds[Top.at][e]])
  /\ UNCHANGED <<graph, searching, lost, missed, asked>>

TakeConstraints ==
  /\ Running("activate")
  /\ Top.list = <<>>
  /\ \E e \in Waiting :
       /\ First(e, Waiting)
       /\ Retop([Top EXCEPT !.elem = e + 1, !.list = conds[Top.at][e]])
       /\ conds' = [conds EXCEPT ![Top.at][e] = <<>>]
  /\ UNCHANGED <<node, bits, sups, subs, searching, lost, missed, asked>>

(* activateConditionalConstraint.                                          *)
Activate ==
  LET from == Head(Top.list)[1]
      to   == Head(Top.list)[2]
      rest == Append(Front(stack), [Top EXCEPT !.list = Tail(@)])
  IN  /\ Running("activate")
      /\ Top.list # <<>>
      /\ IF node[from] = node[to]
         THEN stack' = rest /\ UNCHANGED <<sups, subs>>
         ELSE /\ Connect(node[from], node[to])
              /\ stack' = Append(rest, Kill(node[from], from))
      /\ UNCHANGED <<node, bits, conds, searching, lost, missed, asked>>

StartPush ==
  /\ Running("activate")
  /\ Top.list = <<>>
  /\ Waiting = {}
  /\ Retop([Top EXCEPT !.op = "push"])
  /\ UNCHANGED <<graph, searching, lost, missed, asked>>

(* Second loop. Its iterator can be advanced while its element is there.   *)
IteratorValid == Top.cur = None \/ Top.cur \in sups[Top.at]

(* Mutant: the superset does not pass on what it gained.                   *)
PushNextShallow ==
  /\ Running("push")
  /\ IteratorValid
  /\ \E s \in Ahead :
       /\ First(s, Ahead)
       /\ bits' = [bits EXCEPT ![s] = @ \cup bits[Top.at]]
       /\ Retop([Top EXCEPT !.cur = s])
  /\ UNCHANGED <<node, conds, sups, subs, searching, lost, missed, asked>>

PushNext ==
  /\ Running("push")
  /\ IteratorValid
  /\ \E s \in Ahead :
       /\ First(s, Ahead)
       /\ bits' = [bits EXCEPT ![s] = @ \cup bits[Top.at]]
       /\ stack' = Append(Append(Front(stack), [Top EXCEPT !.cur = s]), Propagate(s))
  /\ UNCHANGED <<node, conds, sups, subs, searching, lost, missed, asked>>

Return ==
  /\ Running("push")
  /\ IteratorValid
  /\ Ahead = {}
  /\ stack' = Front(stack)
  /\ UNCHANGED <<graph, searching, lost, missed, asked>>

(* The superset was merged away while the changes were pushed to it, and   *)
(* erased from the set the loop is over: from here on the program may do   *)
(* anything, and nothing more is said of it.                               *)
IteratorLost ==
  /\ Running("push")
  /\ ~IteratorValid
  /\ lost' = TRUE
  /\ UNCHANGED <<graph, stack, searching, missed, asked>>

-----------------------------------------------------------------------------
Add(c) == AddElement(c) \/ AddConditional(c) \/ AddSubset(c)

Step ==
  \/ StartSearch \/ Search \/ NoPath \/ WalkBack \/ MergeNodes \/ NoCycle
  \/ TakeConstraints \/ Activate \/ StartPush
  \/ PushNext \/ Return \/ IteratorLost

Next == (\E c \in Input : Add(c)) \/ Step

(* One thread: a call runs on once it is made.                             *)
Spec == Init /\ [][Next]_vars /\ WF_vars(Step)

-----------------------------------------------------------------------------
(* Properties.                                                             *)

Live == {node[v] : v \in Var} \ {None}

FrameType ==
  [op : {"kill", "search", "walk", "activate", "push"}, at : Var, from : Var \cup {None},
   elem : 1..(NumElements + 1), list : Seq(Var \X Var), cur : Var \cup {None}]

TypeOK ==
  /\ node \in [Var -> Var \cup {None}]
  /\ bits \in [Var -> SUBSET Element]
  /\ conds \in [Var -> [Element -> Seq(Var \X Var)]]
  /\ sups \in [Var -> SUBSET Var]
  /\ subs \in [Var -> SUBSET Var]
  /\ stack \in Seq(FrameType)
  /\ DOMAIN dist \subseteq Var
  /\ dist \in [DOMAIN dist -> Nat]
  /\ queue \in Seq(DOMAIN dist)
  /\ path \in Seq(DOMAIN dist)
  /\ lost \in BOOLEAN
  /\ missed \in BOOLEAN
  /\ asked \in SUBSET I!Constraint

(* getElements.                                                            *)
Elements(v) == IF node[v] = None THEN {} ELSE bits[node[v]]

Solution == INSTANCE Inclusions WITH
              sol  <- [v \in Var |-> Elements(v)],
              busy <- stack # <<>>

(* The graph's two directions agree on the nodes that are mapped to, and   *)
(* none is its own superset: mergeNodes erases find(n2) without looking    *)
(* whether it was found, and propagateNodeChanges asserts sups # node.     *)
EdgesMirrored ==
  \A n \in Live :
    /\ n \notin sups[n]
    /\ sups[n] \cup subs[n] \subseteq Live
    /\ \A m \in Live : m \in sups[n] <=> n \in subs[m]

(* Whenever no cycle is being looked for, no node can reach itself: the    *)
(* recursion of propagateNodeChanges has no other bound.                   *)
Acyclic ==
  \/ stack # <<>> /\ Top.op \in {"kill", "search", "walk"}
  \/ \A C \in (SUBSET Live) \ {{}} : \E n \in C : sups[n] \cap C = {}

(* The solver implements Inclusions, whatever order the constraints come   *)
(* in, whatever is merged, and whatever edges appear while a push is under *)
(* way, until a push passes over a superset.                               *)
InclusionsSpec ==
  Solution!Init /\ [][Solution!Next \/ missed']_(Solution!ivars)

NeverTooMuch == Solution!NeverTooMuch

(* Between additions the sets are the least solution; with and without the *)
(* exception.                                                              *)
LeastUnlessMissed == ~missed => Solution!LeastWhenSettled
LeastWhenSettled == Solution!LeastWhenSettled

(* The walk back is at a node whose first known subset is no nearer.       *)
Circling ==
  /\ Running("walk")
  /\ Last(path) # Top.cur
  /\ \E n \in DOMAIN dist :
       /\ First(n, subs[Last(path)] \cap DOMAIN dist)
       /\ dist[n] # dist[Last(path)] - 1

(* Every addition ends, unless findPath circles: merging and pushing, with *)
(* each starting the other, come to an end.                                *)
SettlesUnlessCircling == stack # <<>> ~> stack = <<>> \/ lost \/ Circling

(* Every addition ends.                                                    *)
Settles == stack # <<>> ~> stack = <<>> \/ lost
=============================================================================
