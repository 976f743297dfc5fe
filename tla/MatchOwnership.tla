--------------------------- MODULE MatchOwnership ---------------------------
(***************************************************************************)
(* Case statements on owned sum values: MoveAnalysis's rules for the arms, *)
(* the position rules of BorrowChecker for alias binders, the checks of    *)
(* CheckCaseCompleteness, and the code CodeGenVisitor emits, in lock step. *)
(*                                                                         *)
(* As in MoveAnalysis an action is a node of the walk and the program is   *)
(* whatever nodes it meets. The run follows the walk through the arm the   *)
(* scrutinee selects; an arm it does not take is walked in one step, which *)
(* leaves any state a body can leave. The values are binary trees, the sum *)
(* type Node(l, r) | Leaf: a value is a heap box whose payloads are boxes. *)
(*                                                                         *)
(* Uses resolve by name, and the symbol table holds one declaration per    *)
(* name of a function: that of the last case arm that binds the name, or   *)
(* else the formal or local.                                               *)
(***************************************************************************)
EXTENDS Naturals, Sequences, SequencesExt, FiniteSets, Functions

CONSTANTS
  Name,               \* the names of the function's variables and binders
  Cell,               \* heap boxes, numbered
  Null,               \* the zero a local is initialised with
  Wild,               \* the wildcard pattern
  Arm,                \* the patterns of case arms
  Bounds,             \* bounds of the programs explored, see BoundsAssumption
  DuplicateBinders,   \* do arms bind a name twice?
  RebindFormals       \* do arms bind the name of an owned formal?

Tag == {"Node", "Leaf"}

(* The head a pattern has at each position: a tag, a name to bind, or the  *)
(* wildcard. <<>> is the scrutinee, <<2, 1>> the first payload of its      *)
(* second payload.                                                         *)
PatternHead == Tag \cup Name \cup {Wild}
NoArm == <<>>

Tests(arm) == {p \in DOMAIN arm : arm[p] \in Tag}
Bound(arm) == {p \in DOMAIN arm : arm[p] \in Name}
Discarded(arm) == {p \in DOMAIN arm : arm[p] = Wild}
Binders(arm) == {arm[p] : p \in Bound(arm)}
BoundTwice(arm) == {n \in Binders(arm) : \E p, q \in Bound(arm) : p # q /\ arm[p] = n /\ arm[q] = n}

ASSUME NameAssumption ==
  IsFiniteSet(Name) /\ Name \cap (Tag \cup {Wild}) = {} /\ Wild \notin Tag
ASSUME CellAssumption == Cell \subseteq Nat
ASSUME NullAssumption == Null \notin Cell

(* A program with these bounds has at most boxes boxes at a time, borrows  *)
(* a tree of its caller or not, and nests cases Len(arms) deep, the i-th   *)
(* of at most arms[i] arms, of patterns.                                   *)
ASSUME BoundsAssumption ==
  \A b \in Bounds :
    /\ b.boxes \in Nat /\ b.borrows \in BOOLEAN
    /\ 1..b.boxes \subseteq Cell
    /\ b.arms \in Seq(Nat) /\ b.patterns \subseteq Arm

ASSUME FlagsAssumption == {DuplicateBinders, RebindFormals} \subseteq BOOLEAN

(* Arms have the payload patterns their tags demand, two levels deep.      *)
Position == {<<>>} \cup {<<i>> : i \in {1, 2}} \cup {<<i, j>> : i, j \in {1, 2}}
Nodes(arm) == {p \in DOMAIN arm : arm[p] = "Node"}

ASSUME ArmAssumption ==
  \A arm \in Arm :
    /\ arm \in [DOMAIN arm -> PatternHead]
    /\ DOMAIN arm = {p \in Position : p # <<>> => Front(p) \in Nodes(arm)}
    /\ <<>> \in Tests(arm)
    /\ \A p \in Tests(arm) : Len(p) < 2

-----------------------------------------------------------------------------
(* Declarations: <<n, "own">> is the formal or local n, <<n, "arm">> the   *)
(* last binder called n.                                                   *)
Decl == Name \X {"own", "arm"}

INSTANCE OwnershipState WITH Var <- Decl, DisabledRules <- {}

VARIABLES
  bounds,     \* the member of Bounds the program keeps to
  phase,      \* "walk", "exited" or "rejected"
  rebound,    \* the names some arm of the function binds
  owed,       \* prophecy: those of them that formals have and no arm has yet
  state,      \* the StateMap at the walk's program point
  aliases,    \* aliasNames: binders of borrowed matches in scope there
  frames,     \* the case statements around that point
  live,       \* allocated and not freed
  kids,       \* the payloads each box owns
  slot,       \* the pointer in the alloca each name stands for
  lent,       \* the tree the caller lends to the function
  fault,      \* what went wrong at run time
  returned,   \* the tree returned to the caller
  unmatched   \* history: the run has come through a default block

walkVars == <<bounds, phase, rebound, owed, state, aliases, frames>>
runVars  == <<live, kids, slot, lent, fault, returned, unmatched>>
vars     == <<walkVars, runVars>>

(* A frame is one case statement: entry is the state at its start, joined  *)
(* that of the arms seen. arm: the arm walked node by node; saved: what    *)
(* its binders' names stood for before it, aliases the alias names then.   *)
(* box: the scrutinee; taken: the run has been through an arm.             *)

-----------------------------------------------------------------------------
(* The heap.                                                               *)

(* The boxes that are destroyed with c: c and all it owns.                 *)
Tree(c) ==
  LET tree[d \in Cell] == {d} \cup UNION {tree[k] : k \in Range(kids[d])}
  IN  IF c \in Cell THEN tree[c] ELSE {}
Trees(C) == UNION {Tree(c) : c \in C}

(* Boxes given back to the heap own nothing.                               *)
Free(S) ==
  /\ live' = live \ S
  /\ kids' = [c \in Cell |-> IF c \in S THEN <<>> ELSE kids[c]]

(* Destroying the trees of several holders: roots maps holder to tree.     *)
DestroyFault(roots) ==
  IF \/ \E h \in DOMAIN roots : ~(Tree(roots[h]) \subseteq live)
     \/ \E h, g \in DOMAIN roots : h # g /\ Tree(roots[h]) \cap Tree(roots[g]) # {}
    THEN {"double-free"} ELSE {}

Touch(S) == IF S \subseteq live THEN {} ELSE {"use-after-free"}

(* Allocation takes the least boxes that no pointer leads to.              *)
Named == Range(slot) \cup {lent, returned} \cup UNION {Range(kids[d]) : d \in Cell}
           \cup UNION {{frames[i].box} \cup {frames[i].saved[n].ptr : n \in DOMAIN frames[i].saved}
                         : i \in DOMAIN frames}
Room == {c \in Cell : c <= bounds.boxes} \ (live \cup Named)
Fresh == Min(Room)

(* A new tree with root Fresh: a leaf, or a node with two leaves.          *)
Grow(tag) ==
  IF tag = "Leaf"
    THEN /\ Room # {}
         /\ live' = live \cup {Fresh}
         /\ UNCHANGED kids
    ELSE /\ Cardinality(Room) >= 3
         /\ LET left  == Min(Room \ {Fresh})
                right == Min(Room \ {Fresh, left})
            IN  /\ live' = live \cup {Fresh, left, right}
                /\ kids' = [kids EXCEPT ![Fresh] = <<left, right>>]

-----------------------------------------------------------------------------
(* Where the walk is.                                                      *)
depth == Len(frames)
inner == Last(frames)

AtStmt == phase = "walk" /\ (depth > 0 => inner.arm # NoArm)
BetweenArms == phase = "walk" /\ depth > 0 /\ inner.arm = NoArm

(* resolveVar: the declaration a use of n stands for.                      *)
Key(n) == <<n, IF n \in rebound THEN "arm" ELSE "own">>

(* Runs that read a variable no path assigned trap on a null pointer; they *)
(* are not followed.                                                       *)
Assigned(n) == slot[n] # Null

Usable(n) == state[Key(n)] # "Moved"

(* An alias binder may not be consumed, assigned or stored.                *)
Takeable(n) == Usable(n) /\ n \notin aliases

(* The function starts: its formals hold leaves the caller moved in, and p *)
(* borrows a node of the caller's, or there is no p. Which boxes these are *)
(* does not matter: the first ones. What the arms of the function bind was *)
(* collected before the walk: arms with the names in owed are to come.     *)
Init ==
  \E b \in Bounds, formals \in SUBSET Name :
    LET k == IF b.borrows THEN 3 ELSE 0
    IN  /\ bounds = b
        /\ k + Cardinality(formals) <= b.boxes
        /\ phase = "walk"
        /\ owed \in SUBSET formals /\ (RebindFormals \/ owed = {})
        /\ rebound = (Name \ formals) \cup owed
        /\ aliases = {} /\ frames = <<>>
        /\ lent = IF b.borrows THEN 1 ELSE Null
        /\ kids = [c \in Cell |-> IF c = lent THEN <<2, 3>> ELSE <<>>]
        /\ \E leaf \in Bijection(formals, k+1 .. k+Cardinality(formals)) :
             slot = [n \in Name |-> IF n \in formals THEN leaf[n] ELSE Null]
        /\ live = 1 .. k+Cardinality(formals)
        /\ state = [d \in Decl |-> IF d[1] \in formals /\ d[2] = "own" THEN "Owned" ELSE "absent"]
        /\ fault = {} /\ returned = Null /\ unmatched = FALSE

-----------------------------------------------------------------------------
(* Statements without matches.                                             *)

(* f(&x): the callee reads the tree. An alias binder may be lent on.       *)
Lend(x) ==
  /\ AtStmt /\ Usable(x) /\ Assigned(x)
  /\ fault' = fault \cup Touch(Tree(slot[x]))
  /\ UNCHANGED <<walkVars, live, kids, slot, lent, returned, unmatched>>

(* f(x): the callee destroys the tree.                                     *)
Consume(x) ==
  /\ AtStmt /\ Takeable(x) /\ Assigned(x)
  /\ state' = [state EXCEPT ![Key(x)] = "Moved"]
  /\ Free(Tree(slot[x]))
  /\ fault' = fault \cup DestroyFault([h \in {x} |-> slot[x]])
  /\ UNCHANGED <<bounds, phase, rebound, owed, aliases, frames, slot, lent, returned, unmatched>>

(* x receives a value: it may not be a live owner or an alias binder.      *)
Receives(s, x) == s[Key(x)] # "Owned" /\ x \notin aliases

(* x = f().                                                                *)
Bind(x, tag) ==
  /\ AtStmt /\ Receives(state, x)
  /\ state' = [state EXCEPT ![Key(x)] = "Owned"]
  /\ Grow(tag)
  /\ slot' = [slot EXCEPT ![x] = Fresh]
  /\ UNCHANGED <<bounds, phase, rebound, owed, aliases, frames, lent, fault, returned, unmatched>>

(* x = Node(y, z): the payloads are moved, left to right, before the box   *)
(* is allocated.                                                           *)
MovedOut(S) == [d \in Decl |-> IF d \in {Key(n) : n \in S} THEN "Moved" ELSE state[d]]

Construct(x, y, z) ==
  /\ AtStmt
  /\ y # z /\ Takeable(y) /\ Takeable(z) /\ Assigned(y) /\ Assigned(z)
  /\ Receives(MovedOut({y, z}), x)
  /\ state' = [MovedOut({y, z}) EXCEPT ![Key(x)] = "Owned"]
  /\ Room # {}
  /\ live' = live \cup {Fresh}
  /\ kids' = [kids EXCEPT ![Fresh] = <<slot[y], slot[z]>>]
  /\ slot' = [slot EXCEPT ![x] = Fresh]
  /\ UNCHANGED <<bounds, phase, rebound, owed, aliases, frames, lent, fault, returned, unmatched>>

(* x = y.                                                                  *)
MoveAssign(x, y) ==
  /\ AtStmt
  /\ Takeable(y) /\ Assigned(y) /\ Receives(MovedOut({y}), x)
  /\ state' = [MovedOut({y}) EXCEPT ![Key(x)] = "Owned"]
  /\ slot' = [slot EXCEPT ![x] = slot[y]]
  /\ UNCHANGED <<bounds, phase, rebound, owed, aliases, frames, live, kids, lent, fault, returned, unmatched>>

-----------------------------------------------------------------------------
(* Case statements.                                                        *)

(* A case begins: s is the state after its scrutinee, box the scrutinee.   *)
Case(byValue, s, box) ==
  /\ AtStmt
  /\ depth < Len(bounds.arms)
  /\ state' = s
  /\ frames' = Append(frames,
       [byValue |-> byValue, arm |-> NoArm, entry |-> s, joined |-> s, seen |-> {},
        aliases |-> aliases, saved |-> <<>>, box |-> box, taken |-> FALSE])
  /\ fault' = fault \cup IF box \in live' THEN {} ELSE {"use-after-free"}
  /\ UNCHANGED <<bounds, phase, rebound, owed, aliases, slot, lent, returned, unmatched>>

(* case x of: an owned scrutinee is consumed.                              *)
CaseVar(x) ==
  /\ Takeable(x) /\ Assigned(x)
  /\ UNCHANGED <<live, kids>>
  /\ Case(TRUE, MovedOut({x}), slot[x])

(* case f() of.                                                            *)
CaseTemp(tag) == Grow(tag) /\ Case(TRUE, state, Fresh)

(* case *p of, p a borrow the caller passed: nothing is consumed.          *)
CaseLent ==
  /\ lent # Null
  /\ UNCHANGED <<live, kids>>
  /\ Case(FALSE, state, lent)

-----------------------------------------------------------------------------
(* Arms.                                                                   *)

Irrefutable(arm) == Tests(arm) = {<<>>}

(* An arm that an earlier arm of the same tag makes unreachable.           *)
Redundant(arm) ==
  \E e \in inner.seen : e[<<>>] = arm[<<>>] /\ (Irrefutable(e) \/ e = arm)

(* The box at position p of the tree with root c, and its tag.             *)
At(c, p) ==
  CASE Len(p) = 0 -> c
    [] Len(p) = 1 -> kids[c][p[1]]
    [] Len(p) = 2 -> kids[kids[c][p[1]]][p[2]]
TagOf(c) == IF kids[c] = <<>> THEN "Leaf" ELSE "Node"

(* Mutation: every nested constructor tests for the first variant.         *)
MatchesFirstVariant(arm, c) ==
  \A p \in Tests(arm) :
    /\ p # <<>> => TagOf(c) = "Node"
    /\ TagOf(At(c, p)) = IF p = <<>> THEN arm[p] ELSE "Node"

(* All tests of the arm succeed; nothing is bound or freed before that.    *)
Matches(arm, c) ==
  \A p \in Tests(arm) :
    /\ p # <<>> => TagOf(c) = "Node"
    /\ TagOf(At(c, p)) = arm[p]

(* Mutation: the binders of a borrowed match are owners too.               *)
OwnedBindersOfAny(byValue, arm) == Binders(arm)

(* ownedBinders: `case *p` binders are aliases, owned by the scrutinee.    *)
OwnedBinders(byValue, arm) == IF byValue THEN Binders(arm) ELSE {}

(* Of two positions, the one bound later.                                  *)
Later(p, q) == \/ p[1] > q[1]
               \/ p[1] = q[1] /\ Len(p) = 2 /\ Len(q) = 2 /\ p[2] > q[2]
Binding(arm, n) ==
  CHOOSE p \in Bound(arm) :
    arm[p] = n /\ \A q \in Bound(arm) : arm[q] = n => q = p \/ Later(p, q)

(* Every binder gets an alloca of its own; of two with one name the later  *)
(* stays in namedValues.                                                   *)
BinderSlots(arm, c) ==
  [n \in Name |-> IF n \in Binders(arm) THEN At(c, Binding(arm, n)) ELSE slot[n]]

(* Mutation: the box of the scrutinee is freed with those nested in it.    *)
TakenApartTop(arm, c) ==
  {At(c, p) : p \in Tests(arm)} \cup Trees({At(c, p) : p \in Discarded(arm)})

(* Mutation: a discarded payload is not destroyed.                         *)
TakenApartNoWildcards(arm, c) == {At(c, p) : p \in Tests(arm) \ {<<>>}}

(* What a consuming match frees with the bindings: discarded payloads,     *)
(* with all they own, and the boxes of nested patterns.                    *)
TakenApart(arm, c) ==
  {At(c, p) : p \in Tests(arm) \ {<<>>}} \cup Trees({At(c, p) : p \in Discarded(arm)})

(* The arm's payloads leave the matched boxes, and TakenApart is freed.    *)
TakeApart(arm, c) ==
  /\ live' = live \ TakenApart(arm, c)
  /\ kids' = [d \in Cell |-> IF d \in TakenApart(arm, c) \cup {c} THEN <<>> ELSE kids[d]]
  /\ fault' = fault \cup Touch(TakenApart(arm, c))

(* The arms a case can have next.                                          *)
NextArm(arm) ==
  /\ BetweenArms
  /\ Cardinality(inner.seen) < bounds.arms[depth]
  /\ Binders(arm) \subseteq rebound
  /\ BoundTwice(arm) = {} \/ DuplicateBinders
  /\ ~Redundant(arm)

Taken(arm) == ~inner.taken /\ Matches(arm, inner.box)

(* The run takes the arm: its owned binders start Owned.                   *)
OpenArm(arm) ==
  LET own == OwnedBinders(inner.byValue, arm)
  IN  /\ NextArm(arm) /\ Taken(arm)
      /\ state' = [d \in Decl |-> IF \E n \in own : d = Key(n) THEN "Owned" ELSE inner.entry[d]]
      /\ aliases' = (aliases \ Binders(arm))
                      \cup (IF inner.byValue THEN {} ELSE Binders(arm))
      /\ frames' = [frames EXCEPT ![depth] =
           [inner EXCEPT !.arm = arm, !.taken = TRUE,
                         !.saved = [n \in Binders(arm) |->
                                      [ptr |-> slot[n], mark |-> inner.entry[Key(n)]]]]]
      /\ slot' = BinderSlots(arm, inner.box)
      /\ IF inner.byValue THEN TakeApart(arm, inner.box)
                          ELSE UNCHANGED <<live, kids, fault>>
      /\ owed' = owed \ Binders(arm)
      /\ UNCHANGED <<bounds, phase, rebound, lent, returned, unmatched>>

(* The entry of d when the arm ends with entry m: binders' previous        *)
(* entries are put back one after the other, so that the second of two     *)
(* with one name puts back the first's.                                    *)
RestoredMark(arm, d, m) ==
  IF \E n \in OwnedBinders(inner.byValue, arm) : d = Key(n)
    THEN IF d[1] \in BoundTwice(arm) THEN "Owned" ELSE inner.entry[d]
    ELSE m

Restored(arm) == [d \in Decl |-> RestoredMark(arm, d, state[d])]

(* What an arm leaves agrees with what the arms before it left, and joins  *)
(* with it.                                                                *)
ArmAccepted(s) == inner.seen = {} \/ JoinAccepted(s, inner.joined)
Joined(s) == IF inner.seen = {} THEN s ELSE JoinStates(s, inner.joined)

(* The run leaves its arm: binders still Owned are destroyed by name, one  *)
(* destroy for each binding of the pattern.                                *)
CloseArm ==
  LET arm == inner.arm
      own == {n \in OwnedBinders(inner.byValue, arm) : state[Key(n)] = "Owned"}
      dead == [p \in {q \in Bound(arm) : arm[q] \in own} |-> slot[arm[p]]]
  IN  /\ AtStmt /\ depth > 0
      /\ ArmAccepted(Restored(arm))
      /\ state' = inner.entry
      /\ aliases' = inner.aliases
      /\ frames' = [frames EXCEPT ![depth] =
           [inner EXCEPT !.arm = NoArm, !.saved = <<>>, !.seen = @ \cup {arm},
              !.joined = Joined(Restored(arm))]]
      /\ Free(Trees(Range(dead)))
      /\ fault' = fault \cup DestroyFault(dead)
      /\ slot' = [n \in Name |-> IF n \in Binders(arm) THEN inner.saved[n].ptr ELSE slot[n]]
      /\ UNCHANGED <<bounds, phase, rebound, owed, lent, returned, unmatched>>

(* The entries a body can leave a name with that it finds with entry m: it *)
(* can assign, consume or ignore it, but an alias binder only ignore.      *)
BodyMark(m) == IF m = "absent" THEN Mark ELSE {"Owned", "Moved"}

BodyLeaves(arm) ==
  LET used == {Key(n) : n \in Name \ (Binders(arm) \cup inner.aliases)}
  IN  {[d \in Decl |-> IF d \in used THEN left[d] ELSE RestoredMark(arm, d, inner.entry[d])] :
         left \in {b \in [used -> Mark] : \A d \in used : b[d] \in BodyMark(inner.entry[d])}}

(* The arm is not taken; its body leaves the state s.                      *)
SkipArm(arm) ==
  /\ NextArm(arm) /\ ~Taken(arm)
  /\ \E s \in BodyLeaves(arm) :
       /\ ArmAccepted(s)
       /\ frames' = [frames EXCEPT ![depth] =
            [inner EXCEPT !.seen = @ \cup {arm}, !.joined = Joined(s)]]
  /\ owed' = owed \ Binders(arm)
  /\ UNCHANGED <<bounds, phase, rebound, state, aliases, runVars>>

(* Every constructor of the scrutinee's type has an arm.                   *)
Covered(seen) == {arm[<<>>] : arm \in seen} = Tag

(* The end of a case. A consumed scrutinee's box is freed.                 *)
Merge ==
  /\ Covered(inner.seen)
  /\ state' = inner.joined
  /\ frames' = Front(frames)
  /\ IF inner.byValue
       THEN /\ live' = live \ {inner.box}
            /\ kids' = [kids EXCEPT ![inner.box] = <<>>]
            /\ fault' = fault \cup DestroyFault([h \in {"case"} |-> inner.box])
       ELSE UNCHANGED <<live, kids, fault>>
  /\ UNCHANGED <<bounds, phase, rebound, owed, aliases, slot, lent, returned>>

(* The run comes from the arm it took.                                     *)
CloseCase == BetweenArms /\ inner.taken /\ Merge /\ UNCHANGED unmatched

(* The run comes from the default block: the nested tests of the last arm  *)
(* with the tag of the scrutinee failed, and no payload was bound.         *)
CloseUnmatched == BetweenArms /\ ~inner.taken /\ Merge /\ unmatched' = TRUE

-----------------------------------------------------------------------------
(* The exit: owners still Owned are destroyed, by name, after the returned *)
(* expression is evaluated.                                                *)
Exit(s, tree) ==
  LET roots == [d \in OwnedIn(s) |-> slot[d[1]]]
  IN  /\ AtStmt /\ depth = 0 /\ owed = {}
      /\ phase' = "exited"
      /\ state' = s
      /\ returned' = tree
      /\ Free(Trees(Range(roots)))
      /\ fault' = fault \cup DestroyFault(roots)
      /\ UNCHANGED <<bounds, rebound, owed, aliases, frames, slot, lent, unmatched>>

ReturnVar(x) == Takeable(x) /\ Assigned(x) /\ Exit(MovedOut({x}), slot[x])
ReturnCopy == Exit(state, Null)

-----------------------------------------------------------------------------
(* A rejected program is not compiled: the run never happens.              *)
Reject ==
  /\ phase' = "rejected"
  /\ state' = NoEntries /\ aliases' = {} /\ frames' = <<>>
  /\ live' = {} /\ kids' = [c \in Cell |-> <<>>] /\ slot' = [n \in Name |-> Null]
  /\ lent' = Null /\ fault' = {} /\ returned' = Null
  /\ owed' = {}
  /\ UNCHANGED <<bounds, rebound, unmatched>>

RejectUseAfterMove == AtStmt /\ (\E x \in Name : ~Usable(x)) /\ Reject
RejectAliasTaken == AtStmt /\ aliases # {} /\ Reject
RejectAssignOverLive == AtStmt /\ (\E x \in Name : state[Key(x)] = "Owned") /\ Reject
RejectJoin ==
  /\ \/ AtStmt /\ depth > 0 /\ ~ArmAccepted(Restored(inner.arm))
     \/ \E arm \in bounds.patterns : NextArm(arm) /\ ~Taken(arm) /\ \E s \in BodyLeaves(arm) : ~ArmAccepted(s)
  /\ Reject
RejectIncomplete == BetweenArms /\ ~Covered(inner.seen) /\ Reject
RejectRedundant == BetweenArms /\ (\E arm \in bounds.patterns : Redundant(arm)) /\ Reject

-----------------------------------------------------------------------------
Statement ==
  \/ \E x \in Name : Lend(x) \/ Consume(x)
  \/ \E x \in Name : \E tag \in Tag : Bind(x, tag)
  \/ \E x, y \in Name : MoveAssign(x, y) \/ \E z \in Name : Construct(x, y, z)

Match ==
  \/ CaseLent \/ \E x \in Name : CaseVar(x)
  \/ \E tag \in Tag : CaseTemp(tag)
  \/ CloseArm \/ CloseCase \/ CloseUnmatched
  \/ \E arm \in bounds.patterns : OpenArm(arm) \/ SkipArm(arm)

Return == ReturnCopy \/ \E x \in Name : ReturnVar(x)

Rejection ==
  \/ RejectUseAfterMove \/ RejectAliasTaken \/ RejectAssignOverLive
  \/ RejectJoin \/ RejectIncomplete \/ RejectRedundant

Done == phase # "walk" /\ UNCHANGED vars

Next == Statement \/ Match \/ Return \/ Rejection \/ Done

Spec == Init /\ [][Next]_vars

-----------------------------------------------------------------------------
(* Properties.                                                             *)

(* What the analysis knows where the run is: between the arms of a case at *)
(* the scrutinee, or past the arm taken, all of which agree on what is     *)
(* owned there.                                                            *)
Track == IF BetweenArms /\ inner.taken THEN inner.joined ELSE state

(* Who is due to free box c: Owned variables and binders, those that the   *)
(* binders of the i-th case's arm hide, consuming matches.                 *)
VarsOf(c) ==
  {n \in Name \ aliases : phase = "walk" /\ Track[Key(n)] = "Owned" /\ slot[n] = c}
HiddenOf(i, c) ==
  {n \in DOMAIN frames[i].saved \ frames[i].aliases :
     frames[i].saved[n] = [ptr |-> c, mark |-> "Owned"]}
CasesOf(c) == {i \in DOMAIN frames : frames[i].byValue /\ frames[i].box = c}

(* And the boxes c is a payload of, and the caller.                        *)
HoldersOf(c) ==
  ({"var"} \X VarsOf(c))
    \cup ({"hidden"} \X {h \in (DOMAIN frames) \X Name : h[2] \in HiddenOf(h[1], c)})
    \cup ({"case"} \X CasesOf(c))
    \cup ({"box"} \X {d \in live : c \in Range(kids[d])})
    \cup ({"caller"} \X ({lent, returned} \cap {c}))

(* "Every owned resource has exactly one owner", matches included: a live  *)
(* box is due to be freed once, by the scrutinee, the arm's binders, a     *)
(* hidden owner of the same name or the box it is in, and freed boxes by   *)
(* nobody. At the exit only the caller is left. Behind a default block the *)
(* analysis knows what the arms left, and the run has been in none.        *)
SoleHolder ==
  ~unmatched => \A c \in Cell : Cardinality(HoldersOf(c)) = IF c \in live THEN 1 ELSE 0

(* Accepted matches read no freed box and free none twice: arms take apart *)
(* what they matched, binders destroy what is left, the merge the box.     *)
(* Behind a default block this fails: a variable that all arms assign      *)
(* again counts as Owned, and may still hold the box that is freed.        *)
MemorySafe == ~unmatched => fault = {}

(* "A borrowed match frees nothing": what the caller lent is whole in all  *)
(* states of the run, whatever the arms do with the alias binders.         *)
LentIntact ==
  phase # "rejected" /\ lent # Null /\ ~unmatched =>
    Cardinality(Tree(lent)) = 3 /\ Tree(lent) \subseteq live

(* The arms leave no gap among the nested patterns: of every two variants  *)
(* of the payloads some arm admits both.                                   *)
NoGap(seen) ==
  \A pair \in Tag \X Tag : \E arm \in seen :
    arm[<<>>] = "Node" /\ \A i \in {1, 2} : arm[<<i>>] \in Tag => arm[<<i>>] = pair[i]

(* The default block is "unreachable in well-typed programs" where the     *)
(* arms leave no gap, which the compiler does not ask for: every value has *)
(* passed the tests of an arm, in whatever order the arms are tried, and   *)
(* whatever has been taken apart before.                                   *)
DefaultMeansGap ==
  [][CloseUnmatched /\ ~unmatched => ~NoGap(inner.seen)]_vars
=============================================================================
