---------------------------- MODULE MoveAnalysis ----------------------------
(***************************************************************************)
(* topc's ownership check of one function and one execution of the code it *)
(* accepts, in lock step.                                                  *)
(*                                                                         *)
(* The walk: MoveAnalysis visits the statements and expressions of the     *)
(* function in evaluation order and keeps a StateMap. An action is one     *)
(* node of the walk; which node comes next is the program's choice, so the *)
(* behaviours are all programs over Var within the bounds below. The guard *)
(* of an action is the check the code makes; a Reject action is the        *)
(* failing check.                                                          *)
(*                                                                         *)
(* The run: the generated code keeps a pointer per variable (slot), which  *)
(* a move does not clear, and the set of live allocations. It advances     *)
(* with the walk while the walk is on the path taken (running) and waits   *)
(* while the walk visits a branch not taken: frozen is then the frame it   *)
(* waits at and home the state the walk had when it stopped. A loop whose  *)
(* condition holds again is walked again from the state at its entry, as   *)
(* the analysis did once for all iterations; a body that differs from one  *)
(* iteration to the next is a body that branches.                          *)
(*                                                                         *)
(* Owned values are own&T cells here: a cell owns nothing further. Matches *)
(* on owned sums are the subject of MatchOwnership.                        *)
(***************************************************************************)
EXTENDS OwnershipState, Sequences, SequencesExt, FiniteSets

CONSTANTS
  Cell,             \* heap allocations
  Null,             \* the zero a local is initialised with
  MaxFrames,        \* bound: nesting of if and while
  MaxNesting,       \* bound: nesting of if, while and calls together
  LoopEntry,        \* which loops programs have: see WhileCond
  TempUses          \* what programs do with unbound owned temporaries

ASSUME NullAssumption == Null \notin Cell
ASSUME BoundsAssumption == MaxFrames \in Nat /\ MaxNesting \in Nat
ASSUME LoopEntryAssumption == LoopEntry \in {"none", "assigned", "any"}
ASSUME TempUsesAssumption == TempUses \subseteq {"deref", "compare"}

VARIABLES
  phase,      \* "walk", "exited" or "rejected"
  state,      \* the StateMap at the walk's program point
  frames,     \* the if and while statements around that point
  calls,      \* the calls whose actuals are being evaluated
  val,        \* an owned temporary has just been computed
  live,       \* allocated and not freed
  slot,       \* the pointer each variable's alloca holds
  tmp,        \* the cell of the owned temporary
  frozen,     \* 0, or the frame whose other branch the walk is visiting
  home,       \* the state the walk had where the run waits
  fault,      \* what went wrong at run time
  returned    \* the cell returned to the caller

walkVars == <<phase, state, frames, calls, val>>
runVars  == <<live, slot, tmp, frozen, home, fault, returned>>
vars     == <<walkVars, runVars>>

Pointer == Cell \cup {Null}
FrameKind == {"then", "else", "cond", "body"}

(* entry is the state at the statement's start (an if: after its           *)
(* condition); thenEnd is the state the then branch left.                  *)
Frame == [kind : FrameKind, entry : StateMap, thenEnd : StateMap]

(* held: owners borrowed in the call's actuals (heldBorrows). lent and     *)
(* args: owners lent to it and cells handed to it so far.                  *)
Call == [held : SUBSET Var, lent : SUBSET Var, args : SUBSET Cell]

Faults == {"use-after-free", "double-free"}

TypeOK ==
  /\ phase \in {"walk", "exited", "rejected"}
  /\ state \in StateMap
  /\ frames \in Seq(Frame)
  /\ calls \in Seq(Call)
  /\ val \in BOOLEAN
  /\ live \in SUBSET Cell
  /\ slot \in [Var -> Pointer]
  /\ tmp \in Pointer
  /\ frozen \in Nat
  /\ home \in StateMap
  /\ fault \in SUBSET Faults
  /\ returned \in Pointer

-----------------------------------------------------------------------------
(* The function starts: its owned formals are Owned and hold cells the     *)
(* caller moved in, distinct ones; every local's alloca is zero. Which     *)
(* variables are formals is the program's choice.                          *)
Init ==
  /\ phase = "walk"
  /\ slot \in {s \in [Var -> Pointer] :
                 \A x, y \in Var : s[x] = s[y] => x = y \/ s[x] = Null}
  /\ state = [x \in Var |-> IF slot[x] # Null THEN "Owned" ELSE "absent"]
  /\ live = {slot[x] : x \in OwnedIn(state)}
  /\ frames = <<>>
  /\ calls = <<>>
  /\ val = FALSE
  /\ tmp = Null
  /\ frozen = 0
  /\ home = NoEntries
  /\ fault = {}
  /\ returned = Null

-----------------------------------------------------------------------------
(* Where the walk is.                                                      *)
running == frozen = 0
depth == Len(frames)
inner == Last(frames)
innerKind == IF frames = <<>> THEN "function" ELSE inner.kind

AtExpr == phase = "walk" /\ ~val
AtStmt == AtExpr /\ calls = <<>> /\ innerKind # "cond"

(* The value just computed is an operand of a statement, not an actual.    *)
ValueForStmt == phase = "walk" /\ val /\ calls = <<>> /\ innerKind # "cond"

(* An allocation returns a cell that is not live; one that some pointer    *)
(* still names is told apart from a fresh one.                             *)
Named == {slot[x] : x \in Var} \cup UNION {calls[i].args : i \in DOMAIN calls}
           \cup {tmp, returned}
Fresh == Cell \ (live \cup Named)

Dead(p) == p \in Cell \ live

Touch(S) == IF \E x \in S : Dead(slot[x]) THEN {"use-after-free"} ELSE {}

-----------------------------------------------------------------------------
(* Expressions.                                                            *)

(* checkUse accepts x, or its rule is off.                                 *)
Usable(x) == state[x] # "Moved" \/ ~Enabled("use-after-move")

(* Mutation: only the innermost call's borrows count.                      *)
HeldByInnermostCall(x) == calls # <<>> /\ x \in Last(calls).held

HeldBorrowed(x) == \E i \in DOMAIN calls : x \in calls[i].held

(* consumeVar accepts x.                                                   *)
Consumable(x) ==
  /\ Usable(x)
  /\ ~HeldBorrowed(x) \/ ~Enabled("call-held-borrow")

(* A variable is read: *x, *x = e, an actual that is not consumed.         *)
CheckUse(x) ==
  /\ AtExpr
  /\ Usable(x)
  /\ fault' = fault \cup IF running THEN Touch({x}) ELSE {}
  /\ UNCHANGED <<walkVars, live, slot, tmp, frozen, home, returned>>

(* alloc e, after e.                                                       *)
Alloc ==
  /\ AtExpr
  /\ val' = TRUE
  /\ IF running
       THEN \E c \in Fresh : live' = live \cup {c} /\ tmp' = c
       ELSE UNCHANGED <<live, tmp>>
  /\ UNCHANGED <<phase, state, frames, calls, slot, frozen, home, fault, returned>>

(* A call, after its callee expression: every owner borrowed anywhere in   *)
(* its actuals (B) is held until it returns.                               *)
CallBegin(B) ==
  /\ AtExpr
  /\ depth + Len(calls) < MaxNesting
  /\ calls # <<>> => B \subseteq Last(calls).held
  /\ calls' = Append(calls, [held |-> B, lent |-> {}, args |-> {}])
  /\ UNCHANGED <<phase, state, frames, val, runVars>>

(* The actual &x of the innermost call.                                    *)
Borrow(x) ==
  /\ AtExpr
  /\ calls # <<>>
  /\ x \in Last(calls).held
  /\ Usable(x)
  /\ calls' = [calls EXCEPT ![Len(calls)].lent =
                 IF running THEN @ \cup {x} ELSE @]
  /\ UNCHANGED <<phase, state, frames, val, runVars>>

(* Mutation: the null pointer of an unassigned variable is handed over as  *)
(* if it were a cell.                                                      *)
ConsumeVarNull(x) ==
  /\ AtExpr
  /\ calls # <<>>
  /\ Consumable(x)
  /\ state' = [state EXCEPT ![x] = "Moved"]
  /\ calls' = [calls EXCEPT ![Len(calls)].args = @ \cup {slot[x]}]
  /\ UNCHANGED <<phase, frames, val, runVars>>

(* The actual x of the innermost call, which consumes it. The callee frees *)
(* what it is given: a dead cell, or one already handed over, is freed     *)
(* twice.                                                                  *)
ConsumeVar(x) ==
  /\ AtExpr
  /\ calls # <<>>
  /\ Consumable(x)
  /\ state' = [state EXCEPT ![x] = "Moved"]
  /\ IF running /\ slot[x] # Null
       THEN /\ calls' = [calls EXCEPT ![Len(calls)].args = @ \cup {slot[x]}]
            /\ fault' = fault \cup
                 IF Dead(slot[x]) \/ \E i \in DOMAIN calls : slot[x] \in calls[i].args
                   THEN {"double-free"} ELSE {}
       ELSE UNCHANGED <<calls, fault>>
  /\ UNCHANGED <<phase, frames, val, live, slot, tmp, frozen, home, returned>>

(* An owned temporary as an actual: the callee owns it.                    *)
PassTemp ==
  /\ phase = "walk" /\ val
  /\ calls # <<>>
  /\ val' = FALSE
  /\ calls' = IF running
                THEN [calls EXCEPT ![Len(calls)].args = @ \cup {tmp}]
                ELSE calls
  /\ tmp' = Null
  /\ UNCHANGED <<phase, state, frames, live, slot, frozen, home, fault, returned>>

(* The callee runs: it frees the cells it was given, but for one it may    *)
(* return, reads its borrowed owners to the end, and may return a fresh    *)
(* cell.                                                                   *)
CallEnd(own) ==
  /\ AtExpr
  /\ calls # <<>>
  /\ val' = own
  /\ calls' = Front(calls)
  /\ IF running
       THEN LET args == Last(calls).args
            IN  /\ IF own THEN tmp' \in args \cup Fresh ELSE UNCHANGED tmp
                /\ live' = (live \ args) \cup (IF own THEN {tmp'} ELSE {})
                /\ fault' = fault \cup
                     IF \E x \in Last(calls).lent : slot[x] \in Cell \ live'
                       THEN {"use-after-free"} ELSE {}
       ELSE UNCHANGED <<live, tmp, fault>>
  /\ UNCHANGED <<phase, state, frames, slot, frozen, home, returned>>

(* Mutation: the plan misses the unbound reference.                        *)
TempFreedNever(use) == FALSE

(* plan.freeAfterUse: an unbound owning reference that is dereferenced is  *)
(* freed after use; one that is compared is in no plan.                    *)
TempFreed(use) == use = "deref" /\ Enabled("free-unbound-reference")

(* *f() and *f() = e, or f() == e: an owned temporary is read, never       *)
(* bound. The write of *f() = e waits for e; nothing in e can name the     *)
(* cell, so the model frees it where it is computed.                       *)
UseTemp(use) ==
  /\ phase = "walk" /\ val
  /\ val' = FALSE
  /\ live' = IF TempFreed(use) THEN live \ {tmp} ELSE live
  /\ tmp' = Null
  /\ UNCHANGED <<phase, state, frames, calls, slot, frozen, home, fault, returned>>

-----------------------------------------------------------------------------
(* Assignments.                                                            *)

(* Assigning x does not overwrite a live owner.                            *)
Assignable(s, x) == s[x] # "Owned" \/ ~Enabled("assign-over-live")

(* x = e, e not a variable.                                                *)
Bind(x) ==
  /\ ValueForStmt
  /\ Assignable(state, x)
  /\ val' = FALSE
  /\ state' = [state EXCEPT ![x] = "Owned"]
  /\ slot' = IF running THEN [slot EXCEPT ![x] = tmp] ELSE slot
  /\ tmp' = Null
  /\ UNCHANGED <<phase, frames, calls, live, frozen, home, fault, returned>>

(* x = y: the move out of y comes first; the store copies the pointer and  *)
(* leaves y's alloca as it is.                                             *)
MoveOut(y) == [state EXCEPT ![y] = "Moved"]

MoveAssign(x, y) ==
  /\ AtStmt
  /\ Usable(y)
  /\ Assignable(MoveOut(y), x)
  /\ state' = [MoveOut(y) EXCEPT ![x] = "Owned"]
  /\ slot' = IF running THEN [slot EXCEPT ![x] = slot[y]] ELSE slot
  /\ UNCHANGED <<phase, frames, calls, val, live, tmp, frozen, home, fault, returned>>

-----------------------------------------------------------------------------
(* Branches. go is the outcome of the condition at run time.               *)

Stop == frozen' = depth' /\ home' = state
Resume == frozen' = 0 /\ home' = NoEntries
Stay == UNCHANGED <<frozen, home>>

IfThen(go) ==
  /\ AtStmt
  /\ depth < MaxFrames /\ depth < MaxNesting
  /\ frames' = Append(frames, [kind |-> "then", entry |-> state, thenEnd |-> NoEntries])
  /\ IF running /\ ~go THEN Stop ELSE Stay
  /\ UNCHANGED <<phase, state, calls, val, live, slot, tmp, fault, returned>>

(* The else branch is walked from the same state as the then branch.       *)
IfElse ==
  /\ AtStmt
  /\ innerKind = "then"
  /\ frames' = [frames EXCEPT ![depth] = [kind |-> "else", entry |-> @.entry,
                                          thenEnd |-> state]]
  /\ state' = inner.entry
  /\ IF running THEN Stop ELSE IF frozen = depth THEN Resume ELSE Stay
  /\ UNCHANGED <<phase, calls, val, live, slot, tmp, fault, returned>>

(* The state of the branch not visited last: an if without else leaves the *)
(* state it found.                                                         *)
OtherBranch == IF inner.kind = "then" THEN inner.entry ELSE inner.thenEnd

IfEnd ==
  /\ AtStmt
  /\ innerKind \in {"then", "else"}
  /\ JoinAccepted(state, OtherBranch)
  /\ state' = JoinStates(state, OtherBranch)
  /\ frames' = Front(frames)
  /\ IF frozen = depth THEN Resume ELSE Stay
  /\ UNCHANGED <<phase, calls, val, live, slot, tmp, fault, returned>>

-----------------------------------------------------------------------------
(* Loops.                                                                  *)

(* A loop begins with its condition. LoopEntry says which programs are     *)
(* considered: those without loops, those whose loops are entered with     *)
(* every variable assigned, or all.                                        *)
LoopAllowed ==
  \/ LoopEntry = "any"
  \/ LoopEntry = "assigned" /\ \A x \in Var : state[x] # "absent"

WhileCond ==
  /\ AtStmt
  /\ depth < MaxFrames /\ depth < MaxNesting
  /\ LoopAllowed
  /\ frames' = Append(frames, [kind |-> "cond", entry |-> state, thenEnd |-> NoEntries])
  /\ UNCHANGED <<phase, state, calls, val, runVars>>

(* The condition may not change the state; the body is walked from the     *)
(* state before the condition.                                             *)
WhileBody(go) ==
  /\ AtExpr /\ calls = <<>>
  /\ innerKind = "cond"
  /\ LoopConditionAccepted(inner.entry, state)
  /\ frames' = [frames EXCEPT ![depth].kind = "body"]
  /\ state' = inner.entry
  /\ IF running /\ ~go THEN frozen' = depth /\ home' = inner.entry ELSE Stay
  /\ UNCHANGED <<phase, calls, val, live, slot, tmp, fault, returned>>

(* The body may not change which variables are Owned; the loop leaves the  *)
(* state it found. A run still in the body evaluates the condition again.  *)
WhileEnd ==
  /\ AtStmt
  /\ innerKind = "body"
  /\ LoopBodyAccepted(inner.entry, state)
  /\ state' = inner.entry
  /\ IF running THEN /\ frames' = [frames EXCEPT ![depth].kind = "cond"]
                     /\ Stay
                ELSE /\ frames' = Front(frames)
                     /\ IF frozen = depth THEN Resume ELSE Stay
  /\ UNCHANGED <<phase, calls, val, live, slot, tmp, fault, returned>>

-----------------------------------------------------------------------------
(* The return statement, the last of the function. The destroys planned    *)
(* for the owners still Owned run after the returned expression is         *)
(* evaluated.                                                              *)

AtReturn == phase = "walk" /\ calls = <<>> /\ frames = <<>>

(* plan.atExit for the state at the exit.                                  *)
AtExit(s) == IF Enabled("destroy-at-exit") THEN OwnedIn(s) ELSE {}

(* destroy x for every x of D: free(slot[x]); free(0) does nothing.        *)
DestroyFault(D) ==
  IF \/ \E x \in D : Dead(slot[x])
     \/ \E x, y \in D : x # y /\ slot[x] = slot[y] /\ slot[x] # Null
    THEN {"double-free"} ELSE {}

(* Mutation: the destroys run before the returned expression is evaluated. *)
ExitDestroysFirst(s, p, reads) ==
  LET D == AtExit(s) IN
  /\ phase' = "exited"
  /\ state' = s
  /\ val' = FALSE
  /\ tmp' = Null
  /\ returned' = p
  /\ live' = live \ {slot[x] : x \in D}
  /\ fault' = fault \cup DestroyFault(D)
       \cup IF \E x \in reads : slot[x] \in Cell \ live' THEN {"use-after-free"} ELSE {}
  /\ UNCHANGED <<frames, calls, slot, frozen, home>>

Exit(s, p, reads) ==
  LET D == AtExit(s) IN
  /\ phase' = "exited"
  /\ state' = s
  /\ val' = FALSE
  /\ tmp' = Null
  /\ returned' = p
  /\ live' = live \ {slot[x] : x \in D}
  /\ fault' = fault \cup Touch(reads) \cup DestroyFault(D)
  /\ UNCHANGED <<frames, calls, slot, frozen, home>>

(* return x, x Own: a move to the caller.                                  *)
ReturnVar(x) ==
  /\ AtReturn /\ ~val
  /\ Consumable(x)
  /\ Exit([state EXCEPT ![x] = "Moved"], slot[x], {})

(* return *x.                                                              *)
ReturnRead(x) ==
  /\ AtReturn /\ ~val
  /\ Usable(x)
  /\ Exit(state, Null, {x})

(* return e for an owned temporary or, with none pending, a Copy value.    *)
ReturnValue ==
  /\ AtReturn
  /\ Exit(state, tmp, {})

-----------------------------------------------------------------------------
(* RuleToggles::reject: a SemanticError ends the compilation. No code is   *)
(* generated, so the run it stood for never happens.                       *)
Reject(id) ==
  /\ Enabled(id)
  /\ phase' = "rejected"
  /\ state' = NoEntries /\ frames' = <<>> /\ calls' = <<>> /\ val' = FALSE
  /\ live' = {} /\ slot' = [x \in Var |-> Null] /\ tmp' = Null
  /\ frozen' = 0 /\ home' = NoEntries /\ fault' = {} /\ returned' = Null

RejectUseAfterMove ==
  /\ AtExpr
  /\ \E x \in Var : state[x] = "Moved"
  /\ Reject("use-after-move")

RejectCallHeldBorrow ==
  /\ AtExpr
  /\ \E x \in Var : HeldBorrowed(x)
  /\ Reject("call-held-borrow")

RejectAssignOverLive ==
  /\ \/ ValueForStmt /\ \E x \in Var : state[x] = "Owned"
     \/ AtStmt /\ \E x, y \in Var : Usable(y) /\ MoveOut(y)[x] = "Owned"
  /\ Reject("assign-over-live")

RejectJoin ==
  /\ AtStmt
  /\ innerKind \in {"then", "else"}
  /\ ~Agree(state, OtherBranch)
  /\ Reject("join-agreement")

RejectLoopCondition ==
  /\ AtExpr /\ calls = <<>>
  /\ innerKind = "cond"
  /\ state # inner.entry
  /\ Reject("loop-condition")

RejectLoopBody ==
  /\ AtStmt
  /\ innerKind = "body"
  /\ ~Agree(inner.entry, state)
  /\ Reject("loop-body-invariant")

-----------------------------------------------------------------------------
Expression ==
  \/ \E x \in Var : CheckUse(x) \/ Borrow(x) \/ ConsumeVar(x)
  \/ \E B \in SUBSET Var : CallBegin(B)
  \/ \E own \in BOOLEAN : CallEnd(own)
  \/ \E use \in TempUses : UseTemp(use)
  \/ Alloc \/ PassTemp

Assignment == \E x \in Var : Bind(x) \/ \E y \in Var : MoveAssign(x, y)

Branch == IfElse \/ IfEnd \/ \E go \in BOOLEAN : IfThen(go)

Loop == WhileCond \/ WhileEnd \/ \E go \in BOOLEAN : WhileBody(go)

Return == ReturnValue \/ \E x \in Var : ReturnVar(x) \/ ReturnRead(x)

Rejection ==
  \/ RejectUseAfterMove \/ RejectCallHeldBorrow \/ RejectAssignOverLive
  \/ RejectJoin \/ RejectLoopCondition \/ RejectLoopBody

(* The compilation, or the function, is over.                              *)
Done == phase \in {"exited", "rejected"} /\ UNCHANGED vars

Next == Expression \/ Assignment \/ Branch \/ Loop \/ Return \/ Rejection \/ Done

Spec == Init /\ [][Next]_vars

-----------------------------------------------------------------------------
(* Properties.                                                             *)

(* The state the analysis assigns to the point the run has reached.        *)
Track == IF running THEN state ELSE home

VarHolder(x) == <<"var", x>>
CallHolder(i) == <<"call", i>>
TmpHolder == <<"tmp">>
CallerHolder == <<"caller">>

(* Who is due to free cell c: an Owned variable of the function, the       *)
(* callee it was handed to, the pending temporary, or the caller.          *)
HoldersOf(c) ==
  {VarHolder(x) : x \in {y \in Var : phase = "walk" /\ Track[y] = "Owned" /\ slot[y] = c}}
    \cup {CallHolder(i) : i \in {j \in DOMAIN calls : c \in calls[j].args}}
    \cup (IF tmp = c THEN {TmpHolder} ELSE {})
    \cup (IF returned = c THEN {CallerHolder} ELSE {})

(* "Every owned resource has exactly one owner": at every point of every   *)
(* run a live cell has one holder and a freed cell none, so the static     *)
(* states of MoveAnalysis and the heap of the generated code agree.        *)
SoleHolder ==
  \A c \in Cell : IF c \in live THEN \E h \in HoldersOf(c) : HoldersOf(c) = {h}
                               ELSE HoldersOf(c) = {}

(* Accepted code reads no freed cell and frees none twice: what the        *)
(* use-after-move, join, loop and call rules are for.                      *)
MemorySafe == fault = {}

(* When the function returns, the destroys planned at its exit have freed  *)
(* everything but the result.                                              *)
NothingLeaks == phase = "exited" => live = {returned} \ {Null}

(* An owner lent to a call in progress keeps its cell, and nobody else is  *)
(* due to free it, until the call returns ("a borrowed owner must stay     *)
(* alive until the call returns").                                         *)
LentOwnersStayAlive ==
  \A i \in DOMAIN calls : \A x \in calls[i].lent :
    slot[x] # Null => slot[x] \in live /\ HoldersOf(slot[x]) = {VarHolder(x)}

(* A variable the analysis takes for unassigned holds no pointer on any    *)
(* path, so reading or moving it cannot reach a freed cell.                *)
UnassignedIsNull ==
  phase = "walk" => \A x \in Var : Track[x] = "absent" => slot[x] = Null

(* Entering, joining or leaving a branch or a loop never changes what the  *)
(* run owns: destruction can be decided statically.                        *)
MergesKeepOwnership ==
  [][phase' = "walk" /\ frames' # frames => OwnedIn(Track') = OwnedIn(Track)]_vars

(* MoveAnalysis and the code it accepts implement the linear heap.         *)
Heap == INSTANCE LinearHeap WITH
            Caller   <- CallerHolder,
            holders  <- [c \in Cell |-> HoldersOf(c)],
            finished <- phase = "exited"

LinearHeapSpec == Heap!Spec

=============================================================================
