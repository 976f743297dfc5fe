------------------------- MODULE MoveAnalysisProofs -------------------------
(***************************************************************************)
(* Proofs about MoveAnalysis, for every set of variables and of cells and  *)
(* every nesting of statements and calls.                                  *)
(***************************************************************************)
EXTENDS MoveAnalysis, SequenceTheorems, TLAPS

-----------------------------------------------------------------------------
(* Stacks: what pushing, popping and updating the top do.                  *)

(* The top of a nonempty stack.                                            *)
LEMMA TopOfStack ==
  ASSUME NEW S, NEW s \in Seq(S), s # <<>>
  PROVE  /\ Len(s) \in Nat \ {0}
         /\ DOMAIN s = 1..Len(s)
         /\ Len(s) \in 1..Len(s)
         /\ Last(s) = s[Len(s)]
         /\ Last(s) \in S
  BY EmptySeq, LenProperties, ElementOfSeq DEF Last

(* Popping a stack.                                                        *)
LEMMA PopStack ==
  ASSUME NEW S, NEW s \in Seq(S), s # <<>>
  PROVE  /\ Front(s) \in Seq(S)
         /\ Len(Front(s)) = Len(s) - 1
         /\ \A i \in 1..(Len(s) - 1) : Front(s)[i] = s[i]
<1>1. Len(s) \in Nat \ {0}
  BY TopOfStack
<1>2. \A i \in 1..(Len(s) - 1) : s[i] \in S
  BY <1>1, ElementOfSeq
<1>3. Len(s) - 1 \in Int /\ 1 \in Int
  BY <1>1
<1>4. /\ SubSeq(s, 1, Len(s) - 1) \in Seq(S)
      /\ Len(SubSeq(s, 1, Len(s) - 1)) = IF 1 <= Len(s) - 1 THEN (Len(s) - 1) - 1 + 1 ELSE 0
      /\ \A i \in 1..((Len(s) - 1) - 1 + 1) : SubSeq(s, 1, Len(s) - 1)[i] = s[1 + i - 1]
  BY <1>2, <1>3, SubSeqProperties
<1>5. /\ (IF 1 <= Len(s) - 1 THEN (Len(s) - 1) - 1 + 1 ELSE 0) = Len(s) - 1
      /\ (Len(s) - 1) - 1 + 1 = Len(s) - 1
      /\ \A i \in 1..(Len(s) - 1) : 1 + i - 1 = i
  BY <1>1
<1> QED
  BY <1>4, <1>5, Zenon DEF Front

(* Pushing e.                                                              *)
LEMMA PushStack ==
  ASSUME NEW S, NEW s \in Seq(S), NEW e \in S
  PROVE  /\ Append(s, e) \in Seq(S)
         /\ Len(Append(s, e)) = Len(s) + 1
         /\ \A i \in 1..Len(s) : Append(s, e)[i] = s[i]
         /\ Append(s, e)[Len(s) + 1] = e
  BY AppendProperties

(* Replacing the top.                                                      *)
LEMMA ReplaceTop ==
  ASSUME NEW S, NEW s \in Seq(S), s # <<>>, NEW e \in S
  PROVE  /\ [s EXCEPT ![Len(s)] = e] \in Seq(S)
         /\ Len([s EXCEPT ![Len(s)] = e]) = Len(s)
         /\ \A i \in 1..(Len(s) - 1) : [s EXCEPT ![Len(s)] = e][i] = s[i]
         /\ [s EXCEPT ![Len(s)] = e][Len(s)] = e
  BY TopOfStack, ExceptSeq

-----------------------------------------------------------------------------
(* Joins.                                                                  *)

(* joinStates yields a StateMap; of two states that agree on what they own *)
(* it owns the same, and takes for unassigned only what both do.           *)
LEMMA JoinOfAgreeing ==
  ASSUME NEW s \in StateMap, NEW t \in StateMap
  PROVE  /\ JoinStates(s, t) \in StateMap
         /\ Agree(s, t) =>
              /\ OwnedIn(JoinStates(s, t)) = OwnedIn(s)
              /\ \A x \in Var : JoinStates(s, t)[x] = "absent"
                                  => s[x] = "absent" /\ t[x] = "absent"
<1>1. \A m, n \in Mark :
        /\ JoinMark(m, n) \in Mark
        /\ JoinMark(m, n) = "Owned" <=> m = "Owned" /\ n = "Owned"
        /\ JoinMark(m, n) = "absent" /\ (m = "Owned" <=> n = "Owned")
             => m = "absent" /\ n = "absent"
  <2> TAKE m, n \in Mark
  <2>1. CASE m = "Owned" /\ n = "Owned"
    BY <2>1 DEF JoinMark, Mark
  <2>2. CASE m = "Moved" \/ n = "Moved"
    BY <2>2 DEF JoinMark, Mark
  <2>3. CASE ~(m = "Owned" /\ n = "Owned") /\ ~(m = "Moved" \/ n = "Moved")
    BY <2>3 DEF JoinMark, Mark
  <2> QED
    BY <2>1, <2>2, <2>3
<1>2. \A x \in Var : s[x] \in Mark /\ t[x] \in Mark
  BY DEF StateMap
<1>3. JoinStates(s, t) \in StateMap
  BY <1>1, <1>2 DEF JoinStates, StateMap
<1>4. ASSUME Agree(s, t)
      PROVE  \A x \in Var : s[x] = "Owned" <=> t[x] = "Owned"
  BY <1>4 DEF Agree, OwnedIn
<1>5. Agree(s, t) => OwnedIn(JoinStates(s, t)) = OwnedIn(s)
  BY <1>1, <1>2, <1>4 DEF JoinStates, OwnedIn
<1>6. Agree(s, t) => \A x \in Var : JoinStates(s, t)[x] = "absent"
                                        => s[x] = "absent" /\ t[x] = "absent"
  BY <1>1, <1>2, <1>4 DEF JoinStates
<1> QED
  BY <1>3, <1>5, <1>6

-----------------------------------------------------------------------------
(* Type correctness, whatever rules are enabled and whatever programs are  *)
(* considered. An owned temporary is a cell wherever the run is not        *)
(* waiting: it may be handed to a callee, which takes cells only.          *)

TypeInv ==
  /\ TypeOK
  /\ phase = "walk" /\ val /\ running => tmp \in Cell

LEMMA TypeInit == Init => TypeInv
<1> SUFFICES ASSUME Init PROVE TypeInv
  OBVIOUS
<1>1. slot \in [Var -> Pointer]
  BY DEF Init
<1>2. state \in StateMap /\ home \in StateMap
  BY <1>1 DEF Init, StateMap, Mark, NoEntries
<1>3. live \subseteq Cell
  BY <1>1 DEF Init, OwnedIn, Pointer
<1>4. frames \in Seq(Frame) /\ calls \in Seq(Call)
  BY EmptySeq DEF Init
<1> QED
  BY <1>1, <1>2, <1>3, <1>4 DEF Init, TypeInv, TypeOK, Pointer

LEMMA TypeStep == TypeInv /\ [Next]_vars => TypeInv'
<1> SUFFICES ASSUME TypeInv, [Next]_vars PROVE TypeInv'
  OBVIOUS
<1> USE DEF TypeInv, TypeOK, running, Pointer
<1>1. \A x \in Var : [state EXCEPT ![x] = "Moved"] \in StateMap
  BY DEF StateMap, Mark
<1>2. ASSUME frames # <<>> PROVE inner \in Frame /\ depth \in 1..Len(frames) /\ inner = frames[depth]
  BY <1>2, TopOfStack DEF inner, depth
<1>3. ASSUME calls # <<>> PROVE Last(calls) \in Call /\ Last(calls) = calls[Len(calls)]
  BY <1>3, TopOfStack
<1>4. ASSUME NEW id, Reject(id) PROVE TypeInv'
  BY <1>4, EmptySeq DEF Reject, NoEntries, StateMap, Mark
<1>5. ASSUME NEW s \in StateMap, NEW p \in Pointer, NEW reads, Exit(s, p, reads) PROVE TypeInv'
  BY <1>5 DEF Exit, Touch, DestroyFault, Faults
<1>6. CASE Expression
  <2>1. ASSUME NEW x \in Var, CheckUse(x) PROVE TypeInv'
    BY <2>1 DEF CheckUse, walkVars, Touch, Faults
  <2>2. ASSUME NEW x \in Var, Borrow(x) PROVE TypeInv'
    <3> DEFINE e == [Last(calls) EXCEPT !.lent = IF running THEN @ \cup {x} ELSE @]
    <3>1. calls # <<>> /\ calls' = [calls EXCEPT ![Len(calls)] = e]
      BY <1>3, <2>1, <2>2 DEF Borrow
    <3>2. e \in Call
      BY <1>3, <3>1 DEF Call
    <3>3. calls' \in Seq(Call)
      BY <3>1, <3>2, ReplaceTop
    <3> QED
      BY <2>2, <3>3 DEF Borrow, runVars
  <2>3. ASSUME NEW x \in Var, ConsumeVar(x) PROVE TypeInv'
    <3>1. state' \in StateMap
      BY <1>1, <2>3 DEF ConsumeVar
    <3>2. calls' \in Seq(Call)
      <4>1. CASE running /\ slot[x] # Null
        <5> DEFINE e == [Last(calls) EXCEPT !.args = @ \cup {slot[x]}]
        <5>1. calls # <<>> /\ calls' = [calls EXCEPT ![Len(calls)] = e]
          BY <1>3, <2>3, <4>1 DEF ConsumeVar
        <5>2. e \in Call
          BY <1>3, <4>1, <5>1 DEF Call
        <5> QED
          BY <5>1, <5>2, ReplaceTop
      <4> QED
        BY <2>3, <4>1 DEF ConsumeVar
    <3>3. fault' \in SUBSET Faults
      BY <2>3 DEF ConsumeVar, Faults
    <3> QED
      BY <2>3, <3>1, <3>2, <3>3 DEF ConsumeVar, AtExpr
  <2>4. ASSUME NEW B \in SUBSET Var, CallBegin(B) PROVE TypeInv'
    <3>1. calls' \in Seq(Call)
      BY <2>4, PushStack DEF CallBegin, Call
    <3> QED
      BY <2>4, <3>1 DEF CallBegin, runVars
  <2>5. ASSUME NEW own \in BOOLEAN, CallEnd(own) PROVE TypeInv'
    <3>1. calls # <<>> /\ calls' \in Seq(Call)
      BY <2>5, PopStack DEF CallEnd
    <3>2. Last(calls).args \subseteq Cell
      BY <1>3, <3>1 DEF Call
    <3>3. running /\ own => tmp' \in Cell
      BY <2>5, <3>2 DEF CallEnd, Fresh
    <3>4. tmp' \in Pointer /\ live' \in SUBSET Cell
      BY <2>5, <3>2, <3>3 DEF CallEnd
    <3>5. fault' \in SUBSET Faults
      BY <2>5 DEF CallEnd, Faults
    <3> QED
      BY <2>5, <3>1, <3>3, <3>4, <3>5 DEF CallEnd
  <2>6. CASE Alloc
    BY <2>6 DEF Alloc, Fresh
  <2>7. CASE PassTemp
    <3>1. calls' \in Seq(Call)
      <4>1. CASE running
        <5> DEFINE e == [Last(calls) EXCEPT !.args = @ \cup {tmp}]
        <5>1. calls # <<>> /\ calls' = [calls EXCEPT ![Len(calls)] = e]
          BY <1>3, <2>7, <4>1 DEF PassTemp
        <5>2. e \in Call
          BY <1>3, <2>7, <4>1, <5>1 DEF Call, PassTemp
        <5> QED
          BY <5>1, <5>2, ReplaceTop
      <4> QED
        BY <2>7, <4>1 DEF PassTemp
    <3> QED
      BY <2>7, <3>1 DEF PassTemp
  <2>8. ASSUME NEW use \in TempUses, UseTemp(use) PROVE TypeInv'
    BY <2>8 DEF UseTemp
  <2> QED
    BY <1>6, <2>1, <2>2, <2>3, <2>4, <2>5, <2>6, <2>7, <2>8 DEF Expression
<1>7. CASE Assignment
  <2>1. ASSUME NEW x \in Var, Bind(x) PROVE TypeInv'
    BY <2>1 DEF Bind, StateMap, Mark
  <2>2. ASSUME NEW x \in Var, NEW y \in Var, MoveAssign(x, y) PROVE TypeInv'
    BY <2>2 DEF MoveAssign, MoveOut, AtStmt, AtExpr, StateMap, Mark
  <2> QED
    BY <1>7, <2>1, <2>2 DEF Assignment
<1>8. CASE Branch
  <2>1. ASSUME NEW go \in BOOLEAN, IfThen(go) PROVE TypeInv'
    <3>1. frames' \in Seq(Frame) /\ depth' \in Nat
      BY <2>1, PushStack, LenProperties DEF IfThen, Frame, FrameKind, NoEntries, StateMap, Mark, depth
    <3> QED
      BY <2>1, <3>1 DEF IfThen, Stop, Stay, AtStmt, AtExpr
  <2>2. CASE IfElse
    <3> DEFINE e == [kind |-> "else", entry |-> inner.entry, thenEnd |-> state]
    <3>1. frames # <<>> /\ frames' = [frames EXCEPT ![Len(frames)] = e]
      BY <1>2, <2>2 DEF IfElse, innerKind, depth
    <3>2. e \in Frame /\ state' \in StateMap
      BY <1>2, <2>2, <3>1 DEF IfElse, Frame, FrameKind
    <3>3. frames' \in Seq(Frame) /\ depth' \in Nat
      BY <3>1, <3>2, ReplaceTop, LenProperties DEF depth
    <3> QED
      BY <2>2, <3>2, <3>3 DEF IfElse, Stop, Stay, Resume, AtStmt, AtExpr, NoEntries, StateMap, Mark
  <2>3. CASE IfEnd
    <3>1. frames # <<>>
      BY <2>3 DEF IfEnd, innerKind
    <3>2. OtherBranch \in StateMap
      BY <1>2, <3>1 DEF OtherBranch, Frame
    <3>3. state' \in StateMap
      BY <2>3, <3>2, JoinOfAgreeing DEF IfEnd
    <3>4. frames' \in Seq(Frame)
      BY <2>3, <3>1, PopStack DEF IfEnd
    <3> QED
      BY <2>3, <3>3, <3>4 DEF IfEnd, Stay, Resume, AtStmt, AtExpr, NoEntries, StateMap, Mark
  <2> QED
    BY <1>8, <2>1, <2>2, <2>3 DEF Branch
<1>9. CASE Loop
  <2>1. CASE WhileCond
    <3>1. frames' \in Seq(Frame)
      BY <2>1, PushStack DEF WhileCond, Frame, FrameKind, NoEntries, StateMap, Mark
    <3> QED
      BY <2>1, <3>1 DEF WhileCond, runVars
  <2>2. ASSUME NEW k \in FrameKind, frames # <<>>
        PROVE  [frames EXCEPT ![depth].kind = k] \in Seq(Frame)
    <3> DEFINE e == [inner EXCEPT !.kind = k]
    <3>1. e \in Frame
      BY <1>2, <2>2 DEF Frame
    <3>2. [frames EXCEPT ![depth].kind = k] = [frames EXCEPT ![Len(frames)] = e]
      BY <1>2, <2>2 DEF depth
    <3> QED
      BY <2>2, <3>1, <3>2, ReplaceTop
  <2>3. ASSUME NEW go \in BOOLEAN, WhileBody(go) PROVE TypeInv'
    <3>1. frames # <<>> /\ depth \in Nat
      BY <1>2, <2>3 DEF WhileBody, innerKind
    <3>2. frames' \in Seq(Frame) /\ inner.entry \in StateMap
      BY <1>2, <2>2, <2>3, <3>1 DEF WhileBody, FrameKind, Frame
    <3> QED
      BY <2>3, <3>1, <3>2 DEF WhileBody, Stay, AtExpr
  <2>4. CASE WhileEnd
    <3>1. frames # <<>>
      BY <2>4 DEF WhileEnd, innerKind
    <3>2. [frames EXCEPT ![depth].kind = "cond"] \in Seq(Frame) /\ Front(frames) \in Seq(Frame)
      BY <2>2, <3>1, PopStack DEF FrameKind
    <3>3. frames' \in Seq(Frame) /\ inner.entry \in StateMap
      BY <1>2, <2>4, <3>1, <3>2 DEF WhileEnd, Frame
    <3> QED
      BY <2>4, <3>3 DEF WhileEnd, Stay, Resume, AtStmt, AtExpr, NoEntries, StateMap, Mark
  <2> QED
    BY <1>9, <2>1, <2>3, <2>4 DEF Loop
<1>10. CASE Return
  <2>1. ASSUME NEW x \in Var, ReturnVar(x) PROVE TypeInv'
    BY <1>1, <1>5, <2>1 DEF ReturnVar
  <2>2. ASSUME NEW x \in Var, ReturnRead(x) PROVE TypeInv'
    BY <1>5, <2>2 DEF ReturnRead
  <2>3. CASE ReturnValue
    BY <1>5, <2>3 DEF ReturnValue
  <2> QED
    BY <1>10, <2>1, <2>2, <2>3 DEF Return
<1>11. CASE Rejection
  BY <1>4, <1>11 DEF Rejection, RejectUseAfterMove, RejectCallHeldBorrow,
       RejectAssignOverLive, RejectJoin, RejectLoopCondition, RejectLoopBody
<1>12. CASE UNCHANGED vars
  BY <1>12 DEF vars, walkVars, runVars
<1> QED
  BY <1>6, <1>7, <1>8, <1>9, <1>10, <1>11, <1>12 DEF Next, Done

(* Every state of every behaviour is well typed: stacks hold frames and    *)
(* calls, callees are handed cells and never the null pointer.             *)
THEOREM TypeCorrect == Spec => []TypeOK
<1>1. TypeInv => TypeOK
  BY DEF TypeInv
<1> QED
  BY <1>1, TypeInit, TypeStep, PTL DEF Spec

-----------------------------------------------------------------------------
(***************************************************************************)
(* Accepted code owns its heap linearly: with every rule enabled, for      *)
(* programs whose loops are entered with every variable assigned and that  *)
(* do not compare owned temporaries, the states of MoveAnalysis and the    *)
(* heap of the generated code agree at every point of every execution.     *)
(* The two restrictions are the ones the runs MoveLoopAny and MoveCompare  *)
(* show to be necessary.                                                   *)
(***************************************************************************)

(* The inductive invariant. SoleHolder alone is not inductive: it needs to *)
(* know where the run waits, and in which state the walk will return to it.*)

(* Where the run waits: at an enclosing statement, before a branch it does *)
(* not take, in the state that branch started from or the other one left.  *)
PathInv ==
  /\ frozen \in 0..Len(frames)
  /\ \A i \in 1..Len(frames) :
       frames[i].kind \in {"cond", "body"} => \A x \in Var : frames[i].entry[x] # "absent"
  /\ frozen # 0 =>
       /\ frames[frozen].kind # "cond"
       /\ home = IF frames[frozen].kind = "else" THEN frames[frozen].thenEnd
                                                 ELSE frames[frozen].entry

(* The pending temporary: one is computed before it is used, and none is   *)
(* while the run waits.                                                    *)
TempInv ==
  /\ ~val \/ ~running => tmp = Null
  /\ val /\ running => tmp \in live

(* What the variables hold at the point the run has reached.               *)
SlotInv ==
  /\ \A x \in Var : Track[x] = "Owned" => slot[x] \in live \cup {Null}
  /\ \A x \in Var : Track[x] = "absent" => slot[x] = Null
  /\ \A x, y \in Var :
       Track[x] = "Owned" /\ Track[y] = "Owned" /\ slot[x] = slot[y] /\ slot[x] # Null
         => x = y
  /\ \A x \in Var : Track[x] = "Owned" /\ slot[x] # Null => slot[x] # tmp

(* What the calls in progress were handed and lent.                        *)
CallInv ==
  /\ \A i \in 1..Len(calls) :
       /\ calls[i].args \subseteq live
       /\ tmp \notin calls[i].args
       /\ calls[i].lent \subseteq calls[i].held
       /\ \A x \in calls[i].lent : Track[x] # "Moved"
       /\ \A x \in Var : Track[x] = "Owned" => slot[x] \notin calls[i].args
       /\ ~running => calls[i].args = {} /\ calls[i].lent = {}
  /\ \A i, j \in 1..Len(calls) : i # j => calls[i].args \cap calls[j].args = {}

(* Nothing live is forgotten.                                              *)
HeldInv ==
  \A c \in live : \/ c = tmp
                  \/ \E x \in Var : Track[x] = "Owned" /\ slot[x] = c
                  \/ \E i \in 1..Len(calls) : c \in calls[i].args

(* Once the function has returned, or been rejected.                       *)
OverInv ==
  /\ calls = <<>> /\ frames = <<>> /\ frozen = 0 /\ ~val /\ tmp = Null
  /\ live = {returned} \ {Null}

IInv ==
  /\ TypeOK
  /\ fault = {}
  /\ phase = "walk" => returned = Null /\ PathInv /\ TempInv /\ SlotInv /\ CallInv /\ HeldInv
  /\ phase # "walk" => OverInv

(* The programs and the compiler the theorems are about.                   *)
Disciplined == DisabledRules = {} /\ LoopEntry # "any" /\ TempUses \subseteq {"deref"}

LEMMA IInvInit == Init => IInv
<1> SUFFICES ASSUME Init PROVE IInv
  OBVIOUS
<1>1. TypeOK
  BY TypeInit DEF TypeInv
<1>2. phase = "walk" /\ returned = Null /\ fault = {} /\ running /\ Track = state
  BY DEF Init, running, Track
<1>3. PathInv /\ TempInv /\ CallInv
  <2>1. Len(frames) = 0 /\ Len(calls) = 0
    BY EmptySeq, Zenon DEF Init
  <2>2. (\A i : i \notin 1..Len(frames) /\ i \notin 1..Len(calls)) /\ 0 \in 0..Len(frames)
    BY <2>1
  <2>3. frozen = 0 /\ ~val /\ tmp = Null
    BY DEF Init
  <2> QED
    BY <1>2, <2>2, <2>3 DEF PathInv, TempInv, CallInv
<1>4. \A x \in Var : (state[x] = "Owned" <=> slot[x] # Null) /\ (state[x] = "absent" <=> slot[x] = Null)
  BY DEF Init
<1>5. SlotInv
  BY <1>2, <1>4 DEF SlotInv, Init, OwnedIn
<1>6. HeldInv
  BY <1>2 DEF HeldInv, Init, OwnedIn
<1> QED
  BY <1>1, <1>2, <1>3, <1>5, <1>6 DEF IInv

(* IInv while the function is walked, but for the type invariant.          *)
WalkInv == PathInv /\ TempInv /\ SlotInv /\ CallInv /\ HeldInv

LEMMA TypeKept == IInv /\ [Next]_vars => TypeOK'
<1>1. IInv => TypeInv
  BY DEF IInv, TypeInv, TypeOK, TempInv
<1> QED
  BY <1>1, TypeStep DEF TypeInv

(* Expressions: what they read is alive, what they hand over is theirs.    *)
LEMMA ExpressionStep ==
  ASSUME Disciplined, IInv, Expression
  PROVE  IInv'
<1>1. TypeOK /\ TypeOK'
  BY TypeKept DEF Next, IInv
<1>2. phase = "walk" /\ frames' = frames /\ frozen' = frozen /\ home' = home
      /\ slot' = slot /\ phase' = phase /\ returned' = returned
  BY DEF Expression, CheckUse, Borrow, ConsumeVar, CallBegin, CallEnd, Alloc, PassTemp,
         UseTemp, AtExpr, walkVars, runVars
<1>3. WalkInv /\ returned = Null /\ fault = {}
  BY <1>2 DEF IInv, WalkInv
<1>4. PathInv'
  BY <1>2, <1>3 DEF PathInv, WalkInv
<1>5. ASSUME fault' = {}, TempInv', SlotInv', CallInv', HeldInv' PROVE IInv'
  BY <1>1, <1>2, <1>3, <1>4, <1>5 DEF IInv
<1>6. Null \notin live /\ live \subseteq Cell /\ Len(calls) \in Nat
  BY <1>1, NullAssumption, LenProperties DEF TypeOK
<1>7. \A x \in Var : state[x] \in Mark
  BY <1>1 DEF TypeOK, StateMap
<1>8. running' = running
  BY <1>2 DEF running
<1>9. ASSUME NEW x \in Var, running, Usable(x)
      PROVE  /\ slot[x] \in live \cup {Null}
             /\ slot[x] # Null => state[x] = "Owned"
  BY <1>3, <1>7, <1>9 DEF WalkInv, SlotInv, Usable, Disciplined, Enabled, Track, Mark
<1>10. ASSUME NEW x \in Var, CheckUse(x) PROVE IInv'
  <2>1. running => ~Dead(slot[x])
    BY <1>6, <1>9, <1>10, NullAssumption DEF CheckUse, Dead
  <2>2. fault' = {}
    BY <1>3, <1>10, <2>1 DEF CheckUse, Touch
  <2>3. Track' = Track /\ live' = live /\ tmp' = tmp /\ calls' = calls /\ val' = val
    BY <1>10 DEF CheckUse, walkVars, Track, running
  <2> QED
    BY <1>2, <1>3, <1>5, <1>8, <2>2, <2>3 DEF WalkInv, TempInv, SlotInv, CallInv, HeldInv
<1>11. CASE Alloc
  <2>1. fault' = {} /\ Track' = Track /\ calls' = calls /\ val' = TRUE /\ tmp = Null
    BY <1>3, <1>8, <1>11 DEF Alloc, Track, running, AtExpr, WalkInv, TempInv
  <2>2. CASE ~running
    <3>1. live' = live /\ tmp' = tmp
      BY <1>11, <2>2 DEF Alloc
    <3> QED
      BY <1>2, <1>3, <1>5, <1>8, <2>1, <2>2, <3>1 DEF WalkInv, TempInv, SlotInv, CallInv, HeldInv
  <2>3. CASE running
    <3>1. PICK c \in Fresh : live' = live \cup {c} /\ tmp' = c
      BY <1>11, <2>3 DEF Alloc
    <3>2. c \notin live /\ \A x \in Var : slot[x] # c
      BY <3>1 DEF Fresh, Named
    <3>3. TempInv'
      BY <1>8, <2>1, <2>3, <3>1 DEF TempInv
    <3>4. SlotInv'
      BY <1>2, <1>3, <2>1, <3>1, <3>2 DEF WalkInv, SlotInv
    <3>5. CallInv'
      BY <1>2, <1>3, <1>8, <2>1, <3>1, <3>2 DEF WalkInv, CallInv
    <3>6. HeldInv'
      BY <1>2, <1>3, <1>6, <2>1, <3>1 DEF WalkInv, HeldInv
    <3> QED
      BY <1>5, <2>1, <3>3, <3>4, <3>5, <3>6
  <2> QED
    BY <2>2, <2>3
<1>12. ASSUME NEW B \in SUBSET Var, CallBegin(B) PROVE IInv'
  <2> DEFINE e == [held |-> B, lent |-> {}, args |-> {}]
  <2>1. fault' = {} /\ Track' = Track /\ val' = val /\ live' = live /\ tmp' = tmp
    BY <1>3, <1>12 DEF CallBegin, runVars, Track, running
  <2>2. /\ Len(calls') = Len(calls) + 1
        /\ \A i \in 1..Len(calls) : calls'[i] = calls[i]
        /\ calls'[Len(calls) + 1] = e
    <3>1. calls' = Append(calls, e) /\ e \in Call /\ calls \in Seq(Call)
      BY <1>1, <1>12 DEF CallBegin, Call, TypeOK
    <3> QED
      BY <3>1, PushStack
  <2>3. TempInv' /\ SlotInv'
    BY <1>2, <1>3, <1>8, <2>1 DEF WalkInv, TempInv, SlotInv
  <2>4. \A i \in 1..Len(calls') : i \in 1..Len(calls) \/ calls'[i] = e
    BY <1>6, <2>2
  <2>5. CallInv'
    BY <1>2, <1>3, <1>8, <2>1, <2>2, <2>4 DEF WalkInv, CallInv
  <2>6. \A i \in 1..Len(calls) : i \in 1..Len(calls')
    BY <1>6, <2>2
  <2>7. HeldInv'
    BY <1>2, <1>3, <2>1, <2>2, <2>6 DEF WalkInv, HeldInv
  <2> QED
    BY <1>5, <2>1, <2>3, <2>5, <2>7
(* The actuals change the innermost call only.                             *)
<1>13. ASSUME NEW e \in Call, calls # <<>>, calls' = [calls EXCEPT ![Len(calls)] = e]
       PROVE  /\ Len(calls') = Len(calls)
              /\ \A i \in 1..Len(calls) : calls'[i] = IF i = Len(calls) THEN e ELSE calls[i]
              /\ Len(calls) \in 1..Len(calls)
              /\ Last(calls) = calls[Len(calls)]
              /\ calls[Len(calls)] \in Call
  <2>1. calls \in Seq(Call)
    BY <1>1 DEF TypeOK
  <2> QED
    BY <1>6, <1>13, <2>1, ReplaceTop, TopOfStack
<1>14. ASSUME NEW x \in Var, Borrow(x) PROVE IInv'
  <2> DEFINE old == calls[Len(calls)]
             e == [old EXCEPT !.lent = IF running THEN @ \cup {x} ELSE @]
  <2>1. fault' = {} /\ Track' = Track /\ val' = val /\ live' = live /\ tmp' = tmp
    BY <1>3, <1>14 DEF Borrow, runVars, Track, running
  <2>2. calls # <<>> /\ calls' = [calls EXCEPT ![Len(calls)] = e] /\ calls \in Seq(Call)
    BY <1>1, <1>14 DEF Borrow, TypeOK
  <2>3. old \in Call /\ Last(calls) = old
    BY <2>2, TopOfStack
  <2>4. e \in Call /\ e.held = old.held /\ e.args = old.args
        /\ e.lent = IF running THEN old.lent \cup {x} ELSE old.lent
    BY <2>3 DEF Call
  <2>5. /\ Len(calls') = Len(calls)
        /\ Len(calls) \in 1..Len(calls)
        /\ \A i \in 1..Len(calls) : calls'[i] = IF i = Len(calls) THEN e ELSE calls[i]
    BY <1>13, <2>2, <2>4
  <2>6. \A i \in 1..Len(calls) : calls'[i].args = calls[i].args
    BY <2>4, <2>5
  <2>7. x \in old.held /\ state[x] # "Moved"
    BY <1>14, <2>3 DEF Borrow, Usable, Disciplined, Enabled
  <2>8. \A i \in 1..Len(calls) :
          /\ calls'[i].held = calls[i].held
          /\ calls'[i].lent \subseteq calls[i].lent \cup (IF running /\ i = Len(calls) THEN {x} ELSE {})
    BY <2>4, <2>5
  <2>9. running => Track[x] # "Moved"
    BY <2>7 DEF Track
  <2>10. \A i \in 1..Len(calls) :
           /\ calls'[i].lent \subseteq calls'[i].held
           /\ \A y \in calls'[i].lent : Track[y] # "Moved"
           /\ ~running => calls'[i].lent = {}
    BY <1>3, <2>5, <2>7, <2>8, <2>9 DEF WalkInv, CallInv
  <2>11. TempInv' /\ SlotInv'
    BY <1>2, <1>3, <1>8, <2>1 DEF WalkInv, TempInv, SlotInv
  <2>12. CallInv'
    BY <1>2, <1>3, <1>8, <2>1, <2>5, <2>6, <2>10 DEF WalkInv, CallInv
  <2>13. HeldInv'
    BY <1>2, <1>3, <2>1, <2>5, <2>6 DEF WalkInv, HeldInv
  <2> QED
    BY <1>5, <2>1, <2>11, <2>12, <2>13
<1>15. ASSUME NEW x \in Var, ConsumeVar(x) PROVE IInv'
  <2> DEFINE old == calls[Len(calls)]
  <2>1. /\ calls # <<>> /\ state' = [state EXCEPT ![x] = "Moved"] /\ tmp' = tmp
        /\ live' = live /\ val' = val /\ Usable(x) /\ calls \in Seq(Call)
    BY <1>1, <1>15 DEF ConsumeVar, Consumable, TypeOK
  <2>2. TempInv'
    BY <1>3, <1>8, <2>1 DEF WalkInv, TempInv
  <2>3. CASE ~running
    <3>1. Track' = Track /\ calls' = calls /\ fault' = {}
      BY <1>2, <1>3, <1>15, <2>3 DEF ConsumeVar, Track, running
    <3> QED
      BY <1>2, <1>3, <1>5, <1>8, <2>1, <2>2, <3>1 DEF WalkInv, SlotInv, CallInv, HeldInv
  <2>4. CASE running
    <3>1. Track = state /\ Track' = state'
      BY <1>8, <2>4 DEF Track
    <3>2. /\ state'[x] = "Moved"
          /\ \A y \in Var : y # x => state'[y] = state[y]
      BY <1>1, <2>1 DEF TypeOK, StateMap
    <3>3. \A i \in 1..Len(calls) : x \notin calls[i].held
      BY <1>15, <2>1, LenProperties DEF ConsumeVar, Consumable, HeldBorrowed, Disciplined, Enabled
    <3>4. \A i \in 1..Len(calls) : \A y \in calls[i].lent : state'[y] # "Moved"
      BY <1>1, <1>3, <2>1, <3>1, <3>2, <3>3, ElementOfSeq DEF WalkInv, CallInv, Call
    <3>5. SlotInv'
      BY <1>2, <1>3, <2>1, <3>1, <3>2 DEF WalkInv, SlotInv
    <3>6. CASE slot[x] = Null
      <4>1. calls' = calls /\ fault' = {}
        BY <1>3, <1>15, <3>6 DEF ConsumeVar
      <4>2. CallInv'
        BY <1>2, <1>3, <1>8, <2>1, <2>4, <3>1, <3>2, <3>4, <4>1 DEF WalkInv, CallInv
      <4>3. HeldInv'
        BY <1>2, <1>3, <1>6, <2>1, <3>1, <3>2, <3>6, <4>1 DEF WalkInv, HeldInv
      <4> QED
        BY <1>5, <2>2, <3>5, <4>1, <4>2, <4>3
    <3>7. CASE slot[x] # Null
      <4> DEFINE e == [old EXCEPT !.args = @ \cup {slot[x]}]
      <4>1. slot[x] \in live /\ state[x] = "Owned"
        BY <1>9, <2>1, <2>4, <3>7
      <4>2. calls' = [calls EXCEPT ![Len(calls)] = e]
        BY <1>15, <2>1, <2>4, <3>7, TopOfStack DEF ConsumeVar
      <4>3. old \in Call
        BY <2>1, TopOfStack
      <4>4. e \in Call /\ e.held = old.held /\ e.lent = old.lent /\ e.args = old.args \cup {slot[x]}
        BY <1>6, <4>1, <4>3 DEF Call
      <4>5. /\ Len(calls') = Len(calls)
            /\ Len(calls) \in 1..Len(calls)
            /\ \A i \in 1..Len(calls) : calls'[i] = IF i = Len(calls) THEN e ELSE calls[i]
        BY <1>13, <2>1, <4>2, <4>4
      <4>6. \A i \in 1..Len(calls) : slot[x] \notin calls[i].args
        BY <1>3, <3>1, <4>1 DEF WalkInv, CallInv
      <4>7. fault' = {}
        BY <1>3, <1>6, <1>15, <2>1, <2>4, <3>7, <4>1, <4>6, LenProperties DEF ConsumeVar, Dead
      <4>8. \A i \in 1..Len(calls) :
              /\ calls'[i].held = calls[i].held
              /\ calls'[i].lent = calls[i].lent
              /\ calls'[i].args = IF i = Len(calls) THEN calls[i].args \cup {slot[x]} ELSE calls[i].args
        BY <4>4, <4>5
      <4>9. CallInv'
        <5>1. slot[x] # tmp
          BY <1>3, <3>1, <3>7, <4>1 DEF WalkInv, SlotInv
        <5>2. \A y \in Var : state'[y] = "Owned" => slot[y] # slot[x]
          BY <1>3, <3>1, <3>2, <3>7, <4>1 DEF WalkInv, SlotInv
        <5>3. \A i \in 1..Len(calls) : /\ calls'[i].args \subseteq live
                                       /\ tmp \notin calls'[i].args
                                       /\ \A y \in Var : state'[y] = "Owned" => slot[y] \notin calls'[i].args
          <6>1. \A i \in 1..Len(calls) : calls'[i].args \subseteq calls[i].args \cup {slot[x]}
            BY <4>8
          <6>2. \A i \in 1..Len(calls) : /\ calls[i].args \subseteq live
                                         /\ tmp \notin calls[i].args
                                         /\ \A y \in Var : state[y] = "Owned" => slot[y] \notin calls[i].args
            BY <1>3, <3>1 DEF WalkInv, CallInv
          <6>3. \A y \in Var : state'[y] = "Owned" => state[y] = "Owned"
            BY <3>2
          <6> QED
            BY <4>1, <5>1, <5>2, <6>1, <6>2, <6>3
        <5>4. \A i, j \in 1..Len(calls) : i # j => calls'[i].args \cap calls'[j].args = {}
          <6>1. \A i, j \in 1..Len(calls) : i # j => calls[i].args \cap calls[j].args = {}
            BY <1>3 DEF WalkInv, CallInv
          <6>2. \A i \in 1..Len(calls) : i # Len(calls) => calls'[i].args = calls[i].args
            BY <4>8
          <6>3. calls'[Len(calls)].args = calls[Len(calls)].args \cup {slot[x]}
            BY <4>5, <4>8
          <6>4. ASSUME NEW i \in 1..Len(calls), i # Len(calls)
                PROVE  calls'[i].args \cap calls'[Len(calls)].args = {}
            BY <4>5, <4>6, <6>1, <6>2, <6>3, <6>4
          <6> QED
            BY <6>1, <6>2, <6>4
        <5>5. \A i \in 1..Len(calls) : /\ calls'[i].lent \subseteq calls'[i].held
                                       /\ \A y \in calls'[i].lent : state'[y] # "Moved"
          BY <1>3, <3>4, <4>8 DEF WalkInv, CallInv
        <5> QED
          BY <1>2, <1>8, <2>1, <2>4, <3>1, <4>5, <5>3, <5>4, <5>5 DEF CallInv
      <4>10. HeldInv'
        <5>1. slot[x] \in calls'[Len(calls)].args
          BY <4>5, <4>8
        <5>2. ASSUME NEW c \in live, NEW y \in Var, state[y] = "Owned", slot[y] = c
              PROVE  (y # x /\ state'[y] = "Owned") \/ c \in calls'[Len(calls)].args
          BY <3>2, <5>1, <5>2
        <5> QED
          BY <1>2, <1>3, <2>1, <3>1, <4>5, <4>8, <5>2 DEF WalkInv, HeldInv
      <4> QED
        BY <1>5, <2>2, <3>5, <4>7, <4>9, <4>10
    <3> QED
      BY <3>6, <3>7
  <2> QED
    BY <2>3, <2>4
<1>16. CASE PassTemp
  <2> DEFINE old == calls[Len(calls)]
             e == [old EXCEPT !.args = @ \cup {tmp}]
  <2>1. /\ calls # <<>> /\ val /\ ~val' /\ tmp' = Null /\ live' = live /\ fault' = {}
        /\ Track' = Track /\ calls \in Seq(Call)
    BY <1>1, <1>3, <1>16 DEF PassTemp, TypeOK, Track, running
  <2>2. TempInv' /\ SlotInv'
    BY <1>2, <1>3, <2>1 DEF WalkInv, TempInv, SlotInv
  <2>3. \A i \in 1..Len(calls) : Null \notin calls[i].args
    BY <1>3, <1>6 DEF WalkInv, CallInv
  <2>4. CASE ~running
    <3>1. calls' = calls /\ tmp = Null
      BY <1>3, <1>16, <2>4 DEF PassTemp, WalkInv, TempInv
    <3> QED
      BY <1>2, <1>3, <1>5, <1>8, <2>1, <2>2, <3>1 DEF WalkInv, CallInv, HeldInv
  <2>5. CASE running
    <3>1. tmp \in live
      BY <1>3, <2>1, <2>5 DEF WalkInv, TempInv
    <3>2. calls' = [calls EXCEPT ![Len(calls)] = e]
      BY <1>16, <2>1, <2>5, TopOfStack DEF PassTemp
    <3>3. old \in Call
      BY <2>1, TopOfStack
    <3>4. e \in Call /\ e.held = old.held /\ e.lent = old.lent /\ e.args = old.args \cup {tmp}
      BY <1>6, <3>1, <3>3 DEF Call
    <3>5. /\ Len(calls') = Len(calls)
          /\ Len(calls) \in 1..Len(calls)
          /\ \A i \in 1..Len(calls) : calls'[i] = IF i = Len(calls) THEN e ELSE calls[i]
      BY <1>13, <2>1, <3>2, <3>4
    <3>6. \A i \in 1..Len(calls) :
            /\ calls'[i].held = calls[i].held
            /\ calls'[i].lent = calls[i].lent
            /\ calls'[i].args = IF i = Len(calls) THEN calls[i].args \cup {tmp} ELSE calls[i].args
      BY <3>4, <3>5
    <3>7. \A y \in Var : Track[y] = "Owned" => slot[y] # tmp
      BY <1>3, <1>6, <3>1 DEF WalkInv, SlotInv
    <3>8. \A i \in 1..Len(calls) :
            /\ calls'[i].args \subseteq live
            /\ Null \notin calls'[i].args
            /\ \A y \in Var : Track[y] = "Owned" => slot[y] \notin calls'[i].args
      <4>1. \A i \in 1..Len(calls) : calls'[i].args \subseteq calls[i].args \cup {tmp}
        BY <3>6
      <4>2. \A i \in 1..Len(calls) :
              /\ calls[i].args \subseteq live
              /\ \A y \in Var : Track[y] = "Owned" => slot[y] \notin calls[i].args
        BY <1>3 DEF WalkInv, CallInv
      <4> QED
        BY <1>6, <2>3, <3>1, <3>7, <4>1, <4>2
    <3>9. \A i, j \in 1..Len(calls) : i # j => calls'[i].args \cap calls'[j].args = {}
      BY <1>3, <3>6 DEF WalkInv, CallInv
    <3>10. \A i \in 1..Len(calls) : /\ calls'[i].lent \subseteq calls'[i].held
                                    /\ \A y \in calls'[i].lent : Track[y] # "Moved"
      BY <1>3, <3>6 DEF WalkInv, CallInv
    <3>11. CallInv'
      BY <1>2, <1>8, <2>1, <2>5, <3>5, <3>8, <3>9, <3>10 DEF CallInv
    <3>12. HeldInv'
      <4>1. tmp \in calls'[Len(calls)].args
        BY <3>5, <3>6
      <4> QED
        BY <1>2, <1>3, <2>1, <3>5, <3>6, <4>1 DEF WalkInv, HeldInv
    <3> QED
      BY <1>5, <2>1, <2>2, <3>11, <3>12
  <2> QED
    BY <2>4, <2>5
<1>17. ASSUME NEW own \in BOOLEAN, CallEnd(own) PROVE IInv'
  <2> DEFINE n == Len(calls)
             args == calls[n].args
  <2>1. /\ calls # <<>> /\ ~val /\ val' = own /\ calls' = Front(calls)
        /\ Track' = Track /\ calls \in Seq(Call) /\ tmp = Null
    BY <1>1, <1>3, <1>17 DEF CallEnd, TypeOK, Track, running, AtExpr, WalkInv, TempInv
  <2>2. n \in Nat \ {0} /\ n \in 1..n /\ Last(calls) = calls[n]
    BY <2>1, TopOfStack
  <2>3. Len(calls') = n - 1 /\ \A i \in 1..(n - 1) : calls'[i] = calls[i] /\ i \in 1..n /\ i # n
    BY <2>1, <2>2, PopStack
  <2>4. CASE ~running
    <3>1. live' = live /\ tmp' = tmp /\ fault' = {} /\ args = {}
      BY <1>3, <1>17, <2>2, <2>4 DEF CallEnd, WalkInv, CallInv
    <3>2. TempInv' /\ SlotInv'
      BY <1>2, <1>3, <1>8, <2>1, <2>4, <3>1 DEF WalkInv, TempInv, SlotInv
    <3>3. CallInv'
      BY <1>2, <1>3, <1>8, <2>1, <2>3, <3>1 DEF WalkInv, CallInv
    <3>4. \A i \in 1..n : i = n \/ i \in 1..(n - 1)
      BY <2>2
    <3>5. HeldInv'
      BY <1>2, <1>3, <2>1, <2>3, <3>1, <3>4 DEF WalkInv, HeldInv
    <3> QED
      BY <1>5, <3>1, <3>2, <3>3, <3>5
  <2>5. CASE running
    <3>1. /\ IF own THEN tmp' \in args \cup Fresh ELSE tmp' = tmp
          /\ live' = (live \ args) \cup (IF own THEN {tmp'} ELSE {})
          /\ fault' = fault \cup IF \E x \in calls[n].lent : slot[x] \in Cell \ live'
                                   THEN {"use-after-free"} ELSE {}
      BY <1>17, <2>2, <2>5 DEF CallEnd
    <3>2. own => /\ tmp' # Null
                 /\ \A x \in Var : Track[x] = "Owned" => slot[x] # tmp'
                 /\ \A i \in 1..(n - 1) : tmp' \notin calls[i].args
      <4>1. ASSUME own, tmp' \in args
            PROVE  /\ \A x \in Var : Track[x] = "Owned" => slot[x] # tmp'
                   /\ \A i \in 1..(n - 1) : tmp' \notin calls[i].args
        BY <1>3, <2>2, <2>3, <4>1 DEF WalkInv, CallInv
      <4>2. ASSUME own, tmp' \in Fresh
            PROVE  /\ \A x \in Var : Track[x] = "Owned" => slot[x] # tmp'
                   /\ \A i \in 1..(n - 1) : tmp' \notin calls[i].args
        BY <1>3, <2>2, <2>3, <4>2 DEF Fresh, Named, WalkInv, CallInv
      <4>3. \A c \in args \cup Fresh : c # Null
        BY <1>3, <1>6, <2>2, NullAssumption DEF Fresh, WalkInv, CallInv
      <4> QED
        BY <3>1, <4>1, <4>2, <4>3
    <3>3. \A x \in Var : Track[x] = "Owned" => slot[x] \notin args
      BY <1>3, <2>2 DEF WalkInv, CallInv
    <3>4. ~own => tmp' = Null
      BY <2>1, <3>1
    <3>5. fault' = {}
      <4>1. \A x \in calls[n].lent : x \in Var /\ Track[x] # "Moved"
        <5>1. calls[n] \in Call
          BY <2>1, <2>2, TopOfStack
        <5> QED
          BY <1>3, <2>2, <5>1 DEF WalkInv, CallInv, Call
      <4>2. \A x \in calls[n].lent : slot[x] \in live' \cup {Null}
        <5> TAKE x \in calls[n].lent
        <5>1. Track[x] = "Owned" \/ slot[x] = Null
          BY <1>3, <1>7, <2>5, <4>1 DEF WalkInv, SlotInv, Track, Mark
        <5> QED
          BY <1>3, <3>1, <3>3, <4>1, <5>1 DEF WalkInv, SlotInv
      <4> QED
        BY <1>3, <3>1, <4>2, NullAssumption
    <3>6. TempInv'
      BY <1>8, <2>1, <2>5, <3>1, <3>4 DEF TempInv
    <3>7. SlotInv'
      BY <1>2, <1>3, <2>1, <3>1, <3>2, <3>3, <3>4 DEF WalkInv, SlotInv
    <3>8. CallInv'
      <4>1. \A i \in 1..(n - 1) : calls[i].args \subseteq live'
        BY <1>3, <2>2, <2>3, <3>1 DEF WalkInv, CallInv
      <4>2. \A i \in 1..(n - 1) : Null \notin calls[i].args
        BY <1>3, <1>6, <2>3 DEF WalkInv, CallInv
      <4>3. \A i \in 1..(n - 1) : tmp' \notin calls[i].args
        BY <3>2, <3>4, <4>2
      <4> QED
        BY <1>2, <1>3, <1>8, <2>1, <2>3, <2>5, <4>1, <4>3 DEF WalkInv, CallInv
    <3>9. HeldInv'
      <4>1. \A i \in 1..n : i = n \/ i \in 1..(n - 1)
        BY <2>2
      <4>2. \A c \in live' : c = tmp' \/ (c \in live /\ c \notin args)
        BY <3>1
      <4> QED
        BY <1>2, <1>3, <1>6, <2>1, <2>3, <4>1, <4>2 DEF WalkInv, HeldInv
    <3> QED
      BY <1>5, <3>5, <3>6, <3>7, <3>8, <3>9
  <2> QED
    BY <2>4, <2>5
<1>18. ASSUME NEW use \in TempUses, UseTemp(use) PROVE IInv'
  <2>1. /\ ~val' /\ tmp' = Null /\ live' = live \ {tmp} /\ fault' = {}
        /\ Track' = Track /\ calls' = calls
    BY <1>3, <1>18 DEF UseTemp, TempFreed, Track, running, Disciplined, Enabled
  <2>2. TempInv' /\ SlotInv'
    BY <1>2, <1>3, <2>1 DEF WalkInv, TempInv, SlotInv
  <2>3. CallInv'
    BY <1>2, <1>3, <1>6, <1>8, <2>1 DEF WalkInv, CallInv
  <2>4. HeldInv'
    BY <1>2, <1>3, <2>1 DEF WalkInv, HeldInv
  <2> QED
    BY <1>5, <2>1, <2>2, <2>3, <2>4
<1> QED
  BY <1>10, <1>11, <1>12, <1>14, <1>15, <1>16, <1>17, <1>18 DEF Expression

(* What every statement but return leaves alone, and what it starts from.  *)
LEMMA StatementFacts ==
  ASSUME IInv, phase = "walk"
  PROVE  /\ TypeOK /\ WalkInv /\ returned = Null /\ fault = {}
         /\ Null \notin live
         /\ \A x \in Var : state[x] \in Mark
         /\ frames # <<>> => /\ depth \in 1..Len(frames) /\ depth \in Nat \ {0}
                             /\ inner = frames[depth] /\ inner \in Frame
         /\ calls = <<>> => \A i : i \notin 1..Len(calls)
<1>1. TypeOK /\ WalkInv /\ returned = Null /\ fault = {}
  BY DEF IInv, WalkInv
<1>2. Null \notin live /\ \A x \in Var : state[x] \in Mark
  BY <1>1, NullAssumption DEF TypeOK, StateMap
<1>3. frames # <<>> => /\ depth \in 1..Len(frames) /\ depth \in Nat \ {0}
                       /\ inner = frames[depth] /\ inner \in Frame
  BY <1>1, TopOfStack DEF TypeOK, depth, inner
<1>4. ASSUME calls = <<>> PROVE \A i : i \notin 1..Len(calls)
  <2>1. Len(calls) = 0
    BY <1>4, EmptySeq, Zenon
  <2> QED
    BY <2>1
<1> QED
  BY <1>1, <1>2, <1>3, <1>4

(* Assignments: the store transfers the only owner of what it stores.      *)
LEMMA AssignmentStep ==
  ASSUME Disciplined, IInv, Assignment
  PROVE  IInv'
<1>1. TypeOK'
  BY TypeKept DEF Next
<1>2. phase = "walk" /\ frames' = frames /\ frozen' = frozen /\ home' = home /\ live' = live
      /\ calls = <<>> /\ calls' = calls /\ phase' = phase /\ returned' = returned
      /\ fault' = fault /\ ~val' /\ running' = running
  BY DEF Assignment, Bind, MoveAssign, AtStmt, AtExpr, ValueForStmt, running
<1>3. /\ TypeOK /\ WalkInv /\ returned = Null /\ fault = {} /\ Null \notin live
      /\ \A x \in Var : state[x] \in Mark
      /\ \A i : i \notin 1..Len(calls)
  BY <1>2, StatementFacts
<1>4. PathInv' /\ CallInv'
  BY <1>2, <1>3 DEF PathInv, CallInv, WalkInv
<1>5. ASSUME TempInv', SlotInv', HeldInv' PROVE IInv'
  BY <1>1, <1>2, <1>3, <1>4, <1>5 DEF IInv
<1>6. ASSUME ~running, slot' = slot, tmp' = Null PROVE IInv'
  <2>1. Track' = Track /\ tmp = Null
    BY <1>2, <1>3, <1>6 DEF Track, WalkInv, TempInv
  <2> QED
    BY <1>2, <1>3, <1>5, <1>6, <2>1 DEF WalkInv, TempInv, SlotInv, HeldInv
<1>7. ASSUME running PROVE Track = state /\ Track' = state'
  BY <1>2, <1>7 DEF Track
<1>8. ASSUME NEW x \in Var, Bind(x) PROVE IInv'
  <2>1. /\ val /\ tmp' = Null /\ state[x] # "Owned" /\ state' = [state EXCEPT ![x] = "Owned"]
        /\ slot' = IF running THEN [slot EXCEPT ![x] = tmp] ELSE slot
    BY <1>8 DEF Bind, ValueForStmt, Assignable, Disciplined, Enabled
  <2>2. CASE running
    <3>1. /\ state'[x] = "Owned" /\ slot'[x] = tmp
          /\ \A y \in Var : y # x => state'[y] = state[y] /\ slot'[y] = slot[y]
      BY <1>3, <2>1, <2>2 DEF TypeOK, StateMap
    <3>2. tmp \in live
      BY <1>3, <2>1, <2>2 DEF WalkInv, TempInv
    <3>3. TempInv'
      BY <1>2, <2>1 DEF TempInv
    <3>4. \A y \in Var : y # x /\ state'[y] = "Owned" => state[y] = "Owned" /\ slot'[y] # tmp
      BY <1>3, <1>7, <2>2, <3>1, <3>2 DEF WalkInv, SlotInv
    <3>5. SlotInv'
      <4>1. \A y \in Var : state'[y] = "Owned" => slot'[y] \in live \cup {Null}
        BY <1>3, <1>7, <2>2, <3>1, <3>2, <3>4 DEF WalkInv, SlotInv
      <4>2. \A y \in Var : state'[y] = "absent" => slot'[y] = Null
        BY <1>3, <1>7, <2>2, <3>1 DEF WalkInv, SlotInv
      <4>3. \A y, z \in Var : state'[y] = "Owned" /\ state'[z] = "Owned"
                              /\ slot'[y] = slot'[z] /\ slot'[y] # Null => y = z
        <5> TAKE y, z \in Var
        <5> HAVE state'[y] = "Owned" /\ state'[z] = "Owned" /\ slot'[y] = slot'[z] /\ slot'[y] # Null
        <5>1. CASE y = x \/ z = x
          BY <3>1, <3>4, <5>1
        <5>2. CASE y # x /\ z # x
          BY <1>3, <1>7, <2>2, <3>1, <3>4, <5>2 DEF WalkInv, SlotInv
        <5> QED
          BY <5>1, <5>2
      <4> QED
        BY <1>2, <1>7, <2>1, <2>2, <4>1, <4>2, <4>3 DEF SlotInv
    <3>6. HeldInv'
      <4>1. ASSUME NEW c \in live
            PROVE  \E y \in Var : state'[y] = "Owned" /\ slot'[y] = c
        <5>1. CASE c = tmp
          BY <3>1, <5>1
        <5>2. CASE c # tmp
          <6>1. PICK y \in Var : state[y] = "Owned" /\ slot[y] = c
            BY <1>3, <1>7, <2>2, <5>2 DEF WalkInv, HeldInv
          <6> QED
            BY <2>1, <3>1, <6>1
        <5> QED
          BY <5>1, <5>2
      <4> QED
        BY <1>2, <1>7, <2>2, <4>1 DEF HeldInv
    <3> QED
      BY <1>5, <3>3, <3>5, <3>6
  <2> QED
    BY <1>6, <2>1, <2>2
<1>9. ASSUME NEW x \in Var, NEW y \in Var, MoveAssign(x, y) PROVE IInv'
  <2>1. /\ ~val /\ tmp' = tmp /\ tmp = Null
        /\ state[y] # "Moved" /\ MoveOut(y)[x] # "Owned"
        /\ state' = [MoveOut(y) EXCEPT ![x] = "Owned"]
        /\ slot' = IF running THEN [slot EXCEPT ![x] = slot[y]] ELSE slot
    BY <1>3, <1>9 DEF MoveAssign, AtStmt, AtExpr, Usable, Assignable, Disciplined, Enabled,
                      WalkInv, TempInv
  <2>2. CASE running
    <3>1. /\ state'[x] = "Owned" /\ slot'[x] = slot[y]
          /\ x # y => state'[y] = "Moved" /\ state[x] # "Owned"
          /\ \A z \in Var \ {x} : slot'[z] = slot[z]
          /\ \A z \in Var \ {x, y} : state'[z] = state[z]
      BY <1>3, <2>1, <2>2 DEF MoveOut, TypeOK, StateMap
    <3>2. state[y] \in {"Owned", "absent"}
      BY <1>3, <2>1 DEF Mark
    <3>3. TempInv'
      BY <1>2, <2>1 DEF TempInv
    <3>4. SlotInv'
      <4>1. state[y] = "absent" => slot[y] = Null
        BY <1>3, <1>7, <2>2 DEF WalkInv, SlotInv
      <4>2. slot[y] \in live \cup {Null}
        BY <1>3, <1>7, <2>2, <3>2, <4>1 DEF WalkInv, SlotInv
      <4>3. \A z \in Var : state'[z] = "Owned" => z = x \/ (z # y /\ state[z] = "Owned")
        BY <3>1
      <4>4. \A z \in Var : z # y /\ state[z] = "Owned" /\ slot[z] = slot[y] => slot[y] = Null
        BY <1>3, <1>7, <2>2, <3>2, <4>1 DEF WalkInv, SlotInv
      <4>5. \A z \in Var : state'[z] = "absent" => z # x /\ z # y /\ state[z] = "absent"
        BY <3>1
      <4>6. \A z, w \in Var : state'[z] = "Owned" /\ state'[w] = "Owned"
                              /\ slot'[z] = slot'[w] /\ slot'[z] # Null => z = w
        <5> TAKE z, w \in Var
        <5> HAVE state'[z] = "Owned" /\ state'[w] = "Owned" /\ slot'[z] = slot'[w] /\ slot'[z] # Null
        <5>1. \A u \in {z, w} \ {x} : u # y /\ state[u] = "Owned" /\ slot'[u] = slot[u]
          BY <3>1, <4>3
        <5>2. CASE z = x \/ w = x
          BY <3>1, <4>4, <5>1, <5>2
        <5>3. CASE z # x /\ w # x
          BY <1>3, <1>7, <2>2, <5>1, <5>3 DEF WalkInv, SlotInv
        <5> QED
          BY <5>2, <5>3
      <4>7. \A z \in Var : state'[z] = "Owned" => slot'[z] \in live \cup {Null}
        BY <1>3, <1>7, <2>2, <3>1, <4>2, <4>3 DEF WalkInv, SlotInv
      <4>8. \A z \in Var : state'[z] = "absent" => slot'[z] = Null
        BY <1>3, <1>7, <2>2, <3>1, <4>5 DEF WalkInv, SlotInv
      <4> QED
        BY <1>2, <1>7, <2>1, <2>2, <4>6, <4>7, <4>8 DEF SlotInv
    <3>5. HeldInv'
      <4>1. ASSUME NEW c \in live
            PROVE  \E z \in Var : state'[z] = "Owned" /\ slot'[z] = c
        <5>1. PICK z \in Var : state[z] = "Owned" /\ slot[z] = c
          BY <1>3, <1>7, <2>1, <2>2 DEF WalkInv, HeldInv
        <5>2. CASE z = y
          BY <3>1, <5>1, <5>2
        <5>3. CASE z # y
          <6>1. z # x
            BY <3>1, <5>1, <5>3
          <6> QED
            BY <3>1, <5>1, <5>3, <6>1
        <5> QED
          BY <5>2, <5>3
      <4> QED
        BY <1>2, <1>7, <2>2, <4>1 DEF HeldInv
    <3> QED
      BY <1>5, <3>3, <3>4, <3>5
  <2> QED
    BY <1>6, <2>1, <2>2
<1> QED
  BY <1>8, <1>9 DEF Assignment

(* Branches and loops move nothing. If the state the walk has at the run's *)
(* point still owns the same, and takes nothing more for unassigned, the   *)
(* invariant is kept.                                                      *)
LEMMA ControlStep ==
  ASSUME IInv, phase = "walk", phase' = phase, TypeOK', PathInv',
         ~val, calls = <<>>, UNCHANGED <<calls, val, live, slot, tmp, fault, returned>>,
         OwnedIn(Track') = OwnedIn(Track),
         \A x \in Var : Track'[x] = "absent" => Track[x] = "absent"
  PROVE  IInv'
<1>1. /\ WalkInv /\ returned = Null /\ fault = {} /\ tmp = Null
      /\ \A i : i \notin 1..Len(calls)
  BY StatementFacts DEF WalkInv, TempInv
<1>2. \A x \in Var : Track'[x] = "Owned" <=> Track[x] = "Owned"
  BY DEF OwnedIn
<1>3. TempInv' /\ CallInv'
  BY <1>1 DEF TempInv, CallInv
<1>4. SlotInv'
  BY <1>1, <1>2 DEF WalkInv, SlotInv
<1>5. HeldInv'
  BY <1>1, <1>2 DEF WalkInv, HeldInv
<1> QED
  BY <1>1, <1>3, <1>4, <1>5 DEF IInv

(* Branches: the run stops where it leaves the path walked and resumes     *)
(* where the walk comes back to it, in a state that owns what it left.     *)
LEMMA BranchStep ==
  ASSUME Disciplined, IInv, Branch
  PROVE  /\ IInv'
         /\ OwnedIn(Track') = OwnedIn(Track)
<1>1. TypeOK'
  BY TypeKept DEF Next
<1>2. phase = "walk" /\ phase' = phase /\ ~val /\ calls = <<>>
      /\ UNCHANGED <<calls, val, live, slot, tmp, fault, returned>>
  BY DEF Branch, IfThen, IfElse, IfEnd, AtStmt, AtExpr
<1>3. /\ TypeOK /\ WalkInv
      /\ frames # <<>> => /\ depth \in 1..Len(frames) /\ depth \in Nat \ {0}
                          /\ inner = frames[depth] /\ inner \in Frame
  BY <1>2, StatementFacts
<1>4. Len(frames) \in Nat /\ frozen \in 0..Len(frames) /\ depth = Len(frames)
  BY <1>3, LenProperties DEF TypeOK, depth, WalkInv, PathInv
<1>5. ASSUME PathInv', OwnedIn(Track') = OwnedIn(Track),
             \A x \in Var : Track'[x] = "absent" => Track[x] = "absent"
      PROVE  IInv' /\ OwnedIn(Track') = OwnedIn(Track)
  BY <1>1, <1>2, <1>5, ControlStep
<1>6. ASSUME NEW go \in BOOLEAN, IfThen(go)
      PROVE  IInv' /\ OwnedIn(Track') = OwnedIn(Track)
  <2> DEFINE e == [kind |-> "then", entry |-> state, thenEnd |-> NoEntries]
  <2>1. e \in Frame
    BY <1>3 DEF Frame, FrameKind, NoEntries, StateMap, Mark, TypeOK
  <2>2. frames' = Append(frames, e) /\ state' = state /\ frames \in Seq(Frame)
    BY <1>3, <1>6 DEF IfThen, TypeOK
  <2>3. /\ Len(frames') = Len(frames) + 1
        /\ \A i \in 1..Len(frames) : frames'[i] = frames[i]
        /\ frames'[Len(frames) + 1] = e
    BY <2>1, <2>2, PushStack
  <2>4. \/ frozen' = frozen /\ home' = home
        \/ running /\ frozen' = Len(frames) + 1 /\ home' = state
    BY <1>6, <2>3 DEF IfThen, Stop, Stay, depth
  <2>5. Track' = Track
    BY <1>4, <2>2, <2>4 DEF Track, running
  <2>6. PathInv'
    <3>1. frozen' \in 0..Len(frames')
      BY <1>4, <2>3, <2>4
    <3>2. \A i \in 1..Len(frames') : i \in 1..Len(frames) \/ frames'[i] = e
      BY <1>4, <2>3
    <3>3. \A i \in 1..Len(frames') : frames'[i].kind \in {"cond", "body"} =>
            \A x \in Var : frames'[i].entry[x] # "absent"
      BY <1>3, <2>3, <3>2 DEF WalkInv, PathInv
    <3>4. CASE frozen' = frozen /\ home' = home
      <4>1. frozen # 0 => frozen \in 1..Len(frames) /\ frames'[frozen] = frames[frozen]
        BY <1>4, <2>3
      <4> QED
        BY <1>3, <3>1, <3>3, <3>4, <4>1 DEF WalkInv, PathInv
    <3>5. CASE running /\ frozen' = Len(frames) + 1 /\ home' = state
      BY <2>3, <3>1, <3>3, <3>5 DEF PathInv
    <3> QED
      BY <2>4, <3>4, <3>5
  <2> QED
    BY <1>5, <2>5, <2>6
<1>7. CASE IfElse
  <2> DEFINE e == [kind |-> "else", entry |-> inner.entry, thenEnd |-> state]
  <2>1. frames # <<>> /\ inner.kind = "then" /\ frames \in Seq(Frame)
    BY <1>3, <1>7 DEF IfElse, innerKind, TypeOK
  <2>2. e \in Frame
    BY <1>3, <2>1 DEF Frame, FrameKind, TypeOK
  <2>3. frames' = [frames EXCEPT ![Len(frames)] = e] /\ state' = inner.entry
    BY <1>3, <1>4, <1>7, <2>1 DEF IfElse
  <2>4. /\ Len(frames') = Len(frames)
        /\ \A i \in 1..(Len(frames) - 1) : frames'[i] = frames[i]
        /\ frames'[Len(frames)] = e
    BY <2>1, <2>2, <2>3, ReplaceTop
  <2>5. \A i \in 1..Len(frames) : i \in 1..(Len(frames) - 1) \/ i = Len(frames)
    BY <1>4
  <2>6. \A i \in 1..Len(frames') : frames'[i].kind \in {"cond", "body"} =>
          \A x \in Var : frames'[i].entry[x] # "absent"
    BY <1>3, <2>4, <2>5 DEF WalkInv, PathInv
  <2>7. CASE running
    <3>1. frozen' = Len(frames) /\ home' = state
      BY <1>7, <2>4, <2>7 DEF IfElse, Stop, depth
    <3>2. Track' = Track
      BY <1>3, <1>4, <2>1, <2>7, <3>1 DEF Track, running
    <3>3. PathInv'
      BY <1>3, <1>4, <2>1, <2>4, <2>6, <3>1 DEF PathInv
    <3> QED
      BY <1>5, <3>2, <3>3
  <2>8. CASE ~running /\ frozen = depth
    <3>1. frozen' = 0 /\ home = inner.entry
      BY <1>3, <1>4, <1>7, <2>1, <2>8 DEF IfElse, Resume, WalkInv, PathInv, running
    <3>2. Track' = Track
      BY <2>3, <2>8, <3>1 DEF Track, running
    <3>3. PathInv'
      BY <1>4, <2>4, <2>6, <3>1 DEF PathInv
    <3> QED
      BY <1>5, <3>2, <3>3
  <2>9. CASE ~running /\ frozen # depth
    <3>1. frozen' = frozen /\ home' = home /\ frozen \in 1..(Len(frames) - 1)
      BY <1>4, <1>7, <2>9 DEF IfElse, Stay, running
    <3>2. Track' = Track
      BY <2>9, <3>1 DEF Track, running
    <3>3. PathInv'
      BY <1>3, <1>4, <2>4, <2>6, <3>1 DEF WalkInv, PathInv
    <3> QED
      BY <1>5, <3>2, <3>3
  <2> QED
    BY <2>7, <2>8, <2>9
<1>8. CASE IfEnd
  <2>1. /\ frames # <<>> /\ inner.kind \in {"then", "else"} /\ frames' = Front(frames)
        /\ frames \in Seq(Frame) /\ state \in StateMap
    BY <1>3, <1>8 DEF IfEnd, innerKind, TypeOK
  <2>2. /\ Len(frames') = Len(frames) - 1
        /\ \A i \in 1..(Len(frames) - 1) : frames'[i] = frames[i] /\ i \in 1..Len(frames)
    BY <1>4, <2>1, PopStack
  <2>3. \A i \in 1..Len(frames') : frames'[i].kind \in {"cond", "body"} =>
          \A x \in Var : frames'[i].entry[x] # "absent"
    BY <1>3, <2>2 DEF WalkInv, PathInv
  <2>4. OtherBranch \in StateMap
    BY <1>3, <2>1 DEF OtherBranch, Frame
  <2>5. Agree(state, OtherBranch) /\ state' = JoinStates(state, OtherBranch)
    BY <1>8 DEF IfEnd, JoinAccepted, Disciplined, Enabled
  <2>6. /\ OwnedIn(state') = OwnedIn(state)
        /\ \A x \in Var : state'[x] = "absent" => state[x] = "absent" /\ OtherBranch[x] = "absent"
    BY <2>1, <2>4, <2>5, JoinOfAgreeing
  <2>7. CASE running
    <3>1. frozen' = 0
      BY <1>3, <1>8, <2>1, <2>7 DEF IfEnd, Stay, running
    <3>2. Track' = state' /\ Track = state
      BY <2>7, <3>1 DEF Track, running
    <3>3. PathInv'
      BY <1>3, <1>4, <2>1, <2>2, <2>3, <3>1 DEF PathInv
    <3> QED
      BY <1>5, <2>6, <3>2, <3>3
  <2>8. CASE ~running /\ frozen = depth
    <3>1. frozen' = 0 /\ home = OtherBranch
      BY <1>3, <1>4, <1>8, <2>1, <2>8 DEF IfEnd, Resume, WalkInv, PathInv, running, OtherBranch
    <3>2. Track' = state' /\ Track = OtherBranch
      BY <2>8, <3>1 DEF Track, running
    <3>3. OwnedIn(Track') = OwnedIn(Track)
      BY <2>5, <2>6, <3>2 DEF Agree
    <3>4. PathInv'
      BY <1>3, <1>4, <2>1, <2>2, <2>3, <3>1 DEF PathInv
    <3> QED
      BY <1>5, <2>6, <3>2, <3>3, <3>4
  <2>9. CASE ~running /\ frozen # depth
    <3>1. frozen' = frozen /\ home' = home /\ frozen \in 1..(Len(frames) - 1)
      BY <1>4, <1>8, <2>9 DEF IfEnd, Stay, running
    <3>2. Track' = Track
      BY <2>9, <3>1 DEF Track, running
    <3>3. PathInv'
      BY <1>3, <1>4, <2>2, <2>3, <3>1 DEF WalkInv, PathInv
    <3> QED
      BY <1>5, <3>2, <3>3
  <2> QED
    BY <2>7, <2>8, <2>9
<1> QED
  BY <1>6, <1>7, <1>8 DEF Branch

(* Loops: the state at a loop's condition, its body and its exit is the    *)
(* one it was entered with. Entered with every variable assigned, the body *)
(* cannot make a variable the state takes for unassigned hold a pointer.   *)
LEMMA LoopStep ==
  ASSUME Disciplined, IInv, Loop
  PROVE  /\ IInv'
         /\ OwnedIn(Track') = OwnedIn(Track)
<1>1. TypeOK'
  BY TypeKept DEF Next
<1>2. phase = "walk" /\ phase' = phase /\ ~val /\ calls = <<>>
      /\ UNCHANGED <<calls, val, live, slot, tmp, fault, returned>>
  BY DEF Loop, WhileCond, WhileBody, WhileEnd, AtStmt, AtExpr, runVars
<1>3. /\ TypeOK /\ WalkInv
      /\ frames # <<>> => /\ depth \in 1..Len(frames) /\ depth \in Nat \ {0}
                          /\ inner = frames[depth] /\ inner \in Frame
  BY <1>2, StatementFacts
<1>4. Len(frames) \in Nat /\ frozen \in 0..Len(frames) /\ depth = Len(frames)
  BY <1>3, LenProperties DEF TypeOK, depth, WalkInv, PathInv
<1>5. ASSUME PathInv', OwnedIn(Track') = OwnedIn(Track),
             \A x \in Var : Track'[x] = "absent" => Track[x] = "absent"
      PROVE  IInv' /\ OwnedIn(Track') = OwnedIn(Track)
  BY <1>1, <1>2, <1>5, ControlStep
<1>6. CASE WhileCond
  <2> DEFINE e == [kind |-> "cond", entry |-> state, thenEnd |-> NoEntries]
  <2>1. e \in Frame
    BY <1>3 DEF Frame, FrameKind, NoEntries, StateMap, Mark, TypeOK
  <2>2. /\ frames' = Append(frames, e) /\ frames \in Seq(Frame)
        /\ state' = state /\ frozen' = frozen /\ home' = home
        /\ \A x \in Var : state[x] # "absent"
    BY <1>3, <1>6, LoopEntryAssumption DEF WhileCond, LoopAllowed, Disciplined, TypeOK, runVars
  <2>3. /\ Len(frames') = Len(frames) + 1
        /\ \A i \in 1..Len(frames) : frames'[i] = frames[i]
        /\ frames'[Len(frames) + 1] = e
    BY <2>1, <2>2, PushStack
  <2>4. Track' = Track
    BY <2>2 DEF Track, running
  <2>5. PathInv'
    <3>1. \A i \in 1..Len(frames') : i \in 1..Len(frames) \/ frames'[i] = e
      BY <1>4, <2>3
    <3>2. \A i \in 1..Len(frames') : frames'[i].kind \in {"cond", "body"} =>
            \A x \in Var : frames'[i].entry[x] # "absent"
      BY <1>3, <2>2, <2>3, <3>1 DEF WalkInv, PathInv
    <3>3. frozen # 0 => frozen \in 1..Len(frames) /\ frames'[frozen] = frames[frozen]
      BY <1>4, <2>3
    <3>4. frozen' \in 0..Len(frames')
      BY <1>4, <2>2, <2>3
    <3> QED
      BY <1>3, <2>2, <3>2, <3>3, <3>4 DEF WalkInv, PathInv
  <2> QED
    BY <1>5, <2>4, <2>5
(* The kind of the innermost frame changes, the others stay.               *)
<1>7. ASSUME NEW k \in FrameKind, frames # <<>>, frames' = [frames EXCEPT ![depth].kind = k]
      PROVE  /\ Len(frames') = Len(frames)
             /\ \A i \in 1..(Len(frames) - 1) : frames'[i] = frames[i] /\ i \in 1..Len(frames)
             /\ \A i \in 1..Len(frames) : i \in 1..(Len(frames) - 1) \/ i = Len(frames)
             /\ frames'[Len(frames)].kind = k /\ frames'[Len(frames)].entry = inner.entry
  <2> DEFINE e == [inner EXCEPT !.kind = k]
  <2>1. e \in Frame /\ e.kind = k /\ e.entry = inner.entry /\ frames \in Seq(Frame)
    BY <1>3, <1>7 DEF Frame, TypeOK
  <2>2. frames' = [frames EXCEPT ![Len(frames)] = e]
    BY <1>3, <1>4, <1>7
  <2> QED
    <3>1. /\ Len(frames') = Len(frames)
          /\ \A i \in 1..(Len(frames) - 1) : frames'[i] = frames[i]
          /\ frames'[Len(frames)] = e
      BY <1>7, <2>1, <2>2, ReplaceTop
    <3> QED
      BY <1>4, <2>1, <3>1
<1>8. ASSUME frames # <<>>, inner.kind \in {"cond", "body"}
      PROVE  \A x \in Var : inner.entry[x] # "absent"
  BY <1>3, <1>8 DEF WalkInv, PathInv
<1>9. ASSUME NEW go \in BOOLEAN, WhileBody(go)
      PROVE  IInv' /\ OwnedIn(Track') = OwnedIn(Track)
  <2>1. frames # <<>> /\ inner.kind = "cond" /\ frames' = [frames EXCEPT ![depth].kind = "body"]
    BY <1>9 DEF WhileBody, innerKind
  <2>2. state' = inner.entry /\ state = inner.entry
    BY <1>9 DEF WhileBody, LoopConditionAccepted, Disciplined, Enabled
  <2>3. /\ Len(frames') = Len(frames)
        /\ \A i \in 1..(Len(frames) - 1) : frames'[i] = frames[i] /\ i \in 1..Len(frames)
        /\ \A i \in 1..Len(frames) : i \in 1..(Len(frames) - 1) \/ i = Len(frames)
        /\ frames'[Len(frames)].kind = "body" /\ frames'[Len(frames)].entry = inner.entry
    BY <1>7, <2>1 DEF FrameKind
  <2>4. \/ frozen' = frozen /\ home' = home
        \/ running /\ frozen' = Len(frames) /\ home' = inner.entry
    BY <1>4, <1>9 DEF WhileBody, Stay
  <2>5. Track' = Track
    BY <1>3, <1>4, <2>1, <2>2, <2>4 DEF Track, running
  <2>6. \A i \in 1..Len(frames') : frames'[i].kind \in {"cond", "body"} =>
          \A x \in Var : frames'[i].entry[x] # "absent"
    BY <1>3, <1>8, <2>1, <2>3 DEF WalkInv, PathInv
  <2>7. PathInv'
    <3>1. CASE frozen' = frozen /\ home' = home
      <4>1. frozen # Len(frames)
        BY <1>3, <1>4, <2>1 DEF WalkInv, PathInv
      <4>2. frozen # 0 => frozen \in 1..(Len(frames) - 1)
        BY <1>4, <4>1
      <4> QED
        BY <1>3, <1>4, <2>3, <2>6, <3>1, <4>2 DEF WalkInv, PathInv
    <3>2. CASE running /\ frozen' = Len(frames) /\ home' = inner.entry
      BY <1>3, <1>4, <2>1, <2>3, <2>6, <3>2 DEF PathInv
    <3> QED
      BY <2>4, <3>1, <3>2
  <2> QED
    BY <1>5, <2>5, <2>7
<1>10. CASE WhileEnd
  <2>1. /\ frames # <<>> /\ inner.kind = "body" /\ state' = inner.entry /\ frames \in Seq(Frame)
        /\ OwnedIn(inner.entry) = OwnedIn(state)
    BY <1>3, <1>10 DEF WhileEnd, innerKind, LoopBodyAccepted, Agree, Disciplined, Enabled, TypeOK
  <2>2. \A x \in Var : inner.entry[x] # "absent"
    BY <1>8, <2>1
  <2>3. CASE running
    <3>1. frames' = [frames EXCEPT ![depth].kind = "cond"] /\ frozen' = 0 /\ frozen = 0
      BY <1>10, <2>3 DEF WhileEnd, Stay, running
    <3>2. /\ Len(frames') = Len(frames)
          /\ \A i \in 1..(Len(frames) - 1) : frames'[i] = frames[i] /\ i \in 1..Len(frames)
          /\ \A i \in 1..Len(frames) : i \in 1..(Len(frames) - 1) \/ i = Len(frames)
          /\ frames'[Len(frames)].kind = "cond" /\ frames'[Len(frames)].entry = inner.entry
      BY <1>7, <2>1, <3>1 DEF FrameKind
    <3>3. Track' = inner.entry /\ Track = state
      BY <2>1, <3>1 DEF Track, running
    <3>4. PathInv'
      BY <1>3, <1>4, <2>2, <3>1, <3>2 DEF WalkInv, PathInv
    <3> QED
      BY <1>5, <2>1, <2>2, <3>3, <3>4
  <2>4. ASSUME ~running
        PROVE  /\ Len(frames') = Len(frames) - 1
               /\ \A i \in 1..(Len(frames) - 1) : frames'[i] = frames[i] /\ i \in 1..Len(frames)
               /\ \A i \in 1..Len(frames') : frames'[i].kind \in {"cond", "body"} =>
                    \A x \in Var : frames'[i].entry[x] # "absent"
    <3>1. frames' = Front(frames)
      BY <1>10, <2>4 DEF WhileEnd
    <3>2. /\ Len(frames') = Len(frames) - 1
          /\ \A i \in 1..(Len(frames) - 1) : frames'[i] = frames[i] /\ i \in 1..Len(frames)
      BY <1>4, <2>1, <3>1, PopStack
    <3> QED
      BY <1>3, <3>2 DEF WalkInv, PathInv
  <2>5. CASE ~running /\ frozen = depth
    <3>1. frozen' = 0 /\ home = inner.entry
      BY <1>3, <1>4, <1>10, <2>1, <2>5 DEF WhileEnd, Resume, WalkInv, PathInv, running
    <3>2. Track' = Track
      BY <2>1, <2>5, <3>1 DEF Track, running
    <3>3. PathInv'
      BY <1>3, <1>4, <2>1, <2>4, <2>5, <3>1 DEF PathInv
    <3> QED
      BY <1>5, <3>2, <3>3
  <2>6. CASE ~running /\ frozen # depth
    <3>1. frozen' = frozen /\ home' = home /\ frozen \in 1..(Len(frames) - 1)
      BY <1>4, <1>10, <2>6 DEF WhileEnd, Stay, running
    <3>2. Track' = Track
      BY <2>6, <3>1 DEF Track, running
    <3>3. PathInv'
      BY <1>3, <1>4, <2>4, <2>6, <3>1 DEF WalkInv, PathInv
    <3> QED
      BY <1>5, <3>2, <3>3
  <2> QED
    BY <2>3, <2>5, <2>6
<1> QED
  BY <1>6, <1>9, <1>10 DEF Loop

(* The return: the destroys planned at the exit free what the function     *)
(* still owns, once, and leave the result.                                 *)
LEMMA ExitStep ==
  ASSUME Disciplined, IInv, AtReturn, TypeOK',
         NEW s \in StateMap, NEW p \in Pointer, NEW reads \in SUBSET Var, Exit(s, p, reads),
         \A x \in Var : s[x] = "Owned" => state[x] = "Owned",
         \A x \in reads : state[x] # "Moved",
         p \in live \cup {Null},
         \A x \in Var : s[x] = "Owned" /\ slot[x] # Null => slot[x] # p,
         \A c \in live : c = p \/ \E x \in Var : s[x] = "Owned" /\ slot[x] = c
  PROVE  IInv'
<1>1. phase = "walk" /\ frames = <<>> /\ calls = <<>>
  BY DEF AtReturn
<1>2. TypeOK /\ WalkInv /\ fault = {} /\ Null \notin live /\ (\A x \in Var : state[x] \in Mark)
  BY <1>1, StatementFacts
<1>3. frozen = 0
  <2>1. Len(frames) = 0
    BY <1>1, EmptySeq, Zenon
  <2> QED
    BY <1>2, <2>1 DEF WalkInv, PathInv
<1>4. Track = state
  BY <1>3 DEF Track, running
<1>5. DEFINE D == OwnedIn(s)
<1>6. /\ phase' = "exited" /\ ~val' /\ tmp' = Null /\ returned' = p
      /\ frames' = <<>> /\ calls' = <<>> /\ frozen' = 0
      /\ live' = live \ {slot[x] : x \in D}
      /\ fault' = fault \cup Touch(reads) \cup DestroyFault(D)
  BY <1>1, <1>3 DEF Exit, AtExit, Disciplined, Enabled
<1>7. \A x \in Var : state[x] # "Moved" => ~Dead(slot[x])
  BY <1>2, <1>4, NullAssumption DEF WalkInv, SlotInv, Dead, Mark
<1>8. Touch(reads) = {}
  BY <1>7 DEF Touch
<1>9. DestroyFault(D) = {}
  <2>1. \A x \in D : x \in Var /\ state[x] = "Owned" /\ ~Dead(slot[x])
    BY <1>7 DEF OwnedIn
  <2>2. \A x, y \in D : slot[x] = slot[y] /\ slot[x] # Null => x = y
    BY <1>2, <1>4, <2>1 DEF WalkInv, SlotInv
  <2> QED
    BY <2>1, <2>2 DEF DestroyFault
<1>10. live' = {p} \ {Null}
  <2>1. \A c \in live' : c = p /\ c # Null
    BY <1>2, <1>6 DEF OwnedIn
  <2>2. p # Null => p \in live'
    BY <1>6 DEF OwnedIn
  <2> QED
    BY <2>1, <2>2
<1> QED
  BY <1>2, <1>6, <1>8, <1>9, <1>10 DEF IInv, OverInv

LEMMA ReturnStep ==
  ASSUME Disciplined, IInv, Return
  PROVE  IInv'
<1>1. TypeOK'
  BY TypeKept DEF Next
<1>2. AtReturn /\ phase = "walk" /\ frames = <<>> /\ calls = <<>>
  BY DEF Return, ReturnVar, ReturnRead, ReturnValue, AtReturn
<1>3. /\ TypeOK /\ WalkInv /\ fault = {} /\ Null \notin live
      /\ \A x \in Var : state[x] \in Mark
      /\ \A i : i \notin 1..Len(calls)
  BY <1>2, StatementFacts
<1>4. frozen = 0 /\ Track = state
  <2>1. Len(frames) = 0
    BY <1>2, EmptySeq, Zenon
  <2> QED
    BY <1>3, <2>1 DEF WalkInv, PathInv, Track, running
<1>5. \A c \in live : c = tmp \/ \E x \in Var : state[x] = "Owned" /\ slot[x] = c
  BY <1>3, <1>4 DEF WalkInv, HeldInv
<1>6. ASSUME NEW x \in Var, ReturnVar(x) PROVE IInv'
  <2> DEFINE s == [state EXCEPT ![x] = "Moved"]
  <2>1. /\ s \in StateMap /\ s[x] = "Moved" /\ \A y \in Var : y # x => s[y] = state[y]
    BY <1>3 DEF TypeOK, StateMap, Mark
  <2>2. Exit(s, slot[x], {}) /\ state[x] # "Moved" /\ tmp = Null
    BY <1>3, <1>6 DEF ReturnVar, Consumable, Usable, Disciplined, Enabled, WalkInv, TempInv
  <2>3. slot[x] \in live \cup {Null} /\ (slot[x] # Null => state[x] = "Owned")
    BY <1>3, <1>4, <2>2 DEF WalkInv, SlotInv, Mark
  <2>4. \A y \in Var : s[y] = "Owned" => state[y] = "Owned" /\ y # x
    BY <2>1
  <2>5. \A y \in Var : s[y] = "Owned" /\ slot[y] # Null => slot[y] # slot[x]
    BY <1>3, <1>4, <2>3, <2>4 DEF WalkInv, SlotInv
  <2>6. \A c \in live : c = slot[x] \/ \E y \in Var : s[y] = "Owned" /\ slot[y] = c
    BY <1>3, <1>5, <2>1, <2>2
  <2>7. slot[x] \in Pointer
    BY <1>3 DEF TypeOK
  <2> HIDE DEF s
  <2> QED
    BY <1>1, <1>2, <2>1, <2>2, <2>3, <2>4, <2>5, <2>6, <2>7, ExitStep
<1>7. ASSUME NEW x \in Var, ReturnRead(x) PROVE IInv'
  <2>1. Exit(state, Null, {x}) /\ state[x] # "Moved" /\ tmp = Null /\ state \in StateMap /\ Null \in Pointer
    BY <1>3, <1>7 DEF ReturnRead, Usable, Disciplined, Enabled, WalkInv, TempInv, TypeOK, Pointer
  <2> QED
    BY <1>1, <1>2, <1>3, <1>5, <2>1, ExitStep
<1>8. CASE ReturnValue
  <2>1. Exit(state, tmp, {}) /\ state \in StateMap /\ tmp \in Pointer /\ tmp \in live \cup {Null}
    BY <1>3, <1>4, <1>8 DEF ReturnValue, WalkInv, TempInv, TypeOK, running
  <2>2. \A x \in Var : state[x] = "Owned" /\ slot[x] # Null => slot[x] # tmp
    BY <1>3, <1>4 DEF WalkInv, SlotInv
  <2> QED
    BY <1>1, <1>2, <1>3, <1>5, <2>1, <2>2, ExitStep
<1> QED
  BY <1>6, <1>7, <1>8 DEF Return

LEMMA IInvStep ==
  ASSUME Disciplined
  PROVE  IInv /\ [Next]_vars => IInv'
<1> SUFFICES ASSUME IInv, [Next]_vars PROVE IInv'
  OBVIOUS
<1>1. TypeOK'
  BY TypeKept
<1>2. CASE Rejection
  <2>1. PICK id : Reject(id)
    BY <1>2 DEF Rejection, RejectUseAfterMove, RejectCallHeldBorrow, RejectAssignOverLive,
                RejectJoin, RejectLoopCondition, RejectLoopBody
  <2> QED
    BY <1>1, <2>1 DEF Reject, IInv, OverInv
<1>3. CASE UNCHANGED vars
  BY <1>3 DEF vars, walkVars, runVars, IInv, PathInv, TempInv, SlotInv, CallInv, HeldInv,
              OverInv, TypeOK, Track, running
<1> QED
  BY <1>2, <1>3, ExpressionStep, AssignmentStep, BranchStep, LoopStep, ReturnStep DEF Next, Done

-----------------------------------------------------------------------------
(* What the invariant gives.                                               *)

(* Accepted code reads no freed cell and frees none twice.                 *)
THEOREM MemorySafety ==
  ASSUME Disciplined
  PROVE  Spec => []MemorySafe
<1>1. IInv => MemorySafe
  BY DEF IInv, MemorySafe
<1> QED
  BY <1>1, IInvInit, IInvStep, PTL DEF Spec

(* When a function returns, everything but its result has been freed.      *)
THEOREM LeakFreedom ==
  ASSUME Disciplined
  PROVE  Spec => []NothingLeaks
<1>1. IInv => NothingLeaks
  BY DEF IInv, OverInv, NothingLeaks
<1> QED
  BY <1>1, IInvInit, IInvStep, PTL DEF Spec

(* A variable the analysis takes for unassigned holds no pointer, whatever *)
(* path the run took.                                                      *)
THEOREM UnassignedHoldsNothing ==
  ASSUME Disciplined
  PROVE  Spec => []UnassignedIsNull
<1>1. IInv => UnassignedIsNull
  BY DEF IInv, SlotInv, UnassignedIsNull
<1> QED
  BY <1>1, IInvInit, IInvStep, PTL DEF Spec

(* Branches, joins and loops never change what the run owns, so a static   *)
(* plan of destruction exists.                                             *)
THEOREM MergeStability ==
  ASSUME Disciplined
  PROVE  Spec => MergesKeepOwnership
<1>1. IInv /\ [Next]_vars =>
        [phase' = "walk" /\ frames' # frames => OwnedIn(Track') = OwnedIn(Track)]_vars
  <2> SUFFICES ASSUME IInv, Next, phase' = "walk", frames' # frames
               PROVE  OwnedIn(Track') = OwnedIn(Track)
    OBVIOUS
  <2>1. ~Expression
    BY DEF Expression, CheckUse, Borrow, ConsumeVar, CallBegin, CallEnd, Alloc, PassTemp,
           UseTemp, walkVars
  <2>2. ~Assignment /\ ~Done
    BY DEF Assignment, Bind, MoveAssign, Done, vars, walkVars
  <2>3. ~Return
    BY DEF Return, ReturnVar, ReturnRead, ReturnValue, Exit
  <2>4. ~Rejection
    BY DEF Rejection, RejectUseAfterMove, RejectCallHeldBorrow, RejectAssignOverLive,
           RejectJoin, RejectLoopCondition, RejectLoopBody, Reject
  <2> QED
    BY <2>1, <2>2, <2>3, <2>4, BranchStep, LoopStep DEF Next
<1> QED
  BY <1>1, IInvInit, IInvStep, PTL DEF Spec, MergesKeepOwnership

(* The holders of a cell, one kind at a time.                              *)
LEMMA HoldersByKind ==
  ASSUME IInv, NEW c \in Cell, NEW h
  PROVE  h \in HoldersOf(c) <=>
           \/ \E x \in Var : h = VarHolder(x) /\ phase = "walk" /\ Track[x] = "Owned" /\ slot[x] = c
           \/ \E i \in 1..Len(calls) : h = CallHolder(i) /\ c \in calls[i].args
           \/ h = TmpHolder /\ tmp = c
           \/ h = CallerHolder /\ returned = c
<1>1. DOMAIN calls = 1..Len(calls)
  BY LenProperties DEF IInv, TypeOK
<1> QED
  BY <1>1 DEF HoldersOf

(* Every live cell has one owner and a freed one none.                     *)
LEMMA SoleHolderHolds == IInv => SoleHolder
<1> SUFFICES ASSUME IInv, NEW c \in Cell
             PROVE  IF c \in live THEN \E h \in HoldersOf(c) : HoldersOf(c) = {h}
                                  ELSE HoldersOf(c) = {}
  BY DEF SoleHolder
<1>1. c # Null /\ TypeOK
  BY NullAssumption DEF IInv
<1>2. CASE phase # "walk"
  <2>1. OverInv /\ \A i : i \notin 1..Len(calls)
    <3>1. OverInv
      BY <1>2 DEF IInv
    <3>2. Len(calls) = 0
      BY <3>1, EmptySeq, Zenon DEF OverInv
    <3> QED
      BY <3>1, <3>2
  <2>2. \A h : h \in HoldersOf(c) <=> h = CallerHolder /\ returned = c
    BY <1>1, <1>2, <2>1, HoldersByKind DEF OverInv
  <2>3. c \in live <=> returned = c
    BY <1>1, <2>1 DEF OverInv
  <2> QED
    BY <2>2, <2>3
<1>3. CASE phase = "walk"
  <2>1. returned = Null /\ TempInv /\ SlotInv /\ CallInv /\ HeldInv
    BY <1>3 DEF IInv
  <2>2. CASE c \notin live
    <3>1. tmp # c
      BY <1>1, <2>1, <2>2 DEF TempInv
    <3>2. \A h : h \notin HoldersOf(c)
      BY <1>1, <2>1, <2>2, <3>1, HoldersByKind DEF SlotInv, CallInv
    <3> QED
      BY <2>2, <3>2
  <2>3. CASE c \in live /\ c = tmp
    <3>1. \A h : h \in HoldersOf(c) <=> h = TmpHolder
      BY <1>1, <2>1, <2>3, HoldersByKind DEF SlotInv, CallInv
    <3> QED
      BY <2>3, <3>1
  <2>4. CASE c \in live /\ \E x \in Var : Track[x] = "Owned" /\ slot[x] = c
    <3>1. PICK x \in Var : Track[x] = "Owned" /\ slot[x] = c
      BY <2>4
    <3>2. /\ tmp # c
          /\ \A y \in Var : Track[y] = "Owned" /\ slot[y] = c => y = x
          /\ \A i \in 1..Len(calls) : c \notin calls[i].args
      BY <1>1, <2>1, <3>1 DEF SlotInv, CallInv
    <3>3. \A h : h \in HoldersOf(c) <=> h = VarHolder(x)
      BY <1>1, <1>3, <2>1, <3>1, <3>2, HoldersByKind
    <3> QED
      BY <2>4, <3>3
  <2>5. CASE c \in live /\ \E i \in 1..Len(calls) : c \in calls[i].args
    <3>1. PICK i \in 1..Len(calls) : c \in calls[i].args
      BY <2>5
    <3>2. /\ tmp # c
          /\ \A y \in Var : Track[y] = "Owned" => slot[y] # c
          /\ \A j \in 1..Len(calls) : c \in calls[j].args => j = i
      BY <2>1, <3>1 DEF CallInv
    <3>3. \A h : h \in HoldersOf(c) <=> h = CallHolder(i)
      BY <1>1, <2>1, <3>1, <3>2, HoldersByKind
    <3>4. CallHolder(i) \in HoldersOf(c)
      BY <3>3
    <3>5. \A h, k \in HoldersOf(c) : h = k
      BY <3>3
    <3> QED
      BY <2>5, <3>4, <3>5
  <2> QED
    BY <2>1, <2>2, <2>3, <2>4, <2>5 DEF HeldInv
<1> QED
  BY <1>2, <1>3

(* "Every owned resource has exactly one owner."                           *)
THEOREM SingleOwnership ==
  ASSUME Disciplined
  PROVE  Spec => []SoleHolder
  BY SoleHolderHolds, IInvInit, IInvStep, PTL DEF Spec

(* A borrowed owner stays alive, and its own, until the call returns.      *)
THEOREM LentOwnersOutliveCalls ==
  ASSUME Disciplined
  PROVE  Spec => []LentOwnersStayAlive
<1>1. IInv => LentOwnersStayAlive
  <2> SUFFICES ASSUME IInv, NEW i \in DOMAIN calls, NEW x \in calls[i].lent, slot[x] # Null
               PROVE  slot[x] \in live /\ HoldersOf(slot[x]) = {VarHolder(x)}
    BY DEF LentOwnersStayAlive
  <2>1. TypeOK /\ DOMAIN calls = 1..Len(calls) /\ calls[i] \in Call
    BY LenProperties, ElementOfSeq DEF IInv, TypeOK
  <2>2. phase = "walk"
    <3>1. ASSUME phase # "walk" PROVE FALSE
      <4>1. calls = <<>>
        BY <3>1 DEF IInv, OverInv
      <4>2. Len(calls) = 0
        BY <4>1, EmptySeq, Zenon
      <4> QED
        BY <2>1, <4>2
    <3> QED
      BY <3>1
  <2>3. SlotInv /\ CallInv /\ SoleHolder
    BY <2>2, SoleHolderHolds DEF IInv
  <2>4. x \in Var /\ Track[x] \in Mark /\ Track[x] # "Moved"
    BY <2>1, <2>3 DEF CallInv, Call, Track, TypeOK, StateMap
  <2>5. Track[x] = "Owned" /\ slot[x] \in live /\ slot[x] \in Cell
    BY <2>1, <2>3, <2>4 DEF SlotInv, Mark, TypeOK
  <2>6. VarHolder(x) \in HoldersOf(slot[x])
    BY <2>2, <2>4, <2>5, HoldersByKind
  <2>7. PICK h \in HoldersOf(slot[x]) : HoldersOf(slot[x]) = {h}
    BY <2>3, <2>5 DEF SoleHolder
  <2> QED
    BY <2>5, <2>6, <2>7
<1> QED
  BY <1>1, IInvInit, IInvStep, PTL DEF Spec

-----------------------------------------------------------------------------
(* The refinement: a step gives at most one cell to another holder.        *)

(* The holder of c before the step holds it after.                         *)
Kept(c) ==
  /\ c \in live
  /\ \/ \E x \in Var : Track[x] = "Owned" /\ slot[x] = c /\ Track'[x] = "Owned" /\ slot'[x] = c
     \/ \E i \in 1..Len(calls) : /\ i \in 1..Len(calls')
                                 /\ c \in calls[i].args /\ c \in calls'[i].args
     \/ tmp = c /\ tmp' = c

LEMMA SoleHolderHoldsNext == IInv' => SoleHolder'
  BY SoleHolderHolds, PTL

LEMMA KeptHolder ==
  ASSUME IInv, IInv', phase = "walk", phase' = "walk", NEW c \in live', Kept(c)
  PROVE  HoldersOf(c)' = HoldersOf(c)
<1>1. c \in Cell /\ c \in live
  BY DEF IInv, TypeOK, Kept
<1>2. \A h : h \in HoldersOf(c)' <=>
        \/ \E x \in Var : h = VarHolder(x) /\ phase' = "walk" /\ Track'[x] = "Owned" /\ slot'[x] = c
        \/ \E i \in 1..Len(calls') : h = CallHolder(i) /\ c \in calls'[i].args
        \/ h = TmpHolder /\ tmp' = c
        \/ h = CallerHolder /\ returned' = c
  <2>1. DOMAIN calls' = 1..Len(calls')
    BY LenProperties DEF IInv, TypeOK
  <2> QED
    BY <2>1 DEF HoldersOf
<1>3. \E h : h \in HoldersOf(c) /\ h \in HoldersOf(c)'
  <2>1. CASE \E x \in Var : Track[x] = "Owned" /\ slot[x] = c /\ Track'[x] = "Owned" /\ slot'[x] = c
    <3>1. PICK x \in Var : Track[x] = "Owned" /\ slot[x] = c /\ Track'[x] = "Owned" /\ slot'[x] = c
      BY <2>1
    <3>2. VarHolder(x) \in HoldersOf(c)
      BY <1>1, <3>1, HoldersByKind
    <3>3. VarHolder(x) \in HoldersOf(c)'
      BY <1>2, <3>1
    <3> QED
      BY <3>2, <3>3
  <2>2. CASE \E i \in 1..Len(calls) : /\ i \in 1..Len(calls')
                                      /\ c \in calls[i].args /\ c \in calls'[i].args
    BY <1>1, <1>2, <2>2, HoldersByKind
  <2>3. CASE tmp = c /\ tmp' = c
    BY <1>1, <1>2, <2>3, HoldersByKind
  <2> QED
    BY <2>1, <2>2, <2>3 DEF Kept
<1>4. SoleHolder /\ SoleHolder'
  BY SoleHolderHolds, SoleHolderHoldsNext
<1>5. PICK h : HoldersOf(c) = {h}
  BY <1>1, <1>4 DEF SoleHolder
<1>6. PICK k : HoldersOf(c)' = {k}
  BY <1>1, <1>4 DEF SoleHolder
<1> QED
  BY <1>3, <1>5, <1>6

LEMMA ExpressionGivesOne ==
  ASSUME Disciplined, IInv, Expression
  PROVE  \E d : \A c \in live' \ {d} : Kept(c)
<1>1. phase = "walk" /\ frozen' = frozen /\ home' = home /\ slot' = slot
  BY DEF Expression, CheckUse, Borrow, ConsumeVar, CallBegin, CallEnd, Alloc, PassTemp,
         UseTemp, AtExpr, walkVars, runVars
<1>2. /\ TypeOK /\ WalkInv /\ Null \notin live /\ calls \in Seq(Call) /\ Len(calls) \in Nat
  BY <1>1, StatementFacts, LenProperties DEF TypeOK
<1>3. \A c \in live : \/ c = tmp
                      \/ \E x \in Var : Track[x] = "Owned" /\ slot[x] = c
                      \/ \E i \in 1..Len(calls) : c \in calls[i].args
  BY <1>2 DEF WalkInv, HeldInv
<1>4. state' = state => Track' = Track
  BY <1>1 DEF Track, running
<1>5. ASSUME NEW x \in Var, CheckUse(x) PROVE \E d : \A c \in live' \ {d} : Kept(c)
  BY <1>1, <1>3, <1>4, <1>5 DEF CheckUse, walkVars, Kept
<1>6. CASE Alloc
  <2>1. state' = state /\ calls' = calls /\ tmp = Null /\ \A c \in live' : c = tmp' \/ c \in live
    BY <1>2, <1>6 DEF Alloc, AtExpr, WalkInv, TempInv
  <2> QED
    BY <1>1, <1>2, <1>3, <1>4, <2>1 DEF Kept
<1>7. ASSUME NEW B \in SUBSET Var, CallBegin(B) PROVE \E d : \A c \in live' \ {d} : Kept(c)
  <2> DEFINE e == [held |-> B, lent |-> {}, args |-> {}]
  <2>1. calls' = Append(calls, e) /\ e \in Call /\ state' = state /\ live' = live /\ tmp' = tmp
    BY <1>7 DEF CallBegin, Call, runVars
  <2>2. \A i \in 1..Len(calls) : i \in 1..Len(calls') /\ calls'[i] = calls[i]
    BY <1>2, <2>1, PushStack
  <2> QED
    BY <1>1, <1>3, <1>4, <2>1, <2>2 DEF Kept
(* The actuals only add to what the calls hold.                            *)
<1>8. ASSUME NEW e \in Call, calls # <<>>, calls' = [calls EXCEPT ![Len(calls)] = e],
             calls[Len(calls)].args \subseteq e.args
      PROVE  \A i \in 1..Len(calls) : i \in 1..Len(calls') /\ calls[i].args \subseteq calls'[i].args
  <2>1. /\ Len(calls') = Len(calls) /\ calls'[Len(calls)] = e
        /\ \A i \in 1..(Len(calls) - 1) : calls'[i] = calls[i]
    BY <1>2, <1>8, ReplaceTop
  <2>2. \A i \in 1..Len(calls) : i = Len(calls) \/ i \in 1..(Len(calls) - 1)
    BY <1>2
  <2> QED
    BY <1>8, <2>1, <2>2
<1>9. calls # <<>> => calls[Len(calls)] \in Call /\ Last(calls) = calls[Len(calls)]
  BY <1>2, TopOfStack
<1>10. ASSUME NEW x \in Var, Borrow(x) PROVE \E d : \A c \in live' \ {d} : Kept(c)
  <2> DEFINE e == [calls[Len(calls)] EXCEPT !.lent = IF running THEN @ \cup {x} ELSE @]
  <2>1. /\ calls # <<>> /\ calls' = [calls EXCEPT ![Len(calls)] = e]
        /\ state' = state /\ live' = live /\ tmp' = tmp
    BY <1>9, <1>10 DEF Borrow, runVars
  <2>2. e \in Call /\ e.args = calls[Len(calls)].args
    BY <1>9, <2>1 DEF Call
  <2>3. \A i \in 1..Len(calls) : i \in 1..Len(calls') /\ calls[i].args \subseteq calls'[i].args
    BY <1>8, <2>1, <2>2
  <2> QED
    BY <1>1, <1>3, <1>4, <2>1, <2>3 DEF Kept
<1>11. ASSUME NEW x \in Var, ConsumeVar(x) PROVE \E d : \A c \in live' \ {d} : Kept(c)
  <2> DEFINE e == [calls[Len(calls)] EXCEPT !.args = @ \cup {slot[x]}]
  <2>1. calls # <<>> /\ live' = live /\ tmp' = tmp /\ state' = [state EXCEPT ![x] = "Moved"]
    BY <1>11 DEF ConsumeVar
  <2>2. \A i \in 1..Len(calls) : i \in 1..Len(calls') /\ calls[i].args \subseteq calls'[i].args
    <3>1. CASE calls' = calls
      BY <3>1
    <3>2. CASE running /\ slot[x] # Null /\ calls' = [calls EXCEPT ![Len(calls)] = e]
      <4>1. slot[x] \in Cell
        BY <1>2, <3>2 DEF TypeOK, Pointer
      <4>2. e \in Call /\ calls[Len(calls)].args \subseteq e.args
        BY <1>9, <2>1, <4>1 DEF Call
      <4> QED
        BY <1>8, <2>1, <3>2, <4>2
    <3> QED
      BY <1>9, <1>11, <2>1, <3>1, <3>2 DEF ConsumeVar
  <2>3. \A y \in Var : y # x /\ Track[y] = "Owned" => Track'[y] = "Owned"
    BY <1>1, <1>2, <2>1 DEF Track, running, TypeOK, StateMap
  <2>4. \A c \in live' \ {slot[x]} : Kept(c)
    BY <1>1, <1>3, <2>1, <2>2, <2>3 DEF Kept
  <2> QED
    BY <2>4
<1>12. CASE PassTemp
  <2> DEFINE e == [calls[Len(calls)] EXCEPT !.args = @ \cup {tmp}]
  <2>1. calls # <<>> /\ live' = live /\ state' = state /\ val
    BY <1>12 DEF PassTemp
  <2>2. \A i \in 1..Len(calls) : i \in 1..Len(calls') /\ calls[i].args \subseteq calls'[i].args
    <3>1. CASE calls' = calls
      BY <3>1
    <3>2. CASE running /\ calls' = [calls EXCEPT ![Len(calls)] = e]
      <4>1. tmp \in Cell
        BY <1>2, <2>1, <3>2 DEF TypeOK, WalkInv, TempInv
      <4>2. e \in Call /\ calls[Len(calls)].args \subseteq e.args
        BY <1>9, <2>1, <4>1 DEF Call
      <4> QED
        BY <1>8, <2>1, <3>2, <4>2
    <3> QED
      BY <1>9, <1>12, <2>1, <3>1, <3>2 DEF PassTemp
  <2>3. \A c \in live' \ {tmp} : Kept(c)
    BY <1>1, <1>3, <1>4, <2>1, <2>2 DEF Kept
  <2> QED
    BY <2>3
<1>13. ASSUME NEW own \in BOOLEAN, CallEnd(own) PROVE \E d : \A c \in live' \ {d} : Kept(c)
  <2> DEFINE n == Len(calls)
  <2>1. calls # <<>> /\ calls' = Front(calls) /\ state' = state /\ tmp = Null
    BY <1>2, <1>13 DEF CallEnd, AtExpr, WalkInv, TempInv
  <2>2. \A i \in 1..n : i = n \/ (i \in 1..Len(calls') /\ calls'[i] = calls[i])
    <3>1. n \in Nat \ {0} /\ Len(calls') = n - 1 /\ \A i \in 1..(n - 1) : calls'[i] = calls[i]
      BY <1>2, <2>1, PopStack, TopOfStack
    <3> QED
      BY <3>1
  <2>3. \A c \in live' : c = tmp' \/ (c \in live /\ c \notin calls[n].args)
    <3>1. CASE running
      BY <1>9, <1>13, <2>1, <3>1 DEF CallEnd
    <3>2. CASE ~running
      <4>1. n \in 1..n /\ live' = live
        BY <1>2, <1>13, <2>1, <3>2, TopOfStack DEF CallEnd
      <4> QED
        BY <1>2, <3>2, <4>1 DEF WalkInv, CallInv
    <3> QED
      BY <3>1, <3>2
  <2>4. \A c \in live' \ {tmp'} : Kept(c)
    BY <1>1, <1>2, <1>3, <1>4, <2>1, <2>2, <2>3 DEF Kept
  <2> QED
    BY <2>4
<1>14. ASSUME NEW use \in TempUses, UseTemp(use)
       PROVE  \E d : \A c \in live' \ {d} : Kept(c)
  <2>1. live' = live \ {tmp} /\ state' = state /\ calls' = calls
    BY <1>14 DEF UseTemp, TempFreed, Disciplined, Enabled
  <2> QED
    BY <1>1, <1>3, <1>4, <2>1 DEF Kept
<1> QED
  BY <1>5, <1>6, <1>7, <1>10, <1>11, <1>12, <1>13, <1>14 DEF Expression

LEMMA StatementGivesOne ==
  ASSUME Disciplined, IInv, Assignment \/ Branch \/ Loop
  PROVE  \E d : \A c \in live' \ {d} : Kept(c)
<1>1. phase = "walk" /\ calls = <<>> /\ live' = live
  BY DEF Assignment, Branch, Loop, Bind, MoveAssign, IfThen, IfElse, IfEnd, WhileCond, WhileBody,
         WhileEnd, ValueForStmt, AtStmt, AtExpr, runVars
<1>2. TypeOK /\ WalkInv /\ Null \notin live /\ \A i : i \notin 1..Len(calls)
  BY <1>1, StatementFacts
<1>3. \A c \in live : c = tmp \/ \E x \in Var : Track[x] = "Owned" /\ slot[x] = c
  BY <1>2 DEF WalkInv, HeldInv
<1>4. ASSUME NEW x \in Var, Bind(x) PROVE \E d : \A c \in live' \ {d} : Kept(c)
  <2>1. /\ state[x] # "Owned" /\ state' = [state EXCEPT ![x] = "Owned"]
        /\ slot' = IF running THEN [slot EXCEPT ![x] = tmp] ELSE slot
        /\ frozen' = frozen /\ home' = home
    BY <1>4 DEF Bind, Assignable, Disciplined, Enabled
  <2>2. \A y \in Var : Track[y] = "Owned" => Track'[y] = "Owned" /\ slot'[y] = slot[y]
    BY <1>2, <2>1 DEF Track, running, TypeOK, StateMap
  <2>3. \A c \in live' \ {tmp} : Kept(c)
    BY <1>1, <1>3, <2>2 DEF Kept
  <2> QED
    BY <2>3
<1>5. ASSUME NEW x \in Var, NEW y \in Var, MoveAssign(x, y)
      PROVE  \E d : \A c \in live' \ {d} : Kept(c)
  <2>1. /\ MoveOut(y)[x] # "Owned" /\ state' = [MoveOut(y) EXCEPT ![x] = "Owned"]
        /\ slot' = IF running THEN [slot EXCEPT ![x] = slot[y]] ELSE slot
        /\ frozen' = frozen /\ home' = home /\ tmp' = tmp /\ tmp = Null
    BY <1>2, <1>5 DEF MoveAssign, AtStmt, AtExpr, Assignable, Disciplined, Enabled, WalkInv, TempInv
  <2>2. \A z \in Var : z # y /\ Track[z] = "Owned" => Track'[z] = "Owned" /\ slot'[z] = slot[z]
    BY <1>2, <2>1 DEF Track, running, TypeOK, StateMap, MoveOut
  <2>3. \A c \in live' \ {slot[y]} : Kept(c)
    BY <1>1, <1>2, <1>3, <2>1, <2>2 DEF Kept
  <2> QED
    BY <2>3
<1>6. CASE Branch \/ Loop
  <2>1. OwnedIn(Track') = OwnedIn(Track) /\ slot' = slot /\ tmp' = tmp
    <3>1. OwnedIn(Track') = OwnedIn(Track)
      BY <1>6, BranchStep, LoopStep
    <3> QED
      BY <1>6, <3>1 DEF Branch, Loop, IfThen, IfElse, IfEnd, WhileCond, WhileBody, WhileEnd, runVars
  <2>2. \A x \in Var : Track[x] = "Owned" => Track'[x] = "Owned"
    BY <2>1 DEF OwnedIn
  <2> QED
    BY <1>1, <1>3, <2>1, <2>2 DEF Kept
<1> QED
  BY <1>4, <1>5, <1>6 DEF Assignment

(* MoveAnalysis and the code it accepts implement the linear heap: a step  *)
(* of the function is a step of the heap's work, its return is the end.    *)
THEOREM ImplementsLinearHeap ==
  ASSUME Disciplined
  PROVE  Spec => LinearHeapSpec
<1>1. SoleHolder => Heap!Linear
  BY DEF SoleHolder, Heap!HeldByOne, Heap!Linear
<1>2. IInv' => Heap!Linear'
  BY <1>1, SoleHolderHoldsNext DEF SoleHolder, Heap!HeldByOne, Heap!Linear
<1>3. Init => Heap!Init
  BY <1>1, IInvInit, SoleHolderHolds DEF Heap!Init, Init, IInv, TypeOK
<1>4. ASSUME IInv, IInv', [Next]_vars PROVE [Heap!Next]_(Heap!hvars)
  <2>1. Heap!Linear' /\ live' \subseteq Cell
    BY <1>2, <1>4 DEF IInv, TypeOK
  <2>2. CASE Expression \/ Assignment \/ Branch \/ Loop
    <3>1. phase = "walk" /\ phase' = "walk"
      BY <2>2 DEF Expression, CheckUse, Borrow, ConsumeVar, CallBegin, CallEnd, Alloc, PassTemp,
         UseTemp, AtExpr, walkVars, runVars, Assignment, Branch, Loop, Bind,
         MoveAssign, IfThen, IfElse, IfEnd, WhileCond, WhileBody, WhileEnd, ValueForStmt, AtStmt
    <3>2. PICK d : \A c \in live' \ {d} : Kept(c)
      BY <1>4, <2>2, ExpressionGivesOne, StatementGivesOne
    <3>3. \A c \in live' \ {d} : HoldersOf(c)' = HoldersOf(c) /\ c \in Cell
      BY <1>4, <2>1, <3>1, <3>2, KeptHolder
    <3>4. \A c, e \in Heap!Given : c = e
      BY <3>3 DEF Heap!Given
    <3>5. Heap!Work
      BY <2>1, <3>1, <3>4 DEF Heap!Work
    <3> QED
      BY <3>5 DEF Heap!Next
  <2>3. CASE Return
    <3>1. phase = "walk" /\ phase' = "exited" /\ live' \subseteq live
      BY <2>3 DEF Return, ReturnVar, ReturnRead, ReturnValue, AtReturn, Exit
    <3>2. OverInv'
      BY <1>4, <3>1 DEF IInv
    <3>3. \A c \in Cell : HoldersOf(c)' = IF c \in live' THEN {CallerHolder} ELSE {}
      <4>1. tmp' = Null /\ live' = {returned'} \ {Null} /\ DOMAIN calls' = {}
        BY <3>2 DEF OverInv
      <4>2. \A c \in Cell : c # Null
        BY NullAssumption
      <4> QED
        BY <3>1, <4>1, <4>2 DEF HoldersOf
    <3>4. \A c, e \in live' : c = e
      BY <3>2 DEF OverInv
    <3>5. Heap!Finish
      BY <3>1, <3>3, <3>4 DEF Heap!Finish
    <3> QED
      BY <3>5 DEF Heap!Next
  <2>4. CASE Rejection
    <3>1. phase = "walk" /\ phase' = "rejected" /\ live' = {}
      BY <2>4 DEF Rejection, RejectUseAfterMove, RejectCallHeldBorrow, RejectAssignOverLive,
         RejectJoin, RejectLoopCondition, RejectLoopBody, Reject, AtExpr, AtStmt, ValueForStmt
    <3>2. Heap!Work
      BY <2>1, <3>1 DEF Heap!Work, Heap!Given
    <3> QED
      BY <3>2 DEF Heap!Next
  <2>5. CASE UNCHANGED vars
    BY <2>5 DEF vars, walkVars, runVars, Heap!hvars, HoldersOf, Track, running
  <2> QED
    BY <1>4, <2>2, <2>3, <2>4, <2>5 DEF Next, Done
<1>5. IInv /\ IInv' /\ [Next]_vars => [Heap!Next]_(Heap!hvars)
  BY <1>4
<1> QED
  BY <1>3, <1>5, IInvInit, IInvStep, PTL DEF Spec, LinearHeapSpec, Heap!Spec

=============================================================================
