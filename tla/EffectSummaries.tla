-------------------------- MODULE EffectSummaries --------------------------
(***************************************************************************)
(* The semantic pipeline of topc from the syntax tree to the rules about   *)
(* ownership in generic functions, in the order of SemanticAnalysis: where *)
(* a borrow may stand, control flow graphs (ControlFlow), call graph and   *)
(* types (TypeInference), FunctionEffectSummaries::build (OriginWalk), the *)
(* position check of BorrowChecker, resolveRequirements with its loop over *)
(* the calls (Requirements), the effects of the calls, and                 *)
(* checkBorrowComponents. Each may reject the program for a reason.        *)
(*                                                                         *)
(* A program that is accepted is then run. A generic body is compiled once *)
(* and frees nothing of variable type, so that whether memory is freed     *)
(* exactly once rests on the summaries alone. What an owner may do within  *)
(* a function is judged by MoveAnalysis, which the inputs here satisfy.    *)
(***************************************************************************)
EXTENDS ControlFlow, OriginWalk, TypeInference, Requirements, TLC

CONSTANT MaxDepth   \* activations at a time

VARIABLES
  graphs,    \* per function, its control flow graph
  summary,   \* per function
  positions, \* per formal, the requirement that the position check found
  effects,   \* per call site, the actuals it consumes
  frames,    \* the activations, the innermost last
  made,      \* cells allocated
  freed,     \* cells freed
  misuse     \* a freed cell was read, written or freed

analysis == <<graphs, summary, positions, resolving, effects>>
running == <<frames, made, freed, misuse>>
vars == <<prog, phase, reason, inference, analysis, running>>

-----------------------------------------------------------------------------
VarType(f, v) == IF v \in Fn(f).vars THEN types.var[f][v] ELSE types.fn[v]

(* The solved type of an expression of function f.                         *)
TypeIn(f, e) ==
  CASE e.op = "var" -> VarType(f, e.var)
    [] e.op = "lend" -> RefType(Borrow, VarType(f, e.var))
    [] e.op = "deref" -> ReferentOf(VarType(f, e.var))
    [] e.op = "look" -> ReferentOf(ReferentOf(VarType(f, e.var)))
    [] e.op = "alloc" -> RefType(Own, IntType)
    [] e.op = "const" -> IntType
    [] e.op = "call" -> types.call[e.site]

ResultType(f) == TypeIn(f, Returned(Fn(f)))

(* The calls with the functions they are in (CallCollector).               *)
Calls ==
  FlattenSeq([k \in DOMAIN prog.order |->
    [i \in DOMAIN CallsOf(Fn(prog.order[k])) |->
      [scope |-> prog.order[k], call |-> CallsOf(Fn(prog.order[k]))[i]]]])

(* targetsOf: the function named, else what the call graph knows.          *)
Targets(call) == IF call.fn \in Names THEN {call.fn} ELSE mayCall[call.site]

-----------------------------------------------------------------------------
ModeOf(t) ==
  IF Owns(t) THEN "own" ELSE IF HasVariable(t) THEN "depends" ELSE "copy"

ReturnOrigin(f, o) ==
  IF o.from = "unknown" /\ o.fallback
  THEN IF Owns(ResultType(f)) THEN "fresh" ELSE "copy"
  ELSE o.from

(* A generic formal that the body neither returns nor passes on.           *)
NotDisposed(t, i, facts) ==
  /\ ModeOf(t) = "depends"
  /\ DependsOnInstance(t)
  /\ facts.returned # FromFormal(i)
  /\ i \notin facts.forwarded

Reused(t, i, facts) == ModeOf(t) = "depends" /\ i \in facts.reused

FormalType(f, i) == types.var[f][Fn(f).formals[i]]

Summarise(f) ==
  LET facts == BodyFacts(Fn(f))
      n     == DOMAIN Fn(f).formals
  IN  [mode |-> [i \in n |-> ModeOf(FormalType(f, i))],
       forwarded |-> [i \in n |-> i \in facts.forwarded],
       origin |-> ReturnOrigin(f, facts.returned),
       formal |-> facts.returned.formal,
       log |-> facts.log]

(* The formals of all functions, each with what is required of it for some *)
(* reasons.                                                                *)
AllFormals == UNION {{<<f, i>> : i \in DOMAIN Fn(f).formals} : f \in Names}

RequiredFor(why, needs) == [needs |-> IF why = {} THEN "none" ELSE needs, why |-> why]

WalkAsks(f, i) ==
  LET facts == BodyFacts(Fn(f))
      type  == FormalType(f, i)
  IN  RequiredFor({r \in {"reused", "dropped"} :
                     \/ r = "reused" /\ Reused(type, i, facts)
                     \/ r = "dropped" /\ NotDisposed(type, i, facts)}, "self")

Init ==
  /\ InferenceInit
  /\ phase = "weed"
  /\ graphs = <<>>
  /\ summary = <<>> /\ positions = <<>> /\ effects = <<>>
  /\ asked = <<>> /\ required = <<>> /\ actuals = <<>>
  /\ at = 1 /\ changed = FALSE
  /\ frames = <<>>
  /\ made = 0 /\ freed = {} /\ misuse = FALSE

(* check: a borrow is an actual of a call, and nothing else.               *)
Weed ==
  /\ phase = "weed"
  /\ IF \E f \in Names : \E e \in ToSet(Expressions(Fn(f).body)) : e.op = "lend"
     THEN Reject("borrow-position")
     ELSE phase' = "graphs" /\ UNCHANGED reason
  /\ UNCHANGED <<prog, inference, analysis, running>>

BuildGraphs ==
  /\ phase = "graphs"
  /\ graphs' = [f \in Names |-> GraphOf(Fn(f))]
  /\ IF \A f \in Names : Valid(graphs'[f])
     THEN phase' = "calls" /\ UNCHANGED reason
     ELSE Reject("internal-error")
  /\ UNCHANGED <<prog, inference, summary, positions, resolving, effects, running>>

(* rejectUnsupportedRecursiveType, on functions and their formals.         *)
RecursiveTypes ==
  \E f \in Names :
    \/ HasRecursiveFunction(types.fn[f])
    \/ \E v \in ToSet(Fn(f).formals) : HasRecursiveFunction(types.var[f][v])

(* build: no function's summary needs another's.                           *)
Build ==
  /\ phase = "build"
  /\ IF RecursiveTypes THEN Reject("recursive-type") /\ UNCHANGED <<summary, required>>
     ELSE /\ summary' = [f \in Names |-> Summarise(f)]
          /\ required' = [k \in AllFormals |-> WalkAsks(k[1], k[2])]
          /\ phase' = "positions"
          /\ UNCHANGED reason
  /\ UNCHANGED <<prog, inference, graphs, positions, asked, actuals, at, changed,
                 effects, running>>

-----------------------------------------------------------------------------
(* checkPositions. What *v and **v stand for when they are taken, and what *)
(* a write through v replaces.                                             *)
Taken(fn) ==
  {e \in UNION {{e} \cup (IF e.op = "call" THEN ToSet(e.args) ELSE {}) :
                e \in ToSet(Expressions(fn.body))} : e.op \in {"deref", "look"}}

Overwritten(fn) == {Deref(s.var) : s \in {s \in Within(fn.body) : s.op = "store"}}

(* An owned value that is taken is rejected at once; of a value of         *)
(* variable type something is asked of the caller. Behind an owner there   *)
(* is never an owner.                                                      *)
Undecided(e, f) ==
  /\ TypeIn(f, e).op \in {"var", "alpha"}
  /\ ~Owns(IF e.op = "look" THEN ReferentOf(VarType(f, e.var)) ELSE VarType(f, e.var))

FormalOf(v, fn) == {i \in DOMAIN fn.formals : fn.formals[i] = v}

(* Mutant: what a call gives back is not looked at.                        *)
BorrowDerivedDirect(e) == e.op = "lend"

(* borrowOrigin: a borrow, or a call that gives back a borrowed actual.    *)
BorrowDerived(e) ==
  \/ e.op = "lend"
  \/ /\ e.op = "call" /\ e.fn \in Names
     /\ summary[e.fn].origin \in {"formal", "borrow"}
     /\ e.args[summary[e.fn].formal].op = "lend"

Escapes(fn) ==
  \E s \in Within(fn.body) :
    s.op \in {"assign", "store", "return"} /\ BorrowDerived(s.exp)

PositionRejects(f) ==
  LET fn == Fn(f)
  IN  {r \in {"alias-move-out", "alias-overwrite", "alias-undecidable", "borrow-escape"} :
        \/ r = "alias-move-out" /\ \E e \in Taken(fn) : Owns(TypeIn(f, e))
        \/ r = "alias-overwrite" /\ \E e \in Overwritten(fn) : Owns(TypeIn(f, e))
        \/ r = "alias-undecidable"
             /\ \E e \in Taken(fn) \cup Overwritten(fn) :
                  Undecided(e, f) /\ (e.op = "look" \/ FormalOf(e.var, fn) = {})
        \/ r = "borrow-escape" /\ Escapes(fn)}

PositionAsks(f, i) ==
  LET of(S) == \E e \in S : Undecided(e, f) /\ e.var = Fn(f).formals[i]
  IN  RequiredFor({r \in {"moves-out", "overwrites"} :
                     \/ r = "moves-out" /\ of(Taken(Fn(f)))
                     \/ r = "overwrites" /\ of(Overwritten(Fn(f)))}, "referent")

Positions ==
  /\ phase = "positions"
  /\ LET rejects == UNION {PositionRejects(f) : f \in Names}
     IN  IF rejects # {}
         THEN (\E r \in rejects : Reject(r)) /\ UNCHANGED positions
         ELSE /\ positions' = [k \in AllFormals |-> PositionAsks(k[1], k[2])]
              /\ phase' = "join"
              /\ UNCHANGED reason
  /\ UNCHANGED <<prog, inference, graphs, summary, resolving, effects, running>>

-----------------------------------------------------------------------------
(* resolveRequirements: the requirements of both walks are joined, and the *)
(* calls are collected.                                                    *)
JudgeSelf(t) ==
  IF Owns(t) THEN "violated"
  ELSE IF DependsOnInstance(t) THEN "undetermined" ELSE "satisfied"

JudgeReferent(t) ==
  IF t.op = "ref" THEN JudgeSelf(ReferentOf(t))
  ELSE IF HasVariable(t) THEN "undetermined" ELSE "satisfied"

(* The formal that a variable is.                                          *)
FormalIndexOf(e, scope) ==
  LET is == FormalOf(e.var, Fn(scope))
  IN  IF is = {} THEN NoFormal ELSE <<scope, CHOOSE i \in is : TRUE>>

(* The formal of the caller that an actual stands for: what the body walk  *)
(* logged, else the variable itself.                                       *)
StandsFor(scope, call, k) ==
  LET logged == {r \in summary[scope].log : r.site = call.site /\ r.arg = k}
  IN  IF logged # {} THEN <<scope, (CHOOSE r \in logged : TRUE).formal>>
      ELSE IF call.args[k].op = "var" THEN FormalIndexOf(call.args[k], scope) ELSE NoFormal

ActualFor(scope, call, g, k) ==
  LET e == call.args[k]
      t == TypeIn(scope, e)
  IN  [of |-> <<g, k>>, self |-> JudgeSelf(t), referent |-> JudgeReferent(t),
       lends |-> e.op = "lend", from |-> StandsFor(scope, call, k),
       lent |-> IF e.op = "lend" THEN FormalIndexOf(e, scope) ELSE NoFormal]

ActualsOf(c) ==
  FlattenSeq([n \in 1..Cardinality(Targets(c.call)) |->
    LET g == SetToSeq(Targets(c.call))[n]
    IN  [k \in DOMAIN c.call.args |-> ActualFor(c.scope, c.call, g, k)]])

JoinRequirements ==
  /\ phase = "join"
  /\ required' = [k \in AllFormals |-> Join(required[k], positions[k])]
  /\ asked' = required'
  /\ actuals' = FlattenSeq([n \in DOMAIN Calls |-> ActualsOf(Calls[n])])
  /\ phase' = "resolve"
  /\ UNCHANGED <<prog, reason, inference, graphs, summary, positions, at, changed,
                 effects, running>>

(* The actuals that a call of g takes over: owned ones whose formal owns,  *)
(* or depends on the instance.                                             *)
Consumes(c, g) ==
  [k \in DOMAIN c.call.args |->
     /\ summary[g].mode[k] # "copy"
     /\ Owns(TypeIn(c.scope, c.call.args[k]))]

CallEffects ==
  /\ phase = "effects"
  /\ LET found(c) == {Consumes(c, g) : g \in Targets(c.call)}
     IN  IF \E c \in ToSet(Calls) : Cardinality(found(c)) > 1
         THEN Reject("internal-error") /\ UNCHANGED effects
         ELSE /\ effects' =
                   [site \in {c.call.site : c \in ToSet(Calls)} |->
                      LET c == CHOOSE c \in ToSet(Calls) : c.call.site = site
                      IN  IF found(c) = {} THEN [k \in DOMAIN c.call.args |-> FALSE]
                          ELSE CHOOSE x \in found(c) : TRUE]
              /\ phase' = "components"
              /\ UNCHANGED reason
  /\ UNCHANGED <<prog, inference, graphs, summary, positions, resolving, running>>

-----------------------------------------------------------------------------
(* The program that was accepted. A value is nothing yet, an integer, a    *)
(* cell, a function, or a borrow: the slot of a variable of an activation. *)
Unset == [kind |-> "unset"]
Number == [kind |-> "int"]
Cell(n) == [kind |-> "cell", id |-> n]
FnValue(f) == [kind |-> "fun", name |-> f]
Slot(depth, v) == [kind |-> "slot", depth |-> depth, var |-> v]

(* result: the value of a call that stands in a return or a condition.     *)
Activation(f, values, dst) ==
  [fn |-> f,
   env |-> [v \in Fn(f).vars \cup {"result"} |->
              IF v \in ToSet(Fn(f).formals)
              THEN values[CHOOSE i \in DOMAIN values : Fn(f).formals[i] = v] ELSE Unset],
   todo |-> Fn(f).body,
   given |-> values,    \* history: the actuals
   passed |-> {},       \* history: the values passed to calls
   owned |-> {v \in ToSet(Fn(f).formals) : Owns(types.var[f][v])},
   dst |-> dst]

(* checkBorrowComponents, on the results of the functions; then main.      *)
CheckComponents ==
  /\ phase = "components"
  /\ IF \E f \in Names : HasBorrow(ResultType(f))
     THEN Reject("borrow-component") /\ UNCHANGED frames
     ELSE /\ phase' = "run"
          /\ frames' = <<Activation("main", <<>>, "none")>>
          /\ UNCHANGED reason
  /\ UNCHANGED <<prog, inference, analysis, made, freed, misuse>>

Act == Last(frames)
Now == Head(Act.todo)
At(op) == phase = "run" /\ Now.op = op

(* The slot of an activation that is over; using it is misuse.             *)
Gone(value) == value.kind = "slot" /\ value.depth = 0

Through(value) ==
  IF value.kind = "slot" /\ ~Gone(value)
  THEN frames[value.depth].env[value.var] ELSE Number

ValueOf(e) ==
  CASE e.op = "var" -> IF e.var \in DOMAIN Act.env THEN Act.env[e.var] ELSE FnValue(e.var)
    [] e.op = "lend" -> Slot(Len(frames), e.var)
    [] e.op = "deref" -> Through(Act.env[e.var])
    [] e.op = "look" -> Through(Through(Act.env[e.var]))
    [] e.op = "alloc" -> Cell(made + 1)
    [] e.op = "const" -> Number

(* Reading *v where v holds a freed cell, or **v where v's slot does.      *)
Reads(e) ==
  IF e.op = "deref" THEN {Act.env[e.var]}
  ELSE IF e.op = "look" THEN {Through(Act.env[e.var])} ELSE {}

Dead(value) == Gone(value) \/ (value.kind = "cell" /\ value.id \in freed)

(* Going on with the rest, or with other statements before the rest.       *)
Continue(frame, statements) ==
  frames' = Append(Front(frames), [frame EXCEPT !.todo = statements \o Tail(@)])

(* A move takes the variable out of what is destroyed at the exit.         *)
Moved(e, frame) ==
  IF e.op = "var" THEN [frame EXCEPT !.owned = @ \ {e.var}] ELSE frame

Stored(v, value, frame) ==
  [frame EXCEPT !.env[v] = value,
                !.owned = IF v \in Fn(frame.fn).vars /\ Owns(types.var[frame.fn][v])
                          THEN @ \cup {v} ELSE @]

DoAssign ==
  /\ At("assign")
  /\ Now.exp.op # "call"
  /\ Continue(Stored(Now.var, ValueOf(Now.exp), Moved(Now.exp, Act)), <<>>)
  /\ made' = IF Now.exp.op = "alloc" THEN made + 1 ELSE made
  /\ misuse' = (misuse \/ \E x \in Reads(Now.exp) : Dead(x))
  /\ UNCHANGED <<prog, phase, reason, inference, analysis, freed>>

(* A write through a borrow replaces what the slot holds.                  *)
DoStore ==
  /\ At("store")
  /\ LET to   == Act.env[Now.var]
         rest == Append(Front(frames), [Act EXCEPT !.todo = Tail(@)])
     IN  /\ frames' = IF to.kind = "slot" /\ ~Gone(to)
                      THEN [rest EXCEPT ![to.depth].env[to.var] = ValueOf(Now.exp)]
                      ELSE rest
         /\ misuse' = (misuse \/ Dead(to))
  /\ UNCHANGED <<prog, phase, reason, inference, analysis, made, freed>>

(* What is called must be a function with as many formals.                 *)
Callee(call) == IF call.fn \in DOMAIN Act.env THEN Act.env[call.fn] ELSE FnValue(call.fn)
Callable(call) ==
  Callee(call).kind = "fun" /\ Fits(call, Callee(call).name)

Enter(call, frame, statements, dst) ==
  LET values == [k \in DOMAIN call.args |-> ValueOf(call.args[k])]
      gone   == {call.args[k].var : k \in {k \in DOMAIN call.args :
                   effects[call.site][k] /\ call.args[k].op = "var"}}
      caller == [frame EXCEPT !.todo = statements \o Tail(@),
                              !.owned = @ \ gone,
                              !.passed = @ \cup ToSet(values)]
  IN  frames' = Front(frames) \o <<caller, Activation(Callee(call).name, values, dst)>>

DoCall ==
  /\ phase = "run"
  /\ Now.exp.op = "call"
  /\ Callable(Now.exp)
  /\ Len(frames) < MaxDepth
  /\ CASE Now.op = "assign" -> Enter(Now.exp, Act, <<>>, Now.var)
       [] Now.op = "return" -> Enter(Now.exp, Act, <<Return(Var("result"))>>, "result")
       [] Now.op \in {"if", "output"} ->
            Enter(Now.exp, Act, <<[Now EXCEPT !.exp = Const]>>, "result")
       [] Now.op = "while" ->
            Enter(Now.exp, Act, <<If(Const, Now.body \o <<Now>>, <<>>)>>, "result")
  /\ UNCHANGED <<prog, phase, reason, inference, analysis, made, freed, misuse>>

DoOutput ==
  /\ At("output")
  /\ Now.exp.op # "call"
  /\ Continue(Act, <<>>)
  /\ misuse' = (misuse \/ \E x \in Reads(Now.exp) : Dead(x))
  /\ UNCHANGED <<prog, phase, reason, inference, analysis, made, freed>>

DoBranch ==
  /\ phase = "run"
  /\ Now.op \in {"if", "while"}
  /\ Now.exp.op # "call"
  /\ \E taken \in BOOLEAN :
       Continue(Act, IF Now.op = "if" THEN IF taken THEN Now.then ELSE Now.else
                     ELSE IF taken THEN Now.body \o <<Now>> ELSE <<>>)
  /\ UNCHANGED <<prog, phase, reason, inference, analysis, made, freed, misuse>>

(* What is left of the slots of the innermost activation when it is over.  *)
Outlived(frame) ==
  [frame EXCEPT !.env =
     [v \in DOMAIN @ |->
        IF @[v].kind = "slot" /\ @[v].depth = Len(frames) THEN Slot(0, @[v].var) ELSE @[v]]]

(* The owners that are left are destroyed at the exit; a value of variable *)
(* type never is.                                                          *)
DoReturn ==
  /\ At("return")
  /\ Now.exp.op # "call"
  /\ LET left   == {v \in Moved(Now.exp, Act).owned : Act.env[v].kind = "cell"}
         cells  == {Act.env[v].id : v \in left}
         caller == frames[Len(frames) - 1]
     IN  /\ freed' = freed \cup cells
         /\ misuse' = \/ misuse \/ cells \cap freed # {}
                      \/ Cardinality(cells) < Cardinality(left)
                      \/ \E x \in Reads(Now.exp) : Dead(x)
         /\ IF Len(frames) = 1
            THEN phase' = "done" /\ UNCHANGED frames
            ELSE /\ frames' =
                      LET rest == Append(Front(Front(frames)),
                                         Stored(Act.dst, ValueOf(Now.exp), caller))
                      IN  [k \in DOMAIN rest |-> Outlived(rest[k])]
                 /\ UNCHANGED phase
  /\ UNCHANGED <<prog, reason, inference, analysis, made>>

Compile ==
  \/ Weed \/ BuildGraphs
  \/ Infer
     /\ UNCHANGED <<analysis, running>>
  \/ Build \/ Positions \/ JoinRequirements
  \/ ResolveNext
     /\ UNCHANGED <<inference, graphs, summary, positions, effects, running>>
  \/ CallEffects
  \/ CheckComponents

Run == DoAssign \/ DoStore \/ DoOutput \/ DoCall \/ DoBranch \/ DoReturn

Next == Compile \/ Run

Spec == Init /\ [][Next]_vars

-----------------------------------------------------------------------------
(* Properties.                                                             *)

(* A function that reads through a formal and also passes it on.           *)
ReadsAndPasses(fn) ==
  \E v \in ToSet(fn.formals) :
    /\ \E s \in Within(fn.body) :
         s.exp \in {Deref(v), Look(v)} \/ (s.op = "store" /\ s.var = v)
    /\ \E c \in ToSet(CallsOf(fn)) : Var(v) \in ToSet(c.args)

(* Only the meeting of two modes in such a function breaks an invariant of *)
(* the compiler: what one call may call agrees on what it takes over, and  *)
(* every other type can be closed.                                         *)
InternalErrorsKnown ==
  reason = "internal-error" => \E f \in Names : ReadsAndPasses(Fn(f))

(* A program that is accepted frees no cell twice, and reads, writes and   *)
(* lends none that is freed, whatever a generic body does with the owned   *)
(* values it is given - unless the call graph misses a call: what is moved *)
(* into a function nobody knows is freed by both.                          *)
MemorySafe == ~missed => ~misuse

(* Whoever follows the control flow graph of a function meets the          *)
(* statements and conditions the body runs through, and no others.         *)
GraphsFollow ==
  phase = "calls" => \A f \in Names : Follows(graphs[f], Fn(f))

(* A borrow is confined to the calls it is passed to: no activation holds  *)
(* one of a variable of its own, nor of one that is over. Two things are   *)
(* let pass: a function that returns a formal without its summary saying   *)
(* so, and what is written through a borrow of a borrow.                   *)
OriginLost(f) ==
  /\ summary[f].origin \notin {"formal", "borrow"}
  /\ \E v \in ToSet(Fn(f).formals) :
       HasVariable(types.var[f][v]) /\ types.var[f][v] = ResultType(f)
BorrowOfBorrow ==
  \E c \in ToSet(Calls) : \E k \in DOMAIN c.call.args :
    LET t == TypeIn(c.scope, c.call.args[k]) IN t.op = "ref" /\ HasBorrow(ReferentOf(t))
BorrowsConfined ==
  phase = "run" /\ ~BorrowOfBorrow /\ (\A f \in Names : ~OriginLost(f)) =>
    \A k \in DOMAIN frames : \A v \in DOMAIN frames[k].env :
      frames[k].env[v].kind = "slot" => frames[k].env[v].depth \in 1..(k - 1)

(* What a generic function gives back is itself given back.                *)
ResultsKept ==
  \A f \in Names : \A s \in Within(Fn(f).body) :
    /\ s.op = "assign" /\ s.exp.op = "call"
    /\ DependsOnInstance(TypeIn(f, s.exp))
    /\ \E g \in Targets(s.exp) : ResultType(g) # IntType
    =>
      /\ Returned(Fn(f)) = Var(s.var)
      /\ s \in ToSet(Fn(f).body)
      /\ \A r \in Within(Fn(f).body) : r.op = "assign" /\ r.var = s.var => r = s

(* Where no result of a generic call is let fall, every cell is freed: a   *)
(* formal that is neither returned nor passed on gets no owned actual, as  *)
(* far as the calls are known along which this is required.                *)
NothingLeaks == phase = "done" /\ ~missed /\ ResultsKept => freed = 1..made

Returning == phase = "run" /\ Now.op = "return" /\ Now.exp.op # "call"

(* A function whose return is said to come from a formal returns what that *)
(* formal was given.                                                       *)
ReturnOriginSound ==
  Returning /\ summary[Act.fn].origin = "formal" =>
    ValueOf(Now.exp) = Act.given[summary[Act.fn].formal]

(* A formal that is said to be passed on has been, whichever way the body  *)
(* was run through.                                                        *)
ForwardedSound ==
  Returning => \A i \in DOMAIN summary[Act.fn].forwarded :
                 summary[Act.fn].forwarded[i] => Act.given[i] \in Act.passed

(* An accepted program never calls what is not a function of as many       *)
(* formals, and dereferences references only.                              *)
Atoms(e) == IF e.op = "call" THEN ToSet(e.args) ELSE {e}
Dereferenced(e) ==
  IF e.op \notin {"deref", "look"} THEN {}
  ELSE {Act.env[e.var]} \cup
         (IF e.op = "look" THEN {Through(Act.env[e.var])} ELSE {})
TypeSafe ==
  phase = "run" =>
    /\ Now.exp.op = "call" =>
         Callee(Now.exp).kind = "unset" \/ Callable(Now.exp)
    /\ \A e \in Atoms(Now.exp) : \A x \in Dereferenced(e) :
         x.kind \in {"unset", "cell", "slot"}
    /\ Now.op = "store" => Act.env[Now.var].kind \in {"unset", "cell", "slot"}

(* Whatever is called is in the call graph, but for two ways past it: a    *)
(* function that is read through a borrow is not followed, and the cubic   *)
(* solver may leave functions behind where it merges nodes under a push.   *)
LendsFunctions ==
  \E f \in Names : \E v \in Fn(f).vars :
    HasFunction(types.var[f][v]) /\ types.var[f][v].op = "ref"
CallGraphComplete ==
  phase = "run" /\ Now.exp.op = "call" /\ Callable(Now.exp) /\ ~LendsFunctions /\ ~missed =>
    Callee(Now.exp).name \in mayCall[Now.exp.site]
=============================================================================
