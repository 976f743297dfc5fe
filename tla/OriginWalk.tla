----------------------------- MODULE OriginWalk -----------------------------
(***************************************************************************)
(* The walk over a function body that FunctionEffectSummaries::build makes *)
(* (analyzeBody): where the value of each local comes from, which formals  *)
(* are passed on, on all paths or on some, and which are used again after  *)
(* that.                                                                   *)
(***************************************************************************)
EXTENDS ProgramText

(* OriginFact. "fallback": the type of the return may decide instead.      *)
Origin(from, formal, fallback) ==
  [from |-> from, formal |-> formal, fallback |-> fallback]

Unknown == Origin("unknown", 0, TRUE)
Conflict == Origin("unknown", 0, FALSE)
Fresh == Origin("fresh", 0, TRUE)
FromFormal(i) == Origin("formal", i, TRUE)
BorrowOf(i) == Origin("borrow", i, TRUE)

(* OriginState, with the log of the calls that pass a formal on.           *)
StartState(formals) ==
  [origins |-> [v \in ToSet(formals) |->
                  FromFormal(CHOOSE i \in DOMAIN formals : formals[i] = v)],
   forwarded |-> {}, maybe |-> {}, reused |-> {}, log |-> {}]

OriginOfVar(v, st) == IF v \in DOMAIN st.origins THEN st.origins[v] ELSE Unknown

(* originForExpr.                                                          *)
OriginOf(e, st) ==
  CASE e.op = "var" -> OriginOfVar(e.var, st)
    [] e.op = "lend" /\ OriginOfVar(e.var, st).from = "formal" ->
         BorrowOf(OriginOfVar(e.var, st).formal)
    [] e.op = "alloc" -> Fresh
    [] OTHER -> Unknown

(* noteForwards at a variable, under & and * too: a use of a formal.       *)
Touch(v, st) ==
  LET o == OriginOfVar(v, st)
  IN  IF o.from = "formal" /\ o.formal \in st.maybe
      THEN [st EXCEPT !.reused = @ \cup {o.formal}] ELSE st

TouchIn(e, st) ==
  IF e.op \in {"var", "lend", "deref", "look"} THEN Touch(e.var, st) ELSE st

PassOn(i, call, k, st) ==
  [st EXCEPT !.forwarded = @ \cup {i}, !.maybe = @ \cup {i},
             !.log = @ \cup {[formal |-> i, site |-> call.site, arg |-> k]}]

(* One actual: it is used, and if it is a formal, passed on.               *)
NoteActual(call, k, st) ==
  LET touched == TouchIn(call.args[k], st)
      o       == OriginOf(call.args[k], touched)
  IN  IF o.from = "formal" THEN PassOn(o.formal, call, k, touched) ELSE touched

(* noteForwards.                                                           *)
Note(e, st) ==
  IF e.op = "call"
  THEN FoldLeft(LAMBDA s, k : NoteActual(e, k, s), Touch(e.fn, st),
                [k \in 1..Len(e.args) |-> k])
  ELSE TouchIn(e, st)

JoinOrigins(l, r) ==
  [v \in DOMAIN l.origins \cup DOMAIN r.origins |->
     IF v \in DOMAIN l.origins \cap DOMAIN r.origins /\ l.origins[v] = r.origins[v]
     THEN l.origins[v] ELSE Conflict]

Joined(origins, forwarded, l, r) ==
  [origins |-> origins, forwarded |-> forwarded,
   maybe |-> l.maybe \cup r.maybe,
   reused |-> l.reused \cup r.reused,
   log |-> l.log \cup r.log]

(* Mutants: passed on along one path is enough; one side's origins are     *)
(* taken for both.                                                         *)
JoinStatesEither(l, r) == Joined(JoinOrigins(l, r), l.forwarded \cup r.forwarded, l, r)
JoinStatesRight(l, r) == Joined(r.origins, l.forwarded \cap r.forwarded, l, r)

(* joinStates.                                                             *)
JoinStates(l, r) == Joined(JoinOrigins(l, r), l.forwarded \cap r.forwarded, l, r)

AssignOrigin(v, e, st) ==
  LET o == OriginOf(e, st)
  IN  [st EXCEPT !.origins =
         [w \in IF o.from = "unknown" THEN DOMAIN @ \ {v} ELSE DOMAIN @ \cup {v} |->
            IF w = v THEN o ELSE @[w]]]

RECURSIVE WalkBlock(_, _)

(* Mutant: the body of a loop is walked once.                              *)
WalkLoopOnce(s, st) ==
  LET before == Note(s.exp, st)
  IN  JoinStates(before, WalkBlock(s.body, before))

(* A second walk finds what one iteration passes on and the next one uses; *)
(* nothing else of it is kept.                                             *)
WalkLoop(s, st) ==
  LET before == Note(s.exp, st)
      joined == JoinStates(before, WalkBlock(s.body, before))
      again  == WalkBlock(s.body, Note(s.exp, joined))
  IN  [joined EXCEPT !.reused = @ \cup again.reused]

(* analyzeStmtOrigins.                                                     *)
WalkStmt(s, st) ==
  CASE s.op = "assign" -> AssignOrigin(s.var, s.exp, Note(s.exp, st))
    [] s.op = "if" ->
         LET before == Note(s.exp, st)
         IN  JoinStates(WalkBlock(s.then, before), WalkBlock(s.else, before))
    [] s.op = "while" -> WalkLoop(s, st)
    [] s.op \in {"store", "output", "return"} -> Note(s.exp, st)

WalkBlock(block, st) ==
  IF block = <<>> THEN st ELSE WalkBlock(Tail(block), WalkStmt(Head(block), st))

(* analyzeBody.                                                            *)
BodyFacts(fn) ==
  LET before == WalkBlock(Front(fn.body), StartState(fn.formals))
      after  == Note(Last(fn.body).exp, before)
  IN  [returned |-> OriginOf(Last(fn.body).exp, after),
       forwarded |-> after.forwarded, reused |-> after.reused, log |-> after.log]
=============================================================================
