---------------------------- MODULE TypeInference ----------------------------
(***************************************************************************)
(* Type inference in stages (TypeInference::run): a control-flow analysis  *)
(* finds what each call may call; functions that neither are nor call      *)
(* recursive ones are solved callees first, and each call by name of such  *)
(* a function gets a copy of its type; all others are solved together.     *)
(***************************************************************************)
EXTENDS ProgramText, TypeTerms, TopoSort, FiniteSets

CONSTANTS
  Inputs,      \* what the programs are made of
  ProgramOf(_) \* the program of an input

VARIABLES
  mayCall,  \* per call site, the functions that may be called
  missed,   \* history: the analysis has left functions behind (see PassedOver)
  bound,    \* the state of the unifier
  types     \* the result: the type of each variable, call and function

inference == <<mayCall, missed, sorting, bound, types>>

-----------------------------------------------------------------------------
(* The node that stands for an expression (getCanonical, astToVar): the    *)
(* declaration of a variable, of a function, or the expression itself.     *)
VarNode(f, v) == IF v \in Fn(f).vars THEN <<f, v, 0>> ELSE <<v, "", 0>>
CallNode(f, call) == <<f, "call", call.site>>
DerefNode(f, v) == <<f, v, 1>>
LookNode(f, v) == <<f, v, 2>>

FlowNode(f, e) ==
  IF e.op = "var" THEN VarNode(f, e.var)
  ELSE IF e.op = "call" THEN CallNode(f, e) ELSE <<f, e.op, 9>>

FlowNodes ==
  UNION {{<<f, "", 0>>} \cup {<<f, v, 0>> : v \in Fn(f).vars}
           \cup {FlowNode(f, e) : e \in ToSet(Expressions(Fn(f).body))} : f \in Names}

(* CFAnalyzer: the flows of the assignments, and of the calls of what is   *)
(* found to be called.                                                     *)
AssignFlows ==
  UNION {{<<FlowNode(f, s.exp), VarNode(f, s.var)>> :
            s \in {s \in Within(Fn(f).body) : s.op = "assign"}} : f \in Names}

(* Mutant: the result flows back for each formal.                          *)
CallFlowsOfFormals(f, call, g) ==
  {<<FlowNode(f, call.args[i]), VarNode(g, Fn(g).formals[i])>> : i \in DOMAIN call.args}
    \cup {<<FlowNode(g, Returned(Fn(g))), CallNode(f, call)>> : i \in DOMAIN call.args}

CallFlows(f, call, g) ==
  {<<FlowNode(f, call.args[i]), VarNode(g, Fn(g).formals[i])>> : i \in DOMAIN call.args}
    \cup {<<FlowNode(g, Returned(Fn(g))), CallNode(f, call)>>}

Fits(call, g) == Len(call.args) = Len(Fn(g).formals)

CallsWithin == UNION {{<<f, c>> : c \in ToSet(CallsOf(Fn(f)))} : f \in Names}

CalledBy(found, f, call) == {g \in found[VarNode(f, call.fn)] : Fits(call, g)}

FlowsUnder(found) ==
  {e \in AssignFlows \cup
           UNION {UNION {CallFlows(f, call, g) : g \in CalledBy(found, f, call)} :
                  <<f, call>> \in CallsWithin} :
     e[1] \in DOMAIN found}

RECURSIVE LeastFlow(_, _)

(* The least solution, but for functions that are not pushed along a flow. *)
LeastFlow(found, left) ==
  LET flows == FlowsUnder(found)
      next  == [n \in DOMAIN found |->
                  found[n] \cup UNION {{g \in found[e[1]] : <<e, g>> \notin left} :
                                      e \in {e \in flows : e[2] = n}}]
  IN  IF next = found THEN found ELSE LeastFlow(next, left)

Flow(left) == LeastFlow([n \in FlowNodes |-> IF n[2] = "" THEN {n[1]} ELSE {}], left)

RECURSIVE Downstream(_, _)
Downstream(flows, S) ==
  LET next == S \cup {e[2] : e \in {e \in flows : e[1] \in S}}
  IN  IF next = S THEN S ELSE Downstream(flows, next)

(* mergeNodes: the nodes on the cycles that new flows close.               *)
Merged(flows, new) ==
  LET back == {<<e[2], e[1]>> : e \in flows}
  IN  UNION {IF e[1] \in Downstream(flows, {e[2]})
             THEN Downstream(flows, {e[2]}) \cap Downstream(back, {e[1]}) ELSE {} :
             e \in new}

(* What the solver may leave behind (CubicSolver's PassedOver and          *)
(* IteratorLost): functions h, with the flows e along which they are not   *)
(* pushed. While a node pushes g along another flow, way, g gets to the    *)
(* variable that a call calls, and the flows of the call merge nodes; the  *)
(* loop of the push passes over e if e or way leads to one of these. The   *)
(* order of the constraints and the addresses of the nodes decide.         *)
PassedOver(flow) ==
  LET flows == FlowsUnder(flow)
      Overtaken(e, called, merged) ==
        /\ e[1] \notin Downstream(flows, {e[2]})
        /\ \E way \in flows \ {e} :
             /\ way[1] = e[1]
             /\ called \in Downstream(flows, {way[2]})
             /\ {e[2], way[2]} \cap merged # {}
      Left(f, call, g) ==
        LET merged == Merged(flows, CallFlows(f, call, g))
        IN  {<<e, h>> \in {e \in flows : merged # {} /\ g \in flow[e[1]]} \X Names :
               h \in flow[e[1]] /\ Overtaken(e, VarNode(f, call.fn), merged)}
  IN  UNION {UNION {Left(fc[1], fc[2], g) : g \in CalledBy(flow, fc[1], fc[2])} :
             fc \in {fc \in CallsWithin : fc[2].fn \notin Names}}

MayCall(flow) ==
  [site \in {fc[2].site : fc \in CallsWithin} |->
     LET fc == CHOOSE fc \in CallsWithin : fc[2].site = site
     IN  flow[VarNode(fc[1], fc[2].fn)]]

Callees(f) == UNION {mayCall'[c.site] : c \in ToSet(CallsOf(Fn(f)))}

(* CallGraph::build, from the solution that the solver arrives at.         *)
BuildCallGraph ==
  /\ phase = "calls"
  /\ \E left \in SUBSET PassedOver(Flow({})) :
       /\ left \subseteq PassedOver(Flow(left))
       /\ missed' = (left # {})
       /\ mayCall' = MayCall(Flow(left))
  /\ callees' = [f \in Names |-> Callees(f)]
  /\ reached' = callees'
  /\ phase' = "search"
  /\ UNCHANGED <<prog, reason, poly, unmarked, visits, sorted, bound, types>>

-----------------------------------------------------------------------------
(* TypeConstraintVisitor. A node whose type its own constraint gives is    *)
(* replaced by that type.                                                  *)
TermOf(f, e) ==
  CASE e.op = "var" -> TypeVar(VarNode(f, e.var))
    [] e.op = "lend" -> RefType(Borrow, TypeVar(VarNode(f, e.var)))
    [] e.op = "deref" -> TypeVar(DerefNode(f, e.var))
    [] e.op = "look" -> TypeVar(LookNode(f, e.var))
    [] e.op = "alloc" -> RefType(Own, IntType)
    [] e.op = "const" -> IntType
    [] e.op = "call" -> TypeVar(CallNode(f, e))

DerefRule(f, v) ==
  <<RefType(ModeVar(DerefNode(f, v)), TypeVar(DerefNode(f, v))), TypeVar(VarNode(f, v))>>

LookRule(f, v) ==
  <<RefType(ModeVar(LookNode(f, v)), TypeVar(LookNode(f, v))), TypeVar(DerefNode(f, v))>>

AtomRules(f, e) ==
  CASE e.op = "deref" -> <<DerefRule(f, e.var)>>
    [] e.op = "look" -> <<DerefRule(f, e.var), LookRule(f, e.var)>>
    [] OTHER -> <<>>

CallType(f, call) ==
  FunType([i \in DOMAIN call.args |-> TermOf(f, call.args[i])], TermOf(f, call))

(* The rule for calls: the expression called is a function of that type.   *)
MonoRule(f, call) == <<TypeVar(VarNode(f, call.fn)), CallType(f, call)>>

(* PolyTypeConstraintVisitor: for each function that may be called, a copy *)
(* of its type, if it is called by name, has been generalised, and its     *)
(* type has variables and no recursion.                                    *)
Inferred(node, b) == Close(TypeVar(node), {}, b)

PolyRule(f, call, g) ==
  LET generic == Inferred(<<g, "", 0>>, bound)
  IN  IF /\ g \in poly /\ call.fn \in Names
         /\ FreeVariables(generic) # {} /\ ~HasRecursion(generic)
      THEN <<Copy(generic, call.site), CallType(f, call)>> ELSE MonoRule(f, call)

(* Mutant: no rule where the analysis finds nothing to be called.          *)
PolyRulesOfKnown(f, call) ==
  LET called == SetToSeq(mayCall[call.site])
  IN  [i \in DOMAIN called |-> PolyRule(f, call, called[i])]

PolyRules(f, call) ==
  LET called == SetToSeq(mayCall[call.site])
  IN  IF called = <<>> THEN <<MonoRule(f, call)>>
      ELSE [i \in DOMAIN called |-> PolyRule(f, call, called[i])]

CallRules(f, call, staged) ==
  FlattenSeq([i \in DOMAIN call.args |-> AtomRules(f, call.args[i])])
    \o (IF staged THEN PolyRules(f, call) ELSE <<MonoRule(f, call)>>)

StatementRules(f, s, staged) ==
  (IF s.exp.op = "call" THEN CallRules(f, s.exp, staged) ELSE AtomRules(f, s.exp))
    \o CASE s.op = "assign" -> <<<<TypeVar(VarNode(f, s.var)), TermOf(f, s.exp)>>>>
         [] s.op = "store" ->
              <<DerefRule(f, s.var),
                <<RefType(ModeVar(DerefNode(f, s.var)), TermOf(f, s.exp)),
                  TypeVar(VarNode(f, s.var))>>>>
         [] s.op \in {"output", "if", "while"} -> <<<<TermOf(f, s.exp), IntType>>>>
         [] s.op = "return" -> <<>>

FunctionRules(f) ==
  LET formals == Fn(f).formals
      result  == TermOf(f, Returned(Fn(f)))
  IN  (IF f = "main" THEN <<<<result, IntType>>>> ELSE <<>>)
        \o <<<<TypeVar(<<f, "", 0>>),
               FunType([i \in DOMAIN formals |-> TypeVar(<<f, formals[i], 0>>)], result)>>>>

RulesOf(f, staged) ==
  LET statements == Statements(Fn(f).body)
  IN  FlattenSeq([i \in DOMAIN statements |-> StatementRules(f, statements[i], staged)])
        \o FunctionRules(f)

-----------------------------------------------------------------------------
(* runPoly: one function that is generalised, solved on top of the others. *)
Generics(f) == {c.fn : c \in ToSet(CallsOf(Fn(f)))} \cap poly

InferNext ==
  /\ TakeNext
  /\ LET after == Solve(RulesOf(Head(sorted), TRUE), bound)
     IN  IF \E g \in Generics(Head(sorted)) : HasUnclosed(Inferred(<<g, "", 0>>, bound))
         THEN Reject("internal-error") /\ UNCHANGED bound
         ELSE IF ~after.ok THEN Reject("type") /\ UNCHANGED bound
         ELSE bound' = after.bound /\ UNCHANGED <<phase, reason>>
  /\ UNCHANGED <<mayCall, missed, types>>

TypesFrom(b) ==
  [var |-> [f \in Names |-> [v \in Fn(f).vars |-> Inferred(<<f, v, 0>>, b)]],
   call |-> [site \in DOMAIN mayCall |->
               LET f == CHOOSE f \in Names : \E c \in ToSet(CallsOf(Fn(f))) : c.site = site
               IN  Inferred(<<f, "call", site>>, b)],
   fn |-> [f \in Names |-> Inferred(<<f, "", 0>>, b)]]

AllTypes(of) ==
  UNION {ToSet(of.call), ToSet(of.fn), UNION {ToSet(of.var[f]) : f \in Names}}

(* The rest, without copies. The result is what can be asked of the        *)
(* unifier from here on.                                                   *)
InferRest ==
  /\ phase = "stages"
  /\ sorted = <<>>
  /\ LET others == SelectSeq(prog.order, LAMBDA f : f \notin poly)
         after  == Solve(FlattenSeq([i \in DOMAIN others |-> RulesOf(others[i], FALSE)]),
                         bound)
         found  == TypesFrom(after.bound)
     IN  IF ~after.ok THEN Reject("type") /\ UNCHANGED <<bound, types>>
         ELSE IF \E t \in AllTypes(found) : HasUnclosed(t)
         THEN Reject("internal-error") /\ UNCHANGED <<bound, types>>
         ELSE /\ bound' = NothingBound
              /\ types' = found
              /\ phase' = "build"
              /\ UNCHANGED reason
  /\ UNCHANGED <<prog, mayCall, missed, sorting>>

InferenceInit ==
  /\ \E c \in Inputs : prog = ProgramOf(c)
  /\ reason = "none"
  /\ mayCall = <<>> /\ missed = FALSE /\ callees = <<>> /\ reached = <<>>
  /\ NoSort
  /\ bound = NothingBound
  /\ types = <<>>

Infer ==
  \/ BuildCallGraph
  \/ Sort /\ UNCHANGED <<mayCall, missed, bound, types>>
  \/ InferNext \/ InferRest
=============================================================================
