-------------------------------- MODULE Driver --------------------------------
(***************************************************************************)
(* src/topc.cpp and SemanticAnalysis::analyze: which passes run, in which  *)
(* order, for the views and the compilation the options ask for.  Every    *)
(* product is made when the first view needs it and kept: the lambdas of   *)
(* main() make what they rest on before their own.  Reading, printing,     *)
(* drawing, the symbol table and the checks of the shape are the real ones *)
(* (FrontEnd, SymbolTable, WeedingChecks); each later pass accepts or      *)
(* rejects as it likes.  A reader may then read the shown source again,    *)
(* with the builder's variables as the first reading left them.            *)
(***************************************************************************)
EXTENDS FrontEnd, SymbolTable, WeedingChecks

CONSTANT Runs         \* the pairs of a text and of the options given with it

VARIABLES
  options,      \* the options on the command line
  wanted,       \* the views and the compilation that main() has still to serve
  have,         \* the products made so far
  passed,       \* the passes run so far, in order
  failed,       \* the pass that threw
  outputs,      \* what was shown and emitted, each with the number of passes before
  table         \* symTable

driverVars == <<options, wanted, have, passed, failed, outputs, table>>
vars == <<phase, frontEndVars, driverVars>>

---------------------------------------------------------------------------
(* Options.                                                                *)
Views == <<"source", "ast", "symbols", "types", "callgraph", "cfg", "ownership", "borrow">>
Files == {"ast", "callgraph", "cfg"}
ConstraintCapable == {"types", "callgraph", "ownership", "borrow"}
CompileFlags == {"-o", "--asm", "--do", "--san"}

hasInspectionRequest(opts) == opts \cap ToSet(Views) # {}
compileRequested(opts) == ~hasInspectionRequest(opts) \/ opts \cap CompileFlags # {}

\* The requests that main() refuses before it opens the file.
Unanswerable(opts) ==
  \/ "unknown rule" \in opts \/ "invalid format" \in opts
  \/ "constraint" \in opts /\ opts \cap ConstraintCapable = {}

Wanted(opts) ==
  SelectSeq(Views, LAMBDA v : v \in opts)
    \o (IF compileRequested(opts) THEN <<"compile">> ELSE << >>)

---------------------------------------------------------------------------
(* Products.                                                               *)

\* analyze(): every pass, in order.
StructuralChecks ==
  <<"CheckAssignable", "BorrowChecker::check", "CheckSumTypeNames",
    "CheckCaseCompleteness", "CheckPatternTypes">>
analyze ==
  <<"SymbolTable">> \o StructuralChecks
    \o <<"IntraproceduralCFGs", "CallGraph", "TypeInference", "checkAllocPayloads",
         "FunctionEffectSummaries", "checkPositions", "resolveRequirements",
         "checkBorrowComponents", "MoveAnalysis", "DestructionPass">>

\* The graphs built without the checks.
EnsureWithoutChecks ==
  [symbols    |-> [first |-> << >>, run |-> <<"SymbolTable">>],
   structural |-> [first |-> << >>, run |-> StructuralChecks],
   borrow     |-> [first |-> <<"structural">>, run |-> << >>],
   cfgs       |-> [first |-> <<"symbols">>, run |-> <<"IntraproceduralCFGs">>],
   callGraph  |-> [first |-> <<"symbols", "cfgs">>, run |-> <<"CallGraph">>],
   types      |-> [first |-> <<"callGraph">>, run |-> <<"TypeInference", "checkAllocPayloads">>],
   effects    |-> [first |-> <<"types">>,
                   run |-> <<"FunctionEffectSummaries", "checkPositions", "resolveRequirements">>],
   components |-> [first |-> <<"effects">>, run |-> <<"checkBorrowComponents">>],
   ownership  |-> [first |-> <<"components">>, run |-> <<"MoveAnalysis", "DestructionPass">>]]

\* The lambdas of main(): what each makes sure of first and what it then runs.
Ensure ==
  [symbols    |-> [first |-> << >>, run |-> <<"SymbolTable">>],
   structural |-> [first |-> << >>, run |-> StructuralChecks],
   borrow     |-> [first |-> <<"structural">>, run |-> << >>],
   cfgs       |-> [first |-> <<"symbols", "borrow">>, run |-> <<"IntraproceduralCFGs">>],
   callGraph  |-> [first |-> <<"symbols", "cfgs">>, run |-> <<"CallGraph">>],
   types      |-> [first |-> <<"callGraph">>, run |-> <<"TypeInference", "checkAllocPayloads">>],
   effects    |-> [first |-> <<"types">>,
                   run |-> <<"FunctionEffectSummaries", "checkPositions", "resolveRequirements">>],
   components |-> [first |-> <<"effects">>, run |-> <<"checkBorrowComponents">>],
   ownership  |-> [first |-> <<"components">>, run |-> <<"MoveAnalysis", "DestructionPass">>]]

Needs(view) ==
  CASE view \in {"source", "ast"} -> << >>
    [] view = "symbols"   -> <<"symbols", "structural", "cfgs">>
    [] view = "types"     -> <<"types">>
    [] view = "callgraph" -> <<"callGraph">>
    [] view = "cfg"       -> <<"cfgs">>
    [] view = "borrow"    -> <<"components">>
    [] view \in {"ownership", "compile"} -> <<"ownership">>

\* The first product missing, below the goals in the order of the calls.
RECURSIVE Missing(_)
Missing(goals) ==
  LET missing == SelectSeq(goals, LAMBDA g : g \notin have)
  IN IF missing = << >> THEN "nothing"
     ELSE LET below == Missing(Ensure[Head(missing)].first)
          IN IF below = "nothing" THEN Head(missing) ELSE below

\* Whether a pass accepts the program, where the model computes it.
Decided == {"SymbolTable", "IntraproceduralCFGs", "CallGraph", "DestructionPass"}
             \cup ToSet(StructuralChecks)
Judge(pass) ==
  CASE pass = "SymbolTable"           -> SymbolTableOf(trees[1]).error = NoError
    [] pass = "CheckAssignable"       -> CheckAssignable(trees[1])
    [] pass = "BorrowChecker::check"  -> BorrowCheck(trees[1])
    [] pass = "CheckSumTypeNames"     -> CheckSumTypeNames(trees[1])
    [] pass = "CheckCaseCompleteness" -> CheckCaseCompleteness(trees[1])
    [] pass = "CheckPatternTypes"     -> CheckPatternTypes(trees[1])
    [] OTHER                          -> TRUE

\* The outcomes of passes run one after the other: the first of them that
\* rejects the program, or "none".
Outcomes(passes) ==
  LET Undecided == {p \in ToSet(passes) : p \notin Decided}
      Rejects(p) == p \in Decided /\ ~Judge(p)
      first == SelectInSeq(passes, Rejects)
      before(i) == {passes[j] : j \in 1 .. i}
  IN IF first = 0 THEN {"none"} \cup Undecided
     ELSE {passes[first]} \cup (Undecided \cap before(first - 1))

---------------------------------------------------------------------------
Init ==
  /\ \E run \in Runs : source = run.text /\ options = run.options
  /\ phase = "options"
  /\ FrontEndInit
  /\ wanted = << >> /\ have = {} /\ passed = << >> /\ failed = "none"
  /\ outputs = << >> /\ table = EmptyTable

Start ==
  /\ phase = "options"
  /\ IF Unanswerable(options) \/ "no such file" \in options THEN phase' = "failure" /\ UNCHANGED wanted
     ELSE phase' = "read" /\ wanted' = Wanted(options)
  /\ UNCHANGED <<frontEndVars, options, have, passed, failed, outputs, table>>

Read == phase = "read" /\ parse(source, "failure") /\ UNCHANGED driverVars
Build ==
  /\ \/ build(IF trees = << >> THEN "serve" ELSE "reread")
     \/ refuse(IF trees = << >> THEN "failure" ELSE "unreadable")
  /\ UNCHANGED driverVars

Serving(view) == phase = "serve" /\ wanted # << >> /\ Head(wanted) = view

ShowSource ==
  /\ Serving("source") /\ StartPrinting
  /\ wanted' = Tail(wanted) /\ outputs' = Append(outputs, [what |-> "source", after |-> 0])
  /\ UNCHANGED <<options, have, passed, failed, table>>
ShowTree ==
  /\ Serving("ast") /\ "unwritable" \notin options /\ StartDrawing
  /\ wanted' = Tail(wanted) /\ outputs' = Append(outputs, [what |-> "ast", after |-> 0])
  /\ UNCHANGED <<options, have, passed, failed, table>>
PrintOrDraw == (prettyprint \/ astVisualize) /\ UNCHANGED driverVars

\* A lambda runs its passes; an error ends main() with a failure.
Make ==
  /\ phase = "serve" /\ wanted # << >>
  /\ LET goal   == Missing(Needs(Head(wanted)))
         passes == Ensure[goal].run
     IN /\ goal # "nothing"
        /\ \E outcome \in Outcomes(passes) :
             IF outcome = "none"
               THEN /\ have' = have \cup {goal}
                    /\ passed' = passed \o passes
                    /\ UNCHANGED <<phase, failed>>
               ELSE /\ phase' = "failure" /\ failed' = outcome
                    /\ passed' = passed \o
                         SubSeq(passes, 1, (CHOOSE i \in DOMAIN passes : passes[i] = outcome) - 1)
                    /\ UNCHANGED have
        /\ table' = IF goal = "symbols" THEN SymbolTableOf(trees[1]) ELSE table
  /\ UNCHANGED <<frontEndVars, options, wanted, outputs>>

\* All that the view or the compilation needs is there.
Show ==
  /\ phase = "serve" /\ wanted # << >> /\ Head(wanted) \notin {"source", "ast"}
  /\ Missing(Needs(Head(wanted))) = "nothing"
  /\ ~(Head(wanted) \in Files /\ "unwritable" \in options)
  /\ outputs' = Append(outputs, [what |-> Head(wanted), after |-> Len(passed)])
  /\ wanted' = Tail(wanted)
  /\ UNCHANGED <<phase, frontEndVars, options, have, passed, failed, table>>

\* The file of a graph cannot be opened or its directory not be made: main()
\* ends in the middle of the views.
CannotWrite ==
  /\ phase = "serve" /\ wanted # << >> /\ Head(wanted) \in Files /\ "unwritable" \in options
  /\ Missing(Needs(Head(wanted))) = "nothing"
  /\ phase' = "failure"
  /\ UNCHANGED <<frontEndVars, driverVars>>

ExitMain ==
  /\ phase = "serve" /\ wanted = << >>
  /\ phase' = "success"
  /\ UNCHANGED <<frontEndVars, driverVars>>

Ended == phase \in {"success", "failure"}

\* The reader of the normalized source.
ReadAgain ==
  /\ Ended /\ "source" \in {outputs[i].what : i \in DOMAIN outputs}
  /\ parse(printed, "unreadable")
  /\ UNCHANGED driverVars

Finished ==
  /\ \/ phase \in {"reread", "unreadable"}
     \/ Ended /\ "source" \notin {outputs[i].what : i \in DOMAIN outputs}
  /\ UNCHANGED vars

Next ==
  \/ Start \/ Read \/ Build \/ ShowSource \/ ShowTree \/ PrintOrDraw
  \/ Make \/ Show \/ CannotWrite \/ ExitMain \/ ReadAgain \/ Finished

Spec == Init /\ [][Next]_vars

---------------------------------------------------------------------------
(* Properties                                                              *)

Ran(pass) == pass \in ToSet(passed)
Shown(what) == \E i \in DOMAIN outputs : outputs[i].what = what
Position(pass) == CHOOSE i \in DOMAIN analyze : analyze[i] = pass

(* Whatever the options ask for, the passes run in the order of analyze,   *)
(* none twice and none left out in between, so that the verdict is that of *)
(* analyze: what fails is the first pass that rejects, a program is        *)
(* compiled only when every pass has accepted it, and a view that walks    *)
(* the tree is shown before the destruction pass changes it (the lambdas   *)
(* of main() repeat the sequence of analyze by hand).                      *)
VerdictOfAnalyze ==
  /\ IsPrefix(passed, analyze)
  /\ failed # "none" => phase # "success" /\ failed = analyze[Len(passed) + 1]
  /\ Shown("compile") => passed = analyze
  /\ phase = "success" /\ compileRequested(options) => Shown("compile")
  /\ \A i \in DOMAIN outputs :
       outputs[i].what \in {"source", "ast", "symbols", "types", "callgraph", "cfg"} =>
         outputs[i].after < Position("DestructionPass")

(* A name that no arm binds, or one arm alone and only its uses, means     *)
(* what is in scope where it is used. A name that an arm shares with       *)
(* another declaration, or that is used outside of the arm, means a binder *)
(* of some arm of the function, which need not be one in scope ("Pattern   *)
(* bindings are local to their arm"). What the table refuses is wrong: a   *)
(* function, a formal or a local declared twice or a use of what is not in *)
(* scope. A constructor is the one its type declares once the sum types    *)
(* have been checked.                                                      *)
NamesResolve ==
  LET tree1 == trees[1]
      Fs    == ToSet(FunctionPaths(tree1))
      names == {NameAt(tree1, DeclOf(f)) : f \in Fs}
      Scope(f, u) == InScope(tree1, f, u, NameAt(tree1, u))
      Shared(f, u) ==
        LET name == NameAt(tree1, u)
            arms == BoundBy(tree1, f, name)
        IN /\ arms # {}
           /\ \/ OwnDecls(tree1, f, name) # {} \/ Cardinality(arms) > 1
              \/ Cardinality(Scope(f, u)) # 1
      Binds(f) == {p \in {f \o q : q \in Paths(At(tree1, f))} :
                     At(tree1, p).is = "DeclNode" /\ p # DeclOf(f)}
  IN /\ table # EmptyTable /\ table.error = NoError =>
          \A f \in Fs :
            /\ \A p \in Binds(f) : NameAt(tree1, p) \notin names
            /\ \A u \in Uses(tree1, f) :
                 LET d == getLocal(table, NameAt(tree1, u), DeclOf(f))
                 IN \/ getFunction(table, NameAt(tree1, u)) # << >> /\ d = << >>
                    \/ d # << >> /\ Scope(f, u) = {d}
                    \/ Shared(f, u) /\ Front(d) \in BoundBy(tree1, f, NameAt(tree1, u))
     /\ failed = "SymbolTable" =>
          \/ Cardinality(names) < Cardinality(Fs)
          \/ \E f \in Fs :
               \/ \E p \in Binds(f) :
                    NameAt(tree1, p) \in names
                      \/ Cardinality(OwnDecls(tree1, f, NameAt(tree1, p))) > 1
               \/ \E u \in Uses(tree1, f) : NameAt(tree1, u) \notin names /\ Scope(f, u) = {}
     /\ Ran("CheckSumTypeNames") /\ table # EmptyTable =>
          \A tag \in DOMAIN table.constructors :
            Front(getConstructor(table, tag)) = getConstructorOwner(table, tree1, tag)

\* The patterns of the texts are three constructors deep.
ValueDepth == 3

(* The checks of case statements say no more and no less than they may: a  *)
(* value of the type goes through no arm only if every arm of its          *)
(* constructor has nested patterns; no arm stands behind one that takes    *)
(* all; every arm can take a value; and where a case is refused, an arm    *)
(* can take no value that reaches it, or a constructor has no arm, or one  *)
(* is unknown, of another type or of another arity ("Redundant arms are    *)
(* rejected").                                                             *)
CasesJudgedRight ==
  LET tree1 == trees[1]
      cases == NodesOf(tree1, "CaseStmt")
      Arms(stmt) == Tail(stmt.kids)
      OfType(stmt) == {v \in Values(tree1, ValueDepth) :
                         v.tag # "" /\ constructorType(tree1, v.tag)
                                         = constructorType(tree1, Arms(stmt)[1].name)}
      Taken(stmt, v) == \E i \in DOMAIN Arms(stmt) : Takes(Arms(stmt)[i], v)
      OddArm(arm) == ~Fits(tree1, arm.name, Len(arm.patterns))
  IN /\ Ran("CheckCaseCompleteness") =>
          \A stmt \in cases :
            /\ \A v \in OfType(stmt) :
                 Taken(stmt, v) \/ \A i \in DOMAIN Arms(stmt) :
                   Arms(stmt)[i].name = v.tag => ~allIrrefutablePayload(Arms(stmt)[i])
            /\ \A v \in OfType(stmt) : \E i \in DOMAIN Arms(stmt) : Arms(stmt)[i].name = v.tag
            /\ \A i, j \in DOMAIN Arms(stmt) :
                 j < i /\ Arms(stmt)[j].name = Arms(stmt)[i].name
                   => ~allIrrefutablePayload(Arms(stmt)[j])
     /\ Ran("CheckPatternTypes") =>
          \A stmt \in cases : \A i \in DOMAIN Arms(stmt) :
            \E v \in OfType(stmt) : Takes(Arms(stmt)[i], v)
     /\ failed = "CheckCaseCompleteness" =>
          \/ \E e \in NodesOf(tree1, "SumCtorExpr") : ~Fits(tree1, e.name, Len(e.kids))
          \/ \E stmt \in cases :
               \/ \E i \in DOMAIN Arms(stmt) :
                    OddArm(Arms(stmt)[i]) \/ Dead(tree1, Arms(stmt), i, ValueDepth)
               \/ \E i, j \in DOMAIN Arms(stmt) :
                    constructorType(tree1, Arms(stmt)[i].name)
                      # constructorType(tree1, Arms(stmt)[j].name)
               \/ \E v \in OfType(stmt) : ~Taken(stmt, v)
=============================================================================
