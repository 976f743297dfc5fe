# Verification of topc in TLA+

`topc` compiles TOP, a small language with owned heap values, borrows, sum
types, pattern matching and inferred recursive types, to LLVM. It is a
sequential program: what is hard about it is not interleaving but that several
passes must agree. The type solver decides what is owned; the ownership
analysis decides from that what is moved, what is rejected and what is freed
where; the code generator emits the frees. If two of them disagree, the compiled
program uses freed memory or leaks. This directory holds TLA+ models of those
passes, the TLC runs that check them on small instances, and TLAPS proofs for
every size. Source lines are given in `PROJECT.json` ("map").

## Inventory

`topc.cpp` reads the program, serves the views asked for one after the other and
compiles, making each product when it is first needed. `SemanticAnalysis::analyze`
is the same as one sequence: symbol table, weeding checks (assignability, borrows
as actuals only, sum type names, case completeness, pattern types), control flow
graphs, call graph, type inference, alloc payload rule, function effect summaries
(with the classifier), borrow positions, requirements on the calls, borrow
component rule, move analysis, destruction pass. Then code is generated and
optimised. An error in any pass throws and ends the compilation.

| component | state it keeps | what makes it correct | modelled in |
|---|---|---|---|
| parser, syntax tree (`ASTBuilder`) | nine variables that each visit overwrites | the tree is what the text says | `Grammar`, `SyntaxTree`, `ASTBuilder` |
| printers (`PrettyPrinter`, `ASTVisualizer`) | stacks of texts, of parents, of subtrees | what is shown is the tree | `PrettyPrinter`, `ASTVisualizer` |
| driver, pipeline | options, products made so far, exit status | the verdict is the same whatever is asked for | `FrontEnd`, `Driver` |
| symbol table | names to declarations | a use resolves to the declaration in scope | `SymbolTable` |
| weeding checks, case completeness | arms seen, per constructor | no value goes past all arms, no arm is useless | `WeedingChecks`, `MatchOwnership` |
| control flow graphs | blocks and edges | the paths of the tree | `ControlFlow` |
| cubic solver, call graph | a graph of nodes with merged cycles | the least solution; always ends | `CubicSolver`, `TypeInference` |
| term unifier | equation queue, union-find | most general solution over regular trees, or an error; always ends | `TermUnifier`, `Unification` |
| type inference, type closure | poly marks, the work list of the sort, one unifier for all stages | callees before callers; accepted programs do not go wrong | `TopoSort`, `TypeInference`, `TypeTerms` |
| ownership classifier and type rules | none | one class for a type, wherever it is asked | `TypeTerms`, `EffectSummaries` |
| effect summaries | a summary per function, requirements | a caller may rely on what the summary says; every call answers for what is required | `OriginWalk`, `Requirements`, `EffectSummaries` |
| borrow checker | alias names, requirements | what is borrowed is not consumed and does not outlive its call | `EffectSummaries`, `MatchOwnership` |
| move analysis, `DestructionPass` | a `StateMap` per program point, `heldBorrows`, the destruction plan | accepted programs free every value once and use none after | `MoveAnalysis`, `MatchOwnership` |
| code generator, heap part | allocas (`namedValues`), emitted loads, stores, frees | does what the plan assumes, in the right order | same |
| rule toggles | disabled rule ids | a rule that is off is off everywhere | constant of `OwnershipState` |
| optimizer, runtime library, logging, hashing | none of interest | | no |

The hard behaviours are: facts that are joined over paths or iterations and then
drive a single static plan; pointers that stay in allocas after a move; names
that resolve to one declaration per function although binders have scopes;
several places that each free a part of a matched value; generic bodies that are
compiled once and free nothing, so that all rests on what their callers know of
them; solvers on cyclic data that have to end; a graph that changes while it is
walked; batches of constraints on top of earlier solutions; results left in
variables for whoever reads them next; one order of passes written down twice.
All are in `PROJECT.json` under "hazards", with the properties that would notice.

## Modules

| module | models | uses |
|---|---|---|
| `OwnershipState` | the dataflow facts: `StateMap`, joins, the loop rules, toggles | |
| `LinearHeap` | abstract: every cell has one holder until it is freed, once | |
| `MoveAnalysis` | walk and run of one function: expressions, calls, borrows, branches, loops, exit | `OwnershipState`, `LinearHeap` |
| `MoveAnalysisProofs` | theorems about it | TLAPS |
| `MatchOwnership` | walk and run of case statements on owned trees | `OwnershipState` |
| `MatchOwnershipProofs` | theorems about it | TLAPS |
| `Terms`, `Unification` | terms, and abstract unification: classes that grow | |
| `TermUnifier` | `TermUnifier`, `TermUnionFind`, `Unifier` | `Unification` |
| `UnificationProofs`, `TermUnifierProofs` | theorems about the two | TLAPS |
| `Inclusions` | abstract: the least solution of inclusion constraints | |
| `CubicSolver` | `CubicSolverT`, call by call | `Inclusions` |
| `InclusionsProofs`, `CubicSolverProofs` | theorems about the two | TLAPS |
| `ProgramText` | programs in a normal form, for `EffectSummaries` and what it uses | |
| `TypeTerms` | types: solving, closing, classifying | |
| `Pipeline` | what the stages share: the program, the next stage, the rejection | |
| `TopoSort` | `topoSortNonRecursive`: which functions are generalised, and in which order | `Pipeline` |
| `TopoSortProofs` | theorems about it | TLAPS |
| `TypeInference` | `CFAnalyzer`, `CallGraph`, the stages of `TypeInference` | `TopoSort`, `TypeTerms` |
| `ControlFlow` | `CFGBuilder` and the validation of its graphs | |
| `OriginWalk` | the walk of `FunctionEffectSummaries::build` | |
| `Requirements` | the loop of `resolveRequirements` over the actuals of the calls | `Pipeline` |
| `RequirementsProofs` | theorems about it | TLAPS |
| `EffectSummaries` | borrow checks, summaries, requirements, and the run of what is accepted | `Requirements`, `TypeInference`, `ControlFlow`, `OriginWalk` |
| `SyntaxTree`, `Grammar` | the node classes; `TOP.g4` and the parser | |
| `ASTBuilder`, `PrettyPrinter`, `ASTVisualizer` | the classes of these names | `SyntaxTree`, `Grammar` |
| `SymbolTable`, `WeedingChecks` | the collectors and the table; the checks of the shape | `SyntaxTree` |
| `FrontEnd` | `FrontEnd.cpp`: parse, build, print, draw | the builder and the printers |
| `Driver` | `main()` of `topc.cpp` and `SemanticAnalysis::analyze` | `FrontEnd`, `SymbolTable`, `WeedingChecks` |
| `MCMoveAnalysis`, `MCMatchOwnership`, `MCTermUnifier`, `MCCubicSolver`, `MCEffectSummaries`, `MCFrontEnd` | instances for TLC | |

The models meet where the passes do: the front end ends with a tree that the
checks of the shape have accepted; `EffectSummaries` starts with a program in a
normal form of such trees, with nested calls named by locals; `MoveAnalysis` and
`MatchOwnership` take the types for granted and judge what is left, one function
at a time.

### MoveAnalysis: the walk and the run

One action is one node of the walk of `MoveAnalysis::analyzeStmt` and
`evalExpr`: `ConsumeVar`, `Bind`, `IfElse`, `WhileEnd`... Its guard is the check
the code makes there, and its effect on `state` the one the code makes. Which
node comes next is free, so that the behaviours are all programs over `Var`. The
same action performs the emitted code on `slot` (the allocas, which a move does
not clear), `live` and `tmp`, when the run is there. When the walk visits a
branch the run does not take, the run waits: `frozen` names the frame and `home`
keeps the state the walk had when it left the run.

* A loop that goes round is walked again from the state at its entry. This is
  what the analysis knows of every iteration, and walking another body the
  second time covers bodies that branch.
* `CallBegin(B)` picks the owners borrowed in the call's actuals in advance, as
  `collectBorrowedOwners` does; it may pick more than the call then borrows.
  That only makes the analysis reject more.
* The write of `*f() = e` waits for `e`, but nothing in `e` can name the cell:
  the model frees it where it is computed.
* An `error` statement ends the process and is left out. The branch of
  `analyzeAssign` for `x = &y` is unreachable: a borrow is only accepted as an
  actual. Traces and messages are left out.
* Values are `own&T` cells that own nothing further.

A rejected program generates no code: a `Reject` action, one per rule, ends the
behaviour in an empty state. With a rule in `DisabledRules` its check lets
everything through.

### MatchOwnership

The values are binary trees `Node(l, r) | Leaf` on the heap. The run follows the
walk through the arm it takes; an arm it does not take is walked in one step
(`SkipArm`) that leaves any state its body can leave, with the checks of the join.
`OpenArm` is `analyzeArm` up to the body and the emitted pattern tests, bindings
and frees; `CloseArm` is the rest of `analyzeArm`, the destroys at the arm's end
and the join; `CloseCase` is the merge block, reached through an arm, and `CloseUnmatched`
the same reached through the default block. A pattern is a function from
positions to heads: `<<2, 1>>` is the first payload of the second payload.
`Key(n)` is `resolveVar`: the last binder's declaration of a name if any arm
binds it. A variable that is matched or lent before it is assigned on the path
taken makes the program trap on a null pointer; such runs are not followed.

* The symbol table is complete before the walk, so that the model has to know
  beforehand which formals some arm binds. `owed` is a prophecy of them: an arm that
  binds the name takes it off, and the function can only end when none is left.
* The compiler asks for an arm per constructor, not for nested patterns to be
  exhaustive. A value that no arm takes goes through the default block, which binds and
  assigns nothing, to the merge block, which frees the box. `unmatched` is a history
  variable that says so, and the run goes on behind it. The properties of the heap claim
  nothing there (see the exceptions); `DefaultMeansGap` says what brings a run there.
* Two constants admit programs that the checks do not exclude although the
  documentation does: `RebindFormals` and `DuplicateBinders`. They are FALSE in the
  passing run, and one violation run each sets one of them.

### TermUnifier

The queue of equations with its index, the edges of the union-find, and `solve`
as one action per call of `unify`. Terms are nodes of a finite graph with
`Subterms`, so a cyclic type is a cyclic graph. The abstract `Unification` has
classes (`rep`) that merge for any pending equation in any order; `TermUnifier`
refines it with `rep` as the result of `find` and `pending` as the rest of the
queue. A clash throws and the compilation ends, so nothing happens after it.
`unifiesByStructureOnlyWith` and `preferAsRepresentativeOver` are constantly false
for topc's types and left out; `TermUnifier::apply` is used by tests only.

### CubicSolver

A constraint is one of the three calls of `CubicSolverT` (an element, a subset, a
subset on condition). `Add` starts one; `Step` goes on with the call on top of
`stack`, so that a merge or a push can be interrupted by the constraints it
activates, as in the C++ recursion. `node` is the map from variables to nodes
(with merged nodes renamed in it), `sups` and `subs` the edges in both directions,
`bits` and `conds` the contents of a node, and `dist`, `queue`, `path` the
breadth-first search of `findPath` with its walk back. The copies that `findPath`
appends to a path while it circles are left out. `lost` marks the advance of an
iterator whose element was erased, which is undefined in C++. `missed` is a history
variable: a push has passed over a superset (see the exceptions below). It refines
`Inclusions` with `getElements` as `sol`, and with steps of the solver that add nothing
as stutters, as long as `missed` is FALSE.

### TopoSort, TypeInference, ControlFlow, OriginWalk, Requirements, EffectSummaries

A program is a record of functions in a normal form (`ProgramText`). `phase` is the
pass to run. Each pass is an action that may reject the program for a `reason`:
`Weed`, `BuildGraphs`, `BuildCallGraph`, the `Sort`, `InferNext` and `InferRest` (the
two kinds of stages), `Build`, `Positions`, `JoinRequirements`, the loop
`ResolveNext`, `CallEffects`, `CheckComponents`. The other actions run the program: an activation has a slot
for each variable, a borrow is the slot of an activation, a formal or a move
takes a variable out of what is destroyed at the exit, and `misuse` is set by a
second free or the use of what is freed or of a slot that is gone. A condition
may go either way.

* Two passes are loops whose steps are actions of modules of their own. `Sort` in
  `TopoSort` searches the call graph for recursive functions and then is the recursion of
  `topoVisit`: `visits` is its stack, `left` what is left of the loop over a function's
  callees (a set of pointers, so in any order), `unmarked` and `sorted` the two variables of
  the file. The searches that `mayIndirectlyCall` makes for one pair of functions after the
  other go on together. `ResolveNext` in `Requirements` is one actual of one call (`Judge`),
  the next pass (`NextPass`) or the end (`Resolved`). An actual is what the loop reads of
  it: the verdicts on its type, and the formals it stands for; `asked` is a history variable.
* Both modules also have a specification of their own (`SortSpec`, `ResolveSpec`) that
  begins in any call graph and any requirements. `EffectSummaries` composes the very same
  actions, with what leads up to them.
* The solved types are computed by `TypeTerms` in one step per stage; step by
  step this is `TermUnifier`. The call graph is computed in one step, too; step by
  step this is `CubicSolver`, with its conditional constraints on calls. The one step is the least solution
  or what is left of it when pushes pass over supersets (`PassedOver`). Whether one does
  depends on the order of the constraints and on the addresses of the nodes, which the step
  leaves open; an element may stay behind where calls that are found to be possible merge nodes
  under a push. It is meant as a bound from
  above on what the solver can lose, by the condition of `CubicSolver`'s `PassedOver` without the addresses;
  that it is one is not checked. `missed` is the history variable. An iterator that is lost in the same way is undefined in C++ and is left to
  `CubicSolver`.
* What `MoveAnalysis` decides is not repeated: the inputs satisfy it.
* Only integers are allocated and there are no sum types and no arithmetic here.
  Case statements and owners in owners are in `MatchOwnership`.
* An internal error of the compiler is a `reason` of its own.

### SyntaxTree, Grammar, ASTBuilder, PrettyPrinter, ASTVisualizer, FrontEnd

A text is a sequence of tokens. `Parse` is the parser that ANTLR generates from
`src/topg4/TOP.g4` (the generated code is not in the repository): alternatives in
order, loops greedy, levels of `expr` by their order. `visits` is the stack of the
builder's visits in progress; each `visit...` action puts the node it makes into
`visited`, by its class, and the visit below reads it from there. `visited` is not cleared
between two builds. The printer is the same for `visitResults`: `endVisit` takes
from its end as many texts as it expects. The visualizer has the iterator's
`subtrees` and its own stack `parent`.

### SymbolTable, WeedingChecks, Driver

`SymbolTableOf` is the three collectors, which are deterministic, and the table
as a record; `InScope` is the lexical scope it is compared with. `WeedingChecks`
has one predicate for each check, and `Values` and `Takes`, the values of the
declared types and the arm each goes through. In `Driver`, `Ensure` are the
lambdas of `main()` and `Missing` is the one that runs next; `Make` runs its
passes, `Show` and the actions of `FrontEnd` serve the view that `wanted` has next,
`CannotWrite` and `ExitMain` end `main()`. The passes behind the checks of the
shape accept or reject as they like: what `Driver` claims holds whatever they say.
`ReadAgain` is a reader who gives the output of `--psource` to the compiler again.

* Which of two errors of one check is reported first, the log, the list of rules
  and what a view prints (trees and sources apart) are left out.
* `--psource` prints `-0` as `0`; it is not among the texts.

## Runs

| run | what it shows | bounds |
|---|---|---|
| `move_analysis` | `SoleHolder`, `MemorySafe`, `LentOwnersStayAlive`, `MergesKeepOwnership`, and that `LinearHeap` is implemented | 2 variables, 3 cells, 2 nested statements, 3 nested with calls |
| `match_ownership` | `SoleHolder`, `MemorySafe`, `LentIntact`, and that a default block is entered only for a gap among nested patterns (`DefaultMeansGap`) | 2 names; a case of 3 of four arms with 5 boxes; nested cases of 2 arms with 3 boxes; both again with a borrowed tree |
| `term_unifier` | refinement of `Unification` and its four properties, `FindTerminates`, `SolveTerminates` | 5 terms, 3 equations in any split into batches |
| `cubic_solver` | refinement of `Inclusions`, `EdgesMirrored`, `Acyclic`, `NeverTooMuch`, `SettlesUnlessCircling` | 1 element, 5 constraints, 1 of them conditional, in any order: all of 3 variables, and 5 of a fourth |
| `effect_summaries` | from the borrow positions to the run: `MemorySafe`, `NothingLeaks`, `BorrowsConfined`, `TypeSafe`, the soundness of summaries, graphs and call graph, `CalleesFirst`, `RequirementsMet`, `PassesEnd` | 6,992 programs, 5 activations |
| `front_end` | `ReadsBack`, `DrawsTheTree`, `VerdictOfAnalyze`, `NamesResolve`, `CasesJudgedRight` | 3,285 texts read, shown and read again; some 2,300 checked; all sets of views; 12 for the largest int; values three constructors deep |
| `move_loop_any` | violation of `MemorySafe` | as `move_analysis`, all loops |
| `move_compare` | violation of `NothingLeaks` | as `move_analysis`, compared temporaries |
| `match_formal`, `match_duplicate` | violations of `MemorySafe` | one case of 2 arms |
| `cubic_behind` | violation of `LeastWhenSettled` | 4 variables, 5 constraints |
| `generic_pinned` | violation of `MemorySafe` | 4 programs |

Why the bounds are enough to meet the interesting cases. Ownership: two
variables and three cells give a move between variables while a third cell is a
temporary or an actual; two nested statements give a branch in a loop and a
branch the run waits at inside one it takes; three levels with calls give a call
in an actual of a call in a branch. The proofs cover all other sizes. Matches:
five boxes are a node whose first payload is a node; the arms bind, discard and
take apart payloads, and a third arm is tested after two failed or is missing; two levels let a
binder hide a variable and be hidden. Unifier: two terms with one functor
decompose, `v = f(v, w)` is cyclic, `int` and `f` clash, and three equations are
enough for a decomposition on classes merged earlier. Cubic solver: three
variables are a cycle that is longer than an edge and a node outside of a cycle
of two; a fourth has two supersets one of which is merged while it pushes; one of five constraints can wait for an element, and activate the edge
that closes a cycle while that element is pushed. More than one element only
repeats this for each. Effect summaries: the programs are one generic function of
two statements out of all kinds (moves, passing on, both branches, loops, loops
with a call as condition) between a `main`, on owners or on integers, and a
second function that passes on what it gets to a third; then families of single
programs for recursion, unknown callees, cycles of function values on which the solver
leaves one behind, function values that are lent, borrows
that are kept, and bodies with branches and loops nested in each other for the
graphs. A requirement then travels over two calls, and a loop hands on in its
second iteration what it took in its first. Front end: three
operators, with and without parentheses, put every operator below every other on
either side, and each statement is found in each other; 12 has two digits, and
the check that is made digit by digit meets numbers one above it, far above it,
and negative. Names: five kinds of declarations, two statements that each use
or bind a name, binders in two arms and in nested arms. Cases: up to three arms
out of seven patterns, of which some overlap.

Fairness. The ownership models, `EffectSummaries` and `Driver` have none: their
properties are safety and, for `PassesEnd`, that a pass which changes anything
adds to a set of which there is only so much. `TermUnifier` has weak fairness of a
step of `solve` and `CubicSolver` of a step of the call in progress, which are
loops of one thread that run on once entered; nothing makes anybody call them.
Deadlock is checked in the ownership runs and in `front_end`; the solvers may stop
when no constraint is left to add, and `EffectSummaries` stops behind a rejection
or at the end of the run.

### What the violations say

* `move_loop_any`: `assertLoopInvariant` takes "unassigned" and "moved" for the
  same. `while (c) { if (i > 0) { output *x; } x = alloc 1; d = consume(x); }`
  is accepted and reads freed memory in its second iteration.
* `move_compare`: of `alloc 1 == alloc 2` neither box is ever freed.
* `match_formal`: an arm that binds the name of an owned formal makes all uses of
  the formal resolve to the binder: in `f(x) { case x of Leaf .. Node(x, y) .. }` the case
  consumes `x` under the binder's declaration. The formal's own stays Owned in the plan,
  and the leaf is freed by the case and again at the exit. It needs a formal whose type is known
  to be owned without its uses: a function typed monomorphically.
* `match_duplicate`: `P(a, a)` is accepted; one payload is freed twice.
* `cubic_behind`: a push goes through the supersets in the order of their
  addresses. If the constraints it activates merge the superset it has before it into one
  it is past, that one never gets the elements: with `4` within `2` and `3`, `1` within `3`,
  and `3` within `1` as soon as an element is in `2`, what is put into `4` does not get to
  `3`. A call graph that is read off such sets lacks a call. In `EffectSummaries` that is the
  difference between a move and a double free: of `main() { j = g; e = id(g); c = alloc 1;
  c = j(c); c = id(c); r = e(c); return 0; }` with `id(p) { return p; }` and
  `g(q) { return q; }` it may lack that `e(c)` calls `g`. The call then has no effects,
  `c` stays Owned, and the exit frees it and what `r` owns: the same box.
* `generic_pinned`: a function that is also used as a value gets the types of
  that use. Its summary is made from them, its direct calls are typed by a copy
  made before. `c = alloc 1; j = id; e = j(1); r = id(c);` frees `c` twice.

### Where properties have exceptions

Some properties hold only with an exception that is written into them, because
the code is known to behave otherwise there. Each exception is as narrow as TLC
lets it be: the property says that nothing else goes wrong.

* `SettlesUnlessCircling`. `findPath` (`CubicSolverT.h:165`) leaves its loop at the
  first predecessor that has a distance, whether or not it is nearer; if it is not,
  the walk stays where it is for ever: `b = 1; a = 2; b = a; c = a; c = b; a = c;`, with
  constraints as assignments. `Settles`, without the exception, fails.
* `InclusionsSpec`. The refinement holds until `missed`: what `cubic_behind` shows is the
  only way an element gets lost (this is proved). Nothing at all is said after `lost`.
* `ReadsBack`. `--psource` shows `(*f)(x)` as `*f(x)`, `(alloc a) + b` as
  `(alloc a + b)`, and `(None)(x)` as `None(x)`: other programs, although
  TOP-tutorial.md:80-82 says of the parentheses "They do not change the program's
  behavior." `Loose` are exactly these trees. What follows a program that is
  complete is ignored: the rule `program` has no end of file.
* `NamesResolve`. A binder can be used behind its arm, and a name that arms share
  with each other or with a local means the last of its declarations, against
  "Pattern bindings are local to their arm" (TOP-tutorial.md:382).
* `CasesJudgedRight`. An arm that earlier ones cover together, or one that differs
  from an earlier one only by the names of its binders, is accepted: "Redundant arms
  are rejected" (TOP-tutorial.md:380) holds for arms behind one that takes all
  of its constructor. Nested patterns need not be exhaustive.
* `SoleHolder`, `MemorySafe` and `LentIntact` of `MatchOwnership` say nothing of a run
  that has come through a default block (`unmatched`). CodeGenVisitor.cpp:1259 and :1298
  call that block "unreachable in well-typed programs"; it is reached by values that fall into a gap
  among the nested patterns, and only by these (`DefaultMeansGap`, which is also proved).
  Behind it the payloads are lost, and the analysis holds for done what only
  the arms do: with `case x of Leaf -> x = ..; Node(Leaf, y) -> x = ..;`, `x` counts as Owned
  behind the case and holds, for a value `Node(Node(..), ..)`, the box the case has freed.
  Without the exception TLC reports such a use after free for `MemorySafe`.
* `NothingLeaks` of `EffectSummaries` speaks of programs in which the result of a generic
  call is itself returned. `d = id(x); return 0;` drops it, and
  `y = id(x); i = h(y); return y;` passes it on twice.
* `BorrowsConfined`. A borrow that comes back through two calls, as in
  `g(q) { return id(q); }` with `y = g(&c); i = free(c); output **y;`, is not seen
  any more (TOP-tutorial.md:904-907), nor one that is written through a borrow of
  a borrow (826-828).
* `CallGraphComplete`. `CFAnalyzer` has no constraints for what is read through a
  borrow, so functions that are lent are not followed. And nothing is said where the solver
  has left a function behind (`missed`), nor do `MemorySafe` and `NothingLeaks` of
  `EffectSummaries`, which rest on the effects that the calls in the graph have; see `cubic_behind`.
* `InternalErrorsKnown`. Of a generic body that reads through a formal and passes
  it on, two calls with different referents end in "cyclic reference mode binding".

Two more are outside of what the models allocate: with `type Opt = Some(p) | None;
f(x) { return Some(x); }`, `c = Some(alloc 1); r = f(1);` frees an integer
(TOP-tutorial.md:331-334), and a borrow behind `box(x) { return alloc x; }` is
accepted (1042-1067).

## Proofs

All theorems are for every set of variables, cells, terms and constraints and for
every bound.

`MoveAnalysisProofs` proves `TypeCorrect` and, of programs that are `Disciplined`: `MemorySafety`, `SingleOwnership`, `LeakFreedom`,
`LentOwnersOutliveCalls`, `UnassignedHoldsNothing`, `MergeStability` and
`ImplementsLinearHeap`. `Disciplined` says that no rule is disabled, that loops are
entered with every variable assigned, and that unbound temporaries are
dereferenced, not compared. The runs `move_loop_any` and `move_compare` show that
the last two cannot be dropped.

The inductive invariant is `IInv`. `SoleHolder` is not inductive: it relates the
heap to the state where the run is, and says nothing of the state the walk will
give it when it comes back. `PathInv` says where the run can wait and that `home`
is then the state of the branch it waits at: the entry of the statement, or what
the then branch left. `SlotInv` says that Owned variables hold distinct live
cells and unassigned ones null, `TempInv` and `CallInv` the same of the temporary
and of the actuals of the calls in progress, `HeldInv` that nothing live is
forgotten. A join keeps `IInv` because the checks make both sides own the same
variables, whichever the run took. `SoleHolder` follows from the parts. The step
of `LinearHeap` that an action takes gives at most one cell to a new holder:
`KeptHolder` and the two `...GivesOne` lemmas.

`MatchOwnershipProofs` proves `Invariant`, `OwnersAreSole` (`SoleHolder`),
`MatchesAreSafe` (`MemorySafe`), `LentStaysIntact` (`LentIntact`),
`DefaultOnlyAtGaps` (`DefaultMeansGap`) and `NothingLeaks` (after the exit nothing is live
but what the caller lent and what is returned; as the others, of runs that came through
no default block) for any names and boxes, any trees, any
depth of cases and any patterns of the two levels `Position` allows. They assume
`~DuplicateBinders` and `~RebindFormals`, that is, patterns bind a name once and arms
leave the names of owned formals alone; the runs `match_duplicate` and `match_formal`
show that neither can be dropped. Which arms a case has is not assumed of any of them.

`SoleHolder` is not inductive: it says nothing of the shape of the heap, nor of what
becomes Owned again when an arm ends. The invariant is `MatchedInv`: `Inv`
until the run comes through a default block. `Inv` has three parts.
`Heap(live, Payloads, Roots)`: the boxes are a forest; `Roots`, the boxes that are no
payload, are exactly what somebody holds; every set of boxes has a member without
payloads in the set (`Grounded`), so that the recursion that defines `Tree` has one
solution at most, and it has one; and every set has a member that is no payload of the
set (`Rooted`), so that no live box is out of reach of the roots. A destroy removes the tree of a root (`RootsFreed`), a construction plants a box on two
roots (`Planted`, `Joined2`), a match that consumes turns the payloads at the positions
that are bound into roots (`Unboxed`); none of them needs induction over trees.
`OneHolder`: no root is held twice, where a name that an arm's binder hides counts as
a holder, with the mark it had when the case began. `WalkInv`: what the open cases
remember. `FrameOK` says that the saved names are the arm's binders, that what a
consuming match took apart has no payloads left, and that no arm passed over matches, so that
a default block is only entered for a value that fails the tests of every arm, which then leave a gap (`DefaultLeavesGap`);
`Nesting` says how the alias names of a case follow from those of the case around it,
and that no statement in an arm changes what is known of an alias. `CloseArm` is the hard
step: the binders that still own are destroyed, the hidden names get their boxes back,
and the join has to leave the owners that the other arms left (`CloseHolders`,
`CloseHeap`).

`UnificationProofs` proves of the abstract unifier: `Completeness` (the classes
solve everything asked when nothing is pending), `Generality` (they merge nothing
that some solution over regular trees keeps apart), `Refutation` (a clash means
there is no solution) and `ProperTypesRepresent`. The invariant has two parts.
`Covered`: what the classes and the pending equations together force includes
all that was asked. `Sound`: every labelling of terms that solves what was asked
respects the classes and solves what is pending; it quantifies over all
labellings, which stand for the solutions over regular trees.

`TermUnifierProofs` proves of the unifier `FindEnds` (the loop of `find` ends),
`Refinement` (it implements `Unification`), and with it the four properties of the
abstract one for what `find` answers: `Completeness`, `Generality`, `Refutation`,
`ProperTypesRepresent`. The invariant is that the parent edges are a `Forest`: every set
of inserted terms has a member that is a root or whose parent is outside of the set
(`Grounded`), and the recursion that defines `Roots` has a solution (`Climbs`). This says
that `find` ends without counting its steps, and needs no induction: that a term's root is a
root, that there is one solution only, and what inserting and linking make of it are each
one use of `Grounded`. The step of the abstract unifier that a step of the queue takes
is the merge of the pair at its head; its subterms are pending behind it. `SolveRunsOut`
proves the variant behind `SolveTerminates` (`SolveRunsDown`): a turn of `solve`'s loop
loses a representative, or adds no equation and leaves fewer in the queue. Nothing is
assumed of the terms but that their subterms are terms.

`InclusionsProofs` proves of the abstract solver `TypeCorrect`, `NothingTooMuch`
(what is derived is in every solution of the constraints) and `LeastSolution`
(when nothing is left to derive it is the least solution).

`CubicSolverProofs` proves of the solver `TypeCorrect`, `EdgesAgree` (the edges are
the same in both directions, and no node is its own superset) and
`NothingTooMuch`. Neither of the first two is inductive: a merge reads nodes that
a call lower on the stack chose long before, and which other merges may have
erased since. `ShapeInv` adds `GraphInv` (a variable is mapped to a node that is
mapped to itself), `CallsInv` (what the calls on the stack have in hand) and
`PathInv` (the walk back follows edges, so that a path that is merged is a path of
the graph). `NothingTooMuch` needs `SoundInv` on top: every solution of what was
asked is respected by the nodes, edges, waiting constraints and calls in
progress, and merged variables are equal in every solution, which is where the
path, its edge back to the start and `PathInv` are used. Nothing in the proof is
about `findPath` ending: the theorems hold while it circles, too.

Its second part proves that nothing is missing, from which `LeastWhenDone`
(between additions the sets are the least solution, unless a push passed over a
superset), `Refinement` (`InclusionsSpec`) and, apart from it, `NoCycleLeft`
(`Acyclic`) follow. In the middle of an addition almost nothing is complete: an edge
whose end lacks elements, a list that waits for an element that is there, a constraint
taken off its list. The invariant `Complete` says that whatever is open is owed by a
call in progress: `EdgesServed` (a call will push along the edge: one that looks for
cycles at the node, or pushes and is not past the superset), `WaitingServed` (a call will look
at the list) and `ConditionalsKept` (a call has the constraint in hand). A merge is the
hard step: the calls at the node merged away owe nothing to it any more, and the call
that merges answers for the node that is kept, whose edges are both nodes' edges.
What no call answers for after a merge is the edge of a push that is past the node that
is kept, but not yet at the node merged away: exactly `PassedOver`. The proof has
no other case, and TLC finds one with `cubic_behind`.

`CycleInv` is what the search for cycles knows: every cycle of the supersets
passes through the node the search is at (or, while a path is merged, through
the node to be kept); a superset the loop is past has no way back to the node; and
what `findPath` has reached, but for what is in the queue, is closed under supersets. An edge
is only added by a call that then searches at its source, so when the loop is
through there is no cycle at all. It is stated with sets that have no edge
inside, not with paths, and needs no induction.

`TopoSortProofs` proves of `SortSpec`, for every call graph and every order of the
functions: `SolvedCalleesFirst` (`CalleesFirst`: whatever gets a generalised type comes
after all it may call, each generalised too), `SortsAllOnce` (`SortedOnce`) and
`GeneralisesRight` (`poly` is exactly the functions from which no chain of calls leads to
a function that can call itself). The invariant is `SortInv`. `SearchInv` bounds what the
searches have found from both sides, by sets that are closed under calls, so that
reachability needs no paths and no induction. `PartsInv`: a generalised function is
unmarked, in a visit, or sorted, and only one of these. `ChainInv`: the visits are a chain of
calls. `LeftInv`: a callee that the loop of a visit is past is sorted or is what the next
visit is of. `OrderInv`: what is sorted comes after all it may call. That a visit can be left needs
that none of its callees is still in a visit around it, which would be a cycle of calls:
this is where the functions that are or call recursive ones have to be filtered out, and why
`CalleesFirst` is not inductive.

`RequirementsProofs` proves of `ResolveSpec`, for any calls of any functions, whatever
their bodies ask: `CallsAnswer` (`RequirementsMet`: after the last pass every actual answers
for what is required), `PassesComeToAnEnd` (`PassesEnd`), `LeastRequirements` (no more is
required than every way to answer for all calls requires, so the order of the calls and of
their targets does not matter) and `OnlyRealRejections` (a program is rejected only if no
requirements at all would do). Requirements are a lattice with `Join` (`JoinCovers`,
`JoinLeast`). `RequirementsMet` is about the end and not inductive: `PassInv` says what a
pass that has changed nothing yet knows of the actuals it is past, and nothing of one that
has, which is what the further pass is for. `LeastRequirements` rests on
`InheritedOfMore`: where more is required of an actual, the same formal of the caller
inherits more. This is not obvious of the code, which goes over from what the actual stands
for to what it borrows when what is behind it is asked about; it holds because a borrow
itself never owns (`Actual`).

These two specifications begin where the pipeline hands over: `BuildCallGraph` leaves a call
graph of the program's functions and its copy in `reached`, as `SortInit` has it, and
`JoinRequirements` a requirement for every formal and a sequence of actuals, as `ResolveInit`
has it. The rest of the pipeline changes none of these variables while the loops run. It is
in modules with recursive operators, so that this last link is not a theorem: the run
`effect_summaries` checks `CalleesFirst`, `RequirementsMet` and `PassesEnd`, the properties
proved, of the composition.

Model-checked only:

* liveness (`SolveTerminates`, `SettlesUnlessCircling`), which is out of reach of the
  prover; for the first, what each turn of the loop uses up is proved (`SolveRunsOut`);
* the modules with recursive operators: `EffectSummaries` with what it composes
  (`ProgramText`, `TypeTerms`, `TypeInference`, `ControlFlow`, `OriginWalk`; not `TopoSort`
  and `Requirements`) and the front end
  with the driver (`SyntaxTree`, `Grammar`, `ASTBuilder`, `PrettyPrinter`, `ASTVisualizer`,
  `SymbolTable`, `WeedingChecks`, `FrontEnd`, `Driver`). Their properties are about what recursion over
  trees, types and texts computes, which needs induction over data;
* the tightness of `Disciplined`.

## Not modelled

* Case statements, sum types and arithmetic in `EffectSummaries` and the modules
  below it; in the move analysis case statements are a module of their own that
  is not composed with loops and calls.
* Of code generation, everything but the heap: arithmetic with the test before a
  division (straight-line code), input and output, the wrapper of `main`, and the
  calls of LLVM's builder. The optimizer runs LLVM's passes.
* The lexer and the layout of what is printed. `ConstraintRenderer` and
  `CFGRenderer` format lists they are given. `replaceChild`, the nodes' own
  `print`, and the hash that names a program.
* The parsing of `--unsafe-disable`: the rules that are off are a constant.
* The runtime library (input, output, error exits) and the vendored loguru and
  PicoSHA2: nothing the compiler decides depends on them.

What would add most next: sum types and the rules of case statements in
`TypeTerms`, `TypeInference` and `OriginWalk`, which would bring the exceptions named
above under a run; and `MatchOwnership` composed with loops and calls.
