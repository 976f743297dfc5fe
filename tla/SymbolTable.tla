------------------------------ MODULE SymbolTable ------------------------------
(***************************************************************************)
(* src/semantic/symboltable: the three collectors and the table built from *)
(* them.  A declaration is its path from the root of the tree.  The names  *)
(* of a function are one flat map: the binders of its case arms go into it *)
(* too and stay in it, and what declares a name last is what the name      *)
(* means everywhere in the function.                                       *)
(***************************************************************************)
EXTENDS SyntaxTree, FiniteSets

NoError == "none"

\* The nodes in the order in which accept() visits them.
RECURSIVE Walk(_)
Walk(node) ==
  <<<< >>>> \o FlattenSeq([i \in DOMAIN node.kids |->
                  LET below == Walk(node.kids[i])
                  IN [j \in DOMAIN below |-> <<i>> \o below[j]]])

FunctionPaths(tree) == SelectSeq([i \in DOMAIN tree.kids |-> <<i>>],
                                 LAMBDA p : At(tree, p).is = "Function")
DeclOf(f) == Append(f, 1)
NameAt(tree, path) == At(tree, path).name

---------------------------------------------------------------------------
(* FunctionNameCollector: the bodies are skipped.                          *)
FunctionNames(tree) ==
  FoldLeft(LAMBDA acc, f :
             LET name == NameAt(tree, DeclOf(f))
             IN IF acc.error # NoError THEN acc
                ELSE IF name \in DOMAIN acc.map THEN [acc EXCEPT !.error = "function declared"]
                ELSE [acc EXCEPT !.map = (name :> DeclOf(f)) @@ @],
           [map |-> << >>, error |-> NoError], FunctionPaths(tree))

---------------------------------------------------------------------------
(* LocalNameCollector.                                                     *)
InitialCollector == [curMap |-> << >>, caseArmBindingNames |-> {}, first |-> TRUE,
                     error |-> NoError]

BinderNames(arm) == {getBindings(arm)[i].name : i \in DOMAIN getBindings(arm)}

\* No name is ever declared again.
DeclaredOnce(acc, name, p, fMap) ==
  IF acc.first THEN [acc EXCEPT !.first = FALSE]
  ELSE IF name \in DOMAIN fMap THEN [acc EXCEPT !.error = "declared as function"]
  ELSE IF name \in DOMAIN acc.curMap THEN [acc EXCEPT !.error = "redeclared"]
  ELSE [acc EXCEPT !.curMap = (name :> p) @@ @]

\* A declaration at path p of the tree.
Declared(acc, name, p, fMap) ==
  IF acc.first THEN [acc EXCEPT !.first = FALSE]
  ELSE IF name \in DOMAIN fMap THEN [acc EXCEPT !.error = "declared as function"]
  ELSE IF name \in DOMAIN acc.curMap /\ name \notin acc.caseArmBindingNames
         THEN [acc EXCEPT !.error = "redeclared"]
  ELSE [acc EXCEPT !.curMap = (name :> p) @@ @]

Used(acc, name, fMap) ==
  IF name \in DOMAIN fMap \cup DOMAIN acc.curMap THEN acc
  ELSE [acc EXCEPT !.error = "undeclared"]

Collect(tree, f, fMap) ==
  LET walk == Walk(At(tree, f))
  IN FoldLeft(LAMBDA acc, p :
                LET node == At(tree, f \o p)
                IN CASE acc.error # NoError      -> acc
                     [] node.is = "DeclNode"     -> Declared(acc, node.name, f \o p, fMap)
                     [] node.is = "VariableExpr" -> Used(acc, node.name, fMap)
                     [] node.is = "CaseArm"      ->
                          [acc EXCEPT !.caseArmBindingNames = @ \cup BinderNames(node)]
                     [] OTHER                    -> acc,
              InitialCollector, walk)

LocalNames(tree, fMap) ==
  FoldLeft(LAMBDA acc, f :
             LET names == Collect(tree, f, fMap)
             IN IF acc.error # NoError THEN acc
                ELSE IF names.error # NoError THEN [acc EXCEPT !.error = names.error]
                ELSE [acc EXCEPT !.map = (DeclOf(f) :> names.curMap) @@ @],
           [map |-> << >>, error |-> NoError], FunctionPaths(tree))

---------------------------------------------------------------------------
(* TypeNameCollector: names declared twice are overwritten here and        *)
(* refused later, by CheckSumTypeNames.                                    *)
TypePaths(tree) == SelectSeq([i \in DOMAIN tree.kids |-> <<i>>],
                             LAMBDA p : At(tree, p).is = "SumTypeDecl")
VariantPaths(tree, t) == [i \in DOMAIN At(tree, t).kids |-> Append(t, i)]
TypeNames(tree) ==
  FoldLeft(LAMBDA acc, t : (NameAt(tree, t) :> t) @@ acc, << >>, TypePaths(tree))
ConstructorNames(tree) ==
  FoldLeft(LAMBDA acc, v : (NameAt(tree, v) :> v) @@ acc, << >>,
           FlattenSeq([i \in DOMAIN TypePaths(tree) |->
                         VariantPaths(tree, TypePaths(tree)[i])]))

---------------------------------------------------------------------------
(* The table.                                                              *)
EmptyTable == [functions |-> << >>, locals |-> << >>, types |-> << >>,
               constructors |-> << >>, error |-> NoError]

SymbolTableOf(tree) ==
  LET functions == FunctionNames(tree)
      locals    == LocalNames(tree, functions.map)
  IN IF functions.error # NoError THEN [EmptyTable EXCEPT !.error = functions.error]
     ELSE IF locals.error # NoError THEN [EmptyTable EXCEPT !.error = locals.error]
     ELSE [functions |-> functions.map, locals |-> locals.map, types |-> TypeNames(tree),
           constructors |-> ConstructorNames(tree), error |-> NoError]

Lookup(map, key) == IF key \in DOMAIN map THEN map[key] ELSE << >>
getFunction(table, name)   == Lookup(table.functions, name)
getLocal(table, name, f)   == Lookup(table.locals[f], name)
getConstructor(table, tag) == Lookup(table.constructors, tag)
\* The first of the types in the map's order that declares the constructor.
getConstructorOwner(table, tree, tag) ==
  LET owners == {t \in {table.types[n] : n \in DOMAIN table.types} :
                   \E i \in DOMAIN At(tree, t).kids : At(tree, t).kids[i].name = tag}
  IN IF owners = {} THEN << >> ELSE CHOOSE t \in owners : TRUE

---------------------------------------------------------------------------
(* Lexical scope, the reference: a name means the binder of the innermost  *)
(* arm around it that binds it, or else the formal or local of that name.  *)
BindersAt(tree, arm, name) ==
  {Append(arm, i) : i \in {j \in DOMAIN getBindings(At(tree, arm)) :
                             At(tree, arm).kids[j].name = name}}
ArmsBinding(tree, path, name) ==
  {q \in Prefixes(path) : At(tree, q).is = "CaseArm" /\ BindersAt(tree, q, name) # {}}
\* Formals and locals: all declarations of the function that no arm makes.
OwnDecls(tree, f, name) ==
  {p \in {f \o q : q \in Paths(At(tree, f))} :
     /\ At(tree, p).is = "DeclNode" /\ At(tree, p).name = name
     /\ p # DeclOf(f) /\ At(tree, Front(p)).is # "CaseArm"}
\* What a use may mean: nothing, one declaration, or two that clash.
InScope(tree, f, path, name) ==
  LET arms == ArmsBinding(tree, path, name)
  IN IF arms = {} THEN OwnDecls(tree, f, name)
     ELSE LET innermost == CHOOSE a \in arms : \A b \in arms : Len(b) <= Len(a)
          IN BindersAt(tree, innermost, name)
\* The arms of a function that bind the name.
BoundBy(tree, f, name) ==
  {a \in {f \o q : q \in Paths(At(tree, f))} :
     At(tree, a).is = "CaseArm" /\ BindersAt(tree, a, name) # {}}
Uses(tree, f) == {p \in {f \o q : q \in Paths(At(tree, f))} : At(tree, p).is = "VariableExpr"}
=============================================================================
