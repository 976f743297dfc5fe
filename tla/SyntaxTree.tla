------------------------------ MODULE SyntaxTree ------------------------------
(***************************************************************************)
(* The classes of src/frontend/ast/treetypes: a node is its class, the     *)
(* name or operator it carries, its number, its patterns (case arms only)  *)
(* and its children in the order in which accept() visits and              *)
(* getChildren() lists them.  Locations and the program's hash are left    *)
(* out; a pattern is a node whose children are its sub-patterns, but no    *)
(* child of the arm: accept() visits the arm's bindings instead.           *)
(***************************************************************************)
EXTENDS Integers, Sequences, SequencesExt

Node(is, name, num, patterns, kids) ==
  [is |-> is, name |-> name, num |-> num, patterns |-> patterns, kids |-> kids]

NoNode == Node("nullptr", "", 0, << >>, << >>)
Branch(is, kids) == Node(is, "", 0, << >>, kids)
Named(is, name, kids) == Node(is, name, 0, << >>, kids)

---------------------------------------------------------------------------
ASTProgram(typedecls, functions) == Branch("Program", typedecls \o functions)
ASTFunction(decl, formals, decls, body) ==
  Branch("Function", <<decl>> \o formals \o decls \o body)
ASTDeclNode(name) == Named("DeclNode", name, << >>)
ASTDeclStmt(vars) == Branch("DeclStmt", vars)

ASTNumberExpr(val) == Node("NumberExpr", "", val, << >>, << >>)
ASTVariableExpr(name) == Named("VariableExpr", name, << >>)
ASTInputExpr == Branch("InputExpr", << >>)
ASTBinaryExpr(op, left, right) == Named("BinaryExpr", op, <<left, right>>)
ASTFunAppExpr(fun, actuals) == Branch("FunAppExpr", <<fun>> \o actuals)
ASTAllocExpr(init) == Branch("AllocExpr", <<init>>)
ASTBorrowExpr(var) == Branch("BorrowExpr", <<var>>)
ASTDeRefExpr(ptr) == Branch("DeRefExpr", <<ptr>>)
ASTSumCtorExpr(tag, args) == Named("SumCtorExpr", tag, args)

ASTBlockStmt(stmts) == Branch("BlockStmt", stmts)
ASTAssignStmt(lhs, rhs) == Branch("AssignStmt", <<lhs, rhs>>)
ASTWhileStmt(cond, body) == Branch("WhileStmt", <<cond, body>>)
\* An absent else branch is no child.
ASTIfStmt(cond, then, else) ==
  Branch("IfStmt", <<cond, then>> \o (IF else = NoNode THEN << >> ELSE <<else>>))
ASTOutputStmt(arg) == Branch("OutputStmt", <<arg>>)
ASTErrorStmt(arg) == Branch("ErrorStmt", <<arg>>)
ASTReturnStmt(arg) == Branch("ReturnStmt", <<arg>>)

ASTSumVariant(tag, params) == Named("SumVariant", tag, params)
ASTSumTypeDecl(name, variants) == Named("SumTypeDecl", name, variants)
ASTWildcardPattern == Branch("WildcardPattern", << >>)
ASTVarPattern(name) == Named("VarPattern", name, << >>)
ASTCtorPattern(tag, subs) == Named("CtorPattern", tag, subs)
ASTCaseStmt(caseExpr, arms) == Branch("CaseStmt", <<caseExpr>> \o arms)

\* The declarations of the variables in a pattern, from left to right.
RECURSIVE collectBindings(_)
collectBindings(p) ==
  CASE p.is = "VarPattern"  -> <<ASTDeclNode(p.name)>>
    [] p.is = "CtorPattern" ->
         FlattenSeq([i \in DOMAIN p.kids |-> collectBindings(p.kids[i])])
    [] OTHER                -> << >>

ASTCaseArm(tag, patterns, body) ==
  Node("CaseArm", tag, 0, patterns,
       FlattenSeq([i \in DOMAIN patterns |-> collectBindings(patterns[i])])
         \o <<body>>)

---------------------------------------------------------------------------
(* The parts of a node that its class keeps in vectors of their own.        *)
KidsOf(n, is) == SelectSeq(n.kids, LAMBDA k : k.is = is)
getTypedecls(program) == KidsOf(program, "SumTypeDecl")
getFunctions(program) == KidsOf(program, "Function")
getFormals(function)  == Tail(KidsOf(function, "DeclNode"))
getDeclarations(function) == KidsOf(function, "DeclStmt")
getStmts(function) ==
  SelectSeq(function.kids, LAMBDA k : k.is \notin {"DeclNode", "DeclStmt"})
getBindings(arm) == Front(arm.kids)
getElse(if) == IF Len(if.kids) = 3 THEN if.kids[3] ELSE NoNode

(* A node of a tree is found by its path from the root.                     *)
RECURSIVE At(_, _)
At(tree, path) ==
  IF path = << >> THEN tree ELSE At(tree.kids[Head(path)], Tail(path))
RECURSIVE Paths(_)
Paths(tree) ==
  {<< >>} \cup UNION {{<<i>> \o p : p \in Paths(tree.kids[i])} : i \in DOMAIN tree.kids}
=============================================================================
