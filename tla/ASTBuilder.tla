------------------------------ MODULE ASTBuilder ------------------------------
(***************************************************************************)
(* src/frontend/ast/ASTBuilder.cpp: the visitor that turns a parse tree    *)
(* into a syntax tree.  A visit returns nothing: it leaves its node in one *)
(* of nine variables of the file, by the node's class, and the method that *)
(* asked for the visit reads that variable when the visit is over.  Every  *)
(* visit overwrites them and nothing clears them, not even the end of a    *)
(* build.                                                                  *)
(***************************************************************************)
EXTENDS SyntaxTree, Grammar

CONSTANT MaxInt                 \* the largest value of an int, 2^63 - 1

ASSUME MaxIntAssumption == MaxInt \in Nat /\ MaxInt >= 9

VARIABLES
  visits,       \* the calls of visit in progress: a stack, the innermost last
  visited,      \* the variables visitedStmt, visitedExpr, ... of the file
  tree          \* the syntax tree that build() returned, or NoNode

builderVars == <<visits, visited, tree>>

Registers == {"Stmt", "DeclNode", "DeclStmt", "Expr", "Function",
              "Typedecl", "SumVariant", "CaseArm", "Pattern"}
InitialVisited == [r \in Registers |-> NoNode]

ExprRules ==
  {"funAppExpr", "deRefExpr", "negNumber", "refExpr", "multiplicativeExpr", "additiveExpr",
   "relationalExpr", "equalityExpr", "sumCtorExprWithArgs", "sumCtorExprNoArgs",
   "varExpr", "numExpr", "inputExpr", "allocExpr", "parenExpr"}

\* The variable a method reads after the visit of one of its sub-contexts.
RegisterOf(rule) ==
  CASE rule \in ExprRules         -> "Expr"
    [] rule = "nameDeclaration"   -> "DeclNode"
    [] rule = "declaration"       -> "DeclStmt"
    [] rule = "function"          -> "Function"
    [] rule = "typeDecl"          -> "Typedecl"
    [] rule = "sumVariant"        -> "SumVariant"
    [] rule = "caseArm"           -> "CaseArm"
    [] rule \in {"wildcard", "constructor", "variable"} -> "Pattern"
    [] OTHER                      -> "Stmt"

\* A call in progress: its context, the sub-contexts it has still to visit
\* and the nodes it has read.  build() visits the type declarations first.
Visit(ctx) ==
  [ctx  |-> ctx, got |-> << >>,
   todo |-> IF ctx.rule # "program" THEN ctx.kids
            ELSE SelectSeq(ctx.kids, LAMBDA c : c.rule = "typeDecl")
                   \o SelectSeq(ctx.kids, LAMBDA c : c.rule = "function")]

Top == Last(visits)
Here(rule) == visits # << >> /\ Top.todo = << >> /\ Top.ctx.rule = rule

\* visit(child): the caller waits.
visit ==
  /\ visits # << >> /\ Top.todo # << >>
  /\ visits' = Append([visits EXCEPT ![Len(visits)].todo = Tail(@)],
                      Visit(Head(Top.todo)))
  /\ UNCHANGED <<visited, tree>>

\* The call returns and its caller, if it has one, reads the variable.
Return ==
  LET callers == Front(visits)
  IN visits' = IF callers = << >> THEN << >>
               ELSE [callers EXCEPT ![Len(callers)].got =
                       Append(@, visited'[RegisterOf(Top.ctx.rule)])]

Leave(rule, register, node) ==
  /\ Here(rule)
  /\ visited' = [visited EXCEPT ![register] = node]
  /\ Return
  /\ UNCHANGED tree

---------------------------------------------------------------------------
(* Number literals                                                         *)

TooLarge == -1

\* The magnitude of a literal's digits, checked digit by digit so that no
\* product can wrap around.
Magnitude(digits, limit) ==
  FoldLeft(LAMBDA acc, d :
             IF acc = TooLarge \/ acc > (limit - d) \div 10 THEN TooLarge
             ELSE acc * 10 + d,
           0, digits)

Limit(negative) == MaxInt + (IF negative THEN 1 ELSE 0)

numberLiteralValue(digits, negative) ==
  LET magnitude == Magnitude(digits, Limit(negative))
  IN IF negative THEN -magnitude ELSE magnitude

ParseErrorHere ==
  \/ Here("numExpr")   /\ Magnitude(Top.ctx.digits, Limit(FALSE)) = TooLarge
  \/ Here("negNumber") /\ Magnitude(Top.ctx.digits, Limit(TRUE)) = TooLarge

visitNumExpr ==
  /\ ~ParseErrorHere
  /\ Leave("numExpr", "Expr", ASTNumberExpr(numberLiteralValue(Top.ctx.digits, FALSE)))
visitNegNumber ==
  /\ ~ParseErrorHere
  /\ Leave("negNumber", "Expr", ASTNumberExpr(numberLiteralValue(Top.ctx.digits, TRUE)))

---------------------------------------------------------------------------
(* Expressions                                                             *)

\* The variable read after both visits.
visitBinaryExprLate(rule) ==
  Leave(rule, "Expr", ASTBinaryExpr(Top.ctx.text, Top.got[2], Top.got[2]))

visitBinaryExpr(rule) ==
  Leave(rule, "Expr", ASTBinaryExpr(Top.ctx.text, Top.got[1], Top.got[2]))
visitAdditiveExpr       == visitBinaryExpr("additiveExpr")
visitRelationalExpr     == visitBinaryExpr("relationalExpr")
visitMultiplicativeExpr == visitBinaryExpr("multiplicativeExpr")
visitEqualityExpr       == visitBinaryExpr("equalityExpr")

\* The parentheses leave what is between them where it is.
visitParenExpr == Here("parenExpr") /\ UNCHANGED <<visited, tree>> /\ Return

visitVarExpr   == Leave("varExpr", "Expr", ASTVariableExpr(Top.ctx.text))
visitInputExpr == Leave("inputExpr", "Expr", ASTInputExpr)
visitFunAppExpr == Leave("funAppExpr", "Expr", ASTFunAppExpr(Head(Top.got), Tail(Top.got)))
visitAllocExpr == Leave("allocExpr", "Expr", ASTAllocExpr(Top.got[1]))
visitRefExpr   == Leave("refExpr", "Expr", ASTBorrowExpr(Top.got[1]))
visitDeRefExpr == Leave("deRefExpr", "Expr", ASTDeRefExpr(Top.got[1]))
visitSumCtorExprWithArgs ==
  Leave("sumCtorExprWithArgs", "Expr", ASTSumCtorExpr(Top.ctx.text, Top.got))
visitSumCtorExprNoArgs ==
  Leave("sumCtorExprNoArgs", "Expr", ASTSumCtorExpr(Top.ctx.text, << >>))

---------------------------------------------------------------------------
(* Declarations and statements                                             *)

visitNameDeclaration == Leave("nameDeclaration", "DeclNode", ASTDeclNode(Top.ctx.text))
visitDeclaration     == Leave("declaration", "DeclStmt", ASTDeclStmt(Top.got))
visitBlockStmt  == Leave("blockStmt", "Stmt", ASTBlockStmt(Top.got))
visitWhileStmt  == Leave("whileStmt", "Stmt", ASTWhileStmt(Top.got[1], Top.got[2]))
visitIfStmt ==
  Leave("ifStmt", "Stmt",
        ASTIfStmt(Top.got[1], Top.got[2], IF Len(Top.got) = 3 THEN Top.got[3] ELSE NoNode))
visitOutputStmt == Leave("outputStmt", "Stmt", ASTOutputStmt(Top.got[1]))
visitErrorStmt  == Leave("errorStmt", "Stmt", ASTErrorStmt(Top.got[1]))
visitReturnStmt == Leave("returnStmt", "Stmt", ASTReturnStmt(Top.got[1]))
visitAssignStmt == Leave("assignStmt", "Stmt", ASTAssignStmt(Top.got[1], Top.got[2]))

visitSumVariant == Leave("sumVariant", "SumVariant", ASTSumVariant(Top.ctx.text, Top.got))
visitTypeDecl   == Leave("typeDecl", "Typedecl", ASTSumTypeDecl(Top.ctx.text, Top.got))

visitPattern ==
  \/ Leave("wildcard", "Pattern", ASTWildcardPattern)
  \/ Leave("constructor", "Pattern", ASTCtorPattern(Top.ctx.text, Top.got))
  \/ Leave("variable", "Pattern", ASTVarPattern(Top.ctx.text))
visitCaseArm ==
  Leave("caseArm", "CaseArm", ASTCaseArm(Top.ctx.text, Front(Top.got), Last(Top.got)))
visitCaseStmt ==
  Leave("caseStmt", "Stmt", ASTCaseStmt(Head(Top.got), Tail(Top.got)))

\* The first name is the function's, the others are its formals.
visitFunction ==
  LET Got(is) == SelectSeq(Top.got, LAMBDA n : n.is = is)
  IN Leave("function", "Function",
           ASTFunction(Head(Got("DeclNode")), Tail(Got("DeclNode")), Got("DeclStmt"),
                       SelectSeq(Top.got, LAMBDA n : n.is \notin {"DeclNode", "DeclStmt"})))

---------------------------------------------------------------------------
(* build() is the outermost call: it returns the program.                  *)
Built ==
  /\ Here("program")
  /\ tree' = ASTProgram(SelectSeq(Top.got, LAMBDA n : n.is = "SumTypeDecl"),
                        SelectSeq(Top.got, LAMBDA n : n.is = "Function"))
  /\ visits' = << >>
  /\ UNCHANGED visited

BuildStep ==
  \/ visit \/ Built
  \/ visitNumExpr \/ visitNegNumber \/ visitVarExpr \/ visitInputExpr \/ visitParenExpr
  \/ visitAdditiveExpr \/ visitRelationalExpr \/ visitMultiplicativeExpr \/ visitEqualityExpr
  \/ visitFunAppExpr \/ visitAllocExpr \/ visitRefExpr \/ visitDeRefExpr
  \/ visitSumCtorExprWithArgs \/ visitSumCtorExprNoArgs
  \/ visitNameDeclaration \/ visitDeclaration \/ visitFunction
  \/ visitBlockStmt \/ visitAssignStmt \/ visitWhileStmt \/ visitIfStmt
  \/ visitOutputStmt \/ visitErrorStmt \/ visitReturnStmt
  \/ visitCaseStmt \/ visitCaseArm \/ visitPattern \/ visitSumVariant \/ visitTypeDecl
=============================================================================
