----------------------------- MODULE PrettyPrinter -----------------------------
(***************************************************************************)
(* src/frontend/prettyprint/PrettyPrinter.cpp: the visitor behind          *)
(* --psource.  accept() walks the tree; when it leaves a node, endVisit    *)
(* takes the texts of the node's children from the end of visitResults     *)
(* and puts the text of the node in their place.  How many it takes is     *)
(* read off the node, so each method has to agree with accept() about the  *)
(* children.  A text is its tokens: line breaks and the indentation, which *)
(* visit() deepens and endVisit() ends, carry no meaning.                  *)
(***************************************************************************)
EXTENDS SyntaxTree, Grammar

VARIABLES
  open,           \* accept() in progress: a stack of nodes, the innermost last
  visitResults,   \* the texts of the nodes left and not yet used
  printed         \* what has been written to the stream

printerVars == <<open, visitResults, printed>>

Accept(node) == [node |-> node, next |-> 1]
Element == Last(open).node

\* accept() of the next child.
Descend ==
  /\ open # << >> /\ Last(open).next <= Len(Element.kids)
  /\ open' = Append([open EXCEPT ![Len(open)].next = @ + 1],
                    Accept(Element.kids[Last(open).next]))
  /\ UNCHANGED <<visitResults, printed>>

\* Nothing, "\n" and indent() in the source.
NewLine == << >>
Comma == <<Sym(",")>>

\* The last size texts, with delim after each but the last skip of them.
Joined(results, delim, size, skip) ==
  FlattenSeq([i \in 1 .. size |->
                results[Len(results) - size + i]
                  \o (IF i <= size - skip THEN delim ELSE << >>)])
Dropped(results, n) == SubSeq(results, 1, Len(results) - n)

\* The nth text from the end.
Back(n) == visitResults[Len(visitResults) + 1 - n]

endVisit(is, taken, text) ==
  /\ open # << >> /\ Last(open).next > Len(Element.kids) /\ Element.is = is
  /\ visitResults' = Append(Dropped(visitResults, taken), text)
  /\ open' = Front(open)
  /\ UNCHANGED printed

Parens(text) == <<Sym("(")>> \o text \o <<Sym(")")>>
Arguments(n, skip) == Joined(visitResults, Comma, n, skip)

---------------------------------------------------------------------------
RECURSIVE DigitsOf(_)
DigitsOf(n) == IF n < 10 THEN <<n>> ELSE Append(DigitsOf(n \div 10), n % 10)
to_string(n) ==
  IF n < 0 THEN <<Sym("-"), Num(DigitsOf(-n))>> ELSE <<Num(DigitsOf(n))>>

NumberExpr   == endVisit("NumberExpr", 0, to_string(Element.num))
VariableExpr == endVisit("VariableExpr", 0, <<Id(Element.name)>>)
InputExpr    == endVisit("InputExpr", 0, <<Sym("input")>>)
BinaryExpr ==
  endVisit("BinaryExpr", 2, Parens(Back(2) \o <<Sym(Element.name)>> \o Back(1)))
FunAppExpr ==
  LET actuals == Len(Element.kids) - 1
  IN endVisit("FunAppExpr", actuals + 1,
              Back(actuals + 1) \o Parens(Arguments(actuals, 1)))
AllocExpr  == endVisit("AllocExpr", 1, <<Sym("alloc")>> \o Back(1))
BorrowExpr == endVisit("BorrowExpr", 1, <<Sym("&")>> \o Back(1))
DeRefExpr  == endVisit("DeRefExpr", 1, <<Sym("*")>> \o Back(1))
SumCtorExpr ==
  LET args == Len(Element.kids)
  IN endVisit("SumCtorExpr", args,
              <<Con(Element.name)>>
                \o (IF args = 0 THEN << >> ELSE Parens(Arguments(args, 1))))

---------------------------------------------------------------------------
DeclNode == endVisit("DeclNode", 0, <<Id(Element.name)>>)
DeclStmt ==
  LET vars == Len(Element.kids)
  IN endVisit("DeclStmt", vars, <<Sym("var")>> \o Arguments(vars, 1) \o <<Sym(";")>>)
AssignStmt ==
  endVisit("AssignStmt", 2, Back(2) \o <<Sym("=")>> \o Back(1) \o <<Sym(";")>>)
BlockStmt ==
  LET stmts == Len(Element.kids)
  IN endVisit("BlockStmt", stmts,
              <<Sym("{")>> \o Joined(visitResults, NewLine, stmts, 0) \o <<Sym("}")>>)
WhileStmt == endVisit("WhileStmt", 2, <<Sym("while")>> \o Parens(Back(2)) \o Back(1))
IfStmt ==
  LET else == IF getElse(Element) = NoNode THEN 0 ELSE 1
  IN endVisit("IfStmt", 2 + else,
              <<Sym("if")>> \o Parens(Back(2 + else)) \o Back(1 + else)
                \o (IF else = 0 THEN << >> ELSE <<Sym("else")>> \o Back(1)))
OutputStmt == endVisit("OutputStmt", 1, <<Sym("output")>> \o Back(1) \o <<Sym(";")>>)
ErrorStmt  == endVisit("ErrorStmt", 1, <<Sym("error")>> \o Back(1) \o <<Sym(";")>>)
ReturnStmt == endVisit("ReturnStmt", 1, <<Sym("return")>> \o Back(1) \o <<Sym(";")>>)

SumVariant ==
  LET params == Len(Element.kids)
  IN endVisit("SumVariant", params,
              <<Con(Element.name)>>
                \o (IF params = 0 THEN << >> ELSE Parens(Arguments(params, 1))))
SumTypeDecl ==
  LET variants == Len(Element.kids)
  IN endVisit("SumTypeDecl", variants,
              <<Sym("type"), Con(Element.name), Sym("=")>>
                \o Joined(visitResults, <<Sym("|")>>, variants, 1) \o <<Sym(";")>>)

\* A pattern is printed from its tree, not from the texts of its bindings.
RECURSIVE patternToString(_)
patternToString(p) ==
  LET Subs == [i \in DOMAIN p.kids |-> patternToString(p.kids[i])]
  IN CASE p.is = "WildcardPattern" -> <<Sym("_")>>
       [] p.is = "VarPattern"      -> <<Id(p.name)>>
       [] OTHER -> <<Con(p.name)>>
                     \o (IF p.kids = << >> THEN << >>
                         ELSE Parens(Joined(Subs, Comma, Len(Subs), 1)))

\* The texts of the bindings are dropped.
CaseArm ==
  LET Texts == [i \in DOMAIN Element.patterns |-> patternToString(Element.patterns[i])]
  IN endVisit("CaseArm", 1 + Len(getBindings(Element)),
              <<Con(Element.name)>>
                \o (IF Texts = << >> THEN << >>
                    ELSE Parens(Joined(Texts, Comma, Len(Texts), 1)))
                \o <<Sym("->")>> \o Back(1))
CaseStmt ==
  LET arms == Len(Element.kids) - 1
  IN endVisit("CaseStmt", arms + 1,
              <<Sym("case")>> \o Back(arms + 1) \o <<Sym("of"), Sym("{")>>
                \o Joined(visitResults, NewLine, arms, 1) \o <<Sym("}")>>)

\* The statements are joined first, then the declarations, the formals and
\* the name below them.
Function ==
  LET stmts   == Len(getStmts(Element))
      decls   == Len(getDeclarations(Element))
      formals == Len(getFormals(Element))
      body    == Joined(visitResults, NewLine, stmts, 0)
      below   == Dropped(visitResults, stmts)
      locals  == Joined(below, NewLine, decls, 0)
      names   == Dropped(below, decls)
  IN endVisit("Function", stmts + decls + formals + 1,
              Last(Dropped(names, formals)) \o Parens(Joined(names, Comma, formals, 1))
                \o <<Sym("{")>> \o locals \o body \o <<Sym("}")>>)

Program ==
  LET total == Len(getTypedecls(Element)) + Len(getFunctions(Element))
  IN /\ open # << >> /\ Last(open).next > Len(Element.kids) /\ Element.is = "Program"
     /\ printed' = Joined(visitResults, NewLine, total, 1)
     /\ visitResults' = Dropped(visitResults, total)
     /\ open' = << >>

PrintStep ==
  \/ Descend \/ Program \/ Function
  \/ NumberExpr \/ VariableExpr \/ InputExpr \/ BinaryExpr \/ FunAppExpr
  \/ AllocExpr \/ BorrowExpr \/ DeRefExpr \/ SumCtorExpr
  \/ DeclNode \/ DeclStmt \/ AssignStmt \/ BlockStmt \/ WhileStmt \/ IfStmt
  \/ OutputStmt \/ ErrorStmt \/ ReturnStmt
  \/ SumVariant \/ SumTypeDecl \/ CaseStmt \/ CaseArm
=============================================================================
