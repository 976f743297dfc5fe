----------------------------- MODULE ASTVisualizer -----------------------------
(***************************************************************************)
(* src/frontend/prettyprint/ASTVisualizer.cpp, behind --past: the graph    *)
(* drawn while a pre-order iterator walks the tree, and the tree of lines  *)
(* written by a recursion of its own.  The iterator keeps a stack of the   *)
(* subtrees it has still to visit.  The edges of the graph are drawn from  *)
(* a second stack, on which each node is put once for every child it has,  *)
(* so the two have to stay in step.                                        *)
(***************************************************************************)
EXTENDS SyntaxTree, FiniteSets

VARIABLES
  subtrees,     \* PreOrderIterator's stack: paths of subtrees, the next last
  parent,       \* the stack of parents waiting for a child, by path
  vertexMap,    \* the vertices: the path of vertex i is vertexMap[i]
  edges         \* what has been drawn: pairs of vertices

graphVars == <<subtrees, parent, vertexMap, edges>>

\* getChildren() of the root of a subtree, as subtrees.
getSubtrees(tree, path) ==
  [i \in DOMAIN At(tree, path).kids |-> Append(path, i)]

\* operator++ puts the last subtree down first.
Advance(tree) ==
  subtrees' = Front(subtrees) \o Reverse(getSubtrees(tree, Last(subtrees)))

pushn(stack, path, n) == stack \o [i \in 1 .. n |-> path]
Vertex(map, path) == CHOOSE i \in DOMAIN map : map[i] = path

\* The node put on the stack before it is connected.
process_nodeEarly(tree) ==
  LET path  == Last(subtrees)
      stack == pushn(parent, path, Len(At(tree, path).kids))
  IN /\ subtrees # << >>
     /\ vertexMap' = Append(vertexMap, path)
     /\ IF stack = << >> \/ parent = << >>
          THEN edges' = edges /\ parent' = stack
          ELSE /\ edges' = edges \cup
                    {<<Vertex(vertexMap', Last(stack)), Len(vertexMap')>>}
               /\ parent' = Front(stack)
     /\ Advance(tree)

\* The root is the node that finds no parent waiting.
process_node(tree) ==
  LET path == Last(subtrees)
      n    == Len(At(tree, path).kids)
  IN /\ subtrees # << >>
     /\ vertexMap' = Append(vertexMap, path)
     /\ IF parent = << >>
          THEN /\ edges' = edges
               /\ parent' = pushn(parent, path, n)
          ELSE /\ edges' = edges \cup
                    {<<Vertex(vertexMap, Last(parent)), Len(vertexMap')>>}
               /\ parent' = pushn(Front(parent), path, n)
     /\ Advance(tree)

---------------------------------------------------------------------------
(* The tree of lines.  A line is the bars left open before it, whether it  *)
(* is the last of its siblings, its role and what it shows.                *)
Line(prefix, isLast, role, shows) ==
  [prefix |-> prefix, isLast |-> isLast, role |-> role, shows |-> shows]

\* TRUE for a bar, FALSE for the blank below a last sibling.
childPrefix(prefix, isLast) == Append(prefix, ~isLast)

Role(name, index) == <<name, index>>

childRole(node, i) ==
  LET formals == Len(getFormals(node))
      decls   == Len(getDeclarations(node))
      types   == Len(getTypedecls(node))
  IN CASE node.is = "Program" ->
            IF i <= types THEN Role("type", i) ELSE Role("function", i - types)
       [] node.is = "Function" ->
            IF i = 1 THEN Role("name", 0)
            ELSE IF i <= 1 + formals THEN Role("parameter", i - 1)
            ELSE IF i <= 1 + formals + decls THEN Role("declaration", i - 1 - formals)
            ELSE Role("statement", i - 1 - formals - decls)
       [] node.is \in {"ReturnStmt", "OutputStmt", "ErrorStmt"} -> Role("value", 0)
       [] node.is = "AllocExpr"  -> Role("initializer", 0)
       [] node.is = "BorrowExpr" -> Role("borrowed", 0)
       [] node.is = "DeRefExpr"  -> Role("reference", 0)
       [] node.is = "WhileStmt"  -> Role(IF i = 1 THEN "condition" ELSE "body", 0)
       [] node.is = "IfStmt"     -> Role(<<"condition", "then", "else">>[i], 0)
       [] node.is = "FunAppExpr" -> IF i = 1 THEN Role("callee", 0) ELSE Role("argument", i - 1)
       [] node.is \in {"SumCtorExpr", "SumVariant"} -> Role("payload", i)
       [] node.is = "SumTypeDecl" -> Role("variant", i)
       [] node.is = "DeclStmt"   -> Role("binding", i)
       [] node.is = "CaseStmt"   -> IF i = 1 THEN Role("case-expression", 0) ELSE Role("arm", i - 1)
       [] node.is \in {"AssignStmt", "BinaryExpr"} -> Role(<<"lhs", "rhs">>[i], 0)
       [] OTHER                  -> Role("statement", i)

RECURSIVE emitAsciiPattern(_, _, _, _)
emitAsciiPattern(pattern, prefix, isLast, role) ==
  <<Line(prefix, isLast, role, pattern)>>
    \o FlattenSeq([i \in DOMAIN pattern.kids |->
         emitAsciiPattern(pattern.kids[i], childPrefix(prefix, isLast),
                          i = Len(pattern.kids), Role("payload", i))])

\* An arm shows its patterns in place of the declarations among its children.
RECURSIVE emitAsciiNode(_, _, _, _)
emitAsciiNode(node, prefix, isLast, role) ==
  LET next == childPrefix(prefix, isLast)
      Children(n) ==
        FlattenSeq([i \in DOMAIN n.kids |->
          emitAsciiNode(n.kids[i], next, i = Len(n.kids), childRole(n, i))])
      Payloads(arm) ==
        FlattenSeq([i \in DOMAIN arm.patterns |->
          emitAsciiPattern(arm.patterns[i], childPrefix(next, FALSE),
                           i = Len(arm.patterns), Role("payload", i))])
      Arm(arm) ==
        <<Line(next, FALSE, Role("pattern", 0), ASTCtorPattern(arm.name, arm.patterns))>>
          \o Payloads(arm)
          \o emitAsciiNode(Last(arm.kids), next, TRUE, Role("body", 0))
  IN <<Line(prefix, isLast, role, node)>>
       \o (IF node.is = "CaseArm" THEN Arm(node) ELSE Children(node))

buildAscii(root) ==
  FlattenSeq([i \in DOMAIN root.kids |->
    emitAsciiNode(root.kids[i], << >>, i = Len(root.kids), childRole(root, i))])
=============================================================================
