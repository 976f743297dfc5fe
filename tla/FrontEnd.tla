------------------------------- MODULE FrontEnd -------------------------------
(***************************************************************************)
(* src/frontend/FrontEnd.cpp: reading a program, showing it as normalized  *)
(* source and as a tree.  Driver says when each is done.                   *)
(***************************************************************************)
EXTENDS ASTBuilder, PrettyPrinter, ASTVisualizer

VARIABLES
  source,       \* the text of the program
  phase,        \* what main() is at, or what its reader is at when it is over
  trees         \* the trees of the readings so far

frontEndVars == <<source, trees, builderVars, printerVars, graphVars>>

FrontEndInit ==
  /\ trees = << >>
  /\ visits = << >> /\ visited = InitialVisited /\ tree = NoNode
  /\ open = << >> /\ visitResults = << >> /\ printed = << >>
  /\ subtrees = << >> /\ parent = << >> /\ vertexMap = << >> /\ edges = {}

\* parse(): the first syntax error throws.
parse(text, refused) ==
  LET m == Parse(text)
  IN /\ IF m.ok THEN phase' = "build" /\ visits' = <<Visit(m.kids[1])>>
        ELSE phase' = refused /\ UNCHANGED visits
     /\ UNCHANGED <<source, trees, visited, tree, printerVars, graphVars>>

\* A literal out of range throws in the middle of the build.
refuse(refused) ==
  /\ phase = "build" /\ ParseErrorHere
  /\ phase' = refused
  /\ UNCHANGED frontEndVars

build(built) ==
  /\ phase = "build" /\ BuildStep
  /\ IF visits' # << >> THEN UNCHANGED <<phase, trees>>
     ELSE trees' = Append(trees, tree') /\ phase' = built
  /\ UNCHANGED <<source, printerVars, graphVars>>

StartPrinting ==
  /\ phase' = "print" /\ open' = <<Accept(trees[1])>>
  /\ UNCHANGED <<source, trees, builderVars, visitResults, printed, graphVars>>
prettyprint ==
  /\ phase = "print" /\ PrintStep
  /\ phase' = IF open' = << >> THEN "serve" ELSE "print"
  /\ UNCHANGED <<source, trees, builderVars, graphVars>>

StartDrawing ==
  /\ phase' = "draw" /\ subtrees' = << << >> >>
  /\ UNCHANGED <<source, trees, builderVars, printerVars, parent, vertexMap, edges>>
\* The loop of buildGraph() ends where the iterator's stack is empty.
astVisualize ==
  /\ phase = "draw"
  /\ IF subtrees # << >> THEN process_node(trees[1]) /\ UNCHANGED phase
     ELSE phase' = "serve" /\ UNCHANGED graphVars
  /\ UNCHANGED <<source, trees, builderVars, printerVars>>

---------------------------------------------------------------------------
(* Properties                                                              *)

\* The tokens that the view may not change: all but parentheses, with the
\* type declarations moved to the front and the numbers in their shortest form.
NumberValue(digits) == FoldLeft(LAMBDA acc, d : acc * 10 + d, 0, digits)
InTypeDecl(s, i) ==
  \E j \in 1 .. i : s[j].kind = "type" /\ \A k \in j .. i - 1 : s[k].kind # ";"
Kept(s) ==
  LET Part(P(_)) ==
        FlattenSeq([i \in DOMAIN s |->
          IF s[i].kind \notin {"(", ")"} /\ P(i) THEN <<s[i]>> ELSE << >>])
      Shortest(t) ==
        IF t.kind # "NUMBER" THEN t
        ELSE Num(DigitsOf(NumberValue(t.digits)))
      Moved == Part(LAMBDA i : InTypeDecl(s, i)) \o Part(LAMBDA i : ~InTypeDecl(s, i))
  IN [i \in DOMAIN Moved |-> Shortest(Moved[i])]

\* The trees whose printed form means something else: `alloc` takes all that
\* follows it, a call binds tighter than a prefix operator, and a constructor
\* before parentheses takes what is between them for its payloads.
RECURSIVE OpenAlloc(_), Loose(_)
OpenAlloc(n) ==
  \/ n.is = "AllocExpr"
  \/ n.is \in {"DeRefExpr", "BorrowExpr"} /\ OpenAlloc(n.kids[1])
Loose(n) ==
  \/ n.is = "BinaryExpr" /\ OpenAlloc(n.kids[1])
  \/ n.is = "FunAppExpr" /\
       \/ n.kids[1].is \in {"DeRefExpr", "BorrowExpr", "AllocExpr"}
       \/ n.kids[1].is = "SumCtorExpr" /\ n.kids[1].kids = << >> /\ Len(n.kids) > 1
  \/ \E i \in DOMAIN n.kids : Loose(n.kids[i])

\* The parser stops at the first token that starts no function or type.
ReadOf(s) == SubSeq(s, 1, Parse(s).at - 1)

(* The normalized source shows what was read: parentheses apart it is the  *)
(* source up to where the parser stopped, and read again it gives the same *)
(* tree, except for exactly the loose trees, whose operand or callee it    *)
(* shows without the parentheses it needs ("They do not change the         *)
(* program's behavior.").  Numbers are those of the range, and a program   *)
(* that has a tree is refused only for a literal beyond it.                *)
ReadsBack ==
  /\ phase \in {"reread", "unreadable"} => Kept(printed) = Kept(ReadOf(source))
  /\ phase = "reread" => (trees[2] = trees[1] <=> ~Loose(trees[1]))
  /\ phase = "unreadable" => Loose(trees[1])
  /\ visited.Expr.num \in -(MaxInt + 1) .. MaxInt
  /\ phase = "failure" /\ visits # << >> =>
       \E i \in DOMAIN source :
         source[i].kind = "NUMBER" /\ NumberValue(source[i].digits) > MaxInt

\* A line is where the bars before it say: its siblings are the next lines
\* at its depth, and a bar is drawn where an ancestor has one to come.
LinesAgree(lines) ==
  \A i \in DOMAIN lines :
    LET depth == Len(lines[i].prefix)
        Ends(d) == \A j \in i + 1 .. Len(lines) :
                     Len(lines[j].prefix) = d =>
                       \E k \in i + 1 .. j - 1 : Len(lines[k].prefix) < d
    IN /\ lines[i].isLast = Ends(depth)
       /\ \A d \in 1 .. depth : lines[i].prefix[d] = ~Ends(d - 1)
       /\ i > 1 => depth <= Len(lines[i - 1].prefix) + 1

(* Both drawings show the tree: the graph has a vertex for every node and  *)
(* an edge from each node to each of its children, nobody else's, and the  *)
(* lines show every node but the binders of an arm, once, below its        *)
(* parent.                                                                 *)
DrawsTheTree ==
  phase = "draw" /\ subtrees = << >> =>
    LET root  == trees[1]
        lines == buildAscii(root)
        Shown(path) == path # << >> /\ ~(At(root, Front(path)).is = "CaseArm"
                                          /\ At(root, path).is = "DeclNode")
        IsPattern(l) == l.shows.is \in {"VarPattern", "CtorPattern", "WildcardPattern"}
    IN /\ Paths(root) = {vertexMap[i] : i \in DOMAIN vertexMap}
       /\ Len(vertexMap) = Cardinality(Paths(root))
       /\ edges = {e \in (DOMAIN vertexMap) \X (DOMAIN vertexMap) :
                     vertexMap[e[2]] # << >> /\ vertexMap[e[1]] = Front(vertexMap[e[2]])}
       /\ parent = << >>
       /\ LinesAgree(lines)
       /\ Cardinality({i \in DOMAIN lines : ~IsPattern(lines[i])})
            = Cardinality({p \in Paths(root) : Shown(p)})
=============================================================================
