---------------------------- MODULE ControlFlow ----------------------------
(***************************************************************************)
(* The control flow graph of a function (CFGBuilder) and its validation,   *)
(* and what it is for: whoever follows the graph does what the function    *)
(* does. The builder works from the end of a body to its start, so that    *)
(* every block knows where it goes on. Case statements are left out.       *)
(***************************************************************************)
EXTENDS ProgramText, FiniteSets

Entry == 0
UnresolvedExit == 0   \* nothing leads to the entry

(* A block: its statements, the statement that ends it, the edges.         *)
Fallthrough == [op |-> "fallthrough"]
Edge(kind, target) == [kind |-> kind, target |-> target]
BasicBlock(statements, end, edges) ==
  [statements |-> statements, end |-> end, edges |-> edges]

(* The builder: the blocks so far, by id, the next id, and the block where *)
(* what has been built starts.                                             *)
StartBuild == [blocks |-> <<>>, next |-> 1, at |-> UnresolvedExit]

AddBlock(id, block, b) ==
  [b EXCEPT !.blocks = [n \in DOMAIN @ \cup {id} |-> IF n = id THEN block ELSE @[n]],
            !.at = id]

CreateBlock(block, b) == AddBlock(b.next, block, [b EXCEPT !.next = @ + 1])

IsCompound(s) == s.op \in {"if", "while"}

RECURSIVE BuildSequence(_, _)

(* An absent or empty branch is the continuation.                          *)
BuildIf(s, b) ==
  LET then == BuildSequence(s.then, b)
      else == BuildSequence(s.else, [then EXCEPT !.at = b.at])
  IN  CreateBlock(BasicBlock(<<>>, s, {Edge("true", then.at), Edge("false", else.at)}), else)

(* Mutant: the body goes on behind the loop.                               *)
BuildWhileOnce(s, b) ==
  LET id   == b.next
      body == BuildSequence(s.body, [b EXCEPT !.next = @ + 1])
  IN  AddBlock(id, BasicBlock(<<>>, s, {Edge("true", body.at), Edge("false", b.at)}), body)

(* The block of a loop is numbered before its body, which leads back to it. *)
BuildWhile(s, b) ==
  LET id   == b.next
      body == BuildSequence(s.body, [b EXCEPT !.next = @ + 1, !.at = id])
  IN  AddBlock(id, BasicBlock(<<>>, s, {Edge("true", body.at), Edge("false", b.at)}), body)

(* The last statements of a sequence up to the last compound one.          *)
BuildRun(run, b) ==
  IF Last(run).op = "return"
  THEN CreateBlock(BasicBlock(Front(run), Last(run), {Edge("return", UnresolvedExit)}), b)
  ELSE CreateBlock(BasicBlock(run, Fallthrough, {Edge("fallthrough", b.at)}), b)

RunLength(statements) ==
  LET compound == {i \in DOMAIN statements : IsCompound(statements[i])}
  IN  Len(statements)
        - (IF compound = {} THEN 0 ELSE CHOOSE i \in compound : \A j \in compound : j <= i)

(* buildSequence, and buildStmt.                                           *)
BuildSequence(statements, b) ==
  LET cut == Len(statements) - RunLength(statements)
      s   == Last(statements)
  IN  IF statements = <<>> THEN b
      ELSE IF cut < Len(statements)
      THEN BuildSequence(SubSeq(statements, 1, cut),
                         BuildRun(SubSeq(statements, cut + 1, Len(statements)), b))
      ELSE BuildSequence(Front(statements),
                         IF s.op = "if" THEN BuildIf(s, b) ELSE BuildWhile(s, b))

Resolve(edge, exit) ==
  IF edge.kind = "return" THEN [edge EXCEPT !.target = exit] ELSE edge

(* build: the exit gets the last id.                                       *)
GraphOf(fn) ==
  LET b     == BuildSequence(fn.body, StartBuild)
      block(id) ==
        IF id = Entry THEN BasicBlock(<<>>, Fallthrough, {Edge("fallthrough", b.at)})
        ELSE IF id = b.next THEN BasicBlock(<<>>, Fallthrough, {})
        ELSE [b.blocks[id] EXCEPT !.edges = {Resolve(edge, b.next) : edge \in @}]
  IN  [exit |-> b.next, blocks |-> [id \in {Entry, b.next} \cup DOMAIN b.blocks |-> block(id)]]

-----------------------------------------------------------------------------
Leads(graph, ids) ==
  {edge.target : edge \in UNION {graph.blocks[id].edges : id \in ids}}

RECURSIVE ReachedFrom(_, _)
ReachedFrom(ids, graph) ==
  LET next == ids \cup (Leads(graph, ids) \cap DOMAIN graph.blocks)
  IN  IF next = ids THEN ids ELSE ReachedFrom(next, graph)

Kinds(block) == {edge.kind : edge \in block.edges}

(* validate. What predecessors are is derived from the edges.              *)
Valid(graph) ==
  /\ Entry \notin Leads(graph, DOMAIN graph.blocks)
  /\ Leads(graph, DOMAIN graph.blocks) \subseteq DOMAIN graph.blocks
  /\ graph.blocks[graph.exit].edges = {}
  /\ \A id \in DOMAIN graph.blocks :
       LET block == graph.blocks[id]
       IN  /\ IsCompound(block.end) =>
                Cardinality(block.edges) = 2 /\ Kinds(block) = {"true", "false"}
           /\ block.end.op = "return" => block.edges = {Edge("return", graph.exit)}
  /\ ReachedFrom({Entry}, graph) = DOMAIN graph.blocks

-----------------------------------------------------------------------------
(* Following a graph: a point is a block and a place in it. Only the entry *)
(* and the exit are empty blocks.                                          *)
TargetOf(block, kind) == (CHOOSE edge \in block.edges : edge.kind = kind).target

PointAt(graph, id, place) ==
  LET block == graph.blocks[id]
  IN  IF place > Len(block.statements) /\ block.end = Fallthrough /\ block.edges # {}
      THEN <<TargetOf(block, "fallthrough"), 1>> ELSE <<id, place>>

StatementAt(graph, point) ==
  LET block == graph.blocks[point[1]]
  IN  IF point[2] <= Len(block.statements) THEN block.statements[point[2]] ELSE block.end

(* Following the body: what is left to do, of which <<>> is the exit.      *)
Ahead(todo) == IF todo = <<>> THEN Fallthrough ELSE Head(todo)

(* The points and the rests of the body that are reached together.         *)
StepsTogether(graph, pair) ==
  LET point == pair[1]
      todo  == pair[2]
      s     == Ahead(todo)
      to(kind) == PointAt(graph, TargetOf(graph.blocks[point[1]], kind), 1)
  IN  CASE s = Fallthrough -> {}
        [] s.op = "if" ->
             {<<to("true"), s.then \o Tail(todo)>>, <<to("false"), s.else \o Tail(todo)>>}
        [] s.op = "while" ->
             {<<to("true"), s.body \o todo>>, <<to("false"), Tail(todo)>>}
        [] s.op = "return" -> {<<to("return"), <<>>>>}
        [] OTHER -> {<<PointAt(graph, point[1], point[2] + 1), Tail(todo)>>}

Agree(graph, pair) == StatementAt(graph, pair[1]) = Ahead(pair[2])

RECURSIVE ReachedTogether(_, _)
ReachedTogether(pairs, graph) ==
  LET next == pairs \cup
                UNION {StepsTogether(graph, pair) : pair \in {p \in pairs : Agree(graph, p)}}
  IN  IF next = pairs THEN pairs ELSE ReachedTogether(next, graph)

(* On every path through the body the graph leads from statement to        *)
(* statement, branch to branch, and from the return to the exit.           *)
Follows(graph, fn) ==
  \A pair \in ReachedTogether({<<PointAt(graph, Entry, 1), fn.body>>}, graph) :
    /\ Agree(graph, pair)
    /\ pair[2] = <<>> => pair[1][1] = graph.exit
=============================================================================
