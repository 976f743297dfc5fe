-------------------------------- MODULE Grammar --------------------------------
(***************************************************************************)
(* src/topg4/TOP.g4 and the part of the parser generated from it that      *)
(* decides what a text means: the parse tree of a sequence of tokens.      *)
(* Layout and comments never reach the parser, so a text is its tokens.    *)
(* Every choice is made as ANTLR makes it: the first alternative that      *)
(* matches, loops and options greedily, and binary and prefix operators    *)
(* by the level of their alternative in the rule expr.                     *)
(***************************************************************************)
EXTENDS Integers, Sequences

Token(kind, text, digits) == [kind |-> kind, text |-> text, digits |-> digits]
Sym(s)  == Token(s, s, << >>)
Id(s)   == Token("IDENTIFIER", s, << >>)
Con(s)  == Token("CONID", s, << >>)
Num(ds) == Token("NUMBER", "", ds)

\* A context of the parse tree: its rule or label, the name and the digits
\* that stand in it and the contexts below it.
Context(rule, text, digits, kids) ==
  [rule |-> rule, text |-> text, digits |-> digits, kids |-> kids]

Alt(label, body) == [label |-> label, body |-> body]
\* A list after its first item, and the rules without a context of their own.
More(separator, item, self) == <<Alt("", <<separator, item, self>>), Alt("", << >>)>>
Star(item, self) == <<Alt("", <<item, self>>), Alt("", << >>)>>

Productions ==
  [program      |-> <<Alt("program", <<"item", "items">>)>>,
   item         |-> <<Alt("", <<"typeDecl">>), Alt("", <<"function">>)>>,
   items        |-> Star("item", "items"),
   function     |-> <<Alt("function", <<"name", "(", "formals", ")", "{", "declarations",
                                        "statements", "returnStmt", "}">>)>>,
   formals      |-> <<Alt("", <<"name", "moreNames">>), Alt("", << >>)>>,
   moreNames    |-> More(",", "name", "moreNames"),
   typeDecl     |-> <<Alt("typeDecl", <<"type", "CONID", "=", "sumVariant", "variants", ";">>)>>,
   variants     |-> More("|", "sumVariant", "variants"),
   sumVariant   |-> <<Alt("sumVariant", <<"CONID", "(", "name", "moreNames", ")">>),
                      Alt("sumVariant", <<"CONID">>)>>,
   declarations |-> Star("declaration", "declarations"),
   declaration  |-> <<Alt("declaration", <<"var", "name", "moreNames", ";">>)>>,
   name         |-> <<Alt("nameDeclaration", <<"IDENTIFIER">>)>>,
   statements   |-> Star("statement", "statements"),
   statement    |-> <<Alt("blockStmt", <<"{", "statements", "}">>),
                      Alt("whileStmt", <<"while", "(", "expr", ")", "statement">>),
                      Alt("ifStmt", <<"if", "(", "expr", ")", "statement", "else?">>),
                      Alt("outputStmt", <<"output", "expr", ";">>),
                      Alt("errorStmt", <<"error", "expr", ";">>),
                      Alt("caseStmt", <<"case", "expr", "of", "{", "caseArm", "caseArms", "}">>),
                      Alt("assignStmt", <<"expr", "=", "expr", ";">>)>>,
   else         |-> <<Alt("", <<"else", "statement">>), Alt("", << >>)>>,
   returnStmt   |-> <<Alt("returnStmt", <<"return", "expr", ";">>)>>,
   caseArms     |-> Star("caseArm", "caseArms"),
   caseArm      |-> <<Alt("caseArm", <<"CONID", "(", "pattern", "patterns", ")", "->", "statement">>),
                      Alt("caseArm", <<"CONID", "->", "statement">>)>>,
   patterns     |-> More(",", "pattern", "patterns"),
   pattern      |-> <<Alt("wildcard", <<"_">>),
                      Alt("constructor", <<"CONID", "(", "pattern", "patterns", ")">>),
                      Alt("constructor", <<"CONID">>), Alt("variable", <<"IDENTIFIER">>)>>,
   actuals      |-> <<Alt("", <<"(", "expr", "exprs", ")">>), Alt("", <<"(", ")">>)>>,
   exprs        |-> More(",", "expr", "exprs"),
   primary      |-> <<Alt("negNumber", <<"-", "NUMBER">>),
                      Alt("sumCtorExprWithArgs", <<"CONID", "(", "expr", "exprs", ")">>),
                      Alt("sumCtorExprNoArgs", <<"CONID">>), Alt("varExpr", <<"IDENTIFIER">>),
                      Alt("numExpr", <<"NUMBER">>), Alt("inputExpr", <<"input">>),
                      Alt("parenExpr", <<"(", "expr", ")">>)>>]

\* The levels of the fifteen alternatives of expr, the first binding tightest.
CallLevel == 15
Prefix ==
  [s \in {"*", "&", "alloc"} |->
     CASE s = "*" -> [rule |-> "deRefExpr", level |-> 14]
       [] s = "&" -> [rule |-> "refExpr", level |-> 12]
       [] OTHER   -> [rule |-> "allocExpr", level |-> 2]]
Infix ==
  [s \in {"*", "/", "+", "-", ">", "==", "!="} |->
     CASE s \in {"*", "/"}   -> [rule |-> "multiplicativeExpr", level |-> 11]
       [] s \in {"+", "-"}   -> [rule |-> "additiveExpr", level |-> 10]
       [] s = ">"            -> [rule |-> "relationalExpr", level |-> 9]
       [] OTHER              -> [rule |-> "equalityExpr", level |-> 8]]

---------------------------------------------------------------------------
Found(kids, text, digits, at) ==
  [ok |-> TRUE, kids |-> kids, text |-> text, digits |-> digits, at |-> at]
NotFound == [ok |-> FALSE, kids |-> << >>, text |-> "", digits |-> << >>, at |-> 0]

KindAt(s, i) == IF i <= Len(s) THEN s[i].kind ELSE "EOF"

RECURSIVE Match(_, _, _), Body(_, _, _), FirstOf(_, _, _), Expr(_, _, _), Climb(_, _, _, _)

\* One symbol of a production: an expression, a rule or a token.
Match(symbol, s, i) ==
  CASE symbol = "expr"                       -> Expr(s, i, 1)
    [] symbol = "else?"                      -> FirstOf(Productions["else"], s, i)
    [] symbol \in DOMAIN Productions \ {"else"} -> FirstOf(Productions[symbol], s, i)
    [] symbol = KindAt(s, i)                 ->
         Found(<< >>, IF symbol \in {"IDENTIFIER", "CONID"} THEN s[i].text ELSE "",
               s[i].digits, i + 1)
    [] OTHER                                 -> NotFound

Body(symbols, s, i) ==
  IF symbols = << >> THEN Found(<< >>, "", << >>, i)
  ELSE LET first == Match(Head(symbols), s, i)
           rest  == Body(Tail(symbols), s, first.at)
       IN IF ~first.ok \/ ~rest.ok THEN NotFound
          ELSE Found(first.kids \o rest.kids,
                     IF first.text = "" THEN rest.text ELSE first.text,
                     first.digits \o rest.digits, rest.at)

FirstOf(alts, s, i) ==
  IF alts = << >> THEN NotFound
  ELSE LET alt == Head(alts)
           m   == Body(alt.body, s, i)
       IN IF ~m.ok THEN FirstOf(Tail(alts), s, i)
          ELSE IF alt.label = "" THEN m
          ELSE Found(<<Context(alt.label, m.text, m.digits, m.kids)>>, "", << >>, m.at)

\* An expression whose operators bind at least as tightly as level.
Expr(s, i, level) ==
  LET prefix  == Prefix[KindAt(s, i)]
      operand == Expr(s, i + 1, prefix.level)
      primary == IF KindAt(s, i) \notin DOMAIN Prefix
                   THEN FirstOf(Productions["primary"], s, i)
                 ELSE IF ~operand.ok THEN NotFound
                 ELSE Found(<<Context(prefix.rule, "", << >>, operand.kids)>>,
                            "", << >>, operand.at)
  IN IF primary.ok THEN Climb(primary.kids, s, primary.at, level) ELSE NotFound

Climb(left, s, i, level) ==
  LET kind    == KindAt(s, i)
      actuals == FirstOf(Productions["actuals"], s, i)
      infix   == Infix[kind]
      right   == Expr(s, i + 1, infix.level + 1)
  IN CASE kind = "(" /\ CallLevel >= level ->
            IF ~actuals.ok THEN NotFound
            ELSE Climb(<<Context("funAppExpr", "", << >>, left \o actuals.kids)>>,
                       s, actuals.at, level)
       [] kind \in DOMAIN Infix /\ Infix[kind].level >= level ->
            IF ~right.ok THEN NotFound
            ELSE Climb(<<Context(infix.rule, kind, << >>, left \o right.kids)>>,
                       s, right.at, level)
       [] OTHER -> Found(left, "", << >>, i)

\* The parse tree of a text.  The rule does not end in EOF: the loop over the
\* items ends at the first token that starts none, and the rest is not read.
Parse(s) ==
  LET m == Match("program", s, 1)
  IN IF m.ok /\ KindAt(s, m.at) \in {"type", "IDENTIFIER"} THEN NotFound ELSE m
=============================================================================
