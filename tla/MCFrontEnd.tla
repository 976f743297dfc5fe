------------------------------ MODULE MCFrontEnd ------------------------------
(* Programs for the driver: every expression of a few shapes in a return,     *)
(* and programs with every kind of declaration, statement and pattern.      *)
EXTENDS Driver

CONSTANTS Deep    \* TRUE: operators are also applied to what holds an operator

S(s) == <<Sym(s)>>
Lit(ds) == <<Num(ds)>>
Var(x) == <<Id(x)>>
Tag(x) == <<Con(x)>>
Par(e) == S("(") \o e \o S(")")

Atoms == {Var("x"), Tag("None"), Lit(<<7>>), S("input")}
Prefixed(E) == {S(o) \o e : o \in {"*", "&", "alloc"}, e \in E}
Binary(L, R) == {l \o S(o) \o r : l \in L, o \in {"+", "*", "=="}, r \in R}
Calls(F, A) == {f \o Par(a) : f \in F, a \in A \cup {<< >>}}

One == Atoms \cup Prefixed(Atoms) \cup Binary({Var("x"), Tag("None")}, Atoms)
         \cup Calls(Atoms, {Var("y"), Lit(<<1, 2>>)}) \cup {Tag("Some") \o Par(Var("x") \o S(",") \o Lit(<<0, 5>>))}
Two == Prefixed(One) \cup {Par(e) : e \in One} \cup Binary(One, {Var("x")})
         \cup Binary({Var("x")}, One) \cup Calls({Par(e) : e \in One}, {Var("x")})
         \cup Binary({Par(e) : e \in One}, {Var("x")})
Three == Prefixed({Par(e) : e \in Two}) \cup Binary({S("*") \o Par(e) : e \in One}, {Var("x")})

\* At the ends of the range, with 12 for the largest int.
Numbers == {Lit(<<1, 2>>), Lit(<<1, 3>>), S("-") \o Lit(<<1, 3>>), S("-") \o Lit(<<1, 4>>),
            Lit(<<0, 0, 9>>), Lit(<<1, 0, 0>>), S("-") \o Lit(<<3>>) \o Par(Var("x")),
            Var("x") \o S("-") \o S("-") \o Lit(<<1, 3>>), Var("x") \o S("-") \o Lit(<<1, 3>>)}

Main(body) == Var("main") \o Par(<< >>) \o S("{") \o body \o S("}")
Returning(e) == Main(S("return") \o e \o S(";"))

End(s) == s \o S(";")
Set(l, r) == End(l \o S("=") \o r)
Block(s) == S("{") \o s \o S("}")
Call(f, a, b) == Var(f) \o Par(a \o S(",") \o b)
If(c, t) == S("if") \o Par(c) \o t
Case(e, arms) == S("case") \o e \o S("of") \o Block(arms)
Arm(p, s) == p \o S("->") \o s

Statements ==
  LET x == Var("x")  y == Var("y")  out == End(S("output") \o x)
      plain == {Set(x, y), out, End(S("error") \o y), Block(<< >>), Block(out \o Set(x, y))}
  IN plain
     \cup {If(x, s) : s \in plain} \cup {If(x, s) \o S("else") \o t : s \in plain, t \in plain}
     \cup {If(x, If(y, out)) \o S("else") \o Set(x, y), If(x, Block(If(y, out))) \o S("else") \o out}
     \cup {S("while") \o Par(x \o S(">") \o y) \o s : s \in plain}
     \cup {Set(S("*") \o x, x \o S("/") \o y \o S("-") \o x \o S("!=") \o y),
           Set(Par(S("*") \o x) \o S("+") \o y, S("alloc") \o y)}
     \cup {Case(x, Arm(Tag("None"), s) \o Arm(Tag("Some") \o Par(S("_") \o S(",") \o y), t)) :
             s \in plain, t \in {out, If(y, out)}}
     \cup {Case(S("*") \o x,
             Arm(Tag("Some") \o Par(Tag("Pair") \o Par(x \o S(",") \o Tag("None")) \o S(",") \o y),
                 Case(y, Arm(Tag("None"), out))))}

Types == {<< >>, S("type") \o Tag("T") \o S("=") \o Tag("None") \o S(";"),
          S("type") \o Tag("T") \o S("=") \o Tag("Some") \o Par(Var("p") \o S(",") \o Var("q"))
            \o S("|") \o Tag("None") \o S("|") \o Tag("Pair") \o Par(Var("p")) \o S(";")}
Helper == Var("f") \o Par(Var("x") \o S(",") \o Var("y"))
            \o Block(S("var") \o Var("a") \o S(",") \o Var("b") \o S(";")
                       \o S("var") \o Var("c") \o S(";") \o End(S("return") \o Var("x")))
Zero == Lit(<<0>>)

Readable ==
  {Returning(e) : e \in One \cup Two \cup Numbers \cup (IF Deep THEN Three ELSE {})}
  \cup {Main(s \o S("return") \o Zero \o S(";")) : s \in Statements}
  \cup {t \o Helper \o u \o Main(S("var") \o Var("x") \o S(";") \o S("return") \o Call("f", Zero, Var("x")) \o S(";")) :
          t \in Types, u \in Types}
  \cup {Returning(Var("x")) \o S("}"), Main(<< >>), Returning(Var("x")) \o Var("f")}

---------------------------------------------------------------------------
(* Names: a function f with one or two names, two statements that use or    *)
(* bind them, and a second function.                                        *)
Fun(f, formals, locals, body) ==
  Var(f) \o Par(formals)
    \o Block((IF locals = << >> THEN << >> ELSE S("var") \o locals \o S(";"))
               \o body \o End(S("return") \o Zero))
Option == S("type") \o Tag("T") \o S("=") \o Tag("None") \o S("|")
            \o Tag("P") \o Par(Var("p") \o S(",") \o Var("q")) \o S(";")
Out(n) == End(S("output") \o Var(n))
Match1(e, a, b, s) ==
  Case(e, Arm(Tag("None"), Out("x")) \o Arm(Tag("P") \o Par(Var(a) \o S(",") \o Var(b)), s))

Using ==
  {Out(n) : n \in {"x", "y", "z", "main"}}
  \cup {Match1(Var("x"), a, b, Out(n)) : a \in {"x", "y"}, b \in {"x", "y", "main"}, n \in {"x", "y"}}
  \cup {Match1(Var("x"), "y", "w", Match1(Var("y"), a, "v", Out("y"))) : a \in {"x", "y"}}
Declaring == {<<Var("x"), << >>>>, <<Var("x"), Var("y")>>, <<Var("x"), Var("x")>>,
              <<Var("x") \o S(",") \o Var("x"), << >>>>, <<Var("x"), Var("main")>>}
Naming ==
  {Option \o Fun("f", d[1], d[2], s \o t) \o Main(End(S("return") \o Zero)) :
     d \in Declaring, s \in Using, t \in Using}
  \cup {Fun("f", << >>, << >>, << >>) \o Fun("f", << >>, << >>, << >>),
        Option \o Option \o Fun("f", << >>, << >>, << >>),
        Option \o S("type") \o Tag("U") \o S("=") \o Tag("None") \o S(";") \o Fun("f", << >>, << >>, << >>)}

---------------------------------------------------------------------------
(* Cases: one to three arms, nested and not, known and not.                 *)
Pat(a, b) == Tag("P") \o Par(a \o S(",") \o b)
Wild == S("_")
Heads ==
  {Tag("None"), Pat(Var("a"), Var("b")), Pat(Var("a"), Tag("None")), Pat(Wild, Tag("None")),
   Pat(Pat(Var("a"), Wild), Var("b")), Pat(Pat(Tag("None"), Wild), Var("b")), Pat(Tag("None"), Wild)}
OddHeads ==
  {Tag("P") \o Par(Wild), Tag("Q"), Tag("U"), Pat(Tag("Q"), Wild),
   Pat(Tag("P") \o Par(Wild), Wild), Pat(Tag("None"), Tag("None"))}
Pairs == {Arm(p, Block(<< >>)) \o Arm(q, Block(<< >>)) : p \in Heads, q \in Heads \cup OddHeads}
Casing ==
  {Option \o S("type") \o Tag("V") \o S("=") \o Tag("U") \o S(";")
     \o Fun("f", Var("x"), << >>, Case(Var("x"), arms)) :
     arms \in {Arm(p, Block(<< >>)) : p \in Heads \cup OddHeads} \cup Pairs
               \cup {t \o Arm(p, Block(<< >>)) : t \in Pairs, p \in Heads}}

\* Left sides, borrows and constructor expressions.
Shapes ==
  {Option \o Fun("f", Var("x"), Var("y"), s) :
     s \in {Set(S("*") \o Var("x"), Var("y")), Set(Zero, Var("y")), Set(Var("y"), S("&") \o Var("x")),
            Out("x"), End(S("output") \o S("&") \o Var("x")), Set(Var("y"), Var("f") \o Par(S("&") \o Var("x"))),
            Set(Var("y"), Var("f") \o Par(S("&") \o Zero)), Set(Var("y"), Tag("P") \o Par(Var("x"))),
            Set(Var("y"), Var("f") \o Par(S("&") \o Var("x") \o S("+") \o Zero)),
            Set(Var("y"), Tag("Q")), Set(Var("y"), Tag("None"))}}

---------------------------------------------------------------------------
(* Options: all sets of views, with and without --constraint and -o.        *)
OptionSets ==
  {v \cup f : v \in SUBSET ToSet(Views), f \in SUBSET {"constraint", "-o"}}
  \cup {{"unknown rule"}, {"ast", "invalid format"}, {"--san"}, {"no such file"}}
  \cup {v \cup {"unwritable"} : v \in SUBSET {"source", "ast", "callgraph", "cfg", "borrow", "--asm"}}

Run(text, opts) == [text |-> text, options |-> opts]
MCRuns ==
  {Run(text, {"source", "ast"}) : text \in Readable}
  \cup {Run(text, {"symbols"}) : text \in Naming \cup Casing \cup Shapes}
  \cup {Run(Returning(Zero), opts) : opts \in OptionSets}
  \cup {Run(Returning(Var("x")), {"source", "cfg"}), Run(Returning(Var("x")), {})}
=============================================================================
