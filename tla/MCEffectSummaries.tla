------------------------- MODULE MCEffectSummaries -------------------------
(***************************************************************************)
(* Programs for EffectSummaries: one enumerated generic function f, one    *)
(* function g between it and a small library, and a main program for owned *)
(* values, for integers and for borrows.                                   *)
(***************************************************************************)
EXTENDS EffectSummaries

(* id(p) { return p; }    take(p) { return *p; }    drop(p) { return 0; }  *)
(* set(p, v) { *p = v; return 0; }   free(p) { output *p; return 0; }      *)
(* zero(p) { output p; return 0; }   get() { return zero; }                *)
Library ==
  [id   |-> Function(<<"p">>, {}, <<Return(Var("p"))>>),
   take |-> Function(<<"p">>, {}, <<Return(Deref("p"))>>),
   drop |-> Function(<<"p">>, {}, <<Return(Const)>>),
   set  |-> Function(<<"p", "v">>, {}, <<Store("p", Var("v")), Return(Const)>>),
   free |-> Function(<<"p">>, {}, <<Output(Deref("p")), Return(Const)>>),
   zero |-> Function(<<"p">>, {}, <<Output(Var("p")), Return(Const)>>),
   get  |-> Function(<<>>, {}, <<Return(Var("zero"))>>)]

To(site, fn, e) == Call(site, fn, <<e>>)

(* Bodies of g(q): on to the library, recursive, or with a borrow as q.    *)
G(e) == Function(<<"q">>, {}, <<Return(e)>>)
Again(fn) ==
  Function(<<"q">>, {"z"},
    <<If(Const, <<Assign("z", To(1, "g", Var("q")))>>,
                <<Assign("z", To(2, fn, Var("q")))>>),
      Return(Var("z"))>>)
Straight == G(Var("q"))
Middle ==
  {Straight, G(To(1, "id", Var("q"))), G(To(1, "take", Lend("q"))), G(To(1, "drop", Var("q")))}
MiddleOfBorrow ==
  {G(To(1, "take", Var("q"))), G(Deref("q")),
   Function(<<"q">>, {"i"},
            <<Assign("i", To(1, "drop", Var("q"))), Return(To(2, "take", Var("q")))>>)}

Pass(site, v) == Assign("i", To(site, "h", Var(v)))
Keep(e) == Assign("d", e)

(* Statements of f(h, x, w): y is another name of a formal, d the result   *)
(* of a generic call.                                                      *)
Simple(site) ==
  {Assign("y", Var("x")), Assign("x", Var("w")), Pass(site, "x"), Pass(site, "w"),
   Pass(site, "y"), Keep(To(site, "id", Var("x"))), Keep(To(site, "take", Lend("x"))),
   Assign("i", Call(site, "set", <<Lend("x"), Var("w")>>))}

Block(n, site) ==
  CASE n = 0 -> <<>>
    [] n = 1 -> <<Pass(site, "x")>>
    [] n = 2 -> <<Pass(site, "w")>>
    [] n = 3 -> <<Assign("y", Var("x"))>>

Compound(site) ==
  {If(Const, Block(n[1], site), Block(n[2], site + 1)) :
     n \in {p \in (0..3) \X (0..3) : p[1] < p[2] \/ p = <<1, 1>>}}
    \cup {While(Const, Block(n, site)) : n \in 1..3}
    \cup {While(To(site + 1, "h", Var("x")), Block(n, site)) : n \in 0..3}

Statement(site) == Simple(site) \cup Compound(site)
Results(site) == {Const, Var("x"), Var("y"), Var("d"), To(site, "id", Var("w"))}

Bodies ==
  {<<s, t, Return(e)>> : s \in Statement(10), t \in Statement(20), e \in Results(30)}

(* Bodies that go through g.                                               *)
ThroughG ==
  {<<s, Keep(To(20, "g", Var("x"))), Return(e)>> : s \in Statement(10), e \in Results(30)}
    \cup {<<s, Return(To(30, "g", Var("w")))>> : s \in Statement(10)}
ThroughBorrow ==
  {<<s, Keep(To(20, "g", Lend("x"))), Return(e)>> : s \in Statement(10), e \in Results(30)}

(* main, with f called on integers or on owners.                           *)
Calling(h, value) ==
  <<Assign("c", value), Assign("e", value),
    Assign("r", Call(40, "f", <<Var(h), Var("c"), Var("e")>>)), Return(Const)>>
Modes == {<<"free", Alloc>>, <<"zero", Const>>}

(* Other programs. In main, what is called is no function, comes out of a  *)
(* call, is one of two, or is lent what it gives back.                     *)
Mains ==
  {<<Assign("c", Const), Assign("r", To(40, "c", Const)), Return(Const)>>,
   <<Assign("c", Call(39, "get", <<>>)), Assign("r", To(40, "c", Const)), Return(Const)>>,
   <<Assign("c", Var("g")), Assign("r", To(40, "c", Const)), Return(Const)>>,
   <<Assign("c", Alloc), Assign("r", To(39, "g", Lend("c"))), Assign("e", To(40, "free", Var("c"))),
     Output(Look("r")), Return(Const)>>,
   <<Assign("c", Alloc), Assign("r", Lend("c")), Assign("e", To(40, "free", Var("c"))),
     Output(Look("r")), Return(Const)>>}
    \cup {<<If(Const, <<Assign("j", Var("id"))>>, <<Assign("j", Var("drop"))>>),
             Assign("c", value), Assign("r", To(40, "j", Var("c"))), Return(Const)>> :
           value \in {Alloc, Const}}

(* In main, g gets to j before it gets to id: then j(c) closes a cycle     *)
(* with what id(c) has merged, and whether e has it is open.               *)
Behind ==
  {<<Assign("j", Var("g")), Assign("e", To(38, "id", Var("g"))), Assign("c", value),
     Assign("c", To(39, "j", Var("c"))), Assign("c", To(40, "id", Var("c"))),
     Assign("r", To(41, "e", Var("c"))), Return(Const)>> : value \in {Alloc, Const}}

(* g is recursive, hence not generic, and is lent an owner.                *)
Lending == <<Assign("c", Alloc), Assign("r", To(40, "g", Lend("c"))), Return(Const)>>
Around(s, e) ==
  Function(<<"q">>, {"z"},
    <<s, If(Const, <<Assign("z", To(1, "g", Var("q")))>>, <<>>), Return(e)>>)
Recursions ==
  {Around(s, e) : s \in {Output(Const), Store("q", Alloc)},
                  e \in {Const, Var("z"), Deref("q")}}

(* f takes what a borrow leads to.                                         *)
LendingBoth ==
  <<Assign("c", Const), Assign("r", Call(40, "f", <<Var("zero"), Lend("c"), Lend("c")>>)),
    Return(Const)>>
Reading ==
  {<<Assign("y", Var("x")), Assign("d", Deref(v)), Return(e)>> :
     v \in {"x", "y"}, e \in {Const, Var("d"), Deref("w")}}

(* g reads through what it passes on; it is called or not, and so is take. *)
Peeking ==
  Function(<<"q">>, {"z"}, <<Assign("z", Deref("q")), Return(To(1, "take", Var("q")))>>)
LendsTo(s) == <<Assign("c", Const)>> \o s \o <<Return(Const)>>
Peeks ==
  {LendsTo(s) : s \in {<<>>, <<Assign("r", To(40, "g", Lend("c")))>>,
     <<Assign("r", To(40, "g", Lend("c"))), Assign("e", To(41, "take", Lend("c")))>>}}

(* Borrows that are kept: by a borrow, a result, a variable or a write.    *)
Writing ==
  Function(<<"q">>, {"n", "z"},
           <<Assign("n", Const), Assign("z", Call(1, "set", <<Var("q"), Lend("n")>>)),
             Return(Const)>>)
Unset1 == <<Assign("r", To(40, "g", Lend("c"))), Return(Const)>>
Keepers ==
  {G(Lend("q")), G(To(1, "id", Lend("q"))), Writing,
   Function(<<"q">>, {"z"}, <<Assign("z", Var("q")), Return(To(1, "take", Lend("z")))>>),
   Function(<<"q">>, {"z"}, <<Assign("z", Lend("q")), Return(Const)>>),
   Function(<<"q">>, {}, <<Store("q", Lend("q")), Return(Const)>>),
   Function(<<"q">>, {}, <<Output(Lend("q")), Return(Const)>>)}
Keeping(fn) ==
  <<Assign("c", Const), Assign("r", To(40, fn, Lend("c"))), Return(Const)>>

(* Bodies for the control flow graphs: branches and loops in each other.   *)
Lines == {<<>>, <<Output(Const)>>}
Nest(blocks) ==
  {<<If(Const, a, b)>> : a \in blocks, b \in blocks}
    \cup {<<While(Const, a)>> : a \in blocks}
    \cup {<<Assign("d", Const)>> \o a : a \in blocks}
Twice == Nest(Nest(Lines))
Shapes ==
  {a \o <<Return(Const)>> : a \in Twice} \cup
    {a \o b \o <<Return(Const)>> : a \in Nest(Lines), b \in Nest(Lines)}

-----------------------------------------------------------------------------
Input(main, f, g) == [main |-> main, f |-> f, g |-> g]
NoBody == <<Return(Const)>>

MCInputs ==
  {Input(Calling(m[1], m[2]), b, Straight) : m \in Modes, b \in Bodies}
    \cup {Input(Calling(m[1], m[2]), b, g) : m \in Modes, b \in ThroughG, g \in Middle}
    \cup {Input(Calling(m[1], m[2]), b, g) :
            m \in Modes, b \in ThroughBorrow, g \in MiddleOfBorrow}
    \cup {Input(Calling("zero", Const), b, g) :
            b \in ThroughG, g \in {Again("id"), Again("drop")}}
    \cup {Input(main, NoBody, Straight) : main \in Mains \cup Behind}
    \cup {Input(Lending, NoBody, g) : g \in Recursions \cup {Again("id")}}
    \cup {Input(LendingBoth, b, Straight) : b \in Reading}
    \cup {Input(Lending, NoBody, G(Var("g")))}
    \cup {Input(main, NoBody, Peeking) : main \in Peeks}
    \cup {Input(Unset1, NoBody, g) : g \in Keepers}
    \cup {Input(Keeping(fn), NoBody, Straight) : fn \in {"g", "id", "take"}}
    \cup {Input(<<Return(Const)>>, b, Straight) : b \in Shapes}

(* id is called by name, and somewhere in main also used as a value.       *)
PinnedInputs ==
  {Input(<<Assign("c", Alloc), Assign("j", Var("id")), Assign("e", To(39, fn, value)),
           Assign("r", To(40, "id", Var("c"))), Return(Const)>>, NoBody, Straight) :
     fn \in {"j", "g"}, value \in {Const, Alloc}}

(* The functions a body names.                                             *)
NamedIn(body) ==
  LET atoms == UNION {IF e.op = "call" THEN {Var(e.fn)} \cup ToSet(e.args) ELSE {e} :
                      e \in ToSet(Expressions(body))}
  IN  {e.var : e \in {e \in atoms : e.op = "var"}}

Order == <<"id", "take", "main", "f", "g", "get", "set", "drop", "free", "zero">>

MCProgramOf(c) ==
  LET own  == [main |-> Function(<<>>, {"c", "e", "j", "r"}, c.main),
               f |-> Function(<<"h", "x", "w">>, {"y", "d", "i"}, c.f),
               g |-> c.g]
      all  == own @@ Library
      near == UNION {NamedIn(own[f].body) : f \in DOMAIN own}
      used == DOMAIN own \cup {f \in DOMAIN Library : f \in near}
                \cup (IF "get" \in near THEN {"zero"} ELSE {})
  IN  [order |-> SelectSeq(Order, LAMBDA f : f \in used),
       functions |-> [f \in used |-> all[f]]]
=============================================================================
