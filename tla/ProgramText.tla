----------------------------- MODULE ProgramText -----------------------------
(***************************************************************************)
(* TOP programs in a normal form: the actuals of a call are variables,     *)
(* borrows, dereferences and constants, nested calls being named by        *)
(* locals; every call has a number, its site. A function is its formals,   *)
(* its locals with the formals, and a body that ends with its return.      *)
(***************************************************************************)
EXTENDS Naturals, Sequences, SequencesExt

(* Expressions.                                                            *)
Var(v) == [op |-> "var", var |-> v]
Lend(v) == [op |-> "lend", var |-> v]     \* &v
Deref(v) == [op |-> "deref", var |-> v]   \* *v
Look(v) == [op |-> "look", var |-> v]     \* **v
Alloc == [op |-> "alloc"]                 \* of an integer
Const == [op |-> "const"]
Call(site, fn, args) == [op |-> "call", site |-> site, fn |-> fn, args |-> args]

(* Statements.                                                             *)
Assign(v, e) == [op |-> "assign", var |-> v, exp |-> e]
Store(p, e) == [op |-> "store", var |-> p, exp |-> e]     \* *p = e
Output(e) == [op |-> "output", exp |-> e]
If(e, then, else) == [op |-> "if", exp |-> e, then |-> then, else |-> else]
While(e, body) == [op |-> "while", exp |-> e, body |-> body]
Return(e) == [op |-> "return", exp |-> e]

Function(formals, locals, body) ==
  [formals |-> formals, vars |-> ToSet(formals) \cup locals, body |-> body]

Returned(fn) == Last(fn.body).exp

RECURSIVE Statements(_)

(* All statements of a block in the order of the tree, nested ones too.    *)
Statements(block) ==
  IF block = <<>> THEN <<>>
  ELSE LET s == Head(block)
       IN  <<s>>
           \o (IF s.op = "if" THEN Statements(s.then) \o Statements(s.else)
               ELSE IF s.op = "while" THEN Statements(s.body) ELSE <<>>)
           \o Statements(Tail(block))

Within(block) == ToSet(Statements(block))
Expressions(block) == [i \in DOMAIN Statements(block) |-> Statements(block)[i].exp]
CallsOf(fn) == SelectSeq(Expressions(fn.body), LAMBDA e : e.op = "call")
=============================================================================
