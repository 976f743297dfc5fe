------------------------------ MODULE TypeTerms ------------------------------
(***************************************************************************)
(* topc's type terms, as the unifier solves them and TopTypeClosure closes *)
(* them, and what the ownership rules ask of a closed type. A term is its  *)
(* operator and its subterms; a variable is the node of the tree it        *)
(* belongs to, an alpha also the call it was made for (0: none).           *)
(***************************************************************************)
EXTENDS Naturals, Sequences, SequencesExt

Term(op, kids) == [op |-> op, kids |-> kids]
IntType == Term("int", <<>>)
Own == Term("own", <<>>)
Borrow == Term("borrow", <<>>)
RefType(mode, of) == Term("ref", <<mode, of>>)
FunType(args, result) == Term("fun", Append(args, result))

TypeVar(node) == [op |-> "var", node |-> node, kids |-> <<>>]
ModeVar(node) == [op |-> "mode", node |-> node, kids |-> <<>>]
Alpha(node, site) == [op |-> "alpha", node |-> node, site |-> site, kids |-> <<>>]

IsVariable(t) == t.op \in {"var", "alpha", "mode"}
ReferentOf(t) == t.kids[2]

-----------------------------------------------------------------------------
(* The solver: bound[t] is the parent of t in the union-find.              *)
NothingBound == <<>>

RECURSIVE Find(_, _)
Find(t, bound) == IF t \in DOMAIN bound THEN Find(bound[t], bound) ELSE t

Bind(t, u, bound) ==
  [x \in DOMAIN bound \cup {t} |-> IF x = t THEN u ELSE bound[x]]

Clash == [ok |-> FALSE, bound |-> NothingBound]
Solved(bound) == [ok |-> TRUE, bound |-> bound]

RECURSIVE Solve(_, _)

(* solve and unify (modelled step by step in TermUnifier): the parents     *)
(* after all equations, unless they clash.                                 *)
Solve(equations, bound) ==
  IF equations = <<>> THEN Solved(bound)
  ELSE LET t    == Find(Head(equations)[1], bound)
           u    == Find(Head(equations)[2], bound)
           rest == Tail(equations)
       IN  IF t = u THEN Solve(rest, bound)
           ELSE IF IsVariable(t) THEN Solve(rest, Bind(t, u, bound))
           ELSE IF IsVariable(u) THEN Solve(rest, Bind(u, t, bound))
           ELSE IF t.op # u.op \/ Len(t.kids) # Len(u.kids) THEN Clash
           ELSE Solve(rest \o [i \in DOMAIN t.kids |-> <<t.kids[i], u.kids[i]>>],
                      Bind(t, u, bound))

RECURSIVE FreeVariables(_), Close(_, _, _), Copy(_, _)

(* TypeVars::collect, whose modes do not count.                            *)
FreeVariables(t) ==
  IF t.op \in {"var", "alpha"} THEN {t}
  ELSE UNION {FreeVariables(t.kids[i]) : i \in DOMAIN t.kids}
         \ (IF t.op = "mu" THEN {t.kids[1]} ELSE {})

AlphaOf(v) == IF v.op = "var" THEN Alpha(v.node, 0) ELSE v

Unclosed == Term("unclosed", <<>>)

(* Mutant: a mode that is known is refused too.                            *)
CloseModeFree(m, bound) == IF Find(m, bound) # m THEN Unclosed ELSE m

(* close refuses a mode that is another variable's.                        *)
CloseMode(m, bound) ==
  IF Find(m, bound) # m /\ IsVariable(Find(m, bound)) THEN Unclosed ELSE Find(m, bound)

(* TopTypeClosure::close.                                                  *)
Close(t, seen, bound) ==
  IF t.op = "mode" THEN CloseMode(t, bound)
  ELSE IF t.op = "mu" THEN Term("mu", <<t.kids[1], Close(t.kids[2], seen, bound)>>)
  ELSE IF ~IsVariable(t)
  THEN Term(t.op, [i \in DOMAIN t.kids |-> Close(t.kids[i], seen, bound)])
  ELSE IF t \in seen \/ Find(t, bound) = t THEN AlphaOf(t)
  ELSE LET closed == Close(Find(t, bound), seen \cup {t}, bound)
       IN  IF closed # AlphaOf(t) /\ AlphaOf(t) \in FreeVariables(closed)
           THEN Term("mu", <<AlphaOf(t), closed>>) ELSE closed

(* FreshAlphaCopier: modes are shared between the copies.                  *)
Copy(t, site) ==
  IF t.op = "alpha" THEN Alpha(t.node, site)
  ELSE IF t.kids = <<>> THEN t
  ELSE Term(t.op, [i \in DOMAIN t.kids |-> Copy(t.kids[i], site)])

-----------------------------------------------------------------------------
(* Closed types. classifyType: an unresolved mode owns nothing.            *)
RECURSIVE HasUnclosed(_)
HasUnclosed(t) == t = Unclosed \/ \E i \in DOMAIN t.kids : HasUnclosed(t.kids[i])

RECURSIVE Owns(_), HasMode(_), HasBorrow(_), HasRecursion(_), HasFunction(_)
Owns(t) ==
  IF t.op = "mu" THEN Owns(t.kids[2]) ELSE t.op = "ref" /\ t.kids[1] = Own

HasMode(t) == t.op = "mode" \/ \E i \in DOMAIN t.kids : HasMode(t.kids[i])

(* containsTypeVariable.                                                   *)
HasVariable(t) == FreeVariables(t) # {} \/ HasMode(t)

(* containsBorrow: a function value that is stored owns nothing.           *)
HasBorrow(t) ==
  \/ t.op = "ref" /\ (t.kids[1] = Borrow \/ HasBorrow(t.kids[2]))
  \/ t.op = "mu" /\ HasBorrow(t.kids[2])

(* classDependsOnInstantiation.                                            *)
DependsOnInstance(t) ==
  t.op \in {"var", "alpha"} \/ (t.op = "ref" /\ t.kids[1].op = "mode")

HasRecursion(t) == t.op = "mu" \/ \E i \in DOMAIN t.kids : HasRecursion(t.kids[i])
HasFunction(t) == t.op = "fun" \/ \E i \in DOMAIN t.kids : HasFunction(t.kids[i])

(* containsRecursiveFunctionType.                                          *)
RECURSIVE HasRecursiveFunction(_)
HasRecursiveFunction(t) ==
  IF t.op = "mu" THEN HasFunction(t.kids[2])
  ELSE \E i \in DOMAIN t.kids : HasRecursiveFunction(t.kids[i])
=============================================================================
