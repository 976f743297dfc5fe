----------------------------- MODULE WeedingChecks -----------------------------
(***************************************************************************)
(* src/semantic/weeding and BorrowChecker::check: the checks of the shape  *)
(* of a program, before it has types.  Each walks the tree and throws at   *)
(* the first node it objects to.                                           *)
(***************************************************************************)
EXTENDS SyntaxTree, FiniteSets

NodesOf(tree, is) == {At(tree, p) : p \in {q \in Paths(tree) : At(tree, q).is = is}}

---------------------------------------------------------------------------
isAssignable(e) == e.is = "VariableExpr"

CheckAssignable(tree) ==
  /\ \A s \in NodesOf(tree, "AssignStmt") :
       isAssignable(s.kids[1]) \/ s.kids[1].is = "DeRefExpr"
  /\ \A b \in NodesOf(tree, "BorrowExpr") : isAssignable(b.kids[1])

\* Approved: the borrow is an actual of a call, not the callee.
BorrowCheck(tree) ==
  \A p \in Paths(tree) :
    At(tree, p).is = "BorrowExpr" =>
      At(tree, Front(p)).is = "FunAppExpr" /\ Last(p) > 1

CheckSumTypeNames(tree) ==
  LET types    == getTypedecls(tree)
      variants == FlattenSeq([i \in DOMAIN types |-> types[i].kids])
      Unique(s) == \A i, j \in DOMAIN s : s[i].name = s[j].name => i = j
  IN Unique(types) /\ Unique(variants)

---------------------------------------------------------------------------
(* Constructors: each tag's arity and type, by the declarations.           *)
Variants(tree) == UNION {ToSet(t.kids) : t \in ToSet(getTypedecls(tree))}
Constructors(tree) == {v.name : v \in Variants(tree)}
constructorArity(tree, tag) ==
  Len((CHOOSE v \in Variants(tree) : v.name = tag).kids)
constructorType(tree, tag) ==
  (CHOOSE t \in ToSet(getTypedecls(tree)) : \E v \in ToSet(t.kids) : v.name = tag).name

Fits(tree, tag, n) == tag \in Constructors(tree) /\ constructorArity(tree, tag) = n

isIrrefutablePattern(p) == p.is \in {"VarPattern", "WildcardPattern"}
\* The first payload only.
firstIrrefutablePayload(arm) == arm.patterns = << >> \/ isIrrefutablePattern(arm.patterns[1])
allIrrefutablePayload(arm) == \A i \in DOMAIN arm.patterns : isIrrefutablePattern(arm.patterns[i])

\* Binders by their names: P(a) and P(b) differ.
patternsIdentical(a, b) == a = b

allPatternsIdentical(a, b) ==
  /\ Len(a.patterns) = Len(b.patterns)
  /\ \A i \in DOMAIN a.patterns : patternsIdentical(a.patterns[i], b.patterns[i])

Unreachable(arms, i) ==
  \E j \in 1 .. i - 1 :
    /\ arms[j].name = arms[i].name
    /\ allIrrefutablePayload(arms[j]) \/ allPatternsIdentical(arms[j], arms[i])

CaseComplete(tree, stmt) ==
  LET arms == Tail(stmt.kids)
      tags == {a.name : a \in ToSet(arms)}
      type == constructorType(tree, arms[1].name)
  IN /\ \A i \in DOMAIN arms :
          /\ Fits(tree, arms[i].name, Len(arms[i].patterns))
          /\ ~Unreachable(arms, i)
     /\ {c \in Constructors(tree) : constructorType(tree, c) = type} \subseteq tags
     /\ \A tag \in tags : constructorType(tree, tag) = type

CheckCaseCompleteness(tree) ==
  /\ \A stmt \in NodesOf(tree, "CaseStmt") : CaseComplete(tree, stmt)
  /\ \A e \in NodesOf(tree, "SumCtorExpr") : Fits(tree, e.name, Len(e.kids))

RECURSIVE checkPattern(_, _)
checkPattern(tree, p) ==
  p.is = "CtorPattern" =>
    /\ Fits(tree, p.name, Len(p.kids))
    /\ \A i \in DOMAIN p.kids : checkPattern(tree, p.kids[i])

CheckPatternTypes(tree) ==
  \A arm \in NodesOf(tree, "CaseArm") :
    \A i \in DOMAIN arm.patterns : checkPattern(tree, arm.patterns[i])

---------------------------------------------------------------------------
(* The values a case can meet, the reference: constructors applied to      *)
(* values down to some depth, and one value that no constructor made.      *)
Value(tag, payloads) == [tag |-> tag, payloads |-> payloads]
RECURSIVE Values(_, _)
Values(tree, depth) ==
  {Value("", << >>)} \cup
  (IF depth = 0 THEN {}
   ELSE UNION {{Value(v.name, payloads) :
                  payloads \in [1 .. Len(v.kids) -> Values(tree, depth - 1)]} :
                v \in Variants(tree)})

RECURSIVE Accepts(_, _)
Accepts(pattern, value) ==
  \/ isIrrefutablePattern(pattern)
  \/ /\ pattern.name = value.tag /\ DOMAIN pattern.kids = DOMAIN value.payloads
     /\ \A i \in DOMAIN pattern.kids : Accepts(pattern.kids[i], value.payloads[i])
Takes(arm, value) ==
  /\ arm.name = value.tag /\ DOMAIN arm.patterns = DOMAIN value.payloads
  /\ \A i \in DOMAIN arm.patterns : Accepts(arm.patterns[i], value.payloads[i])

\* No value comes to the arm.
Dead(tree, arms, i, depth) ==
  \A v \in Values(tree, depth) : Takes(arms[i], v) => \E j \in 1 .. i - 1 : Takes(arms[j], v)
=============================================================================
