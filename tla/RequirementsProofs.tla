-------------------------- MODULE RequirementsProofs --------------------------
(***************************************************************************)
(* Proofs about Requirements, for all calls and all that bodies may ask:   *)
(* requirements form a lattice in which they only grow; after the last     *)
(* pass all calls answer for what is required, by the least requirements   *)
(* that do; and a program is rejected only if no requirements would do.    *)
(***************************************************************************)
EXTENDS Requirements, SequenceTheorems, TLAPS

(* Type correctness.                                                       *)
TypeInv ==
  /\ phase \in {"resolve", "effects", "rejected"}
  /\ NoFormal \notin Formals
  /\ asked \in [Formals -> Requirement]
  /\ required \in [Formals -> Requirement]
  /\ actuals \in Seq(Actual)
  /\ at \in Nat \ {0}
  /\ changed \in BOOLEAN

(* A pass that has changed nothing leaves no call behind that does not     *)
(* answer; what is changed late in a pass may, which is why there is       *)
(* another pass.                                                           *)
PassInv ==
  phase # "rejected" /\ ~changed =>
    \A i \in DOMAIN actuals : i < at => Met(required, actuals[i])

EndInv == phase = "effects" => ~changed /\ at > Len(actuals)

GrownInv == \A f \in Formals : Covers(required[f], asked[f])

ResolveInv ==
  TypeInv /\ PassInv /\ EndInv /\ GrownInv /\ NeverTooMuch /\ RejectionsAreReal

-----------------------------------------------------------------------------
(* Requirements as a lattice.                                              *)

LEMMA JoinType ==
  ASSUME NEW r \in Requirement, NEW s \in Requirement
  PROVE  /\ Join(r, s) \in Requirement
         /\ Join(r, s).needs = JoinNeeds(r.needs, s.needs)
         /\ Join(r, s).why = r.why \cup s.why
<1>1. r.needs \in Needs /\ s.needs \in Needs /\ r.why \in SUBSET Reasons /\ s.why \in SUBSET Reasons
  BY DEF Requirement
<1>2. JoinNeeds(r.needs, s.needs) \in Needs
  BY <1>1 DEF JoinNeeds, Needs
<1> QED
  BY <1>1, <1>2 DEF Join, Requirement

(* What it is to require as much.                                          *)
AtMost(m, n) == JoinNeeds(n, m) = n

LEMMA CoversIs ==
  ASSUME NEW r \in Requirement, NEW s \in Requirement
  PROVE  Covers(r, s) <=> AtMost(s.needs, r.needs) /\ s.why \subseteq r.why
<1>1. r = [needs |-> r.needs, why |-> r.why]
  BY DEF Requirement
<1>2. /\ Join(r, s).needs = JoinNeeds(r.needs, s.needs)
      /\ Join(r, s).why = r.why \cup s.why
  BY JoinType
<1>3. Covers(r, s) => AtMost(s.needs, r.needs) /\ s.why \subseteq r.why
  BY <1>2 DEF Covers, AtMost
<1>4. ASSUME AtMost(s.needs, r.needs), s.why \subseteq r.why PROVE Covers(r, s)
  <2>1. JoinNeeds(r.needs, s.needs) = r.needs /\ r.why \cup s.why = r.why
    BY <1>4 DEF AtMost
  <2> QED
    BY <1>1, <2>1 DEF Covers, Join
<1> QED
  BY <1>3, <1>4

LEMMA CoversTransitive ==
  ASSUME NEW r \in Requirement, NEW s \in Requirement, NEW t \in Requirement,
         Covers(r, s), Covers(s, t)
  PROVE  Covers(r, t)
<1>1. /\ AtMost(s.needs, r.needs) /\ s.why \subseteq r.why
      /\ AtMost(t.needs, s.needs) /\ t.why \subseteq s.why
  BY CoversIs
<1>2. r.needs \in Needs /\ s.needs \in Needs /\ t.needs \in Needs
  BY DEF Requirement
<1>3. AtMost(t.needs, r.needs)
  BY <1>1, <1>2 DEF AtMost, JoinNeeds, Needs
<1> QED
  BY <1>1, <1>3, CoversIs

LEMMA CoversItself ==
  ASSUME NEW r \in Requirement
  PROVE  Covers(r, r)
<1>1. AtMost(r.needs, r.needs)
  BY DEF AtMost, JoinNeeds
<1> QED
  BY <1>1, CoversIs

LEMMA JoinCovers ==
  ASSUME NEW r \in Requirement, NEW s \in Requirement
  PROVE  Covers(Join(r, s), r) /\ Covers(Join(r, s), s)
<1>1. /\ Join(r, s) \in Requirement
      /\ Join(r, s).needs = JoinNeeds(r.needs, s.needs)
      /\ Join(r, s).why = r.why \cup s.why
  BY JoinType
<1>2. r.needs \in Needs /\ s.needs \in Needs
  BY DEF Requirement
<1>3. AtMost(r.needs, Join(r, s).needs) /\ AtMost(s.needs, Join(r, s).needs)
  BY <1>1, <1>2 DEF AtMost, JoinNeeds, Needs
<1> QED
  BY <1>1, <1>3, CoversIs

LEMMA JoinLeast ==
  ASSUME NEW r \in Requirement, NEW s \in Requirement, NEW t \in Requirement,
         Covers(t, r), Covers(t, s)
  PROVE  Covers(t, Join(r, s))
<1>1. /\ Join(r, s) \in Requirement
      /\ Join(r, s).needs = JoinNeeds(r.needs, s.needs)
      /\ Join(r, s).why = r.why \cup s.why
  BY JoinType
<1>2. r.needs \in Needs /\ s.needs \in Needs /\ t.needs \in Needs
  BY DEF Requirement
<1>3. /\ AtMost(r.needs, t.needs) /\ r.why \subseteq t.why
      /\ AtMost(s.needs, t.needs) /\ s.why \subseteq t.why
  BY CoversIs
<1>4. AtMost(Join(r, s).needs, t.needs)
  BY <1>1, <1>2, <1>3 DEF AtMost, JoinNeeds, Needs
<1> QED
  BY <1>1, <1>3, <1>4, CoversIs

-----------------------------------------------------------------------------
(* Judging an actual against more.                                         *)

LEMMA ActualType ==
  ASSUME NEW a \in Actual
  PROVE  /\ a.of \in Formals /\ a.self \in Verdicts /\ a.referent \in Verdicts
         /\ a.lends \in BOOLEAN
         /\ a.from \in Formals \cup {NoFormal} /\ a.lent \in Formals \cup {NoFormal}
         /\ a.lends => a.self = "satisfied"
BY DEF Actual

LEMMA VerdictOfMore ==
  ASSUME NEW a \in Actual, NEW m \in Needs, NEW n \in Needs,
         AtMost(m, n), m # "none"
  PROVE  /\ n # "none"
         /\ Verdict(a, n) = "satisfied" => Verdict(a, m) = "satisfied"
         /\ Verdict(a, m) = "violated" => Verdict(a, n) = "violated"
         /\ Verdict(a, m) \in Verdicts
<1>1. a.self \in Verdicts /\ a.referent \in Verdicts
  BY ActualType
<1>2. \/ m = n /\ n # "none"
      \/ n = "both" /\ m \in {"self", "referent"}
  BY DEF AtMost, JoinNeeds, Needs
<1> QED
  BY <1>1, <1>2 DEF Verdict, Verdicts, Needs

LEMMA InheritedType ==
  ASSUME NEW a \in Actual, NEW r \in Requirement
  PROVE  /\ Inherited(a, r) \in Requirement
         /\ Source(a, r) \in Formals \cup {NoFormal}
<1>1. r.why \in SUBSET Reasons /\ a.lent \in Formals \cup {NoFormal} /\ a.from \in Formals \cup {NoFormal}
  BY ActualType DEF Requirement
<1>2. r.why \cup {"lends"} \in SUBSET Reasons /\ "self" \in Needs
  BY <1>1 DEF Reasons, Needs
<1> QED
  BY <1>1, <1>2 DEF Inherited, Source, Requirement

(* Where more is required, the same formal inherits more: that a borrow    *)
(* itself never owns is what keeps the formal the same.                    *)
LEMMA InheritedOfMore ==
  ASSUME NEW a \in Actual, NEW r \in Requirement, NEW s \in Requirement,
         Covers(s, r), r.needs # "none", Verdict(a, r.needs) = "undetermined"
  PROVE  Source(a, s) = Source(a, r) /\ Covers(Inherited(a, s), Inherited(a, r))
<1>1. /\ r.needs \in Needs /\ s.needs \in Needs
      /\ AtMost(r.needs, s.needs) /\ r.why \subseteq s.why
  BY CoversIs DEF Requirement
<1>2. a.lends => r.needs # "self"
  BY ActualType DEF Verdict
<1>3. a.lends => s.needs # "self"
  BY <1>1, <1>2 DEF AtMost, JoinNeeds, Needs
<1>4. Lends(a, s) <=> Lends(a, r)
  BY <1>2, <1>3 DEF Lends
<1>5. Inherited(a, s) \in Requirement /\ Inherited(a, r) \in Requirement
  BY InheritedType
<1>6. CASE Lends(a, r)
  <2>1. /\ Inherited(a, s) = [needs |-> "self", why |-> s.why \cup {"lends"}]
        /\ Inherited(a, r) = [needs |-> "self", why |-> r.why \cup {"lends"}]
    BY <1>4, <1>6 DEF Inherited
  <2>2. AtMost("self", "self")
    BY DEF AtMost, JoinNeeds
  <2>3. Covers(Inherited(a, s), Inherited(a, r))
    BY <1>1, <1>5, <2>1, <2>2, CoversIs
  <2> QED
    BY <1>4, <2>3 DEF Source
<1>7. CASE ~Lends(a, r)
  BY <1>4, <1>7 DEF Inherited, Source
<1> QED
  BY <1>6, <1>7

-----------------------------------------------------------------------------
(* Any requirements that answer for all calls answer for this one, of      *)
(* which less is required so far.                                          *)
LEMMA AnswersForThis ==
  ASSUME TypeInv, NEW R \in [Formals -> Requirement], Answers(R),
         \A f \in Formals : Covers(R[f], required[f]),
         NEW i \in DOMAIN actuals, NEW a \in Actual, a = actuals[i],
         NEW r \in Requirement, r = required[a.of], r.needs # "none"
  PROVE  /\ Verdict(a, r.needs) # "violated"
         /\ Verdict(a, r.needs) = "undetermined" =>
              /\ Source(a, r) # NoFormal
              /\ Covers(R[Source(a, r)], Inherited(a, r))
<1> DEFINE s == R[a.of]
<1>1. a.of \in Formals
  BY ActualType
<1>2. s \in Requirement /\ Covers(s, r)
  BY <1>1
<1>3. AtMost(r.needs, s.needs) /\ r.needs \in Needs /\ s.needs \in Needs
  BY <1>2, CoversIs DEF Requirement
<1>4. /\ s.needs # "none"
      /\ Verdict(a, s.needs) = "satisfied" => Verdict(a, r.needs) = "satisfied"
      /\ Verdict(a, r.needs) = "violated" => Verdict(a, s.needs) = "violated"
  BY <1>3, VerdictOfMore
<1>5. \/ Verdict(a, s.needs) = "satisfied"
      \/ /\ Verdict(a, s.needs) = "undetermined"
         /\ Source(a, s) # NoFormal
         /\ Covers(R[Source(a, s)], Inherited(a, s))
  BY <1>4 DEF Answers, Met
<1>6. Verdict(a, r.needs) # "violated"
  BY <1>4, <1>5
<1>7. ASSUME Verdict(a, r.needs) = "undetermined"
      PROVE  Source(a, r) # NoFormal /\ Covers(R[Source(a, r)], Inherited(a, r))
  <2>1. Source(a, s) # NoFormal /\ Covers(R[Source(a, s)], Inherited(a, s))
    BY <1>4, <1>5, <1>7
  <2>2. Source(a, s) = Source(a, r) /\ Covers(Inherited(a, s), Inherited(a, r))
    BY <1>2, <1>7, InheritedOfMore
  <2>3. /\ Inherited(a, s) \in Requirement /\ Inherited(a, r) \in Requirement
        /\ Source(a, s) \in Formals \cup {NoFormal}
    BY <1>2, InheritedType
  <2>4. R[Source(a, s)] \in Requirement
    BY <2>1, <2>3
  <2> QED
    BY <2>1, <2>2, <2>3, <2>4, CoversTransitive
<1> QED
  BY <1>6, <1>7

LEMMA InitInv == ResolveInit => ResolveInv
<1> SUFFICES ASSUME ResolveInit PROVE ResolveInv
  OBVIOUS
<1>1. TypeInv
  <2>1. at \in Nat \ {0}
    BY DEF ResolveInit
  <2> QED
    BY <2>1 DEF ResolveInit, TypeInv
<1>2. PassInv
  <2>1. \A i \in DOMAIN actuals : ~(i < at)
    BY LenProperties DEF ResolveInit
  <2> QED
    BY <2>1 DEF PassInv
<1>3. EndInv /\ RejectionsAreReal
  BY DEF ResolveInit, EndInv, RejectionsAreReal
<1>4. GrownInv
  BY <1>1, CoversItself DEF ResolveInit, GrownInv, TypeInv
<1>5. NeverTooMuch
  BY DEF ResolveInit, NeverTooMuch, Answers
<1> QED
  BY <1>1, <1>2, <1>3, <1>4, <1>5 DEF ResolveInv

(* What a step keeps that requires no more.                                *)
LEMMA Keeps ==
  ASSUME ResolveInv, asked' = asked, required' = required, actuals' = actuals
  PROVE  /\ GrownInv' /\ NeverTooMuch'
         /\ \A a : Met(required, a)' <=> Met(required, a)
         /\ \A R \in [Formals -> Requirement] : Answers(R)' <=> Answers(R)
         /\ [Formals -> Requirement]' = [Formals -> Requirement]
         /\ Actual' = Actual
BY DEF ResolveInv, GrownInv, NeverTooMuch, Answers, Met, Formals, Actual

(* The actual that is judged, and what is required of it.                  *)
LEMMA Judged ==
  ASSUME ResolveInv, phase = "resolve", at <= Len(actuals)
  PROVE  /\ at \in DOMAIN actuals
         /\ actuals[at] \in Actual
         /\ actuals[at].of \in Formals
         /\ required[actuals[at].of] \in Requirement
<1>1. /\ actuals \in Seq(Actual) /\ at \in Nat \ {0}
      /\ required \in [Formals -> Requirement]
  BY DEF ResolveInv, TypeInv
<1>2. DOMAIN actuals = 1..Len(actuals) /\ Len(actuals) \in Nat
  BY <1>1, LenProperties
<1>3. at \in 1..Len(actuals)
  BY <1>1, <1>2
<1>4. actuals[at] \in Actual
  BY <1>1, <1>3, ElementOfSeq
<1> QED
  BY <1>1, <1>2, <1>3, <1>4, ActualType

(* The places in the pass up to the one that has been judged.              *)
LEMMA OneMore ==
  ASSUME TypeInv, NEW i \in DOMAIN actuals, i < at + 1
  PROVE  i < at \/ i = at
<1>1. DOMAIN actuals = 1..Len(actuals) /\ Len(actuals) \in Nat /\ at \in Nat
  BY LenProperties DEF TypeInv
<1> QED
  BY <1>1

(* The type settles it.                                                    *)
LEMMA SettledStep ==
  ASSUME ResolveInv, phase = "resolve", at <= Len(actuals), at' = at + 1,
         LET r == required[actuals[at].of]
         IN  r.needs = "none" \/ Verdict(actuals[at], r.needs) = "satisfied",
         UNCHANGED <<prog, phase, reason, asked, required, actuals, changed>>
  PROVE  ResolveInv'
<1>1. Actual' = Actual /\ GrownInv' /\ NeverTooMuch'
  BY Keeps
<1>2. TypeInv'
  BY <1>1 DEF ResolveInv, TypeInv, Formals
<1>3. Met(required, actuals[at])
  BY DEF Met
<1>4. PassInv'
  <2> SUFFICES ASSUME ~changed, NEW i \in DOMAIN actuals, i < at + 1
               PROVE  Met(required, actuals[i])
    BY DEF PassInv, Met
  <2>1. i < at \/ i = at
    BY OneMore DEF ResolveInv
  <2> QED
    BY <1>3, <2>1 DEF ResolveInv, PassInv
<1>5. EndInv' /\ RejectionsAreReal'
  BY DEF EndInv, RejectionsAreReal
<1> QED
  BY <1>1, <1>2, <1>4, <1>5 DEF ResolveInv

(* A rejection: no requirements would have done.                           *)
LEMMA RejectStep ==
  ASSUME ResolveInv, phase = "resolve", at <= Len(actuals), at' = at + 1,
         phase' = "rejected",
         LET a == actuals[at]
             r == required[a.of]
         IN  /\ r.needs # "none"
             /\ \/ Verdict(a, r.needs) = "violated"
                \/ Verdict(a, r.needs) = "undetermined" /\ Source(a, r) = NoFormal,
         UNCHANGED <<prog, asked, required, actuals, changed>>
  PROVE  ResolveInv'
<1>1. /\ Actual' = Actual /\ GrownInv' /\ NeverTooMuch'
      /\ \A R \in [Formals -> Requirement] : Answers(R)' <=> Answers(R)
      /\ [Formals -> Requirement]' = [Formals -> Requirement]
  BY Keeps
<1>2. TypeInv'
  BY <1>1 DEF ResolveInv, TypeInv, Formals
<1>3. PassInv' /\ EndInv'
  BY DEF PassInv, EndInv
<1>4. ASSUME NEW R \in [Formals -> Requirement], Answers(R) PROVE FALSE
  <2>1. /\ at \in DOMAIN actuals
        /\ actuals[at] \in Actual
        /\ actuals[at].of \in Formals
        /\ required[actuals[at].of] \in Requirement
    BY Judged
  <2>2. \A f \in Formals : Covers(R[f], required[f])
    BY <1>4 DEF ResolveInv, NeverTooMuch
  <2>3. TypeInv
    BY DEF ResolveInv
  <2> QED
    BY <1>4, <2>1, <2>2, <2>3, AnswersForThis
<1>5. RejectionsAreReal'
  BY <1>1, <1>4 DEF RejectionsAreReal
<1> QED
  BY <1>1, <1>2, <1>3, <1>5 DEF ResolveInv

(* The caller's formal inherits what is required.                          *)
LEMMA InheritStep ==
  ASSUME ResolveInv, phase = "resolve", at <= Len(actuals), at' = at + 1,
         NEW a \in Actual, a = actuals[at],
         NEW r \in Requirement, r = required[a.of],
         r.needs # "none", Verdict(a, r.needs) = "undetermined",
         Source(a, r) # NoFormal,
         required' = [required EXCEPT ![Source(a, r)] = Join(@, Inherited(a, r))],
         changed' = (changed \/ required' # required),
         UNCHANGED <<prog, phase, reason, asked, actuals>>
  PROVE  ResolveInv'
<1> DEFINE src == Source(a, r)
           more == Inherited(a, r)
<1>1. /\ src \in Formals /\ more \in Requirement
      /\ required \in [Formals -> Requirement]
      /\ required[src] \in Requirement
  BY InheritedType DEF ResolveInv, TypeInv
<1>2. Join(required[src], more) \in Requirement
  BY <1>1, JoinType
<1>3. Formals' = Formals /\ Actual' = Actual
  BY DEF Formals, Actual
<1> HIDE DEF src, more
<1>4. /\ required' \in [Formals -> Requirement]
      /\ required'[src] = Join(required[src], more)
      /\ \A f \in Formals : f # src => required'[f] = required[f]
  BY <1>1, <1>2 DEF src, more
<1>5. \A f \in Formals : Covers(required'[f], required[f])
  <2> SUFFICES ASSUME NEW f \in Formals PROVE Covers(required'[f], required[f])
    OBVIOUS
  <2>1. required[f] \in Requirement
    BY <1>1
  <2>2. CASE f = src
    BY <1>1, <1>4, <2>2, JoinCovers
  <2>3. CASE f # src
    BY <1>4, <2>1, <2>3, CoversItself
  <2> QED
    BY <2>2, <2>3
<1>6. TypeInv'
  BY <1>3, <1>4 DEF ResolveInv, TypeInv
<1>7. GrownInv'
  <2> SUFFICES ASSUME NEW f \in Formals PROVE Covers(required'[f], asked[f])
    BY <1>3 DEF GrownInv
  <2>1. required'[f] \in Requirement /\ required[f] \in Requirement /\ asked[f] \in Requirement
    BY <1>1, <1>4 DEF ResolveInv, TypeInv
  <2>2. Covers(required'[f], required[f]) /\ Covers(required[f], asked[f])
    BY <1>5 DEF ResolveInv, GrownInv
  <2> QED
    BY <2>1, <2>2, CoversTransitive
<1>8. NeverTooMuch'
  <2>1. ASSUME NEW R \in [Formals -> Requirement], Answers(R), NEW f \in Formals
        PROVE  Covers(R[f], required'[f])
    <3>1. \A g \in Formals : Covers(R[g], required[g])
      BY <2>1 DEF ResolveInv, NeverTooMuch
    <3>2. CASE f = src
      <4>1. at \in DOMAIN actuals /\ TypeInv
        BY Judged DEF ResolveInv
      <4>2. Covers(R[src], more)
        BY <2>1, <3>1, <4>1, AnswersForThis DEF src, more
      <4>3. R[src] \in Requirement /\ Covers(R[src], required[src])
        BY <1>1, <3>1
      <4> QED
        BY <1>1, <1>4, <3>2, <4>2, <4>3, JoinLeast
    <3>3. CASE f # src
      BY <1>4, <3>1, <3>3
    <3> QED
      BY <3>2, <3>3
  <2>2. \A R \in [Formals -> Requirement] : Answers(R)' <=> Answers(R)
    BY <1>3 DEF Answers, Met
  <2> QED
    BY <1>3, <2>1, <2>2 DEF NeverTooMuch
<1>9. PassInv'
  <2> SUFFICES ASSUME ~changed', NEW i \in DOMAIN actuals, i < at + 1
               PROVE  Met(required', actuals[i])
    BY DEF PassInv, Met
  <2>1. ~changed /\ required' = required
    OBVIOUS
  <2>2. i < at \/ i = at
    BY OneMore DEF ResolveInv
  <2>3. CASE i < at
    BY <2>1, <2>3 DEF ResolveInv, PassInv
  <2>4. CASE i = at
    <3>1. Join(required[src], more) = required[src]
      BY <1>4, <2>1
    <3>2. Covers(required[src], more)
      BY <3>1 DEF Covers
    <3>3. Met(required, a)
      BY <3>2 DEF Met, src, more
    <3> QED
      BY <2>1, <2>4, <3>3
  <2> QED
    BY <2>2, <2>3, <2>4
<1>10. EndInv' /\ RejectionsAreReal'
  BY DEF EndInv, RejectionsAreReal
<1> QED
  BY <1>6, <1>7, <1>8, <1>9, <1>10 DEF ResolveInv

(* Another pass: nothing has been judged in it yet.                        *)
LEMMA NextPassStep ==
  ASSUME ResolveInv, NextPass
  PROVE  ResolveInv'
<1>1. /\ phase = "resolve" /\ at' = 1 /\ changed' = FALSE
      /\ UNCHANGED <<prog, phase, reason, asked, required, actuals>>
  BY DEF NextPass, PassOver
<1>2. Actual' = Actual /\ GrownInv' /\ NeverTooMuch'
  BY <1>1, Keeps
<1>3. TypeInv'
  <2>1. at' \in Nat \ {0}
    BY <1>1
  <2>2. changed' \in BOOLEAN
    BY <1>1
  <2> QED
    BY <1>1, <1>2, <2>1, <2>2 DEF ResolveInv, TypeInv, Formals
<1>4. PassInv'
  <2>1. \A i \in DOMAIN actuals : ~(i < 1)
    BY LenProperties DEF ResolveInv, TypeInv
  <2> QED
    BY <1>1, <2>1 DEF PassInv
<1>5. EndInv' /\ RejectionsAreReal'
  BY <1>1 DEF EndInv, RejectionsAreReal
<1> QED
  BY <1>2, <1>3, <1>4, <1>5 DEF ResolveInv

(* The end: the last pass has judged all and changed nothing.              *)
LEMMA ResolvedStep ==
  ASSUME ResolveInv, Resolved
  PROVE  ResolveInv'
<1>1. /\ phase = "resolve" /\ at > Len(actuals) /\ ~changed /\ phase' = "effects"
      /\ UNCHANGED <<prog, reason, asked, required, actuals, at, changed>>
  BY DEF Resolved, PassOver, resolving
<1>2. /\ Actual' = Actual /\ GrownInv' /\ NeverTooMuch'
      /\ \A a : Met(required, a)' <=> Met(required, a)
  BY <1>1, Keeps
<1>3. TypeInv'
  BY <1>1, <1>2 DEF ResolveInv, TypeInv, Formals
<1>4. PassInv'
  BY <1>1, <1>2 DEF ResolveInv, PassInv
<1>5. EndInv' /\ RejectionsAreReal'
  BY <1>1 DEF EndInv, RejectionsAreReal
<1> QED
  BY <1>2, <1>3, <1>4, <1>5 DEF ResolveInv

LEMMA StutterStep ==
  ASSUME ResolveInv, UNCHANGED rvars
  PROVE  ResolveInv'
<1>1. UNCHANGED <<prog, phase, reason, asked, required, actuals, at, changed>>
  BY DEF rvars, resolving
<1>2. /\ Actual' = Actual /\ GrownInv' /\ NeverTooMuch'
      /\ \A a : Met(required, a)' <=> Met(required, a)
      /\ \A R \in [Formals -> Requirement] : Answers(R)' <=> Answers(R)
      /\ [Formals -> Requirement]' = [Formals -> Requirement]
  BY <1>1, Keeps
<1>3. TypeInv'
  BY <1>1, <1>2 DEF ResolveInv, TypeInv, Formals
<1>4. PassInv' /\ EndInv' /\ RejectionsAreReal'
  BY <1>1, <1>2 DEF ResolveInv, PassInv, EndInv, RejectionsAreReal
<1> QED
  BY <1>2, <1>3, <1>4 DEF ResolveInv

(* One actual is judged: its type settles it, or the program is rejected,  *)
(* or a formal of the caller inherits what is required of it.              *)
LEMMA JudgeStep ==
  ASSUME ResolveInv, Judge
  PROVE  ResolveInv'
<1>1. /\ phase = "resolve" /\ at <= Len(actuals) /\ at' = at + 1
      /\ UNCHANGED <<prog, asked, actuals>>
  BY DEF Judge
<1>2. PICK a \in Actual : a = actuals[at]
  BY <1>1, Judged
<1>3. PICK r \in Requirement : r = required[a.of]
  BY <1>1, <1>2, Judged
<1>4. \/ /\ r.needs = "none" \/ Verdict(a, r.needs) = "satisfied"
         /\ UNCHANGED <<phase, reason, required, changed>>
      \/ /\ r.needs # "none"
         /\ \/ Verdict(a, r.needs) = "violated"
            \/ Verdict(a, r.needs) = "undetermined" /\ Source(a, r) = NoFormal
         /\ phase' = "rejected"
         /\ UNCHANGED <<required, changed>>
      \/ /\ r.needs # "none" /\ Verdict(a, r.needs) = "undetermined"
         /\ Source(a, r) # NoFormal
         /\ required' = [required EXCEPT ![Source(a, r)] = Join(@, Inherited(a, r))]
         /\ changed' = (changed \/ required' # required)
         /\ UNCHANGED <<phase, reason>>
  BY <1>2, <1>3 DEF Judge, Reject
<1>5. CASE /\ r.needs = "none" \/ Verdict(a, r.needs) = "satisfied"
           /\ UNCHANGED <<phase, reason, required, changed>>
  BY <1>1, <1>2, <1>3, <1>5, SettledStep
<1>6. CASE /\ r.needs # "none"
           /\ \/ Verdict(a, r.needs) = "violated"
              \/ Verdict(a, r.needs) = "undetermined" /\ Source(a, r) = NoFormal
           /\ phase' = "rejected"
           /\ UNCHANGED <<required, changed>>
  BY <1>1, <1>2, <1>3, <1>6, RejectStep
<1>7. CASE /\ r.needs # "none" /\ Verdict(a, r.needs) = "undetermined"
           /\ Source(a, r) # NoFormal
           /\ required' = [required EXCEPT ![Source(a, r)] = Join(@, Inherited(a, r))]
           /\ changed' = (changed \/ required' # required)
           /\ UNCHANGED <<phase, reason>>
  BY <1>1, <1>2, <1>3, <1>7, InheritStep
<1> QED
  BY <1>4, <1>5, <1>6, <1>7

(* The types, and what the passes keep: whatever the calls and the bodies. *)
THEOREM Invariant == ResolveSpec => []ResolveInv
<1>1. ResolveInv /\ [ResolveNext]_rvars => ResolveInv'
  BY JudgeStep, NextPassStep, ResolvedStep, StutterStep DEF ResolveNext
<1> QED
  BY <1>1, InitInv, PTL DEF ResolveSpec

(* When the passes are over, every actual of every call answers for what   *)
(* is required of it, whatever was added late (resolveRequirements).       *)
THEOREM CallsAnswer == ResolveSpec => []RequirementsMet
<1>1. ResolveInv => RequirementsMet
  <2> SUFFICES ASSUME ResolveInv, phase = "effects", NEW i \in DOMAIN actuals
               PROVE  Met(required, actuals[i])
    BY DEF RequirementsMet
  <2>1. ~changed /\ at > Len(actuals) /\ at \in Nat
    BY DEF ResolveInv, EndInv, TypeInv
  <2>2. DOMAIN actuals = 1..Len(actuals) /\ Len(actuals) \in Nat
    BY LenProperties DEF ResolveInv, TypeInv
  <2>3. i < at
    BY <2>1, <2>2
  <2> QED
    BY <2>1, <2>3 DEF ResolveInv, PassInv
<1> QED
  BY <1>1, Invariant, PTL

(* What is required in the end does not depend on the order of the calls:  *)
(* it is the least that answers for all of them.                           *)
THEOREM LeastRequirements == ResolveSpec => []NeverTooMuch
<1>1. ResolveInv => NeverTooMuch
  BY DEF ResolveInv
<1> QED
  BY <1>1, Invariant, PTL

(* Nor does a rejection: no requirements at all would answer for all calls *)
(* of a program that resolveRequirements rejects.                          *)
THEOREM OnlyRealRejections == ResolveSpec => []RejectionsAreReal
<1>1. ResolveInv => RejectionsAreReal
  BY DEF ResolveInv
<1> QED
  BY <1>1, Invariant, PTL

-----------------------------------------------------------------------------
(* The end of the passes.                                                  *)

(* To require more is to demand more.                                      *)
LEMMA DemandsGrow ==
  ASSUME NEW r \in Requirement, NEW s \in Requirement, Covers(s, r)
  PROVE  /\ Demands(r) \subseteq Demands(s)
         /\ s # r => \E d \in Demands(s) : d \notin Demands(r)
<1>1. /\ r = [needs |-> r.needs, why |-> r.why] /\ s = [needs |-> s.needs, why |-> s.why]
      /\ r.needs \in Needs /\ s.needs \in Needs
      /\ r.why \subseteq Reasons /\ s.why \subseteq Reasons
  BY DEF Requirement
<1>2. AtMost(r.needs, s.needs) /\ r.why \subseteq s.why
  BY CoversIs
<1>3. \/ r.needs = s.needs
      \/ r.needs = "none" /\ s.needs \in {"self", "referent", "both"}
      \/ r.needs \in {"self", "referent"} /\ s.needs = "both"
  BY <1>1, <1>2 DEF AtMost, JoinNeeds, Needs
<1>4. Demands(r) \subseteq Demands(s)
  BY <1>2, <1>3 DEF Demands
<1>5. "self" \notin Reasons /\ "referent" \notin Reasons
  BY DEF Reasons
<1>6. ASSUME r.needs # s.needs PROVE \E d \in Demands(s) : d \notin Demands(r)
  <2>1. CASE "self" \in Demands(s) /\ "self" \notin Demands(r)
    BY <2>1
  <2>2. CASE "referent" \in Demands(s) /\ "referent" \notin Demands(r)
    BY <2>2
  <2>3. \/ "self" \in Demands(s) /\ "self" \notin Demands(r)
        \/ "referent" \in Demands(s) /\ "referent" \notin Demands(r)
    BY <1>1, <1>3, <1>5, <1>6 DEF Demands
  <2> QED
    BY <2>1, <2>2, <2>3
<1>7. ASSUME r.needs = s.needs, s # r PROVE \E d \in Demands(s) : d \notin Demands(r)
  <2>0. s.why # r.why
    BY <1>1, <1>7
  <2>1. PICK d \in s.why : d \notin r.why
    BY <1>2, <2>0
  <2>2. d \notin {"self", "referent"}
    BY <1>1, <1>5, <2>1
  <2>3. d # "none" /\ d # "both"
    BY <1>1, <2>1 DEF Reasons
  <2>4. d \in Demands(s) /\ d \notin Demands(r)
    BY <1>1, <2>1, <2>2, <2>3 DEF Demands, Needs
  <2> QED
    BY <2>4
<1> QED
  BY <1>4, <1>6, <1>7

(* What a step requires it keeps, and what it adds is demanded.            *)
LEMMA DemandedGrows ==
  ASSUME NEW F, NEW R \in [F -> Requirement], NEW S \in [F -> Requirement],
         \A f \in F : Covers(S[f], R[f])
  PROVE  LET all(Q) == UNION {{<<f, d>> : d \in Demands(Q[f])} : f \in DOMAIN Q}
         IN  all(R) \subseteq all(S) /\ (S # R => all(R) # all(S))
<1> DEFINE all(Q) == UNION {{<<f, d>> : d \in Demands(Q[f])} : f \in DOMAIN Q}
<1>1. \A f \in F : /\ Demands(R[f]) \subseteq Demands(S[f])
                   /\ S[f] # R[f] => \E d \in Demands(S[f]) : d \notin Demands(R[f])
  BY DemandsGrow
<1>2. DOMAIN R = F /\ DOMAIN S = F
  OBVIOUS
<1>3. all(R) \subseteq all(S)
  BY <1>1, <1>2
<1>4. ASSUME S # R PROVE all(R) # all(S)
  <2>1. PICK f \in F : S[f] # R[f]
    BY <1>4
  <2>2. PICK d \in Demands(S[f]) : d \notin Demands(R[f])
    BY <1>1, <2>1
  <2>3. <<f, d>> \in all(S)
    BY <1>2, <2>2
  <2>4. <<f, d>> \notin all(R)
    BY <1>2, <2>2
  <2> QED
    BY <2>3, <2>4
<1> QED
  BY <1>3, <1>4

(* What is required only grows, and `changed` is set only when it has.     *)
LEMMA StepGrows ==
  ASSUME ResolveInv, [ResolveNext]_rvars
  PROVE  /\ required' \in [Formals -> Requirement]
         /\ \A f \in Formals : Covers(required'[f], required[f])
         /\ changed' /\ ~changed => required' # required
<1>1. required \in [Formals -> Requirement]
  BY DEF ResolveInv, TypeInv
<1>2. ASSUME required' = required, changed' => changed
      PROVE  /\ required' \in [Formals -> Requirement]
             /\ \A f \in Formals : Covers(required'[f], required[f])
             /\ changed' /\ ~changed => required' # required
  BY <1>1, <1>2, CoversItself
<1>3. CASE Judge
  <2>1. /\ phase = "resolve" /\ at <= Len(actuals)
    BY <1>3 DEF Judge
  <2>2. PICK a \in Actual : a = actuals[at]
    BY <2>1, Judged
  <2>3. PICK r \in Requirement : r = required[a.of]
    BY <2>1, <2>2, Judged
  <2>4. \/ required' = required /\ changed' = changed
        \/ /\ Source(a, r) # NoFormal
           /\ required' = [required EXCEPT ![Source(a, r)] = Join(@, Inherited(a, r))]
           /\ changed' = (changed \/ required' # required)
    BY <1>3, <2>2, <2>3 DEF Judge
  <2>5. CASE /\ Source(a, r) # NoFormal
             /\ required' = [required EXCEPT ![Source(a, r)] = Join(@, Inherited(a, r))]
             /\ changed' = (changed \/ required' # required)
    <3> DEFINE src == Source(a, r)
               more == Inherited(a, r)
    <3>1. src \in Formals /\ more \in Requirement /\ required[src] \in Requirement
      BY <1>1, <2>5, InheritedType
    <3>2. Join(required[src], more) \in Requirement /\ Covers(Join(required[src], more), required[src])
      BY <3>1, JoinType, JoinCovers
    <3> HIDE DEF src, more
    <3>3. /\ required' \in [Formals -> Requirement]
          /\ required'[src] = Join(required[src], more)
          /\ \A f \in Formals : f # src => required'[f] = required[f]
      BY <1>1, <2>5, <3>1, <3>2 DEF src, more
    <3>4. ASSUME NEW f \in Formals PROVE Covers(required'[f], required[f])
      <4>1. CASE f = src
        BY <3>2, <3>3, <4>1
      <4>2. CASE f # src
        BY <1>1, <3>3, <4>2, CoversItself
      <4> QED
        BY <4>1, <4>2
    <3>5. changed' /\ ~changed => required' # required
      BY <2>5
    <3> QED
      BY <3>3, <3>4, <3>5
  <2> QED
    BY <1>2, <2>4, <2>5
<1>4. CASE NextPass
  BY <1>2, <1>4 DEF NextPass
<1>5. CASE Resolved
  BY <1>2, <1>5 DEF Resolved, resolving
<1>6. CASE UNCHANGED rvars
  BY <1>2, <1>6 DEF rvars, resolving
<1> QED
  BY <1>3, <1>4, <1>5, <1>6 DEF ResolveNext

(* The passes come to an end: each adds to what is demanded, or is the     *)
(* last (the loop of resolveRequirements has no bound of its own).         *)
THEOREM PassesComeToAnEnd == ResolveSpec => PassesEnd
<1>1. ASSUME ResolveInv, [ResolveNext]_rvars
      PROVE  /\ Demanded \subseteq Demanded'
             /\ changed' /\ ~changed => Demanded # Demanded'
  <2>1. /\ required' \in [Formals -> Requirement]
        /\ \A f \in Formals : Covers(required'[f], required[f])
        /\ changed' /\ ~changed => required' # required
    BY <1>1, StepGrows
  <2>2. required \in [Formals -> Requirement]
    BY <1>1 DEF ResolveInv, TypeInv
  <2>3. PICK S \in [Formals -> Requirement] : S = required'
    BY <2>1
  <2>4. \A f \in Formals : Covers(S[f], required[f])
    BY <2>1, <2>3
  <2>5. Demanded' = UNION {{<<f, d>> : d \in Demands(S[f])} : f \in DOMAIN S}
    BY <2>3 DEF Demanded, Demands
  <2>6. /\ Demanded \subseteq UNION {{<<f, d>> : d \in Demands(S[f])} : f \in DOMAIN S}
        /\ S # required =>
             Demanded # UNION {{<<f, d>> : d \in Demands(S[f])} : f \in DOMAIN S}
    BY <2>2, <2>4, DemandedGrows DEF Demanded
  <2> QED
    BY <2>1, <2>3, <2>5, <2>6
<1>2. ResolveInv /\ [ResolveNext]_rvars =>
        [phase = "resolve" =>
           /\ Demanded \subseteq Demanded'
           /\ changed' /\ ~changed => Demanded # Demanded']_rvars
  BY <1>1
<1> QED
  BY <1>2, Invariant, PTL DEF ResolveSpec, PassesEnd
=============================================================================
