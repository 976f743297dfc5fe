----------------------------- MODULE Requirements -----------------------------
(***************************************************************************)
(* What generic functions require of their formals, taken to the calls     *)
(* (FunctionEffectSummaries::resolveRequirements). A body that uses a      *)
(* formal again, lets it fall, or takes what is behind it is sound only if *)
(* the actual, or what the actual refers to, does not own. Each actual of  *)
(* each call is judged by its type; where its type is open too, the formal *)
(* of the caller that it stands for inherits what is required, and the     *)
(* calls are gone over again. The judgement of one actual is an action.    *)
(***************************************************************************)
EXTENDS Pipeline, Naturals

VARIABLES
  asked,     \* history: per formal, what the function's own body requires
  required,  \* per formal, what is required of it
  actuals,   \* the actuals of the calls, for each function that may be called
  at,        \* the one that is judged next
  changed    \* this pass over the calls has changed a requirement

resolving == <<asked, required, actuals, at, changed>>
rvars == <<prog, phase, reason, resolving>>

(* CopyRequirement, and RequirementReason. A formal is a function and an   *)
(* index.                                                                  *)
Needs == {"none", "self", "referent", "both"}
Reasons == {"reused", "dropped", "moves-out", "overwrites", "lends"}
Requirement == [needs : Needs, why : SUBSET Reasons]
Formals == DOMAIN asked
NoFormal == <<"", 0>>

(* What judgeOne says of a type.                                           *)
Verdicts == {"satisfied", "undetermined", "violated"}

(* An actual: the formal it is for, the verdicts on its type and on what   *)
(* its type refers to, and the formals of the caller that it stands for    *)
(* and, if it is a borrow &x, that x is.                                   *)
Actual ==
  {a \in [of : Formals, self : Verdicts, referent : Verdicts, lends : BOOLEAN,
          from : Formals \cup {NoFormal}, lent : Formals \cup {NoFormal}] :
     a.lends => a.self = "satisfied"}   \* a borrow does not own

-----------------------------------------------------------------------------
(* Mutation: the later requirement replaces the earlier.                   *)
JoinNeedsLast(a, b) == IF b = "none" THEN a ELSE b

(* joinRequirement.                                                        *)
JoinNeeds(a, b) ==
  IF a = "none" THEN b ELSE IF b = "none" \/ a = b THEN a ELSE "both"

Join(r, s) == [needs |-> JoinNeeds(r.needs, s.needs), why |-> r.why \cup s.why]

(* judge: of two verdicts the worse.                                       *)
Verdict(a, needs) ==
  LET all == (IF needs # "referent" THEN {a.self} ELSE {})
               \cup (IF needs # "self" THEN {a.referent} ELSE {})
  IN  IF "violated" \in all THEN "violated"
      ELSE IF "undetermined" \in all THEN "undetermined" ELSE "satisfied"

ViolatedRule(a, why) ==
  IF a.self = "violated" /\ "dropped" \in why /\ "reused" \notin why
  THEN "generic-drop" ELSE "generic-copy-bound"

(* Of an &x whose referent is asked about, x itself must not own.          *)
Lends(a, r) == a.lends /\ r.needs # "self"
Source(a, r) == IF Lends(a, r) THEN a.lent ELSE a.from
Inherited(a, r) ==
  IF Lends(a, r) THEN [needs |-> "self", why |-> r.why \cup {"lends"}] ELSE r

(* One actual.                                                             *)
Judge ==
  /\ phase = "resolve"
  /\ at <= Len(actuals)
  /\ at' = at + 1
  /\ LET a == actuals[at]
         r == required[a.of]
         verdict == Verdict(a, r.needs)
     IN  \/ /\ r.needs = "none" \/ verdict = "satisfied"
            /\ UNCHANGED <<phase, reason, required, changed>>
         \/ /\ r.needs # "none" /\ verdict = "violated"
            /\ Reject(ViolatedRule(a, r.why))
            /\ UNCHANGED <<required, changed>>
         \/ /\ r.needs # "none" /\ verdict = "undetermined"
            /\ Source(a, r) = NoFormal
            /\ Reject("generic-untracked-actual")
            /\ UNCHANGED <<required, changed>>
         \/ /\ r.needs # "none" /\ verdict = "undetermined"
            /\ Source(a, r) # NoFormal
            /\ required' = [required EXCEPT ![Source(a, r)] = Join(@, Inherited(a, r))]
            /\ changed' = (changed \/ required' # required)
            /\ UNCHANGED <<phase, reason>>
  /\ UNCHANGED <<prog, asked, actuals>>

PassOver == phase = "resolve" /\ at > Len(actuals)

(* Mutant: the loop ends after one pass.                                   *)
ResolvedOnce == PassOver /\ phase' = "effects" /\ UNCHANGED <<prog, reason, resolving>>

NextPass ==
  /\ PassOver
  /\ changed
  /\ at' = 1
  /\ changed' = FALSE
  /\ UNCHANGED <<prog, phase, reason, asked, required, actuals>>

Resolved ==
  /\ PassOver
  /\ ~changed
  /\ phase' = "effects"
  /\ UNCHANGED <<prog, reason, resolving>>

ResolveNext == Judge \/ NextPass \/ Resolved

-----------------------------------------------------------------------------
(* The loop on its own, over any calls and whatever their bodies ask.      *)
ResolveInit ==
  /\ phase = "resolve"
  /\ reason = "none"
  /\ NoFormal \notin Formals
  /\ asked \in [Formals -> Requirement]
  /\ required = asked
  /\ actuals \in Seq(Actual)
  /\ at = 1
  /\ changed = FALSE

ResolveSpec == ResolveInit /\ [][ResolveNext]_rvars

-----------------------------------------------------------------------------
(* Properties.                                                             *)

(* What a call answers for: nothing is required of an actual, or its type  *)
(* settles it, or what it stands for in the caller has to as much.         *)
Covers(r, s) == Join(r, s) = r

Met(R, a) ==
  LET r == R[a.of]
  IN  \/ r.needs = "none"
      \/ Verdict(a, r.needs) = "satisfied"
      \/ /\ Verdict(a, r.needs) = "undetermined"
         /\ Source(a, r) # NoFormal
         /\ Covers(R[Source(a, r)], Inherited(a, r))

(* After the last pass every actual of every call answers for what is      *)
(* required of it, recursive functions and calls between them included:    *)
(* what one call asked late was not missed by one that was judged early.   *)
RequirementsMet ==
  phase = "effects" => \A i \in DOMAIN actuals : Met(required, actuals[i])

(* Nothing is ever taken back, and a further pass is made only if this one *)
(* has added to what is required, of which there is only so much: the      *)
(* passes come to an end, recursive functions included.                    *)
Demands(r) ==
  r.why \cup (IF r.needs = "both" THEN {"self", "referent"} ELSE {r.needs} \ {"none"})
Demanded == UNION {{<<f, d>> : d \in Demands(required[f])} : f \in DOMAIN required}

PassesEnd ==
  [][phase = "resolve" =>
       /\ Demanded \subseteq Demanded'
       /\ changed' /\ ~changed => Demanded # Demanded']_rvars

(* Whether a program is rejected does not depend on the order in which the *)
(* calls and what they may call are gone over: no more is required than    *)
(* every way to answer for all calls requires, and a rejection means that  *)
(* there is none.                                                          *)
Answers(R) ==
  /\ \A f \in Formals : Covers(R[f], asked[f])
  /\ \A i \in DOMAIN actuals : Met(R, actuals[i])

NeverTooMuch ==
  \A R \in [Formals -> Requirement] :
    Answers(R) => \A f \in Formals : Covers(R[f], required[f])

RejectionsAreReal ==
  phase = "rejected" => ~\E R \in [Formals -> Requirement] : Answers(R)
=============================================================================
