------------------------------- MODULE Pipeline -------------------------------
(***************************************************************************)
(* What the stages of the semantic analysis share (SemanticAnalysis): the  *)
(* program, the stage that is next, and the rule that rejected the program *)
(* (RuleToggles::reject, or an exception), after which nothing follows.    *)
(***************************************************************************)
EXTENDS Sequences, SequencesExt

VARIABLES
  prog,   \* the program: its functions, by name, and their order
  phase,  \* what the compiler does next
  reason  \* the rule that rejected the program

Names == ToSet(prog.order)
Fn(f) == prog.functions[f]
Reject(rule) == phase' = "rejected" /\ reason' = rule
=============================================================================
