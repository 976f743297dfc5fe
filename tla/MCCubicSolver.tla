--------------------------- MODULE MCCubicSolver ---------------------------
EXTENDS CubicSolver
MCVar == 1..3
MCInput == {c \in [type : {"element"}, elem : {1}, var : MCVar]
             \cup [type : {"subset"}, from : MCVar, to : MCVar]
             \cup [type : {"conditional"}, elem : {1}, in : MCVar, from : MCVar, to : MCVar] :
             c.type = "element" \/ c.from # c.to}

(* 4 is within 2 and within 3, whose elements 1 has too; 3 and 1 are put   *)
(* on a cycle when an element arrives in 2.                                *)
MCFour == 1..4
MCBehind == {[type |-> "element", elem |-> 1, var |-> 4],
             [type |-> "subset", from |-> 4, to |-> 2],
             [type |-> "subset", from |-> 4, to |-> 3],
             [type |-> "subset", from |-> 1, to |-> 3],
             [type |-> "conditional", elem |-> 1, in |-> 2, from |-> 3, to |-> 1]}
MCBoth == MCInput \cup MCBehind
=============================================================================
