--------------------------- MODULE MCTermUnifier ---------------------------
(* Five terms for TLC: two type variables, a constant and two terms of the *)
(* same functor. f(v, w) = f(w, int) decomposes into v = w and w = int;    *)
(* v = f(v, w) is cyclic; int and f clash.                                 *)
EXTENDS TermUnifier

MCVariable == {"v", "w"}
MCTerm == MCVariable \cup {"int", "f(v,w)", "f(w,int)"}
MCFunctor == [t \in MCTerm |->
  CASE t = "int"  -> "int"
    [] t \in {"f(v,w)", "f(w,int)"} -> "f"
    [] OTHER -> t]
MCSubterms == [t \in MCTerm |->
  CASE t = "f(v,w)"   -> <<"v", "w">>
    [] t = "f(w,int)" -> <<"w", "int">>
    [] OTHER          -> <<>>]

(* An equation has a variable on one side, or decomposes.                  *)
MCInput == {e \in MCTerm \X MCTerm : e[1] # e[2] /\ {e[1], e[2]} \cap MCVariable # {}}
             \cup {<<"f(v,w)", "f(w,int)">>}
=============================================================================
