-------------------------- MODULE MCMatchOwnership --------------------------
(* Instances of MatchOwnership for TLC: arms that bind, discard or take    *)
(* apart payloads, of both variants of the payload.                        *)
EXTENDS MatchOwnership, TLC

CONSTANTS x, y

LeafArm == <<>> :> "Leaf"
Node(l, r) == (<<>> :> "Node") @@ (<<1>> :> l) @@ (<<2>> :> r)
Nested(l, r, s) == Node("Node", s) @@ (<<1, 1>> :> l) @@ (<<1, 2>> :> r)

MCArm == {LeafArm, Node(x, y), Node(x, x), Node("Leaf", y), Nested(x, Wild, y)}

(* A case of three arms; cases in the arms of cases; and the same of a     *)
(* function that borrows a tree.                                           *)
Flat == [boxes |-> 5, borrows |-> FALSE, arms |-> <<3>>, patterns |-> MCArm \ {Node(x, x)}]
Deep == [boxes |-> 3, borrows |-> FALSE, arms |-> <<2, 2>>, patterns |-> {LeafArm, Node(x, y)}]
FlatLent == [Flat EXCEPT !.borrows = TRUE]
DeepLent == [Deep EXCEPT !.boxes = 5, !.borrows = TRUE]
MCBounds == {Flat, Deep, FlatLent, DeepLent}

(* One case of two arms.                                                   *)
MCSmall == {[boxes |-> 5, borrows |-> FALSE, arms |-> <<2>>, patterns |-> MCArm]}
=============================================================================
