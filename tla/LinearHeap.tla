----------------------------- MODULE LinearHeap -----------------------------
(***************************************************************************)
(* What TOP's ownership discipline promises of the heap of one function    *)
(* activation: "every owned resource has exactly one owner and is freed    *)
(* exactly once" (src/docs/TOP-tutorial.md). A live cell has one holder; a *)
(* step releases cells that are held and gives at most one cell, fresh or  *)
(* held, to a new holder; when the function ends only its caller holds     *)
(* anything, one result at most.                                           *)
(***************************************************************************)
CONSTANTS
  Cell,     \* heap allocations
  Caller    \* the holder that survives the function

VARIABLES
  live,       \* the cells allocated and not yet freed
  holders,    \* who holds each cell
  finished    \* has the function returned?

hvars == <<live, holders, finished>>

HeldByOne(c) == \E h \in holders[c] : holders[c] = {h}

(* Live cells are held by one, the others by nobody.                       *)
Linear == \A c \in Cell : IF c \in live THEN HeldByOne(c) ELSE holders[c] = {}

Init == live \subseteq Cell /\ Linear /\ finished = FALSE

(* The cells a step gives to another holder.                               *)
Given == {c \in Cell : c \in live' /\ holders'[c] # holders[c]}

Work ==
  /\ ~finished
  /\ live' \subseteq Cell
  /\ Linear'
  /\ \A c, d \in Given : c = d
  /\ finished' = FALSE

Finish ==
  /\ ~finished
  /\ live' \subseteq live
  /\ \A c \in Cell : holders'[c] = IF c \in live' THEN {Caller} ELSE {}
  /\ \A c, d \in live' : c = d
  /\ finished' = TRUE

Next == Work \/ Finish

Spec == Init /\ [][Next]_hvars
=============================================================================
