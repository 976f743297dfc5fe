--------------------------- MODULE MCMoveAnalysis ---------------------------
(* Instances of MoveAnalysis for TLC. Cells are interchangeable; variables *)
(* are too when none is a formal.                                          *)
EXTENDS MoveAnalysis, TLC

CellSymmetry == Permutations(Cell)
CellAndVarSymmetry == Permutations(Cell) \cup Permutations(Var)
=============================================================================
