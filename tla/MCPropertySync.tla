--------------------------- MODULE MCPropertySync ---------------------------
(***************************************************************************)
(* Model checking of PropertySync.                                           *)
(***************************************************************************)
EXTENDS PropertySync, TLC

CellSymmetry == Permutations(Cells)
=============================================================================
