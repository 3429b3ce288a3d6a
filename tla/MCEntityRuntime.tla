-------------------------- MODULE MCEntityRuntime ---------------------------
(***************************************************************************)
(* Values and symmetry for the model checking of EntityRuntime.  The        *)
(* CellApps are interchangeable.                                            *)
(***************************************************************************)
EXTENDS EntityRuntime, TLC

CellSymmetry == Permutations(Cells)
=============================================================================
