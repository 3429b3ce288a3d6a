---------------------------- MODULE MCCellSpaces ----------------------------
(***************************************************************************)
(* Positions for the model checking of CellSpaces: two that are in range of  *)
(* each other and one that is in range of neither.                          *)
(***************************************************************************)
EXTENDS CellSpaces

ThreePoints == {<<0, 0>>, <<1, 0>>, <<3, 0>>}
=============================================================================
