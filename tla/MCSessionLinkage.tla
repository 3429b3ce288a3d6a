-------------------------- MODULE MCSessionLinkage --------------------------
(***************************************************************************)
(* Selectors for the model checking of SessionLinkage: all sessions, those in *)
(* one realm.                                                               *)
(***************************************************************************)
EXTENDS SessionLinkage

CONSTANT r

AllOrRealm == {[by |-> "all"], [by |-> "realm", value |-> r]}
=============================================================================
