--------------------------- MODULE MCPersistence ---------------------------
(* Small instances of Persistence for TLC; Storage.cfg gives the bounds.     *)
EXTENDS Persistence
=============================================================================
