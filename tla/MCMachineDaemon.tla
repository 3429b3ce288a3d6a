--------------------------- MODULE MCMachineDaemon ---------------------------
(* A daemon m1 and another node m2; an administrator everyone trusts and a     *)
(* guest without a role.                                                     *)
EXTENDS MachineDaemon, TLC

CONSTANTS admin, guest

MCRoleOf == admin :> 3 @@ guest :> 0
MCTrusted == [list \in {"exec", "trigger", "access", "govern", "nodeOps"} |-> {admin}]
Symmetry == Permutations(Pids)
=============================================================================
