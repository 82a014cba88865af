------------------------------ MODULE MCStandUp ------------------------------
(***************************************************************************)
(* StandUp for TLC: one service of each kind and at least one per phase.   *)
(***************************************************************************)
EXTENDS StandUp

MCServices == {"ldap", "ldap-init", "lider-core", "liderapi", "provisioner",
               "registration-orchestrator"}
=============================================================================
