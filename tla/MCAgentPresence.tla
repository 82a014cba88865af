-------------------------- MODULE MCAgentPresence --------------------------
(***************************************************************************)
(* AgentPresence for TLC: two request threads and one agent; the clock     *)
(* runs long enough for a cached set to become older than Stale.           *)
(***************************************************************************)
EXTENDS AgentPresence, TLC

CONSTANTS t1, t2, ahenk1

MCThread == {t1, t2}
MCAgent  == {ahenk1}
Symmetry == Permutations(MCThread)
=============================================================================
