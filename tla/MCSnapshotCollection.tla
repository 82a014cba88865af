----------------------- MODULE MCSnapshotCollection -----------------------
(***************************************************************************)
(* SnapshotCollection for TLC: one agent is expected and a second one may  *)
(* turn up, so that every surface can list too few, the right, the wrong   *)
(* and too many agents.                                                    *)
(***************************************************************************)
EXTENDS SnapshotCollection

CONSTANTS ahenk1, ahenk2

MCAgent == {ahenk1, ahenk2}
=============================================================================
