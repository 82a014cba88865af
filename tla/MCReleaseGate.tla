---------------------------- MODULE MCReleaseGate ----------------------------
(***************************************************************************)
(* ReleaseGate for TLC: two captures of three files, one of each kind that *)
(* validation treats differently; the default packs of a release, a pack   *)
(* no file defines beside one that is, and none.                           *)
(***************************************************************************)
EXTENDS ReleaseGate, TLC

MCTracked == <<"ldap-tree.json", "config.json", "ui-evidence/dashboard.png">>
MCPictures == {"ui-evidence/dashboard.png"}
MCSymmetry == Permutations(Captures)
MCPackChoices == {{SessionPack, RoundtripPack}, {SessionPack, "other"}, {}}
=============================================================================
