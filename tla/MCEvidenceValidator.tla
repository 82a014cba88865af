------------------------ MODULE MCEvidenceValidator ------------------------
(***************************************************************************)
(* EvidenceValidator for TLC: a collection either finds the one expected   *)
(* agent on every surface or raises.                                       *)
(***************************************************************************)
EXTENDS EvidenceValidator

CONSTANT ahenk1

MCAgent == {ahenk1}

Ready ==
  [ldap |-> {ahenk1}, registered |-> {ahenk1}, connected |-> {ahenk1},
   cAgent |-> {ahenk1}, domain |-> {ahenk1}, tree |-> {ahenk1},
   total |-> 1, online |-> 1]

MCReadings == {Ready}
=============================================================================
