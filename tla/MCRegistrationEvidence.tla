---------------------- MODULE MCRegistrationEvidence ----------------------
(***************************************************************************)
(* RegistrationEvidence for TLC: one expected agent, and three readings a  *)
(* collection may return: the agent everywhere, the agent without its      *)
(* c_agent row, and a reading in which another identity is connected.      *)
(***************************************************************************)
EXTENDS RegistrationEvidence

CONSTANTS ahenk1, ahenk2

MCAgent == {ahenk1, ahenk2}

Ready ==
  [ldap |-> {ahenk1}, registered |-> {ahenk1}, connected |-> {ahenk1},
   cAgent |-> {ahenk1}, domain |-> {ahenk1}, tree |-> {ahenk1},
   total |-> 1, online |-> 1]

NoRow == [Ready EXCEPT !.cAgent = {}, !.domain = {}]

OtherSession == [Ready EXCEPT !.connected = {ahenk2}]

MCReadings == {Ready, NoRow, OtherSession}
=============================================================================
