--------------------------- MODULE MCProvisioner ---------------------------
(***************************************************************************)
(* Provisioner for TLC: topologies that grow and shrink the number of      *)
(* agents and of groups, with more groups than members and with none, and  *)
(* two legacy groups, one of which has the name of a seeded group.         *)
(***************************************************************************)
EXTENDS Provisioner

Topology(agents, endpointGroups, operators, directoryUsers, userGroups) ==
  [agents |-> agents, endpointGroups |-> endpointGroups, operators |-> operators,
   directoryUsers |-> directoryUsers, userGroups |-> userGroups]

MCTopologies ==
  {Topology(2, 1, 1, 0, 1), Topology(3, 2, 2, 2, 2), Topology(1, 2, 0, 1, 0),
   Topology(0, 0, 0, 0, 0)}

SeededName == <<"eg", 1>>
OwnName    == <<"custom", 1>>

MCLegacyGroups == [name \in {SeededName, OwnName} |-> {3}]
=============================================================================
