------------------------ MODULE RegistrationVerdict ------------------------
(***************************************************************************)
(* The verdict the registration orchestrator computes from one snapshot of *)
(* the runtime surfaces (platform_runtime/registration.py).                *)
(*                                                                         *)
(* A surface is read as a sorted list without duplicates of normalised     *)
(* agent ids; two such lists are equal exactly when their sets are, and    *)
(* their length is the cardinality, so a surface is modelled as a set.     *)
(* The `details' texts of a taxonomy entry repeat failedChecks (or the     *)
(* exception text) and are left out.                                       *)
(***************************************************************************)
EXTENDS Integers, FiniteSets, Sequences

CONSTANTS
  Agent,      \* agent ids any surface may list
  Expected    \* AHENK_COUNT, fixed for the life of a collector

ASSUME ExpectedAssumption == Expected \in Nat
ASSUME AgentAssumption    == IsFiniteSet(Agent)

(***************************************************************************)
(* A dashboard number that the reply did not carry is Python's None: it is *)
(* equal to no count.                                                      *)
(***************************************************************************)
NoCount == -1
Count   == Nat \cup {NoCount}

(***************************************************************************)
(* What one pass over the surfaces returns.                                *)
(***************************************************************************)
Reading ==
  [ldap : SUBSET Agent, registered : SUBSET Agent, connected : SUBSET Agent,
   cAgent : SUBSET Agent, domain : SUBSET Agent, tree : SUBSET Agent,
   total : Count, online : Count]

(***************************************************************************)
(* The snapshot the orchestrator substitutes when collecting raised.       *)
(***************************************************************************)
EmptyReading ==
  [ldap |-> {}, registered |-> {}, connected |-> {}, cAgent |-> {},
   domain |-> {}, tree |-> {}, total |-> NoCount, online |-> NoCount]

\* Mutant: the number of sessions is not compared with AHENK_COUNT.
Checks_SessionsNotCounted(r) ==
  [ldap_matches_expected            |-> Cardinality(r.ldap) = Expected,
   xmpp_registered_matches_expected |-> Cardinality(r.registered) = Expected,
   xmpp_connected_matches_expected  |-> TRUE,
   c_agent_matches_expected         |-> Cardinality(r.cAgent) = Expected,
   domain_agent_list_matches_expected |-> Cardinality(r.domain) = Expected,
   computer_tree_matches_expected   |-> Cardinality(r.tree) = Expected,
   dashboard_total_matches_expected |-> r.total = Expected,
   dashboard_online_matches_xmpp_connected |->
      r.online = Cardinality(r.connected),
   ldap_matches_xmpp_registered     |-> r.ldap = r.registered,
   ldap_matches_c_agent             |-> r.ldap = r.cAgent,
   c_agent_matches_domain_agent_list |-> r.cAgent = r.domain,
   c_agent_matches_computer_tree    |-> r.cAgent = r.tree]

\* Mutant: a dashboard number that is missing is skipped.
Checks_DashboardOptional(r) ==
  [ldap_matches_expected            |-> Cardinality(r.ldap) = Expected,
   xmpp_registered_matches_expected |-> Cardinality(r.registered) = Expected,
   xmpp_connected_matches_expected  |-> Cardinality(r.connected) = Expected,
   c_agent_matches_expected         |-> Cardinality(r.cAgent) = Expected,
   domain_agent_list_matches_expected |-> Cardinality(r.domain) = Expected,
   computer_tree_matches_expected   |-> Cardinality(r.tree) = Expected,
   dashboard_total_matches_expected |-> r.total \in {Expected, NoCount},
   dashboard_online_matches_xmpp_connected |->
      r.online \in {Cardinality(r.connected), NoCount},
   ldap_matches_xmpp_registered     |-> r.ldap = r.registered,
   ldap_matches_c_agent             |-> r.ldap = r.cAgent,
   c_agent_matches_domain_agent_list |-> r.cAgent = r.domain,
   c_agent_matches_computer_tree    |-> r.cAgent = r.tree]

Checks(r) ==
  [ldap_matches_expected            |-> Cardinality(r.ldap) = Expected,
   xmpp_registered_matches_expected |-> Cardinality(r.registered) = Expected,
   xmpp_connected_matches_expected  |-> Cardinality(r.connected) = Expected,
   c_agent_matches_expected         |-> Cardinality(r.cAgent) = Expected,
   domain_agent_list_matches_expected |-> Cardinality(r.domain) = Expected,
   computer_tree_matches_expected   |-> Cardinality(r.tree) = Expected,
   dashboard_total_matches_expected |-> r.total = Expected,
   dashboard_online_matches_xmpp_connected |->
      r.online = Cardinality(r.connected),
   ldap_matches_xmpp_registered     |-> r.ldap = r.registered,
   ldap_matches_c_agent             |-> r.ldap = r.cAgent,
   c_agent_matches_domain_agent_list |-> r.cAgent = r.domain,
   c_agent_matches_computer_tree    |-> r.cAgent = r.tree]

CheckName == DOMAIN Checks(EmptyReading)

FailedChecks(r) == {c \in CheckName : ~ Checks(r)[c]}

Code == {"adapter_error", "registration_timeout",
         "registration_projection_mismatch"}

Taxonomy(r, timedOut, errored) ==
  (IF errored THEN {"adapter_error"} ELSE {})
  \cup
  (IF FailedChecks(r) = {} THEN {}
   ELSE IF timedOut THEN {"registration_timeout"}
   ELSE {"registration_projection_mismatch"})

Status(r, timedOut, errored) ==
  IF Taxonomy(r, timedOut, errored) = {} /\ FailedChecks(r) = {}
  THEN "pass" ELSE "fail"

(***************************************************************************)
(* Per-agent registration states, in the order evaluate_snapshot lists     *)
(* them: highestState is the last one reached, not the last of an unbroken *)
(* prefix.                                                                 *)
(***************************************************************************)
StateOrder ==
  <<"ldap_entry_ready", "xmpp_identity_ready", "register_sent",
    "register_accepted", "c_agent_ready", "domain_ready">>

AgentState == {StateOrder[i] : i \in DOMAIN StateOrder}

AllIds(r) ==
  UNION {r.ldap, r.registered, r.connected, r.cAgent, r.domain, r.tree}

DomainReady(r, a) ==
  /\ a \in r.ldap   /\ a \in r.registered /\ a \in r.connected
  /\ a \in r.cAgent /\ a \in r.domain     /\ a \in r.tree

Reached(r, a) ==
  {s \in AgentState :
     \/ s = "ldap_entry_ready"    /\ a \in r.ldap
     \/ s = "xmpp_identity_ready" /\ a \in r.registered
     \/ s = "register_sent"       /\ a \in r.connected
     \/ s = "register_accepted"   /\ a \in r.domain
     \/ s = "c_agent_ready"       /\ a \in r.cAgent
     \/ s = "domain_ready"        /\ DomainReady(r, a)}

HighestState(reached) ==
  IF reached = {} THEN "missing"
  ELSE LET last == CHOOSE i \in DOMAIN StateOrder :
                     /\ StateOrder[i] \in reached
                     /\ \A j \in DOMAIN StateOrder :
                          StateOrder[j] \in reached => j <= i
       IN  StateOrder[last]

PerAgent(r) ==
  [a \in AllIds(r) |->
     [states |-> Reached(r, a), highestState |-> HighestState(Reached(r, a))]]

=============================================================================
