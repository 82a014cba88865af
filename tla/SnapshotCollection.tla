------------------------- MODULE SnapshotCollection -------------------------
(***************************************************************************)
(* RegistrationCollector.collect_snapshot reads the runtime surfaces one   *)
(* after another while agents are being provisioned, connect, register and *)
(* drop out.  The surfaces are projections of four facts kept elsewhere:   *)
(* the LDAP device entries, the ejabberd accounts, the ejabberd sessions   *)
(* and the c_agent rows.  This module interleaves the collector's reads    *)
(* with the changes of those facts and evaluates the finished reading.     *)
(***************************************************************************)
EXTENDS RegistrationVerdict

CONSTANTS
  PageSize    \* page size get_agent_list asks for (100)

ASSUME PageSizeAssumption == PageSize \in Nat \ {0}

VARIABLES
  ldap,        \* device entries under ou=Ahenkler
  registered,  \* ejabberd accounts, the server's own account excluded
  connected,   \* ejabberd sessions
  cAgent,      \* c_agent rows
  presence,    \* the presence liderapi has cached for its dashboard
  reading,     \* what the running collection has read so far
  step,        \* the next read, or "idle" / "done"
  listed,      \* entries whose presence the dashboard request has still to ask
  seen,        \* entries that request has counted as online
  errored,     \* the collection raised
  swallowed,   \* history: an adapter hid a failed call in this collection
  lost         \* history: a session ended since this collection began

world == <<ldap, registered, connected, cAgent, presence>>
counting == <<listed, seen>>
vars  == <<world, reading, step, counting, errored, swallowed, lost>>

Steps == {"idle", "total", "list", "online", "domain", "tree", "ldap",
          "registered", "connected", "cAgent", "config", "done"}

TypeOK ==
  /\ ldap \in SUBSET Agent   /\ registered \in SUBSET Agent
  /\ connected \in SUBSET Agent /\ cAgent \in SUBSET Agent
  /\ presence \in SUBSET Agent
  /\ reading \in Reading
  /\ step \in Steps
  /\ listed \in SUBSET Agent /\ seen \in SUBSET Agent
  /\ errored \in BOOLEAN /\ swallowed \in BOOLEAN /\ lost \in BOOLEAN

Init ==
  /\ ldap = {} /\ registered = {} /\ connected = {} /\ cAgent = {}
  /\ presence = {}
  /\ reading = EmptyReading
  /\ step = "idle"
  /\ listed = {} /\ seen = {}
  /\ errored = FALSE /\ swallowed = FALSE /\ lost = FALSE

-----------------------------------------------------------------------------
(***************************************************************************)
(* The platform.  Nothing in the repository removes an account, a device   *)
(* entry or a c_agent row while the orchestrator runs: only sessions end.  *)
(***************************************************************************)
collector == <<reading, step, counting, errored, swallowed>>

\* register_xmpp_idempotent: the provisioner creates the account first ...
ProvisionXmpp(a) ==
  /\ a \notin registered
  /\ registered' = registered \cup {a}
  /\ UNCHANGED <<ldap, connected, cAgent, presence, collector, lost>>

\* ... and the device entry after it.
ProvisionLdap(a) ==
  /\ a \in registered \ ldap
  /\ ldap' = ldap \cup {a}
  /\ UNCHANGED <<registered, connected, cAgent, presence, collector, lost>>

Connect(a) ==
  /\ a \in registered \ connected
  /\ connected' = connected \cup {a}
  /\ UNCHANGED <<ldap, registered, cAgent, presence, collector, lost>>

Disconnect(a) ==
  /\ a \in connected
  /\ connected' = connected \ {a}
  /\ lost' = TRUE
  /\ UNCHANGED <<ldap, registered, cAgent, presence, collector>>

\* liderapi answers the agent's REGISTER message and stores its c_agent row.
RegisterAccepted(a) ==
  /\ a \in connected \ cAgent
  /\ cAgent' = cAgent \cup {a}
  /\ UNCHANGED <<ldap, registered, connected, presence, collector, lost>>

\* When liderapi starts it stores a row for every device entry that has none,
\* one after the other.
ReconcileFromLdap(a) ==
  /\ a \in ldap \ cAgent
  /\ cAgent' = cAgent \cup {a}
  /\ UNCHANGED <<ldap, registered, connected, presence, collector, lost>>

\* A request to liderapi that finds its presence cache too old refetches it ...
RefreshPresence ==
  /\ presence # connected
  /\ presence' = connected
  /\ UNCHANGED <<ldap, registered, connected, cAgent, collector, lost>>

\* ... and when that fails for long enough no one counts as online.
PresenceLost ==
  /\ presence # {}
  /\ presence' = {}
  /\ UNCHANGED <<ldap, registered, connected, cAgent, collector, lost>>

-----------------------------------------------------------------------------
(***************************************************************************)
(* The collector.                                                          *)
(***************************************************************************)
Begin ==
  /\ step \in {"idle", "done"}
  /\ step' = "total"
  /\ reading' = EmptyReading
  /\ errored' = FALSE /\ swallowed' = FALSE /\ lost' = FALSE
  /\ UNCHANGED <<world, counting>>

Goto(from, to) == step = from /\ step' = to

(***************************************************************************)
(* The dashboard reply.  liderapi lists the entries once for the total and *)
(* once more for the online count, and asks the presence of each of those. *)
(***************************************************************************)
ReadTotal ==
  /\ Goto("total", "list")
  /\ reading' = [reading EXCEPT !.total = Cardinality(ldap)]
  /\ UNCHANGED <<world, counting, errored, swallowed, lost>>

ListComputers ==
  /\ Goto("list", "online")
  /\ listed' = ldap /\ seen' = {}
  /\ UNCHANGED <<world, reading, errored, swallowed, lost>>

AskPresence(a) ==
  /\ step = "online" /\ a \in listed
  /\ listed' = listed \ {a}
  /\ seen' = IF a \in presence THEN seen \cup {a} ELSE seen
  /\ UNCHANGED <<world, reading, step, errored, swallowed, lost>>

ReadOnline ==
  /\ Goto("online", "domain")
  /\ listed = {}
  /\ reading' = [reading EXCEPT !.online = Cardinality(seen)]
  /\ seen' = {}
  /\ UNCHANGED <<world, listed, errored, swallowed, lost>>

\* Mutant: the page is one row short.
ReadDomain_ShortPage ==
  /\ Goto("domain", "tree")
  /\ \E page \in SUBSET cAgent :
       /\ Cardinality(page) = IF Cardinality(cAgent) < PageSize
                              THEN Cardinality(cAgent) ELSE PageSize - 1
       /\ reading' = [reading EXCEPT !.domain = page]
  /\ UNCHANGED <<world, counting, errored, swallowed, lost>>

\* The first page of the agent list, a projection of c_agent.
ReadDomain ==
  /\ Goto("domain", "tree")
  /\ \E page \in SUBSET cAgent :
       /\ Cardinality(page) = IF Cardinality(cAgent) <= PageSize
                              THEN Cardinality(cAgent) ELSE PageSize
       /\ reading' = [reading EXCEPT !.domain = page]
  /\ UNCHANGED <<world, counting, errored, swallowed, lost>>

ReadTree ==
  /\ Goto("tree", "ldap")
  /\ reading' = [reading EXCEPT !.tree = ldap]
  /\ UNCHANGED <<world, counting, errored, swallowed, lost>>

ReadLdap ==
  /\ Goto("ldap", "registered")
  /\ reading' = [reading EXCEPT !.ldap = ldap]
  /\ UNCHANGED <<world, counting, errored, swallowed, lost>>

\* Mutant: the server's own account is not excluded.
ReadRegistered_WithServer ==
  /\ Goto("registered", "connected")
  /\ reading' = [reading EXCEPT !.registered = registered \cup {"lider_sunucu"}]
  /\ UNCHANGED <<world, counting, errored, swallowed, lost>>

ReadRegistered ==
  /\ Goto("registered", "connected")
  /\ reading' = [reading EXCEPT !.registered = registered]
  /\ UNCHANGED <<world, counting, errored, swallowed, lost>>

ReadConnected ==
  /\ Goto("connected", "cAgent")
  /\ reading' = [reading EXCEPT !.connected = connected]
  /\ UNCHANGED <<world, counting, errored, swallowed, lost>>

ReadCAgent ==
  /\ Goto("cAgent", "config")
  /\ reading' = [reading EXCEPT !.cAgent = cAgent]
  /\ UNCHANGED <<world, counting, errored, swallowed, lost>>

\* The configuration row only feeds a fingerprint.
ReadConfig ==
  /\ Goto("config", "done")
  /\ UNCHANGED <<world, counting, reading, errored, swallowed, lost>>

\* get_dashboard_info and get_agent_list catch every exception: the caller
\* sees None and the empty list.
DashboardSwallows ==
  /\ step \in {"total", "list", "online"}
  /\ step' = "domain"
  /\ listed' = {} /\ seen' = {}
  /\ reading' = [reading EXCEPT !.total = NoCount, !.online = NoCount]
  /\ swallowed' = TRUE
  /\ UNCHANGED <<world, errored, lost>>

AgentListSwallows ==
  /\ Goto("domain", "tree")
  /\ reading' = [reading EXCEPT !.domain = {}]
  /\ swallowed' = TRUE
  /\ UNCHANGED <<world, counting, errored, lost>>

\* Every other adapter raises, and collect_verdict discards the readings.
ReadRaises ==
  /\ step \in {"tree", "ldap", "registered", "connected", "cAgent", "config"}
  /\ step' = "done"
  /\ reading' = EmptyReading
  /\ errored' = TRUE
  /\ UNCHANGED <<world, counting, swallowed, lost>>

-----------------------------------------------------------------------------
Platform ==
  \/ \E a \in Agent : ProvisionXmpp(a) \/ ProvisionLdap(a)
  \/ \E a \in Agent : Connect(a) \/ Disconnect(a)
  \/ \E a \in Agent : RegisterAccepted(a) \/ ReconcileFromLdap(a)
  \/ RefreshPresence \/ PresenceLost

SuccessfulRead ==
  \/ ReadTotal \/ ListComputers \/ (\E a \in Agent : AskPresence(a)) \/ ReadOnline
  \/ ReadDomain \/ ReadTree \/ ReadLdap \/ ReadRegistered
  \/ ReadConnected \/ ReadCAgent \/ ReadConfig

FailedRead == DashboardSwallows \/ AgentListSwallows \/ ReadRaises

Next == Platform \/ Begin \/ SuccessfulRead \/ FailedRead

Spec == Init /\ [][Next]_vars

(***************************************************************************)
(* The collector is called again and again, its reads have time-outs, and  *)
(* its own dashboard request refetches a presence cache that is too old.   *)
(***************************************************************************)
FairSpec ==
  /\ Spec
  /\ WF_vars(Begin) /\ WF_vars(SuccessfulRead) /\ WF_vars(RefreshPresence)

-----------------------------------------------------------------------------
verdictStatus == Status(reading, FALSE, errored)

Passed == step = "done" /\ verdictStatus = "pass"

(***************************************************************************)
(* A pass verdict, computed from reads made at different moments, is       *)
(* nevertheless true of the platform as it now stands: every account has a *)
(* device entry, a session and a c_agent row.  It may rely on no session   *)
(* having ended since the collection began and on no more accounts than    *)
(* expected; without the first, any verdict is stale when it is used.      *)
(* (evaluate_snapshot compares the sessions by number only.)               *)
(***************************************************************************)
PassIsTrueOfThePlatform ==
  (Passed /\ ~ lost /\ Cardinality(registered) <= Expected) =>
    /\ Cardinality(registered) = Expected
    /\ ldap = registered /\ connected = registered /\ cAgent = registered

(***************************************************************************)
(* A collection in which any call failed never yields a pass, also when    *)
(* the adapter hid the failure behind an empty reply.                      *)
(***************************************************************************)
FailureNeverPasses == (errored \/ swallowed) => ~ Passed

(***************************************************************************)
(* Once exactly the expected agents are there on every surface and stay,   *)
(* and calls no longer fail, the collector reports a pass again and again: *)
(* the settle loop can end.                                                *)
(***************************************************************************)
Settled ==
  /\ Cardinality(registered) = Expected
  /\ ldap = registered /\ connected = registered /\ cAgent = registered

CallsSucceed == ~ errored /\ ~ swallowed

SettledIsRecognised ==
  (<>[](Settled /\ CallsSucceed) /\ <>[][~ PresenceLost]_vars) => []<>Passed

(***************************************************************************)
(* failure-taxonomy.yaml, registration_projection_mismatch: the surfaces   *)
(* must agree on identities, not only on counts.  A pass verdict should    *)
(* therefore list the same agents as registered and as connected.          *)
(***************************************************************************)
PassSurfacesAgreeOnIdentity == Passed => reading.connected = reading.registered
=============================================================================
