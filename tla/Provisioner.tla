---------------------------- MODULE Provisioner ----------------------------
(***************************************************************************)
(* The provisioner (services/provisioner/provision.py), a one-shot job     *)
(* that seeds directory users and groups, creates an XMPP account and an   *)
(* LDAP device entry for every agent, moves agent groups out of a legacy   *)
(* root and checks the number of devices.  It may be killed, or raise on   *)
(* any call, between two steps, and is then started again by hand, perhaps *)
(* with another topology, over what it left behind.  ldap-init creates the *)
(* roots it needs and runs beside it: nothing orders the two.              *)
(*                                                                         *)
(* A group entry is its members; passwords, object classes and the other   *)
(* attributes are the same in every run and are left out.                  *)
(***************************************************************************)
EXTENDS Integers, FiniteSets, Sequences

CONSTANTS
  Topologies,    \* the topologies a run may be started with
  LegacyGroups,  \* agent groups an older version left: [name -> members]
  MaxRuns        \* bound: how often the provisioner is started

ASSUME TopologyAssumption ==
  Topologies \subseteq [agents : Nat, endpointGroups : Nat, operators : Nat,
                        directoryUsers : Nat, userGroups : Nat]
ASSUME MaxRunsAssumption == MaxRuns \in Nat

VARIABLES
  roots,     \* how many of Roots ldap-init has created
  users,     \* entries under ou=users
  entries,   \* group entries: dn -> members
  role,      \* agents of the role group's sudoUser, a set of at most one set
  accounts,  \* XMPP accounts of agents
  devices,   \* device entries of agents
  topology,  \* what the current run was started with
  stage,     \* where the run is
  i,         \* index of the loop the stage is in
  children,  \* legacy groups listed and not handled yet
  runs,      \* how often it was started
  largest    \* history: the most agents any run was started for

directory == <<users, entries, role, accounts, devices>>
vars == <<roots, directory, topology, stage, i, children, runs, largest>>

-----------------------------------------------------------------------------
\* In the order ldap-init creates them.
Roots == <<"users", "Groups", "AgentGroups", "Roles", "Ahenkler">>

RootExists(name) == \E k \in 1 .. roots : Roots[k] = name

Operator(k)      == <<"operator", k>>
DirectoryUser(k) == <<"user", k>>
UserGroup(j)     == <<"Groups", <<"ug", j>>>>
EndpointGroup(j) == <<"AgentGroups", <<"eg", j>>>>
DomainAdmins     == <<"Groups", <<"DomainAdmins", 1>>>>
Legacy(name)     == <<"ou=Agent,ou=Groups", name>>
Migrated(name)   == <<"AgentGroups", name>>

\* The primary admin is the first operator, also when none is configured.
DefaultAdmin == Operator(1)

UserSpecs ==
  [k \in 1 .. topology.operators + topology.directoryUsers |->
     IF k <= topology.operators THEN Operator(k)
                                ELSE DirectoryUser(k - topology.operators)]

\* _round_robin_members: bucket j of `buckets' for 1 .. n.
Bucket(n, buckets, j) == {m \in 1 .. n : (m - 1) % buckets = j - 1}

UserGroupMembers(j) ==
  LET bucket == Bucket(topology.directoryUsers, topology.userGroups, j)
  IN  IF bucket = {} THEN {DefaultAdmin} ELSE {DirectoryUser(k) : k \in bucket}

AdminMembers ==
  IF topology.operators = 0 THEN {DefaultAdmin}
  ELSE {Operator(k) : k \in 1 .. topology.operators}

EndpointGroupMembers(j) == Bucket(topology.agents, topology.endpointGroups, j)

\* Mutant: an entry that exists is left as it is.
EnsureGroupEntry_Skip(dn, members) ==
  entries' = [d \in DOMAIN entries \cup {dn} |->
                IF d \in DOMAIN entries THEN entries[d] ELSE members]

\* _ensure_group_entry: added, or replaced when it exists.
EnsureGroupEntry(dn, members) ==
  entries' = [d \in DOMAIN entries \cup {dn} |->
                IF d = dn THEN members ELSE entries[d]]

-----------------------------------------------------------------------------
Stages ==
  {"off", "roots", "users", "userGroups", "role", "admins", "account", "device",
   "endpointGroups", "listLegacy", "migrate", "verify",
   "succeeded", "failed", "wrongCount"}

Running == stage \notin {"off", "succeeded", "failed", "wrongCount"}

LegacyNames == DOMAIN LegacyGroups

Init ==
  /\ roots = 0
  /\ users = {} /\ role = {} /\ accounts = {} /\ devices = {}
  /\ entries = [d \in {Legacy(name) : name \in LegacyNames} |-> LegacyGroups[d[2]]]
  /\ topology \in Topologies
  /\ stage = "off" /\ i = 1 /\ children = {}
  /\ runs = 0 /\ largest = 0

InitRoot ==
  /\ roots < Len(Roots)
  /\ roots' = roots + 1
  /\ UNCHANGED <<directory, topology, stage, i, children, runs, largest>>

Start ==
  /\ ~ Running /\ runs < MaxRuns
  /\ topology' \in Topologies
  /\ stage' = "roots" /\ i' = 1 /\ children' = {}
  /\ runs' = runs + 1
  /\ largest' = IF topology'.agents > largest THEN topology'.agents ELSE largest
  /\ UNCHANGED <<roots, directory>>

\* A call raises, or the container is killed.
Die ==
  /\ Running
  /\ stage' = "failed"
  /\ UNCHANGED <<roots, directory, topology, i, children, runs, largest>>

Goto(to) == stage' = to /\ i' = 1

\* Another round of the loop the stage is in, or the stage after it.
NextRound(last, after) ==
  IF i < last THEN i' = i + 1 /\ UNCHANGED stage ELSE Goto(after)

-----------------------------------------------------------------------------
\* ensure_user_tree, ensure_ou_ahenkler, ensure_group_tree
RequireRoots ==
  /\ stage = "roots"
  /\ IF \A name \in {"users", "Ahenkler", "Groups", "AgentGroups"} : RootExists(name)
     THEN Goto("users") ELSE Goto("failed")
  /\ UNCHANGED <<roots, directory, topology, children, runs, largest>>

SeedUser ==
  /\ stage = "users"
  /\ IF UserSpecs = <<>> THEN UNCHANGED users ELSE users' = users \cup {UserSpecs[i]}
  /\ NextRound(Len(UserSpecs), "userGroups")
  /\ UNCHANGED <<roots, entries, role, accounts, devices, topology, children, runs,
                 largest>>

SeedUserGroup ==
  /\ stage = "userGroups"
  /\ IF topology.userGroups = 0 THEN UNCHANGED entries
     ELSE EnsureGroupEntry(UserGroup(i), UserGroupMembers(i))
  /\ NextRound(topology.userGroups, "role")
  /\ UNCHANGED <<roots, users, role, accounts, devices, topology, children, runs,
                 largest>>

\* ensure_roles_ou: the role group keeps the agents it was created with ...
SeedRole ==
  /\ stage = "role"
  /\ IF RootExists("Roles") /\ RootExists("Groups")
     THEN /\ role' = IF role = {} THEN {1 .. topology.agents} ELSE role
          /\ Goto("admins")
     ELSE Goto("failed") /\ UNCHANGED role
  /\ UNCHANGED <<roots, users, entries, accounts, devices, topology, children, runs,
                 largest>>

\* ... and DomainAdmins is replaced.
SeedAdmins ==
  /\ stage = "admins"
  /\ EnsureGroupEntry(DomainAdmins, AdminMembers)
  /\ Goto(IF topology.agents = 0 THEN "endpointGroups" ELSE "account")
  /\ UNCHANGED <<roots, users, role, accounts, devices, topology, children, runs,
                 largest>>

\* Mutant: the agents are numbered from 0 when accounts are created.
CreateAccount_FromZero ==
  /\ stage = "account"
  /\ accounts' = accounts \cup {i - 1}
  /\ stage' = "device"
  /\ UNCHANGED <<roots, users, entries, role, devices, topology, i, children, runs,
                 largest>>

\* Mutant: only the first agent gets an account.
CreateAccount_OnlyFirst ==
  /\ stage = "account"
  /\ accounts' = IF i = 1 THEN accounts \cup {i} ELSE accounts
  /\ stage' = "device"
  /\ UNCHANGED <<roots, users, entries, role, devices, topology, i, children, runs,
                 largest>>

\* register_xmpp_idempotent
CreateAccount ==
  /\ stage = "account"
  /\ accounts' = accounts \cup {i}
  /\ stage' = "device"
  /\ UNCHANGED <<roots, users, entries, role, devices, topology, i, children, runs,
                 largest>>

\* Mutant: the loop ends one agent early.
CreateDevice_Short ==
  /\ stage = "device"
  /\ devices' = devices \cup {i}
  /\ IF i + 1 < topology.agents THEN stage' = "account" /\ i' = i + 1
                                ELSE Goto("endpointGroups")
  /\ UNCHANGED <<roots, users, entries, role, accounts, topology, children, runs,
                 largest>>

\* register_ldap_idempotent
CreateDevice ==
  /\ stage = "device"
  /\ devices' = devices \cup {i}
  /\ IF i < topology.agents THEN stage' = "account" /\ i' = i + 1
                            ELSE Goto("endpointGroups")
  /\ UNCHANGED <<roots, users, entries, role, accounts, topology, children, runs,
                 largest>>

\* A group nobody falls into is not written.
SeedEndpointGroup ==
  /\ stage = "endpointGroups"
  /\ IF topology.endpointGroups = 0 \/ EndpointGroupMembers(i) = {}
     THEN UNCHANGED entries
     ELSE EnsureGroupEntry(EndpointGroup(i), EndpointGroupMembers(i))
  /\ NextRound(topology.endpointGroups, "listLegacy")
  /\ UNCHANGED <<roots, users, role, accounts, devices, topology, children, runs,
                 largest>>

-----------------------------------------------------------------------------
(***************************************************************************)
(* migrate_legacy_agent_group_root.  The legacy root exists as long as it  *)
(* has children here: whether the empty root itself is deleted changes     *)
(* nothing for the groups.                                                 *)
(***************************************************************************)
ListLegacy ==
  /\ stage = "listLegacy"
  /\ children' = {name \in LegacyNames : Legacy(name) \in DOMAIN entries}
  /\ Goto(IF children' = {} THEN "verify" ELSE "migrate")
  /\ UNCHANGED <<roots, directory, topology, runs, largest>>

\* Mutant: the legacy entry is deleted whether or not there is a new one.
MigrateChild_Delete(name) ==
  /\ stage = "migrate" /\ name \in children
  /\ children' = children \ {name}
  /\ Goto(IF children' = {} THEN "verify" ELSE "migrate")
  /\ entries' = [d \in DOMAIN entries \ {Legacy(name)} |-> entries[d]]
  /\ UNCHANGED <<roots, users, role, accounts, devices, topology, runs, largest>>

\* A group that also exists under the new root is deleted, any other is moved.
MigrateChild(name) ==
  /\ stage = "migrate" /\ name \in children
  /\ children' = children \ {name}
  /\ Goto(IF children' = {} THEN "verify" ELSE "migrate")
  /\ LET kept == DOMAIN entries \ {Legacy(name)}
     IN  entries' =
           IF Migrated(name) \in DOMAIN entries
           THEN [d \in kept |-> entries[d]]
           ELSE [d \in kept \cup {Migrated(name)} |->
                   IF d = Migrated(name) THEN entries[Legacy(name)] ELSE entries[d]]
  /\ UNCHANGED <<roots, users, role, accounts, devices, topology, runs, largest>>

\* A failed delete or move is counted, and the migration goes on.
MigrateChildFails(name) ==
  /\ stage = "migrate" /\ name \in children
  /\ children' = children \ {name}
  /\ Goto(IF children' = {} THEN "verify" ELSE "migrate")
  /\ UNCHANGED <<roots, directory, topology, runs, largest>>

\* verify_registrations counts every device under the agent root.
Verify ==
  /\ stage = "verify"
  /\ Goto(IF Cardinality(devices) = topology.agents THEN "succeeded" ELSE "wrongCount")
  /\ UNCHANGED <<roots, directory, topology, children, runs, largest>>

-----------------------------------------------------------------------------
Next ==
  \/ InitRoot \/ Start \/ Die \/ RequireRoots
  \/ SeedUser \/ SeedUserGroup \/ SeedRole \/ SeedAdmins
  \/ CreateAccount \/ CreateDevice \/ SeedEndpointGroup
  \/ ListLegacy
  \/ (\E name \in LegacyNames : MigrateChild(name) \/ MigrateChildFails(name))
  \/ Verify

Spec == Init /\ [][Next]_vars

-----------------------------------------------------------------------------
TypeOK ==
  /\ roots \in 0 .. Len(Roots)
  /\ \A u \in users : u[1] \in {"operator", "user"} /\ u[2] \in Nat \ {0}
  /\ \A members \in role : members \subseteq 1 .. largest
  /\ accounts \subseteq 1 .. largest /\ devices \subseteq 1 .. largest
  /\ topology \in Topologies /\ stage \in Stages
  /\ i \in Nat \ {0} /\ children \subseteq LegacyNames
  /\ runs \in 0 .. MaxRuns /\ largest \in {0} \cup {t.agents : t \in Topologies}

(***************************************************************************)
(* A run that succeeds leaves exactly what its topology asks for, whatever *)
(* earlier runs with other topologies created and wherever they died.      *)
(***************************************************************************)
SuccessIsComplete ==
  stage = "succeeded" =>
    /\ devices = 1 .. topology.agents /\ devices \subseteq accounts
    /\ \A k \in DOMAIN UserSpecs : UserSpecs[k] \in users
    /\ \A j \in 1 .. topology.userGroups :
         /\ UserGroup(j) \in DOMAIN entries
         /\ entries[UserGroup(j)] = UserGroupMembers(j)
    /\ \A j \in 1 .. topology.endpointGroups :
         EndpointGroupMembers(j) # {} =>
           /\ EndpointGroup(j) \in DOMAIN entries
           /\ entries[EndpointGroup(j)] = EndpointGroupMembers(j)
    /\ entries[DomainAdmins] = AdminMembers

(***************************************************************************)
(* A device entry never stands without its account, not even after a run   *)
(* that died between the two: agents found in LDAP can log in, and the     *)
(* collector never finds an identity in LDAP only.                         *)
(***************************************************************************)
DevicesHaveAccounts == devices \subseteq accounts

SeededNames ==
  UNION {{EndpointGroup(j)[2] : j \in 1 .. t.endpointGroups} : t \in Topologies}

(***************************************************************************)
(* The migration loses no group, and one whose name the topology does not  *)
(* seed keeps its members, wherever the run dies.                          *)
(***************************************************************************)
MigrationKeepsGroups ==
  \A name \in LegacyNames :
    /\ Legacy(name) \in DOMAIN entries \/ Migrated(name) \in DOMAIN entries
    /\ name \notin SeededNames =>
         \A d \in DOMAIN entries \cap {Legacy(name), Migrated(name)} :
           entries[d] = LegacyGroups[name]

(***************************************************************************)
(* The final count only fails a run over devices that a run for more       *)
(* agents left behind: repeating a run that died is always enough.         *)
(***************************************************************************)
WrongCountMeansLeftovers ==
  stage = "wrongCount" => topology.agents < largest
=============================================================================
