------------------------- MODULE ProvisionerProofs -------------------------
(***************************************************************************)
(* What no run of the provisioner breaks, wherever it dies, for any        *)
(* topologies, any legacy groups and any number of runs.                   *)
(***************************************************************************)
EXTENDS Provisioner, FiniteSetTheorems, TLAPS

(***************************************************************************)
(* Where the loops over agents and over endpoint groups are.               *)
(***************************************************************************)
LoopInv ==
  /\ topology \in Topologies /\ i \in Nat \ {0}
  /\ stage = "device" => i \in accounts
  /\ stage = "endpointGroups" /\ topology.endpointGroups # 0
       => i <= topology.endpointGroups

AccountsFirst == LoopInv /\ DevicesHaveAccounts

LEMMA LoopCounts ==
  ASSUME NEW t \in Topologies
  PROVE  /\ t.agents \in Nat /\ t.endpointGroups \in Nat /\ t.operators \in Nat
         /\ t.directoryUsers \in Nat /\ t.userGroups \in Nat
BY TopologyAssumption

(***************************************************************************)
(* An account is created before the device entry that needs it, so that    *)
(* no death of the container leaves a device entry without its account.    *)
(***************************************************************************)
LEMMA AccountsFirstHolds == Spec => []AccountsFirst
<1>1. Init => AccountsFirst
  BY DEF Init, AccountsFirst, LoopInv, DevicesHaveAccounts
<1>2. AccountsFirst /\ [Next]_vars => AccountsFirst'
  <2> SUFFICES ASSUME AccountsFirst, [Next]_vars PROVE AccountsFirst'
    OBVIOUS
  <2> USE DEF AccountsFirst, LoopInv, DevicesHaveAccounts, Goto, NextRound, directory
  <2>1. CASE InitRoot \/ Start \/ Die
    BY <2>1 DEF InitRoot, Start, Die
  <2>2. CASE RequireRoots \/ SeedRole
    BY <2>2 DEF RequireRoots, SeedRole
  <2>3. CASE SeedUser
    BY <2>3 DEF SeedUser
  <2>4. CASE SeedUserGroup
    BY <2>4 DEF SeedUserGroup
  <2>5. CASE SeedAdmins
    BY <2>5, LoopCounts DEF SeedAdmins
  <2>6. CASE CreateAccount
    BY <2>6 DEF CreateAccount
  <2>7. CASE CreateDevice
    BY <2>7, LoopCounts DEF CreateDevice
  <2>8. CASE SeedEndpointGroup
    BY <2>8, LoopCounts DEF SeedEndpointGroup
  <2>9. CASE ListLegacy \/ Verify
    BY <2>9 DEF ListLegacy, Verify
  <2>10. CASE \E name \in LegacyNames : MigrateChild(name) \/ MigrateChildFails(name)
    BY <2>10 DEF MigrateChild, MigrateChildFails
  <2>11. CASE UNCHANGED vars
    BY <2>11 DEF vars
  <2> QED
    BY <2>1, <2>2, <2>3, <2>4, <2>5, <2>6, <2>7, <2>8, <2>9, <2>10, <2>11 DEF Next
<1> QED
  BY <1>1, <1>2, PTL DEF Spec

(***************************************************************************)
(* Every device entry has its XMPP account, wherever a run dies: the       *)
(* account is always made first.                                           *)
(***************************************************************************)
THEOREM NoDeviceWithoutAccount == Spec => []DevicesHaveAccounts
<1>1. AccountsFirst => DevicesHaveAccounts
  BY DEF AccountsFirst
<1> QED
  BY <1>1, AccountsFirstHolds, PTL

-----------------------------------------------------------------------------
(***************************************************************************)
(* The children that wait to be migrated still have their legacy entry.    *)
(***************************************************************************)
ChildrenExist ==
  children \subseteq {name \in LegacyNames : Legacy(name) \in DOMAIN entries}

GroupsInv == ChildrenExist /\ MigrationKeepsGroups

\* An entry that seeding writes is no legacy entry, and is the migrated one of
\* no legacy group but those whose name is seeded.
LEMMA SeedingSparesGroups ==
  ASSUME NEW dn, NEW members, EnsureGroupEntry(dn, members),
         MigrationKeepsGroups, UNCHANGED children, ChildrenExist,
         \A name \in LegacyNames :
           /\ dn # Legacy(name)
           /\ dn = Migrated(name) => name \in SeededNames
  PROVE  GroupsInv'
<1>1. DOMAIN entries' = DOMAIN entries \cup {dn}
  BY DEF EnsureGroupEntry
<1>2. \A d \in DOMAIN entries : d # dn => entries'[d] = entries[d]
  BY DEF EnsureGroupEntry
<1>3. ChildrenExist'
  BY <1>1 DEF ChildrenExist
<1>4. ASSUME NEW name \in LegacyNames, name \notin SeededNames,
             NEW d \in (DOMAIN entries') \cap {Legacy(name), Migrated(name)}
      PROVE  entries'[d] = LegacyGroups[name]
  <2>1. d # dn /\ d \in DOMAIN entries
    BY <1>1, <1>4
  <2> QED
    BY <1>2, <1>4, <2>1 DEF MigrationKeepsGroups
<1>5. MigrationKeepsGroups'
  BY <1>1, <1>4 DEF MigrationKeepsGroups
<1> QED
  BY <1>3, <1>5 DEF GroupsInv
\* An entry leaves the legacy root only for one with its members.
LEMMA MigrationMovesGroups ==
  ASSUME NEW moved \in LegacyNames, MigrateChild(moved), GroupsInv
  PROVE  GroupsInv'
<1> DEFINE from == Legacy(moved)
           to   == Migrated(moved)
<1>1. from \in DOMAIN entries /\ children' = children \ {moved}
  BY DEF MigrateChild, GroupsInv, ChildrenExist
<1>2. /\ DOMAIN entries' = (DOMAIN entries \ {from}) \cup {to}
      /\ \A d \in DOMAIN entries \ {from} : d # to => entries'[d] = entries[d]
      /\ entries'[to] = IF to \in DOMAIN entries THEN entries[to] ELSE entries[from]
  <2>1. from # to
    BY DEF Legacy, Migrated
  <2> QED
    BY <2>1 DEF MigrateChild
<1>3. \A name \in LegacyNames :
        /\ Legacy(name) # to /\ Migrated(name) # from
        /\ (Legacy(name) = from \/ Migrated(name) = to) => name = moved
  BY DEF Legacy, Migrated
<1> HIDE DEF from, to
<1>4. ChildrenExist'
  BY <1>1, <1>2, <1>3 DEF GroupsInv, ChildrenExist
<1>5. ASSUME NEW name \in LegacyNames
      PROVE  Legacy(name) \in DOMAIN entries' \/ Migrated(name) \in DOMAIN entries'
  BY <1>2, <1>3 DEF GroupsInv, MigrationKeepsGroups, from, to
<1>6. ASSUME NEW name \in LegacyNames, name \notin SeededNames,
             NEW d \in (DOMAIN entries') \cap {Legacy(name), Migrated(name)}
      PROVE  entries'[d] = LegacyGroups[name]
  <2>1. CASE d # to
    <3>1. d \in DOMAIN entries \ {from}
      BY <1>2, <1>6, <2>1
    <3>2. entries[d] = LegacyGroups[name]
      BY <1>6, <3>1 DEF GroupsInv, MigrationKeepsGroups
    <3> QED
      BY <1>2, <2>1, <3>1, <3>2
  <2>2. CASE d = to
    <3>1. name = moved
      BY <1>3, <1>6, <2>2
    <3>2. entries[from] = LegacyGroups[name]
      BY <1>1, <1>6, <3>1 DEF GroupsInv, MigrationKeepsGroups, from
    <3>3. to \in DOMAIN entries => entries[to] = LegacyGroups[name]
      BY <1>6, <3>1 DEF GroupsInv, MigrationKeepsGroups, to
    <3> QED
      BY <1>2, <2>2, <3>2, <3>3
  <2> QED
    BY <2>1, <2>2
<1> QED
  BY <1>4, <1>5, <1>6 DEF GroupsInv, MigrationKeepsGroups

(***************************************************************************)
(* The migration of agent groups loses none, and one whose name is not     *)
(* seeded keeps its members, wherever runs die.                            *)
(***************************************************************************)
THEOREM GroupsSurviveMigration == Spec => []MigrationKeepsGroups
<1>1. Init => GroupsInv
  <2> SUFFICES ASSUME Init PROVE GroupsInv
    OBVIOUS
  <2>1. /\ DOMAIN entries = {Legacy(name) : name \in LegacyNames}
        /\ \A name \in LegacyNames : entries[Legacy(name)] = LegacyGroups[name]
        /\ children = {}
    BY DEF Init, Legacy
  <2>2. \A name \in LegacyNames : Migrated(name) \notin DOMAIN entries
    BY <2>1 DEF Legacy, Migrated
  <2> QED
    BY <2>1, <2>2 DEF GroupsInv, ChildrenExist, MigrationKeepsGroups
<1>2. AccountsFirst /\ GroupsInv /\ [Next]_vars => GroupsInv'
  <2> SUFFICES ASSUME AccountsFirst, GroupsInv, [Next]_vars PROVE GroupsInv'
    OBVIOUS
  <2> DEFINE same == UNCHANGED <<entries, children>>
  <2>0. same => GroupsInv'
    BY DEF GroupsInv, ChildrenExist, MigrationKeepsGroups
  <2>1. CASE InitRoot \/ Die \/ RequireRoots \/ SeedUser \/ SeedRole \/ Verify
    BY <2>0, <2>1 DEF InitRoot, Die, RequireRoots, SeedUser, SeedRole, Verify, directory
  <2>2. CASE Start
    BY <2>2 DEF Start, directory, GroupsInv, ChildrenExist, MigrationKeepsGroups
  <2>3. CASE CreateAccount \/ CreateDevice
    BY <2>0, <2>3 DEF CreateAccount, CreateDevice
  <2>4. CASE SeedUserGroup
    <3>1. \A name \in LegacyNames :
            UserGroup(i) # Legacy(name) /\ UserGroup(i) # Migrated(name)
      BY DEF UserGroup, Legacy, Migrated
    <3>2. CASE topology.userGroups = 0
      BY <2>0, <2>4, <3>2 DEF SeedUserGroup
    <3>3. CASE topology.userGroups # 0
      BY <2>4, <3>1, <3>3, SeedingSparesGroups DEF SeedUserGroup, GroupsInv
    <3> QED
      BY <3>2, <3>3
  <2>5. CASE SeedAdmins
    <3>1. \A name \in LegacyNames :
            DomainAdmins # Legacy(name) /\ DomainAdmins # Migrated(name)
      BY DEF DomainAdmins, Legacy, Migrated
    <3> QED
      BY <2>5, <3>1, SeedingSparesGroups DEF SeedAdmins, GroupsInv
  <2>6. CASE SeedEndpointGroup
    <3>1. CASE topology.endpointGroups = 0 \/ EndpointGroupMembers(i) = {}
      BY <2>0, <2>6, <3>1 DEF SeedEndpointGroup
    <3>2. CASE topology.endpointGroups # 0 /\ EndpointGroupMembers(i) # {}
      <4>1. topology \in Topologies /\ i \in 1 .. topology.endpointGroups
        BY <2>6, <3>2, LoopCounts DEF AccountsFirst, LoopInv, SeedEndpointGroup
      <4>2. EndpointGroup(i)[2] \in SeededNames
        BY <4>1 DEF SeededNames
      <4>3. \A name \in LegacyNames :
              /\ EndpointGroup(i) # Legacy(name)
              /\ EndpointGroup(i) = Migrated(name) => name = EndpointGroup(i)[2]
        BY DEF EndpointGroup, Legacy, Migrated
      <4> QED
        BY <2>6, <3>2, <4>2, <4>3, SeedingSparesGroups DEF SeedEndpointGroup, GroupsInv
    <3> QED
      BY <3>1, <3>2
  <2>7. CASE ListLegacy
    BY <2>7 DEF ListLegacy, directory, GroupsInv, ChildrenExist, MigrationKeepsGroups
  <2>8. ASSUME NEW name \in LegacyNames, MigrateChild(name) PROVE GroupsInv'
    BY <2>8, MigrationMovesGroups
  <2>9. ASSUME NEW name \in LegacyNames, MigrateChildFails(name) PROVE GroupsInv'
    BY <2>9 DEF MigrateChildFails, directory, GroupsInv, ChildrenExist,
                MigrationKeepsGroups
  <2>10. CASE UNCHANGED vars
    BY <2>0, <2>10 DEF vars, directory
  <2> QED
    BY <2>1, <2>2, <2>3, <2>4, <2>5, <2>6, <2>7, <2>8, <2>9, <2>10 DEF Next
<1>3. GroupsInv => MigrationKeepsGroups
  BY DEF GroupsInv
<1> QED
  BY <1>1, <1>2, <1>3, AccountsFirstHolds, PTL DEF Spec

-----------------------------------------------------------------------------
(***************************************************************************)
(* What the loops work through: a run that was started has counted its     *)
(* agents in `largest', and no loop leaves the numbers of its topology.    *)
(***************************************************************************)
RangeInv ==
  /\ TypeOK /\ largest \in Nat
  /\ stage # "off" => topology.agents <= largest
  /\ stage \in {"account", "device"} => i <= topology.agents
  /\ stage = "users" => i <= Len(UserSpecs) \/ i = 1
  /\ stage = "userGroups" => i <= topology.userGroups \/ i = 1
  /\ stage = "endpointGroups" => i <= topology.endpointGroups \/ i = 1

LEMMA UserSpecsLength ==
  ASSUME topology \in Topologies
  PROVE  /\ Len(UserSpecs) = topology.operators + topology.directoryUsers
         /\ Len(UserSpecs) \in Nat /\ DOMAIN UserSpecs = 1 .. Len(UserSpecs)
         /\ UserSpecs = <<>> <=> Len(UserSpecs) = 0
<1> DEFINE n == topology.operators + topology.directoryUsers
<1>1. n \in Nat
  BY LoopCounts
<1> HIDE DEF n
<1>2. DOMAIN UserSpecs = 1 .. n
  BY DEF UserSpecs, n
<1>3. UserSpecs \in [1 .. n -> {UserSpecs[k] : k \in 1 .. n}]
  BY <1>2 DEF UserSpecs, n
<1>4. UserSpecs \in Seq({UserSpecs[k] : k \in 1 .. n})
  BY <1>1, <1>3
<1>5. Len(UserSpecs) = n
  BY <1>1, <1>2, <1>4
<1> QED
  BY <1>1, <1>2, <1>4, <1>5 DEF n

LEMMA UserSpecsTyped ==
  ASSUME topology \in Topologies, NEW k \in DOMAIN UserSpecs
  PROVE  /\ UserSpecs[k][1] \in {"operator", "user"}
         /\ UserSpecs[k][2] \in Nat \ {0}
<1>1. k \in 1 .. topology.operators + topology.directoryUsers
  BY DEF UserSpecs
<1> QED
  BY <1>1, LoopCounts DEF UserSpecs, Operator, DirectoryUser

(***************************************************************************)
(* The numbers of accounts, devices and members of the role group never    *)
(* pass the most agents a run was started for.                             *)
(***************************************************************************)
LEMMA RangeInvHolds == Spec => []RangeInv
<1>1. Init => RangeInv
  BY MaxRunsAssumption DEF Init, RangeInv, TypeOK, Roots, Stages
<1>2. RangeInv /\ [Next]_vars => RangeInv'
  <2> SUFFICES ASSUME RangeInv, [Next]_vars PROVE RangeInv'
    OBVIOUS
  <2> USE DEF RangeInv, TypeOK, Goto, NextRound, directory, Stages
  <2>0. topology \in Topologies
    OBVIOUS
  <2>01. UNCHANGED topology => UNCHANGED UserSpecs
    BY DEF UserSpecs
  <2>1. CASE InitRoot
    <3>1. Len(Roots) = 5
      BY DEF Roots
    <3>2. roots' \in 0 .. Len(Roots)
      BY <2>1, <3>1 DEF InitRoot
    <3> QED
      BY <2>1, <2>01, <3>2 DEF InitRoot
  <2>2. CASE Start
    <3>1. topology' \in Topologies /\ topology'.agents \in Nat
      BY <2>2, LoopCounts DEF Start
    <3>2. largest' \in Nat /\ largest <= largest' /\ topology'.agents <= largest'
      BY <2>2, <3>1 DEF Start
    <3>3. 1 .. largest \subseteq 1 .. largest'
      BY <3>2
    <3>4. runs' \in 0 .. MaxRuns
      BY <2>2, MaxRunsAssumption DEF Start
    <3>5. largest' \in {0} \cup {t.agents : t \in Topologies}
      BY <2>2, <3>1 DEF Start
    <3> QED
      BY <2>2, <3>1, <3>2, <3>3, <3>4, <3>5 DEF Start
  <2>3. CASE Die \/ RequireRoots
    <3>1. stage # "off" /\ stage' \in {"users", "failed"} /\ i' \in {1, i}
      BY <2>3 DEF Die, RequireRoots, Running
    <3>2. stage' = "users" => i' = 1
      BY <2>3 DEF Die, RequireRoots
    <3>3. UNCHANGED <<roots, users, role, accounts, devices, topology, children, runs, largest>>
      BY <2>3 DEF Die, RequireRoots
    <3> QED
      BY <3>1, <3>2, <3>3
  <2>4. CASE SeedUser
    <3>1. UNCHANGED UserSpecs
      BY <2>4, <2>01 DEF SeedUser
    <3>2. UserSpecs # <<>> => i \in DOMAIN UserSpecs
      BY <2>0, <2>4, UserSpecsLength DEF SeedUser
    <3>3. \A u \in users' : u[1] \in {"operator", "user"} /\ u[2] \in Nat \ {0}
      BY <2>0, <2>4, <3>2, UserSpecsTyped DEF SeedUser
    <3>4. Len(UserSpecs) \in Nat
      BY <2>0, UserSpecsLength
    <3> QED
      BY <2>4, <3>1, <3>3, <3>4 DEF SeedUser
  <2>5. CASE SeedUserGroup
    BY <2>0, <2>5, LoopCounts DEF SeedUserGroup
  <2>6. CASE SeedRole
    <3>1. \A members \in role' : members \subseteq 1 .. largest
      <4>1. topology.agents \in Nat /\ topology.agents <= largest
        BY <2>0, <2>6, LoopCounts DEF SeedRole
      <4>2. 1 .. topology.agents \subseteq 1 .. largest
        BY <4>1
      <4>3. role' = role \/ role' = {1 .. topology.agents}
        BY <2>6 DEF SeedRole
      <4> QED
        BY <4>2, <4>3
    <3> QED
      BY <2>6, <3>1 DEF SeedRole
  <2>7. CASE SeedAdmins
    BY <2>0, <2>7, LoopCounts DEF SeedAdmins
  <2>8. CASE CreateAccount
    <3>1. i \in 1 .. largest
      BY <2>0, <2>8, LoopCounts DEF CreateAccount
    <3> QED
      BY <2>8, <3>1 DEF CreateAccount
  <2>9. CASE CreateDevice
    <3>1. i \in 1 .. largest
      BY <2>0, <2>9, LoopCounts DEF CreateDevice
    <3> QED
      BY <2>0, <2>9, <3>1, LoopCounts DEF CreateDevice
  <2>10. CASE SeedEndpointGroup
    BY <2>0, <2>10, LoopCounts DEF SeedEndpointGroup
  <2>11. CASE ListLegacy \/ Verify
    <3>1. children' \subseteq LegacyNames
      BY <2>11 DEF ListLegacy, Verify
    <3>2. /\ stage' \in {"verify", "migrate", "succeeded", "wrongCount"} /\ i' = 1
          /\ UNCHANGED <<roots, users, role, accounts, devices, topology, runs, largest>>
      BY <2>11 DEF ListLegacy, Verify
    <3>3. stage # "off"
      BY <2>11 DEF ListLegacy, Verify
    <3> QED
      BY <3>1, <3>2, <3>3
  <2>12. CASE \E name \in LegacyNames : MigrateChild(name) \/ MigrateChildFails(name)
    BY <2>12 DEF MigrateChild, MigrateChildFails
  <2>13. CASE UNCHANGED vars
    BY <2>13, <2>01 DEF vars
  <2> QED
    BY <2>1, <2>2, <2>3, <2>4, <2>5, <2>6, <2>7, <2>8, <2>9, <2>10, <2>11, <2>12, <2>13
       DEF Next
<1> QED
  BY <1>1, <1>2, PTL DEF Spec

\* Type correctness of the provisioner.
THEOREM ProvisionerTypes == Spec => []TypeOK
<1>1. RangeInv => TypeOK
  BY DEF RangeInv
<1> QED
  BY <1>1, RangeInvHolds, PTL
-----------------------------------------------------------------------------
(***************************************************************************)
(* What a run has done so far, told from the stage it is in and the index  *)
(* of its loop.                                                            *)
(***************************************************************************)
UsersUpTo(n) == \A k \in 1 .. n : UserSpecs[k] \in users

Written(dn, members) == dn \in DOMAIN entries /\ entries[dn] = members

UserGroupsUpTo(n) == \A j \in 1 .. n : Written(UserGroup(j), UserGroupMembers(j))

EndpointGroupsUpTo(n) ==
  \A j \in 1 .. n :
    EndpointGroupMembers(j) # {} => Written(EndpointGroup(j), EndpointGroupMembers(j))

AgentsUpTo(n) == 1 .. n \subseteq devices

AfterEndpointGroups == {"listLegacy", "migrate", "verify", "succeeded", "wrongCount"}
AfterAgents         == {"endpointGroups"} \cup AfterEndpointGroups
AfterAdmins         == {"account", "device"} \cup AfterAgents
AfterUserGroups     == {"role", "admins"} \cup AfterAdmins
AfterUsers          == {"userGroups"} \cup AfterUserGroups

UsersInv ==
  /\ stage = "users" => UsersUpTo(i - 1)
  /\ stage \in AfterUsers => UsersUpTo(Len(UserSpecs))

AgentsInv ==
  /\ stage \in {"account", "device"} => AgentsUpTo(i - 1)
  /\ stage \in AfterAgents => AgentsUpTo(topology.agents)
  /\ stage = "succeeded" => Cardinality(devices) = topology.agents
  /\ stage = "wrongCount" => topology.agents < largest

SeedingInv ==
  /\ stage = "userGroups" => UserGroupsUpTo(i - 1)
  /\ stage \in AfterUserGroups => UserGroupsUpTo(topology.userGroups)
  /\ stage \in AfterAdmins => Written(DomainAdmins, AdminMembers)
  /\ stage = "endpointGroups" => EndpointGroupsUpTo(i - 1)
  /\ stage \in AfterEndpointGroups => EndpointGroupsUpTo(topology.endpointGroups)

LEMMA UsersInvHolds == Spec => []UsersInv
<1> USE DEF UsersInv, UsersUpTo, AfterUsers, AfterUserGroups, AfterAdmins, AfterAgents,
            AfterEndpointGroups
<1>1. Init => UsersInv
  BY DEF Init
<1>2. RangeInv /\ UsersInv /\ [Next]_vars => UsersInv'
  <2> SUFFICES ASSUME RangeInv, UsersInv, [Next]_vars PROVE UsersInv'
    OBVIOUS
  <2> USE DEF Goto, NextRound, directory
  <2>1. topology \in Topologies /\ i \in Nat \ {0}
    BY DEF RangeInv, TypeOK
  <2>2. Len(UserSpecs) \in Nat /\ (UserSpecs = <<>> <=> Len(UserSpecs) = 0)
    BY <2>1, UserSpecsLength
  <2>3. ASSUME UNCHANGED <<users, topology>>,
               stage' = "users" => i' = 1,
               stage' \in AfterUsers => stage \in AfterUsers
        PROVE  UsersInv'
    <3>1. UNCHANGED UserSpecs
      BY <2>3 DEF UserSpecs
    <3> QED
      BY <2>3, <3>1
  <2>4. CASE SeedUser
    <3>1. UNCHANGED UserSpecs
      BY <2>4 DEF SeedUser, UserSpecs
    <3>2. CASE UserSpecs = <<>>
      <4>1. Len(UserSpecs) = 0 /\ Len(UserSpecs)' = 0
        BY <2>2, <3>1, <3>2
      <4>2. stage' = "userGroups"
        BY <2>1, <2>4, <4>1 DEF SeedUser
      <4> QED
        BY <4>1, <4>2
    <3>3. CASE UserSpecs # <<>>
      <4>1. \A k \in 1 .. i : UserSpecs[k] \in users'
        BY <2>1, <2>4, <3>3 DEF SeedUser
      <4>2. CASE i < Len(UserSpecs)
        BY <2>1, <2>4, <3>1, <4>1, <4>2 DEF SeedUser
      <4>3. CASE ~ (i < Len(UserSpecs))
        BY <2>1, <2>2, <2>4, <3>1, <4>1, <4>3 DEF SeedUser
      <4> QED
        BY <4>2, <4>3
    <3> QED
      BY <3>2, <3>3
  <2>5. CASE Start
    BY <2>5 DEF Start
  <2>6. CASE InitRoot \/ UNCHANGED vars
    <3>1. UNCHANGED <<users, topology, stage, i>>
      BY <2>6 DEF InitRoot, vars
    <3>2. UNCHANGED UserSpecs
      BY <3>1 DEF UserSpecs
    <3> QED
      BY <3>1, <3>2
  <2>7. CASE Die \/ RequireRoots \/ SeedUserGroup \/ SeedRole \/ SeedAdmins
    BY <2>3, <2>7 DEF Die, RequireRoots, SeedUserGroup, SeedRole, SeedAdmins
  <2>8. CASE CreateAccount \/ CreateDevice \/ SeedEndpointGroup \/ ListLegacy \/ Verify
    BY <2>3, <2>8 DEF CreateAccount, CreateDevice, SeedEndpointGroup, ListLegacy, Verify
  <2>9. CASE \E name \in LegacyNames : MigrateChild(name) \/ MigrateChildFails(name)
    BY <2>3, <2>9 DEF MigrateChild, MigrateChildFails
  <2> QED
    BY <2>4, <2>5, <2>6, <2>7, <2>8, <2>9 DEF Next
<1> QED
  BY <1>1, <1>2, RangeInvHolds, PTL DEF Spec

(***************************************************************************)
(* verify_registrations counts what is there: with a device for each agent *)
(* and none beyond `largest', a run for the most agents counts right.      *)
(***************************************************************************)
LEMMA AgentsInvHolds == Spec => []AgentsInv
<1> USE DEF AgentsInv, AgentsUpTo, AfterAgents, AfterEndpointGroups
<1>1. Init => AgentsInv
  BY DEF Init
<1>2. RangeInv /\ AgentsInv /\ [Next]_vars => AgentsInv'
  <2> SUFFICES ASSUME RangeInv, AgentsInv, [Next]_vars PROVE AgentsInv'
    OBVIOUS
  <2> USE DEF Goto, NextRound, directory
  <2>1. /\ topology \in Topologies /\ i \in Nat \ {0} /\ topology.agents \in Nat
        /\ largest \in Nat /\ devices \subseteq 1 .. largest
    BY LoopCounts DEF RangeInv, TypeOK
  <2>2. CASE InitRoot \/ UNCHANGED vars
    BY <2>2 DEF InitRoot, vars
  <2>3. CASE Start
    BY <2>3 DEF Start
  <2>4. CASE Die \/ RequireRoots \/ SeedUser \/ SeedUserGroup \/ SeedRole
    BY <2>4 DEF Die, RequireRoots, SeedUser, SeedUserGroup, SeedRole
  <2>5. CASE SeedAdmins
    BY <2>1, <2>5 DEF SeedAdmins
  <2>6. CASE CreateAccount
    BY <2>6 DEF CreateAccount
  <2>7. CASE CreateDevice
    BY <2>1, <2>7 DEF CreateDevice, RangeInv
  <2>8. CASE SeedEndpointGroup \/ ListLegacy
    BY <2>8 DEF SeedEndpointGroup, ListLegacy
  <2>9. CASE \E name \in LegacyNames : MigrateChild(name) \/ MigrateChildFails(name)
    BY <2>9 DEF MigrateChild, MigrateChildFails
  <2>10. CASE Verify
    <3>1. Cardinality(devices) # topology.agents => topology.agents < largest
      <4> SUFFICES ASSUME topology.agents >= largest
                   PROVE  Cardinality(devices) = topology.agents
        BY <2>1
      <4>1. topology.agents = largest
        BY <2>1, <2>10 DEF Verify, RangeInv
      <4>2. devices = 1 .. topology.agents
        BY <2>1, <2>10, <4>1 DEF Verify
      <4> QED
        BY <2>1, <4>2, FS_Interval
    <3> QED
      BY <2>10, <3>1 DEF Verify
  <2> QED
    BY <2>2, <2>3, <2>4, <2>5, <2>6, <2>7, <2>8, <2>9, <2>10 DEF Next
<1> QED
  BY <1>1, <1>2, RangeInvHolds, PTL DEF Spec

(***************************************************************************)
(* A final count that is wrong is one of devices that a run for more       *)
(* agents left: repeating a run that died is always enough.                *)
(***************************************************************************)
THEOREM WrongCountOnlyOfLeftovers == Spec => []WrongCountMeansLeftovers
<1>1. AgentsInv => WrongCountMeansLeftovers
  BY DEF AgentsInv, WrongCountMeansLeftovers
<1> QED
  BY <1>1, AgentsInvHolds, PTL

-----------------------------------------------------------------------------
(***************************************************************************)
(* Which entries a step may touch: seeding writes the one it names, the    *)
(* migration changes none that seeding wrote.                              *)
(***************************************************************************)
LEMMA EnsureWritesOne ==
  ASSUME NEW dn, NEW members, EnsureGroupEntry(dn, members)
  PROVE  /\ dn \in DOMAIN entries' /\ entries'[dn] = members
         /\ \A d : d # dn /\ d \in DOMAIN entries =>
                d \in DOMAIN entries' /\ entries'[d] = entries[d]
BY DEF EnsureGroupEntry

LEMMA MigrationSparesSeeded ==
  ASSUME NEW name \in LegacyNames, MigrateChild(name),
         NEW d \in DOMAIN entries, d # Legacy(name)
  PROVE  d \in DOMAIN entries' /\ entries'[d] = entries[d]
BY DEF MigrateChild

LEMMA NamesDiffer ==
  /\ \A j, k \in Nat : UserGroup(j) = UserGroup(k) => j = k
  /\ \A j, k \in Nat : EndpointGroup(j) = EndpointGroup(k) => j = k
  /\ \A j, k \in Nat : UserGroup(j) # EndpointGroup(k)
  /\ \A j \in Nat : UserGroup(j) # DomainAdmins /\ EndpointGroup(j) # DomainAdmins
  /\ \A j \in Nat, name \in LegacyNames :
       UserGroup(j) # Legacy(name) /\ EndpointGroup(j) # Legacy(name)
  /\ \A name \in LegacyNames : DomainAdmins # Legacy(name)
BY DEF UserGroup, EndpointGroup, DomainAdmins, Legacy

\* The members a topology asks for change with the topology only.
LEMMA MembersFixed ==
  ASSUME UNCHANGED topology
  PROVE  /\ \A j : UserGroupMembers(j)' = UserGroupMembers(j)
         /\ \A j : EndpointGroupMembers(j)' = EndpointGroupMembers(j)
         /\ AdminMembers' = AdminMembers
BY DEF UserGroupMembers, EndpointGroupMembers, AdminMembers, Bucket, DefaultAdmin

LEMMA SeedingInvHolds == Spec => []SeedingInv
<1> USE DEF SeedingInv, UserGroupsUpTo, EndpointGroupsUpTo, Written,
            AfterUserGroups, AfterAdmins, AfterAgents, AfterEndpointGroups
<1>1. Init => SeedingInv
  BY DEF Init
<1>2. RangeInv /\ SeedingInv /\ [Next]_vars => SeedingInv'
  <2> SUFFICES ASSUME RangeInv, SeedingInv, [Next]_vars PROVE SeedingInv'
    OBVIOUS
  <2> USE DEF Goto, NextRound, directory
  <2>1. /\ topology \in Topologies /\ i \in Nat \ {0}
        /\ topology.userGroups \in Nat /\ topology.endpointGroups \in Nat
    BY LoopCounts DEF RangeInv, TypeOK
  <2>2. CASE Start
    BY <2>2 DEF Start
  <2>3. ASSUME UNCHANGED <<entries, topology>>,
               stage' = "userGroups" => i' = 1,
               stage' = "endpointGroups" => i' = 1 \/ UNCHANGED <<stage, i>>,
               stage' \in AfterUserGroups => stage \in AfterUserGroups,
               stage' \in AfterAdmins => stage \in AfterAdmins,
               stage' \in AfterEndpointGroups => stage \in AfterEndpointGroups
        PROVE  SeedingInv'
    BY <2>1, <2>3, MembersFixed
  <2>4. CASE InitRoot \/ UNCHANGED vars
    BY <2>4, MembersFixed DEF InitRoot, vars
  <2>5. CASE Die \/ RequireRoots \/ SeedUser \/ SeedRole
    BY <2>3, <2>5 DEF Die, RequireRoots, SeedUser, SeedRole
  <2>6. CASE CreateAccount \/ CreateDevice \/ Verify
    BY <2>3, <2>6 DEF CreateAccount, CreateDevice, Verify
  <2>7. CASE ListLegacy
    BY <2>3, <2>7 DEF ListLegacy
  <2>8. ASSUME NEW name \in LegacyNames, MigrateChildFails(name) PROVE SeedingInv'
    BY <2>3, <2>8 DEF MigrateChildFails
  <2>9. CASE SeedUserGroup
    <3>1. UNCHANGED topology /\ stage = "userGroups"
      BY <2>9 DEF SeedUserGroup
    <3>2. CASE topology.userGroups = 0
      <4>1. stage' = "role" /\ topology'.userGroups = 0
        BY <2>1, <2>9, <3>1, <3>2 DEF SeedUserGroup
      <4> QED
        BY <4>1
    <3>3. CASE topology.userGroups # 0
      <4>1. i <= topology.userGroups /\ EnsureGroupEntry(UserGroup(i), UserGroupMembers(i))
        BY <2>1, <2>9, <3>1, <3>3 DEF SeedUserGroup, RangeInv
      <4>2. ASSUME NEW j \in 1 .. i
            PROVE  UserGroup(j) \in DOMAIN entries' /\ entries'[UserGroup(j)] = UserGroupMembers(j)'
        <5>1. UserGroupMembers(j)' = UserGroupMembers(j)
          BY <3>1, MembersFixed
        <5>2. CASE j = i
          BY <4>1, <5>1, <5>2, EnsureWritesOne
        <5>3. CASE j # i
          <6>1. UserGroup(j) # UserGroup(i) /\ j \in 1 .. i - 1
            BY <2>1, <5>3, NamesDiffer
          <6>2. UserGroup(j) \in DOMAIN entries /\ entries[UserGroup(j)] = UserGroupMembers(j)
            BY <3>1, <6>1
          <6> QED
            BY <4>1, <5>1, <6>1, <6>2, EnsureWritesOne
        <5> QED
          BY <5>2, <5>3
      <4>3. \/ stage' = "userGroups" /\ i' = i + 1
            \/ stage' = "role" /\ i = topology.userGroups
        BY <2>1, <2>9, <4>1 DEF SeedUserGroup
      <4> QED
        BY <2>1, <3>1, <4>2, <4>3
    <3> QED
      BY <3>2, <3>3
  <2>10. CASE SeedAdmins
    BY <2>1, <2>10, MembersFixed, NamesDiffer, EnsureWritesOne DEF SeedAdmins
  <2>11. CASE SeedEndpointGroup
    <3>1. UNCHANGED topology /\ stage = "endpointGroups"
      BY <2>11 DEF SeedEndpointGroup
    <3>2. ASSUME NEW j \in 1 .. topology.userGroups
          PROVE  Written(UserGroup(j), UserGroupMembers(j))'
      <4>1. UserGroup(j) \in DOMAIN entries /\ entries[UserGroup(j)] = UserGroupMembers(j)
        BY <3>1
      <4>2. UserGroup(j) # EndpointGroup(i)
        BY <2>1, NamesDiffer
      <4> QED
        BY <2>11, <3>1, <4>1, <4>2, MembersFixed, EnsureWritesOne DEF SeedEndpointGroup
    <3>3. Written(DomainAdmins, AdminMembers)'
      <4>1. DomainAdmins \in DOMAIN entries /\ entries[DomainAdmins] = AdminMembers
        BY <3>1
      <4>2. DomainAdmins # EndpointGroup(i)
        BY <2>1, NamesDiffer
      <4> QED
        BY <2>11, <3>1, <4>1, <4>2, MembersFixed, EnsureWritesOne DEF SeedEndpointGroup
    <3>4. CASE topology.endpointGroups = 0
      <4>1. stage' = "listLegacy" /\ topology'.endpointGroups = 0 /\ UNCHANGED topology
        BY <2>1, <2>11, <3>1, <3>4 DEF SeedEndpointGroup
      <4> QED
        BY <3>2, <3>3, <4>1
    <3>5. CASE topology.endpointGroups # 0
      <4>1. i <= topology.endpointGroups
        BY <2>1, <3>1, <3>5 DEF RangeInv
      <4>2. ASSUME NEW j \in 1 .. i, EndpointGroupMembers(j) # {}
            PROVE  Written(EndpointGroup(j), EndpointGroupMembers(j))'
        <5>1. EndpointGroupMembers(j)' = EndpointGroupMembers(j)
          BY <3>1, MembersFixed
        <5>2. CASE j = i
          BY <2>11, <3>5, <4>2, <5>1, <5>2, EnsureWritesOne DEF SeedEndpointGroup
        <5>3. CASE j # i
          <6>1. EndpointGroup(j) # EndpointGroup(i) /\ j \in 1 .. i - 1
            BY <2>1, <5>3, NamesDiffer
          <6>2. /\ EndpointGroup(j) \in DOMAIN entries
                /\ entries[EndpointGroup(j)] = EndpointGroupMembers(j)
            BY <3>1, <4>2, <6>1
          <6> QED
            BY <2>11, <5>1, <6>1, <6>2, EnsureWritesOne DEF SeedEndpointGroup
        <5> QED
          BY <5>2, <5>3
      <4>3. \/ stage' = "endpointGroups" /\ i' = i + 1
            \/ stage' = "listLegacy" /\ i = topology.endpointGroups
        BY <2>1, <2>11, <4>1 DEF SeedEndpointGroup
      <4>4. \A j : EndpointGroupMembers(j)' = EndpointGroupMembers(j)
        BY <3>1, MembersFixed
      <4> QED
        BY <2>1, <3>1, <3>2, <3>3, <4>2, <4>3, <4>4
    <3> QED
      BY <3>4, <3>5
  <2>12. ASSUME NEW name \in LegacyNames, MigrateChild(name) PROVE SeedingInv'
    BY <2>1, <2>12, MigrationSparesSeeded, NamesDiffer, MembersFixed DEF MigrateChild
  <2> QED
    BY <2>2, <2>4, <2>5, <2>6, <2>7, <2>8, <2>9, <2>10, <2>11, <2>12 DEF Next
<1> QED
  BY <1>1, <1>2, RangeInvHolds, PTL DEF Spec

(***************************************************************************)
(* A run that succeeds leaves exactly the devices its topology asks for,   *)
(* each with its account, and every user, group and member: whatever       *)
(* earlier runs created with other topologies and wherever they died.      *)
(***************************************************************************)
THEOREM SuccessLeavesAll == Spec => []SuccessIsComplete
<1>1. RangeInv /\ DevicesHaveAccounts /\ UsersInv /\ AgentsInv /\ SeedingInv => SuccessIsComplete
  <2> SUFFICES ASSUME RangeInv, DevicesHaveAccounts, UsersInv, AgentsInv, SeedingInv,
                      stage = "succeeded"
               PROVE  SuccessIsComplete
    BY DEF SuccessIsComplete
  <2>1. /\ topology \in Topologies /\ topology.agents \in Nat
        /\ largest \in Nat /\ devices \subseteq 1 .. largest
    BY LoopCounts DEF RangeInv, TypeOK
  <2>2. devices = 1 .. topology.agents
    <3>1. 1 .. topology.agents \in SUBSET devices
      BY DEF AgentsInv, AgentsUpTo, AfterAgents, AfterEndpointGroups
    <3>2. IsFiniteSet(devices)
      <4>1. devices \in SUBSET (1 .. largest) /\ IsFiniteSet(1 .. largest)
        BY <2>1, FS_Interval
      <4> QED
        BY <4>1, FS_Subset
    <3>3. Cardinality(devices) = Cardinality(1 .. topology.agents)
      BY <2>1, FS_Interval DEF AgentsInv
    <3> QED
      BY <3>1, <3>2, <3>3, FS_Subset
  <2>3. \A k \in DOMAIN UserSpecs : UserSpecs[k] \in users
    BY <2>1, UserSpecsLength
       DEF UsersInv, UsersUpTo, AfterUsers, AfterUserGroups, AfterAdmins, AfterAgents,
           AfterEndpointGroups
  <2> QED
    BY <2>2, <2>3
       DEF SuccessIsComplete, DevicesHaveAccounts, SeedingInv, UserGroupsUpTo,
           EndpointGroupsUpTo, Written, AfterUserGroups, AfterAdmins, AfterAgents,
           AfterEndpointGroups
<1> QED
  BY <1>1, RangeInvHolds, NoDeviceWithoutAccount, UsersInvHolds, AgentsInvHolds,
     SeedingInvHolds, PTL
=============================================================================
