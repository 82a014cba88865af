---------------------- MODULE SnapshotCollectionProofs ----------------------
(***************************************************************************)
(* The safety properties of SnapshotCollection for every set of agents,    *)
(* every expected count and every page size.                               *)
(***************************************************************************)
EXTENDS SnapshotCollection, FiniteSetTheorems, TLAPS

-----------------------------------------------------------------------------
(***************************************************************************)
(* What the invariants need of cardinalities.                              *)
(***************************************************************************)
LEMMA AgentsAreCounted ==
  ASSUME NEW S \in SUBSET Agent
  PROVE  IsFiniteSet(S) /\ Cardinality(S) \in Nat
BY AgentAssumption, FS_Subset, FS_CardinalityType

(***************************************************************************)
(* A part of a set that has as many members as the set may have at most is *)
(* the whole set.                                                          *)
(***************************************************************************)
LEMMA FullPartIsAll ==
  ASSUME NEW T \in SUBSET Agent, NEW S \in SUBSET T,
         Cardinality(S) = Expected, Cardinality(T) <= Expected
  PROVE  S = T
<1>1. IsFiniteSet(T) /\ Cardinality(T) \in Nat
  BY AgentsAreCounted
<1>2. Cardinality(S) <= Cardinality(T)
  BY <1>1, FS_Subset
<1>3. Cardinality(S) = Cardinality(T)
  BY <1>1, <1>2, ExpectedAssumption
<1> QED
  BY <1>1, <1>3, FS_Subset

(***************************************************************************)
(* What a pass verdict says of its reading.                                *)
(***************************************************************************)
LEMMA PassMeansEveryCheck ==
  ASSUME NEW r, NEW errors \in BOOLEAN, Status(r, FALSE, errors) = "pass"
  PROVE  /\ ~ errors
         /\ Cardinality(r.ldap) = Expected
         /\ Cardinality(r.registered) = Expected
         /\ Cardinality(r.connected) = Expected
         /\ Cardinality(r.cAgent) = Expected
         /\ Cardinality(r.domain) = Expected
         /\ r.total = Expected
<1>1. Taxonomy(r, FALSE, errors) = {} /\ FailedChecks(r) = {}
  BY DEF Status
<1>2. ~ errors
  BY <1>1 DEF Taxonomy
<1>3. \A c \in CheckName : Checks(r)[c]
  BY <1>1 DEF FailedChecks
<1>4. /\ "ldap_matches_expected" \in CheckName
      /\ "xmpp_registered_matches_expected" \in CheckName
      /\ "xmpp_connected_matches_expected" \in CheckName
      /\ "c_agent_matches_expected" \in CheckName
      /\ "domain_agent_list_matches_expected" \in CheckName
      /\ "dashboard_total_matches_expected" \in CheckName
  BY DEF CheckName, Checks
<1>5. /\ Checks(r).ldap_matches_expected
      /\ Checks(r).xmpp_registered_matches_expected
      /\ Checks(r).xmpp_connected_matches_expected
      /\ Checks(r).c_agent_matches_expected
      /\ Checks(r).domain_agent_list_matches_expected
      /\ Checks(r).dashboard_total_matches_expected
  BY <1>3, <1>4
<1> QED
  BY <1>2, <1>5 DEF Checks

-----------------------------------------------------------------------------
\* The reading a collection starts from, and falls back to, is one.
LEMMA EmptyReadingIsReading == EmptyReading \in Reading
<1>1. NoCount \in Count
  BY DEF Count
<1> QED
  BY <1>1 DEF EmptyReading, Reading

\* Each step keeps the types.
LEMMA TypesKept == TypeOK /\ [Next]_vars => TypeOK'
<1> SUFFICES ASSUME TypeOK, [Next]_vars PROVE TypeOK'
  OBVIOUS
<1> USE DEF TypeOK
<1>1. ASSUME NEW a \in Agent, ProvisionXmpp(a) \/ ProvisionLdap(a) PROVE TypeOK'
  BY <1>1 DEF ProvisionXmpp, ProvisionLdap, collector, counting
<1>2. ASSUME NEW a \in Agent,
             \/ Connect(a) \/ Disconnect(a)
             \/ RegisterAccepted(a) \/ ReconcileFromLdap(a)
      PROVE TypeOK'
  BY <1>2 DEF Connect, Disconnect, RegisterAccepted, ReconcileFromLdap, collector,
                counting
<1>3. CASE RefreshPresence \/ PresenceLost
  BY <1>3 DEF RefreshPresence, PresenceLost, collector, counting
<1>4. CASE Begin
  BY <1>4, EmptyReadingIsReading DEF Begin, world, counting, Steps
<1>5. Cardinality(ldap) \in Count /\ Cardinality(seen) \in Count
  BY AgentsAreCounted DEF Count
<1>6. CASE SuccessfulRead
  <2>1. ReadTotal => TypeOK'
    BY <1>5 DEF ReadTotal, Goto, Steps, world, counting, Reading
  <2>2. ReadOnline => TypeOK'
    BY <1>5 DEF ReadOnline, Goto, Steps, world, Reading
  <2>6. ListComputers => TypeOK'
    BY DEF ListComputers, Goto, Steps, world
  <2>7. ASSUME NEW a \in Agent, AskPresence(a) PROVE TypeOK'
    BY <2>7 DEF AskPresence, world
  <2>3. ReadDomain => TypeOK'
    BY DEF ReadDomain, Goto, Steps, world, counting, Reading
  <2>4. ReadTree \/ ReadLdap \/ ReadRegistered => TypeOK'
    BY DEF ReadTree, ReadLdap, ReadRegistered, Goto, Steps, world, counting, Reading
  <2>5. ReadConnected \/ ReadCAgent \/ ReadConfig => TypeOK'
    BY DEF ReadConnected, ReadCAgent, ReadConfig, Goto, Steps, world, counting, Reading
  <2> QED
    BY <1>6, <2>1, <2>2, <2>3, <2>4, <2>5, <2>6, <2>7 DEF SuccessfulRead
<1>7. CASE FailedRead
  <2>1. DashboardSwallows => TypeOK'
    BY DEF DashboardSwallows, Steps, world, Reading, Count
  <2>2. AgentListSwallows => TypeOK'
    BY DEF AgentListSwallows, Goto, Steps, world, counting, Reading
  <2>3. ReadRaises => TypeOK'
    BY EmptyReadingIsReading DEF ReadRaises, Steps, world, counting
  <2> QED
    BY <1>7, <2>1, <2>2, <2>3 DEF FailedRead
<1>8. CASE UNCHANGED vars
  BY <1>8 DEF vars, world, counting
<1> QED
  BY <1>1, <1>2, <1>3, <1>4, <1>6, <1>7, <1>8 DEF Next, Platform

(***************************************************************************)
(* Type correctness of the collector and of the facts it reads.            *)
(***************************************************************************)
THEOREM SnapshotTypes == Spec => []TypeOK
<1>1. Init => TypeOK
  BY EmptyReadingIsReading DEF Init, TypeOK, Steps
<1> QED
  BY <1>1, TypesKept, PTL DEF Spec

-----------------------------------------------------------------------------
(***************************************************************************)
(* Every fact about an agent presupposes its account, and what has been    *)
(* read stays true because only sessions are ever taken away.              *)
(***************************************************************************)
FactsNeedAccounts ==
  ldap \subseteq registered /\ connected \subseteq registered
    /\ cAgent \subseteq registered

ReadingStaysTrue ==
  /\ reading.ldap \subseteq ldap
  /\ reading.registered \subseteq registered
  /\ reading.cAgent \subseteq cAgent
  /\ ~ lost => reading.connected \subseteq connected

PassInv == FactsNeedAccounts /\ ReadingStaysTrue

LEMMA PassInvHolds == Spec => []PassInv
<1>1. Init => PassInv
  BY DEF Init, PassInv, FactsNeedAccounts, ReadingStaysTrue, EmptyReading
<1>2. TypeOK /\ PassInv /\ [Next]_vars => PassInv'
  <2> SUFFICES ASSUME TypeOK, PassInv, [Next]_vars PROVE PassInv'
    OBVIOUS
  <2> USE DEF PassInv, FactsNeedAccounts, ReadingStaysTrue
  <2>1. ASSUME NEW a \in Agent, ProvisionXmpp(a) \/ ProvisionLdap(a) PROVE PassInv'
    BY <2>1 DEF ProvisionXmpp, ProvisionLdap, collector
  <2>2. ASSUME NEW a \in Agent,
               \/ Connect(a) \/ Disconnect(a)
               \/ RegisterAccepted(a) \/ ReconcileFromLdap(a)
        PROVE PassInv'
    BY <2>2 DEF Connect, Disconnect, RegisterAccepted, ReconcileFromLdap, collector
  <2>3. CASE RefreshPresence \/ PresenceLost
    BY <2>3 DEF RefreshPresence, PresenceLost, collector
  <2>4. CASE Begin
    BY <2>4 DEF Begin, world, EmptyReading
  <2>5. CASE SuccessfulRead
    <3> USE DEF TypeOK, Reading, Goto, world
    <3>1. ReadTotal \/ ReadOnline \/ ReadTree => PassInv'
      BY DEF ReadTotal, ReadOnline, ReadTree
    <3>2. ReadDomain => PassInv'
      BY DEF ReadDomain
    <3>3. ReadLdap \/ ReadRegistered => PassInv'
      BY DEF ReadLdap, ReadRegistered
    <3>4. ReadConnected \/ ReadCAgent \/ ReadConfig => PassInv'
      BY DEF ReadConnected, ReadCAgent, ReadConfig
    <3>5. ListComputers \/ (\E a \in Agent : AskPresence(a)) => PassInv'
      BY DEF ListComputers, AskPresence
    <3> QED
      BY <2>5, <3>1, <3>2, <3>3, <3>4, <3>5 DEF SuccessfulRead
  <2>6. CASE FailedRead
    <3>1. DashboardSwallows => PassInv'
      BY DEF DashboardSwallows, world, TypeOK, Reading
    <3>2. AgentListSwallows => PassInv'
      BY DEF AgentListSwallows, Goto, world, TypeOK, Reading
    <3>3. ReadRaises => PassInv'
      BY DEF ReadRaises, world, EmptyReading
    <3> QED
      BY <2>6, <3>1, <3>2, <3>3 DEF FailedRead
  <2>7. CASE UNCHANGED vars
    BY <2>7 DEF vars, world
  <2> QED
    BY <2>1, <2>2, <2>3, <2>4, <2>5, <2>6, <2>7 DEF Next, Platform
<1> QED
  BY <1>1, <1>2, SnapshotTypes, PTL DEF Spec

(***************************************************************************)
(* A pass verdict is true of the platform it was collected from, although  *)
(* its surfaces were read one after another while agents came and went.    *)
(***************************************************************************)
THEOREM PassVerdictsAreTrue == Spec => []PassIsTrueOfThePlatform
<1>1. TypeOK /\ PassInv => PassIsTrueOfThePlatform
  <2> SUFFICES ASSUME TypeOK, PassInv, Passed, ~ lost,
                      Cardinality(registered) <= Expected
               PROVE  /\ Cardinality(registered) = Expected
                      /\ ldap = registered /\ connected = registered
                      /\ cAgent = registered
    BY DEF PassIsTrueOfThePlatform
  <2>1. /\ Cardinality(reading.ldap) = Expected
        /\ Cardinality(reading.registered) = Expected
        /\ Cardinality(reading.connected) = Expected
        /\ Cardinality(reading.cAgent) = Expected
    BY PassMeansEveryCheck DEF Passed, verdictStatus, TypeOK
  <2>2. /\ reading.ldap \subseteq registered
        /\ reading.registered \subseteq registered
        /\ reading.connected \subseteq registered
        /\ reading.cAgent \subseteq registered
    BY DEF PassInv, FactsNeedAccounts, ReadingStaysTrue
  <2>3. /\ reading.ldap = registered /\ reading.registered = registered
        /\ reading.connected = registered /\ reading.cAgent = registered
    BY <2>1, <2>2, FullPartIsAll DEF TypeOK
  <2> QED
    BY <2>1, <2>3 DEF PassInv, FactsNeedAccounts, ReadingStaysTrue
<1> QED
  BY <1>1, SnapshotTypes, PassInvHolds, PTL

-----------------------------------------------------------------------------
(***************************************************************************)
(* A hidden failure leaves its mark on the reading until the next          *)
(* collection begins.                                                      *)
(***************************************************************************)
FailureLeavesMark ==
  swallowed =>
    /\ step \notin {"idle", "total", "list", "online"}
    /\ \/ reading.total = NoCount
       \/ step # "domain" /\ reading.domain = {}

LEMMA FailureLeavesMarkHolds == Spec => []FailureLeavesMark
<1>1. Init => FailureLeavesMark
  BY DEF Init, FailureLeavesMark
<1>2. TypeOK /\ FailureLeavesMark /\ [Next]_vars => FailureLeavesMark'
  <2> SUFFICES ASSUME TypeOK, FailureLeavesMark, [Next]_vars
               PROVE  FailureLeavesMark'
    OBVIOUS
  <2> USE DEF FailureLeavesMark
  <2>1. CASE Platform
    BY <2>1 DEF Platform, ProvisionXmpp, ProvisionLdap, Connect, Disconnect,
                RegisterAccepted, ReconcileFromLdap, RefreshPresence, PresenceLost,
                collector
  <2>2. CASE Begin
    BY <2>2 DEF Begin
  <2>3. CASE SuccessfulRead
    <3> USE DEF TypeOK, Reading, Goto
    <3>1. ReadTotal \/ ReadOnline \/ ReadDomain => FailureLeavesMark'
      BY DEF ReadTotal, ReadOnline, ReadDomain
    <3>2. ReadTree \/ ReadLdap \/ ReadRegistered => FailureLeavesMark'
      BY DEF ReadTree, ReadLdap, ReadRegistered
    <3>3. ReadConnected \/ ReadCAgent \/ ReadConfig => FailureLeavesMark'
      BY DEF ReadConnected, ReadCAgent, ReadConfig
    <3>4. ListComputers \/ (\E a \in Agent : AskPresence(a)) => FailureLeavesMark'
      BY DEF ListComputers, AskPresence
    <3> QED
      BY <2>3, <3>1, <3>2, <3>3, <3>4 DEF SuccessfulRead
  <2>4. CASE FailedRead
    <3>1. DashboardSwallows \/ AgentListSwallows => FailureLeavesMark'
      BY DEF DashboardSwallows, AgentListSwallows, Goto, TypeOK, Reading
    <3>2. ReadRaises => FailureLeavesMark'
      BY DEF ReadRaises, EmptyReading
    <3> QED
      BY <2>4, <3>1, <3>2 DEF FailedRead
  <2>5. CASE UNCHANGED vars
    BY <2>5 DEF vars, world
  <2> QED
    BY <2>1, <2>2, <2>3, <2>4, <2>5 DEF Next
<1> QED
  BY <1>1, <1>2, SnapshotTypes, PTL DEF Spec

(***************************************************************************)
(* With at least one expected agent, a collection in which any call failed *)
(* never yields a pass, also when the adapter hid the failure.  (With none *)
(* expected, an agent list lost on the way is what a pass looks like.)     *)
(***************************************************************************)
THEOREM FailedCallsNeverPass ==
  ASSUME Expected # 0
  PROVE  Spec => []FailureNeverPasses
<1>1. TypeOK /\ FailureLeavesMark => FailureNeverPasses
  <2> SUFFICES ASSUME TypeOK, FailureLeavesMark, errored \/ swallowed, Passed
               PROVE  FALSE
    BY DEF FailureNeverPasses
  <2>1. /\ ~ errored
        /\ reading.total = Expected
        /\ Cardinality(reading.domain) = Expected
    BY PassMeansEveryCheck DEF Passed, verdictStatus, TypeOK
  <2>2. Cardinality({}) = 0
    BY FS_EmptySet
  <2>3. swallowed /\ (reading.total = NoCount \/ reading.domain = {})
    BY <2>1 DEF FailureLeavesMark
  <2> QED
    BY <2>1, <2>2, <2>3, ExpectedAssumption DEF NoCount
<1> QED
  BY <1>1, SnapshotTypes, FailureLeavesMarkHolds, PTL

-----------------------------------------------------------------------------
(***************************************************************************)
(* The agent list is one page.  Where more agents are expected than a page *)
(* holds, no collection ever passes, however long the platform has been    *)
(* settled ...                                                             *)
(***************************************************************************)
OnePage == Cardinality(reading.domain) <= PageSize

LEMMA OnePageHolds == Spec => []OnePage
<1> USE DEF OnePage
<1>0. Cardinality(EmptyReading.domain) <= PageSize /\ Cardinality({}) <= PageSize
  BY FS_EmptySet, PageSizeAssumption DEF EmptyReading
<1>1. Init => OnePage
  BY <1>0 DEF Init
<1>2. TypeOK /\ OnePage /\ [Next]_vars => OnePage'
  <2> SUFFICES ASSUME TypeOK, OnePage, [Next]_vars PROVE OnePage'
    OBVIOUS
  <2>1. CASE Platform
    BY <2>1 DEF Platform, ProvisionXmpp, ProvisionLdap, Connect, Disconnect,
                RegisterAccepted, ReconcileFromLdap, RefreshPresence, PresenceLost,
                collector
  <2>2. CASE Begin
    BY <1>0, <2>2 DEF Begin
  <2>3. CASE SuccessfulRead
    <3> USE DEF TypeOK, Reading
    <3>1. ASSUME ReadDomain PROVE OnePage'
      <4>1. PICK page \in SUBSET cAgent :
              /\ Cardinality(page) = IF Cardinality(cAgent) <= PageSize
                                     THEN Cardinality(cAgent) ELSE PageSize
              /\ reading' = [reading EXCEPT !.domain = page]
        BY <3>1 DEF ReadDomain
      <4>2. Cardinality(cAgent) \in Nat
        BY AgentsAreCounted
      <4>3. Cardinality(page) <= PageSize
        BY <4>1, <4>2, PageSizeAssumption
      <4> QED
        BY <4>1, <4>3
    <3>2. ReadTotal \/ ReadOnline \/ ReadTree \/ ReadLdap => OnePage'
      BY DEF ReadTotal, ReadOnline, ReadTree, ReadLdap
    <3>3. ReadRegistered \/ ReadConnected \/ ReadCAgent \/ ReadConfig => OnePage'
      BY DEF ReadRegistered, ReadConnected, ReadCAgent, ReadConfig
    <3>4. ListComputers \/ (\E a \in Agent : AskPresence(a)) => OnePage'
      BY DEF ListComputers, AskPresence
    <3> QED
      BY <2>3, <3>1, <3>2, <3>3, <3>4 DEF SuccessfulRead
  <2>4. CASE FailedRead
    BY <1>0, <2>4 DEF FailedRead, DashboardSwallows, AgentListSwallows, ReadRaises, TypeOK,
                      Reading
  <2>5. CASE UNCHANGED vars
    BY <2>5 DEF vars
  <2> QED
    BY <2>1, <2>2, <2>3, <2>4, <2>5 DEF Next
<1> QED
  BY <1>1, <1>2, SnapshotTypes, PTL DEF Spec

(***************************************************************************)
(* With more agents expected than the first page of the agent list holds,  *)
(* no collection is ever a pass, whatever the platform does.               *)
(***************************************************************************)
THEOREM MoreThanAPageNeverPass ==
  ASSUME PageSize < Expected
  PROVE  Spec => []~ Passed
<1>1. TypeOK /\ OnePage => ~ Passed
  <2> SUFFICES ASSUME TypeOK, OnePage, Passed PROVE FALSE
    OBVIOUS
  <2>1. Cardinality(reading.domain) = Expected
    BY PassMeansEveryCheck DEF Passed, verdictStatus, TypeOK
  <2> QED
    BY <2>1, ExpectedAssumption, PageSizeAssumption DEF OnePage
<1> QED
  BY <1>1, SnapshotTypes, OnePageHolds, PTL

(***************************************************************************)
(* ... and where one page is enough, a collection begun over a settled     *)
(* platform, of which no call fails and that is not disturbed, passes.     *)
(* Together with the fairness of the collector this is                     *)
(* SettledIsRecognised.                                                    *)
(***************************************************************************)
SettledStart ==
  TypeOK /\ Settled /\ presence = connected /\ CallsSucceed /\ step = "total"

Undisturbed == Begin \/ SuccessfulRead \/ RefreshPresence

UpTo(s) ==
  CASE s = "total"      -> {}
    [] s \in {"list", "online"} -> {"total"}
    [] s = "domain"     -> {"total", "online"}
    [] s = "tree"       -> {"total", "online", "domain"}
    [] s = "ldap"       -> {"total", "online", "domain", "tree"}
    [] s = "registered" -> {"total", "online", "domain", "tree", "ldap"}
    [] s = "connected"  -> {"total", "online", "domain", "tree", "ldap", "registered"}
    [] s = "cAgent"     -> {"total", "online", "domain", "tree", "ldap", "registered",
                            "connected"}
    [] OTHER            -> {"total", "online", "domain", "tree", "ldap", "registered",
                            "connected", "cAgent"}

ReadAsItIs ==
  \A field \in UpTo(step) :
    reading[field] = IF field \in {"total", "online"} THEN Expected ELSE registered

\* Entries not asked yet and entries counted are all of them together.
CountedAsItIs == step = "online" => listed \cup seen = registered

SettledInv ==
  /\ TypeOK /\ Settled /\ presence = connected /\ CallsSucceed /\ step # "idle"
  /\ ReadAsItIs /\ CountedAsItIs

LEMMA UndisturbedReads ==
  ASSUME SettledInv, Expected <= PageSize, SuccessfulRead
  PROVE  /\ ReadAsItIs' /\ CountedAsItIs' /\ step' # "idle"
         /\ UNCHANGED <<world, errored, swallowed>>
<1> USE DEF SettledInv, ReadAsItIs, CountedAsItIs, TypeOK, Reading, Goto, Settled, UpTo
<1>1. CASE ReadTotal
  BY <1>1 DEF ReadTotal, world
<1>2. CASE ReadOnline
  <2>1. seen = registered
    BY <1>2 DEF ReadOnline
  <2> QED
    BY <1>2, <2>1 DEF ReadOnline, world
<1>3. CASE ReadDomain
  <2>1. PICK page \in SUBSET cAgent :
          /\ Cardinality(page) = IF Cardinality(cAgent) <= PageSize
                                 THEN Cardinality(cAgent) ELSE PageSize
          /\ reading' = [reading EXCEPT !.domain = page]
    BY <1>3 DEF ReadDomain
  <2>2. Cardinality(page) = Expected
    BY <2>1
  <2>3. page = registered
    <3>1. page \in SUBSET registered /\ registered \in SUBSET Agent
      OBVIOUS
    <3>2. Cardinality(registered) <= Expected
      BY ExpectedAssumption
    <3> QED
      BY <2>2, <3>1, <3>2, FullPartIsAll
  <2> QED
    BY <1>3, <2>1, <2>3 DEF ReadDomain, world
<1>4. CASE ReadTree
  BY <1>4 DEF ReadTree, world
<1>5. CASE ReadLdap
  BY <1>5 DEF ReadLdap, world
<1>6. CASE ReadRegistered
  BY <1>6 DEF ReadRegistered, world
<1>7. CASE ReadConnected
  BY <1>7 DEF ReadConnected, world
<1>8. CASE ReadCAgent
  BY <1>8 DEF ReadCAgent, world
<1>9. CASE ReadConfig
  BY <1>9 DEF ReadConfig, world
<1>10. CASE ListComputers
  BY <1>10 DEF ListComputers, world
<1>11. ASSUME NEW a \in Agent, AskPresence(a)
       PROVE  /\ ReadAsItIs' /\ CountedAsItIs' /\ step' # "idle"
              /\ UNCHANGED <<world, errored, swallowed>>
  <2>1. a \in listed /\ a \in presence /\ listed' = listed \ {a} /\ seen' = seen \cup {a}
    BY <1>11 DEF AskPresence
  <2>2. listed' \cup seen' = registered
    BY <1>11, <2>1 DEF AskPresence
  <2> QED
    BY <1>11, <2>2 DEF AskPresence, world
<1> QED
  BY <1>1, <1>2, <1>3, <1>4, <1>5, <1>6, <1>7, <1>8, <1>9, <1>10, <1>11 DEF SuccessfulRead

LEMMA ReadAsItIsPasses ==
  ASSUME SettledInv, step = "done"
  PROVE  Passed
<1>1. /\ reading.total = Expected /\ reading.online = Expected
      /\ reading.domain = registered /\ reading.tree = registered
      /\ reading.ldap = registered /\ reading.registered = registered
      /\ reading.connected = registered /\ reading.cAgent = registered
  BY DEF SettledInv, ReadAsItIs, UpTo
<1>2. Cardinality(registered) = Expected
  BY DEF SettledInv, Settled
<1>3. FailedChecks(reading) = {}
  <2>1. SUFFICES ASSUME NEW c \in CheckName PROVE Checks(reading)[c]
    BY DEF FailedChecks
  <2>2. /\ Checks(reading).ldap_matches_expected
        /\ Checks(reading).xmpp_registered_matches_expected
        /\ Checks(reading).xmpp_connected_matches_expected
        /\ Checks(reading).c_agent_matches_expected
        /\ Checks(reading).domain_agent_list_matches_expected
        /\ Checks(reading).computer_tree_matches_expected
    BY <1>1, <1>2 DEF Checks
  <2>3. /\ Checks(reading).dashboard_total_matches_expected
        /\ Checks(reading).dashboard_online_matches_xmpp_connected
        /\ Checks(reading).ldap_matches_xmpp_registered
        /\ Checks(reading).ldap_matches_c_agent
        /\ Checks(reading).c_agent_matches_domain_agent_list
        /\ Checks(reading).c_agent_matches_computer_tree
    BY <1>1, <1>2 DEF Checks
  <2>4. c \in {"ldap_matches_expected", "xmpp_registered_matches_expected", "xmpp_connected_matches_expected",
              "c_agent_matches_expected", "domain_agent_list_matches_expected", "computer_tree_matches_expected",
              "dashboard_total_matches_expected", "dashboard_online_matches_xmpp_connected",
              "ldap_matches_xmpp_registered", "ldap_matches_c_agent",
              "c_agent_matches_domain_agent_list", "c_agent_matches_computer_tree"}
    BY <2>1 DEF CheckName, Checks
  <2> QED
    BY <2>2, <2>3, <2>4
<1>4. ~ errored
  BY DEF SettledInv, CallsSucceed
<1> QED
  BY <1>3, <1>4 DEF Passed, verdictStatus, Status, Taxonomy

(***************************************************************************)
(* A collection begun over a settled platform, whose calls succeed and     *)
(* that only the presence refresh accompanies, is a pass when it is done.  *)
(***************************************************************************)
THEOREM SettledCollectionsPass ==
  ASSUME Expected <= PageSize
  PROVE  (SettledStart /\ [][Undisturbed]_vars) => [](step = "done" => Passed)
<1>1. SettledStart => SettledInv
  BY DEF SettledStart, SettledInv, ReadAsItIs, CountedAsItIs, UpTo
<1>2. SettledInv /\ [Undisturbed]_vars => SettledInv'
  <2> SUFFICES ASSUME SettledInv, [Undisturbed]_vars PROVE SettledInv'
    OBVIOUS
  <2>1. TypeOK'
    BY TypesKept DEF SettledInv, Undisturbed, Next, Platform
  <2>2. CASE SuccessfulRead
    BY <2>1, <2>2, UndisturbedReads DEF SettledInv, Settled, CallsSucceed, world
  <2>3. CASE Begin
    BY <2>1, <2>3 DEF Begin, SettledInv, Settled, CallsSucceed, world, ReadAsItIs, UpTo,
                         CountedAsItIs
  <2>4. CASE RefreshPresence
    BY <2>4 DEF RefreshPresence, SettledInv
  <2>5. CASE UNCHANGED vars
    BY <2>1, <2>5 DEF vars, world, counting, SettledInv, Settled, CallsSucceed, ReadAsItIs,
                         CountedAsItIs
  <2> QED
    BY <2>2, <2>3, <2>4, <2>5 DEF Undisturbed
<1>3. SettledInv => (step = "done" => Passed)
  BY ReadAsItIsPasses
<1> QED
  BY <1>1, <1>2, <1>3, PTL
=============================================================================
