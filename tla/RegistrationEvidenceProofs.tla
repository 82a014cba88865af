--------------------- MODULE RegistrationEvidenceProofs ---------------------
(***************************************************************************)
(* Safety of the registration orchestrator for every timeout, backoff and  *)
(* set of readings: type correctness, one run per event file, and the      *)
(* refinement of the event log its readers are promised.                   *)
(***************************************************************************)
EXTENDS EvidenceValidator, FiniteSetTheorems, WellFoundedInduction, TLAPS

LEMMA SmallerIsOne ==
  ASSUME NEW m \in Nat, NEW n \in Nat
  PROVE  /\ Smaller(m, n) \in Nat
         /\ Smaller(m, n) <= m /\ Smaller(m, n) <= n
         /\ Smaller(m, n) \in {m, n}
BY DEF Smaller

(***************************************************************************)
(* Records built by the code have the types of the files they go to.       *)
(***************************************************************************)
LEMMA EmptyReadingIsReading == EmptyReading \in Reading
<1>1. NoCount \in Count
  BY DEF Count
<1> QED
  BY <1>1 DEF EmptyReading, Reading

LEMMA VerdictOfIsVerdict ==
  ASSUME TypeOK, NEW r \in Reading, NEW errs \in BOOLEAN, NEW at \in Nat
  PROVE  VerdictOf(r, errs, at) \in Verdict
<1> DEFINE timedOut == phase = "timeout"
<1>1. Status(r, timedOut, errs) \in Result
  BY DEF Status, Result
<1>2. FailedChecks(r) \in SUBSET CheckName
  BY DEF FailedChecks
<1>3. Taxonomy(r, timedOut, errs) \in SUBSET Code
  BY DEF Taxonomy, Code
<1>4. manifest.runId \in Nat
  BY DEF TypeOK, Manifest
<1> QED
  BY <1>1, <1>2, <1>3, <1>4 DEF VerdictOf, Verdict

LEMMA NewManifestIsManifest ==
  ASSUME NEW id \in Nat, NEW at \in Nat
  PROVE  NewManifest(id, at) \in Manifest
BY DEF NewManifest, Manifest

LEMMA NoVerdictIsVerdict == NoVerdict \in Verdict
BY EmptyReadingIsReading DEF NoVerdict, Verdict, Result

-----------------------------------------------------------------------------
LEMMA DeliverTypes ==
  ASSUME TypeOK, NEW v \in Verdict, Deliver(v)
  PROVE  /\ attempt' \in Nat /\ elapsed' \in 0 .. Timeout
         /\ verdict' \in Verdict /\ manifest' \in Manifest
         /\ pc' \in Locations
<1>1. attempt' \in Nat
  BY DEF Deliver, TypeOK
<1>2. elapsed' \in 0 .. Timeout
  BY TimingAssumption DEF Deliver, TypeOK
<1>3. manifest' \in Manifest
  BY <1>1 DEF Deliver, TypeOK, Manifest, Verdict
<1> QED
  BY <1>1, <1>2, <1>3 DEF Deliver, Locations, JsonFile

LEMMA FillTypes ==
  ASSUME TypeOK, pc \in WriteStep
  PROVE  /\ FileAt(pc) \in JsonFile
         /\ Payload(pc) \in FileContent(FileAt(pc))
         /\ Torn \in FileContent(FileAt(pc))
         /\ After(pc) \in Locations
<1> USE DEF TypeOK
<1>1. FailureSummary(manifest.runId, verdict) \in Summary
  BY DEF FailureSummary, Summary, Verdict, Manifest
<1>2. CASE pc \in {"init", "manifest"}
  BY <1>2 DEF FileAt, Payload, FileContent, After, JsonFile, Locations
<1>3. CASE pc = "summary"
  BY <1>1, <1>3 DEF FileAt, Payload, FileContent, After, JsonFile, Locations
<1>4. CASE pc \in {"verdict", "snapshot"}
  BY <1>4 DEF FileAt, Payload, FileContent, After, JsonFile, Locations
<1> QED
  BY <1>2, <1>3, <1>4 DEF WriteStep, JsonFile

LEMMA AppendTypes ==
  ASSUME TypeOK, AppendEvent
  PROVE  events' \in Seq(Event)
<1>1. EventOf(manifest.runId, attempt, phase, verdict) \in Event
  BY DEF TypeOK, EventOf, Event, Manifest, Verdict
<1> QED
  BY <1>1 DEF TypeOK, AppendEvent

(***************************************************************************)
(* Type correctness of the orchestrator's memory and of the files.         *)
(***************************************************************************)
THEOREM OrchestratorTypes == Spec => []TypeOK
<1> USE DEF memory
<1>1. Init => TypeOK
  <2> SUFFICES ASSUME Init PROVE TypeOK
    OBVIOUS
  <2>1. manifest \in Manifest /\ verdict \in Verdict
    BY NewManifestIsManifest, NoVerdictIsVerdict DEF Init
  <2>2. elapsed \in 0 .. Timeout /\ backoff \in MinBackoff .. MaxBackoff
    BY TimingAssumption DEF Init
  <2>3. DOMAIN disk = JsonFile /\ \A f \in JsonFile : disk[f] \in FileContent(f)
    BY DEF Init, FileContent
  <2>4. events \in Seq(Event)
    BY DEF Init
  <2> QED
    BY <2>1, <2>2, <2>3, <2>4 DEF Init, TypeOK, Locations, Phase
<1>2. TypeOK /\ [Next]_vars => TypeOK'
  <2> SUFFICES ASSUME TypeOK, [Next]_vars PROVE TypeOK'
    OBVIOUS
  <2>1. CASE Boot
    BY <2>1, NewManifestIsManifest DEF Boot, TypeOK, Locations
  <2>2. CASE TruncateEvents
    BY <2>2 DEF TruncateEvents, TypeOK, Locations
  <2>3. CASE OpenFile
    BY <2>3, FillTypes DEF OpenFile, TypeOK
  <2>4. CASE FillFile
    BY <2>4, FillTypes DEF FillFile, TypeOK
  <2>5. CASE AppendEvent
    BY <2>5, AppendTypes DEF AppendEvent, TypeOK, Locations
  <2>6. ASSUME NEW r \in Readings, CollectSucceeds(r) PROVE TypeOK'
    <3>1. VerdictOf(r, FALSE, stamp + 1) \in Verdict
      <4>1. r \in Reading /\ stamp + 1 \in Nat
        BY ReadingsAssumption DEF TypeOK
      <4> QED
        BY <4>1, VerdictOfIsVerdict
    <3>2. Deliver(VerdictOf(r, FALSE, stamp + 1))
      BY <2>6 DEF CollectSucceeds
    <3>3. /\ attempt' \in Nat /\ elapsed' \in 0 .. Timeout
          /\ verdict' \in Verdict /\ manifest' \in Manifest
          /\ pc' \in Locations
      BY <3>1, <3>2, DeliverTypes
    <3> QED
      BY <2>6, <3>3 DEF CollectSucceeds, TypeOK
  <2>7. CASE CollectRaises
    <3>1. VerdictOf(EmptyReading, TRUE, manifest.startedAt) \in Verdict
      <4>1. manifest.startedAt \in Nat
        BY DEF TypeOK, Manifest
      <4> QED
        BY <4>1, VerdictOfIsVerdict, EmptyReadingIsReading
    <3>2. Deliver(VerdictOf(EmptyReading, TRUE, manifest.startedAt))
      BY <2>7 DEF CollectRaises
    <3>3. /\ attempt' \in Nat /\ elapsed' \in 0 .. Timeout
          /\ verdict' \in Verdict /\ manifest' \in Manifest
          /\ pc' \in Locations
      BY <3>1, <3>2, DeliverTypes
    <3> QED
      BY <2>7, <3>3 DEF CollectRaises, TypeOK
  <2>8. CASE SettlePassed \/ DeadlinePassed \/ TimeoutRecorded
    BY <2>8 DEF SettlePassed, DeadlinePassed, TimeoutRecorded, EnterPhase, TypeOK,
                Phase, Locations
  <2>9. CASE GoToSleep \/ WakeToObserve
    BY <2>9 DEF GoToSleep, WakeToObserve, TypeOK, Locations
  <2>10. CASE WakeToSettle
    <3>1. elapsed' \in 0 .. Timeout
      <4>1. elapsed + backoff \in Nat /\ Timeout \in Nat
        BY TimingAssumption DEF TypeOK
      <4>2. Smaller(elapsed + backoff, Timeout) \in Nat
        BY <4>1, SmallerIsOne
      <4> QED
        BY <2>10, <4>1, <4>2 DEF WakeToSettle
    <3>2. backoff' \in MinBackoff .. MaxBackoff
      BY <2>10, TimingAssumption DEF WakeToSettle, TypeOK, Smaller
    <3> QED
      BY <2>10, <3>1, <3>2 DEF WakeToSettle, TypeOK, Locations
  <2>11. CASE Crash
    <3>1. manifest' \in Manifest /\ verdict' \in Verdict
      BY <2>11, NewManifestIsManifest, NoVerdictIsVerdict DEF Crash, ForgetMemory
    <3>2. elapsed' \in 0 .. Timeout /\ backoff' \in MinBackoff .. MaxBackoff
      BY <2>11, TimingAssumption DEF Crash, ForgetMemory
    <3> QED
      BY <2>11, <3>1, <3>2 DEF Crash, ForgetMemory, TypeOK, Locations, Phase
  <2>12. CASE UNCHANGED vars
    BY <2>12 DEF vars, TypeOK
  <2> QED
    BY <2>1, <2>2, <2>3, <2>4, <2>5, <2>6, <2>7, <2>8, <2>9, <2>10, <2>11, <2>12
       DEF Next, Process
<1> QED
  BY <1>1, <1>2, PTL DEF Spec
-----------------------------------------------------------------------------
(***************************************************************************)
(* What every event and the manifest file say of the run, by where the     *)
(* process stands: between the truncation of the log and the first write   *)
(* of the manifest the file may still be of an earlier run, but then there *)
(* are no events.                                                          *)
(***************************************************************************)
EventsAreOfThisRun ==
  pc \notin {"down", "truncate"} =>
    \A i \in DOMAIN events : events[i].runId = manifest.runId

ManifestFileIsOfThisRun ==
  (pc \notin {"down", "truncate", "init"} /\ Readable(disk["manifest"])) =>
    disk["manifest"].runId = manifest.runId

NoEventsBeforeManifest == pc = "init" => events = <<>>

RunInv ==
  /\ EventsAreOfThisRun /\ ManifestFileIsOfThisRun /\ NoEventsBeforeManifest
  /\ EventsAreOfTheManifestsRun

LEMMA RunInvHolds == Spec => []RunInv
<1> USE DEF RunInv, EventsAreOfThisRun, ManifestFileIsOfThisRun,
            NoEventsBeforeManifest, EventsAreOfTheManifestsRun
<1>1. Init => RunInv
  BY DEF Init, Readable
<1>2. TypeOK /\ RunInv /\ [Next]_vars => RunInv'
  <2> SUFFICES ASSUME TypeOK, RunInv, [Next]_vars PROVE RunInv'
    OBVIOUS
  <2>1. CASE Boot
    BY <2>1 DEF Boot, Readable
  <2>2. CASE TruncateEvents
    BY <2>2 DEF TruncateEvents, memory, Readable
  <2>3. CASE OpenFile
    <3>1. DOMAIN disk = JsonFile /\ FileAt(pc) \in JsonFile
      BY <2>3, FillTypes DEF OpenFile, TypeOK
    <3>2. disk'["manifest"] \in {disk["manifest"], Torn}
      BY <2>3, <3>1 DEF OpenFile, JsonFile
    <3> QED
      BY <2>3, <3>2 DEF OpenFile, memory, Readable, WriteStep, JsonFile
  <2>4. CASE FillFile
    <3>1. DOMAIN disk = JsonFile /\ FileAt(pc) \in JsonFile
      BY <2>4, FillTypes DEF FillFile, TypeOK
    <3>2. CASE pc \in {"init", "manifest"}
      <4>1. disk'["manifest"] = manifest /\ pc' \in {"collect", "verdict"}
        BY <2>4, <3>1, <3>2 DEF FillFile, FileAt, Payload, After
      <4> QED
        BY <2>4, <3>2, <4>1 DEF FillFile, memory, Readable
    <3>3. CASE pc \in {"verdict", "summary", "snapshot"}
      <4>1. disk'["manifest"] = disk["manifest"]
            /\ pc' \in {"summary", "snapshot", "event"}
        BY <2>4, <3>1, <3>3 DEF FillFile, FileAt, After
      <4> QED
        BY <2>4, <3>3, <4>1 DEF FillFile, memory, Readable
    <3> QED
      BY <2>4, <3>2, <3>3 DEF FillFile, WriteStep, JsonFile
  <2>5. CASE AppendEvent
    <3>1. EventOf(manifest.runId, attempt, phase, verdict).runId = manifest.runId
      BY DEF EventOf
    <3>2. \A i \in DOMAIN events' : events'[i].runId = manifest.runId
      BY <2>5, <3>1 DEF AppendEvent, TypeOK
    <3> QED
      BY <2>5, <3>2 DEF AppendEvent, memory, Readable
  <2>6. ASSUME NEW r \in Readings, CollectSucceeds(r) PROVE RunInv'
    BY <2>6 DEF CollectSucceeds, Deliver, TypeOK, Manifest, Readable
  <2>7. CASE CollectRaises
    BY <2>7 DEF CollectRaises, Deliver, TypeOK, Manifest, Readable
  <2>8. CASE SettlePassed \/ DeadlinePassed \/ TimeoutRecorded
    BY <2>8 DEF SettlePassed, DeadlinePassed, TimeoutRecorded, EnterPhase, Readable
  <2>9. CASE GoToSleep \/ WakeToSettle \/ WakeToObserve
    BY <2>9 DEF GoToSleep, WakeToSettle, WakeToObserve, memory, Readable
  <2>10. CASE Crash
    BY <2>10 DEF Crash, Readable
  <2>11. CASE UNCHANGED vars
    BY <2>11 DEF vars, memory, Readable
  <2> QED
    BY <2>1, <2>2, <2>3, <2>4, <2>5, <2>6, <2>7, <2>8, <2>9, <2>10, <2>11
       DEF Next, Process
<1> QED
  BY <1>1, <1>2, OrchestratorTypes, PTL DEF Spec

(***************************************************************************)
(* Whatever crashes and restarts there are, a reader never finds events of *)
(* one run beside the manifest of another.                                 *)
(***************************************************************************)
THEOREM OneRunPerEventFile == Spec => []EventsAreOfTheManifestsRun
<1>1. RunInv => EventsAreOfTheManifestsRun
  BY DEF RunInv
<1> QED
  BY <1>1, RunInvHolds, PTL
-----------------------------------------------------------------------------
(***************************************************************************)
(* Which record may be appended next, told from the last one.              *)
(***************************************************************************)
LastEvent == events[Len(events)]

Continues(n) ==
  IF events = <<>> THEN phase = "settle" /\ n = 1
  ELSE /\ LastEvent.runId = manifest.runId
       /\ \/ /\ LastEvent.phase = "settle" /\ LastEvent.status = "fail"
             /\ \/ phase = "settle"  /\ n = LastEvent.attempt + 1
                \/ phase = "timeout" /\ n = LastEvent.attempt
          \/ /\ LastEvent.phase # "settle" \/ LastEvent.status = "pass"
             /\ phase = "steady-state" /\ n = LastEvent.attempt + 1

NextAttempt == IF phase = "timeout" THEN attempt ELSE attempt + 1

\* The last record is the one of the cycle that has just ended.
LastEventIsOfThisCycle ==
  /\ events # <<>>
  /\ LastEvent.runId = manifest.runId /\ LastEvent.attempt = attempt
  /\ LastEvent.phase = phase /\ LastEvent.status = verdict.status

LogInv ==
  /\ pc \in {"down", "truncate", "init"} => phase = "settle" /\ attempt = 0
  /\ pc = "init" => events = <<>>
  /\ pc = "collect" => Continues(NextAttempt)
  /\ pc \in JsonFile \cup {"event"} => Continues(attempt)
  /\ pc \in {"decide", "sleep"} => LastEventIsOfThisCycle
  /\ pc = "sleep" => /\ phase # "timeout"
                     /\ phase = "settle" => verdict.status = "fail"

LEMMA LogInvHolds == Spec => []LogInv
<1> USE DEF LogInv, Continues, NextAttempt, LastEventIsOfThisCycle, LastEvent
<1>1. Init => LogInv
  BY DEF Init, JsonFile
<1>2. TypeOK /\ LogInv /\ [Next]_vars => LogInv'
  <2> SUFFICES ASSUME TypeOK, LogInv, [Next]_vars PROVE LogInv'
    OBVIOUS
  <2> USE DEF JsonFile
  <2>1. CASE Boot
    BY <2>1 DEF Boot
  <2>2. CASE TruncateEvents
    BY <2>2 DEF TruncateEvents, memory
  <2>3. CASE OpenFile
    BY <2>3 DEF OpenFile, memory, WriteStep
  <2>4. CASE FillFile
    <3>1. CASE pc = "init"
      BY <2>4, <3>1 DEF FillFile, memory, After
    <3>2. CASE pc \in JsonFile
      BY <2>4, <3>2 DEF FillFile, memory, After
    <3> QED
      BY <2>4, <3>1, <3>2 DEF FillFile, WriteStep
  <2>5. CASE AppendEvent
    <3> DEFINE e == EventOf(manifest.runId, attempt, phase, verdict)
    <3>1. /\ e.runId = manifest.runId /\ e.attempt = attempt
          /\ e.phase = phase /\ e.status = verdict.status
      BY DEF EventOf
    <3>2. events' # <<>> /\ events'[Len(events')] = e
      BY <2>5, AppendTypes DEF AppendEvent, TypeOK
    <3> HIDE DEF e
    <3> QED
      BY <2>5, <3>1, <3>2 DEF AppendEvent, memory
  <2>6. ASSUME NEW v \in Verdict, pc = "collect", Deliver(v), UNCHANGED <<phase, events>>
        PROVE  LogInv'
    <3>1. attempt' = NextAttempt /\ pc' = "manifest" /\ manifest'.runId = manifest.runId
      BY <2>6 DEF Deliver, TypeOK, Manifest
    <3> QED
      BY <2>6, <3>1
  <2>7. ASSUME NEW r \in Readings, CollectSucceeds(r) PROVE LogInv'
    <3>1. r \in Reading /\ stamp + 1 \in Nat
      BY ReadingsAssumption DEF TypeOK
    <3>2. VerdictOf(r, FALSE, stamp + 1) \in Verdict
      BY <3>1, VerdictOfIsVerdict
    <3> QED
      BY <2>6, <2>7, <3>2 DEF CollectSucceeds
  <2>8. CASE CollectRaises
    <3>1. manifest.startedAt \in Nat
      BY DEF TypeOK, Manifest
    <3>2. VerdictOf(EmptyReading, TRUE, manifest.startedAt) \in Verdict
      BY <3>1, VerdictOfIsVerdict, EmptyReadingIsReading
    <3> QED
      BY <2>6, <2>8, <3>2 DEF CollectRaises
  <2>9. CASE SettlePassed \/ DeadlinePassed \/ TimeoutRecorded
    BY <2>9 DEF SettlePassed, DeadlinePassed, TimeoutRecorded, EnterPhase
  <2>10. CASE GoToSleep
    BY <2>10 DEF GoToSleep, memory
  <2>11. CASE WakeToSettle \/ WakeToObserve
    BY <2>11 DEF WakeToSettle, WakeToObserve, memory
  <2>12. CASE Crash
    BY <2>12 DEF Crash, ForgetMemory
  <2>13. CASE UNCHANGED vars
    BY <2>13 DEF vars, memory
  <2> QED
    BY <2>1, <2>2, <2>3, <2>4, <2>5, <2>7, <2>8, <2>9, <2>10, <2>11, <2>12, <2>13
       DEF Next, Process
<1> QED
  BY <1>1, <1>2, OrchestratorTypes, PTL DEF Spec

(***************************************************************************)
(* The orchestrator, with its crashes and restarts, implements the event   *)
(* log: every step empties the log, appends the one record that may follow *)
(* or leaves the log alone.                                                *)
(***************************************************************************)
THEOREM OrchestratorImplementsLog == Spec => ImplementsLog
<1>1. Init => Log!Init
  BY DEF Init, Log!Init
<1>2. TypeOK /\ LogInv /\ [Next]_vars => [Log!Next]_events
  <2> SUFFICES ASSUME TypeOK, LogInv, [Next]_vars, events' # events
               PROVE  Log!Next
    OBVIOUS
  <2>1. CASE TruncateEvents
    BY <2>1 DEF TruncateEvents, Log!Next, Log!Restart
  <2>2. CASE AppendEvent
    <3> DEFINE e == EventOf(manifest.runId, attempt, phase, verdict)
    <3>1. /\ e.runId = manifest.runId /\ e.attempt = attempt
          /\ e.phase = phase /\ e.status = verdict.status
      BY DEF EventOf
    <3> HIDE DEF e
    <3>2. events' = Append(events, e) /\ Continues(attempt)
      BY <2>2 DEF AppendEvent, LogInv, e
    <3>3. /\ Len(events') = Len(events) + 1
          /\ \A i \in 1 .. Len(events) : events'[i] = events[i]
          /\ events'[Len(events')] = e
      BY <3>2 DEF TypeOK
    <3>4. CASE events = <<>>
      <4>1. Len(events') = 1 /\ events'[1] = e
        BY <3>3, <3>4
      <4>2. Log!First(e)
        BY <3>1, <3>2, <3>4 DEF Continues, Log!First
      <4> QED
        BY <3>3, <3>4, <4>1, <4>2 DEF Log!Next, Log!Record
    <3>5. CASE events # <<>>
      <4>1. Log!Follows(LastEvent, e)
        BY <3>1, <3>2, <3>5 DEF Continues, Log!Follows
      <4> QED
        BY <3>3, <3>5, <4>1 DEF Log!Next, Log!Record, LastEvent
    <3> QED
      BY <3>4, <3>5
  <2> QED
    BY <2>1, <2>2
       DEF Next, Process, Boot, OpenFile, FillFile, CollectSucceeds, CollectRaises,
           SettlePassed, DeadlinePassed, TimeoutRecorded, EnterPhase, GoToSleep,
           WakeToSettle, WakeToObserve, Crash, vars
<1> QED
  BY <1>1, <1>2, OrchestratorTypes, LogInvHolds, PTL
     DEF Spec, ImplementsLog, Log!Spec

-----------------------------------------------------------------------------
(***************************************************************************)
(* What evaluate_snapshot returns: the state reported as highest is one    *)
(* that was reached, and a pass is one of all checks.                      *)
(***************************************************************************)
LEMMA HighestIsReached ==
  ASSUME NEW reached \in SUBSET AgentState
  PROVE  HighestState(reached) \in reached \cup {"missing"}
<1> DEFINE IsLast(k) ==
      /\ StateOrder[k] \in reached
      /\ \A j \in DOMAIN StateOrder : StateOrder[j] \in reached => j <= k
<1>1. DOMAIN StateOrder = 1 .. 6
  BY DEF StateOrder
<1>2. ASSUME reached # {} PROVE \E k \in DOMAIN StateOrder : IsLast(k)
  <2>1. \E k \in 1 .. 6 : StateOrder[k] \in reached
    BY <1>1, <1>2 DEF AgentState
  <2> HIDE DEF IsLast
  <2>2. StateOrder[6] \in reached => IsLast(6)
    BY <1>1 DEF IsLast
  <2>3. StateOrder[5] \in reached => IsLast(5) \/ StateOrder[6] \in reached
    BY <1>1 DEF IsLast
  <2>4. StateOrder[4] \in reached =>
          IsLast(4) \/ StateOrder[5] \in reached \/ StateOrder[6] \in reached
    BY <1>1 DEF IsLast
  <2>5. StateOrder[3] \in reached =>
          IsLast(3) \/ \E k \in 4 .. 6 : StateOrder[k] \in reached
    BY <1>1 DEF IsLast
  <2>6. StateOrder[2] \in reached =>
          IsLast(2) \/ \E k \in 3 .. 6 : StateOrder[k] \in reached
    BY <1>1 DEF IsLast
  <2>7. StateOrder[1] \in reached =>
          IsLast(1) \/ \E k \in 2 .. 6 : StateOrder[k] \in reached
    BY <1>1 DEF IsLast
  <2> QED
    BY <1>1, <2>1, <2>2, <2>3, <2>4, <2>5, <2>6, <2>7
<1>3. CASE reached = {}
  BY <1>3 DEF HighestState
<1>4. CASE reached # {}
  BY <1>2, <1>4 DEF HighestState
<1> QED
  BY <1>3, <1>4

LEMMA PassHasNoFailure ==
  ASSUME NEW r, NEW timedOut \in BOOLEAN, NEW errs \in BOOLEAN,
         Status(r, timedOut, errs) = "pass"
  PROVE  FailedChecks(r) = {} /\ Taxonomy(r, timedOut, errs) = {} /\ ~ errs
BY DEF Status, Taxonomy

LEMMA ChecksOfPass ==
  ASSUME NEW r, FailedChecks(r) = {}
  PROVE  /\ Cardinality(r.ldap) = Expected /\ Cardinality(r.connected) = Expected
         /\ r.ldap = r.registered /\ r.ldap = r.cAgent
         /\ r.cAgent = r.domain /\ r.cAgent = r.tree
<1>1. \A c \in CheckName : Checks(r)[c]
  BY DEF FailedChecks
<1> QED
  BY <1>1 DEF CheckName, Checks

(***************************************************************************)
(* With no agent expected a pass lists no identity at all.                 *)
(***************************************************************************)
LEMMA EmptyPassListsNobody ==
  ASSUME NEW r \in Reading, FailedChecks(r) = {}, Expected = 0
  PROVE  Cardinality(AllIds(r)) = 0
<1>1. IsFiniteSet(r.ldap) /\ IsFiniteSet(r.connected)
  <2>1. r.ldap \in SUBSET Agent /\ r.connected \in SUBSET Agent
    BY DEF Reading
  <2> QED
    BY <2>1, AgentAssumption, FS_Subset
<1>2. r.ldap = {} /\ r.connected = {}
  BY <1>1, ChecksOfPass, FS_EmptySet
<1>3. AllIds(r) = {}
  BY <1>2, ChecksOfPass DEF AllIds
<1> QED
  BY <1>3, FS_EmptySet

-----------------------------------------------------------------------------
(***************************************************************************)
(* What the cycle has written so far: from the first write of a cycle on   *)
(* the manifest in memory is the one of the verdict, and each file that    *)
(* was filled holds what is in memory.                                     *)
(***************************************************************************)
ManifestIsOfVerdict ==
  /\ manifest.runId = verdict.runId
  /\ manifest.lastVerdictAt = verdict.capturedAt
  /\ manifest.lastStatus = verdict.status
  /\ manifest.attemptCount = attempt

PassIsEarned ==
  verdict.status = "pass" =>
    /\ FailedChecks(verdict.reading) = {}
    /\ verdict.failedChecks = {} /\ verdict.taxonomy = {}
    /\ verdict.capturedAt > 0

AfterSummary  == {"snapshot", "event", "decide", "sleep"}
AfterVerdict  == {"summary"} \cup AfterSummary
AfterManifest == {"verdict"} \cup AfterVerdict
InCycle       == {"manifest"} \cup AfterManifest

BundleInv ==
  /\ pc \in InCycle => ManifestIsOfVerdict /\ PassIsEarned
  /\ pc \in AfterManifest => disk["manifest"] = manifest
  /\ pc \in AfterVerdict => disk["verdict"] = verdict
  /\ pc \in AfterSummary => disk["summary"] = FailureSummary(manifest.runId, verdict)

LEMMA BundleInvHolds == Spec => []BundleInv
<1> USE DEF BundleInv, ManifestIsOfVerdict, PassIsEarned, InCycle, AfterManifest,
            AfterVerdict, AfterSummary
<1>1. Init => BundleInv
  BY DEF Init
<1>2. TypeOK /\ BundleInv /\ [Next]_vars => BundleInv'
  <2> SUFFICES ASSUME TypeOK, BundleInv, [Next]_vars PROVE BundleInv'
    OBVIOUS
  <2>1. CASE Boot \/ TruncateEvents \/ Crash
    BY <2>1 DEF Boot, TruncateEvents, Crash
  <2>2. CASE OpenFile
    <3>1. DOMAIN disk = JsonFile /\ FileAt(pc) \in JsonFile
      BY <2>2, FillTypes DEF OpenFile, TypeOK
    <3>2. UNCHANGED <<pc, manifest, verdict, attempt>>
      BY <2>2 DEF OpenFile, memory
    <3>3. \A f \in JsonFile : f # FileAt(pc) => disk'[f] = disk[f]
      BY <2>2, <3>1 DEF OpenFile
    <3>4. UNCHANGED FailureSummary(manifest.runId, verdict)
      BY <3>2 DEF FailureSummary
    <3>5. pc \in WriteStep
      BY <2>2 DEF OpenFile
    <3> QED
      BY <3>2, <3>3, <3>4, <3>5 DEF FileAt, WriteStep, JsonFile
  <2>3. CASE FillFile
    <3>1. DOMAIN disk = JsonFile /\ FileAt(pc) \in JsonFile
      BY <2>3, FillTypes DEF FillFile, TypeOK
    <3>2. UNCHANGED <<manifest, verdict, attempt>>
      BY <2>3 DEF FillFile, memory
    <3>3. /\ disk'[FileAt(pc)] = Payload(pc) /\ pc' = After(pc)
          /\ \A f \in JsonFile : f # FileAt(pc) => disk'[f] = disk[f]
      BY <2>3, <3>1 DEF FillFile
    <3>4. CASE pc = "init"
      BY <3>2, <3>3, <3>4 DEF After
    <3>5. CASE pc = "manifest"
      BY <3>2, <3>3, <3>5 DEF After, FileAt, Payload
    <3>6. CASE pc = "verdict"
      BY <3>2, <3>3, <3>6 DEF After, FileAt, Payload, JsonFile
    <3>7. CASE pc = "summary"
      BY <3>2, <3>3, <3>7 DEF After, FileAt, Payload, JsonFile, FailureSummary
    <3>8. CASE pc = "snapshot"
      BY <3>2, <3>3, <3>8 DEF After, FileAt, Payload, JsonFile, FailureSummary
    <3> QED
      BY <2>3, <3>4, <3>5, <3>6, <3>7, <3>8 DEF FillFile, WriteStep, JsonFile
  <2>4. CASE AppendEvent \/ GoToSleep
    BY <2>4 DEF AppendEvent, GoToSleep, memory, FailureSummary
  <2>5. ASSUME NEW v \in Verdict, Deliver(v), v.runId = manifest.runId,
               v.status = "pass" =>
                 /\ FailedChecks(v.reading) = {} /\ v.failedChecks = {}
                 /\ v.taxonomy = {} /\ v.capturedAt > 0
        PROVE  BundleInv'
    <3>1. /\ pc' = "manifest" /\ verdict' = v
          /\ manifest' = [manifest EXCEPT !.lastVerdictAt = v.capturedAt,
                                          !.lastStatus = v.status,
                                          !.attemptCount = attempt']
      BY <2>5 DEF Deliver
    <3>2. ManifestIsOfVerdict'
      BY <2>5, <3>1 DEF TypeOK, Manifest
    <3> QED
      BY <2>5, <3>1, <3>2
  <2>6. ASSUME NEW r \in Readings, CollectSucceeds(r) PROVE BundleInv'
    <3> DEFINE v == VerdictOf(r, FALSE, stamp + 1)
    <3>1. r \in Reading /\ stamp + 1 \in Nat /\ stamp + 1 > 0
      BY ReadingsAssumption DEF TypeOK
    <3>2. v \in Verdict /\ Deliver(v)
      BY <2>6, <3>1, VerdictOfIsVerdict DEF CollectSucceeds
    <3>3. /\ v.runId = manifest.runId /\ v.reading = r /\ v.capturedAt = stamp + 1
          /\ v.status = Status(r, phase = "timeout", FALSE)
          /\ v.failedChecks = FailedChecks(r)
          /\ v.taxonomy = Taxonomy(r, phase = "timeout", FALSE)
      BY DEF VerdictOf
    <3> HIDE DEF v
    <3>4. v.status = "pass" => v.failedChecks = {} /\ v.taxonomy = {}
      BY <3>3 DEF Status
    <3> QED
      BY <2>5, <3>1, <3>2, <3>3, <3>4
  <2>7. CASE CollectRaises
    <3> DEFINE v == VerdictOf(EmptyReading, TRUE, manifest.startedAt)
    <3>1. manifest.startedAt \in Nat
      BY DEF TypeOK, Manifest
    <3>2. v \in Verdict /\ Deliver(v)
      BY <2>7, <3>1, VerdictOfIsVerdict, EmptyReadingIsReading DEF CollectRaises
    <3>3. v.runId = manifest.runId /\ v.status # "pass"
      BY PassHasNoFailure DEF VerdictOf
    <3> HIDE DEF v
    <3> QED
      BY <2>5, <3>2, <3>3
  <2>8. CASE SettlePassed \/ DeadlinePassed \/ TimeoutRecorded
    BY <2>8 DEF SettlePassed, DeadlinePassed, TimeoutRecorded, EnterPhase
  <2>9. CASE WakeToSettle \/ WakeToObserve
    BY <2>9 DEF WakeToSettle, WakeToObserve
  <2>10. CASE UNCHANGED vars
    BY <2>10 DEF vars, memory, FailureSummary
  <2> QED
    BY <2>1, <2>2, <2>3, <2>4, <2>6, <2>7, <2>8, <2>9, <2>10 DEF Next, Process
<1> QED
  BY <1>1, <1>2, OrchestratorTypes, PTL DEF Spec

(***************************************************************************)
(* The verdict section finds nothing but the number of agents of a pass.   *)
(***************************************************************************)
LEMMA ErrorsOfVerdict ==
  ASSUME NEW v \in Verdict,
         v.status = "pass" =>
           FailedChecks(v.reading) = {} /\ v.failedChecks = {} /\ v.taxonomy = {}
  PROVE  VerdictErrors(v) =
           IF v.status = "pass" /\ Cardinality(AllIds(v.reading)) # Expected
           THEN {"per agent count"} ELSE {}
<1> DEFINE r == v.reading
           agents == PerAgent(r)
<1>1. DOMAIN agents = AllIds(r)
  BY DEF PerAgent
<1>2. \A a \in DOMAIN agents : agents[a].highestState \in agents[a].states \cup {"missing"}
  <2> SUFFICES ASSUME NEW a \in AllIds(r)
               PROVE  agents[a].highestState \in agents[a].states \cup {"missing"}
    BY <1>1
  <2>1. Reached(r, a) \in SUBSET AgentState
    BY DEF Reached
  <2>2. HighestState(Reached(r, a)) \in Reached(r, a) \cup {"missing"}
    BY <2>1, HighestIsReached
  <2>3. agents[a] = [states |-> Reached(r, a), highestState |-> HighestState(Reached(r, a))]
    BY DEF PerAgent
  <2> QED
    BY <2>2, <2>3
<1>3. v.status = "pass" /\ Cardinality(AllIds(r)) # Expected => Expected > 0
  <2>1. r \in Reading
    BY DEF Verdict
  <2> QED
    BY <2>1, EmptyPassListsNobody, ExpectedAssumption
<1> HIDE DEF agents
<1>4. VerdictErrors(v) =
        {e \in {"per agent state", "per agent count", "pass with failed checks",
                "pass with taxonomy"} :
           /\ e = "per agent count" /\ v.status = "pass"
           /\ Expected > 0 /\ Cardinality(AllIds(r)) # Expected}
  BY <1>1, <1>2 DEF VerdictErrors, agents
<1> QED
  BY <1>3, <1>4

(***************************************************************************)
(* Whatever crashes and restarts happened, once a cycle of writes is       *)
(* complete the validator finds nothing wrong with the bundle on disk, but *)
(* for the number of agents of a pass over surfaces that list others than  *)
(* the expected ones.                                                      *)
(***************************************************************************)
THEOREM CompletedBundles == Spec => []CompletedBundleIsValid
<1>1. TypeOK /\ RunInv /\ LogInv /\ BundleInv => CompletedBundleIsValid
  <2> SUFFICES ASSUME TypeOK, RunInv, LogInv, BundleInv, pc \in {"decide", "sleep"}
               PROVE  DiskErrors =
                        IF verdict.status = "pass" /\ Cardinality(AllIds(verdict.reading)) # Expected
                        THEN {"per agent count"} ELSE {}
    BY DEF CompletedBundleIsValid
  <2> DEFINE summary == FailureSummary(manifest.runId, verdict)
  <2>1. /\ disk["manifest"] = manifest /\ disk["verdict"] = verdict
        /\ disk["summary"] = summary
    BY DEF BundleInv, AfterManifest, AfterVerdict, AfterSummary
  <2>2. ManifestIsOfVerdict /\ PassIsEarned
    BY DEF BundleInv, InCycle, AfterManifest, AfterVerdict, AfterSummary
  <2>3. manifest \in Manifest /\ verdict \in Verdict /\ summary \in Summary
    BY DEF TypeOK, FailureSummary, Summary, Verdict, Manifest
  <2>4. Readable(manifest) /\ Readable(verdict) /\ Readable(summary)
    BY <2>3, FileAssumption DEF Readable
  <2>5. events # <<>> /\ LastEventIsOfThisCycle
    BY DEF LogInv, LastEventIsOfThisCycle
  <2>6. VerdictErrors(verdict) =
          IF verdict.status = "pass" /\ Cardinality(AllIds(verdict.reading)) # Expected
          THEN {"per agent count"} ELSE {}
    BY <2>2, <2>3, ErrorsOfVerdict DEF PassIsEarned
  <2>7. ManifestErrors(manifest, verdict) = {}
    BY <2>2 DEF ManifestErrors, ManifestIsOfVerdict
  <2>8. SummaryErrors(summary, verdict) = {}
    BY <2>2 DEF SummaryErrors, ManifestIsOfVerdict, FailureSummary
  <2>9. LogErrors(manifest, verdict, events) = {}
    <3>1. \A i \in DOMAIN events : events[i].runId = manifest.runId
      BY DEF RunInv, EventsAreOfThisRun
    <3>2. \A i \in DOMAIN events : events[i].phase \in Phase
      <4>1. \A i \in DOMAIN events : events[i] \in Event
        BY DEF TypeOK
      <4> QED
        BY <4>1 DEF Event
    <3>3. events[Len(events)].attempt = attempt /\ events[Len(events)].status = verdict.status
      BY <2>5 DEF LastEventIsOfThisCycle, LastEvent
    <3> QED
      BY <2>2, <2>4, <3>1, <3>2, <3>3 DEF LogErrors, ManifestIsOfVerdict
  <2>10. /\ ~ \E f \in {"manifest", "verdict", "summary"} : disk[f] = Absent
         /\ Torn \notin {manifest, verdict, summary}
    BY <2>1, <2>4 DEF Readable
  <2> HIDE DEF summary
  <2>11. DiskErrors = VerdictErrors(verdict)
    BY <2>1, <2>4, <2>5, <2>7, <2>8, <2>9, <2>10 DEF DiskErrors, Errors
  <2> QED
    BY <2>6, <2>11
<1> QED
  BY <1>1, OrchestratorTypes, RunInvHolds, LogInvHolds, BundleInvHolds, PTL

-----------------------------------------------------------------------------
(***************************************************************************)
(* Induction and recursion over the numbers, from the fact that they are   *)
(* well-founded.  Everything here ranges over sets, so that the provers    *)
(* can instantiate it.                                                     *)
(***************************************************************************)
LEMMA InductionOnNat ==
  ASSUME NEW T \in SUBSET Nat, 0 \in T, \A n \in T : n + 1 \in T
  PROVE  T = Nat
<1> SUFFICES ASSUME Nat \ T # {} PROVE FALSE
  OBVIOUS
<1>1. PICK x \in Nat \ T : \A y \in Nat \ T : ~ (<<y, x>> \in OpToRel(<, Nat))
  BY NatLessThanWellFounded, WFMin
<1>2. \A y \in Nat \ T : ~ (y < x)
  BY <1>1 DEF OpToRel
<1>3. x # 0 /\ x - 1 \in Nat /\ x - 1 < x
  OBVIOUS
<1>4. x - 1 \in T
  BY <1>2, <1>3
<1> QED
  BY <1>3, <1>4

LEMMA RecursionOnNat ==
  ASSUME NEW first \in Nat, NEW step \in [Nat \X Nat -> Nat]
  PROVE  \E f \in [Nat -> Nat] :
           f[0] = first /\ \A n \in Nat : f[n + 1] = step[<<f[n], n>>]
<1> DEFINE Starts(g, n) ==
      /\ \A k \in 0 .. n : g[k] \in Nat
      /\ g[0] = first
      /\ \A k \in 0 .. n - 1 : g[k + 1] = step[<<g[k], k>>]
<1>1. \A n \in Nat : \E g : Starts(g, n)
  <2> DEFINE T == {n \in Nat : \E g : Starts(g, n)}
  <2>1. 0 \in T
    <3> DEFINE g == [k \in 0 .. 0 |-> first]
    <3>1. Starts(g, 0)
      OBVIOUS
    <3> HIDE DEF g, Starts
    <3> QED
      BY <3>1
  <2>2. ASSUME NEW n \in T PROVE n + 1 \in T
    <3>1. n \in Nat /\ \E g : Starts(g, n)
      BY <2>2
    <3>2. PICK g : Starts(g, n)
      BY <3>1
    <3> DEFINE h == [k \in 0 .. n + 1 |-> IF k <= n THEN g[k] ELSE step[<<g[n], n>>]]
    <3>3. /\ \A k \in 0 .. n : h[k] = g[k]
          /\ h[n + 1] = step[<<g[n], n>>]
      BY <3>1
    <3> HIDE DEF h
    <3>4. g[n] \in Nat /\ step[<<g[n], n>>] \in Nat
      BY <3>1, <3>2
    <3>5. \A k \in 0 .. n + 1 : h[k] \in Nat
      BY <3>1, <3>2, <3>3, <3>4
    <3>6. h[0] = first
      BY <3>1, <3>2, <3>3
    <3>7. ASSUME NEW k \in 0 .. n PROVE h[k + 1] = step[<<h[k], k>>]
      <4>1. CASE k = n
        BY <3>1, <3>3, <4>1
      <4>2. CASE k # n
        <5>1. k \in 0 .. n - 1 /\ k + 1 \in 0 .. n
          BY <3>1, <4>2
        <5>2. g[k + 1] = step[<<g[k], k>>]
          BY <3>2, <5>1
        <5> QED
          BY <3>3, <5>1, <5>2
      <4> QED
        BY <4>1, <4>2
    <3>8. Starts(h, n + 1)
      BY <3>1, <3>5, <3>6, <3>7
    <3> HIDE DEF Starts
    <3> QED
      BY <3>1, <3>8
  <2> HIDE DEF Starts
  <2>3. T \in SUBSET Nat
    OBVIOUS
  <2>4. T = Nat
    <3> HIDE DEF T
    <3> QED
      BY <2>1, <2>2, <2>3, InductionOnNat
  <2> QED
    BY <2>4
<1>2. ASSUME NEW n \in Nat, NEW m \in Nat, NEW g, NEW h, Starts(g, n), Starts(h, m), n <= m
      PROVE  g[n] = h[n]
  <2> DEFINE T == {k \in Nat : k <= n => g[k] = h[k]}
  <2>1. 0 \in T
    BY <1>2
  <2>2. ASSUME NEW k \in T PROVE k + 1 \in T
    <3>1. CASE k + 1 <= n
      <4>1. k \in 0 .. n - 1 /\ k \in 0 .. m - 1 /\ g[k] = h[k]
        BY <1>2, <2>2, <3>1
      <4>2. g[k + 1] = step[<<g[k], k>>] /\ h[k + 1] = step[<<h[k], k>>]
        BY <1>2, <4>1
      <4> QED
        BY <4>1, <4>2
    <3>2. CASE ~ (k + 1 <= n)
      BY <3>2
    <3> QED
      BY <3>1, <3>2
  <2>3. T \in SUBSET Nat
    OBVIOUS
  <2>4. T = Nat
    <3> HIDE DEF T
    <3> QED
      BY <2>1, <2>2, <2>3, InductionOnNat
  <2> QED
    BY <2>4
<1> DEFINE some == [n \in Nat |-> CHOOSE g : Starts(g, n)]
           f    == [n \in Nat |-> some[n][n]]
<1>3. \A n \in Nat : Starts(some[n], n)
  <2> HIDE DEF Starts
  <2> QED
    BY <1>1
<1> HIDE DEF some
<1>4. f \in [Nat -> Nat] /\ f[0] = first
  BY <1>3
<1>5. ASSUME NEW n \in Nat PROVE f[n + 1] = step[<<f[n], n>>]
  <2>1. Starts(some[n], n) /\ Starts(some[n + 1], n + 1)
    BY <1>3
  <2>2. some[n][n] = some[n + 1][n]
    <3> HIDE DEF Starts
    <3> QED
      BY <1>2, <2>1
  <2>3. some[n + 1][n + 1] = step[<<some[n + 1][n], n>>]
    BY <2>1
  <2> QED
    BY <2>2, <2>3
<1> HIDE DEF f
<1> QED
  BY <1>4, <1>5

\* A pause is at least MinBackoff, doubles, and stops at MaxBackoff.
LEMMA PauseRecursion ==
  /\ Pause \in [Nat -> Nat] /\ Pause[0] = MinBackoff
  /\ \A n \in Nat : Pause[n + 1] = Smaller(2 * Pause[n], MaxBackoff)
<1> DEFINE Body(g) == [n \in Nat |-> IF n = 0 THEN MinBackoff
                                    ELSE Smaller(2 * g[n - 1], MaxBackoff)]
           step == [p \in Nat \X Nat |-> Smaller(2 * p[1], MaxBackoff)]
<1>1. \A v \in Nat : Smaller(2 * v, MaxBackoff) \in Nat
  BY TimingAssumption DEF Smaller
<1>2. step \in [Nat \X Nat -> Nat] /\ \A v, n \in Nat : step[<<v, n>>] = Smaller(2 * v, MaxBackoff)
  BY <1>1
<1>3. \E f : f = Body(f)
  <2> HIDE DEF step
  <2>0. \E f \in [Nat -> Nat] :
          f[0] = MinBackoff /\ \A n \in Nat : f[n + 1] = step[<<f[n], n>>]
    <3>1. MinBackoff \in Nat
      BY TimingAssumption
    <3>2. step \in [Nat \X Nat -> Nat]
      BY <1>2
    <3> QED
      BY <3>1, <3>2, RecursionOnNat
  <2>1. PICK f \in [Nat -> Nat] :
          f[0] = MinBackoff /\ \A n \in Nat : f[n + 1] = step[<<f[n], n>>]
    BY <2>0
  <2>2. ASSUME NEW n \in Nat PROVE f[n] = Body(f)[n]
    <3>1. CASE n = 0
      BY <2>1, <3>1
    <3>2. CASE n # 0
      <4>1. n - 1 \in Nat /\ n = (n - 1) + 1
        BY <3>2
      <4>2. f[n] = step[<<f[n - 1], n - 1>>]
        BY <2>1, <4>1
      <4>3. f[n] = Smaller(2 * f[n - 1], MaxBackoff)
        BY <1>2, <4>1, <4>2
      <4> QED
        BY <3>2, <4>3
    <3> QED
      BY <3>1, <3>2
  <2>3. f = Body(f)
    BY <2>2
  <2> QED
    BY <2>3
<1>4. Pause = Body(Pause)
  <2>1. Pause = CHOOSE f : f = Body(f)
    BY DEF Pause
  <2> HIDE DEF Body
  <2> QED
    BY <1>3, <2>1
<1>5. /\ DOMAIN Pause = Nat /\ Pause[0] = MinBackoff
      /\ \A n \in Nat : Pause[n + 1] = Smaller(2 * Pause[n], MaxBackoff)
  <2> HIDE DEF Pause
  <2>1. \A n \in Nat : Pause[n] = IF n = 0 THEN MinBackoff
                                 ELSE Smaller(2 * Pause[n - 1], MaxBackoff)
    BY <1>4
  <2>2. ASSUME NEW n \in Nat PROVE Pause[n + 1] = Smaller(2 * Pause[n], MaxBackoff)
    <3>1. n + 1 \in Nat /\ n + 1 # 0 /\ (n + 1) - 1 = n
      OBVIOUS
    <3> QED
      BY <2>1, <3>1
  <2> QED
    BY <1>4, <2>1, <2>2
<1>6. \A n \in Nat : Pause[n] \in Nat
  <2> DEFINE T == {n \in Nat : Pause[n] \in Nat}
  <2>1. T \in SUBSET Nat /\ 0 \in T
    BY <1>5, TimingAssumption
  <2>2. ASSUME NEW n \in T PROVE n + 1 \in T
    BY <1>1, <1>5
  <2>3. T = Nat
    <3> HIDE DEF T
    <3> QED
      BY <2>1, <2>2, InductionOnNat
  <2> QED
    BY <2>3
<1>7. Pause = [n \in Nat |-> Pause[n]]
  BY <1>4
<1> QED
  BY <1>5, <1>6, <1>7

LEMMA PausesRecursion ==
  /\ \A n \in Nat : Pauses[n] \in Nat
  /\ Pauses[0] = 0
  /\ \A n \in Nat : Pauses[n + 1] = Pauses[n] + Pause[n]
<1> DEFINE Body(g) == [n \in Nat |-> IF n = 0 THEN 0 ELSE g[n - 1] + Pause[n - 1]]
           step == [p \in Nat \X Nat |-> p[1] + Pause[p[2]]]
<1>1. \A n \in Nat : Pause[n] \in Nat
  BY PauseRecursion
<1>2. step \in [Nat \X Nat -> Nat] /\ \A v, n \in Nat : step[<<v, n>>] = v + Pause[n]
  BY <1>1
<1>3. \E f : f = Body(f)
  <2> HIDE DEF step
  <2>0. \E f \in [Nat -> Nat] :
          f[0] = 0 /\ \A n \in Nat : f[n + 1] = step[<<f[n], n>>]
    <3>1. 0 \in Nat
      OBVIOUS
    <3>2. step \in [Nat \X Nat -> Nat]
      BY <1>2
    <3> QED
      BY <3>1, <3>2, RecursionOnNat
  <2>1. PICK f \in [Nat -> Nat] :
          f[0] = 0 /\ \A n \in Nat : f[n + 1] = step[<<f[n], n>>]
    BY <2>0
  <2>2. ASSUME NEW n \in Nat PROVE f[n] = Body(f)[n]
    <3>1. CASE n = 0
      BY <2>1, <3>1
    <3>2. CASE n # 0
      <4>1. n - 1 \in Nat /\ n = (n - 1) + 1
        BY <3>2
      <4>2. f[n] = step[<<f[n - 1], n - 1>>]
        BY <2>1, <4>1
      <4>3. f[n] = f[n - 1] + Pause[n - 1]
        BY <1>2, <4>1, <4>2
      <4> QED
        BY <3>2, <4>3
    <3> QED
      BY <3>1, <3>2
  <2>3. f = Body(f)
    BY <2>2
  <2> QED
    BY <2>3
<1>4. Pauses = Body(Pauses)
  <2>1. Pauses = CHOOSE f : f = Body(f)
    BY DEF Pauses
  <2> HIDE DEF Body
  <2> QED
    BY <1>3, <2>1
<1>5. /\ Pauses[0] = 0
      /\ \A n \in Nat : Pauses[n + 1] = Pauses[n] + Pause[n]
  <2> HIDE DEF Pauses
  <2>1. \A n \in Nat : Pauses[n] = IF n = 0 THEN 0 ELSE Pauses[n - 1] + Pause[n - 1]
    BY <1>4
  <2>2. ASSUME NEW n \in Nat PROVE Pauses[n + 1] = Pauses[n] + Pause[n]
    <3>1. n + 1 \in Nat /\ n + 1 # 0 /\ (n + 1) - 1 = n
      OBVIOUS
    <3> QED
      BY <2>1, <3>1
  <2> QED
    BY <2>1, <2>2
<1>6. \A n \in Nat : Pauses[n] \in Nat
  <2> DEFINE T == {n \in Nat : Pauses[n] \in Nat}
  <2>1. T \in SUBSET Nat /\ 0 \in T
    BY <1>5
  <2>2. ASSUME NEW n \in T PROVE n + 1 \in T
    BY <1>1, <1>5
  <2>3. T = Nat
    <3> HIDE DEF T
    <3> QED
      BY <2>1, <2>2, InductionOnNat
  <2> QED
    BY <2>3
<1> QED
  BY <1>5, <1>6

(***************************************************************************)
(* While the run settles, `made' pauses have been asked for, the next one  *)
(* is Pause[made], and the clock has seen them pass or stands at the       *)
(* deadline.                                                               *)
(***************************************************************************)
Made == IF pc \in {"down", "truncate", "init", "collect"} THEN attempt ELSE attempt - 1

PacedInv ==
  phase = "settle" =>
    Made \in Nat /\ backoff = Pause[Made] /\ elapsed >= Smaller(Timeout, Pauses[Made])

LEMMA PacedInvHolds == Spec => []PacedInv
<1> USE DEF PacedInv, Made
<1>0. MinBackoff = Pause[0] /\ 0 >= Smaller(Timeout, Pauses[0])
  <2>1. Pauses[0] = 0 /\ Timeout \in Nat
    BY PausesRecursion, TimingAssumption
  <2> QED
    BY <2>1, PauseRecursion DEF Smaller
<1>1. Init => PacedInv
  BY <1>0 DEF Init
<1>2. TypeOK /\ LogInv /\ PacedInv /\ [Next]_vars => PacedInv'
  <2> SUFFICES ASSUME TypeOK, LogInv, PacedInv, [Next]_vars PROVE PacedInv'
    OBVIOUS
  <2>1. CASE Boot
    BY <2>1 DEF Boot
  <2>2. CASE TruncateEvents
    BY <2>2 DEF TruncateEvents, memory
  <2>3. CASE OpenFile
    BY <2>3 DEF OpenFile, memory
  <2>4. CASE FillFile
    <3>1. CASE pc = "init"
      BY <2>4, <3>1 DEF FillFile, memory, After
    <3>2. CASE pc \in JsonFile
      BY <2>4, <3>2 DEF FillFile, memory, After, JsonFile
    <3> QED
      BY <2>4, <3>1, <3>2 DEF FillFile, WriteStep
  <2>5. CASE AppendEvent \/ GoToSleep
    BY <2>5 DEF AppendEvent, GoToSleep, memory
  <2>6. ASSUME NEW v, pc = "collect", Deliver(v), UNCHANGED <<phase, backoff>>
        PROVE  PacedInv'
    <3> SUFFICES ASSUME phase = "settle" PROVE PacedInv'
      BY <2>6
    <3>1. pc' = "manifest" /\ attempt' = attempt + 1 /\ elapsed' >= elapsed
      BY <2>6 DEF Deliver, TypeOK
    <3>2. attempt \in Nat /\ Made' = Made
      BY <2>6, <3>1 DEF TypeOK
    <3>3. elapsed' \in Nat /\ elapsed \in Nat /\ Smaller(Timeout, Pauses[Made]) \in Nat
      BY <2>6, <3>2, TimingAssumption, PausesRecursion DEF Deliver, TypeOK, Smaller
    <3> HIDE DEF Made
    <3> QED
      BY <2>6, <3>1, <3>2, <3>3
  <2>7. CASE (\E r \in Readings : CollectSucceeds(r)) \/ CollectRaises
    BY <2>6, <2>7 DEF CollectSucceeds, CollectRaises
  <2>8. CASE SettlePassed \/ DeadlinePassed \/ TimeoutRecorded
    BY <2>8 DEF SettlePassed, DeadlinePassed, TimeoutRecorded, EnterPhase
  <2>9. CASE WakeToSettle
    <3> DEFINE n == attempt - 1
    <3>1. n \in Nat /\ backoff = Pause[n] /\ elapsed >= Smaller(Timeout, Pauses[n])
      BY <2>9 DEF WakeToSettle
    <3>2. pc' = "collect" /\ attempt' = n + 1
      BY <2>9 DEF WakeToSettle, TypeOK
    <3> HIDE DEF n
    <3>3. backoff' = Pause[n + 1]
      BY <2>9, <3>1, PauseRecursion DEF WakeToSettle
    <3>4. elapsed' >= Smaller(Timeout, Pauses[n + 1])
      <4>1. /\ elapsed \in Nat /\ Timeout \in Nat /\ Pause[n] \in Nat /\ Pauses[n] \in Nat
            /\ Pauses[n + 1] = Pauses[n] + Pause[n]
        <5>1. Pause[n] \in Nat
          BY <3>1, PauseRecursion
        <5>2. Pauses[n] \in Nat /\ Pauses[n + 1] = Pauses[n] + Pause[n]
          BY <3>1, PausesRecursion
        <5> QED
          BY <5>1, <5>2, TimingAssumption DEF TypeOK
      <4>2. elapsed' \in Nat /\ elapsed' >= Smaller(elapsed + Pause[n], Timeout)
        BY <2>9, <3>1, <4>1 DEF WakeToSettle, Smaller
      <4> QED
        BY <3>1, <4>1, <4>2 DEF Smaller
    <3> QED
      BY <3>1, <3>2, <3>3, <3>4
  <2>10. CASE WakeToObserve
    BY <2>10 DEF WakeToObserve, memory
  <2>11. CASE Crash
    BY <2>11, <1>0 DEF Crash, ForgetMemory
  <2>12. CASE UNCHANGED vars
    BY <2>12 DEF vars, memory
  <2> QED
    BY <2>1, <2>2, <2>3, <2>4, <2>5, <2>7, <2>8, <2>9, <2>10, <2>11, <2>12
       DEF Next, Process
<1> QED
  BY <1>1, <1>2, OrchestratorTypes, LogInvHolds, PTL DEF Spec

(***************************************************************************)
(* The n-th settling attempt is not made before n - 1 exponentially        *)
(* growing pauses, or the deadline, have passed.                           *)
(***************************************************************************)
THEOREM SettlingPaced == Spec => []SettlingIsPaced
<1>1. LogInv /\ PacedInv => SettlingIsPaced
  BY DEF LogInv, PacedInv, Made, SettlingIsPaced
<1> QED
  BY <1>1, LogInvHolds, PacedInvHolds, PTL

-----------------------------------------------------------------------------
(***************************************************************************)
(* The way left until the settle loop is over: the steps to the end of the *)
(* attempt, and 15 for every second left to the deadline, more than an     *)
(* attempt has steps.  The collection after the deadline has only its own. *)
(***************************************************************************)
StepsToSleep ==
  [down |-> 0, truncate |-> 14, init |-> 12, collect |-> 11, manifest |-> 9, verdict |-> 7,
   summary |-> 5, snapshot |-> 3, event |-> 2, decide |-> 1, sleep |-> 0]

ToSleep == StepsToSleep[pc] + (IF pc \in WriteStep /\ ~ opened THEN 1 ELSE 0)

Way == ToSleep + (IF phase = "settle" THEN 15 * (Timeout - elapsed + 1) ELSE 0)

\* A pause is only made when there is time left.
SleepsInTime == (pc = "sleep" /\ phase = "settle") => elapsed < Timeout

LEMMA SleepsInTimeHolds == Spec => []SleepsInTime
<1> USE DEF SleepsInTime
<1>1. Init => SleepsInTime
  BY DEF Init
<1>2. TypeOK /\ SleepsInTime /\ [Next]_vars => SleepsInTime'
  <2> SUFFICES ASSUME TypeOK, SleepsInTime, [Next]_vars, pc' = "sleep"
               PROVE  phase' = "settle" => elapsed' < Timeout
    OBVIOUS
  <2>1. GoToSleep \/ UNCHANGED vars
    BY DEF Next, Process, Boot, TruncateEvents, OpenFile, FillFile, After, WriteStep,
           JsonFile, AppendEvent, CollectSucceeds, CollectRaises, Deliver, SettlePassed,
           DeadlinePassed, TimeoutRecorded, EnterPhase, WakeToSettle, WakeToObserve, Crash,
           vars
  <2> QED
    BY <2>1 DEF GoToSleep, memory, vars
<1> QED
  BY <1>1, <1>2, OrchestratorTypes, PTL DEF Spec

WayInNumbers ==
  /\ elapsed \in Nat /\ Timeout \in Nat /\ elapsed <= Timeout
  /\ ToSleep \in Nat /\ ToSleep <= 14
  /\ phase = "settle" => Way = ToSleep + 15 * (Timeout - elapsed + 1)
  /\ phase # "settle" => Way = ToSleep

LEMMA WayIsNumber == TypeOK => WayInNumbers
<1> SUFFICES ASSUME TypeOK PROVE WayInNumbers
  OBVIOUS
<1>1. ToSleep \in 0 .. 14
  BY DEF TypeOK, Locations, JsonFile, StepsToSleep, WriteStep, ToSleep
<1>2. elapsed \in Nat /\ Timeout \in Nat /\ elapsed <= Timeout
  BY TimingAssumption DEF TypeOK
<1> HIDE DEF ToSleep
<1> QED
  BY <1>1, <1>2 DEF Way, WayInNumbers

\* Every step of the process but the wake-up brings the end of the attempt closer.
LEMMA StepsOfAnAttempt ==
  ASSUME TypeOK, Process, pc' # "collect" \/ pc = "init"
  PROVE  ToSleep' < ToSleep /\ phase' = phase /\ elapsed' >= elapsed
<1> USE DEF ToSleep, StepsToSleep, WriteStep, JsonFile
<1> elapsed \in Nat /\ Timeout \in Nat /\ opened \in BOOLEAN
  BY TimingAssumption DEF TypeOK
<1>1. CASE TruncateEvents
  BY <1>1 DEF TruncateEvents, memory
<1>2. CASE OpenFile
  BY <1>2 DEF OpenFile, memory
<1>3. CASE FillFile
  <2>1. UNCHANGED <<phase, elapsed>> /\ pc \in WriteStep /\ opened /\ pc' = After(pc)
    BY <1>3 DEF FillFile, memory
  <2> QED
    BY <2>1 DEF After
<1>4. CASE AppendEvent \/ GoToSleep
  BY <1>4 DEF AppendEvent, GoToSleep, memory
<1>5. ASSUME NEW v, pc = "collect", Deliver(v), UNCHANGED phase
      PROVE  ToSleep' < ToSleep /\ phase' = phase /\ elapsed' >= elapsed
  BY <1>5 DEF Deliver
<1>6. CASE (\E r \in Readings : CollectSucceeds(r)) \/ CollectRaises
  BY <1>5, <1>6 DEF CollectSucceeds, CollectRaises
<1>7. CASE SettlePassed \/ DeadlinePassed \/ TimeoutRecorded \/ WakeToSettle \/ WakeToObserve
  BY <1>7 DEF SettlePassed, DeadlinePassed, TimeoutRecorded, EnterPhase, WakeToSettle,
              WakeToObserve
<1> QED
  BY <1>1, <1>2, <1>3, <1>4, <1>6, <1>7 DEF Process

(***************************************************************************)
(* Every step a process takes before the steady state shortens the way to  *)
(* it, which is less than 15 (Timeout + 2) steps long: neither the backoff *)
(* nor the deadline can keep it settling.  This is what SettlingEnds rests *)
(* on besides the fairness.                                                *)
(***************************************************************************)
WayFalls ==
  (Process /\ phase # "steady-state") => phase' = "steady-state" \/ Way' < Way

WayIsBounded == Way < 15 * (Timeout + 2)

(***************************************************************************)
(* Every step of a living orchestrator before the steady state shortens a  *)
(* way that is bounded from the start: only crashes make it longer.        *)
(***************************************************************************)
THEOREM SettlingComesCloser == Spec => []WayIsBounded /\ [][WayFalls]_vars
<1>1. TypeOK => WayIsBounded
  <2> SUFFICES ASSUME TypeOK PROVE Way < 15 * (Timeout + 2)
    BY DEF WayIsBounded
  <2> QED
    BY WayIsNumber DEF WayInNumbers
<1>2. TypeOK' => WayInNumbers'
  BY WayIsNumber, PTL
<1>3. TypeOK /\ TypeOK' /\ LogInv /\ SleepsInTime /\ [Next]_vars => [WayFalls]_vars
  <2> SUFFICES ASSUME TypeOK, TypeOK', LogInv, SleepsInTime, Process, phase # "steady-state",
                      phase' # "steady-state"
               PROVE  Way' < Way
    BY DEF WayFalls
  <2>1. phase \in Phase /\ phase' \in Phase
    BY DEF TypeOK
  <2>2. /\ elapsed \in Nat /\ Timeout \in Nat /\ elapsed <= Timeout
        /\ ToSleep \in Nat /\ ToSleep <= 14
        /\ phase = "settle" => Way = ToSleep + 15 * (Timeout - elapsed + 1)
        /\ phase # "settle" => Way = ToSleep
    BY WayIsNumber DEF WayInNumbers
  <2>3. /\ elapsed' \in Nat /\ elapsed' <= Timeout
        /\ ToSleep' \in Nat /\ ToSleep' <= 14
        /\ phase' = "settle" => Way' = ToSleep' + 15 * (Timeout - elapsed' + 1)
        /\ phase' # "settle" => Way' = ToSleep'
    BY <1>2 DEF WayInNumbers
  <2> HIDE DEF ToSleep, Way
  <2>4. CASE pc' # "collect" \/ pc = "init"
    <3>1. ToSleep' < ToSleep /\ phase' = phase /\ elapsed' >= elapsed
      BY <2>4, StepsOfAnAttempt
    <3> QED
      BY <2>1, <2>2, <2>3, <3>1
  <2>5. CASE WakeToSettle
    <3>1. elapsed' >= Smaller(elapsed + backoff, Timeout)
      BY <2>5 DEF WakeToSettle
    <3>2. elapsed < Timeout /\ backoff \in Nat \ {0}
      BY <2>5, TimingAssumption DEF SleepsInTime, WakeToSettle, TypeOK
    <3>3. elapsed' > elapsed
      BY <2>2, <2>3, <3>1, <3>2 DEF Smaller
    <3>4. phase = "settle" /\ phase' = "settle"
      BY <2>5 DEF WakeToSettle
    <3>5. ToSleep' = 11 /\ ToSleep = 0
      BY <2>5 DEF WakeToSettle, ToSleep, StepsToSleep, WriteStep, JsonFile
    <3>6. /\ Way = 15 * (Timeout - elapsed + 1)
          /\ Way' = 11 + 15 * (Timeout - elapsed' + 1)
      BY <2>2, <2>3, <3>4, <3>5
    <3>7. /\ Timeout - elapsed + 1 \in Nat /\ Timeout - elapsed' + 1 \in Nat
          /\ (Timeout - elapsed' + 1) + 1 <= Timeout - elapsed + 1
      <4>1. /\ elapsed \in Nat /\ elapsed' \in Nat /\ Timeout \in Nat
            /\ elapsed <= Timeout /\ elapsed' <= Timeout /\ elapsed < elapsed'
        BY <2>2, <2>3, <3>3
      <4>2. \A t, d, e \in Nat : (e <= t /\ d < e) =>
              t - d + 1 \in Nat /\ t - e + 1 \in Nat /\ (t - e + 1) + 1 <= t - d + 1
        OBVIOUS
      <4> QED
        BY <4>1, <4>2
    <3>8. \A d, e \in Nat : d + 1 <= e => 11 + 15 * d < 15 * e
      OBVIOUS
    <3> QED
      BY <3>6, <3>7, <3>8
  <2>6. CASE DeadlinePassed
    <3>1. phase = "settle" /\ phase' = "timeout"
      BY <2>6 DEF DeadlinePassed, EnterPhase
    <3> QED
      BY <2>1, <2>2, <2>3, <3>1
  <2>7. pc' = "collect" /\ pc # "init" => WakeToSettle \/ DeadlinePassed
    BY <2>1 DEF Process, TruncateEvents, OpenFile, FillFile, After, WriteStep, JsonFile,
           AppendEvent, CollectSucceeds, CollectRaises, Deliver, GoToSleep, SettlePassed,
           TimeoutRecorded, EnterPhase, WakeToObserve
  <2> QED
    BY <2>4, <2>5, <2>6, <2>7
<1> QED
  BY <1>1, <1>3, OrchestratorTypes, LogInvHolds, SleepsInTimeHolds, PTL DEF Spec

-----------------------------------------------------------------------------
(***************************************************************************)
(* What a manifest vouches for.  A manifest that names an attempt carries  *)
(* its status and its time; and as long as the log holds the run of a      *)
(* manifest that names a passing attempt, a passing event of that attempt  *)
(* is the one the manifest was written for, because the number is not used *)
(* again after a pass.                                                     *)
(***************************************************************************)
NamesPass(m) == m.attemptCount > 0 /\ m.lastStatus = "pass"

Dated(m) ==
  m.attemptCount > 0 =>
    m.lastStatus \in Result /\ (m.lastStatus = "pass" => m.lastVerdictAt > 0)

Vouches(m, log) ==
  NamesPass(m) =>
    \A i \in DOMAIN log :
      (/\ log[i].runId = m.runId /\ log[i].attempt = m.attemptCount
       /\ log[i].status = "pass") => log[i].capturedAt = m.lastVerdictAt

\* The process has gone past the attempt m names, or is still at it.
Behind(m) ==
  (NamesPass(m) /\ pc # "down" /\ manifest.runId = m.runId) =>
    \/ attempt > m.attemptCount
    \/ /\ attempt = m.attemptCount
       /\ IF pc = "collect" THEN phase = "steady-state"
          ELSE verdict.status = "pass" /\ verdict.capturedAt = m.lastVerdictAt

Known(m) == m.runId <= runs /\ Dated(m) /\ Vouches(m, events) /\ Behind(m)

\* No passing event has the number of the attempt that is being made.
PassesPrecede ==
  \A i \in DOMAIN events : events[i].status = "pass" =>
    /\ pc = "collect" => events[i].attempt < NextAttempt
    /\ pc \in JsonFile \cup {"event"} => events[i].attempt < attempt
    /\ pc \in {"decide", "sleep"} =>
         \/ events[i].attempt < attempt
         \/ events[i].attempt = attempt /\ verdict.status = "pass"

KnownInv ==
  /\ manifest.runId <= runs
  /\ pc \in {"down", "truncate", "init"} => manifest.attemptCount = 0
  /\ PassesPrecede
  /\ Readable(disk["manifest"]) => Known(disk["manifest"])

(***************************************************************************)
(* No step of the process takes back what a manifest vouches for.          *)
(***************************************************************************)
LEMMA KnownKept ==
  ASSUME TypeOK, LogInv, [Next]_vars, NEW m \in Manifest, Known(m)
  PROVE  Known(m)'
<1> USE DEF Known, Dated, Vouches, Behind, NamesPass
<1> m.runId \in Nat /\ m.attemptCount \in Nat
  BY DEF Manifest
<1>1. CASE Boot
  BY <1>1 DEF Boot, NewManifest, TypeOK
<1>2. CASE TruncateEvents
  BY <1>2 DEF TruncateEvents, memory
<1>3. CASE OpenFile
  BY <1>3 DEF OpenFile, memory, WriteStep, JsonFile
<1>4. CASE FillFile
  <2>1. pc = "init" => attempt = 0 /\ ~ (NamesPass(m) /\ manifest.runId = m.runId)
    BY DEF LogInv, TypeOK
  <2>2. pc' # "collect" \/ pc = "init"
    BY <1>4 DEF FillFile, After, WriteStep, JsonFile
  <2>3. pc # "down" /\ pc # "collect" /\ UNCHANGED <<memory, events, runs>>
    BY <1>4 DEF FillFile, WriteStep, JsonFile
  <2> QED
    BY <2>1, <2>2, <2>3 DEF memory
<1>5. CASE AppendEvent
  <2> DEFINE e == EventOf(manifest.runId, attempt, phase, verdict)
  <2>1. /\ e.runId = manifest.runId /\ e.attempt = attempt
        /\ e.status = verdict.status /\ e.capturedAt = verdict.capturedAt
    BY DEF EventOf
  <2> HIDE DEF e
  <2>2. pc = "event" /\ pc' = "decide" /\ UNCHANGED <<memory, runs>>
        /\ events' = Append(events, e)
    BY <1>5 DEF AppendEvent, e
  <2>3. Behind(m)'
    BY <2>2 DEF memory
  <2>4. ASSUME NamesPass(m), NEW i \in DOMAIN events', events'[i].runId = m.runId,
               events'[i].attempt = m.attemptCount, events'[i].status = "pass"
        PROVE  events'[i].capturedAt = m.lastVerdictAt
    <3>1. CASE events'[i] = e
      BY <2>1, <2>2, <2>4, <3>1 DEF TypeOK
    <3>2. CASE i \in DOMAIN events /\ events'[i] = events[i]
      BY <2>4, <3>2
    <3> QED
      BY <2>2, <3>1, <3>2 DEF TypeOK
  <2> QED
    BY <2>2, <2>3, <2>4
<1>6. ASSUME NEW v, pc = "collect", Deliver(v), UNCHANGED <<phase, events, runs>>
      PROVE  Known(m)'
  <2>1. manifest'.runId = manifest.runId /\ pc' = "manifest"
    BY <1>6 DEF Deliver, TypeOK, Manifest
  <2>2. attempt' = IF phase = "timeout" THEN attempt ELSE attempt + 1
    BY <1>6 DEF Deliver
  <2> QED
    BY <1>6, <2>1, <2>2 DEF TypeOK
<1>7. CASE (\E r \in Readings : CollectSucceeds(r)) \/ CollectRaises
  BY <1>6, <1>7 DEF CollectSucceeds, CollectRaises
<1>8. CASE SettlePassed \/ DeadlinePassed \/ TimeoutRecorded
  BY <1>8 DEF SettlePassed, DeadlinePassed, TimeoutRecorded, EnterPhase
<1>9. CASE GoToSleep
  BY <1>9 DEF GoToSleep, memory
<1>10. CASE WakeToSettle \/ WakeToObserve
  BY <1>10 DEF WakeToSettle, WakeToObserve, memory, LogInv
<1>11. CASE Crash
  BY <1>11 DEF Crash
<1>12. CASE UNCHANGED vars
  BY <1>12 DEF vars, memory
<1> QED
  BY <1>1, <1>2, <1>3, <1>4, <1>5, <1>7, <1>8, <1>9, <1>10, <1>11, <1>12
     DEF Next, Process

LEMMA PassesPrecedeKept ==
  ASSUME TypeOK, LogInv, PassesPrecede, [Next]_vars
  PROVE  PassesPrecede'
<1> USE DEF PassesPrecede, NextAttempt
<1> \A i \in DOMAIN events : events[i].attempt \in Nat
  <2>1. \A i \in DOMAIN events : events[i] \in Event
    BY DEF TypeOK
  <2> QED
    BY <2>1 DEF Event
<1>1. CASE Boot \/ TruncateEvents \/ Crash
  BY <1>1 DEF Boot, TruncateEvents, Crash, JsonFile
<1>2. CASE OpenFile
  BY <1>2 DEF OpenFile, memory
<1>3. CASE FillFile
  <2>1. pc = "init" => events = <<>>
    BY DEF LogInv
  <2>2. /\ pc = "init" => pc' = "collect"
        /\ pc # "init" => pc \in JsonFile /\ pc' \in JsonFile \cup {"event"}
        /\ UNCHANGED <<memory, events>>
    BY <1>3 DEF FillFile, After, WriteStep, JsonFile
  <2> QED
    BY <2>1, <2>2 DEF memory, JsonFile
<1>4. CASE AppendEvent
  <2> DEFINE e == EventOf(manifest.runId, attempt, phase, verdict)
  <2>1. e.attempt = attempt /\ e.status = verdict.status
    BY DEF EventOf
  <2> HIDE DEF e
  <2>2. pc = "event" /\ pc' = "decide" /\ UNCHANGED memory /\ events' = Append(events, e)
    BY <1>4 DEF AppendEvent, e
  <2>3. ASSUME NEW i \in DOMAIN events', events'[i].status = "pass"
        PROVE  \/ events'[i].attempt < attempt
               \/ events'[i].attempt = attempt /\ verdict.status = "pass"
    <3>1. CASE events'[i] = e
      BY <2>1, <2>3, <3>1
    <3>2. CASE i \in DOMAIN events /\ events'[i] = events[i]
      BY <2>2, <2>3, <3>2
    <3> QED
      BY <2>2, <3>1, <3>2 DEF TypeOK
  <2> QED
    BY <2>2, <2>3 DEF memory, JsonFile
<1>5. ASSUME NEW v, pc = "collect", Deliver(v), UNCHANGED <<phase, events>>
      PROVE  PassesPrecede'
  BY <1>5 DEF Deliver, JsonFile
<1>6. CASE (\E r \in Readings : CollectSucceeds(r)) \/ CollectRaises
  BY <1>5, <1>6 DEF CollectSucceeds, CollectRaises
<1>7. CASE SettlePassed \/ DeadlinePassed \/ TimeoutRecorded
  BY <1>7 DEF SettlePassed, DeadlinePassed, TimeoutRecorded, EnterPhase, TypeOK, JsonFile
<1>8. CASE GoToSleep
  BY <1>8 DEF GoToSleep, memory, JsonFile
<1>9. CASE WakeToSettle \/ WakeToObserve
  BY <1>9 DEF WakeToSettle, WakeToObserve, memory, TypeOK, JsonFile
<1>10. CASE UNCHANGED vars
  BY <1>10 DEF vars, memory
<1> QED
  BY <1>1, <1>2, <1>3, <1>4, <1>6, <1>7, <1>8, <1>9, <1>10 DEF Next, Process

\* The manifest a cycle writes is known from the moment it is on disk.
LEMMA WrittenIsKnown ==
  ASSUME TypeOK, LogInv, BundleInv, KnownInv, FillFile, pc \in {"init", "manifest"}
  PROVE  disk'["manifest"] = manifest /\ Known(manifest)'
<1>1. DOMAIN disk = JsonFile /\ FileAt(pc) = "manifest" /\ Payload(pc) = manifest
  BY DEF TypeOK, FileAt, Payload
<1>2. disk'["manifest"] = manifest
  BY <1>1 DEF FillFile, JsonFile
<1>3. UNCHANGED <<memory, events, runs>> /\ pc' = After(pc)
  BY DEF FillFile
<1>4. manifest \in Manifest /\ manifest.runId <= runs
  BY DEF TypeOK, KnownInv
<1>5. CASE pc = "init"
  <2>1. manifest.attemptCount = 0
    BY <1>5 DEF KnownInv
  <2> QED
    BY <1>2, <1>3, <1>4, <2>1 DEF memory, Known, Dated, Vouches, Behind, NamesPass
<1>6. CASE pc = "manifest"
  <2>1. ManifestIsOfVerdict /\ PassIsEarned
    BY <1>6 DEF BundleInv, InCycle
  <2>2. pc' = "verdict"
    BY <1>3, <1>6 DEF After
  <2>3. Dated(manifest)
    BY <2>1 DEF Dated, ManifestIsOfVerdict, PassIsEarned, TypeOK, Verdict
  <2>4. Vouches(manifest, events)
    <3>1. \A i \in DOMAIN events : events[i].attempt \in Nat
      <4>1. \A i \in DOMAIN events : events[i] \in Event
        BY DEF TypeOK
      <4> QED
        BY <4>1 DEF Event
    <3>2. \A i \in DOMAIN events : events[i].status = "pass" => events[i].attempt < attempt
      BY <1>6 DEF KnownInv, PassesPrecede, JsonFile
    <3> QED
      BY <2>1, <3>1, <3>2 DEF Vouches, ManifestIsOfVerdict, TypeOK
  <2>5. Behind(manifest)'
    BY <1>3, <2>1, <2>2 DEF memory, Behind, NamesPass, ManifestIsOfVerdict
  <2> QED
    BY <1>2, <1>3, <1>4, <2>3, <2>4, <2>5 DEF memory, Known, Dated, Vouches, NamesPass
<1> QED
  BY <1>5, <1>6

LEMMA KnownInvHolds == Spec => []KnownInv
<1>1. Init => KnownInv
  BY DEF Init, KnownInv, NewManifest, PassesPrecede, Readable, JsonFile
<1>2. TypeOK /\ LogInv /\ BundleInv /\ KnownInv /\ [Next]_vars => KnownInv'
  <2> SUFFICES ASSUME TypeOK, LogInv, BundleInv, KnownInv, [Next]_vars PROVE KnownInv'
    OBVIOUS
  <2>1. PassesPrecede'
    BY PassesPrecedeKept DEF KnownInv
  <2>2. /\ manifest'.runId <= runs'
        /\ pc' \in {"down", "truncate", "init"} => manifest'.attemptCount = 0
    <3> USE DEF KnownInv
    <3>1. CASE Boot \/ Crash
      BY <3>1 DEF Boot, Crash, ForgetMemory, NewManifest, TypeOK
    <3>2. CASE TruncateEvents \/ AppendEvent \/ GoToSleep \/ WakeToObserve
      BY <3>2 DEF TruncateEvents, AppendEvent, GoToSleep, WakeToObserve, memory
    <3>3. CASE OpenFile
      BY <3>3 DEF OpenFile, memory
    <3>4. CASE FillFile
      BY <3>4 DEF FillFile, memory, After, WriteStep, JsonFile
    <3>5. CASE (\E r \in Readings : CollectSucceeds(r)) \/ CollectRaises
      BY <3>5 DEF CollectSucceeds, CollectRaises, Deliver, TypeOK, Manifest
    <3>6. CASE SettlePassed \/ DeadlinePassed \/ TimeoutRecorded \/ WakeToSettle
      BY <3>6 DEF SettlePassed, DeadlinePassed, TimeoutRecorded, EnterPhase, WakeToSettle
    <3>7. CASE UNCHANGED vars
      BY <3>7 DEF vars, memory
    <3> QED
      BY <3>1, <3>2, <3>3, <3>4, <3>5, <3>6, <3>7 DEF Next, Process
  <2>3. ASSUME Readable(disk'["manifest"]) PROVE Known(disk["manifest"])'
    <3> USE DEF Known, Dated, Vouches, Behind, NamesPass
    <3>1. CASE disk'["manifest"] = disk["manifest"]
      <4>1. disk["manifest"] \in Manifest /\ Known(disk["manifest"])
        BY <2>3, <3>1 DEF TypeOK, KnownInv, FileContent, JsonFile, Readable
      <4>2. PICK m \in Manifest : m = disk["manifest"]
        BY <4>1
      <4>3. Known(m)
        BY <4>1, <4>2
      <4>4. Known(m)'
        BY <4>3, KnownKept
      <4> QED
        BY <3>1, <4>2, <4>4
    <3>2. CASE disk'["manifest"] # disk["manifest"]
      <4>1. FillFile /\ pc \in {"init", "manifest"}
        <5>1. CASE OpenFile
          <6>1. disk'["manifest"] \in {disk["manifest"], Torn}
            BY <5>1, FillTypes DEF OpenFile, TypeOK, JsonFile
          <6> QED
            BY <2>3, <3>2, <6>1 DEF Readable
        <5>2. CASE FillFile
          <6>1. pc \notin {"init", "manifest"} => FileAt(pc) # "manifest"
            BY DEF FileAt
          <6>2. FileAt(pc) # "manifest" => disk'["manifest"] = disk["manifest"]
            BY <5>2 DEF FillFile, TypeOK, JsonFile
          <6> QED
            BY <3>2, <5>2, <6>1, <6>2
        <5>3. UNCHANGED disk \/ OpenFile \/ FillFile
          BY DEF Next, Process, Boot, TruncateEvents, AppendEvent, CollectSucceeds,
                 CollectRaises, SettlePassed, DeadlinePassed, TimeoutRecorded, EnterPhase,
                 GoToSleep, WakeToSettle, WakeToObserve, Crash, vars
        <5> QED
          BY <3>2, <5>1, <5>2, <5>3
      <4>2. disk'["manifest"] = manifest /\ Known(manifest)'
        BY <4>1, WrittenIsKnown
      <4>3. manifest' = manifest
        BY <4>1 DEF FillFile, memory
      <4> QED
        BY <4>2, <4>3
    <3> QED
      BY <3>1, <3>2
  <2> QED
    BY <2>1, <2>2, <2>3 DEF KnownInv, Readable
<1> QED
  BY <1>1, <1>2, OrchestratorTypes, LogInvHolds, BundleInvHolds, PTL DEF Spec

-----------------------------------------------------------------------------
(***************************************************************************)
(* The validator beside the orchestrator.  It writes none of its files, so *)
(* the orchestrator it watches is the orchestrator alone.                  *)
(***************************************************************************)
LEMMA ValidatorOnlyReads == ESpec => Spec
<1>1. EInit => Init
  BY DEF EInit
<1>2. [ENext]_allVars => [Next]_vars
  BY DEF ENext, allVars
<1> QED
  BY <1>1, <1>2, PTL DEF ESpec, Spec

(***************************************************************************)
(* What the validator holds has the types of the files it read, each of    *)
(* them truncated or missing at worst.                                     *)
(***************************************************************************)
THEOREM ETypes == ESpec => []ETypeOK
<1>0. /\ Absent \in FileContent("manifest") /\ Absent \in FileContent("verdict")
      /\ Absent \in FileContent("summary") /\ <<>> \in Seq(Event)
  <2>1. \A f : Absent \in FileContent(f)
    BY DEF FileContent
  <2>2. <<>> \in Seq(Event)
    OBVIOUS
  <2> QED
    BY <2>1, <2>2
<1>1. EInit => ETypeOK
  BY <1>0 DEF EInit, ETypeOK
<1>2. TypeOK /\ ETypeOK /\ [ENext]_allVars => ETypeOK'
  <2> SUFFICES ASSUME TypeOK, ETypeOK, [ENext]_allVars PROVE ETypeOK'
    OBVIOUS
  <2> USE DEF ETypeOK
  <2>1. CASE UNCHANGED validator
    BY <2>1 DEF validator
  <2>2. CASE CheckExistence
    BY <2>2 DEF CheckExistence
  <2>3. CASE LoadManifest \/ LoadVerdict \/ LoadSummary
    <3>1. /\ disk["manifest"] \in FileContent("manifest")
          /\ disk["verdict"] \in FileContent("verdict")
          /\ disk["summary"] \in FileContent("summary")
      BY DEF TypeOK, JsonFile
    <3> QED
      BY <2>3, <3>1 DEF LoadManifest, LoadVerdict, LoadSummary
  <2>4. CASE LoadEvents
    BY <2>4 DEF LoadEvents, TypeOK
  <2>5. CASE Report
    BY <2>5, <1>0 DEF Report, Forget
  <2>6. CASE LoadReports
    BY <2>6 DEF LoadReports
  <2> QED
    BY <2>1, <2>2, <2>3, <2>4, <2>5, <2>6 DEF ENext, Validate, allVars
<1> QED
  BY <1>1, <1>2, ValidatorOnlyReads, OrchestratorTypes, PTL DEF ESpec

(***************************************************************************)
(* A file that was there when the validator looked is there when it reads  *)
(* it; and what the manifest it read vouched for then, it vouches for in   *)
(* the events read later, whatever the orchestrator did in between.        *)
(***************************************************************************)
Required == {"manifest", "verdict", "summary"}

FoundIsRead ==
  (vpc # "idle" /\ ~ vMissing) =>
    /\ \A f \in Required : disk[f] # Absent
    /\ vpc \notin {"manifest"} => vManifest # Absent
    /\ vpc \notin {"manifest", "verdict"} => vVerdict # Absent

ReadIsKnown ==
  Readable(vManifest) =>
    /\ Dated(vManifest)
    /\ vpc \in {"verdict", "summary", "events"} => Known(vManifest)
    /\ vpc \in {"reports", "done"} => Vouches(vManifest, vEvents)

LEMMA FilesStay ==
  ASSUME TypeOK, [Next]_vars, NEW f \in JsonFile, disk[f] # Absent
  PROVE  disk'[f] # Absent
<1> DOMAIN disk = JsonFile
  BY DEF TypeOK
<1>1. CASE OpenFile
  BY <1>1, FileAssumption DEF OpenFile
<1>2. CASE FillFile
  <2>1. Payload(pc) \in Manifest \cup Verdict \cup Summary
    BY DEF Payload, TypeOK, FailureSummary, Summary, Verdict, Manifest
  <2>2. Payload(pc) # Absent
    BY <2>1, FileAssumption
  <2> QED
    BY <1>2, <2>2 DEF FillFile
<1>3. UNCHANGED disk \/ OpenFile \/ FillFile
  BY DEF Next, Process, Boot, TruncateEvents, AppendEvent, CollectSucceeds,
         CollectRaises, SettlePassed, DeadlinePassed, TimeoutRecorded, EnterPhase,
         GoToSleep, WakeToSettle, WakeToObserve, Crash, vars
<1> QED
  BY <1>1, <1>2, <1>3

LEMMA FoundIsReadHolds == ESpec => []FoundIsRead
<1> USE DEF FoundIsRead, Required
<1>1. EInit => FoundIsRead
  BY DEF EInit
<1>2. TypeOK /\ ETypeOK /\ FoundIsRead /\ [ENext]_allVars => FoundIsRead'
  <2> SUFFICES ASSUME TypeOK, ETypeOK, FoundIsRead, [ENext]_allVars PROVE FoundIsRead'
    OBVIOUS
  <2>1. CASE UNCHANGED validator
    <3>1. [Next]_vars
      BY DEF ENext, allVars
    <3>2. \A f \in Required : disk[f] # Absent => disk'[f] # Absent
      BY <3>1, FilesStay DEF JsonFile
    <3> QED
      BY <2>1, <3>2 DEF validator
  <2>2. CASE CheckExistence /\ UNCHANGED vars
    BY <2>2 DEF CheckExistence, vars
  <2>3. CASE /\ LoadManifest \/ LoadVerdict \/ LoadSummary \/ LoadEvents \/ LoadReports
             /\ UNCHANGED vars
    BY <2>3 DEF LoadManifest, LoadVerdict, LoadSummary, LoadEvents, LoadReports, vars
  <2>4. CASE Report
    BY <2>4 DEF Report
  <2> QED
    BY <2>1, <2>2, <2>3, <2>4 DEF ENext, Validate, allVars
<1> QED
  BY <1>1, <1>2, ValidatorOnlyReads, OrchestratorTypes, ETypes, PTL DEF ESpec

LEMMA ReadIsKnownHolds == ESpec => []ReadIsKnown
<1> USE DEF ReadIsKnown
<1>1. EInit => ReadIsKnown
  BY DEF EInit, Readable
<1>2. TypeOK /\ LogInv /\ KnownInv /\ ETypeOK /\ ReadIsKnown /\ [ENext]_allVars
        => ReadIsKnown'
  <2> SUFFICES ASSUME TypeOK, LogInv, KnownInv, ETypeOK, ReadIsKnown, [ENext]_allVars,
                      Readable(vManifest')
               PROVE  ReadIsKnown'
    BY DEF Readable
  <2> USE DEF Known, Dated, Vouches, Behind, NamesPass
  <2>1. CASE Next /\ UNCHANGED validator
    <3>1. vManifest' = vManifest /\ Readable(vManifest) /\ UNCHANGED <<vpc, vEvents>>
      BY <2>1 DEF validator
    <3>2. vManifest \in Manifest
      BY <3>1 DEF ETypeOK, FileContent, Readable
    <3>3. PICK m \in Manifest : m = vManifest
      BY <3>2
    <3>4. CASE vpc \in {"verdict", "summary", "events"}
      <4>1. Known(m)
        BY <3>1, <3>3, <3>4
      <4>2. [Next]_vars
        BY <2>1
      <4>3. Known(m)'
        BY <4>1, <4>2, KnownKept
      <4> QED
        BY <3>1, <3>3, <3>4, <4>3
    <3>5. CASE vpc \notin {"verdict", "summary", "events"}
      BY <3>1, <3>5
    <3> QED
      BY <3>4, <3>5
  <2>2. CASE UNCHANGED allVars
    BY <2>2 DEF allVars, validator, vars, memory
  <2>3. CASE CheckExistence /\ UNCHANGED vars
    BY <2>3 DEF CheckExistence
  <2>4. CASE LoadManifest /\ UNCHANGED vars
    <3>1. Readable(disk["manifest"]) /\ Known(disk["manifest"])
      BY <2>4 DEF LoadManifest, KnownInv
    <3> QED
      BY <2>4, <3>1 DEF LoadManifest, vars, memory
  <2>5. CASE (LoadVerdict \/ LoadSummary) /\ UNCHANGED vars
    BY <2>5 DEF LoadVerdict, LoadSummary, vars, memory
  <2>6. CASE LoadEvents /\ UNCHANGED vars
    BY <2>6 DEF LoadEvents
  <2>7. CASE Report
    BY <2>7 DEF Report, Forget, Readable
  <2>8. CASE LoadReports /\ UNCHANGED vars
    BY <2>8 DEF LoadReports
  <2> QED
    BY <2>1, <2>2, <2>3, <2>4, <2>5, <2>6, <2>7, <2>8 DEF ENext, Validate
<1> QED
  BY <1>1, <1>2, ValidatorOnlyReads, OrchestratorTypes, LogInvHolds, KnownInvHolds,
     ETypes, PTL DEF ESpec

(***************************************************************************)
(* No false green: four files read at four moments, possibly of different  *)
(* cycles and runs, are accepted as a pass only if verdict, manifest and   *)
(* last event are of one cycle (the validator's cross-checks on the run,   *)
(* the number of the attempt, the status and the time are enough).         *)
(***************************************************************************)
THEOREM AcceptedPasses == ESpec => []AcceptedPassIsOneCycle
<1>1. ETypeOK /\ FoundIsRead /\ ReadIsKnown => AcceptedPassIsOneCycle
  <2> SUFFICES ASSUME ETypeOK, FoundIsRead, ReadIsKnown, vpc = "done", reportValid,
                      vVerdict.status = "pass", vManifest.attemptCount > 0
               PROVE  /\ lastSeen.runId = vVerdict.runId
                      /\ lastSeen.capturedAt = vVerdict.capturedAt
                      /\ vManifest.attemptCount = lastSeen.attempt
                      /\ vManifest.lastVerdictAt = vVerdict.capturedAt
    BY DEF AcceptedPassIsOneCycle
  <2>1. ~ vMissing /\ Torn \notin {vManifest, vVerdict, vSummary} /\ vEvents # <<>>
    BY DEF reportValid, Errors
  <2>2. Readable(vManifest) /\ Readable(vVerdict)
    BY <2>1 DEF FoundIsRead, Readable
  <2>3. vManifest \in Manifest /\ vVerdict \in Verdict
    BY <2>2 DEF ETypeOK, FileContent, Readable
  <2>4. ManifestErrors(vManifest, vVerdict) = {} /\ LogErrors(vManifest, vVerdict, vEvents) = {}
    BY <2>1, <2>2 DEF reportValid, Errors
  <2>5. /\ vVerdict.runId = vManifest.runId
        /\ vManifest.lastStatus \in {"none", "pass"}
        /\ vManifest.lastVerdictAt \in {0, vVerdict.capturedAt}
    BY <2>4 DEF ManifestErrors
  <2>6. NamesPass(vManifest) /\ vManifest.lastVerdictAt = vVerdict.capturedAt
    BY <2>2, <2>5 DEF ReadIsKnown, Dated, Result, NamesPass
  <2>7. /\ \A i \in DOMAIN vEvents : vEvents[i].runId = vManifest.runId
        /\ vManifest.attemptCount \in {0, lastSeen.attempt}
        /\ lastSeen.status = "pass"
    BY <2>2, <2>4 DEF LogErrors, lastSeen
  <2>8. Len(vEvents) \in DOMAIN vEvents
    BY <2>1 DEF ETypeOK
  <2>9. vManifest.attemptCount = lastSeen.attempt
    BY <2>7
  <2>10. lastSeen.runId = vManifest.runId /\ lastSeen.capturedAt = vManifest.lastVerdictAt
    BY <2>2, <2>6, <2>7, <2>8, <2>9 DEF ReadIsKnown, Vouches, lastSeen
  <2> QED
    BY <2>5, <2>6, <2>9, <2>10
<1> QED
  BY <1>1, ETypes, FoundIsReadHolds, ReadIsKnownHolds, PTL
=============================================================================
