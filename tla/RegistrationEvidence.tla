------------------------ MODULE RegistrationEvidence ------------------------
(***************************************************************************)
(* What the evidence validator (platform_runtime/registration_evidence.py) *)
(* finds wrong with a bundle of artifacts, and what the orchestrator       *)
(* guarantees of the bundle it leaves on disk.  Of the runtime support     *)
(* reports it quotes only whether they could be parsed matters: a report   *)
(* that could not be is an error.  The shape checks that every file the    *)
(* orchestrator writes meets (field names, types, the constant backoff     *)
(* section) are left out.                                                  *)
(***************************************************************************)
EXTENDS RegistrationOrchestrator

-----------------------------------------------------------------------------
Readable(x) == x \notin {Absent, Torn}

(***************************************************************************)
(* validate_registration_evidence, section by section: v, m and s are the  *)
(* verdict, the manifest and the failure summary that could be read.       *)
(***************************************************************************)
VerdictErrors(v) ==
  LET agents == PerAgent(v.reading)
  IN  {e \in {"per agent state", "per agent count", "pass with failed checks",
              "pass with taxonomy"} :
         \/ /\ e = "per agent state"
            /\ \E a \in DOMAIN agents :
                 agents[a].highestState \notin agents[a].states \cup {"missing"}
         \/ /\ v.status = "pass"
            /\ \/ /\ e = "per agent count"
                  /\ Expected > 0 /\ Cardinality(DOMAIN agents) # Expected
               \/ e = "pass with failed checks" /\ v.failedChecks # {}
               \/ e = "pass with taxonomy" /\ v.taxonomy # {}}

\* Mutant: the time of the verdict is not compared.
ManifestErrors_NoTime(m, v) ==
  {e \in {"verdict run", "manifest status"} :
     \/ e = "verdict run" /\ v.runId # m.runId
     \/ e = "manifest status" /\ m.lastStatus \notin {"none", v.status}}

ManifestErrors(m, v) ==
  {e \in {"verdict run", "manifest status", "manifest time"} :
     \/ e = "verdict run" /\ v.runId # m.runId
     \/ e = "manifest status" /\ m.lastStatus \notin {"none", v.status}
     \/ e = "manifest time" /\ m.lastVerdictAt \notin {0, v.capturedAt}}

SummaryErrors(s, v) ==
  {e \in {"summary run", "summary status", "summary checks", "summary taxonomy"} :
     \/ e = "summary run" /\ s.runId # v.runId
     \/ e = "summary status" /\ s.status # v.status
     \/ e = "summary checks" /\ s.failedChecks # v.failedChecks
     \/ e = "summary taxonomy" /\ s.taxonomy # v.taxonomy}

LogErrors(m, v, log) ==
  LET bundleRun == IF Readable(m) THEN {m.runId}
                   ELSE IF Readable(v) THEN {v.runId} ELSE {}
      last == log[Len(log)]
  IN  {e \in {"event run", "event phase", "attempt count", "event status"} :
         \/ e = "event run" /\ \E i \in DOMAIN log, id \in bundleRun : log[i].runId # id
         \/ e = "event phase" /\ \E i \in DOMAIN log : log[i].phase \notin Phase
         \/ e = "attempt count" /\ Readable(m) /\ m.attemptCount \notin {0, last.attempt}
         \/ e = "event status" /\ Readable(v) /\ v.status # last.status}

\* badReport: a runtime support report is there and is no JSON object.
Errors(missing, m, v, s, log, badReport) ==
  {e \in {"missing", "invalid json", "no events"} :
     \/ e = "missing" /\ missing
     \/ e = "invalid json" /\ (Torn \in {m, v, s} \/ badReport)
     \/ e = "no events" /\ log = <<>>}
  \cup (IF Readable(v) THEN VerdictErrors(v) ELSE {})
  \cup (IF Readable(m) /\ Readable(v) THEN ManifestErrors(m, v) ELSE {})
  \cup (IF Readable(s) /\ Readable(v) THEN SummaryErrors(s, v) ELSE {})
  \cup (IF log # <<>> THEN LogErrors(m, v, log) ELSE {})

-----------------------------------------------------------------------------
DiskErrors ==
  Errors(\E f \in {"manifest", "verdict", "summary"} : disk[f] = Absent,
         disk["manifest"], disk["verdict"], disk["summary"], events, FALSE)

(***************************************************************************)
(* Whatever happened before (crashes in the middle of a write, earlier     *)
(* runs), once a cycle of writes is complete the bundle on disk passes     *)
(* every check of the validator.  The one exception is a pass over         *)
(* surfaces that list more identities than agents are expected.  (The      *)
(* orchestrator does not write the runtime support reports: they are taken *)
(* to be absent or whole here.)                                            *)
(***************************************************************************)
CompletedBundleIsValid ==
  pc \in {"decide", "sleep"} =>
    DiskErrors =
      IF verdict.status = "pass" /\ Cardinality(AllIds(verdict.reading)) # Expected
      THEN {"per agent count"} ELSE {}

(***************************************************************************)
(* The event file never mixes runs with the manifest beside it: whenever   *)
(* the manifest can be read and there is an event, both are of one run.    *)
(* (__init__ truncates the events before it replaces the manifest.)        *)
(***************************************************************************)
EventsAreOfTheManifestsRun ==
  (Readable(disk["manifest"]) /\ events # <<>>) =>
    \A i \in DOMAIN events : events[i].runId = disk["manifest"].runId

(***************************************************************************)
(* The n-th settling attempt is not made before n - 1 exponentially        *)
(* growing pauses (each at most MaxBackoff) or the deadline have passed.   *)
(***************************************************************************)
Pause[i \in Nat] ==
  IF i = 0 THEN MinBackoff ELSE Smaller(2 * Pause[i - 1], MaxBackoff)

Pauses[n \in Nat] == IF n = 0 THEN 0 ELSE Pauses[n - 1] + Pause[n - 1]

SettlingIsPaced ==
  (phase = "settle" /\ attempt > 0) =>
    LET waits == IF pc = "collect" THEN attempt ELSE attempt - 1
    IN  elapsed >= Smaller(Timeout, Pauses[waits])

(***************************************************************************)
(* The orchestrator's writes and restarts implement the log its readers    *)
(* are promised: no attempt is skipped or repeated, the settle phase is    *)
(* closed by a pass or by exactly one timeout record.                      *)
(***************************************************************************)
Log == INSTANCE RegistrationLog WITH log <- events

ImplementsLog == Log!Spec

(***************************************************************************)
(* A run that is not killed leaves the settle loop.                        *)
(***************************************************************************)
SettlingEnds ==
  (pc # "down") ~> (pc = "down" \/ phase = "steady-state")
=============================================================================
