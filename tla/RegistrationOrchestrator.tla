---------------------- MODULE RegistrationOrchestrator ----------------------
(***************************************************************************)
(* The registration orchestrator process                                   *)
(* (platform/services/registration-orchestrator/orchestrator.py): it       *)
(* starts a run, retries with exponential backoff until the registration   *)
(* settles or a deadline passes, then keeps observing for ever, and after  *)
(* every collection writes four JSON files and appends one event.          *)
(*                                                                         *)
(* Every write_text truncates its file before it fills it, so each JSON    *)
(* write is two steps.  The container is restarted unless it is stopped,   *)
(* so the process may die between any two steps and start again over the   *)
(* files it left behind.                                                   *)
(***************************************************************************)
EXTENDS RegistrationVerdict

CONSTANTS
  Readings,     \* what a collection that does not raise may read
  Timeout,      \* PLATFORM_ORCHESTRATOR_TIMEOUT_SECONDS
  MinBackoff,   \* PLATFORM_ORCHESTRATOR_MIN_BACKOFF_SECONDS
  MaxBackoff,   \* PLATFORM_ORCHESTRATOR_MAX_BACKOFF_SECONDS
  MaxRuns,      \* bound: how often the process is started
  MaxAttempts,  \* bound: the steady-state attempt after which a run idles
  Absent, Torn  \* a JSON file that does not exist / that is truncated

ASSUME ReadingsAssumption == Readings \subseteq Reading
ASSUME TimingAssumption ==
  /\ Timeout \in Nat
  /\ MinBackoff \in Nat \ {0} /\ MaxBackoff \in Nat /\ MinBackoff <= MaxBackoff
ASSUME BoundsAssumption == MaxRuns \in Nat /\ MaxAttempts \in Nat

Smaller(m, n) == IF m <= n THEN m ELSE n

-----------------------------------------------------------------------------
(***************************************************************************)
(* Run ids are numbered by start (uuid4 makes them distinct); wall-clock   *)
(* readings are numbered by `stamp'.  checks, surfaces and perAgent of a   *)
(* verdict are functions of its reading and are not stored a second time.  *)
(***************************************************************************)
Phase  == {"settle", "timeout", "steady-state"}
Result == {"pass", "fail"}

Verdict ==
  [runId : Nat, reading : Reading, status : Result,
   failedChecks : SUBSET CheckName, taxonomy : SUBSET Code, capturedAt : Nat]

Manifest ==
  [runId : Nat, startedAt : Nat, lastVerdictAt : Nat,
   lastStatus : Result \cup {"none"}, attemptCount : Nat]

Summary ==
  [runId : Nat, status : Result, capturedAt : Nat,
   failedChecks : SUBSET CheckName, taxonomy : SUBSET Code]

Event ==
  [runId : Nat, attempt : Nat, phase : Phase, status : Result,
   failedChecks : SUBSET CheckName, taxonomy : SUBSET Code, capturedAt : Nat]

ASSUME FileAssumption ==
  /\ Absent # Torn
  /\ {Absent, Torn} \cap (Verdict \cup Manifest \cup Summary) = {}

VARIABLES
  pc,         \* where the process is; "down" when there is none
  opened,     \* the file of the current write step is truncated
  phase,      \* which loop is running
  attempt,    \* local variable `attempt' of that loop
  elapsed,    \* monotonic seconds since settling began, capped at Timeout
  backoff,    \* backoff_seconds
  manifest,   \* self.run_manifest
  verdict,    \* the verdict being written
  disk,       \* the four JSON files
  events,     \* registration-events.jsonl; absent and empty are the same
  runs,       \* number of runs started so far
  stamp       \* number of wall-clock readings so far

memory == <<phase, attempt, elapsed, backoff, manifest, verdict>>
vars   == <<pc, opened, memory, disk, events, runs, stamp>>

JsonFile == {"manifest", "verdict", "summary", "snapshot"}

Locations ==
  JsonFile \cup {"down", "truncate", "init", "collect", "event", "decide", "sleep"}

FileContent(f) ==
  {Absent, Torn} \cup
  (CASE f = "manifest" -> Manifest [] f = "summary" -> Summary
     [] OTHER -> Verdict)

NewManifest(id, at) ==
  [runId |-> id, startedAt |-> at, lastVerdictAt |-> 0, lastStatus |-> "none",
   attemptCount |-> 0]

NoVerdict ==
  [runId |-> 0, reading |-> EmptyReading, status |-> "fail",
   failedChecks |-> {}, taxonomy |-> {}, capturedAt |-> 0]

TypeOK ==
  /\ pc \in Locations /\ opened \in BOOLEAN
  /\ phase \in Phase /\ attempt \in Nat
  /\ elapsed \in 0 .. Timeout /\ backoff \in MinBackoff .. MaxBackoff
  /\ manifest \in Manifest /\ verdict \in Verdict
  /\ DOMAIN disk = JsonFile
  /\ \A f \in JsonFile : disk[f] \in FileContent(f)
  /\ events \in Seq(Event)
  /\ runs \in Nat /\ stamp \in Nat

ForgetMemory ==
  /\ phase' = "settle" /\ attempt' = 0 /\ elapsed' = 0
  /\ backoff' = MinBackoff
  /\ manifest' = NewManifest(0, 0) /\ verdict' = NoVerdict

Init ==
  /\ pc = "down" /\ opened = FALSE
  /\ phase = "settle" /\ attempt = 0 /\ elapsed = 0 /\ backoff = MinBackoff
  /\ manifest = NewManifest(0, 0) /\ verdict = NoVerdict
  /\ disk = [f \in JsonFile |-> Absent]
  /\ events = <<>>
  /\ runs = 0 /\ stamp = 0

-----------------------------------------------------------------------------
(***************************************************************************)
(* __init__: a new run id, the event file truncated, the manifest written. *)
(* The verdict and summary of the previous run stay where they are.        *)
(***************************************************************************)
Boot ==
  /\ pc = "down" /\ runs < MaxRuns
  /\ runs' = runs + 1 /\ stamp' = stamp + 1
  /\ manifest' = NewManifest(runs + 1, stamp + 1)
  /\ pc' = "truncate"
  /\ UNCHANGED <<opened, phase, attempt, elapsed, backoff, verdict, disk, events>>

\* Mutant: the events of earlier runs are kept.
TruncateEvents_Kept ==
  /\ pc = "truncate"
  /\ pc' = "init"
  /\ UNCHANGED <<opened, memory, disk, events, runs, stamp>>

TruncateEvents ==
  /\ pc = "truncate"
  /\ events' = <<>>
  /\ pc' = "init"
  /\ UNCHANGED <<opened, memory, disk, runs, stamp>>

-----------------------------------------------------------------------------
FailureSummary(id, v) ==
  [runId |-> id, status |-> v.status, capturedAt |-> v.capturedAt,
   failedChecks |-> v.failedChecks, taxonomy |-> v.taxonomy]

EventOf(id, n, ph, v) ==
  [runId |-> id, attempt |-> n, phase |-> ph, status |-> v.status,
   failedChecks |-> v.failedChecks, taxonomy |-> v.taxonomy,
   capturedAt |-> v.capturedAt]

(***************************************************************************)
(* The write steps: which file each one writes, with what, and what comes  *)
(* after it.                                                               *)
(***************************************************************************)
WriteStep == JsonFile \cup {"init"}

FileAt(w) == IF w = "init" THEN "manifest" ELSE w

Payload(w) ==
  CASE w \in {"init", "manifest"} -> manifest
    [] w = "summary" -> FailureSummary(manifest.runId, verdict)
    [] OTHER -> verdict

\* Mutant: the failure summary of the first verdict is left in place.
After_NoSummary(w) ==
  CASE w = "init"     -> "collect"
    [] w = "manifest" -> "verdict"
    [] w = "verdict"  -> IF disk["summary"] = Absent THEN "summary" ELSE "snapshot"
    [] w = "summary"  -> "snapshot"
    [] w = "snapshot" -> "event"

After(w) ==
  CASE w = "init"     -> "collect"
    [] w = "manifest" -> "verdict"
    [] w = "verdict"  -> "summary"
    [] w = "summary"  -> "snapshot"
    [] w = "snapshot" -> "event"

OpenFile ==
  /\ pc \in WriteStep /\ ~ opened
  /\ opened' = TRUE
  /\ disk' = [disk EXCEPT ![FileAt(pc)] = Torn]
  /\ UNCHANGED <<pc, memory, events, runs, stamp>>

FillFile ==
  /\ pc \in WriteStep /\ opened
  /\ opened' = FALSE
  /\ disk' = [disk EXCEPT ![FileAt(pc)] = Payload(pc)]
  /\ pc' = After(pc)
  /\ UNCHANGED <<memory, events, runs, stamp>>

\* One short line, written when the handle is closed.
AppendEvent ==
  /\ pc = "event"
  /\ events' = Append(events, EventOf(manifest.runId, attempt, phase, verdict))
  /\ pc' = "decide"
  /\ UNCHANGED <<opened, memory, disk, runs, stamp>>

-----------------------------------------------------------------------------
(***************************************************************************)
(* collect_verdict and the assignments write_artifacts starts with.  A     *)
(* collection takes any time; only the settle loop looks at the clock.     *)
(* When collecting raises, the substituted snapshot carries the time the   *)
(* run started.  The collection after the deadline repeats the number of   *)
(* the attempt before it.                                                  *)
(***************************************************************************)
VerdictOf(r, errored, at) ==
  LET timedOut == phase = "timeout"
  IN [runId |-> manifest.runId, reading |-> r,
      status |-> Status(r, timedOut, errored),
      failedChecks |-> FailedChecks(r),
      taxonomy |-> Taxonomy(r, timedOut, errored),
      capturedAt |-> at]

\* Mutant: the collection after the deadline counts as one more attempt.
Deliver_TimeoutCounts(v) ==
  /\ attempt' = attempt + 1
  /\ IF phase = "settle" THEN elapsed' \in elapsed .. Timeout
                         ELSE UNCHANGED elapsed
  /\ verdict' = v
  /\ manifest' = [manifest EXCEPT !.lastVerdictAt = v.capturedAt,
                                  !.lastStatus = v.status,
                                  !.attemptCount = attempt']
  /\ pc' = "manifest"

Deliver(v) ==
  /\ attempt' = IF phase = "timeout" THEN attempt ELSE attempt + 1
  /\ IF phase = "settle" THEN elapsed' \in elapsed .. Timeout
                         ELSE UNCHANGED elapsed
  /\ verdict' = v
  /\ manifest' = [manifest EXCEPT !.lastVerdictAt = v.capturedAt,
                                  !.lastStatus = v.status,
                                  !.attemptCount = attempt']
  /\ pc' = "manifest"

CollectSucceeds(r) ==
  /\ pc = "collect"
  /\ stamp' = stamp + 1
  /\ Deliver(VerdictOf(r, FALSE, stamp + 1))
  /\ UNCHANGED <<opened, phase, backoff, disk, events, runs>>

CollectRaises ==
  /\ pc = "collect"
  /\ Deliver(VerdictOf(EmptyReading, TRUE, manifest.startedAt))
  /\ UNCHANGED <<opened, phase, backoff, disk, events, runs, stamp>>

-----------------------------------------------------------------------------
(***************************************************************************)
(* settle_registration after the artifacts of an attempt are written.      *)
(***************************************************************************)
EnterPhase(ph) ==
  /\ phase' = ph
  /\ pc' = "collect"
  /\ UNCHANGED <<opened, attempt, elapsed, backoff, manifest, verdict, disk,
                 events, runs, stamp>>

SettlePassed ==
  /\ pc = "decide" /\ phase = "settle" /\ verdict.status = "pass"
  /\ EnterPhase("steady-state")

\* Mutant: an attempt that ends exactly at the deadline neither sleeps nor stops.
DeadlinePassed_Strict ==
  /\ pc = "decide" /\ phase = "settle" /\ verdict.status = "fail"
  /\ elapsed > Timeout
  /\ EnterPhase("timeout")

DeadlinePassed ==
  /\ pc = "decide" /\ phase = "settle" /\ verdict.status = "fail"
  /\ elapsed >= Timeout
  /\ EnterPhase("timeout")

TimeoutRecorded ==
  /\ pc = "decide" /\ phase = "timeout"
  /\ EnterPhase("steady-state")

GoToSleep ==
  /\ pc = "decide"
  /\ \/ phase = "settle" /\ verdict.status = "fail" /\ elapsed < Timeout
     \/ phase = "steady-state" /\ attempt < MaxAttempts
  /\ pc' = "sleep"
  /\ UNCHANGED <<opened, memory, disk, events, runs, stamp>>

\* Mutant: the pause grows without limit.
WakeToSettle_Unlimited ==
  /\ pc = "sleep" /\ phase = "settle"
  /\ elapsed' \in Smaller(elapsed + backoff, Timeout) .. Timeout
  /\ backoff' = 2 * backoff
  /\ pc' = "collect"
  /\ UNCHANGED <<opened, phase, attempt, manifest, verdict, disk, events, runs, stamp>>

\* Mutant: the pause does not grow.
WakeToSettle_Constant ==
  /\ pc = "sleep" /\ phase = "settle"
  /\ elapsed' \in Smaller(elapsed + backoff, Timeout) .. Timeout
  /\ pc' = "collect"
  /\ UNCHANGED <<opened, phase, attempt, backoff, manifest, verdict, disk, events,
                 runs, stamp>>

\* sleep() lasts at least as long as asked for.
WakeToSettle ==
  /\ pc = "sleep" /\ phase = "settle"
  /\ elapsed' \in Smaller(elapsed + backoff, Timeout) .. Timeout
  /\ backoff' = Smaller(2 * backoff, MaxBackoff)
  /\ pc' = "collect"
  /\ UNCHANGED <<opened, phase, attempt, manifest, verdict, disk, events, runs, stamp>>

WakeToObserve ==
  /\ pc = "sleep" /\ phase = "steady-state"
  /\ pc' = "collect"
  /\ UNCHANGED <<opened, memory, disk, events, runs, stamp>>

\* The process is killed; what it wrote stays.
Crash ==
  /\ pc # "down"
  /\ pc' = "down" /\ opened' = FALSE
  /\ ForgetMemory
  /\ UNCHANGED <<disk, events, runs, stamp>>

-----------------------------------------------------------------------------
Process ==
  \/ TruncateEvents \/ OpenFile \/ FillFile \/ AppendEvent
  \/ (\E r \in Readings : CollectSucceeds(r)) \/ CollectRaises
  \/ SettlePassed \/ DeadlinePassed \/ TimeoutRecorded
  \/ GoToSleep \/ WakeToSettle \/ WakeToObserve

Next == Boot \/ Process \/ Crash

Spec == Init /\ [][Next]_vars

(***************************************************************************)
(* A process that is not killed keeps running: its calls and sleeps end.   *)
(***************************************************************************)
FairSpec == Spec /\ WF_vars(Process)
=============================================================================
