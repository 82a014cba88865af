------------------------- MODULE EvidenceValidator -------------------------
(***************************************************************************)
(* The evidence validator beside the orchestrator whose files it reads.    *)
(* Nothing locks the artifacts directory: the validator reads one file     *)
(* after the other while the orchestrator may be anywhere in its writes,   *)
(* or dead, or in a new run.                                               *)
(***************************************************************************)
EXTENDS RegistrationEvidence

VARIABLES
  vpc,        \* next read of the validator; "idle" / "done"
  vMissing,   \* a required artifact was missing when it looked
  vManifest, vVerdict, vSummary, vEvents,    \* what it has read
  vBadReport  \* a runtime support report could not be parsed

validator == <<vpc, vMissing, vManifest, vVerdict, vSummary, vEvents, vBadReport>>
allVars   == <<vars, validator>>

-----------------------------------------------------------------------------
Forget ==
  /\ vMissing' = FALSE /\ vManifest' = Absent /\ vVerdict' = Absent
  /\ vSummary' = Absent /\ vEvents' = <<>> /\ vBadReport' = FALSE

\* The existence of every required artifact is looked up first.
CheckExistence ==
  /\ vpc = "idle" /\ vpc' = "manifest"
  /\ vMissing' = \E f \in {"manifest", "verdict", "summary"} : disk[f] = Absent
  /\ UNCHANGED <<vManifest, vVerdict, vSummary, vEvents, vBadReport>>

LoadManifest ==
  /\ vpc = "manifest" /\ vpc' = "verdict"
  /\ vManifest' = disk["manifest"]
  /\ UNCHANGED <<vMissing, vVerdict, vSummary, vEvents, vBadReport>>

LoadVerdict ==
  /\ vpc = "verdict" /\ vpc' = "summary"
  /\ vVerdict' = disk["verdict"]
  /\ UNCHANGED <<vMissing, vManifest, vSummary, vEvents, vBadReport>>

LoadSummary ==
  /\ vpc = "summary" /\ vpc' = "events"
  /\ vSummary' = disk["summary"]
  /\ UNCHANGED <<vMissing, vManifest, vVerdict, vEvents, vBadReport>>

\* Mutant: an empty file is loaded as no list at all.
LoadEvents_Null ==
  /\ vpc = "events" /\ vpc' = "reports"
  /\ vEvents' = IF events = <<>> THEN Absent ELSE events
  /\ UNCHANGED <<vMissing, vManifest, vVerdict, vSummary, vBadReport>>

LoadEvents ==
  /\ vpc = "events" /\ vpc' = "reports"
  /\ vEvents' = events
  /\ UNCHANGED <<vMissing, vManifest, vVerdict, vSummary, vBadReport>>

\* Other programs write the runtime support reports; either may be cut short.
LoadReports ==
  /\ vpc = "reports" /\ vpc' = "done"
  /\ vBadReport' \in BOOLEAN
  /\ UNCHANGED <<vMissing, vManifest, vVerdict, vSummary, vEvents>>

\* The next validation starts from nothing.
Report == vpc = "done" /\ vpc' = "idle" /\ Forget

Validate ==
  \/ CheckExistence \/ LoadManifest \/ LoadVerdict \/ LoadSummary
  \/ LoadEvents \/ LoadReports \/ Report

EInit ==
  /\ Init
  /\ vpc = "idle" /\ vMissing = FALSE
  /\ vManifest = Absent /\ vVerdict = Absent /\ vSummary = Absent
  /\ vEvents = <<>> /\ vBadReport = FALSE

ENext ==
  \/ Next /\ UNCHANGED validator
  \/ Validate /\ UNCHANGED vars

ESpec == EInit /\ [][ENext]_allVars

-----------------------------------------------------------------------------
ETypeOK ==
  /\ vpc \in {"idle", "manifest", "verdict", "summary", "events", "reports",
             "done"}
  /\ vMissing \in BOOLEAN /\ vBadReport \in BOOLEAN
  /\ vManifest \in FileContent("manifest") /\ vVerdict \in FileContent("verdict")
  /\ vSummary \in FileContent("summary") /\ vEvents \in Seq(Event)

reportValid ==
  Errors(vMissing, vManifest, vVerdict, vSummary, vEvents, vBadReport) = {}

lastSeen == vEvents[Len(vEvents)]

(***************************************************************************)
(* No false green: when the validator accepts a passing bundle whose       *)
(* manifest names an attempt, the verdict it read is the one that manifest *)
(* was written for and the one the last event it read records, although    *)
(* the four files were read at four moments, possibly of different cycles  *)
(* and runs.  (The manifest a run starts with names no attempt, and the    *)
(* cross-checks against it are skipped.)                                   *)
(***************************************************************************)
AcceptedPassIsOneCycle ==
  (/\ vpc = "done" /\ reportValid /\ vVerdict.status = "pass"
   /\ vManifest.attemptCount > 0) =>
    /\ lastSeen.runId = vVerdict.runId /\ lastSeen.capturedAt = vVerdict.capturedAt
    /\ vManifest.attemptCount = lastSeen.attempt
    /\ vManifest.lastVerdictAt = vVerdict.capturedAt

(***************************************************************************)
(* registration_evidence.py:337 says of every accepted bundle that it "is  *)
(* complete and internally consistent": the verdict then carries the       *)
(* failure classes its own last event carries.                             *)
(***************************************************************************)
AcceptedBundleIsConsistent ==
  (vpc = "done" /\ reportValid) => vVerdict.taxonomy = lastSeen.taxonomy
=============================================================================
