--------------------------- MODULE ReadinessReport ---------------------------
(***************************************************************************)
(* A collection of the operational readiness report, check after check,    *)
(* and the report file it leaves.  The collection that runs the browser    *)
(* test clears the evidence first and reads it afterwards; the test writes *)
(* it; the support section reads it again, minutes later.  The same        *)
(* collection serves the report target and the acceptance summary.         *)
(*                                                                         *)
(* At most one collection runs at a time (PolicyRoundtrip has several);    *)
(* sessions that use the adapter or run the browser test run beside it.    *)
(* The policy roundtrip, the parity of registrations and the checks that   *)
(* only read have any outcome here: other modules are about them.          *)
(***************************************************************************)
EXTENDS ScenarioSupport

CONSTANT Topology       \* the name of the topology profile

VARIABLES
    pc,             \* where the collection is
    active,         \* PLATFORM_SCENARIO_PACKS
    lanePassed,     \* the exit status of the browser test
    roundtrip,      \* what the ui_user_policy_roundtrip check came to
    passed,         \* scenarios of the report with status pass
    result,         \* the report that was collected
    disturbed,      \* ghost: a session wrote since the evidence was cleared
    reportFile,     \* the report in each directory
    latest          \* ghost: the last report written, and where

reportVars == <<pc, active, lanePassed, roundtrip, passed, result, disturbed,
                reportFile, latest>>

NoRoundtrip == [pass |-> FALSE, fresh |-> FALSE]
NoResult == [status |-> "none", support |-> "none"]

Go(p) == pc' = p
WriterVars == <<copy, writing>>

-----------------------------------------------------------------------------
(***************************************************************************)
(* collect_runtime_operational_report.  The clearing belongs to the check  *)
(* of the roundtrip pack; without that pack the evidence is left alone.    *)
(***************************************************************************)
BeginCollection ==
    /\ pc = "begin"
    /\ copy' = [d \in Dir |-> IF Readable(d) THEN [copy[d] EXCEPT !.fresh = FALSE]
                             ELSE copy[d]]
    /\ disturbed' = (writing["session"].dir # 0)
    /\ roundtrip' = NoRoundtrip
    /\ Go(IF RoundtripPack \in active THEN "clear1" ELSE "others")
    /\ UNCHANGED <<locked, writing, active, lanePassed, passed, result,
                   reportFile, latest>>

\* An exception of a check ends the program: there is no report.
Clear(d, p, next) ==
    /\ pc = p
    /\ IF ClearRaises(d) THEN Go("raised") /\ UNCHANGED WriterVars
       ELSE Unlink(d) /\ Go(next)
    /\ UNCHANGED <<locked, active, lanePassed, roundtrip, passed,
                   result, disturbed, reportFile, latest>>

ClearFirst == Clear(1, "clear1", "clear2")
ClearSecond == Clear(2, "clear2", "lane")

LaneVars == <<locked, active, roundtrip, passed, result,
              disturbed, reportFile, latest>>

\* The browser test comes to its evidence, or fails before.
LaneRuns ==
    /\ pc = "lane"
    /\ \/ BeginWrite("lane", LaneSteps) /\ Go("lane_write") /\ UNCHANGED lanePassed
       \/ lanePassed' = FALSE /\ Go("roundtrip") /\ UNCHANGED writing
    /\ UNCHANGED copy /\ UNCHANGED LaneVars

LaneWrites ==
    /\ pc = "lane_write" /\ WriteStep("lane")
    /\ UNCHANGED <<pc, lanePassed>> /\ UNCHANGED LaneVars

\* The write raised, the last assertion failed, or the test passed; its
\* time limit may strike at any moment.
LaneEnds ==
    /\ pc = "lane_write"
    /\ \E p \in BOOLEAN :
         /\ p => ~WriteBusy("lane") /\ ~WriteRaises("lane")
         /\ lanePassed' = p
    /\ EndWrite("lane") /\ Go("roundtrip")
    /\ UNCHANGED copy /\ UNCHANGED LaneVars

RoundtripPasses == lanePassed /\ CreateUserVerified /\ MembershipVerified

\* The rest of _run_ui_user_policy_roundtrip_check.
CheckRoundtrip ==
    /\ pc = "roundtrip"
    /\ roundtrip' = [pass |-> RoundtripPasses,
                     fresh |-> Found(Load) /\ Load.fresh]
    /\ Go("others")
    /\ UNCHANGED WriterVars
    /\ UNCHANGED <<locked, active, lanePassed, passed, result,
                   disturbed, reportFile, latest>>

\* The checks with an outcome of their own.
Free == Registry \ {"ui_user_policy_roundtrip", "session_effect_contract"}

Failing(failed) ==
    failed \cup {c \in {"ui_user_policy_roundtrip"} : ~roundtrip.pass}
           \cup {c \in {"session_effect_contract"} :
                   ~SessionEffectContract(active, Registry)}

\* The remaining checks: those of the packs, and those of every report.
CheckOthers ==
    /\ pc = "others"
    /\ \/ /\ \E failed \in SUBSET Free, rest \in BOOLEAN :
               LET ok == {n \in active :
                            ScenarioStatus(n, Topology, Registry, Failing(failed)) = "pass"}
               IN  /\ passed' = ok
                   /\ result' = [NoResult EXCEPT !.status =
                        IF rest /\ ok = active /\ "policy_roundtrip" \notin failed
                        THEN "pass" ELSE "fail"]
          /\ Go("support")
       \/ Go("raised") /\ UNCHANGED <<passed, result>>
    /\ UNCHANGED WriterVars
    /\ UNCHANGED <<locked, active, lanePassed, roundtrip, disturbed,
                   reportFile, latest>>

CollectSupport ==
    /\ pc = "support"
    /\ result' = [result EXCEPT !.support = SupportSummary(active, passed, Registry)]
    /\ Go("collected")
    /\ UNCHANGED WriterVars
    /\ UNCHANGED <<locked, active, lanePassed, roundtrip, passed,
                   disturbed, reportFile, latest>>

-----------------------------------------------------------------------------
(***************************************************************************)
(* write_runtime_report: the first directory, or when that may not be      *)
(* written the fallback; the document is truncated and filled.  The        *)
(* Markdown beside it is layout.                                           *)
(***************************************************************************)
ReportVars == <<copy, locked, writing, active, lanePassed, roundtrip,
                passed, result, disturbed>>
WritableDir == IF 1 \in locked THEN 2 ELSE 1

OpenReport ==
    /\ pc = "write_report"
    /\ IF WritableDir \in locked THEN Go("raised") /\ UNCHANGED reportFile
       ELSE /\ reportFile' = [reportFile EXCEPT ![WritableDir] = Torn]
            /\ Go("fill_report")
    /\ UNCHANGED latest /\ UNCHANGED ReportVars

FillReport ==
    /\ pc = "fill_report"
    /\ reportFile' = [reportFile EXCEPT ![WritableDir] = result.status]
    /\ latest' = [status |-> result.status, dir |-> WritableDir]
    /\ Go("written")
    /\ UNCHANGED ReportVars

\* Mutant: the fallback is looked at first.
RuntimeArtifact_FallbackFirst ==
    IF reportFile[2] # Absent THEN reportFile[2] ELSE reportFile[1]
\* load_runtime_artifact of the quality report: the first that exists.
RuntimeArtifact ==
    IF reportFile[1] # Absent THEN reportFile[1] ELSE reportFile[2]

-----------------------------------------------------------------------------
\* The sessions beside the collection.
SessionBegins ==
    /\ CreateDirectoryUser \/ AddDirectoryEntriesToUserGroup \/ TestVerifies
    /\ disturbed' = TRUE
    /\ UNCHANGED <<copy, locked, pc, active, lanePassed, roundtrip,
                   passed, result, reportFile, latest>>

SessionWrites ==
    /\ WriteStep("session")
    /\ UNCHANGED <<locked, pc, active, lanePassed, roundtrip, passed,
                   result, disturbed, reportFile, latest>>

CollectionStep ==
    \/ BeginCollection \/ ClearFirst \/ ClearSecond \/ LaneRuns \/ LaneWrites
    \/ LaneEnds \/ CheckRoundtrip \/ CheckOthers \/ CollectSupport
    \/ OpenReport \/ FillReport

-----------------------------------------------------------------------------
\* A roundtrip check that passes rests on evidence put on disk after it had
\* begun, whichever of the two copies it read: what could not be cleared
\* stops it, whatever the directories permit and whoever else writes
\* (mutation_evidence.py, readiness/__init__.py:535).
RoundtripRestsOnFreshEvidence ==
    roundtrip.pass => roundtrip.fresh

\* When nobody else wrote evidence, the support section of a passed report
\* agrees with the check it contains: every step of the active packs is
\* supported, and with the roundtrip pack the existing-group mode too
\* (mutation_support.py; the document is the browser test's).
SupportAgreesWithChecks ==
    pc = "collected" /\ result.status = "pass" /\ ~disturbed /\ RoundtripPack \in active
        => result.support.unsupported = {} /\ result.support.existingGroup

\* Whoever reads the report as the quality report does finds a pass only if
\* the last report written is a pass, except when that one had to go to the
\* fallback directory
\* (readiness/__init__.py, write_runtime_report; generate_quality_report.py).
PassShownIsLatest ==
    RuntimeArtifact = "pass" => latest.status = "pass" \/ latest.dir = 2
=============================================================================
