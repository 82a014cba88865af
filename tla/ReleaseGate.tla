----------------------------- MODULE ReleaseGate -----------------------------
(***************************************************************************)
(* `make test-release-gate': unit tests, the core and operational reports, *)
(* the acceptance summary (which collects both reports again), the golden  *)
(* baseline validated and compared, and at the end the quality report,     *)
(* which can fail nothing.  A step that fails ends the gate.               *)
(*                                                                         *)
(* Gates and single targets follow one another.  Captures work on files of *)
(* their own, which only `make diff-baseline' and the end of the gate      *)
(* read: they run beside that target, which is the end of the gate, in     *)
(* behaviours without gates.  Gates start with a complete baseline: with   *)
(* the pending one of the repository all of them end at its validation.    *)
(* Sessions take their steps during collections, and stay where they are   *)
(* between them.                                                           *)
(***************************************************************************)
EXTENDS ReadinessReport, GoldenBaseline

CONSTANTS
    PackChoices,    \* values of PLATFORM_SCENARIO_PACKS
    MaxGates,       \* bound: gates started
    MaxSessions,    \* bound: documents sessions write
    MaxChowns       \* bound: changes of the owner of the first directory

VARIABLES
    stage,          \* the step of the gate, "idle" between gates
    own,            \* outcomes of the summary's own unit tests and core report
    acceptance,     \* the status of the last acceptance summary
    diff,           \* the status of the last comparison
    compared,       \* ghost: the captures its files were of
    quiet,          \* ghost: no capture moved since the last validation
    capturing,      \* whether the behaviour is one of captures
    gates, sessions, chowns     \* for the bounds

gateVars == <<stage, own, acceptance, diff, compared, quiet, capturing, gates, sessions, chowns>>
readinessVars == <<evidenceVars, reportVars>>
vars == <<readinessVars, goldenVars, gateVars>>

Init ==
    /\ GoldenInit
    /\ copy = [d \in Dir |-> Absent] /\ locked \in {{}, {1}, Dir}
    /\ writing = [w \in Writer |-> NotWriting]
    /\ pc = "none" /\ active = {} /\ lanePassed = FALSE /\ roundtrip = NoRoundtrip
    /\ passed = {} /\ result = NoResult /\ disturbed = FALSE
    /\ reportFile = [d \in Dir |-> Absent] /\ latest = [status |-> "none", dir |-> 0]
    /\ stage = "idle" /\ own = [unit |-> FALSE, core |-> FALSE]
    /\ acceptance = "none" /\ diff = "none" /\ compared = {} /\ quiet = FALSE /\ capturing = FALSE
    /\ gates = 0 /\ sessions = 0 /\ chowns = 0

Enter(s) == stage' = s
StartAt(p) == pc' = p
RestOfReport == <<active, lanePassed, roundtrip, passed, result, disturbed,
                  reportFile, latest>>
RestOfGate == <<own, acceptance, diff, compared, quiet, capturing, gates, sessions, chowns>>

\* A program ends, whatever it was doing, and its variables with it.
Exit ==
    /\ StartAt("none") /\ EndWrite("lane")
    /\ lanePassed' = FALSE /\ roundtrip' = NoRoundtrip /\ passed' = {}
    /\ result' = NoResult /\ disturbed' = FALSE
    /\ UNCHANGED <<copy, locked, reportFile, latest>>

\* make stops at the first step that fails.
Stop == Exit /\ Enter("idle") /\ active' = {}

-----------------------------------------------------------------------------
StartGate ==
    /\ stage = "idle" /\ gates < MaxGates /\ ~capturing /\ IsComplete
    /\ gates' = gates + 1
    /\ \E named \in PackChoices : active' = ResolveActive(named, "none")
    /\ acceptance' = "none" /\ diff' = "none" /\ compared' = {}
    /\ Enter("checks")
    /\ UNCHANGED <<evidenceVars, goldenVars, pc, lanePassed, roundtrip, passed,
                   result, disturbed, reportFile, latest, own, quiet, capturing,
                   sessions, chowns>>

\* The unit tests, and the core report, which reads the containers only.
UnitAndCore ==
    /\ stage = "checks"
    /\ \/ Stop
       \/ /\ Enter("operational") /\ StartAt("begin")
          /\ UNCHANGED evidenceVars /\ UNCHANGED RestOfReport
    /\ UNCHANGED goldenVars /\ UNCHANGED RestOfGate

\* validate_runtime_operational.py writes the report before it exits.
ReportCollected ==
    /\ stage = "operational" /\ pc = "collected"
    /\ StartAt("write_report")
    /\ UNCHANGED <<evidenceVars, goldenVars, gateVars>> /\ UNCHANGED RestOfReport

ReportWritten ==
    /\ stage = "operational" /\ pc = "written"
    /\ IF result.status = "pass"
       THEN /\ \E unit, core \in BOOLEAN : own' = [unit |-> unit, core |-> core]
            /\ Enter("acceptance") /\ StartAt("begin")
            /\ UNCHANGED evidenceVars /\ UNCHANGED RestOfReport
       ELSE Stop /\ UNCHANGED own
    /\ UNCHANGED <<acceptance, diff, compared, quiet, capturing, gates, sessions, chowns>>
    /\ UNCHANGED goldenVars

\* A program that raised, a kill, or the owner pressing ^C.
GateBreaks ==
    /\ stage # "idle"
    /\ pc = "raised" \/ pc \in {"lane_write", "fill_report"}
    /\ Stop
    /\ UNCHANGED goldenVars /\ UNCHANGED RestOfGate

-----------------------------------------------------------------------------
(* generate_acceptance_summary *)

SupportSurface(scenarios, unsupported) ==
    IF scenarios = {} THEN "partial" ELSE IF unsupported = {} THEN "pass" ELSE "fail"

Status(b) == IF b THEN "pass" ELSE "fail"

\* In the order of the report.
Surfaces ==
    <<Status(own.unit), Status(own.core), result.status,
      SupportSurface(result.support.activeScenarios, result.support.sessionUnsupported),
      SupportSurface(result.support.activeScenarios, result.support.unsupported)>>

\* Mutant: every surface overwrites what the ones before it said.
Overall_LastWins(surfaces) == surfaces[Len(surfaces)]
Overall(surfaces) ==
    LET said == {surfaces[i] : i \in DOMAIN surfaces} IN
    IF "fail" \in said THEN "fail" ELSE IF "partial" \in said THEN "partial" ELSE "pass"

\* The summary is written where the report would be, and must pass.
Summarise ==
    /\ stage = "acceptance" /\ pc = "collected"
    /\ acceptance' = IF WritableDir \in locked THEN "none" ELSE Overall(Surfaces)
    /\ IF acceptance' = "pass" THEN Exit /\ Enter("validate") /\ active' = {} ELSE Stop
    /\ own' = [unit |-> FALSE, core |-> FALSE]
    /\ UNCHANGED goldenVars
    /\ UNCHANGED <<diff, compared, quiet, capturing, gates, sessions, chowns>>

-----------------------------------------------------------------------------
(* The targets validate-golden-baseline, test-acceptance and diff-baseline *)

ReadinessStays == UNCHANGED evidenceVars /\ UNCHANGED reportVars

Validate ==
    /\ stage = "validate"
    /\ IF Validation = "pass" THEN Enter("diff") ELSE Enter("idle")
    /\ ReadinessStays /\ UNCHANGED goldenVars /\ UNCHANGED RestOfGate

\* Mutant: the comparison relies on the validation before test-acceptance.
ValidateAgain_Not ==
    /\ stage = "diff"
    /\ Enter("compare") /\ quiet' = TRUE
    /\ ReadinessStays /\ UNCHANGED goldenVars
    /\ UNCHANGED <<own, acceptance, diff, compared, capturing, gates, sessions, chowns>>
\* test-acceptance, of which only success goes on; then the validation again.
ValidateAgain ==
    /\ stage = "diff"
    /\ IF Validation = "pass" THEN Enter("compare") ELSE Enter("idle")
    /\ quiet' = TRUE
    /\ ReadinessStays /\ UNCHANGED goldenVars
    /\ UNCHANGED <<own, acceptance, diff, compared, capturing, gates, sessions, chowns>>

\* diff_baseline.py: compares, and writes the artifact, which only the first
\* directory may hold; the targets after it read other things.
Surface == {"ldap", "config", "dashboard", "agent-list", "computer-tree"}
Compare ==
    /\ stage = "compare"
    /\ \/ /\ Comparable /\ 1 \notin locked
          /\ \E surfaces \in {{}, Surface}, artifact \in {"missing", "invalid", "pass", "fail"},
                live \in {"pass", "fail"} :
                  diff' = DiffStatus(Diffs(surfaces, artifact, live))
          /\ compared' = {tracked[f] : f \in TrackedFile}
       \/ ~(Comparable /\ 1 \notin locked) /\ UNCHANGED <<diff, compared>>
    /\ Enter("idle")
    /\ ReadinessStays /\ UNCHANGED goldenVars
    /\ UNCHANGED <<own, acceptance, quiet, capturing, gates, sessions, chowns>>

\* `make diff-baseline' alone.
StartDiff ==
    /\ stage = "idle" /\ capturing
    /\ Enter("diff") /\ diff' = "none" /\ compared' = {}
    /\ ReadinessStays /\ UNCHANGED goldenVars
    /\ UNCHANGED <<own, acceptance, quiet, capturing, gates, sessions, chowns>>

-----------------------------------------------------------------------------
Collecting == stage \in {"operational", "acceptance"}

Collect == Collecting /\ CollectionStep /\ UNCHANGED <<goldenVars, gateVars>>

SessionActs ==
    /\ Collecting /\ pc # "raised"
    /\ \/ /\ sessions < MaxSessions /\ SessionBegins /\ sessions' = sessions + 1
       \/ SessionWrites /\ UNCHANGED sessions
    /\ UNCHANGED goldenVars
    /\ UNCHANGED <<stage, own, acceptance, diff, compared, quiet, capturing, gates, chowns>>

Captured ==
    /\ gates = 0
    /\ \E c \in Captures : CaptureStep(c)
    /\ quiet' = FALSE /\ capturing' = TRUE
    /\ ReadinessStays
    /\ UNCHANGED <<stage, own, acceptance, diff, compared, gates, sessions, chowns>>

\* A container wrote the artifacts as root, or somebody gave them back.
Chown ==
    /\ stage = "idle" /\ chowns < MaxChowns /\ ~capturing
    /\ locked' = IF locked = {} THEN {1} ELSE {}
    /\ chowns' = chowns + 1
    /\ UNCHANGED <<copy, writing, reportVars, goldenVars>>
    /\ UNCHANGED <<stage, own, acceptance, diff, compared, quiet, capturing, gates, sessions>>

Next ==
    \/ StartGate \/ UnitAndCore \/ ReportCollected \/ ReportWritten \/ GateBreaks
    \/ Summarise \/ Validate \/ ValidateAgain \/ Compare \/ StartDiff
    \/ Collect \/ SessionActs \/ Captured \/ Chown

Spec == Init /\ [][Next]_vars

-----------------------------------------------------------------------------
\* Every variable keeps its type.
TypeOK ==
    /\ copy \in [Dir -> {Absent, Torn} \cup Document]
    /\ locked \subseteq Dir
    /\ reportFile \in [Dir -> {Absent, Torn, "pass", "fail"}]
    /\ result.status \in {"none", "pass", "fail"}
    /\ tracked \in [TrackedFile -> Content]
    /\ acceptance \in {"none", "pass", "partial", "fail"}
    /\ diff \in {"none", "pass", "fail"}

\* An acceptance summary that passes was earned in its own collection: the
\* unit tests, both reports and every check of an active pack passed, the
\* packs exercise a session, every mutation step they declare is supported,
\* and the browser test left its evidence in that collection, not in the
\* one the report file is of (generate_acceptance_summary.py).
AcceptanceIsEarned ==
    [][acceptance' = "pass" /\ acceptance # "pass" =>
        /\ own.unit /\ own.core /\ result.status = "pass"
        /\ active # {} /\ passed = active
        /\ result.support.unsupported = {}
        /\ RoundtripPack \in active => lanePassed /\ roundtrip.pass /\ roundtrip.fresh]_vars

\* The comparison a gate passes is with the baseline of one capture, unless
\* captures overlapped or one moved after the validation of diff-baseline
\* (Makefile; golden_baseline.py, compare_with_golden_baseline reads the
\* files without validating them).
PassedDiffIsOfOneCapture ==
    diff = "pass" /\ quiet /\ ~overlapped => Cardinality(compared) = 1
=============================================================================
