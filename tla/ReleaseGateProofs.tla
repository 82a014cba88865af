-------------------------- MODULE ReleaseGateProofs --------------------------
(***************************************************************************)
(* The release gate, for any packs, any number of gates, captures, files,  *)
(* sessions and changes of owner.  Next is sorted first: a step is one of  *)
(* the collection, of a session, or a move of the gate between them.       *)
(***************************************************************************)
EXTENDS ReleaseGate, GoldenBaselineProofs, FiniteSetTheorems

-----------------------------------------------------------------------------
(* The golden baseline *)

LEMMA NextIsGolden == [Next]_vars => GoldenStep
<1> SUFFICES ASSUME [Next]_vars PROVE GoldenStep
  OBVIOUS
<1>1. CASE UNCHANGED vars
  BY <1>1 DEF vars, GoldenStep
<1>2. CASE Captured
  BY <1>2 DEF Captured, GoldenStep
<1>3. CASE Next /\ ~Captured
  <2>1. UNCHANGED goldenVars
    BY <1>3 DEF Next, StartGate, UnitAndCore, ReportCollected, ReportWritten, GateBreaks,
       Summarise, Validate, ValidateAgain, Compare, StartDiff, Collect, SessionActs, Chown
  <2> QED
    BY <2>1 DEF GoldenStep
<1> QED
  BY <1>1, <1>2, <1>3

\* golden_baseline.py: the invariant of the captures holds beside the gates.
THEOREM GoldenAlways == Spec => []GoldenInv
<1>1. Init => GoldenInv
  BY GoldenStarts DEF Init
<1>2. GoldenInv /\ [Next]_vars => GoldenInv'
  BY GoldenKept, NextIsGolden
<1> QED
  BY <1>1, <1>2, PTL DEF Spec

\* What validates is complete, and its manifest tells what the files are.
LEMMA ValidIsHashed ==
    Validation = "pass" => IsComplete /\ \A f \in TrackedFile : manifest.files[f] = tracked[f]
BY DEF Validation, BaselineErrors, IsComplete

\* golden_baseline.py: a baseline that validates is the work of one capture,
\* whatever was raised or killed before, unless two captures overlapped.
THEOREM ValidBaseline == Spec => []ValidBaselineIsOneCapture
<1>1. GoldenInv => ValidBaselineIsOneCapture
  BY ValidIsHashed DEF GoldenInv, ManifestIsOfOne, ValidBaselineIsOneCapture
<1> QED
  BY <1>1, GoldenAlways, PTL

-----------------------------------------------------------------------------
(* The comparison *)

\* Between the validation and the comparison nothing moves that is not told.
DiffInv ==
    /\ stage = "compare" /\ quiet => Validation = "pass"
    /\ stage # "idle" => diff = "none"
    /\ diff = "pass" /\ quiet /\ ~overlapped => \E c \in Captures : compared = {c}

LEMMA DiffKept == GoldenInv /\ DiffInv /\ [Next]_vars => DiffInv'
<1> SUFFICES ASSUME GoldenInv, DiffInv, [Next]_vars PROVE DiffInv'
  OBVIOUS
<1>1. CASE Captured
  BY <1>1 DEF Captured, DiffInv
<1>2. ASSUME UNCHANGED goldenVars PROVE (Validation' = Validation) /\ (overlapped' = overlapped)
  BY <1>2 DEF goldenVars, Validation, BaselineErrors, IsComplete, ManifestReadable
<1>3. CASE Compare
  <2>1. UNCHANGED goldenVars /\ stage' = "idle" /\ quiet' = quiet /\ stage = "compare"
    BY <1>3 DEF Compare, Enter
  <2>2. ASSUME quiet, ~overlapped, diff' = "pass"
        PROVE  \E c \in Captures : compared' = {c}
    <3>1. Validation = "pass" /\ diff = "none"
      BY <2>1, <2>2 DEF DiffInv
    <3>2. compared' = {tracked[f] : f \in TrackedFile}
      BY <1>3, <2>2, <3>1 DEF Compare
    <3>3. PICK c \in Captures : \A f \in TrackedFile : tracked[f] = c
      BY <2>2, <3>1, ValidIsHashed DEF GoldenInv, ManifestIsOfOne
    <3>4. TrackedFile # {}
      BY Numbered
    <3> QED
      BY <3>2, <3>3, <3>4
  <2> QED
    BY <1>2, <2>1, <2>2 DEF DiffInv
<1>4. CASE ValidateAgain
  BY <1>2, <1>4 DEF ValidateAgain, Enter, DiffInv
<1>5. CASE StartGate \/ StartDiff
  BY <1>2, <1>5 DEF StartGate, StartDiff, Enter, DiffInv
<1>6. CASE Summarise
  BY <1>2, <1>6 DEF Summarise, Stop, Enter, DiffInv
<1>7. CASE UnitAndCore \/ ReportWritten \/ GateBreaks \/ Validate
  BY <1>2, <1>7 DEF UnitAndCore, ReportWritten, GateBreaks, Validate, Stop, Enter, RestOfGate, DiffInv
<1>8. CASE ReportCollected \/ Collect \/ SessionActs \/ Chown \/ UNCHANGED vars
  <2>1. UNCHANGED goldenVars /\ UNCHANGED <<stage, diff, compared, quiet>>
    BY <1>8 DEF ReportCollected, Collect, SessionActs, Chown, vars, gateVars
  <2> QED
    BY <1>2, <2>1 DEF DiffInv
<1> QED
  BY <1>1, <1>3, <1>4, <1>5, <1>6, <1>7, <1>8 DEF Next

\* Makefile, golden_baseline.py: the comparison a gate passes is with the
\* baseline of one capture, unless captures overlapped or one moved since.
THEOREM PassedDiff == Spec => []PassedDiffIsOfOneCapture
<1>1. Init => DiffInv
  BY DEF Init, DiffInv
<1>2. DiffInv => PassedDiffIsOfOneCapture
  BY FS_Singleton DEF DiffInv, PassedDiffIsOfOneCapture
<1> QED
  BY <1>1, <1>2, DiffKept, GoldenAlways, PTL DEF Spec

-----------------------------------------------------------------------------
(* The moves of the gate *)

\* Outside the two stages that collect no collection runs.
StageInv == ~Collecting => pc = "none"

Move ==
    /\ UNCHANGED <<copy, reportFile, latest>>
    /\ UNCHANGED writing \/ EndWrite("lane")
    /\ \/ /\ pc' \in {"none", "begin"}
          /\ \/ lanePassed' = lanePassed /\ roundtrip' = roundtrip
             \/ roundtrip' = NoRoundtrip
       \/ /\ pc = "collected" /\ pc' = "write_report"
          /\ UNCHANGED <<writing, active, lanePassed, roundtrip, passed, result, disturbed>>
       \/ UNCHANGED <<writing, reportVars>>

SessionStepOrLock ==
    \/ /\ UNCHANGED <<locked, pc, active, lanePassed, roundtrip, passed, result, reportFile, latest>>
       /\ SessionBegins \/ SessionWrites

LEMMA Moves ==
    ASSUME StageInv, [Next]_vars
    PROVE  /\ StageInv'
           /\ CollectionStep \/ SessionStepOrLock \/ Move
<1>1. CASE Collect
  BY <1>1 DEF Collect, Collecting, gateVars, StageInv
<1>2. CASE SessionActs
  BY <1>2 DEF SessionActs, Collecting, StageInv, SessionStepOrLock, SessionBegins, SessionWrites
<1>3. CASE StartGate
  BY <1>3 DEF StartGate, Enter, Collecting, StageInv, Move, evidenceVars
<1>4. CASE UnitAndCore
  <2>1. CASE Stop
    BY <1>4, <2>1 DEF UnitAndCore, Stop, Exit, StartAt, Enter, Collecting, StageInv, Move
  <2>2. CASE ~Stop
    BY <1>4, <2>2 DEF UnitAndCore, StartAt, Enter, Collecting, StageInv, Move, evidenceVars, RestOfReport
  <2> QED
    BY <2>1, <2>2
<1>5. CASE ReportCollected
  BY <1>5 DEF ReportCollected, StartAt, Collecting, gateVars, StageInv, Move, evidenceVars, RestOfReport
<1>6. CASE ReportWritten
  <2>1. CASE Stop
    BY <2>1 DEF Stop, Exit, StartAt, Enter, Collecting, StageInv, Move
  <2>2. CASE ~Stop
    BY <1>6, <2>2 DEF ReportWritten, StartAt, Enter, Collecting, StageInv, Move, evidenceVars, RestOfReport
  <2> QED
    BY <2>1, <2>2
<1>7. CASE GateBreaks
  BY <1>7 DEF GateBreaks, Stop, Exit, StartAt, Enter, Collecting, StageInv, Move
<1>8. CASE Summarise
  BY <1>8 DEF Summarise, Stop, Exit, StartAt, Enter, Collecting, StageInv, Move
<1>9. CASE Validate \/ ValidateAgain \/ Compare \/ StartDiff
  BY <1>9 DEF Validate, ValidateAgain, Compare, StartDiff, ReadinessStays, evidenceVars,
     reportVars, Enter, Collecting, StageInv, Move
<1>10. CASE Captured
  BY <1>10 DEF Captured, ReadinessStays, evidenceVars, reportVars, Collecting, StageInv, Move
<1>11. CASE Chown
  BY <1>11 DEF Chown, reportVars, Collecting, StageInv, Move
<1>12. CASE UNCHANGED vars
  BY <1>12 DEF vars, readinessVars, gateVars, evidenceVars, reportVars, Collecting, StageInv, Move
<1> QED
  BY <1>1, <1>2, <1>3, <1>4, <1>5, <1>6, <1>7, <1>8, <1>9, <1>10, <1>11, <1>12 DEF Next

-----------------------------------------------------------------------------
(* The evidence on disk *)

Writes(r) ==
    /\ {"steps", "dir"} \subseteq DOMAIN r
    /\ r.steps \in [Step -> Mode \cup {Unverified}]
    /\ r.dir \in 0..3
WritingTyped == DOMAIN writing = Writer /\ \A w \in Writer : Writes(writing[w])

EvidenceTypes ==
    /\ copy \in [Dir -> {Absent, Torn} \cup Document]
    /\ WritingTyped

\* Since the collection cleared it, a directory holds what was written since.
Clean(d) == copy[d] \in {Absent, Torn} \/ copy[d].fresh = TRUE
Clearing == {"clear1", "clear2", "lane", "lane_write", "roundtrip"}
FreshInv ==
    /\ pc \in {"clear2", "lane", "lane_write", "roundtrip"} => Clean(1)
    /\ pc \in {"lane", "lane_write", "roundtrip"} => Clean(2)
    /\ pc \in Clearing => ~roundtrip.pass
    /\ roundtrip.pass => roundtrip.fresh /\ lanePassed

LEMMA LoadTyped ==
    ASSUME EvidenceTypes
    PROVE  VerifiedSteps(Load) \in [Step -> Mode \cup {Unverified}]
BY DEF EvidenceTypes, VerifiedSteps, Load, Found, Readable, Document, Nothing, Step, Dir

LEMMA NotWritingTyped == Writes(NotWriting)
BY DEF NotWriting, Writes, Nothing

\* Of the write of an evidence document: types, freshness, and whom it changes.
LEMMA WriteStepTyped ==
    ASSUME EvidenceTypes, NEW w \in Writer, WriteStep(w)
    PROVE  /\ EvidenceTypes'
           /\ \A d \in Dir : Clean(d) => Clean(d)'
           /\ \A v \in Writer : v # w => writing'[v] = writing[v]
<1> DEFINE d == writing[w].dir
           document == [steps |-> writing[w].steps, fresh |-> TRUE]
<1>1. /\ d \in Dir /\ Writes(writing[w]) /\ document \in Document
      /\ document.fresh = TRUE
  BY DEF EvidenceTypes, WritingTyped, WriteStep, WriteBusy, Writes, Document
<1>2. ASSUME NEW done, done \in BOOLEAN, NextDir(w, done)
      PROVE  WritingTyped' /\ \A v \in Writer : v # w => writing'[v] = writing[v]
  <2> DEFINE r == writing[w]
             next == [r EXCEPT !.dir = r.dir + 1, !.file = "closed", !.written = r.written \/ done]
  <2>1. Writes(next)
    <3>1. writing[w].dir + 1 \in 0..3
      BY <1>1 DEF Dir
    <3>2. DOMAIN next = DOMAIN writing[w]
      OBVIOUS
    <3>3. next.dir = writing[w].dir + 1 /\ next.steps = writing[w].steps
      BY <1>1 DEF Writes
    <3> QED
      BY <1>1, <3>1, <3>2, <3>3 DEF Writes
  <2> HIDE DEF next
  <2>2. writing' = [writing EXCEPT ![w] = IF w = "session" /\ r.dir = 2 THEN NotWriting ELSE next]
    BY <1>2 DEF NextDir, next
  <2> QED
    BY <2>1, <2>2, NotWritingTyped DEF WritingTyped, EvidenceTypes
<1>3. CASE writing[w].file = "closed" /\ d \in locked
  BY <1>1, <1>2, <1>3 DEF WriteStep, EvidenceTypes, Clean
<1>4. CASE writing[w].file = "closed" /\ d \notin locked
  <2>1. /\ writing' = [writing EXCEPT ![w].file = "open"]
        /\ copy' = [copy EXCEPT ![d] = Torn]
    BY <1>4 DEF WriteStep
  <2>2. Writes([writing[w] EXCEPT !.file = "open"])
    BY <1>1 DEF Writes
  <2>3. WritingTyped' /\ \A v \in Writer : v # w => writing'[v] = writing[v]
    BY <2>1, <2>2 DEF EvidenceTypes, WritingTyped
  <2> QED
    BY <1>1, <2>1, <2>3 DEF EvidenceTypes, Clean
<1>5. CASE writing[w].file = "open"
  <2>1. PICK content \in {document, Torn} : copy' = [copy EXCEPT ![d] = content]
    BY <1>5 DEF WriteStep
  <2>2. NextDir(w, TRUE)
    BY <1>5 DEF WriteStep
  <2>3. WritingTyped' /\ \A v \in Writer : v # w => writing'[v] = writing[v]
    BY <1>2, <2>2
  <2> HIDE DEF document, d
  <2> QED
    BY <1>1, <2>1, <2>3 DEF EvidenceTypes, Clean
<1>6. CASE writing[w].file = "unlinked"
  BY <1>2, <1>6 DEF WriteStep, EvidenceTypes, Clean
<1> QED
  BY <1>3, <1>4, <1>5, <1>6 DEF WriteStep

LEMMA BeginWriteTyped ==
    ASSUME EvidenceTypes, NEW w \in Writer,
           NEW steps \in [Step -> Mode \cup {Unverified}], BeginWrite(w, steps)
    PROVE  /\ WritingTyped'
           /\ \A v \in Writer : v # w => writing'[v] = writing[v]
<1>1. Writes([NotWriting EXCEPT !.steps = steps, !.dir = 1])
  BY DEF NotWriting, Writes
<1> QED
  BY <1>1 DEF EvidenceTypes, WritingTyped, BeginWrite

LEMMA EndWriteTyped ==
    ASSUME EvidenceTypes, NEW w \in Writer, EndWrite(w)
    PROVE  /\ WritingTyped'
           /\ \A v \in Writer : v # w => writing'[v] = writing[v]
BY NotWritingTyped DEF EvidenceTypes, WritingTyped, EndWrite

LEMMA SessionTyped ==
    ASSUME EvidenceTypes, SessionBegins
    PROVE  EvidenceTypes'
<1>1. PICK steps \in [Step -> Mode \cup {Unverified}] : BeginWrite("session", steps)
  <2>1. LaneSteps \in [Step -> Mode \cup {Unverified}]
    BY DEF LaneSteps, Mode
  <2>2. \A s \in Step : [VerifiedSteps(Load) EXCEPT ![s] = PostconditionMode(s)]
                          \in [Step -> Mode \cup {Unverified}]
    BY LoadTyped DEF PostconditionMode, Mode
  <2> QED
    BY <2>1, <2>2 DEF SessionBegins, CreateDirectoryUser, AddDirectoryEntriesToUserGroup,
       TestVerifies, VerificationWritten, Step
<1>2. "session" \in Writer /\ UNCHANGED copy
  BY DEF Writer, SessionBegins
<1>3. WritingTyped'
  BY <1>1, <1>2, BeginWriteTyped
<1> QED
  BY <1>2, <1>3 DEF EvidenceTypes

\* The unlinking of one file.
LEMMA UnlinkTyped ==
    ASSUME EvidenceTypes, NEW d \in Dir, Unlink(d), ~ClearRaises(d)
    PROVE  /\ EvidenceTypes' /\ copy'[d] = Absent
           /\ \A e \in Dir : Clean(e) => Clean(e)'
           /\ \A w \in Writer : writing'[w].dir = writing[w].dir
<1>1. CASE copy[d] = Absent \/ d \in locked
  BY <1>1 DEF Unlink, ClearRaises, EvidenceTypes, WritingTyped, Clean
<1>2. CASE ~(copy[d] = Absent \/ d \in locked)
  <2>1. /\ copy' = [copy EXCEPT ![d] = Absent]
        /\ writing' = [w \in Writer |->
              IF writing[w].dir = d /\ writing[w].file = "open"
              THEN [writing[w] EXCEPT !.file = "unlinked"] ELSE writing[w]]
    BY <1>2 DEF Unlink
  <2>2. \A w \in Writer : Writes(writing[w])
    BY DEF EvidenceTypes, WritingTyped
  <2>3. \A w \in Writer : /\ Writes([writing[w] EXCEPT !.file = "unlinked"])
                          /\ [writing[w] EXCEPT !.file = "unlinked"].dir = writing[w].dir
    BY <2>2 DEF Writes
  <2>4. WritingTyped' /\ \A w \in Writer : writing'[w].dir = writing[w].dir
    BY <2>1, <2>2, <2>3 DEF WritingTyped
  <2> QED
    BY <2>1, <2>4 DEF EvidenceTypes, Clean
<1> QED
  BY <1>1, <1>2

LEMMA EvidenceKept ==
    ASSUME StageInv, EvidenceTypes, FreshInv, [Next]_vars
    PROVE  EvidenceTypes' /\ FreshInv'
<1> USE DEF Clearing
<1>1. 1 \in Dir /\ 2 \in Dir /\ "lane" \in Writer /\ "session" \in Writer
  BY DEF Dir, Writer
<1>2. CASE Move
  <2>1. EvidenceTypes'
    BY <1>1, <1>2, EndWriteTyped DEF Move, EvidenceTypes, WritingTyped
  <2> QED
    BY <1>2, <2>1 DEF Move, FreshInv, Clean, NoRoundtrip, reportVars
<1>3. CASE SessionStepOrLock
  <2>1. CASE SessionBegins
    BY <1>3, <2>1, SessionTyped DEF SessionStepOrLock, SessionBegins, FreshInv, Clean
  <2>2. CASE SessionWrites
    BY <1>1, <1>3, <2>2, WriteStepTyped DEF SessionStepOrLock, SessionWrites, FreshInv
  <2> QED
    BY <1>3, <2>1, <2>2 DEF SessionStepOrLock
<1>4. CASE BeginCollection
  <2>1. \A d \in Dir : Readable(d) => [copy[d] EXCEPT !.fresh = FALSE] \in Document
    BY DEF EvidenceTypes, Readable, Document
  <2>2. EvidenceTypes'
    BY <1>4, <2>1 DEF BeginCollection, EvidenceTypes, WritingTyped
  <2> QED
    BY <1>4, <2>2 DEF BeginCollection, Go, FreshInv, NoRoundtrip
<1>5. CASE ClearFirst
  <2>1. CASE ClearRaises(1)
    BY <1>5, <2>1 DEF ClearFirst, Clear, Go, WriterVars, EvidenceTypes, WritingTyped, FreshInv, Clean
  <2>2. CASE ~ClearRaises(1)
    <3>1. Unlink(1) /\ pc' = "clear2" /\ roundtrip' = roundtrip /\ pc = "clear1"
      BY <1>5, <2>2 DEF ClearFirst, Clear, Go
    <3>2. EvidenceTypes' /\ copy'[1] = Absent
      BY <1>1, <2>2, <3>1, UnlinkTyped
    <3> QED
      BY <3>1, <3>2 DEF FreshInv, Clean
  <2> QED
    BY <2>1, <2>2
<1>6. CASE ClearSecond
  <2>1. CASE ClearRaises(2)
    BY <1>6, <2>1 DEF ClearSecond, Clear, Go, WriterVars, EvidenceTypes, WritingTyped, FreshInv, Clean
  <2>2. CASE ~ClearRaises(2)
    <3>1. Unlink(2) /\ pc' = "lane" /\ roundtrip' = roundtrip /\ pc = "clear2"
      BY <1>6, <2>2 DEF ClearSecond, Clear, Go
    <3>2. EvidenceTypes' /\ copy'[2] = Absent /\ (Clean(1) => Clean(1)')
      BY <1>1, <2>2, <3>1, UnlinkTyped
    <3> QED
      BY <3>1, <3>2 DEF FreshInv, Clean
  <2> QED
    BY <2>1, <2>2
<1>7. CASE LaneRuns
  <2>1. LaneSteps \in [Step -> Mode \cup {Unverified}]
    BY DEF LaneSteps, Mode
  <2>2. EvidenceTypes'
    BY <1>1, <1>7, <2>1, BeginWriteTyped DEF LaneRuns, EvidenceTypes, WritingTyped
  <2> QED
    BY <1>7, <2>2 DEF LaneRuns, Go, LaneVars, FreshInv, Clean
<1>8. CASE LaneWrites
  BY <1>1, <1>8, WriteStepTyped DEF LaneWrites, LaneVars, FreshInv
<1>9. CASE LaneEnds
  <2>1. EvidenceTypes'
    BY <1>1, <1>9, EndWriteTyped DEF LaneEnds, EvidenceTypes
  <2> QED
    BY <1>9, <2>1 DEF LaneEnds, Go, LaneVars, FreshInv, Clean
<1>10. CASE CheckRoundtrip
  <2>1. EvidenceTypes'
    BY <1>10 DEF CheckRoundtrip, WriterVars, EvidenceTypes, WritingTyped
  <2>2. RoundtripPasses => lanePassed /\ Found(Load)
    BY DEF RoundtripPasses, CreateUserVerified, VerifiedSteps, Nothing, Step
  <2>3. Found(Load) => Load.fresh = TRUE
    BY <1>10 DEF CheckRoundtrip, FreshInv, Clean, Load, Found, Readable
  <2>4. roundtrip'.pass = RoundtripPasses /\ (roundtrip'.fresh <=> Found(Load) /\ Load.fresh)
    BY <1>10 DEF CheckRoundtrip
  <2>5. pc' = "others" /\ lanePassed' = lanePassed
    BY <1>10 DEF CheckRoundtrip, Go
  <2> QED
    BY <2>1, <2>2, <2>3, <2>4, <2>5 DEF FreshInv
<1>11. CASE CheckOthers
  BY <1>11 DEF CheckOthers, Go, WriterVars, EvidenceTypes, WritingTyped, FreshInv
<1>12. CASE CollectSupport
  BY <1>12 DEF CollectSupport, Go, WriterVars, EvidenceTypes, WritingTyped, FreshInv
<1>13. CASE OpenReport \/ FillReport
  BY <1>13 DEF OpenReport, FillReport, ReportVars, Go, EvidenceTypes, WritingTyped, FreshInv
<1> QED
  BY Moves, <1>2, <1>3, <1>4, <1>5, <1>6, <1>7, <1>8, <1>9, <1>10, <1>11, <1>12, <1>13
     DEF CollectionStep

LEMMA EvidenceStarts == Init => StageInv /\ EvidenceTypes /\ FreshInv
BY NotWritingTyped DEF Init, StageInv, EvidenceTypes, WritingTyped, FreshInv, Clearing, NoRoundtrip

\* mutation_evidence.py: what the documents and their writers keep.
THEOREM EvidenceAlways == Spec => [](StageInv /\ EvidenceTypes /\ FreshInv)
BY EvidenceStarts, EvidenceKept, Moves, PTL DEF Spec

\* mutation_evidence.py, readiness/__init__.py: a roundtrip check that
\* passes rests on evidence put on disk after it had begun.
THEOREM FreshEvidence == Spec => []RoundtripRestsOnFreshEvidence
<1>1. FreshInv => RoundtripRestsOnFreshEvidence
  BY DEF FreshInv, RoundtripRestsOnFreshEvidence
<1> QED
  BY <1>1, EvidenceAlways, PTL

-----------------------------------------------------------------------------
(* The report and the acceptance summary *)

\* Until the support section is read, what the roundtrip check saw stays,
\* unless a session wrote.
BeforeSupport == Clearing \cup {"others", "support"}
Alone == pc \in BeforeSupport /\ ~disturbed => ~WriteBusy("session")
StillVerified ==
    pc \in {"others", "support"} /\ ~disturbed /\ roundtrip.pass =>
        CreateUserVerified /\ MembershipVerified

PassMeans ==
    result.status = "pass" =>
        /\ passed = active
        /\ RoundtripPack \in active => roundtrip.pass
Earned ==
    /\ pc \in {"support", "collected"} => PassMeans
    /\ pc \in {"support", "collected", "write_report", "fill_report"} =>
           result.status \in {"pass", "fail"}
    /\ pc = "support" => {"status", "support"} \subseteq DOMAIN result
    /\ pc = "collected" => result.support.activeScenarios \subseteq active
SupportInv == Alone /\ StillVerified /\ Earned /\ SupportAgreesWithChecks

\* A pack that passes had its roundtrip check pass.
LEMMA RoundtripPackPasses ==
    ASSUME NEW failing, NEW registry,
           ScenarioStatus(RoundtripPack, Topology, registry, failing) = "pass"
    PROVE  "ui_user_policy_roundtrip" \notin failing
BY DEF ScenarioStatus, Pack, RoundtripPack, SessionPack, Available

\* Once both steps are verified, the summary finds nothing unsupported.
LEMMA SummaryOfVerified ==
    ASSUME CreateUserVerified, MembershipVerified, NEW registry
    PROVE  LET summary == SupportSummary(active, passed, registry) IN
           summary.unsupported = {} /\ summary.existingGroup
<1>1. Found(Load)
  BY DEF CreateUserVerified, VerifiedSteps, Nothing, Step
<1>2. AllowVerification(passed)
  BY <1>1 DEF AllowVerification
<1>3. MutationSupported(TRUE) = MutationStep
  BY DEF MutationSupported
<1>4. \A packs : StepsOf(packs, MutationStep) \subseteq MutationStep
  BY DEF StepsOf
<1>5. ExistingGroupMode(TRUE)
  BY DEF ExistingGroupMode
<1>6. SupportSummary(active, passed, registry).unsupported
        = StepsOf(active, MutationStep) \ MutationSupported(AllowVerification(passed))
  BY DEF SupportSummary
<1>7. SupportSummary(active, passed, registry).existingGroup = ExistingGroupMode(AllowVerification(passed))
  BY DEF SupportSummary
<1>8. AllowVerification(passed) = TRUE
  BY <1>2 DEF AllowVerification
<1> QED
  BY <1>3, <1>4, <1>5, <1>6, <1>7, <1>8

LEMMA SupportKept ==
    ASSUME StageInv, EvidenceTypes, FreshInv, SupportInv, [Next]_vars
    PROVE  SupportInv'
<1> USE DEF Clearing, BeforeSupport, SupportInv
<1>1. 1 \in Dir /\ 2 \in Dir /\ "lane" \in Writer /\ "session" \in Writer
  BY DEF Dir, Writer
<1> DEFINE Frame == /\ UNCHANGED copy
                    /\ writing'["session"].dir = writing["session"].dir
                    /\ disturbed' = disturbed
<1>2. ASSUME UNCHANGED copy
      PROVE  CreateUserVerified' = CreateUserVerified /\ MembershipVerified' = MembershipVerified
  BY <1>2 DEF CreateUserVerified, MembershipVerified, VerifiedSteps, Found, Load, Readable
<1>3. ASSUME pc' \notin BeforeSupport \cup {"collected", "write_report", "fill_report"}
      PROVE  SupportInv'
  BY <1>3 DEF Alone, StillVerified, Earned, SupportAgreesWithChecks
<1>4. CASE Move
  <2>1. CASE pc' \in {"none", "begin"}
    BY <1>3, <2>1
  <2>2. CASE pc = "collected" /\ pc' = "write_report" /\ UNCHANGED result
    BY <2>2 DEF Alone, StillVerified, Earned, SupportAgreesWithChecks
  <2>3. CASE UNCHANGED <<writing, reportVars>>
    BY <1>2, <1>4, <2>3 DEF Move, reportVars, Alone, StillVerified, Earned, PassMeans,
       SupportAgreesWithChecks, WriteBusy
  <2> QED
    BY <1>4, <2>1, <2>2, <2>3 DEF Move
<1>5. CASE SessionStepOrLock
  <2>1. UNCHANGED <<pc, active, roundtrip, passed, result>>
    BY <1>5 DEF SessionStepOrLock
  <2>2. Earned'
    BY <2>1 DEF Earned, PassMeans
  <2>3. CASE SessionBegins
    BY <2>1, <2>2, <2>3 DEF SessionBegins, Alone, StillVerified, SupportAgreesWithChecks
  <2>4. CASE SessionWrites
    <3>1. WriteBusy("session") /\ disturbed' = disturbed
      BY <2>4 DEF SessionWrites, WriteStep
    <3> QED
      BY <2>1, <2>2, <3>1 DEF Alone, StillVerified, SupportAgreesWithChecks
  <2> QED
    BY <1>5, <2>3, <2>4 DEF SessionStepOrLock
<1>6. CASE BeginCollection
  <2>1. disturbed' = (writing["session"].dir # 0) /\ UNCHANGED writing
    BY <1>6 DEF BeginCollection
  <2>2. writing["session"].dir # 0 \/ ~WriteBusy("session")
    BY DEF WriteBusy, Dir
  <2>3. Alone'
    BY <2>1, <2>2 DEF Alone, WriteBusy
  <2>4. pc' \in {"clear1", "others"} /\ roundtrip' = NoRoundtrip
    BY <1>6 DEF BeginCollection, Go
  <2> QED
    BY <2>3, <2>4 DEF StillVerified, Earned, SupportAgreesWithChecks, NoRoundtrip
\* Of the clearing and the browser test: they leave the session its place.
<1>7. ASSUME pc \in Clearing, pc' \in Clearing \cup {"raised"}, disturbed' = disturbed,
             writing'["session"].dir = writing["session"].dir
      PROVE  SupportInv'
  BY <1>7 DEF Alone, StillVerified, Earned, SupportAgreesWithChecks, WriteBusy
<1>8. CASE ClearFirst \/ ClearSecond
  <2>1. PICK d \in Dir : /\ pc \in {"clear1", "clear2"} /\ pc' \in {"clear2", "lane", "raised"}
                         /\ disturbed' = disturbed
                         /\ UNCHANGED writing \/ (Unlink(d) /\ ~ClearRaises(d))
    BY <1>1, <1>8 DEF ClearFirst, ClearSecond, Clear, Go, WriterVars
  <2>2. writing'["session"].dir = writing["session"].dir
    BY <1>1, <2>1, UnlinkTyped
  <2> QED
    BY <1>7, <2>1, <2>2
<1>9. CASE LaneRuns \/ LaneWrites \/ LaneEnds
  <2>1. LaneSteps \in [Step -> Mode \cup {Unverified}]
    BY DEF LaneSteps, Mode
  <2>2. writing'["session"] = writing["session"]
    BY <1>1, <1>9, <2>1, BeginWriteTyped, WriteStepTyped, EndWriteTyped
       DEF LaneRuns, LaneWrites, LaneEnds
  <2>3. /\ pc \in Clearing /\ pc' \in Clearing /\ disturbed' = disturbed
    BY <1>9 DEF LaneRuns, LaneWrites, LaneEnds, LaneVars, Go
  <2> QED
    BY <1>7, <2>2, <2>3
<1>10. CASE CheckRoundtrip
  <2>1. /\ pc = "roundtrip" /\ pc' = "others" /\ UNCHANGED <<copy, writing, disturbed>>
        /\ roundtrip'.pass = RoundtripPasses
    BY <1>10 DEF CheckRoundtrip, Go, WriterVars
  <2>2. Alone'
    BY <2>1 DEF Alone, WriteBusy
  <2>3. StillVerified'
    BY <1>2, <2>1 DEF StillVerified, RoundtripPasses
  <2> QED
    BY <2>1, <2>2, <2>3 DEF Earned, SupportAgreesWithChecks
<1>11. CASE CheckOthers
  <2>1. CASE pc' = "raised"
    BY <1>3, <2>1
  <2>2. CASE pc' # "raised"
    <3>1. PICK failed \in SUBSET Free, rest \in BOOLEAN :
            LET ok == {n \in active :
                         ScenarioStatus(n, Topology, Registry, Failing(failed)) = "pass"}
            IN  /\ passed' = ok
                /\ result' = [NoResult EXCEPT !.status =
                     IF rest /\ ok = active /\ "policy_roundtrip" \notin failed
                     THEN "pass" ELSE "fail"]
      BY <1>11, <2>2 DEF CheckOthers, Go
    <3>2. /\ pc = "others" /\ pc' = "support"
          /\ UNCHANGED <<copy, writing, active, roundtrip, disturbed>>
      BY <1>11, <2>2 DEF CheckOthers, Go, WriterVars
    <3>3. Alone' /\ StillVerified'
      BY <1>2, <3>2 DEF Alone, StillVerified, WriteBusy
    <3>4. result'.status \in {"pass", "fail"} /\ {"status", "support"} \subseteq DOMAIN result'
      BY <3>1 DEF NoResult
    <3>5. result'.status = "pass" => passed' = active
      BY <3>1 DEF NoResult
    <3>6. ASSUME result'.status = "pass", RoundtripPack \in active PROVE roundtrip.pass
      <4>1. ScenarioStatus(RoundtripPack, Topology, Registry, Failing(failed)) = "pass"
        BY <3>1, <3>5, <3>6
      <4> QED
        BY <4>1, RoundtripPackPasses DEF Failing
    <3> QED
      BY <3>2, <3>3, <3>4, <3>5, <3>6 DEF Earned, PassMeans, SupportAgreesWithChecks
  <2> QED
    BY <2>1, <2>2
<1>12. CASE CollectSupport
  <2> DEFINE summary == SupportSummary(active, passed, Registry)
  <2>1. /\ pc = "support" /\ pc' = "collected"
        /\ result' = [result EXCEPT !.support = summary]
        /\ UNCHANGED <<active, roundtrip, passed, disturbed>>
    BY <1>12 DEF CollectSupport, Go
  <2>2. {"status", "support"} \subseteq DOMAIN result
    BY <2>1 DEF Earned
  <2>3. result'.status = result.status /\ result'.support = summary
    BY <2>1, <2>2
  <2>4. summary.activeScenarios \subseteq active
    BY DEF SupportSummary
  <2>5. Earned'
    BY <2>1, <2>3, <2>4 DEF Earned, PassMeans
  <2>6. SupportAgreesWithChecks'
    <3> SUFFICES ASSUME result.status = "pass", ~disturbed, RoundtripPack \in active
                 PROVE  summary.unsupported = {} /\ summary.existingGroup
      BY <2>1, <2>3 DEF SupportAgreesWithChecks
    <3>1. CreateUserVerified /\ MembershipVerified
      BY <2>1 DEF Earned, PassMeans, StillVerified
    <3> QED
      BY <3>1, SummaryOfVerified
  <2> QED
    BY <2>1, <2>5, <2>6 DEF Alone, StillVerified
<1>13. CASE OpenReport \/ FillReport
  BY <1>13 DEF OpenReport, FillReport, ReportVars, Go, Alone, StillVerified, Earned, SupportAgreesWithChecks
<1> QED
  BY Moves, <1>4, <1>5, <1>6, <1>8, <1>9, <1>10, <1>11, <1>12, <1>13 DEF CollectionStep

LEMMA SupportStarts == Init => SupportInv
BY DEF Init, SupportInv, Alone, StillVerified, Earned, SupportAgreesWithChecks,
   BeforeSupport, Clearing

\* readiness/__init__.py: what a collection knows of its checks until the
\* summary is written.
THEOREM SupportAlways == Spec => []SupportInv
BY SupportStarts, SupportKept, EvidenceAlways, PTL DEF Spec

\* mutation_support.py: when nobody else wrote evidence, the support section
\* of a report that passed agrees with the roundtrip check it contains.
THEOREM SupportAgrees == Spec => []SupportAgreesWithChecks
<1>1. SupportInv => SupportAgreesWithChecks
  BY DEF SupportInv
<1> QED
  BY <1>1, SupportAlways, PTL

\* The surfaces that a summary that passes shows.
LEMMA OverallPasses ==
    ASSUME Overall(Surfaces) = "pass", result.status \in {"pass", "fail"}
    PROVE  /\ own.unit /\ own.core /\ result.status = "pass"
           /\ result.support.activeScenarios # {} /\ result.support.unsupported = {}
<1> DEFINE s == Surfaces
           scenarios == result.support.activeScenarios
<1>1. DOMAIN s = 1..5
  BY DEF Surfaces
<1>2. \A i \in 1..5 : s[i] # "fail" /\ s[i] # "partial"
  BY <1>1 DEF Overall
<1>3. /\ s[1] = Status(own.unit) /\ s[2] = Status(own.core) /\ s[3] = result.status
      /\ s[5] = SupportSurface(scenarios, result.support.unsupported)
  BY DEF Surfaces
<1>4. s[1] # "fail" /\ s[2] # "fail" /\ s[3] # "fail" /\ s[5] # "fail" /\ s[5] # "partial"
  BY <1>2
<1>5. own.unit /\ own.core
  BY <1>3, <1>4 DEF Status
<1> QED
  BY <1>3, <1>4, <1>5 DEF SupportSurface

\* generate_acceptance_summary.py: a summary that passes was earned in its
\* own collection.
THEOREM Acceptance == Spec => AcceptanceIsEarned
<1> DEFINE Earning ==
      [acceptance' = "pass" /\ acceptance # "pass" =>
        /\ own.unit /\ own.core /\ result.status = "pass"
        /\ active # {} /\ passed = active
        /\ result.support.unsupported = {}
        /\ RoundtripPack \in active => lanePassed /\ roundtrip.pass /\ roundtrip.fresh]_vars
<1>1. FreshInv /\ SupportInv /\ [Next]_vars => Earning
  <2> SUFFICES ASSUME FreshInv, SupportInv, Next, acceptance' = "pass", acceptance # "pass"
               PROVE  Earning
    BY DEF vars, gateVars
  <2>1. Summarise
    BY DEF Next, StartGate, UnitAndCore, ReportCollected, ReportWritten, GateBreaks, Validate,
       ValidateAgain, Compare, StartDiff, Collect, SessionActs, Captured, Chown, RestOfGate, gateVars
  <2>2. pc = "collected" /\ Overall(Surfaces) = "pass"
    BY <2>1 DEF Summarise
  <2>3. /\ result.status \in {"pass", "fail"} /\ PassMeans
        /\ result.support.activeScenarios \subseteq active
    BY <2>2 DEF SupportInv, Earned
  <2> QED
    BY <2>2, <2>3, OverallPasses DEF PassMeans, FreshInv
<1> QED
  BY <1>1, EvidenceAlways, SupportAlways, PTL DEF Spec, AcceptanceIsEarned

-----------------------------------------------------------------------------
(* The report file *)

ReportInv ==
    /\ DOMAIN reportFile = Dir
    /\ latest.dir \in {0, 1, 2}
    /\ latest.dir = 0 => \A d \in Dir : reportFile[d] \in {Absent, Torn}
    /\ latest.dir = 1 => /\ latest.status \in {"pass", "fail"}
                         /\ reportFile[1] \in {latest.status, Torn}

LEMMA ReportKept ==
    ASSUME StageInv, SupportInv, ReportInv, [Next]_vars
    PROVE  ReportInv'
<1>1. CASE UNCHANGED <<reportFile, latest>>
  BY <1>1 DEF ReportInv
<1>2. CASE OpenReport
  BY <1>2 DEF OpenReport, Go, ReportVars, WritableDir, ReportInv, Dir
<1>3. CASE FillReport
  <2>1. pc = "fill_report" /\ WritableDir \in Dir /\ WritableDir \in {1, 2}
    BY <1>3 DEF FillReport, WritableDir, Dir
  <2>2. result.status \in {"pass", "fail"}
    BY <2>1 DEF SupportInv, Earned
  <2> QED
    BY <1>3, <2>1, <2>2 DEF FillReport, ReportInv, Dir
<1>4. CollectionStep => OpenReport \/ FillReport \/ UNCHANGED <<reportFile, latest>>
  BY DEF CollectionStep, BeginCollection, ClearFirst, ClearSecond, Clear, LaneRuns, LaneWrites,
     LaneEnds, LaneVars, CheckRoundtrip, CheckOthers, CollectSupport
<1>5. SessionStepOrLock \/ Move => UNCHANGED <<reportFile, latest>>
  BY DEF SessionStepOrLock, Move
<1> QED
  BY Moves, <1>1, <1>2, <1>3, <1>4, <1>5

\* write_runtime_report: what the two report files may hold.
THEOREM ReportAlways == Spec => []ReportInv
<1>1. Init => ReportInv
  BY DEF Init, ReportInv, Dir
<1> QED
  BY <1>1, ReportKept, EvidenceAlways, SupportAlways, PTL DEF Spec

\* write_runtime_report: a pass that a reader finds is that of the last
\* report, except where that had to go to the fallback.
THEOREM PassShown == Spec => []PassShownIsLatest
<1>1. ReportInv => PassShownIsLatest
  BY FilesDiffer DEF ReportInv, PassShownIsLatest, RuntimeArtifact, Dir
<1> QED
  BY <1>1, ReportAlways, PTL

-----------------------------------------------------------------------------
(* Types *)

LEMMA TypeKept ==
    ASSUME StageInv, EvidenceTypes, SupportInv, GoldenInv, TypeOK, [Next]_vars, EvidenceTypes', GoldenInv'
    PROVE  TypeOK'
<1> USE DEF TypeOK
<1>1. copy' \in [Dir -> {Absent, Torn} \cup Document] /\ tracked' \in [TrackedFile -> Content]
  BY DEF EvidenceTypes, GoldenInv, GoldenTypes
<1>2. ASSUME UNCHANGED <<locked, reportFile, result, acceptance, diff>> PROVE TypeOK'
  BY <1>1, <1>2
<1>3. CASE UNCHANGED vars
  BY <1>2, <1>3 DEF vars, readinessVars, evidenceVars, reportVars, gateVars
<1>4. CASE StartGate
  BY <1>1, <1>4 DEF StartGate, evidenceVars
<1>5. CASE UnitAndCore \/ ReportCollected \/ ReportWritten \/ GateBreaks
  <2>1. UNCHANGED <<acceptance, diff>>
    BY <1>5 DEF UnitAndCore, ReportCollected, ReportWritten, GateBreaks, RestOfGate, gateVars
  <2>2. UNCHANGED <<locked, reportFile, result>> \/ Stop
    BY <1>5 DEF UnitAndCore, ReportCollected, ReportWritten, GateBreaks, RestOfReport, evidenceVars
  <2>3. Stop => UNCHANGED <<locked, reportFile>> /\ result'.status = "none"
    BY DEF Stop, Exit, NoResult
  <2> QED
    BY <1>1, <2>1, <2>2, <2>3
<1>6. CASE Summarise
  <2>1. acceptance' \in {"none", "pass", "partial", "fail"}
    BY <1>6 DEF Summarise, Overall
  <2>2. UNCHANGED <<locked, reportFile, diff>> /\ result'.status = "none"
    BY <1>6 DEF Summarise, Stop, Exit, NoResult
  <2> QED
    BY <1>1, <2>1, <2>2
<1>7. CASE Validate \/ ValidateAgain \/ StartDiff
  BY <1>1, <1>7 DEF Validate, ValidateAgain, StartDiff, RestOfGate, ReadinessStays, evidenceVars, reportVars
<1>8. CASE Compare
  <2>1. diff' \in {diff, "pass", "fail"}
    BY <1>8 DEF Compare, DiffStatus
  <2> QED
    BY <1>1, <1>8, <2>1 DEF Compare, ReadinessStays, evidenceVars, reportVars
<1>9. CASE SessionActs
  BY <1>1, <1>9 DEF SessionActs, SessionBegins, SessionWrites
<1>10. CASE Captured
  BY <1>1, <1>10 DEF Captured, ReadinessStays, evidenceVars, reportVars
<1>11. CASE Chown
  BY <1>1, <1>11 DEF Chown, reportVars, Dir
<1>12. CASE Collect
  <2>1. UNCHANGED <<locked, acceptance, diff>> /\ CollectionStep
    BY <1>12 DEF Collect, gateVars, CollectionStep, BeginCollection, ClearFirst, ClearSecond, Clear,
       LaneRuns, LaneWrites, LaneEnds, LaneVars, CheckRoundtrip, CheckOthers, CollectSupport,
       OpenReport, FillReport, ReportVars
  <2>2. CASE CheckOthers
    <3>1. result'.status \in {"pass", "fail"} \/ result' = result
      BY <2>2 DEF CheckOthers, NoResult
    <3>2. UNCHANGED reportFile
      BY <2>2 DEF CheckOthers
    <3> QED
      BY <1>1, <2>1, <3>1, <3>2
  <2>3. CASE CollectSupport
    <3>1. pc = "support" /\ UNCHANGED reportFile
      BY <2>3 DEF CollectSupport
    <3>2. result'.status = result.status
      BY <2>3, <3>1 DEF CollectSupport, SupportInv, Earned
    <3> QED
      BY <1>1, <2>1, <3>1, <3>2
  <2>4. CASE OpenReport
    BY <1>1, <2>1, <2>4 DEF OpenReport, ReportVars
  <2>5. CASE FillReport
    <3>1. result.status \in {"pass", "fail"}
      BY <2>5 DEF FillReport, SupportInv, Earned
    <3> QED
      BY <1>1, <2>1, <2>5, <3>1 DEF FillReport, ReportVars
  <2>6. CASE ~(CheckOthers \/ CollectSupport \/ OpenReport \/ FillReport)
    <3>1. UNCHANGED <<reportFile, result>>
      BY <2>1, <2>6 DEF CollectionStep, BeginCollection, ClearFirst, ClearSecond, Clear,
         LaneRuns, LaneWrites, LaneEnds, LaneVars, CheckRoundtrip
    <3> QED
      BY <1>1, <2>1, <3>1
  <2> QED
    BY <2>2, <2>3, <2>4, <2>5, <2>6
<1> QED
  BY <1>3, <1>4, <1>5, <1>6, <1>7, <1>8, <1>9, <1>10, <1>11, <1>12 DEF Next

\* The types of what the gate, the reports and the captures keep.
THEOREM GateTypes == Spec => []TypeOK
<1>1. Init => TypeOK
  <2>1. Init => EvidenceTypes /\ GoldenInv
    BY EvidenceStarts, GoldenStarts DEF Init
  <2> QED
    BY <2>1 DEF Init, TypeOK, EvidenceTypes, GoldenInv, GoldenTypes, NoResult, Dir
<1> QED
  BY <1>1, TypeKept, EvidenceAlways, SupportAlways, GoldenAlways, PTL DEF Spec
=============================================================================
