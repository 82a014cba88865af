-------------------------- MODULE MutationEvidence --------------------------
(***************************************************************************)
(* The evidence that the steps "create a user" and "add a user to a group" *)
(* were really done through the UI.  It is one JSON document, kept in two  *)
(* directories: the platform artifacts and a fallback for processes that   *)
(* may not write the first.  The browser test of a readiness collection    *)
(* (the lane) writes it, and so does the liderapi adapter, which reads,    *)
(* changes and rewrites it.  A write truncates the file and then fills it, *)
(* and nothing locks it.                                                   *)
(*                                                                         *)
(* What a process may not write is a directory with the file in it; a      *)
(* load, two reads of small files, is one step.                            *)
(***************************************************************************)
EXTENDS Naturals, FiniteSets

CONSTANTS
    Absent,         \* no such file
    Torn            \* a file that holds no JSON document

\* Neither is taken for the status in a report.
ASSUME FilesDiffer == Absent # Torn /\ {Absent, Torn} \cap {"pass", "fail"} = {}

Dir == {1, 2}       \* PLATFORM_ARTIFACTS_DIR, then the fallback
Step == {"create_user_via_ui", "assign_user_to_group_via_ui"}
Mode == {"unset", "ui-first-postcondition", "existing_group_membership_update"}
Unverified == "unverified"

\* The document: the mode each step was verified in; a ghost, whether it was
\* put on disk after the current collection began.
Document == [steps : [Step -> Mode \cup {Unverified}], fresh : BOOLEAN]

VARIABLES
    copy,           \* the file in each directory
    locked,         \* directories this user may not write
    writing         \* who writes the document, and how far the write is

evidenceVars == <<copy, locked, writing>>

Writer == {"lane", "session"}
Nothing == [s \in Step |-> Unverified]
NotWriting == [steps |-> Nothing, dir |-> 0, file |-> "closed", written |-> FALSE]

-----------------------------------------------------------------------------
(* load_ui_mutation_evidence: the first file that can be read answers.     *)

Readable(d) == copy[d] \notin {Absent, Torn}

Load ==
    IF Readable(1) THEN copy[1] ELSE IF Readable(2) THEN copy[2] ELSE Absent

Found(document) == document \notin {Absent, Torn}
VerifiedSteps(document) == IF Found(document) THEN document.steps ELSE Nothing

-----------------------------------------------------------------------------
(***************************************************************************)
(* clear_ui_mutation_evidence, one unlink at a time.  A missing file is    *)
(* passed over, in whatever directory; an unlink that is not permitted     *)
(* raises, and what follows is not done.                                   *)
(***************************************************************************)
\* Mutant: whatever the unlink raises is passed over.
ClearRaises_Never(d) == FALSE
ClearRaises(d) == d \in locked /\ copy[d] # Absent

\* A writer that has the file open goes on writing a file nobody can read.
Unlink(d) ==
    IF copy[d] = Absent \/ d \in locked THEN UNCHANGED <<copy, writing>>
    ELSE /\ copy' = [copy EXCEPT ![d] = Absent]
         /\ writing' = [w \in Writer |->
              IF writing[w].dir = d /\ writing[w].file = "open"
              THEN [writing[w] EXCEPT !.file = "unlinked"] ELSE writing[w]]

(***************************************************************************)
(* write_ui_mutation_evidence: both directories in order, those that may   *)
(* not be written skipped; it raises when none could be.  Its steps are    *)
(* the truncation and the filling of each file; what is left when two      *)
(* writers fill one file over each other may hold no document.             *)
(***************************************************************************)
BeginWrite(w, steps) ==
    writing' = [writing EXCEPT ![w] = [NotWriting EXCEPT !.steps = steps, !.dir = 1]]

WriteBusy(w) == writing[w].dir \in Dir
WriteRaises(w) == ~writing[w].written

NextDir(w, done) ==
    LET r == writing[w] IN
    writing' = [writing EXCEPT ![w] =
      IF w = "session" /\ r.dir = 2 THEN NotWriting
      ELSE [r EXCEPT !.dir = r.dir + 1, !.file = "closed", !.written = r.written \/ done]]

WriteStep(w) ==
    LET d == writing[w].dir
        document == [steps |-> writing[w].steps, fresh |-> TRUE] IN
    /\ WriteBusy(w)
    /\ \/ /\ writing[w].file = "closed" /\ d \in locked
          /\ NextDir(w, FALSE) /\ UNCHANGED copy
       \/ /\ writing[w].file = "closed" /\ d \notin locked
          /\ writing' = [writing EXCEPT ![w].file = "open"]
          /\ copy' = [copy EXCEPT ![d] = Torn]
       \/ /\ writing[w].file = "open"
          /\ NextDir(w, TRUE)
          /\ \E content \in {document} \cup (IF copy[d] = Torn THEN {} ELSE {Torn}) :
               copy' = [copy EXCEPT ![d] = content]
       \/ /\ writing[w].file = "unlinked"
          /\ NextDir(w, TRUE) /\ UNCHANGED copy

EndWrite(w) == writing' = [writing EXCEPT ![w] = NotWriting]

-----------------------------------------------------------------------------
(***************************************************************************)
(* What is written.  The browser test writes a document of its own, at the *)
(* end of its steps; it names no mode for the creation.  The adapter adds  *)
(* one step, once it has seen its effect in the tree (which it polls for   *)
(* half a minute), to the document it finds.                               *)
(***************************************************************************)
LaneSteps == [s \in Step |-> IF s = "create_user_via_ui" THEN "unset"
                             ELSE "existing_group_membership_update"]

PostconditionMode(s) ==
    IF s = "create_user_via_ui" THEN "ui-first-postcondition"
    ELSE "existing_group_membership_update"

\* _write_ui_mutation_verification: load, merge, write.
VerificationWritten(s) ==
    BeginWrite("session",
               [VerifiedSteps(Load) EXCEPT ![s] = PostconditionMode(s)])

\* From where the entry shows in the tree in time; before, and without an
\* endpoint in the environment, the two only raise.
CreateDirectoryUser ==
    ~WriteBusy("session") /\ VerificationWritten("create_user_via_ui")

AddDirectoryEntriesToUserGroup ==
    ~WriteBusy("session") /\ VerificationWritten("assign_user_to_group_via_ui")

\* The browser test, executed without a readiness collection.
TestVerifies == ~WriteBusy("session") /\ BeginWrite("session", LaneSteps)

\* _mutation_step_runtime_verified: in any mode, or in the one asked for.
RuntimeVerified(s, mode) ==
    LET found == VerifiedSteps(Load)[s] IN
    found # Unverified /\ (mode = "any" \/ found = mode)

\* directory_user_create_capability and its sister.
CapabilityVerified(s) == RuntimeVerified(s, PostconditionMode(s))
=============================================================================
