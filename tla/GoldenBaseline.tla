--------------------------- MODULE GoldenBaseline ---------------------------
(***************************************************************************)
(* The golden baseline: files captured from a stock installation, and a    *)
(* manifest with their hashes that is written last.  A capture refuses to  *)
(* replace a complete baseline unless it is forced; it may raise or be     *)
(* killed anywhere, and nothing keeps two captures apart.  Validation and  *)
(* comparison read the files as they are.                                  *)
(*                                                                         *)
(* A file that was filled is the capture that filled it: captures date     *)
(* what they write, so no two write the same bytes, and the hash of a file *)
(* stands for the file.  The checks every captured file meets (fields,     *)
(* context, source) are left out.                                          *)
(***************************************************************************)
EXTENDS Naturals, Sequences, FiniteSets

CONSTANTS
    Captures,       \* executions of capture_golden_baseline
    Tracked,        \* the tracked files in the order they are written
    Pictures,       \* those that are screenshots, the last ones
    MaxAbandoned,   \* bound: captures that raise or are killed
    NoFile,         \* no such file
    Placeholder,    \* what the repository has in place of a capture
    Truncated       \* a file that was opened and not filled

ASSUME TrackedAssumption ==
    /\ Tracked \in Seq(STRING) /\ Len(Tracked) > 0
    /\ \A i, j \in DOMAIN Tracked : Tracked[i] = Tracked[j] => i = j

TrackedFile == {Tracked[i] : i \in DOMAIN Tracked}
Json == TrackedFile \ Pictures
Content == Captures \cup {NoFile, Placeholder, Truncated}
Root == [repository |-> [f \in TrackedFile |->
             IF f \in {"ldap-tree.json", "config.json"} THEN Placeholder ELSE NoFile],
         empty |-> [f \in TrackedFile |-> NoFile]]

VARIABLES
    tracked,        \* the tracked files
    manifest,       \* the manifest: its status and the files it hashed
    capture,        \* what each capture does
    seen,           \* the files a capture hashed, for its manifest
    overlapped,     \* ghost: a capture began while another ran
    abandoned       \* captures given up so far

goldenVars == <<tracked, manifest, capture, seen, overlapped, abandoned>>

Pending == [status |-> "capture-pending", files |-> [f \in {} |-> NoFile]]
Complete(files) == [status |-> "capture-complete", files |-> files]
ManifestReadable == manifest \notin {NoFile, Truncated}
IsComplete == ManifestReadable /\ manifest.status = "capture-complete"

At(step, n) == [step |-> step, file |-> n]
Ended == {At("new", 0), At("done", 0), At("abandoned", 0)}
Running(c) == capture[c] \notin Ended

GoldenInit ==
    /\ \/ /\ tracked = Root.repository /\ manifest = Pending
          /\ capture = [c \in Captures |-> At("new", 0)]
       \/ /\ tracked = Root.empty /\ manifest = NoFile
          /\ capture = [c \in Captures |-> At("new", 0)]
       \/ \E first \in Captures :
            /\ tracked = [f \in TrackedFile |-> first] /\ manifest = Complete(tracked)
            /\ capture = [c \in Captures |-> At(IF c = first THEN "done" ELSE "new", 0)]
    /\ seen = [c \in Captures |-> tracked]
    /\ overlapped = FALSE
    /\ abandoned = 0

GoTo(c, step, n) == capture' = [capture EXCEPT ![c] = At(step, n)]

-----------------------------------------------------------------------------
\* A manifest that cannot be read is as good as none.
Refuses(forced) == ~forced /\ IsComplete

\* The confirmed capture, up to the payloads it reads from the live system;
\* reading them may raise as well, before a file was touched.
StartCapture(c) ==
    /\ capture[c] = At("new", 0)
    /\ \E forced \in BOOLEAN :
         IF Refuses(forced) THEN GoTo(c, "done", 0) /\ UNCHANGED overlapped
         ELSE /\ GoTo(c, "open", 1)
              /\ overlapped' = (overlapped \/ \E d \in Captures : Running(d))
    /\ UNCHANGED <<tracked, manifest, seen, abandoned>>

\* _write_json and the screenshots: each file is truncated, then filled.
OpenFile(c) ==
    \E n \in DOMAIN Tracked :
      /\ capture[c] = At("open", n)
      /\ tracked' = [tracked EXCEPT ![Tracked[n]] = Truncated]
      /\ GoTo(c, "fill", n)
      /\ UNCHANGED <<manifest, seen, overlapped, abandoned>>

FillFile(c) ==
    \E n \in DOMAIN Tracked :
      /\ capture[c] = At("fill", n)
      /\ tracked' = [tracked EXCEPT ![Tracked[n]] = c]
      /\ IF n = Len(Tracked) THEN GoTo(c, "hash", 0) ELSE GoTo(c, "open", n + 1)
      /\ UNCHANGED <<manifest, seen, overlapped, abandoned>>

\* _collect_file_metadata, from the disk.
HashFiles(c) ==
    /\ capture[c] = At("hash", 0)
    /\ seen' = [seen EXCEPT ![c] = tracked]
    /\ GoTo(c, "open_manifest", 0)
    /\ UNCHANGED <<tracked, manifest, overlapped, abandoned>>

OpenManifest(c) ==
    /\ capture[c] = At("open_manifest", 0)
    /\ manifest' = Truncated
    /\ GoTo(c, "fill_manifest", 0)
    /\ UNCHANGED <<tracked, seen, overlapped, abandoned>>

FillManifest(c) ==
    /\ capture[c] = At("fill_manifest", 0)
    /\ manifest' = Complete(seen[c])
    /\ GoTo(c, "done", 0)
    /\ UNCHANGED <<tracked, seen, overlapped, abandoned>>

\* An exception (no login, no screenshot, no server) or a kill.
Abandon(c) ==
    /\ Running(c) /\ abandoned < MaxAbandoned
    /\ GoTo(c, "abandoned", 0)
    /\ abandoned' = abandoned + 1
    /\ UNCHANGED <<tracked, manifest, seen, overlapped>>

CaptureStep(c) ==
    \/ StartCapture(c) \/ OpenFile(c) \/ FillFile(c) \/ HashFiles(c)
    \/ OpenManifest(c) \/ FillManifest(c) \/ Abandon(c)

-----------------------------------------------------------------------------
(***************************************************************************)
(* validate_golden_baseline.  A truncated screenshot has no bytes.  The    *)
(* configuration is parsed once more at the end, outside of any try.       *)
(***************************************************************************)
\* Mutant: hashes are not compared.
BaselineErrors_NoHashes ==
    {f \in TrackedFile : tracked[f] \in {NoFile, Truncated}}
BaselineErrors ==
    {f \in TrackedFile :
       \/ tracked[f] \in {NoFile, Truncated}
       \/ /\ ManifestReadable
          /\ \/ f \notin DOMAIN manifest.files
             \/ manifest.files[f] # tracked[f]}

Validation ==
    IF "config.json" \in TrackedFile /\ tracked["config.json"] = Truncated
    THEN "raises"
    ELSE IF BaselineErrors = {} /\ IsComplete THEN "pass"
    ELSE IF ManifestReadable /\ ~IsComplete THEN "pending-capture"
    ELSE "fail"

(***************************************************************************)
(* compare_with_golden_baseline: the surfaces that differ, the verdict of  *)
(* the artifact in place of the live one when it can be read, and only     *)
(* errors count.  Loading raises on a file that is not JSON and leaves a   *)
(* missing file's path in its place, which nothing below can use.          *)
(***************************************************************************)
Comparable == ManifestReadable /\ \A f \in Json : tracked[f] \notin {NoFile, Truncated}

Diffs(surfaces, artifact, live) ==
    LET verdict == IF artifact \in {"pass", "fail"} THEN artifact ELSE live IN
    {[severity |-> "error", surface |-> s] : s \in surfaces}
    \cup {[severity |-> "warn", surface |-> "registration"] :
            a \in {artifact} \cap {"missing", "invalid"}}
    \cup {[severity |-> "error", surface |-> "registration"] :
            v \in {verdict} \ {"pass"}}

\* Mutant: the severity that blocks for the status.
DiffStatus_Severity(diffs) ==
    IF \E d \in diffs : d.severity = "error" THEN "error" ELSE "pass"
DiffStatus(diffs) ==
    IF \E d \in diffs : d.severity = "error" THEN "fail" ELSE "pass"

-----------------------------------------------------------------------------
\* A baseline that validates is the work of one capture, whatever captures
\* raised or were killed before, unless two of them ran at the same time:
\* the hashes of the manifest, written last, are what shows a mixture
\* (golden_baseline.py, capture_golden_baseline and validate_golden_baseline).
ValidBaselineIsOneCapture ==
    Validation = "pass" /\ ~overlapped =>
        \E c \in Captures : \A f \in TrackedFile : tracked[f] = c
=============================================================================
