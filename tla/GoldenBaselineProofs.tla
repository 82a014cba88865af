------------------------ MODULE GoldenBaselineProofs ------------------------
(***************************************************************************)
(* For any number of captures, files and abandoned captures: the invariant *)
(* of the captures.  ReleaseGateProofs draws the theorems from it.         *)
(***************************************************************************)
EXTENDS GoldenBaseline, TLAPS

CaptureState ==
    [step : {"new", "open", "fill", "hash", "open_manifest", "fill_manifest",
             "done", "abandoned"},
     file : Nat]

GoldenTypes ==
    /\ tracked \in [TrackedFile -> Content]
    /\ capture \in [Captures -> CaptureState]
    /\ seen \in [Captures -> [TrackedFile -> Content]]
    /\ overlapped \in BOOLEAN

OneAtATime ==
    ~overlapped => \A c, d \in Captures : Running(c) /\ Running(d) => c = d

\* Where nothing overlaps, what a capture has passed is its own.
WrittenSoFar ==
    ~overlapped => \A c \in Captures :
        /\ \A n \in DOMAIN Tracked : capture[c] \in {At("open", n), At("fill", n)} =>
               \A i \in 1..(n - 1) : tracked[Tracked[i]] = c
        /\ capture[c] = At("hash", 0) => \A f \in TrackedFile : tracked[f] = c
        /\ capture[c] \in {At("open_manifest", 0), At("fill_manifest", 0)} =>
               \A f \in TrackedFile : seen[c][f] = c

ManifestIsOfOne ==
    ~overlapped /\ IsComplete =>
        \E c \in Captures : \A f \in TrackedFile : manifest.files[f] = c

GoldenInv ==
    GoldenTypes /\ OneAtATime /\ WrittenSoFar /\ ManifestIsOfOne

GoldenStep == [\E c \in Captures : CaptureStep(c)]_goldenVars

-----------------------------------------------------------------------------
\* The tracked files are numbered from 1, each once.
LEMMA Numbered ==
    /\ Len(Tracked) \in Nat \ {0}
    /\ DOMAIN Tracked = 1..Len(Tracked)
    /\ \A f \in TrackedFile : \E i \in 1..Len(Tracked) : f = Tracked[i]
    /\ \A i \in 1..Len(Tracked) : Tracked[i] \in TrackedFile
    /\ \A i, j \in 1..Len(Tracked) : Tracked[i] = Tracked[j] => i = j
<1>1. Tracked \in Seq(STRING)
  BY TrackedAssumption
<1>2. Len(Tracked) \in Nat /\ DOMAIN Tracked = 1..Len(Tracked)
  BY <1>1
<1>3. Len(Tracked) > 0
  BY TrackedAssumption
<1> QED
  BY <1>2, <1>3, TrackedAssumption DEF TrackedFile

\* The places of a capture differ.
LEMMA Places ==
    /\ \A s, t : \A m, n : At(s, m) = At(t, n) <=> s = t /\ m = n
    /\ \A c : Running(c) <=> capture[c] \notin {At("new", 0), At("done", 0), At("abandoned", 0)}
BY DEF At, Running, Ended

LEMMA GoldenStarts == GoldenInit => GoldenInv
<1> SUFFICES ASSUME GoldenInit PROVE GoldenInv
  OBVIOUS
<1>0. tracked \in [TrackedFile -> Content]
  BY DEF GoldenInit, Content, Root
<1>1. \A c \in Captures : capture[c] \in {At("new", 0), At("done", 0)}
  BY DEF GoldenInit
<1>2. capture \in [Captures -> CaptureState]
  BY DEF GoldenInit, CaptureState, At
<1>3. GoldenTypes
  BY <1>0, <1>2 DEF GoldenTypes, GoldenInit
<1>4. \A c \in Captures : ~Running(c)
  BY <1>1, Places
<1>5. OneAtATime
  BY <1>4 DEF OneAtATime
<1>6. WrittenSoFar
  BY <1>1, Places DEF WrittenSoFar
<1>7. ManifestIsOfOne
  <2> SUFFICES ASSUME IsComplete
               PROVE  \E c \in Captures : \A f \in TrackedFile : manifest.files[f] = c
    BY DEF ManifestIsOfOne
  <2>1. manifest # Pending /\ manifest # NoFile
    BY DEF IsComplete, ManifestReadable, Pending
  <2>2. PICK first \in Captures : tracked = [f \in TrackedFile |-> first] /\ manifest = Complete(tracked)
    BY <2>1 DEF GoldenInit
  <2> QED
    BY <2>2 DEF Complete
<1> QED
  BY <1>3, <1>5, <1>6, <1>7 DEF GoldenInv

\* What a step of one capture leaves of the others.
LEMMA OthersStay ==
    ASSUME GoldenTypes, NEW c \in Captures, NEW s, NEW n, GoTo(c, s, n)
    PROVE  /\ capture'[c] = At(s, n)
           /\ \A d \in Captures : d # c => capture'[d] = capture[d]
BY DEF GoldenTypes, GoTo

LEMMA GoldenKept == GoldenInv /\ GoldenStep => GoldenInv'
<1> SUFFICES ASSUME GoldenInv, GoldenStep PROVE GoldenInv'
  OBVIOUS
<1> USE DEF GoldenInv
<1>0. CASE UNCHANGED goldenVars
  BY <1>0 DEF goldenVars, GoldenTypes, OneAtATime, WrittenSoFar, ManifestIsOfOne,
     Running, IsComplete, ManifestReadable
<1>1. ASSUME NEW c \in Captures, StartCapture(c)
      PROVE  GoldenInv'
  <2>0. PICK forced \in BOOLEAN :
          IF Refuses(forced) THEN GoTo(c, "done", 0) /\ UNCHANGED overlapped
          ELSE /\ GoTo(c, "open", 1)
               /\ overlapped' = (overlapped \/ \E d \in Captures : Running(d))
    BY <1>1 DEF StartCapture
  <2>1. capture[c] = At("new", 0) /\ UNCHANGED <<tracked, manifest, seen, abandoned>>
    BY <1>1 DEF StartCapture
  <2>2. /\ capture'[c] \in {At("done", 0), At("open", 1)}
        /\ \A d \in Captures : d # c => capture'[d] = capture[d]
    BY <2>0, OthersStay
  <2>3. GoldenTypes'
    <3>1. At("done", 0) \in CaptureState /\ At("open", 1) \in CaptureState
      BY DEF CaptureState, At
    <3>2. capture' \in [Captures -> CaptureState]
      BY <2>0, <3>1 DEF GoldenTypes, GoTo
    <3>3. overlapped' \in BOOLEAN
      BY <2>0 DEF GoldenTypes
    <3> QED
      BY <2>1, <3>2, <3>3 DEF GoldenTypes
  <2>4. \A d \in Captures : Running(d) <=> capture[d] \notin {At("new", 0), At("done", 0), At("abandoned", 0)}
    BY Places
  <2>5. \A d \in Captures : Running(d)' <=> capture'[d] \notin {At("new", 0), At("done", 0), At("abandoned", 0)}
    BY DEF Running, Ended
  <2>6. ~overlapped' => ~overlapped /\ (Running(c)' => \A d \in Captures : ~Running(d))
    <3>1. CASE Refuses(forced)
      BY <2>0, <2>5, <3>1, OthersStay
    <3>2. CASE ~Refuses(forced)
      BY <2>0, <3>2
    <3> QED
      BY <3>1, <3>2
  <2>7. OneAtATime'
    BY <2>2, <2>4, <2>5, <2>6 DEF OneAtATime
  <2>8. WrittenSoFar'
    <3> SUFFICES ASSUME ~overlapped', NEW d \in Captures
                 PROVE  /\ \A n \in DOMAIN Tracked : capture'[d] \in {At("open", n), At("fill", n)} =>
                               \A i \in 1..(n - 1) : tracked'[Tracked[i]] = d
                        /\ capture'[d] = At("hash", 0) => \A f \in TrackedFile : tracked'[f] = d
                        /\ capture'[d] \in {At("open_manifest", 0), At("fill_manifest", 0)} =>
                               \A f \in TrackedFile : seen'[d][f] = d
      BY DEF WrittenSoFar
    <3>1. CASE d = c
      BY <2>2, <3>1, Places
    <3>2. CASE d # c
      BY <2>1, <2>2, <2>6, <3>2 DEF WrittenSoFar
    <3> QED
      BY <3>1, <3>2
  <2>9. ManifestIsOfOne'
    BY <2>1, <2>6 DEF ManifestIsOfOne, IsComplete, ManifestReadable
  <2> QED
    BY <2>3, <2>7, <2>8, <2>9
\* The steps after the first: no capture begins.
<1>2. ASSUME NEW c \in Captures, NEW s, NEW n, Running(c),
             GoTo(c, s, n), At(s, n) \in CaptureState, UNCHANGED overlapped
      PROVE  /\ OneAtATime'
             /\ capture' \in [Captures -> CaptureState]
             /\ ~overlapped => \A d \in Captures : d # c =>
                    capture'[d] \in {At("new", 0), At("done", 0), At("abandoned", 0)}
  <2>1. \A d \in Captures : Running(d) <=> capture[d] \notin {At("new", 0), At("done", 0), At("abandoned", 0)}
    BY Places
  <2>2. \A d \in Captures : Running(d)' <=> capture'[d] \notin {At("new", 0), At("done", 0), At("abandoned", 0)}
    BY DEF Running, Ended
  <2>3. \A d \in Captures : d # c => capture'[d] = capture[d]
    BY <1>2, OthersStay
  <2>4. OneAtATime'
    BY <1>2, <2>1, <2>2, <2>3 DEF OneAtATime
  <2>5. capture' \in [Captures -> CaptureState]
    BY <1>2 DEF GoTo, GoldenTypes
  <2> QED
    BY <1>2, <2>1, <2>3, <2>4, <2>5 DEF OneAtATime
<1>3. ASSUME NEW c \in Captures, OpenFile(c)
      PROVE  GoldenInv'
  <2>1. PICK n \in DOMAIN Tracked :
          /\ capture[c] = At("open", n)
          /\ tracked' = [tracked EXCEPT ![Tracked[n]] = Truncated]
          /\ GoTo(c, "fill", n)
          /\ UNCHANGED <<manifest, seen, overlapped, abandoned>>
    BY <1>3 DEF OpenFile
  <2>2. n \in 1..Len(Tracked) /\ n \in Nat /\ Tracked[n] \in TrackedFile
    BY Numbered
  <2>3. Running(c) /\ At("fill", n) \in CaptureState
    BY <2>1, <2>2, Places DEF At, CaptureState
  <2>4. /\ OneAtATime'
        /\ capture' \in [Captures -> CaptureState]
        /\ ~overlapped => \A d \in Captures : d # c =>
               capture'[d] \in {At("new", 0), At("done", 0), At("abandoned", 0)}
    BY <1>2, <2>1, <2>3
  <2>5. capture'[c] = At("fill", n)
    BY <2>1, OthersStay
  <2>6. GoldenTypes'
    BY <2>1, <2>2, <2>4 DEF GoldenTypes, Content
  <2>7. WrittenSoFar'
    <3> SUFFICES ASSUME ~overlapped, NEW d \in Captures
                 PROVE  /\ \A m \in DOMAIN Tracked : capture'[d] \in {At("open", m), At("fill", m)} =>
                               \A i \in 1..(m - 1) : tracked'[Tracked[i]] = d
                        /\ capture'[d] = At("hash", 0) => \A f \in TrackedFile : tracked'[f] = d
                        /\ capture'[d] \in {At("open_manifest", 0), At("fill_manifest", 0)} =>
                               \A f \in TrackedFile : seen'[d][f] = d
      BY <2>1 DEF WrittenSoFar
    <3>1. CASE d # c
      BY <2>4, <3>1, Places
    <3>2. CASE d = c
      <4>1. \A i \in 1..(n - 1) : tracked[Tracked[i]] = c
        BY <2>1 DEF WrittenSoFar
      <4>2. \A i \in 1..(n - 1) : tracked'[Tracked[i]] = c
        BY <2>1, <2>2, <4>1, Numbered DEF GoldenTypes
      <4> QED
        BY <2>5, <3>2, <4>2, Places
    <3> QED
      BY <3>1, <3>2
  <2>8. ManifestIsOfOne'
    BY <2>1 DEF ManifestIsOfOne, IsComplete, ManifestReadable
  <2> QED
    BY <2>4, <2>6, <2>7, <2>8
<1>4. ASSUME NEW c \in Captures, FillFile(c)
      PROVE  GoldenInv'
  <2>0. PICK n \in DOMAIN Tracked :
          /\ capture[c] = At("fill", n)
          /\ tracked' = [tracked EXCEPT ![Tracked[n]] = c]
          /\ IF n = Len(Tracked) THEN GoTo(c, "hash", 0) ELSE GoTo(c, "open", n + 1)
          /\ UNCHANGED <<manifest, seen, overlapped, abandoned>>
    BY <1>4 DEF FillFile
  <2>1. /\ capture[c] = At("fill", n)
        /\ tracked' = [tracked EXCEPT ![Tracked[n]] = c]
        /\ UNCHANGED <<manifest, seen, overlapped, abandoned>>
    BY <2>0
  <2>2. n \in 1..Len(Tracked) /\ n \in Nat /\ Tracked[n] \in TrackedFile
    BY Numbered
  <2>3. /\ Running(c)
        /\ At("hash", 0) \in CaptureState /\ At("open", n + 1) \in CaptureState
    BY <2>1, <2>2, Places DEF At, CaptureState
  <2>4. /\ OneAtATime'
        /\ capture' \in [Captures -> CaptureState]
        /\ ~overlapped => \A d \in Captures : d # c =>
               capture'[d] \in {At("new", 0), At("done", 0), At("abandoned", 0)}
    BY <1>2, <2>0, <2>1, <2>3
  <2>5. capture'[c] = IF n = Len(Tracked) THEN At("hash", 0) ELSE At("open", n + 1)
    BY <2>0, OthersStay
  <2>6. GoldenTypes'
    BY <2>1, <2>2, <2>4 DEF GoldenTypes, Content
  <2>7. WrittenSoFar'
    <3> SUFFICES ASSUME ~overlapped, NEW d \in Captures
                 PROVE  /\ \A m \in DOMAIN Tracked : capture'[d] \in {At("open", m), At("fill", m)} =>
                               \A i \in 1..(m - 1) : tracked'[Tracked[i]] = d
                        /\ capture'[d] = At("hash", 0) => \A f \in TrackedFile : tracked'[f] = d
                        /\ capture'[d] \in {At("open_manifest", 0), At("fill_manifest", 0)} =>
                               \A f \in TrackedFile : seen'[d][f] = d
      BY <2>1 DEF WrittenSoFar
    <3>1. CASE d # c
      BY <2>4, <3>1, Places
    <3>2. CASE d = c
      <4>1. \A i \in 1..(n - 1) : tracked[Tracked[i]] = c
        BY <2>1 DEF WrittenSoFar
      <4>2. \A i \in 1..n : tracked'[Tracked[i]] = c
        <5> SUFFICES ASSUME NEW i \in 1..n PROVE tracked'[Tracked[i]] = c
          OBVIOUS
        <5>1. Tracked[i] \in TrackedFile
          BY <2>2, Numbered
        <5>2. CASE i = n
          BY <2>1, <5>1, <5>2 DEF GoldenTypes
        <5>3. CASE i # n
          <6>1. i \in 1..(n - 1) /\ tracked[Tracked[i]] = c
            BY <2>2, <4>1, <5>3
          <6> QED
            BY <2>1, <5>1, <6>1 DEF GoldenTypes
        <5> QED
          BY <5>2, <5>3
      <4>3. CASE n = Len(Tracked)
        <5>1. \A f \in TrackedFile : tracked'[f] = c
          BY <4>2, <4>3, Numbered
        <5> QED
          BY <2>5, <3>2, <4>3, <5>1, Places
      <4>4. CASE n # Len(Tracked)
        <5>1. \A m : capture'[c] \in {At("open", m), At("fill", m)} => m = n + 1
          BY <2>5, <4>4, Places
        <5>2. \A i \in 1..((n + 1) - 1) : tracked'[Tracked[i]] = c
          BY <2>2, <4>2
        <5> QED
          BY <2>5, <3>2, <4>4, <5>1, <5>2, Places
      <4> QED
        BY <4>3, <4>4
    <3> QED
      BY <3>1, <3>2
  <2>8. ManifestIsOfOne'
    BY <2>1 DEF ManifestIsOfOne, IsComplete, ManifestReadable
  <2> QED
    BY <2>4, <2>6, <2>7, <2>8
<1>5. ASSUME NEW c \in Captures, HashFiles(c)
      PROVE  GoldenInv'
  <2>1. /\ capture[c] = At("hash", 0)
        /\ seen' = [seen EXCEPT ![c] = tracked]
        /\ GoTo(c, "open_manifest", 0)
        /\ UNCHANGED <<tracked, manifest, overlapped, abandoned>>
    BY <1>5 DEF HashFiles
  <2>3. Running(c) /\ At("open_manifest", 0) \in CaptureState
    BY <2>1, Places DEF At, CaptureState
  <2>4. /\ OneAtATime'
        /\ capture' \in [Captures -> CaptureState]
        /\ ~overlapped => \A d \in Captures : d # c =>
               capture'[d] \in {At("new", 0), At("done", 0), At("abandoned", 0)}
    BY <1>2, <2>1, <2>3
  <2>5. capture'[c] = At("open_manifest", 0)
    BY <2>1, OthersStay
  <2>6. GoldenTypes'
    BY <2>1, <2>4 DEF GoldenTypes
  <2>7. WrittenSoFar'
    <3> SUFFICES ASSUME ~overlapped, NEW d \in Captures
                 PROVE  /\ \A m \in DOMAIN Tracked : capture'[d] \in {At("open", m), At("fill", m)} =>
                               \A i \in 1..(m - 1) : tracked'[Tracked[i]] = d
                        /\ capture'[d] = At("hash", 0) => \A f \in TrackedFile : tracked'[f] = d
                        /\ capture'[d] \in {At("open_manifest", 0), At("fill_manifest", 0)} =>
                               \A f \in TrackedFile : seen'[d][f] = d
      BY <2>1 DEF WrittenSoFar
    <3>1. CASE d # c
      BY <2>4, <3>1, Places
    <3>2. CASE d = c
      <4>1. \A f \in TrackedFile : tracked[f] = c
        BY <2>1 DEF WrittenSoFar
      <4>2. seen'[c] = tracked
        BY <2>1 DEF GoldenTypes
      <4> QED
        BY <2>5, <3>2, <4>1, <4>2, Places
    <3> QED
      BY <3>1, <3>2
  <2>8. ManifestIsOfOne'
    BY <2>1 DEF ManifestIsOfOne, IsComplete, ManifestReadable
  <2> QED
    BY <2>4, <2>6, <2>7, <2>8
<1>6. ASSUME NEW c \in Captures, OpenManifest(c)
      PROVE  GoldenInv'
  <2>1. /\ capture[c] = At("open_manifest", 0)
        /\ manifest' = Truncated
        /\ GoTo(c, "fill_manifest", 0)
        /\ UNCHANGED <<tracked, seen, overlapped, abandoned>>
    BY <1>6 DEF OpenManifest
  <2>3. Running(c) /\ At("fill_manifest", 0) \in CaptureState
    BY <2>1, Places DEF At, CaptureState
  <2>4. /\ OneAtATime'
        /\ capture' \in [Captures -> CaptureState]
        /\ ~overlapped => \A d \in Captures : d # c =>
               capture'[d] \in {At("new", 0), At("done", 0), At("abandoned", 0)}
    BY <1>2, <2>1, <2>3
  <2>5. capture'[c] = At("fill_manifest", 0)
    BY <2>1, OthersStay
  <2>6. GoldenTypes'
    BY <2>1, <2>4 DEF GoldenTypes
  <2>7. WrittenSoFar'
    <3> SUFFICES ASSUME ~overlapped, NEW d \in Captures
                 PROVE  /\ \A m \in DOMAIN Tracked : capture'[d] \in {At("open", m), At("fill", m)} =>
                               \A i \in 1..(m - 1) : tracked'[Tracked[i]] = d
                        /\ capture'[d] = At("hash", 0) => \A f \in TrackedFile : tracked'[f] = d
                        /\ capture'[d] \in {At("open_manifest", 0), At("fill_manifest", 0)} =>
                               \A f \in TrackedFile : seen'[d][f] = d
      BY <2>1 DEF WrittenSoFar
    <3>1. CASE d # c
      BY <2>4, <3>1, Places
    <3>2. CASE d = c
      <4>1. \A f \in TrackedFile : seen[c][f] = c
        BY <2>1 DEF WrittenSoFar
      <4> QED
        BY <2>1, <2>5, <3>2, <4>1, Places
    <3> QED
      BY <3>1, <3>2
  <2>8. ~IsComplete'
    BY <2>1 DEF IsComplete, ManifestReadable
  <2> QED
    BY <2>4, <2>6, <2>7, <2>8 DEF ManifestIsOfOne
<1>7. ASSUME NEW c \in Captures, FillManifest(c)
      PROVE  GoldenInv'
  <2>1. /\ capture[c] = At("fill_manifest", 0)
        /\ manifest' = Complete(seen[c])
        /\ GoTo(c, "done", 0)
        /\ UNCHANGED <<tracked, seen, overlapped, abandoned>>
    BY <1>7 DEF FillManifest
  <2>3. Running(c) /\ At("done", 0) \in CaptureState
    BY <2>1, Places DEF At, CaptureState
  <2>4. /\ OneAtATime'
        /\ capture' \in [Captures -> CaptureState]
        /\ ~overlapped => \A d \in Captures : d # c =>
               capture'[d] \in {At("new", 0), At("done", 0), At("abandoned", 0)}
    BY <1>2, <2>1, <2>3
  <2>5. capture'[c] = At("done", 0)
    BY <2>1, OthersStay
  <2>6. GoldenTypes'
    BY <2>1, <2>4 DEF GoldenTypes
  <2>7. WrittenSoFar'
    <3> SUFFICES ASSUME ~overlapped, NEW d \in Captures
                 PROVE  /\ \A m \in DOMAIN Tracked : capture'[d] \in {At("open", m), At("fill", m)} =>
                               \A i \in 1..(m - 1) : tracked'[Tracked[i]] = d
                        /\ capture'[d] = At("hash", 0) => \A f \in TrackedFile : tracked'[f] = d
                        /\ capture'[d] \in {At("open_manifest", 0), At("fill_manifest", 0)} =>
                               \A f \in TrackedFile : seen'[d][f] = d
      BY <2>1 DEF WrittenSoFar
    <3>1. CASE d # c
      BY <2>4, <3>1, Places
    <3>2. CASE d = c
      BY <2>5, <3>2, Places
    <3> QED
      BY <3>1, <3>2
  <2>8. ManifestIsOfOne'
    <3>1. ~overlapped => \A f \in TrackedFile : seen[c][f] = c
      BY <2>1 DEF WrittenSoFar
    <3>2. manifest'.files = seen[c]
      BY <2>1 DEF Complete
    <3> QED
      BY <2>1, <3>1, <3>2 DEF ManifestIsOfOne
  <2> QED
    BY <2>4, <2>6, <2>7, <2>8
<1>8. ASSUME NEW c \in Captures, Abandon(c)
      PROVE  GoldenInv'
  <2>1. /\ Running(c)
        /\ GoTo(c, "abandoned", 0)
        /\ UNCHANGED <<tracked, manifest, seen, overlapped>>
    BY <1>8 DEF Abandon
  <2>3. At("abandoned", 0) \in CaptureState
    BY DEF At, CaptureState
  <2>4. /\ OneAtATime'
        /\ capture' \in [Captures -> CaptureState]
        /\ ~overlapped => \A d \in Captures : d # c =>
               capture'[d] \in {At("new", 0), At("done", 0), At("abandoned", 0)}
    BY <1>2, <2>1, <2>3
  <2>5. capture'[c] = At("abandoned", 0)
    BY <2>1, OthersStay
  <2>6. GoldenTypes'
    BY <2>1, <2>4 DEF GoldenTypes
  <2>7. WrittenSoFar'
    <3> SUFFICES ASSUME ~overlapped, NEW d \in Captures
                 PROVE  /\ \A m \in DOMAIN Tracked : capture'[d] \in {At("open", m), At("fill", m)} =>
                               \A i \in 1..(m - 1) : tracked'[Tracked[i]] = d
                        /\ capture'[d] = At("hash", 0) => \A f \in TrackedFile : tracked'[f] = d
                        /\ capture'[d] \in {At("open_manifest", 0), At("fill_manifest", 0)} =>
                               \A f \in TrackedFile : seen'[d][f] = d
      BY <2>1 DEF WrittenSoFar
    <3>1. CASE d # c
      BY <2>4, <3>1, Places
    <3>2. CASE d = c
      BY <2>5, <3>2, Places
    <3> QED
      BY <3>1, <3>2
  <2>8. ManifestIsOfOne'
    BY <2>1 DEF ManifestIsOfOne, IsComplete, ManifestReadable
  <2> QED
    BY <2>4, <2>6, <2>7, <2>8
<1> QED
  BY <1>0, <1>1, <1>3, <1>4, <1>5, <1>6, <1>7, <1>8 DEF GoldenStep, CaptureStep
=============================================================================
