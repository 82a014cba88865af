----------------------- MODULE PolicyRoundtripProofs -----------------------
(***************************************************************************)
(* For any set of runs, probes and bounds: a roundtrip that passed left    *)
(* nothing, whatever a finished check left is accounted for, and nothing   *)
(* vanishes under a run that uses it.                                      *)
(***************************************************************************)
EXTENDS PolicyRoundtrip, TLAPS

\* The steps that create and execute: the clean-up has not begun.
Working == Stages \cup {"group_lookup"}

\* What a run may hold at each stage: what it made so far.
HeldSoFar ==
    \A r \in Runs :
        /\ pc[r] \in {"get_computer_tree", "create_computer_group", "group_lookup"}
              => held[r] = {}
        /\ pc[r] = "create_script_profile" => \A a \in held[r] : a.kind = "group"
        /\ pc[r] = "create_policy" => \A a \in held[r] : a.kind # "policy"

Own == \A r \in Runs : todo[r] \subseteq held[r] /\ \A a \in held[r] : a.owner = r

\* A delete put off is a failed clean-up operation of the owner.
LateDeletes ==
    \A w \in late : w.op = "delete" =>
        /\ pc[w.artifact.owner] \notin Working
        /\ pc[w.artifact.owner] \notin Silent => w.artifact \in failed[w.artifact.owner]

\* A create put off ended the work of its run, which never knew the artifact.
LateCreates ==
    \A w \in late : w.op = "create" =>
        /\ pc[w.artifact.owner] \notin Working
        /\ w.artifact \notin todo[w.artifact.owner]

InUse == \A r \in Runs : pc[r] \in Working => held[r] \subseteq server

\* Where what a run made is remembered.
Remembered(r, a) ==
    \/ pc[r] \in Silent
    \/ pc[r] \in Working /\ a \in held[r]
    \/ pc[r] = "group_lookup" /\ a.kind = "group"
    \/ /\ pc[r] \in {"cleanup", "report", "done"} \cup DockerLogs
       /\ a \in todo[r] \cup failed[r] \/ raisedAt[r] = CreateStage[a.kind]

AllRemembered ==
    /\ \A a \in server : Remembered(a.owner, a)
    /\ \A w \in late : w.op = "create" => Remembered(w.artifact.owner, w.artifact)

PassIsClean ==
    \A r \in Runs : r \notin Probes /\ verdict[r] = "pass" =>
        pc[r] = "done" /\ todo[r] = {} /\ failed[r] = {} /\ raisedAt[r] = "none"

\* The clean-up was tried in full before the search for a reason.
DoneIsDone ==
    \A r \in Runs :
        pc[r] \in Finished \cup DockerLogs \cup {"report"} => todo[r] = {}

\* The policy is tried first: once something failed, no policy is to be tried.
TriedInOrder ==
    \A r \in Runs :
        /\ pc[r] \in Working => failed[r] = {}
        /\ failed[r] # {} => \A b \in todo[r] : b.kind # "policy"

IInv ==
    /\ TypeOK
    /\ HeldSoFar
    /\ Own
    /\ LateDeletes
    /\ LateCreates
    /\ InUse
    /\ AllRemembered
    /\ PassIsClean
    /\ DoneIsDone
    /\ TriedInOrder

-----------------------------------------------------------------------------
USE DEF Artifacts, Kinds, Stages, Finished, Silent, DockerLogs, CreateStage, AfterCreate, Named

\* Each step keeps the types.
LEMMA TypesStep == TypeOK /\ [Next]_vars => TypeOK'
<1> SUFFICES ASSUME TypeOK, [Next]_vars
             PROVE  TypeOK'
  OBVIOUS
<1> USE DEF TypeOK, GoTo, StartCleanup, Raise, Stage, Hold
<1>1. ASSUME NEW r \in Runs, ReadTree(r)
      PROVE  TypeOK'
  BY <1>1 DEF ReadTree
<1>2. ASSUME NEW r \in Runs, NEW k \in Kinds, Create(r, k)
      PROVE  TypeOK'
  <2>1. CASE CreateAnswered(r, k)
    BY <1>2, <2>1 DEF Create, CreateAnswered
  <2>2. CASE CreateRaises(r, k)
    <3>1. CASE \E http \in BOOLEAN : Raise(r, http) /\ UNCHANGED late
      BY <1>2, <2>2, <3>1 DEF Create, CreateRaises
    <3>2. CASE Raise(r, FALSE) /\ PutOff("create", Named(r, k))
      BY <1>2, <2>2, <3>2 DEF Create, CreateRaises, PutOff
    <3> QED
      BY <2>2, <3>1, <3>2 DEF CreateRaises
  <2> QED
    BY <1>2, <2>1, <2>2 DEF Create
<1>3. ASSUME NEW r \in Runs, CreateGroupWarned(r)
      PROVE  TypeOK'
  BY <1>3 DEF CreateGroupWarned
<1>4. ASSUME NEW r \in Runs, LookUp(r)
      PROVE  TypeOK'
  BY <1>4 DEF LookUp, Matching
<1>5. ASSUME NEW r \in Runs, Execute(r)
      PROVE  TypeOK'
  <2>1. CASE Raise(r, FALSE)
    BY <1>5, <2>1 DEF Execute
  <2>2. CASE ~Raise(r, FALSE)
    BY <1>5, <2>2 DEF Execute
  <2> QED
    BY <2>1, <2>2
<1>6. ASSUME NEW r \in Runs, ReadHistory(r)
      PROVE  TypeOK'
  BY <1>6 DEF ReadHistory
<1>7. ASSUME NEW r \in Runs, NEW a \in held[r], Delete(r, a)
      PROVE  TypeOK'
  <2>1. a \in Artifacts
    OBVIOUS
  <2> QED
    BY <1>7, <2>1 DEF Delete, PutOff
<1>8. ASSUME NEW r \in Runs, Report(r)
      PROVE  TypeOK'
  BY <1>8 DEF Report, Verdict
<1>9. ASSUME NEW r \in Runs, Killed(r)
      PROVE  TypeOK'
  BY <1>9 DEF Killed, Forget
<1>10. ASSUME NEW r \in Runs, Diagnose(r) \/ ReadLogs(r)
       PROVE  TypeOK'
  <2>1. CASE Diagnose(r)
    BY <2>1 DEF Diagnose
  <2>2. CASE ReadLogs(r)
    <3>1. AfterLogs[pc[r]] \in {"search_logs", "report"}
      BY <2>2 DEF ReadLogs, AfterLogs
    <3>2. CASE Forget(r, "aborted")
      BY <2>2, <3>2 DEF ReadLogs, Forget
    <3>3. CASE ~Forget(r, "aborted")
      BY <2>2, <3>1, <3>3 DEF ReadLogs
    <3> QED
      BY <3>2, <3>3
  <2> QED
    BY <1>10, <2>1, <2>2
<1>11. ASSUME NEW w \in late, CatchUp(w)
       PROVE  TypeOK'
  BY <1>11 DEF CatchUp, runVars
<1>12. CASE UNCHANGED vars
  BY <1>12 DEF vars
<1> QED
  BY <1>1, <1>2, <1>3, <1>4, <1>5, <1>6, <1>7, <1>8, <1>9, <1>10, <1>11, <1>12 DEF Next, Step

\* The parts of the invariant besides the types.
Parts ==
    HeldSoFar /\ Own /\ LateDeletes /\ LateCreates /\ InUse
    /\ AllRemembered /\ PassIsClean /\ DoneIsDone /\ TriedInOrder

\* Each step keeps every part of the invariant.
LEMMA PartsStep == IInv /\ TypeOK' /\ [Next]_vars => Parts'
<1> SUFFICES ASSUME IInv, TypeOK', [Next]_vars
             PROVE  Parts'
  OBVIOUS
<1> USE DEF IInv, TypeOK, HeldSoFar, Own, LateDeletes, LateCreates, InUse, AllRemembered,
            PassIsClean, DoneIsDone, TriedInOrder, Remembered, Working, GoTo,
            StartCleanup, Raise, Stage, Hold
<1>1. ASSUME NEW r \in Runs, ReadTree(r)
      PROVE  Parts'
  <2>1. HeldSoFar'
    BY <1>1 DEF ReadTree
  <2>2. Own'
    BY <1>1 DEF ReadTree
  <2>3. LateDeletes'
    BY <1>1 DEF ReadTree
  <2>4. LateCreates'
    BY <1>1 DEF ReadTree
  <2>5. InUse'
    BY <1>1 DEF ReadTree
  <2>6. AllRemembered'
    BY <1>1 DEF ReadTree
  <2>7. PassIsClean'
    BY <1>1 DEF ReadTree
  <2>8. DoneIsDone'
    BY <1>1 DEF ReadTree
  <2>9. TriedInOrder'
    BY <1>1 DEF ReadTree
  <2> QED
    BY <2>1, <2>2, <2>3, <2>4, <2>5, <2>6, <2>7, <2>8, <2>9 DEF Parts
<1>2. ASSUME NEW r \in Runs, NEW k \in Kinds, pc[r] = CreateStage[k], CreateAnswered(r, k),
             UNCHANGED <<failed, executed, available, verdict>>
      PROVE  Parts'
  <2>1. HeldSoFar'
    BY <1>2 DEF CreateAnswered
  <2>2. Own'
    BY <1>2 DEF CreateAnswered
  <2>3. LateDeletes'
    BY <1>2 DEF CreateAnswered
  <2>4. LateCreates'
    BY <1>2 DEF CreateAnswered
  <2>5. InUse'
    BY <1>2 DEF CreateAnswered
  <2>6. AllRemembered'
    BY <1>2 DEF CreateAnswered
  <2>7. PassIsClean'
    BY <1>2 DEF CreateAnswered
  <2>8. DoneIsDone'
    BY <1>2 DEF CreateAnswered
  <2>9. TriedInOrder'
    BY <1>2 DEF CreateAnswered
  <2> QED
    BY <2>1, <2>2, <2>3, <2>4, <2>5, <2>6, <2>7, <2>8, <2>9 DEF Parts
<1>3. ASSUME NEW r \in Runs, NEW k \in Kinds, pc[r] = CreateStage[k], CreateRaises(r, k),
             UNCHANGED <<failed, executed, available, verdict>>
      PROVE  Parts'
  <2>1. HeldSoFar'
    BY <1>3 DEF CreateRaises, PutOff
  <2>2. Own'
    BY <1>3 DEF CreateRaises, PutOff
  <2>3. LateDeletes'
    BY <1>3 DEF CreateRaises, PutOff
  <2>4. LateCreates'
    BY <1>3 DEF CreateRaises, PutOff
  <2>5. InUse'
    BY <1>3 DEF CreateRaises, PutOff
  <2>6. AllRemembered'
    BY <1>3 DEF CreateRaises, PutOff
  <2>7. PassIsClean'
    BY <1>3 DEF CreateRaises, PutOff
  <2>8. DoneIsDone'
    BY <1>3 DEF CreateRaises, PutOff
  <2>9. TriedInOrder'
    BY <1>3 DEF CreateRaises, PutOff
  <2> QED
    BY <2>1, <2>2, <2>3, <2>4, <2>5, <2>6, <2>7, <2>8, <2>9 DEF Parts
<1>4. ASSUME NEW r \in Runs, CreateGroupWarned(r)
      PROVE  Parts'
  <2>1. HeldSoFar'
    BY <1>4 DEF CreateGroupWarned
  <2>2. Own'
    BY <1>4 DEF CreateGroupWarned
  <2>3. LateDeletes'
    BY <1>4 DEF CreateGroupWarned
  <2>4. LateCreates'
    BY <1>4 DEF CreateGroupWarned
  <2>5. InUse'
    BY <1>4 DEF CreateGroupWarned
  <2>6. AllRemembered'
    BY <1>4 DEF CreateGroupWarned
  <2>7. PassIsClean'
    BY <1>4 DEF CreateGroupWarned
  <2>8. DoneIsDone'
    BY <1>4 DEF CreateGroupWarned
  <2>9. TriedInOrder'
    BY <1>4 DEF CreateGroupWarned
  <2> QED
    BY <2>1, <2>2, <2>3, <2>4, <2>5, <2>6, <2>7, <2>8, <2>9 DEF Parts
<1>5. ASSUME NEW r \in Runs, LookUp(r)
      PROVE  Parts'
  <2>1. HeldSoFar'
    BY <1>5 DEF LookUp, Matching
  <2>2. Own'
    BY <1>5 DEF LookUp, Matching
  <2>3. LateDeletes'
    BY <1>5 DEF LookUp, Matching
  <2>4. LateCreates'
    BY <1>5 DEF LookUp, Matching
  <2>5. InUse'
    BY <1>5 DEF LookUp, Matching
  <2>6. AllRemembered'
    BY <1>5 DEF LookUp, Matching
  <2>7. PassIsClean'
    BY <1>5 DEF LookUp, Matching
  <2>8. DoneIsDone'
    BY <1>5 DEF LookUp, Matching
  <2>9. TriedInOrder'
    BY <1>5 DEF LookUp, Matching
  <2> QED
    BY <2>1, <2>2, <2>3, <2>4, <2>5, <2>6, <2>7, <2>8, <2>9 DEF Parts
<1>6. ASSUME NEW r \in Runs, Execute(r)
      PROVE  Parts'
  <2>1. HeldSoFar'
    BY <1>6 DEF Execute
  <2>2. Own'
    BY <1>6 DEF Execute
  <2>3. LateDeletes'
    BY <1>6 DEF Execute
  <2>4. LateCreates'
    BY <1>6 DEF Execute
  <2>5. InUse'
    BY <1>6 DEF Execute
  <2>6. AllRemembered'
    BY <1>6 DEF Execute
  <2>7. PassIsClean'
    BY <1>6 DEF Execute
  <2>8. DoneIsDone'
    BY <1>6 DEF Execute
  <2>9. TriedInOrder'
    BY <1>6 DEF Execute
  <2> QED
    BY <2>1, <2>2, <2>3, <2>4, <2>5, <2>6, <2>7, <2>8, <2>9 DEF Parts
<1>7. ASSUME NEW r \in Runs, ReadHistory(r)
      PROVE  Parts'
  <2>1. HeldSoFar'
    BY <1>7 DEF ReadHistory
  <2>2. Own'
    BY <1>7 DEF ReadHistory
  <2>3. LateDeletes'
    BY <1>7 DEF ReadHistory
  <2>4. LateCreates'
    BY <1>7 DEF ReadHistory
  <2>5. InUse'
    BY <1>7 DEF ReadHistory
  <2>6. AllRemembered'
    BY <1>7 DEF ReadHistory
  <2>7. PassIsClean'
    BY <1>7 DEF ReadHistory
  <2>8. DoneIsDone'
    BY <1>7 DEF ReadHistory
  <2>9. TriedInOrder'
    BY <1>7 DEF ReadHistory
  <2> QED
    BY <2>1, <2>2, <2>3, <2>4, <2>5, <2>6, <2>7, <2>8, <2>9 DEF Parts
<1>8. ASSUME NEW r \in Runs, NEW a \in held[r], Delete(r, a)
      PROVE  Parts'
  <2>1. HeldSoFar'
    BY <1>8 DEF Delete, Due, PutOff
  <2>2. Own'
    BY <1>8 DEF Delete, Due, PutOff
  <2>3. LateDeletes'
    BY <1>8 DEF Delete, Due, PutOff
  <2>4. LateCreates'
    BY <1>8 DEF Delete, Due, PutOff
  <2>5. InUse'
    BY <1>8 DEF Delete, Due, PutOff
  <2>6. AllRemembered'
    BY <1>8 DEF Delete, Due, PutOff
  <2>7. PassIsClean'
    BY <1>8 DEF Delete, Due, PutOff
  <2>8. DoneIsDone'
    BY <1>8 DEF Delete, Due, PutOff
  <2>9. TriedInOrder'
    BY <1>8 DEF Delete, Due, PutOff, CleanupRank
  <2> QED
    BY <2>1, <2>2, <2>3, <2>4, <2>5, <2>6, <2>7, <2>8, <2>9 DEF Parts
<1>9. ASSUME NEW r \in Runs, Report(r)
      PROVE  Parts'
  <2>1. HeldSoFar'
    BY <1>9 DEF Report, Verdict, Passed, CleanupCompleted
  <2>2. Own'
    BY <1>9 DEF Report, Verdict, Passed, CleanupCompleted
  <2>3. LateDeletes'
    BY <1>9 DEF Report, Verdict, Passed, CleanupCompleted
  <2>4. LateCreates'
    BY <1>9 DEF Report, Verdict, Passed, CleanupCompleted
  <2>5. InUse'
    BY <1>9 DEF Report, Verdict, Passed, CleanupCompleted
  <2>6. AllRemembered'
    BY <1>9 DEF Report, Verdict, Passed, CleanupCompleted
  <2>7. PassIsClean'
    BY <1>9 DEF Report, Verdict, Passed, CleanupCompleted
  <2>8. DoneIsDone'
    BY <1>9 DEF Report, Verdict, Passed, CleanupCompleted
  <2>9. TriedInOrder'
    BY <1>9 DEF Report, Verdict, Passed, CleanupCompleted
  <2> QED
    BY <2>1, <2>2, <2>3, <2>4, <2>5, <2>6, <2>7, <2>8, <2>9 DEF Parts
<1>10. ASSUME NEW r \in Runs, Killed(r)
      PROVE  Parts'
  <2>1. HeldSoFar'
    BY <1>10 DEF Killed, Forget
  <2>2. Own'
    BY <1>10 DEF Killed, Forget
  <2>3. LateDeletes'
    BY <1>10 DEF Killed, Forget
  <2>4. LateCreates'
    BY <1>10 DEF Killed, Forget
  <2>5. InUse'
    BY <1>10 DEF Killed, Forget
  <2>6. AllRemembered'
    BY <1>10 DEF Killed, Forget
  <2>7. PassIsClean'
    BY <1>10 DEF Killed, Forget
  <2>8. DoneIsDone'
    BY <1>10 DEF Killed, Forget
  <2>9. TriedInOrder'
    BY <1>10 DEF Killed, Forget
  <2> QED
    BY <2>1, <2>2, <2>3, <2>4, <2>5, <2>6, <2>7, <2>8, <2>9 DEF Parts
<1>11. ASSUME NEW w \in late, CatchUp(w)
      PROVE  Parts'
  <2>1. HeldSoFar'
    BY <1>11 DEF CatchUp, runVars
  <2>2. Own'
    BY <1>11 DEF CatchUp, runVars
  <2>3. LateDeletes'
    BY <1>11 DEF CatchUp, runVars
  <2>4. LateCreates'
    BY <1>11 DEF CatchUp, runVars
  <2>5. InUse'
    BY <1>11 DEF CatchUp, runVars
  <2>6. AllRemembered'
    BY <1>11 DEF CatchUp, runVars
  <2>7. PassIsClean'
    BY <1>11 DEF CatchUp, runVars
  <2>8. DoneIsDone'
    BY <1>11 DEF CatchUp, runVars
  <2>9. TriedInOrder'
    BY <1>11 DEF CatchUp, runVars
  <2> QED
    BY <2>1, <2>2, <2>3, <2>4, <2>5, <2>6, <2>7, <2>8, <2>9 DEF Parts
<1>12. ASSUME UNCHANGED vars
      PROVE  Parts'
  <2>1. HeldSoFar'
    BY <1>12 DEF vars
  <2>2. Own'
    BY <1>12 DEF vars
  <2>3. LateDeletes'
    BY <1>12 DEF vars
  <2>4. LateCreates'
    BY <1>12 DEF vars
  <2>5. InUse'
    BY <1>12 DEF vars
  <2>6. AllRemembered'
    BY <1>12 DEF vars
  <2>7. PassIsClean'
    BY <1>12 DEF vars
  <2>8. DoneIsDone'
    BY <1>12 DEF vars
  <2>9. TriedInOrder'
    BY <1>12 DEF vars
  <2> QED
    BY <2>1, <2>2, <2>3, <2>4, <2>5, <2>6, <2>7, <2>8, <2>9 DEF Parts
<1>13. ASSUME NEW r \in Runs, Diagnose(r)
      PROVE  Parts'
  <2>1. HeldSoFar'
    BY <1>13 DEF Diagnose
  <2>2. Own'
    BY <1>13 DEF Diagnose
  <2>3. LateDeletes'
    BY <1>13 DEF Diagnose
  <2>4. LateCreates'
    BY <1>13 DEF Diagnose
  <2>5. InUse'
    BY <1>13 DEF Diagnose
  <2>6. AllRemembered'
    BY <1>13 DEF Diagnose
  <2>7. PassIsClean'
    BY <1>13 DEF Diagnose
  <2>8. DoneIsDone'
    BY <1>13 DEF Diagnose
  <2>9. TriedInOrder'
    BY <1>13 DEF Diagnose
  <2> QED
    BY <2>1, <2>2, <2>3, <2>4, <2>5, <2>6, <2>7, <2>8, <2>9 DEF Parts
<1>14. ASSUME NEW r \in Runs, pc[r] \in DockerLogs, NEW next \in {"search_logs", "report"},
              GoTo(r, next),
              UNCHANGED <<raisedAt, httpError, held, todo, failed, verdict, server, late>>
       PROVE  Parts'
  <2>1. HeldSoFar'
    BY <1>14
  <2>2. Own'
    BY <1>14
  <2>3. LateDeletes'
    BY <1>14
  <2>4. LateCreates'
    BY <1>14
  <2>5. InUse'
    BY <1>14
  <2>6. AllRemembered'
    BY <1>14
  <2>7. PassIsClean'
    BY <1>14
  <2>8. DoneIsDone'
    BY <1>14
  <2>9. TriedInOrder'
    BY <1>14
  <2> QED
    BY <2>1, <2>2, <2>3, <2>4, <2>5, <2>6, <2>7, <2>8, <2>9 DEF Parts
<1>15. ASSUME NEW r \in Runs, pc[r] \in DockerLogs, Forget(r, "aborted"),
              UNCHANGED <<verdict, server, late>>
       PROVE  Parts'
  <2>1. HeldSoFar'
    BY <1>15 DEF Forget
  <2>2. Own'
    BY <1>15 DEF Forget
  <2>3. LateDeletes'
    BY <1>15 DEF Forget
  <2>4. LateCreates'
    BY <1>15 DEF Forget
  <2>5. InUse'
    BY <1>15 DEF Forget
  <2>6. AllRemembered'
    BY <1>15 DEF Forget
  <2>7. PassIsClean'
    BY <1>15 DEF Forget
  <2>8. DoneIsDone'
    BY <1>15 DEF Forget
  <2>9. TriedInOrder'
    BY <1>15 DEF Forget
  <2> QED
    BY <2>1, <2>2, <2>3, <2>4, <2>5, <2>6, <2>7, <2>8, <2>9 DEF Parts
<1>16. ASSUME NEW r \in Runs, ReadLogs(r)
       PROVE  Parts'
  BY <1>14, <1>15, <1>16 DEF ReadLogs, AfterLogs
<1> QED
  BY <1>1, <1>2, <1>3, <1>4, <1>5, <1>6, <1>7, <1>8, <1>9, <1>10, <1>11, <1>12, <1>13, <1>16
     DEF Next, Step, Create


\* The invariant holds of every behaviour.
LEMMA InvariantHolds == Spec => []IInv
<1>1. Init => IInv
  BY DEF Init, IInv, TypeOK, HeldSoFar, Own, LateDeletes, LateCreates, InUse,
         AllRemembered, PassIsClean, DoneIsDone, TriedInOrder
<1>2. IInv /\ [Next]_vars => IInv'
  BY TypesStep, PartsStep DEF IInv, Parts
<1> QED
  BY <1>1, <1>2, PTL DEF Spec

(***************************************************************************)
(* Every variable keeps its type: for any set of runs and any bounds.      *)
(***************************************************************************)
THEOREM RoundtripTypes == Spec => []TypeOK
<1>1. IInv => TypeOK
  BY DEF IInv
<1> QED
  BY <1>1, InvariantHolds, PTL

(***************************************************************************)
(* A roundtrip that passed left nothing on the server, now or later.       *)
(* Passing takes a clean-up without failures and a stage that never        *)
(* raised, and then no place is left where an artifact is remembered.      *)
(***************************************************************************)
THEOREM PassedRoundtripIsClean == Spec => []PassLeavesNothing
<1>1. IInv => PassLeavesNothing
  <2> SUFFICES ASSUME IInv, NEW r \in Runs, r \notin Probes, verdict[r] = "pass"
               PROVE  LeftBy(r) = {} /\ ~BeingDeleted(r)
    BY DEF PassLeavesNothing
  <2>1. pc[r] = "done" /\ todo[r] = {} /\ failed[r] = {} /\ raisedAt[r] = "none"
    BY DEF IInv, PassIsClean
  <2>2. \A a \in Artifacts : ~Remembered(r, a)
    BY <2>1 DEF Remembered, Working
  <2>3. LeftBy(r) = {}
    BY <2>2 DEF LeftBy, IInv, TypeOK, AllRemembered
  <2>4. ~BeingDeleted(r)
    BY <2>1 DEF BeingDeleted, IInv, LateDeletes
  <2> QED
    BY <2>3, <2>4
<1> QED
  BY <1>1, InvariantHolds, PTL

(***************************************************************************)
(* Whatever a finished check left is a failed clean-up operation, or what  *)
(* the call that raised was making.                                        *)
(***************************************************************************)
THEOREM LeftoversAccounted == Spec => []LeftoversAreAccountedFor
<1>1. IInv => LeftoversAreAccountedFor
  <2> SUFFICES ASSUME IInv, NEW r \in Runs, pc[r] = "done", NEW a \in LeftBy(r)
               PROVE  a \in failed[r] \/ raisedAt[r] = CreateStage[a.kind]
    BY DEF LeftoversAreAccountedFor
  <2>1. Remembered(r, a)
    BY DEF LeftBy, IInv, AllRemembered
  <2> QED
    BY <2>1 DEF Remembered, Working, IInv, DoneIsDone
<1> QED
  BY <1>1, InvariantHolds, PTL

(***************************************************************************)
(* Nothing a working run holds disappears, whatever the others do.         *)
(***************************************************************************)
THEOREM NothingVanishes == Spec => []NothingVanishesInUse
<1>1. IInv => NothingVanishesInUse
  BY DEF NothingVanishesInUse, IInv, InUse, Working
<1> QED
  BY <1>1, InvariantHolds, PTL

(***************************************************************************)
(* No artifact disappears while the deletion of its run's policy is still  *)
(* to be tried, be it the clean-up that removes it or a delete put off.    *)
(***************************************************************************)
THEOREM PolicyGoesFirst == Spec => DependentsGoFirst
<1> DEFINE InOrder == \A a \in server \ server' : \A b \in todo'[a.owner] : b.kind # "policy"
<1>1. IInv /\ IInv' /\ [Next]_vars => InOrder
  <2> SUFFICES ASSUME IInv, IInv', [Next]_vars,
                      NEW a \in server, a \notin server', NEW b \in todo'[a.owner]
               PROVE  b.kind # "policy"
    OBVIOUS
  <2> USE DEF IInv, TypeOK
  <2>1. ASSUME NEW r \in Runs, NEW c \in held[r], Delete(r, c)
        PROVE  b.kind # "policy"
    <3>1. a = c /\ c \in todo[r] /\ a.owner = r
      BY <2>1 DEF Delete, Due, Own
    <3>2. b \in todo[r] /\ b # a /\ b.owner = r
      BY <2>1, <3>1 DEF Delete, Own
    <3>3. CleanupRank[a.kind] <= CleanupRank[b.kind]
      BY <2>1, <3>1, <3>2 DEF Delete, Due
    <3>4. a \in Artifacts /\ b \in Artifacts
      BY <3>1, <3>2
    <3> QED
      BY <3>1, <3>2, <3>3, <3>4 DEF CleanupRank
  <2>2. ASSUME NEW w \in late, CatchUp(w)
        PROVE  b.kind # "policy"
    <3>1. w.op = "delete" /\ w.artifact = a /\ b \in todo[a.owner]
      BY <2>2 DEF CatchUp, runVars
    <3> QED
      BY <3>1 DEF LateDeletes, DoneIsDone, TriedInOrder
  <2>3. ASSUME NEW r \in Runs,
               \/ ReadTree(r) \/ \E k \in Kinds : Create(r, k)
               \/ CreateGroupWarned(r) \/ LookUp(r) \/ Execute(r)
               \/ ReadHistory(r) \/ Diagnose(r) \/ ReadLogs(r)
               \/ Report(r) \/ Killed(r)
        PROVE  FALSE
    <3>1. ASSUME NEW k \in Kinds, Create(r, k)
          PROVE  FALSE
      BY <3>1 DEF Create, CreateAnswered, CreateRaises
    <3>2. CASE ReadTree(r) \/ CreateGroupWarned(r) \/ LookUp(r)
      BY <3>2 DEF ReadTree, CreateGroupWarned, LookUp
    <3>3. CASE \/ Execute(r) \/ ReadHistory(r) \/ Diagnose(r)
               \/ ReadLogs(r) \/ Report(r) \/ Killed(r)
      BY <3>3 DEF Execute, ReadHistory, Diagnose, ReadLogs, Report, Killed
    <3> QED
      BY <2>3, <3>1, <3>2, <3>3
  <2>4. CASE UNCHANGED vars
    BY <2>4 DEF vars
  <2> QED
    BY <2>1, <2>2, <2>3, <2>4 DEF Next, Step
<1>2. Spec => [][InOrder]_vars
  BY <1>1, InvariantHolds, PTL DEF Spec
<1> QED
  BY <1>2 DEF DependentsGoFirst

-----------------------------------------------------------------------------
(***************************************************************************)
(* How many steps a run has left at most.  Waiting for an answer, lost     *)
(* answers and the steps of other runs add none.                           *)
(***************************************************************************)
StepsLeft ==
    [get_computer_tree |-> 14, create_computer_group |-> 13, group_lookup |-> 12,
     create_script_profile |-> 11, create_policy |-> 10, execute_policy |-> 9,
     get_command_history |-> 8, cleanup |-> 4, tail_logs |-> 3, search_logs |-> 2,
     report |-> 1, done |-> 0, killed |-> 0, aborted |-> 0]

IsToTry(r, k) == IF Named(r, k) \in todo[r] THEN 1 ELSE 0

ToTry(r) == IsToTry(r, "group") + IsToTry(r, "profile") + IsToTry(r, "policy")

Left(r) == IF pc[r] = "cleanup" THEN 4 + ToTry(r) ELSE StepsLeft[pc[r]]

LEMMA LeftBounded ==
  ASSUME TypeOK, NEW r \in Runs
  PROVE  /\ Left(r) \in 0 .. 14
         /\ Left(r) = 0 <=> pc[r] \in Finished
<1>1. ToTry(r) \in 0 .. 3
  BY DEF ToTry, IsToTry
<1> HIDE DEF ToTry
<1>2. pc[r] \in Stages \cup {"group_lookup", "cleanup", "report"}
                 \cup DockerLogs \cup Finished
  BY DEF TypeOK
<1> QED
  BY <1>1, <1>2 DEF Left, StepsLeft

\* A run moves nothing of another run's stage or clean-up list.
LEMMA OthersUntouched ==
  ASSUME TypeOK, NEW s \in Runs, Step(s) \/ ReadLogs(s) \/ Killed(s), NEW r \in Runs \ {s}
  PROVE  pc'[r] = pc[r] /\ todo'[r] = todo[r]
<1> USE DEF TypeOK, GoTo, StartCleanup, Raise, Hold
<1>1. CASE ReadTree(s) \/ \E k \in Kinds : Create(s, k)
  BY <1>1 DEF ReadTree, Create, CreateAnswered, CreateRaises
<1>2. CASE CreateGroupWarned(s) \/ LookUp(s)
  BY <1>2 DEF CreateGroupWarned, LookUp
<1>3. CASE Execute(s) \/ ReadHistory(s)
  BY <1>3 DEF Execute, ReadHistory
<1>4. CASE (\E a \in held[s] : Delete(s, a)) \/ Report(s) \/ Killed(s)
  BY <1>4 DEF Delete, Report, Killed, Forget
<1>5. CASE Diagnose(s) \/ ReadLogs(s)
  BY <1>5 DEF Diagnose, ReadLogs, Forget
<1> QED
  BY <1>1, <1>2, <1>3, <1>4, <1>5 DEF Step

LEMMA DeletionCounts ==
  ASSUME IInv, NEW r \in Runs, NEW a \in held[r], Delete(r, a)
  PROVE  pc[r] = "cleanup" /\ pc'[r] = "cleanup" /\ ToTry(r)' = ToTry(r) - 1
<1> USE DEF IInv, TypeOK
<1>1. /\ pc[r] = "cleanup" /\ pc' = pc
      /\ a \in todo[r] /\ todo'[r] = todo[r] \ {a}
  BY DEF Delete, Due
<1>2. a = Named(r, a.kind) /\ a.kind \in Kinds
  BY <1>1 DEF Own
<1>3. ASSUME NEW k \in Kinds
      PROVE  IsToTry(r, k)' = IF k = a.kind THEN 0 ELSE IsToTry(r, k)
  BY <1>1, <1>2 DEF IsToTry
<1>4. IsToTry(r, a.kind) = 1
  BY <1>1, <1>2 DEF IsToTry
<1>5. \A k \in Kinds : IsToTry(r, k) \in Nat
  BY DEF IsToTry
<1> HIDE DEF IsToTry
<1> QED
  BY <1>1, <1>2, <1>3, <1>4, <1>5 DEF ToTry

LEMMA StepCounts ==
  ASSUME IInv, TypeOK', NEW r \in Runs, Step(r) \/ ReadLogs(r)
  PROVE  Left(r)' < Left(r)
<1> USE DEF TypeOK, GoTo, StartCleanup, Raise, Hold
<1> TypeOK
  BY DEF IInv
<1>0. ToTry(r)' \in 0 .. 3
  BY DEF ToTry, IsToTry
<1> HIDE DEF ToTry
<1>1. CASE ReadTree(r)
  BY <1>0, <1>1 DEF ReadTree, Left, StepsLeft
<1>2. ASSUME NEW k \in Kinds, Create(r, k) PROVE Left(r)' < Left(r)
  BY <1>0, <1>2 DEF Create, CreateAnswered, CreateRaises, Left, StepsLeft
<1>3. CASE CreateGroupWarned(r) \/ LookUp(r)
  BY <1>0, <1>3 DEF CreateGroupWarned, LookUp, Left, StepsLeft
<1>4. CASE Execute(r) \/ ReadHistory(r)
  BY <1>0, <1>4 DEF Execute, ReadHistory, Left, StepsLeft
<1>5. ASSUME NEW a \in held[r], Delete(r, a) PROVE Left(r)' < Left(r)
  <2>1. pc[r] = "cleanup" /\ pc'[r] = "cleanup" /\ ToTry(r)' = ToTry(r) - 1
    BY <1>5, DeletionCounts
  <2>2. ToTry(r) \in Nat
    BY DEF ToTry, IsToTry
  <2> QED
    BY <1>0, <2>1, <2>2 DEF Left
<1>6. CASE Report(r)
  <2>1. ToTry(r) \in Nat
    BY DEF ToTry, IsToTry
  <2> QED
    BY <1>6, <2>1 DEF Report, Left, StepsLeft
<1>7. CASE Diagnose(r) \/ ReadLogs(r)
  <2>1. ToTry(r) \in Nat
    BY DEF ToTry, IsToTry
  <2> QED
    BY <1>7, <2>1 DEF Diagnose, ReadLogs, Forget, AfterLogs, Left, StepsLeft
<1> QED
  BY <1>1, <1>2, <1>3, <1>4, <1>5, <1>6, <1>7 DEF Step

(***************************************************************************)
(* Every check makes at most fourteen steps: each step it takes leaves it    *)
(* fewer, and nothing the server, a kill or another run does gives it      *)
(* more.  This is what EveryRunEnds rests on besides the fairness.         *)
(***************************************************************************)
AtMostFourteen == \A r \in Runs : Left(r) \in 0 .. 14

Counts == \A r \in Runs : /\ Left(r)' <= Left(r)
                          /\ Step(r) \/ ReadLogs(r) => Left(r)' < Left(r)

EveryStepCounts == [][Counts]_vars

(***************************************************************************)
(* Every step of a roundtrip is one of at most fourteen, and no step of      *)
(* another run, of the server or of a kill adds one.                       *)
(***************************************************************************)
THEOREM FourteenStepsAtMost ==
  Spec => []AtMostFourteen /\ EveryStepCounts
<1>1. IInv => AtMostFourteen
  BY LeftBounded DEF IInv, AtMostFourteen
<1>2. IInv /\ IInv' /\ [Next]_vars => [Counts]_vars
  <2> SUFFICES ASSUME IInv, IInv', Next, NEW r \in Runs
               PROVE  Left(r)' <= Left(r) /\ (Step(r) \/ ReadLogs(r) => Left(r)' < Left(r))
    BY DEF Counts
  <2>1. TypeOK /\ TypeOK'
    BY DEF IInv
  <2>2. Left(r) \in 0 .. 14
    BY <2>1, LeftBounded
  <2>3. Left(r)' \in 0 .. 14
    <3>1. ToTry(r)' \in 0 .. 3
      BY DEF ToTry, IsToTry
    <3>2. pc'[r] \in Stages \cup {"group_lookup", "cleanup", "report"}
                 \cup DockerLogs \cup Finished
      BY <2>1 DEF TypeOK
    <3> HIDE DEF ToTry
    <3> QED
      BY <3>1, <3>2 DEF Left, StepsLeft
  <2>4. Step(r) \/ ReadLogs(r) => Left(r)' < Left(r)
    BY <2>1, StepCounts
  <2>5. CASE Step(r) \/ ReadLogs(r)
    BY <2>2, <2>3, <2>4, <2>5
  <2>6. CASE Killed(r)
    <3>1. Left(r)' = 0
      BY <2>1, <2>6 DEF Killed, Forget, GoTo, TypeOK, Left, StepsLeft
    <3> QED
      BY <2>2, <2>4, <3>1
  <2>7. ASSUME pc'[r] = pc[r], todo'[r] = todo[r]
        PROVE  Left(r)' <= Left(r)
    <3>1. Left(r)' = Left(r)
      BY <2>7 DEF Left, ToTry, IsToTry
    <3> QED
      BY <2>2, <3>1
  <2>8. ASSUME NEW s \in Runs \ {r}, Step(s) \/ ReadLogs(s) \/ Killed(s)
        PROVE  Left(r)' <= Left(r)
    <3>1. pc'[r] = pc[r] /\ todo'[r] = todo[r]
      BY <2>1, <2>8, OthersUntouched
    <3> QED
      BY <2>7, <3>1
  <2>9. ASSUME NEW w \in late, CatchUp(w)
        PROVE  Left(r)' <= Left(r)
    <3>1. pc' = pc /\ todo' = todo
      BY <2>9 DEF CatchUp, runVars
    <3> QED
      BY <2>7, <3>1
  <2> QED
    BY <2>4, <2>5, <2>6, <2>8, <2>9 DEF Next
<1>3. Spec => []AtMostFourteen
  BY <1>1, InvariantHolds, PTL
<1> QED
  BY <1>2, <1>3, InvariantHolds, PTL DEF Spec, EveryStepCounts

=============================================================================
