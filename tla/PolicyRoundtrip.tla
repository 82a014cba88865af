-------------------------- MODULE PolicyRoundtrip --------------------------
(***************************************************************************)
(* The two readiness checks that create things on the server: the policy   *)
(* roundtrip and the policy effect probe.  Each creates a computer group,  *)
(* a script profile and a policy through liderapi, executes the policy and *)
(* deletes what it made, whatever happened before.  Every call of liderapi *)
(* has a time limit, and the server may finish a call that its client gave *)
(* up; the docker commands that look for the reason of a failure have      *)
(* none.  No lock keeps two runs of the readiness checks apart: they share *)
(* the directory, the database and the first agent of the tree.            *)
(***************************************************************************)
EXTENDS Naturals, FiniteSets

CONSTANT
    Runs,       \* executions of a check; each draws a fresh uuid token
    Probes,     \* those that execute the policy effect probe
    MaxLate,    \* bound: works the server has put off at a time
    MaxKills    \* bound: runs killed

ASSUME ProbesAssumption == Probes \subseteq Runs
ASSUME BoundsAssumption == MaxLate \in Nat /\ MaxKills \in Nat

VARIABLES
    pc,         \* where a run is: its variable "stage", and the steps after it
    raisedAt,   \* the stage whose call raised, "none" when none did
    httpError,  \* whether what it raised is an HTTPError: the server refused
    held,       \* what a run holds an identifier of: group, profile, policy
    todo,       \* clean-up operations not yet tried
    failed,     \* cleanup["failed"]
    executed,   \* the status of execute_policy, "none" when it was not answered
    available,  \* commandHistoryAvailable: a history was read and it has an entry
    verdict,    \* what build_check returned, "none" before
    server,     \* artifacts that exist on the server
    late        \* work the server has not done yet and its client gave up

runVars == <<pc, raisedAt, httpError, held, todo, failed, executed, available,
             verdict>>
vars == <<pc, raisedAt, httpError, held, todo, failed, executed, available,
          verdict, server, late>>

Kinds == {"group", "profile", "policy"}
Artifacts == [owner : Runs, kind : Kinds]

CreateStage == [group   |-> "create_computer_group",
                profile |-> "create_script_profile",
                policy  |-> "create_policy"]
AfterCreate == [group   |-> "create_script_profile",
                profile |-> "create_policy",
                policy  |-> "execute_policy"]

Stages == {"get_computer_tree", "execute_policy", "get_command_history"}
          \cup {CreateStage[k] : k \in Kinds}

\* The stages of the search for a reason: a docker command each.
DockerLogs == {"tail_logs", "search_logs"}
AfterLogs == [tail_logs |-> "search_logs", search_logs |-> "report"]

\* A run that was killed, or that an exception ended, says nothing.
Silent == {"killed", "aborted"}
Finished == {"done"} \cup Silent

\* Mutant: the operations in the order of creation.
CleanupRank_GroupFirst == [policy |-> 3, profile |-> 2, group |-> 1]
\* The order of operations in cleanup_roundtrip_artifacts.
CleanupRank == [policy |-> 1, profile |-> 2, group |-> 3]

Named(r, k) == [owner |-> r, kind |-> k]

\* The server will do op to artifact a, although its client gave up.
PutOff(op, a) ==
    /\ Cardinality(late) < MaxLate
    /\ late' = late \cup {[op |-> op, artifact |-> a]}

(***************************************************************************)
(* Leaving the body of the try: through the end of it, or through the      *)
(* except clause, which keeps the stage.  Both call the clean-up with      *)
(* what the run holds.                                                     *)
(***************************************************************************)
GoTo(r, s) == pc' = [pc EXCEPT ![r] = s]

StartCleanup(r) ==
    /\ GoTo(r, "cleanup")
    /\ todo' = [todo EXCEPT ![r] = held[r]]
    /\ UNCHANGED <<raisedAt, httpError>>

Stage(r) == IF pc[r] = "group_lookup" THEN CreateStage["group"] ELSE pc[r]

\* Mutant: the except clause does not clean up.
Raise_WithoutCleanup(r, http) ==
    /\ GoTo(r, "cleanup")
    /\ raisedAt' = [raisedAt EXCEPT ![r] = Stage(r)]
    /\ httpError' = [httpError EXCEPT ![r] = http]
    /\ UNCHANGED todo

Raise(r, http) ==
    /\ GoTo(r, "cleanup")
    /\ raisedAt' = [raisedAt EXCEPT ![r] = Stage(r)]
    /\ httpError' = [httpError EXCEPT ![r] = http]
    /\ todo' = [todo EXCEPT ![r] = held[r]]

Hold(r, a, next) ==
    /\ held' = [held EXCEPT ![r] = @ \cup {a}]
    /\ GoTo(r, next)

-----------------------------------------------------------------------------
(***************************************************************************)
(* The first call.  Without an agent in the tree the check returns before  *)
(* the clean-up, and so does the probe when it is not authenticated.       *)
(***************************************************************************)
ReadTree(r) ==
    /\ pc[r] = "get_computer_tree"
    /\ \/ /\ GoTo(r, CreateStage["group"])
          /\ UNCHANGED <<raisedAt, httpError, todo, verdict>>
       \/ /\ GoTo(r, "done")
          /\ verdict' = [verdict EXCEPT ![r] = "fail"]
          /\ UNCHANGED <<raisedAt, httpError, todo>>
       \/ \E http \in BOOLEAN : Raise(r, http) /\ UNCHANGED verdict
    /\ UNCHANGED <<held, failed, executed, available, server, late>>

(***************************************************************************)
(* A create call: answered, with the identifier of what was made; refused; *)
(* done but the answer lost or unusable; or given up at the time limit     *)
(* while the server still works on it, which is no HTTPError.              *)
(***************************************************************************)
CreateAnswered(r, k) ==
    /\ Hold(r, Named(r, k), AfterCreate[k])
    /\ server' = server \cup {Named(r, k)}
    /\ UNCHANGED <<raisedAt, httpError, todo, late>>

CreateRaises(r, k) ==
    /\ \/ /\ \E http \in BOOLEAN : Raise(r, http)
          /\ server' \in {server, server \cup {Named(r, k)}}
          /\ UNCHANGED late
       \/ Raise(r, FALSE) /\ PutOff("create", Named(r, k)) /\ UNCHANGED server
    /\ UNCHANGED held

Create(r, k) ==
    /\ pc[r] = CreateStage[k]
    /\ CreateAnswered(r, k) \/ CreateRaises(r, k)
    /\ UNCHANGED <<failed, executed, available, verdict>>

\* A 417 to the group creation: the group may have been made, or not.
CreateGroupWarned(r) ==
    /\ pc[r] = CreateStage["group"]
    /\ GoTo(r, "group_lookup")
    /\ \/ server' = server \cup {Named(r, "group")}
       \/ UNCHANGED server
    /\ UNCHANGED <<raisedAt, httpError, held, todo, failed, executed, available,
                   verdict, late>>

\* Mutant: a group is found by the prefix all runs share.
Matching_ByPrefix(r) == {a \in server : a.kind = "group"}
\* The groups of the tree that bear the name just asked for.
Matching(r) == server \cap {Named(r, "group")}

\* Mutant: reads the tree again until the group is there.
LookUp_Retries(r) ==
    /\ pc[r] = "group_lookup"
    /\ \/ \E a \in Matching(r) :
            Hold(r, a, AfterCreate["group"]) /\ UNCHANGED <<raisedAt, httpError, todo>>
       \/ Matching(r) = {} /\ UNCHANGED <<pc, held, raisedAt, httpError, todo>>
    /\ UNCHANGED <<failed, executed, available, verdict, server, late>>

(***************************************************************************)
(* The reconciliation: reads the group tree, takes the group with the      *)
(* run's name; raises the 417 again when there is none, or what the read   *)
(* raised.                                                                 *)
(***************************************************************************)
LookUp(r) ==
    /\ pc[r] = "group_lookup"
    /\ \/ \E a \in Matching(r) :
            Hold(r, a, AfterCreate["group"]) /\ UNCHANGED <<raisedAt, httpError, todo>>
       \/ \E http \in BOOLEAN : Raise(r, http) /\ UNCHANGED held
    /\ UNCHANGED <<failed, executed, available, verdict, server, late>>

(***************************************************************************)
(* execute_policy returns whatever status the server answers with, so what *)
(* it raises is no HTTPError.  The roundtrip cleans up at once; the probe  *)
(* first waits two seconds and reads the command history, if the status    *)
(* was 200.                                                                *)
(***************************************************************************)
Execute(r) ==
    /\ pc[r] = "execute_policy"
    /\ \/ \E status \in {"ok", "refused"} :
            /\ executed' = [executed EXCEPT ![r] = status]
            /\ IF status = "ok" /\ r \in Probes
                 THEN /\ GoTo(r, "get_command_history")
                      /\ UNCHANGED <<raisedAt, httpError, todo>>
                 ELSE StartCleanup(r)
       \/ Raise(r, FALSE) /\ UNCHANGED executed
    /\ UNCHANGED <<held, failed, available, verdict, server, late>>

\* What the history read returns, or raises, goes into the details only.
ReadHistory(r) ==
    /\ pc[r] = "get_command_history"
    /\ StartCleanup(r)
    /\ available' \in {[available EXCEPT ![r] = b] : b \in BOOLEAN}
    /\ UNCHANGED <<held, failed, executed, verdict, server, late>>

-----------------------------------------------------------------------------
Due(r) == {a \in todo[r] : \A b \in todo[r] :
                              CleanupRank[a.kind] <= CleanupRank[b.kind]}

(***************************************************************************)
(* One operation of the clean-up: 200, 204 and 404 count as done; anything *)
(* raised is recorded, and the next operation is tried all the same.       *)
(***************************************************************************)
Delete(r, a) ==
    /\ pc[r] = "cleanup"
    /\ a \in Due(r)
    /\ todo' = [todo EXCEPT ![r] = @ \ {a}]
    /\ \/ server' = server \ {a} /\ UNCHANGED <<failed, late>>
       \/ /\ failed' = [failed EXCEPT ![r] = @ \cup {a}]
          /\ \/ UNCHANGED <<server, late>>
             \/ server' = server \ {a} /\ UNCHANGED late
             \/ PutOff("delete", a) /\ UNCHANGED server
    /\ UNCHANGED <<pc, raisedAt, httpError, held, executed, available, verdict>>

\* The end of the run: what it knew is gone with it.
Forget(r, end) ==
    /\ GoTo(r, end)
    /\ held' = [held EXCEPT ![r] = {}]
    /\ todo' = [todo EXCEPT ![r] = {}]
    /\ failed' = [failed EXCEPT ![r] = {}]
    /\ raisedAt' = [raisedAt EXCEPT ![r] = "none"]
    /\ httpError' = [httpError EXCEPT ![r] = FALSE]
    /\ executed' = [executed EXCEPT ![r] = "none"]
    /\ available' = [available EXCEPT ![r] = FALSE]

(***************************************************************************)
(* After an HTTPError, and when it has cleaned up, the roundtrip looks for *)
(* the reason in the logs of liderapi.  The probe does not.                *)
(***************************************************************************)
LooksForReason(r) == httpError[r] /\ r \notin Probes

Diagnose(r) ==
    /\ pc[r] = "cleanup"
    /\ todo[r] = {}
    /\ LooksForReason(r)
    /\ GoTo(r, "tail_logs")
    /\ UNCHANGED <<raisedAt, httpError, held, todo, failed, executed, available,
                   verdict, server, late>>

(***************************************************************************)
(* One docker logs command, run without a time limit.  Its output or its   *)
(* error goes into the details.  What running it raises (no docker to run, *)
(* a log that is no text) leaves the check: there is no report.            *)
(***************************************************************************)
ReadLogs(r) ==
    /\ pc[r] \in DockerLogs
    /\ \/ /\ GoTo(r, AfterLogs[pc[r]])
          /\ UNCHANGED <<raisedAt, httpError, held, todo, failed, executed,
                         available>>
       \/ Forget(r, "aborted")
    /\ UNCHANGED <<verdict, server, late>>

\* cleanup["status"]
CleanupCompleted(r) == held[r] # {} /\ failed[r] = {}

\* Mutant: the verdict leaves the clean-up out, as the probe's does.
Passed_WhateverWasLeft(r) == raisedAt[r] = "none" /\ executed[r] = "ok"

\* The condition of the check; the probe's does not look at the clean-up.
Passed(r) ==
    /\ raisedAt[r] = "none"
    /\ executed[r] = "ok"
    /\ r \notin Probes => CleanupCompleted(r)

\* Mutant: the status of the clean-up in place of the check's.
Verdict_Status(r) == IF Passed(r) THEN "pass" ELSE "partial_failure"
\* The status build_check gives.
Verdict(r) == IF Passed(r) THEN "pass" ELSE "fail"

Report(r) ==
    /\ \/ pc[r] = "cleanup" /\ todo[r] = {} /\ ~LooksForReason(r)
       \/ pc[r] = "report"
    /\ GoTo(r, "done")
    /\ verdict' = [verdict EXCEPT ![r] = Verdict(r)]
    /\ held' = [held EXCEPT ![r] = {}]
    /\ httpError' = [httpError EXCEPT ![r] = FALSE]
    /\ UNCHANGED <<raisedAt, todo, failed, executed, available, server, late>>

\* An interrupt or a kill is not an Exception: no clean-up, no verdict.
Killed(r) ==
    /\ pc[r] \notin Finished
    /\ Cardinality({s \in Runs : pc[s] = "killed"}) < MaxKills
    /\ Forget(r, "killed")
    /\ UNCHANGED <<verdict, server, late>>

-----------------------------------------------------------------------------
\* The server does what it was asked to, after its client gave up.
CatchUp(w) ==
    /\ w \in late
    /\ late' = late \ {w}
    /\ server' = IF w.op = "create" THEN server \cup {w.artifact}
                                    ELSE server \ {w.artifact}
    /\ UNCHANGED runVars

-----------------------------------------------------------------------------
Init ==
    /\ pc = [r \in Runs |-> "get_computer_tree"]
    /\ raisedAt = [r \in Runs |-> "none"]
    /\ httpError = [r \in Runs |-> FALSE]
    /\ held = [r \in Runs |-> {}]
    /\ todo = [r \in Runs |-> {}]
    /\ failed = [r \in Runs |-> {}]
    /\ executed = [r \in Runs |-> "none"]
    /\ available = [r \in Runs |-> FALSE]
    /\ verdict = [r \in Runs |-> "none"]
    /\ server = {}
    /\ late = {}

\* The steps of a run that end: its own work, and calls with a time limit.
Step(r) ==
    \/ ReadTree(r)
    \/ \E k \in Kinds : Create(r, k)
    \/ CreateGroupWarned(r)
    \/ LookUp(r)
    \/ Execute(r)
    \/ ReadHistory(r)
    \/ \E a \in held[r] : Delete(r, a)
    \/ Diagnose(r)
    \/ Report(r)

Next ==
    \/ \E r \in Runs : Step(r) \/ ReadLogs(r) \/ Killed(r)
    \/ \E w \in late : CatchUp(w)

Spec == Init /\ [][Next]_vars

\* Nothing makes a docker command end, so ReadLogs has no fairness.
FairSpec == Spec /\ \A r \in Runs : WF_vars(Step(r))

-----------------------------------------------------------------------------
TypeOK ==
    /\ pc \in [Runs -> Stages \cup {"group_lookup", "cleanup", "report"}
                     \cup DockerLogs \cup Finished]
    /\ raisedAt \in [Runs -> Stages \cup {"none"}]
    /\ httpError \in [Runs -> BOOLEAN]
    /\ held \in [Runs -> SUBSET Artifacts]
    /\ todo \in [Runs -> SUBSET Artifacts]
    /\ failed \in [Runs -> SUBSET Artifacts]
    /\ executed \in [Runs -> {"none", "ok", "refused"}]
    /\ available \in [Runs -> BOOLEAN]
    /\ verdict \in [Runs -> {"none", "pass", "fail"}]
    /\ server \subseteq Artifacts
    /\ late \subseteq [op : {"create", "delete"}, artifact : Artifacts]

\* What is on the server because of a run, now or once the server catches up.
LeftBy(r) == {a \in server : a.owner = r}
             \cup {w.artifact : w \in {v \in late : v.op = "create" /\ v.artifact.owner = r}}

\* The server may still be removing something of the run.
BeingDeleted(r) == \E w \in late : w.op = "delete" /\ w.artifact.owner = r

(***************************************************************************)
(* A policy roundtrip that passed left nothing behind and nothing is under *)
(* way: no create or delete of a call it gave up can still change the      *)
(* directory or the database.                                              *)
(***************************************************************************)
PassLeavesNothing ==
    \A r \in Runs :
        r \notin Probes /\ verdict[r] = "pass"
            => LeftBy(r) = {} /\ ~BeingDeleted(r)

(***************************************************************************)
(* Whatever a finished check left, its report accounts for: it is among    *)
(* the failed clean-up operations, or it is what the call that raised was  *)
(* making.  At most one artifact is of the second kind.                    *)
(***************************************************************************)
LeftoversAreAccountedFor ==
    \A r \in Runs : pc[r] = "done" =>
        \A a \in LeftBy(r) : a \in failed[r] \/ raisedAt[r] = CreateStage[a.kind]

(***************************************************************************)
(* Nothing a run relies on disappears while it still creates and executes: *)
(* no other run's clean-up, and no late work of another run, takes it.     *)
(***************************************************************************)
NothingVanishesInUse ==
    \A r \in Runs :
        pc[r] \in Stages => held[r] \subseteq server

(***************************************************************************)
(* What refers to others goes first: nothing of a run disappears from the  *)
(* server while the deletion of its policy is still to be tried, so no     *)
(* policy is left to point at what its own run took away before.           *)
(***************************************************************************)
DependentsGoFirst ==
    [][\A a \in server \ server' : \A b \in todo'[a.owner] : b.kind # "policy"]_vars

(***************************************************************************)
(* Every check ends, with a report or without one, whatever the server     *)
(* answers or fails to answer.  One wait has no end: a roundtrip that the  *)
(* server refused may wait for good for docker logs, and then it has tried *)
(* its whole clean-up before.                                              *)
(***************************************************************************)
EveryRunEnds ==
    \A r \in Runs :
        \/ <>(pc[r] \in Finished)
        \/ r \notin Probes /\ <>[](pc[r] \in DockerLogs /\ todo[r] = {})

(***************************************************************************)
(* The description of the effect probe: a pass means that the execution    *)
(* was seen in the command history: a history was read and it was not      *)
(* empty.                                                                  *)
(***************************************************************************)
ProbePassMeansHistory ==
    \A r \in Runs :
        r \in Probes /\ verdict[r] = "pass" => available[r]
=============================================================================
