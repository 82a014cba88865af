------------------------------ MODULE Bootstrap ------------------------------
(***************************************************************************)
(* bootstrap_runtime.py: phase after phase, compose builds, removes the    *)
(* one-shots that ran before, and brings the services up; then the         *)
(* containers are polled until the phase is satisfied or its time is over. *)
(* What a run leaves, the next one finds.  A run may be killed anywhere;   *)
(* the commands of compose may fail.                                       *)
(***************************************************************************)
EXTENDS AgentStartup, Sequences

CONSTANTS
    MaxRuns,        \* bound: executions of bootstrap_runtime
    MaxAgents       \* bound: --agents

ASSUME BootstrapAssumption == MaxRuns \in Nat /\ MaxAgents \in Nat \ {0}

VARIABLES
    pc,             \* where the run is, "idle" between runs
    run,            \* the number of the run
    phase,          \* its phase
    expected,       \* --agents
    outcome,        \* of the last run: its exit status
    lost            \* ghost: a container seen ready by this run failed since

bootstrapVars == <<pc, run, phase, expected, outcome, lost>>
containerVars == <<service, by, ahenk, mishaps>>

Phases == 1..Len(PhaseServices)
AgentPhase == Len(PhaseServices)
In(p) == PhaseServices[p] \cap Services
Go(p) == pc' = p
RunVars == <<run, phase, expected, outcome, lost>>

-----------------------------------------------------------------------------
\* A run for no agents is left out: its provisioner fails, and so does it.
StartRun ==
    /\ pc = "idle" /\ run < MaxRuns
    /\ run' = run + 1 /\ phase' = 1 /\ outcome' = "none" /\ lost' = FALSE
    /\ expected' \in 1..MaxAgents
    /\ Go("preflight")
    /\ UNCHANGED containerVars /\ UNCHANGED agentVars

\* sys.exit, a return of 1, an exception or a kill.
Fail == pc' = "idle" /\ outcome' = "failed" /\ UNCHANGED <<run, phase, expected, lost>>

(***************************************************************************)
(* _host_port_conflicts: ports of this project are not in the way, if      *)
(* compose can tell which they are.                                        *)
(***************************************************************************)
Publishing == \E s \in Services : service[s] \in {"running", "healthy"}

Preflight ==
    /\ pc = "preflight"
    /\ \E busy, listed \in BOOLEAN :
         IF busy \/ (Publishing /\ ~listed) THEN Fail
         ELSE Go("build") /\ UNCHANGED RunVars
    /\ UNCHANGED containerVars /\ UNCHANGED agentVars

-----------------------------------------------------------------------------
(* _compose_up *)

Build ==
    /\ pc = "build" /\ Go("rm")
    /\ UNCHANGED RunVars /\ UNCHANGED containerVars /\ UNCHANGED agentVars

\* recreate_before_up of each phase: its one-shots.
Recreate(p) == In(p) \cap OneShot

\* Mutant: the one-shots are left to `up'.
ComposeRm_Not ==
    /\ pc = "rm" /\ Go("up")
    /\ UNCHANGED RunVars /\ UNCHANGED containerVars /\ UNCHANGED agentVars
\* _compose_rm: rm -sf.
ComposeRm ==
    /\ pc = "rm" /\ Go("up")
    /\ service' = [s \in Services |->
                     IF s \in Recreate(phase) THEN "absent" ELSE service[s]]
    /\ UNCHANGED RunVars /\ UNCHANGED <<by, ahenk, mishaps>> /\ UNCHANGED agentVars

\* up of the services of a phase: creates, recreates what has another image
\* or environment, and has the engine start what does not run, a one-shot
\* that has ended among it.
UpServices(p) ==
    \E changed \in {{}, In(p)} :
      LET new == changed \cup {s \in In(p) : service[s] = "absent"} IN
      /\ service' = [s \in Services |->
           IF s \in new \/ (s \in In(p) /\ service[s] \in {"completed", "failed"})
           THEN "created" ELSE service[s]]
      /\ by' = [s \in Services |-> IF s \in new THEN run ELSE by[s]]

Highest == IF Existing = {} THEN 0 ELSE CHOOSE n \in Existing : \A m \in Existing : m <= n

\* up --scale ahenk=n: the lowest numbers stay; missing ones are added above.
Staying == {n \in Existing : Rank(n) <= expected}
Adding == (Highest + 1)..(Highest + expected - Cardinality(Existing))

UpAgents(added) ==
    \E changed \in {{}, Staying} :
      /\ ahenk' = [n \in Number |->
           IF n \in added \cup changed THEN "created"
           ELSE IF n \notin Staying THEN "absent"
           ELSE IF ahenk[n] = "exited" THEN "created" ELSE ahenk[n]]
      /\ at' = [n \in Number |-> IF n \in Staying \ changed THEN at[n] ELSE "none"]
      /\ index' = [n \in Number |-> IF n \in Staying \ changed THEN index[n] ELSE 0]
      /\ successes' = [n \in Number |-> IF at'[n] = "none" THEN 0 ELSE successes[n]]
      /\ clean' = [n \in Number |-> IF at'[n] = "none" THEN 0 ELSE clean[n]]
      /\ UNCHANGED fellBack

ComposeUp ==
    /\ pc = "up" /\ Go("starting")
    /\ IF phase = AgentPhase
       THEN /\ Adding \subseteq Number /\ UpAgents(Adding)
            /\ UNCHANGED <<service, by>>
       ELSE UpServices(phase) /\ UNCHANGED <<ahenk, agentVars>>
    /\ UNCHANGED mishaps /\ UNCHANGED RunVars

\* It returns when everything was started.
ComposeUpReturns ==
    /\ pc = "starting"
    /\ \A s \in In(phase) : service[s] # "created"
    /\ phase = AgentPhase => \A n \in Number : ahenk[n] # "created"
    /\ Go("poll")
    /\ UNCHANGED RunVars /\ UNCHANGED containerVars /\ UNCHANGED agentVars

\* A command that failed, or a kill, with some of the agents created and
\* none of them started.
RunBreaks ==
    /\ pc # "idle" /\ Fail
    /\ UNCHANGED <<service, by, mishaps>>
    /\ \/ UNCHANGED ahenk /\ UNCHANGED agentVars
       \/ /\ pc = "up" /\ phase = AgentPhase /\ Adding \subseteq Number
          /\ \E added \in SUBSET Adding \ {{}} : UpAgents(added)

-----------------------------------------------------------------------------
(* The wait for a phase *)

\* _normalize_state
NormalizeState(state) ==
    IF state = "healthy" THEN "running" ELSE IF state = "failed" THEN "exited" ELSE state

Expectation(s) ==
    IF s \in OneShot THEN "completed" ELSE IF s \in Healthchecked THEN "healthy" ELSE "running"

\* Mutant: the number of instances is not looked at.
AgentsSatisfied_NoCount == \A n \in Existing : NormalizeState(ahenk[n]) = "running"
\* The expectation that is a mapping, with the scale for its instances.
AgentsSatisfied ==
    /\ Cardinality(Existing) = expected
    /\ \A n \in Existing : NormalizeState(ahenk[n]) = "running"

\* _phase_satisfied
PhaseSatisfied(p) ==
    /\ \A s \in In(p) :
         IF Expectation(s) = "healthy" THEN service[s] = "healthy"
         ELSE NormalizeState(service[s]) = Expectation(s)
    /\ p = AgentPhase => AgentsSatisfied

\* One `compose ps'; when it fails the run does.
Poll ==
    /\ pc = "poll"
    /\ IF ~PhaseSatisfied(phase) THEN Go("sleep") /\ UNCHANGED RunVars
       ELSE IF phase = AgentPhase
       THEN Go("idle") /\ outcome' = "ok" /\ UNCHANGED <<run, phase, expected, lost>>
       ELSE Go("build") /\ phase' = phase + 1 /\ UNCHANGED <<run, expected, outcome, lost>>
    /\ UNCHANGED containerVars /\ UNCHANGED agentVars

\* Until the deadline of the phase, before which there is one poll.
Sleep ==
    /\ pc = "sleep"
    /\ \/ Go("poll") /\ UNCHANGED RunVars
       \/ Fail
    /\ UNCHANGED containerVars /\ UNCHANGED agentVars

BootstrapStep ==
    \/ StartRun \/ Preflight \/ Build \/ ComposeRm \/ ComposeUp \/ ComposeUpReturns
    \/ RunBreaks \/ Poll \/ Sleep

-----------------------------------------------------------------------------
\* Success means that every one-shot completed in a container this run
\* created, with this run's image and environment: not one an earlier run,
\* killed or timed out, had left behind (runtime-readiness.yaml,
\* recreate_before_up; bootstrap_runtime.py).
SuccessIsThisRuns ==
    outcome = "ok" => \A s \in Services \cap OneShot : service[s] = "completed" /\ by[s] = run

\* Until a container it had seen ready fails, the services section of the
\* readiness report agrees with a bootstrap that succeeded, though the two
\* read the contract in code of their own
\* (bootstrap_runtime.py:248, readiness/containers.py:77).
ReportAgreesWithBootstrap ==
    outcome = "ok" /\ ~lost => ServiceStateReport(expected)
=============================================================================
