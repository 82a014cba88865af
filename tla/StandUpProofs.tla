---------------------------- MODULE StandUpProofs ----------------------------
(***************************************************************************)
(* Standing the platform up, with any services of the profile, any number  *)
(* of runs, agents, mishaps and container numbers.                         *)
(***************************************************************************)
EXTENDS StandUp, FiniteSetTheorems, TLAPS

-----------------------------------------------------------------------------
(* The gate of liderapi *)

\* The count of the gate is the number of attempts that did not fail.
GateInv ==
    /\ DOMAIN at = Number /\ DOMAIN successes = Number /\ DOMAIN clean = Number
    /\ \A n \in Number : /\ successes[n] = clean[n]
                         /\ at[n] = "agent" => clean[n] >= StableSuccessCount

LEMMA GateKept == GateInv /\ [Next]_vars => GateInv'
<1> SUFFICES ASSUME GateInv, [Next]_vars PROVE GateInv'
  OBVIOUS
<1>1. CASE UNCHANGED <<at, successes, clean>>
  BY <1>1 DEF GateInv
<1>2. ASSUME NEW n \in Number, AgentExits(n) PROVE GateInv'
  BY <1>2 DEF AgentExits, GateInv
<1>3. ASSUME NEW n \in Number, AgentStep(n) PROVE GateInv'
  <2>1. CASE AgentStarts(n) \/ Configure(n) \/ Resolve(n) \/ Authenticate(n)
    BY <1>3, <2>1 DEF AgentStarts, Configure, Resolve, Authenticate, GateInv
  <2>2. CASE NoDocker(n)
    BY <1>2, <2>2 DEF NoDocker
  <2>3. CASE ProbeSucceeds(n)
    BY <2>3 DEF ProbeSucceeds, GateInv
  <2>4. CASE AttemptFails(n)
    BY <2>4 DEF AttemptFails, GateInv
  <2>5. CASE NextAttempt(n)
    BY <1>2, <2>5 DEF NextAttempt, GateInv
  <2> QED
    BY <1>3, <2>1, <2>2, <2>3, <2>4, <2>5 DEF AgentStep
<1>4. ASSUME NEW n \in Number, AgentRemoved(n) PROVE GateInv'
  BY <1>4 DEF AgentRemoved, GateInv
<1>5. ASSUME NEW added, UpAgents(added) PROVE GateInv'
  BY <1>5 DEF UpAgents, GateInv
<1>6. CASE BootstrapStep
  <2>1. UNCHANGED agentVars \/ \E added : UpAgents(added)
    BY <1>6 DEF BootstrapStep, StartRun, Preflight, Build, ComposeRm, ComposeUp,
       ComposeUpReturns, RunBreaks, Poll, Sleep
  <2> QED
    BY <1>1, <1>5, <2>1 DEF agentVars
<1>7. CASE UNCHANGED vars \/ \E s \in Services : ServiceActs(s)
  BY <1>1, <1>7 DEF vars, agentVars, ServiceActs
<1> QED
  BY <1>2, <1>3, <1>4, <1>6, <1>7 DEF Next, AgentActs, AgentEnds

\* liderapi_gate.py, entrypoint.sh: an agent runs only after the configured
\* number of attempts in a row, none failed, since its container started.
THEOREM AgentsBehindTheGate == Spec => []AgentRunsBehindTheGate
<1>1. Init => GateInv
  BY StableSuccessAssumption DEF Init, GateInv
<1>2. GateInv => AgentRunsBehindTheGate
  BY DEF GateInv, AgentRunsBehindTheGate
<1> QED
  BY <1>1, <1>2, GateKept, PTL DEF Spec

-----------------------------------------------------------------------------
(* What a run has made of the services *)

LEMMA PhaseFacts ==
    /\ Phases = 1..5 /\ AgentPhase = 5 /\ In(5) = {}
    /\ \A p, q \in Phases : p # q => PhaseServices[p] \cap PhaseServices[q] = {}
    /\ \A s \in OneShot : \E p \in 1..4 : s \in PhaseServices[p]
    /\ \A s \in Required : \E p \in 1..4 : s \in PhaseServices[p]
<1>1. /\ Len(PhaseServices) = 5
      /\ PhaseServices[1] = {"mariadb", "ldap", "ldap-init", "ejabberd", "db-migrate"}
      /\ PhaseServices[2] = {"lider-core"} /\ PhaseServices[3] = {"liderapi", "lider-ui"}
      /\ PhaseServices[4] = {"provisioner", "registration-orchestrator"}
      /\ PhaseServices[5] = {}
  BY DEF PhaseServices
<1>2. Phases = 1..5 /\ AgentPhase = 5 /\ In(5) = {}
  BY <1>1 DEF Phases, AgentPhase, In
<1>3. \A p, q \in {1, 2, 3, 4, 5} : p # q => PhaseServices[p] \cap PhaseServices[q] = {}
  BY <1>1
<1>4. \A s \in OneShot \cup Required : \E p \in {1, 2, 3, 4} : s \in PhaseServices[p]
  BY <1>1 DEF OneShot, Required
<1>5. 1..5 = {1, 2, 3, 4, 5} /\ 1..4 = {1, 2, 3, 4}
  OBVIOUS
<1> QED
  BY <1>2, <1>3, <1>4, <1>5

\* What `phase satisfied' leaves true of a service until it fails; the end
\* of a one-shot is for good.
Ready(s) ==
    IF s \in OneShot THEN service[s] = "completed"
    ELSE IF s \in Healthchecked THEN service[s] = "healthy"
    ELSE service[s] \in {"running", "healthy"}

OneShotsOf(p) == In(p) \cap OneShot
RunInv ==
    /\ DOMAIN service = Services /\ DOMAIN by = Services
    /\ phase \in Phases
    /\ outcome = "ok" => pc = "idle"
    /\ pc # "idle" \/ outcome = "ok" => \A p \in Phases : SeenReady(p) =>
           \A s \in OneShotsOf(p) : service[s] = "completed" /\ by[s] = run
    /\ pc = "up" => \A s \in OneShotsOf(phase) : service[s] = "absent"
    /\ pc \in {"starting", "poll", "sleep"} => \A s \in OneShotsOf(phase) : by[s] = run

LEMMA RunKept == RunInv /\ [Next]_vars => RunInv'
<1> SUFFICES ASSUME RunInv, [Next]_vars PROVE RunInv'
  OBVIOUS
<1>1. CASE UNCHANGED <<service, by, bootstrapVars>>
  BY <1>1 DEF RunInv, bootstrapVars, SeenReady
<1>2. ASSUME NEW p, Loses(p), UNCHANGED <<service, by>> PROVE RunInv'
  BY <1>2 DEF RunInv, Loses, SeenReady
<1>3. ASSUME NEW s \in Services, ServiceActs(s) PROVE RunInv'
  <2>1. UNCHANGED <<pc, run, phase, expected, outcome, by>>
    BY <1>3 DEF ServiceActs, Loses, bootstrapVars
  <2>2. /\ DOMAIN service' = Services
        /\ \A t \in Services \cap OneShot : service[t] \in {"absent", "completed"} => service'[t] = service[t]
    BY <1>3 DEF ServiceActs, Starts, TurnsHealthy, Finishes, Fails, RunInv
  <2> QED
    BY <2>1, <2>2 DEF RunInv, SeenReady, OneShotsOf, In
<1>4. CASE BootstrapStep
  <2>1. CASE StartRun
    BY <2>1, PhaseFacts DEF StartRun, Go, RunInv, SeenReady, containerVars
  <2>2. ASSUME Fail, UNCHANGED <<service, by>> PROVE RunInv'
    BY <2>2 DEF Fail, RunInv
  <2>3. ASSUME NEW q, Go(q), q \notin {"idle", "up", "starting"}, pc # "idle",
               pc \in {"starting", "poll", "sleep"} \/ q \notin {"poll", "sleep"},
               UNCHANGED <<run, phase, expected, outcome, lost, service, by>>
        PROVE  RunInv'
    BY <2>3 DEF Go, RunInv, SeenReady
  <2>4. CASE Preflight
    BY <2>2, <2>3, <2>4 DEF Preflight, RunVars, containerVars
  <2>5. CASE Build
    BY <2>3, <2>5 DEF Build, RunVars, containerVars
  <2>6. CASE ComposeRm
    <3>1. /\ DOMAIN service' = Services
          /\ \A s \in Services : service'[s] = IF s \in OneShotsOf(phase) THEN "absent" ELSE service[s]
          /\ pc = "rm" /\ pc' = "up" /\ UNCHANGED <<run, phase, outcome, by>>
      BY <2>6 DEF ComposeRm, Go, RunVars, Recreate, OneShotsOf
    <3>2. \A p \in Phases : p < phase => OneShotsOf(p) \cap OneShotsOf(phase) = {}
      BY PhaseFacts DEF OneShotsOf, In, RunInv
    <3> QED
      BY <3>1, <3>2 DEF RunInv, SeenReady, OneShotsOf, In
  <2>7. CASE ComposeUp
    <3>1. pc = "up" /\ pc' = "starting" /\ UNCHANGED <<run, phase, outcome>>
      BY <2>7 DEF ComposeUp, Go, RunVars
    <3>2. CASE phase = AgentPhase
      <4>1. UNCHANGED <<service, by>>
        BY <2>7, <3>2 DEF ComposeUp
      <4>2. OneShotsOf(phase) = {}
        BY <3>2, PhaseFacts DEF OneShotsOf
      <4> QED
        BY <3>1, <4>1, <4>2 DEF RunInv, SeenReady
    <3>3. CASE phase # AgentPhase
      <4>1. PICK changed \in {{}, In(phase)} :
              LET new == changed \cup {s \in In(phase) : service[s] = "absent"} IN
              /\ service' = [s \in Services |->
                   IF s \in new \/ (s \in In(phase) /\ service[s] \in {"completed", "failed"})
                   THEN "created" ELSE service[s]]
              /\ by' = [s \in Services |-> IF s \in new THEN run ELSE by[s]]
        BY <2>7, <3>3 DEF ComposeUp, UpServices
      <4>2. \A s \in OneShotsOf(phase) : s \in Services /\ service[s] = "absent" /\ s \in In(phase)
        BY <3>1 DEF RunInv, OneShotsOf, In
      <4>3. \A s \in OneShotsOf(phase) : by'[s] = run
        BY <4>1, <4>2
      <4>4. \A p \in Phases : p < phase => In(p) \cap In(phase) = {} /\ In(p) \subseteq Services
        BY PhaseFacts DEF In, RunInv
      <4>5. \A p \in Phases : p < phase => \A s \in In(p) : service'[s] = service[s] /\ by'[s] = by[s]
        BY <4>1, <4>4
      <4> QED
        BY <3>1, <4>1, <4>3, <4>5 DEF RunInv, SeenReady, OneShotsOf
    <3> QED
      BY <3>2, <3>3
  <2>8. CASE ComposeUpReturns
    BY <2>3, <2>8 DEF ComposeUpReturns, RunVars, containerVars
  <2>9. CASE RunBreaks
    BY <2>2, <2>9 DEF RunBreaks
  <2>10. CASE Poll
    <3>1. CASE ~PhaseSatisfied(phase)
      BY <2>3, <2>10, <3>1 DEF Poll, RunVars, containerVars
    <3>2. CASE PhaseSatisfied(phase)
      <4>1. \A s \in OneShotsOf(phase) : service[s] = "completed" /\ by[s] = run
        <5> SUFFICES ASSUME NEW s \in OneShotsOf(phase)
                     PROVE  service[s] = "completed" /\ by[s] = run
          OBVIOUS
        <5>1. s \in In(phase) /\ Expectation(s) = "completed"
          BY DEF OneShotsOf, Expectation
        <5>2. NormalizeState(service[s]) = "completed"
          BY <3>2, <5>1 DEF PhaseSatisfied
        <5> QED
          <6>1. service[s] = "completed"
            BY <5>2 DEF NormalizeState
          <6>2. pc = "poll"
            BY <2>10 DEF Poll
          <6> QED
            BY <6>1, <6>2 DEF RunInv
      <4>2. pc = "poll" /\ UNCHANGED <<service, by, run>>
        BY <2>10, <3>2 DEF Poll, containerVars, RunVars
      <4>3. outcome # "ok"
        BY <4>2 DEF RunInv
      <4>4. \A p \in Phases : p <= phase => \A s \in OneShotsOf(p) : service[s] = "completed" /\ by[s] = run
        BY <4>1, <4>2, PhaseFacts DEF RunInv, SeenReady
      <4>5. CASE phase = AgentPhase
        BY <2>10, <3>2, <4>2, <4>4, <4>5, PhaseFacts DEF Poll, Go, RunInv, SeenReady
      <4>6. CASE phase # AgentPhase
        <5>1. pc' = "build" /\ phase' = phase + 1 /\ outcome' = outcome
          BY <2>10, <3>2, <4>6 DEF Poll, Go
        <5> QED
          BY <4>2, <4>3, <4>4, <4>6, <5>1, PhaseFacts DEF RunInv, SeenReady
      <4> QED
        BY <4>5, <4>6
    <3> QED
      BY <3>1, <3>2
  <2>11. CASE Sleep
    BY <2>2, <2>3, <2>11 DEF Sleep, RunVars, containerVars
  <2> QED
    BY <1>4, <2>1, <2>4, <2>5, <2>6, <2>7, <2>8, <2>9, <2>10, <2>11 DEF BootstrapStep
<1>5. ASSUME NEW n \in Number, AgentActs(n) \/ AgentEnds(n) \/ AgentRemoved(n) PROVE RunInv'
  BY <1>1, <1>2, <1>5 DEF AgentActs, AgentEnds, AgentRemoved
<1> QED
  BY <1>1, <1>3, <1>4, <1>5 DEF Next, vars, containerVars

LEMMA RunStarts == Init => RunInv
BY PhaseFacts DEF Init, RunInv, SeenReady

\* runtime-readiness.yaml, bootstrap_runtime.py: every one-shot of a
\* bootstrap that succeeded completed in a container of its own.
THEOREM OwnSuccess == Spec => []SuccessIsThisRuns
<1>1. RunInv => SuccessIsThisRuns
  BY PhaseFacts DEF RunInv, SuccessIsThisRuns, SeenReady, OneShotsOf, In
<1> QED
  BY <1>1, RunStarts, RunKept, PTL DEF Spec

-----------------------------------------------------------------------------
(* The numbers of the agent containers *)

LEMMA NumbersFinite == \A S \in SUBSET Number : IsFiniteSet(S) /\ Cardinality(S) \in Nat
<1>1. IsFiniteSet(Number)
  BY NumberAssumption, FS_Interval DEF Number
<1> QED
  BY <1>1, FS_Subset, FS_CardinalityType

LEMMA HighestExists ==
    Existing # {} => Highest \in Existing /\ \A m \in Existing : m <= Highest
<1> SUFFICES ASSUME Existing # {}
             PROVE  \E n \in Existing : \A m \in Existing : m <= n
  BY DEF Highest
<1> DEFINE T == {MaxNumber - m : m \in Existing}
<1>1. \A m \in Existing : m \in Int /\ 1 <= m /\ m <= MaxNumber
  BY NumberAssumption DEF Existing, Number
<1>2. T \subseteq Nat /\ T # {}
  BY <1>1, NumberAssumption
<1>3. PICK x \in T : \A y \in T : ~(<<y, x>> \in OpToRel(<, Nat))
  BY <1>2, NatLessThanWellFounded, WFMin
<1>4. \A y \in T : ~(y < x)
  BY <1>2, <1>3 DEF OpToRel
<1>5. PICK n \in Existing : x = MaxNumber - n
  OBVIOUS
<1>6. ASSUME NEW m \in Existing PROVE m <= n
  <2>1. ~(MaxNumber - m < MaxNumber - n)
    BY <1>4, <1>5
  <2> QED
    BY <1>1, <2>1, NumberAssumption
<1> QED
  BY <1>6

\* What `up' adds is above everything there is.
LEMMA AddedAbove ==
    /\ \A n \in Adding : n \in Int /\ \A m \in Existing : m < n
    /\ \A added \in SUBSET Adding : added \cap Existing = {}
<1>1. Highest \in Int /\ \A m \in Existing : m \in Int /\ m <= Highest
  <2>1. \A m \in Existing : m \in Int
    BY NumberAssumption DEF Existing, Number
  <2>2. CASE Existing = {}
    BY <2>2 DEF Highest
  <2>3. CASE Existing # {}
    BY <2>1, <2>3, HighestExists
  <2> QED
    BY <2>2, <2>3
<1>2. Cardinality(Existing) \in Nat
  BY NumbersFinite DEF Existing
<1>3. ASSUME NEW n \in Adding PROVE n \in Int /\ Highest + 1 <= n
  BY <1>3 DEF Adding
<1> QED
  BY <1>1, <1>3

-----------------------------------------------------------------------------
(* The report of a bootstrap that succeeded *)

Settled ==
    /\ \A p \in Phases : SeenReady(p) => \A s \in In(p) : Ready(s)
    /\ outcome = "ok" => /\ Cardinality(Existing) = expected
                         /\ \A n \in Existing : ahenk[n] = "running"
AhenkInv ==
    /\ ahenk \in [Number -> {"absent", "created", "running", "exited"}]
    /\ \A n \in Number : at[n] # "none" => ahenk[n] = "running"

ReportInv ==
    /\ expected \in Int /\ expected > 0
    /\ AhenkInv
    /\ pc # "idle" \/ outcome = "ok" => (~lost => Settled)

\* The agents: the containers that are there, and those that run.
LEMMA AgentStepStates ==
    ASSUME NEW n \in Number, GateInv, ReportInv, AgentStep(n)
    PROVE  /\ AhenkInv'
           /\ Existing' = Existing
           /\ ahenk' = ahenk \/ ahenk[n] = "created" \/ ahenk'[n] = "exited"
<1>1. CASE AgentStarts(n)
  BY <1>1 DEF AgentStarts, GateInv, ReportInv, AhenkInv, Existing
<1>2. ASSUME AgentExits(n), at[n] # "none"
      PROVE  /\ AhenkInv'
             /\ Existing' = Existing /\ ahenk'[n] = "exited"
  BY <1>2 DEF AgentExits, GateInv, ReportInv, AhenkInv, Existing
<1>3. ASSUME UNCHANGED ahenk, at[n] # "none",
             \A m \in Number : m # n => at'[m] = at[m]
      PROVE  /\ AhenkInv'
             /\ Existing' = Existing
  BY <1>3 DEF ReportInv, AhenkInv, Existing
<1>4. CASE Configure(n) \/ Resolve(n) \/ Authenticate(n) \/ ProbeSucceeds(n) \/ AttemptFails(n)
  <2>1. UNCHANGED ahenk /\ at[n] # "none" /\ \A m \in Number : m # n => at'[m] = at[m]
    BY <1>4 DEF Configure, Resolve, Authenticate, ProbeSucceeds, AttemptFails, GateInv
  <2> QED
    BY <1>3, <2>1
<1>5. CASE NoDocker(n)
  BY <1>2, <1>5 DEF NoDocker
<1>6. CASE NextAttempt(n)
  BY <1>2, <1>3, <1>6 DEF NextAttempt, GateInv
<1> QED
  BY <1>1, <1>4, <1>5, <1>6 DEF AgentStep

LEMMA ReportKept ==
    ASSUME GateInv, RunInv, ReportInv, [Next]_vars
    PROVE  ReportInv'
<1>1. CASE UNCHANGED vars
  BY <1>1 DEF vars, containerVars, agentVars, bootstrapVars, ReportInv, AhenkInv, Settled, SeenReady, Ready, Existing
<1>2. ASSUME NEW s \in Services, ServiceActs(s) PROVE ReportInv'
  <2>1. UNCHANGED <<pc, run, phase, expected, outcome, ahenk, at>>
    BY <1>2 DEF ServiceActs, Loses, bootstrapVars, agentVars
  <2>2. CASE Starts(s) \/ TurnsHealthy(s) \/ Finishes(s)
    <3>1. \A t \in Services : Ready(t) => Ready(t)'
      BY <2>2 DEF Starts, TurnsHealthy, Finishes, Ready, RunInv, OneShot, Healthchecked
    <3>2. lost => lost'
      BY <1>2 DEF ServiceActs, bootstrapVars, Loses
    <3> QED
      BY <2>1, <3>1, <3>2 DEF ReportInv, AhenkInv, Settled, SeenReady, In, Existing
  <2>3. CASE Fails(s) /\ Loses(PhaseOf(s))
    <3>1. \A t \in Services : t # s => service'[t] = service[t]
      BY <2>3 DEF Fails, RunInv
    <3>2. lost' = (lost \/ SeenReady(PhaseOf(s)))
      BY <2>3 DEF Loses
    <3>3. \A p \in Phases : s \in In(p) => PhaseOf(s) = p
      BY PhaseFacts DEF In, PhaseOf
    <3>4. ~lost' => \A p \in Phases : SeenReady(p) => s \notin In(p)
      BY <3>2, <3>3
    <3> QED
      BY <2>1, <3>1, <3>2, <3>4 DEF ReportInv, AhenkInv, Settled, SeenReady, In, Existing, Ready
  <2> QED
    BY <1>2, <2>2, <2>3 DEF ServiceActs
<1>3. ASSUME NEW n \in Number, AgentActs(n) PROVE ReportInv'
  <2>1. UNCHANGED <<service, pc, run, phase, expected, outcome>> /\ (lost => lost')
    BY <1>3 DEF AgentActs, Loses, bootstrapVars
  <2>2. /\ AhenkInv'
        /\ Existing' = Existing
        /\ ahenk' = ahenk \/ ahenk[n] = "created" \/ ahenk'[n] = "exited"
    BY <1>3, AgentStepStates DEF AgentActs
  <2>3. ahenk'[n] = "exited" /\ ~lost' => outcome # "ok"
    BY <1>3 DEF AgentActs, Loses, SeenReady
  <2>4. ~lost /\ outcome = "ok" => ahenk[n] # "created"
    BY DEF ReportInv, AhenkInv, Settled, Existing
  <2> QED
    BY <2>1, <2>2, <2>3, <2>4 DEF ReportInv, Settled, SeenReady, Ready
<1>4. ASSUME NEW n \in Number, AgentEnds(n) \/ AgentRemoved(n) PROVE ReportInv'
  <2>1. UNCHANGED <<service, pc, run, phase, expected, outcome>> /\ lost' = (lost \/ SeenReady(AgentPhase))
    BY <1>4 DEF AgentEnds, AgentRemoved, Loses
  <2>2. ~lost' => outcome # "ok"
    BY <2>1 DEF SeenReady
  <2>3. AhenkInv'
    BY <1>4 DEF AgentEnds, AgentRemoved, AgentExits, ReportInv, AhenkInv, GateInv
  <2> QED
    BY <2>1, <2>2, <2>3 DEF ReportInv, Settled, SeenReady, Ready
<1>5. CASE BootstrapStep
  <2>1. ASSUME NEW added, added \cap Existing = {}, UpAgents(added)
        PROVE  AhenkInv'
    BY <2>1 DEF UpAgents, ReportInv, AhenkInv, Staying, Existing
  <2>2. AhenkInv'
    <3>1. \/ UNCHANGED ahenk /\ UNCHANGED agentVars
          \/ \E added : added \subseteq Adding /\ UpAgents(added)
      BY <1>5 DEF BootstrapStep, StartRun, Preflight, Build, ComposeRm, ComposeUp,
         ComposeUpReturns, RunBreaks, Poll, Sleep, containerVars
    <3> QED
      BY <2>1, <3>1, AddedAbove DEF ReportInv, AhenkInv, agentVars
  <2>3. CASE StartRun
    BY <2>2, <2>3, PhaseFacts DEF StartRun, ReportInv, Settled, SeenReady
  <2>4. ASSUME Fail PROVE ReportInv'
    BY <2>2, <2>4 DEF Fail, ReportInv
  <2>5. ASSUME UNCHANGED <<service, ahenk>>, UNCHANGED RunVars, pc # "idle"
        PROVE  ReportInv'
    BY <2>2, <2>5 DEF RunVars, ReportInv, RunInv, Settled, SeenReady, Ready, Existing
  <2>6. CASE Preflight \/ Build \/ ComposeUpReturns \/ Sleep
    BY <2>4, <2>5, <2>6 DEF Preflight, Build, ComposeUpReturns, Sleep, containerVars
  <2>7. \A p \in Phases : SeenReady(p) /\ pc # "idle" => In(p) \cap In(phase) = {}
    BY PhaseFacts DEF SeenReady, RunInv, In
  \* What compose does to the services of one phase.
  <2>8. ASSUME UNCHANGED RunVars, pc # "idle",
               \A s \in Services : s \in In(phase) \/ service'[s] = service[s]
        PROVE  ReportInv'
    <3>1. outcome # "ok"
      BY <2>8 DEF RunInv
    <3>2. \A p \in Phases : SeenReady(p) => \A s \in In(p) : service'[s] = service[s]
      BY <2>7, <2>8 DEF In
    <3> QED
      BY <2>2, <2>8, <3>1, <3>2 DEF RunVars, ReportInv, Settled, SeenReady, Ready
  <2>9. CASE ComposeRm
    BY <2>8, <2>9 DEF ComposeRm, Recreate
  <2>10. CASE ComposeUp
    <3>1. CASE phase = AgentPhase
      BY <2>8, <2>10, <3>1 DEF ComposeUp
    <3>2. CASE phase # AgentPhase
      <4>1. \A s \in Services : s \in In(phase) \/ service'[s] = service[s]
        BY <2>10, <3>2 DEF ComposeUp, UpServices
      <4> QED
        BY <2>8, <2>10, <4>1 DEF ComposeUp
    <3> QED
      BY <3>1, <3>2
  <2>11. CASE RunBreaks
    BY <2>4, <2>11 DEF RunBreaks
  <2>12. CASE Poll
    <3>1. pc = "poll" /\ UNCHANGED <<service, ahenk>> /\ outcome # "ok"
      BY <2>12 DEF Poll, containerVars, RunInv
    <3>2. CASE ~PhaseSatisfied(phase)
      BY <2>5, <2>12, <3>1, <3>2 DEF Poll
    <3>3. CASE PhaseSatisfied(phase)
      <4>1. ASSUME NEW s \in In(phase) PROVE Ready(s)
        <5>1. IF Expectation(s) = "healthy" THEN service[s] = "healthy"
              ELSE NormalizeState(service[s]) = Expectation(s)
          BY <3>3, <4>1 DEF PhaseSatisfied
        <5>2. CASE s \in OneShot
          <6>1. NormalizeState(service[s]) = "completed"
            BY <5>1, <5>2 DEF Expectation
          <6> QED
            BY <5>2, <6>1 DEF NormalizeState, Ready
        <5>3. CASE s \notin OneShot /\ s \in Healthchecked
          BY <5>1, <5>3 DEF Expectation, Ready
        <5>4. CASE s \notin OneShot /\ s \notin Healthchecked
          <6>1. NormalizeState(service[s]) = "running"
            BY <5>1, <5>4 DEF Expectation
          <6> QED
            BY <5>4, <6>1 DEF NormalizeState, Ready
        <5> QED
          BY <5>2, <5>3, <5>4
      <4>2. ~lost => \A p \in Phases : p <= phase => \A s \in In(p) : Ready(s)
        BY <3>1, <4>1, PhaseFacts DEF ReportInv, RunInv, Settled, SeenReady
      <4>3. UNCHANGED <<lost, expected>> /\ \A s : Ready(s)' = Ready(s)
        BY <2>12, <3>1, <3>3 DEF Poll, Ready, RunVars
      <4>4. CASE phase = AgentPhase
        <5>1. AgentsSatisfied
          BY <3>3, <4>4 DEF PhaseSatisfied
        <5>2. Cardinality(Existing) = expected /\ \A n \in Existing : NormalizeState(ahenk[n]) = "running"
          BY <5>1 DEF AgentsSatisfied
        <5>3. \A n \in Existing : ahenk[n] \in {"running", "healthy"}
          BY <5>2 DEF NormalizeState
        <5>4. \A n \in Existing : ahenk[n] # "healthy"
          BY DEF ReportInv, AhenkInv, Existing
        <5> QED
          BY <2>2, <2>12, <3>1, <3>3, <4>2, <4>3, <4>4, <5>2, <5>3, <5>4, PhaseFacts
             DEF Poll, ReportInv, Settled, SeenReady, Existing
      <4>5. CASE phase # AgentPhase
        <5>1. phase' = phase + 1 /\ outcome' = outcome
          BY <2>12, <3>3, <4>5 DEF Poll
        <5> QED
          BY <2>2, <3>1, <4>2, <4>3, <5>1, PhaseFacts DEF ReportInv, RunInv, Settled, SeenReady
      <4> QED
        BY <4>4, <4>5
    <3> QED
      BY <3>2, <3>3
  <2> QED
    BY <1>5, <2>3, <2>6, <2>9, <2>10, <2>11, <2>12 DEF BootstrapStep
<1> QED
  BY <1>1, <1>2, <1>3, <1>4, <1>5 DEF Next

\* What gates, runs and containers keep, for the theorems below.
THEOREM ReportAlways == Spec => [](GateInv /\ RunInv /\ ReportInv)
<1>1. Init => GateInv /\ RunInv /\ ReportInv
  BY RunStarts, StableSuccessAssumption DEF Init, GateInv, ReportInv, AhenkInv
<1> QED
  BY <1>1, GateKept, RunKept, ReportKept, PTL DEF Spec

\* bootstrap_runtime.py, readiness/containers.py: the readiness report
\* agrees with a bootstrap that succeeded, until a container fails.
THEOREM ReportAgrees == Spec => []ReportAgreesWithBootstrap
<1>1. RunInv /\ ReportInv => ReportAgreesWithBootstrap
  <2> SUFFICES ASSUME RunInv, ReportInv, outcome = "ok", ~lost
               PROVE  ServiceStateReport(expected)
    BY DEF ReportAgreesWithBootstrap
  <2>1. Settled
    BY DEF ReportInv
  <2>2. ASSUME NEW s \in Required
        PROVE  service[s] # "absent" /\ ReportedState(service[s]) \in Accepted(s)
    <3>1. PICK p \in Phases : s \in In(p)
      BY PhaseFacts DEF Required, In
    <3>2. Ready(s)
      BY <2>1, <3>1 DEF Settled, SeenReady
    <3>3. CASE s \in OneShot
      <4>1. s = "provisioner" /\ service[s] = "completed"
        BY <3>2, <3>3 DEF Ready, OneShot, Required
      <4> QED
        BY <4>1 DEF ReportedState, Accepted
    <3>4. CASE s \notin OneShot
      <4>1. service[s] \in {"running", "healthy"}
        BY <3>2, <3>4 DEF Ready
      <4>2. ReportedState(service[s]) = "running" /\ service[s] # "absent"
        BY <4>1 DEF ReportedState
      <4> QED
        BY <4>2 DEF Accepted
    <3> QED
      BY <3>3, <3>4
  <2> QED
    BY <2>1, <2>2 DEF Settled, ReportInv, ServiceStateReport
<1> QED
  BY <1>1, ReportAlways, PTL

-----------------------------------------------------------------------------
(* Identities *)

\* Ranks number the containers there are.
LEMMA Ranks ==
    /\ \A n \in Existing : Rank(n) \in Nat /\ Rank(n) >= 1 /\ Rank(n) <= MaxNumber
    /\ \A m, n \in Existing : m < n => Rank(m) < Rank(n)
<1> DEFINE UpTo(n) == {m \in Existing : m <= n}
<1>1. \A n : UpTo(n) \in SUBSET Number
  BY DEF Existing
<1>2. \A n : IsFiniteSet(UpTo(n)) /\ Cardinality(UpTo(n)) \in Nat /\ Rank(n) = Cardinality(UpTo(n))
  BY <1>1, NumbersFinite DEF Rank
<1>3. \A n \in Existing : n \in Int
  BY NumberAssumption DEF Existing, Number
<1>4. ASSUME NEW n \in Existing PROVE Rank(n) >= 1
  <2>1. n \in UpTo(n)
    BY <1>3
  <2>2. Cardinality(UpTo(n)) # 0
    BY <1>2, <2>1, FS_EmptySet
  <2> QED
    BY <1>2, <2>2
<1>5. ASSUME NEW n \in Existing PROVE Rank(n) <= MaxNumber
  <2>1. IsFiniteSet(Number) /\ Cardinality(Number) = MaxNumber
    BY NumberAssumption, FS_Interval DEF Number
  <2> QED
    BY <1>1, <1>2, <2>1, FS_Subset
<1>6. ASSUME NEW m \in Existing, NEW n \in Existing, m < n PROVE Rank(m) < Rank(n)
  <2>1. UpTo(m) \in SUBSET UpTo(n)
    BY <1>3, <1>6
  <2>2. n \in UpTo(n) /\ n \notin UpTo(m)
    BY <1>3, <1>6
  <2>3. Cardinality(UpTo(m)) <= Cardinality(UpTo(n)) /\ Cardinality(UpTo(m)) # Cardinality(UpTo(n))
    BY <1>2, <2>1, <2>2, FS_Subset
  <2> QED
    BY <1>2, <2>3
<1> QED
  BY <1>2, <1>4, <1>5, <1>6

\* An agent that knows its identity took the rank it still has.
IndexInv ==
    /\ DOMAIN index = Number
    /\ ~removed /\ ~fellBack => \A n \in Existing : index[n] \in {0, Rank(n)}

\* What `up' leaves of the containers keeps its ranks.
LEMMA UpKeepsRanks ==
    ASSUME NEW added \in SUBSET Adding, UpAgents(added), expected \in Int, AhenkInv
    PROVE  \A n \in Staying : n \in Existing' => Rank(n)' = Rank(n)
<1> SUFFICES ASSUME NEW n \in Staying
             PROVE  {m \in Existing : m <= n}' = {m \in Existing : m <= n}
  BY DEF Rank
<1>1. n \in Existing /\ Rank(n) <= expected /\ n \in Int
  BY NumberAssumption DEF Staying, Existing, Number
<1>2. ASSUME NEW m \in Existing, m <= n PROVE m \in Staying
  <2>1. m \in Int
    BY NumberAssumption DEF Existing, Number
  <2>2. Rank(m) <= Rank(n)
    BY <1>1, <1>2, <2>1, Ranks
  <2> QED
    BY <1>1, <1>2, <2>2, Ranks DEF Staying
<1>3. ASSUME NEW m \in Staying PROVE m \in Existing'
  BY <1>3 DEF UpAgents, Staying, Existing
<1>4. ASSUME NEW m \in Existing' PROVE m \in Staying \/ m \in added
  BY <1>4 DEF UpAgents, Staying, Existing
<1>5. \A m \in added : ~(m <= n)
  BY <1>1, AddedAbove
<1> QED
  BY <1>2, <1>3, <1>4, <1>5 DEF Staying

LEMMA IndexKept ==
    ASSUME Project = DefaultProject, GateInv, ReportInv, IndexInv, [Next]_vars
    PROVE  IndexInv'
<1>1. CASE UNCHANGED <<ahenk, index, fellBack, removed>>
  BY <1>1 DEF IndexInv, Existing, Rank
<1>2. ASSUME NEW n \in Number, AgentStep(n), UNCHANGED removed PROVE IndexInv'
  <2>1. Existing' = Existing
    BY <1>2, AgentStepStates
  <2>2. \A m : Rank(m)' = Rank(m)
    BY <2>1 DEF Rank
  <2>3. /\ DOMAIN index' = Number
        /\ ~fellBack' => ~fellBack /\ \A m \in Number : index'[m] \in {index[m], 0, Rank(m)}
    <3>1. CASE Configure(n)
      <4>1. n \in Listed
        BY <1>2, <3>1 DEF Configure, Listed, Existing, ReportInv, AhenkInv
      <4> QED
        BY <3>1, <4>1 DEF Configure, IndexInv
    <3> QED
      BY <1>2, <3>1 DEF AgentStep, AgentStarts, NoDocker, AgentExits, Resolve, Authenticate,
         ProbeSucceeds, AttemptFails, NextAttempt, IndexInv
  <2> QED
    BY <1>2, <2>1, <2>2, <2>3 DEF IndexInv, Existing
<1>3. ASSUME NEW n \in Number, AgentEnds(n) PROVE IndexInv'
  <2>1. Existing' = Existing
    BY <1>3 DEF AgentEnds, AgentExits, ReportInv, AhenkInv, Existing
  <2> QED
    BY <1>3, <2>1 DEF AgentEnds, AgentExits, IndexInv, Rank
<1>4. ASSUME NEW n \in Number, AgentRemoved(n) PROVE IndexInv'
  BY <1>4 DEF AgentRemoved, IndexInv
<1>5. ASSUME NEW added \in SUBSET Adding, UpAgents(added), UNCHANGED removed PROVE IndexInv'
  <2>1. PICK changed \in {{}, Staying} :
          index' = [n \in Number |-> IF n \in Staying \ changed THEN index[n] ELSE 0]
    BY <1>5 DEF UpAgents
  <2>2. fellBack' = fellBack
    BY <1>5 DEF UpAgents
  <2>3. \A n \in Staying : n \in Existing' => Rank(n)' = Rank(n)
    BY <1>5, UpKeepsRanks DEF ReportInv
  <2> QED
    BY <1>5, <2>1, <2>2, <2>3 DEF IndexInv, Staying, Existing
<1>6. CASE BootstrapStep /\ UNCHANGED removed
  <2>1. \/ UNCHANGED ahenk /\ UNCHANGED agentVars
        \/ \E added : added \subseteq Adding /\ UpAgents(added)
    BY <1>6 DEF BootstrapStep, StartRun, Preflight, Build, ComposeRm, ComposeUp,
       ComposeUpReturns, RunBreaks, Poll, Sleep, containerVars
  <2> QED
    BY <1>1, <1>5, <1>6, <2>1 DEF agentVars
<1>7. CASE UNCHANGED vars \/ \E s \in Services : ServiceActs(s)
  BY <1>1, <1>7 DEF vars, containerVars, agentVars, ServiceActs
<1> QED
  BY <1>2, <1>3, <1>4, <1>6, <1>7 DEF Next, AgentActs

\* The same, beside the invariants it rests on.
LEMMA IndexAlways ==
    ASSUME Project = DefaultProject
    PROVE  Spec => [](GateInv /\ ReportInv /\ IndexInv)
<1>1. Init => IndexInv
  BY DEF Init, IndexInv, Existing
<1>2. GateInv /\ RunInv /\ ReportInv /\ IndexInv /\ [Next]_vars => IndexInv'
  BY IndexKept
<1> QED
  BY <1>1, <1>2, ReportAlways, PTL DEF Spec

\* entrypoint.sh:11: no two agents of the project liderahenk-test take one
\* identity, unless a container was removed by hand or docker answered with
\* something that is no list.
THEOREM DistinctIdentities ==
    ASSUME Project = DefaultProject
    PROVE  Spec => []IdentitiesAreDistinct
<1>1. IndexInv => IdentitiesAreDistinct
  <2> SUFFICES ASSUME IndexInv, ~removed, ~fellBack, NEW m \in Existing, NEW n \in Existing,
                      index[m] # 0, index[m] = index[n]
               PROVE  m = n
    BY DEF IdentitiesAreDistinct
  <2>1. Rank(m) = Rank(n)
    BY DEF IndexInv
  <2>2. m \in Int /\ n \in Int
    BY NumberAssumption DEF Existing, Number
  <2> QED
    BY <2>1, <2>2, Ranks
<1> QED
  BY <1>1, IndexAlways, PTL

\* An agent past the configuration knows its identity.
KnownInv == \A n \in Number : at[n] \notin {"none", "rank"} => index[n] # 0

LEMMA KnownKept ==
    ASSUME GateInv, ReportInv, DOMAIN index = Number, KnownInv, [Next]_vars
    PROVE  KnownInv'
<1> USE DEF KnownInv
<1>1. CASE UNCHANGED agentVars
  BY <1>1 DEF agentVars
<1>2. ASSUME NEW n \in Number, AgentExits(n) PROVE KnownInv'
  BY <1>2 DEF AgentExits, GateInv
<1>3. ASSUME NEW n \in Number, AgentStep(n) PROVE KnownInv'
  <2>1. CASE Configure(n)
    <3>1. n \in Existing
      BY <2>1 DEF Configure, Existing, ReportInv, AhenkInv
    <3>2. Rank(n) # 0 /\ Fallback # 0
      BY <3>1, Ranks DEF Fallback
    <3> QED
      BY <2>1, <3>2 DEF Configure, GateInv
  <2>2. CASE AgentStarts(n) \/ Resolve(n) \/ Authenticate(n)
    BY <2>2 DEF AgentStarts, Resolve, Authenticate, GateInv
  <2>3. CASE ProbeSucceeds(n) \/ AttemptFails(n)
    BY <2>3 DEF ProbeSucceeds, AttemptFails, GateInv
  <2>4. CASE NoDocker(n) \/ NextAttempt(n)
    BY <1>2, <2>4 DEF NoDocker, NextAttempt, GateInv
  <2> QED
    BY <1>3, <2>1, <2>2, <2>3, <2>4 DEF AgentStep
<1>4. ASSUME NEW n \in Number, AgentRemoved(n) PROVE KnownInv'
  BY <1>4 DEF AgentRemoved, GateInv
<1>5. ASSUME NEW added, UpAgents(added) PROVE KnownInv'
  BY <1>5 DEF UpAgents
<1>6. CASE BootstrapStep
  <2>1. UNCHANGED agentVars \/ \E added : UpAgents(added)
    BY <1>6 DEF BootstrapStep, StartRun, Preflight, Build, ComposeRm, ComposeUp,
       ComposeUpReturns, RunBreaks, Poll, Sleep
  <2> QED
    BY <1>1, <1>5, <2>1
<1>7. CASE UNCHANGED vars \/ \E s \in Services : ServiceActs(s)
  BY <1>1, <1>7 DEF vars, ServiceActs
<1> QED
  BY <1>2, <1>3, <1>4, <1>6, <1>7 DEF Next, AgentActs, AgentEnds

\* The ranks of N containers are the numbers 1 to N.
LEMMA RanksFill == {Rank(n) : n \in Existing} = 1..Cardinality(Existing)
<1> DEFINE N == Cardinality(Existing)
           rank == [n \in Existing |-> Rank(n)]
<1>1. Existing \in SUBSET Number
  BY DEF Existing
<1>2. IsFiniteSet(Existing) /\ N \in Nat
  BY <1>1, NumbersFinite
<1>3. ASSUME NEW n \in Existing PROVE Rank(n) \in 1..N
  <2>1. {m \in Existing : m <= n} \in SUBSET Existing
    OBVIOUS
  <2>2. Rank(n) <= N
    BY <1>2, <2>1, FS_Subset DEF Rank
  <2> QED
    BY <1>2, <2>2, Ranks
<1>4. \A m, n \in Existing : Rank(m) = Rank(n) => m = n
  <2>1. \A n \in Existing : n \in Int
    BY <1>1, NumberAssumption DEF Number
  <2> QED
    BY <2>1, Ranks
<1>5. rank \in Injection(Existing, 1..N)
  BY <1>3, <1>4 DEF Injection, IsInjective
<1>6. IsFiniteSet(1..N) /\ Cardinality(1..N) = N
  BY <1>2, FS_Interval
<1>7. rank \in Surjection(Existing, 1..N)
  BY <1>5, <1>6, FS_Injection
<1> QED
  BY <1>3, <1>7 DEF Surjection

\* README.md:72: the agents of the project liderahenk-test that run after a
\* bootstrap that succeeded are numbered 1 to N, each number there once.
THEOREM PoolIsNumbered ==
    ASSUME Project = DefaultProject
    PROVE  Spec => []AgentPoolIsNumbered
<1>1. Init => KnownInv
  BY DEF Init, KnownInv
<1>2. GateInv /\ ReportInv /\ IndexInv /\ KnownInv /\ [Next]_vars => KnownInv'
  BY KnownKept DEF IndexInv
<1>3. ReportInv /\ IndexInv /\ KnownInv => AgentPoolIsNumbered
  <2> SUFFICES ASSUME ReportInv, IndexInv, KnownInv,
                      outcome = "ok", ~lost, ~removed, ~fellBack,
                      \A n \in Existing : at[n] = "agent"
               PROVE  {index[n] : n \in Existing} = 1..expected
    BY DEF AgentPoolIsNumbered
  <2>1. Cardinality(Existing) = expected
    BY DEF ReportInv, Settled
  <2>2. \A n \in Existing : index[n] = Rank(n)
    BY DEF IndexInv, KnownInv, Existing
  <2>3. {index[n] : n \in Existing} = {Rank(n) : n \in Existing}
    BY <2>2
  <2> QED
    BY <2>1, <2>3, RanksFill
<1> QED
  BY <1>1, <1>2, <1>3, IndexAlways, PTL DEF Spec

-----------------------------------------------------------------------------
(* Types *)

\* A gate that still counts has not counted enough.
TypeInv ==
    /\ TypeOK
    /\ run \in 0..MaxRuns
    /\ \A n \in Number : at[n] # "agent" => successes[n] < StableSuccessCount

LEMMA TypeKept ==
    ASSUME ReportInv, TypeInv, [Next]_vars
    PROVE  TypeInv'
<1> USE DEF TypeInv, TypeOK
<1> DEFINE AgentTypes ==
      /\ ahenk \in [Number -> {"absent", "created", "running", "exited"}]
      /\ at \in [Number -> {"none", "rank", "resolve", "sign_in", "probe", "sleep", "agent"}]
      /\ index \in [Number -> 0..MaxNumber]
      /\ successes \in [Number -> 0..StableSuccessCount]
      /\ \A n \in Number : at[n] # "agent" => successes[n] < StableSuccessCount
           OtherTypes ==
      /\ service \in [Services -> ServiceState] /\ by \in [Services -> 0..MaxRuns]
      /\ phase \in Phases /\ expected \in 1..MaxAgents
      /\ outcome \in {"none", "ok", "failed"}
      /\ run \in 0..MaxRuns
<1>1. CASE UNCHANGED vars
  BY <1>1 DEF vars, containerVars, agentVars, bootstrapVars
<1>2. ASSUME NEW n \in Number, AgentExits(n) PROVE AgentTypes'
  BY <1>2, StableSuccessAssumption DEF AgentExits
<1>3. ASSUME NEW n \in Number, AgentStep(n) PROVE AgentTypes'
  <2>1. CASE AgentStarts(n)
    <3>1. 0 \in 0..MaxNumber
      BY NumberAssumption
    <3>2. at[n] # "agent"
      BY <2>1 DEF AgentStarts, ReportInv, AhenkInv
    <3> QED
      BY <2>1, <3>1, <3>2, StableSuccessAssumption DEF AgentStarts
  <2>2. CASE Configure(n)
    <3>1. index' \in [Number -> 0..MaxNumber]
      <4>1. Rank(n) \in 0..MaxNumber
        <5>1. {m \in Existing : m <= n} \in SUBSET Number
          BY DEF Existing
        <5>2. IsFiniteSet(Number) /\ Cardinality(Number) = MaxNumber
          BY NumberAssumption, FS_Interval DEF Number
        <5> QED
          BY <5>1, <5>2, NumbersFinite, FS_Subset, NumberAssumption DEF Rank
      <4>2. Fallback \in 0..MaxNumber
        BY NumberAssumption DEF Fallback
      <4> QED
        BY <2>2, <4>1, <4>2 DEF Configure
    <3> QED
      BY <2>2, <3>1 DEF Configure
  <2>3. CASE NoDocker(n)
    BY <1>2, <2>3 DEF NoDocker
  <2>4. CASE Resolve(n) \/ Authenticate(n)
    BY <2>4 DEF Resolve, Authenticate
  <2>5. CASE ProbeSucceeds(n)
    <3>1. /\ at[n] = "probe" /\ successes' = [successes EXCEPT ![n] = @ + 1]
          /\ at' = [at EXCEPT ![n] = IF successes'[n] >= StableSuccessCount THEN "agent" ELSE "sleep"]
          /\ UNCHANGED <<ahenk, index>>
      BY <2>5 DEF ProbeSucceeds
    <3>2. successes[n] \in Nat /\ successes[n] + 1 \in 0..StableSuccessCount
      BY <3>1, StableSuccessAssumption
    <3> QED
      BY <3>1, <3>2, StableSuccessAssumption
  <2>6. CASE AttemptFails(n)
    BY <2>6, StableSuccessAssumption DEF AttemptFails
  <2>7. CASE NextAttempt(n)
    BY <1>2, <2>7 DEF NextAttempt
  <2> QED
    BY <1>3, <2>1, <2>2, <2>3, <2>4, <2>5, <2>6, <2>7 DEF AgentStep
<1>4. ASSUME NEW n \in Number, AgentRemoved(n) PROVE AgentTypes'
  BY <1>4, NumberAssumption, StableSuccessAssumption DEF AgentRemoved
<1>5. ASSUME NEW added, UpAgents(added) PROVE AgentTypes'
  BY <1>5, NumberAssumption, StableSuccessAssumption DEF UpAgents
<1>6. ASSUME UNCHANGED <<ahenk, at, index, successes>> PROVE AgentTypes'
  BY <1>6
<1>7. ASSUME UNCHANGED <<service, by, phase, expected, run>>, outcome' \in {outcome, "ok", "failed"}
      PROVE  OtherTypes'
  BY <1>7
<1>8. ASSUME NEW s \in Services, ServiceActs(s) PROVE OtherTypes' /\ AgentTypes'
  <2>1. UNCHANGED <<by, phase, expected, run, outcome, ahenk, at, index, successes>>
    BY <1>8 DEF ServiceActs, Loses, bootstrapVars, agentVars
  <2>2. service' \in [Services -> ServiceState]
    BY <1>8 DEF ServiceActs, Starts, TurnsHealthy, Finishes, Fails, ServiceState
  <2> QED
    BY <2>1, <2>2
<1>9. ASSUME NEW n \in Number, AgentActs(n) \/ AgentEnds(n) \/ AgentRemoved(n)
      PROVE  OtherTypes' /\ AgentTypes'
  <2>1. UNCHANGED <<service, by, phase, expected, run, outcome>>
    BY <1>9 DEF AgentActs, AgentEnds, AgentRemoved, Loses, bootstrapVars
  <2>2. AgentTypes'
    BY <1>2, <1>3, <1>4, <1>9 DEF AgentActs, AgentEnds
  <2> QED
    BY <2>1, <2>2
<1>10. ASSUME BootstrapStep PROVE OtherTypes' /\ AgentTypes'
  <2>1. AgentTypes'
    <3>1. UNCHANGED <<ahenk, at, index, successes>> \/ \E added : UpAgents(added)
      BY <1>10 DEF BootstrapStep, StartRun, Preflight, Build, ComposeRm, ComposeUp,
         ComposeUpReturns, RunBreaks, Poll, Sleep, containerVars, agentVars
    <3> QED
      BY <1>5, <1>6, <3>1
  <2>2. CASE StartRun
    <3>1. run + 1 \in 0..MaxRuns /\ run' = run + 1
      BY <2>2, BootstrapAssumption DEF StartRun
    <3>2. phase' \in Phases /\ expected' \in 1..MaxAgents /\ outcome' = "none"
      BY <2>2, PhaseFacts DEF StartRun
    <3>3. UNCHANGED <<service, by>>
      BY <2>2 DEF StartRun, containerVars
    <3> QED
      BY <2>1, <3>1, <3>2, <3>3
  <2>3. CASE Preflight \/ Build \/ ComposeUpReturns \/ RunBreaks \/ Sleep
    <3>1. UNCHANGED <<service, by, phase, expected, run>>
      BY <2>3 DEF Preflight, Build, ComposeUpReturns, RunBreaks, Sleep, Fail, RunVars, containerVars
    <3>2. outcome' \in {outcome, "failed"}
      BY <2>3 DEF Preflight, Build, ComposeUpReturns, RunBreaks, Sleep, Fail, RunVars
    <3> QED
      BY <2>1, <3>1, <3>2
  <2>4. CASE ComposeRm
    <3>1. UNCHANGED <<by, phase, expected, run, outcome>>
      BY <2>4 DEF ComposeRm, RunVars
    <3>2. service' \in [Services -> ServiceState]
      BY <2>4 DEF ComposeRm, ServiceState
    <3> QED
      BY <2>1, <3>1, <3>2
  <2>5. CASE ComposeUp
    <3>1. UNCHANGED <<phase, expected, run, outcome>>
      BY <2>5 DEF ComposeUp, RunVars
    <3>2. service' \in [Services -> ServiceState] /\ by' \in [Services -> 0..MaxRuns]
      <4>1. CASE phase = AgentPhase
        BY <2>5, <4>1 DEF ComposeUp
      <4>2. CASE phase # AgentPhase
        <5>1. UpServices(phase)
          BY <2>5, <4>2 DEF ComposeUp
        <5> QED
          BY <5>1 DEF UpServices, ServiceState
      <4> QED
        BY <4>1, <4>2
    <3> QED
      BY <2>1, <3>1, <3>2
  <2>6. CASE Poll
    <3>1. phase' \in Phases
      <4>1. phase' = phase \/ (phase # AgentPhase /\ phase' = phase + 1)
        BY <2>6 DEF Poll, RunVars
      <4> QED
        BY <4>1, PhaseFacts
    <3>2. outcome' \in {outcome, "ok"} /\ UNCHANGED <<service, by, expected, run>>
      BY <2>6 DEF Poll, RunVars, containerVars
    <3> QED
      BY <2>1, <3>1, <3>2
  <2> QED
    BY <1>10, <2>1, <2>2, <2>3, <2>4, <2>5, <2>6 DEF BootstrapStep
<1> QED
  BY <1>1, <1>8, <1>9, <1>10 DEF Next

\* The types of all that the containers, agents and runs keep.
THEOREM TypesKept == Spec => []TypeOK
<1>1. Init => TypeInv
  BY PhaseFacts, NumberAssumption, StableSuccessAssumption, BootstrapAssumption
     DEF Init, TypeInv, TypeOK, ServiceState
<1>2. TypeInv => TypeOK
  BY DEF TypeInv
<1> QED
  BY <1>1, <1>2, TypeKept, ReportAlways, PTL DEF Spec
=============================================================================
