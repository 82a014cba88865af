------------------------------- MODULE StandUp -------------------------------
(***************************************************************************)
(* Standing the platform up: the bootstrap runs, the containers it creates *)
(* and the agents in them, which start, rank themselves and wait for       *)
(* liderapi on their own; and the mishaps of containers.                   *)
(***************************************************************************)
EXTENDS Bootstrap

VARIABLE removed    \* ghost: somebody removed an agent container by hand

vars == <<containerVars, agentVars, bootstrapVars, removed>>

Init ==
    /\ service = [s \in Services |-> "absent"] /\ by = [s \in Services |-> 0]
    /\ ahenk = [n \in Number |-> "absent"] /\ mishaps = 0
    /\ at = [n \in Number |-> "none"] /\ index = [n \in Number |-> 0]
    /\ successes = [n \in Number |-> 0] /\ clean = successes /\ fellBack = FALSE
    /\ pc = "idle" /\ run = 0 /\ phase = 1 /\ expected = 1 /\ outcome = "none"
    /\ lost = FALSE /\ removed = FALSE

\* This run has seen the phase ready: it is past it, or has succeeded.
SeenReady(p) == p < phase \/ outcome = "ok"
PhaseOf(s) == CHOOSE p \in Phases : s \in PhaseServices[p]
Loses(p) == lost' = (lost \/ SeenReady(p)) /\ UNCHANGED <<pc, run, phase, expected, outcome>>

ServiceActs(s) ==
    /\ \/ (Starts(s) \/ TurnsHealthy(s) \/ Finishes(s)) /\ UNCHANGED bootstrapVars
       \/ Fails(s) /\ Loses(PhaseOf(s))
    /\ UNCHANGED <<by, ahenk, agentVars, removed>>

\* A container of which the entrypoint ended is a container lost.
AgentActs(n) ==
    /\ AgentStep(n)
    /\ IF ahenk'[n] = "exited" THEN Loses(AgentPhase) ELSE UNCHANGED bootstrapVars
    /\ UNCHANGED <<service, by, mishaps, removed>>

\* An agent that ends.
AgentEnds(n) ==
    /\ at[n] = "agent" /\ Mishap /\ AgentExits(n) /\ Loses(AgentPhase)
    /\ UNCHANGED <<service, by, removed>>

\* docker rm -f
AgentRemoved(n) ==
    /\ ahenk[n] # "absent" /\ Mishap
    /\ ahenk' = [ahenk EXCEPT ![n] = "absent"] /\ at' = [at EXCEPT ![n] = "none"]
    /\ index' = [index EXCEPT ![n] = 0]
    /\ successes' = [successes EXCEPT ![n] = 0] /\ clean' = [clean EXCEPT ![n] = 0]
    /\ Loses(AgentPhase) /\ removed' = TRUE
    /\ UNCHANGED <<service, by, fellBack>>

Next ==
    \/ BootstrapStep /\ UNCHANGED removed
    \/ \E s \in Services : ServiceActs(s)
    \/ \E n \in Number : AgentActs(n) \/ AgentEnds(n) \/ AgentRemoved(n)

Spec == Init /\ [][Next]_vars

-----------------------------------------------------------------------------
\* Every variable keeps its type.
TypeOK ==
    /\ service \in [Services -> ServiceState] /\ by \in [Services -> 0..MaxRuns]
    /\ ahenk \in [Number -> {"absent", "created", "running", "exited"}]
    /\ at \in [Number -> {"none", "rank", "resolve", "sign_in", "probe", "sleep", "agent"}]
    /\ index \in [Number -> 0..MaxNumber]
    /\ successes \in [Number -> 0..StableSuccessCount]
    /\ phase \in Phases /\ expected \in 1..MaxAgents
    /\ outcome \in {"none", "ok", "failed"}

\* No two agents take one identity, however their starts, their delays,
\* restarts, changes of scale and bootstraps that were cut short interleave:
\* unless a container was removed by hand, or docker answered one of them
\* with something that is no list (entrypoint.sh:11).  This is so of the
\* project liderahenk-test; of any other all agents take the identity 1.
IdentitiesAreDistinct ==
    ~removed /\ ~fellBack =>
        \A m, n \in Existing : index[m] # 0 /\ index[m] = index[n] => m = n

\* After a bootstrap that succeeded the agents that run are those of numbers
\* 1 to N, each there once, which is what the provisioner has made accounts
\* for (README.md:72, entrypoint.sh:93): under the same conditions, and as
\* long as none that was seen ready has ended.
AgentPoolIsNumbered ==
    /\ outcome = "ok" /\ ~lost /\ ~removed /\ ~fellBack
    /\ \A n \in Existing : at[n] = "agent"
    => {index[n] : n \in Existing} = 1..expected
=============================================================================
