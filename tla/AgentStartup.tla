---------------------------- MODULE AgentStartup ----------------------------
(***************************************************************************)
(* The start of an agent container: after a random delay the entrypoint    *)
(* takes the rank of its container among those of the project for its      *)
(* identity, writes its configuration, and waits at the gate until         *)
(* liderapi has answered a sign-in and a protected request a number of     *)
(* times in a row; then the agent runs.  A container that exits stays so   *)
(* until the next `up', which runs the entrypoint from its beginning.      *)
(***************************************************************************)
EXTENDS Containers

CONSTANTS
    Project,                \* the project compose runs under: -p, --project-name
    StableSuccessCount      \* LIDERAPI_GATE_STABLE_SUCCESS_COUNT

\* The gate raises for less.
ASSUME StableSuccessAssumption == StableSuccessCount \in Nat \ {0}

VARIABLES
    at,             \* where the entrypoint of each container is
    index,          \* AGENT_INDEX, 0 before it is known
    successes,      \* consecutive_successes of its gate
    clean,          \* ghost: attempts of this gate since the last that failed
    fellBack        \* ghost: a rank was guessed, for docker gave no list

agentVars == <<at, index, successes, clean, fellBack>>

-----------------------------------------------------------------------------
\* The jitter that the entrypoint begins with passes in "rank".
AgentStarts(n) ==
    /\ ahenk[n] = "created"
    /\ ahenk' = [ahenk EXCEPT ![n] = "running"]
    /\ at' = [at EXCEPT ![n] = "rank"]
    /\ index' = [index EXCEPT ![n] = 0]
    /\ UNCHANGED <<successes, clean, fellBack>>

AgentExits(n) ==
    /\ ahenk' = [ahenk EXCEPT ![n] = "exited"]
    /\ at' = [at EXCEPT ![n] = "none"]
    /\ successes' = [successes EXCEPT ![n] = 0]
    /\ clean' = [clean EXCEPT ![n] = 0]
    /\ UNCHANGED <<index, fellBack>>

\* What the entrypoint takes for its project when COMPOSE_PROJECT_NAME is not
\* set, as in every container compose.agents.yml describes.
DefaultProject == "liderahenk-test"

\* The containers docker lists for that project: those of this one, or, if it
\* bears another name, none.
Listed == IF Project = DefaultProject THEN Existing ELSE {}

\* Mutant: docker lists running containers only.
Rank_Running(n) == Cardinality({m \in Number : m <= n /\ ahenk[m] = "running"})
\* Mutant: enumerate counts from zero.
Rank_FromZero(n) == Cardinality({m \in Existing : m < n})
\* Its place among all containers of its project, sorted by their numbers.
Rank(n) == Cardinality({m \in Existing : m <= n})

\* Without a rank, the host name when it is a number, and else 1.  It is the
\* container's hexadecimal identifier; that all its digits are decimal is
\* left out.
Fallback == 1

(***************************************************************************)
(* The rank, and the files written with it, of which the configuration of  *)
(* the agent is always new.  There is no rank when docker's list does not  *)
(* have this container, and when what docker answered is no list.          *)
(***************************************************************************)
Configure(n) ==
    /\ at[n] = "rank"
    /\ \/ /\ index' = [index EXCEPT ![n] = IF n \in Listed THEN Rank(n) ELSE Fallback]
          /\ UNCHANGED fellBack
       \/ index' = [index EXCEPT ![n] = Fallback] /\ fellBack' = TRUE
    /\ at' = [at EXCEPT ![n] = "resolve"]
    /\ UNCHANGED <<ahenk, successes, clean>>

\* set -e, when docker cannot be reached or answers with JSON but no list.
NoDocker(n) == at[n] \in {"rank", "resolve"} /\ AgentExits(n)

\* resolve_base_url, twice; the deadline is set after it, so that there is
\* a first attempt.
Resolve(n) ==
    /\ at[n] = "resolve"
    /\ at' = [at EXCEPT ![n] = "sign_in"]
    /\ UNCHANGED <<ahenk, index, successes, clean, fellBack>>

\* liderapi answers with 200 only where it runs.
LiderapiRuns == service["liderapi"] \in {"running", "healthy"}

Authenticate(n) ==
    /\ at[n] = "sign_in" /\ LiderapiRuns
    /\ at' = [at EXCEPT ![n] = "probe"]
    /\ UNCHANGED <<ahenk, index, successes, clean, fellBack>>

\* Mutant: one success more than configured.
ProbeSucceeds_OneMore(n) ==
    /\ at[n] = "probe" /\ LiderapiRuns
    /\ successes' = [successes EXCEPT ![n] = @ + 1]
    /\ clean' = [clean EXCEPT ![n] = @ + 1]
    /\ at' = [at EXCEPT ![n] = IF successes'[n] > StableSuccessCount
                              THEN "agent" ELSE "sleep"]
    /\ UNCHANGED <<ahenk, index, fellBack>>
\* Both requests were answered.
ProbeSucceeds(n) ==
    /\ at[n] = "probe" /\ LiderapiRuns
    /\ successes' = [successes EXCEPT ![n] = @ + 1]
    /\ clean' = [clean EXCEPT ![n] = @ + 1]
    /\ at' = [at EXCEPT ![n] = IF successes'[n] >= StableSuccessCount
                              THEN "agent" ELSE "sleep"]
    /\ UNCHANGED <<ahenk, index, fellBack>>

\* Mutant: an attempt that fails leaves the count as it is.
AttemptFails_NoReset(n) ==
    /\ at[n] \in {"sign_in", "probe"}
    /\ clean' = [clean EXCEPT ![n] = 0]
    /\ at' = [at EXCEPT ![n] = "sleep"]
    /\ UNCHANGED <<ahenk, index, successes, fellBack>>
\* Whatever an attempt raises.
AttemptFails(n) ==
    /\ at[n] \in {"sign_in", "probe"}
    /\ successes' = [successes EXCEPT ![n] = 0]
    /\ clean' = [clean EXCEPT ![n] = 0]
    /\ at' = [at EXCEPT ![n] = "sleep"]
    /\ UNCHANGED <<ahenk, index, fellBack>>

\* The deadline is looked at between attempts only.
NextAttempt(n) ==
    /\ at[n] = "sleep"
    /\ \/ /\ at' = [at EXCEPT ![n] = "sign_in"]
          /\ UNCHANGED <<ahenk, index, successes, clean, fellBack>>
       \/ AgentExits(n)

AgentStep(n) ==
    \/ AgentStarts(n) \/ Configure(n) \/ NoDocker(n) \/ Resolve(n)
    \/ Authenticate(n) \/ ProbeSucceeds(n) \/ AttemptFails(n) \/ NextAttempt(n)

-----------------------------------------------------------------------------
\* An agent runs only after liderapi answered the configured number of
\* attempts in a row, with none failed in between, since its container was
\* last started, however liderapi comes and goes
\* (liderapi_gate.py, wait_for_liderapi_gate; entrypoint.sh).
AgentRunsBehindTheGate ==
    \A n \in Number : at[n] = "agent" => clean[n] >= StableSuccessCount
=============================================================================
