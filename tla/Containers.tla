----------------------------- MODULE Containers -----------------------------
(***************************************************************************)
(* The containers of the project, as docker and compose keep them, and the *)
(* readiness report's view of them.  Compose is modelled from its use:     *)
(* `up' creates what does not exist, and then starts what does not run;    *)
(* `--scale' removes the containers of the highest numbers, or adds        *)
(* numbers above the highest; every service but the one-shots and ahenk is *)
(* restarted when it exits.                                                *)
(*                                                                         *)
(* A health other than "healthy" is a container that only runs.            *)
(***************************************************************************)
EXTENDS Naturals, FiniteSets

CONSTANTS
    Services,       \* the services of the profile that are modelled
    MaxNumber,      \* bound: container numbers of ahenk
    MaxMishaps      \* bound: exits, losses of health and removals

ASSUME NumberAssumption == MaxNumber \in Nat \ {0}

\* runtime_profiles.dev-fast: the services of its phases but the last, which
\* is ahenk; what each phase removes first; and what it waits for.
PhaseServices ==
    <<{"mariadb", "ldap", "ldap-init", "ejabberd", "db-migrate"}, {"lider-core"},
      {"liderapi", "lider-ui"}, {"provisioner", "registration-orchestrator"}, {}>>
OneShot == {"ldap-init", "db-migrate", "provisioner"}
Healthchecked == {"mariadb", "ldap", "ejabberd", "lider-core", "liderapi"}

\* service_groups of that profile, but for ahenk; what is no one-shot runs.
Required == {"mariadb", "ldap", "ejabberd", "lider-core", "liderapi", "lider-ui",
             "provisioner", "registration-orchestrator"} \cap Services
Accepted(s) == IF s = "provisioner" THEN {"running", "completed"} ELSE {"running"}

Number == 1..MaxNumber
ServiceState == {"absent", "created", "restarting", "running", "healthy",
                 "completed", "failed"}

VARIABLES
    service,        \* the state of the container of each service
    by,             \* ghost: the bootstrap that created it
    ahenk,          \* the state of each ahenk container
    mishaps         \* for the bound

Existing == {n \in Number : ahenk[n] # "absent"}
Mishap == mishaps < MaxMishaps /\ mishaps' = mishaps + 1

-----------------------------------------------------------------------------
(* docker: what happens to a container by itself *)

Starts(s) ==
    /\ service[s] \in {"created", "restarting"}
    /\ service' = [service EXCEPT ![s] = "running"]
    /\ UNCHANGED mishaps

TurnsHealthy(s) ==
    /\ s \in Healthchecked /\ service[s] = "running"
    /\ service' = [service EXCEPT ![s] = "healthy"]
    /\ UNCHANGED mishaps

Finishes(s) ==
    /\ s \in OneShot /\ service[s] = "running"
    /\ \E state \in {"completed", "failed"} : service' = [service EXCEPT ![s] = state]
    /\ UNCHANGED mishaps

Fails(s) ==
    /\ Mishap /\ s \notin OneShot
    /\ \/ service[s] = "healthy" /\ service' = [service EXCEPT ![s] = "running"]
       \/ /\ service[s] \in {"running", "healthy"}
          /\ service' = [service EXCEPT ![s] = "restarting"]

-----------------------------------------------------------------------------
(* service_state_report, when compose answers *)

\* normalize_state of readiness/containers.py
ReportedState(state) ==
    IF state = "healthy" THEN "running" ELSE IF state = "failed" THEN "exited" ELSE state

ServiceStateReport(expected) ==
    /\ \A s \in Required : service[s] # "absent" /\ ReportedState(service[s]) \in Accepted(s)
    /\ Cardinality(Existing) = expected /\ expected > 0
    /\ \A n \in Existing : ahenk[n] = "running"
=============================================================================
