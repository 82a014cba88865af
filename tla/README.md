# A verification project for the Liderahenk test platform

The repository builds a test platform for Liderahenk: it provisions many agents
(`ahenk`) in LDAP and ejabberd, runs them in containers next to `liderapi`, and
decides from several runtime surfaces whether all of them are registered. This
directory holds TLA+ modules of the parts whose steps interleave, fail or are
repeated, TLC configurations that check them on small instances, and proofs for
TLAPS of the properties that matter most, for every value of the constants.

`tlc -workers 2 -config X.cfg M` checks a run, `tlapm M.tla` a proof module.

## 1. The system

| Component | Source | State it keeps | Operations |
|---|---|---|---|
| Registration collector, verdict | `platform_runtime/registration.py` | none between collections | `collect_snapshot`, `evaluate_snapshot` |
| Registration orchestrator | `platform/services/registration-orchestrator/orchestrator.py` | run manifest, attempt, backoff; four JSON files and an event log on disk | start, settle loop, deadline, steady-state loop, write artifacts |
| Evidence validator | `platform_runtime/registration_evidence.py` | none | loads the files, cross-checks them |
| liderapi adapter, LDAP/XMPP adapters, runtime DB | `adapters/*`, `platform_runtime/runtime_db.py` | token, connection host | inventory reads; policy, task and directory calls |
| Presence cache of liderapi | `EjabberdAgentPresenceProvider.java` | cached set, its date, a lock | `getOnlineRecipients`, `isOnline` |
| Dashboard metrics | `LdapDashboardComputerMetricsProvider.java` | none | totals and online count |
| Agent inventory | `LdapAgentInventoryReconciler.java`, `AgentInventorySyncService.java` | `c_agent` rows | reconcile at start, sync |
| Task dispatch, daily job | `TaskService.java`, `LiderCronJob.java` | command executions, agent status | send a task, refresh status |
| Provisioner, ldap-init | `services/provisioner/provision.py`, `services/ldap/ldap-init.sh` | LDAP entries, XMPP accounts | seed users and groups, create agents, migrate groups, verify |
| Agent start-up | `services/ahenk/entrypoint.sh`, `liderapi_gate.py` | index, count of successes | take a rank among the containers, write the configuration, wait for liderapi |
| Agent hooks | `services/ahenk/hooks/*` | network policy file | connect, register, apply network policy |
| Readiness checks | `platform_runtime/readiness/*` | none between checks | policy roundtrip with clean-up, probes, aggregation, services report |
| Mutation evidence and support | `readiness/mutation_evidence.py`, `mutation_support.py`, the adapter's user and group calls, the browser test | one JSON document in two directories | clear, write, load; which declared steps are supported |
| Scenarios | `platform_runtime/scenario_runner.py`, `platform/scenarios/*` | none | resolve the active packs, run their checks |
| Readiness report, acceptance summary | `readiness/__init__.py`, `generate_acceptance_summary.py` | a report in one of two directories | collect, write, judge |
| Golden baseline | `platform_runtime/golden_baseline.py` | tracked files and a manifest | capture, validate, compare |
| Release gate | `Makefile` | none | unit tests, reports, acceptance, baseline, one after the other |
| Bootstrap | `platform/scripts/bootstrap_runtime.py` | none; the containers it leaves | bring the compose phases up one by one, poll each |

How they interact. The provisioner writes LDAP and ejabberd; agents log in to
ejabberd with those accounts and register with liderapi, which stores a
`c_agent` row. liderapi also creates rows itself, when it starts, for LDAP
entries that have none. The collector reads all of these, partly through
liderapi (dashboard, agent list, computer tree) and partly directly (LDAP,
ejabberd API, MariaDB), with no snapshot or lock across them. The orchestrator
calls the collector in a loop and publishes files in a shared volume; the
validator, the exporter and the readiness checks read those files while they
are rewritten. The bootstrap creates all containers, phase after phase; agents
in the last one rank themselves by asking docker for the containers of the
project, and wait for liderapi. The release gate runs programs that share
nothing but files: the evidence of the browser test, the report, the baseline.

What is hard, and hard to test:

* a verdict is put together from eight reads of a platform that keeps changing;
  some failed calls raise and some come back as empty replies;
* the orchestrator can be killed between any two of nine file operations of a
  cycle, and is restarted over what it left; readers take no lock;
* the deadline of the settle loop, the backoff and a slow collection race;
* the presence cache is tested outside its lock and its two fields are written
  one by one, while fetches fail, stall and overlap with sessions that end;
* the provisioner may die anywhere and is run again, perhaps with another
  topology, beside an ldap-init that nothing orders before it;
* the readiness checks create groups, profiles and policies on the server they
  inspect, over calls that time out while the server goes on, and two runs of
  them may overlap; after a refusal they wait for docker, which has no time limit;
* the evidence of a mutation is one document in two directories, either of which
  may be closed to the process, cleared and rewritten by several writers while
  the report reads it twice, minutes apart;
* a capture of the golden baseline rewrites its files one by one and its manifest
  last, may be killed anywhere, and no lock keeps two captures, or a capture and
  a comparison, apart;
* bootstraps fail, time out, are killed and run again over the containers of the
  one before; agents start at random moments, exit, and rank themselves while
  the scale changes, in a project whose name they only assume.

What makes each part correct: a *collector* reports a pass only of a platform
that is as the verdict says, never over a failed call, and does report it once
the platform has settled. The *orchestrator* leaves, after each cycle, a bundle
its validator accepts; never shows events of one run beside the manifest of
another; numbers attempts without gaps and leaves the settle loop. The
*validator* accepts a pass only if the files it read belong together. The
*presence cache* never keeps an agent online, or out, longer than its limits
and never goes back in time. The *provisioner* is complete when it says so,
creates no device without an account and loses no group. A *policy roundtrip*
that passed has left nothing behind, whatever a finished check left is accounted
for, no run takes what another uses, and every check ends, short of docker keeping
it waiting after its clean-up. A *user policy
roundtrip* rests on evidence of its own time, the *support section* agrees with
it, an *acceptance summary* that passes was earned by its own collection, and a
reader of the report finds no older pass. A *baseline* that validates, or that a
gate compared with, is the work of one capture. A *bootstrap* that succeeded did so with its own one-shots and is seen the same way
by the readiness report. *Agents* run behind the gate, each with an identity of
its own.

## 2. The modules

| Module | Models | Composes |
|---|---|---|
| `RegistrationVerdict` | the pure part: checks, taxonomy, status, per-agent states | |
| `SnapshotCollection` | the collector's reads, one action each, beside the platform that changes | `RegistrationVerdict` |
| `RegistrationOrchestrator` | the process: boot, loops, file writes, crash | `RegistrationVerdict` |
| `RegistrationLog` | abstract: what the event log promises (contract `registration-evidence.yaml`) | |
| `RegistrationEvidence` | the validator's checks as operators on the files; what the orchestrator guarantees of them; the refinement `Log == INSTANCE RegistrationLog WITH log <- events` | `RegistrationOrchestrator`, `RegistrationLog` |
| `EvidenceValidator` | the validator's unlocked reads beside the running orchestrator | `RegistrationEvidence` |
| `AgentPresence` | threads in `getOnlineRecipients` over ejabberd sessions | |
| `Provisioner` | `main()` of the provisioner, its deaths and reruns, ldap-init's roots | |
| `PolicyRoundtrip` | the policy roundtrip and the effect probe: runs at once, a server that finishes late | |
| `MutationEvidence` | the evidence document in two directories: clearing, writes, loads | |
| `ScenarioSupport` | operators: packs, their checks, what is supported | `MutationEvidence` |
| `ReadinessReport` | a collection check after check, sessions beside it, the report file | `ScenarioSupport` |
| `GoldenBaseline` | captures file by file, validation, comparison | |
| `ReleaseGate` | the steps of the gate and of `diff-baseline` | `ReadinessReport`, `GoldenBaseline` |
| `Containers` | docker's and compose's side, and the services report | |
| `AgentStartup` | entrypoint and gate of each agent | `Containers` |
| `Bootstrap` | runs of the bootstrap, phase after phase | `AgentStartup` |
| `StandUp` | the bootstrap, the containers and the agents together, with mishaps | `Bootstrap` |
| `MC*` | values of the constants for TLC | |
| `*Proofs` | theorems and their proofs | |

### Correspondence with the code

**RegistrationVerdict.** A surface is a sorted list without duplicates of
normalised ids, hence a set. `Checks` has the twelve fields of the `checks`
dictionary. `NoCount` is Python's `None`.

**SnapshotCollection.** `ldap`, `registered`, `connected` and `cAgent` are the
four facts kept elsewhere; `presence` is what liderapi has cached of
`connected`. Each `Read...` action is one call of `collect_snapshot`, in its
order, but for the dashboard call, which liderapi answers with two LDAP queries
(`ReadTotal`, `ListComputers`) and one question to the presence cache for each
entry (`AskPresence`; `listed` and `seen` are the loop's rest and count). The agent list is the first page of `PageSize` rows. The failure
actions are the two adapter methods that catch everything (`DashboardSwallows`,
`AgentListSwallows`) and every other one (`ReadRaises`). `swallowed` and `lost`
are history variables. A row of `c_agent` is an agent here: two rows of one
agent, which the race of section 6 can produce, are not told apart.

**RegistrationOrchestrator.** `pc` walks through `__init__`, `collect_verdict`,
`write_artifacts` and the decision after it. Each `write_text` is two steps
(`OpenFile` truncates, `FillFile` fills), the event is one append. `elapsed` is
the monotonic clock since settling began, capped at `Timeout`: nothing looks at
it beyond that. A collection and a sleep take any time at least as long as asked
for. `Crash` may happen at every step, `Boot` is `restart: unless-stopped`. When
collecting raises, `capturedAt` is the run's start (`CollectRaises`).

**RegistrationEvidence, EvidenceValidator.** `Errors` is the union of the
validator's sections. Reading is one action per file. Shape checks that each
file of the orchestrator meets are left out. The runtime support reports, which
other programs write and the validator only quotes, are read in one step and either
may turn out to be no JSON, which is an error (`LoadReports`); in
`CompletedBundleIsValid`, which is about what the orchestrator leaves, they are taken
to be absent or whole.

**AgentPresence.** `pc[t]` is a thread's place: the test outside the lock
(`age`, `read`), the second test inside (`enter`), the call (`fetch`), and the
writes of the two volatile fields (`install`, `stamp`). `taken` is a history
value: when ejabberd took the set. The clock starts far from the epoch, as
`currentTimeMillis` does, so that `cachedAt = 0` is too old. The clock is taken
to be monotonic.

**Provisioner.** `stage` and `i` are the places in `main()`. LDAP entries of
groups are functions from names to members; accounts, devices and users are
sets. `Die` is any exception or kill; `Start` may pick another topology.
The role group is created once and never updated: see section 6.

**PolicyRoundtrip.** `pc` is the variable `stage` of
`run_policy_roundtrip_check`, followed by the clean-up; the probe, which has no
such variable, runs through the same calls. `held` are the local variables
`group`, `profile` and `policy`, gone when the check returns or is killed. An
artifact is its owner (the uuid token in its name) and its kind. A call that
raises may have had its effect, may have it later (`late`, done by `CatchUp`),
or never. After an HTTPError (`httpError`: the server answered and refused; a
time-out is none) the roundtrip, having cleaned up, runs `docker logs` twice
before it reports (`Diagnose`, `ReadLogs`). These commands have no time limit, and
what running them raises ends the check without a report (`aborted`), so that what
its clean-up failed to remove goes unreported. An answered create is taken to carry the identifier of what it
made, as the upstream entities do. What executing a
policy does to agents is outside: its status and what the history shows are
arbitrary.

**MutationEvidence, ScenarioSupport, ReadinessReport.** `copy[d]` is the file in
each directory, `locked` the directories this user may not write, `writing` how
far each writer is: a file is truncated in one step and filled in another, and
two writers over one file may leave no document. `fresh` is a history bit of a
document: put on disk after the collection began. The places of `pc` are those of
`collect_runtime_operational_report`: the clearing and the browser test inside
the check of the roundtrip pack, that check's own reading (`CheckRoundtrip`), the
rest, and the support section, which loads the document again. The adapter and
a browser test started by hand are the writer `session`. Checks that only probe
have any outcome.

**GoldenBaseline.** A file that was filled is the capture that filled it;
`capture[c]` is a place in `capture_golden_baseline`, with one step for each
truncation and each filling, the hashing (`HashFiles`) and the manifest. Validation and comparison
are operators on the files as they are. `overlapped` is a history variable.

**ReleaseGate.** `stage` is the target of the Makefile that runs; a program that
exits loses its variables (`Exit`). The summary collects everything again, so
that the same actions of `ReadinessReport` run twice in a gate. `quiet` tells
whether a capture moved since the second validation.

**Containers.** The external side, from how the scripts use compose: `up` creates what
does not exist and starts what does not run, one-shots that ended included; `--scale`
removes the highest numbers and adds above the highest. A changed image or
environment is the choice `changed`: all containers of a service are made anew, with
the same numbers. `by` is the run that created a container.

**AgentStartup, Bootstrap, StandUp.** `at[n]` is the place in the entrypoint and
the gate, `index[n]` is `AGENT_INDEX`, 0 before it is known; `clean` counts, as a
history value, the attempts since the last one that failed. `Project` is the name
compose runs under. The entrypoint ranks its container among those of
`COMPOSE_PROJECT_NAME`, which no compose file passes to it, or else of
`liderahenk-test`; in another project its container is not `Listed` and the index is
`Fallback`, 1. That is also the index when docker's answer is no list (`fellBack`). `pc` of a run walks through preflight, build, `rm`, `up`,
and the polling; `Fail` is every exit but success, `RunBreaks` a command that fails or a kill, with some agents
created and none started. Deadlines are looked at after at least one poll or
attempt and strike at any moment after that. `lost` tells that a container of a phase
the run had seen ready failed since. The profile is `dev-fast`; `dev-fidelity` only adds
services of the observability stack; `DEBUG` and skip modes are left out, and so are
a bootstrap for no agents, whose provisioner fails, and a host name that is a number.

## 3. The runs

| Run | Question | Bounds |
|---|---|---|
| `snapshot` | Is a pass true, safe from failures, and eventually reported? | two agents, one expected, page of one |
| `snapshot_identity` (violation) | Do passing surfaces agree on identities? | same |
| `registration_evidence` | Does each completed cycle leave a valid bundle, does the log keep its promise, does settling end and keep its pace? | deadline 4, backoff 1 to 2, two runs, three attempts, three readings |
| `evidence_validator` | Does the validator accept a pass only of one cycle? | two runs, deadline 0, one reading or an exception |
| `evidence_consistency` (violation) | Is every accepted bundle consistent? | same |
| `agent_presence` | Do answers expire, see lasting sessions, move forward? | two threads, one agent, TTL 1, stale limit 2, clock to 7 |
| `provisioner` | Is success complete, and what survives deaths and reruns? | four topologies, two legacy groups, four runs |
| `policy_roundtrip` | What is left on the server, who removes what, and what can keep a check from ending? | a roundtrip and a probe, two works put off at a time, one kill |
| `probe_history` (violation) | Does a passing probe mean that the history showed a command? | same |
| `release_gate` | What do a passed check, summary, baseline and comparison rest on? | two gates, two captures of three files, one given up, one session, one change of owner |
| `stand_up` | What does a bootstrap that succeeded mean, and who are the agents? | six services, two runs of one or two agents, three numbers, one mishap, a streak of two |
| `other_project` (violation) | Is the agent pool numbered under any project name? | same, but the project is `liderahenk-test-evidence` |

Why the bounds are enough to be interesting. *snapshot*: with one expected agent
and a second one that may turn up, every surface can list too few, the right,
the wrong and too many agents, and a full page is reached. *registration_evidence*:
the deadline 4 with pauses 1, 2, 2 is reached in the middle of a pause, exactly,
and during a collection; two runs let every file of the first be found by the
second. *evidence_validator*: a deadline of 0 makes one run go through settle,
timeout and steady state within three cycles, so that the validator can read
over several cycles and two runs. *agent_presence*: seven ticks (the clock
starts at 3) let a set become older than the stale limit after it was used;
agents do not interact, so one is enough, and threads meet only in the cache and
the lock, so two show the races. *provisioner*: topologies that grow, shrink,
have more groups than members, and have none; one legacy group has the name of a
seeded one. *policy_roundtrip*: runs meet only on the server, one pair shows
every meeting; a create and deletes of the other run can be late at once.
*release_gate*: two gates let a report, evidence and a directory's owner be those
of an earlier one; the three files are of the three kinds validation treats
differently; two captures can follow one another, die and overlap. The state
space is reduced where parts share nothing: captures work in behaviours without
gates and are met by `diff-baseline` alone, which is the end of the gate; sessions
step during collections; gates start with a complete baseline only (with the one in the repository, whose status is
pending, every gate ends at the validation). *stand_up*: the services
are one of each kind (health check, one-shot, plain) and at least one per phase;
three numbers for at most two agents let a scale go down and up again so that
numbers and ranks differ, and two runs let the second find what a broken one left.

`SnapshotCollection` checks deadlock. The others set `CHECK_DEADLOCK FALSE`:
the orchestrator may be down for good after its last allowed run or idle after
its last allowed attempt, the presence model ends at its last clock reading,
the provisioner's container is not started again, the readiness checks are
over when all have reported, and gates, captures and bootstraps are run a bounded
number of times.

### Properties

* `PassIsTrueOfThePlatform`: a passing verdict holds of the platform *now*, as
  long as no session ended since its first read and there are no more accounts
  than expected. Facts other than sessions only grow, and that is what makes
  reads at eight moments agree.
* `FailureNeverPasses`: no pass over a failed call, hidden or not.
* `SettledIsRecognised` (liveness): after the expected agents are on every
  surface and stay, and calls succeed, a pass is reported again and again.
* `CompletedBundleIsValid`: after a full cycle the validator finds nothing,
  except `per agent count` for a pass over surfaces listing more identities than
  expected.
* `EventsAreOfTheManifestsRun`, `SettlingIsPaced`, `ImplementsLog`,
  `SettlingEnds` (liveness): section 1.
* `AcceptedPassIsOneCycle`: a pass the validator accepts, from a manifest that
  names an attempt, is of the same cycle as that manifest and the last event.
* `DisconnectedAgentsExpire`, `LastingSessionsAreSeen`, `AnswersDoNotGoBack`:
  section 1. The empty set that a failure leaves behind is excluded from the
  second and third: the code does give it.
* `SuccessIsComplete`, `DevicesHaveAccounts`, `MigrationKeepsGroups`,
  `WrongCountMeansLeftovers`: section 1.
* `PassLeavesNothing`: also no create or delete that was given up is under way.
  `LeftoversAreAccountedFor`: a failed clean-up operation, or what the stage that
  raised was making (the roundtrip reports that stage, the probe does not); a
  killed run is exempt, nothing cleans up after it, and so is one that an exception
  of `docker logs` left without a report. `NothingVanishesInUse`: section 1.
  `EveryRunEnds` (liveness): every check ends, or is a roundtrip that waits for
  `docker logs` with its clean-up behind it. `DependentsGoFirst`: nothing of a run
  disappears while the deletion of its policy is still to be tried.
* `RoundtripRestsOnFreshEvidence`: whichever of the two copies was read, and
  whatever could not be cleared. `SupportAgreesWithChecks`: unless a session wrote
  since the clearing. `AcceptanceIsEarned`: in terms of the summary's own
  collection; a step of the gate before it does not count. `PassShownIsLatest`: the
  exception is real, a report that had to go to the fallback directory is hidden
  by an older one in the first.
* `ValidBaselineIsOneCapture`, `PassedDiffIsOfOneCapture`: both exclude captures that
  overlapped, which nothing prevents: two of them can leave a mixture whose manifest
  hashes that mixture. They can also replace a complete baseline without force, for
  the look at its manifest comes minutes before; no property is stated of that.
* `SuccessIsThisRuns`: one-shots of an earlier run do not count, which is what
  `recreate_before_up` is for. `ReportAgreesWithBootstrap`: two normalisations of
  container states, in two scripts, and two readings of the contract agree.
* `AgentRunsBehindTheGate`: no attempt of the streak failed.
  `IdentitiesAreDistinct`: in the project `liderahenk-test`, unless a container was
  removed by hand, which shifts the ranks of those above it that have not started
  yet, or docker's answer was no list, for which the entrypoint takes 1.
  `AgentPoolIsNumbered`: with the same two exceptions, the agents that a successful
  bootstrap leaves running are `ahenk-001` to the number asked for. It holds in
  `liderahenk-test` and not in a project of another name (section 4).
* What the properties do not see: `SettlingIsPaced` and `SettlingEnds` do not tell
  whether the last pause is cut short at the deadline, where the model's clock stops;
  `AgentRunsBehindTheGate` is about the streak, not about the gate's deadline.

### Fairness

`SnapshotCollection!FairSpec` assumes that the orchestrator's loop begins another
collection, that reads end (every client has a time-out), and that a presence
cache that is too old is refetched, which the collector's own dashboard request
does. No fairness is assumed of agents, of provisioning or of failures: they
are premises of `SettledIsRecognised`. `RegistrationOrchestrator!FairSpec`
assumes that a process that is not killed goes on: weak fairness of the process
as a whole, none of `Boot` and none against `Crash`. `PolicyRoundtrip!FairSpec` assumes that
each run goes on (`Step`), because every call of liderapi has a time limit of 10 or 15
seconds; none is assumed of the server, and none of `ReadLogs`, because `docker logs` is
run without a limit. None is assumed in `ReleaseGate` and
`StandUp`: the commands of make, docker and compose have no time limit, so that
the code does not justify any. Safety is checked and
proved of the specifications without fairness.

## 4. What the violations show

* `snapshot_identity`: sessions are compared by number only, so an agent that is
  connected can stand in for one that is registered. `failure-taxonomy.yaml`
  speaks of identities or counts.
* `evidence_consistency`: verdicts of failed collections carry the time the run
  started, so the cross-check by time cannot tell two of them apart, and a bundle
  mixed from two cycles can be accepted as consistent. It is never a passing one.
* `probe_history`: the effect probe passes on the status of `execute_policy`
  alone; an empty or unreadable history only shows in its details, although
  `mutation_support.py` calls it the proof of an observable effect.
* `other_project`: the project the entrypoint assumes is not the one compose runs
  under when it is given another name (`bootstrap_runtime.py --project-name`,
  `run_evidence_stack.sh`); all agents then take the identity `ahenk-001`. The
  README of the platform shows the pool as `ahenk-001 ... ahenk-N`.

## 5. What is proved

Constants are arbitrary within their named assumptions. Every invariant and action
property that a passing run checks is stated by a theorem below; only `FailureNeverPasses`,
`IdentitiesAreDistinct` and `AgentPoolIsNumbered` have a hypothesis more, which is
explained there.

* `SnapshotCollectionProofs`: types; `PassIsTrueOfThePlatform` by the inductive
  `PassInv`: sessions, device entries and rows belong to accounts, and what was
  read stays true (`ReadingStaysTrue`: each set read so far is still contained
  in its fact, sessions until one ends). Each set then has as many members as
  the accounts may have at most, hence is all of them (`FullPartIsAll`).
  `FailureNeverPasses` for `Expected # 0` by `FailureLeavesMark`: a hidden
  failure leaves a missing total or an empty list, and neither passes. With no
  agent expected an agent list lost on the way looks like the right one.
  Two theorems say what the size of the page decides. If it is smaller than the
  expected count, no collection ever passes, however long the platform is settled
  (`MoreThanAPageNeverPass`, from `OnePage`). If not, a collection begun over a
  settled platform, of which no call fails, passes (`SettledCollectionsPass`, from
  `ReadAsItIs`: every surface read so far is the list of accounts, and
  `CountedAsItIs`: so are the entries asked and still to be asked). Its hypothesis
  restricts the steps to the collector's successful ones and the refresh of the
  presence cache.
* `RegistrationEvidenceProofs`: types; `EventsAreOfTheManifestsRun` by `RunInv`
  (which run the events, the manifest in memory and the one on disk are of, at
  each place, before and after the truncation); `ImplementsLog`, step by step,
  from `LogInv` (the last event on disk is the one of the attempt, phase and
  status in memory). `CompletedBundleIsValid` by `BundleInv` (from the first write
  of a cycle on the manifest in memory is of the verdict, and each file that was
  filled holds what is in memory) and lemmas on `evaluate_snapshot`: the highest
  state was reached, a pass has no failed check. `SettlingIsPaced` by `PacedInv`
  (the clock has passed as many pauses as attempts were made, or the deadline). The
  backoff and its sum are recursive functions on the naturals; that they satisfy
  their recursion is proved here too (`RecursionOnNat`), from the
  well-foundedness of the numbers. `SettlingComesCloser` is the safety half of
  `SettlingEnds`: a way of less than 15 (`Timeout` + 2) steps that each step of a
  living process shortens, because it sleeps only before the deadline and at least
  one second.
* The same module, about the validator beside the orchestrator: `ETypeOK`, and
  `AcceptedPassIsOneCycle`. The validator reads its files at different times, so the
  invariant has to be about files that may since have been replaced.
  `Known` says what a manifest that names a pass vouches for, and no later step
  takes back: every passing event of its run and attempt carries its time
  (`Vouches`), and the process is past that attempt or still at it (`Behind`).
  `KnownInv` has it of the manifest on disk and needs that no passing event has the
  number of the attempt being made (`PassesPrecede`); `ReadIsKnown` has it of the
  manifest the validator read, until the events were read. With `FoundIsRead` (a file
  that was found is there when it is read) the validator's comparisons of run,
  attempt, status and time leave one cycle.
* `AgentPresenceProofs`: types (that a newest set exists is proved by
  well-foundedness of the numbers); the two expiry properties from `SetsAreTrue`
  (a set tells who was connected when it was taken) and `CacheInv` (one thread
  refreshes at a time; the cached set is never older than its date, also between
  the two writes; a thread about to read found it young enough and it only gets
  younger); `AnswersDoNotGoBack` from `CacheIsNewest` (nothing handed out is newer
  than the cached set, or than the one about to be installed).
* `ProvisionerProofs`: `DevicesHaveAccounts` and `MigrationKeepsGroups` from the
  positions of the loops (`LoopInv`), the disjointness of names, and
  `ChildrenExist` (what waits to be migrated is still there). Types from `RangeInv`
  (a run has counted its agents in `largest`, no loop leaves its topology).
  `SuccessIsComplete` from `UsersInv`, `AgentsInv` and `SeedingInv`: what the loops
  have passed is written, with the members this topology asks for, and the migration
  that follows spares it (`MigrationSparesSeeded`, `NamesDiffer`).
  `WrongCountMeansLeftovers` from `AgentsInv` too: the agents a run has passed are
  all there, so a wrong count is of devices beyond them.
* `PolicyRoundtripProofs`: types; all four safety properties from one inductive
  invariant. Its heart is `Remembered`: at every place, whatever of a run is on
  the server or still to appear there is held, waits to be cleaned up, failed,
  or is what the stage that raised was making. It needs that a create put off
  was never known to its run (`LateCreates`, from `HeldSoFar`) and that a delete
  put off is recorded as failed (`LateDeletes`). `FourteenStepsAtMost` is the safety
  half of `EveryRunEnds`: a measure of at most 14 that every step of a run, `ReadLogs`
  included, makes smaller and no other step makes larger.
* `GoldenBaselineProofs`, `ReleaseGateProofs`: types and all properties of
  `release_gate`. `GoldenInv` says what a capture that does not overlap has
  written so far; the baseline's two properties follow, the comparison's with `DiffInv` (after the second validation, while `quiet`,
  the baseline is valid). The lemma `Moves` sorts the steps of the gate into those of the collection, of a session and of make; then
  `FreshInv` (a directory passed by the clearing holds nothing older), `SupportInv`
  (what the check saw is still on disk unless a session wrote; a passed result has
  all active packs passed) and `ReportInv` are inductive.
* `StandUpProofs`: types and all properties of `stand_up`, for any number of agents.
  `GateInv`, `RunInv` (the one-shots of phases passed are this run's and completed,
  those of the current one are its own from `up` on), `Settled` (what was seen
  ready is ready until `lost`), and `IndexInv`: an agent that knows its identity
  still has the rank it took. The last rests on `UpKeepsRanks`: what a scale
  leaves is closed downwards, and what it adds is above (`AddedAbove`, from a
  highest number, which exists because numbers are well-founded).
  `AgentPoolIsNumbered` from the same and `KnownInv` (an agent past the ranking has
  an index), because the ranks of a set are all the numbers up to its size
  (`RanksFill`, by counting: a one-to-one map into a set of that size). Both theorems
  about identities are of the project `liderahenk-test` (`Project = DefaultProject`):
  in another they are false.

Only model-checked: the liveness properties `SettledIsRecognised`, `SettlingEnds` and
`EveryRunEnds`. Fairness speaks of ENABLED, which is beyond the provers; that nothing but
a lack of steps can keep the goal away is proved as said above. The violations
of section 4 are TLC's counterexamples and nothing is proved of them.

Assumptions of note: a torn JSON file differs from one that does not exist, and both from
every document (`FileAssumption`: readers tell the three apart, by existence and
by parsing); the timing of the orchestrator is in whole seconds and pauses are at
least one (`TimingAssumption`).

## 6. What is not modelled

* Upstream code. Task dispatch and the daily job (`TaskService.java`,
  `LiderCronJob.java`) are overlays of two classes whose repositories, entities,
  message layer and threads are not in the repository, and so is the handler of
  REGISTER that the inventory's `findByJid` and `save` race with. The agent hooks
  (`presence.py`, `network_state.py`, registration) patch an agent that is not there
  either. What these do at the same time as others could only be guessed; their
  hazards are listed without a property.
* Thin I/O and configuration: the readiness probes behind the checks, metric
  exporters, topology profiles (a validated YAML file), the liderapi catalogue,
  LDAP bind policy, entities and query overlays, the user interface, nginx, static
  SQL, images and dashboards, the legacy test orchestrator.
* Within modelled parts: the configuration fingerprint and texts; passwords and
  constant attributes of LDAP entries; the members of the role group after a later
  run (the code keeps the first ones); the two spellings of a jid `isOnline`
  accepts; host discovery in `runtime_db.py`; port parsing and the topology
  environment of the bootstrap; preflight and status of the baseline.

Seen while modelling, and not stated as findings: `get_dashboard_info` and
`get_agent_list` return `None` and `[]` on any exception, so that the verdict over
such a call fails as a projection mismatch and not as the `adapter_error` of
`failure-taxonomy.yaml` (the model has both, `DashboardSwallows` and
`AgentListSwallows`). Of the others no document says otherwise: `verify_effect` counts as supported because its runner is registered,
though `session-login-basic` never runs `policy_effect_probe`. The adapter calls the
creation of a user verified in the mode `ui-first-postcondition` only, and the
browser test writes no mode, so that after a passing browser test the adapter and
the support section disagree. The repository's baseline is pending, hence every
release gate stops at its validation. The quality report is made last and can fail
nothing.

What is left: overlapping collections (here one at a time; `PolicyRoundtrip`
has several) and captures beside a whole gate; exporters that read the
orchestrator's files as the validator does.
