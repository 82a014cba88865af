--------------------------- MODULE ScenarioSupport ---------------------------
(***************************************************************************)
(* The scenario packs, the checks they run, and what a report says of the  *)
(* steps they declare: which are supported by the adapter, by a registered *)
(* check, or by evidence.  Operators only.  A pack that no file defines    *)
(* fails to load; the files of the two packs below satisfy the contract.   *)
(***************************************************************************)
EXTENDS MutationEvidence

MutationStep == Step \cup {"create_group_via_ui", "create_policy_via_ui",
                           "assign_policy_to_group_via_ui"}
SessionStep == {"simulate_login", "verify_effect", "collect_ui_tree_snapshot",
                "collect_membership_snapshot", "collect_policy_snapshot"}

\* _scenario_runner_registry
Registry == {"policy_roundtrip", "ui_login", "ui_user_policy_roundtrip",
             "membership_snapshot_contract", "policy_effect_probe",
             "policy_snapshot_contract", "session_effect_contract"}

SessionPack == "session-login-basic"
RoundtripPack == "ui-user-policy-roundtrip"
Available == {SessionPack, RoundtripPack}

Pack == [n \in Available |->
  [topology |-> "dev-fidelity",
   checks |-> IF n = SessionPack
              THEN {"ui_login", "membership_snapshot_contract",
                    "session_effect_contract"}
              ELSE {"ui_user_policy_roundtrip", "policy_roundtrip",
                    "policy_effect_probe", "policy_snapshot_contract"},
   steps |-> IF n = SessionPack THEN SessionStep \ {"collect_policy_snapshot"}
             ELSE MutationStep \cup SessionStep]]

\* resolve_active_scenarios: the packs named, or that of the topology.
ResolveActive(named, sessionPack) ==
    IF named # {} THEN named ELSE {sessionPack} \cap Available

-----------------------------------------------------------------------------
(***************************************************************************)
(* collect_scenario_checks for one pack, given the checks that failed: it  *)
(* fails with its load, its contract, a check nobody registered, or any    *)
(* check of its own.                                                       *)
(***************************************************************************)
ScenarioStatus(n, topology, registry, failing) ==
    IF n \notin Available THEN "load_error"
    ELSE IF /\ Pack[n].topology = topology /\ Pack[n].checks # {}
            /\ Pack[n].checks \subseteq registry \ failing
         THEN "pass" ELSE "fail"

-----------------------------------------------------------------------------
(* mutation_step_support and session_step_support *)

CreateUserVerified == VerifiedSteps(Load)["create_user_via_ui"] # Unverified

MembershipVerified ==
    VerifiedSteps(Load)["assign_user_to_group_via_ui"]
        = "existing_group_membership_update"

\* Mutant: the creation must have been verified in the adapter's mode.
MutationSupported_ByMode(allow) ==
    {s \in MutationStep : s = "create_user_via_ui" => allow /\ CapabilityVerified(s)}
\* The adapter has a method for every mutation step; the creation of a
\* user is supported by evidence alone.
MutationSupported(allow) ==
    {s \in MutationStep : s = "create_user_via_ui" => allow /\ CreateUserVerified}

\* The conditional mode of assign_user_to_group_via_ui, an addition to it.
ExistingGroupMode(allow) == allow /\ MembershipVerified

RuntimeCheck == [simulate_login |-> "ui_login",
                 collect_membership_snapshot |-> "membership_snapshot_contract",
                 collect_policy_snapshot |-> "policy_snapshot_contract",
                 verify_effect |-> "policy_effect_probe"]

SessionSupported(checks) ==
    {s \in SessionStep : s \in DOMAIN RuntimeCheck => RuntimeCheck[s] \in checks}

-----------------------------------------------------------------------------
(***************************************************************************)
(* collect_scenario_support_summary, session_support_summary and           *)
(* support_summary: the steps of the active packs and of all packs, and    *)
(* those among them that are not supported.                                *)
(***************************************************************************)
StepsOf(packs, kind) == UNION {Pack[n].steps \cap kind : n \in packs \cap Available}

AllowVerification(passed) == Found(Load) \/ RoundtripPack \in passed

SupportSummary(active, passed, registry) ==
    LET allow == AllowVerification(passed)
        mutations == MutationSupported(allow)
        sessions == SessionSupported(registry \cup {"ui_agent_visibility"})
    IN  [activeScenarios |->
            {n \in active \cap Available : Pack[n].steps \cap SessionStep # {}},
         declared |-> StepsOf(active, MutationStep),
         unsupported |-> StepsOf(active, MutationStep) \ mutations,
         catalogUnsupported |-> StepsOf(Available, MutationStep) \ mutations,
         sessionUnsupported |-> StepsOf(active, SessionStep) \ sessions,
         existingGroup |-> ExistingGroupMode(allow)]

\* _run_session_effect_contract_check: an unsupported step must bear a
\* note, which all but the login do.
SessionEffectContract(active, checks) ==
    LET declared == StepsOf(active, SessionStep)
        supported == declared \cap SessionSupported(checks)
    IN  declared = {} \/ /\ {"simulate_login", "collect_membership_snapshot",
                             "verify_effect"} \subseteq supported
                         /\ "simulate_login" \notin declared \ supported
=============================================================================
