------------------------------- MODULE Cutover -------------------------------
(***************************************************************************)
(* internal/operations/service.go and internal/cutover/flags.go: the staged*)
(* cutover from the legacy engine to the shared one.                       *)
(*                                                                         *)
(* The database holds one cutover state, an immutable history of           *)
(* transitions and the flag snapshots they name.  TransitionCutover locks  *)
(* the state row for the whole of its transaction, so the transaction is   *)
(* one action; only then does the handler activate the flags of the row it *)
(* answers with, in the memory of the server that trades.  Rows known by a *)
(* digest of their content are modelled by that content.                   *)
(***************************************************************************)
EXTENDS Naturals, Sequences, FiniteSets

CONSTANTS
    Snapshots,        \* flag envelopes that operators propose or configure
    Contexts,         \* Stage 07 contexts
    Policies,         \* parity acceptance policies that have been declared
    Sessions,         \* concurrent transition requests
    Targets,          \* bound: stages that operators work towards
    Nobody,           \* no state, no row, no activated flags
    MaxTransitions, MaxRollbacks, MaxDeployments, MaxPopulations   \* bounds on rows

NoContext == ""    \* flags and requests that name no Stage 07 context

Ledgers == {"legacy", "compare", "authoritative"}

Engines == {"off", "shadow", "paper", "limited_live", "full_live"}

LiveModes == {"limited_live", "full_live"}

IsLive(f) == f.engine \in LiveModes \/ f.candidate \in LiveModes

CapitalEnabled(f) == f.engine = "paper" \/ IsLive(f)

\* Flags.Validate: known values, and the dependencies between them.
Validate(f) ==
    /\ f.ledger \in Ledgers /\ f.engine \in Engines
    /\ f.backtest \in {"off", "research"}
    /\ f.pit \in {"off", "research", "authoritative"}
    /\ f.candidate \in Engines \cup {"research"}
    /\ f.dual \in {"off", "observe"}
    /\ f.dual = "observe" => f.engine # "off"
    /\ f.candidate \notin {"off", "research"} => f.engine # "off" /\ f.pit # "off"
    /\ f.candidate = "paper" => f.engine = "paper"
    /\ f.engine = "paper" => f.ledger = "authoritative"
    /\ f.pit = "authoritative" => f.engine # "off"
    /\ IsLive(f) => /\ f.ledger = "authoritative" /\ f.pit = "authoritative"
                    /\ f.context # NoContext /\ f.engine = f.candidate

SafeFlags == [ledger |-> "legacy", engine |-> "off", backtest |-> "off", pit |-> "off",
              candidate |-> "off", dual |-> "off", context |-> NoContext]

stages == <<"schema_legacy", "research_ingestion", "ledger_compare", "shared_shadow",
            "parity_accepted", "new_paper", "paper_observation", "research_validation",
            "limited_live", "legacy_removal_eligible">>

Stages == {stages[i] : i \in DOMAIN stages}

stageIndex(s) == CHOOSE i \in DOMAIN stages : stages[i] = s

Before(s, t) == stageIndex(s) < stageIndex(t)

authorityForStage(s) ==
    IF s = "limited_live" THEN "limited_live"
    ELSE IF Before(s, "new_paper") THEN "legacy" ELSE "new_paper"

engineForStage(s) ==
    IF s \in {"shared_shadow", "parity_accepted"} THEN "shadow_compare"
    ELSE IF Before(s, "new_paper") THEN "legacy" ELSE "shared"

stageContextFor(s, f) == IF Before(s, "new_paper") THEN NoContext ELSE f.context

authorityEnvelope(s, f, c) ==
    [stage |-> s, authority |-> authorityForStage(s), flags |-> f, context |-> c]

validateFlagsForStage(f, s) ==
    /\ s \in {"schema_legacy", "ledger_compare"} => f = SafeFlags
    /\ s = "research_ingestion" =>
         f = [SafeFlags EXCEPT !.backtest = "research", !.pit = "research"]
    /\ s \in {"shared_shadow", "parity_accepted"} =>
         f.engine = "shadow" /\ f.dual = "observe" /\ f.ledger # "authoritative"
    /\ s \in {"new_paper", "paper_observation"} =>
         /\ f.engine = "paper" /\ f.candidate = "paper" /\ f.pit = "authoritative"
         /\ f.ledger = "authoritative" /\ f.context # NoContext
    /\ s = "limited_live" => IsLive(f)

requiredPrerequisites(s) ==
    (IF Before("new_paper", s) THEN {"ledger_reconciled"} ELSE {}) \cup
    CASE s \in {"research_ingestion", "ledger_compare"} -> {"schema_deployed"}
      [] s = "shared_shadow" -> {"ledger_compare_clean"}
      [] s = "parity_accepted" -> {"parity_threshold_passed"}
      [] s = "new_paper" -> {"ledger_reconciled", "dataset_coverage", "stage07_paper"}
      [] s = "paper_observation" -> {"paper_round_trip", "restart_idempotency"}
      [] s = "research_validation" -> {"dataset_coverage", "backtest_reproduced"}
      [] s = "limited_live" -> {"observation_elapsed", "validation_passed",
                                "human_approved", "stage07_exact"}
      [] OTHER -> {}

\* Prerequisites shown by a content-addressed evidence row.
EvidenceKinds == {"dataset_coverage", "paper_round_trip", "restart_idempotency",
                  "backtest_reproduced", "observation_elapsed", "validation_passed"}

DeploymentStates == {"none", "shadow", "paper", "limited_live"}

VARIABLES
    declared,      \* stage08_flag_snapshots
    state,         \* cutover_states row 1, with the engine setting it controls
    transitions,   \* cutover_transitions; a row's number stands for its digest and
                   \* for the idempotency key of the request that wrote it
    active,        \* cutover.activeState: what the running server trades by
    sessions,      \* [Sessions -> the row whose flags are still to be activated]
    deployments,   \* [Contexts -> governance deployment and its row digest]
    balanced,      \* ledger.Reconcile would report a balanced ledger
    evidence,      \* cutover_prerequisite_evidences whose payload is complete
    populations,   \* parity_populations
    passed         \* populations that EvaluateParity accepts

vars == <<declared, state, transitions, active, sessions, deployments, balanced,
          evidence, populations, passed>>

Attempts == 1 .. MaxTransitions + 1

Authorities == {"legacy", "new_paper", "limited_live"}

Envelopes == [stage : Stages, authority : Authorities, flags : Snapshots,
              context : Contexts \cup {NoContext}]

States == [envelope : Envelopes, transition : Attempts,
           engine : {"legacy", "shadow_compare", "shared"}, version : Attempts]

Populations == [policy : Policies, flags : Snapshots, attempt : Attempts]

Requests == [to : Stages, flags : Snapshots, context : Contexts \cup {NoContext},
             policy : Policies \cup {Nobody}, population : Populations \cup {Nobody},
             rollback : BOOLEAN]

Request(to, f, c, policy, population, rollback) ==
    [to |-> to, flags |-> f, context |-> c, policy |-> policy, population |-> population,
     rollback |-> rollback]

\* The request to return to the safe bootstrap flags; Bootstrap records it too.
SafeRequest(rollback) == Request("schema_legacy", SafeFlags, NoContext, Nobody, Nobody, rollback)

\* What the instances have to satisfy.
CutoverAssumption ==
    /\ SafeFlags \in Snapshots /\ Targets \subseteq Stages /\ NoContext \notin Contexts
    /\ \A f \in Snapshots : f.context \in Contexts \cup {NoContext}
    /\ MaxTransitions \in Nat /\ MaxRollbacks \in Nat
    /\ MaxDeployments \in Nat /\ MaxPopulations \in Nat
    /\ Nobody \notin Policies /\ Nobody \notin States /\ Nobody \notin Attempts

TypeOK ==
    /\ declared \subseteq Snapshots
    /\ state \in States \cup {Nobody}
    /\ Len(transitions) <= MaxTransitions + 1
    /\ \A i \in DOMAIN transitions :
         transitions[i].source \in Envelopes /\ transitions[i].target \in Envelopes
    /\ active \in [flags : Snapshots, authority : Authorities] \cup {Nobody}
    /\ sessions \in [Sessions -> Attempts \cup {Nobody}]
    /\ deployments \in [Contexts -> [state : DeploymentStates, row : 0 .. MaxDeployments]]
    /\ balanced \in BOOLEAN
    /\ populations \subseteq Populations /\ passed \subseteq populations

-----------------------------------------------------------------------------
Running == active # Nobody

Row(i) == transitions[i]

\* verifyTransitionParityBinding: the population an acceptance row names is of
\* its policy and flags, and was begun under the authority it started from.
verifyTransitionParityBinding(t) ==
    LET p == t.request.population IN
    /\ p \in populations /\ p.policy = t.request.policy /\ p.flags = t.target.flags
    /\ Row(p.attempt).target = t.source

\* Rows that produced the authority a row started from.
Producers(t) == {i \in DOMAIN transitions : transitions[i].target = t.source}

\* The rows that the walk of verifyParityAcceptanceInAuthorityChain visits:
\* each has exactly one producer, until the acceptance of parity is found.
Walk[n \in Nat] ==
    IF n = 0 THEN {state.transition}
    ELSE LET seen == Walk[n - 1] IN
         seen \cup
         UNION {Producers(Row(i)) : i \in {j \in seen : Row(j).target.stage # "parity_accepted"}}

verifyParityAcceptanceInAuthorityChain ==
    \/ Before(state.envelope.stage, "parity_accepted")
    \/ LET visited == Walk[Len(stages)] IN
       /\ \A i \in visited :
            IF Row(i).target.stage = "parity_accepted"
            THEN verifyTransitionParityBinding(Row(i))
            ELSE /\ Row(i).source.stage # "schema_legacy"
                 /\ Cardinality(Producers(Row(i))) = 1
       /\ \E i \in visited : Row(i).target.stage = "parity_accepted"

\* stage07.VerifyDeployment and the deployment state that startup asks for.
DeploymentAllows(s, f) ==
    s \in {"new_paper", "paper_observation"} \/ IsLive(f) =>
        /\ f.context # NoContext
        /\ deployments[f.context].state =
             (IF s \in {"new_paper", "paper_observation"} THEN "paper" ELSE f.engine)

\* Mutant: the flags of the environment need not be the persisted ones.
CanResumeAnyFlags(f) == Validate(f)

\* What Initialize demands of an existing state before it activates flags f.
CanResume(f) ==
    LET e == state.envelope IN
    /\ f = e.flags /\ f \in declared /\ Validate(f)
    /\ e = authorityEnvelope(e.stage, f, stageContextFor(e.stage, f))
    /\ state.engine = engineForStage(e.stage)
    /\ e.stage = "schema_legacy" => ~CapitalEnabled(f)
    /\ e.authority # "legacy" \/ f.ledger = "authoritative" => balanced
    /\ DeploymentAllows(e.stage, f)
    /\ verifyParityAcceptanceInAuthorityChain

Quiet(s) == [sessions EXCEPT ![s] = Nobody]

\* Initialize on a fresh database writes the bootstrap row and the state.
Bootstrap ==
    LET e == authorityEnvelope("schema_legacy", SafeFlags, NoContext) IN
    /\ ~Running /\ state = Nobody
    /\ declared' = declared \cup {SafeFlags}
    /\ transitions' = <<[source |-> e, target |-> e, deployment |-> 0,
                         request |-> SafeRequest(FALSE)]>>
    /\ state' = [envelope |-> e, transition |-> 1, engine |-> "legacy", version |-> 1]
    /\ active' = [flags |-> SafeFlags, authority |-> "legacy"]
    /\ UNCHANGED <<sessions, deployments, balanced, evidence, populations, passed>>

\* Initialize on an existing database, with flags f in the environment.
Initialize(f) ==
    /\ ~Running /\ state # Nobody /\ CanResume(f)
    /\ active' = [flags |-> f, authority |-> state.envelope.authority]
    /\ UNCHANGED <<declared, state, transitions, sessions, deployments, balanced,
                   evidence, populations, passed>>

\* The server stops; requests that had committed never activate their flags.
Stop ==
    /\ Running /\ active' = Nobody /\ sessions' = [s \in Sessions |-> Nobody]
    /\ UNCHANGED <<declared, state, transitions, deployments, balanced, evidence,
                   populations, passed>>

DeclareFlagSnapshot(f) ==
    /\ Running /\ Validate(f) /\ f \notin declared
    /\ declared' = declared \cup {f}
    /\ UNCHANGED <<state, transitions, active, sessions, deployments, balanced,
                   evidence, populations, passed>>

\* A row is bound to the snapshot, stage and context it was collected for.
DeclarePrerequisiteEvidence(k, s, f) ==
    /\ Running /\ f \in declared
    /\ [kind |-> k, target |-> s, flags |-> f, context |-> f.context] \notin evidence
    /\ evidence' = evidence \cup
         {[kind |-> k, target |-> s, flags |-> f, context |-> f.context]}
    /\ UNCHANGED <<declared, state, transitions, active, sessions, deployments,
                   balanced, populations, passed>>

BeginParityPopulation(p, f) ==
    LET new == [policy |-> p, flags |-> f, attempt |-> state.transition] IN
    /\ Running /\ f \in declared /\ f = state.envelope.flags
    /\ new \notin populations /\ Cardinality(populations) < MaxPopulations
    /\ populations' = populations \cup {new}
    /\ UNCHANGED <<declared, state, transitions, active, sessions, deployments,
                   balanced, evidence, passed>>

\* Enough observations of module Parity for EvaluateParity to accept.
ObserveParity(p) ==
    /\ Running /\ p \in populations \ passed
    /\ passed' = passed \cup {p}
    /\ UNCHANGED <<declared, state, transitions, active, sessions, deployments,
                   balanced, evidence, populations>>

\* Governance promotes or rolls back a deployment (module Governance).
ChangeDeployment(c, s) ==
    /\ deployments[c].row < MaxDeployments /\ s # deployments[c].state
    /\ deployments' = [deployments EXCEPT ![c] = [state |-> s, row |-> @.row + 1]]
    /\ UNCHANGED <<declared, state, transitions, active, sessions, balanced,
                   evidence, populations, passed>>

\* The ledger falls out of balance or is repaired (module Ledger).
ChangeLedger ==
    /\ balanced' = ~balanced
    /\ UNCHANGED <<declared, state, transitions, active, sessions, deployments,
                   evidence, populations, passed>>

-----------------------------------------------------------------------------
\* verifyPrerequisite, for the prerequisite named k of request r.
verifyPrerequisite(k, r) ==
    CASE k = "schema_deployed" -> TRUE
      [] k \in {"ledger_compare_clean", "ledger_reconciled"} -> balanced
      [] k = "parity_threshold_passed" ->
           /\ r.population \in passed
           /\ r.population.policy = r.policy /\ r.population.flags = r.flags
           /\ r.population.attempt = state.transition
      [] k = "stage07_paper" -> r.context # NoContext /\ deployments[r.context].state = "paper"
      [] k = "stage07_exact" -> r.context # NoContext /\ deployments[r.context].state = "limited_live"
      \* Governance lets no deployment become live without an approval.
      [] k = "human_approved" -> r.context # NoContext /\ deployments[r.context].state # "none"
      [] OTHER -> [kind |-> k, target |-> r.to, flags |-> r.flags,
                   context |-> r.context] \in evidence

\* The deployment row that transitionRequestDigest binds a request to.
BoundDeployment(r) == IF r.context = NoContext THEN 0 ELSE deployments[r.context].row

\* transitionRequestDigest reads every row that a request names.
RowsExist(r) ==
    /\ r.flags \in declared
    /\ r.population \in populations \cup {Nobody}
    /\ r.context # NoContext => deployments[r.context].state # "none"

\* Row i is the latest into a stage: the one that a rollback must restore.
LatestInto(i, s) ==
    /\ Row(i).target.stage = s
    /\ \A j \in DOMAIN transitions : Row(j).target.stage = s => j <= i

RollbackAllowed(r) ==
    /\ Before(r.to, state.envelope.stage)
    /\ r.to # "schema_legacy" =>
         \E i \in DOMAIN transitions : LatestInto(i, r.to) /\ Row(i).target.flags = r.flags

\* Mutant: a stage may be skipped.
TransitionAllowedSkipping(r) ==
    /\ IF r.rollback THEN RollbackAllowed(r) ELSE Before(state.envelope.stage, r.to)
    /\ Validate(r.flags) /\ validateFlagsForStage(r.flags, r.to)
    /\ \A k \in requiredPrerequisites(r.to) : verifyPrerequisite(k, r)

TransitionAllowed(r) ==
    /\ IF r.rollback THEN RollbackAllowed(r)
       ELSE stageIndex(r.to) = stageIndex(state.envelope.stage) + 1
    /\ r.to # "legacy_removal_eligible"
    /\ r.to \in {"shared_shadow", "parity_accepted"} => r.policy # Nobody
    /\ Validate(r.flags) /\ validateFlagsForStage(r.flags, r.to)
    /\ ~Before(r.to, "new_paper") => r.flags.context = r.context
    /\ \A k \in requiredPrerequisites(r.to) : verifyPrerequisite(k, r)
    /\ r.to = "limited_live" => deployments[r.context].state = "limited_live"

\* TransitionCutover up to its commit: history, state and engine setting.
CommitTransition(s, r) ==
    LET target == authorityEnvelope(r.to, r.flags, r.flags.context)
        n == Len(transitions) + 1 IN
    /\ Running /\ state # Nobody /\ sessions[s] = Nobody
    /\ RowsExist(r) /\ TransitionAllowed(r)
    /\ Len(transitions) <= MaxTransitions
    /\ r.rollback =>
         Cardinality({i \in DOMAIN transitions : Row(i).request.rollback}) < MaxRollbacks
    /\ transitions' = Append(transitions,
         [source |-> state.envelope, target |-> target, request |-> r,
          deployment |-> BoundDeployment(r)])
    /\ state' = [envelope |-> target, transition |-> n, engine |-> engineForStage(r.to),
                 version |-> state.version + 1]
    /\ sessions' = [sessions EXCEPT ![s] = n]
    /\ UNCHANGED <<declared, active, deployments, balanced, evidence, populations, passed>>

\* TransitionCutover answers a repeated request with the row it wrote then; the
\* digest of a request covers the deployment row, so that must be the same too.
ReplayTransition(s, i) ==
    /\ Running /\ sessions[s] = Nobody
    /\ RowsExist(Row(i).request) /\ Row(i).deployment = BoundDeployment(Row(i).request)
    /\ sessions' = [sessions EXCEPT ![s] = i]
    /\ UNCHANGED <<declared, state, transitions, active, deployments, balanced,
                   evidence, populations, passed>>

\* After the transaction, TransitionCutover activates the flags of its answer.
ActivateVerified(s) ==
    /\ sessions[s] # Nobody
    /\ active' = [flags |-> Row(sessions[s]).target.flags,
                  authority |-> Row(sessions[s]).target.authority]
    /\ sessions' = Quiet(s)
    /\ UNCHANGED <<declared, state, transitions, deployments, balanced, evidence,
                   populations, passed>>

-----------------------------------------------------------------------------
Init ==
    /\ declared = {} /\ state = Nobody /\ transitions = <<>> /\ active = Nobody
    /\ sessions = [s \in Sessions |-> Nobody]
    /\ deployments = [c \in Contexts |-> [state |-> "none", row |-> 0]]
    /\ balanced = TRUE /\ evidence = {} /\ populations = {} /\ passed = {}

\* A request names a policy, a population and a context only where the code
\* reads them.
Asked ==
    {Request(s, f, stageContextFor(s, f), Nobody, Nobody, b) :
        s \in Targets \ {"shared_shadow", "parity_accepted"}, f \in declared, b \in BOOLEAN}
    \cup
    {Request("shared_shadow", f, NoContext, p, Nobody, b) :
        f \in declared, p \in Policies, b \in BOOLEAN}
    \cup
    {Request("parity_accepted", f, NoContext, p, q, b) :
        f \in declared, p \in Policies, q \in populations, b \in BOOLEAN}

Next ==
    \/ Bootstrap
    \/ \E f \in Snapshots : Initialize(f) \/ DeclareFlagSnapshot(f)
    \/ Stop
    \/ \E k \in EvidenceKinds, s \in Targets, f \in declared :
         k \in requiredPrerequisites(s) /\ validateFlagsForStage(f, s)
         /\ DeclarePrerequisiteEvidence(k, s, f)
    \/ \E p \in Policies, f \in declared : BeginParityPopulation(p, f)
    \/ \E p \in populations : ObserveParity(p)
    \/ \E c \in Contexts, s \in DeploymentStates \ {"none"} : ChangeDeployment(c, s)
    \/ ChangeLedger
    \/ \E s \in Sessions, r \in Asked : CommitTransition(s, r)
    \/ \E s \in Sessions, i \in 2 .. Len(transitions) : ReplayTransition(s, i)
    \/ \E s \in Sessions : ActivateVerified(s)

Spec == Init /\ [][Next]_vars

-----------------------------------------------------------------------------
Legacy == state = Nobody \/ state.envelope.authority = "legacy"

\* Paper or live authority is earned: since the last acceptance of parity the
\* stage never fell below it, and that acceptance names a population that
\* passed, was begun under the authority it started from, and observed the
\* shadow engine with those flags.  TransitionCutover checks each step alone;
\* nothing in it looks back this far.  The authority it started from need not
\* be that of the shadow stage: research_validation takes any flags, and a
\* rollback from there to parity_accepted may rest on a population begun there.
AuthorityEarned ==
    ~Legacy =>
        \E i \in DOMAIN transitions :
            /\ transitions[i].target.stage = "parity_accepted"
            /\ \A j \in DOMAIN transitions :
                 j > i => ~Before(transitions[j].target.stage, "parity_accepted")
            /\ LET p == transitions[i].request.population IN
               /\ p \in passed /\ p.attempt = i - 1
               /\ transitions[p.attempt].target.flags = p.flags
               /\ p.flags.engine = "shadow" /\ p.flags.dual = "observe"

\* A rollback hands authority only to an envelope that was in force before, or
\* to the safe bootstrap envelope ("rollback must restore exact prior flag
\* snapshot").
RollbackRestores ==
    \A i \in DOMAIN transitions :
        transitions[i].request.rollback =>
            \E j \in 1 .. i - 1 : transitions[j].target = transitions[i].target

\* No request is needed before the last way out: whatever the ledger, the
\* deployments and the evidence look like, a rollback to schema_legacy with the
\* safe snapshot is accepted from every later stage.
WayBackOpen ==
    state # Nobody /\ state.envelope.stage # "schema_legacy" =>
        RowsExist(SafeRequest(TRUE)) /\ TransitionAllowed(SafeRequest(TRUE))

\* The staged cutover keeps its promises: paper authority rests on an unbroken
\* acceptance of parity, a rollback only restores an envelope that was in force,
\* and the way back to the safe flags is open from every later stage
\* (TransitionCutover).
CutoverIsEarned == TypeOK /\ AuthorityEarned /\ RollbackRestores /\ WayBackOpen

\* A server that has just started trades by the authority the database holds:
\* no later step but a transition's own activation changes it.
OnlyTransitionsActivate ==
    active' # active /\ active' # Nobody =>
        \/ active = Nobody /\ active'.flags = state'.envelope.flags
           /\ active'.authority = state'.envelope.authority
        \/ \E s \in Sessions : sessions[s] # Nobody /\ sessions'[s] = Nobody

\* "The effective authority is the integrity-verified persisted cutover state
\* plus its exact immutable flag snapshot": with no request under way, the
\* flags that executeShortlistTradesRouted routes by are the persisted ones.
EffectiveIsPersisted ==
    Running /\ (\A s \in Sessions : sessions[s] = Nobody) =>
        active.flags = state.envelope.flags
=============================================================================
