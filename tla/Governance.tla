------------------------------ MODULE Governance ------------------------------
(***************************************************************************)
(* internal/governance/service.go: promotion of a strategy or model through*)
(* research, shadow, paper, limited_live and full_live, and its rollback.  *)
(*                                                                         *)
(* Transition and Rollback read the clock first and then run a transaction:*)
(* they look their idempotency key up, lock and read the deployment, and   *)
(* commit.  Transition also holds an advisory lock on its context from the *)
(* beginning, because a context without a deployment has no row to lock.   *)
(* Approve and RecordMonitoringEvidence run without a transaction, but only*)
(* insert one immutable row made of what they read: they are one action    *)
(* each, with the clock they read earlier as a parameter.                  *)
(*                                                                         *)
(* Approvals and monitoring evidence are known by a digest of their        *)
(* content, so a request can only name a row that already exists, and reads*)
(* the clock after the call that made the row did.                         *)
(***************************************************************************)
EXTENDS Integers, FiniteSets

CONSTANTS
    Experiments,        \* immutable manifests, each with its one evidence
    ContextOf,          \* [Experiments -> context]: authorityContext of a manifest
    ModelContexts,      \* contexts "model:<version>"; the others are strategies
    Passed,             \* experiments whose evidence and ML evidence passed
    Confirmatory,       \* experiments that are not exploratory
    Quarantined,        \* experiments whose model class cannot hold authority
    RequiredElapsed,    \* [Experiments -> [States -> Nat]]
    Fallbacks,          \* fallback versions; NoFallback is the empty one
    NoFallback,
    Asked,              \* bound: target states that clients ask for
    Found,              \* bound: verdicts that monitoring comes to
    Keys,               \* idempotency keys of transitions and rollbacks
    ApprovalKeys,       \* idempotency keys of approvals
    None,               \* an absent key or row
    ApprovalLife,       \* the longest approval: 7 days
    EvidenceLife,       \* the oldest evidence a rollback accepts: 24 hours
    Sessions,           \* concurrent requests
    MaxTime, MaxMonitors  \* bounds: clock, monitoring rows

Live == {"paper", "limited_live", "full_live"}

States == {"research", "shadow", "rollback"} \cup Live

Contexts == {ContextOf[e] : e \in Experiments}

\* What the instances have to satisfy.
GovernanceAssumption ==
    /\ Passed \subseteq Experiments /\ Confirmatory \subseteq Experiments
    /\ Quarantined \subseteq Experiments
    /\ RequiredElapsed \in [Experiments -> [States -> Nat]]
    /\ \A e \in Confirmatory, t \in Live : RequiredElapsed[e][t] > 0   \* manifest.go
    /\ Asked \subseteq States /\ Found \subseteq {"incomplete", "calm", "breach"}
    /\ None \notin Keys \cup ApprovalKeys \cup Contexts \cup Experiments
    /\ ApprovalLife \in Nat /\ EvidenceLife \in Nat
    /\ MaxTime \in Nat /\ MaxMonitors \in Nat

VARIABLES
    now,            \* the clock of the service
    approvals,      \* governance_approvals, by idempotency key
    monitors,       \* governance_monitoring_evidences
    transitions,    \* governance_transitions, by idempotency key
    deployments,    \* governance_deployments, by context
    settings,       \* settings active_model_version and model_rollout_state
    sessions        \* control state of the requests

vars == <<now, approvals, monitors, transitions, deployments, settings, sessions>>

-----------------------------------------------------------------------------
Times == 0 .. MaxTime

Approvals == [exp : Experiments, target : States, source : States, sourceAt : Times,
              sourceRow : Keys, at : Times, expires : Nat]

NoApproval == [exp |-> None]

\* Fewer observations than expected, or all of them with or without a metric
\* beyond a rollback threshold.
Verdicts == {"incomplete", "calm", "breach"}

Monitors == [exp : Experiments, row : Keys, start : Times, end : Times,
             found : Verdicts]

NoMonitor == [exp |-> None]

\* prev is history: the transition whose deployment this one replaced.
Transitions == [exp : Experiments, from : States \cup {"none"}, to : States, at : Times,
                approval : ApprovalKeys \cup {None}, monitor : Monitors \cup {NoMonitor},
                fallback : Fallbacks, prev : Keys \cup {None}]

NoTransition == [exp |-> None]

Deployments == [state : States \cup {"none"}, exp : Experiments \cup {None},
                fallback : Fallbacks \cup {NoFallback}, since : Times, row : Keys \cup {None}]

NoDeployment == [state |-> "none", exp |-> None, fallback |-> NoFallback, since |-> 0,
                 row |-> None]

Requests == [op : {"transition", "rollback"}, key : Keys, exp : Experiments, target : States,
             approval : ApprovalKeys \cup {None}, monitor : Monitors \cup {NoMonitor},
             fallback : Fallbacks]

Resting == [pc |-> "idle"]

Open(pc, r, at, cur) == [pc |-> pc, req |-> r, at |-> at, cur |-> cur]

Context(r) == ContextOf[r.exp]

Move(s, to) == sessions' = [sessions EXCEPT ![s] = to]

-----------------------------------------------------------------------------
\* legal: the only successor of a state, the empty one included.
legal(from, to) ==
    <<from, to>> \in {<<"none", "research">>, <<"research", "shadow">>, <<"shadow", "paper">>,
                      <<"paper", "limited_live">>, <<"limited_live", "full_live">>}

\* Approve: the evidence passed, the study is confirmatory, the expiry is
\* bounded, and the approval is bound to the deployment it read.
Approve(k, e, target, at, expires) ==
    LET source == deployments[ContextOf[e]]
    IN  /\ e \in Passed \cap Confirmatory
        /\ at <= now
        /\ expires > at /\ expires <= at + ApprovalLife
        /\ source.state # "none" /\ at >= source.since
        /\ approvals[k] = NoApproval
        /\ approvals' = [approvals EXCEPT ![k] =
              [exp |-> e, target |-> target, source |-> source.state,
               sourceAt |-> source.since, sourceRow |-> source.row,
               at |-> at, expires |-> expires]]
        /\ UNCHANGED <<now, monitors, transitions, deployments, settings, sessions>>

RecordMonitoringEvidence(e, start, end, found) ==
    LET deployment == deployments[ContextOf[e]]
    IN  /\ deployment.state # "none" /\ deployment.exp = e
        /\ start >= deployment.since /\ end > start /\ end <= now
        /\ Cardinality(monitors) < MaxMonitors
        /\ monitors' = monitors \cup {[exp |-> e, row |-> deployment.row, start |-> start,
                                       end |-> end, found |-> found]}
        /\ UNCHANGED <<now, approvals, transitions, deployments, settings, sessions>>

-----------------------------------------------------------------------------
(* Transition and Rollback.                                                *)

Valid(r) ==
    IF r.op = "transition"
    THEN r.target # "rollback" /\ (r.target # "research" => r.exp \in Passed)
    ELSE r.target = "rollback" /\ r.fallback # NoFallback /\ r.monitor # NoMonitor

\* pg_advisory_xact_lock on the context of a transition.
HoldsContext(s, c) ==
    /\ sessions[s].pc \in {"checked", "locked"}
    /\ sessions[s].req.op = "transition" /\ Context(sessions[s].req) = c

\* SELECT ... FOR UPDATE on a deployment that exists.
HoldsRow(s, c) ==
    /\ sessions[s].pc = "locked" /\ sessions[s].cur.state # "none"
    /\ Context(sessions[s].req) = c

\* A request that read the clock at a time when its rows existed.
Known(r, at) ==
    /\ at <= now
    /\ r.approval # None => approvals[r.approval] # NoApproval /\ approvals[r.approval].at <= at
    /\ r.monitor # NoMonitor => r.monitor.end <= at

\* Mutant: the context is not locked, as in Rollback.
CheckUnlocked(s, r, at) ==
    /\ sessions[s].pc = "idle"
    /\ Valid(r) /\ Known(r, at)
    /\ transitions[r.key] = NoTransition
    /\ Move(s, Open("checked", r, at, NoDeployment))
    /\ UNCHANGED <<now, approvals, monitors, transitions, deployments, settings>>

\* The first steps of a request: the context's lock and a new key.  A known
\* key is answered from its row, or refused if the request differs from it.
Check(s, r, at) ==
    /\ sessions[s].pc = "idle"
    /\ Valid(r) /\ Known(r, at)
    /\ r.op = "transition" => \A t \in Sessions : ~HoldsContext(t, Context(r))
    /\ transitions[r.key] = NoTransition
    /\ Move(s, Open("checked", r, at, NoDeployment))
    /\ UNCHANGED <<now, approvals, monitors, transitions, deployments, settings>>

Lock(s) ==
    LET c == Context(sessions[s].req)
    IN  /\ sessions[s].pc = "checked"
        /\ \A t \in Sessions : ~HoldsRow(t, c)
        /\ Move(s, [sessions[s] EXCEPT !.pc = "locked", !.cur = deployments[c]])
        /\ UNCHANGED <<now, approvals, monitors, transitions, deployments, settings>>

\* Mutant: the approval is not bound to the deployment it was given for.
ApprovedElsewhere(s) ==
    LET r == sessions[s].req
        a == approvals[r.approval]
    IN  /\ r.approval # None
        /\ a.exp = r.exp /\ a.target = r.target /\ a.expires > sessions[s].at

\* The approval is for this request, unexpired, and was given for the
\* deployment that is current now.
Approved(s) ==
    LET r == sessions[s].req
        a == approvals[r.approval]
    IN  /\ r.approval # None
        /\ a.exp = r.exp /\ a.target = r.target /\ a.expires > sessions[s].at
        /\ a.source = sessions[s].cur.state /\ a.sourceAt = sessions[s].cur.since

\* Mutant: evidence of an earlier deployment is accepted.
BoundToAny(s) ==
    LET m == sessions[s].req.monitor
    IN  /\ m # NoMonitor
        /\ m.end <= sessions[s].at /\ m.found # "incomplete"

\* Monitoring evidence of the experiment, about the current deployment.
Bound(s) ==
    LET m == sessions[s].req.monitor
    IN  /\ m # NoMonitor
        /\ m.exp = sessions[s].req.exp /\ m.row = sessions[s].cur.row
        /\ m.start >= sessions[s].cur.since /\ m.end <= sessions[s].at /\ m.found # "incomplete"

Elapsed(s) ==
    LET r == sessions[s].req
        required == RequiredElapsed[r.exp][r.target]
    IN  required > 0 => Bound(s) /\ r.monitor.end - r.monitor.start >= required

TransitionAccepted(s) ==
    LET r == sessions[s].req
        cur == sessions[s].cur
    IN  /\ legal(cur.state, r.target)
        /\ cur.state # "none" => Approved(s)
        /\ r.target \in Live => r.exp \notin Quarantined
        /\ Elapsed(s)

\* The experiment and the fallback are those that were deployed, and fresh,
\* complete evidence about the current deployment crossed a threshold.
RollbackAccepted(s) ==
    LET r == sessions[s].req
        cur == sessions[s].cur
    IN  /\ cur.state # "none"
        /\ r.exp = cur.exp /\ r.fallback = cur.fallback
        /\ Bound(s) /\ sessions[s].at - r.monitor.end <= EvidenceLife /\ r.monitor.found = "breach"

\* Mutant: the CHECK constraint admits every state.
StorableFromAny(s) ==
    transitions[sessions[s].req.key] = NoTransition

\* What the table admits: a new key, and from_state is never rollback.
Storable(s) ==
    /\ transitions[sessions[s].req.key] = NoTransition
    /\ sessions[s].cur.state # "rollback"

Accepted(s) ==
    /\ IF sessions[s].req.op = "transition" THEN TransitionAccepted(s) ELSE RollbackAccepted(s)
    /\ Storable(s)

\* Mutant: a rollback leaves the settings to the next promotion.
ProjectionOfPromotions(r) ==
    IF Context(r) \notin ModelContexts \/ r.target \in {"research", "rollback"} THEN settings
    ELSE [version |-> Context(r), state |-> r.target]

\* writeModelAuthorityProjection: a model's promotion, or the fallback of its
\* rollback; research has no authority to project.
Projection(r) ==
    IF Context(r) \notin ModelContexts \/ r.target = "research" THEN settings
    ELSE [version |-> IF r.op = "rollback" THEN r.fallback ELSE Context(r), state |-> r.target]

\* The monitoring evidence a row records: a transition only its elapsed one.
Cited(r) ==
    IF r.op = "transition" /\ RequiredElapsed[r.exp][r.target] = 0 THEN NoMonitor ELSE r.monitor

Commit(s) ==
    LET r == sessions[s].req
        cur == sessions[s].cur
    IN  /\ sessions[s].pc = "locked"
        /\ IF Accepted(s)
           THEN /\ transitions' = [transitions EXCEPT ![r.key] =
                      [exp |-> r.exp, from |-> cur.state, to |-> r.target,
                       at |-> sessions[s].at, approval |-> r.approval,
                       monitor |-> Cited(r), fallback |-> r.fallback, prev |-> cur.row]]
                /\ deployments' = [deployments EXCEPT ![Context(r)] =
                      [state |-> r.target, exp |-> r.exp, fallback |-> r.fallback,
                       since |-> sessions[s].at, row |-> r.key]]
                /\ settings' = Projection(r)
           ELSE UNCHANGED <<transitions, deployments, settings>>
        /\ Move(s, Resting)
        /\ UNCHANGED <<now, approvals, monitors>>

\* The connection or the process dies: the transaction is rolled back.
Abort(s) ==
    /\ sessions[s].pc # "idle"
    /\ Move(s, Resting)
    /\ UNCHANGED <<now, approvals, monitors, transitions, deployments, settings>>

Tick ==
    /\ now < MaxTime
    /\ now' = now + 1
    /\ UNCHANGED <<approvals, monitors, transitions, deployments, settings, sessions>>

-----------------------------------------------------------------------------
Init ==
    /\ now = 0
    /\ approvals = [k \in ApprovalKeys |-> NoApproval]
    /\ monitors = {}
    /\ transitions = [k \in Keys |-> NoTransition]
    /\ deployments = [c \in Contexts |-> NoDeployment]
    /\ settings = [version |-> None, state |-> "shadow"]    \* the seeded model has no context
    /\ sessions = [s \in Sessions |-> Resting]

\* What a client that knows the tables may ask for.
Transition(s) ==
    \E at \in Times, k \in Keys, e \in Experiments, t \in Asked, f \in Fallbacks,
       a \in ApprovalKeys \cup {None}, m \in monitors \cup {NoMonitor} :
       Check(s, [op |-> "transition", key |-> k, exp |-> e, target |-> t, approval |-> a,
                 monitor |-> m, fallback |-> f], at)

Rollback(s) ==
    \E at \in Times, k \in Keys, e \in Experiments, f \in Fallbacks, m \in monitors :
       Check(s, [op |-> "rollback", key |-> k, exp |-> e, target |-> "rollback",
                 approval |-> None, monitor |-> m, fallback |-> f], at)

Next ==
    \/ Tick
    \/ \E s \in Sessions :
          Transition(s) \/ Rollback(s) \/ Lock(s) \/ Commit(s) \/ Abort(s)
    \/ \E k \in ApprovalKeys, e \in Experiments, t \in Asked, at \in Times,
          x \in 1 .. MaxTime + ApprovalLife : Approve(k, e, t, at, x)
    \/ \E e \in Experiments, start, end \in Times, found \in Found :
          RecordMonitoringEvidence(e, start, end, found)

Spec == Init /\ [][Next]_vars

-----------------------------------------------------------------------------
(* Properties.                                                             *)

\* Every row names rows that exist in the form the service writes them, and a
\* session past its first step holds a complete request.
TypeOK ==
    /\ now \in Times
    /\ approvals \in [ApprovalKeys -> Approvals \cup {NoApproval}]
    /\ monitors \subseteq Monitors
    /\ transitions \in [Keys -> Transitions \cup {NoTransition}]
    /\ deployments \in [Contexts -> Deployments]
    /\ settings \in [version : ModelContexts \cup Fallbacks \cup {None}, state : States]
    /\ sessions \in [Sessions -> {Resting} \cup
          [pc : {"checked", "locked"}, req : Requests, at : Times, cur : Deployments]]

Committed == {k \in Keys : transitions[k] # NoTransition}

\* However requests race, one transition leaves each of a context's states, the
\* first one starts it, and the deployment is the last.
LinearHistory ==
    \A k \in Committed :
       LET t == transitions[k]
           c == Context(t)
       IN  /\ \A l \in Committed : Context(transitions[l]) = c /\ transitions[l].from = t.from => l = k
           /\ t.prev = None <=> t.from = "none"
           /\ t.prev # None => transitions[t.prev].to = t.from /\ Context(transitions[t.prev]) = c
           /\ deployments[c].row = k \/ \E l \in Committed : transitions[l].prev = k

\* A context has one history, of well-formed rows (Transition, Rollback).
OneHistory == TypeOK /\ LinearHistory

\* Every promotion was approved by a person who looked at the very deployment it
\* replaced, for evidence that passed, and the approval had not expired.
ApprovedInPlace ==
    \A k \in Committed :
       LET t == transitions[k]
           a == approvals[t.approval]
       IN  t.to \notin {"research", "rollback"} =>
              /\ t.approval # None
              /\ a.sourceRow = t.prev /\ a.exp = t.exp /\ a.target = t.to
              /\ t.exp \in Passed \cap Confirmatory
              /\ a.expires > t.at

\* No live stage is entered before the stage below it has lasted, and was
\* observed, for as long as the manifest demands.
StagesLast ==
    \A k \in Committed :
       LET t == transitions[k]
       IN  t.to \in Live => t.at - transitions[t.prev].at >= RequiredElapsed[t.exp][t.to]

\* A promotion is earned: approved in place, after its stage lasted (Transition).
PromotionsAreEarned == ApprovedInPlace /\ StagesLast

\* From shadow on a context keeps its experiment: other evidence for the same
\* version cannot take over a deployment that it has not been observed in
\* ("Policy/version changes create new experiment context rather than rewriting
\* history", stage-07-validation-governance.md).
ExperimentKept ==
    \A k \in Committed :
       LET t == transitions[k]
       IN  t.to \in Live \cup {"rollback"} => transitions[t.prev].exp = t.exp

\* A rolled back context stays rolled back, on the fallback that was configured
\* when it was promoted: what a step may do to a deployment.
KeepsRollback ==
    \A c \in Contexts :
       /\ deployments[c].state = "rollback" => deployments'[c] = deployments[c]
       /\ deployments'[c].state = "rollback" => deployments'[c].fallback = deployments[c].fallback

\* No request that races with a rollback, or comes later, undoes it (Rollback and
\* the CHECK on from_state).
RollbackIsFinal == [][KeepsRollback]_vars

\* The settings the trading loop reads give a model only the authority of the
\* state its own deployment is in, whatever other models do meanwhile: after a
\* rollback no setting names the model that was rolled back.
SettingIsDeployed ==
    settings.version \in Contexts /\ settings.state # "rollback" =>
       deployments[settings.version].state = settings.state
=============================================================================
