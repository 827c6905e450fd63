--------------------------- MODULE GovernanceProofs ---------------------------
(***************************************************************************)
(* The governance service keeps one approved, observed and ordered history *)
(* per context, for every set of experiments, keys and concurrent requests *)
(* and every clock.                                                        *)
(***************************************************************************)
EXTENDS Governance, TLAPS

\* How far a state is along the only path there is; rollback ends every path.
Rank(state) ==
    IF state = "none" THEN 0 ELSE IF state = "research" THEN 1 ELSE
    IF state = "shadow" THEN 2 ELSE IF state = "paper" THEN 3 ELSE
    IF state = "limited_live" THEN 4 ELSE IF state = "full_live" THEN 5 ELSE 6

\* A request past its first step is a valid one and cites evidence that exists.
Requested ==
    \A s \in Sessions : sessions[s].pc # "idle" =>
        /\ Valid(sessions[s].req)
        /\ sessions[s].req.monitor \in monitors \cup {NoMonitor}

\* The advisory lock and the row lock exclude each other's sessions.
Exclusive ==
    \A s, t \in Sessions : \A c \in Contexts : s # t =>
        /\ ~(HoldsContext(s, c) /\ HoldsContext(t, c))
        /\ ~(HoldsRow(s, c) /\ HoldsRow(t, c))

\* What a session read under its lock is still so when it commits.  A rollback
\* that found no deployment holds nothing, and will be refused.
LockedIsCurrent ==
    \A s \in Sessions :
        sessions[s].pc = "locked" /\ (sessions[s].cur.state # "none" \/ sessions[s].req.op = "transition")
            => sessions[s].cur = deployments[Context(sessions[s].req)]

\* A deployment is what its transition made it.
Deployed ==
    \A c \in Contexts :
        IF deployments[c].state = "none" THEN deployments[c].row = None
        ELSE /\ deployments[c].row \in Committed
             /\ Context(transitions[deployments[c].row]) = c
             /\ transitions[deployments[c].row].to = deployments[c].state
             /\ transitions[deployments[c].row].exp = deployments[c].exp
             /\ transitions[deployments[c].row].at = deployments[c].since

\* Every transition left a state behind the deployment's, by the only way.
Ordered ==
    \A k \in Committed :
        /\ Rank(transitions[k].from) < Rank(deployments[Context(transitions[k])].state)
        /\ IF transitions[k].to = "rollback" THEN transitions[k].from # "none"
           ELSE legal(transitions[k].from, transitions[k].to)
        /\ transitions[k].prev # None => transitions[k].prev \in Committed

\* Approvals and monitoring rows were made about a transition that is recorded.
Sourced ==
    \A k \in ApprovalKeys : approvals[k] # NoApproval =>
        /\ approvals[k].exp \in Passed \cap Confirmatory
        /\ approvals[k].sourceRow \in Committed
        /\ transitions[approvals[k].sourceRow].to = approvals[k].source
        /\ Context(transitions[approvals[k].sourceRow]) = Context(approvals[k])

Observed ==
    \A m \in monitors : m.row \in Committed /\ transitions[m.row].exp = m.exp

\* Only a model has authority in the settings, or nothing has.
OnlyModels == settings.state # "rollback" => settings.version \in ModelContexts \cup {None}

\* The tables, typed.
Tables ==
    /\ now \in Times
    /\ approvals \in [ApprovalKeys -> Approvals \cup {NoApproval}]
    /\ monitors \subseteq Monitors
    /\ transitions \in [Keys -> Transitions \cup {NoTransition}]
    /\ deployments \in [Contexts -> Deployments]
    /\ settings \in [version : ModelContexts \cup Fallbacks \cup {None}, state : States]

Busy == [pc : {"checked", "locked"}, req : Requests, at : Times, cur : Deployments]

\* What the tables say about one another, and the sessions about the tables.
History ==
    /\ Deployed /\ Ordered /\ Sourced /\ Observed /\ OnlyModels
    /\ LinearHistory /\ PromotionsAreEarned /\ ExperimentKept /\ SettingIsDeployed

Locks ==
    /\ sessions \in [Sessions -> {Resting} \cup Busy]
    /\ Requested /\ Exclusive /\ LockedIsCurrent

IInv == Tables /\ History /\ Locks

-----------------------------------------------------------------------------
LEMMA InvImplies ==
    ASSUME IInv
    PROVE  TypeOK /\ LinearHistory /\ PromotionsAreEarned /\ ExperimentKept /\ SettingIsDeployed
  BY DEF IInv, Tables, History, Locks, Busy, TypeOK

LEMMA ContextOfExperiment == \A e \in Experiments : ContextOf[e] \in Contexts
  BY DEF Contexts

\* A session past its first step has a typed request.
LEMMA BusySession ==
    ASSUME Locks, NEW s \in Sessions, sessions[s].pc # "idle"
    PROVE  /\ sessions[s] \in Busy /\ sessions[s].req \in Requests
           /\ sessions[s].req.exp \in Experiments /\ Context(sessions[s].req) \in Contexts
           /\ sessions[s].at \in Times /\ sessions[s].cur \in Deployments
  BY ContextOfExperiment DEF Locks, Busy, Resting, Requests, Context

LEMMA HistoryUnchanged ==
    ASSUME History, UNCHANGED <<approvals, monitors, transitions, deployments, settings>>
    PROVE  History'
<1>1. Deployed' /\ Ordered' /\ Sourced' /\ Observed' /\ OnlyModels'
  BY DEF History, Deployed, Ordered, Sourced, Observed, OnlyModels, Committed
<1>2. LinearHistory' /\ ExperimentKept' /\ SettingIsDeployed'
  BY DEF History, LinearHistory, ExperimentKept, SettingIsDeployed, Committed
<1>3. PromotionsAreEarned'
  BY DEF History, PromotionsAreEarned, ApprovedInPlace, StagesLast, Committed
<1> QED BY <1>1, <1>2, <1>3 DEF History

LEMMA LocksUnchanged ==
    ASSUME Locks, UNCHANGED <<sessions, deployments>>, monitors \subseteq monitors'
    PROVE  Locks'
  BY DEF Locks, Requested, Exclusive, LockedIsCurrent, HoldsContext, HoldsRow, Valid

-----------------------------------------------------------------------------
(* Sessions.                                                               *)

\* A session that ends gives up its locks.
LEMMA RestLocks ==
    ASSUME Locks, NEW s \in Sessions, Move(s, Resting), UNCHANGED <<deployments, monitors>>
    PROVE  Locks'
<1>1. /\ sessions'[s] = Resting /\ Resting.pc = "idle"
      /\ \A t \in Sessions : t # s => sessions'[t] = sessions[t]
      /\ sessions' \in [Sessions -> {Resting} \cup Busy]
  BY DEF Locks, Move, Resting
<1>2. \A t \in Sessions, c \in Contexts :
         /\ HoldsContext(t, c)' => HoldsContext(t, c)
         /\ HoldsRow(t, c)' => HoldsRow(t, c)
  BY <1>1 DEF HoldsContext, HoldsRow
<1>3. Requested'
  BY <1>1 DEF Locks, Requested, Valid
<1>4. Exclusive'
  BY <1>2 DEF Locks, Exclusive
<1>5. LockedIsCurrent'
  BY <1>1 DEF Locks, LockedIsCurrent
<1> QED BY <1>1, <1>3, <1>4, <1>5 DEF Locks

LEMMA CheckLocks ==
    ASSUME Locks, NEW s \in Sessions, NEW r \in Requests, NEW at \in Times,
           NoDeployment \in Deployments,
           r.monitor \in monitors \cup {NoMonitor}, Check(s, r, at)
    PROVE  Locks'
<1> DEFINE new == Open("checked", r, at, NoDeployment)
<1>0. Valid(r) /\ UNCHANGED <<deployments, monitors>> /\ sessions' = [sessions EXCEPT ![s] = new]
  BY DEF Check, Move
<1>1. /\ new \in Busy /\ new.pc = "checked" /\ new.req = r
  BY DEF Open, Busy
<1> HIDE DEF new
<1>2. /\ sessions'[s] = new /\ \A t \in Sessions : t # s => sessions'[t] = sessions[t]
      /\ sessions' \in [Sessions -> {Resting} \cup Busy]
  BY <1>0, <1>1 DEF Locks
<1>3. Requested'
  BY <1>0, <1>1, <1>2 DEF Locks, Requested, Valid
<1>4. \A t \in Sessions : t # s =>
         \A c \in Contexts : /\ HoldsContext(t, c)' <=> HoldsContext(t, c)
                             /\ HoldsRow(t, c)' <=> HoldsRow(t, c)
  BY <1>2 DEF HoldsContext, HoldsRow
<1>5. \A c \in Contexts : /\ ~HoldsRow(s, c)'
                          /\ HoldsContext(s, c)' => \A t \in Sessions : ~HoldsContext(t, c)
  BY <1>1, <1>2 DEF Check, HoldsContext, HoldsRow
<1>6. Exclusive'
  BY <1>4, <1>5 DEF Locks, Exclusive
<1>7. LockedIsCurrent'
  BY <1>0, <1>1, <1>2 DEF Locks, LockedIsCurrent
<1> QED BY <1>2, <1>3, <1>6, <1>7 DEF Locks

LEMMA LockLocks ==
    ASSUME Locks, Tables, NEW s \in Sessions, Lock(s)
    PROVE  Locks'
<1> DEFINE c0 == Context(sessions[s].req)
           new == [sessions[s] EXCEPT !.pc = "locked", !.cur = deployments[c0]]
<1>0. /\ sessions[s].pc = "checked" /\ UNCHANGED <<deployments, monitors>>
      /\ sessions' = [sessions EXCEPT ![s] = new]
      /\ \A t \in Sessions : ~HoldsRow(t, c0)
  BY DEF Lock, Move
<1>1. c0 \in Contexts /\ sessions[s] \in Busy
  BY <1>0, BusySession
<1>2. /\ new \in Busy /\ new.pc = "locked" /\ new.req = sessions[s].req
      /\ new.cur = deployments[c0]
  BY <1>1 DEF Busy, Tables
<1> HIDE DEF new
<1>3. /\ sessions'[s] = new /\ \A t \in Sessions : t # s => sessions'[t] = sessions[t]
      /\ sessions' \in [Sessions -> {Resting} \cup Busy]
  BY <1>0, <1>2 DEF Locks
<1>4. Requested'
  BY <1>0, <1>2, <1>3 DEF Locks, Requested, Valid
<1>5. \A t \in Sessions, c \in Contexts : HoldsContext(t, c)' => HoldsContext(t, c)
  BY <1>0, <1>2, <1>3 DEF HoldsContext
<1>6. \A c \in Contexts : /\ \A t \in Sessions : t # s => (HoldsRow(t, c)' <=> HoldsRow(t, c))
                          /\ HoldsRow(s, c)' => c = c0
  BY <1>2, <1>3 DEF HoldsRow
<1>7. Exclusive'
  BY <1>0, <1>5, <1>6 DEF Locks, Exclusive
<1>8. LockedIsCurrent'
  BY <1>0, <1>2, <1>3 DEF Locks, LockedIsCurrent
<1> QED BY <1>3, <1>4, <1>7, <1>8 DEF Locks

-----------------------------------------------------------------------------
(* Approvals and monitoring evidence.                                      *)

LEMMA ApproveHistory ==
    ASSUME GovernanceAssumption, Tables, History,
           NEW k \in ApprovalKeys, NEW e \in Experiments, NEW target \in States,
           NEW at \in Times, NEW expires \in Nat, Approve(k, e, target, at, expires)
    PROVE  Tables' /\ History'
<1> DEFINE c == ContextOf[e]
           new == [exp |-> e, target |-> target, source |-> deployments[c].state,
                   sourceAt |-> deployments[c].since, sourceRow |-> deployments[c].row,
                   at |-> at, expires |-> expires]
<1>0. /\ approvals[k] = NoApproval /\ approvals' = [approvals EXCEPT ![k] = new]
      /\ e \in Passed \cap Confirmatory /\ deployments[c].state # "none"
      /\ UNCHANGED <<now, monitors, transitions, deployments, settings, sessions>>
  BY DEF Approve
<1>1. c \in Contexts /\ deployments[c] \in Deployments
  BY ContextOfExperiment DEF Tables
<1>2. /\ deployments[c].row \in Committed /\ Context(transitions[deployments[c].row]) = c
      /\ transitions[deployments[c].row].to = deployments[c].state
  BY <1>0, <1>1 DEF History, Deployed
<1>3. new \in Approvals /\ deployments[c].row \in Keys
  BY <1>0, <1>1, <1>2 DEF Approvals, Deployments, Committed
<1>4. /\ new.exp = e /\ new.source = deployments[c].state /\ new.sourceRow = deployments[c].row
      /\ Context(new) = c
  BY DEF Context
<1> HIDE DEF new
<1>5. /\ approvals'[k] = new /\ \A l \in ApprovalKeys : l # k => approvals'[l] = approvals[l]
      /\ approvals' \in [ApprovalKeys -> Approvals \cup {NoApproval}]
  BY <1>0, <1>3 DEF Tables
<1>6. Tables'
  BY <1>0, <1>5 DEF Tables
<1>7. Sourced'
  BY <1>0, <1>2, <1>4, <1>5 DEF History, Sourced, Committed, Context
<1>8. ApprovedInPlace'
  <2> SUFFICES ASSUME NEW l \in Committed', transitions'[l].to \notin {"research", "rollback"}
               PROVE  /\ transitions'[l].approval # None
                      /\ approvals'[transitions'[l].approval].sourceRow = transitions'[l].prev
                      /\ approvals'[transitions'[l].approval].exp = transitions'[l].exp
                      /\ approvals'[transitions'[l].approval].target = transitions'[l].to
                      /\ transitions'[l].exp \in Passed \cap Confirmatory
                      /\ approvals'[transitions'[l].approval].expires > transitions'[l].at
    BY DEF ApprovedInPlace
  <2> DEFINE a == transitions[l].approval
  <2>1. l \in Committed /\ transitions' = transitions
    BY <1>0 DEF Committed
  <2>2. /\ a # None /\ approvals[a].sourceRow = transitions[l].prev
        /\ approvals[a].exp = transitions[l].exp /\ approvals[a].target = transitions[l].to
        /\ transitions[l].exp \in Passed \cap Confirmatory
        /\ approvals[a].expires > transitions[l].at
    BY <2>1 DEF History, PromotionsAreEarned, ApprovedInPlace
  <2>3. a \in ApprovalKeys /\ a # k
    <3>1. transitions[l] \in Transitions
      BY <2>1 DEF Tables, Committed
    <3>2. a \in ApprovalKeys \cup {None} /\ transitions[l].exp \in Experiments
      BY <3>1 DEF Transitions
    <3>3. NoApproval.exp \notin Experiments
      BY DEF NoApproval, GovernanceAssumption
    <3> QED BY <1>0, <2>2, <3>2, <3>3
  <2> QED BY <1>5, <2>1, <2>2, <2>3
<1>9. Deployed' /\ Ordered' /\ Observed' /\ OnlyModels' /\ LinearHistory' /\ StagesLast'
      /\ ExperimentKept' /\ SettingIsDeployed'
  BY <1>0 DEF History, Deployed, Ordered, Observed, OnlyModels, LinearHistory, PromotionsAreEarned,
     StagesLast, ExperimentKept, SettingIsDeployed, Committed
<1> QED BY <1>6, <1>7, <1>8, <1>9 DEF History, PromotionsAreEarned

LEMMA MonitorHistory ==
    ASSUME Tables, History, NEW e \in Experiments, NEW start \in Times, NEW end \in Times,
           NEW found \in Verdicts, RecordMonitoringEvidence(e, start, end, found)
    PROVE  Tables' /\ History' /\ monitors \subseteq monitors'
<1> DEFINE c == ContextOf[e]
           new == [exp |-> e, row |-> deployments[c].row, start |-> start, end |-> end,
                   found |-> found]
<1>0. /\ deployments[c].state # "none" /\ deployments[c].exp = e /\ monitors' = monitors \cup {new}
      /\ UNCHANGED <<now, approvals, transitions, deployments, settings, sessions>>
  BY DEF RecordMonitoringEvidence
<1>1. deployments[c].row \in Committed /\ transitions[deployments[c].row].exp = e
  BY <1>0, ContextOfExperiment DEF History, Deployed
<1>2. new \in Monitors
  BY <1>1 DEF Monitors, Committed
<1>3. new.row = deployments[c].row /\ new.exp = e
  OBVIOUS
<1> HIDE DEF new
<1>4. Tables' /\ monitors \subseteq monitors'
  BY <1>0, <1>2 DEF Tables
<1>5. Observed'
  BY <1>0, <1>1, <1>3 DEF History, Observed, Committed
<1>6. Deployed' /\ Ordered' /\ Sourced' /\ OnlyModels' /\ LinearHistory' /\ PromotionsAreEarned'
      /\ ExperimentKept' /\ SettingIsDeployed'
  BY <1>0 DEF History, Deployed, Ordered, Sourced, OnlyModels, LinearHistory, PromotionsAreEarned,
     ApprovedInPlace, StagesLast, ExperimentKept, SettingIsDeployed, Committed
<1> QED BY <1>4, <1>5, <1>6 DEF History

-----------------------------------------------------------------------------
(* The commit.                                                             *)

LEMMA Ranked ==
    /\ \A a, b : legal(a, b) => Rank(a) < Rank(b) /\ b \notin {"none", "rollback"}
    /\ \A a \in States \cup {"none"} : a # "rollback" => Rank(a) < Rank("rollback")
    /\ \A a : Rank(a) \in Nat
  BY DEF legal, Rank, States, Live

\* legal leads to a state from one other state only.
LEMMA OneWay == \A a, b, c : legal(a, c) /\ legal(b, c) => a = b
  BY DEF legal

\* The deployment a session commits against is the current one, and the row it
\* writes is new.
LEMMA Current ==
    ASSUME GovernanceAssumption, IInv, NEW s \in Sessions, sessions[s].pc = "locked", Accepted(s)
    PROVE  /\ sessions[s].cur = deployments[Context(sessions[s].req)]
           /\ sessions[s].cur.state # "rollback"
           /\ Rank(sessions[s].cur.state) < Rank(sessions[s].req.target)
           /\ IF sessions[s].req.op = "transition"
              THEN sessions[s].req.target # "rollback" /\ TransitionAccepted(s)
              ELSE sessions[s].req.target = "rollback" /\ RollbackAccepted(s)
<1> DEFINE r == sessions[s].req
           cur == sessions[s].cur
<1>0. r \in Requests /\ cur \in Deployments /\ Valid(r) /\ sessions[s].pc # "idle"
  BY BusySession DEF IInv, Locks, Requested
<1>1. CASE r.op = "transition"
  <2>1. r.target # "rollback" /\ TransitionAccepted(s) /\ cur = deployments[Context(r)]
    BY <1>0, <1>1 DEF Valid, Accepted, IInv, Locks, LockedIsCurrent
  <2> QED BY <1>1, <2>1, Ranked DEF TransitionAccepted, Accepted, Storable
<1>2. CASE r.op # "transition"
  <2>1. r.target = "rollback" /\ RollbackAccepted(s) /\ cur.state # "none"
    BY <1>0, <1>2 DEF Valid, Accepted, RollbackAccepted
  <2>2. cur = deployments[Context(r)] /\ cur.state # "rollback"
    BY <2>1 DEF IInv, Locks, LockedIsCurrent, Accepted, Storable
  <2>3. cur.state \in States \cup {"none"}
    BY <1>0 DEF Deployments
  <2> QED BY <1>2, <2>1, <2>2, <2>3, Ranked
<1> QED BY <1>1, <1>2

\* An approval that names the current state and the time it began was given for
\* the very transition that began it: no state is entered twice.
LEMMA ApprovalIsInPlace ==
    ASSUME GovernanceAssumption, IInv, NEW s \in Sessions, sessions[s].pc = "locked", Accepted(s),
           sessions[s].cur.state # "none", Approved(s)
    PROVE  /\ sessions[s].req.approval \in ApprovalKeys
           /\ approvals[sessions[s].req.approval].sourceRow = sessions[s].cur.row
           /\ sessions[s].req.exp \in Passed \cap Confirmatory
<1> DEFINE r == sessions[s].req
           cur == sessions[s].cur
           a == approvals[r.approval]
           c == Context(r)
<1>0. r \in Requests /\ r.exp \in Experiments /\ c \in Contexts /\ sessions[s].pc # "idle"
  BY BusySession DEF IInv
<1>1. r.approval \in ApprovalKeys /\ a.exp = r.exp /\ a.source = cur.state
  BY <1>0 DEF Approved, Requests
<1>2. a # NoApproval
  BY <1>0, <1>1 DEF NoApproval, GovernanceAssumption
<1>3. /\ a.exp \in Passed \cap Confirmatory /\ a.sourceRow \in Committed
      /\ transitions[a.sourceRow].to = cur.state /\ Context(transitions[a.sourceRow]) = c
  BY <1>1, <1>2 DEF IInv, History, Sourced, Context
<1>4. cur = deployments[c] /\ cur.state # "rollback"
  BY Current
<1>5. /\ cur.row \in Committed /\ transitions[cur.row].to = cur.state
      /\ Context(transitions[cur.row]) = c
  BY <1>0, <1>4 DEF IInv, History, Deployed
<1>6. transitions[a.sourceRow].from = transitions[cur.row].from
  BY <1>3, <1>4, <1>5, OneWay DEF IInv, History, Ordered
<1>7. a.sourceRow = cur.row
  BY <1>3, <1>5, <1>6 DEF IInv, History, LinearHistory
<1> QED BY <1>1, <1>3, <1>7

\* What an accepted request writes.
LEMMA Written ==
    ASSUME GovernanceAssumption, IInv, NEW s \in Sessions, Commit(s), Accepted(s)
    PROVE  LET r == sessions[s].req
               c == Context(r)
           IN  /\ Tables'
               /\ r.key \in Keys /\ r.key \notin Committed /\ Committed' = Committed \cup {r.key}
               /\ \A l \in Committed : transitions'[l] = transitions[l]
               /\ transitions'[r.key].exp = r.exp /\ transitions'[r.key].from = deployments[c].state
               /\ transitions'[r.key].to = r.target /\ transitions'[r.key].at = sessions[s].at
               /\ transitions'[r.key].approval = r.approval
               /\ transitions'[r.key].prev = deployments[c].row
               /\ deployments'[c].state = r.target /\ deployments'[c].exp = r.exp
               /\ deployments'[c].since = sessions[s].at /\ deployments'[c].row = r.key
               /\ deployments'[c].fallback = r.fallback
               /\ \A d \in Contexts : d # c => deployments'[d] = deployments[d]
<1> DEFINE r == sessions[s].req
           c == Context(r)
           cur == sessions[s].cur
           row == [exp |-> r.exp, from |-> cur.state, to |-> r.target, at |-> sessions[s].at,
                   approval |-> r.approval, monitor |-> Cited(r), fallback |-> r.fallback,
                   prev |-> cur.row]
           dep == [state |-> r.target, exp |-> r.exp, fallback |-> r.fallback,
                   since |-> sessions[s].at, row |-> r.key]
<1>0. /\ r \in Requests /\ cur \in Deployments /\ c \in Contexts /\ sessions[s].at \in Times
      /\ r.exp \in Experiments /\ sessions[s].pc = "locked" /\ cur = deployments[c]
      /\ transitions[r.key] = NoTransition
  BY BusySession, Current DEF IInv, Commit, Accepted, Storable
<1>1. /\ transitions' = [transitions EXCEPT ![r.key] = row]
      /\ deployments' = [deployments EXCEPT ![c] = dep]
      /\ settings' = Projection(r) /\ UNCHANGED <<now, approvals, monitors>>
  BY DEF Commit
<1>2. Cited(r) \in Monitors \cup {NoMonitor}
  BY <1>0 DEF Cited, Requests
<1>3. row \in Transitions
  BY <1>0, <1>2 DEF Transitions, Requests, Deployments
<1>4. dep \in Deployments
  BY <1>0 DEF Deployments, Requests
<1>5. Projection(r) \in [version : ModelContexts \cup Fallbacks \cup {None}, state : States]
  BY <1>0 DEF Projection, Requests, IInv, Tables
<1>6. /\ row # NoTransition /\ row.exp = r.exp /\ row.from = deployments[c].state
      /\ row.to = r.target /\ row.at = sessions[s].at /\ row.approval = r.approval
      /\ row.prev = deployments[c].row
  <2>1. NoTransition.exp = None /\ r.exp # None
    BY <1>0 DEF NoTransition, GovernanceAssumption
  <2> QED BY <1>0, <2>1
<1>7. /\ dep.state = r.target /\ dep.exp = r.exp /\ dep.since = sessions[s].at /\ dep.row = r.key
      /\ dep.fallback = r.fallback
  OBVIOUS
<1>8. r.key \in Keys
  BY <1>0 DEF Requests
<1> HIDE DEF row, dep
<1>9. Tables'
  BY <1>0, <1>1, <1>3, <1>4, <1>5, <1>8 DEF IInv, Tables
<1>10. /\ transitions'[r.key] = row /\ \A l \in Keys : l # r.key => transitions'[l] = transitions[l]
       /\ deployments'[c] = dep
       /\ \A d \in Contexts : d # c => deployments'[d] = deployments[d]
  BY <1>0, <1>1, <1>8 DEF IInv, Tables
<1>11. r.key \notin Committed /\ Committed' = Committed \cup {r.key}
  BY <1>0, <1>6, <1>8, <1>10 DEF Committed
<1>12. \A l \in Committed : transitions'[l] = transitions[l]
  BY <1>0, <1>10 DEF Committed
<1> QED BY <1>6, <1>7, <1>8, <1>9, <1>10, <1>11, <1>12

LEMMA CommitHistory ==
    ASSUME GovernanceAssumption, IInv, NEW s \in Sessions, Commit(s), Accepted(s)
    PROVE  History'
<1> DEFINE r == sessions[s].req
           c == Context(r)
           cur == sessions[s].cur
           k == r.key
<1>0. /\ sessions[s].pc = "locked" /\ r \in Requests /\ r.exp \in Experiments /\ c \in Contexts
      /\ Tables /\ History /\ UNCHANGED <<approvals, monitors>>
  BY BusySession DEF IInv, Commit
<1>1. cur = deployments[c] /\ cur.state # "rollback" /\ Rank(cur.state) < Rank(r.target)
  BY <1>0, Current
<1>2. IF r.op = "transition" THEN r.target # "rollback" /\ TransitionAccepted(s)
      ELSE r.target = "rollback" /\ RollbackAccepted(s)
  BY <1>0, Current
<1>3. /\ k \in Keys /\ k \notin Committed /\ Committed' = Committed \cup {k}
      /\ \A l \in Committed : transitions'[l] = transitions[l]
  BY Written
<1>4. /\ transitions'[k].exp = r.exp /\ transitions'[k].from = cur.state
      /\ transitions'[k].to = r.target /\ transitions'[k].at = sessions[s].at
      /\ transitions'[k].approval = r.approval /\ transitions'[k].prev = cur.row
  BY <1>1, Written
<1>5. /\ deployments'[c].state = r.target /\ deployments'[c].exp = r.exp
      /\ deployments'[c].since = sessions[s].at /\ deployments'[c].row = k
      /\ \A d \in Contexts : d # c => deployments'[d] = deployments[d]
  BY Written
<1>6. /\ r.target \in States /\ cur.state \in States \cup {"none"} /\ "none" \notin States
      /\ settings.state \in States
  BY <1>0, BusySession DEF IInv, Requests, Deployments, States, Live, Tables
<1>7. \A l \in Committed : transitions[l].exp \in Experiments /\ Context(transitions[l]) \in Contexts
  <2>1. \A l \in Committed : transitions[l] \in Transitions
    BY <1>0 DEF Tables, Committed
  <2> QED BY <2>1, ContextOfExperiment DEF Transitions, Context
<1>8. /\ cur.state = "none" => cur.row = None
      /\ cur.state # "none" => /\ cur.row \in Committed /\ Context(transitions[cur.row]) = c
                               /\ transitions[cur.row].to = cur.state
                               /\ transitions[cur.row].exp = cur.exp
                               /\ transitions[cur.row].at = cur.since
  BY <1>0, <1>1 DEF History, Deployed
<1>9. settings' = Projection(r) /\ None \notin Keys
  BY <1>0 DEF Commit, GovernanceAssumption
<1>10. IF r.target = "rollback" THEN cur.state # "none" ELSE legal(cur.state, r.target)
  BY <1>2 DEF TransitionAccepted, RollbackAccepted
<1>11. Context(transitions'[k]) = c
  BY <1>4 DEF Context
<1> HIDE DEF r, c, cur, k
<1>12. Deployed'
  <2> SUFFICES ASSUME NEW d \in Contexts
               PROVE  IF deployments'[d].state = "none" THEN deployments'[d].row = None
                      ELSE /\ deployments'[d].row \in Committed'
                           /\ Context(transitions'[deployments'[d].row]) = d
                           /\ transitions'[deployments'[d].row].to = deployments'[d].state
                           /\ transitions'[deployments'[d].row].exp = deployments'[d].exp
                           /\ transitions'[deployments'[d].row].at = deployments'[d].since
    BY DEF Deployed, Context
  <2>1. CASE d = c
    BY <1>3, <1>4, <1>5, <1>6, <1>11, <2>1
  <2>2. CASE d # c
    BY <1>0, <1>3, <1>5, <2>2 DEF History, Deployed
  <2> QED BY <2>1, <2>2
<1>13. Ordered'
  <2> SUFFICES ASSUME NEW l \in Committed'
               PROVE  /\ Rank(transitions'[l].from) < Rank(deployments'[Context(transitions'[l])].state)
                      /\ IF transitions'[l].to = "rollback" THEN transitions'[l].from # "none"
                         ELSE legal(transitions'[l].from, transitions'[l].to)
                      /\ transitions'[l].prev # None => transitions'[l].prev \in Committed'
    BY DEF Ordered, Context, Rank, legal
  <2>1. CASE l = k
    BY <1>1, <1>3, <1>4, <1>5, <1>8, <1>10, <1>11, <2>1
  <2>2. CASE l \in Committed
    <3>1. /\ Rank(transitions[l].from) < Rank(deployments[Context(transitions[l])].state)
          /\ IF transitions[l].to = "rollback" THEN transitions[l].from # "none"
             ELSE legal(transitions[l].from, transitions[l].to)
          /\ transitions[l].prev # None => transitions[l].prev \in Committed
      BY <1>0, <2>2 DEF History, Ordered
    <3>2. Rank(transitions[l].from) < Rank(deployments'[Context(transitions[l])].state)
      BY <1>1, <1>5, <1>7, <2>2, <3>1, Ranked
    <3> QED BY <1>3, <2>2, <3>1, <3>2
  <2> QED BY <1>3, <2>1, <2>2
<1>14. Sourced' /\ Observed'
  BY <1>0, <1>3 DEF History, Sourced, Observed, Context
<1>15. LinearHistory'
  <2>1. \A l \in Committed : Context(transitions[l]) = c => transitions[l].from # cur.state
    BY <1>0, <1>1, Ranked DEF History, Ordered
  <2> SUFFICES ASSUME NEW l \in Committed'
               PROVE  /\ \A m \in Committed' : Context(transitions'[m]) = Context(transitions'[l])
                                               /\ transitions'[m].from = transitions'[l].from => m = l
                      /\ transitions'[l].prev = None <=> transitions'[l].from = "none"
                      /\ transitions'[l].prev # None =>
                            /\ transitions'[transitions'[l].prev].to = transitions'[l].from
                            /\ Context(transitions'[transitions'[l].prev]) = Context(transitions'[l])
                      /\ \/ deployments'[Context(transitions'[l])].row = l
                         \/ \E m \in Committed' : transitions'[m].prev = l
    BY DEF LinearHistory, Context
  <2>2. CASE l = k
    <3>1. cur.state # "none" => cur.row # None
      BY <1>3, <1>8, <1>9 DEF Committed
    <3> QED BY <1>3, <1>4, <1>5, <1>8, <1>11, <2>1, <2>2, <3>1
  <2>3. CASE l \in Committed
    <3>1. /\ \A m \in Committed : Context(transitions[m]) = Context(transitions[l])
                                  /\ transitions[m].from = transitions[l].from => m = l
          /\ transitions[l].prev = None <=> transitions[l].from = "none"
          /\ transitions[l].prev # None =>
                /\ transitions[transitions[l].prev].to = transitions[l].from
                /\ Context(transitions[transitions[l].prev]) = Context(transitions[l])
          /\ \/ deployments[Context(transitions[l])].row = l
             \/ \E m \in Committed : transitions[m].prev = l
      BY <1>0, <2>3 DEF History, LinearHistory
    <3>2. transitions[l].prev # None => transitions[l].prev \in Committed
      BY <1>0, <2>3 DEF History, Ordered
    <3>3. \A m \in Committed' : Context(transitions'[m]) = Context(transitions'[l])
                                /\ transitions'[m].from = transitions'[l].from => m = l
      BY <1>3, <1>4, <1>11, <2>1, <2>3, <3>1
    <3>4. \/ deployments'[Context(transitions'[l])].row = l
          \/ \E m \in Committed' : transitions'[m].prev = l
      BY <1>1, <1>3, <1>4, <1>5, <1>7, <2>3, <3>1
    <3> QED BY <1>3, <2>3, <3>1, <3>2, <3>3, <3>4
  <2> QED BY <1>3, <2>2, <2>3
<1>16. /\ r.target \notin {"research", "rollback"} =>
             /\ cur.state # "none" /\ r.op = "transition" /\ TransitionAccepted(s) /\ Approved(s)
             /\ r.approval \in ApprovalKeys /\ approvals[r.approval].sourceRow = cur.row
             /\ r.exp \in Passed \cap Confirmatory
  <2> SUFFICES ASSUME r.target \notin {"research", "rollback"}
               PROVE  /\ cur.state # "none" /\ r.op = "transition" /\ TransitionAccepted(s) /\ Approved(s)
                      /\ r.approval \in ApprovalKeys /\ approvals[r.approval].sourceRow = cur.row
                      /\ r.exp \in Passed \cap Confirmatory
    OBVIOUS
  <2>1. cur.state # "none" /\ r.op = "transition" /\ TransitionAccepted(s)
    BY <1>2, <1>10 DEF legal
  <2>2. Approved(s)
    BY <2>1 DEF TransitionAccepted, cur
  <2> QED BY <1>0, <2>1, <2>2, ApprovalIsInPlace DEF r, cur
<1>17. ApprovedInPlace'
  <2> SUFFICES ASSUME NEW l \in Committed', transitions'[l].to \notin {"research", "rollback"}
               PROVE  /\ transitions'[l].approval # None
                      /\ approvals[transitions'[l].approval].sourceRow = transitions'[l].prev
                      /\ approvals[transitions'[l].approval].exp = transitions'[l].exp
                      /\ approvals[transitions'[l].approval].target = transitions'[l].to
                      /\ transitions'[l].exp \in Passed \cap Confirmatory
                      /\ approvals[transitions'[l].approval].expires > transitions'[l].at
    BY <1>0 DEF ApprovedInPlace
  <2>1. CASE l = k
    BY <1>4, <1>16, <2>1 DEF Approved, r
  <2>2. CASE l \in Committed
    BY <1>0, <1>3, <2>2 DEF History, PromotionsAreEarned, ApprovedInPlace
  <2> QED BY <1>3, <2>1, <2>2
<1>18. \A l \in Committed : transitions[l].to \in Live \cup {"rollback"} => transitions[l].prev \in Committed
  BY <1>0 DEF History, LinearHistory, Ordered, legal, Live
<1>19. r.target \in Live => /\ Bound(s)
                            /\ r.monitor.end - r.monitor.start >= RequiredElapsed[r.exp][r.target]
  <2> SUFFICES ASSUME r.target \in Live PROVE /\ Bound(s)
                            /\ r.monitor.end - r.monitor.start >= RequiredElapsed[r.exp][r.target]
    OBVIOUS
  <2>1. r.exp \in Confirmatory /\ TransitionAccepted(s)
    BY <1>16 DEF Live
  <2>2. RequiredElapsed[r.exp][r.target] > 0
    BY <2>1 DEF GovernanceAssumption
  <2> QED BY <2>1, <2>2 DEF TransitionAccepted, Elapsed, r
<1>20. Bound(s) => /\ r.monitor \in Monitors /\ r.monitor.exp = r.exp /\ r.monitor.row = cur.row
                   /\ r.monitor.start >= cur.since /\ r.monitor.end <= sessions[s].at
                   /\ cur.row \in Committed /\ transitions[cur.row].exp = r.exp
  <2> SUFFICES ASSUME Bound(s)
               PROVE  /\ r.monitor \in Monitors /\ r.monitor.exp = r.exp /\ r.monitor.row = cur.row
                      /\ r.monitor.start >= cur.since /\ r.monitor.end <= sessions[s].at
                      /\ cur.row \in Committed /\ transitions[cur.row].exp = r.exp
    OBVIOUS
  <2>1. r.monitor \in monitors
    BY <1>0 DEF IInv, Locks, Requested, Bound, r
  <2>2. /\ r.monitor.exp = r.exp /\ r.monitor.row = cur.row
        /\ r.monitor.start >= cur.since /\ r.monitor.end <= sessions[s].at
    BY DEF Bound, r, cur
  <2> QED BY <1>0, <2>1, <2>2 DEF Tables, History, Observed
<1>21. StagesLast'
  <2> SUFFICES ASSUME NEW l \in Committed', transitions'[l].to \in Live
               PROVE  transitions'[l].at - transitions'[transitions'[l].prev].at
                         >= RequiredElapsed[transitions'[l].exp][transitions'[l].to]
    BY DEF StagesLast
  <2>1. CASE l = k
    <3>1. Bound(s) /\ r.monitor.end - r.monitor.start >= RequiredElapsed[r.exp][r.target]
      BY <1>4, <1>19, <2>1
    <3>2. transitions'[cur.row].at = cur.since
      BY <1>3, <1>8, <1>16, <1>20, <3>1, <1>4, <2>1 DEF Live
    <3>3. RequiredElapsed[r.exp][r.target] \in Int /\ sessions[s].at \in Int /\ cur.since \in Int
      BY <1>0, <1>6, BusySession DEF GovernanceAssumption, IInv, Times, Deployments, cur
    <3>4. r.monitor.end \in Int /\ r.monitor.start \in Int
      BY <1>20, <3>1 DEF Monitors, Times
    <3>5. sessions[s].at - cur.since >= RequiredElapsed[r.exp][r.target]
      BY <1>20, <3>1, <3>3, <3>4
    <3> QED BY <1>4, <2>1, <3>2, <3>5
  <2>2. CASE l \in Committed
    BY <1>0, <1>3, <1>18, <2>2 DEF History, PromotionsAreEarned, StagesLast
  <2> QED BY <1>3, <2>1, <2>2
<1>22. ExperimentKept'
  <2> SUFFICES ASSUME NEW l \in Committed', transitions'[l].to \in Live \cup {"rollback"}
               PROVE  transitions'[transitions'[l].prev].exp = transitions'[l].exp
    BY DEF ExperimentKept
  <2>1. CASE l = k
    <3>1. CASE r.target \in Live
      BY <1>3, <1>4, <1>19, <1>20, <2>1, <3>1
    <3>2. CASE r.target = "rollback"
      <4>1. r.exp = cur.exp /\ cur.state # "none"
        BY <1>2, <3>2 DEF RollbackAccepted, r, cur
      <4> QED BY <1>3, <1>4, <1>8, <2>1, <4>1
    <3> QED BY <1>4, <2>1, <3>1, <3>2
  <2>2. CASE l \in Committed
    BY <1>0, <1>3, <1>18, <2>2 DEF History, ExperimentKept
  <2> QED BY <1>3, <2>1, <2>2
<1>23. SettingIsDeployed' /\ OnlyModels'
  <2>1. CASE c \notin ModelContexts \/ r.target = "research"
    <3>1. settings' = settings
      BY <1>9, <2>1 DEF Projection, c
    <3>2. ASSUME settings.version \in Contexts, settings.state # "rollback"
          PROVE  deployments'[settings.version].state = settings.state
      <4>1. settings.version \in ModelContexts /\ deployments[settings.version].state = settings.state
        BY <1>0, <3>2 DEF History, OnlyModels, SettingIsDeployed, GovernanceAssumption
      <4>2. settings.version # c
        <5> SUFFICES ASSUME settings.version = c PROVE FALSE
          OBVIOUS
        <5>1. r.target = "research" /\ cur.state = settings.state
          BY <1>1, <2>1, <4>1
        <5>2. cur.state = "none"
          BY <1>10, <5>1 DEF legal
        <5> QED BY <1>6, <5>1, <5>2
      <4> QED BY <1>5, <3>2, <4>1, <4>2
    <3> QED BY <1>0, <3>1, <3>2 DEF History, SettingIsDeployed, OnlyModels
  <2>2. CASE c \in ModelContexts /\ r.target # "research"
    <3>1. settings' = [version |-> IF r.op = "rollback" THEN r.fallback ELSE c, state |-> r.target]
      BY <1>9, <2>2 DEF Projection, c
    <3>2. r.target # "rollback" => r.op = "transition"
      BY <1>2
    <3>3. settings'.state # "rollback" => settings'.version = c /\ settings'.state = r.target
      BY <3>1, <3>2
    <3> QED BY <1>5, <2>2, <3>3 DEF SettingIsDeployed, OnlyModels
  <2> QED BY <2>1, <2>2
<1> QED
  BY <1>12, <1>13, <1>14, <1>15, <1>17, <1>21, <1>22, <1>23 DEF History, PromotionsAreEarned

\* No other session has read the deployment that a commit replaces: of two that
\* found a deployment one waits for its row, of two transitions that found none
\* one waits for the context, and a rollback that found none holds nothing.
LEMMA CommitLocks ==
    ASSUME GovernanceAssumption, IInv, NEW s \in Sessions, Commit(s)
    PROVE  Locks'
<1> DEFINE c == Context(sessions[s].req)
           cur == sessions[s].cur
<1>0. Locks /\ sessions[s].pc = "locked" /\ Move(s, Resting) /\ UNCHANGED monitors
  BY DEF IInv, Commit
<1>1. CASE ~Accepted(s)
  BY <1>0, <1>1, RestLocks DEF Commit
<1>2. CASE Accepted(s)
  <2>1. /\ sessions'[s] = Resting /\ Resting.pc = "idle"
        /\ \A t \in Sessions : t # s => sessions'[t] = sessions[t]
        /\ sessions' \in [Sessions -> {Resting} \cup Busy]
    BY <1>0 DEF Locks, Move, Resting
  <2>2. \A t \in Sessions, d \in Contexts :
           /\ HoldsContext(t, d)' => HoldsContext(t, d)
           /\ HoldsRow(t, d)' => HoldsRow(t, d)
    BY <2>1 DEF HoldsContext, HoldsRow
  <2>3. Requested'
    BY <1>0, <2>1 DEF Locks, Requested, Valid
  <2>4. Exclusive'
    BY <1>0, <2>2 DEF Locks, Exclusive
  <2>5. /\ cur = deployments[c] /\ c \in Contexts
        /\ cur.state = "none" => sessions[s].req.op = "transition"
    BY <1>0, <1>2, Current, BusySession DEF Accepted, RollbackAccepted
  <2>6. ASSUME NEW t \in Sessions, t # s, sessions[t].pc = "locked",
               sessions[t].cur.state # "none" \/ sessions[t].req.op = "transition",
               Context(sessions[t].req) = c
        PROVE  FALSE
    <3>1. sessions[t].cur = cur
      BY <1>0, <2>5, <2>6 DEF Locks, LockedIsCurrent
    <3>2. CASE cur.state = "none"
      <4>1. HoldsContext(s, c) /\ HoldsContext(t, c)
        BY <1>0, <2>5, <2>6, <3>1, <3>2 DEF HoldsContext
      <4> QED BY <1>0, <2>5, <2>6, <4>1 DEF Locks, Exclusive
    <3>3. CASE cur.state # "none"
      <4>1. HoldsRow(s, c) /\ HoldsRow(t, c)
        BY <1>0, <2>6, <3>1, <3>3 DEF HoldsRow
      <4> QED BY <1>0, <2>5, <2>6, <4>1 DEF Locks, Exclusive
    <3> QED BY <3>2, <3>3
  <2>7. \A d \in Contexts : d # c => deployments'[d] = deployments[d]
    BY <1>2, Written
  <2>8. LockedIsCurrent'
    <3> SUFFICES ASSUME NEW t \in Sessions, sessions'[t].pc = "locked",
                        sessions'[t].cur.state # "none" \/ sessions'[t].req.op = "transition"
                 PROVE  sessions'[t].cur = deployments'[Context(sessions'[t].req)]
      BY DEF LockedIsCurrent, Context
    <3>1. t # s /\ sessions'[t] = sessions[t] /\ sessions[t].pc # "idle"
      BY <2>1
    <3>2. Context(sessions[t].req) # c /\ Context(sessions[t].req) \in Contexts
      BY <1>0, <2>6, <3>1, BusySession
    <3> QED BY <1>0, <2>7, <3>1, <3>2 DEF Locks, LockedIsCurrent
  <2> QED BY <2>1, <2>3, <2>4, <2>8 DEF Locks
<1> QED BY <1>1, <1>2

-----------------------------------------------------------------------------
(* The invariant.                                                          *)

LEMMA NoneDeployed ==
    ASSUME GovernanceAssumption
    PROVE  NoDeployment \in Deployments /\ NoDeployment.state = "none" /\ NoDeployment.row = None
  BY DEF GovernanceAssumption, NoDeployment, Deployments, Times

LEMMA InitInv ==
    ASSUME GovernanceAssumption, Init
    PROVE  IInv
<1>1. Committed = {} /\ \A k \in ApprovalKeys : approvals[k] = NoApproval
  BY DEF Init, Committed
<1>2. \A c \in Contexts : deployments[c] = NoDeployment
  BY DEF Init
<1>3. \A s \in Sessions : sessions[s] = Resting /\ Resting.pc = "idle"
  BY DEF Init, Resting
<1>4. /\ settings.version = None /\ settings.state = "shadow"
      /\ settings \in [version : ModelContexts \cup Fallbacks \cup {None}, state : States]
  BY DEF Init, States
<1>5. Tables
  BY <1>4, NoneDeployed DEF Init, Tables, Times, GovernanceAssumption
<1>6. Deployed /\ Ordered /\ Sourced /\ Observed /\ OnlyModels
  BY <1>1, <1>2, <1>4, NoneDeployed
     DEF Init, Deployed, Ordered, Sourced, Observed, OnlyModels
<1>7. LinearHistory /\ PromotionsAreEarned /\ ExperimentKept
  BY <1>1 DEF LinearHistory, PromotionsAreEarned, ApprovedInPlace, StagesLast, ExperimentKept
<1>8. SettingIsDeployed
  BY <1>4 DEF SettingIsDeployed, GovernanceAssumption
<1>9. Requested /\ Exclusive /\ LockedIsCurrent
  BY <1>3 DEF Requested, Exclusive, LockedIsCurrent, HoldsContext, HoldsRow
<1>10. sessions \in [Sessions -> {Resting} \cup Busy]
  BY DEF Init
<1> QED BY <1>5, <1>6, <1>7, <1>8, <1>9, <1>10 DEF IInv, History, Locks

LEMMA TablesUnchanged ==
    ASSUME Tables, UNCHANGED <<approvals, monitors, transitions, deployments, settings>>,
           now' \in Times
    PROVE  Tables'
  BY DEF Tables

LEMMA CheckInv ==
    ASSUME GovernanceAssumption, IInv, NEW s \in Sessions, Transition(s) \/ Rollback(s)
    PROVE  IInv'
<1>0. PICK r \in Requests, at \in Times : r.monitor \in monitors \cup {NoMonitor} /\ Check(s, r, at)
  <2>1. CASE Transition(s)
    <3>1. PICK at \in Times, k \in Keys, e \in Experiments, t \in Asked, f \in Fallbacks,
               a \in ApprovalKeys \cup {None}, m \in monitors \cup {NoMonitor} :
               Check(s, [op |-> "transition", key |-> k, exp |-> e, target |-> t, approval |-> a,
                         monitor |-> m, fallback |-> f], at)
      BY <2>1 DEF Transition
    <3> DEFINE r == [op |-> "transition", key |-> k, exp |-> e, target |-> t, approval |-> a,
                     monitor |-> m, fallback |-> f]
    <3>2. r \in Requests /\ r.monitor = m
      BY DEF Requests, GovernanceAssumption, IInv, Tables
    <3> HIDE DEF r
    <3>3. Check(s, r, at)
      BY <3>1 DEF r
    <3> QED BY <3>2, <3>3
  <2>2. CASE Rollback(s)
    <3>1. PICK at \in Times, k \in Keys, e \in Experiments, f \in Fallbacks, m \in monitors :
               Check(s, [op |-> "rollback", key |-> k, exp |-> e, target |-> "rollback",
                         approval |-> None, monitor |-> m, fallback |-> f], at)
      BY <2>2 DEF Rollback
    <3> DEFINE r == [op |-> "rollback", key |-> k, exp |-> e, target |-> "rollback",
                     approval |-> None, monitor |-> m, fallback |-> f]
    <3>2. r \in Requests /\ r.monitor = m
      BY DEF Requests, States, IInv, Tables
    <3> HIDE DEF r
    <3>3. Check(s, r, at)
      BY <3>1 DEF r
    <3> QED BY <3>2, <3>3
  <2> QED BY <2>1, <2>2
<1>1. UNCHANGED <<now, approvals, monitors, transitions, deployments, settings>>
  BY <1>0 DEF Check
<1>2. Locks'
  BY <1>0, CheckLocks, NoneDeployed DEF IInv
<1> QED BY <1>1, <1>2, HistoryUnchanged, TablesUnchanged DEF IInv, Tables

LEMMA SessionInv ==
    ASSUME GovernanceAssumption, IInv, NEW s \in Sessions, Lock(s) \/ Abort(s)
    PROVE  IInv'
<1>1. UNCHANGED <<now, approvals, monitors, transitions, deployments, settings>>
  BY DEF Lock, Abort
<1>2. Locks'
  BY <1>1, LockLocks, RestLocks DEF IInv, Abort
<1> QED BY <1>1, <1>2, HistoryUnchanged, TablesUnchanged DEF IInv, Tables

LEMMA CommitInv ==
    ASSUME GovernanceAssumption, IInv, NEW s \in Sessions, Commit(s)
    PROVE  IInv'
<1>1. Locks'
  BY CommitLocks
<1>2. CASE Accepted(s)
  BY <1>1, <1>2, Written, CommitHistory DEF IInv
<1>3. CASE ~Accepted(s)
  <2>1. UNCHANGED <<now, approvals, monitors, transitions, deployments, settings>>
    BY <1>3 DEF Commit
  <2> QED BY <1>1, <2>1, HistoryUnchanged, TablesUnchanged DEF IInv, Tables
<1> QED BY <1>2, <1>3

LEMMA InvStep ==
    ASSUME GovernanceAssumption, IInv, [Next]_vars
    PROVE  IInv'
<1>1. CASE Tick
  <2>1. now' \in Times /\ UNCHANGED <<approvals, monitors, transitions, deployments, settings, sessions>>
    BY <1>1 DEF Tick, IInv, Tables, Times, GovernanceAssumption
  <2> QED BY <2>1, HistoryUnchanged, TablesUnchanged, LocksUnchanged DEF IInv
<1>2. ASSUME NEW s \in Sessions, Transition(s) \/ Rollback(s) \/ Lock(s) \/ Commit(s) \/ Abort(s)
      PROVE  IInv'
  BY <1>2, CheckInv, SessionInv, CommitInv
<1>3. ASSUME NEW k \in ApprovalKeys, NEW e \in Experiments, NEW t \in Asked, NEW at \in Times,
             NEW x \in 1 .. MaxTime + ApprovalLife, Approve(k, e, t, at, x)
      PROVE  IInv'
  <2>1. t \in States /\ x \in Nat
    BY DEF GovernanceAssumption
  <2>2. Tables' /\ History'
    BY <1>3, <2>1, ApproveHistory DEF IInv
  <2>3. Locks'
    BY <1>3, LocksUnchanged DEF IInv, Approve
  <2> QED BY <2>2, <2>3 DEF IInv
<1>4. ASSUME NEW e \in Experiments, NEW start \in Times, NEW end \in Times, NEW found \in Found,
             RecordMonitoringEvidence(e, start, end, found)
      PROVE  IInv'
  <2>1. found \in Verdicts
    BY DEF GovernanceAssumption, Verdicts
  <2>2. Tables' /\ History' /\ monitors \subseteq monitors'
    BY <1>4, <2>1, MonitorHistory DEF IInv
  <2>3. Locks'
    BY <1>4, <2>2, LocksUnchanged DEF IInv, RecordMonitoringEvidence
  <2> QED BY <2>2, <2>3 DEF IInv
<1>5. CASE UNCHANGED vars
  BY <1>5, HistoryUnchanged, TablesUnchanged, LocksUnchanged DEF IInv, Tables, vars
<1> QED BY <1>1, <1>2, <1>3, <1>4, <1>5 DEF Next

LEMMA Invariance == ASSUME GovernanceAssumption PROVE Spec => []IInv
<1>1. Init => IInv
  BY InitInv
<1>2. IInv /\ [Next]_vars => IInv'
  BY InvStep
<1> QED BY <1>1, <1>2, PTL DEF Spec

-----------------------------------------------------------------------------
\* However requests race, one transition leaves each state of a context, the
\* first one starts it and the deployment is the last (Transition, Rollback).
THEOREM OneHistoryHolds == ASSUME GovernanceAssumption PROVE Spec => []OneHistory
<1>1. IInv => OneHistory
  BY InvImplies DEF OneHistory
<1> QED BY <1>1, Invariance, PTL

\* Every promotion was approved by a person who looked at the very deployment it
\* replaced, and no live stage was entered before the stage below had been
\* observed for as long as the manifest demands (Approve, Transition).
THEOREM PromotionsEarned == ASSUME GovernanceAssumption PROVE Spec => []PromotionsAreEarned
<1>1. IInv => PromotionsAreEarned
  BY InvImplies
<1> QED BY <1>1, Invariance, PTL

\* From shadow on a context keeps its experiment (Transition, Rollback,
\* RecordMonitoringEvidence).
THEOREM ExperimentIsKept == ASSUME GovernanceAssumption PROVE Spec => []ExperimentKept
<1>1. IInv => ExperimentKept
  BY InvImplies
<1> QED BY <1>1, Invariance, PTL

\* The settings give a model only the authority of its own deployment, whatever
\* other models do meanwhile (writeModelAuthorityProjection).
THEOREM SettingDeployed == ASSUME GovernanceAssumption PROVE Spec => []SettingIsDeployed
<1>1. IInv => SettingIsDeployed
  BY InvImplies
<1> QED BY <1>1, Invariance, PTL

LEMMA StepKeepsRollback ==
    ASSUME GovernanceAssumption, IInv, [Next]_vars
    PROVE  KeepsRollback
<1>1. ASSUME NEW s \in Sessions, Commit(s), Accepted(s) PROVE KeepsRollback
  <2> DEFINE r == sessions[s].req
             c == Context(r)
  <2>1. /\ deployments'[c].state = r.target /\ deployments'[c].fallback = r.fallback
        /\ \A d \in Contexts : d # c => deployments'[d] = deployments[d]
    BY <1>1, Written
  <2>2. /\ deployments[c].state # "rollback" /\ sessions[s].cur = deployments[c]
        /\ r.target = "rollback" => RollbackAccepted(s)
    BY <1>1, Current DEF Commit
  <2>3. r.target = "rollback" => r.fallback = deployments[c].fallback
    BY <2>2 DEF RollbackAccepted
  <2> HIDE DEF r, c
  <2> QED BY <2>1, <2>2, <2>3 DEF KeepsRollback
<1>2. CASE UNCHANGED deployments
  BY <1>2 DEF KeepsRollback
<1>3. ASSUME NEW s \in Sessions, Transition(s) \/ Rollback(s) \/ Lock(s) \/ Abort(s)
      PROVE  UNCHANGED deployments
  <2>1. \A r, at : Check(s, r, at) => UNCHANGED deployments
    BY DEF Check
  <2>2. Lock(s) \/ Abort(s) => UNCHANGED deployments
    BY DEF Lock, Abort
  <2> QED BY <1>3, <2>1, <2>2 DEF Transition, Rollback
<1>4. ASSUME NEW s \in Sessions, Commit(s), ~Accepted(s) PROVE UNCHANGED deployments
  BY <1>4 DEF Commit
<1>5. ASSUME NEW s \in Sessions, Transition(s) \/ Rollback(s) \/ Lock(s) \/ Commit(s) \/ Abort(s)
      PROVE  KeepsRollback
  BY <1>1, <1>2, <1>3, <1>4, <1>5
<1>6. CASE Tick \/ UNCHANGED vars
  BY <1>2, <1>6 DEF Tick, vars
<1>7. ASSUME NEW k, NEW e, NEW t, NEW at, NEW x, Approve(k, e, t, at, x) PROVE KeepsRollback
  BY <1>2, <1>7 DEF Approve
<1>8. ASSUME NEW e, NEW start, NEW end, NEW found, RecordMonitoringEvidence(e, start, end, found)
      PROVE  KeepsRollback
  BY <1>2, <1>8 DEF RecordMonitoringEvidence
<1> QED BY <1>5, <1>6, <1>7, <1>8 DEF Next

\* A rolled back context stays rolled back, on the fallback that was configured
\* when it was promoted (Rollback, and the CHECK on from_state).
THEOREM RollbackKept == ASSUME GovernanceAssumption PROVE Spec => RollbackIsFinal
<1>1. IInv /\ [Next]_vars => KeepsRollback
  BY StepKeepsRollback
<1> QED BY <1>1, Invariance, PTL DEF Spec, RollbackIsFinal
=============================================================================
