------------------------------- MODULE Incidents -------------------------------
(***************************************************************************)
(* internal/operations/service.go (RaiseIncident, TransitionIncident) and  *)
(* monitor.go: operational incidents, their alerts and their audit trail.  *)
(*                                                                         *)
(* RaiseIncident reads the clock, then runs one transaction that locks the *)
(* incident row if there is one, then dispatches the alert, then stores how*)
(* the delivery went.  A missing row cannot be locked, so two first raises *)
(* both insert and the second fails on the unique key.  The caller that    *)
(* reports broker conflicts counts them in a transaction of its own first. *)
(***************************************************************************)
EXTENDS Naturals, Sequences, FiniteSets

CONSTANTS
    DedupeKeys,     \* what identifies an incident
    Callers,        \* concurrent callers
    Cooldown,       \* 15 minutes
    Window,         \* window of the broker conflict counter: 15 minutes
    Threshold,      \* conflicts in a window that raise an incident: 3
    None,           \* no incident row
    MaxTime, MaxRaises, MaxCrashes   \* bounds: clock, callers, lost callers

IncidentStates == {"open", "acknowledged", "resolved"}

Times == 0 .. MaxTime

\* A row of operational_incidents.
Incidents ==
    [state : IncidentStates, occurrences : 1 .. MaxRaises, until : Nat, lastSeen : Times,
     delivery : {"not_configured", "delivered", "failed"}]

\* What the instances have to satisfy.
IncidentsAssumption ==
    /\ Cooldown \in Nat \ {0} /\ Window \in Nat /\ Threshold \in Nat \ {0}
    /\ MaxTime \in Nat /\ MaxRaises \in Nat /\ MaxCrashes \in Nat
    /\ IsFiniteSet(Callers) /\ None \notin Incidents

VARIABLES
    now,          \* the clock
    incidents,    \* operational_incidents, by dedupe key
    counters,     \* broker_conflict_counters, by dedupe key
    audits,       \* operational_incident_audits, by dedupe key
    alerts,       \* [DedupeKeys -> times of the raises that dispatched an alert]
    callers,      \* control state of the callers
    raises,       \* callers so far
    crashes       \* callers lost so far

incidentVars == <<now, incidents, counters, audits, alerts, callers, raises, crashes>>

Idle == [pc |-> "idle"]

Steps == {"raise", "insert", "dispatch", "record"}

IncidentTypeOK ==
    /\ now \in Times /\ raises \in 0 .. MaxRaises /\ crashes \in 0 .. MaxCrashes
    /\ incidents \in [DedupeKeys -> Incidents \cup {None}]
    /\ counters \in [DedupeKeys -> [count : 0 .. MaxRaises, start : Times]]
    /\ \A k \in DedupeKeys : \A i \in DOMAIN audits[k] : audits[k][i] \in IncidentStates \X IncidentStates
    /\ \A s \in Callers :
         callers[s] # Idle => /\ callers[s].pc \in Steps /\ callers[s].key \in DedupeKeys
                              /\ callers[s].at \in Times

-----------------------------------------------------------------------------
Goto(s, pc) == [callers EXCEPT ![s].pc = pc]

Done(s) == [callers EXCEPT ![s] = Idle]

Start(s, k) ==
    callers' = [callers EXCEPT ![s] = [pc |-> "raise", key |-> k, at |-> now, ok |-> FALSE]]

\* Monitor, RecordGovernanceBypass and RecordMissingMarketData raise at once.
Raise(s, k) ==
    /\ callers[s] = Idle /\ raises < MaxRaises
    /\ raises' = raises + 1 /\ Start(s, k)
    /\ UNCHANGED <<now, incidents, counters, audits, alerts, crashes>>

\* Mutant: the window is never reset and the incident waits for one more.
CountLate(s, k) ==
    LET n == counters[k].count + 1 IN
    /\ callers[s] = Idle /\ raises < MaxRaises
    /\ counters' = [counters EXCEPT ![k].count = n]
    /\ raises' = raises + 1
    /\ IF n > Threshold THEN Start(s, k) ELSE UNCHANGED callers
    /\ UNCHANGED <<now, incidents, audits, alerts, crashes>>

\* RecordBrokerConflict counts under a row lock, and raises from the third on.
RecordBrokerConflict(s, k) ==
    LET c == counters[k]
        expired == c.count > 0 /\ now - c.start > Window
        n == IF expired THEN 1 ELSE c.count + 1 IN
    /\ callers[s] = Idle /\ raises < MaxRaises
    /\ counters' = [counters EXCEPT ![k] =
         [count |-> n, start |-> IF expired \/ c.count = 0 THEN now ELSE c.start]]
    /\ raises' = raises + 1
    /\ IF n < Threshold THEN UNCHANGED callers ELSE Start(s, k)
    /\ UNCHANGED <<now, incidents, audits, alerts, crashes>>

\* The transaction finds no row to lock.
FindNone(s) ==
    /\ callers[s].pc = "raise" /\ incidents[callers[s].key] = None
    /\ callers' = Goto(s, "insert")
    /\ UNCHANGED <<now, incidents, counters, audits, alerts, raises, crashes>>

\* It inserts, or fails on the unique key because another caller was first.
Insert(s) ==
    LET k == callers[s].key IN
    /\ callers[s].pc = "insert"
    /\ IF incidents[k] = None
       THEN /\ incidents' = [incidents EXCEPT ![k] =
                 [state |-> "open", occurrences |-> 1, until |-> callers[s].at + Cooldown,
                  lastSeen |-> callers[s].at, delivery |-> "not_configured"]]
            /\ callers' = Goto(s, "dispatch")
       ELSE /\ callers' = Done(s) /\ UNCHANGED incidents
    /\ UNCHANGED <<now, counters, audits, alerts, raises, crashes>>

\* Mutant: a repeated raise alerts again without a new cooldown.
RepeatWithoutCooldown(s) ==
    LET k == callers[s].key IN
    /\ callers[s].pc = "raise" /\ incidents[k] # None
    /\ incidents' = [incidents EXCEPT ![k].occurrences = @ + 1, ![k].lastSeen = callers[s].at,
                                      ![k].state = IF @ = "resolved" THEN "open" ELSE @]
    /\ callers' = IF callers[s].at < incidents[k].until THEN Done(s) ELSE Goto(s, "dispatch")
    /\ UNCHANGED <<now, counters, audits, alerts, raises, crashes>>

\* The transaction locks the row: one more occurrence, a resolved incident is
\* open again, and an alert follows unless the cooldown still runs.
Repeat(s) ==
    LET k == callers[s].key
        row == incidents[k]
        due == callers[s].at >= row.until IN
    /\ callers[s].pc = "raise" /\ row # None
    /\ incidents' = [incidents EXCEPT ![k] =
         [row EXCEPT !.occurrences = @ + 1, !.lastSeen = callers[s].at,
                     !.until = IF due THEN callers[s].at + Cooldown ELSE @,
                     !.state = IF @ = "resolved" THEN "open" ELSE @]]
    /\ callers' = IF due THEN Goto(s, "dispatch") ELSE Done(s)
    /\ UNCHANGED <<now, counters, audits, alerts, raises, crashes>>

\* Alerts.Dispatch (external) succeeds or fails.
Dispatch(s) ==
    LET k == callers[s].key IN
    /\ callers[s].pc = "dispatch"
    /\ alerts' = [alerts EXCEPT ![k] = Append(@, callers[s].at)]
    /\ \E ok \in BOOLEAN :
         callers' = [callers EXCEPT ![s].pc = "record", ![s].ok = ok]
    /\ UNCHANGED <<now, incidents, counters, audits, raises, crashes>>

\* The delivery state is stored in a second transaction.
RecordDelivery(s) ==
    /\ callers[s].pc = "record"
    /\ incidents' = [incidents EXCEPT ![callers[s].key].delivery =
                        IF callers[s].ok THEN "delivered" ELSE "failed"]
    /\ callers' = Done(s)
    /\ UNCHANGED <<now, counters, audits, alerts, raises, crashes>>

\* A caller is lost between two of its steps.
Crash(s) ==
    /\ callers[s] # Idle /\ crashes < MaxCrashes
    /\ crashes' = crashes + 1 /\ callers' = Done(s)
    /\ UNCHANGED <<now, incidents, counters, audits, alerts, raises>>

Legal(from, to) == \/ from = "open" /\ to # "open"
                   \/ from = "acknowledged" /\ to = "resolved"

TransitionIncident(k, to) ==
    /\ incidents[k] # None /\ Legal(incidents[k].state, to)
    /\ incidents' = [incidents EXCEPT ![k].state = to]
    /\ audits' = [audits EXCEPT ![k] = Append(@, <<incidents[k].state, to>>)]
    /\ UNCHANGED <<now, counters, alerts, callers, raises, crashes>>

Tick ==
    /\ now < MaxTime /\ now' = now + 1
    /\ UNCHANGED <<incidents, counters, audits, alerts, callers, raises, crashes>>

IncidentInit ==
    /\ now = 0 /\ raises = 0 /\ crashes = 0
    /\ incidents = [k \in DedupeKeys |-> None]
    /\ counters = [k \in DedupeKeys |-> [count |-> 0, start |-> 0]]
    /\ audits = [k \in DedupeKeys |-> <<>>] /\ alerts = [k \in DedupeKeys |-> <<>>]
    /\ callers = [s \in Callers |-> Idle]

Step(s) == FindNone(s) \/ Insert(s) \/ Repeat(s) \/ Dispatch(s) \/ RecordDelivery(s)

IncidentNext ==
    \/ \E s \in Callers, k \in DedupeKeys : Raise(s, k) \/ RecordBrokerConflict(s, k)
    \/ \E s \in Callers : Step(s) \/ Crash(s)
    \/ \E k \in DedupeKeys, to \in IncidentStates : TransitionIncident(k, to)
    \/ Tick

IncidentSpec == IncidentInit /\ [][IncidentNext]_incidentVars

-----------------------------------------------------------------------------
\* However many callers raise one incident at once, and whatever clock each of
\* them read, two alerts about it are a cooldown apart.
AlertsAreApart ==
    \A k \in DedupeKeys : \A i, j \in DOMAIN alerts[k] :
        i # j => \/ alerts[k][i] >= alerts[k][j] + Cooldown
                 \/ alerts[k][j] >= alerts[k][i] + Cooldown

\* An acknowledgement or a resolution always has its audit row, and repeated
\* raises never undo an acknowledgement: the audit rows that follow each other
\* join up, with a reopening only between a resolution and the next row.
AuditExplainsState ==
    \A k \in DedupeKeys : incidents[k] # None =>
        LET log == audits[k] IN
        /\ incidents[k].state # "open" => log # <<>> /\ log[Len(log)][2] = incidents[k].state
        /\ incidents[k].state = "open" => log = <<>> \/ log[Len(log)][2] = "resolved"
        /\ \A i \in 1 .. Len(log) - 1 :
             log[i + 1][1] = log[i][2] \/ (log[i][2] = "resolved" /\ log[i + 1][1] = "open")

\* Callers that raise one incident at once alert once per cooldown, and the
\* audit rows explain its state (RaiseIncident, TransitionIncident).
IncidentsAreAudited == IncidentTypeOK /\ AlertsAreApart /\ AuditExplainsState
=============================================================================
