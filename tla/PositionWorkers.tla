--------------------------- MODULE PositionWorkers ----------------------------
(***************************************************************************)
(* The workers of the position monitor: one stream of prices for each open *)
(* position. Whoever opens or closes a position calls                      *)
(* NotifyPositionChanged, so that several reconciliations run at once.     *)
(* Each reads the open positions, starts the workers that are missing and  *)
(* stops the ones that are not required; the mutex of the monitor is not   *)
(* held while it reads and while it subscribes.                            *)
(***************************************************************************)
EXTENDS Integers, FiniteSets

CONSTANTS Symbols,
          Reconcilers,  \* goroutines that reconcile
          MaxStreams,   \* bound: subscriptions
          MaxChanges, MaxMisses   \* bounds: changes, failures

VARIABLES
    open,       \* symbols of open positions
    enabled,    \* the setting stream_exit_enabled
    workers,    \* PositionMonitor.workers: the stream of a symbol, or 0
    streams,    \* each subscription: its symbol and what became of it
    call,       \* what each caller is doing
    exact,      \* whether no change, failure or overlap makes the workers differ
    changes, misses

workerVars == <<open, enabled, workers, streams, call, exact, changes, misses>>

WorkersAssumption ==
    /\ IsFiniteSet(Symbols) /\ IsFiniteSet(Reconcilers)
    /\ MaxStreams \in Nat /\ MaxChanges \in Nat /\ MaxMisses \in Nat

Asleep == [at |-> "idle", required |-> {}, todo |-> {}, symbol |-> "", stream |-> 0, alone |-> FALSE]

Streams == 1 .. MaxStreams

WorkersTypeOK ==
    /\ open \subseteq Symbols /\ enabled \in BOOLEAN /\ exact \in BOOLEAN
    /\ workers \in [Symbols -> Streams \cup {0}]
    /\ streams \in [Streams -> [symbol : Symbols \cup {""},
                                state : {"unused", "live", "cancelled", "ended"}]]
    /\ call \in [Reconcilers -> [at : {"idle", "enabled", "read", "ensure", "subscribe", "insert"},
                                required : SUBSET Symbols, todo : SUBSET Symbols,
                                symbol : Symbols \cup {""}, stream : Streams \cup {0},
                                alone : BOOLEAN]]
    /\ changes \in 0 .. MaxChanges /\ misses \in 0 .. MaxMisses

WorkersInit ==
    /\ open = {} /\ enabled = TRUE
    /\ workers = [s \in Symbols |-> 0]
    /\ streams = [i \in Streams |-> [symbol |-> "", state |-> "unused"]]
    /\ call = [c \in Reconcilers |-> Asleep]
    /\ exact = TRUE /\ changes = 0 /\ misses = 0

-----------------------------------------------------------------------------
Return(c) == call' = [call EXCEPT ![c] = Asleep]

Fail == misses < MaxMisses /\ misses' = misses + 1

\* The streams S, cancelled: BinanceTickerStream.run sees it when it next waits.
Cancel(S) ==
    [i \in Streams |-> IF i \in S THEN [streams[i] EXCEPT !.state = "cancelled"] ELSE streams[i]]

\* A position is opened or closed and its goroutine calls NotifyPositionChanged.
Change(c, s) ==
    /\ call[c].at = "idle" /\ changes < MaxChanges
    /\ changes' = changes + 1
    /\ open' = IF s \in open THEN open \ {s} ELSE open \cup {s}
    /\ call' = [d \in Reconcilers |-> IF d = c THEN [Asleep EXCEPT !.at = "enabled"]
                                  ELSE [call[d] EXCEPT !.alone = FALSE]]
    /\ exact' = FALSE
    /\ UNCHANGED <<enabled, workers, streams, misses>>

\* An operator changes the setting; the next reconciliation notices.
Toggle ==
    /\ changes < MaxChanges /\ changes' = changes + 1
    /\ enabled' = ~enabled
    /\ UNCHANGED <<open, workers, streams, call, exact, misses>>

\* ReconcileOpenPositions: a stream that is disabled closes the monitor.
CheckEnabled(c) ==
    /\ call[c].at = "enabled"
    /\ \/ /\ enabled
          /\ call' = [call EXCEPT ![c].at = "read"]
          /\ UNCHANGED <<workers, streams, exact>>
       \/ /\ ~enabled
          /\ streams' = Cancel({workers[s] : s \in Symbols})
          /\ workers' = [s \in Symbols |-> 0]
          /\ Return(c) /\ exact' = FALSE
    /\ UNCHANGED <<open, enabled, changes, misses>>

ReadOpen(c) ==
    /\ call[c].at = "read"
    /\ \/ /\ call' = [call EXCEPT ![c].at = "ensure", ![c].required = open, ![c].todo = open,
                                  ![c].alone = \A d \in Reconcilers \ {c} : call[d].at = "idle"]
          /\ UNCHANGED misses
       \/ Fail /\ Return(c)
    /\ UNCHANGED <<open, enabled, workers, streams, exact, changes>>

\* Reconcile takes the next position; ensureWorker looks for its worker.
EnsureWorker(c) ==
    /\ call[c].at = "ensure"
    /\ \E s \in call[c].todo :
        call' = [call EXCEPT ![c].todo = @ \ {s}, ![c].symbol = s,
                             ![c].at = IF workers[s] = 0 THEN "subscribe" ELSE "ensure"]
    /\ UNCHANGED <<open, enabled, workers, streams, exact, changes, misses>>

\* Subscribe, with no lock held. When it fails, Reconcile returns and stops no
\* worker.
Subscribe(c) ==
    /\ call[c].at = "subscribe"
    /\ \/ \E i \in Streams :
            /\ streams[i].state = "unused" /\ \A j \in 1 .. i - 1 : streams[j].state # "unused"
            /\ streams' = [streams EXCEPT ![i] = [symbol |-> call[c].symbol, state |-> "live"]]
            /\ call' = [call EXCEPT ![c].at = "insert", ![c].stream = i]
            /\ UNCHANGED misses
       \/ Fail /\ Return(c) /\ UNCHANGED streams
    /\ UNCHANGED <<open, enabled, workers, exact, changes>>

\* Mutant: the worker is stored without looking again.
Occupied_Unchecked(c) == FALSE

\* ensureWorker looks again: of two subscriptions of a symbol one is cancelled.
Occupied(c) == workers[call[c].symbol] # 0

InsertWorker(c) ==
    /\ call[c].at = "insert"
    /\ \/ Occupied(c) /\ streams' = Cancel({call[c].stream}) /\ UNCHANGED workers
       \/ /\ ~Occupied(c)
          /\ workers' = [workers EXCEPT ![call[c].symbol] = call[c].stream] /\ UNCHANGED streams
    /\ call' = [call EXCEPT ![c].at = "ensure", ![c].stream = 0]
    /\ UNCHANGED <<open, enabled, exact, changes, misses>>

\* The end of Reconcile: workers that are not required stop.
Prune(c) ==
    /\ call[c].at = "ensure" /\ call[c].todo = {}
    /\ LET surplus == Symbols \ call[c].required IN
       /\ streams' = Cancel({workers[s] : s \in surplus})
       /\ workers' = [s \in Symbols |-> IF s \in surplus THEN 0 ELSE workers[s]]
    /\ exact' = call[c].alone
    /\ Return(c)
    /\ UNCHANGED <<open, enabled, changes, misses>>

\* A cancelled stream closes its channel; runWorker forgets its own entry.
Drained(i) ==
    /\ streams[i].state = "cancelled"
    /\ streams' = [streams EXCEPT ![i].state = "ended"]
    /\ workers' = [s \in Symbols |-> IF workers[s] = i THEN 0 ELSE workers[s]]
    /\ UNCHANGED <<open, enabled, call, exact, changes, misses>>

Reconcile(c) ==
    CheckEnabled(c) \/ ReadOpen(c) \/ EnsureWorker(c) \/ Subscribe(c) \/ InsertWorker(c) \/ Prune(c)

WorkersNext ==
    \/ \E c \in Reconcilers : Reconcile(c) \/ \E s \in Symbols : Change(c, s)
    \/ Toggle
    \/ \E i \in Streams : Drained(i)

WorkersSpec == WorkersInit /\ [][WorkersNext]_workerVars

-----------------------------------------------------------------------------
\* However reconciliations race, no connection to the exchange is forgotten: a
\* stream that was not cancelled is a worker's or is just being handed over
\* (ensureWorker, Reconcile, Close).
NoOrphanStream ==
    \A i \in Streams : streams[i].state = "live" =>
        \/ workers[streams[i].symbol] = i
        \/ \E c \in Reconcilers : call[c].at = "insert" /\ call[c].stream = i

\* A worker that the monitor knows has a stream of its symbol that is still
\* alive, so that silence of a worker means silence of the exchange (IsHealthy).
WorkerIsAlive ==
    \A s \in Symbols : workers[s] # 0 =>
        streams[workers[s]] = [symbol |-> s, state |-> "live"]

\* A reconciliation that nothing overlaps leaves a worker for each open position
\* and for nothing else.
ReconciledIsExact == exact => {s \in Symbols : workers[s] # 0} = open

\* No stream is forgotten, no worker is deaf, and a reconciliation that nothing
\* overlaps ends with the workers it should (Reconcile, ensureWorker, runWorker).
StreamsAreOwned == WorkersTypeOK /\ NoOrphanStream /\ WorkerIsAlive /\ ReconciledIsExact
==============================================================================
