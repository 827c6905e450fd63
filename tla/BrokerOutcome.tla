---------------------------- MODULE BrokerOutcome ----------------------------
(***************************************************************************)
(* internal/ledger/tradingcore_adapter.go: RecordBrokerOutcome ingests the *)
(* outcome of a batch of approved intents in one transaction: the row that *)
(* identifies it, its orders and its fills.  Runs of the shared engine,    *)
(* retries and restarts ingest concurrently; a command of the ledger       *)
(* outside this port may move the cash between them.                       *)
(*                                                                         *)
(* A transaction shows nothing before it commits.  Two locks order them:   *)
(* an uncommitted ingestion row makes an insert of the same identity wait, *)
(* and the first fill takes the account's advisory lock until the end.     *)
(***************************************************************************)
EXTENDS Integers, SequencesExt

CONSTANTS
    Workers,        \* callers of RecordBrokerOutcome
    NoWorker,
    Outcomes,       \* [identity, complete, approved, accepted, rejected]
    NoOutcome,
    OpeningCash,
    MaxCalls, MaxFailures, MaxSpends      \* bounds

VARIABLES
    ingested,       \* [identity -> outcome], broker_outcome_ingestions
    orders,         \* rows of orders
    booked,         \* rows of fills
    cash,           \* wallets.balance_exact
    inserting,      \* [identity -> the worker with the uncommitted row]
    account,        \* the worker with the account lock
    call,           \* [worker -> [at, outcome, next, cost]]
    result,         \* [worker -> the outcome its last call said is recorded]
    calls, failures, spends

outcomeVars == <<ingested, orders, booked, cash, inserting, account, call, result, calls, failures, spends>>

Identities == {p.identity : p \in Outcomes}
Begun(p) == [at |-> "lookup", outcome |-> p, next |-> 1, cost |-> 0]
Idle == [at |-> "idle", outcome |-> NoOutcome, next |-> 1, cost |-> 0]

\* The fill commands of an outcome, order by order.
Commands(p) ==
    FlattenSeq([k \in 1 .. Len(p.accepted) |->
        [j \in 1 .. Len(p.accepted[k].fills) |->
            [identity |-> p.identity, intent |-> p.accepted[k].intent,
             id |-> p.accepted[k].fills[j].id, qty |-> p.accepted[k].fills[j].qty,
             cost |-> p.accepted[k].fills[j].cost]]])

\* An outcome as the broker reports it: quantities and costs are numbers.
WellFormed(p) ==
    /\ p.accepted \in Seq(Range(p.accepted))
    /\ \A a \in Range(p.accepted) :
         /\ a.fills \in Seq(Range(a.fills)) /\ a.remaining \subseteq Int
         /\ \A f \in Range(a.fills) : f.qty \in Int /\ f.cost \in Int
    /\ \A i \in DOMAIN p.approved : p.approved[i] \in Int

ASSUME OutcomeAssumption ==
    /\ NoWorker \notin Workers /\ NoOutcome \notin Outcomes
    /\ \A p \in Outcomes : WellFormed(p)
    /\ OpeningCash \in Nat /\ MaxCalls \in Nat /\ MaxFailures \in Nat /\ MaxSpends \in Nat

\* What the commands fill of an intent.
Executed(cmds, intent) ==
    SumFunctionOnSet([k \in DOMAIN cmds |-> IF cmds[k].intent = intent THEN cmds[k].qty ELSE 0],
                     DOMAIN cmds)

\* The quantity that is left of an order: as the broker says, or what the
\* fills leave.
Remaining(p, a) ==
    IF a.remaining = {} THEN p.approved[a.intent] - Executed(Commands(p), a.intent)
    ELSE CHOOSE q \in a.remaining : TRUE

\* The orders as the last update of the transaction leaves them.
OrderRows(p) ==
    {[identity |-> p.identity, intent |-> a.intent, status |-> a.status,
      requested |-> p.approved[a.intent], remaining |-> Remaining(p, a),
      executed |-> p.approved[a.intent] - Remaining(p, a)] : a \in Range(p.accepted)}

OutcomeTypeOK ==
    /\ ingested \in [Identities -> Outcomes \cup {NoOutcome}]
    /\ cash \in Nat /\ account \in Workers \cup {NoWorker}
    /\ inserting \in [Identities -> Workers \cup {NoWorker}]
    /\ \A w \in Workers :
         /\ call[w].at \in {"idle", "lookup", "insert", "fill", "recover"}
         /\ call[w].at # "idle" => call[w].outcome \in Outcomes
         /\ (\E i \in Identities : inserting[i] = w) => call[w].at = "fill"
         /\ account = w => call[w].at = "fill"
    /\ result \in [Workers -> Outcomes \cup {NoOutcome}]
    /\ calls \in 0 .. MaxCalls /\ failures \in 0 .. MaxFailures /\ spends \in 0 .. MaxSpends

-----------------------------------------------------------------------------
\* validateBrokerOutcome: a complete outcome resolves every approved intent
\* once, its fills are distinct, and every accepted order adds up.
validateBrokerOutcome(p) ==
    LET taken == [k \in 1 .. Len(p.accepted) |-> p.accepted[k].intent]
        ids == [k \in 1 .. Len(Commands(p)) |-> Commands(p)[k].id]
    IN /\ p.complete
       /\ Range(taken) \subseteq DOMAIN p.approved /\ IsInjective(taken) /\ IsInjective(ids)
       /\ \A a \in Range(p.accepted) :
            /\ Remaining(p, a) >= 0
            /\ Executed(Commands(p), a.intent) + Remaining(p, a) = p.approved[a.intent]
            /\ a.status = "filled" => Remaining(p, a) = 0
       /\ Range(taken) \cap p.rejected = {}
       /\ Range(taken) \cup p.rejected = DOMAIN p.approved

\* The end of a transaction: its locks are free.
Release(w) ==
    /\ inserting' = [i \in Identities |-> IF inserting[i] = w THEN NoWorker ELSE inserting[i]]
    /\ account' = IF account = w THEN NoWorker ELSE account

Goto(w, at) == call' = [call EXCEPT ![w].at = at]
Answer(w, r) ==
    /\ call' = [call EXCEPT ![w] = Idle]
    /\ result' = [result EXCEPT ![w] = IF r = "ok" THEN call[w].outcome ELSE NoOutcome]
tables == <<ingested, orders, booked, cash>>

\* RecordBrokerOutcome is called, the first time or again.
Call(w, p) ==
    /\ call[w].at = "idle" /\ calls < MaxCalls /\ calls' = calls + 1
    /\ \/ /\ validateBrokerOutcome(p)
          /\ call' = [call EXCEPT ![w] = Begun(p)]
          /\ result' = [result EXCEPT ![w] = NoOutcome]
       \/ ~validateBrokerOutcome(p) /\ Answer(w, "error")
    /\ UNCHANGED <<tables, inserting, account, failures, spends>>

\* The row is looked up.  The same payload is already recorded; another one
\* is an idempotency conflict.
Lookup(w) ==
    LET p == call[w].outcome
        row == ingested[p.identity]
    IN /\ call[w].at = "lookup"
       /\ \/ row = p /\ Answer(w, "ok")
          \/ row \notin {p, NoOutcome} /\ Goto(w, "recover") /\ UNCHANGED result
          \/ row = NoOutcome /\ Goto(w, "insert") /\ UNCHANGED result
       /\ UNCHANGED <<tables, inserting, account, calls, failures, spends>>

\* Mutant: the row is inserted with ON CONFLICT DO NOTHING.
InsertIgnoring(w) ==
    LET i == call[w].outcome.identity IN
    /\ call[w].at = "insert" /\ inserting[i] = NoWorker
    /\ Goto(w, "fill") /\ inserting' = [inserting EXCEPT ![i] = w]
    /\ UNCHANGED <<tables, account, result, calls, failures, spends>>

\* Mutant: a committed row is waited for as well.
InsertWaiting(w) ==
    LET i == call[w].outcome.identity IN
    /\ call[w].at = "insert" /\ inserting[i] = NoWorker /\ ingested[i] = NoOutcome
    /\ Goto(w, "fill") /\ inserting' = [inserting EXCEPT ![i] = w]
    /\ UNCHANGED <<tables, account, result, calls, failures, spends>>

\* The row is inserted.  An uncommitted row of the same identity is waited
\* for; a committed one fails the transaction.
Insert(w) ==
    LET i == call[w].outcome.identity IN
    /\ call[w].at = "insert" /\ inserting[i] = NoWorker
    /\ \/ ingested[i] # NoOutcome /\ Goto(w, "recover") /\ UNCHANGED inserting
       \/ /\ ingested[i] = NoOutcome /\ Goto(w, "fill")
          /\ inserting' = [inserting EXCEPT ![i] = w]
    /\ UNCHANGED <<tables, account, result, calls, failures, spends>>

\* ApplyFill refuses a fill the cash does not cover, one that exceeds its order
\* (upsertFilledOrder) and one whose provider identity is known.
Refused(w, c) ==
    LET p == call[w].outcome
        done == SubSeq(Commands(p), 1, call[w].next)
    IN \/ cash - call[w].cost - c.cost < 0
       \/ Executed(done, c.intent) > p.approved[c.intent]
       \/ \E f \in booked : f.id = c.id

\* Mutant: ApplyFill runs on the service's own connection and commits by itself.
ApplyFillAlone(w) ==
    LET p == call[w].outcome
        c == Commands(p)[call[w].next]
    IN /\ call[w].at = "fill" /\ call[w].next <= Len(Commands(p))
       /\ account \in {NoWorker, w}
       /\ \/ /\ ~Refused(w, c) /\ account' = w
             /\ call' = [call EXCEPT ![w].next = @ + 1]
             /\ cash' = cash - c.cost /\ booked' = booked \cup {c}
             /\ UNCHANGED inserting
          \/ Refused(w, c) /\ Goto(w, "recover") /\ Release(w) /\ UNCHANGED <<cash, booked>>
       /\ UNCHANGED <<ingested, orders, result, calls, failures, spends>>

\* One fill of the plan; the first one takes the account lock.  A fill that is
\* refused rolls the transaction back.
ApplyFill(w) ==
    LET p == call[w].outcome
        c == Commands(p)[call[w].next]
    IN /\ call[w].at = "fill" /\ call[w].next <= Len(Commands(p))
       /\ account \in {NoWorker, w}
       /\ \/ /\ ~Refused(w, c) /\ account' = w
             /\ call' = [call EXCEPT ![w].next = @ + 1, ![w].cost = @ + c.cost]
             /\ UNCHANGED inserting
          \/ Refused(w, c) /\ Goto(w, "recover") /\ Release(w)
       /\ UNCHANGED <<tables, result, calls, failures, spends>>

\* The transaction commits; its acknowledgement may be lost.
Commit(w) ==
    LET p == call[w].outcome IN
    /\ call[w].at = "fill" /\ call[w].next > Len(Commands(p))
    /\ ingested' = [ingested EXCEPT ![p.identity] = p]
    /\ orders' = orders \cup OrderRows(p)
    /\ booked' = booked \cup Range(Commands(p))
    /\ cash' = cash - call[w].cost
    /\ Release(w)
    /\ \/ Answer(w, "ok") /\ UNCHANGED failures
       \/ failures < MaxFailures /\ failures' = failures + 1 /\ Goto(w, "recover") /\ UNCHANGED result
    /\ UNCHANGED <<calls, spends>>

\* A statement fails, or the server stops and the caller with it.
StatementFails(w) ==
    /\ call[w].at \in {"lookup", "insert", "fill"} /\ failures < MaxFailures
    /\ failures' = failures + 1 /\ Release(w)
    /\ \/ Goto(w, "recover") /\ UNCHANGED result
       \/ Answer(w, "none")
    /\ UNCHANGED <<tables, calls, spends>>

\* After a failed transaction: it is a success when the identical outcome is
\* recorded now.
Recover(w) ==
    LET p == call[w].outcome IN
    /\ call[w].at = "recover"
    /\ Answer(w, IF ingested[p.identity] = p THEN "ok" ELSE "error")
    /\ UNCHANGED <<tables, inserting, account, calls, failures, spends>>

\* A withdrawal or a manual buy.
Spend ==
    /\ account = NoWorker /\ cash > 0 /\ spends < MaxSpends
    /\ cash' = cash - 1 /\ spends' = spends + 1
    /\ UNCHANGED <<ingested, orders, booked, inserting, account, call, result, calls, failures>>

OutcomeInit ==
    /\ ingested = [i \in Identities |-> NoOutcome]
    /\ orders = {} /\ booked = {} /\ cash = OpeningCash
    /\ inserting = [i \in Identities |-> NoWorker] /\ account = NoWorker
    /\ call = [w \in Workers |-> Idle] /\ result = [w \in Workers |-> NoOutcome]
    /\ calls = 0 /\ failures = 0 /\ spends = 0

Step(w) == Lookup(w) \/ Insert(w) \/ ApplyFill(w) \/ Commit(w) \/ Recover(w)

OutcomeNext ==
    \/ \E w \in Workers : (\E p \in Outcomes : Call(w, p)) \/ Step(w) \/ StatementFails(w)
    \/ Spend

OutcomeSpec == OutcomeInit /\ [][OutcomeNext]_outcomeVars
FairOutcomeSpec == OutcomeSpec /\ \A w \in Workers : WF_outcomeVars(Step(w))

-----------------------------------------------------------------------------
\* Every order row adds up, and what it says was executed is in its fills.
OrdersAddUp ==
    \A o \in orders :
        LET of == {f \in booked : f.identity = o.identity /\ f.intent = o.intent}
        IN /\ o.executed + o.remaining = o.requested
           /\ o.executed = SumFunctionOnSet([f \in of |-> f.qty], of)

\* An outcome is in the ledger with all of its fills and orders, or with none.
WholeOutcome ==
    \A i \in Identities :
        LET p == ingested[i] IN
        /\ {f \in booked : f.identity = i} = IF p = NoOutcome THEN {} ELSE Range(Commands(p))
        /\ {o \in orders : o.identity = i} = IF p = NoOutcome THEN {} ELSE OrderRows(p)

\* Retries, races and lost acknowledgements never pay for a fill twice.
PaidOnce == cash = OpeningCash - spends - SumFunctionOnSet([f \in booked |-> f.cost], booked)

\* A caller that is told its outcome is recorded can rely on it.
OkIsRecorded ==
    \A w \in Workers : result[w] # NoOutcome => ingested[result[w].identity] = result[w]

\* Whatever races, is retried or fails between two statements, the orders and
\* the fills in the ledger are those of whole outcomes, paid once, and a caller
\* that was told of success finds its outcome (RecordBrokerOutcome).
OutcomesAreWhole == OutcomeTypeOK /\ OrdersAddUp /\ WholeOutcome /\ PaidOnce /\ OkIsRecorded

\* Every call returns: no two transactions wait for each other.
CallReturns == \A w \in Workers : call[w].at # "idle" ~> call[w].at = "idle"

-----------------------------------------------------------------------------
\* The port is the abstract log of outcomes.
Log == INSTANCE OutcomeLog WITH
    recorded <- ingested, booked <- booked,
    FillsOf <- [p \in Outcomes |-> Range(Commands(p))]

\* The adapter implements the log: an outcome is recorded once, whole, for ever.
ImplementsLog == Log!LogSpec
==============================================================================
