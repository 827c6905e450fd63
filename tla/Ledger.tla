-------------------------------- MODULE Ledger --------------------------------
(***************************************************************************)
(* The immutable ledger of internal/ledger: one primary account whose      *)
(* wallet and positions are projections of an append-only event table.     *)
(*                                                                         *)
(* Every command runs in one PostgreSQL transaction that takes the         *)
(* account's advisory lock first (service.go lockAccount), so a command is *)
(* one action.  A transaction that fails anywhere rolls back everything:   *)
(* the action then only records its outcome.  The deferred constraint      *)
(* triggers of internal/database/migrations.go run when it commits; they   *)
(* are the operator Coupled, and a transaction they refuse has the outcome *)
(* "coupling".  Backfill reads outside its transaction and is two actions. *)
(*                                                                         *)
(* Amounts are the integers of module Decimal.  A nil *Decimal is a record *)
(* with exact = FALSE and zero amounts.                                    *)
(***************************************************************************)
EXTENDS Position, FiniteSets, Functions

CONSTANTS
    Symbols,        \* base assets, one position row each
    Keys,           \* idempotency keys clients use
    Quantities, Prices, Fees,      \* fill inputs, in decimal units
    Amounts,        \* adjustment amounts, signed
    Bases,          \* cost bases an operator enters in an asset correction
    OpeningCash,    \* wallets.balance when the ledger is introduced
    LegacyOpen,     \* [Symbols -> Nat]: quantity of a legacy open row, 0 if none
    LegacyClosed,   \* symbols whose legacy row is closed
    Backfillers,    \* concurrent runs of cmd/ledger -action backfill
    NoSymbol        \* ledger_events.symbol = ''

ASSUME LedgerAssumption ==
    /\ IsFiniteSet(Symbols)
    /\ Quantities \subseteq Int /\ Prices \subseteq Int /\ Fees \subseteq Int
    /\ Amounts \subseteq Int /\ Bases \subseteq Int
    /\ OpeningCash \in Nat
    /\ LegacyOpen \in [Symbols -> Nat]
    /\ LegacyClosed \subseteq {s \in Symbols : LegacyOpen[s] = 0}
    /\ NoSymbol \notin Symbols
    /\ "opening" \notin Keys

VARIABLES
    migration,  \* ledger_migration_states.status
    wallet,     \* [exact, cash]: wallets.balance_exact
    positions,  \* [Symbols -> position row]
    batches,    \* ledger_batches: id -> payload (what PayloadHash identifies)
    events,     \* ledger_events
    posted,     \* history: the sums of the events, per account and position
    backfill,   \* [Backfillers -> the open-position count it read, or idle]
    outcome     \* history: what the last command returned

vars == <<migration, wallet, positions, batches, events, posted, backfill, outcome>>

ledger == <<migration, wallet, positions, batches, events, posted>>

-----------------------------------------------------------------------------
BatchIDs == Keys \cup {"opening"}

EventTypes == {"capital_deposit", "capital_withdrawal", "funding_interest",
               "administrative_correction", "buy_fill", "sell_fill",
               "trading_fee", "reversal"}

AdjustmentTypes == {"capital_deposit", "capital_withdrawal",
                    "funding_interest", "administrative_correction"}

FillCommands == [op : {"fill"}, symbol : Symbols, side : {"buy", "sell"},
                 qty : Quantities, price : Prices, fee : Fees]

AdjustmentCommands == [op : {"adjust"}, type : AdjustmentTypes, amount : Amounts]

EventIDs == BatchIDs \X {1, 2}

NoEvent == <<"opening", 0>>

ReversalCommands == [op : {"reverse"}, event : EventIDs]

CorrectionCommands == [op : {"correct"}, symbol : Symbols, qty : Nat, basis : Bases]

OpeningPayload == [op |-> "opening"]

NoBatch == [op |-> "none"]

Payloads == FillCommands \cup AdjustmentCommands \cup ReversalCommands
            \cup CorrectionCommands \cup {OpeningPayload}

Events == [id : EventIDs, batch : BatchIDs, type : EventTypes,
           symbol : Symbols \cup {NoSymbol}, fill : BOOLEAN,
           reverses : EventIDs \cup {NoEvent},
           cash : Int, asset : Int, basis : Int, realized : Int, fee : Int]

Positions == [status : {"absent", "open", "closed"}, exact : BOOLEAN,
              amount : Int, basis : Int, realized : Int, fees : Int]

Totals == [amount : Int, basis : Int, realized : Int, fees : Int]

Wallets == [exact : BOOLEAN, cash : Int]

Postings == [cash : Int, pos : [Symbols -> Totals]]

Migrations == {"pending_approval", "pending_resolution", "ready"}

Outcomes == {"none", "applied", "already_applied", "idempotency_conflict",
             "rejected", "coupling"}

-----------------------------------------------------------------------------
(* Events and their sums.                                                  *)

CashEvent(k, seq, type, delta, reverses) ==
    [id |-> <<k, seq>>, batch |-> k, type |-> type, symbol |-> NoSymbol,
     fill |-> FALSE, reverses |-> reverses,
     cash |-> delta, asset |-> 0, basis |-> 0, realized |-> 0, fee |-> 0]

\* The event a fill's economics are posted in (realized PnL is gross of fees).
FillEvent(k, c, gross, basisDelta, realized) ==
    [id |-> <<k, 1>>, batch |-> k, symbol |-> c.symbol, fill |-> TRUE,
     type |-> IF c.side = "buy" THEN "buy_fill" ELSE "sell_fill",
     reverses |-> NoEvent,
     cash |-> IF c.side = "buy" THEN -gross ELSE gross,
     asset |-> IF c.side = "buy" THEN c.qty ELSE -c.qty,
     basis |-> basisDelta, realized |-> realized, fee |-> 0]

\* The separate fee event; it is inserted only for a positive fee.
FeeEvent(k, c) ==
    [id |-> <<k, 2>>, batch |-> k, symbol |-> c.symbol, fill |-> TRUE,
     type |-> "trading_fee", reverses |-> NoEvent,
     cash |-> -c.fee, asset |-> 0, basis |-> 0, realized |-> -c.fee, fee |-> c.fee]

ReversalEvent(k, o) ==
    [id |-> <<k, 1>>, batch |-> k, type |-> "reversal", symbol |-> o.symbol,
     fill |-> FALSE, reverses |-> o.id,
     cash |-> -o.cash, asset |-> -o.asset, basis |-> -o.basis,
     realized |-> -o.realized, fee |-> -o.fee]

CorrectionEvent(k, c) ==
    [id |-> <<k, 1>>, batch |-> k, type |-> "administrative_correction",
     symbol |-> c.symbol, fill |-> FALSE, reverses |-> NoEvent,
     cash |-> 0, asset |-> c.qty, basis |-> c.basis, realized |-> 0, fee |-> 0]

\* The sums the triggers compare projections with, after one more event.
Post(t, e) ==
    [cash |-> t.cash + e.cash,
     pos |-> IF e.symbol = NoSymbol THEN t.pos
             ELSE [t.pos EXCEPT ![e.symbol] =
                     [amount |-> @.amount + e.asset, basis |-> @.basis + e.basis,
                      realized |-> @.realized + e.realized, fees |-> @.fees + e.fee]]]

Projected(p) == [amount |-> p.amount, basis |-> p.basis,
                 realized |-> p.realized, fees |-> p.fees]
-----------------------------------------------------------------------------
(* Transactions.                                                           *)

Known(k) == batches[k] # NoBatch

Reply(result) == outcome' = result /\ UNCHANGED ledger

\* Mutant: a conflicting payload replaces the batch.
ReplayOverwriting(k, c) ==
    /\ Known(k)
    /\ batches' = [batches EXCEPT ![k] = c]
    /\ outcome' = "already_applied"
    /\ UNCHANGED <<migration, wallet, positions, events, posted>>

\* beginBatch: a known key is answered from its batch and changes nothing.
Replay(k, c) ==
    /\ Known(k)
    /\ Reply(IF batches[k] = c THEN "already_applied" ELSE "idempotency_conflict")

\* Mutant: the trigger on positions is missing.
CoupledWallet(w, ps, total, evs) ==
    /\ w # wallet => w.cash = total.cash
    /\ \A e \in evs : e.cash # 0 \/ e.asset # 0 \/ e.fill

\* require_current_ledger_projection and require_current_projection_for_ledger.
\* A row the transaction did not change is not looked at, and a legacy closed
\* row whose exact columns become zero is exempt.
Coupled(w, ps, total, evs) ==
    /\ w # wallet => w.cash = total.cash
    /\ \A s \in Symbols :
          ps[s] # positions[s] =>
             \/ Projected(ps[s]) = total.pos[s]
             \/ ~positions[s].exact /\ positions[s].status = "closed" /\ ps[s].amount = 0
    /\ \A e \in evs : e.cash # 0 \/ e.asset # 0 \/ e.fill

Commit(k, c, m, w, ps, evs, total) ==
    IF Coupled(w, ps, total, evs)
    THEN /\ migration' = m
         /\ wallet' = w
         /\ positions' = ps
         /\ batches' = [batches EXCEPT ![k] = c]
         /\ events' = events \cup evs
         /\ posted' = total
         /\ outcome' = "applied"
    ELSE Reply("coupling")

\* requireReady followed by the wallet row's nil check.
Ready == migration = "ready" /\ wallet.exact

-----------------------------------------------------------------------------
(* service.go ApplyFill.                                                   *)

ValidFill(c) == c.qty > 0 /\ c.price > 0 /\ c.fee >= 0

Gross(c) == Mul(c.qty, c.price)

CashAfterFill(c) ==
    wallet.cash + (IF c.side = "buy" THEN -Gross(c) ELSE Gross(c)) - c.fee

FillAccepted(c) ==
    /\ ValidFill(c)
    /\ Ready
    /\ CashAfterFill(c) >= 0
    /\ IF c.side = "buy" THEN CanBuy(positions[c.symbol])
                         ELSE CanSell(positions[c.symbol], c.qty)

\* Mutant: a fee of one unit is charged without a fee event.
CommitFillDroppingFee(k, c) ==
    LET applied == applyPosition(positions[c.symbol], c, Gross(c))
        fill == FillEvent(k, c, Gross(c), applied.basisDelta, applied.realized)
        fee  == FeeEvent(k, c)
    IN  Commit(k, c, migration, [exact |-> TRUE, cash |-> CashAfterFill(c)],
               [positions EXCEPT ![c.symbol] = applied.row],
               {fill} \cup (IF c.fee > 1 THEN {fee} ELSE {}),
               Post(Post(posted, fill), fee))

CommitFill(k, c) ==
    LET applied == applyPosition(positions[c.symbol], c, Gross(c))
        fill == FillEvent(k, c, Gross(c), applied.basisDelta, applied.realized)
        fee  == FeeEvent(k, c)
    IN  Commit(k, c, migration, [exact |-> TRUE, cash |-> CashAfterFill(c)],
               [positions EXCEPT ![c.symbol] = applied.row],
               {fill} \cup (IF c.fee > 0 THEN {fee} ELSE {}),
               Post(Post(posted, fill), fee))

ApplyFill(k, c) ==
    /\ \/ Replay(k, c)
       \/ ~Known(k) /\ ~FillAccepted(c) /\ Reply("rejected")
       \/ ~Known(k) /\ FillAccepted(c) /\ CommitFill(k, c)
    /\ UNCHANGED backfill

-----------------------------------------------------------------------------
(* adjustment.go ApplyAdjustment.                                          *)

Delta(c) == IF c.type = "capital_withdrawal" THEN -c.amount ELSE c.amount

AdjustmentAccepted(c) ==
    /\ c.amount # 0
    /\ c.type \in {"capital_deposit", "capital_withdrawal"} => c.amount > 0
    /\ Ready
    /\ wallet.cash + Delta(c) >= 0

CommitAdjustment(k, c) ==
    LET e == CashEvent(k, 1, c.type, Delta(c), NoEvent)
    IN  Commit(k, c, migration, [exact |-> TRUE, cash |-> wallet.cash + Delta(c)],
               positions, {e}, Post(posted, e))

ApplyAdjustment(k, c) ==
    /\ \/ Replay(k, c)
       \/ ~Known(k) /\ ~AdjustmentAccepted(c) /\ Reply("rejected")
       \/ ~Known(k) /\ AdjustmentAccepted(c) /\ CommitAdjustment(k, c)
    /\ UNCHANGED backfill

-----------------------------------------------------------------------------
(* adjustment.go ReverseCashEvent.                                         *)

Reversible(o) == ~o.fill /\ (o.asset # 0 => o.type = "administrative_correction")

\* A position row after the asset correction o is taken back: the row closes at
\* zero quantity, and whatever basis is left stays on it.
ReversedPosition(p, o) ==
    [status |-> IF p.amount = o.asset THEN "closed" ELSE p.status, exact |-> p.exact,
     amount |-> p.amount - o.asset, basis |-> p.basis - o.basis,
     realized |-> p.realized, fees |-> p.fees]

\* Mutant: reverses_event_id has no unique index.
ReversalAcceptedTwice(o) ==
    /\ Ready
    /\ wallet.cash - o.cash >= 0
    /\ o.asset # 0 => /\ positions[o.symbol].exact
                      /\ positions[o.symbol].amount - o.asset >= 0
                      /\ positions[o.symbol].basis - o.basis >= 0

ReversalAccepted(o) ==
    /\ Ready
    /\ wallet.cash - o.cash >= 0
    /\ o.asset # 0 => /\ positions[o.symbol].exact
                      /\ positions[o.symbol].amount - o.asset >= 0
                      /\ positions[o.symbol].basis - o.basis >= 0
    /\ \A e \in events : e.reverses # o.id      \* unique index on reverses_event_id

CommitReversal(k, c, o) ==
    LET e == ReversalEvent(k, o)
    IN  Commit(k, c, migration, [exact |-> TRUE, cash |-> wallet.cash - o.cash],
               IF o.asset # 0
               THEN [positions EXCEPT ![o.symbol] = ReversedPosition(@, o)]
               ELSE positions,
               {e}, Post(posted, e))

ReverseCashEvent(k, o) ==
    LET c == [op |-> "reverse", event |-> o.id]
    IN  /\ \/ ~Reversible(o) /\ Reply("rejected")
           \/ Reversible(o) /\ Replay(k, c)
           \/ Reversible(o) /\ ~Known(k) /\ ~ReversalAccepted(o) /\ Reply("rejected")
           \/ Reversible(o) /\ ~Known(k) /\ ReversalAccepted(o) /\ CommitReversal(k, c, o)
        /\ UNCHANGED backfill

-----------------------------------------------------------------------------
(* correction.go ApplyAssetCorrection.                                     *)

CorrectionAccepted(c) ==
    /\ c.qty > 0 /\ c.basis >= 0
    /\ migration \in {"pending_resolution", "ready"}
    /\ positions[c.symbol].status = "open"
    /\ ~positions[c.symbol].exact
    /\ c.qty = LegacyOpen[c.symbol]      \* positions.amount of the legacy row

Unresolved(ps) == {s \in Symbols : ps[s].status = "open" /\ ~ps[s].exact}

CorrectedPosition(c) == [status |-> "open", exact |-> TRUE, amount |-> c.qty,
                         basis |-> c.basis, realized |-> 0, fees |-> 0]

CommitCorrection(k, c) ==
    LET ps == [positions EXCEPT ![c.symbol] = CorrectedPosition(c)]
        e  == CorrectionEvent(k, c)
    IN  Commit(k, c, IF Unresolved(ps) = {} THEN "ready" ELSE migration,
               wallet, ps, {e}, Post(posted, e))

ApplyAssetCorrection(k, c) ==
    /\ \/ Replay(k, c)
       \/ ~Known(k) /\ ~CorrectionAccepted(c) /\ Reply("rejected")
       \/ ~Known(k) /\ CorrectionAccepted(c) /\ CommitCorrection(k, c)
    /\ UNCHANGED backfill

-----------------------------------------------------------------------------
(* backfill.go Backfill: the report, with its count of open positions, is  *)
(* read before the transaction that applies it.                            *)

Idle == -1

BackfillReport(b) ==
    /\ backfill[b] = Idle
    /\ backfill' = [backfill EXCEPT ![b] =
                      Cardinality({s \in Symbols : positions[s].status = "open"})]
    /\ UNCHANGED <<ledger, outcome>>

BackfillAccepted == migration # "ready" /\ ~Known("opening")

BackfilledPositions ==
    [s \in Symbols |->
        IF positions[s].status = "closed"
        THEN [status |-> "closed", exact |-> TRUE, amount |-> 0, basis |-> 0,
              realized |-> 0, fees |-> 0]
        ELSE positions[s]]

CommitBackfill(b) ==
    LET e == CashEvent("opening", 1, "capital_deposit", OpeningCash, NoEvent)
    IN  Commit("opening", OpeningPayload,
               IF backfill[b] > 0 THEN "pending_resolution" ELSE "ready",
               [exact |-> TRUE, cash |-> OpeningCash], BackfilledPositions,
               {e}, Post(posted, e))

BackfillApply(b) ==
    /\ backfill[b] # Idle
    /\ \/ ~BackfillAccepted /\ Reply("rejected")
       \/ BackfillAccepted /\ CommitBackfill(b)
    /\ backfill' = [backfill EXCEPT ![b] = Idle]

-----------------------------------------------------------------------------
(* database/ledger_seed.go seedLedgerBoundary: the two ways an account     *)
(* starts.                                                                 *)

NoTotals == [amount |-> 0, basis |-> 0, realized |-> 0, fees |-> 0]

LegacyRow(s) ==
    [status |-> IF LegacyOpen[s] > 0 THEN "open"
                ELSE IF s \in LegacyClosed THEN "closed" ELSE "absent",
     exact |-> FALSE, amount |-> 0, basis |-> 0, realized |-> 0, fees |-> 0]

AbsentRow == [status |-> "absent", exact |-> FALSE, amount |-> 0, basis |-> 0,
              realized |-> 0, fees |-> 0]

NothingPosted == [cash |-> 0, pos |-> [s \in Symbols |-> NoTotals]]

OpeningEvent == CashEvent("opening", 1, "capital_deposit", OpeningCash, NoEvent)

SeedFreshInstall ==
    /\ OpeningCash > 0
    /\ migration = "ready"
    /\ wallet = [exact |-> TRUE, cash |-> OpeningCash]
    /\ positions = [s \in Symbols |-> AbsentRow]
    /\ batches = [k \in BatchIDs |-> IF k = "opening" THEN OpeningPayload ELSE NoBatch]
    /\ events = {OpeningEvent}
    /\ posted = Post(NothingPosted, OpeningEvent)

SeedUpgrade ==
    /\ migration = "pending_approval"
    /\ wallet = [exact |-> FALSE, cash |-> 0]
    /\ positions = [s \in Symbols |-> LegacyRow(s)]
    /\ batches = [k \in BatchIDs |-> NoBatch]
    /\ events = {}
    /\ posted = NothingPosted

Init ==
    /\ SeedFreshInstall \/ SeedUpgrade
    /\ backfill = [b \in Backfillers |-> Idle]
    /\ outcome = "none"

Next ==
    \/ \E k \in Keys, c \in FillCommands : ApplyFill(k, c)
    \/ \E k \in Keys, c \in AdjustmentCommands : ApplyAdjustment(k, c)
    \/ \E k \in Keys, o \in events : ReverseCashEvent(k, o)
    \/ \E k \in Keys, s \in Symbols, q \in {LegacyOpen[t] : t \in Symbols}, basis \in Bases :
          ApplyAssetCorrection(k, [op |-> "correct", symbol |-> s, qty |-> q, basis |-> basis])
    \/ \E b \in Backfillers : BackfillReport(b) \/ BackfillApply(b)

Spec == Init /\ [][Next]_vars
-----------------------------------------------------------------------------
(* reconcile.go reconcileCurrent, on the event and fill tables themselves. *)

EventsOf(s) == {e \in events : e.symbol = s}

\* The sums of the columns of a set of events.
CashOf(E) == SumFunctionOnSet([e \in E |-> e.cash], E)

BasisOf(E) == SumFunctionOnSet([e \in E |-> e.basis], E)

TotalsOf(E) ==
    [amount   |-> SumFunctionOnSet([e \in E |-> e.asset], E),
     basis    |-> BasisOf(E),
     realized |-> SumFunctionOnSet([e \in E |-> e.realized], E),
     fees     |-> SumFunctionOnSet([e \in E |-> e.fee], E)]

CashDifference == ~wallet.exact \/ wallet.cash # CashOf(events)

\* Symbols whose projection differs from its events; a symbol without a row
\* differs when its events leave a quantity.
PositionDifferences ==
    {s \in Symbols :
        LET p == positions[s]
            t == TotalsOf(EventsOf(s))
        IN  IF p.status = "absent" THEN t.amount # 0
            ELSE ~p.exact \/ Projected(p) # t}

\* Fill rows (the batches of fill commands) whose events do not restate them.
RecordIssues ==
    {k \in Keys :
        LET c == batches[k]
            trade == {e \in events : e.batch = k /\ e.type \in {"buy_fill", "sell_fill"}}
            fees  == {e \in events : e.batch = k /\ e.type = "trading_fee"}
        IN  /\ c.op = "fill"
            /\ \/ Cardinality(trade) # 1
               \/ \E e \in trade :
                     \/ e.cash # (IF c.side = "buy" THEN -Gross(c) ELSE Gross(c))
                     \/ e.asset # (IF c.side = "buy" THEN c.qty ELSE -c.qty)
               \/ -CashOf(fees) # c.fee}

\* An account that is not ready carries unresolved issues, which are actionable.
Balanced ==
    /\ migration = "ready"
    /\ ~CashDifference
    /\ PositionDifferences = {}
    /\ RecordIssues = {}

-----------------------------------------------------------------------------
(* Properties.                                                             *)

\* The migration state, the projections, the immutable tables, the triggers'
\* totals and what each backfill has read stay in their types: whatever order
\* the commands of the service run in, none of them leaves a record malformed.
TypeOK ==
    /\ migration \in Migrations
    /\ wallet \in Wallets
    /\ positions \in [Symbols -> Positions]
    /\ batches \in [BatchIDs -> Payloads \cup {NoBatch}]
    /\ events \subseteq Events
    /\ posted \in Postings
    /\ backfill \in [Backfillers -> Int]
    /\ outcome \in Outcomes

\* An account that the gates call ready reconciles: every sum over the event
\* and fill tables equals its projection, and no open position is unresolved.
ReadyIsBalanced == migration = "ready" => Balanced

\* The running totals the triggers compare with are the sums of the events.
PostedIsSum ==
    /\ posted.cash = CashOf(events)
    /\ \A s \in Symbols : posted.pos[s] = TotalsOf(EventsOf(s))

ReconciledIn(w, ps, total) ==
    /\ w.cash = total.cash
    /\ \A s \in Symbols : Projected(ps[s]) = total.pos[s]

\* In every state, ready or not, the wallet and each position equal what was
\* posted for them.
Reconciled == ReconciledIn(wallet, positions, posted)

SolventIn(w, ps) ==
    /\ w.cash >= 0
    /\ \A s \in Symbols :
          /\ ps[s].amount >= 0 /\ ps[s].basis >= 0 /\ ps[s].fees >= 0
          /\ ps[s].exact => (ps[s].status = "open" <=> ps[s].amount > 0)

\* No sequence of commands overdraws the wallet or a position, releases more
\* basis than a position holds, or leaves a row open with nothing in it.
Solvent == SolventIn(wallet, positions)

\* Cash plus cost basis is the capital brought in plus the realized PnL: fills
\* and fees neither create nor lose value, whatever they round.
EquityIdentity ==
    LET external == {e \in events : ~e.fill}
    IN  wallet.cash + SumFunctionOnSet([s \in Symbols |-> positions[s].basis], Symbols)
        = CashOf(external) + BasisOf(external)
          + SumFunctionOnSet([s \in Symbols |-> positions[s].realized], Symbols)

\* The posted balance is the sum of the cash events, and the equity of the
\* account is the capital brought in and what its fills made of it
\* (ApplyFill, ApplyAdjustment, reconcileCurrent).
Accounted == PostedIsSum /\ EquityIdentity

\* A reversal cancels its original in every dimension, and an event is
\* reversed at most once, however often and under however many keys it is asked.
ReversalsCancel ==
    \A o \in events :
       LET reversals == {r \in events : r.reverses = o.id}
       IN  /\ Cardinality(reversals) <= 1
           /\ \A r \in reversals :
                 /\ ~o.fill
                 /\ r.symbol = o.symbol
                 /\ r.cash + o.cash = 0 /\ r.asset + o.asset = 0
                 /\ r.basis + o.basis = 0 /\ r.realized + o.realized = 0

\* No order of the commands leaves a record malformed, an account that the
\* backfill calls ready balances, and a reversal takes back exactly its own
\* event, once (Backfill, reconcileCurrent, ReverseCashEvent).
Settled == TypeOK /\ ReadyIsBalanced /\ ReversalsCancel

\* Symbols left closed with cost basis on the row.
Residue == {s \in Symbols : positions[s].status = "closed" /\ positions[s].basis # 0}

\* The deferred triggers refuse no transaction of the service, except the
\* opening of an empty wallet and one on an account with a residue.
CouplingOnlyFromResidue == outcome = "coupling" => OpeningCash = 0 \/ Residue # {}

\* Ledger rows are immutable: a batch keeps its payload and no event is changed
\* or removed, whatever is replayed, reversed or corrected.
AppendOnly ==
    [][/\ events \subseteq events'
       /\ \A k \in BatchIDs : Known(k) => batches'[k] = batches[k]]_vars

\* The assertion the triggers make of every transaction of the service:
\* "position economic projection must equal immutable ledger events written
\* by the same transaction" (migrations.go, require_current_ledger_projection).
ServiceSatisfiesTriggers == outcome # "coupling"

-----------------------------------------------------------------------------
(* The strengthening that makes the safety properties inductive.           *)

NilIsZeroIn(w, ps) ==
    /\ ~w.exact => w.cash = 0
    /\ \A s \in Symbols :
          /\ ~ps[s].exact => Projected(ps[s]) = NoTotals
          /\ ps[s].status = "absent" => ~ps[s].exact

\* What ReverseCashEvent relies on: an event without a fill either moves cash
\* alone or is an asset correction, or its reversal, and moves no cash.
Shape(e) ==
    ~e.fill =>
       \/ /\ e.symbol = NoSymbol /\ e.cash # 0
          /\ e.asset = 0 /\ e.basis = 0 /\ e.realized = 0 /\ e.fee = 0
       \/ /\ e.symbol \in Symbols /\ e.asset # 0
          /\ e.cash = 0 /\ e.realized = 0 /\ e.fee = 0
          /\ e.type = "administrative_correction" => e.asset > 0

\* Until the opening event exists nothing is posted and no row changes, so a
\* count of open positions taken by a backfill cannot be stale.
OpeningFirst ==
    ~Known("opening") =>
       /\ migration = "pending_approval"
       /\ positions = [s \in Symbols |-> LegacyRow(s)]
       /\ posted = NothingPosted
       /\ \A b \in Backfillers :
             backfill[b] # Idle =>
                backfill[b] = Cardinality({s \in Symbols : positions[s].status = "open"})

\* A ready account has no open position without an exact projection.
ReadyIsResolved == migration = "ready" => Unresolved(positions) = {}

LedgerInv ==
    /\ TypeOK
    /\ Reconciled
    /\ Solvent
    /\ NilIsZeroIn(wallet, positions)
    /\ \A e \in events : Shape(e)
    /\ OpeningFirst
    /\ ReadyIsResolved
    /\ CouplingOnlyFromResidue

\* The books t are those of the events E: their sums, and an equity that only
\* the events of no fill change by more than what is realized.
EquityOf(t, E) ==
    LET external == {e \in E : ~e.fill}
    IN  t.cash + SumFunctionOnSet([s \in Symbols |-> t.pos[s].basis], Symbols)
        = CashOf(external) + BasisOf(external)
          + SumFunctionOnSet([s \in Symbols |-> t.pos[s].realized], Symbols)

BooksOf(t, E) ==
    /\ t.cash = CashOf(E)
    /\ \A s \in Symbols : t.pos[s] = TotalsOf({e \in E : e.symbol = s})
    /\ EquityOf(t, E)

\* An event of a stored batch is named after it, and by no other event.
Named(E) ==
    /\ \A e \in E : Known(e.batch) /\ e.id[1] = e.batch
    /\ \A e, f \in E : e.id = f.id => e = f

Cancels(r, o) ==
    /\ ~o.fill
    /\ r.symbol = o.symbol
    /\ r.cash + o.cash = 0 /\ r.asset + o.asset = 0
    /\ r.basis + o.basis = 0 /\ r.realized + o.realized = 0

Reversed(r, E) == \E o \in E : o.id = r.reverses /\ Cancels(r, o)

\* A reversal has its original among the events, and is the only one of it.
ReversedOnce(E) ==
    \A r \in E : r.reverses # NoEvent =>
       Reversed(r, E) /\ \A e \in E : e.reverses = r.reverses => e = r

\* The batch k of the fill c holds its fill event, and its fee event if the
\* fee is not zero.
RestatedIn(k, c, E) ==
    \E e \in E :
       /\ e = FillEvent(k, c, Gross(c), e.basis, e.realized)
       /\ {f \in E : f.batch = k} = {e} \cup (IF c.fee > 0 THEN {FeeEvent(k, c)} ELSE {})
       /\ c.fee >= 0

\* Once the opening event exists, the wallet and the closed rows are exact.
OpenedIsExact ==
    Known("opening") =>
       wallet.exact /\ \A s \in Symbols : positions[s].status = "closed" => positions[s].exact

BookInv ==
    /\ IsFiniteSet(events)
    /\ Named(events)
    /\ BooksOf(posted, events)
    /\ ReversedOnce(events)
    /\ \A k \in Keys : batches[k].op = "fill" => RestatedIn(k, batches[k], events)
    /\ OpenedIsExact
=============================================================================
