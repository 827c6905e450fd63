--------------------------------- MODULE Risk ---------------------------------
(***************************************************************************)
(* internal/tradingcore: one decision of the shared engine.  A strategy    *)
(* proposes a batch of intents on a portfolio snapshot, PortfolioRiskEngine*)
(* caps and reserves them one after another, a simulation broker fills what*)
(* it approved, and the ledger books the fills one by one or not at all.   *)
(*                                                                         *)
(* Quantities are whole lots.  Amounts are exact (the code uses big.Rat):  *)
(* with rates in 1/Base, an amount is an integer number of 1/Base^2.       *)
(***************************************************************************)
EXTENDS Integers, FiniteSetsExt, Functions

CONSTANTS
    Instruments,    \* 1 .. n, in the order of their identifiers
    Prices,         \* quotes
    Quantities,     \* lots a strategy asks for
    Priorities,     \* OrderIntent.Priority
    Policies,       \* RiskPolicy records; a limit of 0 is no limit
    Base,           \* the code's 10000 basis points
    Portfolios,     \* the portfolios the first decision may start from
    ZeroVolume,     \* instruments a backtest bar may have no volume for
    MaxRounds       \* bound on the number of decisions

\* RiskPolicy.Validate and ExecutionCostPolicy.Validate.
PolicyValid(p) ==
    /\ {p.maxPositions, p.maxOrders, p.maxGross, p.maxPosition, p.maxTurnover,
        p.reserve, p.maxLayers, p.fee, p.slippage} \subseteq Nat
    /\ p.fee + p.slippage < Base

\* NewPortfolioSnapshot: what a snapshot is taken from.
Snapshots ==
    [mode : {"research", "shadow", "paper"}, cash : Nat, spent : Nat,
     held : [Instruments -> Nat], pending : SUBSET Instruments]

\* What the instances have to satisfy.
RiskAssumption ==
    /\ Instruments \subseteq Nat /\ IsFiniteSet(Instruments) /\ Prices \subseteq Nat \ {0}
    /\ Quantities \subseteq Nat \ {0} /\ Priorities \subseteq Nat
    /\ Base \in Nat \ {0} /\ MaxRounds \in Nat /\ ZeroVolume \subseteq Instruments
    /\ Policies # {} /\ \A p \in Policies : PolicyValid(p)
    /\ Portfolios \subseteq Snapshots

VARIABLES
    portfolio,  \* [mode, cash, held, spent, pending]: execution mode, wallet, open
                \* positions, turnover of the account, instruments with an order
    quote,      \* [Instruments -> price], also the mark of a position
    policy,     \* the RiskPolicy of this decision
    batch,      \* the intents not yet evaluated
    eval,       \* [free, gross, turnover]: cash left to reserve, exposures
    approved,   \* the approved intents
    fills,      \* the fills the ledger has still to book
    before,     \* the portfolio when the broker submitted
    unsold,     \* amount of the approved sells the broker did not fill
    refused,    \* history: the ledger refused an approved batch
    decision,   \* how far the decision is
    round

riskVars == <<portfolio, quote, policy, batch, eval, approved, fills, before,
          unsold, refused, decision, round>>

Unit == Base * Base
Sides == {"buy", "sell"}
OrderIntents == [instrument : Instruments, side : Sides, qty : Quantities, priority : Priorities]

\* Exposure of a portfolio at the current marks (portfolioGross).
portfolioGross(held) ==
    SumFunctionOnSet([i \in Instruments |-> held[i] * (quote[i] * Unit)], Instruments)
OpenIn(held) == {i \in Instruments : held[i] > 0}

RiskTypeOK ==
    /\ portfolio \in Snapshots /\ quote \in [Instruments -> Prices] /\ policy \in Policies
    /\ batch \subseteq OrderIntents
    /\ eval \in [free : Int, gross : Nat, turnover : Nat]
    /\ fills \subseteq approved
    /\ \A i, j \in approved : i.instrument = j.instrument => i = j
    /\ decision \in {"idle", "risk", "submit", "booking", "booked"} /\ round \in 0 .. MaxRounds

-----------------------------------------------------------------------------
\* NewDecisionBatch: priority first, then the instrument's identifier.
Precedes(a, b) ==
    \/ a.priority < b.priority
    \/ a.priority = b.priority /\ a.instrument < b.instrument

\* What Evaluate starts from: the snapshot's cash less the reserve, and the
\* exposures of its risk state.
StartEvaluation(p) ==
    [free |-> portfolio.cash - p.reserve * Unit,
     gross |-> portfolioGross(portfolio.held), turnover |-> portfolio.spent]

\* A strategy decides: at most one intent per instrument.
Decide(p, intents) ==
    /\ decision = "idle" /\ round < MaxRounds
    /\ policy' = p /\ batch' = intents
    /\ eval' = StartEvaluation(p) /\ approved' = {}
    /\ decision' = "risk" /\ round' = round + 1
    /\ UNCHANGED <<portfolio, quote, fills, before, unsold, refused>>

\* The layers of a position: every snapshot is taken with PyramidLayers = 1.
Layers == 1

\* The rejections of Evaluate before any amount is looked at.
Rejects(i) ==
    LET owned == portfolio.held[i.instrument] > 0
        new == {a \in approved : a.side = "buy" /\ portfolio.held[a.instrument] = 0}
    IN \/ portfolio.mode # "paper"
       \/ i.instrument \in portfolio.pending
       \/ i.side = "buy" /\ owned /\ ~policy.pyramiding
       \/ i.side = "buy" /\ owned /\ policy.maxLayers > 0 /\ Layers >= policy.maxLayers
       \/ policy.maxOrders > 0
          /\ Cardinality(portfolio.pending) + Cardinality(approved) >= policy.maxOrders
       \/ i.side = "buy" /\ ~owned /\ policy.maxPositions > 0
          /\ Cardinality(OpenIn(portfolio.held)) + Cardinality(new) >= policy.maxPositions

\* costReservation, per lot: the adverse price, and the cash a buy ties up.
AdversePrice(i) ==
    quote[i.instrument] * Base * (Base + (IF i.side = "buy" THEN policy.slippage ELSE -policy.slippage))
CashPrice(i) == quote[i.instrument] * (Base + policy.slippage) * (Base + policy.fee)
ReferencePrice(i) == quote[i.instrument] * Unit

\* capIntent and normalizedQuantity: the lots that every limit leaves room for;
\* no room at all rejects the intent.
capIntent(i) ==
    LET Room(limit, used, price) == IF limit = 0 THEN {} ELSE {(limit * Unit - used) \div price}
        value == portfolio.held[i.instrument] * ReferencePrice(i)
    IN Min({i.qty} \cup Room(policy.maxTurnover, eval.turnover, AdversePrice(i))
           \cup (IF i.side = "sell" THEN {portfolio.held[i.instrument]}
                 ELSE Room(policy.maxPosition, value, ReferencePrice(i))
                      \cup Room(policy.maxGross, eval.gross, ReferencePrice(i))
                      \cup {eval.free \div CashPrice(i)}))

\* Mutants: the loop forgets to charge what it approved.
ApproveGrossless(i, qty) ==
    /\ approved' = approved \cup {[i EXCEPT !.qty = qty]}
    /\ eval' = [eval EXCEPT !.turnover = @ + qty * AdversePrice(i),
                            !.free = @ - (IF i.side = "buy" THEN qty * CashPrice(i) ELSE 0)]
ApproveOverspending(i, qty) ==
    /\ approved' = approved \cup {[i EXCEPT !.qty = qty]}
    /\ eval' = [turnover |-> eval.turnover + qty * AdversePrice(i),
                gross |-> eval.gross + qty * (IF i.side = "buy" THEN ReferencePrice(i) ELSE -ReferencePrice(i)),
                free |-> eval.free + qty * (IF i.side = "buy" THEN -CashPrice(i) ELSE AdversePrice(i))]
ApproveFreeTurnover(i, qty) ==
    /\ approved' = approved \cup {[i EXCEPT !.qty = qty]}
    /\ eval' = [turnover |-> eval.turnover,
                gross |-> eval.gross + qty * (IF i.side = "buy" THEN ReferencePrice(i) ELSE -ReferencePrice(i)),
                free |-> eval.free - (IF i.side = "buy" THEN qty * CashPrice(i) ELSE 0)]

\* An approved intent is charged to the batch.  A buy ties up its notional at
\* the adverse price and its fee; the proceeds of a sell are not counted.
Approve(i, qty) ==
    /\ approved' = approved \cup {[i EXCEPT !.qty = qty]}
    /\ eval' = [turnover |-> eval.turnover + qty * AdversePrice(i),
                gross |-> eval.gross + qty * (IF i.side = "buy" THEN ReferencePrice(i) ELSE -ReferencePrice(i)),
                free |-> eval.free - (IF i.side = "buy" THEN qty * CashPrice(i) ELSE 0)]

\* One turn of the loop of Evaluate: the intent that precedes the others.
EvaluateIntent(i) ==
    /\ decision = "risk" /\ i \in batch /\ \A j \in batch \ {i} : Precedes(i, j)
    /\ \/ ~Rejects(i) /\ capIntent(i) > 0 /\ Approve(i, capIntent(i))
       \/ (Rejects(i) \/ capIntent(i) <= 0) /\ UNCHANGED <<approved, eval>>
    /\ batch' = batch \ {i}
    /\ UNCHANGED <<portfolio, quote, policy, fills, before, unsold, refused, decision, round>>

\* BacktestBroker.Submit rejects the instruments Z whose bar has no volume.
NoVolume(Z) == {a \in approved : a.instrument \in Z}

\* The exposure that the sells among A would have taken down.
Unsold(A) ==
    SumFunctionOnSet([a \in A |-> IF a.side = "sell" THEN a.qty * ReferencePrice(a) ELSE 0], A)

\* SimulationBroker.Submit fills the other approved intents at their adverse price.
Submit(Z) ==
    /\ decision = "risk" /\ batch = {}
    /\ fills' = approved \ NoVolume(Z) /\ before' = portfolio
    /\ unsold' = Unsold(NoVolume(Z))
    /\ decision' = "booking"
    /\ UNCHANGED <<portfolio, quote, policy, batch, eval, approved, refused, round>>

\* The cash a fill moves: a sell pays its fee out of the proceeds.
CashDelta(f) ==
    f.qty * (IF f.side = "buy" THEN -CashPrice(f)
             ELSE quote[f.instrument] * (Base - policy.slippage) * (Base - policy.fee))

\* RecordBrokerOutcome books the fills in the order of their order ids (hashes:
\* any order); a fill the ledger refuses takes the others back.
BookFill(f) ==
    LET cash == portfolio.cash + CashDelta(f)
        lots == portfolio.held[f.instrument] + (IF f.side = "buy" THEN f.qty ELSE -f.qty)
    IN /\ decision = "booking" /\ f \in fills
       /\ \/ /\ cash >= 0 /\ lots >= 0
             /\ portfolio' = [portfolio EXCEPT !.cash = cash, !.held[f.instrument] = lots,
                              !.spent = @ + f.qty * AdversePrice(f)]
             /\ fills' = fills \ {f} /\ UNCHANGED refused
          \/ /\ cash < 0 \/ lots < 0
             /\ portfolio' = before /\ fills' = {} /\ refused' = TRUE
       /\ UNCHANGED <<quote, policy, batch, eval, approved, before, unsold, decision, round>>

Booked ==
    /\ decision = "booking" /\ fills = {} /\ decision' = "booked"
    /\ UNCHANGED <<portfolio, quote, policy, batch, eval, approved, fills, before, unsold, refused, round>>

\* The market moves between two decisions.
Move(q) ==
    /\ decision = "booked" /\ quote' = q /\ decision' = "idle"
    /\ approved' = {} /\ before' = portfolio /\ unsold' = 0
    /\ eval' = [free |-> 0, gross |-> 0, turnover |-> 0]
    /\ UNCHANGED <<portfolio, policy, batch, fills, refused, round>>

RiskInit ==
    /\ portfolio \in Portfolios /\ quote \in [Instruments -> Prices]
    /\ policy = CHOOSE p \in Policies : TRUE
    /\ batch = {} /\ approved = {} /\ fills = {}
    /\ eval = [free |-> 0, gross |-> 0, turnover |-> 0]
    /\ before = portfolio /\ unsold = 0 /\ refused = FALSE
    /\ decision = "idle" /\ round = 0

\* What a strategy may propose: at most one intent for an instrument
\* (TargetAllocationStrategy also refuses a sell beyond the position).
Terms == [side : Sides, qty : Quantities, priority : Priorities]
BatchOf(f) ==
    {[instrument |-> i, side |-> f[i].side, qty |-> f[i].qty, priority |-> f[i].priority] :
        i \in DOMAIN f}
Batches == UNION {{BatchOf(f) : f \in [S -> Terms]} : S \in SUBSET Instruments}

RiskNext ==
    \/ decision = "idle" /\ \E p \in Policies, b \in Batches : Decide(p, b)
    \/ \E i \in batch : EvaluateIntent(i)
    \/ \E Z \in SUBSET ZeroVolume : Submit(Z)
    \/ \E f \in fills : BookFill(f)
    \/ Booked
    \/ \E q \in [Instruments -> Prices] : Move(q)

RiskSpec == RiskInit /\ [][RiskNext]_riskVars

-----------------------------------------------------------------------------
\* The ledger books every batch the risk engine approved, in whatever order
\* its fills come and whatever the broker leaves unfilled.
LedgerNeverRefuses == ~refused

\* A decision never lowers cash below the reserve (or below where it was).
ReserveKept ==
    decision = "booked" => portfolio.cash >= Min({before.cash, policy.reserve * Unit})

\* A decision never raises exposure past the limit, but by what its approved
\* sells left unfilled (Evaluate counts a sell as filled).
GrossWithinLimit ==
    decision = "booked" /\ policy.maxGross > 0 =>
        portfolioGross(portfolio.held)
            <= Max({policy.maxGross * Unit, portfolioGross(before.held)}) + unsold

\* A decision never opens more positions than the limit.
PositionsWithinLimit ==
    decision = "booked" /\ policy.maxPositions > 0 =>
        Cardinality(OpenIn(portfolio.held))
            <= Max({policy.maxPositions, Cardinality(OpenIn(before.held))})

\* A decision never turns over more than the limit leaves.
TurnoverWithinLimit ==
    decision = "booked" /\ policy.maxTurnover > 0 =>
        portfolio.spent <= Max({policy.maxTurnover * Unit, before.spent})

\* What the risk engine approves, the ledger books, and the booked portfolio
\* keeps the limits of the policy (Evaluate, capIntent).
ApprovedIsBookable ==
    /\ RiskTypeOK /\ LedgerNeverRefuses /\ ReserveKept
    /\ GrossWithinLimit /\ PositionsWithinLimit /\ TurnoverWithinLimit
==============================================================================
