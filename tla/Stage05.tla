------------------------------- MODULE Stage05 -------------------------------
(***************************************************************************)
(* internal/backtest/stage05.go: the replay of one strategy.  At every     *)
(* completed bar a planner names targets, a ticker change moves a position *)
(* to the asset's new ticker, and the portfolio is rebalanced, reductions  *)
(* first, one order at a time through the shared risk engine, a simulated  *)
(* broker and an in-memory ledger.  Whatever cannot be traded is either    *)
(* recorded as evidence (a no-fill, a residual, a constrained allocation)  *)
(* or fails the whole replay.                                              *)
(*                                                                         *)
(* Quantities are whole units of which a lot is a multiple; with rates in  *)
(* 1/Base an amount is an integer number of 1/Base^2.  What a planner sees *)
(* in the prices is left open: it names any targets the universe allows.   *)
(***************************************************************************)
EXTENDS Integers, FiniteSetsExt, SequencesExt

CONSTANTS
    Symbols,        \* 1 .. n, in the order of economicSymbolLess
    Asset,          \* [Symbols -> assets]: EconomicAssetIdentities
    Listed,         \* [Symbols -> sets of bars]: SymbolLifecycles
    LastBar,        \* the bars are 1 .. LastBar, the last closes at End - 1 ms
    Markets,        \* [mark, fill, volume], each a function on Symbols
    Lots, Minimums, \* [1 .. LastBar -> quantity]: QuantityStep, MinQuantity
    Strategy,       \* [trend, evidence, gross, neutral, cap, reserve, skip, turnover,
                    \*  tolerance, gap]: the descriptor and its parameters, in 1/Base
    MaxPositions, Cadence, Warmup,
    Version,        \* "v2", "v3" or "v4": ExecutionPolicy.Version
    Liquidate,      \* final_policy = "liquidate"
    Base, Fee, Slip,
    InitialCash

\* What the instances have to satisfy.
Stage05Assumption ==
    /\ Symbols \subseteq Nat /\ DOMAIN Asset = Symbols
    /\ LastBar \in Nat \ {0} /\ Version \in {"v2", "v3", "v4"} /\ Liquidate \in BOOLEAN
    /\ \A s \in Symbols : Listed[s] \subseteq Nat
    /\ \A m \in Markets, s \in Symbols : m.mark[s] > 0 /\ m.fill[s] > 0 /\ m.volume[s] >= 0
    /\ \A b \in 1 .. LastBar : Lots[b] > 0 /\ Minimums[b] >= 0
    /\ {MaxPositions, Cadence, Warmup, Fee, Slip, InitialCash} \subseteq Nat
    /\ Base \in Nat \ {0} /\ Slip < Base

VARIABLES
    bar,            \* index of the reference bar
    market,         \* marks and selected execution bars of the current decision
    cash, pos,      \* backtestMemoryLedger.cash and .positions
    net,            \* [assets -> Int]: what the ledger's events add up to
    traded,         \* the ledger has events
    residuals,      \* symbols with a sell ConstraintResidual diagnostic
    noFills,        \* [symbol, bar, side] of the recorded SimulatedNoFills
    lastTargets, lastRebalance,
    plan,           \* [targets, weight, exits, stopOnly] of the current decision
    want,           \* targetQuantities
    equity,         \* decisionEquity
    budget,         \* remainingBudget
    todo,           \* the symbols the current loop has still to visit
    stopped,        \* history: quantity held of each asset whose stop was decided
    voluntary,      \* history: traded at marks by optional orders of this decision
    phase

vars == <<bar, market, cash, pos, net, traded, residuals, noFills, lastTargets,
          lastRebalance, plan, want, equity, budget, todo, stopped, voluntary, phase>>

ledger == <<cash, pos, net, traded, residuals, noFills>>
Bars == 1 .. LastBar
Assets == {Asset[s] : s \in Symbols}
Held(p) == {s \in Symbols : p[s] > 0}
NoPlan == [targets |-> {}, weight |-> 0, exits |-> {}, stopOnly |-> FALSE]
Zero == [s \in Symbols |-> 0]
HeldOf(a) == MapThenSumSet(LAMBDA s : IF Asset[s] = a THEN pos[s] ELSE 0, Symbols)
Value(p, price) == MapThenSumSet(LAMBDA s : p[s] * price[s] * Base * Base, Symbols)
Sorted(S) == [k \in 1 .. Cardinality(S) |->
                 CHOOSE x \in S : Cardinality({y \in S : y < x}) = k - 1]

TypeOK ==
    /\ bar \in Bars /\ market \in Markets /\ cash \in Nat
    /\ pos \in [Symbols -> Nat] /\ net \in [Assets -> Int] /\ traded \in BOOLEAN
    /\ residuals \subseteq Symbols
    /\ noFills \subseteq [symbol : Symbols, bar : Bars, side : {"buy", "sell"}]
    /\ lastTargets \subseteq Symbols /\ lastRebalance \in 0 .. LastBar
    /\ plan.targets \subseteq Symbols /\ plan.exits \subseteq Symbols
    /\ want \in [Symbols -> Nat] /\ todo \subseteq Symbols
    /\ phase \in {"bar", "stops", "reduce", "add", "check", "final", "liquidate",
                  "result", "done", "failed"}

Init ==
    /\ bar = 1 /\ market \in Markets /\ cash = InitialCash * Base * Base
    /\ pos = Zero /\ net = [a \in Assets |-> 0] /\ traded = FALSE
    /\ residuals = {} /\ noFills = {}
    /\ lastTargets = {} /\ lastRebalance = 0 /\ plan = NoPlan /\ want = Zero
    /\ equity = 0 /\ budget = 0 /\ todo = {} /\ stopped = [a \in Assets |-> 0]
    /\ voluntary = 0 /\ phase = "bar"

-----------------------------------------------------------------------------
\* Planning.

\* Any selection of listed members of the universe snapshot, one ticker of an
\* asset, no more than the strategy's top_n (the equal-weight baseline takes
\* every eligible member).
Selections ==
    {T \in SUBSET {s \in Symbols : bar \in Listed[s]} :
        /\ \A s, t \in T : Asset[s] = Asset[t] => s = t
        /\ Strategy.trend => Cardinality(T) <= MaxPositions}

\* Equal shares of the regime's gross exposure, held to the position cap.
TargetWeight(gross, T) ==
    IF T = {} THEN 0 ELSE Min({gross \div Cardinality(T), IF Strategy.trend THEN Strategy.cap ELSE gross})

\* The exit reasons of a rebalance: every position that is no longer selected has
\* one, and a selected one may (a neutral regime, a lost trend, its stop).  The
\* baselines have none.
Exits(T) == IF Strategy.trend THEN {X \in SUBSET Held(pos) : Held(pos) \ T \subseteq X} ELSE {{}}

\* Between two rebalances of the trend strategy the stops of held positions act.
StopPlans ==
    {[targets |-> lastTargets \ X, weight |-> 0, exits |-> X, stopOnly |-> TRUE] :
        X \in IF Strategy.trend THEN SUBSET Held(pos) \ {{}} ELSE {}}

\* stage05Targets: the plans of this bar that decide anything.
Within == lastRebalance > 0 /\ bar - lastRebalance < Cadence
Plans ==
    IF Within THEN StopPlans
    ELSE UNION {{[targets |-> T, weight |-> TargetWeight(g, T), exits |-> X, stopOnly |-> FALSE] :
                    g \in {Strategy.gross, Strategy.neutral}, X \in Exits(T)} : T \in Selections}

\* Mutant: the old ticker keeps its position.
TransitionCopying(p) ==
    FoldLeft(LAMBDA q, h :
                 LET C == {t \in Symbols : t # h /\ Asset[t] = Asset[h] /\ bar \in Listed[t]} IN
                 IF C = {} THEN q ELSE [q EXCEPT ![Min(C)] = q[h]],
             p, Sorted(Held(p)))

\* transitionEconomicPositions: a position moves to the first listed ticker of
\* its asset other than its own, over whatever is held there.
transitionEconomicPositions(p) ==
    FoldLeft(LAMBDA q, h :
                 LET C == {t \in Symbols : t # h /\ Asset[t] = Asset[h] /\ bar \in Listed[t]} IN
                 IF C = {} THEN q ELSE [q EXCEPT ![Min(C)] = q[h], ![h] = 0],
             p, Sorted(Held(p)))

NextBar == /\ bar' = IF bar < LastBar THEN bar + 1 ELSE bar
           /\ phase' = IF bar < LastBar THEN "bar" ELSE "final"
Fail == phase' = "failed"

\* A bar without a decision: warm-up, or inside the rebalance interval.
Hold ==
    /\ phase = "bar"
    /\ bar < Warmup \/ Within
    /\ pos' = IF bar < Warmup THEN pos ELSE transitionEconomicPositions(pos)
    /\ NextBar
    /\ UNCHANGED <<market, cash, net, traded, residuals, noFills, lastTargets,
                   lastRebalance, plan, want, equity, budget, todo, stopped, voluntary>>

\* The price an order is decided at, and the equity it is sized from: the trend
\* strategy sees the marks only, the baselines the executable price.
DecisionPrice(m) == IF Strategy.trend THEN m.mark ELSE m.fill

\* targetQuantities of rebalanceStage05, with the adverse price and the fee
\* taken off first and the result floored to the lot.
targetQuantities(p, m, e) ==
    [s \in Symbols |->
        IF s \notin p.targets THEN 0
        ELSE LET q == (e * p.weight) \div
                      (DecisionPrice(m)[s] * (Base + Slip) * (Base + Strategy.gap) * (Base + Fee))
             IN (q \div Lots[bar]) * Lots[bar]]

\* A flat, empty decision of execution policies v3 and v4 needs no bar.
EmptyDecision(p) == Version # "v2" /\ p.targets = {} /\ Held(pos) = {}

\* A decision.  missing: some symbol has no bar at the common next open, which
\* fails v3 and v4 and ends the loop of v2; so does the last bar, and for a
\* liquidating replay the one before it, whose fill is kept for the liquidation.
Decide(p, m, missing) ==
    LET moved == transitionEconomicPositions(pos)
        e == cash + Value(moved, DecisionPrice(m))
    IN
    /\ phase = "bar" /\ bar >= Warmup /\ p \in Plans
    /\ market' = m /\ plan' = p /\ pos' = moved /\ equity' = e
    /\ want' = IF p.stopOnly THEN Zero ELSE targetQuantities(p, m, e)
    /\ budget' = (e * Strategy.turnover) \div Base /\ voluntary' = 0
    /\ stopped' = [a \in Assets |->
                      IF p.stopOnly /\ \E s \in p.exits : Asset[s] = a THEN HeldOf(a) ELSE 0]
    /\ CASE EmptyDecision(p) ->
              /\ NextBar /\ lastTargets' = {} /\ todo' = {}
              /\ lastRebalance' = IF p.stopOnly THEN lastRebalance ELSE bar
         [] ~EmptyDecision(p) /\ bar = LastBar ->
              phase' = "final" /\ UNCHANGED <<bar, lastTargets, lastRebalance>> /\ todo' = {}
         [] ~EmptyDecision(p) /\ bar < LastBar /\ missing ->
              /\ phase' = IF Version = "v2" THEN "final" ELSE "failed"
              /\ UNCHANGED <<bar, lastTargets, lastRebalance>> /\ todo' = {}
         [] ~EmptyDecision(p) /\ bar = LastBar - 1 /\ ~missing /\ Liquidate ->
              phase' = "final" /\ UNCHANGED <<bar, lastTargets, lastRebalance>> /\ todo' = {}
         [] OTHER ->
              /\ phase' = IF p.stopOnly THEN "stops" ELSE "reduce"
              /\ todo' = IF p.stopOnly THEN p.exits ELSE Held(moved)
              /\ lastTargets' = p.targets
              /\ lastRebalance' = IF p.stopOnly THEN lastRebalance ELSE bar
              /\ UNCHANGED bar
    /\ UNCHANGED <<cash, net, traded, residuals, noFills>>

-----------------------------------------------------------------------------
\* runStage05Target: one order.

Portfolio == cash + Value(pos, market.fill)
Lot == Lots[bar]
FloorLot(q) == (q \div Lot) * Lot

\* stage05RetainedResidualSlots: every symbol that ever left a sell residual
\* and is held.
RetainedResidualSlots == Cardinality({s \in residuals : pos[s] > 0})

\* maxPositions of the order's policy; the universe baselines own every member.
PositionLimit == IF Strategy.trend THEN Max({1, MaxPositions + RetainedResidualSlots})
                 ELSE Cardinality(Symbols) + RetainedResidualSlots

\* What the risk engine's limits leave, in amounts.
Room == LET gross == Portfolio * Strategy.gross IN
    [gross |-> gross \div Base - Value(pos, market.fill),
     cap   |-> Min({gross, IF Strategy.trend THEN Portfolio * Strategy.cap ELSE gross}) \div Base,
     cash  |-> cash - (Portfolio * Strategy.reserve) \div Base]

\* PortfolioRiskEngine.Evaluate on the order: [qty, code].
Risk(s, side, q, room) ==
    LET price == DecisionPrice(market)[s]
        lots(n) == IF FloorLot(n) = 0 THEN [qty |-> 0, code |-> "below_lot"]
                   ELSE [qty |-> FloorLot(n), code |-> ""]
        position == room.cap - pos[s] * market.fill[s] * Base * Base
    IN IF side = "sell" THEN lots(Min({q, pos[s]}))
       ELSE IF pos[s] = 0 /\ Cardinality(Held(pos)) >= PositionLimit
       THEN [qty |-> 0, code |-> "max_positions"]
       ELSE IF position <= 0 THEN [qty |-> 0, code |-> "position"]
       ELSE IF room.gross <= 0 THEN [qty |-> 0, code |-> "gross"]
       ELSE IF room.cash <= 0 THEN [qty |-> 0, code |-> "cash"]
       ELSE lots(Min({q, position \div (price * Base * Base), room.gross \div (price * Base * Base),
                      room.cash \div (price * (Base + Slip) * (Base + Fee))}))

\* stage05VolumeCap: a tenth of the bar's volume, in lots.
VolumeCap(s) == FloorLot(market.volume[s] \div 10)

\* stage05V3Broker: v3 cancels on a bar without volume, v4 above the cap.
NoFill(s, q) ==
    \/ Version = "v3" /\ market.volume[s] = 0
    \/ Version = "v4" /\ q > VolumeCap(s)

\* What a fill moves: adverse price and fee.
Paid(s, q) == q * market.fill[s] * (Base + Slip) * (Base + Fee)
Received(s, q) == q * market.fill[s] * (Base - Slip) * (Base - Fee)

\* stage05QuantityBelowExecutionMinimum with a tolerance.
BelowMinimum(q, tolerance) == Minimums[bar] > 0 /\ q <= Minimums[bar] + tolerance

\* stage05ConstraintResidual of a rejected order: code is the risk engine's, or
\* "minimum" for the broker's.
ConstraintResidual(s, side, q, room, code) ==
    LET minimum == (Max({Lot, Minimums[bar]}) + Lot) * market.fill[s] * Base * Base
        remaining == CASE code = "gross" -> Max({0, room.gross})
                       [] code = "position" ->
                            Max({0, room.cap - pos[s] * DecisionPrice(market)[s] * Base * Base})
                       [] OTHER -> Max({0, room.cash})
        amount == code \in {"gross", "position", "cash"}
        rejected == \/ code \in {"below_lot", "minimum"} /\ (pos[s] > 0 \/ traded \/ ~Strategy.trend)
                    \/ side = "buy" /\ amount /\ remaining <= minimum
                    \/ pos[s] > 0 /\ amount /\ BelowMinimum(q, Lot)
    IN /\ rejected
       /\ \/ side = "buy"
          \/ q < pos[s] - Lot
          \/ traded /\ BelowMinimum(pos[s], Lot)

\* How the order ends.  A full fill of what the risk engine approved is accepted
\* even when it is less than was asked for; the ledger refuses a buy it has no
\* cash for; every other shortfall needs its evidence or fails the replay.
Outcome(s, side, q, room, risk) ==
    LET code == IF risk.code # "" THEN risk.code
                ELSE IF risk.qty < Minimums[bar] THEN "minimum" ELSE ""
    IN IF Version = "v2" /\ market.volume[s] = 0 THEN "error"
       ELSE IF risk.code = "" /\ NoFill(s, risk.qty) THEN "no_fill"
       ELSE IF code = "" THEN IF side = "buy" /\ Paid(s, risk.qty) > cash THEN "error" ELSE "filled"
       ELSE IF ConstraintResidual(s, side, q, room, code) THEN "residual"
       ELSE IF side = "buy" /\ traded /\ code = "max_positions" THEN "constrained"
       ELSE "error"

\* The order as it ends: [end, qty].
Orders(s, side, q) ==
    UNION {{[end |-> Outcome(s, side, q, room, risk),
             qty |-> IF Outcome(s, side, q, room, risk) = "filled" THEN risk.qty ELSE 0] :
                risk \in {Risk(s, side, q, room)}} : room \in {Room}}

\* An order's effect on the ledger; keep: a mandatory full exit that leaves less
\* than the exchange minimum records it (reconcileMandatoryExitResidual).
RunTarget(o, s, side, keep) ==
    LET left == IF side = "buy" THEN pos[s] + o.qty ELSE pos[s] - o.qty
    IN /\ pos' = [pos EXCEPT ![s] = left]
       /\ cash' = IF side = "buy" THEN cash - Paid(s, o.qty) ELSE cash + Received(s, o.qty)
       /\ net' = [net EXCEPT ![Asset[s]] = @ + (left - pos[s])]
       /\ traded' = (traded \/ o.qty > 0)
       /\ residuals' = IF \/ side = "sell" /\ o.end = "residual"
                          \/ keep /\ o.end # "no_fill" /\ left > 0
                       THEN residuals \cup {s} ELSE residuals
       /\ noFills' = IF o.end = "no_fill" THEN noFills \cup {[symbol |-> s, bar |-> bar, side |-> side]}
                     ELSE noFills

\* The order fails the replay; so does a mandatory full exit that leaves a
\* quantity the exchange would still take.
OrderFails(o, s, keep) ==
    \/ o.end = "error"
    \/ keep /\ o.end # "no_fill" /\ pos[s] > o.qty /\ ~BelowMinimum(pos[s] - o.qty, 0)

-----------------------------------------------------------------------------
\* rebalanceStage05.

\* What an optional order may trade of delta: nothing below the skip threshold,
\* no more than the budget left.
Optional(s, delta) ==
    LET notional == delta * market.mark[s] * Base * Base IN
    IF notional * Base < equity * Strategy.skip THEN 0
    ELSE Min({delta, budget \div (market.mark[s] * Base * Base)})

Reduction(s) ==
    LET delta == pos[s] - want[s] IN
    IF delta <= 0 THEN 0 ELSE IF s \in plan.exits THEN delta ELSE Optional(s, delta)

Addition(s) ==
    LET delta == want[s] - pos[s] IN IF delta <= 0 THEN 0 ELSE Optional(s, delta)

Notional(s, q) == q * market.mark[s] * Base * Base

\* remainingBudget after an order: what it asked for, filled or not.
Spend(s, q, optional) == IF optional THEN budget - Notional(s, q) ELSE budget

\* One position of the reduction loop.
Reduce ==
    /\ phase = "reduce" /\ todo # {}
    /\ LET s == Min(todo)
           q == Reduction(s)
           mandatory == s \in plan.exits
           keep == mandatory /\ want[s] = 0 /\ Strategy.evidence
       IN IF q = 0 THEN todo' = todo \ {s} /\ UNCHANGED <<ledger, budget, voluntary, phase>>
          ELSE \E o \in Orders(s, "sell", q) :
               IF OrderFails(o, s, keep) THEN Fail /\ UNCHANGED <<ledger, todo, budget, voluntary>>
               ELSE /\ RunTarget(o, s, "sell", keep)
                    /\ todo' = todo \ {s} /\ budget' = Spend(s, q, ~mandatory)
                    /\ voluntary' = IF mandatory THEN voluntary ELSE voluntary + Notional(s, o.qty)
                    /\ UNCHANGED phase
    /\ UNCHANGED <<bar, market, lastTargets, lastRebalance, plan, want, equity, stopped>>

ReductionsDone ==
    /\ phase = "reduce" /\ todo = {} /\ phase' = "add" /\ todo' = plan.targets
    /\ UNCHANGED <<bar, market, ledger, lastTargets, lastRebalance, plan, want, equity,
                   budget, stopped, voluntary>>

\* One target of the addition loop.
Add ==
    /\ phase = "add" /\ todo # {}
    /\ LET s == Min(todo)
           q == Addition(s)
       IN IF q = 0 THEN todo' = todo \ {s} /\ UNCHANGED <<ledger, budget, voluntary, phase>>
          ELSE \E o \in Orders(s, "buy", q) :
               IF OrderFails(o, s, FALSE) THEN Fail /\ UNCHANGED <<ledger, todo, budget, voluntary>>
               ELSE /\ RunTarget(o, s, "buy", FALSE)
                    /\ todo' = todo \ {s} /\ budget' = Spend(s, q, TRUE)
                    /\ voluntary' = voluntary + Notional(s, o.qty)
                    /\ UNCHANGED phase
    /\ UNCHANGED <<bar, market, lastTargets, lastRebalance, plan, want, equity, stopped>>

AdditionsDone ==
    /\ phase = "add" /\ todo = {}
    /\ IF Strategy.trend THEN phase' = "check" /\ UNCHANGED bar ELSE NextBar
    /\ UNCHANGED <<market, ledger, lastTargets, lastRebalance, plan, want, equity,
                   budget, todo, stopped, voluntary>>

\* The exposure (times Base) the allocation check lets through: the planned
\* weights and the tolerance; flat means flat, unless a residual is held; and the
\* positions of a sell no-fill, of an earlier decision only when flat.
Allowed ==
    LET target == plan.weight * Cardinality(plan.targets)
        now == {n.symbol : n \in {x \in noFills : x.side = "sell" /\ x.bar = bar}}
        before == {n.symbol : n \in {x \in noFills : x.side = "sell" /\ x.bar < bar /\ target = 0}}
        carried(b) == Base * MapThenSumSet(LAMBDA s : pos[s] * market.fill[s] * Base * Base, b)
    IN (IF target > 0 THEN (target + Strategy.tolerance) * Portfolio
        ELSE IF RetainedResidualSlots > 0 THEN Strategy.tolerance * Portfolio ELSE 0)
       + carried(now) + carried(before)

\* The achieved allocation is checked after the last order.
Check ==
    /\ phase = "check"
    /\ IF Portfolio > 0 /\ Base * Value(pos, market.fill) <= Allowed THEN NextBar ELSE Fail /\ UNCHANGED bar
    /\ UNCHANGED <<market, ledger, lastTargets, lastRebalance, plan, want, equity, budget,
                   todo, stopped, voluntary>>

\* executeStage06RiskStops: the exits the planner named, by the ticker it saw.
Stop ==
    /\ phase = "stops" /\ todo # {}
    /\ LET s == Min(todo) IN
       IF pos[s] = 0 THEN todo' = todo \ {s} /\ UNCHANGED <<ledger, phase>>
       ELSE \E o \in Orders(s, "sell", pos[s]) :
            IF OrderFails(o, s, FALSE) THEN Fail /\ UNCHANGED <<ledger, todo>>
            ELSE RunTarget(o, s, "sell", FALSE) /\ todo' = todo \ {s} /\ UNCHANGED phase
    /\ UNCHANGED <<bar, market, lastTargets, lastRebalance, plan, want, equity, budget,
                   stopped, voluntary>>

StopsDone ==
    /\ phase = "stops" /\ todo = {} /\ NextBar
    /\ UNCHANGED <<market, ledger, lastTargets, lastRebalance, plan, want, equity, budget,
                   todo, stopped, voluntary>>

-----------------------------------------------------------------------------
\* The end of the replay: positions are marked, or liquidated at the last open.
Final(m, missing) ==
    /\ phase = "final" /\ market' = m
    /\ IF ~Liquidate \/ Held(pos) = {} THEN phase' = "result" /\ todo' = {}
       ELSE IF missing THEN Fail /\ todo' = {}
       ELSE phase' = "liquidate" /\ todo' = Held(pos)
    /\ plan' = NoPlan
    /\ UNCHANGED <<bar, ledger, lastTargets, lastRebalance, want, equity, budget,
                   stopped, voluntary>>

\* liquidateStage05 does not take a no-fill for a liquidation.
LiquidateOne ==
    /\ phase = "liquidate" /\ todo # {}
    /\ LET s == Min(todo) IN
       \E o \in Orders(s, "sell", pos[s]) :
           IF OrderFails(o, s, FALSE) \/ o.end = "no_fill" THEN Fail /\ UNCHANGED <<ledger, todo>>
           ELSE RunTarget(o, s, "sell", FALSE) /\ todo' = todo \ {s} /\ UNCHANGED phase
    /\ UNCHANGED <<bar, market, lastTargets, lastRebalance, plan, want, equity, budget,
                   stopped, voluntary>>

Liquidated ==
    /\ phase = "liquidate" /\ todo = {} /\ phase' = "result"
    /\ UNCHANGED <<bar, market, ledger, lastTargets, lastRebalance, plan, want, equity,
                   budget, todo, stopped, voluntary>>

\* reconcileStage05Ledger: the events account for what is held of every asset
\* that was traded.
reconcileStage05Ledger == \A a \in Assets : net[a] = HeldOf(a)

Result ==
    /\ phase = "result"
    /\ phase' = IF reconcileStage05Ledger THEN "done" ELSE "failed"
    /\ UNCHANGED <<bar, market, ledger, lastTargets, lastRebalance, plan, want, equity,
                   budget, todo, stopped, voluntary>>

Next ==
    \/ Hold
    \/ (\E p \in Plans, m \in Markets, missing \in BOOLEAN : Decide(p, m, missing))
    \/ Reduce \/ ReductionsDone \/ Add \/ AdditionsDone \/ Check \/ Stop \/ StopsDone
    \/ (\E m \in Markets, missing \in BOOLEAN : Final(m, missing))
    \/ LiquidateOne \/ Liquidated \/ Result

Spec == Init /\ [][Next]_vars

-----------------------------------------------------------------------------
\* A change of ticker neither duplicates nor drops exposure: what is held of an
\* asset, under whatever ticker, is what the ledger's fills add up to.
RenameKeepsExposure == \A a \in Assets : net[a] = HeldOf(a)

\* The optional orders of a decision, reductions and additions together, trade
\* no more than the turnover budget the decision started with, whatever of them
\* was filled, cancelled or cut down.
TurnoverBudget == Base * voluntary <= equity * Strategy.turnover

\* A decision to be flat that passes the allocation check leaves only positions
\* the exchange would not take: each is a recorded residual, or a sell of it was
\* cancelled for want of volume.
FlatIsEvidenced ==
    (Check /\ phase' # "failed" /\ plan.targets = {}) =>
        \A s \in Held(pos) :
            s \in residuals \/ \E n \in noFills : n.symbol = s /\ n.side = "sell"

\* A stop that was decided is taken: the asset's position is sold down, its order
\* is recorded as not filled, or what is held is a recorded residual.
StopTaken ==
    phase = "stops" /\ todo = {} =>
        \A a \in Assets : stopped[a] > 0 =>
            \/ HeldOf(a) < stopped[a]
            \/ \E s \in Symbols : Asset[s] = a /\
                  \/ s \in residuals
                  \/ \E n \in noFills : n.symbol = s /\ n.bar = bar /\ n.side = "sell"

\* A replay that liquidates ends with nothing but dust: of no asset do the fills
\* leave more than the exchange minimum and one lot.
LiquidationIsComplete ==
    phase = "done" /\ Liquidate => \A a \in Assets : net[a] <= Minimums[bar] + Lots[bar]

====
