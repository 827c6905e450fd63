---------------------------- MODULE BacktestEngine ----------------------------
(***************************************************************************)
(* internal/backtest/engine.go with stage03.go and shared_engine.go: the   *)
(* bar loop of RunBacktest, in the legacy and in the shared engine mode.   *)
(* A run first passes the coverage contract.  Then, at every bar of the    *)
(* timeline, positions are moved to a renamed ticker, exits are evaluated, *)
(* symbols at the end of their data are liquidated, and candidates of the  *)
(* universe are entered.  A decision bar consists of sub-bars (the 1m      *)
(* execution series); shared fills happen at the next bar's first open.    *)
(*                                                                         *)
(* Sizes, cash and costs are those of modules Risk and Stage05: here an    *)
(* entry is accepted or not, and an exit is for the whole position.        *)
(***************************************************************************)
EXTENDS Integers, FiniteSetsExt, SequencesExt

CONSTANTS
    Tickers,        \* 1 .. n in the order of sortedSymbols
    Asset,          \* [Tickers -> assets]: EconomicAssetIdentities
    Lifecycle,      \* [Tickers -> interval of bars]: SymbolLifecycles
    DataSets,       \* the possible series: functions [Tickers -> sets of bars]
    LastBar,        \* the last bar that closes before End
    Moments,        \* the clock of a bar: more than it has sub-bars
    Shapes,         \* [subs, close]: the prices of a decision bar
    Lookback,       \* computeSignalLookback
    MaxPositions,
    Mode,           \* UniverseMode: "static", "recompute" or "replay"
    RebalanceInterval, \* in bars
    HasModel,       \* a model artifact with authority ranks the candidates
    Shared,         \* EngineMode = shared
    Fine,           \* ExecutionSeries is given (has1mData)
    Explicit,       \* volatility sizing: entries carry a stop and a target
    Trailing,       \* "none", "percent" or "atr"
    StopDist, TakeDist, TrailDist, FallbackStop, FallbackTake, TimeStop,
    Rejections      \* may the broker reject an exit: a set of BOOLEANs

\* Prices of a bar: sub-bars that open and a bar that closes where it traded.
BarPrices(h) ==
    /\ h.subs \in Seq([open : Nat, low : Nat \ {0}, high : Nat]) /\ Len(h.subs) \in 1 .. Moments - 2
    /\ \A k \in DOMAIN h.subs : h.subs[k].open \in h.subs[k].low .. h.subs[k].high
    /\ h.close \in Nat
    /\ \E j, k \in DOMAIN h.subs : h.subs[j].low <= h.close /\ h.close <= h.subs[k].high

\* What the instances have to satisfy.
BacktestEngineAssumption ==
    /\ Tickers \subseteq Nat \ {0} /\ LastBar \in Nat \ {0} /\ Lookback \in Nat /\ Moments \in Nat \ {0}
    /\ DataSets \subseteq [Tickers -> SUBSET (1 .. LastBar + 1)]
    /\ {Shared, Fine, Explicit, HasModel} \subseteq BOOLEAN /\ Rejections \subseteq BOOLEAN
    /\ Mode \in {"static", "recompute", "replay"} /\ RebalanceInterval \in Nat
    /\ Trailing \in {"none", "percent", "atr"}
    /\ {StopDist, TakeDist, TrailDist, FallbackStop, FallbackTake, TimeStop} \subseteq Nat
    /\ \A h \in Shapes : BarPrices(h)

VARIABLES
    data,           \* the decision series (and the execution series with it)
    bar,
    shape, ahead,   \* prices of this bar and of the next one
    pos,            \* [Tickers -> position or NoPosition]
    closed,         \* liquidationWindowClosed
    universe,       \* ActiveUniverse
    rebalanced,     \* lastRebalance, 0 for none
    todo,           \* symbols the current loop has still to visit
    runEvidence,    \* [fills, candidates, gates] of RunEvidence
    ran,            \* history: the strategy was run on a candidate
    lastExit,       \* history: the last exit
    booked,         \* history: time of the last booked fill
    phase

engineVars == <<data, bar, shape, ahead, pos, closed, universe, rebalanced, todo, runEvidence, ran, lastExit, booked, phase>>

DecisionBars == 1 .. LastBar
Time == 1 .. LastBar + 1
TimeOf(b, k) == Moments * b + k      \* the time of sub-bar k of bar b
Close == Moments - 1             \* and of its close
Position == [entry : Nat, at : 0 .. LastBar, stop : Int, take : Nat, trail : Nat, held : Nat, seen : Nat]
NoPosition == [entry |-> 0, at |-> 0, stop |-> 0, take |-> 0, trail |-> 0, held |-> 0, seen |-> 0]
Held == {s \in Tickers : pos[s] # NoPosition}
NoExit == [reason |-> "", price |-> 0, level |-> 0, sub |-> 0]
NoLast == [reason |-> "", price |-> 0, level |-> 0, low |-> 0, high |-> 0, seen |-> 0, entry |-> 0,
           explicit |-> FALSE, at |-> 0]

EngineTypeOK ==
    /\ data \in [Tickers -> SUBSET Time] /\ bar \in DecisionBars
    /\ shape \in [Tickers -> Shapes] /\ ahead \in [Tickers -> Shapes]
    /\ pos \in [Tickers -> Position]
    /\ closed \subseteq Tickers /\ universe \subseteq Tickers /\ todo \subseteq Tickers
    /\ rebalanced \in 0 .. bar
    /\ booked \in 0 .. TimeOf(LastBar, Close)
    /\ runEvidence \in [fills : BOOLEAN, candidates : BOOLEAN, gates : BOOLEAN]
    /\ phase \in {"coverage", "bar", "exits", "liquidate", "enter", "done", "coverage_failed"}

EngineInit ==
    /\ data \in DataSets /\ bar = 1 /\ shape \in [Tickers -> Shapes] /\ ahead = shape
    /\ pos = [s \in Tickers |-> NoPosition] /\ closed = {} /\ universe = {} /\ rebalanced = 0 /\ todo = {}
    /\ runEvidence = [fills |-> FALSE, candidates |-> FALSE, gates |-> FALSE]
    /\ ran = FALSE /\ lastExit = NoLast /\ booked = 0 /\ phase = "coverage"

-----------------------------------------------------------------------------
\* The coverage contract of the shared engine.

\* validateBarCoverage with lifecycleCoverageBounds: a series reaches both ends
\* of its lifecycle inside the requested interval and has no gap.
Covered(s) ==
    /\ data[s] # {}
    /\ Min(data[s]) <= Min(Lifecycle[s]) /\ Max(data[s]) >= Min({Max(Lifecycle[s]), LastBar})
    /\ data[s] = Min(data[s]) .. Max(data[s])

Coverage ==
    /\ phase = "coverage"
    /\ phase' = IF Shared /\ ~\A s \in Tickers : Covered(s) THEN "coverage_failed" ELSE "bar"
    /\ UNCHANGED <<data, bar, shape, ahead, pos, closed, universe, rebalanced, todo, runEvidence, ran, lastExit, booked>>

-----------------------------------------------------------------------------
\* filterSeriesWindow: bars that close after End are not decided on; the
\* execution series keeps them.
Prepared(s) == data[s] \cap DecisionBars
HasBar(s) == bar \in Prepared(s)
HasContext(s) == HasBar(s) /\ Cardinality({b \in Prepared(s) : b < bar}) >= Lookback

\* nextExecutable: the bar whose open is the first after bar b closes, 0 for none.
nextExecutable(s, b) ==
    LET later == {c \in IF Fine THEN data[s] ELSE Prepared(s) : c > b} IN
    IF later = {} THEN 0 ELSE Min(later)

\* The fill is inside the run.
Executable(s, b) == nextExecutable(s, b) \in DecisionBars

\* isLastLiquidationOpportunity: there is a fill after this bar and none after
\* the next one.
isLastLiquidationOpportunity(s) ==
    LET later == {b \in Prepared(s) : b > bar} IN
    Executable(s, bar) /\ (later = {} \/ ~Executable(s, Min(later)))

\* remapRenamedPositions: a position follows its asset to the ticker the
\* universe has, when that has a bar.
Moves(o, target) == o \in Held /\ target[Asset[o]] \notin {0, o} /\ HasBar(target[Asset[o]])
remapRenamedPositions(target) ==
    [s \in Tickers |->
        LET from == {o \in Tickers : Moves(o, target) /\ target[Asset[o]] = s} IN
        IF from # {} THEN pos[CHOOSE o \in from : TRUE]
        ELSE IF Moves(s, target) THEN NoPosition ELSE pos[s]]

\* buildBacktestUniverseSelection: the symbols that have a full window, all of
\* them or those a policy accepts and selects.  resolveReplayUniverse: the
\* members of the latest snapshot, whatever their windows.
Universes ==
    CASE Mode = "static" -> {{s \in Tickers : HasContext(s)}}
      [] Mode = "recompute" -> SUBSET {s \in Tickers : HasContext(s)}
      [] Mode = "replay" -> SUBSET Tickers

Due == Mode = "static" \/ rebalanced = 0 \/ bar - rebalanced >= RebalanceInterval

\* A bar: the universe in force, the renames, and which positions are looked at.
StartBar(U, target) ==
    /\ phase = "bar"
    /\ IF Due THEN U \in Universes /\ rebalanced' = bar ELSE U = universe /\ UNCHANGED rebalanced
    /\ \A a \in DOMAIN target :
          IF target[a] = 0 THEN \A s \in U : Asset[s] # a ELSE target[a] \in U /\ Asset[target[a]] = a
    /\ universe' = U
    /\ runEvidence' = [runEvidence EXCEPT !.candidates = @ \/ U # {}]
    /\ pos' = remapRenamedPositions(target)
    /\ closed' = (closed \ {o \in Tickers : Moves(o, target)})
                 \cup {target[Asset[o]] : o \in {x \in closed : Moves(x, target)}}
    /\ todo' = {s \in Tickers : pos'[s] # NoPosition /\ HasContext(s)}
    /\ phase' = "exits"
    /\ UNCHANGED <<data, bar, shape, ahead, ran, lastExit, booked>>

-----------------------------------------------------------------------------
\* Exits.

\* RatchetPercentTrailingStop and RatchetATRTrailingStop: upward only.
Ratchet(trail, price, entry) ==
    LET reference == IF Trailing = "atr" THEN Max({price, entry}) ELSE price IN
    IF Trailing = "none" \/ (Trailing = "percent" /\ price <= entry) \/ reference <= TrailDist
    THEN trail ELSE Max({trail, reference - TrailDist})

High(h) == Max({h.subs[k].high : k \in DOMAIN h.subs})
Low(h) == Min({h.subs[k].low : k \in DOMAIN h.subs})

\* What sub-bar k is scanned with: trailing references count only after the
\* sub-bar that they are of has closed.
TrailAt(p, h, k) == Max({p.trail} \cup {Ratchet(p.trail, h.subs[j].high, p.entry) : j \in 1 .. k - 1})
SeenAt(p, h, k) == Max({p.seen} \cup {h.subs[j].high : j \in 1 .. k - 1})
LevelAt(p, h, k) == Max({p.stop, TrailAt(p, h, k)})

StopHit(p, h, k) == LevelAt(p, h, k) > 0 /\ h.subs[k].low <= LevelAt(p, h, k)
TakeHit(p, h, k) == p.take > 0 /\ h.subs[k].high >= p.take

\* The exit at a sub-bar that hits: the stop before the target, at the level or
\* gapped through it.
SubBar(p, h, k) ==
    LET level == LevelAt(p, h, k)
        trailed == TrailAt(p, h, k) >= level /\ ~TakeHit(p, h, k)
    IN IF StopHit(p, h, k)
       THEN [reason |-> IF trailed THEN "trail" ELSE "stop",
             price |-> Min({h.subs[k].open, level}), level |-> level, sub |-> k]
       ELSE [reason |-> "take", price |-> Max({h.subs[k].open, p.take}), level |-> p.take, sub |-> k]

\* evaluateIntrabarProtectiveExit: the first sub-bar that hits.
Scan(p, h) ==
    LET hits == {k \in DOMAIN h.subs : StopHit(p, h, k) \/ TakeHit(p, h, k)}
        first == IF hits = {} THEN Len(h.subs) + 1 ELSE Min(hits)
    IN [trail |-> TrailAt(p, h, first), seen |-> SeenAt(p, h, first),
        exit |-> IF hits = {} THEN NoExit ELSE SubBar(p, h, first)]

\* What EvaluateBarCloseExit is given: with a lower resolution the shared engine
\* has evaluated the protective orders already.
AtClose(p) == IF Shared /\ Fine THEN [p EXCEPT !.stop = 0, !.take = 0, !.trail = 0] ELSE p

\* EvaluateBarCloseExit: protective first, then time and signal, which a losing
\* position does not take.
EvaluateBarCloseExit(p, h, sell) ==
    LET exit(r, v) == [reason |-> r, price |-> h.close, level |-> v, sub |-> 0] IN
    CASE p.stop > 0 /\ Low(h) <= p.stop -> exit("stop", p.stop)
      [] p.take > 0 /\ High(h) >= p.take /\ ~(p.stop > 0 /\ Low(h) <= p.stop) -> exit("take", p.take)
      [] OTHER ->
         IF p.trail > 0 /\ Trailing # "none" /\ Low(h) <= p.trail THEN exit("trail", p.trail)
         ELSE IF p.stop = 0 /\ Low(h) <= p.entry - FallbackStop THEN exit("fallback_stop", p.entry - FallbackStop)
         ELSE IF p.take = 0 /\ High(h) >= p.entry + FallbackTake THEN exit("fallback_take", p.entry + FallbackTake)
         ELSE IF h.close >= p.entry /\ TimeStop > 0 /\ p.held >= TimeStop THEN exit("time", 0)
         ELSE IF h.close >= p.entry /\ sell THEN exit("signal", 0)
         ELSE NoExit

\* determineExitPrice of the legacy engine, at the level or gapped through it.
determineExitPrice(x, h) ==
    CASE x.level = 0 -> h.close
      [] x.level # 0 /\ x.reason \in {"take", "fallback_take"} -> Max({h.subs[1].open, x.level})
      [] OTHER -> Min({h.subs[1].open, x.level})

Sold(s, p, x, price, low, high, seen, at) ==
    /\ pos' = [pos EXCEPT ![s] = NoPosition]
    /\ lastExit' = [reason |-> x.reason, price |-> price, level |-> x.level, low |-> low, high |-> high,
                seen |-> seen, entry |-> p.entry, explicit |-> p.stop > 0, at |-> at]
    /\ booked' = at
    /\ runEvidence' = [runEvidence EXCEPT !.fills = TRUE]

Kept(s, p) == pos' = [pos EXCEPT ![s] = p] /\ UNCHANGED <<lastExit, booked, runEvidence>>

\* One position at one bar.  The legacy engine raises the trailing stop by the
\* bar's high before it looks at the bar; the shared one afterwards.
ExitOne(sell, rejected) ==
    /\ phase = "exits" /\ todo # {}
    /\ LET s == Min(todo)
           h == shape[s]
           p == [pos[s] EXCEPT !.held = @ + 1,
                               !.trail = IF Shared THEN @ ELSE Ratchet(@, High(h), pos[s].entry)]
           scan == IF Fine THEN Scan(p, h) ELSE [trail |-> p.trail, seen |-> p.seen, exit |-> NoExit]
           x == EvaluateBarCloseExit(AtClose([p EXCEPT !.trail = scan.trail]), h, sell)
           raised == IF Shared /\ ~Fine THEN Ratchet(scan.trail, High(h), p.entry) ELSE scan.trail
           held == [p EXCEPT !.trail = scan.trail, !.seen = Max({@, High(h)})]
       IN IF scan.exit # NoExit
          THEN LET e == scan.exit IN
               IF Shared /\ rejected THEN Kept(s, held)
               ELSE Sold(s, p, e, e.price, h.subs[e.sub].low, h.subs[e.sub].high, scan.seen, TimeOf(bar, e.sub))
          ELSE IF x = NoExit THEN Kept(s, [held EXCEPT !.trail = raised])
          ELSE IF ~Shared
          THEN Sold(s, p, x, determineExitPrice(x, h), Low(h), High(h), p.seen, TimeOf(bar, Close))
          ELSE IF ~Executable(s, bar) \/ rejected THEN Kept(s, held)
          ELSE LET open == ahead[s].subs[1] IN
               Sold(s, p, x, open.open, open.low, open.high, p.seen, TimeOf(nextExecutable(s, bar), 1))
    /\ todo' = todo \ {Min(todo)}
    /\ UNCHANGED <<data, bar, shape, ahead, closed, universe, rebalanced, ran, phase>>

ExitsDone ==
    /\ phase = "exits" /\ todo = {}
    /\ phase' = "liquidate" /\ todo' = IF Shared THEN {s \in Tickers : HasBar(s)} ELSE {}
    /\ UNCHANGED <<data, bar, shape, ahead, pos, closed, universe, rebalanced, runEvidence, ran, lastExit, booked>>

\* The last bar of a symbol that still has a fill: no entry any more, and its
\* position is closed.
LiquidateOne(rejected) ==
    /\ phase = "liquidate" /\ todo # {}
    /\ LET s == Min(todo)
           open == ahead[s].subs[1]
       IN /\ todo' = todo \ {s}
          /\ closed' = IF isLastLiquidationOpportunity(s) THEN closed \cup {s} ELSE closed
          /\ IF isLastLiquidationOpportunity(s) /\ pos[s] # NoPosition /\ ~rejected
             THEN Sold(s, pos[s], [NoExit EXCEPT !.reason = "liquidation"], open.open, open.low, open.high,
                         pos[s].seen, TimeOf(nextExecutable(s, bar), 1))
             ELSE UNCHANGED <<pos, lastExit, booked, runEvidence>>
    /\ UNCHANGED <<data, bar, shape, ahead, universe, rebalanced, ran, phase>>

\* buildEntryCandidates: the shortlist or the whole universe; of a model's
\* ranking only what it selects.
buildEntryCandidates == {C \in SUBSET universe : HasModel \/ C # {} \/ universe = {}}

\* Entries begin; the shared engine waits for the required model features.
LiquidationDone(features, C) ==
    /\ phase = "liquidate" /\ todo = {} /\ phase' = "enter"
    /\ todo' = IF Shared /\ ~features THEN {} ELSE C
    /\ runEvidence' = [runEvidence EXCEPT !.gates = @ \/ (Shared /\ ~features)]
    /\ UNCHANGED <<data, bar, shape, ahead, pos, closed, universe, rebalanced, ran, lastExit, booked>>

hasEconomicPosition(s) == pos[s] # NoPosition \/ \E o \in Held : Asset[o] = Asset[s]

\* The candidate reaches the strategy.
Considered(s) ==
    /\ ~hasEconomicPosition(s) /\ HasContext(s)
    /\ Shared => s \notin closed /\ Executable(s, bar)

\* determinePositionSize sets stop and target from the price it is given: in the
\* shared engine the signal's, whatever the fill's price is then.
Bought(s, price, reference, at) ==
    pos' = [pos EXCEPT ![s] =
        [entry |-> price, at |-> at, held |-> 0, seen |-> 0,
         stop |-> IF Explicit THEN reference - StopDist ELSE 0,
         take |-> IF Explicit THEN reference + TakeDist ELSE 0,
         trail |-> IF ~Shared /\ Trailing = "atr" THEN Max({0, price - TrailDist}) ELSE 0]]

\* One candidate: the shared engine fills at the next open through strategy,
\* risk and broker, the legacy one at the next sub-bar's open or at the close.
EnterOne(s, outcome) ==
    /\ phase = "enter" /\ s \in todo /\ todo' = todo \ {s}
    /\ ran' = (ran \/ Considered(s))
    /\ LET full == Cardinality(Held) >= MaxPositions
           next == ahead[s].subs[1].open
           price == IF Shared \/ (Fine /\ nextExecutable(s, bar) > 0) THEN next ELSE shape[s].close
       IN IF Considered(s) /\ outcome = "filled" /\ ~full
          THEN /\ Bought(s, price, IF Shared THEN shape[s].close ELSE price,
                         IF Shared THEN nextExecutable(s, bar) ELSE bar)
               /\ booked' = IF Shared THEN TimeOf(nextExecutable(s, bar), 1) ELSE TimeOf(bar, Close)
               /\ runEvidence' = [runEvidence EXCEPT !.fills = TRUE]
          ELSE /\ runEvidence' = [runEvidence EXCEPT !.gates = @ \/ (Considered(s) /\ outcome # "declined")]
               /\ UNCHANGED <<pos, booked>>
    /\ UNCHANGED <<data, bar, shape, ahead, closed, universe, rebalanced, lastExit, phase>>

\* The next bar of the timeline; a symbol's prices move on with its series.
EndBar(next) ==
    /\ phase = "enter" /\ todo = {}
    /\ bar' = IF bar < LastBar THEN bar + 1 ELSE bar
    /\ phase' = IF bar < LastBar THEN "bar" ELSE "done"
    /\ LET moves(s) == bar < LastBar /\ bar + 1 \in Prepared(s) IN
       /\ shape' = [s \in Tickers |-> IF moves(s) THEN ahead[s] ELSE shape[s]]
       /\ ahead' = [s \in Tickers |-> IF moves(s) THEN next[s] ELSE ahead[s]]
       /\ \A s \in Tickers : ~moves(s) => next[s] = ahead[s]
    /\ UNCHANGED <<data, pos, closed, universe, rebalanced, todo, runEvidence, ran, lastExit, booked>>

EngineNext ==
    \/ Coverage
    \/ (\E U \in SUBSET Tickers : \E target \in [{Asset[s] : s \in Tickers} -> U \cup {0}] : StartBar(U, target))
    \/ (\E sell \in BOOLEAN, rejected \in Rejections : ExitOne(sell, rejected))
    \/ ExitsDone
    \/ (\E rejected \in Rejections : LiquidateOne(rejected))
    \/ (\E features \in BOOLEAN, C \in buildEntryCandidates : LiquidationDone(features, C))
    \/ (\E s \in todo, outcome \in {"declined", "rejected", "filled"} : EnterOne(s, outcome))
    \/ (\E next \in [Tickers -> Shapes] : EndBar(next))

EngineSpec == EngineInit /\ [][EngineNext]_engineVars

-----------------------------------------------------------------------------
\* classifySharedRun: why a finished run has the trades it has.
classifySharedRun ==
    IF runEvidence.fills THEN "successful"
    ELSE IF ~runEvidence.candidates \/ runEvidence.gates THEN "gating_zero_trades"
    ELSE "strategy_zero_trades"

\* A change of ticker and an entry under the new one together never give an
\* asset two positions.
OneExposure == \A s, t \in Held : Asset[s] = Asset[t] => s = t

\* In the shared engine a trailing stop fills at a level that prices seen before
\* the sub-bar had set (the legacy one raises it by the bar's own high).
NoLookahead ==
    Shared /\ lastExit.reason = "trail" => lastExit.level <= Max({lastExit.entry, lastExit.seen}) - TrailDist

\* An exit has a price at which its bar or sub-bar traded.
ExitIsTraded == lastExit.reason # "" => lastExit.price \in lastExit.low .. lastExit.high

\* The percentage exits are for positions that have none of their own.  (The
\* shared engine hides theirs from the bar's close when it has scanned sub-bars.)
FallbackOnlyWithoutStop ==
    ~(Shared /\ Fine) /\ lastExit.reason \in {"fallback_stop", "fallback_take"} => ~lastExit.explicit

\* A shared run ends without a position when no exit was rejected and no ticker
\* is renamed: a position may move to a ticker that has no fill left.
LiquidatedAtEnd ==
    phase = "done" /\ Shared /\ Rejections \subseteq {FALSE}
    /\ (\A s, t \in Tickers : Asset[s] = Asset[t] => s = t) => Held = {}

\* A run in which the strategy was asked, no gate stepped in and nothing was
\* filled is put down to the strategy.
QuietIsStrategy ==
    phase = "done" /\ ran /\ ~runEvidence.gates /\ ~runEvidence.fills =>
        classifySharedRun = "strategy_zero_trades"

\* What RunBacktest promises of a run, and of every step of it.
RunIsHonest ==
    /\ EngineTypeOK
    /\ OneExposure /\ NoLookahead /\ ExitIsTraded
    /\ FallbackOnlyWithoutStop /\ LiquidatedAtEnd /\ QuietIsStrategy

\* A position whose bars are evaluated does not outlive a price at its stop.
StopHonoured ==
    \A sell \in BOOLEAN : ExitOne(sell, FALSE) =>
        LET s == Min(todo) IN
        pos[s].stop > 0 /\ Low(shape[s]) <= pos[s].stop /\ (Fine \/ ~Shared \/ Executable(s, bar)) =>
            pos'[s] = NoPosition

\* Without sub-bars the ledger's fills are booked in the order of their times.
LedgerChronological == ~Fine => booked' >= booked
=============================================================================
