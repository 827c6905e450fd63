----------------------------- MODULE TradeCycle -----------------------------
(***************************************************************************)
(* internal/services/trending.go and shared_engine_adapter.go: one cycle   *)
(* of AnalyzeTrendingCoins, from the settings it reads to the positions it *)
(* opens.  Cron starts a cycle every quarter of an hour and two HTTP       *)
(* handlers start one at will; nothing keeps cycles from overlapping.      *)
(*                                                                         *)
(* A buy costs one unit of cash and a position is worth the buys in it.    *)
(* What the market, the exchange and the models say of a candidate is part *)
(* of the shortlist or a choice of the step that asks.                     *)
(***************************************************************************)
EXTENDS Integers, FiniteSetsExt, SequencesExt, Functions

CONSTANTS
    Cycles,         \* cycles that may run at the same time
    Symbols,
    Shortlists,     \* sequences of candidates [symbol, error, qualifies]
    Settings,       \* [auto, max, engine, fallback, strategy]
    FlagModes,      \* values of flags.SharedEngine, or "inactive"
    OpeningCash,
    MaxStarts, MaxExits, MaxFaults      \* bounds

VARIABLES
    settings,       \* rows of settings
    flags,          \* the cutover envelope the process was started with
    layers,         \* [symbol -> buys in its open position], 0: no position
    cash,           \* wallets.balance
    exits,          \* symbols with a reserved close, positions.exit_pending
    turnover,       \* sum of fills.gross_amount
    cycle,          \* [cycle -> its goroutine]
    starts, exited, faults

vars == <<settings, flags, layers, cash, exits, turnover, cycle, starts, exited, faults>>
account == <<layers, cash, exits, turnover, exited>>
env == <<settings, flags, starts>>

Places == {"idle", "analyze", "route", "count", "consider", "buy",
           "ready", "wallet", "portfolio", "fills", "commit", "history", "engine_error"}

Nothing == [s \in Symbols |-> 0]

\* What buildRuntimeDecisionContext has read: the turnover before the time of the
\* decision, the cash, the symbols with open gates, the open positions and what
\* they hold.
NoContext == [past |-> 0, cash |-> 0, gates |-> {}, open |-> {}, held |-> 0]
Idle == [at |-> "idle", settings |-> settings, list |-> <<>>, next |-> 1, count |-> 0, opened |-> 0,
         mode |-> "none", ctx |-> NoContext, approved |-> {}, why |-> "none", bought |-> Nothing]

\* What the instances have to satisfy.
CycleAssumption ==
    /\ IsFiniteSet(Cycles) /\ IsFiniteSet(Symbols) /\ IsFiniteSet(Settings)
    /\ OpeningCash \in Nat /\ MaxStarts \in Nat /\ MaxExits \in Nat /\ MaxFaults \in Nat
    /\ FlagModes \subseteq {"inactive", "off", "shadow", "paper", "limited_live", "full_live"}
    /\ \A s \in Settings : s.max \in Nat /\ s.engine \in {"legacy", "shared", "shadow_compare"}
    /\ \A l \in Shortlists :
         /\ l \in Seq([symbol : Symbols, error : BOOLEAN, qualifies : BOOLEAN])
         /\ \A j, k \in 1 .. Len(l) : l[j].symbol = l[k].symbol => j = k

Opened == {s \in Symbols : layers[s] > 0}

TypeOK ==
    /\ settings \in Settings /\ flags \in FlagModes
    /\ layers \in [Symbols -> Nat] /\ cash \in Nat /\ turnover \in Nat
    /\ exits \subseteq Opened
    /\ \A c \in Cycles :
         /\ cycle[c].at \in Places
         /\ cycle[c].at \in {"consider", "buy"} => cycle[c].next \in 1 .. Len(cycle[c].list)
         /\ cycle[c].at = "commit" => cycle[c].mode = "paper"
    /\ starts \in 0 .. MaxStarts /\ exited \in 0 .. MaxExits /\ faults \in 0 .. MaxFaults

-----------------------------------------------------------------------------
Step(c, at) == cycle[c].at = at

\* The next place of a run, which leaves the context of the shared engine and what
\* was approved in it behind.
Moved(r, at) == [r EXCEPT !.at = at, !.ctx = NoContext, !.approved = {}]
Goto(c, at) == cycle' = [cycle EXCEPT ![c] = Moved(@, at)]

\* A cycle that ended, with what it bought.
Ended(r) == [Idle EXCEPT !.settings = r.settings, !.bought = r.bought]
End(c) == cycle' = [cycle EXCEPT ![c] = Ended(@)]

\* markSharedEngineFailure: every candidate is reported buy_failed.
EngineError(c, why) ==
    cycle' = [cycle EXCEPT ![c] = [Moved(@, "engine_error") EXCEPT !.why = why]]

\* AnalyzeTrendingCoins reads the settings it works with.
Start(c) ==
    /\ Step(c, "idle") /\ starts < MaxStarts /\ starts' = starts + 1
    /\ cycle' = [cycle EXCEPT ![c] = [Idle EXCEPT !.at = "analyze"]]
    /\ UNCHANGED <<settings, flags, account, faults>>

\* BuildUniverseSnapshot and AnalyzeShortlist: candidates in their order, or
\* an error that ends the cycle.
AnalyzeShortlist(c) ==
    /\ Step(c, "analyze")
    /\ \/ \E l \in Shortlists : cycle' = [cycle EXCEPT ![c].at = "route", ![c].list = l]
       \/ End(c)
    /\ UNCHANGED <<env, account, faults>>

\* The engine of a cycle: the cutover envelope overrides the setting.
EngineMode(c) ==
    CASE flags = "inactive" -> cycle[c].settings.engine
      [] flags = "off" -> "legacy"
      [] flags = "shadow" -> "shadow_compare"
      [] flags = "paper" -> "shared"
      [] OTHER -> flags

\* ResolveStrategyAuthority may refuse a strategy that is not the baseline.
MayBeRefused(c) == cycle[c].settings.strategy = "candidate"

\* An experimental strategy needs a deployment and never runs in the legacy
\* engine of a cycle that is routed there.
executeShortlistTradesRouted(c) ==
    LET mode == EngineMode(c)
        run(at, m) == cycle' = [cycle EXCEPT ![c].at = at, ![c].mode = m]
    IN /\ Step(c, "route")
       /\ \/ MayBeRefused(c) /\ EngineError(c, "authority")
          \/ mode = "full_live" /\ EngineError(c, "fenced")
          \/ mode = "legacy" /\ MayBeRefused(c) /\ EngineError(c, "legacy_candidate")
          \/ mode = "legacy" /\ ~MayBeRefused(c) /\ run("count", "legacy")
          \/ mode = "shared" /\ run("ready", "paper")
          \/ mode = "shadow_compare" /\ run("ready", "shadow")
          \/ mode = "limited_live" /\ run("ready", "dry_run")
       /\ UNCHANGED <<env, account, faults>>

-----------------------------------------------------------------------------
\* CountOpenPositions: an error is ignored and counts nothing.
CountOpenPositions(c) ==
    LET read(n) == IF cycle[c].list = <<>> THEN End(c)
                   ELSE cycle' = [cycle EXCEPT ![c].at = "consider", ![c].count = n, ![c].opened = 0]
    IN /\ Step(c, "count")
       /\ \/ read(Cardinality(Opened)) /\ UNCHANGED faults
          \/ faults < MaxFaults /\ faults' = faults + 1 /\ read(0)
       /\ UNCHANGED <<env, account>>

\* classifyEntryDecision over the market gates of the moment.
classifyEntryDecision(c, cand, gates) ==
    /\ ~cand.error /\ cycle[c].settings.auto /\ cand.qualifies /\ gates
    /\ cycle[c].count + cycle[c].opened < cycle[c].settings.max

\* Mutant: a candidate that is not bought is tried again.
AdvanceIfBought(c, more) ==
    LET k == cycle[c].next
        r == [cycle[c] EXCEPT !.at = "consider", !.next = k + more, !.opened = @ + more,
                              !.bought[cycle[c].list[k].symbol] = @ + more]
    IN cycle' = [cycle EXCEPT ![c] = IF r.next > Len(r.list) THEN Ended(r) ELSE r]

\* The next candidate of the loop; PersistHistory and its error change nothing.
Advance(c, more) ==
    LET k == cycle[c].next
        r == [cycle[c] EXCEPT !.at = "consider", !.next = k + 1, !.opened = @ + more,
                              !.bought[cycle[c].list[k].symbol] = @ + more]
    IN cycle' = [cycle EXCEPT ![c] = IF r.next > Len(r.list) THEN Ended(r) ELSE r]

\* Mutant: the open position is not looked up.
ConsiderWithoutLookup(c) ==
    LET cand == cycle[c].list[cycle[c].next] IN
    /\ Step(c, "consider")
    /\ \E gates \in BOOLEAN :
          IF classifyEntryDecision(c, cand, gates) THEN Goto(c, "buy") ELSE Advance(c, 0)
    /\ UNCHANGED <<env, account, faults>>

\* MarketGates, the decision and LookupOpenPosition: a failed lookup is taken
\* for no position.
Consider(c) ==
    LET cand == cycle[c].list[cycle[c].next] IN
    /\ Step(c, "consider")
    /\ \E gates \in BOOLEAN :
          \/ /\ classifyEntryDecision(c, cand, gates)
             /\ \/ /\ IF cand.symbol \in Opened THEN Advance(c, 0) ELSE Goto(c, "buy")
                   /\ UNCHANGED faults
                \/ faults < MaxFaults /\ faults' = faults + 1 /\ Goto(c, "buy")
          \/ ~classifyEntryDecision(c, cand, gates) /\ Advance(c, 0) /\ UNCHANGED faults
    /\ UNCHANGED <<env, account>>

\* The ledger books buys of the symbols in S.
Book(S) ==
    /\ layers' = [s \in Symbols |-> IF s \in S THEN layers[s] + 1 ELSE layers[s]]
    /\ cash' = cash - Cardinality(S) /\ turnover' = turnover + Cardinality(S)
    /\ UNCHANGED <<exits, exited>>

\* executeBuyFromTrendingWithContext: the quote, the sizing or the ledger may
\* fail; a buy of an open position adds to it.
executeBuyFromTrendingWithContext(c) ==
    /\ Step(c, "buy")
    /\ \/ cash > 0 /\ Book({cycle[c].list[cycle[c].next].symbol}) /\ Advance(c, 1)
       \/ Advance(c, 0) /\ UNCHANGED account
    /\ UNCHANGED <<env, faults>>

-----------------------------------------------------------------------------
\* CheckReady and buildDeploymentStrategy, then the time of the decision: what
\* is booked by then lies in its past.
CheckReady(c) ==
    /\ Step(c, "ready")
    /\ \/ cycle' = [cycle EXCEPT ![c].at = "wallet", ![c].ctx.past = turnover]
       \/ EngineError(c, "not_ready")
    /\ UNCHANGED <<env, account, faults>>

\* A shadow run that fails leaves the cycle to the legacy engine.
ContextError(c, why) ==
    IF cycle[c].mode = "shadow" THEN Goto(c, "count") ELSE EngineError(c, why)

\* buildRuntimeDecisionContext: the wallet, then a price and the gates of every
\* candidate.  A candidate without a price fails the whole context.
ReadWallet(c) ==
    /\ Step(c, "wallet")
    /\ \/ /\ \E k \in 1 .. Len(cycle[c].list) : cycle[c].list[k].error
          /\ ContextError(c, "price")
       \/ /\ \A k \in 1 .. Len(cycle[c].list) : ~cycle[c].list[k].error
          /\ \E ok \in SUBSET Symbols :
                cycle' = [cycle EXCEPT ![c].at = "portfolio", ![c].ctx.cash = cash,
                                       ![c].ctx.gates = ok]
       \/ ContextError(c, "market_data")
    /\ UNCHANGED <<env, account, faults>>

\* buildRuntimeDecisionContext: the open positions, a reserved close or not.  The
\* query may fail, or a row lack its exact amount.
ReadPositions(c) ==
    /\ Step(c, "portfolio")
    /\ \/ cycle' = [cycle EXCEPT ![c].at = "fills", ![c].ctx.open = Opened,
                                 ![c].ctx.held = SumFunctionOnSet(layers, Symbols)]
       \/ ContextError(c, "projection")
    /\ UNCHANGED <<env, account, faults>>

\* LegacyRuleStrategy.Decide: legacyEntryGate of every candidate; the places in
\* the shortlist, which are also the ranks, of those it would buy.
Intents(c) ==
    {k \in 1 .. Len(cycle[c].list) :
        /\ cycle[c].settings.auto /\ cycle[c].list[k].qualifies
        /\ cycle[c].list[k].symbol \in cycle[c].ctx.gates
        /\ Cardinality(cycle[c].ctx.open) < cycle[c].settings.max
        /\ cycle[c].list[k].symbol \notin cycle[c].ctx.open}

Least(S) == CHOOSE n \in S : \A k \in S : n <= k

\* The n members of K of the best rank.
Best(K, n) == {k \in K : Cardinality({j \in K : j <= k}) <= n}

\* PortfolioRiskEngine.Evaluate: intents in order of rank while positions,
\* cash and the turnover of all times leave room for them.
Approved(c, spent) ==
    LET room == {cycle[c].settings.max - Cardinality(cycle[c].ctx.open),
                 cycle[c].ctx.cash, cycle[c].ctx.cash + cycle[c].ctx.held - spent}
    IN {cycle[c].list[k].symbol : k \in Best(Intents(c), Least(room))}

\* allowLegacyEngineFallback: only an error before the broker was reached.
allowLegacyEngineFallback(c, stage) ==
    cycle[c].settings.fallback /\ stage \in {"source", "strategy", "risk"}

RunFails(c, stage) ==
    IF allowLegacyEngineFallback(c, stage) THEN Goto(c, "count") ELSE EngineError(c, stage)

\* A shadow run observes what it would have bought; the legacy engine follows.
observeSharedCandidate(c) == cycle[c].mode = "shadow" /\ Goto(c, "count")

\* The pending orders and the fills are read, the strategy decides and the risk
\* engine approves.  An order is inserted filled (applyClose) or in the
\* transaction that fills it (RecordOutcome), so no pending one is ever met, of a
\* reserved close either.  Of the fills booked since the time of the decision,
\* those count that carry an earlier time.
DecideAndEvaluate(c) ==
    /\ Step(c, "fills")
    /\ \/ /\ cycle[c].mode = "paper"
          /\ \E spent \in cycle[c].ctx.past .. turnover :
                cycle' = [cycle EXCEPT ![c].at = "commit", ![c].approved = Approved(c, spent)]
       \/ cycle[c].mode = "paper" /\ RunFails(c, "strategy")
       \/ cycle[c].mode = "dry_run" /\ Goto(c, "history")
       \/ observeSharedCandidate(c)
       \/ ContextError(c, "projection")
    /\ UNCHANGED <<env, account, faults>>

\* The paper broker fills and RecordBrokerOutcome books every fill or none; a
\* committed outcome may still be reported as an error.
RecordOutcome(c) ==
    LET buys == cycle[c].approved
        bought == [s \in Symbols |-> cycle[c].bought[s] + (IF s \in buys THEN 1 ELSE 0)]
        booked(at, why) == cycle' = [cycle EXCEPT ![c] = [Moved(@, at) EXCEPT !.why = why,
                                        !.opened = Cardinality(buys), !.bought = bought]]
    IN /\ Step(c, "commit")
       /\ \/ Cardinality(buys) <= cash /\ Book(buys) /\ booked("history", "none") /\ UNCHANGED faults
          \/ Cardinality(buys) > cash /\ RunFails(c, "ledger") /\ UNCHANGED <<account, faults>>
          \/ /\ faults < MaxFaults /\ faults' = faults + 1
             /\ \/ UNCHANGED account /\ RunFails(c, "broker")
                \/ /\ Cardinality(buys) <= cash /\ Book(buys)
                   /\ booked(IF allowLegacyEngineFallback(c, "trace") THEN "count" ELSE "engine_error", "trace")
       /\ UNCHANGED env

\* The history rows; an error makes the run an engine error although it bought.
PersistHistory(c) ==
    /\ Step(c, "history")
    /\ \/ End(c) /\ UNCHANGED faults
       \/ /\ faults < MaxFaults /\ faults' = faults + 1
          /\ IF cycle[c].mode = "paper" THEN RunFails(c, "history") ELSE EngineError(c, "history")
    /\ UNCHANGED <<env, account>>

\* The failure is broadcast and the cycle ends.
Report(c) ==
    /\ Step(c, "engine_error") /\ End(c) /\ UNCHANGED <<env, account, faults>>

-----------------------------------------------------------------------------
\* UpdateSettings: the operator or an AI proposal.
UpdateSettings ==
    /\ settings' \in Settings \ {settings}
    /\ UNCHANGED <<flags, account, cycle, starts, faults>>

\* RequestClose reserves the position, which stays open and in every count;
\* applyClose sells it, at once or long after.
RequestClose(s) ==
    /\ s \in Opened \ exits /\ exits' = exits \cup {s}
    /\ UNCHANGED <<env, layers, cash, turnover, exited, cycle, faults>>

ApplyClose(s) ==
    /\ s \in exits /\ exited < MaxExits /\ exited' = exited + 1
    /\ exits' = exits \ {s} /\ layers' = [layers EXCEPT ![s] = 0]
    /\ cash' = cash + layers[s] /\ turnover' = turnover + layers[s]
    /\ UNCHANGED <<env, cycle, faults>>

Init ==
    /\ settings \in Settings /\ flags \in FlagModes
    /\ layers = Nothing /\ cash = OpeningCash /\ exits = {} /\ turnover = 0
    /\ cycle = [c \in Cycles |-> Idle]
    /\ starts = 0 /\ exited = 0 /\ faults = 0

CycleStep(c) ==
    \/ AnalyzeShortlist(c) \/ executeShortlistTradesRouted(c)
    \/ CountOpenPositions(c) \/ Consider(c) \/ executeBuyFromTrendingWithContext(c)
    \/ CheckReady(c) \/ ReadWallet(c) \/ ReadPositions(c) \/ DecideAndEvaluate(c)
    \/ RecordOutcome(c) \/ PersistHistory(c) \/ Report(c)

Next ==
    \/ \E c \in Cycles : Start(c) \/ CycleStep(c)
    \/ UpdateSettings
    \/ \E s \in Symbols : RequestClose(s) \/ ApplyClose(s)

Spec == Init /\ [][Next]_vars
-----------------------------------------------------------------------------
Limit == Max({s.max : s \in Settings})

\* Overlapping cycles exceed max_positions by what each of them may still buy
\* and no further: a cycle alone never does, unless its count failed.
OvershootBounded ==
    Cardinality(Opened) <= (Cardinality(Cycles) + faults) * Limit

\* A position is added to only by a cycle that overlaps the one that opened
\* it, or whose lookup failed.
NoPyramid == \A s \in Symbols : layers[s] <= Cardinality(Cycles) + faults

\* A cycle buys a symbol once, whichever engines it went through.
OneBuyPerCycle == \A c \in Cycles, s \in Symbols : cycle[c].bought[s] <= 1

\* A process in limited_live or full_live books nothing.
FencedNeverBuys == flags \in {"limited_live", "full_live"} => turnover = 0

\* What the cycles of a process promise together (executeShortlistTradesRouted
\* and what it calls).
CyclesBounded ==
    TypeOK /\ OvershootBounded /\ NoPyramid /\ OneBuyPerCycle /\ FencedNeverBuys

\* The ledger refuses what the risk engine approved only when the cash shrank
\* after the cycle read it.
RefusalIsRace ==
    \A c \in Cycles :
        cycle[c].at = "commit" /\ cycle'[c].at # "commit" /\ faults' = faults
        /\ Cardinality(cycle[c].approved) > cash => cash < cycle[c].ctx.cash
=============================================================================
