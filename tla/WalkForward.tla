----------------------------- MODULE WalkForward -----------------------------
(***************************************************************************)
(* RunWalkForward of internal/validation/walkforward.go: the replay that a *)
(* job of Study runs.  Every fold of the manifest is split, fitted by a    *)
(* runner of its own and frozen; only then is any fold tested, its metrics *)
(* derived from the primitives its test returned (primitives.go), and the  *)
(* folds judged together (evaluation.go).                                  *)
(*                                                                         *)
(* Times are integers and intervals half open.  Money is an integer in the *)
(* unit of the contributions, so a contribution is a net PnL and sums are  *)
(* exact where the code allows a relative tolerance of 1e-10.  The checks  *)
(* of the fields of one trade, fill, no-fill or residual position are its  *)
(* flag "complete"; a sample's benchmark and coverage flags are "covered". *)
(***************************************************************************)
EXTENDS Integers, Sequences, FiniteSetsExt, Functions

CONSTANTS
    Manifests,      \* manifests that may be replayed
    SampleLists(_), \* [manifest -> lists of samples its source may load]
    Fits,           \* what FitAndSelect may return: [error, parameters, choice, artifact]
    Runners,        \* instances a factory may return; 0 is a value, not a pointer
    Primitives      \* what Test may return

Elements(s) == {s[i] : i \in DOMAIN s}

\* What the instances have to satisfy: times and money are integers.
Window == Int \X Int
WalkAssumption ==
    /\ Runners \subseteq Nat
    /\ \A m \in Manifests :
         /\ m.folds \in Seq([train : Window, validation : Window, test : Window])
         /\ {m.featureHorizon, m.labelHorizon, m.purge, m.embargo, m.minFolds, m.minUnits,
             m.threshold} \subseteq Int
         /\ DOMAIN m.allowed # {}
         /\ \A list \in SampleLists(m) :
              /\ list \in Seq(Elements(list))
              /\ \A s \in Elements(list) :
                   {s.observed, s.featureStart, s.featureEnd, s.labelEnd} \subseteq Int
    /\ \A p \in Primitives :
         /\ p.trades \in Seq(Elements(p.trades)) /\ \A t \in Elements(p.trades) : t.net \in Int
         /\ p.residual \in Seq(Elements(p.residual)) /\ \A r \in Elements(p.residual) : r.pnl \in Int

VARIABLES
    manifest, samples,
    step,       \* where the replay is
    why,        \* the diagnostic it ended with
    frozen,     \* one [split, runner] per fold that was frozen
    tested,     \* the metrics of the folds that were tested
    passed      \* whether every gate passed

walkVars == <<manifest, samples, step, why, frozen, tested, passed>>

Keys(s, Key(_)) == {Key(s[i]) : i \in DOMAIN s}
Total(s, Pick(_), Amount(_)) ==
    SumFunctionOnSet([i \in DOMAIN s |-> Amount(s[i])], {i \in DOMAIN s : Pick(s[i])})

-----------------------------------------------------------------------------
(* The manifest and the samples. *)

\* Interval.ValidInterval
ValidInterval(interval) == interval[2] > interval[1]

\* ValidateFolds, the horizons of CanonicalManifestSpec
VerifiedManifest(m) ==
    /\ m.featureHorizon >= 0 /\ m.labelHorizon > 0 /\ m.purge >= 0 /\ m.embargo >= 0
    /\ Len(m.folds) >= Max({2, m.minFolds})
    /\ \A i \in DOMAIN m.folds :
         LET f == m.folds[i] IN
         /\ ValidInterval(f.train) /\ ValidInterval(f.validation) /\ ValidInterval(f.test)
         /\ f.train[1] >= m.interval[1] /\ f.test[2] <= m.interval[2]
         /\ f.train[2] <= f.validation[1] /\ f.validation[2] <= f.test[1]
         /\ i > 1 => f.test[1] >= m.folds[i - 1].test[2]

\* validateSamples
ValidSamples(list, m) ==
    /\ Cardinality(Keys(list, LAMBDA s : s.id)) = Len(list)
    /\ \A s \in Elements(list) :
         /\ s.featureEnd = s.observed
         /\ s.featureStart = s.observed - m.featureHorizon
         /\ s.labelEnd = s.observed + m.labelHorizon

-----------------------------------------------------------------------------
(* One fold. *)

Contains(interval, at) == interval[1] <= at /\ at < interval[2]

\* SplitFold: what is neither purged nor embargoed.  Its own check of a sample
\* repeats validateSamples.
SplitFold(list, fold, purge, embargo) ==
    LET in(interval) == {s \in Elements(list) : Contains(interval, s.observed)}
        before(s, boundary) == s.featureEnd <= boundary - purge /\ s.labelEnd <= boundary - purge
    IN [train |-> {s \in in(fold.train) : before(s, fold.validation[1])},
        validation |-> {s \in in(fold.validation) :
                          s.observed >= fold.train[2] + embargo /\ before(s, fold.test[1])},
        test |-> {s \in in(fold.test) : s.observed >= fold.validation[2] + embargo}]

\* validateSplit
ValidSplit(split, m) ==
    \A samplesOf \in {split.train, split.validation, split.test} :
        Cardinality(samplesOf) >= m.minObservations /\ \A s \in samplesOf : s.covered

\* validateFit: one of the declared values for every declared parameter, and a
\* choice that names them all.
ValidFit(fit, allowed) ==
    /\ fit.artifact /\ fit.choice = fit.parameters
    /\ DOMAIN fit.parameters = DOMAIN allowed /\ DOMAIN allowed # {}
    /\ \A k \in DOMAIN fit.parameters : fit.parameters[k] \in allowed[k]

-----------------------------------------------------------------------------
(* The metrics of a tested fold. *)

Unique(s, Key(_)) == Cardinality(Keys(s, Key)) = Len(s)
Orders(fills) == Keys(fills, LAMBDA f : f.order)

\* validateNoFillSet
ValidNoFills(list, filled) ==
    /\ \A n \in Elements(list) : n.complete /\ n.order \notin filled
    /\ Unique(list, LAMBDA n : n.order)
    /\ \A i \in 2 .. Len(list) : list[i].signal >= list[i - 1].signal

Net(p) == Total(p.trades, LAMBDA t : TRUE, LAMBDA t : t.net)
Open(p) == Total(p.residual, LAMBDA r : TRUE, LAMBDA r : r.pnl)

\* DeriveFoldMetrics: its early returns
Derivable(p) ==
    /\ p.capital > 0 /\ 0 < p.expected /\ p.observed \in 0 .. p.expected
    /\ Len(p.curve) >= 2 /\ p.curve[1].equity = p.capital
    /\ \A i \in DOMAIN p.curve : p.curve[i].equity > 0 /\ (i > 1 => p.curve[i].at > p.curve[i - 1].at)
    /\ Unique(p.trades, LAMBDA t : t.id) /\ \A t \in Elements(p.trades) : t.complete
    /\ Unique(p.fills, LAMBDA f : f.id) /\ \A f \in Elements(p.fills) : f.complete
    /\ ValidNoFills(p.noFills, Orders(p.fills)) /\ ValidNoFills(p.baselineNoFills, {})
    /\ p.trades # <<>> => p.fills # <<>>
    /\ Unique(p.residual, LAMBDA r : r.symbol) /\ \A r \in Elements(p.residual) : r.complete
    /\ p.baselineMatched
    /\ p.curve[Len(p.curve)].equity - p.capital = Net(p) + Open(p)

\* DeriveFoldMetrics: its contributions, by trade, symbol, regime and open
\* position.
DeriveFoldMetrics(p) ==
    LET symbols == Keys(p.trades, LAMBDA t : t.symbol) \cup Keys(p.residual, LAMBDA r : r.symbol)
        regimes == Keys(p.trades, LAMBDA t : t.regime)
    IN [observations |-> p.observed, trades |-> Len(p.trades),
        coverage |-> p.observed = p.expected,
        afterCost |-> Net(p) + Open(p),
        trade |-> [id \in Keys(p.trades, LAMBDA t : t.id) |->
                      Total(p.trades, LAMBDA t : t.id = id, LAMBDA t : t.net)],
        symbol |-> [x \in symbols |->
                      Total(p.trades, LAMBDA t : t.symbol = x, LAMBDA t : t.net)
                      + Total(p.residual, LAMBDA r : r.symbol = x, LAMBDA r : r.pnl)],
        regime |-> [x \in regimes |-> Total(p.trades, LAMBDA t : t.regime = x, LAMBDA t : t.net)],
        regimeTrades |-> [x \in regimes |->
                            Cardinality({i \in DOMAIN p.trades : p.trades[i].regime = x})],
        open |-> [x \in Keys(p.residual, LAMBDA r : r.symbol) |->
                      Total(p.residual, LAMBDA r : r.symbol = x, LAMBDA r : r.pnl)]]

\* ValidateFoldMetrics: enough was observed and traded
EnoughEvidence(metrics, m) ==
    /\ metrics.observations >= m.minObservations
    /\ metrics.trades # 0 /\ metrics.trades >= m.minTrades
    /\ metrics.coverage
    /\ Cardinality(DOMAIN metrics.regimeTrades) >= m.minRegimes

\* ValidateFoldMetrics: the contributions add up to the return in three ways
Reconciles(metrics) ==
    /\ DOMAIN metrics.regimeTrades = DOMAIN metrics.regime
    /\ SumFunction(metrics.regimeTrades) = metrics.trades
    /\ Cardinality(DOMAIN metrics.trade) = metrics.trades /\ DOMAIN metrics.symbol # {}
    /\ SumFunction(metrics.trade) + SumFunction(metrics.open) = metrics.afterCost
    /\ SumFunction(metrics.symbol) = metrics.afterCost
    /\ SumFunction(metrics.regime) + SumFunction(metrics.open) = metrics.afterCost

-----------------------------------------------------------------------------
(* The folds together. *)

Abs(x) == IF x < 0 THEN -x ELSE x

\* Whether the largest of the magnitudes f exceeds n tenths of them all
\* (safeFraction: nothing dominates where everything is zero).
Exceeds(f, n) ==
    LET sum == SumFunction([x \in DOMAIN f |-> Abs(f[x])])
    IN sum # 0 /\ \E x \in DOMAIN f : 10 * Abs(f[x]) > n * sum

\* The trades of all folds; a trade id is unique in its fold.
Trades(results) == UNION {{i} \X DOMAIN results[i].trade : i \in DOMAIN results}

\* Evaluate: the contribution of single trades, of symbols (magnitudes added
\* over the folds) and of windows
Dominated(results) ==
    LET trades == Trades(results)
        symbols == UNION {DOMAIN r.symbol : r \in Elements(results)}
        size(x) == Total(results, LAMBDA r : x \in DOMAIN r.symbol, LAMBDA r : Abs(r.symbol[x]))
    IN \/ Exceeds([t \in trades |-> results[t[1]].trade[t[2]]], 5)
       \/ Exceeds([x \in symbols |-> size(x)], 6)
       \/ Exceeds([i \in DOMAIN results |-> results[i].afterCost], 6)

\* bootstrapWeighted: the lower confidence bound of the return is a percentile
\* of weighted means of the folds, so it lies between their extremes.
Lowers(results) ==
    LET returns == Keys(results, LAMBDA r : r.afterCost) IN Min(returns) .. Max(returns)

\* evaluateThresholds: a gate on the lower bound of the after-cost return; the
\* other metrics are gated in the same way.
Gate(lower, threshold) == lower > threshold

-----------------------------------------------------------------------------
WalkInit ==
    /\ manifest \in Manifests /\ samples \in SampleLists(manifest)
    /\ step = "verify" /\ why = "none" /\ frozen = <<>> /\ tested = <<>> /\ passed = FALSE

\* Every error return.
WalkFails(reason) ==
    /\ step' = "failed" /\ why' = reason
    /\ UNCHANGED <<manifest, samples, frozen, tested, passed>>

Verify ==
    /\ step = "verify"
    /\ CASE ~VerifiedManifest(manifest) -> WalkFails("manifest")
         [] VerifiedManifest(manifest) /\ ~ValidSamples(samples, manifest) -> WalkFails("samples")
         [] OTHER -> step' = "freeze" /\ UNCHANGED <<manifest, samples, why, frozen, tested, passed>>

\* The first loop of RunWalkForward, for the next fold: split, a fresh runner,
\* fit and select, freeze.  A factory that returns no runner is a fit that
\* fails.
Freeze(runner, fit) ==
    /\ step = "freeze"
    /\ LET split == SplitFold(samples, manifest.folds[Len(frozen) + 1], manifest.purge, manifest.embargo) IN
       CASE ~ValidSplit(split, manifest) -> WalkFails("split")
         [] ValidSplit(split, manifest) /\ runner # 0 /\ runner \in Keys(frozen, LAMBDA f : f.runner) ->
              WalkFails("reused")
         [] OTHER ->
              IF fit.error \/ ~ValidFit(fit, manifest.allowed) THEN WalkFails("fit")
              ELSE /\ frozen' = Append(frozen, [split |-> split, runner |-> runner])
                   /\ step' = IF Len(frozen) + 1 = Len(manifest.folds) THEN "test" ELSE "freeze"
                   /\ UNCHANGED <<manifest, samples, why, tested, passed>>

\* The second loop, for the next fold: its test returned p, or an error.
Test(p) ==
    /\ step = "test"
    /\ LET metrics == DeriveFoldMetrics(p) IN
       IF ~Derivable(p) THEN WalkFails("primitives")
       ELSE IF ~EnoughEvidence(metrics, manifest) THEN WalkFails("evidence")
       ELSE IF ~Reconciles(metrics) THEN WalkFails("unreconciled")
       ELSE /\ tested' = Append(tested, metrics)
            /\ step' = IF Len(tested) + 1 = Len(frozen) THEN "evaluate" ELSE "test"
            /\ UNCHANGED <<manifest, samples, why, frozen, passed>>
TestFails == step = "test" /\ WalkFails("test")

Evaluate(lower) ==
    /\ step = "evaluate" /\ lower \in Lowers(tested)
    /\ IF Len(tested) < Max({2, manifest.minUnits}) THEN WalkFails("units")
       ELSE IF Dominated(tested) THEN WalkFails("dominated")
       ELSE /\ step' = "done" /\ passed' = Gate(lower, manifest.threshold)
            /\ UNCHANGED <<manifest, samples, why, frozen, tested>>

WalkNext ==
    \/ Verify \/ TestFails
    \/ \E r \in Runners, f \in Fits : Freeze(r, f)
    \/ \E p \in Primitives : Test(p)
    \/ step = "evaluate" /\ \E l \in Lowers(tested) : Evaluate(l)

WalkSpec == WalkInit /\ [][WalkNext]_walkVars

-----------------------------------------------------------------------------
\* The information of what a fold was fitted and selected on ends, by at least
\* the purge, before its own test window and before the window of every later
\* fold, though folds may overlap and labels look ahead; what it is tested on
\* was observed at least the embargo after its validation window
\* (SplitFold, ValidateFolds, validateSamples).
TestsAreUntouched ==
    \A k \in DOMAIN frozen : LET split == frozen[k].split IN
        /\ \A s \in split.train \cup split.validation, j \in k .. Len(manifest.folds) :
             s.featureStart < manifest.folds[j].test[1] - manifest.purge
             /\ s.labelEnd <= manifest.folds[j].test[1] - manifest.purge
        /\ \A s \in split.train, v \in split.validation : s.labelEnd <= v.observed - manifest.purge
        /\ \A s \in split.test : s.observed >= manifest.folds[k].validation[2] + manifest.embargo

\* No sample is tested by two folds, so that the windows which Evaluate counts
\* as independent units share none.
TestedOnce ==
    \A j, k \in DOMAIN frozen : j # k => frozen[j].split.test \cap frozen[k].split.test = {}

\* What DeriveFoldMetrics derives always satisfies the reconciliation which
\* ValidateFoldMetrics repeats in three ways, with trades of one symbol, mixed
\* regimes and positions left open alike.
DerivedReconciles == why # "unreconciled"

\* A study that passes a gate of zero or more won in some window, and no
\* less than two windows and two symbols moved the account, never one trade alone
\* (Evaluate).
EvidenceIsSpread ==
    passed /\ manifest.threshold >= 0 =>
        LET moved(f) == {x \in DOMAIN f : f[x] # 0} IN
        /\ \E r \in Elements(tested) : r.afterCost > manifest.threshold
        /\ Cardinality({i \in DOMAIN tested : tested[i].afterCost # 0}) >= 2
        /\ Cardinality(UNION {moved(r.symbol) : r \in Elements(tested)}) >= 2
        /\ Cardinality({t \in Trades(tested) : tested[t[1]].trade[t[2]] # 0}) # 1

\* All of it: what a walk-forward tests was not fitted on, no evidence counts
\* twice, and what passes does not hang on a single window, symbol or trade
\* (RunWalkForward, Evaluate).
WalkIsFair == TestsAreUntouched /\ TestedOnce /\ DerivedReconciles /\ EvidenceIsSpread
=============================================================================
