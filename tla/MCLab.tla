------------------------------- MODULE MCLab --------------------------------
(***************************************************************************)
(* The components of the research lab: the Stage 07 experiments, the cache *)
(* of bars and the backtest jobs, and instances of the Stage 05 comparison,*)
(* the experiment drafts, the AI proposals and the walk-forward.           *)
(* A behaviour is one part, chosen by its first state.  The                *)
(* parts "explore" and "confirm" take the study's own steps for smaller    *)
(* sets; elsewhere the study, the cache and the jobs stay as they start,   *)
(* and the variables of the instances a behaviour is not of stay off.      *)
(***************************************************************************)
EXTENDS Study, DatasetCache, BacktestJobs

VARIABLE part      \* which instance this behaviour is of

\* Comparison
VARIABLES
    request, phase, reason, todo, results, artifact, row

\* Drafts
VARIABLES
    ask, stage, calls, drafts, checked, status

\* Proposals
VARIABLES
    settings, locked, gen, table, clock, clerk, acks, config, editor, pager,
    runs, edits

\* WalkForward
VARIABLES
    manifest, samples, step, why, frozen, tested, passed

compare == <<request, phase, reason, todo, results, artifact, row>>
draft == <<ask, stage, calls, drafts, checked, status>>
propose ==
    <<settings, locked, gen, table, clock, clerk, acks, config, editor, pager,
      runs, edits>>
walk == <<manifest, samples, step, why, frozen, tested, passed>>

lab == <<part, vars, jobsVars, compare, draft, propose, walk, cacheVars>>

Off == "off"

\* The variables of a component that the behaviour is not of.
CompareOff ==
    /\ request = Off /\ phase = Off /\ reason = Off /\ todo = Off /\ results = Off
    /\ artifact = Off /\ row = Off
DraftOff ==
    /\ ask = Off /\ stage = Off /\ calls = Off /\ drafts = Off /\ checked = Off
    /\ status = Off
ProposeOff ==
    /\ settings = Off /\ locked = Off /\ gen = Off /\ table = Off /\ clock = Off
    /\ clerk = Off /\ acks = Off /\ config = Off /\ editor = Off /\ pager = Off
    /\ runs = Off /\ edits = Off
WalkOff ==
    /\ manifest = Off /\ samples = Off /\ step = Off /\ why = Off /\ frozen = Off
    /\ tested = Off /\ passed = Off

-----------------------------------------------------------------------------
Manifest(family, confirmatory, replay, gate) ==
    [family |-> family, scope |-> "scope", interval |-> "interval",
     confirmatory |-> confirmatory, replay |-> replay, ml |-> gate]

\* Explorations that end in every way a run can end, and confirmations of one
\* family, of a model and of a rule.
Manifests ==
    [c \in {"model", "broken", "mlerror", "rejected", "irreproducible", "confirm", "confirm_rule"} |->
        CASE c = "model" -> Manifest("f", FALSE, "passed", "passed")
          [] c = "broken" -> Manifest("f", FALSE, "replay", "absent")
          [] c = "mlerror" -> Manifest("g", FALSE, "passed", "ml")
          [] c = "rejected" -> Manifest("g", FALSE, "passed", "rejected")
          [] c = "irreproducible" -> Manifest("g", FALSE, "prewrite", "absent")
          [] c = "confirm" -> Manifest("f", TRUE, "passed", "passed")
          [] OTHER -> Manifest("f", TRUE, "passed", "absent")]

Only(contents) == [c \in contents |-> Manifests[c]]

Explore == INSTANCE Study WITH
    Specs <- Only({"model", "broken", "mlerror", "rejected", "irreproducible"}),
    ManifestKeys <- {"k1"}, Times <- {1}, MaxExperiments <- 1

\* Two of the three request keys are used.
Confirm == INSTANCE Study WITH
    Specs <- Only({"confirm", "confirm_rule"}), MaxPending <- 1

\* Three comparisons and a legacy job, which share nothing.
FourJobs == <<"stage05", "stage05", "stage05", "legacy">>
OnlyLegacy == pc'[1] = None
OnlyComparisons == pc'[4] = None

\* The i-th job of a behaviour.
TheJob(i) == IF pc[4] = None THEN i ELSE 4

Registry == INSTANCE Registry

Request(id, version, gross, net, policy, exec, parameters) ==
    [id |-> id, version |-> version, gross |-> gross, net |-> net, policy |-> policy,
     exec |-> exec, parameters |-> parameters]

\* Every strategy and every version once.
GoodRequests ==
    LET candidate == Registry!Candidate IN
    {Request(candidate, v, "0.5", "", "", "v4", <<>>) : v \in Registry!Versions(candidate)}
        \cup {Request(id, "1.0.0", "", "", "mark_to_market", "", <<>>) :
                id \in {Registry!Hold, "momentum", Registry!Matched}}
        \cup {Request(candidate, "1.2.0", "", "1", "", "v1",
                      [entry_momentum_rule |-> "positive_new_targets_v1"]),
              Request(candidate, "1.4.0", "", "", "", "v4",
                      [decision_council_early_exit |-> "false", decision_model |-> "other"]),
              Request(candidate, "1.1.0", "", "", "", "",
                      [variant |-> "combined", vol_normalization |-> "false"])}

\* Each way in which a request is refused.
FaultyRequests ==
    LET candidate == Registry!Candidate hold == Registry!Hold IN
    {Request("cash", "", "", "", "", "", <<>>), Request("legacy", "", "", "", "", "", <<>>),
     Request("unknown", "", "", "", "", "", <<>>), Request("", "", "", "", "", "", <<>>),
     Request(hold, "", "2", "", "", "", <<>>), Request(hold, "", "1", "0.5", "", "", <<>>),
     Request(hold, "", "", "", "sell", "", <<>>), Request(hold, "", "", "", "", "v9", <<>>),
     Request(candidate, "", "", "", "", "", <<>>),
     Request(candidate, "1.3.0", "", "", "", "v3", <<>>),
     Request(Registry!Matched, "1.0.0", "", "", "", "", [caps |-> "excessive"])}
    \cup {Request(candidate, "1.1.0", "", "", "", "", [execution_intent |-> i]) :
            i \in {"shadow", "live_dry_run", "paper_capital", "promotion"}}

Comparison == INSTANCE Comparison WITH
    Requests <- GoodRequests \cup FaultyRequests, Returns <- {-1, 0, 1}, RunsFail <- TRUE

\* Bases that spell defaults out or omit them; changes that are new, repeat a
\* default, break a rule, name an unknown parameter or ask for capital.
Drafts == INSTANCE Drafts WITH
    Bases <- {[execution_intent |-> "backtest"],
              [execution_intent |-> "backtest", variant |-> "combined"],
              <<>>, [variant |-> "unheard"]},
    Changes <- {[variant |-> "combined"], [variant |-> "absolute_trend_only"],
                [vol_normalization |-> "false"],
                [vol_normalization |-> "false", variant |-> "combined"],
                [caps |-> "excessive"], [colour |-> "red"],
                [execution_intent |-> "promotion"], <<>>},
    Counts <- {0, 1, 2, 9}

Key(category, adjustable, deprecated) ==
    [category |-> category, adjustable |-> adjustable, deprecated |-> deprecated]

TwoCategories ==
    [k \in {"max_positions", "time_stop_bars", "model_rollout_state", "universe_top_k"} |->
        CASE k = "universe_top_k" -> Key("universe", TRUE, FALSE)
          [] k = "model_rollout_state" -> Key("model", TRUE, FALSE)
          [] OTHER -> Key("trading", TRUE, FALSE)]

\* A generation of either kind, with limits, while a key is locked.
Generate == INSTANCE Proposals WITH
    Setting <- TwoCategories,
    Initial <- [k \in DOMAIN TwoCategories |->
                   CASE k = "model_rollout_state" -> -1 [] k = "time_stop_bars" -> 0 [] OTHER -> 20],
    News <- {22, 23}, Lengths <- {0, 3}, Budget <- 10, MaxPerCategory <- 1, MaxProposals <- 2,
    Kinds <- {"trading", "backtest"}, Clerks <- {}, Editors <- {}, Limit <- 0,
    MaxRuns <- 1, MaxTime <- 1, MaxEdits <- 1

\* Pages of two, read while rows are stored.
Pages == INSTANCE Proposals WITH
    Setting <- [k \in {"max_positions"} |-> Key("trading", TRUE, FALSE)],
    Initial <- [k \in {"max_positions"} |-> 20],
    News <- {22}, Lengths <- {2}, Budget <- 10, MaxPerCategory <- 0, MaxProposals <- 0,
    Kinds <- {"trading"}, Clerks <- {}, Editors <- {}, Limit <- 2,
    MaxRuns <- 3, MaxTime <- 2, MaxEdits <- 0

\* Requests that resolve the same proposals at the same time.
Resolve == INSTANCE Proposals WITH
    Setting <- [k \in {"max_positions", "buy_only_strong"} |->
                   Key("trading", k = "max_positions", k = "buy_only_strong")],
    Initial <- [k \in {"max_positions", "buy_only_strong"} |-> 20],
    News <- {22}, Lengths <- {1}, Budget <- 10, MaxPerCategory <- 0, MaxProposals <- 0,
    Kinds <- {"trading"}, Clerks <- {1, 2}, Editors <- {}, Limit <- 0,
    MaxRuns <- 2, MaxTime <- 1, MaxEdits <- 0

\* Requests that edit the model configuration at the same time.
Configure == INSTANCE Proposals WITH
    Setting <- [k \in {"max_positions"} |-> Key("trading", TRUE, FALSE)],
    Initial <- [k \in {"max_positions"} |-> 20],
    News <- {}, Lengths <- {}, Budget <- 0, MaxPerCategory <- 0, MaxProposals <- 0,
    Kinds <- {}, Clerks <- {}, Editors <- {1, 2, 3}, Limit <- 0,
    MaxRuns <- 0, MaxTime <- 1, MaxEdits <- 0

\* Key 4 never fits; 1 and 2 fit together, 3 evicts one or both.
SizeOf == <<1, 1, 2, 9>>

\* Two folds whose training grows over the earlier test window, with every
\* purge, embargo and horizon of up to two; folds that overlap, run backwards,
\* leave the interval or are too few.
Fold(a, b, c, d, e, f) == [train |-> <<a, b>>, validation |-> <<c, d>>, test |-> <<e, f>>]
Plan(folds, feature, label, purge, embargo) ==
    [folds |-> folds, interval |-> <<1, 16>>, featureHorizon |-> feature, labelHorizon |-> label,
     purge |-> purge, embargo |-> embargo, minFolds |-> 2, minUnits |-> 2,
     minObservations |-> 1, minTrades |-> 1, minRegimes |-> 1, threshold |-> 0,
     allowed |-> [depth |-> {"2", "3"}]]
GoodFolds == <<Fold(1, 5, 5, 9, 9, 12), Fold(1, 9, 9, 12, 12, 16)>>
GappedFolds == <<Fold(1, 5, 6, 10, 11, 13), Fold(3, 8, 9, 13, 13, 16)>>
FaultyFolds ==
    {<<Fold(1, 6, 5, 9, 9, 12), Fold(1, 9, 9, 12, 12, 16)>>, <<Fold(1, 5, 5, 9, 9, 12)>>,
     <<Fold(1, 5, 5, 9, 9, 13), Fold(1, 9, 9, 12, 12, 16)>>,
     <<Fold(1, 5, 5, 9, 9, 12), Fold(1, 9, 9, 12, 12, 17)>>,
     <<Fold(1, 9, 9, 12, 12, 16), Fold(1, 5, 5, 9, 9, 12)>>,
     <<Fold(1, 5, 5, 10, 9, 12), Fold(1, 9, 9, 12, 12, 16)>>}
Plans ==
    {Plan(folds, f, l, p, e) : folds \in {GoodFolds, GappedFolds}, f \in {0, 2}, l \in 0 .. 2,
                               p \in 0 .. 2, e \in -1 .. 2}
        \cup {Plan(folds, 2, 1, 1, 1) : folds \in FaultyFolds}

\* A sample at every time; or with features of the future, a label that looks
\* further, one sample twice or one without benchmark.
At(m, t) == [id |-> t, observed |-> t, featureStart |-> t - m.featureHorizon, featureEnd |-> t,
             labelEnd |-> t + m.labelHorizon, covered |-> TRUE]
Good(m) == [t \in 1 .. 15 |-> At(m, t)]
Samplings(m) ==
    {Good(m), [Good(m) EXCEPT ![8].labelEnd = 12], [Good(m) EXCEPT ![4].featureEnd = 5],
     Append(Good(m), At(m, 4)), [Good(m) EXCEPT ![8].covered = FALSE]}

OnlyGood(m) == {Good(m)}

FitOf(parameters) ==
    [error |-> FALSE, parameters |-> parameters, choice |-> parameters, artifact |-> TRUE]
AllFits ==
    LET good == FitOf([depth |-> "2"]) IN
    {good, FitOf([depth |-> "9"]), FitOf([width |-> "2"]), FitOf(<<>>),
     [good EXCEPT !.error = TRUE], [good EXCEPT !.choice = [depth |-> "3"]],
     [good EXCEPT !.artifact = FALSE]}

Trade(id, symbol, regime, net) ==
    [id |-> id, symbol |-> symbol, regime |-> regime, net |-> net, complete |-> TRUE]
Fill(id, order) == [id |-> id, order |-> order, complete |-> TRUE]
NoFill(order, signal) == [order |-> order, signal |-> signal, complete |-> TRUE]
Left(symbol, pnl) == [symbol |-> symbol, pnl |-> pnl, complete |-> TRUE]
Result(trades, residual) ==
    LET net == [i \in DOMAIN trades |-> trades[i].net] \o [i \in DOMAIN residual |-> residual[i].pnl]
        total[i \in 0 .. Len(net)] == IF i = 0 THEN 0 ELSE net[i] + total[i - 1]
    IN [capital |-> 20, expected |-> 3, observed |-> 3,
        curve |-> <<[at |-> 1, equity |-> 20], [at |-> 2, equity |-> 20 + total[Len(net)]]>>,
        trades |-> trades, residual |-> residual, baselineMatched |-> TRUE,
        fills |-> IF trades = <<>> THEN <<>> ELSE <<Fill(1, 1), Fill(2, 2)>>,
        noFills |-> <<>>, baselineNoFills |-> <<>>]

\* One symbol or two, one regime or two, gains and losses that cancel,
\* positions left open in a traded or another symbol.
Results ==
    LET good == Result(<<Trade(1, "a", "bull", 2), Trade(2, "b", "bear", -1)>>, <<>>) IN
    {Result(<<Trade(1, "a", "bull", x), Trade(2, s, r, y)>>, left) :
        x \in {1, 2}, y \in {-2, 0, 1}, s \in {"a", "b"}, r \in {"bull", "bear"},
        left \in {<<>>, <<Left("b", 3)>>, <<Left("a", -1), Left("c", 2)>>}}
    \cup {Result(<<>>, <<>>), Result(<<>>, <<Left("a", 1)>>), Result(<<Trade(1, "a", "bull", 1)>>, <<>>),
          Result(<<Trade(1, "a", "bull", 1), Trade(1, "b", "bull", 1)>>, <<>>),
          Result(<<Trade(1, "a", "bull", 1)>>, <<Left("b", 1), Left("b", 1)>>),
          [good EXCEPT !.fills = <<>>], [good EXCEPT !.fills = <<Fill(1, 1), Fill(1, 2)>>],
          [good EXCEPT !.observed = 2], [good EXCEPT !.observed = 4], [good EXCEPT !.curve = <<>>],
          [good EXCEPT !.curve[2].equity = 20], [good EXCEPT !.curve[2].at = 1],
          [good EXCEPT !.baselineMatched = FALSE], [good EXCEPT !.trades[1].complete = FALSE],
          [good EXCEPT !.noFills = <<NoFill(1, 1)>>], [good EXCEPT !.noFills = <<NoFill(3, 1), NoFill(4, 2)>>],
          [good EXCEPT !.noFills = <<NoFill(3, 2), NoFill(4, 1)>>],
          [good EXCEPT !.baselineNoFills = <<NoFill(1, 1), NoFill(1, 2)>>]}

Walk == INSTANCE WalkForward WITH
    Manifests <- Plans, SampleLists <- Samplings, Fits <- AllFits, Runners <- 0 .. 2,
    Primitives <- {Result(<<Trade(1, "a", "bull", 1), Trade(2, "b", "bull", 1)>>, <<>>)}

\* Every pair of results, judged with a gate at, above and below zero.
Gated == {[Plan(GoodFolds, 0, 1, 0, 0) EXCEPT !.threshold = t] : t \in {-1, 0, 1}}
            \cup {[Plan(GoodFolds, 0, 1, 0, 0) EXCEPT !.minRegimes = 2, !.minUnits = u] : u \in {0, 3}}
Judge == INSTANCE WalkForward WITH
    Manifests <- Gated, SampleLists <- OnlyGood, Fits <- {FitOf([depth |-> "2"])},
    Runners <- {0}, Primitives <- Results

ASSUME /\ StudyAssumption /\ Explore!StudyAssumption /\ Confirm!StudyAssumption
       /\ JobsAssumption
       /\ Comparison!ComparisonAssumption /\ Drafts!DraftsAssumption
       /\ Generate!ProposalsAssumption /\ Pages!ProposalsAssumption
       /\ Resolve!ProposalsAssumption /\ Configure!ProposalsAssumption /\ CacheAssumption
       /\ Walk!WalkAssumption /\ Judge!WalkAssumption

MCInit ==
    /\ Init /\ CacheInit /\ JobsInit
    /\ \/ /\ part \in {"explore", "confirm", "lanes", "evidence", "finish", "cache"}
          /\ CompareOff /\ DraftOff /\ ProposeOff /\ WalkOff
       \/ /\ part = "compare" /\ Comparison!CompareInit
          /\ DraftOff /\ ProposeOff /\ WalkOff
       \/ /\ part = "drafts" /\ Drafts!DraftsInit
          /\ CompareOff /\ ProposeOff /\ WalkOff
       \/ /\ part = "generate" /\ Generate!ProposalsInit
          /\ CompareOff /\ DraftOff /\ WalkOff
       \/ /\ part = "pages" /\ Pages!ProposalsInit
          /\ CompareOff /\ DraftOff /\ WalkOff
       \/ /\ part = "resolve" /\ Resolve!ProposalsInit
          /\ CompareOff /\ DraftOff /\ WalkOff
       \/ /\ part = "configure" /\ Configure!ProposalsInit
          /\ CompareOff /\ DraftOff /\ WalkOff
       \/ /\ part = "walk" /\ Walk!WalkInit
          /\ CompareOff /\ DraftOff /\ ProposeOff
       \/ /\ part = "judge" /\ Judge!WalkInit
          /\ CompareOff /\ DraftOff /\ ProposeOff

MCNext ==
    \/ part = "explore" /\ Explore!Next
       /\ UNCHANGED <<part, jobsVars, compare, draft, propose, walk, cacheVars>>
    \/ part = "confirm" /\ Confirm!Next /\ jobs'[3] = NoJob
       /\ UNCHANGED <<part, jobsVars, compare, draft, propose, walk, cacheVars>>
    \/ part = "lanes" /\ JobsNext /\ OnlyLegacy /\ restarts' <= 1
       /\ UNCHANGED <<part, vars, compare, draft, propose, walk, cacheVars>>
    \/ part = "evidence" /\ JobsNext /\ OnlyComparisons /\ lost' = {}
       /\ UNCHANGED <<part, vars, compare, draft, propose, walk, cacheVars>>
    \/ part = "finish" /\ JobsNext /\ (OnlyLegacy \/ OnlyComparisons) /\ lost' = {} /\ restarts' = 0
       /\ UNCHANGED <<part, vars, compare, draft, propose, walk, cacheVars>>
    \/ part = "compare" /\ Comparison!CompareNext
       /\ UNCHANGED <<part, vars, jobsVars, draft, propose, walk, cacheVars>>
    \/ part = "drafts" /\ Drafts!DraftsNext
       /\ UNCHANGED <<part, vars, jobsVars, compare, propose, walk, cacheVars>>
    \/ part = "generate" /\ Generate!ProposalsNext
       /\ UNCHANGED <<part, vars, jobsVars, compare, draft, walk, cacheVars>>
    \/ part = "pages" /\ Pages!ProposalsNext
       /\ UNCHANGED <<part, vars, jobsVars, compare, draft, walk, cacheVars>>
    \/ part = "resolve" /\ Resolve!ProposalsNext
       /\ UNCHANGED <<part, vars, jobsVars, compare, draft, walk, cacheVars>>
    \/ part = "configure" /\ Configure!ProposalsNext
       /\ UNCHANGED <<part, vars, jobsVars, compare, draft, walk, cacheVars>>
    \/ part = "cache" /\ CacheNext
       /\ UNCHANGED <<part, vars, jobsVars, compare, draft, propose, walk>>
    \/ part = "walk" /\ Walk!WalkNext
       /\ UNCHANGED <<part, vars, jobsVars, compare, draft, propose, cacheVars>>
    \/ part = "judge" /\ Judge!WalkNext
       /\ UNCHANGED <<part, vars, jobsVars, compare, draft, propose, cacheVars>>

working == <<part, vars, jobsVars, draft, propose, cacheVars>>

\* What goes on by itself: a goroutine that can run does run, a call of the
\* model ends (by its timeout at the latest), and the client that was told a
\* run is queued asks for it again.
GoesOn(i) ==
    \/ part = "confirm" /\ i \in 1 .. 2 /\ Confirm!Routine(i)
       /\ UNCHANGED <<part, jobsVars, compare, draft, propose, cacheVars, walk>>
    \/ part = "finish" /\ Step(TheJob(i)) /\ lost' = {}
       /\ UNCHANGED <<part, vars, compare, draft, propose, cacheVars, walk>>
    \/ part = "drafts" /\ i = 1 /\ Drafts!Handle
       /\ UNCHANGED <<part, vars, jobsVars, compare, propose, cacheVars, walk>>
    \/ part = "generate" /\ i = 1 /\ Generate!Generation
       /\ UNCHANGED <<part, vars, jobsVars, compare, draft, cacheVars, walk>>
    \/ part = "cache" /\ i \in 1 .. 2 /\ (Load(i) \/ Publish(i) \/ Wake(i))
       /\ UNCHANGED <<part, vars, jobsVars, compare, draft, propose, walk>>

AskAgain(i) ==
    /\ part = "confirm" /\ i \in 1 .. 2 /\ jobs[i] # NoJob
    /\ \E e \in Confirm!Experiments : Confirm!RunValidationExperiment(i, e)
    /\ UNCHANGED <<part, jobsVars, compare, draft, propose, cacheVars, walk>>

IsServed(i) ==
    /\ part = "finish" /\ AcquireSlot(i) /\ lost' = {}
    /\ UNCHANGED <<part, vars, compare, draft, propose, cacheVars, walk>>

\* A channel serves its senders in order, so one that waits is served.
MCSpec == /\ MCInit /\ [][MCNext]_lab
          /\ \A i \in 1 .. 3 : /\ WF_working(GoesOn(i)) /\ WF_working(AskAgain(i))
                               /\ SF_working(IsServed(i))

\* What caller i waits for, and the answer.
Waiting(i) ==
    \/ part = "confirm" /\ i \in 1 .. 2 /\ crashes = 1 /\ pending[i] > 0
       /\ jobs[i].status = "queued" /\ evidence[jobs[i].experiment] = "none"
    \/ part = "finish" /\ job[TheJob(i)].status = "pending"
    \/ part = "drafts" /\ i = 1 /\ stage = "waiting"
    \/ part = "generate" /\ i = 1 /\ gen.phase # "idle"
    \/ part = "cache" /\ i \in 1 .. 2 /\ reader[i].at = "wait"

Answered(i) ==
    \/ part = "confirm" /\ i \in 1 .. 2 /\ jobs[i] # NoJob
       /\ evidence[jobs[i].experiment] # "none"
    \/ part = "finish" /\ job[TheJob(i)].status \in {"completed", "failed"}
    \/ part = "drafts" /\ stage = "ended"
    \/ part = "generate" /\ gen.phase = "idle"
    \/ part = "cache" /\ i \in 1 .. 2 /\ reader[i].at = "idle"

-----------------------------------------------------------------------------
\* Evidence once recorded is never replaced, and no late callback turns a
\* job that ended back (PersistEvidence, updateBacktestJob).
RecordsAreFinal ==
    [][/\ OutcomeIsFinal
       /\ TerminalIsFinal]_lab

\* What research concludes is fair: the gate passes only what beat every other
\* strategy in simulation, the optimizer's second implementation of it agrees on
\* every artifact, and the matched baseline plays by the candidate's rules
\* (buildStage05Comparison, requireBaselineRelativeOptimizationEvidence); what a
\* fold was fitted on ends before any window it or a later fold is tested on,
\* the derived metrics add up, and no single window, symbol or trade passes a
\* study (RunWalkForward).
ResearchIsFair ==
    /\ part = "compare" => Comparison!CompareTypeOK /\ Comparison!ComparisonIsFair
    /\ part = "walk" => Walk!WalkIsFair
    /\ part = "judge" => Judge!WalkIsFair

\* What a model writes stays advice: drafts are distinct simulations that the
\* registry accepts again, proposals keep the operator's limits and locks, no
\* page misses or repeats a row, and but for requests that overlap a disposition
\* is final and a blank key keeps the last one entered (GenerateExperimentDrafts,
\* GenerateProposals, GetAIProposals, ApproveProposal, UpdateLLMConfig).
AdviceIsBounded ==
    /\ part = "drafts" => Drafts!DraftsTypeOK /\ Drafts!DraftsAreSound
    /\ part = "generate" =>
         Generate!ProposalsTypeOK /\ Generate!BatchWithinLimits /\ Generate!NeverForLockedKey
    /\ part = "pages" => Pages!ProposalsTypeOK /\ Pages!PageComplete
    /\ part = "resolve" => Resolve!ProposalsTypeOK /\ Resolve!DispositionFinal
    /\ part = "configure" => Configure!BlankKeepsKey

\* Nobody waits for ever: a submitted job ends, a confirmation that waits for
\* its turn is decided once the server stays up, a caller that waits for
\* another's load returns, and a request to the model is answered.
WorkEnds == \A i \in 1 .. 3 : Waiting(i) ~> Answered(i)
=============================================================================
