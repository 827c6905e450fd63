------------------------------- MODULE Registry -------------------------------
(***************************************************************************)
(* The strategy registry of internal/backtest/strategy_registry.go: the    *)
(* registered strategies, the parameters each version declares and how an  *)
(* identity and a parameter map are resolved to a runnable strategy.       *)
(*                                                                         *)
(* The parameters are those that differ between strategies or versions;    *)
(* "caps" stands for max_gross, max_net, position_cap and cash_reserve,    *)
(* consistent with each other or not.                                      *)
(***************************************************************************)
EXTENDS Integers, Sequences, FiniteSets

None == "none"
Candidate == "trend_momentum"
Matched == "matched_momentum"
Hold == "benchmark_buy_hold"
Trend == "benchmark_trend"
Council == {"1.3.0", "1.4.0"}
CouncilKeys == {"decision_model", "decision_council_policy", "decision_council_early_exit"}

Versions(id) ==
  CASE id = Candidate -> {"1.0.0", "1.1.0", "1.2.0", "1.3.0", "1.4.0"}
    [] id = Matched -> {"1.0.0", "1.1.0"}
    [] id \in {"cash", Hold, Trend, "equal_weight", "momentum", "legacy"} -> {"1.0.0"}
    [] OTHER -> {}

Baseline(id) == id # Candidate
LegacyCompatibility(id) == id = "legacy"

\* newDefaultStrategyRegistry: the declared parameters, each the sequence of
\* its default followed by the other accepted values.
Policies == <<"liquidate", "mark_to_market">>
Shared == [target_gross |-> <<"1", "0.5">>, final_policy |-> Policies]
Family(variants, vol) ==
  [target_gross |-> <<"0.75", "1", "0.5">>, final_policy |-> Policies,
   variant |-> variants, vol_normalization |-> vol, caps |-> <<"consistent", "excessive">>,
   execution_intent |-> <<"research", "shadow", "backtest", "live_dry_run",
                          "paper_capital", "live_submit", "promotion">>]
Combined == <<"combined">>
Rule == [entry_momentum_rule |-> <<"positive_new_targets_v1">>]
Plus(f, g) == [k \in DOMAIN f \cup DOMAIN g |-> IF k \in DOMAIN g THEN g[k] ELSE f[k]]

Declared(id, version) ==
  LET model == [decision_model |-> <<"default", "other">>,
                decision_council_policy |-> <<"observe", "act">>]
  IN CASE id = "cash" -> [final_policy |-> <<"mark_to_market", "liquidate">>]
       [] id = "legacy" -> <<>>
       [] id \in {Hold, Trend, "equal_weight", "momentum"} -> Shared
       [] id = Candidate /\ version \in {"1.0.0", "1.1.0"} ->
            Family(<<"combined", "absolute_trend_only", "relative_momentum_only">>,
                   <<"true", "false">>)
       [] id = Candidate /\ version = "1.2.0" -> Plus(Family(Combined, <<"true">>), Rule)
       [] id = Candidate /\ version = "1.3.0" -> Plus(Family(Combined, <<"true">>), model)
       [] id = Candidate /\ version = "1.4.0" ->
            Plus(Plus(Family(Combined, <<"true">>), model),
                 [decision_council_early_exit |-> <<"true", "false">>])
       [] id = Matched /\ version = "1.0.0" -> Family(Combined, <<"false">>)
       [] OTHER -> Plus(Family(Combined, <<"false">>), Rule)

Fenced == {"paper_capital", "live_submit", "promotion"}

\* validateStrategyParameters
Valid(id, version, parameters) ==
  LET spec == Declared(id, version) IN
  /\ DOMAIN parameters \subseteq DOMAIN spec
  /\ \A k \in DOMAIN parameters : \E i \in DOMAIN spec[k] : spec[k][i] = parameters[k]
  /\ id \in {Candidate, Matched} =>
       /\ "execution_intent" \in DOMAIN parameters => parameters.execution_intent \notin Fenced
       /\ "caps" \in DOMAIN parameters => parameters.caps = "consistent"

\* ResolveExecutable: a version may be left out when there is only one.
VersionOf(id, version) ==
  IF version = "" /\ Cardinality(Versions(id)) = 1 THEN CHOOSE v \in Versions(id) : TRUE ELSE version
Resolves(id, version, parameters) ==
  LET v == VersionOf(id, version) IN v \in Versions(id) /\ Valid(id, v, parameters)
Selected(id, version, parameters) ==
  LET v == VersionOf(id, version) spec == Declared(id, v)
  IN [id |-> id, version |-> v, parameters |-> Plus([k \in DOMAIN spec |-> spec[k][1]], parameters)]
=============================================================================
