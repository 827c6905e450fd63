------------------------------ MODULE Comparison ------------------------------
(***************************************************************************)
(* The Stage 05 comparison of internal/backtest/stage05.go: a request is   *)
(* checked against the strategy registry (strategy_registry.go) before its *)
(* job is stored, the job runs the candidate and its baselines one after   *)
(* another, builds an artifact with a governance gate and stores it with   *)
(* its digest, and the optimizer (services/ai.go) reads the stored text    *)
(* back and decides again, from the rows, whether the candidate has earned *)
(* a parameter search.                                                     *)
(*                                                                         *)
(* A strategy run yields a total return or an error; a parameter is one of *)
(* those of Registry.  A digest is the key order and the content of the    *)
(* text that was hashed.                                                   *)
(***************************************************************************)
EXTENDS Registry

CONSTANTS
  Requests,  \* the requests that may be submitted
  Returns,   \* total returns a strategy run may have
  RunsFail   \* whether a strategy run, the inputs or a size limit may fail

\* What the instances have to satisfy.
ComparisonAssumption ==
  /\ Returns \subseteq Int /\ 0 \in Returns /\ RunsFail \in BOOLEAN
  /\ \A r \in Requests : DOMAIN r = {"id", "version", "gross", "net", "policy",
                                     "exec", "parameters"}

VARIABLES
  request,   \* the request of the job
  phase,     \* where the job is
  reason,    \* why it was refused or failed
  todo,      \* the strategies still to be run
  results,   \* what the strategies that ran were and returned
  artifact,  \* the comparison artifact
  row        \* the columns of backtest_jobs the optimizer reads

compareVars == <<request, phase, reason, todo, results, artifact, row>>

-----------------------------------------------------------------------------
(* A request. *)

\* normalizeStage05RunRequest: defaults.  Gross and net are "", "0", "0.5",
\* "1" or "2", the last outside (0,1].
Filled(r) ==
  LET gross == IF r.gross = "" THEN "1" ELSE r.gross
  IN [r EXCEPT !.gross = gross, !.net = IF @ = "" THEN gross ELSE @,
               !.policy = IF @ = "" THEN "liquidate" ELSE @]

\* normalizeStage05RunRequest: the parameters the candidate runs with.
CandidateParameters(r) ==
  LET intent == IF r.id = Candidate /\ "execution_intent" \notin DOMAIN r.parameters
                THEN [execution_intent |-> "backtest"] ELSE <<>>
      final == IF r.id = "cash" /\ "final_policy" \notin DOMAIN r.parameters
               THEN <<>> ELSE [final_policy |-> Filled(r).policy]
  IN Plus(Plus(Plus(intent, r.parameters), [target_gross |-> Filled(r).gross]), final)

\* ValidateStage05RunRequest
ValidateRequest(r) ==
  LET q == Filled(r) IN
  /\ r.exec \in {"", "v1", "v2", "v3", "v4"}
  /\ r.id # ""
  /\ r.id = Candidate =>
       /\ r.version \in Council => r.exec = "v4"
       /\ CandidateParameters(r).execution_intent = "backtest"
  /\ q.policy \in {"liquidate", "mark_to_market"}
  /\ q.gross \in {"0.5", "1"}
  /\ q.net = q.gross
  /\ Resolves(r.id, r.version, CandidateParameters(r))

\* strategyNeedsUniverse and the ids of RunStage05Comparison, in order
NeedsUniverse(id) == id \in {"equal_weight", "momentum", "legacy", Candidate, Matched}
Ids(id) ==
  LET all ==
        CASE id = Candidate -> <<"cash", Hold, Trend, "equal_weight", "momentum", Matched>>
          [] id # Candidate /\ NeedsUniverse(id) -> <<"cash", Hold, Trend, "equal_weight", "momentum">>
          [] OTHER -> <<"cash", Hold, Trend>>
  IN IF \E i \in DOMAIN all : all[i] = id THEN all ELSE Append(all, id)

\* RunStage05Comparison: the version and parameters of one of its strategies.
RunAs(id) ==
  LET p == CandidateParameters(request) IN
  CASE id = request.id -> [version |-> VersionOf(id, request.version), parameters |-> p]
    [] id # request.id /\ id = Matched ->
         [version |-> IF request.version = "1.2.0" THEN "1.1.0" ELSE "1.0.0",
          parameters |-> Plus([k \in DOMAIN p \ CouncilKeys |-> p[k]], [vol_normalization |-> "false"])]
    [] OTHER -> [version |-> "", parameters |->
         IF id = "cash" THEN <<>> ELSE [target_gross |-> Filled(request).gross, final_policy |-> Filled(request).policy]]

-----------------------------------------------------------------------------
(* The job. *)

CompareInit ==
  /\ request = <<>> /\ phase = "idle" /\ reason = None /\ todo = <<>>
  /\ results = <<>> /\ artifact = <<>>
  /\ row = [status |-> "pending", digest |-> <<>>, summary |-> <<>>]

Fails(why) ==
  /\ phase' = "failed" /\ reason' = why
  /\ row' = [row EXCEPT !.status = "failed"]
  /\ UNCHANGED <<request, todo, results, artifact>>

\* StartStage05ComparisonJob: only a request that validates becomes a job.
Submit(r) ==
  /\ phase = "idle"
  /\ request' = r
  /\ IF ValidateRequest(r)
     THEN phase' = "running" /\ todo' = Ids(r.id) /\ UNCHANGED reason
     ELSE phase' = "refused" /\ reason' = "request" /\ UNCHANGED todo
  /\ UNCHANGED <<results, artifact, row>>

\* validateComparableInputs, newCouncilRuntime: the pinned data or the
\* council model is missing.
InputsMissing == phase = "running" /\ RunsFail /\ results = <<>> /\ Fails("inputs")

\* One strategy of the loop.
RunStrategy(ret) ==
  /\ phase = "running" /\ todo # <<>>
  /\ LET id == Head(todo) as == RunAs(id) IN
     IF ~Resolves(id, as.version, as.parameters) THEN Fails("resolve")
     ELSE /\ results' = Append(results, [strategy |-> Selected(id, as.version, as.parameters),
                                         return |-> IF id = "cash" THEN 0 ELSE ret])
          /\ todo' = Tail(todo)
          /\ UNCHANGED <<request, phase, reason, artifact, row>>

RunFails == phase = "running" /\ RunsFail /\ todo # <<>> /\ Fails("run")

\* runStage06SensitivityGrid: ablations of the candidate at its first version.
Grid == {<<"combined", "true">>, <<"combined", "false">>,
         <<"absolute_trend_only", "false">>, <<"relative_momentum_only", "false">>}
GridResolves ==
  \A g \in Grid : Resolves(Candidate, "1.0.0",
    Plus(CandidateParameters(request), [variant |-> g[1], vol_normalization |-> g[2]]))
NeedsGrid == request.id = Candidate /\ request.version \in {"1.0.0", "1.1.0"}

ReturnOf(id) == (CHOOSE i \in DOMAIN results : results[i].strategy.id = id)
Value(id) == results[ReturnOf(id)].return
Ran == {results[i].strategy.id : i \in DOMAIN results}

\* buildStage05Comparison: the gate.  The candidate beats cash and the best of
\* the other baselines.
Allowed ==
  LET rivals == {id \in Ran \ {"cash", request.id} : Baseline(id)}
      best == CHOOSE v \in {Value(id) : id \in rivals \cup {Hold}} :
                \A id \in rivals \cup {Hold} : Value(id) <= v
  IN /\ Value(request.id) > Value("cash")
     /\ Value(request.id) > best
     /\ ~Baseline(request.id) /\ ~LegacyCompatibility(request.id)

\* comparisonDigest: the artifact encoded in the order its fields are declared.
comparisonDigest(content) == <<"declared order", content>>

Build ==
  /\ phase = "running" /\ todo = <<>>
  /\ IF NeedsGrid /\ ~GridResolves THEN Fails("resolve")
     ELSE /\ LET content == [candidate |-> <<request.id, VersionOf(request.id, request.version)>>,
                             rows |-> results, allowed |-> Allowed]
             IN artifact' = [content |-> content, digest |-> comparisonDigest(content)]
          /\ phase' = "built"
          /\ UNCHANGED <<request, reason, todo, results, row>>

\* MarshalComparisonArtifact: identities, digest and size; the digest column
\* is written first.
StoreDigest ==
  /\ phase = "built" /\ artifact.digest = comparisonDigest(artifact.content)
  /\ row' = [row EXCEPT !.digest = artifact.digest] /\ phase' = "stored"
  /\ UNCHANGED <<request, reason, todo, results, artifact>>
TooLarge == phase = "built" /\ RunsFail /\ Fails("size")

\* updateBacktestJobWithSummary
StoreSummary ==
  /\ phase = "stored"
  /\ row' = [row EXCEPT !.status = "completed", !.summary = artifact] /\ phase' = "done"
  /\ UNCHANGED <<request, reason, todo, results, artifact>>

CompareNext ==
  \/ \E r \in Requests : Submit(r)
  \/ \E v \in Returns : RunStrategy(v)
  \/ InputsMissing \/ RunFails \/ Build \/ StoreDigest \/ TooLarge \/ StoreSummary

CompareSpec == CompareInit /\ [][CompareNext]_compareVars

-----------------------------------------------------------------------------
(* The optimizer. *)

\* requireBaselineRelativeOptimizationEvidence decodes the text into a map,
\* which is encoded with its keys sorted.
serviceDigest(content) == <<"sorted keys", content>>

\* Mutant: a tie with a baseline is enough.
RowsAllowTies(content) ==
  LET id == content.candidate[1]
      of(x) == content.rows[CHOOSE i \in DOMAIN content.rows : content.rows[i].strategy.id = x].return
  IN /\ ~Baseline(id)
     /\ \A i \in DOMAIN content.rows :
          content.rows[i].strategy.id # id => of(id) >= content.rows[i].return

\* requireBaselineRelativeOptimizationEvidence: the rows
RowsAllow(content) ==
  LET id == content.candidate[1]
      ids == {content.rows[i].strategy.id : i \in DOMAIN content.rows}
      of(x) == content.rows[CHOOSE i \in DOMAIN content.rows : content.rows[i].strategy.id = x]
  IN /\ Cardinality(ids) = Len(content.rows)
     /\ {"cash", Hold, Trend, id} \subseteq ids
     /\ ~Baseline(id) /\ ~LegacyCompatibility(id)
     /\ of(id).strategy.version = content.candidate[2]
     /\ \A x \in ids \ {id} : Baseline(x) => of(id).return > of(x).return

\* GenerateBacktestOptimizationProposals up to its first LLM call
OptimizerAccepts ==
  /\ row.status = "completed"
  /\ row.summary.digest = row.digest
  /\ row.digest = serviceDigest(row.summary.content)
  /\ RowsAllow(row.summary.content)

-----------------------------------------------------------------------------
(* Properties. *)

\* Whether the job has an artifact.
Built == phase \in {"built", "stored", "done"}

CompareTypeOK ==
  /\ phase \in {"idle", "refused", "running", "failed", "built", "stored", "done"}
  /\ reason \in {None, "request", "inputs", "resolve", "run", "size"}
  /\ \A i \in DOMAIN results : results[i].return \in Returns
  /\ row.status \in {"pending", "failed", "completed"}
  /\ (phase = "done") = (row.status = "completed")

\* The gate of a stored artifact passes only a candidate that is no baseline
\* and returned strictly more than every other strategy of the comparison,
\* cash included (buildStage05Comparison).
PassBeatsAll ==
  Built /\ artifact.content.allowed =>
    /\ ~Baseline(request.id)
    /\ \A id \in Ran \ {request.id} : Value(request.id) > Value(id)

\* The two implementations of the gate, buildStage05Comparison with its best
\* baseline and the optimizer's loop over the stored rows, agree on every
\* artifact a job can build.
GateAgrees == Built => (artifact.content.allowed <=> RowsAllow(artifact.content))

\* The optimizer takes exactly the finished jobs whose gate passed and whose
\* digest it computes to the same.
AcceptsWhatPassed ==
  phase = "done" =>
    (OptimizerAccepts <=>
       artifact.content.allowed /\ row.digest = serviceDigest(row.summary.content))

\* The matched baseline of a finished comparison differs from its candidate in
\* volatility normalisation and the council only: same exposure, same final
\* policy, and the same entry rule.
MatchedSharesRules ==
  Built /\ request.id = Candidate =>
    LET of(id) == results[ReturnOf(id)].strategy.parameters
        ignored == CouncilKeys \cup {"vol_normalization"}
    IN /\ DOMAIN of(Matched) \ ignored = DOMAIN of(Candidate) \ ignored
       /\ \A k \in DOMAIN of(Matched) \ ignored : of(Matched)[k] = of(Candidate)[k]

\* Every strategy that ran in the comparison of the research candidate was
\* resolved to be simulated, never with an intent that carries capital or
\* observes the live market.
OnlySimulates ==
  phase # "idle" /\ request.id = Candidate => \A i \in DOMAIN results :
    "execution_intent" \in DOMAIN results[i].strategy.parameters =>
      results[i].strategy.parameters.execution_intent = "backtest"

\* All of it: what a comparison concludes is fair, and both of its readers come
\* to the same conclusion.
ComparisonIsFair ==
  OnlySimulates /\ PassBeatsAll /\ GateAgrees /\ MatchedSharesRules /\ AcceptsWhatPassed
=============================================================================
