-------------------------------- MODULE Parity --------------------------------
(***************************************************************************)
(* internal/cutover/parity.go and the parity part of                       *)
(* internal/operations/service.go: the dual run that compares the decisions*)
(* of the legacy and of the shared engine, and the verdict on a population *)
(* of decision contexts.                                                   *)
(*                                                                         *)
(* Policies, populations and observations are immutable rows.  Writers of  *)
(* one population are serialised by an advisory lock, so PersistParityBound*)
(* is one action; DeclareParityPolicy counts observations and inserts its  *)
(* row in a transaction that locks nothing, so it is two.                  *)
(***************************************************************************)
EXTENDS Integers, FiniteSets

CONSTANTS
    Exact,          \* outcome fields compared exactly
    Numeric,        \* outcome fields compared within a tolerance
    Values,         \* values of exact fields
    Amounts,        \* values of numeric fields
    Acceptance,     \* what an acceptance policy asks for, by its name
    Decisions,      \* decision contexts
    PairKeys,       \* the pairs of engines compared
    Pairs,          \* bound: pairs of outcomes that the dual run produces
    Basis,          \* the whole, in basis points: 10000
    MaxDecisions,   \* most contexts of a population: 10000
    MaxParityPopulations, MaxAttempts   \* bounds: populations, cutover attempts

\* The counters of ParityAggregate that a divergence code adds to, by the
\* substrings EvaluateParity looks for.
Bucket(code) ==
    CASE code = "action" -> "action"
      [] code \in {"quantity", "notional"} -> "quantity"
      [] code \in {"primary_exit_reason", "concurrent_exit_reasons"} -> "reason"
      [] code \in {"engine_version", "strategy_version", "policy_version",
                   "model_version", "dataset_version", "universe_version"} -> "version"
      [] OTHER -> "none"

Buckets == {"action", "quantity", "reason", "version"}

\* Codes for which trustedExpected knows the pair of values.
Explainable == {"quantity", "notional", "engine_version", "strategy_version",
                "policy_version", "model_version", "dataset_version", "universe_version"}

Outcomes == [Exact -> Values] \X [Numeric -> Amounts]

Field(o, f) == IF f \in Exact THEN o[1][f] ELSE o[2][f]

Magnitude(x) == IF x < 0 THEN -x ELSE x

withinBPS(x, y, tolerance) ==
    LET a == Magnitude(x) b == Magnitude(y)
        base == IF a > b THEN a ELSE b
    IN Magnitude(x - y) * Basis <= tolerance * base

compareOutcomes(a, b, p) ==
    {f \in Exact : Field(a, f) # Field(b, f)} \cup
    {f \in Numeric : ~withinBPS(Field(a, f), Field(b, f), p.tolerance)}

\* A declared reason explains one code with one exact pair of values.
trustedExpected(code, a, b, p) ==
    /\ code \in Explainable
    /\ [code |-> code, legacy |-> Field(a, code), candidate |-> Field(b, code)] \in p.expected

Classification(a, b, p) ==
    LET codes == compareOutcomes(a, b, p) IN
    IF codes = {} THEN "match"
    ELSE IF \A c \in codes : trustedExpected(c, a, b, p) THEN "expected"
    ELSE "unexplained"

\* What RunParity answers with under a policy: the outcomes of both engines, the
\* divergent fields and their classification.
RunParity(a, b, p) ==
    [legacy |-> a, candidate |-> b, codes |-> compareOutcomes(a, b, p),
     class |-> Classification(a, b, p)]

\* Mutant: only the consistency of the comparison in itself is verified.
VerifyComparisonAlone(v, p) == v.class \in {"match", "expected", "unexplained"}

\* The comparison says what the policy of the population makes of its outcomes.
VerifyComparisonWithPolicy(v, p) ==
    /\ v.codes = compareOutcomes(v.legacy, v.candidate, p)
    /\ v.class = Classification(v.legacy, v.candidate, p)

\* What the instances have to satisfy.
ParityAssumption ==
    /\ Exact \cap Numeric = {} /\ Pairs \subseteq Outcomes \X Outcomes /\ Amounts \subseteq Int
    /\ IsFiniteSet(Decisions) /\ MaxParityPopulations \in Nat /\ MaxAttempts \in Nat
    /\ Basis \in Nat \ {0} /\ MaxDecisions \in 1 .. Basis
    \* DeclareParityPolicy
    /\ \A n \in DOMAIN Acceptance : LET p == Acceptance[n] IN
         /\ p.samples \in Nat \ {0} /\ p.coverage \in 1 .. Basis
         /\ p.tolerance \in 0 .. Basis /\ p.rate \in [Buckets -> 0 .. Basis]
         /\ \A r \in p.expected : r = [code |-> r.code, legacy |-> r.legacy, candidate |-> r.candidate]

Names == DOMAIN Acceptance

VARIABLES
    attempt,        \* cutover_states.transition_id
    policies,       \* parity_acceptance_policies, by name
    declaring,      \* policies whose transaction has counted observations
    parityPopulations, \* parity_populations
    observations,   \* parity_observations
    aggregates      \* parity_aggregates, by pair of engines

parityVars == <<attempt, policies, declaring, parityPopulations, observations, aggregates>>

ParityPopulations == [pair : PairKeys, policy : Names, attempt : 0 .. MaxAttempts,
                        contexts : SUBSET Decisions]

Counters == [total : Nat, match : Nat, expected : Nat, unexplained : Nat, buckets : [Buckets -> Nat]]

Zero == [total |-> 0, match |-> 0, expected |-> 0, unexplained |-> 0,
         buckets |-> [b \in Buckets |-> 0]]

ParityTypeOK ==
    /\ attempt \in 0 .. MaxAttempts
    /\ policies \subseteq Names /\ declaring \subseteq Names
    /\ parityPopulations \subseteq ParityPopulations
    /\ \A o \in observations : /\ o.population \in parityPopulations /\ o.context \in o.population.contexts
                               /\ o.comparison.codes \subseteq Exact \cup Numeric
    /\ aggregates \in [PairKeys -> Counters]

-----------------------------------------------------------------------------
Observed(p) == {o \in observations : o.population = p}

ClassOf(o) == o.comparison.class

CodesOf(o) == o.comparison.codes

BucketsOf(o) == {Bucket(c) : c \in CodesOf(o)} \cap Buckets

Unexplained(p) == {o \in Observed(p) : ClassOf(o) = "unexplained"}

\* EvaluateParity over the rows of the population of the current attempt.
EvaluateParity(p) ==
    LET total == Cardinality(Observed(p))
        policy == Acceptance[p.policy]
        rate(b) == (Cardinality({o \in Unexplained(p) : b \in BucketsOf(o)}) * Basis) \div total
    IN /\ p \in parityPopulations /\ p.attempt = attempt
       /\ total <= Cardinality(p.contexts) /\ total > 0 /\ total >= policy.samples
       /\ (total * Basis) \div Cardinality(p.contexts) >= policy.coverage
       /\ \A b \in Buckets : rate(b) <= policy.rate[b]

\* DeclareParityPolicy: count the observations ...
CountObservations(n) ==
    /\ n \notin policies \cup declaring /\ observations = {}
    /\ declaring' = declaring \cup {n}
    /\ UNCHANGED <<attempt, policies, parityPopulations, observations, aggregates>>

\* ... and insert the row.
DeclareParityPolicy(n) ==
    /\ n \in declaring
    /\ declaring' = declaring \ {n} /\ policies' = policies \cup {n}
    /\ UNCHANGED <<attempt, parityPopulations, observations, aggregates>>

\* BeginParityPopulation: the population is bound to the attempt of the moment;
\* the same one twice is the same row.
BeginPopulation(k, n, c) ==
    LET p == [pair |-> k, policy |-> n, attempt |-> attempt, contexts |-> c] IN
    /\ n \in policies /\ c # {} /\ Cardinality(c) <= MaxDecisions /\ p \notin parityPopulations
    /\ Cardinality(parityPopulations) < MaxParityPopulations
    /\ parityPopulations' = parityPopulations \cup {p}
    /\ UNCHANGED <<attempt, policies, declaring, observations, aggregates>>

\* What the observations of a pair of engines add up to.
Sums(rows, k) ==
    LET mine == {o \in rows : o.population.pair = k}
        of(c) == Cardinality({o \in mine : ClassOf(o) = c}) IN
    [total |-> Cardinality(mine), match |-> of("match"), expected |-> of("expected"),
     unexplained |-> of("unexplained"),
     buckets |-> [b \in Buckets |-> Cardinality({o \in mine : b \in BucketsOf(o)})]]

\* The row of the aggregate with one more observation.
Incremented(a, o) ==
    LET plus(n, yes) == n + (IF yes THEN 1 ELSE 0) IN
    [total |-> a.total + 1, match |-> plus(a.match, ClassOf(o) = "match"),
     expected |-> plus(a.expected, ClassOf(o) = "expected"),
     unexplained |-> plus(a.unexplained, ClassOf(o) = "unexplained"),
     buckets |-> [b \in Buckets |-> plus(a.buckets[b], b \in BucketsOf(o))]]

\* PersistParityBound: a comparison of a context of the population.  It was run
\* under a policy of the caller's choice and has to agree with the population's.
\* A context that has a row keeps it: an equal comparison is answered with that
\* row, a different one is refused.
PersistParityBound(p, x, v) ==
    LET new == [population |-> p, context |-> x, comparison |-> v] IN
    /\ p \in parityPopulations /\ x \in p.contexts
    /\ VerifyComparisonWithPolicy(v, Acceptance[p.policy])
    /\ \A o \in Observed(p) : o.context # x
    /\ Cardinality(Observed(p)) < MaxDecisions
    /\ observations' = observations \cup {new}
    /\ aggregates' = [aggregates EXCEPT ![p.pair] = Incremented(@, new)]
    /\ UNCHANGED <<attempt, policies, declaring, parityPopulations>>

\* A cutover transition commits (module Cutover).
NewAttempt ==
    /\ attempt < MaxAttempts /\ attempt' = attempt + 1
    /\ UNCHANGED <<policies, declaring, parityPopulations, observations, aggregates>>

ParityInit ==
    /\ attempt = 0 /\ policies = {} /\ declaring = {}
    /\ parityPopulations = {} /\ observations = {} /\ aggregates = [k \in PairKeys |-> Zero]

ParityNext ==
    \/ \E n \in Names : CountObservations(n) \/ DeclareParityPolicy(n)
    \/ \E k \in PairKeys, n \in Names, c \in SUBSET Decisions : BeginPopulation(k, n, c)
    \/ \E p \in parityPopulations, x \in Decisions, q \in Pairs, n \in Names :
         PersistParityBound(p, x, RunParity(q[1], q[2], Acceptance[n]))
    \/ NewAttempt

ParitySpec == ParityInit /\ [][ParityNext]_parityVars

-----------------------------------------------------------------------------
\* A comparison made under a lenient policy never counts as explained in a
\* population with a strict one: what is stored is the judgement of the
\* population's own policy.
NoRelabel ==
    \A o \in observations :
        (o.comparison.class = "unexplained") <=>
            \E f \in Exact \cup Numeric :
                LET a == Field(o.comparison.legacy, f) b == Field(o.comparison.candidate, f)
                    p == Acceptance[o.population.policy] IN
                /\ a # b
                /\ f \in Numeric => Magnitude(a - b) * Basis >
                     p.tolerance * (IF Magnitude(a) > Magnitude(b) THEN Magnitude(a) ELSE Magnitude(b))
                /\ ~\E r \in p.expected : f \in Explainable /\ r.code = f /\ r.legacy = a /\ r.candidate = b

\* The lifetime aggregate that operators see counts what the observations of a
\* pair of engines add up to, whatever populations they belong to.
AggregateIsSum == \A k \in PairKeys : aggregates[k] = Sums(observations, k)

\* A population that was observed completely has its verdict for good: within
\* its attempt neither a replayed nor a changed comparison turns it.
VerdictIsFinal ==
    \A p \in parityPopulations :
        Cardinality(Observed(p)) = Cardinality(p.contexts) /\ attempt' = attempt =>
            (EvaluateParity(p) <=> EvaluateParity(p)')

\* A verdict under a policy that tolerates no divergence is one on every
\* decision: no accepted population holds an unexplained difference of action,
\* size, exit reason or version, however large the population.
AcceptedIsExplained ==
    \A p \in parityPopulations :
        EvaluateParity(p) /\ (\A b \in Buckets : Acceptance[p.policy].rate[b] = 0) =>
            \A o \in Unexplained(p) :
                CodesOf(o) \cap ({"action", "quantity", "notional", "primary_exit_reason",
                    "concurrent_exit_reasons", "engine_version", "model_version"}) = {}

\* What is stored is judged by its population's own policy, the aggregate is the
\* sum of the observations, and a verdict without tolerance has nothing
\* unexplained (PersistParityBound, EvaluateParity).
ParityIsJudged == ParityTypeOK /\ NoRelabel /\ AggregateIsSum /\ AcceptedIsExplained
=============================================================================
