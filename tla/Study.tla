-------------------------------- MODULE Study ---------------------------------
(***************************************************************************)
(* internal/validation/repository.go, job.go, ml_evidence.go and the       *)
(* validation handlers: a manifest is registered as an attempt of its      *)
(* research family, jobs replay it in goroutines, and the first job to     *)
(* commit gives the attempt its one outcome.                               *)
(*                                                                         *)
(* A manifest is identified by its content and its creation time.  What a  *)
(* replay finds is a function of the content (the replay is deterministic);*)
(* loading the source may fail at any time.  Every transaction is one      *)
(* action, and a crash of the server takes the goroutines with it.         *)
(***************************************************************************)
EXTENDS Integers, FiniteSets

CONSTANTS
    Specs,          \* [content -> [family, scope, interval, confirmatory, replay, ml]]
    ManifestKeys,   \* Idempotency-Key values of manifests
    RequestKeys,    \* Idempotency-Key values of runs
    Times,          \* creation times
    MaxExperiments, MaxPending, MaxCrashes      \* bounds

Contents == DOMAIN Specs

Experiments == Contents \X Times

\* The kinds of evidence: a result, or the stage that failed.
Failures == {"load", "replay", "ml", "prewrite"}
Evidence == {"none", "passed"} \cup Failures

\* What the instances have to satisfy.
StudyAssumption ==
    /\ \A c \in Contents :
         /\ Specs[c].replay \in {"passed", "replay", "prewrite"}
         /\ Specs[c].ml \in {"absent", "passed", "rejected", "ml"}
         /\ Specs[c].confirmatory \in BOOLEAN
    /\ MaxExperiments \in Nat /\ MaxPending \in Nat /\ MaxCrashes \in Nat

VARIABLES
    experiments,    \* [experiment -> its key], the registered manifests
    families,       \* [family -> scope], research_experiment_families
    holdouts,       \* {<<family, interval, experiment>>}, holdouts and their uses
    evidence,       \* [experiment -> Evidence], evidence and attempt outcome
    ml,             \* experiments with ML evidence
    jobs,           \* [request key -> [status, experiment]], backtest_jobs
    pending,        \* goroutines of a job that have not claimed it
    routine,        \* [request key -> [at, found]], the goroutine that claimed it
    crashes

vars == <<experiments, families, holdouts, evidence, ml, jobs, pending, routine, crashes>>

NoJob == [status |-> "none"]
Idle == [at |-> "idle", found |-> "none"]

Jobs == {NoJob} \cup [status : {"queued", "running", "completed", "failed"},
                      experiment : Experiments]

TypeOK ==
    /\ DOMAIN experiments \subseteq Experiments
    /\ \A e \in DOMAIN experiments : experiments[e] \in ManifestKeys /\ Specs[e[1]].family \in DOMAIN families
    /\ \A h \in holdouts : h[3] \in DOMAIN experiments
    /\ evidence \in [Experiments -> Evidence] /\ ml \subseteq DOMAIN experiments
    /\ jobs \in [RequestKeys -> Jobs] /\ pending \in [RequestKeys -> 0 .. MaxPending]
    /\ routine \in [RequestKeys -> [at : {"idle", "check", "load", "ml", "record", "finish"},
                                    found : Evidence \cup {"refused"}]]
    /\ crashes \in 0 .. MaxCrashes

-----------------------------------------------------------------------------
\* registerResearchAttempt: the family keeps its scope, and a confirmatory
\* manifest needs the family's holdout, locked on the same interval and unused.
registerResearchAttempt(e) ==
    LET s == Specs[e[1]] IN
    /\ s.family \in DOMAIN families => families[s.family] = s.scope
    /\ s.confirmatory => ~\E h \in holdouts : h[1] = s.family

\* CreateManifestAuthenticated.  A key that is known answers with its manifest
\* or refuses another content, and a known identity changes nothing.
CreateManifest(e, k) ==
    LET s == Specs[e[1]] IN
    /\ e \notin DOMAIN experiments /\ \A x \in DOMAIN experiments : experiments[x] # k
    /\ Cardinality(DOMAIN experiments) < MaxExperiments
    /\ registerResearchAttempt(e)
    /\ experiments' = [x \in DOMAIN experiments \cup {e} |-> IF x = e THEN k ELSE experiments[x]]
    /\ families' = [f \in DOMAIN families \cup {s.family} |->
                      IF f = s.family THEN s.scope ELSE families[f]]
    /\ holdouts' = holdouts \cup (IF s.confirmatory THEN {<<s.family, s.interval, e>>} ELSE {})
    /\ UNCHANGED <<evidence, ml, jobs, pending, routine, crashes>>

\* RunValidationExperiment: one job per request key; a goroutine is started
\* whenever the job it answers with is still queued.
RunValidationExperiment(k, e) ==
    /\ e \in DOMAIN experiments
    /\ \/ jobs[k] = NoJob
       \/ jobs[k] # NoJob /\ jobs[k].experiment = e /\ jobs[k].status = "queued"
    /\ pending[k] < MaxPending
    /\ jobs' = [jobs EXCEPT ![k] = [status |-> "queued", experiment |-> e]]
    /\ pending' = [pending EXCEPT ![k] = @ + 1]
    /\ UNCHANGED <<experiments, families, holdouts, evidence, ml, routine, crashes>>

\* executeValidationJob claims the job, or finds it claimed.
Claim(k) ==
    /\ pending[k] > 0 /\ pending' = [pending EXCEPT ![k] = @ - 1]
    /\ \/ /\ jobs[k].status = "queued"
          /\ jobs' = [jobs EXCEPT ![k].status = "running"]
          /\ routine' = [routine EXCEPT ![k] = [at |-> "check", found |-> "none"]]
       \/ jobs[k].status # "queued" /\ UNCHANGED <<jobs, routine>>
    /\ UNCHANGED <<experiments, families, holdouts, evidence, ml, crashes>>

Go(k, at, found) == routine' = [routine EXCEPT ![k] = [at |-> at, found |-> found]]

\* JobService.Run refuses an experiment that has an outcome ...
HasCompletedOutcome(k) ==
    /\ routine[k].at = "check"
    /\ IF evidence[jobs[k].experiment] = "none" THEN Go(k, "load", "none")
       ELSE Go(k, "finish", "refused")
    /\ UNCHANGED <<experiments, families, holdouts, evidence, ml, jobs, pending, crashes>>

\* ... loads the source and replays every fold.
LoadAndReplay(k) ==
    LET s == Specs[jobs[k].experiment[1]] IN
    /\ routine[k].at = "load"
    /\ \/ Go(k, "record", "load")
       \/ IF s.replay = "replay" \/ s.ml = "absent" THEN Go(k, "record", s.replay)
          ELSE Go(k, "ml", s.replay)
    /\ UNCHANGED <<experiments, families, holdouts, evidence, ml, jobs, pending, crashes>>

\* NewImmutableMLEvidence and PersistMLEvidence.  Evidence whose gates did not
\* pass is refused, and the run ends there.
PersistMLEvidence(k) ==
    LET e == jobs[k].experiment s == Specs[e[1]] IN
    /\ routine[k].at = "ml"
    /\ CASE s.ml = "passed" -> ml' = ml \cup {e} /\ Go(k, "record", routine[k].found)
         [] s.ml = "rejected" -> ml' = ml /\ Go(k, "finish", "refused")
         [] OTHER -> ml' = ml /\ Go(k, "record", "ml")
    /\ UNCHANGED <<experiments, families, holdouts, evidence, jobs, pending, crashes>>

\* Mutant: a conflict with other evidence goes unnoticed.
PersistUnchecked(k) ==
    LET e == jobs[k].experiment found == routine[k].found IN
    /\ routine[k].at = "record"
    /\ evidence' = [evidence EXCEPT ![e] = IF @ = "none" THEN found ELSE @]
    /\ Go(k, "finish", found)
    /\ UNCHANGED <<experiments, families, holdouts, ml, jobs, pending, crashes>>

\* PersistEvidence: the folds, the evidence and the outcome in one transaction.
\* Evidence that is there already has to be the same.  A result that does not
\* reproduce is recorded as a failure (persistResult).
PersistEvidence(k) ==
    LET e == jobs[k].experiment found == routine[k].found IN
    /\ routine[k].at = "record"
    /\ IF evidence[e] \in {"none", found}
       THEN evidence' = [evidence EXCEPT ![e] = found] /\ Go(k, "finish", found)
       ELSE evidence' = evidence /\ Go(k, "finish", "refused")
    /\ UNCHANGED <<experiments, families, holdouts, ml, jobs, pending, crashes>>

\* The end of executeValidationJob.
Finish(k) ==
    /\ routine[k].at = "finish"
    /\ jobs' = [jobs EXCEPT ![k].status =
                  IF routine[k].found = "passed" THEN "completed" ELSE "failed"]
    /\ routine' = [routine EXCEPT ![k] = Idle]
    /\ UNCHANGED <<experiments, families, holdouts, evidence, ml, pending, crashes>>

Crash ==
    /\ crashes < MaxCrashes /\ crashes' = crashes + 1
    /\ pending' = [k \in RequestKeys |-> 0] /\ routine' = [k \in RequestKeys |-> Idle]
    /\ UNCHANGED <<experiments, families, holdouts, evidence, ml, jobs>>

Init ==
    /\ experiments = [e \in {} |-> 0] /\ families = [f \in {} |-> 0] /\ holdouts = {}
    /\ evidence = [e \in Experiments |-> "none"] /\ ml = {}
    /\ jobs = [k \in RequestKeys |-> NoJob] /\ pending = [k \in RequestKeys |-> 0]
    /\ routine = [k \in RequestKeys |-> Idle] /\ crashes = 0

Routine(k) ==
    \/ Claim(k) \/ HasCompletedOutcome(k) \/ LoadAndReplay(k)
    \/ PersistMLEvidence(k) \/ PersistEvidence(k) \/ Finish(k)

Next ==
    \/ \E e \in Experiments, k \in ManifestKeys : CreateManifest(e, k)
    \/ \E k \in RequestKeys, e \in Experiments : RunValidationExperiment(k, e)
    \/ \E k \in RequestKeys : Routine(k)
    \/ Crash

Spec == Init /\ [][Next]_vars

-----------------------------------------------------------------------------
\* "An attempt has one immutable outcome": of jobs that replay one experiment at
\* the same time, and of retries after a crash, the first to commit decides.
OutcomeIsFinal ==
    \A e \in Experiments : evidence[e] # "none" => evidence'[e] = evidence[e]

\* A job that reports success reports the outcome that was recorded.
CompletedIsRecorded ==
    \A k \in RequestKeys : jobs[k].status = "completed" => evidence[jobs[k].experiment] = "passed"

\* A model's experiment has passed only with its ML evidence on record, whatever
\* crash fell between the two transactions.
PassedModelHasML ==
    \A e \in Experiments : evidence[e] = "passed" /\ Specs[e[1]].ml # "absent" => e \in ml

\* "One locked, single-use confirmatory holdout per family": no second
\* confirmatory manifest of a family, by whatever key or time.
HoldoutUsedOnce ==
    \A e, f \in DOMAIN experiments :
        Specs[e[1]].confirmatory /\ Specs[f[1]].confirmatory /\ Specs[e[1]].family = Specs[f[1]].family
            => e = f

\* What a study promises whatever crashes and repeated requests there are: a run
\* that reports success reports the outcome that was recorded, a model passes
\* only with its ML evidence, and one confirmation uses the holdout of a family
\* (CreateManifestAuthenticated, executeValidationJob, PersistEvidence).
StudyIsEvidenced == TypeOK /\ CompletedIsRecorded /\ PassedModelHasML /\ HoldoutUsedOnce
=============================================================================
