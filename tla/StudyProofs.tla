----------------------------- MODULE StudyProofs ------------------------------
(***************************************************************************)
(* Validation studies are evidenced for every set of manifests, keys and   *)
(* times and every number of jobs and crashes; and the cache of bars is    *)
(* exact for every set of readers and series and every maximum.  The bars  *)
(* and manifests that studies run on are pinned for every set of ranges    *)
(* and of ingesters, the ranges of universe snapshots are built, resumed   *)
(* and preflighted soundly for every set of workers and of rows, and the   *)
(* background jobs that run the backtests are backed by what they stored   *)
(* for every list of jobs, slots, bars, windows, workers and restarts; and *)
(* a run that was prepared has its bars and its constraints.               *)
(***************************************************************************)
EXTENDS Study, DatasetCache, Dataset, UniverseRange, BacktestJobs, BacktestInputs,
        SumProofs, SequenceTheorems

\* A goroutine that claimed a job owns it: the job stays as it was claimed
\* until the goroutine ends.  What is queued or started names a registered
\* manifest.
Owned ==
    \A k \in RequestKeys :
        /\ routine[k].at # "idle" => jobs[k] # NoJob /\ jobs[k].status = "running"
        /\ pending[k] > 0 => jobs[k] # NoJob
        /\ jobs[k] # NoJob => jobs[k].experiment \in DOMAIN experiments

\* What a goroutine found is something that can be recorded, a pass that is
\* ready to be recorded has its ML evidence, and one that is reported was
\* recorded.
Found(k) ==
    LET e == jobs[k].experiment IN
    /\ routine[k].at \in {"ml", "record"} => routine[k].found \in Evidence \ {"none"}
    /\ routine[k].at = "record" /\ routine[k].found = "passed" /\ Specs[e[1]].ml # "absent" => e \in ml
    /\ routine[k].at = "finish" /\ routine[k].found = "passed" => evidence[e] = "passed"

\* Every confirmatory manifest has taken the holdout of its family.
HoldoutTaken ==
    \A e \in DOMAIN experiments :
        Specs[e[1]].confirmatory => \E h \in holdouts : h[1] = Specs[e[1]].family

IInv ==
    /\ TypeOK /\ Owned /\ (\A k \in RequestKeys : Found(k)) /\ HoldoutTaken
    /\ CompletedIsRecorded /\ PassedModelHasML /\ HoldoutUsedOnce

-----------------------------------------------------------------------------
LEMMA InitInv == ASSUME StudyAssumption PROVE Init => IInv
<1> SUFFICES ASSUME Init PROVE IInv
  OBVIOUS
<1> USE DEF Init
<1>1. TypeOK
  BY DEF TypeOK, StudyAssumption, Evidence, Jobs, NoJob, Idle
<1>2. Owned /\ (\A k \in RequestKeys : Found(k)) /\ HoldoutTaken
  BY DEF Owned, Found, HoldoutTaken, NoJob, Idle
<1>3. CompletedIsRecorded /\ PassedModelHasML /\ HoldoutUsedOnce
  BY DEF CompletedIsRecorded, PassedModelHasML, HoldoutUsedOnce, NoJob
<1> QED BY <1>1, <1>2, <1>3 DEF IInv

-----------------------------------------------------------------------------
\* A job that exists is a record with a status and an experiment.
LEMMA JobRecord ==
    ASSUME TypeOK, Owned, NEW k \in RequestKeys, jobs[k] # NoJob
    PROVE  /\ jobs[k] \in [status : {"queued", "running", "completed", "failed"}, experiment : Experiments]
           /\ jobs[k].experiment \in DOMAIN experiments /\ jobs[k].experiment \in Experiments
           /\ jobs[k].experiment[1] \in Contents
  BY DEF TypeOK, Owned, Jobs, Experiments

\* Registering a manifest keeps the invariant: it takes a key and a holdout that
\* nobody had (registerResearchAttempt).
LEMMA CreateManifestInv ==
    ASSUME StudyAssumption, IInv, NEW e \in Experiments, NEW k \in ManifestKeys, CreateManifest(e, k)
    PROVE  IInv'
<1> USE DEF IInv
<1>0. UNCHANGED <<evidence, ml, jobs, pending, routine, crashes>> /\ e \notin DOMAIN experiments
  BY DEF CreateManifest
<1>1. DOMAIN experiments' = DOMAIN experiments \cup {e}
  BY DEF CreateManifest
<1>2. experiments'[e] = k /\ \A x \in DOMAIN experiments : experiments'[x] = experiments[x]
  BY <1>0 DEF CreateManifest
<1>3. DOMAIN families' = DOMAIN families \cup {Specs[e[1]].family}
  BY DEF CreateManifest
<1>4. /\ holdouts \subseteq holdouts'
      /\ \A h \in holdouts' \ holdouts : h[3] = e
      /\ Specs[e[1]].confirmatory => \E h \in holdouts' : h[1] = Specs[e[1]].family
  <2> DEFINE new == <<Specs[e[1]].family, Specs[e[1]].interval, e>>
  <2>1. new[1] = Specs[e[1]].family /\ new[3] = e
    OBVIOUS
  <2>2. holdouts' = holdouts \cup (IF Specs[e[1]].confirmatory THEN {new} ELSE {})
    BY DEF CreateManifest
  <2> HIDE DEF new
  <2> QED BY <2>1, <2>2
<1>5. Specs[e[1]].confirmatory => ~\E h \in holdouts : h[1] = Specs[e[1]].family
  BY DEF CreateManifest, registerResearchAttempt
<1>6. TypeOK'
  BY <1>0, <1>1, <1>2, <1>3, <1>4 DEF TypeOK
<1>7. Owned' /\ (\A j \in RequestKeys : Found(j)')
  BY <1>0, <1>1 DEF Owned, Found
<1>8. HoldoutTaken'
  BY <1>1, <1>4 DEF HoldoutTaken
<1>9. HoldoutUsedOnce'
  BY <1>1, <1>5 DEF HoldoutUsedOnce, HoldoutTaken
<1>10. CompletedIsRecorded' /\ PassedModelHasML'
  BY <1>0 DEF CompletedIsRecorded, PassedModelHasML
<1> QED BY <1>6, <1>7, <1>8, <1>9, <1>10

\* A request starts a job or repeats one that is queued.
LEMMA RunInv ==
    ASSUME StudyAssumption, IInv, NEW k \in RequestKeys, NEW e \in Experiments,
           RunValidationExperiment(k, e)
    PROVE  IInv'
<1> USE DEF IInv
<1> DEFINE q == [status |-> "queued", experiment |-> e]
<1>0. UNCHANGED <<experiments, families, holdouts, evidence, ml, routine, crashes>>
  BY DEF RunValidationExperiment
<1>1. q \in Jobs /\ q # NoJob /\ q.status = "queued" /\ q.experiment = e /\ e \in DOMAIN experiments
  <2>1. "experiment" \in DOMAIN q /\ "experiment" \notin DOMAIN NoJob
    BY DEF NoJob
  <2> QED BY <2>1 DEF RunValidationExperiment, Jobs
<1>2. /\ jobs' = [jobs EXCEPT ![k] = q]
      /\ pending' = [pending EXCEPT ![k] = @ + 1] /\ pending[k] < MaxPending
  BY DEF RunValidationExperiment
<1> HIDE DEF q
<1>3. /\ jobs' \in [RequestKeys -> Jobs] /\ jobs'[k] = q
      /\ \A j \in RequestKeys : j # k => jobs'[j] = jobs[j]
  BY <1>1, <1>2 DEF TypeOK
<1>4. /\ pending' \in [RequestKeys -> 0 .. MaxPending]
      /\ \A j \in RequestKeys : j # k => pending'[j] = pending[j]
  BY <1>2 DEF TypeOK, StudyAssumption
<1>5. routine[k].at = "idle"
  BY DEF RunValidationExperiment, Owned
<1>6. TypeOK'
  BY <1>0, <1>3, <1>4 DEF TypeOK
<1>7. Owned'
  BY <1>0, <1>1, <1>3, <1>4, <1>5 DEF Owned
<1>8. \A j \in RequestKeys : Found(j)'
  BY <1>0, <1>3, <1>5 DEF Found
<1>9. HoldoutTaken' /\ HoldoutUsedOnce' /\ PassedModelHasML'
  BY <1>0 DEF HoldoutTaken, HoldoutUsedOnce, PassedModelHasML
<1>10. CompletedIsRecorded'
  BY <1>0, <1>1, <1>3 DEF CompletedIsRecorded
<1> QED BY <1>6, <1>7, <1>8, <1>9, <1>10

\* What a goroutine that owns its job leaves alone, and what its move has to
\* establish.
LEMMA GoInv ==
    ASSUME StudyAssumption, IInv, NEW k \in RequestKeys,
           NEW to \in {"load", "ml", "record", "finish"}, NEW found \in Evidence \cup {"refused"},
           routine[k].at # "idle", Go(k, to, found),
           UNCHANGED <<experiments, families, holdouts, jobs, pending, crashes>>,
           evidence' \in [Experiments -> Evidence], ml \subseteq ml', ml' \subseteq DOMAIN experiments,
           \A e \in Experiments : evidence[e] # "none" => evidence'[e] = evidence[e],
           PassedModelHasML', Found(k)'
    PROVE  IInv'
<1> USE DEF IInv
<1>1. [at |-> to, found |-> found] \in [at : {"idle", "check", "load", "ml", "record", "finish"},
                                        found : Evidence \cup {"refused"}]
  OBVIOUS
<1>2. /\ routine' \in [RequestKeys -> [at : {"idle", "check", "load", "ml", "record", "finish"},
                                        found : Evidence \cup {"refused"}]]
      /\ \A j \in RequestKeys : j # k => routine'[j] = routine[j]
  BY <1>1 DEF Go, TypeOK
<1>3. TypeOK'
  BY <1>2 DEF TypeOK
<1>4. Owned'
  BY <1>2 DEF Owned
<1>5. ASSUME NEW j \in RequestKeys, j # k PROVE Found(j)'
  <2>1. CASE routine[j].at = "idle"
    BY <1>2, <1>5, <2>1 DEF Found
  <2>2. CASE routine[j].at # "idle"
    <3>1. jobs[j].experiment \in Experiments
      BY <2>2, JobRecord DEF Owned
    <3> QED BY <1>2, <1>5, <3>1 DEF Found
  <2> QED BY <2>1, <2>2
<1>6. HoldoutTaken' /\ HoldoutUsedOnce'
  BY DEF HoldoutTaken, HoldoutUsedOnce
<1>7. CompletedIsRecorded'
  <2> SUFFICES ASSUME NEW j \in RequestKeys, jobs[j].status = "completed"
               PROVE  evidence'[jobs[j].experiment] = "passed"
    BY DEF CompletedIsRecorded
  <2>1. jobs[j].experiment \in Experiments
    BY JobRecord DEF NoJob
  <2> QED BY <2>1 DEF CompletedIsRecorded
<1> QED BY <1>3, <1>4, <1>5, <1>6, <1>7

\* The job of a goroutine: a registered experiment with a declared outcome.
LEMMA OwnJob ==
    ASSUME StudyAssumption, IInv, NEW k \in RequestKeys, routine[k].at # "idle"
    PROVE  /\ jobs[k] # NoJob /\ jobs[k].status = "running"
           /\ jobs[k].experiment \in Experiments /\ jobs[k].experiment \in DOMAIN experiments
           /\ Specs[jobs[k].experiment[1]].replay \in {"passed", "replay", "prewrite"}
           /\ Specs[jobs[k].experiment[1]].ml \in {"absent", "passed", "rejected", "ml"}
<1>1. jobs[k] # NoJob /\ jobs[k].status = "running"
  BY DEF IInv, Owned
<1> QED BY <1>1, JobRecord DEF IInv, StudyAssumption

LEMMA CheckInv ==
    ASSUME StudyAssumption, IInv, NEW k \in RequestKeys, HasCompletedOutcome(k)
    PROVE  IInv'
<1>1. /\ routine[k].at # "idle"
      /\ UNCHANGED <<experiments, families, holdouts, evidence, ml, jobs, pending, crashes>>
  BY DEF HasCompletedOutcome
<1>2. PassedModelHasML' /\ evidence \in [Experiments -> Evidence] /\ ml \subseteq DOMAIN experiments
  BY <1>1 DEF IInv, PassedModelHasML, TypeOK
<1>3. CASE Go(k, "load", "none")
  <2>1. routine'[k] = [at |-> "load", found |-> "none"]
    BY <1>3 DEF Go, IInv, TypeOK
  <2>2. Found(k)'
    BY <2>1 DEF Found
  <2> QED BY <1>1, <1>2, <1>3, <2>2, GoInv DEF Evidence
<1>4. CASE Go(k, "finish", "refused")
  <2>1. routine'[k] = [at |-> "finish", found |-> "refused"]
    BY <1>4 DEF Go, IInv, TypeOK
  <2>2. Found(k)'
    BY <2>1 DEF Found
  <2> QED BY <1>1, <1>2, <1>4, <2>2, GoInv
<1> QED BY <1>3, <1>4 DEF HasCompletedOutcome

\* Loading may fail; a replay without a model goes straight to its record.
LEMMA LoadInv ==
    ASSUME StudyAssumption, IInv, NEW k \in RequestKeys, LoadAndReplay(k)
    PROVE  IInv'
<1> DEFINE s == Specs[jobs[k].experiment[1]]
<1>1. /\ routine[k].at # "idle"
      /\ UNCHANGED <<experiments, families, holdouts, evidence, ml, jobs, pending, crashes>>
  BY DEF LoadAndReplay
<1>2. PassedModelHasML' /\ evidence \in [Experiments -> Evidence] /\ ml \subseteq DOMAIN experiments
  BY <1>1 DEF IInv, PassedModelHasML, TypeOK
<1>3. ASSUME NEW to \in {"ml", "record"}, NEW f \in {"load", "passed", "replay", "prewrite"}, Go(k, to, f),
             to = "record" => f # "passed" \/ s.ml = "absent"
      PROVE  IInv'
  <2>1. routine'[k].at = to /\ routine'[k].found = f
    BY <1>3 DEF Go, IInv, TypeOK
  <2>2. f \in Evidence \ {"none"}
    BY DEF Evidence, Failures
  <2>3. Found(k)'
    BY <1>1, <1>3, <2>1, <2>2 DEF Found
  <2> QED BY <1>1, <1>2, <1>3, <2>2, <2>3, GoInv
<1>4. s.replay \in {"passed", "replay", "prewrite"}
  BY <1>1, OwnJob
<1>5. \/ Go(k, "record", "load")
      \/ (s.replay = "replay" \/ s.ml = "absent") /\ Go(k, "record", s.replay)
      \/ Go(k, "ml", s.replay)
  BY DEF LoadAndReplay
<1> HIDE DEF s
<1> QED BY <1>3, <1>4, <1>5

\* ML evidence is on record before the pass that needs it is.
LEMMA MLInv ==
    ASSUME StudyAssumption, IInv, NEW k \in RequestKeys, PersistMLEvidence(k)
    PROVE  IInv'
<1> DEFINE e == jobs[k].experiment
<1>1. /\ routine[k].at = "ml"
      /\ UNCHANGED <<experiments, families, holdouts, evidence, jobs, pending, crashes>>
  BY DEF PersistMLEvidence
<1>2. e \in DOMAIN experiments /\ routine[k].found \in Evidence \ {"none"}
  BY <1>1, OwnJob DEF IInv, Found
<1>3. /\ ml \subseteq ml' /\ ml' \subseteq DOMAIN experiments
      /\ evidence \in [Experiments -> Evidence]
  BY <1>1, <1>2 DEF PersistMLEvidence, IInv, TypeOK
<1>4. PassedModelHasML'
  BY <1>1, <1>3 DEF IInv, PassedModelHasML
<1>5. ASSUME NEW to \in {"record", "finish"}, NEW f \in Evidence \cup {"refused"}, Go(k, to, f),
             to = "record" => f \in Evidence \ {"none"} /\ (f = "passed" => e \in ml'),
             to = "finish" => f = "refused"
      PROVE  IInv'
  <2>1. routine'[k].at = to /\ routine'[k].found = f
    BY <1>5 DEF Go, IInv, TypeOK
  <2>2. Found(k)'
    BY <1>1, <1>5, <2>1 DEF Found
  <2> QED BY <1>1, <1>3, <1>4, <1>5, <2>2, GoInv
<1>6. CASE Specs[e[1]].ml = "passed"
  <2>1. e \in ml' /\ Go(k, "record", routine[k].found)
    BY <1>6 DEF PersistMLEvidence
  <2> QED BY <1>2, <1>5, <2>1
<1>7. CASE Specs[e[1]].ml = "rejected"
  <2>1. Go(k, "finish", "refused")
    BY <1>7 DEF PersistMLEvidence
  <2> QED BY <1>5, <2>1
<1>8. CASE Specs[e[1]].ml \notin {"passed", "rejected"}
  <2>1. Go(k, "record", "ml") /\ "ml" \in Evidence \ {"none"}
    BY <1>8 DEF PersistMLEvidence, Evidence, Failures
  <2> QED BY <1>5, <2>1
<1> QED BY <1>6, <1>7, <1>8

\* The first outcome of an experiment is its only one.
LEMMA PersistInv ==
    ASSUME StudyAssumption, IInv, NEW k \in RequestKeys, PersistEvidence(k)
    PROVE  IInv'
<1> DEFINE e == jobs[k].experiment
           found == routine[k].found
<1>1. /\ routine[k].at = "record"
      /\ UNCHANGED <<experiments, families, holdouts, ml, jobs, pending, crashes>>
  BY DEF PersistEvidence
<1>2. /\ e \in Experiments /\ found \in Evidence \ {"none"}
      /\ found = "passed" /\ Specs[e[1]].ml # "absent" => e \in ml
      /\ evidence \in [Experiments -> Evidence] /\ ml \subseteq DOMAIN experiments
  BY <1>1, OwnJob DEF IInv, Found, TypeOK
<1>3. CASE evidence[e] \in {"none", found}
  <2>1. Go(k, "finish", found) /\ evidence' = [evidence EXCEPT ![e] = found]
    BY <1>3 DEF PersistEvidence
  <2>2. routine'[k].at = "finish" /\ routine'[k].found = found
    BY <2>1 DEF Go, IInv, TypeOK
  <2> HIDE DEF found
  <2>3. /\ evidence' \in [Experiments -> Evidence] /\ evidence'[e] = found
        /\ \A x \in Experiments : evidence[x] # "none" => evidence'[x] = evidence[x]
        /\ \A x \in Experiments : x # e => evidence'[x] = evidence[x]
    BY <1>2, <1>3, <2>1
  <2>4. PassedModelHasML'
    BY <1>1, <1>2, <2>3 DEF IInv, PassedModelHasML
  <2>5. Found(k)'
    BY <1>1, <2>2, <2>3 DEF Found
  <2> QED BY <1>1, <1>2, <2>1, <2>3, <2>4, <2>5, GoInv
<1>4. CASE evidence[e] \notin {"none", found}
  <2>1. Go(k, "finish", "refused") /\ evidence' = evidence
    BY <1>4 DEF PersistEvidence
  <2>2. routine'[k].at = "finish" /\ routine'[k].found = "refused"
    BY <2>1 DEF Go, IInv, TypeOK
  <2>3. PassedModelHasML' /\ Found(k)'
    BY <1>1, <2>1, <2>2 DEF IInv, PassedModelHasML, Found
  <2> QED BY <1>1, <1>2, <2>1, <2>3, GoInv
<1> QED BY <1>3, <1>4

-----------------------------------------------------------------------------
\* A goroutine claims its job, or finds it claimed.
LEMMA ClaimInv ==
    ASSUME StudyAssumption, IInv, NEW k \in RequestKeys, Claim(k)
    PROVE  IInv'
<1> USE DEF IInv
<1>0. UNCHANGED <<experiments, families, holdouts, evidence, ml, crashes>> /\ jobs[k] # NoJob
  BY DEF Claim, Owned
<1>1. /\ pending' \in [RequestKeys -> 0 .. MaxPending]
      /\ \A j \in RequestKeys : pending'[j] > 0 => pending[j] > 0
  BY DEF Claim, TypeOK, StudyAssumption
<1>2. CASE UNCHANGED <<jobs, routine>>
  <2>1. TypeOK' /\ Owned'
    BY <1>0, <1>1, <1>2 DEF TypeOK, Owned
  <2>2. (\A j \in RequestKeys : Found(j)') /\ HoldoutTaken'
    BY <1>0, <1>2 DEF Found, HoldoutTaken
  <2>3. CompletedIsRecorded' /\ PassedModelHasML' /\ HoldoutUsedOnce'
    BY <1>0, <1>2 DEF CompletedIsRecorded, PassedModelHasML, HoldoutUsedOnce
  <2> QED BY <2>1, <2>2, <2>3
<1>3. CASE /\ jobs' = [jobs EXCEPT ![k].status = "running"]
           /\ routine' = [routine EXCEPT ![k] = [at |-> "check", found |-> "none"]]
  <2>1. /\ jobs' \in [RequestKeys -> Jobs] /\ jobs'[k].status = "running" /\ jobs'[k] # NoJob
        /\ jobs'[k].experiment = jobs[k].experiment
        /\ \A j \in RequestKeys : j # k => jobs'[j] = jobs[j]
    <3>1. [jobs[k] EXCEPT !.status = "running"] \in Jobs
      BY <1>0, JobRecord DEF Jobs
    <3> QED BY <1>0, <1>3, <3>1, JobRecord DEF TypeOK, NoJob
  <2>2. /\ routine' \in [RequestKeys -> [at : {"idle", "check", "load", "ml", "record", "finish"},
                                          found : Evidence \cup {"refused"}]]
        /\ routine'[k].at = "check"
        /\ \A j \in RequestKeys : j # k => routine'[j] = routine[j]
    BY <1>3 DEF TypeOK, Evidence
  <2>3. TypeOK'
    BY <1>0, <1>1, <2>1, <2>2 DEF TypeOK
  <2>4. Owned'
    BY <1>0, <1>1, <2>1, <2>2 DEF Owned
  <2>5. (\A j \in RequestKeys : Found(j)') /\ HoldoutTaken'
    BY <1>0, <2>1, <2>2 DEF Found, HoldoutTaken
  <2>6. CompletedIsRecorded' /\ PassedModelHasML' /\ HoldoutUsedOnce'
    BY <1>0, <2>1 DEF CompletedIsRecorded, PassedModelHasML, HoldoutUsedOnce
  <2> QED BY <2>3, <2>4, <2>5, <2>6
<1> QED BY <1>2, <1>3 DEF Claim

\* The job reports what its goroutine recorded.
LEMMA FinishInv ==
    ASSUME StudyAssumption, IInv, NEW k \in RequestKeys, Finish(k)
    PROVE  IInv'
<1> USE DEF IInv
<1> DEFINE st == IF routine[k].found = "passed" THEN "completed" ELSE "failed"
<1>0. /\ UNCHANGED <<experiments, families, holdouts, evidence, ml, pending, crashes>>
      /\ routine[k].at = "finish" /\ jobs[k] # NoJob
  BY DEF Finish, Owned
<1>1. jobs' = [jobs EXCEPT ![k].status = st] /\ routine' = [routine EXCEPT ![k] = Idle]
  BY DEF Finish
<1>2. st \in {"completed", "failed"} /\ (st = "completed" => evidence[jobs[k].experiment] = "passed")
  BY <1>0 DEF Found
<1> HIDE DEF st
<1>3. /\ jobs' \in [RequestKeys -> Jobs] /\ jobs'[k].status = st /\ jobs'[k] # NoJob
      /\ jobs'[k].experiment = jobs[k].experiment
      /\ \A j \in RequestKeys : j # k => jobs'[j] = jobs[j]
  <2>1. [jobs[k] EXCEPT !.status = st] \in Jobs
    BY <1>0, <1>2, JobRecord DEF Jobs
  <2> QED BY <1>0, <1>1, <1>2, <2>1, JobRecord DEF TypeOK, NoJob
<1>4. /\ routine' \in [RequestKeys -> [at : {"idle", "check", "load", "ml", "record", "finish"},
                                        found : Evidence \cup {"refused"}]]
      /\ routine'[k].at = "idle"
      /\ \A j \in RequestKeys : j # k => routine'[j] = routine[j]
  BY <1>1 DEF TypeOK, Evidence, Idle
<1>5. TypeOK'
  BY <1>0, <1>3, <1>4 DEF TypeOK
<1>6. Owned'
  BY <1>0, <1>3, <1>4 DEF Owned
<1>7. (\A j \in RequestKeys : Found(j)') /\ HoldoutTaken'
  BY <1>0, <1>3, <1>4 DEF Found, HoldoutTaken
<1>8. CompletedIsRecorded' /\ PassedModelHasML' /\ HoldoutUsedOnce'
  BY <1>0, <1>2, <1>3 DEF CompletedIsRecorded, PassedModelHasML, HoldoutUsedOnce
<1> QED BY <1>5, <1>6, <1>7, <1>8

\* A crash takes the goroutines and leaves the tables.
LEMMA CrashInv == ASSUME StudyAssumption, IInv, Crash PROVE IInv'
<1> USE DEF IInv
<1>1. /\ UNCHANGED <<experiments, families, holdouts, evidence, ml, jobs>>
      /\ pending' = [k \in RequestKeys |-> 0] /\ routine' = [k \in RequestKeys |-> Idle]
      /\ crashes' \in 0 .. MaxCrashes
  BY DEF Crash, TypeOK, StudyAssumption
<1>2. /\ pending' \in [RequestKeys -> 0 .. MaxPending]
      /\ routine' \in [RequestKeys -> [at : {"idle", "check", "load", "ml", "record", "finish"},
                                        found : Evidence \cup {"refused"}]]
      /\ \A k \in RequestKeys : pending'[k] = 0 /\ routine'[k].at = "idle"
  BY <1>1 DEF Idle, Evidence, StudyAssumption
<1>3. TypeOK' /\ Owned'
  BY <1>1, <1>2 DEF TypeOK, Owned
<1>4. (\A k \in RequestKeys : Found(k)') /\ HoldoutTaken'
  BY <1>1, <1>2 DEF Found, HoldoutTaken
<1>5. CompletedIsRecorded' /\ PassedModelHasML' /\ HoldoutUsedOnce'
  BY <1>1 DEF CompletedIsRecorded, PassedModelHasML, HoldoutUsedOnce
<1> QED BY <1>3, <1>4, <1>5

LEMMA StutterInv == ASSUME IInv, UNCHANGED vars PROVE IInv'
  BY DEF IInv, vars, TypeOK, Owned, Found, HoldoutTaken, CompletedIsRecorded, PassedModelHasML,
         HoldoutUsedOnce

LEMMA InvStep == ASSUME StudyAssumption PROVE IInv /\ [Next]_vars => IInv'
<1> SUFFICES ASSUME IInv, [Next]_vars PROVE IInv'
  OBVIOUS
<1>1. ASSUME NEW k \in RequestKeys, Routine(k) PROVE IInv'
  BY <1>1, ClaimInv, CheckInv, LoadInv, MLInv, PersistInv, FinishInv DEF Routine
<1> QED BY <1>1, CreateManifestInv, RunInv, CrashInv, StutterInv DEF Next

LEMMA Invariance == ASSUME StudyAssumption PROVE Spec => []IInv
<1>1. Init => IInv
  BY InitInv
<1>2. IInv /\ [Next]_vars => IInv'
  BY InvStep
<1> QED BY <1>1, <1>2, PTL DEF Spec

-----------------------------------------------------------------------------
\* Whatever crashes and repeated requests there are, a run that reports success
\* reports the recorded outcome, a model passes only with its ML evidence, and
\* one confirmation uses the holdout of a family (CreateManifestAuthenticated,
\* executeValidationJob, PersistMLEvidence, PersistEvidence).
THEOREM StudiesEvidenced == ASSUME StudyAssumption PROVE Spec => []StudyIsEvidenced
<1>1. IInv => StudyIsEvidenced
  BY DEF IInv, StudyIsEvidenced
<1> QED BY <1>1, Invariance, PTL

\* An attempt has one immutable outcome (PersistEvidence).
THEOREM OutcomesFinal == ASSUME StudyAssumption PROVE Spec => [][OutcomeIsFinal]_vars
<1>1. ASSUME IInv, [Next]_vars PROVE OutcomeIsFinal
  <2>1. CASE UNCHANGED evidence
    BY <2>1 DEF OutcomeIsFinal
  <2>2. ASSUME NEW k \in RequestKeys, PersistEvidence(k) PROVE OutcomeIsFinal
    <3>1. jobs[k].experiment \in Experiments /\ evidence \in [Experiments -> Evidence]
      BY <1>1, <2>2, OwnJob DEF PersistEvidence, IInv, TypeOK
    <3> QED BY <2>2, <3>1 DEF PersistEvidence, OutcomeIsFinal
  <2>3. ASSUME NEW k \in RequestKeys, Routine(k), ~PersistEvidence(k) PROVE UNCHANGED evidence
    BY <2>3 DEF Routine, Claim, HasCompletedOutcome, LoadAndReplay, PersistMLEvidence, Finish
  <2>4. ASSUME NEW e \in Experiments, NEW k, CreateManifest(e, k) \/ RunValidationExperiment(k, e)
        PROVE UNCHANGED evidence
    BY <2>4 DEF CreateManifest, RunValidationExperiment
  <2>5. Crash \/ UNCHANGED vars => UNCHANGED evidence
    BY DEF Crash, vars
  <2> QED BY <1>1, <2>1, <2>2, <2>3, <2>4, <2>5 DEF Next
<1>2. IInv /\ [Next]_vars => OutcomeIsFinal
  BY <1>1
<1> QED BY <1>2, Invariance, PTL DEF Spec

-----------------------------------------------------------------------------
\* Every load in flight is that of the reader which started it.
FlightsOwned ==
    \A c \in Readers : Loading(c) => inflight[reader[c].key] = reader[c].flight

CacheInv == CacheTypeOK /\ BytesExact /\ OneLoadPerKey /\ FlightsOwned

\* A set of numbers up to m has a greatest element.
LEMMA GreatestExists ==
    ASSUME NEW m \in Nat, NEW T \in SUBSET (0 .. m), T # {}
    PROVE  Max(T) \in T /\ \A y \in T : y <= Max(T)
<1>1. IsFiniteSet(0 .. m)
  BY FS_Interval
<1>2. IsFiniteSet(T) /\ T \subseteq Int
  <2> DEFINE I == 0 .. m
  <2>1. IsFiniteSet(I) /\ T \in SUBSET I
    BY <1>1
  <2>2. T \subseteq Int
    OBVIOUS
  <2> HIDE DEF I
  <2> QED BY <2>1, <2>2, FS_Subset
<1>3. \E x \in T : \A y \in T : x >= y
  BY <1>2, LargestExists
<1>4. Max(T) \in T /\ \A y \in T : Max(T) >= y
  BY <1>3 DEF Max
<1> QED BY <1>4

\* The bytes of a list are those of its two parts, whatever place it is cut at.
LEMMA BytesOfParts ==
    ASSUME CacheAssumption, NEW keys \in Seq(Series), IsInjective(keys), NEW n \in 0 .. Len(keys)
    PROVE  LET front == SubSeq(keys, 1, n)
               back == SubSeq(keys, n + 1, Len(keys))
           IN  /\ front \in Seq(Series) /\ IsInjective(front) /\ Range(front) \subseteq Range(keys)
               /\ Bytes(front) \in Nat /\ Bytes(back) \in Nat
               /\ Bytes(keys) = Bytes(front) + Bytes(back)
<1> DEFINE front == SubSeq(keys, 1, n)
           back == SubSeq(keys, n + 1, Len(keys))
<1>1. Len(keys) \in Nat /\ DOMAIN keys = 1 .. Len(keys) /\ \A i \in 1 .. Len(keys) : keys[i] \in Series
  BY ElementOfSeq, LenProperties
<1>2. /\ front \in Seq(Series) /\ DOMAIN front = 1 .. n /\ \A i \in 1 .. n : front[i] = keys[i]
      /\ DOMAIN back = 1 .. Len(keys) - n /\ \A i \in 1 .. Len(keys) - n : back[i] = keys[n + i]
  <2>1. n \in Int /\ n + 1 \in Int /\ \A i \in 1 .. n : keys[i] \in Series
    BY <1>1
  <2>2. /\ front \in Seq(Series) /\ Len(front) = IF 1 <= n THEN n - 1 + 1 ELSE 0
        /\ \A i \in 1 .. n - 1 + 1 : front[i] = keys[1 + i - 1]
    BY <2>1, SubSeqProperties
  <2>3. \A i \in n + 1 .. Len(keys) : keys[i] \in Series
    BY <1>1
  <2>4. /\ back \in Seq(Series) /\ Len(back) = IF n + 1 <= Len(keys) THEN Len(keys) - (n + 1) + 1 ELSE 0
        /\ \A i \in 1 .. Len(keys) - (n + 1) + 1 : back[i] = keys[(n + 1) + i - 1]
    BY <1>1, <2>1, <2>3, SubSeqProperties
  <2> HIDE DEF front, back
  <2>5. Len(front) = n /\ Len(back) = Len(keys) - n
    <3>1. Len(front) = IF 1 <= n THEN n - 1 + 1 ELSE 0
      BY <2>2
    <3>2. Len(back) = IF n + 1 <= Len(keys) THEN Len(keys) - (n + 1) + 1 ELSE 0
      BY <2>4
    <3>3. n \in Int /\ 0 <= n /\ n <= Len(keys) /\ Len(keys) \in Nat
      BY <1>1
    <3> QED BY <3>1, <3>2, <3>3
  <2>6. DOMAIN front = 1 .. n /\ DOMAIN back = 1 .. Len(keys) - n
    BY <2>2, <2>4, <2>5, LenProperties
  <2>7. \A i \in 1 .. n : front[i] = keys[i]
    BY <1>1, <2>2
  <2>8. ASSUME NEW i \in 1 .. Len(keys) - n PROVE back[i] = keys[n + i]
    <3>1. i \in 1 .. Len(keys) - (n + 1) + 1 /\ (n + 1) + i - 1 = n + i
      BY <1>1
    <3> QED BY <2>4, <3>1
  <2> QED BY <2>2, <2>6, <2>7, <2>8
<1> HIDE DEF front, back
<1>3. front \in Seq(Series) /\ IsInjective(front)
  <2>1. IsInjective(front)
    BY <1>1, <1>2 DEF IsInjective
  <2> QED BY <1>2, <2>1
<1>4. Range(front) = {keys[i] : i \in 1 .. n} /\ Range(back) = {keys[i] : i \in n + 1 .. Len(keys)}
  <2>1. Range(front) = {keys[i] : i \in 1 .. n}
    BY <1>2 DEF Range
  <2>2. Range(back) = {keys[n + i] : i \in 1 .. Len(keys) - n}
    BY <1>2 DEF Range
  <2>3. ASSUME NEW j \in n + 1 .. Len(keys) PROVE keys[j] \in Range(back)
    <3>1. j - n \in 1 .. Len(keys) - n /\ n + (j - n) = j
      BY <1>1
    <3> QED BY <2>2, <3>1
  <2>4. ASSUME NEW i \in 1 .. Len(keys) - n PROVE n + i \in n + 1 .. Len(keys)
    BY <1>1
  <2> QED BY <2>1, <2>2, <2>3, <2>4
<1>5. Range(keys) = {keys[i] : i \in 1 .. Len(keys)}
  BY <1>1 DEF Range
<1>6. Range(keys) = Range(front) \cup Range(back)
  <2>1. 1 .. Len(keys) = (1 .. n) \cup (n + 1 .. Len(keys))
    BY <1>1
  <2> QED BY <1>4, <1>5, <2>1
<1>7. Range(front) \cap Range(back) = {}
  <2> SUFFICES ASSUME NEW i \in 1 .. n, NEW j \in n + 1 .. Len(keys), keys[i] = keys[j] PROVE FALSE
    BY <1>4
  <2>1. i \in DOMAIN keys /\ j \in DOMAIN keys /\ i # j
    BY <1>1
  <2> QED BY <2>1 DEF IsInjective
<1>8. Range(keys) \subseteq Series
  BY <1>1, <1>5
<1>9. IsFiniteSet(Range(front)) /\ IsFiniteSet(Range(back))
  BY <1>6, <1>8, FS_Subset DEF CacheAssumption
<1>10. \A x \in Range(front) \cup Range(back) : Size[x] \in Nat
  BY <1>6, <1>8 DEF CacheAssumption
<1>11. Bytes(keys) = Bytes(front) + Bytes(back)
  <2>1. \A x \in Range(front) \cup Range(back) : Size[x] \in Int
    BY <1>10
  <2> QED BY <1>6, <1>7, <1>9, <2>1, SumUnion DEF Bytes
<1>12. Bytes(front) \in Nat /\ Bytes(back) \in Nat
  BY <1>9, <1>10, SumNatural DEF Bytes
<1> QED BY <1>3, <1>6, <1>11, <1>12 DEF front, back

\* A list with a new entry at its front.
LEMMA BytesOfNew ==
    ASSUME CacheAssumption, lru \in Seq(Series), IsInjective(lru), NEW k \in Series, ~Cached(k)
    PROVE  LET keys == <<k>> \o lru IN
           /\ keys \in Seq(Series) /\ IsInjective(keys) /\ Len(keys) = Len(lru) + 1
           /\ Range(keys) = Range(lru) \cup {k}
           /\ Bytes(keys) = Bytes(lru) + Size[k]
<1> DEFINE keys == <<k>> \o lru
<1>1. Len(lru) \in Nat /\ DOMAIN lru = 1 .. Len(lru) /\ \A i \in 1 .. Len(lru) : lru[i] \in Series
  BY ElementOfSeq, LenProperties
<1>2. /\ keys \in Seq(Series) /\ Len(keys) = Len(lru) + 1
      /\ keys[1] = k /\ \A i \in 2 .. Len(lru) + 1 : keys[i] = lru[i - 1]
  BY <1>1, ConcatProperties
<1>3. DOMAIN keys = 1 .. Len(lru) + 1
  BY <1>2, LenProperties
<1> HIDE DEF keys
<1>4. Range(lru) = {lru[i] : i \in 1 .. Len(lru)}
  BY <1>1 DEF Range
<1>5. Range(keys) = Range(lru) \cup {k}
  <2>1. Range(keys) = {keys[i] : i \in 1 .. Len(lru) + 1}
    BY <1>3 DEF Range
  <2>2. ASSUME NEW i \in 1 .. Len(lru) + 1 PROVE keys[i] \in Range(lru) \cup {k}
    <3>1. CASE i = 1 BY <1>2, <3>1
    <3>2. CASE i # 1
      <4>1. i \in 2 .. Len(lru) + 1 /\ i - 1 \in 1 .. Len(lru)
        BY <1>1, <3>2
      <4> QED BY <1>2, <1>4, <4>1
    <3> QED BY <3>1, <3>2
  <2>3. ASSUME NEW i \in 1 .. Len(lru) PROVE lru[i] \in Range(keys)
    <3>1. i + 1 \in 2 .. Len(lru) + 1 /\ i + 1 \in 1 .. Len(lru) + 1 /\ (i + 1) - 1 = i
      BY <1>1
    <3> QED BY <1>2, <2>1, <3>1
  <2>4. k \in Range(keys)
    BY <1>1, <1>2, <2>1
  <2> QED BY <1>4, <2>1, <2>2, <2>3, <2>4
<1>6. IsInjective(keys)
  <2> SUFFICES ASSUME NEW i \in 1 .. Len(lru) + 1, NEW j \in 1 .. Len(lru) + 1, keys[i] = keys[j]
               PROVE  i = j
    BY <1>3 DEF IsInjective
  <2>1. ASSUME NEW x \in 2 .. Len(lru) + 1
        PROVE  keys[x] = lru[x - 1] /\ x - 1 \in 1 .. Len(lru) /\ keys[x] # k
    <3>1. keys[x] = lru[x - 1] /\ x - 1 \in 1 .. Len(lru)
      BY <1>1, <1>2
    <3>2. lru[x - 1] \in Range(lru) /\ k \notin Range(lru)
      BY <1>4, <3>1 DEF Cached
    <3> QED BY <3>1, <3>2
  <2>2. CASE i = 1 \/ j = 1
    BY <1>1, <1>2, <2>1, <2>2
  <2>3. CASE i # 1 /\ j # 1
    <3>1. i \in 2 .. Len(lru) + 1 /\ j \in 2 .. Len(lru) + 1
      BY <1>1, <2>3
    <3>2. i - 1 = j - 1
      BY <1>1, <2>1, <3>1 DEF IsInjective
    <3> QED BY <3>1, <3>2
  <2> QED BY <2>2, <2>3
<1>7. Bytes(keys) = Bytes(lru) + Size[k]
  <2>1. Range(lru) \subseteq Series
    BY <1>1, <1>4
  <2>2. IsFiniteSet(Range(lru))
    BY <2>1, FS_Subset DEF CacheAssumption
  <2>3. \A x \in Range(lru) \cup {k} : Size[x] \in Int
    BY <2>1 DEF CacheAssumption
  <2> QED BY <1>5, <2>2, <2>3, SumAdd DEF Bytes, Cached
<1> QED BY <1>2, <1>5, <1>6, <1>7 DEF keys

\* What the loop that evicts leaves is exact and within the maximum.
LEMMA Evicted ==
    ASSUME CacheAssumption, lru \in Seq(Series), bytes \in Nat, BytesExact, NEW k \in Series, ~Cached(k)
    PROVE  LET left == insertLocked(k) IN
           /\ left.lru \in Seq(Series) /\ IsInjective(left.lru)
           /\ Range(left.lru) \subseteq Range(lru) \cup {k}
           /\ left.bytes = Bytes(left.lru) /\ left.bytes \in Nat /\ left.bytes <= Maximum
<1> DEFINE keys == <<k>> \o lru
           counted(m) == bytes + Size[k] - Bytes(SubSeq(keys, m + 1, Len(keys)))
           fitting == {0} \cup {m \in 1 .. Len(keys) : counted(m) <= Maximum}
           n == Max(fitting)
<1>1. bytes = Bytes(lru) /\ bytes <= Maximum /\ IsInjective(lru)
  BY DEF BytesExact
<1>2. CASE Maximum <= 0 \/ Size[k] > Maximum
  <2>1. insertLocked(k) = [lru |-> lru, bytes |-> bytes]
    BY <1>2 DEF insertLocked
  <2> QED BY <1>1, <2>1
<1>3. CASE ~(Maximum <= 0 \/ Size[k] > Maximum)
  <2>1. insertLocked(k) = [lru |-> SubSeq(keys, 1, n), bytes |-> counted(n)]
    BY <1>3 DEF insertLocked
  <2>2. /\ keys \in Seq(Series) /\ IsInjective(keys) /\ Len(keys) = Len(lru) + 1
        /\ Range(keys) = Range(lru) \cup {k} /\ Bytes(keys) = bytes + Size[k]
    BY <1>1, BytesOfNew
  <2>3. Len(lru) \in Nat /\ Size[k] \in Nat /\ Maximum \in Nat
    BY LenProperties DEF CacheAssumption
  <2> HIDE DEF keys
  <2>4. ASSUME NEW m \in 0 .. Len(keys)
        PROVE  /\ SubSeq(keys, 1, m) \in Seq(Series) /\ IsInjective(SubSeq(keys, 1, m))
               /\ Range(SubSeq(keys, 1, m)) \subseteq Range(lru) \cup {k}
               /\ counted(m) = Bytes(SubSeq(keys, 1, m)) /\ counted(m) \in Nat
    <3>1. /\ SubSeq(keys, 1, m) \in Seq(Series) /\ IsInjective(SubSeq(keys, 1, m))
          /\ Range(SubSeq(keys, 1, m)) \subseteq Range(keys)
          /\ Bytes(SubSeq(keys, 1, m)) \in Nat /\ Bytes(SubSeq(keys, m + 1, Len(keys))) \in Nat
          /\ Bytes(keys) = Bytes(SubSeq(keys, 1, m)) + Bytes(SubSeq(keys, m + 1, Len(keys)))
      BY <2>2, BytesOfParts
    <3>2. counted(m) = Bytes(SubSeq(keys, 1, m))
      <4> DEFINE rear == Bytes(SubSeq(keys, m + 1, Len(keys)))
                 fore == Bytes(SubSeq(keys, 1, m))
      <4>1. rear \in Nat /\ fore \in Nat /\ bytes + Size[k] = fore + rear
        BY <2>2, <3>1
      <4>2. counted(m) = (bytes + Size[k]) - rear
        BY <2>3, <4>1
      <4> HIDE DEF rear, fore, counted
      <4>3. counted(m) = fore
        BY <4>1, <4>2
      <4> QED BY <4>3 DEF fore
    <3> HIDE DEF counted
    <3> QED BY <2>2, <3>1, <3>2
  <2>5. n \in fitting
    <3>1. fitting \in SUBSET (0 .. Len(keys)) /\ fitting # {} /\ Len(keys) \in Nat
      BY <2>2, <2>3
    <3> HIDE DEF fitting
    <3> QED BY <3>1, GreatestExists
  <2>6. n \in 0 .. Len(keys) /\ counted(n) <= Maximum
    <3>1. Bytes(SubSeq(keys, 1, 0)) = 0
      <4>1. SubSeq(keys, 1, 0) = <<>> /\ Range(<<>>) = {}
        BY SubSeqEmpty DEF Range
      <4> QED BY <4>1, SumEmpty DEF Bytes
    <3>2. 0 \in 0 .. Len(keys)
      BY <2>2, <2>3
    <3>3. counted(0) = 0
      BY <2>4, <3>1, <3>2
    <3> HIDE DEF n, counted
    <3> QED BY <2>3, <2>5, <3>2, <3>3
  <2> HIDE DEF n, counted
  <2> QED BY <2>1, <2>4, <2>6
<1> QED BY <1>2, <1>3


\* An entry that is hit moves, and no entry is lost or doubled.
LEMMA Moved ==
    ASSUME lru \in Seq(Series), IsInjective(lru), NEW k, Cached(k)
    PROVE  /\ MoveToFront(k) \in Seq(Series) /\ IsInjective(MoveToFront(k))
           /\ Range(MoveToFront(k)) = Range(lru)
<1> DEFINE p == CHOOSE i \in DOMAIN lru : lru[i] = k
           new == [i \in DOMAIN lru |-> IF i = 1 THEN k ELSE IF i <= p THEN lru[i - 1] ELSE lru[i]]
           from(i) == IF i = 1 THEN p ELSE IF i <= p THEN i - 1 ELSE i
           L == Len(lru)
<1>1. L \in Nat /\ DOMAIN lru = 1 .. L /\ \A i \in 1 .. L : lru[i] \in Series
  BY ElementOfSeq, LenProperties
<1>2. Range(lru) = {lru[i] : i \in 1 .. L}
  BY <1>1 DEF Range
<1>3. p \in 1 .. L /\ lru[p] = k
  <2>1. \E i \in DOMAIN lru : lru[i] = k
    BY <1>1, <1>2 DEF Cached
  <2> QED BY <1>1, <2>1
<1>4. MoveToFront(k) = new
  BY DEF MoveToFront
<1> HIDE DEF p, L
<1>5. \A i \in 1 .. L : from(i) \in 1 .. L /\ new[i] = lru[from(i)]
  BY <1>1, <1>3
<1>6. \A i, j \in 1 .. L : from(i) = from(j) => i = j
  BY <1>1, <1>3
<1>7. DOMAIN new = 1 .. L
  BY <1>1
<1>8. ASSUME NEW j \in 1 .. L PROVE \E i \in 1 .. L : from(i) = j
  <2>1. CASE j = p
    BY <1>1, <1>3, <2>1
  <2>2. CASE j < p
    <3>1. j + 1 \in 1 .. L /\ j + 1 # 1 /\ j + 1 <= p /\ (j + 1) - 1 = j
      BY <1>1, <1>3, <2>2
    <3> QED BY <3>1
  <2>3. CASE j > p
    <3>1. j # 1 /\ ~(j <= p)
      BY <1>1, <1>3, <2>3
    <3> QED BY <3>1
  <2> QED BY <1>1, <1>3, <2>1, <2>2, <2>3
<1>9. new \in Seq(Series)
  <2>1. \A i \in 1 .. L : new[i] \in Series
    BY <1>1, <1>5
  <2>2. new = [i \in 1 .. L |-> new[i]]
    BY <1>1
  <2> HIDE DEF new
  <2>3. new \in [1 .. L -> Series]
    BY <2>1, <2>2
  <2> QED BY <1>1, <2>3, SeqDef
<1> HIDE DEF new, from
<1>10. IsInjective(new)
  <2> SUFFICES ASSUME NEW i \in 1 .. L, NEW j \in 1 .. L, new[i] = new[j] PROVE i = j
    BY <1>7 DEF IsInjective
  <2>1. from(i) = from(j)
    BY <1>1, <1>5 DEF IsInjective
  <2> QED BY <1>6, <2>1
<1>11. Range(new) = Range(lru)
  <2>1. Range(new) = {new[i] : i \in 1 .. L}
    BY <1>7 DEF Range
  <2>2. Range(new) \subseteq Range(lru)
    BY <1>2, <1>5, <2>1
  <2>3. ASSUME NEW j \in 1 .. L PROVE lru[j] \in Range(new)
    <3>1. PICK i \in 1 .. L : from(i) = j
      BY <1>8
    <3> QED BY <1>5, <2>1, <3>1
  <2> QED BY <1>2, <2>2, <2>3
<1> QED BY <1>4, <1>9, <1>10, <1>11

-----------------------------------------------------------------------------
LEMMA CacheStarts == ASSUME CacheAssumption PROVE CacheInit => CacheInv
<1> SUFFICES ASSUME CacheInit PROVE CacheInv
  OBVIOUS
<1>1. CacheTypeOK
  BY DEF CacheInit, CacheTypeOK, CacheAssumption, NotReading
<1>2. BytesExact
  <2>1. Range(<<>>) = {}
    BY DEF Range
  <2>2. Bytes(<<>>) = 0
    BY <2>1, SumEmpty DEF Bytes
  <2> QED BY <2>2 DEF CacheInit, BytesExact, IsInjective, CacheAssumption
<1>3. \A c \in Readers : ~Loading(c)
  BY DEF CacheInit, Loading, NotReading
<1> QED BY <1>1, <1>2, <1>3 DEF CacheInv, OneLoadPerKey, FlightsOwned

\* What a reader's record holds while it loads.
LEMMA LoadingIs ==
    ASSUME CacheTypeOK, NEW c \in Readers, Loading(c)
    PROVE  reader[c] \in Reading /\ reader[c].key \in Series /\ reader[c].flight \in 1 .. MaxFlights
BY DEF CacheTypeOK, Loading, NotReading, Reading

\* A flight that ends stays the flight it was.
LEMMA FlightsKept ==
    ASSUME CacheTypeOK, NEW b \in BOOLEAN, NEW i
    PROVE  LET Flight == [key : Series, done : BOOLEAN, failed : BOOLEAN] IN
           /\ [flights EXCEPT ![i].failed = b] \in Seq(Flight)
           /\ Len([flights EXCEPT ![i].failed = b]) = Len(flights)
           /\ [flights EXCEPT ![i].done = b] \in Seq(Flight)
           /\ Len([flights EXCEPT ![i].done = b]) = Len(flights)
<1> DEFINE Flight == [key : Series, done : BOOLEAN, failed : BOOLEAN]
<1>1. flights \in Seq(Flight) /\ Len(flights) \in Nat /\ DOMAIN flights = 1 .. Len(flights)
  BY LenProperties DEF CacheTypeOK
<1>2. flights \in [1 .. Len(flights) -> Flight]
  <2> HIDE DEF Flight
  <2> QED BY <1>1, LenProperties
<1>3. /\ [flights EXCEPT ![i].failed = b] \in [1 .. Len(flights) -> Flight]
      /\ [flights EXCEPT ![i].done = b] \in [1 .. Len(flights) -> Flight]
  BY <1>2
<1> HIDE DEF Flight
<1>4. \A g \in [1 .. Len(flights) -> Flight] : g \in Seq(Flight) /\ Len(g) = Len(flights)
  BY <1>1, LenProperties, SeqDef
<1> QED BY <1>3, <1>4 DEF Flight

\* A reader that moves without loading takes nothing from the others.
LEMMA CacheStep == ASSUME CacheAssumption, CacheInv, [CacheNext]_cacheVars PROVE CacheInv'
<1> USE DEF CacheInv
<1>1. ASSUME NEW c \in Readers, NEW k \in Series, Get(c, k) PROVE CacheInv'
  <2>0. reader[c].at = "idle" /\ ~Loading(c)
    BY <1>1 DEF Get, Loading
  <2>1. CASE Cached(k) /\ lru' = MoveToFront(k) /\ UNCHANGED <<bytes, flights, inflight, reader>>
    <3>1. lru' \in Seq(Series) /\ IsInjective(lru') /\ Range(lru') = Range(lru)
      BY <2>1, Moved DEF CacheTypeOK, BytesExact
    <3>2. CacheTypeOK'
      BY <2>1, <3>1 DEF CacheTypeOK
    <3>3. BytesExact'
      BY <2>1, <3>1 DEF BytesExact, Bytes
    <3>4. OneLoadPerKey' /\ FlightsOwned'
      BY <2>1, <3>1 DEF OneLoadPerKey, FlightsOwned, Loading, Cached
    <3> QED BY <3>2, <3>3, <3>4
  <2>2. CASE /\ ~Cached(k) /\ inflight[k] # 0
             /\ reader' = [reader EXCEPT ![c] = [at |-> "wait", key |-> k, flight |-> inflight[k]]]
             /\ UNCHANGED <<lru, bytes, flights, inflight>>
    <3>1. inflight[k] \in 1 .. MaxFlights
      <4>1. inflight[k] \in 0 .. Len(flights) /\ Len(flights) \in Nat /\ Len(flights) <= MaxFlights
        BY LenProperties DEF CacheTypeOK
      <4> QED BY <2>2, <4>1 DEF CacheAssumption
    <3>2. [at |-> "wait", key |-> k, flight |-> inflight[k]] \in Reading
      BY <3>1 DEF Reading
    <3>3. CacheTypeOK'
      BY <2>2, <3>2 DEF CacheTypeOK
    <3>4. \A d \in Readers : Loading(d)' => d # c /\ reader'[d] = reader[d] /\ Loading(d)
      BY <2>2 DEF CacheTypeOK, Loading
    <3>5. OneLoadPerKey' /\ FlightsOwned'
      BY <2>2, <3>4 DEF OneLoadPerKey, FlightsOwned, Cached
    <3> QED BY <2>2, <3>3, <3>5 DEF BytesExact, Bytes
  <2>3. CASE ~Cached(k) /\ inflight[k] = 0 /\ StartLoad(c, k)
    <3>1. Len(flights) \in Nat /\ Len(flights) + 1 \in 1 .. MaxFlights
      BY <2>3, LenProperties DEF CacheTypeOK, StartLoad, CacheAssumption
    <3>2. /\ flights' \in Seq([key : Series, done : BOOLEAN, failed : BOOLEAN])
          /\ Len(flights') = Len(flights) + 1
      BY <2>3, AppendProperties DEF CacheTypeOK, StartLoad
    <3>3. [at |-> "load", key |-> k, flight |-> Len(flights) + 1] \in Reading
      BY <3>1 DEF Reading
    <3>4. CacheTypeOK'
      <4>1. inflight' \in [Series -> 0 .. Len(flights')]
        BY <2>3, <3>1, <3>2 DEF CacheTypeOK, StartLoad
      <4> QED BY <2>3, <3>1, <3>2, <3>3, <4>1 DEF CacheTypeOK, StartLoad
    <3>5. /\ reader'[c] = [at |-> "load", key |-> k, flight |-> Len(flights) + 1]
          /\ \A d \in Readers \ {c} : reader'[d] = reader[d]
          /\ inflight'[k] = Len(flights) + 1 /\ \A s \in Series \ {k} : inflight'[s] = inflight[s]
          /\ lru' = lru /\ bytes' = bytes
      BY <2>3 DEF StartLoad, CacheTypeOK
    <3>6. ASSUME NEW d \in Readers \ {c}, Loading(d)'
          PROVE  Loading(d) /\ reader[d].key \in Series /\ reader[d].key # k
      <4>1. Loading(d)
        BY <3>5, <3>6 DEF Loading
      <4>2. inflight[reader[d].key] = reader[d].flight /\ reader[d].flight # 0
        BY <4>1, LoadingIs DEF FlightsOwned
      <4> QED BY <2>3, <4>1, <4>2, LoadingIs
    <3>7. OneLoadPerKey'
      BY <2>3, <3>5, <3>6 DEF OneLoadPerKey, Cached
    <3>8. FlightsOwned'
      BY <3>5, <3>6 DEF FlightsOwned
    <3> QED BY <3>4, <3>5, <3>7, <3>8 DEF BytesExact, Bytes
  <2> QED BY <1>1, <2>1, <2>2, <2>3 DEF Get
<1>2. ASSUME NEW c \in Readers, Load(c) PROVE CacheInv'
  <2>1. Loading(c)
    BY <1>2 DEF Load, Loading
  <2>2. PICK failed \in BOOLEAN : flights' = [flights EXCEPT ![reader[c].flight].failed = failed]
    BY <1>2 DEF Load
  <2>3. flights' \in Seq([key : Series, done : BOOLEAN, failed : BOOLEAN]) /\ Len(flights') = Len(flights)
    BY <2>2, FlightsKept
  <2>4. /\ reader'[c].key = reader[c].key /\ reader'[c].flight = reader[c].flight
        /\ reader' \in [Readers -> {NotReading} \cup Reading]
        /\ \A d \in Readers \ {c} : reader'[d] = reader[d]
    BY <1>2, <2>1, LoadingIs DEF Load, CacheTypeOK, Reading
  <2>5. lru' = lru /\ bytes' = bytes /\ inflight' = inflight
    BY <1>2 DEF Load
  <2>6. CacheTypeOK'
    BY <2>3, <2>4, <2>5 DEF CacheTypeOK
  <2>7. \A d \in Readers : Loading(d)' => Loading(d) /\ reader'[d].key = reader[d].key
                                            /\ reader'[d].flight = reader[d].flight
    BY <2>1, <2>4 DEF Loading
  <2>8. OneLoadPerKey' /\ FlightsOwned'
    BY <2>5, <2>7 DEF OneLoadPerKey, FlightsOwned, Cached
  <2> QED BY <2>5, <2>6, <2>8 DEF BytesExact, Bytes
<1>3. ASSUME NEW c \in Readers, Publish(c) PROVE CacheInv'
  <2> DEFINE f == reader[c].flight
             k == reader[c].key
  <2>1. Loading(c) /\ k \in Series /\ ~Cached(k)
    BY <1>3, LoadingIs DEF Publish, Loading, OneLoadPerKey
  <2>2. flights' \in Seq([key : Series, done : BOOLEAN, failed : BOOLEAN]) /\ Len(flights') = Len(flights)
    <3>1. flights' = [flights EXCEPT ![reader[c].flight].done = TRUE]
      BY <1>3 DEF Publish
    <3> QED BY <3>1, FlightsKept
  <2>3. /\ lru' \in Seq(Series) /\ bytes' \in Nat /\ BytesExact'
        /\ Range(lru') \subseteq Range(lru) \cup {k}
    <3>1. CASE flights[f].failed
      BY <1>3, <3>1 DEF Publish, BytesExact, Bytes, CacheTypeOK
    <3>2. CASE ~flights[f].failed
      <4>1. lru' = insertLocked(k).lru /\ bytes' = insertLocked(k).bytes
        BY <1>3, <3>2 DEF Publish
      <4>2. /\ insertLocked(k).lru \in Seq(Series) /\ IsInjective(insertLocked(k).lru)
            /\ Range(insertLocked(k).lru) \subseteq Range(lru) \cup {k}
            /\ insertLocked(k).bytes = Bytes(insertLocked(k).lru)
            /\ insertLocked(k).bytes \in Nat /\ insertLocked(k).bytes <= Maximum
        BY <2>1, Evicted DEF CacheTypeOK
      <4>3. Bytes(lru') = Bytes(lru)'
        BY DEF Bytes
      <4> HIDE DEF k
      <4> QED BY <4>1, <4>2, <4>3 DEF BytesExact
    <3> QED BY <3>1, <3>2
  <2>4. /\ reader'[c] = NotReading /\ \A d \in Readers \ {c} : reader'[d] = reader[d]
        /\ reader' \in [Readers -> {NotReading} \cup Reading]
        /\ \A s \in Series \ {k} : inflight'[s] = inflight[s]
        /\ inflight' \in [Series -> 0 .. Len(flights)]
    <3>1. inflight' = [inflight EXCEPT ![k] = 0] /\ reader' = [reader EXCEPT ![c] = NotReading]
      BY <1>3 DEF Publish
    <3>2. 0 \in 0 .. Len(flights)
      BY LenProperties DEF CacheTypeOK
    <3> HIDE DEF k
    <3> QED BY <3>1, <3>2 DEF CacheTypeOK
  <2>5. CacheTypeOK'
    BY <2>2, <2>3, <2>4 DEF CacheTypeOK
  <2>6. \A d \in Readers : Loading(d)' =>
            d # c /\ Loading(d) /\ reader'[d] = reader[d] /\ reader[d].key \in Series \ {k}
    BY <2>1, <2>4, LoadingIs DEF Loading, OneLoadPerKey, NotReading
  <2>7. OneLoadPerKey'
    BY <2>3, <2>6 DEF OneLoadPerKey, Cached
  <2>8. FlightsOwned'
    BY <2>4, <2>6 DEF FlightsOwned
  <2> QED BY <2>3, <2>5, <2>7, <2>8
<1>4. ASSUME NEW c \in Readers, Wake(c) PROVE CacheInv'
  <2>1. /\ reader' \in [Readers -> {NotReading} \cup Reading] /\ reader'[c] = NotReading
        /\ \A d \in Readers \ {c} : reader'[d] = reader[d]
        /\ UNCHANGED <<lru, bytes, flights, inflight>>
    BY <1>4 DEF Wake, CacheTypeOK
  <2>2. \A d \in Readers : Loading(d)' => Loading(d) /\ reader'[d] = reader[d]
    BY <2>1 DEF Loading, NotReading
  <2>3. CacheTypeOK'
    BY <2>1 DEF CacheTypeOK
  <2>4. OneLoadPerKey' /\ FlightsOwned'
    BY <2>1, <2>2 DEF OneLoadPerKey, FlightsOwned, Cached
  <2> QED BY <2>1, <2>3, <2>4 DEF BytesExact, Bytes
<1>5. CASE UNCHANGED cacheVars
  BY <1>5 DEF cacheVars, CacheTypeOK, BytesExact, Bytes, OneLoadPerKey, FlightsOwned, Loading, Cached
<1> QED BY <1>1, <1>2, <1>3, <1>4, <1>5 DEF CacheNext

\* Bars are counted exactly and within the maximum, and loaded once at a time
\* per key, for every number of readers and series, whatever a load ends in
\* (runtimeBarsCache.get, insertLocked).
THEOREM CacheExact == ASSUME CacheAssumption PROVE CacheSpec => []CacheIsExact
<1>1. CacheInit => CacheInv
  BY CacheStarts
<1>2. CacheInv /\ [CacheNext]_cacheVars => CacheInv'
  BY CacheStep
<1>3. CacheInv => CacheIsExact
  BY DEF CacheInv, CacheIsExact
<1> QED BY <1>1, <1>2, <1>3, PTL DEF CacheSpec

-----------------------------------------------------------------------------
\* Every bar that opens in a .. b is stored.
Stored(a, b) == \A t \in OpenTimes : a <= t /\ t <= b => bars[t] # NoBar

\* A run works on one of the ranges and has stored what is behind its cursor,
\* unless it rehearses; the page it commits is contiguous from the cursor and
\* its rows were not available before the bars closed.
RunIsBacked(i) ==
    LET s == ing[i] IN
    /\ s.at # "idle" => \E r \in Ranges : s.start = r.start /\ s.end = r.end
    /\ s.at # "idle" /\ ~s.dry /\ OneStart => Stored(s.start, s.cursor - 1)
    /\ s.at = "commit" =>
         /\ s.page # {} /\ s.row \in Rows /\ s.row.delay >= 0
         /\ \A t \in s.page : /\ s.cursor <= t /\ t < s.end
                              /\ \A u \in OpenTimes : s.cursor <= u /\ u <= t => u \in s.page

\* What the checkpoint passed is stored.
CheckpointIsBacked ==
    OneStart /\ checkpoint # NoCheckpoint => \A r \in Ranges : Stored(r.start, checkpoint.last)

\* No row was available before its bar closed.
StoredOnTime == \A t \in OpenTimes : bars[t].delay >= 0

\* A complete manifest is of rows that are stored, were retrieved by its cutoff
\* and are those it was built from.
Pinned(m) ==
    m.complete =>
      /\ \A t \in m.start .. m.end - 1 : bars[t] # NoBar /\ bars[t].retrieved <= m.cutoff
      /\ m.rows = [t \in m.start .. m.end - 1 |-> bars[t]]

DatasetInv ==
    /\ DatasetTypeOK
    /\ \A i \in Ingesters : RunIsBacked(i)
    /\ CheckpointIsBacked
    /\ StoredOnTime
    /\ \A m \in manifests : Pinned(m)
    /\ \A r \in reads : r.manifest.complete => r.rows = r.manifest.rows

\* What the invariant says of one run.
LEMMA RunFacts ==
    ASSUME DatasetAssumption, DatasetInv, NEW i \in Ingesters
    PROVE  /\ ing[i].at \in {"idle", "fetch", "commit", "finish"} /\ ing[i].start \in OpenTimes
           /\ ing[i].end \in 0 .. LastOpen + 1 /\ ing[i].cursor \in 0 .. LastOpen + 1
           /\ ing[i].page \in SUBSET OpenTimes /\ ing[i].row \in Rows \cup {NoBar}
           /\ ing[i].unresolved \in BOOLEAN /\ ing[i].dry \in BOOLEAN
           /\ ing[i].at = "fetch" => ing[i].cursor < ing[i].end
           /\ RunIsBacked(i)
  BY DEF DatasetInv, DatasetTypeOK

\* The sets of the types consist of numbers.
LEMMA TimesAreNumbers ==
    ASSUME DatasetAssumption
    PROVE  /\ OpenTimes \subseteq Nat /\ LastOpen \in Nat /\ 0 .. LastOpen + 1 \subseteq Nat
           /\ OpenTimes \subseteq 0 .. LastOpen + 1 /\ -1 .. LastOpen \subseteq Int
           /\ NoRun \in [at : {"idle", "fetch", "commit", "finish"}, start : OpenTimes, end : 0 .. LastOpen + 1,
                         cursor : 0 .. LastOpen + 1, page : SUBSET OpenTimes, row : Rows \cup {NoBar},
                         unresolved : BOOLEAN, dry : BOOLEAN]
           /\ NoBar \notin Rows /\ \A r \in Rows : r.delay \in Int /\ r # NoBar
<1>1. /\ OpenTimes \subseteq Nat /\ LastOpen \in Nat /\ 0 .. LastOpen + 1 \subseteq Nat
      /\ OpenTimes \subseteq 0 .. LastOpen + 1 /\ -1 .. LastOpen \subseteq Int
      /\ 0 \in OpenTimes /\ 0 \in 0 .. LastOpen + 1
  BY DEF DatasetAssumption, OpenTimes
<1>2. \A r \in Rows : r.delay \in Int /\ r.content # 0
  BY DEF Rows, DatasetAssumption
<1>3. NoBar.content = 0
  BY DEF NoBar
<1> QED BY <1>1, <1>2, <1>3 DEF NoRun

-----------------------------------------------------------------------------
LEMMA DatasetStarts == ASSUME DatasetAssumption, DatasetInit PROVE DatasetInv
<1>1. DatasetTypeOK
  <2>1. /\ bars \in [OpenTimes -> Rows \cup {NoBar}] /\ clock \in 0 .. MaxClock
        /\ runs \in 0 .. MaxRuns /\ builds \in 0 .. MaxBuilds
    BY DEF DatasetInit, DatasetAssumption
  <2>2. /\ ing \in [Ingesters ->
                  [at : {"idle", "fetch", "commit", "finish"}, start : OpenTimes, end : 0 .. LastOpen + 1,
                   cursor : 0 .. LastOpen + 1, page : SUBSET OpenTimes, row : Rows \cup {NoBar},
                   unresolved : BOOLEAN, dry : BOOLEAN]]
        /\ \A i \in Ingesters : ing[i].at = "idle"
    <3>1. ing = [i \in Ingesters |-> NoRun] /\ NoRun.at = "idle"
      BY DEF DatasetInit, NoRun
    <3> QED BY <3>1, TimesAreNumbers
  <2>3. checkpoint \in [last : -1 .. LastOpen, status : {"none", "running", "unresolved", "complete"}]
    BY DEF DatasetInit, NoCheckpoint, DatasetAssumption
  <2>4. build.start \in OpenTimes /\ build.end \in 0 .. LastOpen + 1
    BY DEF DatasetInit, NoBuild, OpenTimes, DatasetAssumption
  <2> QED BY <2>1, <2>2, <2>3, <2>4 DEF DatasetTypeOK, DatasetInit
<1>2. \A i \in Ingesters : RunIsBacked(i)
  BY DEF DatasetInit, RunIsBacked, NoRun
<1>3. CheckpointIsBacked /\ StoredOnTime
  BY DEF DatasetInit, CheckpointIsBacked, StoredOnTime, NoBar
<1> QED BY <1>1, <1>2, <1>3 DEF DatasetInv, DatasetInit

-----------------------------------------------------------------------------
\* What happens to the other variables keeps the invariant of a run that stays
\* as it was, as long as no bar is removed.
LEMMA RunStays ==
    ASSUME DatasetInv, NEW i \in Ingesters, ing'[i] = ing[i],
           \A t \in OpenTimes : bars[t] # NoBar => bars'[t] # NoBar
    PROVE  RunIsBacked(i)'
  BY DEF DatasetInv, RunIsBacked, Stored

\* A step of the ingestion that writes nothing keeps the invariant when it keeps
\* that of its run.
LEMMA RunSteps ==
    ASSUME DatasetAssumption, DatasetInv, NEW i \in Ingesters, NEW s,
           ing' = [ing EXCEPT ![i] = s], UNCHANGED <<bars, manifests, verified, reads, builds, build>>,
           clock' \in 0 .. MaxClock, runs' \in 0 .. MaxRuns,
           checkpoint' = checkpoint
             \/ /\ checkpoint # NoCheckpoint /\ checkpoint'.last = checkpoint.last
                /\ checkpoint' \in [last : -1 .. LastOpen, status : {"none", "running", "unresolved", "complete"}],
           s \in [at : {"idle", "fetch", "commit", "finish"}, start : OpenTimes, end : 0 .. LastOpen + 1,
                  cursor : 0 .. LastOpen + 1, page : SUBSET OpenTimes, row : Rows \cup {NoBar},
                  unresolved : BOOLEAN, dry : BOOLEAN],
           s.at = "fetch" => s.cursor < s.end,
           ing'[i] = s => RunIsBacked(i)'
    PROVE  DatasetInv'
<1>1. ing'[i] = s /\ \A j \in Ingesters \ {i} : ing'[j] = ing[j]
  BY DEF DatasetInv, DatasetTypeOK
<1>2. DatasetTypeOK'
  BY <1>1 DEF DatasetInv, DatasetTypeOK
<1>3. ASSUME NEW j \in Ingesters PROVE RunIsBacked(j)'
  <2>1. CASE j = i
    BY <1>1, <2>1
  <2>2. CASE j # i
    BY <1>1, <2>2, RunStays
  <2> QED BY <2>1, <2>2
<1>4. CheckpointIsBacked' /\ StoredOnTime'
  BY DEF DatasetInv, CheckpointIsBacked, StoredOnTime, Stored
<1>5. \A m \in manifests' : Pinned(m)'
  BY DEF DatasetInv, Pinned
<1> QED BY <1>2, <1>3, <1>4, <1>5 DEF DatasetInv

\* StartRun keeps the invariant: what it skips is stored (Ingester.Run).
LEMMA StartRunInv ==
    ASSUME DatasetAssumption, DatasetInv, NEW i \in Ingesters, StartRun(i)
    PROVE  DatasetInv'
<1>1. PICK r \in Ranges, dry \in BOOLEAN :
        ing' = [ing EXCEPT ![i] = [NoRun EXCEPT !.at = IF ResumeCursor(r.start) < r.end THEN "fetch" ELSE "finish",
                                   !.start = r.start, !.end = r.end, !.cursor = ResumeCursor(r.start), !.dry = dry]]
  BY DEF StartRun
<1> DEFINE c == ResumeCursor(r.start)
           s == [NoRun EXCEPT !.at = IF c < r.end THEN "fetch" ELSE "finish",
                 !.start = r.start, !.end = r.end, !.cursor = c, !.dry = dry]
<1>2. r.start \in OpenTimes /\ r.end \in 0 .. LastOpen + 1 /\ r.start \in Nat /\ r.end \in Nat
  BY DEF DatasetAssumption, OpenTimes
<1>3. c \in 0 .. LastOpen + 1 /\ (OneStart => Stored(r.start, c - 1))
  <2>1. CASE checkpoint.status \notin {"none", "complete"} /\ checkpoint.last >= r.start
    <3>1. c = checkpoint.last + 1 /\ checkpoint # NoCheckpoint
      BY <2>1 DEF ResumeCursor, NoCheckpoint
    <3>2. checkpoint.last \in -1 .. LastOpen /\ LastOpen \in Nat
      BY DEF DatasetInv, DatasetTypeOK, DatasetAssumption
    <3>3. c \in 0 .. LastOpen + 1 /\ c - 1 = checkpoint.last
      <4> HIDE DEF c
      <4> QED BY <1>2, <2>1, <3>1, <3>2
    <3>4. OneStart => Stored(r.start, checkpoint.last)
      BY <3>1 DEF DatasetInv, CheckpointIsBacked
    <3> HIDE DEF c
    <3> QED BY <3>3, <3>4
  <2>2. CASE ~(checkpoint.status \notin {"none", "complete"} /\ checkpoint.last >= r.start)
    <3>1. c = r.start
      BY <2>2 DEF ResumeCursor
    <3>2. Stored(r.start, r.start - 1)
      BY <1>2, TimesAreNumbers DEF Stored
    <3> HIDE DEF c
    <3> QED BY <1>2, <3>1, <3>2, TimesAreNumbers
  <2> QED BY <2>1, <2>2
<1>4. /\ s.at \in {"fetch", "finish"} /\ (s.at = "fetch" => s.cursor < s.end)
      /\ s.start = r.start /\ s.end = r.end /\ s.cursor = c /\ s.dry = dry
      /\ s \in [at : {"idle", "fetch", "commit", "finish"}, start : OpenTimes, end : 0 .. LastOpen + 1,
                cursor : 0 .. LastOpen + 1, page : SUBSET OpenTimes, row : Rows \cup {NoBar},
                unresolved : BOOLEAN, dry : BOOLEAN]
  <2> HIDE DEF c
  <2> QED BY <1>2, <1>3 DEF NoRun
<1>5. UNCHANGED <<clock, bars, checkpoint, manifestVars>> /\ runs' \in 0 .. MaxRuns
  BY DEF StartRun, DatasetInv, DatasetTypeOK, DatasetAssumption
<1>6. ing' = [ing EXCEPT ![i] = s]
  BY <1>1
<1>7. ASSUME ing'[i] = s PROVE RunIsBacked(i)'
  <2> HIDE DEF s, c
  <2> QED BY <1>3, <1>4, <1>5, <1>7 DEF RunIsBacked, Stored
<1>8. clock' \in 0 .. MaxClock
  BY <1>5 DEF DatasetInv, DatasetTypeOK
<1> HIDE DEF s, c
<1> QED BY <1>4, <1>5, <1>6, <1>7, <1>8, RunSteps DEF manifestVars

\* A failed fetch leaves its run to be finished as unresolved.
LEMMA FetchFailsInv ==
    ASSUME DatasetAssumption, DatasetInv, NEW i \in Ingesters, FetchFails(i)
    PROVE  DatasetInv'
<1> DEFINE s == [ing[i] EXCEPT !.at = "finish", !.unresolved = TRUE]
<1>1. ing' = [ing EXCEPT ![i] = s] /\ UNCHANGED <<clock, bars, checkpoint, manifestVars, runs>> /\ ing[i].at = "fetch"
  BY DEF FetchFails, DatasetInv, DatasetTypeOK
<1>2. s \in [at : {"idle", "fetch", "commit", "finish"}, start : OpenTimes, end : 0 .. LastOpen + 1,
             cursor : 0 .. LastOpen + 1, page : SUBSET OpenTimes, row : Rows \cup {NoBar},
             unresolved : BOOLEAN, dry : BOOLEAN]
  BY DEF DatasetInv, DatasetTypeOK
<1>3. /\ s.at = "finish" /\ s.start = ing[i].start /\ s.end = ing[i].end /\ s.cursor = ing[i].cursor
      /\ s.dry = ing[i].dry
  BY DEF DatasetInv, DatasetTypeOK
<1>4. ASSUME ing'[i] = s PROVE RunIsBacked(i)'
  <2> HIDE DEF s
  <2> QED BY <1>1, <1>3, <1>4, RunFacts DEF RunIsBacked, Stored
<1>5. clock' \in 0 .. MaxClock /\ runs' \in 0 .. MaxRuns
  BY <1>1 DEF DatasetInv, DatasetTypeOK
<1> HIDE DEF s
<1> QED BY <1>1, <1>2, <1>3, <1>4, <1>5, RunSteps DEF manifestVars

\* A run that ends leaves nothing to account for, and the checkpoint where it
\* was (Ingester.Run, or its interruption).
LEMMA EndInv ==
    ASSUME DatasetAssumption, DatasetInv, NEW i \in Ingesters, FinishRun(i) \/ Interrupt(i)
    PROVE  DatasetInv'
<1>1. ing' = [ing EXCEPT ![i] = NoRun] /\ UNCHANGED <<clock, bars, manifestVars, runs>>
  BY DEF FinishRun, Interrupt
<1>2. checkpoint' = checkpoint
        \/ /\ checkpoint # NoCheckpoint /\ checkpoint'.last = checkpoint.last
           /\ checkpoint' \in [last : -1 .. LastOpen, status : {"none", "running", "unresolved", "complete"}]
  BY DEF FinishRun, Interrupt, DatasetInv, DatasetTypeOK
<1>3. NoRun.at = "idle"
  BY DEF NoRun
<1>4. ASSUME ing'[i] = NoRun PROVE RunIsBacked(i)'
  BY <1>3, <1>4 DEF RunIsBacked
<1>5. clock' \in 0 .. MaxClock /\ runs' \in 0 .. MaxRuns
  BY <1>1 DEF DatasetInv, DatasetTypeOK
<1> QED BY <1>1, <1>2, <1>3, <1>4, <1>5, TimesAreNumbers, RunSteps DEF manifestVars

\* The end of a page is within its run.
LEMMA PageWithin ==
    ASSUME DatasetAssumption, DatasetInv, NEW i \in Ingesters, ing[i].at = "fetch"
    PROVE  PageEnd(ing[i]) \in Int /\ PageEnd(ing[i]) <= ing[i].end
<1>1. ing[i].cursor \in Int /\ ing[i].end \in Int /\ PageSize \in Int
  BY RunFacts DEF DatasetAssumption
<1> DEFINE a == ing[i].cursor + PageSize
           b == ing[i].end
<1>2. a \in Int /\ b \in Int
  BY <1>1
<1> HIDE DEF a, b
<1>3. \E x \in {a, b} : \A y \in {a, b} : x =< y
  BY <1>2
<1>4. Min({a, b}) \in {a, b} /\ \A y \in {a, b} : Min({a, b}) =< y
  BY <1>3 DEF Min
<1>5. Min({a, b}) \in Int /\ Min({a, b}) <= b
  BY <1>2, <1>4
<1> QED BY <1>5 DEF PageEnd, a, b

\* What a run keeps of an answer is contiguous from its cursor, and it keeps no
\* bar that was available before its close (Ingester.Run, historicalBar).
LEMMA FetchPageInv ==
    ASSUME DatasetAssumption, DatasetInv, NEW i \in Ingesters, FetchPage(i)
    PROVE  DatasetInv'
<1>1. ing[i].at = "fetch" /\ UNCHANGED <<clock, bars, checkpoint, manifestVars, runs>>
  BY DEF FetchPage
<1>2. PICK got \in SUBSET (ing[i].cursor .. PageEnd(ing[i]) - 1), c \in Answers, d \in Delays :
        LET page == {t \in got : ing[i].cursor .. t \subseteq got}
            row == [content |-> c, delay |-> d, retrieved |-> clock]
        IN  ing' = [ing EXCEPT ![i] =
              IF page = {} THEN [@ EXCEPT !.at = "finish", !.unresolved = TRUE]
              ELSE IF ~historicalBar(row) THEN NoRun
              ELSE [@ EXCEPT !.at = "commit", !.page = page, !.row = row,
                             !.unresolved = (ing[i].cursor + Cardinality(page) < PageEnd(ing[i]))]]
  BY DEF FetchPage
<1> DEFINE page == {t \in got : ing[i].cursor .. t \subseteq got}
           row == [content |-> c, delay |-> d, retrieved |-> clock]
           some == ing[i].cursor + Cardinality(page) < PageEnd(ing[i])
<1>3. clock' \in 0 .. MaxClock /\ runs' \in 0 .. MaxRuns /\ clock \in 0 .. MaxClock
  BY <1>1 DEF DatasetInv, DatasetTypeOK
<1>4. CASE page = {}
  <2> DEFINE s == [ing[i] EXCEPT !.at = "finish", !.unresolved = TRUE]
  <2>1. ing' = [ing EXCEPT ![i] = s]
    BY <1>2, <1>4
  <2>2. /\ s \in [at : {"idle", "fetch", "commit", "finish"}, start : OpenTimes, end : 0 .. LastOpen + 1,
                  cursor : 0 .. LastOpen + 1, page : SUBSET OpenTimes, row : Rows \cup {NoBar},
                  unresolved : BOOLEAN, dry : BOOLEAN]
        /\ s.at = "finish" /\ s.start = ing[i].start /\ s.end = ing[i].end /\ s.cursor = ing[i].cursor
        /\ s.dry = ing[i].dry
    BY DEF DatasetInv, DatasetTypeOK
  <2>3. ASSUME ing'[i] = s PROVE RunIsBacked(i)'
    <3> HIDE DEF s
    <3> QED BY <1>1, <2>2, <2>3, RunFacts DEF RunIsBacked, Stored
  <2> HIDE DEF s, page, row
  <2> QED BY <1>1, <1>3, <2>1, <2>2, <2>3, RunSteps DEF manifestVars
<1>5. CASE page # {} /\ ~historicalBar(row)
  <2>1. ing' = [ing EXCEPT ![i] = NoRun]
    BY <1>2, <1>5
  <2>2. NoRun.at = "idle"
    BY DEF NoRun
  <2>3. ASSUME ing'[i] = NoRun PROVE RunIsBacked(i)'
    BY <2>2, <2>3 DEF RunIsBacked
  <2> HIDE DEF page, row
  <2> QED BY <1>1, <1>3, <2>1, <2>2, <2>3, TimesAreNumbers, RunSteps DEF manifestVars
<1>6. CASE page # {} /\ historicalBar(row)
  <2> DEFINE s == [ing[i] EXCEPT !.at = "commit", !.page = page, !.row = row, !.unresolved = some]
  <2>1. ing' = [ing EXCEPT ![i] = s]
    BY <1>2, <1>6
  <2>2. row \in Rows /\ row.delay >= 0
    BY <1>3, <1>6 DEF Rows, historicalBar
  <2>3. /\ \A t \in page : t \in OpenTimes /\ ing[i].cursor <= t /\ t < ing[i].end
        /\ \A t \in page : \A u \in OpenTimes : ing[i].cursor <= u /\ u <= t => u \in page
    <3>1. /\ ing[i].cursor \in Nat /\ ing[i].end \in Nat /\ ing[i].end <= LastOpen + 1 /\ LastOpen \in Nat
          /\ PageEnd(ing[i]) \in Int /\ PageEnd(ing[i]) <= ing[i].end
      BY <1>1, RunFacts, PageWithin DEF DatasetAssumption
    <3>2. \A t \in got : t \in Int /\ ing[i].cursor <= t /\ t < ing[i].end
      BY <3>1
    <3>3. \A t \in page : t \in OpenTimes /\ ing[i].cursor <= t /\ t < ing[i].end
      BY <3>1, <3>2 DEF OpenTimes
    <3>4. ASSUME NEW t \in page, NEW u \in OpenTimes, ing[i].cursor <= u, u <= t PROVE u \in page
      <4>1. u \in Int /\ t \in Int /\ ing[i].cursor \in Int
        BY <3>1, <3>2, TimesAreNumbers
      <4>2. u \in got
        BY <3>4, <4>1
      <4>3. \A v \in ing[i].cursor .. u : v \in ing[i].cursor .. t
        BY <3>4, <4>1
      <4> QED BY <4>2, <4>3
    <3> QED BY <3>3, <3>4
  <2>4. page \in SUBSET OpenTimes /\ some \in BOOLEAN
    <3>1. some \in BOOLEAN
      OBVIOUS
    <3> HIDE DEF s, page, row, some
    <3> QED BY <2>3, <3>1
  <2>5. /\ s \in [at : {"idle", "fetch", "commit", "finish"}, start : OpenTimes, end : 0 .. LastOpen + 1,
                  cursor : 0 .. LastOpen + 1, page : SUBSET OpenTimes, row : Rows \cup {NoBar},
                  unresolved : BOOLEAN, dry : BOOLEAN]
        /\ s.at = "commit" /\ s.start = ing[i].start /\ s.end = ing[i].end /\ s.cursor = ing[i].cursor
        /\ s.dry = ing[i].dry /\ s.page = page /\ s.row = row
    <3> HIDE DEF page, row, some
    <3> QED BY <2>2, <2>4 DEF DatasetInv, DatasetTypeOK
  <2>6. ASSUME ing'[i] = s PROVE RunIsBacked(i)'
    <3>1. /\ s.at # "idle" => \E r \in Ranges : s.start = r.start /\ s.end = r.end
          /\ s.at # "idle" /\ ~s.dry /\ OneStart => Stored(s.start, s.cursor - 1)
      <4> HIDE DEF s, page, row
      <4> QED BY <1>1, <2>5, RunFacts DEF RunIsBacked
    <3>2. /\ s.page # {} /\ s.row \in Rows /\ s.row.delay >= 0
          /\ \A t \in s.page : /\ s.cursor <= t /\ t < s.end
                               /\ \A u \in OpenTimes : s.cursor <= u /\ u <= t => u \in s.page
      <4> HIDE DEF s, page, row
      <4> QED BY <1>6, <2>2, <2>3, <2>5
    <3> HIDE DEF s, page, row
    <3> QED BY <1>1, <2>6, <3>1, <3>2 DEF RunIsBacked, Stored
  <2> HIDE DEF s, page, row
  <2> QED BY <1>1, <1>3, <2>1, <2>5, <2>6, RunSteps DEF manifestVars
<1> QED BY <1>4, <1>5, <1>6

-----------------------------------------------------------------------------
\* The last bar of a page is behind the end of its run, and between the cursor
\* and it there are the bars of the page.
LEMMA LastOfPage ==
    ASSUME DatasetAssumption, DatasetInv, NEW i \in Ingesters, ing[i].at = "commit"
    PROVE  LET last == Max(ing[i].page)
           IN  /\ last \in ing[i].page /\ last \in OpenTimes /\ last \in Nat /\ last + 1 \in 0 .. LastOpen + 1
               /\ last < ing[i].end
               /\ \A u \in OpenTimes : ing[i].cursor <= u /\ u <= last => u \in ing[i].page
<1> DEFINE T == ing[i].page
<1>1. T \in SUBSET (0 .. LastOpen) /\ LastOpen \in Nat /\ T # {}
  BY RunFacts DEF OpenTimes, DatasetAssumption, RunIsBacked
<1>2. Max(T) \in T
  <2> HIDE DEF T
  <2> QED BY <1>1, GreatestExists
<1>3. /\ Max(T) < ing[i].end
      /\ \A u \in OpenTimes : ing[i].cursor <= u /\ u <= Max(T) => u \in T
  BY <1>2, RunFacts DEF RunIsBacked
<1>4. Max(T) \in OpenTimes /\ Max(T) \in Nat /\ Max(T) + 1 \in 0 .. LastOpen + 1
  <2> DEFINE l == Max(T)
  <2>1. l \in 0 .. LastOpen
    BY <1>1, <1>2
  <2> HIDE DEF l
  <2>2. l \in OpenTimes /\ l \in Nat /\ l + 1 \in 0 .. LastOpen + 1
    BY <1>1, <2>1 DEF OpenTimes
  <2> QED BY <2>2 DEF l
<1> QED BY <1>2, <1>3, <1>4

\* Without a conflict the page is inserted and no stored bar changes.
LEMMA Inserted ==
    ASSUME DatasetAssumption, DatasetInv, NEW i \in Ingesters, ing[i].at = "commit",
           ~Conflicts(ing[i].page, ing[i].row)
    PROVE  LET b == InsertRows(ing[i].page, ing[i].row)
           IN  /\ b \in [OpenTimes -> Rows \cup {NoBar}]
               /\ \A t \in OpenTimes : /\ bars[t] # NoBar => b[t] = bars[t]
                                       /\ t \in ing[i].page => b[t] # NoBar
                                       /\ b[t].delay >= 0
<1> DEFINE b == InsertRows(ing[i].page, ing[i].row)
<1>1. /\ ing[i].row \in Rows /\ ing[i].row # NoBar /\ ing[i].row.delay >= 0
      /\ bars \in [OpenTimes -> Rows \cup {NoBar}] /\ \A t \in OpenTimes : bars[t].delay >= 0
  BY RunFacts, TimesAreNumbers DEF RunIsBacked, DatasetInv, DatasetTypeOK, StoredOnTime
<1>2. ASSUME NEW t \in OpenTimes
      PROVE  /\ b[t] \in {ing[i].row, bars[t]} /\ (t \notin ing[i].page => b[t] = bars[t])
             /\ t \in ing[i].page /\ bars[t] = NoBar => b[t] = ing[i].row
             /\ t \in ing[i].page /\ bars[t] # NoBar => b[t] = bars[t]
  BY DEF InsertRows, Conflicts
<1>3. b \in [OpenTimes -> Rows \cup {NoBar}]
  BY <1>1 DEF InsertRows
<1> HIDE DEF b
<1>4. \A t \in OpenTimes : /\ bars[t] # NoBar => b[t] = bars[t]
                           /\ t \in ing[i].page => b[t] # NoBar
                           /\ b[t].delay >= 0
  BY <1>1, <1>2
<1> QED BY <1>3, <1>4 DEF b

\* The transaction of a page keeps the invariant: it moves the cursor past bars
\* that are stored, changes no stored bar and refuses a revision (Ingester.Run).
LEMMA CommitPageInv ==
    ASSUME DatasetAssumption, DatasetInv, NEW i \in Ingesters, CommitPage(i)
    PROVE  DatasetInv'
<1> DEFINE last == Max(ing[i].page)
           to == IF ing[i].unresolved \/ last + 1 >= ing[i].end THEN "finish" ELSE "fetch"
           s == [ing[i] EXCEPT !.cursor = last + 1, !.page = {}, !.row = NoBar, !.at = to]
<1>1. ing[i].at = "commit" /\ UNCHANGED <<clock, manifestVars, runs>>
  BY DEF CommitPage
<1>2. clock' \in 0 .. MaxClock /\ runs' \in 0 .. MaxRuns
  BY <1>1 DEF DatasetInv, DatasetTypeOK
<1>3. CASE Conflicts(ing[i].page, ing[i].row)
  <2>1. ing' = [ing EXCEPT ![i] = NoRun] /\ UNCHANGED <<bars, checkpoint>> /\ NoRun.at = "idle"
    BY <1>3 DEF CommitPage, NoRun
  <2>2. ASSUME ing'[i] = NoRun PROVE RunIsBacked(i)'
    BY <2>1, <2>2 DEF RunIsBacked
  <2> QED BY <1>1, <1>2, <2>1, <2>2, TimesAreNumbers, RunSteps DEF manifestVars
<1>4. /\ last \in ing[i].page /\ last \in OpenTimes /\ last \in Nat /\ last + 1 \in 0 .. LastOpen + 1
      /\ last < ing[i].end
      /\ \A u \in OpenTimes : ing[i].cursor <= u /\ u <= last => u \in ing[i].page
  BY <1>1, LastOfPage
<1>5. /\ s \in [at : {"idle", "fetch", "commit", "finish"}, start : OpenTimes, end : 0 .. LastOpen + 1,
                cursor : 0 .. LastOpen + 1, page : SUBSET OpenTimes, row : Rows \cup {NoBar},
                unresolved : BOOLEAN, dry : BOOLEAN]
      /\ s.at = to /\ s.start = ing[i].start /\ s.end = ing[i].end /\ s.cursor = last + 1
      /\ s.dry = ing[i].dry /\ to \in {"finish", "fetch"}
  <2>1. to \in {"finish", "fetch"}
    <3> HIDE DEF last
    <3> QED OBVIOUS
  <2> HIDE DEF last, to
  <2> QED BY <1>4, <2>1 DEF DatasetInv, DatasetTypeOK
<1>6. s.at = "fetch" => s.cursor < s.end
  <2>1. to = "fetch" => ~(last + 1 >= ing[i].end)
    <3> HIDE DEF last
    <3> QED OBVIOUS
  <2>2. last + 1 \in Int /\ ing[i].end \in Int
    BY <1>4, RunFacts
  <2> HIDE DEF s, last, to
  <2> QED BY <1>5, <2>1, <2>2
<1>7. CASE ~Conflicts(ing[i].page, ing[i].row) /\ ing[i].dry
  <2>1. ing' = [ing EXCEPT ![i] = s] /\ UNCHANGED <<bars, checkpoint>>
    BY <1>7 DEF CommitPage
  <2>2. ASSUME ing'[i] = s PROVE RunIsBacked(i)'
    <3> HIDE DEF s, last, to
    <3>1. s.at \notin {"idle", "commit"} /\ s.dry
      BY <1>5, <1>7, RunFacts
    <3>2. \E r \in Ranges : s.start = r.start /\ s.end = r.end
      BY <1>1, <1>5, RunFacts DEF RunIsBacked
    <3> QED BY <2>2, <3>1, <3>2 DEF RunIsBacked
  <2> HIDE DEF s, last, to
  <2> QED BY <1>1, <1>2, <1>5, <1>6, <2>1, <2>2, RunSteps DEF manifestVars
<1>8. CASE ~Conflicts(ing[i].page, ing[i].row) /\ ~ing[i].dry
  <2>1. /\ ing' = [ing EXCEPT ![i] = s] /\ bars' = InsertRows(ing[i].page, ing[i].row)
        /\ checkpoint' = [last |-> Max({checkpoint.last, last}), status |-> "running"]
    BY <1>8 DEF CommitPage
  <2>2. /\ bars' \in [OpenTimes -> Rows \cup {NoBar}]
        /\ \A t \in OpenTimes : /\ bars[t] # NoBar => bars'[t] = bars[t] /\ bars'[t] # NoBar
                                /\ t \in ing[i].page => bars'[t] # NoBar
                                /\ bars'[t].delay >= 0
    BY <1>1, <1>8, <2>1, Inserted
  <2>3. ing'[i] = s /\ \A j \in Ingesters \ {i} : ing'[j] = ing[j]
    <3> HIDE DEF s
    <3> QED BY <2>1 DEF DatasetInv, DatasetTypeOK
  <2>4. checkpoint.last \in -1 .. LastOpen /\ LastOpen \in Nat
    BY DEF DatasetInv, DatasetTypeOK, DatasetAssumption
  <2>5. /\ checkpoint'.last \in {checkpoint.last, last} /\ checkpoint'.last \in -1 .. LastOpen
        /\ checkpoint' \in [last : -1 .. LastOpen, status : {"none", "running", "unresolved", "complete"}]
    <3> DEFINE S == {checkpoint.last, last}
               x == Max(S)
    <3> HIDE DEF last
    <3>1. \E y \in S : \A z \in S : y >= z
      BY <1>4, <2>4
    <3>2. x \in S
      BY <3>1 DEF Max
    <3>3. x \in -1 .. LastOpen
      <4> HIDE DEF x
      <4> QED BY <1>4, <2>4, <3>2 DEF OpenTimes
    <3>4. checkpoint'.last = x /\ checkpoint'.status = "running"
      BY <2>1
    <3> HIDE DEF x
    <3> QED BY <2>1, <3>2, <3>3, <3>4 DEF x
  <2> HIDE DEF s, to
  <2>6. DatasetTypeOK'
    <3>1. \A j \in Ingesters : ing'[j].at = "fetch" => ing'[j].cursor < ing'[j].end
      BY <1>6, <2>3 DEF DatasetInv, DatasetTypeOK
    <3> QED BY <1>1, <1>2, <1>5, <2>1, <2>2, <2>5, <3>1 DEF DatasetInv, DatasetTypeOK, manifestVars
  <2>7. OneStart => \A t \in OpenTimes : ing[i].start <= t /\ t <= last => bars'[t] # NoBar
    <3> HIDE DEF last
    <3> SUFFICES ASSUME OneStart, NEW t \in OpenTimes, ing[i].start <= t, t <= last
                 PROVE  bars'[t] # NoBar
      OBVIOUS
    <3>1. t \in Int /\ ing[i].cursor \in Int
      BY RunFacts, TimesAreNumbers
    <3>2. CASE t < ing[i].cursor
      <4>1. t <= ing[i].cursor - 1
        BY <3>1, <3>2
      <4>2. Stored(ing[i].start, ing[i].cursor - 1)
        BY <1>1, <1>8, RunFacts DEF RunIsBacked
      <4> QED BY <2>2, <4>1, <4>2 DEF Stored
    <3>3. CASE ing[i].cursor <= t
      BY <1>4, <2>2, <3>3
    <3> QED BY <3>1, <3>2, <3>3
  <2>8. ASSUME NEW j \in Ingesters PROVE RunIsBacked(j)'
    <3>1. CASE j # i
      BY <2>2, <2>3, <3>1, RunStays
    <3>2. CASE j = i
      <4>1. s.cursor - 1 = last /\ s.start = ing[i].start /\ s.at \notin {"idle", "commit"}
        <5> HIDE DEF last
        <5> QED BY <1>4, <1>5
      <4>2. \E r \in Ranges : s.start = r.start /\ s.end = r.end
        BY <1>1, <1>5, RunFacts DEF RunIsBacked
      <4>3. OneStart => \A t \in OpenTimes : s.start <= t /\ t <= s.cursor - 1 => bars'[t] # NoBar
        BY <2>7, <4>1
      <4> HIDE DEF last
      <4> QED BY <2>3, <3>2, <4>1, <4>2, <4>3 DEF RunIsBacked, Stored
    <3> QED BY <3>1, <3>2
  <2>9. CheckpointIsBacked'
    <3> HIDE DEF last
    <3> SUFFICES ASSUME OneStart, NEW r \in Ranges PROVE Stored(r.start, checkpoint.last)'
      BY DEF CheckpointIsBacked, OneStart
    <3>1. ing[i].start = r.start
      BY <1>1, RunFacts DEF RunIsBacked, OneStart
    <3>2. CASE checkpoint'.last = last
      BY <2>7, <3>1, <3>2 DEF Stored
    <3>3. CASE checkpoint'.last = checkpoint.last /\ checkpoint # NoCheckpoint
      BY <2>2, <3>3 DEF DatasetInv, CheckpointIsBacked, Stored
    <3>4. CASE checkpoint'.last = checkpoint.last /\ checkpoint = NoCheckpoint
      <4>1. checkpoint'.last = -1
        BY <3>4 DEF NoCheckpoint
      <4>2. \A t \in OpenTimes : ~(t <= -1)
        BY TimesAreNumbers
      <4> QED BY <4>1, <4>2 DEF Stored
    <3> QED BY <2>5, <3>2, <3>3, <3>4
  <2>10. StoredOnTime'
    BY <2>2 DEF StoredOnTime
  <2>11. ASSUME NEW m \in manifests' PROVE Pinned(m)'
    <3> SUFFICES ASSUME m.complete PROVE Pinned(m)'
      BY DEF Pinned
    <3>1. m \in manifests /\ Pinned(m) /\ m.start \in OpenTimes /\ m.end \in 0 .. LastOpen + 1
      BY <1>1 DEF manifestVars, DatasetInv, DatasetTypeOK
    <3>2. \A t \in m.start .. m.end - 1 : t \in OpenTimes
      BY <3>1, TimesAreNumbers DEF OpenTimes
    <3>3. \A t \in m.start .. m.end - 1 : bars[t] # NoBar /\ bars[t].retrieved <= m.cutoff /\ bars'[t] = bars[t]
      BY <2>2, <3>1, <3>2 DEF Pinned
    <3>4. m.rows = [t \in m.start .. m.end - 1 |-> bars'[t]]
      BY <3>1, <3>3 DEF Pinned
    <3> QED BY <3>3, <3>4 DEF Pinned
  <2>12. \A r \in reads' : r.manifest.complete => r.rows = r.manifest.rows
    BY <1>1 DEF manifestVars, DatasetInv
  <2> QED BY <2>6, <2>8, <2>9, <2>10, <2>11, <2>12 DEF DatasetInv
<1> QED BY <1>3, <1>7, <1>8

-----------------------------------------------------------------------------
\* A manifest is complete when every row of its interval is there: it is pinned
\* as it is built (BuildManifest, diagnoseSeries).
LEMMA BuildInv ==
    ASSUME DatasetAssumption, DatasetInv, DeriveCutoff \/ BuildManifest \/ Restart \/ Tick
    PROVE  DatasetInv'
<1>1. UNCHANGED <<bars, checkpoint, ing, reads, runs>>
  BY DEF DeriveCutoff, BuildManifest, Restart, Tick, manifestVars
<1>2. \A i \in Ingesters : RunIsBacked(i)'
  BY <1>1, RunStays
<1>3. CheckpointIsBacked' /\ StoredOnTime' /\ \A r \in reads' : r.manifest.complete => r.rows = r.manifest.rows
  BY <1>1 DEF DatasetInv, CheckpointIsBacked, StoredOnTime, Stored
<1>4. CASE DeriveCutoff
  <2>1. builds' \in 0 .. MaxBuilds /\ UNCHANGED <<clock, manifests, verified>>
    BY <1>4 DEF DeriveCutoff, DatasetInv, DatasetTypeOK, DatasetAssumption
  <2>2. build'.start \in OpenTimes /\ build'.end \in 0 .. LastOpen + 1
    <3>1. PICK r \in Ranges : build'.start = r.start /\ build'.end = r.end
      BY <1>4 DEF DeriveCutoff
    <3> QED BY <3>1 DEF DatasetAssumption
  <2>3. DatasetTypeOK'
    BY <1>1, <2>1, <2>2 DEF DatasetInv, DatasetTypeOK
  <2>4. \A m \in manifests' : Pinned(m)'
    BY <1>1, <2>1 DEF DatasetInv, Pinned
  <2> QED BY <1>2, <1>3, <2>3, <2>4 DEF DatasetInv
<1>5. CASE BuildManifest
  <2> DEFINE r == [start |-> build.start, end |-> build.end]
             held == RowsAtCutoff(r, build.cutoff)
  <2>1. PICK n : n = [start |-> r.start, end |-> r.end, cutoff |-> build.cutoff, rows |-> held,
                      complete |-> diagnoseSeries(r, held)]
    OBVIOUS
  <2>2. manifests' = manifests \cup {n} /\ UNCHANGED <<clock, verified, builds>> /\ build' = NoBuild
    BY <1>5, <2>1 DEF BuildManifest
  <2>3. /\ n.start = build.start /\ n.end = build.end /\ n.cutoff = build.cutoff /\ n.rows = held
        /\ n.complete = diagnoseSeries(r, held) /\ r.start = build.start /\ r.end = build.end
    <3> HIDE DEF held
    <3> QED BY <2>1
  <2>4. n.complete \in BOOLEAN /\ (n.complete => DOMAIN held = build.start .. build.end - 1)
    <3> HIDE DEF r, held
    <3> QED BY <2>3 DEF diagnoseSeries
  <2>5. /\ DOMAIN held = {u \in build.start .. build.end - 1 : bars[u] # NoBar /\ bars[u].retrieved <= build.cutoff}
        /\ held = [t \in DOMAIN held |-> bars[t]]
    BY <2>3 DEF RowsAtCutoff
  <2> HIDE DEF r, held
  <2>6. Pinned(n)'
    <3> SUFFICES ASSUME n.complete PROVE Pinned(n)'
      BY DEF Pinned
    <3>1. \A t \in n.start .. n.end - 1 : bars[t] # NoBar /\ bars[t].retrieved <= n.cutoff
      BY <2>3, <2>4, <2>5
    <3>2. n.rows = [t \in n.start .. n.end - 1 |-> bars[t]]
      BY <2>3, <2>4, <2>5
    <3> QED BY <1>1, <3>1, <3>2 DEF Pinned
  <2>7. ASSUME NEW m \in manifests' PROVE Pinned(m)'
    <3>1. CASE m = n
      BY <2>6, <3>1
    <3>2. CASE m \in manifests
      BY <1>1, <3>2 DEF DatasetInv, Pinned
    <3> QED BY <2>2, <3>1, <3>2
  <2>8. DatasetTypeOK'
    <3>1. build'.start \in OpenTimes /\ build'.end \in 0 .. LastOpen + 1
      BY <2>2, TimesAreNumbers DEF NoBuild, OpenTimes, DatasetAssumption
    <3>2. \A m \in manifests' : m.start \in OpenTimes /\ m.end \in 0 .. LastOpen + 1 /\ m.complete \in BOOLEAN
      BY <2>2, <2>3, <2>4 DEF DatasetInv, DatasetTypeOK
    <3> QED BY <1>1, <2>2, <3>1, <3>2 DEF DatasetInv, DatasetTypeOK
  <2> QED BY <1>2, <1>3, <2>7, <2>8 DEF DatasetInv
<1>6. CASE Restart \/ Tick
  <2>1. /\ UNCHANGED <<build, manifests, builds>> /\ verified' \subseteq manifests /\ clock' \in 0 .. MaxClock
    BY <1>6 DEF Restart, Tick, manifestVars, DatasetInv, DatasetTypeOK, DatasetAssumption
  <2>2. DatasetTypeOK'
    BY <1>1, <2>1 DEF DatasetInv, DatasetTypeOK
  <2>3. \A m \in manifests' : Pinned(m)'
    BY <1>1, <2>1 DEF DatasetInv, Pinned
  <2> QED BY <1>2, <1>3, <2>2, <2>3 DEF DatasetInv
<1> QED BY <1>4, <1>5, <1>6

\* A read of a complete manifest returns the rows it was built from, verified
\* now or by a process that has seen it long ago (verifyManifestOnce, Bars).
LEMMA BarsInv ==
    ASSUME DatasetAssumption, DatasetInv, NEW m \in manifests, Bars(m)
    PROVE  DatasetInv'
<1>1. /\ UNCHANGED <<clock, bars, checkpoint, ing, build, manifests, runs, builds>>
      /\ verified' \subseteq manifests
      /\ reads' = reads \cup {[manifest |-> m, rows |-> RowsAtCutoff(m, m.cutoff)]}
  BY DEF Bars, DatasetInv, DatasetTypeOK
<1>2. DatasetTypeOK'
  BY <1>1 DEF DatasetInv, DatasetTypeOK
<1>3. \A i \in Ingesters : RunIsBacked(i)'
  BY <1>1, RunStays
<1>4. CheckpointIsBacked' /\ StoredOnTime' /\ \A n \in manifests' : Pinned(n)'
  BY <1>1 DEF DatasetInv, CheckpointIsBacked, StoredOnTime, Stored, Pinned
<1>5. m.complete => RowsAtCutoff(m, m.cutoff) = m.rows
  <2> SUFFICES ASSUME m.complete PROVE RowsAtCutoff(m, m.cutoff) = m.rows
    OBVIOUS
  <2>1. Pinned(m)
    BY DEF DatasetInv
  <2>2. {u \in m.start .. m.end - 1 : bars[u] # NoBar /\ bars[u].retrieved <= m.cutoff} = m.start .. m.end - 1
    BY <2>1 DEF Pinned
  <2> QED BY <2>1, <2>2 DEF Pinned, RowsAtCutoff
<1>6. \A r \in reads' : r.manifest.complete => r.rows = r.manifest.rows
  BY <1>1, <1>5 DEF DatasetInv
<1> QED BY <1>2, <1>3, <1>4, <1>6 DEF DatasetInv

LEMMA DatasetStep == ASSUME DatasetAssumption, DatasetInv, [DatasetNext]_datasetVars PROVE DatasetInv'
<1>1. CASE UNCHANGED datasetVars
  <2>1. \A i \in Ingesters : RunIsBacked(i)'
    BY <1>1, RunStays DEF datasetVars
  <2> QED BY <1>1, <2>1 DEF datasetVars, DatasetInv, DatasetTypeOK, CheckpointIsBacked, StoredOnTime, Stored, Pinned
<1>2. CASE \E i \in Ingesters : StartRun(i) \/ FetchFails(i) \/ FetchPage(i) \/ CommitPage(i)
                               \/ FinishRun(i) \/ Interrupt(i)
  BY <1>2, StartRunInv, FetchFailsInv, FetchPageInv, CommitPageInv, EndInv
<1>3. CASE \E m \in manifests : Bars(m)
  BY <1>3, BarsInv
<1> QED BY <1>1, <1>2, <1>3, BuildInv DEF DatasetNext

\* Whatever the ranges, the answers of the exchange, the number of ingesters and
\* of runs, and however they fail, overlap and are interrupted: a manifest of a
\* complete series is pinned and no read as of a time sees a later bar; and a
\* run that finishes has its bars when the ranges of the series have one start
\* (Ingester.Run, BuildManifest, verifyManifestOnce, BarPage).
THEOREM DataPinned == ASSUME DatasetAssumption PROVE DatasetSpec => []DataIsPinned
<1>1. DatasetInit => DatasetInv
  BY DatasetStarts
<1>2. DatasetInv /\ [DatasetNext]_datasetVars => DatasetInv'
  BY DatasetStep
<1>3. DatasetInv => DataIsPinned
  <2> SUFFICES ASSUME DatasetInv PROVE DataIsPinned
    OBVIOUS
  <2>1. OneStart => FinishedRunHasItsBars
    <3> SUFFICES ASSUME OneStart, NEW i \in Ingesters, ing[i].at = "finish", ~ing[i].dry,
                        ing[i].cursor >= ing[i].end, NEW t \in ing[i].start .. ing[i].end - 1
                 PROVE  bars[t] # NoBar
      BY DEF FinishedRunHasItsBars
    <3>1. /\ ing[i].start \in OpenTimes /\ ing[i].end \in 0 .. LastOpen + 1 /\ ing[i].cursor \in 0 .. LastOpen + 1
          /\ Stored(ing[i].start, ing[i].cursor - 1)
      BY RunFacts DEF RunIsBacked
    <3>2. t \in OpenTimes /\ ing[i].start <= t /\ t <= ing[i].cursor - 1
      BY <3>1, TimesAreNumbers DEF OpenTimes
    <3> QED BY <3>1, <3>2 DEF Stored
  <2>2. CompleteManifestIsPinned
    BY DEF DatasetInv, CompleteManifestIsPinned
  <2>3. NoLookAhead
    <3> SUFFICES ASSUME NEW m \in manifests, NEW end \in 0 .. (LastOpen + 1) * Interval,
                        NEW asOf \in 0 .. (LastOpen + 1) * Interval, NEW t \in BarsAsOf(m, end, asOf)
                 PROVE  (t + 1) * Interval <= asOf
      BY DEF NoLookAhead
    <3>1. /\ t \in m.start .. m.end - 1 /\ (t + 1) * Interval + bars[t].delay <= asOf
          /\ bars[t] # NoBar
      BY DEF BarsAsOf, RowsAtCutoff
    <3>2. t \in OpenTimes
      <4>1. m.start \in OpenTimes /\ m.end \in 0 .. LastOpen + 1
        BY DEF DatasetInv, DatasetTypeOK
      <4> QED BY <3>1, <4>1, TimesAreNumbers DEF OpenTimes
    <3>3. bars[t].delay \in Int /\ bars[t].delay >= 0
      BY <3>1, <3>2, TimesAreNumbers DEF DatasetInv, DatasetTypeOK, StoredOnTime
    <3>4. (t + 1) * Interval \in Int /\ asOf \in Int
      <4>1. t \in Int /\ Interval \in Int /\ LastOpen \in Int
        BY <3>2, TimesAreNumbers DEF DatasetAssumption
      <4> QED BY <4>1
    <3> DEFINE close == (t + 1) * Interval
    <3> HIDE DEF close
    <3> QED BY <3>1, <3>3, <3>4 DEF close
  <2> QED BY <2>1, <2>2, <2>3 DEF DatasetInv, DataIsPinned
<1> QED BY <1>1, <1>2, <1>3, PTL DEF DatasetSpec

\* No step changes or removes a stored bar: a revision of the exchange is
\* refused (Ingester.Run, ErrBarConflict).
THEOREM BarsNeverChange == ASSUME DatasetAssumption PROVE DatasetSpec => [][BarsAreImmutable]_datasetVars
<1>1. ASSUME DatasetInv, [DatasetNext]_datasetVars PROVE BarsAreImmutable
  <2>1. CASE UNCHANGED bars
    BY <2>1 DEF BarsAreImmutable
  <2>2. CASE \E i \in Ingesters : CommitPage(i)
    <3>1. PICK i \in Ingesters : CommitPage(i)
      BY <2>2
    <3>2. CASE ~Conflicts(ing[i].page, ing[i].row) /\ bars' = InsertRows(ing[i].page, ing[i].row)
      <4>1. ing[i].at = "commit"
        BY <3>1 DEF CommitPage
      <4> QED BY <1>1, <3>2, <4>1, Inserted DEF BarsAreImmutable
    <3> QED BY <2>1, <3>1, <3>2 DEF CommitPage
  <2>3. \A i \in Ingesters :
          StartRun(i) \/ FetchFails(i) \/ FetchPage(i) \/ FinishRun(i) \/ Interrupt(i) => UNCHANGED bars
    BY DEF StartRun, FetchFails, FetchPage, FinishRun, Interrupt
  <2>4. Tick \/ DeriveCutoff \/ BuildManifest \/ Restart \/ (\E m \in manifests : Bars(m)) => UNCHANGED bars
    BY DEF Tick, DeriveCutoff, BuildManifest, Restart, Bars
  <2>5. UNCHANGED datasetVars => UNCHANGED bars
    BY DEF datasetVars
  <2> QED BY <1>1, <2>1, <2>2, <2>3, <2>4, <2>5 DEF DatasetNext
<1>2. DatasetInv /\ [DatasetNext]_datasetVars => BarsAreImmutable
  BY <1>1
<1>3. DatasetInit => DatasetInv
  BY DatasetStarts
<1>4. DatasetInv /\ [DatasetNext]_datasetVars => DatasetInv'
  BY DatasetStep
<1> QED BY <1>2, <1>3, <1>4, PTL DEF DatasetSpec

-----------------------------------------------------------------------------
\* A time has a complete snapshot.
Observed(t) == \E s \in snapshots : s.time = t /\ s.coverage = "complete"

RangeRuns ==
    [at : {"idle", "build", "checkpoint", "finalize"}, start : Nat, end : Nat, cursor : Nat,
     rows : SUBSET Intervals, dry : BOOLEAN]

\* A run that is building has a time to build, and the rows of the manifest
\* that are valid at the times it has left.  One that stored a snapshot found
\* a complete one at its cursor; one that is finished is at its end.
RunIsOnItsWay(w) ==
    LET s == rangers[w] IN
    /\ s.at \in {"build", "checkpoint"}
       => /\ s.cursor < s.end /\ s.rows \subseteq Sealed
          /\ \A i \in Sealed : i.from < s.end /\ i.to > s.cursor => i \in s.rows
    /\ s.at = "checkpoint" => ~s.dry /\ Observed(s.cursor)
    /\ s.at = "finalize" => s.cursor >= s.end

\* From a time at or after the start of every run that moved the checkpoint,
\* the times up to the checkpoint are observed, and so are those that a run
\* which began no later has behind it.
BehindIsObserved(from) ==
    (\A o \in origins : o <= from)
    => /\ \A t \in from .. progress.last : Observed(t)
       /\ \A w \in RangeWorkers :
            /\ rangers[w].at # "idle" /\ ~rangers[w].dry /\ rangers[w].start <= from
            => \A t \in from .. rangers[w].cursor - 1 : Observed(t)

RangeInv ==
    /\ meta \subseteq Intervals /\ attempts \in 0 .. MaxAttempts /\ origins \subseteq Nat
    /\ progress.last \in Int /\ progress.last >= -1
    /\ progress \in [last : Int, status : {"none", "running", "complete"}]
    /\ rangers \in [RangeWorkers -> RangeRuns]
    /\ \A s \in snapshots : s.time \in Nat /\ (s.time \notin BadTimes => s.coverage = "complete")
    /\ \A s, t \in snapshots : s.time = t.time => s = t
    /\ \A w \in RangeWorkers : RunIsOnItsWay(w)
    /\ \A from \in Nat : BehindIsObserved(from)

LEMMA RangeStarts == ASSUME RangeAssumption PROVE RangeInit => RangeInv
<1> SUFFICES ASSUME RangeInit PROVE RangeInv
  OBVIOUS
<1> USE DEF RangeInit, IdleRun, NoProgress
<1>1. rangers \in [RangeWorkers -> RangeRuns] /\ meta \subseteq Intervals
  BY DEF RangeRuns, RangeAssumption
<1>2. \A w \in RangeWorkers : RunIsOnItsWay(w) /\ rangers[w].at = "idle"
  BY DEF RunIsOnItsWay
<1>3. \A from \in Nat : BehindIsObserved(from)
  BY <1>2 DEF BehindIsObserved
<1> QED BY <1>1, <1>2, <1>3 DEF RangeInv, RangeAssumption

\* The invariant keeps under a step of a worker that stores nothing and leaves
\* the checkpoint, if the worker's new run is on its way and has nothing
\* behind it that is not observed.
LEMMA OneRunMoves ==
    ASSUME RangeAssumption, RangeInv, NEW w \in RangeWorkers, NEW s \in RangeRuns,
           rangers' = [rangers EXCEPT ![w] = s], UNCHANGED <<meta, origins>>,
           \A x \in snapshots : x \in snapshots',
           progress' \in [last : Int, status : {"none", "running", "complete"}],
           progress'.last = progress.last,
           attempts' \in 0 .. MaxAttempts,
           \A x \in snapshots' : x.time \in Nat /\ (x.time \notin BadTimes => x.coverage = "complete"),
           \A x, y \in snapshots' : x.time = y.time => x = y,
           RunIsOnItsWay(w)',
           s.at # "idle" /\ ~s.dry
           => \A from \in Nat : (\A o \in origins : o <= from) /\ s.start <= from
                                => \A t \in from .. s.cursor - 1 : Observed(t)'
    PROVE  RangeInv'
<1>1. \A t : Observed(t) => Observed(t)'
  BY DEF Observed
<1>2. rangers' \in [RangeWorkers -> RangeRuns] /\ rangers'[w] = s
      /\ \A v \in RangeWorkers : v # w => rangers'[v] = rangers[v]
  BY DEF RangeInv
<1>3. \A v \in RangeWorkers : RunIsOnItsWay(v)'
  <2> SUFFICES ASSUME NEW v \in RangeWorkers, v # w PROVE RunIsOnItsWay(v)'
    OBVIOUS
  <2>1. RunIsOnItsWay(v) /\ rangers'[v] = rangers[v]
    BY <1>2 DEF RangeInv
  <2> QED BY <1>1, <2>1 DEF RunIsOnItsWay
<1>4. \A from \in Nat : BehindIsObserved(from)'
  <2> SUFFICES ASSUME NEW from \in Nat, \A o \in origins : o <= from
               PROVE  /\ \A t \in from .. progress'.last : Observed(t)'
                      /\ \A v \in RangeWorkers :
                           /\ rangers'[v].at # "idle" /\ ~rangers'[v].dry /\ rangers'[v].start <= from
                           => \A t \in from .. rangers'[v].cursor - 1 : Observed(t)'
    BY DEF BehindIsObserved
  <2>1. BehindIsObserved(from)
    BY DEF RangeInv
  <2>2. \A t \in from .. progress'.last : Observed(t)'
    BY <1>1, <2>1 DEF BehindIsObserved
  <2>3. ASSUME NEW v \in RangeWorkers, rangers'[v].at # "idle", ~rangers'[v].dry, rangers'[v].start <= from
        PROVE  \A t \in from .. rangers'[v].cursor - 1 : Observed(t)'
    BY <1>1, <1>2, <2>1, <2>3 DEF BehindIsObserved
  <2> QED BY <2>2, <2>3
<1> QED BY <1>2, <1>3, <1>4 DEF RangeInv

\* A run starts behind the checkpoint, or where it begins.
LEMMA StartKeeps ==
    ASSUME RangeAssumption, RangeInv, NEW w \in RangeWorkers, StartRange(w)
    PROVE  RangeInv'
<1>1. PICK r \in Spans, dry \in BOOLEAN :
        LET c == ResumeFrom(r.start)
            run == [IdleRun EXCEPT !.start = r.start, !.end = r.end, !.cursor = c, !.dry = dry]
        IN  rangers' = [rangers EXCEPT ![w] =
              IF c >= r.end THEN [run EXCEPT !.at = "finalize"]
              ELSE IF ManifestMatches THEN [run EXCEPT !.at = "build", !.rows = LoadRange(c, r.end)]
              ELSE IdleRun]
  BY DEF StartRange
<1> DEFINE c == ResumeFrom(r.start)
           run == [IdleRun EXCEPT !.start = r.start, !.end = r.end, !.cursor = c, !.dry = dry]
           s == IF c >= r.end THEN [run EXCEPT !.at = "finalize"]
                ELSE IF ManifestMatches THEN [run EXCEPT !.at = "build", !.rows = LoadRange(c, r.end)]
                ELSE IdleRun
<1>2. rangers' = [rangers EXCEPT ![w] = s]
  BY <1>1
<1>3. r.start \in Nat /\ r.end \in Nat /\ c \in Nat
  BY DEF RangeAssumption, RangeInv, ResumeFrom
<1>4. LoadRange(c, r.end) \in SUBSET Intervals
  BY DEF RangeInv, LoadRange
<1>5. s \in RangeRuns /\ run.start = r.start /\ run.end = r.end /\ run.cursor = c /\ run.dry = dry
  <2>1. IdleRun \in RangeRuns
    BY DEF IdleRun, RangeRuns
  <2>2. run \in RangeRuns
    BY <1>3, <2>1 DEF RangeRuns
  <2>3. run.start = r.start /\ run.end = r.end /\ run.cursor = c /\ run.dry = dry
    BY <1>3, <2>1 DEF RangeRuns
  <2> HIDE DEF run
  <2>4. /\ [run EXCEPT !.at = "finalize"] \in RangeRuns
        /\ [run EXCEPT !.at = "build", !.rows = LoadRange(c, r.end)] \in RangeRuns
    BY <1>4, <2>2 DEF RangeRuns
  <2> QED BY <2>1, <2>3, <2>4
<1>6. RunIsOnItsWay(w)'
  <2>1. rangers'[w] = s
    BY <1>2 DEF RangeInv
  <2>2. CASE c >= r.end
    BY <2>1, <2>2 DEF RunIsOnItsWay
  <2>3. CASE c < r.end /\ ManifestMatches
    <3>1. s = [run EXCEPT !.at = "build", !.rows = LoadRange(c, r.end)]
      BY <1>3, <2>3
    <3>2. LoadRange(c, r.end) = {i \in Sealed : i.from < r.end /\ i.to > c}
      BY <2>3 DEF LoadRange, ManifestMatches
    <3> QED BY <2>1, <2>3, <3>1, <3>2 DEF RunIsOnItsWay
  <2>4. CASE c < r.end /\ ~ManifestMatches
    BY <1>3, <2>1, <2>4 DEF RunIsOnItsWay, IdleRun
  <2> QED BY <1>3, <2>2, <2>3, <2>4
<1>7. s.at # "idle" /\ ~s.dry
      => \A from \in Nat : (\A o \in origins : o <= from) /\ s.start <= from
                           => \A t \in from .. s.cursor - 1 : Observed(t)'
  <2> SUFFICES ASSUME s.at # "idle", NEW from \in Nat, \A o \in origins : o <= from, r.start <= from
               PROVE  \A t \in from .. c - 1 : Observed(t)'
    BY DEF IdleRun
  <2>1. \A t \in from .. progress.last : Observed(t)
    BY DEF RangeInv, BehindIsObserved
  <2>2. c = progress.last + 1 \/ c = r.start
    BY DEF ResumeFrom
  <2>3. snapshots' = snapshots
    BY DEF StartRange
  <2> QED BY <1>3, <2>1, <2>2, <2>3 DEF Observed, RangeInv
<1>8. UNCHANGED <<meta, snapshots, progress, origins>> /\ attempts' \in 0 .. MaxAttempts
  BY DEF StartRange, RangeInv, RangeAssumption
<1> HIDE DEF s
<1>9. /\ \A x \in snapshots' : x.time \in Nat /\ (x.time \notin BadTimes => x.coverage = "complete")
      /\ \A x, y \in snapshots' : x.time = y.time => x = y
      /\ progress' \in [last : Int, status : {"none", "running", "complete"}]
  BY <1>8 DEF RangeInv
<1> QED BY <1>2, <1>5, <1>6, <1>7, <1>8, <1>9, OneRunMoves

\* An interrupted run leaves nothing behind.
LEMMA InterruptKeeps ==
    ASSUME RangeAssumption, RangeInv, NEW w \in RangeWorkers, InterruptRange(w) \/ FinalizeRange(w)
    PROVE  RangeInv'
<1>1. /\ rangers' = [rangers EXCEPT ![w] = IdleRun] /\ IdleRun \in RangeRuns
      /\ UNCHANGED <<meta, snapshots, attempts, origins>>
  BY DEF InterruptRange, FinalizeRange, RangeRuns, IdleRun
<1>2. /\ progress' \in [last : Int, status : {"none", "running", "complete"}]
      /\ progress'.last = progress.last
  BY DEF InterruptRange, FinalizeRange, RangeInv
<1>3. RunIsOnItsWay(w)' /\ IdleRun.at = "idle"
  BY <1>1 DEF RangeInv, RunIsOnItsWay, IdleRun
<1> QED BY <1>1, <1>2, <1>3, OneRunMoves DEF RangeInv

\* A run whose cursor and stage are set.
LEMMA RunEdited ==
    ASSUME NEW s \in RangeRuns, NEW c \in Nat, NEW a \in {"build", "checkpoint", "finalize"}
    PROVE  [s EXCEPT !.cursor = c, !.at = a] \in RangeRuns
  BY DEF RangeRuns

\* What is stored for a time is observed, if its bars are complete.
LEMMA BuildKeeps ==
    ASSUME RangeAssumption, RangeInv, NEW w \in RangeWorkers, BuildSnapshot(w)
    PROVE  RangeInv'
<1> DEFINE s == rangers[w]
           t == s.cursor
           unfit == t \in BadTimes
           snapshot == [time |-> t, members |-> symbolsAsOf(s.rows, t), regime |-> RegimeAt(t),
                        coverage |-> IF unfit THEN "coverage_failed" ELSE "complete"]
           next == IF unfit THEN IdleRun
                   ELSE IF s.dry THEN [s EXCEPT !.cursor = t + 1, !.at = Remaining(s)]
                   ELSE [s EXCEPT !.at = "checkpoint"]
<1>1. /\ s.at = "build" /\ s \in RangeRuns /\ s.start \in Nat /\ t \in Nat /\ s.end \in Nat /\ s.dry \in BOOLEAN
      /\ RunIsOnItsWay(w)
  BY DEF BuildSnapshot, RangeInv, RangeRuns
<1>2. /\ rangers' = [rangers EXCEPT ![w] = next]
      /\ snapshots' = IF s.dry THEN snapshots ELSE persistUniverseBuild(t, snapshot)
      /\ UNCHANGED <<meta, progress, attempts, origins>>
  BY DEF BuildSnapshot
<1>3. Remaining(s) \in {"build", "finalize"} /\ (Remaining(s) = "build" => t + 1 < s.end)
      /\ (Remaining(s) = "finalize" => t + 1 >= s.end)
  BY <1>1 DEF Remaining
<1>4. next \in RangeRuns
  <2>1. IdleRun \in RangeRuns
    BY DEF IdleRun, RangeRuns
  <2>2. CASE ~unfit /\ s.dry
    <3> DEFINE u == t + 1
               a == Remaining(s)
    <3>0. u \in Nat /\ a \in {"build", "checkpoint", "finalize"}
      BY <1>1, <1>3
    <3> HIDE DEF u, a
    <3>1. [s EXCEPT !.cursor = u, !.at = a] \in RangeRuns
      BY <1>1, <3>0, RunEdited
    <3> QED BY <2>2, <3>1 DEF u, a
  <2>3. CASE ~unfit /\ ~s.dry
    <3>1. [s EXCEPT !.at = "checkpoint"] = [s EXCEPT !.cursor = t, !.at = "checkpoint"]
      BY <1>1 DEF RangeRuns
    <3>2. [s EXCEPT !.cursor = t, !.at = "checkpoint"] \in RangeRuns
      BY <1>1, RunEdited
    <3> QED BY <2>3, <3>1, <3>2
  <2> QED BY <2>1, <2>2, <2>3
<1>5. /\ \A x \in snapshots : x \in snapshots'
      /\ \A x \in snapshots' : x.time \in Nat /\ (x.time \notin BadTimes => x.coverage = "complete")
      /\ \A x, y \in snapshots' : x.time = y.time => x = y
  <2>1. snapshot.time = t /\ (t \notin BadTimes => snapshot.coverage = "complete")
    OBVIOUS
  <2> HIDE DEF snapshot
  <2> QED BY <1>1, <1>2, <2>1 DEF RangeInv, persistUniverseBuild, Existing
<1>6. ~unfit /\ ~s.dry => \E x \in snapshots' : x.time = t /\ x.coverage = "complete"
  <2> SUFFICES ASSUME ~unfit, ~s.dry PROVE \E x \in snapshots' : x.time = t /\ x.coverage = "complete"
    OBVIOUS
  <2>1. snapshot.time = t /\ snapshot.coverage = "complete"
    OBVIOUS
  <2>2. snapshots' = persistUniverseBuild(t, snapshot)
    BY <1>2
  <2> HIDE DEF snapshot
  <2>3. \E x \in snapshots' : x.time = t
    BY <2>1, <2>2 DEF persistUniverseBuild, Existing
  <2> QED BY <1>5, <2>3
<1>7. RunIsOnItsWay(w)'
  <2>1. rangers'[w] = next
    BY <1>2 DEF RangeInv
  <2>2. CASE unfit
    BY <2>1, <2>2 DEF RunIsOnItsWay, IdleRun
  <2>3. CASE ~unfit /\ s.dry
    <3>1. next = [s EXCEPT !.cursor = t + 1, !.at = Remaining(s)]
      BY <2>3
    <3>2. /\ next.rows = s.rows /\ next.end = s.end /\ next.cursor = t + 1 /\ next.at = Remaining(s)
          /\ next.at # "checkpoint"
      BY <1>1, <1>3, <3>1 DEF RangeRuns
    <3>3. s.rows \subseteq Sealed /\ \A i \in Sealed : i.from < s.end /\ i.to > t => i \in s.rows
      BY <1>1 DEF RunIsOnItsWay
    <3>4. \A i \in Sealed : i.to \in Nat
      BY DEF RangeAssumption
    <3> HIDE DEF next
    <3> QED BY <1>1, <1>3, <2>1, <3>2, <3>3, <3>4 DEF RunIsOnItsWay
  <2>4. CASE ~unfit /\ ~s.dry
    <3>1. next = [s EXCEPT !.at = "checkpoint"]
      BY <2>4
    <3>2. /\ next.rows = s.rows /\ next.end = s.end /\ next.cursor = t /\ next.at = "checkpoint"
          /\ next.dry = s.dry
      BY <1>1, <3>1 DEF RangeRuns
    <3> HIDE DEF next
    <3> QED BY <1>1, <1>6, <2>1, <2>4, <3>2 DEF RunIsOnItsWay, Observed
  <2> QED BY <1>1, <2>2, <2>3, <2>4
<1>8. next.at # "idle" /\ ~next.dry
      => \A from \in Nat : (\A o \in origins : o <= from) /\ next.start <= from
                           => \A u \in from .. next.cursor - 1 : Observed(u)'
  <2> SUFFICES ASSUME next.at # "idle", ~next.dry, NEW from \in Nat, \A o \in origins : o <= from,
                      next.start <= from
               PROVE  \A u \in from .. next.cursor - 1 : Observed(u)'
    OBVIOUS
  <2>1. ~unfit /\ ~s.dry /\ next = [s EXCEPT !.at = "checkpoint"]
    BY <1>1 DEF IdleRun, RangeRuns
  <2>2. next.start = s.start /\ next.cursor = t
    BY <1>1, <2>1 DEF RangeRuns
  <2>3. \A u \in from .. t - 1 : Observed(u)
    BY <1>1, <2>1, <2>2 DEF RangeInv, BehindIsObserved
  <2> QED BY <1>5, <2>2, <2>3 DEF Observed
<1> HIDE DEF next, snapshot
<1>9. /\ progress' \in [last : Int, status : {"none", "running", "complete"}]
      /\ progress'.last = progress.last /\ attempts' \in 0 .. MaxAttempts
  BY <1>2 DEF RangeInv
<1> QED BY <1>2, <1>4, <1>5, <1>7, <1>8, <1>9, OneRunMoves

\* The larger of two numbers.
LEMMA LargerOf ==
    ASSUME NEW x \in Int, NEW y \in Int
    PROVE  Max({x, y}) = IF x >= y THEN x ELSE y
<1> DEFINE S == {x, y}
           m == IF x >= y THEN x ELSE y
<1>1. m \in S /\ \A k \in S : m >= k
  OBVIOUS
<1>2. Max(S) \in S /\ \A k \in S : Max(S) >= k
  BY <1>1 DEF Max
<1> QED BY <1>1, <1>2

\* The checkpoint moves to the cursor of a run, behind which every time since
\* the run's start is observed.
LEMMA AdvanceKeeps ==
    ASSUME RangeAssumption, RangeInv, NEW w \in RangeWorkers, AdvanceProgress(w)
    PROVE  RangeInv'
<1> DEFINE s == rangers[w]
           t == s.cursor
           next == [s EXCEPT !.cursor = t + 1, !.at = Remaining(s)]
<1>1. /\ s.at = "checkpoint" /\ s \in RangeRuns /\ s.start \in Nat /\ t \in Nat /\ s.end \in Nat
      /\ RunIsOnItsWay(w) /\ ~s.dry /\ Observed(t)
  BY DEF AdvanceProgress, RangeInv, RangeRuns, RunIsOnItsWay
<1>2. /\ rangers' = [rangers EXCEPT ![w] = next]
      /\ origins' = origins \cup {s.start} /\ UNCHANGED <<meta, snapshots, attempts>>
      /\ progress' = [last |-> Max({progress.last, t}), status |-> "running"]
  BY DEF AdvanceProgress, RangeInv, RangeRuns
<1>3. progress'.last \in Int /\ progress'.last >= -1 /\ progress'.last \in {progress.last, t}
  BY <1>1, <1>2, LargerOf DEF RangeInv
<1>4. Remaining(s) \in {"build", "finalize"} /\ (Remaining(s) = "build" => t + 1 < s.end)
      /\ (Remaining(s) = "finalize" => t + 1 >= s.end)
  BY <1>1 DEF Remaining
<1>5. /\ next \in RangeRuns /\ next.rows = s.rows /\ next.end = s.end /\ next.cursor = t + 1
      /\ next.at = Remaining(s) /\ next.start = s.start /\ next.dry = s.dry
  <2> DEFINE u == t + 1
             a == Remaining(s)
  <2>1. u \in Nat /\ a \in {"build", "checkpoint", "finalize"} /\ next = [s EXCEPT !.cursor = u, !.at = a]
    BY <1>1, <1>4
  <2> HIDE DEF u, a
  <2>2. LET n == [s EXCEPT !.cursor = u, !.at = a] IN
        /\ n \in RangeRuns /\ n.rows = s.rows /\ n.end = s.end /\ n.cursor = u
        /\ n.at = a /\ n.start = s.start /\ n.dry = s.dry
    <3>1. s \in RangeRuns
      BY <1>1
    <3> HIDE DEF s
    <3>2. u \in Nat
      BY <2>1
    <3>3. a \in {"build", "checkpoint", "finalize"}
      BY <2>1
    <3> DEFINE n == [s EXCEPT !.cursor = u, !.at = a]
    <3>4. n \in RangeRuns
      BY <3>1, <3>2, <3>3, RunEdited
    <3>5. n.rows = s.rows /\ n.end = s.end /\ n.cursor = u /\ n.at = a /\ n.start = s.start
      BY <3>1, <3>2, <3>3 DEF RangeRuns
    <3>6. n.dry = s.dry
      BY <3>1, <3>2, <3>3 DEF RangeRuns
    <3> QED BY <3>4, <3>5, <3>6
  <2> HIDE DEF next
  <2> QED BY <2>1, <2>2 DEF u, a
<1> HIDE DEF next
<1>6. rangers' \in [RangeWorkers -> RangeRuns] /\ rangers'[w] = next
      /\ \A v \in RangeWorkers : v # w => rangers'[v] = rangers[v]
  BY <1>2, <1>5 DEF RangeInv
<1>7. \A u : Observed(u)' <=> Observed(u)
  BY <1>2 DEF Observed
<1>8. \A v \in RangeWorkers : RunIsOnItsWay(v)'
  <2>1. ASSUME NEW v \in RangeWorkers, v # w PROVE RunIsOnItsWay(v)'
    <3>1. RunIsOnItsWay(v) /\ rangers'[v] = rangers[v]
      BY <1>6, <2>1 DEF RangeInv
    <3> QED BY <1>7, <3>1 DEF RunIsOnItsWay
  <2>2. RunIsOnItsWay(w)'
    <3>1. s.rows \subseteq Sealed /\ \A i \in Sealed : i.from < s.end /\ i.to > t => i \in s.rows
      BY <1>1 DEF RunIsOnItsWay
    <3>2. \A i \in Sealed : i.to \in Nat
      BY DEF RangeAssumption
    <3> QED BY <1>1, <1>4, <1>5, <1>6, <3>1, <3>2 DEF RunIsOnItsWay
  <2> QED BY <2>1, <2>2
<1>9. \A from \in Nat : BehindIsObserved(from)'
  <2> SUFFICES ASSUME NEW from \in Nat, \A o \in origins' : o <= from
               PROVE  /\ \A u \in from .. progress'.last : Observed(u)'
                      /\ \A v \in RangeWorkers :
                           /\ rangers'[v].at # "idle" /\ ~rangers'[v].dry /\ rangers'[v].start <= from
                           => \A u \in from .. rangers'[v].cursor - 1 : Observed(u)'
    BY DEF BehindIsObserved
  <2>1. s.start <= from /\ \A o \in origins : o <= from
    BY <1>2
  <2>2. BehindIsObserved(from)
    BY DEF RangeInv
  <2>3. \A u \in from .. t - 1 : Observed(u)
    BY <1>1, <2>1, <2>2 DEF BehindIsObserved
  <2>4. \A u \in from .. t : Observed(u)
    <3> SUFFICES ASSUME NEW u \in from .. t PROVE Observed(u)
      OBVIOUS
    <3>1. CASE u = t
      BY <1>1, <3>1
    <3>2. CASE u # t
      BY <1>1, <2>3, <3>2
    <3> QED BY <3>1, <3>2
  <2>5. \A u \in from .. progress.last : Observed(u)
    BY <2>1, <2>2 DEF BehindIsObserved
  <2>6. \A u \in from .. progress'.last : Observed(u)'
    BY <1>3, <1>7, <2>4, <2>5
  <2>7. ASSUME NEW v \in RangeWorkers, rangers'[v].at # "idle", ~rangers'[v].dry, rangers'[v].start <= from
        PROVE  \A u \in from .. rangers'[v].cursor - 1 : Observed(u)'
    <3>1. CASE v = w
      BY <1>1, <1>5, <1>6, <1>7, <2>4, <3>1
    <3>2. CASE v # w
      BY <1>6, <1>7, <2>1, <2>2, <2>7, <3>2 DEF BehindIsObserved
    <3> QED BY <3>1, <3>2
  <2> QED BY <2>6, <2>7
<1>10. origins' \subseteq Nat /\ progress' \in [last : Int, status : {"none", "running", "complete"}]
  BY <1>1, <1>2, <1>3 DEF RangeInv
<1> QED BY <1>2, <1>3, <1>6, <1>8, <1>9, <1>10 DEF RangeInv

LEMMA RangeStep == ASSUME RangeAssumption PROVE RangeInv /\ [RangeNext]_rangeVars => RangeInv'
<1> SUFFICES ASSUME RangeInv, [RangeNext]_rangeVars PROVE RangeInv'
  OBVIOUS
<1>1. CASE UpsertAssetLifecycle
  <2>1. meta' \subseteq Intervals /\ UNCHANGED <<snapshots, progress, rangers, attempts, origins>>
    BY <1>1 DEF UpsertAssetLifecycle, RangeInv
  <2>2. \A t : Observed(t)' <=> Observed(t)
    BY <2>1 DEF Observed
  <2>3. ASSUME NEW w \in RangeWorkers PROVE RunIsOnItsWay(w)'
    <3>1. RunIsOnItsWay(w)
      BY DEF RangeInv
    <3> QED BY <2>1, <2>2, <3>1 DEF RunIsOnItsWay
  <2>4. ASSUME NEW from \in Nat PROVE BehindIsObserved(from)'
    <3>1. BehindIsObserved(from)
      BY DEF RangeInv
    <3> QED BY <2>1, <2>2, <3>1 DEF BehindIsObserved
  <2> QED BY <2>1, <2>3, <2>4 DEF RangeInv
<1>2. CASE UNCHANGED rangeVars
  BY <1>2 DEF rangeVars, RangeInv, RunIsOnItsWay, BehindIsObserved, Observed
<1>3. ASSUME NEW w \in RangeWorkers,
             StartRange(w) \/ BuildSnapshot(w) \/ AdvanceProgress(w) \/ FinalizeRange(w) \/ InterruptRange(w)
      PROVE  RangeInv'
  BY <1>3, StartKeeps, BuildKeeps, AdvanceKeeps, InterruptKeeps
<1> QED BY <1>1, <1>2, <1>3 DEF RangeNext

-----------------------------------------------------------------------------
\* The times of an interval that have a snapshot have a first and a last one.
LEMMA FirstAndLast ==
    ASSUME NEW a \in Nat, NEW b \in Nat, NEW T \in SUBSET (a .. b - 1), T # {}
    PROVE  /\ Min(T) \in T /\ \A x \in T : Min(T) <= x
           /\ Max(T) \in T /\ \A x \in T : Max(T) >= x
<1>1. IsFiniteSet(T) /\ T \subseteq Int
  <2>1. b - 1 \in Int /\ a \in Int
    OBVIOUS
  <2>2. IsFiniteSet(a .. b - 1)
    BY <2>1, FS_Interval
  <2>3. IsFiniteSet(T)
    BY <2>2, FS_Subset
  <2> QED BY <2>1, <2>3
<1>2. \E m \in T : \A x \in T : m >= x
  BY <1>1, LargestExists
<1> DEFINE U == {-x : x \in T}
<1>3. U \subseteq Int /\ U # {} /\ IsFiniteSet(U)
  <2> DEFINE f == [x \in T |-> -x]
  <2>1. U = {f[x] : x \in T}
    OBVIOUS
  <2>2. U \subseteq Int
    BY <1>1
  <2>3. U # {}
    OBVIOUS
  <2> HIDE DEF f, U
  <2>4. IsFiniteSet(U)
    BY <1>1, <2>1, FiniteImage
  <2> QED BY <2>2, <2>3, <2>4
<1>4. PICK m \in U : \A x \in U : m >= x
  BY <1>3, LargestExists
<1>5. -m \in T /\ \A x \in T : -m <= x
  BY <1>1, <1>4
<1> QED BY <1>2, <1>5 DEF Max, Min

\* If an interval has no gap, every time of it that is not close to its start
\* has a snapshot that is not far behind it.
LEMMA NoGapIsObserved ==
    ASSUME RangeAssumption, NEW a \in Nat, NEW b \in Nat, NEW T \in SUBSET (a .. b - 1),
           ~SnapshotGaps(a, b, T), NEW t \in a .. b - 1, t - a >= MaxUniverseGap
    PROVE  \E s \in T : s <= t /\ t - s <= MaxUniverseGap
<1> DEFINE lo == Min(T)
           hi == Max(T)
<1>1. T # {} /\ ~(lo - a > MaxUniverseGap) /\ ~(b - hi > MaxUniverseGap)
  BY DEF SnapshotGaps
<1>2. lo \in T /\ hi \in T /\ \A x \in T : lo <= x /\ x <= hi
  BY <1>1, FirstAndLast
<1>3. MaxUniverseGap \in Int /\ (\A x \in T : x \in Int) /\ t \in Int /\ t < b
  BY DEF RangeAssumption
<1> HIDE DEF lo, hi
<1>4. lo - a <= MaxUniverseGap /\ b - hi <= MaxUniverseGap
  BY <1>1, <1>2, <1>3
<1> DEFINE P == {x \in T : x <= t}
           Q == {x \in T : x > t}
<1>5. lo \in P
  BY <1>2, <1>3, <1>4
<1>6. PICK s \in P : \A x \in P : s >= x
  <2>1. P \in SUBSET (a .. b - 1) /\ P # {}
    BY <1>5
  <2> QED BY <2>1, FirstAndLast
<1>7. CASE Q = {}
  <2>1. hi \in P
    BY <1>2, <1>3, <1>7
  <2> QED BY <1>2, <1>3, <1>4, <1>6, <2>1
<1>8. CASE Q # {}
  <2>1. PICK u \in Q : \A x \in Q : u <= x
    BY <1>8, FirstAndLast
  <2>2. \A v \in T : v <= s \/ v >= u
    BY <1>3, <1>6, <2>1
  <2>3. ~(u > s /\ u - s > MaxUniverseGap)
    BY <2>2 DEF SnapshotGaps
  <2> QED BY <1>3, <1>6, <2>1, <2>3
<1> QED BY <1>7, <1>8

\* At the times a run has left, its rows are those of the manifest that the
\* repository finds.
LEMMA RowsAgree ==
    ASSUME RangeAssumption, RangeInv, ManifestMatches, NEW w \in RangeWorkers, rangers[w].at = "build",
           NEW t \in rangers[w].cursor .. rangers[w].end - 1
    PROVE  symbolsAsOf(rangers[w].rows, t) = SymbolsAsOf(t)
<1> DEFINE s == rangers[w]
<1>1. /\ s.rows \subseteq Sealed /\ s.end \in Nat /\ s.cursor \in Nat
      /\ \A i \in Sealed : i.from < s.end /\ i.to > s.cursor => i \in s.rows
  BY DEF RangeInv, RunIsOnItsWay, RangeRuns
<1>2. \A i \in Sealed : i.from \in Nat /\ i.to \in Nat
  BY DEF RangeAssumption
<1>3. {j \in s.rows : TradableBy(j, t)} = {j \in Sealed : TradableBy(j, t)}
  BY <1>1, <1>2 DEF TradableBy
<1>4. {j \in meta : TradableBy(j, t) /\ j.retrieved <= Cutoff} = {j \in Sealed : TradableBy(j, t)}
  BY DEF ManifestMatches
<1> QED BY <1>3, <1>4 DEF symbolsAsOf, SymbolsAsOf

\* Whatever is interrupted, fails or overlaps, and whatever metadata arrives: a
\* range that is finished is built, unless a run that began later moved the
\* checkpoint; the builder selects the symbols that the repository does; and
\* what the preflight passes was observed (BuildUniverseSnapshotRange,
\* universeRangeBuilder.symbolsAsOf, PreflightResearchReadiness).
THEOREM RangesObserved == ASSUME RangeAssumption PROVE RangeSpec => []RangesAreObserved
<1>1. RangeInit => RangeInv
  BY RangeStarts
<1>2. RangeInv /\ [RangeNext]_rangeVars => RangeInv'
  BY RangeStep
<1>3. RangeInv => RangesAreObserved
  <2> SUFFICES ASSUME RangeInv PROVE RangesAreObserved
    OBVIOUS
  <2>1. RangeTypeOK
    BY DEF RangeInv, RangeTypeOK, RunIsOnItsWay, RangeRuns
  <2>2. FinishedRangeIsBuilt
    <3> SUFFICES ASSUME NEW w \in RangeWorkers, rangers[w].at = "finalize", ~rangers[w].dry,
                        \A o \in origins : o <= rangers[w].start,
                        NEW t \in rangers[w].start .. rangers[w].end - 1
                 PROVE  \E s \in Existing(t) : s.coverage = "complete"
      BY DEF FinishedRangeIsBuilt
    <3>1. /\ rangers[w].start \in Nat /\ rangers[w].end \in Nat /\ rangers[w].cursor \in Nat
          /\ rangers[w].cursor >= rangers[w].end /\ BehindIsObserved(rangers[w].start)
      BY DEF RangeInv, RangeRuns, RunIsOnItsWay
    <3>2. Observed(t)
      BY <3>1 DEF BehindIsObserved
    <3> QED BY <3>2 DEF Observed, Existing
  <2>3. RangeAgreesWithRepository
    BY RowsAgree DEF RangeAgreesWithRepository
  <2>4. ReadyIsObserved
    <3> SUFFICES ASSUME NEW r \in Spans, PreflightReady(r.start, r.end), NEW t \in r.start .. r.end - 1,
                        ~(t - r.start < MaxUniverseGap)
                 PROVE  \E s \in snapshots : /\ s.coverage = "complete" /\ s.time >= r.start
                                             /\ s.time <= t /\ t - s.time <= MaxUniverseGap
      BY DEF ReadyIsObserved
    <3> DEFINE used == {s \in snapshots : s.coverage = "complete" /\ s.time >= r.start /\ s.time < r.end}
               T == {s.time : s \in used}
    <3>1. r.start \in Nat /\ r.end \in Nat /\ MaxUniverseGap \in Nat
      BY DEF RangeAssumption
    <3>2. T \in SUBSET (r.start .. r.end - 1)
      BY <3>1 DEF RangeInv
    <3>3. ~SnapshotGaps(r.start, r.end, T)
      BY DEF PreflightReady
    <3>4. t - r.start >= MaxUniverseGap
      BY <3>1
    <3> HIDE DEF T
    <3>5. PICK u \in T : u <= t /\ t - u <= MaxUniverseGap
      BY <3>1, <3>2, <3>3, <3>4, NoGapIsObserved
    <3> QED BY <3>5 DEF T
  <2> QED BY <2>1, <2>2, <2>3, <2>4 DEF RangesAreObserved
<1> QED BY <1>1, <1>2, <1>3, PTL DEF RangeSpec

-----------------------------------------------------------------------------
\* Where the goroutine of a job of either kind may be, and where it holds a slot.
LegacyStages == {None, "prep", "lanes", "windows", "register", "activate", "write", "finish", "ended"}
ComparisonStages == {None, "wait", "prep", "compare", "evidence", "finish", "ended"}
InSlot == {"prep", "compare", "evidence", "finish"}

\* The goroutine of a job is at a stage of its kind, and has ended once its row
\* has; a lane is at least where it reported to be, which nobody has reported
\* for it before the windows; an update on its way is of a runner of the stage;
\* and what the row or the goroutine says is stored is.
JobIsSound(i) ==
    /\ pc[i] \in (IF Kinds[i] = "stage05" THEN ComparisonStages ELSE LegacyStages)
    /\ job[i].status \in Terminal => pc[i] = "ended"
    /\ pc[i] \in {None, "wait", "prep", "lanes"} => \A l \in Lanes : reported[i][l] <= at[i][l]
    /\ pc[i] = "lanes" => \A l \in Lanes : /\ at[i][l] > EngineBars => out[i][l] = 0
                                           /\ out[i][l] = 70 => \A k \in Lanes : at[i][k] >= EngineBars
    /\ \A r \in Runners : out[i][r] # 0 => \/ pc[i] = "lanes" /\ r \in Lanes
                                           \/ pc[i] = "windows" /\ r \in 1 .. Windows
    /\ Kinds[i] = "stage05" /\ i \notin lost =>
         /\ pc[i] = "finish" => job[i].artifact
         /\ job[i].status = "completed" => job[i].artifact /\ job[i].summary
    /\ pc[i] = "activate" => i \in stored

JobsInv ==
    /\ JobsTypeOK
    /\ \A i \in JobIds : JobIsSound(i)
    /\ ActiveExperimentStored
    /\ SlotsAreHeld

LEMMA RowsAreTyped ==
    ASSUME JobsTypeOK, NEW i \in JobIds
    PROVE  /\ \A p \in 0 .. 100 : Progress(i, p) \in Row
           /\ Completed(i) \in Row
           /\ \A b \in BOOLEAN : Failed(i, b) \in Row
           /\ [job[i] EXCEPT !.artifact = TRUE] \in Row
           /\ [job[i] EXCEPT !.status = "pending"] \in Row
<1>1. job[i] \in Row
  BY DEF JobsTypeOK
<1>2. \A p \in 0 .. 100 : Progress(i, p) \in Row
  BY <1>1 DEF Progress, Row
<1>3. \A p \in 0 .. 100, t \in Terminal, b \in BOOLEAN :
        [job[i] EXCEPT !.status = t, !.progress = p, !.summary = b] \in Row
  BY <1>1 DEF Row
<1>a. "completed" \in Terminal /\ "failed" \in Terminal /\ 100 \in 0 .. 100 /\ TRUE \in BOOLEAN
  BY DEF Terminal
<1>b. Completed(i) \in Row
  BY <1>3, <1>a DEF Completed
<1>4. \A b \in BOOLEAN : Failed(i, b) \in Row
  <2>1. TAKE b \in BOOLEAN
  <2>2. (b \/ job[i].summary) \in BOOLEAN
    BY Zenon
  <2> QED
    BY <1>3, <1>a, <2>2 DEF Failed
<1>5. [job[i] EXCEPT !.artifact = TRUE] \in Row
  BY <1>1 DEF Row
<1>6. [job[i] EXCEPT !.status = "pending"] \in Row
  BY <1>1 DEF Row
<1> QED
  BY <1>2, <1>b, <1>4, <1>5, <1>6

\* What an update of the row may do: it takes effect, or it is lost.
LEMMA WriteKeeps ==
    ASSUME JobsTypeOK, NEW i \in JobIds, NEW row \in Row, Write(i, row)
    PROVE  /\ job' \in [JobIds -> Row] /\ lost' \subseteq JobIds /\ lost \subseteq lost'
           /\ \A j \in JobIds : j # i => job'[j] = job[j]
           /\ \/ job'[i] = row /\ lost' = lost
              \/ job'[i] = job[i] /\ i \in lost'
BY DEF Write, JobsTypeOK

\* A step of one job leaves the others as sound as they were.
LEMMA OthersStaySound ==
    ASSUME NEW j \in JobIds, JobIsSound(j), job'[j] = job[j], pc'[j] = pc[j],
           at'[j] = at[j], reported'[j] = reported[j], out'[j] = out[j],
           stored \subseteq stored', lost \subseteq lost'
    PROVE  JobIsSound(j)'
BY DEF JobIsSound, JobIds

\* The slots are as held as they were if the job goes on in or out of one.
LEMMA SlotsStayHeld ==
    ASSUME SlotsAreHeld, NEW i \in JobIds, \A j \in JobIds : j # i => pc'[j] = pc[j],
           slots' = slots,
           Kinds[i] = "stage05" => (pc[i] \in InSlot <=> pc'[i] \in InSlot)
    PROVE  SlotsAreHeld'
<1> DEFINE S == {j \in JobIds : Kinds[j] = "stage05" /\ pc[j] \in {"prep", "compare", "evidence", "finish"}}
<1>1. S = slots /\ Cardinality(S) <= Slots
  BY DEF SlotsAreHeld
<1>2. S' = S
  BY DEF InSlot, JobIds
<1> QED
  BY <1>1, <1>2 DEF SlotsAreHeld, JobIds

LEMMA SlotsAreReleased ==
    ASSUME JobsAssumption, JobsTypeOK, SlotsAreHeld, NEW i \in JobIds, \A j \in JobIds : j # i => pc'[j] = pc[j],
           Kinds[i] = "stage05" => pc[i] \in InSlot /\ pc'[i] \in InSlot \cup {"ended"},
           Release(i)
    PROVE  SlotsAreHeld' /\ slots' \subseteq JobIds
<1> DEFINE S == {j \in JobIds : Kinds[j] = "stage05" /\ pc[j] \in {"prep", "compare", "evidence", "finish"}}
<1>1. S = slots /\ Cardinality(S) <= Slots
  BY DEF SlotsAreHeld
<1>2. IsFiniteSet(JobIds) /\ IsFiniteSet(S)
  <2>1. IsFiniteSet(JobIds)
    BY FS_Interval DEF JobIds, JobsAssumption
  <2>2. S \subseteq JobIds
    OBVIOUS
  <2> QED
    BY <2>1, <2>2, FS_Subset
<1>3. S' = IF pc'[i] = "ended" THEN S \ {i} ELSE S
  BY <1>1 DEF InSlot, JobIds
<1>4. slots' = S'
  BY <1>1, <1>3 DEF Release
<1>5. Cardinality(S') <= Slots
  <2>1. S' \subseteq S
    BY <1>3
  <2>2. Cardinality(S') <= Cardinality(S) /\ Cardinality(S) \in Nat /\ Cardinality(S') \in Nat
    BY <1>2, <2>1, FS_Subset, FS_CardinalityType
  <2> QED
    BY <1>1, <2>2 DEF JobsAssumption
<1> QED
  BY <1>1, <1>3, <1>4, <1>5 DEF SlotsAreHeld, JobIds

\* The percent of a part of n in m: no more than all, and all for all of them only.
LEMMA PercentOfBand ==
    ASSUME NEW m \in Nat \ {0}, NEW n \in 0 .. m, NEW c \in {25, 35}
    PROVE  (c * n) \div m \in 0 .. c /\ ((c * n) \div m = c => n = m)
<1> DEFINE q == (c * n) \div m
<1>1. q \in Int /\ m * q <= c * n /\ c * n < m * q + m
  BY SMT
<1>2. c * n <= c * m /\ (n # m => c * n + c <= c * m)
  BY SMT
<1>3. q >= 0
  <2>1. CASE q <= -1
    <3>1. m * q <= -m
      BY <1>1, <2>1, SMT
    <3> QED
      BY <1>1, <3>1, SMT
  <2> QED
    BY <1>1, <2>1
<1>4. q <= c
  <2>1. CASE q >= c + 1
    <3>1. m * q >= m * c + m
      BY <1>1, <2>1, SMT
    <3> QED
      BY <1>1, <1>2, <3>1, SMT
  <2> QED
    BY <1>1, <2>1
<1>5. q = c => n = m
  BY <1>1, <1>2, SMT
<1> QED
  BY <1>1, <1>3, <1>4, <1>5

\* What a report does: the fraction of its lane, and perhaps an update that
\* says the end of the band only if both lanes have reported theirs.
LEMMA ReportKeeps ==
    ASSUME JobsAssumption, JobsTypeOK, NEW i \in JobIds, NEW r \in Runners, NEW lane \in Lanes,
           NEW fraction \in 0 .. EngineBars, Report(i, r, lane, fraction)
    PROVE  /\ reported' \in [JobIds -> [Lanes -> 0 .. EngineBars]]
           /\ reported'[i] = [reported[i] EXCEPT ![lane] = fraction]
           /\ out' \in [JobIds -> [Runners -> 0 .. 100]]
           /\ \A j \in JobIds : j # i => reported'[j] = reported[j] /\ out'[j] = out[j]
           /\ \A q \in Runners : q # r => out'[i][q] = out[i][q]
           /\ \/ out'[i][r] = out[i][r]
              \/ out'[i][r] = 70 => \A k \in Lanes : reported'[i][k] = EngineBars
<1> DEFINE fractions == [reported[i] EXCEPT ![lane] = fraction]
           slowest == Slowest(fractions)
           percent == 35 + (35 * slowest) \div EngineBars
<1>1. /\ reported \in [JobIds -> [Lanes -> 0 .. EngineBars]] /\ out \in [JobIds -> [Runners -> 0 .. 100]]
      /\ EngineBars \in Nat \ {0}
  BY DEF JobsTypeOK, JobsAssumption
<1>2. fractions \in [Lanes -> 0 .. EngineBars]
  BY <1>1
<1>3. /\ reported' = [reported EXCEPT ![i] = fractions]
      /\ \/ out' = [out EXCEPT ![i][r] = percent]
         \/ out' = out
  BY DEF Report
<1>4. /\ slowest \in 0 .. EngineBars
      /\ slowest = EngineBars => \A k \in Lanes : fractions[k] = EngineBars
  <2>1. Baseline \in Lanes /\ VolSizing \in Lanes /\ \A k \in Lanes : k = Baseline \/ k = VolSizing
    BY DEF Lanes
  <2>2. fractions[Baseline] \in 0 .. EngineBars /\ fractions[VolSizing] \in 0 .. EngineBars
    BY <1>2, <2>1
  <2> HIDE DEF fractions
  <2> QED
    BY <1>1, <2>1, <2>2 DEF Slowest
<1>5. percent \in 35 .. 70 /\ (percent = 70 => slowest = EngineBars)
  <2> HIDE DEF slowest
  <2>1. (35 * slowest) \div EngineBars \in 0 .. 35 /\ ((35 * slowest) \div EngineBars = 35 => slowest = EngineBars)
    BY <1>1, <1>4, PercentOfBand
  <2> QED
    BY <2>1
<1>6. /\ reported' \in [JobIds -> [Lanes -> 0 .. EngineBars]]
      /\ reported'[i] = fractions
      /\ \A j \in JobIds : j # i => reported'[j] = reported[j]
  <2> HIDE DEF fractions
  <2> QED
    BY <1>1, <1>2, <1>3
<1> HIDE DEF percent
<1>7. percent \in 0 .. 100
  BY <1>5
<1>8. /\ out' \in [JobIds -> [Runners -> 0 .. 100]]
      /\ \A j \in JobIds : j # i => out'[j] = out[j]
      /\ \A q \in Runners : q # r => out'[i][q] = out[i][q]
      /\ out'[i][r] = out[i][r] \/ out'[i][r] = percent
  <2>1. CASE out' = [out EXCEPT ![i][r] = percent]
    <3> DEFINE mine == [out[i] EXCEPT ![r] = percent]
    <3>1. out' = [out EXCEPT ![i] = mine]
      BY <2>1
    <3>2. /\ mine \in [Runners -> 0 .. 100] /\ mine[r] = percent
          /\ \A q \in Runners : q # r => mine[q] = out[i][q]
      BY <1>1, <1>7
    <3> HIDE DEF mine
    <3> QED
      BY <1>1, <3>1, <3>2
  <2>2. CASE out' = out
    BY <1>1, <2>2
  <2> QED
    BY <1>3, <2>1, <2>2
<1> QED
  BY <1>4, <1>5, <1>6, <1>8

\* The goroutine of a job goes on, with an update of the row or without, while
\* no runner has one on its way.
LEMMA GoroutineStep ==
    ASSUME JobsInv, NEW i \in JobIds, NEW row \in Row, Write(i, row),
           NEW q \in (IF Kinds[i] = "stage05" THEN ComparisonStages ELSE LegacyStages) \ {None},
           pc' = [pc EXCEPT ![i] = q], pc[i] # "ended",
           UNCHANGED <<at, reported, out, bad, restarts>>,
           stored \subseteq stored', stored' \subseteq JobIds,
           active' = active \/ (active' = i /\ i \in stored),
           SlotsAreHeld', slots' \subseteq JobIds,
           \A r \in Runners : out[i][r] = 0,
           q \in {"wait", "prep", "lanes"} => pc[i] \in {None, "wait", "prep"},
           row.status \in Terminal => q = "ended",
           Kinds[i] = "stage05" /\ i \notin lost' =>
               /\ q = "finish" => row.artifact
               /\ row.status = "completed" => row.artifact /\ row.summary,
           q = "activate" => i \in stored'
    PROVE  JobsInv'
<1>1. JobsTypeOK /\ JobIsSound(i) /\ ActiveExperimentStored
  BY DEF JobsInv
<1>2. /\ job' \in [JobIds -> Row] /\ lost' \subseteq JobIds /\ lost \subseteq lost'
      /\ \A j \in JobIds : j # i => job'[j] = job[j]
      /\ \/ job'[i] = row /\ lost' = lost
         \/ job'[i] = job[i] /\ i \in lost'
  BY <1>1, WriteKeeps
<1>3. /\ pc' \in [JobIds -> {None, "wait", "prep", "lanes", "windows", "register", "activate", "write",
                             "compare", "evidence", "finish", "ended"}]
      /\ pc'[i] = q /\ \A j \in JobIds : j # i => pc'[j] = pc[j]
  BY <1>1 DEF JobsTypeOK, ComparisonStages, LegacyStages
<1>4. JobsTypeOK'
  <2>1. active' \in 0 .. Len(Kinds)
    BY <1>1 DEF JobsTypeOK, JobIds
  <2> QED
    BY <1>1, <1>2, <1>3, <2>1 DEF JobsTypeOK, JobIds, Runners
<1>5. ActiveExperimentStored'
  BY <1>1 DEF ActiveExperimentStored
<1>6. JobIsSound(i)'
  <2>1. job'[i].status \in Terminal => pc'[i] = "ended"
    BY <1>1, <1>2, <1>3 DEF JobIsSound
  <2>2. pc'[i] \in (IF Kinds[i] = "stage05" THEN ComparisonStages ELSE LegacyStages)
    BY <1>3
  <2>3. /\ pc'[i] \in {None, "wait", "prep", "lanes"} => \A l \in Lanes : reported'[i][l] <= at'[i][l]
        /\ pc'[i] = "lanes" => \A l \in Lanes : out'[i][l] = 0
        /\ \A r \in Runners : out'[i][r] = 0
    BY <1>1, <1>3 DEF JobIsSound, Runners
  <2>4. Kinds[i] = "stage05" /\ i \notin lost' =>
          /\ pc'[i] = "finish" => job'[i].artifact
          /\ job'[i].status = "completed" => job'[i].artifact /\ job'[i].summary
    BY <1>2, <1>3
  <2>5. pc'[i] = "activate" => i \in stored'
    BY <1>3
  <2> QED
    BY <2>1, <2>2, <2>3, <2>4, <2>5 DEF JobIsSound, JobIds, Runners, Lanes
<1>7. \A j \in JobIds : JobIsSound(j)'
  <2>1. ASSUME NEW j \in JobIds, j # i
        PROVE  JobIsSound(j)'
    <3>1. JobIsSound(j)
      BY DEF JobsInv
    <3> QED
      BY <1>2, <1>3, <2>1, <3>1, OthersStaySound
  <2> QED
    BY <1>6, <2>1
<1> QED
  BY <1>4, <1>5, <1>7 DEF JobsInv, JobIds

\* A step of the lanes or of the windows, which leaves the row and the
\* goroutine as they are.
LEMMA RunnersStep ==
    ASSUME JobsInv, NEW i \in JobIds,
           UNCHANGED <<job, pc, slots, stored, active, restarts, lost>>,
           at' \in [JobIds -> [Runners -> 0 .. (EngineBars + 10)]],
           reported' \in [JobIds -> [Lanes -> 0 .. EngineBars]],
           bad' \in [JobIds -> SUBSET (1 .. Windows)],
           out' \in [JobIds -> [Runners -> 0 .. 100]],
           \A j \in JobIds : j # i => at'[j] = at[j] /\ reported'[j] = reported[j] /\ out'[j] = out[j],
           pc[i] = "lanes" =>
               \A l \in Lanes : /\ reported'[i][l] <= at'[i][l]
                                /\ at'[i][l] > EngineBars => out'[i][l] = 0
                                /\ out'[i][l] = 70 => \A k \in Lanes : at'[i][k] >= EngineBars,
           pc[i] \in {"lanes", "windows"},
           \A r \in Runners : out'[i][r] # 0 => \/ pc[i] = "lanes" /\ r \in Lanes
                                                \/ pc[i] = "windows" /\ r \in 1 .. Windows
    PROVE  JobsInv'
<1>1. JobsTypeOK /\ JobIsSound(i) /\ ActiveExperimentStored /\ SlotsAreHeld
  BY DEF JobsInv
<1>2. JobsTypeOK'
  BY <1>1 DEF JobsTypeOK, JobIds, Runners, Lanes
<1>3. ActiveExperimentStored'
  BY <1>1 DEF ActiveExperimentStored
<1>4. SlotsAreHeld'
  BY <1>1, SlotsStayHeld
<1>5. JobIsSound(i)'
  <2>1. pc'[i] \in {None, "wait", "prep", "lanes"} => \A l \in Lanes : reported'[i][l] <= at'[i][l]
    BY DEF None
  <2>2. pc'[i] = "lanes" => \A l \in Lanes : /\ at'[i][l] > EngineBars => out'[i][l] = 0
                                             /\ out'[i][l] = 70 => \A k \in Lanes : at'[i][k] >= EngineBars
    OBVIOUS
  <2>3. \A r \in Runners : out'[i][r] # 0 => \/ pc'[i] = "lanes" /\ r \in Lanes
                                             \/ pc'[i] = "windows" /\ r \in 1 .. Windows
    OBVIOUS
  <2>4. /\ pc'[i] \in (IF Kinds[i] = "stage05" THEN ComparisonStages ELSE LegacyStages)
        /\ job'[i].status \in Terminal => pc'[i] = "ended"
        /\ Kinds[i] = "stage05" /\ i \notin lost' =>
             /\ pc'[i] = "finish" => job'[i].artifact
             /\ job'[i].status = "completed" => job'[i].artifact /\ job'[i].summary
        /\ pc'[i] = "activate" => i \in stored'
    BY <1>1 DEF JobIsSound
  <2> QED
    BY <2>1, <2>2, <2>3, <2>4 DEF JobIsSound, Runners, Lanes
<1>6. \A j \in JobIds : JobIsSound(j)'
  <2>1. ASSUME NEW j \in JobIds, j # i
        PROVE  JobIsSound(j)'
    <3>1. JobIsSound(j)
      BY DEF JobsInv
    <3> QED
      BY <2>1, <3>1, OthersStaySound
  <2> QED
    BY <1>5, <2>1
<1> QED
  BY <1>2, <1>3, <1>4, <1>6 DEF JobsInv, JobIds

\* One runner of a job moves: the others stay where they are.
LEMMA RunnerMoves ==
    ASSUME JobsTypeOK, NEW i \in JobIds, NEW r \in Runners, NEW x \in 0 .. (EngineBars + 10),
           at' = [at EXCEPT ![i][r] = x]
    PROVE  /\ at' \in [JobIds -> [Runners -> 0 .. (EngineBars + 10)]]
           /\ \A j \in JobIds : j # i => at'[j] = at[j]
           /\ at'[i][r] = x /\ \A q \in Runners : q # r => at'[i][q] = at[i][q]
<1> DEFINE mine == [at[i] EXCEPT ![r] = x]
<1>1. at \in [JobIds -> [Runners -> 0 .. (EngineBars + 10)]]
  BY DEF JobsTypeOK
<1>2. at' = [at EXCEPT ![i] = mine]
  BY <1>1
<1>3. /\ mine \in [Runners -> 0 .. (EngineBars + 10)] /\ mine[r] = x
      /\ \A q \in Runners : q # r => mine[q] = at[i][q]
  BY <1>1
<1> HIDE DEF mine
<1> QED
  BY <1>1, <1>2, <1>3

LEMMA LaneBarIsSound ==
    ASSUME JobsAssumption, JobsInv, NEW i \in JobIds, NEW l \in Lanes, LaneBar(i, l)
    PROVE  JobsInv'
<1>1. JobsTypeOK /\ JobIsSound(i)
  BY DEF JobsInv
<1>2. PICK f : /\ f = at[i][l] + 1
               /\ pc[i] = "lanes" /\ at[i][l] < EngineBars /\ out[i][l] = 0
               /\ at' = [at EXCEPT ![i][l] = f]
               /\ Report(i, l, l, f)
               /\ UNCHANGED <<job, pc, slots, bad, stored, active, restarts, lost>>
  BY DEF LaneBar, Report
<1>3. l \in Runners /\ EngineBars \in Nat \ {0} /\ at[i][l] \in Nat /\ Lanes \subseteq Runners
  BY <1>1 DEF Runners, JobsAssumption, JobsTypeOK
<1>4. f \in 0 .. EngineBars /\ f \in 0 .. (EngineBars + 10)
  BY <1>2, <1>3
<1>5. /\ at' \in [JobIds -> [Runners -> 0 .. (EngineBars + 10)]]
      /\ \A j \in JobIds : j # i => at'[j] = at[j]
      /\ at'[i][l] = f /\ \A q \in Runners : q # l => at'[i][q] = at[i][q]
  <2>1. at' = [at EXCEPT ![i][l] = f] /\ f \in 0 .. (EngineBars + 10) /\ l \in Runners
    BY <1>2, <1>3, <1>4
  <2> QED
    BY <1>1, <2>1, RunnerMoves
<1>6. /\ reported' \in [JobIds -> [Lanes -> 0 .. EngineBars]]
      /\ reported'[i] = [reported[i] EXCEPT ![l] = f]
      /\ out' \in [JobIds -> [Runners -> 0 .. 100]]
      /\ \A j \in JobIds : j # i => reported'[j] = reported[j] /\ out'[j] = out[j]
      /\ \A q \in Runners : q # l => out'[i][q] = out[i][q]
      /\ \/ out'[i][l] = out[i][l]
         \/ out'[i][l] = 70 => \A k \in Lanes : reported'[i][k] = EngineBars
  BY <1>1, <1>2, <1>3, <1>4, ReportKeeps
<1>7. \A k \in Lanes : reported'[i][k] <= at'[i][k] /\ at'[i][k] >= at[i][k] /\ at[i][k] \in Nat
  BY <1>1, <1>2, <1>3, <1>5, <1>6 DEF JobIsSound, JobsTypeOK
<1>8. ASSUME NEW k \in Lanes
      PROVE  /\ at'[i][k] > EngineBars => out'[i][k] = 0
             /\ out'[i][k] = 70 => \A m \in Lanes : at'[i][m] >= EngineBars
  <2>1. CASE k = l
    <3>1. at'[i][k] <= EngineBars
      BY <1>4, <1>5, <2>1
    <3>2. CASE out'[i][l] = out[i][l]
      BY <1>2, <1>3, <1>4, <1>5, <2>1, <3>2
    <3>3. CASE out'[i][l] = 70 => \A m \in Lanes : reported'[i][m] = EngineBars
      <4>1. at'[i][k] \in Nat /\ \A m \in Lanes : at'[i][m] \in Nat
        BY <1>3, <1>5
      <4> QED
        BY <1>3, <1>7, <2>1, <3>1, <3>3, <4>1
    <3> QED
      BY <1>6, <3>2, <3>3
  <2>2. CASE k # l
    <3>1. out'[i][k] = out[i][k] /\ at'[i][k] = at[i][k]
      BY <1>3, <1>5, <1>6, <2>2
    <3>2. \A m \in Lanes : at'[i][m] \in Nat
      BY <1>3, <1>5
    <3> QED
      BY <1>1, <1>2, <1>3, <1>7, <3>1, <3>2 DEF JobIsSound
  <2> QED
    BY <2>1, <2>2
<1>9. \A r \in Runners : out'[i][r] # 0 => pc[i] = "lanes" /\ r \in Lanes
  BY <1>1, <1>2, <1>3, <1>6 DEF JobIsSound
<1>10. bad' \in [JobIds -> SUBSET (1 .. Windows)]
  BY <1>1, <1>2 DEF JobsTypeOK
<1>11. pc[i] = "lanes" =>
         \A k \in Lanes : /\ reported'[i][k] <= at'[i][k]
                          /\ at'[i][k] > EngineBars => out'[i][k] = 0
                          /\ out'[i][k] = 70 => \A m \in Lanes : at'[i][m] >= EngineBars
  BY <1>7, <1>8
<1>12. \A j \in JobIds : j # i => at'[j] = at[j] /\ reported'[j] = reported[j] /\ out'[j] = out[j]
  BY <1>5, <1>6
<1>13. pc[i] \in {"lanes", "windows"}
  BY <1>2
<1>14. \A r \in Runners : out'[i][r] # 0 => \/ pc[i] = "lanes" /\ r \in Lanes
                                            \/ pc[i] = "windows" /\ r \in 1 .. Windows
  BY <1>9
<1>15. UNCHANGED <<job, pc, slots, stored, active, restarts, lost>>
  BY <1>2
<1> QED
  BY <1>5, <1>6, <1>10, <1>11, <1>12, <1>13, <1>14, <1>15, RunnersStep

LEMMA LaneEndIsSound ==
    ASSUME JobsAssumption, JobsInv, NEW i \in JobIds, NEW l \in Lanes, LaneEnd(i, l)
    PROVE  JobsInv'
<1>1. JobsTypeOK /\ JobIsSound(i)
  BY DEF JobsInv
<1>2. PICK x \in {LaneOk, LaneErr} :
        /\ pc[i] = "lanes" /\ out[i][l] = 0 /\ at[i][l] <= EngineBars
        /\ at' = [at EXCEPT ![i][l] = x]
        /\ UNCHANGED <<job, pc, slots, reported, out, bad, stored, active, restarts, lost>>
  <2>1. EngineBars \in Nat /\ at[i][l] = EngineBars => at[i][l] <= EngineBars
    OBVIOUS
  <2> QED
    BY <2>1 DEF LaneEnd, JobsAssumption
<1>3. l \in Runners /\ EngineBars \in Nat \ {0} /\ Lanes \subseteq Runners
      /\ \A k \in Lanes : at[i][k] \in Nat /\ reported[i][k] \in Nat
  BY <1>1 DEF Runners, JobsAssumption, JobsTypeOK
<1>4. x \in 0 .. (EngineBars + 10) /\ x > EngineBars
  BY <1>3 DEF LaneOk, LaneErr
<1>5. /\ at' \in [JobIds -> [Runners -> 0 .. (EngineBars + 10)]]
      /\ \A j \in JobIds : j # i => at'[j] = at[j]
      /\ at'[i][l] = x /\ \A q \in Runners : q # l => at'[i][q] = at[i][q]
  BY <1>1, <1>2, <1>3, <1>4, RunnerMoves
<1>6. \A k \in Lanes : at'[i][k] >= at[i][k]
  BY <1>2, <1>3, <1>4, <1>5
<1>7. ASSUME NEW k \in Lanes
      PROVE  /\ reported'[i][k] <= at'[i][k]
             /\ at'[i][k] > EngineBars => out'[i][k] = 0
             /\ out'[i][k] = 70 => \A m \in Lanes : at'[i][m] >= EngineBars
  <2>1. reported[i][k] <= at[i][k] /\ reported'[i][k] = reported[i][k] /\ out'[i][k] = out[i][k]
    BY <1>1, <1>2 DEF JobIsSound
  <2>2. \A m \in Lanes : at'[i][m] \in Nat
    BY <1>3, <1>5
  <2>3. at'[i][k] > EngineBars => out'[i][k] = 0
    BY <1>1, <1>2, <1>3, <1>5, <2>1 DEF JobIsSound
  <2>4. out'[i][k] = 70 => \A m \in Lanes : at[i][m] >= EngineBars
    BY <1>1, <1>2, <2>1 DEF JobIsSound
  <2> QED
    BY <1>3, <1>6, <2>1, <2>2, <2>3, <2>4
<1>8. \A r \in Runners : out'[i][r] # 0 => pc[i] = "lanes" /\ r \in Lanes
  BY <1>1, <1>2 DEF JobIsSound
<1>9. /\ bad' \in [JobIds -> SUBSET (1 .. Windows)]
      /\ reported' \in [JobIds -> [Lanes -> 0 .. EngineBars]]
      /\ out' \in [JobIds -> [Runners -> 0 .. 100]]
      /\ \A j \in JobIds : reported'[j] = reported[j] /\ out'[j] = out[j]
  BY <1>1, <1>2 DEF JobsTypeOK
<1>10. pc[i] = "lanes" =>
         \A k \in Lanes : /\ reported'[i][k] <= at'[i][k]
                          /\ at'[i][k] > EngineBars => out'[i][k] = 0
                          /\ out'[i][k] = 70 => \A m \in Lanes : at'[i][m] >= EngineBars
  BY <1>7
<1>11. \A j \in JobIds : j # i => at'[j] = at[j] /\ reported'[j] = reported[j] /\ out'[j] = out[j]
  BY <1>5, <1>9
<1>12. pc[i] \in {"lanes", "windows"}
  BY <1>2
<1>13. \A r \in Runners : out'[i][r] # 0 => \/ pc[i] = "lanes" /\ r \in Lanes
                                            \/ pc[i] = "windows" /\ r \in 1 .. Windows
  BY <1>8
<1>14. UNCHANGED <<job, pc, slots, stored, active, restarts, lost>>
  BY <1>2
<1> QED
  BY <1>5, <1>9, <1>10, <1>11, <1>12, <1>13, <1>14, RunnersStep

\* A window of a job moves on, with or without an update on its way.
LEMMA WindowStep ==
    ASSUME JobsAssumption, JobsInv, NEW i \in JobIds, NEW w \in 1 .. Windows, NEW x \in 0 .. 10,
           pc[i] = "windows", at' = [at EXCEPT ![i][w] = x],
           bad' \in [JobIds -> SUBSET (1 .. Windows)],
           reported' \in [JobIds -> [Lanes -> 0 .. EngineBars]],
           out' \in [JobIds -> [Runners -> 0 .. 100]],
           \A j \in JobIds : j # i => reported'[j] = reported[j] /\ out'[j] = out[j],
           \A q \in Runners : q # w => out'[i][q] = out[i][q],
           UNCHANGED <<job, pc, slots, stored, active, restarts, lost>>
    PROVE  JobsInv'
<1>1. JobsTypeOK /\ JobIsSound(i)
  BY DEF JobsInv
<1>2. w \in Runners /\ x \in 0 .. (EngineBars + 10)
  BY DEF Runners, JobsAssumption
<1>3. /\ at' \in [JobIds -> [Runners -> 0 .. (EngineBars + 10)]]
      /\ \A j \in JobIds : j # i => at'[j] = at[j]
  BY <1>1, <1>2, RunnerMoves
<1>4. \A r \in Runners : out'[i][r] # 0 => r \in 1 .. Windows
  BY <1>1 DEF JobIsSound
<1>5. pc[i] = "lanes" =>
        \A l \in Lanes : /\ reported'[i][l] <= at'[i][l]
                         /\ at'[i][l] > EngineBars => out'[i][l] = 0
                         /\ out'[i][l] = 70 => \A k \in Lanes : at'[i][k] >= EngineBars
  OBVIOUS
<1>6. \A j \in JobIds : j # i => at'[j] = at[j] /\ reported'[j] = reported[j] /\ out'[j] = out[j]
  BY <1>3
<1>7. pc[i] \in {"lanes", "windows"}
  OBVIOUS
<1>8. \A r \in Runners : out'[i][r] # 0 => \/ pc[i] = "lanes" /\ r \in Lanes
                                           \/ pc[i] = "windows" /\ r \in 1 .. Windows
  BY <1>4
<1> QED
  BY <1>3, <1>5, <1>6, <1>7, <1>8, RunnersStep

\* A window that starts or returns a run, with or without a report.
LEMMA WindowReports ==
    ASSUME JobsAssumption, JobsInv, NEW i \in JobIds, NEW w \in 1 .. Windows, NEW x \in 0 .. 10,
           NEW lane \in Lanes, NEW fraction \in {0, EngineBars},
           pc[i] = "windows", at' = [at EXCEPT ![i][w] = x],
           bad' \in [JobIds -> SUBSET (1 .. Windows)],
           Report(i, w, lane, fraction) \/ UNCHANGED <<reported, out>>,
           UNCHANGED <<job, pc, slots, stored, active, restarts, lost>>
    PROVE  JobsInv'
<1>1. JobsTypeOK
  BY DEF JobsInv
<1>2. /\ reported' \in [JobIds -> [Lanes -> 0 .. EngineBars]]
      /\ out' \in [JobIds -> [Runners -> 0 .. 100]]
      /\ \A j \in JobIds : j # i => reported'[j] = reported[j] /\ out'[j] = out[j]
      /\ \A q \in Runners : q # w => out'[i][q] = out[i][q]
  <2>1. CASE Report(i, w, lane, fraction)
    <3>1. w \in Runners /\ fraction \in 0 .. EngineBars
      BY DEF Runners, JobsAssumption
    <3> QED
      BY <1>1, <2>1, <3>1, ReportKeeps
  <2>2. CASE UNCHANGED <<reported, out>>
    BY <1>1, <2>2 DEF JobsTypeOK
  <2> QED
    BY <2>1, <2>2
<1> QED
  BY <1>2, WindowStep

LEMMA TakeWindowIsSound ==
    ASSUME JobsAssumption, JobsInv, NEW i \in JobIds, NEW w \in 1 .. Windows, TakeWindow(i, w)
    PROVE  JobsInv'
<1>1. /\ pc[i] = "windows"
      /\ \/ at' = [at EXCEPT ![i][w] = 1] /\ Report(i, w, Baseline, 0)
         \/ at' = [at EXCEPT ![i][w] = Broken] /\ UNCHANGED <<reported, out>>
      /\ UNCHANGED <<job, pc, slots, bad, stored, active, restarts, lost>>
  BY DEF TakeWindow
<1>2. bad' \in [JobIds -> SUBSET (1 .. Windows)] /\ Baseline \in Lanes /\ 1 \in 0 .. 10 /\ Broken \in 0 .. 10
  BY <1>1 DEF JobsInv, JobsTypeOK, Lanes, Broken
<1> QED
  BY <1>1, <1>2, WindowReports

LEMMA RunReturnsIsSound ==
    ASSUME JobsAssumption, JobsInv, NEW i \in JobIds, NEW w \in 1 .. Windows, RunReturns(i, w)
    PROVE  JobsInv'
<1>1. PICK x, lane : /\ x = at[i][w] + 1 /\ at[i][w] \in Running /\ lane = LaneOf(at[i][w])
                     /\ pc[i] = "windows" /\ at' = [at EXCEPT ![i][w] = x]
                     /\ \/ Report(i, w, lane, EngineBars) /\ UNCHANGED bad
                        \/ bad' = [bad EXCEPT ![i] = @ \cup {w}] /\ UNCHANGED <<reported, out>>
                     /\ UNCHANGED <<job, pc, slots, stored, active, restarts, lost>>
  BY DEF RunReturns, Report
<1>2. x \in 0 .. 10 /\ lane \in Lanes
  BY <1>1 DEF Running, LaneOf, Lanes
<1>3. bad' \in [JobIds -> SUBSET (1 .. Windows)]
  <2> DEFINE broken == bad[i] \cup {w}
  <2>1. bad \in [JobIds -> SUBSET (1 .. Windows)]
    BY DEF JobsInv, JobsTypeOK
  <2>2. broken \in SUBSET (1 .. Windows) /\ (bad' = [bad EXCEPT ![i] = broken] \/ bad' = bad)
    BY <1>1, <2>1
  <2> HIDE DEF broken
  <2> QED
    BY <2>1, <2>2
<1> QED
  BY <1>1, <1>2, <1>3, WindowReports

LEMMA NextRunIsSound ==
    ASSUME JobsAssumption, JobsInv, NEW i \in JobIds, NEW w \in 1 .. Windows, NextRun(i, w)
    PROVE  JobsInv'
<1>1. PICK x, lane : /\ x = at[i][w] + 1 /\ at[i][w] \in {2, 4, 6} /\ lane = LaneOf(at[i][w] + 1)
                     /\ pc[i] = "windows" /\ at' = [at EXCEPT ![i][w] = x]
                     /\ Report(i, w, lane, 0)
                     /\ UNCHANGED <<job, pc, slots, bad, stored, active, restarts, lost>>
  BY DEF NextRun, Report
<1>2. x \in 0 .. 10 /\ lane \in Lanes
  BY <1>1 DEF LaneOf, Lanes
<1>3. bad' \in [JobIds -> SUBSET (1 .. Windows)]
  BY <1>1 DEF JobsInv, JobsTypeOK
<1> QED
  BY <1>1, <1>2, <1>3, WindowReports

LEMMA WindowDoneIsSound ==
    ASSUME JobsAssumption, JobsInv, NEW i \in JobIds, NEW w \in 1 .. Windows, WindowDone(i, w)
    PROVE  JobsInv'
<1> DEFINE over == {v \in 1 .. Windows : at[i][v] \in {Finished, Broken}}
           done == Cardinality(over) + 1
           percent == 70 + (25 * done) \div Windows
<1>1. PICK x \in {Broken, Finished} :
        /\ pc[i] = "windows" /\ out[i][w] = 0
        /\ at[i][w] = 8 \/ at[i][w] = 4
        /\ at' = [at EXCEPT ![i][w] = x]
        /\ out' = [out EXCEPT ![i][w] = percent] \/ out' = out
        /\ UNCHANGED <<job, pc, slots, reported, bad, stored, active, restarts, lost>>
  BY DEF WindowDone
<1>2. JobsTypeOK /\ x \in 0 .. 10 /\ w \in Runners /\ Windows \in Nat \ {0}
  BY DEF JobsInv, Broken, Finished, Runners, JobsAssumption
<1>3. done \in 0 .. Windows
  <2>1. over \subseteq (1 .. Windows) \ {w}
    BY <1>1 DEF Finished, Broken
  <2>2. IsFiniteSet(1 .. Windows) /\ Cardinality(1 .. Windows) = Windows
    BY <1>2, FS_Interval
  <2>3. IsFiniteSet((1 .. Windows) \ {w}) /\ Cardinality((1 .. Windows) \ {w}) = Windows - 1
    BY <2>2, FS_RemoveElement
  <2>4. IsFiniteSet(over) /\ Cardinality(over) <= Windows - 1
    BY <2>1, <2>3, FS_Subset
  <2>5. Cardinality(over) \in Nat
    BY <2>4, FS_CardinalityType
  <2> QED
    BY <1>2, <2>4, <2>5
<1>4. percent \in 0 .. 100
  <2> HIDE DEF done
  <2>1. (25 * done) \div Windows \in 0 .. 25
    BY <1>2, <1>3, PercentOfBand
  <2> QED
    BY <2>1
<1>5. /\ out' \in [JobIds -> [Runners -> 0 .. 100]]
      /\ \A j \in JobIds : j # i => reported'[j] = reported[j] /\ out'[j] = out[j]
      /\ \A q \in Runners : q # w => out'[i][q] = out[i][q]
  <2> HIDE DEF percent
  <2>0. out \in [JobIds -> [Runners -> 0 .. 100]]
    BY <1>2 DEF JobsTypeOK
  <2>1. CASE out' = [out EXCEPT ![i][w] = percent]
    <3> DEFINE mine == [out[i] EXCEPT ![w] = percent]
    <3>1. out' = [out EXCEPT ![i] = mine]
      BY <2>1
    <3>2. mine \in [Runners -> 0 .. 100] /\ \A q \in Runners : q # w => mine[q] = out[i][q]
      BY <1>2, <1>4, <2>0
    <3> HIDE DEF mine
    <3> QED
      BY <1>1, <2>0, <3>1, <3>2
  <2>2. CASE out' = out
    BY <1>1, <2>0, <2>2
  <2> QED
    BY <1>1, <2>1, <2>2
<1>6. /\ bad' \in [JobIds -> SUBSET (1 .. Windows)] /\ reported' \in [JobIds -> [Lanes -> 0 .. EngineBars]]
  BY <1>1, <1>2 DEF JobsTypeOK
<1>7. pc[i] = "windows" /\ at' = [at EXCEPT ![i][w] = x]
      /\ UNCHANGED <<job, pc, slots, stored, active, restarts, lost>>
  BY <1>1
<1> HIDE DEF percent, done, over
<1> QED
  BY <1>2, <1>5, <1>6, <1>7, WindowStep

LEMMA DeliverIsSound ==
    ASSUME JobsAssumption, JobsInv, NEW i \in JobIds, NEW r \in Runners, Deliver(i, r)
    PROVE  JobsInv'
<1>1. JobsTypeOK /\ JobIsSound(i) /\ ActiveExperimentStored /\ SlotsAreHeld
  BY DEF JobsInv
<1>2. PICK row : /\ row = Progress(i, out[i][r]) /\ out[i][r] # 0
                 /\ Write(i, row)
                 /\ out' = [out EXCEPT ![i][r] = 0]
                 /\ UNCHANGED <<pc, slots, at, reported, bad, stored, active, restarts>>
  BY DEF Deliver, Write
<1>3. row \in Row /\ row.status = "running"
  <2>1. out[i][r] \in 0 .. 100 /\ job[i] \in Row
    BY <1>1 DEF JobsTypeOK
  <2>2. row \in Row
    BY <1>1, <1>2, <2>1, RowsAreTyped
  <2>3. row.status = "running"
    BY <1>2, <2>1 DEF Progress, Row
  <2> QED
    BY <2>2, <2>3
<1>4. pc[i] \in {"lanes", "windows"}
  BY <1>1, <1>2 DEF JobIsSound
<1>5. /\ job' \in [JobIds -> Row] /\ lost' \subseteq JobIds /\ lost \subseteq lost'
      /\ \A j \in JobIds : j # i => job'[j] = job[j]
      /\ \/ job'[i] = row /\ lost' = lost
         \/ job'[i] = job[i] /\ i \in lost'
  BY <1>1, <1>2, <1>3, WriteKeeps
<1>6. /\ out' \in [JobIds -> [Runners -> 0 .. 100]]
      /\ \A j \in JobIds : j # i => out'[j] = out[j]
      /\ \A q \in Runners : out'[i][q] = IF q = r THEN 0 ELSE out[i][q]
  <2> DEFINE mine == [out[i] EXCEPT ![r] = 0]
  <2>0. out \in [JobIds -> [Runners -> 0 .. 100]]
    BY <1>1 DEF JobsTypeOK
  <2>1. out' = [out EXCEPT ![i] = mine]
    BY <1>2
  <2>2. mine \in [Runners -> 0 .. 100] /\ \A q \in Runners : mine[q] = IF q = r THEN 0 ELSE out[i][q]
    BY <2>0
  <2> HIDE DEF mine
  <2> QED
    BY <2>0, <2>1, <2>2
<1>7. JobsTypeOK'
  BY <1>1, <1>2, <1>5, <1>6 DEF JobsTypeOK, JobIds, Runners, Lanes
<1>8. JobIsSound(i)'
  <2>1. job'[i].status \in Terminal => pc'[i] = "ended"
    BY <1>1, <1>2, <1>3, <1>5 DEF JobIsSound, Terminal
  <2>2. /\ pc'[i] \in (IF Kinds[i] = "stage05" THEN ComparisonStages ELSE LegacyStages)
        /\ pc'[i] \in {None, "wait", "prep", "lanes"} => \A l \in Lanes : reported'[i][l] <= at'[i][l]
        /\ pc'[i] = "activate" => i \in stored'
    BY <1>1, <1>2 DEF JobIsSound
  <2>3. pc'[i] = "lanes" => \A l \in Lanes : /\ at'[i][l] > EngineBars => out'[i][l] = 0
                                             /\ out'[i][l] = 70 => \A k \in Lanes : at'[i][k] >= EngineBars
    <3>1. Lanes \subseteq Runners
      BY DEF Runners
    <3> QED
      BY <1>1, <1>2, <1>6, <3>1 DEF JobIsSound
  <2>4. \A q \in Runners : out'[i][q] # 0 => \/ pc'[i] = "lanes" /\ q \in Lanes
                                             \/ pc'[i] = "windows" /\ q \in 1 .. Windows
    BY <1>1, <1>2, <1>6 DEF JobIsSound
  <2>5. Kinds[i] # "stage05"
    BY <1>1, <1>4 DEF JobIsSound, ComparisonStages, None
  <2> QED
    BY <2>1, <2>2, <2>3, <2>4, <2>5 DEF JobIsSound, Runners, Lanes
<1>9. SlotsAreHeld'
  BY <1>1, <1>2, SlotsStayHeld
<1>10. ActiveExperimentStored'
  BY <1>1, <1>2 DEF ActiveExperimentStored
<1>11. ASSUME NEW j \in JobIds, j # i
       PROVE  JobIsSound(j)'
  <2>1. JobIsSound(j)
    BY DEF JobsInv
  <2>2. /\ job'[j] = job[j] /\ pc'[j] = pc[j] /\ at'[j] = at[j] /\ reported'[j] = reported[j] /\ out'[j] = out[j]
        /\ stored \subseteq stored' /\ lost \subseteq lost'
    BY <1>2, <1>5, <1>6, <1>11
  <2> QED
    BY <2>1, <2>2, OthersStaySound
<1> QED
  BY <1>7, <1>8, <1>9, <1>10, <1>11 DEF JobsInv, JobIds

\* A goroutine that goes on without an update of the row, or fails the job.
LEMMA NoUpdate ==
    ASSUME JobsTypeOK, NEW i \in JobIds, UNCHANGED <<job, lost>>
    PROVE  job[i] \in Row /\ Write(i, job[i])
<1>1. job[i] \in Row /\ job' = [job EXCEPT ![i] = job[i]]
  BY DEF JobsTypeOK
<1> QED
  BY <1>1 DEF Write

\* The end of a job that fails: its goroutine and, of a comparison, its slot.
LEMMA FailIsSound ==
    ASSUME JobsAssumption, JobsInv, NEW i \in JobIds, NEW results \in BOOLEAN, Fail(i, results),
           pc[i] \notin {"ended", None, "wait"}, UNCHANGED <<at, reported, out, bad, active, restarts>>,
           stored' = stored,
           Release(i) \/ (Kinds[i] # "stage05" /\ slots' = slots),
           \A r \in Runners : out[i][r] = 0
    PROVE  JobsInv'
<1>1. JobsTypeOK /\ JobIsSound(i) /\ SlotsAreHeld
  BY DEF JobsInv
<1>2. PICK row : /\ row = Failed(i, results)
                 /\ Write(i, row)
                 /\ pc' = [pc EXCEPT ![i] = "ended"]
  BY DEF Fail, Write
<1>3. row \in Row /\ row.status = "failed"
  <2>1. job[i] \in Row
    BY <1>1 DEF JobsTypeOK
  <2>2. row \in Row
    BY <1>1, <1>2, RowsAreTyped
  <2>3. row.status = "failed"
    BY <1>2, <2>1 DEF Failed, Row
  <2> QED
    BY <2>2, <2>3
<1>4. pc'[i] = "ended" /\ \A j \in JobIds : j # i => pc'[j] = pc[j]
  BY <1>1, <1>2 DEF JobsTypeOK
<1>5. SlotsAreHeld' /\ slots' \subseteq JobIds
  <2>1. CASE Release(i)
    <3>1. Kinds[i] = "stage05" => pc[i] \in InSlot /\ pc'[i] \in InSlot \cup {"ended"}
      BY <1>1, <1>4 DEF JobIsSound, ComparisonStages, InSlot
    <3> QED
      BY <1>1, <1>4, <2>1, <3>1, SlotsAreReleased
  <2>2. CASE Kinds[i] # "stage05" /\ slots' = slots
    <3>1. SlotsAreHeld'
      BY <1>1, <1>4, <2>2, SlotsStayHeld
    <3> QED
      BY <1>1, <2>2, <3>1 DEF JobsTypeOK
  <2> QED
    BY <2>1, <2>2
<1>6. "ended" \in (IF Kinds[i] = "stage05" THEN ComparisonStages ELSE LegacyStages) \ {None}
  BY DEF ComparisonStages, LegacyStages, None
<1>7. stored \subseteq stored' /\ stored' \subseteq JobIds /\ active' = active
  BY <1>1 DEF JobsTypeOK
<1>8. UNCHANGED <<at, reported, out, bad, restarts>> /\ pc[i] # "ended"
  OBVIOUS
<1>9. active' = active \/ (active' = i /\ i \in stored)
  BY <1>7
<1> DEFINE q == "ended"
<1>10. q \in {"wait", "prep", "lanes"} => pc[i] \in {None, "wait", "prep"}
  OBVIOUS
<1>11. Kinds[i] = "stage05" /\ i \notin lost' =>
         /\ q = "finish" => row.artifact
         /\ row.status = "completed" => row.artifact /\ row.summary
  BY <1>3
<1>12. q = "activate" => i \in stored'
  OBVIOUS
<1>13. row.status \in Terminal => q = "ended"
  OBVIOUS
<1>14. pc' = [pc EXCEPT ![i] = q] /\ q \in (IF Kinds[i] = "stage05" THEN ComparisonStages ELSE LegacyStages) \ {None}
  BY <1>2, <1>6
<1> HIDE DEF q
<1> QED
  BY <1>2, <1>3, <1>5, <1>7, <1>8, <1>9, <1>10, <1>11, <1>12, <1>13, <1>14, GoroutineStep

LEMMA StartIsSound ==
    ASSUME JobsAssumption, JobsInv, NEW i \in JobIds, StartBacktestJob(i) \/ StartStage05ComparisonJob(i)
    PROVE  JobsInv'
<1>1. JobsTypeOK /\ JobIsSound(i) /\ SlotsAreHeld
  BY DEF JobsInv
<1>2. PICK row, q :
        /\ row = [job[i] EXCEPT !.status = "pending"] /\ job' = [job EXCEPT ![i] = row]
        /\ q = IF Kinds[i] = "stage05" THEN "wait" ELSE "prep"
        /\ pc' = [pc EXCEPT ![i] = q] /\ pc[i] = None
        /\ Kinds[i] \in {"stage05", "legacy"}
        /\ UNCHANGED <<slots, at, reported, out, bad, stored, active, restarts, lost>>
  <2>1. CASE StartBacktestJob(i)
    BY <2>1 DEF StartBacktestJob
  <2>2. CASE StartStage05ComparisonJob(i)
    BY <2>2 DEF StartStage05ComparisonJob
  <2> QED
    BY <2>1, <2>2
<1>3. row \in Row /\ row.status = "pending"
  <2>1. job[i] \in Row
    BY <1>1 DEF JobsTypeOK
  <2>2. row \in Row
    BY <1>1, <1>2, RowsAreTyped
  <2>3. row.status = "pending"
    BY <1>2, <2>1 DEF Row
  <2> QED
    BY <2>2, <2>3
<1>4. Write(i, row)
  BY <1>2 DEF Write
<1>5. q \in (IF Kinds[i] = "stage05" THEN ComparisonStages ELSE LegacyStages) \ {None}
  BY <1>2 DEF ComparisonStages, LegacyStages, None
<1>6. SlotsAreHeld' /\ slots' \subseteq JobIds
  <2>1. pc'[i] = q /\ \A j \in JobIds : j # i => pc'[j] = pc[j]
    BY <1>1, <1>2 DEF JobsTypeOK
  <2>2. Kinds[i] = "stage05" => (pc[i] \in InSlot <=> pc'[i] \in InSlot)
    BY <1>2, <2>1 DEF InSlot, None
  <2>3. SlotsAreHeld'
    BY <1>1, <1>2, <2>1, <2>2, SlotsStayHeld
  <2> QED
    BY <1>1, <1>2, <2>3 DEF JobsTypeOK
<1>7. /\ UNCHANGED <<at, reported, out, bad, restarts>> /\ pc[i] # "ended"
      /\ stored \subseteq stored' /\ stored' \subseteq JobIds
      /\ active' = active \/ (active' = i /\ i \in stored)
  BY <1>1, <1>2 DEF JobsTypeOK, None
<1>8. \A r \in Runners : out[i][r] = 0
  BY <1>1, <1>2 DEF JobIsSound, None
<1>9. q \in {"wait", "prep", "lanes"} => pc[i] \in {None, "wait", "prep"}
  BY <1>2
<1>10. row.status \in Terminal => q = "ended"
  BY <1>3 DEF Terminal
<1>11. q = "activate" => i \in stored'
  BY <1>2
<1>12. Kinds[i] = "stage05" /\ i \notin lost' =>
         /\ q = "finish" => row.artifact
         /\ row.status = "completed" => row.artifact /\ row.summary
  BY <1>2, <1>3
<1>13. UNCHANGED <<at, reported, out, bad, restarts>> /\ pc[i] # "ended" /\ pc' = [pc EXCEPT ![i] = q]
  BY <1>2, <1>7
<1> QED
  BY <1>3, <1>4, <1>5, <1>6, <1>7, <1>8, <1>9, <1>10, <1>11, <1>12, <1>13, GoroutineStep

\* A legacy job goes on.
LEMMA LegacyGoesOn ==
    ASSUME JobsInv, NEW i \in JobIds, Kinds[i] # "stage05", pc[i] \notin {None, "ended"},
           NEW row \in Row, Write(i, row), row.status \notin Terminal,
           NEW q \in LegacyStages \ {None}, pc' = [pc EXCEPT ![i] = q],
           q \in {"prep", "lanes"} => pc[i] = "prep",
           UNCHANGED <<slots, at, reported, out, bad, restarts>>,
           \A r \in Runners : out[i][r] = 0,
           stored' = stored \/ stored' = stored \cup {i},
           active' = active \/ (active' = i /\ i \in stored),
           q = "activate" => i \in stored'
    PROVE  JobsInv'
<1>1. JobsTypeOK /\ SlotsAreHeld
  BY DEF JobsInv
<1>2. pc'[i] = q /\ \A j \in JobIds : j # i => pc'[j] = pc[j]
  BY <1>1 DEF JobsTypeOK
<1>3. SlotsAreHeld'
  BY <1>1, <1>2, SlotsStayHeld
<1>4. slots' \subseteq JobIds /\ stored \subseteq stored' /\ stored' \subseteq JobIds
  BY <1>1 DEF JobsTypeOK
<1>5. q \in {"wait", "prep", "lanes"} => pc[i] \in {None, "wait", "prep"}
  BY DEF LegacyStages, None
<1>6. Kinds[i] = "stage05" /\ i \notin lost' =>
        /\ q = "finish" => row.artifact
        /\ row.status = "completed" => row.artifact /\ row.summary
  OBVIOUS
<1>7. q \in (IF Kinds[i] = "stage05" THEN ComparisonStages ELSE LegacyStages) \ {None}
  OBVIOUS
<1>8. row.status \in Terminal => q = "ended"
  OBVIOUS
<1>9. UNCHANGED <<at, reported, out, bad, restarts>> /\ pc[i] # "ended"
  OBVIOUS
<1> QED
  BY <1>3, <1>4, <1>5, <1>6, <1>7, <1>8, <1>9, GoroutineStep

\* A comparison goes on in its slot.
LEMMA ComparisonGoesOn ==
    ASSUME JobsInv, NEW i \in JobIds, Kinds[i] = "stage05", pc[i] \in InSlot,
           NEW row \in Row, Write(i, row), row.status \notin Terminal,
           NEW q \in {"compare", "evidence", "finish"}, pc' = [pc EXCEPT ![i] = q],
           q = "finish" => row.artifact,
           slots' = slots \/ Release(i),
           UNCHANGED <<at, reported, out, bad, stored, active, restarts>>
    PROVE  JobsInv'
<1>1. JobsTypeOK /\ SlotsAreHeld /\ JobIsSound(i)
  BY DEF JobsInv
<1>2. pc'[i] = q /\ \A j \in JobIds : j # i => pc'[j] = pc[j]
  BY <1>1 DEF JobsTypeOK
<1>3. slots' = slots
  BY <1>2 DEF Release
<1>4. SlotsAreHeld'
  BY <1>1, <1>2, <1>3, SlotsStayHeld DEF InSlot
<1>5. slots' \subseteq JobIds /\ stored \subseteq stored' /\ stored' \subseteq JobIds
  BY <1>1, <1>3 DEF JobsTypeOK
<1>6. q \in {"wait", "prep", "lanes"} => pc[i] \in {None, "wait", "prep"}
  OBVIOUS
<1>7. Kinds[i] = "stage05" /\ i \notin lost' =>
        /\ q = "finish" => row.artifact
        /\ row.status = "completed" => row.artifact /\ row.summary
  BY DEF Terminal
<1>8. q \in (IF Kinds[i] = "stage05" THEN ComparisonStages ELSE LegacyStages) \ {None}
  BY DEF ComparisonStages, None
<1>9. row.status \in Terminal => q = "ended"
  OBVIOUS
<1>10. UNCHANGED <<at, reported, out, bad, restarts>> /\ pc[i] # "ended"
  BY DEF InSlot
<1>11. \A r \in Runners : out[i][r] = 0
  BY <1>1 DEF JobIsSound, InSlot
<1>12. active' = active \/ (active' = i /\ i \in stored)
  OBVIOUS
<1>13. q = "activate" => i \in stored'
  OBVIOUS
<1> QED
  BY <1>4, <1>5, <1>6, <1>7, <1>8, <1>9, <1>10, <1>11, <1>12, <1>13, GoroutineStep

\* What the updates say of the status and of the evidence.
LEMMA RowsSay ==
    ASSUME JobsTypeOK, NEW i \in JobIds
    PROVE  /\ \A p \in 0 .. 100 : Progress(i, p).status = "running"
           /\ Completed(i).status = "completed" /\ Completed(i).artifact = job[i].artifact /\ Completed(i).summary
           /\ [job[i] EXCEPT !.artifact = TRUE].artifact
           /\ [job[i] EXCEPT !.artifact = TRUE].status = job[i].status
<1>1. job[i] \in Row
  BY DEF JobsTypeOK
<1>2. \A p \in 0 .. 100 : Progress(i, p).status = "running"
  BY <1>1 DEF Progress, Row
<1>3. \A p \in 0 .. 100, t \in Terminal, b \in BOOLEAN :
        LET r == [job[i] EXCEPT !.status = t, !.progress = p, !.summary = b]
        IN r.status = t /\ r.summary = b /\ r.artifact = job[i].artifact
  BY <1>1 DEF Row
<1>4. Completed(i).status = "completed" /\ Completed(i).artifact = job[i].artifact /\ Completed(i).summary
  <2>1. "completed" \in Terminal /\ 100 \in 0 .. 100 /\ TRUE \in BOOLEAN
    BY DEF Terminal
  <2> QED
    BY <1>3, <2>1 DEF Completed
<1>5. [job[i] EXCEPT !.artifact = TRUE].artifact /\ [job[i] EXCEPT !.artifact = TRUE].status = job[i].status
  BY <1>1 DEF Row
<1> QED
  BY <1>2, <1>4, <1>5

LEMMA PrepareLegacyIsSound ==
    ASSUME JobsAssumption, JobsInv, NEW i \in JobIds, PrepareLegacy(i)
    PROVE  JobsInv'
<1>1. JobsTypeOK /\ JobIsSound(i) /\ job[i] \in Row /\ 35 \in 0 .. 100
  BY DEF JobsInv, JobsTypeOK
<1>2. /\ Kinds[i] # "stage05" /\ pc[i] = "prep" /\ pc[i] \notin {None, "ended", "wait"}
      /\ UNCHANGED <<slots, at, reported, out, bad, stored, active, restarts>>
  BY DEF PrepareLegacy, None
<1>3. \A r \in Runners : out[i][r] = 0
  BY <1>1, <1>2 DEF JobIsSound
<1>4. CASE \E coverage \in BOOLEAN : Fail(i, coverage)
  BY <1>2, <1>3, <1>4, FailIsSound
<1>5. CASE Write(i, Progress(i, 35)) /\ pc' = [pc EXCEPT ![i] = "lanes"]
  <2>1. PICK row : row = Progress(i, 35) /\ Write(i, row)
    BY <1>5 DEF Write
  <2>2. row \in Row /\ row.status \notin Terminal
    BY <1>1, <2>1, RowsAreTyped, RowsSay DEF Terminal
  <2>3. "lanes" \in LegacyStages \ {None}
    BY DEF LegacyStages, None
  <2> QED
    BY <1>2, <1>3, <1>5, <2>1, <2>2, <2>3, LegacyGoesOn
<1> QED
  BY <1>4, <1>5 DEF PrepareLegacy

LEMMA JoinLanesIsSound ==
    ASSUME JobsAssumption, JobsInv, NEW i \in JobIds, JoinLanes(i)
    PROVE  JobsInv'
<1>1. JobsTypeOK /\ JobIsSound(i) /\ job[i] \in Row /\ 70 \in 0 .. 100
  BY DEF JobsInv, JobsTypeOK
<1>2. /\ pc[i] = "lanes" /\ LanesDone(i) /\ pc[i] \notin {None, "ended", "wait"}
      /\ UNCHANGED <<slots, at, reported, out, bad, stored, active, restarts>>
  BY DEF JoinLanes, None
<1>3. Kinds[i] # "stage05"
  BY <1>1, <1>2 DEF JobIsSound, ComparisonStages, None
<1>4. \A r \in Runners : out[i][r] = 0
  <2>1. \A l \in Lanes : at[i][l] > EngineBars
    BY <1>2 DEF LanesDone, LaneOk, LaneErr, JobsAssumption
  <2> QED
    BY <1>1, <1>2, <2>1 DEF JobIsSound
<1>5. CASE Fail(i, TRUE)
  BY <1>2, <1>3, <1>4, <1>5, FailIsSound
<1>6. CASE Write(i, Progress(i, 70)) /\ pc' = [pc EXCEPT ![i] = "windows"]
  <2>1. PICK row : row = Progress(i, 70) /\ Write(i, row)
    BY <1>6 DEF Write
  <2>2. row \in Row /\ row.status \notin Terminal
    BY <1>1, <2>1, RowsAreTyped, RowsSay DEF Terminal
  <2>3. "windows" \in LegacyStages \ {None} /\ "windows" \notin {"prep", "lanes", "activate"}
    BY DEF LegacyStages, None
  <2>4. stored' = stored /\ active' = active
    BY <1>2
  <2> QED
    BY <1>2, <1>3, <1>4, <1>6, <2>1, <2>2, <2>3, <2>4, LegacyGoesOn
<1> QED
  BY <1>5, <1>6 DEF JoinLanes

LEMMA JoinWindowsIsSound ==
    ASSUME JobsAssumption, JobsInv, NEW i \in JobIds, JoinWindows(i)
    PROVE  JobsInv'
<1>1. JobsTypeOK /\ JobIsSound(i)
  BY DEF JobsInv
<1>2. /\ pc[i] = "windows" /\ pc[i] \notin {None, "ended", "wait"}
      /\ \A w \in 1 .. Windows : out[i][w] = 0
      /\ UNCHANGED <<slots, at, reported, out, bad, stored, active, restarts>>
  BY DEF JoinWindows, None
<1>3. Kinds[i] # "stage05"
  BY <1>1, <1>2 DEF JobIsSound, ComparisonStages, None
<1>4. \A r \in Runners : out[i][r] = 0
  BY <1>1, <1>2 DEF JobIsSound
<1>5. CASE Fail(i, TRUE)
  BY <1>2, <1>3, <1>4, <1>5, FailIsSound
<1>6. CASE pc' = [pc EXCEPT ![i] = "register"] /\ UNCHANGED <<job, lost>>
  <2>1. PICK row \in Row : row = job[i] /\ Write(i, row)
    BY <1>1, <1>6, NoUpdate
  <2>2. row.status \notin Terminal
    BY <1>1, <1>2, <2>1 DEF JobIsSound
  <2>3. "register" \in LegacyStages \ {None} /\ "register" \notin {"prep", "lanes", "activate"}
    BY DEF LegacyStages, None
  <2>4. stored' = stored /\ active' = active
    BY <1>2
  <2> QED
    BY <1>2, <1>3, <1>4, <1>6, <2>1, <2>2, <2>3, <2>4, LegacyGoesOn
<1> QED
  BY <1>5, <1>6 DEF JoinWindows

\* The statements after the windows: each goes on to the next or fails the job.
LEMMA AfterWindowsIsSound ==
    ASSUME JobsAssumption, JobsInv, NEW i \in JobIds,
           RegisterExperimentRun(i) \/ ActivateExperiment(i) \/ WriteBacktestOutputs(i)
    PROVE  JobsInv'
<1>1. JobsTypeOK /\ JobIsSound(i)
  BY DEF JobsInv
<1>2. /\ pc[i] \in {"register", "activate", "write"} /\ pc[i] \notin {None, "ended", "wait"}
      /\ UNCHANGED <<slots, at, reported, out, bad, restarts>>
  BY DEF RegisterExperimentRun, ActivateExperiment, WriteBacktestOutputs, None
<1>3. Kinds[i] # "stage05"
  BY <1>1, <1>2 DEF JobIsSound, ComparisonStages, None
<1>4. \A r \in Runners : out[i][r] = 0
  BY <1>1, <1>2 DEF JobIsSound
<1>5. CASE Fail(i, FALSE) /\ UNCHANGED <<stored, active>>
  BY <1>2, <1>3, <1>4, <1>5, FailIsSound
<1>6. ASSUME NEW q \in {"activate", "write", "finish"}, pc' = [pc EXCEPT ![i] = q], UNCHANGED <<job, lost>>,
             stored' = stored \/ stored' = stored \cup {i}, q = "activate" => i \in stored',
             active' = active \/ (active' = i /\ i \in stored)
      PROVE  JobsInv'
  <2>1. PICK row \in Row : row = job[i] /\ Write(i, row)
    BY <1>1, <1>6, NoUpdate
  <2>2. row.status \notin Terminal
    BY <1>1, <1>2, <2>1 DEF JobIsSound
  <2>3. q \in LegacyStages \ {None} /\ (q \in {"prep", "lanes"} => pc[i] = "prep")
    BY DEF LegacyStages, None
  <2> QED
    BY <1>2, <1>3, <1>4, <1>6, <2>1, <2>2, <2>3, LegacyGoesOn
<1>7. CASE RegisterExperimentRun(i)
  BY <1>5, <1>6, <1>7 DEF RegisterExperimentRun
<1>8. CASE ActivateExperiment(i)
  <2>1. i \in stored
    BY <1>1, <1>8 DEF ActivateExperiment, JobIsSound
  <2> QED
    BY <1>5, <1>6, <1>8, <2>1 DEF ActivateExperiment
<1>9. CASE WriteBacktestOutputs(i)
  BY <1>5, <1>6, <1>9 DEF WriteBacktestOutputs
<1> QED
  BY <1>7, <1>8, <1>9

LEMMA AcquireSlotIsSound ==
    ASSUME JobsAssumption, JobsInv, NEW i \in JobIds, AcquireSlot(i)
    PROVE  JobsInv'
<1>1. JobsTypeOK /\ JobIsSound(i) /\ SlotsAreHeld /\ 5 \in 0 .. 100
  BY DEF JobsInv
<1>2. PICK row :
        /\ row = Progress(i, 5) /\ Write(i, row)
        /\ pc[i] = "wait" /\ Cardinality(slots) < Slots
        /\ slots' = slots \cup {i}
        /\ pc' = [pc EXCEPT ![i] = "prep"]
        /\ UNCHANGED <<at, reported, out, bad, stored, active, restarts>>
  BY DEF AcquireSlot, Write
<1>3. row \in Row /\ row.status \notin Terminal
  BY <1>1, <1>2, RowsAreTyped, RowsSay DEF Terminal
<1>4. Kinds[i] = "stage05"
  BY <1>1, <1>2 DEF JobIsSound, LegacyStages, None
<1> DEFINE S == {j \in JobIds : Kinds[j] = "stage05" /\ pc[j] \in {"prep", "compare", "evidence", "finish"}}
<1>5. SlotsAreHeld'
  <2>1. S = slots /\ i \notin slots
    BY <1>1, <1>2 DEF SlotsAreHeld
  <2>2. pc'[i] = "prep" /\ \A j \in JobIds : j # i => pc'[j] = pc[j]
    BY <1>1, <1>2 DEF JobsTypeOK
  <2>3. S' = S \cup {i}
    BY <1>4, <2>2 DEF JobIds
  <2>4. IsFiniteSet(slots)
    <3>1. IsFiniteSet(JobIds)
      BY FS_Interval DEF JobIds, JobsAssumption
    <3> QED
      BY <1>1, <3>1, FS_Subset DEF JobsTypeOK
  <2>5. Cardinality(slots \cup {i}) = Cardinality(slots) + 1 /\ Cardinality(slots) \in Nat
    BY <2>1, <2>4, FS_AddElement, FS_CardinalityType
  <2>6. Cardinality(slots \cup {i}) <= Slots
    BY <1>2, <2>5 DEF JobsAssumption
  <2> QED
    BY <1>2, <2>1, <2>3, <2>6 DEF SlotsAreHeld, JobIds
<1>6. slots' \subseteq JobIds /\ stored \subseteq stored' /\ stored' \subseteq JobIds
  BY <1>1, <1>2 DEF JobsTypeOK
<1>7. \A r \in Runners : out[i][r] = 0
  BY <1>1, <1>2 DEF JobIsSound
<1>8. UNCHANGED <<at, reported, out, bad, restarts>> /\ pc[i] # "ended"
  BY <1>2
<1> DEFINE q == "prep"
<1>9. q \in (IF Kinds[i] = "stage05" THEN ComparisonStages ELSE LegacyStages) \ {None}
  BY <1>4 DEF ComparisonStages, None
<1>10. q \in {"wait", "prep", "lanes"} => pc[i] \in {None, "wait", "prep"}
  BY <1>2
<1>11. row.status \in Terminal => q = "ended"
  BY <1>3
<1>12. Kinds[i] = "stage05" /\ i \notin lost' =>
         /\ q = "finish" => row.artifact
         /\ row.status = "completed" => row.artifact /\ row.summary
  BY <1>3 DEF Terminal
<1>13. q = "activate" => i \in stored'
  OBVIOUS
<1>14. active' = active \/ (active' = i /\ i \in stored)
  BY <1>2
<1>15. Write(i, row) /\ pc' = [pc EXCEPT ![i] = q]
  BY <1>2
<1> HIDE DEF q
<1> QED
  BY <1>3, <1>5, <1>6, <1>7, <1>8, <1>9, <1>10, <1>11, <1>12, <1>13, <1>14, <1>15, GoroutineStep

LEMMA ComparisonIsSound ==
    ASSUME JobsAssumption, JobsInv, NEW i \in JobIds,
           PrepareComparison(i) \/ Compare(i) \/ StoreEvidence(i)
    PROVE  JobsInv'
<1>1. JobsTypeOK /\ JobIsSound(i) /\ job[i] \in Row /\ 35 \in 0 .. 100
  BY DEF JobsInv, JobsTypeOK
<1>2. /\ pc[i] \in InSlot /\ pc[i] \notin {None, "ended", "wait"}
      /\ slots' = slots \/ Release(i)
      /\ UNCHANGED <<at, reported, out, bad, stored, active, restarts>>
  BY DEF PrepareComparison, Compare, StoreEvidence, InSlot, None
<1>3. Kinds[i] = "stage05"
  BY <1>1 DEF PrepareComparison, Compare, StoreEvidence, JobIsSound, LegacyStages, None
<1>4. \A r \in Runners : out[i][r] = 0
  BY <1>1, <1>2 DEF JobIsSound, InSlot
<1>5. ASSUME Fail(i, FALSE), Release(i)
      PROVE  JobsInv'
  BY <1>2, <1>4, <1>5, FailIsSound
<1>6. CASE PrepareComparison(i)
  <2>1. CASE Write(i, Progress(i, 35)) /\ pc' = [pc EXCEPT ![i] = "compare"]
    <3>1. PICK row : row = Progress(i, 35) /\ Write(i, row)
      BY <2>1 DEF Write
    <3>2. row \in Row /\ row.status \notin Terminal
      BY <1>1, <3>1, RowsAreTyped, RowsSay DEF Terminal
    <3> QED
      BY <1>2, <1>3, <2>1, <3>1, <3>2, ComparisonGoesOn
  <2> QED
    BY <1>5, <1>6, <2>1 DEF PrepareComparison
<1>7. CASE Compare(i)
  <2>1. CASE pc' = [pc EXCEPT ![i] = "evidence"] /\ UNCHANGED <<job, lost>>
    <3>1. PICK row \in Row : row = job[i] /\ Write(i, row)
      BY <1>1, <2>1, NoUpdate
    <3>2. row.status \notin Terminal
      BY <1>1, <1>2, <3>1 DEF JobIsSound
    <3> QED
      BY <1>2, <1>3, <2>1, <3>1, <3>2, ComparisonGoesOn
  <2> QED
    BY <1>5, <1>7, <2>1 DEF Compare
<1>8. CASE StoreEvidence(i)
  <2>1. PICK row : row = [job[i] EXCEPT !.artifact = TRUE] /\ Write(i, row)
    BY <1>8 DEF StoreEvidence, Write
  <2>2. row \in Row /\ row.artifact /\ row.status = job[i].status
    BY <1>1, <2>1, RowsAreTyped, RowsSay
  <2>3. row.status \notin Terminal
    BY <1>1, <1>2, <2>2 DEF JobIsSound
  <2>4. pc' = [pc EXCEPT ![i] = "finish"]
    BY <1>8 DEF StoreEvidence
  <2> QED
    BY <1>2, <1>3, <2>1, <2>2, <2>3, <2>4, ComparisonGoesOn
<1> QED
  BY <1>6, <1>7, <1>8

LEMMA FinishJobIsSound ==
    ASSUME JobsAssumption, JobsInv, NEW i \in JobIds, FinishJob(i)
    PROVE  JobsInv'
<1>1. JobsTypeOK /\ JobIsSound(i) /\ SlotsAreHeld
  BY DEF JobsInv
<1>2. PICK row : /\ row = Completed(i) /\ Write(i, row)
                 /\ pc[i] = "finish" /\ pc' = [pc EXCEPT ![i] = "ended"]
                 /\ Release(i)
                 /\ UNCHANGED <<at, reported, out, bad, stored, active, restarts>>
  BY DEF FinishJob, Write
<1>3. row \in Row /\ row.status = "completed" /\ row.artifact = job[i].artifact /\ row.summary
  BY <1>1, <1>2, RowsAreTyped, RowsSay
<1>4. pc'[i] = "ended" /\ \A j \in JobIds : j # i => pc'[j] = pc[j]
  BY <1>1, <1>2 DEF JobsTypeOK
<1>5. SlotsAreHeld' /\ slots' \subseteq JobIds
  <2>1. Kinds[i] = "stage05" => pc[i] \in InSlot /\ pc'[i] \in InSlot \cup {"ended"}
    BY <1>2, <1>4 DEF InSlot
  <2> QED
    BY <1>1, <1>2, <1>4, <2>1, SlotsAreReleased
<1>6. stored \subseteq stored' /\ stored' \subseteq JobIds
  BY <1>1, <1>2 DEF JobsTypeOK
<1>7. \A r \in Runners : out[i][r] = 0
  BY <1>1, <1>2 DEF JobIsSound
<1>8. UNCHANGED <<at, reported, out, bad, restarts>> /\ pc[i] # "ended"
  BY <1>2
<1> DEFINE q == "ended"
<1>9. q \in (IF Kinds[i] = "stage05" THEN ComparisonStages ELSE LegacyStages) \ {None}
  BY DEF ComparisonStages, LegacyStages, None
<1>10. q \in {"wait", "prep", "lanes"} => pc[i] \in {None, "wait", "prep"}
  OBVIOUS
<1>11. row.status \in Terminal => q = "ended"
  OBVIOUS
<1>12. Kinds[i] = "stage05" /\ i \notin lost' =>
         /\ q = "finish" => row.artifact
         /\ row.status = "completed" => row.artifact /\ row.summary
  <2>1. lost \subseteq lost'
    BY <1>1, <1>2, <1>3, WriteKeeps
  <2> QED
    BY <1>1, <1>2, <1>3, <2>1 DEF JobIsSound
<1>13. q = "activate" => i \in stored'
  OBVIOUS
<1>14. active' = active \/ (active' = i /\ i \in stored)
  BY <1>2
<1>15. Write(i, row) /\ pc' = [pc EXCEPT ![i] = q]
  BY <1>2
<1> HIDE DEF q
<1> QED
  BY <1>3, <1>5, <1>6, <1>7, <1>8, <1>9, <1>10, <1>11, <1>12, <1>13, <1>14, <1>15, GoroutineStep

LEMMA ServerStopIsSound ==
    ASSUME JobsAssumption, JobsInv, ServerStops
    PROVE  JobsInv'
<1>1. JobsTypeOK /\ ActiveExperimentStored
  BY DEF JobsInv
<1>2. /\ restarts' \in 0 .. MaxRestarts
      /\ pc' = [i \in JobIds |-> IF pc[i] = None THEN None ELSE "ended"]
      /\ slots' = {} /\ out' = [i \in JobIds |-> [r \in Runners |-> 0]]
      /\ UNCHANGED <<job, at, reported, bad, stored, active, lost>>
  BY <1>1 DEF ServerStops, JobsTypeOK, JobsAssumption
<1>3. JobsTypeOK'
  <2>1. pc' \in [JobIds -> {None, "wait", "prep", "lanes", "windows", "register", "activate", "write",
                            "compare", "evidence", "finish", "ended"}]
    BY <1>2
  <2>2. out' \in [JobIds -> [Runners -> 0 .. 100]]
    BY <1>2
  <2> QED
    BY <1>1, <1>2, <2>1, <2>2 DEF JobsTypeOK, JobIds, Runners, Lanes
<1>4. ActiveExperimentStored'
  BY <1>1, <1>2 DEF ActiveExperimentStored
<1>5. ASSUME NEW i \in JobIds
      PROVE  JobIsSound(i)'
  <2>1. JobIsSound(i)
    BY DEF JobsInv
  <2>2. pc'[i] = (IF pc[i] = None THEN None ELSE "ended") /\ \A r \in Runners : out'[i][r] = 0
    BY <1>2
  <2>3. pc'[i] \in (IF Kinds[i] = "stage05" THEN ComparisonStages ELSE LegacyStages)
    BY <2>2 DEF ComparisonStages, LegacyStages
  <2>4. job'[i].status \in Terminal => pc'[i] = "ended"
    BY <1>2, <2>1, <2>2 DEF JobIsSound, None
  <2>5. pc'[i] \in {None, "wait", "prep", "lanes"} => \A l \in Lanes : reported'[i][l] <= at'[i][l]
    BY <1>2, <2>1, <2>2 DEF JobIsSound, None
  <2>6. pc'[i] # "lanes" /\ pc'[i] # "activate" /\ pc'[i] # "finish"
    BY <2>2 DEF None
  <2>7. Kinds[i] = "stage05" /\ i \notin lost' /\ job'[i].status = "completed" => job'[i].artifact /\ job'[i].summary
    BY <1>2, <2>1 DEF JobIsSound
  <2> QED
    BY <2>2, <2>3, <2>4, <2>5, <2>6, <2>7 DEF JobIsSound, Runners, Lanes
<1>6. SlotsAreHeld'
  <2> DEFINE S == {j \in JobIds : Kinds[j] = "stage05" /\ pc[j] \in {"prep", "compare", "evidence", "finish"}}
  <2>1. S' = {}
    BY <1>2 DEF None, JobIds
  <2>2. Cardinality({}) = 0
    BY FS_EmptySet
  <2>3. S' = slots' /\ Cardinality(S') <= Slots
    <3>1. Slots \in 1 .. 8
      BY DEF JobsAssumption
    <3> HIDE DEF S
    <3> QED
      BY <1>2, <2>1, <2>2, <3>1
  <2> QED
    BY <2>3 DEF SlotsAreHeld, JobIds
<1> QED
  BY <1>3, <1>4, <1>5, <1>6 DEF JobsInv, JobIds

LEMMA JobsStart == ASSUME JobsAssumption, JobsInit PROVE JobsInv
<1>1. JobsTypeOK
  <2>1. [status |-> None, progress |-> 0, summary |-> FALSE, artifact |-> FALSE] \in Row
    BY DEF Row
  <2>2. Len(Kinds) \in Nat /\ EngineBars \in Nat /\ MaxRestarts \in Nat
    BY DEF JobsAssumption
  <2> QED
    BY <2>1, <2>2 DEF JobsInit, JobsTypeOK
<1>2. ASSUME NEW i \in JobIds
      PROVE  JobIsSound(i)
  <2>1. job[i].status = None /\ pc[i] = None
    BY DEF JobsInit
  <2>2. \A l \in Lanes : reported[i][l] = 0 /\ at[i][l] = 0
    BY DEF JobsInit, Runners
  <2>3. \A r \in Runners : out[i][r] = 0
    BY DEF JobsInit
  <2> QED
    BY <2>1, <2>2, <2>3 DEF JobIsSound, None, Terminal, ComparisonStages, LegacyStages
<1>3. ActiveExperimentStored
  BY DEF JobsInit, ActiveExperimentStored
<1>4. SlotsAreHeld
  <2> DEFINE S == {j \in JobIds : Kinds[j] = "stage05" /\ pc[j] \in {"prep", "compare", "evidence", "finish"}}
  <2>1. S = {} /\ slots = {}
    BY DEF JobsInit, None
  <2>2. Cardinality({}) = 0
    BY FS_EmptySet
  <2>3. S = slots /\ Cardinality(S) <= Slots
    <3>1. Slots \in 1 .. 8
      BY DEF JobsAssumption
    <3> HIDE DEF S
    <3> QED
      BY <2>1, <2>2, <3>1
  <2> QED
    BY <2>3 DEF SlotsAreHeld
<1> QED
  BY <1>1, <1>2, <1>3, <1>4 DEF JobsInv

LEMMA JobsStep == ASSUME JobsAssumption, JobsInv, [JobsNext]_jobsVars PROVE JobsInv'
<1>1. CASE \E i \in JobIds : StartBacktestJob(i) \/ StartStage05ComparisonJob(i)
  BY <1>1, StartIsSound
<1>2. ASSUME NEW i \in JobIds, Step(i)
      PROVE  JobsInv'
  <2>1. CASE PrepareLegacy(i) \/ JoinLanes(i) \/ JoinWindows(i)
    BY <2>1, PrepareLegacyIsSound, JoinLanesIsSound, JoinWindowsIsSound
  <2>2. CASE RegisterExperimentRun(i) \/ ActivateExperiment(i) \/ WriteBacktestOutputs(i)
    BY <2>2, AfterWindowsIsSound
  <2>3. CASE PrepareComparison(i) \/ Compare(i) \/ StoreEvidence(i)
    BY <2>3, ComparisonIsSound
  <2>4. CASE FinishJob(i)
    BY <2>4, FinishJobIsSound
  <2>5. CASE \E r \in Runners : Deliver(i, r)
    BY <2>5, DeliverIsSound
  <2>6. CASE \E l \in Lanes : LaneBar(i, l) \/ LaneEnd(i, l)
    BY <2>6, LaneBarIsSound, LaneEndIsSound
  <2>7. CASE \E w \in 1 .. Windows : TakeWindow(i, w) \/ RunReturns(i, w) \/ NextRun(i, w) \/ WindowDone(i, w)
    BY <2>7, TakeWindowIsSound, RunReturnsIsSound, NextRunIsSound, WindowDoneIsSound
  <2> QED
    BY <1>2, <2>1, <2>2, <2>3, <2>4, <2>5, <2>6, <2>7 DEF Step
<1>3. CASE \E i \in JobIds : AcquireSlot(i)
  BY <1>3, AcquireSlotIsSound
<1>4. CASE ServerStops
  BY <1>4, ServerStopIsSound
<1>5. CASE UNCHANGED jobsVars
  <2>1. JobsTypeOK'
    BY <1>5 DEF JobsInv, JobsTypeOK, jobsVars, JobIds, Runners, Lanes
  <2>2. ASSUME NEW j \in JobIds
        PROVE  JobIsSound(j)'
    <3>1. JobIsSound(j)
      BY DEF JobsInv
    <3> QED
      BY <1>5, <3>1, OthersStaySound DEF jobsVars
  <2>3. SlotsAreHeld' /\ ActiveExperimentStored'
    BY <1>5 DEF JobsInv, SlotsAreHeld, ActiveExperimentStored, jobsVars, JobIds
  <2> QED
    BY <2>1, <2>2, <2>3 DEF JobsInv, JobIds
<1> QED
  BY <1>1, <1>2, <1>3, <1>4, <1>5 DEF JobsNext

\* The one row that a step may update is of a goroutine that has not ended.
LEMMA OnlyTheRunningUpdate ==
    ASSUME JobsInv, JobsNext
    PROVE  \/ job' = job
           \/ \E i \in JobIds : \E row : pc[i] # "ended" /\ job' = [job EXCEPT ![i] = row]
<1> DEFINE Updates == \E i \in JobIds : \E row : pc[i] # "ended" /\ job' = [job EXCEPT ![i] = row]
<1>1. ASSUME NEW i \in JobIds, NEW row, Write(i, row), pc[i] # "ended"
      PROVE  job' = job \/ Updates
  BY <1>1 DEF Write
<1>2. ASSUME NEW i \in JobIds, StartBacktestJob(i) \/ StartStage05ComparisonJob(i)
      PROVE  Updates
  <2>1. job' = [job EXCEPT ![i] = [job[i] EXCEPT !.status = "pending"]] /\ pc[i] = None
    BY <1>2 DEF StartBacktestJob, StartStage05ComparisonJob
  <2> QED
    BY <2>1 DEF None
<1>3. ASSUME NEW i \in JobIds, NEW r \in Runners, Deliver(i, r)
      PROVE  job' = job \/ Updates
  <2>1. JobIsSound(i)
    BY DEF JobsInv
  <2>2. PICK row : Write(i, row) /\ out[i][r] # 0
    BY <1>3 DEF Deliver, Write
  <2> QED
    BY <1>1, <2>1, <2>2 DEF JobIsSound
<1>4. ASSUME NEW i \in JobIds, NEW results, Fail(i, results), pc[i] # "ended"
      PROVE  job' = job \/ Updates
  <2>1. PICK row : Write(i, row)
    BY <1>4 DEF Fail, Write
  <2> QED
    BY <1>1, <1>4, <2>1
<1>5. ASSUME NEW i \in JobIds,
             PrepareLegacy(i) \/ JoinLanes(i) \/ PrepareComparison(i) \/ StoreEvidence(i) \/ FinishJob(i) \/ AcquireSlot(i)
      PROVE  job' = job \/ Updates
  <2>1. pc[i] # "ended"
    BY <1>5 DEF PrepareLegacy, JoinLanes, PrepareComparison, StoreEvidence, FinishJob, AcquireSlot
  <2>2. \/ \E row : Write(i, row)
        \/ \E results : Fail(i, results)
    BY <1>5 DEF PrepareLegacy, JoinLanes, PrepareComparison, StoreEvidence, FinishJob, AcquireSlot, Write
  <2> QED
    BY <1>1, <1>4, <2>1, <2>2
<1>6. ASSUME NEW i \in JobIds,
             JoinWindows(i) \/ RegisterExperimentRun(i) \/ ActivateExperiment(i) \/ WriteBacktestOutputs(i) \/ Compare(i)
      PROVE  job' = job \/ Updates
  <2>1. pc[i] # "ended"
    BY <1>6 DEF JoinWindows, RegisterExperimentRun, ActivateExperiment, WriteBacktestOutputs, Compare
  <2>2. job' = job \/ \E results : Fail(i, results)
    BY <1>6 DEF JoinWindows, RegisterExperimentRun, ActivateExperiment, WriteBacktestOutputs, Compare
  <2> QED
    BY <1>4, <2>1, <2>2
<1>7. ASSUME NEW i \in JobIds, NEW r, LaneBar(i, r) \/ LaneEnd(i, r) \/ TakeWindow(i, r) \/ RunReturns(i, r)
                                       \/ NextRun(i, r) \/ WindowDone(i, r)
      PROVE  job' = job
  BY <1>7 DEF LaneBar, LaneEnd, TakeWindow, RunReturns, NextRun, WindowDone
<1>8. ASSUME ServerStops
      PROVE  job' = job
  BY <1>8 DEF ServerStops
<1> HIDE DEF Updates
<1>9. job' = job \/ Updates
  <2>1. ASSUME NEW i \in JobIds, Step(i)
        PROVE  job' = job \/ Updates
    BY <1>3, <1>5, <1>6, <1>7, <2>1 DEF Step
  <2>2. CASE \E i \in JobIds : StartBacktestJob(i) \/ StartStage05ComparisonJob(i)
    BY <1>2, <2>2
  <2>3. CASE \E i \in JobIds : Step(i) \/ AcquireSlot(i)
    BY <1>5, <2>1, <2>3
  <2> QED
    BY <1>8, <2>2, <2>3 DEF JobsNext
<1> QED
  BY <1>9 DEF Updates

\* Nothing of a backtest job is said to be there that is not: the progress of
\* the lanes is the slower one's, no more comparisons run than there are slots,
\* and what a completed comparison or the model artifact names is stored, for
\* every list of jobs, of slots, bars, windows, workers and restarts
\* (runBacktestJob, dispatchStage05ComparisonJob).
THEOREM JobsBacked == ASSUME JobsAssumption PROVE JobsSpec => []JobsAreBacked
<1>1. JobsInit => JobsInv
  BY JobsStart
<1>2. JobsInv /\ [JobsNext]_jobsVars => JobsInv'
  BY JobsStep
<1>3. JobsInv => JobsAreBacked
  <2> SUFFICES ASSUME JobsInv PROVE JobsAreBacked
    OBVIOUS
  <2>1. DualLaneBand
    <3>1. Lanes \subseteq Runners
      BY DEF Runners
    <3> QED
      BY <3>1 DEF JobsInv, JobIsSound, DualLaneBand
  <2>2. CompletedIsSource
    BY DEF JobsInv, JobIsSound, CompletedIsSource
  <2> QED
    BY <2>1, <2>2 DEF JobsAreBacked, JobsInv
<1> QED
  BY <1>1, <1>2, <1>3, PTL DEF JobsSpec

\* A job that ended as completed or failed never ends as anything else: no
\* late progress of a lane or window brings it back (updateBacktestJob).
THEOREM JobsEndOnce == ASSUME JobsAssumption PROVE JobsSpec => [][TerminalIsFinal]_jobsVars
<1>1. JobsInit => JobsInv
  BY JobsStart
<1>2. JobsInv /\ [JobsNext]_jobsVars => JobsInv'
  BY JobsStep
<1>3. JobsInv /\ JobsNext => TerminalIsFinal
  <2> SUFFICES ASSUME JobsInv, JobsNext, NEW j \in JobIds, job[j].status \in Terminal
               PROVE  job'[j].status = job[j].status
    BY DEF TerminalIsFinal
  <2>1. JobIsSound(j) /\ job \in [JobIds -> Row]
    BY DEF JobsInv, JobsTypeOK
  <2>2. pc[j] = "ended"
    BY <2>1 DEF JobIsSound
  <2> QED
    BY <2>1, <2>2, OnlyTheRunningUpdate
<1> QED
  BY <1>1, <1>2, <1>3, PTL DEF JobsSpec
-----------------------------------------------------------------------------
\* The goroutines that hold a symbol.
Fetching == {w \in Pool : worker[w] \notin {Waiting, Exited}}

\* A symbol that was not yet stored is queued, with a goroutine or in the channel.
OnItsWay(s) ==
    \/ \E i \in 1 .. Len(queue) : queue[i] = s
    \/ \E w \in Pool : worker[w] = s
    \/ \E i \in 1 .. Len(channel) : channel[i].symbol = s

\* The channel has room for what is queued and fetched as well, and while
\* nothing has failed no symbol is lost.  A goroutine has left only an empty
\* queue.
InputsInv ==
    /\ mode \in {"live", "manifest"} /\ queue \in Seq(SymbolSet)
    /\ worker \in [Pool -> SymbolSet \cup {Waiting, Exited}]
    /\ channel \in Seq(Result) /\ series \subseteq SymbolSet
    /\ outcome \in {"none", "ok", "error", "coverage_error"}
    /\ version \in [listed: 0 .. (Horizon - 1), delisted: 1 .. Open] /\ rows \in Seq(ConstraintRow)
    /\ Len(queue) + Cardinality(Fetching) + Len(channel) <= Capacity
    /\ mode = "live" => /\ (\E w \in Pool : worker[w] = Exited) => queue = <<>>
                        /\ outcome = "none" => \A s \in SymbolSet : s \in series \/ OnItsWay(s)
    /\ PreparedHasEverySymbol /\ ExecutableBarsResolve

\* A symbol is never mistaken for the state of a goroutine.
LEMMA SymbolsAreNamed ==
    ASSUME InputsAssumption
    PROVE  /\ SymbolSet \cap {Waiting, Exited} = {} /\ Symbols \in Seq(SymbolSet)
           /\ PoolSize \in Nat \ {0} /\ Capacity \in Nat
<1>1. SymbolSet \cap {Waiting, Exited} = {}
  BY DEF InputsAssumption, SymbolSet, Waiting, Exited
<1>2. Symbols \in Seq(SymbolSet)
  BY SeqDef DEF InputsAssumption, SymbolSet
<1>3. PoolSize \in Nat \ {0} /\ Capacity \in Nat
  BY DEF InputsAssumption, PoolSize, Capacity
<1> QED BY <1>1, <1>2, <1>3

LEMMA FetchingIsFinite == ASSUME InputsAssumption PROVE IsFiniteSet(Fetching) /\ Cardinality(Fetching) \in Nat
<1>1. IsFiniteSet(1 .. PoolSize)
  BY SymbolsAreNamed, FS_Interval
<1>2. Fetching \subseteq 1 .. PoolSize
  BY DEF Fetching, Pool
<1>3. IsFiniteSet(Fetching)
  BY <1>1, <1>2, FS_Subset
<1> QED BY <1>3, FS_CardinalityType

LEMMA InputsStart == ASSUME InputsAssumption, InputsInit PROVE InputsInv
<1> USE DEF InputsInit
<1>1. Fetching = {}
  BY DEF Fetching
<1>2. Cardinality(Fetching) = 0
  BY <1>1, FS_EmptySet
<1>3. queue \in Seq(SymbolSet) /\ channel \in Seq(Result) /\ Len(channel) = 0 /\ Len(queue) \in Nat
  BY SymbolsAreNamed
<1>4. Len(queue) + Cardinality(Fetching) + Len(channel) <= Capacity
  BY <1>2, <1>3 DEF Capacity
<1>5. \A s \in SymbolSet : OnItsWay(s)
  BY DEF SymbolSet, OnItsWay
<1>6. \A w \in Pool : worker[w] # Exited
  BY DEF Waiting, Exited
<1>7. version \in [listed: 0 .. (Horizon - 1), delisted: 1 .. Open] /\ rows \in Seq(ConstraintRow)
  <2>1. CASE mode = "live"
    <3>1. 0 \in 0 .. (Horizon - 1) /\ Open \in 1 .. Open
      BY DEF InputsAssumption, Open
    <3>2. <<>> \in Seq(ConstraintRow)
      OBVIOUS
    <3> QED BY <2>1, <3>1, <3>2
  <2>2. CASE mode = "manifest"
    <3>1. rows \in RowSequences /\ version \in [listed: 0 .. (Horizon - 1), delisted: 1 .. Open]
      BY <2>2
    <3>2. PICK n \in 0 .. MaxRows : rows \in [1 .. n -> ConstraintRow]
      BY <3>1 DEF RowSequences
    <3>3. n \in Nat
      BY <3>2 DEF InputsAssumption
    <3>4. rows \in Seq(ConstraintRow)
      BY <3>2, <3>3, SeqDef
    <3> QED BY <3>1, <3>4
  <2> QED BY <2>1, <2>2
<1>8. PreparedHasEverySymbol /\ ExecutableBarsResolve
  BY DEF PreparedHasEverySymbol, ExecutableBarsResolve
<1>9. worker \in [Pool -> SymbolSet \cup {Waiting, Exited}]
  OBVIOUS
<1> QED BY <1>3, <1>4, <1>5, <1>6, <1>7, <1>8, <1>9 DEF InputsInv

LEMMA TakeKeeps ==
    ASSUME InputsAssumption, InputsInv, NEW w \in Pool, Take(w)
    PROVE  InputsInv'
<1>1. mode = "live" /\ worker[w] = Waiting
  BY DEF Take
<1>2. UNCHANGED <<mode, channel, series, outcome, request, missing, version, rows>>
  BY DEF Take, Manifested
<1>3. PreparedHasEverySymbol' /\ ExecutableBarsResolve'
  BY <1>1, <1>2 DEF InputsInv, PreparedHasEverySymbol, ExecutableBarsResolve
<1>4. IsFiniteSet(Fetching) /\ Cardinality(Fetching) \in Nat /\ w \notin Fetching
  BY <1>1, FetchingIsFinite DEF Fetching
<1>5. CASE queue # <<>> /\ worker' = [worker EXCEPT ![w] = Head(queue)] /\ queue' = Tail(queue)
  <2>1. queue \in Seq(SymbolSet) /\ queue # <<>>
    BY <1>5 DEF InputsInv
  <2>2. /\ Head(queue) \in SymbolSet /\ Head(queue) = queue[1] /\ queue' \in Seq(SymbolSet) /\ Len(queue) \in Nat
        /\ Len(queue') = Len(queue) - 1
        /\ \A i \in 1 .. Len(queue') : queue'[i] = queue[i + 1]
    BY <1>5, <2>1, HeadTailProperties
  <2>3. Head(queue) \notin {Waiting, Exited}
    BY <2>2, SymbolsAreNamed
  <2>4. worker' \in [Pool -> SymbolSet \cup {Waiting, Exited}]
    BY <1>5, <2>2 DEF InputsInv
  <2>5. Fetching' = Fetching \cup {w}
    BY <1>5, <2>3 DEF Fetching, InputsInv
  <2>6. Cardinality(Fetching') = Cardinality(Fetching) + 1
    BY <1>4, <2>5, FS_AddElement
  <2>7. Len(queue') + Cardinality(Fetching') + Len(channel') <= Capacity
    <3>1. Len(queue) + Cardinality(Fetching) + Len(channel) <= Capacity /\ channel \in Seq(Result)
      BY DEF InputsInv
    <3>2. Len(channel) \in Nat /\ Len(channel') = Len(channel)
      BY <1>2, <3>1
    <3> QED BY <1>4, <2>2, <2>6, <3>1, <3>2, SymbolsAreNamed
  <2>8. \A v \in Pool : worker'[v] # Exited
    <3>1. \A v \in Pool : worker[v] # Exited
      BY <1>1, <1>5 DEF InputsInv
    <3> QED BY <1>5, <2>3, <3>1 DEF InputsInv
  <2>9. ASSUME outcome' = "none", NEW s \in SymbolSet PROVE s \in series' \/ OnItsWay(s)'
    <3>1. s \in series \/ OnItsWay(s)
      BY <1>1, <1>2, <2>9 DEF InputsInv
    <3>2. CASE s \in series
      BY <1>2, <3>2
    <3>3. CASE \E i \in 1 .. Len(channel) : channel[i].symbol = s
      BY <1>2, <3>3 DEF OnItsWay
    <3>4. CASE \E v \in Pool : worker[v] = s
      <4>1. PICK v \in Pool : worker[v] = s
        BY <3>4
      <4>2. v # w
        BY <1>1, <4>1, SymbolsAreNamed
      <4>3. worker'[v] = s
        BY <1>5, <4>1, <4>2 DEF InputsInv
      <4> QED BY <4>1, <4>3 DEF OnItsWay
    <3>5. CASE \E i \in 1 .. Len(queue) : queue[i] = s
      <4>1. PICK i \in 1 .. Len(queue) : queue[i] = s
        BY <3>5
      <4>2. CASE i = 1
        <5>1. worker'[w] = s
          BY <1>5, <2>2, <4>1, <4>2 DEF InputsInv
        <5> QED BY <5>1 DEF OnItsWay
      <4>3. CASE i # 1
        <5>1. i - 1 \in 1 .. Len(queue') /\ queue'[i - 1] = s
          BY <2>2, <4>1, <4>3
        <5> QED BY <5>1 DEF OnItsWay
      <4> QED BY <4>2, <4>3
    <3> QED BY <3>1, <3>2, <3>3, <3>4, <3>5 DEF OnItsWay
  <2> QED BY <1>2, <1>3, <2>2, <2>4, <2>7, <2>8, <2>9 DEF InputsInv
<1>6. CASE queue = <<>> /\ worker' = [worker EXCEPT ![w] = Exited] /\ UNCHANGED queue
  <2>1. Fetching' = Fetching
    BY <1>1, <1>6 DEF Fetching, InputsInv
  <2>2. worker' \in [Pool -> SymbolSet \cup {Waiting, Exited}]
    BY <1>6 DEF InputsInv
  <2>3. ASSUME outcome' = "none", NEW s \in SymbolSet PROVE s \in series' \/ OnItsWay(s)'
    <3>1. s \in series \/ OnItsWay(s)
      BY <1>1, <1>2, <2>3 DEF InputsInv
    <3>2. ASSUME NEW v \in Pool, worker[v] = s PROVE worker'[v] = s
      <4>1. v # w
        BY <1>1, <3>2, SymbolsAreNamed
      <4> QED BY <1>6, <3>2, <4>1 DEF InputsInv
    <3> QED BY <1>2, <1>6, <3>1, <3>2 DEF OnItsWay
  <2>4. Len(queue') + Cardinality(Fetching') + Len(channel') <= Capacity
    BY <1>2, <1>6, <2>1 DEF InputsInv
  <2>5. queue' = <<>> /\ queue' \in Seq(SymbolSet)
    BY <1>6 DEF InputsInv
  <2> QED BY <1>2, <1>3, <2>2, <2>3, <2>4, <2>5 DEF InputsInv
<1> QED BY <1>5, <1>6 DEF Take

LEMMA FetchKeeps ==
    ASSUME InputsAssumption, InputsInv, NEW w \in Pool, Fetch(w)
    PROVE  InputsInv'
<1>1. UNCHANGED <<mode, queue, series, outcome, request, missing, version, rows>>
  BY DEF Fetch, Manifested
<1>2. PreparedHasEverySymbol' /\ ExecutableBarsResolve'
  BY <1>1 DEF InputsInv, PreparedHasEverySymbol, ExecutableBarsResolve, ExecutableStart, ExecutableEnd, ConstraintAt
<1>3. PICK ok \in BOOLEAN : channel' = Append(channel, [symbol |-> worker[w], ok |-> ok])
  BY DEF Fetch
<1>4. worker[w] \in SymbolSet /\ worker' = [worker EXCEPT ![w] = Waiting] /\ worker[w] \notin {Waiting, Exited}
  BY DEF Fetch, InputsInv
<1> DEFINE new == [symbol |-> worker[w], ok |-> ok]
<1>5. new \in Result /\ channel \in Seq(Result)
  BY <1>4 DEF Result, InputsInv
<1>6. /\ channel' \in Seq(Result) /\ Len(channel) \in Nat /\ Len(channel') = Len(channel) + 1
      /\ \A i \in 1 .. Len(channel) : channel'[i] = channel[i]
      /\ channel'[Len(channel) + 1].symbol = worker[w]
  BY <1>3, <1>5, AppendProperties
<1>7. IsFiniteSet(Fetching) /\ Cardinality(Fetching) \in Nat /\ w \in Fetching
  BY <1>4, FetchingIsFinite DEF Fetching
<1>8. Fetching' = Fetching \ {w}
  BY <1>4 DEF Fetching, InputsInv
<1>9. Cardinality(Fetching') = Cardinality(Fetching) - 1
  BY <1>7, <1>8, FS_RemoveElement
<1>10. Len(queue') + Cardinality(Fetching') + Len(channel') <= Capacity
  <2>1. Len(queue) + Cardinality(Fetching) + Len(channel) <= Capacity /\ Len(queue) \in Nat /\ Len(queue') = Len(queue)
    BY <1>1 DEF InputsInv
  <2> QED BY <1>6, <1>7, <1>9, <2>1, SymbolsAreNamed
<1>11. worker' \in [Pool -> SymbolSet \cup {Waiting, Exited}]
  BY <1>4 DEF InputsInv
<1>12. ASSUME mode' = "live", NEW v \in Pool, worker'[v] = Exited PROVE queue' = <<>>
  <2>1. worker[v] = Exited
    BY <1>4, <1>12 DEF InputsInv, Waiting, Exited
  <2> QED BY <1>1, <1>12, <2>1 DEF InputsInv
<1>13. ASSUME mode' = "live", outcome' = "none", NEW s \in SymbolSet PROVE s \in series' \/ OnItsWay(s)'
  <2>1. s \in series \/ OnItsWay(s)
    BY <1>1, <1>13 DEF InputsInv
  <2>2. CASE s \in series \/ \E i \in 1 .. Len(queue) : queue[i] = s
    BY <1>1, <2>2 DEF OnItsWay
  <2>3. CASE \E i \in 1 .. Len(channel) : channel[i].symbol = s
    <3>1. PICK i \in 1 .. Len(channel) : channel[i].symbol = s
      BY <2>3
    <3>2. i \in 1 .. Len(channel') /\ channel'[i].symbol = s
      BY <1>6, <3>1
    <3> QED BY <3>2 DEF OnItsWay
  <2>4. CASE \E v \in Pool : worker[v] = s
    <3>1. PICK v \in Pool : worker[v] = s
      BY <2>4
    <3>2. CASE v = w
      <4>1. Len(channel) + 1 \in 1 .. Len(channel') /\ channel'[Len(channel) + 1].symbol = s
        BY <1>6, <3>1, <3>2
      <4> QED BY <4>1 DEF OnItsWay
    <3>3. CASE v # w
      <4>1. worker'[v] = s
        BY <1>4, <3>1, <3>3 DEF InputsInv
      <4> QED BY <4>1 DEF OnItsWay
    <3> QED BY <3>2, <3>3
  <2> QED BY <2>1, <2>2, <2>3, <2>4 DEF OnItsWay
<1> QED BY <1>1, <1>2, <1>6, <1>10, <1>11, <1>12, <1>13 DEF InputsInv

LEMMA CollectKeeps ==
    ASSUME InputsAssumption, InputsInv, Collect
    PROVE  InputsInv'
<1>1. /\ mode = "live" /\ outcome = "none" /\ channel # <<>> /\ channel' = Tail(channel)
      /\ UNCHANGED <<mode, queue, worker, request, missing, version, rows>>
  BY DEF Collect, Manifested
<1>2. /\ Head(channel) \in Result /\ Head(channel) = channel[1] /\ channel' \in Seq(Result)
      /\ Len(channel) \in Nat /\ Len(channel') = Len(channel) - 1
      /\ \A i \in 1 .. Len(channel') : channel'[i] = channel[i + 1]
  <2>1. channel \in Seq(Result)
    BY DEF InputsInv
  <2> QED BY <1>1, <2>1, HeadTailProperties
<1>3. \/ Head(channel).ok /\ series' = series \cup {Head(channel).symbol} /\ outcome' = "none"
      \/ outcome' = "error" /\ series' = series
  BY <1>1 DEF Collect
<1>4. series' \subseteq SymbolSet
  BY <1>2, <1>3 DEF InputsInv, Result
<1>5. Fetching' = Fetching
  BY <1>1 DEF Fetching
<1>6. Len(queue') + Cardinality(Fetching') + Len(channel') <= Capacity
  <2>1. Len(queue) + Cardinality(Fetching) + Len(channel) <= Capacity /\ Len(queue) \in Nat /\ Len(queue') = Len(queue)
    BY <1>1 DEF InputsInv
  <2> QED BY <1>2, <1>5, <2>1, FetchingIsFinite, SymbolsAreNamed
<1>7. ASSUME outcome' = "none", NEW s \in SymbolSet PROVE s \in series' \/ OnItsWay(s)'
  <2>1. s \in series \/ OnItsWay(s)
    BY <1>1 DEF InputsInv
  <2>2. series' = series \cup {Head(channel).symbol}
    BY <1>3, <1>7
  <2>3. CASE s \in series
    BY <2>2, <2>3
  <2>4. CASE (\E i \in 1 .. Len(queue) : queue[i] = s) \/ \E v \in Pool : worker[v] = s
    BY <1>1, <2>4 DEF OnItsWay
  <2>5. CASE \E i \in 1 .. Len(channel) : channel[i].symbol = s
    <3>1. PICK i \in 1 .. Len(channel) : channel[i].symbol = s
      BY <2>5
    <3>2. CASE i = 1
      BY <1>2, <2>2, <3>1, <3>2
    <3>3. CASE i # 1
      <4>1. i - 1 \in 1 .. Len(channel') /\ channel'[i - 1].symbol = s
        BY <1>2, <3>1, <3>3
      <4> QED BY <4>1 DEF OnItsWay
    <3> QED BY <3>2, <3>3
  <2> QED BY <2>1, <2>3, <2>4, <2>5 DEF OnItsWay
<1>8. PreparedHasEverySymbol' /\ ExecutableBarsResolve'
  BY <1>1, <1>3 DEF PreparedHasEverySymbol, ExecutableBarsResolve
<1> QED BY <1>1, <1>2, <1>3, <1>4, <1>6, <1>7, <1>8 DEF InputsInv

LEMMA AssembleKeeps ==
    ASSUME InputsAssumption, InputsInv, AssembleLive
    PROVE  InputsInv'
<1>1. /\ mode = "live" /\ outcome = "none" /\ Drained /\ outcome' \in {"ok", "error"}
      /\ UNCHANGED <<mode, queue, worker, channel, series, request, missing, version, rows>>
  BY DEF AssembleLive, Manifested
<1>2. queue = <<>> /\ channel = <<>> /\ \A w \in Pool : worker[w] = Exited
  <2>1. 1 \in Pool
    BY SymbolsAreNamed DEF Pool
  <2> QED BY <1>1, <2>1 DEF Drained, InputsInv
<1>3. \A s \in SymbolSet : ~OnItsWay(s)
  BY <1>2, SymbolsAreNamed DEF OnItsWay
<1>4. series = SymbolSet
  BY <1>1, <1>3 DEF InputsInv
<1>5. PreparedHasEverySymbol' /\ ExecutableBarsResolve'
  BY <1>1, <1>4 DEF PreparedHasEverySymbol, ExecutableBarsResolve, SymbolSet
<1>6. Fetching' = Fetching
  BY <1>1 DEF Fetching
<1> QED BY <1>1, <1>5, <1>6 DEF InputsInv

\* What constraintsCoverRows passes has a row in force at every executable time:
\* the first of the rows it walked that ends later.
LEMMA CoveredResolves ==
    ASSUME InputsAssumption, InputsInv, ConstraintsCoverRows(ExecutableStart, ExecutableEnd),
           NEW t \in ExecutableStart .. (ExecutableEnd - 1)
    PROVE  ConstraintAt(t) # 0
<1> DEFINE start == ExecutableStart
           stop == ExecutableEnd
           reached(x, k) == start >= x \/ \E j \in 1 .. k : rows[j].to >= x
<1>1. start \in Nat /\ stop \in Nat /\ stop <= Horizon /\ t \in Nat /\ start <= t /\ t < stop /\ Horizon \in Nat
  <2>1. version.listed \in Nat /\ version.delisted \in Nat /\ Horizon \in Nat
    BY DEF InputsInv, InputsAssumption, Open
  <2>2. ExecutableStart \in Nat /\ ExecutableEnd \in Nat /\ ExecutableEnd <= Horizon
    BY <2>1 DEF ExecutableStart, ExecutableEnd
  <2> QED BY <2>1, <2>2
<1>2. PICK k \in 1 .. Len(rows) : /\ rows[k].to = Open \/ reached(stop, k)
                                  /\ \A j \in 1 .. k : reached(Usable(rows[j]), j - 1)
  BY <1>1 DEF ConstraintsCoverRows
<1>3. rows \in Seq(ConstraintRow) /\ Len(rows) \in Nat
  BY DEF InputsInv
<1>4. \A j \in 1 .. Len(rows) : /\ rows[j].from \in Nat /\ rows[j].to \in Nat /\ rows[j].available \in Nat
                                /\ rows[j].to <= Open
  <2>1. \A j \in 1 .. Len(rows) : rows[j] \in ConstraintRow
    BY <1>3
  <2> QED BY <2>1 DEF ConstraintRow, Open, InputsAssumption
<1> HIDE DEF start, stop
<1>5. \E j \in 1 .. k : rows[j].to > t
  <2>1. CASE rows[k].to = Open
    BY <1>1, <1>2, <2>1 DEF Open
  <2>2. CASE reached(stop, k)
    <3>1. PICK j \in 1 .. k : rows[j].to >= stop
      BY <1>1, <2>2
    <3>2. rows[j].to \in Nat
      BY <1>2, <1>3, <1>4, <3>1
    <3> QED BY <1>1, <3>1, <3>2
  <2> QED BY <1>2, <2>1, <2>2
<1> DEFINE early == {m \in 0 .. k : \A j \in 1 .. m : ~(rows[j].to > t)}
           m == Max(early)
<1>6. m \in early /\ \A y \in early : y <= m
  <2>1. 0 \in early /\ early \in SUBSET (0 .. k) /\ k \in Nat
    BY <1>2, <1>3
  <2> HIDE DEF early
  <2> QED BY <2>1, GreatestExists
<1>7. m \in 0 .. k /\ \A j \in 1 .. m : ~(rows[j].to > t)
  BY <1>6
<1> HIDE DEF m
<1>8. m # k
  BY <1>2, <1>5, <1>7
<1>9. m + 1 \in 1 .. k /\ m + 1 \in 1 .. Len(rows)
  BY <1>2, <1>3, <1>7, <1>8
<1>10. rows[m + 1].to > t
  <2>1. m + 1 \notin early
    <3>1. ~(m + 1 <= m)
      BY <1>7
    <3> QED BY <1>6, <3>1
  <2>2. PICK j \in 1 .. (m + 1) : rows[j].to > t
    BY <1>9, <2>1, <1>2, <1>3
  <2>3. j = m + 1
    BY <1>7, <2>2
  <2> QED BY <2>2, <2>3
<1> HIDE DEF early
<1>11. Usable(rows[m + 1]) <= t
  <2>1. reached(Usable(rows[m + 1]), m)
    <3>1. reached(Usable(rows[m + 1]), (m + 1) - 1)
      BY <1>2, <1>9
    <3>2. (m + 1) - 1 = m
      BY <1>7
    <3> QED BY <3>1, <3>2
  <2>2. Usable(rows[m + 1]) \in Nat
    BY <1>4, <1>9 DEF Usable
  <2>3. CASE start >= Usable(rows[m + 1])
    BY <1>1, <2>2, <2>3
  <2>4. CASE \E j \in 1 .. m : rows[j].to >= Usable(rows[m + 1])
    <3>1. PICK j \in 1 .. m : rows[j].to >= Usable(rows[m + 1])
      BY <2>4
    <3>2. rows[j].to \in Nat /\ rows[j].to <= t
      BY <1>1, <1>4, <1>7, <1>9, <3>1
    <3> QED BY <1>1, <2>2, <3>1, <3>2
  <2> QED BY <2>1, <2>3, <2>4
<1>12. rows[m + 1].from <= t /\ rows[m + 1].available <= t
  BY <1>1, <1>4, <1>9, <1>11 DEF Usable
<1> DEFINE hits == {i \in 1 .. Len(rows) : rows[i].from <= t /\ rows[i].available <= t /\ t < rows[i].to}
<1>13. hits # {} /\ hits \in SUBSET (0 .. Len(rows))
  BY <1>1, <1>3, <1>4, <1>9, <1>10, <1>12
<1>14. ConstraintAt(t) = CHOOSE i \in hits : \A j \in hits : j <= i
  BY <1>13 DEF ConstraintAt
<1>15. \E i \in hits : \A j \in hits : j <= i
  <2> HIDE DEF hits
  <2> QED BY <1>3, <1>13, GreatestExists
<1>16. ConstraintAt(t) \in hits
  <2> HIDE DEF hits
  <2> QED BY <1>14, <1>15
<1> QED BY <1>16

LEMMA PrepareKeeps ==
    ASSUME InputsAssumption, InputsInv, PreparePointInTime
    PROVE  InputsInv'
<1>1. /\ mode = "manifest" /\ outcome' \in {"ok", "error", "coverage_error"}
      /\ series' = (IF outcome' = "ok" THEN SymbolSet ELSE {})
      /\ UNCHANGED <<mode, queue, worker, channel, request, missing, version, rows>>
      /\ outcome' = "ok" => ConstraintsCoverRows(ExecutableStart, ExecutableEnd)
  BY DEF PreparePointInTime, Manifested
<1>2. PreparedHasEverySymbol' /\ series' \subseteq SymbolSet
  BY <1>1 DEF PreparedHasEverySymbol, SymbolSet
<1>3. ExecutableBarsResolve'
  <2>1. ExecutableStart' = ExecutableStart /\ ExecutableEnd' = ExecutableEnd
    BY <1>1 DEF ExecutableStart, ExecutableEnd
  <2>2. \A t : ConstraintAt(t)' = ConstraintAt(t)
    BY <1>1 DEF ConstraintAt
  <2>3. ASSUME outcome' = "ok", NEW t \in ExecutableStart .. (ExecutableEnd - 1) PROVE ConstraintAt(t) # 0
    BY <1>1, <2>3, CoveredResolves
  <2> QED BY <2>1, <2>2, <2>3 DEF ExecutableBarsResolve
<1>4. Fetching' = Fetching
  BY <1>1 DEF Fetching
<1> QED BY <1>1, <1>2, <1>3, <1>4 DEF InputsInv

\* A prepared run has the bars of every symbol and constraints at every time it
\* can trade, and no goroutine of the loader waits for ever
\* (prepareBacktestInputsWithSettings), for any symbols, processors, horizon
\* and constraint rows.
THEOREM InputsPrepared == ASSUME InputsAssumption PROVE InputsSpec => []InputsAreWhole
<1>1. InputsInit => InputsInv
  BY InputsStart
<1>2. InputsInv /\ [InputsNext]_inputsVars => InputsInv'
  <2> SUFFICES ASSUME InputsInv, [InputsNext]_inputsVars PROVE InputsInv'
    OBVIOUS
  <2>1. ASSUME NEW w \in Pool, Take(w) PROVE InputsInv'
    BY <2>1, TakeKeeps
  <2>2. ASSUME NEW w \in Pool, Fetch(w) PROVE InputsInv'
    BY <2>2, FetchKeeps
  <2>3. CASE Collect
    BY <2>3, CollectKeeps
  <2>4. CASE AssembleLive
    BY <2>4, AssembleKeeps
  <2>5. CASE PreparePointInTime
    BY <2>5, PrepareKeeps
  <2>6. CASE UNCHANGED inputsVars
    <3>1. UNCHANGED <<mode, queue, worker, channel, series, outcome, request, missing, version, rows>>
      BY <2>6 DEF inputsVars
    <3>2. Fetching' = Fetching /\ \A s : OnItsWay(s)' = OnItsWay(s)
      BY <3>1 DEF Fetching, OnItsWay
    <3>3. PreparedHasEverySymbol' /\ ExecutableBarsResolve'
      BY <3>1 DEF InputsInv, PreparedHasEverySymbol, ExecutableBarsResolve, ExecutableStart,
                  ExecutableEnd, ConstraintAt
    <3> QED BY <3>1, <3>2, <3>3 DEF InputsInv
  <2> QED BY <2>1, <2>2, <2>3, <2>4, <2>5, <2>6 DEF InputsNext
<1>3. InputsInv => InputsAreWhole
  <2> SUFFICES ASSUME InputsInv PROVE InputsAreWhole
    OBVIOUS
  <2>1. Len(channel) \in Nat /\ Len(queue) \in Nat /\ Len(queue) + Cardinality(Fetching) + Len(channel) <= Capacity
    BY DEF InputsInv
  <2>2. Len(channel) <= Capacity
    BY <2>1, FetchingIsFinite, SymbolsAreNamed
  <2>3. ASSUME NEW w \in Pool, worker[w] \notin {Waiting, Exited} PROVE Len(channel) < Capacity
    <3>1. Fetching # {}
      BY <2>3 DEF Fetching
    <3>2. Cardinality(Fetching) # 0
      BY <3>1, FetchingIsFinite, FS_EmptySet
    <3> QED BY <2>1, <3>2, FetchingIsFinite, SymbolsAreNamed
  <2> QED BY <2>2, <2>3 DEF InputsAreWhole, InputsTypeOK, NoWorkerIsStuck, InputsInv
<1> QED BY <1>1, <1>2, <1>3, PTL DEF InputsSpec
=============================================================================
