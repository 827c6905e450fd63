---------------------------- MODULE MCGovernance -----------------------------
(***************************************************************************)
(* Governance for three experiments of two models, explored along four     *)
(* parts.  A behaviour belongs to the part its first state names and takes *)
(* the service's own steps for that part's smaller sets: two concurrent    *)
(* requests for one experiment, two experiments of one version, two models *)
(* that share one pair of settings, and rollbacks that are asked for twice.*)
(***************************************************************************)
EXTENDS Governance, TLC

CONSTANTS k1, k2, k3, k4, a0, a1, a2, s0, s1, s2,  \* request keys, approval keys, sessions
          e1, e2, e3, c1, c2, f1

VARIABLE part

\* e1 and e2 are evidence for one model version, e3 for another.
TwoModels == [e \in {e1, e2, e3} |-> IF e = e3 THEN c2 ELSE c1]

\* Every live target asks for one unit of observation.
OneUnit == [e \in {e1, e2, e3} |-> [t \in States |-> IF t \in Live THEN 1 ELSE 0]]

Race == INSTANCE Governance WITH
    Experiments <- {e1}, Quarantined <- {}, Passed <- {e1}, Confirmatory <- {e1},
    ContextOf <- [e \in {e1} |-> c1], RequiredElapsed <- [e \in {e1} |-> OneUnit[e]],
    Fallbacks <- {f1}, Asked <- {"research", "shadow", "paper"}, Found <- {"calm", "breach"},
    ApprovalKeys <- {a1, a2}, Sessions <- {s1, s2}, MaxTime <- 1, MaxMonitors <- 1

Versions == INSTANCE Governance WITH
    Experiments <- {e1, e2}, Passed <- {e1, e2}, Confirmatory <- {e1, e2},
    ContextOf <- [e \in {e1, e2} |-> c1], RequiredElapsed <- [e \in {e1, e2} |-> OneUnit[e]],
    Fallbacks <- {f1}, Asked <- {"research", "shadow", "paper"}, Found <- {"incomplete", "breach"},
    ApprovalKeys <- {a1, a2}, Sessions <- {s0}, MaxTime <- 1, MaxMonitors <- 1

Models == INSTANCE Governance WITH
    Experiments <- {e1, e3}, Passed <- {e1, e3}, Confirmatory <- {e1, e3}, Quarantined <- {},
    ContextOf <- [e \in {e1, e3} |-> TwoModels[e]], RequiredElapsed <- [e \in {e1, e3} |-> OneUnit[e]],
    Fallbacks <- {f1}, Asked <- {"research", "shadow"}, Found <- {"calm", "breach"},
    ApprovalKeys <- {a1, a2}, Sessions <- {s0}, MaxTime <- 1, MaxMonitors <- 1

Back == INSTANCE Governance WITH
    Experiments <- {e1}, Quarantined <- {}, Passed <- {e1}, Confirmatory <- {e1},
    ContextOf <- [e \in {e1} |-> c1], RequiredElapsed <- [e \in {e1} |-> OneUnit[e]],
    Asked <- {"research", "shadow"}, Found <- {"breach"},
    ApprovalKeys <- {a0}, Sessions <- {s0}

ASSUME /\ GovernanceAssumption
       /\ Race!GovernanceAssumption /\ Versions!GovernanceAssumption
       /\ Models!GovernanceAssumption /\ Back!GovernanceAssumption

MCInit == Init /\ part \in {"race", "versions", "models", "back"}

\* Each disjunct implies Next: a part's sets are subsets of the module's.
MCNext ==
    \/ part = "race" /\ Race!Next /\ UNCHANGED part
    \/ part = "versions" /\ Versions!Next /\ UNCHANGED part
    \/ part = "models" /\ Models!Next /\ UNCHANGED part
    \/ part = "back" /\ Back!Next /\ UNCHANGED part

MCSpec == MCInit /\ [][MCNext]_<<part, vars>>

\* Every part has all of these keys, or of these sessions, or none.
Interchangeable == Permutations(Keys) \cup Permutations({a1, a2}) \cup Permutations({s1, s2})
=============================================================================
