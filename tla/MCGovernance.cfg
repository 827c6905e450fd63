CONSTANTS
    k1 = k1
    k2 = k2
    k3 = k3
    k4 = k4
    a0 = a0
    a1 = a1
    a2 = a2
    s0 = s0
    s1 = s1
    s2 = s2
    e1 = e1
    e2 = e2
    e3 = e3
    c1 = c1
    c2 = c2
    f1 = f1
    NoFallback = NoFallback
    None = None
    Experiments = {e1, e2, e3}
    ContextOf <- TwoModels
    ModelContexts = {c1, c2}
    Passed = {e1, e2, e3}
    Confirmatory = {e1, e2, e3}
    Quarantined = {e2}
    RequiredElapsed <- OneUnit
    Fallbacks = {NoFallback, f1}
    Asked = {"research", "shadow", "paper"}
    Found = {"incomplete", "calm", "breach"}
    Keys = {k1, k2, k3, k4}
    ApprovalKeys = {a0, a1, a2}
    ApprovalLife = 1
    EvidenceLife = 1
    Sessions = {s0, s1, s2}
    MaxTime = 2
    MaxMonitors = 2
SPECIFICATION MCSpec
INVARIANTS OneHistory PromotionsAreEarned ExperimentKept SettingIsDeployed
PROPERTY RollbackIsFinal
SYMMETRY Interchangeable
CHECK_DEADLOCK FALSE
