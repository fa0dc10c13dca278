\* Concurrency slots of two departments and two models, and a token budget.
SPECIFICATION Spec
CONSTANTS
    d1 = d1
    d2 = d2
    m1 = m1
    m2 = m2
    Departments = {d1, d2}
    Models = {m1, m2}
    Endpoints = {chat, messages}
    Requests = {r1, r2, r3}
    NoLease = NoLease
    Enabled = TRUE
    ModelLimit <- SlotsModelLimit
    DepartmentModelLimit <- SlotsDepartmentLimit
    TokenBudget <- SlotsBudget
    RetryGuard <- GuardOff
    MaxPrompt = 1
    MaxOutput = 2
    MaxTime = 3
SYMMETRY RequestSymmetry
INVARIANTS TypeOK SlotsMatchLeases WithinLimits OversubscriptionBounded BudgetDecisionExact
PROPERTIES ImplementsQuota
