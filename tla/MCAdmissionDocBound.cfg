\* The bound config.example.yaml states for the overrun of a budget.
SPECIFICATION Spec
CONSTANTS
    d1 = d1
    d2 = d2
    m1 = m1
    m2 = m2
    Departments = {d1}
    Models = {m1}
    Endpoints = {chat}
    Requests = {r1, r2, r3}
    NoLease = NoLease
    Enabled = TRUE
    ModelLimit <- DocModelLimit
    DepartmentModelLimit <- NoLimits
    TokenBudget <- DocBudget
    RetryGuard <- GuardOff
    MaxPrompt = 1
    MaxOutput = 2
    MaxTime = 4
SYMMETRY RequestSymmetry
INVARIANTS OversubscriptionByOutputCap
