\* Retry guard of two keys, one of which has a limit of its own and a token budget.
SPECIFICATION Spec
CONSTANTS
    d1 = d1
    d2 = d2
    m1 = m1
    m2 = m2
    Departments = {d1, d2}
    Models = {m1}
    Endpoints = {chat}
    Requests = {r1, r2}
    NoLease = NoLease
    Enabled = TRUE
    ModelLimit <- GuardModelLimit
    DepartmentModelLimit <- GuardDepartmentLimit
    TokenBudget <- GuardBudget
    RetryGuard <- GuardOn
    MaxPrompt = 0
    MaxOutput = 1
    MaxTime = 6
SYMMETRY RequestSymmetry
INVARIANTS RetryQueueBelowThreshold IdleKeyAdmits
PROPERTIES ImplementsQuota GuardOpensOnBurst
