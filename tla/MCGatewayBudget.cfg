\* Budget and the use of the controller: one upstream.
SPECIFICATION Spec
CONSTANTS
    d1 = d1
    m1 = m1
    u1 = u1
    u2 = u2
    Departments = {d1}
    Models = {m1}
    Endpoints = {chat}
    Requests = {r1, r2}
    NoLease = NoLease
    Enabled = TRUE
    ModelLimit <- LimitTwo
    DepartmentModelLimit <- NoLimits
    TokenBudget <- MCBudget
    RetryGuard <- GuardOn
    MaxPrompt = 0
    MaxOutput = 1
    MaxTime = 1
    Upstreams = {u1}
    Pool <- SinglePool
    RejectUnknownKeys = TRUE
    ShapeLimited = {m1}
    Statuses = {200, 503}
    NoModel = NoModel
SYMMETRY RequestSymmetry
PROPERTIES ChargedOnceFrom2xx AdmissionSpec
