\* Slots at the end of a request.
SPECIFICATION Spec
CONSTANTS
    d1 = d1
    m1 = m1
    u1 = u1
    u2 = u2
    Departments = {d1}
    Models = {m1}
    Endpoints = {chat}
    Requests = {r1}
    NoLease = NoLease
    Enabled = TRUE
    ModelLimit <- LimitOne
    DepartmentModelLimit <- NoLimits
    TokenBudget <- NoLimits
    RetryGuard <- GuardOff
    MaxPrompt = 0
    MaxOutput = 0
    MaxTime = 0
    Upstreams = {u1, u2}
    Pool <- MCPool
    RejectUnknownKeys = TRUE
    ShapeLimited = {m1}
    Statuses = {200, 302, 503}
    NoModel = NoModel
INVARIANTS SlotFreedAtEnd
