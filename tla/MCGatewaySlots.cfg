\* Slots, failover and retry events: two requests, limit one.
SPECIFICATION Spec
CONSTANTS
    d1 = d1
    m1 = m1
    u1 = u1
    u2 = u2
    Departments = {d1}
    Models = {m1}
    Endpoints = {chat}
    Requests = {r1, r2}
    NoLease = NoLease
    Enabled = TRUE
    ModelLimit <- LimitOne
    DepartmentModelLimit <- NoLimits
    TokenBudget <- NoLimits
    RetryGuard <- GuardOn
    MaxPrompt = 0
    MaxOutput = 0
    MaxTime = 0
    Upstreams = {u1, u2}
    Pool <- MCPool
    RejectUnknownKeys = TRUE
    ShapeLimited = {m1}
    Statuses = {200, 404, 503}
    NoModel = NoModel
SYMMETRY RequestSymmetry
INVARIANTS TypeOK SlotsFollowRequests UpstreamLoadWithinLimits EveryExchangeAccounted
PROPERTIES FailoverSound OneRetryEventPerFailure
