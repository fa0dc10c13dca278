\* Request counting and liveness: one request, two upstreams.
SPECIFICATION MetricsFairSpec
CONSTANTS
    d1 = d1
    m1 = m1
    u1 = u1
    u2 = u2
    Departments = {d1}
    Models = {m1}
    Endpoints = {chat}
    Requests = {r1}
    NoLease = NoLease
    Enabled = TRUE
    ModelLimit <- LimitOne
    DepartmentModelLimit <- NoLimits
    TokenBudget <- NoLimits
    RetryGuard <- GuardOn
    MaxPrompt = 0
    MaxOutput = 1
    MaxTime = 1
    Upstreams = {u1, u2}
    Pool <- MCPool
    RejectUnknownKeys = TRUE
    ShapeLimited = {m1}
    Statuses = {200, 302, 404, 503}
    NoModel = NoModel
INVARIANTS TokensImplySuccess OriginFollowsExchange
PROPERTIES OutcomeRecorded EveryRequestRecorded EveryRequestEnds EverySlotReturned
