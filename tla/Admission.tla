------------------------------ MODULE Admission ------------------------------
(***************************************************************************)
(* AdmissionController (services/admission_control.py): per-model and      *)
(* per-(department, model) concurrency slots, a sliding token budget and   *)
(* a retry guard, shared by every request of the gateway.                  *)
(*                                                                         *)
(* Each method runs under the controller's lock and contains no await, so  *)
(* a call is one step.  The methods touch disjoint groups of variables     *)
(* (slots, tokens, guard): a caller that makes several calls without       *)
(* yielding in between conjoins them into one action.                      *)
(***************************************************************************)
EXTENDS Integers, Sequences, FiniteSets

CONSTANTS
    Departments, Models, Endpoints,
    Requests,              \* callers; a caller holds at most one lease
    NoLease,               \* the lease None of a caller that holds no slot
    Enabled,               \* admission_control.enabled
    ModelLimit,            \* global_model_limits: model -> max_active_requests
    DepartmentModelLimit,  \* department_model_limits, by (department, model)
    TokenBudget,           \* token_budgets, by (department, model)
    RetryGuard,            \* retry_guard section of the configuration
    MaxPrompt, MaxOutput,  \* bounds on the usage one response can report
    MaxTime                \* bound on the clock

Keys == Departments \X Models
Leases == [department : Departments, model_name : Models, endpoint : Endpoints]
Key(l) == <<l.department, l.model_name>>
MaxUsage == MaxPrompt + MaxOutput
Positive == Nat \ {0}

\* The configuration validators require every limit to be positive.
ASSUME SizeAssumption ==
    /\ IsFiniteSet(Requests)
    /\ NoLease \notin Leases
    /\ MaxPrompt \in Nat /\ MaxOutput \in Nat /\ MaxTime \in Nat

ASSUME LimitAssumption ==
    /\ Enabled \in BOOLEAN
    /\ DOMAIN ModelLimit \subseteq Models
    /\ \A m \in DOMAIN ModelLimit : ModelLimit[m] \in Positive
    /\ DOMAIN DepartmentModelLimit \subseteq Keys
    /\ \A k \in DOMAIN DepartmentModelLimit : DepartmentModelLimit[k] \in Positive

ASSUME BudgetAssumption ==
    /\ DOMAIN TokenBudget \subseteq Keys
    /\ \A k \in DOMAIN TokenBudget :
         TokenBudget[k] \in [max_tokens : Positive, window_seconds : Positive]

ASSUME GuardAssumption ==
    RetryGuard \in [enabled : BOOLEAN, max_events : Positive,
                    window_seconds : Positive, cooldown_seconds : Positive]

VARIABLES
    now,                         \* the monotonic clock, time_source()
    lease,                       \* what each caller got from acquire()
    active_by_model,
    active_by_department_model,
    inflight,                    \* the in-flight gauge, one cell per label set
    token_events,                \* deque of (time, tokens), by key
    token_totals,
    retry_events,                \* deque of times, by key
    cooldown_until               \* 0 stands for an absent entry

slotVars  == <<lease, active_by_model, active_by_department_model, inflight>>
tokenVars == <<token_events, token_totals>>
guardVars == <<retry_events, cooldown_until>>
vars == <<now, slotVars, tokenVars, guardVars>>

Init ==
    /\ now = 0
    /\ lease = [r \in Requests |-> NoLease]
    /\ active_by_model = [m \in Models |-> 0]
    /\ active_by_department_model = [k \in Keys |-> 0]
    /\ inflight = [l \in Leases |-> 0]
    /\ token_events = [k \in Keys |-> <<>>]
    /\ token_totals = [k \in Keys |-> 0]
    /\ retry_events = [k \in Keys |-> <<>>]
    /\ cooldown_until = [k \in Keys |-> 0]

-----------------------------------------------------------------------------
(* Sliding windows.  A window drops entries from the left end only, while   *)
(* they are strictly older than the window.                                 *)

MaxZero(n) == IF n > 0 THEN n ELSE 0

\* How many entries the pop-left loop removes from a queue of times.
ExpiredCount(times, window) ==
    Cardinality({j \in DOMAIN times : \A i \in 1..j : now - times[i] > window})

DropFirst(queue, n) == SubSeq(queue, n + 1, Len(queue))

\* The tokens of the events at some places of a queue, counted one by one.
TokensAt(events, places) ==
    Cardinality({u \in places \X (1..MaxUsage) : u[2] <= events[u[1]].tokens})

TokensOfFirst(events, n) == TokensAt(events, 1..n)

ExpiredEvents(k) ==
    ExpiredCount([i \in DOMAIN token_events[k] |-> token_events[k][i].at],
                 TokenBudget[k].window_seconds)

\* Mutant of FreshTotal: expired events leave the deque, not the total.
FreshTotalKeepsExpired(k) == token_totals[k]

\* What _drop_old_token_events and the subtraction after it leave behind.
FreshEvents(k) == DropFirst(token_events[k], ExpiredEvents(k))
FreshTotal(k) ==
    MaxZero(token_totals[k] - TokensOfFirst(token_events[k], ExpiredEvents(k)))

DropOldTokenEvents(k) ==
    IF k \in DOMAIN TokenBudget
    THEN /\ token_events' = [token_events EXCEPT ![k] = FreshEvents(k)]
         /\ token_totals' = [token_totals EXCEPT ![k] = FreshTotal(k)]
    ELSE UNCHANGED tokenVars

-----------------------------------------------------------------------------
(* acquire(): the checks in the order the code makes them.                  *)

GuardOpen(k) == cooldown_until[k] > now

\* Mutant of ModelFull: one request too many.
ModelFullOffByOne(m) ==
    m \in DOMAIN ModelLimit /\ active_by_model[m] > ModelLimit[m]

ModelFull(m) ==
    m \in DOMAIN ModelLimit /\ active_by_model[m] >= ModelLimit[m]

DepartmentModelFull(k) ==
    k \in DOMAIN DepartmentModelLimit
    /\ active_by_department_model[k] >= DepartmentModelLimit[k]

\* Mutant of BudgetSpent: a budget used up exactly still admits.
BudgetSpentOffByOne(k) ==
    k \in DOMAIN TokenBudget /\ FreshTotal(k) > TokenBudget[k].max_tokens

BudgetSpent(k) ==
    k \in DOMAIN TokenBudget /\ FreshTotal(k) >= TokenBudget[k].max_tokens

\* The token budget is looked at, and its window trimmed, only when the
\* guard and both concurrency limits let the request through.
ReachesBudget(k) ==
    ~GuardOpen(k) /\ ~ModelFull(k[2]) /\ ~DepartmentModelFull(k)

Admits(k) == ReachesBudget(k) /\ ~BudgetSpent(k)

TakeSlot(r, l) ==
    /\ lease' = [lease EXCEPT ![r] = l]
    /\ active_by_model' = [active_by_model EXCEPT ![l.model_name] = @ + 1]
    /\ active_by_department_model' =
         [active_by_department_model EXCEPT ![Key(l)] = @ + 1]
    /\ inflight' = [inflight EXCEPT ![l] = @ + 1]

\* acquire() returns a lease ...
AcquireAdmitted(r, l) ==
    /\ Enabled
    /\ lease[r] = NoLease
    /\ Admits(Key(l))
    /\ DropOldTokenEvents(Key(l))
    /\ TakeSlot(r, l)

\* ... or raises 429, leaving a trimmed token window behind when the token
\* budget was the reason.
AcquireRejected(l) ==
    /\ Enabled
    /\ ~Admits(Key(l))
    /\ IF ReachesBudget(Key(l)) THEN DropOldTokenEvents(Key(l)) ELSE UNCHANGED tokenVars
    /\ UNCHANGED slotVars

\* Mutant of Release: the caller keeps its lease and can release it again.
ReleaseKeepsLease(r) ==
    LET l == lease[r] IN
    IF l = NoLease
    THEN UNCHANGED slotVars
    ELSE /\ active_by_model' =
              [active_by_model EXCEPT ![l.model_name] = MaxZero(@ - 1)]
         /\ active_by_department_model' =
              [active_by_department_model EXCEPT ![Key(l)] = MaxZero(@ - 1)]
         /\ inflight' = [inflight EXCEPT ![l] = @ - 1]
         /\ UNCHANGED lease

\* Mutant of Release: the department's counter is forgotten.
ReleaseModelOnly(r) ==
    LET l == lease[r] IN
    IF l = NoLease
    THEN UNCHANGED slotVars
    ELSE /\ lease' = [lease EXCEPT ![r] = NoLease]
         /\ active_by_model' =
              [active_by_model EXCEPT ![l.model_name] = MaxZero(@ - 1)]
         /\ inflight' = [inflight EXCEPT ![l] = @ - 1]
         /\ UNCHANGED active_by_department_model

\* release(): a no-op without a lease; counters never go below zero, the
\* gauge is decremented unconditionally.
Release(r) ==
    LET l == lease[r] IN
    IF l = NoLease
    THEN UNCHANGED slotVars
    ELSE /\ lease' = [lease EXCEPT ![r] = NoLease]
         /\ active_by_model' =
              [active_by_model EXCEPT ![l.model_name] = MaxZero(@ - 1)]
         /\ active_by_department_model' =
              [active_by_department_model EXCEPT ![Key(l)] = MaxZero(@ - 1)]
         /\ inflight' = [inflight EXCEPT ![l] = @ - 1]

\* record_tokens(): trims the window, then appends.
RecordTokens(k, tokens) ==
    IF Enabled /\ tokens > 0 /\ k \in DOMAIN TokenBudget
    THEN /\ token_events' = [token_events EXCEPT ![k] =
              Append(FreshEvents(k), [at |-> now, tokens |-> tokens])]
         /\ token_totals' = [token_totals EXCEPT ![k] = FreshTotal(k) + tokens]
    ELSE UNCHANGED tokenVars

\* Mutant of RetryQueue: old failures are never dropped.
RetryQueueKeepsExpired(k) == Append(retry_events[k], now)

\* The queue _record_retry_event_locked has after trimming and appending.
RetryQueue(k) ==
    Append(DropFirst(retry_events[k],
                     ExpiredCount(retry_events[k], RetryGuard.window_seconds)),
           now)

\* Mutant of RecordRetryEvent: failures during a cooldown are queued.
RecordRetryEventWhileOpen(k) ==
    IF ~Enabled \/ ~RetryGuard.enabled
    THEN UNCHANGED guardVars
    ELSE IF Len(RetryQueue(k)) >= RetryGuard.max_events /\ ~GuardOpen(k)
    THEN /\ cooldown_until' =
              [cooldown_until EXCEPT ![k] = now + RetryGuard.cooldown_seconds]
         /\ retry_events' = [retry_events EXCEPT ![k] = <<>>]
    ELSE /\ retry_events' = [retry_events EXCEPT ![k] = RetryQueue(k)]
         /\ UNCHANGED cooldown_until

\* record_retry_event(): nothing is counted while the guard is open.
RecordRetryEvent(k) ==
    IF ~Enabled \/ ~RetryGuard.enabled \/ GuardOpen(k)
    THEN UNCHANGED guardVars
    ELSE IF Len(RetryQueue(k)) >= RetryGuard.max_events
    THEN /\ cooldown_until' =
              [cooldown_until EXCEPT ![k] = now + RetryGuard.cooldown_seconds]
         /\ retry_events' = [retry_events EXCEPT ![k] = <<>>]
    ELSE /\ retry_events' = [retry_events EXCEPT ![k] = RetryQueue(k)]
         /\ UNCHANGED cooldown_until

-----------------------------------------------------------------------------
(* The controller as the request handlers drive it.                         *)

Admit(r, l) == AcquireAdmitted(r, l) /\ UNCHANGED <<now, guardVars>>

Reject(l) == AcquireRejected(l) /\ UNCHANGED <<now, guardVars>>

\* Admitted, but no upstream could be selected: the slot is given back before
\* the handler yields, only the trimmed window remains.
AdmitAndGiveBack(l) ==
    /\ Enabled
    /\ Admits(Key(l))
    /\ DropOldTokenEvents(Key(l))
    /\ UNCHANGED <<now, slotVars, guardVars>>

\* The end of a request: a failed one counts as a retry event, a successful
\* one reports its usage; the slot is released in the same step.
Finish(r, tokens, failed) ==
    /\ lease[r] # NoLease
    /\ failed => tokens = 0
    /\ IF failed THEN RecordRetryEvent(Key(lease[r])) ELSE UNCHANGED guardVars
    /\ RecordTokens(Key(lease[r]), tokens)
    /\ Release(r)
    /\ UNCHANGED now

\* A stream whose upstream answered with a 5xx header counts as a retry
\* event at once and keeps its slot until the body has been relayed.
FailedHeader(r) ==
    /\ lease[r] # NoLease
    /\ RecordRetryEvent(Key(lease[r]))
    /\ UNCHANGED <<now, slotVars, tokenVars>>

Tick ==
    /\ now < MaxTime
    /\ now' = now + 1
    /\ UNCHANGED <<slotVars, tokenVars, guardVars>>

Next ==
    \/ \E r \in Requests, l \in Leases : Admit(r, l)
    \/ \E l \in Leases : Reject(l)
    \/ \E l \in Leases : AdmitAndGiveBack(l)
    \/ \E r \in Requests, tokens \in 0..MaxUsage, failed \in BOOLEAN :
         Finish(r, tokens, failed)
    \/ \E r \in Requests : FailedHeader(r)
    \/ Tick

Spec == Init /\ [][Next]_vars

-----------------------------------------------------------------------------
(* Properties.                                                              *)

\* Every counter is a natural number, every queue holds past events; no
\* decrement of release() can take a counter or the gauge below zero.
TypeOK ==
    /\ now \in Nat
    /\ lease \in [Requests -> Leases \cup {NoLease}]
    /\ active_by_model \in [Models -> Nat]
    /\ active_by_department_model \in [Keys -> Nat]
    /\ inflight \in [Leases -> Nat]
    /\ token_events \in [Keys -> Seq([at : Nat, tokens : 1..MaxUsage])]
    /\ token_totals \in [Keys -> Nat]
    /\ retry_events \in [Keys -> Seq(Nat)]
    /\ cooldown_until \in [Keys -> Nat]

Holders == {r \in Requests : lease[r] # NoLease}
HoldersOfModel(m) == {r \in Holders : lease[r].model_name = m}
HoldersOfKey(k) == {r \in Holders : Key(lease[r]) = k}
HoldersOfLabels(l) == {r \in Holders : lease[r] = l}

\* acquire() and release() keep both counters and the in-flight gauge equal to
\* the number of leases outstanding: a slot is neither lost nor given back
\* twice, whatever the order in which requests end.
SlotsMatchLeases ==
    /\ \A m \in Models : active_by_model[m] = Cardinality(HoldersOfModel(m))
    /\ \A k \in Keys : active_by_department_model[k] = Cardinality(HoldersOfKey(k))
    /\ \A l \in Leases : inflight[l] = Cardinality(HoldersOfLabels(l))

\* The number of requests holding a lease never exceeds a configured limit,
\* per model over all departments and per (department, model).
WithinLimits ==
    /\ \A m \in DOMAIN ModelLimit : Cardinality(HoldersOfModel(m)) <= ModelLimit[m]
    /\ \A k \in DOMAIN DepartmentModelLimit :
         Cardinality(HoldersOfKey(k)) <= DepartmentModelLimit[k]

\* The number of requests of a key that can be in flight at once.
Capped(k) == k \in DOMAIN DepartmentModelLimit \/ k[2] \in DOMAIN ModelLimit
Cap(k) == IF k \in DOMAIN DepartmentModelLimit
          THEN DepartmentModelLimit[k] ELSE ModelLimit[k[2]]

\* The token budget is checked at admission and charged at completion, so it
\* can be overrun; acquire() and record_tokens() bound the overrun by the
\* concurrency cap times the usage of one request, prompt included.
OversubscriptionBounded ==
    \A k \in DOMAIN TokenBudget : Capped(k) =>
        token_totals[k] < TokenBudget[k].max_tokens + Cap(k) * MaxUsage

\* What makes the bound inductive: tokens charged so far plus the most that
\* the requests in flight may still charge stay below it.
BudgetReserve ==
    \A k \in DOMAIN TokenBudget : Capped(k) =>
        token_totals[k] + active_by_department_model[k] * MaxUsage
          < TokenBudget[k].max_tokens + Cap(k) * MaxUsage

\* What the comment on token_budgets in config.example.yaml says: the overrun
\* is bounded by the concurrency times the cap on output tokens alone.
OversubscriptionByOutputCap ==
    \A k \in DOMAIN TokenBudget : Capped(k) =>
        token_totals[k] < TokenBudget[k].max_tokens + Cap(k) * MaxOutput

\* The running total with its prefix-popping deque decides exactly as a sum
\* over the events of the last window_seconds would: acquire() refuses on the
\* budget if and only if those events add up to max_tokens.
BudgetDecisionExact ==
    \A k \in DOMAIN TokenBudget :
        LET inWindow == {i \in DOMAIN token_events[k] :
                           now - token_events[k][i].at <= TokenBudget[k].window_seconds}
        IN  BudgetSpent(k) <=>
              TokensAt(token_events[k], inWindow) >= TokenBudget[k].max_tokens

\* The retry queue is always shorter than max_events, and empty while the
\* guard is open: failures during a cooldown do not count towards the next.
RetryQueueBelowThreshold ==
    \A k \in Keys : /\ Len(retry_events[k]) < RetryGuard.max_events
                    /\ GuardOpen(k) => retry_events[k] = <<>>

\* _record_retry_event_locked moves a cooldown only when the guard is closed
\* and this failure completes a burst of max_events within window_seconds.
BurstStep ==
    \A k \in Keys : cooldown_until'[k] # cooldown_until[k] =>
        /\ ~GuardOpen(k)
        /\ cooldown_until'[k] = now + RetryGuard.cooldown_seconds
        /\ Cardinality({i \in DOMAIN retry_events[k] :
               now - retry_events[k][i] <= RetryGuard.window_seconds})
             = RetryGuard.max_events - 1

GuardOpensOnBurst == [][BurstStep]_vars

\* No state left behind by earlier traffic blocks a key for good: with no slot
\* in use, the cooldown over and every recorded event out of the window,
\* acquire() admits.
IdleKeyAdmits ==
    \A k \in Keys :
        (/\ HoldersOfModel(k[2]) = {}
         /\ cooldown_until[k] <= now
         /\ k \in DOMAIN TokenBudget =>
              \A i \in DOMAIN token_events[k] :
                 now - token_events[k][i].at > TokenBudget[k].window_seconds)
        => Admits(k)
=============================================================================
