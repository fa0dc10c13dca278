---------------------------- MODULE AdmissionQuota ----------------------------
(* The admission controller implements Quota: what its queues, totals and     *)
(* time stamps amount to, by age.                                             *)
EXTENDS Admission

\* The tokens in the deque of a key that were charged `age' seconds ago.
TokensOfAge(k, age) ==
    TokensAt(token_events[k], {i \in DOMAIN token_events[k] : now - token_events[k][i].at = age})

FailuresOfAge(k, age) ==
    Cardinality({i \in DOMAIN retry_events[k] : now - retry_events[k][i] = age})

Abstract == INSTANCE Quota WITH
    spent <- [k \in DOMAIN TokenBudget |->
                [age \in 0..TokenBudget[k].window_seconds |-> TokensOfAge(k, age)]],
    failures <- [k \in Keys |->
                   [age \in 0..RetryGuard.window_seconds |-> FailuresOfAge(k, age)]],
    shut <- [k \in Keys |-> MaxZero(cooldown_until[k] - now)]

\* Whatever the callers do, the controller keeps Quota's promises: trimming
\* lazily, the running totals and the comparisons of time stamps never admit,
\* charge, count or shut otherwise than the windows by age would.
ImplementsQuota == Abstract!Spec
=============================================================================
