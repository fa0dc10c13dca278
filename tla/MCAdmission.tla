----------------------------- MODULE MCAdmission -----------------------------
(* Small instances of Admission for TLC: one for the concurrency slots and   *)
(* the token budget, one for the retry guard beside them.                    *)
EXTENDS AdmissionQuota, TLC

CONSTANTS d1, d2, m1, m2

NoLimits == <<>>
GuardOff == [enabled |-> FALSE, max_events |-> 1, window_seconds |-> 1,
             cooldown_seconds |-> 1]

\* m1 takes two requests in all, one of them from d1; d2 has a token
\* budget on m1, with a cap of two requests.
SlotsModelLimit == (m1 :> 2)
SlotsDepartmentLimit == (<<d1, m1>> :> 1) @@ (<<d2, m2>> :> 2)
SlotsBudget == (<<d2, m1>> :> [max_tokens |-> 3, window_seconds |-> 1])

\* One department and model with a cap of two requests.
DocModelLimit == (m1 :> 2)
DocBudget == (<<d1, m1>> :> [max_tokens |-> 3, window_seconds |-> 1])

\* m1 takes two requests in all, one of them from d1, which has a token budget that a
\* single request uses up.
GuardModelLimit == (m1 :> 2)
GuardDepartmentLimit == (<<d1, m1>> :> 1)
GuardBudget == (<<d1, m1>> :> [max_tokens |-> 1, window_seconds |-> 1])

\* Guard: three failures within two ticks open it for two ticks.
GuardOn == [enabled |-> TRUE, max_events |-> 3, window_seconds |-> 2,
            cooldown_seconds |-> 2]

RequestSymmetry == Permutations(Requests)
=============================================================================
