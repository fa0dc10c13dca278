------------------------------ MODULE MCGateway ------------------------------
(* Small instances of Gateway for TLC: one department, one model, two        *)
(* upstreams, two or three requests.                                         *)
EXTENDS Gateway, TLC

CONSTANTS d1, m1, u1, u2

NoLimits == <<>>
GuardOff == [enabled |-> FALSE, max_events |-> 1, window_seconds |-> 1,
             cooldown_seconds |-> 1]
GuardOn == [enabled |-> TRUE, max_events |-> 2, window_seconds |-> 1,
            cooldown_seconds |-> 1]

MCPool == (m1 :> <<u1, u2>>)
SinglePool == (m1 :> <<u1>>)
LimitOne == (m1 :> 1)
LimitTwo == (m1 :> 2)
MCBudget == (<<d1, m1>> :> [max_tokens |-> 1, window_seconds |-> 1])

RequestSymmetry == Permutations(Requests)
=============================================================================
