--------------------------- MODULE MCRequestMetrics ---------------------------
(* Small instances of RequestMetrics for TLC: one department, one model.      *)
EXTENDS RequestMetrics, TLC

CONSTANTS d1, m1, u1, u2

NoLimits == <<>>
GuardOn == [enabled |-> TRUE, max_events |-> 2, window_seconds |-> 1,
            cooldown_seconds |-> 1]
MCPool == (m1 :> <<u1, u2>>)
LimitOne == (m1 :> 1)
=============================================================================
