------------------------------ MODULE RoundRobin ------------------------------
(***************************************************************************)
(* The fairness of select_upstream().  A history variable counts, for each *)
(* member of a model's pool, how many selections in a row went elsewhere   *)
(* although the member could have been chosen in each of them.             *)
(***************************************************************************)
EXTENDS Routing

VARIABLE passed_over     \* passed_over[m][i], i the position in Pool[m] from 0

rrVars == <<vars, passed_over>>

Positions(m) == 0..(PoolSize(m) - 1)

RRInit ==
    /\ Init
    /\ passed_over = [m \in Models |-> [i \in Positions(m) |-> 0]]

SelectedIndex(m, excluded) == IndexAt(m, FirstCandidate(m, excluded))

Select(m, excluded) ==
    /\ \E u \in Upstreams : SelectUpstream(m, excluded, u)
    /\ passed_over' = [passed_over EXCEPT ![m] =
         [i \in Positions(m) |->
            IF i # SelectedIndex(m, excluded) /\ Eligible(Pool[m][i + 1], excluded)
            THEN @[i] + 1 ELSE 0]]

Refresh(verdict) ==
    /\ SetUpstreamHealth(verdict)
    /\ UNCHANGED passed_over

Refuse(m, excluded) ==
    /\ NoHealthyUpstream(m, excluded)
    /\ UNCHANGED passed_over

RRNext ==
    \/ \E m \in Models, excluded \in SUBSET Upstreams :
         \/ Select(m, excluded)
         \/ Refuse(m, excluded)
    \/ \E verdict \in [Upstreams -> BOOLEAN] : Refresh(verdict)

RRSpec == RRInit /\ [][RRNext]_rrVars

\* How far the scan is from position i.
Distance(m, i) == (i - round_robin_index[m]) % PoolSize(m)

\* A pool member that select_upstream() may choose is not passed over for a
\* whole turn of the pool, whatever failovers exclude and however the health
\* of the other members flaps: the count of selections that went elsewhere
\* plus the distance left to the member stays below the pool size.
NoStarvation ==
    \A m \in Models : \A i \in Positions(m) :
        passed_over[m][i] + Distance(m, i) < PoolSize(m)
=============================================================================
