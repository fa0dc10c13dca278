------------------------------- MODULE Routing -------------------------------
(***************************************************************************)
(* RoutingRegistry (routing.py): which upstreams serve a model, which of   *)
(* them are healthy, and the round-robin position of every model.          *)
(*                                                                         *)
(* Every method holds the registry's lock and contains no await, so each   *)
(* call is one step.                                                       *)
(***************************************************************************)
EXTENDS Integers, Sequences, FiniteSets

CONSTANTS
    Upstreams,
    Models,
    Pool        \* _model_to_upstreams: the upstreams of a model, in the order
                \* of the configuration.  An upstream that lists a model twice
                \* is in its pool twice.

\* A model is in the index only if some upstream lists it.
ASSUME PoolAssumption ==
    /\ Pool \in [Models -> Seq(Upstreams)]
    /\ \A m \in Models : Len(Pool[m]) > 0

VARIABLES
    healthy,             \* _health_by_name[u].healthy
    round_robin_index    \* counted from 0, as in the code

vars == <<healthy, round_robin_index>>

\* Upstreams are taken to be healthy until a probe says otherwise.
Init ==
    /\ healthy = [u \in Upstreams |-> TRUE]
    /\ round_robin_index = [m \in Models |-> 0]

PoolSize(m) == Len(Pool[m])

\* The pool member `offset' places after the round-robin position.
IndexAt(m, offset) == (round_robin_index[m] + offset) % PoolSize(m)
MemberAt(m, offset) == Pool[m][IndexAt(m, offset) + 1]

Eligible(u, excluded) == healthy[u] /\ u \notin excluded

\* The offsets at which the scan of select_upstream would stop.
Candidates(m, excluded) ==
    {o \in 0..(PoolSize(m) - 1) : Eligible(MemberAt(m, o), excluded)}

FirstCandidate(m, excluded) ==
    CHOOSE o \in Candidates(m, excluded) :
        \A p \in Candidates(m, excluded) : o <= p

\* Mutant of SelectUpstream: the position is not wrapped around.
SelectWithoutWrap(m, excluded, u) ==
    LET o == FirstCandidate(m, excluded)
    IN  /\ Candidates(m, excluded) # {}
        /\ u = MemberAt(m, o)
        /\ round_robin_index' =
             [round_robin_index EXCEPT ![m] = IndexAt(m, o) + 1]
        /\ UNCHANGED healthy

\* Mutant of SelectUpstream: the position moves two places too far.
SelectSkipping(m, excluded, u) ==
    LET o == FirstCandidate(m, excluded)
    IN  /\ Candidates(m, excluded) # {}
        /\ u = MemberAt(m, o)
        /\ round_robin_index' =
             [round_robin_index EXCEPT ![m] = (IndexAt(m, o) + 2) % PoolSize(m)]
        /\ UNCHANGED healthy

\* select_upstream() returns u and moves the position just behind it ...
SelectUpstream(m, excluded, u) ==
    LET o == FirstCandidate(m, excluded)
    IN  /\ Candidates(m, excluded) # {}
        /\ u = MemberAt(m, o)
        /\ round_robin_index' =
             [round_robin_index EXCEPT ![m] = (IndexAt(m, o) + 1) % PoolSize(m)]
        /\ UNCHANGED healthy

\* ... or raises NoHealthyUpstreamError and changes nothing.
NoHealthyUpstream(m, excluded) ==
    /\ Candidates(m, excluded) = {}
    /\ UNCHANGED vars

\* set_upstream_health() for every upstream in turn, as the monitor calls it
\* at the end of a round of probes.
SetUpstreamHealth(verdict) ==
    /\ healthy' = verdict
    /\ UNCHANGED round_robin_index

Next ==
    \/ \E m \in Models, excluded \in SUBSET Upstreams :
         \/ \E u \in Upstreams : SelectUpstream(m, excluded, u)
         \/ NoHealthyUpstream(m, excluded)
    \/ \E verdict \in [Upstreams -> BOOLEAN] : SetUpstreamHealth(verdict)

Spec == Init /\ [][Next]_vars

\* The round-robin position always points into the pool.
TypeOK ==
    /\ healthy \in [Upstreams -> BOOLEAN]
    /\ round_robin_index \in [Models -> Nat]
    /\ \A m \in Models : round_robin_index[m] < PoolSize(m)
=============================================================================
