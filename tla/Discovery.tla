------------------------------ MODULE Discovery ------------------------------
(***************************************************************************)
(* What the gateway tells its callers about the registry: GET /v1/models   *)
(* (routers/models.py), the model catalog (rendering/catalog.py) and the   *)
(* readiness probe (routers/health.py).  Each takes one snapshot under the *)
(* registry's lock, so an answer is a function of one state.               *)
(***************************************************************************)
EXTENDS Routing

\* The upstream is in the model's pool.
Serves(u, m) == \E i \in DOMAIN Pool[m] : Pool[m][i] = u

\* The configuration has finitely many upstreams, each listing at least one model.
ASSUME ServingAssumption ==
    /\ IsFiniteSet(Upstreams)
    /\ \A u \in Upstreams : \E m \in Models : Serves(u, m)

\* Mutant of HealthyUpstreamCount: every member of the pool is counted.
ConfiguredUpstreamCount(m) == Len(Pool[m])

\* list_models()
TotalUpstreamCount(m) == Len(Pool[m])
HealthyUpstreamCount(m) == Cardinality({i \in DOMAIN Pool[m] : healthy[Pool[m][i]]})

\* ModelAvailability.status
ModelStatus(m) == IF HealthyUpstreamCount(m) > 0 THEN "online" ELSE "unavailable"

CatalogStatus(m) ==
    CASE HealthyUpstreamCount(m) = 0 -> "offline"
      [] HealthyUpstreamCount(m) \in 1..(TotalUpstreamCount(m) - 1) -> "degraded"
      [] OTHER -> "online"

\* GET /readyz answers 200, from the snapshots of all upstreams.
Ready == Cardinality({u \in Upstreams : healthy[u]}) > 0

\* What is announced is what routing does: a model is listed as online, and is
\* not offline in the catalog, exactly when select_upstream() would find it an
\* upstream; the catalog calls it degraded exactly when, besides, some member
\* of its pool would never be selected; and the gateway is ready exactly when
\* it can route some model.
DiscoveryMatchesRouting ==
    /\ \A m \in Models :
         LET routable == Candidates(m, {}) # {}
             selected == {MemberAt(m, o) : o \in Candidates(m, {})}
             pool == {u \in Upstreams : Serves(u, m)}
         IN  /\ ModelStatus(m) = "online" <=> routable
             /\ CatalogStatus(m) = "offline" <=> ~routable
             /\ CatalogStatus(m) = "degraded" <=> routable /\ selected # pool
    /\ Ready <=> \E m \in Models : Candidates(m, {}) # {}
=============================================================================
