---------------------------- MODULE UpstreamHealth ----------------------------
(***************************************************************************)
(* UpstreamHealthMonitor (services/upstream_health.py): rounds of          *)
(* concurrent probes whose results are written to the RoutingRegistry      *)
(* together, once the last probe of the round has been answered.           *)
(*                                                                         *)
(* start() runs the first round before the gateway serves; _run() then     *)
(* alternates between sleeping and a round until stop() cancels it.        *)
(***************************************************************************)
EXTENDS Integers

CONSTANTS
    Upstreams, Models, Pool,
    MaxRounds         \* bound on the rounds that are told apart by their time:
                      \* the last of them and all later ones share one time

ASSUME RoundsAssumption == MaxRounds \in Nat \ {0}

VARIABLES
    health_enabled,       \* health.enabled of the configuration that was loaded
    up,                   \* what a probe sent now would find (environment)
    healthy, round_robin_index,            \* the registry
    last_probe_at, last_success_at,        \* 0: None; a round stands for its time
    phase,                \* of the monitor
    serving,              \* the lifespan has reached its yield
    round,                \* the round whose time the probes carry
    result                \* answers of the current round

registry == <<healthy, last_probe_at, last_success_at>>
vars == <<health_enabled, up, registry, round_robin_index, phase, serving, round, result>>

Registry == INSTANCE Routing

NoResults == [u \in Upstreams |-> "pending"]

Init ==
    /\ health_enabled \in BOOLEAN
    /\ up \in [Upstreams -> BOOLEAN]
    /\ Registry!Init
    /\ last_probe_at = [u \in Upstreams |-> 0]
    /\ last_success_at = [u \in Upstreams |-> 0]
    /\ phase = "new"
    /\ serving = FALSE
    /\ round = 0
    /\ result = NoResults

\* refresh_all() up to its await: all probes of a round are sent, stamped with
\* the current time.
SendProbes ==
    /\ round' = IF round < MaxRounds THEN round + 1 ELSE round
    /\ result' = NoResults

\* Mutant of Start: the first round runs in the background.
StartInBackground ==
    /\ phase = "new"
    /\ health_enabled
    /\ SendProbes
    /\ phase' = "starting"
    /\ serving' = TRUE
    /\ UNCHANGED <<health_enabled, up, registry, round_robin_index>>

\* start() with probing enabled: the first round, awaited by the lifespan.
Start ==
    /\ phase = "new"
    /\ health_enabled
    /\ SendProbes
    /\ phase' = "starting"
    /\ UNCHANGED <<health_enabled, up, registry, round_robin_index, serving>>

\* start() with probing disabled returns at once: nothing is ever probed.
StartDisabled ==
    /\ phase = "new"
    /\ ~health_enabled
    /\ phase' = "off"
    /\ serving' = TRUE
    /\ UNCHANGED <<health_enabled, up, registry, round_robin_index, round, result>>

\* Mutant of ProbeAnswered: the registry is written as answers come in.
ProbeAppliedAtOnce(u) ==
    /\ phase \in {"starting", "probing"}
    /\ result[u] = "pending"
    /\ result' = [result EXCEPT ![u] = IF up[u] THEN "ok" ELSE "failed"]
    /\ healthy' = [healthy EXCEPT ![u] = up[u]]
    /\ last_probe_at' = [last_probe_at EXCEPT ![u] = round]
    /\ last_success_at' = [last_success_at EXCEPT ![u] = IF up[u] THEN round ELSE @]
    /\ UNCHANGED <<health_enabled, up, round_robin_index, phase, serving, round>>

\* _probe_upstream(): a 2xx answer, or anything else.  httpx limits each connect,
\* write and read of a probe and not the probe, so that nothing makes this step
\* happen while an upstream sends its answer in small bits for ever.
ProbeAnswered(u) ==
    /\ phase \in {"starting", "probing"}
    /\ result[u] = "pending"
    /\ result' = [result EXCEPT ![u] = IF up[u] THEN "ok" ELSE "failed"]
    /\ UNCHANGED <<health_enabled, up, registry, round_robin_index, phase,
                   serving, round>>

\* Mutant of RoundComplete: the round waits until every upstream is well.
RoundSucceeded == \A u \in Upstreams : result[u] = "ok"

\* gather() returns once every probe of the round has been answered.
RoundComplete == \A u \in Upstreams : result[u] # "pending"

\* Mutants of Verdict: an upstream never recovers, or is never given up.
VerdictNeverRecovers(u) == healthy[u] /\ result[u] = "ok"
VerdictNeverLost(u) == healthy[u] \/ result[u] = "ok"

Verdict(u) == result[u] = "ok"

\* Mutant of SuccessStamp: every probe counts as a success.
SuccessStampAlways(u) == round

\* last_success_at moves only with a healthy result; None keeps the old value.
SuccessStamp(u) == IF result[u] = "ok" THEN round ELSE last_success_at[u]

\* refresh_all() after the gather: one set_upstream_health() per upstream,
\* none of which yields.
ApplyResults ==
    /\ phase \in {"starting", "probing"}
    /\ RoundComplete
    /\ Registry!SetUpstreamHealth([u \in Upstreams |-> Verdict(u)])
    /\ last_probe_at' = [u \in Upstreams |-> round]
    /\ last_success_at' = [u \in Upstreams |-> SuccessStamp(u)]
    /\ result' = NoResults
    /\ phase' = "sleeping"
    /\ serving' = TRUE
    /\ UNCHANGED <<health_enabled, up, round>>

\* _run() wakes up after check_interval_seconds.
WakeUp ==
    /\ phase = "sleeping"
    /\ SendProbes
    /\ phase' = "probing"
    /\ UNCHANGED <<health_enabled, up, registry, round_robin_index, serving>>

\* stop(): the task is cancelled wherever it is; the answers of an unfinished
\* round are dropped.
Stop ==
    /\ serving
    /\ phase \in {"sleeping", "probing", "off"}
    /\ phase' = "stopped"
    /\ serving' = FALSE
    /\ result' = NoResults
    /\ UNCHANGED <<health_enabled, up, registry, round_robin_index, round>>

\* Upstreams come and go at any time.
UpstreamFlips(u) ==
    /\ up' = [up EXCEPT ![u] = ~@]
    /\ UNCHANGED <<health_enabled, registry, round_robin_index, phase, serving, round, result>>

MonitorNext ==
    \/ Start \/ StartDisabled \/ ApplyResults \/ WakeUp
    \/ \E u \in Upstreams : ProbeAnswered(u)

Next == MonitorNext \/ Stop \/ \E u \in Upstreams : UpstreamFlips(u)

Spec == Init /\ [][Next]_vars

-----------------------------------------------------------------------------
(* Safety.                                                                  *)

\* The verdict and the two stamps that set_upstream_health() merges into the
\* previous state always agree: an upstream is healthy exactly when its last
\* success is its last probe, once it has been probed.  (Looked at while the
\* last probe has a time of its own.  Rounds stand for wall-clock times; a clock
\* that is set back between two of them is outside the model.)
VerdictMatchesStamps ==
    \A u \in Upstreams :
        /\ last_success_at[u] <= last_probe_at[u]
        /\ last_probe_at[u] \in 1..(MaxRounds - 1) =>
             (healthy[u] <=> last_success_at[u] = last_probe_at[u])

\* Readers of the registry never see a round half applied: all upstreams carry
\* the verdict of the same round, also after stop() cancels a round midway.
RoundsAreAtomic ==
    \A u, v \in Upstreams : last_probe_at[u] = last_probe_at[v]

\* Requests are served only after every upstream has been probed once.
ServesProbed ==
    serving /\ health_enabled => \A u \in Upstreams : last_probe_at[u] > 0

-----------------------------------------------------------------------------
(* Liveness.                                                                *)

\* The monitor does what it can do: the loop of _run() keeps sleeping, probing and
\* applying, and nothing but stop() ends it.  The answers of upstreams get no
\* fairness (see ProbeAnswered), and neither does what the upstreams are.
Fairness == WF_vars(Start) /\ WF_vars(StartDisabled) /\ WF_vars(ApplyResults) /\ WF_vars(WakeUp)

FairSpec == Spec /\ Fairness

Ended == phase = "stopped" \/ ~health_enabled

\* The round under way waits for the probe of v.  One such probe that never ends,
\* because each of its reads is in time, holds gather() and with it all verdicts.
Hangs(v) == phase \in {"starting", "probing"} /\ result[v] = "pending"
SomeProbeHangs == \E v \in Upstreams : <>[]Hangs(v)

\* An upstream that comes back and stays up is selectable again from some
\* time on, however the others flap, unless the gateway stops or the probe of
\* some upstream, any of them, never ends.
RecoversOnceUp ==
    \A u \in Upstreams : <>[]up[u] => <>([]healthy[u] \/ Ended) \/ SomeProbeHangs

\* An upstream that stays down is no longer selected from some time on, with
\* the same two exceptions.
AvoidedOnceDown ==
    \A u \in Upstreams : <>[](~up[u]) => <>([](~healthy[u]) \/ Ended) \/ SomeProbeHangs

\* start() lets the gateway serve eventually, even if no upstream is up, unless
\* a probe of the first round never ends: the lifespan waits for it.
EventuallyServes == <>serving \/ SomeProbeHangs
=============================================================================
