------------------------- MODULE UpstreamHealthProofs -------------------------
(***************************************************************************)
(* Proofs about UpstreamHealthMonitor for any number of upstreams and      *)
(* rounds, whatever the probes find and whenever stop() comes.             *)
(***************************************************************************)
EXTENDS UpstreamHealth, TLAPS

TypeOK ==
    /\ health_enabled \in BOOLEAN
    /\ up \in [Upstreams -> BOOLEAN]
    /\ healthy \in [Upstreams -> BOOLEAN]
    /\ last_probe_at \in [Upstreams -> 0..MaxRounds]
    /\ last_success_at \in [Upstreams -> 0..MaxRounds]
    /\ phase \in {"new", "starting", "sleeping", "probing", "off", "stopped"}
    /\ serving \in BOOLEAN
    /\ round \in 0..MaxRounds
    /\ result \in [Upstreams -> {"pending", "ok", "failed"}]

\* A round under way is newer than every stamp in the registry, as long as it
\* has a time of its own: an old success cannot pass for its result.
RoundIsNew ==
    /\ \A u \in Upstreams : last_probe_at[u] <= round
    /\ phase \in {"starting", "probing"} =>
         /\ round > 0
         /\ round < MaxRounds => \A u \in Upstreams : last_probe_at[u] < round

HealthInv ==
    TypeOK /\ RoundIsNew /\ VerdictMatchesStamps /\ RoundsAreAtomic /\ ServesProbed

\* The invariant holds before the first round.
LEMMA HealthInvInit == Init => HealthInv
<1> SUFFICES ASSUME Init PROVE HealthInv
    OBVIOUS
<1> USE RoundsAssumption
<1>0. /\ health_enabled \in BOOLEAN /\ up \in [Upstreams -> BOOLEAN]
      /\ healthy = [u \in Upstreams |-> TRUE]
      /\ last_probe_at = [u \in Upstreams |-> 0]
      /\ last_success_at = [u \in Upstreams |-> 0]
      /\ phase = "new" /\ serving = FALSE /\ round = 0
      /\ result = [u \in Upstreams |-> "pending"]
    BY DEF Init, Registry!Init, NoResults
<1>1. TypeOK
    <2>1. healthy \in [Upstreams -> BOOLEAN]
        BY <1>0
    <2>2. result \in [Upstreams -> {"pending", "ok", "failed"}]
        BY <1>0
    <2>3. /\ last_probe_at \in [Upstreams -> 0..MaxRounds]
          /\ last_success_at \in [Upstreams -> 0..MaxRounds]
          /\ round \in 0..MaxRounds
        BY <1>0
    <2> QED
        BY <1>0, <2>1, <2>2, <2>3 DEF TypeOK
<1>2. RoundIsNew
    BY <1>0 DEF RoundIsNew
<1>3. VerdictMatchesStamps
    <2>1. \A u \in Upstreams : /\ last_success_at[u] <= last_probe_at[u]
                               /\ last_probe_at[u] \notin 1..(MaxRounds - 1)
        <3>1. \A u \in Upstreams : last_success_at[u] = 0 /\ last_probe_at[u] = 0
            BY <1>0
        <3>2. 0 <= 0 /\ 0 \notin 1..(MaxRounds - 1)
            OBVIOUS
        <3> QED
            BY <3>1, <3>2
    <2> QED
        BY <2>1 DEF VerdictMatchesStamps
<1>4. RoundsAreAtomic /\ ServesProbed
    BY <1>0 DEF RoundsAreAtomic, ServesProbed
<1> QED
    BY <1>1, <1>2, <1>3, <1>4 DEF HealthInv

\* Sending the probes of the next round keeps it newer than the registry.
LEMMA SendProbesStep ==
    ASSUME HealthInv, SendProbes, UNCHANGED registry
    PROVE  /\ round' \in 1..MaxRounds
           /\ result' \in [Upstreams -> {"pending", "ok", "failed"}]
           /\ \A u \in Upstreams :
                last_probe_at'[u] <= round' /\ (round' < MaxRounds => last_probe_at'[u] < round')
<1>1. /\ round \in 0..MaxRounds /\ MaxRounds \in Nat \ {0}
      /\ \A u \in Upstreams : last_probe_at[u] \in 0..MaxRounds /\ last_probe_at[u] <= round
    BY RoundsAssumption DEF HealthInv, TypeOK, RoundIsNew
<1>2. /\ round' = IF round < MaxRounds THEN round + 1 ELSE round
      /\ result' = [u \in Upstreams |-> "pending"]
      /\ last_probe_at' = last_probe_at
    BY DEF SendProbes, NoResults, registry
<1> QED
    BY <1>1, <1>2

\* The round is written to the registry as a whole.
LEMMA ApplyResultsStep ==
    ASSUME HealthInv, ApplyResults
    PROVE  HealthInv'
<1>1. /\ round \in 1..MaxRounds
      /\ round < MaxRounds => \A u \in Upstreams : last_success_at[u] < round
      /\ \A u \in Upstreams : last_success_at[u] \in 0..round
    BY RoundsAssumption
       DEF HealthInv, TypeOK, RoundIsNew, VerdictMatchesStamps, ApplyResults
<1>2. /\ healthy' = [u \in Upstreams |-> result[u] = "ok"]
      /\ last_probe_at' = [u \in Upstreams |-> round]
      /\ last_success_at' =
           [u \in Upstreams |-> IF result[u] = "ok" THEN round ELSE last_success_at[u]]
      /\ result' = [u \in Upstreams |-> "pending"]
      /\ phase' = "sleeping"
      /\ serving' = TRUE
      /\ UNCHANGED <<health_enabled, up, round>>
    BY DEF ApplyResults, Registry!SetUpstreamHealth, Verdict, SuccessStamp, NoResults
<1>3. TypeOK'
    BY <1>1, <1>2, RoundsAssumption DEF HealthInv, TypeOK
<1>4. RoundIsNew'
    BY <1>1, <1>2 DEF RoundIsNew
<1>5. VerdictMatchesStamps'
    <2>1. ASSUME NEW u \in Upstreams
          PROVE  /\ last_success_at'[u] <= last_probe_at'[u]
                 /\ last_probe_at'[u] \in 1..(MaxRounds - 1) =>
                      (healthy'[u] <=> last_success_at'[u] = last_probe_at'[u])
        <3>1. CASE result[u] = "ok"
            <4>1. healthy'[u]
                BY <1>2, <3>1
            <4>2. last_success_at'[u] = round /\ last_probe_at'[u] = round
                BY <1>2, <3>1
            <4> QED
                BY <1>1, <4>1, <4>2
        <3>2. CASE result[u] # "ok"
            <4>1. ~healthy'[u]
                BY <1>2, <3>2
            <4>2. last_success_at'[u] = last_success_at[u] /\ last_probe_at'[u] = round
                BY <1>2, <3>2
            <4>3. /\ last_success_at'[u] <= last_probe_at'[u]
                  /\ last_probe_at'[u] \in 1..(MaxRounds - 1) =>
                       last_success_at'[u] # last_probe_at'[u]
                BY <1>1, <4>2, RoundsAssumption
            <4> QED
                BY <4>1, <4>3
        <3> QED
            BY <3>1, <3>2
    <2> QED
        BY <2>1 DEF VerdictMatchesStamps
<1>6. RoundsAreAtomic' /\ ServesProbed'
    BY <1>1, <1>2 DEF RoundsAreAtomic, ServesProbed
<1> QED
    BY <1>3, <1>4, <1>5, <1>6 DEF HealthInv

\* Every step of the monitor, its probes and the upstreams keeps the invariant.
LEMMA HealthInvNext == HealthInv /\ [Next]_vars => HealthInv'
<1> SUFFICES ASSUME HealthInv, [Next]_vars PROVE HealthInv'
    OBVIOUS
<1> USE DEF registry
<1>1. ASSUME Start PROVE HealthInv'
    <2>1. /\ SendProbes /\ phase' = "starting"
          /\ UNCHANGED <<health_enabled, up, registry, serving>>
        BY <1>1 DEF Start
    <2> QED
        BY <2>1, SendProbesStep
           DEF HealthInv, TypeOK, RoundIsNew, VerdictMatchesStamps, RoundsAreAtomic, ServesProbed
<1>2. ASSUME WakeUp PROVE HealthInv'
    <2>1. /\ SendProbes /\ phase' = "probing"
          /\ UNCHANGED <<health_enabled, up, registry, serving>>
        BY <1>2 DEF WakeUp
    <2> QED
        BY <2>1, SendProbesStep
           DEF HealthInv, TypeOK, RoundIsNew, VerdictMatchesStamps, RoundsAreAtomic, ServesProbed
<1>3. ASSUME StartDisabled PROVE HealthInv'
    BY <1>3 DEF StartDisabled, HealthInv, TypeOK, RoundIsNew, VerdictMatchesStamps,
                RoundsAreAtomic, ServesProbed
<1>4. ASSUME ApplyResults PROVE HealthInv'
    BY <1>4, ApplyResultsStep
<1>5. ASSUME NEW u \in Upstreams, ProbeAnswered(u) PROVE HealthInv'
    BY <1>5 DEF ProbeAnswered, HealthInv, TypeOK, RoundIsNew, VerdictMatchesStamps,
                RoundsAreAtomic, ServesProbed
<1>6. ASSUME Stop PROVE HealthInv'
    BY <1>6 DEF Stop, NoResults, HealthInv, TypeOK, RoundIsNew, VerdictMatchesStamps,
                RoundsAreAtomic, ServesProbed
<1>7. ASSUME NEW u \in Upstreams, UpstreamFlips(u) PROVE HealthInv'
    BY <1>7 DEF UpstreamFlips, HealthInv, TypeOK, RoundIsNew, VerdictMatchesStamps,
                RoundsAreAtomic, ServesProbed
<1>8. CASE UNCHANGED vars
    BY <1>8 DEF vars, HealthInv, TypeOK, RoundIsNew, VerdictMatchesStamps,
                RoundsAreAtomic, ServesProbed
<1> QED
    BY <1>1, <1>2, <1>3, <1>4, <1>5, <1>6, <1>7, <1>8 DEF Next, MonitorNext

\* The invariant holds in every state of the monitor.
LEMMA HealthInvariance == Spec => []HealthInv
<1> QED
    BY HealthInvInit, HealthInvNext, PTL DEF Spec

\* The verdict that routing reads and the two stamps that are reported never
\* disagree, however rounds, flapping upstreams and stop() interleave.
THEOREM VerdictsMatchStamps == Spec => []VerdictMatchesStamps
<1>1. HealthInv => VerdictMatchesStamps
    BY DEF HealthInv
<1> QED
    BY HealthInvariance, <1>1, PTL

\* No reader of the registry sees a round half applied.
THEOREM RoundsAppliedWhole == Spec => []RoundsAreAtomic
<1>1. HealthInv => RoundsAreAtomic
    BY DEF HealthInv
<1> QED
    BY HealthInvariance, <1>1, PTL

\* With probing enabled no request is served before every upstream was probed.
THEOREM ServesOnlyProbed == Spec => []ServesProbed
<1>1. HealthInv => ServesProbed
    BY DEF HealthInv
<1> QED
    BY HealthInvariance, <1>1, PTL

\* The monitor uses the registry as Routing says: of all its steps only the end
\* of a round writes there, once, with a verdict on every upstream.
THEOREM MonitorUsesRegistry == Spec => Registry!Spec
<1>1. Init => Registry!Init
    BY DEF Init
<1>2. [Next]_vars => [Registry!Next]_(Registry!vars)
    <2> SUFFICES ASSUME [Next]_vars PROVE [Registry!Next]_(Registry!vars)
        OBVIOUS
    <2>1. CASE ApplyResults
        <3>1. [u \in Upstreams |-> Verdict(u)] \in [Upstreams -> BOOLEAN]
            BY DEF Verdict
        <3> QED
            BY <2>1, <3>1 DEF ApplyResults, Registry!Next
    <2>2. CASE UNCHANGED <<healthy, round_robin_index>>
        BY <2>2 DEF Registry!vars
    <2>3. ~ApplyResults => UNCHANGED <<healthy, round_robin_index>>
        BY DEF Next, MonitorNext, Start, StartDisabled, WakeUp, ProbeAnswered, Stop,
               UpstreamFlips, vars, registry
    <2> QED
        BY <2>1, <2>2, <2>3
<1> QED
    BY <1>1, <1>2, PTL DEF Spec, Registry!Spec
=============================================================================
