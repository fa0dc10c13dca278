\* Any number of rounds of probes, the first three told apart by their time.
SPECIFICATION FairSpec
CONSTANTS
    u1 = u1
    u2 = u2
    m1 = m1
    Upstreams = {u1, u2}
    Models = {m1}
    Pool <- MCPool
    MaxRounds = 4
INVARIANTS VerdictMatchesStamps RoundsAreAtomic ServesProbed
PROPERTIES RecoversOnceUp AvoidedOnceDown EventuallyServes
