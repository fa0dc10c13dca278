\* Pools of four and two members, with a member listed twice.
SPECIFICATION RRSpec
CONSTANTS
    u1 = u1
    u2 = u2
    u3 = u3
    m1 = m1
    m2 = m2
    Upstreams = {u1, u2, u3}
    Models = {m1, m2}
    Pool <- MCPool
INVARIANTS TypeOK NoStarvation DiscoveryMatchesRouting
