SPECIFICATION Spec
CONSTANTS
    r1 = r1
    r2 = r2
    w1 = w1
    w2 = w2
    Reads = {r1, r2}
    Writes = {w1, w2}
    Nobody = Nobody
    Ttl = 1
    MaxTime = 2
SYMMETRY Interchangeable
INVARIANTS
    IInv
    StaleBounded
    ProfileFresh
    NoProfileForDisabled
