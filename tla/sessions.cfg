SPECIFICATION Spec
CONSTANTS
    r1 = r1
    r2 = r2
    r3 = r3
    t0 = t0
    t1 = t1
    t2 = t2
    t3 = t3
    t4 = t4
    k0 = k0
    k1 = k1
    k2 = k2
    k3 = k3
    Requests = {r1, r2, r3}
    Users = {u1}
    Tokens = {t0, t1, t2, t3}
    ResetTokens = {}
    None = None
    Seed = Seed
    Kinds = {"login", "refresh", "update"}
    Patches <- AnyPatch
    Preissued = {t0}
    PreissuedResets = {}
    Expiring = {}
SYMMETRY Interchangeable
INVARIANTS
    RotationAtomic
    SuccessorsOverlap
    RevocationCovers
    NoIssueForDisabled
    IInv
PROPERTIES
    FlipsExclusive
    ImplementsStore
