SPECIFICATION Spec
CONSTANTS
    a1 = a1
    a2 = a2
    a3 = a3
    a4 = a4
    Rows = {a1, a2, a3, a4}
    MaxTime = 3
    MaxLimit = 2
SYMMETRY Interchangeable
INVARIANTS
    AuditWalk
    ListingComplete
