SPECIFICATION Spec
CONSTANTS
    p1 = p1
    p2 = p2
    p3 = p3
    p4 = p4
    Requests = {p1, p2, p3, p4}
    None = None
SYMMETRY Interchangeable
INVARIANTS
    IInv
    Exclusive
    LockAccounted
