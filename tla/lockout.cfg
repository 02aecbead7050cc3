SPECIFICATION Spec
CONSTANTS
    l1 = l1
    l2 = l2
    l3 = l3
    l4 = l4
    Logins = {l1, l2, l3, l4}
    MaxAttempts = 2
    Unreliable = {"cache", "database"}
SYMMETRY Interchangeable
INVARIANTS
    IInv
    LockoutJustified
    SuccessResets
PROPERTIES
    SequentialFailuresLock
