SPECIFICATION Spec
CONSTANTS
    r1 = r1
    r2 = r2
    i1 = i1
    e1 = e1
    e2 = e2
    Requests = {r1, r2}
    Ips = {i1}
    Empresas = {e1, e2}
    FREE = FREE
    PRO = PRO
    Tiers = 2
    FreeLimit = 1
    ProLimit = 2
    Buckets = 2
    None = None
SYMMETRY Interchangeable
INVARIANTS
    IInv
    RunsInCheckedCompany
    MetricsAgree
    AddressBounded
    AuditedDone
