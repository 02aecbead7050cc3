SPECIFICATION FairSpec
CONSTANTS
    e1 = e1
    e2 = e2
    i1 = i1
    i2 = i2
    j1 = j1
    j2 = j2
    a1 = a1
    a2 = a2
    Events = {e1, e2}
    Pollers = {i1}
    Jobs = {j1, j2}
    AuditJobs = {a1}
    None = None
    BatchSize = 1
    PublishAttempts = 2
    AuditAttempts = 1
    MaxFaults = 1
PROPERTIES
    StoredIsAudited
