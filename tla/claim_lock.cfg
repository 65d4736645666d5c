CONSTANTS
    MaxJobs = 2
    Projects = {p1}
    Operations = {"destroy"}
    ColumnStatuses = {"PENDING_PLAN", "PLANNING", "PLANNED", "APPROVED", "QUEUED", "APPLYING", "APPLIED", "DESTROYING", "DESTROYED", "FAILED", "CANCELLED"}
    Faults = {}
    RequestKinds = {"create"}
    Clients = {c1, c2}
    Workers = {w1, w2}
    MaxStops = 0
SPECIFICATION Spec
INVARIANTS
    StateLockExclusive
