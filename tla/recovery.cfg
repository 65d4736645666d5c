CONSTANTS
    MaxJobs = 2
    Projects = {p1}
    Operations = {"plan"}
    ColumnStatuses = {"PENDING_PLAN", "PLANNING", "PLANNED", "APPROVED", "QUEUED", "APPLYING", "APPLIED", "DESTROYING", "DESTROYED", "FAILED", "CANCELLED"}
    Faults = {"exec"}
    RequestKinds = {"create", "approve", "discard"}
    Clients = {c1}
    Workers = {w1, w2}
    MaxStops = 1
SPECIFICATION Spec
SYMMETRY Symmetry
INVARIANTS
    InProgressHasWorker
    NoLeakedWorkDir
PROPERTIES
    LifecycleHolds
