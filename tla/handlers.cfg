CONSTANTS
    MaxJobs = 1
    Projects = {p1}
    Operations = {"plan", "apply", "destroy", "refresh"}
    ColumnStatuses = {"PENDING_PLAN", "PLANNING", "PLANNED", "APPROVED", "APPLYING", "APPLIED", "DESTROYING", "DESTROYED", "FAILED", "CANCELLED"}
    Faults = {"exec", "db"}
    RequestKinds = {"create", "approve", "discard", "unlock"}
    Clients = {c1, c2}
    Workers = {w1, w2}
    MaxStops = 1
SPECIFICATION Spec
SYMMETRY Symmetry
INVARIANTS
    TypeOK
    PlannedHasPlan
    ExclusiveRun
PROPERTIES
    LifecycleHolds
