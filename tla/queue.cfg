CONSTANTS
    MaxJobs = 4
    Projects = {p1}
    Operations = {"plan"}
    ColumnStatuses = {"PENDING_PLAN", "PLANNING", "PLANNED", "APPROVED", "QUEUED", "APPLYING", "APPLIED", "DESTROYING", "DESTROYED", "FAILED", "CANCELLED"}
    Faults = {}
    RequestKinds = {"create"}
    Clients = {c1}
    Workers = {w1, w2}
    MaxStops = 0
SPECIFICATION Spec
SYMMETRY Symmetry
INVARIANTS
    LockedByOne
PROPERTIES
    PromotionIsFIFO
