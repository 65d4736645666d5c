CONSTANTS
    MaxJobs = 1
    Projects = {p1}
    Operations = {"plan"}
    ColumnStatuses = {"PENDING_PLAN", "PLANNING", "PLANNED", "APPROVED", "QUEUED", "APPLYING", "APPLIED", "DESTROYING", "DESTROYED", "FAILED", "CANCELLED"}
    Faults = {}
    RequestKinds = {"create", "approve", "discard"}
    Clients = {c1}
    Workers = {w1}
    MaxStops = 0
SPECIFICATION Spec
PROPERTIES
    ApprovalDispatchesApply
