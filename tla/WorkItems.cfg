SPECIFICATION Spec
CONSTANTS
    i1 = i1
    i2 = i2
    Items = {i1, i2}
    Agents = {a1, a2}
    Roles = {"project-orchestrator", "governance-reviewer", "software-implementer"}
    CreateKinds = {"epic", "story"}
    MoveTargets = {"Todo", "Demo", "Blocked"}
    Populations <- OneOfTwo
    MaxRequests = 4
    MaxHuman = 1
    None = None
SYMMETRY Interchangeable
CHECK_DEADLOCK FALSE
INVARIANTS
    TypeOK
    DeliveryWorkIsDeliverable
PROPERTIES
    OwnerKept
    StageForward
    ClosedWithEvidence
