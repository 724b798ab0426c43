SPECIFICATION Spec
CONSTANTS
    Roles = {r1}
    Sessions = {s1, s2}
    RoleOf <- SameRole
    Attempts = {a1, a2}
    Files = {f1, f2}
    CumulativeCap = 1
    ConcurrentCap = 1
    GlobalCap = 2
    MaxWrites = 1
    Nobody = Nobody
    Modes = {"crash", "fault"}
SYMMETRY Interchangeable
CHECK_DEADLOCK FALSE
INVARIANTS
    TypeOK
    WithinGlobalCap
    
    NothingOverwritten
    SucceededIsImported
