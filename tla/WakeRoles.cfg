SPECIFICATION Spec
CONSTANTS
    Wakes = {w1, w2}
    r1 = r1
    r2 = r2
    d1 = d1
    d2 = d2
    Deliveries = {d1, d2}
    Roles = {r1, r2}
    RoleOf <- OneRole
    Procs = {p1}
    Cap = 2
    MaxAttempts = 2
    Manual = Manual
    Nobody = Nobody
    Modes = {"manual", "fault"}
SYMMETRY Interchangeable
CHECK_DEADLOCK FALSE
INVARIANTS
    TypeOK
    RoleExclusive
