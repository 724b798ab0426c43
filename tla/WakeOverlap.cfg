SPECIFICATION Spec
CONSTANTS
    Wakes = {w1, w2}
    r1 = r1
    r2 = r2
    d1 = d1
    d2 = d2
    Deliveries = {d1}
    Roles = {r1}
    RoleOf <- OneRole
    Procs = {p1, p2}
    Cap = 1
    MaxAttempts = 2
    Manual = Manual
    Nobody = Nobody
    Modes = {"shutdown", "cli", "pause"}
SYMMETRY Interchangeable
CHECK_DEADLOCK FALSE
INVARIANTS
    NoReexecution
    OutcomeIsReal
    ClosedSessionIsQuiet
PROPERTIES
    ImplementsAtMostOnce
