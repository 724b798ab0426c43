SPECIFICATION FairSpec
CONSTANTS
    Wakes = {w1, w2}
    r1 = r1
    r2 = r2
    d1 = d1
    d2 = d2
    Deliveries = {d1}
    Roles = {r1, r2}
    RoleOf <- OneRole
    Procs = {p1, p2}
    Cap = 2
    MaxAttempts = 2
    Manual = Manual
    Nobody = Nobody
    Modes = {"crash", "fault", "pidreuse"}
CHECK_DEADLOCK FALSE
INVARIANTS
    ReleasedUnused
    ClosedSessionIsQuiet
    NoOrphanAfterStartup
PROPERTIES
    EveryDeliveryDisposed
