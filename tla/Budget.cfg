SPECIFICATION Spec
CONSTANTS
    w1 = w1
    w2 = w2
    w3 = w3
    r1 = r1
    r2 = r2
    Wakes = {w1, w2, w3}
    Roles = {r1, r2}
    RoleOf <- TwoAndOne
    Org = Org
    LastDay = 2
    Amounts = {1, 2}
    MaxUsage = 2
    Limits = {2, 3}
SYMMETRY Interchangeable
CHECK_DEADLOCK FALSE
INVARIANTS
    TypeOK
    ReservedIsHeld
    ConsumedIsUsed
    LimitOrOverage
