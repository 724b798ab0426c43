SPECIFICATION Spec
CONSTANTS
    Sessions = {s1, s2}
    Requests = {"read", "marked", "close", "submit", "worker"}
    Keys = {k1}
    ClientKeys <- AnyClientKeys
    Verifiers = {v1, v2}
    Nobody = Nobody
    Modes = {"crash", "late", "others", "fault"}
SYMMETRY Interchangeable
CHECK_DEADLOCK FALSE
INVARIANTS
    TypeOK
    SentOnce
