SPECIFICATION Spec
CONSTANTS
    Sessions = {s1}
    Requests = {"close", "state"}
    Keys <- OwnKeys
    ClientKeys <- OwnClientKeys
    Verifiers = {v1, v2}
    Nobody = Nobody
    Modes = {"late", "others"}
SYMMETRY LikeVerifiers
CHECK_DEADLOCK FALSE
INVARIANTS
    SucceededIsDone
    AmbiguousIsPending
