SPECIFICATION Spec
CONSTANTS
    Syncers = {s1, s2}
    Issues = {1, 2}
    Texts = {t1}
    MaxVer = 3
    MaxFlips = 1
    Nobody = Nobody
    Modes = {"crash", "timeout", "error", "human"}
SYMMETRY Interchangeable
INVARIANTS
    OneIssue
    OneSyncSuffices
PROPERTIES
    SettledStays
