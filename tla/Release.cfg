SPECIFICATION Spec
CONSTANTS
    Installers = {i1, i2}
    Activators = {a1}
    Versions = {v1}
    None = None
    MaxEdits = 1
SYMMETRY Interchangeable
INVARIANTS
    ActiveIsWhole
    RunsReviewed
PROPERTIES
    InstalledStays
