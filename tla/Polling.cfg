SPECIFICATION PollSpec
CONSTANTS
    Items = {1, 2}
    Pollers = {service, cli}
    PageSize = 1
    Overlap = 1
    Delay = 1
    MaxTime = 4
    MaxChanges = 4
    Listings = {"updated", "created"}
    Modes = {"crash", "fail"}
SYMMETRY Interchangeable
INVARIANTS
    PollTypeOK
    NothingLost
