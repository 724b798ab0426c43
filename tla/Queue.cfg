SPECIFICATION FairSpec
CONSTANTS
    Events = {1, 2}
    r1 = r1
    r2 = r2
    Facts <- MixedFacts
    Rules <- TheRules
    Roles = {r1, r2}
    Deliveries = {d1, d2}
    Procs = {service, cli}
    Service = service
    Limit = 2
    BatchSize = 2
    MaxAttempts = 2
    MaxCrashes = 1
    Nobody = Nobody
INVARIANTS
    BoundOnce
    RouteTellsDelivery
PROPERTIES
    OutcomeIsFinal
    EveryEventSettled
