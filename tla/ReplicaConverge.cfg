CONSTANTS
    b0 = b0
    b1 = b1
    b2 = b2
    None = None
    Primary = b0
    Replicas = {b1, b2}
    Files = {f1, f2}
    Jobs = {j1}
    Commands = {"maintain", "remediate", "replicate"}
    Media <- MixedMedia
    Offsite <- OffsiteNames
    MinCopies = 3
    MinMedia = 2
    RequireOffsite = TRUE
    AutoRemediate = TRUE
    VerifyAfter = TRUE
    MaxHeals = 0
    Faults = {"rot", "lose", "outage", "crash"}
    MaxSnaps = 1
    MaxFaults = 2
SPECIFICATION FairSpec
CHECK_DEADLOCK FALSE
INVARIANT HealComplete
PROPERTIES GoodCopiesKept ReplicasConverge ReplicasPopulated
