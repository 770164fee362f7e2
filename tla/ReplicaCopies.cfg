CONSTANTS
    b0 = b0
    b1 = b1
    b2 = b2
    None = None
    Primary = b0
    Replicas = {b1}
    Files = {f1}
    Jobs = {j1, j2, j3}
    Commands = {"replicate", "heal"}
    Media <- LocalMedia
    Offsite <- OffsiteNames
    MinCopies = 2
    MinMedia = 1
    RequireOffsite = FALSE
    AutoRemediate = FALSE
    VerifyAfter = TRUE
    MaxHeals = 1
    Faults = {"rot", "lose", "delete", "crash"}
    MaxSnaps = 1
    MaxFaults = 2
SPECIFICATION Spec
CHECK_DEADLOCK FALSE
SYMMETRY Symmetric
 
PROPERTY HealsWithGoodData
