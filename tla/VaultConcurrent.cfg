CONSTANTS
    c1 = c1
    c2 = c2
    None = None
    Torn = Torn
    Contents <- MCContents
    SizeOf <- EqualSizes
    Sources = {s1}
    Files = {f1}
    Workers = {w1, w2}
    Kinds = {"full", "incremental", "differential"}
    MaxClock = 1
    MaxSnaps = 2
    MaxEdits = 2
    MaxStops = 1
    LongLived = FALSE
    SameSecondRuns = FALSE
    PreservingTools = TRUE
SPECIFICATION Spec
CHECK_DEADLOCK FALSE
SYMMETRY Symmetric
INVARIANTS PublishedHasData DifferentialRestoresSource
PROPERTY ImplementsCatalog
