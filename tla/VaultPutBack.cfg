CONSTANTS
    c1 = c1
    c2 = c2
    None = None
    Torn = Torn
    Contents <- MCContents
    SizeOf <- EqualSizes
    Sources = {s1}
    Files = {f1}
    Workers = {w1}
    Kinds = {"full", "incremental"}
    MaxClock = 1
    MaxSnaps = 3
    MaxEdits = 2
    MaxStops = 0
    LongLived = TRUE
    SameSecondRuns = FALSE
    PreservingTools = TRUE
SPECIFICATION Spec
CHECK_DEADLOCK FALSE
INVARIANT WholeChainRestoresSource
