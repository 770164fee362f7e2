CONSTANTS
    first = s1
    Uses = {"both"}
    c = c
    d = d
    p = p
    q = q
    Chunks = {c, d}
    Contents <- SmallFiles
    Places = {p}
    Basename <- OwnNames
    Snapshots = {s1}
    Jobs = {j1}
    Collects = TRUE
    Reloads = TRUE
    MaxBackups = 3
    MaxRestarts = 1
    MaxClock = 1
SPECIFICATION UseSpec
CHECK_DEADLOCK FALSE
INVARIANTS SavedRestores
