CONSTANTS
    first = s1
    Uses = {"collect", "reload"}
    c = c
    d = d
    p = p
    q = q
    Chunks = {c, d}
    Contents <- RepeatedFiles
    Places = {p}
    Basename <- OwnNames
    Snapshots = {s1, s2}
    Jobs = {j1, j2}
    Collects = TRUE
    Reloads = TRUE
    MaxBackups = 3
    MaxRestarts = 1
    MaxClock = 1
SPECIFICATION UseSpec
CHECK_DEADLOCK FALSE
SYMMETRY Symmetric
INVARIANTS SharedRestores NothingLost
