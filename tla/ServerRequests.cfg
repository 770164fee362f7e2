SPECIFICATION MCSpec
CONSTANTS
    Nothing = Nothing
    MaxTime = 2
    MaxRequests = 4
    p1 = p1  d1 = d1
    DeviceIds = {d1}
    PolicyIds = {p1, p2}
    SnapshotIds = {s1}
    Bodies <- MCBodies
    Clients = {c1, c2}
    lab = lab  dock = dock
    Locations <- MCLocations
    PageFiles = 1
    Devices = {e1, e2, e3}
    Groups = {lab}
    Profiles <- MCProfiles
    Usages = {10}
    Settings = {x1}
    Threshold = 1
    Agents = {a1}
    Tasks = {t1, t2}
    Tokens = {k1, k2}
    CacheTtl = 2
    FileIds = {f1, f2}
    FileSizes = {1, 2}
    Healths = {"healthy", "lost"}
    Viewers = {v1}
SYMMETRY Symmetric
INVARIANTS AuditMatchesWork SilenceNoticed StatusAgeBounded ViewsCoherent
PROPERTY LastSeenForward
CHECK_DEADLOCK FALSE
