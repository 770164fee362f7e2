SPECIFICATION Spec
CONSTANTS
    a = a  b = b  a1 = a1  x = x  y = y
    None = None  Damaged = Damaged  Torn = Torn
    Masters = {k1, k2}
    Contexts = {ctx}
    MaxVersion = 2
    Files <- MCFiles
    Paths <- MCPaths
    Renames <- MCRenames
    Contents = {x, y}
    Original <- MCOriginal
    Jobs = {r1, r2}
    Options <- MCOptions
    MaxRestores = 2
    MaxEvents = 1
SYMMETRY Symmetric
INVARIANTS RestoredIsOriginal EndAccountsForAll KeysFollowMaster
PROPERTY OthersKept
CHECK_DEADLOCK FALSE
