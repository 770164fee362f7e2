SPECIFICATION Spec
CONSTANTS
    a = a  b = b  a1 = a1  x = x  y = y
    None = None  Damaged = Damaged  Torn = Torn
    Masters = {k1, k2}
    Contexts = {ctx}
    MaxVersion = 2
    Files <- MCFiles
    Paths <- MCPaths
    Renames <- MCRenames
    Contents = {x, y}
    Original <- MCOriginal
    Jobs = {r1}
    Options <- MCOptions
    MaxRestores = 1
    MaxEvents = 0
INVARIANT OldDataReadable
CHECK_DEADLOCK FALSE
