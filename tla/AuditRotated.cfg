CONSTANTS
    Bodies = {a, b}
    Characters <- MCCharacters
    MaxEntries = 2
    MaxAppends = 3
    MaxDays = 0
    Alterable = FALSE
SPECIFICATION Spec
CHECK_DEADLOCK FALSE
SYMMETRY Symmetric
INVARIANT UntamperedVerifies
