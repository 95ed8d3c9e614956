SPECIFICATION Spec
CONSTANTS
    Hooks = {1, 2}
    Sessions = {s1}
    Passes = {p1, p2}
    Context <- MCContext
    Home <- MCHome
    Here <- MCHere
    MaxEntries = 1
    TrimSlack = 0
    MaxKills = 1
SYMMETRY PassSymmetry
CONSTRAINT FlushesOrPasses
INVARIANTS NoSilentLoss SpoolBounded DropsShow OwnProject
CHECK_DEADLOCK FALSE
