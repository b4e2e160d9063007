SPECIFICATION Spec
CONSTANTS
    SfPerFrame = 3
    Frames = 3
    SfField = 4
    Size = 3
    SfAhead = 1
    Period = 1
    Heap = {1, 2}
    TxLeads = {2, 3}
    UlLeads = {0, 3, 4}
    Deltas = {0, 2}
INVARIANTS
    FreedInItsTurn
    OneOwner
    KeptUntilItsTurn
    LateReported
    WindowIsDistance
