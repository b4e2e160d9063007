SPECIFICATION Spec
CONSTANTS
    SlotsPerFrame = 4
    Frames = 3
    Ahead = 2
    Window = 3
    Period = 2
    Heap = {1, 2, 3}
    TtiLeads = {1, 2, 4}
    DciLeads = {3, 4}
    Deltas = {0, 1}
INVARIANTS
    FreedInItsSlot
    OneOwner
