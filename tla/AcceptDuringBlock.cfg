SPECIFICATION MCSpec
CONSTANTS
    User = {1, 2}
    RacingUser = {1, 2}
    Slot = {h1, h2}
    MaxRequests = 1
SYMMETRY SlotSymmetry
INVARIANT BlockSevers
