SPECIFICATION Spec
CONSTANTS
    Date <- Dates
    Call = {c1, c2}
    FirstDay = 738975
    LastDay = 738976
    MaxBack = 3
    Latest = 739036
    Earliest = 738854
SYMMETRY CallSymmetry
INVARIANT NextStopsAtCurrent
