SPECIFICATION FairSpec
CONSTANTS
    Run = {r1, r2}
    Pairs = 2
    Backfill = 1
    Seeded = {1}
    MaxDay = 2
INVARIANTS
    TypeOK
    MatrixWhole
    RunCovers
    EntriesAreCurrent
PROPERTY RunsEnd
