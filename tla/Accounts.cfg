SPECIFICATION MCSpec
CONSTANTS
    Slot = {h1, h2}
    Second = 2
    Password = {1, 2, 3}
    RacingPassword = {1, 2}
    Code = {1, 2}
    MaxTokens = 2
    RacingTokens = 1
    MaxTime = 4
    RacingTime = 3
INVARIANTS
    TypeOK
    SessionNeedsPassword
    EveryChangeHasItsCode
    OldPasswordSessionsEnd
PROPERTIES
    RevokedStaysRevoked
CHECK_DEADLOCK FALSE
