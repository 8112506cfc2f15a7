SPECIFICATION MCSpec
CONSTANTS
    Slot = {h1, h2}
    Cooldown = 1
    Ttl = 2
    MaxFailed = 2
    MaxCodes = 3
    MaxTime = 4
INVARIANTS
    TypeOK
    WrongGuessesBounded
    CountsOwnGuesses
PROPERTIES
    SingleUse
    ImplementsRules
