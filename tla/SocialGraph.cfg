SPECIFICATION MCFairSpec
CONSTANTS
    User = {1, 2, 3}
    RacingUser = {1, 2}
    Slot = {h1, h2}
    MaxRequests = 2
INVARIANTS
    TypeOK
    AcceptedIsSpent
    FriendshipHasConsent
PROPERTIES
    Answered
    ImplementsRules
