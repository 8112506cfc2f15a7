SPECIFICATION MCSpec
CONSTANTS
    User = {ann, bob}
    Twin = {ann}
    Setting = {preferredCurrency}
    Form = {1, 2}
    Call = {1, 2}
    NoUser = NoUser
    Me = Me
    MaxTokens = 2
    MaxKills = 1
    MaxUnderWay = 2
    MaxWrites = 2
    MaxPending = 3
INVARIANTS
    OneIdentity
    StoreFollows
    CopyIsFresh
PROPERTY SplashEnds
