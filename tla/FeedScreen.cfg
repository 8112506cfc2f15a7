SPECIFICATION Spec
CONSTANTS
    Newest = 3
    Limit = 2
    ann = ann
    bob = bob
    Me = me
    Owner <- Owners
    Tapped = {3}
    Rival = {ann}
INVARIANTS
    TypeOK
    EachOnce
    BlockedStayGone
    PillsAgree
