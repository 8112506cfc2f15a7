SPECIFICATION Spec
CONSTANTS
    User = {u1, u2}
    Expense = {e1}
    Slot = {h1, h2}
    Owner <- OneOwner
    None = None
SYMMETRY SlotSymmetry
INVARIANTS
    TypeOK
    ShownIsVouched
    ShownExactly
PROPERTY
    LikedIsVouched
