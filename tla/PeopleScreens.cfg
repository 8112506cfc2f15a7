SPECIFICATION Spec
CONSTANTS
    User = {ann, bob}
    Call = {c1, c2}
    NotRead = NotRead
    Nobody = Nobody
    MaxChanges = 2
INVARIANTS
    ListsKeepUp
    RefusalsAreNews
SYMMETRY Symmetry
