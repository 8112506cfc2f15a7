SPECIFICATION MCSpec
CONSTANTS
    MaxIntegerDigits = 2
    Scale = 1
    CATEGORIES <- Categories
    Date <- Dates
    Day <- Days
    Today = 738975
    Period = {"week"}
    Currency = {"usd", "vnd"}
    Rate <- Rates
    Visibility = {"private"}
    Text <- Texts
    Locale0 = "en"
    First <- One
    Load = {l1, l2}
    Req = {q1, q2}
    Gone = Gone
    NotRead = NotRead
    MaxUnderWay = 2
    MaxChanges = 2
INVARIANTS
    ListKeepsUp
    CardMatchesList
    SheetLogsOnce
SYMMETRY Symmetry
