\* Two investigations one after the other.
CONSTANTS
    Runs = {run1, run2}
    Cases = {"CASE-1001", "CASE-NOPE"}
    CaseTable <- MCCases
    TransactionTable <- TRANSACTIONS
    BlankCase = "blank"
    UiCase = "CASE-1001"
    Posts = {p1, p2}
    Actions = {approve, reject}
    None = None
SPECIFICATION Spec
INVARIANT RecordedForThisCard
CHECK_DEADLOCK FALSE
