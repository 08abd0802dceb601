\* One investigation and one click.
CONSTANTS
    Runs = {run1}
    Cases = {"CASE-1001", "CASE-NOPE"}
    CaseTable <- MCCases
    TransactionTable <- TRANSACTIONS
    BlankCase = "blank"
    UiCase = "CASE-1001"
    Posts = {p1}
    Actions = {approve, reject}
    None = None
SPECIFICATION Spec
INVARIANT RecordedWasLogged
CHECK_DEADLOCK FALSE
