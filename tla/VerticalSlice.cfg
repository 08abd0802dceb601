\* Two runs, from the page or from elsewhere, and two clicks on the buttons of a
\* card; no symmetry, because of the liveness properties.
CONSTANTS
    Runs = {run1, run2}
    Cases = {"CASE-1001", "CASE-NOPE"}
    CaseTable <- MCCases
    TransactionTable <- TRANSACTIONS
    BlankCase = "blank"
    UiCase = "CASE-1001"
    Posts = {p1, p2}
    Actions = {approve, reject}
    None = None
SPECIFICATION FairSpec
INVARIANTS
    StreamOK
    OnlyKnownCases
    ShownIsCurrent
    DecisionsInformed
PROPERTIES
    EveryRequestEnds
    InvestigationShown
\* both runs are over and both posts used
CHECK_DEADLOCK FALSE
