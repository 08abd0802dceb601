CONSTANTS
    Cases = {"CASE-1001", "CASE-1002", "CASE-NOPE"}
    CaseTable <- MCCases
    Ids <- MCIds
    Tables <- ReadTables
    Statuses = {"open", "closed"}
    SeedStatus = "open"
    Keys = {"idem-1"}
    BlankKey = "blank"
    Absent = Absent
    Calls = {t1, t2}
    MaxAudit = 2
SYMMETRY Callers
SPECIFICATION Spec
INVARIANTS
    StoreInv
    AcknowledgedAuditsLogged
    AnswersAgree
PROPERTY ImplementsDisputeStore
