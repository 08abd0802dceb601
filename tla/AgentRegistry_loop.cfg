\* The build: an await that need not block does not yield.
CONSTANTS
    Agents = {a1, a2}
    Skills = {s1, s2}
    Adverts = {{s1}, {s2}}
    Absent = Absent
    LeaseDuration = 1
    Requests = {r1, r2}
    Sweeper = Sweeper
    Nobody = Nobody
    AwaitYields = FALSE
    MaxTime = 1
SPECIFICATION Spec
SYMMETRY Symmetry
INVARIANTS
    LoopInv
    SnapshotCurrent
    ListedOutliveSweep
PROPERTIES
    ImplementsLeaseRegistry
    NewerLeasesPrevail
