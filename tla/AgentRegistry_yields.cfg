\* The weakest reading of await: only the lock orders the tasks.
CONSTANTS
    Agents = {a1}
    Skills = {s1}
    Adverts = {{s1}}
    Absent = Absent
    LeaseDuration = 1
    Requests = {r1, r2}
    Sweeper = Sweeper
    Nobody = Nobody
    AwaitYields = TRUE
    MaxTime = 1
SPECIFICATION Spec
SYMMETRY Symmetry
INVARIANTS
    TaskInv
    LockDiscipline
PROPERTIES
    LiveAgentsStay
