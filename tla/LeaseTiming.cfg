\* A lease of two sweeps and a half, a loop up to one unit late, a wall clock
\* that strays by up to two units.
CONSTANTS
    Agents = {a1, a2}
    Skills = {s1}
    Adverts = {{s1}}
    Absent = Absent
    LeaseDuration = 5
    SweepInterval = 2
    MaxLag = 1
    MaxDrift = 2
    MaxTime = 12
SPECIFICATION Spec
SYMMETRY Symmetry
INVARIANTS
    IInv
    DeadAgentsGone
PROPERTIES
    LeaseHonoured
