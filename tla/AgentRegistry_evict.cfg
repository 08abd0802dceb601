\* Leases that end, in the build, under the loop's fairness; no symmetry.
CONSTANTS
    Agents = {a1}
    Skills = {s1}
    Adverts = {{s1}}
    Absent = Absent
    LeaseDuration = 1
    Requests = {r1, r2}
    Sweeper = Sweeper
    Nobody = Nobody
    AwaitYields = FALSE
    MaxTime = 1
SPECIFICATION FairSpec
PROPERTIES
    ExpiredAgentsLeave
