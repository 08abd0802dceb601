\* Nobody starves on the lock when every await yields; time plays no part.
CONSTANTS
    Agents = {a1}
    Skills = {s1}
    Adverts = {{s1}}
    Absent = Absent
    LeaseDuration = 1
    Requests = {r1, r2}
    Sweeper = Sweeper
    Nobody = Nobody
    AwaitYields = TRUE
    MaxTime = 0
SPECIFICATION FairSpec
PROPERTIES
    EveryRequestAnswered
