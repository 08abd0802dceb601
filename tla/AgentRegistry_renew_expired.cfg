CONSTANTS
    Agents = {a1}
    Skills = {s1}
    Adverts = {{s1}}
    Absent = Absent
    LeaseDuration = 1
    Requests = {r1}
    Sweeper = Sweeper
    Nobody = Nobody
    AwaitYields = FALSE
    MaxTime = 1
SPECIFICATION Spec
PROPERTY RenewRefusesExpired
