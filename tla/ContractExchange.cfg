\* Two local times and two offsets order and reorder every pair of times; two
\* unusual arguments where a rule relates two fields, one elsewhere.
CONSTANTS
    MaxAt = 1
    Related = {"status", "started_at", "created_at", "completed_at", "warnings",
               "investigator_decision"}
    Schema <- MCSchema
    Expected <- Arriving
    Instances <- MCInstances
    Sound <- MCSound
    Class <- MCClass
    Offers <- MCOffers
    MaxLoose = 1
    MaxTouched = 1
SPECIFICATION Spec
INVARIANTS
    ReadAsSent
    MomentsKept
    AcceptedIsSound
    PolicyComesLast
\* an instance that is read is done with
CHECK_DEADLOCK FALSE
