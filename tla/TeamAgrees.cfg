CONSTANTS
    People = {ann, bob}
    Founders = {ann}
    Slots = {s1, s2}
    OnePerPerson = TRUE
    MaxOps = 3
    MaxFaults = 1
SPECIFICATION FairSpec
INVARIANTS TypeOK CancelledIsGone
PROPERTIES OneRequestCannotLockOut ClerkFollowsChanges DriftHeals
CHECK_DEADLOCK FALSE
