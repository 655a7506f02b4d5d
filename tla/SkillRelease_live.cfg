SPECIFICATION FairSpec
CONSTANTS
    Versions = {v1}
    Slots = {s1}
    Scanners = {w1}
    Requests = {"publish", "review", "row", "rescan", "delete", "skill"}
    Policies <- MCStrict
    Publishers = {"api"}
    Faults = {"error", "late", "crash", "redelivery", "lost"}
    Retention = TRUE
    Patient = FALSE
    MaxRescans = 0
    MaxFaults = 2
CHECK_DEADLOCK FALSE
PROPERTY VerdictReached
