SPECIFICATION Spec
CONSTANTS
    Versions = {v1}
    Slots = {s1}
    Scanners = {w1}
    Requests = {"publish", "share", "unshare", "review", "row", "rescan", "delete", "skill"}
    Policies <- MCStrict
    Publishers = {"api"}
    Faults = {}
    Retention = FALSE
    Patient = TRUE
    MaxRescans = 1
    MaxFaults = 0
CHECK_DEADLOCK FALSE
INVARIANT FeedMirrorsLive
