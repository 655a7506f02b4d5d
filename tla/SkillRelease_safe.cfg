SPECIFICATION MCSafeSpec
CONSTANTS
    Versions = {v1}
    Slots = {s1}
    Scanners = {w1, w2}
    Requests = {"publish", "review", "row", "rescan", "delete", "skill"}
    Policies <- MCStrict
    Publishers = {"api"}
    Faults = {"error", "late", "crash", "redelivery", "lost"}
    Retention = TRUE
    Patient = FALSE
    MaxRescans = 1
    MaxFaults = 1
CHECK_DEADLOCK FALSE
INVARIANTS TypeOK ProductionVetted ScanningIsHeld
SYMMETRY MCWorkerSymmetry
