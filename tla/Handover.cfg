SPECIFICATION MCSpec
CONSTANTS
    a1 = a1
    a2 = a2
    b1 = b1
    a = a
    b = b
    s1 = s1
    k1 = k1
    Items = {a1, a2, b1}
    Assets = {a, b}
    AssetOf <- MCAssetOf
    Tasks = {t1, t2}
    Keys = {k1, k2}
    Slots = {s1, s2}
    None = None
    MaxExecutions = 2
CHECK_DEADLOCK FALSE
INVARIANTS
    TypeOK
    GateRespected
    WorkMatchesStatus
    ExecutedOnce
PROPERTY ForwardOnly
