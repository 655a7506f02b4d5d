CONSTANTS
    j1 = j1  j2 = j2  w1 = w1  w2 = w2  p1 = p1  p2 = p2  s1 = s1  s2 = s2
    None = None
    Jobs = {j1}
    Workers = {w1, w2}
    Procs = {p1, p2}
    CredOf <- OwnToken
    Slots = {s1}
    MaxAttempts = 3
    MaxRetries = 2
    ResetOptions = {FALSE}
    Disableable = {w1, w2}
    Repeatable = {j1}
    Ingestible = {j1}
SPECIFICATION Spec
INVARIANTS Coupled ResultIntact
PROPERTIES TerminalIsFinal ImplementsWorkLease
