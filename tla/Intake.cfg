SPECIFICATION MCSpec
CONSTANTS
    UploadIds = {1, 2}
    UploadKeys = {k1}
    Packs = {p1, p2}
    UploadSlots = {s1, s2}
    MaxUploadTime = 1
    MaxPuts = 2
    MaxUploadCalls = 4
    Runtimes = {r1}
    Reporters = {1, 2, 3}
    ReportTokens = {t1}
    Devices = {d1}
    ReporterSlots = {s1, s2}
    MaxReporterCalls = 4
    AssetIds = {1, 2}
    OwnerIds = {1, 2}
    TraceIds = {1, 2}
    CandidateIds = {1, 2}
    BindIds = {1, 2}
    ExternalIds = {e1}
    Hashes = {h1}
    Owners = {u1}
    TraceKeys = {k1}
    CatalogSlots = {s1, s2}
    Packed <- MCPacked
    MaxReports = 3
    RuntimeIds = {1, 12}
    ReadsAs <- MCReadsAs
    AutomationIds = {1, 2}
    Servers = {1, 2}
    MaxTraces = 1
    Units = {1, 2, 3}
    UnitNames = {"x", "y"}
    UnitCodes = {1}
    Members = {1}
    OrgSlots = {s1, s2}
INVARIANTS
    IntakeTypesOK
    RetriesMeetOneSession
    OneCredentialPerDevice
    ReportsFindOneRow
    DirectoryConsistent
PROPERTIES
    IngestedIsSealed
    ConfigGoesLast
SYMMETRY MCSlots
CHECK_DEADLOCK FALSE
