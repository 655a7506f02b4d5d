SPECIFICATION MCSpec
CONSTANTS
    Files = {a}
    Tags = {t1, t2}
    StoreSlots = {s1, s2}
    MaxStoreCalls = 3
    Releases = {1, 2}
    FeedSlots = {s1, s2}
    Followers = {c1}
    PageSize = 1
    MaxEvents = 3
    Assets = {1, 2}
    Runtimes = {3}
    Bindings = {4, 5}
    Traces = {6}
    Evidence = {7}
    Spaces = {m, n}
    Runs = {s1, s2}
    BatchSizes = {3}
    Skills = {1, 2}
    Naming <- MCNaming
    Packages <- MCPackages
    Suppressions <- MCSuppressions
    DeepIssues = {}
    Evals = {1, 2}
    JudgeScores = {100}
    FailsAt = {5}
    MaxVersions = 1
    MaxAge = 1
    MaxAsked = 1
    Accounts = {1, 2}
    OidcProviders = {"oidc"}
    LdapProviders = {"ldap"}
    Subjects = {"a"}
    Uids = {7}
    Groups = {"g"}
    Grants = {1, 2}
    BindingIds = {1, 2, 3}
    LoginSlots = {s1, s2}
    ThrottleKeys = {"k"}
    AttemptSlots = {s1, s2}
    MaxAttempts = 1
    WindowSeconds = 2
    LockoutSeconds = 2
    MaxThrottleTime = 5
    MaxFailures = 4
    NsIds = {1}
    NsUsers = {1, 2}
    SysAdmins = {1}
    NsSkills <- MCNsSkills
    CustomRoles <- MCCustomRoles
    RobotIds = {1}
    MaxNsTime = 3
    Namesakes = {1, 2}
    Offers = {1, 2}
    OfferTags = {"v1", "v2"}
    Clients = {c1}
    LinkLife = 1
    MaxOfferEdits = 5
INVARIANTS
    PlatformTypesOK
    TagsMatchRows
    CaughtUpMirrors
    CheckpointCovers
    CriticalHolds
    BindingsFollowLogins
    LockedOnlyForFailures
    RestoredAsLeft
    ListedOpens
    GetsWhatWasOffered
PROPERTIES
    VerdictsKeep
SYMMETRY MCSymmetry
CHECK_DEADLOCK FALSE
