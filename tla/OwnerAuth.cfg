SPECIFICATION MCSpec
CONSTANTS
    Browsers = {b1}
    Codes = {k1}
    NoOwner = NoOwner
    NoHandler = NoHandler
    Keys = {"a", "b", "c", "d"}
    Depth = 4
    MAX_API_TOKENS = 3
    MAX_DISMISSED_UPDATES = 2
    MAX_TEMPLATE_SOURCES = 2
    MAX_MANAGED_STACKS = 2
    MAX_MINTED_KEYS = 2
    MAX_AUDIT = 2
    MAX_CRON_JOBS = 3
    MAX_SERVICES = 3
    MaxRefs = 2
    IpMax = 3
    TicketTries = 2
    MaxRev = 4
    Refs = {a, b}
    AtOnce = 1
    CacheAge = 1
    MaxWait = 1
    MaxNow = 2
    MaxMoves = 2
    MaxChecks = 2
    MaxSeparators = 3
    MaxFaults = 1
    MaxStops = 2
VIEW Asks
SYMMETRY Symmetric
INVARIANTS
    ChangesHold
    SignInIsGuarded
    PanelIsTheOwners
    SavesAreKept
    RowsAreRecent
    ChecksWhatPullFetches
CHECK_DEADLOCK FALSE
