SPECIFICATION MCSpec
CONSTANTS
    DeviceIds = {e1, e2}
    NoState = NoState
    NoEpoch = NoEpoch
    Unreadable = Unreadable
    MaxDevices = 1
    MaxRevoked = 1
    Phones = {p1, p2}
    NoPhone = NoPhone
    OldKeys = {k0}
    Ttl = 2
    AckTtl = 1
    SpentSkew = 1
    MaxLive = 2
    MaxSpent = 2
    MaxTime = 3
    MaxFaults = 1
    Browsers = {b1, b2}
    Requests = {r1, r2}
    MaxBundles = 3
    MaxEntries = 2
    PAIR_DRAFT_MAX = 1
    REDEEM_GRACE_SERVES = 1
INVARIANTS
    OnlyApprovedPhones
    RestartForgetsNothing
    FormsInOrder
    OneWayOut
SYMMETRY Symmetric
CHECK_DEADLOCK FALSE
