SPECIFICATION Spec
CONSTANTS
    DeviceIds = {d1}
    NoState = NoState
    NoEpoch = NoEpoch
    Unreadable = Unreadable
    MaxDevices = 2
    MaxRevoked = 1
    Phone = phone
    Clients = {phone, copy}
    AccessTtl = 2
    IdleTtl = 2
    AbsoluteTtl = 2
    MaxTime = 2
    MaxMint = 3
    MaxFaults = 1
    MaxLeaf = 1
INVARIANTS
    OneSuccessorPerGrant
    OnlyLiveTokensWork
    HonestPhoneKeepsItsFamily
PROPERTIES
    ClosedStaysClosed
