SPECIFICATION Spec
CONSTANTS
    DeviceIds = {d1, d2}
    NoState = NoState
    NoEpoch = NoEpoch
    Unreadable = Unreadable
    MaxDevices = 2
    MaxRevoked = 2
    MaxRestores = 1
    MaxFaults = 2
    migrateV1State = TRUE
INVARIANTS
    AckedRevocationHolds
    RepairIsRight
SYMMETRY Symmetric
