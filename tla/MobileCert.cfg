SPECIFICATION Spec
CONSTANTS
    a1 = a1
    a2 = a2
    b1 = b1
    Origins = {a1, a2, b1}
    HostOf <- MCHostOf
    Careful = TRUE
    MaxGen = 3
    MaxFaults = 1
    MaxStops = 1
    MaxRuns = 1
    MaxMoves = 2
    MaxDevices = 1
INVARIANTS
    ReportedPairStays
    PhonesFollowTheirOrigin
    CloneNeverServesCopiedLeaf
PROPERTIES
    ImplementsAtomicPair
SYMMETRY MCSymmetry
