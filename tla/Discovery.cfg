SPECIFICATION DiscoverySpec
CONSTANTS
    c1 = c1
    c2 = c2
    f1 = f1
    r1 = r1
    r2 = r2
    k1 = k1
    k2 = k2
    Containers = {c1, c2}
    Folders = {f1}
    Meets <- Ambiguous
    Keys = {k1, k2}
    None = None
    Requests = {r1, r2}
    Tls = {}
    MintSteps = 1
    MaxChanges = 1
    MaxStored = 1
INVARIANTS
    SecretsStayHome
    UsesWhatStood
SYMMETRY Symmetry
CONSTRAINT FewStored
