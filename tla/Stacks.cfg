SPECIFICATION SpecStacks
CONSTANTS
    one = one
    two = two
    Handlers = {one, two}
    Stack = {0, 1}
    Reserved = {2, 3}
    Suffix = 4
    MaxImage = 2
    MaxFaults = 2
    MaxCalls = 2
    CaseOf <- Spelling
    Ipv4 = {"192.0.2.1"}
    Secrets = {"$TOKEN"}
    Malformed <- NotOne
    Files <- SampleFiles
    Envs <- SampleEnvs
    Roots <- SampleRoots
    Live <- SampleLive
INVARIANTS
    ServicesSurvive
    FilesAreForeseen
PROPERTIES
    CompanionIsLeftAlone
    RunningIsKept
    AnswersAreTrue
SYMMETRY Symmetric
CHECK_DEADLOCK FALSE
