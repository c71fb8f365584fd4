SPECIFICATION FairSpec
CONSTANTS
    Builtin <- MCBuiltin
    Custom = {"custom"}
    JobOrder <- MCOrder
    Actions = {"exec"}
    Schedules <- MCSchedules
    Ceilings = {"read", "shell"}
    Explicit = FALSE
    DayLength = 2
    MaxTime = 2
    MaxFaults = 3
    MaxStops = 1
    MaxCalls = 3
    NoJob = NoJob
    NoRun = NoRun
    NoFile = NoFile
PROPERTIES
    RaiseReenablesNothing
    RunKeepsOwnerEdits
    AtMostOncePerOccurrence
    EverythingEnds
