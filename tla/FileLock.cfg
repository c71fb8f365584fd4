SPECIFICATION MCSpec
CONSTANTS
    server = server
    cli1 = cli1
    cli2 = cli2
    Procs = {server, cli1, cli2}
    Pid <- ExecPid
    Namespace <- ExecNamespace
    MaxDepth = 2
    MaxEnds = 0
    Respawn = {}
    RunEnds = 2
    RunRespawn = {server, cli1}
    Settings <- OneAtATime
    MaxDamage = 2
INVARIANTS
    Mutex
    NeverToldTwice
    NoWayAround
PROPERTIES
    KilledLockIsBroken
    HalfEnds
