SPECIFICATION MCSpec
CONSTANTS
    server = server
    cli1 = cli1
    cli2 = cli2
    Procs = {server, cli1, cli2}
    Pid <- ExecPid
    Namespace <- ExecNamespace
    MaxDepth = 2
    MaxEnds = 1
    Respawn = {}
    RunEnds = 0
    RunRespawn = {}
    Settings <- OneAtATime
    MaxDamage = 0
INVARIANTS
    Mutex
