----------------------------- MODULE MCFileLock -----------------------------
(* Instances of FileLock: the server and maintenance commands of one data    *)
(* volume, in one PID namespace (docker exec) or in several (compose run);   *)
(* and of AllInOne: the container in which the server is started over that   *)
(* volume, which is damaged, or has settings off, in at most MaxDamage       *)
(* places besides DOCKER_ACCESS_MAX, which every start sets.                 *)
EXTENDS FileLock, AllInOne, TLC

CONSTANTS server, cli1, cli2

(* docker exec: one namespace, the server is its first process. *)
ExecPid == (server :> 1) @@ (cli1 :> 2) @@ (cli2 :> 3)
ExecNamespace == (server :> "main") @@ (cli1 :> "main") @@ (cli2 :> "main")

(* docker compose run: every container has its own namespace and `node` is the
   entry point, so every process is pid 1. *)
RunPid == (server :> 1) @@ (cli1 :> 1) @@ (cli2 :> 1)
RunNamespace == (server :> "main") @@ (cli1 :> "run1") @@ (cli2 :> "run2")

(* A second volume, whose commands are started with compose run and killed:
   RunEnds processes end at any system call, those of RunRespawn come back. *)
CONSTANTS RunEnds, RunRespawn
VARIABLES file2, pc2, depth2, seen2, alive2, ends2
vars2 == <<file2, pc2, depth2, seen2, alive2, ends2>>
Run == INSTANCE FileLock WITH
    Pid <- RunPid, Namespace <- RunNamespace, MaxEnds <- RunEnds, Respawn <- RunRespawn,
    file <- file2, pc <- pc2, depth <- depth2, seen <- seen2, alive <- alive2, ends <- ends2

CONSTANT MaxDamage

(* Every socket, and every value of DOCKER_ACCESS_MAX, one at a time. *)
OneAtATime == (Sockets \X {"unset"}) \cup ({Missing} \X {"read", "manage", "shell", "other"})

Sound == [panel |-> "good", jobs |-> "off", marker |-> "absent", access |-> "read", ceiling |-> "read",
          migrate |-> FALSE, writes |-> "durable", port |-> "free"]
Damage == {place \in DOMAIN Sound : dir[place] # Sound[place]}

Fresh == phase = "down" /\ label = "none" /\ followed = {} /\ Damage = {}

(* The three share nothing: each is looked at beside the first states of the
   others. *)
MCInit ==
    /\ LockInit /\ Run!LockInit
    /\ AllInOneInit /\ dir.ceiling = Sound.ceiling /\ Cardinality(Damage) <= MaxDamage

MCSpec ==
    /\ MCInit
    /\ [][\/ Fresh /\ Run!LockInit /\ LockNext /\ UNCHANGED <<vars2, bootVars, allInOneVars>>
          \/ Fresh /\ LockInit /\ Run!LockNext /\ UNCHANGED <<lockVars, bootVars, allInOneVars>>
          \/ LockInit /\ Run!LockInit /\ AllInOneNext /\ UNCHANGED <<lockVars, vars2>>]_<<lockVars, vars2, bootVars, allInOneVars>>
    /\ Run!LockFairness /\ AllInOneFairness

(* A lock left behind by a killed process does not lock the others out for
   ever, although every process is pid 1 of its namespace. *)
KilledLockIsBroken == Run!AbandonedLockIsBroken
=============================================================================
