------------------------------ MODULE FileLock ------------------------------
(***************************************************************************)
(* The interprocess lock of src/src/lock.js.  The mobile sidecar, the      *)
(* authority record and the certificate transactions run under it, in the  *)
(* server and in the maintenance commands (rotate-cert.js, repair.js).     *)
(*                                                                         *)
(* One action per system call: openSync 'wx', the stamp write, the read of *)
(* the holder's stamp, process.kill(pid, 0), unlinkSync.  Between two of   *)
(* them any other process may run, end, or be restarted under its old pid  *)
(* (a container's first process is always pid 1).                          *)
(*                                                                         *)
(* A lock file remembers the process that created it in the history field  *)
(* `creator`: the code cannot read it, and only the properties use it.     *)
(* Milliseconds are reduced to one bit, `old`: older than LOCK_ABANDONED_MS*)
(* for the unlink test.  The acquisition deadline is a free choice at the  *)
(* one place that tests it.                                                *)
(***************************************************************************)
EXTENDS Integers

CONSTANTS
    Procs,      \* processes that take the lock
    Pid,        \* [Procs -> Nat]: process.pid of each, in its own namespace
    Namespace,  \* [Procs -> a set of PID namespaces]: `docker exec` joins the
                \* server's, `docker compose run` starts another
    MaxDepth,   \* deepest re-entry of withFileLock that is explored
    MaxEnds,    \* how many times a process may end, by exiting or by a crash
    Respawn     \* processes that, once ended, come back under their old pid; to
                \* the others this is also any process that is given that pid

ASSUME PidAssumption ==
    /\ Pid \in [Procs -> Nat \ {0}]
    /\ MaxDepth \in Nat \ {0}
    /\ MaxEnds \in Nat
    /\ Respawn \subseteq Procs
    \* the kernel gives two processes of one namespace different pids
    /\ \A p, q \in Procs :
          p # q /\ Namespace[p] = Namespace[q] => Pid[p] # Pid[q]
    /\ "nobody" \notin Procs

VARIABLES
    file,       \* the lock file, or NoFile
    pc,         \* where each process stands in withFileLock
    depth,      \* the `depths` entry of the lock path, per process
    seen,       \* what breakAbandonedLock read: the stamped pid and the age
    alive,
    ends

lockVars == <<file, pc, depth, seen, alive, ends>>

NoFile  == [creator |-> "nobody", pid |-> 0, old |-> FALSE]
NoStamp == 0
Nothing == [pid |-> NoStamp, old |-> FALSE]

Places == {"idle", "opening", "inspecting", "probing", "breaking", "stamping", "running"}

(* A process that has created the lock file and not yet removed it. *)
Holder(p) == pc[p] \in {"stamping", "running"}

LockInit ==
    /\ file  = NoFile
    /\ pc    = [p \in Procs |-> "idle"]
    /\ depth = [p \in Procs |-> 0]
    /\ seen  = [p \in Procs |-> Nothing]
    /\ alive = [p \in Procs |-> TRUE]
    /\ ends  = 0

Goto(p, place) == pc' = [pc EXCEPT ![p] = place]

-----------------------------------------------------------------------------
(* withFileLock *)

(* The outermost call: no depth is recorded for the path yet. *)
Call(p) ==
    /\ alive[p] /\ pc[p] = "idle"
    /\ Goto(p, "opening")
    /\ UNCHANGED <<file, depth, seen, alive, ends>>

(* openSync(lockPath, 'wx') finds no file and creates it, still empty. *)
Create(p) ==
    /\ pc[p] = "opening" /\ file = NoFile
    /\ file' = [creator |-> p, pid |-> NoStamp, old |-> FALSE]
    /\ Goto(p, "stamping")
    /\ UNCHANGED <<depth, seen, alive, ends>>

(* EEXIST: look for an abandoned lock. *)
FindHeld(p) ==
    /\ pc[p] = "opening" /\ file # NoFile
    /\ Goto(p, "inspecting")
    /\ UNCHANGED <<file, depth, seen, alive, ends>>

(* The stamp is written and `fn` starts.  A stamp that cannot be written is
   tolerated: O_EXCL remains authoritative.  The write goes to the descriptor,
   so it changes the file at the path only while that is still the file this
   process created. *)
Stamp(p) ==
    /\ pc[p] = "stamping"
    /\ \/ file' = IF file.creator = p THEN [file EXCEPT !.pid = Pid[p]] ELSE file
       \/ UNCHANGED file
    /\ depth' = [depth EXCEPT ![p] = 1]
    /\ Goto(p, "running")
    /\ UNCHANGED <<seen, alive, ends>>

(* A nested call for the same path only counts. *)
Reenter(p) ==
    /\ pc[p] = "running" /\ depth[p] < MaxDepth
    /\ depth' = [depth EXCEPT ![p] = @ + 1]
    /\ UNCHANGED <<file, pc, seen, alive, ends>>

ReturnNested(p) ==
    /\ pc[p] = "running" /\ depth[p] > 1
    /\ depth' = [depth EXCEPT ![p] = @ - 1]
    /\ UNCHANGED <<file, pc, seen, alive, ends>>

(* The outermost `finally`: whatever file is at the path is unlinked. *)
Unlock(p) ==
    /\ pc[p] = "running" /\ depth[p] = 1
    /\ file'  = NoFile
    /\ depth' = [depth EXCEPT ![p] = 0]
    /\ Goto(p, "idle")
    /\ UNCHANGED <<seen, alive, ends>>

-----------------------------------------------------------------------------
(* breakAbandonedLock *)

(* After an attempt that removed nothing the caller polls again, or throws
   timeoutCode when its deadline has passed. *)
PollOrTimeOut(p) == \E place \in {"opening", "idle"} : Goto(p, place)

(* A lock that vanished while it was inspected counts as broken. *)
InspectVanished(p) ==
    /\ pc[p] = "inspecting" /\ file = NoFile
    /\ Goto(p, "opening")
    /\ UNCHANGED <<file, depth, seen, alive, ends>>

(* The stamp, or the modification time while there is no stamp, is read. *)
Inspect(p) ==
    /\ pc[p] = "inspecting" /\ file # NoFile
    /\ seen' = [seen EXCEPT ![p] = [pid |-> file.pid, old |-> file.old]]
    /\ Goto(p, "probing")
    /\ UNCHANGED <<file, depth, alive, ends>>

(* process.kill(pid, 0), or EPERM, finds a process of that pid where p runs. *)
Exists(p, pid) ==
    \E q \in Procs : Namespace[q] = Namespace[p] /\ Pid[q] = pid /\ alive[q]

ForeignStamp(p) == seen[p].pid \notin {NoStamp, Pid[p]}

MutAnyStampIsDead(p) == IF ForeignStamp(p) THEN TRUE ELSE seen[p].old
MutOwnPidIsAlive(p) == ForeignStamp(p) /\ ~Exists(p, seen[p].pid)

(* A foreign pid decides by its liveness; the own pid, or none, by the age. *)
LooksAbandoned(p) ==
    IF ForeignStamp(p) THEN ~Exists(p, seen[p].pid) ELSE seen[p].old

Probe(p) ==
    /\ pc[p] = "probing"
    /\ IF LooksAbandoned(p) THEN Goto(p, "breaking") ELSE PollOrTimeOut(p)
    /\ seen' = [seen EXCEPT ![p] = Nothing]
    /\ UNCHANGED <<file, depth, alive, ends>>

(* unlinkSync(lockPath): the path, not the file that was inspected. *)
Break(p) ==
    /\ pc[p] = "breaking"
    /\ file' = NoFile
    /\ IF file = NoFile THEN PollOrTimeOut(p) ELSE Goto(p, "opening")
    /\ UNCHANGED <<depth, seen, alive, ends>>

-----------------------------------------------------------------------------
(* The environment *)

(* A process ends between two of its system calls: a command that finished
   (from "idle"), or a process that was killed.  Its lock file stays. *)
End(p) ==
    /\ alive[p] /\ ends < MaxEnds
    /\ ends'  = ends + 1
    /\ alive' = [alive EXCEPT ![p] = FALSE]
    /\ depth' = [depth EXCEPT ![p] = 0]
    /\ seen'  = [seen EXCEPT ![p] = Nothing]
    /\ Goto(p, "idle")
    /\ UNCHANGED file

Restart(p) ==
    /\ ~alive[p] /\ p \in Respawn
    /\ alive' = [alive EXCEPT ![p] = TRUE]
    /\ UNCHANGED <<file, pc, depth, seen, ends>>

(* Two minutes pass.  `fn` does bounded synchronous file work, so the lock of
   a process that still holds it is never that old. *)
Age ==
    /\ file # NoFile /\ ~file.old
    /\ ~ \E p \in Procs : file.creator = p /\ Holder(p)
    /\ file' = [file EXCEPT !.old = TRUE]
    /\ UNCHANGED <<pc, depth, seen, alive, ends>>

Attempt(p) ==
    \/ Create(p) \/ FindHeld(p) \/ Stamp(p) \/ InspectVanished(p) \/ Inspect(p)
    \/ Probe(p) \/ Break(p)

Body(p) == Reenter(p) \/ ReturnNested(p)

LockNext ==
    \/ \E p \in Procs : Call(p) \/ Attempt(p) \/ Body(p) \/ Unlock(p) \/ End(p) \/ Restart(p)
    \/ Age

LockSpec == LockInit /\ [][LockNext]_lockVars

(* A live process keeps executing the lock code, and time passes.  Nothing is
   assumed of who calls, whether `fn` returns, who ends, or of a restart. *)
LockFairness == (\A p \in Procs : WF_lockVars(Attempt(p))) /\ WF_lockVars(Age)

LockFairSpec == LockSpec /\ LockFairness

-----------------------------------------------------------------------------
(* Properties *)

LockTypeOK ==
    /\ file \in [creator : Procs \cup {"nobody"}, pid : Nat, old : BOOLEAN]
    /\ pc    \in [Procs -> Places]
    /\ depth \in [Procs -> 0..MaxDepth]
    /\ seen  \in [Procs -> [pid : Nat, old : BOOLEAN]]
    /\ alive \in [Procs -> BOOLEAN]
    /\ ends  \in 0..MaxEnds

(* "Run `fn` under the exclusive lock" (lock.js:68): two processes are never
   inside `fn` of the same path together. *)
Mutex == \A p, q \in Procs : Holder(p) /\ Holder(q) => p = q

(* While a process is between openSync and the end of its outermost `finally`
   the file at the path is the one it created: nobody broke its lock and no
   nested return released it early. *)
HolderKeepsFile == \A p \in Procs : Holder(p) => file.creator = p

(* A lock file on disk always belongs to a call in progress, so a caller can
   be refused with the timeout only while somebody really works: when every
   process is idle the path is free. *)
NoOrphan == file # NoFile => \E p \in Procs : file.creator = p /\ Holder(p)

(* A lock left behind by a process that ended does not lock the others out for
   ever: if an abandoned file stays, then everybody stopped asking for it. *)
Abandoned == file # NoFile /\ ~ \E p \in Procs : file.creator = p /\ Holder(p)
AbandonedLockIsBroken ==
    <>[]Abandoned => <>[](\A p \in Procs : pc[p] \in {"idle", "running"})

=============================================================================
