----------------------------- MODULE Scheduler -----------------------------
(***************************************************************************)
(* The maintenance jobs (src/src/cron.js), the Docker access mode they run *)
(* under (src/src/docker-access.js), and the handlers that change either   *)
(* (src/src/server.js).  Jobs and mode live in two files that are written  *)
(* one after the other.                                                    *)
(*                                                                         *)
(* Jobs run one at a time; each is awaited, and every handler may run      *)
(* meanwhile.  A run works on the job as it was when it was claimed.  Each *)
(* handler is one step: it has no await after it has read its body, except *)
(* the step-up proof, whose success suspends nothing.  Defaults that were  *)
(* never saved are saved by the first write; names, notes, durations and   *)
(* histories are left out.  A day has DayLength ticks.                     *)
(***************************************************************************)
EXTENDS StateFile, Sequences, FiniteSets

CONSTANTS
    Builtin,        \* the built-in jobs, as a function to their definitions
    Custom,         \* ids that addJob may give out
    JobOrder,       \* all ids, in the order of the list
    Actions,        \* custom actions
    Schedules,
    Ceilings,       \* what the ceiling may be from one start to the next
    Explicit,       \* whether DOCKER_ACCESS_MAX sets the ceiling, or DOCKER_WRITE does
    DayLength,
    MaxTime, MaxFaults, MaxStops, MaxCalls,   \* bounds
    NoJob, NoRun, NoFile

VARIABLES
    jobs,           \* the StateFile with the jobs
    access,         \* the StateFile with the mode
    ceiling, up,
    clock, lastTick,
    queue,          \* runs that wait for their turn
    running,        \* the run that is executing
    due,            \* the runs that the tick in progress has still to ask for
    waiting,        \* the job that tick is waiting for
    ticking,        \* `running` of createGuardedTrigger
    faults, stops,
    calls,          \* handlers that were called
    fired           \* history: scheduled runs that were dispatched

vars == <<jobs, access, ceiling, up, clock, lastTick, queue, running, due, waiting,
          ticking, faults, stops, calls, fired>>
runVars == <<queue, running, due, waiting, ticking>>

JobIds == DOMAIN Builtin \cup Custom
Modes  == {"read", "manage", "shell"}

dockerModeRank(mode) == CASE mode = "read" -> 0 [] mode = "manage" -> 1 [] mode = "shell" -> 2

dockerModeAllows(mode, needed) == dockerModeRank(mode) >= dockerModeRank(needed)

requiredDockerModeForAction(action) ==
    CASE action = "updates.check" -> "read" [] action = "exec" -> "shell" [] OTHER -> "manage"

jobRequiredMode(job) == requiredDockerModeForAction(job.action)

Now == clock

(* The first time after `from` that a job is due. *)
nextRun(job, from) ==
    LET s    == job.schedule
        base == IF job.lastRunAt # 0 THEN job.lastRunAt ELSE job.enabledAt
        cand == (from \div DayLength) * DayLength + s.hour
        delta == (s.day + 7 - ((from \div DayLength) % 7)) % 7
    IN  CASE s.type = "every"  -> IF base = 0 THEN from ELSE base + s.hours
          [] s.type = "daily"  -> IF cand <= from THEN cand + DayLength ELSE cand
          [] s.type = "weekly" -> cand + DayLength *
                 (IF delta = 0 /\ cand <= from THEN 7 ELSE delta)

-----------------------------------------------------------------------------
(* The files.  Every save writes the whole list of jobs. *)

Saved == jobs.cache
Present(j) == Saved[j] # NoJob
Mode == access.cache

NewJob(action, schedule) ==
    [action |-> action, schedule |-> schedule, enabled |-> TRUE,
     lastRunAt |-> 0, enabledAt |-> Now]

AboveMode(mode, list) ==
    {j \in JobIds : list[j] # NoJob /\ list[j].enabled
                    /\ ~dockerModeAllows(mode, jobRequiredMode(list[j]))}

(* suspendJobsAboveMode: the ways it can end; nothing is written when no job
   is above the mode. *)
Suspensions(file, mode) ==
    LET above == AboveMode(mode, file.cache)
        off   == [j \in JobIds |-> IF j \in above
                                   THEN [file.cache[j] EXCEPT !.enabled = FALSE]
                                   ELSE file.cache[j]]
    IN  IF file.poisoned THEN {[done |-> FALSE, faults |-> 0, file |-> file]}
        ELSE IF above = {} THEN Untouched(file) ELSE Commits(file, off)

Pending == {queue[i].id : i \in DOMAIN queue}
           \cup (IF running = NoRun THEN {} ELSE {running.id})

Spend(n) == faults + n <= MaxFaults /\ faults' = faults + n

-----------------------------------------------------------------------------
(* Handlers of handleCronPost, refused when the mode does not allow what they
   would enable. *)

Serving ==
    /\ up /\ ~access.poisoned /\ ~jobs.poisoned
    /\ calls < MaxCalls /\ calls' = calls + 1
Allowed(needed) == dockerModeAllows(Mode, needed)

SaveJobs(list) ==
    /\ \E w \in Commits(jobs, list) : jobs' = w.file /\ Spend(w.faults)
    /\ UNCHANGED <<access, ceiling, up, clock, lastTick, stops, fired, runVars>>

SetJobEnabled(j, enabled) ==
    /\ Serving /\ Present(j)
    /\ enabled => Allowed(jobRequiredMode(Saved[j]))
    /\ SaveJobs([Saved EXCEPT ![j].enabled = enabled,
                              ![j].enabledAt = IF enabled THEN Now ELSE @])

SetJobSchedule(j, schedule) ==
    /\ Serving /\ Present(j)
    /\ SaveJobs([Saved EXCEPT ![j].schedule = schedule])

AddJob(j, action, schedule) ==
    /\ Serving
    /\ j \in Custom /\ ~Present(j) /\ j \notin Pending \cup {d.id : d \in due}
    /\ Allowed(requiredDockerModeForAction(action))
    /\ SaveJobs([Saved EXCEPT ![j] = NewJob(action, schedule)])

(* Only a new action needs the mode; a built-in keeps its own. *)
UpdateJob(j, action, schedule) ==
    /\ Serving /\ Present(j)
    /\ IF j \in Custom
       THEN /\ action # Saved[j].action => Allowed(requiredDockerModeForAction(action))
            /\ SaveJobs([Saved EXCEPT ![j].action = action, ![j].schedule = schedule])
       ELSE SaveJobs([Saved EXCEPT ![j].schedule = schedule])

DeleteJob(j) ==
    /\ Serving
    /\ j \in Custom /\ Present(j)
    /\ SaveJobs([Saved EXCEPT ![j] = NoJob])

(* clearHistory, and every other save of the owner state, which holds the jobs:
   an audit entry, a service, a stack... *)
OtherSave == Serving /\ SaveJobs(Saved)

-----------------------------------------------------------------------------
(* The runner. *)

(* A job that is already waiting or running is not queued again. *)
Enqueued(run) == IF run.id \in Pending THEN queue ELSE Append(queue, run)

RunManually(j) ==
    /\ Serving /\ Present(j)
    /\ Allowed(jobRequiredMode(Saved[j]))
    /\ queue' = Enqueued([id |-> j, for |-> 0])
    /\ UNCHANGED <<jobs, access, ceiling, up, clock, lastTick, stops, faults, fired,
                   running, due, waiting, ticking>>

(* A run that has ended, well or not, makes way for the next one. *)
StepAside(j) == Tail(queue)

MutResume(j) == UNCHANGED waiting

Resume(j) == waiting' = IF waiting = j THEN NoJob ELSE waiting

(* Before its dispatch a run that cannot be claimed is over. *)
GiveUp(run) ==
    /\ queue' = StepAside(run.id)
    /\ running' = NoRun
    /\ Resume(run.id)

MutClaimedNot(list, j) == list

(* executeJob stores the claim before it dispatches. *)
Claimed(list, j) == [list EXCEPT ![j].lastRunAt = Now]

(* dispatch looks at the mode the job needs in the mode in force, and then
   waits for Docker. *)
MayDispatch(job) ==
    \/ job.action = "updates.check"
    \/ ~access.poisoned /\ dockerModeAllows(Mode, jobRequiredMode(job))

StartRun ==
    /\ up /\ running = NoRun /\ queue # <<>>
    /\ LET run == Head(queue)
       IN  \/ /\ ~jobs.poisoned /\ Present(run.id)
              /\ \E w \in Commits(jobs, Claimed(Saved, run.id)) :
                     /\ jobs' = w.file
                     /\ Spend(w.faults)
                     /\ IF w.done
                        THEN /\ running' = [id |-> run.id, for |-> run.for, at |-> Now,
                                            job |-> Claimed(Saved, run.id)[run.id]]
                             /\ fired' = IF MayDispatch(Saved[run.id])
                                         THEN fired \cup {<<run.id, run.for>>} ELSE fired
                             /\ UNCHANGED <<queue, waiting>>
                        ELSE GiveUp(run) /\ UNCHANGED fired
           \/ /\ jobs.poisoned \/ ~Present(run.id)
              /\ GiveUp(run)
              /\ UNCHANGED <<jobs, faults, fired>>
    /\ UNCHANGED <<calls, access, ceiling, up, clock, lastTick, stops, due, ticking>>

MutRecordedFromClaim(list, run) ==
    [list EXCEPT ![run.id] = run.job]

(* The outcome goes into the list as it is now, if the job is still in it. *)
Recorded(list, run) ==
    [list EXCEPT ![run.id].lastRunAt = run.at]

FinishRun ==
    /\ up /\ running # NoRun
    /\ \E w \in IF Present(running.id) THEN Commits(jobs, Recorded(Saved, running))
                ELSE Untouched(jobs) :
           jobs' = w.file /\ Spend(w.faults)
    /\ GiveUp(running)
    /\ UNCHANGED <<calls, access, ceiling, up, clock, lastTick, stops, due, ticking, fired>>

-----------------------------------------------------------------------------
(* runDueJobs: the window is moved before the first job is awaited, and the
   list is the one read at the start. *)

DueJobs == {j \in JobIds : /\ Present(j) /\ Saved[j].enabled
                           /\ nextRun(Saved[j], lastTick) <= Now}

Place(j) == CHOOSE i \in DOMAIN JobOrder : JobOrder[i] = j

StartTick ==
    /\ up /\ ~ticking /\ ~jobs.poisoned
    /\ lastTick' = Now
    /\ due' = {[id |-> j, for |-> nextRun(Saved[j], lastTick)] : j \in DueJobs}
    /\ ticking' = TRUE
    /\ UNCHANGED <<calls, jobs, access, ceiling, up, clock, stops, faults, queue, running, waiting, fired>>

ContinueTick ==
    /\ up /\ ticking /\ waiting = NoJob
    /\ \/ /\ due = {} /\ ticking' = FALSE
          /\ UNCHANGED <<queue, due, waiting>>
       \/ /\ \E next \in due :
                 /\ \A d \in due : Place(next.id) <= Place(d.id)
                 /\ queue' = Enqueued(next)
                 /\ waiting' = next.id
                 /\ due' = due \ {next}
          /\ UNCHANGED ticking
    /\ UNCHANGED <<calls, jobs, access, ceiling, up, clock, lastTick, stops, faults, fired, running>>

-----------------------------------------------------------------------------
(* handleDockerAccessMode: raising needs the owner's proof, suspends first and
   raises then; lowering lowers first, suspends then, and goes back when it
   cannot suspend. *)

MutSuspendedFirst(file) == Untouched(file)
SuspendedFirst(file) == Suspensions(file, Mode)

(* The entry in the audit log goes into the file of the jobs. *)
Audited(file) == Commits(file, file.cache)

RaiseMode(mode) ==
    /\ dockerModeRank(mode) > dockerModeRank(Mode)
    /\ \E s \in SuspendedFirst(jobs) :
         IF ~s.done THEN jobs' = s.file /\ Spend(s.faults) /\ UNCHANGED access
         ELSE \E w \in Commits(access, mode) :
              /\ access' = w.file
              /\ \E a \in IF w.done THEN Audited(s.file) ELSE Untouched(s.file) :
                     jobs' = a.file /\ Spend(s.faults + w.faults + a.faults)

LowerMode(mode) ==
    /\ dockerModeRank(mode) < dockerModeRank(Mode)
    /\ \E w \in Commits(access, mode) :
         IF ~w.done THEN access' = w.file /\ Spend(w.faults) /\ UNCHANGED jobs
         ELSE \E s \in Suspensions(jobs, mode) :
              IF s.done
              THEN /\ access' = w.file
                   /\ \E a \in Audited(s.file) : jobs' = a.file /\ Spend(s.faults + a.faults)
              ELSE /\ jobs' = s.file
                   /\ \E back \in Commits(w.file, Mode) :
                          access' = back.file /\ Spend(s.faults + back.faults)

SetDockerAccessMode(mode) ==
    /\ Serving
    /\ dockerModeRank(mode) <= dockerModeRank(ceiling)
    /\ RaiseMode(mode) \/ LowerMode(mode)
    /\ UNCHANGED <<ceiling, up, clock, lastTick, stops, fired, runVars>>

-----------------------------------------------------------------------------
(* The process ends; the next one loads both files, lowers the mode to the
   ceiling, and suspends what is above it before it listens. *)

Forgotten ==
    /\ queue' = <<>> /\ running' = NoRun /\ due' = {}
    /\ waiting' = NoJob /\ ticking' = FALSE

Stop(cut) ==
    /\ up
    /\ up' = FALSE
    /\ IF jobs.poisoned \/ access.poisoned THEN UNCHANGED stops
       ELSE stops < MaxStops /\ stops' = stops + 1
    /\ IF cut THEN jobs' \in AfterCut(jobs) /\ access' \in AfterCut(access)
       ELSE /\ jobs' = Reloaded(jobs, jobs.disk)
            /\ access' = Reloaded(access, access.disk)
    /\ Forgotten
    /\ UNCHANGED <<calls, ceiling, clock, lastTick, faults, fired>>

(* selectedMode of a process that has not read it yet. *)
Selections(file, max) ==
    IF file.disk = NoFile
    THEN {[done |-> TRUE, faults |-> 0, file |-> [file EXCEPT !.cache = IF Explicit THEN "read" ELSE max]]}
    ELSE IF dockerModeRank(file.disk) > dockerModeRank(max) THEN Commits(file, max)
    ELSE Untouched(file)

Boot(max) ==
    /\ ~up
    /\ ceiling' = max
    /\ lastTick' = Now
    /\ \E a \in Selections(access, max) :
         IF ~a.done
         THEN /\ access' = Reloaded(a.file, a.file.disk)
              /\ Spend(a.faults)
              /\ UNCHANGED <<jobs, up>>
         ELSE \E s \in Suspensions(jobs, a.file.cache) :
              /\ up' = s.done
              /\ access' = IF s.done THEN a.file ELSE Reloaded(a.file, a.file.disk)
              /\ jobs' = IF s.done THEN s.file ELSE Reloaded(s.file, s.file.disk)
              /\ Spend(a.faults + s.faults)
    /\ UNCHANGED <<calls, clock, stops, fired, runVars>>

Pass ==
    /\ clock < MaxTime
    /\ clock' = clock + 1
    /\ UNCHANGED <<calls, jobs, access, ceiling, up, lastTick, stops, faults, fired, runVars>>

-----------------------------------------------------------------------------
Init ==
    /\ jobs = FileOf([j \in JobIds |-> IF j \in DOMAIN Builtin THEN Builtin[j] ELSE NoJob])
    /\ access = FileOf(NoFile)
    /\ ceiling \in Ceilings
    /\ up = FALSE
    /\ clock = 1 /\ lastTick = 1
    /\ queue = <<>> /\ running = NoRun /\ due = {} /\ waiting = NoJob /\ ticking = FALSE
    /\ faults = 0 /\ stops = 0 /\ calls = 0
    /\ fired = {}

Next ==
    \/ \E j \in JobIds :
         \/ \E enabled \in BOOLEAN : SetJobEnabled(j, enabled)
         \/ \E s \in Schedules : SetJobSchedule(j, s)
         \/ \E a \in Actions, s \in Schedules : AddJob(j, a, s) \/ UpdateJob(j, a, s)
         \/ DeleteJob(j) \/ RunManually(j)
    \/ OtherSave
    \/ StartRun \/ FinishRun
    \/ StartTick \/ ContinueTick
    \/ \E mode \in Modes : SetDockerAccessMode(mode)
    \/ \E cut \in BOOLEAN : Stop(cut)
    \/ \E max \in Ceilings : Boot(max)
    \/ Pass

Spec == Init /\ [][Next]_vars

(* Docker answers or times out, and the event loop goes on. *)
FairSpec == Spec /\ WF_vars(StartRun) /\ WF_vars(FinishRun) /\ WF_vars(ContinueTick)
-----------------------------------------------------------------------------
(* Type invariant.  No queued, running or awaited id twice. *)
JobType == [action : Actions \cup {"updates.check", "prune"}, schedule : Schedules \cup {Builtin[j].schedule : j \in DOMAIN Builtin},
            enabled : BOOLEAN, lastRunAt : 0..MaxTime, enabledAt : 0..MaxTime]
Lists == [JobIds -> JobType \cup {NoJob}]

ASSUME SchedulerAssumption ==
    /\ NoJob \notin JobType /\ NoFile \notin Modes
    /\ MaxTime \in Nat \ {0} /\ Ceilings \subseteq Modes
    /\ \A j \in DOMAIN Builtin : Builtin[j] \in JobType
    /\ NoJob \notin JobIds /\ NoRun \notin [id : JobIds, for : Nat, at : Nat, job : JobType]
    /\ DayLength \in Nat \ {0}
    /\ \A s \in Schedules \cup {Builtin[j].schedule : j \in DOMAIN Builtin} :
          /\ s.type \in {"every", "daily", "weekly"} /\ (s.type = "every" => s.hours \in Nat \ {0})
          /\ s.day \in 0..6 /\ s.hour \in 0..(DayLength - 1)

Runs == [id : JobIds, for : 0..(MaxTime + 8 * DayLength)]

TypeOK ==
    /\ jobs \in FileType(Lists)
    /\ access \in FileType(Modes \cup {NoFile})
    /\ ceiling \in Ceilings /\ up \in BOOLEAN /\ ticking \in BOOLEAN
    /\ clock \in 1..MaxTime /\ lastTick \in 1..clock
    /\ faults \in 0..MaxFaults /\ stops \in 0..MaxStops /\ calls \in 0..MaxCalls
    /\ queue \in Seq(Runs) /\ due \subseteq Runs
    /\ waiting \in JobIds \cup {NoJob}
    /\ running # NoRun => /\ running.job \in JobType /\ running.at \in 1..clock
                          /\ queue # <<>> /\ running.id = Head(queue).id
    /\ fired \subseteq JobIds \X (0..(MaxTime + 8 * DayLength))

(* Raising the Docker access mode never starts a job that was waiting above
   the old mode: whatever is enabled after the raise was allowed before it,
   also when an earlier suspension or its rollback had failed
   (src/src/server.js:232, "Persist job suspension before raising"). *)
RaiseReenablesNothing ==
    [][up /\ up' /\ dockerModeRank(access'.cache) > dockerModeRank(access.cache)
         => AboveMode(access.cache, jobs'.cache) = {}]_<<access, up>>

(* A run never undoes what the owner did while it was waited for: when it is
   claimed and when its outcome is stored, every job keeps its definition, and
   a deleted one stays deleted (src/src/cron.js:290). *)
RunKeepsOwnerEdits ==
    [][running' # running /\ up' => \A j \in JobIds :
          IF Saved[j] = NoJob THEN jobs'.cache[j] = NoJob
          ELSE /\ jobs'.cache[j] # NoJob
               /\ \A f \in {"action", "schedule", "enabled", "enabledAt"} :
                      jobs'.cache[j][f] = Saved[j][f]]_<<running, up>>

(* No scheduled time of a job is served twice, whatever restarts, power cuts
   and failed writes come between: a run that has been dispatched for it is
   never dispatched for it again (src/src/cron.js:278 and 314). *)
AtMostOncePerOccurrence ==
    [][\A r \in fired : r[2] # 0 /\ running = NoRun /\ running' # NoRun
                          => <<running'.id, running'.for>> # r]_running

(* Every run that is asked for, by the owner or by the tick, comes to an end
   and makes way, also when its claim or its outcome cannot be saved, and when
   its job is deleted before its turn (createSerialJobRunner, executeJob). *)
EveryRunEnds == \A j \in JobIds : (j \in Pending) ~> (j \notin Pending)
(* A tick always comes to its end, so that the next one is not refused: not one
   of its jobs, deleted, unsaved or already waiting when its turn comes, keeps
   it (createGuardedTrigger, runDueJobs). *)
TickEnds == ticking ~> ~ticking

(* Nothing that was begun waits for ever. *)
EverythingEnds == EveryRunEnds /\ TickEnds
=============================================================================
