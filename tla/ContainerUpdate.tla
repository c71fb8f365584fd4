-------------------------- MODULE ContainerUpdate --------------------------
(***************************************************************************)
(* Replacing a container by one on a newer image (updateContainer in       *)
(* src/src/docker.js): pull, compare, stop, park the old container under   *)
(* another name, create, start, remove the old one; on a failure the steps *)
(* are undone.  Each step is a request to the Docker daemon, which may be  *)
(* refused, and may take effect although its answer is lost (status 0).    *)
(* Handlers share no lock; the server may end between any two requests,    *)
(* and nothing resumes an update then.                                     *)
(*                                                                         *)
(* Names are numbers: a service's name is below Suffix, and each "__old"   *)
(* behind it adds Suffix.  An image is its version.                        *)
(***************************************************************************)
EXTENDS Naturals, Sequences

CONSTANTS
    Handlers,       \* concurrent update requests
    Suffix,         \* what "__old" adds to a name
    MaxImage,       \* bound of the images pushed to the registry
    MaxFaults       \* bound of refused and lost requests and server ends

ASSUME BoundsAssumption ==
    MaxImage \in Nat \ {0} /\ MaxFaults \in Nat /\ Suffix \in Nat \ {0}

VARIABLES
    box,        \* the daemon's containers by id, the removed ones included
    pushed,     \* the newest image of the reference in the registry
    tag,        \* the image the reference stands for on this host
    pc, old, id,    \* per handler: step, its inspection, the created container
    outcome,    \* what each handler last reported
    alone,      \* history: no other update overlapped this one so far
    faults

vars == <<box, pushed, tag, pc, old, id, outcome, alone, faults>>

Box(name, image, running) ==
    [exists |-> TRUE, name |-> name, image |-> image, running |-> running]
Removed == [exists |-> FALSE, name |-> 0, image |-> 0, running |-> FALSE]

NoId == 0
Nothing == [id |-> NoId, box |-> Removed]

Existing == {c \in DOMAIN box : box[c].exists}
Taken(name) == \E c \in Existing : box[c].name = name

Init ==
    /\ box = <<Box(0, 1, TRUE)>> /\ pushed = 1 /\ tag = 1
    /\ pc = [h \in Handlers |-> "idle"]
    /\ old = [h \in Handlers |-> Nothing] /\ id = [h \in Handlers |-> NoId]
    /\ outcome = [h \in Handlers |-> "none"]
    /\ alone = [h \in Handlers |-> TRUE] /\ faults = 0

-----------------------------------------------------------------------------
(* One request, which turns the containers into after if it can; ok is the
   answer the handler gets. *)
Request(able, after, ok) ==
    \/ ok = able /\ box' = (IF able THEN after ELSE box) /\ UNCHANGED faults
    \/ /\ ~ok /\ faults < MaxFaults /\ faults' = faults + 1
       /\ box' \in {box, IF able THEN after ELSE box}

SetRunning(c, up, ok) == Request(box[c].exists, [box EXCEPT ![c].running = up], ok)
Rename(c, name, ok) ==
    Request(box[c].exists /\ ~Taken(name), [box EXCEPT ![c].name = name], ok)
RemoveForced(c, ok) == Request(box[c].exists, [box EXCEPT ![c] = Removed], ok)

At(h, step) == pc[h] = step /\ UNCHANGED pushed
Goto(h, step) ==
    pc' = [pc EXCEPT ![h] = step] /\ UNCHANGED <<old, id, outcome, alone>>

(* The handler returns; its variables are gone. *)
Report(h, what) ==
    /\ pc' = [pc EXCEPT ![h] = "idle"] /\ outcome' = [outcome EXCEPT ![h] = what]
    /\ old' = [old EXCEPT ![h] = Nothing] /\ id' = [id EXCEPT ![h] = NoId]
    /\ alone' = [alone EXCEPT ![h] = TRUE]

WasRunning(h) == old[h].box.running
Name(h) == old[h].box.name

-----------------------------------------------------------------------------
Inspect(h) == \E c \in Existing :
    /\ pc[h] = "idle"
    /\ old' = [old EXCEPT ![h] = [id |-> c, box |-> box[c]]]
    /\ UNCHANGED id
    /\ pc' = [pc EXCEPT ![h] = "pull"] /\ outcome' = [outcome EXCEPT ![h] = "none"]
    /\ alone' = [g \in Handlers |-> IF g = h THEN \A f \in Handlers : pc[f] = "idle"
                                           ELSE alone[g] /\ pc[g] = "idle"]
    /\ UNCHANGED <<box, pushed, tag, faults>>

Pull(h) == At(h, "pull") /\
    \/ tag' = pushed /\ Goto(h, "compare") /\ UNCHANGED <<box, faults>>
    \/ Request(TRUE, box, FALSE) /\ Report(h, "failed") /\ UNCHANGED tag

Compare(h) == At(h, "compare") /\ UNCHANGED tag /\ \E ok \in BOOLEAN :
    /\ Request(TRUE, box, ok)
    /\ IF ~ok THEN Report(h, "failed")
       ELSE IF tag = old[h].box.image THEN Report(h, "current")
       ELSE Goto(h, IF WasRunning(h) THEN "stop" ELSE "park")

Stop(h) == At(h, "stop") /\ UNCHANGED tag /\ \E ok \in BOOLEAN :
    /\ SetRunning(old[h].id, FALSE, ok)
    /\ IF ok THEN Goto(h, "park") ELSE Report(h, "failed")

Park(h) == At(h, "park") /\ UNCHANGED tag /\ \E ok \in BOOLEAN :
    /\ Rename(old[h].id, Name(h) + Suffix, ok)
    /\ IF ok THEN Goto(h, "create")
       ELSE IF WasRunning(h) THEN Goto(h, "resume") ELSE Report(h, "unchanged")

(* After a failed park the old container is started, whatever comes of it. *)
Resume(h) == At(h, "resume") /\ UNCHANGED tag /\ \E ok \in BOOLEAN :
    SetRunning(old[h].id, TRUE, ok) /\ Report(h, "unchanged")

Created(h, step) ==
    /\ id' = [id EXCEPT ![h] = Len(box')]
    /\ pc' = [pc EXCEPT ![h] = step] /\ UNCHANGED <<old, outcome, alone>>

MutCreateUnchecked(h) == At(h, "create") /\ UNCHANGED tag /\ \E ok \in BOOLEAN :
    /\ Request(~Taken(Name(h)), Append(box, Box(Name(h), tag, FALSE)), ok)
    /\ IF ok /\ WasRunning(h) THEN Created(h, "start") ELSE Goto(h, "remove")

(* Without a success answer the id of the container is not known. *)
Create(h) == At(h, "create") /\ UNCHANGED tag /\ \E ok \in BOOLEAN :
    /\ Request(~Taken(Name(h)), Append(box, Box(Name(h), tag, FALSE)), ok)
    /\ IF ok THEN Created(h, IF WasRunning(h) THEN "start" ELSE "remove")
       ELSE Goto(h, "putback")

Start(h) == At(h, "start") /\ UNCHANGED tag /\ \E ok \in BOOLEAN :
    /\ SetRunning(id[h], TRUE, ok)
    /\ Goto(h, IF ok THEN "remove" ELSE "discard")

RemoveOld(h) == At(h, "remove") /\ UNCHANGED tag /\ \E ok \in BOOLEAN :
    /\ RemoveForced(old[h].id, ok)
    /\ Report(h, IF ok THEN "updated" ELSE "updatedOldKept")

(* rollback: whether the new container went away is not looked at. *)
Discard(h) == At(h, "discard") /\ UNCHANGED tag /\ \E ok \in BOOLEAN :
    RemoveForced(id[h], ok) /\ Goto(h, "putback")

PutBack(h) == At(h, "putback") /\ UNCHANGED tag /\ \E ok \in BOOLEAN :
    /\ Rename(old[h].id, Name(h), ok)
    /\ IF WasRunning(h) THEN Goto(h, IF ok THEN "startback" ELSE "startonly")
       ELSE Report(h, IF ok THEN "rolledBack" ELSE "notRestored")

StartBack(h) == \E step \in {"startback", "startonly"}, ok \in BOOLEAN :
    /\ At(h, step) /\ UNCHANGED tag
    /\ SetRunning(old[h].id, TRUE, ok)
    /\ Report(h, IF ok /\ step = "startback" THEN "rolledBack" ELSE "notRestored")

-----------------------------------------------------------------------------
(* The server ends with every update it runs. *)
Restart ==
    /\ faults < MaxFaults /\ faults' = faults + 1
    /\ \E h \in Handlers : pc[h] # "idle"
    /\ pc' = [h \in Handlers |-> "idle"] /\ outcome' = [h \in Handlers |-> "none"]
    /\ old' = [h \in Handlers |-> Nothing] /\ id' = [h \in Handlers |-> NoId]
    /\ alone' = [h \in Handlers |-> TRUE]
    /\ UNCHANGED <<box, pushed, tag>>

Push ==
    /\ pushed < MaxImage /\ pushed' = pushed + 1
    /\ UNCHANGED <<box, tag, pc, old, id, outcome, alone, faults>>

Update(h) ==
    \/ Inspect(h) \/ Pull(h) \/ Compare(h) \/ Stop(h) \/ Park(h) \/ Resume(h)
    \/ Create(h) \/ Start(h) \/ RemoveOld(h) \/ Discard(h) \/ PutBack(h) \/ StartBack(h)

Next == (\E h \in Handlers : Update(h)) \/ Restart \/ Push

Spec == Init /\ [][Next]_vars

-----------------------------------------------------------------------------
(* Properties *)

Steps == {"idle", "pull", "compare", "stop", "park", "resume", "create", "start",
          "remove", "discard", "putback", "startback", "startonly"}
Outcomes == {"none", "failed", "current", "unchanged", "rolledBack", "notRestored",
             "updated", "updatedOldKept"}
AnyBox == [exists : BOOLEAN, name : Nat, image : 0..pushed, running : BOOLEAN]

TypeOK ==
    /\ box \in Seq(AnyBox)
    /\ pushed \in 1..MaxImage /\ tag \in 1..pushed /\ faults \in 0..MaxFaults
    /\ pc \in [Handlers -> Steps] /\ outcome \in [Handlers -> Outcomes]
    /\ alone \in [Handlers -> BOOLEAN]
    /\ \A h \in Handlers :
        /\ old[h].id \in 0..Len(box) /\ old[h].box \in AnyBox
        /\ id[h] \in 0..Len(box) /\ (pc[h] \in {"start", "discard", "remove"} => id[h] # NoId)

(* However requests fail, overlap or are cut short, the service is never left
   without a container: an update force-removes what it looked at first. *)
SomeContainerExists == Existing # {}

Reports(h, what) == pc[h] # "idle" /\ pc'[h] = "idle" /\ outcome'[h] \in what

(* An update that is reported as done left a container on a newer image, and
   running if the old one was. *)
UpdatedIsUp == [][\A h \in Handlers :
    Reports(h, {"updated", "updatedOldKept"}) /\ alone[h] =>
        /\ box'[id[h]].exists /\ box'[id[h]].image > old[h].box.image
        /\ box'[id[h]].running = WasRunning(h)]_vars

(* An update that reports a rollback left the old container as it found it. *)
RolledBackIsBack == [][\A h \in Handlers :
    Reports(h, {"rolledBack"}) /\ alone[h] => box'[old[h].id] = old[h].box]_vars

(* server.js:1116 "Stop the batch when an update cannot restore its prior
   container": an update that reports rolledBack, after which the redeployment
   goes on, left the old container as it found it.  Not so: an old container
   that could not be parked and could not be started again counts as one with
   which "nothing was changed". *)
HaltsUnlessRestored == [][\A h \in Handlers :
    Reports(h, {"unchanged", "rolledBack"}) /\ alone[h]
        => box'[old[h].id] = old[h].box]_vars
=============================================================================
