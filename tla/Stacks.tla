------------------------------- MODULE Stacks -------------------------------
(***************************************************************************)
(* The Docker operations of the owner panel (src/src/server.js, docker.js, *)
(* compose.js): single containers are started, stopped, restarted, removed *)
(* and updated, stopped ones are pruned, a stack is started, stopped,      *)
(* redeployed and removed, and a compose file is deployed.  An operation   *)
(* checks its targets against the protected identities, takes a snapshot   *)
(* of what there is, and then sends one request after the other; nothing   *)
(* stops another operation, the scheduler's included, from working on the  *)
(* same containers in between.  Updating one container is ContainerUpdate. *)
(*                                                                         *)
(* Paused and restarting containers count as running ones; networks,       *)
(* volumes and images other than the one image of all services are left    *)
(* out.  Requests that only read are one step with the operation's start.  *)
(***************************************************************************)
EXTENDS ContainerUpdate

CONSTANTS
    Stack,          \* the names of the owner's stack, as in its compose file
    Reserved,       \* the names of Companion's own containers
    MaxCalls        \* bound of the operations begun

ASSUME NamesAssumption ==
    /\ Stack \subseteq 0..Suffix-1 /\ Reserved \subseteq 0..Suffix-1
    /\ Stack \cap Reserved = {} /\ {0, 1} \subseteq Stack /\ Reserved # {}

VARIABLES
    call,       \* the operation each handler runs
    clear,      \* history: no other operation overlapped it so far
    asked,      \* history: services of which a container was removed on request
    calls

stackVars == <<call, clear, asked, calls>>
allVars == <<vars, stackVars>>

(* What is left of an operation: whether it was answered as a failure. *)
Answered(bad) == [verb |-> "none", todo |-> {}, all |-> {}, bad |-> bad]
Running(h) == call[h].verb # "none"

(* Every container of a stack carries the stack's label, a parked one too. *)
Service(name) == name % Suffix
Protected(name) == name \in Reserved

(* One line of listContainers. *)
Row(c) == [id |-> c, name |-> box[c].name, running |-> box[c].running]
Rows(C) == {Row(c) : c \in C}
Members == {c \in Existing : Service(box[c].name) \in Stack}

First(rows) == CHOOSE r \in rows : \A q \in rows : r.name <= q.name

InitStacks ==
    /\ \E up \in BOOLEAN :
          box = <<Box(0, 1, TRUE), Box(1, 1, up), Box(CHOOSE n \in Reserved : TRUE, 1, TRUE)>>
    /\ pushed = 1 /\ tag = 1
    /\ pc = [h \in Handlers |-> "idle"]
    /\ old = [h \in Handlers |-> Nothing] /\ id = [h \in Handlers |-> NoId]
    /\ outcome = [h \in Handlers |-> "none"]
    /\ alone = [h \in Handlers |-> TRUE] /\ faults = 0
    /\ call = [h \in Handlers |-> Answered(FALSE)] /\ clear = [h \in Handlers |-> TRUE]
    /\ asked = {} /\ calls = 0

-----------------------------------------------------------------------------
(* The course of an operation *)

Free(h) == ~Running(h) /\ calls < MaxCalls

Begin(h, verb, rows) ==
    /\ Free(h) /\ calls' = calls + 1
    /\ call' = [call EXCEPT ![h] =
                  [verb |-> verb, todo |-> rows, bad |-> FALSE, all |-> rows]]
    /\ clear' = [g \in Handlers |->
                  IF g = h THEN \A f \in Handlers \ {h} : ~Running(f)
                  ELSE clear[g] /\ ~Running(g)]
    /\ outcome' = [outcome EXCEPT ![h] = "none"]
    /\ UNCHANGED <<box, pushed, tag, old, id, faults, asked>>

(* The steps of an update see to pc and alone themselves. *)
Enter(h, step) ==
    /\ pc' = [pc EXCEPT ![h] = step]
    /\ alone' = [g \in Handlers |-> IF g = h THEN \A f \in Handlers : pc[f] = "idle"
                                           ELSE alone[g] /\ pc[g] = "idle"]

Now(h) == First(call[h].todo)

MutRestForgets(h, failed, halted) ==
    LET rest == call[h].todo \ {Now(h)}
    IN  IF rest = {} \/ halted THEN Answered(failed)
        ELSE [call[h] EXCEPT !.todo = rest, !.bad = failed]

(* The operation is done with its first row: it goes on, or it answers. *)
Rest(h, failed, halted) ==
    LET rest == call[h].todo \ {Now(h)}
        bad  == call[h].bad \/ failed
    IN  IF rest = {} \/ halted THEN Answered(bad)
        ELSE [call[h] EXCEPT !.todo = rest, !.bad = bad]

DoneWith(h, failed) ==
    /\ call' = [call EXCEPT ![h] = Rest(h, failed, FALSE)]
    /\ pc' = [pc EXCEPT ![h] = IF call'[h].verb = "none" THEN "idle" ELSE "each"]

GoOn(h, step) == pc' = [pc EXCEPT ![h] = step] /\ UNCHANGED call

(* A request of an operation that is not an update. *)
Working(h, step) ==
    /\ pc[h] = step /\ Running(h)
    /\ UNCHANGED <<pushed, old, id, outcome, alone, clear, calls>>

-----------------------------------------------------------------------------
(* Starting one *)

MutClear(c) == box[c].exists

(* containerShield: inspected afresh, and not one of Companion's own. *)
Clear(c) == box[c].exists /\ ~Protected(box[c].name)

AllClear(C) == \A c \in C : Clear(c)

OnContainers == {"start", "stop", "restart", "remove", "update"}

(* One container: handleContainerAction, handleContainerRemove and
   handleContainerUpdate, and the scheduler's container jobs. *)
ActOn(h, c, verb) ==
    /\ Clear(c) /\ Begin(h, verb, {Row(c)})
    /\ IF verb = "update" THEN UNCHANGED <<pc, alone>> ELSE Enter(h, "each")

(* handleStackVerb: every member is checked before the first is touched. *)
ActOnStack(h, verb) ==
    /\ Members # {} /\ AllClear(Members)
    /\ Begin(h, verb, Rows(Members))
    /\ IF verb = "update" THEN UNCHANGED <<pc, alone>> ELSE Enter(h, "each")

(* pruneContainersGuarded *)
Prune(h) ==
    LET stopped == {c \in Existing : ~box[c].running}
    IN  stopped # {} /\ Begin(h, "prune", Rows(stopped)) /\ Enter(h, "each")

(* parseCompose, the binds and reservedProtectionClaims: a file that claims a
   protected identity is refused before Docker is touched. *)
Deployable(names) == names \cap Reserved = {}

(* handleStackDeploy with a file that names these services. *)
Deploy(h, names, start) ==
    /\ Deployable(names)
    /\ Begin(h, IF start THEN "deploy" ELSE "deployStopped",
             {[id |-> NoId, name |-> n, running |-> FALSE] : n \in names})
    /\ Enter(h, "network")

-----------------------------------------------------------------------------
(* One request after the other *)

(* containerActionResult: a container already in that state is fine. *)
SetState(h) == \E ok \in BOOLEAN :
    /\ Working(h, "each") /\ call[h].verb \in {"start", "stop", "restart"}
    /\ SetRunning(Now(h).id, call[h].verb # "stop", ok)
    /\ DoneWith(h, ~ok) /\ UNCHANGED <<tag, asked>>

(* The whole stack is removed: what ran in the snapshot is stopped first. *)
StopToRemove(h) == \E ok \in BOOLEAN :
    /\ Working(h, "each") /\ call[h].verb = "removeStack"
    /\ IF Now(h).running
       THEN SetRunning(Now(h).id, FALSE, ok) /\ IF ok THEN GoOn(h, "drop") ELSE DoneWith(h, TRUE)
       ELSE GoOn(h, "drop") /\ UNCHANGED <<box, faults>>
    /\ UNCHANGED <<tag, asked>>

(* A row that cannot be inspected by now, or is protected, is kept. *)
CheckToPrune(h) == \E ok \in BOOLEAN :
    /\ Working(h, "each") /\ call[h].verb = "prune"
    /\ Request(TRUE, box, ok)
    /\ IF ok /\ Clear(Now(h).id) THEN GoOn(h, "drop") ELSE DoneWith(h, FALSE)
    /\ UNCHANGED <<tag, asked>>

MutRemoveForce(c, ok) == RemoveForced(c, ok)

(* removeContainer without force: the daemon keeps a running container. *)
RemoveStopped(c, ok) ==
    Request(box[c].exists /\ ~box[c].running, [box EXCEPT ![c] = Removed], ok)

Drop(h) == \E ok \in BOOLEAN :
    /\ Working(h, IF call[h].verb = "remove" THEN "each" ELSE "drop")
    /\ RemoveStopped(Now(h).id, ok) /\ DoneWith(h, ~ok)
    /\ asked' = IF box'[Now(h).id].exists THEN asked ELSE asked \cup {Service(Now(h).name)}
    /\ UNCHANGED tag

-----------------------------------------------------------------------------
(* deployStack, service by service *)

Network(h) == \E ok \in BOOLEAN :
    /\ Working(h, "network") /\ Request(TRUE, box, ok)
    /\ IF ok THEN GoOn(h, "image")
       ELSE call' = [call EXCEPT ![h] = Answered(TRUE)] /\ pc' = [pc EXCEPT ![h] = "idle"]
    /\ UNCHANGED <<tag, asked>>

(* A pull that fails is noted: the image may be on the host already. *)
PullImage(h) == \E ok \in BOOLEAN :
    /\ Working(h, "image") /\ Request(TRUE, box, ok)
    /\ tag' = (IF ok THEN pushed ELSE tag)
    /\ call' = [call EXCEPT ![h].bad = @ \/ ~ok] /\ pc' = [pc EXCEPT ![h] = "make"]
    /\ UNCHANGED asked

Deployed(h, failed) ==
    /\ call' = [call EXCEPT ![h] = Rest(h, failed, FALSE)]
    /\ pc' = [pc EXCEPT ![h] = IF call'[h].verb = "none" THEN "idle" ELSE "image"]

Make(h) == \E ok \in BOOLEAN :
    /\ Working(h, "make")
    /\ Request(~Taken(Now(h).name), Append(box, Box(Now(h).name, tag, FALSE)), ok)
    /\ IF ok /\ call[h].verb = "deploy"
       THEN /\ call' = [call EXCEPT ![h].todo = (@ \ {Now(h)}) \cup {[Now(h) EXCEPT !.id = Len(box')]}]
            /\ pc' = [pc EXCEPT ![h] = "run"]
       ELSE Deployed(h, ~ok)
    /\ UNCHANGED <<tag, asked>>

Run(h) == \E ok \in BOOLEAN :
    /\ Working(h, "run") /\ SetRunning(Now(h).id, TRUE, ok)
    /\ Deployed(h, ~ok) /\ UNCHANGED <<tag, asked>>

-----------------------------------------------------------------------------
(* An update, for its own sake or as a part of a redeployment *)

(* handleStackVerb looks at rolledBack === false. *)
Halts(what) == what = "notRestored"

(* The next row is inspected; one that is gone by then is a failure. *)
UpdateNext(h) ==
    /\ pc[h] = "idle" /\ call[h].verb = "update"
    /\ \/ Inspect(h) /\ old'[h].id = Now(h).id /\ UNCHANGED call
       \/ /\ ~box[Now(h).id].exists
          /\ call' = [call EXCEPT ![h] = Rest(h, TRUE, FALSE)] /\ UNCHANGED vars
    /\ UNCHANGED <<clear, asked, calls>>

UpdateStep(h) ==
    /\ pc[h] # "idle" /\ Update(h)
    /\ call' = IF pc'[h] # "idle" THEN call
               ELSE [call EXCEPT ![h] =
                       Rest(h, outcome'[h] \notin {"current", "updated", "updatedOldKept"},
                            Halts(outcome'[h]))]
    /\ UNCHANGED <<clear, asked, calls>>

-----------------------------------------------------------------------------
(* The server ends with every operation it runs. *)
RestartServer ==
    /\ Restart
    /\ call' = [h \in Handlers |-> Answered(TRUE)] /\ clear' = [h \in Handlers |-> TRUE]
    /\ UNCHANGED <<asked, calls>>

PushImage == Push /\ UNCHANGED stackVars

Names == Stack \cup Reserved

Operation(h) ==
    \/ \E c \in Existing, verb \in OnContainers : ActOn(h, c, verb)
    \/ \E verb \in {"start", "stop", "restart", "update", "removeStack"} : ActOnStack(h, verb)
    \/ Prune(h)
    \/ \E names \in (SUBSET Names) \ {{}}, start \in BOOLEAN : Deploy(h, names, start)
    \/ SetState(h) \/ StopToRemove(h) \/ CheckToPrune(h) \/ Drop(h)
    \/ Network(h) \/ PullImage(h) \/ Make(h) \/ Run(h)
    \/ UpdateNext(h) \/ UpdateStep(h)

NextStacks == (\E h \in Handlers : Operation(h)) \/ RestartServer \/ PushImage

SpecStacks == InitStacks /\ [][NextStacks]_allVars

-----------------------------------------------------------------------------
(* Properties *)

Theirs(c) == c \in Existing /\ Protected(box[c].name)

(* Companion and its socket proxy are out of reach of the panel: whatever is
   asked, snapshot and carried out late, no container of a protected identity
   is ever touched, and none comes to be (protect.js, containerShield,
   reservedProtectionClaims). *)
CompanionIsLeftAlone ==
    [][\A c \in DOMAIN box \cup DOMAIN box' :
          (c \in DOMAIN box /\ Theirs(c)) \/ (c \in DOMAIN box' /\ Theirs(c)')
              => c \in DOMAIN box /\ box'[c] = box[c]]_allVars

(* Updates, redeployments and deployments that fail, are cut short or overlap
   never leave a service without a container: only where a container of it was
   removed on request, or pruned, may it end up with none. *)
ServicesSurvive ==
    \A s \in {0, 1} : (\E c \in Existing : Service(box[c].name) = s) \/ s \in asked

(* Removal decides on a snapshot that may be old by then; still no container
   that runs is removed, except by the update that is replacing it. *)
RunningIsKept ==
    [][\A c \in Existing : box[c].running /\ ~box'[c].exists =>
          \E h \in Handlers : pc[h] \in {"remove", "discard"} /\ pc'[h] # pc[h]]_allVars

Answers(h) == Running(h) /\ ~Running(h)'

Standing(name, up) == \E c \in Existing : box[c].name = name /\ (up => box[c].running)

(* What an operation that is answered as a success has brought about. *)
Achieved(verb, r) ==
    CASE verb \in {"start", "restart"}     -> box[r.id].exists /\ box[r.id].running
      [] verb = "stop"                     -> ~box[r.id].running
      [] verb \in {"remove", "removeStack"} -> ~box[r.id].exists
      [] verb \in {"update", "deploy"}     -> Standing(r.name, verb = "deploy" \/ r.running)
      [] verb = "deployStopped"            -> Standing(r.name, FALSE)
      [] OTHER                             -> TRUE

(* An operation on several containers that is answered as a success, with no
   other one around, did all of it; a member that failed is not swallowed. *)
SuccessIsComplete ==
    [][\A h \in Handlers : Answers(h) /\ ~call'[h].bad /\ clear[h] =>
          \A verb \in {call[h].verb}, r \in call[h].all : Achieved(verb, r)']_allVars

(* What the owner is told of an operation, and the next step of a redeployment
   goes by, is what was done. *)
AnswersAreTrue == SuccessIsComplete /\ UpdatedIsUp /\ RolledBackIsBack
=============================================================================
