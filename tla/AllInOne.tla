------------------------------- MODULE AllInOne -------------------------------
(***************************************************************************)
(* The supervisor of the all-in-one image (src/src/all-in-one/start.js and *)
(* plan.js): it starts the Docker proxy as root, waits for its port, then  *)
(* starts Companion as the node user, and stops the container when either  *)
(* of them stops.                                                          *)
(*                                                                         *)
(* An event of a child (`exit`, or `error` of a spawn) is handled some     *)
(* time after it happened.  When the supervisor ends, the container ends   *)
(* and takes what still runs with it.                                      *)
(***************************************************************************)
EXTENDS Boot, FiniteSets

CONSTANT Settings   \* the sockets and the values of DOCKER_ACCESS_MAX, in pairs

VARIABLES
    phase,      \* of the supervisor
    proc,       \* each child: "none", "starting", "up", "ended" (event pending), "gone"
    termed,     \* the children that got SIGTERM
    running,    \* the map of that name, and `stopping` and `status`
    stopping,
    status,
    wayAround   \* the socket that is mounted takes a connection of the node user

allInOneVars == <<phase, proc, termed, running, stopping, status, wayAround>>

Children == {"docker proxy", "companion"}

-----------------------------------------------------------------------------
(* plan.js *)

APP_UID == 1000
APP_GID == 1000

Missing == [exists |-> FALSE, isSocket |-> FALSE, uid |-> 0, gid |-> 0, write |-> {}]
Sockets == {Missing} \cup [exists : {TRUE}, isSocket : BOOLEAN, uid : {0, APP_UID}, gid : {0, APP_GID},
                           write : SUBSET {"owner", "group", "other"}]

MutSocketProblem(s) ==
    CASE ~s.exists -> "missing"
      [] s.exists /\ ~s.isSocket -> "not a socket"
      [] OTHER -> IF "other" \in s.write \/ (s.uid = APP_UID /\ "owner" \in s.write)
                  THEN "open to companion" ELSE "none"

socketProblem(s) ==
    CASE ~s.exists -> "missing"
      [] s.exists /\ ~s.isSocket -> "not a socket"
      [] OTHER -> IF \/ "other" \in s.write
                     \/ s.uid = APP_UID /\ "owner" \in s.write
                     \/ s.gid = APP_GID /\ "group" \in s.write
                  THEN "open to companion" ELSE "none"

(* What the kernel asks of a process of the node user that connects. *)
MayConnect(s) ==
    CASE s.uid = APP_UID -> "owner" \in s.write
      [] s.uid # APP_UID /\ s.gid = APP_GID -> "group" \in s.write
      [] OTHER -> "other" \in s.write

ASSUME MountedSockets == \A setting \in Settings : setting[1] \in Sockets

accessPlan(raw) ==
    CASE raw \in {"unset", "read"} -> [mode |-> "read", POST |-> FALSE, EXEC |-> FALSE]
      [] raw = "manage"            -> [mode |-> "manage", POST |-> TRUE, EXEC |-> FALSE]
      [] raw = "shell"             -> [mode |-> "shell", POST |-> TRUE, EXEC |-> TRUE]
      [] OTHER                     -> [mode |-> "invalid", POST |-> FALSE, EXEC |-> FALSE]

-----------------------------------------------------------------------------

Down == [c \in Children |-> "none"]

AllInOneInit ==
    /\ BootInit
    /\ phase = "down" /\ proc = Down /\ termed = {}
    /\ running = {} /\ stopping = FALSE /\ status = 0 /\ wayAround = FALSE

(* stopAll: SIGTERM to every child.  Without CAP_KILL root may not signal the
   node user's process; `error` is emitted at once and counts as its end. *)
StopAll(children, code) ==
    \E denied \in SUBSET {"companion"} :
        LET rest == children \ denied IN
        /\ stopping' = TRUE
        /\ running' = rest
        /\ termed' = termed \cup rest
        /\ status' = code
        /\ phase' = IF rest = {} THEN "exited" ELSE phase

(* stopped(name, detail, code) *)
Stopped(name, code) ==
    IF stopping
    THEN /\ running' = running \ {name}
         /\ phase' = IF running' = {} THEN "exited" ELSE phase
         /\ UNCHANGED <<stopping, status, termed>>
    ELSE StopAll(running \ {name}, code)

MutRunCatches(name, next) ==
    \/ /\ running' = running \cup {name}
       /\ proc' = [proc EXCEPT ![name] = "starting"]
       /\ phase' = next
       /\ UNCHANGED <<stopping, status, termed>>
    \/ phase' = next /\ UNCHANGED <<running, proc, stopping, status, termed>>

(* run(name, ...): the spawn throws, or its outcome comes as an event. *)
run(name, next) ==
    \/ /\ running' = running \cup {name}
       /\ proc' = [proc EXCEPT ![name] = "starting"]
       /\ phase' = next
       /\ UNCHANGED <<stopping, status, termed>>
    \/ /\ Stopped(name, 1)
       /\ UNCHANGED proc

(* Up to the proxy: what is wrong with the settings ends the container, and so
   does a proxy config that cannot be written.  Companion is started with the
   mode as its DOCKER_ACCESS_MAX. *)
Main(socket, raw) ==
    /\ phase = "down"
    /\ \/ /\ phase' = "exited" /\ status' = 1
          /\ UNCHANGED <<proc, termed, running, stopping, wayAround, dir>>
       \/ /\ socketProblem(socket) # "open to companion" /\ accessPlan(raw).mode # "invalid"
          /\ run("docker proxy", "waiting")
          /\ wayAround' = (socket.isSocket /\ MayConnect(socket))
          /\ dir' = [dir EXCEPT !.ceiling = IF accessPlan(raw).POST THEN "full" ELSE "read"]
    /\ UNCHANGED <<label, followed, again>>

(* The wait ends with a stop, at the deadline, or when something listens on the
   port, which need not be the proxy that was started. *)
Waited ==
    /\ phase = "waiting"
    /\ IF stopping THEN phase' = "watching" /\ UNCHANGED <<proc, termed, running, stopping, status>>
                   ELSE run("companion", "watching")
    /\ UNCHANGED <<bootVars, wayAround>>

(* The spawned process comes up, or fails.  Companion serves, or ends with the
   report of its boot guard. *)
ComesUp(c) ==
    /\ proc[c] = "starting"
    /\ \/ c = "docker proxy" /\ proc' = [proc EXCEPT ![c] = "up"] /\ UNCHANGED bootVars
       \/ /\ c = "companion" /\ Start
          /\ proc' = [proc EXCEPT ![c] = IF label' = "started" THEN "up" ELSE "ended"]
       \/ proc' = [proc EXCEPT ![c] = "ended"] /\ UNCHANGED bootVars
    /\ UNCHANGED <<phase, termed, running, stopping, status, wayAround>>

Ends(c) ==
    /\ proc[c] = "up"
    /\ proc' = [proc EXCEPT ![c] = "ended"]
    /\ UNCHANGED <<bootVars, phase, termed, running, stopping, status, wayAround>>

(* The `exit` or `error` event; an exit code of 0 counts as 1. *)
Handle(c) ==
    /\ phase \in {"waiting", "watching"} /\ proc[c] = "ended"
    /\ proc' = [proc EXCEPT ![c] = "gone"]
    /\ Stopped(c, 1)
    /\ UNCHANGED <<bootVars, wayAround>>

(* docker stop, or an interrupt. *)
Sigterm ==
    /\ phase \in {"waiting", "watching"}
    /\ StopAll(running, status)
    /\ UNCHANGED <<bootVars, proc, wayAround>>

(* The container is gone; the owner reads the report, and it is started again. *)
StartAgain(advised) ==
    /\ phase = "exited"
    /\ IF advised THEN FollowAdvice ELSE label' = "none" /\ UNCHANGED <<dir, followed, again>>
    /\ phase' = "down" /\ proc' = Down /\ termed' = {}
    /\ running' = {} /\ stopping' = FALSE /\ status' = 0 /\ wayAround' = FALSE

AllInOneNext ==
    \/ \E setting \in Settings : Main(setting[1], setting[2])
    \/ Waited \/ Sigterm
    \/ \E c \in Children : ComesUp(c) \/ Ends(c) \/ Handle(c)
    \/ \E advised \in BOOLEAN : StartAgain(advised)

(* Events are handled, the wait has a deadline, and a child that got SIGTERM
   ends; a running child may go on for ever. *)
Obeys(c) == c \in termed /\ Ends(c)

AllInOneFairness ==
    /\ WF_<<bootVars, allInOneVars>>(Waited)
    /\ \A c \in Children : /\ WF_<<bootVars, allInOneVars>>(Handle(c))
                           /\ WF_<<bootVars, allInOneVars>>(ComesUp(c))
                           /\ WF_<<bootVars, allInOneVars>>(Obeys(c))

AllInOneSpec ==
    AllInOneInit /\ [][AllInOneNext]_<<bootVars, allInOneVars>> /\ AllInOneFairness

-----------------------------------------------------------------------------
(* Properties *)

(* A container never goes on with one of its two processes: when either has
   ended, however that came about, the container ends too. *)
HalfEnds == (phase = "watching" /\ \E c \in Children : proc[c] \notin {"starting", "up"}) ~> phase = "exited"

(* Companion is started only beside a socket that it cannot open itself, so that
   it has no way around the proxy: however the socket of this start of the
   container is owned, what the check at the start lets pass is what the kernel
   refuses the node user. *)
NoWayAround == proc["companion"] # "none" => ~wayAround
=============================================================================
