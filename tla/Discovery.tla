----------------------------- MODULE Discovery -----------------------------
(***************************************************************************)
(* Discovery of services and of their keys (src/src/detect.js,             *)
(* discovery-cache.js), the keys the owner reads, makes or pastes in Set   *)
(* up (src/src/server.js, mint.js), and what a transfer takes from them    *)
(* (build.js).                                                             *)
(*                                                                         *)
(* A sweep asks Docker, reads the mounted configuration folders and dials  *)
(* every service, which takes seconds; callers share the one under way or, *)
(* unless they ask for a fresh one, the last.  Stored keys are laid over   *)
(* the rows when a caller gets them, and a stored key that disagrees with  *)
(* a row is forgotten there and then.  Containers, labels, folders and the *)
(* addresses of names change meanwhile.  All services are of one kind:     *)
(* rows of different kinds never meet.                                     *)
(***************************************************************************)
EXTENDS Integers, FiniteSets

CONSTANTS
    Containers, Folders,
    Meets,          \* container and folder share a name: pairs of them
    Keys, None,
    Requests,
    Tls,            \* containers served over https
    MintSteps,      \* requests of one key creation, at most MAX_STEPS
    MaxChanges      \* changes of the stack

ASSUME DiscoveryAssumption ==
    /\ Meets \subseteq Containers \X Folders /\ Tls \subseteq Containers
    /\ Containers \cap Folders = {}
    /\ None \notin Keys /\ MaxChanges \in Nat /\ MintSteps \in Nat \ {0}

VARIABLES
    con,        \* per container: its state and the keys its labels hold
    dir,        \* per folder: the key in its configuration file
    private,    \* the names of services resolve to private addresses
    sweep,      \* the sweep under way
    cached,     \* the last sweep's rows, and whether they are under a minute old
    stored,     \* per instance: the key in the store
    job,        \* per request: what it awaits
    handed,     \* transfers took only keys and services of their own sweep
    kept,       \* stored keys were only dropped for another credential
    plain,      \* plain-text credentials only went to private addresses
    changes

world == <<con, dir, private, changes>>
discoveryVars == <<con, dir, private, sweep, cached, stored, job, handed, kept, plain, changes>>

Instances == Containers \cup Folders
-----------------------------------------------------------------------------
(* Rows *)

Row == [key : Keys \cup {None}, conflict : BOOLEAN,
        state : {"", "running", "stopped"}, down : BOOLEAN]

resolveCredentials(ks) ==
    IF Cardinality(ks) > 1 THEN [key |-> None, conflict |-> TRUE]
    ELSE [key |-> CHOOSE k \in ks \cup {None} : ks = {} \/ k \in ks, conflict |-> FALSE]

fromDocker(cs, c) ==
    LET own == resolveCredentials(cs[c].labels) IN
    [key |-> own.key, conflict |-> own.conflict, state |-> cs[c].state,
     down |-> cs[c].state = "stopped"]

fromConfigDir(ds, f) == [key |-> ds[f], conflict |-> FALSE, state |-> "", down |-> FALSE]

aliasesMeet(cs, fs) == Meets \cap (cs \X fs)

MutMatches(cs, fs) == aliasesMeet(cs, fs)
Matches(cs, fs) ==
    {m \in aliasesMeet(cs, fs) : \A n \in aliasesMeet(cs, fs) : n[1] = m[1] \/ n[2] = m[2] => n = m}

Merged(c, f) ==
    LET both == resolveCredentials({c.key, f.key} \ {None}) IN
    [c EXCEPT !.key = both.key, !.conflict = @ \/ f.conflict \/ both.conflict]

mergeDetectedServices(cs, ds) ==
    LET here == {c \in Containers : cs[c].state # "absent"}
        files == {f \in Folders : ds[f] # None}
        used == Matches(here, files) IN
    [i \in here \cup (files \ {m[2] : m \in used}) |->
        IF i \in files THEN fromConfigDir(ds, i)
        ELSE IF \E f \in files : <<i, f>> \in used
        THEN Merged(fromDocker(cs, i), fromConfigDir(ds, CHOOSE f \in files : <<i, f>> \in used))
        ELSE fromDocker(cs, i)]

(* Running containers and the default ports are dialled, each with its
   alternatives; any of them may answer or not. *)
instanceProbeTarget(row) == row.state # "stopped"
probeInstances(rows) == [{i \in DOMAIN rows : instanceProbeTarget(rows[i])} -> BOOLEAN]

(* No answer marks a service down; a stopped container stays as Docker has it. *)
mergeLiveProbes(rows, up) ==
    [i \in DOMAIN rows |-> [rows[i] EXCEPT !.down = @ \/ (i \in DOMAIN up /\ ~up[i])]]

availabilityFor(row) ==
    IF row.state = "stopped" THEN "not-running"
    ELSE IF row.state = "running" /\ row.down THEN "unreachable" ELSE "reachable or unverified"

(* Stored keys over rows: a row's own credential comes first. *)
Stale(rows) ==
    {i \in DOMAIN rows : /\ stored[i] # None /\ ~rows[i].conflict
                         /\ rows[i].key # None /\ rows[i].key # stored[i]}
applyMintedKeys(rows) ==
    [i \in DOMAIN rows |-> IF ~rows[i].conflict /\ rows[i].key = None
                           THEN [rows[i] EXCEPT !.key = stored[i]] ELSE rows[i]]
-----------------------------------------------------------------------------
Absent == [state |-> "absent", labels |-> {}]

(* What was in place at some time since a sweep began: which instance had
   which key of its own, and which containers ran. *)
Standing ==
    [keys |-> {m \in Containers \X Keys : con[m[1]].state # "absent" /\ m[2] \in con[m[1]].labels}
              \cup {m \in Folders \X Keys : dir[m[1]] = m[2]},
     ran |-> {c \in Containers : con[c].state = "running"}]
And(a, b) == [keys |-> a.keys \cup b.keys, ran |-> a.ran \cup b.ran]

Had(since, i, k) ==
    \/ <<i, k>> \in since.keys
    \/ \E f \in Folders : <<i, f>> \in Meets /\ <<f, k>> \in since.keys

NoSweep == [at |-> "none"]
NoRows == [rows |-> <<>>, young |-> FALSE, since |-> [keys |-> {}, ran |-> {}]]
AtRest == [at |-> "idle"]

(* discover: the sweep under way, or a recent one, or a new one. *)
MutMayReuse(fresh) == cached.young
MayReuse(fresh) == ~fresh /\ cached.young

Waiting(kind) == [at |-> "discover", kind |-> kind]
Reusing(kind) == [at |-> "reuse", kind |-> kind]

Ask(r, kind, fresh) ==
    /\ job[r] = AtRest /\ sweep.at # "done"
    /\ IF sweep.at = "none" /\ MayReuse(fresh)
       THEN job' = [job EXCEPT ![r] = Reusing(kind)] /\ UNCHANGED sweep
       ELSE /\ job' = [job EXCEPT ![r] = Waiting(kind)]
            /\ sweep' = IF sweep.at = "none" THEN [at |-> "docker", since |-> Standing] ELSE sweep
    /\ UNCHANGED <<world, cached, stored, handed, kept, plain>>

(* Docker's list, then the folders, then the dialling; a Docker that does not
   answer leaves the folders. *)
DockerLists ==
    /\ sweep.at = "docker"
    /\ \E cs \in {con, [c \in Containers |-> Absent]} :
         sweep' = [at |-> "files", since |-> sweep.since, con |-> cs]
    /\ UNCHANGED <<world, cached, stored, job, handed, kept, plain>>

ReadsFolders ==
    /\ sweep.at = "files"
    /\ sweep' = [at |-> "dial", since |-> sweep.since,
                 rows |-> mergeDetectedServices(sweep.con, dir)]
    /\ UNCHANGED <<world, cached, stored, job, handed, kept, plain>>

Dialled ==
    /\ sweep.at = "dial"
    /\ \E up \in probeInstances(sweep.rows) :
         cached' = [rows |-> mergeLiveProbes(sweep.rows, up), young |-> TRUE, since |-> sweep.since]
    /\ sweep' = [at |-> "done"]
    /\ UNCHANGED <<world, stored, job, handed, kept, plain>>

CacheAges ==
    /\ cached.young /\ sweep.at # "done"
    /\ cached' = [cached EXCEPT !.young = FALSE]
    /\ UNCHANGED <<world, sweep, stored, job, handed, kept, plain>>
-----------------------------------------------------------------------------
(* What callers do with the rows.  Every caller forgets what is stale. *)

After(i, new) == [new EXCEPT ![i] = None]
MayGoOn(r) == job[r].at = "reuse" \/ (job[r].at = "discover" /\ sweep.at = "done")

(* Whether dropping what is stale drops only keys that some credential of the
   service stood against. *)
Fair(dropped) ==
    \A i \in dropped : \E k \in Keys \ {stored[i]} : Had(cached.since, i, k)

currentServices(r) ==
    /\ MayGoOn(r)
    /\ kept' = (kept /\ Fair(Stale(cached.rows)))
    /\ sweep' = IF sweep.at = "done" /\ \A q \in Requests \ {r} : job[q].at # "discover"
                THEN NoSweep ELSE sweep
    /\ UNCHANGED <<world, cached>>

Remaining == [i \in Instances |-> IF i \in Stale(cached.rows) THEN None ELSE stored[i]]

(* A page that only shows the services. *)
Show(r) ==
    /\ currentServices(r) /\ job[r].kind = "show"
    /\ stored' = Remaining /\ job' = [job EXCEPT ![r] = AtRest]
    /\ UNCHANGED <<handed, plain>>

(* buildBundle: every selected service must be there, of one mind about its
   key, running, and reachable unless the owner includes it anyway. *)
Transferable(row, forced) ==
    /\ ~row.conflict
    /\ availabilityFor(row) # "not-running"
    /\ availabilityFor(row) # "unreachable" \/ forced

buildBundle(r) ==
    /\ currentServices(r) /\ job[r].kind = "build"
    /\ stored' = Remaining /\ job' = [job EXCEPT ![r] = AtRest]
    /\ \E selected \in (SUBSET Instances) \ {{}}, forced \in BOOLEAN :
         LET rows == applyMintedKeys(cached.rows)
             given == {i \in selected : cached.rows[i].key # None}
             since == IF job[r].at = "discover" THEN cached.since ELSE Standing IN
         handed' = (handed /\
            \/ ~(selected \subseteq DOMAIN rows)
            \/ \E i \in selected : ~Transferable(rows[i], forced)
            \/ /\ \A i \in given : Had(since, i, rows[i].key)
               /\ selected \cap Containers \subseteq since.ran)
    /\ UNCHANGED plain

(* A pasted key is taken for a service that has none. *)
canSaveManualKey(row) == ~row.conflict /\ row.key = None

SaveManual(r) ==
    /\ currentServices(r) /\ job[r].kind = "manual"
    /\ \E i \in Instances, k \in Keys :
         stored' = IF /\ i \in DOMAIN cached.rows
                      /\ canSaveManualKey(applyMintedKeys(cached.rows)[i])
                   THEN [Remaining EXCEPT ![i] = k] ELSE Remaining
    /\ job' = [job EXCEPT ![r] = AtRest]
    /\ UNCHANGED <<handed, plain>>

(* A key made in the service: plain http is only used to a private address,
   and every request resolves the name again and looks once more. *)
mintTransportOk(c) == c \in Tls \/ private

MintBegins(r) ==
    /\ currentServices(r) /\ job[r].kind = "mint"
    /\ stored' = Remaining
    /\ \E c \in Containers :
         job' = [job EXCEPT ![r] =
                   IF c \in DOMAIN cached.rows /\ mintTransportOk(c)
                   THEN [at |-> "mint", on |-> c, left |-> MintSteps] ELSE AtRest]
    /\ UNCHANGED <<handed, plain>>

MayConnect(c) == c \in Tls \/ private

mintRequest(r) ==
    /\ job[r].at = "mint"
    /\ LET c == job[r].on IN
       \/ /\ job' = [job EXCEPT ![r] = AtRest]        \* refused, unreachable, or no key
          /\ UNCHANGED <<stored, plain>>
       \/ /\ MayConnect(c)
          /\ plain' = (plain /\ (c \in Tls \/ private))
          /\ IF job[r].left > 1
             THEN job' = [job EXCEPT ![r].left = @ - 1] /\ UNCHANGED stored
             ELSE /\ \E k \in Keys : stored' = [stored EXCEPT ![c] = k]
                  /\ job' = [job EXCEPT ![r] = AtRest]
    /\ UNCHANGED <<world, sweep, cached, handed, kept>>

(* A key read from the container itself, without discovery: Docker is asked
   which container the instance is and then to read its file. *)
ReadBegins(r) ==
    /\ job[r] = AtRest
    /\ \E c \in Containers :
         /\ con[c].state # "absent"
         /\ job' = [job EXCEPT ![r] = [at |-> "read", on |-> c]]
    /\ UNCHANGED <<world, sweep, cached, stored, handed, kept, plain>>

Read(r) ==
    /\ job[r].at = "read"
    /\ \/ UNCHANGED stored
       \/ /\ con[job[r].on].state = "running"
          /\ \E k \in Keys : stored' = [stored EXCEPT ![job[r].on] = k]
    /\ job' = [job EXCEPT ![r] = AtRest]
    /\ UNCHANGED <<world, sweep, cached, handed, kept, plain>>

forgetMintedKey(i) ==
    /\ stored[i] # None /\ stored' = After(i, stored)
    /\ UNCHANGED <<world, sweep, cached, job, handed, kept, plain>>
-----------------------------------------------------------------------------
(* The stack changes: what stands from now on has stood since every sweep
   that is not over. *)
ChangeTo(cs, ds, p) ==
    /\ changes < MaxChanges /\ changes' = changes + 1
    /\ con' = cs /\ dir' = ds /\ private' = p
    /\ cached' = [cached EXCEPT !.since = And(@, Standing')]
    /\ sweep' = IF sweep.at \in {"docker", "files", "dial"}
                THEN [sweep EXCEPT !.since = And(@, Standing')] ELSE sweep
    /\ UNCHANGED <<stored, job, handed, kept, plain>>

StackChanges ==
    \/ \E c \in Containers, s \in {"absent", "running", "stopped"}, ls \in SUBSET Keys :
         ChangeTo([con EXCEPT ![c] = [state |-> s, labels |-> ls]], dir, private)
    \/ \E f \in Folders, k \in Keys \cup {None} : ChangeTo(con, [dir EXCEPT ![f] = k], private)

NamesMove == ChangeTo(con, dir, ~private)

DiscoveryInit ==
    /\ con \in [Containers -> {Absent, [state |-> "running", labels |-> {}]}]
    /\ dir \in [Folders -> Keys \cup {None}] /\ private = TRUE
    /\ sweep = NoSweep /\ cached = NoRows
    /\ stored = [i \in Instances |-> None]
    /\ job = [r \in Requests |-> AtRest]
    /\ handed = TRUE /\ kept = TRUE /\ plain = TRUE /\ changes = 0

DiscoveryNext ==
    \/ DockerLists \/ ReadsFolders \/ Dialled \/ CacheAges \/ StackChanges \/ NamesMove
    \/ \E i \in Instances : forgetMintedKey(i)
    \/ \E r \in Requests :
         \/ Ask(r, "show", FALSE) \/ Ask(r, "show", TRUE) \/ Ask(r, "build", TRUE)
         \/ Ask(r, "manual", FALSE) \/ Ask(r, "mint", FALSE)
         \/ Show(r) \/ buildBundle(r) \/ SaveManual(r)
         \/ MintBegins(r) \/ mintRequest(r) \/ ReadBegins(r) \/ Read(r)

DiscoverySpec == DiscoveryInit /\ [][DiscoveryNext]_discoveryVars
-----------------------------------------------------------------------------
(* Every variable has its type. *)
DiscoveryTypeOK ==
    /\ con \in [Containers -> [state : {"absent", "running", "stopped"}, labels : SUBSET Keys]]
    /\ dir \in [Folders -> Keys \cup {None}] /\ stored \in [Instances -> Keys \cup {None}]
    /\ \A i \in DOMAIN cached.rows : cached.rows[i] \in Row
    /\ changes \in 0 .. MaxChanges

(* A transfer takes only services that ran, and keys of their own that were
   in place, at some time after the discovery it waited for began: a result
   that is older is never used for one. *)
TransfersAreCurrent == handed

(* A stored key is dropped only when some other credential of its service was
   in place at some time since the sweep that it is held against began. *)
DroppedForAReason == kept

(* The key in one configuration folder is never given to two services. *)
KeyHasOneHome ==
    \A i, j \in DOMAIN cached.rows :
        LET k == cached.rows[i].key
            Lent(x) == <<x, k>> \notin cached.since.keys IN
        i # j /\ k # None /\ k = cached.rows[j].key /\ Lent(i) /\ Lent(j) =>
            \E f, g \in Folders : f # g /\ <<i, f>> \in Meets /\ <<j, g>> \in Meets

(* An admin password goes over plain http only to an address that is private
   at that moment, however the name is answered from one request to the
   next. *)
PlaintextStaysPrivate == plain

(* A transfer takes, and a stored key is dropped for, only what was seen since
   its own sweep began. *)
UsesWhatStood == TransfersAreCurrent /\ DroppedForAReason

(* Neither a key nor an admin password goes to a service or an address that
   it is not for. *)
SecretsStayHome == KeyHasOneHome /\ PlaintextStaysPrivate
=============================================================================
