--------------------------------- MODULE Boot ---------------------------------
(***************************************************************************)
(* What a start makes of the data directory, and what it tells the owner   *)
(* (src/src/boot-guard.js over the refusals of store.js and                *)
(* docker-access.js, and start of server.js).                              *)
(*                                                                         *)
(* boot-guard.js knows a refusal by its code and its wording alone, so a   *)
(* refusal is a code, the sentence it opens with and the detail in         *)
(* brackets.  The owner has lost the old key and has no backup of a file   *)
(* that the report offers a way around: `Advised` is the fallback of a     *)
(* report where it has one, and its action where it has none.              *)
(***************************************************************************)
EXTENDS Naturals

VARIABLES
    dir,        \* the data directory and what the start depends on besides
    label,      \* the label of the report, "none", or "started"
    followed,   \* the labels of the reports whose advice was followed
    again       \* those whose advice was followed more than once

bootVars == <<dir, label, followed, again>>

(* "mismatch" is sealed with another key, "odd" authenticates and is invalid,
   "cron" is the form whose jobs are not sealed yet; "v1extra" has unknown
   fields and "v1odd" an invalid record.  "other" is a sidecar of another
   installation.  Of the access modes there are read and one above it: the
   mode that is selected, DOCKER_ACCESS_MAX (`ceiling`), and what an enabled job
   of the panel needs (`jobs`, "on"); "unsaved" is a panel without saved jobs,
   "odd" one whose sealed jobs do not open. *)
Panels   == {"absent", "unopenable", "foreign", "mismatch", "odd", "cron", "good", "v1", "v1extra", "v1odd"}
Markers  == {"absent", "unopenable", "malformed", "mismatch", "good"}
Accesses == {"absent", "unopenable", "foreign", "mismatch", "odd", "other", "read", "full"}
Jobs     == {"unsaved", "off", "on", "odd"}

Directories == [panel : Panels, jobs : Jobs, marker : Markers, access : Accesses,
                ceiling : {"read", "full"}, migrate : BOOLEAN,
                writes : {"durable", "unsure", "fail"}, port : {"free", "taken", "denied"}]

Refusal(code, sentence, detail) == [code |-> code, sentence |-> sentence, detail |-> detail]
NoRefusal == Refusal("none", "none", "none")

stateError(detail)  == Refusal("QM_STATE_INVALID", "state", detail)
markerError(detail) == Refusal("QM_STATE_INVALID", "marker", detail)
accessError(detail) == Refusal("QM_DOCKER_ACCESS_INVALID", "access", detail)

Result(d, refusal) == [dir |-> d, refusal |-> refusal]

-----------------------------------------------------------------------------
(* load of store.js *)

(* A rename whose directory was not synced is in force and still refuses. *)
commit(d, next) ==
    CASE d.writes = "durable" -> Result(next, NoRefusal)
      [] d.writes = "unsure"  -> Result(next, Refusal("QM_STATE_INVALID", "committed", "none"))
      [] d.writes = "fail"    -> Result(d, Refusal("EACCES", "none", "none"))

migrationWasConsumed(d) ==
    CASE d.marker = "unopenable" -> markerError("it could not be read")
      [] d.marker = "malformed"  -> markerError("it is not one 64 character hexadecimal line")
      [] d.marker = "mismatch"   -> markerError("authentication failed")
      [] d.marker = "good"       -> Refusal("QM_STATE_INVALID", "spent", "none")
      [] d.marker = "absent"     -> NoRefusal

(* The marker is written after a durable commit. *)
Migrate(d) ==
    IF ~d.migrate THEN Result(d, stateError("legacy v1 is unauthenticated"))
    ELSE IF migrationWasConsumed(d) # NoRefusal THEN Result(d, migrationWasConsumed(d))
    ELSE CASE d.panel = "v1extra" -> Result(d, stateError("legacy format has unknown fields"))
           [] d.panel = "v1odd"   -> Result(d, stateError("owner record is invalid"))
           [] d.panel = "v1"      ->
                commit(d, [d EXCEPT !.panel = "good",
                                    !.marker = IF d.writes = "durable" THEN "good" ELSE @])

(* An installation that is created has an id of its own. *)
load(d) ==
    CASE d.panel = "absent" ->
            commit(d, [d EXCEPT !.panel = "good", !.jobs = "unsaved",
                                !.access = IF @ \in {"read", "full"} THEN "other" ELSE @])
      [] d.panel = "unopenable" -> Result(d, stateError("read failed"))
      [] d.panel = "foreign"    -> Result(d, stateError("format is invalid"))
      [] d.panel = "mismatch"   -> Result(d, stateError("authentication failed"))
      [] d.panel = "odd"        -> Result(d, stateError("owner record is invalid"))
      [] d.panel = "cron"       -> commit(d, [d EXCEPT !.panel = "good"])
      [] d.panel = "good"       -> Result(d, NoRefusal)
      [] OTHER                  -> Migrate(d)

Above(d) == d.access = "full" /\ d.ceiling = "read"

(* selectedMode of docker-access.js: a mode above the ceiling is lowered, and
   the start waits until that is saved. *)
Select(d) ==
    CASE d.access = "unopenable" -> Result(d, accessError("read failed"))
      [] d.access = "foreign"    -> Result(d, accessError("format is invalid"))
      [] d.access = "mismatch"   -> Result(d, accessError("authentication failed"))
      [] d.access \in {"odd", "other"} -> Result(d, accessError("payload has an invalid structure"))
      [] Above(d) /\ d.writes = "fail" ->
            Result(d, Refusal("QM_DOCKER_ACCESS_INVALID", "write", "EACCES"))
      [] Above(d) /\ d.writes = "unsure" ->
            Result([d EXCEPT !.access = "read"], Refusal("QM_DOCKER_ACCESS_DURABILITY_UNCERTAIN", "none", "none"))
      [] Above(d) /\ d.writes = "durable" -> Result([d EXCEPT !.access = "read"], NoRefusal)
      [] OTHER -> Result(d, NoRefusal)

(* suspendJobsAboveMode of cron.js.  The built-in jobs, which a panel without
   saved ones gets here, are all disabled, so that there is one save at most. *)
Suspend(d) ==
    CASE d.jobs = "odd" -> Result(d, stateError("cron state could not be decrypted"))
      [] d.jobs = "unsaved" \/ (d.jobs = "on" /\ d.access # "full") -> commit(d, [d EXCEPT !.jobs = "off"])
      [] OTHER -> Result(d, NoRefusal)

Listen(d) ==
    CASE d.port = "free"   -> Result(d, NoRefusal)
      [] d.port = "taken"  -> Result(d, Refusal("EADDRINUSE", "listen", "none"))
      [] d.port = "denied" -> Result(d, Refusal("EACCES", "listen", "none"))

Then(result, step(_)) == IF result.refusal = NoRefusal THEN step(result.dir) ELSE result

(* The state is loaded for the setup token, when server.js is imported. *)
Boots(d) == Then(Then(Then(load(d), Select), Suspend), Listen)

-----------------------------------------------------------------------------
(* describe of boot-guard.js *)

stateBucket(detail) ==
    CASE detail = "authentication failed" -> "boot-state-key-mismatch"
      [] detail = "read failed"           -> "boot-state-unreadable"
      [] detail = "format is invalid"     -> "boot-state-not-companion"
      [] detail = "legacy v1 is unauthenticated"     -> "boot-state-migration-v1"
      [] detail = "legacy format has unknown fields" -> "boot-state-v1-refused"
      [] OTHER -> "boot-state-contents"

MutDescribeState(r) ==
    CASE r.sentence = "marker" -> "boot-state-migration-marker"
      [] r.sentence = "spent"  -> "boot-state-unclassified"
      [] OTHER -> stateBucket(r.detail)

describeState(r) ==
    CASE r.sentence = "marker" ->
            IF r.detail = "authentication failed" THEN "boot-state-migration-marker-key"
            ELSE "boot-state-migration-marker"
      [] r.sentence = "spent" -> "boot-state-migration-spent"
      [] r.sentence = "state" -> stateBucket(r.detail)
      [] OTHER -> "boot-state-unclassified"

describeAccess(r) ==
    CASE r.sentence = "write" -> "boot-docker-access-write-failed"
      [] r.sentence # "write" /\ r.detail = "authentication failed" -> "boot-docker-access-key-mismatch"
      [] OTHER -> "boot-docker-access-unreadable"

describe(r) ==
    CASE r.code = "none" -> "started"
      [] r.code = "QM_STATE_INVALID" -> describeState(r)
      [] r.code = "QM_DOCKER_ACCESS_INVALID" -> describeAccess(r)
      [] r.code = "EADDRINUSE" -> "boot-port-in-use"
      [] r.code = "EACCES" /\ r.sentence = "listen" -> "boot-port-denied"
      [] OTHER -> "boot-unexpected"

(* What a report without a fallback asks for has many outcomes: a file that
   could not be opened may hold anything, and a copy that is restored is good,
   a legacy one is of the legacy form again. *)
Advised(d, l) ==
    CASE l \in {"boot-state-key-mismatch", "boot-state-not-companion"} -> {[d EXCEPT !.panel = "absent"]}
      [] l = "boot-state-unreadable"   -> {[d EXCEPT !.panel = p] : p \in Panels \ {"absent", "unopenable"}}
      [] l = "boot-state-contents"     -> {[d EXCEPT !.panel = "good", !.jobs = j] : j \in Jobs \ {"odd"}}
      [] l = "boot-state-v1-refused"   -> {[d EXCEPT !.panel = p] : p \in {"v1", "good"}}
      [] l = "boot-state-migration-v1" -> {[d EXCEPT !.migrate = TRUE]}
      [] l \in {"boot-state-migration-marker", "boot-state-migration-marker-key", "boot-state-migration-spent"} ->
            {[d EXCEPT !.marker = "absent", !.migrate = TRUE]}
      [] l \in {"boot-docker-access-key-mismatch", "boot-docker-access-unreadable"} ->
            {[d EXCEPT !.access = "absent"]}
      [] l = "boot-docker-access-write-failed" -> {[d EXCEPT !.writes = "durable"]}
      [] l \in {"boot-port-in-use", "boot-port-denied"} -> {[d EXCEPT !.port = "free"]}
      [] OTHER -> {d}

-----------------------------------------------------------------------------

BootInit ==
    /\ dir \in Directories
    /\ label = "none"
    /\ followed = {} /\ again = {}

(* index.js: the process ends with the report, or serves. *)
Start ==
    LET result == Boots(dir) IN
    /\ dir' = result.dir
    /\ label' = describe(result.refusal)
    /\ UNCHANGED <<followed, again>>

FollowAdvice ==
    /\ label \notin {"none", "started"}
    /\ dir' \in Advised(dir, label)
    /\ followed' = followed \cup {label}
    /\ again' = again \cup ({label} \cap followed)
    /\ label' = "none"

(* The advice of a report helps: no report comes back after its advice was
   followed, so that the owner gets from any directory to a start without
   having to know more than the reports say.  Two reports are exceptions.  That
   of an unexpected error only asks for another start.  That of a state error
   without a label of its own is what becomes of a save whose durability is not
   confirmed: it says nothing of the save, which is in force, and the next start
   may meet the next one.  It comes back once, since a start over saved state
   has nothing left to save but the jobs. *)
NeverToldTwice ==
    /\ label \notin followed \ {"boot-unexpected", "boot-state-unclassified"}
    /\ label # "boot-state-unclassified" \/ label \notin again
=============================================================================
