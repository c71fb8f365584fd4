----------------------------- MODULE MobileCert -----------------------------
(***************************************************************************)
(* The certificate of the mobile listener and the origin it is bound to:   *)
(* cert.js, rotate-cert.js, clone.js, listener.js and repair.js of         *)
(* src/src/mobile.  The server and one command work on the same files.     *)
(*                                                                         *)
(* Every write, rename, removal and sync under the lock is a step; any of  *)
(* them may fail, and a process may end between any two.  That the lock    *)
(* excludes is what FileLock shows; the lock of a process that ended is    *)
(* broken.  A power cut undoes directory changes that were not yet synced, *)
(* the last ones first.  The mobile state is reduced to what is read here, *)
(* and its commits succeed or fail (MobileSidecar has the rest).  A pair   *)
(* is a number; expiry dates and unreadable files are left out.  Every     *)
(* event that takes a time stamp has one of its own.                       *)
(***************************************************************************)
EXTENDS Naturals, FiniteSets

CONSTANTS
    Origins, HostOf,                        \* the origins, and the host of each
    Careful,        \* the operator replaces no files while a pair is staged
    MaxGen, MaxFaults, MaxStops, MaxRuns, MaxMoves, MaxDevices   \* bounds

ASSUME OriginAssumption == HostOf \in [Origins -> STRING]

VARIABLES
    tls,            \* the tls directory
    limbo,          \* what it was at or since its last sync
    binding, bindingLimbo,      \* mobile-origin.json, and the same of it
    sidecar,        \* the mobile state
    epoch,          \* the authority record: its facts, and older ones not yet
                    \* known to be replaced
    origin,         \* QM_ADVERTISED_ORIGIN
    live,           \* the memory of the server
    lock, place,    \* who holds the lock; where each process is
    clock, gens, faults, stops, runs, moves,
    copied,         \* the pair this data directory was copied with, and QM_CLONE_AS_NEW
    rotated,        \* history: the pair of the last rotation reported
    owned           \* history: the last pair put by the owner

fileVars == <<tls, limbo, binding, bindingLimbo>>
countVars == <<clock, gens, faults, stops, runs, moves>>
histVars == <<copied, rotated, owned>>
vars == <<fileVars, sidecar, epoch, origin, live, lock, place, countVars, histVars>>

Server == "server"   Command == "command"   Nobody == "nobody"
Procs == {Server, Command}
Jobs  == {"classify", "rotate", "ensure", "bind", "approve"}

NoCert    == [id |-> 0, host |-> ""]
NoStaged  == [dir |-> FALSE, key |-> 0, cert |-> NoCert, rec |-> NoCert]
Empty     == [NoStaged EXCEPT !.dir = TRUE]
NoBinding == [origin |-> "", leaf |-> 0, boundAt |-> 0]

(* A record, mobile.json, names the certificate it was written with. *)
Generated(t) == t.cert.id # 0 /\ t.rec = t.cert
Matched(t)   == t.key = t.cert.id

MutComplete(staged) == staged.dir /\ staged.key # 0

(* readPendingGeneration: one whole staged set *)
Complete(staged) ==
    staged.dir /\ staged.key # 0 /\ staged.cert.id = staged.key /\ staged.rec = staged.cert

(* What settling makes of a directory when nothing fails. *)
Settled(t) ==
    IF Complete(t.staged)
    THEN [key |-> t.staged.key, cert |-> t.staged.cert, rec |-> t.staged.rec, staged |-> NoStaged]
    ELSE [t EXCEPT !.staged = NoStaged]

Spend == faults < MaxFaults /\ faults' = faults + 1

-----------------------------------------------------------------------------
(* Where a process goes. *)

At(p, step) == place[p].at = step
Idle == [at |-> "off", job |-> "none", gen |-> 0, facts |-> {}]

(* A job is begun by asking for the lock. *)
Goto(p, step) ==
    place' = IF step \in Jobs THEN [place EXCEPT ![p].at = "wait", ![p].job = step, ![p].gen = 0]
             ELSE IF step \in {"off", "serve"} THEN [place EXCEPT ![p] = [Idle EXCEPT !.at = step]]
             ELSE [place EXCEPT ![p].at = step]

MutContinues(p, outcome) ==
    LET job == place[p].job
    IN  CASE job = "classify" -> IF outcome = "owner" THEN "clearFlag" ELSE "rotate"
          [] p = Server /\ job = "rotate"   -> "clearFlag"
          [] p = Command /\ job = "rotate"  -> IF outcome = "ok" THEN "approve" ELSE "off"
          [] job = "ensure"  -> IF outcome = "ok" THEN "load" ELSE "off"
          [] job = "bind"    -> IF outcome = "ok" THEN "raise" ELSE "off"
          [] job = "approve" -> IF outcome = "ok" THEN "raise"
                                ELSE IF "originOnly" \in place[p].facts THEN "off" ELSE "revoke"

(* What follows a locked section: completeTlsReset, startMobileListener and
   rotate-cert.js. *)
Continues(p, outcome) ==
    LET job == place[p].job
    IN  CASE job = "classify" ->
                 IF outcome = "refused" THEN "off"
                 ELSE IF outcome = "owner" THEN "clearFlag" ELSE "rotate"
          [] p = Server /\ job = "rotate"   -> IF outcome = "refused" THEN "off" ELSE "clearFlag"
          [] p = Command /\ job = "rotate"  -> IF outcome = "ok" THEN "approve" ELSE "off"
          [] job = "ensure"  -> IF outcome = "ok" THEN "load" ELSE "off"
          [] job = "bind"    -> IF outcome = "ok" THEN "raise" ELSE "off"
          [] job = "approve" -> IF outcome = "ok" THEN "raise"
                                ELSE IF "originOnly" \in place[p].facts THEN "off" ELSE "revoke"

Leave(p, outcome) == lock' = Nobody /\ Goto(p, Continues(p, outcome))

(* A step in the tls directory is done, or fails and the section is left. *)
Changes(p, t, step) ==
    \/ /\ tls' = t /\ limbo' = limbo \cup {t}
       /\ Goto(p, step)
       /\ UNCHANGED <<lock, faults>>
    \/ /\ Leave(p, "refused") /\ Spend
       /\ UNCHANGED <<tls, limbo>>

MutSyncs(p, step) == UNCHANGED <<tls, limbo, lock, faults>> /\ Goto(p, step)

Syncs(p, step) ==
    /\ UNCHANGED tls
    /\ \/ limbo' = {tls} /\ Goto(p, step) /\ UNCHANGED <<lock, faults>>
       \/ Leave(p, "refused") /\ Spend /\ UNCHANGED limbo

OnlyTls == UNCHANGED <<binding, bindingLimbo, sidecar, epoch, origin, live, clock, gens,
                       stops, runs, moves, histVars>>

Enter(p) ==
    /\ At(p, "wait")
    /\ \/ lock = Nobody /\ lock' = p /\ Goto(p, "settle")
       \/ lock # Nobody /\ Goto(p, Continues(p, "refused")) /\ UNCHANGED lock
    /\ UNCHANGED <<fileVars, sidecar, epoch, origin, live, countVars, histVars>>

-----------------------------------------------------------------------------
(* settlePendingGeneration, which also installs what was staged just now. *)

Settle(p) ==
    /\ At(p, "settle") /\ place[p].job # "bind"
    /\ Goto(p, IF Complete(tls.staged) THEN "putKey"
               ELSE IF tls.staged.dir THEN "discard" ELSE "judge")
    /\ UNCHANGED <<fileVars, sidecar, epoch, origin, live, lock, countVars, histVars>>

(* rmSync takes the files one by one. *)
Discard(p) ==
    /\ At(p, "discard")
    /\ Changes(p, [tls EXCEPT !.staged = NoStaged], "syncDiscard")
    /\ OnlyTls

SyncDiscard(p) == At(p, "syncDiscard") /\ Syncs(p, "judge") /\ OnlyTls

PutKey(p) ==
    /\ At(p, "putKey") /\ OnlyTls
    /\ Changes(p, [tls EXCEPT !.key = tls.staged.key], "putCert")

PutCert(p) ==
    /\ At(p, "putCert") /\ OnlyTls
    /\ Changes(p, [tls EXCEPT !.cert = tls.staged.cert], "putRecord")

PutRecord(p) ==
    /\ At(p, "putRecord") /\ OnlyTls
    /\ Changes(p, [tls EXCEPT !.rec = tls.staged.rec], "syncLive")

SyncLive(p) == At(p, "syncLive") /\ Syncs(p, "cleanUp") /\ OnlyTls

CleanUp(p) ==
    /\ At(p, "cleanUp") /\ OnlyTls
    /\ \/ Changes(p, [tls EXCEPT !.staged = NoStaged], "syncGone")
       \/ /\ Complete(tls.staged)                   \* one of its files is gone
          /\ Changes(p, [tls EXCEPT !.staged.key = 0], "cleanUp")

SyncGone(p) ==
    /\ At(p, "syncGone") /\ OnlyTls
    /\ Syncs(p, IF place[p].gen = 0 THEN "judge" ELSE "installed")

-----------------------------------------------------------------------------
(* writeMaterial: the new pair is staged, and then installed as above. *)

(* A new pair for the advertised host. *)
NewCert(p) == [id |-> place[p].gen, host |-> HostOf[origin]]

Build(p) ==
    IF gens = MaxGen THEN Leave(p, "refused") /\ UNCHANGED gens
    ELSE /\ gens' = gens + 1
         /\ place' = [place EXCEPT ![p].at = "stage", ![p].gen = gens + 1]
         /\ UNCHANGED lock

Stage(p) ==
    /\ At(p, "stage") /\ OnlyTls
    /\ Changes(p, [tls EXCEPT !.staged = Empty], "stageKey")

StageKey(p) ==
    /\ At(p, "stageKey") /\ OnlyTls
    /\ Changes(p, [tls EXCEPT !.staged.key = place[p].gen], "stageCert")

StageCert(p) ==
    /\ At(p, "stageCert") /\ OnlyTls
    /\ Changes(p, [tls EXCEPT !.staged.cert = NewCert(p)], "stageRecord")

StageRecord(p) ==
    /\ At(p, "stageRecord") /\ OnlyTls
    /\ Changes(p, [tls EXCEPT !.staged.rec = NewCert(p)], "syncStaged")

SyncStaged(p) == At(p, "syncStaged") /\ Syncs(p, "settle") /\ OnlyTls

-----------------------------------------------------------------------------
(* Once settled, what each job finds and does. *)

Covers(cert) == cert.host = HostOf[origin]

JudgeClassify(p) ==
    /\ At(p, "judge") /\ place[p].job = "classify"
    /\ Leave(p, IF tls.cert = NoCert THEN "absent" ELSE IF Generated(tls) THEN "generated" ELSE "owner")
    /\ UNCHANGED <<fileVars, sidecar, epoch, origin, live, countVars, histVars>>

(* No certificate, or one that Companion made. *)
MayReplace(t) == t.cert = NoCert \/ Generated(t)

JudgeRotate(p) ==
    /\ At(p, "judge") /\ place[p].job = "rotate"
    /\ IF MayReplace(tls) THEN Build(p) ELSE Leave(p, "owner") /\ UNCHANGED gens
    /\ UNCHANGED <<fileVars, sidecar, epoch, origin, live, clock, faults, stops, runs, moves,
                   histVars>>

JudgeEnsure(p) ==
    /\ At(p, "judge") /\ place[p].job = "ensure"
    /\ \/ tls.cert = NoCert /\ tls.key = 0 /\ Build(p) /\ UNCHANGED live
       \/ /\ tls.cert # NoCert /\ Matched(tls) /\ Covers(tls.cert)
          /\ Leave(p, "ok") /\ live' = [live EXCEPT !.leaf = tls.cert.id]
          /\ UNCHANGED gens
       \/ /\ ~(tls.cert = NoCert /\ tls.key = 0)
          /\ ~(tls.cert # NoCert /\ Matched(tls) /\ Covers(tls.cert))
          /\ Leave(p, "refused") /\ UNCHANGED <<live, gens>>
    /\ UNCHANGED <<fileVars, sidecar, epoch, origin, clock, faults, stops, runs, moves,
                   histVars>>

(* The end of rotateLocked and of ensureLocked for a new pair.  Removing the
   binding is not synced, and that it failed is not noticed. *)
Installed(p) ==
    /\ At(p, "installed") /\ Leave(p, "ok")
    /\ IF place[p].job = "rotate"
       THEN /\ \/ binding' = NoBinding /\ bindingLimbo' = bindingLimbo \cup {NoBinding} /\ UNCHANGED faults
               \/ UNCHANGED <<binding, bindingLimbo>> /\ Spend
            /\ rotated' = IF p = Command THEN place[p].gen ELSE rotated
            /\ UNCHANGED live
       ELSE /\ live' = [live EXCEPT !.leaf = place[p].gen]
            /\ UNCHANGED <<binding, bindingLimbo, faults, rotated>>
    /\ UNCHANGED <<tls, limbo, sidecar, epoch, origin, clock, gens, stops, runs, moves, copied, owned>>

(* writeBinding: it fails, or is seen but not synced, or is done. *)
WriteBinding(p, b) ==
    \/ Leave(p, "refused") /\ Spend /\ UNCHANGED <<binding, bindingLimbo>>
    \/ /\ binding' = b /\ bindingLimbo' = bindingLimbo \cup {b}
       /\ Leave(p, "refused") /\ Spend
    \/ /\ binding' = b /\ bindingLimbo' = {b}
       /\ Leave(p, "ok") /\ UNCHANGED faults

JudgeApprove(p) ==
    /\ At(p, "judge") /\ place[p].job = "approve"
    /\ IF tls.cert = NoCert \/ (Matched(tls) /\ Covers(tls.cert))
       THEN /\ clock' = clock + 1
            /\ WriteBinding(p, [origin |-> origin, leaf |-> tls.cert.id, boundAt |-> clock + 1])
       ELSE Leave(p, "refused") /\ UNCHANGED <<binding, bindingLimbo, clock, faults>>
    /\ UNCHANGED <<tls, limbo, sidecar, epoch, origin, live, gens, stops, runs, moves, histVars>>

(* bindLocked.  A change is refused while there may be grants, except that one
   which came with another leaf is adopted. *)
BindRefuses(b, leaf, grants, everBound) ==
    /\ b.origin # origin /\ grants
    /\ IF b = NoBinding THEN everBound ELSE b.leaf \in {0, leaf}

AdoptedAt(b, grants) == IF b # NoBinding /\ grants THEN clock + 1 ELSE b.boundAt

Bind ==
    LET facts  == place[Server].facts
        grants == facts \cap {"devices", "seen"} # {}
        at     == IF binding.origin = origin THEN binding.boundAt ELSE AdoptedAt(binding, grants)
    IN  /\ At(Server, "settle") /\ place[Server].job = "bind"
        /\ IF BindRefuses(binding, live.leaf, grants, "everBound" \in facts)
           THEN Leave(Server, "refused") /\ UNCHANGED <<binding, bindingLimbo, clock, faults, live>>
           ELSE /\ IF binding.origin = origin /\ binding.leaf = live.leaf
                   THEN Leave(Server, "ok") /\ UNCHANGED <<binding, bindingLimbo, faults>>
                   ELSE WriteBinding(Server, [origin |-> origin, leaf |-> live.leaf, boundAt |-> at])
                /\ live' = [live EXCEPT !.cut = at]
                /\ clock' = IF at > clock THEN at ELSE clock
        /\ UNCHANGED <<tls, limbo, sidecar, epoch, origin, gens, stops, runs, moves, histVars>>

-----------------------------------------------------------------------------
(* The start of the server: prepareMobilePlane and startMobileListener. *)

(* A commit of the mobile state syncs the directory the binding is in, too. *)
SyncsBinding == bindingLimbo' = {binding}

Devices == IF sidecar.devices # {} THEN {"devices"} ELSE {}

(* A new nonce makes a new sidecar, with the reset of the certificate owed. *)
Boot ==
    /\ At(Server, "off")
    /\ live' = [leaf |-> 0, cut |-> 0]
    /\ \/ /\ copied.nonce /\ copied' = [copied EXCEPT !.nonce = FALSE]
          /\ sidecar' = [reset |-> TRUE, devices |-> {}]
          /\ \/ Goto(Server, "classify") /\ SyncsBinding /\ UNCHANGED faults
             \/ Goto(Server, "off") /\ Spend /\ UNCHANGED bindingLimbo   \* written, and not known to be
       \/ /\ copied.nonce /\ Spend /\ Goto(Server, "off")
          /\ UNCHANGED <<sidecar, copied, bindingLimbo>>
       \/ /\ ~copied.nonce
          /\ IF sidecar.reset THEN Goto(Server, "classify")
             ELSE place' = [place EXCEPT ![Server] =
                     [at |-> "wait", job |-> "ensure", gen |-> 0, facts |-> Devices]]
          /\ UNCHANGED <<sidecar, copied, faults, bindingLimbo>>
    /\ UNCHANGED <<tls, limbo, binding, epoch, origin, lock, clock, gens, stops, runs, moves, rotated, owned>>

ClearFlag ==
    /\ At(Server, "clearFlag")
    /\ \/ /\ sidecar' = [sidecar EXCEPT !.reset = FALSE]
          /\ place' = [place EXCEPT ![Server] =
                 [at |-> "wait", job |-> "ensure", gen |-> 0, facts |-> Devices]]
          /\ SyncsBinding /\ UNCHANGED faults
       \/ Goto(Server, "off") /\ Spend /\ UNCHANGED <<sidecar, bindingLimbo>>
    /\ UNCHANGED <<tls, limbo, binding, epoch, origin, live, lock, clock, gens, stops, runs, moves, histVars>>

(* The devices are those of the memory copy; the record is read now. *)
Load ==
    /\ At(Server, "load")
    /\ place' = [place EXCEPT ![Server] =
           [at |-> "wait", job |-> "bind", gen |-> 0,
            facts |-> (place[Server].facts \cap {"devices"}) \cup (epoch.facts \cap {"seen", "everBound"})]]
    /\ UNCHANGED <<fileVars, sidecar, epoch, origin, live, lock, countVars, histVars>>

(* A record that cannot be raised is not noticed, nor is one whose rename was
   not synced.  Only the syncs of its own writes are counted for the record. *)
RaisedBy(facts) ==
    LET next == epoch.facts \cup facts
    IN  \/ /\ epoch' = IF next = epoch.facts THEN epoch ELSE [facts |-> next, older |-> {}]
           /\ UNCHANGED faults
        \/ Spend /\ epoch' \in {epoch, [facts |-> next, older |-> epoch.older \cup {epoch.facts}]}

Raise(p) ==
    /\ At(p, "raise") /\ Goto(p, IF p = Server THEN "serve" ELSE "revoke")
    /\ RaisedBy({"everBound"} \cup {f \in {"seen"} : p = Server /\ "devices" \in place[p].facts})
    /\ UNCHANGED <<fileVars, sidecar, origin, live, lock, clock, gens, stops, runs, moves, histVars>>

Pair ==
    /\ At(Server, "serve") /\ Cardinality(sidecar.devices) < MaxDevices
    /\ clock' = clock + 1 /\ SyncsBinding
    /\ sidecar' = [sidecar EXCEPT !.devices = @ \cup
           {[leaf |-> live.leaf, origin |-> origin, at |-> clock + 1]}]
    /\ RaisedBy({"seen"})
    /\ UNCHANGED <<tls, limbo, binding, origin, live, lock, place, gens, stops, runs, moves, histVars>>

Shutdown ==
    /\ At(Server, "serve") /\ Goto(Server, "off")
    /\ UNCHANGED <<fileVars, sidecar, epoch, origin, live, lock, countVars, histVars>>

MutAccepted(d) == d.leaf = live.leaf

(* originRefusal of devices.js *)
Accepted(d) == d.leaf = live.leaf /\ (live.cut = 0 \/ d.at >= live.cut)

-----------------------------------------------------------------------------
(* rotate-cert.js --confirm *)

(* An owner's certificate and another origin, read without the lock. *)
OriginOnly ==
    /\ tls.cert # NoCert /\ ~Generated(tls) /\ ~tls.staged.dir
    /\ binding # NoBinding /\ binding.origin # origin

RunCommand ==
    /\ At(Command, "off") /\ runs < MaxRuns /\ runs' = runs + 1
    /\ place' = [place EXCEPT ![Command] =
           [at |-> "wait", gen |-> 0,
            job   |-> IF OriginOnly THEN "approve" ELSE "rotate",
            facts |-> {f \in {"originOnly"} : OriginOnly}]]
    /\ UNCHANGED <<fileVars, sidecar, epoch, origin, live, lock, clock, gens, faults, stops, moves,
                   histVars>>

Revoke ==
    /\ At(Command, "revoke") /\ Goto(Command, "off")
    /\ \/ sidecar' = [sidecar EXCEPT !.devices = {}] /\ SyncsBinding /\ UNCHANGED faults
       \/ Spend /\ UNCHANGED <<sidecar, bindingLimbo>>
    /\ UNCHANGED <<tls, limbo, binding, epoch, origin, live, lock, clock, gens, stops, runs, moves, histVars>>

-----------------------------------------------------------------------------
(* What happens to the container and its volume. *)

AllOff == \A p \in Procs : At(p, "off")

End(p) ==
    /\ ~At(p, "off") /\ stops < MaxStops /\ stops' = stops + 1
    /\ place' = [place EXCEPT ![p] = Idle]
    /\ lock' = IF lock = p THEN Nobody ELSE lock
    /\ UNCHANGED <<fileVars, sidecar, epoch, origin, live, clock, gens, faults, runs, moves, histVars>>

PowerCut ==
    /\ stops < MaxStops /\ stops' = stops + 1
    /\ place' = [p \in Procs |-> Idle] /\ lock' = Nobody
    /\ tls' \in limbo /\ limbo' = {tls'}
    /\ binding' \in bindingLimbo /\ bindingLimbo' = {binding'}
    /\ epoch' \in {[facts |-> facts, older |-> {}] : facts \in {epoch.facts} \cup epoch.older}
    /\ UNCHANGED <<sidecar, origin, live, clock, gens, faults, runs, moves, histVars>>

Moves == AllOff /\ moves < MaxMoves /\ moves' = moves + 1

MoveOrigin ==
    /\ Moves /\ origin' \in Origins
    /\ UNCHANGED <<fileVars, sidecar, epoch, live, lock, place, clock, gens, faults, stops, runs,
                   histVars>>

(* Both files, for the advertised host; the record of Companion stays. *)
PutOwnerMaterial ==
    /\ Moves /\ gens < MaxGen /\ gens' = gens + 1
    /\ Careful => tls.staged = NoStaged
    /\ tls' = [tls EXCEPT !.key = gens + 1, !.cert = [id |-> gens + 1, host |-> HostOf[origin]]]
    /\ limbo' = {tls'} /\ owned' = gens + 1
    /\ UNCHANGED <<binding, bindingLimbo, sidecar, epoch, origin, live, lock, place, clock,
                   faults, stops, runs, copied, rotated>>

(* From here on the copy of the volume is looked at, with a new nonce. *)
CopyVolume ==
    /\ Moves /\ ~copied.nonce
    /\ copied' = [leaf |-> IF Generated(Settled(tls)) THEN Settled(tls).cert.id ELSE 0, nonce |-> TRUE]
    /\ UNCHANGED <<fileVars, sidecar, epoch, origin, live, lock, place, clock, gens, faults, stops,
                   runs, rotated, owned>>

-----------------------------------------------------------------------------
Init ==
    /\ tls = [key |-> 0, cert |-> NoCert, rec |-> NoCert, staged |-> NoStaged]
    /\ limbo = {tls}
    /\ binding = NoBinding /\ bindingLimbo = {NoBinding}
    /\ sidecar = [reset |-> FALSE, devices |-> {}]
    /\ epoch = [facts |-> {}, older |-> {}]
    /\ origin \in Origins
    /\ live = [leaf |-> 0, cut |-> 0]
    /\ lock = Nobody /\ place = [p \in Procs |-> Idle]
    /\ clock = 0 /\ gens = 0 /\ faults = 0 /\ stops = 0 /\ runs = 0 /\ moves = 0
    /\ copied = [leaf |-> 0, nonce |-> FALSE] /\ rotated = 0 /\ owned = 0

Locked(p) ==
    \/ Enter(p) \/ Settle(p) \/ Discard(p) \/ SyncDiscard(p)
    \/ PutKey(p) \/ PutCert(p) \/ PutRecord(p) \/ SyncLive(p) \/ CleanUp(p) \/ SyncGone(p)
    \/ Stage(p) \/ StageKey(p) \/ StageCert(p) \/ StageRecord(p) \/ SyncStaged(p)
    \/ JudgeClassify(p) \/ JudgeRotate(p) \/ JudgeEnsure(p) \/ Installed(p) \/ JudgeApprove(p)

Next ==
    \/ \E p \in Procs : Locked(p) \/ Raise(p) \/ End(p)
    \/ Bind \/ Boot \/ ClearFlag \/ Load \/ Pair \/ Shutdown
    \/ RunCommand \/ Revoke
    \/ PowerCut \/ MoveOrigin \/ PutOwnerMaterial \/ CopyVolume

Spec == Init /\ [][Next]_vars

-----------------------------------------------------------------------------
(* Properties *)

(* What settling makes of the files, now or after a power cut, is one pair, key
   and certificate of one another, that is replaced as a whole by newer ones:
   settlePendingGeneration and writeMaterial implement the atomic replacement
   the docs promise, wherever they are interrupted. *)
PairIn(t) == IF Matched(Settled(t)) THEN Settled(t).cert.id ELSE 0

Abstract == INSTANCE AtomicPair WITH
    pair <- PairIn(tls), possible <- {PairIn(t) : t \in limbo \cup {tls}}

ImplementsAtomicPair == Abstract!Spec

(* A rotation that rotate-cert.js has reported is not undone by a power cut. *)
RotationIsDurable == \A t \in limbo \cup {tls} : Settled(t).cert.id >= rotated

(* Once the owner has put a certificate of their own, neither the server nor the
   command ever touches it, whatever was interrupted before. *)
OwnerMaterialIsKept ==
    owned # 0 => \A t \in limbo \cup {tls} : t.cert.id = owned /\ t.key = owned /\ ~Complete(t.staged)

(* What the owner has put or was told has been put in place stays there. *)
ReportedPairStays == RotationIsDurable /\ OwnerMaterialIsKept

(* A phone that is let in was paired at the address that is served now, except
   while the server has yet to be restarted after a rotation. *)
PhonesFollowTheirOrigin ==
    At(Server, "serve") /\ live.leaf = tls.cert.id => \A d \in sidecar.devices : Accepted(d) => d.origin = origin

(* A copy of the volume never serves the generated certificate it was copied
   with, wherever the reset was interrupted. *)
CloneNeverServesCopiedLeaf ==
    At(Server, "serve") /\ copied.leaf # 0 => live.leaf # copied.leaf

-----------------------------------------------------------------------------
(* repair.js *)

(* It exits with 0. *)
RepairSaysReady ==
    /\ lock = Nobody /\ ~tls.staged.dir
    /\ tls.cert # NoCert /\ tls.key # 0 /\ Matched(tls) /\ Covers(tls.cert)
    /\ ~sidecar.reset

(* docs/recovery.md: with code 0 "the configured mobile listener would start".
   The origin binding is not among what repair.js looks at. *)
ReadyListenerStarts ==
    AllOff /\ ~copied.nonce /\ RepairSaysReady =>
        ~BindRefuses(binding, tls.cert.id, sidecar.devices # {} \/ "seen" \in epoch.facts,
                     "everBound" \in epoch.facts)

(* cert.js on the binding that a rotation removed: "clone reset leaves it for
   next-start adoption".  The copied authority record makes that a refusal. *)
ClonedOriginIsAdopted ==
    At(Server, "settle") /\ place[Server].job = "bind" /\ copied.leaf \notin {0, live.leaf}
    /\ binding = NoBinding /\ sidecar.devices = {} /\ moves = 1 /\ runs = 0 =>
        ~BindRefuses(binding, live.leaf, place[Server].facts \cap {"devices", "seen"} # {},
                     "everBound" \in place[Server].facts)
=============================================================================
