------------------------------ MODULE Updates ------------------------------
(***************************************************************************)
(* The check for newer images (src/src/registry.js, updates.js, the        *)
(* handlers of server.js and the job of cron.js): what is asked of which   *)
(* registry, the digests kept for UPDATE_CACHE_MS, the owner's dismissals  *)
(* and the number the panel shows.                                         *)
(*                                                                         *)
(* The digests a registry has for a reference are numbered in the order    *)
(* they were pushed; 0 is no digest.  A reference takes up to three        *)
(* requests, each given up after REQUEST_TIMEOUT_MS: MaxWait is the time   *)
(* they take at most, and the clock goes on while they are under way.  Of  *)
(* the references of the containers a check asks AtOnce at a time.         *)
(***************************************************************************)
EXTENDS Integers, Sequences, FiniteSets

CONSTANTS Refs, AtOnce, CacheAge, MaxWait, MaxNow, MaxMoves, MaxChecks

ASSUME UpdatesAssumption ==
    /\ AtOnce \in Nat \ {0} /\ CacheAge \in Nat \ {0} /\ MaxWait \in Nat /\ MaxNow \in Nat
    /\ MaxMoves \in Nat \ {0} /\ MaxChecks \in Nat \ {0}

VARIABLES time,      \* Date.now()
          registry,  \* the digest each registry answers with
          left,      \* when each of its digests was replaced
          images,    \* repoDigests of the local image with the tag; {} for none
          cache,     \* registry.js: cache, digest 0 for no entry
          dismissed, \* the owner's dismissals, 0 for none
          count,     \* updates.js: lastCount, NotYet for null
          checks     \* one after the other, those that ended with what they answered

UpdatesVars == <<time, registry, left, images, cache, dismissed, count, checks>>

Digests == 0 .. MaxMoves
NotYet == -1
Nothing == [ref \in Refs |-> 0]
Empty == [ref \in Refs |-> [digest |-> 0, at |-> 0]]

(* A check that began at `from` with these images: the references it has yet
   to take up, those it asked about (when, and the digest of that moment) and
   the digests it got. *)
CheckOf(stage, fleet, from, todo, imgs) ==
    [stage |-> stage, fleet |-> fleet, from |-> from, todo |-> todo, sent |-> Nothing,
     since |-> Nothing, got |-> Nothing, imgs |-> imgs]
Idle(stage) == CheckOf(stage, FALSE, 0, {}, [ref \in Refs |-> {}])

UpdatesInit ==
    /\ time = 0
    /\ registry = [ref \in Refs |-> 1]
    /\ left = [ref \in Refs |-> [d \in Digests |-> 0]]
    /\ images \in [Refs -> {{}, {1}}]
    /\ cache = Empty /\ dismissed = Nothing /\ count = NotYet
    /\ checks = [slot \in 1 .. MaxChecks |-> Idle("none")]

-----------------------------------------------------------------------------
(* Rows *)

MutFresh(entry) == entry.digest # 0 /\ time - entry.at <= CacheAge
Fresh(entry) == entry.digest # 0 /\ time - entry.at < CacheAge

findLocal(ref, imgs) == imgs[ref] # {}

compare(ref, remote, imgs) ==
    [image |-> ref, remoteDigest |-> remote,
     status |-> IF remote \in imgs[ref] THEN "current" ELSE "update"]

cachedUpdates(entries, imgs) ==
    {compare(ref, entries[ref].digest, imgs) :
        ref \in {r \in Refs : findLocal(r, imgs) /\ Fresh(entries[r])}}

(* A dismissal is for one digest. *)
applyDismissals(rows, gone) ==
    {row \in rows : row.status = "update" /\ gone[row.image] # row.remoteDigest}
liveUpdateCount(rows, gone) == Cardinality(applyDismissals(rows, gone))

(* updatesState, for the page, the dashboard and the live channel *)
updatesState(gone) == count' = liveUpdateCount(cachedUpdates(cache, images), gone)

-----------------------------------------------------------------------------
(* Checks *)

(* What a check has so far, and when it ends; an answer that failed gives a
   row of status "unknown". *)
Results(check) == {compare(ref, check.got[ref], check.imgs) :
                     ref \in {r \in Refs : findLocal(r, check.imgs) /\ check.got[r] # 0}}

Waits(check) == {ref \in Refs : check.since[ref] # 0}
IsOver(check) == check.todo = {} /\ Waits(check) = {}
Ended(check) == IF IsOver(check) THEN [check EXCEPT !.stage = "done"] ELSE check

(* remoteDigest: an entry that is fresh spares the request.  AtOnce workers
   take up one reference after the other; each goes on until it has to wait. *)
Uncached(refs, entries) == {ref \in refs : ~Fresh(entries[ref])}
Taken(check, entries) ==
    {refs \in SUBSET check.todo :
        LET busy == Cardinality(Uncached(refs, entries)) + Cardinality(Waits(check))
        IN  busy = AtOnce \/ (busy < AtOnce /\ refs = check.todo)}

TakeUp(check, refs, entries) ==
    LET asked == Uncached(refs, entries)
    IN  [stage |-> check.stage, fleet |-> check.fleet, from |-> check.from, imgs |-> check.imgs,
         todo |-> check.todo \ refs,
         sent |-> [ref \in Refs |-> IF ref \in asked THEN time ELSE check.sent[ref]],
         since |-> [ref \in Refs |-> IF ref \in asked THEN registry[ref] ELSE check.since[ref]],
         got |-> [ref \in Refs |-> IF ref \in refs \ asked THEN entries[ref].digest
                                   ELSE check.got[ref]]]

(* GET /api/updates?refresh=1 clears the cache and then lists containers and
   images; the answers of other checks may come in between. *)
Free(slot) ==
    checks[slot].stage = "none" /\ \A other \in 1 .. slot - 1 : checks[other].stage # "none"

Refresh(slot) ==
    /\ Free(slot)
    /\ cache' = Empty
    /\ checks' = [checks EXCEPT ![slot] = Idle("listing")]
    /\ UNCHANGED <<time, registry, left, images, dismissed, count>>

(* The end of a check of everything sets the number, with the dismissals of
   that moment. *)
SetsCount(check) ==
    count' = IF check.fleet /\ check.stage = "done" THEN liveUpdateCount(Results(check), dismissed)
             ELSE count

checkUpdates == CheckOf("asking", TRUE, time, {ref \in Refs : findLocal(ref, images)}, images)

(* GET /api/updates once the lists are there, and the job, which clears the
   cache only then.  Every digest may be in the cache already. *)
CheckFleet(slot, job) ==
    LET entries == IF job THEN Empty ELSE cache
    IN  /\ Free(slot) \/ (checks[slot].stage = "listing" /\ ~job)
        /\ cache' = entries
        /\ \E refs \in Taken(checkUpdates, entries) :
              LET check == Ended(TakeUp(checkUpdates, refs, entries))
              IN  checks' = [checks EXCEPT ![slot] = check] /\ SetsCount(check)
        /\ UNCHANGED <<time, registry, left, images, dismissed>>

(* POST /api/updates/check: one reference, whatever the cache has. *)
checkOneUpdate(ref) ==
    TakeUp(CheckOf("asking", FALSE, time, {}, images), {ref}, Empty)

CheckOne(slot, ref) ==
    /\ Free(slot)
    /\ checks' = [checks EXCEPT ![slot] = checkOneUpdate(ref)]
    /\ UNCHANGED <<time, registry, left, images, cache, dismissed, count>>

Answered(check, ref, d) ==
    [stage |-> check.stage, fleet |-> check.fleet, from |-> check.from, imgs |-> check.imgs,
     todo |-> check.todo,
     sent |-> [check.sent EXCEPT ![ref] = 0], since |-> [check.since EXCEPT ![ref] = 0],
     got |-> [check.got EXCEPT ![ref] = d]]

(* The answer: a digest that the registry had since it was asked, or none
   (no token, an error, no answer in time).  It is stamped when it comes in,
   and the worker goes on with the references that are left. *)
Answer(slot, ref, d) ==
    LET entries == IF d = 0 THEN cache ELSE [cache EXCEPT ![ref] = [digest |-> d, at |-> time]]
        answered == Answered(checks[slot], ref, d)
    IN  /\ checks[slot].since[ref] # 0
        /\ d = 0 \/ d \in checks[slot].since[ref] .. registry[ref]
        /\ cache' = entries
        /\ \E refs \in Taken(answered, entries) :
              LET check == Ended(TakeUp(answered, refs, entries))
              IN  checks' = [checks EXCEPT ![slot] = check] /\ SetsCount(check)
        /\ UNCHANGED <<time, registry, left, images, dismissed>>

(* GET /api/updates?cached=1, the dashboard, the live channel *)
ReadCached ==
    /\ updatesState(dismissed)
    /\ UNCHANGED <<time, registry, left, images, cache, dismissed, checks>>

(* POST /api/updates/dismiss: the digest is the one in the cache at the time. *)
dismissRefs(refs) ==
    LET Wanted == {row \in cachedUpdates(cache, images) :
                     row.status = "update" /\ row.image \in refs}
    IN  [ref \in Refs |-> IF \E row \in Wanted : row.image = ref
                          THEN cache[ref].digest ELSE dismissed[ref]]

Dismiss(refs) ==
    /\ dismissed' = dismissRefs(refs)
    /\ updatesState(dismissRefs(refs))
    /\ UNCHANGED <<time, registry, left, images, cache, checks>>

-----------------------------------------------------------------------------
(* Around the program *)

(* A pull moves the tag to what the registry has by then; an image that was
   built here has no digest, and nobody pulls it. *)
Pull(ref) ==
    /\ findLocal(ref, images)
    /\ images' = [images EXCEPT ![ref] = {registry[ref]}]
    /\ UNCHANGED <<time, registry, left, cache, dismissed, count, checks>>

Push(ref) ==
    /\ registry[ref] < MaxMoves
    /\ registry' = [registry EXCEPT ![ref] = @ + 1]
    /\ left' = [left EXCEPT ![ref][registry[ref]] = time]
    /\ UNCHANGED <<time, images, cache, dismissed, count, checks>>

(* No request is waited for longer than MaxWait. *)
Tick ==
    /\ time < MaxNow
    /\ \A slot \in 1 .. MaxChecks : \A ref \in Waits(checks[slot]) :
           time < checks[slot].sent[ref] + MaxWait
    /\ time' = time + 1
    /\ UNCHANGED <<registry, left, images, cache, dismissed, count, checks>>

UpdatesNext ==
    \/ \E slot \in 1 .. MaxChecks : Refresh(slot)
    \/ \E slot \in 1 .. MaxChecks, job \in BOOLEAN : CheckFleet(slot, job)
    \/ \E slot \in 1 .. MaxChecks, ref \in Refs : CheckOne(slot, ref)
    \/ \E slot \in 1 .. MaxChecks, ref \in Refs, d \in Digests : Answer(slot, ref, d)
    \/ \E refs \in SUBSET Refs : Dismiss(refs)
    \/ \E ref \in Refs : Pull(ref) \/ Push(ref)
    \/ ReadCached \/ Tick

UpdatesSpec == UpdatesInit /\ [][UpdatesNext]_UpdatesVars
-----------------------------------------------------------------------------
(* Every variable has its type. *)
UpdatesTypeOK ==
    /\ time \in Nat
    /\ registry \in [Refs -> 1 .. MaxMoves]
    /\ left \in [Refs -> [Digests -> Nat]]
    /\ images \in [Refs -> SUBSET Digests]
    /\ cache \in [Refs -> [digest : Digests, at : Nat]]
    /\ dismissed \in [Refs -> Digests]
    /\ count \in Nat \cup {NotYet}
    /\ checks \in [1 .. MaxChecks -> [stage : {"none", "listing", "asking", "done"}, fleet : BOOLEAN,
                                      from : Nat, todo : SUBSET Refs, sent : [Refs -> Nat],
                                      since : [Refs -> Digests], got : [Refs -> Digests],
                                      imgs : [Refs -> SUBSET Digests]]]

(* The registry had digest d at the time t or later. *)
HeldSince(ref, d, t) == d = registry[ref] \/ left[ref][d] >= t

(* However checks overlap, wait, come back out of order or meet a cleared
   cache: what is shown from the cache is what the registry had less than the
   age of the cache and one wait ago, and at most one wait before the time it
   is shown with; what the check of one reference shows, the registry had since
   the owner asked; and what a check of everything shows when it ends, it had
   less than the age of the cache and one wait before the check began. *)
RowsAreRecent ==
    /\ \A row \in cachedUpdates(cache, images) :
          /\ HeldSince(row.image, row.remoteDigest, time + 1 - CacheAge - MaxWait)
          /\ HeldSince(row.image, row.remoteDigest, cache[row.image].at - MaxWait)
    /\ \A slot \in 1 .. MaxChecks : \A row \in Results(checks[slot]) :
          HeldSince(row.image, row.remoteDigest,
                    IF checks[slot].fleet THEN checks[slot].from + 1 - CacheAge - MaxWait
                    ELSE checks[slot].from)
=============================================================================
