# Verification of qm_companion

TLA+ models of the parts of qm_companion that keep state, the TLC runs that check
them, and TLAPS proofs about them. Paths below are relative to the repository
(`src/src/lock.js` is the implementation file `src/lock.js` of the project).
`PROJECT.json` lists the components, the runs, the mutant that breaks each property,
the source lines behind each definition (`map`), the hazards, the findings and the
theorems.

    tlc -workers 2 -config Enrolment.cfg MCEnrolment     # one run
    tlapm MobileSidecarProofs.tla                        # the proofs of one module

## 1. The system

qm_companion is a single-process Node server that runs in a container beside Docker.
It shows and manages containers, deploys compose files, discovers services and their
keys, schedules jobs, sends push alerts, hands out key bundles, and lets a phone be
paired with it over a TLS listener of its own. Two maintenance commands
(`rotate-cert.js`, `repair.js`) share its data volume, either in its PID namespace
(`docker exec`) or in one of their own (`docker compose run`). An all-in-one image adds
a supervisor that starts a Docker socket proxy and the server.

Within the server everything between two `await`s is atomic. What makes it hard:

* the **awaits** (sealing a grant, a Docker request, a sweep, a push, a job): every
  other handler may run there;
* the **commands**, which write the same files from another process;
* **files**: a write may fail, may be renamed into place without its directory being
  synced (it is then visible now and may be gone after a power cut), and an operator may
  put an older copy back; several files are written one after the other;
* the **network**: requests and answers of phones, browsers, Docker, registries and the
  push service are lost, repeated, late and reordered;
* **time**: expiries, grace periods, caches, retries, locks abandoned by age;
* **two readings of one thing**: the linter and the parser, the repair command and the
  next start, the check for images and the pull, the report of a failed start and the
  failure itself.

| part | state | operations | meets | correct when | module |
|---|---|---|---|---|---|
| interprocess lock `lock.js` | lock file, per-process depth | `withFileLock`, `breakAbandonedLock` | server and commands, through the file system | one holder; an abandoned lock is broken | FileLock |
| mobile sidecar `mobile/store.js`, `epoch.js` | sidecar file, in-memory copy, durability flag, authority record | load, transaction, commit, raise, rollback guard | lock, every mobile handler, the commands | an acknowledged revocation survives restarts, power cuts and restored backups | MobileStore, MobileSidecar |
| repair `mobile/repair.js` | none; reads every file | diagnose, report, exit code | all loaders, the next start | of what it looks into, what it reports is what the next start does | Repair |
| device tokens `mobile/devices.js`, `token-family.js` | families of tokens in the sidecar | refresh, authenticate, revoke, forget, bind to a certificate | phones, owner pages, rotation | one successor per grant, closed stays closed, lost answers recoverable | DeviceTokens |
| enrolment `mobile/enrolment*.js`, `owner-routes.js` | pending enrolments in memory, spent keys and devices in the sidecar | create, claim, approve (await), reject, delete, retrieve, acknowledge, sweep | owner, phones, sidecar | only the approved phone is paired, in time, once | Enrolment |
| transfers `qmbackup.js`, `server.js` 372-543, 694-733 | one-time transfers, drafts of forms | post, reissue, redeem, download, evict | discovery, browser, phone | one live transfer per form, one way out of it | Pairing |
| certificates `mobile/cert.js`, `origin.js`, `rotate-cert.js`, `listener.js`, `clone.js` | staged and live files, manifest, binding of the origin | ensure, approve, bind, rotate, recover, reset a clone | lock, sidecar | cut anywhere, one whole pair; phones follow the origin they approved | MobileCert, AtomicPair |
| scheduler `cron.js`, access mode `docker-access.js` | jobs, queue, run claims; mode file | run, edit, suspend, set mode, tick | owner state, Docker | served once, edits kept, no job above the mode comes to life | Scheduler, StateFile |
| owner state `store.js` | sections of one sealed file, migration marker | load, migrate, commit, writers of sections | every page | what is reported saved is kept; what a writer saves the loader takes | StateFile, OwnerAuth, Sections |
| owner authentication `auth.js`, `auth-plane.js`, `totp.js`, `setup-token.js` | owner record; sessions, tickets, throttles in memory | set up, sign in, second factor, change, sign out | owner state, router | sessions follow the credentials, codes work once, guesses are bounded | OwnerAuth |
| routing `server.js`, `mobile/owner-plane.js`, `routes.js` | none | which request reaches which handler with which proof | sessions, listeners | the panel is the owner's | Panel |
| live channel `hub.js`; `ui/runtime.js`, `ui/pages/dashboard.js` | clients, topic with timer and payload; the page's stream, retry, poll, sleep | subscribe, leave, poll; open, fail, retry, hide, draw | browser tabs, Docker | polls only for listeners; a page draws every state | Hub, LiveView |
| Docker operations `docker.js`, `compose.js`, `protect.js` | the daemon's containers | start, stop, restart, remove, update, prune, redeploy, deploy | daemon, scheduler | Companion is left alone, a service keeps a container, reports are true | ContainerUpdate, Stacks |
| compose files `compose.js`, `lint.js` | none | substitute, parse, refuse, build, lint | deployment, editor | lint foresees the refusals it has a rule for | ComposeFile |
| registry `registry.js`, `updates.js` | digests, dismissals, number | check one or all, clear, dismiss | Docker, registries | no row older than the cache's age and a wait, of the image a pull brings | Updates, ImageRefs |
| discovery `detect.js`, `probe.js`, `discovery-cache.js`, `mint.js`, `keyladder.js`, `build.js` | sweep under way, rows, stored keys | sweep, show, read, make, paste, forget, build | Docker, folders, services | only what stood is used; keys stay where they belong | Discovery |
| alerts `alerts/*` | sources, registrations, receipts, history | register, intake, deliver, retry, check receipts, rotate | device revocation, push service | working registrations stay, ended ones are dead | Alerts, StateFile |
| start `boot-guard.js`, `server.js`, `index.js` | the data directory | load everything, report a refusal | all loaders | following the reports leads to a start | Boot |
| all-in-one image `all-in-one/*` | two children | start, wait, stop | kernel, server | no container with one process of two | AllInOne |

`PROJECT.json` has the full list of components with what of each is left out, and 40
hazards, each at its line with the properties that would catch it or the reason why none
does.

## 2. The modules

`MC*` modules hold the model values, symmetry sets and sampled inputs of the runs. There is
no RECURSIVE operator anywhere, so that any module can be proved about.

    MobileStore <- MobileSidecar           <- MobileSidecarProofs
    FileLock, Repair, Boot <- AllInOne     <- MobileSidecarProofs
    MobileStore <- DeviceTokens            <- DeviceTokensProofs
    MobileStore <- Enrolment; Pairing      <- EnrolmentProofs
    MobileCert --implements--> AtomicPair  <- MobileCertProofs
    StateFile <- Scheduler                 <- EventLoopProofs
    Hub, Updates, Discovery                <- EventLoopProofs
    StateFile <- Alerts                    <- AlertsProofs
    StateFile <- OwnerAuth <- Panel        <- OwnerAuthProofs
    Sections, ImageRefs                    <- OwnerAuthProofs
    ContainerUpdate <- Stacks; ComposeFile <- ContainerUpdateProofs
    Hub <- LiveView

Components that share no variable may share a module of proofs: FileLock, MobileSidecar, Repair and
the start (the transactions, the lock they run under, the process that begins them and the command
that says whether it can), Enrolment and
Pairing (the two ways a phone is paired), and Hub,
Updates, Scheduler and Discovery (the four that ask, let the event loop go on, and are answered
late).

Some components that share no state are checked in one run, each beside the first state of the
other, so that the run explores the sum of their states and not the product: MCFileLock holds
FileLock twice (two ways of starting the commands) and AllInOne with Boot; MCEnrolment holds the
two ways a phone is paired, Enrolment and Pairing; MCOwnerAuth holds OwnerAuth with Panel, and
Updates (each beside one first state of the other; a VIEW leaves out the number of updates and the
dismissals, which no step reads). Modules without variables (Repair, Sections, ComposeFile,
ImageRefs, Panel's tables) are algorithms checked over bounded inputs: their properties quantify
over every input of the bounds and are guarded by a condition of the state so that TLC evaluates
them in a few states and not in all (`epoch # NoEpoch`, `Usable`, `DeployingAny`, `time \in Nat`,
which is every state). The compose files, environments, roots and other containers are constants
of MCStacks: the `.cfg` gives them the samples, the proofs take any.

### FileLock: `lock.js`

One action per system call. `Create`/`FindHeld` are `openSync(path,'wx')`, `Stamp` writes
the pid, `Inspect`/`InspectVanished` read the stamp and the age, `Probe` is
`process.kill(pid,0)`, `Break` unlinks **the path**, `Unlock` is the outermost `finally`,
`Reenter`/`ReturnNested` are the `depths` map. `Procs` are the server and the commands, each
with a pid and a namespace. `End` and `Restart` may come between any two calls. The
file carries a history field `creator`, read by properties only. The acquisition deadline is
a free choice where the code tests it; `Age` is the lapse of `LOCK_ABANDONED_MS`, which a
lock whose holder is alive does not reach, because `fn` is bounded synchronous file work.

### MobileStore, MobileSidecar, Repair: `mobile/store.js`, `epoch.js`, `repair.js`

MobileStore has what every mobile transaction shares. `disk` is the sidecar as seen now;
`limbo` the older contents a power cut may bring back (renamed but not synced); `cached` and
`poisoned` the server's memory; `epoch` the authority record, with an `epochLimbo` of its own:
epoch.js swallows a failed sync of the directory, so a raise may fail, hold, or hold until a power
cut, and its caller is told of none of the three (`Raises`). Both files are in one directory, so the
sync that confirms a commit confirms the renames of the record before it. `Committed`, `Uncertain` and
`NotWritten` are the three ends of a commit, the same for a command. `Acceptable` is the
rollback guard of a load, `View` what the server reads. A transaction holds the file lock
from beginning to end, so it is one step; that this is right is what FileLock shows, and
where FileLock shows it is not (section 5) this assumption fails with it.

MobileSidecar is the life of that file: pair, revoke, forget, last-seen writes (`Touch`),
the command that revokes all, restarts, power cuts, one restored backup, a damaged record.

Repair has two readings of one data directory: the diagnosis, in its order, with its words
reduced to their codes and with what its loaders write; and what the next start does up to its
listener (`Listens`): the panel, the Docker access sidecar, the sealed jobs, the mobile state, the
material, the reset of a copy and the binding of the origin. A directory is a state of each of five
files, of the key, of the TLS material, and of the settings. The diagnosis does not look into all
of it: `Unexamined` names what it leaves to the start (what an access sidecar that authenticates
has in it, the sealed jobs, the binding, the setting of a copy), and section 5 says which sentences
that contradicts.

### DeviceTokens: `devices.js`, `token-family.js`

One family: a phone, and a copy of its grants in another client. A token is its number in
minting order. Requests and answers only accumulate: the server may handle any request
again, and a client may never see an answer. Handlers have no await and are one step. The
certificate on disk and the one served differ between a rotation and the restart it needs.
TTLs are clock ticks.

### Enrolment: `enrolment*.js`, `owner-routes.js`

The record of an enrolment, the map that holds it, and the one await: `Approve` starts the
sealing, and the enrolment may be rejected, deleted, swept or expire before `Seal`
continues it. A record removed from the map lives on while the approval refers to it,
as the object does in the code.

### Pairing: `qmbackup.js` and its handlers in `server.js`

The transfers and the drafts are sets. Both maps evict by order of insertion, which is the order
of a transfer's number, and of a draft's field `entered`. `Post` and `takePairDraft` begin a
handler, `Build` continues it after discovery, `ShowPosted`/`ShowReissued` after the QR code is
drawn; between them any other request runs. `consumeRedeem` and `consumeFile` are the two ways
out.

### MobileCert, AtomicPair: `cert.js`, `origin.js`, `rotate-cert.js`, `listener.js`, `clone.js`

Every write, rename, removal and sync under the lock is a step of `place[p]`; each may fail, and
the server or the command may end there. `tls` is the directory (live and staged files), `limbo`
the directories a power cut may bring back: the directory changes not yet synced are undone, the
last ones first. `binding` is the origin file with a limbo of its own, `live` what the listener
serves from memory. The authority record is its facts and the older ones a cut may bring back, as
in MobileStore; only what this module itself syncs confirms it. `CopyVolume` makes a second
installation of the volume. AtomicPair has one pair, replaced as a whole, and undone as a whole
while it is not durable. The refinement maps the pair to what recovery would make of the directory
(`Settled`), so a complete staged set counts as installed from the moment its record is there.

### StateFile, Scheduler: `store.js`, `cron.js`, `docker-access.js`

StateFile is the rule of the authenticated files: `cache`, `disk`, `limbo`, and the stop after an
unconfirmed write. Scheduler has two of them, the jobs and the mode. `queue`, `running` and
the tick are the serial runner and the guarded trigger; `Boot` chooses the mode under whatever
ceiling the new start is given; `SetDockerAccessMode` is the handler with its suspension and its
rollback, every write of it refusable.

### OwnerAuth, Panel, Sections: `auth.js`, `auth-plane.js`, `server.js`, `store.js`

OwnerAuth numbers passwords and second factors by the revision that set them, so that a
session can be compared with the credentials in force. Each handler is one action with the
writes inside it; a write that throws ends it there. `file` is a StateFile with the format v1
or v2 and the marker of the migration; `RestoreV1` is an operator with an old copy.

Panel is `route`: for every class of path, method, listener, cookie and token, which handler
answers, or none. A form's token is checked by its handler, so the table has both.

Sections is what the writers put into eight sections of the state against what validation
accepts: the lists and caps, one section after the other, after every row of calls. A writer only
offers; it is `commit` that refuses. Where the code leaves a full list to the validation (tokens,
jobs, services), so does the model. A text is its control characters, of those that are white space
and of the others, two at most: that is enough to tell a writer that strips one from a validation
that allows none. `saveService` is exported and has no caller.

### Hub, LiveView: `hub.js`, `ui/runtime.js`, `ui/pages/dashboard.js`

Hub is one topic. `polls` is the set of polls in flight, each with the version its fetcher has
read. `Fetch` and `Publish` separate the read of the state from its publication, so that
clients come and go in between. LiveView puts pages in front of it: the stream of a page, its
retry timer, its own polls, and sleep; either side notices a cut stream late.

### ContainerUpdate, Stacks, ComposeFile: `docker.js`, `compose.js`, `lint.js`, `server.js`

ContainerUpdate is `updateContainer` with one action per request to the daemon. `Request`
refuses it, does it, or does it and loses the answer. `Resume` and `PutBack` are the two
rollback paths. Two handlers may overlap, since nothing excludes it, and the server may end
between two requests.

Stacks has the other writing operations around it, over the same containers: the handler
takes its snapshot, checks it against the protected identities, and sends its requests.
`clear` is history: nobody else worked meanwhile.

ComposeFile translates the substitution, the line parser, the refusals and the body of the
container, and beside them the linter's own walk over the raw text. `LintForesees` says for each
refusal what the editor shows of it, and which refusals it says nothing about. Both read line by line:
`Parsing` and `Scanning` are what each knows after the first n lines. `ReservedAssumption`: the
reserved names are in lower case, as the code spells them.

### Updates, ImageRefs: `registry.js`, `updates.js`

`checks` are the checks from their begin on, those that ended with what they answered. A check of
everything takes up its references with `AtOnce` workers (four in the code): what is fresh in the
cache spares the request, the rest waits. The clock goes on meanwhile; a reference takes three
requests at most, each given up in time, so that no reference waits longer than `MaxWait` (three
times 6 s). Each answer is stamped and written into the cache when it comes, whatever was cleared
or answered meanwhile, and its worker takes up the next. ImageRefs reads a reference the three
ways the code reads it: for the check, for the lookup of the local image, and for the pull.

### Discovery: `detect.js`, `discovery-cache.js`, `mint.js`, `build.js`, `server.js`

`sweep` is the promise that callers share, `cached` the rows under a minute old, `job` what each
request awaits. `since` is history: what stood at some time since the sweep began.

### Alerts: `alerts/*`

`Receive` is a webhook whose body is awaited, `Accept` the rules and the record, `job` what
works on each record (the webhook, then the delivery that waits for the push service or for its
retry), `check` the receipt check. History: `wants` is the registration a phone was told of. The phones
register and forget, the owner rotates and revokes, tokens die.

### Boot, AllInOne: `boot-guard.js`, `server.js`, `all-in-one/*`

Boot has the refusals of the loaders, each with the code and the sentence the report is chosen
by, the report, and the owner who follows its advice and starts again. A start saves as well: when
it reads the owner state, when it lowers the mode, and when it suspends jobs. AllInOne puts the
supervisor in front: the checks before the first child, the wait for the proxy, the two children
and the events that announce their end. Every start of the container may find another socket mounted
and another DOCKER_ACCESS_MAX; `wayAround` is what the kernel lets the node user do with the socket of
this start, whatever the check made of it.

## 3. The runs

Twelve runs: eleven pass and check 40 properties, each with a mutant, a plausible bug in a mapped
definition, under which the same run fails; one shows a sentence of the code that does not hold.
Ten more such sentences are stated in their modules and refuted by TLC there (section 5).
A property may be a conjunction of named parts (`OnlyApprovedPhones` = `OneClaimant`,
`ActivatedInTime`, `RejectedStaysOut`), each stated and commented in its module.

| run | asks | bounds, and why they are enough |
|---|---|---|
| `filelock` | exclusion; an abandoned lock is broken; the reports of a failed start; both processes or none | server and two commands, re-entry depth 2: three processes are needed for one to act on another's stamp while a third creates; `RunEnds = 2`, so that a breaker may die as well; `MaxDamage = 2` places of a directory wrong besides DOCKER_ACCESS_MAX, so that following one report meets another; every owner, group and permission of a socket, and every setting of DOCKER_ACCESS_MAX |
| `filelock_exit` | exclusion when one process ends | the same three, one end |
| `mobilesidecar` | acknowledged revocations; the diagnosis | two devices (two competing entries), two faults, one restore; every state of the five files beside good TLS material and settings, every material with every setting beside good files |
| `devicetokens` | tokens, grants, closed families | one family, two clients, clock to 2, three mintings: grant, successor, successor's successor; one fault, one new certificate |
| `enrolment` | who is paired, when, once; transfers of forms | two enrolments and two phones competing, room for two, clock past expiry and acknowledgement window; two browsers, two requests at once, three transfers, room for two of them and for one draft |
| `hub` | a page sees every state, lets go of streams | a page with two streams (one dropped, one in use) and another client of the session, cap 2 of the session, two versions, one poll of the page |
| `stacks` | services, Companion, reports, files | two handlers, two operations begun, two images, two refused or lost requests or server ends: a failure in a step and another in its rollback; files of two free lines after eight beginnings, with two values put in |
| `scheduler` | runs, edits, mode | a built-in and a custom job, three owner calls, three failed or unsure writes (suspension, rollback, and one of a run), one stop, clock to 2 over a day of 2 |
| `mobilecert` | one pair, its phones, its clones | three pairs, one fault, one end or cut, one run of the command, two moves of the origin, one phone; two origins of one host and one of another |
| `ownerauth` | credentials, panel, sections, images | one browser (sessions are alike), one code, four changes of the credentials, one fault, two ends, cuts or restored copies; lists with caps 2 and 3 after rows of four calls, texts of up to two control characters; two references and one worker, so that one waits for the other; two checks, one push of each, a wait of one tick, clock one past the age of the cache |
| `alerts` | registrations, ended pairings and addresses | one phone with two tokens, two records, one change of address, one dead token, one fault, one end or cut |
| `discovery` | what is used, where secrets go | two requests sharing or not sharing a sweep, two containers and a folder with both names, two keys, one change of the stack, one stored key |

**FileLock.** `Mutex`: no two in `fn` (commands of one namespace, nobody ends).
`KilledLockIsBroken`: if a lock stays abandoned, then no call is stuck on it (every process is
pid 1 to itself, two are killed at any system call, some come back with the same pid).

**Boot, AllInOne.** `NeverToldTwice`: following the advice of a report, the owner never gets the
same report again, so any damaged directory leads to a start. Two reports are exceptions: that of
an unexpected error only asks for another start and may return; that of a state error without a
label, which is what an unconfirmed save becomes, comes back once (the load saves, and then the
suspension of the jobs does). `HalfEnds` (liveness): when a child has ended, however that came about,
the container ends. `NoWayAround`: Companion is only started beside a socket it cannot open itself,
by the kernel's rules for the very socket of this start.

**MobileSidecar, Repair.** `AckedRevocationHolds`: a revocation the owner was told about holds,
across everything, unless an older file was restored and the record had missed it or was not
confirmed. `RepairIsRight`: exit code 0 means that the next start listens, for all that the
diagnosis looks into; it writes no panel file; a wrong key is not called damage, nor damage a wrong
key.

**DeviceTokens.** `OneSuccessorPerGrant`: two answers to one grant are the same successor, unless
replayed from an unconfirmed state. `OnlyLiveTokensWork`: what authenticates is the latest token of
its family, within its own lifetime and the family's, and of a family nobody closed.
`ClosedStaysClosed`: a closed family gets no tokens, and a durable revocation is never
overwritten. `HonestPhoneKeepsItsFamily`: lost answers alone never close a family.

**Enrolment, Pairing.** `OnlyApprovedPhones`: a device in the file is the approved claimant's, was
activated in time and is not one the owner was told is rejected. `RestartForgetsNothing`: a used key
stays in the table as long as it could be used, and a phone told it is paired is. `FormsInOrder`: a
form no request works on has at most one live transfer, an earlier form never takes the place of a
later one, and no draft stays marked. `OneWayOut`: the file or the QR code, never both, the file
once, the code within its grace.

**LiveView.** `SeesEveryState` (liveness): a page that stays visible gets to draw every state or a
later one, whether its stream is refused, cut or never opens. `StreamsAreLetGo`: a page uses one way
at a time, and a stream it dropped leaves the hub.

**Stacks, ComposeFile.** `ServicesSurvive`: no service loses its last container unless one was
removed on request. `CompanionIsLeftAlone`: no container of a protected identity is touched or
made. `RunningIsKept`: a removal that decides late removes nothing that runs. `AnswersAreTrue`: a
success did all of it, an update that reports success left the new container up, one that reports a
rollback the old one (each where no other operation overlapped: two overlapping updates do
mislead each other's reports). `FilesAreForeseen`: what deployment accepts never counts as one of
Companion's own containers; a file the parser fails on has an error in the editor, one that claims a
protected identity has QM013, and, with its keys spelled out, one that binds a forbidden path has
QM004 and one that asks for a privilege of rule QM006 has that. It is no parity: the other fields that
deployment does not support show no error (section 5).

**Scheduler.** `RaiseReenablesNothing`, `RunKeepsOwnerEdits`, `AtMostOncePerOccurrence` (no
scheduled time is served twice), `EverythingEnds` (liveness: every run and every tick).

**MobileCert.** `ImplementsAtomicPair`: the refinement. `ReportedPairStays`: a reported rotation
survives a power cut, and owner material is never touched. `PhonesFollowTheirOrigin`: whoever is
let in was paired at the address served now. `CloneNeverServesCopiedLeaf`.

**OwnerAuth, Panel, Sections.** `ChangesHold`: what a browser was told of the credentials is in
whatever file a cut can leave, and a v1 file is never stranded behind its marker.
`SignInIsGuarded`: sessions and tickets are of the credentials in force, a recovery code is
accepted once, and fewer codes are tried than the cap between two sign-ins. `PanelIsTheOwners`:
for every request, only a live session of the same listener with its token changes anything.
`SavesAreKept`: what a writer offers passes the validation before the save, and a list that is cut
to its cap keeps what was just saved. Two limits are part of it: a row too many for the tokens,
jobs and services is refused and leaves the list as it was, and a text has one control character
at most (section 5 has what happens with two).

**Updates, ImageRefs.** `RowsAreRecent`: what is shown from the cache the registry had less than the
cache's age and one wait ago, and at most one wait before the time it is stamped with; what a check
of everything shows, as far as it is and when it has ended, the registry had less than that before
the check began; and what the check of one reference shows, it had since the owner asked.
`ChecksWhatPullFetches`: check, lookup and pull read every reference alike.

**Alerts.** `RegistrationsHold`: a phone told it is registered with a working token stays so,
whatever comes late of an earlier token. `EndedIsDead`: nothing goes to a revoked phone, nothing is
recorded for an old address.

**Discovery.** `UsesWhatStood`: a transfer takes only keys and services in place since its own
sweep began, a stored key is dropped only for another credential in place then. `SecretsStayHome`: the
key of one folder goes to one service; a password goes in plain text to private addresses only.

**Fairness.** FileLock: weak fairness of each process's lock code (a live process keeps executing
synchronous code) and of `Age` (time passes); nothing of callers, of `fn`, or of a restart.
AllInOne: weak fairness of the wait (it has a deadline), of handling an event, of a child coming up
or failing to, and of a child ending after SIGTERM; a child without a signal may run for ever. Scheduler
(`FairSpec`): weak fairness of starting and finishing a run and of going on with the tick (Docker
answers or times out; the event loop goes on); nothing of owners, ticks or restarts. LiveView
(`FairView`): weak fairness of timers, of handling what was sent and of noticing what is gone; strong
fairness of a fetch and of a poll of the page, since they have timeouts, are repeated every
interval, and do not fail for ever while the thing they ask answers. All other modules state safety
only and assume none.

**Deadlock** is checked where somebody can always act. `CHECK_DEADLOCK FALSE` stands in
`Enrolment`, `OwnerAuth`, `Alerts` and `Stacks`, where the counted calls, faults, forms and clocks
of a bound run out; in the code the next call may always come.

**Bounds.** Every counter has one named bound: `MaxWait`, `MaxEnds`, `RunEnds`, `MaxDepth`,
`MaxFaults`, `MaxStops`, `MaxRestores`, `MaxDamage`, `MaxTime`, `MaxNow`, `MaxMint`, `MaxLeaf`,
`MaxGen`, `MaxRuns`, `MaxMoves`, `MaxDevices` of MobileCert, `MaxVersion`, `MaxAsked`, `MaxImage`,
`MaxCalls`, `MaxRev`, `MaxSecrets`, `MaxDead`, `MaxBundles`, `MaxChanges`, `MaxChecks`,
`MaxSeparators`, `Depth`, `MaxRefs`, and the constraint `FewStored` with `MaxStored`.
`MaxDevices`, `MaxRevoked`, `MaxLive`, `MaxSpent`, `MaxEntries`, `PAIR_DRAFT_MAX`,
`REDEEM_GRACE_SERVES`, `HUB_MAX_*`, `MAX_*`, `IpMax`, `TicketTries`, `MintSteps`, `DayLength`,
`CacheAge`, `AtOnce` and the TTLs are the code's own constants, scaled down.

**Assumptions of the models**, beside those of section 6: an image that was built here has no digest
and nobody pulls it; directory changes are undone last-first by a power
cut; with `Careful`, the operator puts no certificate files while a complete pair is
staged (the next start would overwrite them, section 5); in Boot the owner has lost the old key and
has no backup of a file for which the report offers a way without.

## 4. What is proved

All of it with tlapm, for every value of the constants, from the named assumptions of the modules:
`PidAssumption`, `MarkerAssumption` (the markers for "no record" and "unreadable" are not
records), `CapsAssumption`, `VersionAssumption`, `UpdatesAssumption` (workers and the age of the
cache are positive, the wait is a natural), `MountedSockets` (what may be mounted is of the form a
socket or another file has), `FilesAssumption` (a compose file is a sequence of lines),
`AlertsAssumption`, `TtlAssumption` (an idle family outlives its access token, and ends no later
than the family), `SchedulerAssumption` (jobs, schedules and ceilings are of their types as
`cleanSchedule` makes them, with intervals of an hour at least; the markers for "no job", "no run"
and "no file" are not), `EnrolmentAssumption` and the two `BoundsAssumption`s (bounds are
naturals), `OwnerAuthAssumption` (an address has at least one attempt), `DiscoveryAssumption`
(containers and folders are different things), `NamesAssumption` (the names of the owner's stack
and of Companion's own containers are disjoint, and no name is one of a parked container),
`ReservedAssumption` (the reserved names are in lower case), `PairingAssumption` (the bounds of
the forms and transfers), `MigrateAssumption` (the migration is asked for or not) and
`OriginAssumption` (every origin has a host), `SectionsAssumption` (the caps are positive, and one
request dismisses no more than the list holds). A hypothesis that only one theorem needs stands in
the theorem: `NobodyEnds` and `PidsTellApart` for the lock, `Careful` for two theorems about
certificates. The larger of the inductive invariants below were invariants of a TLC run before
they were proved.

**MobileSidecarProofs**, for any devices and any number of faults and restores.
`TypeCorrect`, `AcknowledgedRevocationHolds`, `RecordOnlyRises`, `NoRecordedDeviceIsTakenUp`.
`AckedRevocationHolds` speaks of what the server would load now; a power cut or a restart may
make it load something else. `IInv` therefore says of the file on disk and of everything in
`limbo` that a device it lists as live, although its revocation was reported, is barred by every
contents the record has or may have again after a cut (`Confirmed`), so that whichever of them comes
back refuses the file, or the owner put the file there; and that a cache in use has none of these.
That is also what `RecordOnlyRises` can say of a record whose own rename may be undone: what all its
contents bar stays barred for good (`VersionsRise`), and only a power cut makes the record itself
fall back, to one of them. `RaisedRises` is of one raise, `RaisesRise` of its three outcomes,
`GuardRises` and `CommitRises` of the transactions they are part of. `NoRecordedDeviceIsTakenUp`
adds that the record only lists ids that were given out, so that a device that is paired just now
is not in it.

The same module has the lock under which those transactions run, for any processes, pids,
namespaces and depth of re-entry. `LockTypeCorrect` holds with ends and restarts.
`MutualExclusion` (`Mutex`) and `LockFileIsTheHolders` (`HolderKeepsFile`, `NoOrphan`) assume
`NobodyEnds` (`MaxEnds = 0`) and `PidsTellApart` (any two processes share a PID namespace or have
the same pid). The first is necessary, as `filelock_exit` shows. The second holds when every process
is started by `docker exec`, and when every one is pid 1 of its own container (the code takes its
own pid for a live holder); it fails for a mixture, where a pid is looked up in a namespace that
does not have it. `Mutex` is not inductive: in a state where a process is about to unlink on the
strength of a stale stamp, the next step breaks a good lock. `LockIInv` adds that everybody is alive,
that a held file is its holder's and any file is a holder's, that the stamp in a file is the pid of
some process or empty and not old (`SoundFile`), and the same of what a process has read
(`SoundSeen`). Lemma `NothingAbandoned` concludes that no process gets as far as `breaking`.

It also has the start of the server and of its image, for any damage to the volume, any number of
restarts and any order of what the owner does. `AdviceHelps` (`NeverToldTwice`): a report is made of
the first thing that is wrong, so what has been followed must not become wrong again; the
invariant says of each report what the directory has had since its advice was followed (`Mended`),
and that the report that is shown is true of the directory (`Told`). An unconfirmed save is in
force all the same, so that each of the two saves of a start over saved state can be the cause once;
hence the report without a label comes back once and not twice. `NoSocketIsOpen` (`NoWayAround`)
follows the socket of each start from the check to the two children: one that passes is one that the
kernel refuses to the node user, for every owner, group and permission (`PassesIsClosed`), and nothing
is started when it does not pass.

Last in it is the repair command. `RepairAgrees` (`RepairIsRight`) is a statement about two
algorithms, the diagnosis and the load of the next start, for every state of the files together
with every certificate material, every configuration of the binding and the clone, and both
settings of the migration, unless something it does not look into stands against it
(`Unexamined`); the run varies only one part of the volume at a time beside good ones.
`ZeroIsReady` follows the order of the reports: no reading may fail that has been passed, so what
remains at exit code 0 is a short list of contents of each file (`Verdicts`, `Directory`), and
those the loaders take. `DiagnosesFit` and `FilesLeftAlone` look at one kind of file at a time,
since the diagnosis reads each by itself.

**DeviceTokensProofs**, for any clients, devices, lifetimes, messages, failed and unconfirmed
writes, restarts, power cuts and commands: all four properties of the run. `OneSuccessor`
(`OneSuccessorPerGrant`): what a refresh answers is read from the server's state, of which there are
many: the file, the cache, and the older files a power cut may bring back. `Inv` says of each that it
is `Past` every answer given: its family has a token at least as late, or a lookback that repeats
that very answer; of the older files it says so but for the answers that were replayed while a rename
was unconfirmed (`shaky`), which are the ones a cut takes along. The lookback always belongs to the
current tokens (`Known`), and the cache differs from the file at most in what a command has cleared
(`Agrees`), so that a handler that decides on the one and writes the other rotates the grant it was
shown. `OnlyLiveTokens`, `HonestPhones` and `ClosedForGood` rest on a second invariant, `Held`, which
says of each of those contents what its families were promised: how long they last, which certificate
they are bound to, that they are closed if somebody was told so, and that reuse has not closed them
while the phone alone holds grants.

**EnrolmentProofs**, for any enrolments, phones, lifetimes, limits, failed and unconfirmed writes,
restarts and power cuts. `TypeCorrect`, `ApprovedPhonesOnly` (`OnlyApprovedPhones`) and
`NothingIsForgotten` (`RestartForgetsNothing`). Both speak of the file on disk, and a power cut may
put an older one back. `EnrolmentInv` says of every file of `disk` and `limbo` that it lists only
granted devices, remembers each claimed key until its time is over and keeps every phone that
was told it is paired (`FileOk`); and of an enrolment the server still knows, which claim it took,
whether the owner approved it and in which states it may be while its grant is sealed (`RecordOk`).
That nobody the owner was told is rejected gets in needs `Settled`: once a device is made, its
enrolment is past the states from which it can be rejected. It is claimed of all but the unsure
devices, whose activation was not confirmed: those can be rejected, as section 5 says.

Of Pairing, for any browsers, requests and limits: `FormsStayInOrder` (`FormsInOrder`) and
`EnvelopesLeaveOneWay` (`OneWayOut`). `FormsInOrder` says nothing of a form while a request works
on it. `PairingInv` does: a draft is held by the one request that names its transfer (`Held`); of
the transfers of a form whose page has been shown there is one, the draft's, and a request on that
form replaces it (`LastShown`). So whichever way the request ends, one is left. `AnswersInv` ties
the stage of a transfer to the answers that carried its envelope.

**OwnerAuthProofs**, for any browsers, codes, throttle, revisions, failed and unconfirmed writes,
ends, power cuts and restored files. `CredentialsLast` (`ChangesHold`) and `SignInsAreGuarded`
(`SignInIsGuarded`). Three invariants: `FilesHold` says of every contents the file has, or may be
put back to, that it is as new as what a browser was told, that its codes are unspent, and that it is
no v1 file once the migration is marked; `SignedHold` that sessions and tickets are of the credentials
in force whenever the file is not stopped by an unconfirmed write (which a restart cures, and drops
them all); `CountsHold` that an address has not tried more codes than it has made attempts.
`OnlyTheOwnersRequests` (`PanelIsTheOwners`) needs no invariant either: it holds for every setting of
owner and session. The router is a list of decisions of which the first that applies is taken;
`Least` and `FirstApplies` name that one (the library's least element of a well-founded order), so that
all earlier ones do not apply, and `RouteShows` goes through the decisions that end in a handler of
the owner's and says what must have been shown to get past the others.

`NamesAreReadAlike` (`ChecksWhatPullFetches`) is about three ways to cut the name of an image, for
names with any number of separators in any order. The code cuts at the first separator of a kind or
at the last; such a cut is a choice that the library's well-founded order on the naturals shows to
exist, on the indices or on their mirror image (`FirstPlaceIs`, `LastPlaceIs`). Where two ways of the
code cut differently, the proof shows that `docker.js` finds no local image to compare with.

`SavesAlwaysKeep` (`SavesAreKept`) is about the writers of eight sections, after any number of
calls and for any keys and caps, within the two limits of the property; the rows it starts from
may have come about by texts with more control characters, whose saves were refused. Each section
has a condition on its rows that its writers keep and that implies what the validation asks for.
What is dropped at the cap is the oldest for three reasons: the stacks are sorted by time though
nothing sorts them (`Climbs`), the audit log the other way round (`Falls`), dismissals and keys
are sorted before they are cut, whatever order they were in. That all that is dismissed at once
stays is a pigeonhole, and needs that one request has no more references than the list has places
(200 and 500 in the code). The theorems on induction and on recursive functions take an operator
as a parameter, so the proofs climb step by step from a least counterexample (`Least`, `Climb`)
and build recursive functions as sets of pairs (`Iterates`).

**MobileCertProofs**, for any origins, hosts, pairs, faults, ends, power cuts, moves of the origin,
copies of the volume, phones and runs of the command: all four properties of the run.
`OnePairAtATime` (`ImplementsAtomicPair`) is the refinement: every step leaves what the files settle
to, in place and after a cut, or replaces it as a whole, or is the cut (`CertStep`).
`WhatWasReportedStays` (`ReportedPairStays`, assuming `Careful`) follows from the same invariant,
`CertInv`. It says of the directory, and of every directory a power cut could leave, what each place
of the process under the lock allows: what is staged, what has been put, what is not yet synced; and
that, with nobody there, all that a cut could leave settles to the same pair, or is still being
cleaned up. `CloneIsItsOwn` (`CloneNeverServesCopiedLeaf`, whatever the owner puts) adds where either
process may be (`Roles`, `Movement`); that all the contents a cut could leave are the owner's and
newer than the copied pair, or none is (`CloneFiles`); and that the server does not look for a pair
before the reset that it owes is done and the copied pair is `Gone` from every contents
(`CloneServer`). `PhonesStayAtTheirOrigin` (`PhonesFollowTheirOrigin`, assuming `Careful`) orders the
certificates that a cut could bring back by their age (`CertsOrder`), says that what the server has
read and what a phone was paired with is no newer than any of them (`LeavesOld`), and ties the binding
and the cut-off of the sessions to each phone (`PhonesOk`): a phone of another address is older than
the last cut, or its certificate is outdated in whatever the cut leaves.

**EventLoopProofs** has the four components that ask and are answered late.

*Hub*, for any clients, sessions and caps: `TypeCorrect`, `PolledOnlyForListeners`,
`StateNeverGoesBack`. The last needs that all listeners have been sent the published payload
(`UpToDate`), that there is at most one poll (`OnePoll`), and that what it has read is not older
than what is published (`InFlightIsNewer`).

*Updates*, for any references, workers, age of the cache, wait, clock and number of checks:
`RecentRows` (`RowsAreRecent`). A row is made of a digest in the cache or of one that a check has
collected, and a check writes the cache late. The invariant therefore says of every cache entry that
the registry had its digest no more than one wait before the entry was stamped (`EntryHeld`); of
every request under way that it was sent no longer than a wait ago and that the registry has had
the digest of that moment since then (`AskedLately`), so that whatever it is answered with is not
older; and of all that a check has collected that it was in force less than an age and a wait
before the check began (`GotLately`). A push stamps when a digest was replaced and never earlier
ones. `TakingUpHolds` is the step in which a worker goes on: what it takes from the cache was fresh at
that time, and what it asks for is asked now.

*Scheduler*, for any jobs, schedules, actions, ceilings, failed writes, ends and power cuts:
`NothingIsReenabled` (`RaiseReenablesNothing`), `OwnerEditsStand` (`RunKeepsOwnerEdits`) and
`EachTimeOnce` (`AtMostOncePerOccurrence`). The first two speak of single steps, from states that
may follow any failure. The invariant says what either file may hold, on disk, in memory and
wherever a power cut may take it, and that a server that is up has read a mode, so that ranks can
be compared (`FilesAreRead`). `SuspensionStays` says that a suspension that is done leaves nothing
above the mode, `AuditKeeps` that the entry in the audit log, saved or not, does not bring it
back; a lowering that is rolled back ends no higher than it began. The third relates a dispatch to
every earlier one. `OnceInv` says of every contents that either copy of the jobs has, or a cut may
bring back, that no job in it counts from before a time it was dispatched for (`FileServed`: the
claim is confirmed before the dispatch); that nothing was dispatched for a time after the last
tick; that at most the job the tick waits for is queued with a time, and each job at most once;
and that a time still to be served was never dispatched. `NextRunIsLater`, about all three kinds
of schedules, then shows that what a tick asks for is new: a time of day is after the window
began, an interval after what it counts from, and a legacy job without either has no past.

*Discovery*, for any containers, folders, names they share, keys, requests and changes:
`OnlyWhatStoodIsUsed` (`UsesWhatStood`) and `NoSecretStrays` (`SecretsStayHome`). A caller may act
on rows of a sweep that was begun long before, and was itself in several stages. `DiscoveryInv` says
of all a sweep has read, stage by stage (`Covers`), and of the rows that are kept (`RowsStood`), that
it was so at some time since that sweep began; that a key was lent to two services only if each has
a folder of its own (`LentOnce`); and that no transfer is built from rows that were kept.

**ContainerUpdateProofs**, for any number of handlers, images and faults. `TypeCorrect` and
`AContainerIsLeft` (`SomeContainerExists`) are of ContainerUpdate. A handler removes the old
container without looking whether the new one is still there, and another may have replaced that one.
`IInv` says that for every handler at `remove` there is a container that its maker will not take
back (`Kept`), at least as new as the one this handler made, which is newer than the one it
removes (`Successor`, `NewerThanOld`, `OwnId`). So each removal leaves a newer container.
`EveryServiceIsLeft` (`ServicesSurvive`), `CompanionIsOutOfReach` (`CompanionIsLeftAlone`) and
`NothingRunningGoes` (`RunningIsKept`) are of Stacks, where starts, stops, removals, prunes and
deployments run among the updates. The invariant repeats that argument for each service, up to the
removals the owner asked for, and ties what a handler looked at when it began to the containers as
they are when it acts: identities are never reused, a name once checked against the protected ones
stays with its container, and what a handler made is its own until it is kept.

`WhatIsToldIsDone` (`AnswersAreTrue`) is about what the owner is told of an operation that nothing
overlapped. The histories say so of the past only; `Undisturbed` turns them into what the proof
needs, that nobody else is in the midst of anything now. `UpdateOk` says for each step of an
update what its old and its new container are, so that a rollback is exactly undone. `CallOk` says
for each operation that, unless something has failed, the rows it has done are done. That lasts
while the other rows are worked on: no two rows are of one container (`RowsOk`), and the container
a finished update left is none that the rows to come, or the update under way, would touch
(`StandsIn`). A deployment goes by names instead of containers, and only ever adds (`Gains`).

`AnyFileIsForeseen` and `FilesAreForeseenAlways` (`FilesAreForeseen`) are about the two readers of a
compose file, for files of any number of lines, any environment, roots and live containers; all
four are constants, of which only `FilesAssumption` is assumed. The
deployment reads the substituted text, the editor the raw one, so their states differ. `Alike` ties
them line by line, as long as the parser has neither failed nor left anything out (`Clean`): the
same section, the same service open or none, the same names known. `Covered` adds that every path the
parser has collected is the substituted form of one that the walk has. From there each refusal has its
finding. Every line that the parser drops or fails on is one for which the walk has an error at
that line; as files have no greatest length, the first such line is found by well-founded order.
That nothing deployed counts as Companion's needs `ReservedAssumption` and no induction. That a bind
refused as unsafe has QM004, and a field among the banned privileges QM006, is claimed for files
whose keys do not depend on variables (`Plain`); section 5 says what happens with the others. Of the
other fields that are not supported nothing is claimed, since lint says nothing of them.

**AlertsProofs**, for any phones, tokens, alerts, failed writes, ends and power cuts.
`RegistrationsAlwaysHold` (`RegistrationsHold`) and `EndedStaysDead` (`EndedIsDead`). The first
speaks of the memory copy, and a restart or a power cut puts other contents in its place. `Inv`
therefore says of every contents the file may come to have that it keeps the registrations
phones count on, and that its receipts are about the tokens of its own registrations (`Sound`). A
write that was not confirmed leaves its older contents behind, but its caller was told of the
failure and counts on nothing; one that was confirmed leaves only its own (`DoneIsAll`). That
receipts match is what keeps a late answer about a dead token from a registration that works
(`CheckedIsSound`).

**Only model-checked**, and why. *Liveness under fairness*, which is beyond the installed prover:
`KilledLockIsBroken`, `HalfEnds`, `EverythingEnds`, `SeesEveryState` and `StreamsAreLetGo`. *Induction
over data* where it needs the cardinality of a set that a model builds by comprehension: the bounds of
the two maps of Pairing (in `PairingTypeOK`).
Every other safety property of the runs is proved.
`HolderKeepsFile`, `NoOrphan`, `PolledForListeners`, `NeverGoesBack`, `EpochOnlyRises`,
`TakesUpNoRecordedDevice` and `SomeContainerExists` are proved for all constants and therefore not
in a run. `CatchesUp` of Hub, `HaltsUnlessRestored`, `ReadyListenerStarts`, `ReadyMeansListening`,
`DiagnosisWritesNothing`, `ClonedOriginIsAdopted`, `NextCommitRaisesAgain`, `OlderGrantReuseRevokes`,
`RejectionIsFinal`, `LintParity` and `LinesAreStripped` are stated in their modules
and in no run: the first is implied by what LiveView checks, the others do not hold (section 5).

## 5. Where the code and its words disagree

* `filelock_exit`: lock.js:68 promises an exclusive lock. A waiter decides from a stamp it
  read earlier and then unlinks the path. If the holder releases and exits in between,
  and a third process locks, the waiter unlinks that third lock and both run `fn`.
* `NextCommitRaisesAgain`: mobile/store.js:253, "The next commit raises it again from the same
  state." It raises from its own candidate; when that commit forgets the device, the revocation
  is never recorded.
* `OlderGrantReuseRevokes`: docs/mobile-connection.md:149, "Reuse of an older refresh grant
  revokes the device family". Only the grant one step back is recognised; an older one is
  refused and the family stays live.
* `RejectionIsFinal`: enrolment-owner.js:39 refuses to reject an activated pairing. After
  an activation with unconfirmed durability the enrolment can still be rejected; the owner is
  told so, and the device is live after the restart.
* `HaltsUnlessRestored`: server.js:1116 stops a redeployment when an update cannot restore
  its container. When parking fails, the restart of the old container is not looked at, and
  `rolledBack` is true.
* `ReadyListenerStarts`: docs/recovery.md:68 has the owner trust exit code 0; repair.js:580 does
  not look at the binding of the origin, so the next start may refuse all the same.
* `ReadyMeansListening`: the same sentence, of the Docker access sidecar. The diagnosis checks its
  seal alone (repair.js:109-129); one that authenticates and has another installation id or an
  invalid payload is called healthy, and the next start refuses it (docker-access.js:171-176).
* `DiagnosisWritesNothing`: docs/recovery.md:60, "The diagnosis does not modify the data directory."
  Loading a sidecar without an authority record beside it writes the record (mobile/store.js:325-329).
* `LintParity`: lint.js:1 promises "deploy-parser parity". Deployment refuses every field its parser
  leaves out (compose.js:464-466), `command`, `depends_on` and `networks` among them; lint has errors
  for five privileges only (lint.js:112-118).
* `LinesAreStripped`: store.js:965 has control characters stripped from a line of the activity
  trail. `CONTROL` has no `g` flag, so addAudit (store.js:967) and setMintedKey (store.js:931) strip
  the first; with a second one the validation (store.js:355, 332) throws and the save is lost. No
  caller passes such a text today.
* `ClonedOriginIsAdopted`: cert.js:586 leaves a removed binding "for next-start adoption" after
  the reset of a copied volume. The copied authority record remembers that there was a binding,
  so the start refuses instead of adopting.

Each has a definition in its module that TLC refutes when it is put into the run of that module.
Seen while modelling, smaller, by component:

* **Enrolment**: approving an enrolment deleted meanwhile reports success, although no phone can
  retrieve the grant.
* **Lock**: a stamp of another PID namespace is looked up in one's own (lock.js:48).
* **Repair**: the diagnosis does not open the sealed jobs either, nor read the setting of a copy,
  which the next start may refuse; it names the mobile state as damaged when only
  the record is unreadable or the sidecar is foreign or older; it says "none yet" (exit 2) of a key
  without certificate where the start refuses `partial`; beside a running server it reports R01
  when the server saves meanwhile.
* **Start**: a start whose two saves stay unconfirmed one after the other has the owner read the
  same report twice, which suspects a key and a volume that are right; "authenticated with
  SECRET_KEY" is also said of an unauthenticated v1 file that is invalid under migration
  (store.js:642-647); "move the state file out and restart" with an old Docker access file leads
  to another refusal first; an unwritable directory at a first start has the report of an
  unexpected error.
* **All-in-one**: without CAP_KILL the supervisor cannot signal Companion and takes the error for
  its end; the wait for the proxy accepts anything that listens on the port.
* **Certificates**: owner files put in while a complete staged pair waits are overwritten by the
  next start; the listener takes certificate and binding in two locked sections; rotate-cert prints
  "Nothing was changed" though an unsynced binding was renamed in.
* **Owner**: an unsynced migration marker counts as written; a failed claim leaves the setup token
  unspent; header-token requests run although signed out while their body was read
  (server.js:997-1003); entries of `BODY_CSRF` under /devices are never reached.
* **State**: a save does not check the total size that the load limits to 10 MB; a clock set back
  evicts the row just saved.
* **Transfers**: a new form leaves the browser's earlier transfer redeemable until it expires;
  drafts are evicted by first insertion; a failing audit after a redemption loses the answer
  (server.js:537).
* **Discovery**: an outage of Docker makes a sweep of folders alone that is then cached for a minute;
  a key saved while an older sweep runs is judged by its rows (detect.js:671); a stale key that
  cannot be forgotten fails the page (server.js:358).
* **Images**: a dismissal is of the digest cached by then (server.js:985); an older check that
  finishes late overwrites a newer digest; an answer is stamped when it comes in, up to 18 s after
  it was asked for, and `checkedAt` of a cached answer is the present (server.js:967); the number
  falls to 0 when the cache expires; `docker.io/` and `library/` forms are never compared, nor
  references pinned by digest, which `pullImage` splits at the last colon.
* **Docker**: a prune may remove the stopped parked container of an update; a lost answer to a
  creation leaves a container that the deployment does not count.
* **Lint**: privileges and dangerous binds under `${X}` keys or in values of several lines show no
  error; the 200 findings kept may drop errors behind warnings; QM006 flags an environment entry
  `pid:`; under `services:`, `app: ${V}` with V empty opens a service for the parser and none for
  the linter, which then sees nothing of its binds; the volume names `a` + `b_data` and `a_b` +
  `data` are one.
* **Pages**: a late answer of the dashboard's own poll overwrites a newer message
  (dashboard.js:406-411); topics without fallback stay still while the stream is refused.
* **Scheduler, alerts**: the mode is looked at before the protection check is awaited
  (cron.js:249); an audit that fails after an alert was accepted leaves the record "failed"
  (alerts/runtime.js:33).

## 6. What is left out

* **Cryptography, parsing, encodings, wording**: a token, key, code or id is a value made once.
  Sealing is modelled by when it completes. Messages are their codes.
* **Milliseconds**: ticks, and one bit for "old" where only that is asked.
* **Devices**: scopes, names. **Certificates**: expiry dates, unreadable files.
* **Hub**: the ping of `live.js`, and what each topic fetches. **Pages**: text, styles and the
  scripts of the other pages.
* **Docker**: networks, volumes and images as objects, exec, logs and every other read; paused and
  restarting count as running; containers run with `--rm`. The forced removal by an update is exempt
  from `RunningIsKept`: it is what `ServicesSurvive` and `AnswersAreTrue` are about.
* **Compose**: quotes, comments, values of several lines, targets and modes of volumes. **Templates**:
  the catalogue, starters and icons (they are fetched and shown). The scan for secrets.
* **Sections**: lengths of texts and of the file, the fields of a service, the inner form of jobs.
* **Discovery**: how a kind of service is recognised, TLS, invented rows of default ports.
* **Alerts**: the parsers of webhooks and the read model of the history.
* **Server**: static files, rendering, body reading, rate limits, and the audit log as a file.
* **Build files, installers, docs, tests**: no state.

## 7. What remains

In the order of their worth:

1. The lock as one variable, implemented by FileLock while nobody ends, so that the modules
   that take a transaction for one step can cite it.
2. Networks and volumes in Stacks (a deployment makes them and never removes them), the scan for
   secrets beside ComposeFile, the rate limiter in front of Panel.
