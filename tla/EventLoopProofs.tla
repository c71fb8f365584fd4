--------------------------- MODULE EventLoopProofs ---------------------------
(***************************************************************************)
(* Four parts of the server that ask, go on with other work and are        *)
(* answered late: the poll of a live topic (Hub), the check of the         *)
(* registries (Updates), the run of a job (Scheduler) and the sweep for    *)
(* services (Discovery).  The theorems say that a late answer does no      *)
(* harm, and rest on what was kept at the asking.                          *)
(*                                                                         *)
(* Hub: for any clients, sessions and caps the poller runs for listeners   *)
(* only, and no connection is sent an older payload after a newer one.     *)
(* The second is not inductive.  It needs that the listeners have all been *)
(* sent the published payload (a late joiner by the replay) and that       *)
(* nothing newer is published while a poll is in flight, which is what     *)
(* `busy` is for: with two polls at once the slower one would bring back   *)
(* an older payload.                                                       *)
(*                                                                         *)
(* Updates: what is shown of a registry is recent, for any references, age *)
(* of the cache, wait, number of checks and of references asked about at   *)
(* once, and number of pushed digests.  RowsAreRecent is about rows, and   *)
(* the digest of a row is from the cache or collected by a check, so the   *)
(* invariant says of both since when the registry had them.  A digest that *)
(* a request may still be answered with is one the registry has had since  *)
(* the request was sent, and no request is waited for longer than MaxWait: *)
(* so the stamp of the answer is no more than that too young.              *)
(*                                                                         *)
(* Scheduler: a raised Docker access mode enables no job that waited above *)
(* the old one, and a run never undoes what the owner did meanwhile, for   *)
(* any jobs, schedules, ceilings, failed writes, ends and power cuts.      *)
(* Both are about single steps, but a raise is told from a lowering by the *)
(* mode the server has in memory, and a job from its absence by what the   *)
(* list may hold: the invariant says what is in either file, and that a    *)
(* server that is up has read a mode.                                      *)
(* That no scheduled time is dispatched twice is about two steps that may  *)
(* be starts, power cuts and edits apart: the invariant OnceInv ties what  *)
(* was ever dispatched to every file the server may come back with, to the *)
(* window of the tick, and to the runs that wait.                          *)
(*                                                                         *)
(* Discovery: what a caller does with rows is right of the world as it     *)
(* was at some time since their sweep began, for any containers, folders,  *)
(* names they share, keys, requests and changes.  The invariant says so of *)
(* what each stage of the sweep has read and of the rows that are kept,    *)
(* and that no transfer is built from rows of a sweep that it did not      *)
(* wait for.                                                               *)
(***************************************************************************)
EXTENDS Hub, Updates, Scheduler, Discovery, TLAPS

(* Hub. *)

(* `busy` keeps polls apart. *)
OnePoll ==
    /\ busy \in BOOLEAN
    /\ busy <=> polls # {}
    /\ \A one, two \in polls : one = two

Listening == timer \in BOOLEAN /\ PolledForListeners

Published ==
    /\ version \in 1..MaxVersion /\ clients \subseteq Clients
    /\ polls \subseteq 0..version
    /\ data \in 0..version /\ hash = data
    /\ shown \in [Clients -> 0..version]

UpToDate == \A c \in clients : shown[c] = data

InFlightIsNewer == \A payload \in polls : payload # NoData => payload >= data

HubInv == OnePoll /\ Listening /\ Published /\ UpToDate /\ InFlightIsNewer

-----------------------------------------------------------------------------
LEMMA InitHubInv == HubInit => HubInv
<1> SUFFICES ASSUME HubInit PROVE HubInv
  OBVIOUS
<1> USE VersionAssumption DEF HubInit, NoData
<1>1. OnePoll
  BY DEF OnePoll
<1>2. Listening
  BY DEF Listening, PolledForListeners
<1>3. Published
  BY DEF Published
<1>4. UpToDate /\ InFlightIsNewer
  BY DEF UpToDate, InFlightIsNewer
<1> QED
  BY <1>1, <1>2, <1>3, <1>4 DEF HubInv

(* A resolved poll was the only one. *)
LEMMA PollEnds ==
    ASSUME OnePoll, Publish \/ FetchFails
    PROVE  polls' = {} /\ busy' = FALSE
BY DEF OnePoll, Publish, FetchFails

LEMMA PollStep ==
    ASSUME OnePoll, Poll PROVE OnePoll'
<1>1. CASE busy
  BY <1>1 DEF OnePoll, Poll
<1>2. CASE ~busy
  <2>1. busy' = TRUE /\ polls' = {NoData}
    BY <1>2 DEF OnePoll, Poll
  <2> QED
    BY <2>1 DEF OnePoll
<1> QED
  BY <1>1, <1>2

LEMMA OnePollStep == OnePoll /\ [HubNext]_hubVars => OnePoll'
<1> SUFFICES ASSUME OnePoll, [HubNext]_hubVars PROVE OnePoll'
  OBVIOUS
<1>1. ASSUME NEW c \in Clients, Subscribe(c) PROVE OnePoll'
  <2>1. CASE timer
    BY <1>1, <2>1 DEF Subscribe, OnePoll
  <2>2. CASE ~timer
    BY <1>1, <2>2, PollStep DEF Subscribe
  <2> QED
    BY <2>1, <2>2
<1>2. ASSUME NEW c \in Clients, Leave(c) PROVE OnePoll'
  BY <1>2 DEF Leave, OnePoll
<1>3. CASE Interval
  BY <1>3, PollStep DEF Interval
<1>4. CASE Fetch
  <2>1. polls' = {version} /\ busy' = busy /\ polls # {}
    BY <1>4 DEF Fetch, OnePoll
  <2> QED
    BY <2>1 DEF OnePoll
<1>5. CASE Publish \/ FetchFails
  BY <1>5, PollEnds DEF OnePoll
<1>6. CASE Change \/ UNCHANGED hubVars
  BY <1>6 DEF Change, hubVars, OnePoll
<1> QED
  BY <1>1, <1>2, <1>3, <1>4, <1>5, <1>6 DEF HubNext

LEMMA ListeningStep == Listening /\ [HubNext]_hubVars => Listening'
<1> SUFFICES ASSUME Listening, [HubNext]_hubVars PROVE Listening'
  OBVIOUS
<1> USE DEF Listening, PolledForListeners
<1>1. ASSUME NEW c \in Clients, Subscribe(c) PROVE Listening'
  <2>1. timer' = TRUE /\ clients' # {}
    BY <1>1 DEF Subscribe
  <2> QED
    BY <2>1
<1>2. ASSUME NEW c \in Clients, Leave(c) PROVE Listening'
  <2>1. CASE clients' = {}
    <3>1. timer' = FALSE
      BY <1>2, <2>1 DEF Leave, StopTopic
    <3> QED
      BY <2>1, <3>1
  <2>2. CASE clients' # {}
    <3>1. timer' = timer /\ clients # {}
      BY <1>2, <2>2 DEF Leave
    <3> QED
      BY <2>2, <3>1
  <2> QED
    BY <2>1, <2>2
<1>3. CASE Interval \/ Fetch \/ Publish \/ FetchFails \/ Change \/ UNCHANGED hubVars
  BY <1>3 DEF Interval, Fetch, Publish, FetchFails, Change, hubVars
<1> QED
  BY <1>1, <1>2, <1>3 DEF HubNext

-----------------------------------------------------------------------------
(* What a poll that is about to be published does to the payloads. *)
LEMMA PublishStep ==
    ASSUME Publish
    PROVE  \E payload \in polls \ {NoData} :
              /\ \/ UNCHANGED <<hash, data, shown>>
                 \/ /\ hash' = payload /\ data' = payload
                    /\ shown' = [c \in Clients |-> IF c \in clients THEN payload ELSE shown[c]]
              /\ UNCHANGED <<version, clients>>
BY DEF Publish

LEMMA PayloadStep == HubInv /\ [HubNext]_hubVars => (Published /\ UpToDate /\ InFlightIsNewer)'
<1> SUFFICES ASSUME OnePoll, Published, UpToDate, InFlightIsNewer, [HubNext]_hubVars
             PROVE  (Published /\ UpToDate /\ InFlightIsNewer)'
  BY DEF HubInv
<1> USE VersionAssumption DEF Published, UpToDate, InFlightIsNewer, NoData
<1>1. ASSUME NEW c \in Clients, Subscribe(c)
      PROVE  (Published /\ UpToDate /\ InFlightIsNewer)'
  <2>1. polls' \subseteq polls \cup {0}
    BY <1>1 DEF Subscribe, Poll
  <2>2. /\ clients' = clients \cup {c} /\ shown' = [shown EXCEPT ![c] = data]
        /\ UNCHANGED <<version, hash, data>>
    BY <1>1 DEF Subscribe
  <2> QED
    BY <2>1, <2>2
<1>2. ASSUME NEW c \in Clients, Leave(c)
      PROVE  (Published /\ UpToDate /\ InFlightIsNewer)'
  <2>1. /\ clients' = clients \ {c} /\ shown' = [shown EXCEPT ![c] = 0]
        /\ UNCHANGED <<version, polls>>
    BY <1>2 DEF Leave
  <2>2. \/ clients' = {} /\ hash' = 0 /\ data' = 0
        \/ UNCHANGED <<hash, data>>
    BY <1>2 DEF Leave, StopTopic
  <2> QED
    BY <2>1, <2>2
<1>3. CASE Interval
  <2>1. polls' \subseteq polls \cup {0} /\ UNCHANGED <<version, clients, hash, data, shown>>
    BY <1>3 DEF Interval, Poll
  <2> QED
    BY <2>1
<1>4. CASE Fetch
  BY <1>4 DEF Fetch
<1>5. CASE Publish
  <2>1. polls' = {}
    BY <1>5, PollEnds
  <2> QED
    BY <1>5, <2>1, PublishStep
<1>6. CASE FetchFails
  BY <1>6 DEF FetchFails
<1>7. CASE Change
  <2>1. version <= version' /\ version' \in 1..MaxVersion
    BY <1>7 DEF Change
  <2> QED
    BY <1>7, <2>1 DEF Change
<1>8. CASE UNCHANGED hubVars
  BY <1>8 DEF hubVars
<1> QED
  BY <1>1, <1>2, <1>3, <1>4, <1>5, <1>6, <1>7, <1>8 DEF HubNext

LEMMA StepNeverGoesBack ==
    HubInv /\ [HubNext]_hubVars => [\A c \in clients \cap clients' : shown'[c] >= shown[c]]_hubVars
<1> SUFFICES ASSUME Published, UpToDate, InFlightIsNewer, [HubNext]_hubVars,
                    NEW c \in clients \cap clients'
             PROVE  shown'[c] >= shown[c]
  BY DEF HubInv
<1> USE DEF Published, UpToDate, InFlightIsNewer, NoData
<1>1. shown[c] \in Nat /\ c \in Clients /\ shown[c] = data
  BY VersionAssumption
<1>2. ASSUME NEW d \in Clients, Subscribe(d) \/ Leave(d) PROVE shown'[c] = shown[c]
  BY <1>1, <1>2 DEF Subscribe, Leave
<1>3. CASE Publish
  BY <1>1, <1>3, PublishStep, VersionAssumption
<1>4. CASE Interval \/ Fetch \/ FetchFails \/ Change \/ UNCHANGED hubVars
  BY <1>1, <1>4 DEF Interval, Fetch, FetchFails, Change, hubVars
<1> QED
  BY <1>1, <1>2, <1>3, <1>4 DEF HubNext

-----------------------------------------------------------------------------
LEMMA Invariance == HubSpec => []HubInv
<1>1. HubInv /\ [HubNext]_hubVars => HubInv'
  BY OnePollStep, ListeningStep, PayloadStep DEF HubInv
<1> QED
  BY InitHubInv, <1>1, PTL DEF HubSpec

(* Every reachable state of a topic of hub.js is well typed; in particular a
   poll is in flight exactly while `busy` is set. *)
THEOREM TypeCorrect == HubSpec => []HubTypeOK
<1>1. HubInv => HubTypeOK
  BY DEF HubInv, OnePoll, Listening, Published, HubTypeOK
<1> QED
  BY Invariance, <1>1, PTL

(* stop() when the last listener leaves and start() with the first one leave
   no topic polled for nobody, and no listener without a poller. *)
THEOREM PolledOnlyForListeners == HubSpec => []PolledForListeners
<1>1. HubInv => PolledForListeners
  BY DEF HubInv, Listening
<1> QED
  BY Invariance, <1>1, PTL

(* No tab is sent an older payload after a newer one, although fetchers are
   slow and a listener may join while one is in flight. *)
THEOREM StateNeverGoesBack == HubSpec => NeverGoesBack
BY Invariance, StepNeverGoesBack, PTL DEF HubSpec, NeverGoesBack
-----------------------------------------------------------------------------
(* Updates. *)

Slots == 1 .. MaxChecks

Check == [stage : {"none", "listing", "asking", "done"}, fleet : BOOLEAN, from : Nat,
          todo : SUBSET Refs, sent : [Refs -> Nat], since : [Refs -> Digests],
          got : [Refs -> Digests], imgs : [Refs -> SUBSET Digests]]
Entry == [digest : Digests, at : Nat]

Typed ==
    /\ time \in Nat
    /\ registry \in [Refs -> 1 .. MaxMoves]
    /\ left \in [Refs -> [Digests -> Nat]]
    /\ images \in [Refs -> SUBSET Digests]
    /\ cache \in [Refs -> Entry]
    /\ checks \in [Slots -> Check]

(* The registry had an entry's digest one wait before it was stamped, or
   later. *)
EntryHeld(entry, ref) ==
    entry.digest # 0 => entry.at <= time /\ HeldSince(ref, entry.digest, entry.at - MaxWait)

(* Whatever a request may still be answered with, the registry has had since
   the request was sent, and it was sent at most one wait ago. *)
AskedLately(check, ref) ==
    check.since[ref] # 0 =>
        /\ check.from <= check.sent[ref] /\ check.sent[ref] <= time /\ time <= check.sent[ref] + MaxWait
        /\ \A d \in Digests : check.since[ref] <= d /\ d <= registry[ref] => HeldSince(ref, d, check.sent[ref])

(* The check of one reference has asked and takes nothing from the cache. *)
GotLately(check, ref) ==
    /\ check.from <= time
    /\ check.fleet \/ check.todo = {}
    /\ check.got[ref] # 0 =>
          HeldSince(ref, check.got[ref],
                    IF check.fleet THEN check.from + 1 - CacheAge - MaxWait ELSE check.from)

RowsInv ==
    /\ Typed
    /\ \A ref \in Refs : EntryHeld(cache[ref], ref)
    /\ \A slot \in Slots, ref \in Refs : AskedLately(checks[slot], ref) /\ GotLately(checks[slot], ref)

-----------------------------------------------------------------------------
LEMMA Integral ==
    /\ CacheAge \in Nat /\ CacheAge >= 1 /\ MaxWait \in Nat /\ MaxMoves \in Nat
    /\ 0 \in Digests /\ 1 \in Digests /\ \A d \in Digests : d \in Nat /\ d <= MaxMoves
  BY UpdatesAssumption DEF Digests

(* What was held since a time was held since any earlier one. *)
LEMMA HeldSinceEarlier ==
    ASSUME Typed, NEW ref \in Refs, NEW d \in Digests, NEW t \in Int, NEW earlier \in Int,
           earlier <= t, HeldSince(ref, d, t)
    PROVE  HeldSince(ref, d, earlier)
<1>1. left[ref][d] \in Nat
  BY DEF Typed
<1> QED
  BY <1>1 DEF HeldSince

(* The checks that the handlers start. *)
LEMMA BegunIsACheck ==
    ASSUME Typed, NEW stage \in {"none", "listing", "asking"}, NEW fleet \in BOOLEAN, NEW from \in Nat,
           from <= time, NEW todo \in SUBSET Refs, fleet \/ todo = {}, NEW imgs \in [Refs -> SUBSET Digests]
    PROVE  /\ CheckOf(stage, fleet, from, todo, imgs) \in Check
           /\ \A ref \in Refs : /\ AskedLately(CheckOf(stage, fleet, from, todo, imgs), ref)
                                /\ GotLately(CheckOf(stage, fleet, from, todo, imgs), ref)
<1>1. Nothing \in [Refs -> Digests] /\ Nothing \in [Refs -> Nat] /\ \A ref \in Refs : Nothing[ref] = 0
  BY Integral DEF Nothing
<1> QED
  BY <1>1 DEF CheckOf, Check, AskedLately, GotLately

LEMMA IdleIsACheck ==
    ASSUME Typed, NEW stage \in {"none", "listing"}
    PROVE  Idle(stage) \in Check /\ \A ref \in Refs : AskedLately(Idle(stage), ref) /\ GotLately(Idle(stage), ref)
<1>1. [ref \in Refs |-> {}] \in [Refs -> SUBSET Digests] /\ 0 \in Nat /\ 0 <= time
  BY DEF Typed
<1>2. Nothing \in [Refs -> Digests] /\ Nothing \in [Refs -> Nat] /\ \A ref \in Refs : Nothing[ref] = 0
  BY Integral DEF Nothing
<1> QED
  BY <1>1, <1>2 DEF Idle, CheckOf, Check, AskedLately, GotLately

LEMMA EmptyIsHeld == Empty \in [Refs -> Entry] /\ \A ref \in Refs : EntryHeld(Empty[ref], ref)
<1>1. [digest |-> 0, at |-> 0] \in Entry
  BY Integral DEF Entry
<1>2. Empty \in [Refs -> Entry] /\ \A ref \in Refs : Empty[ref].digest = 0
  BY <1>1 DEF Empty
<1> QED
  BY <1>2 DEF EntryHeld

(* Taking up references: a fresh entry was the registry's less than the age of
   the cache and a wait ago, and a request that is sent now can be answered
   with what the registry has from now on. *)
LEMMA TakingUpHolds ==
    ASSUME Typed, NEW check \in Check, NEW refs \in SUBSET Refs, NEW entries \in [Refs -> Entry],
           check.fleet \/ refs \subseteq Uncached(refs, entries),
           \A ref \in Refs : EntryHeld(entries[ref], ref),
           \A ref \in Refs : AskedLately(check, ref) /\ GotLately(check, ref)
    PROVE  /\ Ended(TakeUp(check, refs, entries)) \in Check
           /\ \A ref \in Refs : /\ AskedLately(Ended(TakeUp(check, refs, entries)), ref)
                                /\ GotLately(Ended(TakeUp(check, refs, entries)), ref)
           /\ TakeUp(check, refs, entries) \in Check
           /\ \A ref \in Refs : /\ AskedLately(TakeUp(check, refs, entries), ref)
                                /\ GotLately(TakeUp(check, refs, entries), ref)
<1> DEFINE taken == TakeUp(check, refs, entries)
           asked == Uncached(refs, entries)
<1>1. /\ taken.stage = check.stage /\ taken.fleet = check.fleet /\ taken.from = check.from
      /\ taken.todo = check.todo \ refs /\ taken.imgs = check.imgs
      /\ \A ref \in Refs :
            /\ taken.sent[ref] = IF ref \in asked THEN time ELSE check.sent[ref]
            /\ taken.since[ref] = IF ref \in asked THEN registry[ref] ELSE check.since[ref]
            /\ taken.got[ref] = IF ref \in refs \ asked THEN entries[ref].digest ELSE check.got[ref]
  BY DEF TakeUp
<1>2. time \in Nat /\ \A ref \in Refs : registry[ref] \in Digests /\ registry[ref] \in Nat
  BY Integral DEF Typed, Digests
<1>3. taken \in Check
  <2>1. /\ [ref \in Refs |-> IF ref \in asked THEN time ELSE check.sent[ref]] \in [Refs -> Nat]
        /\ [ref \in Refs |-> IF ref \in asked THEN registry[ref] ELSE check.since[ref]] \in [Refs -> Digests]
        /\ [ref \in Refs |-> IF ref \in refs \ asked THEN entries[ref].digest ELSE check.got[ref]]
             \in [Refs -> Digests]
    BY <1>2 DEF Check, Entry
  <2>2. check.todo \ refs \in SUBSET Refs
    BY DEF Check
  <2> QED
    BY <2>1, <2>2 DEF TakeUp, Check
<1>4. ASSUME NEW ref \in Refs PROVE AskedLately(taken, ref)
  <2>1. CASE ref \in asked
    <3>1. check.from \in Nat /\ check.from <= time
      BY DEF GotLately, Check
    <3>2. ASSUME NEW d \in Digests, registry[ref] <= d, d <= registry[ref] PROVE HeldSince(ref, d, time)
      BY <1>2, <3>2, Integral DEF HeldSince
    <3> HIDE DEF taken, asked
    <3>3. taken.sent[ref] = time /\ taken.since[ref] = registry[ref] /\ taken.from = check.from
      BY <1>1, <2>1
    <3>4. time <= time + MaxWait
      BY <1>2, Integral
    <3> QED
      BY <1>2, <3>1, <3>2, <3>3, <3>4 DEF AskedLately
  <2>2. CASE ref \notin asked
    <3>1. AskedLately(check, ref)
      OBVIOUS
    <3> HIDE DEF taken, asked
    <3> QED
      BY <1>1, <2>2, <3>1 DEF AskedLately
  <2> QED
    BY <2>1, <2>2
<1>5. ASSUME NEW ref \in Refs PROVE GotLately(taken, ref)
  <2>1. CASE ref \in refs \ asked
    <3>1. Fresh(entries[ref]) /\ check.fleet
      BY <2>1 DEF Uncached
    <3>2. /\ entries[ref].digest \in Digests /\ entries[ref].at \in Nat /\ check.from \in Nat
          /\ check.from <= time
      BY DEF Entry, Check, GotLately
    <3>3. HeldSince(ref, entries[ref].digest, entries[ref].at - MaxWait)
      BY <3>1 DEF Fresh, EntryHeld
    <3>4. check.from + 1 - CacheAge - MaxWait <= entries[ref].at - MaxWait
      BY <1>2, <3>1, <3>2, Integral DEF Fresh
    <3>5. check.from + 1 - CacheAge - MaxWait \in Int /\ entries[ref].at - MaxWait \in Int
      BY <3>2, Integral
    <3>6. HeldSince(ref, entries[ref].digest, check.from + 1 - CacheAge - MaxWait)
      BY <3>2, <3>3, <3>4, <3>5, HeldSinceEarlier
    <3> HIDE DEF taken, asked
    <3>7. taken.got[ref] = entries[ref].digest /\ taken.fleet /\ taken.from = check.from
      BY <1>1, <2>1, <3>1
    <3> QED
      BY <3>2, <3>6, <3>7 DEF GotLately
  <2>2. CASE ref \notin refs \ asked
    <3>1. GotLately(check, ref)
      OBVIOUS
    <3> HIDE DEF taken, asked
    <3> QED
      BY <1>1, <2>2, <3>1 DEF GotLately
  <2> QED
    BY <2>1, <2>2
<1> HIDE DEF taken, asked
<1>6. Ended(taken) \in Check
  BY <1>3 DEF Ended, Check
<1>7. /\ Ended(taken).fleet = taken.fleet /\ Ended(taken).from = taken.from /\ Ended(taken).todo = taken.todo
      /\ Ended(taken).sent = taken.sent /\ Ended(taken).since = taken.since /\ Ended(taken).got = taken.got
  BY <1>3 DEF Ended, Check
<1>8. \A ref \in Refs : AskedLately(Ended(taken), ref) /\ GotLately(Ended(taken), ref)
  BY <1>4, <1>5, <1>7 DEF AskedLately, GotLately
<1> QED
  BY <1>3, <1>4, <1>5, <1>6, <1>8 DEF taken

LEMMA InitEstablishes == UpdatesInit => RowsInv
<1> SUFFICES ASSUME UpdatesInit PROVE RowsInv
  OBVIOUS
<1>1. [ref \in Refs |-> {}] \in [Refs -> SUBSET Digests]
  OBVIOUS
<1>2. Nothing \in [Refs -> Digests] /\ Nothing \in [Refs -> Nat] /\ \A ref \in Refs : Nothing[ref] = 0
  BY Integral DEF Nothing
<1>3. Idle("none") \in Check
  BY <1>1, <1>2 DEF Idle, CheckOf, Check
<1>4. Typed
  <2>1. 1 \in 1 .. MaxMoves /\ \A s \in SUBSET {1} : s \in SUBSET Digests
    BY UpdatesAssumption DEF Digests
  <2>2. cache \in [Refs -> Entry]
    BY EmptyIsHeld DEF UpdatesInit
  <2>3. checks \in [Slots -> Check]
    BY <1>3 DEF UpdatesInit, Slots
  <2>4. images \in [Refs -> SUBSET Digests]
    BY <2>1 DEF UpdatesInit
  <2> QED
    BY <2>1, <2>2, <2>3, <2>4 DEF UpdatesInit, Typed
<1>5. \A ref \in Refs : EntryHeld(cache[ref], ref)
  BY EmptyIsHeld DEF UpdatesInit
<1>6. \A slot \in Slots, ref \in Refs : AskedLately(checks[slot], ref) /\ GotLately(checks[slot], ref)
  BY <1>2 DEF UpdatesInit, Idle, CheckOf, AskedLately, GotLately, Slots
<1> QED
  BY <1>4, <1>5, <1>6 DEF RowsInv

-----------------------------------------------------------------------------
(* The handlers *)

(* A handler changes one check and the cache, at one time. *)
LEMMA OneCheckMoves ==
    ASSUME RowsInv, NEW slot \in Slots, NEW check \in Check, NEW entries \in [Refs -> Entry],
           UNCHANGED <<time, registry, left, images>>,
           cache' = entries, checks' = [checks EXCEPT ![slot] = check],
           \A ref \in Refs : EntryHeld(entries[ref], ref),
           \A ref \in Refs : AskedLately(check, ref) /\ GotLately(check, ref)
    PROVE  RowsInv'
<1>1. Typed'
  BY DEF RowsInv, Typed
<1>2. ASSUME NEW ref \in Refs PROVE EntryHeld(cache[ref], ref)'
  BY DEF EntryHeld, HeldSince
<1>3. ASSUME NEW other \in Slots, NEW ref \in Refs
      PROVE  (AskedLately(checks[other], ref) /\ GotLately(checks[other], ref))'
  <2>1. CASE other = slot
    <3>1. checks'[other] = check
      BY <2>1 DEF RowsInv, Typed
    <3> QED
      BY <3>1 DEF AskedLately, GotLately, HeldSince
  <2>2. CASE other # slot
    <3>1. checks'[other] = checks[other]
      BY <2>2 DEF RowsInv, Typed
    <3> QED
      BY <3>1 DEF RowsInv, AskedLately, GotLately, HeldSince
  <2> QED
    BY <2>1, <2>2
<1> QED
  BY <1>1, <1>2, <1>3 DEF RowsInv

LEMMA RefreshKeeps == ASSUME RowsInv, NEW slot \in Slots, Refresh(slot) PROVE RowsInv'
<1>1. PICK check : check = Idle("listing")
  OBVIOUS
<1>2. PICK entries : entries = Empty
  OBVIOUS
<1>3. cache' = entries /\ checks' = [checks EXCEPT ![slot] = check] /\ UNCHANGED <<time, registry, left, images>>
  BY <1>1, <1>2 DEF Refresh
<1>4. check \in Check /\ \A ref \in Refs : AskedLately(check, ref) /\ GotLately(check, ref)
  BY <1>1, IdleIsACheck DEF RowsInv
<1>5. entries \in [Refs -> Entry] /\ \A ref \in Refs : EntryHeld(entries[ref], ref)
  BY <1>2, EmptyIsHeld
<1> QED
  BY <1>3, <1>4, <1>5, OneCheckMoves

(* A reference that is asked about, whatever the cache has of it. *)
LEMMA CheckOneKeeps == ASSUME RowsInv, NEW slot \in Slots, NEW ref \in Refs, CheckOne(slot, ref) PROVE RowsInv'
<1>1. PICK begun : begun = CheckOf("asking", FALSE, time, {}, images)
  OBVIOUS
<1>2. begun \in Check /\ \A r \in Refs : AskedLately(begun, r) /\ GotLately(begun, r)
  <2>1. time \in Nat /\ time <= time /\ images \in [Refs -> SUBSET Digests] /\ {} \in SUBSET Refs
    BY DEF RowsInv, Typed
  <2> QED
    BY <1>1, <2>1, BegunIsACheck DEF RowsInv
<1>3. PICK check : check = TakeUp(begun, {ref}, Empty)
  OBVIOUS
<1>4. {ref} \subseteq Uncached({ref}, Empty)
  BY DEF Uncached, Fresh, Empty
<1>5. check \in Check /\ \A r \in Refs : AskedLately(check, r) /\ GotLately(check, r)
  BY <1>2, <1>3, <1>4, EmptyIsHeld, TakingUpHolds DEF RowsInv
<1>6. PICK entries : entries = cache
  OBVIOUS
<1>7. cache' = entries /\ checks' = [checks EXCEPT ![slot] = check] /\ UNCHANGED <<time, registry, left, images>>
  BY <1>1, <1>3, <1>6 DEF CheckOne, checkOneUpdate
<1>8. entries \in [Refs -> Entry] /\ \A r \in Refs : EntryHeld(entries[r], r)
  BY <1>6 DEF RowsInv, Typed
<1> QED
  BY <1>5, <1>7, <1>8, OneCheckMoves

(* A check of everything takes fresh digests and asks for the others. *)
LEMMA CheckFleetKeeps ==
    ASSUME RowsInv, NEW slot \in Slots, NEW byJob \in BOOLEAN, CheckFleet(slot, byJob)
    PROVE  RowsInv'
<1>1. PICK entries : entries = IF byJob THEN Empty ELSE cache
  OBVIOUS
<1>2. PICK begun : begun = checkUpdates
  OBVIOUS
<1>3. entries \in [Refs -> Entry] /\ \A ref \in Refs : EntryHeld(entries[ref], ref)
  BY <1>1, EmptyIsHeld DEF RowsInv, Typed
<1>4. begun \in Check /\ begun.fleet /\ \A ref \in Refs : AskedLately(begun, ref) /\ GotLately(begun, ref)
  <2>1. time \in Nat /\ time <= time /\ images \in [Refs -> SUBSET Digests]
        /\ {ref \in Refs : findLocal(ref, images)} \in SUBSET Refs
    BY DEF RowsInv, Typed
  <2>2. checkUpdates = CheckOf("asking", TRUE, time, {ref \in Refs : findLocal(ref, images)}, images)
    BY DEF checkUpdates
  <2>3. begun.fleet
    BY <1>2, <2>2 DEF CheckOf
  <2> QED
    BY <1>2, <2>1, <2>2, <2>3, BegunIsACheck DEF RowsInv
<1>5. /\ cache' = entries /\ UNCHANGED <<time, registry, left, images>>
      /\ \E refs \in Taken(begun, entries) :
            checks' = [checks EXCEPT ![slot] = Ended(TakeUp(begun, refs, entries))]
  BY <1>1, <1>2 DEF CheckFleet
<1>6. PICK refs \in SUBSET Refs : checks' = [checks EXCEPT ![slot] = Ended(TakeUp(begun, refs, entries))]
  BY <1>4, <1>5 DEF Taken, Check
<1>7. PICK check : check = Ended(TakeUp(begun, refs, entries))
  OBVIOUS
<1>8. check \in Check /\ \A ref \in Refs : AskedLately(check, ref) /\ GotLately(check, ref)
  BY <1>3, <1>4, <1>7, TakingUpHolds DEF RowsInv
<1> QED
  BY <1>3, <1>5, <1>6, <1>7, <1>8, OneCheckMoves

(* An answer is a digest that the registry has had since it was asked; it is
   stamped at most one wait later. *)
LEMMA AnswerKeeps ==
    ASSUME RowsInv, NEW slot \in Slots, NEW ref \in Refs, NEW d \in Digests, Answer(slot, ref, d)
    PROVE  RowsInv'
<1>1. PICK before : before = checks[slot]
  OBVIOUS
<1>2. PICK entries : entries = IF d = 0 THEN cache ELSE [cache EXCEPT ![ref] = [digest |-> d, at |-> time]]
  OBVIOUS
<1>3. PICK answered : answered = Answered(before, ref, d)
  OBVIOUS
<1>4. /\ before.since[ref] # 0
      /\ d = 0 \/ d \in before.since[ref] .. registry[ref]
      /\ cache' = entries /\ UNCHANGED <<time, registry, left, images>>
      /\ \E refs \in Taken(answered, entries) :
            checks' = [checks EXCEPT ![slot] = Ended(TakeUp(answered, refs, entries))]
  BY <1>1, <1>2, <1>3 DEF Answer
<1>5. /\ before \in Check /\ time \in Nat /\ registry[ref] \in Nat /\ d \in Nat
      /\ before.since[ref] \in Nat /\ before.sent[ref] \in Nat /\ before.from \in Nat
  BY <1>1, Integral DEF RowsInv, Typed, Check
<1>6. \A r \in Refs : AskedLately(before, r) /\ GotLately(before, r)
  BY <1>1 DEF RowsInv
<1>7. d # 0 => /\ HeldSince(ref, d, before.sent[ref])
               /\ before.from <= before.sent[ref] /\ time <= before.sent[ref] + MaxWait
  BY <1>4, <1>5, <1>6 DEF AskedLately
<1>8. d # 0 => HeldSince(ref, d, time - MaxWait) /\ HeldSince(ref, d, before.from)
  <2>1. before.sent[ref] \in Int /\ time - MaxWait \in Int /\ before.from \in Int
    BY <1>5, Integral
  <2>2. d # 0 => time - MaxWait <= before.sent[ref]
    BY <1>5, <1>7, Integral
  <2> QED
    BY <1>7, <2>1, <2>2, HeldSinceEarlier DEF RowsInv
<1>9. entries \in [Refs -> Entry] /\ \A r \in Refs : EntryHeld(entries[r], r)
  <2>1. [digest |-> d, at |-> time] \in Entry /\ cache \in [Refs -> Entry]
    BY <1>5 DEF Entry, RowsInv, Typed
  <2>2. entries \in [Refs -> Entry]
    BY <1>2, <2>1
  <2>3. ASSUME NEW r \in Refs PROVE EntryHeld(entries[r], r)
    <3>1. CASE r = ref /\ d # 0
      <4>1. entries[r].digest = d /\ entries[r].at = time
        BY <1>2, <2>1, <3>1
      <4> QED
        BY <1>5, <1>8, <3>1, <4>1 DEF EntryHeld
    <3>2. CASE r # ref \/ d = 0
      <4>1. entries[r] = cache[r]
        BY <1>2, <2>1, <3>2
      <4> QED
        BY <4>1 DEF RowsInv
    <3> QED
      BY <3>1, <3>2
  <2> QED
    BY <2>2, <2>3
<1>10. answered \in Check /\ answered.fleet = before.fleet /\ answered.todo = before.todo
       /\ answered.from = before.from /\ answered.sent = [before.sent EXCEPT ![ref] = 0]
       /\ answered.since = [before.since EXCEPT ![ref] = 0] /\ answered.got = [before.got EXCEPT ![ref] = d]
  <2>1. /\ [before.sent EXCEPT ![ref] = 0] \in [Refs -> Nat]
        /\ [before.since EXCEPT ![ref] = 0] \in [Refs -> Digests]
        /\ [before.got EXCEPT ![ref] = d] \in [Refs -> Digests]
    BY <1>5, Integral DEF Check
  <2> QED
    BY <1>3, <1>5, <2>1 DEF Answered, Check
<1>11. ASSUME NEW r \in Refs PROVE AskedLately(answered, r) /\ GotLately(answered, r)
  <2>1. /\ before.sent \in [Refs -> Nat] /\ before.since \in [Refs -> Digests] /\ before.got \in [Refs -> Digests]
        /\ AskedLately(before, r) /\ GotLately(before, r)
    BY <1>5, <1>6 DEF Check
  <2>2. CASE r # ref
    <3>1. answered.sent[r] = before.sent[r] /\ answered.since[r] = before.since[r] /\ answered.got[r] = before.got[r]
      BY <1>10, <2>1, <2>2
    <3> QED
      BY <1>10, <2>1, <3>1 DEF AskedLately, GotLately
  <2>3. CASE r = ref
    <3>1. answered.since[r] = 0 /\ answered.got[r] = d
      BY <1>10, <2>1, <2>3
    <3>2. d # 0 => HeldSince(r, d, IF before.fleet THEN before.from + 1 - CacheAge - MaxWait ELSE before.from)
      <4>1. before.from + 1 - CacheAge - MaxWait \in Int /\ before.from \in Int
            /\ before.from + 1 - CacheAge - MaxWait <= before.from
        BY <1>5, Integral
      <4> QED
        BY <1>8, <2>3, <4>1, HeldSinceEarlier DEF RowsInv
    <3> QED
      BY <1>10, <2>1, <3>1, <3>2 DEF AskedLately, GotLately
  <2> QED
    BY <2>2, <2>3
<1>12. PICK refs \in SUBSET answered.todo :
          checks' = [checks EXCEPT ![slot] = Ended(TakeUp(answered, refs, entries))]
  BY <1>4 DEF Taken
<1>13. refs \in SUBSET Refs /\ (answered.fleet \/ refs \subseteq Uncached(refs, entries))
  <2>1. answered.todo \in SUBSET Refs
    BY <1>10 DEF Check
  <2>2. answered.fleet \/ answered.todo = {}
    BY <1>6, <1>10 DEF GotLately
  <2> QED
    BY <2>1, <2>2
<1>14. PICK check : check = Ended(TakeUp(answered, refs, entries))
  OBVIOUS
<1>15. check \in Check /\ \A r \in Refs : AskedLately(check, r) /\ GotLately(check, r)
  BY <1>9, <1>10, <1>11, <1>13, <1>14, TakingUpHolds DEF RowsInv
<1> QED
  BY <1>4, <1>9, <1>12, <1>14, <1>15, OneCheckMoves

-----------------------------------------------------------------------------
(* Around the program *)

LEMMA StandingKeeps == ASSUME RowsInv, Typed', UNCHANGED <<time, registry, left, cache, checks>> PROVE RowsInv'
  BY DEF RowsInv, EntryHeld, AskedLately, GotLately, HeldSince

LEMMA PullKeeps == ASSUME RowsInv, NEW ref \in Refs, Pull(ref) PROVE RowsInv'
<1>1. images' = [images EXCEPT ![ref] = {registry[ref]}] /\ UNCHANGED <<time, registry, left, cache, checks>>
  BY DEF Pull
<1>2. Typed'
  BY <1>1, UpdatesAssumption DEF RowsInv, Typed, Digests
<1> QED
  BY <1>1, <1>2, StandingKeeps

(* The digest that a push replaces was the registry's until now. *)
LEMMA PushKeeps == ASSUME RowsInv, NEW ref \in Refs, Push(ref) PROVE RowsInv'
<1>1. /\ registry[ref] < MaxMoves
      /\ registry' = [registry EXCEPT ![ref] = @ + 1]
      /\ left' = [left EXCEPT ![ref][registry[ref]] = time]
      /\ UNCHANGED <<time, images, cache, checks>>
  BY DEF Push
<1>2. time \in Nat /\ registry[ref] \in Nat /\ registry[ref] \in Digests
  BY Integral DEF RowsInv, Typed, Digests
<1>3. \A r \in Refs, d \in Digests :
        left'[r][d] = IF r = ref /\ d = registry[ref] THEN time ELSE left[r][d]
  BY <1>1 DEF RowsInv, Typed
<1>4. registry'[ref] = registry[ref] + 1 /\ \A r \in Refs : r # ref => registry'[r] = registry[r]
  BY <1>1 DEF RowsInv, Typed
<1>5. Typed'
  <2>1. registry[ref] + 1 \in 1 .. MaxMoves
    BY <1>1, UpdatesAssumption DEF RowsInv, Typed
  <2>2. registry' \in [Refs -> 1 .. MaxMoves]
    BY <1>1, <2>1 DEF RowsInv, Typed
  <2>3. left' \in [Refs -> [Digests -> Nat]]
    BY <1>1, <1>2 DEF RowsInv, Typed
  <2> QED
    BY <1>1, <2>2, <2>3 DEF RowsInv, Typed
<1>6. ASSUME NEW r \in Refs, NEW d \in Digests, NEW t \in Int, t <= time, HeldSince(r, d, t)
      PROVE  HeldSince(r, d, t)'
  <2>1. left'[r][d] = IF r = ref /\ d = registry[ref] THEN time ELSE left[r][d]
    BY <1>3
  <2> QED
    BY <1>2, <1>4, <1>6, <2>1 DEF HeldSince
<1>7. ASSUME NEW r \in Refs PROVE EntryHeld(cache[r], r)'
  <2>1. PICK entry : entry = cache[r]
    OBVIOUS
  <2>2. EntryHeld(entry, r) /\ entry.digest \in Digests /\ entry.at \in Nat /\ entry.at - MaxWait \in Int
    BY <2>1, Integral DEF RowsInv, Typed, Entry
  <2>3. entry.digest # 0 => entry.at <= time /\ entry.at - MaxWait <= time
    BY <1>2, <2>2, Integral DEF EntryHeld
  <2>4. entry.digest # 0 => HeldSince(r, entry.digest, entry.at - MaxWait)'
    BY <1>6, <2>2, <2>3 DEF EntryHeld
  <2> QED
    BY <1>1, <2>1, <2>3, <2>4 DEF EntryHeld
<1>8. ASSUME NEW slot \in Slots, NEW r \in Refs
      PROVE  (AskedLately(checks[slot], r) /\ GotLately(checks[slot], r))'
  <2>1. PICK check : check = checks[slot]
    OBVIOUS
  <2>2. /\ check \in Check /\ AskedLately(check, r) /\ GotLately(check, r)
        /\ check.sent[r] \in Nat /\ check.since[r] \in Nat /\ check.from \in Nat /\ check.got[r] \in Digests
    BY <2>1, Integral DEF RowsInv, Typed, Check
  <2>3. ASSUME check.since[r] # 0, NEW d \in Digests, check.since[r] <= d, d <= registry'[r]
        PROVE  HeldSince(r, d, check.sent[r])'
    <3>1. CASE d = registry'[r]
      BY <3>1 DEF HeldSince
    <3>2. CASE d # registry'[r]
      <4>1. d <= registry[r]
        <5>1. d \in Nat /\ registry[r] \in Nat
          BY Integral DEF RowsInv, Typed
        <5> QED
          BY <1>2, <1>4, <2>3, <3>2, <5>1
      <4>2. HeldSince(r, d, check.sent[r]) /\ check.sent[r] <= time
        BY <2>2, <2>3, <4>1 DEF AskedLately
      <4> QED
        BY <1>6, <2>2, <4>2
    <3> QED
      BY <3>1, <3>2
  <2>4. check.got[r] # 0 =>
          HeldSince(r, check.got[r], IF check.fleet THEN check.from + 1 - CacheAge - MaxWait ELSE check.from)'
    <3>1. check.from <= time
      BY <2>2 DEF GotLately
    <3>2. check.from + 1 - CacheAge - MaxWait \in Int /\ check.from + 1 - CacheAge - MaxWait <= time
      BY <1>2, <2>2, <3>1, Integral
    <3> QED
      BY <1>6, <2>2, <3>1, <3>2 DEF GotLately
  <2> QED
    BY <1>1, <2>1, <2>2, <2>3, <2>4 DEF AskedLately, GotLately
<1> QED
  BY <1>5, <1>7, <1>8 DEF RowsInv

(* The time moves while checks wait, but not past what they may wait. *)
LEMMA TickKeeps == ASSUME RowsInv, Tick PROVE RowsInv'
<1>1. time' = time + 1 /\ UNCHANGED <<registry, left, images, cache, checks>>
      /\ \A slot \in Slots : \A ref \in Waits(checks[slot]) : time < checks[slot].sent[ref] + MaxWait
  BY DEF Tick, Slots
<1>2. time \in Nat
  BY DEF RowsInv, Typed
<1>3. Typed'
  BY <1>1, <1>2 DEF RowsInv, Typed
<1>4. ASSUME NEW r \in Refs PROVE EntryHeld(cache[r], r)'
  <2>1. EntryHeld(cache[r], r) /\ cache[r].at \in Nat
    BY DEF RowsInv, Typed, Entry
  <2> QED
    BY <1>1, <1>2, <2>1 DEF EntryHeld, HeldSince
<1>5. ASSUME NEW slot \in Slots, NEW r \in Refs
      PROVE  (AskedLately(checks[slot], r) /\ GotLately(checks[slot], r))'
  <2>1. /\ AskedLately(checks[slot], r) /\ GotLately(checks[slot], r)
        /\ checks[slot].sent[r] \in Nat /\ checks[slot].from \in Nat
    BY DEF RowsInv, Typed, Check
  <2>2. checks[slot].since[r] # 0 => time + 1 <= checks[slot].sent[r] + MaxWait
    BY <1>1, <1>2, <2>1, Integral DEF Waits
  <2> QED
    BY <1>1, <1>2, <2>1, <2>2 DEF AskedLately, GotLately, HeldSince
<1> QED
  BY <1>3, <1>4, <1>5 DEF RowsInv

LEMMA StepKeeps == RowsInv /\ [UpdatesNext]_UpdatesVars => RowsInv'
<1> SUFFICES ASSUME RowsInv, [UpdatesNext]_UpdatesVars PROVE RowsInv'
  OBVIOUS
<1>1. CASE \E slot \in 1 .. MaxChecks : Refresh(slot)
  BY <1>1, RefreshKeeps DEF Slots
<1>2. CASE \E slot \in 1 .. MaxChecks, byJob \in BOOLEAN : CheckFleet(slot, byJob)
  BY <1>2, CheckFleetKeeps DEF Slots
<1>3. CASE \E slot \in 1 .. MaxChecks, ref \in Refs : CheckOne(slot, ref)
  BY <1>3, CheckOneKeeps DEF Slots
<1>4. CASE \E slot \in 1 .. MaxChecks, ref \in Refs, d \in Digests : Answer(slot, ref, d)
  BY <1>4, AnswerKeeps DEF Slots
<1>5. CASE \E ref \in Refs : Pull(ref) \/ Push(ref)
  BY <1>5, PullKeeps, PushKeeps
<1>6. CASE UNCHANGED <<time, registry, left, images, cache, checks>>
  <2>1. Typed'
    BY <1>6 DEF RowsInv, Typed
  <2> QED
    BY <1>6, <2>1, StandingKeeps
<1>7. (\E refs \in SUBSET Refs : Dismiss(refs)) \/ ReadCached \/ UNCHANGED UpdatesVars
        => UNCHANGED <<time, registry, left, images, cache, checks>>
  BY DEF Dismiss, ReadCached, UpdatesVars
<1>8. CASE Tick
  BY <1>8, TickKeeps
<1> QED
  BY <1>1, <1>2, <1>3, <1>4, <1>5, <1>6, <1>7, <1>8 DEF UpdatesNext

LEMMA InvShowsRecent == RowsInv => RowsAreRecent
<1> SUFFICES ASSUME RowsInv PROVE RowsAreRecent
  OBVIOUS
<1>1. ASSUME NEW row \in cachedUpdates(cache, images)
      PROVE  /\ HeldSince(row.image, row.remoteDigest, time + 1 - CacheAge - MaxWait)
             /\ HeldSince(row.image, row.remoteDigest, cache[row.image].at - MaxWait)
  <2>1. PICK ref \in Refs : Fresh(cache[ref]) /\ row = compare(ref, cache[ref].digest, images)
    BY <1>1 DEF cachedUpdates
  <2>2. row.image = ref /\ row.remoteDigest = cache[ref].digest
    BY <2>1 DEF compare
  <2>3. HeldSince(ref, cache[ref].digest, cache[ref].at - MaxWait)
    BY <2>1 DEF RowsInv, EntryHeld, Fresh
  <2>4. time \in Nat /\ cache[ref].at \in Nat /\ cache[ref].digest \in Digests
    BY DEF RowsInv, Typed, Entry
  <2>5. /\ time + 1 - CacheAge - MaxWait \in Int /\ cache[ref].at - MaxWait \in Int
        /\ time + 1 - CacheAge - MaxWait <= cache[ref].at - MaxWait
    BY <2>1, <2>4, Integral DEF Fresh
  <2>6. HeldSince(ref, cache[ref].digest, time + 1 - CacheAge - MaxWait)
    BY <2>3, <2>4, <2>5, HeldSinceEarlier DEF RowsInv
  <2> QED
    BY <2>2, <2>3, <2>6
<1>2. ASSUME NEW slot \in Slots, NEW row \in Results(checks[slot])
      PROVE  HeldSince(row.image, row.remoteDigest,
                       IF checks[slot].fleet THEN checks[slot].from + 1 - CacheAge - MaxWait
                       ELSE checks[slot].from)
  <2>1. PICK ref \in Refs : /\ checks[slot].got[ref] # 0
                            /\ row = compare(ref, checks[slot].got[ref], checks[slot].imgs)
    BY <1>2 DEF Results
  <2>2. row.image = ref /\ row.remoteDigest = checks[slot].got[ref]
    BY <2>1 DEF compare
  <2> QED
    BY <2>1, <2>2 DEF RowsInv, GotLately
<1> QED
  BY <1>1, <1>2 DEF RowsAreRecent, Slots

(* Whatever number of checks overlap and references wait for a worker, however
   long a registry takes, in whatever order it answers and however often the
   cache is cleared meanwhile, no row, of the cache or of a check that waits or
   has ended, compares the local images with a digest that the registry
   replaced a cache age and a wait before it is shown or the check began. *)
THEOREM RecentRows == UpdatesSpec => []RowsAreRecent
<1>1. UpdatesInit => RowsInv
  BY InitEstablishes
<1>2. RowsInv /\ [UpdatesNext]_UpdatesVars => RowsInv'
  BY StepKeeps
<1>3. RowsInv => RowsAreRecent
  BY InvShowsRecent
<1> QED
  BY <1>1, <1>2, <1>3, PTL DEF UpdatesSpec
-----------------------------------------------------------------------------
(* Scheduler. *)

SchedulerInv ==
    /\ jobs \in FileType(Lists)
    /\ access \in FileType(Modes \cup {NoFile})
    /\ ceiling \in Ceilings
    /\ clock \in 1 .. MaxTime
    /\ running # NoRun => running.at \in 1 .. MaxTime
    /\ IF up THEN access.cache \in Modes ELSE access.cache = access.disk

-----------------------------------------------------------------------------
(* What a write leaves, whether or not it is known to be done. *)

LEMMA CommitIsAny ==
    ASSUME NEW f, NEW new, NEW w \in Commits(f, new)
    PROVE  /\ w.file \in {f, Confirmed(f, new), Unconfirmed(f, new)}
           /\ w.done => w.file = Confirmed(f, new)
<1> DEFINE c == Confirmed(f, new)  u == Unconfirmed(f, new)
<1>1. \/ w = [done |-> FALSE, faults |-> 0, file |-> f]
      \/ w = [done |-> FALSE, faults |-> 1, file |-> f]
      \/ w = [done |-> FALSE, faults |-> 1, file |-> u]
      \/ w = [done |-> TRUE, faults |-> 0, file |-> c]
  <2>1. w \in {[done |-> FALSE, faults |-> 0, file |-> f]} \cup Writes(f, new)
    BY DEF Commits
  <2> QED
    BY <2>1 DEF Writes
<1> HIDE DEF c, u
<1>2. w.file \in {f, c, u}
  BY <1>1
<1>3. w.done => w.file = c
  BY <1>1
<1> QED
  BY <1>2, <1>3 DEF c, u

LEMMA CommitStays ==
    ASSUME NEW S, NEW f \in FileType(S), NEW new \in S, NEW w \in Commits(f, new)
    PROVE  /\ w.file \in FileType(S) /\ w.file.cache \in {f.cache, new}
           /\ w.done => w.file.cache = new
<1>1. \A g \in {f, Confirmed(f, new), Unconfirmed(f, new)} :
         g \in FileType(S) /\ g.cache \in {f.cache, new}
  BY DEF Confirmed, Unconfirmed, FileType
<1>2. Confirmed(f, new).cache = new
  BY DEF Confirmed, FileType
<1> QED
  BY <1>1, <1>2, CommitIsAny

LEMMA ReloadStays ==
    ASSUME NEW S, NEW f \in FileType(S)
    PROVE  /\ Reloaded(f, f.disk) \in FileType(S)
           /\ Reloaded(f, f.disk).cache = Reloaded(f, f.disk).disk
           /\ \A g \in AfterCut(f) : g \in FileType(S) /\ g.cache = g.disk
  BY DEF Reloaded, AfterCut, FileType

(* A suspension that is done leaves nothing above the mode. *)
LEMMA SuspensionStays ==
    ASSUME NEW f \in FileType(Lists), NEW mode, NEW s \in Suspensions(f, mode)
    PROVE  /\ s.file \in FileType(Lists)
           /\ s.done => AboveMode(mode, s.file.cache) = {}
<1> DEFINE above == AboveMode(mode, f.cache)
           off == [j \in JobIds |-> IF j \in above THEN [f.cache[j] EXCEPT !.enabled = FALSE]
                                    ELSE f.cache[j]]
<1>1. f.cache \in Lists
  BY DEF FileType
<1>2. \A j \in above : j \in JobIds /\ f.cache[j] \in JobType
  BY <1>1 DEF AboveMode, Lists
<1>3. \A j \in above : [f.cache[j] EXCEPT !.enabled = FALSE] \in JobType
                       /\ [f.cache[j] EXCEPT !.enabled = FALSE].enabled = FALSE
  BY <1>2 DEF JobType
<1>4. off \in Lists
  BY <1>1, <1>3 DEF Lists
<1>5. AboveMode(mode, off) = {}
  <2>1. \A j \in JobIds : j \in above => off[j].enabled = FALSE
    BY <1>3
  <2>2. \A j \in JobIds : j \notin above => off[j] = f.cache[j]
    OBVIOUS
  <2> HIDE DEF off
  <2> QED
    BY <2>1, <2>2 DEF AboveMode
<1> HIDE DEF off
<1>6. CASE s \in Commits(f, off)
  BY <1>4, <1>5, <1>6, CommitStays
<1>7. CASE s \in Untouched(f) /\ above = {}
  BY <1>7 DEF Untouched
<1>8. CASE s = [done |-> FALSE, faults |-> 0, file |-> f]
  BY <1>8
<1> QED
  BY <1>6, <1>7, <1>8 DEF Suspensions, off

LEMMA SelectionStays ==
    ASSUME NEW f \in FileType(Modes \cup {NoFile}), f.cache = f.disk, NEW max \in Modes,
           NEW s \in Selections(f, max)
    PROVE  /\ s.file \in FileType(Modes \cup {NoFile})
           /\ s.done => s.file.cache \in Modes
<1>1. CASE /\ f.disk = NoFile
           /\ s = [done |-> TRUE, faults |-> 0,
                    file |-> [f EXCEPT !.cache = IF Explicit THEN "read" ELSE max]]
  <2>1. [f EXCEPT !.cache = IF Explicit THEN "read" ELSE max] \in FileType(Modes \cup {NoFile})
        /\ [f EXCEPT !.cache = IF Explicit THEN "read" ELSE max].cache \in Modes
    BY DEF FileType, Modes
  <2> QED
    BY <1>1, <2>1
<1>2. CASE s \in Commits(f, max)
  BY <1>2, CommitStays
<1>3. CASE f.disk # NoFile /\ s \in Untouched(f)
  BY <1>3 DEF Untouched, FileType
<1> QED
  BY <1>1, <1>2, <1>3 DEF Selections
-----------------------------------------------------------------------------
(* The invariant. *)

LEMMA InitInv == Init => SchedulerInv
<1> SUFFICES ASSUME Init PROVE SchedulerInv
  OBVIOUS
<1>1. [j \in JobIds |-> IF j \in DOMAIN Builtin THEN Builtin[j] ELSE NoJob] \in Lists
  BY SchedulerAssumption DEF JobIds, Lists
<1>2. jobs \in FileType(Lists)
  BY <1>1 DEF Init, FileOf, FileType
<1>3. access \in FileType(Modes \cup {NoFile}) /\ access.cache = access.disk
  BY DEF Init, FileOf, FileType
<1>4. clock \in 1 .. MaxTime
  BY SchedulerAssumption DEF Init
<1>5. ~up /\ ceiling \in Ceilings /\ running = NoRun
  BY DEF Init
<1> QED
  BY <1>2, <1>3, <1>4, <1>5 DEF SchedulerInv

(* A handler that saves a list of jobs. *)
LEMMA SaveInv ==
    ASSUME SchedulerInv, NEW list \in Lists, SaveJobs(list)
    PROVE  SchedulerInv'
<1>1. PICK w \in Commits(jobs, list) : jobs' = w.file
  BY DEF SaveJobs
<1>2. jobs' \in FileType(Lists)
  BY <1>1, CommitStays DEF SchedulerInv
<1> QED
  BY <1>2 DEF SchedulerInv, SaveJobs, runVars

LEMMA HandlersInv ==
    ASSUME SchedulerInv, NEW j \in JobIds,
           \/ \E enabled \in BOOLEAN : SetJobEnabled(j, enabled)
           \/ \E s \in Schedules : SetJobSchedule(j, s)
           \/ \E a \in Actions, s \in Schedules : AddJob(j, a, s) \/ UpdateJob(j, a, s)
           \/ DeleteJob(j)
    PROVE  SchedulerInv'
<1>1. Saved \in Lists /\ clock \in 0 .. MaxTime
  BY SchedulerAssumption DEF SchedulerInv, Saved, FileType
<1>2. Present(j) => Saved[j] \in JobType
  BY <1>1 DEF Present, Lists
<1>3. ASSUME NEW enabled \in BOOLEAN, SetJobEnabled(j, enabled)
      PROVE  SchedulerInv'
  <2>1. [Saved[j] EXCEPT !.enabled = enabled, !.enabledAt = IF enabled THEN Now ELSE @] \in JobType
    BY <1>1, <1>2, <1>3 DEF SetJobEnabled, JobType, Now
  <2>2. [Saved EXCEPT ![j].enabled = enabled, ![j].enabledAt = IF enabled THEN Now ELSE @] \in Lists
    BY <1>1, <2>1 DEF Lists
  <2> QED
    BY <1>3, <2>2, SaveInv DEF SetJobEnabled
<1>4. ASSUME NEW a \in Actions, NEW s \in Schedules, AddJob(j, a, s)
      PROVE  SchedulerInv'
  <2>1. [Saved EXCEPT ![j] = NewJob(a, s)] \in Lists
    BY <1>1, SchedulerAssumption DEF Lists, NewJob, JobType, Now
  <2> QED
    BY <1>4, <2>1, SaveInv DEF AddJob
<1>5. ASSUME NEW s \in Schedules, Present(j)
      PROVE  [Saved EXCEPT ![j].schedule = s] \in Lists
  BY <1>1, <1>2, <1>5 DEF Lists, JobType
<1>6. ASSUME NEW s \in Schedules, SetJobSchedule(j, s)
      PROVE  SchedulerInv'
  BY <1>5, <1>6, SaveInv DEF SetJobSchedule
<1>7. ASSUME NEW a \in Actions, NEW s \in Schedules, UpdateJob(j, a, s)
      PROVE  SchedulerInv'
  <2>1. [Saved EXCEPT ![j].action = a, ![j].schedule = s] \in Lists
    BY <1>1, <1>2, <1>7 DEF UpdateJob, Lists, JobType
  <2> QED
    BY <1>5, <1>7, <2>1, SaveInv DEF UpdateJob
<1>8. CASE DeleteJob(j)
  BY <1>1, <1>8, SaveInv DEF DeleteJob, Lists
<1> QED
  BY <1>3, <1>4, <1>6, <1>7, <1>8

LEMMA TouchIsAList ==
    ASSUME NEW list \in Lists, NEW j, NEW t \in 0 .. MaxTime, list[j] # NoJob
    PROVE  [list EXCEPT ![j].lastRunAt = t] \in Lists
<1>1. CASE j \in JobIds
  BY <1>1 DEF Lists, JobType
<1>2. CASE j \notin JobIds
  BY <1>2 DEF Lists
<1> QED
  BY <1>1, <1>2

LEMMA StartRunInv ==
    ASSUME SchedulerInv, StartRun
    PROVE  SchedulerInv'
<1> DEFINE run == Head(queue)
<1>1. UNCHANGED <<access, ceiling, up, clock>>
  BY DEF StartRun
<1>2. Saved \in Lists /\ clock \in 0 .. MaxTime
  BY SchedulerAssumption DEF SchedulerInv, Saved, FileType
<1>3. CASE UNCHANGED jobs /\ running' = NoRun
  BY <1>1, <1>3 DEF SchedulerInv
<1>4. CASE Present(run.id) /\ \E w \in Commits(jobs, Claimed(Saved, run.id)) :
             /\ jobs' = w.file
             /\ running' = NoRun \/ running' = [id |-> run.id, for |-> run.for, at |-> Now,
                                            job |-> Claimed(Saved, run.id)[run.id]]
  <2>1. Claimed(Saved, run.id) \in Lists
    BY <1>2, <1>4, TouchIsAList DEF Claimed, Present, Now
  <2>2. jobs' \in FileType(Lists)
    BY <1>4, <2>1, CommitStays DEF SchedulerInv
  <2>3. running' # NoRun => running'.at = clock
    BY <1>4 DEF Now
  <2> QED
    BY <1>1, <2>2, <2>3 DEF SchedulerInv
<1> QED
  BY <1>3, <1>4 DEF StartRun, GiveUp

LEMMA FinishRunInv ==
    ASSUME SchedulerInv, FinishRun
    PROVE  SchedulerInv'
<1>1. UNCHANGED <<access, ceiling, up, clock>> /\ running' = NoRun
  BY DEF FinishRun, GiveUp
<1>2. Saved \in Lists /\ running.at \in 0 .. MaxTime
  BY SchedulerAssumption DEF SchedulerInv, Saved, FileType, FinishRun
<1>3. CASE Present(running.id)
  <2>1. Recorded(Saved, running) \in Lists
    BY <1>2, <1>3, TouchIsAList DEF Recorded, Present
  <2>2. \E w \in Commits(jobs, Recorded(Saved, running)) : jobs' = w.file
    BY <1>3 DEF FinishRun
  <2>3. jobs' \in FileType(Lists)
    BY <2>1, <2>2, CommitStays DEF SchedulerInv
  <2> QED
    BY <1>1, <2>3 DEF SchedulerInv
<1>4. CASE ~Present(running.id)
  BY <1>1, <1>4 DEF FinishRun, Untouched, SchedulerInv
<1> QED
  BY <1>3, <1>4

(* What a change of the mode does, raised or lowered. *)
LEMMA ModeInv ==
    ASSUME SchedulerInv, NEW mode \in Modes, SetDockerAccessMode(mode)
    PROVE  SchedulerInv'
<1>1. UNCHANGED <<ceiling, up, clock, running>> /\ up
  BY DEF SetDockerAccessMode, runVars, Serving
<1>2. Mode \in Modes /\ access.cache = Mode /\ access \in FileType(Modes \cup {NoFile})
  BY <1>1 DEF SchedulerInv, Mode
<1>3. \A f \in FileType(Lists) : \A a \in Audited(f) \cup Untouched(f) : a.file \in FileType(Lists)
  <2> TAKE f \in FileType(Lists)
  <2>1. f.cache \in Lists
    BY DEF FileType
  <2> QED
    BY <2>1, CommitStays DEF Audited, Untouched
<1>4. CASE RaiseMode(mode)
  <2>1. PICK s \in Suspensions(jobs, Mode) :
          \/ jobs' = s.file /\ UNCHANGED access
          \/ \E w \in Commits(access, mode) :
                access' = w.file /\ \E a \in Audited(s.file) \cup Untouched(s.file) : jobs' = a.file
    BY <1>4 DEF RaiseMode, SuspendedFirst
  <2>2. s.file \in FileType(Lists)
    BY SuspensionStays DEF SchedulerInv
  <2>3. jobs' \in FileType(Lists)
    BY <1>3, <2>1, <2>2
  <2>4. access' \in FileType(Modes \cup {NoFile}) /\ access'.cache \in Modes
    BY <1>2, <2>1, CommitStays
  <2> QED
    BY <1>1, <2>3, <2>4 DEF SchedulerInv
<1>5. CASE LowerMode(mode)
  <2>1. PICK w \in Commits(access, mode) :
          \/ access' = w.file /\ UNCHANGED jobs
          \/ \E s \in Suspensions(jobs, mode) :
               \/ access' = w.file /\ \E a \in Audited(s.file) : jobs' = a.file
               \/ jobs' = s.file /\ \E back \in Commits(w.file, Mode) : access' = back.file
    BY <1>5 DEF LowerMode
  <2>2. w.file \in FileType(Modes \cup {NoFile}) /\ w.file.cache \in Modes
    BY <1>2, CommitStays
  <2>3. \A s \in Suspensions(jobs, mode) : s.file \in FileType(Lists)
    BY SuspensionStays DEF SchedulerInv
  <2>4. jobs' \in FileType(Lists)
    BY <1>3, <2>1, <2>3 DEF SchedulerInv
  <2>5. access' \in FileType(Modes \cup {NoFile}) /\ access'.cache \in Modes
    BY <1>2, <2>1, <2>2, CommitStays
  <2> QED
    BY <1>1, <2>4, <2>5 DEF SchedulerInv
<1> QED
  BY <1>4, <1>5 DEF SetDockerAccessMode

LEMMA StopInv ==
    ASSUME SchedulerInv, NEW cut \in BOOLEAN, Stop(cut)
    PROVE  SchedulerInv'
<1>1. UNCHANGED <<ceiling, clock>> /\ up' = FALSE /\ running' = NoRun
  BY DEF Stop, Forgotten
<1>2. \/ jobs' = Reloaded(jobs, jobs.disk) /\ access' = Reloaded(access, access.disk)
      \/ jobs' \in AfterCut(jobs) /\ access' \in AfterCut(access)
  BY DEF Stop
<1>3. jobs' \in FileType(Lists)
  BY <1>2, ReloadStays DEF SchedulerInv
<1>4. access' \in FileType(Modes \cup {NoFile}) /\ access'.cache = access'.disk
  BY <1>2, ReloadStays DEF SchedulerInv
<1> QED
  BY <1>1, <1>3, <1>4 DEF SchedulerInv

LEMMA BootInv ==
    ASSUME SchedulerInv, NEW max \in Ceilings, Boot(max)
    PROVE  SchedulerInv'
<1>1. ceiling' = max /\ UNCHANGED <<clock, running>> /\ ~up /\ max \in Modes
  BY SchedulerAssumption DEF Boot, runVars
<1>2. PICK a \in Selections(access, max) :
        \/ ~a.done /\ access' = Reloaded(a.file, a.file.disk) /\ UNCHANGED <<jobs, up>>
        \/ /\ a.done
           /\ \E s \in Suspensions(jobs, a.file.cache) :
                /\ up' = s.done
                /\ access' = IF s.done THEN a.file ELSE Reloaded(a.file, a.file.disk)
                /\ jobs' = IF s.done THEN s.file ELSE Reloaded(s.file, s.file.disk)
  BY DEF Boot
<1>3. a.file \in FileType(Modes \cup {NoFile}) /\ (a.done => a.file.cache \in Modes)
  BY <1>1, SelectionStays DEF SchedulerInv
<1>4. /\ Reloaded(a.file, a.file.disk) \in FileType(Modes \cup {NoFile})
      /\ Reloaded(a.file, a.file.disk).cache = Reloaded(a.file, a.file.disk).disk
  BY <1>3, ReloadStays
<1>5. CASE ~a.done /\ access' = Reloaded(a.file, a.file.disk) /\ UNCHANGED <<jobs, up>>
  BY <1>1, <1>4, <1>5 DEF SchedulerInv
<1>6. ASSUME a.done, NEW s \in Suspensions(jobs, a.file.cache), up' = s.done,
             access' = IF s.done THEN a.file ELSE Reloaded(a.file, a.file.disk),
             jobs' = IF s.done THEN s.file ELSE Reloaded(s.file, s.file.disk)
      PROVE  SchedulerInv'
  <2>1. jobs' \in FileType(Lists)
    BY <1>6, SuspensionStays, ReloadStays DEF SchedulerInv
  <2>2. CASE s.done
    BY <1>1, <1>3, <1>6, <2>1, <2>2 DEF SchedulerInv
  <2>3. CASE ~s.done
    BY <1>1, <1>4, <1>6, <2>1, <2>3 DEF SchedulerInv
  <2> QED
    BY <2>2, <2>3
<1> QED
  BY <1>2, <1>5, <1>6

LEMMA NextInv ==
    ASSUME SchedulerInv, [Next]_vars
    PROVE  SchedulerInv'
<1>1. CASE UNCHANGED <<jobs, access, ceiling, up, running, clock>>
  BY <1>1 DEF SchedulerInv
<1>7. CASE Pass
  <2>1. clock' \in 1 .. MaxTime
    BY <1>7, SchedulerAssumption DEF SchedulerInv, Pass
  <2> QED
    BY <1>7, <2>1 DEF SchedulerInv, Pass, runVars
<1>8. CASE UNCHANGED vars \/ StartTick \/ ContinueTick \/ \E j \in JobIds : RunManually(j)
  BY <1>1, <1>8 DEF vars, StartTick, ContinueTick, RunManually
<1>2. CASE \/ StartRun \/ FinishRun
  BY <1>2, StartRunInv, FinishRunInv
<1>3. CASE \E mode \in Modes : SetDockerAccessMode(mode)
  BY <1>3, ModeInv
<1>4. CASE \/ \E cut \in BOOLEAN : Stop(cut)
           \/ \E max \in Ceilings : Boot(max)
  BY <1>4, StopInv, BootInv
<1>5. CASE OtherSave
  BY <1>5, SaveInv DEF OtherSave, SchedulerInv, Saved, FileType
<1>6. CASE \E j \in JobIds :
             \/ \E enabled \in BOOLEAN : SetJobEnabled(j, enabled)
             \/ \E s \in Schedules : SetJobSchedule(j, s)
             \/ \E a \in Actions, s \in Schedules : AddJob(j, a, s) \/ UpdateJob(j, a, s)
             \/ DeleteJob(j)
  BY <1>6, HandlersInv
<1> QED
  BY <1>1, <1>2, <1>3, <1>4, <1>5, <1>6, <1>7, <1>8 DEF Next

(* Both files hold what they may hold, on disk, in memory and wherever a power
   cut may take them, and a server that is up has read a mode. *)
THEOREM FilesAreRead == Spec => []SchedulerInv
<1>1. SchedulerInv /\ [Next]_vars => SchedulerInv'
  BY NextInv
<1> QED
  BY InitInv, <1>1, PTL DEF Spec
-----------------------------------------------------------------------------
(* Raising the mode. *)

LEMMA AuditKeeps ==
    ASSUME NEW f, NEW a \in Audited(f) \cup Untouched(f), f \in FileType(Lists)
    PROVE  a.file.cache = f.cache
<1>1. f.cache \in Lists
  BY DEF FileType
<1> QED
  BY <1>1, CommitStays DEF Audited, Untouched

LEMMA RanksAreNumbers == \A mode \in Modes : dockerModeRank(mode) \in Nat
  BY DEF Modes, dockerModeRank

Raised == /\ up /\ up'
          /\ dockerModeRank(access'.cache) > dockerModeRank(access.cache)

(* The jobs above the old mode are suspended by the first write, and the
   audit entry in the second is saved with them. *)
LEMMA RaisingSuspends ==
    ASSUME SchedulerInv, NEW mode \in Modes, SetDockerAccessMode(mode), Raised
    PROVE  AboveMode(access.cache, jobs'.cache) = {}
<1>1. access.cache = Mode /\ Mode \in Modes /\ access \in FileType(Modes \cup {NoFile})
  BY DEF SchedulerInv, Mode, Raised
<1>2. access'.cache # access.cache
  BY <1>1, RanksAreNumbers DEF Raised
<1>3. CASE RaiseMode(mode)
  <2>1. PICK s \in Suspensions(jobs, Mode) :
          /\ s.done
          /\ \E a \in Audited(s.file) \cup Untouched(s.file) : jobs' = a.file
    BY <1>2, <1>3 DEF RaiseMode, SuspendedFirst
  <2>2. s.file \in FileType(Lists) /\ AboveMode(Mode, s.file.cache) = {}
    BY <2>1, SuspensionStays DEF SchedulerInv
  <2>3. jobs'.cache = s.file.cache
    BY <2>1, <2>2, AuditKeeps
  <2> QED
    BY <1>1, <2>2, <2>3
<1>4. CASE LowerMode(mode)
  <2>1. PICK w \in Commits(access, mode) :
          \/ access' = w.file
          \/ \E back \in Commits(w.file, Mode) : access' = back.file
    BY <1>4 DEF LowerMode
  <2>2. w.file \in FileType(Modes \cup {NoFile}) /\ w.file.cache \in {Mode, mode}
    BY <1>1, CommitStays
  <2>3. access'.cache \in {Mode, mode}
    BY <1>1, <2>1, <2>2, CommitStays
  <2>4. dockerModeRank(mode) < dockerModeRank(Mode)
    BY <1>4 DEF LowerMode
  <2> QED
    BY <1>1, <2>3, <2>4, RanksAreNumbers DEF Raised
<1> QED
  BY <1>3, <1>4 DEF SetDockerAccessMode

LEMMA OnlyTheOwnerRaises ==
    ASSUME SchedulerInv, [Next]_vars, Raised
    PROVE  \E mode \in Modes : SetDockerAccessMode(mode)
<1>1. access' # access
  BY RanksAreNumbers DEF Raised, SchedulerInv
<1>2. \A list : ~SaveJobs(list)
  BY <1>1 DEF SaveJobs
<1> QED
  BY <1>1, <1>2 DEF Raised, Next, vars, SetJobEnabled, SetJobSchedule, AddJob, UpdateJob, DeleteJob,
       OtherSave, RunManually, StartRun, FinishRun, StartTick, ContinueTick, Stop, Boot, Pass

(* Whatever is enabled after the mode was raised was allowed before, also when
   a suspension or a rollback had failed and whatever the files went through. *)
THEOREM NothingIsReenabled == Spec => RaiseReenablesNothing
<1>1. SchedulerInv /\ [Next]_vars =>
        [up /\ up' /\ dockerModeRank(access'.cache) > dockerModeRank(access.cache)
           => AboveMode(access.cache, jobs'.cache) = {}]_<<access, up>>
  BY OnlyTheOwnerRaises, RaisingSuspends DEF Raised
<1> QED
  BY FilesAreRead, <1>1, PTL DEF Spec, RaiseReenablesNothing
-----------------------------------------------------------------------------
(* Runs. *)

Fields == {"action", "schedule", "enabled", "enabledAt"}
Kept(old, new) ==
    \A j \in JobIds : IF old[j] = NoJob THEN new[j] = NoJob
                      ELSE new[j] # NoJob /\ \A f \in Fields : new[j][f] = old[j][f]

LEMMA TouchKeeps ==
    ASSUME NEW list \in Lists, NEW i, NEW t \in 0 .. MaxTime, list[i] # NoJob
    PROVE  Kept(list, [list EXCEPT ![i].lastRunAt = t])
<1> SUFFICES ASSUME NEW j \in JobIds
             PROVE  LET new == [list EXCEPT ![i].lastRunAt = t] IN
                    IF list[j] = NoJob THEN new[j] = NoJob
                    ELSE new[j] # NoJob /\ \A f \in Fields : new[j][f] = list[j][f]
  BY DEF Kept
<1> DEFINE new == [list EXCEPT ![i].lastRunAt = t]
<1>1. new[j] = IF j = i THEN [list[i] EXCEPT !.lastRunAt = t] ELSE list[j]
  BY DEF Lists
<1>2. new \in Lists
  BY TouchIsAList
<1>3. CASE j = i
  <2>1. list[j] \in JobType
    BY <1>3 DEF Lists
  <2>2. new[j] \in JobType /\ \A f \in Fields : new[j][f] = list[j][f]
    BY <1>1, <1>3, <2>1 DEF JobType, Fields
  <2> QED
    BY <1>3, <2>2, SchedulerAssumption
<1>4. CASE j # i
  BY <1>1, <1>4
<1> QED
  BY <1>3, <1>4

LEMMA SameIsKept == \A list : Kept(list, list)
  BY DEF Kept

LEMMA StartRunKeeps ==
    ASSUME SchedulerInv, StartRun
    PROVE  Kept(Saved, jobs'.cache)
<1> DEFINE id == Head(queue).id
<1>1. jobs \in FileType(Lists) /\ Saved = jobs.cache /\ Saved \in Lists /\ clock \in 0 .. MaxTime
  BY SchedulerAssumption DEF SchedulerInv, Saved, FileType
<1>2. CASE UNCHANGED jobs
  BY <1>1, <1>2, SameIsKept
<1>3. CASE Present(id) /\ \E w \in Commits(jobs, Claimed(Saved, id)) : jobs' = w.file
  <2>1. Claimed(Saved, id) \in Lists /\ Kept(Saved, Claimed(Saved, id))
    BY <1>1, <1>3, TouchIsAList, TouchKeeps DEF Claimed, Present, Now
  <2>2. jobs'.cache \in {Saved, Claimed(Saved, id)}
    BY <1>1, <1>3, <2>1, CommitStays
  <2> QED
    BY <2>1, <2>2, SameIsKept
<1> QED
  BY <1>2, <1>3 DEF StartRun

LEMMA FinishRunKeeps ==
    ASSUME SchedulerInv, FinishRun
    PROVE  Kept(Saved, jobs'.cache)
<1>1. jobs \in FileType(Lists) /\ Saved = jobs.cache /\ Saved \in Lists /\ running.at \in 0 .. MaxTime
  BY SchedulerAssumption DEF SchedulerInv, Saved, FileType, FinishRun
<1>2. CASE UNCHANGED jobs
  BY <1>1, <1>2, SameIsKept
<1>3. CASE Present(running.id) /\ \E w \in Commits(jobs, Recorded(Saved, running)) : jobs' = w.file
  <2>1. Recorded(Saved, running) \in Lists /\ Kept(Saved, Recorded(Saved, running))
    BY <1>1, <1>3, TouchIsAList, TouchKeeps DEF Recorded, Present
  <2>2. jobs'.cache \in {Saved, Recorded(Saved, running)}
    BY <1>1, <1>3, <2>1, CommitStays
  <2> QED
    BY <2>1, <2>2, SameIsKept
<1> QED
  BY <1>2, <1>3 DEF FinishRun, Untouched

LEMMA OnlyRunsRun ==
    ASSUME [Next]_vars, running' # running, up'
    PROVE  StartRun \/ FinishRun
<1>1. \A list : ~SaveJobs(list)
  BY DEF SaveJobs, runVars
<1> QED
  BY <1>1 DEF Next, vars, runVars, SetJobEnabled, SetJobSchedule, AddJob, UpdateJob, DeleteJob, OtherSave,
       RunManually, StartTick, ContinueTick, SetDockerAccessMode, Stop, Boot, Pass

(* Claiming a run and storing its outcome change nobody's job but for when it
   last ran, and bring no deleted job back. *)
THEOREM OwnerEditsStand == Spec => RunKeepsOwnerEdits
<1>1. SchedulerInv /\ [Next]_vars =>
        [running' # running /\ up' => \A j \in JobIds :
            IF Saved[j] = NoJob THEN jobs'.cache[j] = NoJob
            ELSE /\ jobs'.cache[j] # NoJob
                 /\ \A f \in {"action", "schedule", "enabled", "enabledAt"} :
                        jobs'.cache[j][f] = Saved[j][f]]_<<running, up>>
  BY OnlyRunsRun, StartRunKeeps, FinishRunKeeps DEF Kept, Fields
<1> QED
  BY FilesAreRead, <1>1, PTL DEF Spec, RunKeepsOwnerEdits

-----------------------------------------------------------------------------
(* Scheduled times.  A run is asked for at a time that is after the window of
   the tick began or after what its job counts from; what was fired was due by
   the last tick, and its job counts from it or later in whatever file a power
   cut may bring back. *)

(* What a daily or weekly job is due after is the window; what an interval
   counts from is its last run, or when it was enabled. *)
CountsFrom(row) == IF row.lastRunAt # 0 THEN row.lastRunAt ELSE row.enabledAt

(* No job in the list counts from before a time it was run for. *)
Served(list, history) ==
    \A r \in history : list[r[1]] # NoJob => CountsFrom(list[r[1]]) >= r[2]

FileServed(file, history) ==
    \A list \in file.limbo \cup {file.disk, file.cache} : Served(list, history)

Asked == [id : JobIds, for : Nat]

RunnerInv ==
    /\ queue \in Seq(Asked)
    /\ \A i, k \in DOMAIN queue : queue[i].id = queue[k].id => i = k
    /\ running # NoRun => /\ queue # <<>> /\ running.id = Head(queue).id
                          /\ running.for = Head(queue).for

TickInv ==
    /\ lastTick \in Nat \ {0} /\ lastTick <= clock
    /\ due \subseteq Asked /\ waiting \in JobIds \cup {NoJob}
    /\ ~ticking => due = {} /\ waiting = NoJob
    /\ \A d, e \in due : d.id = e.id => d = e
    /\ \A d \in due : d.id # waiting /\ d.for # 0 /\ d.for <= lastTick
    /\ \A i \in DOMAIN queue : queue[i].for # 0 => queue[i].id = waiting /\ queue[i].for <= lastTick

FiredInv ==
    /\ fired \subseteq JobIds \X Nat
    /\ \A r \in fired : r[2] <= lastTick
    /\ FileServed(jobs, fired)
    /\ \A d \in due : <<d.id, d.for>> \notin fired
    /\ \A i \in DOMAIN queue : queue[i].for # 0 /\ (i = 1 => running = NoRun)
                               => <<queue[i].id, queue[i].for>> \notin fired
    /\ running # NoRun => \A r \in fired : r[1] = running.id => r[2] <= running.at

OnceInv == SchedulerInv /\ RunnerInv /\ TickInv /\ FiredInv

-----------------------------------------------------------------------------
LEMMA TimesAreNumbers ==
    ASSUME NEW row \in JobType
    PROVE  CountsFrom(row) \in Nat
BY SchedulerAssumption DEF JobType, CountsFrom

LEMMA DaysAdd ==
    ASSUME NEW from \in Nat, NEW d \in Nat \ {0}
    PROVE  /\ (from \div d) * d \in Nat
           /\ (from \div d) * d + d > from
<1>1. from \div d \in Nat
  OBVIOUS
<1>2. from = (from \div d) * d + (from % d) /\ from % d \in 0 .. d - 1
  OBVIOUS
<1>3. (from \div d) * d \in Nat
  BY <1>1
<1> QED
  BY <1>2, <1>3

LEMMA WeeksAdd ==
    ASSUME NEW d \in Nat \ {0}, NEW k \in Nat \ {0}
    PROVE  d * k \in Nat /\ d * k >= d
<1>1. d * k \in Nat
  OBVIOUS
<1>2. d * k >= d
  <2>1. d * k = d + d * (k - 1) /\ d * (k - 1) \in Nat
    OBVIOUS
  <2> QED
    BY <1>1, <2>1
<1> QED
  BY <1>1, <1>2

(* A job is due after the window began, or after the time it counts from; a
   legacy job that counts from nothing is due at once. *)
LEMMA NextRunIsLater ==
    ASSUME NEW row \in JobType, NEW from \in Nat \ {0}
    PROVE  /\ nextRun(row, from) \in Nat \ {0}
           /\ \/ nextRun(row, from) > from
              \/ nextRun(row, from) > CountsFrom(row)
              \/ CountsFrom(row) = 0 /\ nextRun(row, from) = from
<1> DEFINE s == row.schedule
           base == CountsFrom(row)
           start == (from \div DayLength) * DayLength
           cand == start + s.hour
           delta == (s.day + 7 - ((from \div DayLength) % 7)) % 7
<1>1. /\ s.type \in {"every", "daily", "weekly"} /\ (s.type = "every" => s.hours \in Nat \ {0})
      /\ s.day \in 0 .. 6 /\ s.hour \in 0 .. (DayLength - 1) /\ DayLength \in Nat \ {0}
  BY SchedulerAssumption DEF JobType
<1>2. base \in Nat
  BY TimesAreNumbers
<1>3. start \in Nat /\ start + DayLength > from /\ from \div DayLength \in Nat
  BY <1>1, DaysAdd
<1>4. cand \in Nat /\ cand + DayLength > from
  BY <1>1, <1>3
<1>5. delta \in 0 .. 6
  <2>1. (from \div DayLength) % 7 \in 0 .. 6
    BY <1>3
  <2>2. s.day + 7 - ((from \div DayLength) % 7) \in Int
    BY <1>1, <2>1
  <2> QED
    BY <2>2
<1>6. nextRun(row, from) =
        CASE s.type = "every"  -> IF base = 0 THEN from ELSE base + s.hours
          [] s.type = "daily"  -> IF cand <= from THEN cand + DayLength ELSE cand
          [] s.type = "weekly" -> cand + DayLength * (IF delta = 0 /\ cand <= from THEN 7 ELSE delta)
  BY DEF nextRun, CountsFrom
<1> HIDE DEF base, start, cand, delta
<1>7. CASE s.type = "every"
  BY <1>1, <1>2, <1>6, <1>7 DEF base
<1>8. CASE s.type = "daily"
  BY <1>1, <1>4, <1>6, <1>8
<1>9. CASE s.type = "weekly"
  <2> DEFINE k == IF delta = 0 /\ cand <= from THEN 7 ELSE delta
  <2>1. nextRun(row, from) = cand + DayLength * k
    BY <1>6, <1>9
  <2>2. CASE k = 0
    <3>1. cand > from
      BY <1>4, <1>5, <2>2
    <3>2. DayLength * k = 0
      BY <1>1, <2>2
    <3> QED
      BY <1>4, <2>1, <3>1, <3>2
  <2>3. CASE k # 0
    <3>1. k \in Nat \ {0}
      BY <1>5, <2>3
    <3> HIDE DEF k
    <3>2. DayLength * k \in Nat /\ DayLength * k >= DayLength
      BY <1>1, <3>1, WeeksAdd
    <3> QED
      BY <1>1, <1>4, <2>1, <3>2
  <2> QED
    BY <2>2, <2>3
<1> QED
  BY <1>1, <1>7, <1>8, <1>9

-----------------------------------------------------------------------------
(* Lists and files. *)

LEMMA RowServes ==
    ASSUME NEW list, NEW other, NEW history, NEW more \in SUBSET (JobIds \X Nat), NEW j \in JobIds,
           Served(list, history), \A r \in more : r \in history \/ r[1] = j,
           \A i \in JobIds : i # j => other[i] = list[i],
           other[j] # NoJob => \A r \in more : r[1] = j => CountsFrom(other[j]) >= r[2]
    PROVE  Served(other, more)
BY DEF Served

(* A time that is stored as the last run is one the job counts from. *)
LEMMA TouchServes ==
    ASSUME NEW list \in Lists, NEW history, NEW more \in SUBSET (JobIds \X Nat), NEW j \in JobIds,
           NEW t \in Nat \ {0}, list[j] # NoJob, Served(list, history),
           \A r \in more : r \in history \/ r[1] = j,
           \A r \in more : r[1] = j => r[2] <= t
    PROVE  Served([list EXCEPT ![j].lastRunAt = t], more)
<1> DEFINE row == [list[j] EXCEPT !.lastRunAt = t]
           other == [list EXCEPT ![j].lastRunAt = t]
<1>1. list[j] \in JobType
  BY DEF Lists
<1>2. CountsFrom(row) = t
  BY <1>1 DEF CountsFrom, JobType
<1>3. other[j] = row /\ \A i \in JobIds : i # j => other[i] = list[i]
  BY DEF Lists
<1> HIDE DEF other, row
<1>4. \A r \in more : r[2] \in Nat
  OBVIOUS
<1>5. \A r \in more : r[1] = j => CountsFrom(other[j]) >= r[2]
  BY <1>2, <1>3, <1>4
<1>6. Served(other, more)
  BY <1>3, <1>5, RowServes
<1> QED
  BY <1>6 DEF other

LEMMA FewerAreServed ==
    ASSUME NEW file, NEW history, NEW list \in file.limbo \cup {file.disk, file.cache},
           FileServed(file, history)
    PROVE  Served(list, history)
BY DEF FileServed

LEMMA CommitServes ==
    ASSUME NEW file \in FileType(Lists), NEW list \in Lists, NEW history,
           NEW w \in Commits(file, list),
           FileServed(file, history), Served(list, history)
    PROVE  FileServed(w.file, history)
<1>1. /\ Confirmed(file, list).limbo = {} /\ Confirmed(file, list).disk = list
      /\ Confirmed(file, list).cache = list
  BY DEF Confirmed, FileType
<1>2. /\ Unconfirmed(file, list).limbo = file.limbo \cup {file.disk}
      /\ Unconfirmed(file, list).disk = list /\ Unconfirmed(file, list).cache = list
  BY DEF Unconfirmed, FileType
<1>3. FileServed(Confirmed(file, list), history) /\ FileServed(Unconfirmed(file, list), history)
  BY <1>1, <1>2 DEF FileServed
<1> QED
  BY <1>3, CommitIsAny

LEMMA ReloadServes ==
    ASSUME NEW file \in FileType(Lists), NEW history, FileServed(file, history)
    PROVE  /\ FileServed(Reloaded(file, file.disk), history)
           /\ \A cut \in AfterCut(file) : FileServed(cut, history)
<1>1. /\ Reloaded(file, file.disk).limbo = file.limbo
      /\ Reloaded(file, file.disk).disk = file.disk /\ Reloaded(file, file.disk).cache = file.disk
  BY DEF Reloaded, FileType
<1>2. ASSUME NEW cut \in AfterCut(file) PROVE FileServed(cut, history)
  <2>1. PICK c \in file.limbo \cup {file.disk} : cut = [Reloaded(file, c) EXCEPT !.limbo = {}]
    BY DEF AfterCut
  <2>2. cut.limbo = {} /\ cut.disk = c /\ cut.cache = c
    BY <2>1 DEF Reloaded, FileType
  <2> QED
    BY <2>1, <2>2 DEF FileServed
<1> QED
  BY <1>1, <1>2 DEF FileServed

(* A suspended job counts from what it counted from. *)
LEMMA SuspensionServes ==
    ASSUME NEW file \in FileType(Lists), NEW history \in SUBSET (JobIds \X Nat), NEW mode,
           NEW s \in Suspensions(file, mode), FileServed(file, history)
    PROVE  FileServed(s.file, history)
<1> DEFINE above == AboveMode(mode, file.cache)
           off == [j \in JobIds |-> IF j \in above THEN [file.cache[j] EXCEPT !.enabled = FALSE]
                                    ELSE file.cache[j]]
<1>1. file.cache \in Lists /\ Served(file.cache, history)
  BY FewerAreServed DEF FileType
<1>2. \A j \in above : j \in JobIds /\ file.cache[j] \in JobType /\ file.cache[j] # NoJob
  BY <1>1 DEF AboveMode, Lists
<1>3. \A j \in above : /\ [file.cache[j] EXCEPT !.enabled = FALSE] \in JobType
                       /\ CountsFrom([file.cache[j] EXCEPT !.enabled = FALSE]) = CountsFrom(file.cache[j])
  BY <1>2 DEF JobType, CountsFrom
<1>4. off \in Lists
  BY <1>1, <1>3 DEF Lists
<1>5. \A j \in JobIds : off[j] # NoJob => file.cache[j] # NoJob /\ CountsFrom(off[j]) = CountsFrom(file.cache[j])
  BY <1>2, <1>3
<1> HIDE DEF off
<1>6. Served(off, history)
  BY <1>1, <1>5 DEF Served
<1>7. CASE s \in Commits(file, off)
  BY <1>4, <1>6, <1>7, CommitServes
<1>8. CASE s \in Untouched(file)
  BY <1>8 DEF Untouched
<1>9. CASE s = [done |-> FALSE, faults |-> 0, file |-> file]
  BY <1>9
<1> QED
  BY <1>7, <1>8, <1>9 DEF Suspensions, off

-----------------------------------------------------------------------------
(* Steps that leave the runs alone. *)

LEMMA InitOnce == Init => OnceInv
<1> SUFFICES ASSUME Init PROVE OnceInv
  OBVIOUS
<1>1. SchedulerInv
  BY InitInv
<1>2. /\ queue = <<>> /\ running = NoRun /\ due = {} /\ waiting = NoJob /\ fired = {}
      /\ clock = 1 /\ lastTick = 1
  BY DEF Init
<1>3. RunnerInv
  BY <1>2 DEF RunnerInv
<1>4. TickInv
  BY <1>2 DEF TickInv
<1>5. FiredInv
  BY <1>2 DEF FiredInv, FileServed, Served
<1> QED
  BY <1>1, <1>3, <1>4, <1>5 DEF OnceInv

LEMMA ClockIsANumber == ASSUME SchedulerInv PROVE clock \in Nat \ {0} /\ Saved \in Lists
  BY SchedulerAssumption DEF SchedulerInv, FileType, Saved

LEMMA EntryIsAsked ==
    ASSUME RunnerInv
    PROVE  \A i \in DOMAIN queue : queue[i].id \in JobIds /\ queue[i].for \in Nat
<1>1. queue \in Seq(Asked)
  BY DEF RunnerInv
<1>2. \A i \in DOMAIN queue : queue[i] \in Asked
  BY <1>1
<1> QED
  BY <1>2 DEF Asked

(* What was fired was due by the last tick, so a job that counts from now
   counts from after it. *)
LEMMA FilesMove ==
    ASSUME OnceInv, SchedulerInv', UNCHANGED <<fired, runVars>>, FileServed(jobs', fired),
           clock' >= clock, lastTick' = lastTick \/ lastTick' = clock
    PROVE  OnceInv'
<1>1. clock \in Nat \ {0} /\ clock' \in Nat \ {0} /\ lastTick \in Nat \ {0} /\ lastTick <= clock
  <2>1. (SchedulerInv => clock \in Nat \ {0})'
    BY ClockIsANumber, PTL
  <2> QED
    BY <2>1, ClockIsANumber DEF OnceInv, TickInv
<1>2. lastTick' \in Nat \ {0} /\ lastTick' <= clock' /\ lastTick' >= lastTick
  BY <1>1
<1>3. RunnerInv'
  BY DEF OnceInv, RunnerInv, runVars
<1>4. TickInv'
  <2>1. \A d \in due : d.for \in Nat /\ d.for <= lastTick'
    BY <1>1, <1>2 DEF OnceInv, TickInv, Asked
  <2>2. \A i \in DOMAIN queue : queue[i].for \in Nat
    BY EntryIsAsked DEF OnceInv
  <2>3. \A i \in DOMAIN queue : queue[i].for # 0 => queue[i].id = waiting /\ queue[i].for <= lastTick'
    BY <1>1, <1>2, <2>2 DEF OnceInv, TickInv
  <2> QED
    BY <1>2, <2>1, <2>3 DEF OnceInv, TickInv, runVars
<1>5. FiredInv'
  <2>1. \A r \in fired : r[2] \in Nat /\ r[2] <= lastTick'
    BY <1>1, <1>2 DEF OnceInv, FiredInv
  <2> QED
    BY <2>1 DEF OnceInv, FiredInv, runVars
<1> QED
  BY <1>3, <1>4, <1>5 DEF OnceInv

LEMMA SaveOnce ==
    ASSUME OnceInv, SchedulerInv', NEW list \in Lists, SaveJobs(list), Served(list, fired)
    PROVE  OnceInv'
<1>1. PICK w \in Commits(jobs, list) : jobs' = w.file
  BY DEF SaveJobs
<1>2. FileServed(jobs', fired)
  BY <1>1, CommitServes DEF OnceInv, SchedulerInv, FiredInv
<1>3. clock' = clock /\ clock \in Nat
  BY ClockIsANumber DEF SaveJobs, OnceInv
<1> QED
  BY <1>2, <1>3, FilesMove DEF SaveJobs

(* A handler keeps what a job counts from, or lets it count from now. *)
LEMMA EditServes ==
    ASSUME OnceInv, NEW j \in JobIds, NEW row,
           row # NoJob => \/ CountsFrom(row) = clock
                          \/ Present(j) /\ CountsFrom(row) = CountsFrom(Saved[j])
    PROVE  Served([Saved EXCEPT ![j] = row], fired)
<1> DEFINE other == [Saved EXCEPT ![j] = row]
<1>1. Saved \in Lists /\ Served(Saved, fired) /\ fired \in SUBSET (JobIds \X Nat)
  BY ClockIsANumber DEF OnceInv, FiredInv, FileServed, Saved
<1>2. other[j] = row /\ \A i \in JobIds : i # j => other[i] = Saved[i]
  BY <1>1 DEF Lists
<1>3. \A r \in fired : r[2] \in Nat /\ r[2] <= clock
  BY ClockIsANumber DEF OnceInv, TickInv, FiredInv
<1> HIDE DEF other
<1>4. other[j] # NoJob => \A r \in fired : r[1] = j => CountsFrom(other[j]) >= r[2]
  <2>1. CASE CountsFrom(row) = clock
    BY <1>2, <1>3, <2>1, ClockIsANumber DEF OnceInv
  <2>2. CASE Present(j) /\ CountsFrom(row) = CountsFrom(Saved[j])
    BY <1>1, <1>2, <2>2 DEF Served, Present
  <2> QED
    BY <1>2, <2>1, <2>2
<1>5. Served(other, fired)
  BY <1>1, <1>2, <1>4, RowServes
<1> QED
  BY <1>5 DEF other

LEMMA HandlersOnce ==
    ASSUME OnceInv, SchedulerInv', NEW j \in JobIds,
           \/ \E enabled \in BOOLEAN : SetJobEnabled(j, enabled)
           \/ \E s \in Schedules : SetJobSchedule(j, s)
           \/ \E a \in Actions, s \in Schedules : AddJob(j, a, s) \/ UpdateJob(j, a, s)
           \/ DeleteJob(j)
    PROVE  OnceInv'
<1>1. Saved \in Lists /\ clock \in 0 .. MaxTime /\ clock # 0
  BY ClockIsANumber, SchedulerAssumption DEF OnceInv, SchedulerInv
<1>2. Present(j) => Saved[j] \in JobType
  BY <1>1 DEF Present, Lists
<1>3. ASSUME NEW enabled \in BOOLEAN, SetJobEnabled(j, enabled)
      PROVE  OnceInv'
  <2> DEFINE row == [Saved[j] EXCEPT !.enabled = enabled, !.enabledAt = IF enabled THEN Now ELSE @]
  <2>1. Present(j) /\ row \in JobType
    BY <1>1, <1>2, <1>3 DEF SetJobEnabled, JobType, Now
  <2>2. CountsFrom(row) = clock \/ CountsFrom(row) = CountsFrom(Saved[j])
    BY <1>2, <1>3, <2>1 DEF CountsFrom, JobType, Now
  <2> HIDE DEF row
  <2>3. [Saved EXCEPT ![j] = row] \in Lists /\ Served([Saved EXCEPT ![j] = row], fired)
    BY <1>1, <2>1, <2>2, EditServes DEF Lists
  <2>4. SaveJobs([Saved EXCEPT ![j] = row])
    <3>1. [Saved EXCEPT ![j] = row]
          = [Saved EXCEPT ![j].enabled = enabled, ![j].enabledAt = IF enabled THEN Now ELSE @]
      BY <1>1 DEF row, Lists
    <3> QED
      BY <1>3, <3>1 DEF SetJobEnabled
  <2> QED
    BY <2>3, <2>4, SaveOnce
<1>4. ASSUME NEW a \in Actions, NEW s \in Schedules, AddJob(j, a, s)
      PROVE  OnceInv'
  <2>1. NewJob(a, s) \in JobType
    BY <1>1, SchedulerAssumption DEF NewJob, JobType, Now
  <2>2. [Saved EXCEPT ![j] = NewJob(a, s)] \in Lists
    BY <1>1, <2>1 DEF Lists
  <2>3. CountsFrom(NewJob(a, s)) = clock
    BY DEF NewJob, CountsFrom, Now
  <2> QED
    BY <1>4, <2>2, <2>3, EditServes, SaveOnce DEF AddJob
<1>5. ASSUME NEW row, Present(j), row \in JobType, CountsFrom(row) = CountsFrom(Saved[j]),
             SaveJobs([Saved EXCEPT ![j] = row])
      PROVE  OnceInv'
  <2>1. [Saved EXCEPT ![j] = row] \in Lists
    BY <1>1, <1>5 DEF Lists
  <2> QED
    BY <1>5, <2>1, EditServes, SaveOnce
<1>6. ASSUME NEW s \in Schedules, Present(j), SaveJobs([Saved EXCEPT ![j].schedule = s])
      PROVE  OnceInv'
  <2>1. /\ [Saved[j] EXCEPT !.schedule = s] \in JobType
        /\ CountsFrom([Saved[j] EXCEPT !.schedule = s]) = CountsFrom(Saved[j])
    BY <1>2, <1>6 DEF JobType, CountsFrom
  <2>2. [Saved EXCEPT ![j].schedule = s] = [Saved EXCEPT ![j] = [Saved[j] EXCEPT !.schedule = s]]
    BY <1>1 DEF Lists
  <2> QED
    BY <1>5, <1>6, <2>1, <2>2
<1>7. ASSUME NEW a \in Actions, NEW s \in Schedules, UpdateJob(j, a, s)
      PROVE  OnceInv'
  <2> DEFINE row == [Saved[j] EXCEPT !.action = a, !.schedule = s]
  <2>1. Present(j) /\ row \in JobType /\ CountsFrom(row) = CountsFrom(Saved[j])
    BY <1>2, <1>7 DEF UpdateJob, JobType, CountsFrom
  <2>2. [Saved EXCEPT ![j].action = a, ![j].schedule = s] = [Saved EXCEPT ![j] = row]
    BY <1>1 DEF Lists
  <2> HIDE DEF row
  <2> QED
    BY <1>5, <1>6, <1>7, <2>1, <2>2 DEF UpdateJob
<1>8. CASE DeleteJob(j)
  <2>1. [Saved EXCEPT ![j] = NoJob] \in Lists
    BY <1>1 DEF Lists
  <2> QED
    BY <1>8, <2>1, EditServes, SaveOnce DEF DeleteJob
<1>9. CASE \E s \in Schedules : SetJobSchedule(j, s)
  BY <1>6, <1>9 DEF SetJobSchedule
<1> QED
  BY <1>3, <1>4, <1>7, <1>8, <1>9

-----------------------------------------------------------------------------
(* Steps of the runner and of the tick. *)

LEMMA TailEntries ==
    ASSUME NEW S, NEW q \in Seq(S), q # <<>>
    PROVE  /\ Head(q) = q[1] /\ 1 \in DOMAIN q /\ Tail(q) \in Seq(S)
           /\ \A i \in DOMAIN Tail(q) : i + 1 \in DOMAIN q /\ i + 1 # 1 /\ Tail(q)[i] = q[i + 1]
OBVIOUS

(* What makes way was the first in the queue, and the only one of its job. *)
LEMMA GiveUpOnce ==
    ASSUME OnceInv, SchedulerInv', queue # <<>>, NEW run, run.id = Head(queue).id, GiveUp(run),
           UNCHANGED <<fired, due, ticking, lastTick, clock>>, FileServed(jobs', fired)
    PROVE  OnceInv'
<1>1. /\ queue' = Tail(queue) /\ running' = NoRun
      /\ waiting' = IF waiting = Head(queue).id THEN NoJob ELSE waiting
  BY DEF GiveUp, StepAside, Resume
<1>2. /\ Head(queue) = queue[1] /\ 1 \in DOMAIN queue /\ queue' \in Seq(Asked)
      /\ \A i \in DOMAIN queue' : i + 1 \in DOMAIN queue /\ i + 1 # 1 /\ queue'[i] = queue[i + 1]
  BY <1>1, TailEntries DEF OnceInv, RunnerInv
<1>3. \A i \in DOMAIN queue' : i \in Nat
  BY <1>2
<1>4. RunnerInv'
  <2>1. ASSUME NEW i \in DOMAIN queue', NEW k \in DOMAIN queue', queue'[i].id = queue'[k].id
        PROVE  i = k
    <3>1. i + 1 = k + 1
      BY <1>2, <2>1 DEF OnceInv, RunnerInv
    <3> QED
      BY <1>3, <3>1
  <2> QED
    BY <1>1, <1>2, <2>1 DEF RunnerInv
<1>5. TickInv'
  <2>1. ASSUME NEW i \in DOMAIN queue', queue'[i].for # 0
        PROVE  queue'[i].id = waiting' /\ queue'[i].for <= lastTick
    <3>1. queue[i + 1].id = waiting /\ queue[i + 1].for <= lastTick
      BY <1>2, <2>1 DEF OnceInv, TickInv
    <3>2. queue[i + 1].id # queue[1].id
      BY <1>2 DEF OnceInv, RunnerInv
    <3> QED
      BY <1>1, <1>2, <3>1, <3>2
  <2>2. waiting' \in {waiting, NoJob}
    BY <1>1
  <2>3. \A d \in due : d.id # waiting'
    BY <2>2, SchedulerAssumption DEF OnceInv, TickInv, Asked
  <2> QED
    BY <2>1, <2>2, <2>3 DEF OnceInv, TickInv
<1>6. FiredInv'
  <2>1. \A i \in DOMAIN queue' : queue'[i].for # 0 => <<queue'[i].id, queue'[i].for>> \notin fired
    BY <1>2 DEF OnceInv, FiredInv
  <2> QED
    BY <1>1, <2>1 DEF OnceInv, FiredInv
<1> QED
  BY <1>4, <1>5, <1>6 DEF OnceInv

LEMMA EnqueueKeeps ==
    ASSUME RunnerInv, NEW run \in Asked, queue' = Enqueued(run), running' = running
    PROVE  /\ RunnerInv'
           /\ \A i \in DOMAIN queue' : \/ i \in DOMAIN queue /\ queue'[i] = queue[i]
                                       \/ queue'[i] = run
<1>1. CASE run.id \in Pending
  BY <1>1 DEF Enqueued, RunnerInv
<1>2. CASE run.id \notin Pending
  <2>1. queue' = Append(queue, run)
    BY <1>2 DEF Enqueued
  <2>2. /\ queue' \in Seq(Asked) /\ DOMAIN queue' = DOMAIN queue \cup {Len(queue) + 1}
        /\ queue'[Len(queue) + 1] = run /\ \A i \in DOMAIN queue : queue'[i] = queue[i]
    BY <2>1 DEF RunnerInv
  <2>3. \A i \in DOMAIN queue : queue[i].id # run.id
    BY <1>2 DEF Pending
  <2>4. queue # <<>> => queue' # <<>> /\ Head(queue') = Head(queue)
    BY <2>1 DEF RunnerInv
  <2>5. \A i, k \in DOMAIN queue' : queue'[i].id = queue'[k].id => i = k
    BY <2>2, <2>3 DEF RunnerInv
  <2> QED
    BY <2>2, <2>4, <2>5 DEF RunnerInv
<1> QED
  BY <1>1, <1>2

LEMMA RunManuallyOnce ==
    ASSUME OnceInv, SchedulerInv', NEW j \in JobIds, RunManually(j)
    PROVE  OnceInv'
<1> DEFINE run == [id |-> j, for |-> 0]
<1>1. run \in Asked /\ run.for = 0
  BY DEF Asked
<1>2. queue' = Enqueued(run) /\ UNCHANGED <<jobs, clock, lastTick, fired, running, due, waiting, ticking>>
  BY DEF RunManually
<1> HIDE DEF run
<1>3. /\ RunnerInv'
      /\ \A i \in DOMAIN queue' : (i \in DOMAIN queue /\ queue'[i] = queue[i]) \/ queue'[i].for = 0
  BY <1>1, <1>2, EnqueueKeeps DEF OnceInv
<1>4. TickInv'
  BY <1>2, <1>3 DEF OnceInv, TickInv
<1>5. FiredInv'
  BY <1>2, <1>3 DEF OnceInv, FiredInv
<1> QED
  BY <1>3, <1>4, <1>5 DEF OnceInv

LEMMA ContinueTickOnce ==
    ASSUME OnceInv, SchedulerInv', ContinueTick
    PROVE  OnceInv'
<1>1. UNCHANGED <<jobs, clock, lastTick, fired, running>> /\ ticking /\ waiting = NoJob
  BY DEF ContinueTick
<1>2. CASE due = {} /\ ticking' = FALSE /\ UNCHANGED <<queue, due, waiting>>
  <2>1. RunnerInv' /\ FiredInv'
    BY <1>1, <1>2 DEF OnceInv, RunnerInv, FiredInv
  <2>2. TickInv'
    BY <1>1, <1>2 DEF OnceInv, TickInv
  <2> QED
    BY <2>1, <2>2 DEF OnceInv
<1>3. ASSUME NEW next \in due, queue' = Enqueued(next), waiting' = next.id, due' = due \ {next},
             UNCHANGED ticking
      PROVE  OnceInv'
  <2>1. next \in Asked /\ next.id \in JobIds
    BY DEF OnceInv, TickInv, Asked
  <2>2. /\ RunnerInv'
        /\ \A i \in DOMAIN queue' : (i \in DOMAIN queue /\ queue'[i] = queue[i]) \/ queue'[i] = next
    BY <1>1, <1>3, <2>1, EnqueueKeeps DEF OnceInv
  <2>3. \A i \in DOMAIN queue : queue[i].for = 0
    BY <1>1, EntryIsAsked, SchedulerAssumption DEF OnceInv, TickInv
  <2>4. \A i \in DOMAIN queue' : queue'[i].for # 0 => queue'[i] = next
    BY <2>2, <2>3
  <2>5. next.for <= lastTick /\ <<next.id, next.for>> \notin fired
    BY DEF OnceInv, TickInv, FiredInv
  <2>6. TickInv'
    <3>1. \A d \in due' : d \in due /\ d.id # next.id
      BY <1>3 DEF OnceInv, TickInv
    <3> QED
      BY <1>1, <1>3, <2>1, <2>4, <2>5, <3>1 DEF OnceInv, TickInv
  <2>7. FiredInv'
    BY <1>1, <1>3, <2>4, <2>5 DEF OnceInv, FiredInv
  <2> QED
    BY <2>2, <2>6, <2>7 DEF OnceInv
<1> QED
  BY <1>2, <1>3 DEF ContinueTick

(* What is due is due after all that was fired for the same job. *)
LEMMA StartTickOnce ==
    ASSUME OnceInv, SchedulerInv', StartTick
    PROVE  OnceInv'
<1>1. /\ UNCHANGED <<jobs, clock, queue, running, waiting, fired>> /\ lastTick' = clock
      /\ due' = {[id |-> j, for |-> nextRun(Saved[j], lastTick)] : j \in DueJobs}
      /\ ~ticking /\ ticking' = TRUE
  BY DEF StartTick, Now
<1>2. /\ clock \in Nat \ {0} /\ lastTick \in Nat \ {0} /\ lastTick <= clock /\ Saved \in Lists
      /\ waiting = NoJob
  BY <1>1, ClockIsANumber DEF OnceInv, TickInv
<1>3. ASSUME NEW d \in due'
      PROVE  /\ d \in Asked /\ d.for # 0 /\ d.for <= clock
             /\ <<d.id, d.for>> \notin fired
  <2>1. PICK j \in DueJobs : d = [id |-> j, for |-> nextRun(Saved[j], lastTick)]
    BY <1>1, <1>3
  <2>2. j \in JobIds /\ Saved[j] # NoJob /\ Saved[j] \in JobType /\ nextRun(Saved[j], lastTick) <= clock
    BY <1>2, <2>1 DEF DueJobs, Present, Lists, Now
  <2>3. d.id = j /\ d.for = nextRun(Saved[j], lastTick)
    BY <2>1
  <2>4. /\ d.for \in Nat \ {0}
        /\ d.for > lastTick \/ d.for > CountsFrom(Saved[j]) \/ (CountsFrom(Saved[j]) = 0 /\ d.for = lastTick)
    BY <1>2, <2>2, <2>3, NextRunIsLater
  <2>5. ASSUME <<j, d.for>> \in fired PROVE FALSE
    <3>1. d.for <= lastTick
      BY <2>5 DEF OnceInv, FiredInv
    <3>2. Served(Saved, fired)
      BY DEF OnceInv, FiredInv, FileServed, Saved
    <3>3. CountsFrom(Saved[j]) >= d.for /\ CountsFrom(Saved[j]) \in Nat
      BY <2>2, <2>5, <3>2, TimesAreNumbers DEF Served
    <3> QED
      BY <1>2, <2>4, <3>1, <3>3
  <2>6. d \in Asked
    BY <2>1, <2>2, <2>3, <2>4 DEF Asked
  <2> QED
    BY <2>2, <2>3, <2>4, <2>5, <2>6
<1>4. \A d, e \in due' : d.id = e.id => d = e
  BY <1>1
<1>5. \A i \in DOMAIN queue : queue[i].for = 0
  BY <1>2, EntryIsAsked, SchedulerAssumption DEF OnceInv, TickInv
<1>6. RunnerInv'
  BY <1>1 DEF OnceInv, RunnerInv
<1>7. TickInv'
  <2>1. \A d \in due' : d.id # NoJob
    BY <1>3, SchedulerAssumption DEF Asked
  <2>2. lastTick' = clock /\ clock' = clock /\ waiting' = NoJob /\ ticking' = TRUE /\ queue' = queue
    BY <1>1, <1>2
  <2>3. due' \subseteq Asked
    BY <1>3
  <2> QED
    <3>1. \A d \in due' : d.id # waiting' /\ d.for # 0 /\ d.for <= lastTick'
      BY <1>3, <2>1, <2>2
    <3>2. \A i \in DOMAIN queue' : queue'[i].for = 0
      BY <1>5, <2>2
    <3> QED
      BY <1>2, <1>4, <2>2, <2>3, <3>1, <3>2 DEF TickInv
<1>8. FiredInv'
  <2>1. \A r \in fired : r[2] <= clock
    BY <1>2 DEF OnceInv, FiredInv
  <2> QED
    BY <1>1, <1>3, <2>1 DEF OnceInv, FiredInv
<1> QED
  BY <1>6, <1>7, <1>8 DEF OnceInv

(* A claim is stored in a file that no power cut takes back before the run is
   dispatched, and its job counts from it. *)
LEMMA StartRunOnce ==
    ASSUME OnceInv, SchedulerInv', StartRun
    PROVE  OnceInv'
<1> DEFINE run == Head(queue)
           claimed == Claimed(Saved, run.id)
           rec == [id |-> run.id, for |-> run.for, at |-> Now, job |-> claimed[run.id]]
<1>1. UNCHANGED <<clock, lastTick, due, ticking>> /\ running = NoRun /\ queue # <<>>
  BY DEF StartRun
<1>2. /\ clock \in Nat \ {0} /\ lastTick \in Nat \ {0} /\ lastTick <= clock /\ Saved \in Lists
      /\ jobs \in FileType(Lists) /\ FileServed(jobs, fired) /\ Served(Saved, fired)
      /\ fired \in SUBSET (JobIds \X Nat)
  BY ClockIsANumber DEF OnceInv, TickInv, SchedulerInv, FiredInv, FileServed, Saved
<1>3. run = queue[1] /\ 1 \in DOMAIN queue
  BY <1>1, TailEntries DEF OnceInv, RunnerInv
<1>4. run.id \in JobIds /\ run.for \in Nat
  BY <1>3, EntryIsAsked DEF OnceInv
<1>9. Present(run.id) => claimed \in Lists
  <2>1. clock \in 0 .. MaxTime
    BY SchedulerAssumption DEF OnceInv, SchedulerInv
  <2> QED
    BY <1>2, <2>1, TouchIsAList DEF Claimed, Present, Now
<1>5. run.for <= lastTick /\ (run.for # 0 => run.id = waiting)
  BY <1>2, <1>3, <1>4 DEF OnceInv, TickInv
<1>6. CASE UNCHANGED <<jobs, fired>> /\ GiveUp(run)
  BY <1>1, <1>2, <1>6, GiveUpOnce
<1>7. ASSUME Present(run.id), NEW w \in Commits(jobs, claimed), jobs' = w.file, ~w.done,
             GiveUp(run), UNCHANGED fired
      PROVE  OnceInv'
  <2>1. claimed \in Lists
    BY <1>7, <1>9
  <2>2. \A r \in fired : r[2] <= clock
    BY <1>2 DEF OnceInv, FiredInv
  <2>3. Served(claimed, fired)
    BY <1>2, <1>4, <1>7, <2>2, TouchServes DEF Claimed, Present, Now
  <2>4. FileServed(jobs', fired)
    BY <1>2, <1>7, <2>1, <2>3, CommitServes
  <2> QED
    BY <1>1, <1>7, <2>4, GiveUpOnce
<1>8. ASSUME Present(run.id), NEW w \in Commits(jobs, claimed), jobs' = w.file, w.done,
             running' = rec, fired' \subseteq fired \cup {<<run.id, run.for>>}, UNCHANGED <<queue, waiting>>
      PROVE  OnceInv'
  <2>1. claimed \in Lists
    BY <1>8, <1>9
  <2>2. /\ fired' \in SUBSET (JobIds \X Nat)
        /\ \A r \in fired' : r[2] <= lastTick
        /\ \A r \in fired' : r \in fired \/ (r[1] = run.id /\ r[2] = run.for)
    BY <1>2, <1>4, <1>5, <1>8 DEF OnceInv, FiredInv
  <2>3. Served(claimed, fired')
    <3>1. \A r \in fired' : r[2] <= clock
      BY <1>2, <2>2
    <3> QED
      BY <1>2, <1>4, <1>8, <2>2, <3>1, TouchServes DEF Claimed, Present, Now
  <2>4. FileServed(jobs', fired')
    <3>1. jobs' = Confirmed(jobs, claimed)
      BY <1>8, CommitIsAny
    <3>2. jobs'.limbo = {} /\ jobs'.disk = claimed /\ jobs'.cache = claimed
      BY <1>2, <3>1 DEF Confirmed, FileType
    <3> QED
      BY <2>3, <3>2 DEF FileServed
  <2>5. running'.id = run.id /\ running'.for = run.for /\ running'.at = clock
    BY <1>8 DEF Now
  <2>6. running' # NoRun
    <3>1. claimed[run.id] \in JobType
      <4>1. claimed[run.id] = [Saved[run.id] EXCEPT !.lastRunAt = Now]
        BY <1>2, <1>4 DEF Claimed, Lists
      <4>2. Saved[run.id] \in JobType /\ Now \in 0 .. MaxTime
        BY <1>2, <1>4, <1>8, SchedulerAssumption DEF Lists, Present, Now, OnceInv, SchedulerInv
      <4> QED
        BY <4>1, <4>2 DEF JobType
    <3>2. Now \in Nat
      BY <1>2 DEF Now
    <3> HIDE DEF claimed, run
    <3>3. rec \in [id : JobIds, for : Nat, at : Nat, job : JobType]
      BY <1>4, <3>1, <3>2
    <3> QED
      BY <1>8, <3>3, SchedulerAssumption
  <2>7. RunnerInv'
    BY <1>1, <1>8, <2>5 DEF OnceInv, RunnerInv
  <2>8. TickInv'
    BY <1>1, <1>8 DEF OnceInv, TickInv
  <2>9. FiredInv'
    <3>1. ASSUME NEW d \in due PROVE <<d.id, d.for>> \notin fired'
      <4>1. d.id # waiting /\ d.for # 0 /\ <<d.id, d.for>> \notin fired
        BY DEF OnceInv, TickInv, FiredInv
      <4> QED
        BY <1>5, <2>2, <4>1
    <3>2. ASSUME NEW i \in DOMAIN queue, queue[i].for # 0, i # 1
          PROVE  <<queue[i].id, queue[i].for>> \notin fired'
      <4>1. queue[i].id # run.id /\ <<queue[i].id, queue[i].for>> \notin fired
        BY <1>3, <3>2 DEF OnceInv, RunnerInv, FiredInv
      <4> QED
        BY <2>2, <4>1
    <3>3. \A r \in fired' : r[2] <= clock
      BY <1>2, <2>2
    <3> QED
      BY <1>1, <1>8, <2>2, <2>4, <2>5, <2>6, <3>1, <3>2, <3>3 DEF FiredInv
  <2> QED
    BY <2>7, <2>8, <2>9 DEF OnceInv
<1> QED
  BY <1>6, <1>7, <1>8 DEF StartRun

LEMMA FinishRunOnce ==
    ASSUME OnceInv, SchedulerInv', FinishRun
    PROVE  OnceInv'
<1>1. /\ UNCHANGED <<clock, lastTick, due, ticking, fired>> /\ running # NoRun /\ GiveUp(running)
      /\ \E w \in IF Present(running.id) THEN Commits(jobs, Recorded(Saved, running))
                  ELSE Untouched(jobs) : jobs' = w.file
  BY DEF FinishRun
<1>2. queue # <<>> /\ running.id = Head(queue).id /\ running.at \in 1 .. MaxTime
  BY <1>1 DEF OnceInv, RunnerInv, SchedulerInv
<1>3. /\ Saved \in Lists /\ jobs \in FileType(Lists) /\ FileServed(jobs, fired) /\ Served(Saved, fired)
      /\ fired \in SUBSET (JobIds \X Nat)
  BY ClockIsANumber DEF OnceInv, SchedulerInv, FiredInv, FileServed, Saved
<1>4. running.id \in JobIds
  BY <1>2, EntryIsAsked, TailEntries DEF OnceInv, RunnerInv
<1>5. CASE Present(running.id)
  <2>1. Recorded(Saved, running) \in Lists
    <3>1. running.at \in 0 .. MaxTime
      BY <1>2, SchedulerAssumption
    <3> QED
      BY <1>3, <1>5, <3>1, TouchIsAList DEF Recorded, Present
  <2>2. \A r \in fired : r[1] = running.id => r[2] <= running.at
    BY <1>1 DEF OnceInv, FiredInv
  <2>3. running.at \in Nat \ {0}
    BY <1>2
  <2>4. Served(Recorded(Saved, running), fired)
    BY <1>3, <1>4, <1>5, <2>2, <2>3, TouchServes DEF Recorded, Present
  <2>5. FileServed(jobs', fired)
    BY <1>1, <1>3, <1>5, <2>1, <2>4, CommitServes
  <2> QED
    BY <1>1, <1>2, <2>5, GiveUpOnce
<1>6. CASE ~Present(running.id)
  <2>1. jobs' = jobs
    BY <1>1, <1>6 DEF Untouched
  <2> QED
    BY <1>1, <1>2, <1>3, <2>1, GiveUpOnce
<1> QED
  BY <1>5, <1>6

LEMMA ModeOnce ==
    ASSUME OnceInv, SchedulerInv', NEW mode \in Modes, SetDockerAccessMode(mode)
    PROVE  OnceInv'
<1>1. UNCHANGED <<clock, lastTick, fired, runVars>>
  BY DEF SetDockerAccessMode
<1>2. jobs \in FileType(Lists) /\ FileServed(jobs, fired) /\ fired \in SUBSET (JobIds \X Nat)
  BY DEF OnceInv, SchedulerInv, FiredInv
<1>3. ASSUME NEW file \in FileType(Lists), FileServed(file, fired),
             NEW a \in Audited(file) \cup Untouched(file)
      PROVE  FileServed(a.file, fired)
  <2>1. file.cache \in Lists /\ Served(file.cache, fired)
    BY <1>3 DEF FileType, FileServed
  <2> QED
    BY <1>3, <2>1, CommitServes DEF Audited, Untouched
<1>4. ASSUME NEW m, NEW s \in Suspensions(jobs, m)
      PROVE  s.file \in FileType(Lists) /\ FileServed(s.file, fired)
  BY <1>2, <1>4, SuspensionStays, SuspensionServes
<1>5. ASSUME RaiseMode(mode) PROVE FileServed(jobs', fired)
  <2>1. PICK s \in Suspensions(jobs, Mode) :
          jobs' = s.file \/ \E a \in Audited(s.file) \cup Untouched(s.file) : jobs' = a.file
    BY <1>5 DEF RaiseMode, SuspendedFirst
  <2> QED
    BY <1>3, <1>4, <2>1
<1>6. ASSUME LowerMode(mode) PROVE FileServed(jobs', fired)
  <2>1. \/ UNCHANGED jobs
        \/ \E s \in Suspensions(jobs, mode) :
             jobs' = s.file \/ \E a \in Audited(s.file) : jobs' = a.file
    BY <1>6 DEF LowerMode
  <2> QED
    BY <1>2, <1>3, <1>4, <2>1
<1>7. FileServed(jobs', fired)
  BY <1>5, <1>6 DEF SetDockerAccessMode
<1>8. clock \in Nat
  BY ClockIsANumber DEF OnceInv
<1> QED
  BY <1>1, <1>7, <1>8, FilesMove

LEMMA StopOnce ==
    ASSUME OnceInv, SchedulerInv', NEW cut \in BOOLEAN, Stop(cut)
    PROVE  OnceInv'
<1>1. /\ queue' = <<>> /\ running' = NoRun /\ due' = {} /\ waiting' = NoJob
      /\ UNCHANGED <<clock, lastTick, fired>>
      /\ jobs' = Reloaded(jobs, jobs.disk) \/ jobs' \in AfterCut(jobs)
  BY DEF Stop, Forgotten
<1>2. FileServed(jobs', fired)
  BY <1>1, ReloadServes DEF OnceInv, SchedulerInv, FiredInv
<1>3. RunnerInv'
  BY <1>1 DEF RunnerInv
<1>4. TickInv'
  BY <1>1 DEF OnceInv, TickInv
<1>5. FiredInv'
  BY <1>1, <1>2 DEF OnceInv, FiredInv
<1> QED
  BY <1>3, <1>4, <1>5 DEF OnceInv

LEMMA BootOnce ==
    ASSUME OnceInv, SchedulerInv', NEW max \in Ceilings, Boot(max)
    PROVE  OnceInv'
<1>1. UNCHANGED <<clock, fired, runVars>> /\ lastTick' = clock
  BY DEF Boot, Now
<1>2. jobs \in FileType(Lists) /\ FileServed(jobs, fired) /\ fired \in SUBSET (JobIds \X Nat)
  BY DEF OnceInv, SchedulerInv, FiredInv
<1>3. \/ UNCHANGED jobs
      \/ \E a \in Selections(access, max) : \E s \in Suspensions(jobs, a.file.cache) :
            jobs' = s.file \/ jobs' = Reloaded(s.file, s.file.disk)
  BY DEF Boot
<1>4. FileServed(jobs', fired)
  BY <1>2, <1>3, SuspensionStays, SuspensionServes, ReloadServes
<1>5. clock \in Nat
  BY ClockIsANumber DEF OnceInv
<1> QED
  BY <1>1, <1>4, <1>5, FilesMove

LEMMA NextOnce == OnceInv /\ [Next]_vars => OnceInv'
<1> SUFFICES ASSUME OnceInv, [Next]_vars PROVE OnceInv'
  OBVIOUS
<1>1. SchedulerInv'
  BY NextInv DEF OnceInv
<1>2. clock \in Nat /\ jobs \in FileType(Lists) /\ FileServed(jobs, fired)
  BY ClockIsANumber DEF OnceInv, SchedulerInv, FiredInv
<1>3. CASE Pass
  <2>1. clock' >= clock /\ UNCHANGED <<fired, runVars, jobs, lastTick>>
    BY <1>2, <1>3 DEF Pass
  <2> QED
    BY <1>1, <1>2, <2>1, FilesMove
<1>4. CASE OtherSave
  <2>1. Saved \in Lists /\ Served(Saved, fired)
    BY <1>2, ClockIsANumber DEF OnceInv, Saved, FileServed
  <2> QED
    BY <1>1, <1>4, <2>1, SaveOnce DEF OtherSave
<1>5. CASE StartRun \/ FinishRun \/ StartTick \/ ContinueTick
  BY <1>1, <1>5, StartRunOnce, FinishRunOnce, StartTickOnce, ContinueTickOnce
<1>6. CASE \/ \E mode \in Modes : SetDockerAccessMode(mode)
           \/ \E cut \in BOOLEAN : Stop(cut)
           \/ \E max \in Ceilings : Boot(max)
  BY <1>1, <1>6, ModeOnce, StopOnce, BootOnce
<1>7. CASE \E j \in JobIds :
             \/ \E enabled \in BOOLEAN : SetJobEnabled(j, enabled)
             \/ \E s \in Schedules : SetJobSchedule(j, s)
             \/ \E a \in Actions, s \in Schedules : AddJob(j, a, s) \/ UpdateJob(j, a, s)
             \/ DeleteJob(j)
  BY <1>1, <1>7, HandlersOnce
<1>8. CASE \E j \in JobIds : RunManually(j)
  BY <1>1, <1>8, RunManuallyOnce
<1>9. CASE UNCHANGED vars
  <2>1. clock' = clock /\ UNCHANGED <<fired, runVars, jobs, lastTick>>
    BY <1>9 DEF vars, runVars
  <2> QED
    BY <1>1, <1>2, <2>1, FilesMove
<1> QED
  BY <1>3, <1>4, <1>5, <1>6, <1>7, <1>8, <1>9 DEF Next

(* What is dispatched was not dispatched before. *)
LEMMA NothingTwice ==
    ASSUME OnceInv, [Next]_vars, NEW r \in fired, r[2] # 0, running = NoRun, running' # NoRun
    PROVE  <<running'.id, running'.for>> # r
<1>1. CASE StartRun
  <2> DEFINE run == Head(queue)
  <2>1. queue # <<>> /\ running'.id = run.id /\ running'.for = run.for
    BY <1>1 DEF StartRun, GiveUp
  <2>2. run = queue[1] /\ 1 \in DOMAIN queue
    BY <2>1, TailEntries DEF OnceInv, RunnerInv
  <2>3. run.for # 0 => <<run.id, run.for>> \notin fired
    BY <2>2 DEF OnceInv, FiredInv
  <2> QED
    BY <2>1, <2>3
<1>2. CASE ~StartRun
  <2>1. running' = running
    BY <1>2 DEF Next, vars, runVars, SaveJobs, SetJobEnabled, SetJobSchedule, AddJob, UpdateJob,
                DeleteJob, RunManually, OtherSave, FinishRun, StartTick, ContinueTick,
                SetDockerAccessMode, Stop, Forgotten, Boot, Pass, GiveUp
  <2> QED
    BY <2>1
<1> QED
  BY <1>1, <1>2

(* runDueJobs moves its window before it awaits a job, and executeJob stores
   the claim before it dispatches: so no scheduled time of a job is dispatched
   twice, whatever is edited, restarted, cut or not confirmed in between. *)
THEOREM EachTimeOnce == Spec => AtMostOncePerOccurrence
<1> DEFINE Again == \A r \in fired : r[2] # 0 /\ running = NoRun /\ running' # NoRun
                                       => <<running'.id, running'.for>> # r
<1>1. OnceInv /\ [Next]_vars => [Again]_running
  BY NothingTwice
<1>2. Spec => []OnceInv
  BY InitOnce, NextOnce, PTL DEF Spec
<1> QED
  BY <1>1, <1>2, PTL DEF Spec, AtMostOncePerOccurrence

-----------------------------------------------------------------------------
(* Discovery. *)


Cons == [Containers -> [state : {"absent", "running", "stopped"}, labels : SUBSET Keys]]
Dirs == [Folders -> Keys \cup {None}]
Rows == UNION {[I -> Row] : I \in SUBSET Instances}
Sinces == [keys : SUBSET (Instances \X Keys), ran : SUBSET Containers]
Sweeps == [at : {"none", "done"}] \cup [at : {"docker"}, since : Sinces]
          \cup [at : {"files"}, since : Sinces, con : Cons]
          \cup [at : {"dial"}, since : Sinces, rows : Rows]
AskedJobs == {AtRest} \cup [at : {"discover", "reuse"}, kind : {"show", "build", "manual", "mint"}]
             \cup [at : {"mint"}, on : Containers, left : Int] \cup [at : {"read"}, on : Containers]

(* The world at some time since: everything that stands in cs and ds. *)
Covers(since, cs) ==
    /\ \A c \in Containers : \A k \in Keys :
          cs[c].state # "absent" /\ k \in cs[c].labels => <<c, k>> \in since.keys
    /\ \A c \in Containers : cs[c].state = "running" => c \in since.ran
CoversFolders(since, ds) == \A f \in Folders : ds[f] # None => <<f, ds[f]>> \in since.keys

(* Two instances that owe their key to a folder owe it to two folders. *)
LentOnce(rows, since) ==
    \A i, j \in DOMAIN rows :
        /\ i # j /\ rows[i].key # None /\ rows[i].key = rows[j].key
        /\ <<i, rows[i].key>> \notin since.keys /\ <<j, rows[i].key>> \notin since.keys
        => \E f, g \in Folders : f # g /\ <<i, f>> \in Meets /\ <<j, g>> \in Meets

RowsStood(rows, since) ==
    /\ \A i \in DOMAIN rows :
          /\ rows[i].key # None => Had(since, i, rows[i].key)
          /\ i \in Containers => rows[i].state = "stopped" \/ (rows[i].state = "running" /\ i \in since.ran)
    /\ LentOnce(rows, since)

DiscoveryTyped ==
    /\ con \in Cons /\ dir \in Dirs
    /\ sweep \in Sweeps /\ job \in [Requests -> AskedJobs]
    /\ cached.since \in Sinces /\ cached.rows \in Rows
    /\ cached \in [rows : Rows, young : BOOLEAN, since : Sinces]

DiscoveryInv ==
    /\ DiscoveryTyped
    /\ RowsStood(cached.rows, cached.since)
    /\ sweep.at \in {"docker", "files", "dial"} => Covers(sweep.since, con) /\ CoversFolders(sweep.since, dir)
    /\ sweep.at = "files" => Covers(sweep.since, sweep.con)
    /\ sweep.at = "dial" => RowsStood(sweep.rows, sweep.since)
    /\ \A r \in Requests : job[r].at = "reuse" => job[r].kind # "build"
    /\ handed /\ kept /\ plain

(* What stood since an earlier time stood since a later one. *)
LEMMA StoodLonger ==
    ASSUME NEW rows \in Rows, NEW s \in Sinces, NEW t \in Sinces, RowsStood(rows, s)
    PROVE  RowsStood(rows, And(s, t))
<1>1. \A x \in Instances \X Keys : x \in s.keys => x \in And(s, t).keys
  BY DEF And, Sinces
<1>2. s.keys \subseteq And(s, t).keys /\ s.ran \subseteq And(s, t).ran
  BY DEF And, Sinces
<1>3. LentOnce(rows, And(s, t))
  BY <1>2 DEF LentOnce, RowsStood
<1> QED
  BY <1>2, <1>3 DEF RowsStood, Had

LEMMA StandingTyped ==
    ASSUME con \in Cons, dir \in Dirs
    PROVE  Standing \in Sinces /\ Covers(Standing, con) /\ CoversFolders(Standing, dir)
BY DEF Standing, Sinces, Covers, CoversFolders, Cons, Dirs, Instances

LEMMA CoversLonger ==
    ASSUME NEW s \in Sinces, NEW t \in Sinces, NEW cs, NEW ds
    PROVE  /\ And(s, t) \in Sinces
           /\ Covers(s, cs) \/ Covers(t, cs) => Covers(And(s, t), cs)
           /\ CoversFolders(s, ds) \/ CoversFolders(t, ds) => CoversFolders(And(s, t), ds)
<1>1. And(s, t) \in Sinces
  BY DEF And, Sinces
<1>2. s.keys \subseteq And(s, t).keys /\ s.ran \subseteq And(s, t).ran
  BY DEF And, Sinces
<1>3. t.keys \subseteq And(s, t).keys /\ t.ran \subseteq And(s, t).ran
  BY DEF And, Sinces
<1> QED
  BY <1>1, <1>2, <1>3 DEF Covers, CoversFolders

LEMMA ARow ==
    ASSUME NEW k \in Keys \cup {None}, NEW b \in BOOLEAN, NEW s \in {"", "running", "stopped"},
           NEW d \in BOOLEAN
    PROVE  [key |-> k, conflict |-> b, state |-> s, down |-> d] \in Row
BY DEF Row

LEMMA OneCredential ==
    ASSUME NEW ks, ks \subseteq Keys
    PROVE  /\ resolveCredentials(ks).key \in ks \cup {None}
           /\ resolveCredentials(ks).conflict \in BOOLEAN
<1>1. \E k \in ks \cup {None} : ks = {} \/ k \in ks
  OBVIOUS
<1>2. (CHOOSE k \in ks \cup {None} : ks = {} \/ k \in ks) \in ks \cup {None}
  BY <1>1
<1> QED
  BY <1>2 DEF resolveCredentials

(* Where the merge of containers and folders has each key from. *)
LEMMA WhereKeysComeFrom ==
    ASSUME NEW cs \in Cons, NEW ds \in Dirs,
           NEW i \in DOMAIN mergeDetectedServices(cs, ds)
    PROVE  LET row == mergeDetectedServices(cs, ds)[i] 
               here == {c \in Containers : cs[c].state # "absent"}
               files == {f \in Folders : ds[f] # None} IN
           /\ row \in Row /\ i \in Instances
           /\ row.key # None =>
                \/ i \in here /\ row.key \in cs[i].labels
                \/ i \in files /\ row.key = ds[i]
                \/ \E f \in files : <<i, f>> \in Matches(here, files) /\ row.key = ds[f]
           /\ i \in Containers => i \in here /\ row.state = cs[i].state
<1> DEFINE row == mergeDetectedServices(cs, ds)[i]
           here == {c \in Containers : cs[c].state # "absent"}
           files == {f \in Folders : ds[f] # None}
           used == Matches(here, files)
           f0 == CHOOSE f \in files : <<i, f>> \in used
<1>1. /\ i \in here \cup (files \ {m[2] : m \in used})
      /\ row = IF i \in files THEN fromConfigDir(ds, i)
               ELSE IF \E f \in files : <<i, f>> \in used
               THEN Merged(fromDocker(cs, i), fromConfigDir(ds, f0))
               ELSE fromDocker(cs, i)
  BY DEF mergeDetectedServices
<1>2. CASE i \in files
  <2>1. row = fromConfigDir(ds, i) /\ i \in Folders /\ ds[i] \in Keys
    BY <1>1, <1>2 DEF Dirs
  <2>2. i \notin Containers
    BY <2>1, DiscoveryAssumption
  <2>3. row = [key |-> ds[i], conflict |-> FALSE, state |-> "", down |-> FALSE]
    BY <2>1 DEF fromConfigDir
  <2> HIDE DEF row
  <2>4. row \in Row /\ row.key = ds[i]
    <3> DEFINE key == ds[i]
    <3>1. key \in Keys \cup {None} /\ row = [key |-> key, conflict |-> FALSE, state |-> "", down |-> FALSE]
      BY <2>1, <2>3
    <3> HIDE DEF key
    <3>2. row \in Row /\ row.key = key
      BY <3>1 DEF Row
    <3> QED
      BY <3>2 DEF key
  <2> QED
    BY <1>2, <2>1, <2>2, <2>4 DEF Instances, row
<1>3. CASE i \notin files
  <2>1. i \in here /\ i \in Containers /\ cs[i].state \in {"running", "stopped"} /\ cs[i].labels \subseteq Keys
    BY <1>1, <1>3 DEF Cons
  <2> DEFINE c == fromDocker(cs, i)
             own == resolveCredentials(cs[i].labels)
  <2>2. own.key \in cs[i].labels \cup {None} /\ own.conflict \in BOOLEAN
    BY <2>1, OneCredential
  <2>3. c = [key |-> own.key, conflict |-> own.conflict, state |-> cs[i].state,
             down |-> cs[i].state = "stopped"]
    BY DEF fromDocker
  <2> DEFINE stopped == cs[i].state = "stopped"
  <2>7. stopped \in BOOLEAN
    OBVIOUS
  <2> HIDE DEF own
  <2>8. own.key \in Keys \cup {None}
    BY <2>1, <2>2
  <2>4. c \in Row /\ c.key = own.key /\ c.state = cs[i].state
    <3>1. c = [key |-> own.key, conflict |-> own.conflict, state |-> cs[i].state, down |-> stopped]
      BY <2>3
    <3> HIDE DEF c, stopped
    <3> QED
      BY <2>1, <2>2, <2>7, <2>8, <3>1, ARow
  <2> HIDE DEF c
  <2>5. CASE ~ \E f \in files : <<i, f>> \in used
    <3>1. row = c
      BY <1>1, <1>3, <2>5 DEF c
    <3> QED
      BY <2>1, <2>2, <2>4, <3>1 DEF Instances
  <2>6. CASE \E f \in files : <<i, f>> \in used
    <3>1. f0 \in files /\ <<i, f0>> \in used
      BY <2>6
    <3>2. row = Merged(c, fromConfigDir(ds, f0))
      BY <1>1, <1>3, <2>6 DEF c
    <3> HIDE DEF f0, row
    <3>3. ds[f0] \in Keys
      BY <3>1 DEF Dirs
    <3> DEFINE both == resolveCredentials({c.key, ds[f0]} \ {None})
    <3>4. both.key \in {c.key, ds[f0], None} /\ both.conflict \in BOOLEAN
      <4>1. {c.key, ds[f0]} \ {None} \subseteq Keys
        BY <3>3, <2>4 DEF Row
      <4> QED
        BY <4>1, OneCredential
    <3>5. row = [c EXCEPT !.key = both.key, !.conflict = c.conflict \/ FALSE \/ both.conflict]
      BY <3>2 DEF Merged, fromConfigDir
    <3> HIDE DEF both
    <3>6. row \in Row /\ row.key = both.key /\ row.state = c.state
      BY <3>5, <3>4, <3>3, <2>4 DEF Row
    <3>7. row.key # None => (i \in here /\ row.key \in cs[i].labels) \/ row.key = ds[f0]
      BY <3>6, <3>4, <2>4, <2>2, <2>1
    <3> QED
      BY <3>6, <3>7, <3>1, <2>4, <2>1 DEF Instances, row
  <2> QED
    BY <2>5, <2>6
<1> QED
  BY <1>2, <1>3

LEMMA MergedStood ==
    ASSUME NEW cs \in Cons, NEW ds \in Dirs, NEW since \in Sinces,
           Covers(since, cs), CoversFolders(since, ds)
    PROVE  /\ mergeDetectedServices(cs, ds) \in Rows
           /\ RowsStood(mergeDetectedServices(cs, ds), since)
<1> DEFINE rows == mergeDetectedServices(cs, ds)
           here == {c \in Containers : cs[c].state # "absent"}
           files == {f \in Folders : ds[f] # None}
           used == Matches(here, files)
<1>1. \A i \in DOMAIN rows :
        /\ rows[i] \in Row /\ i \in Instances
        /\ rows[i].key # None =>
             \/ i \in here /\ rows[i].key \in cs[i].labels
             \/ i \in files /\ rows[i].key = ds[i]
             \/ \E f \in files : <<i, f>> \in used /\ rows[i].key = ds[f]
        /\ i \in Containers => i \in here /\ rows[i].state = cs[i].state
  BY WhereKeysComeFrom
<1>2. rows = [i \in DOMAIN rows |-> rows[i]]
  BY DEF mergeDetectedServices
<1> HIDE DEF rows
<1>3. rows \in Rows
  <2>1. DOMAIN rows \in SUBSET Instances /\ rows \in [DOMAIN rows -> Row]
    BY <1>1, <1>2
  <2> QED
    BY <2>1 DEF Rows
<1>4. used \subseteq Meets /\ \A m, n \in used : m[1] = n[1] \/ m[2] = n[2] => m = n
  BY DEF Matches, aliasesMeet
<1>5. \A i \in DOMAIN rows : rows[i].key # None =>
        \/ <<i, rows[i].key>> \in since.keys
        \/ \E f \in files : <<i, f>> \in used /\ rows[i].key = ds[f] /\ <<f, rows[i].key>> \in since.keys
  <2> SUFFICES ASSUME NEW i \in DOMAIN rows, rows[i].key # None
               PROVE  \/ <<i, rows[i].key>> \in since.keys
                      \/ \E f \in files : <<i, f>> \in used /\ rows[i].key = ds[f] /\ <<f, rows[i].key>> \in since.keys
    OBVIOUS
  <2>1. rows[i].key \in Keys
    BY <1>1 DEF Row
  <2>2. CASE i \in here /\ rows[i].key \in cs[i].labels
    BY <2>1, <2>2 DEF Covers
  <2>3. CASE i \in files /\ rows[i].key = ds[i]
    BY <2>3 DEF CoversFolders
  <2>4. CASE \E f \in files : <<i, f>> \in used /\ rows[i].key = ds[f]
    BY <2>4 DEF CoversFolders
  <2> QED
    BY <1>1, <2>2, <2>3, <2>4
<1>6. LentOnce(rows, since)
  <2> SUFFICES ASSUME NEW i \in DOMAIN rows, NEW j \in DOMAIN rows,
                      i # j, rows[i].key # None, rows[i].key = rows[j].key,
                      <<i, rows[i].key>> \notin since.keys, <<j, rows[i].key>> \notin since.keys
               PROVE  \E f, g \in Folders : f # g /\ <<i, f>> \in Meets /\ <<j, g>> \in Meets
    BY DEF LentOnce
  <2>1. PICK f \in files : <<i, f>> \in used
    BY <1>5
  <2>2. PICK g \in files : <<j, g>> \in used
    BY <1>5
  <2>3. f # g
    <3>1. <<i, f>> # <<j, g>>
      OBVIOUS
    <3> QED
      BY <2>1, <2>2, <3>1, <1>4
  <2> QED
    BY <2>1, <2>2, <2>3, <1>4
<1>7. \A i \in DOMAIN rows : rows[i].key # None => Had(since, i, rows[i].key)
  BY <1>4, <1>5 DEF Had
<1>8. \A i \in DOMAIN rows : i \in Containers =>
        rows[i].state = "stopped" \/ (rows[i].state = "running" /\ i \in since.ran)
  BY <1>1 DEF Covers, Cons
<1> QED
  BY <1>3, <1>6, <1>7, <1>8 DEF RowsStood, rows

(* The answers of the dialled services change only who is down. *)
LEMMA ProbedStood ==
    ASSUME NEW rows \in Rows, NEW since \in Sinces, NEW answers \in probeInstances(rows),
           RowsStood(rows, since)
    PROVE  mergeLiveProbes(rows, answers) \in Rows /\ RowsStood(mergeLiveProbes(rows, answers), since)
<1> DEFINE next == mergeLiveProbes(rows, answers)
<1>1. PICK I \in SUBSET Instances : rows \in [I -> Row]
  BY DEF Rows
<1>2. \A i \in I : next[i] \in Row /\ next[i].key = rows[i].key /\ next[i].state = rows[i].state
  <2> SUFFICES ASSUME NEW i \in I
               PROVE  next[i] \in Row /\ next[i].key = rows[i].key /\ next[i].state = rows[i].state
    OBVIOUS
  <2> DEFINE row == rows[i]
             down == row.down \/ (i \in DOMAIN answers /\ ~answers[i])
  <2>1. row \in Row
    BY <1>1
  <2>2. next[i] = [row EXCEPT !.down = down]
    BY <1>1 DEF mergeLiveProbes
  <2>3. down \in BOOLEAN
    OBVIOUS
  <2> HIDE DEF row, down, next
  <2>4. next[i] \in Row /\ next[i].key = row.key /\ next[i].state = row.state
    BY <2>1, <2>2, <2>3 DEF Row
  <2> QED
    BY <2>4 DEF row
<1>3. next = [i \in I |-> next[i]] /\ DOMAIN next = I /\ DOMAIN rows = I
  BY <1>1 DEF mergeLiveProbes
<1> HIDE DEF next
<1>4. next \in Rows
  BY <1>2, <1>3 DEF Rows
<1>5. LentOnce(next, since)
  BY <1>2, <1>3 DEF LentOnce, RowsStood
<1>6. RowsStood(next, since)
  BY <1>2, <1>3, <1>5 DEF RowsStood
<1> QED
  BY <1>4, <1>6 DEF next

LEMMA InitDiscovery == DiscoveryInit => DiscoveryInv
<1> SUFFICES ASSUME DiscoveryInit PROVE DiscoveryInv
  OBVIOUS
<1>1. con \in Cons /\ dir \in Dirs
  BY DEF DiscoveryInit, Cons, Dirs, Absent
<1>2. <<>> \in Rows /\ DOMAIN <<>> = {}
  <2>1. DOMAIN <<>> = {}
    OBVIOUS
  <2>2. <<>> \in [{} -> Row]
    BY <2>1
  <2> QED
    BY <2>1, <2>2 DEF Rows
<1>3. NoRows \in [rows : Rows, young : BOOLEAN, since : Sinces]
  BY <1>2 DEF NoRows, Sinces
<1>4. RowsStood(NoRows.rows, NoRows.since)
  BY <1>2 DEF RowsStood, LentOnce, NoRows
<1>5. sweep \in Sweeps /\ sweep.at = "none"
  BY DEF DiscoveryInit, NoSweep, Sweeps
<1>6. job \in [Requests -> AskedJobs] /\ \A r \in Requests : job[r].at = "idle"
  BY DEF DiscoveryInit, AskedJobs, AtRest
<1> QED
  BY <1>1, <1>3, <1>4, <1>5, <1>6 DEF DiscoveryInit, DiscoveryInv, DiscoveryTyped

LEMMA AskStays ==
    ASSUME DiscoveryInv, NEW r \in Requests, NEW fresh \in BOOLEAN,
           NEW kind \in {"show", "build", "manual", "mint"}, kind = "build" => fresh,
           Ask(r, kind, fresh)
    PROVE  DiscoveryInv'
<1>1. CASE sweep.at = "none" /\ MayReuse(fresh)
  <2>1. kind # "build"
    BY <1>1 DEF MayReuse
  <2>2. job' = [job EXCEPT ![r] = Reusing(kind)] /\ Reusing(kind) \in AskedJobs
    BY <1>1 DEF Ask, Reusing, AskedJobs
  <2>3. job' \in [Requests -> AskedJobs]
    BY <2>2 DEF DiscoveryInv, DiscoveryTyped
  <2>4. \A q \in Requests : job'[q].at = "reuse" => job'[q].kind # "build"
    BY <2>1, <2>2 DEF DiscoveryInv, DiscoveryTyped, Reusing
  <2> QED
    BY <1>1, <2>3, <2>4 DEF DiscoveryInv, DiscoveryTyped, Ask, world
<1>2. CASE ~(sweep.at = "none" /\ MayReuse(fresh))
  <2>1. job' = [job EXCEPT ![r] = Waiting(kind)] /\ Waiting(kind) \in AskedJobs
    BY <1>2 DEF Ask, Waiting, AskedJobs
  <2>2. job' \in [Requests -> AskedJobs]
    BY <2>1 DEF DiscoveryInv, DiscoveryTyped
  <2>3. \A q \in Requests : job'[q].at = "reuse" => job'[q].kind # "build"
    BY <2>1 DEF DiscoveryInv, DiscoveryTyped, Waiting
  <2>4. Standing \in Sinces /\ Covers(Standing, con) /\ CoversFolders(Standing, dir)
    BY StandingTyped DEF DiscoveryInv, DiscoveryTyped
  <2>5. CASE sweep' = [at |-> "docker", since |-> Standing]
    <3>1. sweep' \in Sweeps /\ sweep'.at = "docker" /\ sweep'.since = Standing
      BY <2>4, <2>5 DEF Sweeps
    <3> QED
      BY <2>2, <2>3, <2>4, <3>1 DEF DiscoveryInv, DiscoveryTyped, Ask, world
  <2>6. CASE UNCHANGED sweep
    BY <2>2, <2>3, <2>6 DEF DiscoveryInv, DiscoveryTyped, Ask, world
  <2> QED
    BY <1>2, <2>5, <2>6 DEF Ask
<1> QED
  BY <1>1, <1>2

LEMMA SweepStays ==
    ASSUME DiscoveryInv, DockerLists \/ ReadsFolders \/ Dialled \/ CacheAges
    PROVE  DiscoveryInv'
<1>1. CASE DockerLists
  <2>1. PICK cs \in {con, [c \in Containers |-> Absent]} :
           sweep' = [at |-> "files", since |-> sweep.since, con |-> cs]
    BY <1>1 DEF DockerLists
  <2>2. sweep.since \in Sinces /\ Covers(sweep.since, con) /\ CoversFolders(sweep.since, dir)
    BY <1>1 DEF DockerLists, DiscoveryInv, DiscoveryTyped, Sweeps
  <2>3. cs \in Cons /\ Covers(sweep.since, cs)
    BY <2>2 DEF Covers, Absent, Cons, DiscoveryInv, DiscoveryTyped
  <2>4. /\ sweep' \in Sweeps /\ sweep'.at = "files"
        /\ sweep'.since = sweep.since /\ sweep'.con = cs
    BY <2>1, <2>2, <2>3 DEF Sweeps
  <2> QED
    BY <1>1, <2>2, <2>3, <2>4 DEF DockerLists, DiscoveryInv, DiscoveryTyped, world
<1>2. CASE ReadsFolders
  <2>1. /\ sweep.since \in Sinces /\ Covers(sweep.since, sweep.con) /\ CoversFolders(sweep.since, dir)
        /\ sweep.con \in Cons /\ Covers(sweep.since, con)
    BY <1>2 DEF ReadsFolders, DiscoveryInv, DiscoveryTyped, Sweeps
  <2> DEFINE rows == mergeDetectedServices(sweep.con, dir)
  <2>2. rows \in Rows /\ RowsStood(rows, sweep.since)
    BY <2>1, MergedStood DEF DiscoveryInv, DiscoveryTyped
  <2>3. sweep' = [at |-> "dial", since |-> sweep.since, rows |-> rows]
    BY <1>2 DEF ReadsFolders
  <2> HIDE DEF rows
  <2>4. /\ sweep' \in Sweeps /\ sweep'.at = "dial"
        /\ sweep'.since = sweep.since /\ sweep'.rows = rows
    BY <2>1, <2>2, <2>3 DEF Sweeps
  <2> QED
    BY <1>2, <2>1, <2>2, <2>4 DEF ReadsFolders, DiscoveryInv, DiscoveryTyped, world
<1>3. CASE Dialled
  <2>1. sweep.since \in Sinces /\ sweep.rows \in Rows /\ RowsStood(sweep.rows, sweep.since)
    BY <1>3 DEF Dialled, DiscoveryInv, DiscoveryTyped, Sweeps
  <2>2. PICK answers \in probeInstances(sweep.rows) :
           cached' = [rows |-> mergeLiveProbes(sweep.rows, answers), young |-> TRUE, since |-> sweep.since]
    BY <1>3 DEF Dialled
  <2> DEFINE rows == mergeLiveProbes(sweep.rows, answers)
  <2>3. rows \in Rows /\ RowsStood(rows, sweep.since)
    BY <2>1, ProbedStood
  <2>4. sweep' \in Sweeps /\ sweep'.at = "done"
    BY <1>3 DEF Dialled, Sweeps
  <2> HIDE DEF rows
  <2>5. /\ cached' \in [rows : Rows, young : BOOLEAN, since : Sinces]
        /\ cached'.rows = rows /\ cached'.since = sweep.since
    BY <2>1, <2>2, <2>3 DEF rows
  <2> QED
    BY <1>3, <2>1, <2>3, <2>4, <2>5 DEF Dialled, DiscoveryInv, DiscoveryTyped, world
<1>4. CASE CacheAges
  <2>1. /\ cached' \in [rows : Rows, young : BOOLEAN, since : Sinces]
        /\ cached'.rows = cached.rows /\ cached'.since = cached.since
    BY <1>4 DEF CacheAges, DiscoveryInv, DiscoveryTyped
  <2> QED
    BY <1>4, <2>1 DEF CacheAges, DiscoveryInv, DiscoveryTyped, world
<1> QED
  BY <1>1, <1>2, <1>3, <1>4

LEMMA ChangeStays ==
    ASSUME DiscoveryInv, StackChanges \/ NamesMove
    PROVE  DiscoveryInv'
<1>1. PICK cs, ds, p : ChangeTo(cs, ds, p) /\ cs \in Cons /\ ds \in Dirs
  <2>1. con \in Cons /\ dir \in Dirs
    BY DEF DiscoveryInv, DiscoveryTyped
  <2>2. \A c \in Containers, s \in {"absent", "running", "stopped"}, ls \in SUBSET Keys :
          [con EXCEPT ![c] = [state |-> s, labels |-> ls]] \in Cons
    BY <2>1 DEF Cons
  <2>3. \A f \in Folders, k \in Keys \cup {None} : [dir EXCEPT ![f] = k] \in Dirs
    BY <2>1 DEF Dirs
  <2> QED
    BY <2>1, <2>2, <2>3 DEF StackChanges, NamesMove
<1>2. con' \in Cons /\ dir' \in Dirs
  BY <1>1 DEF ChangeTo
<1>3. Standing' \in Sinces /\ Covers(Standing', con') /\ CoversFolders(Standing', dir')
  <2>1. (con \in Cons /\ dir \in Dirs => Standing \in Sinces /\ Covers(Standing, con) /\ CoversFolders(Standing, dir))'
    BY StandingTyped, PTL
  <2> QED
    BY <1>2, <2>1
<1> DEFINE S == Standing'
<1> HIDE DEF S
<1>4. /\ cached' \in [rows : Rows, young : BOOLEAN, since : Sinces]
      /\ cached'.rows = cached.rows /\ cached'.since = And(cached.since, S)
  BY <1>1, <1>3, CoversLonger DEF ChangeTo, DiscoveryInv, DiscoveryTyped, S
<1>5. RowsStood(cached'.rows, cached'.since)
  BY <1>3, <1>4, StoodLonger DEF DiscoveryInv, DiscoveryTyped, S
<1>6. CASE sweep.at \in {"docker", "files", "dial"}
  <2>1. sweep.since \in Sinces /\ sweep' = [sweep EXCEPT !.since = And(@, S)]
    BY <1>1, <1>6 DEF ChangeTo, DiscoveryInv, DiscoveryTyped, Sweeps, S
  <2> DEFINE t == And(sweep.since, S)
  <2>2. t \in Sinces /\ Covers(t, con') /\ CoversFolders(t, dir')
    BY <1>3, <2>1, CoversLonger DEF S
  <2>3. sweep.at = "files" => sweep.con \in Cons /\ Covers(t, sweep.con)
    BY <1>3, <2>1, CoversLonger DEF DiscoveryInv, DiscoveryTyped, Sweeps, S
  <2>4. sweep.at = "dial" => sweep.rows \in Rows /\ RowsStood(sweep.rows, t)
    BY <1>3, <2>1, StoodLonger DEF DiscoveryInv, DiscoveryTyped, Sweeps, S
  <2>5. sweep' = [sweep EXCEPT !.since = t]
    BY <2>1
  <2> HIDE DEF t
  <2>6. /\ sweep' \in Sweeps /\ sweep'.at = sweep.at /\ sweep'.since = t
        /\ sweep.at = "files" => sweep'.con = sweep.con
        /\ sweep.at = "dial" => sweep'.rows = sweep.rows
    BY <1>6, <2>2, <2>5 DEF DiscoveryInv, DiscoveryTyped, Sweeps
  <2>7. UNCHANGED <<job, handed, kept, plain>>
    BY <1>1 DEF ChangeTo
  <2> QED
    BY <1>2, <1>4, <1>5, <2>2, <2>3, <2>4, <2>6, <2>7 DEF DiscoveryInv, DiscoveryTyped
<1>7. CASE sweep.at \notin {"docker", "files", "dial"}
  BY <1>1, <1>2, <1>4, <1>5, <1>7 DEF ChangeTo, DiscoveryInv, DiscoveryTyped
<1> QED
  BY <1>6, <1>7

(* A stored key that is dropped is dropped for another one that stood. *)
LEMMA StaleIsFair ==
    ASSUME DiscoveryInv
    PROVE  Fair(Stale(cached.rows))
<1> SUFFICES ASSUME NEW i \in Stale(cached.rows)
             PROVE  \E k \in Keys \ {stored[i]} : Had(cached.since, i, k)
  BY DEF Fair
<1>1. i \in DOMAIN cached.rows /\ cached.rows[i].key # None /\ cached.rows[i].key # stored[i]
  BY DEF Stale
<1>2. Had(cached.since, i, cached.rows[i].key)
  BY <1>1 DEF DiscoveryInv, RowsStood
<1>3. PICK I \in SUBSET Instances : cached.rows \in [I -> Row]
  BY DEF DiscoveryInv, DiscoveryTyped, Rows
<1>4. cached.rows[i].key \in Keys
  <2>1. cached.rows[i] \in Row
    BY <1>1, <1>3
  <2> QED
    BY <1>1, <2>1 DEF Row
<1> QED
  BY <1>1, <1>2, <1>4

(* A caller that goes on leaves the rows, drops fairly, and is answered. *)
LEMMA CallerStays ==
    ASSUME DiscoveryInv, NEW r \in Requests, currentServices(r), NEW j \in AskedJobs,
           j.at # "reuse", job' = [job EXCEPT ![r] = j], handed', UNCHANGED plain
    PROVE  DiscoveryInv'
<1>1. kept'
  BY StaleIsFair DEF currentServices, DiscoveryInv
<1>2. sweep' \in Sweeps /\ (UNCHANGED sweep \/ sweep'.at = "none")
  BY DEF currentServices, NoSweep, Sweeps, DiscoveryInv, DiscoveryTyped
<1>3. /\ job' \in [Requests -> AskedJobs]
      /\ \A q \in Requests : job'[q].at = "reuse" => job'[q].kind # "build"
  BY DEF DiscoveryInv, DiscoveryTyped
<1>4. UNCHANGED <<con, dir, cached>>
  BY DEF currentServices, world
<1>5. plain' = TRUE
  BY DEF DiscoveryInv
<1> QED
  BY <1>1, <1>2, <1>3, <1>4, <1>5 DEF DiscoveryInv, DiscoveryTyped

LEMMA AtRestIsAJob == AtRest \in AskedJobs /\ AtRest.at = "idle"
BY DEF AtRest, AskedJobs

(* What a transfer takes is judged by rows of a sweep that its own request
   began or waited for. *)
LEMMA BuildStays ==
    ASSUME DiscoveryInv, NEW r \in Requests, buildBundle(r)
    PROVE  DiscoveryInv'
<1>1. job[r].at = "discover"
  BY DEF buildBundle, currentServices, MayGoOn, DiscoveryInv
<1>2. PICK selected \in (SUBSET Instances) \ {{}}, forced \in BOOLEAN :
        LET rows == applyMintedKeys(cached.rows)
            given == {i \in selected : cached.rows[i].key # None} IN
        handed' = (handed /\
           \/ ~(selected \subseteq DOMAIN rows)
           \/ \E i \in selected : ~Transferable(rows[i], forced)
           \/ /\ \A i \in given : Had(cached.since, i, rows[i].key)
              /\ selected \cap Containers \subseteq cached.since.ran)
  BY <1>1 DEF buildBundle
<1> DEFINE rows == applyMintedKeys(cached.rows)
<1>3. PICK I \in SUBSET Instances : cached.rows \in [I -> Row]
  BY DEF DiscoveryInv, DiscoveryTyped, Rows
<1>4. DOMAIN rows = I /\ DOMAIN cached.rows = I
  BY <1>3 DEF applyMintedKeys
<1>5. \A i \in I : /\ rows[i].state = cached.rows[i].state
                   /\ cached.rows[i].key # None => rows[i].key = cached.rows[i].key
  BY <1>3 DEF applyMintedKeys, Row
<1> HIDE DEF rows
<1>6. ASSUME selected \subseteq I, \A i \in selected : Transferable(rows[i], forced)
      PROVE  /\ \A i \in selected : cached.rows[i].key # None => Had(cached.since, i, rows[i].key)
             /\ selected \cap Containers \subseteq cached.since.ran
  <2>1. \A i \in selected : cached.rows[i].key # None => Had(cached.since, i, rows[i].key)
    BY <1>4, <1>5, <1>6 DEF DiscoveryInv, RowsStood
  <2>2. \A i \in selected \cap Containers : cached.rows[i].state # "stopped"
    BY <1>5, <1>6 DEF Transferable, availabilityFor
  <2>3. \A i \in selected \cap Containers : i \in cached.since.ran
    BY <1>4, <1>6, <2>2 DEF DiscoveryInv, RowsStood
  <2> QED
    BY <2>1, <2>3
<1>7. handed' = TRUE
  BY <1>2, <1>4, <1>6 DEF rows, DiscoveryInv
<1> QED
  BY <1>7, CallerStays, AtRestIsAJob DEF buildBundle

LEMMA OthersStay ==
    ASSUME DiscoveryInv, NEW r \in Requests, Show(r) \/ SaveManual(r) \/ MintBegins(r)
    PROVE  DiscoveryInv'
<1>1. handed'
  BY DEF Show, SaveManual, MintBegins, DiscoveryInv
<1>2. CASE Show(r)
  BY <1>1, <1>2, CallerStays, AtRestIsAJob DEF Show
<1>3. CASE SaveManual(r)
  BY <1>1, <1>3, CallerStays, AtRestIsAJob DEF SaveManual
<1>4. CASE MintBegins(r)
  <2>1. PICK c \in Containers :
          job' = [job EXCEPT ![r] = IF c \in DOMAIN cached.rows /\ mintTransportOk(c)
                                    THEN [at |-> "mint", on |-> c, left |-> MintSteps] ELSE AtRest]
    BY <1>4 DEF MintBegins
  <2>2. [at |-> "mint", on |-> c, left |-> MintSteps] \in AskedJobs
    BY DiscoveryAssumption DEF AskedJobs
  <2> QED
    BY <1>1, <1>4, <2>1, <2>2, CallerStays, AtRestIsAJob DEF MintBegins
<1> QED
  BY <1>2, <1>3, <1>4

(* The rest does not touch the rows. *)
LEMMA RowsUntouched ==
    ASSUME DiscoveryInv, UNCHANGED <<con, dir, sweep, cached, handed, kept>>, plain',
           NEW r \in Requests, NEW j \in AskedJobs, j.at # "reuse",
           job' = [job EXCEPT ![r] = j] \/ UNCHANGED job
    PROVE  DiscoveryInv'
<1>1. /\ job' \in [Requests -> AskedJobs]
      /\ \A q \in Requests : job'[q].at = "reuse" => job'[q].kind # "build"
  BY DEF DiscoveryInv, DiscoveryTyped
<1> QED
  BY <1>1 DEF DiscoveryInv, DiscoveryTyped

LEMMA KeysStay ==
    ASSUME DiscoveryInv, NEW r \in Requests, mintRequest(r) \/ ReadBegins(r) \/ Read(r)
    PROVE  DiscoveryInv'
<1>1. UNCHANGED <<con, dir, sweep, cached, handed, kept>>
  BY DEF mintRequest, ReadBegins, Read, world
<1>2. CASE mintRequest(r)
  <2>1. plain'
    BY <1>2 DEF mintRequest, MayConnect, DiscoveryInv
  <2>2. job[r] \in [at : {"mint"}, on : Containers, left : Int]
    BY <1>2 DEF mintRequest, DiscoveryInv, DiscoveryTyped, AskedJobs, AtRest
  <2>3. [job[r] EXCEPT !.left = @ - 1] \in AskedJobs /\ [job[r] EXCEPT !.left = @ - 1].at # "reuse"
    BY <2>2 DEF AskedJobs
  <2>4. \/ job' = [job EXCEPT ![r] = AtRest]
        \/ job' = [job EXCEPT ![r] = [job[r] EXCEPT !.left = @ - 1]]
    BY <1>2 DEF mintRequest
  <2> QED
    BY <1>1, <2>1, <2>3, <2>4, RowsUntouched, AtRestIsAJob
<1>3. CASE ReadBegins(r)
  <2>1. PICK c \in Containers : job' = [job EXCEPT ![r] = [at |-> "read", on |-> c]]
    BY <1>3 DEF ReadBegins
  <2>2. [at |-> "read", on |-> c] \in AskedJobs
    BY DEF AskedJobs
  <2>3. plain'
    BY <1>3 DEF ReadBegins, DiscoveryInv
  <2> QED
    BY <1>1, <2>1, <2>2, <2>3, RowsUntouched
<1>4. CASE Read(r)
  <2>1. plain'
    BY <1>4 DEF Read, DiscoveryInv
  <2> QED
    BY <1>1, <1>4, <2>1, RowsUntouched, AtRestIsAJob DEF Read
<1> QED
  BY <1>2, <1>3, <1>4

LEMMA DiscoveryStep == DiscoveryInv /\ [DiscoveryNext]_discoveryVars => DiscoveryInv'
<1> SUFFICES ASSUME DiscoveryInv, [DiscoveryNext]_discoveryVars PROVE DiscoveryInv'
  OBVIOUS
<1>1. CASE UNCHANGED discoveryVars
  BY <1>1 DEF discoveryVars, DiscoveryInv, DiscoveryTyped
<1>2. CASE DockerLists \/ ReadsFolders \/ Dialled \/ CacheAges
  BY <1>2, SweepStays
<1>3. CASE StackChanges \/ NamesMove
  BY <1>3, ChangeStays
<1>4. CASE \E i \in Instances : forgetMintedKey(i)
  BY <1>4 DEF forgetMintedKey, world, DiscoveryInv, DiscoveryTyped
<1>5. ASSUME NEW r \in Requests,
             \/ Ask(r, "show", FALSE) \/ Ask(r, "show", TRUE) \/ Ask(r, "build", TRUE)
             \/ Ask(r, "manual", FALSE) \/ Ask(r, "mint", FALSE)
      PROVE  DiscoveryInv'
  BY <1>5, AskStays
<1>6. ASSUME NEW r \in Requests,
             \/ Show(r) \/ buildBundle(r) \/ SaveManual(r)
             \/ MintBegins(r) \/ mintRequest(r) \/ ReadBegins(r) \/ Read(r)
      PROVE  DiscoveryInv'
  BY <1>6, BuildStays, OthersStay, KeysStay
<1> QED
  BY <1>1, <1>2, <1>3, <1>4, <1>5, <1>6 DEF DiscoveryNext

LEMMA DiscoveryInvariance == DiscoverySpec => []DiscoveryInv
BY InitDiscovery, DiscoveryStep, PTL DEF DiscoverySpec

(* build.js and detect.js: a transfer takes only what stood since the sweep its
   own request waited for, and a stored key gives way only to another one that
   stood, however the stack changes, sweeps are shared and requests overlap. *)
THEOREM OnlyWhatStoodIsUsed == DiscoverySpec => []UsesWhatStood
<1>1. DiscoveryInv => UsesWhatStood
  BY DEF DiscoveryInv, UsesWhatStood, TransfersAreCurrent, DroppedForAReason
<1> QED
  BY <1>1, DiscoveryInvariance, PTL

(* detect.js and mint.js: the key of a folder goes to one service, and an admin
   password over plain http to private addresses only. *)
THEOREM NoSecretStrays == DiscoverySpec => []SecretsStayHome
<1>1. DiscoveryInv => SecretsStayHome
  <2> SUFFICES ASSUME DiscoveryInv PROVE KeyHasOneHome
    BY DEF DiscoveryInv, SecretsStayHome, PlaintextStaysPrivate
  <2> QED
    BY DEF DiscoveryInv, RowsStood, LentOnce, KeyHasOneHome
<1> QED
  BY <1>1, DiscoveryInvariance, PTL
=============================================================================
