-------------------------- MODULE MobileCertProofs --------------------------
(***************************************************************************)
(* What MobileCert keeps, for any origins, hosts and bounds.               *)
(*                                                                         *)
(* CertInv says what the tls directory, and all that a power cut could     *)
(* leave of it, are at each step of the process that holds the lock.  From *)
(* it every step leaves what the files settle to, installs a pair newer    *)
(* than all before, or is a power cut (CertStep): WhatWasReportedStays and *)
(* OnePairAtATime.  The rest adds where each process may be (Roles,        *)
(* Movement) and the types of the memory and the other files.              *)
(*                                                                         *)
(* CloneIsItsOwn follows what the owner has put and the pair a volume was  *)
(* copied with (CloneFiles), and how far the server gets before the reset  *)
(* that the copy owes (CloneServer).  PhonesStayAtTheirOrigin orders the   *)
(* certificates a power cut could bring back (CertsOrder), what was read   *)
(* of them (LeavesOld), and the binding against each phone (PhonesOk).     *)
(***************************************************************************)
EXTENDS MobileCert, TLAPS

Hosts == {""} \cup {HostOf[o] : o \in Origins}
Certs == [id : Nat, host : Hosts]
StagedSets == [dir : BOOLEAN, key : Nat, cert : Certs, rec : Certs]
Tls == [key : Nat, cert : Certs, rec : Certs, staged : StagedSets]

(* Where a process is while it holds the lock, and elsewhere. *)
Staging == {"stage", "stageKey", "stageCert", "stageRecord"}
Putting == {"putKey", "putCert", "putRecord", "syncLive", "cleanUp", "syncGone"}
Inside == Staging \cup Putting \cup {"settle", "discard", "syncDiscard", "syncStaged", "judge", "installed"}
Outside == {"off", "wait", "clearFlag", "load", "raise", "serve", "revoke"}

Places == [at : Inside \cup Outside, job : Jobs \cup {"none"}, gen : Nat,
           facts : SUBSET {"devices", "seen", "everBound", "originOnly"}]

(* No number of the files is ahead of the count of pairs. *)
Counted(t, n) ==
    t.key <= n /\ t.cert.id <= n /\ t.rec.id <= n /\ t.staged.key <= n /\ t.staged.cert.id <= n

Owners(t) == t.cert.id = owned /\ t.key = owned /\ t.rec.id # owned /\ ~Complete(t.staged)

Fresh(n, possible) ==
    n # 0 /\ n = gens /\ (Careful => owned = 0) /\ \A t \in possible : Settled(t).cert.id < n

(* The files t, and those a power cut could leave, at each step of the process
   that holds the lock; n is the pair it has made itself, if any. *)
Doing(at, n, t, possible) ==
    /\ at \in {"discard", "judge", "stage"} => ~Complete(t.staged)
    /\ at \in {"syncDiscard", "syncGone", "installed"} => t.staged = NoStaged
    /\ at \in Staging => Fresh(n, possible)
    /\ at = "stageKey" => t.staged = Empty
    /\ at = "stageCert" => t.staged = [Empty EXCEPT !.key = n]
    /\ at = "stageRecord" => t.staged = [Empty EXCEPT !.key = n, !.cert = [id |-> n, host |-> HostOf[origin]]]
    /\ at = "syncStaged" => n # 0
    /\ at \in {"syncStaged", "settle"} => n = 0 \/ Complete(t.staged)
    /\ at \in {"putKey", "putCert", "putRecord", "syncLive"} => Complete(t.staged)
    /\ at \in {"syncStaged", "settle", "putKey", "putCert", "putRecord", "syncLive"} => n \in {0, t.staged.key}
    /\ at \in {"putCert", "putRecord", "syncLive"} => t.key = t.staged.key
    /\ at \in {"putRecord", "syncLive"} => t.cert = t.staged.cert
    /\ at = "syncLive" => t.rec = t.staged.rec
    /\ at = "cleanUp" => Settled(t) = [t EXCEPT !.staged = NoStaged]
    /\ at \in {"cleanUp", "syncGone", "installed"} => n \in {0, t.cert.id}
    /\ at = "installed" => n # 0 /\ possible = {t}

PlaceOk(p) ==
    /\ place[p].at \in Inside \cup {"wait"} => place[p].job \in Jobs
    /\ place[p].at \in {"wait", "judge", "discard", "syncDiscard"} => place[p].gen = 0
    /\ place[p].at \in Inside => lock = p /\ Doing(place[p].at, place[p].gen, tls, limbo)

CertTyped ==
    /\ tls \in Tls /\ limbo \subseteq Tls /\ tls \in limbo
    /\ place \in [Procs -> Places] /\ lock \in Procs \cup {Nobody}
    /\ gens \in Nat /\ origin \in Origins
    /\ rotated \in 0..gens /\ owned \in 0..gens /\ copied \in [leaf : 0..gens, nonce : BOOLEAN]

CertInv ==
    /\ CertTyped
    /\ \A t \in limbo : Counted(t, gens)
    /\ \A t \in limbo : Settled(t).cert.id >= rotated
    /\ Careful /\ owned # 0 => \A t \in limbo : Owners(t)
    /\ \A p \in Procs : PlaceOk(p)

(* What a step may do to the files: what they settle to stays, or is a pair
   newer than any before, or is one of those a power cut could leave. *)
Remembered == limbo' \in {limbo, limbo \cup {tls'}, {tls'}}

SamePair == Settled(tls') = Settled(tls) /\ Remembered
NewPair(n) ==
    /\ Settled(tls').key = n /\ Settled(tls').cert.id = n
    /\ \A t \in limbo : Settled(t).cert.id < n
    /\ Remembered
Cut == tls' \in limbo /\ limbo' = {tls'}

-----------------------------------------------------------------------------
(* Places. *)

LEMMA GotoIs ==
    ASSUME place \in [Procs -> Places], NEW p \in Procs, NEW step \in Inside \cup Outside \cup Jobs, Goto(p, step)
    PROVE  /\ place' \in [Procs -> Places] /\ \A q \in Procs \ {p} : place'[q] = place[q]
           /\ step \in Jobs => place'[p].at = "wait" /\ place'[p].job = step /\ place'[p].gen = 0
           /\ step \notin Jobs => place'[p].at = step
           /\ step \notin Jobs \cup {"off", "serve"} => place'[p].job = place[p].job /\ place'[p].gen = place[p].gen
           /\ step \notin {"off", "serve"} => place'[p].facts = place[p].facts
<1>1. CASE step \in Jobs
  <2>1. step \in Jobs /\ "wait" \in Inside \cup Outside /\ 0 \in Nat
    BY <1>1 DEF Outside
  <2>2. place' = [place EXCEPT ![p] = [place[p] EXCEPT !.at = "wait", !.job = step, !.gen = 0]]
    BY <1>1 DEF Goto
  <2>3. [place[p] EXCEPT !.at = "wait", !.job = step, !.gen = 0] \in Places
    BY <2>1 DEF Places
  <2>4. place[p] \in Places
    OBVIOUS
  <2>5. LET v == [place[p] EXCEPT !.at = "wait", !.job = step, !.gen = 0] IN
          v.at = "wait" /\ v.job = step /\ v.gen = 0 /\ v.facts = place[p].facts
    BY <2>4 DEF Places
  <2> QED
    BY <1>1, <2>2, <2>3, <2>5
<1>2. CASE step \in {"off", "serve"}
  <2>1. place' = [place EXCEPT ![p] = [Idle EXCEPT !.at = step]] /\ step \notin Jobs
    BY <1>2 DEF Goto, Jobs
  <2>2. [Idle EXCEPT !.at = step] \in Places /\ [Idle EXCEPT !.at = step].at = step
    BY <1>2 DEF Places, Idle, Outside
  <2> QED
    BY <1>2, <2>1, <2>2
<1>3. CASE step \notin Jobs \cup {"off", "serve"}
  <2>1. place' = [place EXCEPT ![p] = [place[p] EXCEPT !.at = step]]
    BY <1>3 DEF Goto
  <2>2. place[p] \in Places
    OBVIOUS
  <2>3. LET v == [place[p] EXCEPT !.at = step] IN
          /\ v \in Places /\ v.at = step /\ v.job = place[p].job /\ v.gen = place[p].gen
          /\ v.facts = place[p].facts
    BY <1>3, <2>2 DEF Places
  <2> QED
    BY <1>3, <2>1, <2>3
<1> QED
  BY <1>1, <1>2, <1>3

(* A process that is outside and of which nothing is asked. *)
Resting(pl) ==
    /\ pl.at \notin Inside
    /\ pl.at = "wait" => pl.job \in Jobs /\ pl.gen = 0

LEMMA InsideOutside ==
    /\ Inside \cap Outside = {} /\ Inside \cap Jobs = {} /\ Outside \cap Jobs = {}
  BY DEF Inside, Outside, Staging, Putting, Jobs

Exits == Jobs \cup (Outside \ {"wait"})

LEMMA ContinuesIs ==
    ASSUME NEW p \in Procs, place[p].job \in Jobs, NEW outcome
    PROVE  Continues(p, outcome) \in Exits
  BY DEF Continues, Jobs, Procs, Server, Command, Exits, Outside

LEMMA LeaveIs ==
    ASSUME place \in [Procs -> Places], NEW p \in Procs, place[p].job \in Jobs, NEW outcome, Leave(p, outcome)
    PROVE  /\ place' \in [Procs -> Places] /\ \A q \in Procs \ {p} : place'[q] = place[q]
           /\ lock' = Nobody /\ Resting(place'[p])
<1> DEFINE step == Continues(p, outcome)
<1>1. step \in Exits
  BY ContinuesIs
<1>2. step \in Inside \cup Outside \cup Jobs /\ step # "wait" /\ step \notin Inside
  BY <1>1 DEF Exits, Outside, Jobs, Inside, Staging, Putting
<1>3. Goto(p, step) /\ lock' = Nobody
  BY DEF Leave
<1> HIDE DEF step
<1> QED
  BY <1>2, <1>3, GotoIs, InsideOutside DEF Resting, Outside

-----------------------------------------------------------------------------
(* Files. *)

LEMMA EmptySets ==
    /\ NoCert \in Certs /\ NoCert.id = 0
    /\ NoStaged \in StagedSets /\ Empty = [dir |-> TRUE, key |-> 0, cert |-> NoCert, rec |-> NoCert]
    /\ Empty \in StagedSets
    /\ ~Complete(NoStaged) /\ ~Complete(Empty) /\ NoStaged.key = 0 /\ NoStaged.cert.id = 0
    /\ ~NoStaged.dir
<1>1. NoCert \in Certs /\ NoCert.id = 0
  BY DEF NoCert, Certs, Hosts
<1>2. NoStaged = [dir |-> FALSE, key |-> 0, cert |-> NoCert, rec |-> NoCert]
  BY DEF NoStaged
<1> HIDE DEF NoCert
<1>3. NoStaged \in StagedSets
  BY <1>1, <1>2 DEF StagedSets
<1> DEFINE made == [dir |-> TRUE, key |-> 0, cert |-> NoCert, rec |-> NoCert]
<1>4. Empty \in StagedSets /\ made \in StagedSets
  BY <1>1, <1>3 DEF Empty, StagedSets
<1>5. /\ Empty.dir = made.dir /\ Empty.key = made.key
      /\ Empty.cert = made.cert /\ Empty.rec = made.rec
  BY <1>2, <1>3 DEF Empty, StagedSets
<1>6. Empty = made
  BY <1>4, <1>5 DEF StagedSets
<1> QED
  BY <1>1, <1>2, <1>3, <1>6 DEF StagedSets, Complete

LEMMA SettledIs ==
    ASSUME NEW t \in Tls
    PROVE  /\ Settled(t) \in Tls /\ Settled(t).staged = NoStaged
           /\ Complete(t.staged) =>
                Settled(t).key = t.staged.key /\ Settled(t).cert = t.staged.cert /\ Settled(t).rec = t.staged.rec
           /\ ~Complete(t.staged) =>
                Settled(t).key = t.key /\ Settled(t).cert = t.cert /\ Settled(t).rec = t.rec
           /\ Complete(t.staged) => Settled(t).cert.id = Settled(t).key
<1>1. NoStaged \in StagedSets
  BY EmptySets
<1> HIDE DEF NoStaged
<1> QED
  BY <1>1 DEF Settled, Tls, StagedSets, Complete

(* Two directories that settle alike. *)
LEMMA SettledSame ==
    ASSUME NEW s \in Tls, NEW t \in Tls,
           Settled(s).key = Settled(t).key, Settled(s).cert = Settled(t).cert, Settled(s).rec = Settled(t).rec
    PROVE  Settled(s) = Settled(t)
<1>1. Settled(s) \in Tls /\ Settled(t) \in Tls /\ Settled(s).staged = Settled(t).staged
  BY SettledIs
<1> HIDE DEF Settled
<1> QED
  BY <1>1 DEF Tls

LEMMA CountedIs ==
    ASSUME NEW t \in Tls, NEW n \in Nat, Counted(t, n)
    PROVE  /\ Settled(t).cert.id <= n /\ Settled(t).cert.id \in Nat
           /\ \A m \in Nat : n <= m => Counted(t, m)
<1>1. /\ t.key \in Nat /\ t.cert.id \in Nat /\ t.rec.id \in Nat
      /\ t.staged.key \in Nat /\ t.staged.cert.id \in Nat
  BY DEF Tls, Certs, StagedSets
<1>2. \A m \in Nat : n <= m => Counted(t, m)
  BY <1>1 DEF Counted
<1>3. Settled(t).cert.id \in {t.cert.id, t.staged.cert.id}
  BY SettledIs
<1> QED
  BY <1>1, <1>2, <1>3 DEF Counted

-----------------------------------------------------------------------------
(* What every step is put together from: one process moves. *)

LEMMA OneMoves ==
    ASSUME CertInv, NEW p \in Procs,
           place' \in [Procs -> Places], \A q \in Procs \ {p} : place'[q] = place[q],
           \/ \A q \in Procs \ {p} : place[q].at \notin Inside
           \/ UNCHANGED <<tls, limbo, gens, lock>>,
           lock' \in Procs \cup {Nobody}, gens' \in Nat, gens <= gens', UNCHANGED <<origin, owned>>,
           rotated' \in 0..gens', copied' \in [leaf : 0..gens', nonce : BOOLEAN],
           tls' \in Tls, Counted(tls', gens'), tls' \in limbo', limbo' \subseteq limbo \cup {tls'},
           \A t \in limbo' : Settled(t).cert.id >= rotated',
           Careful /\ owned # 0 => Owners(tls'),
           PlaceOk(p)'
    PROVE  CertInv'
<1>1. CertTyped'
  <2>1. owned' \in 0..gens'
    BY DEF CertInv, CertTyped
  <2>2. limbo' \subseteq Tls /\ origin' \in Origins
    BY DEF CertInv, CertTyped
  <2> QED
    BY <2>1, <2>2 DEF CertTyped
<1>2. \A t \in limbo' : Counted(t, gens')
  BY CountedIs DEF CertInv, CertTyped
<1>3. ASSUME Careful, owned' # 0 PROVE \A t \in limbo' : Owners(t)'
  BY <1>3 DEF CertInv, Owners
<1>4. ASSUME NEW q \in Procs \ {p} PROVE PlaceOk(q)'
  <2>1. PlaceOk(q) /\ place'[q] = place[q]
    BY DEF CertInv
  <2>2. CASE place[q].at \notin Inside
    BY <2>1, <2>2 DEF PlaceOk, Inside
  <2>3. CASE UNCHANGED <<tls, limbo, gens, lock>>
    BY <2>1, <2>3 DEF PlaceOk, Doing, Fresh
  <2> QED
    BY <2>2, <2>3
<1> QED
  BY <1>1, <1>2, <1>3, <1>4 DEF CertInv

(* One that rests, and the files are as they were. *)
LEMMA Rests ==
    ASSUME CertInv, NEW p \in Procs,
           place' \in [Procs -> Places], \A q \in Procs \ {p} : place'[q] = place[q], Resting(place'[p]),
           \/ \A q \in Procs \ {p} : place[q].at \notin Inside
           \/ UNCHANGED lock,
           lock' \in Procs \cup {Nobody}, UNCHANGED <<tls, gens, origin, owned>>,
           limbo' \in {limbo, {tls}}, limbo' # limbo => \A q \in Procs \ {p} : place[q].at \notin Inside,
           rotated' \in {rotated, Settled(tls).cert.id}, rotated' # rotated => limbo' = {tls},
           copied' \in [leaf : 0..gens, nonce : BOOLEAN]
    PROVE  CertInv'
<1>1. PlaceOk(p)'
  BY DEF Resting, PlaceOk, Inside, Staging, Putting
<1>2. tls \in Tls /\ tls \in limbo /\ Counted(tls, gens) /\ gens \in Nat /\ gens <= gens
  BY DEF CertInv, CertTyped
<1>3. Settled(tls).cert.id <= gens /\ Settled(tls).cert.id \in Nat
  BY <1>2, CountedIs
<1>4. rotated' \in 0..gens /\ \A t \in limbo' : Settled(t).cert.id >= rotated'
  BY <1>2, <1>3 DEF CertInv, CertTyped
<1>5. Careful /\ owned # 0 => Owners(tls)
  BY <1>2 DEF CertInv
<1>6. limbo' \subseteq limbo \cup {tls}
  BY <1>2
<1>7. Counted(tls', gens') /\ (Careful /\ owned # 0 => Owners(tls'))
  BY <1>2, <1>5
<1>8. \/ \A q \in Procs \ {p} : place[q].at \notin Inside
      \/ UNCHANGED <<tls, limbo, gens, lock>>
  OBVIOUS
<1>9. tls' \in Tls /\ tls' \in limbo' /\ gens' \in Nat /\ gens <= gens' /\ rotated' \in 0..gens'
  BY <1>2, <1>4
<1> QED
  BY <1>1, <1>4, <1>6, <1>7, <1>8, <1>9, OneMoves

-----------------------------------------------------------------------------
(* The steps of the process that holds the lock. *)

LEMMA Alone ==
    ASSUME CertInv, NEW p \in Procs, place[p].at \in Inside
    PROVE  /\ lock = p /\ \A q \in Procs \ {p} : place[q].at \notin Inside
           /\ place[p].job \in Jobs /\ place[p].gen \in Nat
           /\ Doing(place[p].at, place[p].gen, tls, limbo)
           /\ tls \in Tls /\ tls \in limbo /\ Counted(tls, gens) /\ gens \in Nat
           /\ (Careful /\ owned # 0 => Owners(tls))
           /\ place \in [Procs -> Places]
  BY DEF CertInv, CertTyped, PlaceOk, Places

LEMMA ProcsAre == Nobody \notin Procs /\ \A p \in Procs : p \in Procs \cup {Nobody}
  BY DEF Nobody, Procs, Server, Command

(* It leaves the section with the files as they are. *)
LEMMA LeaveOk ==
    ASSUME CertInv, NEW p \in Procs, place[p].at \in Inside, NEW outcome, Leave(p, outcome),
           UNCHANGED <<tls, gens, origin, owned>>, limbo' \in {limbo, {tls}},
           rotated' \in {rotated, Settled(tls).cert.id}, rotated' # rotated => limbo' = {tls},
           copied' \in [leaf : 0..gens, nonce : BOOLEAN]
    PROVE  CertInv'
<1>1. /\ place' \in [Procs -> Places] /\ \A q \in Procs \ {p} : place'[q] = place[q]
      /\ lock' = Nobody /\ Resting(place'[p])
  BY Alone, LeaveIs
<1> QED
  BY <1>1, Alone, Rests

(* It goes on to another step of the section. *)
LEMMA GoesOn ==
    ASSUME CertInv, NEW p \in Procs, place[p].at \in Inside, NEW step \in Inside,
           Goto(p, step), UNCHANGED <<lock, gens, origin, owned, rotated, copied>>,
           tls' \in Tls, Counted(tls', gens), tls' \in limbo', limbo' \subseteq limbo \cup {tls'},
           Settled(tls').cert.id >= rotated, Careful /\ owned # 0 => Owners(tls'),
           Doing(step, place[p].gen, tls', limbo'),
           step \in {"judge", "discard", "syncDiscard"} => place[p].gen = 0
    PROVE  CertInv'
<1>1. /\ place' \in [Procs -> Places] /\ \A q \in Procs \ {p} : place'[q] = place[q]
      /\ place'[p].at = step /\ place'[p].job = place[p].job /\ place'[p].gen = place[p].gen
  BY Alone, GotoIs, InsideOutside DEF Outside
<1>2. PlaceOk(p)'
  <2>1. Doing(place[p].at, place[p].gen, tls, limbo)'
    BY <1>1 DEF Doing, Fresh
  <2>2. (place[p].job \in Jobs)' /\ lock' = p
    BY <1>1, Alone
  <2>3. (place[p].at \in {"wait", "judge", "discard", "syncDiscard"} => place[p].gen = 0)'
    BY <1>1 DEF Inside, Staging, Putting
  <2> QED
    BY <2>1, <2>2, <2>3 DEF PlaceOk
<1>3. \A s \in limbo' : Settled(s).cert.id >= rotated'
  BY DEF CertInv
<1>4. gens' \in Nat /\ gens <= gens' /\ rotated' \in 0..gens' /\ lock' \in Procs \cup {Nobody}
      /\ copied' \in [leaf : 0..gens', nonce : BOOLEAN]
  BY DEF CertInv, CertTyped
<1>5. Counted(tls', gens')
  OBVIOUS
<1> QED
  BY <1>1, <1>2, <1>3, <1>4, <1>5, Alone, OneMoves

LEMMA ChangesOk ==
    ASSUME CertInv, NEW p \in Procs, place[p].at \in Inside, NEW t \in Tls, NEW step \in Inside,
           Changes(p, t, step), OnlyTls,
           Counted(t, gens), Settled(t).cert.id >= rotated, Careful /\ owned # 0 => Owners(t),
           Doing(step, place[p].gen, t, limbo \cup {t}),
           step \in {"judge", "discard", "syncDiscard"} => place[p].gen = 0
    PROVE  CertInv' /\ ((tls' = t /\ limbo' = limbo \cup {tls'}) \/ UNCHANGED <<tls, limbo>>)
<1>1. UNCHANGED <<gens, origin, owned, rotated, copied>>
  BY DEF OnlyTls, histVars
<1>2. CASE /\ tls' = t /\ limbo' = limbo \cup {t}
           /\ Goto(p, step) /\ UNCHANGED <<lock, faults>>
  <2>1. CertInv'
    BY <1>1, <1>2, GoesOn
  <2> QED
    BY <1>2, <2>1
<1>3. CASE Leave(p, "refused") /\ UNCHANGED <<tls, limbo>>
  <2>1. copied' \in [leaf : 0..gens, nonce : BOOLEAN]
    BY <1>1 DEF CertInv, CertTyped
  <2>2. CertInv'
    BY <1>1, <1>3, <2>1, LeaveOk
  <2> QED
    BY <1>3, <2>2
<1> QED
  BY <1>2, <1>3 DEF Changes

LEMMA SyncsOk ==
    ASSUME CertInv, NEW p \in Procs, place[p].at \in Inside, NEW step \in Inside,
           Syncs(p, step), OnlyTls,
           Doing(step, place[p].gen, tls, {tls}),
           step \in {"judge", "discard", "syncDiscard"} => place[p].gen = 0
    PROVE  CertInv' /\ tls' = tls /\ limbo' \in {limbo, {tls}}
<1>1. UNCHANGED <<gens, origin, owned, rotated, copied>>
  BY DEF OnlyTls, histVars
<1>2. CASE limbo' = {tls} /\ Goto(p, step) /\ UNCHANGED <<tls, lock, faults>>
  <2>1. Settled(tls).cert.id >= rotated
    BY Alone DEF CertInv
  <2>2. CertInv'
    BY <1>1, <1>2, <2>1, Alone, GoesOn
  <2> QED
    BY <1>2, <2>2
<1>3. CASE Leave(p, "refused") /\ UNCHANGED <<tls, limbo>>
  <2>1. copied' \in [leaf : 0..gens, nonce : BOOLEAN]
    BY <1>1 DEF CertInv, CertTyped
  <2>2. CertInv'
    BY <1>1, <1>3, <2>1, LeaveOk
  <2> QED
    BY <1>3, <2>2
<1> QED
  BY <1>2, <1>3 DEF Syncs

-----------------------------------------------------------------------------
(* What a step makes of a directory. *)

LEMMA Restaged ==
    ASSUME NEW t \in Tls, NEW s \in StagedSets, NEW n \in Nat, Counted(t, n), s.key <= n, s.cert.id <= n
    PROVE  LET u == [t EXCEPT !.staged = s] IN
           /\ u \in Tls /\ Counted(u, n)
           /\ u.key = t.key /\ u.cert = t.cert /\ u.rec = t.rec /\ u.staged = s
           /\ ~Complete(s) => Settled(u).key = t.key /\ Settled(u).cert = t.cert /\ Settled(u).rec = t.rec
           /\ ~Complete(s) /\ ~Complete(t.staged) => Settled(u) = Settled(t)
           /\ Owners(t) /\ ~Complete(s) => Owners(u)
<1> DEFINE u == [t EXCEPT !.staged = s]
<1>1. u \in Tls /\ u.key = t.key /\ u.cert = t.cert /\ u.rec = t.rec /\ u.staged = s
  BY DEF Tls
<1> HIDE DEF u
<1>2. Counted(u, n)
  BY <1>1 DEF Counted
<1>3. ~Complete(s) => Settled(u).key = t.key /\ Settled(u).cert = t.cert /\ Settled(u).rec = t.rec
  BY <1>1, SettledIs
<1>4. ~Complete(s) /\ ~Complete(t.staged) => Settled(u) = Settled(t)
  BY <1>1, <1>3, SettledIs, SettledSame
<1>5. Owners(t) /\ ~Complete(s) => Owners(u)
  BY <1>1 DEF Owners
<1>6. u = [t EXCEPT !.staged = s]
  BY DEF u
<1> QED
  BY <1>1, <1>2, <1>3, <1>4, <1>5, <1>6

LEMMA NoneStaged ==
    ASSUME NEW t \in Tls, NEW n \in Nat, Counted(t, n)
    PROVE  LET u == [t EXCEPT !.staged = NoStaged] IN
           /\ u \in Tls /\ Counted(u, n)
           /\ u.key = t.key /\ u.cert = t.cert /\ u.rec = t.rec /\ u.staged = NoStaged
           /\ ~Complete(u.staged)
           /\ Settled(u).key = t.key /\ Settled(u).cert = t.cert /\ Settled(u).rec = t.rec
           /\ ~Complete(t.staged) => Settled(u) = Settled(t)
           /\ Owners(t) => Owners(u)
  BY EmptySets, Restaged

(* One of the files is put in place. *)
LEMMA OnePut ==
    ASSUME NEW t \in Tls, NEW n \in Nat, Counted(t, n), Complete(t.staged)
    PROVE  /\ LET u == [t EXCEPT !.key = t.staged.key] IN
              /\ u \in Tls /\ Counted(u, n) /\ Settled(u) = Settled(t)
              /\ u.key = t.staged.key /\ u.staged = t.staged
           /\ LET u == [t EXCEPT !.cert = t.staged.cert] IN
              /\ u \in Tls /\ Counted(u, n) /\ Settled(u) = Settled(t)
              /\ u.cert = t.staged.cert /\ u.key = t.key /\ u.staged = t.staged
           /\ LET u == [t EXCEPT !.rec = t.staged.rec] IN
              /\ u \in Tls /\ Counted(u, n) /\ Settled(u) = Settled(t)
              /\ u.rec = t.staged.rec /\ u.key = t.key /\ u.cert = t.cert /\ u.staged = t.staged
<1>1. /\ t.staged \in StagedSets /\ t.staged.key \in Nat /\ t.staged.cert \in Certs /\ t.staged.rec \in Certs
      /\ t.staged.rec = t.staged.cert
  BY DEF Tls, StagedSets, Complete
<1>2. ASSUME NEW u \in Tls, u.staged = t.staged PROVE Settled(u) = Settled(t)
  BY <1>2, SettledIs, SettledSame
<1>3. LET u == [t EXCEPT !.key = t.staged.key] IN
        u \in Tls /\ u.staged = t.staged /\ u.key = t.staged.key /\ u.cert = t.cert /\ u.rec = t.rec
  BY <1>1 DEF Tls
<1>4. LET u == [t EXCEPT !.cert = t.staged.cert] IN
        u \in Tls /\ u.staged = t.staged /\ u.key = t.key /\ u.cert = t.staged.cert /\ u.rec = t.rec
  BY <1>1 DEF Tls
<1>5. LET u == [t EXCEPT !.rec = t.staged.rec] IN
        u \in Tls /\ u.staged = t.staged /\ u.key = t.key /\ u.cert = t.cert /\ u.rec = t.staged.rec
  BY <1>1 DEF Tls
<1>6. ASSUME NEW u \in Tls, u.staged = t.staged, u.key \in {t.key, t.staged.key},
             u.cert \in {t.cert, t.staged.cert}, u.rec \in {t.rec, t.staged.rec}
      PROVE  Counted(u, n)
  BY <1>1, <1>6 DEF Counted
<1> QED
  BY <1>2, <1>3, <1>4, <1>5, <1>6

(* Nothing complete is staged beside the owner's pair. *)
LEMMA NotOwners == ASSUME NEW t, Complete(t.staged) PROVE ~Owners(t)
  BY DEF Owners

LEMMA Floor == ASSUME CertInv PROVE Settled(tls).cert.id >= rotated
  BY DEF CertInv, CertTyped

LEMMA DiscardOk == ASSUME CertInv, NEW p \in Procs, Discard(p) PROVE CertInv' /\ SamePair
<1> DEFINE t == [tls EXCEPT !.staged = NoStaged]
<1>1. place[p].at = "discard" /\ place[p].at \in Inside /\ "syncDiscard" \in Inside
  BY DEF Discard, At, Inside
<1>2. ~Complete(tls.staged) /\ place[p].gen = 0
  BY <1>1, Alone DEF Doing, CertInv, PlaceOk
<1>3. /\ t \in Tls /\ Counted(t, gens) /\ Settled(t) = Settled(tls) /\ t.staged = NoStaged
      /\ (Careful /\ owned # 0 => Owners(t))
  BY <1>1, <1>2, Alone, NoneStaged
<1>4. Changes(p, t, "syncDiscard") /\ OnlyTls
  BY DEF Discard
<1> HIDE DEF t
<1>5. Doing("syncDiscard", place[p].gen, t, limbo \cup {t})
  BY <1>3 DEF Doing, Staging
<1>6. CertInv' /\ ((tls' = t /\ limbo' = limbo \cup {tls'}) \/ UNCHANGED <<tls, limbo>>)
  BY <1>1, <1>2, <1>3, <1>4, <1>5, Floor, ChangesOk
<1> QED
  BY <1>3, <1>6 DEF SamePair, Remembered

LEMMA PutKeyOk == ASSUME CertInv, NEW p \in Procs, PutKey(p) PROVE CertInv' /\ SamePair
<1> DEFINE t == [tls EXCEPT !.key = tls.staged.key]
<1>1. place[p].at = "putKey" /\ place[p].at \in Inside /\ "putCert" \in Inside
  BY DEF PutKey, At, Inside, Putting
<1>2. Complete(tls.staged) /\ place[p].gen \in {0, tls.staged.key}
  BY <1>1, Alone DEF Doing
<1>3. /\ t \in Tls /\ Counted(t, gens) /\ Settled(t) = Settled(tls)
      /\ t.key = tls.staged.key /\ t.staged = tls.staged
  BY <1>1, <1>2, Alone, OnePut
<1>4. Changes(p, t, "putCert") /\ OnlyTls
  BY DEF PutKey
<1> HIDE DEF t
<1>5. Doing("putCert", place[p].gen, t, limbo \cup {t})
  BY <1>2, <1>3 DEF Doing, Staging
<1>6. ~(Careful /\ owned # 0)
  BY <1>1, <1>2, Alone, NotOwners
<1>7. CertInv' /\ ((tls' = t /\ limbo' = limbo \cup {tls'}) \/ UNCHANGED <<tls, limbo>>)
  BY <1>1, <1>3, <1>4, <1>5, <1>6, Floor, ChangesOk
<1> QED
  BY <1>3, <1>7 DEF SamePair, Remembered

LEMMA PutCertOk == ASSUME CertInv, NEW p \in Procs, PutCert(p) PROVE CertInv' /\ SamePair
<1> DEFINE t == [tls EXCEPT !.cert = tls.staged.cert]
<1>1. place[p].at = "putCert" /\ place[p].at \in Inside /\ "putRecord" \in Inside
  BY DEF PutCert, At, Inside, Putting
<1>2. Complete(tls.staged) /\ place[p].gen \in {0, tls.staged.key} /\ tls.key = tls.staged.key
  BY <1>1, Alone DEF Doing
<1>3. /\ t \in Tls /\ Counted(t, gens) /\ Settled(t) = Settled(tls)
      /\ t.cert = tls.staged.cert /\ t.key = tls.key /\ t.staged = tls.staged
  BY <1>1, <1>2, Alone, OnePut
<1>4. Changes(p, t, "putRecord") /\ OnlyTls
  BY DEF PutCert
<1> HIDE DEF t
<1>5. Doing("putRecord", place[p].gen, t, limbo \cup {t})
  BY <1>2, <1>3 DEF Doing, Staging
<1>6. ~(Careful /\ owned # 0)
  BY <1>1, <1>2, Alone, NotOwners
<1>7. CertInv' /\ ((tls' = t /\ limbo' = limbo \cup {tls'}) \/ UNCHANGED <<tls, limbo>>)
  BY <1>1, <1>3, <1>4, <1>5, <1>6, Floor, ChangesOk
<1> QED
  BY <1>3, <1>7 DEF SamePair, Remembered

LEMMA PutRecordOk == ASSUME CertInv, NEW p \in Procs, PutRecord(p) PROVE CertInv' /\ SamePair
<1> DEFINE t == [tls EXCEPT !.rec = tls.staged.rec]
<1>1. place[p].at = "putRecord" /\ place[p].at \in Inside /\ "syncLive" \in Inside
  BY DEF PutRecord, At, Inside, Putting
<1>2. /\ Complete(tls.staged) /\ place[p].gen \in {0, tls.staged.key} /\ tls.key = tls.staged.key
      /\ tls.cert = tls.staged.cert
  BY <1>1, Alone DEF Doing
<1>3. /\ t \in Tls /\ Counted(t, gens) /\ Settled(t) = Settled(tls)
      /\ t.rec = tls.staged.rec /\ t.key = tls.key /\ t.cert = tls.cert /\ t.staged = tls.staged
  BY <1>1, <1>2, Alone, OnePut
<1>4. Changes(p, t, "syncLive") /\ OnlyTls
  BY DEF PutRecord
<1> HIDE DEF t
<1>5. Doing("syncLive", place[p].gen, t, limbo \cup {t})
  BY <1>2, <1>3 DEF Doing, Staging
<1>6. ~(Careful /\ owned # 0)
  BY <1>1, <1>2, Alone, NotOwners
<1>7. CertInv' /\ ((tls' = t /\ limbo' = limbo \cup {tls'}) \/ UNCHANGED <<tls, limbo>>)
  BY <1>1, <1>3, <1>4, <1>5, <1>6, Floor, ChangesOk
<1> QED
  BY <1>3, <1>7 DEF SamePair, Remembered

(* The files are in place, whether or not the staged ones are still complete. *)
LEMMA InPlace ==
    ASSUME NEW t \in Tls, Settled(t) = [t EXCEPT !.staged = NoStaged]
    PROVE  Settled(t).key = t.key /\ Settled(t).cert = t.cert /\ Settled(t).rec = t.rec
<1>1. LET u == [t EXCEPT !.staged = NoStaged] IN u.key = t.key /\ u.cert = t.cert /\ u.rec = t.rec
  BY DEF Tls
<1> QED
  BY <1>1

LEMMA CleanUpOk == ASSUME CertInv, NEW p \in Procs, CleanUp(p) PROVE CertInv' /\ SamePair
<1>1. place[p].at = "cleanUp" /\ place[p].at \in Inside /\ "syncGone" \in Inside
  BY DEF CleanUp, At, Inside, Putting
<1>2. /\ Settled(tls).key = tls.key /\ Settled(tls).cert = tls.cert /\ Settled(tls).rec = tls.rec
      /\ place[p].gen \in {0, tls.cert.id}
  BY <1>1, Alone, InPlace DEF Doing
<1>3. CASE Changes(p, [tls EXCEPT !.staged = NoStaged], "syncGone")
  <2> DEFINE t == [tls EXCEPT !.staged = NoStaged]
  <2>1. /\ t \in Tls /\ Counted(t, gens) /\ t.staged = NoStaged /\ t.cert = tls.cert
        /\ Settled(t).key = tls.key /\ Settled(t).cert = tls.cert /\ Settled(t).rec = tls.rec
        /\ (Careful /\ owned # 0 => Owners(t))
    BY <1>1, Alone, NoneStaged
  <2>2. Changes(p, t, "syncGone") /\ OnlyTls
    BY <1>3 DEF CleanUp
  <2> HIDE DEF t
  <2>3. Settled(t) = Settled(tls)
    BY <1>1, <1>2, <2>1, Alone, SettledSame
  <2>4. Doing("syncGone", place[p].gen, t, limbo \cup {t})
    BY <1>2, <2>1 DEF Doing, Staging
  <2>5. CertInv' /\ ((tls' = t /\ limbo' = limbo \cup {tls'}) \/ UNCHANGED <<tls, limbo>>)
    BY <1>1, <2>1, <2>2, <2>3, <2>4, Floor, ChangesOk
  <2> QED
    BY <2>3, <2>5 DEF SamePair, Remembered
<1>4. CASE Complete(tls.staged) /\ Changes(p, [tls EXCEPT !.staged.key = 0], "cleanUp")
  <2> DEFINE s == [tls.staged EXCEPT !.key = 0]
             t == [tls EXCEPT !.staged = s]
  <2>1. tls.staged \in StagedSets
    BY <1>1, Alone DEF Tls
  <2>2. s \in StagedSets /\ s.key = 0 /\ s.cert = tls.staged.cert
    BY <2>1 DEF StagedSets
  <2>3. ~Complete(s)
    BY <2>2 DEF Complete
  <2>4. s.key <= gens /\ s.cert.id <= gens
    BY <1>1, <2>2, Alone DEF Counted
  <2>5. [tls EXCEPT !.staged.key = 0] = t
    OBVIOUS
  <2> HIDE DEF s
  <2>6. /\ t \in Tls /\ Counted(t, gens) /\ t.staged = s /\ t.cert = tls.cert
        /\ Settled(t).key = tls.key /\ Settled(t).cert = tls.cert /\ Settled(t).rec = tls.rec
    BY <1>1, <2>2, <2>3, <2>4, Alone, Restaged
  <2>7. Changes(p, t, "cleanUp") /\ OnlyTls
    BY <1>4, <2>5 DEF CleanUp
  <2> HIDE DEF t
  <2>8. Settled(t) = Settled(tls)
    BY <1>1, <1>2, <2>6, Alone, SettledSame
  <2>9. Settled(t) = [t EXCEPT !.staged = NoStaged]
    BY <2>3, <2>6 DEF Settled
  <2>10. Doing("cleanUp", place[p].gen, t, limbo \cup {t})
    BY <1>2, <2>6, <2>9 DEF Doing, Staging
  <2>11. ~(Careful /\ owned # 0)
    BY <1>1, <1>4, Alone, NotOwners
  <2>12. CertInv' /\ ((tls' = t /\ limbo' = limbo \cup {tls'}) \/ UNCHANGED <<tls, limbo>>)
    BY <1>1, <2>6, <2>7, <2>8, <2>10, <2>11, Floor, ChangesOk
  <2> QED
    BY <2>8, <2>12 DEF SamePair, Remembered
<1> QED
  BY <1>3, <1>4 DEF CleanUp

LEMMA NewCertIs ==
    ASSUME CertInv, NEW p \in Procs
    PROVE  NewCert(p) = [id |-> place[p].gen, host |-> HostOf[origin]]
           /\ NewCert(p) \in Certs /\ NewCert(p).id = place[p].gen
  BY DEF NewCert, CertInv, CertTyped, Certs, Hosts, Places

LEMMA StageOk == ASSUME CertInv, NEW p \in Procs, Stage(p) PROVE CertInv' /\ SamePair
<1> DEFINE t == [tls EXCEPT !.staged = Empty]
           n == place[p].gen
<1>1. place[p].at = "stage" /\ place[p].at \in Inside /\ "stageKey" \in Inside
  BY DEF Stage, At, Inside, Staging
<1>2. ~Complete(tls.staged) /\ Fresh(n, limbo)
  BY <1>1, Alone DEF Doing, Staging
<1>3. Empty.key <= gens /\ Empty.cert.id <= gens
  BY <1>1, EmptySets, Alone
<1>4. /\ t \in Tls /\ Counted(t, gens) /\ Settled(t) = Settled(tls) /\ t.staged = Empty
  BY <1>1, <1>2, <1>3, Alone, EmptySets, Restaged
<1>5. Changes(p, t, "stageKey") /\ OnlyTls
  BY DEF Stage
<1>6. tls \in limbo
  BY <1>1, Alone
<1> HIDE DEF t
<1>7. Fresh(n, limbo \cup {t}) /\ ~(Careful /\ owned # 0)
  BY <1>2, <1>4, <1>6 DEF Fresh
<1>8. Doing("stageKey", n, t, limbo \cup {t})
  BY <1>4, <1>7 DEF Doing
<1>9. CertInv' /\ ((tls' = t /\ limbo' = limbo \cup {tls'}) \/ UNCHANGED <<tls, limbo>>)
  BY <1>1, <1>4, <1>5, <1>7, <1>8, Floor, ChangesOk
<1> QED
  BY <1>4, <1>9 DEF SamePair, Remembered

LEMMA StageKeyOk == ASSUME CertInv, NEW p \in Procs, StageKey(p) PROVE CertInv' /\ SamePair
<1> DEFINE n == place[p].gen
           s == [Empty EXCEPT !.key = n]
           t == [tls EXCEPT !.staged = s]
<1>1. place[p].at = "stageKey" /\ place[p].at \in Inside /\ "stageCert" \in Inside
  BY DEF StageKey, At, Inside, Staging
<1>2. tls.staged = Empty /\ Fresh(n, limbo) /\ n \in Nat /\ tls \in limbo
  BY <1>1, Alone DEF Doing, Staging
<1>3. s \in StagedSets /\ s.key = n /\ s.cert = NoCert
  <2>1. Empty \in StagedSets /\ Empty.cert = NoCert
    BY EmptySets
  <2>2. s \in StagedSets /\ s.key = n /\ s.cert = Empty.cert
    BY <1>2, <2>1 DEF StagedSets
  <2> QED
    BY <2>1, <2>2
<1>4. ~Complete(s) /\ s.key <= gens /\ s.cert.id <= gens
  BY <1>1, <1>2, <1>3, EmptySets, Alone DEF Complete, Fresh
<1>5. [tls EXCEPT !.staged.key = n] = t
  BY <1>2
<1> HIDE DEF s
<1>6. t \in Tls /\ Counted(t, gens) /\ Settled(t) = Settled(tls) /\ t.staged = s
  BY <1>1, <1>2, <1>3, <1>4, Alone, EmptySets, Restaged
<1>7. Changes(p, t, "stageCert") /\ OnlyTls
  BY <1>5 DEF StageKey
<1> HIDE DEF t
<1>8. Fresh(n, limbo \cup {t}) /\ ~(Careful /\ owned # 0)
  BY <1>2, <1>6 DEF Fresh
<1>9. Doing("stageCert", n, t, limbo \cup {t})
  BY <1>6, <1>8 DEF Doing, s
<1>10. CertInv' /\ ((tls' = t /\ limbo' = limbo \cup {tls'}) \/ UNCHANGED <<tls, limbo>>)
  BY <1>1, <1>6, <1>7, <1>8, <1>9, Floor, ChangesOk
<1> QED
  BY <1>6, <1>10 DEF SamePair, Remembered

LEMMA StageCertOk == ASSUME CertInv, NEW p \in Procs, StageCert(p) PROVE CertInv' /\ SamePair
<1> DEFINE n == place[p].gen
           s == [Empty EXCEPT !.key = n, !.cert = NewCert(p)]
           t == [tls EXCEPT !.staged = s]
<1>1. place[p].at = "stageCert" /\ place[p].at \in Inside /\ "stageRecord" \in Inside
  BY DEF StageCert, At, Inside, Staging
<1>2. tls.staged = [Empty EXCEPT !.key = n] /\ Fresh(n, limbo) /\ n \in Nat /\ tls \in limbo
  BY <1>1, Alone DEF Doing, Staging
<1>3. s \in StagedSets /\ s.key = n /\ s.cert = NewCert(p) /\ s.rec = NoCert
  BY <1>2, EmptySets, NewCertIs DEF StagedSets
<1>4. ~Complete(s) /\ s.key <= gens /\ s.cert.id <= gens
  BY <1>1, <1>2, <1>3, EmptySets, NewCertIs, Alone DEF Complete, Fresh
<1>5. ~Complete(tls.staged)
  <2>1. [Empty EXCEPT !.key = n].cert = NoCert /\ [Empty EXCEPT !.key = n].key = n
    BY <1>2, EmptySets DEF StagedSets
  <2> QED
    BY <1>2, <2>1, EmptySets DEF Complete, Fresh
<1>6. [tls EXCEPT !.staged.cert = NewCert(p)] = t
  BY <1>2
<1> HIDE DEF s
<1>7. t \in Tls /\ Counted(t, gens) /\ Settled(t) = Settled(tls) /\ t.staged = s
  BY <1>1, <1>3, <1>4, <1>5, Alone, Restaged
<1>8. Changes(p, t, "stageRecord") /\ OnlyTls
  BY <1>6 DEF StageCert
<1> HIDE DEF t
<1>9. Fresh(n, limbo \cup {t}) /\ ~(Careful /\ owned # 0)
  BY <1>2, <1>7 DEF Fresh
<1>10. Doing("stageRecord", n, t, limbo \cup {t})
  BY <1>7, <1>9, NewCertIs DEF Doing, s
<1>11. CertInv' /\ ((tls' = t /\ limbo' = limbo \cup {tls'}) \/ UNCHANGED <<tls, limbo>>)
  BY <1>1, <1>7, <1>8, <1>9, <1>10, Floor, ChangesOk
<1> QED
  BY <1>7, <1>11 DEF SamePair, Remembered

(* From here on the new pair is the one in force. *)
LEMMA StageRecordOk ==
    ASSUME CertInv, NEW p \in Procs, StageRecord(p)
    PROVE  CertInv' /\ (SamePair \/ NewPair(place[p].gen))
<1> DEFINE n == place[p].gen
           s == [Empty EXCEPT !.key = n, !.cert = NewCert(p), !.rec = NewCert(p)]
           t == [tls EXCEPT !.staged = s]
<1>1. place[p].at = "stageRecord" /\ place[p].at \in Inside /\ "syncStaged" \in Inside
  BY DEF StageRecord, At, Inside, Staging
<1>2. /\ tls.staged = [Empty EXCEPT !.key = n, !.cert = NewCert(p)]
      /\ Fresh(n, limbo) /\ n \in Nat /\ tls \in limbo
  BY <1>1, Alone, NewCertIs DEF Doing, Staging
<1>3. s \in StagedSets /\ s.key = n /\ s.cert = NewCert(p) /\ s.rec = NewCert(p) /\ s.dir
  BY <1>2, EmptySets, NewCertIs DEF StagedSets
<1>4. Complete(s) /\ s.key <= gens /\ s.cert.id <= gens
  BY <1>1, <1>2, <1>3, NewCertIs, Alone DEF Complete, Fresh
<1>5. [tls EXCEPT !.staged.rec = NewCert(p)] = t
  BY <1>2
<1> HIDE DEF s
<1>6. t \in Tls /\ Counted(t, gens) /\ t.staged = s
  BY <1>1, <1>3, <1>4, Alone, Restaged
<1>7. Changes(p, t, "syncStaged") /\ OnlyTls
  BY <1>5 DEF StageRecord
<1> HIDE DEF t
<1>8. Settled(t).key = n /\ Settled(t).cert.id = n
  BY <1>3, <1>4, <1>6, SettledIs, NewCertIs
<1>9. Settled(t).cert.id >= rotated /\ ~(Careful /\ owned # 0)
  <2>1. Settled(tls).cert.id < n /\ Settled(tls).cert.id \in Nat
    BY <1>1, <1>2, Alone, CountedIs DEF Fresh
  <2>2. rotated \in Nat
    BY DEF CertInv, CertTyped
  <2> QED
    BY <1>2, <1>8, <2>1, <2>2, Floor DEF Fresh
<1>10. Doing("syncStaged", n, t, limbo \cup {t})
  BY <1>2, <1>3, <1>4, <1>6 DEF Doing, Staging, Fresh
<1>11. CertInv' /\ ((tls' = t /\ limbo' = limbo \cup {tls'}) \/ UNCHANGED <<tls, limbo>>)
  BY <1>1, <1>6, <1>7, <1>9, <1>10, ChangesOk
<1>12. CASE tls' = t /\ limbo' = limbo \cup {tls'}
  BY <1>2, <1>8, <1>11, <1>12 DEF NewPair, Remembered, Fresh
<1> QED
  BY <1>11, <1>12 DEF SamePair, Remembered

LEMMA SyncsStepOk ==
    ASSUME CertInv, NEW p \in Procs, SyncDiscard(p) \/ SyncLive(p) \/ SyncGone(p) \/ SyncStaged(p)
    PROVE  CertInv' /\ SamePair
<1>1. CASE SyncDiscard(p)
  <2>1. place[p].at = "syncDiscard" /\ place[p].at \in Inside /\ "judge" \in Inside
    BY <1>1 DEF SyncDiscard, At, Inside
  <2>2. tls.staged = NoStaged /\ place[p].gen = 0
    BY <2>1, Alone DEF Doing, CertInv, PlaceOk
  <2>3. Doing("judge", place[p].gen, tls, {tls})
    BY <2>2, EmptySets DEF Doing, Staging
  <2> QED
    BY <1>1, <2>1, <2>2, <2>3, SyncsOk DEF SyncDiscard, SamePair, Remembered
<1>2. CASE SyncLive(p)
  <2>1. place[p].at = "syncLive" /\ place[p].at \in Inside /\ "cleanUp" \in Inside
    BY <1>2 DEF SyncLive, At, Inside, Putting
  <2>2. /\ Complete(tls.staged) /\ place[p].gen \in {0, tls.staged.key}
        /\ tls.key = tls.staged.key /\ tls.cert = tls.staged.cert /\ tls.rec = tls.staged.rec
    BY <2>1, Alone DEF Doing
  <2>3. Settled(tls) = [tls EXCEPT !.staged = NoStaged]
    <3> DEFINE u == [tls EXCEPT !.staged = NoStaged]
    <3>1. u \in Tls /\ u.key = tls.key /\ u.cert = tls.cert /\ u.rec = tls.rec /\ u.staged = NoStaged
      BY <2>1, Alone, NoneStaged
    <3>2. Settled(tls) \in Tls /\ Settled(tls).key = tls.key /\ Settled(tls).cert = tls.cert
          /\ Settled(tls).rec = tls.rec /\ Settled(tls).staged = NoStaged
      BY <2>1, <2>2, Alone, SettledIs
    <3> HIDE DEF u
    <3>3. Settled(tls) = u
      BY <3>1, <3>2 DEF Tls
    <3> QED
      BY <3>3 DEF u
  <2>4. place[p].gen \in {0, tls.cert.id}
    BY <2>2 DEF Complete
  <2>5. Doing("cleanUp", place[p].gen, tls, {tls})
    BY <2>3, <2>4 DEF Doing, Staging
  <2> QED
    BY <1>2, <2>1, <2>5, SyncsOk DEF SyncLive, SamePair, Remembered
<1>3. CASE SyncGone(p)
  <2> DEFINE step == IF place[p].gen = 0 THEN "judge" ELSE "installed"
  <2>1. place[p].at = "syncGone" /\ place[p].at \in Inside /\ step \in Inside
    BY <1>3 DEF SyncGone, At, Inside, Putting
  <2>2. tls.staged = NoStaged /\ place[p].gen \in {0, tls.cert.id}
    BY <2>1, Alone DEF Doing
  <2>3. Doing(step, place[p].gen, tls, {tls})
    BY <2>2, EmptySets DEF Doing, Staging
  <2>4. Syncs(p, step) /\ OnlyTls
    BY <1>3 DEF SyncGone
  <2>5. step \in {"judge", "discard", "syncDiscard"} => place[p].gen = 0
    OBVIOUS
  <2> HIDE DEF step
  <2> QED
    BY <2>1, <2>3, <2>4, <2>5, SyncsOk DEF SamePair, Remembered
<1>4. CASE SyncStaged(p)
  <2>1. place[p].at = "syncStaged" /\ place[p].at \in Inside /\ "settle" \in Inside
    BY <1>4 DEF SyncStaged, At, Inside
  <2>2. Doing("settle", place[p].gen, tls, {tls})
    BY <2>1, Alone DEF Doing, Staging
  <2> QED
    BY <1>4, <2>1, <2>2, SyncsOk DEF SyncStaged, SamePair, Remembered
<1> QED
  BY <1>1, <1>2, <1>3, <1>4

LEMMA SettleOk == ASSUME CertInv, NEW p \in Procs, Settle(p) PROVE CertInv' /\ SamePair
<1> DEFINE step == IF Complete(tls.staged) THEN "putKey"
                   ELSE IF tls.staged.dir THEN "discard" ELSE "judge"
<1>1. place[p].at = "settle" /\ place[p].at \in Inside /\ step \in Inside
  BY DEF Settle, At, Inside, Putting
<1>2. Goto(p, step) /\ UNCHANGED <<tls, limbo, lock, gens, origin, owned, rotated, copied>>
  BY DEF Settle, fileVars, countVars, histVars
<1>3. (place[p].gen = 0 \/ Complete(tls.staged)) /\ place[p].gen \in {0, tls.staged.key}
  BY <1>1, Alone DEF Doing
<1>4. Doing(step, place[p].gen, tls, limbo)
  BY <1>3 DEF Doing, Staging
<1>5. step \in {"judge", "discard", "syncDiscard"} => place[p].gen = 0
  BY <1>3
<1> HIDE DEF step
<1>6. Doing(step, place[p].gen, tls', limbo') /\ tls' \in Tls /\ Counted(tls', gens) /\ tls' \in limbo'
      /\ Settled(tls').cert.id >= rotated /\ (Careful /\ owned # 0 => Owners(tls'))
      /\ limbo' \subseteq limbo \cup {tls'}
  BY <1>1, <1>2, <1>4, Alone, Floor
<1> QED
  BY <1>1, <1>2, <1>5, <1>6, GoesOn DEF SamePair, Remembered

-----------------------------------------------------------------------------
(* What it finds once all is settled. *)

FilesKept == UNCHANGED <<tls, limbo>>

LEMMA KeptIsSame == FilesKept => SamePair
  BY DEF FilesKept, SamePair, Remembered

(* A new pair is begun. *)
LEMMA BuildOk ==
    ASSUME CertInv, NEW p \in Procs, place[p].at = "judge", Build(p), FilesKept,
           UNCHANGED <<origin, owned, rotated, copied>>, ~(Careful /\ owned # 0)
    PROVE  CertInv'
<1>1. place[p].at \in Inside
  BY DEF Inside
<1>2. copied' \in [leaf : 0..gens, nonce : BOOLEAN]
  BY DEF CertInv, CertTyped
<1>3. CASE Leave(p, "refused") /\ UNCHANGED gens
  BY <1>1, <1>2, <1>3, LeaveOk DEF FilesKept
<1>4. CASE /\ gens' = gens + 1 /\ UNCHANGED lock
           /\ place' = [place EXCEPT ![p].at = "stage", ![p].gen = gens + 1]
  <2>1. /\ place[p] \in Places /\ place \in [Procs -> Places] /\ gens \in Nat /\ lock = p
        /\ ~Complete(tls.staged) /\ place[p].job \in Jobs
    BY <1>1, Alone DEF Doing
  <2> DEFINE pl == [place[p] EXCEPT !.at = "stage", !.gen = gens + 1]
  <2>2. place' = [place EXCEPT ![p] = pl]
    BY <1>4
  <2>3. pl \in Places /\ pl.at = "stage" /\ pl.gen = gens + 1 /\ pl.job = place[p].job
    <3>1. ASSUME NEW r \in Places, NEW n \in Nat
          PROVE  LET v == [r EXCEPT !.at = "stage", !.gen = n] IN
                   v \in Places /\ v.at = "stage" /\ v.gen = n /\ v.job = r.job
      BY DEF Places, Inside, Staging
    <3>2. gens + 1 \in Nat
      BY <2>1
    <3> QED
      BY <2>1, <3>1, <3>2
  <2> HIDE DEF pl
  <2>4. /\ place' \in [Procs -> Places] /\ \A q \in Procs \ {p} : place'[q] = place[q] /\ place'[p] = pl
    BY <2>1, <2>2, <2>3
  <2>5. place'[p] = pl
    BY <2>1, <2>2
  <2>6. Fresh(gens, limbo)'
    <3>1. \A t \in limbo : Settled(t).cert.id <= gens /\ Settled(t).cert.id \in Nat
      BY CountedIs DEF CertInv, CertTyped
    <3>2. \A t \in limbo : Settled(t).cert.id < gens + 1
      BY <2>1, <3>1
    <3>3. gens + 1 # 0
      BY <2>1
    <3> QED
      BY <1>4, <3>2, <3>3 DEF Fresh, FilesKept
  <2>7. PlaceOk(p)'
    <3>1. Doing("stage", gens, tls, limbo)'
      BY <2>1, <2>6 DEF Doing, FilesKept
    <3>2. (place[p].at = "stage" /\ place[p].gen = gens /\ place[p].job \in Jobs /\ lock = p)'
      BY <1>4, <2>1, <2>3, <2>5
    <3> QED
      BY <3>1, <3>2 DEF PlaceOk
  <2>8. /\ tls' \in Tls /\ Counted(tls', gens') /\ tls' \in limbo' /\ limbo' \subseteq limbo \cup {tls'}
        /\ gens' \in Nat /\ gens <= gens'
    BY <1>1, <1>4, <2>1, Alone, CountedIs DEF FilesKept
  <2>9. /\ rotated' \in 0..gens' /\ copied' \in [leaf : 0..gens', nonce : BOOLEAN]
        /\ lock' \in Procs \cup {Nobody}
    BY <1>4, <2>1 DEF CertInv, CertTyped
  <2>10. \A t \in limbo' : Settled(t).cert.id >= rotated'
    BY DEF CertInv, FilesKept
  <2> QED
    BY <1>1, <2>4, <2>7, <2>8, <2>9, <2>10, Alone, OneMoves
<1> QED
  BY <1>3, <1>4 DEF Build

(* Nothing of the owner's is taken for Companion's. *)
LEMMA OwnersStay ==
    ASSUME CertInv, MayReplace(tls)
    PROVE  ~(Careful /\ owned # 0)
<1> SUFFICES ASSUME Careful, owned # 0 PROVE FALSE
  OBVIOUS
<1>1. Owners(tls)
  BY DEF CertInv, CertTyped
<1>2. tls.cert # NoCert /\ tls.rec # tls.cert
  BY <1>1, EmptySets DEF Owners
<1> QED
  BY <1>2 DEF MayReplace, Generated

LEMMA JudgesOk ==
    ASSUME CertInv, NEW p \in Procs,
           JudgeClassify(p) \/ JudgeRotate(p) \/ JudgeEnsure(p) \/ JudgeApprove(p)
    PROVE  CertInv' /\ SamePair
<1>1. place[p].at = "judge" /\ place[p].at \in Inside
  BY DEF JudgeClassify, JudgeRotate, JudgeEnsure, JudgeApprove, At, Inside
<1>2. FilesKept /\ UNCHANGED <<origin, owned, rotated, copied>>
  BY DEF JudgeClassify, JudgeRotate, JudgeEnsure, JudgeApprove, FilesKept, fileVars, histVars
<1>3. copied' \in [leaf : 0..gens, nonce : BOOLEAN]
  BY <1>2 DEF CertInv, CertTyped
<1>4. ASSUME NEW outcome, Leave(p, outcome), UNCHANGED gens PROVE CertInv'
  BY <1>1, <1>2, <1>3, <1>4, LeaveOk DEF FilesKept
<1>5. ASSUME Build(p), MayReplace(tls) PROVE CertInv'
  BY <1>1, <1>2, <1>5, OwnersStay, BuildOk
<1>6. SamePair
  BY <1>2, KeptIsSame
<1>7. CASE JudgeClassify(p)
  BY <1>4, <1>6, <1>7 DEF JudgeClassify, countVars
<1>8. CASE JudgeRotate(p)
  BY <1>4, <1>5, <1>6, <1>8 DEF JudgeRotate
<1>9. CASE JudgeEnsure(p)
  BY <1>4, <1>5, <1>6, <1>9 DEF JudgeEnsure, MayReplace
<1>10. CASE JudgeApprove(p)
  BY <1>4, <1>6, <1>10 DEF JudgeApprove, WriteBinding
<1> QED
  BY <1>7, <1>8, <1>9, <1>10

LEMMA InstalledOk == ASSUME CertInv, NEW p \in Procs, Installed(p) PROVE CertInv' /\ SamePair
<1>1. place[p].at = "installed" /\ place[p].at \in Inside
  BY DEF Installed, At, Inside
<1>2. FilesKept /\ UNCHANGED <<origin, owned, gens, copied>> /\ Leave(p, "ok")
  BY DEF Installed, FilesKept
<1>3. copied' \in [leaf : 0..gens, nonce : BOOLEAN]
  BY <1>2 DEF CertInv, CertTyped
<1>4. limbo = {tls} /\ tls.staged = NoStaged /\ place[p].gen \in {0, tls.cert.id} /\ place[p].gen # 0
  BY <1>1, Alone DEF Doing
<1>5. Settled(tls).cert.id = place[p].gen
  BY <1>1, <1>4, Alone, SettledIs, EmptySets
<1>6. rotated' \in {rotated, place[p].gen}
  BY DEF Installed
<1> QED
  BY <1>1, <1>2, <1>3, <1>4, <1>5, <1>6, LeaveOk, KeptIsSame DEF FilesKept

LEMMA BindOk == ASSUME CertInv, Bind PROVE CertInv' /\ SamePair
<1>1. place[Server].at = "settle" /\ place[Server].at \in Inside /\ Server \in Procs
  BY DEF Bind, At, Inside, Procs
<1>2. FilesKept /\ UNCHANGED <<origin, owned, rotated, copied, gens>>
  BY DEF Bind, FilesKept, histVars
<1>3. copied' \in [leaf : 0..gens, nonce : BOOLEAN]
  BY <1>2 DEF CertInv, CertTyped
<1>4. \E outcome \in {"ok", "refused"} : Leave(Server, outcome)
  BY DEF Bind, WriteBinding
<1> QED
  BY <1>1, <1>2, <1>3, <1>4, LeaveOk, KeptIsSame DEF FilesKept

-----------------------------------------------------------------------------
(* The steps outside the section. *)

LEMMA PlacedOk ==
    ASSUME CertInv, NEW p \in Procs, NEW pl \in Places, Resting(pl), place' = [place EXCEPT ![p] = pl],
           FilesKept, UNCHANGED <<lock, gens, origin, owned, rotated>>,
           copied' \in [leaf : 0..gens, nonce : BOOLEAN]
    PROVE  CertInv'
<1>1. place \in [Procs -> Places] /\ lock \in Procs \cup {Nobody}
  BY DEF CertInv, CertTyped
<1>2. place' \in [Procs -> Places] /\ \A q \in Procs \ {p} : place'[q] = place[q] /\ Resting(place'[p])
  BY <1>1
<1>3. Resting(place'[p])
  BY <1>1
<1> QED
  BY <1>1, <1>2, <1>3, Rests DEF FilesKept

LEMMA GoesOut ==
    ASSUME CertInv, NEW p \in Procs, NEW step \in Exits, Goto(p, step),
           FilesKept, UNCHANGED <<lock, gens, origin, owned, rotated>>,
           copied' \in [leaf : 0..gens, nonce : BOOLEAN]
    PROVE  CertInv'
<1>1. place \in [Procs -> Places] /\ lock \in Procs \cup {Nobody}
  BY DEF CertInv, CertTyped
<1>2. step \in Inside \cup Outside \cup Jobs /\ step # "wait" /\ step \notin Inside
  BY DEF Exits, Outside, Jobs, Inside, Staging, Putting
<1>3. /\ place' \in [Procs -> Places] /\ \A q \in Procs \ {p} : place'[q] = place[q]
      /\ Resting(place'[p])
  BY <1>1, <1>2, GotoIs, InsideOutside DEF Resting, Outside
<1> QED
  BY <1>1, <1>3, Rests DEF FilesKept

LEMMA EnterOk == ASSUME CertInv, NEW p \in Procs, Enter(p) PROVE CertInv' /\ SamePair
<1>1. place[p].at = "wait" /\ place[p].job \in Jobs /\ place[p].gen = 0
  BY DEF Enter, At, CertInv, PlaceOk
<1>2. FilesKept /\ UNCHANGED <<gens, origin, owned, rotated, copied>>
  BY DEF Enter, FilesKept, fileVars, countVars, histVars
<1>3. copied' \in [leaf : 0..gens, nonce : BOOLEAN]
  BY <1>2 DEF CertInv, CertTyped
<1>4. CASE lock = Nobody /\ lock' = p /\ Goto(p, "settle")
  <2>1. \A q \in Procs : place[q].at \notin Inside
    BY <1>4, Alone, ProcsAre
  <2>2. place \in [Procs -> Places] /\ "settle" \in Inside
    BY DEF CertInv, CertTyped, Inside
  <2>3. /\ place' \in [Procs -> Places] /\ \A q \in Procs \ {p} : place'[q] = place[q]
        /\ place'[p].at = "settle" /\ place'[p].job = place[p].job /\ place'[p].gen = place[p].gen
    BY <1>4, <2>2, GotoIs, InsideOutside DEF Outside
  <2>4. PlaceOk(p)'
    <3>1. Doing("settle", 0, tls, limbo)'
      BY DEF Doing, Staging
    <3>2. (place[p].at = "settle" /\ place[p].gen = 0 /\ place[p].job \in Jobs /\ lock = p)'
      BY <1>1, <1>4, <2>3
    <3> QED
      BY <3>1, <3>2 DEF PlaceOk
  <2>5. /\ tls' \in Tls /\ Counted(tls', gens') /\ tls' \in limbo' /\ limbo' \subseteq limbo \cup {tls'}
        /\ gens' \in Nat /\ gens <= gens' /\ rotated' \in 0..gens'
        /\ copied' \in [leaf : 0..gens', nonce : BOOLEAN] /\ lock' \in Procs \cup {Nobody}
    BY <1>2, <1>4 DEF CertInv, CertTyped, FilesKept
  <2>6. /\ \A t \in limbo' : Settled(t).cert.id >= rotated'
        /\ Careful /\ owned # 0 => Owners(tls')
    BY <1>2 DEF CertInv, CertTyped, FilesKept
  <2>7. CertInv'
    BY <1>2, <2>1, <2>3, <2>4, <2>5, <2>6, OneMoves
  <2> QED
    BY <1>2, <2>7, KeptIsSame
<1>5. CASE Goto(p, Continues(p, "refused")) /\ UNCHANGED lock
  BY <1>1, <1>2, <1>3, <1>5, ContinuesIs, GoesOut, KeptIsSame
<1> QED
  BY <1>4, <1>5 DEF Enter

LEMMA OuterOk ==
    ASSUME CertInv, \/ \E p \in Procs : Raise(p)
                    \/ Boot \/ ClearFlag \/ Load \/ Pair \/ Shutdown \/ RunCommand \/ Revoke
    PROVE  CertInv' /\ SamePair
<1>1. FilesKept /\ UNCHANGED <<lock, gens, origin, owned, rotated>>
  BY DEF Raise, Boot, ClearFlag, Load, Pair, Shutdown, RunCommand, Revoke, FilesKept, fileVars,
         countVars, histVars
<1>2. copied' \in [leaf : 0..gens, nonce : BOOLEAN]
  <2>1. copied \in [leaf : 0..gens, nonce : BOOLEAN]
    BY DEF CertInv, CertTyped
  <2>2. copied' = copied \/ copied' = [copied EXCEPT !.nonce = FALSE]
    BY DEF Raise, Boot, ClearFlag, Load, Pair, Shutdown, RunCommand, Revoke, histVars
  <2> QED
    BY <2>1, <2>2
<1>3. SamePair /\ Server \in Procs /\ Command \in Procs
  BY <1>1, KeptIsSame DEF Procs
<1>4. ASSUME NEW p \in Procs, NEW step \in Exits, Goto(p, step) PROVE CertInv'
  BY <1>1, <1>2, <1>4, GoesOut
<1>5. ASSUME NEW p \in Procs, NEW pl \in Places, Resting(pl), place' = [place EXCEPT ![p] = pl] PROVE CertInv'
  BY <1>1, <1>2, <1>5, PlacedOk
<1>6. "off" \in Exits /\ "serve" \in Exits /\ "classify" \in Exits /\ "revoke" \in Exits
  BY DEF Exits, Outside, Jobs
<1>7. \A job \in Jobs, facts \in SUBSET {"devices", "seen", "everBound", "originOnly"} :
        LET pl == [at |-> "wait", job |-> job, gen |-> 0, facts |-> facts] IN pl \in Places /\ Resting(pl)
  BY InsideOutside DEF Places, Resting, Outside
<1>8. "ensure" \in Jobs /\ "bind" \in Jobs /\ "approve" \in Jobs /\ "rotate" \in Jobs
  BY DEF Jobs
<1>9. ASSUME NEW job \in Jobs, NEW facts \in SUBSET {"devices", "seen", "everBound", "originOnly"},
             NEW p \in Procs,
             place' = [place EXCEPT ![p] = [at |-> "wait", job |-> job, gen |-> 0, facts |-> facts]]
      PROVE  CertInv'
  BY <1>5, <1>7, <1>9
<1>10. Devices \in SUBSET {"devices", "seen", "everBound", "originOnly"}
  BY DEF Devices
<1>11. ASSUME NEW p \in Procs, Raise(p) PROVE CertInv'
  BY <1>4, <1>6, <1>11 DEF Raise
<1>12. CASE Boot
  <2>1. \/ Goto(Server, "classify") \/ Goto(Server, "off")
        \/ place' = [place EXCEPT ![Server] = [at |-> "wait", job |-> "ensure", gen |-> 0, facts |-> Devices]]
    BY <1>12 DEF Boot
  <2> QED
    BY <1>3, <1>4, <1>6, <1>8, <1>9, <1>10, <2>1
<1>13. CASE ClearFlag
  <2>1. \/ Goto(Server, "off")
        \/ place' = [place EXCEPT ![Server] = [at |-> "wait", job |-> "ensure", gen |-> 0, facts |-> Devices]]
    BY <1>13 DEF ClearFlag
  <2> QED
    BY <1>3, <1>4, <1>6, <1>8, <1>9, <1>10, <2>1
<1>14. CASE Load
  <2> DEFINE facts == (place[Server].facts \cap {"devices"}) \cup (epoch.facts \cap {"seen", "everBound"})
  <2>1. place' = [place EXCEPT ![Server] = [at |-> "wait", job |-> "bind", gen |-> 0, facts |-> facts]]
    BY <1>14 DEF Load
  <2>2. facts \in SUBSET {"devices", "seen", "everBound", "originOnly"}
    OBVIOUS
  <2> HIDE DEF facts
  <2> QED
    BY <1>3, <1>8, <1>9, <2>1, <2>2
<1>15. CASE Pair
  <2>1. place' = place
    BY <1>15 DEF Pair
  <2>2. place[Server].at = "serve" /\ place[Server] \in Places /\ place \in [Procs -> Places]
    BY <1>3, <1>15 DEF Pair, At, CertInv, CertTyped
  <2>3. Resting(place[Server]) /\ place' = [place EXCEPT ![Server] = place[Server]]
    BY <1>3, <2>1, <2>2, InsideOutside DEF Resting, Outside
  <2> QED
    BY <1>3, <1>5, <2>2, <2>3
<1>16. CASE Shutdown
  BY <1>3, <1>4, <1>6, <1>16 DEF Shutdown
<1>17. CASE RunCommand
  <2> DEFINE job == IF OriginOnly THEN "approve" ELSE "rotate"
             facts == {f \in {"originOnly"} : OriginOnly}
  <2>1. place' = [place EXCEPT ![Command] = [at |-> "wait", job |-> job, gen |-> 0, facts |-> facts]]
    BY <1>17 DEF RunCommand
  <2>2. facts \in SUBSET {"devices", "seen", "everBound", "originOnly"} /\ job \in Jobs
    BY <1>8
  <2> HIDE DEF facts, job
  <2> QED
    BY <1>3, <1>9, <2>1, <2>2
<1>18. CASE Revoke
  BY <1>3, <1>4, <1>6, <1>18 DEF Revoke
<1> QED
  BY <1>3, <1>11, <1>12, <1>13, <1>14, <1>15, <1>16, <1>17, <1>18

LEMMA EndOk == ASSUME CertInv, NEW p \in Procs, End(p) PROVE CertInv' /\ SamePair
<1>1. FilesKept /\ UNCHANGED <<gens, origin, owned, rotated, copied>>
  BY DEF End, FilesKept, fileVars, histVars
<1>2. place' = [place EXCEPT ![p] = Idle] /\ lock' = IF lock = p THEN Nobody ELSE lock
  BY DEF End
<1>3. Idle \in Places /\ Resting(Idle)
  BY InsideOutside DEF Idle, Places, Outside, Resting
<1>4. place \in [Procs -> Places] /\ lock \in Procs \cup {Nobody}
      /\ copied' \in [leaf : 0..gens, nonce : BOOLEAN]
  BY <1>1 DEF CertInv, CertTyped
<1> HIDE DEF Idle
<1>5. place' \in [Procs -> Places] /\ \A q \in Procs \ {p} : place'[q] = place[q] /\ Resting(place'[p])
  BY <1>2, <1>3, <1>4
<1>6. Resting(place'[p])
  BY <1>2, <1>3, <1>4
<1>7. lock' = lock \/ \A q \in Procs \ {p} : place[q].at \notin Inside
  BY <1>2, Alone
<1> QED
  BY <1>1, <1>2, <1>4, <1>5, <1>6, <1>7, Rests, KeptIsSame DEF FilesKept

(* Nobody is anywhere. *)
LEMMA OffOk == ASSUME NEW pl, pl.at = "off" PROVE pl.at \notin Inside \cup {"wait", "judge", "discard", "syncDiscard"}
  BY DEF Inside, Staging, Putting

LEMMA CutOk == ASSUME CertInv, PowerCut PROVE CertInv' /\ Cut
<1>1. /\ tls' \in limbo /\ limbo' = {tls'} /\ place' = [p \in Procs |-> Idle] /\ lock' = Nobody
      /\ UNCHANGED <<gens, origin, owned, rotated, copied>>
  BY DEF PowerCut, histVars
<1>2. Idle \in Places /\ Idle.at = "off"
  BY DEF Idle, Places, Outside
<1> HIDE DEF Idle
<1>3. CertTyped'
  BY <1>1, <1>2 DEF CertInv, CertTyped
<1>4. \A p \in Procs : PlaceOk(p)'
  <2>1. \A p \in Procs : place'[p].at = "off"
    BY <1>1, <1>2
  <2> QED
    BY <2>1, OffOk DEF PlaceOk
<1>5. Careful /\ owned' # 0 => \A t \in limbo' : Owners(t)'
  BY <1>1 DEF CertInv, Owners
<1> QED
  BY <1>1, <1>3, <1>4, <1>5 DEF CertInv, Cut

LEMMA OffStays ==
    ASSUME AllOff, UNCHANGED place
    PROVE  \A p \in Procs : PlaceOk(p)'
<1>1. \A p \in Procs : place'[p].at = "off"
  BY DEF AllOff, At
<1> QED
  BY <1>1, OffOk DEF PlaceOk

LEMMA MoveOriginOk == ASSUME CertInv, MoveOrigin PROVE CertInv' /\ SamePair
<1>1. FilesKept /\ UNCHANGED <<place, lock, gens, owned, rotated, copied>> /\ origin' \in Origins /\ AllOff
  BY DEF MoveOrigin, Moves, FilesKept, fileVars, histVars
<1>2. CertTyped'
  BY <1>1 DEF CertInv, CertTyped, FilesKept
<1>3. \A p \in Procs : PlaceOk(p)'
  BY <1>1, OffStays
<1>4. Careful /\ owned' # 0 => \A t \in limbo' : Owners(t)'
  BY <1>1 DEF CertInv, Owners, FilesKept
<1> QED
  BY <1>1, <1>2, <1>3, <1>4, KeptIsSame DEF CertInv, FilesKept

LEMMA CopyVolumeOk == ASSUME CertInv, CopyVolume PROVE CertInv' /\ SamePair
<1>1. FilesKept /\ UNCHANGED <<place, lock, gens, origin, owned, rotated>> /\ AllOff
  BY DEF CopyVolume, Moves, FilesKept, fileVars
<1>2. copied' \in [leaf : 0..gens, nonce : BOOLEAN]
  <2>1. Settled(tls).cert.id <= gens /\ Settled(tls).cert.id \in Nat /\ gens \in Nat
    BY CountedIs DEF CertInv, CertTyped
  <2> QED
    BY <2>1 DEF CopyVolume
<1>3. CertTyped'
  BY <1>1, <1>2 DEF CertInv, CertTyped, FilesKept
<1>4. \A p \in Procs : PlaceOk(p)'
  BY <1>1, OffStays
<1>5. Careful /\ owned' # 0 => \A t \in limbo' : Owners(t)'
  BY <1>1 DEF CertInv, Owners, FilesKept
<1> QED
  BY <1>1, <1>3, <1>4, <1>5, KeptIsSame DEF CertInv, FilesKept

(* The owner's pair is newer than any other, unless one that is staged is
   going to be put over it. *)
LEMMA PutOwnerOk ==
    ASSUME CertInv, PutOwnerMaterial
    PROVE  CertInv' /\ (SamePair \/ NewPair(gens + 1))
<1> DEFINE c == [id |-> gens + 1, host |-> HostOf[origin]]
           t == [tls EXCEPT !.key = gens + 1, !.cert = c]
<1>1. /\ gens' = gens + 1 /\ tls' = t /\ limbo' = {tls'} /\ owned' = gens + 1 /\ AllOff
      /\ Careful => tls.staged = NoStaged
      /\ UNCHANGED <<origin, lock, place, copied, rotated>>
  BY DEF PutOwnerMaterial, Moves
<1>2. tls \in Tls /\ gens \in Nat /\ Counted(tls, gens) /\ tls \in limbo /\ rotated \in 0..gens
  BY DEF CertInv, CertTyped
<1>3. c \in Certs /\ c.id = gens + 1 /\ gens + 1 \in Nat /\ gens <= gens + 1
  <2>1. gens + 1 \in Nat /\ gens <= gens + 1
    BY <1>2
  <2>2. HostOf[origin] \in Hosts
    BY DEF Hosts, CertInv, CertTyped
  <2> QED
    BY <2>1, <2>2 DEF Certs
<1> HIDE DEF c
<1>4. t \in Tls /\ t.key = gens + 1 /\ t.cert = c /\ t.rec = tls.rec /\ t.staged = tls.staged
  <2>1. ASSUME NEW s \in Tls, NEW n \in Nat, NEW d \in Certs
        PROVE  LET u == [s EXCEPT !.key = n, !.cert = d] IN
                 u \in Tls /\ u.key = n /\ u.cert = d /\ u.rec = s.rec /\ u.staged = s.staged
    BY DEF Tls
  <2> QED
    BY <1>2, <1>3, <2>1
<1> HIDE DEF t
<1>5. Counted(t, gens + 1)
  BY <1>2, <1>3, <1>4, CountedIs DEF Counted
<1>6. CASE Complete(tls.staged)
  <2>1. Settled(t) = Settled(tls)
    BY <1>2, <1>4, <1>6, SettledIs, SettledSame
  <2>2. Settled(t).cert.id >= rotated
    BY <2>1, Floor
  <2>3. ~Careful
    BY <1>1, <1>6, EmptySets
  <2>4. CertTyped'
    BY <1>1, <1>2, <1>3, <1>4 DEF CertInv, CertTyped
  <2>5. \A p \in Procs : PlaceOk(p)'
    BY <1>1, OffStays
  <2> QED
    BY <1>1, <1>5, <2>1, <2>2, <2>3, <2>4, <2>5 DEF CertInv, SamePair, Remembered
<1>7. CASE ~Complete(tls.staged)
  <2>1. Settled(t).key = gens + 1 /\ Settled(t).cert.id = gens + 1
    BY <1>3, <1>4, <1>7, SettledIs
  <2>2. Settled(t).cert.id >= rotated
    BY <1>2, <2>1
  <2>3. CertTyped'
    BY <1>1, <1>2, <1>3, <1>4 DEF CertInv, CertTyped
  <2>4. \A p \in Procs : PlaceOk(p)'
    BY <1>1, OffStays
  <2>5. Owners(tls)'
    <3>1. t.rec.id <= gens /\ t.rec.id \in Nat
      BY <1>2, <1>4 DEF Counted, Tls, Certs
    <3>2. t.rec.id # gens + 1
      BY <1>2, <3>1
    <3> QED
      BY <1>1, <1>3, <1>4, <1>7, <3>2 DEF Owners
  <2>6. CertInv'
    BY <1>1, <1>5, <2>2, <2>3, <2>4, <2>5 DEF CertInv
  <2>7. \A s \in limbo : Settled(s).cert.id <= gens /\ Settled(s).cert.id \in Nat
    BY CountedIs DEF CertInv, CertTyped
  <2>8. \A s \in limbo : Settled(s).cert.id < gens + 1
    BY <1>2, <2>7
  <2> QED
    BY <1>1, <2>1, <2>6, <2>8 DEF NewPair, Remembered
<1> QED
  BY <1>6, <1>7

-----------------------------------------------------------------------------
InstallStep == SamePair \/ (\E n \in Nat : NewPair(n)) \/ Cut

LEMMA CertStep == ASSUME CertInv, [Next]_vars PROVE CertInv' /\ InstallStep
<1>1. ASSUME NEW p \in Procs, Locked(p) PROVE CertInv' /\ InstallStep
  <2>1. place[p].gen \in Nat
    BY DEF CertInv, CertTyped, Places
  <2> QED
    BY <1>1, <2>1, EnterOk, SettleOk, DiscardOk, PutKeyOk, PutCertOk, PutRecordOk, CleanUpOk, StageOk,
       StageKeyOk, StageCertOk, StageRecordOk, SyncsStepOk, JudgesOk, InstalledOk
       DEF Locked, InstallStep
<1>2. ASSUME NEW p \in Procs, Raise(p) \/ End(p) PROVE CertInv' /\ InstallStep
  BY <1>2, OuterOk, EndOk DEF InstallStep
<1>3. CASE Bind \/ Boot \/ ClearFlag \/ Load \/ Pair \/ Shutdown \/ RunCommand \/ Revoke
  BY <1>3, BindOk, OuterOk DEF InstallStep
<1>4. CASE PowerCut \/ MoveOrigin \/ CopyVolume
  BY <1>4, CutOk, MoveOriginOk, CopyVolumeOk DEF InstallStep
<1>5. CASE PutOwnerMaterial
  <2>1. gens + 1 \in Nat
    BY DEF CertInv, CertTyped
  <2> QED
    BY <1>5, <2>1, PutOwnerOk DEF InstallStep
<1>6. CASE UNCHANGED vars
  <2>1. UNCHANGED <<tls, limbo, place, lock, gens, origin, owned, rotated, copied>>
    BY <1>6 DEF vars, fileVars, countVars, histVars
  <2>2. CertTyped'
    BY <2>1 DEF CertInv, CertTyped
  <2>3. \A p \in Procs : PlaceOk(p)'
    BY <2>1 DEF CertInv, PlaceOk, Doing, Fresh
  <2>4. CertInv'
    BY <2>1, <2>2, <2>3 DEF CertInv, Owners
  <2> QED
    BY <2>1, <2>4, KeptIsSame DEF FilesKept, InstallStep
<1> QED
  BY <1>1, <1>2, <1>3, <1>4, <1>5, <1>6 DEF Next

LEMMA InitCert == Init => CertInv
<1> SUFFICES ASSUME Init PROVE CertInv
  OBVIOUS
<1>1. Idle \in Places /\ Idle.at = "off"
  BY DEF Idle, Places, Outside
<1>2. tls \in Tls /\ tls.key = 0 /\ tls.cert = NoCert /\ tls.rec = NoCert /\ tls.staged = NoStaged
  BY EmptySets DEF Init, Tls
<1> HIDE DEF Idle
<1>3. CertTyped
  BY <1>1, <1>2 DEF Init, CertTyped
<1>4. Counted(tls, gens)
  BY <1>2, EmptySets DEF Init, Counted
<1>5. Settled(tls).cert.id >= rotated
  BY <1>2, EmptySets, SettledIs DEF Init
<1>6. \A p \in Procs : PlaceOk(p)
  <2>1. \A p \in Procs : place[p].at = "off"
    BY <1>1 DEF Init
  <2> QED
    BY <2>1, OffOk DEF PlaceOk
<1> QED
  BY <1>3, <1>4, <1>5, <1>6 DEF Init, CertInv

LEMMA CertInvariance == Spec => []CertInv
  BY InitCert, CertStep, PTL DEF Spec

-----------------------------------------------------------------------------
(* rotate-cert.js and cert.js: a rotation that was reported survives any power
   cut, and what the owner put is never replaced, for any origins and numbers
   of pairs, failures and power cuts, provided that the owner puts nothing
   while a pair is staged. *)
THEOREM WhatWasReportedStays == ASSUME Careful PROVE Spec => []ReportedPairStays
<1>1. CertInv => ReportedPairStays
  <2> SUFFICES ASSUME CertInv PROVE ReportedPairStays
    OBVIOUS
  <2>1. limbo \cup {tls} = limbo
    BY DEF CertInv, CertTyped
  <2> QED
    BY <2>1 DEF CertInv, Owners, ReportedPairStays, RotationIsDurable, OwnerMaterialIsKept
<1> QED
  BY <1>1, CertInvariance, PTL

(* cert.js implements the atomic replacement of docs/tls-and-certificates.md:
   what the files settle to, now or after a power cut, changes only as a whole
   and only to a newer pair, wherever writeMaterial and settlePendingGeneration
   are interrupted, and whatever the operator puts. *)
THEOREM OnePairAtATime == Spec => ImplementsAtomicPair
<1>1. Init => Abstract!Init
  <2> SUFFICES ASSUME Init PROVE Abstract!Init
    OBVIOUS
  <2>1. tls \in Tls /\ tls.key = 0 /\ tls.cert = NoCert /\ tls.rec = NoCert /\ tls.staged = NoStaged
    BY EmptySets DEF Init, Tls
  <2>2. PairIn(tls) = 0 /\ limbo \cup {tls} = {tls}
    BY <2>1, EmptySets, SettledIs DEF PairIn, Init
  <2> QED
    BY <2>2 DEF Abstract!Init
<1>2. ASSUME CertInv, [Next]_vars
      PROVE  [Abstract!Replace \/ Abstract!Confirm \/ Abstract!PowerCut]_(Abstract!avars)
  <2> DEFINE possible == {PairIn(t) : t \in limbo \cup {tls}}
  <2>1. limbo \cup {tls} = limbo /\ limbo' \cup {tls'} = limbo'
    BY <1>2, CertStep DEF CertInv, CertTyped
  <2>2. possible = {PairIn(t) : t \in limbo} /\ possible' = {PairIn(t) : t \in limbo'}
        /\ PairIn(tls) \in possible
    BY <2>1
  <2>3. CASE SamePair
    <3>1. PairIn(tls') = PairIn(tls)
      BY <2>3 DEF SamePair, PairIn
    <3>2. possible' \in {possible, {PairIn(tls)}}
      BY <2>2, <2>3, <3>1 DEF SamePair, Remembered
    <3> QED
      BY <3>1, <3>2 DEF Abstract!Confirm, Abstract!avars
  <2>4. ASSUME NEW n \in Nat, NewPair(n) PROVE Abstract!Replace
    <3>1. PairIn(tls') = n
      BY <2>4 DEF NewPair, PairIn, Matched
    <3>2. PairIn(tls) < n
      <4>1. Settled(tls).cert.id \in Nat /\ Settled(tls).cert.id < n
        BY <1>2, <2>4, CountedIs DEF CertInv, CertTyped, NewPair
      <4> QED
        BY <4>1 DEF PairIn
    <3>3. possible' \in {possible, possible \cup {n}, {n}} /\ n \in possible'
      BY <2>1, <2>2, <2>4, <3>1 DEF NewPair, Remembered
    <3>4. possible' \in {possible \cup {n}, {n}}
      BY <3>3
    <3>5. n > PairIn(tls)
      BY <3>2
    <3> QED
      BY <3>1, <3>4, <3>5 DEF Abstract!Replace
  <2>5. CASE Cut
    <3>1. PairIn(tls') \in possible /\ possible' = {PairIn(tls')}
      BY <2>2, <2>5 DEF Cut
    <3> QED
      BY <3>1 DEF Abstract!PowerCut
  <2> QED
    BY <1>2, <2>3, <2>4, <2>5, CertStep DEF InstallStep
<1> QED
  BY <1>1, <1>2, CertInvariance, PTL DEF Spec, Abstract!Spec, ImplementsAtomicPair

-----------------------------------------------------------------------------
(* The memory and the other files, and who is where. *)

DeviceType == [leaf : Nat, origin : Origins, at : Nat]
Bindings == [origin : Origins \cup {""}, leaf : Nat, boundAt : Nat]

Contents == SUBSET {"seen", "everBound"}

MemoryTyped ==
    /\ live \in [leaf : Nat, cut : Nat] /\ clock \in Nat
    /\ sidecar \in [reset : BOOLEAN, devices : SUBSET DeviceType]
    /\ epoch \in [facts : Contents, older : SUBSET Contents]
    /\ bindingLimbo \subseteq Bindings /\ binding \in bindingLimbo

Roles ==
    /\ place[Server].at \in Inside \cup {"wait"} => place[Server].job \in {"classify", "rotate", "ensure", "bind"}
    /\ place[Server].at # "revoke"
    /\ place[Command].at \in Inside \cup {"wait"} => place[Command].job \in {"rotate", "approve"}
    /\ place[Command].at \notin {"clearFlag", "load", "serve"}

RoleOf(p, pl) ==
    IF p = Server
    THEN /\ pl.at \in Inside \cup {"wait"} => pl.job \in {"classify", "rotate", "ensure", "bind"}
         /\ pl.at # "revoke"
    ELSE /\ pl.at \in Inside \cup {"wait"} => pl.job \in {"rotate", "approve"}
         /\ pl.at \notin {"clearFlag", "load", "serve"}

LEMMA RolesAre == Roles <=> \A p \in Procs : RoleOf(p, place[p])
  BY DEF Roles, RoleOf, Procs, Server, Command

(* The steps in which the files are worked on, and nothing else. *)
Works(p) ==
    \/ Settle(p) \/ Discard(p) \/ SyncDiscard(p)
    \/ PutKey(p) \/ PutCert(p) \/ PutRecord(p) \/ SyncLive(p) \/ CleanUp(p) \/ SyncGone(p)
    \/ Stage(p) \/ StageKey(p) \/ StageCert(p) \/ StageRecord(p) \/ SyncStaged(p)

GoesOnAs(p) ==
    /\ \A q \in Procs \ {p} : place'[q] = place[q]
    /\ place'[p].at \in Inside /\ place'[p].job = place[p].job /\ place'[p].gen = place[p].gen
    /\ place'[p].facts = place[p].facts /\ lock' = lock
    /\ place'[p].at \in Staging => place[p].at \in Staging

LEMMA WorksIs ==
    ASSUME CertInv, NEW p \in Procs, Works(p)
    PROVE  /\ UNCHANGED <<binding, bindingLimbo, sidecar, epoch, origin, live, clock, gens, histVars>>
           /\ place[p].at \in Inside
           /\ GoesOnAs(p) \/ Leave(p, "refused")
<1>1. UNCHANGED <<binding, bindingLimbo, sidecar, epoch, origin, live, clock, gens, histVars>>
  BY DEF Works, Settle, Discard, SyncDiscard, PutKey, PutCert, PutRecord, SyncLive, CleanUp, SyncGone,
         Stage, StageKey, StageCert, StageRecord, SyncStaged, OnlyTls, fileVars, countVars
<1>2. place[p].at \in Inside
  BY DEF Works, Settle, Discard, SyncDiscard, PutKey, PutCert, PutRecord, SyncLive, CleanUp, SyncGone,
         Stage, StageKey, StageCert, StageRecord, SyncStaged, At, Inside, Staging, Putting
<1>3. \/ Leave(p, "refused")
      \/ \E step \in Inside : /\ Goto(p, step) /\ lock' = lock
                              /\ step \in Staging => place[p].at \in Staging
  <2>1. ASSUME NEW t, NEW step, Changes(p, t, step) \/ Syncs(p, step)
        PROVE  Leave(p, "refused") \/ (Goto(p, step) /\ lock' = lock)
    BY <2>1 DEF Changes, Syncs
  <2>2. \A step \in {"settle", "discard", "syncDiscard", "putKey", "putCert", "putRecord", "syncLive", "cleanUp",
                     "syncGone", "syncStaged", "judge", "installed"} : step \in Inside \ Staging
    BY DEF Inside, Staging, Putting
  <2>3. \A step \in {"stage", "stageKey", "stageCert", "stageRecord"} : step \in Inside /\ step \in Staging
    BY DEF Inside, Staging
  <2>4. CASE Settle(p)
    BY <2>2, <2>4 DEF Settle
  <2>5. CASE SyncGone(p)
    BY <2>1, <2>2, <2>5 DEF SyncGone
  <2>6. CASE Discard(p) \/ SyncDiscard(p) \/ PutKey(p) \/ PutCert(p) \/ PutRecord(p)
    BY <2>1, <2>2, <2>6 DEF Discard, SyncDiscard, PutKey, PutCert, PutRecord
  <2>7. CASE SyncLive(p) \/ CleanUp(p) \/ StageRecord(p) \/ SyncStaged(p)
    BY <2>1, <2>2, <2>7 DEF SyncLive, CleanUp, StageRecord, SyncStaged
  <2>8. CASE Stage(p) \/ StageKey(p) \/ StageCert(p)
    BY <2>1, <2>3, <2>8 DEF Stage, StageKey, StageCert, At
  <2> QED
    BY <2>4, <2>5, <2>6, <2>7, <2>8 DEF Works
<1>4. CASE Leave(p, "refused")
  BY <1>1, <1>2, <1>4
<1>5. CASE \E step \in Inside : /\ Goto(p, step) /\ lock' = lock
                                /\ step \in Staging => place[p].at \in Staging
  <2>1. PICK step \in Inside : /\ Goto(p, step) /\ lock' = lock
                               /\ step \in Staging => place[p].at \in Staging
    BY <1>5
  <2>2. step \notin {"off", "serve"} /\ step \notin Jobs /\ step \notin Outside
    BY InsideOutside DEF Outside, Inside, Staging, Putting, Jobs
  <2>3. /\ \A q \in Procs \ {p} : place'[q] = place[q]
        /\ place'[p].at = step /\ place'[p].job = place[p].job /\ place'[p].gen = place[p].gen
        /\ place'[p].facts = place[p].facts
    BY <1>2, <2>1, <2>2, Alone, GotoIs
  <2>4. GoesOnAs(p)
    BY <2>1, <2>3 DEF GoesOnAs
  <2> QED
    BY <1>1, <1>2, <2>4
<1> QED
  BY <1>3, <1>4, <1>5

(* Where a process goes that leaves the section, or was not let in. *)
LEMMA GoneWhere ==
    ASSUME CertInv, Roles, NEW p \in Procs, place[p].at \in Inside \cup {"wait"}, NEW outcome,
           Goto(p, Continues(p, outcome))
    PROVE  /\ \A q \in Procs \ {p} : place'[q] = place[q]
           /\ \/ place'[p].at = "wait" /\ place'[p].job = "rotate" /\ p = Server /\ place[p].job = "classify"
              \/ place'[p].at = "wait" /\ place'[p].job = "approve" /\ p = Command
              \/ place'[p].at \in {"off", "raise", "revoke", "clearFlag", "load"}
           /\ place'[p].at = "raise" => place[p].job \in {"bind", "approve"} /\ outcome = "ok"
           /\ place'[p].at = "revoke" => p = Command
           /\ place'[p].at = "load" => place[p].job = "ensure" /\ outcome = "ok" /\ p = Server
           /\ place'[p].at = "clearFlag" => /\ p = Server /\ place[p].job \in {"classify", "rotate"}
                                            /\ outcome # "refused"
                                            /\ place[p].job = "classify" => outcome = "owner"
           /\ outcome = "refused" => place'[p].at \in {"off", "revoke"}
           /\ place'[p] \in Places
           /\ place'[p].at # "off" => place'[p].facts = place[p].facts
<1>1. place[p].job \in Jobs /\ RoleOf(p, place[p]) /\ place \in [Procs -> Places]
  BY RolesAre DEF CertInv, PlaceOk, CertTyped
<1> DEFINE step == Continues(p, outcome)
<1>2. step \in Exits
  BY <1>1, ContinuesIs
<1>3. step \in Inside \cup Outside \cup Jobs /\ step # "wait" /\ step \notin Inside
  BY <1>2 DEF Exits, Outside, Jobs, Inside, Staging, Putting
<1>4. /\ step \in Jobs =>
            \/ step = "rotate" /\ p = Server /\ place[p].job = "classify"
            \/ step = "approve" /\ p = Command
      /\ step \notin Jobs => step \in {"off", "raise", "revoke", "clearFlag", "load"}
      /\ step = "raise" => place[p].job \in {"bind", "approve"} /\ outcome = "ok"
      /\ step = "revoke" => p = Command
      /\ step = "load" => place[p].job = "ensure" /\ outcome = "ok" /\ p = Server
      /\ step = "clearFlag" => /\ p = Server /\ place[p].job \in {"classify", "rotate"}
                               /\ outcome # "refused"
                               /\ place[p].job = "classify" => outcome = "owner"
      /\ outcome = "refused" => step \in {"off", "revoke"}
  BY <1>1 DEF Continues, Jobs, Procs, Server, Command, RoleOf
<1>5. Goto(p, step)
  OBVIOUS
<1> HIDE DEF step
<1>6. /\ place' \in [Procs -> Places] /\ \A q \in Procs \ {p} : place'[q] = place[q]
      /\ step \in Jobs => place'[p].at = "wait" /\ place'[p].job = step /\ place'[p].gen = 0
      /\ step \notin Jobs => place'[p].at = step
      /\ step \notin {"off", "serve"} => place'[p].facts = place[p].facts
  BY <1>1, <1>3, <1>5, GotoIs
<1>7. "wait" \notin {"off", "raise", "revoke", "clearFlag", "load"}
  OBVIOUS
<1>8. CASE step \in Jobs
  BY <1>4, <1>6, <1>8 DEF Jobs
<1>9. CASE step \notin Jobs
  BY <1>4, <1>6, <1>9
<1> QED
  BY <1>8, <1>9

(* Only one process has moved, and is where it may be. *)
LEMMA RolesKept ==
    ASSUME Roles, NEW p \in Procs, \A q \in Procs \ {p} : place'[q] = place[q], RoleOf(p, place'[p])
    PROVE  Roles'
<1>1. \A q \in Procs : RoleOf(q, place'[q])
  BY RolesAre
<1> QED
  BY <1>1 DEF Roles, RoleOf, Procs, Server, Command

LEMMA LeftRole ==
    ASSUME CertInv, Roles, NEW p \in Procs, place[p].at \in Inside \cup {"wait"}, NEW outcome,
           Goto(p, Continues(p, outcome))
    PROVE  Roles'
<1>1. RoleOf(p, place'[p])
  BY GoneWhere DEF RoleOf, Inside, Staging, Putting, Procs, Server, Command
<1> QED
  BY <1>1, GoneWhere, RolesKept

LEMMA BuildIs ==
    ASSUME CertInv, NEW p \in Procs, place[p].at = "judge", Build(p)
    PROVE  \/ Leave(p, "refused") /\ gens' = gens
           \/ /\ \A q \in Procs \ {p} : place'[q] = place[q]
              /\ place'[p].at = "stage" /\ place'[p].job = place[p].job /\ place'[p].gen = gens + 1
              /\ gens' = gens + 1 /\ lock' = lock /\ place'[p].facts = place[p].facts
<1>1. place[p] \in Places /\ place \in [Procs -> Places] /\ gens \in Nat
  BY DEF CertInv, CertTyped
<1> DEFINE pl == [place[p] EXCEPT !.at = "stage", !.gen = gens + 1]
<1>2. CASE place' = [place EXCEPT ![p].at = "stage", ![p].gen = gens + 1] /\ gens' = gens + 1 /\ lock' = lock
  <2>1. place' = [place EXCEPT ![p] = pl]
    BY <1>2
  <2>2. pl.at = "stage" /\ pl.gen = gens + 1 /\ pl.job = place[p].job /\ pl.facts = place[p].facts
    BY <1>1 DEF Places
  <2> HIDE DEF pl
  <2> QED
    BY <1>1, <1>2, <2>1, <2>2
<1> QED
  BY <1>2 DEF Build

(* One of the places that is given as a record. *)
LEMMA PlacedAt ==
    ASSUME CertInv, NEW p \in Procs, NEW job, NEW facts,
           place' = [place EXCEPT ![p] = [at |-> "wait", job |-> job, gen |-> 0, facts |-> facts]]
    PROVE  /\ \A q \in Procs \ {p} : place'[q] = place[q]
           /\ place'[p].at = "wait" /\ place'[p].job = job /\ place'[p].gen = 0 /\ place'[p].facts = facts
  BY DEF CertInv, CertTyped

LEMMA GotoOut ==
    ASSUME CertInv, NEW p \in Procs, NEW step \in Exits, Goto(p, step)
    PROVE  /\ \A q \in Procs \ {p} : place'[q] = place[q]
           /\ step \in Jobs => place'[p].at = "wait" /\ place'[p].job = step
           /\ step \notin Jobs => place'[p].at = step
<1>1. step \in Inside \cup Outside \cup Jobs /\ place \in [Procs -> Places]
  BY DEF Exits, CertInv, CertTyped
<1> QED
  BY <1>1, GotoIs

LEMMA RolesStep == ASSUME CertInv, Roles, [Next]_vars PROVE Roles'
<1>0. Server \in Procs /\ Command \in Procs /\ Server # Command
  BY DEF Procs, Server, Command
<1>1. ASSUME NEW p \in Procs, Works(p) PROVE Roles'
  <2>1. CASE GoesOnAs(p)
    <3>1. RoleOf(p, place'[p])
      BY <1>1, <2>1, WorksIs, RolesAre DEF GoesOnAs, RoleOf, Inside, Staging, Putting
    <3> QED
      BY <2>1, <3>1, RolesKept DEF GoesOnAs
  <2> QED
    BY <1>1, <2>1, WorksIs, LeftRole DEF Leave
<1>2. ASSUME NEW p \in Procs, Enter(p) PROVE Roles'
  <2>1. place[p].at = "wait" /\ place \in [Procs -> Places] /\ "settle" \in Inside
    BY <1>2 DEF Enter, At, CertInv, CertTyped, Inside
  <2>2. CASE Goto(p, "settle")
    <3>1. /\ \A q \in Procs \ {p} : place'[q] = place[q]
          /\ place'[p].at = "settle" /\ place'[p].job = place[p].job
      BY <2>1, <2>2, GotoIs, InsideOutside DEF Outside
    <3>2. RoleOf(p, place'[p])
      BY <2>1, <3>1, RolesAre DEF RoleOf
    <3> QED
      BY <3>1, <3>2, RolesKept
  <2> QED
    BY <1>2, <2>1, <2>2, LeftRole DEF Enter
<1>3. ASSUME NEW p \in Procs, place[p].at \in Inside, NEW outcome, Leave(p, outcome) PROVE Roles'
  BY <1>3, LeftRole DEF Leave
<1>4. ASSUME NEW p \in Procs, place[p].at = "judge", Build(p) PROVE Roles'
  <2>1. CASE Leave(p, "refused")
    BY <1>3, <1>4, <2>1 DEF Inside
  <2>2. CASE /\ \A q \in Procs \ {p} : place'[q] = place[q]
             /\ place'[p].at = "stage" /\ place'[p].job = place[p].job
    <3>1. RoleOf(p, place'[p])
      BY <1>4, <2>2, RolesAre DEF RoleOf, Inside
    <3> QED
      BY <2>2, <3>1, RolesKept
  <2> QED
    BY <1>4, <2>1, <2>2, BuildIs
<1>5. ASSUME NEW p \in Procs, JudgeClassify(p) \/ JudgeRotate(p) \/ JudgeEnsure(p) \/ JudgeApprove(p)
      PROVE  Roles'
  <2>1. place[p].at = "judge" /\ place[p].at \in Inside
    BY <1>5 DEF JudgeClassify, JudgeRotate, JudgeEnsure, JudgeApprove, At, Inside
  <2>2. Build(p) \/ \E outcome \in {"ok", "absent", "generated", "owner", "refused"} : Leave(p, outcome)
    BY <1>5 DEF JudgeClassify, JudgeRotate, JudgeEnsure, JudgeApprove, WriteBinding
  <2> QED
    BY <1>3, <1>4, <2>1, <2>2
<1>6. ASSUME NEW p \in Procs, Installed(p) PROVE Roles'
  BY <1>3, <1>6 DEF Installed, At, Inside
<1>7. CASE Bind
  <2>1. place[Server].at \in Inside /\ \E outcome \in {"ok", "refused"} : Leave(Server, outcome)
    BY <1>7 DEF Bind, WriteBinding, At, Inside
  <2> QED
    BY <1>0, <1>3, <2>1
<1>8. ASSUME NEW p \in Procs, Raise(p) PROVE Roles'
  <2>1. "serve" \in Exits /\ "revoke" \in Exits /\ "serve" \notin Jobs /\ "revoke" \notin Jobs
    BY DEF Exits, Outside, Jobs
  <2>2. /\ \A q \in Procs \ {p} : place'[q] = place[q]
        /\ place'[p].at = IF p = Server THEN "serve" ELSE "revoke"
    BY <1>8, <2>1, GotoOut DEF Raise
  <2>3. RoleOf(p, place'[p])
    BY <2>2 DEF RoleOf, Inside, Staging, Putting
  <2> QED
    BY <2>2, <2>3, RolesKept
<1>9. ASSUME NEW p \in Procs, place'[p].at = "off", \A q \in Procs \ {p} : place'[q] = place[q] PROVE Roles'
  <2>1. RoleOf(p, place'[p])
    BY <1>9 DEF RoleOf, Inside, Staging, Putting
  <2> QED
    BY <1>9, <2>1, RolesKept
<1>10. "off" \in Exits /\ "classify" \in Exits /\ "off" \notin Jobs /\ "classify" \in Jobs
  BY DEF Exits, Outside, Jobs
<1>11. ASSUME NEW job \in {"ensure", "bind"}, NEW facts,
              place' = [place EXCEPT ![Server] = [at |-> "wait", job |-> job, gen |-> 0, facts |-> facts]]
       PROVE  Roles'
  <2>1. /\ \A q \in Procs \ {Server} : place'[q] = place[q]
        /\ place'[Server].at = "wait" /\ place'[Server].job = job
    BY <1>0, <1>11, PlacedAt
  <2>2. RoleOf(Server, place'[Server])
    BY <1>11, <2>1 DEF RoleOf
  <2> QED
    BY <1>0, <2>1, <2>2, RolesKept
<1>12. CASE Boot \/ ClearFlag
  <2>1. \/ Goto(Server, "classify") \/ Goto(Server, "off")
        \/ place' = [place EXCEPT ![Server] = [at |-> "wait", job |-> "ensure", gen |-> 0, facts |-> Devices]]
    BY <1>12 DEF Boot, ClearFlag
  <2>2. CASE Goto(Server, "classify")
    <3>1. /\ \A q \in Procs \ {Server} : place'[q] = place[q]
          /\ place'[Server].at = "wait" /\ place'[Server].job = "classify"
      BY <1>0, <1>10, <2>2, GotoOut
    <3>2. RoleOf(Server, place'[Server])
      BY <3>1 DEF RoleOf
    <3> QED
      BY <1>0, <3>1, <3>2, RolesKept
  <2> QED
    BY <1>0, <1>9, <1>10, <1>11, <2>1, <2>2, GotoOut
<1>13. CASE Load
  BY <1>11, <1>13 DEF Load
<1>14. CASE Shutdown \/ Revoke
  BY <1>0, <1>9, <1>10, <1>14, GotoOut DEF Shutdown, Revoke
<1>15. CASE RunCommand
  <2> DEFINE job == IF OriginOnly THEN "approve" ELSE "rotate"
             facts == {f \in {"originOnly"} : OriginOnly}
  <2>1. place' = [place EXCEPT ![Command] = [at |-> "wait", job |-> job, gen |-> 0, facts |-> facts]]
    BY <1>15 DEF RunCommand
  <2>2. job \in {"rotate", "approve"}
    OBVIOUS
  <2> HIDE DEF facts, job
  <2>3. /\ \A q \in Procs \ {Command} : place'[q] = place[q]
        /\ place'[Command].at = "wait" /\ place'[Command].job = job
    BY <1>0, <2>1, PlacedAt
  <2>4. RoleOf(Command, place'[Command])
    BY <1>0, <2>2, <2>3 DEF RoleOf
  <2> QED
    BY <1>0, <2>3, <2>4, RolesKept
<1>16. ASSUME NEW p \in Procs, End(p) PROVE Roles'
  <2>1. place'[p].at = "off" /\ \A q \in Procs \ {p} : place'[q] = place[q]
    BY <1>16 DEF End, Idle, CertInv, CertTyped
  <2> QED
    BY <1>9, <2>1
<1>17. CASE PowerCut
  <2>1. \A p \in Procs : place'[p].at = "off"
    BY <1>17 DEF PowerCut, Idle
  <2> QED
    BY <1>0, <2>1 DEF Roles, Inside, Staging, Putting
<1>18. CASE Pair \/ MoveOrigin \/ PutOwnerMaterial \/ CopyVolume \/ UNCHANGED vars
  BY <1>18 DEF Roles, Pair, MoveOrigin, PutOwnerMaterial, CopyVolume, vars
<1> QED
  BY <1>1, <1>2, <1>5, <1>6, <1>7, <1>8, <1>12, <1>13, <1>14, <1>15, <1>16, <1>17, <1>18
     DEF Next, Locked, Works

LEMMA RecordTyped ==
    ASSUME MemoryTyped, NEW facts \in Contents, RaisedBy(facts)
    PROVE  epoch' \in [facts : Contents, older : SUBSET Contents]
<1> DEFINE next == epoch.facts \cup facts
<1>1. next \in Contents /\ epoch.facts \in Contents /\ epoch.older \subseteq Contents
  BY DEF MemoryTyped, Contents
<1>2. \/ epoch' = epoch \/ epoch' = [facts |-> next, older |-> {}]
      \/ epoch' = [facts |-> next, older |-> epoch.older \cup {epoch.facts}]
  BY DEF RaisedBy
<1>3. ASSUME NEW older \in SUBSET Contents
      PROVE  [facts |-> next, older |-> older] \in [facts : Contents, older : SUBSET Contents]
  BY <1>1, <1>3
<1>4. {} \in SUBSET Contents /\ epoch.older \cup {epoch.facts} \in SUBSET Contents
  BY <1>1
<1> HIDE DEF next
<1> QED
  BY <1>2, <1>3, <1>4 DEF MemoryTyped

LEMMA WritesBinding ==
    ASSUME MemoryTyped, NEW p \in Procs, NEW b \in Bindings, WriteBinding(p, b)
    PROVE  bindingLimbo' \subseteq Bindings /\ binding' \in bindingLimbo'
  BY DEF WriteBinding, MemoryTyped

LEMMA MemoryStep ==
    ASSUME CertInv, MemoryTyped, [Next]_vars
    PROVE  MemoryTyped'
<1>0. NoBinding \in Bindings /\ tls \in Tls /\ tls.cert.id \in Nat /\ origin \in Origins
  BY DEF NoBinding, Bindings, CertInv, CertTyped, Tls, Certs
<1>1. CASE UNCHANGED <<live, clock, sidecar, epoch, binding, bindingLimbo>>
  BY <1>1 DEF MemoryTyped
<1>2. ASSUME NEW p \in Procs, Locked(p) PROVE MemoryTyped'
  <2>1. CASE Works(p)
    BY <1>1, <2>1, WorksIs
  <2>2. CASE Enter(p) \/ JudgeClassify(p) \/ JudgeRotate(p)
    BY <1>1, <2>2 DEF Enter, JudgeClassify, JudgeRotate, fileVars, countVars
  <2>3. CASE JudgeEnsure(p)
    <3>1. UNCHANGED <<clock, sidecar, epoch, binding, bindingLimbo>>
      BY <2>3 DEF JudgeEnsure, fileVars
    <3>2. live' = live \/ live' = [live EXCEPT !.leaf = tls.cert.id]
      BY <2>3 DEF JudgeEnsure
    <3>3. live' \in [leaf : Nat, cut : Nat]
      BY <1>0, <3>2 DEF MemoryTyped
    <3> QED
      BY <3>1, <3>3 DEF MemoryTyped
  <2>4. CASE Installed(p)
    <3>1. UNCHANGED <<clock, sidecar, epoch>> /\ place[p].gen \in Nat
      BY <2>4 DEF Installed, CertInv, CertTyped, Places
    <3>2. live' = live \/ live' = [live EXCEPT !.leaf = place[p].gen]
      BY <2>4 DEF Installed
    <3>3. live' \in [leaf : Nat, cut : Nat]
      BY <3>1, <3>2 DEF MemoryTyped
    <3>4. \/ UNCHANGED <<binding, bindingLimbo>>
          \/ binding' = NoBinding /\ bindingLimbo' = bindingLimbo \cup {NoBinding}
      BY <2>4 DEF Installed
    <3> QED
      BY <1>0, <3>1, <3>3, <3>4 DEF MemoryTyped
  <2>5. CASE JudgeApprove(p)
    <3>1. UNCHANGED <<live, sidecar, epoch>>
      BY <2>5 DEF JudgeApprove
    <3>2. [origin |-> origin, leaf |-> tls.cert.id, boundAt |-> clock + 1] \in Bindings
      <4>1. clock + 1 \in Nat
        BY DEF MemoryTyped
      <4> QED
        BY <1>0, <4>1 DEF Bindings
    <3>3. /\ clock' \in {clock, clock + 1}
          /\ \/ UNCHANGED <<binding, bindingLimbo>>
             \/ WriteBinding(p, [origin |-> origin, leaf |-> tls.cert.id, boundAt |-> clock + 1])
      BY <2>5 DEF JudgeApprove
    <3>4. bindingLimbo' \subseteq Bindings /\ binding' \in bindingLimbo'
      BY <3>2, <3>3, WritesBinding DEF MemoryTyped
    <3> QED
      BY <3>1, <3>3, <3>4 DEF MemoryTyped
  <2> QED
    BY <1>2, <2>1, <2>2, <2>3, <2>4, <2>5 DEF Locked, Works
<1>3. ASSUME NEW p \in Procs, Raise(p) PROVE MemoryTyped'
  <2>1. UNCHANGED <<live, clock, sidecar, binding, bindingLimbo>>
    BY <1>3 DEF Raise, fileVars
  <2>2. PICK facts \in Contents : RaisedBy(facts)
    BY <1>3 DEF Raise, Contents
  <2>3. epoch' \in [facts : Contents, older : SUBSET Contents]
    BY <2>2, RecordTyped
  <2> QED
    BY <2>1, <2>3 DEF MemoryTyped
<1>4. CASE Bind
  <2> DEFINE grants == place[Server].facts \cap {"devices", "seen"} # {}
             at == IF binding.origin = origin THEN binding.boundAt ELSE AdoptedAt(binding, grants)
             b == [origin |-> origin, leaf |-> live.leaf, boundAt |-> at]
  <2>1. binding \in Bindings /\ clock \in Nat
    BY DEF MemoryTyped
  <2>2. at \in Nat
    <3>0. clock + 1 \in Nat
      BY <2>1
    <3>1. binding.boundAt \in Nat
      BY <2>1 DEF Bindings
    <3>2. \A g \in BOOLEAN : AdoptedAt(binding, g) \in Nat
      BY <3>0, <3>1 DEF AdoptedAt
    <3>3. grants \in BOOLEAN
      OBVIOUS
    <3> HIDE DEF grants
    <3> QED
      BY <3>1, <3>2, <3>3
  <2>3. /\ UNCHANGED <<sidecar, epoch>> /\ Server \in Procs
        /\ live' = live \/ live' = [live EXCEPT !.cut = at]
        /\ clock' \in {clock, at}
        /\ (UNCHANGED <<binding, bindingLimbo>> \/ WriteBinding(Server, b))
    BY <1>4 DEF Bind, Procs
  <2>4. b \in Bindings
    BY <1>0, <2>2 DEF Bindings, MemoryTyped
  <2> HIDE DEF at, b
  <2>5. bindingLimbo' \subseteq Bindings /\ binding' \in bindingLimbo'
    BY <2>3, <2>4, WritesBinding DEF MemoryTyped
  <2>6. live' \in [leaf : Nat, cut : Nat]
    BY <2>2, <2>3 DEF MemoryTyped
  <2> QED
    BY <2>1, <2>2, <2>3, <2>5, <2>6 DEF MemoryTyped
<1>5. CASE Boot
  <2>1. UNCHANGED <<clock, epoch, binding>> /\ live' = [leaf |-> 0, cut |-> 0]
        /\ bindingLimbo' \in {bindingLimbo, {binding}}
        /\ (sidecar' = sidecar \/ sidecar' = [reset |-> TRUE, devices |-> {}])
    BY <1>5 DEF Boot, SyncsBinding
  <2>2. [reset |-> TRUE, devices |-> {}] \in [reset : BOOLEAN, devices : SUBSET DeviceType]
    OBVIOUS
  <2> QED
    BY <2>1, <2>2 DEF MemoryTyped
<1>6. CASE ClearFlag
  <2>1. UNCHANGED <<clock, epoch, binding, live>> /\ bindingLimbo' \in {bindingLimbo, {binding}}
        /\ (sidecar' = sidecar \/ sidecar' = [sidecar EXCEPT !.reset = FALSE])
    BY <1>6 DEF ClearFlag, SyncsBinding
  <2>2. [sidecar EXCEPT !.reset = FALSE] \in [reset : BOOLEAN, devices : SUBSET DeviceType]
    BY DEF MemoryTyped
  <2> QED
    BY <2>1, <2>2 DEF MemoryTyped
<1>7. CASE Pair
  <2> DEFINE d == [leaf |-> live.leaf, origin |-> origin, at |-> clock + 1]
  <2>1. /\ UNCHANGED <<binding, live>> /\ bindingLimbo' = {binding} /\ clock' = clock + 1
        /\ sidecar' = [sidecar EXCEPT !.devices = @ \cup {d}]
        /\ RaisedBy({"seen"})
    BY <1>7 DEF Pair, SyncsBinding
  <2>2. d \in DeviceType
    BY <1>0 DEF DeviceType, MemoryTyped
  <2> HIDE DEF d
  <2>3. sidecar' \in [reset : BOOLEAN, devices : SUBSET DeviceType]
    BY <2>1, <2>2 DEF MemoryTyped
  <2>4. epoch' \in [facts : Contents, older : SUBSET Contents]
    BY <2>1, RecordTyped DEF Contents
  <2> QED
    BY <2>1, <2>3, <2>4 DEF MemoryTyped
<1>8. CASE Revoke
  <2>1. UNCHANGED <<clock, epoch, binding, live>> /\ bindingLimbo' \in {bindingLimbo, {binding}}
        /\ (sidecar' = sidecar \/ sidecar' = [sidecar EXCEPT !.devices = {}])
    BY <1>8 DEF Revoke, SyncsBinding
  <2>2. [sidecar EXCEPT !.devices = {}] \in [reset : BOOLEAN, devices : SUBSET DeviceType]
    BY DEF MemoryTyped
  <2> QED
    BY <2>1, <2>2 DEF MemoryTyped
<1>9. CASE PowerCut
  BY <1>9 DEF PowerCut, MemoryTyped
<1>10. CASE Load \/ Shutdown \/ RunCommand \/ MoveOrigin \/ PutOwnerMaterial \/ CopyVolume \/ UNCHANGED vars
  BY <1>1, <1>10 DEF Load, Shutdown, RunCommand, MoveOrigin, PutOwnerMaterial, CopyVolume, vars, fileVars, countVars
<1>11. ASSUME NEW p \in Procs, End(p) PROVE MemoryTyped'
  BY <1>1, <1>11 DEF End, fileVars
<1> QED
  BY <1>2, <1>3, <1>4, <1>5, <1>6, <1>7, <1>8, <1>9, <1>10, <1>11 DEF Next

-----------------------------------------------------------------------------
(* The copy of a volume. *)

OwnedT(t) == ~MayReplace(Settled(t))

(* What is staged by now is a pair that Companion made. *)
LEMMA StagedIsMade ==
    ASSUME CertInv, NEW p \in Procs, StageRecord(p)
    PROVE  SamePair \/ (~OwnedT(tls') /\ limbo' = limbo \cup {tls'})
<1> DEFINE n == place[p].gen
           s == [Empty EXCEPT !.key = n, !.cert = NewCert(p), !.rec = NewCert(p)]
           t == [tls EXCEPT !.staged = s]
<1>1. place[p].at = "stageRecord" /\ place[p].at \in Inside
  BY DEF StageRecord, At, Inside, Staging
<1>2. /\ tls.staged = [Empty EXCEPT !.key = n, !.cert = NewCert(p)]
      /\ Fresh(n, limbo) /\ n \in Nat /\ tls \in limbo
  BY <1>1, Alone, NewCertIs DEF Doing, Staging
<1>3. s \in StagedSets /\ s.key = n /\ s.cert = NewCert(p) /\ s.rec = NewCert(p) /\ s.dir
  BY <1>2, EmptySets, NewCertIs DEF StagedSets
<1>4. Complete(s) /\ s.key <= gens /\ s.cert.id <= gens
  BY <1>1, <1>2, <1>3, NewCertIs, Alone DEF Complete, Fresh
<1>5. [tls EXCEPT !.staged.rec = NewCert(p)] = t
  BY <1>2
<1> HIDE DEF s
<1>6. t \in Tls /\ t.staged = s
  BY <1>1, <1>3, <1>4, Alone, Restaged
<1>7. Changes(p, t, "syncStaged")
  BY <1>5 DEF StageRecord
<1> HIDE DEF t
<1>8. Settled(t).rec = Settled(t).cert /\ Settled(t).cert.id # 0
  BY <1>2, <1>3, <1>4, <1>6, SettledIs, NewCertIs DEF Fresh
<1>9. ~OwnedT(t)
  BY <1>8 DEF OwnedT, MayReplace, Generated
<1>10. CASE tls' = t /\ limbo' = limbo \cup {t}
  BY <1>9, <1>10
<1>11. CASE UNCHANGED <<tls, limbo>>
  BY <1>11 DEF SamePair, Remembered
<1> QED
  BY <1>7, <1>10, <1>11 DEF Changes

(* What a step does to what the files settle to, with who is where. *)
LimboStep ==
    \/ SamePair
    \/ Cut /\ \A p \in Procs : place'[p].at = "off"
    \/ limbo' = {tls'} /\ Settled(tls').cert.id = gens + 1 /\ UNCHANGED <<place, copied>> /\ AllOff
    \/ /\ ~OwnedT(tls') /\ limbo' = limbo \cup {tls'} /\ UNCHANGED copied
       /\ \E p \in Procs : place[p].at = "stageRecord"
       /\ \A p \in Procs : place'[p].at \notin Staging

LEMMA LimboMoves == ASSUME CertInv, [Next]_vars PROVE LimboStep
<1>1. ASSUME NEW p \in Procs, StageRecord(p) PROVE LimboStep
  <2>1. place[p].at = "stageRecord" /\ UNCHANGED copied /\ Changes(p, [tls EXCEPT !.staged.rec = NewCert(p)], "syncStaged")
    BY <1>1 DEF StageRecord, At, OnlyTls, histVars
  <2>2. CASE UNCHANGED <<tls, limbo>>
    BY <2>2 DEF LimboStep, SamePair, Remembered
  <2>3. CASE Goto(p, "syncStaged")
    <3>1. place'[p].at = "syncStaged" /\ \A q \in Procs \ {p} : place'[q] = place[q]
      BY <2>1, <2>3, Alone, GotoIs, InsideOutside DEF Inside, Staging, CertInv, CertTyped
    <3>2. \A q \in Procs \ {p} : place[q].at \notin Inside
      BY <2>1, Alone DEF Inside, Staging
    <3>3. \A q \in Procs : place'[q].at \notin Staging
      BY <3>1, <3>2 DEF Inside, Staging
    <3> QED
      BY <1>1, <2>1, <3>3, StagedIsMade DEF LimboStep
  <2> QED
    BY <2>1, <2>2, <2>3 DEF Changes
<1>2. ASSUME NEW p \in Procs, Locked(p), ~StageRecord(p) PROVE SamePair
  BY <1>2, EnterOk, SettleOk, DiscardOk, PutKeyOk, PutCertOk, PutRecordOk, CleanUpOk, StageOk,
     StageKeyOk, StageCertOk, SyncsStepOk, JudgesOk, InstalledOk
     DEF Locked
<1>3. CASE PutOwnerMaterial
  <2>1. limbo' = {tls'} /\ AllOff /\ UNCHANGED <<place, copied>>
    BY <1>3 DEF PutOwnerMaterial, Moves
  <2> QED
    BY <1>3, <2>1, PutOwnerOk DEF LimboStep, NewPair
<1>4. CASE PowerCut
  <2>1. \A p \in Procs : place'[p].at = "off"
    BY <1>4 DEF PowerCut, Idle
  <2> QED
    BY <1>4, <2>1, CutOk DEF LimboStep
<1>5. ASSUME NEW p \in Procs, Raise(p) \/ End(p) PROVE SamePair
  BY <1>5, OuterOk, EndOk
<1>6. CASE Bind \/ Boot \/ ClearFlag \/ Load \/ Pair \/ Shutdown \/ RunCommand \/ Revoke \/ MoveOrigin \/ CopyVolume
  BY <1>6, BindOk, OuterOk, MoveOriginOk, CopyVolumeOk DEF LimboStep
<1>7. CASE UNCHANGED vars
  BY <1>7, KeptIsSame DEF FilesKept, LimboStep, vars, fileVars
<1> QED
  BY <1>1, <1>2, <1>3, <1>4, <1>5, <1>6, <1>7 DEF Next, LimboStep

-----------------------------------------------------------------------------
(* Who goes where, by whatever step. *)

(* A process that holds the lock may have let it in, is working on the files,
   or has begun a new pair. *)
MoveOf(p) ==
    \/ place'[p] = place[p]
    \/ place'[p].at \notin Inside
    \/ place[p].at = "wait" /\ place'[p].at = "settle" /\ place'[p].gen = 0
    \/ Works(p) /\ GoesOnAs(p) /\ place[p].at \in Inside
    \/ /\ place[p].at = "judge" /\ place'[p].at = "stage" /\ place'[p].gen = gens + 1
       /\ place'[p].job \in {"rotate", "ensure"}
       /\ MayReplace(tls) /\ FilesKept /\ UNCHANGED histVars

LEMMA MoverIs ==
    ASSUME NEW q \in Procs, \A r \in Procs \ {q} : place'[r] = place[r], MoveOf(q), NEW p \in Procs
    PROVE  MoveOf(p)
  BY DEF MoveOf

LEMMA Movement == ASSUME CertInv, Roles, [Next]_vars, NEW p \in Procs PROVE MoveOf(p)
<1>0. Server \in Procs /\ Command \in Procs /\ Server # Command
  BY DEF Procs, Server, Command
<1>1. ASSUME NEW q \in Procs, \A r \in Procs \ {q} : place'[r] = place[r], place'[q].at \notin Inside
      PROVE  MoveOf(p)
  BY <1>1, MoverIs DEF MoveOf
<1>2. ASSUME NEW q \in Procs, place[q].at \in Inside \cup {"wait"}, NEW outcome, Goto(q, Continues(q, outcome))
      PROVE  MoveOf(p)
  <2>1. place'[q].at \notin Inside
    BY <1>2, GoneWhere DEF Inside, Staging, Putting
  <2> QED
    BY <1>1, <1>2, <2>1, GoneWhere
<1>3. ASSUME NEW q \in Procs, Works(q) PROVE MoveOf(p)
  <2>1. CASE GoesOnAs(q)
    BY <1>3, <2>1, WorksIs, MoverIs DEF GoesOnAs, MoveOf
  <2> QED
    BY <1>2, <1>3, <2>1, WorksIs DEF Leave
<1>4. ASSUME NEW q \in Procs, Enter(q) PROVE MoveOf(p)
  <2>1. place[q].at = "wait" /\ place \in [Procs -> Places] /\ "settle" \in Inside /\ place[q].gen = 0
    BY <1>4 DEF Enter, At, CertInv, CertTyped, PlaceOk, Inside
  <2>2. CASE Goto(q, "settle")
    <3>1. /\ \A r \in Procs \ {q} : place'[r] = place[r]
          /\ place'[q].at = "settle" /\ place'[q].gen = 0
      BY <2>1, <2>2, GotoIs, InsideOutside DEF Outside
    <3> QED
      BY <2>1, <3>1, MoverIs DEF MoveOf
  <2> QED
    BY <1>2, <1>4, <2>1, <2>2 DEF Enter
<1>5. ASSUME NEW q \in Procs, place[q].at \in Inside, NEW outcome, Leave(q, outcome) PROVE MoveOf(p)
  BY <1>2, <1>5 DEF Leave
<1>6. ASSUME NEW q \in Procs, JudgeClassify(q) \/ JudgeRotate(q) \/ JudgeEnsure(q) \/ JudgeApprove(q)
      PROVE  MoveOf(p)
  <2>1. place[q].at = "judge" /\ place[q].at \in Inside
    BY <1>6 DEF JudgeClassify, JudgeRotate, JudgeEnsure, JudgeApprove, At, Inside
  <2>2. FilesKept /\ UNCHANGED histVars
    BY <1>6 DEF JudgeClassify, JudgeRotate, JudgeEnsure, JudgeApprove, FilesKept, fileVars
  <2>3. \/ Build(q) /\ MayReplace(tls) /\ place[q].job \in {"rotate", "ensure"}
        \/ \E outcome \in {"ok", "absent", "generated", "owner", "refused"} : Leave(q, outcome)
    BY <1>6 DEF JudgeClassify, JudgeRotate, JudgeEnsure, JudgeApprove, WriteBinding, MayReplace
  <2>4. CASE Build(q) /\ MayReplace(tls) /\ place[q].job \in {"rotate", "ensure"}
    <3>1. CASE /\ \A r \in Procs \ {q} : place'[r] = place[r]
               /\ place'[q].at = "stage" /\ place'[q].gen = gens + 1 /\ place'[q].job = place[q].job
      BY <2>1, <2>2, <2>4, <3>1, MoverIs DEF MoveOf
    <3> QED
      BY <1>5, <2>1, <2>4, <3>1, BuildIs
  <2> QED
    BY <1>5, <2>1, <2>3, <2>4
<1>7. ASSUME NEW q \in Procs, Installed(q) PROVE MoveOf(p)
  BY <1>5, <1>7 DEF Installed, At, Inside
<1>8. CASE Bind
  <2>1. place[Server].at \in Inside /\ \E outcome \in {"ok", "refused"} : Leave(Server, outcome)
    BY <1>8 DEF Bind, WriteBinding, At, Inside
  <2> QED
    BY <1>0, <1>5, <2>1
<1>9. ASSUME NEW q \in Procs, NEW step \in Exits, Goto(q, step) PROVE MoveOf(p)
  <2>1. place'[q].at \notin Inside
    BY <1>9, GotoOut DEF Exits, Outside, Inside, Staging, Putting
  <2> QED
    BY <1>1, <1>9, <2>1, GotoOut
<1>10. ASSUME NEW q \in Procs, NEW job, NEW facts,
              place' = [place EXCEPT ![q] = [at |-> "wait", job |-> job, gen |-> 0, facts |-> facts]]
       PROVE  MoveOf(p)
  <2>1. place'[q].at \notin Inside
    BY <1>10, PlacedAt DEF Inside, Staging, Putting
  <2> QED
    BY <1>1, <1>10, <2>1, PlacedAt
<1>11. \A step \in {"off", "serve", "revoke", "classify"} : step \in Exits
  BY DEF Exits, Outside, Jobs
<1>12. ASSUME NEW q \in Procs, Raise(q) PROVE MoveOf(p)
  <2>1. \E step \in {"serve", "revoke"} : Goto(q, step)
    BY <1>12 DEF Raise
  <2> QED
    BY <1>9, <1>11, <2>1
<1>13. CASE Boot \/ ClearFlag \/ Load
  <2>1. \/ \E step \in {"off", "classify"} : Goto(Server, step)
        \/ \E job \in {"ensure", "bind"} : \E facts \in SUBSET {"devices", "seen", "everBound"} :
              place' = [place EXCEPT ![Server] = [at |-> "wait", job |-> job, gen |-> 0, facts |-> facts]]
    <3>1. /\ Devices \in SUBSET {"devices", "seen", "everBound"}
          /\ (place[Server].facts \cap {"devices"}) \cup (epoch.facts \cap {"seen", "everBound"})
                \in SUBSET {"devices", "seen", "everBound"}
      BY DEF Devices
    <3> QED
      BY <1>13, <3>1 DEF Boot, ClearFlag, Load
  <2> QED
    BY <1>0, <1>9, <1>10, <1>11, <2>1
<1>14. CASE Shutdown \/ Revoke
  BY <1>0, <1>9, <1>11, <1>14 DEF Shutdown, Revoke
<1>15. CASE RunCommand
  BY <1>0, <1>10, <1>15 DEF RunCommand
<1>16. ASSUME NEW q \in Procs, End(q) PROVE MoveOf(p)
  <2>1. place'[q].at = "off" /\ \A r \in Procs \ {q} : place'[r] = place[r]
    BY <1>16 DEF End, Idle, CertInv, CertTyped
  <2> QED
    BY <1>1, <2>1 DEF Inside, Staging, Putting
<1>17. CASE PowerCut
  BY <1>17 DEF PowerCut, Idle, MoveOf, Inside, Staging, Putting
<1>18. CASE Pair \/ MoveOrigin \/ PutOwnerMaterial \/ CopyVolume \/ UNCHANGED vars
  BY <1>18 DEF MoveOf, Pair, MoveOrigin, PutOwnerMaterial, CopyVolume, vars
<1> QED
  BY <1>3, <1>4, <1>6, <1>7, <1>8, <1>12, <1>13, <1>14, <1>15, <1>16, <1>17, <1>18
     DEF Next, Locked, Works

-----------------------------------------------------------------------------
(* Either all that a power cut could leave is the owner's, and then newer than
   the pair the volume was copied with, or none of it is; a new pair is begun
   only in the second case, and is newer as well. *)
CloneFiles ==
    /\ \A s, t \in limbo : OwnedT(s) => OwnedT(t)
    /\ copied.leaf # 0 => \A t \in limbo : OwnedT(t) => Settled(t).cert.id > copied.leaf
    /\ \A p \in Procs : place[p].at \in Staging => \A t \in limbo : ~OwnedT(t)
    /\ \A p \in Procs : place[p].at \in Inside /\ place[p].gen # 0 => place[p].gen > copied.leaf

LEMMA OwnedIs == ASSUME NEW t \in Tls, ~Complete(t.staged) PROVE OwnedT(t) <=> ~MayReplace(t)
<1>1. Settled(t).cert = t.cert /\ Settled(t).rec = t.rec
  BY SettledIs
<1> QED
  BY <1>1 DEF OwnedT, MayReplace, Generated

LEMMA CopiedIs ==
    ASSUME CertInv, [Next]_vars
    PROVE  \/ copied'.leaf = copied.leaf
           \/ CopyVolume /\ FilesKept /\ UNCHANGED place
<1>1. CASE CopyVolume
  BY <1>1 DEF CopyVolume, FilesKept, fileVars
<1>2. CASE Boot
  BY <1>2 DEF Boot, CertInv, CertTyped
<1>3. ASSUME NEW p \in Procs, Locked(p) PROVE UNCHANGED copied
  <2>1. CASE Works(p)
    BY <2>1, WorksIs DEF histVars
  <2> QED
    BY <1>3, <2>1 DEF Locked, Works, Enter, JudgeClassify, JudgeRotate, JudgeEnsure, Installed, JudgeApprove, histVars
<1>4. ASSUME NEW p \in Procs, Raise(p) \/ End(p) PROVE UNCHANGED copied
  BY <1>4 DEF Raise, End, histVars
<1>5. CASE Bind \/ ClearFlag \/ Load \/ Pair \/ Shutdown \/ RunCommand \/ Revoke \/ PowerCut \/ MoveOrigin
           \/ PutOwnerMaterial \/ UNCHANGED vars
  BY <1>5 DEF Bind, ClearFlag, Load, Pair, Shutdown, RunCommand, Revoke, PowerCut, MoveOrigin, PutOwnerMaterial,
              vars, histVars
<1> QED
  BY <1>1, <1>2, <1>3, <1>4, <1>5 DEF Next

LEMMA CloneFilesStep ==
    ASSUME CertInv, Roles, CloneFiles, [Next]_vars
    PROVE  CloneFiles'
<1>0. /\ tls \in limbo /\ tls \in Tls /\ limbo \subseteq Tls /\ gens \in Nat /\ copied.leaf \in Nat /\ copied.leaf <= gens
      /\ \A t \in limbo : Settled(t) \in Tls /\ Settled(t).cert.id \in Nat
  BY SettledIs DEF CertInv, CertTyped, Tls, Certs
<1>1. SamePair => (OwnedT(tls') <=> OwnedT(tls)) /\ \A t \in limbo' : t \in limbo \/ t = tls'
  BY <1>0 DEF SamePair, OwnedT, Remembered
<1>2. \A s, t \in limbo' : OwnedT(s) => OwnedT(t)
  <2>1. CASE SamePair
    BY <1>0, <1>1, <2>1 DEF CloneFiles
  <2>2. CASE Cut
    BY <2>2 DEF Cut
  <2>3. CASE limbo' = {tls'}
    BY <2>3
  <2>4. CASE /\ ~OwnedT(tls') /\ limbo' = limbo \cup {tls'}
             /\ \E p \in Procs : place[p].at = "stageRecord"
    <3>1. \A t \in limbo : ~OwnedT(t)
      BY <2>4 DEF CloneFiles, Staging
    <3> QED
      BY <2>4, <3>1
  <2> QED
    BY <2>1, <2>2, <2>3, <2>4, LimboMoves DEF LimboStep
<1>3. ASSUME copied'.leaf # 0, NEW t \in limbo', OwnedT(t) PROVE Settled(t).cert.id > copied'.leaf
  <2>1. CASE copied'.leaf = copied.leaf
    <3>1. CASE SamePair
      BY <1>0, <1>1, <1>3, <2>1, <3>1 DEF CloneFiles, SamePair
    <3>2. CASE Cut
      BY <1>3, <2>1, <3>2 DEF CloneFiles, Cut
    <3>3. CASE limbo' = {tls'} /\ Settled(tls').cert.id = gens + 1
      BY <1>0, <1>3, <2>1, <3>3
    <3>4. CASE ~OwnedT(tls') /\ limbo' = limbo \cup {tls'}
      BY <1>3, <2>1, <3>4 DEF CloneFiles
    <3> QED
      BY <3>1, <3>2, <3>3, <3>4, LimboMoves DEF LimboStep
  <2>2. CASE CopyVolume /\ FilesKept
    <3>1. Generated(Settled(tls))
      BY <1>3, <2>2 DEF CopyVolume
    <3>2. ~OwnedT(tls) /\ t \in limbo
      BY <1>3, <2>2, <3>1 DEF OwnedT, MayReplace, FilesKept
    <3> QED
      BY <1>0, <1>3, <3>2 DEF CloneFiles
  <2> QED
    BY <2>1, <2>2, CopiedIs
<1>4. ASSUME NEW p \in Procs, place'[p].at \in Staging, NEW t \in limbo' PROVE ~OwnedT(t)
  <2>1. place'[p].at \in Inside /\ place'[p].at # "settle" /\ place'[p].at # "off"
    BY <1>4 DEF Inside, Staging
  <2>2. \/ place[p].at \in Staging
        \/ place[p].at = "judge" /\ MayReplace(tls) /\ FilesKept
    BY <1>4, <2>1, Movement DEF MoveOf, GoesOnAs
  <2>3. \A s \in limbo : ~OwnedT(s)
    <3>1. CASE place[p].at \in Staging
      BY <3>1 DEF CloneFiles
    <3>2. CASE place[p].at = "judge" /\ MayReplace(tls)
      <4>1. ~Complete(tls.staged)
        BY <3>2, Alone DEF Doing, Inside
      <4>2. ~OwnedT(tls)
        BY <1>0, <3>2, <4>1, OwnedIs
      <4> QED
        BY <1>0, <4>2 DEF CloneFiles
    <3> QED
      BY <2>2, <3>1, <3>2
  <2>4. CASE SamePair
    BY <1>0, <1>1, <1>4, <2>3, <2>4
  <2>5. ~AllOff \/ ~UNCHANGED place
    BY <1>4, <2>1 DEF AllOff, At
  <2> QED
    BY <1>4, <2>1, <2>3, <2>4, <2>5, LimboMoves DEF LimboStep
<1>5. ASSUME NEW p \in Procs, place'[p].at \in Inside, place'[p].gen # 0 PROVE place'[p].gen > copied'.leaf
  <2>1. CASE CopyVolume /\ UNCHANGED place
    BY <1>5, <2>1 DEF CopyVolume, Moves, AllOff, At, Inside, Staging, Putting
  <2>2. CASE copied'.leaf = copied.leaf
    <3>1. \/ place[p].at \in Inside /\ place'[p].gen = place[p].gen
          \/ place'[p].gen = gens + 1
      BY <1>5, Movement DEF MoveOf, GoesOnAs
    <3> QED
      BY <1>0, <1>5, <2>2, <3>1 DEF CloneFiles
  <2> QED
    BY <2>1, <2>2, CopiedIs
<1> QED
  BY <1>2, <1>3, <1>4, <1>5 DEF CloneFiles

-----------------------------------------------------------------------------
(* No file of the copied pair is left, on the disk or after a power cut. *)
Gone == copied.leaf # 0 => \A t \in limbo : Settled(t).cert.id > copied.leaf

StartedAt(pl) ==
    pl.at \in {"load", "raise", "serve"} \/ (pl.at \in Inside \cup {"wait"} /\ pl.job \in {"ensure", "bind"})
PastAt(pl) ==
    pl.at \in {"load", "raise", "serve"} \/ (pl.at \in Inside \cup {"wait"} /\ pl.job = "bind")

(* Until the reset that the copy owes is done, the server does not get as far
   as to look for a pair to serve. *)
CloneServer ==
    /\ ~copied.nonce /\ ~sidecar.reset => Gone
    /\ place[Server].at = "clearFlag" => Gone
    /\ StartedAt(place[Server]) => ~sidecar.reset
    /\ place[Server].at # "off" => ~copied.nonce
    /\ PastAt(place[Server]) /\ copied.leaf # 0 => live.leaf # copied.leaf

LEMMA GoneStays ==
    ASSUME CertInv, [Next]_vars, Gone, copied'.leaf = copied.leaf
    PROVE  Gone'
<1>1. tls \in limbo /\ (\A t \in limbo : Settled(t).cert.id \in Nat) /\ copied.leaf \in Nat
  BY SettledIs DEF CertInv, CertTyped, Tls, Certs
<1> SUFFICES ASSUME copied.leaf # 0, NEW t \in limbo' PROVE Settled(t).cert.id > copied.leaf
  BY DEF Gone
<1>2. CASE SamePair
  BY <1>1, <1>2 DEF SamePair, Remembered, Gone
<1>3. ASSUME NEW n \in Nat, NewPair(n) PROVE Settled(t).cert.id > copied.leaf
  BY <1>1, <1>3 DEF NewPair, Remembered, Gone
<1>4. CASE Cut
  BY <1>4 DEF Cut, Gone
<1> QED
  BY <1>2, <1>3, <1>4, CertStep DEF InstallStep

(* What is asked of a step that leaves the reset and the nonce alone. *)
LEMMA QuietStep ==
    ASSUME CertInv, CloneServer, [Next]_vars, sidecar'.reset = sidecar.reset, copied' = copied,
           StartedAt(place'[Server]) => StartedAt(place[Server]),
           place[Server].at = "off" => place'[Server].at = "off",
           place'[Server].at = "clearFlag" => place[Server].at = "clearFlag" \/ Gone,
           PastAt(place'[Server]) /\ copied.leaf # 0 => live'.leaf # copied.leaf
    PROVE  CloneServer'
<1>1. Gone => Gone'
  BY GoneStays
<1> QED
  BY <1>1 DEF CloneServer

(* The server has not moved, or only from one step of its job to another. *)
SameLeg ==
    \/ place'[Server] = place[Server]
    \/ place'[Server].at \in {"off", "revoke"} /\ place[Server].at # "off"
    \/ /\ place'[Server].at \in Inside /\ place[Server].at \in Inside \cup {"wait"}
       /\ place'[Server].job = place[Server].job /\ place'[Server].facts = place[Server].facts

LEMMA SameLegStep ==
    ASSUME CertInv, CloneServer, [Next]_vars, sidecar'.reset = sidecar.reset, copied' = copied,
           live'.leaf = live.leaf \/ (copied.leaf # 0 => live'.leaf # copied.leaf), SameLeg
    PROVE  CloneServer'
<1>1. "clearFlag" \notin Inside /\ "off" \notin Inside /\ "wait" \notin Inside
      /\ \A s \in {"load", "raise", "serve"} : s \notin Inside
  BY DEF Inside, Staging, Putting
<1>2. StartedAt(place'[Server]) => StartedAt(place[Server])
  BY <1>1 DEF StartedAt, SameLeg, Inside, Staging, Putting
<1>3. PastAt(place'[Server]) => PastAt(place[Server])
  BY <1>1 DEF PastAt, SameLeg, Inside, Staging, Putting
<1>4. /\ place[Server].at = "off" => place'[Server].at = "off"
      /\ place'[Server].at = "clearFlag" => place[Server].at = "clearFlag"
  BY <1>1 DEF SameLeg
<1> QED
  BY <1>2, <1>3, <1>4, QuietStep DEF CloneServer

(* What the server finds to be the owner's is not the copied pair. *)
LEMMA OwnersAreNew ==
    ASSUME CertInv, CloneFiles, NEW p \in Procs, place[p].at = "judge", ~MayReplace(tls)
    PROVE  Gone
<1>1. ~Complete(tls.staged) /\ tls \in Tls /\ tls \in limbo
  BY Alone DEF Doing, Inside
<1>2. OwnedT(tls)
  BY <1>1, OwnedIs
<1> QED
  BY <1>1, <1>2 DEF CloneFiles, Gone

LEMMA LeftLeg ==
    ASSUME CertInv, Roles, NEW p \in Procs, place[p].at \in Inside \cup {"wait"}, NEW outcome,
           Goto(p, Continues(p, outcome)), p = Server => outcome = "refused"
    PROVE  SameLeg
<1>1. "off" \notin Inside \cup {"wait"} /\ Server \in Procs
  BY DEF Inside, Staging, Putting, Procs
<1> QED
  BY <1>1, GoneWhere DEF SameLeg

LEMMA BuiltLeg == ASSUME CertInv, Roles, NEW p \in Procs, place[p].at = "judge", Build(p) PROVE SameLeg
<1>1. "stage" \in Inside /\ "judge" \in Inside /\ Server \in Procs
  BY DEF Inside, Staging, Procs
<1>2. CASE Leave(p, "refused")
  BY <1>1, <1>2, LeftLeg DEF Leave
<1>3. CASE /\ \A q \in Procs \ {p} : place'[q] = place[q]
           /\ place'[p].at = "stage" /\ place'[p].job = place[p].job /\ place'[p].facts = place[p].facts
  BY <1>1, <1>3 DEF SameLeg
<1> QED
  BY <1>2, <1>3, BuildIs

LEMMA WorksLeg == ASSUME CertInv, Roles, NEW p \in Procs, Works(p) PROVE SameLeg
<1>0. Server \in Procs /\ place[p].at \in Inside
  BY WorksIs DEF Procs
<1>1. CASE GoesOnAs(p)
  BY <1>0, <1>1 DEF GoesOnAs, SameLeg
<1> QED
  BY <1>0, <1>1, WorksIs, LeftLeg DEF Leave

LEMMA EnterLeg == ASSUME CertInv, Roles, NEW p \in Procs, Enter(p) PROVE SameLeg
<1>1. Server \in Procs /\ place[p].at = "wait" /\ place \in [Procs -> Places] /\ "settle" \in Inside
  BY DEF Enter, At, CertInv, CertTyped, Inside, Procs
<1>2. CASE Goto(p, "settle")
  BY <1>1, <1>2, GotoIs, InsideOutside DEF Outside, SameLeg
<1> QED
  BY <1>1, <1>2, LeftLeg DEF Enter

(* How the server leaves the section when it has what it came for. *)
LEMMA ServerLeaves ==
    ASSUME CertInv, Roles, place[Server].at \in Inside, NEW outcome, Leave(Server, outcome)
    PROVE  /\ place'[Server].at \in {"wait", "off", "raise", "clearFlag", "load"}
           /\ StartedAt(place'[Server]) => place[Server].job \in {"ensure", "bind"} /\ outcome = "ok"
           /\ PastAt(place'[Server]) /\ place[Server].job # "bind" => place[Server].job = "ensure"
           /\ place'[Server].at = "clearFlag" =>
                 /\ place[Server].job \in {"classify", "rotate"} /\ outcome # "refused"
                 /\ place[Server].job = "classify" => outcome = "owner"
<1>0. Server \in Procs /\ Server # Command
  BY DEF Procs, Server, Command
<1>1. place[Server].job \in {"classify", "rotate", "ensure", "bind"}
  BY DEF Roles
<1>2. Goto(Server, Continues(Server, outcome))
  BY DEF Leave
<1> QED
  BY <1>0, <1>1, <1>2, GoneWhere DEF StartedAt, PastAt, Inside, Staging, Putting

LEMMA LockedClone ==
    ASSUME CertInv, Roles, MemoryTyped, CloneFiles, CloneServer, [Next]_vars, NEW p \in Procs, Locked(p)
    PROVE  CloneServer'
<1>0. Server \in Procs /\ Command \in Procs /\ Server # Command /\ Procs = {Server, Command}
  BY DEF Procs, Server, Command
<1>1. CASE Works(p)
  <2>1. UNCHANGED <<sidecar, live, copied>> /\ place[p].at \in Inside
    BY <1>1, WorksIs DEF histVars
  <2> QED
    BY <1>1, <2>1, WorksLeg, SameLegStep
<1>2. CASE Enter(p)
  <2>1. UNCHANGED <<sidecar, live, copied>>
    BY <1>2 DEF Enter, histVars
  <2> QED
    BY <1>2, <2>1, EnterLeg, SameLegStep
<1>3. CASE JudgeApprove(p)
  <2>1. UNCHANGED <<sidecar, live, copied>> /\ place[p].at \in Inside /\ place[p].job = "approve"
    BY <1>3 DEF JudgeApprove, At, histVars, Inside
  <2>2. p # Server
    BY <2>1 DEF Roles
  <2>3. \E outcome \in {"ok", "refused"} : Leave(p, outcome)
    BY <1>3 DEF JudgeApprove, WriteBinding
  <2> QED
    BY <2>1, <2>2, <2>3, LeftLeg, SameLegStep DEF Leave
<1>4. CASE JudgeClassify(p) \/ JudgeRotate(p)
  <2>1. /\ UNCHANGED <<sidecar, live, copied>> /\ place[p].at = "judge" /\ place[p].at \in Inside
        /\ place[p].job \in {"classify", "rotate"}
    BY <1>4 DEF JudgeClassify, JudgeRotate, At, histVars, Inside
  <2>2. CASE Build(p)
    BY <2>1, <2>2, BuiltLeg, SameLegStep
  <2>3. ASSUME NEW outcome \in {"absent", "generated", "owner"}, Leave(p, outcome),
               outcome = "owner" => ~MayReplace(tls), place[p].job = "rotate" => outcome = "owner"
        PROVE  CloneServer'
    <3>1. CASE p # Server
      BY <2>1, <2>3, <3>1, LeftLeg, SameLegStep DEF Leave
    <3>2. CASE p = Server
      <4>1. /\ place'[Server].at = "clearFlag" => Gone
            /\ ~StartedAt(place'[Server]) /\ ~PastAt(place'[Server]) /\ place[Server].at # "off"
        BY <2>1, <2>3, <3>2, ServerLeaves, OwnersAreNew
      <4> QED
        BY <2>1, <4>1, QuietStep
    <3> QED
      BY <3>1, <3>2
  <2>4. \/ Build(p)
        \/ \E outcome \in {"absent", "generated", "owner"} :
              /\ Leave(p, outcome)
              /\ outcome = "owner" => ~MayReplace(tls)
              /\ place[p].job = "rotate" => outcome = "owner"
    BY <1>4 DEF JudgeClassify, JudgeRotate, MayReplace
  <2> QED
    BY <2>2, <2>3, <2>4
<1>5. CASE JudgeEnsure(p)
  <2>1. UNCHANGED <<sidecar, copied>> /\ place[p].at = "judge" /\ place[p].at \in Inside /\ place[p].job = "ensure"
    BY <1>5 DEF JudgeEnsure, At, histVars, Inside
  <2>2. p = Server
    BY <1>0, <2>1 DEF Roles
  <2>3. CASE Build(p) /\ UNCHANGED live
    BY <2>1, <2>3, BuiltLeg, SameLegStep
  <2>4. CASE Leave(p, "refused") /\ UNCHANGED live
    BY <2>1, <2>4, LeftLeg, SameLegStep DEF Leave
  <2>5. CASE Leave(p, "ok") /\ live' = [live EXCEPT !.leaf = tls.cert.id]
    <3>1. live'.leaf = tls.cert.id
      BY <2>5 DEF MemoryTyped
    <3>2. StartedAt(place[Server]) /\ place[Server].at # "off"
      BY <2>1, <2>2 DEF StartedAt
    <3>3. ~copied.nonce /\ ~sidecar.reset /\ Gone
      BY <3>2 DEF CloneServer
    <3>4. ~Complete(tls.staged) /\ tls \in Tls /\ tls \in limbo
      BY <2>1, Alone DEF Doing
    <3>5. copied.leaf # 0 => tls.cert.id > copied.leaf
      BY <3>3, <3>4, SettledIs DEF Gone
    <3>6. copied.leaf # 0 => live'.leaf # copied.leaf
      <4>1. copied.leaf \in Nat /\ tls.cert.id \in Nat
        BY <3>4 DEF CertInv, CertTyped, Tls, Certs
      <4> QED
        BY <3>1, <3>5, <4>1
    <3>7. place'[Server].at # "clearFlag"
      BY <2>1, <2>2, <2>5, ServerLeaves
    <3> QED
      BY <2>1, <3>2, <3>6, <3>7, QuietStep
  <2> QED
    BY <1>5, <2>3, <2>4, <2>5 DEF JudgeEnsure
<1>6. CASE Installed(p)
  <2>1. /\ UNCHANGED <<sidecar, copied>> /\ place[p].at = "installed" /\ place[p].at \in Inside /\ Leave(p, "ok")
        /\ IF place[p].job = "rotate" THEN live' = live ELSE live' = [live EXCEPT !.leaf = place[p].gen]
    BY <1>6 DEF Installed, At, Inside
  <2>2. /\ place[p].gen # 0 /\ limbo = {tls} /\ tls.staged = NoStaged /\ place[p].gen = tls.cert.id
        /\ tls \in Tls /\ place[p].gen \in Nat
    BY <2>1, Alone DEF Doing
  <2>3. place[p].gen > copied.leaf
    BY <2>1, <2>2 DEF CloneFiles
  <2>4. Settled(tls).cert = tls.cert
    BY <2>2, SettledIs, EmptySets
  <2>5. Gone
    BY <2>2, <2>3, <2>4 DEF Gone
  <2>6. live'.leaf = live.leaf \/ live'.leaf # copied.leaf
    <3>1. copied.leaf \in Nat
      BY DEF CertInv, CertTyped
    <3> QED
      BY <2>1, <2>2, <2>3, <3>1 DEF MemoryTyped
  <2>7. CASE p # Server
    BY <2>1, <2>6, <2>7, LeftLeg, SameLegStep DEF Leave
  <2>8. CASE p = Server
    <3>1. StartedAt(place'[Server]) => StartedAt(place[Server])
      BY <2>1, <2>8, ServerLeaves DEF StartedAt
    <3>2. PastAt(place'[Server]) /\ place[Server].job = "rotate" => FALSE
      BY <2>1, <2>8, ServerLeaves DEF PastAt, StartedAt
    <3>3. place[Server].job # "rotate" => live'.leaf # copied.leaf
      <4>1. copied.leaf \in Nat
        BY DEF CertInv, CertTyped
      <4> QED
        BY <2>1, <2>2, <2>3, <2>8, <4>1 DEF MemoryTyped
    <3>4. place[Server].at # "off"
      BY <2>1, <2>8
    <3> QED
      BY <2>1, <2>5, <3>1, <3>2, <3>3, <3>4, QuietStep
  <2> QED
    BY <2>7, <2>8
<1> QED
  BY <1>1, <1>2, <1>3, <1>4, <1>5, <1>6 DEF Locked, Works

LEMMA CloneServerStep ==
    ASSUME CertInv, Roles, MemoryTyped, CloneFiles, CloneServer, [Next]_vars
    PROVE  CloneServer'
<1>0. Server \in Procs /\ Command \in Procs /\ Server # Command
  BY DEF Procs, Server, Command
<1>1. ASSUME NEW p \in Procs, Locked(p) PROVE CloneServer'
  BY <1>1, LockedClone
<1>2. ASSUME place'[Server] = place[Server] \/ place'[Server].at = "off",
             sidecar'.reset = sidecar.reset, live' = live, copied' = copied
      PROVE  CloneServer'
  <2>1. "off" \notin Inside
    BY DEF Inside, Staging, Putting
  <2> QED
    BY <1>2, <2>1, QuietStep DEF StartedAt, PastAt, CloneServer
<1>3. ASSUME place'[Server].at = "wait", place'[Server].job = "classify", place[Server].at = "off",
             UNCHANGED <<sidecar, live, copied>> \/ sidecar'.reset, ~copied'.nonce, copied'.leaf = copied.leaf
      PROVE  CloneServer'
  <2>1. ~StartedAt(place'[Server]) /\ ~PastAt(place'[Server])
    BY <1>3 DEF StartedAt, PastAt
  <2>2. Gone => Gone'
    BY <1>3, GoneStays
  <2> QED
    BY <1>3, <2>1, <2>2 DEF CloneServer
<1>4. CASE Bind
  <2>1. /\ UNCHANGED <<sidecar, copied>> /\ live'.leaf = live.leaf
        /\ place[Server].at \in Inside /\ place[Server].job = "bind"
        /\ \E outcome \in {"ok", "refused"} : Leave(Server, outcome)
    BY <1>4 DEF Bind, WriteBinding, At, Inside, histVars, MemoryTyped
  <2>2. StartedAt(place[Server]) /\ PastAt(place[Server]) /\ place[Server].at # "off"
    BY <2>1 DEF StartedAt, PastAt, Inside, Staging, Putting
  <2>3. place'[Server].at # "clearFlag"
    BY <2>1, ServerLeaves
  <2> QED
    BY <2>1, <2>2, <2>3, QuietStep DEF CloneServer
<1>5. \A step \in {"off", "serve", "revoke", "classify"} : step \in Exits
  BY DEF Exits, Outside, Jobs
<1>6. /\ "classify" \in Jobs
      /\ \A step \in {"off", "serve", "revoke"} : step \notin Jobs
  BY DEF Jobs
<1>7. ASSUME NEW p \in Procs, Raise(p) PROVE CloneServer'
  <2>1. UNCHANGED <<sidecar, live, copied>> /\ place[p].at = "raise"
        /\ Goto(p, IF p = Server THEN "serve" ELSE "revoke")
    BY <1>7 DEF Raise, At, histVars
  <2>2. CASE p = Server
    <3>1. place'[Server].at = "serve"
      BY <1>5, <1>6, <2>1, <2>2, GotoOut
    <3>2. StartedAt(place[Server]) /\ PastAt(place[Server]) /\ place[Server].at # "off"
      BY <2>1, <2>2 DEF StartedAt, PastAt
    <3> QED
      BY <2>1, <3>1, <3>2, QuietStep DEF CloneServer
  <2>3. CASE p # Server
    <3>1. place'[Server] = place[Server]
      BY <1>0, <1>5, <1>6, <2>1, <2>3, GotoOut
    <3> QED
      BY <1>2, <2>1, <3>1
  <2> QED
    BY <2>2, <2>3
<1>8. ASSUME NEW job, NEW facts,
             place' = [place EXCEPT ![Server] = [at |-> "wait", job |-> job, gen |-> 0, facts |-> facts]]
      PROVE  place'[Server].at = "wait" /\ place'[Server].job = job
  BY <1>0, <1>8, PlacedAt
<1>9. CASE Boot
  <2>1. place[Server].at = "off" /\ live' = [leaf |-> 0, cut |-> 0]
    BY <1>9 DEF Boot, At
  <2>2. CASE copied.nonce /\ copied' = [copied EXCEPT !.nonce = FALSE] /\ sidecar' = [reset |-> TRUE, devices |-> {}]
    <3>1. copied'.nonce = FALSE /\ copied'.leaf = copied.leaf /\ sidecar'.reset
      BY <2>2 DEF CertInv, CertTyped
    <3>2. CASE Goto(Server, "classify")
      BY <1>0, <1>3, <1>5, <1>6, <2>1, <3>1, <3>2, GotoOut
    <3>3. CASE Goto(Server, "off")
      <4>1. place'[Server].at = "off"
        BY <1>0, <1>5, <1>6, <3>3, GotoOut
      <4> QED
        BY <3>1, <4>1 DEF CloneServer, StartedAt, PastAt, Inside, Staging, Putting
    <3> QED
      BY <1>9, <2>2, <3>2, <3>3 DEF Boot
  <2>3. CASE UNCHANGED <<sidecar, copied>> /\ Goto(Server, "off")
    <3>1. place'[Server].at = "off"
      BY <1>0, <1>5, <1>6, <2>3, GotoOut
    <3>2. Gone => Gone'
      BY <2>3, GoneStays
    <3> QED
      BY <2>3, <3>1, <3>2 DEF CloneServer, StartedAt, PastAt, Inside, Staging, Putting
  <2>4. CASE ~copied.nonce /\ UNCHANGED <<sidecar, copied>> /\ sidecar.reset /\ Goto(Server, "classify")
    BY <1>0, <1>3, <1>5, <1>6, <2>1, <2>4, GotoOut
  <2>5. CASE /\ ~copied.nonce /\ UNCHANGED <<sidecar, copied>> /\ ~sidecar.reset
             /\ place' = [place EXCEPT ![Server] = [at |-> "wait", job |-> "ensure", gen |-> 0, facts |-> Devices]]
    <3>1. place'[Server].at = "wait" /\ place'[Server].job = "ensure"
      BY <1>8, <2>5
    <3>2. Gone => Gone'
      BY <2>5, GoneStays
    <3> QED
      BY <2>5, <3>1, <3>2 DEF CloneServer, PastAt
  <2> QED
    BY <1>9, <2>2, <2>3, <2>4, <2>5 DEF Boot
<1>10. CASE ClearFlag
  <2>1. place[Server].at = "clearFlag" /\ UNCHANGED <<live, copied>>
    BY <1>10 DEF ClearFlag, At, histVars
  <2>2. Gone /\ ~copied.nonce /\ (Gone => Gone')
    BY <2>1, GoneStays DEF CloneServer
  <2>3. CASE /\ sidecar' = [sidecar EXCEPT !.reset = FALSE]
             /\ place' = [place EXCEPT ![Server] = [at |-> "wait", job |-> "ensure", gen |-> 0, facts |-> Devices]]
    <3>1. place'[Server].at = "wait" /\ place'[Server].job = "ensure" /\ ~sidecar'.reset
      BY <1>8, <2>3 DEF MemoryTyped
    <3> QED
      BY <2>1, <2>2, <3>1 DEF CloneServer, PastAt
  <2>4. CASE Goto(Server, "off") /\ UNCHANGED sidecar
    BY <1>0, <1>2, <1>5, <1>6, <2>1, <2>4, GotoOut
  <2> QED
    BY <1>10, <2>3, <2>4 DEF ClearFlag
<1>11. CASE Load
  <2>1. place[Server].at = "load" /\ UNCHANGED <<live, copied, sidecar>>
    BY <1>11 DEF Load, At, histVars
  <2>2. place'[Server].at = "wait"
    BY <1>8, <1>11 DEF Load
  <2>3. StartedAt(place[Server]) /\ PastAt(place[Server])
    BY <2>1 DEF StartedAt, PastAt
  <2> QED
    BY <2>1, <2>2, <2>3, QuietStep DEF CloneServer
<1>12. CASE Pair \/ MoveOrigin \/ PutOwnerMaterial \/ UNCHANGED vars
  <2>1. UNCHANGED <<place, live, copied>> /\ sidecar'.reset = sidecar.reset
    BY <1>12 DEF Pair, MoveOrigin, PutOwnerMaterial, vars, histVars, MemoryTyped
  <2> QED
    BY <1>2, <2>1
<1>13. CASE Shutdown
  BY <1>0, <1>2, <1>5, <1>6, <1>13, GotoOut DEF Shutdown, histVars
<1>14. CASE RunCommand
  <2>1. UNCHANGED <<live, copied, sidecar>> /\ place'[Server] = place[Server]
    BY <1>0, <1>14, PlacedAt DEF RunCommand, histVars
  <2> QED
    BY <1>2, <2>1
<1>15. CASE Revoke
  <2>1. UNCHANGED <<live, copied>> /\ sidecar'.reset = sidecar.reset /\ Goto(Command, "off")
    BY <1>15 DEF Revoke, histVars, MemoryTyped
  <2> QED
    BY <1>0, <1>2, <1>5, <1>6, <2>1, GotoOut
<1>16. ASSUME NEW p \in Procs, End(p) PROVE CloneServer'
  <2>1. UNCHANGED <<live, copied, sidecar>> /\ (place'[Server] = place[Server] \/ place'[Server].at = "off")
    BY <1>0, <1>16 DEF End, Idle, histVars, CertInv, CertTyped
  <2> QED
    BY <1>2, <2>1
<1>17. CASE PowerCut
  <2>1. UNCHANGED <<live, copied, sidecar>> /\ place'[Server].at = "off"
    BY <1>0, <1>17 DEF PowerCut, Idle, histVars
  <2> QED
    BY <1>2, <2>1
<1>18. CASE CopyVolume
  <2>1. copied'.nonce /\ place'[Server].at = "off"
    BY <1>0, <1>18 DEF CopyVolume, Moves, AllOff, At
  <2> QED
    BY <2>1 DEF CloneServer, StartedAt, PastAt, Inside, Staging, Putting
<1> QED
  BY <1>1, <1>4, <1>7, <1>9, <1>10, <1>11, <1>12, <1>13, <1>14, <1>15, <1>16, <1>17, <1>18 DEF Next

LEMMA InitMemory == Init => Roles /\ MemoryTyped
<1> SUFFICES ASSUME Init PROVE Roles /\ MemoryTyped
  OBVIOUS
<1>1. \A p \in Procs : place[p].at = "off"
  BY DEF Init, Idle
<1>2. Roles
  BY <1>1 DEF Roles, Procs, Server, Command, Inside, Staging, Putting
<1>3. NoBinding \in Bindings
  BY DEF NoBinding, Bindings
<1>4. live \in [leaf : Nat, cut : Nat] /\ clock \in Nat
  BY DEF Init
<1>5. sidecar \in [reset : BOOLEAN, devices : SUBSET DeviceType]
  BY DEF Init
<1>6. epoch \in [facts : Contents, older : SUBSET Contents]
  BY DEF Init, Contents
<1> QED
  BY <1>2, <1>3, <1>4, <1>5, <1>6 DEF Init, MemoryTyped

(* clone.js and completeTlsReset: a copy of a volume that was told to be a new
   installation never serves the generated pair it was copied with, for any
   number of pairs, origins, failures and power cuts, wherever its reset was
   interrupted, and whatever files the operator puts. *)
THEOREM CloneIsItsOwn == Spec => []CloneNeverServesCopiedLeaf
<1> DEFINE CloneInv == CertInv /\ Roles /\ MemoryTyped /\ CloneFiles /\ CloneServer
<1>1. Init => CloneInv
  <2> SUFFICES ASSUME Init PROVE CloneInv
    OBVIOUS
  <2>1. \A p \in Procs : place[p].at = "off"
    BY DEF Init, Idle
  <2>2. Roles /\ MemoryTyped
    BY InitMemory
  <2>4. CloneFiles
    BY <2>1 DEF Init, CloneFiles, Inside, Staging, Putting
  <2>5. CloneServer
    BY <2>1 DEF Init, CloneServer, Gone, StartedAt, PastAt, Procs, Server, Inside, Staging, Putting
  <2> QED
    BY <2>2, <2>4, <2>5, InitCert
<1>2. CloneInv /\ [Next]_vars => CloneInv'
  BY CertStep, RolesStep, MemoryStep, CloneFilesStep, CloneServerStep
<1>3. CloneInv => CloneNeverServesCopiedLeaf
  BY DEF CloneServer, PastAt, CloneNeverServesCopiedLeaf, At
<1> QED
  BY <1>1, <1>2, <1>3, PTL DEF Spec

-----------------------------------------------------------------------------
(* The phones, and the address they were paired at. *)

(* The certificate that is in place, and those a power cut could bring back:
   they differ only while a newer pair is being put, and none is newer. *)
OneOlder(t, s) ==
    /\ IF Complete(t.staged) THEN s.cert.id <= t.staged.cert.id ELSE s.cert = t.cert
    /\ Complete(s.staged) => s.cert.id <= s.staged.cert.id
    /\ s.cert.id = 0 => s.cert = NoCert

CertsOrder ==
    /\ \A s \in limbo : OneOlder(tls, s)
    /\ \A p \in Procs : place[p].at = "cleanUp" => \A s \in limbo : s.cert = tls.cert

(* What a step does to the certificates. *)
Restages ==
    /\ tls' \in Tls /\ tls'.cert = tls.cert /\ limbo' = limbo \cup {tls'}
    /\ \A s \in limbo : s.cert = tls.cert
    /\ Complete(tls'.staged) => tls.cert.id <= tls'.staged.cert.id
PutsOne ==
    /\ tls' \in Tls /\ tls'.staged = tls.staged /\ Complete(tls.staged) /\ limbo' = limbo \cup {tls'}
    /\ tls'.cert \in {tls.cert, tls.staged.cert}
    /\ \A p \in Procs : place'[p].at # "cleanUp"
LeavesAll ==
    /\ tls' = tls
    /\ \/ limbo' = {tls}
       \/ limbo' = limbo /\ \A p \in Procs : place'[p].at = "cleanUp" => place[p].at = "cleanUp"
OwnerPuts == tls' \in Tls /\ limbo' = {tls'} /\ tls'.cert.id = gens + 1 /\ ~Complete(tls'.staged)

CertMove == LeavesAll \/ Restages \/ PutsOne \/ Cut \/ OwnerPuts

LEMMA OrderKept == ASSUME CertInv, CertsOrder, CertMove PROVE CertsOrder'
<1>1. tls \in limbo /\ limbo \subseteq Tls /\ gens \in Nat
  BY DEF CertInv, CertTyped
<1>2. CASE LeavesAll
  BY <1>1, <1>2 DEF LeavesAll, CertsOrder, OneOlder
<1>3. CASE Restages
  BY <1>1, <1>3 DEF Restages, CertsOrder, OneOlder
<1>4. CASE PutsOne
  <2>1. /\ tls.cert.id \in Nat /\ tls.staged.cert.id \in Nat /\ tls.staged.cert.id # 0
    BY <1>1, <1>4 DEF PutsOne, Complete, Tls, StagedSets, Certs
  <2>2. OneOlder(tls, tls) /\ Complete(tls.staged) /\ Complete(tls'.staged)
    BY <1>1, <1>4 DEF CertsOrder, PutsOne
  <2>3. tls'.cert.id <= tls.staged.cert.id /\ (tls'.cert.id = 0 => tls'.cert = NoCert)
    BY <1>4, <2>1, <2>2 DEF PutsOne, OneOlder
  <2>4. \A s \in limbo' : OneOlder(tls', s)
    <3> SUFFICES ASSUME NEW s \in limbo' PROVE OneOlder(tls', s)
      OBVIOUS
    <3>1. CASE s \in limbo
      BY <1>4, <2>2, <3>1 DEF CertsOrder, PutsOne, OneOlder
    <3>2. CASE s = tls'
      BY <1>4, <2>2, <2>3, <3>2 DEF PutsOne, OneOlder
    <3> QED
      BY <1>4, <3>1, <3>2 DEF PutsOne
  <2> QED
    BY <1>4, <2>4 DEF CertsOrder, PutsOne
<1>5. CASE Cut
  BY <1>1, <1>5 DEF Cut, CertsOrder, OneOlder
<1>6. CASE OwnerPuts
  BY <1>1, <1>6 DEF OwnerPuts, CertsOrder, OneOlder
<1> QED
  BY <1>2, <1>3, <1>4, <1>5, <1>6 DEF CertMove

(* No step brings an older certificate back than a power cut could have. *)
LEMMA NeverOlder ==
    ASSUME CertInv, CertsOrder, CertMove, NEW t \in limbo'
    PROVE  \E s \in limbo : s.cert.id <= t.cert.id
<1>1. /\ tls \in limbo /\ gens \in Nat /\ Counted(tls, gens)
      /\ \A s \in limbo : s.cert.id \in Nat
      /\ tls.staged.cert.id \in Nat
  BY DEF CertInv, CertTyped, Tls, Certs, StagedSets
<1>2. CASE t \in limbo
  BY <1>1, <1>2
<1>3. CASE Restages
  BY <1>1, <1>2, <1>3 DEF Restages
<1>4. CASE PutsOne
  BY <1>1, <1>2, <1>4 DEF PutsOne, CertsOrder, OneOlder
<1>5. CASE OwnerPuts
  BY <1>1, <1>5 DEF OwnerPuts, Counted
<1> QED
  BY <1>1, <1>2, <1>3, <1>4, <1>5 DEF CertMove, LeavesAll, Cut

LEMMA WorksFiles ==
    ASSUME CertInv, Roles, CertsOrder, NEW p \in Procs, Works(p)
    PROVE  CertMove
<1>0. /\ tls \in Tls /\ tls \in limbo /\ place[p].at \in Inside /\ Doing(place[p].at, place[p].gen, tls, limbo)
      /\ place[p].gen \in Nat /\ place \in [Procs -> Places]
      /\ \A q \in Procs \ {p} : place[q].at \notin Inside
  BY WorksIs, Alone
<1>1. /\ NoStaged \in StagedSets /\ Empty \in StagedSets /\ ~Complete(NoStaged) /\ ~Complete(Empty)
  BY EmptySets
<1>2. Leave(p, "refused") => \A q \in Procs : place'[q].at # "cleanUp"
  BY <1>0, LeaveIs, Alone DEF Resting, Inside, Putting
<1>3. ASSUME Leave(p, "refused"), UNCHANGED <<tls, limbo>> PROVE CertMove
  BY <1>2, <1>3 DEF CertMove, LeavesAll
<1>4. ASSUME NEW step \in Inside, Goto(p, step)
      PROVE  place'[p].at = step /\ \A q \in Procs \ {p} : place'[q].at # "cleanUp"
  BY <1>0, <1>4, GotoIs, InsideOutside DEF Outside, Inside, Putting
<1>5. ASSUME NEW t, NEW step \in Inside, Changes(p, t, step),
             t \in Tls, t.cert = tls.cert, \A s \in limbo : s.cert = tls.cert,
             Complete(t.staged) => tls.cert.id <= t.staged.cert.id
      PROVE  CertMove
  <2>1. CASE tls' = t /\ limbo' = limbo \cup {t}
    BY <1>5, <2>1 DEF CertMove, Restages
  <2> QED
    BY <1>3, <1>5, <2>1 DEF Changes
<1>6. ASSUME NEW t, NEW step \in Inside, Changes(p, t, step), step # "cleanUp",
             t \in Tls, t.staged = tls.staged, Complete(tls.staged), t.cert \in {tls.cert, tls.staged.cert}
      PROVE  CertMove
  <2>1. CASE tls' = t /\ limbo' = limbo \cup {t} /\ Goto(p, step)
    BY <1>4, <1>6, <2>1 DEF CertMove, PutsOne
  <2> QED
    BY <1>3, <1>6, <2>1 DEF Changes
<1>7. ASSUME NEW step, Syncs(p, step) PROVE CertMove
  BY <1>3, <1>7 DEF Syncs, CertMove, LeavesAll
<1>8. ~Complete(tls.staged) => \A s \in limbo : s.cert = tls.cert
  BY <1>0 DEF CertsOrder, OneOlder
<1>9. ASSUME NEW st \in StagedSets
      PROVE  LET t == [tls EXCEPT !.staged = st] IN t \in Tls /\ t.cert = tls.cert /\ t.staged = st
  BY <1>0 DEF Tls
<1>10. ASSUME NEW st \in StagedSets, NEW step \in Inside, Changes(p, [tls EXCEPT !.staged = st], step),
              \A s \in limbo : s.cert = tls.cert, Complete(st) => tls.cert.id <= st.cert.id
       PROVE  CertMove
  <2> DEFINE t == [tls EXCEPT !.staged = st]
  <2>1. t \in Tls /\ t.cert = tls.cert /\ t.staged = st
    BY <1>9
  <2>2. Changes(p, t, step)
    BY <1>10
  <2> HIDE DEF t
  <2> QED
    BY <1>5, <1>10, <2>1, <2>2
<1>11. \A step \in {"syncDiscard", "putCert", "putRecord", "syncLive", "cleanUp", "syncGone", "stageKey", "stageCert",
                    "stageRecord", "syncStaged"} : step \in Inside
  BY DEF Inside, Staging, Putting
<1>12. CASE Settle(p)
  <2>1. /\ UNCHANGED <<tls, limbo>>
        /\ \E step \in {"putKey", "discard", "judge"} : Goto(p, step)
    BY <1>12 DEF Settle, fileVars
  <2>2. \A step \in {"putKey", "discard", "judge"} : step \in Inside /\ step # "cleanUp"
    BY DEF Inside, Putting
  <2> QED
    BY <1>4, <2>1, <2>2 DEF CertMove, LeavesAll
<1>13. CASE SyncDiscard(p) \/ SyncLive(p) \/ SyncGone(p) \/ SyncStaged(p)
  BY <1>7, <1>13 DEF SyncDiscard, SyncLive, SyncGone, SyncStaged
<1>14. CASE Discard(p)
  <2>1. ~Complete(tls.staged) /\ Changes(p, [tls EXCEPT !.staged = NoStaged], "syncDiscard")
    BY <1>0, <1>14 DEF Discard, At, Doing
  <2> QED
    BY <1>1, <1>8, <1>10, <1>11, <2>1
<1>15. CASE PutKey(p)
  <2> DEFINE t == [tls EXCEPT !.key = tls.staged.key]
  <2>1. Complete(tls.staged) /\ Changes(p, t, "putCert")
    BY <1>0, <1>15 DEF PutKey, At, Doing
  <2>2. t \in Tls /\ t.staged = tls.staged /\ t.cert = tls.cert
    BY <1>0 DEF Tls, StagedSets
  <2> HIDE DEF t
  <2> QED
    BY <1>6, <1>11, <2>1, <2>2
<1>16. CASE PutCert(p)
  <2> DEFINE t == [tls EXCEPT !.cert = tls.staged.cert]
  <2>1. Complete(tls.staged) /\ Changes(p, t, "putRecord")
    BY <1>0, <1>16 DEF PutCert, At, Doing
  <2>2. t \in Tls /\ t.staged = tls.staged /\ t.cert = tls.staged.cert
    BY <1>0 DEF Tls, StagedSets
  <2> HIDE DEF t
  <2> QED
    BY <1>6, <1>11, <2>1, <2>2
<1>17. CASE PutRecord(p)
  <2> DEFINE t == [tls EXCEPT !.rec = tls.staged.rec]
  <2>1. Complete(tls.staged) /\ Changes(p, t, "syncLive")
    BY <1>0, <1>17 DEF PutRecord, At, Doing
  <2>2. t \in Tls /\ t.staged = tls.staged /\ t.cert = tls.cert
    BY <1>0 DEF Tls, StagedSets
  <2> HIDE DEF t
  <2> QED
    BY <1>6, <1>11, <2>1, <2>2
<1>18. CASE CleanUp(p)
  <2> DEFINE st == [tls.staged EXCEPT !.key = 0]
  <2>1. \A s \in limbo : s.cert = tls.cert
    BY <1>18 DEF CleanUp, At, CertsOrder
  <2>2. st \in StagedSets /\ ~Complete(st)
    BY <1>0 DEF Tls, StagedSets, Complete
  <2>3. [tls EXCEPT !.staged.key = 0] = [tls EXCEPT !.staged = st]
    BY <1>0 DEF Tls
  <2>4. \/ Changes(p, [tls EXCEPT !.staged = NoStaged], "syncGone")
        \/ Changes(p, [tls EXCEPT !.staged = st], "cleanUp")
    BY <1>18, <2>3 DEF CleanUp
  <2> HIDE DEF st
  <2> QED
    BY <1>1, <1>10, <1>11, <2>1, <2>2, <2>4
<1>19. CASE Stage(p)
  <2>1. ~Complete(tls.staged) /\ Changes(p, [tls EXCEPT !.staged = Empty], "stageKey")
    BY <1>0, <1>19 DEF Stage, At, Doing
  <2> QED
    BY <1>1, <1>8, <1>10, <1>11, <2>1
<1>20. CASE StageKey(p)
  <2> DEFINE st == [Empty EXCEPT !.key = place[p].gen]
  <2>1. tls.staged = Empty /\ Changes(p, [tls EXCEPT !.staged.key = place[p].gen], "stageCert") /\ place[p].gen # 0
    BY <1>0, <1>20 DEF StageKey, At, Doing, Staging, Fresh
  <2>2. st \in StagedSets /\ ~Complete(st)
    BY <1>0, <1>1, <2>1 DEF StagedSets, Complete, Empty, NoStaged, NoCert
  <2>3. [tls EXCEPT !.staged.key = place[p].gen] = [tls EXCEPT !.staged = st]
    BY <2>1
  <2> HIDE DEF st
  <2> QED
    BY <1>1, <1>8, <1>10, <1>11, <2>1, <2>2, <2>3
<1>21. CASE StageCert(p)
  <2> DEFINE st == [Empty EXCEPT !.key = place[p].gen, !.cert = NewCert(p)]
  <2>1. /\ tls.staged = [Empty EXCEPT !.key = place[p].gen] /\ place[p].gen # 0
        /\ Changes(p, [tls EXCEPT !.staged.cert = NewCert(p)], "stageRecord")
    BY <1>0, <1>21 DEF StageCert, At, Doing, Staging, Fresh
  <2>2. ~Complete(tls.staged)
    <3>1. tls.staged.key = place[p].gen /\ tls.staged.cert = NoCert
      BY <2>1, EmptySets
    <3> QED
      BY <2>1, <3>1, EmptySets DEF Complete
  <2>3. NewCert(p) \in Certs /\ NewCert(p).id = place[p].gen
    BY NewCertIs
  <2>4. st \in StagedSets /\ st.cert = NewCert(p) /\ st.rec = NoCert
    BY <1>0, <1>1, <2>3 DEF StagedSets, Empty, NoStaged
  <2>5. NoCert.id = 0
    BY DEF NoCert
  <2>6. [tls EXCEPT !.staged.cert = NewCert(p)] = [tls EXCEPT !.staged = st]
    BY <2>1
  <2> HIDE DEF st
  <2>7. ~Complete(st)
    BY <2>1, <2>3, <2>4, <2>5 DEF Complete
  <2> QED
    BY <1>1, <1>8, <1>10, <1>11, <2>1, <2>2, <2>4, <2>6, <2>7
<1>22. CASE StageRecord(p)
  <2> DEFINE st == [Empty EXCEPT !.key = place[p].gen, !.cert = NewCert(p), !.rec = NewCert(p)]
  <2>1. /\ tls.staged = [Empty EXCEPT !.key = place[p].gen, !.cert = NewCert(p)] /\ Fresh(place[p].gen, limbo)
        /\ Changes(p, [tls EXCEPT !.staged.rec = NewCert(p)], "syncStaged")
    BY <1>0, <1>22, NewCertIs DEF StageRecord, At, Doing, Staging
  <2>2. NewCert(p) \in Certs /\ NewCert(p).id = place[p].gen /\ NoCert.id = 0
    BY NewCertIs DEF NoCert
  <2>3. tls.staged.rec = NoCert /\ tls.staged.cert = NewCert(p) /\ place[p].gen # 0
    BY <2>1, <2>2 DEF Empty, NoStaged, Fresh
  <2>4. ~Complete(tls.staged)
    BY <2>2, <2>3 DEF Complete
  <2>5. st \in StagedSets /\ st.cert = NewCert(p)
    BY <1>0, <1>1, <2>2 DEF StagedSets
  <2>6. [tls EXCEPT !.staged.rec = NewCert(p)] = [tls EXCEPT !.staged = st]
    BY <2>1
  <2>7. tls.cert.id <= NewCert(p).id
    <3>1. Settled(tls).cert.id < place[p].gen /\ Settled(tls).cert = tls.cert /\ tls.cert.id \in Nat
      BY <1>0, <2>1, <2>4, SettledIs DEF Fresh, Tls, Certs
    <3> QED
      BY <1>0, <2>2, <3>1
  <2> HIDE DEF st
  <2> QED
    BY <1>1, <1>8, <1>10, <1>11, <2>1, <2>4, <2>5, <2>6, <2>7
<1> QED
  BY <1>12, <1>13, <1>14, <1>15, <1>16, <1>17, <1>18, <1>19, <1>20, <1>21, <1>22 DEF Works

LEMMA CertMoves == ASSUME Careful, CertInv, Roles, CertsOrder, [Next]_vars PROVE CertMove
<1>0. tls \in Tls /\ gens \in Nat /\ origin \in Origins /\ tls \in limbo
  BY DEF CertInv, CertTyped
<1>1. CASE \E p \in Procs : Works(p)
  BY <1>1, WorksFiles
<1>2. ASSUME FilesKept, ~\E p \in Procs : Works(p) PROVE CertMove
  <2>1. \A p \in Procs : place'[p].at = "cleanUp" => place[p].at = "cleanUp"
    BY <1>2, Movement DEF MoveOf, Inside, Putting
  <2> QED
    BY <1>2, <2>1 DEF CertMove, LeavesAll, FilesKept
<1>3. ASSUME NEW p \in Procs, Locked(p), ~Works(p) PROVE FilesKept
  BY <1>3 DEF Locked, Works, Enter, JudgeClassify, JudgeRotate, JudgeEnsure, JudgeApprove, Installed, FilesKept, fileVars
<1>4. ASSUME NEW p \in Procs, Raise(p) \/ End(p) PROVE FilesKept
  BY <1>4 DEF Raise, End, FilesKept, fileVars
<1>5. CASE Bind \/ Boot \/ ClearFlag \/ Load \/ Pair \/ Shutdown \/ RunCommand \/ Revoke \/ MoveOrigin \/ CopyVolume
           \/ UNCHANGED vars
  <2>1. FilesKept
    BY <1>5 DEF Bind, Boot, ClearFlag, Load, Pair, Shutdown, RunCommand, Revoke, MoveOrigin, CopyVolume, vars,
                FilesKept, fileVars
  <2> QED
    BY <1>1, <1>2, <2>1
<1>6. CASE PowerCut
  BY <1>6 DEF PowerCut, Cut, CertMove
<1>7. CASE PutOwnerMaterial
  <2> DEFINE c == [id |-> gens + 1, host |-> HostOf[origin]]
  <2>1. /\ tls' = [tls EXCEPT !.key = gens + 1, !.cert = c] /\ limbo' = {tls'} /\ tls.staged = NoStaged
    BY <1>7 DEF PutOwnerMaterial
  <2>2. gens + 1 \in Nat
    BY <1>0
  <2>3. c \in Certs /\ c.id = gens + 1
    BY <1>0, <2>2 DEF Certs, Hosts
  <2> HIDE DEF c
  <2>4. tls' \in Tls /\ tls'.cert = c /\ tls'.staged = NoStaged
    BY <1>0, <2>1, <2>2, <2>3 DEF Tls
  <2> QED
    BY <2>1, <2>3, <2>4, EmptySets DEF CertMove, OwnerPuts
<1> QED
  BY <1>1, <1>2, <1>3, <1>4, <1>5, <1>6, <1>7 DEF Next

-----------------------------------------------------------------------------
(* Nothing brings a pair of this number, or of one before, back. *)
OutdatedIn(leaf, possible) == \A s \in possible : s.cert.id > leaf

LEMMA OutdatedStays ==
    ASSUME CertInv, CertsOrder, CertMove, NEW leaf \in Nat, OutdatedIn(leaf, limbo)
    PROVE  OutdatedIn(leaf, limbo')
<1> SUFFICES ASSUME NEW t \in limbo' PROVE t.cert.id > leaf
  BY DEF OutdatedIn
<1>1. PICK s \in limbo : s.cert.id <= t.cert.id
  BY NeverOlder
<1>2. s.cert.id > leaf /\ s.cert.id \in Nat /\ t.cert.id \in Nat
  BY DEF OutdatedIn, CertInv, CertTyped, Tls, Certs, CertMove, LeavesAll, Restages, PutsOne, Cut, OwnerPuts
<1> QED
  BY <1>1, <1>2

(* Neither what the server has read nor what a phone was paired at is newer
   than any certificate of the disk, or than the pair that is being made. *)
LeavesOld ==
    /\ \A s \in limbo : live.leaf <= s.cert.id /\ \A d \in sidecar.devices : d.leaf <= s.cert.id
    /\ \A p \in Procs : place[p].at \in Inside /\ place[p].gen # 0 =>
          /\ place[p].job \in {"rotate", "ensure"}
          /\ place[p].gen > live.leaf /\ \A d \in sidecar.devices : d.leaf < place[p].gen

(* The server reads the certificate that is in place, for sure. *)
Learns ==
    /\ place[Server].at \in {"judge", "installed"} /\ place[Server].job = "ensure" /\ Leave(Server, "ok")
    /\ UNCHANGED <<sidecar, tls, limbo, clock, binding, bindingLimbo, origin>>
    /\ live'.leaf = tls.cert.id /\ live'.leaf # 0 /\ live'.cut = live.cut
    /\ \A s \in limbo : s.cert = tls.cert

LEMMA EnsureIs ==
    ASSUME CertInv, Roles, MemoryTyped, CertsOrder, NEW p \in Procs, JudgeEnsure(p)
    PROVE  Learns \/ (live' = live /\ SameLeg)
<1>0. Server \in Procs /\ Command \in Procs /\ Server # Command /\ Procs = {Server, Command}
  BY DEF Procs, Server, Command
<1>1. place[p].at = "judge" /\ place[p].job = "ensure" /\ place[p].at \in Inside
  BY DEF JudgeEnsure, At, Inside
<1>2. p = Server
  BY <1>0, <1>1 DEF Roles
<1>3. CASE Leave(p, "ok") /\ live' = [live EXCEPT !.leaf = tls.cert.id] /\ tls.cert # NoCert
  <2>1. live'.leaf = tls.cert.id /\ live'.cut = live.cut
    BY <1>3 DEF MemoryTyped
  <2>2. ~Complete(tls.staged) /\ tls \in limbo
    BY <1>1, Alone DEF Doing
  <2>3. (\A s \in limbo : s.cert = tls.cert) /\ tls.cert.id # 0
    BY <1>3, <2>2 DEF CertsOrder, OneOlder
  <2> QED
    BY <1>1, <1>2, <1>3, <2>1, <2>3 DEF Learns, JudgeEnsure, fileVars
<1>4. CASE Build(p) /\ live' = live
  BY <1>1, <1>4, BuiltLeg
<1>5. CASE Leave(p, "refused") /\ live' = live
  BY <1>1, <1>5, LeftLeg DEF Leave
<1> QED
  BY <1>3, <1>4, <1>5 DEF JudgeEnsure

LEMMA InstalledIs ==
    ASSUME CertInv, Roles, MemoryTyped, LeavesOld, NEW p \in Procs, Installed(p)
    PROVE  \/ Learns
           \/ /\ live' = live /\ place[p].job = "rotate" /\ place[p].at \in Inside /\ Leave(p, "ok")
              /\ bindingLimbo' \subseteq bindingLimbo \cup {NoBinding}
              /\ OutdatedIn(live.leaf, limbo) /\ \A d \in sidecar.devices : OutdatedIn(d.leaf, limbo)
<1>0. Server \in Procs /\ Command \in Procs /\ Server # Command /\ Procs = {Server, Command}
  BY DEF Procs, Server, Command
<1>1. place[p].at = "installed" /\ place[p].at \in Inside /\ Leave(p, "ok")
  BY DEF Installed, At, Inside
<1>2. /\ place[p].gen # 0 /\ limbo = {tls} /\ place[p].gen = tls.cert.id
  BY <1>1, Alone DEF Doing
<1>3. /\ place[p].job \in {"rotate", "ensure"}
      /\ place[p].gen > live.leaf /\ \A d \in sidecar.devices : d.leaf < place[p].gen
  BY <1>1, <1>2 DEF LeavesOld
<1>4. CASE place[p].job = "ensure"
  <2>1. p = Server
    BY <1>0, <1>1, <1>4 DEF Roles
  <2>2. /\ live' = [live EXCEPT !.leaf = place[p].gen]
        /\ UNCHANGED <<sidecar, tls, limbo, clock, binding, bindingLimbo, origin>>
    BY <1>4 DEF Installed
  <2>3. live'.leaf = tls.cert.id /\ live'.leaf # 0 /\ live'.cut = live.cut
    BY <1>2, <2>2 DEF MemoryTyped
  <2> QED
    BY <1>1, <1>2, <1>4, <2>1, <2>2, <2>3 DEF Learns
<1>5. CASE place[p].job = "rotate"
  <2>1. live' = live /\ bindingLimbo' \subseteq bindingLimbo \cup {NoBinding}
    BY <1>5 DEF Installed
  <2>2. live.leaf \in Nat /\ tls.cert.id \in Nat /\ \A d \in sidecar.devices : d.leaf \in Nat
    BY <1>2 DEF MemoryTyped, DeviceType, CertInv, CertTyped, Tls, Certs
  <2>3. OutdatedIn(live.leaf, limbo) /\ \A d \in sidecar.devices : OutdatedIn(d.leaf, limbo)
    BY <1>2, <1>3, <2>2 DEF OutdatedIn
  <2> QED
    BY <1>1, <1>5, <2>1, <2>3
<1> QED
  BY <1>3, <1>4, <1>5

LEMMA LeafMoves ==
    ASSUME CertInv, Roles, MemoryTyped, CertsOrder, LeavesOld, [Next]_vars
    PROVE  live'.leaf = live.leaf \/ (Boot /\ live'.leaf = 0) \/ Learns
<1>1. ASSUME NEW p \in Procs, Locked(p) PROVE live'.leaf = live.leaf \/ Learns
  <2>1. CASE Works(p)
    BY <2>1, WorksIs
  <2>2. CASE Enter(p) \/ JudgeClassify(p) \/ JudgeRotate(p) \/ JudgeApprove(p)
    BY <2>2 DEF Enter, JudgeClassify, JudgeRotate, JudgeApprove
  <2> QED
    BY <1>1, <2>1, <2>2, EnsureIs, InstalledIs DEF Locked, Works
<1>2. ASSUME NEW p \in Procs, Raise(p) \/ End(p) PROVE live' = live
  BY <1>2 DEF Raise, End
<1>3. CASE Bind
  BY <1>3 DEF Bind, MemoryTyped
<1>4. CASE Boot
  BY <1>4 DEF Boot
<1>5. CASE ClearFlag \/ Load \/ Pair \/ Shutdown \/ RunCommand \/ Revoke \/ PowerCut \/ MoveOrigin
           \/ PutOwnerMaterial \/ CopyVolume \/ UNCHANGED vars
  BY <1>5 DEF ClearFlag, Load, Pair, Shutdown, RunCommand, Revoke, PowerCut, MoveOrigin, PutOwnerMaterial, CopyVolume, vars
<1> QED
  BY <1>1, <1>2, <1>3, <1>4, <1>5 DEF Next

(* Who is paired; only by Pair does one come to it. *)
LEMMA DevicesMove ==
    ASSUME CertInv, MemoryTyped, [Next]_vars
    PROVE  \/ sidecar'.devices \subseteq sidecar.devices
           \/ Pair /\ sidecar'.devices = sidecar.devices \cup {[leaf |-> live.leaf, origin |-> origin, at |-> clock + 1]}
<1>1. ASSUME NEW p \in Procs, Locked(p) PROVE sidecar' = sidecar
  <2>1. CASE Works(p)
    BY <2>1, WorksIs
  <2> QED
    BY <1>1, <2>1 DEF Locked, Works, Enter, JudgeClassify, JudgeRotate, JudgeEnsure, Installed, JudgeApprove
<1>2. ASSUME NEW p \in Procs, Raise(p) \/ End(p) PROVE sidecar' = sidecar
  BY <1>2 DEF Raise, End
<1>3. CASE Boot \/ ClearFlag \/ Revoke
  BY <1>3 DEF Boot, ClearFlag, Revoke, MemoryTyped
<1>4. CASE Pair
  BY <1>4 DEF Pair, MemoryTyped
<1>5. CASE Bind \/ Load \/ Shutdown \/ RunCommand \/ PowerCut \/ MoveOrigin \/ PutOwnerMaterial \/ CopyVolume \/ UNCHANGED vars
  BY <1>5 DEF Bind, Load, Shutdown, RunCommand, PowerCut, MoveOrigin, PutOwnerMaterial, CopyVolume, vars
<1> QED
  BY <1>1, <1>2, <1>3, <1>4, <1>5 DEF Next

LEMMA LeavesOldStep ==
    ASSUME Careful, CertInv, Roles, MemoryTyped, CertsOrder, LeavesOld, [Next]_vars
    PROVE  LeavesOld'
<1>0. /\ tls \in limbo /\ gens \in Nat /\ Counted(tls, gens) /\ live.leaf \in Nat /\ tls.cert.id \in Nat
      /\ \A s \in limbo : s.cert.id \in Nat
      /\ \A d \in sidecar.devices : d.leaf \in Nat
  BY DEF CertInv, CertTyped, MemoryTyped, Tls, Certs, DeviceType
<1>1. /\ \A s \in limbo' : s.cert.id \in Nat
      /\ live'.leaf \in Nat /\ \A d \in sidecar'.devices : d.leaf \in Nat
  BY CertStep, MemoryStep DEF CertInv, CertTyped, MemoryTyped, Tls, Certs, DeviceType
<1>2. ASSUME NEW s \in limbo' PROVE live'.leaf <= s.cert.id
  <2>1. PICK t \in limbo : t.cert.id <= s.cert.id
    BY CertMoves, NeverOlder
  <2>2. CASE live'.leaf = live.leaf
    BY <1>0, <1>1, <2>1, <2>2 DEF LeavesOld
  <2>3. CASE live'.leaf = 0
    BY <1>1, <2>3
  <2>4. CASE Learns
    BY <1>0, <1>1, <2>4 DEF Learns
  <2> QED
    BY <2>2, <2>3, <2>4, LeafMoves
<1>3. ASSUME NEW s \in limbo', NEW d \in sidecar'.devices PROVE d.leaf <= s.cert.id
  <2>1. PICK t \in limbo : t.cert.id <= s.cert.id
    BY CertMoves, NeverOlder
  <2>2. CASE d \in sidecar.devices
    BY <1>0, <1>1, <2>1, <2>2 DEF LeavesOld
  <2>3. CASE d.leaf = live.leaf
    BY <1>0, <1>1, <2>1, <2>3 DEF LeavesOld
  <2> QED
    BY <2>2, <2>3, DevicesMove
<1>4. Learns => \A p \in Procs : place'[p].at \notin Inside
  <2> SUFFICES ASSUME Learns PROVE \A p \in Procs : place'[p].at \notin Inside
    OBVIOUS
  <2>1. Server \in Procs /\ place[Server].at \in Inside /\ Leave(Server, "ok")
    BY DEF Learns, Inside, Procs
  <2> QED
    BY <2>1, Alone, LeaveIs DEF Resting
<1>5. ASSUME NEW p \in Procs, place'[p].at \in Inside, place'[p].gen # 0
      PROVE  /\ place'[p].job \in {"rotate", "ensure"}
             /\ place'[p].gen > live'.leaf /\ \A d \in sidecar'.devices : d.leaf < place'[p].gen
  <2>1. /\ place'[p].job \in {"rotate", "ensure"} /\ place'[p].gen > live.leaf
        /\ \A d \in sidecar.devices : d.leaf < place'[p].gen
    <3>1. CASE place[p].at \in Inside /\ place'[p].gen = place[p].gen /\ place'[p].job = place[p].job
      BY <1>5, <3>1 DEF LeavesOld
    <3>2. CASE place'[p].gen = gens + 1 /\ place'[p].job \in {"rotate", "ensure"}
      <4>1. live.leaf <= tls.cert.id /\ tls.cert.id <= gens /\ \A d \in sidecar.devices : d.leaf <= tls.cert.id
        BY <1>0 DEF LeavesOld, Counted
      <4> QED
        BY <1>0, <3>2, <4>1
    <3> QED
      BY <1>5, <3>1, <3>2, Movement DEF MoveOf, GoesOnAs
  <2>2. place'[p].gen \in Nat
    BY CertStep DEF CertInv, CertTyped, Places
  <2>3. place'[p].gen > live'.leaf
    BY <1>0, <1>4, <1>5, <2>1, <2>2, LeafMoves
  <2>4. \A d \in sidecar'.devices : d.leaf < place'[p].gen
    BY <1>0, <2>1, <2>2, DevicesMove
  <2> QED
    BY <2>1, <2>3, <2>4
<1> QED
  BY <1>2, <1>3, <1>5 DEF LeavesOld

-----------------------------------------------------------------------------
(* A phone that may still be let in is bound to its address by all that a power
   cut could leave of the binding, or the binding is newer than the phone. *)
BoundTo(d, now, possible, bindings) ==
    /\ d.leaf # 0 /\ d.at <= now
    /\ \/ OutdatedIn(d.leaf, possible)
       \/ \A b \in bindings : b.leaf = d.leaf /\ (b.origin = d.origin \/ b.boundAt > d.at)

WantsDevices(pl) ==
    pl.at = "load" \/ (pl.at \in Inside \cup {"wait"} /\ pl.job \in {"ensure", "bind"})

(* What the server goes by at this place. *)
Knows(pl) ==
    /\ PastAt(pl) => live.leaf # 0 /\ \A d \in sidecar.devices : d.leaf <= live.leaf
    /\ WantsDevices(pl) /\ sidecar.devices # {} => "devices" \in pl.facts
    /\ pl.at \in {"raise", "serve"} =>
         /\ OutdatedIn(live.leaf, limbo) \/ (binding.origin = origin /\ binding.leaf = live.leaf)
         /\ \A d \in sidecar.devices : d.leaf = live.leaf /\ d.origin # origin =>
               OutdatedIn(live.leaf, limbo) \/ d.at < live.cut

PhonesOk ==
    /\ \A d \in sidecar.devices : BoundTo(d, clock, limbo, bindingLimbo)
    /\ Knows(place[Server])

LEMMA BoundStays ==
    ASSUME Careful, CertInv, Roles, MemoryTyped, CertsOrder, [Next]_vars,
           NEW d \in sidecar.devices, BoundTo(d, clock, limbo, bindingLimbo),
           NEW now \in Nat, now >= clock, NEW bindings, bindings \subseteq bindingLimbo
    PROVE  BoundTo(d, now, limbo', bindings)
<1>1. d.leaf \in Nat /\ d.at \in Nat /\ clock \in Nat
  BY DEF MemoryTyped, DeviceType
<1>2. d.leaf # 0 /\ d.at <= now
  BY <1>1 DEF BoundTo
<1>3. OutdatedIn(d.leaf, limbo) => OutdatedIn(d.leaf, limbo')
  BY <1>1, CertMoves, OutdatedStays
<1> QED
  BY <1>2, <1>3 DEF BoundTo

(* A step that leaves the server where it was, or takes it a step on. *)
LEMMA KnowsOn ==
    ASSUME Careful, CertInv, Roles, MemoryTyped, CertsOrder, Knows(place[Server]), [Next]_vars,
           live' = live, origin' = origin, sidecar'.devices \subseteq sidecar.devices, SameLeg,
           binding' = binding \/ OutdatedIn(live.leaf, limbo') \/ (binding'.origin = origin /\ binding'.leaf = live.leaf)
    PROVE  Knows(place[Server])'
<1>1. live.leaf \in Nat
  BY DEF MemoryTyped
<1>2. OutdatedIn(live.leaf, limbo) => OutdatedIn(live.leaf, limbo')
  BY <1>1, CertMoves, OutdatedStays
<1>3. /\ "load" \notin Inside /\ "raise" \notin Inside /\ "serve" \notin Inside
      /\ "off" \notin Inside /\ "revoke" \notin Inside
  BY DEF Inside, Staging, Putting
<1>4. CASE place'[Server] = place[Server]
  BY <1>2, <1>4 DEF Knows
<1>5. CASE place'[Server].at \in {"off", "revoke"}
  BY <1>3, <1>5 DEF Knows, PastAt, WantsDevices
<1>6. CASE /\ place'[Server].at \in Inside /\ place[Server].at \in Inside \cup {"wait"}
           /\ place'[Server].job = place[Server].job /\ place'[Server].facts = place[Server].facts
  BY <1>3, <1>6 DEF Knows, PastAt, WantsDevices
<1> QED
  BY <1>4, <1>5, <1>6 DEF SameLeg

LEMMA KnowsIdle == ASSUME ~StartedAt(place'[Server]) PROVE Knows(place[Server])'
  BY DEF StartedAt, Knows, PastAt, WantsDevices

LEMMA QuietPhones ==
    ASSUME Careful, CertInv, Roles, MemoryTyped, CertsOrder, PhonesOk, [Next]_vars,
           UNCHANGED <<live, origin, binding>>, clock' >= clock, bindingLimbo' \subseteq bindingLimbo,
           sidecar'.devices \subseteq sidecar.devices, SameLeg
    PROVE  PhonesOk'
<1>1. clock' \in Nat
  BY MemoryStep DEF MemoryTyped
<1>2. \A d \in sidecar'.devices : BoundTo(d, clock', limbo', bindingLimbo')
  BY <1>1, BoundStays DEF PhonesOk
<1>3. Knows(place[Server])'
  BY KnowsOn DEF PhonesOk
<1> QED
  BY <1>2, <1>3 DEF PhonesOk

LEMMA LearnsPhones ==
    ASSUME Careful, CertInv, Roles, MemoryTyped, CertsOrder, LeavesOld, PhonesOk, [Next]_vars, Learns
    PROVE  PhonesOk'
<1>0. Server \in Procs /\ place[Server].at \in Inside /\ place[Server].job = "ensure" /\ Leave(Server, "ok")
      /\ Server # Command
  BY DEF Learns, Inside, Procs, Server, Command
<1>1. \A d \in sidecar'.devices : BoundTo(d, clock', limbo', bindingLimbo')
  BY DEF Learns, PhonesOk
<1>2. /\ place'[Server].at \in {"load", "off", "revoke"}
      /\ place'[Server].at = "load" => place'[Server].facts = place[Server].facts
  BY <1>0, GoneWhere DEF Leave
<1>3. WantsDevices(place[Server])
  BY <1>0 DEF WantsDevices
<1>4. live'.leaf # 0 /\ \A d \in sidecar'.devices : d.leaf <= live'.leaf
  BY DEF Learns, LeavesOld, CertInv, CertTyped
<1>5. sidecar'.devices # {} => "devices" \in place[Server].facts
  BY <1>3 DEF Learns, PhonesOk, Knows
<1>6. Knows(place[Server])'
  BY <1>2, <1>4, <1>5 DEF Knows, PastAt, WantsDevices, Inside, Staging, Putting
<1> QED
  BY <1>1, <1>6 DEF PhonesOk

LEMMA BindPhones ==
    ASSUME Careful, CertInv, Roles, MemoryTyped, CertsOrder, LeavesOld, PhonesOk, [Next]_vars, Bind
    PROVE  PhonesOk'
<1> DEFINE facts == place[Server].facts
           grants == facts \cap {"devices", "seen"} # {}
           everBound == "everBound" \in facts
           at == IF binding.origin = origin THEN binding.boundAt ELSE AdoptedAt(binding, grants)
           b == [origin |-> origin, leaf |-> live.leaf, boundAt |-> at]
<1>0. Server \in Procs /\ Server # Command
  BY DEF Procs, Server, Command
<1>1. /\ place[Server].at = "settle" /\ place[Server].at \in Inside /\ place[Server].job = "bind"
      /\ UNCHANGED <<tls, limbo, sidecar, origin>>
  BY DEF Bind, At, Inside
<1>2. PastAt(place[Server]) /\ WantsDevices(place[Server])
  BY <1>1 DEF PastAt, WantsDevices
<1>3. live.leaf # 0 /\ \A d \in sidecar.devices : d.leaf <= live.leaf /\ grants
  BY <1>2 DEF PhonesOk, Knows
<1>4. /\ live.leaf \in Nat /\ clock \in Nat /\ clock' \in Nat /\ binding \in bindingLimbo
      /\ (\A d \in sidecar.devices : d.leaf \in Nat /\ d.at \in Nat)
      /\ (\A s \in limbo : s.cert.id \in Nat) /\ binding \in Bindings
  BY MemoryStep DEF MemoryTyped, DeviceType, CertInv, CertTyped, Tls, Certs
<1>5. CASE BindRefuses(binding, live.leaf, grants, everBound)
  <2>1. Leave(Server, "refused") /\ UNCHANGED <<binding, bindingLimbo, clock, live>>
    BY <1>5 DEF Bind
  <2>2. SameLeg
    BY <1>0, <1>1, <2>1, LeftLeg DEF Leave
  <2> QED
    BY <1>1, <1>4, <2>1, <2>2, QuietPhones
<1>6. CASE ~BindRefuses(binding, live.leaf, grants, everBound)
  <2>1. /\ \/ Leave(Server, "ok") /\ UNCHANGED <<binding, bindingLimbo>> /\ binding.origin = origin /\ binding.leaf = live.leaf
           \/ WriteBinding(Server, b)
        /\ live' = [live EXCEPT !.cut = at]
        /\ clock' = IF at > clock THEN at ELSE clock
    BY <1>6 DEF Bind
  <2>2. live'.leaf = live.leaf /\ live'.cut = at
    BY <2>1 DEF MemoryTyped
  <2>3. ASSUME NEW d \in sidecar.devices, ~OutdatedIn(d.leaf, limbo)
        PROVE  binding.origin = origin /\ d.leaf = live.leaf /\ (d.origin = origin \/ at > d.at)
    <3>1. PICK s \in limbo : ~(s.cert.id > d.leaf)
      BY <2>3 DEF OutdatedIn
    <3>2. live.leaf <= s.cert.id /\ d.leaf <= live.leaf
      BY <1>3 DEF LeavesOld
    <3>3. d.leaf = live.leaf
      BY <1>4, <3>1, <3>2
    <3>4. binding.leaf = d.leaf /\ (binding.origin = d.origin \/ binding.boundAt > d.at)
      BY <1>4, <2>3 DEF PhonesOk, BoundTo
    <3>5. binding # NoBinding
      <4>1. NoBinding.leaf = 0
        BY DEF NoBinding
      <4> QED
        BY <1>3, <3>3, <3>4, <4>1
    <3>6. binding.origin = origin
      BY <1>3, <1>6, <3>3, <3>4, <3>5 DEF BindRefuses
    <3> QED
      BY <3>3, <3>4, <3>6
  <2>4. \A c \in bindingLimbo' : c \in bindingLimbo \/ c = b
    BY <1>4, <2>1 DEF WriteBinding
  <2>5. b.origin = origin /\ b.leaf = live.leaf /\ b.boundAt = at
    OBVIOUS
  <2>6. \/ Leave(Server, "refused")
        \/ Leave(Server, "ok") /\ binding'.origin = origin /\ binding'.leaf = live.leaf
    BY <2>1, <2>5 DEF WriteBinding
  <2> HIDE DEF b
  <2>8. clock' >= clock
    BY <1>4, <2>1
  <2> HIDE DEF at, grants, everBound, facts
  <2>9. \A d \in sidecar'.devices : BoundTo(d, clock', limbo', bindingLimbo')
    <3> SUFFICES ASSUME NEW d \in sidecar.devices PROVE BoundTo(d, clock', limbo, bindingLimbo')
      BY <1>1
    <3>1. BoundTo(d, clock, limbo, bindingLimbo)
      BY DEF PhonesOk
    <3>2. d.leaf # 0 /\ d.at <= clock'
      BY <1>4, <2>8, <3>1 DEF BoundTo
    <3>3. CASE ~OutdatedIn(d.leaf, limbo)
      <4>1. \A c \in bindingLimbo' : c.leaf = d.leaf /\ (c.origin = d.origin \/ c.boundAt > d.at)
        BY <2>3, <2>4, <2>5, <3>1, <3>3 DEF BoundTo
      <4> QED
        BY <3>2, <4>1 DEF BoundTo
    <3> QED
      BY <3>2, <3>3 DEF BoundTo
  <2>10. CASE Leave(Server, "refused")
    <3>1. place'[Server].at \in {"off", "revoke"}
      BY <1>0, <1>1, <2>10, GoneWhere DEF Leave
    <3> QED
      BY <2>9, <3>1, KnowsIdle DEF PhonesOk, StartedAt, Inside, Staging, Putting
  <2>11. CASE Leave(Server, "ok") /\ binding'.origin = origin /\ binding'.leaf = live.leaf
    <3>1. place'[Server].at \in {"off", "raise", "revoke"}
      BY <1>0, <1>1, <2>11, GoneWhere DEF Leave
    <3>2. live'.leaf # 0 /\ \A d \in sidecar'.devices : d.leaf <= live'.leaf
      BY <1>1, <1>3, <2>2
    <3>3. \A d \in sidecar'.devices : d.leaf = live'.leaf /\ d.origin # origin' =>
            OutdatedIn(live'.leaf, limbo') \/ d.at < live'.cut
      <4> SUFFICES ASSUME NEW d \in sidecar.devices, d.leaf = live.leaf, d.origin # origin,
                          ~OutdatedIn(live.leaf, limbo)
                   PROVE  at > d.at
        BY <1>1, <1>4, <2>2
      <4> QED
        BY <2>3
    <3>4. Knows(place[Server])'
      BY <1>1, <2>2, <2>11, <3>1, <3>2, <3>3 DEF Knows, PastAt, WantsDevices, Inside, Staging, Putting
    <3> QED
      BY <2>9, <3>4 DEF PhonesOk
  <2> QED
    BY <2>6, <2>10, <2>11
<1> QED
  BY <1>5, <1>6

LEMMA LockedPhones ==
    ASSUME Careful, CertInv, Roles, MemoryTyped, CertsOrder, LeavesOld, PhonesOk, [Next]_vars,
           NEW p \in Procs, Locked(p)
    PROVE  PhonesOk'
<1>0. /\ Server \in Procs /\ Command \in Procs /\ Server # Command /\ Procs = {Server, Command}
      /\ clock \in Nat /\ live.leaf \in Nat
  BY DEF Procs, Server, Command, MemoryTyped
<1>1. CASE Works(p)
  BY <1>0, <1>1, WorksIs, WorksLeg, QuietPhones
<1>2. CASE Enter(p)
  <2>1. UNCHANGED <<live, origin, binding, clock, bindingLimbo, sidecar>>
    BY <1>2 DEF Enter, fileVars, countVars
  <2> QED
    BY <1>0, <1>2, <2>1, EnterLeg, QuietPhones
<1>3. CASE JudgeClassify(p) \/ JudgeRotate(p)
  <2>1. /\ UNCHANGED <<live, origin, binding, clock, bindingLimbo, sidecar, tls, limbo>>
        /\ place[p].at = "judge" /\ place[p].at \in Inside /\ place[p].job \in {"classify", "rotate"}
    BY <1>3 DEF JudgeClassify, JudgeRotate, At, fileVars, countVars, Inside
  <2>2. CASE SameLeg
    BY <1>0, <2>1, <2>2, QuietPhones
  <2>3. ASSUME NEW outcome, Leave(p, outcome) PROVE PhonesOk'
    <3>1. CASE p # Server
      BY <2>1, <2>2, <2>3, <3>1, LeftLeg DEF Leave
    <3>2. CASE p = Server
      <4>1. ~StartedAt(place'[Server])
        BY <2>1, <2>3, <3>2, ServerLeaves
      <4> QED
        BY <2>1, <4>1, KnowsIdle DEF PhonesOk
    <3> QED
      BY <3>1, <3>2
  <2>4. Build(p) \/ \E outcome \in {"absent", "generated", "owner"} : Leave(p, outcome)
    BY <1>3 DEF JudgeClassify, JudgeRotate
  <2> QED
    BY <2>1, <2>2, <2>3, <2>4, BuiltLeg
<1>4. CASE JudgeEnsure(p)
  <2>1. UNCHANGED <<origin, binding, clock, bindingLimbo, sidecar>>
    BY <1>4 DEF JudgeEnsure, fileVars
  <2> QED
    BY <1>0, <1>4, <2>1, EnsureIs, LearnsPhones, QuietPhones
<1>5. CASE Installed(p)
  <2>1. UNCHANGED <<origin, clock, sidecar, tls, limbo>>
    BY <1>5 DEF Installed
  <2>2. CASE /\ live' = live /\ place[p].job = "rotate" /\ place[p].at \in Inside /\ Leave(p, "ok")
             /\ bindingLimbo' \subseteq bindingLimbo \cup {NoBinding}
             /\ OutdatedIn(live.leaf, limbo) /\ \A d \in sidecar.devices : OutdatedIn(d.leaf, limbo)
    <3>1. \A d \in sidecar'.devices : BoundTo(d, clock', limbo', bindingLimbo')
      BY <2>1, <2>2 DEF PhonesOk, BoundTo
    <3>2. Knows(place[Server])'
      <4>1. CASE p # Server
        <5>1. SameLeg
          BY <2>2, <4>1, LeftLeg DEF Leave
        <5> QED
          BY <2>1, <2>2, <5>1, KnowsOn DEF PhonesOk
      <4>2. CASE p = Server
        BY <2>2, <4>2, ServerLeaves, KnowsIdle
      <4> QED
        BY <4>1, <4>2
    <3> QED
      BY <3>1, <3>2 DEF PhonesOk
  <2> QED
    BY <1>5, <2>2, InstalledIs, LearnsPhones
<1>6. CASE JudgeApprove(p)
  <2> DEFINE b == [origin |-> origin, leaf |-> tls.cert.id, boundAt |-> clock + 1]
  <2>1. /\ UNCHANGED <<live, origin, sidecar, tls, limbo>> /\ place[p].at = "judge" /\ place[p].at \in Inside
        /\ place[p].job = "approve"
    BY <1>6 DEF JudgeApprove, At, Inside
  <2>2. p # Server /\ ~Complete(tls.staged) /\ tls \in limbo
    BY <2>1, Alone DEF Roles, Doing
  <2>3. SameLeg
    <3>1. \E outcome \in {"ok", "refused"} : Leave(p, outcome)
      BY <1>6 DEF JudgeApprove, WriteBinding
    <3> QED
      BY <2>1, <2>2, <3>1, LeftLeg DEF Leave
  <2>4. CASE UNCHANGED <<binding, bindingLimbo, clock>>
    BY <1>0, <2>1, <2>3, <2>4, QuietPhones
  <2>5. CASE clock' = clock + 1 /\ WriteBinding(p, b)
    <3>1. /\ binding' \in {binding, b} /\ bindingLimbo' \subseteq bindingLimbo \cup {b, binding}
          /\ binding \in bindingLimbo
      BY <2>5 DEF WriteBinding, MemoryTyped
    <3>2. b.origin = origin /\ b.leaf = tls.cert.id /\ b.boundAt = clock + 1
      OBVIOUS
    <3> HIDE DEF b
    <3>3. /\ \A s \in limbo : s.cert = tls.cert
          /\ tls.cert.id \in Nat /\ \A d \in sidecar.devices : d.leaf \in Nat /\ d.at \in Nat
      BY <2>2 DEF CertsOrder, OneOlder, CertInv, CertTyped, Tls, Certs, MemoryTyped, DeviceType
    <3>4. ASSUME NEW leaf \in Nat, leaf <= tls.cert.id, ~OutdatedIn(leaf, limbo) PROVE leaf = tls.cert.id
      BY <3>3, <3>4 DEF OutdatedIn
    <3>5. \A d \in sidecar'.devices : BoundTo(d, clock', limbo', bindingLimbo')
      <4> SUFFICES ASSUME NEW d \in sidecar.devices PROVE BoundTo(d, clock + 1, limbo, bindingLimbo')
        BY <2>1, <2>5
      <4>1. BoundTo(d, clock, limbo, bindingLimbo) /\ d.leaf <= tls.cert.id
        BY <2>2 DEF PhonesOk, LeavesOld
      <4>2. d.leaf # 0 /\ d.at <= clock + 1 /\ clock + 1 > d.at
        BY <1>0, <3>3, <4>1 DEF BoundTo
      <4>3. CASE ~OutdatedIn(d.leaf, limbo)
        <5>1. d.leaf = tls.cert.id
          BY <3>3, <3>4, <4>1, <4>3
        <5> QED
          BY <3>1, <3>2, <4>1, <4>2, <4>3, <5>1 DEF BoundTo
      <4> QED
        BY <4>2, <4>3 DEF BoundTo
    <3>6. OutdatedIn(live.leaf, limbo) \/ live.leaf = tls.cert.id
      <4>1. live.leaf <= tls.cert.id
        BY <2>2 DEF LeavesOld
      <4> QED
        BY <1>0, <3>4, <4>1
    <3>7. Knows(place[Server])'
      BY <2>1, <2>3, <3>1, <3>2, <3>6, KnowsOn DEF PhonesOk
    <3> QED
      BY <3>5, <3>7 DEF PhonesOk
  <2> QED
    BY <1>6, <2>4, <2>5 DEF JudgeApprove
<1> QED
  BY <1>1, <1>2, <1>3, <1>4, <1>5, <1>6 DEF Locked, Works

LEMMA PhonesStep ==
    ASSUME Careful, CertInv, Roles, MemoryTyped, CertsOrder, LeavesOld, PhonesOk, [Next]_vars
    PROVE  PhonesOk'
<1>0. /\ Server \in Procs /\ Command \in Procs /\ Server # Command
      /\ clock \in Nat /\ clock' \in Nat /\ live.leaf \in Nat /\ binding \in bindingLimbo
  BY MemoryStep DEF Procs, Server, Command, MemoryTyped
<1>1. ASSUME clock' = clock, sidecar'.devices \subseteq sidecar.devices, bindingLimbo' \subseteq bindingLimbo
      PROVE  \A d \in sidecar'.devices : BoundTo(d, clock', limbo', bindingLimbo')
  BY <1>0, <1>1, BoundStays DEF PhonesOk
<1>2. /\ \A step \in {"off", "serve", "revoke", "classify"} : step \in Exits
      /\ "classify" \in Jobs
      /\ \A step \in {"off", "serve", "revoke"} : step \notin Jobs
  BY DEF Exits, Outside, Jobs
<1>3. ASSUME clock' = clock, sidecar'.devices \subseteq sidecar.devices, bindingLimbo' \subseteq bindingLimbo,
             \/ place'[Server].at = "off"
             \/ place'[Server].at = "wait" /\ place'[Server].job = "classify"
      PROVE  PhonesOk'
  <2>1. ~StartedAt(place'[Server])
    BY <1>3 DEF StartedAt, Inside, Staging, Putting
  <2> QED
    BY <1>1, <1>3, <2>1, KnowsIdle DEF PhonesOk
<1>4. ASSUME NEW step \in {"off", "classify"}, Goto(Server, step)
      PROVE  place'[Server].at = "off" \/ (place'[Server].at = "wait" /\ place'[Server].job = "classify")
  BY <1>0, <1>2, <1>4, GotoOut
<1>5. ASSUME NEW p \in Procs, Locked(p) PROVE PhonesOk'
  BY <1>5, LockedPhones
<1>6. CASE Bind
  BY <1>6, BindPhones
<1>7. ASSUME NEW p \in Procs, Raise(p) PROVE PhonesOk'
  <2>1. /\ UNCHANGED <<live, origin, binding, clock, bindingLimbo, sidecar, tls, limbo>> /\ place[p].at = "raise"
        /\ Goto(p, IF p = Server THEN "serve" ELSE "revoke")
    BY <1>7 DEF Raise, At, fileVars
  <2>2. CASE p = Server
    <3>1. place'[Server].at = "serve"
      BY <1>2, <2>1, <2>2, GotoOut
    <3>2. PastAt(place[Server]) /\ place[Server].at = "raise"
      BY <2>1, <2>2 DEF PastAt
    <3>3. Knows(place[Server])'
      BY <2>1, <3>1, <3>2 DEF PhonesOk, Knows, WantsDevices, Inside, Staging, Putting
    <3> QED
      BY <1>1, <2>1, <3>3 DEF PhonesOk
  <2>3. CASE p # Server
    <3>1. SameLeg
      BY <1>0, <1>2, <2>1, <2>3, GotoOut DEF SameLeg
    <3> QED
      BY <1>0, <2>1, <3>1, QuietPhones
  <2> QED
    BY <2>2, <2>3
<1>8. ASSUME place' = [place EXCEPT ![Server] = [at |-> "wait", job |-> "ensure", gen |-> 0, facts |-> Devices]],
             sidecar'.devices = sidecar.devices, clock' = clock, bindingLimbo' \subseteq bindingLimbo
      PROVE  PhonesOk'
  <2>1. place'[Server].at = "wait" /\ place'[Server].job = "ensure" /\ place'[Server].facts = Devices
    <3>1. Server \in Procs /\ place \in [Procs -> Places]
      BY <1>0 DEF CertInv, CertTyped
    <3> QED
      BY <1>8, <3>1
  <2>2. Knows(place[Server])'
    BY <1>8, <2>1 DEF Knows, PastAt, Devices
  <2> QED
    BY <1>1, <1>8, <2>2 DEF PhonesOk
<1>9. CASE Boot \/ ClearFlag
  <2>1. clock' = clock /\ bindingLimbo' \subseteq bindingLimbo
    BY <1>0, <1>9 DEF Boot, ClearFlag, SyncsBinding
  <2>2. \/ /\ sidecar'.devices \subseteq sidecar.devices
           /\ \E step \in {"off", "classify"} : Goto(Server, step)
        \/ /\ sidecar'.devices = sidecar.devices
           /\ place' = [place EXCEPT ![Server] = [at |-> "wait", job |-> "ensure", gen |-> 0, facts |-> Devices]]
    BY <1>9 DEF Boot, ClearFlag, MemoryTyped
  <2> QED
    BY <1>3, <1>4, <1>8, <2>1, <2>2
<1>10. CASE Load
  <2> DEFINE facts == (place[Server].facts \cap {"devices"}) \cup (epoch.facts \cap {"seen", "everBound"})
  <2>1. /\ UNCHANGED <<live, origin, binding, clock, bindingLimbo, sidecar, tls, limbo>> /\ place[Server].at = "load"
        /\ place' = [place EXCEPT ![Server] = [at |-> "wait", job |-> "bind", gen |-> 0, facts |-> facts]]
    BY <1>10 DEF Load, At, fileVars, countVars
  <2>2. "devices" \in place[Server].facts => "devices" \in facts
    OBVIOUS
  <2> HIDE DEF facts
  <2>3. place'[Server].at = "wait" /\ place'[Server].job = "bind" /\ place'[Server].facts = facts
    BY <1>0, <2>1, PlacedAt
  <2>4. PastAt(place[Server]) /\ WantsDevices(place[Server])
    BY <2>1 DEF PastAt, WantsDevices
  <2>5. Knows(place[Server])'
    BY <2>1, <2>2, <2>3, <2>4 DEF PhonesOk, Knows
  <2> QED
    BY <1>1, <2>1, <2>5 DEF PhonesOk
<1>11. CASE Pair
  <2> DEFINE d == [leaf |-> live.leaf, origin |-> origin, at |-> clock + 1]
  <2>1. /\ UNCHANGED <<live, origin, binding, tls, limbo, place>> /\ clock' = clock + 1
        /\ bindingLimbo' = {binding} /\ place[Server].at = "serve"
        /\ sidecar'.devices = sidecar.devices \cup {d}
    BY <1>11 DEF Pair, At, SyncsBinding, MemoryTyped
  <2>2. d.leaf = live.leaf /\ d.origin = origin /\ d.at = clock + 1
    OBVIOUS
  <2> HIDE DEF d
  <2>3. PastAt(place[Server])
    BY <2>1 DEF PastAt
  <2>4. live.leaf # 0 /\ \A e \in sidecar.devices : e.leaf <= live.leaf
    BY <2>3 DEF PhonesOk, Knows
  <2>5. OutdatedIn(live.leaf, limbo) \/ (binding.origin = origin /\ binding.leaf = live.leaf)
    BY <2>1 DEF PhonesOk, Knows
  <2>6. BoundTo(d, clock + 1, limbo, {binding})
    BY <1>0, <2>2, <2>4, <2>5 DEF BoundTo
  <2>7. \A e \in sidecar.devices : BoundTo(e, clock + 1, limbo, {binding})
    <3>1. clock + 1 \in Nat /\ clock + 1 >= clock /\ {binding} \subseteq bindingLimbo
      BY <1>0
    <3> QED
      BY <2>1, <3>1, BoundStays DEF PhonesOk
  <2>8. Knows(place[Server])'
    <3>1. \A e \in sidecar'.devices : e.leaf <= live.leaf
      BY <1>0, <2>1, <2>2, <2>4
    <3>2. ~WantsDevices(place[Server])
      BY <2>1 DEF WantsDevices, Inside, Staging, Putting
    <3>3. \A e \in sidecar'.devices : e.leaf = live.leaf /\ e.origin # origin =>
            OutdatedIn(live.leaf, limbo) \/ e.at < live.cut
      BY <2>1, <2>2 DEF PhonesOk, Knows
    <3> QED
      BY <2>1, <2>4, <2>5, <3>1, <3>2, <3>3 DEF Knows
  <2> QED
    BY <2>1, <2>6, <2>7, <2>8 DEF PhonesOk
<1>12. CASE Shutdown
  <2>1. UNCHANGED <<clock, sidecar, bindingLimbo>> /\ Goto(Server, "off")
    BY <1>12 DEF Shutdown, fileVars, countVars
  <2> QED
    BY <1>3, <1>4, <2>1
<1>13. ASSUME place'[Server] = place[Server] \/ place'[Server].at = "off", UNCHANGED <<clock, live, origin, binding, bindingLimbo, sidecar>>
       PROVE  PhonesOk'
  <2>1. CASE place'[Server] = place[Server]
    BY <1>0, <1>13, <2>1, QuietPhones DEF SameLeg
  <2> QED
    BY <1>3, <1>13, <2>1
<1>14. CASE RunCommand
  <2>1. UNCHANGED <<clock, live, origin, binding, bindingLimbo, sidecar>> /\ place'[Server] = place[Server]
    BY <1>0, <1>14, PlacedAt DEF RunCommand, fileVars
  <2> QED
    BY <1>13, <2>1
<1>15. CASE Revoke
  <2>1. /\ UNCHANGED <<clock, live, origin, binding>> /\ bindingLimbo' \subseteq bindingLimbo
        /\ sidecar'.devices \subseteq sidecar.devices /\ Goto(Command, "off")
    BY <1>0, <1>15 DEF Revoke, SyncsBinding, MemoryTyped
  <2>2. SameLeg
    BY <1>0, <1>2, <2>1, GotoOut DEF SameLeg
  <2> QED
    BY <1>0, <2>1, <2>2, QuietPhones
<1>16. ASSUME NEW p \in Procs, End(p) PROVE PhonesOk'
  <2>1. /\ UNCHANGED <<clock, live, origin, binding, bindingLimbo, sidecar>>
        /\ place'[Server] = place[Server] \/ place'[Server].at = "off"
    BY <1>0, <1>16 DEF End, Idle, fileVars, CertInv, CertTyped
  <2> QED
    BY <1>13, <2>1
<1>17. CASE PowerCut
  <2>1. UNCHANGED <<clock, sidecar>> /\ bindingLimbo' \subseteq bindingLimbo /\ place'[Server].at = "off"
    BY <1>0, <1>17 DEF PowerCut, Idle
  <2> QED
    BY <1>3, <2>1
<1>18. CASE MoveOrigin
  <2>1. UNCHANGED <<clock, sidecar, bindingLimbo>> /\ place'[Server].at = "off"
    BY <1>0, <1>18 DEF MoveOrigin, Moves, AllOff, At, fileVars
  <2> QED
    BY <1>3, <2>1
<1>19. CASE PutOwnerMaterial \/ CopyVolume \/ UNCHANGED vars
  BY <1>13, <1>19 DEF PutOwnerMaterial, CopyVolume, vars, fileVars, countVars
<1> QED
  BY <1>5, <1>6, <1>7, <1>9, <1>10, <1>11, <1>12, <1>14, <1>15, <1>16, <1>17, <1>18, <1>19 DEF Next

(* listener.js, bindLocked and originRefusal: a phone that is let in was paired
   at the address that is served, except while a rotation has yet to be served,
   for any origins, phones, rotations, failures and power cuts, provided that
   the owner puts nothing while a pair is staged. *)
THEOREM PhonesStayAtTheirOrigin == ASSUME Careful PROVE Spec => []PhonesFollowTheirOrigin
<1> DEFINE Inv == CertInv /\ Roles /\ MemoryTyped /\ CertsOrder /\ LeavesOld /\ PhonesOk
<1>1. Init => Inv
  <2> SUFFICES ASSUME Init PROVE Inv
    OBVIOUS
  <2>1. \A p \in Procs : place[p].at = "off"
    BY DEF Init, Idle
  <2>2. Roles /\ MemoryTyped
    BY InitMemory
  <2>3. CertsOrder
    BY <2>1, EmptySets DEF Init, CertsOrder, OneOlder
  <2>4. LeavesOld
    BY <2>1, EmptySets DEF Init, LeavesOld, Inside, Staging, Putting
  <2>5. PhonesOk
    BY <2>1 DEF Init, PhonesOk, Knows, PastAt, WantsDevices, Procs, Server, Inside, Staging, Putting
  <2> QED
    BY <2>2, <2>3, <2>4, <2>5, InitCert
<1>2. Inv /\ [Next]_vars => Inv'
  BY CertStep, RolesStep, MemoryStep, CertMoves, OrderKept, LeavesOldStep, PhonesStep
<1>3. Inv => PhonesFollowTheirOrigin
  <2> SUFFICES ASSUME Inv, place[Server].at = "serve", live.leaf = tls.cert.id, NEW d \in sidecar.devices,
                      Accepted(d), d.origin # origin
               PROVE  FALSE
    BY DEF PhonesFollowTheirOrigin, At
  <2>1. d.leaf = live.leaf /\ (live.cut = 0 \/ d.at >= live.cut)
    BY DEF Accepted
  <2>2. d.at \in Nat /\ live.cut \in Nat /\ live.leaf \in Nat /\ tls \in limbo
    BY DEF MemoryTyped, DeviceType, CertInv, CertTyped
  <2>3. ~OutdatedIn(live.leaf, limbo)
    BY <2>2 DEF OutdatedIn
  <2>4. d.at < live.cut
    BY <2>1, <2>3 DEF PhonesOk, Knows
  <2> QED
    BY <2>1, <2>2, <2>4
<1> QED
  BY <1>1, <1>2, <1>3, PTL DEF Spec

=============================================================================
