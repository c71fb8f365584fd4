-------------------------- MODULE OwnerAuthProofs --------------------------
(***************************************************************************)
(* What OwnerAuth promises for any browsers, codes, throttle, revisions,   *)
(* failed and unconfirmed writes, ends, power cuts and restored files.     *)
(*                                                                         *)
(* Three invariants.  FilesHold says of every contents the state file has  *)
(* or may be put back to that it is no older than what a browser was told, *)
(* that its codes are unspent, and that it is no v1 file once migration is *)
(* marked as done.  SignedHold says what the open sessions and tickets are *)
(* worth, whoever is the owner: nothing counts while the file is stopped   *)
(* by an unconfirmed write, and a restart drops them all.  CountsHold says *)
(* that an address cannot have tried more codes than it made attempts.     *)
(* The routes of the panel need none of them: whatever the state says of   *)
(* owner and sessions, the table decides in its order.  And the names of   *)
(* images need no state at all: what is said of references of any length   *)
(* rests on the first and the last place of a sign, by a least             *)
(* counterexample.  What is said of the sections of the state holds after  *)
(* any number of calls, by conditions on their rows that the writers keep. *)
(***************************************************************************)
EXTENDS MCOwnerAuth, FiniteSetTheorems, SequenceTheorems, WellFoundedInduction, TLAPS

Records == [pw : Nat, mfa : Nat, codes : SUBSET Codes]
Shape == [format : {"none", "v1", "v2"}, rev : Nat, owner : {NoOwner} \cup Records]

(* Contents c, after the revision a was acknowledged and the codes u spent. *)
Recent(c, a) == a <= c.rev /\ (c.format = "none" => c.rev = 0)
Unspent(c, u) ==
    c.owner # NoOwner =>
        c.owner.mfa <= c.rev /\ \A code \in c.owner.codes : <<c.owner.mfa, code>> \notin u
Servable(c, m) == m # "absent" /\ c.format = "v1" => c.rev > 0

Sound(a, u, m) == {c \in Shape : Recent(c, a) /\ Unspent(c, u) /\ Servable(c, m)}

FilesHold ==
    /\ acked \in Nat /\ marker \in {"absent", "unsynced", "present"}
    /\ used \subseteq Nat \X Codes /\ \A u \in used : u[1] <= acked
    /\ file \in FileType(Sound(acked, used, marker)) /\ file.cache = file.disk
    /\ up \in BOOLEAN /\ (up => file.cache.format = "v2")
    /\ twice = FALSE

(* Sessions ss and tickets ts are of the credentials of owner o. *)
Follow(o, ss, ts) ==
    IF o = NoOwner THEN ss = {} /\ ts = {}
    ELSE /\ \A s \in ss : s.pw = o.pw /\ s.mfa = o.mfa
         /\ \A t \in ts : t.pw = o.pw /\ o.mfa > 0

SignedHold ==
    /\ ~up => sessions = {} /\ tickets = {}
    /\ Usable => Follow(getOwner, sessions, tickets)

CountsHold ==
    /\ hits \in [Browsers -> Nat] /\ wrong \in [Browsers -> Nat]
    /\ \A b \in Browsers : wrong[b] <= hits[b] /\ wrong[b] < IpMax /\ hits[b] <= IpMax
-----------------------------------------------------------------------------
(* The file. *)

LEMMA CommitEnds ==
    ASSUME NEW f, NEW new, NEW w \in Commits(f, new)
    PROVE  /\ w.done => w.file = Confirmed(f, new)
           /\ w.done \in BOOLEAN
           /\ ~w.done => w.file \in {f, Unconfirmed(f, new)}
<1> DEFINE c == Confirmed(f, new)  u == Unconfirmed(f, new)
<1>1. w \in {[done |-> FALSE, faults |-> 0, file |-> f]} \cup Writes(f, new)
  BY DEF Commits
<1>2. \/ w = [done |-> FALSE, faults |-> 0, file |-> f]
      \/ w = [done |-> FALSE, faults |-> 1, file |-> f]
      \/ w = [done |-> FALSE, faults |-> 1, file |-> u]
      \/ w = [done |-> TRUE, faults |-> 0, file |-> c]
  BY <1>1 DEF Writes
<1> HIDE DEF c, u
<1>3. w.done = TRUE \/ w.done = FALSE
  BY <1>2
<1>4. w.done => w.file = c
  BY <1>2
<1>5. ~w.done => w.file \in {f, u}
  BY <1>2
<1> QED
  BY <1>3, <1>4, <1>5 DEF c, u

LEMMA WritesAreCommits ==
    ASSUME NEW f, NEW new, NEW w \in Writes(f, new), f.poisoned = FALSE
    PROVE  w \in Commits(f, new)
  BY DEF Commits

LEMMA CommitStays ==
    ASSUME NEW S, NEW f \in FileType(S), NEW new \in S, NEW w \in Commits(f, new),
           f.cache = f.disk
    PROVE  /\ w.file \in FileType(S) /\ w.file.cache = w.file.disk
           /\ w.file.cache \in {f.cache, new}
<1>1. ASSUME NEW g \in {f, Confirmed(f, new), Unconfirmed(f, new)}
      PROVE  g \in FileType(S) /\ g.cache = g.disk /\ g.cache \in {f.cache, new}
  BY DEF Confirmed, Unconfirmed, FileType
<1> QED
  BY <1>1, CommitEnds

(* What the running server sees of it. *)
LEMMA CommitShows ==
    ASSUME NEW S, NEW f \in FileType(S), NEW new, NEW w \in Commits(f, new)
    PROVE  /\ w.done => w.file.cache = new /\ w.file.poisoned = f.poisoned
           /\ ~w.done => w.file = f \/ w.file.poisoned = TRUE
<1>1. /\ Confirmed(f, new).cache = new /\ Confirmed(f, new).poisoned = f.poisoned
      /\ Unconfirmed(f, new).poisoned = TRUE
  BY DEF Confirmed, Unconfirmed, FileType
<1> QED
  BY <1>1, CommitEnds

(* A confirmed write leaves its own contents and no others. *)
LEMMA DoneIsAll ==
    ASSUME NEW S, NEW f \in FileType(S), NEW new, NEW w \in Commits(f, new), w.done
    PROVE  w.file \in FileType({new}) /\ w.file.cache = w.file.disk /\ w.file.cache = new
<1>1. Confirmed(f, new) \in FileType({new}) /\ Confirmed(f, new).cache = new /\ Confirmed(f, new).disk = new
  BY DEF Confirmed, FileType
<1> QED
  BY <1>1, CommitEnds

LEMMA Widens ==
    ASSUME NEW S, NEW T, S \subseteq T, NEW f \in FileType(S)
    PROVE  f \in FileType(T)
  BY DEF FileType

LEMMA ReloadStays ==
    ASSUME NEW S, NEW f \in FileType(S)
    PROVE  /\ Reloaded(f, f.disk) \in FileType(S) /\ Reloaded(f, f.disk).cache = f.disk
           /\ Reloaded(f, f.disk).disk = f.disk /\ Reloaded(f, f.disk).poisoned = FALSE
           /\ \A g \in AfterCut(f) : g \in FileType(S) /\ g.cache = g.disk
  BY DEF Reloaded, AfterCut, FileType

LEMMA MarkerKeepsSound ==
    ASSUME NEW a, NEW u, NEW m, NEW n, n # "absent" => m # "absent"
    PROVE  Sound(a, u, m) \subseteq Sound(a, u, n)
  BY DEF Sound, Servable

LEMMA SavingKeepsMarker ==
    ASSUME FilesHold, NEW w, Saving(w)
    PROVE  /\ marker' \in {"absent", "unsynced", "present"}
           /\ marker' # "absent" => marker # "absent"
  BY DEF FilesHold, Saving
-----------------------------------------------------------------------------
(* The owner's record. *)

LEMMA OwnerOf ==
    ASSUME FilesHold
    PROVE  /\ file.cache \in Sound(acked, used, marker) /\ file.cache \in Shape
           /\ file.cache.rev \in Nat /\ NextRev \in Nat /\ NextRev > file.cache.rev
           /\ acked <= file.cache.rev /\ acked \in Nat
           /\ getOwner \in {NoOwner} \cup Records
           /\ getOwner # NoOwner =>
                /\ getOwner \in Records /\ getOwner.mfa <= file.cache.rev
                /\ \A code \in getOwner.codes : <<getOwner.mfa, code>> \notin used
  BY DEF FilesHold, FileType, Sound, Shape, Recent, Unspent, NextRev, getOwner

LEMMA SetOwnerIsSound ==
    ASSUME FilesHold, up, NEW o \in Records, o.mfa <= NextRev,
           \A code \in o.codes : <<o.mfa, code>> \notin used
    PROVE  /\ setOwner(o) \in Sound(acked, used, marker)
           /\ setOwner(o).rev = NextRev /\ setOwner(o).owner = o /\ setOwner(o).format = "v2"
<1>1. file.cache \in Shape /\ NextRev \in Nat /\ acked <= NextRev
  BY OwnerOf
<1>3. file.cache.format = "v2"
  BY DEF FilesHold
<1>2. /\ setOwner(o).rev = NextRev /\ setOwner(o).owner = o /\ setOwner(o).format = "v2"
      /\ setOwner(o) \in Shape
  BY <1>1, <1>3 DEF setOwner, Shape
<1> QED
  BY <1>1, <1>2 DEF Sound, Recent, Unspent, Servable

LEMMA RecordsOf ==
    ASSUME NEW o \in Records, NEW n \in Nat
    PROVE  /\ [o EXCEPT !.pw = n] \in Records /\ [o EXCEPT !.pw = n].mfa = o.mfa
           /\ [o EXCEPT !.pw = n].codes = o.codes
           /\ WithoutMfa(o) \in Records /\ WithoutMfa(o).mfa = 0 /\ WithoutMfa(o).codes = {}
  BY DEF Records, WithoutMfa

LEMMA StruckRecord ==
    ASSUME NEW o \in Records, NEW code
    PROVE  /\ consumeRecovery(o, code) \in Records /\ consumeRecovery(o, code).mfa = o.mfa
           /\ consumeRecovery(o, code).pw = o.pw /\ consumeRecovery(o, code).codes = o.codes \ {code}
  BY DEF Records, consumeRecovery

(* The four changes of the credentials. *)
LEMMA ChangesAreSound ==
    ASSUME FilesHold, up
    PROVE  /\ setOwner(passwordRecord(getOwner)) \in Sound(acked, used, marker)
           /\ getOwner # NoOwner => /\ setOwner(WithMfa(getOwner)) \in Sound(acked, used, marker)
                                    /\ setOwner(WithoutMfa(getOwner)) \in Sound(acked, used, marker)
<1>1. NextRev \in Nat /\ acked < NextRev
  BY OwnerOf
<1>5. used \subseteq Nat \X Codes /\ \A u \in used : u[1] <= acked
  BY DEF FilesHold
<1>2. setOwner(passwordRecord(getOwner)) \in Sound(acked, used, marker)
  <2>1. CASE getOwner = NoOwner
    <3> DEFINE o == [pw |-> NextRev, mfa |-> 0, codes |-> {}]
    <3>1. o \in Records /\ o.mfa <= NextRev /\ o.codes = {}
      BY <1>1 DEF Records
    <3> QED
      BY <2>1, <3>1, SetOwnerIsSound DEF passwordRecord
  <2>2. CASE getOwner # NoOwner
    <3> DEFINE o == [getOwner EXCEPT !.pw = NextRev]
    <3>1. o \in Records /\ o.mfa = getOwner.mfa /\ o.codes = getOwner.codes
      BY <1>1, <2>2, OwnerOf, RecordsOf
    <3>2. o.mfa <= NextRev /\ getOwner.mfa \in Nat
      BY <2>2, <3>1, OwnerOf DEF Records
    <3> HIDE DEF o
    <3>3. setOwner(o) \in Sound(acked, used, marker)
      BY <2>2, <3>1, <3>2, OwnerOf, SetOwnerIsSound
    <3> QED
      BY <2>2, <3>3 DEF passwordRecord, o
  <2> QED
    BY <2>1, <2>2
<1>4. Codes \subseteq Codes /\ 0 <= NextRev /\ NextRev <= NextRev
  BY <1>1
<1>3. ASSUME getOwner # NoOwner
      PROVE  /\ setOwner(WithMfa(getOwner)) \in Sound(acked, used, marker)
             /\ setOwner(WithoutMfa(getOwner)) \in Sound(acked, used, marker)
  <2>1. getOwner \in Records
    BY <1>3, OwnerOf
  <2>2. /\ WithMfa(getOwner) \in Records /\ WithMfa(getOwner).mfa = NextRev
        /\ WithMfa(getOwner).codes = Codes
    BY <1>1, <2>1 DEF WithMfa, Records
  <2>3. \A code \in Codes : <<NextRev, code>> \notin used
    BY <1>1, <1>5, OwnerOf
  <2>4. setOwner(WithMfa(getOwner)) \in Sound(acked, used, marker)
    BY <1>1, <2>2, <2>3, SetOwnerIsSound
  <2>5. /\ WithoutMfa(getOwner) \in Records /\ WithoutMfa(getOwner).mfa = 0
        /\ WithoutMfa(getOwner).codes = {}
    BY <1>1, <2>1, RecordsOf
  <2>6. setOwner(WithoutMfa(getOwner)) \in Sound(acked, used, marker)
    BY <1>1, <2>5, SetOwnerIsSound
  <2> QED
    BY <2>4, <2>6
<1> QED
  BY <1>2, <1>3

(* A recovery code struck off: not accepted before, and never again. *)
LEMMA StrikingIsSound ==
    ASSUME FilesHold, up, getOwner # NoOwner, NEW code \in getOwner.codes
    PROVE  LET struck == setOwner(consumeRecovery(getOwner, code))
               spent == used \cup {<<getOwner.mfa, code>>} IN
           /\ struck \in Sound(acked, used, marker) /\ struck \in Shape
           /\ struck.rev = NextRev /\ struck.format = "v2"
           /\ struck.owner \in Records
           /\ struck.owner.pw = getOwner.pw /\ struck.owner.mfa = getOwner.mfa
           /\ Unspent(struck, spent)
           /\ <<getOwner.mfa, code>> \notin used
           /\ spent \subseteq Nat \X Codes /\ \A u \in spent : u[1] <= NextRev
<1> DEFINE o == consumeRecovery(getOwner, code)
           struck == setOwner(o)
           pair == <<getOwner.mfa, code>>
           spent == used \cup {pair}
<1>1. /\ o \in Records /\ o.mfa = getOwner.mfa /\ o.pw = getOwner.pw
      /\ o.codes = getOwner.codes \ {code} /\ getOwner \in Records
  BY OwnerOf, StruckRecord
<1>2. getOwner.mfa \in Nat /\ NextRev \in Nat /\ getOwner.mfa <= NextRev /\ code \in Codes
  BY <1>1, OwnerOf DEF Records
<1>3. \A c \in getOwner.codes : <<getOwner.mfa, c>> \notin used
  BY OwnerOf
<1>4. used \subseteq Nat \X Codes /\ \A u \in used : u[1] <= acked
  BY DEF FilesHold
<1>5. spent \subseteq Nat \X Codes
  BY <1>2, <1>4
<1>6. ASSUME NEW u \in spent PROVE u[1] <= NextRev
  <2>1. CASE u \in used
    <3>1. u[1] \in Nat /\ u[1] <= acked
      BY <1>4, <2>1
    <3> QED
      BY <3>1, OwnerOf
  <2>2. CASE u = pair
    BY <1>2, <2>2
  <2> QED
    BY <2>1, <2>2
<1> HIDE DEF o
<1>7. /\ struck \in Sound(acked, used, marker)
      /\ struck.rev = NextRev /\ struck.owner = o /\ struck.format = "v2"
  <2>1. \A c \in o.codes : <<o.mfa, c>> \notin used
    BY <1>1, <1>3
  <2> QED
    BY <1>1, <1>2, <2>1, SetOwnerIsSound
<1>8. Unspent(struck, spent)
  <2>1. \A c \in o.codes : <<o.mfa, c>> \notin spent
    BY <1>1, <1>3
  <2> QED
    BY <1>1, <1>2, <1>7, <2>1 DEF Unspent
<1>9. struck \in Shape
  BY <1>7 DEF Sound
<1>10. pair \notin used
  BY <1>3
<1> QED
  BY <1>1, <1>5, <1>6, <1>7, <1>8, <1>9, <1>10 DEF o
-----------------------------------------------------------------------------
(* What becomes of the file. *)

Markers == {"absent", "unsynced", "present"}

(* Only contents that were sound before may be left. *)
LEMMA SoundContentsStay ==
    ASSUME FilesHold, file' \in FileType(Sound(acked, used, marker)), file'.cache = file'.disk,
           marker' \in Markers, marker' # "absent" => marker # "absent",
           acked' = acked, used' = used, twice' = twice,
           up' \in BOOLEAN, up' => file'.cache.format = "v2"
    PROVE  FilesHold'
<1>1. Sound(acked, used, marker) \subseteq Sound(acked', used', marker')
  BY MarkerKeepsSound
<1>2. file' \in FileType(Sound(acked', used', marker'))
  BY <1>1, Widens
<1> QED
  BY <1>2 DEF FilesHold, Markers

(* Every contents that may be left is as new as a browser was told. *)
LEMMA NewContentsHold ==
    ASSUME FilesHold, NEW S \in SUBSET Shape, file' \in FileType(S), file'.cache = file'.disk,
           \A c \in S : c.format = "v2" /\ acked' <= c.rev /\ Unspent(c, used'),
           marker' \in Markers, acked' \in Nat, twice' = FALSE, up' \in BOOLEAN,
           used' \subseteq Nat \X Codes, \A u \in used' : u[1] <= acked'
    PROVE  FilesHold'
<1>1. S \subseteq Sound(acked', used', marker')
  BY DEF Sound, Recent, Servable
<1>2. file' \in FileType(Sound(acked', used', marker'))
  BY <1>1, Widens
<1>3. file'.cache \in S
  BY DEF FileType
<1> QED
  BY <1>2, <1>3 DEF FilesHold, Markers

(* One write of sound contents by the running server, told of or not. *)
LEMMA OneWriteHolds ==
    ASSUME FilesHold, up, up' = up, NEW new \in Sound(acked, used, marker), new.format = "v2",
           NEW w \in Commits(file, new), Saving(w),
           acked' \in IF w.done THEN {acked, new.rev} ELSE {acked},
           used' = used, twice' = twice
    PROVE  FilesHold'
<1>1. marker' \in Markers /\ (marker' # "absent" => marker # "absent") /\ up' \in BOOLEAN
  BY SavingKeepsMarker DEF Markers, FilesHold
<1>2. file' = w.file
  BY DEF Saving
<1>3. file \in FileType(Sound(acked, used, marker)) /\ file.cache = file.disk
      /\ file.cache.format = "v2"
  BY DEF FilesHold
<1>4. CASE w.done
  <2>1. file' \in FileType({new}) /\ file'.cache = file'.disk
    BY <1>2, <1>3, <1>4, DoneIsAll
  <2>2. new \in Shape /\ acked <= new.rev /\ Unspent(new, used') /\ new.rev \in Nat
    BY DEF Sound, Recent, Shape
  <2>3. acked \in Nat /\ used \subseteq Nat \X Codes /\ twice = FALSE
        /\ \A u \in used : u[1] <= acked
    BY DEF FilesHold
  <2>4. acked' \in Nat /\ acked' <= new.rev /\ acked <= acked'
    BY <1>4, <2>2, <2>3
  <2>5. ASSUME NEW u \in used' PROVE u[1] <= acked'
    <3>1. u[1] \in Nat /\ u[1] <= acked
      BY <2>3
    <3> QED
      BY <2>3, <2>4, <3>1
  <2>6. used' \subseteq Nat \X Codes /\ twice' = FALSE
    BY <2>3
  <2>7. {new} \in SUBSET Shape
        /\ \A c \in {new} : c.format = "v2" /\ acked' <= c.rev /\ Unspent(c, used')
    BY <2>2, <2>4
  <2> QED
    BY <1>1, <2>1, <2>4, <2>5, <2>6, <2>7, NewContentsHold
<1>5. CASE ~w.done
  <2> DEFINE S == Sound(acked, used, marker)
  <2>3. file \in FileType(S) /\ new \in S
    BY <1>3
  <2> HIDE DEF S
  <2>5. file.cache = file.disk
    BY <1>3
  <2>4. w.file \in FileType(S) /\ w.file.cache = w.file.disk /\ w.file.cache \in {file.cache, new}
    BY <2>3, <2>5, CommitStays
  <2>1. /\ file' \in FileType(Sound(acked, used, marker)) /\ file'.cache = file'.disk
        /\ file'.cache \in {file.cache, new}
    BY <1>2, <2>4 DEF S
  <2>2. file'.cache.format = "v2"
    BY <1>3, <2>1
  <2> QED
    BY <1>1, <1>5, <2>1, <2>2, SoundContentsStay
<1> QED
  BY <1>4, <1>5

(* A recovery code is struck off and accepted: whatever write follows at
   once, the file holds the struck record or that of a later revision. *)
LEMMA SpendingHolds ==
    ASSUME FilesHold, up, up' = up, getOwner # NoOwner, NEW code \in getOwner.codes,
           Spends(code), NEW S \in SUBSET Shape,
           \A c \in S : c.format = "v2" /\ acked' <= c.rev
                        /\ Unspent(c, used \cup {<<getOwner.mfa, code>>}),
           acked' \in Nat, NextRev <= acked',
           file' \in FileType(S), file'.cache = file'.disk, marker' \in Markers
    PROVE  FilesHold'
<1> DEFINE pair == <<getOwner.mfa, code>>
           spent == used \cup {pair}
<1>1. pair \notin used /\ spent \subseteq Nat \X Codes /\ \A u \in spent : u[1] <= NextRev
  BY StrikingIsSound
<1>2. used' = spent /\ twice' = FALSE
  BY <1>1 DEF Spends, FilesHold
<1>3. ASSUME NEW u \in used' PROVE u[1] <= acked'
  <2>1. u[1] \in Nat /\ u[1] <= NextRev
    BY <1>1, <1>2
  <2> QED
    BY <2>1, OwnerOf
<1>4. up' \in BOOLEAN
  BY DEF FilesHold
<1> HIDE DEF pair, spent
<1> QED
  BY <1>1, <1>2, <1>3, <1>4, NewContentsHold DEF spent, pair
-----------------------------------------------------------------------------
(* FilesHold, action by action. *)

LEMMA BootFiles == ASSUME FilesHold, Boot PROVE FilesHold'
<1> DEFINE S == Sound(acked, used, marker)
<1>1. /\ file \in FileType(S) /\ file.disk \in S /\ file.disk \in Shape /\ file.disk.rev \in Nat
      /\ acked \in Nat /\ marker \in Markers
      /\ acked' = acked /\ used' = used /\ twice' = twice /\ twice = FALSE
      /\ used \subseteq Nat \X Codes /\ \A u \in used : u[1] <= acked
  BY DEF FilesHold, FileType, Sound, Shape, Boot, History, Markers
<1> DEFINE f == Reloaded(file, file.disk)
<1>2. /\ f \in FileType(S) /\ f.cache = file.disk /\ f.disk = file.disk /\ f.poisoned = FALSE
  <2> HIDE DEF S
  <2> QED
    BY <1>1, ReloadStays
<1>3. Recent(file.disk, acked) /\ Unspent(file.disk, used) /\ Servable(file.disk, marker)
  BY <1>1 DEF Sound
<1>4. CASE CreateState
  <2>1. newState \in S /\ newState.format = "v2"
    <3>1. acked = 0
      BY <1>1, <1>3, <1>4 DEF CreateState, Recent
    <3> QED
      BY <3>1 DEF newState, Sound, Shape, Recent, Unspent, Servable
  <2>2. PICK w \in Writes(f, newState) :
             Saving(w) /\ (IF w.done THEN Started(newState) ELSE Refused)
    BY <1>4 DEF CreateState
  <2>3. marker' \in Markers /\ (marker' # "absent" => marker # "absent") /\ file' = w.file
    BY <2>2, SavingKeepsMarker DEF Markers, Saving
  <2>4. w \in Commits(f, newState) /\ w.done \in BOOLEAN
    BY <1>2, WritesAreCommits, CommitEnds
  <2>5. up' = w.done
    BY <2>2, <2>4 DEF Started, Refused
  <2> HIDE DEF S, f
  <2>6. w.file \in FileType(S) /\ w.file.cache = w.file.disk
    BY <1>2, <2>1, <2>4, CommitStays
  <2>7. w.done => w.file.cache = newState
    BY <1>2, <2>4, CommitShows
  <2> QED
    BY <1>1, <2>1, <2>3, <2>4, <2>5, <2>6, <2>7, SoundContentsStay DEF S
<1>5. CASE Migrate
  <2> DEFINE new == migrate(file.disk)
  <2>1. /\ new \in S /\ new.format = "v2" /\ new \in Shape /\ new.rev = file.disk.rev
        /\ Unspent(new, used)
    <3>1. new.format = "v2" /\ new.rev = file.disk.rev /\ new.owner = file.disk.owner /\ new \in Shape
      BY <1>1 DEF migrate, Shape
    <3>2. Recent(new, acked) /\ Unspent(new, used) /\ Servable(new, marker)
      BY <1>3, <3>1 DEF Recent, Unspent, Servable
    <3> QED
      BY <3>1, <3>2 DEF Sound
  <2> HIDE DEF new
  <2>2. PICK w \in Writes(f, new), r \in recordV1MigrationConsumed(marker) :
          /\ file' = w.file /\ marker' = MarkerAfter(w.done, r)
          /\ IF w.done THEN Started(new) ELSE Refused
    BY <1>5 DEF Migrate, new
  <2>3. w \in Commits(f, new) /\ w.done \in BOOLEAN
    BY <1>2, WritesAreCommits, CommitEnds
  <2>4. up' = w.done
    BY <2>2, <2>3 DEF Started, Refused
  <2>5. r.marker \in Markers
    BY <1>1 DEF recordV1MigrationConsumed, Markers
  <2>6. marker' \in Markers /\ (~w.done => marker' = marker)
    BY <1>1, <2>2, <2>5 DEF MarkerAfter
  <2> HIDE DEF S, f
  <2>7. w.file \in FileType(S) /\ w.file.cache = w.file.disk
    BY <1>2, <2>1, <2>3, CommitStays
  <2>8. CASE w.done
    <3>1. w.file \in FileType({new})
      BY <1>2, <2>3, <2>8, DoneIsAll
    <3>2. acked' <= new.rev /\ Unspent(new, used')
      BY <1>1, <1>3, <2>1 DEF Recent
    <3>3. {new} \in SUBSET Shape
          /\ \A c \in {new} : c.format = "v2" /\ acked' <= c.rev /\ Unspent(c, used')
      BY <2>1, <3>2
    <3>4. \A u \in used' : u[1] <= acked'
      BY <1>1
    <3> QED
      BY <1>1, <2>2, <2>3, <2>4, <2>6, <2>7, <3>1, <3>3, <3>4, NewContentsHold
  <2>9. CASE ~w.done
    BY <1>1, <2>2, <2>3, <2>4, <2>6, <2>7, <2>9, SoundContentsStay DEF S
  <2> QED
    BY <2>8, <2>9
<1>6. CASE LoadState
  <2>1. /\ file' = f /\ marker' = marker /\ up' = TRUE /\ f.cache.format = "v2"
    BY <1>2, <1>6 DEF LoadState, Started
  <2> HIDE DEF f
  <2> QED
    BY <1>1, <1>2, <2>1, SoundContentsStay
<1> QED
  BY <1>4, <1>5, <1>6 DEF Boot

LEMMA StopFiles ==
    ASSUME FilesHold, Memory, marker' \in Markers, marker' # "absent" => marker # "absent",
           file' \in FileType(Sound(acked, used, marker)), file'.cache = file'.disk
    PROVE  FilesHold'
  BY SoundContentsStay DEF Memory

LEMMA PowerCutFiles == ASSUME FilesHold, PowerCut PROVE FilesHold'
<1> DEFINE S == Sound(acked, used, marker)
<1>1. file \in FileType(S) /\ marker \in Markers
  BY DEF FilesHold, Markers
<1>2. marker' \in Markers /\ (marker' # "absent" => marker # "absent") /\ Memory
      /\ file' \in AfterCut(file)
  BY <1>1 DEF PowerCut, Markers
<1> HIDE DEF S
<1>3. \A g \in AfterCut(file) : g \in FileType(S) /\ g.cache = g.disk
  BY <1>1, ReloadStays
<1> QED
  BY <1>2, <1>3, StopFiles DEF S

LEMMA RestoreFiles == ASSUME FilesHold, RestoreV1 PROVE FilesHold'
<1> DEFINE S == Sound(acked, used, marker)
           old == LegacyV1(file.disk.rev + 1)
<1>1. /\ file.disk \in S /\ file.disk.rev \in Nat /\ acked <= file.disk.rev /\ acked \in Nat
      /\ marker \in Markers /\ up \in BOOLEAN
  BY DEF FilesHold, FileType, Sound, Shape, Recent, Markers
<1>2. /\ old.format = "v1" /\ old.rev = file.disk.rev + 1
      /\ old.owner = [pw |-> file.disk.rev + 1, mfa |-> 0, codes |-> {}]
  BY DEF LegacyV1
<1>3. old \in Shape /\ Recent(old, acked) /\ Servable(old, marker)
  BY <1>1 DEF LegacyV1, Shape, Records, Recent, Servable
<1>4. Unspent(old, used)
  BY <1>1, <1>2 DEF Unspent
<1>5. old \in S
  BY <1>3, <1>4 DEF Sound
<1> HIDE DEF old, S
<1>6. FileOf(old) \in FileType(S) /\ FileOf(old).cache = FileOf(old).disk
  BY <1>5 DEF FileOf, FileType
<1>7. /\ file' = FileOf(old) /\ marker' = marker /\ up' = up /\ up = FALSE
      /\ acked' = acked /\ used' = used /\ twice' = twice
  BY <1>1 DEF RestoreV1, old, History
<1> QED
  BY <1>1, <1>6, <1>7, SoundContentsStay DEF S

LEMMA SetUpFiles == ASSUME FilesHold, NEW b, SetUp(b) PROVE FilesHold'
<1>1. up /\ getOwner = NoOwner /\ up' = up /\ used' = used /\ twice' = twice
  BY DEF SetUp, Usable
<1> DEFINE new == setOwner(passwordRecord(NoOwner))
<1>2. new \in Sound(acked, used, marker)
  BY <1>1, ChangesAreSound
<1>3. new.format = "v2"
  BY <1>1, OwnerOf DEF setOwner, FilesHold, Shape
<1> HIDE DEF new
<1>4. PICK w \in Commits(file, new) :
           Saving(w) /\ acked' = IF w.done THEN w.file.cache.rev ELSE acked
  BY DEF SetUp, new
<1>5. w.done => w.file.cache = new
  BY <1>4, CommitShows DEF FilesHold
<1> QED
  BY <1>1, <1>2, <1>3, <1>4, <1>5, OneWriteHolds

LEMMA ChangedFiles ==
    ASSUME FilesHold, up, up' = up, NEW b, NEW new \in Sound(acked, used, marker),
           new.format = "v2", Changed(b, new)
    PROVE  FilesHold'
<1>1. PICK w \in Commits(file, new) :
           /\ Saving(w) /\ acked' = IF w.done THEN new.rev ELSE acked
           /\ used' = used /\ twice' = twice
  BY DEF Changed
<1> QED
  BY <1>1, OneWriteHolds

LEMMA SignInFiles ==
    ASSUME FilesHold, up, up' = up, NEW b, NEW purpose, NEW opened, SignIn(b, purpose, opened),
           acked' = acked, used' = used, twice' = twice
    PROVE  FilesHold'
<1>1. file.cache \in Sound(acked, used, marker) /\ file.cache.format = "v2"
  BY OwnerOf DEF FilesHold
<1>2. PICK w \in Commits(file, file.cache) : Saving(w)
  BY DEF SignIn
<1> QED
  BY <1>1, <1>2, OneWriteHolds

LEMMA NothingWritten ==
    ASSUME FilesHold, UNCHANGED <<file, marker, up, acked, used, twice>>
    PROVE  FilesHold'
  BY DEF FilesHold

(* A recovery code at the sign-in: struck off, then lastLoginAt. *)
LEMMA GoodRecoveryFiles ==
    ASSUME FilesHold, Owned, up' = up, NEW b, NEW t, NEW code, GoodRecovery(b, t, code)
    PROVE  FilesHold'
<1> DEFINE struck == setOwner(consumeRecovery(getOwner, code))
           spent == used \cup {<<getOwner.mfa, code>>}
<1>1. up /\ getOwner # NoOwner /\ code \in getOwner.codes
  BY DEF Owned, Usable, GoodRecovery
<1>2. /\ struck \in Sound(acked, used, marker) /\ struck \in Shape /\ struck.rev = NextRev
      /\ struck.format = "v2" /\ Unspent(struck, spent)
  BY <1>1, StrikingIsSound
<1>3. NextRev \in Nat
  BY OwnerOf
<1> HIDE DEF struck
<1>4. PICK w \in Commits(file, struck) :
         \/ /\ ~w.done /\ Saving(w) /\ UNCHANGED <<acked, used, twice>>
         \/ /\ w.done /\ \E v \in Commits(w.file, w.file.cache) : Saving(v)
            /\ acked' = struck.rev /\ Spends(code)
  BY DEF GoodRecovery, struck
<1>5. CASE ~w.done
  BY <1>1, <1>2, <1>4, <1>5, OneWriteHolds
<1>6. CASE w.done
  <2>1. w.file \in FileType({struck}) /\ w.file.cache = w.file.disk /\ w.file.cache = struck
    BY <1>6, DoneIsAll DEF FilesHold
  <2>2. PICK v \in Commits(w.file, w.file.cache) : Saving(v)
    BY <1>4, <1>6
  <2>3. v \in Commits(w.file, struck) /\ struck \in {struck}
    BY <2>1
  <2> DEFINE g == w.file
  <2>9. g \in FileType({struck}) /\ g.cache = g.disk /\ v \in Commits(g, struck)
    BY <2>1, <2>3
  <2> HIDE DEF g
  <2>4. v.file \in FileType({struck}) /\ v.file.cache = v.file.disk
    BY <2>3, <2>9, CommitStays
  <2>5. file' = v.file /\ marker' \in Markers
    BY <2>2, SavingKeepsMarker DEF Saving, Markers
  <2>6. acked' = NextRev /\ Spends(code) /\ acked' <= struck.rev
    BY <1>2, <1>3, <1>4, <1>6
  <2>7. {struck} \in SUBSET Shape
        /\ \A c \in {struck} : c.format = "v2" /\ acked' <= c.rev /\ Unspent(c, spent)
    BY <1>2, <2>6
  <2> HIDE DEF spent
  <2>8. NextRev <= acked' /\ acked' \in Nat
    BY <1>3, <2>6
  <2> QED
    BY <1>1, <2>4, <2>5, <2>6, <2>7, <2>8, SpendingHolds DEF spent
<1> QED
  BY <1>5, <1>6

LEMMA CompleteMfaFiles == ASSUME FilesHold, NEW b, CompleteMfa(b) PROVE FilesHold'
<1>1. up' = up /\ Owned /\ up
  BY DEF CompleteMfa, Owned, Usable
<1>2. \/ UNCHANGED <<file, marker, acked, used, twice>>
      \/ \E t \in tickets : GoodTotp(b, t)
      \/ \E t \in tickets, code \in Codes : GoodRecovery(b, t, code)
  BY DEF CompleteMfa, Turned, WrongCode
<1>3. ASSUME NEW t, GoodTotp(b, t) PROVE FilesHold'
  BY <1>1, <1>3, SignInFiles DEF GoodTotp
<1> QED
  BY <1>1, <1>2, <1>3, GoodRecoveryFiles, NothingWritten

LEMMA LoginFiles == ASSUME FilesHold, NEW b, Login(b) PROVE FilesHold'
<1>1. up' = up /\ up /\ UNCHANGED <<acked, used, twice>>
  BY DEF Login, Owned, Usable
<1>2. \/ UNCHANGED <<file, marker>>
      \/ SignIn(b, "login", CurrentSession(b, getOwner))
  BY DEF Login, Turned
<1> QED
  BY <1>1, <1>2, SignInFiles, NothingWritten

LEMMA OwnedFormat ==
    ASSUME FilesHold, up, NEW owner
    PROVE  setOwner(owner).format = "v2" /\ setOwner(owner).owner = owner
           /\ setOwner(owner).rev = NextRev
  BY OwnerOf DEF setOwner, FilesHold, Shape

LEMMA ChangePasswordFiles == ASSUME FilesHold, NEW b, ChangePassword(b) PROVE FilesHold'
<1>1. up' = up /\ up /\ Changed(b, setOwner(passwordRecord(getOwner)))
  BY DEF ChangePassword, Owned, Usable
<1> QED
  BY <1>1, ChangesAreSound, OwnedFormat, ChangedFiles

LEMMA EnableMfaFiles == ASSUME FilesHold, NEW b, EnableMfa(b) PROVE FilesHold'
<1>1. up' = up /\ up /\ Changed(b, setOwner(WithMfa(getOwner))) /\ getOwner # NoOwner
  BY DEF EnableMfa, Owned, Usable
<1> QED
  BY <1>1, ChangesAreSound, OwnedFormat, ChangedFiles

(* Contents c, once the second factor is removed too. *)
Removed(c) == [c EXCEPT !.rev = @ + 1, !.owner = WithoutMfa(@)]

LEMMA RemovedContents ==
    ASSUME NEW c \in Shape, c.owner \in Records
    PROVE  /\ Removed(c) \in Shape /\ Removed(c).format = c.format
           /\ Removed(c).rev = c.rev + 1 /\ Removed(c).owner = WithoutMfa(c.owner)
<1>1. WithoutMfa(c.owner) \in Records
  BY RecordsOf
<1> DEFINE n == c.rev + 1  o == WithoutMfa(c.owner)
<1>2. Removed(c) = [c EXCEPT !.rev = n, !.owner = o]
  BY DEF Removed
<1>3. n \in Nat /\ o \in Records
  BY <1>1 DEF Shape
<1> HIDE DEF n, o
<1>4. /\ Removed(c) \in Shape /\ Removed(c).format = c.format
      /\ Removed(c).rev = n /\ Removed(c).owner = o
  BY <1>2, <1>3 DEF Shape
<1> QED
  BY <1>4 DEF n, o

(* With a recovery code two revisions are written, and either may be left. *)
LEMMA DisableMfaFiles == ASSUME FilesHold, NEW b, DisableMfa(b) PROVE FilesHold'
<1>1. up' = up /\ up /\ getOwner # NoOwner
  BY DEF DisableMfa, Owned, Usable
<1>2. CASE Changed(b, setOwner(WithoutMfa(getOwner)))
  BY <1>1, <1>2, ChangesAreSound, OwnedFormat, ChangedFiles
<1>3. ASSUME NEW code \in getOwner.codes,
             LET struck == setOwner(consumeRecovery(getOwner, code))
                 off == Removed(struck) IN
             \E w \in Commits(file, struck) :
                 \/ ~w.done /\ Saving(w) /\ UNCHANGED <<acked, used, twice>>
                 \/ /\ w.done /\ Spends(code)
                    /\ \E v \in Commits(w.file, off) :
                         Saving(v) /\ acked' = IF v.done THEN off.rev ELSE struck.rev
      PROVE  FilesHold'
  <2> DEFINE struck == setOwner(consumeRecovery(getOwner, code))
             off == Removed(struck)
             spent == used \cup {<<getOwner.mfa, code>>}
  <2>1. /\ struck \in Sound(acked, used, marker) /\ struck \in Shape /\ struck.rev = NextRev
        /\ struck.format = "v2" /\ Unspent(struck, spent) /\ struck.owner \in Records
    BY <1>1, StrikingIsSound
  <2>2. NextRev \in Nat
    BY OwnerOf
  <2>3. /\ off \in Shape /\ off.format = "v2" /\ off.rev = NextRev + 1
        /\ off.owner = WithoutMfa(struck.owner)
    <3> HIDE DEF struck
    <3> QED
      BY <2>1, RemovedContents
  <2>4. WithoutMfa(struck.owner).mfa = 0 /\ WithoutMfa(struck.owner).codes = {}
    BY <2>1, RecordsOf
  <2>5. Unspent(off, spent)
    BY <2>2, <2>3, <2>4 DEF Unspent
  <2> HIDE DEF off
  <2>6. PICK w \in Commits(file, struck) :
           \/ ~w.done /\ Saving(w) /\ UNCHANGED <<acked, used, twice>>
           \/ /\ w.done /\ Spends(code)
              /\ \E v \in Commits(w.file, off) :
                   Saving(v) /\ acked' = IF v.done THEN off.rev ELSE struck.rev
    BY <1>3 DEF off
  <2> HIDE DEF struck
  <2>7. CASE ~w.done
    BY <1>1, <2>1, <2>6, <2>7, OneWriteHolds
  <2>8. CASE w.done
    <3>1. w.file \in FileType({struck}) /\ w.file.cache = w.file.disk /\ w.file.cache = struck
      BY <2>8, DoneIsAll DEF FilesHold
    <3>2. PICK v \in Commits(w.file, off) :
               Saving(v) /\ acked' = IF v.done THEN off.rev ELSE struck.rev
      BY <2>6, <2>8
    <3>3. file' = v.file /\ marker' \in Markers /\ v.done \in BOOLEAN
      BY <3>2, SavingKeepsMarker, CommitEnds DEF Saving, Markers
    <3>4. acked' \in Nat /\ NextRev <= acked' /\ Spends(code)
      BY <2>1, <2>2, <2>3, <2>6, <2>8, <3>2
    <3> HIDE DEF spent
    <3>5. CASE v.done
      <4>1. v.file \in FileType({off}) /\ v.file.cache = v.file.disk
        BY <3>1, <3>5, DoneIsAll
      <4>2. acked' <= off.rev
        BY <2>2, <2>3, <3>2, <3>5
      <4>3. {off} \in SUBSET Shape
            /\ \A c \in {off} : c.format = "v2" /\ acked' <= c.rev /\ Unspent(c, spent)
        BY <2>3, <2>5, <4>2
      <4> QED
        BY <1>1, <3>3, <3>4, <4>1, <4>3, SpendingHolds DEF spent
    <3>6. CASE ~v.done
      <4> DEFINE S == {struck, off}
             g == w.file
      <4>1. g \in FileType(S) /\ g.cache = g.disk /\ v \in Commits(g, off) /\ off \in S
        BY <3>1, Widens
      <4>2. S \in SUBSET Shape
            /\ \A c \in S : c.format = "v2" /\ acked' <= c.rev /\ Unspent(c, spent)
        <5>1. acked' <= struck.rev /\ acked' <= off.rev
          BY <2>1, <2>2, <2>3, <3>2, <3>6
        <5> QED
          BY <2>1, <2>3, <2>5, <5>1
      <4> HIDE DEF S, g
      <4>3. v.file \in FileType(S) /\ v.file.cache = v.file.disk
        BY <4>1, CommitStays
      <4> QED
        BY <1>1, <3>3, <3>4, <4>2, <4>3, SpendingHolds DEF spent
    <3> QED
      BY <3>3, <3>5, <3>6
  <2> QED
    BY <2>7, <2>8
<1> QED
  BY <1>2, <1>3 DEF DisableMfa, Removed

(* The password and a code asked for again. *)
LEMMA StepUpFiles == ASSUME FilesHold, NEW b, verifyOwnerStepUp(b) PROVE FilesHold'
<1>1. up' = up /\ up /\ getOwner # NoOwner
  BY DEF verifyOwnerStepUp, Owned, Usable
<1>2. CASE UNCHANGED <<file, marker, acked, used, twice>>
  BY <1>1, <1>2, NothingWritten
<1>3. ASSUME NEW code \in getOwner.codes,
             NEW w \in Commits(file, setOwner(consumeRecovery(getOwner, code))), Saving(w),
             IF w.done THEN acked' = w.file.cache.rev /\ Spends(code)
                       ELSE UNCHANGED <<acked, used, twice>>
      PROVE  FilesHold'
  <2> DEFINE struck == setOwner(consumeRecovery(getOwner, code))
             spent == used \cup {<<getOwner.mfa, code>>}
  <2>1. /\ struck \in Sound(acked, used, marker) /\ struck \in Shape /\ struck.rev = NextRev
        /\ struck.format = "v2" /\ Unspent(struck, spent)
    BY <1>1, StrikingIsSound
  <2>2. NextRev \in Nat /\ w \in Commits(file, struck)
    BY <1>3, OwnerOf
  <2> HIDE DEF struck
  <2>3. CASE ~w.done
    BY <1>1, <1>3, <2>1, <2>2, <2>3, OneWriteHolds
  <2>4. CASE w.done
    <3>1. w.file \in FileType({struck}) /\ w.file.cache = w.file.disk /\ w.file.cache = struck
      BY <2>2, <2>4, DoneIsAll DEF FilesHold
    <3>2. file' = w.file /\ marker' \in Markers
      BY <1>3, SavingKeepsMarker DEF Saving, Markers
    <3>3. acked' \in Nat /\ NextRev <= acked' /\ Spends(code) /\ acked' <= struck.rev
      BY <1>3, <2>1, <2>2, <2>4, <3>1
    <3>4. {struck} \in SUBSET Shape
          /\ \A c \in {struck} : c.format = "v2" /\ acked' <= c.rev /\ Unspent(c, spent)
      BY <2>1, <3>3
    <3> HIDE DEF spent
    <3> QED
      BY <1>1, <3>1, <3>2, <3>3, <3>4, SpendingHolds DEF spent
  <2> QED
    BY <2>3, <2>4
<1> QED
  BY <1>2, <1>3 DEF verifyOwnerStepUp

LEMMA FilesStep == ASSUME FilesHold, [Next]_vars PROVE FilesHold'
<1>1. CASE UNCHANGED vars
  BY <1>1, NothingWritten DEF vars
<1>2. CASE Boot
  BY <1>2, BootFiles
<1>3. CASE Expire
  BY <1>3, NothingWritten DEF Expire
<1>4. CASE End
  <2>1. Memory /\ UNCHANGED <<file, marker>> /\ marker \in Markers
        /\ file \in FileType(Sound(acked, used, marker)) /\ file.cache = file.disk
    BY <1>4 DEF End, FilesHold, Markers
  <2> QED
    BY <2>1, StopFiles
<1>5. CASE PowerCut
  BY <1>5, PowerCutFiles
<1>6. CASE RestoreV1
  BY <1>6, RestoreFiles
<1>7. ASSUME NEW b \in Browsers,
             \/ SetUp(b) \/ OpenForm(b) \/ Login(b) \/ CompleteMfa(b)
             \/ ChangePassword(b) \/ EnableMfa(b) \/ DisableMfa(b) \/ Logout(b)
             \/ AskForMode(b) \/ verifyOwnerStepUp(b)
      PROVE  FilesHold'
  <2>1. CASE OpenForm(b) \/ Logout(b) \/ AskForMode(b)
    BY <2>1, NothingWritten DEF OpenForm, Logout, AskForMode, History
  <2> QED
    BY <1>7, <2>1, SetUpFiles, LoginFiles, CompleteMfaFiles, ChangePasswordFiles,
       EnableMfaFiles, DisableMfaFiles, StepUpFiles
<1> QED
  BY <1>1, <1>2, <1>3, <1>4, <1>5, <1>6, <1>7 DEF Next
-----------------------------------------------------------------------------
(* SignedHold, action by action. *)

LEMMA NobodyFollows == ASSUME sessions' = {}, tickets' = {} PROVE SignedHold'
  BY DEF SignedHold, Follow

(* No browser gains by a step that leaves the file alone. *)
LEMMA SomeSignOut ==
    ASSUME SignedHold, file' = file, up' = up, sessions' \subseteq sessions, tickets' \subseteq tickets
    PROVE  SignedHold'
  BY DEF SignedHold, Follow, Usable, getOwner

(* File f stopped, or has an owner with the password and second factor of
   the one in memory. *)
SameCredentials(f) ==
    \/ f.poisoned = TRUE
    \/ /\ f.cache.owner # NoOwner
       /\ f.cache.owner.pw = getOwner.pw /\ f.cache.owner.mfa = getOwner.mfa

(* Sessions and tickets of the credentials in force may be added, and a write
   that did not fail may change the rest of the owner's record. *)
LEMMA SomeSignIn ==
    ASSUME SignedHold, Owned, up' = up,
           \A s \in sessions' : s \in sessions \/ (s.pw = getOwner.pw /\ s.mfa = getOwner.mfa),
           \A t \in tickets' : \/ \E old \in tickets : t.pw = old.pw
                               \/ t.pw = getOwner.pw /\ mfaEnabled,
           SameCredentials(file')
    PROVE  SignedHold'
<1>1. up /\ up' /\ getOwner # NoOwner /\ Follow(getOwner, sessions, tickets)
  BY DEF SignedHold, Owned, Usable
<1>2. CASE file'.poisoned = TRUE
  BY <1>1, <1>2 DEF SignedHold, Usable
<1>3. CASE /\ getOwner' # NoOwner
           /\ getOwner'.pw = getOwner.pw /\ getOwner'.mfa = getOwner.mfa
  <2>1. \A s \in sessions' : s.pw = getOwner'.pw /\ s.mfa = getOwner'.mfa
    BY <1>1, <1>3 DEF Follow
  <2>2. \A t \in tickets' : t.pw = getOwner'.pw /\ getOwner'.mfa > 0
    BY <1>1, <1>3 DEF Follow, mfaEnabled
  <2>3. Follow(getOwner', sessions', tickets')
    BY <1>3, <2>1, <2>2 DEF Follow
  <2> QED
    BY <1>1, <2>3 DEF SignedHold, getOwner
<1> QED
  BY <1>2, <1>3 DEF SameCredentials, getOwner

(* The tickets an attempt leaves are old ones, one try older at most. *)
LEMMA TriedIsOld == ASSUME NEW t PROVE Tried(t).pw = t.pw
  BY DEF Tried

(* Every session is dropped when the credentials change, and only then. *)
LEMMA ChangedSigned ==
    ASSUME FilesHold, SignedHold, Owned, up' = up, NEW b, NEW new, new.owner \in Records,
           Changed(b, new)
    PROVE  SignedHold'
<1>1. /\ up /\ file.poisoned = FALSE /\ file \in FileType(Sound(acked, used, marker))
      /\ new.owner # NoOwner
  BY OwnerAuthAssumption DEF Owned, Usable, FilesHold, FileType, Records
<1> DEFINE s == CurrentSession(b, new.owner)
<1>2. PICK w \in Commits(file, new) :
         /\ Saving(w)
         /\ sessions' = IF w.done THEN {s} ELSE sessions
         /\ tickets' = IF w.done THEN {} ELSE tickets
  BY DEF Changed, revokeAuthenticationState
<1>6. /\ w.done => w.file.cache = new /\ w.file.poisoned = file.poisoned
      /\ ~w.done => w.file = file \/ w.file.poisoned = TRUE
  <2>1. PICK S : file \in FileType(S)
    BY <1>1
  <2> QED
    BY <2>1, CommitShows
<1>3. /\ w.done => file'.cache = new
      /\ ~w.done => file' = file \/ file'.poisoned = TRUE
  BY <1>2, <1>6 DEF Saving
<1>4. CASE w.done
  <2>1. s.pw = new.owner.pw /\ s.mfa = new.owner.mfa
    BY DEF CurrentSession, Session
  <2> HIDE DEF s
  <2>2. Follow(getOwner', sessions', tickets')
    BY <1>1, <1>2, <1>3, <1>4, <2>1 DEF Follow, getOwner
  <2> QED
    BY <1>1, <2>2 DEF SignedHold, getOwner
<1>5. CASE ~w.done
  <2>1. sessions' = sessions /\ tickets' = tickets
    BY <1>2, <1>5
  <2>2. CASE file' = file
    BY <2>1, <2>2, SomeSignOut
  <2>3. CASE file'.poisoned = TRUE
    BY <1>1, <2>1, <2>3 DEF SignedHold, Usable
  <2> QED
    BY <1>3, <1>5, <2>2, <2>3
<1> QED
  BY <1>4, <1>5

LEMMA SetUpSigned == ASSUME FilesHold, SignedHold, NEW b, SetUp(b) PROVE SignedHold'
<1>1. /\ up /\ up' = up /\ file.poisoned = FALSE /\ getOwner = NoOwner
      /\ file \in FileType(Sound(acked, used, marker))
      /\ tickets' = tickets /\ sessions = {} /\ tickets = {}
  BY DEF SetUp, Usable, SignedHold, FilesHold, FileType, Follow
<1> DEFINE o == passwordRecord(NoOwner)  new == setOwner(o)
<1>2. new.owner = o /\ o # NoOwner
  <2>1. o \in Records
    BY OwnerOf DEF passwordRecord, Records
  <2> HIDE DEF o
  <2> QED
    BY <1>1, <2>1, OwnedFormat, OwnerAuthAssumption DEF Records
<1> HIDE DEF new, o
<1>3. PICK w \in Commits(file, new) :
         /\ Saving(w)
         /\ sessions' = IF w.done THEN sessions \cup {CurrentSession(b, w.file.cache.owner)}
                                  ELSE sessions
  BY DEF SetUp, new, o
<1>4. w.done => file'.cache = new /\ w.file.cache = new
  BY <1>1, <1>3, CommitShows DEF Saving
<1>5. CASE ~w.done
  BY <1>1, <1>3, <1>5, NobodyFollows
<1>6. CASE w.done
  <2>1. sessions' = {CurrentSession(b, o)} /\ tickets' = {} /\ getOwner' = o
    BY <1>1, <1>2, <1>3, <1>4, <1>6 DEF getOwner
  <2>2. CurrentSession(b, o).pw = o.pw /\ CurrentSession(b, o).mfa = o.mfa
    BY DEF CurrentSession, Session
  <2>3. Follow(getOwner', sessions', tickets')
    BY <1>2, <2>1, <2>2 DEF Follow
  <2> QED
    BY <1>1, <2>3 DEF SignedHold, getOwner
<1> QED
  BY <1>5, <1>6

(* What a sign-in leaves of the file: the same contents, or a stopped one. *)
LEMMA SignInSigned ==
    ASSUME FilesHold, SignedHold, Owned, up' = up, NEW b, NEW purpose, NEW opened,
           opened.pw = getOwner.pw, opened.mfa = getOwner.mfa,
           SignIn(b, purpose, opened), tickets' \subseteq tickets
    PROVE  SignedHold'
<1>1. PICK w \in Commits(file, file.cache) :
         Saving(w) /\ sessions' = IF w.done THEN sessions \cup {opened} ELSE sessions
  BY DEF SignIn
<1>2. getOwner # NoOwner /\ file \in FileType(Sound(acked, used, marker))
  BY DEF Owned, FilesHold
<1>6. /\ w.done => w.file.cache = file.cache /\ w.file.poisoned = file.poisoned
      /\ ~w.done => w.file = file \/ w.file.poisoned = TRUE
  BY <1>2, CommitShows
<1>7. w.done \in BOOLEAN
  BY CommitEnds
<1>3. file'.poisoned = TRUE \/ file'.cache = file.cache
  BY <1>1, <1>6, <1>7 DEF Saving
<1>4. \A s \in sessions' : s \in sessions \/ (s.pw = getOwner.pw /\ s.mfa = getOwner.mfa)
  BY <1>1
<1>5. SameCredentials(file')
  BY <1>2, <1>3 DEF SameCredentials, getOwner
<1> QED
  BY <1>4, <1>5, SomeSignIn

LEMMA LoginSigned == ASSUME FilesHold, SignedHold, NEW b, Login(b) PROVE SignedHold'
<1>1. Owned /\ up' = up /\ getOwner # NoOwner
  BY DEF Login, Owned
<1>2. CASE UNCHANGED <<file, sessions, tickets>>
  BY <1>1, <1>2, SomeSignOut
<1>3. CASE /\ mfaEnabled /\ UNCHANGED <<file, sessions>>
           /\ tickets' = tickets \cup {[browser |-> b, pw |-> getOwner.pw, tries |-> 0]}
  <2>1. \A t \in tickets' : \/ \E old \in tickets : t.pw = old.pw
                            \/ t.pw = getOwner.pw /\ mfaEnabled
    BY <1>3
  <2>2. SameCredentials(file')
    BY <1>1, <1>3 DEF SameCredentials, getOwner
  <2> QED
    BY <1>1, <1>3, <2>1, <2>2, SomeSignIn
<1>4. CASE SignIn(b, "login", CurrentSession(b, getOwner)) /\ UNCHANGED tickets
  <2>1. /\ CurrentSession(b, getOwner).pw = getOwner.pw
        /\ CurrentSession(b, getOwner).mfa = getOwner.mfa
    BY DEF CurrentSession, Session
  <2> QED
    BY <1>1, <1>4, <2>1, SignInSigned
<1> QED
  BY <1>2, <1>3, <1>4 DEF Login, Turned

(* Striking a code off leaves the password and the second factor, in the
   first write and in whatever is written of the same owner after it. *)
LEMMA StruckSigned ==
    ASSUME FilesHold, Owned, NEW code \in getOwner.codes,
           NEW w \in Commits(file, setOwner(consumeRecovery(getOwner, code)))
    PROVE  /\ SameCredentials(w.file) /\ w.done \in BOOLEAN
           /\ w.done => \A v \in Commits(w.file, w.file.cache) : SameCredentials(v.file)
<1> DEFINE struck == setOwner(consumeRecovery(getOwner, code))
<1>1. up /\ getOwner # NoOwner /\ file \in FileType(Sound(acked, used, marker))
  BY DEF Owned, Usable, FilesHold
<1>2. /\ struck.owner # NoOwner /\ struck.owner.pw = getOwner.pw
      /\ struck.owner.mfa = getOwner.mfa
  BY <1>1, StrikingIsSound, OwnerAuthAssumption DEF Records
<1>3. w \in Commits(file, struck) /\ w.done \in BOOLEAN
  BY CommitEnds
<1> HIDE DEF struck
<1>4. /\ w.done => w.file.cache = struck
      /\ ~w.done => w.file = file \/ w.file.poisoned = TRUE
  BY <1>1, <1>3, CommitShows
<1>5. SameCredentials(w.file)
  <2>1. SameCredentials(file)
    BY <1>1 DEF SameCredentials, getOwner
  <2> QED
    BY <1>2, <1>3, <1>4, <2>1 DEF SameCredentials
<1>6. ASSUME w.done, NEW v \in Commits(w.file, w.file.cache) PROVE SameCredentials(v.file)
  <2> DEFINE g == w.file
  <2>1. g \in FileType({struck}) /\ g.cache = struck /\ v \in Commits(g, g.cache)
    BY <1>1, <1>3, <1>6, DoneIsAll
  <2> HIDE DEF g
  <2>2. v.done \in BOOLEAN
    BY <2>1, CommitEnds
  <2>3. /\ v.done => v.file.cache = g.cache /\ v.file.poisoned = g.poisoned
        /\ ~v.done => v.file = g \/ v.file.poisoned = TRUE
    BY <2>1, CommitShows
  <2>4. v.file.poisoned = TRUE \/ v.file.cache = struck
    BY <2>1, <2>2, <2>3
  <2> QED
    BY <1>2, <2>4 DEF SameCredentials
<1> QED
  BY <1>3, <1>5, <1>6

LEMMA CompleteMfaSigned == ASSUME FilesHold, SignedHold, NEW b, CompleteMfa(b) PROVE SignedHold'
<1>1. Owned /\ up' = up /\ up /\ getOwner # NoOwner /\ Follow(getOwner, sessions, tickets)
  BY DEF CompleteMfa, Owned, Usable, SignedHold
<1>2. CASE file' = file /\ sessions' = sessions /\ tickets' \subseteq tickets
  BY <1>1, <1>2, SomeSignOut
<1>3. ASSUME NEW t \in tickets, NEW h, WrongCode(b, t, h) PROVE SignedHold'
  <2>1. /\ file' = file /\ sessions' = sessions
        /\ tickets' \subseteq tickets \cup {Tried(t)}
    BY <1>3 DEF WrongCode, Turned
  <2>2. \A u \in tickets' : \/ \E old \in tickets : u.pw = old.pw
                            \/ u.pw = getOwner.pw /\ mfaEnabled
    BY <2>1, TriedIsOld
  <2>3. SameCredentials(file')
    BY <1>1, <2>1 DEF SameCredentials, getOwner
  <2> QED
    BY <1>1, <2>1, <2>2, <2>3, SomeSignIn
<1>4. \A t \in tickets : t.pw = getOwner.pw
  BY <1>1 DEF Follow
<1>5. ASSUME NEW t \in tickets, GoodTotp(b, t) PROVE SignedHold'
  <2> DEFINE opened == Session(b, t.pw, getOwner.mfa)
  <2>1. opened.pw = getOwner.pw /\ opened.mfa = getOwner.mfa
    BY <1>4 DEF Session
  <2>2. SignIn(b, "mfa", opened) /\ tickets' \subseteq tickets
    BY <1>5 DEF GoodTotp
  <2> HIDE DEF opened
  <2> QED
    BY <1>1, <2>1, <2>2, SignInSigned
<1>6. ASSUME NEW t \in tickets, NEW code \in Codes, GoodRecovery(b, t, code) PROVE SignedHold'
  <2> DEFINE opened == Session(b, t.pw, getOwner.mfa)
  <2>1. opened.pw = getOwner.pw /\ opened.mfa = getOwner.mfa
    BY <1>4 DEF Session
  <2>2. PICK w \in Commits(file, setOwner(consumeRecovery(getOwner, code))) :
           \/ /\ ~w.done /\ Saving(w) /\ sessions' = sessions
              /\ tickets' = (tickets \ {t}) \cup {Tried(t)}
           \/ /\ w.done /\ tickets' = tickets \ {t}
              /\ \E v \in Commits(w.file, w.file.cache) :
                   /\ Saving(v)
                   /\ sessions' = IF v.done THEN sessions \cup {opened} ELSE sessions
    BY <1>6 DEF GoodRecovery
  <2>3. code \in getOwner.codes
    BY <1>6 DEF GoodRecovery
  <2> HIDE DEF opened
  <2>4. SameCredentials(file')
    BY <1>1, <2>2, <2>3, StruckSigned DEF Saving
  <2>5. \A u \in tickets' : \/ \E old \in tickets : u.pw = old.pw
                            \/ u.pw = getOwner.pw /\ mfaEnabled
    BY <2>2, TriedIsOld
  <2>6. sessions' \subseteq sessions \cup {opened}
    BY <2>2
  <2>7. \A s \in sessions' : s \in sessions \/ (s.pw = getOwner.pw /\ s.mfa = getOwner.mfa)
    BY <2>1, <2>6
  <2> QED
    BY <1>1, <2>4, <2>5, <2>7, SomeSignIn
<1> QED
  BY <1>2, <1>3, <1>5, <1>6 DEF CompleteMfa, Turned

LEMMA ChangePasswordSigned ==
    ASSUME FilesHold, SignedHold, NEW b, ChangePassword(b) \/ EnableMfa(b) PROVE SignedHold'
<1>1. Owned /\ up' = up /\ up /\ getOwner # NoOwner
  BY DEF ChangePassword, EnableMfa, Owned, Usable
<1>2. getOwner \in Records /\ NextRev \in Nat
  BY <1>1, OwnerOf
<1>3. passwordRecord(getOwner) \in Records /\ WithMfa(getOwner) \in Records
  BY <1>1, <1>2 DEF passwordRecord, WithMfa, Records
<1>4. \/ Changed(b, setOwner(passwordRecord(getOwner)))
      \/ Changed(b, setOwner(WithMfa(getOwner)))
  BY DEF ChangePassword, EnableMfa
<1>5. /\ setOwner(passwordRecord(getOwner)).owner \in Records
      /\ setOwner(WithMfa(getOwner)).owner \in Records
  BY <1>1, <1>3, OwnedFormat
<1> QED
  BY <1>1, <1>4, <1>5, ChangedSigned

LEMMA DisableMfaSigned == ASSUME FilesHold, SignedHold, NEW b, DisableMfa(b) PROVE SignedHold'
<1>1. Owned /\ up' = up /\ up /\ getOwner # NoOwner /\ getOwner \in Records
  BY OwnerOf DEF DisableMfa, Owned, Usable
<1>2. CASE Changed(b, setOwner(WithoutMfa(getOwner)))
  <2>1. setOwner(WithoutMfa(getOwner)).owner \in Records
    BY <1>1, RecordsOf, OwnedFormat, OwnerOf
  <2> QED
    BY <1>1, <1>2, <2>1, ChangedSigned
<1>3. ASSUME NEW code \in getOwner.codes,
             LET struck == setOwner(consumeRecovery(getOwner, code))
                 off == Removed(struck)
                 now == revokeAuthenticationState(CurrentSession(b, off.owner)) IN
             \E w \in Commits(file, struck) :
                 \/ ~w.done /\ Saving(w) /\ UNCHANGED Signed
                 \/ /\ w.done
                    /\ \E v \in Commits(w.file, off) :
                         /\ Saving(v)
                         /\ sessions' = IF v.done THEN now.sessions ELSE sessions
                         /\ tickets' = IF v.done THEN now.tickets ELSE tickets
      PROVE  SignedHold'
  <2> DEFINE struck == setOwner(consumeRecovery(getOwner, code))
             off == Removed(struck)
             s == CurrentSession(b, off.owner)
  <2>1. struck \in Shape /\ struck.owner \in Records
    BY <1>1, StrikingIsSound
  <2>2. off.owner \in Records /\ off.owner # NoOwner
    <3> HIDE DEF struck
    <3>1. off.owner = WithoutMfa(struck.owner) /\ WithoutMfa(struck.owner) \in Records
      BY <2>1, RemovedContents, RecordsOf
    <3> QED
      BY <3>1, OwnerAuthAssumption DEF Records
  <2>3. s.pw = off.owner.pw /\ s.mfa = off.owner.mfa
    BY DEF CurrentSession, Session
  <2>4. PICK w \in Commits(file, struck) :
           \/ ~w.done /\ Saving(w) /\ UNCHANGED Signed
           \/ /\ w.done
              /\ \E v \in Commits(w.file, off) :
                   /\ Saving(v)
                   /\ sessions' = IF v.done THEN {s} ELSE sessions
                   /\ tickets' = IF v.done THEN {} ELSE tickets
    BY <1>3 DEF revokeAuthenticationState
  <2>5. SameCredentials(w.file)
    BY <1>1, <2>4, StruckSigned
  <2> HIDE DEF s, off, struck
  <2>6. CASE UNCHANGED Signed /\ SameCredentials(file')
    BY <1>1, <2>6, SomeSignIn DEF Signed
  <2>7. CASE w.done
    <3> DEFINE g == w.file
    <3>1. PICK v \in Commits(g, off) :
             /\ Saving(v)
             /\ sessions' = IF v.done THEN {s} ELSE sessions
             /\ tickets' = IF v.done THEN {} ELSE tickets
      BY <2>4, <2>7
    <3>2. g \in FileType({struck})
      BY <2>7, DoneIsAll DEF FilesHold
    <3> HIDE DEF g
    <3>3. /\ v.done => v.file.cache = off
          /\ ~v.done => v.file = g \/ v.file.poisoned = TRUE
      BY <3>2, CommitShows
    <3>4. v.done \in BOOLEAN
      BY CommitEnds
    <3>5. CASE ~v.done
      <4>1. SameCredentials(file')
        BY <2>5, <3>1, <3>3, <3>5 DEF Saving, SameCredentials, g
      <4> QED
        BY <2>6, <3>1, <3>5, <4>1 DEF Signed
    <3>6. CASE v.done
      <4>1. getOwner' = off.owner /\ sessions' = {s} /\ tickets' = {}
        BY <3>1, <3>3, <3>6 DEF Saving, getOwner
      <4>2. Follow(getOwner', sessions', tickets')
        BY <2>2, <2>3, <4>1 DEF Follow
      <4> QED
        BY <1>1, <4>2 DEF SignedHold, getOwner
    <3> QED
      BY <3>4, <3>5, <3>6
  <2> QED
    BY <2>4, <2>5, <2>6, <2>7 DEF Saving
<1> QED
  BY <1>2, <1>3 DEF DisableMfa, Removed

LEMMA StepUpSigned == ASSUME FilesHold, SignedHold, NEW b, verifyOwnerStepUp(b) PROVE SignedHold'
<1>1. Owned /\ up' = up /\ getOwner # NoOwner /\ sessions' = sessions /\ tickets' = tickets
  BY DEF verifyOwnerStepUp, Owned, Signed
<1>2. \/ file' = file
      \/ \E code \in getOwner.codes :
         \E w \in Commits(file, setOwner(consumeRecovery(getOwner, code))) : Saving(w)
  BY DEF verifyOwnerStepUp
<1>3. SameCredentials(file')
  <2>1. SameCredentials(file)
    BY <1>1 DEF SameCredentials, getOwner
  <2> QED
    BY <1>1, <1>2, <2>1, StruckSigned DEF Saving
<1> QED
  BY <1>1, <1>3, SomeSignIn

LEMMA SignedStep == ASSUME FilesHold, SignedHold, [Next]_vars PROVE SignedHold'
<1>1. CASE UNCHANGED vars
  BY <1>1, SomeSignOut DEF vars
<1>2. CASE Boot
  BY <1>2, NobodyFollows DEF Boot, SignedHold, Signed
<1>3. CASE Expire
  <2>1. file' = file /\ up' = up /\ sessions' \subseteq sessions /\ tickets' \subseteq tickets
    BY <1>3 DEF Expire, Signed
  <2> QED
    BY <2>1, SomeSignOut
<1>4. CASE End \/ PowerCut
  BY <1>4, NobodyFollows DEF End, PowerCut, Memory
<1>5. CASE RestoreV1
  BY <1>5, NobodyFollows DEF RestoreV1, SignedHold, Signed
<1>6. ASSUME NEW b \in Browsers,
             \/ SetUp(b) \/ OpenForm(b) \/ Login(b) \/ CompleteMfa(b)
             \/ ChangePassword(b) \/ EnableMfa(b) \/ DisableMfa(b) \/ Logout(b)
             \/ AskForMode(b) \/ verifyOwnerStepUp(b)
      PROVE  SignedHold'
  <2>1. CASE OpenForm(b) \/ Logout(b) \/ AskForMode(b)
    <3>1. file' = file /\ up' = up /\ sessions' \subseteq sessions /\ tickets' \subseteq tickets
      BY <2>1 DEF OpenForm, Logout, AskForMode, Signed
    <3> QED
      BY <3>1, SomeSignOut
  <2> QED
    BY <1>6, <2>1, SetUpSigned, LoginSigned, CompleteMfaSigned, ChangePasswordSigned,
       DisableMfaSigned, StepUpSigned
<1> QED
  BY <1>1, <1>2, <1>3, <1>4, <1>5, <1>6 DEF Next
-----------------------------------------------------------------------------
(* CountsHold. *)

(* What a step makes of an address's counts: nothing, zero, one more attempt,
   or one more attempt that tried a code and left the address below IP_MAX. *)
Counted(b) ==
    \/ hits' = hits /\ wrong' = wrong
    \/ hits' = clearIp(hits, b) /\ wrong' = [wrong EXCEPT ![b] = 0]
    \/ hits' = clearIp(noteIp(hits, b), b) /\ wrong' = [wrong EXCEPT ![b] = 0]
    \/ hits' = noteIp(hits, b) /\ wrong' = wrong
    \/ /\ hits' = noteIp(hits, b) /\ ~ipThrottled(noteIp(hits, b), b)
       /\ wrong' \in {wrong, [wrong EXCEPT ![b] = @ + 1]}

LEMMA NoteIp ==
    ASSUME CountsHold, NEW b \in Browsers
    PROVE  /\ noteIp(hits, b) \in [Browsers -> Nat]
           /\ noteIp(hits, b)[b] <= IpMax
           /\ noteIp(hits, b)[b] = IpMax \/ noteIp(hits, b)[b] = hits[b] + 1
           /\ \A c \in Browsers : hits[c] <= noteIp(hits, b)[c] /\ noteIp(hits, b)[c] <= IpMax
  BY OwnerAuthAssumption DEF CountsHold, noteIp

LEMMA CountedHolds == ASSUME CountsHold, NEW b \in Browsers, Counted(b) PROVE CountsHold'
<1>0. /\ hits \in [Browsers -> Nat] /\ wrong \in [Browsers -> Nat] /\ IpMax \in Nat /\ IpMax > 0
      /\ \A c \in Browsers : wrong[c] <= hits[c] /\ wrong[c] < IpMax /\ hits[c] <= IpMax
  BY OwnerAuthAssumption DEF CountsHold
<1>1. CASE hits' = hits /\ wrong' = wrong
  BY <1>1 DEF CountsHold
<1>2. CASE hits' = clearIp(hits, b) /\ wrong' = [wrong EXCEPT ![b] = 0]
  BY <1>0, <1>2 DEF CountsHold, clearIp
<1>3. CASE hits' = clearIp(noteIp(hits, b), b) /\ wrong' = [wrong EXCEPT ![b] = 0]
  <2> DEFINE h == noteIp(hits, b)
  <2>1. h \in [Browsers -> Nat] /\ \A c \in Browsers : hits[c] <= h[c] /\ h[c] <= IpMax
    BY NoteIp
  <2> HIDE DEF h
  <2>2. hits' = clearIp(h, b)
    BY <1>3 DEF h
  <2>5. hits' \in [Browsers -> Nat]
    BY <2>1, <2>2 DEF clearIp
  <2>6. wrong' \in [Browsers -> Nat]
    BY <1>0, <1>3
  <2>3. hits' \in [Browsers -> Nat] /\ wrong' \in [Browsers -> Nat]
    BY <2>5, <2>6
  <2>4. ASSUME NEW c \in Browsers
        PROVE  wrong'[c] <= hits'[c] /\ wrong'[c] < IpMax /\ hits'[c] <= IpMax
    <3>1. CASE c = b
      BY <1>0, <1>3, <2>1, <2>2, <3>1 DEF clearIp
    <3>2. CASE c # b
      <4>1. hits'[c] = h[c] /\ wrong'[c] = wrong[c]
        BY <1>0, <1>3, <2>1, <2>2, <3>2 DEF clearIp
      <4>2. wrong[c] \in Nat /\ hits[c] \in Nat /\ h[c] \in Nat
        BY <1>0, <2>1
      <4> QED
        BY <1>0, <2>1, <4>1, <4>2
    <3> QED
      BY <3>1, <3>2
  <2> QED
    BY <2>3, <2>4 DEF CountsHold
<1>4. CASE hits' = noteIp(hits, b) /\ wrong' = wrong
  <2>1. \A c \in Browsers : hits[c] <= hits'[c] /\ hits'[c] <= IpMax
    BY <1>4, NoteIp
  <2>2. hits' \in [Browsers -> Nat] /\ wrong' = wrong
    BY <1>4, NoteIp
  <2> QED
    BY <1>0, <2>1, <2>2 DEF CountsHold
<1>5. CASE /\ hits' = noteIp(hits, b) /\ ~ipThrottled(noteIp(hits, b), b)
           /\ wrong' = [wrong EXCEPT ![b] = @ + 1]
  <2>1. hits' \in [Browsers -> Nat] /\ \A c \in Browsers : hits[c] <= hits'[c] /\ hits'[c] <= IpMax
    BY <1>5, NoteIp
  <2>2. ~(hits'[b] >= IpMax) /\ (hits'[b] = IpMax \/ hits'[b] = hits[b] + 1)
    BY <1>5, NoteIp DEF ipThrottled
  <2>3. hits'[b] = hits[b] + 1 /\ hits'[b] < IpMax
    BY <1>0, <2>1, <2>2
  <2>4. wrong' \in [Browsers -> Nat] /\ wrong'[b] = wrong[b] + 1
        /\ \A c \in Browsers \ {b} : wrong'[c] = wrong[c]
    BY <1>0, <1>5
  <2>5. ASSUME NEW c \in Browsers
        PROVE  wrong'[c] <= hits'[c] /\ wrong'[c] < IpMax /\ hits'[c] <= IpMax
    <3>1. CASE c = b
      BY <1>0, <2>1, <2>3, <2>4, <3>1
    <3>2. CASE c # b
      BY <1>0, <2>1, <2>4, <3>2
    <3> QED
      BY <3>1, <3>2
  <2> QED
    BY <2>1, <2>4, <2>5 DEF CountsHold
<1> QED
  BY <1>1, <1>2, <1>3, <1>4, <1>5 DEF Counted

(* A wrong code is counted up to a bound the invariant never reaches. *)
LEMMA WrongIsCounted ==
    ASSUME CountsHold, NEW b \in Browsers, NEW on \in BOOLEAN
    PROVE  [wrong EXCEPT ![b] = IF on /\ @ <= IpMax THEN @ + 1 ELSE @]
             \in {wrong, [wrong EXCEPT ![b] = @ + 1]}
<1>1. [wrong EXCEPT ![b] = wrong[b]] = wrong
  BY DEF CountsHold
<1>2. CASE on /\ wrong[b] <= IpMax
  BY <1>2
<1>3. CASE ~(on /\ wrong[b] <= IpMax)
  BY <1>1, <1>3
<1> QED
  BY <1>2, <1>3

LEMMA CompleteMfaCounts ==
    ASSUME CountsHold, NEW b \in Browsers, CompleteMfa(b) PROVE Counted(b)
<1> DEFINE h == noteIp(hits, b)
<1>1. CASE hits' \in {hits, h} /\ wrong' = wrong
  BY <1>1 DEF Counted
<1>2. CASE hits' = clearIp(hits, b) /\ wrong' = [wrong EXCEPT ![b] = 0]
  BY <1>2 DEF Counted
<1>3. ASSUME NEW t \in tickets, WrongCode(b, t, h), ~ipThrottled(h, b) PROVE Counted(b)
  <2>1. wrong' = [wrong EXCEPT ![b] = IF mfaEnabled /\ @ <= IpMax THEN @ + 1 ELSE @]
        /\ hits' = h /\ mfaEnabled \in BOOLEAN
    BY <1>3 DEF WrongCode, Turned, mfaEnabled
  <2>2. wrong' \in {wrong, [wrong EXCEPT ![b] = @ + 1]}
    BY <2>1, WrongIsCounted
  <2> QED
    BY <1>3, <2>1, <2>2 DEF Counted
<1>4. ASSUME NEW t \in tickets, GoodTotp(b, t) PROVE Counted(b)
  BY <1>2, <1>4 DEF GoodTotp, SignIn
<1>5. ASSUME NEW t \in tickets, NEW code \in Codes, GoodRecovery(b, t, code) PROVE Counted(b)
  BY <1>1, <1>2, <1>5 DEF GoodRecovery
<1> QED
  BY <1>1, <1>3, <1>4, <1>5 DEF CompleteMfa, Turned

LEMMA LoginCounts == ASSUME CountsHold, NEW b \in Browsers, Login(b) PROVE Counted(b)
<1>1. \/ hits' \in {hits, noteIp(hits, b)} /\ wrong' = wrong
      \/ hits' = clearIp(hits, b) /\ wrong' = [wrong EXCEPT ![b] = 0]
  BY DEF Login, Turned, SignIn
<1> QED
  BY <1>1 DEF Counted

LEMMA StepUpCounts == ASSUME CountsHold, NEW b \in Browsers, verifyOwnerStepUp(b) PROVE Counted(b)
<1> DEFINE h == noteIp(hits, b)
<1>1. \/ hits' = h /\ wrong' = wrong
      \/ hits' = clearIp(h, b) /\ wrong' = [wrong EXCEPT ![b] = 0]
      \/ /\ hits' = h /\ ~ipThrottled(h, b)
         /\ wrong' = [wrong EXCEPT ![b] = IF @ <= IpMax THEN @ + 1 ELSE @]
  BY DEF verifyOwnerStepUp
<1>2. [wrong EXCEPT ![b] = IF @ <= IpMax THEN @ + 1 ELSE @]
        \in {wrong, [wrong EXCEPT ![b] = @ + 1]}
  <2>1. [wrong EXCEPT ![b] = IF TRUE /\ @ <= IpMax THEN @ + 1 ELSE @]
          \in {wrong, [wrong EXCEPT ![b] = @ + 1]}
    BY WrongIsCounted
  <2> QED
    BY <2>1
<1> QED
  BY <1>1, <1>2 DEF Counted

LEMMA CountsStep == ASSUME CountsHold, [Next]_vars PROVE CountsHold'
<1>1. CASE hits' = hits /\ wrong' = wrong
  BY <1>1 DEF CountsHold
<1>2. CASE Memory
  BY <1>2, OwnerAuthAssumption DEF Memory, CountsHold
<1>3. CASE Expire
  <2>1. ASSUME NEW b \in Browsers, hits' = clearIp(hits, b), wrong' = [wrong EXCEPT ![b] = 0]
        PROVE  CountsHold'
    BY <2>1, CountedHolds DEF Counted
  <2> QED
    BY <1>1, <1>3, <2>1 DEF Expire
<1>4. ASSUME NEW b \in Browsers,
             \/ SetUp(b) \/ OpenForm(b) \/ Login(b) \/ CompleteMfa(b)
             \/ ChangePassword(b) \/ EnableMfa(b) \/ DisableMfa(b) \/ Logout(b)
             \/ AskForMode(b) \/ verifyOwnerStepUp(b)
      PROVE  CountsHold'
  <2>1. CASE SetUp(b) \/ OpenForm(b) \/ Logout(b) \/ AskForMode(b)
    BY <1>1, <2>1 DEF SetUp, OpenForm, Logout, AskForMode, History
  <2>2. CASE ChangePassword(b) \/ EnableMfa(b) \/ DisableMfa(b)
    BY <1>1, <2>2 DEF ChangePassword, EnableMfa, DisableMfa
  <2> QED
    BY <1>4, <2>1, <2>2, CountedHolds, LoginCounts, CompleteMfaCounts, StepUpCounts
<1> QED
  BY <1>1, <1>2, <1>3, <1>4 DEF Next, vars, Boot, End, PowerCut, RestoreV1, History
-----------------------------------------------------------------------------
LEMMA InitHolds == ASSUME Init PROVE FilesHold /\ SignedHold /\ CountsHold
<1>1. ASSUME NEW c, c \in {Missing, LegacyV1(0)} PROVE c \in Sound(0, {}, "absent")
  <2>1. CASE c = Missing
    BY <2>1 DEF Missing, newState, Sound, Shape, Recent, Unspent, Servable
  <2>2. CASE c = LegacyV1(0)
    BY <2>2 DEF LegacyV1, Sound, Shape, Records, Recent, Unspent, Servable
  <2> QED
    BY <1>1, <2>1, <2>2
<1>2. FilesHold
  <2>1. PICK c \in {Missing, LegacyV1(0)} : file = FileOf(c)
    BY DEF Init
  <2> DEFINE S == Sound(0, {}, "absent")
  <2>2. c \in S
    BY <1>1
  <2> HIDE DEF S
  <2>3. file \in FileType(S) /\ file.cache = file.disk
    BY <2>1, <2>2 DEF FileOf, FileType
  <2> QED
    BY <2>3 DEF Init, FilesHold, S
<1>3. SignedHold
  BY DEF Init, SignedHold, Follow
<1>4. CountsHold
  BY OwnerAuthAssumption DEF Init, CountsHold
<1> QED
  BY <1>2, <1>3, <1>4

(* Every contents the state file has, or a power cut may put back, is as new as
   a browser was told and holds no spent code; sessions and tickets are of the
   credentials in force; and no address tried more codes than it attempted. *)
THEOREM OwnerAuthHolds == Spec => [](FilesHold /\ SignedHold /\ CountsHold)
<1>1. FilesHold /\ SignedHold /\ CountsHold /\ [Next]_vars
      => (FilesHold /\ SignedHold /\ CountsHold)'
  BY FilesStep, SignedStep, CountsStep
<1> QED
  BY InitHolds, <1>1, PTL DEF Spec

(* What a browser was told of the owner's credentials holds after any crash,
   and some start serves what is left. *)
THEOREM CredentialsLast == Spec => []ChangesHold
<1>1. FilesHold => ChangesHold
  <2> SUFFICES ASSUME FilesHold PROVE ChangesHold
    OBVIOUS
  <2>1. \A c \in file.limbo \cup {file.disk} : c \in Sound(acked, used, marker)
    BY DEF FilesHold, FileType
  <2>2. \A c \in file.limbo \cup {file.disk} : c.rev >= acked
    BY <2>1 DEF FilesHold, Sound, Shape, Recent
  <2>3. NeverStranded
    BY <2>1 DEF NeverStranded, Sound, Servable
  <2> QED
    BY <2>2, <2>3 DEF ChangesHold, AckedSurvives
<1> QED
  BY <1>1, OwnerAuthHolds, PTL

(* Nobody is signed in but by the credentials in force, a code that was not
   used before, and a bounded number of guesses. *)
THEOREM SignInsAreGuarded == Spec => []SignInIsGuarded
<1>1. FilesHold /\ SignedHold /\ CountsHold => SignInIsGuarded
  <2> SUFFICES ASSUME FilesHold, SignedHold, CountsHold PROVE SignInIsGuarded
    OBVIOUS
  <2>1. SessionsFollowCredentials
    BY DEF SessionsFollowCredentials, SignedHold, Owned, Follow, mfaEnabled
  <2>2. CodesWorkOnce /\ GuessesAreBounded
    BY DEF FilesHold, CountsHold, CodesWorkOnce, GuessesAreBounded
  <2> QED
    BY <2>1, <2>2 DEF SignInIsGuarded
<1> QED
  BY <1>1, OwnerAuthHolds, PTL
-----------------------------------------------------------------------------
(* The routes of the panel *)

LEMMA Least == ASSUME NEW S \in SUBSET Nat, S # {} PROVE \E i \in S : \A j \in S : i <= j
<1> DEFINE R == OpToRel(<, Nat)
<1>1. \E i \in S : \A j \in S : ~(<<j, i>> \in R)
  BY NatLessThanWellFounded, WFMin
<1>2. \A i, j \in Nat : <<j, i>> \in R <=> j < i
  BY DEF OpToRel
<1> HIDE DEF R
<1>3. \A i, j \in S : <<j, i>> \in R <=> j < i
  BY <1>2
<1>4. \A i, j \in S : ~(j < i) => i <= j
  OBVIOUS
<1> QED
  BY <1>1, <1>3, <1>4

(* Of the decisions the first that applies is taken, if any does. *)
LEMMA FirstApplies ==
    ASSUME NEW d, NEW n \in Nat \ {0}, DOMAIN d = 1 .. n, d[n][1]
    PROVE  \E i \in 1 .. n : d[i][1] /\ Decide(d) = d[i][2] /\ \A j \in 1 .. i - 1 : ~d[j][1]
<1> DEFINE A == {i \in DOMAIN d : d[i][1]}
<1>1. A \in SUBSET Nat /\ n \in A
  OBVIOUS
<1>2. \E i \in A : \A j \in A : i <= j
  BY <1>1, Least
<1> DEFINE i == CHOOSE i \in A : \A j \in A : i <= j
<1>3. i \in A /\ \A j \in A : i <= j
  BY <1>2
<1>4. Decide(d) = d[i][2]
  BY DEF Decide
<1> HIDE DEF i
<1>5. \A j \in 1 .. i - 1 : ~d[j][1]
  BY <1>3
<1> QED
  BY <1>3, <1>4, <1>5

(* The paths that the cases of the table tell apart. *)
LEMMA PathsApart ==
    /\ BEARER_READ_PATHS \cap (OwnerApi \cup DevicePages \cup DevicePosts) = {}
    /\ DevicePosts \subseteq ChecksItsBody /\ Forms \subseteq ChecksItsBody
    /\ (OwnerApi \cup DevicePages \cup {"/api/docker/df"} \cup Scripts) \cap ChecksItsBody = {}
    /\ "/setup" \in OwnProof /\ "/pair/redeem" \in OwnProof /\ "/login" \in OwnProof
    /\ "/login/mfa" \in OwnProof /\ "/hooks/a" \in OwnProof /\ PhoneApi \subseteq OwnProof
    /\ PhoneReads \subseteq PhoneApi /\ PhoneEntries \subseteq PhoneApi
    /\ {"/api/mobile/v1/identity", "/api/mobile/v1/token/refresh", "/api/mobile/v1/alerts"} \subseteq PhoneApi
<1>1. BEARER_READ_PATHS \cap (OwnerApi \cup DevicePages \cup DevicePosts) = {}
  BY DEF BEARER_READ_PATHS, OwnerApi, DevicePages, DevicePosts, EnrolmentOne, Enrolments, DeviceOne
<1>2. DevicePosts \subseteq ChecksItsBody /\ Forms \subseteq ChecksItsBody
  BY DEF DevicePosts, ChecksItsBody, Forms, SettingsForms, ProfileForms, PairForms
<1>3. (OwnerApi \cup DevicePages \cup {"/api/docker/df"} \cup Scripts) \cap ChecksItsBody = {}
  BY DEF OwnerApi, DevicePages, Scripts, ChecksItsBody, DevicePosts, EnrolmentOne, Enrolments, DeviceOne
<1>4. /\ "/setup" \in OwnProof /\ "/pair/redeem" \in OwnProof /\ "/login" \in OwnProof
      /\ "/login/mfa" \in OwnProof /\ "/hooks/a" \in OwnProof /\ PhoneApi \subseteq OwnProof
  BY DEF OwnProof, Entries
<1>5. /\ PhoneReads \subseteq PhoneApi /\ PhoneEntries \subseteq PhoneApi
      /\ {"/api/mobile/v1/identity", "/api/mobile/v1/token/refresh", "/api/mobile/v1/alerts"} \subseteq PhoneApi
  BY DEF PhoneApi
<1> QED
  BY <1>1, <1>2, <1>3, <1>4, <1>5

(* What a request that is let through to the owner's handlers has shown. *)
Shows(q, owner, live) ==
    /\ owner /\ ~(q.secure /\ ~q.https)
    /\ (live /\ HasCookie(q)) \/ (q.bearer /\ ~StateChanging(q))
    /\ StateChanging(q) => live /\ HasCookie(q)

LEMMA RouteShows ==
    ASSUME NEW q \in Requests, NEW owner \in BOOLEAN, NEW live \in BOOLEAN,
           PanelRoute(q, owner, live) # Refusal, OwnersOnly(q)
    PROVE  /\ Shows(q, owner, live) /\ PanelRoute(q, owner, live) = Handler(q.path)
           /\ StateChanging(q) => q.token = "header" \/ q.path \in ChecksItsBody
<1> DEFINE session   == live /\ HasCookie(q)
           checkCsrf == session /\ q.token = "header"
           bearer    == q.bearer /\ q.path \in BEARER_READ_PATHS /\ q.method = "GET"
           d == <<
        <<~q.https /\ q.path = "/hooks/a", Handler(q.path)>>,
        <<q.path \in Assets, Handler(q.path)>>,
        <<~q.https /\ q.secure, Refusal>>,
        <<~owner, IF q.path = "/setup" THEN Handler(q.path) ELSE Refusal>>,
        <<q.path = "/setup", Refusal>>,
        <<q.path = "/pair/redeem" /\ q.method = "GET", Handler(q.path)>>,
        <<q.path = "/login" \/ (q.path = "/login/mfa" /\ q.method = "POST"), Handler(q.path)>>,
        <<~session /\ ~bearer, Refusal>>,
        <<q.path \in OwnerApi /\ ~q.https, Refusal>>,
        <<q.path \in OwnerApi /\ ~checkCsrf
              /\ (StateChanging(q) \/ q.path = "/api/mobile/v1/enrolments/1"), Refusal>>,
        <<q.path \in OwnerApi, IF TakenByOwnerApi(q) THEN Handler(q.path) ELSE Refusal>>,
        <<q.path \in PhoneApi, Refusal>>,
        <<q.path \in DevicePages \cup DevicePosts,
              IF TakenByDevices(q) THEN Handler(q.path) ELSE Refusal>>,
        <<StateChanging(q) /\ q.path \notin Forms /\ ~checkCsrf, Refusal>>,
        <<TRUE, IF TakenByPanel(q) THEN Handler(q.path) ELSE Refusal>> >>
<1>1. PanelRoute(q, owner, live) = Decide(d)
  BY DEF PanelRoute
<1>2. DOMAIN d = 1 .. 15 /\ 15 \in Nat \ {0} /\ d[15][1]
  OBVIOUS
<1>3. /\ d[1][1] = (~q.https /\ q.path = "/hooks/a") /\ d[2][1] = (q.path \in Assets)
      /\ d[3][1] = (~q.https /\ q.secure) /\ d[3][2] = Refusal
      /\ d[4][1] = ~owner /\ d[4][2] = (IF q.path = "/setup" THEN Handler(q.path) ELSE Refusal)
      /\ d[5][1] = (q.path = "/setup") /\ d[5][2] = Refusal
      /\ d[6][1] = (q.path = "/pair/redeem" /\ q.method = "GET")
      /\ d[7][1] = (q.path = "/login" \/ (q.path = "/login/mfa" /\ q.method = "POST"))
      /\ d[8][1] = (~session /\ ~bearer) /\ d[8][2] = Refusal
      /\ d[9][2] = Refusal
      /\ d[10][1] = (q.path \in OwnerApi /\ ~checkCsrf
              /\ (StateChanging(q) \/ q.path = "/api/mobile/v1/enrolments/1")) /\ d[10][2] = Refusal
      /\ d[11][1] = (q.path \in OwnerApi)
      /\ d[11][2] = (IF TakenByOwnerApi(q) THEN Handler(q.path) ELSE Refusal)
      /\ d[12][2] = Refusal
      /\ d[13][1] = (q.path \in DevicePages \cup DevicePosts)
      /\ d[13][2] = (IF TakenByDevices(q) THEN Handler(q.path) ELSE Refusal)
      /\ d[14][1] = (StateChanging(q) /\ q.path \notin Forms /\ ~checkCsrf) /\ d[14][2] = Refusal
      /\ d[15][2] = (IF TakenByPanel(q) THEN Handler(q.path) ELSE Refusal)
  OBVIOUS
<1> HIDE DEF d
<1>4. PICK i \in 1 .. 15 : d[i][1] /\ Decide(d) = d[i][2] /\ \A j \in 1 .. i - 1 : ~d[j][1]
  BY <1>2, FirstApplies
<1>5. d[i][2] # Refusal /\ q.path \notin OwnProof /\ q.path \notin Assets
  BY <1>1, <1>4 DEF OwnersOnly
<1>6. i \in {11, 13, 15} /\ owner
  <2>1. "/setup" \in OwnProof /\ "/pair/redeem" \in OwnProof /\ "/login" \in OwnProof
        /\ "/login/mfa" \in OwnProof /\ "/hooks/a" \in OwnProof
    BY PathsApart
  <2>2. ~d[1][1] /\ ~d[2][1] /\ ~d[5][1] /\ ~d[6][1] /\ ~d[7][1]
    BY <1>3, <1>5, <2>1
  <2>3. d[4][1] => d[4][2] = Refusal
    BY <1>3, <1>5, <2>1
  <2>4. i \in {11, 13, 15}
    BY <1>3, <1>4, <1>5, <2>2, <2>3
  <2>5. ~d[4][1]
    BY <1>4, <2>4
  <2> QED
    BY <1>3, <2>4, <2>5
<1>7. ~(q.secure /\ ~q.https) /\ (session \/ bearer)
  <2>1. ~d[3][1] /\ ~d[8][1]
    BY <1>4, <1>6
  <2> QED
    BY <2>1, <1>3
<1>8. q.method \in {"GET", "POST", "DELETE"} /\ (StateChanging(q) <=> q.method # "GET")
  BY DEF Requests, StateChanging
<1>9. CASE i = 11
  BY <1>1, <1>3, <1>4, <1>5, <1>6, <1>7, <1>8, <1>9, PathsApart DEF Shows
<1>10. CASE i = 13
  <2>1. StateChanging(q) => q.path \in DevicePosts
    BY <1>3, <1>4, <1>5, <1>8, <1>10 DEF TakenByDevices
  <2> QED
    BY <1>1, <1>3, <1>4, <1>5, <1>6, <1>7, <1>8, <1>10, <2>1, PathsApart DEF Shows
<1>11. CASE i = 15
  <2>1. ~d[14][1]
    BY <1>4, <1>11
  <2> QED
    BY <1>1, <1>3, <1>4, <1>5, <1>6, <1>7, <1>8, <1>11, <2>1, PathsApart DEF Shows
<1> QED
  BY <1>6, <1>9, <1>10, <1>11

(* server.js, route, and mobile/owner-plane.js, in any state of the owner and
   the sessions: what only the owner may do takes a live session of the same
   listener and, to change anything, its token; an API token only reads; and
   the plaintext address does not answer for a panel that is to be used over
   HTTPS. *)
THEOREM OnlyTheOwnersRequests == Spec => []PanelIsTheOwners
<1>1. ASSUME NEW owner \in BOOLEAN, NEW live \in BOOLEAN
      PROVE  Unproven[owner][live] = {}
  <2>1. SUFFICES ASSUME NEW q \in Requests, Performed(q, owner, live), OwnersOnly(q), q.https => q.secure
                 PROVE  /\ Shows(q, owner, live)
                        /\ StateChanging(q) => q.token # "none"
    BY DEF Unproven, Shows
  <2>2. Route(q, owner, live) # Refusal
    BY <2>1 DEF Performed
  <2>3. Route(q, owner, live) = PanelRoute(q, owner, live)
    BY <2>1, <2>2, PathsApart DEF Route, OwnersOnly
  <2>4. /\ Shows(q, owner, live) /\ Route(q, owner, live) = Handler(q.path)
        /\ StateChanging(q) => q.token = "header" \/ q.path \in ChecksItsBody
    BY <2>1, <2>2, <2>3, RouteShows
  <2> QED
    BY <2>1, <2>4 DEF Performed, Handler
<1>2. PanelIsTheOwners
  <2>1. Owned \in BOOLEAN /\ (\E b \in Browsers : HasSession(b)) \in BOOLEAN
    BY DEF Owned
  <2> QED
    BY <1>1, <2>1 DEF PanelIsTheOwners
<1> QED
  BY <1>2, PTL

-----------------------------------------------------------------------------
(* References to images, of any length: what is said of the first and of the
   last place of a sign rests on Least. *)

LEMMA Greatest ==
    ASSUME NEW n \in Nat, NEW S \in SUBSET (1 .. n), S # {}
    PROVE  \E i \in S : \A j \in S : j <= i
<1> DEFINE D == {n - i : i \in S}
<1>1. D \in SUBSET Nat /\ D # {}
  <2>1. \A i \in S : n - i \in Nat
    OBVIOUS
  <2> QED
    BY <2>1
<1>2. PICK d \in D : \A e \in D : d <= e
  BY <1>1, Least
<1>3. PICK i \in S : d = n - i
  OBVIOUS
<1>4. \A j \in S : n - i <= n - j
  BY <1>2, <1>3
<1> QED
  BY <1>3, <1>4

(* What references are made of; the lemmas are about any sequence of these. *)
Signs == Pieces \cup Separators \cup {"latest"}

LEMMA FirstPlaceIs ==
    ASSUME NEW s \in Seq(Signs), NEW sign
    PROVE  IF Places(sign, s) = {} THEN FirstPlace(sign, s) = 0
           ELSE FirstPlace(sign, s) \in Places(sign, s) /\ \A j \in Places(sign, s) : FirstPlace(sign, s) <= j
<1>1. Places(sign, s) \in SUBSET Nat
  BY DEF Places
<1>2. Places(sign, s) # {} => \E i \in Places(sign, s) : \A j \in Places(sign, s) : i <= j
  BY <1>1, Least
<1> QED
  BY <1>2 DEF FirstPlace

LEMMA LastPlaceIs ==
    ASSUME NEW s \in Seq(Signs), NEW sign
    PROVE  IF Places(sign, s) = {} THEN LastPlace(sign, s) = 0
           ELSE LastPlace(sign, s) \in Places(sign, s) /\ \A j \in Places(sign, s) : j <= LastPlace(sign, s)
<1>1. Places(sign, s) \in SUBSET (1 .. Len(s)) /\ Len(s) \in Nat
  BY DEF Places
<1>2. Places(sign, s) # {} => \E i \in Places(sign, s) : \A j \in Places(sign, s) : j <= i
  BY <1>1, Greatest
<1> QED
  BY <1>2 DEF LastPlace

(* A tag stands behind the last sign of both kinds, when that is a colon. *)
EndsName(c, s) == c \in 1 .. Len(s) /\ s[c] = ":" /\ \A i \in 1 .. Len(s) : s[i] \in {":", "/"} => i <= c

LEMMA TagColonIs ==
    ASSUME NEW s \in Seq(Signs)
    PROVE  /\ TagColon(s) \in 0 .. Len(s)
           /\ TagColon(s) # 0 => EndsName(TagColon(s), s)
           /\ \A c : EndsName(c, s) => TagColon(s) = c
<1> DEFINE C == LastPlace(":", s)  L == LastPlace("/", s)
<1>1. IF Places(":", s) = {} THEN C = 0 ELSE C \in Places(":", s) /\ \A j \in Places(":", s) : j <= C
  BY LastPlaceIs
<1>2. IF Places("/", s) = {} THEN L = 0 ELSE L \in Places("/", s) /\ \A j \in Places("/", s) : j <= L
  BY LastPlaceIs
<1>3. \A i : i \in Places(":", s) <=> i \in 1 .. Len(s) /\ s[i] = ":"
  BY DEF Places
<1>4. \A i : i \in Places("/", s) <=> i \in 1 .. Len(s) /\ s[i] = "/"
  BY DEF Places
<1>5. C \in 0 .. Len(s) /\ L \in 0 .. Len(s) /\ Len(s) \in Nat
  BY <1>1, <1>2, <1>3, <1>4
<1>6. TagColon(s) = IF C > L THEN C ELSE 0
  BY DEF TagColon
<1> HIDE DEF C, L
<1>7. ASSUME C > L PROVE EndsName(C, s)
  <2>1. C \in 1 .. Len(s) /\ s[C] = ":"
    BY <1>1, <1>3, <1>5, <1>7
  <2>2. ASSUME NEW i \in 1 .. Len(s), s[i] \in {":", "/"} PROVE i <= C
    BY <1>1, <1>2, <1>3, <1>4, <1>5, <1>7, <2>2
  <2> QED
    BY <2>1, <2>2 DEF EndsName
<1>8. ASSUME NEW c, EndsName(c, s) PROVE C > L /\ c = C
  <2>1. c \in Places(":", s) /\ C \in Places(":", s) /\ c <= C
    BY <1>1, <1>3, <1>8 DEF EndsName
  <2>2. C <= c
    BY <1>3, <1>5, <1>8, <2>1 DEF EndsName
  <2>3. L = 0 \/ (L \in 1 .. Len(s) /\ s[L] = "/" /\ L <= c)
    BY <1>2, <1>4, <1>8 DEF EndsName
  <2>4. c \in 1 .. Len(s) /\ s[c] = ":"
    BY <1>8 DEF EndsName
  <2> QED
    BY <1>5, <2>1, <2>2, <2>3, <2>4
<1> QED
  BY <1>5, <1>6, <1>7, <1>8

LEMMA BeforeIs ==
    ASSUME NEW s \in Seq(Signs), NEW i \in 1 .. Len(s)
    PROVE  /\ Before(i, s) \in Seq(Signs) /\ Len(Before(i, s)) = i - 1
           /\ \A j \in 1 .. i - 1 : Before(i, s)[j] = s[j]
  BY DEF Before

LEMMA BehindIs ==
    ASSUME NEW s \in Seq(Signs), NEW i \in 0 .. Len(s)
    PROVE  /\ Behind(i, s) \in Seq(Signs) /\ Len(Behind(i, s)) = Len(s) - i
           /\ \A j \in 1 .. Len(s) - i : Behind(i, s)[j] = s[i + j]
<1>1. i + 1 \in Nat /\ Len(s) \in Nat
  OBVIOUS
<1> QED
  BY <1>1 DEF Behind

LEMMA SameSeq ==
    ASSUME NEW s \in Seq(Signs), NEW t \in Seq(Signs), Len(s) = Len(t),
           \A i \in 1 .. Len(s) : s[i] = t[i]
    PROVE  s = t
  BY SeqEqual

(* Without its tag a reference has the same first slash, and what stands
   behind the host has the tag of the whole. *)
LEMMA HostComesOff ==
    ASSUME NEW ref \in Seq(Signs), NEW d
    PROVE  LET t == TagColon(ref)
               cut == IF t = 0 THEN ref ELSE Before(t, ref)
               s == FirstPlace("/", ref)
           IN  /\ cut \in Seq(Signs) /\ FirstPlace("/", cut) = s
               /\ s > 0 => /\ Before(s, cut) = Before(s, ref)
                           /\ Split(Behind(s, ref), TagColon(Behind(s, ref)), d)
                              = [repo |-> Behind(s, cut), tag |-> IF t = 0 THEN d ELSE Behind(t, ref)]
<1> DEFINE t == TagColon(ref)
           cut == IF t = 0 THEN ref ELSE Before(t, ref)
           s == FirstPlace("/", ref)
           rest == Behind(s, ref)
           n == IF t = 0 THEN Len(ref) ELSE t - 1
<1>1. /\ t \in 0 .. Len(ref) /\ Len(ref) \in Nat
      /\ t # 0 => EndsName(t, ref)
      /\ \A c : EndsName(c, ref) => t = c
  BY TagColonIs
<1>2. /\ s = 0 => \A i \in 1 .. Len(ref) : ref[i] # "/"
      /\ s # 0 => s \in 1 .. Len(ref) /\ ref[s] = "/"
      /\ \A i \in 1 .. Len(ref) : ref[i] = "/" => s <= i
      /\ s \in 0 .. Len(ref)
  BY FirstPlaceIs DEF Places
<1> HIDE DEF t, s
<1>3. /\ cut \in Seq(Signs) /\ Len(cut) = n /\ n \in 0 .. Len(ref)
      /\ \A i \in 1 .. n : cut[i] = ref[i]
  <2>1. CASE t = 0
    BY <1>1, <2>1
  <2>2. CASE t # 0
    BY <1>1, <2>2, BeforeIs
  <2> QED
    BY <2>1, <2>2
<1>4. \A i \in 1 .. Len(ref) : ref[i] = "/" => i <= n
  BY <1>1 DEF EndsName
<1> HIDE DEF cut, n
<1>5. FirstPlace("/", cut) = s
  <2> DEFINE f == FirstPlace("/", cut)
  <2>1. /\ f = 0 => \A i \in 1 .. n : cut[i] # "/"
        /\ f # 0 => f \in 1 .. n /\ cut[f] = "/"
        /\ \A i \in 1 .. n : cut[i] = "/" => f <= i
        /\ f \in 0 .. n
    BY <1>3, FirstPlaceIs DEF Places
  <2> HIDE DEF f
  <2>2. CASE s = 0
    <3>1. f = 0
      BY <1>2, <1>3, <2>1, <2>2
    <3> QED
      BY <2>2, <3>1 DEF f
  <2>3. CASE s # 0
    <3>1. s \in 1 .. n /\ cut[s] = "/"
      BY <1>2, <1>3, <1>4, <2>3
    <3>2. f # 0 /\ f <= s
      BY <2>1, <3>1
    <3>3. s <= f
      BY <1>2, <1>3, <2>1, <3>2
    <3>4. f = s
      BY <1>3, <2>1, <3>1, <3>2, <3>3
    <3> QED
      BY <3>4 DEF f
  <2> QED
    BY <2>2, <2>3
<1>6. ASSUME s > 0
      PROVE  /\ Before(s, cut) = Before(s, ref)
             /\ Split(rest, TagColon(rest), d) = [repo |-> Behind(s, cut), tag |-> IF t = 0 THEN d ELSE Behind(t, ref)]
  <2>1. /\ s \in 1 .. n /\ s \in 1 .. Len(ref) /\ n \in 0 .. Len(ref) /\ Len(ref) \in Nat
        /\ s \in 0 .. Len(ref) /\ s \in 0 .. Len(cut)
    BY <1>1, <1>2, <1>3, <1>4, <1>6
  <2>2. Before(s, cut) = Before(s, ref)
    <3>1. /\ Before(s, cut) \in Seq(Signs) /\ Len(Before(s, cut)) = s - 1
          /\ \A j \in 1 .. s - 1 : Before(s, cut)[j] = cut[j]
      BY <1>3, <2>1, BeforeIs
    <3>2. /\ Before(s, ref) \in Seq(Signs) /\ Len(Before(s, ref)) = s - 1
          /\ \A j \in 1 .. s - 1 : Before(s, ref)[j] = ref[j]
      BY <2>1, BeforeIs
    <3>3. \A j \in 1 .. s - 1 : j \in 1 .. n /\ cut[j] = ref[j]
      BY <1>3, <2>1
    <3>4. \A j \in 1 .. Len(Before(s, cut)) : Before(s, cut)[j] = Before(s, ref)[j]
      BY <3>1, <3>2, <3>3
    <3> QED
      BY <3>1, <3>2, <3>4, SameSeq
  <2>3. /\ rest \in Seq(Signs) /\ Len(rest) = Len(ref) - s
        /\ \A j \in 1 .. Len(ref) - s : rest[j] = ref[s + j]
    BY <2>1, BehindIs
  <2>4. /\ Behind(s, cut) \in Seq(Signs) /\ Len(Behind(s, cut)) = n - s
        /\ \A j \in 1 .. n - s : Behind(s, cut)[j] = cut[s + j]
    BY <1>3, <2>1, BehindIs
  <2> HIDE DEF rest
  <2>5. \A j \in 1 .. n - s : s + j \in 1 .. n /\ j \in 1 .. Len(ref) - s /\ Behind(s, cut)[j] = rest[j]
    <3> SUFFICES ASSUME NEW j \in 1 .. n - s
                 PROVE  s + j \in 1 .. n /\ j \in 1 .. Len(ref) - s /\ Behind(s, cut)[j] = rest[j]
      OBVIOUS
    <3>1. s + j \in 1 .. n /\ j \in 1 .. Len(ref) - s
      BY <2>1
    <3>2. cut[s + j] = ref[s + j]
      BY <1>3, <3>1
    <3> QED
      BY <2>3, <2>4, <3>1, <3>2
  <2>6. CASE t = 0
    <3>1. \A c : ~EndsName(c, rest)
      <4>1. SUFFICES ASSUME NEW c, EndsName(c, rest) PROVE EndsName(s + c, ref)
        BY <1>1, <1>2, <2>6 DEF EndsName
      <4>2. /\ c \in 1 .. Len(ref) - s /\ rest[c] = ":" /\ ref[s + c] = ":"
            /\ \A i \in 1 .. Len(ref) - s : rest[i] \in {":", "/"} => i <= c
        BY <2>3, <4>1 DEF EndsName
      <4>3. s + c \in 1 .. Len(ref)
        BY <2>1, <4>2
      <4>4. ASSUME NEW i \in 1 .. Len(ref), ref[i] \in {":", "/"} PROVE i <= s + c
        <5>1. CASE i <= s
          BY <2>1, <4>2, <5>1
        <5>2. CASE i > s
          <6>1. i - s \in 1 .. Len(ref) - s /\ s + (i - s) = i
            BY <2>1, <5>2
          <6>2. rest[i - s] = ref[i]
            BY <2>3, <6>1
          <6> QED
            BY <2>1, <4>2, <4>4, <6>1, <6>2
        <5> QED
          BY <2>1, <5>1, <5>2
      <4> QED
        BY <4>2, <4>3, <4>4 DEF EndsName
    <3>2. TagColon(rest) = 0
      BY <2>3, <3>1, TagColonIs
    <3>3. Len(rest) = Len(Behind(s, cut)) /\ n = Len(ref)
      BY <2>3, <2>4, <2>6 DEF n
    <3>4. rest = Behind(s, cut)
      BY <2>3, <2>4, <2>5, <3>3, SameSeq
    <3> QED
      BY <2>2, <2>6, <3>2, <3>4 DEF Split
  <2>7. CASE t # 0
    <3>1. EndsName(t, ref) /\ t > s /\ n = t - 1 /\ t \in 1 .. Len(ref)
      BY <1>1, <2>1, <2>7 DEF EndsName, n
    <3>2. EndsName(t - s, rest)
      <4>1. t - s \in 1 .. Len(rest) /\ s + (t - s) = t
        BY <2>1, <2>3, <3>1
      <4>2. rest[t - s] = ":"
        BY <2>3, <3>1, <4>1 DEF EndsName
      <4>3. ASSUME NEW i \in 1 .. Len(rest), rest[i] \in {":", "/"} PROVE i <= t - s
        <5>1. s + i \in 1 .. Len(ref) /\ ref[s + i] \in {":", "/"}
          BY <2>1, <2>3, <4>3
        <5>2. s + i <= t
          BY <3>1, <5>1 DEF EndsName
        <5> QED
          BY <2>1, <3>1, <5>2
      <4> QED
        BY <4>1, <4>2, <4>3 DEF EndsName
    <3>3. TagColon(rest) = t - s /\ t - s \in 1 .. Len(rest) /\ t - s \in 0 .. Len(rest)
      BY <2>3, <3>2, TagColonIs DEF EndsName
    <3>4. Before(t - s, rest) = Behind(s, cut)
      <4>1. /\ Before(t - s, rest) \in Seq(Signs) /\ Len(Before(t - s, rest)) = t - s - 1
            /\ \A j \in 1 .. t - s - 1 : Before(t - s, rest)[j] = rest[j]
        BY <2>3, <3>3, BeforeIs
      <4>2. n - s = t - s - 1
        BY <2>1, <3>1
      <4>3. \A j \in 1 .. Len(Before(t - s, rest)) : Before(t - s, rest)[j] = Behind(s, cut)[j]
        BY <2>5, <4>1, <4>2
      <4> QED
        BY <2>4, <4>1, <4>2, <4>3, SameSeq
    <3>5. Behind(t - s, rest) = Behind(t, ref)
      <4>1. /\ Behind(t - s, rest) \in Seq(Signs) /\ Len(Behind(t - s, rest)) = Len(rest) - (t - s)
            /\ \A j \in 1 .. Len(rest) - (t - s) : Behind(t - s, rest)[j] = rest[t - s + j]
        BY <2>3, <3>3, BehindIs
      <4>2. /\ Behind(t, ref) \in Seq(Signs) /\ Len(Behind(t, ref)) = Len(ref) - t
            /\ \A j \in 1 .. Len(ref) - t : Behind(t, ref)[j] = ref[t + j]
        <5>1. t \in 0 .. Len(ref)
          BY <3>1
        <5> HIDE DEF t
        <5> QED
          BY <5>1, BehindIs
      <4>3. Len(rest) - (t - s) = Len(ref) - t
        BY <2>1, <2>3, <3>1
      <4>4. ASSUME NEW j \in 1 .. Len(ref) - t PROVE rest[t - s + j] = ref[t + j]
        <5>1. t - s + j \in 1 .. Len(ref) - s /\ s + (t - s + j) = t + j
          BY <2>1, <3>1
        <5> QED
          BY <2>3, <5>1
      <4> QED
        BY <4>1, <4>2, <4>3, <4>4, SameSeq
    <3> QED
      BY <2>1, <2>2, <2>7, <3>1, <3>3, <3>4, <3>5 DEF Split
  <2> QED
    BY <2>6, <2>7
<1> QED
  BY <1>3, <1>5, <1>6 DEF t, s, cut

(* What Docker makes of a name and its tag is what parseImageRef makes of the
   reference, unless that has a digest. *)
LEMMA NamesAgree ==
    ASSUME NEW ref \in Seq(Signs), Places("@", ref) = {}
    PROVE  DockerName(pullImage(ref)) = parseImageRef(ref)
<1> DEFINE t == TagColon(ref)
           cut == IF t = 0 THEN ref ELSE Before(t, ref)
           s == FirstPlace("/", ref)
           first == Before(s, ref)
           Hosted == s > 0 /\ IsHost(first)
           host == IF Hosted /\ first # <<"docker.io">> THEN first ELSE Hub
           rest == IF Hosted THEN Behind(s, ref) ELSE ref
           part == Split(rest, TagColon(rest), <<"latest">>)
           behind == IF Hosted THEN Behind(s, cut) ELSE cut
<1>1. pullImage(ref) = [repo |-> cut, tag |-> IF t = 0 THEN <<"latest">> ELSE Behind(t, ref)]
  BY DEF pullImage, Split
<1>2. /\ FirstPlace("/", cut) = s
      /\ s > 0 => /\ Before(s, cut) = first
                  /\ Split(Behind(s, ref), TagColon(Behind(s, ref)), <<"latest">>)
                     = [repo |-> Behind(s, cut), tag |-> IF t = 0 THEN <<"latest">> ELSE Behind(t, ref)]
  BY HostComesOff
<1>3. FirstPlace("@", rest) = 0
  <2>1. \A i \in 1 .. Len(ref) : ref[i] # "@"
    BY DEF Places
  <2>2. CASE Hosted
    <3>1. s \in 0 .. Len(ref) /\ s \in Nat /\ Len(ref) \in Nat
      BY FirstPlaceIs DEF Places
    <3> HIDE DEF s
    <3>2. /\ Behind(s, ref) \in Seq(Signs) /\ Len(Behind(s, ref)) = Len(ref) - s
          /\ \A j \in 1 .. Len(ref) - s : Behind(s, ref)[j] = ref[s + j]
      BY <3>1, BehindIs
    <3>3. \A j \in 1 .. Len(ref) - s : s + j \in 1 .. Len(ref)
      BY <3>1
    <3>4. Places("@", Behind(s, ref)) = {}
      BY <2>1, <3>2, <3>3 DEF Places
    <3> QED
      BY <2>2, <3>4 DEF FirstPlace
  <2>3. CASE ~Hosted
    BY <2>3 DEF FirstPlace
  <2> QED
    BY <2>2, <2>3
<1>4. part = [repo |-> behind, tag |-> IF t = 0 THEN <<"latest">> ELSE Behind(t, ref)]
  BY <1>2 DEF Split
<1>5. parseImageRef(ref) = [host |-> host, tag |-> part.tag,
         repo |-> IF host = Hub /\ Places("/", part.repo) = {} THEN <<"library", "/">> \o part.repo ELSE part.repo]
  BY <1>3 DEF parseImageRef
<1>6. DockerName([repo |-> cut, tag |-> part.tag]) = [host |-> host, tag |-> part.tag,
         repo |-> IF host = Hub /\ Places("/", behind) = {} THEN <<"library", "/">> \o behind ELSE behind]
  BY <1>2 DEF DockerName
<1>7. pullImage(ref) = [repo |-> cut, tag |-> part.tag] /\ part.repo = behind
  BY <1>1, <1>4
<1> HIDE DEF cut, part, host, behind
<1> QED
  BY <1>5, <1>6, <1>7

(* The tag that is looked up names the same as what is pulled. *)
LEMMA LocalTagAgrees ==
    ASSUME NEW ref \in Seq(Signs)
    PROVE  /\ DockerName(Split(findLocalTag(ref), TagColon(findLocalTag(ref)), <<>>)) = DockerName(pullImage(ref))
           /\ Places("@", findLocalTag(ref)) = {} => Places("@", ref) = {}
<1>1. CASE TagColon(ref) # 0
  BY <1>1 DEF findLocalTag, pullImage, Split
<1>2. CASE TagColon(ref) = 0
  <2> DEFINE tag == ref \o <<":", "latest">>  n == Len(ref) + 1
  <2>1. /\ tag \in Seq(Signs) /\ Len(ref) \in Nat /\ Len(tag) = n + 1
        /\ \A i \in 1 .. n - 1 : tag[i] = ref[i]
        /\ tag[n] = ":" /\ tag[n + 1] = "latest"
    <3> DEFINE new == <<":", "latest">>
    <3>1. new \in Seq(Signs) /\ Len(new) = 2 /\ new[1] = ":" /\ new[2] = "latest"
      BY DEF Signs, Separators
    <3> HIDE DEF new
    <3>2. /\ ref \o new \in Seq(Signs) /\ Len(ref \o new) = Len(ref) + Len(new) /\ Len(ref) \in Nat
          /\ \A i \in 1 .. Len(ref) + Len(new) :
                (ref \o new)[i] = IF i <= Len(ref) THEN ref[i] ELSE new[i - Len(ref)]
      BY <3>1, ConcatProperties, LenProperties
    <3> QED
      BY <3>1, <3>2 DEF new
  <2> HIDE DEF tag
  <2>2. EndsName(n, tag)
    <3>1. ASSUME NEW i \in 1 .. n + 1, tag[i] \in {":", "/"} PROVE i <= n
      BY <2>1, <3>1
    <3> QED
      BY <2>1, <3>1 DEF EndsName
  <2>3. TagColon(tag) = n /\ n # 0
    BY <2>1, <2>2, TagColonIs
  <2>4. Before(n, tag) = ref
    <3>1. n \in 1 .. Len(tag)
      BY <2>1
    <3>2. /\ Before(n, tag) \in Seq(Signs) /\ Len(Before(n, tag)) = n - 1
          /\ \A j \in 1 .. n - 1 : Before(n, tag)[j] = tag[j]
      BY <2>1, <3>1, BeforeIs
    <3> QED
      BY <2>1, <3>2, SameSeq
  <2>5. Behind(n, tag) = <<"latest">>
    <3>1. n \in 0 .. Len(tag)
      BY <2>1
    <3>2. /\ Behind(n, tag) \in Seq(Signs) /\ Len(Behind(n, tag)) = Len(tag) - n
          /\ \A j \in 1 .. Len(tag) - n : Behind(n, tag)[j] = tag[n + j]
      BY <2>1, <3>1, BehindIs
    <3>3. Len(tag) - n = 1 /\ <<"latest">> \in Seq(Signs) /\ Len(<<"latest">>) = 1 /\ <<"latest">>[1] = "latest"
      BY <2>1 DEF Signs
    <3>4. \A i \in 1 .. Len(Behind(n, tag)) : Behind(n, tag)[i] = <<"latest">>[i]
      BY <2>1, <3>2, <3>3
    <3> QED
      BY <3>2, <3>3, <3>4, SameSeq
  <2>6. Split(tag, TagColon(tag), <<>>) = [repo |-> ref, tag |-> <<"latest">>]
    BY <2>3, <2>4, <2>5 DEF Split
  <2>7. Places("@", tag) = {} => Places("@", ref) = {}
    BY <2>1 DEF Places
  <2> QED
    BY <1>2, <2>6, <2>7 DEF findLocalTag, pullImage, Split, tag
<1> QED
  BY <1>1, <1>2

LEMMA ReferencesAreSeqs == References \subseteq Seq(Signs)
<1> SUFFICES ASSUME NEW ref \in References PROVE ref \in Seq(Signs)
  OBVIOUS
<1>1. PICK n \in 0 .. MaxSeparators : ref \in Separated(n)
  BY DEF References
<1>2. PICK p \in [1 .. n + 1 -> Pieces], s \in [1 .. n -> Separators] : ref = Woven(p, s)
  BY <1>1 DEF Separated
<1>3. n \in Nat /\ n + 1 \in Nat
  BY ImageRefsAssumption
<1>4. Len(p) = n + 1 /\ Len(s) = n
  BY <1>3, IsASeq, LenProperties
<1>5. Pieces \subseteq Signs /\ Separators \subseteq Signs
  BY DEF Signs
<1>6. ref = [i \in 1 .. 2 * n + 1 |-> IF i % 2 = 1 THEN p[(i + 1) \div 2] ELSE s[i \div 2]]
  <2>1. Len(p) + Len(s) = 2 * n + 1
    BY <1>3, <1>4
  <2> QED
    BY <1>2, <2>1 DEF Woven
<1>7. ASSUME NEW i \in 1 .. 2 * n + 1 PROVE ref[i] \in Signs
  <2>1. CASE i % 2 = 1
    <3>1. (i + 1) \div 2 \in 1 .. n + 1
      BY <1>3
    <3>2. p[(i + 1) \div 2] \in Pieces
      BY <3>1
    <3> QED
      BY <1>5, <1>6, <2>1, <3>2
  <2>2. CASE i % 2 # 1
    <3>1. i \div 2 \in 1 .. n
      BY <1>3, <2>2
    <3>2. s[i \div 2] \in Separators
      BY <3>1
    <3> QED
      BY <1>5, <1>6, <2>2, <3>2
  <2> QED
    BY <2>1, <2>2
<1> QED
  BY <1>3, <1>6, <1>7, IsASeq

LEMMA ReadAlikeHolds == ReadAlike
<1> SUFFICES ASSUME NEW ref \in References, IsShown(findLocalTag(ref))
             PROVE  /\ DockerName(pullImage(ref)) = parseImageRef(ref)
                    /\ DockerName(Split(findLocalTag(ref), TagColon(findLocalTag(ref)), <<>>)) = parseImageRef(ref)
  BY DEF ReadAlike
<1>1. ref \in Seq(Signs)
  BY ReferencesAreSeqs
<1>2. Places("@", findLocalTag(ref)) = {}
  BY DEF IsShown
<1> QED
  BY <1>1, <1>2, NamesAgree, LocalTagAgrees

(* registry.js and docker.js take the same host, repository and tag from a
   reference, and find the image under the tag the pull leaves, although each
   cuts the reference its own way: for references of any length. *)
THEOREM NamesAreReadAlike == UpdatesSpec => []ChecksWhatPullFetches
<1>1. ChecksWhatPullFetches
  BY ReadAlikeHolds DEF ChecksWhatPullFetches
<1> QED
  BY <1>1, PTL
-----------------------------------------------------------------------------
(***************************************************************************)
(* The sections of the owner's state.  Each section has a condition on its *)
(* rows (TokensOk, UpdatesOk, ...) that its writers keep and that implies  *)
(* what the validation asks for.  Where rows are dropped at the cap it     *)
(* needs an order: the list of stacks is sorted by time though nothing     *)
(* sorts it (Climbs), the audit log the other way round (Falls), and the   *)
(* tables that are sorted before they are cut may be in any order.  That   *)
(* no more is dismissed at once than fits the list is a pigeonhole.        *)
(* Filter, sort and table are recursive functions, and so is the set of    *)
(* rows that n calls lead to: each is climbed step by step (Climb).        *)
(***************************************************************************)

(* What holds at 0, and at every number of an interval after the one before
   it, holds in all of it. *)
LEMMA Climb ==
    ASSUME NEW N \in Nat, NEW Held, 0 \in Held, \A n \in 1 .. N : n - 1 \in Held => n \in Held
    PROVE  \A n \in 0 .. N : n \in Held
<1> DEFINE Bad == {n \in 0 .. N : n \notin Held}
<1> SUFFICES ASSUME Bad # {} PROVE FALSE
  OBVIOUS
<1>1. PICK k \in Bad : \A j \in Bad : k <= j
  <2>1. Bad \in SUBSET Nat
    OBVIOUS
  <2> HIDE DEF Bad
  <2> QED
    BY <2>1, Least
<1>2. k \in 1 .. N /\ k - 1 \in 0 .. N /\ ~(k <= k - 1)
  BY <1>1
<1>3. k - 1 \in Held
  BY <1>1, <1>2
<1> QED
  BY <1>1, <1>2, <1>3

(* A function that goes step by step. *)
Steps(g, k, S, base, H) ==
    /\ g \in [0 .. k -> S] /\ g[0] = base
    /\ \A n \in 1 .. k : g[n] = H[<<g[n - 1], n>>]

LEMMA Iterates ==
    ASSUME NEW N \in Nat, NEW S, NEW base \in S, NEW H \in [S \X (1 .. N) -> S]
    PROVE  \E g : Steps(g, N, S, base, H)
<1> DEFINE Held == {k \in 0 .. N : \E g : Steps(g, k, S, base, H)}
<1>1. 0 \in Held
  <2>1. Steps([n \in 0 .. 0 |-> base], 0, S, base, H)
    BY DEF Steps
  <2>2. 0 \in 0 .. N
    OBVIOUS
  <2> QED
    BY <2>1, <2>2
<1>2. ASSUME NEW k \in 1 .. N, k - 1 \in Held PROVE k \in Held
  <2>1. PICK g : Steps(g, k - 1, S, base, H)
    BY <1>2
  <2> DEFINE new == H[<<g[k - 1], k>>]
             h == [n \in 0 .. k |-> IF n = k THEN new ELSE g[n]]
  <2>2. g \in [0 .. (k - 1) -> S] /\ g[0] = base /\ \A n \in 1 .. (k - 1) : g[n] = H[<<g[n - 1], n>>]
    BY <2>1 DEF Steps
  <2>0. k - 1 \in 0 .. (k - 1) /\ g[k - 1] \in S
    BY <2>2
  <2>3. new \in S
    BY <2>0
  <2> HIDE DEF new
  <2>4. \A n \in 0 .. (k - 1) : n \in 0 .. k /\ h[n] = g[n]
    OBVIOUS
  <2>5. h \in [0 .. k -> S] /\ h[0] = base /\ h[k] = new
    BY <2>2, <2>3
  <2> HIDE DEF h
  <2>6. ASSUME NEW n \in 1 .. k PROVE h[n] = H[<<h[n - 1], n>>]
    <3>1. n - 1 \in 0 .. (k - 1) /\ h[n - 1] = g[n - 1]
      BY <2>4
    <3>2. CASE n = k
      BY <2>5, <3>1, <3>2 DEF new
    <3>3. CASE n # k
      <4>1. n \in 1 .. (k - 1) /\ n \in 0 .. (k - 1)
        BY <3>3
      <4> QED
        BY <2>2, <2>4, <3>1, <4>1
    <3> QED
      BY <3>2, <3>3
  <2>7. Steps(h, k, S, base, H)
    BY <2>5, <2>6 DEF Steps
  <2> QED
    BY <2>7
<1> HIDE DEF Held
<1>3. N \in Held
  BY <1>1, <1>2, Climb
<1> QED
  BY <1>3 DEF Held
-----------------------------------------------------------------------------

(* The rows of s are rows of t, in the same order. *)
Picks(s, t) ==
    \E f \in [DOMAIN s -> DOMAIN t] :
        /\ \A i, j \in DOMAIN s : i < j => f[i] < f[j]
        /\ \A i \in DOMAIN s : s[i] = t[f[i]]

LEMMA OnlyUnfolds ==
    ASSUME NEW R, NEW rows \in Seq(R), NEW S
    PROVE  \E f : /\ f[0] = <<>> /\ Only(rows, S) = f[Len(rows)]
                  /\ \A n \in 1 .. Len(rows) :
                        f[n] = IF rows[n] \in S THEN Append(f[n - 1], rows[n]) ELSE f[n - 1]
<1> DEFINE N == Len(rows)
           Step(s, n) == IF rows[n] \in S THEN Append(s, rows[n]) ELSE s
           U(h) == h = [n \in 0 .. N |-> IF n = 0 THEN <<>> ELSE Step(h[n - 1], n)]
           T == Seq(R)
           H == [p \in T \X (1 .. N) |-> Step(p[1], p[2])]
<1>1. H \in [T \X (1 .. N) -> T]
  OBVIOUS
<1>2. N \in Nat /\ <<>> \in T
  OBVIOUS
<1>3. \A s \in T, n \in 1 .. N : H[<<s, n>>] = Step(s, n)
  OBVIOUS
<1>4. \E g : Steps(g, N, T, <<>>, H)
  <2> HIDE DEF H, T, N
  <2> QED
    BY <1>1, <1>2, Iterates
<1> HIDE DEF H, T
<1>5. PICK g : Steps(g, N, T, <<>>, H)
  BY <1>4
<1>6. g \in [0 .. N -> T] /\ g[0] = <<>> /\ \A n \in 1 .. N : g[n] = Step(g[n - 1], n)
  <2> HIDE DEF N, Step
  <2>1. g \in [0 .. N -> T] /\ g[0] = <<>> /\ \A n \in 1 .. N : g[n] = H[<<g[n - 1], n>>]
    BY <1>5 DEF Steps
  <2>2. \A n \in 1 .. N : g[n - 1] \in T
    BY <1>2, <2>1
  <2> QED
    BY <1>3, <2>1, <2>2
<1>7. U(g)
  <2> HIDE DEF N, Step
  <2> QED
    BY <1>2, <1>6
<1>8. Only(rows, S) = (CHOOSE h : U(h))[N]
  BY DEF Only
<1>9. PICK f : U(f) /\ Only(rows, S) = f[N]
  BY <1>7, <1>8
<1> QED
  <2>1. f[0] = <<>> /\ \A n \in 1 .. N : f[n] = Step(f[n - 1], n)
    <3> HIDE DEF N, Step
    <3> QED
      BY <1>2, <1>9
  <2> QED
    BY <1>9, <2>1

LEMMA SeqIs ==
    ASSUME NEW R, NEW s \in Seq(R)
    PROVE  /\ Len(s) \in Nat /\ DOMAIN s = 1 .. Len(s) /\ \A i \in DOMAIN s : s[i] \in R
           /\ ToSet(s) \subseteq R
  BY DEF ToSet

LEMMA AppendIs ==
    ASSUME NEW R, NEW s \in Seq(R), NEW x \in R
    PROVE  /\ Append(s, x) \in Seq(R) /\ Len(Append(s, x)) = Len(s) + 1
           /\ Append(s, x)[Len(s) + 1] = x
           /\ \A i \in DOMAIN s : Append(s, x)[i] = s[i]
           /\ ToSet(Append(s, x)) = ToSet(s) \cup {x}
<1>1. /\ Append(s, x) \in Seq(R) /\ Len(s) \in Nat /\ Len(Append(s, x)) = Len(s) + 1
      /\ DOMAIN Append(s, x) = 1 .. Len(s) + 1 /\ DOMAIN s = 1 .. Len(s)
      /\ Append(s, x)[Len(s) + 1] = x
      /\ \A i \in 1 .. Len(s) : Append(s, x)[i] = s[i]
  BY AppendProperties, LenProperties
<1>2. ToSet(Append(s, x)) = ToSet(s) \cup {x}
  BY <1>1 DEF ToSet
<1> QED
  BY <1>1, <1>2

(* The first n rows of rows, without those that are not in S. *)
Sifted(s, n, rows, S, R) ==
    /\ s \in Seq(R) /\ Len(s) <= n
    /\ \E f \in [1 .. Len(s) -> 1 .. n] :
          /\ \A i, j \in 1 .. Len(s) : i < j => f[i] < f[j]
          /\ \A i \in 1 .. Len(s) : s[i] = rows[f[i]]
    /\ ToSet(s) = {rows[i] : i \in 1 .. n} \cap S

LEMMA Sifts ==
    ASSUME NEW R, NEW rows \in Seq(R), NEW S, NEW n \in 1 .. Len(rows), NEW s,
           Sifted(s, n - 1, rows, S, R),
           NEW t, t = IF rows[n] \in S THEN Append(s, rows[n]) ELSE s
    PROVE  Sifted(t, n, rows, S, R)
<1>1. s \in Seq(R) /\ Len(s) \in Nat /\ Len(s) <= n - 1 /\ rows[n] \in R
  BY DEF Sifted
<1>2. PICK f \in [1 .. Len(s) -> 1 .. (n - 1)] :
          /\ \A i, j \in 1 .. Len(s) : i < j => f[i] < f[j]
          /\ \A i \in 1 .. Len(s) : s[i] = rows[f[i]]
  BY DEF Sifted
<1>3. {rows[i] : i \in 1 .. n} = {rows[i] : i \in 1 .. (n - 1)} \cup {rows[n]}
  <2>1. 1 .. n = (1 .. (n - 1)) \cup {n}
    OBVIOUS
  <2> QED
    BY <2>1
<1>4. ToSet(s) = {rows[i] : i \in 1 .. (n - 1)} \cap S
  BY DEF Sifted
<1>5. CASE rows[n] \notin S
  <2>1. t = s /\ f \in [1 .. Len(s) -> 1 .. n] /\ Len(s) <= n
    BY <1>1, <1>2, <1>5
  <2>2. ToSet(s) = {rows[i] : i \in 1 .. n} \cap S
    BY <1>3, <1>4, <1>5
  <2>3. Sifted(s, n, rows, S, R)
    BY <1>1, <1>2, <2>1, <2>2 DEF Sifted
  <2> QED
    BY <2>1, <2>3
<1>6. CASE rows[n] \in S
  <2> DEFINE m == Len(s)  g == [i \in 1 .. (m + 1) |-> IF i = m + 1 THEN n ELSE f[i]]
  <2>1. t = Append(s, rows[n])
    BY <1>6
  <2>2. /\ t \in Seq(R) /\ Len(t) = m + 1 /\ t[m + 1] = rows[n]
        /\ \A i \in 1 .. m : t[i] = s[i]
        /\ ToSet(t) = ToSet(s) \cup {rows[n]}
    BY <1>1, <2>1, AppendIs, SeqIs
  <2>3. g \in [1 .. (m + 1) -> 1 .. n]
    BY <1>1, <1>2
  <2>4. g[m + 1] = n /\ \A i \in 1 .. m : g[i] = f[i] /\ g[i] \in 1 .. (n - 1)
    BY <1>1, <1>2
  <2> HIDE DEF g
  <2>5. \A i \in 1 .. (m + 1) : i = m + 1 \/ i \in 1 .. m
    BY <1>1
  <2>6. ASSUME NEW i \in 1 .. (m + 1), NEW j \in 1 .. (m + 1), i < j PROVE g[i] < g[j]
    <3>1. i \in 1 .. m /\ g[i] = f[i] /\ g[i] < n
      BY <1>1, <2>4, <2>6
    <3> QED
      BY <1>2, <2>4, <2>5, <2>6, <3>1
  <2>7. \A i \in 1 .. (m + 1) : t[i] = rows[g[i]]
    BY <1>2, <2>2, <2>4, <2>5
  <2>8. ToSet(t) = {rows[i] : i \in 1 .. n} \cap S
    BY <1>3, <1>4, <1>6, <2>2
  <2>9. Len(t) <= n
    BY <1>1, <2>2
  <2>10. \E h \in [1 .. Len(t) -> 1 .. n] :
          /\ \A i, j \in 1 .. Len(t) : i < j => h[i] < h[j]
          /\ \A i \in 1 .. Len(t) : t[i] = rows[h[i]]
    BY <2>2, <2>3, <2>6, <2>7
  <2> QED
    BY <2>2, <2>8, <2>9, <2>10 DEF Sifted
<1> QED
  BY <1>5, <1>6

LEMMA OnlyIs ==
    ASSUME NEW R, NEW rows \in Seq(R), NEW S
    PROVE  /\ Only(rows, S) \in Seq(R) /\ Len(Only(rows, S)) <= Len(rows)
           /\ Picks(Only(rows, S), rows) /\ ToSet(Only(rows, S)) = ToSet(rows) \cap S
<1>1. PICK f : /\ f[0] = <<>> /\ Only(rows, S) = f[Len(rows)]
               /\ \A n \in 1 .. Len(rows) :
                     f[n] = IF rows[n] \in S THEN Append(f[n - 1], rows[n]) ELSE f[n - 1]
  BY OnlyUnfolds
<1> DEFINE Held == {n \in 0 .. Len(rows) : Sifted(f[n], n, rows, S, R)}
<1>2. 0 \in Held
  <2>1. f[0] \in Seq(R) /\ Len(f[0]) = 0 /\ DOMAIN f[0] = {}
    BY <1>1
  <2>2. 1 .. 0 = {} /\ ToSet(f[0]) = {} /\ 0 \in 0 .. Len(rows)
    BY <2>1 DEF ToSet
  <2>3. <<>> \in [1 .. 0 -> 1 .. 0]
    OBVIOUS
  <2>4. \E h \in [1 .. Len(f[0]) -> 1 .. 0] :
          /\ \A i, j \in 1 .. Len(f[0]) : i < j => h[i] < h[j]
          /\ \A i \in 1 .. Len(f[0]) : f[0][i] = rows[h[i]]
    BY <2>1, <2>3
  <2> QED
    BY <2>1, <2>2, <2>4 DEF Sifted
<1>3. \A n \in 1 .. Len(rows) : n - 1 \in Held => n \in Held
  <2> SUFFICES ASSUME NEW n \in 1 .. Len(rows), n - 1 \in Held PROVE n \in Held
    OBVIOUS
  <2>1. f[n] = IF rows[n] \in S THEN Append(f[n - 1], rows[n]) ELSE f[n - 1]
    BY <1>1
  <2>2. Sifted(f[n - 1], n - 1, rows, S, R)
    OBVIOUS
  <2>3. Sifted(f[n], n, rows, S, R)
    BY <2>1, <2>2, Sifts
  <2> QED
    BY <2>3
<1>4. Len(rows) \in Nat /\ Len(rows) \in 0 .. Len(rows)
  OBVIOUS
<1>5. Len(rows) \in Held
  <2> HIDE DEF Held
  <2>1. \A n \in 0 .. Len(rows) : n \in Held
    BY <1>2, <1>3, <1>4, Climb
  <2> QED
    BY <1>4, <2>1
<1>6. Sifted(Only(rows, S), Len(rows), rows, S, R)
  BY <1>1, <1>5
<1>7. DOMAIN rows = 1 .. Len(rows) /\ ToSet(rows) = {rows[i] : i \in 1 .. Len(rows)}
  BY DEF ToSet
<1>8. Only(rows, S) \in Seq(R)
  BY <1>6 DEF Sifted
<1>9. DOMAIN Only(rows, S) = 1 .. Len(Only(rows, S))
  BY <1>8
<1> QED
  BY <1>6, <1>7, <1>8, <1>9 DEF Sifted, Picks
-----------------------------------------------------------------------------

OneEach(s) == \A i, j \in DOMAIN s : s[i].id = s[j].id => i = j
OneUrl(s) == \A i, j \in DOMAIN s : s[i].url = s[j].url => i = j
Falls(s) == \A i, j \in DOMAIN s : i < j => s[j].at <= s[i].at
Climbs(s) == \A i, j \in DOMAIN s : i < j => s[i].at <= s[j].at

LEMMA PicksKeep ==
    ASSUME NEW R, NEW s \in Seq(R), NEW t \in Seq(R), Picks(s, t)
    PROVE  /\ OneEach(t) => OneEach(s)
           /\ Falls(t) => Falls(s)
           /\ Climbs(t) => Climbs(s)
           /\ OneUrl(t) => OneUrl(s)
           /\ ToSet(s) \subseteq ToSet(t)
<1>1. PICK f \in [DOMAIN s -> DOMAIN t] :
        /\ \A i, j \in DOMAIN s : i < j => f[i] < f[j]
        /\ \A i \in DOMAIN s : s[i] = t[f[i]]
  BY DEF Picks
<1>2. DOMAIN s \subseteq Nat /\ DOMAIN t \subseteq Nat
  OBVIOUS
<1>3. \A i, j \in DOMAIN s : f[i] = f[j] => i = j
  <2>1. \A i, j \in DOMAIN s : f[i] = f[j] => ~(i < j) /\ ~(j < i)
    BY <1>1, <1>2
  <2> QED
    BY <1>2, <2>1
<1>4. OneEach(t) => OneEach(s)
  BY <1>1, <1>3 DEF OneEach
<1>5. OneUrl(t) => OneUrl(s)
  BY <1>1, <1>3 DEF OneUrl
<1> QED
  BY <1>1, <1>4, <1>5 DEF Falls, Climbs, ToSet

LEMMA FirstOfIs ==
    ASSUME NEW R, NEW rows \in Seq(R), NEW n \in Nat
    PROVE  /\ FirstOf(rows, n) \in Seq(R) /\ Len(FirstOf(rows, n)) <= n
           /\ Picks(FirstOf(rows, n), rows)
           /\ \A i \in DOMAIN rows : i <= n => /\ i \in DOMAIN FirstOf(rows, n)
                                              /\ FirstOf(rows, n)[i] = rows[i]
           /\ \A i \in DOMAIN FirstOf(rows, n) : /\ i \in DOMAIN rows /\ i <= n
                                                /\ FirstOf(rows, n)[i] = rows[i]
<1> DEFINE m == IF n < Len(rows) THEN n ELSE Len(rows)  s == FirstOf(rows, n)
<1>1. m \in 0 .. Len(rows) /\ m <= n /\ Len(rows) \in Nat /\ DOMAIN rows = 1 .. Len(rows)
  OBVIOUS
<1>2. s = SubSeq(rows, 1, m)
  BY DEF FirstOf
<1>3. \A i \in DOMAIN rows : i <= n <=> i <= m
  BY <1>1
<1> HIDE DEF m, s
<1>4. s \in Seq(R) /\ Len(s) = m /\ \A i \in 1 .. m : s[i] = rows[i]
  <2>1. \A i \in 1 .. m : rows[i] \in R
    BY <1>1
  <2> QED
    BY <1>1, <1>2, <2>1, SubSeqProperties
<1>5. DOMAIN s = 1 .. m
  BY <1>4
<1>6. Picks(s, rows)
  <2>1. [i \in 1 .. m |-> i] \in [DOMAIN s -> DOMAIN rows]
    BY <1>1, <1>5
  <2> QED
    BY <1>4, <1>5, <2>1 DEF Picks
<1>7. \A i \in DOMAIN rows : i <= n => i \in DOMAIN s /\ s[i] = rows[i]
  BY <1>1, <1>3, <1>4, <1>5
<1>8. \A i \in DOMAIN s : i \in DOMAIN rows /\ i <= n /\ s[i] = rows[i]
  BY <1>1, <1>4, <1>5
<1>9. Len(s) <= n
  BY <1>1, <1>4
<1> QED
  BY <1>4, <1>6, <1>7, <1>8, <1>9 DEF s

LEMMA LastOfIs ==
    ASSUME NEW R, NEW rows \in Seq(R), NEW n \in Nat
    PROVE  /\ LastOf(rows, n) \in Seq(R) /\ Len(LastOf(rows, n)) <= n
           /\ Picks(LastOf(rows, n), rows)
           /\ \E d \in Nat :
                 /\ \A i \in DOMAIN rows :
                       i > d => i - d \in DOMAIN LastOf(rows, n) /\ LastOf(rows, n)[i - d] = rows[i]
                 /\ \A i \in DOMAIN LastOf(rows, n) :
                       i + d \in DOMAIN rows /\ LastOf(rows, n)[i] = rows[i + d]
                 /\ n > 0 /\ Len(rows) > 0 => d < Len(rows)
<1> DEFINE d == IF n < Len(rows) THEN Len(rows) - n ELSE 0  s == LastOf(rows, n)  N == Len(rows)
<1>1. d \in 0 .. N /\ N - d <= n /\ N \in Nat /\ DOMAIN rows = 1 .. N /\ (n > 0 /\ N > 0 => d < N)
  OBVIOUS
<1>2. s = SubSeq(rows, d + 1, N)
  BY DEF LastOf
<1> HIDE DEF d, s, N
<1>3. s \in Seq(R) /\ Len(s) = N - d /\ \A i \in 1 .. (N - d) : s[i] = rows[i + d]
  <2>1. \A i \in (d + 1) .. N : rows[i] \in R
    BY <1>1
  <2>2. /\ SubSeq(rows, d + 1, N) \in Seq(R)
        /\ Len(SubSeq(rows, d + 1, N)) = IF d + 1 <= N THEN N - (d + 1) + 1 ELSE 0
        /\ \A i \in 1 .. N - (d + 1) + 1 : SubSeq(rows, d + 1, N)[i] = rows[d + 1 + i - 1]
    BY <1>1, <2>1, SubSeqProperties
  <2>3. N - (d + 1) + 1 = N - d /\ \A i \in 1 .. (N - d) : d + 1 + i - 1 = i + d
    BY <1>1
  <2>4. Len(s) = N - d
    <3>1. d + 1 <= N \/ N - d = 0
      BY <1>1
    <3>2. d + 1 <= N => Len(s) = N - (d + 1) + 1
      BY <1>2, <2>2
    <3>3. ~(d + 1 <= N) => Len(s) = 0
      BY <1>2, <2>2
    <3> QED
      BY <1>1, <2>3, <3>1, <3>2, <3>3
  <2>5. \A i \in 1 .. (N - d) : s[i] = rows[d + 1 + i - 1]
    BY <1>2, <2>2, <2>3
  <2>6. \A i \in 1 .. (N - d) : s[i] = rows[i + d]
    BY <2>3, <2>5
  <2> QED
    BY <1>2, <2>2, <2>4, <2>6
<1>4. DOMAIN s = 1 .. (N - d)
  BY <1>3
<1>5. \A i \in DOMAIN s : i + d \in DOMAIN rows /\ s[i] = rows[i + d]
  BY <1>1, <1>3, <1>4
<1>6. \A i \in DOMAIN rows : i > d => i - d \in DOMAIN s /\ s[i - d] = rows[i]
  <2> SUFFICES ASSUME NEW i \in DOMAIN rows, i > d PROVE i - d \in DOMAIN s /\ s[i - d] = rows[i]
    OBVIOUS
  <2>1. i - d \in 1 .. (N - d) /\ (i - d) + d = i
    BY <1>1
  <2> QED
    BY <1>4, <1>5, <2>1
<1>7. Picks(s, rows)
  <2> DEFINE f == [i \in DOMAIN s |-> i + d]
  <2>1. f \in [DOMAIN s -> DOMAIN rows]
    BY <1>5
  <2>2. \A i, j \in DOMAIN s : i < j => f[i] < f[j]
    BY <1>1, <1>4
  <2> QED
    BY <1>5, <2>1, <2>2 DEF Picks
<1>8. Len(s) <= n
  BY <1>1, <1>3
<1> QED
  BY <1>1, <1>3, <1>5, <1>6, <1>7, <1>8 DEF s, N
-----------------------------------------------------------------------------
(* The sort *)

At(rows, now, n) == {row \in ToSet(rows) : row.at + n = now + 1}

LEMMA NewestUnfolds ==
    ASSUME NEW R, NEW rows \in Seq(R), NEW now \in Nat
    PROVE  \E f : /\ f[0] = <<>> /\ NewestFirst(rows, now) = f[now + 1]
                  /\ \A n \in 1 .. (now + 1) : f[n] = f[n - 1] \o Only(rows, At(rows, now, n))
<1> DEFINE N == now + 1
           Step(s, n) == s \o Only(rows, At(rows, now, n))
           U(h) == h = [n \in 0 .. N |-> IF n = 0 THEN <<>> ELSE Step(h[n - 1], n)]
           T == Seq(R)
           H == [p \in T \X (1 .. N) |-> Step(p[1], p[2])]
<1>0. \A s \in T, n \in 1 .. N : Step(s, n) \in T
  BY OnlyIs
<1>2. N \in Nat /\ <<>> \in T
  OBVIOUS
<1>1. H \in [T \X (1 .. N) -> T]
  <2> HIDE DEF Step, T, N
  <2> QED
    BY <1>0
<1>3. \A s \in T, n \in 1 .. N : H[<<s, n>>] = Step(s, n)
  <2> HIDE DEF Step, T, N
  <2> QED
    OBVIOUS
<1>4. \E g : Steps(g, N, T, <<>>, H)
  <2> HIDE DEF H, T, N
  <2> QED
    BY <1>1, <1>2, Iterates
<1> HIDE DEF H, T
<1>5. PICK g : Steps(g, N, T, <<>>, H)
  BY <1>4
<1>6. g \in [0 .. N -> T] /\ g[0] = <<>> /\ \A n \in 1 .. N : g[n] = Step(g[n - 1], n)
  <2> HIDE DEF N, Step
  <2>1. g \in [0 .. N -> T] /\ g[0] = <<>> /\ \A n \in 1 .. N : g[n] = H[<<g[n - 1], n>>]
    BY <1>5 DEF Steps
  <2>2. \A n \in 1 .. N : g[n - 1] \in T
    BY <1>2, <2>1
  <2> QED
    BY <1>3, <2>1, <2>2
<1>7. U(g)
  <2> HIDE DEF N, Step
  <2> QED
    BY <1>2, <1>6
<1>8. NewestFirst(rows, now) = (CHOOSE h : U(h))[N]
  BY DEF NewestFirst, At
<1>9. PICK f : U(f) /\ NewestFirst(rows, now) = f[N]
  BY <1>7, <1>8
<1> QED
  <2>1. f[0] = <<>> /\ \A n \in 1 .. N : f[n] = Step(f[n - 1], n)
    <3> HIDE DEF N, Step
    <3> QED
      BY <1>2, <1>9
  <2> QED
    BY <1>9, <2>1

LEMMA ConcatIs ==
    ASSUME NEW R, NEW s \in Seq(R), NEW t \in Seq(R)
    PROVE  /\ s \o t \in Seq(R) /\ ToSet(s \o t) = ToSet(s) \cup ToSet(t)
           /\ \A i \in DOMAIN s : i \in DOMAIN (s \o t) /\ (s \o t)[i] = s[i]
           /\ \A i \in DOMAIN (s \o t) :
                 \/ i \in DOMAIN s /\ (s \o t)[i] = s[i]
                 \/ /\ i - Len(s) \in DOMAIN t /\ (s \o t)[i] = t[i - Len(s)]
                    /\ i > Len(s)
<1>1. /\ s \o t \in Seq(R) /\ Len(s \o t) = Len(s) + Len(t)
      /\ \A i \in 1 .. Len(s) + Len(t) :
            (s \o t)[i] = IF i <= Len(s) THEN s[i] ELSE t[i - Len(s)]
  BY ConcatProperties
<1>2. Len(s) \in Nat /\ Len(t) \in Nat /\ DOMAIN s = 1 .. Len(s) /\ DOMAIN t = 1 .. Len(t)
  OBVIOUS
<1>3. DOMAIN (s \o t) = 1 .. Len(s) + Len(t)
  BY <1>1
<1> DEFINE c == s \o t  M == Len(s)
<1> HIDE DEF c
<1>4. \A i \in DOMAIN s : i \in DOMAIN c /\ c[i] = s[i]
  BY <1>1, <1>2, <1>3 DEF c
<1>5. \A i \in DOMAIN c : \/ i \in DOMAIN s /\ c[i] = s[i]
                          \/ i - M \in DOMAIN t /\ c[i] = t[i - M] /\ i > M
  BY <1>1, <1>2, <1>3 DEF c
<1>6. \A j \in DOMAIN t : j + M \in DOMAIN c /\ c[j + M] = t[j]
  <2> SUFFICES ASSUME NEW j \in DOMAIN t PROVE j + M \in DOMAIN c /\ c[j + M] = t[j]
    OBVIOUS
  <2>1. j + M \in 1 .. Len(s) + Len(t) /\ ~(j + M <= Len(s)) /\ (j + M) - M = j
    BY <1>2
  <2> QED
    BY <1>1, <1>3, <2>1 DEF c
<1>7. ToSet(c) = ToSet(s) \cup ToSet(t)
  <2>1. ToSet(c) \subseteq ToSet(s) \cup ToSet(t)
    BY <1>5 DEF ToSet
  <2>2. ToSet(s) \subseteq ToSet(c) /\ ToSet(t) \subseteq ToSet(c)
    BY <1>4, <1>6 DEF ToSet
  <2> QED
    BY <2>1, <2>2
<1> QED
  BY <1>1, <1>4, <1>5, <1>7 DEF c

(* What has been sorted after n ages. *)
Sorted(s, n, rows, now, R) ==
    /\ s \in Seq(R) /\ OneEach(s) /\ Falls(s)
    /\ ToSet(s) = {row \in ToSet(rows) : row.at + n > now}

LEMMA Sorts ==
    ASSUME NEW R, NEW rows \in Seq(R), NEW now \in Nat, NEW n \in 1 .. (now + 1),
           \A row \in ToSet(rows) : row.at \in 0 .. now,
           OneEach(rows),
           NEW s, Sorted(s, n - 1, rows, now, R)
    PROVE  Sorted(s \o Only(rows, At(rows, now, n)), n, rows, now, R)
<1> DEFINE t == Only(rows, At(rows, now, n))  c == s \o t
<1>1. t \in Seq(R) /\ OneEach(t) /\ ToSet(t) = ToSet(rows) \cap At(rows, now, n)
  BY OnlyIs, PicksKeep
<1>2. s \in Seq(R) /\ OneEach(s) /\ Falls(s) /\ ToSet(s) = {row \in ToSet(rows) : row.at + (n - 1) > now}
  BY DEF Sorted
<1> HIDE DEF t
<1>3. \A row \in ToSet(s) : row \in ToSet(rows) /\ row.at \in 0 .. now /\ row.at > now + 1 - n
  BY <1>2
<1>4. \A row \in ToSet(t) : row \in ToSet(rows) /\ row.at \in 0 .. now /\ row.at = now + 1 - n
  BY <1>1 DEF At
<1>5. c \in Seq(R) /\ ToSet(c) = ToSet(s) \cup ToSet(t)
  BY <1>1, <1>2, ConcatIs
<1>6. \A i \in DOMAIN c : \/ i \in DOMAIN s /\ c[i] = s[i]
                          \/ i - Len(s) \in DOMAIN t /\ c[i] = t[i - Len(s)] /\ i > Len(s)
  BY <1>1, <1>2, ConcatIs
<1>7. \A i \in DOMAIN s : s[i] \in ToSet(s) /\ i \in 1 .. Len(s)
  BY <1>2 DEF ToSet
<1>8. \A i \in DOMAIN t : t[i] \in ToSet(t)
  BY DEF ToSet
<1>9. DOMAIN c \subseteq Nat /\ Len(s) \in Nat
  BY <1>2, <1>5
<1> HIDE DEF c
<1>10. Falls(c)
  <2> SUFFICES ASSUME NEW i \in DOMAIN c, NEW j \in DOMAIN c, i < j PROVE c[j].at <= c[i].at
    BY DEF Falls
  <2>1. CASE i \in DOMAIN s /\ c[i] = s[i]
    <3>1. CASE j \in DOMAIN s /\ c[j] = s[j]
      BY <1>2, <2>1, <3>1 DEF Falls
    <3>2. CASE j - Len(s) \in DOMAIN t /\ c[j] = t[j - Len(s)]
      <4>1. c[i] \in ToSet(s) /\ c[j] \in ToSet(t)
        BY <1>7, <1>8, <2>1, <3>2
      <4> QED
        BY <1>3, <1>4, <4>1
    <3> QED
      BY <1>6, <3>1, <3>2
  <2>2. CASE i - Len(s) \in DOMAIN t /\ c[i] = t[i - Len(s)] /\ i > Len(s)
    <3>1. j \notin DOMAIN s
      BY <1>7, <1>9, <2>2
    <3>2. c[j] \in ToSet(t) /\ c[i] \in ToSet(t)
      BY <1>6, <1>8, <2>2, <3>1
    <3> QED
      BY <1>4, <3>2
  <2> QED
    BY <1>6, <2>1, <2>2
<1>11. \A a \in ToSet(s), b \in ToSet(t) : a.id # b.id
  <2> SUFFICES ASSUME NEW a \in ToSet(s), NEW b \in ToSet(t), a.id = b.id PROVE FALSE
    OBVIOUS
  <2>1. a \in ToSet(rows) /\ b \in ToSet(rows) /\ a.at # b.at
    BY <1>3, <1>4
  <2> QED
    BY <2>1 DEF ToSet, OneEach
<1>12. OneEach(c)
  <2> SUFFICES ASSUME NEW i \in DOMAIN c, NEW j \in DOMAIN c, c[i].id = c[j].id PROVE i = j
    BY DEF OneEach
  <2>1. CASE i \in DOMAIN s /\ c[i] = s[i]
    BY <1>2, <1>6, <1>7, <1>8, <1>11, <2>1 DEF OneEach
  <2>2. CASE i - Len(s) \in DOMAIN t /\ c[i] = t[i - Len(s)] /\ i > Len(s)
    <3>1. CASE j \in DOMAIN s /\ c[j] = s[j]
      BY <1>7, <1>8, <1>11, <2>2, <3>1
    <3>2. CASE j - Len(s) \in DOMAIN t /\ c[j] = t[j - Len(s)] /\ j > Len(s)
      <4>1. i - Len(s) = j - Len(s)
        BY <1>1, <2>2, <3>2 DEF OneEach
      <4> QED
        BY <1>9, <4>1
    <3> QED
      BY <1>6, <3>1, <3>2
  <2> QED
    BY <1>6, <2>1, <2>2
<1>13. ToSet(c) = {row \in ToSet(rows) : row.at + n > now}
  <2>1. \A row \in ToSet(rows) : row.at + n > now <=> row.at + (n - 1) > now \/ row.at + n = now + 1
    OBVIOUS
  <2> QED
    BY <1>1, <1>2, <1>5, <2>1 DEF At
<1> QED
  BY <1>5, <1>10, <1>12, <1>13 DEF Sorted, c, t

LEMMA NewestFirstIs ==
    ASSUME NEW R, NEW rows \in Seq(R), NEW now \in Nat,
           \A row \in ToSet(rows) : row.at \in 0 .. now,
           OneEach(rows)
    PROVE  /\ NewestFirst(rows, now) \in Seq(R) /\ OneEach(NewestFirst(rows, now))
           /\ Falls(NewestFirst(rows, now)) /\ ToSet(NewestFirst(rows, now)) = ToSet(rows)
<1>1. PICK f : /\ f[0] = <<>> /\ NewestFirst(rows, now) = f[now + 1]
               /\ \A n \in 1 .. (now + 1) : f[n] = f[n - 1] \o Only(rows, At(rows, now, n))
  BY NewestUnfolds
<1> DEFINE N == now + 1  Held == {n \in 0 .. N : Sorted(f[n], n, rows, now, R)}
<1>2. 0 \in Held
  <2>1. f[0] \in Seq(R) /\ DOMAIN f[0] = {}
    BY <1>1
  <2>2. ToSet(f[0]) = {} /\ OneEach(f[0]) /\ Falls(f[0])
    BY <2>1 DEF ToSet, OneEach, Falls
  <2>3. {row \in ToSet(rows) : row.at + 0 > now} = {} /\ 0 \in 0 .. N
    OBVIOUS
  <2>4. Sorted(f[0], 0, rows, now, R)
    BY <2>1, <2>2, <2>3 DEF Sorted
  <2> QED
    BY <2>3, <2>4
<1>3. \A n \in 1 .. N : n - 1 \in Held => n \in Held
  <2> SUFFICES ASSUME NEW n \in 1 .. (now + 1), n - 1 \in Held PROVE n \in Held
    OBVIOUS
  <2>1. Sorted(f[n - 1], n - 1, rows, now, R) /\ f[n] = f[n - 1] \o Only(rows, At(rows, now, n))
    BY <1>1
  <2>2. Sorted(f[n], n, rows, now, R)
    BY <2>1, Sorts
  <2> QED
    BY <2>2
<1>4. N \in Nat /\ N \in 0 .. N
  OBVIOUS
<1>5. N \in Held
  <2> HIDE DEF Held, N
  <2>1. \A n \in 0 .. N : n \in Held
    BY <1>2, <1>3, <1>4, Climb
  <2> QED
    BY <1>4, <2>1
<1>6. Sorted(NewestFirst(rows, now), now + 1, rows, now, R)
  BY <1>1, <1>5
<1>7. {row \in ToSet(rows) : row.at + (now + 1) > now} = ToSet(rows)
  OBVIOUS
<1> QED
  BY <1>6, <1>7 DEF Sorted
-----------------------------------------------------------------------------
(* The table of dismissals *)

LEMMA PutIs ==
    ASSUME NEW R, NEW rows \in Seq(R), NEW row \in R, OneEach(rows)
    PROVE  /\ Put(rows, row) \in Seq(R) /\ OneEach(Put(rows, row))
           /\ Len(Put(rows, row)) <= Len(rows) + 1
           /\ row \in ToSet(Put(rows, row))
           /\ \A r \in ToSet(Put(rows, row)) : r = row \/ r \in ToSet(rows)
           /\ \A r \in ToSet(rows) : r.id # row.id => r \in ToSet(Put(rows, row))
<1>1. Len(rows) \in Nat /\ DOMAIN rows = 1 .. Len(rows) /\ \A i \in DOMAIN rows : rows[i] \in R
  OBVIOUS
<1>2. CASE \E i \in DOMAIN rows : rows[i].id = row.id
  <2> DEFINE p == [i \in DOMAIN rows |-> IF rows[i].id = row.id THEN row ELSE rows[i]]
  <2>1. Put(rows, row) = p
    BY <1>2 DEF Put
  <2>2. p \in [1 .. Len(rows) -> R]
    BY <1>1
  <2>3. p \in Seq(R) /\ Len(p) = Len(rows) /\ DOMAIN p = DOMAIN rows
    BY <1>1, <2>2, IsASeq
  <2>4. \A i \in DOMAIN rows : p[i] = IF rows[i].id = row.id THEN row ELSE rows[i]
    OBVIOUS
  <2> HIDE DEF p
  <2>5. \A i \in DOMAIN rows : p[i].id = rows[i].id
    BY <2>4
  <2>6. OneEach(p)
    BY <2>3, <2>5 DEF OneEach
  <2>7. Len(p) <= Len(rows) + 1
    BY <1>1, <2>3
  <2>8. row \in ToSet(p) /\ \A r \in ToSet(p) : r = row \/ r \in ToSet(rows)
    BY <1>2, <2>3, <2>4 DEF ToSet
  <2>9. \A r \in ToSet(rows) : r.id # row.id => r \in ToSet(p)
    BY <2>3, <2>4 DEF ToSet
  <2> QED
    BY <2>1, <2>3, <2>6, <2>7, <2>8, <2>9
<1>3. CASE ~\E i \in DOMAIN rows : rows[i].id = row.id
  <2> DEFINE p == Append(rows, row)
  <2>1. Put(rows, row) = p
    BY <1>3 DEF Put
  <2>2. /\ p \in Seq(R) /\ Len(p) = Len(rows) + 1 /\ p[Len(rows) + 1] = row
        /\ \A i \in DOMAIN rows : p[i] = rows[i]
        /\ ToSet(p) = ToSet(rows) \cup {row}
    BY AppendIs
  <2>3. DOMAIN p = 1 .. (Len(rows) + 1)
    BY <1>1, <2>2
  <2> HIDE DEF p
  <2>4. \A i \in DOMAIN p : \/ i \in DOMAIN rows /\ p[i] = rows[i]
                            \/ i = Len(rows) + 1 /\ p[i] = row
    BY <1>1, <2>2, <2>3
  <2>5. OneEach(p)
    BY <1>3, <2>4 DEF OneEach
  <2> QED
    BY <1>1, <2>1, <2>2, <2>5
<1> QED
  BY <1>2, <1>3

LEMMA PutAllUnfolds ==
    ASSUME NEW R, NEW rows \in Seq(R), NEW more \in Seq(R)
    PROVE  \E f : /\ f[0] = rows /\ PutAll(rows, more) = f[Len(more)]
                  /\ \A n \in 1 .. Len(more) : f[n] = Put(f[n - 1], more[n])
<1> DEFINE N == Len(more)
           Step(s, n) == Put(s, more[n])
           U(h) == h = [n \in 0 .. N |-> IF n = 0 THEN rows ELSE Step(h[n - 1], n)]
           T == Seq(R)
           H == [p \in T \X (1 .. N) |-> Step(p[1], p[2])]
<1>0. \A s \in T, n \in 1 .. N : Step(s, n) \in T
  <2> SUFFICES ASSUME NEW s \in Seq(R), NEW row \in R PROVE Put(s, row) \in Seq(R)
    OBVIOUS
  <2>1. [i \in DOMAIN s |-> IF s[i].id = row.id THEN row ELSE s[i]] \in [1 .. Len(s) -> R]
    OBVIOUS
  <2>2. [i \in DOMAIN s |-> IF s[i].id = row.id THEN row ELSE s[i]] \in Seq(R)
    BY <2>1, IsASeq
  <2> QED
    BY <2>2 DEF Put
<1>2. N \in Nat /\ rows \in T
  OBVIOUS
<1>1. H \in [T \X (1 .. N) -> T]
  <2> HIDE DEF Step, T, N
  <2> QED
    BY <1>0
<1>3. \A s \in T, n \in 1 .. N : H[<<s, n>>] = Step(s, n)
  <2> HIDE DEF Step, T, N
  <2> QED
    OBVIOUS
<1>4. \E g : Steps(g, N, T, rows, H)
  <2> HIDE DEF H, T, N
  <2> QED
    BY <1>1, <1>2, Iterates
<1> HIDE DEF H, T
<1>5. PICK g : Steps(g, N, T, rows, H)
  BY <1>4
<1>6. g \in [0 .. N -> T] /\ g[0] = rows /\ \A n \in 1 .. N : g[n] = Step(g[n - 1], n)
  <2> HIDE DEF N, Step
  <2>1. g \in [0 .. N -> T] /\ g[0] = rows /\ \A n \in 1 .. N : g[n] = H[<<g[n - 1], n>>]
    BY <1>5 DEF Steps
  <2>2. \A n \in 1 .. N : g[n - 1] \in T
    BY <1>2, <2>1
  <2> QED
    BY <1>3, <2>1, <2>2
<1>7. U(g)
  <2> HIDE DEF N, Step
  <2> QED
    BY <1>2, <1>6
<1>8. PutAll(rows, more) = (CHOOSE h : U(h))[N]
  BY DEF PutAll
<1>9. PICK f : U(f) /\ PutAll(rows, more) = f[N]
  BY <1>7, <1>8
<1> QED
  <2>1. f[0] = rows /\ \A n \in 1 .. N : f[n] = Step(f[n - 1], n)
    <3> HIDE DEF N, Step
    <3> QED
      BY <1>2, <1>9
  <2> QED
    BY <1>9, <2>1

(* The rows with the first n of more put in. *)
Merged(s, n, rows, more, R) ==
    /\ s \in Seq(R) /\ OneEach(s)
    /\ \A r \in ToSet(s) : r \in ToSet(rows) \/ r \in ToSet(more)
    /\ \A i \in 1 .. n : \E r \in ToSet(s) : r \in ToSet(more) /\ r.id = more[i].id
    /\ \A r \in ToSet(rows) : \/ r \in ToSet(s)
                              \/ \E k \in ToSet(s) : k \in ToSet(more) /\ k.id = r.id

LEMMA Merges ==
    ASSUME NEW R, NEW rows \in Seq(R), NEW more \in Seq(R), NEW n \in 1 .. Len(more),
           NEW s, Merged(s, n - 1, rows, more, R)
    PROVE  Merged(Put(s, more[n]), n, rows, more, R)
<1> DEFINE t == Put(s, more[n])
<1>1. more[n] \in R /\ more[n] \in ToSet(more) /\ s \in Seq(R) /\ OneEach(s)
  BY DEF Merged, ToSet
<1>2. /\ t \in Seq(R) /\ OneEach(t) /\ more[n] \in ToSet(t)
      /\ \A r \in ToSet(t) : r = more[n] \/ r \in ToSet(s)
      /\ \A r \in ToSet(s) : r.id # more[n].id => r \in ToSet(t)
  BY <1>1, PutIs
<1> HIDE DEF t
<1>3. \A r \in ToSet(t) : r \in ToSet(rows) \/ r \in ToSet(more)
  BY <1>1, <1>2 DEF Merged
<1>4. ASSUME NEW r \in ToSet(s), r \in ToSet(more) PROVE \E k \in ToSet(t) : k \in ToSet(more) /\ k.id = r.id
  BY <1>1, <1>2, <1>4
<1>5. ASSUME NEW i \in 1 .. n PROVE \E r \in ToSet(t) : r \in ToSet(more) /\ r.id = more[i].id
  <2>1. CASE i = n
    BY <1>1, <1>2, <2>1
  <2>2. CASE i # n
    <3>1. i \in 1 .. (n - 1)
      BY <2>2
    <3>2. PICK r \in ToSet(s) : r \in ToSet(more) /\ r.id = more[i].id
      BY <3>1 DEF Merged
    <3> QED
      BY <1>4, <3>2
  <2> QED
    BY <2>1, <2>2
<1>6. ASSUME NEW r \in ToSet(rows)
      PROVE  r \in ToSet(t) \/ \E k \in ToSet(t) : k \in ToSet(more) /\ k.id = r.id
  <2>1. CASE r \in ToSet(s)
    BY <1>1, <1>2, <2>1
  <2>2. CASE r \notin ToSet(s)
    <3>1. PICK k \in ToSet(s) : k \in ToSet(more) /\ k.id = r.id
      BY <2>2 DEF Merged
    <3> QED
      BY <1>4, <3>1
  <2> QED
    BY <2>1, <2>2
<1> QED
  BY <1>2, <1>3, <1>5, <1>6 DEF Merged, t

LEMMA PutAllIs ==
    ASSUME NEW R, NEW rows \in Seq(R), NEW more \in Seq(R), OneEach(rows)
    PROVE  Merged(PutAll(rows, more), Len(more), rows, more, R)
<1>1. PICK f : /\ f[0] = rows /\ PutAll(rows, more) = f[Len(more)]
               /\ \A n \in 1 .. Len(more) : f[n] = Put(f[n - 1], more[n])
  BY PutAllUnfolds
<1> DEFINE N == Len(more)  Held == {n \in 0 .. N : Merged(f[n], n, rows, more, R)}
<1>2. 0 \in Held
  <2>1. Merged(f[0], 0, rows, more, R) /\ 0 \in 0 .. N
    BY <1>1 DEF Merged
  <2> QED
    BY <2>1
<1>3. \A n \in 1 .. N : n - 1 \in Held => n \in Held
  <2> SUFFICES ASSUME NEW n \in 1 .. N, n - 1 \in Held PROVE n \in Held
    OBVIOUS
  <2>1. Merged(f[n - 1], n - 1, rows, more, R) /\ f[n] = Put(f[n - 1], more[n])
    BY <1>1
  <2>2. Merged(f[n], n, rows, more, R)
    BY <2>1, Merges
  <2> QED
    BY <2>2
<1>4. N \in Nat /\ N \in 0 .. N
  OBVIOUS
<1>5. N \in Held
  <2> HIDE DEF Held, N
  <2>1. \A n \in 0 .. N : n \in Held
    BY <1>2, <1>3, <1>4, Climb
  <2> QED
    BY <1>4, <2>1
<1> QED
  BY <1>1, <1>5

Caps == {MAX_API_TOKENS, MAX_DISMISSED_UPDATES, MAX_TEMPLATE_SOURCES,
         MAX_MANAGED_STACKS, MAX_MINTED_KEYS, MAX_AUDIT, MAX_CRON_JOBS, MAX_SERVICES}

LEMMA CapsAre ==
    /\ MAX_API_TOKENS \in Nat /\ MAX_API_TOKENS >= 1
    /\ MAX_TEMPLATE_SOURCES \in Nat /\ MAX_TEMPLATE_SOURCES >= 1
    /\ MAX_MANAGED_STACKS \in Nat /\ MAX_MANAGED_STACKS >= 1
    /\ MAX_MINTED_KEYS \in Nat /\ MAX_MINTED_KEYS >= 1
    /\ MAX_AUDIT \in Nat /\ MAX_AUDIT >= 1
    /\ MAX_CRON_JOBS \in Nat /\ MAX_CRON_JOBS >= 1
    /\ MAX_SERVICES \in Nat /\ MAX_SERVICES >= 1
<1>1. \A cap \in Caps : cap \in Nat \ {0}
  BY SectionsAssumption DEF Caps
<1>2. \A n \in Nat \ {0} : n \in Nat /\ n >= 1
  OBVIOUS
<1>3. \A cap \in Caps : cap \in Nat /\ cap >= 1
  BY <1>1, <1>2
<1>4. /\ MAX_API_TOKENS \in Caps /\ MAX_TEMPLATE_SOURCES \in Caps /\ MAX_MANAGED_STACKS \in Caps
      /\ MAX_MINTED_KEYS \in Caps /\ MAX_AUDIT \in Caps
      /\ MAX_CRON_JOBS \in Caps /\ MAX_SERVICES \in Caps
  BY DEF Caps
<1> QED
  BY <1>3, <1>4

UpdateRow == [id : Keys, digest : {"good"}, at : Nat]

LEMMA RequestIs ==
    ASSUME NEW asked \in AskedFor
    PROVE  \E m \in 1 .. MaxRefs : asked \in [1 .. m -> Dismissals]
  BY DEF AskedFor

LEMMA DismissedIs ==
    ASSUME NEW asked \in AskedFor, NEW now \in Nat
    PROVE  /\ Dismissed(asked, now) \in Seq(UpdateRow)
           /\ \A r \in ToSet(Dismissed(asked, now)) :
                 r.at = now /\ \E i \in DOMAIN asked : asked[i].id = r.id
           /\ \A id \in Good(asked) : \E r \in ToSet(Dismissed(asked, now)) : r.id = id
<1>1. PICK m \in 1 .. MaxRefs : asked \in [1 .. m -> Dismissals]
  BY RequestIs
<1>0. m \in Nat
  BY SectionsAssumption
<1> DEFINE all == [i \in DOMAIN asked |-> [id |-> asked[i].id, digest |-> asked[i].digest, at |-> now]]
           D == [id : Keys, digest : {"good", "bad"}, at : Nat]
           S == {row \in ToSet(all) : row.digest = "good"}
<1>2. Dismissed(asked, now) = Only(all, S)
  BY DEF Dismissed
<1>3. \A i \in 1 .. m : [id |-> asked[i].id, digest |-> asked[i].digest, at |-> now] \in D
  BY <1>1 DEF Dismissals
<1>4. all \in [1 .. m -> D]
  BY <1>1, <1>3
<1>5. all \in Seq(D)
  BY <1>0, <1>4, IsASeq
<1>6. \A i \in 1 .. m : all[i].id = asked[i].id /\ all[i].digest = asked[i].digest /\ all[i].at = now
  BY <1>1
<1>7. DOMAIN all = 1 .. m /\ DOMAIN asked = 1 .. m
  BY <1>1
<1> HIDE DEF all, D
<1>8. Only(all, S) \in Seq(D) /\ ToSet(Only(all, S)) = ToSet(all) \cap S
  BY <1>5, OnlyIs
<1>9. \A r \in ToSet(Only(all, S)) : r \in ToSet(all) /\ r.digest = "good"
  BY <1>8
<1>10. \A r \in ToSet(all) : r.at = now /\ \E i \in DOMAIN asked : asked[i].id = r.id
  BY <1>6, <1>7 DEF ToSet
<1>11. \A r \in D : r.digest = "good" => r \in UpdateRow
  BY DEF D, UpdateRow
<1>12. Only(all, S) \in Seq(UpdateRow)
  <2> DEFINE o == Only(all, S)
  <2>1. o \in Seq(D) /\ \A r \in ToSet(o) : r.digest = "good"
    BY <1>8, <1>9
  <2> HIDE DEF o
  <2>2. \A i \in 1 .. Len(o) : o[i] \in D /\ o[i] \in ToSet(o)
    BY <2>1 DEF ToSet
  <2>3. \A i \in 1 .. Len(o) : o[i] \in UpdateRow
    BY <1>11, <2>1, <2>2
  <2>4. o \in Seq(UpdateRow)
    BY <2>1, <2>3
  <2> QED
    BY <2>4 DEF o
<1>13. ASSUME NEW id \in Good(asked) PROVE \E r \in ToSet(Only(all, S)) : r.id = id
  <2>1. PICK i \in DOMAIN asked : asked[i].digest = "good" /\ asked[i].id = id
    BY DEF Good
  <2>2. all[i].id = id /\ all[i].digest = "good" /\ all[i] \in ToSet(all)
    BY <1>6, <1>7, <2>1 DEF ToSet
  <2> QED
    BY <1>8, <2>2
<1> QED
  BY <1>2, <1>9, <1>10, <1>12, <1>13

LEMMA AtMostAsMany ==
    ASSUME NEW k \in Nat, NEW M \in Nat, NEW f \in [1 .. k -> 1 .. M],
           \A i, j \in 1 .. k : f[i] = f[j] => i = j
    PROVE  k <= M
<1>1. IsFiniteSet(1 .. M) /\ Cardinality(1 .. M) = M /\ Cardinality(1 .. k) = k
  BY FS_Interval
<1>2. f \in Injection(1 .. k, 1 .. M)
  BY DEF Injection, IsInjective
<1>3. Cardinality(1 .. k) <= Cardinality(1 .. M)
  BY <1>1, <1>2, FS_Injection
<1> QED
  BY <1>1, <1>3

UpdatesOk(rows, n) ==
    /\ rows \in Seq(UpdateRow) /\ OneEach(rows) /\ Len(rows) <= MAX_DISMISSED_UPDATES
    /\ \A r \in ToSet(rows) : r.at <= n

(* No more are of this time than were asked for, and they come first. *)
LEMMA NewAreFew ==
    ASSUME NEW asked \in AskedFor, NEW n \in Nat, NEW R, NEW sorted \in Seq(R),
           OneEach(sorted), Falls(sorted),
           \A r \in ToSet(sorted) : /\ r.at \in 0 .. n
                                    /\ r.at = n => \E i \in DOMAIN asked : asked[i].id = r.id,
           NEW k \in DOMAIN sorted, sorted[k].at = n
    PROVE  k <= MAX_DISMISSED_UPDATES
<1>1. PICK m \in 1 .. MaxRefs : asked \in [1 .. m -> Dismissals]
  BY RequestIs
<1>2. m \in Nat /\ m <= MAX_DISMISSED_UPDATES /\ MAX_DISMISSED_UPDATES \in Nat
  BY SectionsAssumption
<1>3. k \in Nat /\ DOMAIN sorted = 1 .. Len(sorted) /\ \A i \in 1 .. k : i \in DOMAIN sorted
  OBVIOUS
<1>4. ASSUME NEW i \in 1 .. k PROVE \E j \in 1 .. m : asked[j].id = sorted[i].id
  <2>1. sorted[i] \in ToSet(sorted) /\ sorted[k] \in ToSet(sorted)
    BY <1>3 DEF ToSet
  <2>2. sorted[k].at <= sorted[i].at
    <3>1. i = k \/ i < k
      BY <1>3
    <3> QED
      BY <1>3, <3>1 DEF Falls
  <2>3. sorted[i].at = n
    BY <2>1, <2>2
  <2>4. DOMAIN asked = 1 .. m
    BY <1>1
  <2> QED
    BY <2>1, <2>3, <2>4
<1> DEFINE f == [i \in 1 .. k |-> CHOOSE j \in 1 .. m : asked[j].id = sorted[i].id]
<1>5. \A i \in 1 .. k : f[i] \in 1 .. m /\ asked[f[i]].id = sorted[i].id
  BY <1>4
<1>6. f \in [1 .. k -> 1 .. m]
  BY <1>5
<1> HIDE DEF f
<1>7. \A i, j \in 1 .. k : f[i] = f[j] => i = j
  <2> SUFFICES ASSUME NEW i \in 1 .. k, NEW j \in 1 .. k, f[i] = f[j] PROVE i = j
    OBVIOUS
  <2>1. sorted[i].id = sorted[j].id
    BY <1>5
  <2> QED
    BY <1>3, <2>1 DEF OneEach
<1>8. k <= m
  BY <1>2, <1>3, <1>6, <1>7, AtMostAsMany
<1> QED
  BY <1>2, <1>3, <1>8

LEMMA UpdatesGo ==
    ASSUME NEW n \in Nat \ {0}, NEW rows, UpdatesOk(rows, n - 1), NEW asked \in AskedFor,
           NEW saved, saved = addDismissedUpdates(rows, asked, n)
    PROVE  UpdatesOk(saved, n) /\ Saves(rows, saved, Good(asked), n)
<1> DEFINE more == Dismissed(asked, n)
           all == PutAll(rows, more)
           sorted == NewestFirst(all, n)
           R == UpdateRow
           cap == MAX_DISMISSED_UPDATES
<1>0. cap \in Nat /\ cap >= 1 /\ n \in Nat /\ n - 1 < n
  BY SectionsAssumption
<1>1. rows \in Seq(R) /\ OneEach(rows) /\ \A r \in ToSet(rows) : r \in R /\ r.at \in Nat /\ r.at <= n - 1
  <2>1. rows \in Seq(R) /\ OneEach(rows) /\ \A r \in ToSet(rows) : r.at <= n - 1
    BY DEF UpdatesOk
  <2>2. \A r \in R : r.at \in Nat
    BY DEF UpdateRow
  <2> QED
    BY <2>1, <2>2, SeqIs
<1>2. /\ more \in Seq(R)
      /\ \A r \in ToSet(more) : r.at = n /\ \E i \in DOMAIN asked : asked[i].id = r.id
      /\ \A id \in Good(asked) : \E r \in ToSet(more) : r.id = id
  BY DismissedIs
<1>3. Merged(all, Len(more), rows, more, R)
  BY <1>1, <1>2, PutAllIs
<1> HIDE DEF more, R, cap
<1>4. /\ all \in Seq(R) /\ OneEach(all)
      /\ \A r \in ToSet(all) : r \in ToSet(rows) \/ r \in ToSet(more)
      /\ \A r \in ToSet(more) : \E k \in ToSet(all) : k \in ToSet(more) /\ k.id = r.id
      /\ \A r \in ToSet(rows) : \/ r \in ToSet(all)
                                \/ \E k \in ToSet(all) : k \in ToSet(more) /\ k.id = r.id
  <2> HIDE DEF all
  <2>1. \A r \in ToSet(more) : \E i \in 1 .. Len(more) : r = more[i]
    BY <1>2 DEF ToSet
  <2>2. \A i \in 1 .. Len(more) : \E k \in ToSet(all) : k \in ToSet(more) /\ k.id = more[i].id
    BY <1>3 DEF Merged
  <2>3. \A r \in ToSet(more) : \E k \in ToSet(all) : k \in ToSet(more) /\ k.id = r.id
    BY <2>1, <2>2
  <2> QED
    BY <1>3, <2>3 DEF Merged
<1> HIDE DEF all
<1>5. \A r \in ToSet(all) : r.at \in 0 .. n /\ (r.at = n => \E i \in DOMAIN asked : asked[i].id = r.id)
  BY <1>0, <1>1, <1>2, <1>4
<1>6. sorted \in Seq(R) /\ OneEach(sorted) /\ Falls(sorted) /\ ToSet(sorted) = ToSet(all)
  BY <1>0, <1>4, <1>5, NewestFirstIs
<1>7. saved = FirstOf(sorted, cap)
  BY DEF addDismissedUpdates, all, more, cap
<1> HIDE DEF sorted
<1>8. /\ saved \in Seq(R) /\ Len(saved) <= cap /\ Picks(saved, sorted)
      /\ \A i \in DOMAIN sorted : i <= cap => i \in DOMAIN saved /\ saved[i] = sorted[i]
      /\ \A i \in DOMAIN saved : i \in DOMAIN sorted /\ i <= cap /\ saved[i] = sorted[i]
  BY <1>0, <1>6, <1>7, FirstOfIs
<1>9. OneEach(saved) /\ ToSet(saved) \subseteq ToSet(sorted)
  BY <1>6, <1>8, PicksKeep
<1>10. UpdatesOk(saved, n)
  <2>1. \A r \in ToSet(saved) : r.at <= n
    BY <1>0, <1>5, <1>6, <1>9
  <2> QED
    BY <1>8, <1>9, <2>1 DEF UpdatesOk, R, cap
<1>11. ASSUME NEW k \in DOMAIN sorted, sorted[k].at = n PROVE k \in DOMAIN saved /\ saved[k] = sorted[k]
  <2>1. \A r \in ToSet(sorted) : /\ r.at \in 0 .. n
                                 /\ r.at = n => \E i \in DOMAIN asked : asked[i].id = r.id
    BY <1>5, <1>6
  <2>2. k <= cap
    BY <1>0, <1>6, <1>11, <2>1, NewAreFew DEF cap
  <2> QED
    BY <1>8, <2>2
<1>12. ASSUME NEW r \in ToSet(all), r.at = n PROVE r \in ToSet(saved)
  <2>1. PICK k \in DOMAIN sorted : sorted[k] = r
    BY <1>6 DEF ToSet
  <2> QED
    BY <1>11, <1>12, <2>1 DEF ToSet
<1>13. ASSUME NEW id \in Good(asked) PROVE \E k \in ToSet(saved) : k.id = id /\ k.at = n
  <2>1. PICK r \in ToSet(more) : r.id = id
    BY <1>2
  <2>2. PICK k \in ToSet(all) : k \in ToSet(more) /\ k.id = r.id
    BY <1>4
  <2> QED
    BY <1>2, <1>12, <2>1, <2>2
<1>14. ASSUME NEW r \in ToSet(all), r \notin ToSet(saved), NEW k \in ToSet(saved)
       PROVE  r.at <= k.at
  <2>1. PICK i \in DOMAIN sorted : sorted[i] = r
    BY <1>6 DEF ToSet
  <2>2. PICK j \in DOMAIN saved : saved[j] = k
    BY DEF ToSet
  <2>3. ~(i <= cap)
    BY <1>8, <1>14, <2>1 DEF ToSet
  <2>4. j \in DOMAIN sorted /\ sorted[j] = k /\ j < i
    <3>1. j \in DOMAIN sorted /\ sorted[j] = k /\ j <= cap /\ i \in Nat /\ j \in Nat
      BY <1>6, <1>8, <2>2
    <3> QED
      BY <1>0, <2>3, <3>1
  <2> QED
    BY <1>6, <2>1, <2>4 DEF Falls
<1>15. ASSUME NEW r \in ToSet(rows), \A k \in ToSet(saved) : k.id # r.id, NEW k \in ToSet(saved)
       PROVE  r.at <= k.at
  <2>1. r \notin ToSet(saved)
    BY <1>15
  <2>2. CASE r \in ToSet(all)
    BY <1>14, <2>1, <2>2
  <2>3. CASE r \notin ToSet(all)
    <3>1. PICK q \in ToSet(all) : q \in ToSet(more) /\ q.id = r.id
      BY <1>4, <2>3
    <3>2. q \notin ToSet(saved) /\ q.at = n
      BY <1>2, <1>15, <3>1
    <3>3. n <= k.at
      BY <1>14, <3>1, <3>2
    <3>4. k.at \in Nat
      BY <1>5, <1>6, <1>9
    <3> QED
      BY <1>0, <1>1, <3>3, <3>4
  <2> QED
    BY <2>2, <2>3
<1> QED
  <2>1. Saves(rows, saved, Good(asked), n)
    BY <1>13, <1>15 DEF Saves, ToSet
  <2> QED
    BY <1>10, <2>1
-----------------------------------------------------------------------------
(* The other sections *)

TokenRow == [id : Keys, at : Nat]
TokensOk(rows) == rows \in Seq(TokenRow) /\ OneEach(rows) /\ Len(rows) <= MAX_API_TOKENS

LEMMA WithoutIs ==
    ASSUME NEW R, NEW rows \in Seq(R), NEW id
    PROVE  /\ Without(rows, id) \in Seq(R) /\ Len(Without(rows, id)) <= Len(rows)
           /\ Picks(Without(rows, id), rows)
           /\ ToSet(Without(rows, id)) = {r \in ToSet(rows) : r.id # id}
<1> DEFINE S == {row \in ToSet(rows) : row.id # id}
<1>1. Without(rows, id) = Only(rows, S)
  BY DEF Without
<1>2. ToSet(rows) \cap S = {r \in ToSet(rows) : r.id # id}
  OBVIOUS
<1> HIDE DEF S
<1> QED
  BY <1>1, <1>2, OnlyIs

LEMMA TokensGo ==
    ASSUME NEW n \in Nat, NEW k \in Keys, NEW rows, TokensOk(rows)
    PROVE  /\ k \in NewIds(rows) =>
                 /\ addApiToken(rows, k, n) \in Seq(TokenRow) /\ OneEach(addApiToken(rows, k, n))
                 /\ Len(addApiToken(rows, k, n)) = Len(rows) + 1
           /\ TokensOk(removeApiToken(rows, k)) /\ TokensOk(findApiToken(rows, k, n))
<1>0. MAX_API_TOKENS \in Nat
  BY SectionsAssumption
<1>1. /\ rows \in Seq(TokenRow) /\ OneEach(rows) /\ Len(rows) <= MAX_API_TOKENS
      /\ Len(rows) \in Nat /\ DOMAIN rows = 1 .. Len(rows)
  BY DEF TokensOk
<1>2. ASSUME k \in NewIds(rows)
      PROVE  /\ addApiToken(rows, k, n) \in Seq(TokenRow) /\ OneEach(addApiToken(rows, k, n))
             /\ Len(addApiToken(rows, k, n)) = Len(rows) + 1
  <2> DEFINE row == [id |-> k, at |-> n]  p == Append(rows, row)
  <2>1. addApiToken(rows, k, n) = p
    BY DEF addApiToken
  <2>2. row \in TokenRow /\ row.id = k
    BY DEF TokenRow
  <2> HIDE DEF row
  <2>3. /\ p \in Seq(TokenRow) /\ Len(p) = Len(rows) + 1 /\ p[Len(rows) + 1] = row
        /\ \A i \in DOMAIN rows : p[i] = rows[i]
    BY <1>1, <2>2, AppendIs
  <2> HIDE DEF p
  <2>4. DOMAIN p = 1 .. (Len(rows) + 1)
    BY <2>3
  <2>5. \A i \in DOMAIN p : \/ i \in DOMAIN rows /\ p[i] = rows[i] /\ rows[i].id # k
                            \/ i = Len(rows) + 1 /\ p[i].id = k
    BY <1>1, <1>2, <2>2, <2>3, <2>4 DEF NewIds
  <2>6. OneEach(p)
    BY <1>1, <2>5 DEF OneEach
  <2> QED
    BY <2>1, <2>3, <2>6
<1>3. TokensOk(removeApiToken(rows, k))
  <2> DEFINE s == Without(rows, k)
  <2>1. s \in Seq(TokenRow) /\ Len(s) <= Len(rows) /\ Picks(s, rows)
    BY <1>1, WithoutIs
  <2> HIDE DEF s
  <2>2. OneEach(s)
    BY <1>1, <2>1, PicksKeep
  <2>3. Len(s) <= MAX_API_TOKENS
    BY <1>0, <1>1, <2>1
  <2> QED
    BY <2>1, <2>2, <2>3 DEF TokensOk, removeApiToken, s
<1>4. TokensOk(findApiToken(rows, k, n))
  <2> DEFINE f == findApiToken(rows, k, n)
  <2>1. \A i \in DOMAIN rows : rows[i] \in TokenRow
    BY <1>1
  <2>2. \A r \in TokenRow : [r EXCEPT !.at = n] \in TokenRow /\ [r EXCEPT !.at = n].id = r.id
    BY DEF TokenRow
  <2>3. f = [i \in DOMAIN rows |-> IF rows[i].id = k THEN [rows[i] EXCEPT !.at = n] ELSE rows[i]]
    BY DEF findApiToken
  <2> HIDE DEF f
  <2>4. f \in [1 .. Len(rows) -> TokenRow] /\ \A i \in DOMAIN rows : f[i].id = rows[i].id
    BY <1>1, <2>1, <2>2, <2>3
  <2>5. f \in Seq(TokenRow) /\ DOMAIN f = DOMAIN rows /\ Len(f) = Len(rows)
    BY <1>1, <2>4, IsASeq
  <2>6. OneEach(f)
    BY <1>1, <2>4, <2>5 DEF OneEach
  <2> QED
    BY <1>1, <2>5, <2>6 DEF TokensOk, f
<1> QED
  BY <1>2, <1>3, <1>4

SourceRow == [id : Nat, name : {"name"}, url : Keys \ {"bad"}, at : Nat]
SourcesOk(rows, n) ==
    /\ rows \in Seq(SourceRow) /\ OneEach(rows) /\ OneUrl(rows) /\ Len(rows) <= MAX_TEMPLATE_SOURCES
    /\ \A i \in DOMAIN rows : rows[i].id <= n

LEMMA SourcesGo ==
    ASSUME NEW n \in Nat \ {0}, NEW rows, SourcesOk(rows, n - 1)
    PROVE  /\ \A source \in Sources : SourcesOk(addTemplateSource(rows, source, n), n)
           /\ \A id \in 1 .. n : SourcesOk(removeTemplateSource(rows, id), n)
<1>0. MAX_TEMPLATE_SOURCES \in Nat /\ n \in Nat
  BY SectionsAssumption
<1>1. /\ rows \in Seq(SourceRow) /\ OneEach(rows) /\ OneUrl(rows) /\ Len(rows) <= MAX_TEMPLATE_SOURCES
      /\ Len(rows) \in Nat /\ DOMAIN rows = 1 .. Len(rows)
  BY DEF SourcesOk
<1>2. \A i \in DOMAIN rows : rows[i].id \in Nat /\ rows[i].id <= n - 1
  <2>1. \A r \in SourceRow : r.id \in Nat
    BY DEF SourceRow
  <2> QED
    BY <1>1, <2>1 DEF SourcesOk
<1>3. SourcesOk(rows, n)
  <2>1. \A i \in DOMAIN rows : rows[i].id <= n
    BY <1>0, <1>2
  <2> QED
    BY <1>1, <2>1 DEF SourcesOk
<1>4. ASSUME NEW source \in Sources PROVE SourcesOk(addTemplateSource(rows, source, n), n)
  <2> DEFINE row == [id |-> n, name |-> source.name, url |-> source.url, at |-> n]
             refused == \/ source.name = "empty" \/ source.url = "bad" \/ Len(rows) >= MAX_TEMPLATE_SOURCES
                        \/ \E i \in DOMAIN rows : rows[i].url = source.url
  <2>1. addTemplateSource(rows, source, n) = IF refused THEN rows ELSE Append(rows, row)
    BY DEF addTemplateSource
  <2>2. CASE refused
    BY <1>3, <2>1, <2>2
  <2>3. CASE ~refused
    <3>1. row \in SourceRow /\ row.id = n /\ row.url = source.url
      BY <1>0, <2>3 DEF SourceRow, Sources
    <3>2. Len(rows) < MAX_TEMPLATE_SOURCES /\ \A i \in DOMAIN rows : rows[i].url # row.url
      BY <1>0, <1>1, <2>3, <3>1
    <3>3. addTemplateSource(rows, source, n) = Append(rows, row)
      BY <2>1, <2>3
    <3> DEFINE p == Append(rows, row)
    <3> HIDE DEF row, refused
    <3>4. /\ p \in Seq(SourceRow) /\ Len(p) = Len(rows) + 1 /\ p[Len(rows) + 1] = row
          /\ \A i \in DOMAIN rows : p[i] = rows[i]
      BY <1>1, <3>1, AppendIs
    <3>5. DOMAIN p = 1 .. (Len(rows) + 1)
      BY <3>4
    <3> HIDE DEF p
    <3>6. \A i \in DOMAIN p : \/ i \in DOMAIN rows /\ p[i] = rows[i]
                              \/ i = Len(rows) + 1 /\ p[i] = row
      BY <1>1, <3>4, <3>5
    <3>7. OneEach(p)
      <4>1. \A i \in DOMAIN rows : rows[i].id # row.id
        BY <1>0, <1>2, <3>1
      <4> QED
        BY <1>1, <3>6, <4>1 DEF OneEach
    <3>8. OneUrl(p)
      BY <1>1, <3>2, <3>6 DEF OneUrl
    <3>9. \A i \in DOMAIN p : p[i].id <= n
      BY <1>0, <1>2, <3>1, <3>6
    <3>10. Len(p) <= MAX_TEMPLATE_SOURCES
      BY <1>0, <1>1, <3>2, <3>4
    <3>11. SourcesOk(p, n)
      BY <3>4, <3>7, <3>8, <3>9, <3>10 DEF SourcesOk
    <3> QED
      BY <3>3, <3>11 DEF p
  <2> QED
    BY <2>2, <2>3
<1>5. ASSUME NEW id \in 1 .. n PROVE SourcesOk(removeTemplateSource(rows, id), n)
  <2> DEFINE s == Without(rows, id)
  <2>1. s \in Seq(SourceRow) /\ Len(s) <= Len(rows) /\ Picks(s, rows)
    BY <1>1, WithoutIs
  <2> HIDE DEF s
  <2>2. OneEach(s) /\ OneUrl(s) /\ ToSet(s) \subseteq ToSet(rows)
    BY <1>1, <2>1, PicksKeep
  <2>3. \A i \in DOMAIN s : s[i].id <= n
    <3>1. \A r \in ToSet(rows) : r.id <= n
      BY <1>0, <1>2 DEF ToSet
    <3> QED
      BY <2>2, <3>1 DEF ToSet
  <2>4. Len(s) <= MAX_TEMPLATE_SOURCES
    BY <1>0, <1>1, <2>1
  <2> QED
    BY <2>1, <2>2, <2>3, <2>4 DEF SourcesOk, removeTemplateSource, s
<1> QED
  BY <1>4, <1>5

StackRow == [id : Keys, at : Nat]
StacksOk(rows, n) ==
    /\ rows \in Seq(StackRow) /\ OneEach(rows) /\ Climbs(rows) /\ Len(rows) <= MAX_MANAGED_STACKS
    /\ \A r \in ToSet(rows) : r.at <= n

LEMMA StacksGo ==
    ASSUME NEW n \in Nat \ {0}, NEW rows, StacksOk(rows, n - 1), NEW name \in Keys,
           NEW saved, saved = saveManagedStack(rows, name, n)
    PROVE  StacksOk(saved, n) /\ Saves(rows, saved, {name}, n)
<1> DEFINE R == StackRow  cap == MAX_MANAGED_STACKS
           row == [id |-> name, at |-> n]  w == Without(rows, name)  all == Append(w, row)
<1>0. cap \in Nat /\ cap > 0 /\ n \in Nat
  BY SectionsAssumption
<1>1. /\ rows \in Seq(R) /\ OneEach(rows) /\ Climbs(rows)
      /\ \A r \in ToSet(rows) : r.at \in Nat /\ r.at <= n - 1
  <2>1. rows \in Seq(R) /\ OneEach(rows) /\ Climbs(rows) /\ \A r \in ToSet(rows) : r.at <= n - 1
    BY DEF StacksOk
  <2>2. \A r \in R : r.at \in Nat
    BY DEF StackRow
  <2> QED
    BY <2>1, <2>2, SeqIs
<1>2. row \in R /\ row.id = name /\ row.at = n
  BY DEF StackRow
<1>3. saved = LastOf(all, cap)
  BY DEF saveManagedStack
<1> HIDE DEF R, cap, row
<1>4. w \in Seq(R) /\ Picks(w, rows) /\ ToSet(w) = {r \in ToSet(rows) : r.id # name}
  BY <1>1, WithoutIs
<1> HIDE DEF w
<1>5. OneEach(w) /\ Climbs(w) /\ Len(w) \in Nat /\ DOMAIN w = 1 .. Len(w)
  BY <1>1, <1>4, PicksKeep
<1>6. /\ all \in Seq(R) /\ Len(all) = Len(w) + 1 /\ all[Len(w) + 1] = row
      /\ \A i \in DOMAIN w : all[i] = w[i]
      /\ ToSet(all) = ToSet(w) \cup {row}
  BY <1>2, <1>4, AppendIs
<1> HIDE DEF all
<1>7. DOMAIN all = 1 .. (Len(w) + 1) /\ Len(all) > 0
  BY <1>5, <1>6
<1>8. \A i \in DOMAIN all : \/ i \in DOMAIN w /\ all[i] = w[i]
                            \/ i = Len(w) + 1 /\ all[i] = row
  BY <1>5, <1>6, <1>7
<1>9. \A i \in DOMAIN w : w[i] \in ToSet(rows) /\ w[i].id # name /\ w[i].at \in Nat /\ w[i].at <= n
  <2>1. \A i \in DOMAIN w : w[i] \in ToSet(w)
    BY DEF ToSet
  <2> QED
    BY <1>0, <1>1, <1>4, <2>1
<1>10. OneEach(all)
  BY <1>2, <1>5, <1>8, <1>9 DEF OneEach
<1>11. Climbs(all)
  <2> SUFFICES ASSUME NEW i \in DOMAIN all, NEW j \in DOMAIN all, i < j PROVE all[i].at <= all[j].at
    BY DEF Climbs
  <2>1. i \in DOMAIN w /\ all[i] = w[i]
    BY <1>5, <1>7, <1>8
  <2>2. CASE j \in DOMAIN w /\ all[j] = w[j]
    BY <1>5, <2>1, <2>2 DEF Climbs
  <2>3. CASE j = Len(w) + 1 /\ all[j] = row
    BY <1>2, <1>9, <2>1, <2>3
  <2> QED
    BY <1>8, <2>2, <2>3
<1>12. saved \in Seq(R) /\ Len(saved) <= cap /\ Picks(saved, all)
  BY <1>0, <1>3, <1>6, LastOfIs
<1>13. PICK d \in Nat :
          /\ \A i \in DOMAIN all : i > d => i - d \in DOMAIN saved /\ saved[i - d] = all[i]
          /\ \A i \in DOMAIN saved : i + d \in DOMAIN all /\ saved[i] = all[i + d]
          /\ cap > 0 /\ Len(all) > 0 => d < Len(all)
  <2>1. \E d \in Nat :
          /\ \A i \in DOMAIN all :
                i > d => i - d \in DOMAIN LastOf(all, cap) /\ LastOf(all, cap)[i - d] = all[i]
          /\ \A i \in DOMAIN LastOf(all, cap) :
                i + d \in DOMAIN all /\ LastOf(all, cap)[i] = all[i + d]
          /\ cap > 0 /\ Len(all) > 0 => d < Len(all)
    BY <1>0, <1>6, LastOfIs
  <2> QED
    BY <1>3, <2>1
<1>14. OneEach(saved) /\ Climbs(saved) /\ ToSet(saved) \subseteq ToSet(all)
  BY <1>6, <1>10, <1>11, <1>12, PicksKeep
<1>15. StacksOk(saved, n)
  <2>1. \A r \in ToSet(saved) : r.at <= n
    <3>1. \A r \in ToSet(rows) : r.at <= n
      BY <1>0, <1>1
    <3> QED
      BY <1>0, <1>2, <1>4, <1>6, <1>14, <3>1
  <2> QED
    BY <1>12, <1>14, <2>1 DEF StacksOk, R, cap
<1>16. row \in ToSet(saved)
  <2>1. Len(w) + 1 \in DOMAIN all /\ Len(w) + 1 > d
    BY <1>0, <1>5, <1>6, <1>7, <1>13
  <2>2. Len(w) + 1 - d \in DOMAIN saved /\ saved[Len(w) + 1 - d] = row
    BY <1>6, <1>13, <2>1
  <2> QED
    BY <2>2 DEF ToSet
<1>17. ASSUME NEW r \in ToSet(rows), \A k \in ToSet(saved) : k.id # r.id, NEW k \in ToSet(saved)
       PROVE  r.at <= k.at
  <2>1. r.id # name
    BY <1>2, <1>16, <1>17
  <2>2. r \in ToSet(all)
    BY <1>4, <1>6, <2>1
  <2>3. PICK i \in DOMAIN all : all[i] = r
    BY <2>2 DEF ToSet
  <2>4. PICK j \in DOMAIN saved : saved[j] = k
    BY DEF ToSet
  <2>5. ~(i > d)
    BY <1>13, <1>17, <2>3 DEF ToSet
  <2>6. j + d \in DOMAIN all /\ all[j + d] = k /\ j \in Nat /\ j > 0 /\ i \in Nat
    <3>1. j \in Nat /\ j > 0
      BY <1>12
    <3> QED
      BY <1>7, <1>13, <2>4, <3>1
  <2>7. i < j + d
    BY <1>13, <2>5, <2>6
  <2> QED
    BY <1>11, <2>3, <2>6, <2>7 DEF Climbs
<1> QED
  <2>1. Saves(rows, saved, {name}, n)
    BY <1>2, <1>16, <1>17 DEF Saves, ToSet
  <2> QED
    BY <1>15, <2>1

LEMMA PlainIsStripped ==
    ASSUME NEW text \in PlainTexts, NEW kinds
    PROVE  ~Has(Stripped(text), kinds)
<1>1. PICK n \in 0 .. 2 : text \in [1 .. n -> {"space", "other"}]
  BY DEF PlainTexts, Texts
<1>2. text \in Seq({"space", "other"}) /\ Len(text) = n /\ n <= 1
  BY <1>1, IsASeq DEF PlainTexts
<1>3. CASE text = <<>>
  BY <1>3 DEF Stripped, Has
<1>4. CASE text # <<>>
  <2>1. Stripped(text) = Tail(text) /\ n = 1
    BY <1>2, <1>4 DEF Stripped
  <2>2. Tail(text) \in Seq({"space", "other"}) /\ Len(Tail(text)) = 0
    BY <1>2, <1>4, <2>1
  <2>3. DOMAIN Tail(text) = {}
    <3> DEFINE t == Tail(text)
    <3> HIDE DEF t
    <3>1. t \in Seq({"space", "other"}) /\ Len(t) = 0
      BY <2>2 DEF t
    <3>2. DOMAIN t = {}
      BY <3>1
    <3> QED
      BY <3>2 DEF t
  <2> QED
    BY <2>1, <2>3 DEF Has
<1> QED
  BY <1>3, <1>4

AuditRow == [id : Nat, at : Nat, clean : BOOLEAN]
AuditLike(rows, n) ==
    /\ rows \in Seq(AuditRow) /\ Falls(rows) /\ Len(rows) <= MAX_AUDIT
    /\ \A r \in ToSet(rows) : r.at <= n
AllClean(rows) == \A i \in DOMAIN rows : rows[i].clean
AuditOk(rows, n) == AuditLike(rows, n) /\ AllClean(rows)

LEMMA AuditGoes ==
    ASSUME NEW n \in Nat \ {0}, NEW rows, AuditOk(rows, n - 1), NEW line \in Texts,
           NEW saved, saved = addAudit(rows, line, n)
    PROVE  /\ AuditLike(saved, n) /\ Saves(rows, saved, {n}, n)
           /\ line \in PlainTexts => AllClean(saved)
<1> DEFINE R == AuditRow  cap == MAX_AUDIT  c == ~Has(Stripped(line), {"other"})
           row == [id |-> n, at |-> n, clean |-> c]  all == <<row>> \o rows
<1>0. cap \in Nat /\ cap >= 1 /\ n \in Nat
  BY CapsAre
<1>1. rows \in Seq(R) /\ Falls(rows) /\ \A r \in ToSet(rows) : r.at \in Nat /\ r.at <= n - 1
  <2>1. rows \in Seq(R) /\ Falls(rows) /\ \A r \in ToSet(rows) : r.at <= n - 1
    BY DEF AuditOk, AuditLike
  <2>2. \A r \in R : r.at \in Nat
    BY DEF AuditRow
  <2> QED
    BY <2>1, <2>2, SeqIs
<1>2. row \in R /\ row.id = n /\ row.at = n /\ row.clean = c
  <2>1. c \in BOOLEAN
    BY DEF Has
  <2> HIDE DEF c
  <2> QED
    BY <2>1 DEF AuditRow
<1>3. saved = FirstOf(all, cap)
  BY DEF addAudit
<1> HIDE DEF R, cap, row, c
<1>4. <<row>> \in Seq(R) /\ DOMAIN <<row>> = {1} /\ <<row>>[1] = row /\ ToSet(<<row>>) = {row} /\ Len(<<row>>) = 1
  BY <1>2 DEF ToSet
<1>5. /\ all \in Seq(R) /\ ToSet(all) = {row} \cup ToSet(rows)
      /\ 1 \in DOMAIN all /\ all[1] = row
      /\ \A i \in DOMAIN all : \/ i = 1 /\ all[i] = row
                               \/ i - 1 \in DOMAIN rows /\ all[i] = rows[i - 1] /\ i > 1
  <2>1. /\ all \in Seq(R) /\ ToSet(all) = ToSet(<<row>>) \cup ToSet(rows)
        /\ \A i \in DOMAIN <<row>> : i \in DOMAIN all /\ all[i] = <<row>>[i]
        /\ \A i \in DOMAIN all :
              \/ i \in DOMAIN <<row>> /\ all[i] = <<row>>[i]
              \/ /\ i - Len(<<row>>) \in DOMAIN rows /\ all[i] = rows[i - Len(<<row>>)]
                 /\ i > Len(<<row>>)
    BY <1>1, <1>4, ConcatIs
  <2> DEFINE one == <<row>>
  <2> HIDE DEF all, one
  <2>2. DOMAIN one = {1} /\ one[1] = row /\ ToSet(one) = {row} /\ Len(one) = 1
    BY <1>4 DEF one
  <2>3. /\ all \in Seq(R) /\ ToSet(all) = ToSet(one) \cup ToSet(rows)
        /\ \A i \in DOMAIN one : i \in DOMAIN all /\ all[i] = one[i]
        /\ \A i \in DOMAIN all :
              \/ i \in DOMAIN one /\ all[i] = one[i]
              \/ i - Len(one) \in DOMAIN rows /\ all[i] = rows[i - Len(one)] /\ i > Len(one)
    BY <2>1 DEF one
  <2> QED
    BY <2>2, <2>3
<1> HIDE DEF all
<1>6. Falls(all)
  <2> SUFFICES ASSUME NEW i \in DOMAIN all, NEW j \in DOMAIN all, i < j PROVE all[j].at <= all[i].at
    BY DEF Falls
  <2>1. i \in Nat /\ j \in Nat /\ i >= 1
    BY <1>5
  <2>2. j - 1 \in DOMAIN rows /\ all[j] = rows[j - 1] /\ rows[j - 1] \in ToSet(rows)
    BY <1>5, <2>1 DEF ToSet
  <2>3. CASE i = 1 /\ all[i] = row
    BY <1>0, <1>1, <1>2, <2>2, <2>3
  <2>4. CASE i - 1 \in DOMAIN rows /\ all[i] = rows[i - 1]
    <3>1. i - 1 < j - 1
      BY <2>1
    <3> QED
      BY <1>1, <2>2, <2>4, <3>1 DEF Falls
  <2> QED
    BY <1>5, <2>3, <2>4
<1>7. /\ saved \in Seq(R) /\ Len(saved) <= cap /\ Picks(saved, all)
      /\ \A i \in DOMAIN all : i <= cap => i \in DOMAIN saved /\ saved[i] = all[i]
      /\ \A i \in DOMAIN saved : i \in DOMAIN all /\ i <= cap /\ saved[i] = all[i]
  BY <1>0, <1>3, <1>5, FirstOfIs
<1>8. Falls(saved) /\ ToSet(saved) \subseteq ToSet(all)
  BY <1>5, <1>6, <1>7, PicksKeep
<1>9. AuditLike(saved, n)
  <2>1. \A r \in ToSet(saved) : r.at <= n
    <3>1. \A r \in ToSet(rows) : r.at <= n
      BY <1>0, <1>1
    <3> QED
      BY <1>0, <1>2, <1>5, <1>8, <3>1
  <2> QED
    BY <1>7, <1>8, <2>1 DEF AuditLike, R, cap
<1>10. row \in ToSet(saved)
  <2>1. 1 \in DOMAIN saved /\ saved[1] = row
    BY <1>0, <1>5, <1>7
  <2> QED
    BY <2>1 DEF ToSet
<1>11. ASSUME NEW r \in ToSet(rows), \A k \in ToSet(saved) : k.id # r.id, NEW k \in ToSet(saved)
       PROVE  r.at <= k.at
  <2>1. PICK i \in DOMAIN all : all[i] = r
    <3>1. r \in ToSet(all)
      BY <1>5
    <3> QED
      BY <3>1 DEF ToSet
  <2>2. PICK j \in DOMAIN saved : saved[j] = k
    BY DEF ToSet
  <2>3. ~(i <= cap)
    BY <1>7, <1>11, <2>1 DEF ToSet
  <2>4. j \in DOMAIN all /\ all[j] = k /\ j < i
    <3>1. j \in DOMAIN all /\ all[j] = k /\ j <= cap /\ i \in Nat /\ j \in Nat
      BY <1>5, <1>7, <2>2
    <3> QED
      BY <1>0, <2>3, <3>1
  <2> QED
    BY <1>6, <2>1, <2>4 DEF Falls
<1>12. line \in PlainTexts => AllClean(saved)
  <2> SUFFICES ASSUME line \in PlainTexts, NEW i \in DOMAIN saved PROVE saved[i].clean
    BY DEF AllClean
  <2>1. c
    BY PlainIsStripped DEF c
  <2>2. saved[i] = row \/ saved[i] \in ToSet(rows)
    BY <1>5, <1>8 DEF ToSet
  <2>3. \A r \in ToSet(rows) : r.clean
    BY DEF AuditOk, AllClean, ToSet
  <2> QED
    BY <1>2, <2>1, <2>2, <2>3
<1> QED
  <2>1. Saves(rows, saved, {n}, n)
    BY <1>2, <1>10, <1>11 DEF Saves, ToSet
  <2> QED
    BY <1>9, <1>12, <2>1

KeyRow == [id : Keys, clean : BOOLEAN, at : Nat]
KeysLike(rows, n) ==
    /\ rows \in Seq(KeyRow) /\ OneEach(rows) /\ Len(rows) <= MAX_MINTED_KEYS
    /\ \A r \in ToSet(rows) : r.at <= n
KeysOk(rows, n) == KeysLike(rows, n) /\ AllClean(rows)

LEMMA KeysGo ==
    ASSUME NEW n \in Nat \ {0}, NEW rows, KeysOk(rows, n - 1), NEW id \in Keys, NEW by \in Texts,
           NEW saved, saved = setMintedKey(rows, id, by, n)
    PROVE  /\ KeysLike(saved, n) /\ Saves(rows, saved, {id}, n)
           /\ by \in PlainTexts => AllClean(saved)
<1> DEFINE R == KeyRow  cap == MAX_MINTED_KEYS  c == ~Has(Stripped(by), {"space", "other"})
           row == [id |-> id, clean |-> c, at |-> n]
           all == Put(rows, row)  sorted == NewestFirst(all, n)
<1>0. cap \in Nat /\ cap >= 1 /\ n \in Nat
  BY CapsAre
<1>1. rows \in Seq(R) /\ OneEach(rows) /\ \A r \in ToSet(rows) : r.at \in Nat /\ r.at <= n - 1
  <2>1. rows \in Seq(R) /\ OneEach(rows) /\ \A r \in ToSet(rows) : r.at <= n - 1
    BY DEF KeysOk, KeysLike
  <2>2. \A r \in R : r.at \in Nat
    BY DEF KeyRow
  <2> QED
    BY <2>1, <2>2, SeqIs
<1>2. row \in R /\ row.id = id /\ row.at = n /\ row.clean = c
  <2>1. c \in BOOLEAN
    BY DEF Has
  <2> HIDE DEF c
  <2> QED
    BY <2>1 DEF KeyRow
<1>3. saved = IF Len(all) <= cap THEN all ELSE FirstOf(sorted, cap)
  BY DEF setMintedKey
<1> HIDE DEF R, cap, row, c
<1>4. /\ all \in Seq(R) /\ OneEach(all) /\ row \in ToSet(all)
      /\ \A r \in ToSet(all) : r = row \/ r \in ToSet(rows)
      /\ \A r \in ToSet(rows) : r.id # row.id => r \in ToSet(all)
  BY <1>1, <1>2, PutIs
<1> HIDE DEF all
<1>5. \A r \in ToSet(all) : r.at \in 0 .. n /\ (r.at = n => r = row)
  BY <1>0, <1>1, <1>2, <1>4
<1>8. ASSUME by \in PlainTexts, ToSet(saved) \subseteq ToSet(all) PROVE AllClean(saved)
  <2>1. c
    BY <1>8, PlainIsStripped DEF c
  <2>2. \A r \in ToSet(rows) : r.clean
    BY DEF KeysOk, AllClean, ToSet
  <2>3. \A r \in ToSet(all) : r.clean
    BY <1>2, <1>4, <2>1, <2>2
  <2>4. \A i \in DOMAIN saved : saved[i] \in ToSet(all)
    BY <1>8 DEF ToSet
  <2> QED
    BY <2>3, <2>4 DEF AllClean
<1>6. CASE Len(all) <= cap
  <2>1. saved = all
    BY <1>3, <1>6
  <2>2. KeysLike(saved, n)
    BY <1>4, <1>5, <1>6, <2>1 DEF KeysLike, R, cap
  <2>3. row \in ToSet(saved) /\ \A r \in ToSet(rows) : \E k \in ToSet(saved) : k.id = r.id
    BY <1>4, <2>1
  <2>4. Saves(rows, saved, {id}, n)
    BY <1>2, <2>3 DEF Saves, ToSet
  <2> QED
    BY <1>8, <2>1, <2>2, <2>4
<1>7. CASE ~(Len(all) <= cap)
  <2>1. saved = FirstOf(sorted, cap)
    BY <1>3, <1>7
  <2>2. sorted \in Seq(R) /\ OneEach(sorted) /\ Falls(sorted) /\ ToSet(sorted) = ToSet(all)
    BY <1>0, <1>4, <1>5, NewestFirstIs
  <2> HIDE DEF sorted
  <2>3. /\ saved \in Seq(R) /\ Len(saved) <= cap /\ Picks(saved, sorted)
        /\ \A i \in DOMAIN sorted : i <= cap => i \in DOMAIN saved /\ saved[i] = sorted[i]
        /\ \A i \in DOMAIN saved : i \in DOMAIN sorted /\ i <= cap /\ saved[i] = sorted[i]
    BY <1>0, <2>1, <2>2, FirstOfIs
  <2>4. OneEach(saved) /\ ToSet(saved) \subseteq ToSet(sorted)
    BY <2>2, <2>3, PicksKeep
  <2>5. KeysLike(saved, n)
    <3>1. \A r \in ToSet(saved) : r.at <= n
      BY <1>5, <2>2, <2>4
    <3> QED
      BY <2>3, <2>4, <3>1 DEF KeysLike, R, cap
  <2>6. row \in ToSet(saved)
    <3>1. PICK k \in DOMAIN sorted : sorted[k] = row
      BY <1>4, <2>2 DEF ToSet
    <3>2. 1 \in DOMAIN sorted /\ k \in Nat /\ (k = 1 \/ 1 < k)
      BY <2>2
    <3>3. sorted[1] = row
      <4>1. row.at <= sorted[1].at
        <5>1. CASE k = 1
          BY <1>0, <1>2, <3>1, <5>1
        <5>2. CASE 1 < k
          BY <2>2, <3>1, <3>2, <5>2 DEF Falls
        <5> QED
          BY <3>2, <5>1, <5>2
      <4>2. sorted[1] \in ToSet(all)
        BY <2>2, <3>2 DEF ToSet
      <4> QED
        BY <1>0, <1>2, <1>5, <4>1, <4>2
    <3>4. 1 \in DOMAIN saved /\ saved[1] = row
      BY <1>0, <2>3, <3>2, <3>3
    <3> QED
      BY <3>4 DEF ToSet
  <2>7. ASSUME NEW r \in ToSet(rows), \A k \in ToSet(saved) : k.id # r.id, NEW k \in ToSet(saved)
         PROVE  r.at <= k.at
    <3>1. r \in ToSet(all)
      BY <1>4, <2>6, <2>7
    <3>2. PICK i \in DOMAIN sorted : sorted[i] = r
      <4>1. r \in ToSet(sorted)
        BY <2>2, <3>1
      <4> QED
        BY <4>1 DEF ToSet
    <3>3. PICK j \in DOMAIN saved : saved[j] = k
      BY DEF ToSet
    <3>4. ~(i <= cap)
      BY <2>3, <2>7, <3>2 DEF ToSet
    <3>5. j \in DOMAIN sorted /\ sorted[j] = k /\ j < i
      <4>1. j \in DOMAIN sorted /\ sorted[j] = k /\ j <= cap /\ i \in Nat /\ j \in Nat
        BY <2>2, <2>3, <3>3
      <4> QED
        BY <1>0, <3>4, <4>1
    <3> QED
      BY <2>2, <3>2, <3>5 DEF Falls
  <2>8. Saves(rows, saved, {id}, n)
    BY <1>2, <2>6, <2>7 DEF Saves, ToSet
  <2> QED
    BY <1>8, <2>2, <2>4, <2>5, <2>8
<1> QED
  BY <1>6, <1>7

LEMMA KeysForgotten ==
    ASSUME NEW n \in Nat \ {0}, NEW rows, KeysOk(rows, n - 1), NEW id
    PROVE  KeysOk(forgetMintedKey(rows, id), n)
<1> DEFINE s == Without(rows, id)
<1>0. MAX_MINTED_KEYS \in Nat /\ n \in Nat
  BY CapsAre
<1>1. /\ rows \in Seq(KeyRow) /\ OneEach(rows) /\ Len(rows) <= MAX_MINTED_KEYS /\ Len(rows) \in Nat
      /\ \A r \in ToSet(rows) : r.at \in Nat /\ r.at <= n - 1
  <2>1. /\ rows \in Seq(KeyRow) /\ OneEach(rows) /\ Len(rows) <= MAX_MINTED_KEYS
        /\ \A r \in ToSet(rows) : r.at <= n - 1
    BY DEF KeysOk, KeysLike
  <2>2. \A r \in KeyRow : r.at \in Nat
    BY DEF KeyRow
  <2> QED
    BY <2>1, <2>2, SeqIs
<1>2. s \in Seq(KeyRow) /\ Len(s) <= Len(rows) /\ Picks(s, rows)
  BY <1>1, WithoutIs
<1> HIDE DEF s
<1>3. OneEach(s) /\ ToSet(s) \subseteq ToSet(rows)
  BY <1>1, <1>2, PicksKeep
<1>4. Len(s) <= MAX_MINTED_KEYS /\ \A r \in ToSet(s) : r.at <= n
  <2>1. Len(s) \in Nat
    BY <1>2
  <2>2. \A r \in ToSet(rows) : r.at <= n
    BY <1>0, <1>1
  <2>3. Len(s) <= MAX_MINTED_KEYS
    BY <1>0, <1>1, <1>2, <2>1
  <2> QED
    BY <1>3, <2>2, <2>3
<1>5. AllClean(s)
  <2>1. \A r \in ToSet(rows) : r.clean
    BY DEF KeysOk, AllClean, ToSet
  <2>2. \A i \in DOMAIN s : s[i] \in ToSet(s)
    BY DEF ToSet
  <2> QED
    BY <1>3, <2>1, <2>2 DEF AllClean
<1> QED
  BY <1>2, <1>3, <1>4, <1>5 DEF KeysOk, KeysLike, forgetMintedKey, s

JobRow == [id : Nat, at : Nat]
JobsOk(rows) == rows \in Seq(JobRow) /\ Len(rows) <= MAX_CRON_JOBS

LEMMA JobsGo ==
    ASSUME NEW n \in Nat, NEW rows, JobsOk(rows)
    PROVE  /\ addJob(rows, n) \in Seq(JobRow) /\ Len(addJob(rows, n)) = Len(rows) + 1
           /\ \A id : JobsOk(deleteJob(rows, id))
<1>0. MAX_CRON_JOBS \in Nat
  BY CapsAre
<1>1. rows \in Seq(JobRow) /\ Len(rows) <= MAX_CRON_JOBS /\ Len(rows) \in Nat
  BY DEF JobsOk
<1>2. addJob(rows, n) \in Seq(JobRow) /\ Len(addJob(rows, n)) = Len(rows) + 1
  <2>1. [id |-> n, at |-> n] \in JobRow
    BY DEF JobRow
  <2> QED
    BY <1>1, <2>1, AppendIs DEF addJob
<1>3. ASSUME NEW id PROVE JobsOk(deleteJob(rows, id))
  <2> DEFINE s == Without(rows, id)
  <2>1. s \in Seq(JobRow) /\ Len(s) <= Len(rows)
    BY <1>1, WithoutIs
  <2> HIDE DEF s
  <2>2. Len(s) \in Nat
    BY <2>1
  <2>3. Len(s) <= MAX_CRON_JOBS
    BY <1>0, <1>1, <2>1, <2>2
  <2> QED
    BY <2>1, <2>3 DEF JobsOk, deleteJob, s
<1> QED
  BY <1>2, <1>3

ServiceRow == [id : Keys, at : Nat]
ServicesOk(rows) == rows \in Seq(ServiceRow) /\ OneEach(rows) /\ Len(rows) <= MAX_SERVICES

LEMMA ServicesGo ==
    ASSUME NEW n \in Nat, NEW rows, ServicesOk(rows), NEW k \in Keys
    PROVE  /\ saveService(rows, k, n) \in Seq(ServiceRow) /\ OneEach(saveService(rows, k, n))
           /\ Len(saveService(rows, k, n)) <= Len(rows) + 1
<1>1. [id |-> k, at |-> n] \in ServiceRow
  BY DEF ServiceRow
<1>2. rows \in Seq(ServiceRow) /\ OneEach(rows)
  BY DEF ServicesOk
<1> QED
  BY <1>1, <1>2, PutIs DEF saveService
-----------------------------------------------------------------------------
(* Rows of calls *)

RowsOk(name, rows, n) ==
    CASE name = "apiTokens" -> TokensOk(rows)
      [] name = "updates" -> UpdatesOk(rows, n)
      [] name = "templates" -> SourcesOk(rows, n)
      [] name = "stacks" -> StacksOk(rows, n)
      [] name = "mintedKeys" -> KeysOk(rows, n)
      [] name = "auditLog" -> AuditOk(rows, n)
      [] name = "cron" -> JobsOk(rows)
      [] name = "services" -> ServicesOk(rows)

LEMMA OkIsAccepted ==
    ASSUME NEW name \in Names, NEW n \in Nat, NEW rows, RowsOk(name, rows, n)
    PROVE  Accepts(name, rows)
<1>0. OneEach(rows) => Distinct(rows, IdOf)
  BY DEF OneEach, Distinct, IdOf
<1>1. CASE name = "apiTokens"
  BY <1>0, <1>1 DEF RowsOk, Accepts, TokensOk, normaliseApiTokens
<1>2. CASE name = "updates"
  <2>1. UpdatesOk(rows, n)
    BY <1>2 DEF RowsOk
  <2>2. \A r \in UpdateRow : r.digest = "good"
    BY DEF UpdateRow
  <2>3. rows \in Seq(UpdateRow) /\ \A i \in DOMAIN rows : rows[i] \in UpdateRow
    BY <2>1 DEF UpdatesOk
  <2>4. normaliseUpdates(rows)
    BY <1>0, <2>1, <2>2, <2>3 DEF UpdatesOk, normaliseUpdates
  <2> QED
    BY <1>2, <2>4 DEF Accepts
<1>3. CASE name = "templates"
  <2>1. SourcesOk(rows, n)
    BY <1>3 DEF RowsOk
  <2>2. \A r \in SourceRow : r.url # "bad" /\ r.name # "empty"
    BY DEF SourceRow
  <2>3. rows \in Seq(SourceRow) /\ \A i \in DOMAIN rows : rows[i] \in SourceRow
    BY <2>1 DEF SourcesOk
  <2>4. Distinct(rows, LAMBDA row : row.url)
    BY <2>1 DEF SourcesOk, OneUrl, Distinct
  <2>5. normaliseTemplatesSection(rows)
    BY <1>0, <2>1, <2>2, <2>3, <2>4 DEF SourcesOk, normaliseTemplatesSection
  <2> QED
    BY <1>3, <2>5 DEF Accepts
<1>4. CASE name = "stacks"
  BY <1>0, <1>4 DEF RowsOk, Accepts, StacksOk, managedRows
<1>5. CASE name = "mintedKeys"
  <2>1. normaliseMintedKeys(rows)
    BY <1>0, <1>5 DEF RowsOk, KeysOk, KeysLike, AllClean, normaliseMintedKeys
  <2> QED
    BY <1>5, <2>1 DEF Accepts
<1>6. CASE name = "auditLog"
  <2>1. normaliseAudit(rows)
    BY <1>6 DEF RowsOk, AuditOk, AuditLike, AllClean, normaliseAudit
  <2> QED
    BY <1>6, <2>1 DEF Accepts
<1>7. CASE name = "cron"
  BY <1>7 DEF RowsOk, Accepts, JobsOk, normaliseCron
<1>8. CASE name = "services"
  BY <1>0, <1>8 DEF RowsOk, Accepts, ServicesOk, normaliseServices
<1> QED
  BY <1>1, <1>2, <1>3, <1>4, <1>5, <1>6, <1>7, <1>8 DEF Names

(* What a writer offers is as it should be, when it is accepted; and accepted
   it is, but for a text of several control characters, or a full list. *)
LEMMA OffersAre ==
    ASSUME NEW name \in Names, NEW n \in Nat \ {0}, NEW rows, RowsOk(name, rows, n - 1),
           NEW texts \in {Texts, PlainTexts}, NEW next \in Offers(name, rows, n, texts)
    PROVE  /\ Accepts(name, next) => RowsOk(name, next, n)
           /\ texts = PlainTexts => RowsOk(name, next, n) \/ IsFull(name, rows, next)
<1>0. n \in Nat /\ texts \subseteq Texts
  BY DEF PlainTexts
<1>1. CASE name = "apiTokens"
  <2>1. TokensOk(rows) /\ MAX_API_TOKENS \in Nat /\ rows \in Seq(TokenRow) /\ Len(rows) <= MAX_API_TOKENS
    BY <1>1, CapsAre DEF RowsOk, TokensOk
  <2>2. \/ \E k \in NewIds(rows) : next = addApiToken(rows, k, n)
        \/ \E k \in Keys : next \in {removeApiToken(rows, k), findApiToken(rows, k, n)}
    BY <1>1 DEF Offers
  <2>3. CASE \E k \in Keys : next \in {removeApiToken(rows, k), findApiToken(rows, k, n)}
    BY <1>0, <1>1, <2>1, <2>3, TokensGo DEF RowsOk
  <2>4. CASE \E k \in NewIds(rows) : next = addApiToken(rows, k, n)
    <3>1. next \in Seq(TokenRow) /\ OneEach(next) /\ Len(next) = Len(rows) + 1
      BY <1>0, <2>1, <2>4, TokensGo DEF NewIds
    <3>2. Len(next) <= MAX_API_TOKENS => RowsOk(name, next, n)
      BY <1>1, <3>1 DEF RowsOk, TokensOk
    <3>3. Accepts(name, next) => Len(next) <= MAX_API_TOKENS
      BY <1>1 DEF Accepts, normaliseApiTokens
    <3>4. Len(next) <= MAX_API_TOKENS \/ IsFull(name, rows, next)
      <4>1. Len(rows) \in Nat
        BY <2>1
      <4>2. Len(next) <= MAX_API_TOKENS \/ (Len(rows) = MAX_API_TOKENS /\ Len(next) > Len(rows))
        BY <2>1, <3>1, <4>1
      <4>3. name \in DOMAIN Cap /\ Cap[name] = MAX_API_TOKENS
        BY <1>1 DEF Cap
      <4> QED
        BY <4>2, <4>3 DEF IsFull
    <3> QED
      BY <3>2, <3>3, <3>4
  <2> QED
    BY <2>2, <2>3, <2>4
<1>2. CASE name = "updates"
  <2>1. UpdatesOk(rows, n - 1)
    BY <1>2 DEF RowsOk
  <2>2. \E asked \in AskedFor : next = addDismissedUpdates(rows, asked, n)
    BY <1>2 DEF Offers
  <2>3. UpdatesOk(next, n)
    BY <2>1, <2>2, UpdatesGo
  <2> QED
    BY <1>2, <2>3 DEF RowsOk
<1>3. CASE name = "templates"
  <2>1. SourcesOk(rows, n - 1)
    BY <1>3 DEF RowsOk
  <2>2. \/ \E source \in Sources : next = addTemplateSource(rows, source, n)
        \/ \E id \in 1 .. n : next = removeTemplateSource(rows, id)
    BY <1>3 DEF Offers
  <2>3. SourcesOk(next, n)
    BY <2>1, <2>2, SourcesGo
  <2> QED
    BY <1>3, <2>3 DEF RowsOk
<1>4. CASE name = "stacks"
  <2>1. StacksOk(rows, n - 1)
    BY <1>4 DEF RowsOk
  <2>2. \E k \in Keys : next = saveManagedStack(rows, k, n)
    BY <1>4 DEF Offers
  <2>3. StacksOk(next, n)
    BY <2>1, <2>2, StacksGo
  <2> QED
    BY <1>4, <2>3 DEF RowsOk
<1>5. CASE name = "mintedKeys"
  <2>1. KeysOk(rows, n - 1)
    BY <1>5 DEF RowsOk
  <2>2. \/ \E k \in Keys, by \in texts : next = setMintedKey(rows, k, by, n)
        \/ \E k \in Keys : next = forgetMintedKey(rows, k)
    BY <1>5 DEF Offers
  <2>3. KeysLike(next, n) /\ (texts = PlainTexts => AllClean(next))
    BY <1>0, <2>1, <2>2, KeysGo, KeysForgotten DEF KeysOk
  <2>4. Accepts(name, next) => AllClean(next)
    BY <1>5 DEF Accepts, normaliseMintedKeys, AllClean
  <2> QED
    BY <1>5, <2>3, <2>4 DEF RowsOk, KeysOk
<1>6. CASE name = "auditLog"
  <2>1. AuditOk(rows, n - 1)
    BY <1>6 DEF RowsOk
  <2>2. \E line \in texts : next = addAudit(rows, line, n)
    BY <1>6 DEF Offers
  <2>3. AuditLike(next, n) /\ (texts = PlainTexts => AllClean(next))
    BY <1>0, <2>1, <2>2, AuditGoes
  <2>4. Accepts(name, next) => AllClean(next)
    BY <1>6 DEF Accepts, normaliseAudit, AllClean
  <2> QED
    BY <1>6, <2>3, <2>4 DEF RowsOk, AuditOk
<1>7. CASE name = "cron"
  <2>1. JobsOk(rows) /\ MAX_CRON_JOBS \in Nat /\ rows \in Seq(JobRow) /\ Len(rows) <= MAX_CRON_JOBS
    BY <1>7, CapsAre DEF RowsOk, JobsOk
  <2>2. next = addJob(rows, n) \/ \E id \in 1 .. n : next = deleteJob(rows, id)
    BY <1>7 DEF Offers
  <2>3. CASE \E id \in 1 .. n : next = deleteJob(rows, id)
    BY <1>0, <1>7, <2>1, <2>3, JobsGo DEF RowsOk
  <2>4. CASE next = addJob(rows, n)
    <3>1. next \in Seq(JobRow) /\ Len(next) = Len(rows) + 1
      BY <1>0, <2>1, <2>4, JobsGo
    <3>2. Len(next) <= MAX_CRON_JOBS => RowsOk(name, next, n)
      BY <1>7, <3>1 DEF RowsOk, JobsOk
    <3>3. Accepts(name, next) => Len(next) <= MAX_CRON_JOBS
      BY <1>7 DEF Accepts, normaliseCron
    <3>4. Len(next) <= MAX_CRON_JOBS \/ IsFull(name, rows, next)
      <4>1. Len(rows) \in Nat
        BY <2>1
      <4>2. Len(next) <= MAX_CRON_JOBS \/ (Len(rows) = MAX_CRON_JOBS /\ Len(next) > Len(rows))
        BY <2>1, <3>1, <4>1
      <4>3. name \in DOMAIN Cap /\ Cap[name] = MAX_CRON_JOBS
        BY <1>7 DEF Cap
      <4> QED
        BY <4>2, <4>3 DEF IsFull
    <3> QED
      BY <3>2, <3>3, <3>4
  <2> QED
    BY <2>2, <2>3, <2>4
<1>8. CASE name = "services"
  <2>1. ServicesOk(rows) /\ MAX_SERVICES \in Nat /\ rows \in Seq(ServiceRow) /\ Len(rows) <= MAX_SERVICES
    BY <1>8, CapsAre DEF RowsOk, ServicesOk
  <2>2. \E k \in Keys : next = saveService(rows, k, n)
    BY <1>8 DEF Offers
  <2>3. next \in Seq(ServiceRow) /\ OneEach(next) /\ Len(next) <= Len(rows) + 1
    BY <1>0, <2>1, <2>2, ServicesGo
  <2>4. Len(next) <= MAX_SERVICES => RowsOk(name, next, n)
    BY <1>8, <2>3 DEF RowsOk, ServicesOk
  <2>5. Accepts(name, next) => Len(next) <= MAX_SERVICES
    BY <1>8 DEF Accepts, normaliseServices
  <2>6. Len(next) <= MAX_SERVICES \/ IsFull(name, rows, next)
    <3>1. Len(rows) \in Nat /\ Len(next) \in Nat
      BY <2>1, <2>3
    <3>2. Len(next) <= MAX_SERVICES \/ (Len(rows) = MAX_SERVICES /\ Len(next) > Len(rows))
      BY <2>1, <2>3, <3>1
    <3>3. name \in DOMAIN Cap /\ Cap[name] = MAX_SERVICES
      BY <1>8 DEF Cap
    <3> QED
      BY <3>2, <3>3 DEF IsFull
  <2> QED
    BY <2>4, <2>5, <2>6
<1> QED
  BY <1>1, <1>2, <1>3, <1>4, <1>5, <1>6, <1>7, <1>8 DEF Names

(* Rows that are as they should be stay so while the clock goes on. *)
LEMMA RowsStayOk ==
    ASSUME NEW name \in Names, NEW n \in Nat \ {0}, NEW rows, RowsOk(name, rows, n - 1)
    PROVE  RowsOk(name, rows, n)
<1>1. \A R : rows \in Seq(R) => \A r \in ToSet(rows) : r \in R
  BY SeqIs
<1>2. \A a \in Nat : a <= n - 1 => a <= n
  OBVIOUS
<1>3. CASE name \in {"apiTokens", "cron", "services"}
  BY <1>3 DEF RowsOk
<1>4. CASE name = "updates"
  <2>1. UpdatesOk(rows, n - 1) /\ \A r \in UpdateRow : r.at \in Nat
    BY <1>4 DEF RowsOk, UpdateRow
  <2>2. UpdatesOk(rows, n)
    BY <1>1, <1>2, <2>1 DEF UpdatesOk
  <2> QED
    BY <1>4, <2>2 DEF RowsOk
<1>5. CASE name = "templates"
  <2>1. SourcesOk(rows, n - 1) /\ \A r \in SourceRow : r.id \in Nat
    BY <1>5 DEF RowsOk, SourceRow
  <2>2. rows \in Seq(SourceRow) /\ \A i \in DOMAIN rows : rows[i] \in SourceRow /\ rows[i].id <= n - 1
    BY <2>1 DEF SourcesOk
  <2>3. SourcesOk(rows, n)
    BY <1>2, <2>1, <2>2 DEF SourcesOk
  <2> QED
    BY <1>5, <2>3 DEF RowsOk
<1>6. CASE name = "stacks"
  <2>1. StacksOk(rows, n - 1) /\ \A r \in StackRow : r.at \in Nat
    BY <1>6 DEF RowsOk, StackRow
  <2>2. StacksOk(rows, n)
    BY <1>1, <1>2, <2>1 DEF StacksOk
  <2> QED
    BY <1>6, <2>2 DEF RowsOk
<1>7. CASE name = "mintedKeys"
  <2>1. KeysOk(rows, n - 1) /\ \A r \in KeyRow : r.at \in Nat
    BY <1>7 DEF RowsOk, KeyRow
  <2>2. KeysOk(rows, n)
    BY <1>1, <1>2, <2>1 DEF KeysOk, KeysLike
  <2> QED
    BY <1>7, <2>2 DEF RowsOk
<1>8. CASE name = "auditLog"
  <2>1. AuditOk(rows, n - 1) /\ \A r \in AuditRow : r.at \in Nat
    BY <1>8 DEF RowsOk, AuditRow
  <2>2. AuditOk(rows, n)
    BY <1>1, <1>2, <2>1 DEF AuditOk, AuditLike
  <2> QED
    BY <1>8, <2>2 DEF RowsOk
<1> QED
  BY <1>3, <1>4, <1>5, <1>6, <1>7, <1>8 DEF Names

LEMMA CommitKeeps ==
    ASSUME NEW name \in Names, NEW n \in Nat \ {0}, NEW rows, RowsOk(name, rows, n - 1),
           NEW next \in Offers(name, rows, n, Texts)
    PROVE  RowsOk(name, commit(name, rows, next), n)
<1>1. CASE Accepts(name, next)
  BY <1>1, OffersAre DEF commit
<1>2. CASE ~Accepts(name, next)
  BY <1>2, RowsStayOk DEF commit
<1> QED
  BY <1>1, <1>2

LEMMA FirstRowsAreOk == ASSUME NEW name \in Names PROVE RowsOk(name, FirstRows(name), 0)
<1> DEFINE none == <<>>
<1>1. \A R : none \in Seq(R)
  OBVIOUS
<1>2. Len(none) = 0 /\ DOMAIN none = {} /\ ToSet(none) = {}
  BY DEF ToSet
<1>0. name # "cron" => FirstRows(name) = none
  BY DEF FirstRows
<1> HIDE DEF none
<1>3. OneEach(none) /\ OneUrl(none) /\ Falls(none) /\ Climbs(none) /\ AllClean(none)
  BY <1>2 DEF OneEach, OneUrl, Falls, Climbs, AllClean
<1>4. TokensOk(none) /\ UpdatesOk(none, 0)
  BY <1>1, <1>2, <1>3, CapsAre, SectionsAssumption DEF TokensOk, UpdatesOk
<1>5. SourcesOk(none, 0) /\ StacksOk(none, 0) /\ ServicesOk(none)
  BY <1>1, <1>2, <1>3, CapsAre DEF SourcesOk, StacksOk, ServicesOk
<1>6. KeysOk(none, 0) /\ AuditOk(none, 0)
  BY <1>1, <1>2, <1>3, CapsAre DEF KeysOk, AuditOk, KeysLike, AuditLike
<1>7. name # "cron" => RowsOk(name, none, 0)
  BY <1>4, <1>5, <1>6 DEF RowsOk, Names
<1>8. ASSUME name = "cron" PROVE RowsOk(name, FirstRows(name), 0)
  <2> DEFINE row == [id |-> 0, at |-> 0]
  <2>1. row \in JobRow
    BY DEF JobRow
  <2> HIDE DEF row
  <2>2. <<row>> \in Seq(JobRow) /\ Len(<<row>>) = 1
    BY <2>1
  <2>3. FirstRows(name) = <<row>>
    BY <1>8 DEF FirstRows, row
  <2>4. JobsOk(FirstRows(name))
    BY <2>2, <2>3, CapsAre DEF JobsOk
  <2> QED
    BY <1>8, <2>4 DEF RowsOk
<1> QED
  BY <1>0, <1>7, <1>8

(* What may follow from the rows by one call. *)
After(name, rows, i) == {commit(name, rows, next) : next \in Offers(name, rows, i, Texts)}

LEMMA ReachedIs ==
    ASSUME NEW name \in Names, NEW n \in 0 .. Depth
    PROVE  \E f : /\ f[0] = {FirstRows(name)} /\ Reached[name][n] = f[n]
                  /\ \A i \in 1 .. n : f[i] = UNION {After(name, rows, i) : rows \in f[i - 1]}
<1> DEFINE Step(S, i) == UNION {After(name, rows, i) : rows \in S}  First == {FirstRows(name)}
           Upto(g, k) == g = [i \in 0 .. k |-> IF i = 0 THEN First ELSE Step(g[i - 1], i)]
           Held == {k \in 0 .. n : \E g : Upto(g, k)}
<1>0. n \in Nat
  BY SectionsAssumption
<1>1. Reached[name][n] = (CHOOSE f : Upto(f, n))[n]
  BY DEF Reached, After
<1> HIDE DEF Step, First
<1>2. 0 \in Held
  <2>1. Upto([i \in 0 .. 0 |-> First], 0)
    OBVIOUS
  <2>2. 0 \in 0 .. n
    BY <1>0
  <2> QED
    BY <2>1, <2>2
<1>3. ASSUME NEW k \in 1 .. n, k - 1 \in Held PROVE k \in Held
  <2>1. PICK g : Upto(g, k - 1)
    BY <1>3
  <2>0. k \in Nat /\ k - 1 \in Nat
    BY <1>0
  <2> DEFINE h == [i \in 0 .. k |-> IF i = 0 THEN First ELSE Step(g[i - 1], i)]
  <2>2. \A i \in 0 .. (k - 1) : g[i] = h[i]
    <3>1. \A i \in 0 .. (k - 1) : i \in 0 .. k
      BY <2>0
    <3>2. \A i \in 0 .. (k - 1) : g[i] = IF i = 0 THEN First ELSE Step(g[i - 1], i)
      BY <2>1
    <3>3. \A i \in 0 .. k : h[i] = IF i = 0 THEN First ELSE Step(g[i - 1], i)
      OBVIOUS
    <3> HIDE DEF h
    <3> QED
      BY <3>1, <3>2, <3>3
  <2>3. \A i \in 0 .. k : i # 0 => i - 1 \in 0 .. (k - 1) /\ g[i - 1] = h[i - 1]
    <3>1. \A i \in 0 .. k : i # 0 => i - 1 \in 0 .. (k - 1)
      BY <2>0
    <3> HIDE DEF h
    <3> QED
      BY <2>2, <3>1
  <2>4. Upto(h, k)
    BY <2>0, <2>3
  <2> HIDE DEF Upto
  <2> QED
    BY <2>4
<1>4. \E g : Upto(g, n)
  <2>1. n \in 0 .. n
    BY <1>0
  <2> HIDE DEF Held
  <2>2. n \in Held
    BY <1>0, <1>2, <1>3, <2>1, Climb
  <2> QED
    BY <2>2 DEF Held
<1>5. PICK f : Upto(f, n) /\ Reached[name][n] = f[n]
  BY <1>1, <1>4
<1>6. f[0] = First /\ \A i \in 1 .. n : f[i] = Step(f[i - 1], i)
  <2>1. \A i \in 0 .. n : f[i] = IF i = 0 THEN First ELSE Step(f[i - 1], i)
    BY <1>5
  <2>2. 0 \in 0 .. n /\ \A i \in 1 .. n : i \in 0 .. n /\ i # 0
    BY <1>0
  <2> QED
    BY <2>1, <2>2
<1> QED
  BY <1>5, <1>6 DEF Step, First

(* Whatever the calls were. *)
LEMMA ReachedAreOk ==
    ASSUME NEW name \in Names, NEW n \in 0 .. Depth
    PROVE  \A rows \in Reached[name][n] : RowsOk(name, rows, n)
<1>1. PICK f : /\ f[0] = {FirstRows(name)} /\ Reached[name][n] = f[n]
               /\ \A i \in 1 .. n : f[i] = UNION {After(name, rows, i) : rows \in f[i - 1]}
  BY ReachedIs
<1>0. n \in Nat
  BY SectionsAssumption
<1> DEFINE Held == {i \in 0 .. n : \A rows \in f[i] : RowsOk(name, rows, i)}
<1>2. 0 \in Held
  BY <1>0, <1>1, FirstRowsAreOk
<1>3. ASSUME NEW i \in 1 .. n, i - 1 \in Held PROVE i \in Held
  <2>0. i \in Nat \ {0} /\ i \in 0 .. n
    BY <1>0
  <2>1. \A rows \in f[i - 1] : RowsOk(name, rows, i - 1)
    BY <1>3
  <2>2. ASSUME NEW saved \in f[i] PROVE RowsOk(name, saved, i)
    <3>1. PICK rows \in f[i - 1] : saved \in After(name, rows, i)
      BY <1>1
    <3> QED
      BY <2>0, <2>1, <3>1, CommitKeeps DEF After
  <2> QED
    BY <2>0, <2>2
<1>4. n \in 0 .. n
  BY <1>0
<1>5. n \in Held
  <2> HIDE DEF Held
  <2> QED
    BY <1>0, <1>2, <1>3, <1>4, Climb
<1> QED
  BY <1>1, <1>5

LEMMA WritersDo == WritersKeepTheirWord
<1> SUFFICES ASSUME NEW n \in 1 .. Depth
             PROVE
    /\ \A name \in Names : \A rows \in Reached[name][n - 1] :
          \A next \in Offers(name, rows, n, PlainTexts) : Accepts(name, next) \/ IsFull(name, rows, next)
    /\ \A rows \in Reached["updates"][n - 1], asked \in AskedFor :
          Saves(rows, addDismissedUpdates(rows, asked, n), Good(asked), n)
    /\ \A rows \in Reached["stacks"][n - 1], k \in Keys :
          Saves(rows, saveManagedStack(rows, k, n), {k}, n)
    /\ \A rows \in Reached["mintedKeys"][n - 1], k \in Keys, by \in PlainTexts :
          Saves(rows, setMintedKey(rows, k, by, n), {k}, n)
    /\ \A rows \in Reached["auditLog"][n - 1], line \in PlainTexts :
          Saves(rows, addAudit(rows, line, n), {n}, n)
  BY DEF WritersKeepTheirWord
<1>0. n \in Nat \ {0} /\ n \in Nat /\ n - 1 \in 0 .. Depth /\ PlainTexts \subseteq Texts
  BY SectionsAssumption DEF PlainTexts
<1>1. \A name \in Names : \A rows \in Reached[name][n - 1] : RowsOk(name, rows, n - 1)
  BY <1>0, ReachedAreOk
<1>2. ASSUME NEW name \in Names, NEW rows \in Reached[name][n - 1],
             NEW next \in Offers(name, rows, n, PlainTexts)
      PROVE  Accepts(name, next) \/ IsFull(name, rows, next)
  <2>1. RowsOk(name, next, n) \/ IsFull(name, rows, next)
    BY <1>0, <1>1, OffersAre
  <2> QED
    BY <1>0, <2>1, OkIsAccepted
<1>3. ASSUME NEW rows \in Reached["updates"][n - 1], NEW asked \in AskedFor
      PROVE  Saves(rows, addDismissedUpdates(rows, asked, n), Good(asked), n)
  <2>1. "updates" \in Names /\ RowsOk("updates", rows, n - 1)
    BY <1>1 DEF Names
  <2>2. UpdatesOk(rows, n - 1)
    BY <2>1 DEF RowsOk
  <2> QED
    BY <1>0, <2>2, UpdatesGo
<1>4. ASSUME NEW rows \in Reached["stacks"][n - 1], NEW k \in Keys
      PROVE  Saves(rows, saveManagedStack(rows, k, n), {k}, n)
  <2>1. "stacks" \in Names /\ RowsOk("stacks", rows, n - 1)
    BY <1>1 DEF Names
  <2>2. StacksOk(rows, n - 1)
    BY <2>1 DEF RowsOk
  <2> QED
    BY <1>0, <2>2, StacksGo
<1>5. ASSUME NEW rows \in Reached["mintedKeys"][n - 1], NEW k \in Keys, NEW by \in PlainTexts
      PROVE  Saves(rows, setMintedKey(rows, k, by, n), {k}, n)
  <2>1. "mintedKeys" \in Names /\ RowsOk("mintedKeys", rows, n - 1)
    BY <1>1 DEF Names
  <2>2. KeysOk(rows, n - 1)
    BY <2>1 DEF RowsOk
  <2> QED
    BY <1>0, <2>2, KeysGo
<1>6. ASSUME NEW rows \in Reached["auditLog"][n - 1], NEW line \in PlainTexts
      PROVE  Saves(rows, addAudit(rows, line, n), {n}, n)
  <2>1. "auditLog" \in Names /\ RowsOk("auditLog", rows, n - 1)
    BY <1>1 DEF Names
  <2>2. AuditOk(rows, n - 1)
    BY <2>1 DEF RowsOk
  <2> QED
    BY <1>0, <2>2, AuditGoes
<1> QED
  BY <1>2, <1>3, <1>4, <1>5, <1>6

(* After any number of calls, for any keys and caps: what a writer offers is
   accepted by the validation of its section, but for a row too many in a list
   that is not cut and a text of several control characters, and a list that is
   cut to its cap keeps what was just saved and drops the oldest. *)
THEOREM SavesAlwaysKeep == Spec => []SavesAreKept
<1>1. SavesAreKept
  BY WritersDo DEF SavesAreKept
<1> QED
  BY <1>1, PTL
=============================================================================
