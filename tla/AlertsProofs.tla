---------------------------- MODULE AlertsProofs ----------------------------
(***************************************************************************)
(* What comes back late of an earlier token never takes out a registration *)
(* that works, and a receipt that is awaited is about the token its phone  *)
(* has, for any phones, tokens, alerts, failed writes, ends and power cuts.*)
(*                                                                         *)
(* The properties speak of the memory copy.  A restart or a power cut puts *)
(* other contents in its place, so the invariant says the same of every    *)
(* contents the file may come to have.  A registration that was confirmed  *)
(* leaves none but its own, and one that was not counts for nothing.       *)
(***************************************************************************)
EXTENDS Alerts, TLAPS

Awaited == [record : Records, phone : Phones, token : Tokens \cup {None},
            age : {"new", "due", "expired"}]
Shape == [secret : Nat, devices : [Phones -> Tokens \cup {None}],
          receipts : SUBSET Awaited, history : [Records -> Outcomes \cup {None}],
          throttle : BOOLEAN]

(* Contents that keep every registration a phone counts on, with receipts of
   the registered tokens only. *)
Keeps(c) == \A p \in Phones : wants[p] # None /\ wants[p] \notin dead => c.devices[p] = wants[p]
Matches(c) == \A r \in c.receipts : c.devices[r.phone] = r.token
Sound == {c \in Shape : Keeps(c) /\ Matches(c)}

Inv ==
    /\ file \in FileType(Sound)
    /\ wants \in [Phones -> Tokens \cup {None}]
    /\ allowed \subseteq Phones
-----------------------------------------------------------------------------
(* Whatever comes of writing good contents over good ones, all is good. *)
LEMMA CommitsStay ==
    ASSUME NEW S, NEW f \in FileType(S), NEW new \in S, NEW w \in Commits(f, new)
    PROVE  w.file \in FileType(S)
<1>1. f \in FileType(S) /\ Confirmed(f, new) \in FileType(S) /\ Unconfirmed(f, new) \in FileType(S)
  BY DEF Confirmed, Unconfirmed, FileType
<1> DEFINE c == Confirmed(f, new)  u == Unconfirmed(f, new)
<1>2. w \in {[done |-> FALSE, faults |-> 0, file |-> f]} \cup Writes(f, new)
  BY DEF Commits
<1>3. \/ w = [done |-> FALSE, faults |-> 0, file |-> f]
      \/ w = [done |-> FALSE, faults |-> 1, file |-> f]
      \/ w = [done |-> FALSE, faults |-> 1, file |-> u]
      \/ w = [done |-> TRUE, faults |-> 0, file |-> c]
  BY <1>2 DEF Writes
<1> HIDE DEF c, u
<1>4. w.file \in {f, c, u}
  BY <1>3
<1> QED
  BY <1>1, <1>4 DEF c, u

(* A write the caller learns is done leaves nothing else behind. *)
LEMMA DoneIsAll ==
    ASSUME NEW S, NEW T, NEW f \in FileType(S), NEW new \in T, NEW w \in Commits(f, new), w.done
    PROVE  w.file \in FileType(T)
<1>1. Confirmed(f, new) \in FileType(T)
  BY DEF Confirmed, FileType
<1>2. w.file = Confirmed(f, new)
  BY DEF Commits, Writes
<1> QED
  BY <1>1, <1>2

LEMMA ReloadsStay ==
    ASSUME NEW S, NEW f \in FileType(S)
    PROVE  Reloaded(f, f.disk) \in FileType(S) /\ \A g \in AfterCut(f) : g \in FileType(S)
  BY DEF Reloaded, AfterCut, FileType

(* Good contents stay good when phones count on less. *)
LEMMA WidensFile ==
    ASSUME NEW S, NEW T, S \subseteq T, NEW f \in FileType(S)
    PROVE  f \in FileType(T)
  BY DEF FileType

LEMMA CountsOnLess ==
    ASSUME Inv, dead \subseteq dead',
           \A p \in Phones : wants'[p] \in {wants[p], None}
    PROVE  Sound \subseteq Sound'
  BY DEF Sound, Keeps, Matches

LEMMA StateIsSound ==
    ASSUME Inv
    PROVE  state \in Sound /\ file.disk \in Sound
  BY DEF Inv, state, FileType
-----------------------------------------------------------------------------
(* What the updates make of sound contents. *)

LEMMA RegisteredIsSound ==
    ASSUME NEW c \in Shape, Matches(c), NEW p \in Phones, NEW t \in Tokens
    PROVE  /\ Registered(c, p, t) \in Shape
           /\ Matches(Registered(c, p, t))
           /\ Registered(c, p, t).devices[p] = t
           /\ \A q \in Phones \ {p} : Registered(c, p, t).devices[q] = c.devices[q]
<1> DEFINE new == Registered(c, p, t)
<1>1. /\ new.devices = [c.devices EXCEPT ![p] = t]
      /\ new.receipts = c.receipts \ DropOld(c, p, t)
      /\ new \in Shape
  BY DEF Registered, Shape, Awaited
<1>2. ASSUME NEW r \in new.receipts
      PROVE  new.devices[r.phone] = r.token
  <2>1. r \in c.receipts /\ r.phone \in Phones /\ c.devices[r.phone] = r.token
    BY <1>1 DEF Shape, Awaited, Matches
  <2>2. r.phone = p => c.devices[p] = t
    BY <1>1, <2>1 DEF DropOld, ReceiptsOf
  <2> QED
    BY <1>1, <2>1, <2>2 DEF Shape
<1> QED
  BY <1>1, <1>2 DEF Matches, Shape

LEMMA RemovedIsSound ==
    ASSUME NEW c \in Shape, Matches(c), NEW p \in Phones
    PROVE  /\ Removed(c, p) \in Shape
           /\ Matches(Removed(c, p))
           /\ \A q \in Phones \ {p} : Removed(c, p).devices[q] = c.devices[q]
<1> DEFINE new == Removed(c, p)
<1>1. /\ new.devices = [c.devices EXCEPT ![p] = None]
      /\ new.receipts = c.receipts \ ReceiptsOf(c, p)
      /\ new \in Shape
  BY DEF Removed, Shape, Awaited
<1>2. ASSUME NEW r \in new.receipts
      PROVE  new.devices[r.phone] = r.token
  <2>1. r \in c.receipts /\ r.phone \in Phones /\ r.phone # p
    BY <1>1 DEF Shape, Awaited, ReceiptsOf
  <2> QED
    BY <1>1, <2>1 DEF Shape, Matches
<1> QED
  BY <1>1, <1>2 DEF Matches, Shape

LEMMA SavedIsSound ==
    ASSUME NEW c \in Sound, NEW a \in Records, NEW to, NEW v \in Tickets(to),
           allowed \subseteq Phones
    PROVE  SavedTickets(c, a, to, v) \in Sound
<1> DEFINE mine == {p \in DOMAIN to : SentTo(c, to, p) /\ p \in allowed}
           gone == {p \in mine : v[p] = "gone"}
           sent == {[record |-> a, phone |-> p, token |-> to[p], age |-> "new"] :
                      p \in {q \in mine : v[q] = "ok"}}
           new == SavedTickets(c, a, to, v)
<1>0. c \in Shape /\ Keeps(c) /\ Matches(c)
  BY DEF Sound
<1>1. \A p \in mine : p \in Phones /\ c.devices[p] = to[p] /\ to[p] \in Tokens \cup {None}
  BY <1>0 DEF SentTo, Shape
<1>2. sent \subseteq Awaited
  BY <1>1 DEF Awaited
<1>3. new = [c EXCEPT !.devices = [p \in Phones |-> IF p \in gone THEN None ELSE c.devices[p]],
                      !.receipts = {r \in c.receipts : r.phone \notin gone} \cup sent]
  BY <1>0 DEF SavedTickets, Shape
<1> HIDE DEF sent, mine
<1>4. /\ new.devices = [p \in Phones |-> IF p \in gone THEN None ELSE c.devices[p]]
      /\ new.receipts = {r \in c.receipts : r.phone \notin gone} \cup sent
      /\ new \in Shape
  <2>1. [p \in Phones |-> IF p \in gone THEN None ELSE c.devices[p]] \in [Phones -> Tokens \cup {None}]
    BY <1>0 DEF Shape
  <2>2. {r \in c.receipts : r.phone \notin gone} \cup sent \in SUBSET Awaited
    BY <1>0, <1>2 DEF Shape
  <2> QED
    BY <1>0, <1>3, <2>1, <2>2 DEF Shape
<1>5. \A p \in gone : c.devices[p] \in dead
  BY <1>1 DEF Tickets, mine
<1>6. Keeps(new)
  BY <1>0, <1>4, <1>5 DEF Keeps
<1>7. ASSUME NEW r \in new.receipts
      PROVE  new.devices[r.phone] = r.token
  <2>1. CASE r \in c.receipts /\ r.phone \notin gone
    BY <1>0, <1>4, <2>1 DEF Matches, Shape, Awaited
  <2>2. CASE r \in sent
    <3>1. PICK p \in mine : v[p] = "ok" /\ r.phone = p /\ r.token = to[p]
      BY <2>2 DEF sent
    <3>2. p \notin gone
      BY <3>1
    <3> QED
      BY <1>1, <1>4, <3>1, <3>2
  <2> QED
    BY <1>4, <2>1, <2>2
<1> QED
  BY <1>4, <1>6, <1>7 DEF Sound, Matches

LEMMA HistoryIsSound ==
    ASSUME NEW c \in Sound, NEW new \in Shape,
           new.devices = c.devices, new.receipts \subseteq c.receipts
    PROVE  new \in Sound
  BY DEF Sound, Keeps, Matches

LEMMA SettledIsSound ==
    ASSUME NEW c \in Sound, NEW a \in Records, NEW ok \in BOOLEAN
    PROVE  Settled(c, a, ok) \in Sound
<1>1. Settled(c, a, ok) \in Shape
  BY DEF Sound, Shape, Settled, Outcomes
<1>2. Settled(c, a, ok).devices = c.devices /\ Settled(c, a, ok).receipts = c.receipts
  BY DEF Sound, Shape, Settled
<1> QED
  BY <1>1, <1>2, HistoryIsSound

LEMMA AgedIsSound ==
    ASSUME NEW c \in Sound, NEW r \in c.receipts, NEW older \in Awaited,
           older.phone = r.phone, older.token = r.token
    PROVE  [c EXCEPT !.receipts = (@ \ {r}) \cup {older}] \in Sound
<1> DEFINE new == [c EXCEPT !.receipts = (@ \ {r}) \cup {older}]
<1>1. /\ new \in Shape /\ new.devices = c.devices
      /\ new.receipts = (c.receipts \ {r}) \cup {older}
  BY DEF Sound, Shape
<1> HIDE DEF new
<1>2. Keeps(new)
  BY <1>1 DEF Sound, Keeps
<1>3. Matches(new)
  BY <1>1 DEF Sound, Matches
<1> QED
  BY <1>1, <1>2, <1>3 DEF Sound, new

(* What the answers to a receipt check leave: a receipt that is held against
   its phone is about the token it has. *)
Checked(c, asked, gone) ==
    [c EXCEPT !.devices = [p \in Phones |-> IF p \in gone THEN None ELSE @[p]],
              !.receipts = {r \in @ : r \notin asked /\ r.phone \notin gone}]

LEMMA CheckedIsSound ==
    ASSUME NEW c \in Sound, NEW asked, NEW gone,
           \A p \in gone : \E r \in c.receipts : r.phone = p /\ r.token \in dead
    PROVE  Checked(c, asked, gone) \in Sound
<1> DEFINE devices == [p \in Phones |-> IF p \in gone THEN None ELSE c.devices[p]]
           receipts == {r \in c.receipts : r \notin asked /\ r.phone \notin gone}
           new == [c EXCEPT !.devices = devices, !.receipts = receipts]
<1>1. c \in Shape /\ Keeps(c) /\ Matches(c)
  BY DEF Sound
<1>2. devices \in [Phones -> Tokens \cup {None}] /\ receipts \in SUBSET Awaited
  BY <1>1 DEF Shape
<1> HIDE DEF devices, receipts
<1>3. new.devices = devices /\ new.receipts = receipts /\ new \in Shape
  BY <1>1, <1>2 DEF Shape
<1>4. \A p \in gone : c.devices[p] \in dead
  BY <1>1 DEF Matches
<1>5. Keeps(new)
  BY <1>1, <1>3, <1>4 DEF Keeps, devices
<1>6. Matches(new)
  BY <1>1, <1>3 DEF Matches, devices, receipts, Shape, Awaited
<1> QED
  BY <1>3, <1>5, <1>6 DEF Sound, Checked, devices, receipts
-----------------------------------------------------------------------------
(* The steps. *)

LEMMA InitSound == Init => Inv
<1> SUFFICES ASSUME Init PROVE Inv
  OBVIOUS
<1>1. Empty \in Shape /\ Empty.receipts = {}
  BY DEF Empty, Shape
<1>2. Keeps(Empty) /\ Matches(Empty)
  BY <1>1 DEF Init, Keeps, Matches
<1> QED
  BY <1>1, <1>2 DEF Init, Inv, FileOf, FileType, Sound

LEMMA SoundNext ==
    ASSUME NEW new \in Shape, Matches(new),
           \A p \in Phones : wants'[p] # None /\ wants'[p] \notin dead' => new.devices[p] = wants'[p]
    PROVE  new \in Sound'
  BY DEF Sound, Keeps, Matches, Shape, Awaited

LEMMA RegisterStays ==
    ASSUME Inv, NEW p \in Phones, NEW t \in Tokens, Register(p, t)
    PROVE  Inv'
<1> DEFINE new == Registered(state, p, t)
<1>1. PICK w \in Commits(file, new) :
        /\ file' = w.file
        /\ wants' = [wants EXCEPT ![p] = IF w.done THEN t ELSE None]
  BY DEF Register, Update
<1>2. dead' = dead /\ allowed' = allowed
  BY DEF Register, Others
<1>3. state \in Shape /\ Keeps(state) /\ Matches(state)
  BY StateIsSound DEF Sound
<1>4. /\ new \in Shape /\ Matches(new) /\ new.devices[p] = t
      /\ \A q \in Phones \ {p} : new.devices[q] = state.devices[q]
  BY <1>3, RegisteredIsSound
<1> HIDE DEF new
<1>5. wants' \in [Phones -> Tokens \cup {None}] /\ wants'[p] \in {t, None}
      /\ \A q \in Phones \ {p} : wants'[q] = wants[q]
  BY <1>1 DEF Inv
<1>6. \A q \in Phones : wants'[q] # None /\ wants'[q] \notin dead => new.devices[q] = wants'[q]
  BY <1>3, <1>4, <1>5 DEF Keeps
<1>7. new \in Sound'
  BY <1>2, <1>4, <1>6, SoundNext
<1>8. CASE w.done
  BY <1>1, <1>7, <1>8, DoneIsAll, <1>2, <1>5 DEF Inv
<1>9. CASE ~w.done
  <2>1. \A q \in Phones : wants'[q] \in {wants[q], None}
    BY <1>1, <1>9 DEF Inv
  <2>2. Sound \subseteq Sound'
    BY <1>2, <2>1, CountsOnLess
  <2>3. file \in FileType(Sound')
    BY <2>2, WidensFile DEF Inv
  <2>4. w.file \in FileType(Sound')
    BY <1>7, <2>3, CommitsStay
  <2> QED
    BY <1>1, <1>2, <1>5, <2>4 DEF Inv
<1> QED
  BY <1>8, <1>9

(* A phone's registration goes, and the phone no longer counts on one. *)
LEMMA RemovalStays ==
    ASSUME Inv, NEW p \in Phones, NEW w \in Commits(file, Removed(state, p)), file' = w.file,
           wants' = [wants EXCEPT ![p] = None], dead' = dead, allowed' \subseteq allowed
    PROVE  Inv'
<1> DEFINE new == Removed(state, p)
<1>1. state \in Shape /\ Keeps(state) /\ Matches(state)
  BY StateIsSound DEF Sound
<1>2. /\ new \in Shape /\ Matches(new)
      /\ \A q \in Phones \ {p} : new.devices[q] = state.devices[q]
  BY <1>1, RemovedIsSound
<1> HIDE DEF new
<1>3. /\ wants' \in [Phones -> Tokens \cup {None}] /\ wants'[p] = None
      /\ \A q \in Phones \ {p} : wants'[q] = wants[q]
  BY DEF Inv
<1>4. new \in Sound'
  BY <1>1, <1>2, <1>3, SoundNext DEF Keeps
<1>5. \A q \in Phones : wants'[q] \in {wants[q], None}
  BY <1>3
<1>6. file \in FileType(Sound')
  BY <1>5, CountsOnLess, WidensFile DEF Inv
<1>7. w.file \in FileType(Sound')
  BY <1>4, <1>6, CommitsStay DEF new
<1> QED
  BY <1>3, <1>7 DEF Inv

LEMMA ForgetStays ==
    ASSUME Inv, NEW p \in Phones, removeAlertsDevice(p) \/ Revoke(p)
    PROVE  Inv'
<1>1. PICK w \in Commits(file, Removed(state, p)) : file' = w.file
  BY DEF removeAlertsDevice, Revoke, Update
<1>2. wants' = [wants EXCEPT ![p] = None] /\ dead' = dead /\ allowed' \subseteq allowed
  BY DEF removeAlertsDevice, Revoke, Others
<1> QED
  BY <1>1, <1>2, RemovalStays

LEMMA TokenDiesStays ==
    ASSUME Inv, NEW t \in Tokens, TokenDies(t)
    PROVE  Inv'
<1>1. UNCHANGED <<file, wants, allowed>> /\ dead \subseteq dead'
  BY DEF TokenDies, NoUpdate
<1>2. Sound \subseteq Sound'
  BY <1>1, CountsOnLess DEF Inv
<1>3. file \in FileType(Sound')
  BY <1>2, WidensFile DEF Inv
<1> QED
  BY <1>1, <1>3 DEF Inv

(* Every other update: sound contents over sound contents, and nothing else
   that the invariant speaks of. *)
LEMMA UpdateStays ==
    ASSUME Inv, UNCHANGED <<wants, dead, allowed>>, file' \in FileType(Sound)
    PROVE  Inv'
<1>1. Sound' = Sound
  BY DEF Sound, Keeps, Matches, Shape, Awaited
<1> QED
  BY <1>1 DEF Inv

LEMMA CommitIsSound ==
    ASSUME Inv, NEW new \in Sound, NEW w \in Commits(file, new)
    PROVE  w.file \in FileType(Sound)
  BY CommitsStay DEF Inv

LEMMA SourceStays ==
    ASSUME Inv, SourceAction
    PROVE  Inv'
<1>1. PICK new \in {Rotated(state), Deleted(state)} : \E w \in Commits(file, new) : file' = w.file
  BY DEF SourceAction, Update
<1>2. new \in Sound
  <2>1. state \in Sound /\ state \in Shape
    BY StateIsSound DEF Sound
  <2>2. Rotated(state) \in Sound
    <3>1. /\ Rotated(state) \in Shape
          /\ Rotated(state).devices = state.devices /\ Rotated(state).receipts = state.receipts
      BY <2>1 DEF Rotated, Shape
    <3> QED
      BY <2>1, <3>1, HistoryIsSound
  <2>3. Deleted(state) \in Sound
    <3>1. /\ Deleted(state) \in Shape
          /\ Deleted(state).devices = state.devices /\ Deleted(state).receipts = state.receipts
      BY <2>1 DEF Deleted, Shape
    <3> QED
      BY <2>1, <3>1, HistoryIsSound
  <2> QED
    BY <2>2, <2>3
<1> QED
  BY <1>1, <1>2, CommitIsSound, UpdateStays DEF SourceAction, Others

LEMMA ThrottleStays ==
    ASSUME Inv, ThrottleEnds
    PROVE  Inv'
<1>1. \A c \in Sound : [c EXCEPT !.throttle = FALSE] \in Sound
  BY HistoryIsSound DEF Sound, Shape
<1>2. file' = [file EXCEPT !.cache = [file.cache EXCEPT !.throttle = FALSE],
                          !.disk = [file.disk EXCEPT !.throttle = FALSE]]
  BY DEF ThrottleEnds, Inv, FileType
<1>3. file' \in FileType(Sound)
  BY <1>1, <1>2 DEF Inv, FileType
<1> QED
  BY <1>3, UpdateStays DEF ThrottleEnds, Others

LEMMA RecordedIsSound ==
    ASSUME Inv, NEW a \in Records, NEW outcome \in Outcomes
    PROVE  [state EXCEPT !.history[a] = outcome] \in Sound
<1> DEFINE new == [state EXCEPT !.history[a] = outcome]
<1>1. state \in Sound /\ state \in Shape
  BY StateIsSound DEF Sound
<1>2. new \in Shape /\ new.devices = state.devices /\ new.receipts = state.receipts
  BY <1>1 DEF Shape
<1> QED
  BY <1>1, <1>2, HistoryIsSound

LEMMA AcceptStays ==
    ASSUME Inv, NEW a \in Records, Accept(a)
    PROVE  Inv'
<1>1. UNCHANGED <<wants, dead, allowed>>
  BY DEF Accept, Others
<1>2. CASE file' = file
  BY <1>1, <1>2, UpdateStays DEF Inv
<1>3. CASE file' # file
  <2> DEFINE registered == {p \in Phones : state.devices[p] # None}
             New(verdict) == [state EXCEPT !.history[a] = verdict.outcome,
                                           !.throttle = @ \/ verdict.opens]
  <2>1. PICK verdict \in evaluateAlert(state.throttle, registered) :
          \E w \in Commits(file, New(verdict)) : file' = w.file
    BY <1>3 DEF Accept, Update, NoUpdate
  <2>2. verdict.outcome \in Outcomes /\ verdict.opens \in BOOLEAN
    <3>1. \/ verdict = [outcome |-> "withheld", opens |-> FALSE]
          \/ verdict = [outcome |-> "withheld", opens |-> TRUE]
          \/ verdict = [outcome |-> "failed", opens |-> TRUE]
      BY <2>1 DEF evaluateAlert
    <3>2. verdict.outcome \in {"withheld", "failed"}
      BY <3>1
    <3>3. verdict.opens = TRUE \/ verdict.opens = FALSE
      BY <3>1
    <3> QED
      BY <3>2, <3>3 DEF Outcomes
  <2>3. state \in Sound /\ state \in Shape
    BY StateIsSound DEF Sound
  <2>4. /\ New(verdict) \in Shape /\ New(verdict).devices = state.devices
        /\ New(verdict).receipts = state.receipts
    BY <2>2, <2>3 DEF Shape
  <2>5. New(verdict) \in Sound
    BY <2>3, <2>4, HistoryIsSound
  <2> QED
    BY <1>1, <2>1, <2>5, CommitIsSound, UpdateStays
<1> QED
  BY <1>2, <1>3

LEMMA SendTestStays ==
    ASSUME Inv, NEW a \in Records, NEW p \in Phones, SendTest(a, p)
    PROVE  Inv'
<1>1. PICK outcome \in Outcomes :
        \E w \in Commits(file, [state EXCEPT !.history[a] = outcome]) : file' = w.file
  BY DEF SendTest, Update, Outcomes
<1> QED
  BY <1>1, RecordedIsSound, CommitIsSound, UpdateStays DEF SendTest, Others

LEMMA AnsweredStays ==
    ASSUME Inv, NEW a \in Records, Answered(a)
    PROVE  Inv'
<1>1. UNCHANGED <<wants, dead, allowed>>
  BY DEF Answered, Others
<1>2. CASE file' = file
  BY <1>1, <1>2, UpdateStays DEF Inv
<1>3. CASE file' # file
  <2> DEFINE Saved(v, answered) ==
               IF answered THEN SavedTickets(state, a, job[a].to, v) ELSE state
  <2>0. PICK v \in Tickets(job[a].to), answered \in BOOLEAN :
          \E w \in Commits(file, Saved(v, answered)) :
             \/ file' = w.file
             \/ \E ok \in BOOLEAN : \E u \in Commits(w.file, Settled(Saved(v, answered), a, ok)) : file' = u.file
    BY <1>3 DEF Answered, Update, NoUpdate
  <2>1. PICK w \in Commits(file, Saved(v, answered)) :
             \/ file' = w.file
             \/ \E ok \in BOOLEAN : \E u \in Commits(w.file, Settled(Saved(v, answered), a, ok)) : file' = u.file
    BY <2>0
  <2>2. Saved(v, answered) \in Sound
    BY StateIsSound, SavedIsSound DEF Inv
  <2>3. w.file \in FileType(Sound)
    BY <2>2, CommitIsSound
  <2>4. \A ok \in BOOLEAN : Settled(Saved(v, answered), a, ok) \in Sound
    BY <2>2, SettledIsSound
  <2>5. file' \in FileType(Sound)
    BY <2>1, <2>3, <2>4, CommitsStay
  <2> QED
    BY <1>1, <2>5, UpdateStays
<1> QED
  BY <1>2, <1>3

LEMMA AgesStays ==
    ASSUME Inv, Ages
    PROVE  Inv'
<1> DEFINE Older(r) == [r EXCEPT !.age = IF @ = "new" THEN "due" ELSE "expired"]
           New(r) == [state EXCEPT !.receipts = (@ \ {r}) \cup {Older(r)}]
<1>1. PICK r \in state.receipts : file' = [file EXCEPT !.cache = New(r), !.disk = New(r)]
  BY DEF Ages
<1>2. state \in Sound /\ r \in Awaited
  BY StateIsSound DEF Sound, Shape
<1>3. Older(r) \in Awaited /\ Older(r).phone = r.phone /\ Older(r).token = r.token
  BY <1>2 DEF Awaited
<1>4. New(r) \in Sound
  BY <1>2, <1>3, AgedIsSound
<1> HIDE DEF New
<1>5. file' \in FileType(Sound)
  BY <1>1, <1>4 DEF Inv, FileType
<1> QED
  BY <1>5, UpdateStays DEF Ages, Others

LEMMA CheckStays ==
    ASSUME Inv, checkAlertReceipts
    PROVE  Inv'
<1> DEFINE rest == [state EXCEPT !.receipts = @ \ Expired]
<1>1. state \in Sound /\ state \in Shape
  BY StateIsSound DEF Sound
<1>2. rest \in Shape /\ rest.devices = state.devices /\ rest.receipts \subseteq state.receipts
  BY <1>1 DEF Shape
<1>3. rest \in Sound
  BY <1>1, <1>2, HistoryIsSound
<1>4. file' = file \/ \E w \in Commits(file, rest) : file' = w.file
  BY DEF checkAlertReceipts, Untouched
<1>5. file' \in FileType(Sound)
  BY <1>3, <1>4, CommitIsSound DEF Inv
<1> QED
  BY <1>5, UpdateStays DEF checkAlertReceipts, Others

LEMMA CheckAnsweredStays ==
    ASSUME Inv, CheckAnswered
    PROVE  Inv'
<1>1. UNCHANGED <<wants, dead, allowed>>
  BY DEF CheckAnswered, Others
<1>2. CASE file' = file
  BY <1>1, <1>2, UpdateStays DEF Inv
<1>3. CASE file' # file
  <2> DEFINE Told(gone) == {r.phone : r \in gone \cap state.receipts}
             Out(gone) == {p \in Told(gone) : state.devices[p] = check.devices[p]}
  <2>1. PICK gone \in SUBSET {r \in check.receipts : r.token \in dead} :
          \E w \in Commits(file, Checked(state, check.receipts, Out(gone))) : file' = w.file
    BY <1>3 DEF CheckAnswered, Update, NoUpdate, Checked
  <2>2. PICK out : /\ \A p \in out : \E r \in state.receipts : r.phone = p /\ r.token \in dead
                   /\ \E w \in Commits(file, Checked(state, check.receipts, out)) : file' = w.file
    BY <2>1
  <2>3. Checked(state, check.receipts, out) \in Sound
    BY <2>2, StateIsSound, CheckedIsSound
  <2> QED
    BY <1>1, <2>2, <2>3, CommitIsSound, UpdateStays
<1> QED
  BY <1>2, <1>3

LEMMA NewProcessStays ==
    ASSUME Inv, Restart \/ PowerCut
    PROVE  Inv'
<1>1. file' \in FileType(Sound)
  BY ReloadsStay DEF Inv, Restart, PowerCut
<1> QED
  BY <1>1, UpdateStays DEF Restart, PowerCut, Memory

LEMMA NextStays ==
    ASSUME Inv, [Next]_vars
    PROVE  Inv'
<1>1. CASE UNCHANGED vars \/ CheckAgain
  BY <1>1, UpdateStays DEF Inv, vars, CheckAgain, NoUpdate, Others
<1>2. CASE \E a \in Records : Receive(a) \/ Retry(a)
  BY <1>2, UpdateStays DEF Inv, Receive, Retry, NoUpdate, Others
<1>3. CASE SourceAction \/ ThrottleEnds \/ Ages \/ checkAlertReceipts \/ CheckAnswered
  BY <1>3, SourceStays, ThrottleStays, AgesStays, CheckStays, CheckAnsweredStays
<1>4. CASE Restart \/ PowerCut
  BY <1>4, NewProcessStays
<1>5. CASE \E t \in Tokens : TokenDies(t)
  BY <1>5, TokenDiesStays
<1>6. CASE \E p \in Phones : removeAlertsDevice(p) \/ Revoke(p) \/ \E t \in Tokens : Register(p, t)
  BY <1>6, ForgetStays, RegisterStays
<1>7. CASE \E a \in Records : Accept(a) \/ Answered(a) \/ \E p \in Phones : SendTest(a, p)
  BY <1>7, AcceptStays, AnsweredStays, SendTestStays
<1> QED
  BY <1>1, <1>2, <1>3, <1>4, <1>5, <1>6, <1>7 DEF Next
-----------------------------------------------------------------------------
(* The invariant holds in every behaviour: whatever contents the alerts file
   has or may come back with, the phones' registrations are in it. *)
THEOREM EveryContentsIsSound == Spec => []Inv
<1>1. Inv /\ [Next]_vars => Inv'
  BY NextStays
<1> QED
  BY InitSound, <1>1, PTL DEF Spec

(* A phone that was told it is registered, with a token that works, is not
   taken out by a ticket or a receipt of an earlier token, a write that fails,
   a restart or a power cut; receipts are about the tokens phones have now. *)
THEOREM RegistrationsAlwaysHold == Spec => []RegistrationsHold
<1>1. Inv => RegistrationsHold
  BY StateIsSound
  DEF Sound, Keeps, Matches, RegistrationsHold, KeepsLiveRegistration, ReceiptsMatchTokens
<1> QED
  BY EveryContentsIsSound, <1>1, PTL
-----------------------------------------------------------------------------
(* Requests are addressed as they are sent, and webhooks are looked up again
   once they have been read. *)

LEMMA NobodyElse ==
    ASSUME NEW ids
    PROVE  ~Strays(TokensOf(AllowedOf(ids)))
  BY DEF Strays, TokensOf, AllowedOf

LEMMA NothingLate ==
    ASSUME EndedIsDead, [Next]_vars
    PROVE  EndedIsDead'
<1> USE DEF EndedIsDead, RevokedGetsNothing, OldAddressIsDead
<1>1. CASE UNCHANGED <<stray, late>>
  BY <1>1
<1>2. ASSUME NEW a \in Records, Accept(a)
      PROVE  EndedIsDead'
  <2> DEFINE registered == {p \in Phones : state.devices[p] # None}
             to == TokensOf(AllowedOf(registered))
  <2> HIDE DEF to
  <2>1. CASE UNCHANGED <<stray, late>>
    BY <2>1
  <2>2. CASE /\ job[a].secret = state.secret
             /\ late' = (late \/ job[a].secret # state.secret)
             /\ \E send \in BOOLEAN : stray' = (stray \/ (send /\ Strays(to)))
    <3>1. ~late'
      BY <2>2
    <3>2. ~stray'
      BY <2>2, NobodyElse DEF to
    <3> QED
      BY <3>1, <3>2
  <2> QED
    BY <1>2, <2>1, <2>2 DEF Accept, StillFound, findAlertSource, to
<1>3. ASSUME NEW a \in Records, Retry(a)
      PROVE  EndedIsDead'
  <2>1. ~Strays(Again(job[a]))
    BY NobodyElse DEF Again
  <2>2. CASE UNCHANGED stray
    BY <1>3, <2>2 DEF Retry
  <2>3. CASE stray' = (stray \/ Strays(Again(job[a])))
    BY <1>3, <2>1, <2>3 DEF Retry
  <2> QED
    BY <1>3, <2>2, <2>3 DEF Retry
<1>4. ASSUME Next
      PROVE  \/ UNCHANGED <<stray, late>>
             \/ \E a \in Records : Accept(a) \/ Retry(a)
  BY <1>4 DEF Next, SourceAction, ThrottleEnds, Ages, checkAlertReceipts, CheckAgain, CheckAnswered,
       Restart, PowerCut, Memory, TokenDies, removeAlertsDevice, Revoke, Register, Receive, Answered, SendTest
<1> QED
  BY <1>1, <1>2, <1>3, <1>4 DEF vars

(* However far a request had come when a pairing or an address ended, it
   neither reaches the phone nor records the alert. *)
THEOREM EndedStaysDead == Spec => []EndedIsDead
<1>1. Init => EndedIsDead
  BY DEF Init, EndedIsDead, RevokedGetsNothing, OldAddressIsDead
<1>2. EndedIsDead /\ [Next]_vars => EndedIsDead'
  BY NothingLate
<1> QED
  BY <1>1, <1>2, PTL DEF Spec
=============================================================================
