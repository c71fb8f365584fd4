------------------------------- MODULE Alerts -------------------------------
(***************************************************************************)
(* Push alerts (src/src/alerts/): services call a secret address, the      *)
(* Companion records the alert and sends it through the push service to    *)
(* the phones that registered, and asks later for the receipts.            *)
(*                                                                         *)
(* What interleaves: a webhook awaits its body while the owner rotates or  *)
(* removes its address; a delivery awaits the push service, or 30 seconds  *)
(* before its one retry, while phones register again, forget themselves or *)
(* are revoked; the receipt check does the same beside it.  Each           *)
(* continuation runs to its next await in one go and is one action.  The   *)
(* state file is locked, re-read and replaced by every update (StateFile). *)
(***************************************************************************)
EXTENDS StateFile, FiniteSets

CONSTANTS
    Phones, Tokens,      \* paired phones, and the push tokens of their apps
    Records,             \* identities of history records
    None,
    MaxSecrets,          \* times the source gets an address, the first included
    MaxFaults, MaxStops, MaxDead

ASSUME AlertsAssumption ==
    /\ None \notin Tokens \cup Phones \cup Records
    /\ MaxSecrets \in Nat /\ MaxFaults \in Nat /\ MaxStops \in Nat /\ MaxDead \in Nat

VARIABLES
    file,       \* the alerts state file
    allowed,    \* phones whose pairing may receive alerts (mobile state)
    job,        \* per record: the webhook or delivery that works on it
    check,      \* the receipt check
    dead,       \* tokens the push service no longer knows
    wants,      \* per phone: the registration it was told of and still counts on
    stray,      \* a request went to a phone that was not allowed
    late,       \* an alert was recorded for an address no longer in force
    faults, stops

vars == <<file, allowed, job, check, dead, wants, stray, late, faults, stops>>
-----------------------------------------------------------------------------
(* Contents: the source's secret in force (0: no source), registrations,
   receipts awaited, outcomes in the history ("withheld": filtered, throttled,
   kept to the history, or no phone to send to), and the rule's throttle. *)
Outcomes == {"withheld", "sent", "failed"}
Receipt == [record : Records, phone : Phones, token : Tokens, age : {"new", "due", "expired"}]
Contents == [secret : 0 .. MaxSecrets, devices : [Phones -> Tokens \cup {None}],
             receipts : SUBSET Receipt, history : [Records -> Outcomes \cup {None}],
             throttle : BOOLEAN]
Empty == [secret |-> 1, devices |-> [p \in Phones |-> None], receipts |-> {},
          history |-> [a \in Records |-> None], throttle |-> FALSE]

state == file.cache
Usable == ~file.poisoned

Idle == [at |-> "idle"]
Reading(secret) == [at |-> "reading", secret |-> secret]
Sending(ids, to, attempt) == [at |-> "sending", ids |-> ids, to |-> to, attempt |-> attempt]
Waiting(j) == [j EXCEPT !.at = "waiting", !.attempt = @ + 1]
Checking(receipts, devices) ==
    [at |-> "sending", receipts |-> receipts, devices |-> devices, attempt |-> 0]

(* One update of the state.  A lock that cannot be taken and a failed write
   are the same to the caller. *)
Update(new, w) ==
    /\ w \in Commits(file, new)
    /\ faults + w.faults <= MaxFaults
    /\ faults' = faults + w.faults
    /\ file' = w.file

NoUpdate == UNCHANGED <<file, faults>>
Others == UNCHANGED <<allowed, dead, stops>>
-----------------------------------------------------------------------------
(* Registrations *)

ReceiptsOf(c, p) == {r \in c.receipts : r.phone = p}
DropOld(c, p, t) == IF c.devices[p] = t THEN {} ELSE ReceiptsOf(c, p)

Registered(c, p, t) ==
    [c EXCEPT !.receipts = @ \ DropOld(c, p, t), !.devices[p] = t]
Removed(c, p) ==
    [c EXCEPT !.receipts = @ \ ReceiptsOf(c, p), !.devices[p] = None]

(* POST /device.  The pairing is looked at again after the body. *)
Register(p, t) ==
    /\ Usable /\ p \in allowed /\ t \notin dead
    /\ \E w \in Commits(file, Registered(state, p, t)) :
         /\ Update(Registered(state, p, t), w)
         /\ wants' = [wants EXCEPT ![p] = IF w.done THEN t ELSE None]
    /\ Others /\ UNCHANGED <<job, check, stray, late>>

(* POST /device/forget *)
removeAlertsDevice(p) ==
    /\ Usable /\ p \in allowed
    /\ \E w \in Commits(file, Removed(state, p)) : Update(Removed(state, p), w)
    /\ wants' = [wants EXCEPT ![p] = None]
    /\ Others /\ UNCHANGED <<job, check, stray, late>>

(* The pairing ends; taking the registration out is only attempted. *)
Revoke(p) ==
    /\ p \in allowed /\ allowed' = allowed \ {p}
    /\ wants' = [wants EXCEPT ![p] = None]
    /\ \E w \in Commits(file, Removed(state, p)) : Update(Removed(state, p), w)
    /\ UNCHANGED <<job, check, dead, stray, late, stops>>

(* The app is removed or gets another token. *)
TokenDies(t) ==
    /\ t \notin dead /\ Cardinality(dead) < MaxDead
    /\ dead' = dead \cup {t}
    /\ NoUpdate /\ UNCHANGED <<allowed, job, check, wants, stray, late, stops>>
-----------------------------------------------------------------------------
(* Source *)

Rotated(c) == [c EXCEPT !.secret = @ + 1]
Deleted(c) == [c EXCEPT !.secret = 0, !.throttle = FALSE]   \* prune

SourceAction ==
    /\ Usable /\ allowed # {} /\ state.secret \in 1 .. MaxSecrets - 1
    /\ \E new \in {Rotated(state), Deleted(state)} :
       \E w \in Commits(file, new) : Update(new, w)
    /\ Others /\ UNCHANGED <<job, check, wants, stray, late>>

ThrottleEnds ==
    /\ Usable /\ state.throttle
    /\ file' = [file EXCEPT !.cache.throttle = FALSE, !.disk.throttle = FALSE]
    /\ Others /\ UNCHANGED <<job, check, wants, stray, late, faults>>
-----------------------------------------------------------------------------
(* Webhooks *)

findAlertSource(secret) == Usable /\ secret > 0 /\ state.secret = secret
StillFound(secret) == findAlertSource(secret)

Receive(a) ==
    /\ job[a] = Idle /\ state.history[a] = None
    /\ findAlertSource(state.secret)
    /\ job' = [job EXCEPT ![a] = Reading(state.secret)]
    /\ NoUpdate /\ Others /\ UNCHANGED <<check, wants, stray, late>>

(* A prepared request goes to the phones that are registered and allowed as
   it is sent, first or again. *)
AllowedOf(ids) == {p \in ids : state.devices[p] # None /\ p \in allowed}
TokensOf(ps) == [p \in ps |-> state.devices[p]]

Strays(to) == DOMAIN to \ allowed # {}

(* Conditions and the throttle withhold a record without opening the throttle
   window; the rest opens it, whether or not the alert reaches a phone. *)
evaluateAlert(throttled, registered) ==
    {[outcome |-> "withheld", opens |-> FALSE]}
    \cup (IF throttled THEN {} ELSE
            {[outcome |-> "withheld", opens |-> TRUE]}
            \cup {[outcome |-> "failed", opens |-> TRUE] : p \in registered})

(* The body has come: the address is looked up again, and the record, the
   throttle and the answer follow at once.  The request starts in the same
   turn when there is anyone to send to. *)
Accept(a) ==
    /\ job[a].at = "reading"
    /\ \/ /\ ~StillFound(job[a].secret) \/ ~Usable
          /\ job' = [job EXCEPT ![a] = Idle]
          /\ NoUpdate /\ UNCHANGED <<stray, late>>
       \/ /\ StillFound(job[a].secret) /\ Usable
          /\ LET registered == {p \in Phones : state.devices[p] # None} IN
             \E verdict \in evaluateAlert(state.throttle, registered) :
             LET new == [state EXCEPT !.history[a] = verdict.outcome,
                                      !.throttle = @ \/ verdict.opens]
                 to == TokensOf(AllowedOf(registered)) IN
             \E w \in Commits(file, new) :
               /\ Update(new, w)
               /\ late' = (late \/ job[a].secret # state.secret)
               /\ LET send == w.done /\ verdict.outcome = "failed" /\ to # <<>> IN
                  /\ job' = [job EXCEPT ![a] = IF send THEN Sending(registered, to, 0) ELSE Idle]
                  /\ stray' = (stray \/ (send /\ Strays(to)))
    /\ Others /\ UNCHANGED <<check, wants>>

(* POST /test: to the asking phone only, whatever the rules say. *)
SendTest(a, p) ==
    /\ Usable /\ p \in allowed /\ job[a] = Idle /\ state.history[a] = None
    /\ LET registered == state.devices[p] # None
           new == [state EXCEPT !.history[a] = IF registered THEN "failed" ELSE "withheld"]
           to == TokensOf({p}) IN
       \E w \in Commits(file, new) :
         /\ Update(new, w)
         /\ job' = [job EXCEPT ![a] =
                      IF w.done /\ registered THEN Sending({p}, to, 0) ELSE Idle]
    /\ Others /\ UNCHANGED <<check, wants, stray, late>>
-----------------------------------------------------------------------------
(* Delivery *)

(* What the push service says of each token it was sent. *)
Tickets(to) == {v \in [DOMAIN to -> {"ok", "gone", "error"}] :
                  \A p \in DOMAIN to : v[p] = "gone" => to[p] \in dead}

MutSentTo(c, to, p) == c.devices[p] # None
SentTo(c, to, p) == c.devices[p] = to[p]

(* saveTickets: only a registration that still has the token sent to, and is
   still allowed, is marked, removed or given a receipt. *)
SavedTickets(c, a, to, v) ==
    LET mine == {p \in DOMAIN to : SentTo(c, to, p) /\ p \in allowed}
        gone == {p \in mine : v[p] = "gone"} IN
    [c EXCEPT
       !.devices = [p \in Phones |-> IF p \in gone THEN None ELSE @[p]],
       !.receipts = {r \in @ : r.phone \notin gone} \cup
           {[record |-> a, phone |-> p, token |-> to[p], age |-> "new"] :
              p \in {q \in mine : v[q] = "ok"}}]

Settled(c, a, ok) ==
    IF c.history[a] = None THEN c ELSE [c EXCEPT !.history[a] = IF ok THEN "sent" ELSE "failed"]

(* The answer: a network failure or a 5xx is tried once more after a wait;
   anything else is saved in one update and the outcome in a second. *)
MayRetry(attempt) == attempt = 0

Answered(a) ==
    /\ job[a].at = "sending"
    /\ \/ /\ MayRetry(job[a].attempt)
          /\ job' = [job EXCEPT ![a] = [Waiting(@) EXCEPT !.attempt = 1]]
          /\ NoUpdate
       \/ \E v \in Tickets(job[a].to), answered \in BOOLEAN :
            LET to == job[a].to
                saved == IF answered THEN SavedTickets(state, a, to, v) ELSE state
                ok == answered /\ \E p \in DOMAIN to : v[p] = "ok" IN
            /\ \E w \in Commits(file, saved) :
                 \/ ~w.done /\ Update(saved, w)
                 \/ /\ w.done
                    /\ \E u \in Commits(w.file, Settled(saved, a, ok)) :
                         /\ faults + u.faults <= MaxFaults /\ faults' = faults + u.faults
                         /\ file' = u.file
            /\ job' = [job EXCEPT ![a] = Idle]
    /\ Others /\ UNCHANGED <<check, wants, stray, late>>

(* 30 seconds later everything is read again. *)
MutAgain(j) == j.to
Again(j) == TokensOf(AllowedOf(j.ids))

Retry(a) ==
    /\ job[a].at = "waiting"
    /\ LET to == Again(job[a]) IN
       IF Usable /\ to # <<>>
       THEN /\ job' = [job EXCEPT ![a] = Sending(@.ids, to, @.attempt)]
            /\ stray' = (stray \/ Strays(to))
       ELSE job' = [job EXCEPT ![a] = Idle] /\ UNCHANGED stray
    /\ NoUpdate /\ Others /\ UNCHANGED <<check, wants, late>>
-----------------------------------------------------------------------------
(* Receipts *)

Ages ==
    /\ \E r \in state.receipts :
         /\ r.age # "expired" /\ Usable
         /\ LET older == [r EXCEPT !.age = IF @ = "new" THEN "due" ELSE "expired"]
                new == [state EXCEPT !.receipts = (@ \ {r}) \cup {older}] IN
            file' = [file EXCEPT !.cache = new, !.disk = new]
    /\ Others /\ UNCHANGED <<job, check, wants, stray, late, faults>>

Live(r) == r.phone \in allowed /\ state.devices[r.phone] # None
Due == {r \in state.receipts : r.age = "due" /\ Live(r)}
Expired == {r \in state.receipts : r.age = "expired" \/ ~Live(r)}

(* Every minute, one at a time: what expired goes, what is due is asked for. *)
checkAlertReceipts ==
    /\ Usable /\ check = Idle /\ state.receipts # {}
    /\ LET rest == [state EXCEPT !.receipts = @ \ Expired] IN
       \E w \in IF Expired = {} THEN Untouched(file) ELSE Commits(file, rest) :
         /\ faults + w.faults <= MaxFaults /\ faults' = faults + w.faults
         /\ file' = w.file
         /\ check' = IF w.done /\ Due # {} THEN Checking(Due, state.devices) ELSE Idle
    /\ Others /\ UNCHANGED <<job, wants, stray, late>>

(* One retry after a wait, with what is live by then. *)
CheckAgain ==
    /\ check.at = "waiting"
    /\ LET asked == {r \in check.receipts \cap state.receipts : Live(r)} IN
       check' = IF Usable /\ asked # {}
                THEN [Checking(asked, state.devices) EXCEPT !.attempt = 1] ELSE Idle
    /\ NoUpdate /\ Others /\ UNCHANGED <<job, wants, stray, late>>

(* A phone whose token is gone is removed if it still has the token it had
   when the receipts were asked for; every receipt asked for is dropped,
   answered or not. *)
CheckAnswered ==
    /\ check.at = "sending"
    /\ \/ /\ MayRetry(check.attempt)
          /\ check' = [Waiting(check) EXCEPT !.attempt = 1] /\ NoUpdate
       \/ \E gone \in SUBSET {r \in check.receipts : r.token \in dead} :
            LET phones == {r.phone : r \in gone \cap state.receipts}
                removed == {p \in phones : state.devices[p] = check.devices[p]}
                new == [state EXCEPT
                          !.devices = [p \in Phones |-> IF p \in removed THEN None ELSE @[p]],
                          !.receipts = {r \in @ : r \notin check.receipts /\ r.phone \notin removed}] IN
            /\ \E w \in Commits(file, new) : Update(new, w)
            /\ check' = Idle
    /\ Others /\ UNCHANGED <<job, wants, stray, late>>
-----------------------------------------------------------------------------
Memory ==
    /\ stops < MaxStops /\ stops' = stops + 1
    /\ job' = [a \in Records |-> Idle] /\ check' = Idle
    /\ UNCHANGED <<allowed, dead, wants, stray, late, faults>>

Restart == Memory /\ file' = Reloaded(file, file.disk)
PowerCut == Memory /\ file' \in AfterCut(file)

Init ==
    /\ file = FileOf(Empty) /\ allowed = Phones
    /\ job = [a \in Records |-> Idle] /\ check = Idle
    /\ dead = {} /\ wants = [p \in Phones |-> None]
    /\ stray = FALSE /\ late = FALSE /\ faults = 0 /\ stops = 0

Next ==
    \/ SourceAction \/ ThrottleEnds \/ Ages \/ checkAlertReceipts \/ CheckAgain \/ CheckAnswered
    \/ Restart \/ PowerCut
    \/ \E t \in Tokens : TokenDies(t)
    \/ \E p \in Phones : removeAlertsDevice(p) \/ Revoke(p) \/ \E t \in Tokens : Register(p, t)
    \/ \E a \in Records : \/ Receive(a) \/ Accept(a) \/ Answered(a) \/ Retry(a)
                          \/ \E p \in Phones : SendTest(a, p)

Spec == Init /\ [][Next]_vars
-----------------------------------------------------------------------------
(* Every variable has its type. *)
TypeOK ==
    /\ file \in FileType(Contents) /\ allowed \subseteq Phones /\ dead \subseteq Tokens
    /\ wants \in [Phones -> Tokens \cup {None}] /\ stray \in BOOLEAN /\ late \in BOOLEAN
    /\ faults \in 0 .. MaxFaults /\ stops \in 0 .. MaxStops

(* A phone that was told it is registered, with a token that works, stays
   registered: no ticket or receipt of an earlier token, however late, and no
   write that fails takes it out. *)
KeepsLiveRegistration ==
    \A p \in Phones : wants[p] # None /\ wants[p] \notin dead => state.devices[p] = wants[p]

(* A receipt that is awaited is about the token its phone has now, so that
   what it says may be held against the registration. *)
ReceiptsMatchTokens == \A r \in state.receipts : state.devices[r.phone] = r.token

(* Nothing is sent to a phone whose pairing has ended, not even the retry of
   a request that was prepared while it stood. *)
RevokedGetsNothing == ~stray

(* An address that was rotated or removed while its last webhook was being
   read records no alert. *)
OldAddressIsDead == ~late

(* Registrations stand against whatever comes back late of earlier tokens. *)
RegistrationsHold == KeepsLiveRegistration /\ ReceiptsMatchTokens

(* What has ended, a pairing or an address, has no effect any more, however
   far a request on its behalf had come. *)
EndedIsDead == RevokedGetsNothing /\ OldAddressIsDead
=============================================================================
