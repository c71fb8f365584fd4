------------------------------ MODULE OwnerAuth ------------------------------
(***************************************************************************)
(* The owner account: src/src/auth.js, auth-plane.js and setup-token.js    *)
(* over the authenticated state file of src/src/store.js.                  *)
(*                                                                         *)
(* A handler reads its form (the only await before it answers) and then    *)
(* runs to its result in one go, so each handler is one action.  Inside    *)
(* it, every write of the state file can fail or be left unconfirmed, and  *)
(* the steps of the handler after a throw are not taken: a password change *)
(* whose write throws does not reach the lines that sign browsers out.     *)
(*                                                                         *)
(* Passwords and second factors are numbered by the revision that set      *)
(* them.  `acked`, `used`, `twice` and `wrong` are history.                *)
(***************************************************************************)
EXTENDS StateFile, FiniteSets

CONSTANTS
    Browsers,      \* each one behind an address of its own
    Codes,         \* recovery codes handed out when a second factor is set
    NoOwner,
    IpMax,         \* IP_MAX
    TicketTries,   \* TICKET_MAX_TRIES
    MaxRev, MaxFaults, MaxStops

ASSUME OwnerAuthAssumption ==
    /\ NoOwner \notin [pw : Nat, mfa : Nat, codes : SUBSET Codes]
    /\ IpMax \in Nat \ {0} /\ TicketTries \in Nat
    /\ MaxRev \in Nat /\ MaxFaults \in Nat /\ MaxStops \in Nat

VARIABLES
    file,      \* the state file
    marker,    \* v1 migration marker: "absent", "unsynced", "present"
    up,        \* the server runs
    setup,     \* the setup token has not been spent
    sessions,  \* [browser, pw, mfa]: the credentials each was opened with
    tickets,   \* [browser, pw, tries]: password accepted, code awaited
    forms,     \* <<browser, purpose>>: single-use sign-in forms
    asking,    \* browsers whose admitted request for another Docker mode has no body yet
    hits,      \* attempts counted per address in its window
    acked, used, twice, wrong, faults, stops

vars == <<file, marker, up, setup, sessions, tickets, forms, asking, hits,
          acked, used, twice, wrong, faults, stops>>
History == <<acked, used, twice, wrong>>
Signed == <<sessions, tickets>>
-----------------------------------------------------------------------------
(* Contents of the state file *)

Owners == [pw : 0 .. MaxRev, mfa : 0 .. MaxRev, codes : SUBSET Codes]
Contents == [format : {"none", "v1", "v2"}, rev : 0 .. MaxRev,
             owner : {NoOwner} \cup Owners]

newState == [format |-> "v2", rev |-> 0, owner |-> NoOwner]
Missing == [newState EXCEPT !.format = "none"]
LegacyV1(rev) == [format |-> "v1", rev |-> rev,
                  owner |-> [pw |-> rev, mfa |-> 0, codes |-> {}]]

getOwner == file.cache.owner
NextRev == file.cache.rev + 1
mfaEnabled == getOwner # NoOwner /\ getOwner.mfa > 0

(* owner record as the next revision of the file *)
setOwner(owner) == [file.cache EXCEPT !.rev = NextRev, !.owner = owner]

passwordRecord(owner) ==
    IF owner = NoOwner THEN [pw |-> NextRev, mfa |-> 0, codes |-> {}]
                       ELSE [owner EXCEPT !.pw = NextRev]
WithMfa(owner) == [owner EXCEPT !.mfa = NextRev, !.codes = Codes]
WithoutMfa(owner) == [owner EXCEPT !.mfa = 0, !.codes = {}]

(* Nothing answers once a write was left unconfirmed: load throws first. *)
Usable == up /\ ~file.poisoned
Owned == Usable /\ getOwner # NoOwner

(* One write of the state file; a confirmed one syncs the directory, so the
   marker's entry too. *)
Saving(w) ==
    /\ faults + w.faults <= MaxFaults
    /\ faults' = faults + w.faults
    /\ file' = w.file
    /\ marker' = IF w.done /\ marker = "unsynced" THEN "present" ELSE marker

Session(b, pw, mfa) == [browser |-> b, pw |-> pw, mfa |-> mfa]
CurrentSession(b, owner) == Session(b, owner.pw, owner.mfa)
-----------------------------------------------------------------------------
(* Address throttle *)

noteIp(h, b) == [h EXCEPT ![b] = IF @ = IpMax THEN @ ELSE @ + 1]
ipThrottled(h, b) == h[b] >= IpMax
clearIp(h, b) == [h EXCEPT ![b] = 0]

(* Sign-in forms: submitting one consumes it, whatever the answer; a refusal
   issues another, a sign-in clears the browser's. *)
issueLoginForm(fs, b, purpose) == fs \cup {<<b, purpose>>}
consumeLoginForm(b, purpose) == forms \ {<<b, purpose>>}
clearLoginForms(fs, b) == {f \in fs : f[1] # b}
-----------------------------------------------------------------------------
Init ==
    /\ file \in {FileOf(Missing), FileOf(LegacyV1(0))}
    /\ marker = "absent" /\ up = FALSE /\ setup = FALSE
    /\ sessions = {} /\ tickets = {} /\ forms = {} /\ asking = {} /\ hits = [b \in Browsers |-> 0]
    /\ acked = 0 /\ used = {} /\ twice = FALSE /\ wrong = [b \in Browsers |-> 0]
    /\ faults = 0 /\ stops = 0

(* setup-token.js reads the state at import, so a state that does not load
   ends the start. *)
Started(found) == up' = TRUE /\ setup' = (found.owner = NoOwner)
Refused == up' = FALSE /\ setup' = FALSE

CreateState ==
    /\ file.disk.format = "none"
    /\ \E w \in Writes(Reloaded(file, file.disk), newState) :
         /\ Saving(w)
         /\ IF w.done THEN Started(newState) ELSE Refused

(* v2 is committed before the permission is consumed; a marker that cannot
   be written is a warning, and one whose directory sync failed counts as
   written. *)
migrate(v1) == [v1 EXCEPT !.format = "v2"]
migrationWasConsumed == marker # "absent"

recordV1MigrationConsumed(m) ==
    {[faults |-> 0, marker |-> "present"],
     [faults |-> 1, marker |-> m],
     [faults |-> 1, marker |-> IF m = "absent" THEN "unsynced" ELSE m]}

MarkerAfter(done, r) == IF done THEN r.marker ELSE marker

Migrate ==
    /\ file.disk.format = "v1" /\ ~migrationWasConsumed
    /\ \E w \in Writes(Reloaded(file, file.disk), migrate(file.disk)),
          r \in recordV1MigrationConsumed(marker) :
         /\ faults' = faults + w.faults + (IF w.done THEN r.faults ELSE 0)
         /\ faults' <= MaxFaults
         /\ file' = w.file
         /\ marker' = MarkerAfter(w.done, r)
         /\ IF w.done THEN Started(migrate(file.disk)) ELSE Refused

LoadState ==
    /\ file.disk.format = "v2"
    /\ file' = Reloaded(file, file.disk)
    /\ Started(file.disk)
    /\ UNCHANGED <<marker, faults>>

Boot ==
    /\ ~up
    /\ CreateState \/ Migrate \/ LoadState
    /\ UNCHANGED <<Signed, forms, asking, hits, stops, History>>

(* POST /setup: the token, then the empty owner slot. *)
SetUp(b) ==
    /\ Usable /\ getOwner = NoOwner /\ setup /\ NextRev <= MaxRev
    /\ \E w \in Commits(file, setOwner(passwordRecord(NoOwner))) :
         /\ Saving(w)
         /\ setup' = (setup /\ ~w.done)
         /\ sessions' = IF w.done THEN sessions \cup {CurrentSession(b, w.file.cache.owner)}
                                  ELSE sessions
         /\ acked' = IF w.done THEN w.file.cache.rev ELSE acked
    /\ UNCHANGED <<up, tickets, forms, asking, hits, used, twice, wrong, stops>>

(* GET /login *)
OpenForm(b) ==
    /\ Owned /\ <<b, "login">> \notin forms
    /\ forms' = issueLoginForm(forms, b, "login")
    /\ UNCHANGED <<file, marker, up, setup, Signed, asking, hits, History, faults, stops>>

(* lastLoginAt is written before the session exists: when that write throws,
   the address is cleared and no session is opened. *)
SignIn(b, purpose, opened) ==
    \E w \in Commits(file, file.cache) :
        /\ Saving(w)
        /\ hits' = clearIp(hits, b)
        /\ wrong' = [wrong EXCEPT ![b] = 0]
        /\ sessions' = IF w.done THEN sessions \cup {opened} ELSE sessions
        /\ forms' = IF w.done THEN clearLoginForms(forms, b) ELSE consumeLoginForm(b, purpose)

Turned(b, purpose, h) ==
    /\ hits' = h
    /\ forms' = issueLoginForm(consumeLoginForm(b, purpose), b, purpose)
    /\ UNCHANGED <<file, marker, sessions, faults>>

(* POST /login: refused outright when the address is already throttled; the
   attempt itself counts before it is judged. *)
Login(b) ==
    /\ Owned /\ <<b, "login">> \in forms
    /\ LET h == noteIp(hits, b) IN
       \/ /\ ipThrottled(hits, b)
          /\ Turned(b, "login", hits) /\ UNCHANGED <<tickets, wrong>>
       \/ /\ ~ipThrottled(hits, b)                  \* throttled now, or a wrong password
          /\ Turned(b, "login", h) /\ UNCHANGED <<tickets, wrong>>
       \/ /\ ~ipThrottled(hits, b) /\ ~ipThrottled(h, b) /\ mfaEnabled
          /\ tickets' = tickets \cup {[browser |-> b, pw |-> getOwner.pw, tries |-> 0]}
          /\ hits' = h
          /\ forms' = issueLoginForm(consumeLoginForm(b, "login"), b, "mfa")
          /\ UNCHANGED <<file, marker, sessions, wrong, faults>>
       \/ /\ ~ipThrottled(hits, b) /\ ~ipThrottled(h, b) /\ ~mfaEnabled
          /\ SignIn(b, "login", CurrentSession(b, getOwner))
          /\ UNCHANGED tickets
    /\ UNCHANGED <<up, setup, asking, acked, used, twice, stops>>

MutConsumeRecovery(owner, code) == owner
(* A recovery code is struck off and saved before it counts. *)
consumeRecovery(owner, code) == [owner EXCEPT !.codes = @ \ {code}]
Spends(code) ==
    /\ used' = used \cup {<<getOwner.mfa, code>>}
    /\ twice' = (twice \/ <<getOwner.mfa, code>> \in used)

Tried(t) == [t EXCEPT !.tries = @ + 1]

(* What an MFA attempt with ticket t meets, in the order of completeMfa. *)
WrongCode(b, t, h) ==
    /\ Turned(b, "mfa", h)
    /\ wrong' = [wrong EXCEPT ![b] = IF mfaEnabled /\ @ <= IpMax THEN @ + 1 ELSE @]
    /\ tickets' = (tickets \ {t}) \cup (IF mfaEnabled THEN {Tried(t)} ELSE {})
    /\ UNCHANGED <<acked, used, twice>>

GoodTotp(b, t) ==
    /\ mfaEnabled
    /\ SignIn(b, "mfa", Session(b, t.pw, getOwner.mfa))
    /\ tickets' = tickets \ {t}
    /\ UNCHANGED <<acked, used, twice>>

(* Two writes: the code struck off, then lastLoginAt.  When the first one
   throws the ticket stays, with its try counted; when the second one does,
   the code is gone and there is no session. *)
GoodRecovery(b, t, code) ==
    LET struck == setOwner(consumeRecovery(getOwner, code)) IN
    /\ mfaEnabled /\ code \in getOwner.codes /\ NextRev <= MaxRev
    /\ \E w \in Commits(file, struck) :
         \/ /\ ~w.done /\ Saving(w)
            /\ hits' = noteIp(hits, b)
            /\ forms' = consumeLoginForm(b, "mfa")
            /\ tickets' = (tickets \ {t}) \cup {Tried(t)}
            /\ UNCHANGED <<sessions, acked, used, twice, wrong>>
         \/ /\ w.done
            /\ \E v \in Commits(w.file, w.file.cache) :
                 /\ Saving(v)
                 /\ sessions' = IF v.done
                      THEN sessions \cup {Session(b, t.pw, getOwner.mfa)} ELSE sessions
                 /\ forms' = IF v.done THEN clearLoginForms(forms, b) ELSE consumeLoginForm(b, "mfa")
            /\ hits' = clearIp(hits, b)
            /\ wrong' = [wrong EXCEPT ![b] = 0]
            /\ tickets' = tickets \ {t}
            /\ acked' = struck.rev
            /\ Spends(code)

CompleteMfa(b) ==
    /\ Owned /\ <<b, "mfa">> \in forms
    /\ LET h == noteIp(hits, b)
           Barred == ipThrottled(hits, b) \/ ipThrottled(h, b) IN
       \/ /\ Barred                                      \* nothing is looked up
          /\ Turned(b, "mfa", IF ipThrottled(hits, b) THEN hits ELSE h)
          /\ UNCHANGED <<tickets, acked, used, twice, wrong>>
       \/ /\ ~Barred                                     \* no ticket, another address's, or expired
          /\ Turned(b, "mfa", h)
          /\ UNCHANGED <<tickets, acked, used, twice, wrong>>
       \/ \E t \in tickets :
            /\ ~Barred /\ t.browser = b
            /\ IF t.tries >= TicketTries
               THEN /\ Turned(b, "mfa", h)
                    /\ tickets' = tickets \ {t}
                    /\ UNCHANGED <<acked, used, twice, wrong>>
               ELSE \/ WrongCode(b, t, h)
                    \/ GoodTotp(b, t)
                    \/ \E code \in Codes : GoodRecovery(b, t, code)
    /\ UNCHANGED <<up, setup, asking, stops>>

(* Credential changes: the owner record is written, then every session and
   ticket is dropped, then the asking browser gets a new session. *)
revokeAuthenticationState(s) == [sessions |-> {s}, tickets |-> {}]

Changed(b, contents) ==
    \E w \in Commits(file, contents) :
        LET now == revokeAuthenticationState(CurrentSession(b, contents.owner)) IN
        /\ Saving(w)
        /\ sessions' = IF w.done THEN now.sessions ELSE sessions
        /\ tickets' = IF w.done THEN now.tickets ELSE tickets
        /\ acked' = IF w.done THEN contents.rev ELSE acked
        /\ UNCHANGED <<used, twice>>

HasSession(b) == \E s \in sessions : s.browser = b

ChangePassword(b) ==
    /\ Owned /\ HasSession(b) /\ NextRev <= MaxRev
    /\ Changed(b, setOwner(passwordRecord(getOwner)))
    /\ UNCHANGED <<up, setup, forms, asking, hits, wrong, stops>>

EnableMfa(b) ==
    /\ Owned /\ HasSession(b) /\ ~mfaEnabled /\ NextRev <= MaxRev
    /\ Changed(b, setOwner(WithMfa(getOwner)))
    /\ UNCHANGED <<up, setup, forms, asking, hits, wrong, stops>>

(* With a recovery code it is struck off first, in a write of its own. *)
DisableMfa(b) ==
    /\ Owned /\ HasSession(b) /\ mfaEnabled
    /\ \/ /\ NextRev <= MaxRev
          /\ Changed(b, setOwner(WithoutMfa(getOwner)))
       \/ \E code \in getOwner.codes :
            LET struck == setOwner(consumeRecovery(getOwner, code))
                off == [struck EXCEPT !.rev = @ + 1, !.owner = WithoutMfa(@)] IN
            /\ off.rev <= MaxRev
            /\ \E w \in Commits(file, struck) :
                 \/ ~w.done /\ Saving(w) /\ UNCHANGED <<Signed, acked, used, twice>>
                 \/ /\ w.done /\ Spends(code)
                    /\ \E v \in Commits(w.file, off) :
                         LET now == revokeAuthenticationState(CurrentSession(b, off.owner)) IN
                         /\ Saving(v)
                         /\ sessions' = IF v.done THEN now.sessions ELSE sessions
                         /\ tickets' = IF v.done THEN now.tickets ELSE tickets
                         /\ acked' = IF v.done THEN off.rev ELSE struck.rev
    /\ UNCHANGED <<up, setup, forms, asking, hits, wrong, stops>>

(* A request whose CSRF token is in its header is admitted before its body is
   there; its session may end meanwhile. *)
AskForMode(b) ==
    /\ Owned /\ HasSession(b) /\ asking' = asking \cup {b}
    /\ UNCHANGED <<file, marker, up, setup, Signed, forms, hits, History, faults, stops>>

(* Raising the Docker access mode asks for the password and a code again. *)
verifyOwnerStepUp(b) ==
    LET h == noteIp(hits, b)
        Refuses == hits' = h /\ UNCHANGED <<file, marker, faults, acked, used, twice>>
        Accepts == hits' = clearIp(h, b) /\ wrong' = [wrong EXCEPT ![b] = 0] IN
    /\ Owned /\ b \in asking /\ asking' = asking \ {b}
    /\ \/ Refuses /\ UNCHANGED wrong             \* throttled, or a wrong password
       \/ /\ ~ipThrottled(h, b)
          /\ \/ /\ mfaEnabled /\ Refuses         \* a wrong code
                /\ wrong' = [wrong EXCEPT ![b] = IF @ <= IpMax THEN @ + 1 ELSE @]
             \/ Accepts /\ UNCHANGED <<file, marker, faults, acked, used, twice>>
             \/ /\ mfaEnabled /\ NextRev <= MaxRev
                /\ \E code \in getOwner.codes :
                   \E w \in Commits(file, setOwner(consumeRecovery(getOwner, code))) :
                     /\ Saving(w)
                     /\ IF w.done
                        THEN Accepts /\ acked' = w.file.cache.rev /\ Spends(code)
                        ELSE hits' = h /\ UNCHANGED <<acked, used, twice, wrong>>
    /\ UNCHANGED <<up, setup, Signed, forms, stops>>

Logout(b) ==
    /\ Owned
    /\ \E s \in sessions : s.browser = b /\ sessions' = sessions \ {s}
    /\ UNCHANGED <<file, marker, up, setup, tickets, forms, asking, hits, History, faults, stops>>

(* A window or a lifetime runs out. *)
Expire ==
    /\ up
    /\ \/ \E b \in Browsers : /\ hits[b] > 0 /\ hits' = clearIp(hits, b)
                              /\ wrong' = [wrong EXCEPT ![b] = 0]
                              /\ UNCHANGED Signed
       \/ \E t \in tickets : tickets' = tickets \ {t} /\ UNCHANGED <<sessions, hits, wrong>>
       \/ \E s \in sessions : sessions' = sessions \ {s} /\ UNCHANGED <<tickets, hits, wrong>>
    /\ UNCHANGED <<file, marker, up, setup, forms, asking, acked, used, twice, faults, stops>>

Memory ==
    /\ up' = FALSE /\ setup' = FALSE
    /\ sessions' = {} /\ tickets' = {} /\ forms' = {} /\ asking' = {}
    /\ hits' = [b \in Browsers |-> 0] /\ wrong' = [b \in Browsers |-> 0]
    /\ UNCHANGED <<acked, used, twice, faults>>
    /\ stops < MaxStops /\ stops' = stops + 1

(* The process ends: everything in memory goes, the files stay. *)
End == up /\ Memory /\ UNCHANGED <<file, marker>>

PowerCut ==
    /\ Memory
    /\ file' \in AfterCut(file)
    /\ \/ UNCHANGED marker
       \/ marker = "unsynced" /\ marker' = "absent"

(* The operator puts a v1 file back while the server is down. *)
RestoreV1 ==
    /\ ~up /\ file.disk.format = "v2" /\ file.disk.rev < MaxRev
    /\ stops < MaxStops /\ stops' = stops + 1
    /\ file' = FileOf(LegacyV1(file.disk.rev + 1))
    /\ UNCHANGED <<marker, up, setup, Signed, forms, asking, hits, History, faults>>

Next ==
    \/ Boot \/ Expire \/ End \/ PowerCut \/ RestoreV1
    \/ \E b \in Browsers :
         \/ SetUp(b) \/ OpenForm(b) \/ Login(b) \/ CompleteMfa(b)
         \/ ChangePassword(b) \/ EnableMfa(b) \/ DisableMfa(b) \/ Logout(b)
         \/ AskForMode(b) \/ verifyOwnerStepUp(b)

Spec == Init /\ [][Next]_vars
-----------------------------------------------------------------------------
(* Every variable has its type. *)
TypeOK ==
    /\ file \in FileType(Contents)
    /\ marker \in {"absent", "unsynced", "present"}
    /\ up \in BOOLEAN /\ setup \in BOOLEAN
    /\ sessions \subseteq [browser : Browsers, pw : 0 .. MaxRev, mfa : 0 .. MaxRev]
    /\ tickets \subseteq [browser : Browsers, pw : 0 .. MaxRev, tries : 0 .. TicketTries]
    /\ forms \subseteq Browsers \X {"login", "mfa"} /\ asking \subseteq Browsers
    /\ hits \in [Browsers -> 0 .. IpMax] /\ wrong \in [Browsers -> 0 .. IpMax + 1]
    /\ acked \in 0 .. MaxRev /\ twice \in BOOLEAN
    /\ used \subseteq (0 .. MaxRev) \X Codes
    /\ faults \in 0 .. MaxFaults /\ stops \in 0 .. MaxStops

(* A change of the owner's credentials that a browser was told of (the claim
   of the account, a new password, a second factor set or removed, a
   recovery code struck off) is in whatever file a power cut can leave. *)
AckedSurvives == \A c \in file.limbo \cup {file.disk} : c.rev >= acked

(* While the server answers, every session was opened with the password in
   force and, when a second factor is on, with that second factor; and no
   ticket of an older password waits for its code. *)
SessionsFollowCredentials ==
    Owned => /\ \A s \in sessions : s.pw = getOwner.pw /\ s.mfa = getOwner.mfa
             /\ \A t \in tickets : t.pw = getOwner.pw /\ mfaEnabled

(* A recovery code is accepted once, whatever restarts and power cuts come
   between its uses. *)
CodesWorkOnce == ~twice

(* Between two successful sign-ins of an address, or in a window of it, fewer
   codes are tried than IP_MAX: getting the password right again and again
   buys no further codes. *)
GuessesAreBounded == \A b \in Browsers : wrong[b] < IpMax

(* The v1 migration marker only exists once the migrated file is durable: no
   crash leaves a v1 file that the next start refuses as already migrated,
   unless the operator put it back. *)
NeverStranded == marker # "absent" /\ file.disk.format = "v1" => file.disk.rev > 0

(* What a browser was told of the owner's credentials holds after any crash,
   and some start serves what is left. *)
ChangesHold == AckedSurvives /\ NeverStranded

(* Nobody is signed in but by the credentials in force, a code that was not
   used before, and a bounded number of guesses. *)
SignInIsGuarded == SessionsFollowCredentials /\ CodesWorkOnce /\ GuessesAreBounded
=============================================================================
