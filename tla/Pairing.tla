------------------------------ MODULE Pairing ------------------------------
(***************************************************************************)
(* One-time setup transfers (src/src/qmbackup.js) and the drafts they can  *)
(* be made again from (src/src/server.js).                                 *)
(*                                                                         *)
(* A browser posts the setup form and is shown a QR code; a phone redeems  *)
(* it, or the browser downloads the file instead.  When a missing key      *)
(* arrives the page asks for the transfer again from the draft that was    *)
(* kept.  Both handlers await discovery before the transfer is made and    *)
(* the drawing of its QR code after, and other requests run in between.    *)
(* All of it is process memory: a restart leaves the initial state.        *)
(***************************************************************************)
EXTENDS Integers, FiniteSetsExt

CONSTANTS
    Browsers,       \* signed-in browsers (session tokens)
    Requests,       \* requests that may be under way at once
    MaxBundles,     \* transfers made in all
    MaxEntries,     \* transfers kept (32)
    PAIR_DRAFT_MAX, \* drafts kept (16)
    REDEEM_GRACE_SERVES

ASSUME PairingAssumption ==
    /\ MaxBundles \in Nat /\ REDEEM_GRACE_SERVES \in Nat
    /\ MaxEntries \in Nat \ {0} /\ PAIR_DRAFT_MAX \in Nat \ {0}

VARIABLES
    transfers,  \* the transfers kept; they were entered in the order of their numbers
    drafts,     \* the drafts kept, one for a browser
    request,    \* per request: what it awaits
    bundles,    \* transfers made so far; each is known by its number
    newest,     \* per browser: the form it completed last (0: none)
    answers     \* per transfer: the answers that carried its envelope

pairingVars == <<transfers, drafts, request, bundles, newest, answers>>
-----------------------------------------------------------------------------
(* A transfer runs out three minutes after it was asked for unless it was
   redeemed, and then 20 seconds after that.  The form it was first made from
   is named by the first transfer of that form. *)
Entry == [bundle : 1 .. MaxBundles, form : 1 .. MaxBundles, browser : Browsers,
          stage : {"fresh", "expired", "grace", "over"}, reserves : 0 .. REDEEM_GRACE_SERVES]
Draft == [browser : Browsers, bundle : 1 .. MaxBundles, form : 1 .. MaxBundles,
          old : BOOLEAN, inFlight : BOOLEAN,
          entered : 1 .. MaxBundles]       \* the order in which their browsers were entered

Idle == [at |-> "idle"]

Becomes(S, e, f) == (S \ {e}) \cup {f}

cleanup(ts) == {e \in ts : e.stage \notin {"expired", "over"}}

(* Makes room by dropping the oldest. *)
create(b, form, s) ==
    LET live == cleanup(transfers)
        kept == {e \in live : Cardinality({f \in live : f.bundle > e.bundle}) < MaxEntries - 1} IN
    kept \cup {[bundle |-> b, form |-> form, browser |-> s, stage |-> "fresh", reserves |-> 0]}

MutInvalidate(ts, b) == ts
invalidateBundle(ts, b) == {e \in ts : e.bundle # b}

(* A draft of a browser that already has one takes its place. *)
retainPairDraft(s, b, form) ==
    LET young == {d \in drafts : ~d.old}
        kept == {d \in young : Cardinality({e \in young : e.entered > d.entered}) < PAIR_DRAFT_MAX - 1}
        mine == {d \in kept : d.browser = s}
        places == {d.entered : d \in IF mine = {} THEN kept ELSE mine}
        place == IF mine = {} THEN 1 + Max({0} \cup places) ELSE Max(places) IN
    (kept \ mine) \cup {[browser |-> s, bundle |-> b, form |-> form, old |-> FALSE,
                         inFlight |-> FALSE, entered |-> place]}

DraftOf(s) == {d \in drafts : d.browser = s}

Marked(d, busy) == Becomes(drafts, d, [d EXCEPT !.inFlight = busy])

Others == UNCHANGED <<bundles, newest, answers>>
-----------------------------------------------------------------------------
(* POST /pair *)

Post(r, s) ==
    /\ request[r] = Idle
    /\ request' = [request EXCEPT ![r] = [at |-> "discover", browser |-> s, old |-> 0, form |-> 0]]
    /\ UNCHANGED <<transfers, drafts>> /\ Others

(* POST /pair/reissue names the transfer the page shows.  The draft must be
   the browser's own, of that transfer, and of no other request. *)
takePairDraft(r, s) ==
    /\ request[r] = Idle
    /\ \E d \in DraftOf(s) :
         /\ ~d.inFlight
         /\ IF d.old
            THEN drafts' = drafts \ {d} /\ UNCHANGED request
            ELSE /\ drafts' = Marked(d, TRUE)
                 /\ request' = [request EXCEPT ![r] =
                      [at |-> "discover", browser |-> s, old |-> d.bundle, form |-> d.form]]
    /\ UNCHANGED transfers /\ Others

(* The draft a reissue holds: another one may have taken its place. *)
StillHeld(r) == {d \in DraftOf(request[r].browser) : d.bundle = request[r].old}

(* A failed request ends; a reissue gives its draft back. *)
GiveBack(r) ==
    IF StillHeld(r) = {} THEN drafts ELSE Marked(CHOOSE d \in StillHeld(r) : TRUE, FALSE)

End(r) == request' = [request EXCEPT ![r] = Idle]

(* Discovery has answered: the bundle is built and its transfer made, unless
   the form does not hold any more or its time has run out. *)
Build(r) ==
    /\ request[r].at = "discover"
    /\ \/ /\ End(r) /\ drafts' = GiveBack(r)
          /\ UNCHANGED transfers /\ Others
       \/ /\ bundles < MaxBundles /\ bundles' = bundles + 1
          /\ LET form == IF request[r].form = 0 THEN bundles' ELSE request[r].form IN
             /\ transfers' = create(bundles', form, request[r].browser)
             /\ request' = [request EXCEPT ![r] = [at |-> "draw", browser |-> @.browser, old |-> @.old,
                                                   form |-> form, bundle |-> bundles']]
          /\ UNCHANGED <<drafts, newest, answers>>

DrawFails(r) ==
    /\ request[r].at = "draw"
    /\ transfers' = invalidateBundle(transfers, request[r].bundle)
    /\ drafts' = GiveBack(r) /\ End(r) /\ Others

(* The page of a form: its draft is kept.  An audit line that cannot be saved
   only changes what the page says. *)
ShowPosted(r) ==
    /\ request[r].at = "draw" /\ request[r].old = 0
    /\ drafts' = retainPairDraft(request[r].browser, request[r].bundle, request[r].form)
    /\ newest' = [newest EXCEPT ![request[r].browser] = request[r].form]
    /\ End(r) /\ UNCHANGED <<transfers, bundles, answers>>

(* The page of a reissue: the transfer it replaces goes, or, when its draft
   was replaced or dropped meanwhile, the one it has just made. *)
ShowReissued(r) ==
    /\ request[r].at = "draw" /\ request[r].old # 0
    /\ IF StillHeld(r) = {}
       THEN /\ transfers' = invalidateBundle(transfers, request[r].bundle)
            /\ UNCHANGED drafts
       ELSE /\ transfers' = invalidateBundle(transfers, request[r].old)
            /\ drafts' = retainPairDraft(request[r].browser, request[r].bundle, request[r].form)
    /\ End(r) /\ Others
-----------------------------------------------------------------------------
(* GET /pair/redeem: the first answer starts the grace, in which as many
   more are given as REDEEM_GRACE_SERVES. *)
MayServeAgain(e) == e.stage = "grace" /\ e.reserves < REDEEM_GRACE_SERVES

Carried(b, how) == answers' = [answers EXCEPT ![b][how] = @ + 1]

consumeRedeem(e) ==
    /\ \/ /\ e.stage = "fresh"
          /\ transfers' = Becomes(transfers, e, [e EXCEPT !.stage = "grace"])
          /\ Carried(e.bundle, "qr")
       \/ /\ MayServeAgain(e)
          /\ transfers' = Becomes(transfers, e, [e EXCEPT !.reserves = @ + 1])
          /\ Carried(e.bundle, "qr")
       \/ /\ e.stage # "fresh" /\ ~MayServeAgain(e)
          /\ transfers' = transfers \ {e}
          /\ UNCHANGED answers
    /\ UNCHANGED <<drafts, request, bundles, newest>>

(* GET /pair/file, for the browser it was made for and while the QR code has
   not been redeemed. *)
MutHasFile(e) == e.stage \in {"fresh", "grace", "expired"}
HasFile(e) == e.stage \in {"fresh", "expired"}

consumeFile(e) ==
    /\ HasFile(e)
    /\ transfers' = transfers \ {e}
    /\ IF e.stage = "expired" THEN UNCHANGED answers ELSE Carried(e.bundle, "file")
    /\ UNCHANGED <<drafts, request, bundles, newest>>

(* Time passes: three minutes, 20 seconds of grace, or the 15 of a draft. *)
TransferAges(e) ==
    /\ e.stage \in {"fresh", "grace"}
    /\ transfers' = Becomes(transfers, e, [e EXCEPT !.stage = IF @ = "fresh" THEN "expired" ELSE "over"])
    /\ UNCHANGED <<drafts, request>> /\ Others

DraftAges(d) ==
    /\ ~d.old
    /\ drafts' = Becomes(drafts, d, [d EXCEPT !.old = TRUE])
    /\ UNCHANGED <<transfers, request>> /\ Others
-----------------------------------------------------------------------------
PairingInit ==
    /\ transfers = {} /\ drafts = {} /\ bundles = 0
    /\ request = [r \in Requests |-> Idle]
    /\ newest = [s \in Browsers |-> 0]
    /\ answers = [b \in 1 .. MaxBundles |-> [qr |-> 0, file |-> 0]]

PairingNext ==
    \/ \E r \in Requests :
         \/ Build(r) \/ DrawFails(r) \/ ShowPosted(r) \/ ShowReissued(r)
         \/ \E s \in Browsers : Post(r, s) \/ takePairDraft(r, s)
    \/ \E e \in transfers : consumeRedeem(e) \/ consumeFile(e) \/ TransferAges(e)
    \/ \E d \in drafts : DraftAges(d)

PairingSpec == PairingInit /\ [][PairingNext]_pairingVars
-----------------------------------------------------------------------------
(* Every variable has its type. *)
PairingTypeOK ==
    /\ transfers \subseteq Entry /\ Cardinality(transfers) <= MaxEntries
    /\ drafts \subseteq Draft /\ Cardinality(drafts) <= PAIR_DRAFT_MAX
    /\ bundles \in 0 .. MaxBundles
    /\ newest \in [Browsers -> 0 .. MaxBundles]

Working(form) == \E r \in Requests : request[r] # Idle /\ request[r].form = form
Redeemable(e) == e.stage = "fresh" \/ MayServeAgain(e)

(* However forms and reissues interleave, fail, or lose their drafts, a form
   that no request works on has at most one transfer that can be redeemed. *)
OneTransferPerForm ==
    \A e, f \in transfers :
        Redeemable(e) /\ Redeemable(f) /\ e.form = f.form /\ ~Working(e.form) => e = f

(* A reissue that finishes late never puts an earlier form back in the place
   of a newer one. *)
NewestFormWins == \A d \in drafts : d.form = newest[d.browser]

(* An envelope leaves through the file or through the QR code, never both;
   through the file once, through the code no more often than the grace
   allows. *)
OneWayOut ==
    \A b \in 1 .. MaxBundles :
        LET a == answers[b] IN
        /\ a.qr = 0 \/ a.file = 0
        /\ a.file <= 1 /\ a.qr <= 1 + REDEEM_GRACE_SERVES

(* A draft marked as being reissued has a request that will give it back or
   replace it; otherwise its page could never be brought up to date. *)
NoDraftIsStuck ==
    \A d \in drafts : d.inFlight =>
        \E r \in Requests : request[r] # Idle /\ request[r].old = d.bundle

(* The draft a browser has, the requests that work on it and the transfers
   that can be redeemed belong together, whatever interleaves or fails. *)
FormsInOrder == OneTransferPerForm /\ NewestFormWins /\ NoDraftIsStuck
=============================================================================
