----------------------------- MODULE Enrolment -----------------------------
(***************************************************************************)
(* Pairing a phone (src/src/mobile/enrolment.js, enrolment-owner.js and    *)
(* enrolment-registry.js): the owner creates an enrolment, a phone claims  *)
(* it, the owner approves the claim, the server seals a grant to it, the   *)
(* phone retrieves the grant and acknowledges it, and only then does a     *)
(* device exist.                                                           *)
(*                                                                         *)
(* Pending enrolments live in the memory of the process; spent pairing     *)
(* keys and devices live in the sidecar of MobileStore.  The one await is  *)
(* inside approveEnrolment, while the grant is sealed: every other handler *)
(* may run there.  An id stands for the enrolment, its pairing key, its    *)
(* acknowledgement secret and the device it activates: each is random and  *)
(* made at most once per enrolment.  A record removed from the map lives   *)
(* on while an approval still refers to it.                                *)
(***************************************************************************)
EXTENDS MobileStore

CONSTANTS
    Phones,         \* claim key pairs of the phones that come to know a key
    NoPhone,
    OldKeys,        \* keys spent by earlier pairings, still in the table
    Ttl,            \* ENROLMENT_TTL_MS, in clock ticks
    AckTtl,         \* ACK_RECOVERY_MS
    SpentSkew,      \* SPENT_SKEW_MS
    MaxLive,        \* MAX_LIVE_ENROLMENTS, 8 in the code
    MaxSpent,       \* MAX_SPENT_CAPABILITIES, 256 in the code
    MaxTime,        \* bound of the clock
    MaxFaults       \* bound of failed and of unconfirmed writes

ASSUME EnrolmentAssumption ==
    /\ Ttl \in Nat \ {0} /\ AckTtl \in Nat \ {0} /\ SpentSkew \in Nat
    /\ MaxLive \in Nat \ {0} /\ MaxSpent \in Nat \ {0}
    /\ MaxTime \in Nat /\ MaxFaults \in Nat
    /\ NoPhone \notin Phones

VARIABLES
    now,
    registered,     \* ids in the `enrolments` map
    rec,            \* the enrolment records
    sealing,        \* approvals waiting for sealGrant
    \* history, for the properties
    made,           \* ids created so far
    opened,         \* enrolments whose grant its phone has retrieved
    claimed,        \* <<id, phone, expiresAt>> of the claims that succeeded
    approved,       \* <<id, phone>>: whose words the owner had approved
    refused,        \* enrolments the owner was told are rejected
    paired,         \* acknowledgements answered with success
    unsure,         \* devices whose activation was not confirmed
    forgotten,      \* devices that were revoked
    faults

memory  == <<registered, rec, sealing>>
history == <<made, opened, claimed, approved, refused, paired, unsure, forgotten>>
vars == <<storeVars, now, memory, history, faults>>

Terminal == {"expired", "rejected", "cancelled", "consumed"}
Pending  == {"created", "awaiting_owner_approval", "approved", "grant_ready", "delivered"}

NoRecord == [state |-> "none", expiresAt |-> 0, claim |-> NoPhone, ackUntil |-> 0]

(* An installation that was paired before: the authority record is there. *)
Init ==
    /\ disk = [devices |-> [d \in {} |-> 0],
               spent |-> {[key |-> k, expiresAt |-> 0] : k \in OldKeys}]
    /\ limbo = {} /\ cached = NoState /\ poisoned = FALSE
    /\ epoch = [revoked |-> {}, devicesSeen |-> TRUE] /\ epochLimbo = {}
    /\ now = 0
    /\ registered = {} /\ rec = [e \in DeviceIds |-> NoRecord] /\ sealing = {}
    /\ made = {} /\ opened = {} /\ claimed = {} /\ approved = {}
    /\ refused = {} /\ paired = {} /\ unsure = {} /\ forgotten = {}
    /\ faults = 0

-----------------------------------------------------------------------------
(* The registry *)

(* sweep, at the start of every handler but deleteEnrolment: what becomes
   of a record. *)
Swept(r) ==
    IF r.state = "acknowledged" /\ now >= r.ackUntil THEN [r EXCEPT !.state = "consumed"]
    ELSE IF r.state \in Pending /\ now >= r.expiresAt THEN [r EXCEPT !.state = "expired"]
    ELSE r

Records == [e \in DeviceIds |-> IF e \in registered THEN Swept(rec[e]) ELSE rec[e]]

Become(e, r) == rec' = [Records EXCEPT ![e] = r]

In(e, states) == e \in registered /\ Records[e].state \in states

Live == {e \in registered : Records[e].state \in Pending}

MutPrunedEarly(spent) == {entry \in spent : now < entry.expiresAt}

(* pruneSpent: a spent key is kept for as long as its enrolment could run, and
   the clock skew after. *)
Pruned(spent) == {entry \in spent : now < entry.expiresAt + SpentSkew}

Fault == faults < MaxFaults /\ faults' = faults + 1

-----------------------------------------------------------------------------
(* The owner *)

(* enrolmentStatus, enrolmentForOwner and every refused request only sweep. *)
Status ==
    /\ rec' = Records
    /\ UNCHANGED <<storeVars, now, registered, sealing, history, faults>>

Create(e) ==
    /\ e \notin made /\ Cardinality(Live) < MaxLive
    /\ Load /\ Cardinality(Pruned(View.spent)) < MaxSpent
    /\ made' = made \cup {e} /\ registered' = registered \cup {e}
    /\ Become(e, [NoRecord EXCEPT !.state = "created", !.expiresAt = now + Ttl])
    /\ UNCHANGED <<now, sealing, opened, claimed, approved, refused, paired, unsure, forgotten, faults>>

(* approveEnrolment up to its await.  The record is marked first: when the
   state cannot be loaded it stays "approved" and nothing is sealed. *)
Approve(e) ==
    /\ In(e, {"awaiting_owner_approval"})
    /\ Become(e, [Records[e] EXCEPT !.state = "approved"])
    /\ approved' = approved \cup {<<e, rec[e].claim>>}
    /\ \/ Load /\ sealing' = sealing \cup {e}
       \/ ~Loadable /\ UNCHANGED <<storeVars, sealing>>
    /\ UNCHANGED <<now, registered, made, opened, claimed, refused, paired, unsure, forgotten, faults>>

(* What is left of a record once its approval is over: nothing, when it was
   deleted meanwhile. *)
After(e, state) == IF e \in registered THEN [rec[e] EXCEPT !.state = state] ELSE NoRecord

StillApproved(e) == rec[e].state = "approved"

(* The rest of approveEnrolment: the enrolment may have ended meanwhile. *)
Sealed(e) ==
    /\ e \in sealing /\ sealing' = sealing \ {e}
    /\ UNCHANGED registered
    /\ \/ \* sealGrant failed
          rec' = [rec EXCEPT ![e] = After(e, "cancelled")]
       \/ /\ ~StillApproved(e)
          /\ rec' = [rec EXCEPT ![e] = After(e, @.state)]
       \/ /\ StillApproved(e)
          /\ rec' = [rec EXCEPT ![e] = After(e, "grant_ready")]
    /\ UNCHANGED <<storeVars, now, made, opened, claimed, approved, refused, paired, unsure, forgotten, faults>>

(* rejectEnrolment: an activated enrolment is refused, a terminal one is
   reported as it is. *)
Rejected(e) == [Records[e] EXCEPT !.state = IF @ \in Terminal THEN @ ELSE "rejected"]

Reject(e) ==
    /\ e \in registered /\ ~In(e, {"acknowledged", "consumed"})
    /\ Become(e, Rejected(e))
    /\ refused' = refused \cup {e}
    /\ UNCHANGED <<storeVars, now, registered, sealing, made, opened, claimed, approved, paired, unsure, forgotten, faults>>

Drop(e, records) ==
    /\ registered' = registered \ {e} /\ UNCHANGED sealing
    /\ rec' = [records EXCEPT ![e] = IF e \in sealing THEN @ ELSE NoRecord]

(* deleteEnrolment does not sweep. *)
Delete(e) ==
    /\ e \in registered
    /\ ~(rec[e].state = "acknowledged" /\ now < rec[e].ackUntil)
    /\ Drop(e, rec)
    /\ UNCHANGED <<storeVars, now, history, faults>>

(* The button of the devices page rejects and then deletes. *)
Dismiss(e) ==
    /\ e \in registered /\ ~In(e, {"acknowledged", "consumed"})
    /\ Drop(e, [Records EXCEPT ![e] = Rejected(e)])
    /\ refused' = refused \cup {e}
    /\ UNCHANGED <<storeVars, now, made, opened, claimed, approved, paired, unsure, forgotten, faults>>

-----------------------------------------------------------------------------
(* The phones *)

Spend(s, e) ==
    [s EXCEPT !.spent = Pruned(@) \cup {[key |-> e, expiresAt |-> rec[e].expiresAt]}]

(* The second pruneSpent, inside the transaction, can still find it full. *)
HasRoom == Cardinality(Pruned(Base.spent)) < MaxSpent

MutClaimableTwice(e) == In(e, {"created", "awaiting_owner_approval"})

Claimable(e) == In(e, {"created"})

ClaimedBy(e, p) == [Records[e] EXCEPT !.state = "awaiting_owner_approval", !.claim = p]

(* claimEnrolment by the first phone: the key is spent durably before the
   claim counts, and a claim that could not be recorded ends the enrolment. *)
Claim(e, p) ==
    /\ Claimable(e) /\ CanTransact
    /\ \/ /\ HasRoom /\ Committed(Spend(Base, e))
          /\ Become(e, ClaimedBy(e, p))
          /\ claimed' = claimed \cup {<<e, p, rec[e].expiresAt>>} /\ UNCHANGED faults
       \/ /\ \/ HasRoom /\ (Uncertain(Spend(Base, e)) \/ NotWritten) /\ Fault
             \/ ~HasRoom /\ NotWritten /\ UNCHANGED faults
          /\ Become(e, [Records[e] EXCEPT !.state = "cancelled"])
          /\ UNCHANGED claimed
    /\ UNCHANGED <<now, registered, sealing, made, opened, approved, refused, paired, unsure, forgotten>>

(* The same claim again, its answer was lost. *)
ClaimAgain(e, p) ==
    /\ In(e, {"awaiting_owner_approval"}) /\ Records[e].claim = p
    /\ rec' = Records /\ claimed' = claimed \cup {<<e, p, rec[e].expiresAt>>}
    /\ UNCHANGED <<storeVars, now, registered, sealing, made, opened, approved, refused, paired, unsure, forgotten, faults>>

(* A key that is no longer pending is looked up among the spent ones. *)
ClaimUnknown(e) ==
    /\ e \in made \ registered /\ Load /\ rec' = Records
    /\ UNCHANGED <<now, registered, sealing, history, faults>>

(* retrieveGrant, by the phone that can open the envelope. *)
Retrieve(e) ==
    /\ In(e, {"grant_ready", "delivered"})
    /\ Become(e, [Records[e] EXCEPT !.state = "delivered"])
    /\ opened' = opened \cup {e}
    /\ UNCHANGED <<storeVars, now, registered, sealing, made, claimed, approved, refused, paired, unsure, forgotten, faults>>

(* acknowledgeEnrolment, by the phone that opened the envelope.  A device that
   is already there answers from the sidecar, for the recovery window. *)
AcknowledgeAgain(e) ==
    /\ e \in opened /\ Load
    /\ e \in LiveIn(View) /\ now < View.devices[e].ackUntil
    /\ rec' = Records /\ paired' = paired \cup {e}
    /\ unsure' = IF limbo = {} THEN unsure ELSE unsure \cup {e}
    /\ UNCHANGED <<now, registered, sealing, made, opened, claimed, approved, refused, forgotten, faults>>

NewDevice(e) ==
    [revokedReason |-> "none", phone |-> rec[e].claim,
     createdAt |-> now, expiresAt |-> rec[e].expiresAt, ackUntil |-> now + AckTtl]

Activate(s, e) ==
    [s EXCEPT !.devices = [d \in DOMAIN @ \cup {e} |-> IF d = e THEN NewDevice(e) ELSE @[d]]]

(* The device is committed before the record counts as acknowledged.  At
   MAX_DEVICES the payload is refused and the record stays as it is. *)
Acknowledge(e) ==
    LET next == Activate(Base, e)
    IN  /\ e \in opened /\ Loadable /\ e \notin DOMAIN View.devices
        /\ In(e, {"grant_ready", "delivered"}) /\ CanTransact
        /\ \/ /\ Committed(next)
              /\ Become(e, [Records[e] EXCEPT !.state = "acknowledged", !.ackUntil = now + AckTtl])
              /\ paired' = paired \cup {e} /\ UNCHANGED <<unsure, faults>>
           \/ /\ Uncertain(next) /\ Fault /\ rec' = Records
              /\ unsure' = unsure \cup {e} /\ UNCHANGED paired
           \/ /\ NotWritten /\ rec' = Records
              /\ IF ValidPayload(next) THEN Fault ELSE UNCHANGED faults
              /\ UNCHANGED <<paired, unsure>>
    /\ UNCHANGED <<now, registered, sealing, made, opened, claimed, approved, refused, forgotten>>

-----------------------------------------------------------------------------
(* The device after its pairing, and the environment *)

(* revokeDevice (devices.js); DeviceTokens models it in full. *)
Revoke(e) ==
    /\ CanTransact /\ e \in LiveIn(Base)
    /\ Committed([Base EXCEPT !.devices[e].revokedReason = "owner"])
    /\ forgotten' = forgotten \cup {e}
    /\ UNCHANGED <<now, memory, made, opened, claimed, approved, refused, paired, unsure, faults>>

Restart ==
    /\ RestartServer \/ PowerCut
    /\ registered' = {} /\ sealing' = {}
    /\ rec' = [e \in DeviceIds |-> NoRecord]
    /\ UNCHANGED <<now, history, faults>>

Tick ==
    /\ now < MaxTime /\ now' = now + 1
    /\ UNCHANGED <<storeVars, memory, history, faults>>

Next ==
    \/ Status
    \/ \E e \in DeviceIds :
          \/ Create(e) \/ Approve(e) \/ Sealed(e) \/ Reject(e) \/ Delete(e) \/ Dismiss(e)
          \/ \E p \in Phones : Claim(e, p) \/ ClaimAgain(e, p)
          \/ ClaimUnknown(e) \/ Retrieve(e) \/ AcknowledgeAgain(e) \/ Acknowledge(e) \/ Revoke(e)
    \/ Restart \/ Tick

Spec == Init /\ [][Next]_vars

-----------------------------------------------------------------------------
(* Properties *)

IsSidecar(s) ==
    /\ DOMAIN s.devices \subseteq DeviceIds
    /\ \A d \in DOMAIN s.devices :
          s.devices[d] \in [revokedReason : {"none", "owner"}, phone : Phones, createdAt : 0..MaxTime,
                            expiresAt : Nat, ackUntil : Nat]
    /\ s.spent \subseteq [key : DeviceIds \cup OldKeys, expiresAt : Nat]

TypeOK ==
    /\ IsSidecar(disk) /\ \A s \in limbo : IsSidecar(s)
    /\ cached # NoState => IsSidecar(cached)
    /\ registered \subseteq made /\ sealing \subseteq made
    /\ rec \in [DeviceIds -> [state : Pending \cup Terminal \cup {"none", "acknowledged"},
                              expiresAt : Nat, claim : Phones \cup {NoPhone}, ackUntil : Nat]]
    /\ \A e \in registered : rec[e].state # "none"
    /\ \A e \in DeviceIds : rec[e].state \notin {"none", "created", "expired", "rejected", "cancelled"}
                               => rec[e].claim # NoPhone
    /\ now \in 0..MaxTime /\ faults \in 0..MaxFaults

(* One pairing key binds one phone, whatever is repeated, refused or restarted,
   and the device it activates is that phone's, the one the owner approved. *)
OneClaimant ==
    /\ \A a, b \in claimed : a[1] = b[1] => a[2] = b[2]
    /\ \A e \in DOMAIN disk.devices :
          /\ <<e, disk.devices[e].phone>> \in approved
          /\ \E a \in claimed : a[1] = e /\ a[2] = disk.devices[e].phone

(* A key that was claimed is still known to be spent after a restart or a power
   cut, for as long as its enrolment could have run: the phone that repeats it
   is told "already used" and not "not valid". *)
SpentKeyIsRemembered ==
    \A a \in claimed : a[1] \notin registered /\ Loadable =>
        \/ \E entry \in View.spent : entry.key = a[1]
        \/ now >= a[3] + SpentSkew

(* An enrolment activates a device only within its own ten minutes, however
   long the owner, the sealing or the phone took. *)
ActivatedInTime ==
    \A e \in DOMAIN disk.devices : disk.devices[e].createdAt < disk.devices[e].expiresAt

(* An enrolment the owner was told is rejected activates no device later on,
   not through an approval still being sealed and not after a restart; except
   when the activation had failed with DURABILITY_UNCERTAIN. *)
RejectedStaysOut ==
    \A e \in refused \ unsure : e \notin DOMAIN disk.devices

(* A phone that was told it is paired stays paired, through restarts, power
   cuts and the failure of any later write, until the owner revokes it. *)
PairedStaysPaired ==
    \A e \in paired \ unsure : Loadable => e \in LiveIn(View) \/ e \in forgotten

(* enrolment-owner.js:39 "That pairing already activated a device; revoke the
   device instead.": a pairing reported as rejected has no device. *)
RejectionIsFinal ==
    \A e \in refused : Loadable => e \notin LiveIn(View)

(* What a phone was told, that its key is used or that it is paired, is still
   so after a restart or a power cut. *)
RestartForgetsNothing == SpentKeyIsRemembered /\ PairedStaysPaired

(* A device in the file is the approved claimant's, was activated in time, and
   not one the owner was told is rejected. *)
OnlyApprovedPhones == OneClaimant /\ ActivatedInTime /\ RejectedStaysOut
=============================================================================
