--------------------------- MODULE MobileSidecar ---------------------------
(***************************************************************************)
(* The life of the mobile sidecar: devices are paired, revoked and         *)
(* forgotten by the server and revoked by rotate-cert.js, processes and    *)
(* the host fail, and an operator restores an older copy of the file.      *)
(* Devices are reduced to their revocation; DeviceTokens and Enrolment     *)
(* model what else they hold.                                              *)
(***************************************************************************)
EXTENDS MobileStore

CONSTANTS
    MaxRestores,    \* how many times an older sidecar is put back
    MaxFaults       \* how many writes fail or stay unconfirmed

ASSUME BoundsAssumption == MaxRestores \in Nat /\ MaxFaults \in Nat

VARIABLES
    backup,         \* a copy of the sidecar the operator made, or NoState
    used,           \* ids given out so far: a device id is 16 random bytes
    restores, faults,
    acked,          \* devices whose revocation the owner was told about
    owed,           \* revocations in the sidecar that raising the record missed
    reopened        \* acknowledged ones a restored sidecar undid, whose record
                    \* was missing or not confirmed

history == <<used, restores, faults, acked, owed, reopened>>
vars == <<storeVars, backup, history>>

Device(reason) == [revokedReason |-> reason]
NoDevices == [d \in {} |-> Device("none")]

(* First boot created the sidecar; the authority record is still missing. *)
Init ==
    /\ disk = [devices |-> NoDevices]
    /\ limbo = {} /\ cached = NoState /\ poisoned = FALSE
    /\ epoch = NoEpoch /\ epochLimbo = {}
    /\ backup = NoState
    /\ used = {} /\ restores = 0 /\ faults = 0 /\ acked = {} /\ owed = {} /\ reopened = {}

-----------------------------------------------------------------------------
With(s, d, device) ==
    [s EXCEPT !.devices = [x \in DOMAIN @ \cup {d} |-> IF x = d THEN device ELSE @[x]]]

Without(s, d) == [s EXCEPT !.devices = [x \in DOMAIN @ \ {d} |-> @[x]]]

AllRevoked(s) ==
    [s EXCEPT !.devices = [x \in DOMAIN @ |-> IF IsRevoked(@[x]) THEN @[x] ELSE Device("owner")]]

(* What a commit of `next` leaves unrecorded. *)
NowOwed(next) == (owed \cup RevokedIn(next)) \ Recorded'

Settle(next, told) ==
    /\ Committed(next) /\ acked' = acked \cup told /\ owed' = NowOwed(next)
    /\ UNCHANGED faults

Fail(next) ==
    /\ faults < MaxFaults /\ faults' = faults + 1
    /\ (Uncertain(next) /\ owed' = NowOwed(next)) \/ (NotWritten /\ owed' = owed \ Recorded')
    /\ UNCHANGED acked

(* updateMobileState by the server; `told` is what a success reports. *)
Update(next, told) ==
    /\ Settle(next, told) \/ Fail(next)
    /\ UNCHANGED <<backup, restores, reopened>>

Pair(d) ==
    /\ CanTransact /\ d \notin used
    /\ used' = used \cup {d}
    /\ Update(With(Base, d, Device("none")), {})

(* revokeDevice: an unknown id commits the state unchanged and is not found. *)
Revoke(d) ==
    /\ CanTransact /\ d \in DOMAIN Base.devices
    /\ Update(IF d \in LiveIn(Base) THEN With(Base, d, Device("owner")) ELSE Base, {d})
    /\ UNCHANGED used

(* forgetDevice: only a revoked device is removed. *)
Forget(d) ==
    /\ CanTransact /\ d \in RevokedIn(Base)
    /\ Update(Without(Base, d), {})
    /\ UNCHANGED used

(* Any transaction that leaves the devices as they are, a rename for one. *)
Touch ==
    /\ CanTransact
    /\ Update(Base, {})
    /\ UNCHANGED used

Read ==
    /\ Load
    /\ owed' = owed \ Recorded'
    /\ UNCHANGED <<backup, used, restores, faults, acked, reopened>>

RefuseUpdate ==
    /\ RefusedByGuard
    /\ UNCHANGED <<backup, history>>

(* revokeAllDevices in rotate-cert.js. *)
CommandRevokesAll ==
    /\ disk # NoState /\ Acceptable(disk)
    /\ \/ CommittedByCommand(AllRevoked(disk)) /\ UNCHANGED faults
       \/ UncertainByCommand(AllRevoked(disk)) /\ faults < MaxFaults /\ faults' = faults + 1
    /\ owed' = NowOwed(AllRevoked(disk))
    /\ UNCHANGED <<backup, used, restores, acked, reopened>>

-----------------------------------------------------------------------------
(* Contents the record has or may have again after a power cut.  The server
   refuses a sidecar that lists d as live beside a record that bars d. *)
Versions == {epoch} \cup epochLimbo
Bars(record, d) == record = Unreadable \/ (record # NoEpoch /\ d \in record.revoked)
Confirmed(d) == \A record \in Versions : Bars(record, d)

Backup ==
    /\ backup' = disk
    /\ UNCHANGED <<storeVars, history>>

Restore ==
    /\ backup # NoState /\ restores < MaxRestores
    /\ restores' = restores + 1
    /\ disk' = backup /\ limbo' = {}
    /\ reopened' = reopened \cup {d \in acked \cap LiveIn(backup) : ~Confirmed(d)}
    /\ UNCHANGED <<cached, poisoned, epoch, epochLimbo, backup, used, faults, acked, owed>>

Damage ==
    /\ faults < MaxFaults /\ faults' = faults + 1
    /\ epoch' = Unreadable
    /\ UNCHANGED <<disk, limbo, cached, poisoned, epochLimbo, backup, used, restores, acked, owed, reopened>>

Interrupt ==
    /\ RestartServer \/ PowerCut
    /\ UNCHANGED <<backup, history>>

Next ==
    \/ \E d \in DeviceIds : Pair(d) \/ Revoke(d) \/ Forget(d)
    \/ Touch \/ Read \/ RefuseUpdate \/ CommandRevokesAll
    \/ Backup \/ Restore \/ Damage \/ Interrupt

Spec == Init /\ [][Next]_vars

-----------------------------------------------------------------------------
(* Properties *)

Sidecars == [devices : UNION {[D -> {Device(r) : r \in {"none", "owner"}}] : D \in SUBSET DeviceIds}]
Epochs   == [revoked : SUBSET DeviceIds, devicesSeen : BOOLEAN]

TypeOK ==
    /\ disk \in Sidecars
    /\ limbo \subseteq Sidecars
    /\ cached \in Sidecars \cup {NoState}
    /\ backup \in Sidecars \cup {NoState}
    /\ poisoned \in BOOLEAN
    /\ Versions \subseteq Epochs \cup {NoEpoch, Unreadable}
    /\ used \subseteq DeviceIds /\ acked \subseteq DeviceIds
    /\ owed \subseteq DeviceIds /\ reopened \subseteq DeviceIds
    /\ restores \in 0..MaxRestores /\ faults \in 0..MaxFaults

(* Whatever was restored, a state the server takes up from then on never lists
   as live a device that the authority record lists as revoked (store.js:298
   "Compare authenticated state with the high-water record before caching it"). *)
TakesUpNoRecordedDevice ==
    [][cached' \notin {cached, NoState} =>
          epoch' \in {NoEpoch, Unreadable} \/ LiveIn(cached') \cap epoch'.revoked = {}]_vars

(* The record is a high-water mark: what it bars it bars for good, and that a
   device was ever paired is not forgotten, even by a file that is damaged.  The
   exception is a record whose rename was not confirmed (epoch.js:122 "Sidecar
   state may advance before this record after an fsync failure"): a power cut
   may bring back the contents before it, and then what both of them bar. *)
Seen(record) == record = Unreadable \/ (record # NoEpoch /\ record.devicesSeen)
EpochOnlyRises ==
    [][/\ \A d \in DeviceIds : Confirmed(d) => Confirmed(d)'
       /\ (\A record \in Versions : Seen(record)) => (\A record \in Versions' : Seen(record))
       /\ \/ epoch' \in epochLimbo
          \/ /\ Seen(epoch) => Seen(epoch')
             /\ \A d \in DeviceIds : Bars(epoch, d) => Bars(epoch', d)]_vars

(* A revocation the owner was told about survives a restart, a power cut and a
   later unconfirmed write: the server serves the device again only if an older
   sidecar was put back and the record had missed the revocation or was not
   confirmed. *)
Serves(d) == Loadable /\ d \in LiveIn(View)
AckedRevocationHolds ==
    \A d \in acked : Serves(d) => d \in reopened

(* store.js:253 "The next commit raises it again from the same state": a commit
   that raises the record leaves no revocation owed. *)
NextCommitRaisesAgain ==
    [][disk' = cached' /\ disk' # disk /\ epoch' # epoch /\ Cardinality(Recorded') < MaxRevoked => owed' = {}]_vars

=============================================================================
