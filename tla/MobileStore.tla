---------------------------- MODULE MobileStore ----------------------------
(***************************************************************************)
(* The durable state of the mobile plane: the authenticated sidecar        *)
(* (src/src/mobile/store.js) and the authority record beside it, its       *)
(* high-water mark (src/src/mobile/epoch.js).  This module has the state   *)
(* and one operator per way a transaction can end; the modules that extend *)
(* it say which transactions there are.                                    *)
(*                                                                         *)
(* Transactions run under the lock of FileLock and are one step here.  The *)
(* server keeps `cached` between transactions; a maintenance command is a  *)
(* process of its own that starts without a cache and leaves the server's  *)
(* alone.  Encoding, MAC and file modes are left out: a file authenticates *)
(* or, for the authority record only, is Unreadable.                       *)
(***************************************************************************)
EXTENDS Naturals, FiniteSets

CONSTANTS
    DeviceIds,
    NoState,        \* no sidecar, or nothing cached
    NoEpoch,        \* no authority record
    Unreadable,     \* an authority record that does not verify
    MaxDevices,     \* MAX_DEVICES, 32 in the code
    MaxRevoked      \* MAX_REVOKED, 512 in the code

(* The markers are not records. *)
ASSUME MarkerAssumption ==
    /\ NoEpoch # Unreadable
    /\ [revoked : SUBSET DeviceIds, devicesSeen : BOOLEAN] \cap {NoEpoch, Unreadable} = {}

VARIABLES
    disk,           \* the sidecar file
    limbo,          \* older contents that a power cut may bring back, because
                    \* the rename over them was never confirmed by an fsync
    cached,         \* `cached` of the server process
    poisoned,       \* `poisoned` of the server process
    epoch,          \* the authority record
    epochLimbo      \* the same as limbo, for the authority record

storeVars == <<disk, limbo, cached, poisoned, epoch, epochLimbo>>

(* A sidecar's `devices` maps the ids it lists to device records; of those
   this module reads only whether revokedAt is set. *)
IsRevoked(device) == device.revokedReason # "none"

RevokedIn(s) == {d \in DOMAIN s.devices : IsRevoked(s.devices[d])}
LiveIn(s)    == DOMAIN s.devices \ RevokedIn(s)

HasEverPaired(s) == DOMAIN s.devices # {}

ValidPayload(s) == Cardinality(DOMAIN s.devices) <= MaxDevices

-----------------------------------------------------------------------------
(* epoch.js *)

Recorded == IF epoch \in {NoEpoch, Unreadable} THEN {} ELSE epoch.revoked

(* raiseEpoch: the union with what is recorded.  An unreadable record is left
   for its reader to report, and at the cap nothing is written at all. *)
Raised(record, s) ==
    LET known == record \notin {NoEpoch, Unreadable}
        next  == [revoked |-> (IF known THEN record.revoked ELSE {}) \cup RevokedIn(s),
                  devicesSeen |-> (known /\ record.devicesSeen) \/ HasEverPaired(s)]
    IN  IF record = Unreadable \/ Cardinality(next.revoked) > MaxRevoked
        THEN record ELSE next

Kept == [now |-> epoch, older |-> epochLimbo]

(* Writing the record fails, or is confirmed, or its rename is not: the caller
   is told of none of the three. *)
Raises(record, s) ==
    LET next == Raised(record.now, s)
    IN  {record} \cup
        IF next = record.now THEN {}
        ELSE {[now |-> next, older |-> older] : older \in {{}, record.older \cup {record.now}}}

(* guardRollback creates a missing record from the file it has just read, and
   a commit raises it again.  Both files are in the same directory, so the fsync
   that confirms a commit confirms the renames of the record before it. *)
AfterGuard == IF epoch = NoEpoch THEN Raises(Kept, disk) ELSE {Kept}
AfterCommit(s) == UNION {Raises([record EXCEPT !.older = {}], s) : record \in AfterGuard}

RecordIs(records) == \E record \in records : epoch' = record.now /\ epochLimbo' = record.older

(* guardRollback: no live device of the sidecar is recorded as revoked. *)
Acceptable(s) ==
    /\ epoch # Unreadable
    /\ LiveIn(s) \cap Recorded = {}

-----------------------------------------------------------------------------
(* store.js, reading *)

(* What loadMobileState returns to the server, when it returns. *)
View == IF cached # NoState THEN cached ELSE disk

Loadable ==
    /\ ~poisoned
    /\ cached = NoState => disk # NoState /\ Acceptable(disk)

(* The effect of a handler that only reads: the first read fills the cache,
   and creates the authority record if there is none. *)
Load ==
    /\ Loadable
    /\ cached' = View
    /\ IF cached = NoState THEN RecordIs(AfterGuard) ELSE UNCHANGED <<epoch, epochLimbo>>
    /\ UNCHANGED <<disk, limbo, poisoned>>

-----------------------------------------------------------------------------
(* store.js, transactions: updateMobileState and saveMobileState.            *)

MutBase == View

(* transact drops the cache, so a transaction starts from the file. *)
Base == disk

CanTransact == ~poisoned /\ disk # NoState /\ Acceptable(disk)

MutCommittedEarly(next) ==
    /\ ValidPayload(next)
    /\ disk' = next /\ limbo' = limbo \cup {disk} /\ cached' = next
    /\ RecordIs(AfterCommit(next))
    /\ UNCHANGED poisoned

(* commit: renamed, confirmed, cached, and the authority record raised. *)
Committed(next) ==
    /\ ValidPayload(next)
    /\ disk' = next /\ limbo' = {} /\ cached' = next
    /\ RecordIs(AfterCommit(next))
    /\ UNCHANGED poisoned

(* commit: renamed but not confirmed.  The caller gets DURABILITY_UNCERTAIN
   and the process refuses the mobile plane until it is restarted. *)
Uncertain(next) ==
    /\ ValidPayload(next)
    /\ disk' = next /\ limbo' = limbo \cup {disk} /\ cached' = next
    /\ poisoned' = TRUE
    /\ RecordIs(AfterGuard)

(* Nothing was renamed: the payload is refused or the write failed. *)
NotWritten ==
    /\ cached' = disk
    /\ RecordIs(AfterGuard)
    /\ UNCHANGED <<disk, limbo, poisoned>>

(* internalLoad refuses the file inside the transaction; the cache is gone. *)
RefusedByGuard ==
    /\ ~poisoned /\ disk # NoState /\ ~Acceptable(disk)
    /\ cached' = NoState
    /\ UNCHANGED <<disk, limbo, poisoned, epoch, epochLimbo>>

(* The same commit by a maintenance command. *)
CommittedByCommand(next) ==
    /\ ValidPayload(next)
    /\ disk' = next /\ limbo' = {}
    /\ RecordIs(AfterCommit(next))
    /\ UNCHANGED <<cached, poisoned>>

UncertainByCommand(next) ==
    /\ ValidPayload(next)
    /\ disk' = next /\ limbo' = limbo \cup {disk}
    /\ RecordIs(AfterGuard)
    /\ UNCHANGED <<cached, poisoned>>

-----------------------------------------------------------------------------
(* Failures *)

(* The server process is restarted; its memory is lost. *)
RestartServer ==
    /\ cached' = NoState /\ poisoned' = FALSE
    /\ UNCHANGED <<disk, limbo, epoch, epochLimbo>>

(* The host loses power: an unconfirmed rename may not have happened. *)
PowerCut ==
    /\ disk' \in {disk} \cup limbo
    /\ epoch' \in {epoch} \cup epochLimbo
    /\ limbo' = {} /\ epochLimbo' = {}
    /\ cached' = NoState /\ poisoned' = FALSE

=============================================================================
