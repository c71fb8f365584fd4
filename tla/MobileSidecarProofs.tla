------------------------ MODULE MobileSidecarProofs ------------------------
(***************************************************************************)
(* An acknowledged revocation holds, for any devices and any bounds.       *)
(*                                                                         *)
(* AckedRevocationHolds is not inductive: it speaks of what the server     *)
(* would load now, while an older copy that a power cut brings back, or a  *)
(* file that a later restart reads, may list the device as live.  The      *)
(* invariant says of every such file that the device it still lists is     *)
(* barred by the authority record and by every contents of it that a power *)
(* cut may bring back (so the file is refused beside any of them), or that *)
(* the owner put the file there.                                           *)
(*                                                                         *)
(* The transactions of MobileSidecar are one step each because they run    *)
(* under the lock of FileLock; the second part of this module is about it: *)
(* it is exclusive for any number of processes and any depth of re-entry,  *)
(* as long as no process ends while it is in use and every pair of         *)
(* processes either shares a PID namespace or has the same pid.  Without   *)
(* the first assumption TLC finds a counterexample (the run                *)
(* filelock_exit); without the second a process would look for the pid of  *)
(* a live holder in a namespace that does not have it.                     *)
(*                                                                         *)
(* The last part is about the start that reads files which went wrong, for *)
(* any damage and any number of restarts: the advice of a report helps.    *)
(* That the same report does not come back is no property of one start,    *)
(* since other starts and other advice change the directory meanwhile.     *)
(* StartInv says what every advice that was followed has made of it for    *)
(* good (Mended), and what a report says of the directory that it is made  *)
(* of (Told); the two contradict each other for the same report.           *)
(* What the repair command says is compared with what that start does, for *)
(* every directory together with every certificate material.               *)
(***************************************************************************)
EXTENDS MCMobileSidecar, FileLock, AllInOne, FiniteSetTheorems, TLAPS

Devices == {Device(r) : r \in {"none", "owner"}}

AnyEpoch == Epochs \cup {NoEpoch, Unreadable}

(* Every device of a file was paired at some time. *)
Known(s) == DOMAIN s.devices \subseteq used

(* What a file may still list as live although its revocation was reported. *)
Guarded(s) ==
    \A d \in acked \cap LiveIn(s) : d \in reopened \/ Confirmed(d)

IInv ==
    /\ TypeOK
    /\ acked \subseteq used
    /\ \A s \in {disk, backup} \cup limbo : s # NoState => Known(s)
    /\ \A s \in {disk} \cup limbo : Guarded(s)
    /\ cached # NoState /\ ~poisoned => acked \cap LiveIn(cached) \subseteq reopened

-----------------------------------------------------------------------------
(* Sidecars *)

LEMMA SidecarElim ==
    ASSUME NEW s \in Sidecars
    PROVE  /\ s = [devices |-> s.devices]
           /\ s.devices \in [DOMAIN s.devices -> Devices]
           /\ DOMAIN s.devices \subseteq DeviceIds
BY DEF Sidecars, Devices

LEMMA SidecarIntro ==
    ASSUME NEW D \in SUBSET DeviceIds, NEW f \in [D -> Devices]
    PROVE  [devices |-> f] \in Sidecars
BY DEF Sidecars, Devices

LEMMA DeviceRevoked ==
    /\ ~IsRevoked(Device("none")) /\ IsRevoked(Device("owner"))
    /\ Device("none") \in Devices /\ Device("owner") \in Devices
BY DEF IsRevoked, Device, Devices

LEMMA WithIs ==
    ASSUME NEW s \in Sidecars, NEW d \in DeviceIds, NEW device \in Devices
    PROVE  /\ With(s, d, device) \in Sidecars
           /\ DOMAIN With(s, d, device).devices = DOMAIN s.devices \cup {d}
           /\ LiveIn(With(s, d, device)) = (LiveIn(s) \ {d}) \cup (IF IsRevoked(device) THEN {} ELSE {d})
<1> DEFINE f == [x \in DOMAIN s.devices \cup {d} |-> IF x = d THEN device ELSE s.devices[x]]
<1>1. With(s, d, device) = [devices |-> f]
  BY SidecarElim DEF With
<1>2. f \in [DOMAIN s.devices \cup {d} -> Devices] /\ DOMAIN s.devices \cup {d} \in SUBSET DeviceIds
  BY SidecarElim
<1>3. With(s, d, device) \in Sidecars
  BY <1>1, <1>2, SidecarIntro
<1>4. With(s, d, device).devices = f
  BY <1>1
<1> QED
  BY <1>2, <1>3, <1>4 DEF LiveIn, RevokedIn

LEMMA WithoutIs ==
    ASSUME NEW s \in Sidecars, NEW d
    PROVE  /\ Without(s, d) \in Sidecars
           /\ DOMAIN Without(s, d).devices \subseteq DOMAIN s.devices
           /\ LiveIn(Without(s, d)) \subseteq LiveIn(s)
<1> DEFINE f == [x \in DOMAIN s.devices \ {d} |-> s.devices[x]]
<1>1. Without(s, d) = [devices |-> f]
  BY SidecarElim DEF Without
<1>2. f \in [DOMAIN s.devices \ {d} -> Devices] /\ DOMAIN s.devices \ {d} \in SUBSET DeviceIds
  BY SidecarElim
<1>3. Without(s, d) \in Sidecars
  BY <1>1, <1>2, SidecarIntro
<1>4. Without(s, d).devices = f
  BY <1>1
<1> QED
  BY <1>2, <1>3, <1>4 DEF LiveIn, RevokedIn

LEMMA AllRevokedIs ==
    ASSUME NEW s \in Sidecars
    PROVE  /\ AllRevoked(s) \in Sidecars
           /\ DOMAIN AllRevoked(s).devices = DOMAIN s.devices
           /\ LiveIn(AllRevoked(s)) = {}
<1> DEFINE f == [x \in DOMAIN s.devices |->
                    IF IsRevoked(s.devices[x]) THEN s.devices[x] ELSE Device("owner")]
<1>1. AllRevoked(s) = [devices |-> f]
  BY SidecarElim DEF AllRevoked
<1>2. f \in [DOMAIN s.devices -> Devices]
  BY SidecarElim, DeviceRevoked
<1>3. AllRevoked(s) \in Sidecars
  BY <1>1, <1>2, SidecarElim, SidecarIntro
<1>4. AllRevoked(s).devices = f
  BY <1>1
<1> QED
  BY <1>3, <1>4, DeviceRevoked DEF LiveIn, RevokedIn

LEMMA RevokedAreIds == \A s \in Sidecars : RevokedIn(s) \subseteq DeviceIds
BY SidecarElim DEF RevokedIn

-----------------------------------------------------------------------------
(* The authority record *)

Rises(a, b) ==
    /\ b \in AnyEpoch
    /\ \A d : Bars(a, d) => Bars(b, d)
    /\ Seen(a) => Seen(b)

LEMMA RisesSelf == ASSUME NEW e \in AnyEpoch PROVE Rises(e, e)
BY DEF Rises

LEMMA RisesTrans ==
    ASSUME NEW a, NEW b, NEW c, Rises(a, b), Rises(b, c) PROVE Rises(a, c)
BY DEF Rises

LEMMA RaisedRises ==
    ASSUME NEW e \in AnyEpoch, NEW s \in Sidecars
    PROVE  Rises(e, Raised(e, s))
<1> DEFINE known == e \notin {NoEpoch, Unreadable}
<1> DEFINE next == [revoked |-> (IF known THEN e.revoked ELSE {}) \cup RevokedIn(s),
                    devicesSeen |-> (known /\ e.devicesSeen) \/ HasEverPaired(s)]
<1>1. Raised(e, s) = e \/ (Raised(e, s) = next /\ e # Unreadable)
  BY DEF Raised
<1>2. known => e \in Epochs
  BY DEF AnyEpoch
<1>3. next.revoked \in SUBSET DeviceIds
  BY <1>2, RevokedAreIds DEF Epochs
<1>4. next.devicesSeen \in BOOLEAN
  OBVIOUS
<1>5. next \in Epochs
  BY <1>3, <1>4 DEF Epochs
<1>6. next \notin {NoEpoch, Unreadable}
  BY <1>5, MarkerAssumption DEF Epochs
<1>7. e # Unreadable => \A d : Bars(e, d) => Bars(next, d)
  BY <1>6 DEF Bars
<1>8. e # Unreadable /\ Seen(e) => Seen(next)
  BY <1>6 DEF Seen
<1>9. e # Unreadable => Rises(e, next)
  BY <1>5, <1>7, <1>8 DEF Rises, AnyEpoch
<1> HIDE DEF next
<1> QED
  BY <1>1, <1>9, RisesSelf

(* What a step makes of the record and of what a power cut may bring back:
   every contents comes from one there was, and holds what that one held. *)
Sound(now, older) ==
    /\ Rises(epoch, now)
    /\ \A e \in older : \E v \in Versions : Rises(v, e)

LEMMA RaisesRise ==
    ASSUME NEW record, Sound(record.now, record.older), NEW s \in Sidecars, NEW next \in Raises(record, s)
    PROVE  Sound(next.now, next.older)
<1>1. record.now \in AnyEpoch
  BY DEF Sound, Rises
<1>2. Rises(epoch, Raised(record.now, s))
  BY <1>1, RaisedRises, RisesTrans DEF Sound
<1>3. next = record \/ \E older \in {{}, record.older \cup {record.now}} : next = [now |-> Raised(record.now, s), older |-> older]
  BY DEF Raises
<1>4. ASSUME NEW older \in {{}, record.older \cup {record.now}}, next = [now |-> Raised(record.now, s), older |-> older]
      PROVE  Sound(next.now, next.older)
  <2>1. next.now = Raised(record.now, s) /\ next.older \subseteq record.older \cup {record.now}
    BY <1>4
  <2> QED
    BY <1>2, <2>1 DEF Sound, Versions
<1> QED
  BY <1>3, <1>4

LEMMA GuardIsSound ==
    ASSUME Versions \subseteq AnyEpoch, disk \in Sidecars, NEW record \in AfterGuard
    PROVE  Sound(record.now, record.older)
<1>1. Kept.now = epoch /\ Kept.older = epochLimbo
  BY DEF Kept
<1>2. Sound(Kept.now, Kept.older)
  BY <1>1, RisesSelf DEF Sound, Versions
<1> QED
  BY <1>2, RaisesRise DEF AfterGuard

(* The step relation that both ends of a write of the record satisfy. *)
VersionsRise ==
    /\ epoch' \in epochLimbo \/ Rises(epoch, epoch')
    /\ \A e \in {epoch'} \cup epochLimbo' : \E v \in Versions : Rises(v, e)

LEMMA GuardRises ==
    ASSUME Versions \subseteq AnyEpoch, disk \in Sidecars, RecordIs(AfterGuard) PROVE VersionsRise
<1>1. PICK record \in AfterGuard : epoch' = record.now /\ epochLimbo' = record.older
  BY DEF RecordIs
<1> QED
  BY <1>1, GuardIsSound DEF Sound, VersionsRise, Versions

LEMMA CommitRises ==
    ASSUME Versions \subseteq AnyEpoch, disk \in Sidecars, NEW next \in Sidecars, RecordIs(AfterCommit(next))
    PROVE  VersionsRise
<1>1. PICK record \in AfterCommit(next) : epoch' = record.now /\ epochLimbo' = record.older
  BY DEF RecordIs
<1>2. PICK guard \in AfterGuard : record \in Raises([guard EXCEPT !.older = {}], next)
  BY <1>1 DEF AfterCommit
<1>3. guard = [now |-> guard.now, older |-> guard.older]
  BY DEF AfterGuard, Kept, Raises
<1> DEFINE fresh == [guard EXCEPT !.older = {}]
<1>4. fresh.now = guard.now /\ fresh.older = {}
  BY <1>3
<1>5. Sound(fresh.now, fresh.older)
  BY <1>4, GuardIsSound DEF Sound
<1> HIDE DEF fresh
<1>6. Sound(record.now, record.older)
  BY <1>2, <1>5, RaisesRise DEF fresh
<1> QED
  BY <1>1, <1>6 DEF Sound, VersionsRise, Versions

LEMMA VersionsTyped == ASSUME VersionsRise PROVE {epoch'} \cup epochLimbo' \subseteq AnyEpoch
BY DEF VersionsRise, Rises

LEMMA KeptRises == ASSUME Versions \subseteq AnyEpoch, UNCHANGED <<epoch, epochLimbo>> PROVE VersionsRise
BY RisesSelf DEF VersionsRise, Versions

LEMMA ConfirmedStays == ASSUME VersionsRise, NEW d, Confirmed(d) PROVE Confirmed(d)'
BY DEF Confirmed, Versions, VersionsRise, Rises

(* A file stays guarded while the record rises and nothing new is reported. *)
LEMMA GuardedStays ==
    ASSUME VersionsRise, NEW s, Guarded(s),
           reopened \subseteq reopened', acked' \cap LiveIn(s) \subseteq acked
    PROVE  Guarded(s)'
BY ConfirmedStays DEF Guarded

-----------------------------------------------------------------------------
LEMMA InitIInv == Init => IInv
<1> SUFFICES ASSUME Init PROVE IInv
  OBVIOUS
<1>1. NoDevices \in [{} -> Devices] /\ DOMAIN NoDevices = {}
  BY DEF NoDevices
<1>2. disk \in Sidecars /\ DOMAIN disk.devices = {}
  BY <1>1, SidecarIntro DEF Init
<1>3. TypeOK
  <2>1. poisoned \in BOOLEAN
    BY DEF Init
  <2>2. restores \in 0..MaxRestores /\ faults \in 0..MaxFaults
    BY BoundsAssumption DEF Init
  <2>3. /\ limbo \subseteq Sidecars
        /\ cached \in Sidecars \cup {NoState} /\ backup \in Sidecars \cup {NoState}
        /\ Versions \subseteq Epochs \cup {NoEpoch, Unreadable}
        /\ used \subseteq DeviceIds /\ acked \subseteq DeviceIds
        /\ owed \subseteq DeviceIds /\ reopened \subseteq DeviceIds
    BY DEF Init, Versions
  <2> QED
    BY <1>2, <2>1, <2>2, <2>3 DEF TypeOK
<1>4. acked = {} /\ limbo = {} /\ backup = NoState /\ cached = NoState
  BY DEF Init
<1> QED
  BY <1>2, <1>3, <1>4 DEF IInv, Known, Guarded

(* A file that passes the guard lists no reported device that was not put
   back by the owner. *)
LEMMA AcceptableIsSound ==
    ASSUME IInv, Acceptable(disk)
    PROVE  acked \cap LiveIn(disk) \subseteq reopened
BY DEF IInv, Guarded, Acceptable, Confirmed, Versions, Bars, Recorded

(* Every end of a transaction of the server. *)
LEMMA UpdateStep ==
    ASSUME IInv, CanTransact, NEW next \in Sidecars, NEW told \in SUBSET used',
           Update(next, told),
           used \subseteq used', used' \subseteq DeviceIds,
           DOMAIN next.devices \subseteq used',
           acked \cap LiveIn(next) \subseteq LiveIn(disk), told \cap LiveIn(next) = {}
    PROVE  IInv'
<1> USE DEF IInv
<1>0. TypeOK /\ Versions \subseteq AnyEpoch /\ disk \in Sidecars /\ limbo \subseteq Sidecars
  BY DEF TypeOK, AnyEpoch
<1>1. UNCHANGED <<backup, restores, reopened>>
  BY DEF Update
<1>2. acked \cap LiveIn(disk) \subseteq reopened
  BY AcceptableIsSound DEF CanTransact
<1>3. acked \cap LiveIn(next) \subseteq reopened
  BY <1>2
<1>4. RevokedIn(next) \subseteq DeviceIds
  BY RevokedAreIds
<1>5. CASE Settle(next, told)
  <2>1. /\ disk' = next /\ limbo' = {} /\ cached' = next /\ UNCHANGED poisoned
        /\ RecordIs(AfterCommit(next)) /\ acked' = acked \cup told
        /\ owed' = NowOwed(next) /\ UNCHANGED faults
    BY <1>5 DEF Settle, Committed
  <2>2. VersionsRise /\ Versions' \subseteq AnyEpoch
    BY <1>0, <2>1, CommitRises, VersionsTyped DEF Versions
  <2>3. acked' \cap LiveIn(next) \subseteq reopened'
    BY <1>1, <1>3, <2>1
  <2>4. TypeOK'
    BY <1>0, <1>1, <1>4, <2>1, <2>2 DEF TypeOK, AnyEpoch, NowOwed
  <2>5. acked' \subseteq used'
    BY <2>1
  <2>6. \A s \in {disk', backup'} \cup limbo' : s # NoState => DOMAIN s.devices \subseteq used'
    BY <1>1, <2>1 DEF Known
  <2> QED
    BY <2>1, <2>3, <2>4, <2>5, <2>6 DEF Known, Guarded
<1>6. CASE Fail(next)
  <2>1. /\ faults < MaxFaults /\ faults' = faults + 1 /\ UNCHANGED acked
        /\ (Uncertain(next) /\ owed' = NowOwed(next)) \/ (NotWritten /\ owed' = owed \ Recorded')
    BY <1>6 DEF Fail
  <2>2. RecordIs(AfterGuard)
    BY <2>1 DEF Uncertain, NotWritten
  <2>3. VersionsRise /\ Versions' \subseteq AnyEpoch
    BY <1>0, <2>2, GuardRises, VersionsTyped DEF Versions
  <2>4. \A s \in {disk} \cup limbo : Guarded(s)'
    BY <1>0, <1>1, <2>1, <2>3, GuardedStays
  <2>5. \/ disk' = next /\ limbo' = limbo \cup {disk} /\ cached' = next /\ poisoned' = TRUE
        \/ disk' = disk /\ limbo' = limbo /\ cached' = disk /\ poisoned' = poisoned
    BY <2>1 DEF Uncertain, NotWritten
  <2>6. Guarded(next)'
    BY <1>1, <1>3, <2>1 DEF Guarded
  <2>7. TypeOK'
    <3>1. faults' \in 0..MaxFaults
      BY <1>0, <2>1, BoundsAssumption DEF TypeOK
    <3>2. owed' \subseteq DeviceIds
      BY <1>0, <1>4, <2>1 DEF TypeOK, NowOwed
    <3>3. disk' \in Sidecars /\ limbo' \subseteq Sidecars /\ cached' \in Sidecars
      BY <1>0, <2>5
    <3>4. poisoned' \in BOOLEAN
      BY <1>0, <2>5 DEF TypeOK
    <3> QED
      BY <1>0, <1>1, <2>1, <2>3, <3>1, <3>2, <3>3, <3>4 DEF TypeOK, AnyEpoch
  <2>8. \A s \in {disk', backup'} \cup limbo' : s # NoState => DOMAIN s.devices \subseteq used'
    BY <1>1, <2>5 DEF Known
  <2>9. \A s \in {disk'} \cup limbo' : Guarded(s)'
    BY <2>4, <2>5, <2>6
  <2>10. cached' # NoState /\ ~poisoned' => acked' \cap LiveIn(cached') \subseteq reopened'
    BY <1>1, <1>2, <2>1, <2>5
  <2> QED
    BY <2>1, <2>7, <2>8, <2>9, <2>10 DEF Known
<1> QED
  BY <1>5, <1>6 DEF Update

(* Nothing but the memory of the server and the record changes. *)
LEMMA ReadStep ==
    ASSUME IInv, UNCHANGED <<disk, limbo, backup, used, restores, faults, acked, reopened>>,
           VersionsRise, owed' \subseteq owed, poisoned' \in BOOLEAN,
           cached' \in Sidecars \cup {NoState},
           cached' # NoState /\ ~poisoned' => acked \cap LiveIn(cached') \subseteq reopened
    PROVE  IInv'
<1> USE DEF IInv
<1>1. TypeOK /\ Versions' \subseteq AnyEpoch
  BY VersionsTyped DEF Versions
<1>2. TypeOK'
  BY <1>1 DEF TypeOK, AnyEpoch
<1>3. \A s \in {disk} \cup limbo : Guarded(s)'
  BY <1>1, GuardedStays
<1> QED
  BY <1>2, <1>3 DEF Known

LEMMA CommandStep == ASSUME IInv, CommandRevokesAll PROVE IInv'
<1> USE DEF IInv
<1>0. TypeOK /\ Versions \subseteq AnyEpoch /\ disk \in Sidecars /\ limbo \subseteq Sidecars
  BY DEF TypeOK, AnyEpoch
<1>1. PICK next \in Sidecars : /\ next = AllRevoked(disk)
                              /\ DOMAIN next.devices = DOMAIN disk.devices /\ LiveIn(next) = {}
  BY <1>0, AllRevokedIs
<1>2. RevokedIn(next) \subseteq DeviceIds
  BY <1>1, RevokedAreIds
<1>3. /\ disk' = next /\ limbo' \subseteq limbo \cup {disk}
      /\ UNCHANGED <<cached, poisoned, backup, used, restores, acked, reopened>>
      /\ disk # NoState /\ owed' = NowOwed(next)
  BY <1>1 DEF CommandRevokesAll, CommittedByCommand, UncertainByCommand
<1>4. faults' \in 0..MaxFaults
  <2>1. faults' = faults \/ (faults < MaxFaults /\ faults' = faults + 1)
    BY DEF CommandRevokesAll
  <2> QED
    BY <1>0, <2>1, BoundsAssumption DEF TypeOK
<1>5. RecordIs(AfterGuard) \/ RecordIs(AfterCommit(next))
  BY <1>1 DEF CommandRevokesAll, CommittedByCommand, UncertainByCommand
<1>6. VersionsRise /\ Versions' \subseteq AnyEpoch
  BY <1>0, <1>1, <1>5, GuardRises, CommitRises, VersionsTyped DEF Versions
<1>7. \A s \in {disk} \cup limbo : Guarded(s)'
  BY <1>0, <1>3, <1>6, GuardedStays
<1>8. Guarded(next)'
  BY <1>1 DEF Guarded
<1>9. TypeOK'
  BY <1>0, <1>1, <1>2, <1>3, <1>4, <1>6 DEF TypeOK, AnyEpoch, NowOwed
<1> QED
  BY <1>1, <1>3, <1>7, <1>8, <1>9 DEF Known

LEMMA RestoreStep == ASSUME IInv, Restore PROVE IInv'
<1> USE DEF IInv
<1>1. /\ TypeOK /\ backup \in Sidecars /\ backup # NoState
      /\ disk' = backup /\ limbo' = {} /\ restores < MaxRestores /\ restores' = restores + 1
      /\ reopened' = reopened \cup {d \in acked \cap LiveIn(backup) : ~Confirmed(d)}
      /\ UNCHANGED <<cached, poisoned, epoch, epochLimbo, backup, used, faults, acked, owed>>
  BY DEF Restore, TypeOK
<1>2. restores' \in 0..MaxRestores
  BY <1>1, BoundsAssumption DEF TypeOK
<1>3. TypeOK'
  BY <1>1, <1>2 DEF TypeOK, Versions
<1>4. \A d : Confirmed(d)' <=> Confirmed(d)
  BY <1>1 DEF Confirmed, Versions
<1>5. Guarded(backup)'
  BY <1>1, <1>4 DEF Guarded
<1> QED
  BY <1>1, <1>3, <1>5 DEF Known

LEMMA PowerCutStep ==
    ASSUME IInv, RestartServer \/ PowerCut, UNCHANGED <<backup, history>> PROVE IInv'
<1> USE DEF IInv
<1>1. /\ disk' \in {disk} \cup limbo /\ limbo' \subseteq limbo
      /\ cached' = NoState /\ poisoned' = FALSE
      /\ {epoch'} \cup epochLimbo' \subseteq Versions
  BY DEF RestartServer, PowerCut, Versions
<1>2. UNCHANGED <<backup, used, restores, faults, acked, owed, reopened>>
  BY DEF history
<1>3. TypeOK'
  <2>1. poisoned' \in BOOLEAN
    BY <1>1
  <2>2. disk' \in Sidecars
    BY <1>1 DEF TypeOK
  <2>3. Versions' \subseteq Epochs \cup {NoEpoch, Unreadable}
    BY <1>1 DEF TypeOK, Versions
  <2> QED
    BY <1>1, <1>2, <2>1, <2>2, <2>3 DEF TypeOK
<1>4. \A d : Confirmed(d) => Confirmed(d)'
  BY <1>1 DEF Confirmed, Versions
<1>5. \A s \in {disk} \cup limbo : Guarded(s)'
  BY <1>1, <1>2, <1>4 DEF Guarded
<1>6. \A s \in {disk', backup'} \cup limbo' : s # NoState => DOMAIN s.devices \subseteq used'
  BY <1>1, <1>2 DEF Known
<1> QED
  BY <1>1, <1>2, <1>3, <1>5, <1>6 DEF Known, Guarded

LEMMA StepIInv == IInv /\ [Next]_vars => IInv'
<1> SUFFICES ASSUME IInv, [Next]_vars PROVE IInv'
  OBVIOUS
<1>0. /\ TypeOK /\ disk \in Sidecars /\ Versions \subseteq AnyEpoch /\ acked \subseteq used
      /\ used \subseteq DeviceIds
  BY DEF IInv, TypeOK, AnyEpoch
<1>1. ASSUME CanTransact PROVE DOMAIN disk.devices \subseteq used
  BY <1>1 DEF IInv, CanTransact, Known
<1>2. ASSUME NEW d \in DeviceIds, Pair(d) PROVE IInv'
  <2> DEFINE next == With(disk, d, Device("none"))
  <2>1. /\ CanTransact /\ d \notin used /\ used' = used \cup {d} /\ Update(next, {})
    BY <1>2 DEF Pair, Base
  <2>2. /\ next \in Sidecars /\ DOMAIN next.devices = DOMAIN disk.devices \cup {d}
        /\ LiveIn(next) = (LiveIn(disk) \ {d}) \cup {d}
    BY <1>0, DeviceRevoked, WithIs
  <2> HIDE DEF next
  <2> QED
    BY <1>0, <1>1, <2>1, <2>2, UpdateStep
<1>3. ASSUME NEW d \in DeviceIds, Revoke(d) PROVE IInv'
  <2> DEFINE next == IF d \in LiveIn(disk) THEN With(disk, d, Device("owner")) ELSE disk
  <2>1. /\ CanTransact /\ d \in DOMAIN disk.devices /\ used' = used /\ Update(next, {d})
    BY <1>3 DEF Revoke, Base
  <2>2. /\ next \in Sidecars /\ DOMAIN next.devices = DOMAIN disk.devices
        /\ LiveIn(next) = LiveIn(disk) \ {d}
    <3>1. CASE d \in LiveIn(disk)
      <4>1. next = With(disk, d, Device("owner"))
        BY <3>1
      <4>2. LiveIn(disk) \subseteq DOMAIN disk.devices
        BY DEF LiveIn
      <4> HIDE DEF next
      <4>3. With(disk, d, Device("owner")) \in Sidecars
        BY <1>0, DeviceRevoked, WithIs
      <4>4. DOMAIN With(disk, d, Device("owner")).devices = DOMAIN disk.devices \cup {d}
        BY <1>0, DeviceRevoked, WithIs
      <4>5. LiveIn(With(disk, d, Device("owner"))) = LiveIn(disk) \ {d}
        BY <1>0, DeviceRevoked, WithIs
      <4> QED
        BY <2>1, <4>1, <4>3, <4>4, <4>5
    <3>2. CASE d \notin LiveIn(disk)
      BY <1>0, <2>1, <3>2
    <3> QED
      BY <3>1, <3>2
  <2> HIDE DEF next
  <2> QED
    BY <1>0, <1>1, <2>1, <2>2, UpdateStep
<1>4. ASSUME NEW d \in DeviceIds, Forget(d) PROVE IInv'
  <2> DEFINE next == Without(disk, d)
  <2>1. CanTransact /\ used' = used /\ Update(next, {})
    BY <1>4 DEF Forget, Base
  <2>2. /\ next \in Sidecars /\ DOMAIN next.devices \subseteq DOMAIN disk.devices
        /\ LiveIn(next) \subseteq LiveIn(disk)
    BY <1>0, WithoutIs
  <2> HIDE DEF next
  <2> QED
    BY <1>0, <1>1, <2>1, <2>2, UpdateStep
<1>5. CASE Touch
  <2>1. CanTransact /\ used' = used /\ Update(disk, {})
    BY <1>5 DEF Touch, Base
  <2> QED
    BY <1>0, <1>1, <2>1, UpdateStep
<1>6. CASE Read
  <2>1. /\ Loadable /\ cached' = View
        /\ RecordIs(AfterGuard) \/ UNCHANGED <<epoch, epochLimbo>>
        /\ UNCHANGED <<disk, limbo, poisoned, backup, used, restores, faults, acked, reopened>>
        /\ owed' \subseteq owed
    BY <1>6 DEF Read, Load
  <2>2. VersionsRise
    BY <1>0, <2>1, GuardRises, KeptRises
  <2>3. poisoned' \in BOOLEAN /\ cached' \in Sidecars \cup {NoState}
    BY <1>0, <2>1 DEF TypeOK, View
  <2>4. cached' # NoState /\ ~poisoned' => acked \cap LiveIn(cached') \subseteq reopened
    BY <2>1, AcceptableIsSound DEF View, Loadable, IInv
  <2> QED
    BY <2>1, <2>2, <2>3, <2>4, ReadStep
<1>7. CASE RefuseUpdate
  <2>1. /\ cached' = NoState
        /\ UNCHANGED <<disk, limbo, poisoned, epoch, epochLimbo, backup, used, restores, faults,
                       acked, owed, reopened>>
    BY <1>7 DEF RefuseUpdate, RefusedByGuard, history
  <2>2. VersionsRise /\ poisoned' \in BOOLEAN
    BY <1>0, <2>1, KeptRises DEF TypeOK
  <2> QED
    BY <2>1, <2>2, ReadStep
<1>8. CASE CommandRevokesAll
  BY <1>8, CommandStep
<1>9. CASE Backup
  BY <1>9 DEF Backup, storeVars, history, IInv, TypeOK, Known, Guarded, Confirmed, Versions
<1>10. CASE Restore
  BY <1>10, RestoreStep
<1>11. CASE Damage
  <2>1. /\ epoch' = Unreadable /\ faults < MaxFaults /\ faults' = faults + 1
        /\ UNCHANGED <<disk, limbo, cached, poisoned, epochLimbo, backup, used, restores, acked, owed, reopened>>
    BY <1>11 DEF Damage
  <2>2. faults' \in 0..MaxFaults
    BY <1>0, <2>1, BoundsAssumption DEF TypeOK
  <2>3. \A d : Confirmed(d) => Confirmed(d)'
    BY <2>1 DEF Confirmed, Versions, Bars
  <2>4. Versions' \subseteq Epochs \cup {NoEpoch, Unreadable}
    BY <1>0, <2>1 DEF Versions, TypeOK
  <2> QED
    BY <2>1, <2>2, <2>3, <2>4 DEF IInv, TypeOK, Known, Guarded
<1>12. CASE Interrupt
  BY <1>12, PowerCutStep DEF Interrupt
<1>13. CASE UNCHANGED vars
  BY <1>13 DEF vars, storeVars, history, IInv, TypeOK, Known, Guarded, Confirmed, Versions
<1> QED
  BY <1>2, <1>3, <1>4, <1>5, <1>6, <1>7, <1>8, <1>9, <1>10, <1>11, <1>12, <1>13 DEF Next

-----------------------------------------------------------------------------
LEMMA Invariance == Spec => []IInv
BY InitIInv, StepIInv, PTL DEF Spec

(* Every way a transaction of the server ends, and no other step touches the
   record but a read, a command and a damage. *)
LEMMA UpdateRaises ==
    ASSUME Versions \subseteq AnyEpoch, disk \in Sidecars, NEW next \in Sidecars, NEW told, Update(next, told)
    PROVE  VersionsRise
<1>1. RecordIs(AfterGuard) \/ RecordIs(AfterCommit(next))
  BY DEF Update, Settle, Fail, Committed, Uncertain, NotWritten
<1> QED
  BY <1>1, GuardRises, CommitRises

LEMMA StepRises == IInv /\ [Next]_vars => VersionsRise
<1> SUFFICES ASSUME IInv, [Next]_vars PROVE VersionsRise
  OBVIOUS
<1>0. disk \in Sidecars /\ Versions \subseteq AnyEpoch
  BY DEF IInv, TypeOK, AnyEpoch
<1>1. ASSUME NEW d \in DeviceIds, Pair(d) \/ Revoke(d) \/ Forget(d) PROVE VersionsRise
  <2>1. With(disk, d, Device("none")) \in Sidecars /\ With(disk, d, Device("owner")) \in Sidecars
    BY <1>0, DeviceRevoked, WithIs
  <2>2. Without(disk, d) \in Sidecars
    BY <1>0, WithoutIs
  <2>3. PICK next \in Sidecars, told \in SUBSET DeviceIds : Update(next, told)
    <3>1. CASE Pair(d)
      BY <2>1, <3>1 DEF Pair, Base
    <3>2. CASE Revoke(d)
      BY <1>0, <2>1, <3>2 DEF Revoke, Base
    <3>3. CASE Forget(d)
      BY <2>2, <3>3 DEF Forget, Base
    <3> QED
      BY <1>1, <3>1, <3>2, <3>3
  <2> QED
    BY <1>0, <2>3, UpdateRaises
<1>2. CASE Touch
  BY <1>0, <1>2, UpdateRaises DEF Touch, Base
<1>3. CASE Read
  <2>1. RecordIs(AfterGuard) \/ UNCHANGED <<epoch, epochLimbo>>
    BY <1>3 DEF Read, Load
  <2> QED
    BY <1>0, <2>1, GuardRises, KeptRises
<1>4. CASE CommandRevokesAll
  <2>1. RecordIs(AfterGuard) \/ RecordIs(AfterCommit(AllRevoked(disk)))
    BY <1>4 DEF CommandRevokesAll, CommittedByCommand, UncertainByCommand
  <2> QED
    BY <1>0, <2>1, AllRevokedIs, GuardRises, CommitRises
<1>5. CASE RefuseUpdate \/ Backup \/ Restore \/ RestartServer \/ UNCHANGED vars
  <2>1. UNCHANGED <<epoch, epochLimbo>>
    BY <1>5 DEF RefuseUpdate, RefusedByGuard, Backup, Restore, RestartServer, vars, storeVars
  <2> QED
    BY <1>0, <2>1, KeptRises
<1>6. CASE PowerCut
  <2>1. epoch' \in Versions /\ epochLimbo' = {}
    BY <1>6 DEF PowerCut, Versions
  <2>2. Rises(epoch', epoch')
    BY <1>0, <2>1, RisesSelf
  <2> QED
    BY <2>1, <2>2 DEF VersionsRise, Versions
<1>7. CASE Damage
  <2>1. epoch' = Unreadable /\ epochLimbo' = epochLimbo
    BY <1>7 DEF Damage
  <2>2. Rises(epoch, Unreadable)
    BY DEF Rises, Bars, Seen, AnyEpoch
  <2>3. \A e \in epochLimbo : Rises(e, e)
    BY <1>0, RisesSelf DEF Versions
  <2> QED
    BY <2>1, <2>2, <2>3 DEF VersionsRise, Versions
<1> QED
  BY <1>1, <1>2, <1>3, <1>4, <1>5, <1>6, <1>7 DEF Next, Interrupt

-----------------------------------------------------------------------------
(* What the record takes up: it lists nobody that was not revoked in a file. *)

RevokedOf(e) == IF e \in {NoEpoch, Unreadable} THEN {} ELSE e.revoked

LEMMA RaisedAdds ==
    ASSUME NEW e \in AnyEpoch, NEW s \in Sidecars
    PROVE  RevokedOf(Raised(e, s)) \subseteq RevokedOf(e) \cup RevokedIn(s)
BY DEF RevokedOf, Raised

LEMMA RaisesAdds ==
    ASSUME NEW record, record.now \in AnyEpoch, NEW s \in Sidecars, NEW next \in Raises(record, s)
    PROVE  /\ RevokedOf(next.now) \subseteq RevokedOf(record.now) \cup RevokedIn(s)
           /\ next.older \subseteq record.older \cup {record.now}
<1>1. RevokedOf(Raised(record.now, s)) \subseteq RevokedOf(record.now) \cup RevokedIn(s)
  BY RaisedAdds
<1>2. next = record \/ \E older \in {{}, record.older \cup {record.now}} : next = [now |-> Raised(record.now, s), older |-> older]
  BY DEF Raises
<1> QED
  BY <1>1, <1>2

(* Contents that may come back are older ones or the one before the last. *)
Takes(record, D) ==
    /\ RevokedOf(record.now) \subseteq D
    /\ \A e \in record.older : e \in epochLimbo \/ RevokedOf(e) \subseteq Recorded \cup RevokedIn(disk)

LEMMA GuardAdds ==
    ASSUME Versions \subseteq AnyEpoch, disk \in Sidecars, NEW record \in AfterGuard
    PROVE  Takes(record, Recorded \cup RevokedIn(disk))
<1>1. /\ Kept.now = epoch /\ Kept.older = epochLimbo /\ epoch \in AnyEpoch
      /\ RevokedOf(epoch) = Recorded
  BY DEF Kept, RevokedOf, Recorded, Versions
<1> QED
  BY <1>1, RaisesAdds DEF AfterGuard, Takes

LEMMA CommitAdds ==
    ASSUME Versions \subseteq AnyEpoch, disk \in Sidecars, NEW next \in Sidecars, NEW record \in AfterCommit(next)
    PROVE  Takes(record, Recorded \cup RevokedIn(disk) \cup RevokedIn(next))
<1>1. PICK guard \in AfterGuard : record \in Raises([guard EXCEPT !.older = {}], next)
  BY DEF AfterCommit
<1>2. guard = [now |-> guard.now, older |-> guard.older]
  BY DEF AfterGuard, Kept, Raises
<1> DEFINE fresh == [guard EXCEPT !.older = {}]
<1>3. fresh.now = guard.now /\ fresh.older = {} /\ fresh.now \in AnyEpoch
  BY <1>2, GuardIsSound DEF Sound, Rises
<1> HIDE DEF fresh
<1>4. /\ RevokedOf(record.now) \subseteq RevokedOf(fresh.now) \cup RevokedIn(next)
      /\ record.older \subseteq fresh.older \cup {fresh.now}
  BY <1>1, <1>3, RaisesAdds DEF fresh
<1> QED
  BY <1>3, <1>4, GuardAdds DEF Takes

RecordedKnown == \A e \in Versions : RevokedOf(e) \subseteq used

LEMMA KnownStays ==
    ASSUME RecordedKnown, used \subseteq used', NEW D \in SUBSET used', RevokedIn(disk) \subseteq used,
           NEW records, RecordIs(records), \A record \in records : Takes(record, D)
    PROVE  RecordedKnown' /\ Recorded' \subseteq D
<1>1. PICK record \in records : epoch' = record.now /\ epochLimbo' = record.older
  BY DEF RecordIs
<1>2. Recorded = RevokedOf(epoch) /\ Recorded' = RevokedOf(epoch')
  BY DEF Recorded, RevokedOf
<1> QED
  BY <1>1, <1>2 DEF RecordedKnown, Takes, Versions

(* The step property that TakesUpNoRecordedDevice is. *)
TakesUp == cached' \notin {cached, NoState} => LiveIn(cached') \cap Recorded' = {}

LEMMA UpdateTakesUp ==
    ASSUME IInv, RecordedKnown, CanTransact, NEW next \in Sidecars, NEW told, Update(next, told),
           used \subseteq used', DOMAIN next.devices \subseteq used',
           LiveIn(next) \cap used \subseteq LiveIn(disk)
    PROVE  RecordedKnown' /\ TakesUp
<1>1. disk \in Sidecars /\ Versions \subseteq AnyEpoch /\ DOMAIN disk.devices \subseteq used
  BY DEF IInv, TypeOK, AnyEpoch, CanTransact, Known
<1>2. LiveIn(disk) \cap Recorded = {} /\ LiveIn(disk) \cap RevokedIn(disk) = {}
  BY DEF CanTransact, Acceptable, LiveIn
<1>3. RevokedIn(disk) \subseteq used /\ RevokedIn(next) \subseteq used' /\ Recorded \subseteq used
  BY <1>1 DEF RevokedIn, RecordedKnown, Recorded, RevokedOf, Versions
<1>4. LiveIn(next) \cap (Recorded \cup RevokedIn(disk) \cup RevokedIn(next)) = {}
  BY <1>2, <1>3 DEF LiveIn
<1>5. CASE Committed(next)
  <2>1. RecordIs(AfterCommit(next)) /\ cached' = next
    BY <1>5 DEF Committed
  <2>2. RecordedKnown' /\ Recorded' \subseteq Recorded \cup RevokedIn(disk) \cup RevokedIn(next)
    BY <1>1, <1>3, <2>1, CommitAdds, KnownStays
  <2> QED
    BY <1>4, <2>1, <2>2 DEF TakesUp
<1>6. CASE Uncertain(next) \/ NotWritten
  <2>1. RecordedKnown' /\ Recorded' \subseteq Recorded \cup RevokedIn(disk)
    <3>1. RecordIs(AfterGuard)
      BY <1>6 DEF Uncertain, NotWritten
    <3> QED
      BY <1>1, <1>3, <3>1, GuardAdds, KnownStays
  <2>2. cached' \in {next, disk}
    BY <1>6 DEF Uncertain, NotWritten
  <2> QED
    BY <1>2, <1>4, <2>1, <2>2 DEF TakesUp
<1> QED
  BY <1>5, <1>6 DEF Update, Settle, Fail

LEMMA StepTakesUp == IInv /\ RecordedKnown /\ [Next]_vars => RecordedKnown' /\ TakesUp
<1> SUFFICES ASSUME IInv, RecordedKnown, [Next]_vars PROVE RecordedKnown' /\ TakesUp
  OBVIOUS
<1>0. /\ disk \in Sidecars /\ Versions \subseteq AnyEpoch
      /\ disk # NoState => DOMAIN disk.devices \subseteq used
  BY DEF IInv, TypeOK, AnyEpoch, Known
<1>1. ASSUME NEW d \in DeviceIds, Pair(d) PROVE RecordedKnown' /\ TakesUp
  <2> DEFINE next == With(disk, d, Device("none"))
  <2>1. CanTransact /\ d \notin used /\ used' = used \cup {d} /\ Update(next, {})
    BY <1>1 DEF Pair, Base
  <2>2. /\ next \in Sidecars /\ DOMAIN next.devices = DOMAIN disk.devices \cup {d}
        /\ LiveIn(next) = (LiveIn(disk) \ {d}) \cup {d}
    BY <1>0, DeviceRevoked, WithIs
  <2>3. DOMAIN disk.devices \subseteq used
    BY <1>0, <2>1 DEF CanTransact
  <2> HIDE DEF next
  <2> QED
    BY <2>1, <2>2, <2>3, UpdateTakesUp
<1>2. ASSUME NEW d \in DeviceIds, Revoke(d) \/ Forget(d) PROVE RecordedKnown' /\ TakesUp
  <2>1. /\ With(disk, d, Device("owner")) \in Sidecars
        /\ DOMAIN With(disk, d, Device("owner")).devices = DOMAIN disk.devices \cup {d}
        /\ LiveIn(With(disk, d, Device("owner"))) \subseteq LiveIn(disk)
    BY <1>0, DeviceRevoked, WithIs
  <2>2. /\ Without(disk, d) \in Sidecars
        /\ DOMAIN Without(disk, d).devices \subseteq DOMAIN disk.devices
        /\ LiveIn(Without(disk, d)) \subseteq LiveIn(disk)
    BY <1>0, WithoutIs
  <2>3. /\ CanTransact /\ used' = used /\ DOMAIN disk.devices \subseteq used
        /\ d \in DOMAIN disk.devices
    BY <1>0, <1>2 DEF Revoke, Forget, Base, CanTransact, RevokedIn
  <2>4. PICK next \in Sidecars, told \in SUBSET DeviceIds :
            /\ Update(next, told)
            /\ DOMAIN next.devices \subseteq DOMAIN disk.devices
            /\ LiveIn(next) \subseteq LiveIn(disk)
    <3>1. CASE Revoke(d)
      BY <1>0, <2>1, <2>3, <3>1 DEF Revoke, Base
    <3>2. CASE Forget(d)
      BY <2>2, <3>2 DEF Forget, Base
    <3> QED
      BY <1>2, <3>1, <3>2
  <2> QED
    BY <2>3, <2>4, UpdateTakesUp
<1>3. CASE Touch
  <2>1. CanTransact /\ used' = used /\ Update(disk, {}) /\ DOMAIN disk.devices \subseteq used
    BY <1>0, <1>3 DEF Touch, Base, CanTransact
  <2> QED
    BY <1>0, <2>1, UpdateTakesUp
<1>4. CASE Read
  <2>1. /\ Loadable /\ cached' = View /\ used' = used
        /\ IF cached = NoState THEN RecordIs(AfterGuard) ELSE UNCHANGED <<epoch, epochLimbo>>
    BY <1>4 DEF Read, Load
  <2>2. CASE cached # NoState
    BY <2>1, <2>2 DEF View, TakesUp, RecordedKnown, Versions
  <2>3. CASE cached = NoState
    <3>1. LiveIn(disk) \cap Recorded = {} /\ disk # NoState /\ cached' = disk
      BY <2>1, <2>3 DEF Loadable, Acceptable, View
    <3>2. /\ RevokedIn(disk) \subseteq used /\ LiveIn(disk) \cap RevokedIn(disk) = {}
          /\ Recorded \subseteq used
      BY <1>0, <3>1 DEF RevokedIn, LiveIn, RecordedKnown, Recorded, RevokedOf, Versions
    <3>3. RecordedKnown' /\ Recorded' \subseteq Recorded \cup RevokedIn(disk)
      BY <1>0, <2>1, <2>3, <3>2, GuardAdds, KnownStays
    <3> QED
      BY <3>1, <3>2, <3>3 DEF TakesUp
  <2> QED
    BY <2>2, <2>3
<1>5. CASE CommandRevokesAll
  <2> DEFINE next == AllRevoked(disk)
  <2>1. next \in Sidecars /\ DOMAIN next.devices = DOMAIN disk.devices
    BY <1>0, AllRevokedIs
  <2>2. RecordIs(AfterGuard) \/ RecordIs(AfterCommit(next))
    BY <1>5 DEF CommandRevokesAll, CommittedByCommand, UncertainByCommand
  <2>3. disk # NoState /\ UNCHANGED <<cached, used>>
    BY <1>5 DEF CommandRevokesAll, CommittedByCommand, UncertainByCommand
  <2>4. RevokedIn(disk) \subseteq used /\ RevokedIn(next) \subseteq used /\ Recorded \subseteq used
    BY <1>0, <2>1, <2>3 DEF RevokedIn, RecordedKnown, Recorded, RevokedOf, Versions
  <2> HIDE DEF next
  <2>5. RecordedKnown'
    BY <1>0, <2>1, <2>2, <2>3, <2>4, GuardAdds, CommitAdds, KnownStays
  <2> QED
    BY <2>3, <2>5 DEF TakesUp
<1>6. CASE RefuseUpdate \/ Backup \/ Restore \/ Damage \/ Interrupt \/ UNCHANGED vars
  <2>1. /\ cached' \in {cached, NoState} /\ used' = used
        /\ {epoch'} \cup epochLimbo' \subseteq Versions \cup {Unreadable}
    BY <1>6 DEF RefuseUpdate, RefusedByGuard, Backup, Restore, Damage, Interrupt, RestartServer,
                PowerCut, vars, storeVars, history, Versions
  <2>2. RevokedOf(Unreadable) = {}
    BY DEF RevokedOf
  <2> QED
    BY <2>1, <2>2 DEF RecordedKnown, Versions, TakesUp
<1> QED
  BY <1>1, <1>2, <1>3, <1>4, <1>5, <1>6 DEF Next

-----------------------------------------------------------------------------
(* Every reachable state of the sidecar, the record and the server's memory
   is well typed. *)
THEOREM TypeCorrect == Spec => []TypeOK
<1>1. IInv => TypeOK
  BY DEF IInv
<1> QED
  BY Invariance, <1>1, PTL

(* A device whose revocation the owner was told about is not served again, by
   whatever restarts, power cuts and unconfirmed writes, unless the owner put
   back an older sidecar and the record had missed the revocation or was not
   confirmed. *)
THEOREM AcknowledgedRevocationHolds == Spec => []AckedRevocationHolds
<1>1. IInv => AckedRevocationHolds
  <2> SUFFICES ASSUME IInv, NEW d \in acked, Serves(d) PROVE d \in reopened
    BY DEF AckedRevocationHolds
  <2>1. CASE cached = NoState
    BY <2>1, AcceptableIsSound DEF Serves, Loadable, View
  <2>2. CASE cached # NoState
    BY <2>2 DEF Serves, Loadable, View, IInv
  <2> QED
    BY <2>1, <2>2
<1> QED
  BY Invariance, <1>1, PTL

(* epoch.js keeps a high-water mark, also where the renames of the record are
   not confirmed: what every contents bars that the record has or may have again
   is barred from then on. *)
THEOREM RecordOnlyRises == Spec => EpochOnlyRises
<1> DEFINE Raise == /\ \A d \in DeviceIds : Confirmed(d) => Confirmed(d)'
                    /\ (\A record \in Versions : Seen(record)) => (\A record \in Versions' : Seen(record))
                    /\ \/ epoch' \in epochLimbo
                       \/ /\ Seen(epoch) => Seen(epoch')
                          /\ \A d \in DeviceIds : Bars(epoch, d) => Bars(epoch', d)
<1>1. IInv /\ [Next]_vars => [Raise]_vars
  <2> SUFFICES ASSUME IInv, [Next]_vars PROVE Raise
    OBVIOUS
  <2>1. VersionsRise
    BY StepRises
  <2>2. \A d \in DeviceIds : Confirmed(d) => Confirmed(d)'
    BY <2>1, ConfirmedStays
  <2>3. (\A record \in Versions : Seen(record)) => (\A record \in Versions' : Seen(record))
    BY <2>1 DEF VersionsRise, Versions, Rises
  <2>4. epoch' \in epochLimbo \/ Rises(epoch, epoch')
    BY <2>1 DEF VersionsRise
  <2> QED
    BY <2>2, <2>3, <2>4 DEF Rises
<1> QED
  BY Invariance, <1>1, PTL DEF Spec, EpochOnlyRises

(* store.js:298: a state is compared with the record before it is cached, so
   the server never takes up a state that lists a recorded device as live. *)
THEOREM NoRecordedDeviceIsTakenUp == Spec => TakesUpNoRecordedDevice
<1> DEFINE Take == cached' \notin {cached, NoState} =>
                      epoch' \in {NoEpoch, Unreadable} \/ LiveIn(cached') \cap epoch'.revoked = {}
<1>1. Init => RecordedKnown
  BY DEF Init, RecordedKnown, Versions, RevokedOf
<1>2. IInv /\ RecordedKnown /\ [Next]_vars => RecordedKnown' /\ [Take]_vars
  BY StepTakesUp DEF TakesUp, Recorded
<1> QED
  BY Invariance, <1>1, <1>2, PTL DEF Spec, TakesUpNoRecordedDevice

-----------------------------------------------------------------------------
(* The lock *)

NobodyEnds == MaxEnds = 0

(* Commands started by `docker exec` share the server's namespace, containers
   of `docker compose run` are all pid 1: either way, it holds. *)
PidsTellApart ==
    \A p, q \in Procs : Namespace[p] = Namespace[q] \/ Pid[p] = Pid[q]

(* A stamp that was read names a process that is still alive where it is
   looked up, and no lock is old, so nobody decides to break one. *)
SoundSeen(p) ==
    /\ \/ seen[p].pid = NoStamp
       \/ \E q \in Procs : seen[p].pid = Pid[q]
    /\ ~seen[p].old
    /\ pc[p] # "breaking"

SoundFile ==
    /\ ~file.old
    /\ \/ file.pid = NoStamp
       \/ \E q \in Procs : file.pid = Pid[q]

LockIInv ==
    /\ LockTypeOK
    /\ \A p \in Procs : alive[p]
    /\ HolderKeepsFile
    /\ NoOrphan
    /\ SoundFile
    /\ \A p \in Procs : SoundSeen(p)

-----------------------------------------------------------------------------
(* Typing needs no assumption: processes may end and come back. *)
LEMMA LockTypeInit == LockInit => LockTypeOK
BY PidAssumption DEF LockInit, LockTypeOK, Places, NoFile, NoStamp, Nothing

LEMMA LockTypeStep == LockTypeOK /\ [LockNext]_lockVars => LockTypeOK'
<1> SUFFICES ASSUME LockTypeOK, [LockNext]_lockVars PROVE LockTypeOK'
  OBVIOUS
<1> USE PidAssumption DEF LockTypeOK, Goto, Places, NoFile, NoStamp, Nothing
<1>1. ASSUME NEW p \in Procs, Call(p) PROVE LockTypeOK'
  BY <1>1 DEF Call
<1>2. ASSUME NEW p \in Procs, Attempt(p) PROVE LockTypeOK'
  <2>1. CASE Create(p)
    BY <2>1 DEF Create
  <2>2. CASE FindHeld(p)
    BY <2>2 DEF FindHeld
  <2>3. CASE InspectVanished(p)
    BY <2>3 DEF InspectVanished
  <2>4. CASE Stamp(p)
    BY <2>4 DEF Stamp
  <2>5. CASE Inspect(p)
    BY <2>5 DEF Inspect
  <2>6. CASE Probe(p)
    BY <2>6 DEF Probe, PollOrTimeOut
  <2>7. CASE Break(p)
    BY <2>7 DEF Break, PollOrTimeOut
  <2> QED
    BY <1>2, <2>1, <2>2, <2>3, <2>4, <2>5, <2>6, <2>7 DEF Attempt
<1>3. ASSUME NEW p \in Procs, Body(p) PROVE LockTypeOK'
  <2>1. depth[p] \in 0..MaxDepth
    OBVIOUS
  <2>2. CASE Reenter(p)
    BY <2>1, <2>2 DEF Reenter
  <2>3. CASE ReturnNested(p)
    BY <2>1, <2>3 DEF ReturnNested
  <2> QED
    BY <1>3, <2>2, <2>3 DEF Body
<1>4. ASSUME NEW p \in Procs, Unlock(p) PROVE LockTypeOK'
  BY <1>4 DEF Unlock
<1>5. ASSUME NEW p \in Procs, End(p) PROVE LockTypeOK'
  BY <1>5 DEF End
<1>6. ASSUME NEW p \in Procs, Restart(p) PROVE LockTypeOK'
  BY <1>6 DEF Restart
<1>7. CASE Age
  BY <1>7 DEF Age
<1>8. CASE UNCHANGED lockVars
  BY <1>8 DEF lockVars
<1> QED
  BY <1>1, <1>2, <1>3, <1>4, <1>5, <1>6, <1>7, <1>8 DEF LockNext

-----------------------------------------------------------------------------
LEMMA InitLockIInv == LockInit => LockIInv
<1> SUFFICES ASSUME LockInit PROVE LockIInv
  OBVIOUS
<1> USE DEF LockInit, NoFile, NoStamp, Nothing
<1>1. LockTypeOK
  BY LockTypeInit
<1>2. HolderKeepsFile /\ NoOrphan
  BY DEF HolderKeepsFile, NoOrphan, Holder
<1>3. SoundFile /\ \A p \in Procs : SoundSeen(p) /\ alive[p]
  BY DEF SoundFile, SoundSeen
<1> QED
  BY <1>1, <1>2, <1>3 DEF LockIInv

(* While everybody is alive a foreign stamp always names a living process, and
   no lock is old: no inspection ends in "abandoned". *)
LEMMA NothingAbandoned ==
    ASSUME PidsTellApart, LockIInv, NEW p \in Procs
    PROVE  ~LooksAbandoned(p)
<1>1. CASE ForeignStamp(p)
  <2>1. PICK q \in Procs : seen[p].pid = Pid[q]
    BY <1>1 DEF LockIInv, SoundSeen, ForeignStamp
  <2>2. Namespace[q] = Namespace[p]
    BY <1>1, <2>1 DEF PidsTellApart, ForeignStamp
  <2>3. Exists(p, seen[p].pid)
    BY <2>1, <2>2 DEF Exists, LockIInv
  <2> QED
    BY <1>1, <2>3 DEF LooksAbandoned
<1>2. CASE ~ForeignStamp(p)
  BY <1>2 DEF LooksAbandoned, LockIInv, SoundSeen
<1> QED
  BY <1>1, <1>2

LEMMA StepLockIInv ==
    ASSUME NobodyEnds, PidsTellApart, LockIInv, [LockNext]_lockVars
    PROVE  LockIInv'
<1> USE PidAssumption DEF NoStamp
<1>0. LockTypeOK /\ HolderKeepsFile /\ NoOrphan /\ SoundFile
      /\ \A p \in Procs : SoundSeen(p) /\ alive[p]
  BY DEF LockIInv
<1>1. ASSUME NEW p \in Procs, Call(p) PROVE LockIInv'
  BY <1>0, <1>1 DEF LockIInv, LockTypeOK, HolderKeepsFile, NoOrphan, SoundFile, SoundSeen, Holder, Call, Goto, Places, NoFile
<1>2. ASSUME NEW p \in Procs, Create(p) PROVE LockIInv'
  BY <1>0, <1>2 DEF LockIInv, LockTypeOK, HolderKeepsFile, NoOrphan, SoundFile, SoundSeen, Holder, Create, Goto, Places, NoFile
<1>3. ASSUME NEW p \in Procs, FindHeld(p) PROVE LockIInv'
  BY <1>0, <1>3 DEF LockIInv, LockTypeOK, HolderKeepsFile, NoOrphan, SoundFile, SoundSeen, Holder, FindHeld, Goto, Places, NoFile
<1>4. ASSUME NEW p \in Procs, Stamp(p) PROVE LockIInv'
  BY <1>0, <1>4 DEF LockIInv, LockTypeOK, HolderKeepsFile, NoOrphan, SoundFile, SoundSeen, Holder, Stamp, Goto, Places, NoFile
<1>5. ASSUME NEW p \in Procs, Reenter(p) PROVE LockIInv'
  BY <1>0, <1>5 DEF LockIInv, LockTypeOK, HolderKeepsFile, NoOrphan, SoundFile, SoundSeen, Holder, Reenter, Goto, Places, NoFile
<1>6. ASSUME NEW p \in Procs, ReturnNested(p) PROVE LockIInv'
  BY <1>0, <1>6 DEF LockIInv, LockTypeOK, HolderKeepsFile, NoOrphan, SoundFile, SoundSeen, Holder, ReturnNested, Goto, Places, NoFile
<1>7. ASSUME NEW p \in Procs, Unlock(p) PROVE LockIInv'
  BY <1>0, <1>7 DEF LockIInv, LockTypeOK, HolderKeepsFile, NoOrphan, SoundFile, SoundSeen, Holder, Unlock, Goto, Places, NoFile
<1>8. ASSUME NEW p \in Procs, InspectVanished(p) PROVE LockIInv'
  BY <1>0, <1>8 DEF LockIInv, LockTypeOK, HolderKeepsFile, NoOrphan, SoundFile, SoundSeen, Holder, InspectVanished, Goto, Places, NoFile
<1>9. ASSUME NEW p \in Procs, Inspect(p) PROVE LockIInv'
  BY <1>0, <1>9 DEF LockIInv, LockTypeOK, HolderKeepsFile, NoOrphan, SoundFile, SoundSeen, Holder, Inspect, Goto, Places, NoFile
<1>10. ASSUME NEW p \in Procs, Probe(p) PROVE LockIInv'
  <2>1. PollOrTimeOut(p)
    BY <1>10, NothingAbandoned DEF Probe
  <2> QED
    BY <1>0, <1>10, <2>1 DEF LockIInv, LockTypeOK, HolderKeepsFile, NoOrphan, SoundFile, SoundSeen, Holder, Probe, PollOrTimeOut, Nothing, Goto, Places, NoFile
<1>11. ASSUME NEW p \in Procs, Break(p) PROVE LockIInv'
  BY <1>0, <1>11 DEF SoundSeen, Break
<1>12. ASSUME NEW p \in Procs, End(p) \/ Restart(p) PROVE LockIInv'
  BY <1>0, <1>12 DEF End, Restart, LockTypeOK, NobodyEnds
<1>13. CASE Age
  BY <1>0, <1>13 DEF Age, NoOrphan
<1>14. CASE UNCHANGED lockVars
  BY <1>0, <1>14 DEF lockVars, LockIInv, LockTypeOK, HolderKeepsFile, NoOrphan, SoundFile, SoundSeen, Holder, NoFile
<1> QED
  BY <1>1, <1>2, <1>3, <1>4, <1>5, <1>6, <1>7, <1>8, <1>9, <1>10, <1>11, <1>12, <1>13, <1>14
     DEF LockNext, Attempt, Body

(* A lock file that a holder keeps has one creator, so two holders are one. *)
LEMMA LockIInvMutex == LockIInv => Mutex
BY DEF LockIInv, HolderKeepsFile, Mutex

-----------------------------------------------------------------------------
LEMMA LockInvariance == ASSUME NobodyEnds, PidsTellApart PROVE LockSpec => []LockIInv
<1>1. LockIInv /\ [LockNext]_lockVars => LockIInv'
  BY StepLockIInv
<1> QED
  BY InitLockIInv, <1>1, PTL DEF LockSpec

(* Every state of the lock is well typed, whoever ends and comes back. *)
THEOREM LockTypeCorrect == LockSpec => []LockTypeOK
BY LockTypeInit, LockTypeStep, PTL DEF LockSpec

(* lock.js runs `fn` under an exclusive lock: no two processes are inside it. *)
THEOREM MutualExclusion == ASSUME NobodyEnds, PidsTellApart PROVE LockSpec => []Mutex
BY LockInvariance, LockIInvMutex, PTL

(* Nobody removes the lock file of a process that still runs `fn`, and a lock
   file always belongs to a call in progress. *)
THEOREM LockFileIsTheHolders ==
    ASSUME NobodyEnds, PidsTellApart PROVE LockSpec => [](HolderKeepsFile /\ NoOrphan)
<1>1. LockIInv => HolderKeepsFile /\ NoOrphan
  BY DEF LockIInv
<1> QED
  BY LockInvariance, <1>1, PTL

-----------------------------------------------------------------------------
(***************************************************************************)
(* The start, over the files of the panel.                                 *)
(***************************************************************************)

MarkerReports == {"boot-state-migration-marker", "boot-state-migration-marker-key", "boot-state-migration-spent"}
AccessReports == {"boot-docker-access-key-mismatch", "boot-docker-access-unreadable"}

(* What a report says of the directory it was made of, which the start left
   as it is but for what it saved before it refused. *)
Told(d, l) ==
    /\ l = "boot-state-unreadable" => d.panel = "unopenable"
    /\ l = "boot-state-key-mismatch" => d.panel = "mismatch"
    /\ l = "boot-state-not-companion" => d.panel = "foreign"
    /\ l = "boot-state-contents" => d.panel \in {"odd", "v1odd"} \/ d.jobs = "odd"
    /\ l = "boot-state-v1-refused" => d.panel = "v1extra"
    /\ l = "boot-state-migration-v1" => ~d.migrate
    /\ l \in MarkerReports => d.marker # "absent" /\ d.panel \in {"v1", "v1extra", "v1odd"}
    /\ l = "boot-state-unclassified" => d.panel = "good"
    /\ l \in AccessReports => d.access # "absent"
    /\ l = "boot-docker-access-write-failed" => d.writes # "durable"
    /\ l \in {"boot-port-in-use", "boot-port-denied"} => d.port # "free"

(* What following the reports ls has made of the directory for good. *)
Mended(d, ls) ==
    /\ "boot-state-unreadable" \in ls => d.panel # "unopenable"
    /\ "boot-state-key-mismatch" \in ls => d.panel \in {"absent", "good"}
    /\ "boot-state-not-companion" \in ls => d.panel \in {"absent", "good"}
    /\ "boot-state-contents" \in ls => d.panel = "good" /\ d.jobs # "odd"
    /\ "boot-state-v1-refused" \in ls => d.panel \in {"v1", "good"}
    /\ "boot-state-migration-v1" \in ls => d.migrate
    /\ ls \cap MarkerReports # {} => d.marker = "absent" \/ d.panel = "good"
    /\ "boot-state-unclassified" \in ls => d.panel = "good"
    /\ ls \cap AccessReports # {} => d.access = "absent"
    /\ "boot-docker-access-write-failed" \in ls => d.writes = "durable"
    /\ ls \cap {"boot-port-in-use", "boot-port-denied"} # {} => d.port = "free"

(* What a start may save. *)
Saves(d, e) ==
    /\ e \in Directories
    /\ e.migrate = d.migrate /\ e.writes = d.writes /\ e.port = d.port
    /\ e.panel = d.panel \/ (e.panel = "good" /\ d.panel \in {"absent", "cron", "v1"})
    /\ e.jobs = d.jobs \/ e.jobs = "off" \/ (e.jobs = "unsaved" /\ d.panel = "absent" /\ e.panel = "good")
    /\ e.marker = d.marker \/ e.panel = "good"
    /\ d.access = "absent" => e.access = "absent"

(* An unconfirmed save is the first one of the panel, or the one of its jobs. *)
Says(d, e, l) ==
    /\ Told(e, l)
    /\ l = "boot-state-unclassified" => d.panel # "good" \/ (d.jobs # "off" /\ e.jobs = "off")

(* The result of a stage of the start. *)
Stage(d, r) == Saves(d, r.dir) /\ (r.refusal = NoRefusal \/ Says(d, r.dir, describe(r.refusal)))

StartInv ==
    /\ dir \in Directories
    /\ Told(dir, label) /\ Mended(dir, followed)
    /\ label \notin followed \ {"boot-unexpected", "boot-state-unclassified"}
    /\ followed \cap {"none", "started"} = {}
    /\ "boot-state-unclassified" \in again => dir.panel = "good" /\ dir.jobs = "off"
    /\ label = "boot-state-unclassified" =>
          label \notin again /\ (label \in followed => dir.jobs = "off")

LEMMA Outcome ==
    ASSUME NEW d \in Directories, NEW e, NEW f, Saves(d, e), f = NoRefusal \/ Says(d, e, describe(f))
    PROVE  Stage(d, Result(e, f))
BY DEF Stage, Result

LEMMA SavesNothing == ASSUME NEW d \in Directories PROVE Saves(d, d)
BY DEF Saves

LEMMA CommitSays ==
    ASSUME NEW d \in Directories, NEW next \in Directories, Saves(d, next), next.panel = "good",
           d.panel # "good" \/ (d.jobs # "off" /\ next.jobs = "off")
    PROVE  Stage(d, commit(d, next))
<1>0. d.writes \in {"durable", "unsure", "fail"}
  BY DEF Directories
<1>1. CASE d.writes = "durable"
  <2>1. commit(d, next) = Result(next, NoRefusal)
    BY <1>1 DEF commit
  <2> QED
    BY <2>1, Outcome
<1>2. CASE d.writes = "unsure"
  <2> DEFINE f == Refusal("QM_STATE_INVALID", "committed", "none")
  <2>1. commit(d, next) = Result(next, f)
    BY <1>2 DEF commit
  <2>2. describe(f) = "boot-state-unclassified"
    BY DEF describe, describeState, Refusal
  <2>3. Says(d, next, describe(f))
    BY <2>2 DEF Says, Told, MarkerReports, AccessReports
  <2> HIDE DEF f
  <2> QED
    BY <2>1, <2>3, Outcome
<1>3. CASE d.writes = "fail"
  <2> DEFINE f == Refusal("EACCES", "none", "none")
  <2>1. commit(d, next) = Result(d, f)
    BY <1>3 DEF commit
  <2>2. describe(f) = "boot-unexpected"
    BY DEF describe, Refusal
  <2>3. Says(d, d, describe(f))
    BY <2>2 DEF Says, Told, MarkerReports, AccessReports
  <2> HIDE DEF f
  <2> QED
    BY <2>1, <2>3, Outcome, SavesNothing
<1> QED
  BY <1>0, <1>1, <1>2, <1>3

(* The report of a refusal of the state file is chosen by its detail. *)
LEMMA StateReports ==
    ASSUME NEW d \in Directories, NEW detail,
           \/ d.panel = "unopenable" /\ detail = "read failed"
           \/ d.panel = "foreign" /\ detail = "format is invalid"
           \/ d.panel = "mismatch" /\ detail = "authentication failed"
           \/ d.panel \in {"odd", "v1odd"} /\ detail = "owner record is invalid"
           \/ d.panel = "v1extra" /\ detail = "legacy format has unknown fields"
           \/ ~d.migrate /\ detail = "legacy v1 is unauthenticated"
           \/ d.jobs = "odd" /\ detail = "cron state could not be decrypted"
    PROVE  Stage(d, Result(d, stateError(detail)))
<1>1. describe(stateError(detail)) = stateBucket(detail)
  BY DEF describe, describeState, stateError, Refusal
<1>2. Says(d, d, stateBucket(detail))
  BY DEF Says, Told, stateBucket, MarkerReports, AccessReports
<1> QED
  BY <1>1, <1>2, Outcome, SavesNothing

LEMMA MarkerRefuses ==
    ASSUME NEW d \in Directories, migrationWasConsumed(d) # NoRefusal,
           d.panel \in {"v1", "v1extra", "v1odd"}
    PROVE  Stage(d, Result(d, migrationWasConsumed(d)))
<1>1. d.marker \in {"unopenable", "malformed", "mismatch", "good"}
  BY DEF Directories, Markers, migrationWasConsumed
<1>2. describe(migrationWasConsumed(d)) \in MarkerReports
  <2>1. CASE d.marker = "unopenable"
    BY <2>1 DEF migrationWasConsumed, markerError, Refusal, describe, describeState, MarkerReports
  <2>2. CASE d.marker = "malformed"
    BY <2>2 DEF migrationWasConsumed, markerError, Refusal, describe, describeState, MarkerReports
  <2>3. CASE d.marker = "mismatch"
    BY <2>3 DEF migrationWasConsumed, markerError, Refusal, describe, describeState, MarkerReports
  <2>4. CASE d.marker = "good"
    BY <2>4 DEF migrationWasConsumed, markerError, Refusal, describe, describeState, MarkerReports
  <2> QED
    BY <1>1, <2>1, <2>2, <2>3, <2>4
<1>3. \A l \in MarkerReports : Says(d, d, l)
  BY <1>1 DEF Says, Told, MarkerReports, AccessReports
<1> QED
  BY <1>2, <1>3, Outcome, SavesNothing

LEMMA MigrateSays ==
    ASSUME NEW d \in Directories, d.panel \in {"v1", "v1extra", "v1odd"}
    PROVE  Stage(d, Migrate(d))
<1>1. CASE ~d.migrate
  <2>1. Migrate(d) = Result(d, stateError("legacy v1 is unauthenticated"))
    BY <1>1 DEF Migrate
  <2> QED
    BY <1>1, <2>1, StateReports
<1>2. CASE d.migrate /\ migrationWasConsumed(d) # NoRefusal
  <2>1. Migrate(d) = Result(d, migrationWasConsumed(d))
    BY <1>2 DEF Migrate
  <2> QED
    BY <1>2, <2>1, MarkerRefuses
<1>3. CASE d.migrate /\ migrationWasConsumed(d) = NoRefusal
  <2>1. CASE d.panel = "v1extra"
    <3>1. Migrate(d) = Result(d, stateError("legacy format has unknown fields"))
      BY <1>3, <2>1 DEF Migrate
    <3> QED
      BY <2>1, <3>1, StateReports
  <2>2. CASE d.panel = "v1odd"
    <3>1. Migrate(d) = Result(d, stateError("owner record is invalid"))
      BY <1>3, <2>2 DEF Migrate
    <3> QED
      BY <2>2, <3>1, StateReports
  <2>3. CASE d.panel = "v1"
    <3> DEFINE next == [d EXCEPT !.panel = "good", !.marker = IF d.writes = "durable" THEN "good" ELSE @]
    <3>1. Migrate(d) = commit(d, next)
      BY <1>3, <2>3 DEF Migrate
    <3>2. next \in Directories /\ Saves(d, next) /\ next.panel = "good"
      BY <2>3 DEF Directories, Saves, Panels, Markers
    <3> HIDE DEF next
    <3> QED
      BY <2>3, <3>1, <3>2, CommitSays
  <2> QED
    BY <2>1, <2>2, <2>3
<1> QED
  BY <1>1, <1>2, <1>3

LEMMA LoadSays == ASSUME NEW d \in Directories PROVE Stage(d, load(d))
<1>1. CASE d.panel = "absent"
  <2> DEFINE next == [d EXCEPT !.panel = "good", !.jobs = "unsaved",
                              !.access = IF @ \in {"read", "full"} THEN "other" ELSE @]
  <2>1. load(d) = commit(d, next)
    BY <1>1 DEF load
  <2>2. next \in Directories /\ Saves(d, next) /\ next.panel = "good"
    BY <1>1 DEF Directories, Saves, Panels, Accesses, Jobs
  <2> HIDE DEF next
  <2> QED
    BY <1>1, <2>1, <2>2, CommitSays
<1>2. CASE d.panel = "cron"
  <2> DEFINE next == [d EXCEPT !.panel = "good"]
  <2>1. load(d) = commit(d, next)
    BY <1>2 DEF load
  <2>2. next \in Directories /\ Saves(d, next) /\ next.panel = "good"
    BY <1>2 DEF Directories, Saves, Panels
  <2> HIDE DEF next
  <2> QED
    BY <1>2, <2>1, <2>2, CommitSays
<1>3. CASE d.panel = "good"
  <2>1. load(d) = Result(d, NoRefusal)
    BY <1>3 DEF load
  <2> QED
    BY <2>1, Outcome, SavesNothing
<1>4. CASE d.panel = "unopenable"
  <2>1. load(d) = Result(d, stateError("read failed"))
    BY <1>4 DEF load
  <2> QED
    BY <1>4, <2>1, StateReports
<1>5. CASE d.panel = "foreign"
  <2>1. load(d) = Result(d, stateError("format is invalid"))
    BY <1>5 DEF load
  <2> QED
    BY <1>5, <2>1, StateReports
<1>6. CASE d.panel = "mismatch"
  <2>1. load(d) = Result(d, stateError("authentication failed"))
    BY <1>6 DEF load
  <2> QED
    BY <1>6, <2>1, StateReports
<1>7. CASE d.panel = "odd"
  <2>1. load(d) = Result(d, stateError("owner record is invalid"))
    BY <1>7 DEF load
  <2> QED
    BY <1>7, <2>1, StateReports
<1>8. CASE d.panel \in {"v1", "v1extra", "v1odd"}
  <2>1. load(d) = Migrate(d)
    BY <1>8 DEF load
  <2> QED
    BY <1>8, <2>1, MigrateSays
<1>9. d.panel \in Panels
  BY DEF Directories
<1> QED
  BY <1>1, <1>2, <1>3, <1>4, <1>5, <1>6, <1>7, <1>8, <1>9 DEF Panels

(* The choice of the mode does not touch the state file, and does not report on it. *)
LEMMA SelectSays ==
    ASSUME NEW d \in Directories
    PROVE  /\ Stage(d, Select(d)) /\ Select(d).dir.panel = d.panel /\ Select(d).dir.jobs = d.jobs
           /\ describe(Select(d).refusal) # "boot-state-unclassified"
<1>0. d.access \in Accesses /\ d.writes \in {"durable", "unsure", "fail"}
  BY DEF Directories
<1>1. ASSUME NEW e \in Directories, NEW f, Saves(d, e), e.panel = d.panel, e.jobs = d.jobs, Select(d) = Result(e, f),
             f = NoRefusal \/ Told(e, describe(f)), describe(f) # "boot-state-unclassified"
      PROVE  /\ Stage(d, Select(d)) /\ Select(d).dir.panel = d.panel /\ Select(d).dir.jobs = d.jobs
             /\ describe(Select(d).refusal) # "boot-state-unclassified"
  BY <1>1 DEF Stage, Says, Result
<1>2. describe(NoRefusal) = "started"
  BY DEF describe, NoRefusal, Refusal
<1>3. CASE d.access \in {"absent", "read", "full"} /\ ~Above(d)
  <2>1. Select(d) = Result(d, NoRefusal)
    BY <1>3 DEF Select, Above
  <2> QED
    BY <1>1, <1>2, <2>1, SavesNothing
<1>4. CASE d.access \in {"unopenable", "foreign", "mismatch", "odd", "other"}
  <2>1. PICK detail : Select(d) = Result(d, accessError(detail))
    BY <1>4 DEF Select, Above
  <2>2. describe(accessError(detail)) \in AccessReports
    BY DEF describe, describeAccess, accessError, Refusal, AccessReports
  <2>3. \A l \in AccessReports : Told(d, l) /\ l # "boot-state-unclassified"
    BY <1>4 DEF Told, AccessReports, MarkerReports
  <2> QED
    BY <1>1, <2>1, <2>2, <2>3, SavesNothing
<1>5. CASE Above(d)
  <2> DEFINE next == [d EXCEPT !.access = "read"]
  <2>0. d.access = "full"
    BY <1>5 DEF Above
  <2>1. next \in Directories /\ Saves(d, next) /\ next.panel = d.panel /\ next.jobs = d.jobs
    BY <2>0 DEF Directories, Saves, Accesses
  <2>2. CASE d.writes = "fail"
    <3> DEFINE f == Refusal("QM_DOCKER_ACCESS_INVALID", "write", "EACCES")
    <3>1. Select(d) = Result(d, f)
      BY <1>5, <2>0, <2>2 DEF Select
    <3>2. describe(f) = "boot-docker-access-write-failed"
      BY DEF describe, describeAccess, Refusal
    <3>3. Told(d, describe(f)) /\ describe(f) # "boot-state-unclassified"
      BY <2>2, <3>2 DEF Told, AccessReports, MarkerReports
    <3> HIDE DEF f
    <3> QED
      BY <1>1, <3>1, <3>3, SavesNothing
  <2>3. CASE d.writes = "unsure"
    <3> DEFINE f == Refusal("QM_DOCKER_ACCESS_DURABILITY_UNCERTAIN", "none", "none")
    <3>1. Select(d) = Result(next, f)
      BY <1>5, <2>0, <2>3 DEF Select
    <3>2. describe(f) = "boot-unexpected"
      BY DEF describe, Refusal
    <3>3. Told(next, describe(f)) /\ describe(f) # "boot-state-unclassified"
      BY <3>2 DEF Told, AccessReports, MarkerReports
    <3> HIDE DEF f, next
    <3> QED
      BY <1>1, <2>1, <3>1, <3>3
  <2>4. CASE d.writes = "durable"
    <3>1. Select(d) = Result(next, NoRefusal)
      BY <1>5, <2>0, <2>4 DEF Select
    <3> HIDE DEF next
    <3> QED
      BY <1>1, <1>2, <2>1, <3>1
  <2> QED
    BY <1>0, <2>2, <2>3, <2>4
<1> QED
  BY <1>0, <1>3, <1>4, <1>5 DEF Accesses

LEMMA ListenSays ==
    ASSUME NEW d \in Directories
    PROVE  /\ Listen(d).dir = d /\ Told(d, describe(Listen(d).refusal))
           /\ describe(Listen(d).refusal) # "boot-state-unclassified"
<1>0. d.port \in {"free", "taken", "denied"}
  BY DEF Directories
<1>1. CASE d.port = "free"
  <2>1. Listen(d).refusal = NoRefusal /\ Listen(d).dir = d
    BY <1>1 DEF Listen, Result
  <2>2. describe(NoRefusal) = "started"
    BY DEF describe, NoRefusal, Refusal
  <2> QED
    BY <2>1, <2>2 DEF Told, AccessReports, MarkerReports
<1>2. CASE d.port = "taken"
  <2> DEFINE f == Refusal("EADDRINUSE", "listen", "none")
  <2>1. Listen(d).refusal = f /\ Listen(d).dir = d
    BY <1>2 DEF Listen, Result
  <2>2. describe(f) = "boot-port-in-use"
    BY DEF describe, Refusal
  <2> QED
    BY <1>2, <2>1, <2>2 DEF Told, AccessReports, MarkerReports
<1>3. CASE d.port = "denied"
  <2> DEFINE f == Refusal("EACCES", "listen", "none")
  <2>1. Listen(d).refusal = f /\ Listen(d).dir = d
    BY <1>3 DEF Listen, Result
  <2>2. describe(f) = "boot-port-denied"
    BY DEF describe, Refusal
  <2> QED
    BY <1>3, <2>1, <2>2 DEF Told, AccessReports, MarkerReports
<1> QED
  BY <1>0, <1>1, <1>2, <1>3

(* The jobs are looked at when the panel is loaded. *)
LEMMA SuspendSays ==
    ASSUME NEW d \in Directories, d.panel = "good"
    PROVE  Stage(d, Suspend(d)) /\ Suspend(d).dir.panel = "good"
<1>1. CASE d.jobs = "odd"
  <2>1. Suspend(d) = Result(d, stateError("cron state could not be decrypted"))
    BY <1>1 DEF Suspend
  <2>2. \A f : Result(d, f).dir = d
    BY DEF Result
  <2> QED
    BY <1>1, <2>1, <2>2, StateReports
<1>2. CASE d.jobs \in {"unsaved", "on"} /\ Suspend(d) = commit(d, [d EXCEPT !.jobs = "off"])
  <2> DEFINE next == [d EXCEPT !.jobs = "off"]
  <2>1. next \in Directories /\ Saves(d, next) /\ next.panel = "good" /\ next.jobs = "off"
    BY DEF Directories, Saves, Jobs
  <2>2. commit(d, next).dir \in {d, next}
    BY DEF commit, Result, Directories
  <2> HIDE DEF next
  <2> QED
    BY <1>2, <2>1, <2>2, CommitSays DEF next
<1>3. CASE Suspend(d) = Result(d, NoRefusal)
  BY <1>3, Outcome, SavesNothing DEF Result
<1>4. d.jobs = "odd" \/ (d.jobs \in {"unsaved", "on"} /\ Suspend(d) = commit(d, [d EXCEPT !.jobs = "off"]))
      \/ Suspend(d) = Result(d, NoRefusal)
  BY DEF Suspend, Directories, Jobs
<1> QED
  BY <1>1, <1>2, <1>3, <1>4

LEMMA SavesTwice ==
    ASSUME NEW d \in Directories, NEW e, NEW f, Saves(d, e), Saves(e, f), f.panel = e.panel
    PROVE  Saves(d, f)
BY DEF Saves

(* A panel is good when it has been loaded. *)
LEMMA LoadedIsGood == ASSUME NEW d \in Directories, load(d).refusal = NoRefusal PROVE load(d).dir.panel = "good"
<1>1. \A next : next.panel = "good" /\ commit(d, next).refusal = NoRefusal => commit(d, next).dir.panel = "good"
  <2>1. d.writes \in {"durable", "unsure", "fail"}
    BY DEF Directories
  <2> QED
    BY <2>1 DEF commit, Result, Refusal, NoRefusal
<1>2. \A x : Result(d, stateError(x)).refusal # NoRefusal
  BY DEF Result, stateError, Refusal, NoRefusal
<1>3. d.panel \in Panels
  BY DEF Directories
<1>4. CASE d.panel \in {"v1", "v1extra", "v1odd"}
  <2>1. load(d) = Migrate(d)
    BY <1>4 DEF load
  <2>2. Migrate(d).refusal = NoRefusal => Migrate(d).dir.panel = "good"
    <3> DEFINE next == [d EXCEPT !.panel = "good", !.marker = IF d.writes = "durable" THEN "good" ELSE @]
    <3>1. next.panel = "good"
      BY DEF Directories
    <3>2. \/ \E x : Migrate(d) = Result(d, stateError(x))
          \/ Migrate(d) = Result(d, migrationWasConsumed(d)) /\ migrationWasConsumed(d) # NoRefusal
          \/ Migrate(d) = commit(d, next)
      BY <1>4 DEF Migrate
    <3> HIDE DEF next
    <3>3. Result(d, migrationWasConsumed(d)).refusal = migrationWasConsumed(d)
      BY DEF Result
    <3> QED
      BY <1>1, <1>2, <3>1, <3>2, <3>3
  <2> QED
    BY <2>1, <2>2
<1>5. CASE d.panel \in {"unopenable", "foreign", "mismatch", "odd"}
  BY <1>2, <1>5 DEF load
<1>6. CASE d.panel = "good"
  BY <1>6 DEF load, Result
<1>7. CASE d.panel = "absent"
  <2> DEFINE next == [d EXCEPT !.panel = "good", !.jobs = "unsaved",
                              !.access = IF @ \in {"read", "full"} THEN "other" ELSE @]
  <2>1. load(d) = commit(d, next) /\ next.panel = "good"
    BY <1>7 DEF load, Directories
  <2> HIDE DEF next
  <2> QED
    BY <1>1, <2>1
<1>8. CASE d.panel = "cron"
  <2> DEFINE next == [d EXCEPT !.panel = "good"]
  <2>1. load(d) = commit(d, next) /\ next.panel = "good"
    BY <1>8 DEF load, Directories
  <2> HIDE DEF next
  <2> QED
    BY <1>1, <2>1
<1> QED
  BY <1>3, <1>4, <1>5, <1>6, <1>7, <1>8 DEF Panels

(* What a stage adds to what was saved before it. *)
LEMMA NextStage ==
    ASSUME NEW d \in Directories, NEW r, NEW q, Saves(d, r.dir), r.dir.panel = "good",
           Stage(r.dir, q), q.dir.panel = "good",
           r.dir.jobs \in {d.jobs, "off"} \/ d.panel # "good"
    PROVE  Saves(d, q.dir) /\ (q.refusal = NoRefusal \/ Says(d, q.dir, describe(q.refusal)))
<1>1. Saves(d, q.dir)
  BY SavesTwice DEF Stage
<1>2. ASSUME q.refusal # NoRefusal PROVE Says(d, q.dir, describe(q.refusal))
  BY <1>2 DEF Stage, Says
<1> QED
  BY <1>1, <1>2

(* What a start saves, and what it says of what it has left. *)
LEMMA BootsSays ==
    ASSUME NEW d \in Directories
    PROVE  Saves(d, Boots(d).dir) /\ Says(d, Boots(d).dir, describe(Boots(d).refusal))
<1> DEFINE r1 == load(d)
           r2 == Select(r1.dir)
           r3 == Suspend(r2.dir)
           r4 == Listen(r3.dir)
<1>1. Stage(d, r1) /\ r1.dir \in Directories
  BY LoadSays DEF Saves, Stage
<1>2. CASE r1.refusal # NoRefusal
  <2>1. Boots(d) = r1
    BY <1>2 DEF Boots, Then
  <2> QED
    BY <1>1, <1>2, <2>1 DEF Stage
<1>3. CASE r1.refusal = NoRefusal
  <2>1. r1.dir.panel = "good" /\ Saves(d, r1.dir)
    BY <1>1, <1>3, LoadedIsGood DEF Stage
  <2>2. r1.dir.jobs \in {d.jobs, "off"} \/ d.panel # "good"
    BY <2>1 DEF Saves
  <2>3. /\ Stage(r1.dir, r2) /\ r2.dir.panel = "good" /\ r2.dir.jobs = r1.dir.jobs
        /\ describe(r2.refusal) # "boot-state-unclassified"
    BY <1>1, <2>1, SelectSays
  <2>4. /\ Saves(d, r2.dir) /\ r2.dir \in Directories
        /\ r2.refusal = NoRefusal \/ Says(d, r2.dir, describe(r2.refusal))
    BY <2>1, <2>2, <2>3, NextStage DEF Saves
  <2>5. Stage(r2.dir, r3) /\ r3.dir.panel = "good"
    BY <2>3, <2>4, SuspendSays
  <2>6. /\ Saves(d, r3.dir) /\ r3.dir \in Directories
        /\ r3.refusal = NoRefusal \/ Says(d, r3.dir, describe(r3.refusal))
    BY <2>2, <2>3, <2>4, <2>5, NextStage DEF Saves
  <2>7. /\ r4.dir = r3.dir /\ Told(r3.dir, describe(r4.refusal))
        /\ describe(r4.refusal) # "boot-state-unclassified"
    BY <2>6, ListenSays
  <2>8. CASE r2.refusal # NoRefusal
    <3>1. Boots(d) = r2
      BY <1>3, <2>8 DEF Boots, Then
    <3> QED
      BY <2>4, <2>8, <3>1
  <2>9. CASE r2.refusal = NoRefusal /\ r3.refusal # NoRefusal
    <3>1. Boots(d) = r3
      BY <1>3, <2>9 DEF Boots, Then
    <3> QED
      BY <2>6, <2>9, <3>1
  <2>10. CASE r2.refusal = NoRefusal /\ r3.refusal = NoRefusal
    <3>1. Boots(d) = r4
      BY <1>3, <2>10 DEF Boots, Then
    <3> QED
      BY <2>6, <2>7, <3>1 DEF Says
  <2> QED
    BY <2>8, <2>9, <2>10
<1> QED
  BY <1>2, <1>3

(* What was mended stays so when a start saves. *)
LEMMA StartStays == ASSUME StartInv, Start PROVE StartInv'
<1>1. Saves(dir, dir') /\ Says(dir, dir', label') /\ UNCHANGED <<followed, again>>
  BY BootsSays DEF Start, StartInv
<1>2. Mended(dir', followed)
  <2>1. Mended(dir, followed)
    BY DEF StartInv
  <2>2. /\ dir'.migrate = dir.migrate /\ dir'.writes = dir.writes /\ dir'.port = dir.port
        /\ dir'.panel = dir.panel \/ (dir'.panel = "good" /\ dir.panel \in {"absent", "cron", "v1"})
        /\ dir'.jobs = dir.jobs \/ dir'.jobs = "off" \/ dir.panel = "absent"
        /\ dir'.marker = dir.marker \/ dir'.panel = "good"
        /\ dir.access = "absent" => dir'.access = "absent"
    BY <1>1 DEF Saves
  <2> QED
    BY <2>1, <2>2 DEF Mended
<1>3. label' \notin followed \ {"boot-unexpected", "boot-state-unclassified"}
  <2> DEFINE l == describe(Boots(dir).refusal)
  <2>0. l = label'
    BY DEF Start
  <2> HIDE DEF l
  <2> SUFFICES ASSUME l \in followed, l # "boot-unexpected", l # "boot-state-unclassified" PROVE FALSE
    BY <2>0
  <2>1. Told(dir', l) /\ Mended(dir', followed)
    BY <1>1, <1>2, <2>0 DEF Says
  <2>2. CASE l \in MarkerReports
    BY <2>1, <2>2 DEF Told, Mended
  <2>3. CASE l \in AccessReports
    BY <2>1, <2>3 DEF Told, Mended
  <2>4. CASE l \in {"boot-port-in-use", "boot-port-denied", "boot-docker-access-write-failed"}
    BY <2>1, <2>4 DEF Told, Mended
  <2>5. CASE l \in {"boot-state-unreadable", "boot-state-key-mismatch", "boot-state-not-companion"}
    BY <2>1, <2>5 DEF Told, Mended
  <2>6. CASE l \in {"boot-state-contents", "boot-state-v1-refused", "boot-state-migration-v1"}
    BY <2>1, <2>6 DEF Told, Mended
  <2>8. CASE l \in {"none", "started"}
    BY <2>8 DEF StartInv
  <2>9. l \in MarkerReports \cup AccessReports \cup
          {"boot-port-in-use", "boot-port-denied", "boot-docker-access-write-failed",
           "boot-state-unreadable", "boot-state-key-mismatch", "boot-state-not-companion",
           "boot-state-contents", "boot-state-v1-refused", "boot-state-migration-v1",
           "boot-state-unclassified", "none", "started", "boot-unexpected"}
    BY DEF l, describe, describeState, stateBucket, describeAccess, MarkerReports, AccessReports
  <2> QED
    BY <2>2, <2>3, <2>4, <2>5, <2>6, <2>8, <2>9
<1>4. "boot-state-unclassified" \in again => dir'.panel = "good" /\ dir'.jobs = "off"
  BY <1>1 DEF StartInv, Saves
<1>5. label' = "boot-state-unclassified" => label' \notin again /\ (label' \in followed => dir'.jobs = "off")
  BY <1>1 DEF StartInv, Says, Mended
<1> QED
  BY <1>1, <1>2, <1>3, <1>4, <1>5 DEF StartInv, Saves, Says

(* The advice mends what the report was about, and nothing that was mended
   before is changed by it. *)
LEMMA AdviceMends ==
    ASSUME NEW d \in Directories, NEW ls, NEW l, NEW e \in Advised(d, l),
           Told(d, l), Mended(d, ls), l \notin {"none", "started"}
    PROVE  e \in Directories /\ Mended(e, ls \cup {l})
<1>0. /\ "absent" \in Panels /\ "good" \in Panels /\ "v1" \in Panels
      /\ "absent" \in Markers /\ "absent" \in Accesses
  BY DEF Panels, Markers, Accesses
<1>1. CASE l \in {"boot-state-key-mismatch", "boot-state-not-companion"}
  <2>1. e = [d EXCEPT !.panel = "absent"]
    BY <1>1 DEF Advised
  <2> QED
    BY <1>0, <1>1, <2>1 DEF Directories, Told, Mended, MarkerReports, AccessReports
<1>2. CASE l = "boot-state-unreadable"
  <2>1. PICK p \in Panels \ {"absent", "unopenable"} : e = [d EXCEPT !.panel = p]
    BY <1>2 DEF Advised
  <2> QED
    BY <1>2, <2>1 DEF Directories, Told, Mended, MarkerReports, AccessReports
<1>3. CASE l = "boot-state-contents"
  <2>1. PICK j \in Jobs \ {"odd"} : e = [d EXCEPT !.panel = "good", !.jobs = j]
    BY <1>3 DEF Advised
  <2> QED
    BY <1>0, <1>3, <2>1 DEF Directories, Told, Mended, MarkerReports, AccessReports
<1>4. CASE l = "boot-state-v1-refused"
  <2>1. PICK p \in {"v1", "good"} : e = [d EXCEPT !.panel = p]
    BY <1>4 DEF Advised
  <2> QED
    BY <1>0, <1>4, <2>1 DEF Directories, Told, Mended, MarkerReports, AccessReports
<1>5. CASE l = "boot-state-migration-v1"
  <2>1. e = [d EXCEPT !.migrate = TRUE]
    BY <1>5 DEF Advised
  <2> QED
    BY <1>5, <2>1 DEF Directories, Told, Mended, MarkerReports, AccessReports
<1>6. CASE l \in MarkerReports
  <2>1. e = [d EXCEPT !.marker = "absent", !.migrate = TRUE]
    BY <1>6 DEF Advised, MarkerReports
  <2> QED
    BY <1>0, <1>6, <2>1 DEF Directories, Told, Mended, MarkerReports, AccessReports
<1>7. CASE l \in AccessReports
  <2>1. e = [d EXCEPT !.access = "absent"]
    BY <1>7 DEF Advised, AccessReports
  <2> QED
    BY <1>0, <1>7, <2>1 DEF Directories, Told, Mended, MarkerReports, AccessReports
<1>8. CASE l = "boot-docker-access-write-failed"
  <2>1. e = [d EXCEPT !.writes = "durable"]
    BY <1>8 DEF Advised
  <2> QED
    BY <1>8, <2>1 DEF Directories, Told, Mended, MarkerReports, AccessReports
<1>9. CASE l \in {"boot-port-in-use", "boot-port-denied"}
  <2>1. e = [d EXCEPT !.port = "free"]
    BY <1>9 DEF Advised
  <2> QED
    BY <1>9, <2>1 DEF Directories, Told, Mended, MarkerReports, AccessReports
<1>10. CASE l \notin {"boot-state-key-mismatch", "boot-state-not-companion", "boot-state-unreadable",
                      "boot-state-contents", "boot-state-v1-refused", "boot-state-migration-v1",
                      "boot-docker-access-write-failed", "boot-port-in-use", "boot-port-denied"}
                     \cup MarkerReports \cup AccessReports
  <2>1. e = d
    BY <1>10 DEF Advised, MarkerReports, AccessReports
  <2> QED
    BY <1>10, <2>1 DEF Told, Mended, MarkerReports, AccessReports
<1> QED
  BY <1>1, <1>2, <1>3, <1>4, <1>5, <1>6, <1>7, <1>8, <1>9, <1>10

LEMMA AdviceStays == ASSUME StartInv, FollowAdvice PROVE StartInv'
<1>1. dir' \in Directories /\ Mended(dir', followed \cup {label})
  BY AdviceMends DEF StartInv, FollowAdvice
<1>2. label' = "none" /\ followed' = followed \cup {label} /\ label \notin {"none", "started"}
  BY DEF FollowAdvice
<1>3. Told(dir', "none")
  BY DEF Told, MarkerReports, AccessReports
<1>4. "boot-state-unclassified" \in again' => dir'.panel = "good" /\ dir'.jobs = "off"
  <2>1. "boot-state-unclassified" \in again =>
          dir.panel = "good" /\ dir.jobs = "off" /\ Told(dir, label)
    BY DEF StartInv
  <2>2. label = "boot-state-unclassified" =>
          dir' = dir /\ dir.panel = "good" /\ (label \in followed => dir.jobs = "off")
    BY DEF StartInv, FollowAdvice, Advised, Told
  <2>3. dir' = dir \/ Advised(dir, label) # {dir}
    BY DEF FollowAdvice
  <2>4. label # "boot-state-unclassified" /\ dir.panel = "good" /\ dir.jobs = "off" /\ Told(dir, label) =>
          dir'.panel = "good" /\ dir'.jobs = "off"
    <3> SUFFICES ASSUME dir.panel = "good", dir.jobs = "off", Told(dir, label)
                 PROVE  dir'.panel = "good" /\ dir'.jobs = "off"
      OBVIOUS
    <3>1. label \notin {"boot-state-key-mismatch", "boot-state-not-companion", "boot-state-unreadable",
                        "boot-state-contents", "boot-state-v1-refused"}
      BY DEF Told
    <3>2. dir \in Directories
      BY DEF StartInv
    <3> QED
      BY <3>1, <3>2 DEF FollowAdvice, Advised, Directories
  <2>5. again' = again \cup ({label} \cap followed)
    BY DEF FollowAdvice
  <2> QED
    BY <2>1, <2>2, <2>4, <2>5
<1> QED
  BY <1>1, <1>2, <1>3, <1>4 DEF StartInv

LEMMA SupervisorStays ==
    StartInv /\ [AllInOneNext]_<<bootVars, allInOneVars>> => StartInv'
<1> SUFFICES ASSUME StartInv, [AllInOneNext]_<<bootVars, allInOneVars>> PROVE StartInv'
  OBVIOUS
<1>1. CASE UNCHANGED bootVars
  BY <1>1 DEF bootVars, StartInv
<1>2. ASSUME NEW c \in Children, ComesUp(c) PROVE StartInv'
  BY <1>1, <1>2, StartStays DEF ComesUp
<1>3. ASSUME NEW advised \in BOOLEAN, StartAgain(advised) PROVE StartInv'
  <2>1. CASE FollowAdvice
    BY <2>1, AdviceStays
  <2>2. CASE label' = "none" /\ UNCHANGED <<dir, followed, again>>
    <3>1. Told(dir, "none")
      BY DEF Told, MarkerReports, AccessReports
    <3> QED
      BY <2>2, <3>1 DEF StartInv
  <2> QED
    BY <1>3, <2>1, <2>2 DEF StartAgain
<1>4. ASSUME NEW socket, NEW raw, Main(socket, raw) PROVE StartInv'
  <2>1. CASE UNCHANGED dir
    BY <1>1, <1>4, <2>1 DEF Main, bootVars
  <2>2. CASE dir' = [dir EXCEPT !.ceiling = IF accessPlan(raw).POST THEN "full" ELSE "read"]
    <3>1. dir' \in Directories
      BY <2>2 DEF StartInv, Directories
    <3>2. /\ dir'.panel = dir.panel /\ dir'.jobs = dir.jobs /\ dir'.marker = dir.marker
          /\ dir'.access = dir.access /\ dir'.migrate = dir.migrate /\ dir'.writes = dir.writes
          /\ dir'.port = dir.port
      BY <2>2 DEF StartInv, Directories
    <3>3. Told(dir', label) /\ Mended(dir', followed)
      BY <3>2 DEF StartInv, Told, Mended
    <3> QED
      BY <1>4, <3>1, <3>2, <3>3 DEF StartInv, Main
  <2> QED
    BY <1>4, <2>1, <2>2 DEF Main
<1> QED
  BY <1>1, <1>2, <1>3, <1>4 DEF AllInOneNext, Waited, Ends, Handle, Sigterm

LEMMA InitStart == AllInOneInit => StartInv
BY DEF AllInOneInit, BootInit, StartInv, Told, Mended, MarkerReports, AccessReports

(* boot-guard.js, the loaders and the jobs of the panel: whatever is wrong with
   the data directory, and whatever DOCKER_ACCESS_MAX is set to meanwhile, the
   advice of a report is not followed by the same report again, in whatever order
   the causes show up and however often the container is restarted; that of an
   unconfirmed save comes back once, and that of an unexpected error may. *)
THEOREM AdviceHelps == AllInOneSpec => []NeverToldTwice
<1>1. StartInv => NeverToldTwice
  BY DEF StartInv, NeverToldTwice
<1> QED
  BY <1>1, InitStart, SupervisorStays, PTL DEF AllInOneSpec

LEMMA PassesIsClosed ==
    ASSUME NEW s \in Sockets, s.isSocket, socketProblem(s) # "open to companion"
    PROVE  ~MayConnect(s)
<1>1. s.exists
  <2>1. CASE s = Missing
    BY <2>1 DEF Missing
  <2>2. CASE s # Missing
    <3>1. s.exists \in {TRUE}
      BY <2>2, Zenon DEF Sockets
    <3> QED
      BY <3>1
  <2> QED
    BY <2>1, <2>2
<1>2. ~(\/ "other" \in s.write
        \/ s.uid = APP_UID /\ "owner" \in s.write
        \/ s.gid = APP_GID /\ "group" \in s.write)
  BY <1>1 DEF socketProblem
<1> QED
  BY <1>2 DEF MayConnect

(* start.js and plan.js: Companion is never started beside a socket that the
   node user may connect to, whatever the owner, group and permissions of the
   sockets that the starts of the container find. *)
THEOREM NoSocketIsOpen == AllInOneSpec => []NoWayAround
<1>1. AllInOneInit => ~wayAround
  BY DEF AllInOneInit
<1>2. ~wayAround /\ [AllInOneNext]_<<bootVars, allInOneVars>> => ~wayAround'
  <2> SUFFICES ASSUME ~wayAround, [AllInOneNext]_<<bootVars, allInOneVars>> PROVE ~wayAround'
    OBVIOUS
  <2>1. CASE UNCHANGED wayAround
    BY <2>1
  <2>2. ASSUME NEW setting \in Settings, Main(setting[1], setting[2]) PROVE ~wayAround'
    <3>1. CASE /\ socketProblem(setting[1]) # "open to companion"
               /\ wayAround' = (setting[1].isSocket /\ MayConnect(setting[1]))
      BY <3>1, MountedSockets, PassesIsClosed
    <3> QED
      BY <2>1, <2>2, <3>1 DEF Main
  <2>3. ASSUME NEW advised \in BOOLEAN, StartAgain(advised) PROVE ~wayAround'
    BY <2>3 DEF StartAgain
  <2> QED
    BY <2>1, <2>2, <2>3 DEF AllInOneNext, allInOneVars, Waited, ComesUp, Ends, Handle, Sigterm
<1>3. ~wayAround => NoWayAround
  BY DEF NoWayAround
<1> QED
  BY <1>1, <1>2, <1>3, PTL DEF AllInOneSpec
-----------------------------------------------------------------------------
(* The repair command *)

(* The forms of the two files that are loaded. *)
LEMMA FormOf ==
    ASSUME NEW f \in PanelFiles \cup MobileFiles
    PROVE  /\ f.form = "absent" <=> f = AbsentFile
           /\ f \in PanelFiles => f.form \in {"good", "odd", "oddJobs", "cron", "absent", "broken", "v1"}
<1>1. f = AbsentFile \/ (f.form # "absent" /\ f # AbsentFile)
  <2>1. CASE \E form \in {"good", "odd", "oddJobs", "cron", "foreign", "older", "resetPending", "broken", "v1"}, torn \in BOOLEAN :
                f = [form |-> form, torn |-> torn]
    BY <2>1 DEF File, AbsentFile
  <2> QED
    BY <2>1 DEF PanelFiles, MobileFiles, Sealed, File, AbsentFile
<1>2. AbsentFile.form = "absent"
  BY DEF AbsentFile, File
<1>3. f \in PanelFiles => f.form \in {"good", "odd", "oddJobs", "cron", "absent", "broken", "v1"}
  BY DEF PanelFiles, Sealed, File, AbsentFile
<1> QED
  BY <1>1, <1>2, <1>3

LEMMA Directory ==
    ASSUME NEW v \in States
    PROVE  /\ v.panel.form = "absent" <=> v.panel = AbsentFile
           /\ v.mobile.form = "absent" <=> v.mobile = AbsentFile
           /\ v.panel.form \in {"good", "odd", "oddJobs", "cron", "absent", "broken", "v1"}
<1>1. v.panel \in PanelFiles /\ v.mobile \in MobileFiles
  BY DEF States
<1> QED
  BY <1>1, FormOf

(* Under a wrong key nothing is taken for whole, and what the right key does not
   open is torn. *)
LEMMA Verdicts ==
    ASSUME NEW v \in States
    PROVE  /\ \A f \in DOMAIN Ledger(v) : Ledger(v)[f] = "healthy" => v.rightKey
           /\ v.rightKey => FilesWith(v, "auth") \subseteq
                               {i \in {"panel", "access", "marker", "mobile"} : v[i].torn}
<1>1. \A f : /\ SealVerdict(v, f) = "healthy" => v.rightKey
             /\ SealVerdict(v, f) = "auth" /\ v.rightKey => f.torn
  BY DEF SealVerdict, Authentic
<1>2. /\ PanelVerdict(v) = "healthy" => v.rightKey
      /\ PanelVerdict(v) = "auth" /\ v.rightKey => v.panel.torn
  BY DEF PanelVerdict, Authentic
<1>3. /\ MobileVerdict(v) = "healthy" => v.rightKey
      /\ MobileVerdict(v) = "auth" /\ v.rightKey => v.mobile.torn
  BY DEF MobileVerdict, MobileReason, Authentic
<1>4. /\ DOMAIN Ledger(v) = {"panel", "access", "marker", "mobile"}
      /\ Ledger(v)["panel"] = PanelVerdict(v) /\ Ledger(v)["access"] = SealVerdict(v, v.access)
      /\ Ledger(v)["marker"] = SealVerdict(v, v.marker) /\ Ledger(v)["mobile"] = MobileVerdict(v)
  BY DEF Ledger
<1>5. v["panel"] = v.panel /\ v["access"] = v.access /\ v["marker"] = v.marker /\ v["mobile"] = v.mobile
  OBVIOUS
<1> QED
  BY <1>1, <1>2, <1>3, <1>4, <1>5 DEF FilesWith

LEMMA DiagnosesFit == \A v \in States : DiagnosisFits(v)
<1> SUFFICES ASSUME NEW v \in States PROVE DiagnosisFits(v)
  OBVIOUS
<1> DEFINE torn == {i \in {"panel", "access", "marker", "mobile"} : v[i].torn}
<1>1. ~v.rightKey => "A03" \notin Diagnosis(v)
  <2>1. ~v.rightKey => FilesWith(v, "healthy") = {}
    BY Verdicts DEF FilesWith
  <2> QED
    BY <2>1 DEF Diagnosis
<1>2. v.rightKey /\ Cardinality(torn) <= 1 => "A01" \notin Diagnosis(v)
  <2>1. SUFFICES ASSUME v.rightKey, Cardinality(torn) <= 1 PROVE ~(Cardinality(FilesWith(v, "auth")) > 1)
    BY DEF Diagnosis
  <2>2. FilesWith(v, "auth") \subseteq torn
    BY <2>1, Verdicts
  <2>3. IsFiniteSet({"panel", "access", "marker", "mobile"})
    <3>1. /\ {"panel"} = {} \cup {"panel"} /\ {"panel", "access"} = {"panel"} \cup {"access"}
          /\ {"panel", "access", "marker"} = {"panel", "access"} \cup {"marker"}
          /\ {"panel", "access", "marker", "mobile"} = {"panel", "access", "marker"} \cup {"mobile"}
      OBVIOUS
    <3>2. IsFiniteSet({"panel"})
      BY <3>1, FS_EmptySet, FS_AddElement
    <3>3. IsFiniteSet({"panel", "access"})
      BY <3>1, <3>2, FS_AddElement
    <3>4. IsFiniteSet({"panel", "access", "marker"})
      BY <3>1, <3>3, FS_AddElement
    <3> QED
      BY <3>1, <3>4, FS_AddElement
  <2>4. IsFiniteSet(torn)
    BY <2>3, FS_Subset
  <2>5. Cardinality(FilesWith(v, "auth")) <= Cardinality(torn) /\ Cardinality(torn) \in Nat
        /\ Cardinality(FilesWith(v, "auth")) \in Nat
    BY <2>2, <2>4, FS_Subset, FS_CardinalityType
  <2> QED
    BY <2>1, <2>5
<1> QED
  BY <1>1, <1>2 DEF DiagnosisFits

LEMMA FilesLeftAlone == \A v \in States : LeavesFilesAlone(v)
<1> SUFFICES ASSUME NEW v \in States, PanelRewritten(v) PROVE ~PanelOpened(v) /\ ~MobileOpened(v)
  BY DEF LeavesFilesAlone, Written
<1>1. v.panel = AbsentFile \/ v.panel.form = "v1" \/ (v.panel.form = "cron" /\ Authentic(v, v.panel))
  BY Directory DEF PanelRewritten, PanelLoads
<1> QED
  BY <1>1 DEF PanelOpened, MobileOpened, isLegacyV1, PanelHeld

(* Exit code 0, for every directory with every certificate material and every
   configuration: what is not looked into aside, the next start listens.  That
   the seal of the access sidecar does not fit is found in the comparison, for
   the panel's seal does. *)
LEMMA ZeroIsReady ==
    \A v \in States, t \in Material, c \in Configs : ZeroMeansReady(v, t, c)
<1> SUFFICES ASSUME NEW v \in States, NEW t \in Material, NEW c \in Configs,
                    ExitCode(v, t, c) = 0, ~Unexamined(v, c)
             PROVE  Listens(v, t, c)
  BY DEF ZeroMeansReady
<1> DEFINE plan == c.plan
<1>0. plan \in BOOLEAN /\ c.binding = "fits" /\ c.clone = "unset"
  BY DEF Configs, Unexamined
<1>1. StateFails(v) = {} /\ TlsFails(t, plan) = {} /\ plan /\ ~Unprovisioned(v, t)
  BY <1>0 DEF ExitCode
<1>2. /\ PanelFails(v) = {} /\ MobileFails(v) = {} /\ SealFails(v, v.access, "S06") = {} /\ Diagnosis(v) = {}
      /\ v.panel # AbsentFile /\ v.mobile # AbsentFile
  BY <1>1 DEF StateFails, Unprovisioned
<1>3. v.panel.form # "v1" /\ ~PanelHeld(v)
  BY <1>2 DEF PanelFails, isLegacyV1
<1>4. v.panel.form = "good" /\ Authentic(v, v.panel) /\ PanelVerdict(v) = "healthy"
  <2>1. PanelVerdict(v) \notin {"auth", "broken"}
    BY <1>2, <1>3 DEF PanelFails, isLegacyV1
  <2>2. v.panel.form \in {"good", "odd", "oddJobs", "cron", "absent", "broken", "v1"} /\ v.panel.form \notin {"absent", "oddJobs"}
    BY <1>2, Directory DEF Unexamined, JobsOpen
  <2> QED
    BY <1>2, <1>3, <2>1, <2>2 DEF PanelVerdict, PanelHeld, isLegacyV1
<1>5. MobileReason(v) = "none"
  <2>1. PanelLoads(v)
    BY <1>4 DEF PanelLoads
  <2>2. MobileReason(v) # "QM_STATE_INVALID"
    BY <2>1, Directory DEF MobileReason
  <2>3. MobileOpened(v)
    BY <1>2, <1>3 DEF MobileOpened, isLegacyV1
  <2>4. MobileReason(v) \notin {"QM_STATE_INVALID", "authentication failed", "none"} => MobileVerdict(v) = "broken"
    BY <1>2, <2>3 DEF MobileVerdict
  <2> QED
    BY <1>2, <1>3, <2>2, <2>4 DEF MobileFails, isLegacyV1
<1>6. t.pending = "none" => Ensured(t)
  <2>1. ~t.locked /\ t.cert # "absent"
    BY <1>1 DEF TlsFails, Unprovisioned
  <2>2. t.cert \notin {"absent", "unreadable"} /\ KeyFails(t) = {} /\ LeafFails(t, plan) = {}
    BY <1>1, <2>1 DEF TlsFails
  <2>3. t.key \in {"absent", "unreadable", "other", "ours"} /\ t.cert \in {"absent", "unreadable", "generated", "owner"}
        /\ t.covers \in BOOLEAN
    BY DEF Material
  <2>4. t.key = "ours"
    BY <2>2, <2>3 DEF KeyFails
  <2>5. t.days # "expired" /\ t.covers
    BY <1>1, <2>2 DEF LeafFails
  <2> QED
    BY <2>2, <2>3, <2>4, <2>5 DEF Ensured
<1>7. AccessLoads(v)
  <2>1. SealVerdict(v, v.access) # "auth"
    <3>1. /\ "panel" \in DOMAIN Ledger(v) /\ Ledger(v)["panel"] = PanelVerdict(v)
          /\ "access" \in DOMAIN Ledger(v) /\ Ledger(v)["access"] = SealVerdict(v, v.access)
      BY DEF Ledger
    <3>2. FilesWith(v, "healthy") # {}
      BY <1>4, <3>1 DEF FilesWith
    <3>3. FilesWith(v, "healthy") # {} /\ FilesWith(v, "auth") \cup FilesWith(v, "broken") # {} => Diagnosis(v) # {}
      BY DEF Diagnosis
    <3> QED
      BY <1>2, <3>1, <3>2, <3>3 DEF FilesWith
  <2>2. SealVerdict(v, v.access) # "broken"
    BY <1>2 DEF SealFails
  <2>3. v.access.form \in {"good", "odd", "foreign", "absent", "broken"}
    <3>1. v.access \in AccessFiles
      BY DEF States
    <3> QED
      BY <3>1 DEF AccessFiles, Sealed, File, AbsentFile
  <2>4. v.access = AbsentFile \/ (v.access.form = "good" /\ Authentic(v, v.access))
    <3>1. CASE v.access # AbsentFile
      <4>1. v.access.form # "broken" /\ Authentic(v, v.access)
        BY <2>1, <2>2, <3>1 DEF SealVerdict
      <4>2. v.access.form # "absent"
        <5>1. v.access \in Sealed({"good", "odd", "foreign"}) \/ v.access = File("broken", TRUE)
          BY <3>1 DEF States, AccessFiles
        <5> QED
          BY <5>1 DEF Sealed, File
      <4> QED
        BY <2>3, <4>1, <4>2 DEF Unexamined
    <3> QED
      BY <3>1
  <2> QED
    BY <2>4 DEF AccessLoads
<1>8. JobsOpen(v)
  BY DEF Unexamined
<1> QED
  BY <1>0, <1>1, <1>4, <1>5, <1>6, <1>7, <1>8 DEF Listens, PanelLoads

(* repair.js, in any state of the files and the certificate material: for what
   it looks into, exit code 0 means that the next start loads the files and
   listens, the diagnosis leaves the files it looks at as they were, a wrong key
   is not called damage, nor one damaged file a wrong key. *)
THEOREM RepairAgrees == Spec => []RepairIsRight
<1>1. GoodState \in States /\ GoodMaterial \in Material /\ GoodConfig \in Configs
  <2>1. /\ File("good", FALSE) \in PanelFiles /\ File("good", FALSE) \in MobileFiles
        /\ File("good", FALSE) \in AccessFiles /\ AbsentFile \in MarkerFiles
    <3>1. ASSUME NEW forms, NEW form \in forms, NEW torn \in BOOLEAN PROVE File(form, torn) \in Sealed(forms)
      BY DEF Sealed
    <3>2. FALSE \in BOOLEAN
      OBVIOUS
    <3>3. ASSUME NEW forms, "good" \in forms PROVE File("good", FALSE) \in Sealed(forms)
      BY <3>1, <3>2, <3>3, Zenon
    <3> QED
      BY <3>3 DEF PanelFiles, MobileFiles, AccessFiles, MarkerFiles
  <2> QED
    BY <2>1 DEF GoodState, GoodMaterial, GoodConfig, States, Material, Configs
<1>2. RepairIsRight
  BY <1>1, DiagnosesFit, FilesLeftAlone, ZeroIsReady DEF RepairIsRight, FilesAreTold, ReadyIsReady
<1> QED
  BY <1>2, PTL
=============================================================================
