-------------------------- MODULE EnrolmentProofs --------------------------
(***************************************************************************)
(* The only devices are those of phones that the owner approved, and what  *)
(* a phone was told is still true after a restart, for any devices,        *)
(* phones, lifetimes and limits, and any failed and unconfirmed writes,    *)
(* restarts and power cuts.                                                *)
(*                                                                         *)
(* Neither property is inductive: both speak of the file on disk, and a    *)
(* power cut may put any older one back.  EnrolmentInv says what they say  *)
(* of every file of disk and limbo.  Of an enrolment the server still      *)
(* knows, RecordOk ties the record to the history: which claim it took,    *)
(* whether the owner approved it, and in which states it can be while its  *)
(* grant is sealed.  Settled says of the enrolment of a device that it can *)
(* no longer be rejected, so that the owner is not told so after a device  *)
(* exists.                                                                 *)
(*                                                                         *)
(* Of the other way a phone is paired: transfers, drafts and requests      *)
(* belong together, for any browsers, requests and limits.  FormsInOrder   *)
(* looks away while a request works on a form, and these are the steps     *)
(* that could break it; PairingInv says of every moment which transfers of *)
(* a form have been shown, and which request holds its draft.              *)
(***************************************************************************)
EXTENDS Enrolment, Pairing, TLAPS

(* The records of the two tables of a file, and of the server's memory. *)
Devices == [revokedReason : {"none", "owner"}, phone : Phones, createdAt : 0..MaxTime,
            expiresAt : Nat, ackUntil : Nat]
SpentKeys == [key : DeviceIds \cup OldKeys, expiresAt : Nat]
Sidecars == UNION {[devices : [D -> Devices], spent : SUBSET SpentKeys] : D \in SUBSET DeviceIds}

EnrolmentRecords == [state : Pending \cup Terminal \cup {"none", "acknowledged"},
                     expiresAt : Nat, claim : Phones \cup {NoPhone}, ackUntil : Nat]

(* What a restart may read. *)
Files == {disk} \cup limbo

(* A device of a file is the approved claimant's and was made in time. *)
Granted(e, dev) ==
    /\ e \in made /\ <<e, dev.phone>> \in approved
    /\ \E a \in claimed : a[1] = e /\ a[2] = dev.phone
    /\ dev.createdAt < dev.expiresAt

(* The owner was not told that e is rejected, and never will be. *)
Settled(e) == e \notin refused /\ (e \in registered => rec[e].state \in {"acknowledged", "consumed"})

Remembers(s, key, end) == [key |-> key, expiresAt |-> end] \in s.spent

FileOk(s) ==
    /\ \A e \in DOMAIN s.devices : Granted(e, s.devices[e])
    /\ \A a \in claimed : now >= a[3] + SpentSkew \/ Remembers(s, a[1], a[3])
    /\ \A e \in paired \ unsure : e \in LiveIn(s) \/ e \in forgotten

Final(s) == \A e \in DOMAIN s.devices \ unsure : Settled(e)

(* What the records of an enrolment that the server knows say of its history. *)
RecordOk(e, r) ==
    /\ r.state # "none"
    /\ \A a \in claimed : a[1] = e => a = <<e, r.claim, r.expiresAt>> /\ r.state # "created"
    /\ r.state \in {"awaiting_owner_approval", "approved", "grant_ready", "delivered"}
          => <<e, r.claim, r.expiresAt>> \in claimed
    /\ r.state \in {"approved", "grant_ready", "delivered"} => <<e, r.claim>> \in approved
    /\ e \in refused => r.state \in Terminal
    /\ e \in sealing => r.state \in {"approved", "expired", "rejected"}

(* The shapes. *)
RecordTyped(r) ==
    /\ r \in EnrolmentRecords
    /\ r.state \notin {"none", "created", "expired", "rejected", "cancelled"} => r.claim # NoPhone

BookTyped ==
    /\ now \in 0..MaxTime /\ faults \in 0..MaxFaults
    /\ registered \subseteq made /\ sealing \subseteq made /\ made \subseteq DeviceIds
    /\ refused \subseteq made /\ claimed \subseteq made \X Phones \X Nat
    /\ \A a, b \in claimed : a[1] = b[1] => a[2] = b[2]
    /\ cached \in {NoState, disk}

EnrolmentTyped ==
    /\ BookTyped
    /\ rec \in [DeviceIds -> EnrolmentRecords] /\ \A e \in DeviceIds : RecordTyped(rec[e])

EnrolmentInv ==
    /\ EnrolmentTyped
    /\ \A s \in Files : s \in Sidecars /\ FileOk(s) /\ Final(s)
    /\ \A e \in registered : RecordOk(e, rec[e])

-----------------------------------------------------------------------------
(* Records. *)

LEMMA SweepOk ==
    ASSUME NEW e, NEW r \in EnrolmentRecords
    PROVE  /\ RecordTyped(r) => RecordTyped(Swept(r))
           /\ RecordOk(e, r) => RecordOk(e, Swept(r))
           /\ Swept(r).state # r.state => Swept(r).state \in {"consumed", "expired"}
           /\ r.state = "consumed" => Swept(r) = r
           /\ Swept(r).claim = r.claim /\ Swept(r).expiresAt = r.expiresAt /\ Swept(r).ackUntil = r.ackUntil
           /\ Swept(r) \in EnrolmentRecords
<1>1. Swept(r) \in EnrolmentRecords
  BY DEF Swept, EnrolmentRecords, Terminal, Pending
<1>2. Swept(r).claim = r.claim /\ Swept(r).expiresAt = r.expiresAt /\ Swept(r).ackUntil = r.ackUntil
  BY DEF Swept, EnrolmentRecords
<1>3. \/ Swept(r) = r
      \/ r.state = "acknowledged" /\ Swept(r).state = "consumed"
      \/ r.state \in Pending /\ Swept(r).state = "expired"
  BY DEF Swept, EnrolmentRecords
<1>4. ASSUME RecordTyped(r) PROVE RecordTyped(Swept(r))
  BY <1>1, <1>2, <1>3, <1>4 DEF RecordTyped, Pending
<1>5. ASSUME RecordOk(e, r) PROVE RecordOk(e, Swept(r))
  BY <1>1, <1>2, <1>3, <1>5 DEF RecordOk, Pending, Terminal
<1> QED
  BY <1>1, <1>2, <1>3, <1>4, <1>5 DEF Pending

-----------------------------------------------------------------------------
(* Files. *)

LEMMA SidecarElim ==
    ASSUME NEW s \in Sidecars
    PROVE  /\ s = [devices |-> s.devices, spent |-> s.spent]
           /\ DOMAIN s.devices \subseteq DeviceIds
           /\ s.devices \in [DOMAIN s.devices -> Devices]
           /\ s.spent \subseteq SpentKeys
  BY DEF Sidecars

LEMMA SidecarIntro ==
    ASSUME NEW D \in SUBSET DeviceIds, NEW f \in [D -> Devices], NEW spent \in SUBSET SpentKeys
    PROVE  [devices |-> f, spent |-> spent] \in Sidecars
  BY DEF Sidecars

LEMMA SidecarIs == \A s \in Sidecars : IsSidecar(s)
<1> SUFFICES ASSUME NEW s \in Sidecars PROVE IsSidecar(s)
  OBVIOUS
<1>1. \A d \in DOMAIN s.devices : s.devices[d] \in Devices
  BY SidecarElim
<1> QED
  BY <1>1, SidecarElim DEF IsSidecar, Devices, SpentKeys

(* What may become of a file: the same devices and perhaps another one, and of
   the spent keys only those go whose time is over. *)
SameDevice(a, b) == a.phone = b.phone /\ a.createdAt = b.createdAt /\ a.expiresAt = b.expiresAt

Continues(s, next) ==
    /\ DOMAIN s.devices \subseteq DOMAIN next.devices
    /\ \A d \in DOMAIN s.devices : SameDevice(next.devices[d], s.devices[d])
    /\ \A entry \in s.spent : now >= entry.expiresAt + SpentSkew \/ entry \in next.spent

LEMMA ContinuesSelf == \A s : Continues(s, s)
  BY DEF Continues, SameDevice

LEMMA SpendContinues ==
    ASSUME NEW s \in Sidecars, NEW e \in DeviceIds, rec[e].expiresAt \in Nat, now \in Nat
    PROVE  /\ Spend(s, e) \in Sidecars /\ Continues(s, Spend(s, e))
           /\ Spend(s, e).devices = s.devices
           /\ Remembers(Spend(s, e), e, rec[e].expiresAt)
<1> DEFINE new == [key |-> e, expiresAt |-> rec[e].expiresAt]
           next == [devices |-> s.devices, spent |-> Pruned(s.spent) \cup {new}]
<1>1. Spend(s, e) = next
  BY SidecarElim DEF Spend
<1>2. new \in SpentKeys
  BY DEF SpentKeys
<1>3. Pruned(s.spent) \subseteq s.spent
  BY DEF Pruned
<1>4. next \in Sidecars
  BY <1>2, <1>3, SidecarElim, SidecarIntro
<1>5. ASSUME NEW entry \in s.spent PROVE now >= entry.expiresAt + SpentSkew \/ entry \in next.spent
  <2>1. entry.expiresAt \in Nat /\ SpentSkew \in Nat
    BY SidecarElim, EnrolmentAssumption DEF SpentKeys
  <2> QED
    BY <2>1 DEF Pruned
<1>6. Continues(s, next)
  BY <1>5 DEF Continues, SameDevice
<1>7. Remembers(next, e, rec[e].expiresAt)
  BY DEF Remembers
<1> QED
  BY <1>1, <1>4, <1>6, <1>7

LEMMA ActivateContinues ==
    ASSUME NEW s \in Sidecars, NEW e \in DeviceIds, e \notin DOMAIN s.devices, NewDevice(e) \in Devices
    PROVE  /\ Activate(s, e) \in Sidecars /\ Continues(s, Activate(s, e))
           /\ DOMAIN Activate(s, e).devices = DOMAIN s.devices \cup {e}
           /\ Activate(s, e).devices[e] = NewDevice(e)
           /\ LiveIn(s) \cup {e} \subseteq LiveIn(Activate(s, e))
<1> DEFINE devs == [d \in DOMAIN s.devices \cup {e} |-> IF d = e THEN NewDevice(e) ELSE s.devices[d]]
           next == [devices |-> devs, spent |-> s.spent]
<1>1. Activate(s, e) = next
  BY SidecarElim DEF Activate
<1>2. devs \in [DOMAIN s.devices \cup {e} -> Devices]
  BY SidecarElim
<1>3. DOMAIN s.devices \cup {e} \in SUBSET DeviceIds
  BY SidecarElim
<1>4. next \in Sidecars
  BY <1>2, <1>3, SidecarElim, SidecarIntro
<1>5. DOMAIN devs = DOMAIN s.devices \cup {e} /\ devs[e] = NewDevice(e)
      /\ \A d \in DOMAIN s.devices : devs[d] = s.devices[d]
  OBVIOUS
<1> HIDE DEF devs
<1>6. next.devices = devs /\ next.spent = s.spent
  OBVIOUS
<1>7. Continues(s, next)
  BY <1>5, <1>6 DEF Continues, SameDevice
<1>8. NewDevice(e).revokedReason = "none"
  BY DEF NewDevice
<1>9. LiveIn(s) \cup {e} \subseteq LiveIn(next)
  BY <1>5, <1>6, <1>8 DEF LiveIn, RevokedIn, IsRevoked
<1> HIDE DEF next
<1> QED
  BY <1>1, <1>4, <1>5, <1>6, <1>7, <1>9

LEMMA RevokeContinues ==
    ASSUME NEW s \in Sidecars, NEW e \in DOMAIN s.devices
    PROVE  LET next == [s EXCEPT !.devices[e].revokedReason = "owner"] IN
           /\ next \in Sidecars /\ Continues(s, next)
           /\ DOMAIN next.devices = DOMAIN s.devices
           /\ LiveIn(s) \ {e} \subseteq LiveIn(next)
<1> DEFINE dev == [s.devices[e] EXCEPT !.revokedReason = "owner"]
           devs == [s.devices EXCEPT ![e] = dev]
           next == [devices |-> devs, spent |-> s.spent]
<1>1. [s EXCEPT !.devices[e].revokedReason = "owner"] = next
  BY SidecarElim
<1>2. s.devices[e] \in Devices
  BY SidecarElim
<1>3. dev \in Devices /\ SameDevice(dev, s.devices[e])
  BY <1>2 DEF Devices, SameDevice
<1>4. devs \in [DOMAIN s.devices -> Devices]
  BY <1>3, SidecarElim
<1>5. next \in Sidecars
  BY <1>4, SidecarElim, SidecarIntro
<1>6. DOMAIN devs = DOMAIN s.devices /\ devs[e] = dev
      /\ \A d \in DOMAIN s.devices \ {e} : devs[d] = s.devices[d]
  BY SidecarElim
<1> HIDE DEF devs, dev
<1>7. next.devices = devs /\ next.spent = s.spent
  OBVIOUS
<1>8. \A d \in DOMAIN s.devices : SameDevice(devs[d], s.devices[d])
  BY <1>3, <1>6 DEF SameDevice
<1>9. Continues(s, next)
  BY <1>6, <1>7, <1>8 DEF Continues
<1>10. LiveIn(s) \ {e} \subseteq LiveIn(next)
  BY <1>6, <1>7 DEF LiveIn, RevokedIn, IsRevoked
<1> HIDE DEF next
<1> QED
  BY <1>1, <1>5, <1>6, <1>7, <1>9, <1>10

-----------------------------------------------------------------------------
(* What every action is put together from. *)

(* The history only grows. *)
Onward ==
    /\ made \subseteq made' /\ approved \subseteq approved' /\ claimed \subseteq claimed'
    /\ unsure \subseteq unsure' /\ forgotten \subseteq forgotten'
    /\ now' \in Nat /\ now <= now'

LEMMA FileStays ==
    ASSUME EnrolmentTyped, NEW s \in Sidecars, FileOk(s), Onward,
           NEW next \in Sidecars, Continues(s, next),
           \A d \in DOMAIN next.devices \ DOMAIN s.devices : Granted(d, next.devices[d])',
           \A a \in claimed' \ claimed : Remembers(next, a[1], a[3]),
           \A d \in LiveIn(s) : d \in LiveIn(next) \/ d \in forgotten',
           \A e \in paired' \ (paired \cup unsure') : e \in LiveIn(next)
    PROVE  FileOk(next)'
<1>1. ASSUME NEW e \in DOMAIN next.devices PROVE Granted(e, next.devices[e])'
  <2>1. CASE e \in DOMAIN s.devices
    <3>1. Granted(e, s.devices[e]) /\ SameDevice(next.devices[e], s.devices[e])
      BY <2>1 DEF FileOk, Continues
    <3>2. \A x, y : Granted(e, x) /\ SameDevice(y, x) => Granted(e, y)'
      BY DEF Granted, SameDevice, Onward
    <3> QED
      BY <3>1, <3>2
  <2> QED
    BY <1>1, <2>1
<1>2. ASSUME NEW a \in claimed'
      PROVE  now' >= a[3] + SpentSkew \/ Remembers(next, a[1], a[3])
  <2>1. CASE a \in claimed
    <3>1. a[3] \in Nat /\ SpentSkew \in Nat /\ now \in Nat
      BY <2>1, EnrolmentAssumption DEF EnrolmentTyped, BookTyped
    <3>2. now >= a[3] + SpentSkew \/ Remembers(s, a[1], a[3])
      BY <2>1 DEF FileOk
    <3>3. ASSUME Remembers(s, a[1], a[3])
          PROVE  now >= a[3] + SpentSkew \/ Remembers(next, a[1], a[3])
      BY <3>3 DEF Continues, Remembers
    <3> HIDE DEF Remembers
    <3> QED
      BY <3>1, <3>2, <3>3 DEF Onward
  <2> QED
    BY <1>2, <2>1
<1>3. ASSUME NEW e \in paired' \ unsure' PROVE e \in LiveIn(next) \/ e \in forgotten'
  BY <1>3 DEF FileOk, Onward
<1>4. \A a \in claimed' : now' >= a[3] + SpentSkew \/ Remembers(next, a[1], a[3])
  BY <1>2
<1> QED
  BY <1>1, <1>3, <1>4 DEF FileOk, Remembers, LiveIn, RevokedIn, IsRevoked

LEMMA FinalStays ==
    ASSUME NEW s \in Sidecars, FileOk(s), Final(s), Onward,
           \A e \in made : Settled(e) => Settled(e)',
           NEW next, \A e \in DOMAIN next.devices \ DOMAIN s.devices : e \in unsure' \/ Settled(e)'
    PROVE  Final(next)'
<1> SUFFICES ASSUME NEW e \in DOMAIN next.devices, e \notin unsure' PROVE Settled(e)'
  BY DEF Final
<1>1. CASE e \in DOMAIN s.devices
  <2>1. e \in made /\ e \notin unsure
    BY <1>1 DEF FileOk, Granted, Onward
  <2> QED
    BY <1>1, <2>1 DEF Final
<1> QED
  BY <1>1

(* One record, whether or not the server still lists it. *)
RecordGood(x) == RecordTyped(rec[x]) /\ (x \in registered => RecordOk(x, rec[x]))

LEMMA InvElim ==
    ASSUME EnrolmentInv, NEW x \in DeviceIds
    PROVE  RecordGood(x) /\ rec[x] \in EnrolmentRecords /\ Records[x] \in EnrolmentRecords
           /\ Records[x].claim = rec[x].claim /\ Records[x].expiresAt = rec[x].expiresAt
           /\ (x \in registered => Records[x] = Swept(rec[x]) /\ RecordOk(x, Records[x]))
           /\ RecordTyped(Records[x])
<1>1. RecordGood(x) /\ rec[x] \in EnrolmentRecords
  BY DEF EnrolmentInv, EnrolmentTyped, RecordGood
<1>2. Records[x] = IF x \in registered THEN Swept(rec[x]) ELSE rec[x]
  BY DEF Records
<1> QED
  BY <1>1, <1>2, SweepOk DEF RecordGood

(* A record that the action is not about: it may be swept, and no more. *)
Untouched(x) ==
    /\ x \in registered' => x \in registered
    /\ rec'[x] \in {rec[x], Records[x]}
    /\ \A a \in claimed' : a[1] = x => a \in claimed
    /\ claimed \subseteq claimed' /\ approved \subseteq approved'
    /\ x \in refused' => x \in refused
    /\ x \in sealing' => x \in sealing

LEMMA UntouchedGood ==
    ASSUME EnrolmentInv, NEW x \in DeviceIds, Untouched(x)
    PROVE  RecordGood(x)' /\ (Settled(x) => Settled(x)')
<1>1. RecordTyped(rec'[x])
  BY InvElim DEF Untouched, RecordGood
<1>2. ASSUME x \in registered' PROVE RecordOk(x, rec[x])'
  <2>1. RecordOk(x, rec'[x])
    BY <1>2, InvElim DEF Untouched, RecordGood
  <2> QED
    BY <2>1 DEF RecordOk, Untouched
<1>3. ASSUME Settled(x) PROVE Settled(x)'
  <2>1. CASE x \in registered'
    <3>1. x \in registered /\ rec[x] \in EnrolmentRecords /\ Records[x] = Swept(rec[x])
      BY <2>1, InvElim DEF Untouched
    <3>2. rec[x].state \in {"acknowledged", "consumed"}
      BY <1>3, <3>1 DEF Settled
    <3>3. Swept(rec[x]).state \in {"acknowledged", "consumed"}
      BY <3>1, <3>2 DEF Swept, Pending, EnrolmentRecords
    <3> QED
      BY <1>3, <2>1, <3>1, <3>2, <3>3 DEF Settled, Untouched
  <2> QED
    BY <1>3, <2>1 DEF Settled, Untouched
<1>4. RecordTyped(rec[x])'
  BY <1>1 DEF RecordTyped
<1> QED
  BY <1>2, <1>3, <1>4 DEF RecordGood

(* An action writes at most one file, from the one on disk. *)
LEMMA Assembled ==
    ASSUME EnrolmentInv, Onward, BookTyped', rec' \in [DeviceIds -> EnrolmentRecords],
           NEW next \in Sidecars, Continues(disk, next),
           Files' \subseteq Files \cup {next},
           \A d \in LiveIn(disk) : d \in LiveIn(next) \/ d \in forgotten',
           \A d \in DOMAIN next.devices \ DOMAIN disk.devices :
               Granted(d, next.devices[d])' /\ (d \in unsure' \/ Settled(d)'),
           \A s \in Files' : /\ \A a \in claimed' \ claimed : Remembers(s, a[1], a[3])
                             /\ \A e \in paired' \ (paired \cup unsure') : e \in LiveIn(s),
           \A x \in DeviceIds : RecordGood(x)' /\ (x \in made /\ Settled(x) => Settled(x)')
    PROVE  EnrolmentInv'
<1>1. EnrolmentTyped'
  BY DEF EnrolmentTyped, RecordGood
<1>2. EnrolmentTyped /\ \A s \in Files : s \in Sidecars /\ FileOk(s) /\ Final(s)
  BY DEF EnrolmentInv
<1>3. disk \in Files
  BY DEF Files
<1>4. \A x \in made : Settled(x) => Settled(x)'
  BY <1>2 DEF EnrolmentTyped, BookTyped
<1>5. ASSUME NEW s \in Files' PROVE s \in Sidecars /\ FileOk(s)' /\ Final(s)'
  <2>1. CASE s = next
    <3>1. FileOk(next)'
      <4>1. \A a \in claimed' \ claimed : Remembers(next, a[1], a[3])
        BY <2>1, <1>5
      <4>2. \A e \in paired' \ (paired \cup unsure') : e \in LiveIn(next)
        BY <2>1, <1>5
      <4>3. \A d \in DOMAIN next.devices \ DOMAIN disk.devices : Granted(d, next.devices[d])'
        OBVIOUS
      <4> QED
        BY <1>2, <1>3, <4>1, <4>2, <4>3, FileStays
    <3>2. Final(next)'
      BY <1>2, <1>3, <1>4, FinalStays
    <3> QED
      BY <2>1, <3>1, <3>2
  <2>2. CASE s \in Files
    <3>1. FileOk(s)'
      BY <1>2, <1>5, <2>2, FileStays, ContinuesSelf
    <3>2. Final(s)'
      BY <1>2, <1>4, <2>2, FinalStays
    <3> QED
      BY <1>2, <2>2, <3>1, <3>2
  <2> QED
    BY <1>5, <2>1, <2>2
<1>6. \A x \in registered' : RecordOk(x, rec[x])'
  BY <1>1 DEF RecordGood, EnrolmentTyped, BookTyped
<1> QED
  BY <1>1, <1>5, <1>6 DEF EnrolmentInv

(* An action that writes no file and records no claim. *)
LEMMA AssembledQuiet ==
    ASSUME EnrolmentInv, Onward, BookTyped', rec' \in [DeviceIds -> EnrolmentRecords],
           Files' \subseteq Files, claimed' = claimed,
           \A s \in Files' : \A e \in paired' \ (paired \cup unsure') : e \in LiveIn(s),
           \A x \in DeviceIds : RecordGood(x)' /\ (x \in made /\ Settled(x) => Settled(x)')
    PROVE  EnrolmentInv'
<1>1. disk \in Sidecars
  BY DEF EnrolmentInv, Files
<1> QED
  BY <1>1, Assembled, ContinuesSelf

LEMMA OneRecord ==
    ASSUME EnrolmentInv, NEW e \in DeviceIds, NEW r \in EnrolmentRecords,
           rec' = [Records EXCEPT ![e] = r] \/ rec' = [rec EXCEPT ![e] = r]
    PROVE  /\ rec' \in [DeviceIds -> EnrolmentRecords] /\ rec'[e] = r
           /\ \A x \in DeviceIds \ {e} : rec'[x] \in {rec[x], Records[x]}
<1>1. \A x \in DeviceIds : Records[x] \in EnrolmentRecords
  BY InvElim
<1>2. Records \in [DeviceIds -> EnrolmentRecords]
  BY <1>1 DEF Records
<1>3. rec \in [DeviceIds -> EnrolmentRecords]
  BY DEF EnrolmentInv, EnrolmentTyped
<1> QED
  BY <1>2, <1>3

LEMMA AllRecords ==
    ASSUME EnrolmentInv
    PROVE  /\ Records \in [DeviceIds -> EnrolmentRecords] /\ rec \in [DeviceIds -> EnrolmentRecords]
<1>1. \A x \in DeviceIds : Records[x] \in EnrolmentRecords
  BY InvElim
<1> QED
  BY <1>1 DEF Records, EnrolmentInv, EnrolmentTyped

(* What a handler that only reads leaves as it is. *)
LEMMA LoadKeeps ==
    ASSUME EnrolmentInv, Load
    PROVE  Files' = Files /\ disk' = disk /\ limbo' = limbo /\ cached' \in {NoState, disk'} /\ View = disk
  BY DEF EnrolmentInv, EnrolmentTyped, BookTyped, Load, View, Files

LEMMA ViewIsDisk == EnrolmentInv => View = disk
  BY DEF EnrolmentInv, EnrolmentTyped, BookTyped, View

-----------------------------------------------------------------------------
(* The actions that write no file. *)

LEMMA StatusStep == ASSUME EnrolmentInv, Status PROVE EnrolmentInv'
<1>1. rec' = Records /\ Files' = Files /\ Onward
  BY DEF Status, storeVars, history, Files, Onward, EnrolmentInv, EnrolmentTyped, BookTyped
<1>2. \A x \in DeviceIds : Untouched(x)
  BY <1>1 DEF Status, history, Untouched
<1>3. BookTyped'
  BY DEF Status, storeVars, history, EnrolmentInv, EnrolmentTyped, BookTyped
<1>4. claimed' = claimed /\ paired' = paired
  BY DEF Status, history
<1> QED
  BY <1>1, <1>2, <1>3, <1>4, AllRecords, UntouchedGood, AssembledQuiet

LEMMA TickStep == ASSUME EnrolmentInv, Tick PROVE EnrolmentInv'
<1>1. rec' = rec /\ Files' = Files /\ Onward
  BY EnrolmentAssumption DEF Tick, storeVars, history, memory, Files, Onward, EnrolmentInv, EnrolmentTyped, BookTyped
<1>2. \A x \in DeviceIds : Untouched(x)
  BY <1>1 DEF Tick, history, memory, Untouched
<1>3. BookTyped'
  BY EnrolmentAssumption DEF Tick, storeVars, history, memory, EnrolmentInv, EnrolmentTyped, BookTyped
<1>4. claimed' = claimed /\ paired' = paired
  BY DEF Tick, history
<1> QED
  BY <1>1, <1>2, <1>3, <1>4, AllRecords, UntouchedGood, AssembledQuiet

LEMMA NoRecordIsOne == NoRecord \in EnrolmentRecords /\ RecordTyped(NoRecord)
  BY DEF NoRecord, EnrolmentRecords, RecordTyped

LEMMA RestartStep == ASSUME EnrolmentInv, Restart PROVE EnrolmentInv'
<1>1. Files' \subseteq Files /\ Onward /\ rec' \in [DeviceIds -> EnrolmentRecords]
  BY NoRecordIsOne
     DEF Restart, RestartServer, PowerCut, history, Files, Onward, EnrolmentInv, EnrolmentTyped, BookTyped
<1>2. ASSUME NEW x \in DeviceIds PROVE RecordGood(x)' /\ (Settled(x) => Settled(x)')
  <2>1. RecordTyped(rec[x])'
    BY NoRecordIsOne DEF Restart, RecordTyped
  <2> QED
    BY <2>1 DEF Restart, history, RecordGood, Settled
<1>3. BookTyped'
  BY DEF Restart, RestartServer, PowerCut, history, EnrolmentInv, EnrolmentTyped, BookTyped
<1>4. claimed' = claimed /\ paired' = paired
  BY DEF Restart, history
<1> QED
  BY <1>1, <1>2, <1>3, <1>4, AssembledQuiet

LEMMA CreateStep == ASSUME EnrolmentInv, NEW e \in DeviceIds, Create(e) PROVE EnrolmentInv'
<1> DEFINE r == [NoRecord EXCEPT !.state = "created", !.expiresAt = now + Ttl]
<1>1. Files' = Files /\ cached' \in {NoState, disk'}
  BY LoadKeeps DEF Create
<1>2. Onward
  BY DEF Create, Onward, EnrolmentInv, EnrolmentTyped, BookTyped
<1>3. BookTyped'
  BY <1>1 DEF Create, EnrolmentInv, EnrolmentTyped, BookTyped
<1>4. r \in EnrolmentRecords /\ RecordTyped(r) /\ r.state = "created"
  <2>1. now + Ttl \in Nat
    BY EnrolmentAssumption DEF EnrolmentInv, EnrolmentTyped, BookTyped
  <2>2. ASSUME NEW v \in EnrolmentRecords, NEW n \in Nat
        PROVE  /\ [v EXCEPT !.state = "created", !.expiresAt = n] \in EnrolmentRecords
               /\ [v EXCEPT !.state = "created", !.expiresAt = n].state = "created"
    BY DEF EnrolmentRecords, Pending
  <2>3. r \in EnrolmentRecords /\ r.state = "created"
    BY <2>1, <2>2, NoRecordIsOne
  <2> HIDE DEF r
  <2> QED
    BY <2>3 DEF RecordTyped
<1> HIDE DEF r
<1>5. rec' = [Records EXCEPT ![e] = r]
  BY DEF Create, Become, r
<1>6. rec' \in [DeviceIds -> EnrolmentRecords] /\ rec'[e] = r
      /\ \A x \in DeviceIds \ {e} : rec'[x] \in {rec[x], Records[x]}
  BY <1>4, <1>5, OneRecord
<1>7. \A x \in DeviceIds \ {e} : Untouched(x)
  BY <1>6 DEF Create, Untouched
<1>8. e \notin made /\ e \notin refused /\ e \notin sealing /\ ~\E a \in claimed : a[1] = e
  BY DEF Create, EnrolmentInv, EnrolmentTyped, BookTyped
<1>9. RecordGood(e)'
  <2>1. RecordTyped(rec[e])'
    BY <1>4, <1>6 DEF RecordTyped
  <2>2. RecordOk(e, rec[e])'
    BY <1>4, <1>6, <1>8 DEF Create, RecordOk
  <2> QED
    BY <2>1, <2>2 DEF RecordGood
<1>10. claimed' = claimed /\ paired' = paired
  BY DEF Create
<1> QED
  BY <1>1, <1>2, <1>3, <1>6, <1>7, <1>8, <1>9, <1>10, UntouchedGood, AssembledQuiet

LEMMA ApproveStep == ASSUME EnrolmentInv, NEW e \in DeviceIds, Approve(e) PROVE EnrolmentInv'
<1> DEFINE r == [Records[e] EXCEPT !.state = "approved"]
<1>0. e \in registered /\ Records[e].state = "awaiting_owner_approval"
  BY DEF Approve, In
<1>1. Files' = Files /\ cached' \in {NoState, disk'}
  <2>1. CASE Load
    BY <2>1, LoadKeeps
  <2>2. CASE UNCHANGED <<storeVars, sealing>>
    BY <2>2 DEF storeVars, Files, EnrolmentInv, EnrolmentTyped, BookTyped
  <2> QED
    BY <2>1, <2>2 DEF Approve
<1>2. Onward
  BY DEF Approve, Onward, EnrolmentInv, EnrolmentTyped, BookTyped
<1>3. BookTyped'
  BY <1>0, <1>1 DEF Approve, EnrolmentInv, EnrolmentTyped, BookTyped
<1>4. Records[e] \in EnrolmentRecords /\ RecordOk(e, Records[e]) /\ RecordTyped(Records[e])
      /\ Records[e].claim = rec[e].claim /\ Records[e].expiresAt = rec[e].expiresAt
      /\ Records[e] = Swept(rec[e]) /\ rec[e] \in EnrolmentRecords
  BY <1>0, InvElim
<1>5. r \in EnrolmentRecords /\ r.state = "approved" /\ r.claim = rec[e].claim
      /\ r.expiresAt = Records[e].expiresAt /\ r.claim # NoPhone /\ r.claim = Records[e].claim
  BY <1>0, <1>4 DEF EnrolmentRecords, Pending, RecordTyped
<1> HIDE DEF r
<1>6. rec' = [Records EXCEPT ![e] = r]
  BY DEF Approve, Become, r
<1>7. rec' \in [DeviceIds -> EnrolmentRecords] /\ rec'[e] = r
      /\ \A x \in DeviceIds \ {e} : rec'[x] \in {rec[x], Records[x]}
  BY <1>5, <1>6, OneRecord
<1>8. \A x \in DeviceIds \ {e} : Untouched(x)
  BY <1>7 DEF Approve, Untouched, storeVars
<1>9. RecordGood(e)'
  <2>1. RecordTyped(rec[e])'
    BY <1>5, <1>7 DEF RecordTyped
  <2>2. RecordOk(e, rec[e])'
    BY <1>0, <1>4, <1>5, <1>7 DEF Approve, RecordOk, Terminal
  <2> QED
    BY <2>1, <2>2 DEF RecordGood
<1>10. ~Settled(e)
  <2>1. rec[e].state \notin {"acknowledged", "consumed"}
    BY <1>0, <1>4 DEF Swept, EnrolmentRecords, Pending
  <2> QED
    BY <1>0, <2>1 DEF Settled
<1>11. claimed' = claimed /\ paired' = paired
  BY DEF Approve
<1> QED
  BY <1>1, <1>2, <1>3, <1>7, <1>8, <1>9, <1>10, <1>11, UntouchedGood, AssembledQuiet

LEMMA SealedStep == ASSUME EnrolmentInv, NEW e \in DeviceIds, Sealed(e) PROVE EnrolmentInv'
<1>1. Files' = Files /\ Onward
  BY DEF Sealed, storeVars, Files, Onward, EnrolmentInv, EnrolmentTyped, BookTyped
<1>2. BookTyped'
  BY DEF Sealed, storeVars, EnrolmentInv, EnrolmentTyped, BookTyped
<1>3. rec[e] \in EnrolmentRecords /\ RecordTyped(rec[e]) /\ (e \in registered => RecordOk(e, rec[e]))
  BY InvElim DEF RecordGood
<1>4. PICK r : /\ rec' = [rec EXCEPT ![e] = r]
               /\ \/ r = After(e, "cancelled")
                  \/ r = After(e, rec[e].state)
                  \/ StillApproved(e) /\ r = After(e, "grant_ready")
  <2>1. rec[e] = rec[e] /\ rec \in [DeviceIds -> EnrolmentRecords]
    BY DEF EnrolmentInv, EnrolmentTyped
  <2> QED
    BY <2>1 DEF Sealed
<1>5. ASSUME e \in registered
      PROVE  /\ r = [rec[e] EXCEPT !.state = r.state] /\ r.state \in {"cancelled", rec[e].state, "grant_ready"}
             /\ r.state = "grant_ready" => rec[e].state = "approved"
  <2>1. ASSUME NEW state PROVE After(e, state) = [rec[e] EXCEPT !.state = state] /\ After(e, state).state = state
    BY <1>3, <1>5 DEF After, EnrolmentRecords
  <2>2. rec[e].state # "grant_ready"
    BY <1>3, <1>5 DEF RecordOk, Sealed
  <2>3. CASE r = After(e, "cancelled")
    BY <2>1, <2>3
  <2>4. CASE r = After(e, rec[e].state)
    BY <2>1, <2>2, <2>4
  <2>5. CASE StillApproved(e) /\ r = After(e, "grant_ready")
    BY <2>1, <2>5 DEF StillApproved
  <2> QED
    BY <1>4, <2>3, <2>4, <2>5
<1>6. r \in EnrolmentRecords /\ RecordTyped(r) /\ (e \in registered => r.claim = rec[e].claim /\ r.expiresAt = rec[e].expiresAt)
  <2>1. CASE e \in registered
    <3>1. r.claim = rec[e].claim /\ r.expiresAt = rec[e].expiresAt /\ r \in EnrolmentRecords
      BY <1>3, <1>5, <2>1 DEF EnrolmentRecords, Terminal, Pending
    <3> QED
      BY <1>3, <1>5, <2>1, <3>1 DEF RecordTyped
  <2> QED
    BY <1>4, <2>1, NoRecordIsOne DEF After
<1>7. rec' \in [DeviceIds -> EnrolmentRecords] /\ rec'[e] = r
      /\ \A x \in DeviceIds \ {e} : rec'[x] \in {rec[x], Records[x]}
  BY <1>4, <1>6, OneRecord
<1>8. \A x \in DeviceIds \ {e} : Untouched(x)
  BY <1>7 DEF Sealed, Untouched
<1>9. RecordGood(e)'
  <2>1. RecordTyped(rec[e])'
    BY <1>6, <1>7 DEF RecordTyped
  <2>2. ASSUME e \in registered' PROVE RecordOk(e, rec[e])'
    <3>1. e \in registered /\ e \in sealing /\ RecordOk(e, rec[e])
      BY <2>2, <1>3 DEF Sealed
    <3>2. rec[e].state \in {"approved", "expired", "rejected"}
      BY <3>1 DEF RecordOk
    <3> QED
      BY <1>5, <1>6, <1>7, <3>1, <3>2 DEF Sealed, RecordOk, Terminal
  <2> QED
    BY <2>1, <2>2 DEF RecordGood
<1>10. Settled(e) => Settled(e)'
  <2>1. e \in registered => rec[e].state \in {"approved", "expired", "rejected"}
    BY <1>3 DEF Sealed, RecordOk
  <2> QED
    BY <2>1 DEF Sealed, Settled
<1>11. claimed' = claimed /\ paired' = paired
  BY DEF Sealed
<1> QED
  BY <1>1, <1>2, <1>7, <1>8, <1>9, <1>10, <1>11, UntouchedGood, AssembledQuiet

LEMMA RejectStep == ASSUME EnrolmentInv, NEW e \in DeviceIds, Reject(e) PROVE EnrolmentInv'
<1>0. e \in registered /\ Records[e].state \notin {"acknowledged", "consumed"}
  BY DEF Reject, In
<1>1. Files' = Files /\ Onward
  BY DEF Reject, storeVars, Files, Onward, EnrolmentInv, EnrolmentTyped, BookTyped
<1>2. BookTyped'
  BY <1>0 DEF Reject, storeVars, EnrolmentInv, EnrolmentTyped, BookTyped
<1>3. Records[e] \in EnrolmentRecords /\ RecordOk(e, Records[e]) /\ RecordTyped(Records[e])
      /\ Records[e] = Swept(rec[e]) /\ rec[e] \in EnrolmentRecords
  BY <1>0, InvElim
<1>4. /\ Rejected(e) \in EnrolmentRecords /\ RecordTyped(Rejected(e))
      /\ Rejected(e).claim = Records[e].claim /\ Rejected(e).expiresAt = Records[e].expiresAt
      /\ Rejected(e).state \in Terminal
      /\ Rejected(e).state \in {Records[e].state, "rejected"}
  <2>1. Rejected(e) = IF Records[e].state \in Terminal THEN Records[e] ELSE [Records[e] EXCEPT !.state = "rejected"]
    BY <1>3 DEF Rejected, EnrolmentRecords
  <2> QED
    BY <1>3, <2>1 DEF EnrolmentRecords, RecordTyped, Terminal, Pending
<1>5. rec' = [Records EXCEPT ![e] = Rejected(e)]
  BY DEF Reject, Become
<1>6. rec' \in [DeviceIds -> EnrolmentRecords] /\ rec'[e] = Rejected(e)
      /\ \A x \in DeviceIds \ {e} : rec'[x] \in {rec[x], Records[x]}
  BY <1>4, <1>5, OneRecord
<1>7. \A x \in DeviceIds \ {e} : Untouched(x)
  BY <1>6 DEF Reject, Untouched
<1>8. RecordGood(e)'
  <2>1. RecordTyped(rec[e])'
    BY <1>4, <1>6 DEF RecordTyped
  <2>2. RecordOk(e, rec[e])'
    <3>1. PICK r : r = Rejected(e)
      OBVIOUS
    <3>2. rec'[e] = r /\ r.claim = Records[e].claim /\ r.expiresAt = Records[e].expiresAt
          /\ r.state \in Terminal /\ r.state \in {Records[e].state, "rejected"}
      BY <1>4, <1>6, <3>1
    <3> QED
      BY <1>3, <3>2 DEF Reject, RecordOk, Terminal
  <2> QED
    BY <2>1, <2>2 DEF RecordGood
<1>9. ~Settled(e)
  <2>1. rec[e].state \notin {"acknowledged", "consumed"}
    BY <1>0, <1>3 DEF Swept, EnrolmentRecords, Pending
  <2> QED
    BY <1>0, <2>1 DEF Settled
<1>10. claimed' = claimed /\ paired' = paired
  BY DEF Reject
<1> QED
  BY <1>1, <1>2, <1>6, <1>7, <1>8, <1>9, <1>10, UntouchedGood, AssembledQuiet

LEMMA DropStep ==
    ASSUME EnrolmentInv, NEW e \in DeviceIds, NEW records, NEW r \in EnrolmentRecords, RecordTyped(r),
           Drop(e, records), records = [Records EXCEPT ![e] = r] \/ records = [rec EXCEPT ![e] = r]
    PROVE  /\ rec' \in [DeviceIds -> EnrolmentRecords] /\ RecordGood(e)' /\ e \notin registered'
           /\ \A x \in DeviceIds \ {e} : rec'[x] \in {rec[x], Records[x]}
           /\ registered' = registered \ {e} /\ sealing' = sealing
<1>1. records \in [DeviceIds -> EnrolmentRecords] /\ records[e] = r
      /\ \A x \in DeviceIds \ {e} : records[x] \in {rec[x], Records[x]}
  BY AllRecords
<1>2. PICK q : q \in {r, NoRecord} /\ rec' = [records EXCEPT ![e] = q]
  BY <1>1 DEF Drop
<1>3. q \in EnrolmentRecords /\ RecordTyped(q)
  BY <1>2, NoRecordIsOne
<1>4. rec' \in [DeviceIds -> EnrolmentRecords] /\ rec'[e] = q
      /\ \A x \in DeviceIds \ {e} : rec'[x] = records[x]
  BY <1>1, <1>2, <1>3
<1>5. RecordTyped(rec[e])'
  BY <1>3, <1>4 DEF RecordTyped
<1> QED
  BY <1>1, <1>4, <1>5 DEF Drop, RecordGood

LEMMA DeleteStep == ASSUME EnrolmentInv, NEW e \in DeviceIds, Delete(e) PROVE EnrolmentInv'
<1>1. Files' = Files /\ Onward
  BY DEF Delete, storeVars, history, Files, Onward, EnrolmentInv, EnrolmentTyped, BookTyped
<1>2. rec = [rec EXCEPT ![e] = rec[e]] /\ rec[e] \in EnrolmentRecords /\ RecordTyped(rec[e])
  BY InvElim, AllRecords DEF RecordGood
<1>3. /\ rec' \in [DeviceIds -> EnrolmentRecords] /\ RecordGood(e)' /\ e \notin registered'
      /\ \A x \in DeviceIds \ {e} : rec'[x] \in {rec[x], Records[x]}
      /\ registered' = registered \ {e} /\ sealing' = sealing
  <2>1. Drop(e, rec)
    BY DEF Delete
  <2> HIDE DEF Drop
  <2> QED
    BY <1>2, <2>1, DropStep
<1>4. BookTyped'
  BY <1>3 DEF Delete, storeVars, history, EnrolmentInv, EnrolmentTyped, BookTyped
<1>5. \A x \in DeviceIds \ {e} : Untouched(x)
  BY <1>3 DEF Delete, history, Untouched
<1>6. Settled(e) => Settled(e)'
  BY <1>3 DEF Delete, history, Settled
<1>7. claimed' = claimed /\ paired' = paired
  BY DEF Delete, history
<1> QED
  BY <1>1, <1>3, <1>4, <1>5, <1>6, <1>7, UntouchedGood, AssembledQuiet

LEMMA DismissStep == ASSUME EnrolmentInv, NEW e \in DeviceIds, Dismiss(e) PROVE EnrolmentInv'
<1>0. e \in registered /\ Records[e].state \notin {"acknowledged", "consumed"}
  BY DEF Dismiss, In
<1>1. Files' = Files /\ Onward
  BY DEF Dismiss, storeVars, Files, Onward, EnrolmentInv, EnrolmentTyped, BookTyped
<1>2. Records[e] \in EnrolmentRecords /\ RecordTyped(Records[e])
      /\ Records[e] = Swept(rec[e]) /\ rec[e] \in EnrolmentRecords
  BY <1>0, InvElim
<1>3. Rejected(e) \in EnrolmentRecords /\ RecordTyped(Rejected(e))
  <2>1. Rejected(e) = IF Records[e].state \in Terminal THEN Records[e] ELSE [Records[e] EXCEPT !.state = "rejected"]
    BY <1>2 DEF Rejected, EnrolmentRecords
  <2> QED
    BY <1>2, <2>1 DEF EnrolmentRecords, RecordTyped, Terminal, Pending
<1>4. /\ rec' \in [DeviceIds -> EnrolmentRecords] /\ RecordGood(e)' /\ e \notin registered'
      /\ \A x \in DeviceIds \ {e} : rec'[x] \in {rec[x], Records[x]}
      /\ registered' = registered \ {e} /\ sealing' = sealing
  <2>1. Drop(e, [Records EXCEPT ![e] = Rejected(e)])
    BY DEF Dismiss
  <2> QED
    BY <1>3, <2>1, DropStep
<1>5. BookTyped'
  BY <1>0, <1>4 DEF Dismiss, storeVars, EnrolmentInv, EnrolmentTyped, BookTyped
<1>6. \A x \in DeviceIds \ {e} : Untouched(x)
  BY <1>4 DEF Dismiss, Untouched
<1>7. ~Settled(e)
  <2>1. rec[e].state \notin {"acknowledged", "consumed"}
    BY <1>0, <1>2 DEF Swept, EnrolmentRecords, Pending
  <2> QED
    BY <1>0, <2>1 DEF Settled
<1>8. claimed' = claimed /\ paired' = paired
  BY DEF Dismiss
<1> QED
  BY <1>1, <1>4, <1>5, <1>6, <1>7, <1>8, UntouchedGood, AssembledQuiet

LEMMA RetrieveStep == ASSUME EnrolmentInv, NEW e \in DeviceIds, Retrieve(e) PROVE EnrolmentInv'
<1> DEFINE r == [Records[e] EXCEPT !.state = "delivered"]
<1>0. e \in registered /\ Records[e].state \in {"grant_ready", "delivered"}
  BY DEF Retrieve, In
<1>1. Files' = Files /\ Onward
  BY DEF Retrieve, storeVars, Files, Onward, EnrolmentInv, EnrolmentTyped, BookTyped
<1>2. BookTyped'
  BY DEF Retrieve, storeVars, EnrolmentInv, EnrolmentTyped, BookTyped
<1>3. Records[e] \in EnrolmentRecords /\ RecordOk(e, Records[e]) /\ RecordTyped(Records[e])
      /\ Records[e] = Swept(rec[e]) /\ rec[e] \in EnrolmentRecords
  BY <1>0, InvElim
<1>4. r \in EnrolmentRecords /\ r.state = "delivered" /\ r.claim = Records[e].claim
      /\ r.expiresAt = Records[e].expiresAt /\ r.claim # NoPhone
  BY <1>0, <1>3 DEF EnrolmentRecords, Pending, RecordTyped
<1> HIDE DEF r
<1>5. rec' = [Records EXCEPT ![e] = r]
  BY DEF Retrieve, Become, r
<1>6. rec' \in [DeviceIds -> EnrolmentRecords] /\ rec'[e] = r
      /\ \A x \in DeviceIds \ {e} : rec'[x] \in {rec[x], Records[x]}
  BY <1>4, <1>5, OneRecord
<1>7. \A x \in DeviceIds \ {e} : Untouched(x)
  BY <1>6 DEF Retrieve, Untouched
<1>8. RecordGood(e)'
  <2>1. RecordTyped(rec[e])'
    BY <1>4, <1>6 DEF RecordTyped
  <2>2. RecordOk(e, rec[e])'
    BY <1>0, <1>3, <1>4, <1>6 DEF Retrieve, RecordOk, Terminal
  <2> QED
    BY <2>1, <2>2 DEF RecordGood
<1>9. ~Settled(e)
  <2>1. rec[e].state \notin {"acknowledged", "consumed"}
    BY <1>0, <1>3 DEF Swept, EnrolmentRecords, Pending
  <2> QED
    BY <1>0, <2>1 DEF Settled
<1>10. claimed' = claimed /\ paired' = paired
  BY DEF Retrieve
<1> QED
  BY <1>1, <1>2, <1>6, <1>7, <1>8, <1>9, <1>10, UntouchedGood, AssembledQuiet

(* A claim that is repeated was recorded before. *)
LEMMA ClaimAgainStep ==
    ASSUME EnrolmentInv, NEW e \in DeviceIds, NEW p \in Phones, ClaimAgain(e, p) PROVE EnrolmentInv'
<1>0. e \in registered /\ Records[e].state = "awaiting_owner_approval" /\ Records[e].claim = p
  BY DEF ClaimAgain, In
<1>1. <<e, p, rec[e].expiresAt>> \in claimed
  BY <1>0, InvElim DEF RecordOk
<1>2. claimed' = claimed /\ paired' = paired
  BY <1>1 DEF ClaimAgain
<1>3. rec' = Records /\ Files' = Files /\ Onward
  BY <1>2 DEF ClaimAgain, storeVars, Files, Onward, EnrolmentInv, EnrolmentTyped, BookTyped
<1>4. \A x \in DeviceIds : Untouched(x)
  BY <1>2, <1>3 DEF ClaimAgain, Untouched
<1>5. BookTyped'
  BY <1>2 DEF ClaimAgain, storeVars, EnrolmentInv, EnrolmentTyped, BookTyped
<1> QED
  BY <1>2, <1>3, <1>4, <1>5, AllRecords, UntouchedGood, AssembledQuiet

LEMMA ClaimUnknownStep == ASSUME EnrolmentInv, NEW e \in DeviceIds, ClaimUnknown(e) PROVE EnrolmentInv'
<1>1. Files' = Files /\ cached' \in {NoState, disk'}
  BY LoadKeeps DEF ClaimUnknown
<1>2. rec' = Records /\ Onward
  BY DEF ClaimUnknown, history, Onward, EnrolmentInv, EnrolmentTyped, BookTyped
<1>3. \A x \in DeviceIds : Untouched(x)
  BY <1>2 DEF ClaimUnknown, history, Untouched
<1>4. BookTyped'
  BY <1>1 DEF ClaimUnknown, history, EnrolmentInv, EnrolmentTyped, BookTyped
<1>5. claimed' = claimed /\ paired' = paired
  BY DEF ClaimUnknown, history
<1> QED
  BY <1>1, <1>2, <1>3, <1>4, <1>5, AllRecords, UntouchedGood, AssembledQuiet

(* The answer comes from the file; it counts as sure only when no older file
   can come back. *)
LEMMA AcknowledgeAgainStep ==
    ASSUME EnrolmentInv, NEW e \in DeviceIds, AcknowledgeAgain(e) PROVE EnrolmentInv'
<1>1. Files' = Files /\ cached' \in {NoState, disk'} /\ View = disk /\ disk' = disk /\ limbo' = limbo
  BY LoadKeeps DEF AcknowledgeAgain
<1>2. rec' = Records /\ Onward
  BY DEF AcknowledgeAgain, Onward, EnrolmentInv, EnrolmentTyped, BookTyped
<1>3. \A x \in DeviceIds : Untouched(x)
  BY <1>2 DEF AcknowledgeAgain, Untouched
<1>4. BookTyped'
  BY <1>1 DEF AcknowledgeAgain, EnrolmentInv, EnrolmentTyped, BookTyped
<1>5. claimed' = claimed
  BY DEF AcknowledgeAgain
<1>6. \A s \in Files' : \A d \in paired' \ (paired \cup unsure') : d \in LiveIn(s)
  <2> SUFFICES ASSUME NEW s \in Files', NEW d \in paired', d \notin paired, d \notin unsure'
               PROVE  d \in LiveIn(s)
    OBVIOUS
  <2>1. d = e /\ e \in LiveIn(disk)
    BY <1>1 DEF AcknowledgeAgain
  <2>2. limbo = {}
    BY <2>1 DEF AcknowledgeAgain
  <2>3. s = disk
    BY <1>1, <2>2 DEF Files
  <2> QED
    BY <2>1, <2>3
<1> QED
  BY <1>1, <1>2, <1>3, <1>4, <1>5, <1>6, AllRecords, UntouchedGood, AssembledQuiet

-----------------------------------------------------------------------------
(* The actions that write the file. *)

LEMMA WriteKeeps ==
    ASSUME EnrolmentInv, NEW next
    PROVE  /\ Committed(next) => Files' = {next} /\ disk' = next /\ cached' = disk'
           /\ Uncertain(next) => Files' = Files \cup {next} /\ cached' = disk'
           /\ NotWritten => Files' = Files /\ cached' = disk'
  BY DEF Committed, Uncertain, NotWritten, Files

LEMMA DiskIsGood == EnrolmentInv => disk \in Sidecars /\ FileOk(disk) /\ Final(disk)
  BY DEF EnrolmentInv, Files

LEMMA ClaimStep ==
    ASSUME EnrolmentInv, NEW e \in DeviceIds, NEW p \in Phones, Claim(e, p) PROVE EnrolmentInv'
<1> DEFINE next == Spend(disk, e)
           good == [Records[e] EXCEPT !.state = "awaiting_owner_approval", !.claim = p]
           bad == [Records[e] EXCEPT !.state = "cancelled"]
<1>0. e \in registered /\ Records[e].state = "created"
  BY DEF Claim, Claimable, In
<1>1. Records[e] \in EnrolmentRecords /\ RecordOk(e, Records[e]) /\ RecordTyped(Records[e])
      /\ Records[e] = Swept(rec[e]) /\ rec[e] \in EnrolmentRecords
      /\ Records[e].expiresAt = rec[e].expiresAt /\ rec[e].expiresAt \in Nat
  BY <1>0, InvElim DEF EnrolmentRecords
<1>2. disk \in Sidecars /\ now \in Nat
  BY DiskIsGood, EnrolmentAssumption DEF EnrolmentInv, EnrolmentTyped, BookTyped
<1>3. next \in Sidecars /\ Continues(disk, next) /\ next.devices = disk.devices
      /\ Remembers(next, e, rec[e].expiresAt)
  BY <1>1, <1>2, SpendContinues
<1>4. LiveIn(next) = LiveIn(disk)
  BY <1>3 DEF LiveIn, RevokedIn, IsRevoked
<1>5. good \in EnrolmentRecords /\ good.state = "awaiting_owner_approval" /\ good.claim = p
      /\ good.expiresAt = rec[e].expiresAt
  BY <1>1 DEF EnrolmentRecords, Pending
<1>6. bad \in EnrolmentRecords /\ bad.state = "cancelled" /\ bad.expiresAt = rec[e].expiresAt
      /\ bad.claim = Records[e].claim
  BY <1>1 DEF EnrolmentRecords, Terminal
<1> HIDE DEF next, good, bad
<1>7. p # NoPhone
  BY EnrolmentAssumption
<1>8. ~Settled(e)
  <2>1. rec[e].state \notin {"acknowledged", "consumed"}
    BY <1>0, <1>1 DEF Swept, EnrolmentRecords, Pending
  <2> QED
    BY <1>0, <2>1 DEF Settled
<1>9. e \notin refused /\ e \notin sealing /\ \A a \in claimed : a[1] # e
  BY <1>0, <1>1 DEF RecordOk, Terminal
<1>10. UNCHANGED <<now, registered, sealing, made, opened, approved, refused, paired, unsure, forgotten>>
  BY DEF Claim
<1>11. CASE /\ Committed(next) /\ Become(e, good)
            /\ claimed' = claimed \cup {<<e, p, rec[e].expiresAt>>} /\ UNCHANGED faults
  <2>1. Onward
    BY <1>2, <1>10, <1>11 DEF Onward
  <2>2. Files' = {next} /\ cached' = disk'
    BY <1>11, WriteKeeps
  <2>3. <<e, p, rec[e].expiresAt>> \in made \X Phones \X Nat
    BY <1>0, <1>1 DEF EnrolmentInv, EnrolmentTyped, BookTyped
  <2>4. BookTyped'
    BY <1>9, <1>10, <1>11, <2>2, <2>3 DEF EnrolmentInv, EnrolmentTyped, BookTyped
  <2>5. rec' \in [DeviceIds -> EnrolmentRecords] /\ rec'[e] = good
        /\ \A x \in DeviceIds \ {e} : rec'[x] \in {rec[x], Records[x]}
    BY <1>5, <1>11, OneRecord DEF Become
  <2>6. \A x \in DeviceIds \ {e} : Untouched(x)
    BY <1>10, <1>11, <2>5 DEF Untouched
  <2>7. RecordGood(e)'
    <3>1. RecordTyped(rec[e])'
      BY <1>5, <1>7, <2>5 DEF RecordTyped
    <3>2. RecordOk(e, rec[e])'
      BY <1>5, <1>9, <1>10, <1>11, <2>5 DEF RecordOk
    <3> QED
      BY <3>1, <3>2 DEF RecordGood
  <2>8. \A s \in Files' : \A a \in claimed' \ claimed : Remembers(s, a[1], a[3])
    BY <1>3, <1>11, <2>2
  <2>9. \A s \in Files' : \A d \in paired' \ (paired \cup unsure') : d \in LiveIn(s)
    BY <1>10
  <2>10. \A x \in DeviceIds : RecordGood(x)' /\ (x \in made /\ Settled(x) => Settled(x)')
    BY <1>8, <2>6, <2>7, UntouchedGood
  <2>11. Files' \subseteq Files \cup {next}
    BY <2>2
  <2> QED
    BY <1>3, <1>4, <2>1, <2>4, <2>5, <2>8, <2>9, <2>10, <2>11, Assembled
<1>12. CASE /\ Uncertain(next) \/ NotWritten
            /\ Become(e, bad) /\ UNCHANGED claimed /\ faults' \in 0..MaxFaults
  <2>1. Onward
    BY <1>2, <1>10, <1>12 DEF Onward
  <2>2. Files' \subseteq Files \cup {next} /\ cached' = disk'
    BY <1>12, WriteKeeps
  <2>4. BookTyped'
    BY <1>10, <1>12, <2>2 DEF EnrolmentInv, EnrolmentTyped, BookTyped
  <2>5. rec' \in [DeviceIds -> EnrolmentRecords] /\ rec'[e] = bad
        /\ \A x \in DeviceIds \ {e} : rec'[x] \in {rec[x], Records[x]}
    BY <1>6, <1>12, OneRecord DEF Become
  <2>6. \A x \in DeviceIds \ {e} : Untouched(x)
    BY <1>10, <1>12, <2>5 DEF Untouched
  <2>7. RecordGood(e)'
    <3>1. RecordTyped(rec[e])'
      BY <1>6, <2>5 DEF RecordTyped
    <3>2. RecordOk(e, rec[e])'
      BY <1>6, <1>9, <1>10, <1>12, <2>5 DEF RecordOk
    <3> QED
      BY <3>1, <3>2 DEF RecordGood
  <2>8. \A s \in Files' : \A a \in claimed' \ claimed : Remembers(s, a[1], a[3])
    BY <1>12
  <2>9. \A s \in Files' : \A d \in paired' \ (paired \cup unsure') : d \in LiveIn(s)
    BY <1>10
  <2>10. \A x \in DeviceIds : RecordGood(x)' /\ (x \in made /\ Settled(x) => Settled(x)')
    BY <1>8, <2>6, <2>7, UntouchedGood
  <2> QED
    BY <1>3, <1>4, <2>1, <2>2, <2>4, <2>5, <2>8, <2>9, <2>10, Assembled
<1>13. Fault \/ UNCHANGED faults => faults' \in 0..MaxFaults
  BY EnrolmentAssumption DEF Fault, EnrolmentInv, EnrolmentTyped, BookTyped
<1> QED
  BY <1>11, <1>12, <1>13 DEF Claim, Base, ClaimedBy, next, good, bad

LEMMA RevokeStep == ASSUME EnrolmentInv, NEW e \in DeviceIds, Revoke(e) PROVE EnrolmentInv'
<1> DEFINE next == [disk EXCEPT !.devices[e].revokedReason = "owner"]
<1>1. disk \in Sidecars /\ e \in DOMAIN disk.devices /\ now \in Nat
  BY DiskIsGood, EnrolmentAssumption DEF Revoke, Base, LiveIn, EnrolmentInv, EnrolmentTyped, BookTyped
<1>2. next \in Sidecars /\ Continues(disk, next) /\ DOMAIN next.devices = DOMAIN disk.devices
      /\ LiveIn(disk) \ {e} \subseteq LiveIn(next)
  BY <1>1, RevokeContinues
<1>3. Committed(next)
  BY DEF Revoke, Base
<1> HIDE DEF next
<1>4. Files' = {next} /\ cached' = disk'
  BY <1>3, WriteKeeps
<1>5. Onward /\ BookTyped' /\ rec' = rec /\ claimed' = claimed /\ paired' = paired
  BY <1>1, <1>4 DEF Revoke, memory, Onward, EnrolmentInv, EnrolmentTyped, BookTyped
<1>6. \A x \in DeviceIds : Untouched(x)
  BY <1>5 DEF Revoke, memory, Untouched
<1>7. \A x \in DeviceIds : RecordGood(x)' /\ (x \in made /\ Settled(x) => Settled(x)')
  BY <1>6, UntouchedGood
<1>8. \A d \in LiveIn(disk) : d \in LiveIn(next) \/ d \in forgotten'
  BY <1>2 DEF Revoke
<1>9. rec' \in [DeviceIds -> EnrolmentRecords]
  BY <1>5, AllRecords
<1> QED
  BY <1>2, <1>4, <1>5, <1>7, <1>8, <1>9, Assembled

LEMMA AcknowledgeStep ==
    ASSUME EnrolmentInv, NEW e \in DeviceIds, Acknowledge(e) PROVE EnrolmentInv'
<1> DEFINE done == [Records[e] EXCEPT !.state = "acknowledged", !.ackUntil = now + AckTtl]
<1>0. e \in registered /\ Records[e].state \in {"grant_ready", "delivered"} /\ e \notin DOMAIN disk.devices
  BY ViewIsDisk DEF Acknowledge, In
<1>1. Records[e] \in EnrolmentRecords /\ RecordOk(e, Records[e]) /\ RecordTyped(Records[e])
      /\ Records[e] = Swept(rec[e]) /\ rec[e] \in EnrolmentRecords
      /\ Records[e].expiresAt = rec[e].expiresAt /\ Records[e].claim = rec[e].claim
  BY <1>0, InvElim
<1>2. disk \in Sidecars /\ now \in Nat /\ now \in 0..MaxTime /\ now + AckTtl \in Nat
  BY DiskIsGood, EnrolmentAssumption DEF EnrolmentInv, EnrolmentTyped, BookTyped
<1>3. rec[e].claim \in Phones /\ rec[e].expiresAt \in Nat /\ now < rec[e].expiresAt
  <2>1. rec[e].claim \in Phones \cup {NoPhone} /\ rec[e].expiresAt \in Nat /\ rec[e].claim # NoPhone
    BY <1>0, <1>1 DEF EnrolmentRecords, RecordTyped
  <2>2. ~(rec[e].state \in Pending /\ now >= rec[e].expiresAt) /\ rec[e].state \in Pending
    BY <1>0, <1>1 DEF Swept, EnrolmentRecords, Pending
  <2> QED
    BY <1>2, <2>1, <2>2
<1>4. PICK dev \in Devices : dev = NewDevice(e) /\ dev.phone = rec[e].claim /\ dev.createdAt < dev.expiresAt
  <2>1. NewDevice(e) = [revokedReason |-> "none", phone |-> rec[e].claim, createdAt |-> now,
                        expiresAt |-> rec[e].expiresAt, ackUntil |-> now + AckTtl]
    BY DEF NewDevice
  <2>2. NewDevice(e) \in Devices
    BY <1>2, <1>3, <2>1 DEF Devices
  <2> QED
    BY <1>3, <2>1, <2>2
<1>p. PICK next : next = Activate(disk, e)
  OBVIOUS
<1>5. /\ next \in Sidecars /\ Continues(disk, next)
      /\ DOMAIN next.devices = DOMAIN disk.devices \cup {e}
      /\ next.devices[e] = dev
      /\ LiveIn(disk) \cup {e} \subseteq LiveIn(next)
  BY <1>0, <1>2, <1>4, <1>p, ActivateContinues
<1>6. done \in EnrolmentRecords /\ done.state = "acknowledged" /\ done.claim = rec[e].claim
      /\ done.expiresAt = rec[e].expiresAt
  BY <1>1, <1>2 DEF EnrolmentRecords
<1> HIDE DEF done
<1>7. e \notin refused /\ e \notin sealing /\ <<e, rec[e].claim>> \in approved
      /\ <<e, rec[e].claim, rec[e].expiresAt>> \in claimed /\ e \in made /\ rec[e].claim # NoPhone
  <2>1. e \in made
    BY <1>0 DEF EnrolmentInv, EnrolmentTyped, BookTyped
  <2> QED
    BY <1>0, <1>1, <2>1 DEF RecordOk, RecordTyped, Terminal
<1>8. ~Settled(e)
  <2>1. rec[e].state \notin {"acknowledged", "consumed"}
    BY <1>0, <1>1 DEF Swept, EnrolmentRecords, Pending
  <2> QED
    BY <1>0, <2>1 DEF Settled
<1>9. UNCHANGED <<now, registered, sealing, made, opened, claimed, approved, refused, forgotten>>
  BY DEF Acknowledge
<1>10. Granted(e, dev)'
  <2>1. \E a \in claimed : a[1] = e /\ a[2] = rec[e].claim
    BY <1>7
  <2> QED
    BY <1>4, <1>7, <1>9, <2>1 DEF Granted
<1>11. ASSUME NEW d \in DOMAIN next.devices \ DOMAIN disk.devices PROVE d = e /\ Granted(d, next.devices[d])'
  <2>1. d = e /\ next.devices[d] = dev
    BY <1>5, <1>11
  <2> QED
    BY <1>10, <2>1
<1>12. CASE /\ Committed(next) /\ Become(e, done)
            /\ paired' = paired \cup {e} /\ UNCHANGED <<unsure, faults>>
  <2>1. Onward
    BY <1>2, <1>9, <1>12 DEF Onward
  <2>2. Files' = {next} /\ cached' = disk'
    BY <1>12, WriteKeeps
  <2>3. BookTyped'
    BY <1>9, <1>12, <2>2 DEF EnrolmentInv, EnrolmentTyped, BookTyped
  <2>4. rec' \in [DeviceIds -> EnrolmentRecords] /\ rec'[e] = done
        /\ \A x \in DeviceIds \ {e} : rec'[x] \in {rec[x], Records[x]}
    BY <1>6, <1>12, OneRecord DEF Become
  <2>5. \A x \in DeviceIds \ {e} : Untouched(x)
    BY <1>9, <1>12, <2>4 DEF Untouched
  <2>6. RecordGood(e)'
    <3>1. RecordTyped(rec[e])'
      BY <1>6, <1>7, <2>4 DEF RecordTyped
    <3>2. RecordOk(e, rec[e])'
      <4>1. RecordOk(e, Records[e]) /\ Records[e].claim = rec[e].claim /\ Records[e].expiresAt = rec[e].expiresAt
        BY <1>1
      <4> QED
        BY <1>6, <1>7, <1>9, <2>4, <4>1 DEF RecordOk
    <3> QED
      BY <3>1, <3>2 DEF RecordGood
  <2>7. Settled(e)'
    BY <1>6, <1>7, <1>9, <2>4 DEF Settled
  <2>8. \A s \in Files' : /\ \A a \in claimed' \ claimed : Remembers(s, a[1], a[3])
                          /\ \A d \in paired' \ (paired \cup unsure') : d \in LiveIn(s)
    BY <1>5, <1>9, <1>12, <2>2
  <2>9. \A x \in DeviceIds : RecordGood(x)' /\ (x \in made /\ Settled(x) => Settled(x)')
    BY <1>8, <2>5, <2>6, UntouchedGood
  <2>10. \A d \in DOMAIN next.devices \ DOMAIN disk.devices :
            Granted(d, next.devices[d])' /\ (d \in unsure' \/ Settled(d)')
    BY <1>11, <2>7
  <2>11. Files' \subseteq Files \cup {next}
    BY <2>2
  <2> QED
    BY <1>5, <2>1, <2>3, <2>4, <2>8, <2>9, <2>10, <2>11, Assembled
<1>13. CASE /\ \/ Uncertain(next) /\ unsure' = unsure \cup {e}
               \/ NotWritten /\ UNCHANGED unsure
            /\ rec' = Records /\ UNCHANGED paired /\ faults' \in 0..MaxFaults
  <2>1. Onward
    BY <1>2, <1>9, <1>13 DEF Onward
  <2>2. Files' \subseteq Files \cup {next} /\ cached' = disk'
    BY <1>13, WriteKeeps
  <2>3. BookTyped'
    BY <1>9, <1>13, <2>2 DEF EnrolmentInv, EnrolmentTyped, BookTyped
  <2>4. \A x \in DeviceIds : Untouched(x)
    BY <1>9, <1>13 DEF Untouched
  <2>5. \A x \in DeviceIds : RecordGood(x)' /\ (x \in made /\ Settled(x) => Settled(x)')
    BY <2>4, UntouchedGood
  <2>6. rec' \in [DeviceIds -> EnrolmentRecords]
    BY <1>13, AllRecords
  <2>7. CASE Uncertain(next) /\ unsure' = unsure \cup {e}
    <3>1. \A d \in DOMAIN next.devices \ DOMAIN disk.devices :
              Granted(d, next.devices[d])' /\ (d \in unsure' \/ Settled(d)')
      BY <1>11, <2>7
    <3> QED
      BY <1>5, <1>9, <1>13, <2>1, <2>2, <2>3, <2>5, <2>6, <3>1, Assembled
  <2>8. CASE NotWritten
    BY <1>9, <1>13, <2>1, <2>3, <2>5, <2>6, <2>8, WriteKeeps, AssembledQuiet
  <2> QED
    BY <1>13, <2>7, <2>8
<1>14. Fault \/ UNCHANGED faults => faults' \in 0..MaxFaults
  BY EnrolmentAssumption DEF Fault, EnrolmentInv, EnrolmentTyped, BookTyped
<1> QED
  BY <1>p, <1>12, <1>13, <1>14 DEF Acknowledge, Base, done

-----------------------------------------------------------------------------
LEMMA InitEnrolment == Init => EnrolmentInv
<1> SUFFICES ASSUME Init PROVE EnrolmentInv
  OBVIOUS
<1>1. disk \in Sidecars /\ DOMAIN disk.devices = {} /\ limbo = {}
  <2>1. [d \in {} |-> 0] \in [{} -> Devices]
    OBVIOUS
  <2>2. {[key |-> k, expiresAt |-> 0] : k \in OldKeys} \in SUBSET SpentKeys
    BY DEF SpentKeys
  <2> QED
    BY <2>1, <2>2, SidecarIntro DEF Init
<1>2. Files = {disk}
  BY <1>1 DEF Files
<1>3. EnrolmentTyped
  BY NoRecordIsOne, EnrolmentAssumption DEF Init, EnrolmentTyped, BookTyped
<1>4. FileOk(disk) /\ Final(disk)
  BY <1>1 DEF Init, FileOk, Final
<1> QED
  BY <1>1, <1>2, <1>3, <1>4 DEF EnrolmentInv, Init

LEMMA StutterStep == ASSUME EnrolmentInv, UNCHANGED vars PROVE EnrolmentInv'
<1>1. rec' = rec /\ Files' = Files /\ Onward /\ BookTyped' /\ claimed' = claimed /\ paired' = paired
  BY EnrolmentAssumption
     DEF vars, storeVars, memory, history, Files, Onward, EnrolmentInv, EnrolmentTyped, BookTyped
<1>2. \A x \in DeviceIds : Untouched(x)
  BY <1>1 DEF vars, memory, history, Untouched
<1> QED
  BY <1>1, <1>2, AllRecords, UntouchedGood, AssembledQuiet

LEMMA EnrolmentStep == EnrolmentInv /\ [Next]_vars => EnrolmentInv'
<1> SUFFICES ASSUME EnrolmentInv, [Next]_vars PROVE EnrolmentInv'
  OBVIOUS
<1>1. CASE Status
  BY <1>1, StatusStep
<1>2. ASSUME NEW e \in DeviceIds, Create(e) \/ Approve(e) \/ Sealed(e) \/ Reject(e) \/ Delete(e) \/ Dismiss(e)
      PROVE  EnrolmentInv'
  BY <1>2, CreateStep, ApproveStep, SealedStep, RejectStep, DeleteStep, DismissStep
<1>3. ASSUME NEW e \in DeviceIds, NEW p \in Phones, Claim(e, p) \/ ClaimAgain(e, p)
      PROVE  EnrolmentInv'
  BY <1>3, ClaimStep, ClaimAgainStep
<1>4. ASSUME NEW e \in DeviceIds,
             ClaimUnknown(e) \/ Retrieve(e) \/ AcknowledgeAgain(e) \/ Acknowledge(e) \/ Revoke(e)
      PROVE  EnrolmentInv'
  BY <1>4, ClaimUnknownStep, RetrieveStep, AcknowledgeAgainStep, AcknowledgeStep, RevokeStep
<1>5. CASE Restart
  BY <1>5, RestartStep
<1>6. CASE Tick
  BY <1>6, TickStep
<1>7. CASE UNCHANGED vars
  BY <1>7, StutterStep
<1> QED
  BY <1>1, <1>2, <1>3, <1>4, <1>5, <1>6, <1>7 DEF Next

LEMMA EnrolmentInvariance == Spec => []EnrolmentInv
<1>1. Init => EnrolmentInv
  BY InitEnrolment
<1> QED
  BY <1>1, EnrolmentStep, PTL DEF Spec

(* Every state of an enrolment and of the files it is kept in is well typed. *)
THEOREM TypeCorrect == Spec => []TypeOK
<1>1. EnrolmentInv => TypeOK
  <2> SUFFICES ASSUME EnrolmentInv PROVE TypeOK
    OBVIOUS
  <2>1. IsSidecar(disk) /\ \A s \in limbo : IsSidecar(s)
    BY SidecarIs DEF EnrolmentInv, Files
  <2> QED
    BY <2>1 DEF EnrolmentInv, EnrolmentTyped, BookTyped, TypeOK, RecordTyped, EnrolmentRecords, RecordOk
<1> QED
  BY <1>1, EnrolmentInvariance, PTL

(* enrolment.js and enrolment-registry.js: a device in the file is the one
   phone's that claimed the key and that the owner approved, was made within
   the enrolment's own time, and is not one the owner was told is rejected. *)
THEOREM ApprovedPhonesOnly == Spec => []OnlyApprovedPhones
<1>1. EnrolmentInv => OnlyApprovedPhones
  <2> SUFFICES ASSUME EnrolmentInv PROVE OnlyApprovedPhones
    OBVIOUS
  <2>1. FileOk(disk) /\ Final(disk)
    BY DiskIsGood
  <2>2. OneClaimant
    BY <2>1 DEF OneClaimant, FileOk, Granted, EnrolmentInv, EnrolmentTyped, BookTyped
  <2>3. ActivatedInTime
    BY <2>1 DEF ActivatedInTime, FileOk, Granted
  <2>4. RejectedStaysOut
    BY <2>1 DEF RejectedStaysOut, Final, Settled
  <2> QED
    BY <2>2, <2>3, <2>4 DEF OnlyApprovedPhones
<1> QED
  BY <1>1, EnrolmentInvariance, PTL

(* A phone that was told that its key is used, or that it is paired, is told
   so again after any restart or power cut. *)
THEOREM NothingIsForgotten == Spec => []RestartForgetsNothing
<1>1. EnrolmentInv => RestartForgetsNothing
  <2> SUFFICES ASSUME EnrolmentInv PROVE RestartForgetsNothing
    OBVIOUS
  <2>1. FileOk(disk) /\ View = disk
    BY DiskIsGood, ViewIsDisk
  <2>2. SpentKeyIsRemembered
    BY <2>1 DEF SpentKeyIsRemembered, FileOk, Remembers
  <2>3. PairedStaysPaired
    BY <2>1 DEF PairedStaysPaired, FileOk
  <2> QED
    BY <2>2, <2>3 DEF RestartForgetsNothing
<1> QED
  BY <1>1, EnrolmentInvariance, PTL
-----------------------------------------------------------------------------
(* What a request, a transfer and a draft are, whatever their number. *)
Askings == {Idle}
           \cup [at : {"discover"}, browser : Browsers, old : Nat, form : Nat]
           \cup [at : {"draw"}, browser : Browsers, old : Nat, form : Nat, bundle : Nat]

Transfers == [bundle : Nat, form : Nat, browser : Browsers,
              stage : {"fresh", "expired", "grace", "over"}, reserves : Nat]

IsDraft(d) == d \in [browser : Browsers, bundle : Nat, form : Nat, old : BOOLEAN,
                     inFlight : BOOLEAN, entered : {d.entered}]

Works(r) == request[r].at # "idle"
Draws(r) == request[r].at = "draw"

(* Whether a request has still to show the transfer of this number. *)
Shown(b) == \A r \in Requests : Draws(r) => request[r].bundle # b

PairingTyped ==
    /\ bundles \in Nat /\ request \in [Requests -> Askings]
    /\ transfers \subseteq Transfers /\ \A d \in drafts : IsDraft(d)
    /\ newest \in [Browsers -> Nat]

(* Numbers are given out once: none of them is 0, or still to be given. *)
Given ==
    /\ \A e \in transfers : e.bundle \in 1 .. bundles /\ e.form \in 1 .. bundles
    /\ \A d \in drafts : d.bundle \in 1 .. bundles /\ d.form \in 1 .. bundles
    /\ \A r \in Requests : Works(r) =>
          /\ request[r].old \in 0 .. bundles /\ request[r].form \in 0 .. bundles
          /\ request[r].old # 0 => request[r].form # 0
          /\ request[r].old = 0 => request[r].form = IF Draws(r) THEN request[r].bundle ELSE 0
    /\ \A r \in Requests : Draws(r) => request[r].bundle \in 1 .. bundles /\ request[r].form # 0

(* A transfer, the draft of a browser, and the work on a form are the only ones. *)
Alone ==
    /\ \A e, f \in transfers : e.bundle = f.bundle => e = f
    /\ \A c, d \in drafts : c.browser = d.browser \/ c.form = d.form \/ c.bundle = d.bundle => c = d
    /\ \A q, r \in Requests : Works(q) /\ Works(r) /\ request[q].form # 0
                              /\ request[q].form = request[r].form => q = r
    /\ \A q, r \in Requests : Draws(q) /\ Draws(r) /\ request[q].bundle = request[r].bundle => q = r

(* A draft is worked on by the request that marked it, for as long as it is
   there; what that request draws is not yet the draft's. *)
Held ==
    /\ \A d \in drafts, r \in Requests : Works(r) =>
          /\ request[r].form = d.form <=> request[r].old = d.bundle
          /\ request[r].old = d.bundle => d.inFlight = TRUE /\ d.browser = request[r].browser
    /\ \A d \in drafts : d.inFlight = TRUE => \E r \in Requests : Works(r) /\ request[r].old = d.bundle
    /\ \A d \in drafts : d.form = newest[d.browser]
    /\ \A r \in Requests : Draws(r) =>
          /\ \A e \in transfers : e.bundle = request[r].bundle => e.form = request[r].form
          /\ \A d \in drafts : d.bundle # request[r].bundle
          /\ \A q \in Requests : Works(q) => request[q].old # request[r].bundle

(* Of the transfers of a form that have been shown one is left, the draft's. *)
LastShown ==
    /\ \A e, f \in transfers : e.form = f.form /\ Shown(e.bundle) /\ Shown(f.bundle) => e = f
    /\ \A e \in transfers, d \in drafts : e.form = d.form /\ Shown(e.bundle) => e.bundle = d.bundle
    /\ \A r \in Requests, e \in transfers :
          Works(r) /\ request[r].form = e.form /\ Shown(e.bundle) => request[r].old = e.bundle

PairingInv == PairingTyped /\ Given /\ Alone /\ Held /\ LastShown

-----------------------------------------------------------------------------
LEMMA Askeds ==
    ASSUME NEW x \in Askings
    PROVE  /\ x.at \in {"idle", "discover", "draw"}
           /\ x.at = "idle" <=> x = Idle
           /\ x.at # "idle" => x.browser \in Browsers /\ x.old \in Nat /\ x.form \in Nat
           /\ x.at = "draw" => x.bundle \in Nat
BY DEF Askings, Idle

LEMMA InitPairing == PairingInit => PairingInv
<1> SUFFICES ASSUME PairingInit PROVE PairingInv
  OBVIOUS
<1>1. transfers = {} /\ drafts = {} /\ bundles = 0
  BY DEF PairingInit
<1>2. request \in [Requests -> Askings] /\ \A r \in Requests : request[r].at = "idle"
  BY DEF PairingInit, Askings, Idle
<1>3. newest \in [Browsers -> Nat]
  BY DEF PairingInit
<1> QED
  BY <1>1, <1>2, <1>3 DEF PairingInv, PairingTyped, Given, Alone, Held, LastShown, Works, Draws

(* Transfers that are redeemed, run out or go. *)
LEMMA TransfersGo ==
    ASSUME PairingInv, UNCHANGED <<drafts, request, bundles, newest>>,
           transfers' \subseteq Transfers,
           \A e \in transfers' : \E f \in transfers : f.bundle = e.bundle /\ f.form = e.form,
           \A e, f \in transfers' : e.bundle = f.bundle => e = f
    PROVE  PairingInv'
<1>1. PairingTyped' /\ Given' /\ Alone'
  BY DEF PairingInv, PairingTyped, Given, Alone, Works, Draws, IsDraft
<1>2. Held'
  BY DEF PairingInv, Held, Works, Draws
<1>3. LastShown'
  BY DEF PairingInv, LastShown, Works, Draws, Shown
<1> QED
  BY <1>1, <1>2, <1>3 DEF PairingInv

LEMMA ATransfer ==
    ASSUME NEW e \in Transfers, NEW s \in {"fresh", "expired", "grace", "over"}
    PROVE  /\ [e EXCEPT !.stage = s] \in Transfers
           /\ [e EXCEPT !.stage = s].bundle = e.bundle /\ [e EXCEPT !.stage = s].form = e.form
           /\ [e EXCEPT !.stage = s].stage = s /\ [e EXCEPT !.stage = s].reserves = e.reserves
           /\ [e EXCEPT !.reserves = @ + 1] \in Transfers
           /\ [e EXCEPT !.reserves = @ + 1].bundle = e.bundle /\ [e EXCEPT !.reserves = @ + 1].form = e.form
           /\ [e EXCEPT !.reserves = @ + 1].stage = e.stage
           /\ [e EXCEPT !.reserves = @ + 1].reserves = e.reserves + 1
BY DEF Transfers

LEMMA OneBecomes ==
    ASSUME PairingInv, UNCHANGED <<drafts, request, bundles, newest>>, NEW e \in transfers,
           NEW f \in Transfers, f.bundle = e.bundle, f.form = e.form,
           transfers' \in {Becomes(transfers, e, f), transfers \ {e}}
    PROVE  PairingInv'
<1>1. transfers' \subseteq Transfers
  BY DEF PairingInv, PairingTyped, Becomes
<1>2. \A x \in transfers' : x = f \/ (x \in transfers /\ x # e)
  BY DEF Becomes
<1>3. \A x \in transfers : x # e => x.bundle # e.bundle
  BY DEF PairingInv, Alone
<1>4. \A x, y \in transfers' : x.bundle = y.bundle => x = y
  BY <1>2, <1>3 DEF PairingInv, Alone
<1>5. \A x \in transfers' : \E y \in transfers : y.bundle = x.bundle /\ y.form = x.form
  BY <1>2
<1> QED
  BY <1>1, <1>4, <1>5, TransfersGo

LEMMA TransferSteps ==
    ASSUME PairingInv, NEW e \in transfers, consumeRedeem(e) \/ consumeFile(e) \/ TransferAges(e)
    PROVE  PairingInv'
<1>1. e \in Transfers
  BY DEF PairingInv, PairingTyped
<1>2. UNCHANGED <<drafts, request, bundles, newest>>
  BY DEF consumeRedeem, consumeFile, TransferAges, Others
<1>3. \/ transfers' = transfers \ {e}
      \/ transfers' = Becomes(transfers, e, [e EXCEPT !.reserves = @ + 1])
      \/ \E s \in {"fresh", "expired", "grace", "over"} : transfers' = Becomes(transfers, e, [e EXCEPT !.stage = s])
  BY DEF consumeRedeem, consumeFile, TransferAges
<1>4. CASE transfers' = transfers \ {e}
  BY <1>1, <1>2, <1>4, OneBecomes
<1>5. CASE transfers' = Becomes(transfers, e, [e EXCEPT !.reserves = @ + 1])
  <2> DEFINE f == [e EXCEPT !.reserves = @ + 1]
  <2>1. f \in Transfers /\ f.bundle = e.bundle /\ f.form = e.form
    BY <1>1, ATransfer
  <2> HIDE DEF f
  <2>2. transfers' = Becomes(transfers, e, f)
    BY <1>5 DEF f
  <2> QED
    BY <1>2, <2>1, <2>2, OneBecomes
<1>6. ASSUME NEW s \in {"fresh", "expired", "grace", "over"},
             transfers' = Becomes(transfers, e, [e EXCEPT !.stage = s])
      PROVE  PairingInv'
  <2> DEFINE f == [e EXCEPT !.stage = s]
  <2>1. f \in Transfers /\ f.bundle = e.bundle /\ f.form = e.form
    BY <1>1, ATransfer
  <2> HIDE DEF f
  <2>2. transfers' = Becomes(transfers, e, f)
    BY <1>6 DEF f
  <2> QED
    BY <1>2, <2>1, <2>2, OneBecomes
<1> QED
  BY <1>3, <1>4, <1>5, <1>6
-----------------------------------------------------------------------------
(* Drafts that are marked, given back, grow old or go. *)
DraftsStay ==
    /\ \A x \in drafts' : IsDraft(x) /\ \E d \in drafts :
          x.browser = d.browser /\ x.bundle = d.bundle /\ x.form = d.form
    /\ \A c, d \in drafts' : c.browser = d.browser \/ c.form = d.form \/ c.bundle = d.bundle => c = d

ADraft(d, f) ==
    IsDraft(f) /\ f.browser = d.browser /\ f.bundle = d.bundle /\ f.form = d.form

LEMMA OneDraftBecomes ==
    ASSUME PairingInv, NEW d \in drafts, NEW f, ADraft(d, f), drafts' = Becomes(drafts, d, f)
    PROVE  /\ DraftsStay
           /\ \A x \in drafts' : x = f \/ (x \in drafts /\ x # d /\ x.bundle # d.bundle)
<1>1. \A x \in drafts' : x = f \/ (x \in drafts /\ x # d)
  BY DEF Becomes
<1>2. \A x \in drafts : IsDraft(x)
  BY DEF PairingInv, PairingTyped
<1>3. \A c, e \in drafts : c.browser = e.browser \/ c.form = e.form \/ c.bundle = e.bundle => c = e
  BY DEF PairingInv, Alone
<1>4. \A x \in drafts' : IsDraft(x) /\ \E e \in drafts :
          x.browser = e.browser /\ x.bundle = e.bundle /\ x.form = e.form
  BY <1>1, <1>2 DEF ADraft
<1>5. \A c, e \in drafts' : c.browser = e.browser \/ c.form = e.form \/ c.bundle = e.bundle => c = e
  BY <1>1, <1>3 DEF ADraft
<1>6. \A x \in drafts : x # d => x.bundle # d.bundle
  BY <1>3
<1> QED
  BY <1>1, <1>4, <1>5, <1>6 DEF DraftsStay

LEMMA ADraftChanges ==
    ASSUME NEW d, IsDraft(d)
    PROVE  /\ \A busy \in BOOLEAN : ADraft(d, [d EXCEPT !.inFlight = busy])
                                    /\ [d EXCEPT !.inFlight = busy].inFlight = busy
           /\ ADraft(d, [d EXCEPT !.old = TRUE])
           /\ [d EXCEPT !.old = TRUE].inFlight = d.inFlight
BY DEF ADraft, IsDraft

LEMMA DraftsAge ==
    ASSUME PairingInv, NEW d \in drafts, DraftAges(d)
    PROVE  PairingInv'
<1> DEFINE f == [d EXCEPT !.old = TRUE]
<1>1. IsDraft(d)
  BY DEF PairingInv, PairingTyped
<1>2. ADraft(d, f) /\ f.inFlight = d.inFlight
  BY <1>1, ADraftChanges
<1>3. drafts' = Becomes(drafts, d, f) /\ UNCHANGED <<transfers, request, bundles, newest>>
  BY DEF DraftAges, Others
<1> HIDE DEF f
<1>4. DraftsStay /\ \A x \in drafts' : x = f \/ x \in drafts
  BY <1>2, <1>3, OneDraftBecomes
<1>5. \A x \in drafts' : \E c \in drafts :
         x.browser = c.browser /\ x.bundle = c.bundle /\ x.form = c.form /\ x.inFlight = c.inFlight
  BY <1>2, <1>4 DEF ADraft
<1>6. PairingTyped' /\ Given'
  BY <1>3, <1>4 DEF PairingInv, PairingTyped, Given, DraftsStay, Works, Draws, IsDraft
<1>7. Alone'
  BY <1>3, <1>4 DEF PairingInv, Alone, DraftsStay, Works, Draws
<1>8. Held'
  BY <1>3, <1>5 DEF PairingInv, Held, Works, Draws
<1>9. LastShown'
  BY <1>3, <1>5 DEF PairingInv, LastShown, Works, Draws, Shown
<1> QED
  BY <1>6, <1>7, <1>8, <1>9 DEF PairingInv

-----------------------------------------------------------------------------
(* A request is asked, or moves on, and no other one does. *)
Moves(r, x) == request' = [request EXCEPT ![r] = x] /\ x \in Askings

LEMMA Moved ==
    ASSUME PairingInv, NEW r \in Requests, NEW x, Moves(r, x)
    PROVE  /\ request' \in [Requests -> Askings] /\ request'[r] = x
           /\ \A q \in Requests : q # r => request'[q] = request[q]
BY DEF PairingInv, PairingTyped, Moves

LEMMA Posts ==
    ASSUME PairingInv, NEW r \in Requests, NEW s \in Browsers, Post(r, s)
    PROVE  PairingInv'
<1> DEFINE x == [at |-> "discover", browser |-> s, old |-> 0, form |-> 0]
<1>1. Moves(r, x)
  BY DEF Moves, Post, Askings
<1>2. UNCHANGED <<transfers, drafts, bundles, newest>> /\ request[r].at = "idle"
  BY DEF Post, Others, Idle
<1>3. x.at = "discover" /\ x.old = 0 /\ x.form = 0
  OBVIOUS
<1> HIDE DEF x
<1>4. /\ request' \in [Requests -> Askings] /\ request'[r] = x
      /\ \A q \in Requests : q # r => request'[q] = request[q]
  BY <1>1, Moved
<1>5. bundles \in Nat
  BY DEF PairingInv, PairingTyped
<1>6. PairingTyped'
  BY <1>2, <1>4 DEF PairingInv, PairingTyped, IsDraft
<1>7. Given'
  BY <1>2, <1>3, <1>4, <1>5 DEF PairingInv, Given, Works, Draws
<1>8. Alone'
  BY <1>2, <1>3, <1>4 DEF PairingInv, Alone, Works, Draws
<1>9. Held'
  <2>1. \A d \in drafts : d.bundle # 0 /\ d.form # 0
    BY <1>5 DEF PairingInv, Given
  <2>2. \A q \in Requests : Draws(q) => request[q].bundle # 0
    BY <1>5 DEF PairingInv, Given
  <2> QED
    BY <1>2, <1>3, <1>4, <2>1, <2>2 DEF PairingInv, Held, Works, Draws
<1>10. LastShown'
  <2>1. \A e \in transfers : e.form # 0
    BY <1>5 DEF PairingInv, Given
  <2>2. \A b : Shown(b)' <=> Shown(b)
    BY <1>2, <1>3, <1>4 DEF Shown, Draws
  <2> QED
    BY <1>2, <1>3, <1>4, <2>1, <2>2 DEF PairingInv, LastShown, Works
<1> QED
  BY <1>6, <1>7, <1>8, <1>9, <1>10 DEF PairingInv

LEMMA Takes ==
    ASSUME PairingInv, NEW r \in Requests, NEW s \in Browsers, takePairDraft(r, s)
    PROVE  PairingInv'
<1>1. PICK d \in DraftOf(s) :
         /\ ~d.inFlight
         /\ IF d.old
            THEN drafts' = drafts \ {d} /\ UNCHANGED request
            ELSE /\ drafts' = Marked(d, TRUE)
                 /\ request' = [request EXCEPT ![r] =
                      [at |-> "discover", browser |-> s, old |-> d.bundle, form |-> d.form]]
  BY DEF takePairDraft
<1>2. UNCHANGED <<transfers, bundles, newest>> /\ request[r].at = "idle"
  BY DEF takePairDraft, Others, Idle
<1>3. d \in drafts /\ d.browser = s /\ IsDraft(d) /\ d.inFlight # TRUE
  BY <1>1 DEF DraftOf, PairingInv, PairingTyped
<1>4. CASE d.old
  <2>1. drafts' \subseteq drafts /\ UNCHANGED request
    BY <1>1, <1>4
  <2>2. PairingTyped' /\ Given'
    BY <1>2, <2>1 DEF PairingInv, PairingTyped, Given, Works, Draws, IsDraft
  <2>3. Alone'
    BY <1>2, <2>1 DEF PairingInv, Alone, Works, Draws
  <2>4. Held'
    BY <1>2, <2>1 DEF PairingInv, Held, Works, Draws
  <2>5. LastShown'
    BY <1>2, <2>1 DEF PairingInv, LastShown, Works, Draws, Shown
  <2> QED
    BY <2>2, <2>3, <2>4, <2>5 DEF PairingInv
<1>5. CASE ~d.old
  <2> DEFINE x == [at |-> "discover", browser |-> s, old |-> d.bundle, form |-> d.form]
             f == [d EXCEPT !.inFlight = TRUE]
  <2>1. x \in Askings /\ x.at = "discover" /\ x.old = d.bundle /\ x.form = d.form /\ x.browser = s
    BY <1>3 DEF Askings, IsDraft
  <2>2. Moves(r, x)
    BY <1>1, <1>5, <2>1 DEF Moves
  <2>3. ADraft(d, f) /\ f.inFlight = TRUE
    BY <1>3, ADraftChanges
  <2>4. drafts' = Becomes(drafts, d, f)
    BY <1>1, <1>5 DEF Marked
  <2> HIDE DEF x, f
  <2>5. /\ request' \in [Requests -> Askings] /\ request'[r] = x
        /\ \A q \in Requests : q # r => request'[q] = request[q]
    BY <2>2, Moved
  <2>6. /\ DraftsStay
        /\ \A y \in drafts' : y = f \/ (y \in drafts /\ y # d /\ y.bundle # d.bundle)
    BY <1>3, <2>3, <2>4, OneDraftBecomes
  <2>7. \A y \in drafts' : \E c \in drafts :
           /\ y.browser = c.browser /\ y.bundle = c.bundle /\ y.form = c.form
           /\ c = d => y.inFlight = TRUE
           /\ c # d => y.inFlight = c.inFlight
    BY <1>3, <2>3, <2>6 DEF ADraft
  <2>8. /\ \A q \in Requests : Works(q) => request[q].form # d.form /\ request[q].old # d.bundle
        /\ d.bundle \in 1 .. bundles /\ d.form \in 1 .. bundles /\ bundles \in Nat
        /\ d.form = newest[s]
        /\ \A q \in Requests : Draws(q) => d.bundle # request[q].bundle
        /\ \A c \in drafts : c.form = d.form \/ c.bundle = d.bundle => c = d
    <3>1. \A q \in Requests : Works(q) => request[q].form # d.form /\ request[q].old # d.bundle
      BY <1>3 DEF PairingInv, Held
    <3>2. d.bundle \in 1 .. bundles /\ d.form \in 1 .. bundles /\ bundles \in Nat
      BY <1>3 DEF PairingInv, PairingTyped, Given
    <3>3. d.form = newest[s] /\ \A q \in Requests : Draws(q) => d.bundle # request[q].bundle
      BY <1>3 DEF PairingInv, Held
    <3>4. \A c \in drafts : c.form = d.form \/ c.bundle = d.bundle => c = d
      BY <1>3 DEF PairingInv, Alone
    <3> QED
      BY <3>1, <3>2, <3>3, <3>4
  <2>9. PairingTyped'
    BY <1>2, <2>5, <2>6 DEF PairingInv, PairingTyped, DraftsStay, IsDraft
  <2>10. Given'
    <3>1. \A y \in drafts' : y.bundle \in 1 .. bundles /\ y.form \in 1 .. bundles
      BY <2>7 DEF PairingInv, Given
    <3> QED
      BY <1>2, <2>1, <2>5, <2>8, <3>1 DEF PairingInv, Given, Works, Draws
  <2>11. Alone'
    <3>1. \A e, g \in transfers' : e.bundle = g.bundle => e = g
      BY <1>2 DEF PairingInv, Alone
    <3>2. \A p, q \in Requests : Works(p)' /\ Works(q)' /\ request'[p].form # 0
                                /\ request'[p].form = request'[q].form => p = q
      BY <2>1, <2>5, <2>8 DEF PairingInv, Alone, Works
    <3>3. \A p, q \in Requests : Draws(p)' /\ Draws(q)'
                                /\ request'[p].bundle = request'[q].bundle => p = q
      BY <2>1, <2>5 DEF PairingInv, Alone, Draws
    <3> QED
      BY <2>6, <3>1, <3>2, <3>3 DEF Alone, DraftsStay
  <2>12. Held'
    <3>1. ASSUME NEW y \in drafts', NEW q \in Requests, Works(q)'
          PROVE  /\ request'[q].form = y.form <=> request'[q].old = y.bundle
                 /\ request'[q].old = y.bundle => y.inFlight = TRUE /\ y.browser = request'[q].browser
      BY <1>3, <2>1, <2>5, <2>7, <2>8, <3>1 DEF PairingInv, Held, Works
    <3>2. ASSUME NEW y \in drafts', y.inFlight = TRUE
          PROVE  \E q \in Requests : Works(q)' /\ request'[q].old = y.bundle
      <4>1. CASE y = f
        BY <2>1, <2>3, <2>5, <4>1 DEF ADraft, Works
      <4>2. CASE y \in drafts
        <5>1. PICK q \in Requests : Works(q) /\ request[q].old = y.bundle
          BY <3>2, <4>2 DEF PairingInv, Held
        <5> QED
          BY <1>2, <2>5, <5>1 DEF Works
      <4> QED
        BY <2>6, <4>1, <4>2
    <3>3. \A y \in drafts' : y.form = newest'[y.browser]
      BY <1>2, <2>7 DEF PairingInv, Held
    <3>4. ASSUME NEW q \in Requests, Draws(q)'
          PROVE  /\ \A e \in transfers' : e.bundle = request'[q].bundle => e.form = request'[q].form
                 /\ \A y \in drafts' : y.bundle # request'[q].bundle
                 /\ \A p \in Requests : Works(p)' => request'[p].old # request'[q].bundle
      <4>1. q # r /\ Draws(q) /\ request'[q] = request[q]
        BY <2>1, <2>5, <3>4 DEF Draws
      <4> QED
        BY <1>2, <2>1, <2>5, <2>7, <2>8, <4>1 DEF PairingInv, Held, Works
    <3> QED
      BY <3>1, <3>2, <3>3, <3>4 DEF Held
  <2>13. LastShown'
    <3>1. \A b : Shown(b)' <=> Shown(b)
      BY <1>2, <2>1, <2>5 DEF Shown, Draws
    <3>2. \A e \in transfers : e.form = d.form /\ Shown(e.bundle) => e.bundle = d.bundle
      BY <1>3 DEF PairingInv, LastShown
    <3> QED
      BY <1>2, <2>1, <2>5, <2>7, <3>1, <3>2 DEF PairingInv, LastShown, Works
  <2> QED
    BY <2>9, <2>10, <2>11, <2>12, <2>13 DEF PairingInv
<1> QED
  BY <1>4, <1>5
(* What a request gives back is no longer marked. *)
LEMMA Returned ==
    ASSUME PairingInv, NEW r \in Requests, Works(r), drafts' = GiveBack(r)
    PROVE  /\ DraftsStay
           /\ \A y \in drafts' : y.inFlight = TRUE => y.bundle # request[r].old
           /\ \A y \in drafts' : y.bundle # request[r].old => y \in drafts
<1>1. \A d \in drafts : IsDraft(d) /\ (request[r].old = d.bundle => d.browser = request[r].browser)
  BY DEF PairingInv, PairingTyped, Held
<1>2. \A d \in drafts : d \in StillHeld(r) <=> d.bundle = request[r].old
  BY <1>1 DEF StillHeld, DraftOf
<1>3. \A c, d \in drafts : c.browser = d.browser \/ c.form = d.form \/ c.bundle = d.bundle => c = d
  BY DEF PairingInv, Alone
<1>4. CASE StillHeld(r) = {}
  <2>1. drafts' = drafts
    BY <1>4 DEF GiveBack
  <2> QED
    BY <1>1, <1>2, <1>3, <1>4, <2>1 DEF DraftsStay
<1>5. CASE StillHeld(r) # {}
  <2>1. PICK d \in StillHeld(r) : drafts' = Marked(d, FALSE)
    BY <1>5 DEF GiveBack
  <2>2. d \in drafts /\ d.bundle = request[r].old /\ IsDraft(d)
    BY <1>1, <1>2, <2>1 DEF StillHeld, DraftOf
  <2> DEFINE f == [d EXCEPT !.inFlight = FALSE]
  <2>3. ADraft(d, f) /\ f.inFlight = FALSE
    BY <2>2, ADraftChanges
  <2>4. drafts' = Becomes(drafts, d, f)
    BY <2>1 DEF Marked
  <2> HIDE DEF f
  <2>5. DraftsStay /\ \A x \in drafts' : x = f \/ (x \in drafts /\ x # d /\ x.bundle # d.bundle)
    BY <2>2, <2>3, <2>4, OneDraftBecomes
  <2> QED
    BY <2>2, <2>3, <2>5 DEF ADraft
<1> QED
  BY <1>4, <1>5

(* A request ends without a page: its transfer goes and its draft is given back. *)
LEMMA RequestEnds ==
    ASSUME PairingInv, NEW r \in Requests, Works(r), End(r), drafts' = GiveBack(r),
           UNCHANGED <<bundles, newest>>, transfers' \subseteq transfers,
           Draws(r) => \A e \in transfers' : e.bundle # request[r].bundle
    PROVE  PairingInv'
<1>1. Moves(r, Idle) /\ Idle.at = "idle"
  BY DEF Moves, End, Askings, Idle
<1>2. /\ request' \in [Requests -> Askings] /\ request'[r].at = "idle"
      /\ \A q \in Requests : q # r => request'[q] = request[q]
  BY <1>1, Moved
<1>3. \A q \in Requests : (Works(q)' => q # r /\ Works(q)) /\ (Draws(q)' => q # r /\ Draws(q))
  BY <1>2 DEF Works, Draws
<1>4. /\ DraftsStay
      /\ \A y \in drafts' : y.inFlight = TRUE => y.bundle # request[r].old
      /\ \A y \in drafts' : y.bundle # request[r].old => y \in drafts
  BY Returned
<1>5. \A y \in drafts' : \E c \in drafts : y.browser = c.browser /\ y.bundle = c.bundle /\ y.form = c.form
  BY <1>4 DEF DraftsStay
<1>6. PairingTyped'
  BY <1>2, <1>4 DEF PairingInv, PairingTyped, DraftsStay, IsDraft
<1>7. Given'
  <2>1. \A d \in drafts' : d.bundle \in 1 .. bundles /\ d.form \in 1 .. bundles
    BY <1>5 DEF PairingInv, Given
  <2> QED
    BY <1>2, <1>3, <2>1 DEF PairingInv, Given, Draws
<1>8. Alone'
  BY <1>2, <1>3, <1>4 DEF PairingInv, Alone, DraftsStay
<1>9. Held'
  <2>1. ASSUME NEW y \in drafts', NEW q \in Requests, Works(q)'
        PROVE  /\ request'[q].form = y.form <=> request'[q].old = y.bundle
               /\ request'[q].old = y.bundle => y.inFlight = TRUE /\ y.browser = request'[q].browser
    <3>1. q # r /\ Works(q) /\ Works(r) /\ request'[q] = request[q]
      BY <1>2, <1>3, <2>1
    <3>2. PICK c \in drafts : y.browser = c.browser /\ y.bundle = c.bundle /\ y.form = c.form
      BY <1>5
    <3>3. /\ request[q].form = c.form <=> request[q].old = c.bundle
          /\ request[q].old = c.bundle => c.inFlight = TRUE /\ c.browser = request[q].browser
          /\ request[r].form = c.form <=> request[r].old = c.bundle
      BY <3>1 DEF PairingInv, Held
    <3>4. c.form # 0
      BY DEF PairingInv, PairingTyped, Given
    <3>5. request[q].form # 0 /\ request[q].form = request[r].form => q = r
      BY <3>1 DEF PairingInv, Alone
    <3>6. request[q].old = c.bundle => c.bundle # request[r].old
      BY <3>1, <3>3, <3>4, <3>5
    <3>7. CASE request[q].old = c.bundle
      <4>1. c.bundle # request[r].old
        BY <3>6, <3>7
      <4>3. y \in drafts
        BY <1>4, <3>2, <4>1
      <4>4. \A a, d \in drafts : a.bundle = d.bundle => a = d
        BY DEF PairingInv, Alone
      <4>5. y = c
        BY <3>2, <4>3, <4>4
      <4> QED
        BY <3>1, <3>3, <4>5
    <3>8. CASE request[q].old # c.bundle
      BY <3>1, <3>2, <3>3, <3>8
    <3> QED
      BY <3>7, <3>8
  <2>2. ASSUME NEW y \in drafts', y.inFlight = TRUE
        PROVE  \E q \in Requests : Works(q)' /\ request'[q].old = y.bundle
    <3>1. y \in drafts /\ y.bundle # request[r].old
      BY <1>4, <2>2
    <3>2. PICK q \in Requests : Works(q) /\ request[q].old = y.bundle
      BY <2>2, <3>1 DEF PairingInv, Held
    <3> QED
      BY <1>2, <3>1, <3>2 DEF Works
  <2>3. \A y \in drafts' : y.form = newest'[y.browser]
    BY <1>5 DEF PairingInv, Held
  <2>4. ASSUME NEW q \in Requests, Draws(q)'
        PROVE  /\ \A e \in transfers' : e.bundle = request'[q].bundle => e.form = request'[q].form
               /\ \A y \in drafts' : y.bundle # request'[q].bundle
               /\ \A p \in Requests : Works(p)' => request'[p].old # request'[q].bundle
    <3>1. q # r /\ Draws(q) /\ request'[q] = request[q]
      BY <1>2, <1>3, <2>4
    <3> QED
      BY <1>2, <1>3, <1>5, <3>1 DEF PairingInv, Held
  <2> QED
    BY <2>1, <2>2, <2>3, <2>4 DEF Held
<1>10. LastShown'
  <2>1. \A e \in transfers' : e \in transfers /\ (Shown(e.bundle)' => Shown(e.bundle))
    BY <1>2 DEF Shown, Draws
  <2> QED
    BY <1>2, <1>3, <1>5, <2>1 DEF PairingInv, LastShown
<1> QED
  BY <1>6, <1>7, <1>8, <1>9, <1>10 DEF PairingInv

LEMMA Fails ==
    ASSUME PairingInv, NEW r \in Requests,
           \/ DrawFails(r)
           \/ /\ request[r].at = "discover"
              /\ End(r) /\ drafts' = GiveBack(r)
              /\ UNCHANGED transfers /\ Others
           \/ ShowReissued(r) /\ StillHeld(r) = {}
    PROVE  PairingInv'
<1>1. End(r) /\ UNCHANGED <<bundles, newest>> /\ Works(r)
  BY DEF DrawFails, ShowReissued, Others, Works
<1>2. drafts' = GiveBack(r)
  BY DEF DrawFails, ShowReissued, GiveBack
<1>3. transfers' \subseteq transfers /\ (Draws(r) => \A e \in transfers' : e.bundle # request[r].bundle)
  BY DEF DrawFails, ShowReissued, invalidateBundle, Draws
<1> QED
  BY <1>1, <1>2, <1>3, RequestEnds
-----------------------------------------------------------------------------
(* A new transfer has a number of its own, and is not shown yet. *)
LEMMA Created ==
    ASSUME PairingInv, NEW b \in Nat, NEW form \in Nat, NEW s \in Browsers,
           transfers' = create(b, form, s)
    PROVE  \E n \in Transfers : /\ n.bundle = b /\ n.form = form
                                /\ \A e \in transfers' : e = n \/ e \in transfers
<1> DEFINE n == [bundle |-> b, form |-> form, browser |-> s, stage |-> "fresh", reserves |-> 0]
<1>1. n \in Transfers /\ n.bundle = b /\ n.form = form
  BY DEF Transfers
<1>2. \A e \in transfers' : e = n \/ e \in transfers
  BY DEF create, cleanup
<1> HIDE DEF n
<1> QED
  BY <1>1, <1>2

LEMMA Builds ==
    ASSUME PairingInv, NEW r \in Requests, request[r].at = "discover",
           bundles' = bundles + 1,
           LET form == IF request[r].form = 0 THEN bundles' ELSE request[r].form IN
             /\ transfers' = create(bundles', form, request[r].browser)
             /\ request' = [request EXCEPT ![r] = [at |-> "draw", browser |-> @.browser, old |-> @.old,
                                                   form |-> form, bundle |-> bundles']],
           UNCHANGED <<drafts, newest, answers>>
    PROVE  PairingInv'
<1> DEFINE b == bundles + 1
           form == IF request[r].form = 0 THEN b ELSE request[r].form
           s == request[r].browser
           old == request[r].old
           x == [at |-> "draw", browser |-> s, old |-> old, form |-> form, bundle |-> b]
<1>1. /\ bundles \in Nat /\ b \in Nat /\ bundles' = b /\ form \in Nat /\ s \in Browsers /\ old \in Nat
      /\ Works(r) /\ ~Draws(r)
  BY Askeds DEF PairingInv, PairingTyped, Works, Draws
<1>2. /\ old \in 0 .. bundles /\ (old = 0 <=> request[r].form = 0)
      /\ form = b \/ (form = request[r].form /\ form \in 1 .. bundles)
      /\ old = 0 => form = b
      /\ old # 0 => form = request[r].form
  BY <1>1 DEF PairingInv, Given
<1>3. x.at = "draw" /\ x.old = old /\ x.form = form /\ x.bundle = b /\ x.browser = s
  OBVIOUS
<1>4. Moves(r, x)
  BY <1>1 DEF Moves, Askings
<1>5. transfers' = create(b, form, s) /\ UNCHANGED <<drafts, newest>>
  BY <1>1
<1> HIDE DEF b, form, s, old, x
<1>6. PICK n \in Transfers : /\ n.bundle = b /\ n.form = form
                             /\ \A e \in transfers' : e = n \/ e \in transfers
  BY <1>1, <1>5, Created
<1>7. /\ request' \in [Requests -> Askings] /\ request'[r] = x
      /\ \A q \in Requests : q # r => request'[q] = request[q]
  BY <1>4, Moved
<1>8. b = bundles + 1 /\ s = request[r].browser /\ old = request[r].old
  BY DEF b, s, old
<1>9. \A q \in Requests : /\ Works(q)' <=> Works(q)
                          /\ q # r => (Draws(q)' <=> Draws(q))
  BY <1>1, <1>3, <1>7 DEF Works, Draws
<1>10. PairingTyped'
  BY <1>1, <1>5, <1>6, <1>7 DEF PairingInv, PairingTyped, IsDraft
<1>11. Given'
  <2>1. \A e \in transfers' : e.bundle \in 1 .. b /\ e.form \in 1 .. b
    BY <1>1, <1>2, <1>6, <1>8 DEF PairingInv, Given
  <2>2. \A d \in drafts' : d.bundle \in 1 .. b /\ d.form \in 1 .. b
    BY <1>1, <1>5, <1>8 DEF PairingInv, Given
  <2>3. ASSUME NEW q \in Requests, Works(q)'
        PROVE  /\ request'[q].old \in 0 .. b /\ request'[q].form \in 0 .. b
               /\ request'[q].old # 0 => request'[q].form # 0
               /\ request'[q].old = 0 =>
                     request'[q].form = IF Draws(q)' THEN request'[q].bundle ELSE 0
               /\ Draws(q)' => request'[q].bundle \in 1 .. b /\ request'[q].form # 0
    <3>1. CASE q = r
      BY <1>1, <1>2, <1>3, <1>7, <1>8, <3>1 DEF Draws
    <3>2. CASE q # r
      <4>1. Works(q) /\ request'[q] = request[q] /\ (Draws(q)' <=> Draws(q))
        BY <1>7, <1>9, <2>3, <3>2
      <4> QED
        BY <1>1, <1>8, <4>1 DEF PairingInv, Given
    <3> QED
      BY <3>1, <3>2
  <2>4. \A q \in Requests : Draws(q)' => Works(q)'
    BY DEF Draws, Works
  <2> QED
    BY <1>1, <2>1, <2>2, <2>3, <2>4 DEF Given
<1>12. Alone'
  <2>1. \A e, f \in transfers' : e.bundle = f.bundle => e = f
    BY <1>1, <1>6, <1>8 DEF PairingInv, Given, Alone
  <2>2. \A c, d \in drafts' : c.browser = d.browser \/ c.form = d.form \/ c.bundle = d.bundle => c = d
    BY <1>5 DEF PairingInv, Alone
  <2>3. ASSUME NEW q \in Requests, Works(q), q # r PROVE request[q].form # form
    <3>1. request[q].form \in 0 .. bundles
      BY <2>3 DEF PairingInv, Given
    <3>2. CASE form = b
      BY <1>1, <1>8, <3>1, <3>2
    <3>3. CASE form = request[r].form /\ form \in 1 .. bundles
      BY <1>1, <2>3, <3>3 DEF PairingInv, Alone
    <3> QED
      BY <1>2, <3>2, <3>3
  <2>4. \A p, q \in Requests : Works(p)' /\ Works(q)' /\ request'[p].form # 0
                               /\ request'[p].form = request'[q].form => p = q
    <3>1. SUFFICES ASSUME NEW p \in Requests, NEW q \in Requests, p # q, Works(p)', Works(q)',
                          request'[p].form # 0, request'[p].form = request'[q].form
                   PROVE  FALSE
      OBVIOUS
    <3>2. CASE p # r /\ q # r
      BY <1>7, <1>9, <3>1, <3>2 DEF PairingInv, Alone
    <3>3. CASE p = r \/ q = r
      BY <1>3, <1>7, <1>9, <2>3, <3>1, <3>3
    <3> QED
      BY <3>2, <3>3
  <2>5. \A p, q \in Requests : Draws(p)' /\ Draws(q)' /\ request'[p].bundle = request'[q].bundle => p = q
    <3>1. \A q \in Requests : q # r /\ Draws(q)' => request'[q] = request[q] /\ request[q].bundle # b
      BY <1>1, <1>7, <1>8, <1>9 DEF PairingInv, Given
    <3> QED
      BY <1>3, <1>7, <1>9, <3>1 DEF PairingInv, Alone
  <2> QED
    BY <2>1, <2>2, <2>4, <2>5 DEF Alone
<1>13. Held'
  <2>1. ASSUME NEW d \in drafts, NEW q \in Requests, Works(q)
        PROVE  /\ request'[q].form = d.form <=> request'[q].old = d.bundle
               /\ request'[q].old = d.bundle => d.inFlight = TRUE /\ d.browser = request'[q].browser
    <3>1. /\ request[q].form = d.form <=> request[q].old = d.bundle
          /\ request[q].old = d.bundle => d.inFlight = TRUE /\ d.browser = request[q].browser
      BY <2>1 DEF PairingInv, Held
    <3>2. d.bundle \in 1 .. bundles /\ d.form \in 1 .. bundles
      BY DEF PairingInv, Given
    <3>3. CASE q # r
      BY <1>7, <3>1, <3>3
    <3>4. CASE q = r /\ old = 0
      BY <1>1, <1>2, <1>3, <1>7, <1>8, <3>2, <3>4
    <3>5. CASE q = r /\ old # 0
      BY <1>2, <1>3, <1>7, <1>8, <3>1, <3>5
    <3> QED
      BY <3>3, <3>4, <3>5
  <2>2. \A d \in drafts : d.inFlight = TRUE => \E q \in Requests : Works(q)' /\ request'[q].old = d.bundle
    <3>1. \A q \in Requests : request'[q].old = request[q].old
      BY <1>3, <1>7, <1>8
    <3> QED
      BY <1>9, <3>1 DEF PairingInv, Held
  <2>3. \A d \in drafts : d.form = newest'[d.browser]
    BY <1>5 DEF PairingInv, Held
  <2>4. \A p \in Requests : Works(p)' => request'[p].old \in 0 .. bundles
    BY <1>2, <1>3, <1>7, <1>9 DEF PairingInv, Given
  <2>5. ASSUME NEW q \in Requests, Draws(q)'
        PROVE  /\ \A e \in transfers' : e.bundle = request'[q].bundle => e.form = request'[q].form
               /\ \A d \in drafts : d.bundle # request'[q].bundle
               /\ \A p \in Requests : Works(p)' => request'[p].old # request'[q].bundle
    <3>1. CASE q = r
      <4>1. \A e \in transfers : e.bundle # b
        BY <1>1, <1>8 DEF PairingInv, Given
      <4>2. \A d \in drafts : d.bundle # b
        BY <1>1, <1>8 DEF PairingInv, Given
      <4>3. \A p \in Requests : Works(p)' => request'[p].old # b
        BY <1>1, <1>8, <2>4
      <4> QED
        BY <1>3, <1>6, <1>7, <3>1, <4>1, <4>2, <4>3
    <3>2. CASE q # r
      <4>1. Draws(q) /\ request'[q] = request[q] /\ request[q].bundle \in 1 .. bundles
        BY <1>7, <1>9, <2>5, <3>2 DEF PairingInv, Given
      <4>2. request[q].bundle # b
        BY <1>1, <1>8, <4>1
      <4>3. \A p \in Requests : request'[p].old = request[p].old
        BY <1>3, <1>7, <1>8
      <4> QED
        BY <1>6, <1>9, <4>1, <4>2, <4>3 DEF PairingInv, Held
    <3> QED
      BY <3>1, <3>2
  <2> QED
    BY <1>5, <1>9, <2>1, <2>2, <2>3, <2>5 DEF Held
<1>14. LastShown'
  <2>1. \A e \in transfers' : Shown(e.bundle)' => e \in transfers /\ Shown(e.bundle)
    <3>1. \A e \in transfers' : e.bundle = b => ~Shown(e.bundle)'
      BY <1>3, <1>7 DEF Shown, Draws
    <3>2. \A c : Shown(c)' => Shown(c)
      BY <1>1, <1>7 DEF Shown, Draws
    <3> QED
      BY <1>6, <3>1, <3>2
  <2>2. \A e \in transfers : e.form \in 1 .. bundles
    BY DEF PairingInv, Given
  <2>3. ASSUME NEW e \in transfers, Shown(e.bundle), form = e.form PROVE old = e.bundle
    <3>1. form = request[r].form
      BY <1>1, <1>2, <1>8, <2>2, <2>3
    <3> QED
      BY <1>1, <1>8, <2>3, <3>1 DEF PairingInv, LastShown
  <2>4. \A q \in Requests, e \in transfers' :
           Works(q)' /\ request'[q].form = e.form /\ Shown(e.bundle)' => request'[q].old = e.bundle
    <3>1. SUFFICES ASSUME NEW q \in Requests, NEW e \in transfers', Works(q)',
                          request'[q].form = e.form, Shown(e.bundle)'
                   PROVE  request'[q].old = e.bundle
      OBVIOUS
    <3>2. CASE q = r
      BY <1>3, <1>7, <2>1, <2>3, <3>1, <3>2
    <3>3. CASE q # r
      BY <1>7, <1>9, <2>1, <3>1, <3>3 DEF PairingInv, LastShown
    <3> QED
      BY <3>2, <3>3
  <2>5. \A e, f \in transfers' : e.form = f.form /\ Shown(e.bundle)' /\ Shown(f.bundle)' => e = f
    BY <2>1 DEF PairingInv, LastShown
  <2>6. \A e \in transfers', d \in drafts' : e.form = d.form /\ Shown(e.bundle)' => e.bundle = d.bundle
    BY <1>5, <2>1 DEF PairingInv, LastShown
  <2> QED
    BY <2>4, <2>5, <2>6 DEF LastShown
<1> QED
  BY <1>10, <1>11, <1>12, <1>13, <1>14 DEF PairingInv
-----------------------------------------------------------------------------
(* The page of a request is shown: its transfer becomes the draft's, and the
   one it replaces goes. *)
IsKept(n, s, b, form) ==
    /\ IsDraft(n) /\ n.browser = s /\ n.bundle = b /\ n.form = form /\ n.inFlight = FALSE
    /\ n \in drafts'
    /\ \A d \in drafts' : d = n \/ (d \in drafts /\ d.browser # s)

LEMMA Retained ==
    ASSUME PairingInv, NEW s \in Browsers, NEW b \in Nat, NEW form \in Nat,
           drafts' = retainPairDraft(s, b, form)
    PROVE  \E n : IsKept(n, s, b, form)
<1> DEFINE young == {d \in drafts : ~d.old}
           kept == {d \in young : Cardinality({e \in young : e.entered > d.entered}) < PAIR_DRAFT_MAX - 1}
           mine == {d \in kept : d.browser = s}
           places == {d.entered : d \in IF mine = {} THEN kept ELSE mine}
           place == IF mine = {} THEN 1 + Max({0} \cup places) ELSE Max(places)
           n == [browser |-> s, bundle |-> b, form |-> form, old |-> FALSE,
                 inFlight |-> FALSE, entered |-> place]
<1>1. drafts' = (kept \ mine) \cup {n}
  BY DEF retainPairDraft
<1>2. \A d \in kept \ mine : d \in drafts /\ d.browser # s
  OBVIOUS
<1> HIDE DEF kept, mine, place
<1>3. IsDraft(n) /\ n.browser = s /\ n.bundle = b /\ n.form = form /\ n.inFlight = FALSE
  BY DEF IsDraft
<1> HIDE DEF n
<1> QED
  BY <1>1, <1>2, <1>3 DEF IsKept

LEMMA PageShown ==
    ASSUME PairingInv, NEW r \in Requests, Draws(r), End(r),
           drafts' = retainPairDraft(request[r].browser, request[r].bundle, request[r].form),
           transfers' = invalidateBundle(transfers, request[r].old),
           UNCHANGED bundles,
           newest' = [newest EXCEPT ![request[r].browser] = request[r].form]
    PROVE  PairingInv'
<1> DEFINE b == request[r].bundle
           form == request[r].form
           s == request[r].browser
           old == request[r].old
<1>1. /\ bundles \in Nat /\ b \in 1 .. bundles /\ form \in 1 .. bundles /\ s \in Browsers /\ Works(r)
      /\ b \in Nat /\ form \in Nat
  <2>1. request[r].at = "draw" /\ request[r] \in Askings /\ Works(r) /\ bundles \in Nat
    BY DEF PairingInv, PairingTyped, Draws, Works
  <2>2. b \in 1 .. bundles /\ form \in 0 .. bundles /\ form # 0
    BY <2>1 DEF PairingInv, Given
  <2> QED
    BY <2>1, <2>2, Askeds
<1>2. drafts' = retainPairDraft(s, b, form)
  OBVIOUS
<1> HIDE DEF b, form, s, old
<1>3. b = request[r].bundle /\ form = request[r].form /\ s = request[r].browser /\ old = request[r].old
  BY DEF b, form, s, old
<1>4. PICK n : IsKept(n, s, b, form)
  BY <1>1, <1>2, Retained
<1>5. /\ IsDraft(n) /\ n.browser = s /\ n.bundle = b /\ n.form = form /\ n.inFlight = FALSE
      /\ n \in drafts'
      /\ \A d \in drafts' : d = n \/ (d \in drafts /\ d.browser # s)
  BY <1>4 DEF IsKept
<1>6. Moves(r, Idle) /\ Idle.at = "idle"
  BY DEF Moves, End, Askings, Idle
<1>7. /\ request' \in [Requests -> Askings] /\ request'[r].at = "idle"
      /\ \A q \in Requests : q # r => request'[q] = request[q]
  BY <1>6, Moved
<1>8. \A q \in Requests : (Works(q)' => q # r /\ Works(q)) /\ (Draws(q)' => q # r /\ Draws(q))
  BY <1>7 DEF Works, Draws
<1>9. \A e \in transfers' : e \in transfers /\ e.bundle # old
  BY <1>3 DEF invalidateBundle
<1>10. /\ newest' \in [Browsers -> Nat] /\ newest'[s] = form
      /\ \A t \in Browsers : t # s => newest'[t] = newest[t]
  BY <1>1, <1>3 DEF PairingInv, PairingTyped
(* What the others work on, and the drafts that stay, are of other forms. *)
<1>11. \A q \in Requests : q # r /\ Works(q) => request[q].form # form /\ request[q].old # b
  <2>1. \A q \in Requests : q # r /\ Works(q) => request[q].form # form
    BY <1>1, <1>3 DEF PairingInv, Alone
  <2>2. \A q \in Requests : Works(q) => request[q].old # b
    BY <1>3 DEF PairingInv, Held
  <2> QED
    BY <2>1, <2>2
<1>12. \A d \in drafts : d.browser # s => d.form # form /\ d.bundle # old
  BY <1>1, <1>3 DEF PairingInv, Held
<1>13. \A d \in drafts : d.bundle # b
  BY <1>3 DEF PairingInv, Held
<1>14. PairingTyped'
  <2>1. \A d \in drafts' : IsDraft(d)
    BY <1>5 DEF PairingInv, PairingTyped
  <2> QED
    BY <1>7, <1>9, <1>10, <2>1 DEF PairingInv, PairingTyped, IsDraft
<1>15. Given'
  <2>1. \A d \in drafts' : d.bundle \in 1 .. bundles /\ d.form \in 1 .. bundles
    BY <1>1, <1>5 DEF PairingInv, Given
  <2> QED
    BY <1>7, <1>8, <1>9, <2>1 DEF PairingInv, Given, Works, Draws
<1>16. Alone'
  <2>1. \A c, d \in drafts' : c.browser = d.browser \/ c.form = d.form \/ c.bundle = d.bundle => c = d
    BY <1>5, <1>12, <1>13 DEF PairingInv, Alone
  <2> QED
    BY <1>7, <1>8, <1>9, <2>1 DEF PairingInv, Alone
<1>17. Held'
  <2>1. ASSUME NEW d \in drafts', NEW q \in Requests, Works(q)'
        PROVE  /\ request'[q].form = d.form <=> request'[q].old = d.bundle
               /\ request'[q].old = d.bundle => d.inFlight = TRUE /\ d.browser = request'[q].browser
    <3>1. q # r /\ Works(q) /\ request'[q] = request[q]
      BY <1>7, <1>8, <2>1
    <3>2. CASE d = n
      BY <1>5, <1>11, <3>1, <3>2
    <3>3. CASE d \in drafts
      BY <3>1, <3>3 DEF PairingInv, Held
    <3> QED
      BY <1>5, <3>2, <3>3
  <2>2. ASSUME NEW d \in drafts', d.inFlight = TRUE
        PROVE  \E q \in Requests : Works(q)' /\ request'[q].old = d.bundle
    <3>1. d \in drafts /\ d.bundle # old
      BY <1>5, <1>12, <2>2
    <3>2. PICK q \in Requests : Works(q) /\ request[q].old = d.bundle
      BY <2>2, <3>1 DEF PairingInv, Held
    <3> QED
      BY <1>3, <1>7, <3>1, <3>2 DEF Works
  <2>3. \A d \in drafts' : d.form = newest'[d.browser]
    <3>1. \A d \in drafts : d.form = newest[d.browser] /\ d.browser \in Browsers
      BY DEF PairingInv, PairingTyped, Held, IsDraft
    <3> QED
      BY <1>5, <1>10, <3>1
  <2>4. ASSUME NEW q \in Requests, Draws(q)'
        PROVE  /\ \A e \in transfers' : e.bundle = request'[q].bundle => e.form = request'[q].form
               /\ \A d \in drafts' : d.bundle # request'[q].bundle
               /\ \A p \in Requests : Works(p)' => request'[p].old # request'[q].bundle
    <3>1. q # r /\ Draws(q) /\ request'[q] = request[q]
      BY <1>7, <1>8, <2>4
    <3>2. request[q].bundle # b
      BY <1>3, <3>1 DEF PairingInv, Alone
    <3>3. \A d \in drafts' : d.bundle # request[q].bundle
      BY <1>5, <3>1, <3>2 DEF PairingInv, Held
    <3> QED
      BY <1>7, <1>8, <1>9, <3>1, <3>3 DEF PairingInv, Held
  <2> QED
    BY <2>1, <2>2, <2>3, <2>4 DEF Held
<1>18. LastShown'
  <2>1. \A c : Shown(c)' => Shown(c) \/ c = b
    BY <1>3, <1>7 DEF Shown, Draws
  <2>2. \A e \in transfers' : e.bundle = b => e.form = form
    BY <1>3, <1>9 DEF PairingInv, Held
  <2>3. \A e \in transfers' : e.form = form /\ Shown(e.bundle) => e.bundle = b
    BY <1>1, <1>3, <1>9 DEF PairingInv, LastShown
  <2>4. \A e, f \in transfers' : e.form = f.form /\ Shown(e.bundle)' /\ Shown(f.bundle)' => e = f
    <3>1. SUFFICES ASSUME NEW e \in transfers', NEW f \in transfers', e.form = f.form,
                          Shown(e.bundle)', Shown(f.bundle)'
                   PROVE  e = f
      OBVIOUS
    <3>2. CASE e.form = form
      <4>1. e.bundle = b /\ f.bundle = b
        BY <2>1, <2>3, <3>1, <3>2
      <4> QED
        BY <1>9, <4>1 DEF PairingInv, Alone
    <3>3. CASE e.form # form
      <4>1. Shown(e.bundle) /\ Shown(f.bundle)
        BY <2>1, <2>2, <3>1, <3>3
      <4> QED
        BY <1>9, <3>1, <4>1 DEF PairingInv, LastShown
    <3> QED
      BY <3>2, <3>3
  <2>5. \A e \in transfers', d \in drafts' : e.form = d.form /\ Shown(e.bundle)' => e.bundle = d.bundle
    <3>1. SUFFICES ASSUME NEW e \in transfers', NEW d \in drafts', e.form = d.form, Shown(e.bundle)'
                   PROVE  e.bundle = d.bundle
      OBVIOUS
    <3>2. CASE d = n
      BY <1>5, <2>1, <2>3, <3>1, <3>2
    <3>3. CASE d \in drafts /\ d.browser # s
      <4>1. e.form # form
        BY <1>12, <3>1, <3>3
      <4>2. Shown(e.bundle)
        BY <2>1, <2>2, <3>1, <4>1
      <4> QED
        BY <1>9, <3>1, <3>3, <4>2 DEF PairingInv, LastShown
    <3> QED
      BY <1>5, <3>2, <3>3
  <2>6. \A q \in Requests, e \in transfers' :
           Works(q)' /\ request'[q].form = e.form /\ Shown(e.bundle)' => request'[q].old = e.bundle
    <3>1. SUFFICES ASSUME NEW q \in Requests, NEW e \in transfers', Works(q)',
                          request'[q].form = e.form, Shown(e.bundle)'
                   PROVE  request'[q].old = e.bundle
      OBVIOUS
    <3>2. q # r /\ Works(q) /\ request'[q] = request[q] /\ e.form # form
      BY <1>7, <1>8, <1>11, <3>1
    <3>3. Shown(e.bundle)
      BY <2>1, <2>2, <3>1, <3>2
    <3> QED
      BY <1>9, <3>1, <3>2, <3>3 DEF PairingInv, LastShown
  <2> QED
    BY <2>4, <2>5, <2>6 DEF LastShown
<1> QED
  BY <1>14, <1>15, <1>16, <1>17, <1>18 DEF PairingInv

LEMMA Shows ==
    ASSUME PairingInv, NEW r \in Requests,
           ShowPosted(r) \/ (ShowReissued(r) /\ StillHeld(r) # {})
    PROVE  PairingInv'
<1>1. /\ Draws(r) /\ Works(r) /\ End(r) /\ UNCHANGED bundles
      /\ drafts' = retainPairDraft(request[r].browser, request[r].bundle, request[r].form)
  BY DEF ShowPosted, ShowReissued, Draws, Works, Others
<1>2. transfers' = invalidateBundle(transfers, request[r].old)
  <2>1. CASE ShowPosted(r)
    <3>1. request[r].old = 0 /\ transfers' = transfers
      BY <2>1 DEF ShowPosted
    <3>2. \A e \in transfers : e.bundle # 0
      BY DEF PairingInv, PairingTyped, Given
    <3> QED
      BY <3>1, <3>2 DEF invalidateBundle
  <2>2. CASE ShowReissued(r) /\ StillHeld(r) # {}
    BY <2>2 DEF ShowReissued
  <2> QED
    BY <2>1, <2>2
<1>3. newest' = [newest EXCEPT ![request[r].browser] = request[r].form]
  <2>1. CASE ShowPosted(r)
    BY <2>1 DEF ShowPosted
  <2>2. CASE ShowReissued(r) /\ StillHeld(r) # {}
    <3>1. PICK d \in drafts : d.browser = request[r].browser /\ d.bundle = request[r].old
      BY <2>2 DEF StillHeld, DraftOf
    <3>2. request[r].form = d.form /\ d.form = newest[d.browser]
      BY <1>1, <3>1 DEF PairingInv, Held
    <3>3. newest' = newest
      BY <2>2 DEF ShowReissued, Others
    <3> QED
      BY <3>1, <3>2, <3>3 DEF PairingInv, PairingTyped
  <2> QED
    BY <2>1, <2>2
<1> QED
  BY <1>1, <1>2, <1>3, PageShown

LEMMA NextPairing == PairingInv /\ [PairingNext]_pairingVars => PairingInv'
<1> SUFFICES ASSUME PairingInv, [PairingNext]_pairingVars PROVE PairingInv'
  OBVIOUS
<1>1. ASSUME NEW r \in Requests, Build(r) PROVE PairingInv'
  <2>1. request[r].at = "discover"
    BY <1>1 DEF Build
  <2>2. CASE End(r) /\ drafts' = GiveBack(r) /\ UNCHANGED transfers /\ Others
    BY <2>1, <2>2, Fails
  <2>3. CASE ~(End(r) /\ drafts' = GiveBack(r) /\ UNCHANGED transfers /\ Others)
    <3>1. /\ bundles' = bundles + 1 /\ UNCHANGED <<drafts, newest, answers>>
          /\ LET form == IF request[r].form = 0 THEN bundles' ELSE request[r].form IN
             /\ transfers' = create(bundles', form, request[r].browser)
             /\ request' = [request EXCEPT ![r] = [at |-> "draw", browser |-> @.browser, old |-> @.old,
                                                   form |-> form, bundle |-> bundles']]
      BY <1>1, <2>3 DEF Build
    <3> QED
      BY <2>1, <3>1, Builds
  <2> QED
    BY <2>2, <2>3
<1>2. ASSUME NEW r \in Requests, DrawFails(r) \/ ShowPosted(r) \/ ShowReissued(r) PROVE PairingInv'
  BY <1>2, Fails, Shows
<1>3. ASSUME NEW r \in Requests, NEW s \in Browsers, Post(r, s) \/ takePairDraft(r, s) PROVE PairingInv'
  BY <1>3, Posts, Takes
<1>4. CASE UNCHANGED pairingVars
  <2>1. transfers' = transfers /\ drafts' = drafts /\ request' = request /\ bundles' = bundles /\ newest' = newest
    BY <1>4 DEF pairingVars
  <2>2. transfers' \subseteq Transfers /\ \A e, f \in transfers' : e.bundle = f.bundle => e = f
    BY <2>1 DEF PairingInv, PairingTyped, Alone
  <2> QED
    BY <2>1, <2>2, TransfersGo
<1> QED
  BY <1>1, <1>2, <1>3, <1>4, TransferSteps, DraftsAge DEF PairingNext

(* server.js, the handlers of /pair and /pair/reissue: a form no request works
   on has at most one transfer that can be redeemed, the draft of a browser is
   of the form it completed last, and a draft that is marked has a request
   that will let go of it. *)
THEOREM FormsStayInOrder == PairingSpec => []FormsInOrder
<1>1. PairingInv => FormsInOrder
  <2> SUFFICES ASSUME PairingInv PROVE FormsInOrder
    OBVIOUS
  <2>1. OneTransferPerForm
    <3>1. \A e \in transfers : ~Working(e.form) => Shown(e.bundle)
      BY DEF PairingInv, Held, Working, Shown, Draws, Idle
    <3> QED
      BY <3>1 DEF PairingInv, LastShown, OneTransferPerForm
  <2>2. NewestFormWins
    BY DEF PairingInv, Held, NewestFormWins
  <2>3. NoDraftIsStuck
    BY DEF PairingInv, PairingTyped, IsDraft, Held, NoDraftIsStuck, Works, Idle
  <2> QED
    BY <2>1, <2>2, <2>3 DEF FormsInOrder
<1> QED
  BY <1>1, InitPairing, NextPairing, PTL DEF PairingSpec
-----------------------------------------------------------------------------
(* The answers that carried an envelope, as the transfer that is left of it
   remembers them. *)
Answered(e, a) ==
    /\ a.file = 0 /\ e.reserves <= REDEEM_GRACE_SERVES
    /\ a.qr = IF e.stage \in {"fresh", "expired"} THEN 0 ELSE 1 + e.reserves

Ways(a) == (a.qr = 0 \/ a.file = 0) /\ a.file <= 1 /\ a.qr <= 1 + REDEEM_GRACE_SERVES

AnswersInv ==
    /\ bundles \in 0 .. MaxBundles /\ answers \in [1 .. MaxBundles -> [qr : Nat, file : Nat]]
    /\ \A b \in 1 .. MaxBundles : Ways(answers[b])
                                  /\ (b > bundles => answers[b].qr = 0 /\ answers[b].file = 0)
    /\ \A e \in transfers : Answered(e, answers[e.bundle])
                            /\ (e.stage = "fresh" => e.reserves = 0)

LEMMA InitAnswers == PairingInit => AnswersInv
<1> SUFFICES ASSUME PairingInit PROVE AnswersInv
  OBVIOUS
<1>1. transfers = {} /\ bundles = 0 /\ answers = [b \in 1 .. MaxBundles |-> [qr |-> 0, file |-> 0]]
  BY DEF PairingInit
<1> QED
  BY <1>1, PairingAssumption DEF AnswersInv, Ways

(* An answer through one way, of the transfer that was left of the envelope. *)
LEMMA Carries ==
    ASSUME PairingInv, AnswersInv, NEW e \in transfers, NEW how \in {"qr", "file"},
           Carried(e.bundle, how), UNCHANGED bundles,
           how = "qr" => answers[e.bundle].qr <= REDEEM_GRACE_SERVES,
           how = "file" => answers[e.bundle].qr = 0,
           \A x \in transfers' : x.bundle = e.bundle =>
              /\ how = "qr" /\ x.stage \in {"grace", "over"}
              /\ answers[e.bundle].qr = x.reserves /\ x.reserves <= REDEEM_GRACE_SERVES,
           \A x \in transfers' : x.bundle # e.bundle => x \in transfers,
           \A x \in transfers' : x.bundle \in 1 .. bundles
    PROVE  AnswersInv'
<1> DEFINE b == e.bundle
           a == answers[b]
<1>1. /\ bundles \in 0 .. MaxBundles /\ b \in 1 .. bundles /\ b \in 1 .. MaxBundles
      /\ a \in [qr : Nat, file : Nat] /\ a.file = 0 /\ Ways(a)
  <2>1. bundles \in 0 .. MaxBundles /\ b \in 1 .. bundles /\ Answered(e, a)
    BY DEF AnswersInv, PairingInv, Given
  <2>2. b \in 1 .. MaxBundles
    BY <2>1, PairingAssumption
  <2> QED
    BY <2>1, <2>2 DEF AnswersInv, Answered
<1>2. answers' = [answers EXCEPT ![b] = [a EXCEPT ![how] = @ + 1]]
  BY DEF Carried
<1>3. PICK c \in [qr : Nat, file : Nat] : /\ c = [a EXCEPT ![how] = @ + 1]
                                          /\ how = "qr" => c.qr = a.qr + 1 /\ c.file = 0
                                          /\ how = "file" => c.qr = a.qr /\ c.file = 1
  <2>1. ASSUME NEW z \in [qr : Nat, file : Nat]
        PROVE  /\ [z EXCEPT !.qr = @ + 1] \in [qr : Nat, file : Nat]
               /\ [z EXCEPT !.qr = @ + 1].qr = z.qr + 1 /\ [z EXCEPT !.qr = @ + 1].file = z.file
               /\ [z EXCEPT !.file = @ + 1] \in [qr : Nat, file : Nat]
               /\ [z EXCEPT !.file = @ + 1].qr = z.qr /\ [z EXCEPT !.file = @ + 1].file = z.file + 1
    OBVIOUS
  <2>2. a \in [qr : Nat, file : Nat] /\ a.file = 0
    BY <1>1
  <2> HIDE DEF a
  <2>3. CASE how = "qr"
    <3>1. [a EXCEPT ![how] = @ + 1] = [a EXCEPT !.qr = @ + 1]
      BY <2>3
    <3> QED
      BY <2>1, <2>2, <2>3, <3>1
  <2>4. CASE how = "file"
    <3>1. [a EXCEPT ![how] = @ + 1] = [a EXCEPT !.file = @ + 1]
      BY <2>4
    <3> QED
      BY <2>1, <2>2, <2>4, <3>1
  <2> QED
    BY <2>3, <2>4
<1> HIDE DEF a, b
<1>4. b = e.bundle /\ a = answers[b]
  BY DEF a, b
<1>5. /\ answers' \in [1 .. MaxBundles -> [qr : Nat, file : Nat]] /\ answers'[b] = c
      /\ \A d \in 1 .. MaxBundles : d # b => answers'[d] = answers[d]
  BY <1>1, <1>2, <1>3 DEF AnswersInv
<1>6. Ways(c)
  BY <1>1, <1>3, <1>4, PairingAssumption DEF Ways
<1>7. \A d \in 1 .. MaxBundles : Ways(answers'[d])
                                 /\ (d > bundles' => answers'[d].qr = 0 /\ answers'[d].file = 0)
  BY <1>1, <1>5, <1>6 DEF AnswersInv
<1>8. ASSUME NEW x \in transfers'
      PROVE  Answered(x, answers'[x.bundle]) /\ (x.stage = "fresh" => x.reserves = 0)
  <2>1. CASE x.bundle = b
    BY <1>1, <1>3, <1>4, <1>5, <2>1 DEF Answered
  <2>2. CASE x.bundle # b
    <3>1. x \in transfers /\ x.bundle \in 1 .. MaxBundles
      BY <1>1, <1>4, <2>2, PairingAssumption
    <3> QED
      BY <1>5, <2>2, <3>1 DEF AnswersInv
  <2> QED
    BY <2>1, <2>2
<1> QED
  BY <1>1, <1>5, <1>7, <1>8 DEF AnswersInv

LEMMA AnswersOfTransfers ==
    ASSUME PairingInv, AnswersInv, NEW e \in transfers,
           consumeRedeem(e) \/ consumeFile(e) \/ TransferAges(e)
    PROVE  AnswersInv'
<1> DEFINE a == answers[e.bundle]
<1>1. /\ e \in Transfers /\ bundles' = bundles /\ bundles \in 0 .. MaxBundles
      /\ Answered(e, a) /\ (e.stage = "fresh" => e.reserves = 0)
      /\ \A x \in transfers : x.bundle \in 1 .. bundles
  BY DEF PairingInv, PairingTyped, Given, AnswersInv, consumeRedeem, consumeFile, TransferAges, Others
<1>2. \A x \in transfers : x # e => x.bundle # e.bundle
  BY DEF PairingInv, Alone
<1>3. ASSUME UNCHANGED answers, transfers' \subseteq transfers PROVE AnswersInv'
  BY <1>1, <1>3 DEF AnswersInv
<1>4. ASSUME NEW f \in Transfers, transfers' = Becomes(transfers, e, f), f.bundle = e.bundle
      PROVE  /\ \A x \in transfers' : x.bundle = e.bundle => x = f
             /\ \A x \in transfers' : x.bundle # e.bundle => x \in transfers
             /\ \A x \in transfers' : x.bundle \in 1 .. bundles
             /\ \A x \in transfers' : x = f \/ x \in transfers
  BY <1>1, <1>2, <1>4 DEF Becomes
<1>5. CASE consumeRedeem(e)
  <2>1. CASE /\ e.stage = "fresh" /\ Carried(e.bundle, "qr")
             /\ transfers' = Becomes(transfers, e, [e EXCEPT !.stage = "grace"])
    <3>1. PICK f \in Transfers : /\ transfers' = Becomes(transfers, e, f) /\ f.bundle = e.bundle
                                 /\ f.stage = "grace" /\ f.reserves = e.reserves
      BY <1>1, <2>1, ATransfer
    <3>2. a.qr = f.reserves /\ f.reserves <= REDEEM_GRACE_SERVES
      BY <1>1, <2>1, <3>1 DEF Answered
    <3> QED
      BY <1>1, <1>4, <2>1, <3>1, <3>2, Carries
  <2>2. CASE /\ MayServeAgain(e) /\ Carried(e.bundle, "qr")
             /\ transfers' = Becomes(transfers, e, [e EXCEPT !.reserves = @ + 1])
    <3>1. PICK f \in Transfers : /\ transfers' = Becomes(transfers, e, f) /\ f.bundle = e.bundle
                                 /\ f.stage = e.stage /\ f.reserves = e.reserves + 1
      BY <1>1, <2>2, ATransfer
    <3>2. a.qr = f.reserves /\ f.reserves <= REDEEM_GRACE_SERVES /\ f.stage = "grace"
      BY <1>1, <2>2, <3>1, PairingAssumption DEF Answered, MayServeAgain, Transfers
    <3> QED
      BY <1>1, <1>4, <2>2, <3>1, <3>2, Carries
  <2>3. CASE transfers' = transfers \ {e} /\ UNCHANGED answers
    BY <1>3, <2>3
  <2> QED
    BY <1>5, <2>1, <2>2, <2>3 DEF consumeRedeem
<1>6. CASE consumeFile(e)
  <2>1. transfers' = transfers \ {e} /\ e.stage \in {"fresh", "expired"}
    BY <1>6 DEF consumeFile, HasFile
  <2>2. CASE UNCHANGED answers
    BY <1>3, <2>1, <2>2
  <2>3. CASE Carried(e.bundle, "file")
    <3>1. a.qr = 0
      BY <1>1, <2>1 DEF Answered
    <3>2. \A x \in transfers' : x.bundle # e.bundle /\ x \in transfers /\ x.bundle \in 1 .. bundles
      BY <1>1, <1>2, <2>1
    <3> QED
      BY <1>1, <2>3, <3>1, <3>2, Carries
  <2> QED
    BY <1>6, <2>2, <2>3 DEF consumeFile
<1>7. CASE TransferAges(e)
  <2>1. UNCHANGED answers /\ e.stage \in {"fresh", "grace"}
    BY <1>7 DEF TransferAges, Others
  <2>2. PICK s \in {"fresh", "expired", "grace", "over"} :
           /\ s # "fresh" /\ (s = "expired" <=> e.stage = "fresh")
           /\ transfers' = Becomes(transfers, e, [e EXCEPT !.stage = s])
    BY <1>7, <2>1 DEF TransferAges
  <2> DEFINE f == [e EXCEPT !.stage = s]
  <2>3. f \in Transfers /\ f.bundle = e.bundle /\ f.stage = s /\ f.reserves = e.reserves
    BY <1>1, <2>2, ATransfer DEF Transfers
  <2>4. transfers' = Becomes(transfers, e, f)
    BY <2>2
  <2> HIDE DEF f
  <2>5. Answered(f, a) /\ f.stage # "fresh"
    BY <1>1, <2>1, <2>2, <2>3 DEF Answered
  <2> QED
    BY <1>1, <1>4, <2>1, <2>3, <2>5, <2>4 DEF AnswersInv
<1> QED
  BY <1>5, <1>6, <1>7

LEMMA NextAnswers == PairingInv /\ AnswersInv /\ [PairingNext]_pairingVars => AnswersInv'
<1> SUFFICES ASSUME PairingInv, AnswersInv, [PairingNext]_pairingVars PROVE AnswersInv'
  OBVIOUS
<1>1. ASSUME UNCHANGED <<bundles, answers>>, transfers' \subseteq transfers PROVE AnswersInv'
  BY <1>1 DEF AnswersInv
<1>2. ASSUME NEW r \in Requests, Build(r) PROVE AnswersInv'
  <2>1. CASE UNCHANGED transfers /\ Others
    BY <1>1, <2>1 DEF Others
  <2>2. CASE ~(UNCHANGED transfers /\ Others)
    <3> DEFINE b == bundles + 1
               form == IF request[r].form = 0 THEN b ELSE request[r].form
               n == [bundle |-> b, form |-> form, browser |-> request[r].browser,
                     stage |-> "fresh", reserves |-> 0]
    <3>1. /\ bundles < MaxBundles /\ bundles' = b /\ UNCHANGED answers
          /\ transfers' = create(b, form, request[r].browser)
      BY <1>2, <2>2 DEF Build
    <3>2. \A x \in transfers' : x = n \/ x \in transfers
      BY <3>1 DEF create, cleanup
    <3>3. n.bundle = b /\ n.stage = "fresh" /\ n.reserves = 0
      OBVIOUS
    <3> HIDE DEF n, form
    <3>4. b \in 1 .. MaxBundles /\ b > bundles /\ bundles \in Nat
      BY <3>1, PairingAssumption DEF AnswersInv
    <3>5. Answered(n, answers[b])
      BY <3>3, <3>4, PairingAssumption DEF AnswersInv, Answered
    <3> QED
      BY <3>1, <3>2, <3>3, <3>4, <3>5 DEF AnswersInv
  <2> QED
    BY <2>1, <2>2
<1>3. ASSUME NEW r \in Requests, DrawFails(r) \/ ShowPosted(r) \/ ShowReissued(r) PROVE AnswersInv'
  <2>1. UNCHANGED <<bundles, answers>>
    BY <1>3 DEF DrawFails, ShowPosted, ShowReissued, Others
  <2>2. transfers' \subseteq transfers
    BY <1>3 DEF DrawFails, ShowPosted, ShowReissued, invalidateBundle
  <2> QED
    BY <1>1, <2>1, <2>2
<1>4. ASSUME NEW r \in Requests, NEW s \in Browsers, Post(r, s) \/ takePairDraft(r, s) PROVE AnswersInv'
  BY <1>1, <1>4 DEF Post, takePairDraft, Others
<1>5. ASSUME NEW d \in drafts, DraftAges(d) PROVE AnswersInv'
  BY <1>1, <1>5 DEF DraftAges, Others
<1>6. CASE UNCHANGED pairingVars
  BY <1>1, <1>6 DEF pairingVars
<1> QED
  BY <1>2, <1>3, <1>4, <1>5, <1>6, AnswersOfTransfers DEF PairingNext

(* qmbackup.js: an envelope leaves through the file, once, or through the QR
   code, as often as the grace allows, and never through both. *)
THEOREM EnvelopesLeaveOneWay == PairingSpec => []OneWayOut
<1>1. AnswersInv => OneWayOut
  BY DEF AnswersInv, Ways, OneWayOut
<1> QED
  BY <1>1, InitPairing, InitAnswers, NextPairing, NextAnswers, PTL DEF PairingSpec
=============================================================================
