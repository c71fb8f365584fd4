------------------------- MODULE DeviceTokensProofs -------------------------
(***************************************************************************)
(* A grant has one successor, known to one client, for any clients,        *)
(* devices, lifetimes, lost, repeated and reordered messages, failed and   *)
(* unconfirmed writes, restarts, power cuts and maintenance commands.      *)
(*                                                                         *)
(* What a refresh answers is read from the state of the server, and there  *)
(* are many of those: the file, the cache, and the older files that a      *)
(* power cut may bring back.  The invariant Inv says of each of them that  *)
(* it is past every answer given, so that it cannot give another one for   *)
(* the same grant; of the older files it says so but for the answers that  *)
(* were replayed from a file that was not confirmed.                       *)
(*                                                                         *)
(* The second invariant, Held, says of each of them what its families have *)
(* been promised: how long they last, which certificate they are bound to, *)
(* that they are closed if somebody was told so, and that they are not     *)
(* closed for reuse while the phone alone holds grants.                    *)
(***************************************************************************)
EXTENDS DeviceTokens, TLAPS

Minting == [device : DeviceIds, at : Nat]
Triples == Clients \X Nat \X Nat

DeviceRecord == [revokedReason : {"none", "owner", "reuse", "expired"}, token : Nat, leaf : Nat,
                 accessExpiresAt : Nat, idleAt : Nat, absoluteAt : Nat,
                 lookback : [prev : Nat, client : Clients, grant : Nat, answer : Nat]]
Sides == [devices : UNION {[D -> DeviceRecord] : D \in SUBSET DeviceIds}]

(* m is the minting order, d a family, dev its record. *)
Minted(m, d, n) == n \in DOMAIN m /\ m[n].device = d

(* The lookback is of the request that minted the current tokens. *)
Known(m, d, dev) ==
    /\ Minted(m, d, dev.token)
    /\ \/ dev.lookback = NoLookback
       \/ /\ Minted(m, d, dev.lookback.prev) /\ dev.lookback.prev < dev.token
          /\ dev.lookback.grant = dev.lookback.prev /\ dev.lookback.answer = dev.token

(* The record is past the answer a, or can only repeat it. *)
Past(m, d, dev, a) ==
    m[a[2]].device = d =>
        /\ a[3] <= dev.token
        /\ dev.lookback.prev = a[2] => dev.lookback.client = a[1] /\ dev.lookback.answer = a[3]

Good(s, A, m) ==
    /\ s \in Sides
    /\ \A d \in DOMAIN s.devices : /\ Known(m, d, s.devices[d])
                                   /\ \A a \in A : Past(m, d, s.devices[d], a)

Answered(A, m) ==
    /\ A \subseteq Triples
    /\ \A a \in A : a[2] \in DOMAIN m /\ a[3] \in DOMAIN m /\ a[2] < a[3]
    /\ \A a, b \in A : a[2] = b[2] => a[1] = b[1] /\ a[3] = b[3]

(* The cache may have a lookback that a command has cleared in the file. *)
Agrees(c, s) ==
    /\ DOMAIN c.devices = DOMAIN s.devices
    /\ \A d \in DOMAIN c.devices : /\ c.devices[d].token = s.devices[d].token
                                   /\ s.devices[d].lookback \in {c.devices[d].lookback, NoLookback}

Inv ==
    /\ now \in Nat /\ certLeaf \in Nat /\ liveLeaf \in Nat
    /\ mint \in Seq(Minting)
    /\ Answered(answers, mint)
    /\ Good(disk, answers, mint)
    /\ cached # NoState => Good(cached, answers, mint) /\ Agrees(cached, disk)
    /\ \A s \in limbo : Good(s, answers \ shaky, mint)
-----------------------------------------------------------------------------
(* Later minting, fewer answers. *)

Extends(m, later) ==
    /\ m \in Seq(Minting) /\ later \in Seq(Minting)
    /\ DOMAIN m \subseteq DOMAIN later /\ \A i \in DOMAIN m : later[i] = m[i]

LEMMA AppendExtends ==
    ASSUME NEW m \in Seq(Minting), NEW x \in Minting
    PROVE  /\ Extends(m, Append(m, x)) /\ Append(m, x)[Len(m) + 1] = x
           /\ Len(m) + 1 \in DOMAIN Append(m, x)
           /\ Len(m) \in Nat /\ \A i \in DOMAIN m : i \in Nat /\ 1 <= i /\ i <= Len(m)
  BY DEF Extends

LEMMA GoodLater ==
    ASSUME NEW m, NEW later, Extends(m, later), NEW A, Answered(A, m), NEW s, Good(s, A, m)
    PROVE  Good(s, A, later) /\ Answered(A, later)
<1>1. Answered(A, later)
  BY DEF Answered, Extends
<1>2. ASSUME NEW d \in DOMAIN s.devices
      PROVE  /\ Known(later, d, s.devices[d])
             /\ \A a \in A : Past(later, d, s.devices[d], a)
  <2>1. Known(later, d, s.devices[d])
    BY DEF Good, Known, Minted, Extends
  <2>2. ASSUME NEW a \in A
        PROVE  Past(later, d, s.devices[d], a)
    BY DEF Good, Past, Answered, Extends
  <2> QED
    BY <2>1, <2>2
<1> QED
  BY <1>1, <1>2 DEF Good

LEMMA GoodLess ==
    ASSUME NEW m, NEW A, NEW B, B \subseteq A, NEW s, Good(s, A, m)
    PROVE  Good(s, B, m)
  BY DEF Good

LEMMA AnsweredLess ==
    ASSUME NEW m, NEW A, NEW B, B \subseteq A, Answered(A, m)
    PROVE  Answered(B, m)
  BY DEF Answered

LEMMA AgreesSelf == \A s : Agrees(s, s)
  BY DEF Agrees
-----------------------------------------------------------------------------
(* What the handlers make of good files. *)

LEMMA NoLookbackIsOne ==
    /\ NoLookback \in [prev : Nat, client : Clients, grant : Nat, answer : Nat]
    /\ NoLookback.prev = 0
  BY TtlAssumption DEF NoLookback

(* One family's record is replaced. *)
LEMMA ChangeIsGood ==
    ASSUME NEW m, NEW A, NEW s \in Sides, NEW d \in DOMAIN s.devices,
           \A x \in DOMAIN s.devices \ {d} : /\ Known(m, x, s.devices[x])
                                             /\ \A a \in A : Past(m, x, s.devices[x], a),
           NEW dev \in DeviceRecord, Known(m, d, dev), \A a \in A : Past(m, d, dev, a)
    PROVE  Good(Change(s, d, dev), A, m)
<1> DEFINE next == Change(s, d, dev)
<1>1. PICK D \in SUBSET DeviceIds : s.devices \in [D -> DeviceRecord]
  BY DEF Sides
<1>2. s = [devices |-> s.devices]
  BY DEF Sides
<1>3. next = [devices |-> [s.devices EXCEPT ![d] = dev]]
  BY <1>2 DEF Change
<1>4. next.devices = [s.devices EXCEPT ![d] = dev]
  BY <1>3
<1>5. [s.devices EXCEPT ![d] = dev] \in [D -> DeviceRecord]
  BY <1>1
<1>6. next \in Sides
  BY <1>3, <1>5 DEF Sides
<1> HIDE DEF next
<1>7. ASSUME NEW x \in DOMAIN next.devices
      PROVE  Known(m, x, next.devices[x]) /\ \A a \in A : Past(m, x, next.devices[x], a)
  <2>1. x \in DOMAIN s.devices /\ next.devices[x] = IF x = d THEN dev ELSE s.devices[x]
    BY <1>1, <1>4
  <2> QED
    BY <2>1 DEF Good
<1> QED
  BY <1>6, <1>7 DEF Good, next

(* Closing a family clears its lookback and keeps its token. *)
Shut(dev, reason) == [dev EXCEPT !.revokedReason = reason, !.lookback = NoLookback]

LEMMA ShutIsKnown ==
    ASSUME NEW m \in Seq(Minting), NEW A, Answered(A, m), NEW d, NEW dev \in DeviceRecord, Known(m, d, dev),
           \A a \in A : Past(m, d, dev, a), NEW reason \in {"owner", "reuse", "expired"}
    PROVE  /\ Shut(dev, reason) \in DeviceRecord /\ Known(m, d, Shut(dev, reason))
           /\ \A a \in A : Past(m, d, Shut(dev, reason), a)
           /\ Shut(dev, reason).token = dev.token /\ Shut(dev, reason).lookback = NoLookback
<1> DEFINE shut == Shut(dev, reason)
<1>1. shut \in DeviceRecord /\ shut.token = dev.token /\ shut.lookback = NoLookback
  BY NoLookbackIsOne DEF DeviceRecord, Shut
<1> HIDE DEF shut
<1>2. Known(m, d, shut)
  BY <1>1 DEF Known
<1>3. ASSUME NEW a \in A
      PROVE  Past(m, d, shut, a)
  <2>1. a[2] # 0
    BY DEF Answered
  <2> QED
    BY <1>1, <2>1, NoLookbackIsOne DEF Past
<1> QED
  BY <1>1, <1>2, <1>3 DEF shut

LEMMA ClosedIsGood ==
    ASSUME NEW m \in Seq(Minting), NEW A, Answered(A, m), NEW s, Good(s, A, m), NEW d,
           NEW reason \in {"owner", "reuse", "expired"}
    PROVE  Good(Closed(s, d, reason), A, m)
<1>1. CASE d \in DOMAIN s.devices /\ ~IsRevoked(Device(d, s))
  <2>1. s.devices[d] \in DeviceRecord
    BY <1>1 DEF Good, Sides
  <2> DEFINE shut == Shut(s.devices[d], reason)
  <2>2. shut \in DeviceRecord /\ Known(m, d, shut) /\ \A a \in A : Past(m, d, shut, a)
    BY <1>1, <2>1, ShutIsKnown DEF Good
  <2>3. Good(Change(s, d, shut), A, m)
    BY <1>1, <2>2, ChangeIsGood DEF Good
  <2> QED
    BY <1>1, <2>3 DEF Closed, Device, Shut
<1>2. CASE ~(d \in DOMAIN s.devices /\ ~IsRevoked(Device(d, s)))
  BY <1>2 DEF Closed
<1> QED
  BY <1>1, <1>2

(* A family is forgotten. *)
LEMMA ForgottenIsGood ==
    ASSUME NEW m, NEW A, NEW s, Good(s, A, m), NEW d
    PROVE  Good([s EXCEPT !.devices = [x \in DOMAIN @ \ {d} |-> @[x]]], A, m)
<1> DEFINE kept == [x \in DOMAIN s.devices \ {d} |-> s.devices[x]]
           next == [s EXCEPT !.devices = [x \in DOMAIN @ \ {d} |-> @[x]]]
<1>1. PICK D \in SUBSET DeviceIds : s.devices \in [D -> DeviceRecord]
  BY DEF Good, Sides
<1>2. next = [devices |-> kept] /\ next.devices = kept
  BY DEF Good, Sides
<1>3. kept \in [D \ {d} -> DeviceRecord]
  BY <1>1
<1>4. next \in Sides
  BY <1>2, <1>3 DEF Sides
<1> QED
  BY <1>2, <1>4 DEF Good

(* A command revokes every family; what the server had cached still agrees. *)
AllShut(f) == [d \in DOMAIN f |-> IF IsRevoked(f[d]) THEN f[d] ELSE Shut(f[d], "owner")]
RevokedAll(s) == [s EXCEPT !.devices = AllShut(s.devices)]

LEMMA RevokedAllIsGood ==
    ASSUME NEW m \in Seq(Minting), NEW A, Answered(A, m), NEW s, Good(s, A, m)
    PROVE  /\ Good(RevokedAll(s), A, m)
           /\ \A c : Agrees(c, s) => Agrees(c, RevokedAll(s))
<1> DEFINE next == RevokedAll(s)
<1>1. PICK D \in SUBSET DeviceIds : s.devices \in [D -> DeviceRecord]
  BY DEF Good, Sides
<1>2. next = [devices |-> AllShut(s.devices)] /\ next.devices = AllShut(s.devices)
  BY DEF Good, Sides, RevokedAll
<1>3. ASSUME NEW d \in DOMAIN s.devices
      PROVE  LET dev == AllShut(s.devices)[d] IN
             /\ dev \in DeviceRecord /\ Known(m, d, dev) /\ \A a \in A : Past(m, d, dev, a)
             /\ dev.token = s.devices[d].token /\ dev.lookback \in {s.devices[d].lookback, NoLookback}
  <2>1. s.devices[d] \in DeviceRecord /\ Known(m, d, s.devices[d]) /\ \A a \in A : Past(m, d, s.devices[d], a)
    BY <1>1 DEF Good
  <2>2. AllShut(s.devices)[d] \in {s.devices[d], Shut(s.devices[d], "owner")}
    BY DEF AllShut
  <2>3. CASE AllShut(s.devices)[d] = s.devices[d]
    BY <2>1, <2>3
  <2> DEFINE shut == Shut(s.devices[d], "owner")
  <2>5. /\ shut \in DeviceRecord /\ Known(m, d, shut) /\ \A a \in A : Past(m, d, shut, a)
        /\ shut.token = s.devices[d].token /\ shut.lookback = NoLookback
    <3>1. shut \in DeviceRecord /\ Known(m, d, shut)
      BY <2>1, ShutIsKnown
    <3>2. \A a \in A : Past(m, d, shut, a)
      BY <2>1, ShutIsKnown
    <3>3. shut.token = s.devices[d].token /\ shut.lookback = NoLookback
      BY <2>1 DEF Shut, DeviceRecord
    <3> QED
      BY <3>1, <3>2, <3>3
  <2> HIDE DEF shut
  <2>4. CASE AllShut(s.devices)[d] = shut
    BY <2>4, <2>5
  <2> QED
    BY <2>2, <2>3, <2>4 DEF shut
<1>4. DOMAIN AllShut(s.devices) = DOMAIN s.devices /\ AllShut(s.devices) \in [D -> DeviceRecord]
  BY <1>1, <1>3 DEF AllShut
<1>5. next \in Sides
  BY <1>2, <1>4 DEF Sides
<1> HIDE DEF next
<1>6. Good(next, A, m)
  BY <1>2, <1>3, <1>4, <1>5 DEF Good
<1>7. ASSUME NEW c, Agrees(c, s)
      PROVE  Agrees(c, next)
  BY <1>2, <1>3, <1>4, <1>7 DEF Agrees
<1> QED
  BY <1>6, <1>7 DEF next

(* The device that pairs has no grant yet. *)
With(s, d, dev) == [s EXCEPT !.devices = [x \in DOMAIN @ \cup {d} |-> IF x = d THEN dev ELSE @[x]]]

LEMMA PairedIsGood ==
    ASSUME NEW m, NEW A, Answered(A, m), NEW s, Good(s, A, m), NEW d \in DeviceIds,
           \A i \in DOMAIN m : m[i].device # d,
           NEW later, Extends(m, later), NEW n, Minted(later, d, n),
           NEW dev \in DeviceRecord, dev.token = n, dev.lookback = NoLookback
    PROVE  Good(With(s, d, dev), A, later)
<1> DEFINE all == [x \in DOMAIN s.devices \cup {d} |-> IF x = d THEN dev ELSE s.devices[x]]
           next == With(s, d, dev)
<1>1. PICK D \in SUBSET DeviceIds : s.devices \in [D -> DeviceRecord]
  BY DEF Good, Sides
<1>2. next = [devices |-> all] /\ next.devices = all
  BY DEF Good, Sides, With
<1>3. all \in [D \cup {d} -> DeviceRecord] /\ D \cup {d} \in SUBSET DeviceIds
  BY <1>1
<1>4. next \in Sides
  BY <1>2, <1>3 DEF Sides
<1>5. Good(s, A, later)
  BY GoodLater
<1>6. Known(later, d, dev) /\ \A a \in A : Past(later, d, dev, a)
  BY DEF Known, Past, Answered, Extends
<1> QED
  BY <1>2, <1>4, <1>5, <1>6 DEF Good

(* A rotation: the only answer there is for the grant that was current. *)
LEMMA RotationIsGood ==
    ASSUME NEW m, NEW A, Answered(A, m), NEW s, Good(s, A, m), NEW d \in DOMAIN s.devices,
           NEW later, Extends(m, later), NEW n \in Nat, Minted(later, d, n),
           \A i \in DOMAIN m : i \in Nat /\ i < n,
           NEW c \in Clients, NEW g, s.devices[d].token = g,
           NEW dev \in DeviceRecord, dev.token = n,
           dev.lookback = [prev |-> g, client |-> c, grant |-> g, answer |-> n]
    PROVE  /\ Good(Change(s, d, dev), A \cup {<<c, g, n>>}, later)
           /\ Answered(A \cup {<<c, g, n>>}, later)
<1> DEFINE b == <<c, g, n>>
<1>1. Minted(m, d, g) /\ g \in Nat /\ g < n
  BY DEF Good, Known, Minted
<1>2. b[1] = c /\ b[2] = g /\ b[3] = n /\ b \in Triples
  BY <1>1 DEF Triples
<1> HIDE DEF b
<1>3. \A a \in A : a[2] # g
  <2> SUFFICES ASSUME NEW a \in A, a[2] = g PROVE FALSE
    OBVIOUS
  <2>1. Past(m, d, s.devices[d], a) /\ m[a[2]].device = d
    BY <1>1 DEF Good, Minted
  <2>2. a[3] <= g /\ g < a[3] /\ a[3] \in Nat
    BY <2>1 DEF Past, Answered, Triples
  <2> QED
    BY <1>1, <2>2
<1>4. Good(s, A, later) /\ Answered(A, later)
  BY GoodLater
<1>5. Answered(A \cup {b}, later)
  BY <1>1, <1>2, <1>3, <1>4 DEF Answered, Minted, Extends
<1>6. ASSUME NEW x \in DOMAIN s.devices \ {d}
      PROVE  /\ Known(later, x, s.devices[x])
             /\ \A a \in A \cup {b} : Past(later, x, s.devices[x], a)
  <2>1. Past(later, x, s.devices[x], b)
    BY <1>1, <1>2 DEF Past, Minted, Extends
  <2> QED
    BY <1>4, <2>1 DEF Good
<1>7. Known(later, d, dev)
  BY <1>1 DEF Known, Minted, Extends
<1>8. \A a \in A \cup {b} : Past(later, d, dev, a)
  <2>1. Past(later, d, dev, b)
    BY <1>2 DEF Past
  <2>2. ASSUME NEW a \in A PROVE Past(later, d, dev, a)
    <3>1. a[3] \in DOMAIN m /\ a[2] # g
      BY <1>3 DEF Answered
    <3>2. a[3] <= n
      BY <3>1
    <3> QED
      BY <3>1, <3>2 DEF Past
  <2> QED
    BY <2>1, <2>2
<1>9. Good(Change(s, d, dev), A \cup {b}, later)
  BY <1>6, <1>7, <1>8, ChangeIsGood DEF Good
<1> QED
  BY <1>5, <1>9 DEF b

(* A replay: the same answer again, or the first time it arrives. *)
LEMMA ReplayIsGood ==
    ASSUME NEW m \in Seq(Minting), NEW A, Answered(A, m), NEW s, Good(s, A, m), NEW d \in DOMAIN s.devices,
           NEW c, NEW g, g # 0, s.devices[d].lookback.prev = g,
           s.devices[d].lookback.client = c
    PROVE  LET b == <<c, g, s.devices[d].lookback.answer>> IN
           Good(s, A \cup {b}, m) /\ Answered(A \cup {b}, m)
<1> DEFINE dev == s.devices[d]  n == dev.token  b == <<c, g, dev.lookback.answer>>
<1>1. dev \in DeviceRecord /\ Known(m, d, dev)
  BY DEF Good, Sides
<1>2. dev.lookback # NoLookback
  BY NoLookbackIsOne
<1>3. Minted(m, d, g) /\ Minted(m, d, n) /\ g < n /\ dev.lookback.answer = n
  BY <1>1, <1>2 DEF Known
<1>4. b \in Triples /\ b[1] = c /\ b[2] = g /\ b[3] = n
  BY <1>1, <1>3 DEF DeviceRecord, Triples
<1> HIDE DEF b
<1>5. \A a \in A : a[2] = g => a[1] = c /\ a[3] = n
  BY <1>3 DEF Good, Past, Minted
<1>6. Answered(A \cup {b}, m)
  BY <1>3, <1>4, <1>5 DEF Answered, Minted
<1>7. ASSUME NEW x \in DOMAIN s.devices
      PROVE  Past(m, x, s.devices[x], b)
  BY <1>1, <1>3, <1>4 DEF Past, Minted, DeviceRecord
<1>8. Good(s, A \cup {b}, m)
  BY <1>7 DEF Good
<1> QED
  BY <1>6, <1>8 DEF b

(* What is past the answers in the cache is past them in the file. *)
LEMMA AgreedIsPast ==
    ASSUME NEW m \in Seq(Minting), NEW A, Answered(A, m), NEW c, NEW s, Good(c, A, m), Agrees(c, s),
           NEW B, Good(s, B, m)
    PROVE  Good(s, A, m)
<1>1. ASSUME NEW d \in DOMAIN s.devices, NEW a \in A
      PROVE  Past(m, d, s.devices[d], a)
  <2>1. d \in DOMAIN c.devices /\ Past(m, d, c.devices[d], a) /\ c.devices[d].token = s.devices[d].token
    BY DEF Agrees, Good
  <2>2. a[2] # 0
    BY DEF Answered
  <2> QED
    BY <2>1, <2>2, NoLookbackIsOne DEF Past, Agrees
<1> QED
  BY <1>1 DEF Good
-----------------------------------------------------------------------------
(* The ways a transaction ends. *)

Times == now' \in Nat /\ certLeaf' \in Nat /\ liveLeaf' \in Nat

LEMMA WriteStays ==
    ASSUME Inv, Times, Extends(mint, mint'), UNCHANGED <<answers, shaky>>,
           NEW next, Good(next, answers, mint'),
           Committed(next) \/ Uncertain(next) \/ NotWritten
    PROVE  Inv'
<1>1. Answered(answers, mint') /\ mint' \in Seq(Minting) /\ Good(disk, answers, mint')
  BY GoodLater DEF Inv, Extends
<1>2. \A s \in limbo \cup {disk} : Good(s, answers \ shaky, mint')
  <2>1. Good(disk, answers \ shaky, mint')
    BY <1>1, GoodLess
  <2>2. \A s \in limbo : Good(s, answers \ shaky, mint')
    BY GoodLater, AnsweredLess DEF Inv
  <2> QED
    BY <2>1, <2>2
<1>3. disk' \in {disk, next} /\ cached' = disk' /\ limbo' \subseteq limbo \cup {disk}
  BY DEF Committed, Uncertain, NotWritten
<1>4. Good(disk', answers', mint') /\ Agrees(cached', disk')
  BY <1>1, <1>3, AgreesSelf
<1>5. \A s \in limbo' : Good(s, answers' \ shaky', mint')
  BY <1>2, <1>3
<1> QED
  BY <1>1, <1>3, <1>4, <1>5 DEF Inv, Times

LEMMA LoadStays ==
    ASSUME Inv, Times, UNCHANGED <<mint, disk, limbo>>, cached' = View,
           Good(View, answers', mint), Answered(answers', mint),
           \A s \in limbo : Good(s, answers' \ shaky', mint)
    PROVE  Inv'
<1>1. Agrees(View, disk)
  BY AgreesSelf DEF View, Inv
<1>2. Good(disk, answers', mint)
  BY <1>1, AgreedIsPast DEF Inv
<1> QED
  BY <1>1, <1>2 DEF Inv, Times

LEMMA ViewIsGood ==
    ASSUME Inv
    PROVE  Good(View, answers, mint) /\ Agrees(View, disk)
  BY AgreesSelf DEF View, Inv

(* A handler that leaves the store, the minting and the answers alone. *)
LEMMA OutsideStays ==
    ASSUME Inv, Times, UNCHANGED <<storeVars, mint, answers, shaky>>
    PROVE  Inv'
  BY DEF Inv, Times, storeVars

LEMMA SameExtends == ASSUME Inv PROVE Extends(mint, mint)
  BY DEF Inv, Extends
-----------------------------------------------------------------------------
(* The steps. *)

LEMMA InitStays == Init => Inv
<1> SUFFICES ASSUME Init PROVE Inv
  OBVIOUS
<1>1. disk \in Sides /\ DOMAIN disk.devices = {}
  <2>1. [d \in {} |-> 0] \in [{} -> DeviceRecord] /\ {} \in SUBSET DeviceIds
    OBVIOUS
  <2> QED
    BY <2>1 DEF Init, Sides
<1>2. Good(disk, answers, mint) /\ Answered(answers, mint) /\ mint \in Seq(Minting)
  BY <1>1 DEF Init, Good, Answered
<1> QED
  BY <1>2 DEF Init, Inv

LEMMA CloseStays ==
    ASSUME Inv, Times, UNCHANGED mint, NEW d, NEW reason \in {"owner", "reuse", "expired"},
           CloseFamily(d, reason)
    PROVE  Inv'
<1> DEFINE next == Closed(Base, d, reason)
<1>1. Good(next, answers, mint)
  BY ClosedIsGood DEF Inv, Base
<1>2. Committed(next) \/ Uncertain(next) \/ NotWritten
  BY DEF CloseFamily, Throws
<1>3. UNCHANGED <<answers, shaky>>
  BY DEF CloseFamily, Throws
<1> HIDE DEF next
<1> QED
  BY <1>1, <1>2, <1>3, WriteStays, SameExtends

LEMMA OnlyLoadsStays ==
    ASSUME Inv, Times, UNCHANGED mint, OnlyLoads
    PROVE  Inv'
<1>1. UNCHANGED <<disk, limbo, answers, shaky>> /\ cached' = View
  BY DEF OnlyLoads, Load
<1> QED
  BY <1>1, ViewIsGood, LoadStays DEF Inv

LEMMA ReplayStays ==
    ASSUME Inv, Times, UNCHANGED mint, NEW c, NEW g, g # 0, NEW d \in LookbackOf(g),
           SameRequest(Device(d, View), c, g), Replay(c, g, d)
    PROVE  Inv'
<1> DEFINE b == <<c, g, View.devices[d].lookback.answer>>
<1>1. /\ d \in DOMAIN View.devices /\ View.devices[d].lookback.prev = g
      /\ View.devices[d].lookback.client = c
  BY DEF LookbackOf, SameRequest, Device
<1>2. Good(View, answers \cup {b}, mint) /\ Answered(answers \cup {b}, mint)
  BY <1>1, ViewIsGood, ReplayIsGood DEF Inv
<1>3. /\ answers' = answers \cup {b}
      /\ shaky' = IF limbo = {} THEN shaky ELSE shaky \cup ({b} \ answers)
      /\ UNCHANGED <<disk, limbo>> /\ cached' = View
  BY DEF Replay, Load, Device
<1> HIDE DEF b
<1>4. \A s \in limbo : Good(s, answers' \ shaky', mint)
  <2> SUFFICES ASSUME NEW s \in limbo PROVE Good(s, answers' \ shaky', mint)
    OBVIOUS
  <2>1. answers' \ shaky' \subseteq answers \ shaky
    BY <1>3
  <2> QED
    BY <2>1, GoodLess DEF Inv
<1> QED
  BY <1>2, <1>3, <1>4, LoadStays

LEMMA RotateStays ==
    ASSUME Inv, Times, UNCHANGED now, NEW c \in Clients, NEW g, NEW d \in CurrentOf(g), Rotate(c, g, d)
    PROVE  Inv'
<1> DEFINE n == Len(mint) + 1
           dev == Rotated(disk.devices[d], n, c, g)
           next == Change(disk, d, dev)
           b == <<c, g, n>>
<1>1. d \in DOMAIN disk.devices /\ disk.devices[d].token = g
  BY ViewIsGood DEF Rotate, Base, CurrentOf, Device, Agrees
<1>2. d \in DeviceIds /\ disk.devices[d] \in DeviceRecord
  BY <1>1 DEF Inv, Good, Sides
<1>3. mint' = Append(mint, [device |-> d, at |-> now]) /\ [device |-> d, at |-> now] \in Minting
  BY <1>2 DEF Rotate, Inv, Minting
<1>4. Extends(mint, mint') /\ Minted(mint', d, n) /\ n \in Nat /\ \A i \in DOMAIN mint : i \in Nat /\ i < n
  BY <1>3, AppendExtends DEF Inv, Minted
<1>5. /\ dev \in DeviceRecord /\ dev.token = n
      /\ dev.lookback = [prev |-> g, client |-> c, grant |-> g, answer |-> n]
  <2> DEFINE old == disk.devices[d]
             idle == IF now + IdleTtl < old.absoluteAt THEN now + IdleTtl ELSE old.absoluteAt
             lookback == [prev |-> g, client |-> c, grant |-> g, answer |-> n]
  <2>1. g \in Nat /\ old.absoluteAt \in Nat
    BY <1>1, <1>2 DEF DeviceRecord
  <2>2. now + AccessTtl \in Nat /\ idle \in Nat
    BY <2>1, TtlAssumption DEF Inv
  <2>3. lookback \in [prev : Nat, client : Clients, grant : Nat, answer : Nat]
    BY <1>4, <2>1
  <2>4. dev = [old EXCEPT !.token = n, !.accessExpiresAt = now + AccessTtl, !.idleAt = idle,
                          !.lookback = lookback]
    BY <1>1 DEF Rotated
  <2> HIDE DEF old, idle, lookback, n, dev
  <2> QED
    BY <1>2, <1>4, <2>2, <2>3, <2>4 DEF DeviceRecord, old, lookback
<1> HIDE DEF n, dev
<1>6. Good(next, answers \cup {b}, mint') /\ Answered(answers \cup {b}, mint')
  BY <1>1, <1>4, <1>5, RotationIsGood DEF Inv
<1> HIDE DEF next, b
<1>7. CASE Committed(next) /\ answers' = answers \cup {b} /\ UNCHANGED shaky
  <2>1. disk' = next /\ cached' = next /\ limbo' = {}
    BY <1>7 DEF Committed
  <2> QED
    BY <1>4, <1>6, <1>7, <2>1, AgreesSelf DEF Inv, Times, Extends
<1>8. CASE (Uncertain(next) \/ NotWritten) /\ UNCHANGED <<answers, shaky>>
  <2>1. Good(next, answers, mint')
    BY <1>6, GoodLess
  <2> QED
    BY <1>4, <1>8, <2>1, WriteStays
<1> QED
  BY <1>7, <1>8 DEF Rotate, Throws, Base, Device, n, dev, next, b

LEMMA RefreshStays ==
    ASSUME Inv, NEW c \in Clients, NEW g \in 1 .. MaxMint, Refresh(c, g)
    PROVE  Inv'
<1>1. Times /\ g # 0 /\ UNCHANGED now
  BY TtlAssumption DEF Refresh, Times, Inv, certVars
<1>2. CASE \E d \in LookbackOf(g) : PresentedAgain(c, g, d) /\ UNCHANGED mint
  BY <1>1, <1>2, ReplayStays, CloseStays DEF PresentedAgain
<1>3. CASE \E d \in CurrentOf(g) : Rotate(c, g, d)
  BY <1>1, <1>3, RotateStays
<1>4. CASE \E d \in LookbackOf(g) \cup CurrentOf(g) : CloseFamily(d, "expired") /\ UNCHANGED mint
  BY <1>1, <1>4, CloseStays
<1>5. CASE OnlyLoads /\ UNCHANGED mint
  BY <1>1, <1>5, OnlyLoadsStays
<1> QED
  BY <1>2, <1>3, <1>4, <1>5 DEF Refresh

LEMMA OwnerStays ==
    ASSUME Inv, NEW d \in DeviceIds, Revoke(d) \/ Forget(d)
    PROVE  Inv'
<1>1. Times /\ UNCHANGED mint
  BY DEF Revoke, Forget, Times, Inv, certVars
<1>2. CASE Revoke(d)
  BY <1>1, <1>2, CloseStays DEF Revoke
<1>3. CASE Forget(d)
  <2> DEFINE next == [Base EXCEPT !.devices = [x \in DOMAIN @ \ {d} |-> @[x]]]
  <2>1. Good(next, answers, mint)
    BY ForgottenIsGood DEF Inv, Base
  <2>2. (Committed(next) \/ Uncertain(next) \/ NotWritten) /\ UNCHANGED <<answers, shaky>>
    BY <1>3 DEF Forget, Throws
  <2> HIDE DEF next
  <2> QED
    BY <1>1, <2>1, <2>2, WriteStays, SameExtends
<1> QED
  BY <1>2, <1>3

LEMMA CommandStays ==
    ASSUME Inv, CommandRevokesAll
    PROVE  Inv'
<1> DEFINE next == RevokedAll(disk)
<1>1. Times /\ UNCHANGED <<mint, answers, shaky, cached>> /\ disk' = next /\ limbo' \subseteq limbo \cup {disk}
  BY DEF CommandRevokesAll, CommittedByCommand, UncertainByCommand, RevokedAll, AllShut, Shut,
     Times, Inv, certVars
<1>2. Good(next, answers, mint) /\ (cached # NoState => Agrees(cached, next))
  BY RevokedAllIsGood DEF Inv
<1>3. \A s \in limbo \cup {disk} : Good(s, answers \ shaky, mint)
  BY GoodLess DEF Inv
<1> HIDE DEF next
<1> QED
  BY <1>1, <1>2, <1>3 DEF Inv, Times

LEMMA PairStays ==
    ASSUME Inv, NEW d \in DeviceIds, Pair(d)
    PROVE  Inv'
<1> DEFINE n == Len(mint) + 1
           dev == [revokedReason |-> "none", token |-> n, leaf |-> liveLeaf,
                   accessExpiresAt |-> now + AccessTtl, idleAt |-> now + IdleTtl,
                   absoluteAt |-> now + AbsoluteTtl, lookback |-> NoLookback]
           next == With(disk, d, dev)
<1>1. Times /\ UNCHANGED <<answers, shaky>> /\ mint' = Append(mint, [device |-> d, at |-> now])
      /\ \A i \in DOMAIN mint : mint[i].device # d
  BY DEF Pair, Times, Inv, certVars
<1>2. Extends(mint, mint') /\ Minted(mint', d, n) /\ n \in Nat
  <2>1. [device |-> d, at |-> now] \in Minting
    BY DEF Inv, Minting
  <2> QED
    BY <1>1, <2>1, AppendExtends DEF Inv, Minted
<1>3. dev \in DeviceRecord /\ dev.token = n /\ dev.lookback = NoLookback
  <2> HIDE DEF n
  <2>1. now + AccessTtl \in Nat /\ now + IdleTtl \in Nat /\ now + AbsoluteTtl \in Nat /\ liveLeaf \in Nat
    BY TtlAssumption DEF Inv
  <2> QED
    BY <1>2, <2>1, NoLookbackIsOne DEF DeviceRecord
<1>4. Committed(next)
  BY DEF Pair, Base, With
<1> HIDE DEF n, dev
<1>5. Good(next, answers, mint')
  BY <1>1, <1>2, <1>3, PairedIsGood DEF Inv
<1> HIDE DEF next
<1> QED
  BY <1>1, <1>2, <1>4, <1>5, WriteStays

LEMMA RestartStays ==
    ASSUME Inv, Restart
    PROVE  Inv'
<1>1. Times /\ UNCHANGED mint /\ cached' = NoState
  BY DEF Restart, RestartServer, PowerCut, Times, Inv
<1>2. CASE RestartServer /\ UNCHANGED <<answers, shaky>>
  BY <1>1, <1>2 DEF RestartServer, Inv, Times
<1>3. CASE PowerCut /\ answers' = IF disk' = disk THEN answers ELSE answers \ shaky
  <2>1. Good(disk', answers', mint) /\ limbo' = {}
    BY <1>3 DEF PowerCut, Inv
  <2>2. Answered(answers', mint)
    BY <1>3, AnsweredLess DEF Inv
  <2> QED
    BY <1>1, <2>1, <2>2 DEF Inv, Times
<1> QED
  BY <1>2, <1>3 DEF Restart

LEMMA NextStays ==
    ASSUME Inv, [Next]_vars
    PROVE  Inv'
<1>1. CASE UNCHANGED vars \/ \E c \in Clients : Send(c) \/ Receive(c) \/ CopyGrant(c)
  BY <1>1, OutsideStays DEF vars, Send, Receive, CopyGrant, certVars, historyVars, clientVars, Times, Inv
<1>2. CASE CommandRotatesCertificate \/ Tick
  <2>1. Times /\ UNCHANGED <<storeVars, mint, answers, shaky>>
    BY <1>2 DEF CommandRotatesCertificate, Tick, certVars, historyVars, Times, Inv
  <2> QED
    BY <2>1, OutsideStays
<1>3. CASE \E c \in Clients, g \in 1 .. MaxMint : Refresh(c, g)
  BY <1>3, RefreshStays
<1>4. CASE \E d \in DeviceIds : Pair(d) \/ Revoke(d) \/ Forget(d)
  BY <1>4, PairStays, OwnerStays
<1>5. CASE Authenticate
  BY <1>5, OnlyLoadsStays DEF Authenticate, Times, Inv, certVars
<1>6. CASE CommandRevokesAll \/ Restart
  BY <1>6, CommandStays, RestartStays
<1> QED
  BY <1>1, <1>2, <1>3, <1>4, <1>5, <1>6 DEF Next
-----------------------------------------------------------------------------
(* Every file the server has, may load or may be put back to is past the
   answers that were given. *)
THEOREM FilesArePast == Spec => []Inv
<1>1. Inv /\ [Next]_vars => Inv'
  BY NextStays
<1> QED
  BY InitStays, <1>1, PTL DEF Spec

(* A refresh grant is exchanged for one successor, by one client, whatever is
   lost, repeated, reordered, restarted or, unless it was replayed from an
   unconfirmed file, cut off (refreshTokens). *)
THEOREM OneSuccessor == Spec => []OneSuccessorPerGrant
<1>1. Inv => OneSuccessorPerGrant
  BY DEF Inv, Answered, OneSuccessorPerGrant
<1> QED
  BY FilesArePast, <1>1, PTL
-----------------------------------------------------------------------------
(* What the families have been promised: the invariant of the remaining     *)
(* theorems, about every record of every file the server has, may load or   *)
(* may be put back to.                                                      *)

Durable == {disk} \cup limbo
Files   == Durable \cup (IF cached = NoState THEN {} ELSE {cached})

(* Nobody but the phone holds a grant. *)
Alone(h) == \A c \in Clients \ {Phone} : h[c] = 0

(* i is the pairing of family d. *)
IsPairing(m, d, i) == i \in DOMAIN m /\ m[i].device = d /\ \A j \in 1 .. i-1 : m[j].device # d

(* The access token ends with its lifetime, and with that of the family. *)
Lasts(m, d, dev) ==
    /\ dev.accessExpiresAt = m[dev.token].at + AccessTtl
    /\ \E i \in DOMAIN m : IsPairing(m, d, i) /\ dev.absoluteAt = m[i].at + AbsoluteTtl

Trusted(dev) == dev.revokedReason # "reuse" /\ dev.lookback.client = Phone

Refused(dev, leaf) == IsRevoked(dev) \/ dev.leaf # leaf

Fits(m, h, leaf, d, dev) ==
    Lasts(m, d, dev) /\ dev.leaf <= leaf /\ (Alone(h) => Trusted(dev))

SameLeaf(s, t) ==
    \A d \in DOMAIN s.devices \cap DOMAIN t.devices : s.devices[d].leaf = t.devices[d].leaf

Paired(m, d) == \E i \in DOMAIN m : m[i].device = d

Held ==
    /\ Inv
    /\ liveLeaf <= certLeaf
    /\ held \in [Clients -> Nat] /\ \A r \in sent : r[1] \in Clients /\ held[r[1]] # 0
    /\ \A d \in closed \cup cmdClosed : Paired(mint, d)
    /\ \A s \in Files : \A d \in DOMAIN s.devices :
          /\ Fits(mint, held, liveLeaf, d, s.devices[d])
          /\ d \in closed => Refused(s.devices[d], liveLeaf)
    /\ \A s, t \in Files : SameLeaf(s, t)
    /\ \A s \in Durable : \A d \in DOMAIN s.devices :
          d \in cmdClosed => IsRevoked(s.devices[d])
-----------------------------------------------------------------------------
(* What a step makes of one record of the file. *)

(* The record of a family that was there before. *)
Kin(d, dev) ==
    /\ d \in DOMAIN disk.devices
    /\ dev.leaf = disk.devices[d].leaf /\ dev.absoluteAt = disk.devices[d].absoluteAt
    /\ IsRevoked(disk.devices[d]) => IsRevoked(dev)
    /\ \/ /\ dev.token = disk.devices[d].token
          /\ dev.accessExpiresAt = disk.devices[d].accessExpiresAt
       \/ /\ dev.token = Len(mint) + 1 /\ dev.accessExpiresAt = now + AccessTtl
          /\ mint' = Append(mint, [device |-> d, at |-> now])
    /\ dev.revokedReason = "reuse" => disk.devices[d].revokedReason = "reuse" \/ ~Alone(held)
    /\ \/ dev.lookback.client \in {Phone, disk.devices[d].lookback.client}
       \/ dev.lookback.client \in Clients /\ held[dev.lookback.client] # 0

(* The record of a device that has just been paired. *)
Newcomer(d, dev) ==
    /\ ~Paired(mint, d) /\ mint' = Append(mint, [device |-> d, at |-> now])
    /\ dev.token = Len(mint) + 1 /\ dev.leaf = liveLeaf
    /\ dev.accessExpiresAt = now + AccessTtl /\ dev.absoluteAt = now + AbsoluteTtl
    /\ Trusted(dev)

From(next) == \A d \in DOMAIN next.devices : Kin(d, next.devices[d]) \/ Newcomer(d, next.devices[d])

(* What no step undoes. *)
Steady ==
    /\ Extends(mint, mint') /\ liveLeaf <= liveLeaf' /\ liveLeaf' <= certLeaf'
    /\ held' \in [Clients -> Nat] /\ \A c \in Clients : held[c] # 0 => held'[c] # 0
    /\ \A r \in sent' : r[1] \in Clients /\ held'[r[1]] # 0

(* The files after a step: those before it, and the one it writes. *)
Writes(next) == Files' \subseteq Files \cup {next} /\ Durable' \subseteq Durable \cup {next}

(* What a step closes is closed in every file it leaves. *)
Closes ==
    /\ \A s \in Files' : \A d \in DOMAIN s.devices :
          d \in closed' \ closed => Refused(s.devices[d], liveLeaf')
    /\ \A s \in Durable' : \A d \in DOMAIN s.devices :
          d \in cmdClosed' \ cmdClosed => IsRevoked(s.devices[d])
    /\ \A d \in closed' \cup cmdClosed' : Paired(mint', d)

(* The file a confirmed one makes way for is of its kin. *)
Keeps == Held' /\ (limbo = {} => From(disk'))

LEMMA FilesAreGood ==
    ASSUME Inv, NEW s \in Files
    PROVE  s \in Sides /\ \A d \in DOMAIN s.devices :
              /\ d \in DeviceIds /\ s.devices[d] \in DeviceRecord /\ Known(mint, d, s.devices[d])
              /\ Paired(mint, d)
<1>1. s \in Sides /\ \A d \in DOMAIN s.devices : Known(mint, d, s.devices[d])
  BY DEF Inv, Good, Files, Durable
<1>2. PICK D \in SUBSET DeviceIds : s.devices \in [D -> DeviceRecord]
  BY <1>1 DEF Sides
<1> QED
  BY <1>1, <1>2 DEF Known, Minted, Paired

LEMMA PairingLater ==
    ASSUME NEW m, NEW later, Extends(m, later), NEW d, NEW i, IsPairing(m, d, i)
    PROVE  IsPairing(later, d, i) /\ later[i] = m[i]
<1>1. \A j \in 1 .. i-1 : j \in DOMAIN m
  BY DEF Extends, IsPairing
<1> QED
  BY <1>1 DEF Extends, IsPairing

(* A record that stays. *)
LEMMA FitsLater ==
    ASSUME NEW m, NEW later, Extends(m, later), NEW h, NEW k, Alone(k) => Alone(h),
           NEW leaf \in Nat, NEW top \in Nat, leaf <= top,
           NEW d, NEW dev \in DeviceRecord, Known(m, d, dev), Fits(m, h, leaf, d, dev)
    PROVE  Fits(later, k, top, d, dev)
<1>1. dev.token \in DOMAIN m /\ dev.leaf \in Nat
  BY DEF Known, Minted, DeviceRecord
<1>2. Lasts(later, d, dev)
  BY <1>1, PairingLater DEF Lasts, Fits, Extends
<1> QED
  BY <1>1, <1>2 DEF Fits

LEMMA AloneBefore == ASSUME Steady, Alone(held') PROVE Alone(held)
  BY DEF Steady, Alone

(* The record a step writes. *)
LEMMA KinFits ==
    ASSUME Held, Inv', Steady, NEW d, NEW dev \in DeviceRecord, Kin(d, dev)
    PROVE  /\ Fits(mint', held', liveLeaf', d, dev)
           /\ d \in closed => Refused(dev, liveLeaf')
<1> DEFINE was == disk.devices[d]
<1>1. /\ d \in DeviceIds /\ was \in DeviceRecord /\ Known(mint, d, was)
      /\ Fits(mint, held, liveLeaf, d, was) /\ (d \in closed => Refused(was, liveLeaf))
  <2>1. disk \in Files /\ d \in DOMAIN disk.devices
    BY DEF Files, Durable, Kin
  <2> QED
    BY <2>1, FilesAreGood DEF Held
<1>2. /\ liveLeaf \in Nat /\ liveLeaf' \in Nat /\ was.leaf \in Nat /\ liveLeaf <= liveLeaf'
      /\ mint \in Seq(Minting) /\ now \in Nat
  BY <1>1 DEF Held, Inv, Steady, DeviceRecord
<1>3. Fits(mint', held', liveLeaf', d, was)
  BY <1>1, <1>2, AloneBefore, FitsLater DEF Steady
<1>4. Kin(d, dev) /\ dev.leaf = was.leaf /\ dev.absoluteAt = was.absoluteAt
  BY DEF Kin
<1> HIDE DEF was
<1>5. Lasts(mint', d, dev)
  <2>1. dev.accessExpiresAt = mint'[dev.token].at + AccessTtl
    <3>1. CASE dev.token = was.token /\ dev.accessExpiresAt = was.accessExpiresAt
      BY <1>3, <3>1 DEF Fits, Lasts
    <3>2. CASE /\ dev.token = Len(mint) + 1 /\ dev.accessExpiresAt = now + AccessTtl
               /\ mint' = Append(mint, [device |-> d, at |-> now])
      <4>1. [device |-> d, at |-> now] \in Minting
        BY <1>1, <1>2 DEF Minting
      <4>2. mint'[dev.token] = [device |-> d, at |-> now]
        BY <1>2, <3>2, <4>1, AppendExtends
      <4> QED
        BY <3>2, <4>2
    <3> QED
      BY <3>1, <3>2 DEF Kin, was
  <2> QED
    BY <1>3, <1>4, <2>1 DEF Fits, Lasts
<1>6. ASSUME Alone(held')
      PROVE  Trusted(dev)
  <2>1. Alone(held) /\ Trusted(was)
    BY <1>1, <1>6, AloneBefore DEF Fits
  <2>2. dev.revokedReason # "reuse"
    BY <2>1 DEF Kin, Trusted, was
  <2>3. dev.lookback.client = Phone
    BY <2>1 DEF Kin, Trusted, Alone, was
  <2> QED
    BY <2>2, <2>3 DEF Trusted
<1>7. ASSUME d \in closed
      PROVE  Refused(dev, liveLeaf')
  <2>1. CASE IsRevoked(was)
    BY <2>1 DEF Kin, was, Refused
  <2>2. CASE was.leaf # liveLeaf
    <3>1. was.leaf <= liveLeaf
      BY <1>1 DEF Fits
    <3> QED
      BY <1>2, <1>4, <2>2, <3>1 DEF Refused
  <2> QED
    BY <1>1, <1>7, <2>1, <2>2 DEF Refused
<1> QED
  BY <1>2, <1>3, <1>4, <1>5, <1>6, <1>7 DEF Fits

LEMMA NewcomerFits ==
    ASSUME Held, Inv', Steady, NEW d \in DeviceIds, NEW dev \in DeviceRecord, Newcomer(d, dev)
    PROVE  Fits(mint', held', liveLeaf', d, dev) /\ d \notin closed \cup cmdClosed
<1>1. mint \in Seq(Minting) /\ now \in Nat /\ [device |-> d, at |-> now] \in Minting
  BY DEF Held, Inv, Minting
<1> DEFINE n == Len(mint) + 1
<1>2. /\ n \in DOMAIN mint' /\ mint'[n] = [device |-> d, at |-> now] /\ n \in Nat
      /\ \A j \in 1 .. n-1 : j \in DOMAIN mint
      /\ mint' = Append(mint, [device |-> d, at |-> now])
  BY <1>1, AppendExtends DEF Newcomer
<1>3. \A j \in 1 .. n-1 : mint'[j].device # d
  BY <1>2 DEF Steady, Extends, Newcomer, Paired
<1>4. dev.token = n /\ dev.accessExpiresAt = now + AccessTtl /\ dev.absoluteAt = now + AbsoluteTtl
      /\ dev.leaf = liveLeaf /\ Trusted(dev)
  BY DEF Newcomer
<1> HIDE DEF n
<1>5. IsPairing(mint', d, n)
  BY <1>2, <1>3 DEF IsPairing
<1>6. Lasts(mint', d, dev)
  BY <1>2, <1>4, <1>5 DEF Lasts
<1>7. d \notin closed \cup cmdClosed
  BY DEF Newcomer, Held
<1> QED
  BY <1>4, <1>6, <1>7 DEF Fits, Steady

LEMMA LeavesAgree ==
    ASSUME Held, NEW next, From(next)
    PROVE  SameLeaf(next, next) /\ \A s \in Files : SameLeaf(s, next) /\ SameLeaf(next, s)
<1>1. ASSUME NEW s \in Files, NEW d \in DOMAIN s.devices, d \in DOMAIN next.devices
      PROVE  s.devices[d].leaf = next.devices[d].leaf
  <2>1. Paired(mint, d)
    BY <1>1, FilesAreGood DEF Held
  <2>2. Kin(d, next.devices[d])
    BY <1>1, <2>1 DEF From, Newcomer
  <2>3. disk \in Files
    BY DEF Files, Durable
  <2> QED
    BY <1>1, <2>2, <2>3 DEF Held, SameLeaf, Kin
<1> QED
  BY <1>1 DEF SameLeaf

LEMMA DiskIsOne ==
    ASSUME Inv
    PROVE  /\ disk \in Files /\ View \in Files /\ From(disk)
           /\ \A d \in DOMAIN disk.devices \cup DOMAIN View.devices : d \in DeviceIds /\ Paired(mint, d)
<1>1. disk \in Files /\ View \in Files
  BY DEF Files, Durable, View
<1>2. From(disk)
  BY DEF From, Kin
<1> QED
  BY <1>1, <1>2, FilesAreGood

LEMMA HeldStays ==
    ASSUME Held, Inv', Steady, NEW next, From(next), next \in Sides, Writes(next), Closes
    PROVE  Keeps
<1>0. PICK D \in SUBSET DeviceIds : next.devices \in [D -> DeviceRecord]
  BY DEF Sides
<1>1. ASSUME NEW s \in Files', NEW d \in DOMAIN s.devices
      PROVE  /\ Fits(mint', held', liveLeaf', d, s.devices[d])
             /\ d \in closed => Refused(s.devices[d], liveLeaf')
  <2>1. CASE s \in Files
    <3>1. /\ s.devices[d] \in DeviceRecord /\ Known(mint, d, s.devices[d])
          /\ Fits(mint, held, liveLeaf, d, s.devices[d])
          /\ (d \in closed => Refused(s.devices[d], liveLeaf))
      BY <1>1, <2>1, FilesAreGood DEF Held
    <3>2. liveLeaf \in Nat /\ liveLeaf' \in Nat /\ liveLeaf <= liveLeaf' /\ s.devices[d].leaf \in Nat
      BY <3>1 DEF Held, Inv, Steady, DeviceRecord
    <3>3. Fits(mint', held', liveLeaf', d, s.devices[d])
      BY <3>1, <3>2, AloneBefore, FitsLater DEF Steady
    <3>4. s.devices[d].leaf <= liveLeaf
      BY <3>1 DEF Fits
    <3> QED
      BY <3>1, <3>2, <3>3, <3>4 DEF Refused
  <2>2. CASE s = next
    <3>1. next.devices[d] \in DeviceRecord /\ d \in DeviceIds
      BY <1>0, <1>1, <2>2
    <3>2. Kin(d, next.devices[d]) \/ Newcomer(d, next.devices[d])
      BY <1>1, <2>2 DEF From
    <3> QED
      BY <2>2, <3>1, <3>2, KinFits, NewcomerFits
  <2> QED
    BY <1>1, <2>1, <2>2 DEF Writes
<1>2. ASSUME NEW s \in Files', NEW d \in DOMAIN s.devices, d \in closed'
      PROVE  Refused(s.devices[d], liveLeaf')
  BY <1>1, <1>2 DEF Closes
<1>3. \A s, t \in Files' : SameLeaf(s, t)
  BY LeavesAgree DEF Writes, Held
<1>4. ASSUME NEW s \in Durable', NEW d \in DOMAIN s.devices, d \in cmdClosed'
      PROVE  IsRevoked(s.devices[d])
  <2>1. CASE d \notin cmdClosed
    BY <1>4, <2>1 DEF Closes
  <2>2. CASE d \in cmdClosed /\ s \in Durable
    BY <1>4, <2>2 DEF Held
  <2>3. CASE d \in cmdClosed /\ s = next
    <3>1. Kin(d, next.devices[d])
      BY <1>4, <2>3 DEF From, Newcomer, Held
    <3>2. IsRevoked(disk.devices[d])
      BY <2>3, <3>1 DEF Kin, Held, Durable
    <3> QED
      BY <2>3, <3>1, <3>2 DEF Kin
  <2> QED
    BY <1>4, <2>1, <2>2, <2>3 DEF Writes
<1>5. \A d \in closed' \cup cmdClosed' : Paired(mint', d)
  BY DEF Closes
<1>6. limbo = {} => From(disk')
  BY DiskIsOne DEF Held, Writes, Durable
<1> QED
  BY <1>1, <1>2, <1>3, <1>4, <1>5, <1>6 DEF Held, Steady, Keeps
-----------------------------------------------------------------------------
(* The steps again, for the promises. *)

(* The minting and the certificates of a step that leaves them alone. *)
LEMMA HeldParts ==
    ASSUME Held
    PROVE  /\ Extends(mint, mint) /\ liveLeaf <= liveLeaf /\ liveLeaf <= certLeaf
           /\ held \in [Clients -> Nat] /\ \A r \in sent : r[1] \in Clients /\ held[r[1]] # 0
<1>1. liveLeaf \in Nat
  BY DEF Held, Inv
<1> QED
  BY <1>1, SameExtends DEF Held

LEMMA SteadyHere ==
    ASSUME Held, Extends(mint, mint'), UNCHANGED <<held, sent, certLeaf, liveLeaf>>
    PROVE  Steady
  BY DEF Held, Inv, Steady

LEMMA QuietStays ==
    ASSUME Held, Inv', Steady, Files' \subseteq Files, Durable' \subseteq Durable,
           UNCHANGED <<closed, cmdClosed>>
    PROVE  Keeps
<1>1. From(disk) /\ disk \in Sides
  BY DiskIsOne DEF Held, Inv, Good
<1>2. Writes(disk)
  BY DEF Writes
<1>3. Closes
  <2>1. \A d \in closed \cup cmdClosed : Paired(mint', d)
    BY DEF Held, Paired, Steady, Extends
  <2> QED
    BY <2>1 DEF Closes
<1> QED
  BY <1>1, <1>2, <1>3, HeldStays

LEMMA LoadIsQuiet ==
    ASSUME Inv, Load
    PROVE  Files' \subseteq Files /\ Durable' \subseteq Durable
  BY DEF Load, Files, Durable, View

LEMMA WritesItsFile ==
    ASSUME NEW next, Committed(next) \/ Uncertain(next) \/ NotWritten
    PROVE  /\ Writes(disk') /\ disk' \in {disk, next} /\ cached' = disk'
           /\ Committed(next) => disk' = next /\ \A s \in Files' : s = next
  BY DEF Committed, Uncertain, NotWritten, Writes, Files, Durable

(* A transaction whose candidate comes from the file, and closes nothing. *)
LEMMA WriteKeeps ==
    ASSUME Held, Inv', Steady, NEW next, From(next),
           Committed(next) \/ Uncertain(next) \/ NotWritten, UNCHANGED <<closed, cmdClosed>>
    PROVE  Keeps
<1>1. From(disk') /\ disk' \in Sides
  <2>1. disk' \in {disk, next}
    BY WritesItsFile
  <2>2. disk' \in Sides
    BY DEF Inv, Good
  <2>3. CASE disk' = disk
    BY <2>2, <2>3, DiskIsOne DEF Held
  <2>4. CASE disk' = next
    BY <2>2, <2>4
  <2> QED
    BY <2>1, <2>3, <2>4
<1>2. Closes
  <2>1. \A d \in closed \cup cmdClosed : Paired(mint', d)
    BY DEF Held, Paired, Steady, Extends
  <2> QED
    BY <2>1 DEF Closes
<1> QED
  BY <1>1, <1>2, WritesItsFile, HeldStays

(* A closed record is one of the same family. *)
LEMMA ShutIsKin ==
    ASSUME NEW d \in DOMAIN disk.devices, disk.devices[d] \in DeviceRecord,
           NEW reason \in {"owner", "reuse", "expired"}, reason = "reuse" => ~Alone(held)
    PROVE  Kin(d, Shut(disk.devices[d], reason)) /\ IsRevoked(Shut(disk.devices[d], reason))
<1> DEFINE was == disk.devices[d]  shut == Shut(was, reason)
<1>1. /\ shut.leaf = was.leaf /\ shut.absoluteAt = was.absoluteAt /\ shut.token = was.token
      /\ shut.accessExpiresAt = was.accessExpiresAt /\ shut.revokedReason = reason
      /\ shut.lookback = NoLookback
  BY DEF Shut, DeviceRecord
<1>2. NoLookback.client = Phone
  BY DEF NoLookback
<1> HIDE DEF shut
<1> QED
  BY <1>1, <1>2 DEF Kin, IsRevoked, shut

LEMMA ClosedIsKin ==
    ASSUME Inv, NEW d, NEW reason \in {"owner", "reuse", "expired"}, reason = "reuse" => ~Alone(held)
    PROVE  LET next == Closed(disk, d, reason) IN
           From(next) /\ (d \in DOMAIN next.devices => IsRevoked(next.devices[d]))
<1>1. PICK D \in SUBSET DeviceIds : disk.devices \in [D -> DeviceRecord]
  BY DEF Inv, Good, Sides
<1>2. disk = [devices |-> disk.devices]
  BY DEF Inv, Good, Sides
<1>3. CASE d \in DOMAIN disk.devices /\ ~IsRevoked(disk.devices[d])
  <2> DEFINE shut == Shut(disk.devices[d], reason)
  <2>1. Closed(disk, d, reason).devices = [disk.devices EXCEPT ![d] = shut]
    BY <1>2, <1>3 DEF Closed, Device, Change, Shut
  <2>2. Kin(d, shut) /\ IsRevoked(shut)
    BY <1>1, <1>3, ShutIsKin
  <2> HIDE DEF shut
  <2>3. From(disk)
    BY DiskIsOne
  <2> QED
    BY <1>1, <1>3, <2>1, <2>2, <2>3 DEF From
<1>4. CASE ~(d \in DOMAIN disk.devices /\ ~IsRevoked(disk.devices[d]))
  <2>1. Closed(disk, d, reason) = disk
    BY <1>4 DEF Closed, Device
  <2> QED
    BY <1>4, <2>1, DiskIsOne
<1> QED
  BY <1>3, <1>4

LEMMA CloseKeeps ==
    ASSUME Held, Inv', UNCHANGED <<mint, held, sent, certLeaf, liveLeaf, cmdClosed>>, NEW d,
           Paired(mint, d), NEW reason \in {"owner", "reuse", "expired"},
           reason = "reuse" => ~Alone(held), CloseFamily(d, reason)
    PROVE  Keeps
<1> DEFINE next == Closed(disk, d, reason)
<1>1. Steady
  BY SteadyHere, SameExtends DEF Held
<1>2. From(next) /\ (d \in DOMAIN next.devices => IsRevoked(next.devices[d]))
  BY ClosedIsKin DEF Held
<1>3. \/ Committed(next) /\ closed' = closed \cup {d}
      \/ (Uncertain(next) \/ NotWritten) /\ UNCHANGED closed
  BY DEF CloseFamily, Throws, Base
<1> HIDE DEF next
<1>4. CASE Committed(next) /\ closed' = closed \cup {d}
  <2>1. Closes
    <3>1. \A s \in Files' : s = next
      BY <1>4, WritesItsFile
    <3>2. \A x \in closed' \cup cmdClosed' : Paired(mint', x)
      BY <1>4 DEF Held
    <3> QED
      BY <1>2, <1>4, <3>1, <3>2 DEF Closes, Refused
  <2>2. disk' = next /\ next \in Sides /\ Writes(next)
    BY <1>4, WritesItsFile DEF Inv, Good
  <2> QED
    BY <1>1, <1>2, <2>1, <2>2, HeldStays
<1>5. CASE (Uncertain(next) \/ NotWritten) /\ UNCHANGED closed
  BY <1>1, <1>2, <1>5, WriteKeeps
<1> QED
  BY <1>3, <1>4, <1>5

LEMMA RotateKeeps ==
    ASSUME Held, Inv', NEW c \in Clients, held[c] # 0, NEW g, NEW d \in CurrentOf(g), Rotate(c, g, d),
           UNCHANGED <<now, held, sent, certLeaf, liveLeaf, cmdClosed>>
    PROVE  Keeps
<1> DEFINE n == Len(mint) + 1  was == disk.devices[d]  dev == Rotated(was, n, c, g)
           next == Change(disk, d, dev)
<1>1. d \in DOMAIN disk.devices /\ d \in DeviceIds /\ was \in DeviceRecord
  BY DiskIsOne, FilesAreGood DEF Rotate, Base, Held
<1>2. mint' = Append(mint, [device |-> d, at |-> now]) /\ Extends(mint, mint')
  <2>1. [device |-> d, at |-> now] \in Minting
    BY <1>1 DEF Held, Inv, Minting
  <2> QED
    BY <2>1, AppendExtends DEF Rotate, Held, Inv
<1>3. /\ dev.leaf = was.leaf /\ dev.absoluteAt = was.absoluteAt /\ dev.revokedReason = was.revokedReason
      /\ dev.token = n /\ dev.accessExpiresAt = now + AccessTtl /\ dev.lookback.client = c
  BY <1>1 DEF Rotated, DeviceRecord
<1>4. Kin(d, dev)
  <2> HIDE DEF dev, n
  <2> QED
    BY <1>1, <1>2, <1>3 DEF Kin, IsRevoked, n
<1>5. From(next)
  <2>1. PICK D \in SUBSET DeviceIds : disk.devices \in [D -> DeviceRecord]
    BY DEF Held, Inv, Good, Sides
  <2>2. disk = [devices |-> disk.devices]
    BY DEF Held, Inv, Good, Sides
  <2> HIDE DEF dev
  <2>3. next.devices = [disk.devices EXCEPT ![d] = dev]
    BY <2>2 DEF Change
  <2>4. From(disk)
    BY DiskIsOne DEF Held
  <2> QED
    BY <1>4, <2>1, <2>3, <2>4 DEF From
<1>6. (Committed(next) \/ Uncertain(next) \/ NotWritten) /\ UNCHANGED closed
  BY DEF Rotate, Throws, Base, Device
<1>7. Steady
  BY <1>2, SteadyHere
<1> HIDE DEF next
<1> QED
  BY <1>5, <1>6, <1>7, WriteKeeps

(* Another client than the one answered holds the grant. *)
LEMMA ReuseIsNotAlone ==
    ASSUME Held, NEW c \in Clients, held[c] # 0, NEW g, g # 0, NEW d \in LookbackOf(g),
           ~SameRequest(Device(d, View), c, g)
    PROVE  ~Alone(held)
<1> DEFINE dev == View.devices[d]
<1>1. /\ d \in DOMAIN View.devices /\ dev.lookback.prev = g /\ Known(mint, d, dev)
      /\ (Alone(held) => Trusted(dev))
  BY DiskIsOne, FilesAreGood DEF LookbackOf, Device, Held, Fits
<1>2. dev.lookback.grant = g
  BY <1>1, NoLookbackIsOne DEF Known
<1>3. dev.lookback.client # c
  BY <1>2 DEF SameRequest, Device
<1> QED
  BY <1>1, <1>3 DEF Trusted, Alone

LEMMA RefreshKeeps ==
    ASSUME Held, Inv', NEW c \in Clients, NEW g \in 1 .. MaxMint, Refresh(c, g)
    PROVE  Keeps
<1>1. /\ UNCHANGED <<now, held, sent, certLeaf, liveLeaf, cmdClosed>> /\ held[c] # 0 /\ g # 0
  <2>1. <<c, g>> \in sent
    BY DEF Refresh
  <2>2. held[c] # 0
    BY <2>1 DEF Held
  <2> QED
    BY <2>2 DEF Refresh, clientVars, certVars
<1>2. ASSUME NEW d \in LookbackOf(g), PresentedAgain(c, g, d), UNCHANGED mint
      PROVE  Keeps
  <2>1. Paired(mint, d)
    BY DiskIsOne DEF LookbackOf, Held
  <2>2. CASE SameRequest(Device(d, View), c, g)
    <3>1. Load /\ UNCHANGED closed
      BY <1>2, <2>2 DEF PresentedAgain, Replay
    <3> QED
      BY <1>1, <1>2, <3>1, LoadIsQuiet, SteadyHere, SameExtends, QuietStays DEF Held
  <2>3. CASE ~SameRequest(Device(d, View), c, g)
    <3>1. ~Alone(held)
      BY <1>1, <2>3, ReuseIsNotAlone
    <3>2. CloseFamily(d, "reuse")
      BY <1>2, <2>3 DEF PresentedAgain
    <3> QED
      BY <1>1, <1>2, <2>1, <3>1, <3>2, CloseKeeps
  <2> QED
    BY <2>2, <2>3
<1>3. ASSUME NEW d \in LookbackOf(g) \cup CurrentOf(g), CloseFamily(d, "expired"), UNCHANGED mint
      PROVE  Keeps
  <2>1. Paired(mint, d)
    BY DiskIsOne DEF LookbackOf, CurrentOf, Held
  <2> QED
    BY <1>1, <1>3, <2>1, CloseKeeps
<1>4. ASSUME NEW d \in CurrentOf(g), Rotate(c, g, d)
      PROVE  Keeps
  BY <1>1, <1>4, RotateKeeps
<1>5. ASSUME OnlyLoads, UNCHANGED mint
      PROVE  Keeps
  BY <1>1, <1>5, LoadIsQuiet, SteadyHere, SameExtends, QuietStays DEF Held, OnlyLoads
<1> QED
  BY <1>2, <1>3, <1>4, <1>5 DEF Refresh

LEMMA OwnerKeeps ==
    ASSUME Held, Inv', NEW d \in DeviceIds, Revoke(d) \/ Forget(d)
    PROVE  Keeps
<1>1. UNCHANGED <<now, held, sent, certLeaf, liveLeaf, mint, cmdClosed>>
  BY DEF Revoke, Forget, clientVars, certVars
<1>2. CASE Revoke(d)
  <2>1. Paired(mint, d) /\ CloseFamily(d, "owner")
    BY <1>2, DiskIsOne DEF Revoke, Base, Held
  <2> QED
    BY <1>1, <2>1, CloseKeeps
<1>3. CASE Forget(d)
  <2> DEFINE kept == [x \in DOMAIN disk.devices \ {d} |-> disk.devices[x]]
             next == [Base EXCEPT !.devices = [x \in DOMAIN @ \ {d} |-> @[x]]]
  <2>1. next.devices = kept
    BY DEF Held, Inv, Good, Sides, Base
  <2>2. (Committed(next) \/ Uncertain(next) \/ NotWritten) /\ UNCHANGED closed
    BY <1>3 DEF Forget, Throws
  <2> HIDE DEF next
  <2>3. From(next)
    BY <2>1, DiskIsOne DEF From, Held
  <2>4. Steady
    BY <1>1, SteadyHere, SameExtends DEF Held
  <2> QED
    BY <1>1, <2>2, <2>3, <2>4, WriteKeeps
<1> QED
  BY <1>2, <1>3

LEMMA CommandKeeps ==
    ASSUME Held, Inv', CommandRevokesAll
    PROVE  Keeps
<1> DEFINE next == RevokedAll(disk)
<1>1. /\ UNCHANGED <<now, held, sent, certLeaf, liveLeaf, mint, closed, cached>>
      /\ disk' = next /\ limbo' \subseteq limbo \cup {disk}
      /\ \/ limbo' = {} /\ cmdClosed' = cmdClosed \cup DOMAIN disk.devices
         \/ UNCHANGED cmdClosed
  BY DEF CommandRevokesAll, CommittedByCommand, UncertainByCommand, RevokedAll, AllShut, Shut,
     clientVars, certVars
<1>2. PICK D \in SUBSET DeviceIds : disk.devices \in [D -> DeviceRecord]
  BY DEF Held, Inv, Good, Sides
<1>3. next.devices = AllShut(disk.devices)
  BY DEF Held, Inv, Good, Sides, RevokedAll
<1>4. ASSUME NEW d \in DOMAIN next.devices
      PROVE  Kin(d, next.devices[d]) /\ IsRevoked(next.devices[d])
  <2>1. d \in DOMAIN disk.devices /\ disk.devices[d] \in DeviceRecord
    BY <1>2, <1>3, <1>4 DEF AllShut
  <2>2. CASE IsRevoked(disk.devices[d])
    <3>1. next.devices[d] = disk.devices[d]
      BY <1>3, <2>1, <2>2 DEF AllShut
    <3> QED
      BY <2>1, <2>2, <3>1 DEF Kin
  <2>3. CASE ~IsRevoked(disk.devices[d])
    <3>1. next.devices[d] = Shut(disk.devices[d], "owner")
      BY <1>3, <2>1, <2>3 DEF AllShut
    <3>2. Kin(d, Shut(disk.devices[d], "owner")) /\ IsRevoked(Shut(disk.devices[d], "owner"))
      BY <2>1, ShutIsKin
    <3> HIDE DEF next
    <3> QED
      BY <3>1, <3>2
  <2> QED
    BY <2>2, <2>3
<1> HIDE DEF next
<1>5. Steady /\ From(next) /\ Writes(next) /\ next \in Sides
  <2>1. Steady
    BY <1>1, SteadyHere, SameExtends DEF Held
  <2>2. Writes(next)
    BY <1>1 DEF Writes, Files, Durable
  <2>3. next \in Sides
    BY <1>1 DEF Inv, Good
  <2> QED
    BY <1>4, <2>1, <2>2, <2>3 DEF From
<1>6. Closes
  <2>1. \A d \in closed' \cup cmdClosed' : Paired(mint', d)
    BY <1>1, DiskIsOne DEF Held
  <2>2. ASSUME NEW s \in Durable', NEW d \in DOMAIN s.devices, d \in cmdClosed' \ cmdClosed
        PROVE  IsRevoked(s.devices[d])
    BY <1>1, <1>4, <2>2 DEF Durable
  <2> QED
    BY <1>1, <2>1, <2>2 DEF Closes
<1> QED
  BY <1>5, <1>6, HeldStays

LEMMA PairKeeps ==
    ASSUME Held, Inv', NEW d \in DeviceIds, Pair(d)
    PROVE  Keeps
<1> DEFINE n == Len(mint) + 1
           dev == [revokedReason |-> "none", token |-> n, leaf |-> liveLeaf,
                   accessExpiresAt |-> now + AccessTtl, idleAt |-> now + IdleTtl,
                   absoluteAt |-> now + AbsoluteTtl, lookback |-> NoLookback]
           next == With(disk, d, dev)
<1>1. /\ UNCHANGED <<now, sent, certLeaf, liveLeaf, closed, cmdClosed>>
      /\ held' = [held EXCEPT ![Phone] = n] /\ Committed(next)
      /\ mint' = Append(mint, [device |-> d, at |-> now]) /\ ~Paired(mint, d)
  BY DEF Pair, Base, With, certVars, Paired
<1>2. Extends(mint, mint') /\ n \in Nat /\ n # 0
  <2>1. [device |-> d, at |-> now] \in Minting
    BY DEF Held, Inv, Minting
  <2> QED
    BY <1>1, <2>1, AppendExtends DEF Held, Inv
<1>3. Newcomer(d, dev)
  <2>1. NoLookback.client = Phone
    BY DEF NoLookback
  <2> QED
    BY <1>1, <2>1 DEF Newcomer, Trusted
<1> HIDE DEF n, dev
<1>4. From(next)
  <2>1. next.devices = [x \in DOMAIN disk.devices \cup {d} |-> IF x = d THEN dev ELSE disk.devices[x]]
    BY DEF Held, Inv, Good, Sides, With
  <2>2. From(disk)
    BY DiskIsOne DEF Held
  <2> QED
    BY <1>3, <2>1, <2>2 DEF From
<1>5. Steady
  <2>1. /\ held' \in [Clients -> Nat] /\ \A c \in Clients : held[c] # 0 => held'[c] # 0
    BY <1>1, <1>2 DEF Held
  <2> QED
    BY <1>1, <1>2, <2>1 DEF Steady, Held, Inv
<1> HIDE DEF next
<1> QED
  BY <1>1, <1>4, <1>5, WriteKeeps

LEMMA ClientsKeep ==
    ASSUME Held, Inv', NEW c \in Clients, Send(c) \/ Receive(c) \/ CopyGrant(c)
    PROVE  Keeps
<1>1. UNCHANGED <<storeVars, mint, certLeaf, liveLeaf, closed, cmdClosed>> /\ Files' = Files /\ Durable' = Durable
  BY DEF Send, Receive, CopyGrant, certVars, historyVars, storeVars, Files, Durable
<1>2. /\ held' \in [Clients -> Nat] /\ \A x \in Clients : held[x] # 0 => held'[x] # 0
      /\ \A r \in sent' : r[1] \in Clients /\ held'[r[1]] # 0
  <2>1. CASE Send(c)
    BY <2>1 DEF Send, Held
  <2>2. CASE Receive(c)
    <3>1. PICK a \in answers : held' = [held EXCEPT ![c] = a[3]]
      BY <2>2 DEF Receive
    <3>2. a[3] \in Nat /\ a[3] # 0
      BY DEF Held, Inv, Answered, Triples
    <3> QED
      BY <2>2, <3>1, <3>2 DEF Receive, Held
  <2>3. CASE CopyGrant(c)
    <3>1. held' = [held EXCEPT ![c] = held[Phone]] /\ held[Phone] # 0 /\ held[Phone] \in Nat
      BY <2>3, TtlAssumption DEF CopyGrant, Held
    <3> QED
      BY <2>3, <3>1 DEF CopyGrant, Held
  <2> QED
    BY <2>1, <2>2, <2>3
<1>3. Steady
  BY <1>1, <1>2, HeldParts DEF Steady
<1> QED
  BY <1>1, <1>3, QuietStays

LEMMA RestartKeeps ==
    ASSUME Held, Inv', Restart
    PROVE  Keeps
<1>1. /\ UNCHANGED <<mint, held, sent, certLeaf>> /\ liveLeaf' = certLeaf
      /\ closed' = closed \cup cmdClosed \cup {d \in DOMAIN disk.devices : disk.devices[d].leaf # certLeaf}
      /\ cmdClosed' = {}
      /\ Files' \subseteq Durable /\ Durable' \subseteq Durable
  BY DEF Restart, RestartServer, PowerCut, clientVars, Device, Files, Durable
<1>2. Steady /\ Writes(disk) /\ From(disk) /\ disk \in Sides
  <2>1. Steady
    <3>1. certLeaf <= certLeaf
      BY DEF Held, Inv
    <3> QED
      BY <1>1, <3>1, HeldParts DEF Steady
  <2> QED
    BY <1>1, <2>1, DiskIsOne DEF Writes, Files, Held, Inv, Good
<1>3. ASSUME NEW s \in Files', NEW d \in DOMAIN s.devices, d \in closed' \ closed
      PROVE  Refused(s.devices[d], liveLeaf')
  <2>1. s \in Durable /\ s \in Files /\ disk \in Files
    BY <1>1, <1>3 DEF Files, Durable
  <2>2. CASE d \in cmdClosed
    BY <1>3, <2>1, <2>2 DEF Held, Refused
  <2>3. CASE d \in DOMAIN disk.devices /\ disk.devices[d].leaf # certLeaf
    <3>1. s.devices[d].leaf = disk.devices[d].leaf
      BY <1>3, <2>1, <2>3 DEF Held, SameLeaf
    <3> QED
      BY <1>1, <2>3, <3>1 DEF Refused
  <2> QED
    BY <1>1, <1>3, <2>2, <2>3
<1>4. \A d \in closed' \cup cmdClosed' : Paired(mint', d)
  BY <1>1, DiskIsOne DEF Held
<1>5. Closes
  BY <1>1, <1>3, <1>4 DEF Closes
<1> QED
  BY <1>2, <1>5, HeldStays

LEMMA NextKeeps ==
    ASSUME Held, [Next]_vars
    PROVE  Keeps
<1>1. Inv'
  BY NextStays DEF Held
<1>2. CASE UNCHANGED vars \/ CommandRotatesCertificate \/ Tick
  <2>1. UNCHANGED <<storeVars, mint, held, sent, liveLeaf, closed, cmdClosed>>
    BY <1>2 DEF vars, CommandRotatesCertificate, Tick, certVars, historyVars, clientVars
  <2>2. Files' = Files /\ Durable' = Durable
    BY <2>1 DEF storeVars, Files, Durable
  <2>3. liveLeaf' <= certLeaf'
    BY <1>2, <2>1 DEF vars, certVars, CommandRotatesCertificate, Tick, Held, Inv
  <2>4. Steady
    BY <2>1, <2>3, HeldParts DEF Steady
  <2> QED
    BY <1>1, <2>1, <2>2, <2>4, QuietStays
<1>3. CASE \E c \in Clients : Send(c) \/ Receive(c) \/ CopyGrant(c)
  BY <1>1, <1>3, ClientsKeep
<1>4. CASE \E c \in Clients, g \in 1 .. MaxMint : Refresh(c, g)
  BY <1>1, <1>4, RefreshKeeps
<1>5. CASE \E d \in DeviceIds : Pair(d) \/ Revoke(d) \/ Forget(d)
  BY <1>1, <1>5, PairKeeps, OwnerKeeps
<1>6. CASE Authenticate
  <2>1. Load /\ UNCHANGED <<mint, held, sent, certLeaf, liveLeaf, closed, cmdClosed>>
    BY <1>6 DEF Authenticate, OnlyLoads, clientVars, certVars
  <2> QED
    BY <1>1, <2>1, LoadIsQuiet, SteadyHere, SameExtends, QuietStays DEF Held
<1>7. CASE CommandRevokesAll \/ Restart
  BY <1>1, <1>7, CommandKeeps, RestartKeeps
<1> QED
  BY <1>2, <1>3, <1>4, <1>5, <1>6, <1>7 DEF Next

LEMMA InitKeeps == Init => Held
<1> SUFFICES ASSUME Init PROVE Held
  OBVIOUS
<1>1. Inv /\ Files = {disk} /\ Durable = {disk} /\ DOMAIN disk.devices = {}
  BY InitStays DEF Init, Files, Durable
<1> QED
  BY <1>1 DEF Init, Held, SameLeaf

(* Every file keeps what its families have been promised. *)
LEMMA FilesKeepPromises == Spec => []Held
<1>1. Held /\ [Next]_vars => Held'
  BY NextKeeps DEF Keeps
<1> QED
  BY InitKeeps, <1>1, PTL DEF Spec
-----------------------------------------------------------------------------
(* What follows. *)

LEMMA PairingIsOne ==
    ASSUME NEW m \in Seq(Minting), NEW d, NEW i, NEW j, IsPairing(m, d, i), IsPairing(m, d, j)
    PROVE  i = j
<1>1. i \in Nat /\ j \in Nat /\ i >= 1 /\ j >= 1
  BY DEF IsPairing
<1> QED
  BY <1>1 DEF IsPairing

LEMMA PairedAtIsIt ==
    ASSUME Inv, NEW n \in DOMAIN mint, NEW i, IsPairing(mint, FamilyOf(n), i)
    PROVE  PairedAt(n) = mint[i].at
<1> DEFINE f == CHOOSE k \in DOMAIN mint : FamilyOf(k) = FamilyOf(n)
                    /\ \A j \in 1 .. k-1 : FamilyOf(j) # FamilyOf(n)
<1>1. \E k \in DOMAIN mint : FamilyOf(k) = FamilyOf(n) /\ \A j \in 1 .. k-1 : FamilyOf(j) # FamilyOf(n)
  BY DEF IsPairing, FamilyOf
<1>2. IsPairing(mint, FamilyOf(n), f)
  BY <1>1 DEF IsPairing, FamilyOf
<1> HIDE DEF f
<1>3. f = i
  BY <1>2, PairingIsOne DEF Inv
<1> QED
  BY <1>3 DEF PairedAt, f

LEMMA WorkingIsLive ==
    ASSUME Held
    PROVE  OnlyLiveTokensWork
<1> SUFFICES ASSUME NEW n \in DOMAIN mint, Authenticates(n)
             PROVE  /\ \A a \in answers : FamilyOf(a[2]) = FamilyOf(n) => a[3] <= n
                    /\ now < mint[n].at + AccessTtl
                    /\ now < PairedAt(n) + AbsoluteTtl
                    /\ FamilyOf(n) \notin closed
  BY DEF OnlyLiveTokensWork, OnlyFreshTokensWork, ClosedFamilyIsRefused
<1>1. PICK d \in DOMAIN View.devices :
         /\ View.devices[d].token = n /\ ~IsRevoked(View.devices[d]) /\ View.devices[d].leaf = liveLeaf
         /\ now < View.devices[d].accessExpiresAt /\ ~FamilyExpired(View.devices[d])
  BY DEF Authenticates, Device, BindingRefuses
<1> DEFINE dev == View.devices[d]
<1>2. /\ dev \in DeviceRecord /\ Minted(mint, d, n) /\ Lasts(mint, d, dev)
      /\ (d \in closed => Refused(dev, liveLeaf))
      /\ Good(View, answers, mint)
  <2>1. View \in Files
    BY DiskIsOne DEF Held
  <2>2. dev \in DeviceRecord /\ Known(mint, d, dev)
    BY <2>1, FilesAreGood DEF Held
  <2>3. Lasts(mint, d, dev) /\ (d \in closed => Refused(dev, liveLeaf))
    BY <2>1 DEF Held, Fits
  <2> QED
    BY <1>1, <2>2, <2>3, ViewIsGood DEF Known, Held
<1>3. FamilyOf(n) = d
  BY <1>2 DEF FamilyOf, Minted
<1>4. \A a \in answers : FamilyOf(a[2]) = d => a[3] <= n
  BY <1>1, <1>2 DEF Good, Past, FamilyOf
<1>5. now < mint[n].at + AccessTtl
  BY <1>1, <1>2 DEF Lasts
<1>6. now < PairedAt(n) + AbsoluteTtl
  <2>1. PICK i \in DOMAIN mint : IsPairing(mint, d, i) /\ dev.absoluteAt = mint[i].at + AbsoluteTtl
    BY <1>2 DEF Lasts
  <2>2. PairedAt(n) = mint[i].at
    BY <1>3, <2>1, PairedAtIsIt DEF Held
  <2>3. dev.absoluteAt \in Nat /\ now \in Nat /\ ~(now >= dev.absoluteAt)
    BY <1>1, <1>2 DEF FamilyExpired, DeviceRecord, Held, Inv
  <2> QED
    BY <2>1, <2>2, <2>3
<1>7. d \notin closed
  BY <1>1, <1>2 DEF Refused
<1> QED
  BY <1>3, <1>4, <1>5, <1>6, <1>7

(* A token that works is the latest of its family, within its own lifetime
   and the family's, and of a family that nobody closed (authenticateAccess). *)
THEOREM OnlyLiveTokens == Spec => []OnlyLiveTokensWork
  BY FilesKeepPromises, WorkingIsLive, PTL

(* A phone that alone holds its grants never has its family closed for reuse,
   however often it repeats a request whose answer was lost (refreshTokens). *)
THEOREM HonestPhones == Spec => []HonestPhoneKeepsItsFamily
<1>1. Held => HonestPhoneKeepsItsFamily
  BY DiskIsOne DEF Held, Fits, Trusted, Alone, HonestPhoneKeepsItsFamily, Device
<1> QED
  BY FilesKeepPromises, <1>1, PTL
-----------------------------------------------------------------------------
(* A closed family is given nothing, and what is revoked on disk stays so. *)

LEMMA OpenInView ==
    ASSUME Held, NEW d \in DOMAIN View.devices, Usable(d), ~BindingRefuses(Device(d, View))
    PROVE  d \notin closed
  BY DiskIsOne DEF Held, Refused, Usable, BindingRefuses, Device

LEMMA RefreshAnswers ==
    ASSUME Held, NEW c \in Clients, NEW g \in 1 .. MaxMint, Refresh(c, g), NEW a \in answers' \ answers
    PROVE  FamilyOf(a[2]) \notin closed
<1>1. CASE \E d \in LookbackOf(g) : /\ Usable(d) /\ ~BindingRefuses(Device(d, View))
                                    /\ PresentedAgain(c, g, d)
  <2>1. PICK d \in LookbackOf(g) : /\ Usable(d) /\ ~BindingRefuses(Device(d, View))
                                   /\ PresentedAgain(c, g, d)
    BY <1>1
  <2>2. a[2] = g
    BY <2>1 DEF PresentedAgain, Replay, CloseFamily, Throws
  <2>3. d \in DOMAIN View.devices /\ View.devices[d].lookback.prev = g /\ g # 0
    BY DEF LookbackOf, Device
  <2>4. FamilyOf(g) = d
    BY <2>3, ViewIsGood, NoLookbackIsOne DEF Held, Good, Known, Minted, FamilyOf
  <2> QED
    BY <2>1, <2>2, <2>3, <2>4, OpenInView
<1>2. CASE \E d \in CurrentOf(g) : /\ Usable(d) /\ ~BindingRefuses(Device(d, View))
                                   /\ Rotate(c, g, d)
  <2>1. PICK d \in CurrentOf(g) : /\ Usable(d) /\ ~BindingRefuses(Device(d, View))
                                  /\ Rotate(c, g, d)
    BY <1>2
  <2>2. a[2] = g
    BY <2>1 DEF Rotate, Throws
  <2>3. d \in DOMAIN View.devices /\ View.devices[d].token = g
    BY DEF CurrentOf, Device
  <2>4. FamilyOf(g) = d
    BY <2>3, ViewIsGood DEF Held, Good, Known, Minted, FamilyOf
  <2> QED
    BY <2>1, <2>2, <2>3, <2>4, OpenInView
<1>3. CASE \/ \E d \in LookbackOf(g) \cup CurrentOf(g) : CloseFamily(d, "expired")
           \/ OnlyLoads
  BY <1>3 DEF CloseFamily, Throws, OnlyLoads
<1> QED
  BY <1>1, <1>2, <1>3 DEF Refresh

LEMMA OthersAnswerNothing ==
    ASSUME [Next]_vars, ~\E c \in Clients, g \in 1 .. MaxMint : Refresh(c, g)
    PROVE  answers' \subseteq answers
<1>1. CASE UNCHANGED vars \/ CommandRotatesCertificate \/ Tick \/ Authenticate \/ CommandRevokesAll \/ Restart
  BY <1>1 DEF vars, historyVars, CommandRotatesCertificate, Tick, Authenticate, OnlyLoads,
     CommandRevokesAll, Restart
<1>2. CASE \E c \in Clients : Send(c) \/ Receive(c) \/ CopyGrant(c)
  BY <1>2 DEF Send, Receive, CopyGrant, historyVars
<1>3. CASE \E d \in DeviceIds : Pair(d) \/ Revoke(d) \/ Forget(d)
  BY <1>3 DEF Pair, Revoke, Forget, CloseFamily, Throws
<1> QED
  BY <1>1, <1>2, <1>3 DEF Next

(* A closed family gets no further tokens, and no step, of a handler that
   decided on an older state either, overwrites a revocation that had reached
   the disk durably (updateMobileState). *)
THEOREM ClosedForGood == Spec => ClosedStaysClosed
<1>1. Held /\ [Next]_vars => [\A a \in answers' \ answers : FamilyOf(a[2]) \notin closed]_vars
  BY RefreshAnswers, OthersAnswerNothing
<1>2. ASSUME Held, [Next]_vars, limbo = {}
      PROVE  RevokedIn(disk) \cap LiveIn(disk') = {}
  <2> SUFFICES ASSUME NEW d \in RevokedIn(disk), d \in DOMAIN disk'.devices
               PROVE  IsRevoked(disk'.devices[d])
    BY DEF LiveIn, RevokedIn
  <2>1. d \in DOMAIN disk.devices /\ IsRevoked(disk.devices[d]) /\ Paired(mint, d)
    BY <1>2, DiskIsOne DEF RevokedIn, Held
  <2>2. Kin(d, disk'.devices[d]) \/ Newcomer(d, disk'.devices[d])
    BY <1>2, NextKeeps DEF Keeps, From
  <2> QED
    BY <2>1, <2>2 DEF Kin, Newcomer
<1>3. Held /\ [Next]_vars => [limbo = {} => RevokedIn(disk) \cap LiveIn(disk') = {}]_vars
  BY <1>2
<1> QED
  BY <1>1, <1>3, FilesKeepPromises, PTL DEF Spec, ClosedStaysClosed, ClosedFamilyGetsNothing, RevocationIsKept
=============================================================================
