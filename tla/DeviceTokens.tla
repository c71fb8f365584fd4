---------------------------- MODULE DeviceTokens ----------------------------
(***************************************************************************)
(* The token family of a paired device (src/src/mobile/devices.js): access *)
(* tokens, refresh grants that rotate on use, the one-step lookback that   *)
(* replays a lost answer, reuse detection, and the owner's revoke and      *)
(* forget, over the durable state of MobileStore.                          *)
(*                                                                         *)
(* Tokens are random, so a token is its number in `mint`, the order in     *)
(* which they were minted; an access token and the refresh grant minted    *)
(* with it share the number.  Handlers contain no await and are one step.  *)
(* Requests and answers travel over a network that loses, repeats and      *)
(* reorders them: `sent` and `answers` only grow, the server may handle a  *)
(* request again at any time and a client may never see an answer.         *)
(* Alert registrations, cleared after a revocation, belong to the alert    *)
(* state and are not modelled here.                                        *)
(***************************************************************************)
EXTENDS MobileStore, Sequences

CONSTANTS
    Clients,        \* who holds a copy of a device's grants
    Phone,          \* the client that pairs
    AccessTtl,      \* ACCESS_TTL_MS, REFRESH_IDLE_MS and REFRESH_ABSOLUTE_MS
    IdleTtl,        \* in clock ticks
    AbsoluteTtl,
    MaxTime,        \* bound of the clock
    MaxMint,        \* bound of the tokens minted
    MaxFaults,      \* bound of failed and of unconfirmed writes
    MaxLeaf         \* bound of the certificates

ASSUME TtlAssumption ==
    /\ AccessTtl \in Nat \ {0} /\ IdleTtl \in Nat /\ AbsoluteTtl \in Nat
    /\ AccessTtl <= IdleTtl /\ IdleTtl <= AbsoluteTtl
    /\ Phone \in Clients
    /\ MaxTime \in Nat /\ MaxMint \in Nat /\ MaxFaults \in Nat /\ MaxLeaf \in Nat

VARIABLES
    now,
    held,           \* the grant each client would present, 0 when none
    sent,           \* <<client, grant>> of the refresh requests sent so far
    certLeaf,       \* the certificate on disk
    liveLeaf,       \* liveLeafFingerprint: the one this process serves
    \* history, for the properties
    mint,           \* the device and the time of every token, in minting order
    answers,        \* <<client, grant, successor>> of the refreshes answered
    shaky,          \* answers replayed from a state that was not confirmed yet
    closed,         \* families the server has closed, or closed at a restart
    cmdClosed,      \* families a command has closed since the last restart
    faults

clientVars  == <<held, sent>>
certVars    == <<certLeaf, liveLeaf>>
historyVars == <<mint, answers, shaky, closed, cmdClosed>>
vars == <<storeVars, now, clientVars, certVars, historyVars, faults>>

NoLookback == [prev |-> 0, client |-> Phone, grant |-> 0, answer |-> 0]

Device(d, s) == s.devices[d]

(* An installation that was paired before: the authority record is there. *)
Init ==
    /\ disk = [devices |-> [d \in {} |-> 0]]
    /\ limbo = {} /\ cached = NoState /\ poisoned = FALSE
    /\ epoch = [revoked |-> {}, devicesSeen |-> TRUE] /\ epochLimbo = {}
    /\ now = 0
    /\ held = [c \in Clients |-> 0] /\ sent = {}
    /\ certLeaf = 0 /\ liveLeaf = 0
    /\ mint = <<>> /\ answers = {} /\ shaky = {} /\ closed = {} /\ cmdClosed = {}
    /\ faults = 0

-----------------------------------------------------------------------------
FamilyExpired(device) == now >= device.absoluteAt \/ now >= device.idleAt

MutBindingRefusesNothing(device) == FALSE

(* bindingRefusal: the family was paired against another certificate. *)
BindingRefuses(device) == device.leaf # liveLeaf

(* authenticateAccess: the bearer's token is the current one of a family that
   is neither revoked, nor bound elsewhere, nor expired. *)
Authenticates(n) ==
    /\ Loadable /\ View # NoState
    /\ \E d \in DOMAIN View.devices :
          LET device == Device(d, View)
          IN  /\ device.token = n
              /\ ~IsRevoked(device) /\ ~BindingRefuses(device)
              /\ now < device.accessExpiresAt /\ ~FamilyExpired(device)

Change(s, d, device) == [s EXCEPT !.devices[d] = device]

(* revokeInPlace, unless another transaction was first. *)
Closed(s, d, reason) ==
    IF d \in DOMAIN s.devices /\ ~IsRevoked(Device(d, s))
    THEN Change(s, d, [Device(d, s) EXCEPT !.revokedReason = reason, !.lookback = NoLookback])
    ELSE s

(* The next tokens of the family.  The lookback remembers the request it
   answers: a client uses one rotationRequestId for one grant, so <<client,
   grant>> stands for it. *)
Rotated(device, n, c, g) ==
    [device EXCEPT
        !.token = n,
        !.accessExpiresAt = now + AccessTtl,
        !.idleAt = IF now + IdleTtl < device.absoluteAt THEN now + IdleTtl ELSE device.absoluteAt,
        !.lookback = [prev |-> device.token, client |-> c, grant |-> g, answer |-> n]]

-----------------------------------------------------------------------------
(* Reading and writing the sidecar from a handler *)

OnlyLoads == Load /\ UNCHANGED <<answers, shaky, closed, faults>>

Fault == faults < MaxFaults /\ faults' = faults + 1

(* A transaction that throws: nothing is answered. *)
Throws(next) ==
    /\ Uncertain(next) \/ NotWritten
    /\ Fault /\ UNCHANGED <<answers, shaky, closed>>

(* The family is closed in a transaction of its own, then reported. *)
CloseFamily(d, reason) ==
    LET next == Closed(Base, d, reason)
    IN  /\ CanTransact
        /\ \/ Committed(next) /\ closed' = closed \cup {d} /\ UNCHANGED <<answers, shaky, faults>>
           \/ Throws(next)

-----------------------------------------------------------------------------
(* refreshTokens, for a request of client c that presents grant g *)

(* The two lookups, in the state that was loaded. *)
CurrentOf(g)  == {d \in DOMAIN View.devices : Device(d, View).token = g}
LookbackOf(g) == {d \in DOMAIN View.devices : Device(d, View).lookback.prev = g}

MutSameRequest(device, c, g) == FALSE

(* The retry of a rotation is recognised by its rotationRequestId. *)
SameRequest(device, c, g) == device.lookback.client = c /\ device.lookback.grant = g

(* The sealed answer is handed out again. *)
Replay(c, g, d) ==
    LET answer == <<c, g, Device(d, View).lookback.answer>>
    IN  /\ Load
        /\ answers' = answers \cup {answer}
        /\ shaky' = IF limbo = {} THEN shaky ELSE shaky \cup ({answer} \ answers)
        /\ UNCHANGED <<closed, faults>>

(* The grant before the current one: replay, or close the family. *)
PresentedAgain(c, g, d) ==
    IF SameRequest(Device(d, View), c, g) THEN Replay(c, g, d) ELSE CloseFamily(d, "reuse")

MutRotateUnconfirmed(c, g, d) ==
    LET n    == Len(mint) + 1
        next == Change(Base, d, Rotated(Device(d, Base), n, c, g))
    IN  /\ CanTransact /\ d \in DOMAIN Base.devices /\ n <= MaxMint
        /\ mint' = Append(mint, [device |-> d, at |-> now])
        /\ \/ Committed(next) /\ UNCHANGED faults
           \/ (Uncertain(next) \/ NotWritten) /\ Fault
        /\ answers' = answers \cup {<<c, g, n>>} /\ UNCHANGED <<shaky, closed>>

(* The current grant: both tokens are minted and the rotation is committed on
   the state as it is on disk by then. *)
Rotate(c, g, d) ==
    LET n    == Len(mint) + 1
        next == Change(Base, d, Rotated(Device(d, Base), n, c, g))
    IN  /\ CanTransact /\ d \in DOMAIN Base.devices /\ n <= MaxMint
        /\ mint' = Append(mint, [device |-> d, at |-> now])
        /\ \/ /\ Committed(next)
              /\ answers' = answers \cup {<<c, g, n>>} /\ UNCHANGED <<shaky, closed, faults>>
           \/ Throws(next)

(* The checks common to both lookups: revoked, expired, bound elsewhere. *)
Usable(d) == ~IsRevoked(Device(d, View)) /\ ~FamilyExpired(Device(d, View))
Expired(d) == ~IsRevoked(Device(d, View)) /\ FamilyExpired(Device(d, View))

Refresh(c, g) ==
    /\ <<c, g>> \in sent /\ Loadable
    /\ \/ \E d \in LookbackOf(g) :
             /\ Usable(d) /\ ~BindingRefuses(Device(d, View))
             /\ PresentedAgain(c, g, d) /\ UNCHANGED mint
       \/ \E d \in CurrentOf(g) :
             /\ LookbackOf(g) = {}
             /\ Usable(d) /\ ~BindingRefuses(Device(d, View))
             /\ Rotate(c, g, d)
       \/ \E d \in LookbackOf(g) \cup CurrentOf(g) :
             /\ Expired(d) /\ CloseFamily(d, "expired") /\ UNCHANGED mint
       \/ \* unknown, revoked or bound to another certificate: refused
          /\ \A d \in LookbackOf(g) \cup CurrentOf(g) :
                IsRevoked(Device(d, View)) \/ (Usable(d) /\ BindingRefuses(Device(d, View)))
          /\ OnlyLoads /\ UNCHANGED mint
    /\ UNCHANGED <<now, clientVars, certVars, cmdClosed>>

(* authenticateAccess decides by `Authenticates`; its one effect is the load. *)
Authenticate ==
    /\ OnlyLoads
    /\ UNCHANGED <<now, clientVars, certVars, mint, cmdClosed>>

-----------------------------------------------------------------------------
(* The owner and the maintenance command *)

Revoke(d) ==
    /\ CanTransact /\ d \in DOMAIN Base.devices
    /\ CloseFamily(d, "owner")
    /\ UNCHANGED <<now, clientVars, certVars, mint, cmdClosed>>

Forget(d) ==
    /\ CanTransact /\ d \in RevokedIn(Base)
    /\ LET next == [Base EXCEPT !.devices = [x \in DOMAIN @ \ {d} |-> @[x]]]
       IN  (Committed(next) /\ UNCHANGED <<answers, shaky, closed, faults>>) \/ Throws(next)
    /\ UNCHANGED <<now, clientVars, certVars, mint, cmdClosed>>

(* rotate-cert.js, in the order it works: the certificate, then revokeAll.
   It can be stopped, or fail, between the two. *)
CommandRotatesCertificate ==
    /\ certLeaf < MaxLeaf /\ certLeaf' = certLeaf + 1
    /\ UNCHANGED <<storeVars, now, clientVars, liveLeaf, historyVars, faults>>

CommandRevokesAll ==
    LET next == [disk EXCEPT !.devices = [d \in DOMAIN @ |->
                    IF IsRevoked(@[d]) THEN @[d]
                    ELSE [@[d] EXCEPT !.revokedReason = "owner", !.lookback = NoLookback]]]
    IN  /\ disk # NoState /\ Acceptable(disk)
        /\ \/ CommittedByCommand(next)
              /\ cmdClosed' = cmdClosed \cup DOMAIN disk.devices /\ UNCHANGED faults
           \/ UncertainByCommand(next) /\ Fault /\ UNCHANGED cmdClosed
        /\ UNCHANGED <<now, clientVars, certVars, mint, answers, shaky, closed>>

-----------------------------------------------------------------------------
(* The environment *)

(* The acknowledgement of an enrolment (enrolment.js) activates a device. *)
Pair(d) ==
    /\ CanTransact
    /\ \A i \in DOMAIN mint : mint[i].device # d
    /\ LET n == Len(mint) + 1
           device == [revokedReason |-> "none", token |-> n, leaf |-> liveLeaf,
                      accessExpiresAt |-> now + AccessTtl, idleAt |-> now + IdleTtl,
                      absoluteAt |-> now + AbsoluteTtl, lookback |-> NoLookback]
       IN  /\ n <= MaxMint
           /\ Committed([Base EXCEPT !.devices =
                 [x \in DOMAIN @ \cup {d} |-> IF x = d THEN device ELSE @[x]]])
           /\ mint' = Append(mint, [device |-> d, at |-> now])
           /\ held' = [held EXCEPT ![Phone] = n]
    /\ UNCHANGED <<now, sent, certVars, answers, shaky, closed, cmdClosed, faults>>

Send(c) ==
    /\ held[c] # 0
    /\ sent' = sent \cup {<<c, held[c]>>}
    /\ UNCHANGED <<storeVars, now, held, certVars, historyVars, faults>>

(* A client keeps the first answer to its current request. *)
Receive(c) ==
    /\ \E a \in answers : a[1] = c /\ a[2] = held[c] /\ held' = [held EXCEPT ![c] = a[3]]
    /\ UNCHANGED <<storeVars, now, sent, certVars, historyVars, faults>>

(* A second client comes to hold the phone's grant: a phone set up from the
   backup of another one. *)
CopyGrant(c) ==
    /\ c # Phone /\ held[c] = 0 /\ held[Phone] # 0
    /\ held' = [held EXCEPT ![c] = held[Phone]]
    /\ UNCHANGED <<storeVars, now, sent, certVars, historyVars, faults>>

(* A new process serves the certificate it finds.  A restart lifts the
   fail-stop without confirming the rename behind it; a power cut that then
   brings the older file back takes with it what was replayed meanwhile. *)
Restart ==
    /\ \/ RestartServer /\ UNCHANGED <<answers, shaky>>
       \/ /\ PowerCut
          /\ answers' = IF disk' = disk THEN answers ELSE answers \ shaky
          /\ shaky' = {}
    /\ liveLeaf' = certLeaf
    /\ closed' = closed \cup cmdClosed
          \cup {d \in DOMAIN disk.devices : Device(d, disk).leaf # certLeaf}
    /\ cmdClosed' = {}
    /\ UNCHANGED <<now, clientVars, certLeaf, mint, faults>>

Tick ==
    /\ now < MaxTime /\ now' = now + 1
    /\ UNCHANGED <<storeVars, clientVars, certVars, historyVars, faults>>

Next ==
    \/ \E c \in Clients, g \in 1..MaxMint : Refresh(c, g)
    \/ \E c \in Clients : Send(c) \/ Receive(c) \/ CopyGrant(c)
    \/ \E d \in DeviceIds : Pair(d) \/ Revoke(d) \/ Forget(d)
    \/ Authenticate \/ CommandRotatesCertificate \/ CommandRevokesAll \/ Restart \/ Tick

Spec == Init /\ [][Next]_vars

-----------------------------------------------------------------------------
(* Properties *)

Devices == [revokedReason : {"none", "owner", "reuse", "expired"},
            token : 1..MaxMint, leaf : 0..MaxLeaf,
            accessExpiresAt : Nat, idleAt : Nat, absoluteAt : Nat,
            lookback : [prev : 0..MaxMint, client : Clients, grant : 0..MaxMint, answer : 0..MaxMint]]

IsSidecar(s) == DOMAIN s.devices \subseteq DeviceIds
                /\ \A d \in DOMAIN s.devices : Device(d, s) \in Devices

TypeOK ==
    /\ IsSidecar(disk) /\ \A s \in limbo : IsSidecar(s)
    /\ cached # NoState => IsSidecar(cached)
    /\ poisoned \in BOOLEAN /\ now \in 0..MaxTime
    /\ held \in [Clients -> 0..MaxMint] /\ sent \subseteq Clients \X (1..MaxMint)
    /\ certLeaf \in 0..MaxLeaf /\ liveLeaf \in 0..MaxLeaf /\ faults \in 0..MaxFaults
    /\ answers \subseteq Clients \X (1..MaxMint) \X (1..MaxMint)
    /\ closed \subseteq DeviceIds /\ cmdClosed \subseteq DeviceIds

FamilyOf(n) == mint[n].device
PairedAt(n) == mint[CHOOSE i \in DOMAIN mint : FamilyOf(i) = FamilyOf(n)
                       /\ \A j \in 1..i-1 : FamilyOf(j) # FamilyOf(n)].at

(* A grant is exchanged for one successor, by one client, whatever is lost,
   repeated, reordered, restarted or, unless it was shaky, cut off. *)
OneSuccessorPerGrant ==
    \A a, b \in answers : a[2] = b[2] => a[1] = b[1] /\ a[3] = b[3]

(* An access token works only until its family has handed out a later one,
   never past its own lifetime and never past the family's. *)
OnlyFreshTokensWork ==
    \A n \in DOMAIN mint : Authenticates(n) =>
        /\ \A a \in answers : FamilyOf(a[2]) = FamilyOf(n) => a[3] <= n
        /\ now < mint[n].at + AccessTtl
        /\ now < PairedAt(n) + AbsoluteTtl

(* A family that the owner, reuse, expiry or a certificate rotation closed is
   refused from then on: at once for what this server did, from the restart
   that a maintenance command asks for on. *)
ClosedFamilyIsRefused ==
    \A n \in DOMAIN mint : Authenticates(n) => FamilyOf(n) \notin closed

(* ... and it is given no further tokens. *)
ClosedFamilyGetsNothing ==
    [][\A a \in answers' \ answers : FamilyOf(a[2]) \notin closed]_vars

(* A revocation that reached the disk durably is never overwritten, not by a
   handler that decided on the state cached before it either. *)
RevocationIsKept ==
    [][limbo = {} => RevokedIn(disk) \cap LiveIn(disk') = {}]_vars

(* A phone that alone holds its grants, and repeats a request that was not
   answered, never has its family closed for reuse. *)
HonestPhoneKeepsItsFamily ==
    (\A c \in Clients \ {Phone} : held[c] = 0) =>
        \A d \in DOMAIN disk.devices : Device(d, disk).revokedReason # "reuse"

(* docs/mobile-connection.md:149 "Reuse of an older refresh grant revokes the
   device family": after a grant that was exchanged by one client is presented
   by another, the family is revoked. *)
OlderGrantReuseRevokes ==
    [][\A c \in Clients, g \in 1..MaxMint :
          Refresh(c, g) /\ (\E a \in answers : a[2] = g /\ a[1] # c)
              => FamilyOf(g) \notin LiveIn(disk')]_vars

(* A token that works is the latest of a live family. *)
OnlyLiveTokensWork == OnlyFreshTokensWork /\ ClosedFamilyIsRefused

(* A closed family stays closed, on disk and in what is handed out. *)
ClosedStaysClosed == ClosedFamilyGetsNothing /\ RevocationIsKept
=============================================================================
