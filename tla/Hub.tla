-------------------------------- MODULE Hub --------------------------------
(***************************************************************************)
(* The shared live channel (src/src/hub.js): one poller per topic feeds    *)
(* every browser tab that listens to it.  Topics share only the list of    *)
(* clients, so one topic is modelled.  A poll awaits its fetcher; clients  *)
(* come and go, and the polled state changes, while it does.               *)
(*                                                                         *)
(* The polled state is its version; the hash of a payload and the payload  *)
(* are the version it was polled at, NoData when empty.                    *)
(***************************************************************************)
EXTENDS Naturals, FiniteSets

CONSTANTS
    Clients,            \* connections
    Session,            \* [Clients -> sessions]
    HUB_MAX_CLIENTS, HUB_MAX_PER_SESSION,
    MaxVersion          \* bound of the changes of the polled state

ASSUME CapsAssumption ==
    HUB_MAX_CLIENTS \in Nat \ {0} /\ HUB_MAX_PER_SESSION \in Nat \ {0}

ASSUME VersionAssumption == MaxVersion \in Nat \ {0}

VARIABLES
    version,        \* of the polled state
    clients,        \* the listeners of the topic
    timer,          \* whether the interval runs
    busy,           \* the flag that keeps polls apart
    polls,          \* the polls in flight: what the fetcher of each has read
    hash, data,     \* the published payload
    shown           \* the last payload each client was sent on its connection

hubVars == <<version, clients, timer, busy, polls, hash, data, shown>>

NoData == 0

HubInit ==
    /\ version = 1 /\ clients = {} /\ timer = FALSE
    /\ busy = FALSE /\ polls = {} /\ hash = NoData /\ data = NoData
    /\ shown = [c \in Clients |-> NoData]

-----------------------------------------------------------------------------

(* poll, up to its await. *)
Poll ==
    IF busy THEN UNCHANGED <<busy, polls>>
    ELSE busy' = TRUE /\ polls' = polls \cup {NoData}

Interval ==
    /\ timer /\ Poll
    /\ UNCHANGED <<version, clients, timer, hash, data, shown>>

(* The fetcher reads the state some time before it resolves. *)
Fetch ==
    /\ NoData \in polls
    /\ polls' = (polls \ {NoData}) \cup {version}
    /\ UNCHANGED <<version, clients, timer, busy, hash, data, shown>>

(* A new payload is kept and sent to whoever listens by then. *)
Publish == \E payload \in polls \ {NoData} :
    /\ busy' = FALSE /\ polls' = polls \ {payload}
    /\ IF payload = hash
       THEN UNCHANGED <<hash, data, shown>>
       ELSE /\ hash' = payload /\ data' = payload
            /\ shown' = [c \in Clients |-> IF c \in clients THEN payload ELSE shown[c]]
    /\ UNCHANGED <<version, clients, timer>>

(* The fetcher throws, or has nothing to say. *)
FetchFails == \E payload \in polls :
    /\ busy' = FALSE /\ polls' = polls \ {payload}
    /\ UNCHANGED <<version, clients, timer, hash, data, shown>>

-----------------------------------------------------------------------------
Full(c) ==
    \/ Cardinality(clients) >= HUB_MAX_CLIENTS
    \/ Cardinality({d \in clients : Session[d] = Session[c]}) >= HUB_MAX_PER_SESSION

(* subscribe: the published payload is replayed, and the first listener
   starts the poller, which polls at once. *)
Subscribe(c) ==
    /\ c \notin clients /\ ~Full(c)
    /\ clients' = clients \cup {c}
    /\ shown' = [shown EXCEPT ![c] = data]
    /\ timer' = TRUE
    /\ IF timer THEN UNCHANGED <<busy, polls>> ELSE Poll
    /\ UNCHANGED <<version, hash, data>>

StopTopic == timer' = FALSE /\ hash' = NoData /\ data' = NoData

(* leave: the last listener stops the poller, but not a poll in flight. *)
Leave(c) ==
    /\ c \in clients /\ clients' = clients \ {c}
    /\ shown' = [shown EXCEPT ![c] = NoData]
    /\ IF clients' = {} THEN StopTopic ELSE UNCHANGED <<timer, hash, data>>
    /\ UNCHANGED <<version, busy, polls>>

Change ==
    /\ version < MaxVersion /\ version' = version + 1
    /\ UNCHANGED <<clients, timer, busy, polls, hash, data, shown>>

HubNext ==
    \/ \E c \in Clients : Subscribe(c) \/ Leave(c)
    \/ Interval \/ Fetch \/ Publish \/ FetchFails \/ Change

(* The interval keeps firing, every fetcher ends (each has a timeout), and a
   fetcher that is called again and again sometimes succeeds. *)
Fairness == WF_hubVars(Interval) /\ SF_hubVars(Fetch) /\ SF_hubVars(Publish)

HubSpec == HubInit /\ [][HubNext]_hubVars /\ Fairness

-----------------------------------------------------------------------------
(* Properties *)

HubTypeOK ==
    /\ version \in 1..MaxVersion /\ clients \subseteq Clients
    /\ timer \in BOOLEAN /\ busy \in BOOLEAN
    /\ polls \subseteq 0..version /\ (busy <=> polls # {})
    /\ data \in 0..version /\ hash = data
    /\ shown \in [Clients -> 0..version]

(* The poller runs exactly while somebody listens: no tab left behind a poller
   that polls Docker for nobody, and none lost its poller to another's leaving. *)
PolledForListeners == timer <=> clients # {}

(* On one connection the state never goes back: a slow poll does not overwrite
   what a later one has already shown. *)
NeverGoesBack ==
    [][\A c \in clients \cap clients' : shown'[c] >= shown[c]]_hubVars

(* A tab that stays connected ends up showing the current state, whenever it
   joined, and whatever was published to others, in flight or left over. *)
CatchesUp ==
    \A c \in Clients : <>[](c \in clients) => <>[](shown[c] = version)

=============================================================================
