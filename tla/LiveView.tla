------------------------------ MODULE LiveView ------------------------------
(***************************************************************************)
(* A page of the owner panel that follows the live channel: qmLive         *)
(* (src/src/ui/runtime.js) with the dashboard's own polling               *)
(* (src/src/ui/pages/dashboard.js), in front of the server's Hub.          *)
(*                                                                         *)
(* The page holds one stream at a time, but a stream it has dropped stays  *)
(* a client of the hub until the server learns of it.  The stream may be   *)
(* refused (the hub is full), opened, cut at any moment and noticed late   *)
(* by either side.  After two failures in a row the page asks for the      *)
(* state itself every few seconds; it sleeps while it is hidden.           *)
(*                                                                         *)
(* The delay before a retry is left out, and how many polls of a page are  *)
(* in flight is bounded.                                                   *)
(***************************************************************************)
EXTENDS Hub

CONSTANTS
    Tabs,           \* pages
    Tab,            \* [connections of pages -> Tabs]; other clients come and go freely
    NoStream,
    MaxAsked        \* bound of the polls of a page in flight

ASSUME TabAssumption ==
    /\ DOMAIN Tab \subseteq Clients /\ NoStream \notin Clients
    /\ \A c \in DOMAIN Tab : Tab[c] \in Tabs
    /\ MaxAsked \in Nat \ {0}

VARIABLES
    es,         \* the stream of each page
    link,       \* of each connection: free, asked, up, open or cut
    fails,      \* failures in a row, as far as two
    retry,      \* a retry is set
    fallback,   \* the page polls by itself
    hidden,
    asked,      \* its own polls: what the server has read for each, NoData before
    seen,       \* the last payload that arrived on its stream
    view        \* the newest state it has drawn

page == <<es, link, fails, retry, fallback, hidden, asked, seen, view>>
all == <<hubVars, page>>

InitPage ==
    /\ es = [t \in Tabs |-> NoStream] /\ link = [c \in DOMAIN Tab |-> "free"]
    /\ fails = [t \in Tabs |-> 0] /\ retry = [t \in Tabs |-> TRUE]
    /\ fallback = [t \in Tabs |-> FALSE] /\ hidden = [t \in Tabs |-> FALSE]
    /\ asked = [t \in Tabs |-> {NoData}] /\ seen = [t \in Tabs |-> NoData]
    /\ view = [t \in Tabs |-> 1]

-----------------------------------------------------------------------------
(* The server *)

(* handleStream: refused when the hub is full, else subscribed. *)
HandleStream(c) ==
    /\ link[c] = "asked"
    /\ IF Full(c) THEN link' = [link EXCEPT ![c] = "cut"] /\ UNCHANGED hubVars
       ELSE link' = [link EXCEPT ![c] = "up"] /\ Subscribe(c)
    /\ UNCHANGED <<es, fails, retry, fallback, hidden, asked, seen, view>>

MutClosed(c) ==
    /\ link[c] = "cut" /\ \A t \in Tabs : es[t] # c
    /\ link' = [link EXCEPT ![c] = "free"] /\ UNCHANGED hubVars
    /\ UNCHANGED <<es, fails, retry, fallback, hidden, asked, seen, view>>

(* The server learns that the connection is gone. *)
Closed(c) ==
    /\ link[c] = "cut"
    /\ \/ c \in clients /\ Leave(c) /\ UNCHANGED link
       \/ /\ c \notin clients /\ \A t \in Tabs : es[t] # c
          /\ link' = [link EXCEPT ![c] = "free"] /\ UNCHANGED hubVars
    /\ UNCHANGED <<es, fails, retry, fallback, hidden, asked, seen, view>>

(* A connection is lost on its way. *)
Cut(c) ==
    /\ link[c] \in {"asked", "up", "open"}
    /\ link' = [link EXCEPT ![c] = "cut"]
    /\ UNCHANGED <<hubVars, es, fails, retry, fallback, hidden, asked, seen, view>>

-----------------------------------------------------------------------------
(* qmLive *)

Asking(t) == IF Cardinality(asked[t]) < MaxAsked THEN asked[t] \cup {NoData} ELSE asked[t]

(* pollOnce: the page asks for the state. *)
PollOnce(t) == asked' = [asked EXCEPT ![t] = Asking(t)]

(* connect *)
Connect(t) == \E c \in DOMAIN Tab :
    /\ Tab[c] = t /\ link[c] = "free" /\ es[t] = NoStream
    /\ es' = [es EXCEPT ![t] = c] /\ link' = [link EXCEPT ![c] = "asked"]
    /\ seen' = [seen EXCEPT ![t] = NoData]

Shows(t, v) == view' = [view EXCEPT ![t] = IF v > @ THEN v ELSE @]

Streaming(t) == es[t] # NoStream /\ ~hidden[t]

(* onopen *)
Opened(t) ==
    /\ Streaming(t) /\ link[es[t]] = "up"
    /\ link' = [link EXCEPT ![es[t]] = "open"]
    /\ fallback' = [fallback EXCEPT ![t] = FALSE]
    /\ UNCHANGED <<hubVars, es, fails, retry, hidden, asked, seen, view>>

(* A message is drawn, and the page counts from zero again. *)
Message(t) ==
    /\ Streaming(t) /\ link[es[t]] = "open" /\ shown[es[t]] # seen[t]
    /\ seen' = [seen EXCEPT ![t] = shown[es[t]]] /\ Shows(t, seen'[t])
    /\ fails' = [fails EXCEPT ![t] = 0] /\ fallback' = [fallback EXCEPT ![t] = FALSE]
    /\ UNCHANGED <<hubVars, es, link, retry, hidden, asked>>

(* The stream is let go of; the server may learn of it much later. *)
Disconnect(t) ==
    /\ es' = [es EXCEPT ![t] = NoStream]
    /\ link' = [c \in DOMAIN Tab |-> IF c = es[t] THEN "cut" ELSE link[c]]
    /\ seen' = [seen EXCEPT ![t] = NoData]

Again(t) == IF fails[t] = 2 THEN 2 ELSE fails[t] + 1

MutFailed(t) ==
    /\ Streaming(t) /\ link[es[t]] = "cut" /\ Disconnect(t)
    /\ fails' = [fails EXCEPT ![t] = Again(t)] /\ retry' = [retry EXCEPT ![t] = TRUE]
    /\ UNCHANGED <<fallback, asked>>
    /\ UNCHANGED <<hubVars, hidden, view>>

(* failed: after the second failure the page polls. *)
Failed(t) ==
    /\ Streaming(t) /\ link[es[t]] = "cut" /\ Disconnect(t)
    /\ fails' = [fails EXCEPT ![t] = Again(t)] /\ retry' = [retry EXCEPT ![t] = TRUE]
    /\ IF fails'[t] = 2 /\ ~fallback[t]
       THEN fallback' = [fallback EXCEPT ![t] = TRUE] /\ PollOnce(t)
       ELSE UNCHANGED <<fallback, asked>>
    /\ UNCHANGED <<hubVars, hidden, view>>

Retry(t) ==
    /\ retry[t] /\ retry' = [retry EXCEPT ![t] = FALSE] /\ Connect(t)
    /\ UNCHANGED <<hubVars, fails, fallback, hidden, asked, view>>

(* visibilitychange: a hidden page lets go of everything. *)
Hide(t) ==
    /\ ~hidden[t] /\ hidden' = [hidden EXCEPT ![t] = TRUE] /\ Disconnect(t)
    /\ retry' = [retry EXCEPT ![t] = FALSE] /\ fallback' = [fallback EXCEPT ![t] = FALSE]
    /\ UNCHANGED <<hubVars, fails, asked, view>>

(* A page that is shown again refreshes once, polls if it polled before, and
   opens a stream. *)
Show(t) ==
    /\ hidden[t] /\ hidden' = [hidden EXCEPT ![t] = FALSE]
    /\ fallback' = [fallback EXCEPT ![t] = fails[t] = 2]
    /\ Connect(t) /\ PollOnce(t)
    /\ UNCHANGED <<hubVars, fails, retry, view>>

-----------------------------------------------------------------------------
(* The page's own polls: /api/docker/stats *)

Tick(t) ==
    /\ fallback[t] /\ ~hidden[t] /\ PollOnce(t)
    /\ UNCHANGED <<hubVars, es, link, fails, retry, fallback, hidden, seen, view>>

(* The server reads the state for one. *)
Serve(t) ==
    /\ NoData \in asked[t]
    /\ asked' = [asked EXCEPT ![t] = (@ \ {NoData}) \cup {version}]
    /\ UNCHANGED <<hubVars, es, link, fails, retry, fallback, hidden, seen, view>>

(* Whatever arrives is drawn, or nothing does. *)
Draw(t) ==
    /\ \E answer \in asked[t] \ {NoData} :
          asked' = [asked EXCEPT ![t] = @ \ {answer}] /\ Shows(t, answer)
    /\ UNCHANGED <<hubVars, es, link, fails, retry, fallback, hidden, seen>>

Unanswered(t) ==
    /\ \E answer \in asked[t] : asked' = [asked EXCEPT ![t] = @ \ {answer}]
    /\ UNCHANGED <<hubVars, es, link, fails, retry, fallback, hidden, seen, view>>

-----------------------------------------------------------------------------
(* The rest of the hub, and the clients that are no page of ours. *)
Elsewhere ==
    /\ \/ Interval \/ Fetch \/ Publish \/ FetchFails \/ Change
       \/ \E c \in Clients \ DOMAIN Tab : Subscribe(c) \/ Leave(c)
    /\ UNCHANGED page

NextView ==
    \/ Elsewhere
    \/ \E c \in DOMAIN Tab : HandleStream(c) \/ Closed(c) \/ Cut(c)
    \/ \E t \in Tabs :
          \/ Opened(t) \/ Message(t) \/ Failed(t) \/ Retry(t) \/ Hide(t) \/ Show(t)
          \/ Tick(t) \/ Serve(t) \/ Draw(t) \/ Unanswered(t)

(* Timers fire, the server handles what reaches it and learns of what is
   gone, and a request repeated for ever is answered now and then. *)
FairView ==
    /\ WF_all(Interval /\ UNCHANGED page)
    /\ SF_all(Fetch /\ UNCHANGED page) /\ SF_all(Publish /\ UNCHANGED page)
    /\ \A c \in DOMAIN Tab : WF_all(HandleStream(c)) /\ WF_all(Closed(c))
    /\ \A t \in Tabs : /\ WF_all(Opened(t)) /\ WF_all(Message(t)) /\ WF_all(Failed(t))
                       /\ WF_all(Retry(t)) /\ WF_all(Tick(t))
                       /\ SF_all(Serve(t)) /\ SF_all(Draw(t))

InitView == HubInit /\ InitPage

SpecView == InitView /\ [][NextView]_all /\ FairView

-----------------------------------------------------------------------------
(* Properties *)

(* A page that stays visible gets to draw every state, or a later one, whether
   its stream is refused, cut again and again, or never opens at all. *)
SeesEveryState == \A t \in Tabs, v \in 1..MaxVersion :
    version >= v ~> (view[t] >= v \/ hidden[t])

(* "Use polling only while streaming is unavailable, and pause both in hidden
   tabs" (runtime.js:316): a hidden page has no stream, no retry and no poll
   timer, and one whose stream is open does not poll besides. *)
OneWayAtATime == \A t \in Tabs :
    /\ hidden[t] => es[t] = NoStream /\ ~retry[t] /\ ~fallback[t]
    /\ es[t] # NoStream => ~retry[t] /\ (link[es[t]] = "open" => ~fallback[t])

(* A stream that a page has dropped, for whatever reason, does not stay a
   client of the hub, where it would count against the caps for ever. *)
DroppedStreamsLeave == \A c \in DOMAIN Tab :
    (c \in clients /\ es[Tab[c]] # c) ~> c \notin clients

(* A page lets go of every stream it does not use, and uses one way at a time. *)
StreamsAreLetGo == []OneWayAtATime /\ DroppedStreamsLeave
=============================================================================
