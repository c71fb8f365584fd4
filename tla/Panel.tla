-------------------------------- MODULE Panel --------------------------------
(***************************************************************************)
(* Which request reaches which handler: route of src/src/server.js on the  *)
(* plaintext and the HTTPS listener, the owner's rows of the mobile API    *)
(* and the devices page (src/src/mobile/owner-routes.js, owner-plane.js),  *)
(* and the routes of the phones (src/src/mobile/routes.js), over the owner *)
(* and the sessions of OwnerAuth.                                          *)
(*                                                                         *)
(* A request is decided before its body is read.  A script proves that it  *)
(* is of the page with a token in a header, which the router checks; the   *)
(* token of a form is in the body, so the router lets a form through and   *)
(* its handler has to check.  A path stands for all that the code treats   *)
(* alike.  Rate limits and the Docker mode are left out.                   *)
(***************************************************************************)
EXTENDS OwnerAuth, Sequences

CONSTANT NoHandler

-----------------------------------------------------------------------------
(* Paths *)

Assets == {"/healthz", "/assets/app.css", "/assets/icons"}
Entries == {"/setup", "/login", "/login/mfa", "/pair/redeem"}

SettingsForms == {"/settings/mfa/enable", "/settings/mfa/disable", "/settings/prefs",
                  "/settings/templates/add", "/cron/run"}
ProfileForms == {"/profile/name", "/profile/password", "/profile/token/new",
                 "/profile/token/revoke"}
PairForms == {"/pair", "/pair/reissue"}

MutForms == SettingsForms \cup ProfileForms \cup PairForms \cup {"/pair/keys/mint"}
(* BODY_CSRF *)
Forms == SettingsForms \cup ProfileForms \cup PairForms

Scripts == {"/settings/docker-mode", "/pair/keys/read", "/pair/keys/mint", "/pair/keys/forget",
    "/api/exec", "/images/pull", "/images/prune", "/volumes/remove", "/networks/create",
    "/stacks/deploy", "/api/compose/validate", "/stacks/adopt", "/stacks/a/start",
    "/containers/a/stop", "/logout", "/api/updates/check", "/api/updates/dismiss"}

BEARER_READ_PATHS == {"/api/services", "/api/updates", "/api/docker/stats",
                      "/api/containers/stats", "/api/docker/df"}
Pages == {"/", "/pair", "/containers", "/settings", "/settings/mfa", "/profile", "/cron",
          "/stacks", "/stacks/a/seed", "/pair/file"}
Reads == BEARER_READ_PATHS \cup {"/api/stream", "/api/jump", "/api/logs"}

DevicePosts == {"/devices/pair", "/devices/pair-qr", "/devices/approve", "/devices/reject",
                "/devices/revoke", "/devices/forget", "/devices/rename"}
DevicePages == {"/devices", "/devices/live"}

Enrolments == "/api/mobile/v1/enrolments"
EnrolmentOne == {"/api/mobile/v1/enrolments/1", "/api/mobile/v1/enrolments/1/approve",
                 "/api/mobile/v1/enrolments/1/reject"}
DeviceOne == {"/api/mobile/v1/devices/1/rename", "/api/mobile/v1/devices/1/revoke",
              "/api/mobile/v1/devices/1/forget"}
OwnerApi == {Enrolments, "/api/mobile/v1/devices"} \cup EnrolmentOne \cup DeviceOne

PhoneEntries == {"/api/mobile/v1/enrolments/claim", "/api/mobile/v1/enrolments/status",
                 "/api/mobile/v1/enrolments/grant", "/api/mobile/v1/enrolments/acknowledge"}
PhoneReads == {"/api/mobile/v1/meta", "/api/mobile/v1/summary", "/api/mobile/v1/containers/c"}
PhoneApi == PhoneEntries \cup PhoneReads \cup
            {"/api/mobile/v1/identity", "/api/mobile/v1/token/refresh", "/api/mobile/v1/alerts"}

Paths == Assets \cup Entries \cup Forms \cup Scripts \cup Pages \cup Reads \cup DevicePosts
         \cup DevicePages \cup OwnerApi \cup PhoneApi \cup {"/hooks/a", "/unknown"}

(* A request: its listener and whether the panel is to be used over HTTPS
   only, what it asks for, and what it presents: the cookie of a session of
   either listener, the page's token, an API token. *)
Requests == [https : BOOLEAN, secure : BOOLEAN, method : {"GET", "POST", "DELETE"}, path : Paths,
             cookie : {"none", "http", "https"}, token : {"none", "header", "body"},
             bearer : BOOLEAN]

-----------------------------------------------------------------------------
(* Decisions, in the order the code takes them: the first that applies. *)

Handler(p) == [handler |-> p]
Refusal == [handler |-> NoHandler]

Decide(decisions) ==
    LET applies == {i \in DOMAIN decisions : decisions[i][1]}
    IN  decisions[CHOOSE i \in applies : \A j \in applies : i <= j][2]

(* handleMobileOwnerApi: whether it takes the request. *)
TakenByOwnerApi(q) ==
    \/ q.path = Enrolments /\ q.method = "POST"
    \/ q.path = "/api/mobile/v1/enrolments/1" /\ q.method \in {"GET", "DELETE"}
    \/ q.path \in EnrolmentOne \ {"/api/mobile/v1/enrolments/1"} /\ q.method = "POST"
    \/ q.path = "/api/mobile/v1/devices" /\ q.method = "GET"
    \/ q.path \in DeviceOne /\ q.method = "POST"

(* handleDevicesPage; without the secure panel the page can only be read. *)
TakenByDevices(q) ==
    IF q.https THEN \/ q.path \in DevicePages /\ q.method = "GET"
                    \/ q.path \in DevicePosts /\ q.method = "POST"
    ELSE q.path = "/devices" /\ q.method = "GET"

(* The table of the panel itself. *)
TakenByPanel(q) ==
    \/ q.path \in Pages \cup Reads /\ q.method = "GET"
    \/ q.path \in Forms \cup Scripts \cup {"/api/docker/df"} /\ q.method = "POST"

StateChanging(q) == q.method # "GET"

(* Whether the session of the cookie lives is the state's to say. *)
HasCookie(q) == q.cookie = (IF q.https THEN "https" ELSE "http")

(* route *)
PanelRoute(q, owner, live) ==
    LET session   == live /\ HasCookie(q)
        checkCsrf == session /\ q.token = "header"
        bearer    == q.bearer /\ q.path \in BEARER_READ_PATHS /\ q.method = "GET"
    IN Decide(<<
        <<~q.https /\ q.path = "/hooks/a", Handler(q.path)>>,
        <<q.path \in Assets, Handler(q.path)>>,
        <<~q.https /\ q.secure, Refusal>>,
        <<~owner, IF q.path = "/setup" THEN Handler(q.path) ELSE Refusal>>,
        <<q.path = "/setup", Refusal>>,
        <<q.path = "/pair/redeem" /\ q.method = "GET", Handler(q.path)>>,
        <<q.path = "/login" \/ (q.path = "/login/mfa" /\ q.method = "POST"), Handler(q.path)>>,
        <<~session /\ ~bearer, Refusal>>,
        <<q.path \in OwnerApi /\ ~q.https, Refusal>>,
        <<q.path \in OwnerApi /\ ~checkCsrf
              /\ (StateChanging(q) \/ q.path = "/api/mobile/v1/enrolments/1"), Refusal>>,
        <<q.path \in OwnerApi, IF TakenByOwnerApi(q) THEN Handler(q.path) ELSE Refusal>>,
        <<q.path \in PhoneApi, Refusal>>,
        <<q.path \in DevicePages \cup DevicePosts,
              IF TakenByDevices(q) THEN Handler(q.path) ELSE Refusal>>,
        <<StateChanging(q) /\ q.path \notin Forms /\ ~checkCsrf, Refusal>>,
        <<TRUE, IF TakenByPanel(q) THEN Handler(q.path) ELSE Refusal>> >>)

(* isOwnerPath *)
OwnerPath(q) == IF q.path = Enrolments THEN q.method = "POST"
                ELSE IF q.path = "/api/mobile/v1/devices" THEN q.method = "GET"
                ELSE q.path \notin PhoneApi

(* createMobileRouter: the owner's paths first, the phones' own next. *)
Route(q, owner, live) ==
    IF ~q.https \/ OwnerPath(q) THEN PanelRoute(q, owner, live)
    ELSE IF \/ q.path \in PhoneReads \cup {"/api/mobile/v1/identity"} /\ q.method = "GET"
            \/ q.path \in PhoneEntries \cup {"/api/mobile/v1/token/refresh"} /\ q.method = "POST"
            \/ q.path = "/api/mobile/v1/alerts"
         THEN Handler(q.path) ELSE Refusal

(* The handlers that check the token of their body, once it is read. *)
ChecksItsBody == {"/settings/mfa/enable", "/settings/mfa/disable", "/settings/prefs",
    "/profile/name", "/profile/password", "/profile/token/new", "/profile/token/revoke",
    "/cron/run", "/settings/templates/add", "/pair", "/pair/reissue"} \cup DevicePosts

(* What is carried out when nothing has changed by the time the body is read. *)
Performed(q, owner, live) ==
    LET r == Route(q, owner, live) IN
    /\ r # Refusal
    /\ r.handler \in ChecksItsBody /\ StateChanging(q) =>
           live /\ HasCookie(q) /\ q.token = "body"

-----------------------------------------------------------------------------
(* Properties *)

(* A change by the phones' protocol, a claim of the account, a sign-in or a
   hook carries a proof of its own, which its own handler asks for. *)
OwnProof == Entries \cup PhoneApi \cup {"/hooks/a"}

(* What the owner alone may do. *)
OwnersOnly(q) == q.path \notin OwnProof \cup Assets

Unproven == [owner \in BOOLEAN |-> [live \in BOOLEAN |-> {q \in Requests :
    /\ q.https => q.secure
    /\ Performed(q, owner, live) /\ OwnersOnly(q)
    /\ \/ q.secure /\ ~q.https
       \/ ~owner
       \/ ~(live /\ HasCookie(q)) /\ (StateChanging(q) \/ ~q.bearer)
       \/ StateChanging(q) /\ q.token = "none"}]]

(* Only a page of a live session of the same listener changes anything for
   the owner, with its token; an API token only reads; and on the plaintext
   address nothing of the panel answers once it is to be used over HTTPS. *)
PanelIsTheOwners == Usable =>
    Unproven[Owned][\E b \in Browsers : HasSession(b)] = {}
=============================================================================
