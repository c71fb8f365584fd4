-------------------------------- MODULE Repair --------------------------------
(***************************************************************************)
(* The read-only diagnosis of a data directory (src/src/mobile/repair.js)  *)
(* next to what the loaders and the next start do with the same directory  *)
(* (store.js, docker-access.js, cron.js, mobile/store.js, mobile/cert.js,  *)
(* mobile/clone.js, mobile/listener.js of src/src).                        *)
(*                                                                         *)
(* A volume is one state of the directory and of the configuration.  A     *)
(* sealed file authenticates when the configured key is the one that made  *)
(* it and its payload is whole.  "broken" stands for everything that is no *)
(* envelope, "odd" for a payload that authenticates and is not valid,      *)
(* "oddJobs" for a panel whose sealed jobs do not open, "foreign" for the  *)
(* sidecar of another installation, and "older" for one that the authority *)
(* record rules out.  Of the binding of the origin there is whether it     *)
(* fits the configured one (MobileCert has the rest), and of the nonce of  *)
(* a clone reset whether it is malformed: a start with a fresh one         *)
(* replaces what the diagnosis looked at.                                  *)
(***************************************************************************)
EXTENDS Naturals, FiniteSets

CONSTANT migrateV1State         \* MIGRATE_V1_STATE

ASSUME MigrateAssumption == migrateV1State \in BOOLEAN

File(form, torn) == [form |-> form, torn |-> torn]
AbsentFile == File("absent", FALSE)
Sealed(forms) == {File(form, torn) : form \in forms, torn \in BOOLEAN}

PanelFiles  == Sealed({"good", "odd", "oddJobs", "cron"}) \cup {AbsentFile, File("broken", TRUE), File("v1", FALSE)}
MobileFiles == Sealed({"good", "odd", "foreign", "older", "resetPending"}) \cup {AbsentFile, File("broken", TRUE)}
AccessFiles == Sealed({"good", "odd", "foreign"}) \cup {AbsentFile, File("broken", TRUE)}
MarkerFiles == Sealed({"good"}) \cup {AbsentFile, File("broken", TRUE)}

Material == [locked : BOOLEAN, pending : {"none", "incomplete", "complete"},
             cert : {"absent", "unreadable", "generated", "owner"},
             key : {"absent", "unreadable", "other", "ours"},
             days : {"valid", "early", "expired"}, covers : BOOLEAN]

States == [rightKey : BOOLEAN, panel : PanelFiles, access : AccessFiles, marker : MarkerFiles,
           mobile : MobileFiles, epoch : {"none", "ok", "unreadable"}]

Configs == [plan : BOOLEAN, binding : {"fits", "refused"}, clone : {"unset", "malformed"}]

Authentic(v, file) == v.rightKey /\ ~file.torn

-----------------------------------------------------------------------------
(* The loaders *)

(* load of store.js: what getInstallationId needs. *)
PanelLoads(v) ==
    \/ v.panel = AbsentFile
    \/ v.panel.form = "v1" /\ migrateV1State
    \/ v.panel.form \in {"good", "oddJobs", "cron"} /\ Authentic(v, v.panel)

(* suspendJobsAboveMode opens them before anything listens. *)
JobsOpen(v) == v.panel.form # "oddJobs"

(* selectedMode of docker-access.js *)
AccessLoads(v) == v.access = AbsentFile \/ (v.access.form = "good" /\ Authentic(v, v.access))

(* Loading creates what is missing and writes anew what is of an older form. *)
PanelRewritten(v) == PanelLoads(v) /\ v.panel.form \in {"absent", "v1", "cron"}

(* loadMobileState: its reason to fail, or none.  The seal comes first, then
   the installation, which is the panel's, and then the authority record. *)
MobileReason(v) ==
    CASE v.mobile.form = "broken"              -> "format"
      [] v.mobile.form # "broken" /\ ~Authentic(v, v.mobile) -> "authentication failed"
      [] OTHER -> IF ~PanelLoads(v) THEN "QM_STATE_INVALID"
                  ELSE IF v.mobile.form \in {"odd", "foreign"} THEN v.mobile.form
                  ELSE IF v.epoch = "unreadable" THEN "record"
                  ELSE IF v.epoch = "ok" /\ v.mobile.form = "older" THEN "older" ELSE "none"

-----------------------------------------------------------------------------
(* What repair.js makes of each file *)

isLegacyV1(v) == v.panel.form = "v1"
PanelHeld(v)  == v.panel.form = "cron" /\ Authentic(v, v.panel)

PanelVerdict(v) ==
    CASE v.panel = AbsentFile -> "absent"
      [] isLegacyV1(v) -> "held"
      [] v.panel.form = "broken" -> "broken"
      [] OTHER -> IF ~Authentic(v, v.panel) THEN "auth"
                  ELSE IF v.panel.form = "odd" THEN "broken" ELSE "healthy"

PanelFails(v) ==
    CASE isLegacyV1(v) -> {"S01"}
      [] PanelHeld(v)  -> {"S02"}
      [] OTHER -> CASE PanelVerdict(v) = "auth" -> {"S03"}
                    [] PanelVerdict(v) = "broken" -> {"S05"}
                    [] OTHER -> {}

(* envelopeVerdict, markerVerdict and macVerdict *)
SealVerdict(v, file) ==
    CASE file = AbsentFile -> "absent"
      [] file.form = "broken" -> "broken"
      [] OTHER -> IF Authentic(v, file) THEN "healthy" ELSE "auth"

(* reportSidecar: that a seal does not fit is left to the comparison below. *)
SealFails(v, file, id) == IF SealVerdict(v, file) = "broken" THEN {id} ELSE {}

MutMobileOpened(v) == v.mobile # AbsentFile /\ v.panel # AbsentFile

(* The sidecar is not loaded where that would write the panel's state. *)
MobileOpened(v) == v.mobile # AbsentFile /\ ~PanelHeld(v) /\ ~isLegacyV1(v) /\ v.panel # AbsentFile

MobileVerdict(v) ==
    CASE v.mobile = AbsentFile -> "absent"
      [] v.mobile # AbsentFile /\ ~MobileOpened(v) -> "held"
      [] OTHER -> CASE MobileReason(v) \in {"none", "QM_STATE_INVALID"} -> "healthy"
                    [] MobileReason(v) = "authentication failed" -> "auth"
                    [] OTHER -> "broken"

MobileFails(v) ==
    CASE v.mobile = AbsentFile -> {}
      [] v.mobile # AbsentFile /\ PanelHeld(v)  -> {"M01"}
      [] v.mobile # AbsentFile /\ isLegacyV1(v) -> {"M02"}
      [] v.mobile # AbsentFile /\ v.panel = AbsentFile -> {"M03"}
      [] OTHER -> CASE MobileReason(v) = "QM_STATE_INVALID" -> {"M04"}
                    [] MobileReason(v) = "authentication failed" -> {"M05"}
                    [] MobileReason(v) # "none" /\ MobileVerdict(v) = "broken" -> {"M06"}
                    [] OTHER -> IF v.mobile.form = "resetPending" THEN {"M07"} ELSE {}

-----------------------------------------------------------------------------
(* The certificate, looked at without the lock *)

MutLeafFails(t, plan) ==
    CASE t.days = "expired" -> {"T09"}
      [] t.days = "early" -> {"T10"}
      [] OTHER -> {}

LeafFails(t, plan) ==
    (CASE t.days = "expired" -> {"T09"} [] t.days = "early" -> {"T10"} [] OTHER -> {})
    \cup (IF plan /\ ~t.covers THEN {"T11"} ELSE {})

KeyFails(t) ==
    CASE t.key = "absent" -> {"T06"}
      [] t.key = "unreadable" -> {"T07"}
      [] t.key = "other" -> {"T08", "T12"}
      [] t.key = "ours" -> {}

PendingFails(t) ==
    CASE t.pending = "incomplete" -> {"T02"} [] t.pending = "complete" -> {"T03"} [] OTHER -> {}

TlsFails(t, plan) ==
    IF t.locked THEN {"T01"}
    ELSE PendingFails(t) \cup
         (CASE t.cert = "absent" -> {}
            [] t.cert = "unreadable" -> {"T04"}
            [] OTHER -> KeyFails(t) \cup LeafFails(t, plan))

-----------------------------------------------------------------------------
(* The comparison of the files that carry a seal *)

Ledger(v) == [panel |-> PanelVerdict(v), access |-> SealVerdict(v, v.access),
              marker |-> SealVerdict(v, v.marker), mobile |-> MobileVerdict(v)]

FilesWith(v, verdict) == {f \in DOMAIN Ledger(v) : Ledger(v)[f] = verdict}

Diagnosis(v) ==
    LET healthy  == FilesWith(v, "healthy")
        rejected == FilesWith(v, "auth")
        broken   == FilesWith(v, "broken")
        opened   == healthy \cup rejected \cup broken
    IN  CASE healthy = {} /\ Cardinality(rejected) > 1 /\ broken = {} -> {"A01"}
          [] healthy = {} /\ rejected # {} /\ broken # {} -> {"A02"}
          [] healthy # {} /\ rejected \cup broken # {} -> {"A03"}
          [] Cardinality(rejected) = 1 /\ opened = rejected -> {"A04"}
          [] OTHER -> {}

StateFails(v) ==
    PanelFails(v) \cup SealFails(v, v.access, "S06") \cup SealFails(v, v.marker, "S07")
    \cup MobileFails(v) \cup Diagnosis(v)

Unprovisioned(v, t) == v.panel = AbsentFile \/ v.mobile = AbsentFile \/ (~t.locked /\ t.cert = "absent")

(* finish: 0 healthy, 1 invalid, 2 not provisioned *)
ExitCode(v, t, c) ==
    IF StateFails(v) \cup TlsFails(t, c.plan) # {} \/ ~c.plan THEN 1
    ELSE IF Unprovisioned(v, t) THEN 2 ELSE 0

PanelOpened(v) == v.panel # AbsentFile /\ ~isLegacyV1(v) /\ ~PanelHeld(v)

(* The files that the loaders write on the way. *)
Written(v) ==
    {f \in {"panel", "record"} :
        \/ f = "panel" /\ PanelRewritten(v) /\ (PanelOpened(v) \/ MobileOpened(v))
        \/ f = "record" /\ MobileOpened(v) /\ MobileReason(v) = "none" /\ v.epoch = "none"}

-----------------------------------------------------------------------------
(* The next start: what start of server.js loads before it listens,
   ensureLocked on material that nothing is staged for, startMobileListener. *)

Ensured(t) ==
    \/ t.cert = "absent" /\ t.key = "absent"
    \/ t.cert \in {"generated", "owner"} /\ t.key = "ours" /\ t.days # "expired" /\ t.covers

Listens(v, t, c) ==
    /\ PanelLoads(v) /\ AccessLoads(v) /\ JobsOpen(v)
    /\ c.plan /\ c.clone = "unset"
    /\ t.pending = "none" => Ensured(t)
    /\ v.mobile # AbsentFile => MobileReason(v) = "none"
    /\ c.binding = "fits"

-----------------------------------------------------------------------------
(* Properties *)

(* What the diagnosis does not look into: a Docker access sidecar that
   authenticates, the sealed jobs, the binding of the origin, the nonce. *)
Unexamined(v, c) ==
    \/ v.access.form \in {"odd", "foreign"} \/ ~JobsOpen(v)
    \/ c.binding = "refused" \/ c.clone = "malformed"

(* Exit code 0 means that the state is readable and that the configured
   listener would start, for what the diagnosis looks into: whatever else may be
   wrong with the files, the material and the plan has been found. *)
ZeroMeansReady(v, t, c) == ExitCode(v, t, c) = 0 /\ ~Unexamined(v, c) => Listens(v, t, c)

(* The same as docs/recovery.md has it, without the exceptions. *)
ZeroListens(v, t, c) == ExitCode(v, t, c) = 0 => Listens(v, t, c)

(* The files the diagnosis watches are as it found them, whatever form they
   were in: what a loader would write anew is not given to it. *)
LeavesFilesAlone(v) == "panel" \notin Written(v)

(* A wrong key does not make undamaged files out to be damaged, and one damaged
   file under the right key does not make the key out to be wrong. *)
DiagnosisFits(v) ==
    LET torn == {i \in {"panel", "access", "marker", "mobile"} : v[i].torn}
    IN  /\ ~v.rightKey /\ torn = {} => "A03" \notin Diagnosis(v)
        /\ v.rightKey /\ Cardinality(torn) <= 1 => "A01" \notin Diagnosis(v)
=============================================================================
