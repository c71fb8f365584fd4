--------------------------- MODULE MCMobileSidecar ---------------------------
(* Two devices of one sidecar; device ids are interchangeable.  The diagnosis
   of repair.js is looked at for every state of the files beside good material,
   and for every material beside good files. *)
EXTENDS MobileSidecar, Repair, TLC

Symmetric == Permutations(DeviceIds)

GoodMaterial == [locked |-> FALSE, pending |-> "none", cert |-> "generated", key |-> "ours",
                 days |-> "valid", covers |-> TRUE]
GoodState == [rightKey |-> TRUE, panel |-> File("good", FALSE), access |-> File("good", FALSE),
              marker |-> AbsentFile, mobile |-> File("good", FALSE), epoch |-> "ok"]

GoodConfig == [plan |-> TRUE, binding |-> "fits", clone |-> "unset"]

FilesAreTold == \A v \in States : LeavesFilesAlone(v) /\ DiagnosisFits(v)
ReadyIsReady ==
    /\ \A v \in States : ZeroMeansReady(v, GoodMaterial, GoodConfig)
    /\ \A t \in Material, c \in Configs : ZeroMeansReady(GoodState, t, c)

(* The diagnosis agrees with the loaders and the next start over every directory
   and leaves the files it looks at as they were; asked as soon as there is an
   authority record to go by. *)
RepairIsRight == epoch # NoEpoch => FilesAreTold /\ ReadyIsReady

(* docs/recovery.md on exit code 0: "State is readable and the configured mobile
   listener would start."  The code refutes it: of the Docker access sidecar the
   diagnosis checks the seal alone, and the start refuses what is in it. *)
ReadyMeansListening ==
    epoch # NoEpoch => \A v \in States : ZeroListens(v, GoodMaterial, GoodConfig)

(* docs/recovery.md: "The diagnosis does not modify the data directory."  The
   code refutes it: loading a sidecar without a record writes the record. *)
DiagnosisWritesNothing == epoch # NoEpoch => \A v \in States : Written(v) = {}
=============================================================================
