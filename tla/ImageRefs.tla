------------------------------ MODULE ImageRefs ------------------------------
(***************************************************************************)
(* The names of images: what src/src/registry.js makes of the reference a  *)
(* container names (parseImageRef, manifestUrl, findLocal) and what        *)
(* src/src/docker.js asks Docker to pull for it (pullImage).               *)
(*                                                                         *)
(* A reference is a piece followed by separators and pieces.  A piece is   *)
(* plain, dotted (a host, or a name with a dot), docker.io, localhost, or  *)
(* empty after a separator.                                                *)
(***************************************************************************)
EXTENDS Naturals, Sequences, FiniteSets

CONSTANT MaxSeparators

ASSUME ImageRefsAssumption == MaxSeparators \in Nat

Pieces == {"plain", "dotted", "docker.io", "localhost", ""}
Separators == {"/", ":", "@"}
Hub == <<"registry-1.docker.io">>

(* REF_RE of docker.js: a reference starts with a letter or a digit. *)
Woven(p, s) ==
    [i \in 1 .. Len(p) + Len(s) |-> IF i % 2 = 1 THEN p[(i + 1) \div 2] ELSE s[i \div 2]]
Separated(n) == {Woven(p, s) : p \in [1 .. n + 1 -> Pieces], s \in [1 .. n -> Separators]}
References == {ref \in UNION {Separated(n) : n \in 0 .. MaxSeparators} : ref[1] # ""}

Places(sign, ref) == {i \in DOMAIN ref : ref[i] = sign}
FirstPlace(sign, ref) ==
    IF Places(sign, ref) = {} THEN 0 ELSE CHOOSE i \in Places(sign, ref) : \A j \in Places(sign, ref) : i <= j
LastPlace(sign, ref) ==
    IF Places(sign, ref) = {} THEN 0 ELSE CHOOSE i \in Places(sign, ref) : \A j \in Places(sign, ref) : j <= i
Before(i, ref) == SubSeq(ref, 1, i - 1)
Behind(i, ref) == SubSeq(ref, i + 1, Len(ref))

-----------------------------------------------------------------------------
(* registry.js *)

(* A tag starts at the last colon, but not at the colon of a port. *)
TagColon(ref) == IF LastPlace(":", ref) > LastPlace("/", ref) THEN LastPlace(":", ref) ELSE 0

Split(ref, i, default) ==
    IF i = 0 THEN [repo |-> ref, tag |-> default] ELSE [repo |-> Before(i, ref), tag |-> Behind(i, ref)]

IsHost(first) ==
    first = <<"localhost">> \/ \E i \in DOMAIN first : first[i] \in {"dotted", "docker.io", ":"}

MutParseImageRef(ref) ==
    LET at == FirstPlace("@", ref)
        part == Split(ref, IF at # 0 THEN at ELSE TagColon(ref), <<"latest">>)
    IN  [host |-> Hub, repo |-> part.repo, tag |-> part.tag]

parseImageRef(ref) ==
    LET slash == FirstPlace("/", ref)
        first == Before(slash, ref)
        Hosted == slash > 0 /\ IsHost(first)
        host == IF Hosted /\ first # <<"docker.io">> THEN first ELSE Hub
        rest == IF Hosted THEN Behind(slash, ref) ELSE ref
        at == FirstPlace("@", rest)
        part == Split(rest, IF at # 0 THEN at ELSE TagColon(rest), <<"latest">>)
    IN  [host |-> host, tag |-> part.tag,
         repo |-> IF host = Hub /\ Places("/", part.repo) = {}
                  THEN <<"library", "/">> \o part.repo ELSE part.repo]

(* The address of the manifest: a host with or without a port, and parts
   with no sign but the slashes between them. *)
manifestUrl(name) ==
    /\ Places("@", name.host) = {} /\ Cardinality(Places(":", name.host)) < 2
    /\ \A i \in DOMAIN name.repo : IF i % 2 = 1 THEN name.repo[i] # "" ELSE name.repo[i] = "/"
    /\ name.tag \notin {<<>>, <<"">>} /\ Places("/", name.tag) = {}

(* resolveRemoteDigest asks for these; publicEndpoint goes to no host of
   this machine. *)
IsAsked(ref) ==
    LET name == parseImageRef(ref)
    IN  name.repo # <<>> /\ manifestUrl(name) /\ "localhost" # name.host[1]

(* The tag an image of this machine must have to be compared. *)
findLocalTag(ref) == IF TagColon(ref) # 0 THEN ref ELSE ref \o <<":", "latest">>

-----------------------------------------------------------------------------
(* docker.js *)

pullImage(ref) == Split(ref, TagColon(ref), <<"latest">>)

(* Docker splits off the host as parseImageRef does, and takes a digest only
   as the tag. *)
DockerName(pull) ==
    LET slash == FirstPlace("/", pull.repo)
        first == Before(slash, pull.repo)
        Hosted == slash > 0 /\ IsHost(first)
        host == IF Hosted /\ first # <<"docker.io">> THEN first ELSE Hub
        rest == IF Hosted THEN Behind(slash, pull.repo) ELSE pull.repo
    IN  [host |-> host, tag |-> pull.tag,
         repo |-> IF host = Hub /\ Places("/", rest) = {} THEN <<"library", "/">> \o rest ELSE rest]

(* Docker shows a tag without its own host and without library/. *)
IsShown(tag) ==
    LET colon == TagColon(tag)
        name == DockerName(Split(tag, colon, <<>>))
    IN  /\ colon # 0 /\ Places("@", tag) = {} /\ manifestUrl(name)
        /\ tag[1] # "docker.io"

(* A digest compared with that of a local image is the digest of what a pull
   of the same reference fetches, and the pull leaves it under the tag that
   was looked up: check, lookup and pull each read the reference their own
   way. *)
ReadAlike ==
    \A ref \in References : IsShown(findLocalTag(ref)) /\ IsAsked(ref) =>
        /\ DockerName(pullImage(ref)) = parseImageRef(ref)
        /\ DockerName(Split(findLocalTag(ref), TagColon(findLocalTag(ref)), <<>>)) = parseImageRef(ref)
=============================================================================
