----------------------------- MODULE ComposeFile -----------------------------
(***************************************************************************)
(* A compose file on its way to Docker (src/src/compose.js) and under the  *)
(* linter of the deploy editor (src/src/lint.js).  Deployment substitutes  *)
(* the values in the text, parses it, refuses what it must not run and     *)
(* turns each service into a container.  The linter walks the raw text on  *)
(* its own, line by line, so that a finding has a line, and resolves each  *)
(* value by itself.                                                        *)
(*                                                                         *)
(* A line has an indentation, a form ("key" is key: value, "item" is       *)
(* - text, "pair" is - key=value, "text" is none of them), a key and a     *)
(* value.  A value is a sequence of parts: <<"x">> a word, <<>> nothing,   *)
(* <<"/", "srv", "x">> a path, and <<"$V">> or <<"$V", ":-", "x">> what    *)
(* the value V is put in for.  Values of several lines, quotes, comments   *)
(* and targets and modes of volumes are left out; a list entry that is     *)
(* malformed in those is a value of Malformed.                             *)
(***************************************************************************)
EXTENDS Naturals, Sequences, FiniteSets, SequencesExt

CONSTANTS
    CaseOf,         \* other spellings of reserved names, and those names in lower case
    Ipv4,           \* the address literals in use that are dotted quads
    Secrets,        \* the references with a secret's name
    Malformed       \* the list entries no parser takes

ASSUME ComposeAssumption ==
    /\ CaseOf \in [DOMAIN CaseOf -> STRING] /\ Ipv4 \subseteq STRING
    /\ <<"=">> \in Malformed

-----------------------------------------------------------------------------
(* Values and references *)

(* substituteEnv: a value that is missing or empty gives way to the default. *)
substituteEnv(val, env) ==
    IF val = <<>> \/ Head(val) \notin DOMAIN env THEN val
    ELSE IF env[Head(val)] # <<>> THEN env[Head(val)]
    ELSE IF Len(val) > 1 THEN SubSeq(val, 3, Len(val)) ELSE <<>>

Word(key, env) ==
    IF key \notin DOMAIN env THEN key
    ELSE IF env[key] = <<>> THEN "" ELSE Head(env[key])

Substituted(file, env) ==
    [i \in DOMAIN file |-> [file[i] EXCEPT !.key = Word(@, env), !.val = substituteEnv(@, env)]]

Lower(word) == IF word \in DOMAIN CaseOf THEN CaseOf[word] ELSE word

isIpv4(address) == address \in Ipv4

-----------------------------------------------------------------------------
(* Host paths *)

Absolute(val) == val # <<>> /\ Head(val) = "/"

normalHostPath(val) ==
    LET Step(path, bit) == CASE bit \in {"", "."} -> path
                             [] bit = ".." -> IF path = <<>> THEN path ELSE Front(path)
                             [] OTHER -> Append(path, bit)
    IN  FoldLeft(Step, <<>>, Tail(val))

atOrBelow(path, root) == IsPrefix(root, path)

SENSITIVE_HOST_ROOTS ==
    {<<"proc">>, <<"sys">>, <<"dev">>, <<"boot">>, <<"root", ".ssh">>,
     <<"var", "lib", "containerd">>, <<"var", "lib", "docker">>, <<"var", "run">>,
     <<"run", "containerd">>, <<"run", "docker">>}
SENSITIVE_HOST_FILES == {<<"etc", "shadow">>}
DECLARABLE_TOP_LEVEL_ROOTS ==
    {"srv", "opt", "mnt", "media", "data", "export", "share", "tank", "pool", "storage", "volume1"}

alwaysRefusedBind(path, asRoot) ==
    \/ path = <<>>
    \/ path # <<>> /\ Lower(Last(path)) \in {"docker.sock", "containerd.sock"}
    \/ Len(path) = 1 /\ ~(asRoot /\ path[1] \in DECLARABLE_TOP_LEVEL_ROOTS)
    \/ path \in SENSITIVE_HOST_FILES
    \/ \E root \in SENSITIVE_HOST_ROOTS : atOrBelow(path, root)

(* parseBindRoots: entries that cannot be roots are dropped and reported. *)
parseBindRoots(entries) ==
    {path \in {normalHostPath(e) : e \in {x \in entries : Absolute(x)}} : ~alwaysRefusedBind(path, TRUE)}

dangerousHostBind(val, roots) ==
    /\ Absolute(val)
    /\ LET path == normalHostPath(val)
       IN  alwaysRefusedBind(path, FALSE) \/ ~\E root \in roots : atOrBelow(path, root)

-----------------------------------------------------------------------------
(* Parsing *)

SCALARS == {"image", "container_name", "restart", "user"}
LISTS == {"ports", "volumes"}
MAPS == {"environment", "labels"}
BAD_KEY == {"__proto__"}
NoMap == [k \in {} |-> <<>>]

NewService == [image |-> <<>>, container_name |-> <<>>, restart |-> <<>>, user |-> <<>>,
               ports |-> <<>>, volumes |-> <<>>, environment |-> NoMap, labels |-> NoMap]

(* skip: lines further in than this are those of a block left out. *)
Unread == [section |-> "", svc |-> "", sub |-> "", skip |-> {}, services |-> NoMap,
           volumes |-> {}, ignored |-> {}, bad |-> FALSE]

Put(map, k, v) == [x \in DOMAIN map \cup {k} |-> IF x = k THEN v ELSE map[x]]
Fails(p) == [p EXCEPT !.bad = TRUE]
Leave(p, what, from) == [p EXCEPT !.ignored = @ \cup {what}, !.skip = {from}]
IsKey(l) == l.form = "key" /\ l.key # ""

(* services[svc][k] = v, here and in the walk of the linter. *)
Sets(p, k, v) == [p EXCEPT !.services[p.svc][k] = v]
Current(p) == p.services[p.svc][p.sub]

TopLevel(p, l) ==
    LET q == [p EXCEPT !.section = l.key, !.svc = "", !.sub = ""]
    IN  IF ~IsKey(l) THEN Fails(p)
        ELSE CASE l.key \in {"services", "volumes"} -> q
               [] l.key = "version" -> [q EXCEPT !.skip = {0}]
               [] OTHER -> Leave(q, l.key, 0)

DeclaresVolume(p, l) ==
    IF ~IsKey(l) \/ l.val # <<>> \/ l.key \in BAD_KEY THEN Fails(p)
    ELSE [p EXCEPT !.volumes = @ \cup {l.key}, !.svc = "", !.sub = ""]

(* A service that is there already starts over. *)
OpensService(p, l) ==
    IF ~IsKey(l) \/ l.val # <<>> \/ l.key \in BAD_KEY THEN Fails(p)
    ELSE [p EXCEPT !.svc = l.key, !.sub = "", !.services = Put(@, l.key, NewService)]

ServiceKey(p, l) ==
    LET q == [p EXCEPT !.sub = ""]
    IN  IF ~IsKey(l) THEN Fails(p)
        ELSE CASE l.key \in SCALARS ->
                    IF l.val = <<>> THEN q ELSE Sets(q, l.key, l.val)
               [] l.key \in LISTS \cup MAPS ->
                    IF l.val = <<>> THEN [q EXCEPT !.sub = l.key]
                    ELSE [q EXCEPT !.ignored = @ \cup {"inline syntax"}]
               [] OTHER -> Leave(q, l.key, 4)

(* The text of an entry of a list; key=value is none that a list takes. *)
Text(l) == IF l.form = "pair" THEN <<"=">> ELSE l.val

Entry(p, l) ==
    IF l.form = "item" /\ l.val = <<>> THEN p
    ELSE IF l.form \in {"item", "pair"} /\ p.sub \in LISTS THEN Sets(p, p.sub, Append(Current(p), Text(l)))
    ELSE IF l.form = "item" /\ p.sub = "environment"
         THEN [p EXCEPT !.ignored = @ \cup {"environment host lookup"}]
    ELSE IF l.form = "item" /\ Head(l.val) \notin BAD_KEY THEN Sets(p, p.sub, Put(Current(p), Head(l.val), <<>>))
    ELSE IF p.sub \in LISTS \/ l.form \in {"item", "text"} \/ l.key \in BAD_KEY \/ (l.form = "key" /\ l.key = "")
         THEN Fails(p)
    ELSE Sets(p, p.sub, Put(Current(p), l.key, l.val))

ParseLine(was, l) ==
    LET p == [was EXCEPT !.skip = {}]
    IN  IF was.bad \/ (\E n \in was.skip : l.at > n) THEN was
        ELSE IF l.at = 0 THEN TopLevel(p, l)
        ELSE IF l.at % 2 = 1 THEN Fails(p)
        ELSE IF l.at = 2 THEN CASE p.section = "volumes" -> DeclaresVolume(p, l)
                                [] p.section = "services" -> OpensService(p, l)
                                [] OTHER -> p
        ELSE IF p.section = "volumes" THEN Leave(p, "volume options", l.at)
        ELSE IF p.svc = "" THEN Fails(p)
        ELSE IF l.at = 4 THEN ServiceKey(p, l)
        ELSE IF p.sub = "" \/ l.at # 6 THEN Leave(p, "nested syntax", l.at - 2)
        ELSE Entry(p, l)

GoodPort(val) ==
    val \notin Malformed /\ ~Absolute(val) /\ (Len(val) = 2 \/ (Len(val) = 3 /\ isIpv4(Head(val))))
GoodVolume(val, declared) ==
    val \notin Malformed /\ (Absolute(val) \/ (Len(val) = 1 /\ Head(val) \in declared))

GoodService(spec, declared) ==
    /\ spec.image # <<>> /\ spec.restart \in {<<>>, <<"always">>}
    /\ \A port \in ToSet(spec.ports) : GoodPort(port)
    /\ \A bind \in ToSet(spec.volumes) : GoodVolume(bind, declared)

(* What is known after each line. *)
Parsing(file) ==
    LET f[n \in 0 .. Len(file)] == IF n = 0 THEN Unread ELSE ParseLine(f[n - 1], file[n])
    IN  f

parseCompose(file) ==
    LET p == Parsing(file)[Len(file)]
    IN  [ok |-> /\ ~p.bad /\ p.services # NoMap
                /\ \A s \in DOMAIN p.services : GoodService(p.services[s], p.volumes),
         services |-> p.services, volumes |-> p.volumes, ignored |-> p.ignored]

-----------------------------------------------------------------------------
(* Deployment *)

PROTECTED_CONTAINER_NAMES == {"qm-companion", "qm-socket-proxy"}
PROTECTED_SERVICE_NAMES == {"companion", "socket-proxy", "qm-companion", "qm-socket-proxy"}
PROTECT_LABEL == "qm.protected"
PROJECT_LABEL == "com.docker.compose.project"
SERVICE_LABEL == "com.docker.compose.service"

(* Lower case is what these are in. *)
ASSUME ReservedAssumption ==
    \A name \in PROTECTED_CONTAINER_NAMES \cup PROTECTED_SERVICE_NAMES : Lower(name) = name

isProtectedContainer(name, service, labels) ==
    \/ name \in {<<n>> : n \in PROTECTED_CONTAINER_NAMES}
    \/ service \in {<<n>> : n \in PROTECTED_SERVICE_NAMES}
    \/ PROTECT_LABEL \in DOMAIN labels /\ labels[PROTECT_LABEL] = <<"true">>

reservedProtectionClaim(service, name, labels) ==
    \/ Lower(service) \in PROTECTED_SERVICE_NAMES
    \/ name # <<>> /\ Lower(Head(name)) \in PROTECTED_CONTAINER_NAMES
    \/ PROTECT_LABEL \in DOMAIN labels

dangerousBinds(parsed, roots) ==
    {s \in DOMAIN parsed.services : \E bind \in ToSet(parsed.services[s].volumes) : dangerousHostBind(bind, roots)}

reservedProtectionClaims(parsed) ==
    {s \in DOMAIN parsed.services :
        LET spec == parsed.services[s]
        IN  reservedProtectionClaim(s, spec.container_name, spec.labels)}

(* deployStack, up to its first request: what refuses the file, if anything. *)
Verdict(file, env, roots) ==
    LET parsed == parseCompose(Substituted(file, env))
    IN  CASE ~parsed.ok -> "parse"
          [] parsed.ok /\ parsed.ignored # {} -> "unsupported"
          [] OTHER -> IF dangerousBinds(parsed, roots) # {} THEN "unsafe"
                      ELSE IF reservedProtectionClaims(parsed) # {} THEN "reserved" ELSE "ok"

(* Where a port is published that names no address. *)
deployBindAddress(explicit, host) ==
    IF isIpv4(explicit) THEN explicit
    ELSE IF explicit = "" /\ isIpv4(host) THEN host ELSE "127.0.0.1"

projectVolumeBind(project, bind, declared) ==
    IF Head(bind) \in declared THEN <<project>> \o bind ELSE bind

(* The labels of the project come last and win. *)
MutLabels(project, service, labels) ==
    LET mine == [k \in {PROJECT_LABEL, SERVICE_LABEL} |->
                    IF k = PROJECT_LABEL THEN <<project>> ELSE <<service>>]
    IN  [k \in DOMAIN labels \cup DOMAIN mine |-> IF k \in DOMAIN labels THEN labels[k] ELSE mine[k]]

Labels(project, service, labels) == Put(Put(labels, PROJECT_LABEL, <<project>>), SERVICE_LABEL, <<service>>)

buildCreateBody(project, service, spec, declared, address) ==
    [name |-> IF spec.container_name # <<>> THEN spec.container_name ELSE <<project, service>>,
     Image |-> spec.image, User |-> spec.user, Env |-> spec.environment,
     Labels |-> Labels(project, service, spec.labels),
     Binds |-> {projectVolumeBind(project, bind, declared) : bind \in ToSet(spec.volumes)},
     PortBindings |-> {IF Len(port) = 3 THEN port ELSE <<address>> \o port : port \in ToSet(spec.ports)},
     NetworkMode |-> <<project, "default">>, RestartPolicy |-> spec.restart]

-----------------------------------------------------------------------------
(* The linter: a walk of its own over the raw lines *)

ScanStart == [section |-> "", svc |-> 0, sub |-> "", services |-> <<>>, volumes |-> {}]

LiteralKey(l, env) == l.form = "key" /\ l.key \notin DOMAIN env

ScanNew(name) == [name |-> name, image |-> <<>>, restart |-> <<>>, container_name |-> <<>>,
                  ports |-> <<>>, volumes |-> <<>>, environment |-> NoMap, labels |-> NoMap]

ScanKey(q, l) ==
    CASE l.key \in {"image", "restart", "container_name"} ->
            [Sets(q, l.key, l.val) EXCEPT !.sub = ""]
      [] l.key \in LISTS \cup MAPS /\ l.val = <<>> -> [q EXCEPT !.sub = l.key]
      [] OTHER -> [q EXCEPT !.sub = ""]

MutScanEntry(q, l) ==
    CASE l.form = "item" /\ q.sub \in LISTS -> Sets(q, q.sub, <<l.val>>)
      [] l.form # "text" /\ q.sub \in MAPS -> Sets(q, q.sub, Put(Current(q), l.key, l.val))
      [] OTHER -> q

ScanEntry(q, l) ==
    CASE l.form \in {"item", "pair"} /\ q.sub \in LISTS ->
            IF Text(l) = <<>> THEN q ELSE Sets(q, q.sub, Append(Current(q), Text(l)))
      [] l.form = "item" /\ q.sub = "labels" /\ l.val # <<>> ->
            Sets(q, q.sub, Put(Current(q), Head(l.val), <<>>))
      [] l.form \in {"pair", "key"} /\ q.sub \in MAPS ->
            Sets(q, q.sub, Put(Current(q), l.key, l.val))
      [] OTHER -> q

ScanLine(env, q, l) ==
    CASE l.at = 0 -> [q EXCEPT !.section = IF LiteralKey(l, env) THEN l.key ELSE "", !.svc = 0, !.sub = ""]
      [] l.at = 2 /\ q.section = "volumes" ->
            [q EXCEPT !.volumes = IF LiteralKey(l, env) THEN @ \cup {l.key} ELSE @, !.svc = 0, !.sub = ""]
      [] l.at = 2 /\ q.section = "services" ->
            IF LiteralKey(l, env) /\ l.val = <<>>
            THEN [q EXCEPT !.services = Append(@, ScanNew(l.key)), !.svc = Len(q.services) + 1, !.sub = ""]
            ELSE [q EXCEPT !.svc = 0, !.sub = ""]
      [] q.svc # 0 /\ l.at = 4 ->
            IF LiteralKey(l, env) THEN ScanKey(q, l) ELSE [q EXCEPT !.sub = ""]
      [] q.svc # 0 /\ l.at = 6 /\ q.sub # "" -> ScanEntry(q, l)
      [] OTHER -> q

Scanning(file, env) ==
    LET f[n \in 0 .. Len(file)] == IF n = 0 THEN ScanStart ELSE ScanLine(env, f[n - 1], file[n])
    IN  f

scanCompose(file, env) == Scanning(file, env)[Len(file)]

(* The address and the port of the host that an entry takes. *)
HostPort(val) == IF Len(val) = 3 THEN <<val[1], val[2]>> ELSE <<"*", val[1]>>

BANNED == {"privileged", "cap_add", "pid", "devices"}

(* lintCompose: the rules of the findings that are errors.  live is what other
   containers have: the host ports they publish and their names.  QM012 is what
   the parser says, under whatever rule it is shown. *)
LintErrors(file, env, roots, live) ==
    LET scan     == scanCompose(file, env)
        parsed   == parseCompose(Substituted(file, env))
        Mine     == DOMAIN scan.services
        Value(v) == substituteEnv(v, env)
        Svc(s)   == scan.services[s]
        Volumes(s) == {Value(v) : v \in ToSet(Svc(s).volumes)}
        Name(s)  == Value(Svc(s).container_name)
        LabelsOf(s) ==
            [k \in {Word(x, env) : x \in DOMAIN Svc(s).labels} |->
                Value(Svc(s).labels[CHOOSE x \in DOMAIN Svc(s).labels : Word(x, env) = k])]
        Publishes(v) == Len(v) \in {2, 3} /\ ~Absolute(v)
        Taken    == UNION {{<<s, i, HostPort(Value(Svc(s).ports[i]))>> :
                        i \in {j \in DOMAIN Svc(s).ports : Publishes(Value(Svc(s).ports[j]))}} : s \in Mine}
        Missing(ref) == ref \in Secrets /\ env[ref] = <<>>
        Findings == [
            QM003 |-> \/ \E p \in Taken : p[3][2] \in live.ports
                      \/ \E p, q \in Taken : p # q /\ p[3] = q[3],
            QM004 |-> \E s \in Mine : \E v \in Volumes(s) : dangerousHostBind(v, roots),
            QM006 |-> \E l \in ToSet(file) :
                         l.form = "key" /\ (l.key \in BANNED \/ (l.key = "network_mode" /\ l.val = <<"host">>)),
            QM008 |-> \E s \in Mine : \E v \in Volumes(s) :
                         v # <<>> /\ ~Absolute(v) /\ v \notin Malformed /\ Head(v) \notin scan.volumes,
            QM009 |-> \E s \in Mine : Name(s) # <<>> /\ Name(s) \in live.names,
            QM010 |-> \E s, t \in Mine : s # t /\ Name(s) # <<>> /\ Name(s) = Name(t),
            QM011 |-> \E l \in ToSet(file) : Missing(l.key) \/ (Len(l.val) = 1 /\ Missing(Head(l.val))),
            QM012 |-> ~parsed.ok,
            QM013 |-> \/ \E s \in Mine : reservedProtectionClaim(Svc(s).name, Name(s), LabelsOf(s))
                      \/ parsed.ok /\ reservedProtectionClaims(parsed) # {}]
    IN  {rule \in DOMAIN Findings : Findings[rule]}

-----------------------------------------------------------------------------
(* Properties *)

(* What Companion deploys it can also stop, update and remove: no container
   made from an accepted file counts as one of the control plane's, whatever
   the file says of names and labels (deployStack, buildCreateBody against
   protect.js). *)
DeploysOrdinary(file, env, roots) ==
    Verdict(file, env, roots) = "ok" =>
        LET parsed == parseCompose(Substituted(file, env))
        IN  \A s \in DOMAIN parsed.services :
              LET body == buildCreateBody("media", s, parsed.services[s], parsed.volumes, "127.0.0.1")
              IN  /\ ~isProtectedContainer(body.name, body.Labels[SERVICE_LABEL], body.Labels)
                  /\ body.Labels[PROJECT_LABEL] = <<"media">>

(* References in what tells lines apart are more than the walk can follow. *)
Plain(file, env) ==
    \A l \in ToSet(file) : l.at <= 4 =>
        /\ l.key \notin DOMAIN env
        /\ l.at = 2 \/ l.key \in LISTS \cup MAPS => l.val = <<>> \/ Head(l.val) \notin DOMAIN env

AsksPrivilege(file, env) == parseCompose(Substituted(file, env)).ignored \cap BANNED # {}

(* What the editor shows of a file that deployment refuses, though the two read
   it in different ways: some error where the parser fails, and the rule of the
   refusal itself where the file claims a protected identity, binds a path that
   is not allowed, or asks for one of the privileges that rule QM006 names.  The
   last two hold of files whose keys are spelled out.  Nothing is said of the
   other fields that deployment does not support: for those the editor may show
   no error at all (LintIsComplete).  QM004 stands for QM005 too, the rule of a
   path that is a socket (lint.js, lintCompose; compose.js, deployStack). *)
LintForesees(file, env, roots, live) ==
    LET errors == LintErrors(file, env, roots, live)
    IN  CASE Verdict(file, env, roots) = "parse"    -> errors # {}
          [] Verdict(file, env, roots) = "reserved" -> "QM013" \in errors
          [] Verdict(file, env, roots) = "unsafe" /\ Plain(file, env) -> "QM004" \in errors
          [] Verdict(file, env, roots) = "unsupported" /\ Plain(file, env) /\ AsksPrivilege(file, env) ->
                "QM006" \in errors
          [] OTHER -> TRUE

(* Deploy-parser parity, in the words of lint.js:1: what is refused has an error. *)
LintIsComplete(file, env, roots, live) ==
    Verdict(file, env, roots) # "ok" => LintErrors(file, env, roots, live) # {}
=============================================================================
