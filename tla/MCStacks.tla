------------------------------ MODULE MCStacks ------------------------------
(* A stack of two services beside Companion, two handlers that are the same, and
   the compose files that a deployment may be given.  The runs take the files of
   two more lines after a few beginnings (SampleFiles). *)
EXTENDS Stacks, ComposeFile, TLC

CONSTANTS
    one, two,
    Files,      \* what a deployment may be given
    Envs,       \* the values that may come with it
    Roots,      \* the host directories that this server allows
    Live        \* the ports and names of the other containers

(* A file is a sequence of lines; ScanLine and ParseLine read no more of one. *)
ASSUME FilesAssumption ==
    \A file \in Files :
        /\ file \in Seq(ToSet(file))
        /\ \A l \in ToSet(file) : DOMAIN l = {"at", "form", "key", "val"} /\ l.at \in Nat

Symmetric == Permutations({one, two})

NotOne == {<<"=">>, <<"?">>}
Spelling == "Companion" :> "companion" @@ "QM-Companion" :> "qm-companion"
Entries == {<<"/", "srv", "..", "srv">>, <<"/", "var", "run">>, <<"/">>}
SampleRoots == parseBindRoots(Entries)
SampleLive == [ports |-> {"80"}, names |-> {<<"db">>}]
SampleEnvs == {("$V" :> v @@ "$TOKEN" :> <<>>) : v \in {<<>>, <<"qm.protected">>, <<"/", "etc", "x">>}}

L(at, form, key, val) == [at |-> at, form |-> form, key |-> key, val |-> val]
Key(at, key, val) == L(at, "key", key, val)
Item(val) == L(6, "item", "", val)

App == <<Key(0, "services", <<>>), Key(2, "app", <<>>), Key(4, "image", <<"i">>)>>
Beginnings == {
    <<Key(0, "services", <<>>)>>, App,
    <<Key(0, "volumes", <<>>), Key(2, "data", <<>>)>> \o App \o <<Key(4, "volumes", <<>>)>>,
    App \o <<Key(4, "volumes", <<>>), Item(<<"/", "srv", "a">>)>>,
    App \o <<Key(2, "b", <<>>), Key(4, "image", <<"i">>), Key(4, "volumes", <<>>)>>,
    App \o <<Key(4, "container_name", <<"a">>), Key(4, "environment", <<>>)>>,
    App \o <<Key(4, "labels", <<>>)>>, App \o <<Key(4, "ports", <<>>), Item(<<"80", "80">>)>>}

Added == {
    Key(0, "volumes", <<>>), Key(0, "networks", <<>>), Key(2, "$V", <<>>),
    Key(2, "Companion", <<>>), Key(2, "b", <<>>), Key(3, "x", <<>>),
    Key(4, "image", <<"$V", ":-", "i">>), Key(4, "container_name", <<"QM-Companion">>),
    Key(4, "container_name", <<>>), Key(4, "volumes", <<>>), Key(4, "environment", <<>>),
    Key(4, "privileged", <<"true">>), Key(4, "command", <<"x">>), Key(6, "$V", <<"true">>), Key(6, "a", <<"$TOKEN">>),
    L(6, "pair", SERVICE_LABEL, <<"companion">>), L(6, "text", "", <<>>), L(8, "item", "", <<"x">>),
    Item(<<"data">>), Item(<<"?">>), Item(<<"$V">>), Item(<<"/", "srv", "a", "..", "..", "etc", "x">>),
    Item(<<"/", "srv", "docker.sock">>), Item(<<"qm.protected">>), Item(<<"010.0.0.1", "80", "80">>),
    Item(<<"192.0.2.1", "80", "81">>)}

SampleFiles == {b \o <<x, y>> : b \in Beginnings, x \in Added, y \in Added}

AllOrdinary == \A file \in Files, env \in Envs : DeploysOrdinary(file, env, Roots)
AllForeseen == \A file \in Files, env \in Envs : LintForesees(file, env, Roots, Live)
AllComplete == \A file \in Files, env \in Envs : LintIsComplete(file, env, Roots, Live)

(* Whatever file a deployment is given: what it makes is never taken for one of
   Companion's own containers, and a refusal for the causes that LintForesees
   names was to be seen in the editor. *)
DeployingAny == \E h \in Handlers : call[h].verb \in {"deploy", "deployStopped"}
OrdinaryOnly == DeployingAny => AllOrdinary
LintSaysSo == DeployingAny => AllForeseen
FilesAreForeseen == OrdinaryOnly /\ LintSaysSo

(* The claim of lint.js:1, which the code does not keep: every file that
   deployment refuses has an error in the editor. *)
LintParity == DeployingAny => AllComplete
=============================================================================
