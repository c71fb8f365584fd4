------------------------------ MODULE Sections ------------------------------
(***************************************************************************)
(* The sections of the owner's state (src/src/store.js): what each writer  *)
(* puts in, and what the validation that runs before every save and after  *)
(* every load accepts.  A writer that goes beyond what the validation of   *)
(* its section accepts throws, and its caller's change is lost.            *)
(*                                                                         *)
(* A row is what tells it from others, what its validation looks at, and   *)
(* the time it was written; a text is the control characters in it, of     *)
(* those that are white space and of the others, and there is more in it   *)
(* than those.  Each writer works on its own section only, so the sections *)
(* are looked at one by one, after every row of Depth calls, the clock     *)
(* going on between two calls.  Lengths of texts and of the file are not   *)
(* looked at, nor the fields of a service: saveService has no caller.      *)
(***************************************************************************)
EXTENDS Naturals, Sequences, FiniteSets, SequencesExt

CONSTANTS Keys, Depth,
    MAX_API_TOKENS, MAX_DISMISSED_UPDATES, MAX_TEMPLATE_SOURCES,
    MAX_MANAGED_STACKS, MAX_MINTED_KEYS, MAX_AUDIT, MAX_CRON_JOBS, MAX_SERVICES,
    MaxRefs     \* the references of one request to dismiss (handleUpdateDismiss)

ASSUME SectionsAssumption ==
    /\ Depth \in Nat
    /\ \A cap \in {MAX_API_TOKENS, MAX_DISMISSED_UPDATES, MAX_TEMPLATE_SOURCES,
                   MAX_MANAGED_STACKS, MAX_MINTED_KEYS, MAX_AUDIT, MAX_CRON_JOBS,
                   MAX_SERVICES} : cap \in Nat \ {0}
    /\ MaxRefs \in 1 .. MAX_DISMISSED_UPDATES

Texts == UNION {[1 .. n -> {"space", "other"}] : n \in 0 .. 2}
PlainTexts == {text \in Texts : Len(text) <= 1}
Distinct(rows, Key(_)) == \A i, j \in DOMAIN rows : Key(rows[i]) = Key(rows[j]) => i = j
IdOf(row) == row.id
FirstOf(rows, n) == SubSeq(rows, 1, IF n < Len(rows) THEN n ELSE Len(rows))
LastOf(rows, n) == SubSeq(rows, IF n < Len(rows) THEN Len(rows) - n + 1 ELSE 1, Len(rows))

-----------------------------------------------------------------------------
(* What the validation accepts *)

normaliseApiTokens(rows) == Len(rows) <= MAX_API_TOKENS /\ Distinct(rows, IdOf)

normaliseUpdates(rows) ==
    /\ Len(rows) <= MAX_DISMISSED_UPDATES /\ Distinct(rows, IdOf)
    /\ \A i \in DOMAIN rows : rows[i].digest = "good"

normaliseTemplatesSection(rows) ==
    /\ Len(rows) <= MAX_TEMPLATE_SOURCES /\ Distinct(rows, IdOf)
    /\ Distinct(rows, LAMBDA row : row.url)
    /\ \A i \in DOMAIN rows : rows[i].url # "bad" /\ rows[i].name # "empty"

managedRows(rows) == Len(rows) <= MAX_MANAGED_STACKS /\ Distinct(rows, IdOf)

normaliseMintedKeys(rows) ==
    /\ Len(rows) <= MAX_MINTED_KEYS /\ Distinct(rows, IdOf)
    /\ \A i \in DOMAIN rows : rows[i].clean

normaliseAudit(rows) ==
    /\ Len(rows) <= MAX_AUDIT
    /\ \A i \in DOMAIN rows : rows[i].clean

normaliseCron(rows) == Len(rows) <= MAX_CRON_JOBS
normaliseServices(rows) == Len(rows) <= MAX_SERVICES /\ Distinct(rows, IdOf)

-----------------------------------------------------------------------------
(* The writers: what a call offers to the validation, given the rows and the
   time; a call that is turned away before that leaves them alone. *)

(* A text without the first of its control characters. *)
Stripped(text) == IF text = <<>> THEN <<>> ELSE Tail(text)
Has(text, kinds) == \E i \in DOMAIN text : text[i] \in kinds

(* The rows that are in S, in their order. *)
Only(rows, S) ==
    LET f[n \in 0 .. Len(rows)] ==
          IF n = 0 THEN <<>> ELSE IF rows[n] \in S THEN Append(f[n - 1], rows[n]) ELSE f[n - 1]
    IN  f[Len(rows)]
Without(rows, id) == Only(rows, {row \in ToSet(rows) : row.id # id})

addApiToken(rows, id, now) == Append(rows, [id |-> id, at |-> now])
removeApiToken(rows, id) == Without(rows, id)
findApiToken(rows, id, now) ==
    [i \in DOMAIN rows |-> IF rows[i].id = id THEN [rows[i] EXCEPT !.at = now] ELSE rows[i]]

(* Map.set keeps the place of a reference that is there already. *)
Put(rows, row) ==
    IF \E i \in DOMAIN rows : rows[i].id = row.id
    THEN [i \in DOMAIN rows |-> IF rows[i].id = row.id THEN row ELSE rows[i]]
    ELSE Append(rows, row)

PutAll(rows, more) ==
    LET f[n \in 0 .. Len(more)] == IF n = 0 THEN rows ELSE Put(f[n - 1], more[n])
    IN  f[Len(more)]

(* A stable sort, the newest first. *)
NewestFirst(rows, now) ==
    LET f[n \in 0 .. now + 1] ==
          IF n = 0 THEN <<>>
          ELSE f[n - 1] \o Only(rows, {row \in ToSet(rows) : row.at + n = now + 1})
    IN  f[now + 1]

Dismissed(asked, now) ==
    LET all == [i \in DOMAIN asked |-> [id |-> asked[i].id, digest |-> asked[i].digest, at |-> now]]
    IN  Only(all, {row \in ToSet(all) : row.digest = "good"})

MutAddDismissed(rows, asked, now) ==
    FirstOf(PutAll(rows, Dismissed(asked, now)), MAX_DISMISSED_UPDATES)

addDismissedUpdates(rows, asked, now) ==
    FirstOf(NewestFirst(PutAll(rows, Dismissed(asked, now)), now), MAX_DISMISSED_UPDATES)

addTemplateSource(rows, source, now) ==
    IF \/ source.name = "empty" \/ source.url = "bad" \/ Len(rows) >= MAX_TEMPLATE_SOURCES
       \/ \E i \in DOMAIN rows : rows[i].url = source.url
    THEN rows
    ELSE Append(rows, [id |-> now, name |-> source.name, url |-> source.url, at |-> now])
removeTemplateSource(rows, id) == Without(rows, id)

saveManagedStack(rows, name, now) ==
    LastOf(Append(Without(rows, name), [id |-> name, at |-> now]), MAX_MANAGED_STACKS)

(* The oldest goes when there are too many. *)
setMintedKey(rows, id, by, now) ==
    LET row == [id |-> id, clean |-> ~Has(Stripped(by), {"space", "other"}), at |-> now]
        all == Put(rows, row)
    IN  IF Len(all) <= MAX_MINTED_KEYS THEN all
        ELSE FirstOf(NewestFirst(all, now), MAX_MINTED_KEYS)
forgetMintedKey(rows, id) == Without(rows, id)

(* White space of any kind becomes a space. *)
addAudit(rows, line, now) ==
    LET row == [id |-> now, at |-> now, clean |-> ~Has(Stripped(line), {"other"})]
    IN  FirstOf(<<row>> \o rows, MAX_AUDIT)

addJob(rows, now) == Append(rows, [id |-> now, at |-> now])
deleteJob(rows, id) == Without(rows, id)

saveService(rows, id, now) == Put(rows, [id |-> id, at |-> now])

-----------------------------------------------------------------------------
(* The calls of each section, and the rows they can lead to. *)

Names == {"apiTokens", "updates", "templates", "stacks", "mintedKeys", "auditLog", "cron", "services"}

Accepts(name, rows) ==
    CASE name = "apiTokens" -> normaliseApiTokens(rows)
      [] name = "updates" -> normaliseUpdates(rows)
      [] name = "templates" -> normaliseTemplatesSection(rows)
      [] name = "stacks" -> managedRows(rows)
      [] name = "mintedKeys" -> normaliseMintedKeys(rows)
      [] name = "auditLog" -> normaliseAudit(rows)
      [] name = "cron" -> normaliseCron(rows)
      [] name = "services" -> normaliseServices(rows)

Dismissals == [id : Keys, digest : {"good", "bad"}]
AskedFor == UNION {[1 .. n -> Dismissals] : n \in 1 .. MaxRefs}
Sources == [name : {"name", "empty"}, url : Keys \cup {"bad"}]

(* A new token has an id of its own: eight random bytes. *)
NewIds(rows) == {k \in Keys : \A i \in DOMAIN rows : rows[i].id # k}

Offers(name, rows, now, texts) ==
    CASE name = "apiTokens" -> {addApiToken(rows, k, now) : k \in NewIds(rows)}
                               \cup {removeApiToken(rows, k) : k \in Keys}
                               \cup {findApiToken(rows, k, now) : k \in Keys}
      [] name = "updates" -> {addDismissedUpdates(rows, asked, now) : asked \in AskedFor}
      [] name = "templates" -> {addTemplateSource(rows, s, now) : s \in Sources}
                               \cup {removeTemplateSource(rows, id) : id \in 1 .. now}
      [] name = "stacks" -> {saveManagedStack(rows, k, now) : k \in Keys}
      [] name = "mintedKeys" -> {setMintedKey(rows, k, by, now) : k \in Keys, by \in texts}
                                \cup {forgetMintedKey(rows, k) : k \in Keys}
      [] name = "auditLog" -> {addAudit(rows, line, now) : line \in texts}
      [] name = "cron" -> {addJob(rows, now)} \cup {deleteJob(rows, id) : id \in 1 .. now}
      [] name = "services" -> {saveService(rows, k, now) : k \in Keys}

commit(name, rows, next) == IF Accepts(name, next) THEN next ELSE rows

(* Every start saves the built-in jobs; one stands for them, with id 0. *)
FirstRows(name) == IF name = "cron" THEN <<[id |-> 0, at |-> 0]>> ELSE <<>>

(* The rows that so many calls lead to. *)
Reached == [name \in Names |-> [n \in 0 .. Depth |->
    LET Reach[i \in 0 .. n] ==
          IF i = 0 THEN {FirstRows(name)}
          ELSE UNION {{commit(name, rows, next) : next \in Offers(name, rows, i, Texts)} :
                      rows \in Reach[i - 1]}
    IN  Reach[n]]]

-----------------------------------------------------------------------------
(* Properties *)

(* A save of these ids: each is there, and only rows older than all that were
   kept made room for them. *)
Saves(rows, saved, ids, now) ==
    LET Kept == {saved[i] : i \in DOMAIN saved}
        Gone == {rows[i] : i \in {j \in DOMAIN rows : \A k \in Kept : k.id # rows[j].id}}
    IN  /\ \A id \in ids : \E k \in Kept : k.id = id /\ k.at = now
        /\ \A gone \in Gone, k \in Kept : gone.at <= k.at

Good(asked) == {asked[i].id : i \in {j \in DOMAIN asked : asked[j].digest = "good"}}

(* Only the writers of these leave it to the validation that a list is full. *)
Cap == [apiTokens |-> MAX_API_TOKENS, cron |-> MAX_CRON_JOBS, services |-> MAX_SERVICES]
IsFull(name, rows, next) ==
    name \in DOMAIN Cap /\ Len(rows) = Cap[name] /\ Len(next) > Len(rows)

WritersKeepTheirWord == \A n \in 1 .. Depth :
    /\ \A name \in Names : \A rows \in Reached[name][n - 1] :
          \A next \in Offers(name, rows, n, PlainTexts) : Accepts(name, next) \/ IsFull(name, rows, next)
    /\ \A rows \in Reached["updates"][n - 1], asked \in AskedFor :
          Saves(rows, addDismissedUpdates(rows, asked, n), Good(asked), n)
    /\ \A rows \in Reached["stacks"][n - 1], k \in Keys :
          Saves(rows, saveManagedStack(rows, k, n), {k}, n)
    /\ \A rows \in Reached["mintedKeys"][n - 1], k \in Keys, by \in PlainTexts :
          Saves(rows, setMintedKey(rows, k, by, n), {k}, n)
    /\ \A rows \in Reached["auditLog"][n - 1], line \in PlainTexts :
          Saves(rows, addAudit(rows, line, n), {n}, n)

(* Whatever its control characters: a line is saved. *)
AnyLineIsSaved == \A line \in Texts : Accepts("auditLog", addAudit(<<>>, line, 1))
=============================================================================
