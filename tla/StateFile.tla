----------------------------- MODULE StateFile -----------------------------
(***************************************************************************)
(* An authenticated file that the server keeps in memory and replaces      *)
(* atomically: the owner state (src/src/store.js) and the Docker access    *)
(* mode (src/src/docker-access.js) are two of them, with the same rules.   *)
(* A write goes to a temporary file, is renamed into place, and the        *)
(* directory is then synced.  A failure before the rename changes nothing; *)
(* one of the directory sync leaves the new contents in force on disk and  *)
(* in memory, and stops every further use of the file until a restart.     *)
(***************************************************************************)
EXTENDS Naturals

(* contents on disk; older contents a power cut may bring back; the memory
   copy; and `poisoned` *)
FileOf(contents) ==
    [disk |-> contents, limbo |-> {}, cache |-> contents, poisoned |-> FALSE]

FileType(Contents) ==
    [disk : Contents, limbo : SUBSET Contents, cache : Contents, poisoned : BOOLEAN]

Confirmed(f, contents) ==
    [f EXCEPT !.disk = contents, !.limbo = {}, !.cache = contents]

Unconfirmed(f, contents) ==
    [f EXCEPT !.disk = contents, !.limbo = @ \cup {f.disk}, !.cache = contents,
              !.poisoned = TRUE]

MutWrites(f, contents) ==
    {[done |-> TRUE, faults |-> 1, file |-> Unconfirmed(f, contents)],
     [done |-> TRUE, faults |-> 0, file |-> Confirmed(f, contents)]}

(* The ways a write can end: whether the caller returns or is thrown out of,
   how many faults it took, and the file. *)
Writes(f, contents) ==
    {[done |-> FALSE, faults |-> 1, file |-> f],
     [done |-> FALSE, faults |-> 1, file |-> Unconfirmed(f, contents)],
     [done |-> TRUE,  faults |-> 0, file |-> Confirmed(f, contents)]}

Commits(f, contents) ==
    IF f.poisoned THEN {[done |-> FALSE, faults |-> 0, file |-> f]}
                  ELSE Writes(f, contents)

(* No write was needed. *)
Untouched(f) == {[done |-> TRUE, faults |-> 0, file |-> f]}

(* What a new process finds, after the old one ended or the power was cut. *)
Reloaded(f, contents) == [f EXCEPT !.disk = contents, !.cache = contents, !.poisoned = FALSE]
AfterCut(f) == {[Reloaded(f, c) EXCEPT !.limbo = {}] : c \in f.limbo \cup {f.disk}}
=============================================================================
