---------------------------- MODULE MCOwnerAuth ----------------------------
(* OwnerAuth, the routes of the panel, the sections of the state, and the   *)
(* check for newer images, for TLC.                                         *)
EXTENDS Panel, Sections, Updates, ImageRefs, TLC

(* The check for images shares no state with the sign-in, so it is looked at
   beside one first state of the sign-in only, and the other way round. *)
MCInit == Init /\ UpdatesInit

MCSpec ==
    /\ MCInit
    /\ [][\/ UpdatesInit /\ images = [ref \in Refs |-> {}] /\ Next /\ UNCHANGED UpdatesVars
          \/ Init /\ file = FileOf(Missing) /\ UpdatesNext /\ UNCHANGED vars]_<<vars, UpdatesVars>>

(* The number of updates and the dismissals are written and never read by a
   step, so states that differ in nothing else count as one. *)
Asks == <<vars, time, registry, left, images, cache, checks>>

Symmetric == Permutations(Refs)

(* While the state answers, whatever calls came before: what a writer offers is
   accepted by the validation that stands before the save, and a list that is
   cut to its cap never drops what was just saved, nor a newer row rather than
   an older one.  Two things are out of it.  The lists of tokens, jobs and
   services are not cut: one more than the cap is refused, and the list stays.
   And a text is of one control character at most; for more see below. *)
SavesAreKept == Usable => WritersKeepTheirWord

(* "Store capped audit lines with server timestamps and stripped control
   characters" (store.js:965): a line with several is stripped of them, and
   saved.  It is not: addAudit strips one. *)
LinesAreStripped == Usable => AnyLineIsSaved

(* Whatever a container's reference looks like, the digest that is compared
   is the digest of what a pull of it would fetch. *)
ChecksWhatPullFetches == time \in Nat => ReadAlike
=============================================================================
