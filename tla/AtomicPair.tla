----------------------------- MODULE AtomicPair -----------------------------
(***************************************************************************)
(* What docs/tls-and-certificates.md promises of the listener's            *)
(* certificate and key: there is one pair at a time, and it is replaced as *)
(* a whole by a newer one.  A replacement that was not yet made durable    *)
(* may be undone by a power cut, as a whole; nothing else brings an older  *)
(* pair back.                                                              *)
(***************************************************************************)
EXTENDS Naturals

VARIABLES
    pair,       \* the number of the pair in force, 0 when there is none
    possible    \* what a power cut could leave in force

avars == <<pair, possible>>

Init == pair = 0 /\ possible = {0}

Replace  == pair' > pair /\ possible' \in {possible \cup {pair'}, {pair'}}
Confirm  == pair' = pair /\ possible' = {pair}
PowerCut == pair' \in possible /\ possible' = {pair'}

Spec == Init /\ [][Replace \/ Confirm \/ PowerCut]_avars
=============================================================================
