---------------------------- MODULE MCEnrolment ----------------------------
(* The two ways a phone is paired, for TLC: by an enrolment of the mobile    *)
(* plane, and by a key bundle of the panel's pairing page.                   *)
EXTENDS Enrolment, Pairing, TLC

(* They share no state: one is looked at beside the first state of the other. *)
MCInit == Init /\ PairingInit

MCSpec ==
    /\ MCInit
    /\ [][\/ Next /\ PairingInit /\ UNCHANGED pairingVars
          \/ PairingNext /\ Init /\ UNCHANGED vars]_<<vars, pairingVars>>

(* Enrolments and phones, browsers and requests are interchangeable.  A state
   uses only the first two or only the others, so one exchange serves both. *)
Exchanges(f) == \E x \in DOMAIN f : f[x] # x
Together(A, B) ==
    {p[1] @@ p[2] : p \in {q \in Permutations(A) \X Permutations(B) : Exchanges(q[1]) <=> Exchanges(q[2])}}
Symmetric == Together(DeviceIds, Browsers) \cup Together(Phones, Requests)
=============================================================================
