----------------------- MODULE ContainerUpdateProofs -----------------------
(***************************************************************************)
(* No interleaving of updates and failures removes the last container, for *)
(* any number of overlapping updates, images and faults.                   *)
(*                                                                         *)
(* That a container is left is not inductive: a handler at "remove" takes  *)
(* away what it looked at first, and one at "discard" what it made, without*)
(* looking again.  The argument is about containers that are not pending,  *)
(* that is, whose maker will not take them back.  A handler reaches        *)
(* "remove" only when what it made is there and no longer pending.  That   *)
(* one may be replaced by another update, but only once its own, newer     *)
(* container is no longer pending; so for each handler at "remove" there   *)
(* is always one at least as new as its own, and newer than the one that   *)
(* it removes.                                                             *)
(*                                                                         *)
(* The operations of the panel around the updates come after, and the      *)
(* compose file that one of them is given comes last.                      *)
(***************************************************************************)
EXTENDS MCStacks, SequenceTheorems, WellFoundedInduction, TLAPS

(* The steps at which a handler knows the container it created. *)
Holding == {"start", "discard", "remove"}

Pending(c) == \E h \in Handlers : id[h] = c /\ pc[h] \in {"start", "discard"}

Kept == {c \in Existing : ~Pending(c)}

Typed ==
    /\ TypeOK
    /\ old \in [Handlers -> [id : 0..Len(box), box : AnyBox]]
    /\ id \in [Handlers -> 0..Len(box)]
    /\ \A h \in Handlers : pc[h] # "idle" => old[h].id # NoId

NewerThanOld == \A h \in Handlers : pc[h] \in Holding => id[h] > old[h].id

OwnId == \A g, h \in Handlers :
    pc[g] \in Holding /\ pc[h] \in Holding /\ id[g] = id[h] => g = h

Successor == \A h \in Handlers : pc[h] = "remove" => \E c \in Kept : c >= id[h]

Survivor == Kept # {}

IInv == Typed /\ NewerThanOld /\ OwnId /\ Successor /\ Survivor

-----------------------------------------------------------------------------
LEMMA OneBox == ASSUME NEW S, NEW b \in S PROVE <<b>> \in Seq(S)
OBVIOUS

LEMMA InitIInv == Init => IInv
<1> SUFFICES ASSUME Init PROVE IInv
  OBVIOUS
<1> USE BoundsAssumption DEF Init, NoId
<1>1. Len(box) = 1 /\ box[1] = Box(0, 1, TRUE) /\ DOMAIN box = {1}
  OBVIOUS
<1>2. Box(0, 1, TRUE) \in AnyBox /\ Removed \in AnyBox
  BY DEF Box, Removed, AnyBox
<1>3. TypeOK
  <2>1. box \in Seq(AnyBox)
    <3>1. box = <<Box(0, 1, TRUE)>>
      OBVIOUS
    <3>2. <<Box(0, 1, TRUE)>> \in Seq(AnyBox)
      BY <1>2, OneBox
    <3> QED
      BY ONLY <3>1, <3>2
  <2>2. alone \in [Handlers -> BOOLEAN] /\ pc \in [Handlers -> Steps]
        /\ outcome \in [Handlers -> Outcomes]
    BY DEF Steps, Outcomes
  <2>3. \A h \in Handlers : /\ old[h].id \in 0..Len(box) /\ old[h].box \in AnyBox
                            /\ id[h] \in 0..Len(box) /\ pc[h] = "idle"
    <3>1. Nothing.id = 0 /\ Nothing.box = Removed
      BY DEF Nothing
    <3>2. \A h \in Handlers : old[h] = Nothing /\ id[h] = 0 /\ pc[h] = "idle"
      OBVIOUS
    <3>3. 0 \in 0..Len(box)
      BY <1>1
    <3> QED
      BY ONLY <1>2, <3>1, <3>2, <3>3
  <2>4. pushed \in 1..MaxImage /\ tag \in 1..pushed /\ faults \in 0..MaxFaults
    OBVIOUS
  <2> QED
    BY <2>1, <2>2, <2>3, <2>4 DEF TypeOK
<1>4. Typed
  BY <1>1, <1>2, <1>3 DEF Typed, Nothing
<1>5. 1 \in Kept
  BY <1>1 DEF Kept, Existing, Box, Pending
<1> QED
  BY <1>4, <1>5 DEF IInv, NewerThanOld, OwnId, Successor, Survivor, Holding

-----------------------------------------------------------------------------
(* Requests *)

LEMMA BoxFields ==
    ASSUME NEW b \in AnyBox, pushed \in Nat
    PROVE  /\ Removed \in AnyBox
           /\ \A up \in BOOLEAN : [b EXCEPT !.running = up] \in AnyBox
           /\ \A name \in Nat : [b EXCEPT !.name = name] \in AnyBox
BY DEF AnyBox, Removed

(* What a request does to the list of containers. *)
LEMMA RequestEffect ==
    ASSUME faults \in 0..MaxFaults, NEW able \in BOOLEAN, NEW after, NEW ok \in BOOLEAN,
           Request(able, after, ok)
    PROVE  /\ faults' \in 0..MaxFaults
           /\ box' = box \/ (able /\ box' = after)
           /\ ok => able /\ box' = after
BY BoundsAssumption DEF Request

Same(c, b) == box' = box \/ box' = [box EXCEPT ![c] = b]

LEMMA ExceptEffect ==
    ASSUME box \in Seq(AnyBox), NEW c \in DOMAIN box, NEW b \in AnyBox, Same(c, b)
    PROVE  /\ box' \in Seq(AnyBox) /\ Len(box') = Len(box) /\ DOMAIN box' = DOMAIN box
           /\ \A x \in DOMAIN box : x # c => box'[x] = box[x]
           /\ box'[c] \in {box[c], b}
<1>1. CASE box' = box
  BY <1>1
<1>2. CASE box' = [box EXCEPT ![c] = b]
  <2>1. c \in 1..Len(box)
    OBVIOUS
  <2> QED
    BY <1>2, <2>1, ExceptSeq
<1> QED
  BY <1>1, <1>2 DEF Same

(* Starting, stopping and renaming neither add nor remove a container. *)
LEMMA ChangeKeeps ==
    ASSUME Typed, NEW c \in DOMAIN box, NEW ok \in BOOLEAN,
           \/ \E up \in BOOLEAN : SetRunning(c, up, ok)
           \/ \E name \in Nat : Rename(c, name, ok)
    PROVE  /\ box' \in Seq(AnyBox) /\ Len(box') = Len(box) /\ faults' \in 0..MaxFaults
           /\ Existing' = Existing
           /\ ok => c \in Existing
<1>0. box \in Seq(AnyBox) /\ faults \in 0..MaxFaults /\ pushed \in Nat /\ box[c] \in AnyBox
  BY BoundsAssumption DEF Typed, TypeOK
<1>1. ASSUME NEW up \in BOOLEAN, SetRunning(c, up, ok)
      PROVE  /\ faults' \in 0..MaxFaults /\ (ok => box[c].exists)
             /\ Same(c, [box[c] EXCEPT !.running = up])
  <2>1. [box EXCEPT ![c].running = up] = [box EXCEPT ![c] = [box[c] EXCEPT !.running = up]]
    OBVIOUS
  <2>2. box[c].exists \in BOOLEAN
    BY <1>0 DEF AnyBox
  <2> QED
    BY <1>0, <1>1, <2>1, <2>2, RequestEffect DEF SetRunning, Same
<1>2. ASSUME NEW name \in Nat, Rename(c, name, ok)
      PROVE  /\ faults' \in 0..MaxFaults /\ (ok => box[c].exists)
             /\ Same(c, [box[c] EXCEPT !.name = name])
  <2>1. [box EXCEPT ![c].name = name] = [box EXCEPT ![c] = [box[c] EXCEPT !.name = name]]
    OBVIOUS
  <2>2. (box[c].exists /\ ~Taken(name)) \in BOOLEAN
    OBVIOUS
  <2> QED
    BY <1>0, <1>2, <2>1, <2>2, RequestEffect DEF Rename, Same
<1>3. PICK b \in AnyBox : /\ faults' \in 0..MaxFaults /\ (ok => box[c].exists)
                          /\ Same(c, b) /\ b.exists = box[c].exists
  <2>1. \A up \in BOOLEAN : [box[c] EXCEPT !.running = up].exists = box[c].exists
    BY <1>0 DEF AnyBox
  <2>2. \A name \in Nat : [box[c] EXCEPT !.name = name].exists = box[c].exists
    BY <1>0 DEF AnyBox
  <2> QED
    BY <1>0, <1>1, <1>2, <2>1, <2>2, BoxFields
<1>4. /\ box' \in Seq(AnyBox) /\ Len(box') = Len(box) /\ DOMAIN box' = DOMAIN box
      /\ \A x \in DOMAIN box : x # c => box'[x] = box[x]
      /\ box'[c] \in {box[c], b}
  BY <1>0, <1>3, ExceptEffect
<1> QED
  BY <1>3, <1>4 DEF Existing

LEMMA RemoveTakesOne ==
    ASSUME Typed, NEW c \in DOMAIN box, NEW ok \in BOOLEAN, RemoveForced(c, ok)
    PROVE  /\ box' \in Seq(AnyBox) /\ Len(box') = Len(box) /\ faults' \in 0..MaxFaults
           /\ Existing \ {c} \subseteq Existing'
<1>0. box \in Seq(AnyBox) /\ faults \in 0..MaxFaults /\ pushed \in Nat /\ box[c] \in AnyBox
  BY BoundsAssumption DEF Typed, TypeOK
<1>1. box[c].exists \in BOOLEAN
  BY <1>0 DEF AnyBox
<1>2. faults' \in 0..MaxFaults /\ Same(c, Removed)
  BY <1>0, <1>1, RequestEffect DEF RemoveForced, Same
<1>3. /\ box' \in Seq(AnyBox) /\ Len(box') = Len(box) /\ DOMAIN box' = DOMAIN box
      /\ \A x \in DOMAIN box : x # c => box'[x] = box[x]
  BY <1>0, <1>2, BoxFields, ExceptEffect
<1> QED
  BY <1>2, <1>3 DEF Existing

-----------------------------------------------------------------------------
(* Handlers *)

Others(h) == \A g \in Handlers \ {h} : pc'[g] = pc[g] /\ id'[g] = id[g] /\ old'[g] = old[g]

(* The container that a handler's step may remove. *)
Target(h) == IF pc[h] = "remove" THEN {old[h].id}
             ELSE IF pc[h] = "discard" THEN {id[h]} ELSE {}

(* Any step of a handler that does not create a container: it lets go of the
   one it made, or goes on with it, to "remove" only if it is there. *)
LEMMA ProgressStep ==
    ASSUME IInv, NEW h \in Handlers, Others(h), Existing \ Target(h) \subseteq Existing',
           pc'[h] \in Holding =>
               /\ pc[h] = "start" /\ id'[h] = id[h] /\ old'[h] = old[h]
               /\ pc'[h] = "remove" => id[h] \in Existing'
    PROVE  (NewerThanOld /\ OwnId /\ Successor /\ Survivor)'
<1> USE DEF Holding
<1>1. \A g \in Handlers : pc'[g] \in Holding => /\ id'[g] = id[g] /\ old'[g] = old[g]
                                                /\ pc[g] \in Holding
  BY DEF Others
<1>2. (NewerThanOld /\ OwnId)'
  BY <1>1 DEF IInv, NewerThanOld, OwnId
<1>3. \A c : Pending(c)' => Pending(c)
  BY DEF Others, Pending
<1>4. Kept \ Target(h) \subseteq Kept'
  BY <1>3 DEF Kept
<1>5. \A c \in Kept : \E d \in Kept' : d \in Nat /\ d >= c
  <2> SUFFICES ASSUME NEW c \in Kept PROVE \E d \in Kept' : d \in Nat /\ d >= c
    OBVIOUS
  <2>1. \A x \in Existing : x \in Nat
    BY DEF Existing, IInv, Typed, TypeOK
  <2>2. c \in Existing /\ c \in Nat /\ c >= c
    BY <2>1 DEF Kept
  <2>3. CASE c \notin Target(h)
    BY <1>4, <2>2, <2>3
  <2>4. CASE c \in Target(h)
    <3>1. pc[h] = "remove" /\ c = old[h].id
      BY <2>4 DEF Target, Kept, Pending
    <3>2. PICK d \in Kept : d >= id[h]
      BY <3>1 DEF IInv, Successor
    <3>3. id[h] > c /\ id[h] \in Nat /\ d \in Nat /\ c \in Nat
      BY <2>1, <2>2, <3>1 DEF IInv, NewerThanOld, Kept, Typed
    <3>4. d \notin Target(h) /\ d \in Nat /\ d >= c
      BY <3>1, <3>2, <3>3 DEF Target
    <3> QED
      BY <1>4, <3>4
  <2> QED
    BY <2>3, <2>4
<1>6. Survivor'
  BY <1>5 DEF IInv, Survivor
<1>7. Successor'
  <2> SUFFICES ASSUME NEW g \in Handlers, pc'[g] = "remove" PROVE \E c \in Kept' : c >= id'[g]
    BY DEF Successor
  <2>0. id[g] \in Nat /\ id'[g] = id[g] /\ Kept \subseteq Nat
    BY <1>1 DEF IInv, Typed, TypeOK, Kept, Existing
  <2>1. CASE pc[g] = "remove"
    <3>1. PICK c \in Kept : c >= id[g]
      BY <2>1 DEF IInv, Successor
    <3>2. PICK d \in Kept' : d \in Nat /\ d >= c
      BY <1>5
    <3> QED
      BY <2>0, <3>1, <3>2
  <2>2. CASE pc[g] # "remove"
    <3>1. g = h /\ pc[h] = "start" /\ id[h] \in Existing'
      BY <2>2 DEF Others
    <3>2. ~Pending(id[h])'
      <4> SUFFICES ASSUME NEW f \in Handlers, id'[f] = id'[h], pc'[f] \in {"start", "discard"}
                   PROVE  FALSE
        BY DEF Pending
      <4>1. id[f] = id[h] /\ pc[f] \in Holding
        BY <1>1, <2>0, <3>1
      <4>2. f = g
        BY <3>1, <4>1 DEF IInv, OwnId
      <4> QED
        BY <4>2
    <3> QED
      BY <2>0, <3>1, <3>2 DEF Kept
  <2> QED
    BY <2>1, <2>2
<1> QED
  BY <1>2, <1>6, <1>7

(* What every step of handler h but Create and Inspect leaves of the state
   that the handlers share. *)
Shared(h) ==
    /\ box' \in Seq(AnyBox) /\ Len(box') >= Len(box) /\ faults' \in 0..MaxFaults
    /\ pushed' = pushed /\ tag' \in 1..pushed
    /\ Existing \ Target(h) \subseteq Existing'

LEMMA GotoStep ==
    ASSUME IInv, NEW h \in Handlers, pc[h] # "idle", Shared(h),
           NEW step \in Steps \ {"idle"}, Goto(h, step),
           step \in Holding => pc[h] = "start" /\ (step = "remove" => id[h] \in Existing')
    PROVE  IInv'
<1>0. Typed
  BY DEF IInv
<1>1. /\ pc' = [pc EXCEPT ![h] = step] /\ UNCHANGED <<old, id, outcome, alone>>
      /\ pc \in [Handlers -> Steps]
  BY <1>0 DEF Goto, Typed, TypeOK
<1>2. AnyBox' = AnyBox
  BY DEF Shared, AnyBox
<1>3. Typed'
  <2>1. pc' \in [Handlers -> Steps]
    BY <1>1
  <2>2. \A g \in Handlers : pc'[g] \in Holding => pc[g] \in Holding
    BY <1>1 DEF Holding
  <2>3. \A g \in Handlers : pc'[g] # "idle" => pc[g] # "idle"
    BY <1>1
  <2> QED
    BY <1>0, <1>1, <1>2, <2>1, <2>2, <2>3 DEF Typed, TypeOK, Shared, Holding
<1>4. Others(h) /\ pc'[h] = step /\ id'[h] = id[h] /\ old'[h] = old[h]
  BY <1>1 DEF Others
<1>5. (NewerThanOld /\ OwnId /\ Successor /\ Survivor)'
  BY <1>4, ProgressStep DEF Shared
<1> QED
  BY <1>3, <1>5 DEF IInv

LEMMA ReportStep ==
    ASSUME IInv, NEW h \in Handlers, Shared(h), NEW what \in Outcomes, Report(h, what)
    PROVE  IInv'
<1>0. Typed
  BY DEF IInv
<1>1. /\ pc' = [pc EXCEPT ![h] = "idle"] /\ outcome' = [outcome EXCEPT ![h] = what]
      /\ old' = [old EXCEPT ![h] = Nothing] /\ id' = [id EXCEPT ![h] = NoId]
      /\ alone' = [alone EXCEPT ![h] = TRUE]
  BY DEF Report
<1>2. AnyBox' = AnyBox /\ pushed \in Nat
  BY <1>0, BoundsAssumption DEF Shared, AnyBox, Typed, TypeOK
<1>3. Nothing \in [id : 0..Len(box), box : AnyBox] /\ NoId \in 0..Len(box)
  <2>1. Removed \in AnyBox /\ Len(box) \in Nat
    BY <1>0, <1>2 DEF AnyBox, Removed, Typed, TypeOK
  <2> QED
    BY <2>1 DEF Nothing, NoId
<1>4. Typed'
  <2>1. pc' \in [Handlers -> Steps] /\ outcome' \in [Handlers -> Outcomes]
    BY <1>0, <1>1 DEF Typed, TypeOK, Steps
  <2>2. alone' \in [Handlers -> BOOLEAN]
    BY <1>0, <1>1 DEF Typed, TypeOK
  <2>3. /\ old' \in [Handlers -> [id : 0..Len(box), box : AnyBox]]
        /\ id' \in [Handlers -> 0..Len(box)]
    BY <1>0, <1>1, <1>3 DEF Typed
  <2>4. \A g \in Handlers : pc'[g] # "idle" => pc'[g] = pc[g] /\ id'[g] = id[g] /\ old'[g] = old[g]
    BY <1>0, <1>1 DEF Typed, TypeOK
  <2>5. \A g \in Handlers : /\ old'[g].id \in 0..Len(box) /\ old'[g].box \in AnyBox
                            /\ id'[g] \in 0..Len(box)
    BY <2>3
  <2>6. Len(box) \in Nat /\ Len(box') \in Nat /\ 0..Len(box) \subseteq 0..Len(box')
    BY <1>0 DEF Shared, Typed, TypeOK
  <2>7. /\ old' \in [Handlers -> [id : 0..Len(box'), box : AnyBox]]
        /\ id' \in [Handlers -> 0..Len(box')]
    BY <2>3, <2>6
  <2> QED
    BY <1>0, <1>2, <2>1, <2>2, <2>4, <2>5, <2>6, <2>7 DEF Typed, TypeOK, Shared
<1>5. Others(h) /\ pc'[h] = "idle"
  BY <1>0, <1>1 DEF Others, Typed, TypeOK
<1>6. (NewerThanOld /\ OwnId /\ Successor /\ Survivor)'
  BY <1>5, ProgressStep DEF Shared, Holding
<1> QED
  BY <1>4, <1>6 DEF IInv

-----------------------------------------------------------------------------
(* The actions *)

(* Steps that start, stop or rename the container c, or only ask. *)
LEMMA SharedByChange ==
    ASSUME IInv, NEW h \in Handlers, NEW c \in DOMAIN box, NEW ok \in BOOLEAN,
           \/ \E up \in BOOLEAN : SetRunning(c, up, ok)
           \/ \E name \in Nat : Rename(c, name, ok),
           UNCHANGED <<pushed, tag>>
    PROVE  Shared(h) /\ Existing' = Existing /\ (ok => c \in Existing)
BY ChangeKeeps DEF IInv, Typed, TypeOK, Shared

LEMMA SharedByAsking ==
    ASSUME IInv, NEW h \in Handlers, NEW able \in BOOLEAN, NEW ok \in BOOLEAN, Request(able, box, ok),
           pushed' = pushed, tag' \in 1..pushed
    PROVE  Shared(h)
<1>1. box \in Seq(AnyBox) /\ faults \in 0..MaxFaults
  BY DEF IInv, Typed, TypeOK
<1>2. box' = box /\ faults' \in 0..MaxFaults
  BY <1>1, RequestEffect
<1> QED
  BY <1>1, <1>2 DEF Shared, Existing

LEMMA SharedByRemoving ==
    ASSUME IInv, NEW h \in Handlers, NEW c \in DOMAIN box, NEW ok \in BOOLEAN, RemoveForced(c, ok),
           c \in Target(h), UNCHANGED <<pushed, tag>>
    PROVE  Shared(h)
BY RemoveTakesOne DEF IInv, Typed, TypeOK, Shared

(* Both containers of a handler are in the list. *)
LEMMA OldIsListed ==
    ASSUME IInv, NEW h \in Handlers, pc[h] # "idle"
    PROVE  old[h].id \in DOMAIN box /\ WasRunning(h) \in BOOLEAN /\ Name(h) \in Nat
BY DEF IInv, Typed, TypeOK, AnyBox, NoId, WasRunning, Name

LEMMA OwnIsListed ==
    ASSUME IInv, NEW h \in Handlers, pc[h] \in Holding
    PROVE  id[h] \in DOMAIN box
BY DEF IInv, Typed, TypeOK, NoId, Holding

LEMMA InspectStep == ASSUME IInv, NEW h \in Handlers, Inspect(h) PROVE IInv'
<1>0. Typed
  BY DEF IInv
<1>1. PICK c \in Existing :
          /\ pc[h] = "idle" /\ old' = [old EXCEPT ![h] = [id |-> c, box |-> box[c]]]
          /\ pc' = [pc EXCEPT ![h] = "pull"] /\ outcome' = [outcome EXCEPT ![h] = "none"]
          /\ alone' = [g \in Handlers |-> IF g = h THEN \A f \in Handlers : pc[f] = "idle"
                                                 ELSE alone[g] /\ pc[g] = "idle"]
          /\ UNCHANGED <<id, box, pushed, tag, faults>>
  BY DEF Inspect
<1>2. c \in 1..Len(box) /\ box[c] \in AnyBox /\ AnyBox' = AnyBox
  <2>1. box \in Seq(AnyBox) /\ c \in DOMAIN box
    BY <1>0, <1>1 DEF Existing, Typed, TypeOK
  <2>2. pushed' = pushed
    BY <1>1
  <2>3. c \in 1..Len(box) /\ box[c] \in AnyBox
    BY <2>1
  <2> QED
    BY <2>2, <2>3 DEF AnyBox
<1>3. Typed'
  <2>1. pc' \in [Handlers -> Steps] /\ outcome' \in [Handlers -> Outcomes]
    BY <1>0, <1>1 DEF Typed, TypeOK, Steps, Outcomes
  <2>2. alone' \in [Handlers -> BOOLEAN]
    BY <1>0, <1>1 DEF Typed, TypeOK
  <2>3. old' \in [Handlers -> [id : 0..Len(box), box : AnyBox]]
    BY <1>0, <1>1, <1>2 DEF Typed
  <2>4. \A g \in Handlers : old'[g].id \in 0..Len(box) /\ old'[g].box \in AnyBox
    BY <2>3
  <2>5. \A g \in Handlers : g # h => pc'[g] = pc[g] /\ old'[g] = old[g]
    BY <1>0, <1>1 DEF Typed, TypeOK
  <2>6. old'[h].id # NoId /\ pc'[h] = "pull"
    BY <1>0, <1>1, <1>2 DEF Typed, TypeOK, NoId
  <2> QED
    BY <1>0, <1>1, <1>2, <2>1, <2>2, <2>3, <2>4, <2>5, <2>6 DEF Typed, TypeOK
<1>4. Others(h) /\ pc'[h] = "pull" /\ Existing' = Existing
  BY <1>0, <1>1 DEF Others, Typed, TypeOK, Existing
<1>5. (NewerThanOld /\ OwnId /\ Successor /\ Survivor)'
  BY <1>4, ProgressStep DEF Holding
<1> QED
  BY <1>3, <1>5 DEF IInv

(* The steps before anything is created. *)
LEMMA EarlyStep ==
    ASSUME IInv, NEW h \in Handlers, Pull(h) \/ Compare(h) \/ Stop(h) \/ Park(h) \/ Resume(h)
    PROVE  IInv'
<1> USE DEF At, Steps, Outcomes, Holding
<1>0. Typed /\ tag \in 1..pushed /\ pushed \in 1..pushed
  BY BoundsAssumption DEF IInv, Typed, TypeOK
<1>1. CASE Pull(h)
  <2>1. CASE tag' = pushed /\ Goto(h, "compare") /\ UNCHANGED <<box, faults>>
    <3>1. pc[h] = "pull" /\ Shared(h)
      BY <1>0, <1>1, <2>1 DEF Pull, Shared, Typed, TypeOK, Existing
    <3> QED
      BY <2>1, <3>1, GotoStep
  <2>2. CASE Request(TRUE, box, FALSE) /\ Report(h, "failed") /\ UNCHANGED tag
    <3>1. Shared(h)
      BY <1>0, <1>1, <2>2, SharedByAsking DEF Pull
    <3> QED
      BY <2>2, <3>1, ReportStep
  <2> QED
    BY <1>1, <2>1, <2>2 DEF Pull
<1>2. CASE Compare(h)
  <2>1. PICK ok \in BOOLEAN :
            /\ Request(TRUE, box, ok)
            /\ IF ~ok THEN Report(h, "failed")
               ELSE IF tag = old[h].box.image THEN Report(h, "current")
               ELSE Goto(h, IF WasRunning(h) THEN "stop" ELSE "park")
    BY <1>2 DEF Compare
  <2>2. pc[h] = "compare" /\ Shared(h)
    BY <1>0, <1>2, <2>1, SharedByAsking DEF Compare
  <2>3. Report(h, "failed") \/ Report(h, "current") \/ Goto(h, "stop") \/ Goto(h, "park")
    BY <2>1
  <2> QED
    BY <2>2, <2>3, GotoStep, ReportStep
<1>3. CASE Stop(h)
  <2>1. pc[h] = "stop" /\ UNCHANGED <<pushed, tag>>
    BY <1>3 DEF Stop
  <2>2. PICK ok \in BOOLEAN :
            /\ SetRunning(old[h].id, FALSE, ok)
            /\ Goto(h, "park") \/ Report(h, "failed")
    BY <1>3 DEF Stop
  <2>3. Shared(h)
    BY <2>1, <2>2, OldIsListed, SharedByChange
  <2> QED
    BY <2>1, <2>2, <2>3, GotoStep, ReportStep
<1>4. CASE Park(h)
  <2>1. pc[h] = "park" /\ UNCHANGED <<pushed, tag>>
    BY <1>4 DEF Park
  <2>2. PICK ok \in BOOLEAN :
            /\ Rename(old[h].id, Name(h) + Suffix, ok)
            /\ Goto(h, "create") \/ Goto(h, "resume") \/ Report(h, "unchanged")
    BY <1>4 DEF Park
  <2>3. Name(h) + Suffix \in Nat
    BY <2>1, OldIsListed, BoundsAssumption
  <2>4. Shared(h)
    BY <2>1, <2>2, <2>3, OldIsListed, SharedByChange
  <2> QED
    BY <2>1, <2>2, <2>4, GotoStep, ReportStep
<1>5. CASE Resume(h)
  <2>1. pc[h] = "resume" /\ UNCHANGED <<pushed, tag>>
    BY <1>5 DEF Resume
  <2>2. PICK ok \in BOOLEAN : SetRunning(old[h].id, TRUE, ok) /\ Report(h, "unchanged")
    BY <1>5 DEF Resume
  <2>3. Shared(h)
    BY <2>1, <2>2, OldIsListed, SharedByChange
  <2> QED
    BY <2>2, <2>3, ReportStep
<1> QED
  BY <1>1, <1>2, <1>3, <1>4, <1>5

(* The request to create a container: it is appended or not. *)
LEMMA CreateRequest ==
    ASSUME IInv, NEW h \in Handlers, pc[h] = "create", NEW ok \in BOOLEAN,
           UNCHANGED <<pushed, tag>>,
           Request(~Taken(Name(h)), Append(box, Box(Name(h), tag, FALSE)), ok)
    PROVE  /\ Shared(h)
           /\ ok => Len(box') = Len(box) + 1 /\ Existing \cup {Len(box')} \subseteq Existing'
<1> DEFINE new == Box(Name(h), tag, FALSE)
<1>0. box \in Seq(AnyBox) /\ faults \in 0..MaxFaults /\ tag \in 1..pushed /\ pushed \in Nat
  BY BoundsAssumption DEF IInv, Typed, TypeOK
<1>1. new \in AnyBox /\ new.exists
  <2>1. Name(h) \in Nat
    BY OldIsListed
  <2>2. tag \in 0..pushed
    BY <1>0
  <2> QED
    BY <2>1, <2>2 DEF Box, AnyBox
<1> HIDE DEF new
<1>2. /\ faults' \in 0..MaxFaults /\ (box' = box \/ box' = Append(box, new))
      /\ ok => box' = Append(box, new)
  <2>1. (~Taken(Name(h))) \in BOOLEAN
    BY DEF Taken
  <2> QED
    BY <1>0, <2>1, RequestEffect DEF new
<1>3. ASSUME box' = Append(box, new)
      PROVE  /\ box' \in Seq(AnyBox) /\ Len(box') = Len(box) + 1
             /\ Existing \cup {Len(box')} \subseteq Existing'
  <2>1. /\ box' \in Seq(AnyBox) /\ Len(box') = Len(box) + 1
        /\ \A x \in 1..Len(box) : box'[x] = box[x]
        /\ box'[Len(box) + 1] = new
    BY <1>0, <1>1, <1>3, AppendProperties
  <2>2. DOMAIN box = 1..Len(box) /\ DOMAIN box' = 1..(Len(box) + 1) /\ Len(box) \in Nat
    BY <1>0, <2>1
  <2> QED
    BY <1>1, <2>1, <2>2 DEF Existing
<1>4. Len(box) \in Nat
  BY <1>0
<1>5. CASE box' = box
  BY <1>0, <1>2, <1>4, <1>5 DEF Shared, Existing
<1>6. CASE box' = Append(box, new)
  BY <1>0, <1>2, <1>3, <1>4, <1>6 DEF Shared
<1>7. ok => Len(box') = Len(box) + 1 /\ Existing \cup {Len(box')} \subseteq Existing'
  BY <1>2, <1>3
<1> QED
  BY <1>2, <1>5, <1>6, <1>7

LEMMA CreatedStep ==
    ASSUME IInv, NEW h \in Handlers, pc[h] = "create", Shared(h),
           Len(box') = Len(box) + 1, Existing \cup {Len(box')} \subseteq Existing',
           NEW step \in {"start", "remove"}, Created(h, step)
    PROVE  IInv'
<1> USE DEF Holding
<1>0. Typed /\ Len(box) \in Nat
  BY DEF IInv, Typed, TypeOK
<1>1. /\ id' = [id EXCEPT ![h] = Len(box')] /\ pc' = [pc EXCEPT ![h] = step]
      /\ UNCHANGED <<old, outcome, alone>>
  BY DEF Created
<1>2. /\ id'[h] = Len(box) + 1 /\ pc'[h] = step
      /\ \A g \in Handlers \ {h} : id'[g] = id[g] /\ pc'[g] = pc[g]
      /\ \A g \in Handlers : id[g] \in 0..Len(box) /\ old[g].id \in 0..Len(box)
  BY <1>0, <1>1 DEF Typed, TypeOK
<1>3. Typed'
  <2>1. AnyBox' = AnyBox
    BY DEF Shared, AnyBox
  <2>2. pc' \in [Handlers -> Steps] /\ id' \in [Handlers -> 0..Len(box')]
    BY <1>0, <1>1 DEF Typed, TypeOK, Steps
  <2>3. old' \in [Handlers -> [id : 0..Len(box'), box : AnyBox]]
    <3>1. 0..Len(box) \subseteq 0..Len(box')
      BY <1>0
    <3> QED
      BY <1>0, <1>1, <3>1 DEF Typed
  <2>4. \A g \in Handlers : old'[g].id \in 0..Len(box') /\ old'[g].box \in AnyBox
    BY <2>3
  <2>5. \A g \in Handlers : /\ pc'[g] \in {"start", "discard", "remove"} => id'[g] # NoId
                            /\ pc'[g] # "idle" => old'[g].id # NoId
    BY <1>0, <1>1, <1>2 DEF Typed, TypeOK, NoId
  <2> QED
    BY <1>0, <1>1, <2>1, <2>2, <2>3, <2>4, <2>5 DEF Typed, TypeOK, Shared
<1>4. (NewerThanOld /\ OwnId)'
  BY <1>0, <1>1, <1>2 DEF IInv, NewerThanOld, OwnId
<1>5. \A c \in DOMAIN box : Pending(c)' => Pending(c)
  <2> SUFFICES ASSUME NEW c \in DOMAIN box, NEW g \in Handlers, id'[g] = c,
                      pc'[g] \in {"start", "discard"}
               PROVE  Pending(c)
    BY DEF Pending
  <2>1. c \in 1..Len(box)
    BY <1>0 DEF Typed, TypeOK
  <2>2. g # h
    BY <1>0, <1>2, <2>1
  <2> QED
    BY <1>2, <2>2 DEF Pending
<1>6. Kept \subseteq Kept'
  BY <1>5 DEF Kept, Existing
<1>7. step = "remove" => Len(box') \in Kept'
  <2> SUFFICES ASSUME step = "remove", NEW g \in Handlers, id'[g] = Len(box'),
                      pc'[g] \in {"start", "discard"}
               PROVE  FALSE
    BY DEF Kept, Pending
  <2> QED
    BY <1>0, <1>2
<1>8. Successor'
  <2> SUFFICES ASSUME NEW g \in Handlers, pc'[g] = "remove" PROVE \E c \in Kept' : c >= id'[g]
    BY DEF Successor
  <2>1. CASE g = h
    BY <1>0, <1>2, <1>7, <2>1
  <2>2. CASE g # h
    BY <1>2, <1>6, <2>2 DEF IInv, Successor
  <2> QED
    BY <2>1, <2>2
<1>9. Survivor'
  BY <1>6 DEF IInv, Survivor
<1> QED
  BY <1>3, <1>4, <1>8, <1>9 DEF IInv

LEMMA CreateStep == ASSUME IInv, NEW h \in Handlers, Create(h) PROVE IInv'
<1>1. pc[h] = "create" /\ UNCHANGED <<pushed, tag>>
  BY DEF Create, At
<1>2. PICK ok \in BOOLEAN :
          /\ Request(~Taken(Name(h)), Append(box, Box(Name(h), tag, FALSE)), ok)
          /\ IF ok THEN Created(h, IF WasRunning(h) THEN "start" ELSE "remove")
             ELSE Goto(h, "putback")
  BY DEF Create
<1>3. /\ Shared(h)
      /\ ok => Len(box') = Len(box) + 1 /\ Existing \cup {Len(box')} \subseteq Existing'
  BY <1>1, <1>2, CreateRequest
<1>4. CASE ok
  <2>1. PICK step \in {"start", "remove"} : Created(h, step)
    BY <1>2, <1>4
  <2> QED
    BY <1>1, <1>3, <1>4, <2>1, CreatedStep
<1>5. CASE ~ok
  BY <1>1, <1>2, <1>3, <1>5, GotoStep DEF Steps, Holding
<1> QED
  BY <1>4, <1>5

(* The steps after a container was created, or could not be. *)
LEMMA LateStep ==
    ASSUME IInv, NEW h \in Handlers,
           Start(h) \/ RemoveOld(h) \/ Discard(h) \/ PutBack(h) \/ StartBack(h)
    PROVE  IInv'
<1> USE DEF At, Steps, Outcomes, Holding
<1>1. CASE Start(h)
  <2>1. pc[h] = "start" /\ UNCHANGED <<pushed, tag>>
    BY <1>1 DEF Start
  <2>2. PICK ok \in BOOLEAN :
            SetRunning(id[h], TRUE, ok) /\ Goto(h, IF ok THEN "remove" ELSE "discard")
    BY <1>1 DEF Start
  <2>3. Shared(h) /\ Existing' = Existing /\ (ok => id[h] \in Existing)
    BY <2>1, <2>2, OwnIsListed, SharedByChange
  <2>4. CASE ok
    BY <2>1, <2>2, <2>3, <2>4, GotoStep
  <2>5. CASE ~ok
    BY <2>1, <2>2, <2>3, <2>5, GotoStep
  <2> QED
    BY <2>4, <2>5
<1>2. CASE RemoveOld(h)
  <2>1. pc[h] = "remove" /\ UNCHANGED <<pushed, tag>>
    BY <1>2 DEF RemoveOld
  <2>2. PICK ok \in BOOLEAN :
            /\ RemoveForced(old[h].id, ok)
            /\ Report(h, "updated") \/ Report(h, "updatedOldKept")
    BY <1>2 DEF RemoveOld
  <2>3. Shared(h)
    BY <2>1, <2>2, OldIsListed, SharedByRemoving DEF Target
  <2> QED
    BY <2>2, <2>3, ReportStep
<1>3. CASE Discard(h)
  <2>1. pc[h] = "discard" /\ UNCHANGED <<pushed, tag>>
    BY <1>3 DEF Discard
  <2>2. PICK ok \in BOOLEAN : RemoveForced(id[h], ok) /\ Goto(h, "putback")
    BY <1>3 DEF Discard
  <2>3. Shared(h)
    BY <2>1, <2>2, OwnIsListed, SharedByRemoving DEF Target
  <2> QED
    BY <2>1, <2>2, <2>3, GotoStep
<1>4. CASE PutBack(h)
  <2>1. pc[h] = "putback" /\ UNCHANGED <<pushed, tag>>
    BY <1>4 DEF PutBack
  <2>2. PICK ok \in BOOLEAN :
            /\ Rename(old[h].id, Name(h), ok)
            /\ \/ Goto(h, "startback") \/ Goto(h, "startonly")
               \/ Report(h, "rolledBack") \/ Report(h, "notRestored")
    BY <1>4 DEF PutBack
  <2>3. Shared(h)
    BY <2>1, <2>2, OldIsListed, SharedByChange
  <2> QED
    BY <2>1, <2>2, <2>3, GotoStep, ReportStep
<1>5. CASE StartBack(h)
  <2>1. pc[h] \in {"startback", "startonly"} /\ UNCHANGED <<pushed, tag>>
    BY <1>5 DEF StartBack
  <2>2. PICK ok \in BOOLEAN :
            /\ SetRunning(old[h].id, TRUE, ok)
            /\ Report(h, "rolledBack") \/ Report(h, "notRestored")
    BY <1>5 DEF StartBack
  <2>3. Shared(h)
    BY <2>1, <2>2, OldIsListed, SharedByChange
  <2> QED
    BY <2>2, <2>3, ReportStep
<1> QED
  BY <1>1, <1>2, <1>3, <1>4, <1>5

LEMMA RestartStep == ASSUME IInv, Restart PROVE IInv'
<1>0. Typed
  BY DEF IInv
<1>1. /\ faults < MaxFaults /\ faults' = faults + 1
      /\ pc' = [h \in Handlers |-> "idle"] /\ outcome' = [h \in Handlers |-> "none"]
      /\ old' = [h \in Handlers |-> Nothing] /\ id' = [h \in Handlers |-> NoId]
      /\ alone' = [h \in Handlers |-> TRUE]
      /\ UNCHANGED <<box, pushed, tag>>
  BY DEF Restart
<1>2. Nothing \in [id : 0..Len(box), box : AnyBox] /\ NoId \in 0..Len(box)
  <2>1. Removed \in AnyBox /\ Len(box) \in Nat
    BY <1>0, BoundsAssumption DEF AnyBox, Removed, Typed, TypeOK
  <2> QED
    BY <2>1 DEF Nothing, NoId
<1>3. \A h \in Handlers : pc'[h] = "idle"
  BY <1>1
<1>4. Typed'
  <2>1. pc' \in [Handlers -> Steps] /\ outcome' \in [Handlers -> Outcomes]
    BY <1>1 DEF Steps, Outcomes
  <2>2. alone' \in [Handlers -> BOOLEAN]
    BY <1>1
  <2>3. /\ old' \in [Handlers -> [id : 0..Len(box), box : AnyBox]]
        /\ id' \in [Handlers -> 0..Len(box)]
    BY <1>1, <1>2
  <2>4. \A h \in Handlers : /\ old'[h].id \in 0..Len(box) /\ old'[h].box \in AnyBox
                            /\ id'[h] \in 0..Len(box)
    BY <2>3
  <2>5. faults' \in 0..MaxFaults
    BY <1>0, <1>1, BoundsAssumption DEF Typed, TypeOK
  <2>6. AnyBox' = AnyBox
    BY <1>1 DEF AnyBox
  <2> QED
    BY <1>0, <1>1, <1>3, <2>1, <2>2, <2>3, <2>4, <2>5, <2>6 DEF Typed, TypeOK
<1>5. Kept \subseteq Kept'
  BY <1>1, <1>3 DEF Kept, Pending, Existing
<1> QED
  BY <1>3, <1>4, <1>5 DEF IInv, NewerThanOld, OwnId, Successor, Survivor, Holding

LEMMA PushStep == ASSUME IInv, Push \/ UNCHANGED vars PROVE IInv'
<1>0. Typed
  BY DEF IInv
<1>1. /\ pushed' \in 1..MaxImage /\ pushed' >= pushed
      /\ UNCHANGED <<box, tag, pc, old, id, outcome, alone, faults>>
  <2>1. CASE Push
    BY <1>0, <2>1, BoundsAssumption DEF Push, Typed, TypeOK
  <2>2. CASE UNCHANGED vars
    BY <1>0, <2>2, BoundsAssumption DEF vars, Typed, TypeOK
  <2> QED
    BY <2>1, <2>2
<1>2. AnyBox \subseteq AnyBox'
  BY <1>0, <1>1, BoundsAssumption DEF AnyBox, Typed, TypeOK
<1>3. box \in Seq(AnyBox')
  <2>1. box \in Seq(AnyBox)
    BY <1>0 DEF Typed, TypeOK
  <2> QED
    BY <1>2, <2>1
<1>4. /\ old \in [Handlers -> [id : 0..Len(box), box : AnyBox']]
      /\ \A h \in Handlers : old[h].box \in AnyBox'
  BY <1>0, <1>2 DEF Typed, TypeOK
<1>5. tag \in 1..pushed'
  BY <1>0, <1>1, BoundsAssumption DEF Typed, TypeOK
<1>6. Typed'
  BY <1>0, <1>1, <1>3, <1>4, <1>5 DEF Typed, TypeOK
<1>7. Kept' = Kept
  BY <1>1 DEF Kept, Pending, Existing
<1> QED
  BY <1>1, <1>6, <1>7 DEF IInv, NewerThanOld, OwnId, Successor, Survivor

LEMMA Invariance == Spec => []IInv
<1>1. IInv /\ [Next]_vars => IInv'
  BY InspectStep, EarlyStep, CreateStep, LateStep, RestartStep, PushStep DEF Next, Update
<1> QED
  BY InitIInv, <1>1, PTL DEF Spec

-----------------------------------------------------------------------------
(* Every reachable state of overlapping calls of updateContainer is well typed;
   in particular a handler that starts, discards or keeps a new container
   knows which one it is. *)
THEOREM TypeCorrect == Spec => []TypeOK
<1>1. IInv => TypeOK
  BY DEF IInv, Typed
<1> QED
  BY Invariance, <1>1, PTL

(* updateContainer force-removes the old container without looking whether the
   new one is still there; all the same the last one is never removed. *)
THEOREM AContainerIsLeft == Spec => []SomeContainerExists
<1>1. IInv => SomeContainerExists
  BY DEF IInv, Survivor, Kept, SomeContainerExists
<1> QED
  BY Invariance, <1>1, PTL

-----------------------------------------------------------------------------
(***************************************************************************)
(* The operations of the panel.  They overlap updates and one another, and *)
(* act on what they saw when they began.  Three facts survive the overlap. *)
(* A protected container is never changed and no other becomes one, so     *)
(* that a target which was harmless stays so.  No container changes its    *)
(* service, whatever it is renamed to, for parking adds "__old" to a name  *)
(* of that service.  And the argument about the last container, which is   *)
(* above about all of them, holds for each service by itself, as long as   *)
(* none of its containers was removed on request.                          *)
(***************************************************************************)

(* What the handlers of the panel hold, beyond the containers. *)
Boxes == [exists : BOOLEAN, name : Nat, image : Nat, running : BOOLEAN]
Lines == [id : Nat, name : Nat, running : BOOLEAN]
Verbs == {"none", "start", "stop", "restart", "remove", "update", "removeStack", "prune",
          "deploy", "deployStopped"}
Deploying == {"network", "image", "make", "run"}
Calls == [verb : Verbs, todo : SUBSET Lines, all : SUBSET Lines, bad : BOOLEAN]

StackTyped ==
    /\ box \in Seq(Boxes) /\ pushed \in Nat /\ tag \in Nat
    /\ pc \in [Handlers -> Steps \cup Deploying \cup {"each", "drop"}]
    /\ old \in [Handlers -> [id : 0..Len(box), box : Boxes]]
    /\ id \in [Handlers -> 0..Len(box)]
    /\ call \in [Handlers -> Calls]

(* A container that a handler may touch, and one that is still of the service
   that the handler takes it for. *)
Harmless(c) == c \in Existing => ~Protected(box[c].name)
Tracked(c, name) == c \in Existing => Service(box[c].name) = Service(name)

(* The lines of its snapshot, which is checked first, but for a prune. *)
LineOk(h, r) ==
    /\ r.id \in 0..Len(box) /\ Tracked(r.id, r.name)
    /\ call[h].verb # "prune" => Harmless(r.id) /\ ~Protected(r.name)

HandlerOk(h) ==
    /\ Running(h) => call[h].todo # {}
    /\ call[h].verb = "prune" => pc[h] \in {"each", "drop"}
    /\ pc[h] = "drop" => Running(h) /\ Harmless(Now(h).id)
    /\ pc[h] \in Steps \ {"idle"} => old[h].id # NoId /\ ~Protected(Name(h))
    /\ Harmless(old[h].id) /\ Tracked(old[h].id, Name(h))
    /\ pc[h] \in Holding => Harmless(id[h]) /\ Tracked(id[h], Name(h))
    /\ \A r \in call[h].todo : LineOk(h, r)

KeptFor(s) == {c \in Kept : Service(box[c].name) = s}

(* The argument above, for each service. *)
SuccessorOfService == \A h \in Handlers : pc[h] = "remove" =>
    \/ Service(Name(h)) \in asked
    \/ \E c \in KeptFor(Service(Name(h))) : c >= id[h]

Survivors == \A s \in {0, 1} : s \in asked \/ KeptFor(s) # {}

Services == NewerThanOld /\ OwnId /\ SuccessorOfService /\ Survivors

StacksInv == StackTyped /\ (\A h \in Handlers : HandlerOk(h)) /\ Services

(* The quotient and the remainder. *)
LEMMA Division ==
    ASSUME NEW n \in Nat
    PROVE  n = Suffix * (n \div Suffix) + (n % Suffix) /\ n \div Suffix \in Nat /\ n % Suffix \in 0..Suffix-1
<1>1. Suffix \in Nat /\ Suffix > 0
  BY BoundsAssumption
<1>2. n = Suffix * (n \div Suffix) + (n % Suffix)
  BY ONLY <1>1, n \in Nat, SMTT(60)
<1>3. n \div Suffix \in Nat
  BY ONLY <1>1, n \in Nat, SMTT(60)
<1>4. n % Suffix \in 0..Suffix-1
  BY ONLY <1>1, n \in Nat, SMTT(60)
<1> QED
  BY <1>2, <1>3, <1>4

LEMMA Remainder ==
    ASSUME NEW q \in Nat, NEW r \in 0..Suffix-1
    PROVE  (q * Suffix + r) % Suffix = r
BY BoundsAssumption, SMTT(60)

(* A parked container still belongs to its service. *)
LEMMA ParkedService == ASSUME NEW n \in Nat PROVE Service(n + Suffix) = Service(n)
<1> DEFINE q == n \div Suffix
           r == n % Suffix
<1>0. Suffix \in Nat
  BY BoundsAssumption
<1>1. n = Suffix * q + r /\ q \in Nat /\ r \in 0..Suffix-1
  BY Division
<1>2. (n + Suffix) % Suffix = r
  <2>1. ((q + 1) * Suffix + r) % Suffix = r
    <3> q + 1 \in Nat
      BY <1>1
    <3> HIDE DEF q, r
    <3> QED
      BY <1>1, Remainder
  <2>2. n + Suffix = (q + 1) * Suffix + r
    <3> HIDE DEF q, r
    <3>1. (q + 1) * Suffix = Suffix * q + Suffix
      BY <1>0, <1>1
    <3> QED
      BY <1>0, <1>1, <3>1
  <2> QED
    BY <2>1, <2>2
<1> QED
  BY <1>2 DEF Service

LEMMA OwnService == ASSUME NEW n \in 0..Suffix-1 PROVE Service(n) = n
<1>1. (0 * Suffix + n) % Suffix = n
  BY Remainder
<1> QED
  BY <1>1, BoundsAssumption DEF Service

(* There is a first row. *)
LEMMA FirstIsARow ==
    ASSUME NEW R \in SUBSET Lines, R # {}
    PROVE  First(R) \in R /\ \A q \in R : First(R).name <= q.name
<1> DEFINE T == {r.name : r \in R}
<1>1. T \subseteq Nat /\ T # {}
  BY DEF Lines
<1>2. PICK n \in T : \A m \in T : <<m, n>> \notin OpToRel(<, Nat)
  BY <1>1, NatLessThanWellFounded, WFMin
<1>3. \A m \in T : n <= m
  <2>1. \A m \in T : ~(m < n)
    BY <1>1, <1>2, Zenon DEF OpToRel
  <2> HIDE DEF T
  <2>2. n \in Nat /\ \A m \in T : m \in Nat
    BY <1>1
  <2> QED
    BY <2>1, <2>2
<1>4. PICK r \in R : r.name = n
  OBVIOUS
<1>5. \A q \in R : r.name <= q.name
  BY <1>3, <1>4
<1> QED
  BY <1>5, Zenon DEF First

-----------------------------------------------------------------------------
(* What any request does to the containers: a protected one is left as it is,
   no container becomes one, none comes back, and none changes its service;
   only x may go. *)
Gentle(x) ==
    /\ box' \in Seq(Boxes) /\ Len(box') >= Len(box)
    /\ Existing \ {x} \subseteq Existing'
    /\ \A c \in Existing : Protected(box[c].name) => box'[c] = box[c]
    /\ \A c \in Existing' : c \in 1..Len(box) =>
          /\ c \in Existing /\ Service(box'[c].name) = Service(box[c].name)
          /\ Protected(box'[c].name) => Protected(box[c].name)
    /\ \A c \in Existing' : c \notin 1..Len(box) => ~Protected(box'[c].name)

LEMMA QuietIsGentle ==
    ASSUME box \in Seq(Boxes), box' = box, NEW x
    PROVE  Gentle(x)
BY DEF Gentle, Existing

(* One container is changed or removed. *)
LEMMA EditIsGentle ==
    ASSUME box \in Seq(Boxes), NEW c \in DOMAIN box, NEW b \in Boxes, Same(c, b), Harmless(c),
           b.exists => /\ box[c].exists /\ ~Protected(b.name)
                       /\ Service(b.name) = Service(box[c].name),
           NEW x, b.exists = box[c].exists \/ x = c
    PROVE  Gentle(x) /\ Len(box') = Len(box)
<1>0. c \in 1..Len(box) /\ DOMAIN box = 1..Len(box) /\ Len(box) \in Nat
  OBVIOUS
<1>1. CASE box' = box
  BY <1>1, <1>0, QuietIsGentle
<1>2. CASE box' = [box EXCEPT ![c] = b]
  <2>1. /\ box' \in Seq(Boxes) /\ Len(box') = Len(box) /\ DOMAIN box' = 1..Len(box)
        /\ \A y \in 1..Len(box) : y # c => box'[y] = box[y]
        /\ box'[c] = b
    BY <1>0, <1>2, ExceptSeq
  <2>2. Existing \ {x} \subseteq Existing'
    BY <1>0, <2>1 DEF Existing
  <2>3. \A y \in Existing : Protected(box[y].name) => box'[y] = box[y]
    BY <1>0, <2>1 DEF Existing, Harmless
  <2>4. \A y \in Existing' : /\ y \in Existing /\ Service(box'[y].name) = Service(box[y].name)
                             /\ Protected(box'[y].name) => Protected(box[y].name)
    <3> SUFFICES ASSUME NEW y \in Existing'
                 PROVE  /\ y \in Existing /\ Service(box'[y].name) = Service(box[y].name)
                        /\ Protected(box'[y].name) => Protected(box[y].name)
      OBVIOUS
    <3>0. y \in 1..Len(box) /\ box'[y].exists
      BY <2>1 DEF Existing
    <3>1. CASE y = c
      BY <1>0, <2>1, <3>0, <3>1 DEF Existing
    <3>2. CASE y # c
      <4>1. box'[y] = box[y]
        BY <2>1, <3>0, <3>2
      <4> QED
        BY <1>0, <3>0, <4>1 DEF Existing
    <3> QED
      BY <3>1, <3>2
  <2>5. \A y \in Existing' : y \in 1..Len(box)
    BY <2>1 DEF Existing
  <2> QED
    BY <1>0, <2>1, <2>2, <2>3, <2>4, <2>5 DEF Gentle
<1> QED
  BY <1>1, <1>2 DEF Same

(* The answer to a request, whatever the faults. *)
LEMMA Answer ==
    ASSUME NEW able \in BOOLEAN, NEW after, NEW ok \in BOOLEAN, Request(able, after, ok)
    PROVE  /\ box' = box \/ (able /\ box' = after)
           /\ ok => able /\ box' = after
BY DEF Request

LEMMA SetRunningIsGentle ==
    ASSUME box \in Seq(Boxes), NEW c \in 0..Len(box), Harmless(c),
           NEW up \in BOOLEAN, NEW ok \in BOOLEAN, SetRunning(c, up, ok)
    PROVE  /\ Gentle(0) /\ Len(box') = Len(box)
           /\ ok /\ c # 0 => c \in Existing'
<1>1. CASE c = 0
  <2>1. c \notin DOMAIN box
    BY <1>1
  <2>2. [box EXCEPT ![c].running = up] = box
    BY <2>1
  <2>3. box' = box
    BY <2>2 DEF SetRunning, Request
  <2> QED
    BY <1>1, <2>3, QuietIsGentle
<1>2. CASE c # 0
  <2> DEFINE b == [box[c] EXCEPT !.running = up]
  <2>0. c \in DOMAIN box /\ box[c] \in Boxes
    BY <1>2
  <2>1. b \in Boxes /\ b.exists = box[c].exists /\ b.name = box[c].name
    BY <2>0 DEF Boxes
  <2>2. [box EXCEPT ![c].running = up] = [box EXCEPT ![c] = b]
    BY <2>0
  <2>3. box[c].exists \in BOOLEAN
    BY <2>0 DEF Boxes
  <2> HIDE DEF b
  <2>4. /\ box' = box \/ (box[c].exists /\ box' = [box EXCEPT ![c] = b])
        /\ ok => box[c].exists /\ box' = [box EXCEPT ![c] = b]
    BY <2>2, <2>3, Answer DEF SetRunning
  <2>5. Same(c, b)
    BY <2>4 DEF Same
  <2>6. CASE box[c].exists
    <3>1. ~Protected(box[c].name)
      BY <2>0, <2>6 DEF Harmless, Existing
    <3>2. Gentle(0) /\ Len(box') = Len(box)
      BY <2>0, <2>1, <2>5, <2>6, <3>1, EditIsGentle
    <3>3. c \in Existing \ {0}
      BY <1>2, <2>0, <2>6 DEF Existing
    <3> QED
      BY <3>2, <3>3 DEF Gentle
  <2>7. CASE ~box[c].exists
    <3>1. box' = box /\ ~ok
      BY <2>4, <2>7
    <3> QED
      BY <3>1, QuietIsGentle
  <2> QED
    BY <2>6, <2>7
<1> QED
  BY <1>1, <1>2

LEMMA RenameIsGentle ==
    ASSUME box \in Seq(Boxes), NEW c \in 0..Len(box), Harmless(c),
           NEW name \in Nat, ~Protected(name), Tracked(c, name),
           NEW ok \in BOOLEAN, Rename(c, name, ok)
    PROVE  Gentle(0) /\ Len(box') = Len(box)
<1>1. CASE c = 0
  <2>1. c \notin DOMAIN box
    BY <1>1
  <2>2. [box EXCEPT ![c].name = name] = box
    BY <2>1
  <2>3. box' = box
    BY <2>2 DEF Rename, Request
  <2> QED
    BY <1>1, <2>3, QuietIsGentle
<1>2. CASE c # 0
  <2> DEFINE b == [box[c] EXCEPT !.name = name]
             able == box[c].exists /\ ~Taken(name)
  <2>0. c \in DOMAIN box /\ box[c] \in Boxes
    BY <1>2
  <2>1. b \in Boxes /\ b.exists = box[c].exists /\ b.name = name
    BY <2>0 DEF Boxes
  <2>2. [box EXCEPT ![c].name = name] = [box EXCEPT ![c] = b]
    BY <2>0
  <2>3. able \in BOOLEAN /\ (able => box[c].exists)
    OBVIOUS
  <2>4. Request(able, [box EXCEPT ![c] = b], ok)
    BY <2>2 DEF Rename
  <2> HIDE DEF b, able
  <2>5. box' = box \/ (able /\ box' = [box EXCEPT ![c] = b])
    BY <2>3, <2>4, Answer
  <2>6. CASE box[c].exists
    <3>1. Service(name) = Service(box[c].name) /\ Same(c, b)
      BY <2>0, <2>5, <2>6 DEF Tracked, Existing, Same
    <3> QED
      BY <2>0, <2>1, <2>6, <3>1, EditIsGentle
  <2>7. CASE ~box[c].exists
    <3>1. box' = box
      BY <2>3, <2>5, <2>7
    <3> QED
      BY <3>1, QuietIsGentle
  <2> QED
    BY <2>6, <2>7
<1> QED
  BY <1>1, <1>2

LEMMA RemoveIsGentle ==
    ASSUME box \in Seq(Boxes), NEW c \in 0..Len(box), Harmless(c),
           Same(c, Removed)
    PROVE  Gentle(c) /\ Len(box') = Len(box)
<1>1. box' = box \/ box' = [box EXCEPT ![c] = Removed]
  BY DEF Same
<1>2. CASE c = 0
  <2>1. c \notin DOMAIN box
    BY <1>2
  <2>2. [box EXCEPT ![c] = Removed] = box
    BY <2>1
  <2> QED
    BY <1>1, <2>2, QuietIsGentle
<1>3. CASE c # 0
  <2>1. c \in DOMAIN box /\ Removed \in Boxes /\ Removed.exists = FALSE
    BY <1>3 DEF Removed, Boxes
  <2> QED
    BY <1>1, <2>1, EditIsGentle DEF Same
<1> QED
  BY <1>2, <1>3

LEMMA CreateIsGentle ==
    ASSUME box \in Seq(Boxes), NEW name \in Nat, ~Protected(name), NEW image \in Nat,
           NEW able \in BOOLEAN, NEW ok \in BOOLEAN,
           Request(able, Append(box, Box(name, image, FALSE)), ok)
    PROVE  /\ Gentle(0)
           /\ ok => /\ Len(box') = Len(box) + 1 /\ Len(box') \in Existing'
                    /\ box'[Len(box')].name = name
<1> DEFINE new == Box(name, image, FALSE)
<1>1. new \in Boxes /\ new.exists /\ new.name = name
  BY DEF Box, Boxes
<1>2. Request(able, Append(box, new), ok)
  OBVIOUS
<1> HIDE DEF new
<1>3. (box' = box \/ box' = Append(box, new)) /\ (ok => box' = Append(box, new))
  BY <1>2, Answer
<1>4. ASSUME box' = Append(box, new)
      PROVE  /\ Gentle(0) /\ Len(box') = Len(box) + 1 /\ Len(box') \in Existing'
             /\ box'[Len(box')].name = name
  <2>1. /\ box' \in Seq(Boxes) /\ Len(box') = Len(box) + 1
        /\ \A x \in 1..Len(box) : box'[x] = box[x]
        /\ box'[Len(box) + 1] = new
    BY <1>1, <1>4, AppendProperties
  <2>2. DOMAIN box = 1..Len(box) /\ DOMAIN box' = 1..(Len(box) + 1) /\ Len(box) \in Nat
    BY <2>1
  <2>3. Existing \subseteq Existing'
    BY <2>1, <2>2 DEF Existing
  <2>4. \A c \in Existing : box'[c] = box[c]
    BY <2>1, <2>2 DEF Existing
  <2>5. \A c \in Existing' : c \in 1..Len(box) => c \in Existing /\ box'[c] = box[c]
    BY <2>1, <2>2 DEF Existing
  <2>6. \A c \in Existing' : c \notin 1..Len(box) => box'[c] = new
    BY <2>1, <2>2 DEF Existing
  <2>7. Gentle(0)
    BY <1>1, <2>1, <2>2, <2>3, <2>4, <2>5, <2>6 DEF Gentle
  <2> QED
    BY <1>1, <2>1, <2>2, <2>7 DEF Existing
<1> QED
  BY <1>3, <1>4, QuietIsGentle

-----------------------------------------------------------------------------
(* A gentle request leaves what the handlers know of the containers true. *)

LEMMA StaysHarmless ==
    ASSUME box \in Seq(Boxes), NEW x, Gentle(x), NEW c \in 0..Len(box), Harmless(c)
    PROVE  c \in Existing' => ~Protected(box'[c].name)
<1> SUFFICES ASSUME c \in Existing' PROVE ~Protected(box'[c].name)
  OBVIOUS
<1>1. c \in 1..Len(box)
  <2>1. box' \in Seq(Boxes) /\ c \in DOMAIN box'
    BY DEF Existing, Gentle
  <2> QED
    BY <2>1
<1> QED
  BY <1>1 DEF Gentle, Harmless

LEMMA StaysTracked ==
    ASSUME box \in Seq(Boxes), NEW x, Gentle(x), NEW c \in 0..Len(box), NEW name, Tracked(c, name)
    PROVE  c \in Existing' => Service(box'[c].name) = Service(name)
<1> SUFFICES ASSUME c \in Existing' PROVE Service(box'[c].name) = Service(name)
  OBVIOUS
<1>1. c \in 1..Len(box)
  <2>1. box' \in Seq(Boxes) /\ c \in DOMAIN box'
    BY DEF Existing, Gentle
  <2> QED
    BY <2>1
<1> QED
  BY <1>1 DEF Gentle, Tracked

LEMMA NowIsALine ==
    ASSUME StacksInv, NEW h \in Handlers, Running(h)
    PROVE  Now(h) \in call[h].todo /\ Now(h) \in Lines /\ LineOk(h, Now(h))
<1>1. call[h].todo \in SUBSET Lines /\ call[h].todo # {}
  BY DEF StacksInv, StackTyped, Calls, HandlerOk
<1>2. Now(h) \in call[h].todo
  BY <1>1, FirstIsARow DEF Now
<1> QED
  BY <1>1, <1>2 DEF StacksInv, HandlerOk

(* What is left of an operation in hand. *)
Shrinks(h) ==
    /\ call' \in [Handlers -> Calls] /\ \A g \in Handlers \ {h} : call'[g] = call[g]
    /\ call'[h].todo \subseteq call[h].todo
    /\ call'[h].verb # "none" => call'[h].todo # {}
    /\ call'[h].verb = call[h].verb \/ (call'[h].verb = "none" /\ call'[h].todo = {})

LEMMA LineStaysOk ==
    ASSUME StacksInv, NEW x, Gentle(x), NEW g \in Handlers, NEW r \in call[g].todo,
           call'[g].verb = call[g].verb
    PROVE  LineOk(g, r)'
<1>0. box \in Seq(Boxes) /\ Len(box) \in Nat
  BY DEF StacksInv, StackTyped
<1>1. LineOk(g, r)
  BY DEF StacksInv, HandlerOk
<1>2. r.id \in 0..Len(box) /\ Tracked(r.id, r.name)
  BY <1>1 DEF LineOk
<1>3. r.id \in Existing' => Service(box'[r.id].name) = Service(r.name)
  BY <1>0, <1>2, StaysTracked
<1>4. call[g].verb # "prune" =>
          /\ r.id \in Existing' => ~Protected(box'[r.id].name)
          /\ ~Protected(r.name)
  BY <1>0, <1>1, <1>2, StaysHarmless DEF LineOk
<1>5. Len(box') \in Nat /\ Len(box') >= Len(box)
  BY DEF Gentle
<1>6. r.id \in 0..Len(box')
  BY <1>0, <1>2, <1>5
<1> QED
  BY <1>1, <1>3, <1>4, <1>6 DEF LineOk, Tracked, Harmless

LEMMA LinesStayOk ==
    ASSUME StacksInv, NEW x, Gentle(x), NEW g \in Handlers,
           call'[g].todo \subseteq call[g].todo,
           call'[g].verb = call[g].verb \/ call'[g].todo = {}
    PROVE  \A r \in call'[g].todo : LineOk(g, r)'
BY LineStaysOk

(* What a handler holds of an update, if it holds on to it. *)
TargetsOk(h) ==
    /\ Harmless(old[h].id) /\ Tracked(old[h].id, Name(h))
    /\ pc[h] \in Holding => Harmless(id[h]) /\ Tracked(id[h], Name(h))

LEMMA TargetsStayOk ==
    ASSUME StacksInv, NEW x, Gentle(x), NEW g \in Handlers, old'[g] = old[g],
           pc'[g] \in Holding => pc[g] \in Holding /\ id'[g] = id[g]
    PROVE  TargetsOk(g)'
<1>0. /\ box \in Seq(Boxes) /\ old[g].id \in 0..Len(box) /\ id[g] \in 0..Len(box)
      /\ HandlerOk(g)
  BY DEF StacksInv, StackTyped
<1>1. /\ old[g].id \in Existing' => ~Protected(box'[old[g].id].name)
      /\ old[g].id \in Existing' => Service(box'[old[g].id].name) = Service(Name(g))
  <2>1. Harmless(old[g].id) /\ Tracked(old[g].id, Name(g))
    BY <1>0 DEF HandlerOk
  <2> QED
    BY <1>0, <2>1, StaysHarmless, StaysTracked
<1>2. pc'[g] \in Holding =>
        /\ id[g] \in Existing' => ~Protected(box'[id[g]].name)
        /\ id[g] \in Existing' => Service(box'[id[g]].name) = Service(Name(g))
  <2> SUFFICES ASSUME pc'[g] \in Holding
               PROVE  /\ id[g] \in Existing' => ~Protected(box'[id[g]].name)
                      /\ id[g] \in Existing' => Service(box'[id[g]].name) = Service(Name(g))
    OBVIOUS
  <2>1. Harmless(id[g]) /\ Tracked(id[g], Name(g))
    BY <1>0 DEF HandlerOk
  <2> QED
    BY <1>0, <2>1, StaysHarmless, StaysTracked
<1>3. Name(g)' = Name(g)
  BY DEF Name
<1> QED
  BY <1>1, <1>2, <1>3 DEF TargetsOk, Harmless, Tracked

LEMMA HandlerParts ==
    ASSUME NEW h \in Handlers
    PROVE  HandlerOk(h) <=>
               /\ Running(h) => call[h].todo # {}
               /\ call[h].verb = "prune" => pc[h] \in {"each", "drop"}
               /\ pc[h] = "drop" => Running(h) /\ Harmless(Now(h).id)
               /\ pc[h] \in Steps \ {"idle"} => old[h].id # NoId /\ ~Protected(Name(h))
               /\ TargetsOk(h)
               /\ \A r \in call[h].todo : LineOk(h, r)
BY DEF HandlerOk, TargetsOk

(* A handler that does not move. *)
LEMMA StaysOk ==
    ASSUME StacksInv, NEW x, Gentle(x), NEW g \in Handlers,
           pc'[g] = pc[g], old'[g] = old[g], id'[g] = id[g], call'[g] = call[g]
    PROVE  HandlerOk(g)'
<1>0. HandlerOk(g) /\ box \in Seq(Boxes)
  BY DEF StacksInv, StackTyped
<1>1. TargetsOk(g)' /\ \A r \in call'[g].todo : LineOk(g, r)'
  BY TargetsStayOk, LinesStayOk
<1>2. Name(g)' = Name(g) /\ Now(g)' = Now(g) /\ Running(g)' = Running(g)
  BY DEF Name, Now, Running
<1>3. pc[g] = "drop" => Harmless(Now(g).id)'
  <2> SUFFICES ASSUME pc[g] = "drop" PROVE Harmless(Now(g).id)'
    OBVIOUS
  <2>1. Running(g) /\ Harmless(Now(g).id)
    BY <1>0 DEF HandlerOk
  <2>2. Now(g).id \in 0..Len(box)
    BY <2>1, NowIsALine DEF LineOk
  <2>3. Now(g).id \in Existing' => ~Protected(box'[Now(g).id].name)
    BY <1>0, <2>1, <2>2, StaysHarmless
  <2> QED
    BY <1>2, <2>3 DEF Harmless
<1> QED
  BY <1>0, <1>1, <1>2, <1>3, HandlerParts DEF HandlerOk, TargetsOk

LEMMA HandlersStep ==
    ASSUME StacksInv, NEW x, Gentle(x), NEW h \in Handlers, Others(h),
           \A g \in Handlers \ {h} : call'[g] = call[g], HandlerOk(h)'
    PROVE  \A g \in Handlers : HandlerOk(g)'
BY StaysOk DEF Others

-----------------------------------------------------------------------------
(* The services *)

(* Any step but the creation of a container by an update: handlers let go of
   the one they made, or go on with it, to "remove" only if it is there. *)
LEMMA ServicesStep ==
    ASSUME StacksInv, NEW x, Gentle(x), asked \subseteq asked',
           \A g \in Handlers : pc'[g] \in Holding =>
               /\ pc[g] \in Holding /\ id'[g] = id[g] /\ old'[g] = old[g]
               /\ pc'[g] = "remove" => pc[g] = "remove" \/ id[g] \in Existing'
               /\ pc[g] = "remove" => pc'[g] = "remove",
           x \in Existing /\ x \notin Existing' =>
               \/ Service(box[x].name) \in asked' \/ Pending(x)
               \/ \E h \in Handlers : pc[h] = "remove" /\ x = old[h].id
    PROVE  Services'
<1> USE DEF Holding
<1>0. /\ Services /\ box \in Seq(Boxes) /\ Existing \subseteq Nat
      /\ \A g \in Handlers : id[g] \in Nat /\ old[g].id \in Nat /\ HandlerOk(g)
  BY DEF StacksInv, StackTyped, Existing
<1>1. (NewerThanOld /\ OwnId)'
  BY <1>0 DEF Services, NewerThanOld, OwnId
<1>2. \A c : Pending(c)' => Pending(c)
  BY DEF Pending
<1>3. \A c \in Kept \cap Existing' :
          c \in Kept' /\ Service(box'[c].name) = Service(box[c].name)
  <2> SUFFICES ASSUME NEW c \in Kept, c \in Existing'
               PROVE  c \in Kept' /\ Service(box'[c].name) = Service(box[c].name)
    OBVIOUS
  <2>1. c \in Existing /\ c \in 1..Len(box) /\ ~Pending(c)
    BY <1>0 DEF Kept, Existing
  <2> QED
    BY <1>2, <2>1 DEF Kept, Gentle
<1>4. \A s : s \notin asked' => \A c \in KeptFor(s) : \E d \in KeptFor(s)' : d \in Nat /\ d >= c
  <2> SUFFICES ASSUME NEW s, s \notin asked', NEW c \in KeptFor(s)
               PROVE  \E d \in KeptFor(s)' : d \in Nat /\ d >= c
    OBVIOUS
  <2>1. c \in Kept /\ c \in Existing /\ ~Pending(c) /\ Service(box[c].name) = s /\ c \in Nat
    BY <1>0 DEF KeptFor, Kept
  <2>2. \A d \in KeptFor(s) : d \in Existing' => d \in KeptFor(s)'
    BY <1>3 DEF KeptFor
  <2>3. CASE c \in Existing'
    BY <2>1, <2>2, <2>3
  <2>4. CASE c \notin Existing'
    <3>1. c = x
      BY <2>1, <2>4 DEF Gentle
    <3>2. PICK h \in Handlers : pc[h] = "remove" /\ c = old[h].id
      BY <2>1, <2>4, <3>1
    <3>3. Service(Name(h)) = s
      BY <1>0, <2>1, <3>2 DEF HandlerOk, Tracked
    <3>4. PICK d \in KeptFor(s) : d >= id[h]
      BY <1>0, <3>2, <3>3 DEF Services, SuccessorOfService
    <3>5. id[h] > c /\ d \in Nat /\ d \in Existing
      BY <1>0, <3>2 DEF Services, NewerThanOld, KeptFor, Kept
    <3>6. d >= c /\ d # x
      BY <1>0, <2>1, <3>1, <3>4, <3>5
    <3>7. d \in Existing'
      BY <3>5, <3>6 DEF Gentle
    <3> QED
      BY <2>2, <3>5, <3>6, <3>7
  <2> QED
    BY <2>3, <2>4
<1>5. Survivors'
  BY <1>0, <1>4 DEF Services, Survivors
<1>6. SuccessorOfService'
  <2> SUFFICES ASSUME NEW g \in Handlers, pc'[g] = "remove", Service(Name(g)) \notin asked'
               PROVE  \E c \in KeptFor(Service(Name(g)))' : c >= id[g]
    BY DEF SuccessorOfService, Name
  <2>0. old'[g] = old[g] /\ id'[g] = id[g]
    OBVIOUS
  <2>1. CASE pc[g] = "remove"
    <3>1. PICK c \in KeptFor(Service(Name(g))) : c >= id[g]
      BY <1>0, <2>1 DEF Services, SuccessorOfService
    <3>2. PICK d \in KeptFor(Service(Name(g)))' : d \in Nat /\ d >= c
      <4>1. \A s : s = Service(Name(g)) => \E d \in KeptFor(s)' : d \in Nat /\ d >= c
        BY <1>4, <3>1
      <4>2. Service(Name(g))' = Service(Name(g))
        BY <1>0, <2>1, <2>0 DEF Name
      <4> QED
        BY <4>1, <4>2 DEF KeptFor, Kept
    <3>3. c \in Nat /\ id[g] \in Nat
      BY <1>0 DEF KeptFor, Kept
    <3> QED
      BY <3>1, <3>2, <3>3
  <2>2. CASE pc[g] # "remove"
    <3>1. pc[g] \in {"start", "discard"} /\ id[g] \in Existing' /\ id'[g] = id[g] /\ id[g] \in Nat
      BY <1>0, <2>2
    <3>2. ~Pending(id[g])'
      <4> SUFFICES ASSUME NEW f \in Handlers, id'[f] = id[g], pc'[f] \in {"start", "discard"}
                   PROVE  FALSE
        BY DEF Pending
      <4>1. id[f] = id[g] /\ pc[f] \in Holding /\ pc[g] \in Holding
        BY <3>1
      <4>2. f = g
        BY <1>0, <4>1 DEF Services, OwnId
      <4> QED
        BY <4>2
    <3>3. Service(box'[id[g]].name) = Service(Name(g))
      <4>1. Tracked(id[g], Name(g)) /\ id[g] \in 0..Len(box)
        BY <1>0, <3>1 DEF HandlerOk, StacksInv, StackTyped
      <4> QED
        BY <1>0, <3>1, <4>1, StaysTracked
    <3> QED
      BY <3>1, <3>2, <3>3 DEF KeptFor, Kept, Name
  <2> QED
    BY <2>1, <2>2
<1> QED
  BY <1>1, <1>5, <1>6 DEF Services

(* An update creates its container. *)
LEMMA CreatedServices ==
    ASSUME StacksInv, Gentle(0), asked' = asked, NEW h \in Handlers, pc[h] = "create",
           Len(box') = Len(box) + 1, Len(box') \in Existing', box'[Len(box')].name = Name(h),
           Others(h), old'[h] = old[h], id'[h] = Len(box'), pc'[h] \in {"start", "remove"}
    PROVE  Services'
<1> USE DEF Holding
<1>0. /\ Services /\ box \in Seq(Boxes) /\ Existing \subseteq 1..Len(box) /\ Len(box) \in Nat
      /\ \A g \in Handlers : id[g] \in 0..Len(box) /\ old[g].id \in 0..Len(box)
  BY DEF StacksInv, StackTyped, Existing
<1>1. \A g \in Handlers \ {h} : pc'[g] = pc[g] /\ id'[g] = id[g] /\ old'[g] = old[g]
  BY DEF Others
<1>2. (NewerThanOld /\ OwnId)'
  BY <1>0, <1>1 DEF Services, NewerThanOld, OwnId
<1>3. \A c \in Existing : Pending(c)' => Pending(c)
  <2> SUFFICES ASSUME NEW c \in Existing, NEW g \in Handlers, id'[g] = c,
                      pc'[g] \in {"start", "discard"}
               PROVE  Pending(c)
    BY DEF Pending
  <2>1. g # h
    BY <1>0
  <2> QED
    BY <1>1, <2>1 DEF Pending
<1>4. \A s : KeptFor(s) \subseteq KeptFor(s)'
  <2> SUFFICES ASSUME NEW s, NEW c \in KeptFor(s) PROVE c \in KeptFor(s)'
    OBVIOUS
  <2>1. c \in Existing /\ ~Pending(c) /\ Service(box[c].name) = s /\ c \in 1..Len(box) /\ c # 0
    BY <1>0 DEF KeptFor, Kept
  <2>2. c \in Existing' /\ Service(box'[c].name) = s
    BY <2>1 DEF Gentle
  <2> QED
    BY <1>3, <2>1, <2>2 DEF KeptFor, Kept
<1>5. pc'[h] = "remove" => Len(box') \in KeptFor(Service(Name(h)))'
  <2> SUFFICES ASSUME pc'[h] = "remove", NEW g \in Handlers, id'[g] = Len(box'),
                      pc'[g] \in {"start", "discard"}
               PROVE  FALSE
    BY DEF KeptFor, Kept, Pending, Name
  <2> QED
    BY <1>0, <1>1
<1>6. Survivors'
  BY <1>0, <1>4 DEF Services, Survivors
<1>7. SuccessorOfService'
  <2> SUFFICES ASSUME NEW g \in Handlers, pc'[g] = "remove", Service(Name(g))' \notin asked
               PROVE  \E c \in KeptFor(Service(Name(g)))' : c >= id'[g]
    BY DEF SuccessorOfService
  <2>0. Name(g)' = Name(g)
    BY <1>1 DEF Name
  <2>1. CASE g = h
    BY <1>0, <1>5, <2>1
  <2>2. CASE g # h
    <3>1. PICK c \in KeptFor(Service(Name(g))) : c >= id[g]
      BY <1>0, <1>1, <2>0, <2>2 DEF Services, SuccessorOfService, Service
    <3>2. c \in KeptFor(Service(Name(g)))'
      <4>1. \A s : s = Service(Name(g)) => c \in KeptFor(s)'
        BY <1>4, <3>1
      <4>2. Service(Name(g))' = Service(Name(g))
        BY <2>0 DEF Service
      <4> QED
        BY <4>1, <4>2 DEF KeptFor, Kept
    <3> QED
      BY <1>1, <2>2, <3>1, <3>2
  <2> QED
    BY <2>1, <2>2
<1> QED
  BY <1>2, <1>6, <1>7 DEF Services

-----------------------------------------------------------------------------
(* One operation after the other *)

(* A container goes only if it was not running, or by an update that moves on. *)
Licensed(x) == x \in Existing /\ x \notin Existing' =>
    \/ ~box[x].running
    \/ \E h \in Handlers : pc[h] \in {"remove", "discard"} /\ pc'[h] # pc[h]

Orderly == StacksInv' /\ \E x : Gentle(x) /\ Licensed(x)

(* A step of an operation that is no step of an update. *)
LEMMA WorkStep ==
    ASSUME StacksInv, NEW h \in Handlers, NEW x, Gentle(x), UNCHANGED <<pushed, old, id>>,
           tag' \in Nat, asked \subseteq asked',
           NEW p \in Steps \cup Deploying \cup {"each", "drop"}, pc' = [pc EXCEPT ![h] = p],
           p \in Holding => p = pc[h],
           call' \in [Handlers -> Calls], \A g \in Handlers \ {h} : call'[g] = call[g],
           HandlerOk(h)',
           x \in Existing /\ x \notin Existing' =>
               Service(box[x].name) \in asked' /\ ~box[x].running
    PROVE  Orderly
<1>0. StackTyped /\ Len(box) \in Nat
  BY DEF StacksInv, StackTyped
<1>1. box' \in Seq(Boxes) /\ Len(box') \in Nat /\ Len(box') >= Len(box)
  BY DEF Gentle
<1>2. 0..Len(box) \subseteq 0..Len(box')
  BY <1>0, <1>1
<1>3. StackTyped'
  BY <1>0, <1>1, <1>2 DEF StackTyped
<1>4. Others(h) /\ pc'[h] = p
  BY <1>0 DEF Others, StackTyped
<1>5. \A g \in Handlers : HandlerOk(g)'
  BY <1>4, HandlersStep
<1>6. Services'
  <2>1. \A g \in Handlers : pc'[g] \in Holding => pc'[g] = pc[g]
    BY <1>4 DEF Others
  <2> QED
    BY <2>1, ServicesStep
<1>7. Licensed(x)
  BY DEF Licensed
<1> QED
  BY <1>3, <1>5, <1>6, <1>7 DEF StacksInv, Orderly

LEMMA RestShrinks ==
    ASSUME NEW h \in Handlers, call[h] \in Calls, NEW failed \in BOOLEAN, NEW halted \in BOOLEAN
    PROVE  /\ Rest(h, failed, halted) \in Calls
           /\ Rest(h, failed, halted).todo \subseteq call[h].todo
           /\ Rest(h, failed, halted).verb # "none" => Rest(h, failed, halted).todo # {}
           /\ \/ Rest(h, failed, halted).verb = call[h].verb
              \/ Rest(h, failed, halted).verb = "none" /\ Rest(h, failed, halted).todo = {}
<1> DEFINE rest == call[h].todo \ {Now(h)}
           bad == call[h].bad \/ failed
           k == [call[h] EXCEPT !.todo = rest, !.bad = bad]
<1>1. bad \in BOOLEAN /\ rest \in SUBSET Lines /\ rest \subseteq call[h].todo
  BY DEF Calls
<1>2. Answered(bad) \in Calls /\ Answered(bad).todo = {} /\ Answered(bad).verb = "none"
  BY <1>1 DEF Answered, Calls, Verbs
<1>3. Rest(h, failed, halted) = IF rest = {} \/ halted THEN Answered(bad) ELSE k
  BY DEF Rest
<1> HIDE DEF rest, bad
<1>4. k \in Calls /\ k.todo = rest /\ k.verb = call[h].verb
  BY <1>1 DEF Calls
<1> HIDE DEF k
<1> QED
  BY <1>1, <1>2, <1>3, <1>4

(* A step that works on what was in hand, at most done with its first line. *)
LEMMA WorkGoesOn ==
    ASSUME StacksInv, NEW h \in Handlers, NEW step \in Deploying \cup {"each", "drop"},
           Working(h, step), NEW x, Gentle(x), tag' \in Nat, asked \subseteq asked',
           NEW p \in Deploying \cup {"each", "drop", "idle"}, pc' = [pc EXCEPT ![h] = p],
           Shrinks(h),
           p = "drop" => call'[h] = call[h] /\ Harmless(Now(h).id),
           p \notin {"each", "drop"} => call[h].verb # "prune" \/ call'[h].verb = "none",
           x \in Existing /\ x \notin Existing' =>
               Service(box[x].name) \in asked' /\ ~box[x].running
    PROVE  Orderly
<1>0. StackTyped /\ HandlerOk(h) /\ box \in Seq(Boxes) /\ UNCHANGED <<pushed, old, id>> /\ Running(h)
  BY DEF StacksInv, StackTyped, Working
<1>1. /\ pc'[h] = p /\ p \notin Steps \ {"idle"} /\ p \notin Holding
      /\ p \in Steps \cup Deploying \cup {"each", "drop"}
  BY <1>0 DEF StackTyped, Deploying, Steps, Holding
<1>2. TargetsOk(h)'
  BY <1>0, <1>1, TargetsStayOk
<1>3. \A r \in call'[h].todo : LineOk(h, r)'
  BY LinesStayOk DEF Shrinks
<1>4. p = "drop" => Running(h)' /\ Harmless(Now(h).id)'
  <2> SUFFICES ASSUME p = "drop" PROVE Running(h)' /\ Harmless(Now(h).id)'
    OBVIOUS
  <2>1. Now(h)' = Now(h) /\ Running(h)'
    BY <1>0 DEF Now, Running
  <2>2. Now(h).id \in 0..Len(box)
    BY <1>0, NowIsALine DEF LineOk
  <2>3. Now(h).id \in Existing' => ~Protected(box'[Now(h).id].name)
    BY <1>0, <2>2, StaysHarmless
  <2> QED
    BY <2>1, <2>3 DEF Harmless
<1>5. HandlerOk(h)'
  <2>1. Running(h)' => call'[h].todo # {}
    BY DEF Running, Shrinks
  <2>2. call'[h].verb = "prune" => pc'[h] \in {"each", "drop"}
    BY <1>1 DEF Shrinks
  <2> QED
    BY <1>1, <1>2, <1>3, <1>4, <2>1, <2>2 DEF HandlerOk, TargetsOk
<1> QED
  BY <1>0, <1>1, <1>5, WorkStep DEF Shrinks

LEMMA AnswerShrinks ==
    ASSUME StacksInv, NEW h \in Handlers, NEW failed \in BOOLEAN, NEW halted \in BOOLEAN,
           call' = [call EXCEPT ![h] = Rest(h, failed, halted)]
    PROVE  Shrinks(h)
<1>0. call \in [Handlers -> Calls] /\ call[h] \in Calls
  BY DEF StacksInv, StackTyped
<1> DEFINE k == Rest(h, failed, halted)
<1>1. /\ k \in Calls /\ k.todo \subseteq call[h].todo
      /\ k.verb # "none" => k.todo # {}
      /\ k.verb = call[h].verb \/ (k.verb = "none" /\ k.todo = {})
  BY <1>0, RestShrinks
<1>2. call' = [call EXCEPT ![h] = k]
  OBVIOUS
<1> HIDE DEF k
<1> QED
  BY <1>0, <1>1, <1>2 DEF Shrinks

LEMMA SameShrinks == ASSUME StacksInv, NEW h \in Handlers, UNCHANGED call PROVE Shrinks(h)
BY DEF StacksInv, StackTyped, HandlerOk, Running, Shrinks

LEMMA DoneStep ==
    ASSUME StacksInv, NEW h \in Handlers, NEW step \in {"each", "drop"}, Working(h, step),
           NEW x, Gentle(x), tag' = tag, asked \subseteq asked',
           NEW failed \in BOOLEAN, DoneWith(h, failed),
           x \in Existing /\ x \notin Existing' =>
               Service(box[x].name) \in asked' /\ ~box[x].running
    PROVE  Orderly
<1>1. PICK p \in {"each", "idle"} : /\ pc' = [pc EXCEPT ![h] = p]
                                    /\ p = "idle" => call'[h].verb = "none"
  BY DEF DoneWith
<1>2. Shrinks(h)
  BY AnswerShrinks DEF DoneWith
<1>3. tag' \in Nat
  BY DEF StacksInv, StackTyped
<1> QED
  BY <1>1, <1>2, <1>3, WorkGoesOn

LEMMA GoOnToDrop ==
    ASSUME StacksInv, NEW h \in Handlers, Working(h, "each"), NEW x, Gentle(x), tag' = tag,
           asked' = asked, GoOn(h, "drop"), Harmless(Now(h).id), x \in Existing => x \in Existing'
    PROVE  Orderly
<1>1. Shrinks(h)
  BY SameShrinks DEF GoOn
<1>2. tag' \in Nat
  BY DEF StacksInv, StackTyped
<1> QED
  BY <1>1, <1>2, WorkGoesOn DEF GoOn

LEMMA NoneIsZero == ASSUME StacksInv PROVE 0 \notin Existing
BY DEF StacksInv, StackTyped, Existing

LEMMA SetStateStep == ASSUME StacksInv, NEW h \in Handlers, SetState(h) PROVE Orderly
<1>1. PICK ok \in BOOLEAN :
          /\ Working(h, "each") /\ call[h].verb \in {"start", "stop", "restart"}
          /\ SetRunning(Now(h).id, call[h].verb # "stop", ok)
          /\ DoneWith(h, ~ok) /\ UNCHANGED <<tag, asked>>
  BY DEF SetState
<1>2. Now(h).id \in 0..Len(box) /\ Harmless(Now(h).id)
  BY <1>1, NowIsALine DEF Working, LineOk
<1>3. Gentle(0)
  <2>1. box \in Seq(Boxes) /\ (call[h].verb # "stop") \in BOOLEAN
    BY DEF StacksInv, StackTyped
  <2> QED
    BY <1>1, <1>2, <2>1, SetRunningIsGentle
<1>4. (~ok) \in BOOLEAN
  OBVIOUS
<1> QED
  BY <1>1, <1>3, <1>4, DoneStep, NoneIsZero

LEMMA StopToRemoveStep == ASSUME StacksInv, NEW h \in Handlers, StopToRemove(h) PROVE Orderly
<1>1. PICK ok \in BOOLEAN :
          /\ Working(h, "each") /\ call[h].verb = "removeStack"
          /\ IF Now(h).running
             THEN SetRunning(Now(h).id, FALSE, ok) /\ IF ok THEN GoOn(h, "drop") ELSE DoneWith(h, TRUE)
             ELSE GoOn(h, "drop") /\ UNCHANGED <<box, faults>>
          /\ UNCHANGED <<tag, asked>>
  BY DEF StopToRemove
<1>2. Now(h).id \in 0..Len(box) /\ Harmless(Now(h).id) /\ box \in Seq(Boxes)
  BY <1>1, NowIsALine DEF Working, LineOk, StacksInv, StackTyped
<1>3. Gentle(0)
  BY <1>1, <1>2, SetRunningIsGentle, QuietIsGentle
<1>4. GoOn(h, "drop") \/ DoneWith(h, TRUE)
  BY <1>1
<1>5. CASE GoOn(h, "drop")
  BY <1>1, <1>2, <1>3, <1>5, GoOnToDrop, NoneIsZero
<1>6. CASE DoneWith(h, TRUE)
  BY <1>1, <1>3, <1>6, DoneStep, NoneIsZero
<1> QED
  BY <1>4, <1>5, <1>6

LEMMA CheckToPruneStep == ASSUME StacksInv, NEW h \in Handlers, CheckToPrune(h) PROVE Orderly
<1>1. PICK ok \in BOOLEAN :
          /\ Working(h, "each") /\ call[h].verb = "prune" /\ Request(TRUE, box, ok)
          /\ IF ok /\ Clear(Now(h).id) THEN GoOn(h, "drop") ELSE DoneWith(h, FALSE)
          /\ UNCHANGED <<tag, asked>>
  BY DEF CheckToPrune
<1>2. Gentle(0)
  <2>1. box' = box /\ box \in Seq(Boxes)
    BY <1>1 DEF Request, StacksInv, StackTyped
  <2> QED
    BY <2>1, QuietIsGentle
<1>3. CASE ok /\ Clear(Now(h).id)
  <2>1. Harmless(Now(h).id)
    BY <1>3 DEF Clear, Harmless
  <2> QED
    BY <1>1, <1>2, <1>3, <2>1, GoOnToDrop, NoneIsZero
<1>4. CASE ~(ok /\ Clear(Now(h).id))
  BY <1>1, <1>2, <1>4, DoneStep, NoneIsZero
<1> QED
  BY <1>3, <1>4

LEMMA DropStep == ASSUME StacksInv, NEW h \in Handlers, Drop(h) PROVE Orderly
<1> DEFINE c == Now(h).id
           step == IF call[h].verb = "remove" THEN "each" ELSE "drop"
<1>1. PICK ok \in BOOLEAN :
          /\ Working(h, step) /\ RemoveStopped(c, ok) /\ DoneWith(h, ~ok)
          /\ asked' = IF box'[c].exists THEN asked ELSE asked \cup {Service(Now(h).name)}
          /\ UNCHANGED tag
  BY DEF Drop
<1>2. step \in {"each", "drop"} /\ (~ok) \in BOOLEAN
  OBVIOUS
<1>3. /\ box \in Seq(Boxes) /\ c \in 0..Len(box) /\ Harmless(c) /\ Tracked(c, Now(h).name)
  <2>1. Running(h) /\ pc[h] = step
    BY <1>1 DEF Working
  <2>2. LineOk(h, Now(h)) /\ HandlerOk(h)
    BY <2>1, NowIsALine DEF StacksInv
  <2>3. Harmless(c)
    BY <2>1, <2>2 DEF LineOk, HandlerOk
  <2> QED
    BY <2>2, <2>3 DEF LineOk, StacksInv, StackTyped
<1> HIDE DEF c, step
<1>4. Gentle(c)
  <2>1. Same(c, Removed)
    BY <1>1 DEF RemoveStopped, Request, Same
  <2> QED
    BY <1>3, <2>1, RemoveIsGentle
<1>5. c \in Existing /\ c \notin Existing' =>
          Service(box[c].name) \in asked' /\ ~box[c].running
  <2> SUFFICES ASSUME c \in Existing, c \notin Existing'
               PROVE  Service(box[c].name) \in asked' /\ ~box[c].running
    OBVIOUS
  <2>1. c \in 1..Len(box) /\ c \in DOMAIN box'
    BY <1>3, <1>4 DEF Existing, Gentle
  <2>2. ~box'[c].exists
    BY <2>1 DEF Existing
  <2>3. box' # box
    BY <2>2 DEF Existing
  <2>4. ~box[c].running
    BY <1>1, <2>3 DEF RemoveStopped, Request
  <2> QED
    BY <1>1, <1>3, <2>2, <2>4 DEF Tracked
<1>6. asked \subseteq asked'
  BY <1>1
<1> QED
  BY <1>1, <1>2, <1>4, <1>5, <1>6, DoneStep

LEMMA DeployingStep ==
    ASSUME StacksInv, NEW h \in Handlers, Network(h) \/ PullImage(h) \/ Run(h)
    PROVE  Orderly
<1>0. /\ box \in Seq(Boxes) /\ tag \in Nat /\ pushed \in Nat
      /\ call \in [Handlers -> Calls] /\ HandlerOk(h)
  BY DEF StacksInv, StackTyped
<1>1. CASE Network(h)
  <2>1. PICK ok \in BOOLEAN :
            /\ Working(h, "network") /\ Request(TRUE, box, ok)
            /\ IF ok THEN GoOn(h, "image")
               ELSE call' = [call EXCEPT ![h] = Answered(TRUE)] /\ pc' = [pc EXCEPT ![h] = "idle"]
            /\ UNCHANGED <<tag, asked>>
    BY <1>1 DEF Network
  <2>2. Gentle(0)
    BY <1>0, <2>1, QuietIsGentle DEF Request
  <2>3. call[h].verb # "prune"
    BY <1>0, <2>1 DEF Working, HandlerOk
  <2>4. PICK p \in {"image", "idle"} : pc' = [pc EXCEPT ![h] = p]
    BY <2>1 DEF GoOn
  <2>5. Shrinks(h)
    <3>1. CASE UNCHANGED call
      BY <3>1, SameShrinks
    <3>2. CASE call' = [call EXCEPT ![h] = Answered(TRUE)]
      <4>1. Answered(TRUE) \in Calls /\ Answered(TRUE).todo = {} /\ Answered(TRUE).verb = "none"
        BY DEF Answered, Calls, Verbs
      <4> QED
        BY <1>0, <3>2, <4>1 DEF Shrinks
    <3> QED
      BY <2>1, <3>1, <3>2 DEF GoOn
  <2> QED
    BY <1>0, <2>1, <2>2, <2>3, <2>4, <2>5, WorkGoesOn, NoneIsZero DEF Deploying
<1>2. CASE PullImage(h)
  <2>1. PICK ok \in BOOLEAN :
            /\ Working(h, "image") /\ Request(TRUE, box, ok)
            /\ tag' = (IF ok THEN pushed ELSE tag)
            /\ call' = [call EXCEPT ![h].bad = @ \/ ~ok] /\ pc' = [pc EXCEPT ![h] = "make"]
            /\ UNCHANGED asked
    BY <1>2 DEF PullImage
  <2>2. Gentle(0) /\ tag' \in Nat
    BY <1>0, <2>1, QuietIsGentle DEF Request
  <2>3. call[h].verb # "prune" /\ Running(h)
    BY <1>0, <2>1 DEF Working, HandlerOk
  <2>4. Shrinks(h)
    <3> DEFINE bad == call[h].bad \/ ~ok
               k == [call[h] EXCEPT !.bad = bad]
    <3>1. bad \in BOOLEAN /\ call[h] \in Calls /\ call' = [call EXCEPT ![h] = k]
      BY <1>0, <2>1
    <3> HIDE DEF bad
    <3>2. k \in Calls /\ k.todo = call[h].todo /\ k.verb = call[h].verb
      BY <3>1 DEF Calls
    <3> HIDE DEF k
    <3> QED
      BY <1>0, <2>3, <3>1, <3>2 DEF Shrinks, HandlerOk, Running
  <2> QED
    BY <2>1, <2>2, <2>3, <2>4, WorkGoesOn, NoneIsZero DEF Deploying
<1>3. CASE Run(h)
  <2>1. PICK ok \in BOOLEAN :
            /\ Working(h, "run") /\ SetRunning(Now(h).id, TRUE, ok)
            /\ Deployed(h, ~ok) /\ UNCHANGED <<tag, asked>>
    BY <1>3 DEF Run
  <2>2. call[h].verb # "prune"
    BY <1>0, <2>1 DEF Working, HandlerOk
  <2>3. Now(h).id \in 0..Len(box) /\ Harmless(Now(h).id)
    BY <2>1, <2>2, NowIsALine DEF Working, LineOk
  <2>4. Gentle(0)
    BY <1>0, <2>1, <2>3, SetRunningIsGentle
  <2>5. PICK p \in {"image", "idle"} : pc' = [pc EXCEPT ![h] = p]
    BY <2>1 DEF Deployed
  <2>6. Shrinks(h)
    <3> (~ok) \in BOOLEAN
      OBVIOUS
    <3> QED
      BY <2>1, AnswerShrinks DEF Deployed
  <2> QED
    BY <1>0, <2>1, <2>2, <2>4, <2>5, <2>6, WorkGoesOn, NoneIsZero DEF Deploying
<1> QED
  BY <1>1, <1>2, <1>3

LEMMA MakeStep == ASSUME StacksInv, NEW h \in Handlers, Make(h) PROVE Orderly
<1>00. PICK now : now = Now(h)
  OBVIOUS
<1> DEFINE name == now.name
<1>0. /\ box \in Seq(Boxes) /\ Len(box) \in Nat /\ tag \in Nat /\ pushed \in Nat
      /\ call \in [Handlers -> Calls] /\ call[h] \in Calls /\ HandlerOk(h)
  BY DEF StacksInv, StackTyped
<1>1. PICK ok \in BOOLEAN :
          /\ Working(h, "make")
          /\ Request(~Taken(name), Append(box, Box(name, tag, FALSE)), ok)
          /\ IF ok /\ call[h].verb = "deploy"
             THEN /\ call' = [call EXCEPT ![h].todo = (@ \ {now}) \cup {[now EXCEPT !.id = Len(box')]}]
                  /\ pc' = [pc EXCEPT ![h] = "run"]
             ELSE Deployed(h, ~ok)
          /\ UNCHANGED <<tag, asked>>
  BY <1>00 DEF Make
<1>2. call[h].verb # "prune" /\ Running(h) /\ UNCHANGED <<pushed, old, id>>
  BY <1>0, <1>1 DEF Working, HandlerOk
<1>3. now \in Lines /\ name \in Nat /\ ~Protected(name)
  BY <1>00, <1>2, NowIsALine DEF LineOk, Lines
<1>4. /\ Gentle(0)
      /\ ok => /\ Len(box') = Len(box) + 1 /\ Len(box') \in Existing'
               /\ box'[Len(box')].name = name
  <2>1. (~Taken(name)) \in BOOLEAN
    BY DEF Taken
  <2> HIDE DEF name
  <2> QED
    BY <1>0, <1>1, <1>3, <2>1, CreateIsGentle
<1>5. CASE ok /\ call[h].verb = "deploy"
  <2>1. PICK new \in Lines : /\ new = [now EXCEPT !.id = Len(box')]
                             /\ new.id = Len(box') /\ new.name = name
    <3>1. Len(box') \in Nat
      BY <1>0, <1>4, <1>5
    <3>2. \A n \in Nat : /\ [now EXCEPT !.id = n] \in Lines
                         /\ [now EXCEPT !.id = n].id = n /\ [now EXCEPT !.id = n].name = now.name
      BY <1>3 DEF Lines
    <3> QED
      BY <3>1, <3>2
  <2> DEFINE todo == (call[h].todo \ {now}) \cup {new}
             k == [call[h] EXCEPT !.todo = todo]
  <2>2. call' = [call EXCEPT ![h] = k] /\ pc' = [pc EXCEPT ![h] = "run"]
    BY <1>0, <1>1, <1>5, <2>1
  <2>3. todo \in SUBSET Lines /\ todo # {} /\ todo \subseteq call[h].todo \cup {new}
    BY <1>0 DEF Calls
  <2> HIDE DEF todo
  <2>4. k \in Calls /\ k.todo = todo /\ k.verb = call[h].verb
    BY <1>0, <2>3 DEF Calls
  <2> HIDE DEF k
  <2>5. call'[h] = k /\ call' \in [Handlers -> Calls] /\ \A g \in Handlers \ {h} : call'[g] = call[g]
    BY <1>0, <2>2, <2>4
  <2>6. LineOk(h, new)'
    <3>1. Len(box') \notin 1..Len(box) /\ Len(box') \in Nat
      BY <1>0, <1>4, <1>5
    <3>2. ~Protected(box'[Len(box')].name)
      BY <1>4, <1>5, <3>1 DEF Gentle
    <3> QED
      BY <1>3, <1>4, <1>5, <2>1, <3>1, <3>2 DEF LineOk, Harmless, Tracked
  <2>7. \A r \in call'[h].todo : LineOk(h, r)'
    BY <1>4, <2>3, <2>4, <2>5, <2>6, LineStaysOk
  <2>8. pc'[h] = "run" /\ "run" \in Deploying /\ "run" \notin Steps /\ "run" \notin Holding
    <3> "run" \notin Steps /\ "run" \notin Holding
      BY DEF Steps, Holding
    <3> QED
      BY <2>2 DEF StacksInv, StackTyped, Deploying
  <2>9. TargetsOk(h)'
    BY <1>2, <1>4, <2>8, TargetsStayOk
  <2>10. HandlerOk(h)'
    BY <1>2, <2>3, <2>4, <2>5, <2>7, <2>8, <2>9 DEF HandlerOk, TargetsOk, Running
  <2>11. asked \subseteq asked' /\ tag' \in Nat
    BY <1>0, <1>1
  <2> QED
    BY <1>2, <1>4, <2>2, <2>5, <2>8, <2>10, <2>11, WorkStep, NoneIsZero
<1>6. CASE ~(ok /\ call[h].verb = "deploy")
  <2>1. Deployed(h, ~ok) /\ (~ok) \in BOOLEAN
    BY <1>1, <1>6
  <2>2. PICK p \in {"image", "idle"} : pc' = [pc EXCEPT ![h] = p]
    BY <2>1 DEF Deployed
  <2>3. Shrinks(h)
    BY <2>1, AnswerShrinks DEF Deployed
  <2>4. asked \subseteq asked' /\ tag' \in Nat
    BY <1>0, <1>1
  <2> QED
    BY <1>1, <1>2, <1>4, <2>2, <2>3, <2>4, WorkGoesOn, NoneIsZero DEF Deploying
<1> QED
  BY <1>5, <1>6

-----------------------------------------------------------------------------
(* An operation begins *)

LEMMA BeginStep ==
    ASSUME StacksInv, NEW h \in Handlers, NEW verb \in Verbs \ {"none"},
           NEW rows \in SUBSET Lines, rows # {}, Begin(h, verb, rows),
           \A r \in rows : /\ r.id \in 0..Len(box) /\ Tracked(r.id, r.name)
                           /\ verb # "prune" => Harmless(r.id) /\ ~Protected(r.name),
           NEW p, pc' = [pc EXCEPT ![h] = p], p \in {"each", "network"} \/ p = pc[h],
           verb = "prune" => p = "each"
    PROVE  Orderly
<1> DEFINE k == [verb |-> verb, todo |-> rows, bad |-> FALSE, all |-> rows]
<1>0. /\ box \in Seq(Boxes) /\ tag \in Nat /\ pc \in [Handlers -> Steps \cup Deploying \cup {"each", "drop"}]
      /\ call \in [Handlers -> Calls] /\ HandlerOk(h)
  BY DEF StacksInv, StackTyped
<1>1. /\ ~Running(h) /\ UNCHANGED <<box, pushed, tag, old, id, asked>>
      /\ call' = [call EXCEPT ![h] = k]
  BY DEF Begin, Free
<1>2. k \in Calls /\ k.verb = verb /\ k.todo = rows
  BY DEF Calls
<1> HIDE DEF k
<1>3. call'[h] = k /\ call' \in [Handlers -> Calls] /\ \A g \in Handlers \ {h} : call'[g] = call[g]
  BY <1>0, <1>1, <1>2
<1>4. Gentle(0)
  BY <1>0, <1>1, QuietIsGentle
<1>5. /\ pc'[h] = p /\ p \in Steps \cup Deploying \cup {"each", "drop"}
      /\ p \in Steps => p = pc[h]
      /\ p \in Holding => p = pc[h]
      /\ p # "drop"
  <2>1. "each" \notin Steps /\ "network" \notin Steps /\ "each" \notin Holding /\ "network" \notin Holding
    BY DEF Steps, Holding
  <2>2. pc[h] # "drop"
    BY <1>0, <1>1 DEF HandlerOk
  <2> QED
    BY <1>0, <2>1, <2>2 DEF Deploying
<1>6. TargetsOk(h)'
  BY <1>1, <1>4, <1>5, TargetsStayOk
<1>7. \A r \in rows : LineOk(h, r)'
  BY <1>1, <1>2, <1>3 DEF LineOk, Tracked, Harmless, Existing
<1>8. HandlerOk(h)'
  <2>1. Name(h)' = Name(h) /\ old'[h] = old[h]
    BY <1>1 DEF Name
  <2> QED
    BY <1>0, <1>2, <1>3, <1>5, <1>6, <1>7, <2>1 DEF HandlerOk, TargetsOk, Running
<1> QED
  BY <1>0, <1>1, <1>3, <1>4, <1>5, <1>8, WorkStep, NoneIsZero

LEMMA RowIsALine ==
    ASSUME StacksInv, NEW c \in Existing
    PROVE  /\ Row(c) \in Lines /\ Row(c).id = c /\ c \in 0..Len(box)
           /\ Row(c).name = box[c].name /\ Tracked(c, box[c].name)
<1>1. c \in 1..Len(box) /\ box[c] \in Boxes
  BY DEF StacksInv, StackTyped, Existing
<1> QED
  BY <1>1 DEF Row, Boxes, Lines, Tracked

LEMMA ActOnStep ==
    ASSUME StacksInv, NEW h \in Handlers, NEW c \in Existing, NEW verb \in OnContainers,
           ActOn(h, c, verb)
    PROVE  Orderly
<1>1. /\ ~Protected(box[c].name) /\ Begin(h, verb, {Row(c)})
      /\ IF verb = "update" THEN UNCHANGED <<pc, alone>> ELSE Enter(h, "each")
  BY DEF ActOn, Clear
<1>2. PICK p : pc' = [pc EXCEPT ![h] = p] /\ (p = "each" \/ p = pc[h])
  <2>1. CASE verb = "update"
    <3>1. pc' = [pc EXCEPT ![h] = pc[h]]
      BY <1>1, <2>1 DEF StacksInv, StackTyped
    <3> QED
      BY <3>1
  <2>2. CASE verb # "update"
    BY <1>1, <2>2 DEF Enter
  <2> QED
    BY <2>1, <2>2
<1>3. verb \in Verbs \ {"none"} /\ verb # "prune"
  BY DEF OnContainers, Verbs
<1>4. \A r \in {Row(c)} : /\ r.id \in 0..Len(box) /\ Tracked(r.id, r.name)
                          /\ Harmless(r.id) /\ ~Protected(r.name)
  BY <1>1, RowIsALine DEF Harmless
<1>5. {Row(c)} \in SUBSET Lines /\ {Row(c)} # {}
  BY RowIsALine
<1> QED
  BY <1>1, <1>2, <1>3, <1>4, <1>5, BeginStep

LEMMA ActOnStackStep ==
    ASSUME StacksInv, NEW h \in Handlers,
           NEW verb \in {"start", "stop", "restart", "update", "removeStack"},
           ActOnStack(h, verb)
    PROVE  Orderly
<1>1. /\ Members # {} /\ AllClear(Members) /\ Begin(h, verb, Rows(Members))
      /\ IF verb = "update" THEN UNCHANGED <<pc, alone>> ELSE Enter(h, "each")
  BY DEF ActOnStack
<1>2. PICK p : pc' = [pc EXCEPT ![h] = p] /\ (p = "each" \/ p = pc[h])
  <2>1. CASE verb = "update"
    <3>1. pc' = [pc EXCEPT ![h] = pc[h]]
      BY <1>1, <2>1 DEF StacksInv, StackTyped
    <3> QED
      BY <3>1
  <2>2. CASE verb # "update"
    BY <1>1, <2>2 DEF Enter
  <2> QED
    BY <2>1, <2>2
<1>3. verb \in Verbs \ {"none"} /\ verb # "prune"
  BY DEF Verbs
<1>4. \A c \in Members : c \in Existing /\ ~Protected(box[c].name)
  BY <1>1 DEF Members, AllClear, Clear
<1>5. \A r \in Rows(Members) : /\ r \in Lines /\ r.id \in 0..Len(box) /\ Tracked(r.id, r.name)
                               /\ Harmless(r.id) /\ ~Protected(r.name)
  <2> SUFFICES ASSUME NEW c \in Members
               PROVE  /\ Row(c) \in Lines /\ Row(c).id \in 0..Len(box)
                      /\ Tracked(Row(c).id, Row(c).name)
                      /\ Harmless(Row(c).id) /\ ~Protected(Row(c).name)
    BY DEF Rows
  <2> QED
    BY <1>4, RowIsALine DEF Harmless
<1>6. Rows(Members) \in SUBSET Lines /\ Rows(Members) # {}
  BY <1>1, <1>5 DEF Rows
<1> QED
  BY <1>1, <1>2, <1>3, <1>5, <1>6, BeginStep

LEMMA PruneStep == ASSUME StacksInv, NEW h \in Handlers, Prune(h) PROVE Orderly
<1> DEFINE stopped == {c \in Existing : ~box[c].running}
<1>1. stopped # {} /\ Begin(h, "prune", Rows(stopped)) /\ pc' = [pc EXCEPT ![h] = "each"]
  BY DEF Prune, Enter
<1>2. \A c \in stopped : c \in Existing
  OBVIOUS
<1> HIDE DEF stopped
<1>3. \A r \in Rows(stopped) : r \in Lines /\ r.id \in 0..Len(box) /\ Tracked(r.id, r.name)
  BY <1>2, RowIsALine DEF Rows
<1>4. Rows(stopped) \in SUBSET Lines /\ Rows(stopped) # {} /\ "prune" \in Verbs \ {"none"}
  BY <1>1, <1>3 DEF Rows, Verbs
<1> QED
  BY <1>1, <1>3, <1>4, BeginStep

LEMMA DeployStep ==
    ASSUME StacksInv, NEW h \in Handlers, NEW names \in SUBSET Names, names # {},
           NEW start \in BOOLEAN, Deploy(h, names, start)
    PROVE  Orderly
<1> DEFINE rows == {[id |-> NoId, name |-> n, running |-> FALSE] : n \in names}
           verb == IF start THEN "deploy" ELSE "deployStopped"
<1>1. Deployable(names) /\ Begin(h, verb, rows) /\ pc' = [pc EXCEPT ![h] = "network"]
  BY DEF Deploy, Enter
<1>2. verb \in Verbs \ {"none"} /\ verb # "prune"
  BY DEF Verbs
<1>3. \A n \in names : n \in Nat /\ ~Protected(n)
  BY <1>1, NamesAssumption, BoundsAssumption DEF Names, Deployable, Protected
<1>4. \A r \in rows : /\ r \in Lines /\ r.id \in 0..Len(box) /\ Tracked(r.id, r.name)
                      /\ Harmless(r.id) /\ ~Protected(r.name)
  <2> SUFFICES ASSUME NEW n \in names, NEW r, r = [id |-> NoId, name |-> n, running |-> FALSE]
               PROVE  /\ r \in Lines /\ r.id \in 0..Len(box) /\ Tracked(r.id, r.name)
                      /\ Harmless(r.id) /\ ~Protected(r.name)
    OBVIOUS
  <2>1. Len(box) \in Nat
    BY DEF StacksInv, StackTyped
  <2> QED
    BY <1>3, <2>1, NoneIsZero DEF Lines, NoId, Tracked, Harmless
<1>5. rows \in SUBSET Lines /\ rows # {}
  BY <1>4
<1> HIDE DEF rows, verb
<1> QED
  BY <1>1, <1>2, <1>4, <1>5, BeginStep

-----------------------------------------------------------------------------
(* The steps of an update, within an operation *)

(* The container that a handler's step may remove. *)
Foreseen(h, x) == x \in Existing /\ x \notin Existing' =>
    (pc[h] = "discard" /\ x = id[h]) \/ (pc[h] = "remove" /\ x = old[h].id)

LEMMA UpdateHandlerOk ==
    ASSUME StacksInv, NEW h \in Handlers, pc[h] \in Steps \ {"idle"}, NEW x, Gentle(x), Shrinks(h),
           pc'[h] \in Steps, pc'[h] # "idle" => old'[h] = old[h], TargetsOk(h)'
    PROVE  HandlerOk(h)'
<1>1. HandlerOk(h) /\ pc[h] \notin {"each", "drop"} /\ pc'[h] \notin {"each", "drop"}
  BY DEF StacksInv, Steps
<1>2. call[h].verb # "prune" /\ old[h].id # NoId /\ ~Protected(Name(h))
  BY <1>1 DEF HandlerOk
<1>3. pc'[h] # "idle" => old'[h].id # NoId /\ ~Protected(Name(h))'
  BY <1>2 DEF Name, Protected
<1>4. \A r \in call'[h].todo : LineOk(h, r)'
  BY LinesStayOk DEF Shrinks
<1>5. call'[h].verb # "prune" /\ (Running(h)' => call'[h].todo # {})
  BY <1>2 DEF Shrinks, Running
<1> QED
  BY <1>1, <1>3, <1>4, <1>5 DEF HandlerOk, TargetsOk

LEMMA GotoUpdate ==
    ASSUME StacksInv, NEW h \in Handlers, pc[h] \in Steps \ {"idle"}, NEW x, Gentle(x), Foreseen(h, x),
           UNCHANGED <<pushed, asked>>, tag' \in Nat, Shrinks(h),
           NEW step \in Steps \ {"idle"}, Goto(h, step),
           step \in Holding => pc[h] = "start" /\ (step = "remove" => id[h] \in Existing')
    PROVE  Orderly
<1>0. StackTyped /\ Len(box) \in Nat /\ pc' = [pc EXCEPT ![h] = step] /\ UNCHANGED <<old, id>>
  BY DEF StacksInv, StackTyped, Goto
<1>1. box' \in Seq(Boxes) /\ Len(box') \in Nat /\ Len(box') >= Len(box)
  BY DEF Gentle
<1>2. 0..Len(box) \subseteq 0..Len(box')
  BY <1>0, <1>1
<1>3. StackTyped'
  BY <1>0, <1>1, <1>2 DEF StackTyped, Shrinks
<1>4. Others(h) /\ pc'[h] = step
  BY <1>0 DEF Others, StackTyped
<1>5. HandlerOk(h)'
  <2>1. TargetsOk(h)'
    BY <1>0, <1>4, TargetsStayOk DEF Holding
  <2> QED
    BY <1>0, <1>4, <2>1, UpdateHandlerOk
<1>6. \A g \in Handlers : HandlerOk(g)'
  BY <1>4, <1>5, HandlersStep DEF Shrinks
<1>7. Services'
  <2>1. \A g \in Handlers : pc'[g] \in Holding =>
            /\ pc[g] \in Holding /\ id'[g] = id[g] /\ old'[g] = old[g]
            /\ pc'[g] = "remove" => pc[g] = "remove" \/ id[g] \in Existing'
            /\ pc[g] = "remove" => pc'[g] = "remove"
    BY <1>0, <1>4 DEF Others, Holding
  <2> QED
    BY <2>1, ServicesStep DEF Foreseen, Pending
<1>8. Licensed(x)
  BY <1>4 DEF Licensed, Foreseen, Holding
<1> QED
  BY <1>3, <1>6, <1>7, <1>8 DEF StacksInv, Orderly

LEMMA ReportUpdate ==
    ASSUME StacksInv, NEW h \in Handlers, pc[h] \in Steps \ {"idle"}, NEW x, Gentle(x), Foreseen(h, x),
           UNCHANGED <<pushed, asked>>, tag' \in Nat, Shrinks(h), NEW what, Report(h, what)
    PROVE  Orderly
<1>0. /\ StackTyped /\ Len(box) \in Nat
      /\ pc' = [pc EXCEPT ![h] = "idle"] /\ old' = [old EXCEPT ![h] = Nothing]
      /\ id' = [id EXCEPT ![h] = NoId]
  BY DEF StacksInv, StackTyped, Report
<1>1. box' \in Seq(Boxes) /\ Len(box') \in Nat /\ Len(box') >= Len(box)
  BY DEF Gentle
<1>2. 0..Len(box) \subseteq 0..Len(box')
  BY <1>0, <1>1
<1>3. Nothing \in [id : 0..Len(box), box : Boxes] /\ NoId \in 0..Len(box) /\ Nothing.id = 0
  BY <1>0 DEF Nothing, NoId, Removed, Boxes
<1>4. StackTyped'
  <2>1. old' \in [Handlers -> [id : 0..Len(box'), box : Boxes]] /\ id' \in [Handlers -> 0..Len(box')]
    BY <1>0, <1>2, <1>3 DEF StackTyped
  <2>2. pc' \in [Handlers -> Steps \cup Deploying \cup {"each", "drop"}]
    BY <1>0 DEF StackTyped, Steps
  <2> QED
    BY <1>0, <1>1, <2>1, <2>2 DEF StackTyped, Shrinks
<1>5. Others(h) /\ pc'[h] = "idle" /\ old'[h] = Nothing
  BY <1>0 DEF Others, StackTyped
<1>6. HandlerOk(h)'
  <2>1. 0 \notin Existing'
    BY <1>1 DEF Existing
  <2>2. TargetsOk(h)'
    BY <1>3, <1>5, <2>1 DEF TargetsOk, Harmless, Tracked, Holding
  <2> QED
    BY <1>5, <2>2, UpdateHandlerOk DEF Steps
<1>7. \A g \in Handlers : HandlerOk(g)'
  BY <1>5, <1>6, HandlersStep DEF Shrinks
<1>8. Services'
  <2>1. \A g \in Handlers : pc'[g] \in Holding =>
            pc'[g] = pc[g] /\ id'[g] = id[g] /\ old'[g] = old[g]
    BY <1>5 DEF Others, Holding
  <2> QED
    BY <2>1, ServicesStep DEF Foreseen, Pending
<1>9. Licensed(x)
  BY <1>5 DEF Licensed, Foreseen
<1> QED
  BY <1>4, <1>7, <1>8, <1>9 DEF StacksInv, Orderly

LEMMA CreatedUpdate ==
    ASSUME StacksInv, NEW h \in Handlers, pc[h] = "create", Gentle(0),
           UNCHANGED <<pushed, tag, asked>>, Shrinks(h),
           Len(box') = Len(box) + 1, Len(box') \in Existing', box'[Len(box')].name = Name(h),
           NEW step \in {"start", "remove"}, Created(h, step)
    PROVE  Orderly
<1>0. /\ StackTyped /\ Len(box) \in Nat /\ HandlerOk(h)
      /\ pc' = [pc EXCEPT ![h] = step] /\ id' = [id EXCEPT ![h] = Len(box')] /\ old' = old
  BY DEF StacksInv, StackTyped, Created
<1>1. box' \in Seq(Boxes) /\ step \in Steps
  BY DEF Gentle, Steps
<1>2. 0..Len(box) \subseteq 0..Len(box') /\ Len(box') \in 0..Len(box')
  BY <1>0
<1>3. StackTyped'
  <2>1. old' \in [Handlers -> [id : 0..Len(box'), box : Boxes]] /\ id' \in [Handlers -> 0..Len(box')]
    BY <1>0, <1>2 DEF StackTyped
  <2> QED
    BY <1>0, <1>1, <2>1 DEF StackTyped, Shrinks
<1>4. Others(h) /\ pc'[h] = step /\ id'[h] = Len(box')
  BY <1>0 DEF Others, StackTyped
<1>5. HandlerOk(h)'
  <2>1. Len(box') \notin 1..Len(box)
    BY <1>0
  <2>2. ~Protected(box'[Len(box')].name)
    BY <2>1 DEF Gentle
  <2>3. old[h].id \in 0..Len(box) /\ Harmless(old[h].id) /\ Tracked(old[h].id, Name(h))
    BY <1>0 DEF HandlerOk, StackTyped
  <2>4. /\ old[h].id \in Existing' => ~Protected(box'[old[h].id].name)
        /\ old[h].id \in Existing' => Service(box'[old[h].id].name) = Service(Name(h))
    BY <1>0, <2>3, StaysHarmless, StaysTracked DEF StackTyped
  <2>5. TargetsOk(h)'
    BY <1>0, <1>4, <2>2, <2>4 DEF TargetsOk, Harmless, Tracked, Name
  <2> QED
    BY <1>0, <1>1, <1>4, <2>5, UpdateHandlerOk DEF Steps
<1>6. \A g \in Handlers : HandlerOk(g)'
  BY <1>4, <1>5, HandlersStep DEF Shrinks
<1>7. Services'
  BY <1>0, <1>4, CreatedServices
<1>8. Licensed(0)
  BY NoneIsZero DEF Licensed
<1> QED
  BY <1>3, <1>6, <1>7, <1>8 DEF StacksInv, Orderly

(* What a step of an update may rely on. *)
LEMMA UpdateTargets ==
    ASSUME StacksInv, NEW h \in Handlers, pc[h] \in Steps \ {"idle"}
    PROVE  /\ box \in Seq(Boxes) /\ tag \in Nat /\ pushed \in Nat
           /\ old[h].id \in 0..Len(box) /\ Harmless(old[h].id) /\ Tracked(old[h].id, Name(h))
           /\ Name(h) \in Nat /\ ~Protected(Name(h)) /\ WasRunning(h) \in BOOLEAN
           /\ id[h] \in 0..Len(box) /\ 0 \notin Existing
           /\ pc[h] \in Holding => Harmless(id[h]) /\ Tracked(id[h], Name(h)) /\ id[h] # 0
<1>1. StackTyped /\ HandlerOk(h) /\ NewerThanOld
  BY DEF StacksInv, Services
<1>2. old[h] \in [id : 0..Len(box), box : Boxes] /\ id[h] \in 0..Len(box)
  BY <1>1 DEF StackTyped
<1>3. Name(h) \in Nat /\ WasRunning(h) \in BOOLEAN
  BY <1>2 DEF Name, WasRunning, Boxes
<1>4. pc[h] \in Holding => id[h] # 0
  BY <1>1, <1>2 DEF NewerThanOld
<1> QED
  BY <1>1, <1>2, <1>3, <1>4, NoneIsZero DEF StackTyped, HandlerOk

LEMMA EarlyUpdate ==
    ASSUME StacksInv, NEW h \in Handlers, Shrinks(h), asked' = asked,
           Pull(h) \/ Compare(h) \/ Stop(h) \/ Park(h) \/ Resume(h)
    PROVE  Orderly
<1> USE DEF At, Steps, Holding
<1>0. pc[h] \in Steps \ {"idle"}
  BY DEF Pull, Compare, Stop, Park, Resume
<1>00. Foreseen(h, 0)
  BY NoneIsZero DEF Foreseen
<1>1. CASE Pull(h)
  <2>1. Gentle(0) /\ tag' \in Nat /\ pushed' = pushed
    <3>1. box' = box /\ tag' \in {tag, pushed} /\ pushed' = pushed
      BY <1>1 DEF Pull, Request
    <3> QED
      BY <1>0, <3>1, UpdateTargets, QuietIsGentle
  <2>2. Goto(h, "compare") \/ Report(h, "failed")
    BY <1>1 DEF Pull
  <2> QED
    BY <1>0, <1>00, <2>1, <2>2, GotoUpdate, ReportUpdate
<1>2. CASE Compare(h)
  <2>1. PICK ok \in BOOLEAN :
            /\ Request(TRUE, box, ok)
            /\ IF ~ok THEN Report(h, "failed")
               ELSE IF tag = old[h].box.image THEN Report(h, "current")
               ELSE Goto(h, IF WasRunning(h) THEN "stop" ELSE "park")
    BY <1>2 DEF Compare
  <2>2. Gentle(0) /\ tag' \in Nat /\ pushed' = pushed
    <3>1. box' = box /\ tag' = tag /\ pushed' = pushed
      BY <1>2, <2>1 DEF Compare, Request
    <3> QED
      BY <1>0, <3>1, UpdateTargets, QuietIsGentle
  <2>3. Report(h, "failed") \/ Report(h, "current") \/ Goto(h, "stop") \/ Goto(h, "park")
    BY <2>1
  <2> QED
    BY <1>0, <1>00, <2>2, <2>3, GotoUpdate, ReportUpdate
<1>3. CASE Stop(h)
  <2>1. PICK ok \in BOOLEAN :
            /\ SetRunning(old[h].id, FALSE, ok)
            /\ Goto(h, "park") \/ Report(h, "failed")
    BY <1>3 DEF Stop
  <2>2. Gentle(0) /\ tag' \in Nat /\ pushed' = pushed
    BY <1>0, <1>3, <2>1, UpdateTargets, SetRunningIsGentle DEF Stop
  <2> QED
    BY <1>0, <1>00, <2>1, <2>2, GotoUpdate, ReportUpdate
<1>4. CASE Park(h)
  <2>1. PICK ok \in BOOLEAN :
            /\ Rename(old[h].id, Name(h) + Suffix, ok)
            /\ Goto(h, "create") \/ Goto(h, "resume") \/ Report(h, "unchanged")
    BY <1>4 DEF Park
  <2> DEFINE parked == Name(h) + Suffix
  <2>2. parked \in Nat /\ parked >= Suffix
    BY <1>0, UpdateTargets, BoundsAssumption
  <2>3. ~Protected(parked)
    BY <2>2, NamesAssumption, BoundsAssumption DEF Protected
  <2>4. Tracked(old[h].id, parked)
    BY <1>0, UpdateTargets, ParkedService DEF Tracked
  <2>5. Rename(old[h].id, parked, ok)
    BY <2>1
  <2> HIDE DEF parked
  <2>6. Gentle(0) /\ tag' \in Nat /\ pushed' = pushed
    BY <1>0, <1>4, <2>2, <2>3, <2>4, <2>5, UpdateTargets, RenameIsGentle DEF Park
  <2> QED
    BY <1>0, <1>00, <2>1, <2>6, GotoUpdate, ReportUpdate
<1>5. CASE Resume(h)
  <2>1. PICK ok \in BOOLEAN : SetRunning(old[h].id, TRUE, ok) /\ Report(h, "unchanged")
    BY <1>5 DEF Resume
  <2>2. Gentle(0) /\ tag' \in Nat /\ pushed' = pushed
    BY <1>0, <1>5, <2>1, UpdateTargets, SetRunningIsGentle DEF Resume
  <2> QED
    BY <1>0, <1>00, <2>1, <2>2, ReportUpdate
<1> QED
  BY <1>1, <1>2, <1>3, <1>4, <1>5

LEMMA CreateUpdate ==
    ASSUME StacksInv, NEW h \in Handlers, Shrinks(h), asked' = asked, Create(h)
    PROVE  Orderly
<1>0. pc[h] = "create" /\ pc[h] \in Steps \ {"idle"} /\ UNCHANGED <<pushed, tag>>
  BY DEF Create, At, Steps
<1>00. Foreseen(h, 0)
  BY NoneIsZero DEF Foreseen
<1>1. PICK ok \in BOOLEAN :
          /\ Request(~Taken(Name(h)), Append(box, Box(Name(h), tag, FALSE)), ok)
          /\ IF ok THEN Created(h, IF WasRunning(h) THEN "start" ELSE "remove")
             ELSE Goto(h, "putback")
  BY DEF Create
<1>2. /\ Gentle(0)
      /\ ok => /\ Len(box') = Len(box) + 1 /\ Len(box') \in Existing'
               /\ box'[Len(box')].name = Name(h)
  <2>1. (~Taken(Name(h))) \in BOOLEAN
    BY DEF Taken
  <2> QED
    BY <1>0, <1>1, <2>1, UpdateTargets, CreateIsGentle
<1>3. CASE ok
  <2>1. PICK step \in {"start", "remove"} : Created(h, step)
    BY <1>1, <1>3
  <2> QED
    BY <1>0, <1>2, <1>3, <2>1, CreatedUpdate
<1>4. CASE ~ok
  <2>1. tag' \in Nat
    BY <1>0, UpdateTargets
  <2> QED
    BY <1>0, <1>00, <1>1, <1>2, <1>4, <2>1, GotoUpdate DEF Steps, Holding
<1> QED
  BY <1>3, <1>4

LEMMA LateUpdate ==
    ASSUME StacksInv, NEW h \in Handlers, Shrinks(h), asked' = asked,
           Start(h) \/ RemoveOld(h) \/ Discard(h) \/ PutBack(h) \/ StartBack(h)
    PROVE  Orderly
<1> USE DEF At, Steps, Holding
<1>0. pc[h] \in Steps \ {"idle"}
  BY DEF Start, RemoveOld, Discard, PutBack, StartBack
<1>00. Foreseen(h, 0)
  BY NoneIsZero DEF Foreseen
<1>1. CASE Start(h)
  <2>1. PICK ok \in BOOLEAN :
            SetRunning(id[h], TRUE, ok) /\ Goto(h, IF ok THEN "remove" ELSE "discard")
    BY <1>1 DEF Start
  <2>2. pc[h] = "start" /\ UNCHANGED <<pushed, tag>>
    BY <1>1 DEF Start
  <2>3. Gentle(0) /\ tag' \in Nat /\ (ok => id[h] \in Existing')
    BY <1>0, <2>1, <2>2, UpdateTargets, SetRunningIsGentle
  <2>4. CASE ok
    BY <1>0, <1>00, <2>1, <2>2, <2>3, <2>4, GotoUpdate
  <2>5. CASE ~ok
    BY <1>0, <1>00, <2>1, <2>2, <2>3, <2>5, GotoUpdate
  <2> QED
    BY <2>4, <2>5
<1>2. CASE RemoveOld(h)
  <2>1. PICK ok \in BOOLEAN :
            /\ RemoveForced(old[h].id, ok)
            /\ Report(h, "updated") \/ Report(h, "updatedOldKept")
    BY <1>2 DEF RemoveOld
  <2>2. pc[h] = "remove" /\ UNCHANGED <<pushed, tag>>
    BY <1>2 DEF RemoveOld
  <2>3. Gentle(old[h].id) /\ tag' \in Nat
    <3>1. Same(old[h].id, Removed)
      BY <2>1 DEF RemoveForced, Request, Same
    <3> QED
      BY <1>0, <2>2, <3>1, UpdateTargets, RemoveIsGentle
  <2>4. Foreseen(h, old[h].id)
    BY <2>2 DEF Foreseen
  <2> QED
    BY <1>0, <2>1, <2>2, <2>3, <2>4, ReportUpdate
<1>3. CASE Discard(h)
  <2>1. PICK ok \in BOOLEAN : RemoveForced(id[h], ok) /\ Goto(h, "putback")
    BY <1>3 DEF Discard
  <2>2. pc[h] = "discard" /\ UNCHANGED <<pushed, tag>>
    BY <1>3 DEF Discard
  <2>3. Gentle(id[h]) /\ tag' \in Nat
    <3>1. Same(id[h], Removed)
      BY <2>1 DEF RemoveForced, Request, Same
    <3> QED
      BY <1>0, <2>2, <3>1, UpdateTargets, RemoveIsGentle
  <2>4. Foreseen(h, id[h])
    BY <2>2 DEF Foreseen
  <2> QED
    BY <1>0, <2>1, <2>2, <2>3, <2>4, GotoUpdate
<1>4. CASE PutBack(h)
  <2>1. PICK ok \in BOOLEAN :
            /\ Rename(old[h].id, Name(h), ok)
            /\ \/ Goto(h, "startback") \/ Goto(h, "startonly")
               \/ Report(h, "rolledBack") \/ Report(h, "notRestored")
    BY <1>4 DEF PutBack
  <2>2. UNCHANGED <<pushed, tag>>
    BY <1>4 DEF PutBack
  <2>3. Gentle(0) /\ tag' \in Nat
    BY <1>0, <2>1, <2>2, UpdateTargets, RenameIsGentle
  <2> QED
    BY <1>0, <1>00, <2>1, <2>2, <2>3, GotoUpdate, ReportUpdate
<1>5. CASE StartBack(h)
  <2>1. PICK ok \in BOOLEAN :
            /\ SetRunning(old[h].id, TRUE, ok)
            /\ Report(h, "rolledBack") \/ Report(h, "notRestored")
    BY <1>5 DEF StartBack
  <2>2. UNCHANGED <<pushed, tag>>
    BY <1>5 DEF StartBack
  <2>3. Gentle(0) /\ tag' \in Nat
    BY <1>0, <2>1, <2>2, UpdateTargets, SetRunningIsGentle
  <2> QED
    BY <1>0, <1>00, <2>1, <2>2, <2>3, ReportUpdate
<1> QED
  BY <1>1, <1>2, <1>3, <1>4, <1>5

LEMMA UpdateNextStep == ASSUME StacksInv, NEW h \in Handlers, UpdateNext(h) PROVE Orderly
<1>0. /\ box \in Seq(Boxes) /\ Len(box) \in Nat /\ tag \in Nat /\ HandlerOk(h)
      /\ pc[h] = "idle" /\ call[h].verb = "update" /\ Running(h) /\ asked' = asked
  BY DEF StacksInv, StackTyped, UpdateNext, Running
<1>1. Now(h).id \in 0..Len(box) /\ Harmless(Now(h).id)
  BY <1>0, NowIsALine DEF LineOk
<1>2. CASE Inspect(h) /\ old'[h].id = Now(h).id /\ UNCHANGED call
  <2>1. PICK c \in Existing :
            /\ old' = [old EXCEPT ![h] = [id |-> c, box |-> box[c]]]
            /\ pc' = [pc EXCEPT ![h] = "pull"] /\ UNCHANGED <<id, box, pushed, tag>>
    BY <1>2 DEF Inspect
  <2>2. c \in 1..Len(box) /\ box[c] \in Boxes /\ c # NoId
    BY <1>0 DEF Existing, NoId
  <2>3. /\ old'[h] = [id |-> c, box |-> box[c]] /\ old'[h].id = c /\ Name(h)' = box[c].name
        /\ c = Now(h).id /\ pc'[h] = "pull" /\ pc'[h] \notin Holding
    BY <1>2, <2>1 DEF StacksInv, StackTyped, Name, Holding
  <2>4. ~Protected(box[c].name)
    BY <1>1, <2>3 DEF Harmless
  <2>5. Gentle(0)
    BY <1>0, <2>1, QuietIsGentle
  <2>6. Shrinks(h)
    BY <1>2, SameShrinks
  <2>7. StackTyped'
    <3>1. old' \in [Handlers -> [id : 0..Len(box), box : Boxes]]
      <4>1. [id |-> c, box |-> box[c]] \in [id : 0..Len(box), box : Boxes]
        BY <1>0, <2>2
      <4> HIDE <2>2
      <4> QED
        BY <2>1, <4>1 DEF StacksInv, StackTyped
    <3> QED
      BY <1>2, <2>1, <3>1 DEF StacksInv, StackTyped, Steps
  <2>8. Others(h)
    BY <2>1 DEF Others, StacksInv, StackTyped
  <2>9. HandlerOk(h)'
    <3>1. TargetsOk(h)'
      BY <2>1, <2>3, <2>4 DEF TargetsOk, Harmless, Tracked, Existing
    <3>2. \A r \in call'[h].todo : LineOk(h, r)'
      BY <2>5, <2>6, LinesStayOk DEF Shrinks
    <3> QED
      BY <1>0, <1>2, <2>2, <2>3, <2>4, <3>1, <3>2 DEF HandlerOk, TargetsOk, Running, Protected
  <2>10. \A g \in Handlers : HandlerOk(g)'
    BY <2>5, <2>6, <2>8, <2>9, HandlersStep DEF Shrinks
  <2>11. Services'
    <3>1. \A g \in Handlers : pc'[g] \in Holding =>
              pc'[g] = pc[g] /\ id'[g] = id[g] /\ old'[g] = old[g]
      BY <2>3, <2>8 DEF Others
    <3> QED
      BY <1>0, <2>5, <3>1, ServicesStep, NoneIsZero
  <2> QED
    BY <2>5, <2>7, <2>10, <2>11, NoneIsZero DEF StacksInv, Orderly, Licensed
<1>3. CASE call' = [call EXCEPT ![h] = Rest(h, TRUE, FALSE)] /\ UNCHANGED vars
  <2>1. UNCHANGED <<box, pushed, tag, pc, old, id>>
    BY <1>3 DEF vars
  <2>2. Gentle(0)
    BY <1>0, <2>1, QuietIsGentle
  <2>3. Shrinks(h)
    BY <1>3, AnswerShrinks
  <2>4. pc' = [pc EXCEPT ![h] = pc[h]] /\ pc[h] \in Steps
    BY <1>0, <2>1 DEF StacksInv, StackTyped, Steps
  <2>5. HandlerOk(h)'
    <3>1. TargetsOk(h)'
      BY <2>1, <2>2, TargetsStayOk
    <3>2. \A r \in call'[h].todo : LineOk(h, r)'
      BY <2>2, <2>3, LinesStayOk DEF Shrinks
    <3>3. pc'[h] = "idle"
      BY <1>0, <2>1
    <3> QED
      BY <1>0, <2>3, <3>1, <3>2, <3>3 DEF HandlerOk, TargetsOk, Running, Shrinks
  <2> QED
    BY <1>0, <2>1, <2>2, <2>3, <2>4, <2>5, WorkStep, NoneIsZero DEF Shrinks
<1> QED
  BY <1>2, <1>3 DEF UpdateNext

LEMMA UpdateStepStep == ASSUME StacksInv, NEW h \in Handlers, UpdateStep(h) PROVE Orderly
<1>1. Shrinks(h) /\ asked' = asked
  <2>1. PICK failed \in BOOLEAN, halted \in BOOLEAN :
            call' = call \/ call' = [call EXCEPT ![h] = Rest(h, failed, halted)]
    BY DEF UpdateStep, Halts
  <2> QED
    BY <2>1, SameShrinks, AnswerShrinks DEF UpdateStep
<1>2. ~Inspect(h) /\ Update(h)
  BY DEF UpdateStep, Inspect
<1> QED
  BY <1>1, <1>2, EarlyUpdate, CreateUpdate, LateUpdate DEF Update

-----------------------------------------------------------------------------
LEMMA RestartServerStep == ASSUME StacksInv, RestartServer PROVE Orderly
<1>1. /\ pc' = [h \in Handlers |-> "idle"] /\ old' = [h \in Handlers |-> Nothing]
      /\ id' = [h \in Handlers |-> NoId] /\ call' = [h \in Handlers |-> Answered(TRUE)]
      /\ UNCHANGED <<box, pushed, tag, asked>>
  BY DEF RestartServer, Restart
<1>2. /\ box \in Seq(Boxes) /\ Len(box) \in Nat /\ pushed \in Nat /\ tag \in Nat
      /\ 0 \notin Existing
  BY NoneIsZero DEF StacksInv, StackTyped
<1>3. /\ Nothing \in [id : 0..Len(box), box : Boxes] /\ NoId \in 0..Len(box) /\ Nothing.id = 0
      /\ Answered(TRUE) \in Calls /\ Answered(TRUE).todo = {} /\ Answered(TRUE).verb = "none"
  BY <1>2 DEF Nothing, NoId, Removed, Boxes, Answered, Calls, Verbs
<1>4. StackTyped'
  BY <1>1, <1>2, <1>3 DEF StackTyped, Steps
<1>5. Gentle(0)
  BY <1>1, <1>2, QuietIsGentle
<1>6. \A h \in Handlers : HandlerOk(h)'
  <2> SUFFICES ASSUME NEW h \in Handlers PROVE HandlerOk(h)'
    OBVIOUS
  <2>1. pc'[h] = "idle" /\ old'[h] = Nothing /\ call'[h] = Answered(TRUE)
    BY <1>1
  <2>2. 0 \notin Existing'
    BY <1>1, <1>2 DEF Existing
  <2> QED
    BY <1>3, <2>1, <2>2 DEF HandlerOk, Running, Harmless, Tracked, Holding
<1>7. Services'
  <2>1. \A g \in Handlers : pc'[g] \notin Holding
    BY <1>1 DEF Holding
  <2> QED
    BY <1>1, <1>2, <1>5, <2>1, ServicesStep
<1> QED
  BY <1>2, <1>4, <1>5, <1>6, <1>7 DEF StacksInv, Orderly, Licensed

LEMMA PushImageStep == ASSUME StacksInv, PushImage \/ UNCHANGED allVars PROVE Orderly
<1>1. UNCHANGED <<box, tag, pc, old, id, call, asked>> /\ pushed' \in {pushed, pushed + 1}
  BY DEF PushImage, Push, allVars, vars, stackVars
<1>2. box \in Seq(Boxes) /\ 0 \notin Existing
  BY NoneIsZero DEF StacksInv, StackTyped
<1>3. StackTyped'
  BY <1>1 DEF StacksInv, StackTyped
<1>4. Gentle(0)
  BY <1>1, <1>2, QuietIsGentle
<1>5. \A g \in Handlers : HandlerOk(g)'
  BY <1>1, <1>4, StaysOk
<1>6. Services'
  BY <1>1, <1>2, <1>4, ServicesStep
<1> QED
  BY <1>2, <1>3, <1>4, <1>5, <1>6 DEF StacksInv, Orderly, Licensed

LEMMA StacksStep == ASSUME StacksInv, [NextStacks]_allVars PROVE Orderly
<1>1. ASSUME NEW h \in Handlers, Operation(h) PROVE Orderly
  <2>1. ASSUME NEW c \in Existing, NEW verb \in OnContainers, ActOn(h, c, verb) PROVE Orderly
    BY <2>1, ActOnStep
  <2>2. ASSUME NEW verb \in {"start", "stop", "restart", "update", "removeStack"},
               ActOnStack(h, verb)
        PROVE  Orderly
    BY <2>2, ActOnStackStep
  <2>3. ASSUME NEW names \in (SUBSET Names) \ {{}}, NEW start \in BOOLEAN, Deploy(h, names, start)
        PROVE  Orderly
    BY <2>3, DeployStep
  <2> QED
    BY <1>1, <2>1, <2>2, <2>3, PruneStep, SetStateStep, StopToRemoveStep, CheckToPruneStep,
       DropStep, DeployingStep, MakeStep, UpdateNextStep, UpdateStepStep DEF Operation
<1> QED
  BY <1>1, RestartServerStep, PushImageStep DEF NextStacks

LEMMA ThreeBoxes == ASSUME NEW S, NEW a \in S, NEW b \in S, NEW c \in S
                    PROVE <<a, b, c>> \in Seq(S)
OBVIOUS

LEMMA InitStacksInv == InitStacks => StacksInv
<1> SUFFICES ASSUME InitStacks PROVE StacksInv
  OBVIOUS
<1>1. PICK up \in BOOLEAN :
          box = <<Box(0, 1, TRUE), Box(1, 1, up), Box(CHOOSE n \in Reserved : TRUE, 1, TRUE)>>
  BY DEF InitStacks
<1>2. PICK n \in Reserved : n = CHOOSE m \in Reserved : TRUE
  BY NamesAssumption
<1>3. /\ n \in Nat /\ 0 \in 0..Suffix-1 /\ 1 \in 0..Suffix-1
  BY NamesAssumption, BoundsAssumption
<1>4. /\ box = <<Box(0, 1, TRUE), Box(1, 1, up), Box(n, 1, TRUE)>>
      /\ Len(box) = 3 /\ DOMAIN box = 1..3 /\ box[1] = Box(0, 1, TRUE) /\ box[2] = Box(1, 1, up)
  BY <1>1, <1>2
<1>5. box \in Seq(Boxes)
  <2>1. Box(0, 1, TRUE) \in Boxes /\ Box(1, 1, up) \in Boxes /\ Box(n, 1, TRUE) \in Boxes
    BY <1>3 DEF Box, Boxes
  <2>2. <<Box(0, 1, TRUE), Box(1, 1, up), Box(n, 1, TRUE)>> \in Seq(Boxes)
    BY <2>1, ThreeBoxes
  <2> QED
    BY ONLY <1>4, <2>2
<1>6. /\ pushed = 1 /\ tag = 1 /\ pc = [h \in Handlers |-> "idle"]
      /\ old = [h \in Handlers |-> Nothing] /\ id = [h \in Handlers |-> NoId]
      /\ call = [h \in Handlers |-> Answered(FALSE)]
  BY DEF InitStacks
<1>7. /\ Nothing \in [id : 0..3, box : Boxes] /\ NoId \in 0..3 /\ Nothing.id = 0
      /\ Answered(FALSE) \in Calls /\ Answered(FALSE).todo = {} /\ Answered(FALSE).verb = "none"
  BY DEF Nothing, NoId, Removed, Boxes, Answered, Calls, Verbs
<1>8. StackTyped
  <2>1. /\ old \in [Handlers -> [id : 0..Len(box), box : Boxes]]
        /\ id \in [Handlers -> 0..Len(box)] /\ call \in [Handlers -> Calls]
    BY <1>4, <1>6, <1>7
  <2>2. pc \in [Handlers -> Steps \cup Deploying \cup {"each", "drop"}]
    BY <1>6 DEF Steps
  <2> QED
    BY <1>5, <1>6, <2>1, <2>2 DEF StackTyped
<1>9. 0 \notin Existing
  BY <1>4 DEF Existing
<1>10. \A h \in Handlers : HandlerOk(h)
  <2> SUFFICES ASSUME NEW h \in Handlers PROVE HandlerOk(h)
    OBVIOUS
  <2>1. pc[h] = "idle" /\ old[h] = Nothing /\ call[h] = Answered(FALSE)
    BY <1>6
  <2> QED
    BY <1>7, <1>9, <2>1 DEF HandlerOk, Running, Harmless, Tracked, Holding
<1>11. \A h \in Handlers : pc[h] = "idle"
  BY <1>6
<1>12. 1 \in KeptFor(0) /\ 2 \in KeptFor(1)
  <2>1. Service(0) = 0 /\ Service(1) = 1
    BY <1>3, OwnService
  <2>2. \A c : ~Pending(c)
    BY <1>11 DEF Pending
  <2>3. box[1].exists /\ box[2].exists /\ box[1].name = 0 /\ box[2].name = 1
    BY <1>4 DEF Box
  <2>4. 1 \in DOMAIN box /\ 2 \in DOMAIN box
    BY <1>4
  <2>5. 1 \in Kept /\ 2 \in Kept
    BY <2>2, <2>3, <2>4 DEF Kept, Existing
  <2> QED
    BY <2>1, <2>3, <2>5 DEF KeptFor
<1>13. Services
  BY <1>11, <1>12 DEF Services, NewerThanOld, OwnId, SuccessorOfService, Survivors, Holding
<1> QED
  BY <1>8, <1>10, <1>13 DEF StacksInv

LEMMA StacksInvariance == SpecStacks => []StacksInv
<1>1. StacksInv /\ [NextStacks]_allVars => StacksInv'
  BY StacksStep DEF Orderly
<1> QED
  BY InitStacksInv, <1>1, PTL DEF SpecStacks

-----------------------------------------------------------------------------
(* Whatever the panel and the scheduler are asked, in any overlap and with any
   requests refused or lost, each service keeps a container unless one of its
   containers was removed on request. *)
THEOREM EveryServiceIsLeft == SpecStacks => []ServicesSurvive
<1>1. StacksInv => ServicesSurvive
  BY DEF StacksInv, Services, Survivors, ServicesSurvive, KeptFor, Kept
<1> QED
  BY StacksInvariance, <1>1, PTL

(* No operation ever touches a container of a protected identity, nor makes
   one: what was checked when an operation began still holds of its targets
   when they are reached. *)
THEOREM CompanionIsOutOfReach == SpecStacks => CompanionIsLeftAlone
<1>1. StacksInv /\ [NextStacks]_allVars =>
        [\A c \in DOMAIN box \cup DOMAIN box' :
            (c \in DOMAIN box /\ Theirs(c)) \/ (c \in DOMAIN box' /\ Theirs(c)')
                => c \in DOMAIN box /\ box'[c] = box[c]]_allVars
  <2> SUFFICES ASSUME StacksInv, [NextStacks]_allVars,
                      NEW c \in DOMAIN box \cup DOMAIN box',
                      (c \in DOMAIN box /\ Theirs(c)) \/ (c \in DOMAIN box' /\ Theirs(c)')
               PROVE  c \in DOMAIN box /\ box'[c] = box[c]
    OBVIOUS
  <2>1. PICK x : Gentle(x)
    BY StacksStep DEF Orderly
  <2>2. DOMAIN box = 1..Len(box)
    BY DEF StacksInv, StackTyped
  <2>3. CASE c \in DOMAIN box /\ Theirs(c)
    BY <2>1, <2>3 DEF Gentle, Theirs
  <2>4. CASE c \in DOMAIN box' /\ Theirs(c)'
    <3>1. c \in Existing' /\ Protected(box'[c].name)
      BY <2>4 DEF Theirs, Protected
    <3>2. c \in 1..Len(box) /\ c \in Existing /\ Protected(box[c].name)
      BY <2>1, <3>1 DEF Gentle
    <3> QED
      BY <2>1, <2>2, <3>2 DEF Gentle
  <2> QED
    BY <2>3, <2>4
<1> QED
  BY StacksInvariance, <1>1, PTL DEF SpecStacks, CompanionIsLeftAlone

(* A container that runs goes only by the update that replaces it. *)
THEOREM NothingRunningGoes == SpecStacks => RunningIsKept
<1>1. StacksInv /\ [NextStacks]_allVars =>
        [\A c \in Existing : box[c].running /\ ~box'[c].exists =>
            \E h \in Handlers : pc[h] \in {"remove", "discard"} /\ pc'[h] # pc[h]]_allVars
  <2> SUFFICES ASSUME StacksInv, [NextStacks]_allVars,
                      NEW c \in Existing, box[c].running, ~box'[c].exists
               PROVE  \E h \in Handlers : pc[h] \in {"remove", "discard"} /\ pc'[h] # pc[h]
    OBVIOUS
  <2>1. PICK x : Gentle(x) /\ Licensed(x)
    BY StacksStep DEF Orderly
  <2>2. c \notin Existing'
    BY DEF Existing
  <2>3. c = x
    BY <2>1, <2>2 DEF Gentle
  <2> QED
    BY <2>1, <2>2, <2>3 DEF Licensed
<1> QED
  BY StacksInvariance, <1>1, PTL DEF SpecStacks, RunningIsKept

(***************************************************************************)
(* What the owner is told.  The histories alone and clear say that nothing *)
(* overlapped a handler, and that much of the invariant is about them: no  *)
(* one else is then in the midst of anything.  The rest follows one update *)
(* through its steps (UpdateOk: what the old and the new container are at  *)
(* each of them), and one operation through its rows (CallOk): a row that  *)
(* is done without a failure stays done while the others are worked on,    *)
(* since no two rows are of one container, and a container that a finished *)
(* update left is none that the remaining rows or the running update name. *)
(***************************************************************************)
(* Nobody else is in the midst of anything, as far as the history says so. *)
Undisturbed(h) ==
    /\ pc[h] # "idle" => Running(h) /\ outcome[h] = "none"
    /\ pc[h] # "idle" /\ alone[h] => \A g \in Handlers \ {h} : pc[g] = "idle"
    /\ Running(h) /\ clear[h] => /\ \A g \in Handlers \ {h} : ~Running(g)
                                 /\ pc[h] # "idle" => alone[h]

VerbOk(h) ==
    /\ pc[h] \in Steps \ {"idle"} => call[h].verb = "update"
    /\ pc[h] \in Deploying => call[h].verb \in {"deploy", "deployStopped"}
    /\ pc[h] = "run" => call[h].verb = "deploy"
    /\ pc[h] = "drop" => call[h].verb \in {"removeStack", "prune"}

(* No image is newer than the one the reference stands for. *)
Images ==
    /\ tag <= pushed
    /\ \A c \in 1..Len(box) : box[c].image <= tag
    /\ \A h \in Handlers : old[h].box.image <= tag

Stopped(h) == [old[h].box EXCEPT !.running = FALSE]
Parked(h) == [Stopped(h) EXCEPT !.name = Name(h) + Suffix]

(* How far an update has come that nothing overlaps. *)
UpdateOk(h) == alone[h] /\ pc[h] \in Steps \ {"idle"} =>
    /\ old[h].box.exists
    /\ pc[h] \in {"pull", "compare", "stop"} => box[old[h].id] = old[h].box
    /\ pc[h] \in {"stop", "park", "create"} => tag > old[h].box.image
    /\ pc[h] \in {"park", "startback"} => box[old[h].id] = Stopped(h)
    /\ pc[h] \in {"create", "start", "remove", "discard", "putback"} => box[old[h].id] = Parked(h)
    /\ pc[h] \in {"start", "startback"} => WasRunning(h)
    /\ pc[h] \in {"start", "remove"} =>
          /\ box[id[h]].exists /\ box[id[h]].name = Name(h)
          /\ box[id[h]].image > old[h].box.image
    /\ pc[h] = "remove" => box[id[h]].running = WasRunning(h)

(* The rows of a snapshot are of different containers. *)
RowsOk(h) ==
    /\ call[h].todo \subseteq call[h].all
    /\ \A r \in call[h].all : r.id \in 1..Len(box)
    /\ \A r, q \in call[h].all : r.id = q.id => r = q

(* What is done of an update stays done: a container stands for it that the
   rest of the operation does not touch. *)
StandsIn(c, r, own, todo) ==
    /\ c \in Existing /\ box[c].name = r.name /\ (r.running => box[c].running)
    /\ c # own /\ \A q \in todo : q.id # c

Reached(verb, r, own, todo) ==
    IF verb = "update" THEN \E c \in 1..Len(box) : StandsIn(c, r, own, todo)
    ELSE Achieved(verb, r)

Snapshots == {"start", "stop", "restart", "remove", "removeStack", "update"}

Unchanged(q) == box[q.id].name = q.name /\ box[q.id].running = q.running

SnapshotOk(h) ==
    /\ RowsOk(h)
    /\ ~call[h].bad => \A r \in call[h].all \ call[h].todo : Reached(call[h].verb, r, id[h], call[h].todo)

MembersOk(h) ==
    /\ \A q \in call[h].todo : pc[h] = "idle" \/ q # Now(h) => Unchanged(q)
    /\ pc[h] # "idle" => /\ old[h].id = Now(h).id /\ Name(h) = Now(h).name
                         /\ WasRunning(h) = Now(h).running
    /\ pc[h] \in Holding => \A q \in call[h].all : q.id # id[h]

DeploymentOk(h) ==
    /\ \A q, r \in call[h].todo : q.name = r.name => q = r
    /\ pc[h] = "run" => Now(h).id \in Existing /\ box[Now(h).id].name = Now(h).name
    /\ ~call[h].bad => \A r \in call[h].all :
          (\A q \in call[h].todo : q.name # r.name) => Standing(r.name, call[h].verb = "deploy")

CallOk(h) == Running(h) /\ clear[h] =>
    /\ call[h].verb \in Snapshots => SnapshotOk(h)
    /\ call[h].verb = "update" => MembersOk(h)
    /\ call[h].verb \in {"deploy", "deployStopped"} => DeploymentOk(h)

Consistent(h) == Undisturbed(h) /\ VerbOk(h) /\ UpdateOk(h) /\ CallOk(h)

HistoryTyped ==
    /\ alone \in [Handlers -> BOOLEAN] /\ clear \in [Handlers -> BOOLEAN]
    /\ outcome \in [Handlers -> Outcomes]

AnswersInv == StacksInv /\ HistoryTyped /\ Images /\ \A h \in Handlers : Consistent(h)

(* What the step of a handler must show: its success is complete, and what it
   reports of one update is so. *)
Finishes(h) == Answers(h) /\ ~call'[h].bad /\ clear[h] =>
    \A verb \in {call[h].verb}, r \in call[h].all : Achieved(verb, r)'

Truthful(h) ==
    /\ Reports(h, {"updated", "updatedOldKept"}) /\ alone[h] =>
          /\ box'[id[h]].exists /\ box'[id[h]].image > old[h].box.image
          /\ box'[id[h]].running = WasRunning(h)
    /\ Reports(h, {"rolledBack"}) /\ alone[h] => box'[old[h].id] = old[h].box

-----------------------------------------------------------------------------
(* What a request makes of a container, and of no other. *)
Becomes(c, b, ok) ==
    /\ box' \in Seq(Boxes) /\ Len(box') = Len(box)
    /\ \A x \in 1..Len(box) : x # c => box'[x] = box[x]
    /\ c # 0 => box'[c] \in {box[c], b} /\ (ok => box[c].exists /\ box'[c] = b)

LEMMA ChangeBecomes ==
    ASSUME box \in Seq(Boxes), NEW c \in 1..Len(box), NEW b \in Boxes,
           NEW able \in BOOLEAN, able => box[c].exists, NEW ok \in BOOLEAN,
           Request(able, [box EXCEPT ![c] = b], ok)
    PROVE  Becomes(c, b, ok)
<1>1. (box' = box \/ box' = [box EXCEPT ![c] = b]) /\ (ok => able /\ box' = [box EXCEPT ![c] = b])
  BY Answer
<1>2. c \in DOMAIN box
  OBVIOUS
<1>3. CASE box' = [box EXCEPT ![c] = b]
  <2>1. /\ box' \in Seq(Boxes) /\ Len(box') = Len(box) /\ box'[c] = b
        /\ \A x \in 1..Len(box) : x # c => box'[x] = box[x]
    BY <1>2, <1>3, ExceptSeq
  <2> QED
    BY <1>1, <2>1 DEF Becomes
<1>4. CASE box' = box /\ ~ok
  BY <1>4 DEF Becomes
<1> QED
  BY <1>1, <1>3, <1>4

LEMMA StandsStill ==
    ASSUME box \in Seq(Boxes), box' = box, NEW b, NEW ok
    PROVE  Becomes(0, b, ok)
BY DEF Becomes

LEMMA SetRunningBecomes ==
    ASSUME box \in Seq(Boxes), NEW c \in 0..Len(box), NEW up \in BOOLEAN, NEW ok \in BOOLEAN,
           SetRunning(c, up, ok)
    PROVE  Becomes(c, [box[c] EXCEPT !.running = up], ok)
<1>1. CASE c = 0
  <2>1. c \notin DOMAIN box
    BY <1>1
  <2>2. [box EXCEPT ![c].running = up] = box
    BY <2>1
  <2>3. box' = box
    BY <2>2 DEF SetRunning, Request
  <2> QED
    BY <1>1, <2>3, StandsStill
<1>2. CASE c # 0
  <2> DEFINE b == [box[c] EXCEPT !.running = up]
  <2>1. c \in 1..Len(box) /\ box[c] \in Boxes
    BY <1>2
  <2>2. b \in Boxes /\ box[c].exists \in BOOLEAN
    BY <2>1 DEF Boxes
  <2>3. [box EXCEPT ![c].running = up] = [box EXCEPT ![c] = b]
    BY <2>1
  <2> HIDE DEF b
  <2>4. Request(box[c].exists, [box EXCEPT ![c] = b], ok)
    BY <2>3 DEF SetRunning
  <2>5. Becomes(c, b, ok)
    BY <2>1, <2>2, <2>4, ChangeBecomes
  <2> QED
    BY <2>5 DEF b
<1> QED
  BY <1>1, <1>2

LEMMA RenameBecomes ==
    ASSUME box \in Seq(Boxes), NEW c \in 1..Len(box), NEW name \in Nat, NEW ok \in BOOLEAN,
           Rename(c, name, ok)
    PROVE  Becomes(c, [box[c] EXCEPT !.name = name], ok)
<1> DEFINE b == [box[c] EXCEPT !.name = name]
           able == box[c].exists /\ ~Taken(name)
<1>1. box[c] \in Boxes
  OBVIOUS
<1>2. b \in Boxes /\ able \in BOOLEAN /\ (able => box[c].exists)
  BY <1>1 DEF Boxes
<1>3. [box EXCEPT ![c].name = name] = [box EXCEPT ![c] = b]
  BY <1>1
<1>4. Request(able, [box EXCEPT ![c] = b], ok)
  BY <1>3 DEF Rename
<1> HIDE DEF b, able
<1>5. Becomes(c, b, ok)
  BY <1>2, <1>4, ChangeBecomes
<1> QED
  BY <1>5 DEF b

LEMMA RemoveBecomes ==
    ASSUME box \in Seq(Boxes), NEW c \in 0..Len(box), NEW ok \in BOOLEAN,
           RemoveForced(c, ok) \/ RemoveStopped(c, ok)
    PROVE  Becomes(c, Removed, ok)
<1>1. CASE c = 0
  <2>1. c \notin DOMAIN box
    BY <1>1
  <2>2. [box EXCEPT ![c] = Removed] = box
    BY <2>1
  <2>3. box' = box
    BY <2>2 DEF RemoveForced, RemoveStopped, Request
  <2> QED
    BY <1>1, <2>3, StandsStill
<1>2. CASE c # 0
  <2>1. c \in 1..Len(box) /\ box[c] \in Boxes
    BY <1>2
  <2>2. Removed \in Boxes /\ box[c].exists \in BOOLEAN
    BY <2>1 DEF Boxes, Removed
  <2>3. PICK able \in BOOLEAN : /\ able => box[c].exists
                                /\ Request(able, [box EXCEPT ![c] = Removed], ok)
    <3>1. (box[c].exists /\ ~box[c].running) \in BOOLEAN
      OBVIOUS
    <3> QED
      BY <2>2, <3>1 DEF RemoveForced, RemoveStopped
  <2> QED
    BY <2>1, <2>2, <2>3, ChangeBecomes
<1> QED
  BY <1>1, <1>2

(* A container is made, or nothing changes. *)
Grows(b, ok) ==
    /\ box' \in Seq(Boxes) /\ Len(box') \in {Len(box), Len(box) + 1}
    /\ \A x \in 1..Len(box) : box'[x] = box[x]
    /\ Len(box') = Len(box) + 1 => box'[Len(box')] = b
    /\ ok => Len(box') = Len(box) + 1

LEMMA CreateGrows ==
    ASSUME box \in Seq(Boxes), NEW name \in Nat, tag \in Nat, NEW ok \in BOOLEAN,
           Request(~Taken(name), Append(box, Box(name, tag, FALSE)), ok)
    PROVE  Grows(Box(name, tag, FALSE), ok)
<1> DEFINE b == Box(name, tag, FALSE)
<1>1. b \in Boxes /\ (~Taken(name)) \in BOOLEAN
  BY DEF Box, Boxes, Taken
<1>2. Request(~Taken(name), Append(box, b), ok)
  OBVIOUS
<1> HIDE DEF b
<1>3. (box' = box \/ box' = Append(box, b)) /\ (ok => box' = Append(box, b))
  BY <1>1, <1>2, Answer
<1>0. Len(box) \in Nat
  OBVIOUS
<1>4. ASSUME box' = Append(box, b) PROVE Grows(b, ok)
  <2>1. /\ box' \in Seq(Boxes) /\ Len(box') = Len(box) + 1
        /\ \A x \in 1..Len(box) : box'[x] = box[x]
        /\ box'[Len(box) + 1] = b
    BY <1>1, <1>4, AppendProperties
  <2> QED
    BY <1>0, <2>1 DEF Grows
<1>5. ASSUME box' = box, ~ok PROVE Grows(b, ok)
  BY <1>0, <1>5 DEF Grows
<1>6. Grows(b, ok)
  BY <1>3, <1>4, <1>5
<1> QED
  BY <1>6 DEF b

-----------------------------------------------------------------------------
(* The other handlers *)

(* The step of one handler is none of another's. *)
Aside(h) == \A g \in Handlers \ {h} :
    /\ pc'[g] = pc[g] /\ call'[g] = call[g] /\ old'[g] = old[g] /\ id'[g] = id[g]
    /\ outcome'[g] = outcome[g]

LEMMA OtherHolds ==
    ASSUME AnswersInv, NEW h \in Handlers, Aside(h), NEW g \in Handlers \ {h},
           alone'[g] /\ pc[g] # "idle" => alone[g] /\ UNCHANGED <<box, tag>> /\ pc'[h] = "idle",
           ~(clear'[g] /\ Running(g))
    PROVE  Consistent(g)'
<1>1. Undisturbed(g) /\ VerbOk(g) /\ UpdateOk(g)
  BY DEF AnswersInv, Consistent
<1>2. pc'[g] = pc[g] /\ call'[g] = call[g] /\ old'[g] = old[g] /\ id'[g] = id[g] /\ outcome'[g] = outcome[g]
  BY DEF Aside
<1>3. Running(g)' = Running(g) /\ WasRunning(g)' = WasRunning(g) /\ Name(g)' = Name(g)
  BY <1>2 DEF Running, WasRunning, Name
<1>4. Undisturbed(g)'
  <2>1. ASSUME pc'[g] # "idle", alone'[g], NEW f \in Handlers \ {g} PROVE pc'[f] = "idle"
    <3>1. CASE f = h
      BY <1>2, <2>1, <3>1
    <3>2. CASE f # h
      BY <1>1, <1>2, <2>1, <3>2 DEF Undisturbed, Aside
    <3> QED
      BY <3>1, <3>2
  <2> QED
    BY <1>1, <1>2, <1>3, <2>1 DEF Undisturbed
<1>5. VerbOk(g)'
  BY <1>1, <1>2 DEF VerbOk
<1>6. UpdateOk(g)'
  <2>1. CASE alone'[g] /\ pc[g] # "idle"
    <3>1. alone[g] /\ box' = box /\ tag' = tag
      BY <2>1
    <3>2. Stopped(g)' = Stopped(g) /\ Parked(g)' = Parked(g)
      BY <1>2, <1>3 DEF Stopped, Parked
    <3> QED
      BY <1>1, <1>2, <1>3, <3>1, <3>2 DEF UpdateOk
  <2>2. CASE ~(alone'[g] /\ pc[g] # "idle")
    BY <1>2, <2>2 DEF UpdateOk
  <2> QED
    BY <2>1, <2>2
<1>7. CallOk(g)'
  BY <1>3 DEF CallOk
<1> QED
  BY <1>4, <1>5, <1>6, <1>7 DEF Consistent

(* Nothing is answered for the others, and nothing of theirs is reported. *)
LEMMA OtherIsSilent ==
    ASSUME NEW h \in Handlers, Aside(h), NEW g \in Handlers \ {h}
    PROVE  Finishes(g) /\ Truthful(g)
BY DEF Aside, Finishes, Truthful, Answers, Running, Reports

(* A handler in the midst of something: the others' histories are then of no
   account. *)
LEMMA OthersHold ==
    ASSUME AnswersInv, NEW h \in Handlers, Aside(h), Running(h), clear' = clear,
           \/ pc[h] # "idle" /\ \A g \in Handlers \ {h} : alone'[g] = alone[g]
           \/ \A g \in Handlers \ {h} : alone'[g] => pc[g] = "idle"
           \/ pc[h] = "idle" /\ pc'[h] = "idle" /\ UNCHANGED <<box, tag, alone>>
    PROVE  \A g \in Handlers \ {h} : Consistent(g)' /\ Finishes(g) /\ Truthful(g)
<1> SUFFICES ASSUME NEW g \in Handlers \ {h}
             PROVE  Consistent(g)' /\ Finishes(g) /\ Truthful(g)
  OBVIOUS
<1>1. Undisturbed(g)
  BY DEF AnswersInv, Consistent
<1>2. ~(clear'[g] /\ Running(g))
  BY <1>1 DEF Undisturbed
<1>3. alone'[g] /\ pc[g] # "idle" => alone[g] /\ UNCHANGED <<box, tag>> /\ pc'[h] = "idle"
  BY <1>1 DEF Undisturbed
<1> QED
  BY <1>2, <1>3, OtherHolds, OtherIsSilent

-----------------------------------------------------------------------------
(* An operation is done with its first row *)

LEMMA RestIs ==
    ASSUME StacksInv, NEW h \in Handlers, NEW failed \in BOOLEAN, NEW halted \in BOOLEAN,
           call' = [call EXCEPT ![h] = Rest(h, failed, halted)],
           NEW rest, rest = call[h].todo \ {Now(h)}
    PROVE  \/ /\ rest = {} \/ halted
              /\ call'[h].verb = "none" /\ (call'[h].bad <=> call[h].bad \/ failed)
           \/ /\ rest # {} /\ ~halted
              /\ call'[h].verb = call[h].verb /\ call'[h].todo = rest
              /\ call'[h].all = call[h].all /\ (call'[h].bad <=> call[h].bad \/ failed)
<1> DEFINE bad == call[h].bad \/ failed
           k == [call[h] EXCEPT !.todo = rest, !.bad = bad]
<1>1. call \in [Handlers -> Calls] /\ call[h] \in Calls
  BY DEF StacksInv, StackTyped
<1>2. k.verb = call[h].verb /\ k.todo = rest /\ k.all = call[h].all /\ k.bad = bad
  BY <1>1 DEF Calls
<1>3. Answered(bad).verb = "none" /\ Answered(bad).bad = bad
  BY DEF Answered
<1>4. call'[h] = IF rest = {} \/ halted THEN Answered(bad) ELSE k
  BY <1>1 DEF Rest
<1> HIDE DEF k
<1> QED
  BY <1>2, <1>3, <1>4

LEMMA SnapshotRest ==
    ASSUME AnswersInv, NEW h \in Handlers, Running(h), clear[h], call[h].verb \in Snapshots,
           NEW failed \in BOOLEAN, NEW halted \in BOOLEAN, halted => failed,
           call' = [call EXCEPT ![h] = Rest(h, failed, halted)],
           Len(box') \in Nat, Len(box') >= Len(box),
           NEW verb, verb = call[h].verb, NEW own, own = id'[h],
           NEW rest, rest = call[h].todo \ {Now(h)},
           ~call[h].bad /\ ~failed => \A r \in call[h].all \ rest : Reached(verb, r, own, rest)'
    PROVE  (Running(h)' => SnapshotOk(h)') /\ Finishes(h)
<1>0. Consistent(h) /\ StacksInv /\ Len(box) \in Nat
  BY DEF AnswersInv, StacksInv, StackTyped
<1>1. SnapshotOk(h)
  BY <1>0 DEF Consistent, CallOk
<1>2. \/ /\ rest = {} \/ halted
         /\ call'[h].verb = "none" /\ (call'[h].bad <=> call[h].bad \/ failed)
      \/ /\ rest # {} /\ ~halted
         /\ call'[h].verb = call[h].verb /\ call'[h].todo = rest
         /\ call'[h].all = call[h].all /\ (call'[h].bad <=> call[h].bad \/ failed)
  BY <1>0, RestIs
<1>3. Running(h)' => SnapshotOk(h)'
  <2> SUFFICES ASSUME Running(h)' PROVE SnapshotOk(h)'
    OBVIOUS
  <2>1. /\ call'[h].verb = verb /\ call'[h].todo = rest
        /\ call'[h].all = call[h].all /\ (call'[h].bad <=> call[h].bad \/ failed)
    BY <1>2 DEF Running
  <2>2. RowsOk(h)'
    <3>1. rest \subseteq call[h].all /\ (\A r \in call[h].all : r.id \in 1..Len(box'))
          /\ \A r, q \in call[h].all : r.id = q.id => r = q
      BY <1>0, <1>1 DEF SnapshotOk, RowsOk
    <3> QED
      BY <2>1, <3>1 DEF RowsOk
  <2>3. ~call'[h].bad => \A r \in call[h].all \ rest : Reached(verb, r, own, rest)'
    BY <2>1
  <2>4. ~call'[h].bad => \A r \in call'[h].all \ call'[h].todo :
            Reached(call[h].verb, r, id[h], call[h].todo)'
    <3> SUFFICES ASSUME ~call'[h].bad, NEW r \in call'[h].all \ call'[h].todo
                 PROVE  Reached(call[h].verb, r, id[h], call[h].todo)'
      OBVIOUS
    <3>1. Reached(verb, r, own, rest)'
      BY <2>1, <2>3
    <3> QED
      BY <2>1, <3>1 DEF Reached, StandsIn, Achieved, Standing, Existing
  <2> QED
    BY <2>2, <2>4 DEF SnapshotOk
<1>4. Finishes(h)
  <2> SUFFICES ASSUME Answers(h), ~call'[h].bad, NEW r \in call[h].all PROVE Achieved(verb, r)'
    BY DEF Finishes
  <2>1. rest = {} /\ ~call[h].bad /\ ~failed
    BY <1>2 DEF Answers, Running
  <2>2. Reached(verb, r, own, rest)'
    BY <2>1
  <2>3. CASE verb = "update"
    <3>1. PICK c \in Existing' : box'[c].name = r.name /\ (r.running => box'[c].running)
      BY <2>2, <2>3 DEF Reached, StandsIn
    <3> QED
      BY <2>3, <3>1 DEF Achieved, Standing
  <2>4. CASE verb # "update"
    BY <2>2, <2>4 DEF Reached
  <2> QED
    BY <2>3, <2>4
<1> QED
  BY <1>3, <1>4

-----------------------------------------------------------------------------
(* Steps of an operation that are none of an update *)

Holds == /\ HistoryTyped' /\ Images'
         /\ \A g \in Handlers : Consistent(g)' /\ Finishes(g) /\ Truthful(g)

LEMMA ImagesStay ==
    ASSUME AnswersInv, NEW c \in 0..Len(box), NEW b, NEW ok, Becomes(c, b, ok),
           c # 0 => b.image <= tag
    PROVE  \A x \in 1..Len(box') : box'[x].image <= tag
<1> SUFFICES ASSUME NEW x \in 1..Len(box') PROVE box'[x].image <= tag
  OBVIOUS
<1>1. x \in 1..Len(box) /\ box[x].image <= tag
  BY DEF AnswersInv, Images, Becomes
<1>2. CASE x = c
  <2>1. c # 0
    BY <1>1, <1>2
  <2> QED
    BY <1>1, <1>2, <2>1 DEF Becomes
<1>3. CASE x # c
  BY <1>1, <1>3 DEF Becomes
<1> QED
  BY <1>2, <1>3

LEMMA WorkHolds ==
    ASSUME AnswersInv, NEW h \in Handlers, NEW step \in Deploying \cup {"each", "drop"}, Working(h, step),
           NEW p \in Deploying \cup {"each", "drop", "idle"}, pc' = [pc EXCEPT ![h] = p],
           \A g \in Handlers \ {h} : call'[g] = call[g],
           p = "idle" <=> ~Running(h)', VerbOk(h)', CallOk(h)', Finishes(h),
           tag' \in Nat, tag <= tag', tag' <= pushed,
           \A x \in 1..Len(box') : box'[x].image <= tag'
    PROVE  Holds
<1>0. /\ StackTyped /\ HistoryTyped /\ Images /\ Consistent(h)
      /\ pc[h] = step /\ Running(h) /\ UNCHANGED <<pushed, old, id, outcome, alone, clear>>
  BY DEF AnswersInv, StacksInv, Working
<1>1. Aside(h) /\ pc'[h] = p
  BY <1>0 DEF Aside, StackTyped
<1>2. step \notin Steps /\ p \notin Steps \ {"idle"} /\ step # "idle"
  BY DEF Deploying, Steps
<1>3. \A g \in Handlers \ {h} : Consistent(g)' /\ Finishes(g) /\ Truthful(g)
  BY <1>0, <1>1, <1>2, OthersHold
<1>4. Undisturbed(h)'
  <2>1. Undisturbed(h)
    BY <1>0 DEF Consistent
  <2>2. \A g \in Handlers \ {h} : pc'[g] = pc[g] /\ Running(g)' = Running(g)
    BY <1>1 DEF Aside, Running
  <2> QED
    BY <1>0, <1>1, <1>2, <2>1, <2>2 DEF Undisturbed
<1>5. UpdateOk(h)'
  BY <1>1, <1>2 DEF UpdateOk
<1>6. Truthful(h)
  BY <1>0, <1>2 DEF Consistent, Undisturbed, Truthful, Reports
<1>7. HistoryTyped'
  BY <1>0 DEF HistoryTyped
<1>8. Images'
  <2>1. \A g \in Handlers : old[g].box.image <= tag'
    <3> SUFFICES ASSUME NEW g \in Handlers PROVE old[g].box.image <= tag'
      OBVIOUS
    <3>1. old[g].box.image \in Nat /\ tag \in Nat
      BY <1>0 DEF StackTyped, Boxes
    <3> QED
      BY <1>0, <3>1 DEF Images
  <2> QED
    BY <1>0, <2>1 DEF Images
<1> QED
  BY <1>3, <1>4, <1>5, <1>6, <1>7, <1>8 DEF Holds, Consistent

LEMMA PrunesAreFine ==
    ASSUME NEW h \in Handlers, call[h].verb = "prune", call'[h].verb \in {"prune", "none"}
    PROVE  CallOk(h)' /\ Finishes(h)
BY DEF CallOk, Finishes, Achieved, Running, Snapshots

(* What is done of the rows of a snapshot stays so when another is worked on. *)
LEMMA RowsStay ==
    ASSUME AnswersInv, NEW h \in Handlers, Running(h), clear[h],
           call[h].verb \in Snapshots \ {"update"},
           NEW b, NEW ok, Becomes(Now(h).id, b, ok), NEW verb, verb = call[h].verb, ~call[h].bad
    PROVE  /\ Now(h).id \in 1..Len(box)
           /\ \A r \in call[h].all \ call[h].todo : Achieved(verb, r)'
<1>0. StacksInv /\ box \in Seq(Boxes) /\ Consistent(h)
  BY DEF AnswersInv, StacksInv, StackTyped
<1>1. SnapshotOk(h) /\ Now(h) \in call[h].todo
  BY <1>0, NowIsALine DEF Consistent, CallOk
<1>2. Now(h) \in call[h].all /\ Now(h).id \in 1..Len(box)
  BY <1>1 DEF SnapshotOk, RowsOk
<1>3. ASSUME NEW r \in call[h].all \ call[h].todo PROVE Achieved(verb, r)'
  <2>1. r.id # Now(h).id /\ r.id \in 1..Len(box)
    BY <1>1, <1>2, <1>3 DEF SnapshotOk, RowsOk
  <2>2. box'[r.id] = box[r.id]
    BY <2>1 DEF Becomes
  <2>3. Achieved(verb, r)
    BY <1>1 DEF SnapshotOk, Reached, Snapshots
  <2> QED
    BY <2>2, <2>3 DEF Achieved, Snapshots
<1> QED
  BY <1>2, <1>3

(* A request about the first row, after which the operation goes on. *)
LEMMA RowHolds ==
    ASSUME AnswersInv, NEW h \in Handlers, NEW step \in {"each", "drop"}, Working(h, step),
           NEW b, NEW ok, Becomes(Now(h).id, b, ok), Now(h).id # 0 => b.image <= tag,
           UNCHANGED tag,
           NEW failed \in BOOLEAN, DoneWith(h, failed),
           call[h].verb \in (Snapshots \ {"update"}) \cup {"prune"},
           NEW verb, verb = call[h].verb, NEW now, now = Now(h),
           clear[h] /\ ~failed /\ now.id # 0 => Achieved(verb, now)'
    PROVE  Holds
<1>0. /\ StacksInv /\ StackTyped /\ box \in Seq(Boxes) /\ Running(h) /\ clear' = clear
      /\ call \in [Handlers -> Calls] /\ call[h] \in Calls /\ tag \in Nat /\ Images
  BY DEF AnswersInv, StacksInv, StackTyped, Working
<1>1. /\ call' = [call EXCEPT ![h] = Rest(h, failed, FALSE)]
      /\ \A g \in Handlers \ {h} : call'[g] = call[g]
  BY <1>0 DEF DoneWith
<1>2. PICK p \in {"each", "idle"} : pc' = [pc EXCEPT ![h] = p] /\ (p = "idle" <=> ~Running(h)')
  BY DEF DoneWith, Running
<1>3. PICK rest : rest = call[h].todo \ {Now(h)}
  OBVIOUS
<1>4. call'[h].verb \in {call[h].verb, "none"}
  BY <1>0, <1>1, <1>3, RestIs
<1>5. now.id \in 0..Len(box) /\ now \in call[h].todo
  BY <1>0, NowIsALine DEF LineOk
<1>6. CallOk(h)' /\ Finishes(h)
  <2>1. CASE call[h].verb = "prune"
    BY <1>4, <2>1, PrunesAreFine
  <2>2. CASE call[h].verb \in Snapshots \ {"update"}
    <3>1. CASE clear[h]
      <4>1. PICK own : own = id'[h]
        OBVIOUS
      <4>2. ~call[h].bad /\ ~failed => \A r \in call[h].all \ rest : Reached(verb, r, own, rest)'
        <5> SUFFICES ASSUME ~call[h].bad, ~failed, NEW r \in call[h].all \ rest
                     PROVE  Reached(verb, r, own, rest)'
          OBVIOUS
        <5>0. Now(h).id \in 1..Len(box) /\ \A q \in call[h].all \ call[h].todo : Achieved(verb, q)'
          BY <1>0, <2>2, <3>1, RowsStay
        <5>1. Achieved(verb, r)'
          <6>1. CASE r = now
            BY <3>1, <5>0, <6>1
          <6>2. CASE r # now
            BY <1>3, <5>0, <6>2
          <6> QED
            BY <6>1, <6>2
        <5> QED
          BY <2>2, <5>1 DEF Reached
      <4>3. Len(box') \in Nat /\ Len(box') >= Len(box)
        BY <1>0 DEF Becomes
      <4>4. (Running(h)' => SnapshotOk(h)') /\ Finishes(h)
        BY <1>0, <1>1, <1>3, <2>2, <3>1, <4>1, <4>2, <4>3, SnapshotRest
      <4> QED
        BY <1>4, <2>2, <4>4 DEF CallOk, Snapshots
    <3>2. CASE ~clear[h]
      BY <1>0, <3>2 DEF CallOk, Finishes
    <3> QED
      BY <3>1, <3>2
  <2> QED
    BY <2>1, <2>2
<1>7. VerbOk(h)'
  <2>1. pc'[h] = p
    BY <1>0, <1>2 DEF StackTyped
  <2> QED
    BY <2>1 DEF VerbOk, Steps, Deploying
<1>8. \A x \in 1..Len(box') : box'[x].image <= tag'
  <2>1. Now(h).id \in 0..Len(box)
    BY <1>5
  <2> QED
    BY <2>1, ImagesStay
<1>9. tag' \in Nat /\ tag <= tag' /\ tag' <= pushed
  BY <1>0 DEF Images
<1>10. p \in Deploying \cup {"each", "drop", "idle"} /\ step \in Deploying \cup {"each", "drop"}
  OBVIOUS
<1> QED
  BY <1>1, <1>2, <1>6, <1>7, <1>8, <1>9, <1>10, WorkHolds

(* Going on to the removal of the first row. *)
LEMMA GoOnHolds ==
    ASSUME AnswersInv, NEW h \in Handlers, Working(h, "each"), NEW b, NEW ok,
           Becomes(Now(h).id, b, ok), Now(h).id # 0 => b.image <= tag, UNCHANGED tag,
           GoOn(h, "drop"), call[h].verb \in {"removeStack", "prune"}
    PROVE  Holds
<1>0. /\ StacksInv /\ StackTyped /\ box \in Seq(Boxes) /\ Running(h) /\ clear' = clear /\ id' = id
      /\ tag \in Nat /\ Images /\ call' = call /\ pc' = [pc EXCEPT ![h] = "drop"]
  BY DEF AnswersInv, StacksInv, StackTyped, Working, GoOn
<1>1. Now(h).id \in 0..Len(box)
  BY <1>0, NowIsALine DEF LineOk
<1>2. Finishes(h) /\ Running(h)'
  BY <1>0 DEF Finishes, Answers, Running
<1>3. VerbOk(h)'
  <2>1. pc'[h] = "drop"
    BY <1>0 DEF StackTyped
  <2> QED
    BY <1>0, <2>1 DEF VerbOk, Steps, Deploying
<1>4. CallOk(h)'
  <2> SUFFICES ASSUME call[h].verb = "removeStack", clear[h] PROVE SnapshotOk(h)'
    BY <1>0 DEF CallOk, Snapshots
  <2>1. SnapshotOk(h) /\ "removeStack" \in Snapshots \ {"update"}
    BY <1>0 DEF AnswersInv, Consistent, CallOk, Snapshots
  <2>2. RowsOk(h)'
    BY <1>0, <2>1 DEF SnapshotOk, RowsOk, Becomes
  <2>3. ASSUME ~call[h].bad, NEW r \in call[h].all \ call[h].todo
        PROVE  Reached(call[h].verb, r, id[h], call[h].todo)'
    <3>1. PICK verb : verb = call[h].verb
      OBVIOUS
    <3>2. Achieved(verb, r)'
      BY <1>0, <2>1, <2>3, <3>1, RowsStay
    <3> QED
      BY <1>0, <3>1, <3>2 DEF Reached, Achieved, Standing, Existing
  <2> QED
    BY <1>0, <2>2, <2>3 DEF SnapshotOk
<1>5. \A x \in 1..Len(box') : box'[x].image <= tag'
  BY <1>0, <1>1, ImagesStay
<1>6. tag' \in Nat /\ tag <= tag' /\ tag' <= pushed
  BY <1>0 DEF Images
<1> QED
  BY <1>0, <1>2, <1>3, <1>4, <1>5, <1>6, WorkHolds

LEMMA ImageOfOne ==
    ASSUME AnswersInv, NEW c \in 0..Len(box)
    PROVE  /\ c # 0 => /\ box[c].image <= tag
                       /\ \A up \in BOOLEAN : [box[c] EXCEPT !.running = up].image <= tag
                       /\ \A name \in Nat : [box[c] EXCEPT !.name = name].image <= tag
           /\ Removed.image <= tag
<1>1. box \in Seq(Boxes) /\ tag \in Nat /\ Images
  BY DEF AnswersInv, StacksInv, StackTyped
<1>2. c # 0 => c \in 1..Len(box) /\ box[c] \in Boxes
  BY <1>1
<1> QED
  BY <1>1, <1>2 DEF Boxes, Images, Removed

LEMMA SetStateHolds == ASSUME AnswersInv, NEW h \in Handlers, SetState(h) PROVE Holds
<1>1. PICK ok \in BOOLEAN :
          /\ Working(h, "each") /\ call[h].verb \in {"start", "stop", "restart"}
          /\ SetRunning(Now(h).id, call[h].verb # "stop", ok)
          /\ DoneWith(h, ~ok) /\ UNCHANGED <<tag, asked>>
  BY DEF SetState
<1>2. PICK now, verb : now = Now(h) /\ verb = call[h].verb
  OBVIOUS
<1>3. PICK up \in BOOLEAN : up = (verb # "stop")
  OBVIOUS
<1>4. /\ StacksInv /\ box \in Seq(Boxes) /\ now.id \in 0..Len(box)
  BY <1>1, <1>2, NowIsALine DEF AnswersInv, StacksInv, StackTyped, Working, LineOk
<1>5. PICK c \in 0..Len(box) : c = now.id
  BY <1>4
<1>6. PICK b : b = [box[c] EXCEPT !.running = up]
  OBVIOUS
<1>7. Becomes(c, b, ok)
  BY <1>1, <1>2, <1>3, <1>4, <1>5, <1>6, SetRunningBecomes
<1>8. c # 0 => b.image <= tag
  BY <1>6, ImageOfOne
<1>9. ok /\ c # 0 => Achieved(verb, now)'
  <2> SUFFICES ASSUME ok, c # 0 PROVE Achieved(verb, now)'
    OBVIOUS
  <2>1. box'[c] = b /\ box[c].exists /\ box[c] \in Boxes
    BY <1>4, <1>7 DEF Becomes
  <2>2. b.exists /\ b.running = up
    BY <1>6, <2>1 DEF Boxes
  <2> QED
    BY <1>1, <1>2, <1>3, <1>5, <2>1, <2>2 DEF Achieved
<1> QED
  <2>1. verb \in (Snapshots \ {"update"}) \cup {"prune"} /\ (~ok) \in BOOLEAN
    BY <1>1, <1>2 DEF Snapshots
  <2> QED
    BY <1>1, <1>2, <1>5, <1>7, <1>8, <1>9, <2>1, RowHolds

LEMMA StopToRemoveHolds == ASSUME AnswersInv, NEW h \in Handlers, StopToRemove(h) PROVE Holds
<1>1. PICK ok \in BOOLEAN :
          /\ Working(h, "each") /\ call[h].verb = "removeStack"
          /\ IF Now(h).running
             THEN SetRunning(Now(h).id, FALSE, ok) /\ IF ok THEN GoOn(h, "drop") ELSE DoneWith(h, TRUE)
             ELSE GoOn(h, "drop") /\ UNCHANGED <<box, faults>>
          /\ UNCHANGED <<tag, asked>>
  BY DEF StopToRemove
<1>2. PICK now, verb : now = Now(h) /\ verb = call[h].verb
  OBVIOUS
<1>3. StacksInv /\ box \in Seq(Boxes) /\ now.id \in 0..Len(box)
  BY <1>1, <1>2, NowIsALine DEF AnswersInv, StacksInv, StackTyped, Working, LineOk
<1>4. PICK c \in 0..Len(box) : c = now.id
  BY <1>3
<1>5. PICK b : b = [box[c] EXCEPT !.running = FALSE]
  OBVIOUS
<1>6. Becomes(c, b, ok) \/ (box' = box /\ GoOn(h, "drop"))
  BY <1>1, <1>2, <1>3, <1>4, <1>5, SetRunningBecomes
<1>7. c # 0 => b.image <= tag
  BY <1>5, ImageOfOne
<1>8. CASE GoOn(h, "drop") /\ Becomes(c, b, ok)
  BY <1>1, <1>2, <1>4, <1>7, <1>8, GoOnHolds
<1>9. CASE GoOn(h, "drop") /\ box' = box
  <2>1. Becomes(c, box[c], FALSE)
    BY <1>3, <1>9 DEF Becomes
  <2>2. c # 0 => box[c].image <= tag
    BY ImageOfOne
  <2> QED
    BY <1>1, <1>2, <1>4, <1>9, <2>1, <2>2, GoOnHolds
<1>10. CASE ~ok /\ DoneWith(h, TRUE) /\ Becomes(c, b, ok)
  <2>1. verb \in (Snapshots \ {"update"}) \cup {"prune"}
    BY <1>1, <1>2 DEF Snapshots
  <2> QED
    BY <1>1, <1>2, <1>4, <1>7, <1>10, <2>1, RowHolds
<1> QED
  BY <1>1, <1>6, <1>8, <1>9, <1>10

LEMMA CheckToPruneHolds == ASSUME AnswersInv, NEW h \in Handlers, CheckToPrune(h) PROVE Holds
<1>1. PICK ok \in BOOLEAN :
          /\ Working(h, "each") /\ call[h].verb = "prune" /\ Request(TRUE, box, ok)
          /\ IF ok /\ Clear(Now(h).id) THEN GoOn(h, "drop") ELSE DoneWith(h, FALSE)
          /\ UNCHANGED <<tag, asked>>
  BY DEF CheckToPrune
<1>2. PICK now, verb : now = Now(h) /\ verb = call[h].verb
  OBVIOUS
<1>3. StacksInv /\ box \in Seq(Boxes) /\ now.id \in 0..Len(box) /\ box' = box
  BY <1>1, <1>2, NowIsALine DEF AnswersInv, StacksInv, StackTyped, Working, LineOk, Request
<1>4. PICK c \in 0..Len(box) : c = now.id
  BY <1>3
<1>5. Becomes(c, box[c], FALSE)
  BY <1>3 DEF Becomes
<1>6. c # 0 => box[c].image <= tag
  BY ImageOfOne
<1>7. CASE GoOn(h, "drop")
  BY <1>1, <1>2, <1>4, <1>5, <1>6, <1>7, GoOnHolds
<1>8. CASE DoneWith(h, FALSE)
  <2>1. verb \in (Snapshots \ {"update"}) \cup {"prune"} /\ Achieved(verb, now)'
    BY <1>1, <1>2 DEF Achieved
  <2> QED
    BY <1>1, <1>2, <1>4, <1>5, <1>6, <1>8, <2>1, RowHolds
<1> QED
  BY <1>1, <1>7, <1>8

LEMMA DropHolds == ASSUME AnswersInv, NEW h \in Handlers, Drop(h) PROVE Holds
<1>1. PICK ok \in BOOLEAN :
          /\ Working(h, IF call[h].verb = "remove" THEN "each" ELSE "drop")
          /\ RemoveStopped(Now(h).id, ok) /\ DoneWith(h, ~ok)
          /\ UNCHANGED tag
  BY DEF Drop
<1>2. PICK now, verb : now = Now(h) /\ verb = call[h].verb
  OBVIOUS
<1>3. PICK step \in {"each", "drop"} : /\ Working(h, step) /\ Running(h)
                                       /\ step = "each" => verb = "remove"
  BY <1>1, <1>2 DEF Working
<1>4. StacksInv /\ box \in Seq(Boxes) /\ now.id \in 0..Len(box)
  BY <1>2, <1>3, NowIsALine DEF AnswersInv, StacksInv, StackTyped, LineOk
<1>5. verb \in {"remove", "removeStack", "prune"}
  BY <1>2, <1>3 DEF AnswersInv, Consistent, VerbOk, Working
<1>6. PICK c \in 0..Len(box) : c = now.id
  BY <1>4
<1>7. Becomes(c, Removed, ok) /\ Removed.image <= tag
  BY <1>1, <1>2, <1>4, <1>6, RemoveBecomes, ImageOfOne
<1>8. ok /\ c # 0 => Achieved(verb, now)'
  <2>1. ok /\ c # 0 => ~box'[c].exists
    BY <1>7 DEF Becomes, Removed
  <2> QED
    BY <1>5, <1>6, <2>1 DEF Achieved
<1> QED
  <2>1. verb \in (Snapshots \ {"update"}) \cup {"prune"} /\ (~ok) \in BOOLEAN
    BY <1>5 DEF Snapshots
  <2> QED
    BY <1>1, <1>2, <1>3, <1>6, <1>7, <1>8, <2>1, RowHolds

-----------------------------------------------------------------------------
(* A deployment *)

Deploys == {"deploy", "deployStopped"}

(* It makes containers and starts them, so that what stands stays. *)
Gains == \A name, up : Standing(name, up) => Standing(name, up)'

LEMMA StandStill == ASSUME box' = box PROVE Gains
BY DEF Gains, Standing, Existing

LEMMA StartedGains ==
    ASSUME box \in Seq(Boxes), NEW c \in 0..Len(box), NEW ok,
           Becomes(c, [box[c] EXCEPT !.running = TRUE], ok)
    PROVE  Gains
<1> SUFFICES ASSUME NEW name, NEW up, NEW x \in Existing, box[x].name = name, up => box[x].running
             PROVE  \E y \in Existing' : box'[y].name = name /\ (up => box'[y].running)
  BY DEF Gains, Standing
<1>1. x \in 1..Len(box) /\ box[x] \in Boxes /\ box[x].exists /\ x # 0
  BY DEF Existing
<1>2. box'[x] = box[x] \/ box'[x] = [box[x] EXCEPT !.running = TRUE]
  BY <1>1 DEF Becomes
<1>3. box'[x].exists /\ box'[x].name = name /\ (up => box'[x].running)
  BY <1>1, <1>2 DEF Boxes
<1>4. x \in Existing'
  BY <1>1, <1>3 DEF Existing, Becomes
<1> QED
  BY <1>3, <1>4

LEMMA MadeGains == ASSUME box \in Seq(Boxes), NEW b, NEW ok, Grows(b, ok) PROVE Gains
<1> SUFFICES ASSUME NEW name, NEW up, NEW x \in Existing, box[x].name = name, up => box[x].running
             PROVE  \E y \in Existing' : box'[y].name = name /\ (up => box'[y].running)
  BY DEF Gains, Standing
<1>1. x \in 1..Len(box) /\ box[x].exists /\ box'[x] = box[x] /\ Len(box) \in Nat
  BY DEF Existing, Grows
<1>2. x \in Existing'
  BY <1>1 DEF Existing, Grows
<1> QED
  BY <1>1, <1>2

(* Where the rows of a deployment that are still to be done have the names of
   those before the step, what was done stays done. *)
LEMMA DeploymentStays ==
    ASSUME AnswersInv, NEW h \in Handlers, Running(h), clear[h], call[h].verb \in Deploys, Gains,
           call'[h].verb = call[h].verb, call'[h].todo = call[h].todo, call'[h].all = call[h].all,
           ~call'[h].bad => ~call[h].bad, pc'[h] # "run"
    PROVE  DeploymentOk(h)'
<1>1. DeploymentOk(h)
  BY DEF AnswersInv, Consistent, CallOk, Deploys
<1>2. ASSUME ~call[h].bad, NEW r \in call[h].all, \A q \in call[h].todo : q.name # r.name
      PROVE  Standing(r.name, call[h].verb = "deploy")'
  <2>1. PICK name, up : name = r.name /\ up = (call[h].verb = "deploy")
    OBVIOUS
  <2>2. Standing(name, up)
    BY <1>1, <1>2, <2>1 DEF DeploymentOk
  <2>3. Standing(name, up)'
    BY <2>2 DEF Gains
  <2> QED
    BY <2>1, <2>3 DEF Standing, Existing
<1> QED
  BY <1>1, <1>2 DEF DeploymentOk

(* The first row of a deployment is done with. *)
LEMMA DeployRest ==
    ASSUME AnswersInv, NEW h \in Handlers, Running(h), clear[h], call[h].verb \in Deploys, Gains,
           NEW failed \in BOOLEAN, call' = [call EXCEPT ![h] = Rest(h, failed, FALSE)],
           pc'[h] # "run", NEW name, name = Now(h).name, NEW up, up = (call[h].verb = "deploy"),
           ~failed => Standing(name, up)'
    PROVE  (Running(h)' => DeploymentOk(h)') /\ Finishes(h)
<1>0. StacksInv
  BY DEF AnswersInv
<1>1. DeploymentOk(h)
  BY DEF AnswersInv, Consistent, CallOk, Deploys
<1>2. PICK rest : rest = call[h].todo \ {Now(h)}
  OBVIOUS
<1>3. \/ rest = {} /\ call'[h].verb = "none" /\ (call'[h].bad <=> call[h].bad \/ failed)
      \/ /\ call'[h].verb = call[h].verb /\ call'[h].todo = rest
         /\ call'[h].all = call[h].all /\ (call'[h].bad <=> call[h].bad \/ failed)
  BY <1>0, <1>2, RestIs
<1>4. ASSUME ~call'[h].bad, NEW r \in call[h].all, \A q \in rest : q.name # r.name
      PROVE  Standing(r.name, up)'
  <2>1. ~call[h].bad /\ ~failed
    BY <1>3, <1>4
  <2>2. PICK n : n = r.name
    OBVIOUS
  <2>3. CASE n = name
    BY <2>1, <2>2, <2>3 DEF Standing, Existing
  <2>4. CASE n # name
    <3>1. \A q \in call[h].todo : q.name # r.name
      BY <1>2, <1>4, <2>2, <2>4
    <3>2. Standing(n, up)
      BY <1>1, <1>4, <2>1, <2>2, <3>1 DEF DeploymentOk
    <3>3. Standing(n, up)'
      BY <3>2 DEF Gains
    <3> QED
      BY <2>2, <3>3
  <2> QED
    BY <2>3, <2>4
<1>5. Running(h)' => DeploymentOk(h)'
  <2> SUFFICES ASSUME Running(h)' PROVE DeploymentOk(h)'
    OBVIOUS
  <2>1. call'[h].verb = call[h].verb /\ call'[h].todo = rest /\ call'[h].all = call[h].all
    BY <1>3 DEF Running
  <2>2. \A q, r \in rest : q.name = r.name => q = r
    BY <1>1, <1>2 DEF DeploymentOk
  <2>3. ASSUME ~call'[h].bad, NEW r \in call'[h].all, \A q \in call'[h].todo : q.name # r.name
        PROVE  Standing(r.name, call[h].verb = "deploy")'
    <3>1. Standing(r.name, up)'
      BY <1>4, <2>1, <2>3
    <3> QED
      BY <2>1, <3>1 DEF Standing, Existing
  <2> QED
    BY <2>1, <2>2, <2>3 DEF DeploymentOk
<1>6. Finishes(h)
  <2> SUFFICES ASSUME Answers(h), ~call'[h].bad, NEW r \in call[h].all, NEW verb, verb = call[h].verb
               PROVE  Achieved(verb, r)'
    BY DEF Finishes
  <2>1. rest = {}
    BY <1>3 DEF Answers, Running
  <2>2. Standing(r.name, up)'
    BY <1>4, <2>1
  <2>3. up => verb = "deploy"
    OBVIOUS
  <2> QED
    BY <2>2 DEF Achieved, Standing, Deploys
<1> QED
  BY <1>5, <1>6

LEMMA DeployedHolds ==
    ASSUME AnswersInv, NEW h \in Handlers, NEW step \in {"make", "run"}, Working(h, step), Gains,
           NEW failed \in BOOLEAN, Deployed(h, failed), UNCHANGED tag,
           \A x \in 1..Len(box') : box'[x].image <= tag,
           NEW name, name = Now(h).name, NEW up, up = (call[h].verb = "deploy"),
           clear[h] /\ ~failed => Standing(name, up)'
    PROVE  Holds
<1>0. /\ StacksInv /\ StackTyped /\ Running(h) /\ clear' = clear /\ pc[h] = step /\ Images
      /\ call \in [Handlers -> Calls] /\ tag \in Nat
  BY DEF AnswersInv, StacksInv, StackTyped, Working
<1>1. /\ call' = [call EXCEPT ![h] = Rest(h, failed, FALSE)]
      /\ \A g \in Handlers \ {h} : call'[g] = call[g]
  BY <1>0 DEF Deployed
<1>2. PICK p \in {"image", "idle"} : pc' = [pc EXCEPT ![h] = p] /\ (p = "idle" <=> ~Running(h)')
  BY DEF Deployed, Running
<1>3. pc'[h] = p
  BY <1>0, <1>2 DEF StackTyped
<1>4. call[h].verb \in Deploys /\ call'[h].verb \in {call[h].verb, "none"}
  <2>1. VerbOk(h)
    BY DEF AnswersInv, Consistent
  <2>2. PICK rest : rest = call[h].todo \ {Now(h)}
    OBVIOUS
  <2> QED
    BY <1>0, <1>1, <2>1, <2>2, RestIs DEF VerbOk, Deploying, Deploys
<1>5. CallOk(h)' /\ Finishes(h)
  <2>1. CASE clear[h]
    <3>1. (Running(h)' => DeploymentOk(h)') /\ Finishes(h)
      BY <1>0, <1>1, <1>3, <1>4, <2>1, DeployRest
    <3> QED
      BY <1>4, <3>1 DEF CallOk, Snapshots, Deploys, Running
  <2>2. CASE ~clear[h]
    BY <1>0, <2>2 DEF CallOk, Finishes
  <2> QED
    BY <2>1, <2>2
<1>6. VerbOk(h)'
  BY <1>2, <1>3, <1>4 DEF VerbOk, Steps, Deploying, Deploys, Running
<1>7. tag' \in Nat /\ tag <= tag' /\ tag' <= pushed /\ \A x \in 1..Len(box') : box'[x].image <= tag'
  BY <1>0 DEF Images
<1>8. p \in Deploying \cup {"each", "drop", "idle"} /\ step \in Deploying \cup {"each", "drop"}
  BY DEF Deploying
<1> QED
  BY <1>1, <1>2, <1>5, <1>6, <1>7, <1>8, WorkHolds

LEMMA NetworkHolds == ASSUME AnswersInv, NEW h \in Handlers, Network(h) PROVE Holds
<1>1. PICK ok \in BOOLEAN :
          /\ Working(h, "network") /\ Request(TRUE, box, ok)
          /\ IF ok THEN GoOn(h, "image")
             ELSE call' = [call EXCEPT ![h] = Answered(TRUE)] /\ pc' = [pc EXCEPT ![h] = "idle"]
          /\ UNCHANGED <<tag, asked>>
  BY DEF Network
<1>2. /\ StackTyped /\ Running(h) /\ clear' = clear /\ pc[h] = "network" /\ Images
      /\ call \in [Handlers -> Calls] /\ tag \in Nat /\ box' = box /\ VerbOk(h)
  BY <1>1 DEF AnswersInv, StacksInv, StackTyped, Working, Request, Consistent
<1>3. call[h].verb \in Deploys
  BY <1>2 DEF VerbOk, Deploying, Deploys
<1>4. tag' \in Nat /\ tag <= tag' /\ tag' <= pushed /\ \A x \in 1..Len(box') : box'[x].image <= tag'
  BY <1>1, <1>2 DEF Images
<1>5. CASE ok
  <2>1. call' = call /\ pc' = [pc EXCEPT ![h] = "image"] /\ pc'[h] = "image"
    BY <1>1, <1>2, <1>5 DEF GoOn, StackTyped
  <2>2. CallOk(h)'
    <3> SUFFICES ASSUME clear[h] PROVE DeploymentOk(h)'
      BY <1>2, <1>3, <2>1 DEF CallOk, Snapshots, Deploys
    <3> QED
      BY <1>2, <1>3, <2>1, StandStill, DeploymentStays
  <2>3. VerbOk(h)' /\ Finishes(h) /\ Running(h)'
    BY <1>2, <1>3, <2>1 DEF VerbOk, Steps, Deploying, Deploys, Finishes, Answers, Running
  <2> QED
    BY <1>1, <1>4, <2>1, <2>2, <2>3, WorkHolds DEF Deploying
<1>6. CASE ~ok
  <2>1. /\ call' = [call EXCEPT ![h] = Answered(TRUE)] /\ pc' = [pc EXCEPT ![h] = "idle"]
        /\ call'[h] = Answered(TRUE) /\ pc'[h] = "idle"
    BY <1>1, <1>2, <1>6 DEF StackTyped
  <2>2. call'[h].verb = "none" /\ call'[h].bad
    BY <2>1 DEF Answered
  <2>3. CallOk(h)' /\ Finishes(h) /\ VerbOk(h)' /\ ~Running(h)'
    BY <2>1, <2>2 DEF VerbOk, Steps, Deploying, CallOk, Finishes, Running
  <2>4. \A g \in Handlers \ {h} : call'[g] = call[g]
    BY <1>2, <2>1
  <2> QED
    BY <1>1, <1>4, <2>1, <2>3, <2>4, WorkHolds DEF Deploying
<1> QED
  BY <1>5, <1>6

LEMMA PullImageHolds == ASSUME AnswersInv, NEW h \in Handlers, PullImage(h) PROVE Holds
<1>1. PICK ok \in BOOLEAN :
          /\ Working(h, "image") /\ Request(TRUE, box, ok)
          /\ tag' = (IF ok THEN pushed ELSE tag)
          /\ call' = [call EXCEPT ![h].bad = @ \/ ~ok] /\ pc' = [pc EXCEPT ![h] = "make"]
  BY DEF PullImage
<1>2. /\ StackTyped /\ Running(h) /\ clear' = clear /\ pc[h] = "image" /\ Images
      /\ call \in [Handlers -> Calls] /\ call[h] \in Calls /\ tag \in Nat /\ pushed \in Nat
      /\ box \in Seq(Boxes) /\ box' = box /\ VerbOk(h)
  BY <1>1 DEF AnswersInv, StacksInv, StackTyped, Working, Request, Consistent
<1>3. call[h].verb \in Deploys /\ pc'[h] = "make"
  BY <1>1, <1>2 DEF VerbOk, Deploying, Deploys, StackTyped
<1>4. /\ call'[h].verb = call[h].verb /\ call'[h].todo = call[h].todo /\ call'[h].all = call[h].all
      /\ ~call'[h].bad => ~call[h].bad
      /\ \A g \in Handlers \ {h} : call'[g] = call[g]
  <2> DEFINE bad == call[h].bad \/ ~ok
             k == [call[h] EXCEPT !.bad = bad]
  <2>1. call'[h] = k /\ \A g \in Handlers \ {h} : call'[g] = call[g]
    BY <1>1, <1>2
  <2>2. k.verb = call[h].verb /\ k.todo = call[h].todo /\ k.all = call[h].all /\ k.bad = bad
    BY <1>2 DEF Calls
  <2> HIDE DEF k
  <2> QED
    BY <2>1, <2>2
<1>5. tag' \in Nat /\ tag <= tag' /\ tag' <= pushed
  BY <1>1, <1>2 DEF Images
<1>6. \A x \in 1..Len(box') : box'[x].image <= tag'
  <2> SUFFICES ASSUME NEW x \in 1..Len(box) PROVE box[x].image <= tag'
    BY <1>2
  <2>1. box[x].image \in Nat /\ box[x].image <= tag
    <3>1. box[x] \in Boxes
      BY <1>2
    <3> QED
      BY <1>2, <3>1 DEF Images, Boxes
  <2> QED
    BY <1>2, <1>5, <2>1
<1>7. CallOk(h)'
  <2> SUFFICES ASSUME clear[h] PROVE DeploymentOk(h)'
    BY <1>2, <1>3, <1>4 DEF CallOk, Snapshots, Deploys
  <2> QED
    BY <1>2, <1>3, <1>4, StandStill, DeploymentStays
<1>8. VerbOk(h)' /\ Finishes(h) /\ Running(h)'
  BY <1>2, <1>3, <1>4 DEF VerbOk, Steps, Deploying, Deploys, Finishes, Answers, Running
<1> QED
  BY <1>1, <1>4, <1>5, <1>6, <1>7, <1>8, WorkHolds DEF Deploying

LEMMA RunHolds == ASSUME AnswersInv, NEW h \in Handlers, Run(h) PROVE Holds
<1>1. PICK ok \in BOOLEAN :
          /\ Working(h, "run") /\ SetRunning(Now(h).id, TRUE, ok)
          /\ Deployed(h, ~ok) /\ UNCHANGED tag
  BY DEF Run
<1>2. PICK now : now = Now(h)
  OBVIOUS
<1>3. /\ StacksInv /\ box \in Seq(Boxes) /\ now.id \in 0..Len(box) /\ Running(h) /\ pc[h] = "run"
      /\ Consistent(h)
  BY <1>1, <1>2, NowIsALine DEF AnswersInv, StacksInv, StackTyped, Working, LineOk
<1>4. PICK c \in 0..Len(box) : c = now.id
  BY <1>3
<1>5. Becomes(c, [box[c] EXCEPT !.running = TRUE], ok)
  BY <1>1, <1>2, <1>3, <1>4, SetRunningBecomes
<1>6. Gains
  BY <1>3, <1>5, StartedGains
<1>7. \A x \in 1..Len(box') : box'[x].image <= tag
  <2>1. c # 0 => [box[c] EXCEPT !.running = TRUE].image <= tag
    BY ImageOfOne
  <2> QED
    BY <1>5, <2>1, ImagesStay
<1>8. PICK name, up : name = now.name /\ up = (call[h].verb = "deploy")
  OBVIOUS
<1>9. clear[h] /\ ok => Standing(name, up)'
  <2> SUFFICES ASSUME clear[h], ok PROVE Standing(name, up)'
    OBVIOUS
  <2>1. DeploymentOk(h)
    BY <1>3 DEF Consistent, CallOk, VerbOk
  <2>2. c \in Existing /\ box[c].name = name
    BY <1>2, <1>3, <1>4, <1>8, <2>1 DEF DeploymentOk
  <2>3. c # 0 /\ c \in 1..Len(box) /\ box[c] \in Boxes /\ box[c].exists
    BY <1>3, <2>2 DEF Existing
  <2>4. box'[c].exists /\ box'[c].running /\ box'[c].name = name
    BY <1>5, <2>2, <2>3 DEF Becomes, Boxes
  <2>5. c \in Existing'
    BY <1>5, <2>3, <2>4 DEF Existing, Becomes
  <2> QED
    BY <2>4, <2>5 DEF Standing
<1>10. (~ok) \in BOOLEAN
  OBVIOUS
<1> QED
  BY <1>1, <1>2, <1>6, <1>7, <1>8, <1>9, <1>10, DeployedHolds

LEMMA MakeHolds == ASSUME AnswersInv, NEW h \in Handlers, Make(h) PROVE Holds
<1>1. PICK now : now = Now(h)
  OBVIOUS
<1>2. PICK ok \in BOOLEAN :
          /\ Working(h, "make")
          /\ Request(~Taken(now.name), Append(box, Box(now.name, tag, FALSE)), ok)
          /\ IF ok /\ call[h].verb = "deploy"
             THEN /\ call' = [call EXCEPT ![h].todo = (@ \ {now}) \cup {[now EXCEPT !.id = Len(box')]}]
                  /\ pc' = [pc EXCEPT ![h] = "run"]
             ELSE Deployed(h, ~ok)
          /\ UNCHANGED tag
  BY <1>1 DEF Make
<1>3. /\ StacksInv /\ StackTyped /\ box \in Seq(Boxes) /\ Running(h) /\ pc[h] = "make" /\ clear' = clear
      /\ call \in [Handlers -> Calls] /\ call[h] \in Calls /\ tag \in Nat /\ Images /\ Consistent(h)
      /\ Len(box) \in Nat
  BY <1>2 DEF AnswersInv, StacksInv, StackTyped, Working
<1>4. now \in call[h].todo /\ now \in Lines /\ now.name \in Nat
  BY <1>1, <1>3, NowIsALine DEF Lines
<1>5. PICK name \in Nat : name = now.name
  BY <1>4
<1>6. PICK b : b = Box(name, tag, FALSE)
  OBVIOUS
<1>7. Grows(b, ok) /\ b.image = tag /\ b.name = name /\ b.exists
  BY <1>2, <1>3, <1>5, <1>6, CreateGrows DEF Box
<1>8. Gains
  BY <1>3, <1>7, MadeGains
<1>9. \A x \in 1..Len(box') : box'[x].image <= tag
  <2> SUFFICES ASSUME NEW x \in 1..Len(box') PROVE box'[x].image <= tag
    OBVIOUS
  <2>1. CASE x \in 1..Len(box)
    BY <1>3, <1>7, <2>1 DEF Grows, Images
  <2>2. CASE x \notin 1..Len(box)
    <3>1. Len(box') = Len(box) + 1 /\ x = Len(box')
      BY <1>3, <1>7, <2>2 DEF Grows
    <3> QED
      BY <1>3, <1>7, <3>1 DEF Grows
  <2> QED
    BY <2>1, <2>2
<1>10. ok => Len(box') \in Existing' /\ box'[Len(box')].name = name
  BY <1>3, <1>7 DEF Grows, Existing
<1>11. call[h].verb \in Deploys
  BY <1>3 DEF Consistent, VerbOk, Deploying, Deploys
<1>12. CASE ok /\ call[h].verb = "deploy"
  <2>1. PICK new \in Lines : /\ new = [now EXCEPT !.id = Len(box')]
                             /\ new.id = Len(box') /\ new.name = name
    <3>1. Len(box') \in Nat
      BY <1>3, <1>7, <1>12 DEF Grows
    <3>2. \A n \in Nat : /\ [now EXCEPT !.id = n] \in Lines
                         /\ [now EXCEPT !.id = n].id = n /\ [now EXCEPT !.id = n].name = now.name
      BY <1>4 DEF Lines
    <3> QED
      BY <1>5, <3>1, <3>2
  <2>2. PICK todo : todo = (call[h].todo \ {now}) \cup {new}
    OBVIOUS
  <2>3. /\ call'[h].verb = call[h].verb /\ call'[h].todo = todo
        /\ call'[h].all = call[h].all /\ call'[h].bad = call[h].bad
        /\ \A g \in Handlers \ {h} : call'[g] = call[g]
    <3> DEFINE k == [call[h] EXCEPT !.todo = todo]
    <3>1. call'[h] = k /\ \A g \in Handlers \ {h} : call'[g] = call[g]
      BY <1>2, <1>3, <1>12, <2>1, <2>2
    <3>2. k.verb = call[h].verb /\ k.todo = todo /\ k.all = call[h].all /\ k.bad = call[h].bad
      BY <1>3 DEF Calls
    <3> HIDE DEF k
    <3> QED
      BY <3>1, <3>2
  <2>4. pc' = [pc EXCEPT ![h] = "run"] /\ pc'[h] = "run"
    BY <1>2, <1>3, <1>12 DEF StackTyped
  <2>5. CallOk(h)'
    <3> SUFFICES ASSUME clear[h] PROVE DeploymentOk(h)'
      BY <1>3, <1>11, <2>3 DEF CallOk, Snapshots, Deploys
    <3>1. DeploymentOk(h)
      BY <1>3, <1>11 DEF Consistent, CallOk, Deploys
    <3>2. \A q, r \in todo : q.name = r.name => q = r
      <4> SUFFICES ASSUME NEW q \in todo, NEW r \in todo, q.name = r.name PROVE q = r
        OBVIOUS
      <4>1. \A x \in todo : x = new \/ (x \in call[h].todo /\ x # now)
        BY <2>2
      <4>2. \A x, y \in call[h].todo : x.name = y.name => x = y
        BY <3>1 DEF DeploymentOk
      <4>3. new.name = now.name
        BY <1>5, <2>1
      <4> HIDE <2>1, <1>6, <1>7
      <4> QED
        BY <1>4, <4>1, <4>2, <4>3
    <3>3. Now(h)' = new
      <4>1. todo \in SUBSET Lines /\ todo # {}
        BY <1>3, <2>1, <2>2 DEF Calls
      <4>2. First(todo) \in todo /\ \A q \in todo : First(todo).name <= q.name
        BY <4>1, FirstIsARow
      <4>3. \A q \in call[h].todo : name <= q.name
        BY <1>1, <1>3, <1>5, FirstIsARow DEF Now, Calls
      <4>4. \A q \in todo : new.name <= q.name
        <5>1. \A q \in todo : q = new \/ q \in call[h].todo
          BY <2>2
        <5>2. new.name = name /\ name <= name
          BY <2>1
        <5> QED
          BY <4>3, <5>1, <5>2
      <4>5. First(todo).name = new.name
        <5>1. First(todo).name \in Nat /\ new.name \in Nat
          BY <4>1, <4>2, <2>1 DEF Lines
        <5>2. First(todo).name <= new.name /\ new.name <= First(todo).name
          BY <2>2, <4>2, <4>4
        <5> QED
          BY <5>1, <5>2
      <4>6. First(todo) = new
        BY <2>2, <3>2, <4>2, <4>5
      <4> QED
        BY <2>3, <4>6 DEF Now
    <3>4. Now(h)'.id \in Existing' /\ box'[Now(h)'.id].name = Now(h)'.name
      BY <1>10, <1>12, <2>1, <3>3
    <3>5. ASSUME ~call[h].bad, NEW r \in call[h].all, \A q \in todo : q.name # r.name
          PROVE  Standing(r.name, call[h].verb = "deploy")'
      <4>1. \A q \in call[h].todo : q.name # r.name
        BY <1>5, <2>1, <2>2, <3>5
      <4>2. PICK n, up : n = r.name /\ up = (call[h].verb = "deploy")
        OBVIOUS
      <4>3. Standing(n, up)
        BY <3>1, <3>5, <4>1, <4>2 DEF DeploymentOk
      <4>4. Standing(n, up)'
        BY <1>8, <4>3 DEF Gains
      <4> QED
        BY <2>3, <4>2, <4>4 DEF Standing, Existing
    <3> QED
      BY <2>3, <3>2, <3>4, <3>5 DEF DeploymentOk
  <2>6. VerbOk(h)' /\ Finishes(h) /\ Running(h)'
    BY <1>3, <1>12, <2>3, <2>4 DEF VerbOk, Steps, Deploying, Finishes, Answers, Running
  <2>7. tag' \in Nat /\ tag <= tag' /\ tag' <= pushed /\ \A x \in 1..Len(box') : box'[x].image <= tag'
    BY <1>2, <1>3, <1>9 DEF Images
  <2> QED
    BY <1>2, <2>3, <2>4, <2>5, <2>6, <2>7, WorkHolds DEF Deploying
<1>13. CASE ~(ok /\ call[h].verb = "deploy")
  <2>1. PICK up : up = (call[h].verb = "deploy")
    OBVIOUS
  <2>2. clear[h] /\ ok => Standing(name, up)'
    BY <1>10, <1>13, <2>1 DEF Standing
  <2>3. (~ok) \in BOOLEAN /\ Deployed(h, ~ok)
    BY <1>2, <1>13
  <2> QED
    BY <1>1, <1>2, <1>5, <1>8, <1>9, <2>1, <2>2, <2>3, DeployedHolds
<1> QED
  BY <1>12, <1>13

-----------------------------------------------------------------------------
(* An operation begins *)

LEMMA BeginHolds ==
    ASSUME AnswersInv, NEW h \in Handlers, NEW verb \in Verbs \ {"none"}, NEW rows \in SUBSET Lines,
           Begin(h, verb, rows),
           \/ verb = "update" /\ UNCHANGED <<pc, alone>>
           \/ verb \notin Deploys \cup {"update"} /\ Enter(h, "each")
           \/ verb \in Deploys /\ Enter(h, "network"),
           verb \in Snapshots => /\ \A r \in rows : r.id \in 1..Len(box) /\ Unchanged(r)
                                 /\ \A r, q \in rows : r.id = q.id => r = q,
           verb \in Deploys => \A r, q \in rows : r.name = q.name => r = q
    PROVE  Holds
<1> DEFINE k == [verb |-> verb, todo |-> rows, bad |-> FALSE, all |-> rows]
<1>0. /\ StacksInv /\ StackTyped /\ HistoryTyped /\ Images /\ ~Running(h)
      /\ UNCHANGED <<box, pushed, tag, old, id>> /\ call' = [call EXCEPT ![h] = k]
      /\ clear' = [g \in Handlers |->
                     IF g = h THEN \A f \in Handlers \ {h} : ~Running(f) ELSE clear[g] /\ ~Running(g)]
      /\ outcome' = [outcome EXCEPT ![h] = "none"]
  BY DEF AnswersInv, StacksInv, Begin, Free
<1>1. k.verb = verb /\ k.todo = rows /\ k.all = rows
  OBVIOUS
<1> HIDE DEF k
<1>2. \A g \in Handlers : ~Running(g) => pc[g] = "idle"
  BY DEF AnswersInv, Consistent, Undisturbed
<1>3. PICK p \in {"idle", "each", "network"} :
          /\ pc' = [pc EXCEPT ![h] = p]
          /\ p = "idle" => verb = "update" /\ UNCHANGED <<pc, alone>>
          /\ p = "each" => verb \notin Deploys \cup {"update"}
          /\ p = "network" => verb \in Deploys
          /\ p # "idle" => alone' = [g \in Handlers |->
                                       IF g = h THEN \A f \in Handlers : pc[f] = "idle"
                                       ELSE alone[g] /\ pc[g] = "idle"]
  <2>1. CASE verb = "update" /\ UNCHANGED <<pc, alone>>
    <3>1. pc' = [pc EXCEPT ![h] = "idle"]
      BY <1>0, <1>2, <2>1 DEF StackTyped
    <3> QED
      BY <2>1, <3>1
  <2>2. CASE verb \notin Deploys \cup {"update"} /\ Enter(h, "each")
    BY <2>2 DEF Enter
  <2>3. CASE verb \in Deploys /\ Enter(h, "network")
    BY <2>3 DEF Enter
  <2> QED
    BY <2>1, <2>2, <2>3
<1>4. pc'[h] = p /\ call'[h] = k /\ outcome'[h] = "none" /\ Aside(h) /\ Running(h)'
  <2>1. pc'[h] = p /\ call'[h] = k /\ outcome'[h] = "none"
    BY <1>0, <1>3 DEF StackTyped, HistoryTyped
  <2>2. Aside(h)
    BY <1>0, <1>3 DEF Aside, StackTyped, HistoryTyped
  <2> QED
    BY <1>1, <2>1, <2>2 DEF Running
<1>5. \A g \in Handlers \ {h} : Consistent(g)' /\ Finishes(g) /\ Truthful(g)
  <2> SUFFICES ASSUME NEW g \in Handlers \ {h} PROVE Consistent(g)' /\ Finishes(g) /\ Truthful(g)
    OBVIOUS
  <2>1. ~(clear'[g] /\ Running(g))
    BY <1>0
  <2>2. alone'[g] /\ pc[g] # "idle" => alone[g] /\ UNCHANGED <<box, tag>> /\ pc'[h] = "idle"
    BY <1>0, <1>3, <1>4
  <2> QED
    BY <1>4, <2>1, <2>2, OtherHolds, OtherIsSilent
<1>6. Undisturbed(h)'
  <2>1. pc'[h] # "idle" => alone'[h] = (\A f \in Handlers : pc[f] = "idle")
    BY <1>3, <1>4
  <2>2. \A g \in Handlers \ {h} : pc'[g] = pc[g] /\ Running(g)' = Running(g)
    BY <1>4 DEF Aside, Running
  <2>3. clear'[h] => \A g \in Handlers \ {h} : ~Running(g)
    BY <1>0
  <2> QED
    BY <1>0, <1>2, <1>4, <2>1, <2>2, <2>3 DEF Undisturbed
<1>7. VerbOk(h)'
  BY <1>1, <1>3, <1>4 DEF VerbOk, Steps, Deploying, Deploys
<1>8. UpdateOk(h)'
  BY <1>4 DEF UpdateOk, Steps
<1>9. CallOk(h)'
  <2>1. verb \in Snapshots => SnapshotOk(h)'
    BY <1>0, <1>1, <1>4 DEF SnapshotOk, RowsOk
  <2>2. verb = "update" => MembersOk(h)'
    <3> SUFFICES ASSUME verb = "update" PROVE MembersOk(h)'
      OBVIOUS
    <3>1. pc'[h] = "idle"
      BY <1>3, <1>4 DEF Deploys
    <3>2. \A q \in rows : Unchanged(q)
      BY DEF Snapshots
    <3>3. call'[h].todo = rows /\ box' = box
      BY <1>0, <1>1, <1>4
    <3> QED
      BY <3>1, <3>2, <3>3 DEF MembersOk, Unchanged, Holding
  <2>3. verb \in Deploys => DeploymentOk(h)'
    BY <1>1, <1>4 DEF DeploymentOk
  <2> QED
    BY <1>1, <1>4, <2>1, <2>2, <2>3 DEF CallOk, Deploys
<1>10. Finishes(h) /\ Truthful(h)
  BY <1>0, <1>2 DEF Finishes, Truthful, Answers, Reports
<1>11. HistoryTyped'
  <2>1. alone' \in [Handlers -> BOOLEAN]
    <3>1. CASE p = "idle"
      BY <1>0, <1>3, <3>1 DEF HistoryTyped
    <3>2. CASE p # "idle"
      BY <1>0, <1>3, <3>2 DEF HistoryTyped
    <3> QED
      BY <3>1, <3>2
  <2>2. clear' \in [Handlers -> BOOLEAN]
    BY <1>0 DEF HistoryTyped
  <2>3. outcome' \in [Handlers -> Outcomes]
    BY <1>0 DEF HistoryTyped, Outcomes
  <2> QED
    BY <2>1, <2>2, <2>3 DEF HistoryTyped
<1>12. Images'
  BY <1>0 DEF Images
<1> QED
  BY <1>5, <1>6, <1>7, <1>8, <1>9, <1>10, <1>11, <1>12 DEF Holds, Consistent

LEMMA RowsAreSeen ==
    ASSUME StacksInv, NEW C \in SUBSET Existing
    PROVE  /\ Rows(C) \in SUBSET Lines
           /\ \A r \in Rows(C) : r.id \in 1..Len(box) /\ Unchanged(r)
           /\ \A r, q \in Rows(C) : r.id = q.id => r = q
<1>1. ASSUME NEW c \in C
      PROVE  /\ Row(c) \in Lines /\ Row(c).id = c /\ c \in 1..Len(box) /\ Unchanged(Row(c))
  <2>1. c \in 1..Len(box) /\ box[c] \in Boxes
    BY DEF StacksInv, StackTyped, Existing
  <2> QED
    BY <2>1 DEF Row, Boxes, Lines, Unchanged
<1> QED
  BY <1>1 DEF Rows

LEMMA BeginsHold ==
    ASSUME AnswersInv, NEW h \in Handlers,
           \/ \E c \in Existing, verb \in OnContainers : ActOn(h, c, verb)
           \/ \E verb \in {"start", "stop", "restart", "update", "removeStack"} : ActOnStack(h, verb)
           \/ Prune(h)
           \/ \E names \in (SUBSET Names) \ {{}}, start \in BOOLEAN : Deploy(h, names, start)
    PROVE  Holds
<1>0. StacksInv
  BY DEF AnswersInv
<1>1. ASSUME NEW C \in SUBSET Existing, NEW verb \in Verbs \ {"none"}, verb \notin Deploys,
             Begin(h, verb, Rows(C)),
             IF verb = "update" THEN UNCHANGED <<pc, alone>> ELSE Enter(h, "each")
      PROVE  Holds
  <2>1. /\ Rows(C) \in SUBSET Lines
        /\ \A r \in Rows(C) : r.id \in 1..Len(box) /\ Unchanged(r)
        /\ \A r, q \in Rows(C) : r.id = q.id => r = q
    BY <1>0, RowsAreSeen
  <2> QED
    BY <1>1, <2>1, BeginHolds
<1>2. ASSUME NEW c \in Existing, NEW verb \in OnContainers, ActOn(h, c, verb) PROVE Holds
  <2>1. Rows({c}) = {Row(c)} /\ {c} \in SUBSET Existing
    BY DEF Rows
  <2>2. verb \in Verbs \ {"none"} /\ verb \notin Deploys
    BY DEF OnContainers, Verbs, Deploys
  <2> QED
    BY <1>1, <1>2, <2>1, <2>2 DEF ActOn
<1>3. ASSUME NEW verb \in {"start", "stop", "restart", "update", "removeStack"}, ActOnStack(h, verb)
      PROVE  Holds
  <2>1. Members \in SUBSET Existing
    BY DEF Members
  <2>2. verb \in Verbs \ {"none"} /\ verb \notin Deploys
    BY DEF Verbs, Deploys
  <2> QED
    BY <1>1, <1>3, <2>1, <2>2 DEF ActOnStack
<1>4. ASSUME Prune(h) PROVE Holds
  <2>1. "prune" \in Verbs \ {"none"} /\ "prune" \notin Deploys /\ "prune" # "update"
    BY DEF Verbs, Deploys
  <2> QED
    BY <1>1, <1>4, <2>1 DEF Prune
<1>5. ASSUME NEW names \in (SUBSET Names) \ {{}}, NEW start \in BOOLEAN, Deploy(h, names, start)
      PROVE  Holds
  <2>1. PICK rows : rows = {[id |-> NoId, name |-> n, running |-> FALSE] : n \in names}
    OBVIOUS
  <2>2. PICK verb \in Deploys : verb = IF start THEN "deploy" ELSE "deployStopped"
    BY DEF Deploys
  <2>3. Begin(h, verb, rows) /\ Enter(h, "network")
    BY <1>5, <2>1, <2>2 DEF Deploy
  <2>4. \A n \in names : n \in Nat
    <3>1. Suffix \in Nat
      BY BoundsAssumption
    <3>2. \A n \in Names : n \in 0..Suffix-1
      BY NamesAssumption DEF Names
    <3> QED
      BY <3>1, <3>2
  <2>5. rows \in SUBSET Lines /\ \A r, q \in rows : r.name = q.name => r = q
    <3>1. \A r \in rows : \E n \in names : r = [id |-> 0, name |-> n, running |-> FALSE]
      BY <2>1 DEF NoId
    <3>2. \A n \in Nat : /\ [id |-> 0, name |-> n, running |-> FALSE] \in Lines
                         /\ [id |-> 0, name |-> n, running |-> FALSE].name = n
      BY DEF Lines
    <3>3. rows \in SUBSET Lines
      BY <2>4, <3>1, <3>2
    <3>4. ASSUME NEW r \in rows, NEW q \in rows, r.name = q.name PROVE r = q
      <4>1. PICK n \in names : r = [id |-> 0, name |-> n, running |-> FALSE]
        BY <3>1
      <4>2. PICK m \in names : q = [id |-> 0, name |-> m, running |-> FALSE]
        BY <3>1
      <4>3. n = m
        BY <2>4, <3>2, <3>4, <4>1, <4>2
      <4> QED
        BY <4>1, <4>2, <4>3
    <3> QED
      BY <3>3, <3>4
  <2>6. verb \in Verbs \ {"none"} /\ verb \notin Snapshots
    BY DEF Verbs, Snapshots, Deploys
  <2> QED
    BY <2>3, <2>5, <2>6, BeginHolds
<1> QED
  BY <1>2, <1>3, <1>4, <1>5

LEMMA RestartHolds == ASSUME AnswersInv, RestartServer PROVE Holds
<1>1. /\ pc' = [h \in Handlers |-> "idle"] /\ outcome' = [h \in Handlers |-> "none"]
      /\ old' = [h \in Handlers |-> Nothing] /\ alone' = [h \in Handlers |-> TRUE]
      /\ call' = [h \in Handlers |-> Answered(TRUE)] /\ clear' = [h \in Handlers |-> TRUE]
      /\ UNCHANGED <<box, pushed, tag>>
  BY DEF RestartServer, Restart
<1>2. Answered(TRUE).verb = "none" /\ Answered(TRUE).bad
  BY DEF Answered
<1>3. \A g \in Handlers : Consistent(g)'
  BY <1>1, <1>2 DEF Consistent, Undisturbed, VerbOk, UpdateOk, CallOk, Running, Steps, Deploying
<1>4. \A g \in Handlers : Finishes(g) /\ Truthful(g)
  BY <1>1, <1>2 DEF Finishes, Truthful, Reports
<1>5. Images'
  <2>1. tag \in Nat /\ Nothing.box.image = 0
    BY DEF AnswersInv, StacksInv, StackTyped, Nothing, Removed
  <2> QED
    BY <1>1, <2>1 DEF AnswersInv, Images
<1>6. HistoryTyped'
  BY <1>1 DEF HistoryTyped, Outcomes
<1> QED
  BY <1>3, <1>4, <1>5, <1>6 DEF Holds

LEMMA PushHolds == ASSUME AnswersInv, PushImage \/ UNCHANGED allVars PROVE Holds
<1>1. /\ UNCHANGED <<box, tag, pc, old, id, outcome, alone, call, clear>>
      /\ pushed' \in {pushed, pushed + 1}
  BY DEF PushImage, Push, allVars, vars, stackVars
<1>2. \A g \in Handlers : Consistent(g)'
  <2> SUFFICES ASSUME NEW g \in Handlers PROVE Consistent(g)'
    OBVIOUS
  <2>1. Undisturbed(g)' /\ VerbOk(g)'
    BY <1>1 DEF AnswersInv, Consistent, Undisturbed, VerbOk, Running
  <2>2. UpdateOk(g)'
    BY <1>1 DEF AnswersInv, Consistent, UpdateOk, Stopped, Parked, Name, WasRunning
  <2>3. CallOk(g)'
    BY <1>1 DEF AnswersInv, Consistent, CallOk, SnapshotOk, MembersOk, DeploymentOk, RowsOk, Reached,
                StandsIn, Achieved, Standing, Existing, Unchanged, Now, Name, WasRunning, Running
  <2> QED
    BY <2>1, <2>2, <2>3 DEF Consistent
<1>3. \A g \in Handlers : Finishes(g) /\ Truthful(g)
  BY <1>1 DEF Finishes, Truthful, Reports, Answers, Running
<1>4. Images'
  <2>1. tag \in Nat /\ pushed \in Nat
    BY DEF AnswersInv, StacksInv, StackTyped
  <2> QED
    BY <1>1, <2>1 DEF AnswersInv, Images
<1>5. HistoryTyped'
  BY <1>1 DEF AnswersInv, HistoryTyped
<1> QED
  BY <1>2, <1>3, <1>4, <1>5 DEF Holds

-----------------------------------------------------------------------------
(* Steps of an update *)

(* A request of an update is about its old container or about its own one. *)
Touches(h) ==
    /\ box' \in Seq(Boxes) /\ Len(box') >= Len(box)
    /\ \A x \in 1..Len(box) :
          box'[x] = box[x] \/ x = old[h].id \/ (pc[h] \in Holding /\ x = id[h])

LEMMA BecomesTouches ==
    ASSUME box \in Seq(Boxes), NEW h \in Handlers, NEW c, NEW b, NEW ok, Becomes(c, b, ok),
           c = old[h].id \/ (pc[h] \in Holding /\ c = id[h])
    PROVE  Touches(h)
<1>1. Len(box) \in Nat
  OBVIOUS
<1> QED
  BY <1>1 DEF Becomes, Touches

LEMMA GrowsTouches ==
    ASSUME box \in Seq(Boxes), NEW h \in Handlers, NEW b, NEW ok, Grows(b, ok)
    PROVE  Touches(h)
<1>1. Len(box) \in Nat
  OBVIOUS
<1> QED
  BY <1>1 DEF Grows, Touches

LEMMA StillTouches == ASSUME box \in Seq(Boxes), box' = box, NEW h \in Handlers PROVE Touches(h)
<1>1. Len(box) \in Nat
  OBVIOUS
<1> QED
  BY <1>1 DEF Touches

(* The operation an update is a part of, as long as nothing overlaps it. *)
LEMMA UpdatesCall ==
    ASSUME AnswersInv, NEW h \in Handlers, pc[h] \in Steps \ {"idle"}
    PROVE  /\ Running(h) /\ call[h].verb = "update" /\ outcome[h] = "none"
           /\ old[h].id \in 1..Len(box) /\ old[h].box \in Boxes /\ old[h].box.image <= tag
           /\ pc[h] \in Holding => id[h] > old[h].id /\ id[h] \in 1..Len(box)
           /\ clear[h] => alone[h] /\ SnapshotOk(h) /\ MembersOk(h)
<1>1. /\ StacksInv /\ StackTyped /\ HandlerOk(h) /\ NewerThanOld
      /\ Undisturbed(h) /\ VerbOk(h) /\ CallOk(h) /\ Images
  BY DEF AnswersInv, StacksInv, Services, Consistent
<1>2. old[h] \in [id : 0..Len(box), box : Boxes] /\ id[h] \in 0..Len(box) /\ Len(box) \in Nat
  BY <1>1 DEF StackTyped
<1>3. Running(h) /\ call[h].verb = "update" /\ outcome[h] = "none"
  BY <1>1 DEF Undisturbed, VerbOk
<1>4. old[h].id \in 1..Len(box)
  BY <1>1, <1>2 DEF HandlerOk, NoId
<1>5. pc[h] \in Holding => id[h] > old[h].id /\ id[h] \in 1..Len(box)
  BY <1>1, <1>2, <1>4 DEF NewerThanOld
<1>6. clear[h] => alone[h] /\ SnapshotOk(h) /\ MembersOk(h)
  BY <1>1, <1>3 DEF Undisturbed, CallOk, Snapshots
<1> QED
  BY <1>1, <1>2, <1>3, <1>4, <1>5, <1>6 DEF Images

(* The other rows, those to come and those done, are as they were. *)
OthersKept(h, own) ==
    /\ \A q \in call[h].todo : q # Now(h) => Unchanged(q)'
    /\ ~call[h].bad => \A r \in call[h].all \ call[h].todo :
          \E c \in 1..Len(box') :
             /\ c \in Existing' /\ box'[c].name = r.name /\ (r.running => box'[c].running)
             /\ c # own /\ \A q \in call[h].todo : q.id # c

LEMMA OtherRowsStay ==
    ASSUME AnswersInv, NEW h \in Handlers, pc[h] \in Steps \ {"idle"}, clear[h], Touches(h),
           NEW own, own \in {0, id[h]} \/ own > Len(box)
    PROVE  OthersKept(h, own)
<1>0. /\ StacksInv /\ box \in Seq(Boxes) /\ Len(box) \in Nat /\ Running(h)
      /\ call[h].verb = "update" /\ SnapshotOk(h) /\ MembersOk(h)
  BY UpdatesCall DEF AnswersInv, StacksInv, StackTyped
<1>1. Now(h) \in call[h].todo /\ old[h].id = Now(h).id
  BY <1>0, NowIsALine DEF MembersOk, Steps
<1>2. ASSUME NEW q \in call[h].todo, q # Now(h) PROVE Unchanged(q)'
  <2>1. q.id \in 1..Len(box) /\ q.id # old[h].id
    BY <1>0, <1>1, <1>2 DEF SnapshotOk, RowsOk
  <2>2. pc[h] \in Holding => q.id # id[h]
    BY <1>0, <1>2 DEF SnapshotOk, RowsOk, MembersOk
  <2>3. box'[q.id] = box[q.id] /\ Unchanged(q)
    BY <1>0, <1>2, <2>1, <2>2 DEF Touches, MembersOk
  <2> QED
    BY <2>3 DEF Unchanged
<1>3. ASSUME ~call[h].bad, NEW r \in call[h].all \ call[h].todo
      PROVE  \E c \in 1..Len(box') :
                /\ c \in Existing' /\ box'[c].name = r.name /\ (r.running => box'[c].running)
                /\ c # own /\ \A q \in call[h].todo : q.id # c
  <2>1. PICK c \in 1..Len(box) : StandsIn(c, r, id[h], call[h].todo)
    BY <1>0, <1>3 DEF SnapshotOk, Reached
  <2>2. c # old[h].id /\ c # id[h] /\ \A q \in call[h].todo : q.id # c
    BY <1>1, <2>1 DEF StandsIn
  <2>3. box'[c] = box[c] /\ c \in 1..Len(box')
    BY <1>0, <2>2 DEF Touches
  <2>4. c # own
    BY <1>0, <2>2
  <2>5. c \in Existing' /\ box'[c].name = r.name /\ (r.running => box'[c].running)
    BY <2>1, <2>3 DEF StandsIn, Existing, Touches
  <2> QED
    BY <2>2, <2>3, <2>4, <2>5
<1> QED
  BY <1>2, <1>3 DEF OthersKept

LEMMA OlderImages ==
    ASSUME AnswersInv, NEW h \in Handlers, tag <= tag', tag' \in Nat, tag' <= pushed, pushed' = pushed,
           \A x \in 1..Len(box') : box'[x].image <= tag',
           \A g \in Handlers : old'[g] = old[g] \/ old'[g] = Nothing
    PROVE  Images'
<1>1. StackTyped /\ Images
  BY DEF AnswersInv, StacksInv
<1>2. ASSUME NEW g \in Handlers PROVE old'[g].box.image <= tag'
  <2>1. old[g].box.image \in Nat /\ tag \in Nat /\ old[g].box.image <= tag
    BY <1>1 DEF StackTyped, Boxes, Images
  <2>2. Nothing.box.image = 0
    BY DEF Nothing, Removed
  <2> QED
    BY <2>1, <2>2
<1> QED
  BY <1>2 DEF Images

(* An update goes on to its next step. *)
LEMMA NextStepHolds ==
    ASSUME AnswersInv, NEW h \in Handlers, pc[h] \in Steps \ {"idle"}, Touches(h),
           NEW step \in Steps \ {"idle"}, pc' = [pc EXCEPT ![h] = step],
           UNCHANGED <<pushed, old, outcome, alone, clear, call>>,
           tag <= tag', tag' \in Nat, tag' <= pushed,
           \A x \in 1..Len(box') : box'[x].image <= tag',
           \A g \in Handlers \ {h} : id'[g] = id[g],
           id'[h] = id[h] \/ id'[h] > Len(box),
           step \in Holding => pc[h] \in Holding \/ id'[h] > Len(box),
           alone[h] => UpdateOk(h)'
    PROVE  Holds
<1>0. /\ StacksInv /\ StackTyped /\ HistoryTyped /\ Undisturbed(h) /\ Len(box) \in Nat
      /\ Running(h) /\ call[h].verb = "update"
  BY UpdatesCall DEF AnswersInv, StacksInv, StackTyped, Consistent
<1>1. Aside(h) /\ pc'[h] = step
  BY <1>0 DEF Aside, StackTyped
<1>2. \A g \in Handlers \ {h} : Consistent(g)' /\ Finishes(g) /\ Truthful(g)
  BY <1>0, <1>1, OthersHold
<1>3. Undisturbed(h)'
  <2>1. \A g \in Handlers \ {h} : pc'[g] = pc[g] /\ Running(g)' = Running(g)
    BY <1>1 DEF Aside, Running
  <2> QED
    BY <1>0, <1>1, <2>1 DEF Undisturbed, Running
<1>4. VerbOk(h)'
  BY <1>0, <1>1 DEF VerbOk, Steps, Deploying
<1>5. UpdateOk(h)'
  BY DEF UpdateOk
<1>6. CallOk(h)'
  <2> SUFFICES ASSUME clear[h] PROVE SnapshotOk(h)' /\ MembersOk(h)'
    BY <1>0 DEF CallOk
  <2>1. SnapshotOk(h) /\ MembersOk(h)
    BY UpdatesCall
  <2>2. PICK own : own = id'[h]
    OBVIOUS
  <2>3. OthersKept(h, own)
    BY <2>2, OtherRowsStay
  <2>4. RowsOk(h)'
    <3>1. Len(box') >= Len(box) /\ Len(box') \in Nat
      BY DEF Touches
    <3> QED
      BY <1>0, <2>1, <3>1 DEF SnapshotOk, RowsOk
  <2>5. SnapshotOk(h)'
    <3>1. ASSUME ~call[h].bad, NEW r \in call[h].all \ call[h].todo
          PROVE  Reached(call[h].verb, r, id[h], call[h].todo)'
      BY <1>0, <2>2, <2>3, <3>1 DEF OthersKept, Reached, StandsIn
    <3> QED
      BY <2>4, <3>1 DEF SnapshotOk
  <2>6. MembersOk(h)'
    <3>1. Now(h)' = Now(h)
      BY DEF Now
    <3>2. \A q \in call'[h].todo : pc'[h] = "idle" \/ q # Now(h)' => Unchanged(q)'
      BY <1>1, <2>3, <3>1 DEF OthersKept
    <3>3. old'[h].id = Now(h)'.id /\ Name(h)' = Now(h)'.name /\ WasRunning(h)' = Now(h)'.running
      BY <2>1, <3>1 DEF MembersOk, Name, WasRunning, Steps
    <3>4. ASSUME pc'[h] \in Holding, NEW q \in call'[h].all PROVE q.id # id'[h]
      <4>1. q.id \in 1..Len(box)
        BY <2>1, <3>4 DEF SnapshotOk, RowsOk
      <4>2. CASE id'[h] > Len(box)
        BY <1>0, <4>1, <4>2
      <4>3. CASE id'[h] = id[h] /\ pc[h] \in Holding
        BY <2>1, <3>4, <4>3 DEF MembersOk
      <4> QED
        BY <1>1, <3>4, <4>2, <4>3
    <3> QED
      BY <3>2, <3>3, <3>4 DEF MembersOk
  <2> QED
    BY <2>5, <2>6
<1>7. Finishes(h) /\ Truthful(h)
  BY <1>1 DEF Finishes, Answers, Running, Truthful, Reports
<1>8. HistoryTyped'
  BY <1>0 DEF HistoryTyped
<1>9. Images'
  BY OlderImages
<1> QED
  BY <1>2, <1>3, <1>4, <1>5, <1>6, <1>7, <1>8, <1>9 DEF Holds, Consistent

(* The container that stands for the service when an update is reported. *)
Succeeds(h, c) ==
    /\ c \in 1..Len(box') /\ c \in Existing' /\ box'[c].name = Name(h)
    /\ WasRunning(h) => box'[c].running
    /\ c = old[h].id \/ (pc[h] \in Holding /\ c = id[h])

(* An update is reported, and with it the row of the operation. *)
LEMMA ReportHolds ==
    ASSUME AnswersInv, NEW h \in Handlers, pc[h] \in Steps \ {"idle"}, Touches(h),
           NEW what \in Outcomes, Report(h, what), UNCHANGED <<pushed, tag, clear>>,
           NEW failed \in BOOLEAN, NEW halted \in BOOLEAN, halted => failed,
           call' = [call EXCEPT ![h] = Rest(h, failed, halted)],
           \A x \in 1..Len(box') : box'[x].image <= tag,
           alone[h] /\ ~failed => \E c : Succeeds(h, c),
           Truthful(h)
    PROVE  Holds
<1>0. /\ StacksInv /\ StackTyped /\ HistoryTyped /\ Undisturbed(h) /\ Len(box) \in Nat
      /\ Running(h) /\ call[h].verb = "update" /\ tag \in Nat /\ Images
      /\ call \in [Handlers -> Calls]
  BY UpdatesCall DEF AnswersInv, StacksInv, StackTyped, Consistent
<1>1. /\ Aside(h) /\ pc'[h] = "idle" /\ id'[h] = 0
      /\ \A g \in Handlers \ {h} : alone'[g] = alone[g]
      /\ \A g \in Handlers : old'[g] = old[g] \/ old'[g] = Nothing
  BY <1>0 DEF Aside, StackTyped, HistoryTyped, Report, NoId
<1>2. \A g \in Handlers \ {h} : Consistent(g)' /\ Finishes(g) /\ Truthful(g)
  BY <1>0, <1>1, OthersHold
<1>3. Undisturbed(h)'
  <2>1. \A g \in Handlers \ {h} : pc'[g] = pc[g] /\ Running(g)' = Running(g)
    BY <1>1 DEF Aside, Running
  <2> QED
    BY <1>0, <1>1, <2>1 DEF Undisturbed
<1>4. VerbOk(h)' /\ UpdateOk(h)'
  BY <1>1 DEF VerbOk, UpdateOk, Deploying
<1>5. PICK rest : rest = call[h].todo \ {Now(h)}
  OBVIOUS
<1>6. \/ ~Running(h)'
      \/ call'[h].verb = "update" /\ call'[h].todo = rest
  <2>0. StacksInv
    BY <1>0
  <2>1. \/ /\ rest = {} \/ halted
           /\ call'[h].verb = "none" /\ (call'[h].bad <=> call[h].bad \/ failed)
        \/ /\ rest # {} /\ ~halted
           /\ call'[h].verb = call[h].verb /\ call'[h].todo = rest
           /\ call'[h].all = call[h].all /\ (call'[h].bad <=> call[h].bad \/ failed)
    BY <1>5, <2>0, RestIs
  <2> QED
    BY <1>0, <2>1 DEF Running
<1>7. CallOk(h)' /\ Finishes(h)
  <2>1. CASE ~clear[h]
    BY <2>1 DEF CallOk, Finishes
  <2>2. CASE clear[h]
    <3>0. alone[h] /\ SnapshotOk(h) /\ MembersOk(h) /\ Now(h) \in call[h].todo
      BY <1>0, <2>2, UpdatesCall, NowIsALine
    <3>1. PICK own : own = id'[h]
      OBVIOUS
    <3>2. OthersKept(h, own)
      <4>1. own \in {0, id[h]} \/ own > Len(box)
        BY <1>1, <3>1
      <4> HIDE <3>1
      <4> QED
        BY <2>2, <4>1, OtherRowsStay
    <3>3. PICK verb : verb = call[h].verb
      OBVIOUS
    <3>4. ASSUME ~call[h].bad, ~failed, NEW r \in call[h].all \ rest
          PROVE  Reached(verb, r, own, rest)'
      <4>1. CASE r \in call[h].todo
        <5>1. r = Now(h)
          BY <1>5, <3>4, <4>1
        <5>2. PICK c : Succeeds(h, c)
          BY <3>0, <3>4
        <5>3. c # own /\ box'[c].name = r.name /\ (r.running => box'[c].running)
          BY <1>1, <3>0, <3>1, <5>1, <5>2 DEF Succeeds, MembersOk, Steps
        <5>4. \A q \in rest : q.id # c
          <6> SUFFICES ASSUME NEW q \in rest PROVE q.id # c
            OBVIOUS
          <6>1. q \in call[h].todo /\ q # Now(h) /\ q \in call[h].all /\ Now(h) \in call[h].all
            BY <1>5, <3>0 DEF SnapshotOk, RowsOk
          <6>2. q.id # old[h].id
            BY <3>0, <6>1 DEF SnapshotOk, RowsOk, MembersOk, Steps
          <6>3. pc[h] \in Holding => q.id # id[h]
            BY <3>0, <6>1 DEF MembersOk
          <6> QED
            BY <5>2, <6>2, <6>3 DEF Succeeds
        <5> QED
          BY <1>0, <3>3, <5>2, <5>3, <5>4 DEF Reached, StandsIn, Succeeds
      <4>2. CASE r \notin call[h].todo
        <5>1. PICK c \in 1..Len(box') :
                 /\ c \in Existing' /\ box'[c].name = r.name /\ (r.running => box'[c].running)
                 /\ c # own /\ \A q \in call[h].todo : q.id # c
          BY <3>2, <3>4, <4>2 DEF OthersKept
        <5> QED
          BY <1>0, <1>5, <3>3, <5>1 DEF Reached, StandsIn
      <4> QED
        BY <4>1, <4>2
    <3>5. (Running(h)' => SnapshotOk(h)') /\ Finishes(h)
      <4>1. Len(box') \in Nat /\ Len(box') >= Len(box) /\ call[h].verb \in Snapshots
        BY <1>0 DEF Touches, Snapshots
      <4>2. ~call[h].bad /\ ~failed => \A r \in call[h].all \ rest : Reached(verb, r, own, rest)'
        BY <3>4
      <4> QED
        BY <1>0, <1>5, <2>2, <3>1, <3>3, <4>1, <4>2, SnapshotRest
    <3>6. Running(h)' => MembersOk(h)'
      <4>1. \A q \in rest : Unchanged(q)'
        BY <1>5, <3>2 DEF OthersKept
      <4> QED
        BY <1>1, <1>6, <4>1 DEF MembersOk, Holding
    <3> QED
      BY <1>6, <3>5, <3>6 DEF CallOk
  <2> QED
    BY <2>1, <2>2
<1>8. HistoryTyped'
  BY <1>0 DEF HistoryTyped, Report
<1>9. Images'
  BY <1>0, <1>1, OlderImages DEF Images
<1> QED
  BY <1>2, <1>3, <1>4, <1>7, <1>8, <1>9 DEF Holds, Consistent

LEMMA UpdateNextHolds == ASSUME AnswersInv, NEW h \in Handlers, UpdateNext(h) PROVE Holds
<1>0. /\ StacksInv /\ StackTyped /\ HistoryTyped /\ Images /\ Consistent(h)
      /\ box \in Seq(Boxes) /\ Len(box) \in Nat /\ call \in [Handlers -> Calls]
      /\ pc[h] = "idle" /\ call[h].verb = "update" /\ Running(h) /\ clear' = clear
  BY DEF AnswersInv, StacksInv, StackTyped, UpdateNext, Running
<1>1. clear[h] => SnapshotOk(h) /\ MembersOk(h) /\ Now(h) \in call[h].todo
  BY <1>0, NowIsALine DEF Consistent, CallOk, Snapshots
<1>2. CASE Inspect(h) /\ old'[h].id = Now(h).id /\ UNCHANGED call
  <2>1. PICK c \in Existing :
            /\ old' = [old EXCEPT ![h] = [id |-> c, box |-> box[c]]]
            /\ pc' = [pc EXCEPT ![h] = "pull"] /\ UNCHANGED <<id, box, pushed, tag>>
            /\ outcome' = [outcome EXCEPT ![h] = "none"]
            /\ alone' = [g \in Handlers |-> IF g = h THEN \A f \in Handlers : pc[f] = "idle"
                                                     ELSE alone[g] /\ pc[g] = "idle"]
    BY <1>2 DEF Inspect
  <2>2. /\ pc'[h] = "pull" /\ outcome'[h] = "none" /\ Aside(h)
        /\ old'[h].id = c /\ old'[h].box = box[c] /\ c = Now(h).id
        /\ alone'[h] = (\A f \in Handlers : pc[f] = "idle")
        /\ \A g \in Handlers \ {h} : alone'[g] => pc[g] = "idle"
    BY <1>0, <1>2, <2>1 DEF Aside, StackTyped, HistoryTyped
  <2>3. \A g \in Handlers \ {h} : Consistent(g)' /\ Finishes(g) /\ Truthful(g)
    BY <1>0, <2>2, OthersHold
  <2>4. Undisturbed(h)'
    <3>1. \A g \in Handlers \ {h} : /\ pc'[g] = pc[g] /\ Running(g)' = Running(g)
                                    /\ pc[g] # "idle" => Running(g)
      BY <2>2 DEF Aside, Running, AnswersInv, Consistent, Undisturbed
    <3>2. Running(h)'
      BY <1>0, <1>2 DEF Running
    <3>3. clear[h] => \A g \in Handlers \ {h} : ~Running(g)
      BY <1>0 DEF Consistent, Undisturbed
    <3> QED
      BY <1>0, <2>2, <3>1, <3>2, <3>3 DEF Undisturbed
  <2>5. VerbOk(h)'
    BY <1>0, <1>2, <2>2 DEF VerbOk, Deploying
  <2>6. UpdateOk(h)'
    BY <2>1, <2>2 DEF UpdateOk, Existing
  <2>7. CallOk(h)'
    <3> SUFFICES ASSUME clear[h] PROVE SnapshotOk(h)' /\ MembersOk(h)'
      BY <1>0, <1>2 DEF CallOk
    <3>1. SnapshotOk(h)'
      BY <1>1, <1>2, <2>1 DEF SnapshotOk, RowsOk, Reached, StandsIn, Achieved, Standing, Existing
    <3>2. MembersOk(h)'
      <4>1. \A q \in call[h].todo : Unchanged(q)
        BY <1>0, <1>1 DEF MembersOk
      <4>2. box[c].name = Now(h).name /\ box[c].running = Now(h).running
        BY <1>1, <2>2, <4>1 DEF Unchanged
      <4> QED
        BY <1>2, <2>1, <2>2, <4>1, <4>2 DEF MembersOk, Unchanged, Now, Name, WasRunning, Holding
    <3> QED
      BY <3>1, <3>2
  <2>8. Finishes(h) /\ Truthful(h)
    BY <1>0, <1>2 DEF Finishes, Answers, Running, Truthful, Reports
  <2>9. HistoryTyped'
    <3>1. alone' \in [Handlers -> BOOLEAN]
      BY <1>0, <2>1 DEF HistoryTyped
    <3>2. outcome' \in [Handlers -> Outcomes]
      BY <1>0, <2>1 DEF HistoryTyped, Outcomes
    <3> QED
      BY <1>0, <3>1, <3>2 DEF HistoryTyped
  <2>10. Images'
    <3>1. box[c].image <= tag
      BY <1>0, <2>1 DEF Images, Existing
    <3>2. \A g \in Handlers : old'[g].box.image <= tag
      <4> SUFFICES ASSUME NEW g \in Handlers PROVE old'[g].box.image <= tag
        OBVIOUS
      <4>1. CASE g = h
        BY <2>2, <3>1, <4>1
      <4>2. CASE g # h
        BY <1>0, <2>2, <4>2 DEF Images, Aside
      <4> QED
        BY <4>1, <4>2
    <3> QED
      BY <1>0, <2>1, <3>2 DEF Images
  <2> QED
    BY <2>3, <2>4, <2>5, <2>6, <2>7, <2>8, <2>9, <2>10 DEF Holds, Consistent
<1>3. CASE call' = [call EXCEPT ![h] = Rest(h, TRUE, FALSE)] /\ UNCHANGED vars
  <2>1. UNCHANGED <<box, pushed, tag, pc, old, id, outcome, alone>>
    BY <1>3 DEF vars
  <2>2. Aside(h)
    BY <1>0, <1>3, <2>1 DEF Aside
  <2>3. \A g \in Handlers \ {h} : Consistent(g)' /\ Finishes(g) /\ Truthful(g)
    BY <1>0, <2>1, <2>2, OthersHold
  <2>4. Undisturbed(h)'
    <3>1. \A g \in Handlers \ {h} : pc'[g] = pc[g] /\ Running(g)' = Running(g)
      BY <2>2 DEF Aside, Running
    <3> QED
      BY <1>0, <2>1, <3>1 DEF Consistent, Undisturbed
  <2>5. VerbOk(h)' /\ UpdateOk(h)'
    BY <1>0, <2>1 DEF VerbOk, UpdateOk, Deploying
  <2>6. PICK rest : rest = call[h].todo \ {Now(h)}
    OBVIOUS
  <2>7. ~Running(h)' \/ (call'[h].verb = "update" /\ call'[h].todo = rest)
    <3>1. \/ rest = {} /\ call'[h].verb = "none"
          \/ call'[h].verb = call[h].verb /\ call'[h].todo = rest
      <4>1. PICK failed \in BOOLEAN, halted \in BOOLEAN : failed = TRUE /\ halted = FALSE
        OBVIOUS
      <4>2. call' = [call EXCEPT ![h] = Rest(h, failed, halted)]
        BY <1>3, <4>1
      <4>3. \/ /\ rest = {} \/ halted
               /\ call'[h].verb = "none" /\ (call'[h].bad <=> call[h].bad \/ failed)
            \/ /\ rest # {} /\ ~halted
               /\ call'[h].verb = call[h].verb /\ call'[h].todo = rest
               /\ call'[h].all = call[h].all /\ (call'[h].bad <=> call[h].bad \/ failed)
        BY <1>0, <2>6, <4>2, RestIs
      <4> QED
        BY <4>1, <4>3
    <3> QED
      BY <1>0, <3>1 DEF Running
  <2>8. CallOk(h)' /\ Finishes(h)
    <3>1. CASE ~clear[h]
      BY <1>0, <3>1 DEF CallOk, Finishes
    <3>2. CASE clear[h]
      <4>1. (Running(h)' => SnapshotOk(h)') /\ Finishes(h)
        <5>1. Len(box') \in Nat /\ Len(box') >= Len(box) /\ call[h].verb \in Snapshots
          BY <1>0, <2>1 DEF Snapshots
        <5>2. PICK own, verb : own = id'[h] /\ verb = call[h].verb
          OBVIOUS
        <5> QED
          BY <1>0, <1>3, <2>6, <3>2, <5>1, <5>2, SnapshotRest
      <4>2. Running(h)' => MembersOk(h)'
        <5>1. \A q \in rest : Unchanged(q)
          BY <1>0, <1>1, <2>6, <3>2 DEF MembersOk
        <5> QED
          BY <1>0, <2>1, <2>7, <5>1 DEF MembersOk, Unchanged, Holding
      <4> QED
        BY <2>7, <4>1, <4>2 DEF CallOk
    <3> QED
      BY <3>1, <3>2
  <2>9. Truthful(h)
    BY <1>0 DEF Truthful, Reports
  <2>10. HistoryTyped' /\ Images'
    BY <1>0, <2>1 DEF HistoryTyped, Images
  <2> QED
    BY <2>3, <2>4, <2>5, <2>8, <2>9, <2>10 DEF Holds, Consistent
<1> QED
  BY <1>2, <1>3 DEF UpdateNext

(* Stopping and parking a container, and undoing it. *)
LEMMA DoneAndUndone ==
    ASSUME NEW b \in Boxes, NEW name \in Nat
    PROVE  /\ [b EXCEPT !.running = FALSE] \in Boxes
           /\ ~b.running => [b EXCEPT !.running = FALSE] = b
           /\ b.running => [[b EXCEPT !.running = FALSE] EXCEPT !.running = TRUE] = b
           /\ [[[b EXCEPT !.running = FALSE] EXCEPT !.name = name] EXCEPT !.name = b.name]
                 = [b EXCEPT !.running = FALSE]
           /\ [b EXCEPT !.running = TRUE].exists = b.exists
           /\ [b EXCEPT !.running = TRUE].name = b.name
           /\ [b EXCEPT !.running = TRUE].image = b.image
           /\ [b EXCEPT !.running = TRUE].running
BY DEF Boxes

(* What a step of an update makes of the operation. *)
Attends(h) ==
    /\ clear' = clear
    /\ call' = IF pc'[h] # "idle" THEN call
               ELSE [call EXCEPT ![h] =
                       Rest(h, outcome'[h] \notin {"current", "updated", "updatedOldKept"},
                            Halts(outcome'[h]))]

LEMMA GotoHolds ==
    ASSUME AnswersInv, NEW h \in Handlers, pc[h] \in Steps \ {"idle"}, Attends(h), Touches(h),
           NEW step \in Steps \ {"idle"}, Goto(h, step), step \in Holding => pc[h] \in Holding,
           pushed' = pushed, tag' \in {tag, pushed}, \A x \in 1..Len(box') : box'[x].image <= tag,
           alone[h] /\ old'[h] = old[h] /\ id'[h] = id[h] /\ pc'[h] = step => UpdateOk(h)'
    PROVE  Holds
<1>0. /\ StackTyped /\ Images /\ box' \in Seq(Boxes) /\ tag \in Nat /\ pushed \in Nat
      /\ pc' = [pc EXCEPT ![h] = step] /\ UNCHANGED <<old, id, outcome, alone>>
  BY DEF AnswersInv, StacksInv, StackTyped, Touches, Goto
<1>1. pc'[h] = step
  BY <1>0 DEF StackTyped
<1>2. call' = call /\ clear' = clear
  BY <1>1 DEF Attends
<1>3. tag <= tag' /\ tag' \in Nat /\ tag' <= pushed
  BY <1>0 DEF Images
<1>4. \A x \in 1..Len(box') : box'[x].image <= tag'
  <2> SUFFICES ASSUME NEW x \in 1..Len(box') PROVE box'[x].image <= tag'
    OBVIOUS
  <2>1. box'[x].image \in Nat
    <3>1. box'[x] \in Boxes
      BY <1>0
    <3> QED
      BY <3>1 DEF Boxes
  <2>2. box'[x].image <= tag
    OBVIOUS
  <2> QED
    BY <1>0, <1>3, <2>1, <2>2
<1> QED
  BY <1>0, <1>1, <1>2, <1>3, <1>4, NextStepHolds

LEMMA ReportedHolds ==
    ASSUME AnswersInv, NEW h \in Handlers, pc[h] \in Steps \ {"idle"}, Attends(h), Touches(h),
           NEW what \in Outcomes, Report(h, what), UNCHANGED <<pushed, tag>>,
           \A x \in 1..Len(box') : box'[x].image <= tag,
           alone[h] /\ what \in {"current", "updated", "updatedOldKept"} => \E c : Succeeds(h, c),
           alone[h] /\ what \in {"updated", "updatedOldKept"} =>
              /\ box'[id[h]].exists /\ box'[id[h]].image > old[h].box.image
              /\ box'[id[h]].running = WasRunning(h),
           alone[h] /\ what = "rolledBack" => box'[old[h].id] = old[h].box
    PROVE  Holds
<1>0. StackTyped /\ HistoryTyped
  BY DEF AnswersInv, StacksInv
<1>1. pc'[h] = "idle" /\ outcome'[h] = what
  BY <1>0 DEF StackTyped, HistoryTyped, Report
<1>2. PICK failed \in BOOLEAN, halted \in BOOLEAN :
          /\ failed = (what \notin {"current", "updated", "updatedOldKept"}) /\ halted = Halts(what)
  BY DEF Halts
<1>3. call' = [call EXCEPT ![h] = Rest(h, failed, halted)] /\ clear' = clear
  BY <1>1, <1>2 DEF Attends
<1>4. halted => failed
  BY <1>2 DEF Halts
<1>5. Truthful(h)
  BY <1>1 DEF Truthful, Reports
<1>6. alone[h] /\ ~failed => \E c : Succeeds(h, c)
  BY <1>2
<1> QED
  <2>1. UNCHANGED <<pushed, tag, clear>>
    BY <1>3
  <2> QED
    BY <1>3, <1>4, <1>5, <1>6, <2>1, ReportHolds

(* What a step of an update may rely on. *)
LEMMA UpdateFacts ==
    ASSUME AnswersInv, NEW h \in Handlers, pc[h] \in Steps \ {"idle"}
    PROVE  /\ box \in Seq(Boxes) /\ tag \in Nat /\ UpdateOk(h)
           /\ Name(h) \in Nat /\ WasRunning(h) \in BOOLEAN
           /\ old[h].box \in Boxes /\ old[h].id \in 1..Len(box) /\ box[old[h].id] \in Boxes
           /\ old[h].box.image <= tag /\ old[h].box.image \in Nat
           /\ \A x \in 1..Len(box) : box[x].image <= tag
           /\ clear[h] => alone[h] /\ MembersOk(h)
           /\ Stopped(h) \in Boxes /\ Stopped(h).name = Name(h) /\ ~Stopped(h).running
           /\ WasRunning(h) => [Stopped(h) EXCEPT !.running = TRUE] = old[h].box
           /\ ~WasRunning(h) => Stopped(h) = old[h].box
           /\ [Parked(h) EXCEPT !.name = Name(h)] = Stopped(h)
           /\ pc[h] \in Holding => id[h] \in 1..Len(box) /\ id[h] # old[h].id /\ box[id[h]] \in Boxes
<1>1. /\ StacksInv /\ box \in Seq(Boxes) /\ tag \in Nat /\ UpdateOk(h) /\ Images
      /\ old[h].box \in Boxes /\ old[h].id \in 1..Len(box) /\ old[h].box.image <= tag
      /\ clear[h] => alone[h] /\ MembersOk(h)
      /\ pc[h] \in Holding => id[h] > old[h].id /\ id[h] \in 1..Len(box)
  BY UpdatesCall DEF AnswersInv, StacksInv, StackTyped, Consistent
<1>2. box[old[h].id] \in Boxes /\ (pc[h] \in Holding => box[id[h]] \in Boxes /\ id[h] # old[h].id)
  BY <1>1
<1>3. Name(h) \in Nat /\ WasRunning(h) \in BOOLEAN /\ old[h].box.image \in Nat
  BY <1>1 DEF Name, WasRunning, Boxes
<1>4. PICK b \in Boxes : b = old[h].box
  BY <1>1
<1>5. PICK name \in Nat : name = Name(h) + Suffix
  BY <1>3, BoundsAssumption
<1>6. Name(h) = b.name /\ WasRunning(h) = b.running
  BY <1>4 DEF Name, WasRunning
<1>7. /\ Stopped(h) = [b EXCEPT !.running = FALSE]
      /\ Parked(h) = [[b EXCEPT !.running = FALSE] EXCEPT !.name = name]
  BY <1>4, <1>5 DEF Stopped, Parked
<1>8. Stopped(h).name = b.name /\ ~Stopped(h).running
  BY <1>7 DEF Boxes
<1>9. /\ Stopped(h) \in Boxes
      /\ b.running => [Stopped(h) EXCEPT !.running = TRUE] = b
      /\ ~b.running => Stopped(h) = b
      /\ [Parked(h) EXCEPT !.name = b.name] = Stopped(h)
  <2>1. /\ [b EXCEPT !.running = FALSE] \in Boxes
        /\ ~b.running => [b EXCEPT !.running = FALSE] = b
        /\ b.running => [[b EXCEPT !.running = FALSE] EXCEPT !.running = TRUE] = b
        /\ [[[b EXCEPT !.running = FALSE] EXCEPT !.name = name] EXCEPT !.name = b.name]
              = [b EXCEPT !.running = FALSE]
    BY DoneAndUndone
  <2> HIDE <1>4, <1>5, <1>6, <1>8
  <2> QED
    BY <1>7, <2>1, Zenon
<1>10. \A x \in 1..Len(box) : box[x].image <= tag
  BY <1>1 DEF Images
<1> QED
  BY <1>1, <1>2, <1>3, <1>4, <1>6, <1>8, <1>9, <1>10

LEMMA PullHolds == ASSUME AnswersInv, NEW h \in Handlers, Attends(h), Pull(h) PROVE Holds
<1>0. pc[h] = "pull" /\ pc[h] \in Steps \ {"idle"} /\ pushed' = pushed
  BY DEF Pull, At, Steps
<1>1. /\ Touches(h) /\ box' = box /\ UpdateOk(h) /\ tag \in Nat
      /\ \A x \in 1..Len(box') : box'[x].image <= tag
  <2>1. box' = box
    BY DEF Pull, Request
  <2> QED
    BY <1>0, <2>1, UpdateFacts, StillTouches
<1>2. CASE tag' = pushed /\ Goto(h, "compare")
  <2>1. alone[h] /\ old'[h] = old[h] /\ pc'[h] = "compare" => UpdateOk(h)'
    BY <1>0, <1>1 DEF UpdateOk
  <2>2. "compare" \in Steps \ {"idle"} /\ "compare" \notin Holding
    BY DEF Steps, Holding
  <2> QED
    BY <1>0, <1>1, <1>2, <2>1, <2>2, GotoHolds
<1>3. CASE Report(h, "failed") /\ UNCHANGED tag
  <2>1. "failed" \in Outcomes
    BY DEF Outcomes
  <2> QED
    BY <1>0, <1>1, <1>3, <2>1, ReportedHolds
<1> QED
  BY <1>2, <1>3 DEF Pull

LEMMA CompareHolds == ASSUME AnswersInv, NEW h \in Handlers, Attends(h), Compare(h) PROVE Holds
<1>0. pc[h] = "compare" /\ pc[h] \in Steps \ {"idle"} /\ UNCHANGED <<pushed, tag>>
  BY DEF Compare, At, Steps
<1>1. PICK ok \in BOOLEAN :
          /\ Request(TRUE, box, ok)
          /\ IF ~ok THEN Report(h, "failed")
             ELSE IF tag = old[h].box.image THEN Report(h, "current")
             ELSE Goto(h, IF WasRunning(h) THEN "stop" ELSE "park")
  BY DEF Compare
<1>2. /\ Touches(h) /\ box' = box /\ UpdateOk(h) /\ tag \in Nat
      /\ old[h].box.image \in Nat /\ old[h].box.image <= tag
      /\ \A x \in 1..Len(box') : box'[x].image <= tag
  <2>1. box' = box
    BY <1>1 DEF Request
  <2> QED
    BY <1>0, <2>1, UpdateFacts, StillTouches
<1>3. "failed" \in Outcomes /\ "current" \in Outcomes
  BY DEF Outcomes
<1>4. CASE Report(h, "failed")
  BY <1>0, <1>2, <1>3, <1>4, ReportedHolds
<1>5. CASE Report(h, "current")
  <2>1. alone[h] => Succeeds(h, old[h].id)
    <3> SUFFICES ASSUME alone[h] PROVE Succeeds(h, old[h].id)
      OBVIOUS
    <3>1. box[old[h].id] = old[h].box /\ old[h].box.exists /\ old[h].id \in 1..Len(box)
      BY <1>0, <1>2, UpdateFacts DEF UpdateOk
    <3> QED
      BY <1>2, <3>1 DEF Succeeds, Existing, Name, WasRunning
  <2> QED
    BY <1>0, <1>2, <1>3, <1>5, <2>1, ReportedHolds
<1>6. CASE tag # old[h].box.image /\ Goto(h, IF WasRunning(h) THEN "stop" ELSE "park")
  <2>1. PICK step \in {"stop", "park"} : Goto(h, step) /\ (step = "park" => ~WasRunning(h))
    BY <1>6
  <2>2. alone[h] /\ old'[h] = old[h] /\ pc'[h] = step => UpdateOk(h)'
    <3> SUFFICES ASSUME alone[h], old'[h] = old[h], pc'[h] = step PROVE UpdateOk(h)'
      OBVIOUS
    <3>1. old[h].box.exists /\ box[old[h].id] = old[h].box /\ tag > old[h].box.image
      BY <1>0, <1>2, <1>6 DEF UpdateOk
    <3>2. step = "park" => Stopped(h) = old[h].box
      BY <1>0, <2>1, UpdateFacts
    <3>3. Stopped(h)' = Stopped(h)
      BY DEF Stopped
    <3> QED
      BY <1>0, <1>2, <2>1, <3>1, <3>2, <3>3 DEF UpdateOk
  <2>3. step \in Steps \ {"idle"} /\ step \notin Holding
    BY DEF Steps, Holding
  <2> QED
    BY <1>0, <1>2, <2>1, <2>2, <2>3, GotoHolds
<1> QED
  BY <1>1, <1>4, <1>5, <1>6

(* A request of an update about its old container. *)
LEMMA OldIsTouched ==
    ASSUME AnswersInv, NEW h \in Handlers, pc[h] \in Steps \ {"idle"}, NEW c, c = old[h].id,
           NEW ok \in BOOLEAN,
           \/ \E up \in BOOLEAN : SetRunning(c, up, ok)
           \/ \E name \in Nat : Rename(c, name, ok)
           \/ RemoveForced(c, ok)
    PROVE  /\ Touches(h) /\ Len(box') = Len(box)
           /\ \A x \in 1..Len(box) : x # c => box'[x] = box[x]
           /\ \A x \in 1..Len(box') : box'[x].image <= tag
<1>0. box \in Seq(Boxes) /\ c \in 1..Len(box) /\ c \in 0..Len(box) /\ box[c] \in Boxes
  <2>1. box \in Seq(Boxes) /\ old[h].id \in 1..Len(box)
    BY UpdateFacts
  <2> QED
    BY <2>1
<1>1. PICK b : Becomes(c, b, ok) /\ b.image <= tag
  <2>1. ASSUME NEW up \in BOOLEAN, SetRunning(c, up, ok)
        PROVE  \E b : Becomes(c, b, ok) /\ b.image <= tag
    <3>1. Becomes(c, [box[c] EXCEPT !.running = up], ok)
      BY <1>0, <2>1, SetRunningBecomes
    <3>2. [box[c] EXCEPT !.running = up].image <= tag
      BY <1>0, ImageOfOne
    <3> QED
      BY <3>1, <3>2
  <2>2. ASSUME NEW name \in Nat, Rename(c, name, ok)
        PROVE  \E b : Becomes(c, b, ok) /\ b.image <= tag
    <3>1. Becomes(c, [box[c] EXCEPT !.name = name], ok)
      BY <1>0, <2>2, RenameBecomes
    <3>2. [box[c] EXCEPT !.name = name].image <= tag
      BY <1>0, ImageOfOne
    <3> QED
      BY <3>1, <3>2
  <2>3. ASSUME RemoveForced(c, ok) PROVE \E b : Becomes(c, b, ok) /\ b.image <= tag
    <3>1. Becomes(c, Removed, ok) /\ Removed.image <= tag
      BY <1>0, <2>3, RemoveBecomes, ImageOfOne
    <3> QED
      BY <3>1
  <2> QED
    BY <2>1, <2>2, <2>3
<1>2. Touches(h)
  BY <1>0, <1>1, BecomesTouches
<1>3. \A x \in 1..Len(box') : box'[x].image <= tag
  BY <1>0, <1>1, ImagesStay
<1> QED
  BY <1>1, <1>2, <1>3 DEF Becomes

LEMMA StopHolds == ASSUME AnswersInv, NEW h \in Handlers, Attends(h), Stop(h) PROVE Holds
<1>0. pc[h] = "stop" /\ pc[h] \in Steps \ {"idle"} /\ UNCHANGED <<pushed, tag>>
  BY DEF Stop, At, Steps
<1>1. PICK c : c = old[h].id
  OBVIOUS
<1>2. PICK ok \in BOOLEAN : /\ SetRunning(c, FALSE, ok)
                            /\ IF ok THEN Goto(h, "park") ELSE Report(h, "failed")
  BY <1>1 DEF Stop
<1>3. Touches(h) /\ \A x \in 1..Len(box') : box'[x].image <= tag
  BY <1>0, <1>1, <1>2, OldIsTouched
<1>4. box \in Seq(Boxes) /\ c \in 1..Len(box) /\ UpdateOk(h)
  BY <1>0, <1>1, UpdateFacts
<1>5. CASE ok
  <2>1. alone[h] /\ old'[h] = old[h] /\ pc'[h] = "park" => UpdateOk(h)'
    <3> SUFFICES ASSUME alone[h], old'[h] = old[h], pc'[h] = "park" PROVE UpdateOk(h)'
      OBVIOUS
    <3>1. old[h].box.exists /\ box[c] = old[h].box /\ tag > old[h].box.image
      BY <1>0, <1>1, <1>4 DEF UpdateOk
    <3>2. c \in 0..Len(box)
      BY <1>4
    <3>3. Becomes(c, [box[c] EXCEPT !.running = FALSE], ok)
      BY <1>2, <1>4, <3>2, SetRunningBecomes
    <3>4. box'[c] = Stopped(h)
      BY <1>4, <1>5, <3>1, <3>3 DEF Becomes, Stopped
    <3>5. Stopped(h)' = Stopped(h)
      BY DEF Stopped
    <3> QED
      BY <1>0, <1>1, <3>1, <3>4, <3>5 DEF UpdateOk
  <2>2. "park" \in Steps \ {"idle"} /\ "park" \notin Holding
    BY DEF Steps, Holding
  <2> QED
    BY <1>0, <1>2, <1>3, <1>5, <2>1, <2>2, GotoHolds
<1>6. CASE ~ok
  <2>1. "failed" \in Outcomes
    BY DEF Outcomes
  <2> QED
    BY <1>0, <1>2, <1>3, <1>6, <2>1, ReportedHolds
<1> QED
  BY <1>5, <1>6

LEMMA ParkHolds == ASSUME AnswersInv, NEW h \in Handlers, Attends(h), Park(h) PROVE Holds
<1>0. pc[h] = "park" /\ pc[h] \in Steps \ {"idle"} /\ UNCHANGED <<pushed, tag>>
  BY DEF Park, At, Steps
<1>1. box \in Seq(Boxes) /\ old[h].id \in 1..Len(box) /\ UpdateOk(h) /\ Name(h) \in Nat
  BY <1>0, UpdateFacts
<1>2. PICK c \in 1..Len(box), name \in Nat : c = old[h].id /\ name = Name(h) + Suffix
  BY <1>1, BoundsAssumption
<1>3. PICK ok \in BOOLEAN : /\ Rename(c, name, ok)
                            /\ IF ok THEN Goto(h, "create")
                               ELSE IF WasRunning(h) THEN Goto(h, "resume") ELSE Report(h, "unchanged")
  BY <1>2 DEF Park
<1>4. Touches(h) /\ \A x \in 1..Len(box') : box'[x].image <= tag
  BY <1>0, <1>2, <1>3, OldIsTouched
<1>5. CASE ok /\ Goto(h, "create")
  <2>1. alone[h] /\ old'[h] = old[h] /\ pc'[h] = "create" => UpdateOk(h)'
    <3> SUFFICES ASSUME alone[h], old'[h] = old[h], pc'[h] = "create" PROVE UpdateOk(h)'
      OBVIOUS
    <3>1. old[h].box.exists /\ box[c] = Stopped(h) /\ tag > old[h].box.image
      BY <1>0, <1>1, <1>2 DEF UpdateOk
    <3>2. Becomes(c, [box[c] EXCEPT !.name = name], ok)
      BY <1>1, <1>3, RenameBecomes
    <3>3. box'[c] = Parked(h)
      BY <1>2, <1>5, <3>1, <3>2 DEF Becomes, Parked
    <3>4. Parked(h)' = Parked(h)
      BY DEF Parked, Stopped, Name
    <3> QED
      BY <1>0, <1>2, <3>1, <3>3, <3>4 DEF UpdateOk
  <2>2. "create" \in Steps \ {"idle"} /\ "create" \notin Holding
    BY DEF Steps, Holding
  <2> QED
    BY <1>0, <1>4, <1>5, <2>1, <2>2, GotoHolds
<1>6. CASE Goto(h, "resume")
  <2>1. alone[h] /\ old'[h] = old[h] /\ pc'[h] = "resume" => UpdateOk(h)'
    BY <1>0, <1>1 DEF UpdateOk
  <2>2. "resume" \in Steps \ {"idle"} /\ "resume" \notin Holding
    BY DEF Steps, Holding
  <2> QED
    BY <1>0, <1>4, <1>6, <2>1, <2>2, GotoHolds
<1>7. CASE Report(h, "unchanged")
  <2>1. "unchanged" \in Outcomes
    BY DEF Outcomes
  <2> QED
    BY <1>0, <1>4, <1>7, <2>1, ReportedHolds
<1> QED
  BY <1>3, <1>5, <1>6, <1>7

LEMMA ResumeHolds == ASSUME AnswersInv, NEW h \in Handlers, Attends(h), Resume(h) PROVE Holds
<1>0. pc[h] = "resume" /\ pc[h] \in Steps \ {"idle"} /\ UNCHANGED <<pushed, tag>>
  BY DEF Resume, At, Steps
<1>1. PICK c : c = old[h].id
  OBVIOUS
<1>2. PICK ok \in BOOLEAN : SetRunning(c, TRUE, ok) /\ Report(h, "unchanged")
  BY <1>1 DEF Resume
<1>3. Touches(h) /\ \A x \in 1..Len(box') : box'[x].image <= tag
  BY <1>0, <1>1, <1>2, OldIsTouched
<1>4. "unchanged" \in Outcomes
  BY DEF Outcomes
<1> QED
  BY <1>0, <1>2, <1>3, <1>4, ReportedHolds

LEMMA CreateHolds == ASSUME AnswersInv, NEW h \in Handlers, Attends(h), Create(h) PROVE Holds
<1>0. pc[h] = "create" /\ pc[h] \in Steps \ {"idle"} /\ UNCHANGED <<pushed, tag>>
  BY DEF Create, At, Steps
<1>1. PICK name : name = Name(h)
  OBVIOUS
<1>2. PICK ok \in BOOLEAN :
          /\ Request(~Taken(name), Append(box, Box(name, tag, FALSE)), ok)
          /\ IF ok THEN Created(h, IF WasRunning(h) THEN "start" ELSE "remove")
             ELSE Goto(h, "putback")
  BY <1>1 DEF Create
<1>3. /\ box \in Seq(Boxes) /\ Len(box) \in Nat /\ tag \in Nat /\ old[h].id \in 1..Len(box)
      /\ UpdateOk(h) /\ name \in Nat /\ \A x \in 1..Len(box) : box[x].image <= tag
      /\ WasRunning(h) \in BOOLEAN
  <2>1. /\ box \in Seq(Boxes) /\ tag \in Nat /\ old[h].id \in 1..Len(box)
        /\ UpdateOk(h) /\ Name(h) \in Nat /\ \A x \in 1..Len(box) : box[x].image <= tag
        /\ WasRunning(h) \in BOOLEAN
    BY <1>0, UpdateFacts
  <2>2. Len(box) \in Nat
    BY <2>1
  <2> QED
    BY <1>1, <2>1, <2>2
<1>4. Grows(Box(name, tag, FALSE), ok)
  BY <1>2, <1>3, CreateGrows
<1>5. /\ Touches(h) /\ box'[old[h].id] = box[old[h].id]
      /\ ok => Len(box') = Len(box) + 1 /\ box'[Len(box')] = Box(name, tag, FALSE)
  BY <1>3, <1>4, GrowsTouches DEF Grows
<1>6. \A x \in 1..Len(box') : box'[x].image <= tag
  <2> SUFFICES ASSUME NEW x \in 1..Len(box') PROVE box'[x].image <= tag
    OBVIOUS
  <2>1. CASE x \in 1..Len(box)
    BY <1>3, <1>4, <2>1 DEF Grows
  <2>2. CASE x \notin 1..Len(box)
    <3>1. box'[x] = Box(name, tag, FALSE)
      <4>1. Len(box') = Len(box) + 1 /\ x = Len(box')
        BY <1>3, <1>4, <2>2 DEF Grows
      <4> QED
        BY <1>4, <4>1 DEF Grows
    <3> QED
      BY <1>3, <3>1 DEF Box
  <2> QED
    BY <2>1, <2>2
<1>7. Parked(h)' = Parked(h) \/ old'[h] # old[h]
  BY DEF Parked, Stopped, Name
<1>8. alone[h] => /\ old[h].box.exists /\ box'[old[h].id] = Parked(h) /\ tag > old[h].box.image
  BY <1>0, <1>3, <1>5 DEF UpdateOk
<1>9. CASE ~ok
  <2>1. alone[h] /\ old'[h] = old[h] /\ pc'[h] = "putback" => UpdateOk(h)'
    BY <1>7, <1>8 DEF UpdateOk
  <2>2. "putback" \in Steps \ {"idle"} /\ "putback" \notin Holding
    BY DEF Steps, Holding
  <2> QED
    BY <1>0, <1>2, <1>3, <1>5, <1>6, <1>9, <2>1, <2>2, GotoHolds
<1>10. CASE ok
  <2>1. PICK step \in {"start", "remove"} : Created(h, step) /\ (step = "start" <=> WasRunning(h))
    BY <1>2, <1>3, <1>10
  <2>2. /\ pc' = [pc EXCEPT ![h] = step] /\ pc'[h] = step /\ id'[h] = Len(box')
        /\ UNCHANGED <<old, outcome, alone>> /\ \A g \in Handlers \ {h} : id'[g] = id[g]
    BY <2>1 DEF Created, AnswersInv, StacksInv, StackTyped
  <2>3. call' = call /\ clear' = clear
    BY <2>2 DEF Attends
  <2>4. alone[h] => UpdateOk(h)'
    <3> SUFFICES ASSUME alone[h] PROVE UpdateOk(h)'
      OBVIOUS
    <3>1. PICK b : b = Box(name, tag, FALSE)
      OBVIOUS
    <3>2. b.exists /\ b.name = name /\ b.image = tag /\ b.running = FALSE
      BY <3>1 DEF Box
    <3>3. box'[id'[h]] = b
      BY <1>5, <1>10, <2>2, <3>1
    <3>4. Name(h)' = name /\ WasRunning(h)' = WasRunning(h)
      BY <1>1, <2>2 DEF Name, WasRunning
    <3> QED
      BY <1>3, <1>7, <1>8, <2>1, <2>2, <3>2, <3>3, <3>4 DEF UpdateOk
  <2>5. step \in Steps \ {"idle"}
    BY DEF Steps
  <2>6. tag <= tag' /\ tag' \in Nat /\ tag' <= pushed /\ \A x \in 1..Len(box') : box'[x].image <= tag'
    BY <1>0, <1>3, <1>6 DEF AnswersInv, Images
  <2>7. id'[h] > Len(box)
    BY <1>3, <1>5, <1>10, <2>2
  <2> QED
    BY <1>0, <1>5, <2>2, <2>3, <2>4, <2>5, <2>6, <2>7, NextStepHolds
<1> QED
  BY <1>9, <1>10

LEMMA StartHolds == ASSUME AnswersInv, NEW h \in Handlers, Attends(h), Start(h) PROVE Holds
<1>0. pc[h] = "start" /\ pc[h] \in Holding /\ pc[h] \in Steps \ {"idle"} /\ UNCHANGED <<pushed, tag>>
  BY DEF Start, At, Steps, Holding
<1>1. /\ box \in Seq(Boxes) /\ old[h].id \in 1..Len(box) /\ UpdateOk(h)
      /\ id[h] \in 1..Len(box) /\ id[h] # old[h].id /\ box[id[h]] \in Boxes
  BY <1>0, UpdateFacts
<1>2. PICK c \in 1..Len(box) : c = id[h]
  BY <1>1
<1>3. PICK ok \in BOOLEAN : SetRunning(c, TRUE, ok) /\ Goto(h, IF ok THEN "remove" ELSE "discard")
  BY <1>2 DEF Start
<1>4. PICK b : b = [box[c] EXCEPT !.running = TRUE]
  OBVIOUS
<1>5. c \in 0..Len(box)
  BY <1>1
<1>6. Becomes(c, b, ok)
  BY <1>1, <1>3, <1>4, <1>5, SetRunningBecomes
<1>7. Touches(h)
  BY <1>0, <1>1, <1>2, <1>6, BecomesTouches
<1>8. \A x \in 1..Len(box') : box'[x].image <= tag
  <2>1. b.image <= tag
    BY <1>4, <1>5, <1>1, ImageOfOne
  <2> QED
    BY <1>5, <1>6, <2>1, ImagesStay
<1>9. PICK step \in {"remove", "discard"} : Goto(h, step) /\ (step = "remove" => ok)
  BY <1>3
<1>10. alone[h] /\ old'[h] = old[h] /\ id'[h] = id[h] /\ pc'[h] = step => UpdateOk(h)'
  <2> SUFFICES ASSUME alone[h], old'[h] = old[h], id'[h] = id[h], pc'[h] = step PROVE UpdateOk(h)'
    OBVIOUS
  <2>1. /\ old[h].box.exists /\ box[old[h].id] = Parked(h) /\ WasRunning(h)
        /\ box[c].exists /\ box[c].name = Name(h) /\ box[c].image > old[h].box.image
    BY <1>0, <1>1, <1>2 DEF UpdateOk
  <2>2. box'[old[h].id] = Parked(h)
    BY <1>1, <1>2, <1>6, <2>1 DEF Becomes
  <2>3. step = "remove" => /\ box'[c].exists /\ box'[c].name = Name(h)
                           /\ box'[c].image > old[h].box.image /\ box'[c].running = TRUE
    <3>1. box[c] \in Boxes
      BY <1>1, <1>2
    <3>2. b.exists = box[c].exists /\ b.name = box[c].name /\ b.image = box[c].image /\ b.running = TRUE
      BY <1>4, <3>1 DEF Boxes
    <3>3. step = "remove" => box'[c] = b
      BY <1>1, <1>6, <1>9 DEF Becomes
    <3> QED
      BY <2>1, <3>2, <3>3
  <2>4. Parked(h)' = Parked(h) /\ Name(h)' = Name(h) /\ WasRunning(h)' = WasRunning(h)
    BY DEF Parked, Stopped, Name, WasRunning
  <2>5. WasRunning(h) = TRUE
    <3>1. WasRunning(h) \in BOOLEAN
      BY <1>0, UpdateFacts
    <3> QED
      BY <2>1, <3>1
  <2> QED
    BY <1>2, <1>9, <2>1, <2>2, <2>3, <2>4, <2>5 DEF UpdateOk
<1>11. step \in Steps \ {"idle"}
  BY DEF Steps
<1> QED
  BY <1>0, <1>7, <1>8, <1>9, <1>10, <1>11, GotoHolds

LEMMA RemoveOldHolds ==
    ASSUME AnswersInv, NEW h \in Handlers, Attends(h), RemoveOld(h) PROVE Holds
<1>0. pc[h] = "remove" /\ pc[h] \in Holding /\ pc[h] \in Steps \ {"idle"} /\ UNCHANGED <<pushed, tag>>
  BY DEF RemoveOld, At, Steps, Holding
<1>1. /\ box \in Seq(Boxes) /\ UpdateOk(h) /\ id[h] \in 1..Len(box) /\ id[h] # old[h].id
  BY <1>0, UpdateFacts
<1>2. PICK c : c = old[h].id
  OBVIOUS
<1>3. PICK ok \in BOOLEAN : /\ RemoveForced(c, ok)
                            /\ Report(h, IF ok THEN "updated" ELSE "updatedOldKept")
  BY <1>2 DEF RemoveOld
<1>4. PICK what \in {"updated", "updatedOldKept"} : Report(h, what)
  BY <1>3
<1>5. /\ Touches(h) /\ Len(box') = Len(box) /\ \A x \in 1..Len(box') : box'[x].image <= tag
      /\ \A x \in 1..Len(box) : x # c => box'[x] = box[x]
  BY <1>0, <1>2, <1>3, OldIsTouched
<1>6. box'[id[h]] = box[id[h]]
  BY <1>1, <1>2, <1>5
<1>7. alone[h] => /\ box'[id[h]].exists /\ box'[id[h]].image > old[h].box.image
                  /\ box'[id[h]].running = WasRunning(h) /\ box'[id[h]].name = Name(h)
  BY <1>0, <1>1, <1>6 DEF UpdateOk
<1>8. alone[h] => Succeeds(h, id[h])
  BY <1>0, <1>1, <1>5, <1>7 DEF Succeeds, Existing, Touches
<1>9. what \in Outcomes /\ what # "rolledBack"
  BY DEF Outcomes
<1> QED
  BY <1>0, <1>4, <1>5, <1>7, <1>8, <1>9, ReportedHolds

LEMMA DiscardHolds == ASSUME AnswersInv, NEW h \in Handlers, Attends(h), Discard(h) PROVE Holds
<1>0. pc[h] = "discard" /\ pc[h] \in Holding /\ pc[h] \in Steps \ {"idle"} /\ UNCHANGED <<pushed, tag>>
  BY DEF Discard, At, Steps, Holding
<1>1. /\ box \in Seq(Boxes) /\ old[h].id \in 1..Len(box) /\ UpdateOk(h)
      /\ id[h] \in 1..Len(box) /\ id[h] # old[h].id
  BY <1>0, UpdateFacts
<1>2. PICK c \in 0..Len(box) : c = id[h]
  BY <1>1
<1>3. PICK ok \in BOOLEAN : RemoveForced(c, ok) /\ Goto(h, "putback")
  BY <1>2 DEF Discard
<1>4. Becomes(c, Removed, ok) /\ Removed.image <= tag
  BY <1>1, <1>3, RemoveBecomes, ImageOfOne
<1>5. Touches(h) /\ \A x \in 1..Len(box') : box'[x].image <= tag
  BY <1>0, <1>1, <1>2, <1>4, BecomesTouches, ImagesStay
<1>6. alone[h] /\ old'[h] = old[h] /\ pc'[h] = "putback" => UpdateOk(h)'
  <2> SUFFICES ASSUME alone[h], old'[h] = old[h], pc'[h] = "putback" PROVE UpdateOk(h)'
    OBVIOUS
  <2>1. old[h].box.exists /\ box[old[h].id] = Parked(h)
    BY <1>0, <1>1 DEF UpdateOk
  <2>2. box'[old[h].id] = Parked(h)
    BY <1>1, <1>2, <1>4, <2>1 DEF Becomes
  <2>3. Parked(h)' = Parked(h)
    BY DEF Parked, Stopped, Name
  <2> QED
    BY <2>1, <2>2, <2>3 DEF UpdateOk
<1>7. "putback" \in Steps \ {"idle"} /\ "putback" \notin Holding
  BY DEF Steps, Holding
<1> QED
  BY <1>0, <1>3, <1>5, <1>6, <1>7, GotoHolds

LEMMA PutBackHolds == ASSUME AnswersInv, NEW h \in Handlers, Attends(h), PutBack(h) PROVE Holds
<1>0. pc[h] = "putback" /\ pc[h] \in Steps \ {"idle"} /\ UNCHANGED <<pushed, tag>>
  BY DEF PutBack, At, Steps
<1>1. /\ box \in Seq(Boxes) /\ old[h].id \in 1..Len(box) /\ UpdateOk(h) /\ Name(h) \in Nat
      /\ [Parked(h) EXCEPT !.name = Name(h)] = Stopped(h)
      /\ ~WasRunning(h) => Stopped(h) = old[h].box
  BY <1>0, UpdateFacts
<1>2. PICK c \in 1..Len(box), name \in Nat : c = old[h].id /\ name = Name(h)
  BY <1>1
<1>3. PICK ok \in BOOLEAN :
          /\ Rename(c, name, ok)
          /\ IF WasRunning(h) THEN Goto(h, IF ok THEN "startback" ELSE "startonly")
             ELSE Report(h, IF ok THEN "rolledBack" ELSE "notRestored")
  BY <1>2 DEF PutBack
<1>4. Touches(h) /\ \A x \in 1..Len(box') : box'[x].image <= tag
  BY <1>0, <1>2, <1>3, OldIsTouched
<1>5. alone[h] => old[h].box.exists /\ (ok => box'[c] = Stopped(h))
  <2> SUFFICES ASSUME alone[h] PROVE old[h].box.exists /\ (ok => box'[c] = Stopped(h))
    OBVIOUS
  <2>1. old[h].box.exists /\ box[c] = Parked(h)
    BY <1>0, <1>1, <1>2 DEF UpdateOk
  <2>2. Becomes(c, [box[c] EXCEPT !.name = name], ok)
    BY <1>1, <1>3, RenameBecomes
  <2>3. [box[c] EXCEPT !.name = name] = Stopped(h)
    BY <1>1, <1>2, <2>1
  <2> QED
    BY <2>1, <2>2, <2>3 DEF Becomes
<1>6. CASE WasRunning(h)
  <2>1. PICK step \in {"startback", "startonly"} : Goto(h, step) /\ (step = "startback" => ok)
    BY <1>3, <1>6
  <2>2. alone[h] /\ old'[h] = old[h] /\ pc'[h] = step => UpdateOk(h)'
    <3> SUFFICES ASSUME alone[h], old'[h] = old[h], pc'[h] = step PROVE UpdateOk(h)'
      OBVIOUS
    <3>1. Stopped(h)' = Stopped(h) /\ WasRunning(h)'
      BY <1>6 DEF Stopped, WasRunning
    <3> QED
      BY <1>2, <1>5, <2>1, <3>1 DEF UpdateOk
  <2>3. step \in Steps \ {"idle"} /\ step \notin Holding
    BY DEF Steps, Holding
  <2> QED
    BY <1>0, <1>4, <2>1, <2>2, <2>3, GotoHolds
<1>7. CASE ~WasRunning(h)
  <2>1. PICK what \in {"rolledBack", "notRestored"} : Report(h, what) /\ (what = "rolledBack" => ok)
    BY <1>3, <1>7
  <2>2. alone[h] /\ what = "rolledBack" => box'[old[h].id] = old[h].box
    BY <1>1, <1>2, <1>5, <1>7, <2>1
  <2>3. what \in Outcomes /\ what \notin {"current", "updated", "updatedOldKept"}
    BY DEF Outcomes
  <2> QED
    BY <1>0, <1>4, <2>1, <2>2, <2>3, ReportedHolds
<1> QED
  BY <1>6, <1>7

LEMMA StartBackHolds ==
    ASSUME AnswersInv, NEW h \in Handlers, Attends(h), StartBack(h) PROVE Holds
<1>1. PICK c : c = old[h].id
  OBVIOUS
<1>2. PICK step \in {"startback", "startonly"}, ok \in BOOLEAN :
          /\ At(h, step) /\ UNCHANGED tag /\ SetRunning(c, TRUE, ok)
          /\ Report(h, IF ok /\ step = "startback" THEN "rolledBack" ELSE "notRestored")
  BY <1>1 DEF StartBack
<1>0. pc[h] = step /\ pc[h] \in Steps \ {"idle"} /\ UNCHANGED <<pushed, tag>>
  BY <1>2 DEF At, Steps
<1>3. /\ box \in Seq(Boxes) /\ c \in 1..Len(box) /\ UpdateOk(h)
      /\ WasRunning(h) => [Stopped(h) EXCEPT !.running = TRUE] = old[h].box
  BY <1>0, <1>1, UpdateFacts
<1>4. Touches(h) /\ \A x \in 1..Len(box') : box'[x].image <= tag
  BY <1>0, <1>1, <1>2, OldIsTouched
<1>5. PICK what \in {"rolledBack", "notRestored"} :
          Report(h, what) /\ (what = "rolledBack" => ok /\ step = "startback")
  BY <1>2
<1>6. alone[h] /\ what = "rolledBack" => box'[old[h].id] = old[h].box
  <2> SUFFICES ASSUME alone[h], ok, step = "startback" PROVE box'[c] = old[h].box
    BY <1>1, <1>5
  <2>1. box[c] = Stopped(h) /\ WasRunning(h)
    BY <1>0, <1>1, <1>3 DEF UpdateOk
  <2>2. c \in 0..Len(box)
    BY <1>3
  <2>3. Becomes(c, [box[c] EXCEPT !.running = TRUE], ok)
    BY <1>2, <1>3, <2>2, SetRunningBecomes
  <2> QED
    BY <1>3, <2>1, <2>3 DEF Becomes
<1>7. what \in Outcomes /\ what \notin {"current", "updated", "updatedOldKept"}
  BY DEF Outcomes
<1> QED
  BY <1>0, <1>4, <1>5, <1>6, <1>7, ReportedHolds

LEMMA UpdateStepHolds == ASSUME AnswersInv, NEW h \in Handlers, UpdateStep(h) PROVE Holds
<1>1. Attends(h) /\ ~Inspect(h) /\ Update(h)
  BY DEF UpdateStep, Attends, Inspect
<1> QED
  BY <1>1, PullHolds, CompareHolds, StopHolds, ParkHolds, ResumeHolds, CreateHolds, StartHolds,
     RemoveOldHolds, DiscardHolds, PutBackHolds, StartBackHolds DEF Update

-----------------------------------------------------------------------------
LEMMA AnswersStep == ASSUME AnswersInv, [NextStacks]_allVars PROVE Holds
<1>1. ASSUME NEW h \in Handlers, Operation(h) PROVE Holds
  BY <1>1, BeginsHold, SetStateHolds, StopToRemoveHolds, CheckToPruneHolds, DropHolds,
     NetworkHolds, PullImageHolds, MakeHolds, RunHolds, UpdateNextHolds, UpdateStepHolds
     DEF Operation
<1> QED
  BY <1>1, RestartHolds, PushHolds DEF NextStacks

LEMMA InitAnswers == InitStacks => AnswersInv
<1> SUFFICES ASSUME InitStacks PROVE AnswersInv
  OBVIOUS
<1>1. PICK up, name :
          box = <<Box(0, 1, TRUE), Box(1, 1, up), Box(name, 1, TRUE)>>
  BY DEF InitStacks
<1>2. /\ pushed = 1 /\ tag = 1
      /\ pc = [h \in Handlers |-> "idle"] /\ old = [h \in Handlers |-> Nothing]
      /\ outcome = [h \in Handlers |-> "none"] /\ alone = [h \in Handlers |-> TRUE]
      /\ call = [h \in Handlers |-> Answered(FALSE)] /\ clear = [h \in Handlers |-> TRUE]
  BY DEF InitStacks
<1>3. Images
  <2>1. \A n, b : Box(n, 1, b).image = 1
    BY DEF Box
  <2>2. Nothing.box.image = 0
    BY DEF Nothing, Removed
  <2>3. /\ Len(box) = 3 /\ box[1] = Box(0, 1, TRUE) /\ box[2] = Box(1, 1, up)
        /\ box[3] = Box(name, 1, TRUE)
    BY <1>1
  <2>4. ASSUME NEW x \in 1..Len(box) PROVE box[x].image = 1
    <3>1. x \in {1, 2, 3}
      BY <2>3, <2>4
    <3> QED
      BY <2>1, <2>3, <3>1
  <2> QED
    BY <1>2, <2>2, <2>4 DEF Images
<1>4. HistoryTyped
  BY <1>2 DEF HistoryTyped, Outcomes
<1>5. \A h \in Handlers : Consistent(h)
  <2>1. Answered(FALSE).verb = "none"
    BY DEF Answered
  <2> QED
    BY <1>2, <2>1 DEF Consistent, Undisturbed, VerbOk, UpdateOk, CallOk, Running, Deploying
<1> QED
  BY <1>3, <1>4, <1>5, InitStacksInv DEF AnswersInv

LEMMA AnswersInvariance == SpecStacks => []AnswersInv
<1>1. AnswersInv /\ [NextStacks]_allVars => AnswersInv'
  BY AnswersStep, StacksStep DEF AnswersInv, Holds, Orderly
<1> QED
  BY InitAnswers, <1>1, PTL DEF SpecStacks

(* What the owner is told is what was done, for any number of handlers, names,
   images and faults: an operation that nothing overlapped and that is answered
   as a success did all of it, for every container and service it set out with;
   an update reported as done left the newer image, running if the old one was;
   and one reported as rolled back left the old container as it found it. *)
THEOREM WhatIsToldIsDone == SpecStacks => AnswersAreTrue
<1>1. AnswersInv /\ [NextStacks]_allVars =>
        [\A h \in Handlers : Answers(h) /\ ~call'[h].bad /\ clear[h] =>
            \A verb \in {call[h].verb}, r \in call[h].all : Achieved(verb, r)']_allVars
  BY AnswersStep DEF Holds, Finishes
<1>2. AnswersInv /\ [NextStacks]_allVars =>
        [\A h \in Handlers : Reports(h, {"updated", "updatedOldKept"}) /\ alone[h] =>
            /\ box'[id[h]].exists /\ box'[id[h]].image > old[h].box.image
            /\ box'[id[h]].running = WasRunning(h)]_vars
  BY AnswersStep DEF Holds, Truthful
<1>3. AnswersInv /\ [NextStacks]_allVars =>
        [\A h \in Handlers : Reports(h, {"rolledBack"}) /\ alone[h] =>
            box'[old[h].id] = old[h].box]_vars
  BY AnswersStep DEF Holds, Truthful
<1>4. SpecStacks => SuccessIsComplete
  BY AnswersInvariance, <1>1, PTL DEF SpecStacks, SuccessIsComplete
<1>5. SpecStacks => UpdatedIsUp
  BY AnswersInvariance, <1>2, PTL DEF SpecStacks, UpdatedIsUp
<1>6. SpecStacks => RolledBackIsBack
  BY AnswersInvariance, <1>3, PTL DEF SpecStacks, RolledBackIsBack
<1> QED
  BY <1>4, <1>5, <1>6 DEF AnswersAreTrue

-----------------------------------------------------------------------------
(***************************************************************************)
(* The compose file that a deployment is given.  Deployment reads it with  *)
(* the values put in, the linter walks the raw lines; that the walk sees   *)
(* every path that the parser takes is an invariant of the two readers     *)
(* side by side (Alike), line by line, for as long as the parser has       *)
(* neither failed nor left anything out.  Both readers are recursive       *)
(* functions on the lines; induction along the file is a least line at     *)
(* which the readers have come apart, and the line before it.              *)
(***************************************************************************)

(* A number that is the least of its set. *)
LEMMA Least == ASSUME NEW S \in SUBSET Nat, S # {} PROVE \E i \in S : \A j \in S : i <= j
<1> DEFINE R == OpToRel(<, Nat)
<1>1. \E i \in S : \A j \in S : ~(<<j, i>> \in R)
  BY NatLessThanWellFounded, WFMin
<1>2. \A i, j \in Nat : <<j, i>> \in R <=> j < i
  BY DEF OpToRel
<1> HIDE DEF R
<1>3. \A i, j \in S : <<j, i>> \in R <=> j < i
  BY <1>2
<1>4. \A i, j \in S : ~(j < i) => i <= j
  OBVIOUS
<1> QED
  BY <1>1, <1>3, <1>4

IsSeq(s) == \E S : s \in Seq(S)

LEMMA Longer ==
    ASSUME NEW s, NEW x, IsSeq(s)
    PROVE  /\ IsSeq(Append(s, x)) /\ Len(s) \in Nat /\ Len(Append(s, x)) = Len(s) + 1
           /\ DOMAIN Append(s, x) = 1 .. Len(s) + 1 /\ DOMAIN s = 1 .. Len(s)
           /\ Append(s, x)[Len(s) + 1] = x
           /\ \A i \in DOMAIN s : i \in DOMAIN Append(s, x) /\ Append(s, x)[i] = s[i]
           /\ ToSet(Append(s, x)) = ToSet(s) \cup {x}
<1>1. PICK S : s \in Seq(S)
  BY DEF IsSeq
<1>2. s \in Seq(S \cup {x}) /\ x \in S \cup {x}
  BY <1>1
<1>3. /\ Append(s, x) \in Seq(S \cup {x}) /\ Len(s) \in Nat /\ Len(Append(s, x)) = Len(s) + 1
      /\ DOMAIN Append(s, x) = 1 .. Len(s) + 1 /\ DOMAIN s = 1 .. Len(s)
      /\ Append(s, x)[Len(s) + 1] = x
      /\ \A i \in 1 .. Len(s) : Append(s, x)[i] = s[i]
  BY <1>2, AppendProperties, LenProperties
<1>4. ToSet(Append(s, x)) = ToSet(s) \cup {x}
  BY <1>3 DEF ToSet
<1> QED
  BY <1>3, <1>4 DEF IsSeq

LEMMA Replaced ==
    ASSUME NEW s, IsSeq(s), NEW i, NEW x
    PROVE  IsSeq([s EXCEPT ![i] = x]) /\ Len([s EXCEPT ![i] = x]) = Len(s)
<1>1. PICK S : s \in Seq(S)
  BY DEF IsSeq
<1> DEFINE t == [s EXCEPT ![i] = x]  n == Len(s)
<1>2. n \in Nat /\ s \in [1 .. n -> S \cup {x}]
  BY <1>1, LenProperties
<1>3. t \in [1 .. n -> S \cup {x}]
  BY <1>2
<1>4. t \in Seq(S \cup {x})
  BY <1>2, <1>3, IsASeq
<1>5. Len(t) = n
  BY <1>2, <1>3, <1>4, LenProperties
<1> QED
  BY <1>4, <1>5 DEF IsSeq

LEMMA ParsingIs ==
    ASSUME NEW file, Len(file) \in Nat
    PROVE  /\ Parsing(file)[0] = Unread
           /\ \A n \in 1 .. Len(file) : Parsing(file)[n] = ParseLine(Parsing(file)[n - 1], file[n])
<1> DEFINE N == Len(file)
           Upto(g, k) == g = [n \in 0 .. k |-> IF n = 0 THEN Unread ELSE ParseLine(g[n - 1], file[n])]
<1>1. \A k \in 0 .. N : \E g : Upto(g, k)
  <2> DEFINE Bad == {k \in 0 .. N : \A g : ~Upto(g, k)}
  <2> SUFFICES ASSUME Bad # {} PROVE FALSE
    OBVIOUS
  <2>1. PICK k \in Bad : \A j \in Bad : k <= j
    <3>1. Bad \in SUBSET Nat
      OBVIOUS
    <3> HIDE DEF Bad
    <3> QED
      BY <3>1, Least
  <2>2. CASE k = 0
    <3> DEFINE g == [n \in 0 .. 0 |-> Unread]
    <3>1. Upto(g, 0)
      OBVIOUS
    <3> QED
      BY <2>1, <2>2, <3>1
  <2>3. CASE k # 0
    <3>0. k \in 1 .. N /\ k - 1 \in 0 .. N /\ ~(k <= k - 1)
      BY <2>1, <2>3
    <3>1. k - 1 \notin Bad
      BY <2>1, <3>0
    <3>2. PICK g : Upto(g, k - 1)
      BY <3>0, <3>1
    <3> DEFINE h == [n \in 0 .. k |-> IF n = 0 THEN Unread ELSE ParseLine(g[n - 1], file[n])]
    <3>3. \A n \in 0 .. (k - 1) : g[n] = h[n]
      BY <3>0, <3>2
    <3>4. \A n \in 0 .. k : n # 0 => n - 1 \in 0 .. (k - 1) /\ g[n - 1] = h[n - 1]
      <4>1. \A n \in 0 .. k : n # 0 => n - 1 \in 0 .. (k - 1)
        BY <3>0
      <4> HIDE DEF h
      <4> QED
        BY <3>3, <4>1
    <3>5. Upto(h, k)
      BY <3>0, <3>4
    <3> QED
      BY <2>1, <3>5
  <2> QED
    BY <2>2, <2>3
<1>2. \E g : Upto(g, N)
  BY <1>1
<1>3. Parsing(file) = CHOOSE g : Upto(g, N)
  BY DEF Parsing
<1>4. Upto(Parsing(file), N)
  BY <1>2, <1>3
<1> QED
  BY <1>4

LEMMA ScanningIs ==
    ASSUME NEW file, NEW env, Len(file) \in Nat
    PROVE  /\ Scanning(file, env)[0] = ScanStart
           /\ \A n \in 1 .. Len(file) :
                 Scanning(file, env)[n] = ScanLine(env, Scanning(file, env)[n - 1], file[n])
<1> DEFINE N == Len(file)
           Upto(g, k) == g = [n \in 0 .. k |-> IF n = 0 THEN ScanStart ELSE ScanLine(env, g[n - 1], file[n])]
<1>1. \A k \in 0 .. N : \E g : Upto(g, k)
  <2> DEFINE Bad == {k \in 0 .. N : \A g : ~Upto(g, k)}
  <2> SUFFICES ASSUME Bad # {} PROVE FALSE
    OBVIOUS
  <2>1. PICK k \in Bad : \A j \in Bad : k <= j
    <3>1. Bad \in SUBSET Nat
      OBVIOUS
    <3> HIDE DEF Bad
    <3> QED
      BY <3>1, Least
  <2>2. CASE k = 0
    <3> DEFINE g == [n \in 0 .. 0 |-> ScanStart]
    <3>1. Upto(g, 0)
      OBVIOUS
    <3> QED
      BY <2>1, <2>2, <3>1
  <2>3. CASE k # 0
    <3>0. k \in 1 .. N /\ k - 1 \in 0 .. N /\ ~(k <= k - 1)
      BY <2>1, <2>3
    <3>1. k - 1 \notin Bad
      BY <2>1, <3>0
    <3>2. PICK g : Upto(g, k - 1)
      BY <3>0, <3>1
    <3> DEFINE h == [n \in 0 .. k |-> IF n = 0 THEN ScanStart ELSE ScanLine(env, g[n - 1], file[n])]
    <3>3. \A n \in 0 .. (k - 1) : g[n] = h[n]
      BY <3>0, <3>2
    <3>4. \A n \in 0 .. k : n # 0 => n - 1 \in 0 .. (k - 1) /\ g[n - 1] = h[n - 1]
      <4>1. \A n \in 0 .. k : n # 0 => n - 1 \in 0 .. (k - 1)
        BY <3>0
      <4> HIDE DEF h
      <4> QED
        BY <3>3, <4>1
    <3>5. Upto(h, k)
      BY <3>0, <3>4
    <3> QED
      BY <2>1, <3>5
  <2> QED
    BY <2>2, <2>3
<1>2. \E g : Upto(g, N)
  BY <1>1
<1>3. Scanning(file, env) = CHOOSE g : Upto(g, N)
  BY DEF Scanning
<1>4. Upto(Scanning(file, env), N)
  BY <1>2, <1>3
<1> QED
  BY <1>4

(* Of a state of either reader: the volumes of its services. *)
Readable(r) == "volumes" \in DOMAIN r /\ IsSeq(r.volumes)
Binds(p) == UNION {ToSet(p.services[i].volumes) : i \in DOMAIN p.services}

LEMMA SetsIs ==
    ASSUME NEW p, {"svc", "services"} \subseteq DOMAIN p, NEW k, NEW v,
           p.svc \in DOMAIN p.services, \A i \in DOMAIN p.services : Readable(p.services[i]),
           k = "volumes" => IsSeq(v)
    PROVE  LET q == Sets(p, k, v)
           IN  /\ DOMAIN q = DOMAIN p /\ \A f \in DOMAIN p \ {"services"} : q[f] = p[f]
               /\ DOMAIN q.services = DOMAIN p.services
               /\ \A i \in DOMAIN p.services : Readable(q.services[i])
               /\ IsSeq(p.services) => IsSeq(q.services) /\ Len(q.services) = Len(p.services)
<1> DEFINE r == [p.services[p.svc] EXCEPT ![k] = v]
           all == [p.services EXCEPT ![p.svc] = r]
           q == [p EXCEPT !["services"] = all]
<1>1. Sets(p, k, v) = q
  BY DEF Sets
<1>2. DOMAIN r = DOMAIN p.services[p.svc] /\ r.volumes = IF k = "volumes" THEN v ELSE p.services[p.svc].volumes
  BY DEF Readable
<1>3. Readable(r)
  BY <1>2 DEF Readable
<1> HIDE DEF r
<1>4. /\ DOMAIN all = DOMAIN p.services /\ all[p.svc] = r
      /\ \A i \in DOMAIN p.services : i # p.svc => all[i] = p.services[i]
  OBVIOUS
<1>5. IsSeq(p.services) => IsSeq(all) /\ Len(all) = Len(p.services)
  BY Replaced
<1> HIDE DEF all
<1>6. DOMAIN q = DOMAIN p /\ (\A f \in DOMAIN p \ {"services"} : q[f] = p[f]) /\ q.services = all
  OBVIOUS
<1> HIDE DEF q
<1> QED
  BY <1>1, <1>3, <1>4, <1>5, <1>6

LEMMA Unbound ==
    ASSUME NEW p, {"svc", "services"} \subseteq DOMAIN p, NEW k, NEW v, k # "volumes",
           p.svc \in DOMAIN p.services, Readable(p.services[p.svc])
    PROVE  Binds(Sets(p, k, v)) = Binds(p)
<1> DEFINE q == Sets(p, k, v)
<1>1. /\ DOMAIN q.services = DOMAIN p.services
      /\ \A i \in DOMAIN p.services : q.services[i].volumes = p.services[i].volumes
  BY DEF Sets, Readable
<1> HIDE DEF q
<1> QED
  BY <1>1 DEF Binds, q

LEMMA Bound ==
    ASSUME NEW p, {"svc", "services"} \subseteq DOMAIN p, NEW x,
           p.svc \in DOMAIN p.services, \A i \in DOMAIN p.services : Readable(p.services[i])
    PROVE  Binds(Sets(p, "volumes", Append(p.services[p.svc]["volumes"], x))) = Binds(p) \cup {x}
<1> DEFINE new == Append(p.services[p.svc]["volumes"], x)
           q == Sets(p, "volumes", new)
           Had(i) == ToSet(p.services[i].volumes)
           Has(i) == ToSet(q.services[i].volumes)
<1>1. ToSet(new) = Had(p.svc) \cup {x}
  BY Longer DEF Readable
<1> HIDE DEF new
<1>2. /\ DOMAIN q.services = DOMAIN p.services
      /\ \A i \in DOMAIN p.services : q.services[i].volumes = IF i = p.svc THEN new ELSE p.services[i].volumes
  BY DEF Sets, Readable
<1> HIDE DEF q
<1>3. \A i \in DOMAIN p.services : Has(i) = IF i = p.svc THEN Had(i) \cup {x} ELSE Had(i)
  BY <1>1, <1>2
<1>4. Binds(q) = UNION {Has(i) : i \in DOMAIN p.services} /\ Binds(p) = UNION {Had(i) : i \in DOMAIN p.services}
  BY <1>2 DEF Binds
<1> HIDE DEF Had, Has
<1> QED
  BY <1>3, <1>4 DEF q, new
-----------------------------------------------------------------------------
(* The parser, line by line *)

(* Each comparison of a state with a literal has a name of its own: the SMT
   backend types what it sees, and cannot type a field used in two ways. *)
Opened(p) == p.svc # ""
InVolumes(p) == p.section = "volumes"
InServices(p) == p.section = "services"
Idle(p) == p.svc = ""
Flat(p) == p.sub = ""
Vol(k) == k = "volumes"

Known(p) ==
    /\ DOMAIN p = {"section", "svc", "sub", "skip", "services", "volumes", "ignored", "bad"}
    /\ \A s \in DOMAIN p.services : Readable(p.services[s])
    /\ Opened(p) => p.svc \in DOMAIN p.services

Clean(p) == ~p.bad /\ p.ignored = {}

LEMMA SvcStays ==
    ASSUME NEW p, Known(p), NEW n, DOMAIN n = DOMAIN p, n.services = p.services, n.svc = p.svc
    PROVE  Known(n)
<1>1. Opened(n) <=> Opened(p)
  BY DEF Opened
<1> QED
  BY <1>1 DEF Known

LEMMA SvcEnds ==
    ASSUME NEW p, Known(p), NEW n, DOMAIN n = DOMAIN p, n.services = p.services, Idle(n)
    PROVE  Known(n)
<1>1. ~Opened(n)
  BY DEF Opened, Idle
<1> QED
  BY <1>1 DEF Known

LEMMA FailsIs == ASSUME NEW p, Known(p) PROVE Known(Fails(p)) /\ ~Clean(Fails(p))
<1>1. /\ Fails(p).bad = TRUE /\ DOMAIN Fails(p) = DOMAIN p
      /\ Fails(p).services = p.services /\ Fails(p).svc = p.svc
  BY DEF Known, Fails
<1> QED
  BY <1>1, SvcStays DEF Clean

LEMMA LeaveIs == ASSUME NEW p, NEW w, NEW f, Known(p) PROVE Known(Leave(p, w, f)) /\ ~Clean(Leave(p, w, f))
<1>1. /\ Leave(p, w, f).ignored = p.ignored \cup {w} /\ DOMAIN Leave(p, w, f) = DOMAIN p
      /\ Leave(p, w, f).services = p.services /\ Leave(p, w, f).svc = p.svc
  BY DEF Known, Leave
<1> QED
  BY <1>1, SvcStays DEF Clean

(* What a line does to a file that can still be deployed. *)
Opens(n, p, l) ==
    /\ l.at = 0 /\ IsKey(l) /\ n.section = l.key /\ Idle(n) /\ Flat(n) /\ Binds(n) = Binds(p)
    /\ n.skip = p.skip \/ (n.skip = {0} /\ l.key = "version")
Declares(n, p, l) ==
    /\ l.at = 2 /\ InVolumes(p) /\ n.section = p.section /\ Idle(n) /\ Flat(n)
    /\ Binds(n) = Binds(p) /\ n.skip = p.skip
Starts(n, p, l) ==
    /\ l.at = 2 /\ InServices(p) /\ IsKey(l) /\ l.val = <<>>
    /\ n.section = p.section /\ n.svc = l.key /\ Flat(n) /\ n.skip = p.skip /\ Binds(n) \subseteq Binds(p)
Ignores(n, p, l) == l.at = 2 /\ ~InVolumes(p) /\ ~InServices(p) /\ n = p
Turns(n, p, l) ==
    /\ l.at = 4 /\ ~InVolumes(p) /\ Opened(p) /\ IsKey(l)
    /\ n.section = p.section /\ n.svc = p.svc /\ n.skip = p.skip /\ Binds(n) = Binds(p)
    /\ \/ l.key \in SCALARS /\ Flat(n)
       \/ l.key \in LISTS \cup MAPS /\ l.val = <<>> /\ n.sub = l.key
Fills(n, p, l) ==
    /\ l.at = 6 /\ ~InVolumes(p) /\ Opened(p) /\ ~Flat(p)
    /\ n.section = p.section /\ n.svc = p.svc /\ n.sub = p.sub /\ n.skip = p.skip
    /\ \/ Binds(n) = Binds(p)
       \/ /\ l.form \in {"item", "pair"} /\ Vol(p.sub)
          /\ l.form = "item" => l.val # <<>>
          /\ Binds(n) = Binds(p) \cup {Text(l)}

LEMMA TopLevelIs ==
    ASSUME NEW p, NEW l, Known(p), l.at = 0, NEW n, n = TopLevel(p, l)
    PROVE  Known(n) /\ (Clean(n) => Clean(p) /\ Opens(n, p, l))
<1> DEFINE q == [p EXCEPT !.section = l.key, !.svc = "", !.sub = ""]
           v == [q EXCEPT !.skip = {0}]
<1>1. /\ DOMAIN q = DOMAIN p /\ q.section = l.key /\ Idle(q) /\ Flat(q)
      /\ q.services = p.services /\ q.skip = p.skip /\ q.bad = p.bad /\ q.ignored = p.ignored
  BY DEF Known, Idle, Flat
<1>2. /\ DOMAIN v = DOMAIN p /\ v.section = l.key /\ Idle(v) /\ Flat(v)
      /\ v.services = p.services /\ v.skip = {0} /\ v.bad = p.bad /\ v.ignored = p.ignored
  BY DEF Known, Idle, Flat
<1>3. Known(q) /\ Known(v) /\ Binds(q) = Binds(p) /\ Binds(v) = Binds(p)
  <2> HIDE DEF q, v
  <2> QED
    BY <1>1, <1>2, SvcEnds DEF Binds
<1>4. TopLevel(p, l) =
          IF ~IsKey(l) THEN Fails(p)
          ELSE CASE l.key \in {"services", "volumes"} -> q
                 [] l.key = "version" -> v
                 [] OTHER -> Leave(q, l.key, 0)
  BY DEF TopLevel
<1> HIDE DEF q, v
<1>5. CASE ~IsKey(l)
  BY <1>4, <1>5, FailsIs
<1>6. CASE IsKey(l) /\ l.key \in {"services", "volumes"}
  <2>1. TopLevel(p, l) = q
    BY <1>4, <1>6
  <2> QED
    BY <1>1, <1>3, <1>6, <2>1 DEF Clean, Opens
<1>7. CASE IsKey(l) /\ l.key = "version"
  <2>1. TopLevel(p, l) = v
    BY <1>4, <1>7
  <2> QED
    BY <1>2, <1>3, <1>7, <2>1 DEF Clean, Opens
<1>8. CASE IsKey(l) /\ l.key \notin {"services", "volumes", "version"}
  <2>1. TopLevel(p, l) = Leave(q, l.key, 0)
    BY <1>4, <1>8
  <2> QED
    BY <1>3, <2>1, LeaveIs
<1> QED
  BY <1>5, <1>6, <1>7, <1>8

LEMMA DeclaresVolumeIs ==
    ASSUME NEW p, NEW l, Known(p), l.at = 2, InVolumes(p), NEW n, n = DeclaresVolume(p, l)
    PROVE  Known(n) /\ (Clean(n) => Clean(p) /\ Declares(n, p, l))
<1> DEFINE v == [p EXCEPT !.volumes = @ \cup {l.key}, !.svc = "", !.sub = ""]
<1>1. /\ DOMAIN v = DOMAIN p /\ v.section = p.section /\ Idle(v) /\ Flat(v)
      /\ v.services = p.services /\ v.skip = p.skip /\ v.bad = p.bad /\ v.ignored = p.ignored
  BY DEF Known, Idle, Flat
<1>2. DeclaresVolume(p, l) \in {Fails(p), v}
  BY DEF DeclaresVolume
<1> HIDE DEF v
<1>3. CASE n = Fails(p)
  BY <1>3, FailsIs
<1>4. CASE n = v
  <2>1. Known(v) /\ Binds(v) = Binds(p)
    BY <1>1, SvcEnds DEF Binds
  <2> QED
    BY <1>1, <1>4, <2>1 DEF Clean, Declares
<1> QED
  BY <1>2, <1>3, <1>4

LEMMA OpensServiceIs ==
    ASSUME NEW p, NEW l, Known(p), l.at = 2, InServices(p), NEW n, n = OpensService(p, l)
    PROVE  Known(n) /\ (Clean(n) => Clean(p) /\ Starts(n, p, l))
<1> DEFINE all == Put(p.services, l.key, NewService)
           v == [p EXCEPT !.svc = l.key, !.sub = "", !.services = all]
<1>1. /\ DOMAIN all = DOMAIN p.services \cup {l.key} /\ all[l.key] = NewService
      /\ \A s \in DOMAIN p.services : s # l.key => all[s] = p.services[s]
  BY DEF Put
<1>2. Readable(NewService) /\ ToSet(NewService.volumes) = {}
  <2>1. "volumes" \in DOMAIN NewService /\ NewService.volumes = <<>>
    BY DEF NewService
  <2>2. <<>> \in Seq({}) /\ ToSet(<<>>) = {}
    BY DEF ToSet
  <2> QED
    BY <2>1, <2>2 DEF Readable, IsSeq
<1> HIDE DEF all
<1>3. /\ DOMAIN v = DOMAIN p /\ v.section = p.section /\ v.svc = l.key /\ Flat(v)
      /\ v.services = all /\ v.skip = p.skip /\ v.bad = p.bad /\ v.ignored = p.ignored
  BY DEF Known, Flat
<1>4. OpensService(p, l) = IF ~IsKey(l) \/ l.val # <<>> \/ l.key \in BAD_KEY THEN Fails(p) ELSE v
  BY DEF OpensService, all
<1> HIDE DEF v
<1>5. Known(v)
  BY <1>1, <1>2, <1>3 DEF Known
<1>6. ASSUME NEW b \in Binds(v) PROVE b \in Binds(p)
  <2>1. PICK s \in DOMAIN all : b \in ToSet(all[s].volumes)
    BY <1>3 DEF Binds
  <2>2. s # l.key
    BY <1>1, <1>2, <2>1
  <2> QED
    BY <1>1, <2>1, <2>2 DEF Binds
<1>7. CASE OpensService(p, l) = Fails(p)
  BY <1>7, FailsIs
<1>8. CASE OpensService(p, l) # Fails(p)
  BY <1>3, <1>4, <1>5, <1>6, <1>8 DEF Clean, Starts
<1> QED
  BY <1>7, <1>8

(* A value is put in the current service. *)
LEMMA SetsKnown ==
    ASSUME NEW p, NEW k, NEW v, Known(p), Opened(p), Vol(k) => IsSeq(v), NEW n, n = Sets(p, k, v)
    PROVE  /\ Known(n) /\ n.section = p.section /\ n.svc = p.svc /\ n.sub = p.sub /\ n.skip = p.skip
           /\ n.bad = p.bad /\ n.ignored = p.ignored
<1>1. {"svc", "services"} \subseteq DOMAIN p
  BY DEF Known
<1>2. p.svc \in DOMAIN p.services /\ \A i \in DOMAIN p.services : Readable(p.services[i])
  BY DEF Known
<1>3. /\ DOMAIN n = DOMAIN p /\ \A f \in DOMAIN p \ {"services"} : n[f] = p[f]
      /\ DOMAIN n.services = DOMAIN p.services
      /\ \A i \in DOMAIN p.services : Readable(n.services[i])
  BY <1>1, <1>2, SetsIs DEF Vol
<1>4. /\ n.section = p.section /\ n.svc = p.svc /\ n.sub = p.sub /\ n.skip = p.skip
      /\ n.bad = p.bad /\ n.ignored = p.ignored
  BY <1>3 DEF Known
<1>5. Known(n)
  BY <1>2, <1>3, <1>4 DEF Known
<1> QED
  BY <1>4, <1>5

LEMMA KnownUnbound ==
    ASSUME NEW p, NEW k, NEW v, Known(p), Opened(p), ~Vol(k)
    PROVE  Binds(Sets(p, k, v)) = Binds(p)
<1>1. {"svc", "services"} \subseteq DOMAIN p /\ p.svc \in DOMAIN p.services /\ Readable(p.services[p.svc])
  BY DEF Known
<1> QED
  BY <1>1, Unbound DEF Vol

LEMMA ServiceKeyIs ==
    ASSUME NEW p, NEW l, Known(p), Opened(p), ~InVolumes(p), l.at = 4, NEW n, n = ServiceKey(p, l)
    PROVE  Known(n) /\ (Clean(n) => Clean(p) /\ Turns(n, p, l))
<1> DEFINE q == [p EXCEPT !.sub = ""]
           o == [q EXCEPT !.sub = l.key]
           i == [q EXCEPT !.ignored = @ \cup {"inline syntax"}]
<1>1. /\ DOMAIN q = DOMAIN p /\ q.section = p.section /\ q.svc = p.svc /\ Flat(q)
      /\ q.services = p.services /\ q.skip = p.skip /\ q.bad = p.bad /\ q.ignored = p.ignored
  BY DEF Known, Flat
<1>2. /\ DOMAIN o = DOMAIN p /\ o.section = p.section /\ o.svc = p.svc /\ o.sub = l.key
      /\ o.services = p.services /\ o.skip = p.skip /\ o.bad = p.bad /\ o.ignored = p.ignored
  BY DEF Known
<1>3. /\ DOMAIN i = DOMAIN p /\ i.svc = p.svc /\ i.services = p.services /\ i.ignored = p.ignored \cup {"inline syntax"}
  BY DEF Known
<1>4. Known(q) /\ Known(o) /\ Known(i) /\ ~Clean(i)
  <2> HIDE DEF q, o, i
  <2> QED
    BY <1>1, <1>2, <1>3, SvcStays DEF Clean
<1>5. ServiceKey(p, l) =
          IF ~IsKey(l) THEN Fails(p)
          ELSE CASE l.key \in SCALARS -> IF l.val = <<>> THEN q ELSE Sets(q, l.key, l.val)
                 [] l.key \in LISTS \cup MAPS -> IF l.val = <<>> THEN o ELSE i
                 [] OTHER -> Leave(q, l.key, 4)
  BY DEF ServiceKey
<1>6. SCALARS \cap (LISTS \cup MAPS) = {} /\ \A k \in SCALARS : ~Vol(k)
  BY DEF SCALARS, LISTS, MAPS, Vol
<1>7. Binds(q) = Binds(p) /\ Binds(o) = Binds(p)
  BY <1>1, <1>2 DEF Binds
<1> HIDE DEF q, o, i
<1>8. CASE ~IsKey(l)
  BY <1>5, <1>8, FailsIs
<1>9. CASE IsKey(l) /\ l.key \in SCALARS /\ l.val = <<>>
  <2>1. ServiceKey(p, l) = q
    BY <1>5, <1>6, <1>9
  <2> QED
    BY <1>1, <1>4, <1>7, <1>9, <2>1 DEF Clean, Turns
<1>10. CASE IsKey(l) /\ l.key \in SCALARS /\ l.val # <<>>
  <2>1. ServiceKey(p, l) = Sets(q, l.key, l.val) /\ ~Vol(l.key)
    BY <1>5, <1>6, <1>10
  <2>2. Opened(q)
    BY <1>1 DEF Opened
  <2>3. /\ Known(n) /\ n.section = q.section /\ n.svc = q.svc /\ n.sub = q.sub /\ n.skip = q.skip
        /\ n.bad = q.bad /\ n.ignored = q.ignored /\ Binds(n) = Binds(q)
    BY <1>4, <2>1, <2>2, SetsKnown, KnownUnbound
  <2>4. Flat(n)
    BY <1>1, <2>3 DEF Flat
  <2> QED
    BY <1>1, <1>7, <1>10, <2>3, <2>4 DEF Clean, Turns
<1>11. CASE IsKey(l) /\ l.key \in LISTS \cup MAPS
  <2>1. ServiceKey(p, l) = IF l.val = <<>> THEN o ELSE i
    BY <1>5, <1>6, <1>11
  <2> QED
    BY <1>2, <1>4, <1>7, <1>11, <2>1 DEF Clean, Turns
<1>12. CASE IsKey(l) /\ l.key \notin SCALARS \cup LISTS \cup MAPS
  <2>1. ServiceKey(p, l) = Leave(q, l.key, 4)
    BY <1>5, <1>12
  <2> QED
    BY <1>4, <2>1, LeaveIs
<1> QED
  BY <1>8, <1>9, <1>10, <1>11, <1>12

LEMMA EntryIs ==
    ASSUME NEW p, NEW l, Known(p), Opened(p), ~InVolumes(p), ~Flat(p), l.at = 6, NEW n, n = Entry(p, l)
    PROVE  Known(n) /\ (Clean(n) => Clean(p) /\ Fills(n, p, l))
<1> DEFINE e == [p EXCEPT !.ignored = @ \cup {"environment host lookup"}]
<1>1. DOMAIN e = DOMAIN p /\ e.svc = p.svc /\ e.services = p.services /\ e.ignored = p.ignored \cup {"environment host lookup"}
  BY DEF Known
<1>2. Known(e) /\ ~Clean(e)
  <2> HIDE DEF e
  <2> QED
    BY <1>1, SvcStays DEF Clean
<1>3. CASE l.form = "item" /\ l.val = <<>>
  BY <1>3 DEF Entry, Fills
<1>4. CASE l.form \in {"item", "pair"} /\ p.sub \in LISTS /\ (l.form = "item" => l.val # <<>>)
  <2> DEFINE v == Append(Current(p), Text(l))
  <2>1. n = Sets(p, p.sub, v)
    BY <1>4 DEF Entry
  <2>2. Vol(p.sub) => IsSeq(v)
    BY Longer DEF Known, Current, Readable, Vol
  <2>3. ASSUME Vol(p.sub) PROVE Binds(Sets(p, p.sub, v)) = Binds(p) \cup {Text(l)}
    <3>1. Sets(p, p.sub, v) = Sets(p, "volumes", Append(p.services[p.svc]["volumes"], Text(l)))
      BY <2>3 DEF Current, Vol
    <3>2. /\ {"svc", "services"} \subseteq DOMAIN p /\ p.svc \in DOMAIN p.services
          /\ \A i \in DOMAIN p.services : Readable(p.services[i])
      BY DEF Known
    <3> QED
      BY <3>1, <3>2, Bound
  <2> HIDE DEF v
  <2>4. /\ Known(n) /\ n.section = p.section /\ n.svc = p.svc /\ n.sub = p.sub /\ n.skip = p.skip
        /\ n.bad = p.bad /\ n.ignored = p.ignored
    BY <2>1, <2>2, SetsKnown
  <2>5. ASSUME ~Vol(p.sub) PROVE Binds(n) = Binds(p)
    BY <2>1, <2>5, KnownUnbound
  <2> QED
    BY <1>4, <2>1, <2>3, <2>4, <2>5 DEF Clean, Fills
<1>5. CASE p.sub \notin LISTS \/ l.form \notin {"item", "pair"}
  <2> DEFINE a == Put(Current(p), Head(l.val), <<>>)
             b == Put(Current(p), l.key, l.val)
  <2>1. n \in {p, e, Fails(p)} \/ (p.sub \notin LISTS /\ n \in {Sets(p, p.sub, a), Sets(p, p.sub, b)})
    BY <1>5 DEF Entry
  <2>2. p.sub \notin LISTS => ~Vol(p.sub)
    BY DEF LISTS, Vol
  <2> HIDE DEF a, b, e
  <2>3. CASE n \in {p, e, Fails(p)}
    BY <1>2, <2>3, FailsIs DEF Fills, Clean
  <2>4. ASSUME NEW v \in {a, b}, p.sub \notin LISTS, n = Sets(p, p.sub, v)
        PROVE  /\ Known(n) /\ n.section = p.section /\ n.svc = p.svc /\ n.sub = p.sub /\ n.skip = p.skip
               /\ n.bad = p.bad /\ n.ignored = p.ignored /\ Binds(n) = Binds(p)
    BY <2>2, <2>4, SetsKnown, KnownUnbound
  <2> QED
    BY <2>1, <2>3, <2>4 DEF Clean, Fills
<1> QED
  BY <1>3, <1>4, <1>5

(* A line that is not left out, from a state that looks as if no block was. *)
Reads(p, l) ==
    IF l.at = 0 THEN TopLevel(p, l)
    ELSE IF l.at % 2 = 1 THEN Fails(p)
    ELSE IF l.at = 2 THEN CASE InVolumes(p) -> DeclaresVolume(p, l)
                            [] InServices(p) -> OpensService(p, l)
                            [] OTHER -> p
    ELSE IF InVolumes(p) THEN Leave(p, "volume options", l.at)
    ELSE IF Idle(p) THEN Fails(p)
    ELSE IF l.at = 4 THEN ServiceKey(p, l)
    ELSE IF Flat(p) \/ l.at # 6 THEN Leave(p, "nested syntax", l.at - 2)
    ELSE Entry(p, l)

LEMMA ReadsIs ==
    ASSUME NEW p, NEW l, Known(p), l.at \in Nat, NEW n, n = Reads(p, l)
    PROVE  /\ Known(n)
           /\ Clean(n) => /\ Clean(p)
                          /\ \/ Opens(n, p, l) \/ Declares(n, p, l) \/ Starts(n, p, l) \/ Ignores(n, p, l)
                             \/ Turns(n, p, l) \/ Fills(n, p, l)
<1>0. ~InVolumes(p) \/ ~InServices(p)
  BY DEF InVolumes, InServices
<1>1. CASE l.at = 0
  BY <1>1, TopLevelIs DEF Reads
<1>2. CASE l.at # 0 /\ l.at % 2 = 1
  BY <1>2, FailsIs DEF Reads
<1>3. CASE l.at = 2 /\ InVolumes(p)
  <2>1. n = DeclaresVolume(p, l)
    BY <1>0, <1>3 DEF Reads
  <2> QED
    BY <1>3, <2>1, DeclaresVolumeIs
<1>4. CASE l.at = 2 /\ InServices(p)
  <2>1. n = OpensService(p, l)
    BY <1>0, <1>4 DEF Reads
  <2> QED
    BY <1>4, <2>1, OpensServiceIs
<1>5. CASE l.at = 2 /\ ~InVolumes(p) /\ ~InServices(p)
  BY <1>5 DEF Reads, Ignores
<1>6. CASE l.at \notin {0, 2} /\ l.at % 2 # 1 /\ (InVolumes(p) \/ Idle(p))
  <2>1. n \in {Fails(p), Leave(p, "volume options", l.at)}
    BY <1>6 DEF Reads
  <2> QED
    BY <2>1, FailsIs, LeaveIs
<1>7. CASE l.at = 4 /\ ~InVolumes(p) /\ ~Idle(p)
  <2>1. n = ServiceKey(p, l)
    BY <1>7 DEF Reads
  <2>2. Opened(p)
    BY <1>7 DEF Opened, Idle
  <2> QED
    BY <1>7, <2>1, <2>2, ServiceKeyIs
<1>8. CASE l.at \notin {0, 2, 4} /\ l.at % 2 # 1 /\ ~InVolumes(p) /\ ~Idle(p) /\ (Flat(p) \/ l.at # 6)
  <2>1. n = Leave(p, "nested syntax", l.at - 2)
    BY <1>8 DEF Reads
  <2> QED
    BY <2>1, LeaveIs
<1>9. CASE l.at = 6 /\ ~InVolumes(p) /\ ~Idle(p) /\ ~Flat(p)
  <2>1. n = Entry(p, l)
    BY <1>9 DEF Reads
  <2>2. Opened(p)
    BY <1>9 DEF Opened, Idle
  <2> QED
    BY <1>9, <2>1, <2>2, EntryIs
<1> QED
  BY <1>1, <1>2, <1>3, <1>4, <1>5, <1>6, <1>7, <1>8, <1>9

Skipped(was, l) == \E m \in was.skip : l.at > m

LEMMA ParseLineIs ==
    ASSUME NEW was, NEW l, Known(was), l.at \in Nat, NEW n, n = ParseLine(was, l)
    PROVE  /\ Known(n)
           /\ Clean(n) => /\ Clean(was)
                          /\ \/ Skipped(was, l) /\ n = was
                             \/ \E p : /\ ~Skipped(was, l) /\ Known(p) /\ p.skip = {}
                                       /\ p.section = was.section /\ p.svc = was.svc /\ p.sub = was.sub
                                       /\ Binds(p) = Binds(was)
                                       /\ \/ Opens(n, p, l) \/ Declares(n, p, l) \/ Starts(n, p, l)
                                          \/ Ignores(n, p, l) \/ Turns(n, p, l) \/ Fills(n, p, l)
<1> DEFINE p == [was EXCEPT !.skip = {}]
<1>1. n = IF was.bad \/ Skipped(was, l) THEN was ELSE Reads(p, l)
  BY DEF ParseLine, Reads, Skipped, InVolumes, InServices, Idle, Flat
<1>2. /\ DOMAIN p = DOMAIN was /\ p.skip = {} /\ p.section = was.section /\ p.svc = was.svc /\ p.sub = was.sub
      /\ p.services = was.services /\ p.bad = was.bad /\ p.ignored = was.ignored
  BY DEF Known
<1> HIDE DEF p
<1>3. Known(p) /\ Binds(p) = Binds(was) /\ (Clean(p) => Clean(was))
  BY <1>2, SvcStays DEF Binds, Clean
<1>4. CASE was.bad \/ Skipped(was, l)
  BY <1>1, <1>4 DEF Clean
<1>5. CASE ~(was.bad \/ Skipped(was, l))
  <2>1. n = Reads(p, l)
    BY <1>1, <1>5
  <2>2. Known(n)
    BY <1>3, <2>1, ReadsIs
  <2>3. ASSUME Clean(n)
        PROVE  /\ Clean(p)
               /\ \/ Opens(n, p, l) \/ Declares(n, p, l) \/ Starts(n, p, l)
                  \/ Ignores(n, p, l) \/ Turns(n, p, l) \/ Fills(n, p, l)
    BY <1>3, <2>1, <2>3, ReadsIs
  <2> QED
    BY <1>2, <1>3, <1>5, <2>2, <2>3
<1> QED
  BY <1>4, <1>5
-----------------------------------------------------------------------------
(* The walk of the linter, line by line *)

Shut(q) == q.svc = 0

Walked(q) ==
    /\ DOMAIN q = {"section", "svc", "sub", "services", "volumes"}
    /\ IsSeq(q.services) /\ \A i \in DOMAIN q.services : Readable(q.services[i])
    /\ ~Shut(q) => q.svc \in DOMAIN q.services

LEMMA WalkStays ==
    ASSUME NEW q, Walked(q), NEW n, DOMAIN n = DOMAIN q, n.services = q.services, n.svc = q.svc
    PROVE  Walked(n) /\ Binds(n) = Binds(q) /\ (Shut(n) <=> Shut(q))
<1>1. Shut(n) <=> Shut(q)
  BY DEF Shut
<1> QED
  BY <1>1 DEF Walked, Binds

LEMMA WalkEnds ==
    ASSUME NEW q, Walked(q), NEW n, DOMAIN n = DOMAIN q, n.services = q.services, Shut(n)
    PROVE  Walked(n) /\ Binds(n) = Binds(q)
BY DEF Walked, Binds

LEMMA WalkSets ==
    ASSUME NEW q, NEW k, NEW v, Walked(q), ~Shut(q), Vol(k) => IsSeq(v), NEW n, n = Sets(q, k, v)
    PROVE  /\ Walked(n) /\ ~Shut(n) /\ n.section = q.section /\ n.svc = q.svc /\ n.sub = q.sub
           /\ ~Vol(k) => Binds(n) = Binds(q)
<1>1. {"svc", "services"} \subseteq DOMAIN q /\ IsSeq(q.services)
  BY DEF Walked
<1>2. q.svc \in DOMAIN q.services /\ \A i \in DOMAIN q.services : Readable(q.services[i])
  BY DEF Walked
<1>3. /\ DOMAIN n = DOMAIN q /\ \A f \in DOMAIN q \ {"services"} : n[f] = q[f]
      /\ DOMAIN n.services = DOMAIN q.services
      /\ \A i \in DOMAIN q.services : Readable(n.services[i])
      /\ IsSeq(n.services)
  BY <1>1, <1>2, SetsIs DEF Vol
<1>4. n.section = q.section /\ n.svc = q.svc /\ n.sub = q.sub
  BY <1>3 DEF Walked
<1>5. ~Shut(n)
  BY <1>4 DEF Shut
<1>6. Walked(n)
  BY <1>2, <1>3, <1>4 DEF Walked
<1>7. ASSUME ~Vol(k) PROVE Binds(n) = Binds(q)
  BY <1>1, <1>2, <1>7, Unbound DEF Vol
<1> QED
  BY <1>4, <1>5, <1>6, <1>7

(* What a line does to the walk. *)
WalkOpens(n, q, l, env) ==
    /\ Shut(n) /\ Flat(n) /\ Binds(n) = Binds(q)
    /\ LiteralKey(l, env) => n.section = l.key
WalkDeclares(n, q) == n.section = q.section /\ Shut(n) /\ Flat(n) /\ Binds(n) = Binds(q)
WalkStarts(n, q, l, env) ==
    /\ n.section = q.section /\ Flat(n) /\ Binds(q) \subseteq Binds(n)
    /\ LiteralKey(l, env) /\ l.val = <<>> => ~Shut(n)
WalkTurns(n, q, l, env) ==
    /\ n.section = q.section /\ ~Shut(n) /\ Binds(n) = Binds(q)
    /\ LiteralKey(l, env) =>
          IF l.key \in LISTS \cup MAPS /\ l.val = <<>> THEN n.sub = l.key ELSE Flat(n)
WalkFills(n, q, l) ==
    /\ n.section = q.section /\ ~Shut(n) /\ n.sub = q.sub /\ Binds(q) \subseteq Binds(n)
    /\ Vol(q.sub) /\ l.form \in {"item", "pair"} /\ Text(l) # <<>> => Text(l) \in Binds(n)

LEMMA WalkOpensIs ==
    ASSUME NEW q, NEW l, NEW env, Walked(q), l.at = 0, NEW n, n = ScanLine(env, q, l)
    PROVE  Walked(n) /\ WalkOpens(n, q, l, env)
<1> DEFINE m == [q EXCEPT !.section = IF LiteralKey(l, env) THEN l.key ELSE "", !.svc = 0, !.sub = ""]
<1>1. /\ DOMAIN m = DOMAIN q /\ m.services = q.services /\ Shut(m) /\ Flat(m)
      /\ LiteralKey(l, env) => m.section = l.key
  BY DEF Walked, Shut, Flat
<1>2. n = m
  BY DEF ScanLine
<1> HIDE DEF m
<1> QED
  BY <1>1, <1>2, WalkEnds DEF WalkOpens

LEMMA WalkDeclaresIs ==
    ASSUME NEW q, NEW l, NEW env, Walked(q), l.at = 2, InVolumes(q), NEW n, n = ScanLine(env, q, l)
    PROVE  Walked(n) /\ WalkDeclares(n, q)
<1> DEFINE vols == IF LiteralKey(l, env) THEN q.volumes \cup {l.key} ELSE q.volumes
           m == [q EXCEPT !.volumes = vols, !.svc = 0, !.sub = ""]
<1>1. DOMAIN m = DOMAIN q /\ m.services = q.services /\ m.section = q.section /\ Shut(m) /\ Flat(m)
  BY DEF Walked, Shut, Flat
<1>2. n = m
  BY DEF ScanLine, InVolumes
<1> HIDE DEF m
<1> QED
  BY <1>1, <1>2, WalkEnds DEF WalkDeclares

LEMMA WalkStartsIs ==
    ASSUME NEW q, NEW l, NEW env, Walked(q), l.at = 2, InServices(q), NEW n, n = ScanLine(env, q, l)
    PROVE  Walked(n) /\ WalkStarts(n, q, l, env)
<1> DEFINE all == Append(q.services, ScanNew(l.key))
           m == [q EXCEPT !.services = all, !.svc = Len(q.services) + 1, !.sub = ""]
           e == [q EXCEPT !.svc = 0, !.sub = ""]
<1>1. DOMAIN e = DOMAIN q /\ e.services = q.services /\ e.section = q.section /\ Shut(e) /\ Flat(e)
  BY DEF Walked, Shut, Flat
<1>2. /\ IsSeq(all) /\ Len(q.services) \in Nat
      /\ DOMAIN all = 1 .. Len(q.services) + 1 /\ DOMAIN q.services = 1 .. Len(q.services)
      /\ all[Len(q.services) + 1] = ScanNew(l.key)
      /\ \A i \in DOMAIN q.services : i \in DOMAIN all /\ all[i] = q.services[i]
  BY Longer DEF Walked
<1>3. Readable(ScanNew(l.key))
  <2>1. "volumes" \in DOMAIN ScanNew(l.key) /\ ScanNew(l.key).volumes = <<>>
    BY DEF ScanNew
  <2>2. <<>> \in Seq({})
    OBVIOUS
  <2> QED
    BY <2>1, <2>2 DEF Readable, IsSeq
<1> HIDE DEF all
<1>4. /\ DOMAIN m = DOMAIN q /\ m.services = all /\ m.section = q.section
      /\ m.svc = Len(q.services) + 1 /\ Flat(m)
  BY DEF Walked, Flat
<1>5. n = IF LiteralKey(l, env) /\ l.val = <<>> THEN m ELSE e
  BY DEF ScanLine, InServices, all
<1> HIDE DEF m, e
<1>6. ~Shut(m) /\ m.svc \in DOMAIN all
  BY <1>2, <1>4 DEF Shut
<1>7. \A i \in DOMAIN all : Readable(all[i])
  <2>1. \A i \in DOMAIN all : i = Len(q.services) + 1 \/ i \in DOMAIN q.services
    BY <1>2
  <2>2. \A i \in DOMAIN q.services : Readable(q.services[i])
    BY DEF Walked
  <2> QED
    BY <1>2, <1>3, <2>1, <2>2
<1>8. Walked(m)
  BY <1>2, <1>4, <1>6, <1>7 DEF Walked
<1>9. Binds(q) \subseteq Binds(m)
  BY <1>2, <1>4 DEF Binds
<1>10. CASE n = m
  BY <1>4, <1>6, <1>8, <1>9, <1>10 DEF WalkStarts
<1>11. CASE n = e /\ ~(LiteralKey(l, env) /\ l.val = <<>>)
  BY <1>1, <1>11, WalkEnds DEF WalkStarts
<1> QED
  BY <1>5, <1>10, <1>11

(* A line, with the comparisons and the branches under names. *)
AtTop(env, q, l) == [q EXCEPT !.section = IF LiteralKey(l, env) THEN l.key ELSE "", !.svc = 0, !.sub = ""]
OfVolumes(env, q, l) ==
    [q EXCEPT !.volumes = IF LiteralKey(l, env) THEN @ \cup {l.key} ELSE @, !.svc = 0, !.sub = ""]
OfServices(env, q, l) ==
    IF LiteralKey(l, env) /\ l.val = <<>>
    THEN [q EXCEPT !.services = Append(@, ScanNew(l.key)), !.svc = Len(q.services) + 1, !.sub = ""]
    ELSE [q EXCEPT !.svc = 0, !.sub = ""]
OfService(env, q, l) == IF LiteralKey(l, env) THEN ScanKey(q, l) ELSE [q EXCEPT !.sub = ""]

LEMMA ScanLineIs ==
    ASSUME NEW q, NEW l, NEW env
    PROVE  ScanLine(env, q, l) =
              CASE l.at = 0 -> AtTop(env, q, l)
                [] l.at = 2 /\ InVolumes(q) -> OfVolumes(env, q, l)
                [] l.at = 2 /\ InServices(q) -> OfServices(env, q, l)
                [] ~Shut(q) /\ l.at = 4 -> OfService(env, q, l)
                [] ~Shut(q) /\ l.at = 6 /\ ~Flat(q) -> ScanEntry(q, l)
                [] OTHER -> q
BY Zenon DEF ScanLine, AtTop, OfVolumes, OfServices, OfService, InVolumes, InServices, Shut, Flat

LEMMA WalkTurnsIs ==
    ASSUME NEW q, NEW l, NEW env, Walked(q), l.at = 4, ~Shut(q), NEW n, n = ScanLine(env, q, l)
    PROVE  Walked(n) /\ WalkTurns(n, q, l, env)
<1> DEFINE e == [q EXCEPT !.sub = ""]
           o == [q EXCEPT !.sub = l.key]
           r == Sets(q, l.key, l.val)
           f == [r EXCEPT !.sub = ""]
<1>1. /\ DOMAIN e = DOMAIN q /\ e.services = q.services /\ e.svc = q.svc /\ e.section = q.section /\ Flat(e)
      /\ DOMAIN o = DOMAIN q /\ o.services = q.services /\ o.svc = q.svc /\ o.section = q.section
      /\ o.sub = l.key
  BY DEF Walked, Flat
<1>2. n = IF ~LiteralKey(l, env) THEN e
          ELSE CASE l.key \in {"image", "restart", "container_name"} -> f
                 [] l.key \in LISTS \cup MAPS /\ l.val = <<>> -> o
                 [] OTHER -> e
  <2>1. n = OfService(env, q, l)
    BY ScanLineIs
  <2> QED
    BY Zenon, <2>1 DEF OfService, ScanKey
<1>3. \A k \in {"image", "restart", "container_name"} : ~Vol(k) /\ k \notin LISTS \cup MAPS
  BY DEF Vol, LISTS, MAPS
<1> HIDE DEF e, o
<1>4. /\ Walked(e) /\ Binds(e) = Binds(q) /\ ~Shut(e) /\ Walked(o) /\ Binds(o) = Binds(q) /\ ~Shut(o)
  BY <1>1, WalkStays
<1>5. ASSUME l.key \in {"image", "restart", "container_name"}
      PROVE  Walked(f) /\ Binds(f) = Binds(q) /\ ~Shut(f) /\ f.section = q.section /\ Flat(f)
  <2>1. /\ Walked(r) /\ ~Shut(r) /\ r.section = q.section /\ Binds(r) = Binds(q)
    BY <1>3, <1>5, WalkSets
  <2> HIDE DEF r
  <2>2. DOMAIN f = DOMAIN r /\ f.services = r.services /\ f.svc = r.svc /\ f.section = r.section /\ Flat(f)
    BY <2>1 DEF Walked, Flat
  <2> HIDE DEF f
  <2> QED
    BY <2>1, <2>2, WalkStays
<1> HIDE DEF f
<1>6. CASE ~LiteralKey(l, env)
  BY <1>1, <1>2, <1>4, <1>6 DEF WalkTurns
<1>7. CASE LiteralKey(l, env) /\ l.key \in {"image", "restart", "container_name"}
  <2>1. n = f /\ l.key \notin LISTS \cup MAPS
    BY <1>2, <1>3, <1>7
  <2> QED
    BY <1>5, <1>7, <2>1 DEF WalkTurns
<1>8. CASE LiteralKey(l, env) /\ l.key \in LISTS \cup MAPS /\ l.val = <<>>
  <2>1. n = o
    BY <1>2, <1>3, <1>8
  <2> QED
    BY <1>1, <1>4, <1>8, <2>1 DEF WalkTurns
<1>9. CASE /\ LiteralKey(l, env) /\ l.key \notin {"image", "restart", "container_name"}
           /\ ~(l.key \in LISTS \cup MAPS /\ l.val = <<>>)
  <2>1. n = e
    BY <1>2, <1>9
  <2> QED
    BY <1>1, <1>4, <1>9, <2>1 DEF WalkTurns
<1> QED
  BY <1>6, <1>7, <1>8, <1>9

LEMMA WalkFillsIs ==
    ASSUME NEW q, NEW l, NEW env, Walked(q), l.at = 6, ~Shut(q), ~Flat(q), NEW n, n = ScanLine(env, q, l)
    PROVE  Walked(n) /\ WalkFills(n, q, l)
<1> DEFINE v == Append(Current(q), Text(l))
           a == Put(Current(q), Head(l.val), <<>>)
           b == Put(Current(q), l.key, l.val)
<1>1. n = ScanEntry(q, l)
  BY ScanLineIs
<1>2. CASE l.form \in {"item", "pair"} /\ q.sub \in LISTS /\ Text(l) # <<>>
  <2>1. n = Sets(q, q.sub, v)
    BY <1>1, <1>2 DEF ScanEntry, LISTS, MAPS
  <2>2. Vol(q.sub) => IsSeq(v)
    BY Longer DEF Walked, Shut, Current, Readable, Vol
  <2>3. ASSUME Vol(q.sub) PROVE Binds(n) = Binds(q) \cup {Text(l)}
    <3>1. n = Sets(q, "volumes", Append(q.services[q.svc]["volumes"], Text(l)))
      BY <2>1, <2>3 DEF Current, Vol
    <3>2. /\ {"svc", "services"} \subseteq DOMAIN q /\ q.svc \in DOMAIN q.services
          /\ \A i \in DOMAIN q.services : Readable(q.services[i])
      BY DEF Walked
    <3> QED
      BY <3>1, <3>2, Bound
  <2> HIDE DEF v
  <2>4. /\ Walked(n) /\ ~Shut(n) /\ n.section = q.section /\ n.sub = q.sub
        /\ ~Vol(q.sub) => Binds(n) = Binds(q)
    BY <2>1, <2>2, WalkSets
  <2> QED
    BY <2>3, <2>4 DEF WalkFills
<1>3. CASE ~(l.form \in {"item", "pair"} /\ q.sub \in LISTS /\ Text(l) # <<>>)
  <2>1. n = q \/ (q.sub \in MAPS \cup {"labels"} /\ n \in {Sets(q, q.sub, a), Sets(q, q.sub, b)})
    BY <1>1, <1>3 DEF ScanEntry
  <2>2. /\ \A k \in MAPS \cup {"labels"} : ~Vol(k)
        /\ Vol(q.sub) => q.sub \in LISTS
    BY DEF MAPS, LISTS, Vol
  <2>3. Vol(q.sub) /\ l.form \in {"item", "pair"} => Text(l) = <<>>
    BY <1>3, <2>2
  <2> HIDE DEF a, b
  <2>4. CASE n = q
    BY <2>3, <2>4 DEF WalkFills
  <2>5. ASSUME NEW w \in {a, b}, q.sub \in MAPS \cup {"labels"}, n = Sets(q, q.sub, w)
        PROVE  Walked(n) /\ ~Shut(n) /\ n.section = q.section /\ n.sub = q.sub /\ Binds(n) = Binds(q)
    BY <2>2, <2>5, WalkSets
  <2> QED
    BY <2>1, <2>3, <2>4, <2>5 DEF WalkFills
<1> QED
  BY <1>2, <1>3

(* What is left out when services are not the section does nothing. *)
LEMMA WalkPasses ==
    ASSUME NEW q, NEW l, NEW env, l.at \in Nat, l.at # 0, Shut(q),
           l.at = 2 => ~InVolumes(q) /\ ~InServices(q)
    PROVE  ScanLine(env, q, l) = q
BY DEF ScanLine, Shut, InVolumes, InServices
-----------------------------------------------------------------------------
(* The two readers side by side *)

Line(l) == DOMAIN l = {"at", "form", "key", "val"} /\ l.at \in Nat

AsRead(l, env) == [l EXCEPT !.key = Word(@, env), !.val = substituteEnv(@, env)]

PlainLine(l, env) ==
    l.at <= 4 =>
        /\ l.key \notin DOMAIN env
        /\ l.at = 2 \/ l.key \in LISTS \cup MAPS => l.val = <<>> \/ Head(l.val) \notin DOMAIN env

(* Every path that the parser has taken the walk has too, unsubstituted. *)
Covered(P, Q, env) == \A b \in P : Absolute(b) => \E v \in Q : b = substituteEnv(v, env)

Versioned(q) == q.section = "version"

Alike(p, q, env) ==
    /\ Known(p) /\ Walked(q)
    /\ p.section = q.section /\ p.sub = q.sub /\ (Idle(p) <=> Shut(q))
    /\ p.skip = {} \/ (p.skip = {0} /\ Versioned(q) /\ Shut(q))
    /\ Covered(Binds(p), Binds(q), env)

LEMMA AlikeAtFirst == ASSUME NEW env PROVE Alike(Unread, ScanStart, env)
<1>1. Known(Unread) /\ Binds(Unread) = {}
  <2>1. DOMAIN Unread.services = {}
    BY DEF Unread, NoMap
  <2>2. /\ DOMAIN Unread = {"section", "svc", "sub", "skip", "services", "volumes", "ignored", "bad"}
        /\ Unread.svc = ""
    BY DEF Unread
  <2>3. ~Opened(Unread)
    BY <2>2 DEF Opened
  <2> QED
    BY <2>1, <2>2, <2>3 DEF Known, Binds
<1>2. Walked(ScanStart)
  <2>1. /\ DOMAIN ScanStart = {"section", "svc", "sub", "services", "volumes"}
        /\ ScanStart.services = <<>> /\ Shut(ScanStart)
    BY DEF ScanStart, Shut
  <2>2. <<>> \in Seq({}) /\ DOMAIN <<>> = {}
    OBVIOUS
  <2> QED
    BY <2>1, <2>2 DEF Walked, IsSeq
<1>3. /\ Unread.section = ScanStart.section /\ Unread.sub = ScanStart.sub /\ Idle(Unread) /\ Shut(ScanStart)
      /\ Unread.skip = {}
  BY DEF Unread, ScanStart, Idle, Shut
<1> QED
  BY <1>1, <1>2, <1>3 DEF Alike, Covered

LEMMA CoveredStays ==
    ASSUME NEW P, NEW Q, NEW env, Covered(P, Q, env), NEW P2, P2 \subseteq P, NEW Q2, Q \subseteq Q2
    PROVE  Covered(P2, Q2, env)
BY DEF Covered

LEMMA LiteralIs ==
    ASSUME NEW l, NEW env, Line(l), PlainLine(l, env), l.at <= 4,
           NEW r, r = AsRead(l, env)
    PROVE  /\ r.at = l.at /\ r.form = l.form /\ r.key = l.key
           /\ IsKey(r) => LiteralKey(l, env)
           /\ l.at = 2 \/ l.key \in LISTS \cup MAPS => r.val = l.val
<1>1. r.at = l.at /\ r.form = l.form /\ r.key = Word(l.key, env) /\ r.val = substituteEnv(l.val, env)
  BY DEF Line, AsRead
<1>2. Word(l.key, env) = l.key
  BY DEF PlainLine, Word
<1>3. l.at = 2 \/ l.key \in LISTS \cup MAPS => substituteEnv(l.val, env) = l.val
  BY DEF PlainLine, substituteEnv
<1>4. l.key \notin DOMAIN env
  BY DEF PlainLine
<1> QED
  BY <1>1, <1>2, <1>3, <1>4 DEF IsKey, LiteralKey

(* One line, read as the parser reads it by the one and raw by the other. *)
LEMMA AlikeStays ==
    ASSUME NEW was, NEW q, NEW env, Alike(was, q, env), NEW l, Line(l), PlainLine(l, env),
           NEW r, r = AsRead(l, env),
           NEW n, n = ParseLine(was, r), Clean(n), NEW m, m = ScanLine(env, q, l)
    PROVE  Alike(n, m, env)
<1>1. r.at = l.at /\ l.at \in Nat /\ r.form = l.form /\ r.val = substituteEnv(l.val, env)
  BY DEF Line, AsRead
<1>0. ASSUME l.at <= 4
      PROVE  /\ r.key = l.key
             /\ IsKey(r) => LiteralKey(l, env)
             /\ l.at = 2 \/ l.key \in LISTS \cup MAPS => r.val = l.val
  BY <1>0, LiteralIs
<1>2. /\ Known(was) /\ Walked(q) /\ was.section = q.section /\ was.sub = q.sub /\ (Idle(was) <=> Shut(q))
      /\ was.skip = {} \/ (was.skip = {0} /\ Versioned(q) /\ Shut(q))
      /\ Covered(Binds(was), Binds(q), env)
  BY DEF Alike
<1>3. Known(n) /\ Clean(was)
  BY <1>1, <1>2, ParseLineIs
<1>4. CASE Skipped(was, r) /\ n = was
  <2>1. was.skip = {0} /\ Versioned(q) /\ Shut(q) /\ l.at # 0
    BY <1>1, <1>2, <1>4 DEF Skipped
  <2>2. ~InVolumes(q) /\ ~InServices(q)
    BY <2>1 DEF Versioned, InVolumes, InServices
  <2>3. m = q
    BY <1>1, <2>1, <2>2, WalkPasses
  <2> QED
    BY <1>4, <2>3
<1>5. ASSUME NEW p, Known(p), p.skip = {}, p.section = was.section, p.svc = was.svc, p.sub = was.sub,
             Binds(p) = Binds(was)
      PROVE  /\ p.section = q.section /\ p.sub = q.sub /\ (Idle(p) <=> Shut(q))
             /\ (InVolumes(p) <=> InVolumes(q)) /\ (InServices(p) <=> InServices(q)) /\ (Flat(p) <=> Flat(q))
             /\ Covered(Binds(p), Binds(q), env)
  <2>1. Idle(p) <=> Idle(was)
    BY <1>5 DEF Idle
  <2>2. p.section = q.section /\ p.sub = q.sub
    BY <1>2, <1>5
  <2>3. (InVolumes(p) <=> InVolumes(q)) /\ (InServices(p) <=> InServices(q))
    BY <2>2 DEF InVolumes, InServices
  <2>4. Flat(p) <=> Flat(q)
    BY <2>2 DEF Flat
  <2> QED
    BY <1>2, <1>5, <2>1, <2>2, <2>3, <2>4
<1> DEFINE From(p) == /\ Known(p) /\ p.skip = {} /\ p.section = was.section /\ p.svc = was.svc /\ p.sub = was.sub
                      /\ Binds(p) = Binds(was)
<1>6. ASSUME NEW p, From(p), Opens(n, p, r) PROVE Alike(n, m, env)
  <2>1. l.at = 0 /\ r.key = l.key /\ LiteralKey(l, env)
    <3>1. l.at = 0 /\ IsKey(r)
      BY <1>1, <1>6 DEF Opens
    <3> QED
      BY <1>0, <3>1
  <2>2. Walked(m) /\ Shut(m) /\ Flat(m) /\ Binds(m) = Binds(q) /\ m.section = l.key
    BY <1>2, <2>1, WalkOpensIs DEF WalkOpens
  <2>3. n.section = l.key /\ Idle(n) /\ Flat(n) /\ Binds(n) = Binds(p) /\ (n.skip = {} \/ (n.skip = {0} /\ l.key = "version"))
    BY <1>6, <2>1 DEF Opens
  <2>4. l.key = "version" => Versioned(m)
    BY <2>2 DEF Versioned
  <2>5. n.sub = m.sub
    BY <2>2, <2>3 DEF Flat
  <2> QED
    BY <1>3, <1>5, <1>6, <2>2, <2>3, <2>4, <2>5 DEF Alike
<1>7. ASSUME NEW p, From(p), Declares(n, p, r) PROVE Alike(n, m, env)
  <2>1. l.at = 2 /\ InVolumes(q)
    BY <1>1, <1>5, <1>7 DEF Declares
  <2>2. Walked(m) /\ WalkDeclares(m, q)
    BY <1>2, <2>1, WalkDeclaresIs
  <2>3. n.sub = m.sub
    BY <1>7, <2>2 DEF Flat, Declares, WalkDeclares
  <2> QED
    BY <1>3, <1>5, <1>7, <2>2, <2>3 DEF Alike, Declares, WalkDeclares
<1>8. ASSUME NEW p, From(p), Starts(n, p, r) PROVE Alike(n, m, env)
  <2>1. l.at = 2 /\ InServices(q) /\ LiteralKey(l, env) /\ l.val = <<>> /\ IsKey(r) /\ n.svc = r.key
    <3>1. l.at = 2 /\ InServices(q) /\ IsKey(r) /\ r.val = <<>> /\ n.svc = r.key
      BY <1>1, <1>5, <1>8 DEF Starts
    <3> QED
      BY <1>0, <3>1
  <2>2. Walked(m) /\ WalkStarts(m, q, l, env) /\ ~Shut(m)
    BY <1>2, <2>1, WalkStartsIs DEF WalkStarts
  <2>3. ~Idle(n)
    BY Zenon, <2>1 DEF Idle, IsKey
  <2>4. n.sub = m.sub
    BY <1>8, <2>2 DEF Flat, Starts, WalkStarts
  <2>5. Covered(Binds(n), Binds(m), env)
    BY <1>5, <1>8, <2>2, CoveredStays DEF Starts, WalkStarts
  <2> QED
    BY <1>3, <1>5, <1>8, <2>2, <2>3, <2>4, <2>5 DEF Alike, Starts, WalkStarts
<1>9. ASSUME NEW p, From(p), Ignores(n, p, r) PROVE Alike(n, m, env)
  (* The walk keeps its place when a line is neither of volumes nor of services. *)
  <2>1. l.at = 2 /\ ~InVolumes(q) /\ ~InServices(q) /\ n = p
    BY <1>1, <1>5, <1>9 DEF Ignores
  <2>2. m = q
    BY <2>1, ScanLineIs
  <2> QED
    BY <1>2, <1>3, <1>5, <1>9, <2>1, <2>2 DEF Alike
<1>10. ASSUME NEW p, From(p), Turns(n, p, r) PROVE Alike(n, m, env)
  <2>1. l.at = 4 /\ r.key = l.key /\ LiteralKey(l, env) /\ (l.key \in LISTS \cup MAPS => r.val = l.val)
    <3>1. l.at = 4 /\ IsKey(r)
      BY <1>1, <1>10 DEF Turns
    <3> QED
      BY <1>0, <3>1
  <2>2. ~Idle(p) /\ ~Idle(n) /\ ~Shut(q)
    <3>1. ~Idle(p)
      BY <1>10 DEF Turns, Opened, Idle
    <3>2. ~Idle(n)
      BY <1>10, <3>1 DEF Turns, Idle
    <3> QED
      BY <1>5, <1>10, <3>1, <3>2
  <2>3. Walked(m) /\ WalkTurns(m, q, l, env)
    BY <1>2, <2>1, <2>2, WalkTurnsIs
  <2>4. n.sub = m.sub
    <3>1. SCALARS \cap (LISTS \cup MAPS) = {}
      BY DEF SCALARS, LISTS, MAPS
    <3>2. CASE l.key \in LISTS \cup MAPS
      BY <1>10, <2>1, <2>3, <3>1, <3>2 DEF Turns, WalkTurns
    <3>3. CASE l.key \notin LISTS \cup MAPS
      <4>1. Flat(n) /\ Flat(m)
        BY <1>10, <2>1, <2>3, <3>3 DEF Turns, WalkTurns
      <4> QED
        BY <4>1 DEF Flat
    <3> QED
      BY <3>2, <3>3
  <2> QED
    BY <1>3, <1>5, <1>10, <2>2, <2>3, <2>4 DEF Alike, Turns, WalkTurns
<1>11. ASSUME NEW p, From(p), Fills(n, p, r) PROVE Alike(n, m, env)
  <2>1. l.at = 6
    BY <1>1, <1>11 DEF Fills
  <2>2. ~Idle(p) /\ ~Idle(n) /\ ~Shut(q) /\ ~Flat(q)
    <3>1. ~Idle(p)
      BY <1>11 DEF Fills, Opened, Idle
    <3>2. ~Idle(n)
      BY <1>11, <3>1 DEF Fills, Idle
    <3> QED
      BY <1>5, <1>11, <3>1, <3>2 DEF Fills
  <2>3. Walked(m) /\ WalkFills(m, q, l)
    BY <1>2, <2>1, <2>2, WalkFillsIs
  <2>4. n.section = m.section /\ n.sub = m.sub /\ n.skip = {} /\ ~Shut(m)
    BY <1>5, <1>11, <2>3 DEF Fills, WalkFills
  <2>5. CASE Binds(n) = Binds(p)
    <3>1. Covered(Binds(n), Binds(m), env)
      BY <1>5, <1>11, <2>3, <2>5, CoveredStays DEF WalkFills
    <3> QED
      BY <1>3, <2>2, <2>3, <2>4, <3>1 DEF Alike
  <2>6. CASE /\ r.form \in {"item", "pair"} /\ Vol(p.sub) /\ (r.form = "item" => r.val # <<>>)
             /\ Binds(n) = Binds(p) \cup {Text(r)}
    <3>1. Binds(q) \subseteq Binds(m) /\ (Text(l) # <<>> => Text(l) \in Binds(m))
      BY <1>1, <1>5, <1>11, <2>3, <2>6 DEF WalkFills
    <3>2. ASSUME Absolute(Text(r)) PROVE \E v \in Binds(m) : Text(r) = substituteEnv(v, env)
      <4>1. r.form # "pair"
        BY <3>2 DEF Text, Absolute
      <4>2. r.form = "item" /\ Text(r) = substituteEnv(l.val, env) /\ Text(l) = l.val
        BY <1>1, <2>6, <4>1 DEF Text
      <4>3. l.val # <<>>
        BY <1>1, <2>6, <4>2 DEF substituteEnv
      <4> QED
        BY <3>1, <4>2, <4>3
    <3>3. Covered(Binds(n), Binds(m), env)
      BY <1>5, <1>11, <2>6, <3>1, <3>2 DEF Covered
    <3> QED
      BY <1>3, <2>2, <2>3, <2>4, <3>3 DEF Alike
  <2> QED
    BY <1>11, <2>5, <2>6 DEF Fills
<1> QED
  <2>1. \/ Skipped(was, r) /\ n = was
        \/ \E p : /\ From(p)
                  /\ \/ Opens(n, p, r) \/ Declares(n, p, r) \/ Starts(n, p, r)
                     \/ Ignores(n, p, r) \/ Turns(n, p, r) \/ Fills(n, p, r)
    BY <1>1, <1>2, ParseLineIs
  <2> HIDE DEF From
  <2> QED
    BY <1>4, <1>6, <1>7, <1>8, <1>9, <1>10, <1>11, <2>1

(* A file as the model has it: a sequence of lines. *)
File(file) == \E Some : (\A l \in Some : Line(l)) /\ file \in Seq(Some)

LEMMA SubstitutedIs ==
    ASSUME NEW file, File(file), NEW env
    PROVE  /\ Len(file) \in Nat /\ Len(Substituted(file, env)) = Len(file)
           /\ \A i \in 1 .. Len(file) :
                 Line(file[i]) /\ file[i] \in ToSet(file) /\ Substituted(file, env)[i] = AsRead(file[i], env)
<1>1. PICK Some : (\A l \in Some : Line(l)) /\ file \in Seq(Some)
  BY DEF File
<1>2. /\ Len(file) \in Nat /\ DOMAIN file = 1 .. Len(file) /\ \A i \in 1 .. Len(file) : file[i] \in Some
  BY <1>1, LenProperties, ElementOfSeq
<1> DEFINE N == Len(file)
           New == {AsRead(l, env) : l \in Some}
           sub == Substituted(file, env)
<1>3. sub = [i \in 1 .. N |-> AsRead(file[i], env)]
  BY <1>2 DEF Substituted, AsRead
<1> HIDE DEF sub
<1>4. sub \in [1 .. N -> New]
  BY <1>2, <1>3
<1> HIDE DEF New
<1>5. sub \in Seq(New)
  BY <1>2, <1>4, IsASeq
<1>6. Len(sub) = N
  BY <1>2, <1>4, <1>5, LenProperties
<1>7. \A i \in 1 .. N : file[i] \in ToSet(file)
  BY <1>2 DEF ToSet
<1> QED
  BY <1>1, <1>2, <1>3, <1>6, <1>7 DEF sub

LEMMA AlikeThroughout ==
    ASSUME NEW file, File(file), NEW env, Plain(file, env),
           NEW n \in 0 .. Len(file), Clean(Parsing(Substituted(file, env))[n])
    PROVE  Alike(Parsing(Substituted(file, env))[n], Scanning(file, env)[n], env)
<1> DEFINE N == Len(file)
           sub == Substituted(file, env)
           P(k) == Parsing(sub)[k]
           Q(k) == Scanning(file, env)[k]
           Good(k) == Known(P(k)) /\ (Clean(P(k)) => Alike(P(k), Q(k), env))
           Bad == {k \in 0 .. N : ~Good(k)}
<1>1. /\ N \in Nat /\ Len(sub) = N
      /\ \A i \in 1 .. N : Line(file[i]) /\ file[i] \in ToSet(file) /\ sub[i] = AsRead(file[i], env)
  BY SubstitutedIs
<1>2. \A i \in 1 .. N : PlainLine(file[i], env)
  BY <1>1 DEF Plain, PlainLine
<1> HIDE DEF sub, N
<1>3. P(0) = Unread /\ \A k \in 1 .. N : P(k) = ParseLine(P(k - 1), AsRead(file[k], env))
  BY <1>1, ParsingIs
<1>4. Q(0) = ScanStart /\ \A k \in 1 .. N : Q(k) = ScanLine(env, Q(k - 1), file[k])
  BY <1>1, ScanningIs DEF N
<1> HIDE DEF P, Q
<1>5. Good(0)
  BY <1>3, <1>4, AlikeAtFirst DEF Alike
<1>6. ASSUME NEW k \in 1 .. N, Good(k - 1) PROVE Good(k)
  <2> DEFINE l == file[k]
             r == AsRead(l, env)
  <2>1. Line(l) /\ PlainLine(l, env)
    BY <1>1, <1>2
  <2>2. P(k) = ParseLine(P(k - 1), r) /\ Q(k) = ScanLine(env, Q(k - 1), l)
    BY <1>3, <1>4
  <2>3. r.at \in Nat
    BY <2>1 DEF Line, AsRead
  <2> HIDE DEF l, r
  <2>4. Known(P(k)) /\ (Clean(P(k)) => Clean(P(k - 1)))
    BY <1>6, <2>2, <2>3, ParseLineIs
  <2>5. ASSUME Clean(P(k)) PROVE Alike(P(k), Q(k), env)
    <3>1. Alike(P(k - 1), Q(k - 1), env)
      BY <1>6, <2>4, <2>5
    <3> QED
      BY <2>1, <2>2, <2>5, <3>1, AlikeStays DEF r
  <2> QED
    BY <2>4, <2>5
<1>7. Bad = {}
  <2> SUFFICES ASSUME Bad # {} PROVE FALSE
    OBVIOUS
  <2>1. Bad \in SUBSET Nat
    OBVIOUS
  <2>2. PICK k \in Bad : \A j \in Bad : k <= j
    <3> HIDE DEF Bad
    <3> QED
      BY <2>1, Least
  <2> HIDE DEF Good
  <2>3. k \in 1 .. N /\ k - 1 \in 0 .. N /\ ~(k <= k - 1)
    BY <1>1, <1>5, <2>2
  <2>4. Good(k - 1)
    BY <2>2, <2>3
  <2> QED
    BY <1>6, <2>2, <2>3, <2>4
<1> QED
  BY <1>7 DEF N, P, Q, sub

-----------------------------------------------------------------------------
(* What the parser leaves out *)

Notes == {"inline syntax", "environment host lookup", "volume options", "nested syntax"}
Heads(l) == IsKey(l) /\ l.at \in {0, 4}

(* A line adds a note or its own key to what is left out. *)
Adds(n, p, l) == \A w \in n.ignored : w \in p.ignored \/ w \in Notes \/ (Heads(l) /\ w = l.key)

LEMMA FailsAdds == ASSUME NEW p, Known(p), NEW l PROVE Adds(Fails(p), p, l)
<1>1. Fails(p).ignored = p.ignored
  BY DEF Known, Fails
<1> QED
  BY <1>1 DEF Adds

LEMMA LeaveAdds ==
    ASSUME NEW p, Known(p), NEW l, NEW w, NEW f, w \in Notes \/ (Heads(l) /\ w = l.key)
    PROVE  Adds(Leave(p, w, f), p, l)
<1>1. Leave(p, w, f).ignored = p.ignored \cup {w}
  BY DEF Known, Leave
<1> QED
  BY <1>1 DEF Adds

LEMMA TopLevelAdds == ASSUME NEW p, NEW l, Known(p), l.at = 0 PROVE Adds(TopLevel(p, l), p, l)
<1> DEFINE q == [p EXCEPT !.section = l.key, !.svc = "", !.sub = ""]
           v == [q EXCEPT !.skip = {0}]
<1>1. q.ignored = p.ignored /\ v.ignored = p.ignored /\ DOMAIN q = DOMAIN p /\ q.services = p.services /\ Idle(q)
  BY DEF Known, Idle
<1>2. IF IsKey(l) THEN TopLevel(p, l) \in {q, v, Leave(q, l.key, 0)} ELSE TopLevel(p, l) = Fails(p)
  BY DEF TopLevel
<1> HIDE DEF q, v
<1>3. Known(q)
  BY <1>1, SvcEnds
<1>4. ASSUME IsKey(l) PROVE Adds(Leave(q, l.key, 0), p, l)
  <2>1. Adds(Leave(q, l.key, 0), q, l)
    BY <1>3, <1>4, LeaveAdds DEF Heads
  <2> QED
    BY <1>1, <2>1 DEF Adds
<1>5. Adds(q, p, l) /\ Adds(v, p, l)
  BY <1>1 DEF Adds
<1> QED
  BY <1>2, <1>4, <1>5, FailsAdds

LEMMA ServiceLinesAdd ==
    ASSUME NEW p, NEW l, Known(p)
    PROVE  Adds(DeclaresVolume(p, l), p, l) /\ Adds(OpensService(p, l), p, l)
<1> DEFINE d == [p EXCEPT !.volumes = @ \cup {l.key}, !.svc = "", !.sub = ""]
           o == [p EXCEPT !.svc = l.key, !.sub = "", !.services = Put(@, l.key, NewService)]
<1>1. d.ignored = p.ignored /\ o.ignored = p.ignored
  BY DEF Known
<1>2. DeclaresVolume(p, l) \in {Fails(p), d} /\ OpensService(p, l) \in {Fails(p), o}
  BY DEF DeclaresVolume, OpensService
<1> HIDE DEF d, o
<1>3. Adds(d, p, l) /\ Adds(o, p, l)
  BY <1>1 DEF Adds
<1> QED
  BY <1>2, <1>3, FailsAdds

LEMMA ServiceKeyAdds == ASSUME NEW p, NEW l, Known(p), l.at = 4 PROVE Adds(ServiceKey(p, l), p, l)
<1> DEFINE q == [p EXCEPT !.sub = ""]
           o == [q EXCEPT !.sub = l.key]
           i == [q EXCEPT !.ignored = @ \cup {"inline syntax"}]
           s == Sets(q, l.key, l.val)
<1>1. /\ DOMAIN q = DOMAIN p /\ q.svc = p.svc /\ q.services = p.services
      /\ q.ignored = p.ignored /\ o.ignored = p.ignored /\ i.ignored = p.ignored \cup {"inline syntax"}
  BY DEF Known
<1>2. s.ignored = q.ignored
  BY <1>1 DEF Known, Sets
<1>3. IF IsKey(l) THEN ServiceKey(p, l) \in {q, o, i, s, Leave(q, l.key, 4)} ELSE ServiceKey(p, l) = Fails(p)
  BY DEF ServiceKey
<1> HIDE DEF q, o, i, s
<1>4. Known(q)
  BY <1>1, SvcStays
<1>5. ASSUME IsKey(l) PROVE Adds(Leave(q, l.key, 4), p, l)
  <2>1. Adds(Leave(q, l.key, 4), q, l)
    BY <1>4, <1>5, LeaveAdds DEF Heads
  <2> QED
    BY <1>1, <2>1 DEF Adds
<1>6. Adds(q, p, l) /\ Adds(o, p, l) /\ Adds(s, p, l) /\ Adds(i, p, l)
  BY <1>1, <1>2 DEF Adds, Notes
<1> QED
  BY <1>3, <1>5, <1>6, FailsAdds

LEMMA EntryAdds == ASSUME NEW p, NEW l, Known(p) PROVE Adds(Entry(p, l), p, l)
<1> DEFINE e == [p EXCEPT !.ignored = @ \cup {"environment host lookup"}]
           a == Sets(p, p.sub, Append(Current(p), Text(l)))
           b == Sets(p, p.sub, Put(Current(p), Head(l.val), <<>>))
           c == Sets(p, p.sub, Put(Current(p), l.key, l.val))
<1>1. e.ignored = p.ignored \cup {"environment host lookup"}
  BY DEF Known
<1>2. a.ignored = p.ignored /\ b.ignored = p.ignored /\ c.ignored = p.ignored
  BY DEF Known, Sets
<1>3. Entry(p, l) \in {p, e, a, b, c, Fails(p)}
  BY DEF Entry
<1> HIDE DEF e, a, b, c
<1>4. Adds(p, p, l) /\ Adds(e, p, l) /\ Adds(a, p, l) /\ Adds(b, p, l) /\ Adds(c, p, l)
  BY <1>1, <1>2 DEF Adds, Notes
<1> QED
  BY <1>3, <1>4, FailsAdds

LEMMA LineAdds ==
    ASSUME NEW was, NEW l, Known(was), l.at \in Nat
    PROVE  Adds(ParseLine(was, l), was, l)
<1> DEFINE p == [was EXCEPT !.skip = {}]
<1>1. ParseLine(was, l) = IF was.bad \/ Skipped(was, l) THEN was ELSE Reads(p, l)
  BY DEF ParseLine, Reads, Skipped, InVolumes, InServices, Idle, Flat
<1>2. DOMAIN p = DOMAIN was /\ p.svc = was.svc /\ p.services = was.services /\ p.ignored = was.ignored
  BY DEF Known
<1> HIDE DEF p
<1>3. Known(p)
  BY <1>2, SvcStays
<1>4. Adds(was, was, l) /\ Adds(p, p, l)
  BY DEF Adds
<1>5. /\ Adds(Leave(p, "volume options", l.at), p, l)
      /\ Adds(Leave(p, "nested syntax", l.at - 2), p, l)
  BY <1>3, LeaveAdds DEF Notes
<1>6. Adds(Reads(p, l), p, l)
  <2>1. CASE l.at = 0
    BY <1>3, <2>1, TopLevelAdds DEF Reads
  <2>2. CASE l.at = 4 /\ l.at % 2 # 1 /\ ~InVolumes(p) /\ ~Idle(p)
    BY <1>3, <2>2, ServiceKeyAdds DEF Reads
  <2>3. CASE l.at # 0 /\ ~(l.at = 4 /\ l.at % 2 # 1 /\ ~InVolumes(p) /\ ~Idle(p))
    <3>1. Reads(p, l) \in {Fails(p), DeclaresVolume(p, l), OpensService(p, l), p, Entry(p, l),
                           Leave(p, "volume options", l.at), Leave(p, "nested syntax", l.at - 2)}
      BY <2>3 DEF Reads
    <3> QED
      BY <1>3, <1>4, <1>5, <3>1, FailsAdds, ServiceLinesAdd, EntryAdds
  <2> QED
    BY <2>1, <2>2, <2>3
<1> QED
  BY <1>1, <1>2, <1>4, <1>6 DEF Adds

(* What is left out and is no note is the key of a line of the file. *)
LEMMA LeftOutIsThere ==
    ASSUME NEW file, File(file), NEW env, NEW n \in 0 .. Len(file)
    PROVE  \A w \in Parsing(Substituted(file, env))[n].ignored :
              w \in Notes \/ \E i \in 1 .. n : Heads(AsRead(file[i], env)) /\ w = AsRead(file[i], env).key
<1> DEFINE N == Len(file)
           sub == Substituted(file, env)
           P(k) == Parsing(sub)[k]
           Read(i) == AsRead(file[i], env)
           Named(k, w) == \E i \in 1 .. k : Heads(Read(i)) /\ w = Read(i).key
           Good(k) == Known(P(k)) /\ \A w \in P(k).ignored : w \in Notes \/ Named(k, w)
           Bad == {k \in 0 .. N : ~Good(k)}
<1>1. N \in Nat /\ Len(sub) = N /\ \A i \in 1 .. N : Line(file[i]) /\ sub[i] = Read(i)
  BY SubstitutedIs
<1> HIDE DEF sub, N
<1>2. P(0) = Unread /\ \A k \in 1 .. N : P(k) = ParseLine(P(k - 1), Read(k))
  BY <1>1, ParsingIs
<1>3. Good(0)
  <2>1. Unread.ignored = {}
    BY DEF Unread
  <2>2. Known(Unread)
    BY AlikeAtFirst DEF Alike
  <2>3. P(0) = Unread
    BY <1>2
  <2> HIDE DEF P, Named
  <2> QED
    BY <2>1, <2>2, <2>3
<1> HIDE DEF P
<1>4. ASSUME NEW k \in 1 .. N, Good(k - 1) PROVE Good(k)
  <2>1. Read(k).at \in Nat
    BY <1>1 DEF Line, AsRead
  <2> HIDE DEF Read
  <2>2. Known(P(k)) /\ Adds(P(k), P(k - 1), Read(k))
    BY <1>2, <1>4, <2>1, ParseLineIs, LineAdds
  <2>3. \A i \in 1 .. k - 1 : i \in 1 .. k
    BY <1>1
  <2>4. k \in 1 .. k
    BY <1>1
  <2> QED
    BY <1>4, <2>2, <2>3, <2>4 DEF Adds
<1>5. Bad = {}
  <2> SUFFICES ASSUME Bad # {} PROVE FALSE
    OBVIOUS
  <2>1. Bad \in SUBSET Nat
    OBVIOUS
  <2>2. PICK k \in Bad : \A j \in Bad : k <= j
    <3> HIDE DEF Bad
    <3> QED
      BY <2>1, Least
  <2> HIDE DEF Good
  <2>3. k \in 1 .. N /\ k - 1 \in 0 .. N /\ ~(k <= k - 1)
    BY <1>1, <1>3, <2>2
  <2>4. Good(k - 1)
    BY <2>2, <2>3
  <2> QED
    BY <1>4, <2>2, <2>3, <2>4
<1> QED
  BY <1>5 DEF N, P, sub

-----------------------------------------------------------------------------
(* The linter *)

LEMMA Findings ==
    ASSUME NEW file, NEW env, NEW roots, NEW live
    PROVE  LET scan   == scanCompose(file, env)
               parsed == parseCompose(Substituted(file, env))
               found  == LintErrors(file, env, roots, live)
           IN  /\ ~parsed.ok => "QM012" \in found
               /\ parsed.ok /\ reservedProtectionClaims(parsed) # {} => "QM013" \in found
               /\ (\E v \in Binds(scan) : dangerousHostBind(substituteEnv(v, env), roots)) => "QM004" \in found
               /\ (\E l \in ToSet(file) : l.form = "key" /\ l.key \in BANNED) => "QM006" \in found
<1> DEFINE scan   == scanCompose(file, env)
           parsed == parseCompose(Substituted(file, env))
           found  == LintErrors(file, env, roots, live)
<1>1. ~parsed.ok => "QM012" \in found
  BY DEF LintErrors
<1>2. parsed.ok /\ reservedProtectionClaims(parsed) # {} => "QM013" \in found
  BY DEF LintErrors
<1>3. ASSUME NEW v \in Binds(scan), dangerousHostBind(substituteEnv(v, env), roots) PROVE "QM004" \in found
  <2>1. PICK s \in DOMAIN scan.services : v \in ToSet(scan.services[s].volumes)
    BY DEF Binds
  <2> QED
    BY <1>3, <2>1 DEF LintErrors
<1>4. (\E l \in ToSet(file) : l.form = "key" /\ l.key \in BANNED) => "QM006" \in found
  BY DEF LintErrors
<1> QED
  BY <1>1, <1>2, <1>3, <1>4

LEMMA ForeseesUnsafe ==
    ASSUME NEW file, File(file), NEW env, Plain(file, env), NEW roots, NEW live,
           Verdict(file, env, roots) = "unsafe"
    PROVE  "QM004" \in LintErrors(file, env, roots, live)
<1> DEFINE sub    == Substituted(file, env)
           parsed == parseCompose(sub)
           p      == Parsing(sub)[Len(sub)]
           q      == Scanning(file, env)[Len(file)]
<1>1. parsed.ok /\ parsed.ignored = {} /\ dangerousBinds(parsed, roots) # {}
  BY DEF Verdict
<1>2. parsed.services = p.services /\ Clean(p)
  BY <1>1 DEF parseCompose, Clean
<1>3. Len(sub) = Len(file) /\ Len(file) \in 0 .. Len(file)
  BY SubstitutedIs
<1>4. Alike(p, q, env)
  BY <1>2, <1>3, AlikeThroughout
<1>5. PICK s \in DOMAIN parsed.services :
          \E bind \in ToSet(parsed.services[s].volumes) : dangerousHostBind(bind, roots)
  BY <1>1 DEF dangerousBinds
<1>6. PICK bind \in ToSet(parsed.services[s].volumes) : dangerousHostBind(bind, roots)
  BY <1>5
<1>7. bind \in Binds(p) /\ Absolute(bind)
  BY <1>2, <1>5, <1>6 DEF Binds, dangerousHostBind
<1>8. PICK v \in Binds(q) : bind = substituteEnv(v, env)
  BY <1>4, <1>7 DEF Alike, Covered
<1>9. scanCompose(file, env) = q
  BY DEF scanCompose
<1> QED
  BY <1>6, <1>8, <1>9, Findings

LEMMA ForeseesPrivilege ==
    ASSUME NEW file, File(file), NEW env, Plain(file, env), NEW roots, NEW live, AsksPrivilege(file, env)
    PROVE  "QM006" \in LintErrors(file, env, roots, live)
<1> DEFINE sub  == Substituted(file, env)
           N    == Len(file)
           left == Parsing(sub)[N].ignored
           Read(i) == AsRead(file[i], env)
<1>1. /\ N \in Nat /\ N \in 0 .. N /\ Len(sub) = N
      /\ \A i \in 1 .. N : Line(file[i]) /\ file[i] \in ToSet(file)
  BY SubstitutedIs
<1>2. PICK w \in left : w \in BANNED
  BY <1>1 DEF AsksPrivilege, parseCompose
<1>3. w \notin Notes
  BY <1>2 DEF BANNED, Notes
<1>4. PICK i \in 1 .. N : Heads(Read(i)) /\ w = Read(i).key
  BY <1>1, <1>2, <1>3, LeftOutIsThere
<1>5. /\ Read(i).at = file[i].at /\ Read(i).form = file[i].form /\ Read(i).key = Word(file[i].key, env)
  BY <1>1 DEF AsRead, Line
<1>6. file[i].at \in {0, 4} /\ file[i].form = "key"
  BY <1>4, <1>5 DEF Heads, IsKey
<1>7. file[i].key \notin DOMAIN env
  <2>1. \A at : at \in {0, 4} => at <= 4
    OBVIOUS
  <2> QED
    BY <1>1, <1>6, <2>1 DEF Plain
<1>8. file[i].key = w
  BY <1>4, <1>5, <1>7 DEF Word
<1> QED
  BY <1>1, <1>2, <1>6, <1>8, Findings

LEMMA Foresees ==
    ASSUME NEW file, File(file), NEW env, NEW roots, NEW live
    PROVE  LintForesees(file, env, roots, live)
<1> DEFINE parsed == parseCompose(Substituted(file, env))
           found  == LintErrors(file, env, roots, live)
           v      == Verdict(file, env, roots)
<1>1. v = "parse" => ~parsed.ok
  BY DEF Verdict
<1>2. v = "reserved" => parsed.ok /\ reservedProtectionClaims(parsed) # {}
  BY DEF Verdict
<1>3. v = "parse" => found # {}
  BY <1>1, Findings
<1>4. v = "reserved" => "QM013" \in found
  BY <1>2, Findings
<1>5. v = "unsafe" /\ Plain(file, env) => "QM004" \in found
  BY ForeseesUnsafe
<1>6. Plain(file, env) /\ AsksPrivilege(file, env) => "QM006" \in found
  BY ForeseesPrivilege
<1> HIDE DEF v, found
<1> QED
  BY <1>3, <1>4, <1>5, <1>6 DEF LintForesees, v, found

(* What is deployed is nobody's but the project's. *)
LEMMA Ordinary ==
    ASSUME NEW file, NEW env, NEW roots
    PROVE  DeploysOrdinary(file, env, roots)
<1> SUFFICES ASSUME Verdict(file, env, roots) = "ok"
             PROVE  LET parsed == parseCompose(Substituted(file, env))
                    IN  \A s \in DOMAIN parsed.services :
                          LET body == buildCreateBody("media", s, parsed.services[s], parsed.volumes, "127.0.0.1")
                          IN  /\ ~isProtectedContainer(body.name, body.Labels[SERVICE_LABEL], body.Labels)
                              /\ body.Labels[PROJECT_LABEL] = <<"media">>
  BY DEF DeploysOrdinary
<1> DEFINE parsed == parseCompose(Substituted(file, env))
<1>1. parsed.ok /\ reservedProtectionClaims(parsed) = {}
  BY DEF Verdict
<1> HIDE DEF parsed
<1>2. ASSUME NEW s \in DOMAIN parsed.services
      PROVE  LET body == buildCreateBody("media", s, parsed.services[s], parsed.volumes, "127.0.0.1")
             IN  /\ ~isProtectedContainer(body.name, body.Labels[SERVICE_LABEL], body.Labels)
                 /\ body.Labels[PROJECT_LABEL] = <<"media">>
  <2> DEFINE spec == parsed.services[s]
             body == buildCreateBody("media", s, spec, parsed.volumes, "127.0.0.1")
  <2>1. ~reservedProtectionClaim(s, spec.container_name, spec.labels)
    BY <1>1 DEF reservedProtectionClaims
  <2> HIDE DEF spec
  <2>2. /\ body.name = IF spec.container_name # <<>> THEN spec.container_name ELSE <<"media", s>>
        /\ body.Labels = Labels("media", s, spec.labels)
    BY DEF buildCreateBody
  <2> HIDE DEF body
  <2>3. /\ body.Labels[SERVICE_LABEL] = <<s>> /\ body.Labels[PROJECT_LABEL] = <<"media">>
        /\ DOMAIN body.Labels = DOMAIN spec.labels \cup {PROJECT_LABEL, SERVICE_LABEL}
    BY <2>2 DEF Labels, Put, SERVICE_LABEL, PROJECT_LABEL
  <2>4. PROTECT_LABEL \notin DOMAIN body.Labels
    BY <2>1, <2>3 DEF reservedProtectionClaim, PROTECT_LABEL, SERVICE_LABEL, PROJECT_LABEL
  <2>5. ~\E n \in PROTECTED_SERVICE_NAMES : <<s>> = <<n>>
    <3>1. s \notin PROTECTED_SERVICE_NAMES
      BY <2>1, ReservedAssumption DEF reservedProtectionClaim
    <3>2. \A n : <<s>> = <<n>> => s = n
      OBVIOUS
    <3> QED
      BY <3>1, <3>2
  <2>6. ~\E n \in PROTECTED_CONTAINER_NAMES : body.name = <<n>>
    <3>1. \A n : Head(<<n>>) = n /\ <<n>> # <<>> /\ <<"media", s>> # <<n>>
      OBVIOUS
    <3>2. ASSUME NEW n \in PROTECTED_CONTAINER_NAMES, spec.container_name = <<n>> PROVE FALSE
      BY <2>1, <3>1, <3>2, ReservedAssumption DEF reservedProtectionClaim
    <3> QED
      BY <2>2, <3>1, <3>2
  <2> QED
    BY <2>3, <2>4, <2>5, <2>6 DEF isProtectedContainer, spec, body
<1> QED
  BY <1>2 DEF parsed

(* Whatever the lines of a file are, how many there are, and whatever the
   variables are set to: what is deployed is never taken for one of Companion's
   own containers, and the editor shows what LintForesees names: an error where
   the parser fails, and the rule of the refusal where the file claims a
   protected identity or, with its keys spelled out, binds a path that is not
   allowed or asks for a privilege of rule QM006 (deployStack, lintCompose). *)
THEOREM AnyFileIsForeseen ==
    \A file, env, roots, live :
        File(file) => DeploysOrdinary(file, env, roots) /\ LintForesees(file, env, roots, live)
BY Foresees, Ordinary

(* The same of every deployment of the model, for every set of files, of
   values, of allowed directories and of other containers that the constants
   may be: all that is assumed of a file is that it is a sequence of lines. *)
THEOREM FilesAreForeseenAlways == SpecStacks => []FilesAreForeseen
<1>1. ASSUME NEW file \in Files PROVE File(file)
  <2> DEFINE Some == ToSet(file)
  <2>1. file \in Seq(Some) /\ \A l \in Some : Line(l)
    BY FilesAssumption DEF Line
  <2> QED
    BY <2>1 DEF File
<1>2. AllOrdinary
  BY Ordinary DEF AllOrdinary
<1>3. AllForeseen
  BY <1>1, Foresees DEF AllForeseen
<1>4. FilesAreForeseen
  BY <1>2, <1>3 DEF FilesAreForeseen, OrdinaryOnly, LintSaysSo
<1> QED
  BY <1>4, PTL
=============================================================================
