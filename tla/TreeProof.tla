----------------------------- MODULE TreeProof -----------------------------
(***************************************************************************)
(* The tree of processes, for any number of processes, policies, monitors   *)
(* and kills: types, and no child of a live process is mute.                *)
(***************************************************************************)
EXTENDS ProcessTree, SelectionProof

-----------------------------------------------------------------------------
(* What travels. *)

\* A message or an EXIT is an entry.
LEMMA MessageType ==
    ASSUME TreeAssumption, NEW r \in Procs, NEW n \in 0..MaxEmits, NEW os \in SUBSET Procs
    PROVE  /\ Message(r, n, os) \in Entry
           /\ [Message(r, n, os) EXCEPT !.own = FALSE] \in Entry
BY DEF Message, Entry

\* What a subscriber is told of an entry.
LEMMA CopiesType ==
    ASSUME TypeOK, NEW e \in Entry, NEW p \in Procs
    PROVE  Copies(p, e) \in Seq(Entry)
<1>1. [e EXCEPT !.own = FALSE] \in Entry
  BY DEF Entry
<1>2. <<>> \in Seq(Entry) /\ <<e>> \in Seq(Entry) /\ <<[e EXCEPT !.own = FALSE]>> \in Seq(Entry)
  BY <1>1
<1> DEFINE a == IF e.from \in owned[p] /\ ~dead[p] THEN <<e>> ELSE <<>>
           b == IF e.from \in watched[p] /\ ~dead[p] THEN <<[e EXCEPT !.own = FALSE]>> ELSE <<>>
<1>3. a \in Seq(Entry) /\ b \in Seq(Entry)
  BY <1>2
<1>4. Copies(p, e) = a \o b
  BY DEF Copies
<1> HIDE DEF a, b
<1> QED BY <1>3, <1>4

LEMMA ToldType ==
    ASSUME TypeOK, NEW boxes \in Boxes, NEW e \in Entry
    PROVE  /\ Told(boxes, e) \in Boxes
           /\ \A p \in Procs : Told(boxes, e)[p] = boxes[p] \o Copies(p, e)
<1>1. ASSUME NEW p \in Procs PROVE boxes[p] \o Copies(p, e) \in Seq(Entry)
  <2>1. boxes[p] \in Seq(Entry)
    BY DEF Boxes
  <2> QED BY <2>1, CopiesType
<1> QED BY <1>1 DEF Told, Boxes

LEMMA CollectedType ==
    ASSUME NEW held \in Boxes, NEW e \in Entry
    PROVE  Collected(held, e) \in Boxes
<1>1. e.from \in Procs
  BY DEF Entry
<1>2. held[e.from] \in Seq(Entry)
  BY <1>1 DEF Boxes
<1>3. Append(held[e.from], e) \in Seq(Entry)
  BY <1>2
<1> QED BY <1>1, <1>2, <1>3 DEF Collected, Boxes

\* A part of a box.
LEMMA PartType ==
    ASSUME NEW es \in Seq(Entry), NEW S
    PROVE  /\ From(es, S) \in SUBSET DOMAIN es
           /\ Picked(es, From(es, S)) \in Seq(Entry)
<1>1. From(es, S) \in SUBSET DOMAIN es
  BY DEF From
<1> QED BY <1>1, PickedFacts

LEMMA UnreadType ==
    ASSUME TypeOK, NEW p \in Procs, NEW r \in Procs
    PROVE  Unread(p, r) \in Seq(Entry)
<1> DEFINE es == Picked(inbox[p], From(inbox[p], {r}))
<1>1. inbox[p] \in Seq(Entry)
  BY DEF TypeOK, Boxes
<1>2. es \in Seq(Entry)
  BY <1>1, PartType
<1>3. Unread(p, r) = [i \in DOMAIN es |-> [es[i] EXCEPT !.own = TRUE]]
  BY DEF Unread
<1> HIDE DEF es
<1>4. \A i \in DOMAIN es : [es[i] EXCEPT !.own = TRUE] \in Entry
  <2>1. ASSUME NEW i \in DOMAIN es PROVE [es[i] EXCEPT !.own = TRUE] \in Entry
    <3>1. es[i] \in Entry
      BY <1>2
    <3> QED BY <3>1 DEF Entry
  <2> QED BY <2>1
<1>5. DOMAIN es = 1..Len(es) /\ Len(es) \in Nat
  BY <1>2
<1> QED BY <1>3, <1>4, <1>5

LEMMA BackFedType ==
    ASSUME TypeOK, NEW p \in Procs
    PROVE  /\ BackFed(p) \in Boxes
           /\ \A r \in Procs : BackFed(p)[r] = IF r \in handing[p] THEN Unread(p, r) \o pending[r] ELSE pending[r]
<1>1. ASSUME NEW r \in Procs
      PROVE  (IF r \in handing[p] THEN Unread(p, r) \o pending[r] ELSE pending[r]) \in Seq(Entry)
  <2>1. pending[r] \in Seq(Entry)
    BY DEF TypeOK, Boxes
  <2>2. Unread(p, r) \in Seq(Entry)
    BY UnreadType
  <2>3. Unread(p, r) \o pending[r] \in Seq(Entry)
    BY <2>1, <2>2
  <2> QED BY <2>1, <2>3
<1> QED BY <1>1 DEF BackFed, Boxes

\* The orphans of the EXITs an orphan kept.
LEMMA LeftType ==
    ASSUME NEW es \in Seq(Entry)
    PROVE  /\ Left(es) \in SUBSET Procs
           /\ \A s : s \in Left(es) <=> \E i \in DOMAIN es : es[i].n = 0 /\ s \in es[i].orphans
           /\ ExitIn(es) = {} <=> \A i \in DOMAIN es : es[i].n # 0
<1>1. \A i \in DOMAIN es : es[i] \in Entry
  OBVIOUS
<1>2. \A e : e \in ExitIn(es) <=> \E i \in DOMAIN es : es[i].n = 0 /\ e = es[i]
  BY DEF ExitIn
<1>3. \A s : s \in Left(es) <=> \E e \in ExitIn(es) : s \in e.orphans
  BY DEF Left
<1>4. \A s : s \in Left(es) <=> \E i \in DOMAIN es : es[i].n = 0 /\ s \in es[i].orphans
  BY <1>2, <1>3
<1>5. \A i \in DOMAIN es : es[i].orphans \in SUBSET Procs
  BY <1>1 DEF Entry
<1>6. ExitIn(es) = {} <=> \A i \in DOMAIN es : es[i].n # 0
  BY <1>2
<1> QED BY <1>4, <1>5, <1>6

-----------------------------------------------------------------------------
(* Types. *)

LEMMA InitType == TreeAssumption /\ Init => TypeOK
<1> SUFFICES ASSUME TreeAssumption, Init PROVE TypeOK
  OBVIOUS
<1>1. Nobody \in Books /\ Nothing \in Boxes
  <2>1. <<>> \in Seq(Entry)
    OBVIOUS
  <2> QED BY <2>1 DEF Nobody, Nothing, Books, Boxes
<1>2. heard \in [Procs -> Seq(1..MaxEmits)]
  <2>1. <<>> \in Seq(1..MaxEmits)
    OBVIOUS
  <2> QED BY <2>1 DEF Init, Nothing
<1>3. emitted \in [Procs -> 0..MaxEmits]
  BY DEF Init, TreeAssumption
<1>4. st \in [Procs -> {"unborn", "running", "ending", "ended"}]
  BY DEF Init
<1>5. forced \in [Procs -> {"no", "asked", "escalated", "done", "threw"}]
  BY DEF Init
<1>6. dead \in [Procs -> BOOLEAN] /\ collector \in [Procs -> BOOLEAN]
  BY DEF Init
<1>7. off \in [Procs -> {"start", "return", "no"}] /\ lost \in [Procs -> SUBSET Loss]
  BY DEF Init, Nobody
<1> QED BY <1>1, <1>2, <1>3, <1>4, <1>5, <1>6, <1>7 DEF Init, TypeOK

\* What a hard kill leaves behind.
LEMMA ForceStopType ==
    ASSUME TypeOK, NEW p \in Procs, ForceStop(p)
    PROVE  /\ dead' \in [Procs -> BOOLEAN] /\ collector' \in [Procs -> BOOLEAN]
           /\ inbox' \in Boxes /\ pending' \in Boxes
           /\ owned' \in Books /\ watched' \in Books /\ cut' \subseteq Procs
           /\ off' \in [Procs -> {"start", "return", "no"}]
<1>1. <<>> \in Seq(Entry)
  OBVIOUS
<1>2. inbox' \in Boxes /\ pending' \in Boxes
  BY <1>1 DEF ForceStop, TypeOK, Boxes
<1>3. owned' \in Books /\ watched' \in Books /\ cut' \subseteq Procs
  BY DEF ForceStop, TypeOK, Books
<1>4. dead' \in [Procs -> BOOLEAN] /\ collector' \in [Procs -> BOOLEAN]
  BY DEF ForceStop, TypeOK
<1>5. off' \in [Procs -> {"start", "return", "no"}]
  BY DEF ForceStop, TypeOK
<1> QED BY <1>2, <1>3, <1>4, <1>5

LEMMA AskedTooType ==
    ASSUME TypeOK, NEW S
    PROVE  AskedToo(S) \in [Procs -> {"no", "asked", "escalated", "done", "threw"}]
BY DEF AskedToo, TypeOK

LEMMA AdoptType ==
    ASSUME TypeOK, NEW p \in Procs, NEW r \in Procs, Adopt(p, r)
    PROVE  /\ children' \in Books /\ orphans' \in Books /\ owned' \in Books
           /\ collector' \in [Procs -> BOOLEAN] /\ inbox' \in Boxes /\ pending' \in Boxes
           /\ cut' \subseteq Procs
<1>1. pending[r] \in Seq(Entry) /\ inbox[p] \in Seq(Entry) /\ <<>> \in Seq(Entry)
  BY DEF TypeOK, Boxes
<1>2. Left(pending[r]) \in SUBSET Procs
  BY <1>1, LeftType
<1>3. inbox[p] \o pending[r] \in Seq(Entry)
  BY <1>1
<1>4. inbox' \in Boxes /\ pending' \in Boxes
  BY <1>1, <1>3 DEF Adopt, TypeOK, Boxes
<1>5. children' \in Books /\ orphans' \in Books /\ owned' \in Books
  BY <1>2 DEF Adopt, TypeOK, Books
<1>6. collector' \in [Procs -> BOOLEAN] /\ cut' \subseteq Procs
  BY DEF Adopt, TypeOK
<1> QED BY <1>4, <1>5, <1>6

\* One lemma per handler.
LEMMA EmitType == ASSUME TreeAssumption, TypeOK, NEW r \in Procs, Emit(r) PROVE TypeOK'
<1> DEFINE e == Message(r, emitted[r] + 1, {})
<1>1. emitted[r] + 1 \in 0..MaxEmits
  BY DEF Emit, TypeOK, TreeAssumption
<1>2. e \in Entry
  BY <1>1, MessageType
<1>3. inbox' = Told(inbox, e) /\ pending' = Collected(pending, e)
  BY DEF Emit
<1> HIDE DEF e
<1>4. inbox' \in Boxes /\ pending' \in Boxes
  <2>1. inbox \in Boxes /\ pending \in Boxes
    BY DEF TypeOK
  <2> QED BY <1>2, <1>3, <2>1, ToldType, CollectedType
<1>5. emitted' \in [Procs -> 0..MaxEmits]
  BY <1>1 DEF Emit, TypeOK
<1> QED BY <1>4, <1>5 DEF Emit, TypeOK, family, ladder, Books

LEMMA TakeType == ASSUME TreeAssumption, TypeOK, NEW p \in Procs, Take(p) PROVE TypeOK'
<1> DEFINE e == Head(inbox[p])
<1>1. inbox[p] \in Seq(Entry) /\ inbox[p] # <<>>
  BY DEF Take, TypeOK, Boxes
<1>2. e \in Entry /\ Tail(inbox[p]) \in Seq(Entry)
  BY <1>1
<1>3. /\ inbox' = [inbox EXCEPT ![p] = Tail(@)]
      /\ deciding' = [deciding EXCEPT ![p] = e.orphans]
      /\ heard' = [heard EXCEPT ![e.from] = IF e.own /\ e.n > 0 THEN Append(@, e.n) ELSE @]
  BY DEF Take
<1> HIDE DEF e
<1>4. e.from \in Procs /\ e.orphans \in SUBSET Procs /\ e.n \in 0..MaxEmits
  BY <1>2 DEF Entry
<1>5. inbox' \in Boxes
  BY <1>2, <1>3 DEF TypeOK, Boxes
<1>6. deciding' \in Books
  BY <1>3, <1>4 DEF TypeOK, Books
<1>7. heard' \in [Procs -> Seq(1..MaxEmits)]
  <2>1. heard[e.from] \in Seq(1..MaxEmits)
    BY <1>4 DEF TypeOK
  <2>2. e.n > 0 => e.n \in 1..MaxEmits
    BY <1>4 DEF TreeAssumption
  <2>3. e.n > 0 => Append(heard[e.from], e.n) \in Seq(1..MaxEmits)
    BY <2>1, <2>2
  <2> QED BY <1>3, <1>4, <2>1, <2>3 DEF TypeOK
<1>8. UNCHANGED <<st, dead, family, collector, pending, awaiting, handing, forced, below,
                  emitted, lost, cut>>
  BY DEF Take
<1>9. off' \in [Procs -> {"start", "return", "no"}]
  BY DEF Take, TypeOK
<1> QED BY <1>5, <1>6, <1>7, <1>8, <1>9 DEF TypeOK, family

\* What a tick takes to no end.
LEMMA WasteType ==
    ASSUME TreeAssumption, TypeOK, NEW p \in Procs, inbox[p] # <<>>, Waste(p)
    PROVE  inbox' \in Boxes /\ lost' \in [Procs -> SUBSET Loss]
<1> DEFINE e == Head(inbox[p])
<1>1. inbox[p] \in Seq(Entry)
  BY DEF TypeOK, Boxes
<1>2. e \in Entry /\ Tail(inbox[p]) \in Seq(Entry)
  BY <1>1
<1>3. /\ inbox' = [inbox EXCEPT ![p] = Tail(@)]
      /\ lost' = [lost EXCEPT ![e.from] =
                     IF e.own /\ e.n > 0 THEN @ \cup {[n |-> e.n, by |-> p]} ELSE @]
  BY DEF Waste
<1> HIDE DEF e
<1>4. e.from \in Procs /\ e.n \in 0..MaxEmits
  BY <1>2 DEF Entry
<1>5. e.n > 0 => [n |-> e.n, by |-> p] \in Loss
  BY <1>4 DEF Loss, TreeAssumption
<1>6. inbox' \in Boxes
  BY <1>2, <1>3 DEF TypeOK, Boxes
<1>7. lost' \in [Procs -> SUBSET Loss]
  BY <1>3, <1>4, <1>5 DEF TypeOK
<1> QED BY <1>6, <1>7

LEMMA SwallowType == ASSUME TreeAssumption, TypeOK, NEW p \in Procs, Swallow(p) PROVE TypeOK'
<1>1. inbox' \in Boxes /\ lost' \in [Procs -> SUBSET Loss]
  BY WasteType DEF Swallow
<1>2. off' \in [Procs -> {"start", "return", "no"}]
  BY DEF Swallow, TypeOK
<1> QED BY <1>1, <1>2 DEF Swallow, TypeOK, family

LEMMA DropType == ASSUME TreeAssumption, TypeOK, NEW p \in Procs, Drop(p) PROVE TypeOK'
<1>1. inbox' \in Boxes /\ lost' \in [Procs -> SUBSET Loss]
  BY WasteType DEF Drop
<1> QED BY <1>1 DEF Drop, TypeOK, family, ladder

LEMMA ForkType == ASSUME TypeOK, NEW p \in Procs, Fork(p) PROVE TypeOK'
<1>1. PICK r \in Procs :
         /\ st' = [st EXCEPT ![r] = "running"]
         /\ children' = [children EXCEPT ![p] = @ \cup {r}]
         /\ owned' = [owned EXCEPT ![p] = @ \cup {r}]
  BY DEF Fork
<1>2. UNCHANGED <<dead, orphans, watched, inbox, collector, pending, deciding,
                  awaiting, handing, ladder, news>>
  BY DEF Fork
<1>3. children' \in Books /\ owned' \in Books
  BY <1>1 DEF TypeOK, Books
<1>4. st' \in [Procs -> {"unborn", "running", "ending", "ended"}]
  BY <1>1 DEF TypeOK
<1> QED BY <1>2, <1>3, <1>4 DEF TypeOK, ladder, news

LEMMA MonitorType == ASSUME TypeOK, NEW p \in Procs, NEW r \in Procs, Monitor(p, r) PROVE TypeOK'
BY DEF Monitor, TypeOK, ladder, news, Books

LEMMA KillType == ASSUME TypeOK, NEW p \in Procs, Kill(p) PROVE TypeOK'
<1>1. ForceStop(p)
  BY DEF Kill
<1>2. forced' \in [Procs -> {"no", "asked", "escalated", "done", "threw"}]
  <2>1. forced' = forced \/ forced' = AskedToo(children[p])
    BY DEF Kill
  <2>2. forced \in [Procs -> {"no", "asked", "escalated", "done", "threw"}]
    BY DEF TypeOK
  <2> QED BY <2>1, <2>2, AskedTooType
<1> QED BY <1>1, <1>2, ForceStopType DEF Kill, TypeOK

LEMMA AskForceType == ASSUME TypeOK, NEW p \in Procs, AskForce(p) PROVE TypeOK'
BY DEF AskForce, TypeOK, family, news

LEMMA EscalateType == ASSUME TypeOK, NEW p \in Procs, Escalate(p) PROVE TypeOK'
<1>1. forced' \in [Procs -> {"no", "asked", "escalated", "done", "threw"}]
  BY AskedTooType DEF Escalate
<1>2. below' \in Books
  BY DEF Escalate, TypeOK, Books
<1>3. off' \in [Procs -> {"start", "return", "no"}]
  BY DEF Escalate, TypeOK
<1> QED BY <1>1, <1>2, <1>3 DEF Escalate, TypeOK, family, news

LEMMA ForcedKillType == ASSUME TypeOK, NEW p \in Procs, ForcedKill(p) PROVE TypeOK'
<1>1. forced' \in [Procs -> {"no", "asked", "escalated", "done", "threw"}]
  BY DEF ForcedKill, TypeOK
<1>2. CASE dead[p]
  BY <1>1, <1>2 DEF ForcedKill, TypeOK
<1>3. CASE ~dead[p]
  <2>1. ForceStop(p)
    BY <1>3 DEF ForcedKill
  <2> QED BY <1>1, <2>1, ForceStopType DEF ForcedKill, TypeOK
<1> QED BY <1>2, <1>3

LEMMA ForceThrowsType == ASSUME TypeOK, NEW p \in Procs, ForceThrows(p) PROVE TypeOK'
BY DEF ForceThrows, TypeOK, family, news

LEMMA DecideType == ASSUME TypeOK, NEW p \in Procs, NEW r \in Procs, Decide(p, r) PROVE TypeOK'
<1>1. deciding' \in Books
  BY DEF Decide, TypeOK, Books
<1>2. UNCHANGED <<st, awaiting, handing, below, emitted, heard, lost>>
  BY DEF Decide
<1>3. CASE Adopt(p, r) /\ UNCHANGED <<dead, watched, forced, off>>
  BY <1>1, <1>2, <1>3, AdoptType DEF TypeOK
<1>4. CASE /\ orphans' = [orphans EXCEPT ![p] = @ \ {r}]
           /\ IF dead[r]
              THEN UNCHANGED <<dead, owned, watched, inbox, collector, pending, forced, off, cut>>
              ELSE ForceStop(r) /\ forced' = AskedToo(children[r])
           /\ UNCHANGED children
  <2>1. orphans' \in Books
    BY <1>4 DEF TypeOK, Books
  <2>2. CASE dead[r]
    BY <1>1, <1>2, <1>4, <2>1, <2>2 DEF TypeOK
  <2>3. CASE ~dead[r]
    BY <1>1, <1>2, <1>4, <2>1, <2>3, ForceStopType, AskedTooType DEF TypeOK
  <2> QED BY <2>2, <2>3
<1>5. CASE /\ collector' = [collector EXCEPT ![r] = FALSE]
           /\ pending' = [pending EXCEPT ![r] = <<>>]
           /\ cut' = cut \cup {r}
           /\ UNCHANGED <<dead, family, inbox, forced, off>>
  <2>1. pending' \in Boxes
    <3>1. <<>> \in Seq(Entry)
      OBVIOUS
    <3> QED BY <1>5, <3>1 DEF TypeOK, Boxes
  <2> QED BY <1>1, <1>2, <1>5, <2>1 DEF TypeOK, family
<1>6. CASE UNCHANGED <<dead, family, inbox, collector, pending, forced, off, cut>>
  BY <1>1, <1>2, <1>6 DEF TypeOK, family
<1> QED BY <1>3, <1>4, <1>5, <1>6 DEF Decide

LEMMA BeginEndType == ASSUME TypeOK, NEW p \in Procs, BeginEnd(p) PROVE TypeOK'
<1>1. off' \in [Procs -> {"start", "return", "no"}]
  BY DEF BeginEnd, TypeOK
<1>2. handing' \in Books /\ awaiting' \in Books /\ deciding' \in Books
  BY DEF BeginEnd, TypeOK, Books
<1>3. st' \in [Procs -> {"unborn", "running", "ending", "ended"}]
  BY DEF BeginEnd, TypeOK
<1> QED BY <1>1, <1>2, <1>3 DEF BeginEnd, TypeOK, family, news

LEMMA ChildStopsType == ASSUME TypeOK, NEW p \in Procs, NEW c \in Procs, ChildStops(p, c) PROVE TypeOK'
BY DEF ChildStops, TypeOK, family, ladder, news, Books

LEMMA ChildRefusesType == ASSUME TypeOK, NEW p \in Procs, NEW c \in Procs, ChildRefuses(p, c) PROVE TypeOK'
BY DEF ChildRefuses, TypeOK, family, ladder, news, Books

LEMMA ChildThrowsType == ASSUME TypeOK, NEW p \in Procs, NEW c \in Procs, ChildThrows(p, c) PROVE TypeOK'
BY DEF ChildThrows, TypeOK, family, news, Books

\* What the end of a process leaves in the boxes: its EXIT, told and collected, on top
\* of what the handoff moved.
FinalEntry(p) == Message(p, 0, handing[p])
Kept(p) == [inbox EXCEPT ![p] = Picked(@, From(@, Procs \ handing[p]))]

LEMMA FinishBoxes ==
    ASSUME TreeAssumption, TypeOK, NEW p \in Procs, Finish(p)
    PROVE  /\ FinalEntry(p) \in Entry /\ Kept(p) \in Boxes /\ BackFed(p) \in Boxes
           /\ inbox' = Told(Kept(p), FinalEntry(p))
           /\ pending' = Collected(BackFed(p), FinalEntry(p))
<1>1. FinalEntry(p) \in Entry
  <2>1. 0 \in 0..MaxEmits
    BY DEF TreeAssumption
  <2>2. handing[p] \in SUBSET Procs
    BY DEF TypeOK, Books
  <2> QED BY <2>1, <2>2, MessageType DEF FinalEntry
<1>2. Kept(p) \in Boxes
  <2>1. inbox[p] \in Seq(Entry)
    BY DEF TypeOK, Boxes
  <2>2. Picked(inbox[p], From(inbox[p], Procs \ handing[p])) \in Seq(Entry)
    BY <2>1, PartType
  <2> QED BY <2>2 DEF Kept, TypeOK, Boxes
<1>3. inbox' = Told(Kept(p), FinalEntry(p)) /\ pending' = Collected(BackFed(p), FinalEntry(p))
  BY DEF Finish, Kept, FinalEntry
<1> QED BY <1>1, <1>2, <1>3, BackFedType

LEMMA FinishType == ASSUME TreeAssumption, TypeOK, NEW p \in Procs, Finish(p) PROVE TypeOK'
<1>1. inbox' \in Boxes /\ pending' \in Boxes
  BY FinishBoxes, ToldType, CollectedType
<1>2. children' \in Books /\ orphans' \in Books /\ owned' \in Books /\ watched' \in Books
  BY DEF Finish, TypeOK, Books
<1>3. collector' \in [Procs -> BOOLEAN]
  BY DEF Finish, TypeOK, Books
<1>4. handing' \in Books
  BY DEF Finish, TypeOK, Books
<1>5. st' \in [Procs -> {"unborn", "running", "ending", "ended"}]
  BY DEF Finish, TypeOK
<1>6. off' \in [Procs -> {"start", "return", "no"}]
  BY DEF Finish, TypeOK
<1> QED BY <1>1, <1>2, <1>3, <1>4, <1>5, <1>6 DEF Finish, TypeOK, news

LEMMA NextType == TreeAssumption /\ TypeOK /\ [Next]_vars => TypeOK'
<1> SUFFICES ASSUME TreeAssumption, TypeOK, [Next]_vars PROVE TypeOK'
  OBVIOUS
<1>1. CASE UNCHANGED vars
  BY <1>1 DEF vars, TypeOK
<1>2. ASSUME NEW p \in Procs,
             \/ Emit(p) \/ Take(p) \/ Swallow(p) \/ Drop(p)
             \/ Fork(p) \/ BeginEnd(p) \/ Finish(p)
             \/ Kill(p) \/ AskForce(p) \/ Escalate(p) \/ ForcedKill(p) \/ ForceThrows(p)
      PROVE  TypeOK'
  BY <1>2, EmitType, TakeType, SwallowType, DropType, ForkType, BeginEndType, FinishType,
     KillType, AskForceType, EscalateType, ForcedKillType, ForceThrowsType
<1>3. ASSUME NEW p \in Procs, NEW r \in Procs,
             \/ Monitor(p, r) \/ Decide(p, r)
             \/ ChildStops(p, r) \/ ChildRefuses(p, r) \/ ChildThrows(p, r)
      PROVE  TypeOK'
  BY <1>3, MonitorType, DecideType, ChildStopsType, ChildRefusesType, ChildThrowsType
<1> QED BY <1>1, <1>2, <1>3 DEF Next

\* Every book, box, state and counter of every process keeps its type
\* (src/src/process.async.ts).
THEOREM TreeType == Spec => []TypeOK
<1>1. Init => TypeOK
  BY InitType, TreeAssumption
<1>2. TypeOK /\ [Next]_vars => TypeOK'
  BY NextType, TreeAssumption
<1> QED BY <1>1, <1>2, PTL DEF Spec

-----------------------------------------------------------------------------
(* Whoever is not forked yet is in no book and no box, and has none.         *)

Clean(es, r) == \A i \in DOMAIN es : es[i].from # r /\ r \notin es[i].orphans

Absent(r) ==
    \A p \in Procs :
        /\ r \notin children[p] /\ r \notin orphans[p] /\ r \notin owned[p]
        /\ r \notin deciding[p] /\ r \notin awaiting[p] /\ r \notin handing[p]
        /\ Clean(inbox[p], r) /\ Clean(pending[p], r)

Blank(r) ==
    /\ children[r] = {} /\ orphans[r] = {} /\ owned[r] = {} /\ watched[r] = {}
    /\ deciding[r] = {} /\ awaiting[r] = {} /\ handing[r] = {}
    /\ inbox[r] = <<>> /\ pending[r] = <<>> /\ ~collector[r] /\ ~dead[r]
    /\ emitted[r] = 0 /\ heard[r] = <<>> /\ lost[r] = {} /\ forced[r] = "no"

UnbornClean == \A r \in Procs : st[r] = "unborn" => Absent(r) /\ Blank(r)

\* The indices of a concatenation.
LEMMA ConcatIndices ==
    ASSUME NEW S, NEW es \in Seq(S), NEW fs \in Seq(S)
    PROVE  /\ Len(es) \in Nat /\ Len(fs) \in Nat
           /\ DOMAIN es = 1..Len(es) /\ DOMAIN fs = 1..Len(fs)
           /\ es \o fs \in Seq(S) /\ Len(es \o fs) = Len(es) + Len(fs)
           /\ DOMAIN (es \o fs) = 1..(Len(es) + Len(fs))
           /\ \A i \in DOMAIN es : i \in DOMAIN (es \o fs) /\ (es \o fs)[i] = es[i]
           /\ \A i \in DOMAIN fs : Len(es) + i \in DOMAIN (es \o fs) /\ (es \o fs)[Len(es) + i] = fs[i]
           /\ \A i \in DOMAIN (es \o fs) : i \in DOMAIN es \/ i - Len(es) \in DOMAIN fs
           /\ \A i \in DOMAIN (es \o fs) : i \notin DOMAIN es => (es \o fs)[i] = fs[i - Len(es)]
<1>1. /\ Len(es) \in Nat /\ Len(fs) \in Nat
      /\ DOMAIN es = 1..Len(es) /\ DOMAIN fs = 1..Len(fs)
      /\ es \o fs \in Seq(S) /\ Len(es \o fs) = Len(es) + Len(fs)
      /\ DOMAIN (es \o fs) = 1..(Len(es) + Len(fs))
  OBVIOUS
<1>2. \A i \in 1..(Len(es) + Len(fs)) :
         (es \o fs)[i] = IF i \leq Len(es) THEN es[i] ELSE fs[i - Len(es)]
  OBVIOUS
<1>3. ASSUME NEW i \in DOMAIN es PROVE i \in DOMAIN (es \o fs) /\ (es \o fs)[i] = es[i]
  BY <1>1, <1>2
<1>4. ASSUME NEW i \in DOMAIN fs
      PROVE  Len(es) + i \in DOMAIN (es \o fs) /\ (es \o fs)[Len(es) + i] = fs[i]
  <2>1. i \in Nat /\ i >= 1 /\ i \leq Len(fs)
    BY <1>1
  <2>2. Len(es) + i \in 1..(Len(es) + Len(fs)) /\ ~(Len(es) + i \leq Len(es)) /\ Len(es) + i - Len(es) = i
    BY <1>1, <2>1
  <2> QED BY <1>1, <1>2, <2>2
<1>5. ASSUME NEW i \in DOMAIN (es \o fs), i \notin DOMAIN es
      PROVE  i - Len(es) \in DOMAIN fs /\ (es \o fs)[i] = fs[i - Len(es)]
  BY <1>1, <1>2, <1>5
<1> QED BY <1>1, <1>3, <1>4, <1>5

LEMMA CleanConcat ==
    ASSUME NEW es \in Seq(Entry), NEW fs \in Seq(Entry), NEW r
    PROVE  Clean(es \o fs, r) <=> Clean(es, r) /\ Clean(fs, r)
<1> DEFINE gs == es \o fs
<1>1. /\ \A i \in DOMAIN es : i \in DOMAIN gs /\ gs[i] = es[i]
      /\ \A i \in DOMAIN fs : Len(es) + i \in DOMAIN gs /\ gs[Len(es) + i] = fs[i]
      /\ \A i \in DOMAIN gs : i \in DOMAIN es \/ i - Len(es) \in DOMAIN fs
      /\ \A i \in DOMAIN gs : i \notin DOMAIN es => gs[i] = fs[i - Len(es)]
  BY ConcatIndices
<1> HIDE DEF gs
<1>2. Clean(gs, r) => Clean(es, r) /\ Clean(fs, r)
  BY <1>1 DEF Clean
<1>3. Clean(es, r) /\ Clean(fs, r) => Clean(gs, r)
  BY <1>1 DEF Clean
<1> QED BY <1>2, <1>3 DEF gs

LEMMA CleanTail ==
    ASSUME NEW es \in Seq(Entry), NEW r, es # <<>>, Clean(es, r)
    PROVE  Clean(Tail(es), r) /\ Head(es).from # r /\ r \notin Head(es).orphans
<1>1. /\ Len(es) \in Nat /\ Len(es) >= 1 /\ DOMAIN es = 1..Len(es)
      /\ DOMAIN Tail(es) = 1..(Len(es) - 1) /\ Head(es) = es[1]
      /\ \A i \in 1..(Len(es) - 1) : Tail(es)[i] = es[i + 1]
  OBVIOUS
<1>2. \A i \in 1..(Len(es) - 1) : i + 1 \in DOMAIN es
  BY <1>1
<1>3. 1 \in DOMAIN es
  BY <1>1
<1> QED BY <1>1, <1>2, <1>3 DEF Clean

LEMMA CleanPart ==
    ASSUME NEW es \in Seq(Entry), NEW S, NEW r, Clean(es, r)
    PROVE  Clean(Picked(es, From(es, S)), r)
<1> DEFINE I == From(es, S)
<1>1. I \in SUBSET DOMAIN es
  BY PartType
<1> HIDE DEF I
<1>2. PICK at \in [1..Cardinality(I) -> I] :
         \A k \in 1..Cardinality(I) : Picked(es, I)[k] = es[at[k]]
  BY <1>1, PickedFacts
<1>3. DOMAIN Picked(es, I) = 1..Cardinality(I)
  BY <1>1, PickedFacts
<1>4. \A k \in 1..Cardinality(I) : at[k] \in DOMAIN es
  BY <1>1
<1>5. Clean(Picked(es, I), r)
  BY <1>2, <1>3, <1>4 DEF Clean
<1> QED BY <1>5 DEF I

LEMMA CleanUnread ==
    ASSUME TypeOK, NEW p \in Procs, NEW r \in Procs, NEW s, Clean(inbox[p], s)
    PROVE  Clean(Unread(p, r), s)
<1> DEFINE es == Picked(inbox[p], From(inbox[p], {r}))
<1>1. inbox[p] \in Seq(Entry)
  BY DEF TypeOK, Boxes
<1>2. es \in Seq(Entry) /\ Clean(es, s)
  BY <1>1, PartType, CleanPart
<1>3. Unread(p, r) = [i \in DOMAIN es |-> [es[i] EXCEPT !.own = TRUE]]
  BY DEF Unread
<1> HIDE DEF es
<1>4. ASSUME NEW i \in DOMAIN es
      PROVE  Unread(p, r)[i].from = es[i].from /\ Unread(p, r)[i].orphans = es[i].orphans
  <2>1. es[i] \in Entry
    BY <1>2
  <2>2. Unread(p, r)[i] = [es[i] EXCEPT !.own = TRUE]
    BY <1>3
  <2> QED BY <2>1, <2>2 DEF Entry
<1>5. DOMAIN Unread(p, r) = DOMAIN es
  BY <1>3
<1> QED BY <1>2, <1>4, <1>5 DEF Clean

\* Telling an entry that has nothing of r leaves the boxes clean of r, and the
\* boxes of whoever subscribes to nobody alone.
LEMMA CleanTold ==
    ASSUME TypeOK, NEW boxes \in Boxes, NEW e \in Entry, NEW r, e.from # r, r \notin e.orphans,
           \A p \in Procs : Clean(boxes[p], r)
    PROVE  \A p \in Procs : Clean(Told(boxes, e)[p], r)
<1>1. ASSUME NEW p \in Procs PROVE Clean(Told(boxes, e)[p], r)
  <2> DEFINE f == [e EXCEPT !.own = FALSE]
             a == IF e.from \in owned[p] /\ ~dead[p] THEN <<e>> ELSE <<>>
             b == IF e.from \in watched[p] /\ ~dead[p] THEN <<f>> ELSE <<>>
  <2>1. f \in Entry /\ f.from = e.from /\ f.orphans = e.orphans
    BY DEF Entry
  <2>2. Copies(p, e) = a \o b
    BY DEF Copies
  <2> HIDE DEF f
  <2>3. a \in Seq(Entry) /\ b \in Seq(Entry)
    BY <2>1
  <2>4. Clean(a, r) /\ Clean(b, r)
    <3>1. Clean(<<e>>, r) /\ Clean(<<f>>, r) /\ Clean(<<>>, r)
      BY <2>1 DEF Clean
    <3> QED BY <3>1
  <2> HIDE DEF a, b
  <2>5. Copies(p, e) \in Seq(Entry) /\ Clean(Copies(p, e), r)
    BY <2>2, <2>3, <2>4, CleanConcat
  <2>6. boxes[p] \in Seq(Entry) /\ Clean(boxes[p], r)
    BY DEF Boxes
  <2>7. Clean(boxes[p] \o Copies(p, e), r)
    BY <2>5, <2>6, CleanConcat
  <2> QED BY <2>7, ToldType
<1> QED BY <1>1

LEMMA NothingTold ==
    ASSUME TypeOK, NEW boxes \in Boxes, NEW e \in Entry, NEW r \in Procs, owned[r] = {}, watched[r] = {}
    PROVE  Told(boxes, e)[r] = boxes[r]
<1>1. Copies(r, e) = <<>> \o <<>>
  BY DEF Copies
<1>2. <<>> \o <<>> = <<>>
  OBVIOUS
<1>3. boxes[r] \in Seq(Entry)
  BY DEF Boxes
<1>4. boxes[r] \o <<>> = boxes[r]
  BY <1>3
<1>5. Copies(r, e) = <<>>
  BY <1>1, <1>2
<1>6. Told(boxes, e)[r] = boxes[r] \o Copies(r, e)
  BY ToldType
<1> QED BY <1>4, <1>5, <1>6

LEMMA CleanCollected ==
    ASSUME NEW held \in Boxes, NEW e \in Entry, NEW r, e.from # r, r \notin e.orphans,
           \A p \in Procs : Clean(held[p], r)
    PROVE  /\ \A p \in Procs : Clean(Collected(held, e)[p], r)
           /\ r \in Procs => Collected(held, e)[r] = held[r]
<1>1. e.from \in Procs
  BY DEF Entry
<1>2. held[e.from] \in Seq(Entry)
  BY <1>1 DEF Boxes
<1>3. Append(held[e.from], e) = held[e.from] \o <<e>> /\ <<e>> \in Seq(Entry)
  BY <1>2
<1>4. Clean(<<e>>, r)
  BY DEF Clean
<1>5. Clean(Append(held[e.from], e), r)
  <2>1. Clean(held[e.from], r)
    BY <1>1
  <2>2. Clean(held[e.from] \o <<e>>, r)
    BY <1>2, <1>3, <1>4, <2>1, CleanConcat
  <2> QED BY <1>3, <2>2
<1>6. \A p \in Procs : Collected(held, e)[p] =
         IF p = e.from /\ collector[e.from] THEN Append(held[e.from], e) ELSE held[p]
  BY <1>1 DEF Collected, Boxes
<1> QED BY <1>5, <1>6

LEMMA CleanLeft ==
    ASSUME NEW es \in Seq(Entry), NEW r, Clean(es, r)
    PROVE  r \notin Left(es)
BY LeftType DEF Clean

LEMMA CleanEmpty == \A r : Clean(<<>>, r)
BY DEF Clean

\* One lemma per handler.
LEMMA InitClean == TreeAssumption /\ Init => UnbornClean
<1> SUFFICES ASSUME TreeAssumption, Init PROVE UnbornClean
  OBVIOUS
<1>1. ASSUME NEW r \in Procs PROVE Absent(r)
  <2>1. \A p \in Procs : Nobody[p] = {} /\ Nothing[p] = <<>>
    BY DEF Nobody, Nothing
  <2> QED BY <2>1, CleanEmpty DEF Absent, Init
<1>2. ASSUME NEW r \in Procs PROVE Blank(r)
  <2>1. Nobody[r] = {} /\ Nothing[r] = <<>>
    BY DEF Nobody, Nothing
  <2> QED BY <2>1 DEF Blank, Init
<1> QED BY <1>1, <1>2 DEF UnbornClean

LEMMA EmitClean ==
    ASSUME TreeAssumption, TypeOK, UnbornClean, NEW p \in Procs, Emit(p)
    PROVE  UnbornClean'
<1> SUFFICES ASSUME NEW r \in Procs, st'[r] = "unborn" PROVE Absent(r)' /\ Blank(r)'
  BY DEF UnbornClean
<1>1. st[r] = "unborn" /\ Absent(r) /\ Blank(r) /\ p # r
  BY DEF Emit, UnbornClean, Live
<1> DEFINE e == Message(p, emitted[p] + 1, {})
<1>2. e \in Entry /\ e.from = p /\ e.orphans = {}
  <2>1. emitted[p] + 1 \in 0..MaxEmits
    BY DEF Emit, TypeOK, TreeAssumption
  <2> QED BY <2>1, MessageType DEF Message
<1>3. inbox' = Told(inbox, e) /\ pending' = Collected(pending, e)
  BY DEF Emit
<1>4. inbox \in Boxes /\ pending \in Boxes
  BY DEF TypeOK
<1> HIDE DEF e
<1>5. \A q \in Procs : Clean(inbox'[q], r) /\ Clean(pending'[q], r)
  BY <1>1, <1>2, <1>3, <1>4, CleanTold, CleanCollected DEF Absent
<1>6. inbox'[r] = inbox[r] /\ pending'[r] = pending[r]
  BY <1>1, <1>2, <1>3, <1>4, NothingTold, CleanCollected DEF Absent, Blank
<1>7. emitted'[r] = emitted[r]
  BY <1>1 DEF Emit, TypeOK
<1>8. UNCHANGED <<dead, children, orphans, owned, watched, collector, deciding, awaiting, handing,
                  heard, lost, forced>>
  BY DEF Emit, family, ladder
<1>9. Absent(r)'
  BY <1>1, <1>5, <1>8 DEF Absent
<1>10. Blank(r)'
  BY <1>1, <1>6, <1>7, <1>8 DEF Blank
<1> QED BY <1>9, <1>10

LEMMA TakeClean ==
    ASSUME TypeOK, UnbornClean, NEW p \in Procs, Take(p)
    PROVE  UnbornClean'
<1> SUFFICES ASSUME NEW r \in Procs, st'[r] = "unborn" PROVE Absent(r)' /\ Blank(r)'
  BY DEF UnbornClean
<1>1. st[r] = "unborn" /\ Absent(r) /\ Blank(r) /\ p # r
  BY DEF Take, UnbornClean
<1> DEFINE e == Head(inbox[p])
<1>2. inbox[p] \in Seq(Entry) /\ inbox[p] # <<>> /\ Clean(inbox[p], r)
  BY <1>1 DEF Take, TypeOK, Boxes, Absent
<1>3. e.from # r /\ r \notin e.orphans /\ Clean(Tail(inbox[p]), r)
  BY <1>2, CleanTail
<1>4. e \in Entry
  BY <1>2
<1>5. /\ inbox' = [inbox EXCEPT ![p] = Tail(@)]
      /\ deciding' = [deciding EXCEPT ![p] = e.orphans]
      /\ heard' = [heard EXCEPT ![e.from] = IF e.own /\ e.n > 0 THEN Append(@, e.n) ELSE @]
      /\ UNCHANGED <<dead, children, orphans, owned, watched, collector, pending, awaiting,
                     handing, emitted, lost, forced>>
  BY DEF Take, family
<1> HIDE DEF e
<1>6. Absent(r)'
  BY <1>1, <1>3, <1>5 DEF Absent, TypeOK, Boxes, Books
<1>7. Blank(r)'
  BY <1>1, <1>3, <1>5 DEF Blank, TypeOK, Boxes, Books
<1> QED BY <1>6, <1>7

LEMMA WasteClean ==
    ASSUME TypeOK, UnbornClean, NEW p \in Procs, Swallow(p) \/ Drop(p)
    PROVE  UnbornClean'
<1> SUFFICES ASSUME NEW r \in Procs, st'[r] = "unborn" PROVE Absent(r)' /\ Blank(r)'
  BY DEF UnbornClean
<1>1. st[r] = "unborn" /\ Absent(r) /\ Blank(r) /\ p # r
  BY DEF Swallow, Drop, UnbornClean
<1> DEFINE e == Head(inbox[p])
<1>2. inbox[p] \in Seq(Entry) /\ inbox[p] # <<>> /\ Clean(inbox[p], r)
  BY <1>1 DEF Swallow, Drop, TypeOK, Boxes, Absent
<1>3. e.from # r /\ Clean(Tail(inbox[p]), r)
  BY <1>2, CleanTail
<1>4. /\ inbox' = [inbox EXCEPT ![p] = Tail(@)]
      /\ lost' = [lost EXCEPT ![e.from] =
                     IF e.own /\ e.n > 0 THEN @ \cup {[n |-> e.n, by |-> p]} ELSE @]
      /\ UNCHANGED <<dead, children, orphans, owned, watched, collector, pending, deciding,
                     awaiting, handing, emitted, heard, forced>>
  BY DEF Swallow, Drop, Waste, family, ladder
<1> HIDE DEF e
<1>5. lost'[r] = lost[r]
  BY <1>3, <1>4 DEF TypeOK
<1>6. Absent(r)'
  BY <1>1, <1>3, <1>4 DEF Absent, TypeOK, Boxes
<1>7. Blank(r)'
  BY <1>1, <1>4, <1>5 DEF Blank, TypeOK, Boxes
<1> QED BY <1>6, <1>7

LEMMA ForkClean ==
    ASSUME TypeOK, UnbornClean, NEW p \in Procs, Fork(p)
    PROVE  UnbornClean'
<1>1. PICK c \in Procs :
         /\ st[c] = "unborn"
         /\ st' = [st EXCEPT ![c] = "running"]
         /\ children' = [children EXCEPT ![p] = @ \cup {c}]
         /\ owned' = [owned EXCEPT ![p] = @ \cup {c}]
  BY DEF Fork
<1>2. st[p] = "running"
  BY DEF Fork
<1>3. UNCHANGED <<dead, orphans, watched, inbox, collector, pending, deciding, awaiting,
                  handing, emitted, heard, lost, forced>>
  BY DEF Fork, news, ladder
<1> SUFFICES ASSUME NEW r \in Procs, st'[r] = "unborn" PROVE Absent(r)' /\ Blank(r)'
  BY DEF UnbornClean
<1>4. st[r] = "unborn" /\ r # c /\ r # p /\ Absent(r) /\ Blank(r)
  <2>1. r # c /\ st[r] = "unborn"
    BY <1>1 DEF TypeOK
  <2> QED BY <1>2, <2>1 DEF UnbornClean
<1>5. Absent(r)'
  BY <1>1, <1>3, <1>4 DEF Absent, TypeOK, Books
<1>6. Blank(r)'
  BY <1>1, <1>3, <1>4 DEF Blank, TypeOK, Books
<1> QED BY <1>5, <1>6

LEMMA MonitorClean ==
    ASSUME TypeOK, UnbornClean, NEW p \in Procs, NEW c \in Procs, Monitor(p, c)
    PROVE  UnbornClean'
<1> SUFFICES ASSUME NEW r \in Procs, st'[r] = "unborn" PROVE Absent(r)' /\ Blank(r)'
  BY DEF UnbornClean
<1>1. st[r] = "unborn" /\ Absent(r) /\ Blank(r) /\ p # r
  BY DEF Monitor, UnbornClean
<1>2. Absent(r)'
  BY <1>1 DEF Monitor, Absent, news
<1>3. Blank(r)'
  BY <1>1 DEF Monitor, Blank, news, ladder, TypeOK, Books
<1> QED BY <1>2, <1>3

\* A hard kill takes, and gives nothing.
LEMMA ForceStopClean ==
    ASSUME TypeOK, NEW p \in Procs, ForceStop(p), NEW r \in Procs, r # p, Absent(r), Blank(r),
           UNCHANGED <<deciding, awaiting, handing, emitted, heard, lost>>, forced'[r] = forced[r],
           \A q \in Procs : children'[q] \subseteq children[q] /\ orphans'[q] \subseteq orphans[q]
    PROVE  Absent(r)' /\ Blank(r)'
<1>1. \A q \in Procs : /\ owned'[q] \subseteq owned[q] /\ watched'[q] \subseteq watched[q]
                       /\ inbox'[q] \in {inbox[q], <<>>} /\ pending'[q] \in {pending[q], <<>>}
  BY DEF ForceStop, TypeOK, Books, Boxes
<1>2. ~collector'[r] /\ ~dead'[r]
  BY DEF ForceStop, TypeOK, Blank
<1>3. Absent(r)'
  BY <1>1, CleanEmpty DEF Absent
<1>4. Blank(r)'
  BY <1>1, <1>2 DEF Blank
<1> QED BY <1>3, <1>4

\* The ladder turns to nobody that is not there.
LEMMA AskedTooAbsent ==
    ASSUME NEW p \in Procs, NEW r \in Procs, Absent(r)
    PROVE  AskedToo(children[p])[r] = forced[r]
BY DEF AskedToo, Absent

LEMMA KillClean ==
    ASSUME TypeOK, UnbornClean, NEW p \in Procs, Kill(p)
    PROVE  UnbornClean'
<1> SUFFICES ASSUME NEW r \in Procs, st'[r] = "unborn" PROVE Absent(r)' /\ Blank(r)'
  BY DEF UnbornClean
<1>1. Absent(r) /\ Blank(r) /\ p # r
  BY DEF Kill, UnbornClean, Live
<1>2. ForceStop(p) /\ UNCHANGED <<children, orphans, deciding, awaiting, handing, emitted, heard, lost>>
  BY DEF Kill
<1>3. forced'[r] = forced[r]
  BY <1>1, AskedTooAbsent DEF Kill
<1> QED BY <1>1, <1>2, <1>3, ForceStopClean

LEMMA LadderClean ==
    ASSUME TypeOK, UnbornClean, NEW p \in Procs, AskForce(p) \/ Escalate(p) \/ ForceThrows(p)
    PROVE  UnbornClean'
<1> SUFFICES ASSUME NEW r \in Procs, st'[r] = "unborn" PROVE Absent(r)' /\ Blank(r)'
  BY DEF UnbornClean
<1>1. UNCHANGED <<st, dead, children, orphans, owned, watched, inbox, collector, pending,
                  deciding, awaiting, handing, emitted, heard, lost>>
  BY DEF AskForce, Escalate, ForceThrows, family, news
<1>2. Absent(r) /\ Blank(r) /\ p # r
  <2>1. Absent(r) /\ Blank(r)
    BY <1>1 DEF UnbornClean
  <2>2. st[p] # "unborn"
    BY DEF AskForce, Escalate, ForceThrows, Live, UnbornClean, Blank
  <2> QED BY <1>1, <2>1, <2>2
<1>3. forced'[r] = forced[r]
  <2>1. CASE AskForce(p)
    BY <1>2, <2>1 DEF AskForce, TypeOK
  <2>2. CASE Escalate(p)
    <3>1. AskedToo(children[p])[r] = forced[r]
      BY <1>2, AskedTooAbsent
    <3> QED BY <1>2, <2>2, <3>1 DEF Escalate, AskedToo
  <2>3. CASE ForceThrows(p)
    BY <1>2, <2>3 DEF ForceThrows, TypeOK
  <2> QED BY <2>1, <2>2, <2>3
<1>4. Absent(r)'
  BY <1>1, <1>2 DEF Absent
<1>5. Blank(r)'
  BY <1>1, <1>2, <1>3 DEF Blank
<1> QED BY <1>4, <1>5

LEMMA ForcedKillClean ==
    ASSUME TypeOK, UnbornClean, NEW p \in Procs, ForcedKill(p)
    PROVE  UnbornClean'
<1> SUFFICES ASSUME NEW r \in Procs, st'[r] = "unborn" PROVE Absent(r)' /\ Blank(r)'
  BY DEF UnbornClean
<1>1. Absent(r) /\ Blank(r) /\ p # r
  BY DEF ForcedKill, UnbornClean, Blank
<1>2. /\ UNCHANGED <<children, orphans, deciding, awaiting, handing, emitted, heard, lost>>
      /\ forced'[r] = forced[r]
  BY <1>1 DEF ForcedKill, TypeOK
<1>3. CASE dead[p]
  BY <1>1, <1>2, <1>3 DEF ForcedKill, Absent, Blank
<1>4. CASE ~dead[p]
  <2>1. ForceStop(p)
    BY <1>4 DEF ForcedKill
  <2> QED BY <1>1, <1>2, <2>1, ForceStopClean
<1> QED BY <1>3, <1>4

LEMMA DecideClean ==
    ASSUME TypeOK, UnbornClean, NEW p \in Procs, NEW c \in Procs, Decide(p, c)
    PROVE  UnbornClean'
<1> SUFFICES ASSUME NEW r \in Procs, st'[r] = "unborn" PROVE Absent(r)' /\ Blank(r)'
  BY DEF UnbornClean
<1>1. Absent(r) /\ Blank(r) /\ p # r /\ c # r
  BY DEF Decide, UnbornClean, Absent
<1>2. /\ UNCHANGED <<st, awaiting, handing, below, emitted, heard, lost>>
      /\ \A q \in Procs : deciding'[q] \subseteq deciding[q]
  BY DEF Decide, TypeOK, Books
<1>3. CASE Adopt(p, c) /\ UNCHANGED <<dead, watched, forced, off>>
  <2>1. pending[c] \in Seq(Entry) /\ Clean(pending[c], r) /\ inbox[p] \in Seq(Entry) /\ Clean(inbox[p], r)
    BY <1>1 DEF TypeOK, Boxes, Absent
  <2>2. r \notin Left(pending[c])
    BY <2>1, CleanLeft
  <2>3. Clean(inbox[p] \o pending[c], r)
    BY <2>1, CleanConcat
  <2>4. /\ \A q \in Procs : /\ r \notin children'[q] /\ r \notin orphans'[q] /\ r \notin owned'[q]
                            /\ Clean(inbox'[q], r) /\ Clean(pending'[q], r)
    BY <1>1, <1>3, <2>2, <2>3, CleanEmpty DEF Adopt, Absent, TypeOK, Books, Boxes
  <2>5. /\ children'[r] = children[r] /\ orphans'[r] = orphans[r] /\ owned'[r] = owned[r]
        /\ inbox'[r] = inbox[r] /\ pending'[r] = pending[r] /\ collector'[r] = collector[r]
    BY <1>1, <1>3 DEF Adopt, TypeOK, Books, Boxes
  <2>6. Absent(r)'
    BY <1>1, <1>2, <2>4 DEF Absent
  <2>7. Blank(r)'
    BY <1>1, <1>2, <1>3, <2>5 DEF Blank
  <2> QED BY <2>6, <2>7
<1>4. CASE /\ orphans' = [orphans EXCEPT ![p] = @ \ {c}]
           /\ IF dead[c]
              THEN UNCHANGED <<dead, owned, watched, inbox, collector, pending, forced, off, cut>>
              ELSE ForceStop(c) /\ forced' = AskedToo(children[c])
           /\ UNCHANGED children
  <2>1. \A q \in Procs : orphans'[q] \subseteq orphans[q]
    BY <1>4 DEF TypeOK, Books
  <2>2. CASE dead[c]
    <3>1. Absent(r)'
      BY <1>1, <1>2, <1>4, <2>1, <2>2 DEF Absent
    <3>2. Blank(r)'
      BY <1>1, <1>2, <1>4, <2>1, <2>2 DEF Blank
    <3> QED BY <3>1, <3>2
  <2>3. CASE ~dead[c]
    <3>1. forced'[r] = forced[r]
      BY <1>1, <1>4, <2>3, AskedTooAbsent
    <3>2. \A q \in Procs : owned'[q] \subseteq owned[q] /\ watched'[q] \subseteq watched[q]
                       /\ inbox'[q] \in {inbox[q], <<>>} /\ pending'[q] \in {pending[q], <<>>}
      <4>1. ForceStop(c)
        BY <1>4, <2>3
      <4>2. \A q \in Procs : owned'[q] \subseteq owned[q] /\ watched'[q] \subseteq watched[q]
        BY <4>1 DEF ForceStop
      <4>3. \A q \in Procs : inbox'[q] \in {inbox[q], <<>>}
        BY <4>1 DEF ForceStop, TypeOK, Boxes
      <4>4. \A q \in Procs : pending'[q] \in {pending[q], <<>>}
        BY <4>1 DEF ForceStop, TypeOK, Boxes
      <4> QED BY <4>2, <4>3, <4>4
    <3>3. ~collector'[r] /\ ~dead'[r]
      BY <1>1, <1>4, <2>3 DEF ForceStop, TypeOK, Blank
    <3>4. Absent(r)'
      BY <1>1, <1>2, <1>4, <2>1, <3>2, CleanEmpty DEF Absent
    <3>5. Blank(r)'
      BY <1>1, <1>2, <1>4, <2>1, <3>1, <3>2, <3>3 DEF Blank
    <3> QED BY <3>4, <3>5
  <2> QED BY <2>2, <2>3
<1>5. CASE /\ collector' = [collector EXCEPT ![c] = FALSE]
           /\ pending' = [pending EXCEPT ![c] = <<>>]
           /\ cut' = cut \cup {c}
           /\ UNCHANGED <<dead, family, inbox, forced, off>>
  <2>1. \A q \in Procs : pending'[q] \in {pending[q], <<>>}
    BY <1>5 DEF TypeOK, Boxes
  <2>2. collector'[r] = collector[r]
    BY <1>1, <1>5 DEF TypeOK
  <2>3. Absent(r)'
    BY <1>1, <1>2, <1>5, <2>1, CleanEmpty DEF Absent, family
  <2>4. Blank(r)'
    BY <1>1, <1>2, <1>5, <2>1, <2>2 DEF Blank, family
  <2> QED BY <2>3, <2>4
<1>6. CASE UNCHANGED <<dead, family, inbox, collector, pending, forced, off, cut>>
  <2>1. Absent(r)'
    BY <1>1, <1>2, <1>6 DEF Absent, family
  <2>2. Blank(r)'
    BY <1>1, <1>2, <1>6 DEF Blank, family
  <2> QED BY <2>1, <2>2
<1> QED BY <1>3, <1>4, <1>5, <1>6 DEF Decide

\* The steps of the finally block before its last.
LEMMA EndingClean ==
    ASSUME TypeOK, UnbornClean, NEW p \in Procs, NEW c \in Procs,
           BeginEnd(p) \/ ChildStops(p, c) \/ ChildRefuses(p, c) \/ ChildThrows(p, c)
    PROVE  UnbornClean'
<1> SUFFICES ASSUME NEW r \in Procs, st'[r] = "unborn" PROVE Absent(r)' /\ Blank(r)'
  BY DEF UnbornClean
<1>1. Absent(r) /\ Blank(r) /\ p # r /\ c \in Procs
  <2>1. st[r] = "unborn"
    BY DEF BeginEnd, ChildStops, ChildRefuses, ChildThrows, TypeOK
  <2>2. Absent(r) /\ Blank(r)
    BY <2>1 DEF UnbornClean
  <2>3. p # r
    BY <2>1, <2>2 DEF BeginEnd, ChildStops, ChildRefuses, ChildThrows, Blank
  <2> QED BY <2>2, <2>3
<1>2. UNCHANGED <<dead, children, orphans, owned, watched, inbox, collector, pending, emitted,
                  heard, lost, forced>>
  BY DEF BeginEnd, ChildStops, ChildRefuses, ChildThrows, family, ladder, news
<1>3. /\ \A q \in Procs : r \notin deciding'[q] /\ r \notin awaiting'[q] /\ r \notin handing'[q]
      /\ deciding'[r] = deciding[r] /\ awaiting'[r] = awaiting[r] /\ handing'[r] = handing[r]
  <2>1. CASE BeginEnd(p)
    BY <1>1, <2>1 DEF BeginEnd, Absent, TypeOK, Books
  <2>2. CASE ChildStops(p, c)
    BY <1>1, <2>2 DEF ChildStops, Absent, TypeOK, Books
  <2>3. CASE ChildRefuses(p, c)
    BY <1>1, <2>3 DEF ChildRefuses, Absent, TypeOK, Books
  <2>4. CASE ChildThrows(p, c)
    BY <1>1, <2>4 DEF ChildThrows, Absent, TypeOK, Books
  <2> QED BY <2>1, <2>2, <2>3, <2>4
<1>4. Absent(r)'
  BY <1>1, <1>2, <1>3 DEF Absent
<1>5. Blank(r)'
  BY <1>1, <1>2, <1>3 DEF Blank
<1> QED BY <1>4, <1>5

LEMMA FinishClean ==
    ASSUME TreeAssumption, TypeOK, UnbornClean, NEW p \in Procs, Finish(p)
    PROVE  UnbornClean'
<1> SUFFICES ASSUME NEW r \in Procs, st'[r] = "unborn" PROVE Absent(r)' /\ Blank(r)'
  BY DEF UnbornClean
<1>1. Absent(r) /\ Blank(r) /\ p # r
  <2>1. st[p] = "ending" /\ st[r] = "unborn"
    BY DEF Finish, TypeOK
  <2> QED BY <2>1 DEF UnbornClean
<1> DEFINE e == FinalEntry(p)
<1>2. e.from # r /\ r \notin e.orphans /\ e.from = p
  BY <1>1 DEF FinalEntry, Message, Absent
<1>3. /\ e \in Entry /\ Kept(p) \in Boxes /\ BackFed(p) \in Boxes
      /\ inbox' = Told(Kept(p), e) /\ pending' = Collected(BackFed(p), e)
  BY FinishBoxes
<1> HIDE DEF e
<1>4. ASSUME NEW q \in Procs PROVE Clean(Kept(p)[q], r) /\ Kept(p)[r] = inbox[r]
  <2>1. inbox[p] \in Seq(Entry) /\ Clean(inbox[p], r) /\ Clean(inbox[q], r)
    BY <1>1 DEF TypeOK, Boxes, Absent
  <2>2. Clean(Picked(inbox[p], From(inbox[p], Procs \ handing[p])), r)
    BY <2>1, CleanPart
  <2> QED BY <1>1, <2>1, <2>2 DEF Kept, TypeOK, Boxes
<1>5. ASSUME NEW q \in Procs PROVE Clean(BackFed(p)[q], r) /\ BackFed(p)[r] = pending[r]
  <2>1. Clean(inbox[p], r) /\ Clean(pending[q], r) /\ pending[q] \in Seq(Entry)
    BY <1>1 DEF Absent, TypeOK, Boxes
  <2>2. Clean(Unread(p, q), r) /\ Unread(p, q) \in Seq(Entry)
    BY <2>1, CleanUnread, UnreadType
  <2>3. Clean(Unread(p, q) \o pending[q], r)
    BY <2>1, <2>2, CleanConcat
  <2>4. r \notin handing[p]
    BY <1>1 DEF Absent
  <2> QED BY <2>1, <2>3, <2>4, BackFedType
<1>6. \A q \in Procs : Clean(inbox'[q], r) /\ Clean(pending'[q], r)
  BY <1>2, <1>3, <1>4, <1>5, CleanTold, CleanCollected
<1>7. inbox'[r] = inbox[r] /\ pending'[r] = pending[r]
  <2>1. Told(Kept(p), e)[r] = Kept(p)[r]
    BY <1>1, <1>3, NothingTold DEF Blank
  <2>2. Collected(BackFed(p), e)[r] = BackFed(p)[r]
    BY <1>2, <1>3, <1>5, CleanCollected
  <2> QED BY <1>3, <1>4, <1>5, <2>1, <2>2
<1>8. UNCHANGED <<dead, deciding, awaiting, emitted, heard, lost, forced>>
  BY DEF Finish, news
<1>9. \A q \in Procs : /\ r \notin children'[q] /\ r \notin orphans'[q] /\ r \notin owned'[q]
                       /\ r \notin handing'[q]
  BY <1>1 DEF Finish, Absent, TypeOK, Books
<1>10. /\ children'[r] = {} /\ orphans'[r] = {} /\ owned'[r] = {} /\ watched'[r] = {}
       /\ handing'[r] = {} /\ ~collector'[r]
  BY <1>1 DEF Finish, Blank, Absent, TypeOK, Books
<1>11. Absent(r)'
  BY <1>1, <1>6, <1>8, <1>9 DEF Absent
<1>12. Blank(r)'
  BY <1>1, <1>7, <1>8, <1>10 DEF Blank
<1> QED BY <1>11, <1>12

LEMMA NextClean == TreeAssumption /\ TypeOK /\ UnbornClean /\ [Next]_vars => UnbornClean'
<1> SUFFICES ASSUME TreeAssumption, TypeOK, UnbornClean, [Next]_vars PROVE UnbornClean'
  OBVIOUS
<1>1. CASE UNCHANGED vars
  BY <1>1 DEF vars, UnbornClean, Absent, Blank
<1>2. ASSUME NEW p \in Procs,
             \/ Emit(p) \/ Take(p) \/ Swallow(p) \/ Drop(p)
             \/ Fork(p) \/ BeginEnd(p) \/ Finish(p)
             \/ Kill(p) \/ AskForce(p) \/ Escalate(p) \/ ForcedKill(p) \/ ForceThrows(p)
      PROVE  UnbornClean'
  BY <1>2, EmitClean, TakeClean, WasteClean, ForkClean, EndingClean, FinishClean, KillClean, LadderClean,
     ForcedKillClean
<1>3. ASSUME NEW p \in Procs, NEW r \in Procs,
             \/ Monitor(p, r) \/ Decide(p, r)
             \/ ChildStops(p, r) \/ ChildRefuses(p, r) \/ ChildThrows(p, r)
      PROVE  UnbornClean'
  BY <1>3, MonitorClean, DecideClean, EndingClean
<1> QED BY <1>1, <1>2, <1>3 DEF Next

-----------------------------------------------------------------------------
(* No mute child. *)

\* Only fork and adopt make children, and both subscribe; a subscription is lost
\* with one of the two, or when its holder ends.
LEMMA NextHears ==
    ASSUME TreeAssumption, TypeOK, UnbornClean, OwnerHears, [Next]_vars
    PROVE  OwnerHears'
<1> SUFFICES ASSUME NEW o \in Procs, NEW s \in Procs, Live(o)', Live(s)', s \in children'[o]
             PROVE  s \in owned'[o]
  BY DEF OwnerHears
<1>0. Live(o) /\ Live(s) /\ s \in children[o] => s \in owned[o]
  BY DEF OwnerHears
<1>1. CASE UNCHANGED <<st, dead, children, owned>>
  BY <1>0, <1>1 DEF Live
<1>2. ASSUME NEW p \in Procs, Fork(p) PROVE s \in owned'[o]
  <2>1. PICK c \in Procs :
           /\ st[c] = "unborn"
           /\ st' = [st EXCEPT ![c] = "running"]
           /\ children' = [children EXCEPT ![p] = @ \cup {c}]
           /\ owned' = [owned EXCEPT ![p] = @ \cup {c}]
    BY <1>2 DEF Fork
  <2>2. UNCHANGED dead /\ st[p] = "running"
    BY <1>2 DEF Fork
  <2>3. CASE s = c
    <3>1. \A q \in Procs : c \notin children[q]
      BY <2>1 DEF UnbornClean, Absent
    <3>2. o = p
      BY <2>1, <2>3, <3>1 DEF TypeOK, Books
    <3> QED BY <2>1, <2>3, <3>2 DEF TypeOK, Books
  <2>4. CASE s # c
    <3>1. Live(s) /\ s \in children[o] /\ (s \in owned[o] => s \in owned'[o])
      BY <2>1, <2>2, <2>4 DEF Live, TypeOK, Books
    <3>2. o # c
      BY <2>1, <3>1 DEF UnbornClean, Blank
    <3>3. Live(o)
      BY <2>1, <2>2, <3>2 DEF Live, TypeOK
    <3> QED BY <1>0, <3>1, <3>3
  <2> QED BY <2>3, <2>4
<1>3. ASSUME NEW p \in Procs, ForceStop(p), UNCHANGED st,
             \A q \in Procs : children'[q] = children[q]
      PROVE  s \in owned'[o]
  <2>1. o # p /\ s # p /\ Live(o) /\ Live(s)
    BY <1>3 DEF ForceStop, Live, TypeOK
  <2> QED BY <1>0, <1>3, <2>1 DEF ForceStop, TypeOK, Books
<1>4. ASSUME NEW p \in Procs, NEW c \in Procs, Decide(p, c) PROVE s \in owned'[o]
  <2>0. UNCHANGED st
    BY <1>4 DEF Decide
  <2>1. CASE Adopt(p, c) /\ UNCHANGED <<dead, watched, forced, off>>
    <3>1. Live(o) /\ Live(s)
      BY <2>0, <2>1 DEF Live
    <3>2. CASE o = p /\ s = c
      BY <2>1, <3>2 DEF Adopt, TypeOK, Books
    <3>3. CASE ~(o = p /\ s = c)
      <4>1. s \in children[o]
        BY <2>1, <3>3 DEF Adopt, TypeOK, Books
      <4> QED BY <1>0, <2>1, <3>1, <4>1 DEF Adopt, TypeOK, Books
    <3> QED BY <3>2, <3>3
  <2>2. CASE IF dead[c]
             THEN UNCHANGED <<dead, owned, watched, inbox, collector, pending, forced, off, cut>>
                  /\ UNCHANGED children
             ELSE ForceStop(c) /\ UNCHANGED children
    BY <1>1, <1>3, <2>0, <2>2
  <2>3. CASE UNCHANGED <<dead, family>>
    BY <1>1, <2>0, <2>3 DEF family
  <2> QED BY <1>4, <2>1, <2>2, <2>3 DEF Decide
<1>5. ASSUME NEW p \in Procs, Finish(p) PROVE s \in owned'[o]
  <2>1. o # p /\ Live(o) /\ Live(s) /\ s \in children[o]
    BY <1>5 DEF Finish, Live, TypeOK, Books, news
  <2> QED BY <1>0, <1>5, <2>1 DEF Finish, TypeOK, Books
<1>6. ASSUME NEW p \in Procs, NEW c \in Procs, BeginEnd(p) \/ ChildThrows(p, c)
      PROVE  s \in owned'[o]
  <2>1. UNCHANGED <<dead, children, owned>>
    BY <1>6 DEF BeginEnd, ChildThrows, family
  <2>2. \A q \in Procs : Live(q)' => Live(q)
    <3>1. CASE BeginEnd(p)
      BY <2>1, <3>1 DEF BeginEnd, Live, TypeOK
    <3>2. CASE ChildThrows(p, c)
      BY <2>1, <3>2 DEF ChildThrows, Live, TypeOK
    <3> QED BY <1>6, <3>1, <3>2
  <2> QED BY <1>0, <2>1, <2>2
<1>7. ASSUME NEW p \in Procs, Kill(p) \/ ForcedKill(p) PROVE s \in owned'[o]
  <2>1. UNCHANGED <<st, children>>
    BY <1>7 DEF Kill, ForcedKill
  <2>2. ForceStop(p) \/ UNCHANGED <<dead, owned>>
    BY <1>7 DEF Kill, ForcedKill
  <2> QED BY <1>1, <1>3, <2>1, <2>2
<1>8. ASSUME NEW p \in Procs, NEW c \in Procs,
             \/ Emit(p) \/ Take(p) \/ Swallow(p) \/ Drop(p)
             \/ AskForce(p) \/ Escalate(p) \/ ForceThrows(p)
             \/ Monitor(p, c) \/ ChildStops(p, c) \/ ChildRefuses(p, c)
      PROVE  UNCHANGED <<st, dead, children, owned>>
  BY <1>8 DEF Emit, Take, Swallow, Drop, AskForce, Escalate, ForceThrows, Monitor, ChildStops,
     ChildRefuses, family
<1>9. CASE UNCHANGED vars
  BY <1>1, <1>9 DEF vars
<1>10. ASSUME NEW p \in Procs,
              \/ Emit(p) \/ Take(p) \/ Swallow(p) \/ Drop(p)
              \/ Fork(p) \/ BeginEnd(p) \/ Finish(p)
              \/ Kill(p) \/ AskForce(p) \/ Escalate(p) \/ ForcedKill(p) \/ ForceThrows(p)
       PROVE  s \in owned'[o]
  BY <1>1, <1>2, <1>5, <1>6, <1>7, <1>8, <1>10
<1>11. ASSUME NEW p \in Procs, NEW r \in Procs,
              \/ Monitor(p, r) \/ Decide(p, r)
              \/ ChildStops(p, r) \/ ChildRefuses(p, r) \/ ChildThrows(p, r)
       PROVE  s \in owned'[o]
  BY <1>1, <1>4, <1>6, <1>8, <1>11
<1> QED BY <1>9, <1>10, <1>11 DEF Next

\* Whoever is not forked yet has left no trace in any book or box: a process
\* starts with nothing of a former one (src/src/process.async.ts, fork).
THEOREM TreeUnborn == Spec => []UnbornClean
<1>1. Init => TypeOK /\ UnbornClean
  BY InitType, InitClean, TreeAssumption
<1>2. TypeOK /\ UnbornClean /\ [Next]_vars => TypeOK' /\ UnbornClean'
  BY NextType, NextClean, TreeAssumption
<1> QED BY <1>1, <1>2, PTL DEF Spec

\* Whatever is forked, adopted, killed or handed off, and whoever monitors it: whom a
\* live process counts among its children it subscribes to (src/src/process.async.ts).
THEOREM TreeOwnerHears == Spec => []OwnerHears
<1>1. Init => TypeOK /\ UnbornClean
  BY InitType, InitClean, TreeAssumption
<1>2. Init => OwnerHears
  BY DEF Init, OwnerHears, Nobody
<1>3. TypeOK /\ UnbornClean /\ OwnerHears /\ [Next]_vars
        => TypeOK' /\ UnbornClean' /\ OwnerHears'
  BY NextType, NextClean, NextHears, TreeAssumption
<1> QED BY <1>1, <1>2, <1>3, PTL DEF Spec

=============================================================================
