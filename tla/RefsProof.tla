----------------------------- MODULE RefsProof -----------------------------
(***************************************************************************)
(* What is proved of ProcessRefs for every set of processes, every bound   *)
(* and every list of kinds.                                                *)
(***************************************************************************)
EXTENDS ProcessRefs, FiniteSetTheorems, TLAPS

---------------------------------------------------------------------------
\* The type invariant, in the parts the two sides disturb.

\* What IdSpace has not given names nobody.
Unused == \A i \in Ids : i >= nextId => named[i] = None

Numbered ==
    /\ number \in [Procs -> Ids \cup {0}]
    /\ named \in [Ids -> Procs \cup {None}]
    /\ \A p \in Procs, i \in Ids : number[p] = i <=> named[i] = p
    /\ nextId \in 1 .. MaxIds + 1
    /\ unsaid \in Seq([proc : Procs, id : Ids])
    /\ Unused

HolderOK ==
    /\ running \subseteq Procs /\ asked \subseteq Procs /\ deaf \subseteq Ids
    /\ state \in [Procs -> [v : Nat, ref : Leaves \cup {None}]]
    /\ record \in [Ids -> (SUBSET Kinds) \cup {None}]
    /\ toReader \in Seq(Frames)
    /\ says \in 0 .. MaxSays

\* A table of handles: each refers to handles that are in it.
Linked(f) ==
    /\ f \in [Ids -> Handles \cup {None}]
    /\ \A id \in Ids : f[id] # None =>
          \A r \in f[id].owned \cup f[id].transient : f[r] # None

ReaderOK ==
    /\ Linked(far)
    /\ toHolder \in Seq(FarFrames)
    /\ asks \in 0 .. MaxAsks

TInv == Numbered /\ HolderOK /\ ReaderOK

LEMMA TInvIsTypeOK == TInv => TypeOK
  BY DEF TInv, TypeOK, Numbered, HolderOK, ReaderOK, Linked, Bound

---------------------------------------------------------------------------
\* Lemmas about the operators.

LEMMA SetToSeqType ==
    ASSUME NEW S, IsFiniteSet(S)
    PROVE  /\ SetToSeq(S) \in [1..Cardinality(S) -> S]
           /\ Cardinality(S) \in Nat
<1>1. \E f : f \in Bijection(1..Cardinality(S), S)
  BY FS_CardinalityType DEF ExistsBijection
<1>2. \E f \in [1..Cardinality(S) -> S] : IsInjective(f)
  BY <1>1 DEF Bijection, Injection
<1> QED BY <1>2, FS_CardinalityType DEF SetToSeq

LEMMA IdsFinite == ASSUME NEW S \in SUBSET Ids PROVE IsFiniteSet(S)
<1>1. IsFiniteSet(Ids)
  BY FS_Interval, RefsAssumption DEF Ids
<1> QED BY <1>1, FS_Subset

\* From one table to the next no handle is given to another process, and none
\* ends or comes back; some are let go of.
Kept(f, g) ==
    \A i \in Ids : g[i] # None =>
        f[i] # None /\ g[i].of = f[i].of /\ g[i].exit = f[i].exit

\* A handle of a table is one, and a place without one is None.
LEMMA HandleOf ==
    ASSUME NEW f, Linked(f), NEW id \in Ids, f[id] # None
    PROVE  f[id] \in Handles
  BY DEF Linked

\* Numbering keeps the two tables inverse, and the id it gives is 0 for None only.
LEMMA NumberKeeps ==
    ASSUME Numbered, NEW p \in Procs \cup {None}, Number(p)
    PROVE  /\ Numbered'
           /\ IdFor(p) \in Ids \cup {0}
           /\ IdFor(p) = 0 <=> p = None
<1>0. None \notin Procs
  BY RefsAssumption DEF Procs
<1>9. MaxIds \in Nat
  BY RefsAssumption
<1>1. CASE p # None /\ number[p] = 0
  <2>1. /\ p \in Procs /\ nextId \in Ids
        /\ number' = [number EXCEPT ![p] = nextId]
        /\ named' = [named EXCEPT ![nextId] = p]
        /\ unsaid' = Append(unsaid, [proc |-> p, id |-> nextId])
        /\ nextId' = nextId + 1
    BY <1>1 DEF Number, NextId
  <2>2. nextId \in 1 .. MaxIds /\ IdFor(p) = nextId
    BY <1>1, <2>1 DEF IdFor, NextId, Ids
  <2>3. unsaid' \in Seq([proc : Procs, id : Ids])
    <3> DEFINE e == [proc |-> p, id |-> nextId]
               T == [proc : Procs, id : Ids]
    <3>1. e \in T /\ unsaid \in Seq(T) /\ unsaid' = Append(unsaid, e)
      BY <2>1 DEF Numbered
    <3> HIDE DEF e, T
    <3>2. Append(unsaid, e) \in Seq(T)
      BY <3>1
    <3> QED BY <3>1, <3>2 DEF T
  <2>4. named[nextId] = None
    BY <2>1 DEF Numbered, Unused, Ids
  <2>5. \A q \in Procs, i \in Ids : number'[q] = i <=> named'[i] = q
    <3>1. number \in [Procs -> Ids \cup {0}] /\ named \in [Ids -> Procs \cup {None}]
      BY DEF Numbered
    <3>2. \A q \in Procs : number'[q] = IF q = p THEN nextId ELSE number[q]
      BY <2>1, <3>1
    <3>3. \A i \in Ids : named'[i] = IF i = nextId THEN p ELSE named[i]
      BY <2>1, <3>1
    <3>4. \A q \in Procs, i \in Ids : number[q] = i <=> named[i] = q
      BY DEF Numbered
    <3>5. 0 \notin Ids
      BY DEF Ids
    <3> QED BY <3>2, <3>3, <3>4, <3>5, <2>4, <2>1, <1>0, <1>1
  <2>6. Unused'
    BY <2>1, <2>2, <1>9 DEF Numbered, Unused, Ids
  <2>7. nextId' \in 1 .. MaxIds + 1
    BY <2>1, <2>2, <1>9
  <2>8. number' \in [Procs -> Ids \cup {0}] /\ named' \in [Ids -> Procs \cup {None}]
    BY <2>1 DEF Numbered
  <2> QED BY <2>2, <2>3, <2>5, <2>6, <2>7, <2>8, <1>1 DEF Numbered, Ids
<1>2. CASE ~(p # None /\ number[p] = 0)
  <2>1. UNCHANGED <<number, named, unsaid, nextId>>
    BY <1>2 DEF Number
  <2>2. Numbered'
    BY <2>1 DEF Numbered, Unused
  <2>3. p # None => IdFor(p) = number[p] /\ number[p] \in Ids
    BY <1>2 DEF IdFor, Numbered
  <2> QED BY <2>2, <2>3 DEF IdFor, Ids
<1> QED BY <1>1, <1>2

\* One record changes.
LEMMA RecordSet ==
    ASSUME HolderOK, NEW id \in Ids, NEW k, k = None \/ k \subseteq Kinds
    PROVE  [record EXCEPT ![id] = k] \in [Ids -> (SUBSET Kinds) \cup {None}]
<1> DEFINE T == (SUBSET Kinds) \cup {None}
<1>1. record \in [Ids -> T] /\ k \in T
  BY DEF HolderOK
<1> HIDE DEF T
<1>2. [record EXCEPT ![id] = k] \in [Ids -> T]
  BY <1>1
<1> QED BY <1>2 DEF T

\* Saying a frame of a process that goes by a number, with a reference or without.
LEMMA SayKeeps ==
    ASSUME Numbered, toReader \in Seq(Frames),
           NEW kind \in {"message", "state", "exit", "methods"},
           NEW q \in Procs \cup {None}, NEW id \in Ids \cup {0}, id = 0 <=> q = None,
           NEW v \in Nat, NEW p \in Procs \cup {None},
           Say(ToReader(kind, q, id, v, IdFor(p), p), p)
    PROVE  Numbered' /\ toReader' \in Seq(Frames)
<1> DEFINE fr == ToReader(kind, q, id, v, IdFor(p), p)
<1>1. Number(p) /\ toReader' = Append(toReader, fr)
  BY DEF Say
<1>2. Numbered' /\ IdFor(p) \in Ids \cup {0} /\ (IdFor(p) = 0 <=> p = None)
  BY <1>1, NumberKeeps
<1>3. fr \in Frames
  BY <1>2 DEF ToReader, Frames
<1> HIDE DEF fr
<1> QED BY <1>1, <1>2, <1>3

\* What happens to a handle, field by field.
LEMMA HandleLoses ==
    ASSUME NEW h \in Handles, NEW lost
    PROVE  LET g == [h EXCEPT !.owned = @ \ lost, !.transient = @ \ lost] IN
           /\ g \in Handles
           /\ g.owned = h.owned \ lost /\ g.transient = h.transient \ lost
           /\ h.owned \subseteq Ids /\ h.transient \subseteq Ids
           /\ g.of = h.of /\ g.exit = h.exit
  BY DEF Handles

LEMMA HandleDone ==
    ASSUME NEW h \in Handles
    PROVE  LET g == [h EXCEPT !.released = TRUE, !.owned = {}, !.transient = {}] IN
           /\ g \in Handles /\ g.owned = {} /\ g.transient = {}
           /\ g.of = h.of /\ g.exit = h.exit
  BY DEF Handles

LEMMA HandleCounted ==
    ASSUME NEW h \in Handles, NEW n \in Nat
    PROVE  LET g == [h EXCEPT !.count = n] IN
           /\ g \in Handles /\ g.owned = h.owned /\ g.transient = h.transient
           /\ g.of = h.of /\ g.exit = h.exit
  BY DEF Handles

\* One handle changes.
LEMMA SetHandle ==
    ASSUME NEW f, Linked(f), NEW id \in Ids, f[id] # None, NEW h \in Handles,
           \A r \in h.owned \cup h.transient : f[r] # None
    PROVE  /\ Linked([f EXCEPT ![id] = h])
           /\ h.of = f[id].of /\ h.exit = f[id].exit => Kept(f, [f EXCEPT ![id] = h])
<1>1. None \notin Handles
  BY NoneAssumption
<1> DEFINE g == [f EXCEPT ![id] = h]
<1>2. f \in [Ids -> Handles \cup {None}]
  BY DEF Linked
<1>3. g \in [Ids -> Handles \cup {None}] /\ \A i \in Ids : g[i] = IF i = id THEN h ELSE f[i]
  BY <1>2
<1> HIDE DEF g
<1>4. ASSUME NEW j \in Ids, g[j] # None, NEW r \in g[j].owned \cup g[j].transient
      PROVE  g[r] # None
  <2>1. f[j] # None /\ g[j] \in Handles
    BY <1>3, <1>4
  <2>2. r \in Ids
    BY <1>4, <2>1 DEF Handles
  <2>3. f[r] # None
    BY <1>3, <1>4, <2>1 DEF Linked
  <2> QED BY <1>1, <1>3, <2>2, <2>3
<1>5. Linked(g)
  BY <1>3, <1>4 DEF Linked
<1>6. h.of = f[id].of /\ h.exit = f[id].exit => Kept(f, g)
  BY <1>3 DEF Kept
<1> QED BY <1>5, <1>6 DEF g

\* What every handle of a table refers to is in the table.
LEMMA Closed1 ==
    ASSUME NEW f, Linked(f), NEW id \in Ids, f[id] # None
    PROVE  /\ f[id].owned \subseteq Ids /\ f[id].transient \subseteq Ids
           /\ \A r \in f[id].owned \cup f[id].transient : f[r] # None
  <1>1. f[id] \in Handles
    BY HandleOf
  <1> QED BY <1>1 DEF Linked, Handles

LEMMA RememberKeeps ==
    ASSUME NEW f, Linked(f), NEW id \in Ids, f[id] # None,
           NEW r \in Ids \cup {0}, r # 0 => f[r] # None
    PROVE  Linked(Remember(f, id, r)) /\ Kept(f, Remember(f, id, r))
<1>1. CASE r = 0 \/ f[r].released \/ r \in f[id].owned
  BY <1>1 DEF Remember, Kept
<1>2. CASE ~(r = 0 \/ f[r].released \/ r \in f[id].owned)
  <2> DEFINE h == [f[id] EXCEPT !.transient = @ \cup {r}]
  <2>1. Remember(f, id, r) = [f EXCEPT ![id] = h]
    BY <1>2 DEF Remember
  <2>2. r \in Ids /\ f[r] # None /\ f[id] \in Handles
    BY <1>2, HandleOf
  <2>3. /\ h \in Handles /\ h.of = f[id].of /\ h.exit = f[id].exit
        /\ h.owned = f[id].owned /\ h.transient = f[id].transient \cup {r}
    BY <2>2 DEF Handles
  <2> HIDE DEF h
  <2>4. \A q \in h.owned \cup h.transient : f[q] # None
    BY <2>2, <2>3, Closed1
  <2> DEFINE g == [f EXCEPT ![id] = h]
  <2>5. Linked(g) /\ Kept(f, g)
    BY <2>3, <2>4, SetHandle
  <2> HIDE DEF g
  <2> QED BY <2>1, <2>5 DEF g
<1> QED BY <1>1, <1>2

LEMMA KeptTrans ==
    ASSUME NEW f, NEW g, NEW h, Kept(f, g), Kept(g, h)
    PROVE  Kept(f, h)
  BY DEF Kept

LEMMA KeepOwnedKeeps ==
    ASSUME NEW f, Linked(f), NEW id \in Ids, f[id] # None,
           NEW r \in Ids \cup {0}, r # 0 => f[r] # None
    PROVE  Linked(KeepOwned(f, id, r)) /\ Kept(f, KeepOwned(f, id, r))
<1>1. CASE r = 0 \/ f[r].released \/ r \in f[id].owned
  BY <1>1 DEF KeepOwned, Kept
<1>2. CASE ~(r = 0 \/ f[r].released \/ r \in f[id].owned)
  <2> DEFINE h == [f[id] EXCEPT !.owned = @ \cup {r}, !.transient = @ \ {r}]
             g == [f EXCEPT ![id] = h]
             k == [g[r] EXCEPT !.count = @ + 1]
  <2>1. KeepOwned(f, id, r) = [g EXCEPT ![r] = k]
    BY <1>2 DEF KeepOwned
  <2>2. r \in Ids /\ f[r] # None /\ f[id] \in Handles
    BY <1>2, HandleOf
  <2>3. /\ h \in Handles /\ h.of = f[id].of /\ h.exit = f[id].exit
        /\ h.owned = f[id].owned \cup {r} /\ h.transient = f[id].transient \ {r}
    BY <2>2 DEF Handles
  <2>4. \A q \in Ids : g[q] = IF q = id THEN h ELSE f[q]
    BY DEF Linked
  <2> HIDE DEF h
  <2>5. \A q \in h.owned \cup h.transient : f[q] # None
    BY <2>2, <2>3, Closed1
  <2>6. Linked(g) /\ Kept(f, g)
    BY <2>3, <2>5, SetHandle
  <2> HIDE DEF g
  <2>7. g[r] # None
    BY <2>2, <2>3, <2>4, NoneAssumption
  <2>8. g[r] \in Handles
    BY <2>2, <2>6, <2>7, HandleOf
  <2>9. /\ k \in Handles /\ k.of = g[r].of /\ k.exit = g[r].exit
        /\ k.owned = g[r].owned /\ k.transient = g[r].transient
    BY <2>8 DEF Handles
  <2> HIDE DEF k
  <2>10. \A q \in k.owned \cup k.transient : g[q] # None
    BY <2>2, <2>6, <2>7, <2>9, Closed1
  <2>11. Linked([g EXCEPT ![r] = k]) /\ Kept(g, [g EXCEPT ![r] = k])
    BY <2>2, <2>6, <2>7, <2>9, <2>10, SetHandle
  <2> QED BY <2>1, <2>6, <2>11, KeptTrans
<1> QED BY <1>1, <1>2

LEMMA UnbindKeeps ==
    ASSUME NEW f, Linked(f), NEW lost \in SUBSET Ids
    PROVE  Linked(Unbind(f, lost)) /\ Kept(f, Unbind(f, lost))
<1>1. None \notin Handles
  BY NoneAssumption
<1> DEFINE g == Unbind(f, lost)
<1>2. \A i \in Ids : g[i] = IF i \in lost \/ f[i] = None THEN None
                            ELSE [f[i] EXCEPT !.owned = @ \ lost, !.transient = @ \ lost]
  BY DEF Unbind
<1>3. ASSUME NEW i \in Ids, i \notin lost, f[i] # None
      PROVE  /\ g[i] \in Handles
             /\ g[i].owned = f[i].owned \ lost /\ g[i].transient = f[i].transient \ lost
             /\ f[i].owned \subseteq Ids /\ f[i].transient \subseteq Ids
             /\ g[i].of = f[i].of /\ g[i].exit = f[i].exit
  <2>1. f[i] \in Handles
    BY <1>3, HandleOf
  <2>2. g[i] = [f[i] EXCEPT !.owned = @ \ lost, !.transient = @ \ lost]
    BY <1>2, <1>3
  <2> DEFINE h == f[i]
             k == [h EXCEPT !.owned = @ \ lost, !.transient = @ \ lost]
  <2>3. h \in Handles /\ g[i] = k
    BY <2>1, <2>2
  <2> HIDE DEF g, h
  <2>4. /\ k \in Handles
        /\ k.owned = h.owned \ lost /\ k.transient = h.transient \ lost
        /\ h.owned \subseteq Ids /\ h.transient \subseteq Ids
        /\ k.of = h.of /\ k.exit = h.exit
    BY <2>3, HandleLoses
  <2> HIDE DEF k
  <2>5. /\ g[i] \in Handles
        /\ g[i].owned = h.owned \ lost /\ g[i].transient = h.transient \ lost
        /\ h.owned \subseteq Ids /\ h.transient \subseteq Ids
        /\ g[i].of = h.of /\ g[i].exit = h.exit
    BY <2>3, <2>4
  <2> QED BY <2>5 DEF h
<1>4. g = [i \in Ids |-> g[i]]
  BY DEF Unbind
<1> HIDE DEF g
<1>5. \A i \in Ids : g[i] \in Handles \cup {None}
  BY <1>2, <1>3
<1>6. ASSUME NEW id \in Ids, g[id] # None, NEW r \in g[id].owned \cup g[id].transient
      PROVE  g[r] # None
  <2>1. id \notin lost /\ f[id] # None
    BY <1>2, <1>6
  <2>2. r \in Ids /\ r \notin lost /\ r \in f[id].owned \cup f[id].transient
    BY <1>3, <1>6, <2>1
  <2>3. f[r] # None
    BY <2>1, <2>2 DEF Linked
  <2> QED BY <1>1, <1>3, <2>2, <2>3
<1>7. Linked(g)
  BY <1>4, <1>5, <1>6 DEF Linked
<1>8. Kept(f, g)
  BY <1>2, <1>3 DEF Kept
<1> QED BY <1>7, <1>8 DEF g

LEMMA GivenBackKeeps ==
    ASSUME NEW f, Linked(f), NEW id \in Ids, f[id] # None
    PROVE  Linked(GivenBack(f, id)) /\ Kept(f, GivenBack(f, id))
<1>1. None \notin Handles
  BY NoneAssumption
<1> DEFINE g == GivenBack(f, id)
<1>2. \A i \in Ids : g[i] =
        IF i = id THEN [f[i] EXCEPT !.released = TRUE, !.owned = {}, !.transient = {}]
        ELSE IF i \in f[id].owned /\ f[i].count > 0 THEN [f[i] EXCEPT !.count = @ - 1]
        ELSE f[i]
  BY DEF GivenBack
<1>3. g = [i \in Ids |-> g[i]]
  BY DEF GivenBack
<1> HIDE DEF g
<1>4. /\ g[id] \in Handles /\ g[id].owned = {} /\ g[id].transient = {}
      /\ g[id].of = f[id].of /\ g[id].exit = f[id].exit
  <2>1. f[id] \in Handles
    BY HandleOf
  <2>2. g[id] = [f[id] EXCEPT !.released = TRUE, !.owned = {}, !.transient = {}]
    BY <1>2
  <2> QED BY <2>1, <2>2, HandleDone
<1>5. ASSUME NEW i \in Ids, i # id
      PROVE  /\ f[i] # None => g[i] \in Handles /\ g[i].owned = f[i].owned
                               /\ g[i].transient = f[i].transient
                               /\ g[i].of = f[i].of /\ g[i].exit = f[i].exit
             /\ f[i] = None => g[i] = None
  <2>1. CASE f[i] = None
    BY <1>2, <1>5, <2>1 DEF Linked
  <2>2. CASE f[i] # None
    <3>1. f[i] \in Handles
      BY <2>2, HandleOf
    <3>2. CASE i \in f[id].owned /\ f[i].count > 0
      <4>1. g[i] = [f[i] EXCEPT !.count = f[i].count - 1]
        BY <1>2, <1>5, <3>2
      <4>2. f[i].count - 1 \in Nat
        BY <3>1, <3>2 DEF Handles
      <4> QED BY <2>2, <3>1, <4>1, <4>2, HandleCounted
    <3>3. CASE ~(i \in f[id].owned /\ f[i].count > 0)
      BY <1>2, <1>5, <2>2, <3>1, <3>3
    <3> QED BY <3>2, <3>3
  <2> QED BY <2>1, <2>2
<1>6. \A i \in Ids : g[i] \in Handles \cup {None} /\ (g[i] # None <=> f[i] # None)
  BY <1>1, <1>4, <1>5, HandleOf
<1>7. ASSUME NEW j \in Ids, g[j] # None, NEW r \in g[j].owned \cup g[j].transient
      PROVE  g[r] # None
  <2>1. j # id
    BY <1>4, <1>7
  <2>2. f[j] # None /\ r \in f[j].owned \cup f[j].transient
    BY <1>5, <1>6, <1>7, <2>1
  <2>3. r \in Ids
    BY <2>2, HandleOf DEF Handles
  <2> QED BY <1>6, <2>2, <2>3 DEF Linked
<1>8. Linked(g)
  BY <1>3, <1>6, <1>7 DEF Linked
<1>9. Kept(f, g)
  BY <1>4, <1>5, <1>6 DEF Kept
<1> QED BY <1>8, <1>9 DEF g
---------------------------------------------------------------------------
\* What a frame and what the application do to the table.

\* A frame binds its reference, if that is bound to nothing, to the process it was
\* sent for, and its exit ends the handle it is for; every other handle stays.
Heeded(f, g, fr) ==
    \A i \in Ids : g[i] # None =>
        \/ f[i] # None /\ g[i].of = f[i].of
              /\ (g[i].exit = f[i].exit \/ (fr.kind = "exit" /\ fr.to = i))
        \/ f[i] = None /\ i = fr.ref /\ g[i].of = fr.refOf
              /\ (~g[i].exit \/ (fr.kind = "exit" /\ fr.to = i))

LEMMA ResolvedKeeps ==
    ASSUME Linked(far), NEW fr \in Frames
    PROVE  /\ Linked(Resolved(fr))
           /\ fr.ref # 0 => Resolved(fr)[fr.ref] # None
           /\ \A i \in Ids : Resolved(fr)[i] # None =>
                 \/ far[i] # None /\ Resolved(fr)[i] = far[i]
                 \/ far[i] = None /\ i = fr.ref /\ Resolved(fr)[i] = NewHandle(fr.refOf)
<1>1. CASE ~(fr.ref # 0 /\ far[fr.ref] = None)
  BY <1>1 DEF Resolved
<1>2. CASE fr.ref # 0 /\ far[fr.ref] = None
  <2> DEFINE h == NewHandle(fr.refOf)
             g == [far EXCEPT ![fr.ref] = h]
  <2>1. Resolved(fr) = g
    BY <1>2 DEF Resolved
  <2>2. fr.ref \in Ids /\ fr.refOf \in Procs
    BY <1>2 DEF Frames
  <2>3. h \in Handles /\ h.owned = {} /\ h.transient = {}
    BY <2>2 DEF NewHandle, Handles
  <2>4. far \in [Ids -> Handles \cup {None}]
    BY DEF Linked
  <2>5. /\ g \in [Ids -> Handles \cup {None}]
        /\ \A i \in Ids : g[i] = IF i = fr.ref THEN h ELSE far[i]
    BY <2>2, <2>3, <2>4
  <2> HIDE DEF g, h
  <2>6. ASSUME NEW j \in Ids, g[j] # None, NEW r \in g[j].owned \cup g[j].transient
        PROVE  g[r] # None
    <3>1. j # fr.ref
      BY <2>3, <2>5, <2>6
    <3>2. far[j] # None /\ g[j] = far[j]
      BY <2>5, <2>6, <3>1
    <3>3. r \in Ids /\ far[r] # None
      BY <2>6, <3>2, Closed1
    <3> QED BY <2>3, <2>5, <3>3, NoneAssumption
  <2>7. Linked(g)
    BY <2>5, <2>6 DEF Linked
  <2>8. g[fr.ref] # None
    BY <2>2, <2>3, <2>5, NoneAssumption
  <2>9. \A i \in Ids : g[i] # None =>
           \/ far[i] # None /\ g[i] = far[i]
           \/ far[i] = None /\ i = fr.ref /\ g[i] = h
    BY <1>2, <2>5
  <2> QED BY <2>1, <2>7, <2>8, <2>9 DEF h
<1> QED BY <1>1, <1>2

LEMMA UpdatedHandle ==
    ASSUME NEW f, Linked(f), NEW b \in Handles, NEW fr \in Frames,
           fr.ref # 0 => f[fr.ref] # None
    PROVE  LET h == Updated(f, b, fr) IN
           /\ h \in Handles /\ h.of = b.of /\ h.exit = b.exit
           /\ h.owned = b.owned /\ h.transient = b.transient
           /\ h.count = b.count /\ h.keeps = b.keeps /\ h.released = b.released
           /\ h.wanted = b.wanted /\ h.waiting = b.waiting /\ h.version = fr.v
           /\ h.holds = IF fr.ref = 0 THEN b.holds ELSE f[fr.ref].of
<1> DEFINE k == IF fr.ref = 0 THEN b.holds ELSE f[fr.ref].of
           v == fr.v
           h == [b EXCEPT !.version = v, !.readying = FALSE, !.holds = k]
<1>1. fr.ref \in Ids \cup {0} /\ v \in Nat
  BY DEF Frames
<1>2. fr.ref # 0 => f[fr.ref].of \in Procs
  BY <1>1, HandleOf DEF Handles
<1>3. k \in Procs \cup {None}
  BY <1>2 DEF Handles
<1>4. Updated(f, b, fr) = h
  BY DEF Updated
<1> HIDE DEF k, v
<1>5. /\ h \in Handles /\ h.of = b.of /\ h.exit = b.exit
      /\ h.owned = b.owned /\ h.transient = b.transient
      /\ h.count = b.count /\ h.keeps = b.keeps /\ h.released = b.released
      /\ h.wanted = b.wanted /\ h.waiting = b.waiting /\ h.version = v /\ h.holds = k
  BY <1>1, <1>3 DEF Handles
<1> QED BY <1>4, <1>5 DEF k, v

LEMMA ReceiveKeeps ==
    ASSUME NEW f, Linked(f), NEW fr \in Frames, fr.to # 0, f[fr.to] # None,
           fr.ref # 0 => f[fr.ref] # None
    PROVE  /\ Linked(Receive(f, fr))
           /\ \A i \in Ids : Receive(f, fr)[i] # None =>
                 /\ f[i] # None /\ Receive(f, fr)[i].of = f[i].of
                 /\ Receive(f, fr)[i].exit = f[i].exit \/ (fr.kind = "exit" /\ fr.to = i)
<1> DEFINE id == fr.to
           R == Receive(f, fr)
<1> SUFFICES /\ Linked(R)
             /\ \A i \in Ids : R[i] # None =>
                   /\ f[i] # None /\ R[i].of = f[i].of
                   /\ R[i].exit = f[i].exit \/ (fr.kind = "exit" /\ fr.to = i)
  OBVIOUS
<1>1. /\ id \in Ids /\ fr.ref \in Ids \cup {0} /\ fr.v \in Nat
      /\ fr.kind \in {"message", "state", "exit", "methods"}
  BY DEF Frames
<1>2. f[id] \in Handles
  BY <1>1, HandleOf
<1>0. R = Receive(f, fr)
  OBVIOUS
<1> HIDE DEF R
<1>3. CASE fr.kind = "state"
  <2> DEFINE h == Updated(f, f[id], fr)
             g == [f EXCEPT ![id] = h]
  <2>1. R = KeepOwned(g, id, fr.ref)
    BY <1>0, <1>3 DEF Receive
  <2>2. /\ h \in Handles /\ h.of = f[id].of /\ h.exit = f[id].exit
        /\ h.owned = f[id].owned /\ h.transient = f[id].transient
    BY <1>2, UpdatedHandle
  <2>3. \A q \in Ids : g[q] = IF q = id THEN h ELSE f[q]
    BY DEF Linked
  <2> HIDE DEF h
  <2>4. \A q \in h.owned \cup h.transient : f[q] # None
    BY <1>1, <2>2, Closed1
  <2>5. Linked(g) /\ Kept(f, g)
    BY <1>1, <2>2, <2>4, SetHandle
  <2>6. g[id] # None /\ (fr.ref # 0 => g[fr.ref] # None)
    BY <1>1, <2>2, <2>3, NoneAssumption
  <2> HIDE DEF g
  <2>7. Linked(KeepOwned(g, id, fr.ref)) /\ Kept(g, KeepOwned(g, id, fr.ref))
    BY <1>1, <2>5, <2>6, KeepOwnedKeeps
  <2>8. Linked(R) /\ Kept(g, R)
    BY <2>1, <2>7
  <2>9. Kept(f, R)
    BY <2>5, <2>8, KeptTrans
  <2> QED BY <2>8, <2>9 DEF Kept
<1>4. CASE fr.kind = "message"
  <2>1. R = Remember(f, id, fr.ref)
    BY <1>0, <1>4 DEF Receive
  <2>2. Linked(R) /\ Kept(f, R)
    BY <1>1, <2>1, RememberKeeps
  <2> QED BY <2>2 DEF Kept
<1>5. CASE fr.kind = "exit"
  <2> DEFINE h == [f[id] EXCEPT !.exit = TRUE, !.waiting = FALSE, !.readying = FALSE]
             g == [f EXCEPT ![id] = h]
  <2>1. R = g
    BY <1>0, <1>5 DEF Receive
  <2>2. /\ h \in Handles /\ h.of = f[id].of
        /\ h.owned = f[id].owned /\ h.transient = f[id].transient
    BY <1>1, <1>2 DEF Handles
  <2>3. \A q \in Ids : g[q] = IF q = id THEN h ELSE f[q]
    BY DEF Linked
  <2> HIDE DEF h
  <2>4. \A q \in h.owned \cup h.transient : f[q] # None
    BY <1>1, <2>2, Closed1
  <2>5. Linked(g)
    BY <1>1, <2>2, <2>4, SetHandle
  <2> HIDE DEF g
  <2>6. \A i \in Ids : R[i] = IF i = fr.to THEN h ELSE f[i]
    BY <2>1, <2>3
  <2>7. Linked(R)
    BY <2>1, <2>5
  <2> QED BY <1>5, <2>2, <2>6, <2>7
<1>6. CASE fr.kind = "methods"
  <2>1. R = f
    BY <1>0, <1>6 DEF Receive
  <2> QED BY <2>1
<1> QED BY <1>1, <1>3, <1>4, <1>5, <1>6
LEMMA ReaderGetsKeeps ==
    ASSUME ReaderOK, toReader \in Seq(Frames), ReaderGets
    PROVE  /\ ReaderOK' /\ toReader' \in Seq(Frames)
           /\ Head(toReader) \in Frames /\ toReader # <<>> /\ toReader' = Tail(toReader)
           /\ Heeded(far, far', Head(toReader))
<1> DEFINE fr == Head(toReader)
           f == Resolved(fr)
<1>1. /\ toReader # <<>> /\ toReader' = Tail(toReader)
      /\ far' = IF fr.to # 0 /\ f[fr.to] # None /\ ~f[fr.to].released
                THEN Receive(f, fr) ELSE f
      /\ UNCHANGED <<toHolder, asks>>
  BY DEF ReaderGets
<1>2. fr \in Frames /\ toReader' \in Seq(Frames)
  BY <1>1
<1> HIDE DEF fr
<1>3. Linked(far)
  BY DEF ReaderOK
<1>4. /\ Linked(f) /\ (fr.ref # 0 => f[fr.ref] # None)
      /\ \A i \in Ids : f[i] # None =>
            \/ far[i] # None /\ f[i] = far[i]
            \/ far[i] = None /\ i = fr.ref /\ f[i] = NewHandle(fr.refOf)
  BY <1>2, <1>3, ResolvedKeeps
<1> HIDE DEF f
<1>5. CASE fr.to # 0 /\ f[fr.to] # None /\ ~f[fr.to].released
  <2> DEFINE g == Receive(f, fr)
  <2>1. /\ Linked(g)
        /\ \A i \in Ids : g[i] # None =>
              /\ f[i] # None /\ g[i].of = f[i].of
              /\ g[i].exit = f[i].exit \/ (fr.kind = "exit" /\ fr.to = i)
    BY <1>2, <1>4, <1>5, ReceiveKeeps
  <2>2. far' = g
    BY <1>1, <1>5
  <2> HIDE DEF g
  <2>3. Heeded(far, g, fr)
    BY <1>4, <2>1 DEF Heeded, NewHandle
  <2> QED BY <1>1, <1>2, <2>1, <2>2, <2>3 DEF ReaderOK, fr
<1>6. CASE ~(fr.to # 0 /\ f[fr.to] # None /\ ~f[fr.to].released)
  <2>1. far' = f
    BY <1>1, <1>6
  <2>2. \A p : NewHandle(p).of = p /\ ~NewHandle(p).exit
    BY DEF NewHandle
  <2>3. Heeded(far, f, fr)
    BY <1>4, <2>2 DEF Heeded
  <2> QED BY <1>1, <1>2, <1>4, <2>1, <2>3 DEF ReaderOK, fr
<1> QED BY <1>5, <1>6

\* What the reader's side sends is about the processes its handles are of.
Truthful(s) ==
    /\ s \in Seq(FarFrames)
    /\ \A n \in DOMAIN s : far[s[n].to] # None /\ s[n].about = far[s[n].to].of

\* What an action of the application leaves behind.
AskedFor ==
    /\ Linked(far') /\ Kept(far, far')
    /\ \E s : Truthful(s) /\ toHolder' = toHolder \o s

LEMMA TruthfulNone == Truthful(<<>>)
  BY DEF Truthful

LEMMA TruthfulOne ==
    ASSUME Linked(far), NEW id \in Ids, far[id] # None,
           NEW kind \in {"tune", "release", "stop"}, NEW kinds \in SUBSET Kinds
    PROVE  Truthful(<<ToHolder(kind, id, kinds)>>)
<1>1. far[id] \in Handles
  BY HandleOf
<1> DEFINE fr == ToHolder(kind, id, kinds)
<1>2. fr \in FarFrames /\ fr.to = id /\ fr.about = far[id].of
  BY <1>1 DEF ToHolder, FarFrames, Handles
<1> HIDE DEF fr
<1>3. <<fr>> \in Seq(FarFrames) /\ DOMAIN <<fr>> = {1} /\ <<fr>>[1] = fr
  BY <1>2
<1>4. Truthful(<<fr>>)
  BY <1>2, <1>3 DEF Truthful
<1> QED BY <1>4 DEF fr

LEMMA TruthfulBoth ==
    ASSUME NEW s, NEW t, Truthful(s), Truthful(t)
    PROVE  Truthful(s \o t)
<1>1. s \in Seq(FarFrames) /\ t \in Seq(FarFrames)
  BY DEF Truthful
<1>2. /\ s \o t \in Seq(FarFrames) /\ Len(s \o t) = Len(s) + Len(t)
      /\ \A n \in 1 .. Len(s) + Len(t) :
            (s \o t)[n] = IF n <= Len(s) THEN s[n] ELSE t[n - Len(s)]
  BY <1>1
<1>3. ASSUME NEW n \in DOMAIN (s \o t)
      PROVE  far[(s \o t)[n].to] # None /\ (s \o t)[n].about = far[(s \o t)[n].to].of
  <2>1. n \in 1 .. Len(s) + Len(t)
    BY <1>2, <1>3
  <2>2. CASE n <= Len(s)
    BY <1>1, <1>2, <2>1, <2>2 DEF Truthful
  <2>3. CASE n > Len(s)
    <3>1. n - Len(s) \in DOMAIN t /\ (s \o t)[n] = t[n - Len(s)]
      BY <1>1, <1>2, <2>1, <2>3
    <3> QED BY <3>1 DEF Truthful
  <2> QED BY <1>1, <2>1, <2>2, <2>3
<1> QED BY <1>2, <1>3 DEF Truthful

LEMMA TruthfulReleases ==
    ASSUME Linked(far), NEW S \in SUBSET Ids, \A i \in S : far[i] # None
    PROVE  Truthful(Releases(S))
<1>1. IsFiniteSet(S)
  BY IdsFinite
<1>2. Cardinality(S) \in Nat /\ SetToSeq(S) \in [1 .. Cardinality(S) -> S]
  BY <1>1, SetToSeqType
<1> DEFINE n == Cardinality(S)
           q == SetToSeq(S)
           s == Releases(S)
<1>3. s = [k \in 1 .. n |-> ToHolder("release", q[k], {})]
  BY DEF Releases
<1> HIDE DEF n, q, s
<1>4. n \in Nat /\ q \in [1 .. n -> S]
  BY <1>2 DEF n, q
<1>5. ASSUME NEW k \in 1 .. n
      PROVE  s[k] \in FarFrames /\ far[s[k].to] # None /\ s[k].about = far[s[k].to].of
  <2>1. q[k] \in S /\ q[k] \in Ids /\ far[q[k]] # None
    BY <1>4
  <2>2. far[q[k]] \in Handles
    BY <2>1, HandleOf
  <2> QED BY <1>3, <2>1, <2>2 DEF ToHolder, FarFrames, Handles
<1>6. s \in Seq(FarFrames) /\ DOMAIN s = 1 .. n
  <2>1. s \in [1 .. n -> FarFrames]
    BY <1>3, <1>5
  <2> QED BY <1>4, <2>1
<1>7. Truthful(s)
  BY <1>5, <1>6 DEF Truthful
<1> QED BY <1>7 DEF s

\* Letting go of a handle of a table whose handles are those of far.
LEMMA LetGoKeeps ==
    ASSUME Linked(far), NEW f, Linked(f), Kept(far, f),
           NEW id \in Ids, f[id] # None, LetGo(f, id)
    PROVE  AskedFor
<1> DEFINE lost == Lost(f, id)
           idle == Idle(f, id)
           alive == {i \in lost : ~f[i].exit}
           ended == {i \in idle : f[i].exit}
<1>1. Linked(GivenBack(f, id)) /\ Kept(f, GivenBack(f, id))
  BY GivenBackKeeps
<1>2. /\ lost \subseteq Ids /\ idle \subseteq Ids
      /\ \A i \in lost \cup idle \cup {id} : far[i] # None
  <2>1. \A i \in lost \cup idle : i \in f[id].owned \cup f[id].transient
    BY DEF Lost, Idle
  <2>2. lost \subseteq Ids /\ idle \subseteq Ids /\ \A i \in lost \cup idle : f[i] # None
    BY <2>1, Closed1
  <2> HIDE DEF lost, idle
  <2> QED BY <2>2 DEF Kept
<1>3. \/ /\ far' = Unbind(GivenBack(f, id), lost \cup idle \cup {id})
         /\ toHolder' = toHolder \o (Releases(alive) \o Releases(idle) \o Releases({id}))
      \/ \E done \in SUBSET (idle \ ended) :
         /\ far' = Unbind(GivenBack(f, id), lost \cup done)
         /\ toHolder' = toHolder \o (Releases(alive) \o Releases(done))
  BY DEF LetGo, Send
<1>4. alive \subseteq lost
  OBVIOUS
<1> HIDE DEF lost, idle, alive, ended
<1>5. Truthful(Releases(alive)) /\ Truthful(Releases(idle)) /\ Truthful(Releases({id}))
  BY <1>2, <1>4, TruthfulReleases
<1>6. CASE /\ far' = Unbind(GivenBack(f, id), lost \cup idle \cup {id})
           /\ toHolder' = toHolder \o (Releases(alive) \o Releases(idle) \o Releases({id}))
  <2>1. Linked(far') /\ Kept(GivenBack(f, id), far')
    BY <1>1, <1>2, <1>6, UnbindKeeps
  <2>2. Truthful(Releases(alive) \o Releases(idle) \o Releases({id}))
    BY <1>5, TruthfulBoth
  <2>3. Kept(far, far')
    BY <1>1, <2>1, KeptTrans
  <2> QED BY <1>6, <2>1, <2>2, <2>3 DEF AskedFor
<1>7. ASSUME NEW done \in SUBSET (idle \ ended),
             far' = Unbind(GivenBack(f, id), lost \cup done),
             toHolder' = toHolder \o (Releases(alive) \o Releases(done))
      PROVE  AskedFor
  <2>1. Linked(far') /\ Kept(GivenBack(f, id), far')
    BY <1>1, <1>2, <1>7, UnbindKeeps
  <2>2. Truthful(Releases(done))
    BY <1>2, TruthfulReleases
  <2>3. Truthful(Releases(alive) \o Releases(done))
    BY <1>5, <2>2, TruthfulBoth
  <2>4. Kept(far, far')
    BY <1>1, <2>1, KeptTrans
  <2> QED BY <1>7, <2>1, <2>3, <2>4 DEF AskedFor
<1> QED BY <1>3, <1>6, <1>7
\* A handle changes in what it wants and counts; frames about it are sent.
LEMMA OneAsks ==
    ASSUME Linked(far), NEW id \in Ids, far[id] # None, NEW h \in Handles,
           h.of = far[id].of, h.exit = far[id].exit,
           h.owned = far[id].owned, h.transient = far[id].transient,
           far' = [far EXCEPT ![id] = h],
           NEW s, Truthful(s), toHolder' = toHolder \o s
    PROVE  AskedFor
<1>1. \A r \in h.owned \cup h.transient : far[r] # None
  BY Closed1
<1>2. Linked([far EXCEPT ![id] = h]) /\ Kept(far, [far EXCEPT ![id] = h])
  BY <1>1, SetHandle
<1> QED BY <1>2 DEF AskedFor

LEMMA WantIsTruthful ==
    ASSUME Linked(far), NEW id \in Ids, far[id] # None, NEW kinds \in SUBSET Kinds
    PROVE  Truthful(Want(id, kinds))
  BY TruthfulNone, TruthfulOne DEF Want

LEMMA ReaderAsksKeeps ==
    ASSUME ReaderOK, ReaderAsks
    PROVE  AskedFor /\ asks' \in 0 .. MaxAsks
                    /\ UNCHANGED <<holder, says, toReader, deaf>>
<1>1. Linked(far) /\ toHolder \in Seq(FarFrames)
  BY DEF ReaderOK
<1>2. Acts => asks' \in 0 .. MaxAsks /\ UNCHANGED <<holder, says, toReader, deaf>>
  BY RefsAssumption DEF Acts, ReaderOK
<1>3. PICK id \in Ids :
        \/ Hold(id) \/ Release(id) \/ ReleaseRef(id)
        \/ \E kinds \in Lists : Tune(id, kinds)
        \/ \E kind \in {"message", "state"} : Subscribe(id, kind)
        \/ Ready(id) \/ Wait(id) \/ Stop(id)
  BY DEF ReaderAsks
<1>4. Acts /\ far[id] # None
  BY <1>3 DEF Hold, Release, ReleaseRef, Tune, Subscribe, Ready, Wait, Stop, Askable, Bound
<1>5. far[id] \in Handles
  BY <1>1, <1>4, HandleOf
<1>6. CASE Hold(id)
  <2> DEFINE h == [far[id] EXCEPT !.count = @ + 1, !.keeps = @ + 1]
  <2>1. far' = [far EXCEPT ![id] = h] /\ toHolder' = toHolder \o <<>>
    BY <1>6 DEF Hold, Send
  <2>2. /\ h \in Handles /\ h.of = far[id].of /\ h.exit = far[id].exit
        /\ h.owned = far[id].owned /\ h.transient = far[id].transient
    <3> DEFINE b == far[id]
               k == b.keeps + 1
               n == b.count + 1
    <3>1. b \in Handles /\ k \in Nat /\ n \in Nat
      BY <1>5 DEF Handles
    <3>2. h = [b EXCEPT !.count = n, !.keeps = k]
      OBVIOUS
    <3> HIDE DEF h, b, k, n
    <3>3. /\ h \in Handles /\ h.of = b.of /\ h.exit = b.exit
          /\ h.owned = b.owned /\ h.transient = b.transient
      BY <3>1, <3>2 DEF Handles
    <3> QED BY <3>3 DEF b
  <2> HIDE DEF h
  <2>3. AskedFor
    BY <1>1, <1>4, <2>1, <2>2, TruthfulNone, OneAsks
  <2> QED BY <1>2, <1>4, <2>3
<1>7. CASE Release(id)
  <2>1. Kept(far, far)
    BY DEF Kept
  <2>2. LetGo(far, id)
    BY <1>7 DEF Release
  <2>3. AskedFor
    BY <1>1, <1>4, <2>1, <2>2, LetGoKeeps
  <2> QED BY <1>2, <1>4, <2>3
<1>8. CASE ReleaseRef(id)
  <2> DEFINE h == [far[id] EXCEPT !.count = IF @ > 0 THEN @ - 1 ELSE 0,
                                  !.keeps = IF @ > 0 THEN @ - 1 ELSE 0]
             f == [far EXCEPT ![id] = h]
  <2>1. IF f[id].count > 0 THEN far' = f /\ toHolder' = toHolder \o <<>>
        ELSE IF Askable(id) THEN LetGo(f, id)
        ELSE far' = Unbind(f, {id}) /\ toHolder' = toHolder \o <<>>
    <3>1. f = [far EXCEPT ![id].count = IF @ > 0 THEN @ - 1 ELSE 0,
                          ![id].keeps = IF @ > 0 THEN @ - 1 ELSE 0]
      BY <1>1 DEF Linked
    <3> HIDE DEF f
    <3> QED BY <1>8, <3>1 DEF ReleaseRef, Send
  <2>2. /\ h \in Handles /\ h.of = far[id].of /\ h.exit = far[id].exit
        /\ h.owned = far[id].owned /\ h.transient = far[id].transient
    <3> DEFINE b == far[id]
               k == IF b.keeps > 0 THEN b.keeps - 1 ELSE 0
               n == IF b.count > 0 THEN b.count - 1 ELSE 0
    <3>1. b \in Handles /\ k \in Nat /\ n \in Nat
      BY <1>5 DEF Handles
    <3>2. h = [b EXCEPT !.count = n, !.keeps = k]
      OBVIOUS
    <3> HIDE DEF h, b, k, n
    <3>3. /\ h \in Handles /\ h.of = b.of /\ h.exit = b.exit
          /\ h.owned = b.owned /\ h.transient = b.transient
      BY <3>1, <3>2 DEF Handles
    <3> QED BY <3>3 DEF b
  <2>3. f[id] = h
    BY <1>1 DEF Linked
  <2> HIDE DEF h
  <2>4. \A r \in h.owned \cup h.transient : far[r] # None
    BY <1>1, <1>4, <2>2, Closed1
  <2>5. Linked(f) /\ Kept(far, f)
    BY <1>1, <1>4, <2>2, <2>4, SetHandle
  <2>6. f[id] # None
    BY <2>2, <2>3, NoneAssumption
  <2> HIDE DEF f
  <2>7. CASE f[id].count > 0
    BY <1>2, <1>4, <2>1, <2>5, <2>7, TruthfulNone DEF AskedFor
  <2>8. CASE ~(f[id].count > 0) /\ Askable(id)
    <3>1. LetGo(f, id)
      BY <2>1, <2>8
    <3>2. AskedFor
      BY <1>1, <2>5, <2>6, <3>1, LetGoKeeps
    <3> QED BY <1>2, <1>4, <3>2
  <2>9. CASE ~(f[id].count > 0) /\ ~Askable(id)
    <3>1. far' = Unbind(f, {id}) /\ toHolder' = toHolder \o <<>>
      BY <2>1, <2>9
    <3>2. Linked(far') /\ Kept(f, far')
      BY <2>5, <3>1, UnbindKeeps
    <3>3. Kept(far, far')
      BY <2>5, <3>2, KeptTrans
    <3> QED BY <1>2, <1>4, <3>1, <3>2, <3>3, TruthfulNone DEF AskedFor
  <2> QED BY <2>7, <2>8, <2>9
<1>9. ASSUME NEW kinds \in Lists, Tune(id, kinds)
      PROVE  AskedFor
  <2> DEFINE h == [far[id] EXCEPT !.wanted = kinds]
  <2>1. far' = [far EXCEPT ![id] = h] /\ toHolder' = toHolder \o Want(id, kinds)
    BY <1>9 DEF Tune, Send
  <2>2. kinds \in SUBSET Kinds
    BY RefsAssumption
  <2>3. /\ h \in Handles /\ h.of = far[id].of /\ h.exit = far[id].exit
        /\ h.owned = far[id].owned /\ h.transient = far[id].transient
    BY <1>5, <2>2 DEF Handles
  <2> HIDE DEF h
  <2> QED BY <1>1, <1>4, <2>1, <2>2, <2>3, WantIsTruthful, OneAsks
<1>10. ASSUME Ready(id) PROVE AskedFor
  <2> DEFINE h == [far[id] EXCEPT !.wanted = @ \cup {"state"}, !.readying = TRUE]
             kinds == far[id].wanted \cup {"state"}
  <2>1. far' = [far EXCEPT ![id] = h] /\ toHolder' = toHolder \o Want(id, kinds)
    BY <1>10 DEF Ready, Send
  <2>2. kinds \in SUBSET Kinds
    BY <1>5 DEF Handles, Kinds
  <2>3. /\ h \in Handles /\ h.of = far[id].of /\ h.exit = far[id].exit
        /\ h.owned = far[id].owned /\ h.transient = far[id].transient
    BY <1>5, <2>2 DEF Handles
  <2> HIDE DEF h, kinds
  <2> QED BY <1>1, <1>4, <2>1, <2>2, <2>3, WantIsTruthful, OneAsks
<1> DEFINE hw == [far[id] EXCEPT !.wanted = @ \cup {"exit"}, !.waiting = TRUE]
           kw == far[id].wanted \cup {"exit"}
<1>11. kw \in SUBSET Kinds
  BY <1>5 DEF Handles, Kinds
<1>12. /\ hw \in Handles /\ hw.of = far[id].of /\ hw.exit = far[id].exit
       /\ hw.owned = far[id].owned /\ hw.transient = far[id].transient
  BY <1>5, <1>11 DEF Handles
<1>13. ASSUME Wait(id) PROVE AskedFor
  <2>1. far' = [far EXCEPT ![id] = hw] /\ toHolder' = toHolder \o Want(id, kw)
    BY <1>13 DEF Wait, Send
  <2> HIDE DEF hw, kw
  <2> QED BY <1>1, <1>4, <1>11, <1>12, <2>1, WantIsTruthful, OneAsks
<1>14. ASSUME Stop(id) PROVE AskedFor
  <2> DEFINE fr == ToHolder("stop", id, {})
             s == Want(id, kw)
  <2>1. far' = [far EXCEPT ![id] = hw] /\ toHolder' = toHolder \o Append(s, fr)
    BY <1>14 DEF Stop, Send
  <2>2. Truthful(s) /\ Truthful(<<fr>>)
    BY <1>1, <1>4, <1>11, WantIsTruthful, TruthfulOne
  <2> HIDE DEF hw, s, fr
  <2>3. Truthful(s \o <<fr>>)
    BY <2>2, TruthfulBoth
  <2>4. s \o <<fr>> = Append(s, fr)
    <3>1. s \in Seq(FarFrames) /\ <<fr>> \in Seq(FarFrames)
      BY <2>2 DEF Truthful
    <3>2. fr \in FarFrames
      BY <3>1
    <3> QED BY <3>1, <3>2
  <2> QED BY <1>1, <1>4, <1>12, <2>1, <2>3, <2>4, OneAsks
<1>15. ASSUME NEW kind \in {"message", "state"}, Subscribe(id, kind)
       PROVE  AskedFor
  <2> DEFINE kinds == far[id].wanted \cup {kind}
             h == [far[id] EXCEPT !.wanted = kinds]
  <2>1. far' = [far EXCEPT ![id] = h] /\ toHolder' = toHolder \o Want(id, kinds)
    BY <1>15 DEF Subscribe, Send
  <2>2. kinds \in SUBSET Kinds
    BY <1>5 DEF Handles, Kinds
  <2> HIDE DEF kinds
  <2>3. /\ h \in Handles /\ h.of = far[id].of /\ h.exit = far[id].exit
        /\ h.owned = far[id].owned /\ h.transient = far[id].transient
    BY <1>5, <2>2 DEF Handles
  <2> HIDE DEF h
  <2> QED BY <1>1, <1>4, <2>1, <2>2, <2>3, WantIsTruthful, OneAsks
<1> QED BY <1>2, <1>3, <1>4, <1>6, <1>7, <1>8, <1>9, <1>10, <1>13, <1>14, <1>15
---------------------------------------------------------------------------
\* The steps.

\* What the holder's side does not touch of the reader's.
LEMMA ReaderStays ==
    ASSUME ReaderOK, UNCHANGED reader, UNCHANGED toHolder
    PROVE  ReaderOK'
  BY DEF ReaderOK, Linked, reader

LEMMA NumberedStays ==
    ASSUME Numbered, UNCHANGED <<number, named, unsaid, nextId>>
    PROVE  Numbered'
  BY DEF Numbered, Unused

LEMMA HandOverKeeps ==
    ASSUME TInv, NEW p \in Procs, HandOver(p)
    PROVE  TInv'
<1>1. Say(ToReader("message", None, 0, 0, IdFor(p), p), p)
  BY DEF HandOver
<1>2. Numbered' /\ toReader' \in Seq(Frames)
  BY <1>1, SayKeeps DEF TInv, HolderOK
<1>3. /\ UNCHANGED <<running, state, record, asked, toHolder, reader, deaf>>
      /\ says < MaxSays /\ says' = says + 1
  BY DEF HandOver
<1>4. HolderOK'
  BY <1>2, <1>3, RefsAssumption DEF TInv, HolderOK
<1> QED BY <1>2, <1>3, <1>4, ReaderStays DEF TInv

LEMMA StateOf ==
    ASSUME HolderOK, NEW p \in Procs
    PROVE  /\ state[p].v \in Nat /\ state[p].ref \in Leaves \cup {None}
           /\ state[p].ref \in Procs \cup {None}
  BY DEF HolderOK, Procs

LEMMA PublishKeeps ==
    ASSUME TInv, NEW p \in Carriers, NEW c \in Leaves \cup {None}, Publish(p, c)
    PROVE  TInv'
<1>1. /\ p \in Procs /\ c \in Procs \cup {None}
      /\ state[p].v + 1 \in Nat
  BY StateOf DEF TInv, Procs
<1>2. Numbered /\ toReader \in Seq(Frames)
  BY DEF TInv, HolderOK
<1>3. Numbered' /\ toReader' \in Seq(Frames)
  <2>1. CASE /\ number[p] # 0
             /\ Say(ToReader("state", p, number[p], state[p].v + 1, IdFor(c), c), c)
    <3>1. number[p] \in Ids \cup {0} /\ (number[p] = 0 <=> p = None)
      BY <1>1, <1>2, <2>1, RefsAssumption DEF Numbered, Procs
    <3> QED BY <1>1, <1>2, <2>1, <3>1, SayKeeps
  <2>2. CASE UNCHANGED <<number, named, unsaid, nextId, toReader>>
    BY <1>2, <2>2, NumberedStays
  <2> QED BY <2>1, <2>2 DEF Publish
<1>4. /\ UNCHANGED <<running, record, asked, toHolder, reader, deaf>>
      /\ says < MaxSays /\ says' = says + 1
      /\ state' = [state EXCEPT ![p] = [v |-> @.v + 1, ref |-> c]]
  BY DEF Publish
<1>5. state' \in [Procs -> [v : Nat, ref : Leaves \cup {None}]]
  BY <1>1, <1>4 DEF TInv, HolderOK
<1>6. HolderOK'
  BY <1>3, <1>4, <1>5, RefsAssumption DEF TInv, HolderOK
<1> QED BY <1>3, <1>4, <1>6, ReaderStays DEF TInv

LEMMA SpeakKeeps ==
    ASSUME TInv, NEW p \in Carriers, NEW c \in Leaves \cup {None}, Speak(p, c)
    PROVE  TInv'
<1>1. /\ p \in Procs /\ c \in Procs \cup {None} /\ number[p] # 0
      /\ Say(ToReader("message", p, number[p], 0, IdFor(c), c), c)
  BY DEF Procs, Speak
<1>2. Numbered /\ toReader \in Seq(Frames)
  BY DEF TInv, HolderOK
<1>3. number[p] \in Ids \cup {0} /\ (number[p] = 0 <=> p = None)
  BY <1>1, <1>2, RefsAssumption DEF Numbered, Procs
<1>4. Numbered' /\ toReader' \in Seq(Frames)
  BY <1>1, <1>2, <1>3, SayKeeps
<1>5. /\ UNCHANGED <<running, state, record, asked, toHolder, reader, deaf>>
      /\ says < MaxSays /\ says' = says + 1
  BY DEF Speak
<1>6. HolderOK'
  BY <1>4, <1>5, RefsAssumption DEF TInv, HolderOK
<1> QED BY <1>4, <1>5, <1>6, ReaderStays DEF TInv

LEMMA EndKeeps ==
    ASSUME TInv, NEW p \in Procs, End(p)
    PROVE  TInv'
<1> DEFINE s == state[p]
<1>1. Numbered /\ toReader \in Seq(Frames) /\ s.v \in Nat /\ s.ref \in Procs \cup {None}
  BY StateOf DEF TInv, HolderOK
<1>2. number[p] \in Ids \cup {0}
  BY <1>1 DEF Numbered
<1>3. Numbered' /\ toReader' \in Seq(Frames)
  <2>1. CASE /\ Told(number[p])
             /\ Say(ToReader("exit", p, number[p], s.v, IdFor(s.ref), s.ref), s.ref)
    <3>1. number[p] # 0 /\ (number[p] = 0 <=> p = None)
      BY <2>1, RefsAssumption DEF Told, Procs
    <3> HIDE DEF s
    <3> QED BY <1>1, <1>2, <2>1, <3>1, SayKeeps
  <2>2. CASE UNCHANGED <<number, named, unsaid, nextId, toReader>>
    BY <1>1, <2>2, NumberedStays
  <2> QED BY <2>1, <2>2 DEF End
<1>4. /\ UNCHANGED <<state, asked, says, toHolder, reader, deaf>>
      /\ running' = running \ {p} /\ record' = Closed(number[p])
  BY DEF End
<1>5. record' \in [Ids -> (SUBSET Kinds) \cup {None}]
  <2>1. HolderOK /\ record \in [Ids -> (SUBSET Kinds) \cup {None}]
    BY DEF TInv, HolderOK
  <2>2. record' = record \/ (number[p] \in Ids /\ record' = [record EXCEPT ![number[p]] = None])
    BY <1>2, <1>4 DEF Closed
  <2> QED BY <2>1, <2>2, RecordSet
<1>6. HolderOK'
  BY <1>3, <1>4, <1>5 DEF TInv, HolderOK
<1> QED BY <1>3, <1>4, <1>6, ReaderStays DEF TInv

LEMMA FlushKeeps ==
    ASSUME TInv, Flush
    PROVE  TInv'
<1> DEFINE T == [proc : Procs, id : Ids]
           u == Head(unsaid)
           fr == ToReader("methods", u.proc, u.id, 0, 0, None)
<1>1. /\ unsaid # <<>> /\ unsaid' = Tail(unsaid)
      /\ record' = [record EXCEPT ![u.id] = IF u.proc \in running THEN {} ELSE None]
      /\ toReader' = Append(toReader, fr)
      /\ UNCHANGED <<running, state, number, named, nextId, asked, says, toHolder, reader, deaf>>
  BY DEF Flush, Streamed, reader
<1>2. unsaid \in Seq(T)
  BY DEF TInv, Numbered
<1> HIDE DEF T
<1>3. u \in T /\ unsaid' \in Seq(T)
  BY <1>1, <1>2
<1>4. u.proc \in Procs /\ u.id \in Ids
  BY <1>3 DEF T
<1> HIDE DEF u
<1>5. fr \in Frames
  BY <1>4, RefsAssumption DEF ToReader, Frames, Procs, Ids
<1>6. record' \in [Ids -> (SUBSET Kinds) \cup {None}]
  <2> DEFINE k == IF u.proc \in running THEN {} ELSE None
  <2>1. HolderOK /\ (k = None \/ k \subseteq Kinds)
    BY DEF TInv
  <2>2. record' = [record EXCEPT ![u.id] = k]
    BY <1>1
  <2> HIDE DEF k
  <2> QED BY <1>4, <2>1, <2>2, RecordSet
<1> HIDE DEF fr
<1>7. toReader' \in Seq(Frames)
  BY <1>1, <1>5 DEF TInv, HolderOK
<1>8. HolderOK'
  BY <1>1, <1>6, <1>7 DEF TInv, HolderOK
<1>9. Numbered'
  BY <1>1, <1>3 DEF TInv, Numbered, Unused, T
<1> QED BY <1>1, <1>8, <1>9, ReaderStays DEF TInv

\* What is next on its way to the holder.
LEMMA HolderHears ==
    ASSUME TInv, toHolder # <<>>
    PROVE  /\ Head(toHolder) \in FarFrames /\ Tail(toHolder) \in Seq(FarFrames)
           /\ Head(toHolder).to \in Ids /\ Head(toHolder).kinds \subseteq Kinds
<1>1. toHolder \in Seq(FarFrames)
  BY DEF TInv, ReaderOK
<1>2. Head(toHolder) \in FarFrames /\ Tail(toHolder) \in Seq(FarFrames)
  BY <1>1
<1> QED BY <1>2 DEF FarFrames

LEMMA HolderTunesKeeps ==
    ASSUME TInv, HolderTunes
    PROVE  TInv'
<1> DEFINE f == Head(toHolder)
<1>1. /\ toHolder # <<>> /\ toHolder' = Tail(toHolder)
      /\ UNCHANGED <<running, state, asked, says, reader>>
  BY DEF HolderTunes
<1>2. Tail(toHolder) \in Seq(FarFrames) /\ f.to \in Ids /\ f.kinds \subseteq Kinds
  BY <1>1, HolderHears
<1>3. \/ /\ named[f.to] # None /\ record[f.to] # None
         /\ TuneTo(f.to, f.kinds) /\ UNCHANGED deaf
      \/ /\ deaf' = deaf \cup {f.to}
         /\ UNCHANGED <<record, number, named, unsaid, nextId, toReader>>
  BY DEF HolderTunes
<1> HIDE DEF f
<1>4. ReaderOK'
  BY <1>1, <1>2 DEF TInv, ReaderOK, Linked, reader
<1>5. Numbered /\ HolderOK
  BY DEF TInv
<1>6. CASE named[f.to] # None /\ record[f.to] # None /\ TuneTo(f.to, f.kinds) /\ UNCHANGED deaf
  <2> DEFINE p == named[f.to]
             s == state[p]
  <2>1. p \in Procs
    BY <1>2, <1>5, <1>6 DEF Numbered
  <2>2. s.v \in Nat /\ s.ref \in Procs \cup {None}
    BY <1>5, <2>1, StateOf
  <2>3. f.to # 0 /\ p # None
    BY <1>2, <1>6 DEF Ids
  <2>4. \/ Say(ToReader("state", p, f.to, s.v, IdFor(s.ref), s.ref), s.ref)
        \/ UNCHANGED <<number, named, unsaid, nextId, toReader>>
    BY <1>6 DEF TuneTo
  <2>5. toReader \in Seq(Frames)
    BY <1>5 DEF HolderOK
  <2> HIDE DEF p, s
  <2>6. Numbered' /\ toReader' \in Seq(Frames)
    <3>1. CASE Say(ToReader("state", p, f.to, s.v, IdFor(s.ref), s.ref), s.ref)
      BY <1>2, <1>5, <2>1, <2>2, <2>3, <2>5, <3>1, SayKeeps
    <3>2. CASE UNCHANGED <<number, named, unsaid, nextId, toReader>>
      BY <1>5, <2>5, <3>2, NumberedStays
    <3> QED BY <2>4, <3>1, <3>2
  <2>7. record' \in [Ids -> (SUBSET Kinds) \cup {None}]
    BY <1>2, <1>5, <1>6 DEF HolderOK, TuneTo
  <2>8. HolderOK'
    BY <1>1, <1>5, <1>6, <2>6, <2>7 DEF HolderOK
  <2> QED BY <1>4, <2>6, <2>8 DEF TInv
<1>7. CASE /\ deaf' = deaf \cup {f.to}
           /\ UNCHANGED <<record, number, named, unsaid, nextId, toReader>>
  <2>1. HolderOK'
    BY <1>1, <1>2, <1>5, <1>7 DEF HolderOK
  <2> QED BY <1>4, <1>5, <1>7, <2>1, NumberedStays DEF TInv
<1> QED BY <1>3, <1>6, <1>7

LEMMA HolderReleasesKeeps ==
    ASSUME TInv, HolderReleases
    PROVE  TInv'
<1> DEFINE id == Head(toHolder).to
<1>1. /\ toHolder # <<>> /\ toHolder' = Tail(toHolder)
      /\ UNCHANGED <<running, state, nextId, unsaid, asked, says, toReader, reader, deaf>>
      /\ IF named[id] # None
         THEN /\ record' = [record EXCEPT ![id] = None]
              /\ number' = [number EXCEPT ![named[id]] = 0]
              /\ named' = [named EXCEPT ![id] = None]
         ELSE UNCHANGED <<record, number, named>>
  BY DEF HolderReleases
<1>2. Tail(toHolder) \in Seq(FarFrames) /\ id \in Ids
  BY <1>1, HolderHears
<1> HIDE DEF id
<1>3. ReaderOK'
  BY <1>1, <1>2 DEF TInv, ReaderOK, Linked, reader
<1>4. Numbered /\ HolderOK
  BY DEF TInv
<1>5. CASE named[id] = None
  <2>1. UNCHANGED <<record, number, named>>
    BY <1>1, <1>5
  <2>2. HolderOK'
    BY <1>1, <1>4, <2>1 DEF HolderOK
  <2> QED BY <1>1, <1>3, <1>4, <2>1, <2>2, NumberedStays DEF TInv
<1>6. CASE named[id] # None
  <2> DEFINE p == named[id]
  <2>1. p \in Procs /\ number[p] = id
    BY <1>2, <1>4, <1>6 DEF Numbered
  <2>2. /\ record' = [record EXCEPT ![id] = None]
        /\ number' = [number EXCEPT ![p] = 0]
        /\ named' = [named EXCEPT ![id] = None]
    BY <1>1, <1>6
  <2> HIDE DEF p
  <2>3. record' \in [Ids -> (SUBSET Kinds) \cup {None}]
    BY <1>2, <1>4, <2>2, RecordSet
  <2>4. HolderOK'
    BY <1>1, <1>4, <2>3 DEF HolderOK
  <2>5. /\ number \in [Procs -> Ids \cup {0}] /\ named \in [Ids -> Procs \cup {None}]
        /\ \A q \in Procs, i \in Ids : number[q] = i <=> named[i] = q
        /\ None \notin Procs /\ 0 \notin Ids
    BY <1>4, RefsAssumption DEF Numbered, Procs, Ids
  <2>6. /\ \A q \in Procs : number'[q] = IF q = p THEN 0 ELSE number[q]
        /\ \A i \in Ids : named'[i] = IF i = id THEN None ELSE named[i]
        /\ number' \in [Procs -> Ids \cup {0}] /\ named' \in [Ids -> Procs \cup {None}]
    BY <1>2, <2>1, <2>2, <2>5
  <2>7. \A q \in Procs, i \in Ids : number'[q] = i <=> named'[i] = q
    BY <1>2, <2>1, <2>5, <2>6
  <2>8. Numbered'
    BY <1>1, <1>4, <2>6, <2>7 DEF Numbered, Unused
  <2> QED BY <1>3, <2>4, <2>8 DEF TInv
<1> QED BY <1>5, <1>6

LEMMA HolderStopsKeeps ==
    ASSUME TInv, HolderStops
    PROVE  TInv'
<1> DEFINE p == named[Head(toHolder).to]
<1>1. /\ toHolder # <<>> /\ toHolder' = Tail(toHolder)
      /\ UNCHANGED <<running, state, number, named, nextId, unsaid, record, says,
                     toReader, reader, deaf>>
      /\ asked' = IF p = None THEN asked ELSE asked \cup {p}
  BY DEF HolderStops
<1>2. Tail(toHolder) \in Seq(FarFrames) /\ Head(toHolder).to \in Ids
  BY <1>1, HolderHears
<1>3. p \in Procs \cup {None}
  BY <1>2 DEF TInv, Numbered
<1> HIDE DEF p
<1>4. HolderOK'
  BY <1>1, <1>3 DEF TInv, HolderOK
<1>5. ReaderOK'
  BY <1>1, <1>2 DEF TInv, ReaderOK, Linked, reader
<1> QED BY <1>1, <1>4, <1>5, NumberedStays DEF TInv

LEMMA ReaderAsksType ==
    ASSUME TInv, ReaderAsks
    PROVE  TInv'
<1>1. AskedFor /\ asks' \in 0 .. MaxAsks /\ UNCHANGED <<holder, says, toReader, deaf>>
  BY ReaderAsksKeeps DEF TInv
<1>2. PICK s : Truthful(s) /\ toHolder' = toHolder \o s
  BY <1>1 DEF AskedFor
<1>3. toHolder' \in Seq(FarFrames)
  <2>1. s \in Seq(FarFrames) /\ toHolder \in Seq(FarFrames)
    BY <1>2 DEF Truthful, TInv, ReaderOK
  <2> QED BY <1>2, <2>1
<1>4. ReaderOK'
  BY <1>1, <1>3 DEF ReaderOK, AskedFor
<1>5. HolderOK'
  BY <1>1 DEF TInv, HolderOK, holder
<1> QED BY <1>1, <1>4, <1>5, NumberedStays DEF TInv, holder

LEMMA ReaderGetsType ==
    ASSUME TInv, ReaderGets
    PROVE  TInv'
<1>1. ReaderOK' /\ toReader' \in Seq(Frames)
  BY ReaderGetsKeeps DEF TInv, HolderOK
<1>2. UNCHANGED <<holder, says, deaf>>
  BY DEF ReaderGets
<1>3. HolderOK'
  BY <1>1, <1>2 DEF TInv, HolderOK, holder
<1> QED BY <1>1, <1>2, <1>3, NumberedStays DEF TInv, holder

LEMMA TInvNext == TInv /\ [Next]_vars => TInv'
<1> SUFFICES ASSUME TInv, [Next]_vars PROVE TInv'
  OBVIOUS
<1>1. CASE \E p \in Procs : HandOver(p) \/ End(p)
  BY <1>1, HandOverKeeps, EndKeeps
<1>2. CASE \E p \in Carriers, c \in Leaves \cup {None} : Publish(p, c) \/ Speak(p, c)
  BY <1>2, PublishKeeps, SpeakKeeps
<1>3. CASE Flush
  BY <1>3, FlushKeeps
<1>4. CASE HolderGets
  BY <1>4, HolderTunesKeeps, HolderReleasesKeeps, HolderStopsKeeps DEF HolderGets
<1>5. CASE ReaderGets
  BY <1>5, ReaderGetsType
<1>6. CASE ReaderAsks
  BY <1>6, ReaderAsksType
<1>7. CASE UNCHANGED vars
  <2>1. UNCHANGED <<holder, says, toReader, deaf>> /\ UNCHANGED reader /\ UNCHANGED toHolder
    BY <1>7 DEF vars
  <2>2. HolderOK'
    BY <2>1 DEF TInv, HolderOK, holder
  <2> QED BY <2>1, <2>2, NumberedStays, ReaderStays DEF TInv, holder
<1> QED BY <1>1, <1>2, <1>3, <1>4, <1>5, <1>6, <1>7 DEF Next, HolderSays
\* There are as many ids as carriers, so that they can be numbered.
LEMMA FirstNumbers ==
    /\ Cardinality(Carriers) \in Nat
    /\ First \in [Carriers -> 1 .. Cardinality(Carriers)]
    /\ \A c, d \in Carriers : c # d => First[c] # First[d]
<1> DEFINE n == Cardinality(Carriers)
<1>1. n \in Nat /\ \E b : b \in Bijection(1 .. n, Carriers)
  BY RefsAssumption, FS_CardinalityType DEF ExistsBijection
<1> HIDE DEF n
<1>2. PICK b : b \in Bijection(1 .. n, Carriers)
  BY <1>1
<1>3. /\ b \in [1 .. n -> Carriers]
      /\ \A c \in Carriers : \E i \in 1 .. n : b[i] = c
  BY <1>2 DEF Bijection, Surjection
<1> DEFINE f == [c \in Carriers |-> CHOOSE i \in 1 .. n : b[i] = c]
<1>4. \A c \in Carriers : f[c] \in 1 .. n /\ b[f[c]] = c
  BY <1>3
<1>5. f \in [Carriers -> 1 .. n]
  BY <1>4
<1> HIDE DEF f
<1>6. \A c, d \in Carriers : c # d => f[c] # f[d]
  BY <1>4
<1>7. \E g \in [Carriers -> 1 .. n] : \A c, d \in Carriers : c # d => g[c] # g[d]
  BY <1>5, <1>6
<1>8. First \in [Carriers -> 1 .. n] /\ \A c, d \in Carriers : c # d => First[c] # First[d]
  BY <1>7 DEF First, n
<1> QED BY <1>1, <1>8 DEF n

LEMMA TInvInit == Init => TInv
<1> SUFFICES ASSUME Init PROVE TInv
  OBVIOUS
<1> DEFINE n == Cardinality(Carriers)
<1>1. /\ n \in Nat /\ First \in [Carriers -> 1 .. n]
      /\ \A c, d \in Carriers : c # d => First[c] # First[d]
  BY FirstNumbers
<1>2. n <= MaxIds /\ MaxIds \in Nat /\ Carriers \subseteq Procs /\ None \notin Procs
  BY RefsAssumption DEF Procs
<1>3. nextId = n + 1
  BY DEF Init
<1> HIDE DEF n
<1>4. \A i \in Ids : /\ Known(i) => named[i] \in Carriers /\ First[named[i]] = i
                     /\ ~Known(i) => named[i] = None
  BY DEF Init, Known
<1>5. \A p \in Procs : number[p] = IF p \in Carriers THEN First[p] ELSE 0
  BY DEF Init
<1>6. \A c \in Carriers : First[c] \in Ids /\ First[c] <= n
  BY <1>1, <1>2 DEF Ids
<1>7. /\ number \in [Procs -> Ids \cup {0}]
      /\ named \in [Ids -> Procs \cup {None}]
  <2> DEFINE nm(i) == IF Known(i) THEN CHOOSE c \in Carriers : First[c] = i ELSE None
             no(p) == IF p \in Carriers THEN First[p] ELSE 0
  <2>0. number = [p \in Procs |-> no(p)] /\ named = [i \in Ids |-> nm(i)]
    BY DEF Init
  <2> HIDE DEF nm, no
  <2>1. /\ number = [p \in Procs |-> number[p]]
        /\ named = [i \in Ids |-> named[i]]
    BY <2>0
  <2>2. \A p \in Procs : number[p] \in Ids \cup {0}
    BY <1>5, <1>6
  <2>3. \A i \in Ids : named[i] \in Procs \cup {None}
    BY <1>2, <1>4
  <2> QED BY <2>1, <2>2, <2>3
<1>8. \A p \in Procs, i \in Ids : number[p] = i <=> named[i] = p
  <2>1. ASSUME NEW p \in Procs, NEW i \in Ids, number[p] = i
        PROVE  named[i] = p
    <3>1. p \in Carriers /\ First[p] = i
      BY <1>5, <2>1 DEF Ids
    <3>2. Known(i)
      BY <3>1 DEF Known
    <3> QED BY <1>1, <1>4, <3>1, <3>2
  <2>2. ASSUME NEW p \in Procs, NEW i \in Ids, named[i] = p
        PROVE  number[p] = i
    BY <1>2, <1>4, <1>5, <2>2
  <2> QED BY <2>1, <2>2
<1>9. Unused
  <2>1. ASSUME NEW i \in Ids, i >= nextId PROVE ~Known(i)
    BY <1>1, <1>3, <1>6, <2>1 DEF Known, Ids
  <2> QED BY <1>4, <2>1 DEF Unused
<1>10. Numbered
  <2>1. nextId \in 1 .. MaxIds + 1
    BY <1>1, <1>2, <1>3
  <2>2. unsaid \in Seq([proc : Procs, id : Ids])
    <3>1. unsaid = <<>>
      BY DEF Init
    <3> QED BY <3>1
  <2> QED BY <1>7, <1>8, <1>9, <2>1, <2>2 DEF Numbered
<1>11. HolderOK
  <2>1. /\ running = Procs /\ asked = {} /\ deaf = {} /\ says = 0 /\ toReader = <<>>
        /\ state = [p \in Procs |-> [v |-> 1, ref |-> None]]
        /\ record = [i \in Ids |-> IF Known(i) THEN Heard ELSE None]
    BY DEF Init
  <2>2. state \in [Procs -> [v : Nat, ref : Leaves \cup {None}]]
    BY <2>1
  <2>3. record \in [Ids -> (SUBSET Kinds) \cup {None}]
    <3>1. Heard \in SUBSET Kinds
      BY DEF Heard, Kinds
    <3> QED BY <2>1, <3>1
  <2>4. says \in 0 .. MaxSays /\ toReader \in Seq(Frames)
    BY <2>1, RefsAssumption
  <2> QED BY <2>1, <2>2, <2>3, <2>4 DEF HolderOK
<1>12. ReaderOK
  <2> DEFINE h(i) == [NewHandle(named[i]) EXCEPT !.wanted = Heard, !.version = 1,
                                                 !.keeps = 1, !.count = 1]
  <2>1. far = [i \in Ids |-> IF Known(i) THEN h(i) ELSE None]
    BY DEF Init
  <2>2. \A i \in Ids : Known(i) =>
           h(i) \in Handles /\ h(i).owned = {} /\ h(i).transient = {}
    BY <1>2, <1>4 DEF NewHandle, Handles, Heard, Kinds
  <2> HIDE DEF h
  <2>3. Linked(far)
    BY <2>1, <2>2 DEF Linked
  <2>4. toHolder = <<>> /\ asks = 0
    BY DEF Init
  <2>5. toHolder \in Seq(FarFrames) /\ asks \in 0 .. MaxAsks
    BY <2>4, RefsAssumption
  <2> QED BY <2>3, <2>5 DEF ReaderOK
<1> QED BY <1>10, <1>11, <1>12 DEF TInv

\* The inductive invariant of the tables: the holder's two are inverse, what IdSpace
\* has not given names nobody, and the handles of the reader's table refer to handles
\* that are in it (process-ref.ts:112-229, remote-process.ts:240-366).
THEOREM RefsTables == Spec => []TInv
  BY TInvInit, TInvNext, PTL DEF Spec

\* Both tables keep their types, the two tables of one's own processes stay inverse,
\* and no handle refers to one that is out of the table, however releases cascade.
THEOREM RefsType == Spec => []TypeOK
<1>1. TInv => TypeOK
  BY TInvIsTypeOK
<1> QED BY <1>1, RefsTables, PTL
---------------------------------------------------------------------------
\* A number means one process: in the holder's table, in the reader's, in every frame
\* on both wires and among the streams not yet begun.

LEMMA RangeAppend ==
    ASSUME NEW T, NEW s \in Seq(T), NEW e \in T
    PROVE  Range(Append(s, e)) = Range(s) \cup {e}
<1>1. /\ DOMAIN Append(s, e) = 1 .. Len(s) + 1 /\ DOMAIN s = 1 .. Len(s)
      /\ Append(s, e)[Len(s) + 1] = e
      /\ \A n \in 1 .. Len(s) : Append(s, e)[n] = s[n]
      /\ Len(s) \in Nat
  OBVIOUS
<1>2. 1 .. Len(s) + 1 = (1 .. Len(s)) \cup {Len(s) + 1}
  BY <1>1
<1> QED BY <1>1, <1>2 DEF Range

LEMMA RangeOf ==
    ASSUME NEW T, NEW s \in Seq(T), NEW e \in Range(s)
    PROVE  e \in T
  BY DEF Range

LEMMA RangeTail ==
    ASSUME NEW T, NEW s \in Seq(T), s # <<>>
    PROVE  Head(s) \in Range(s) /\ Range(Tail(s)) \subseteq Range(s)
<1>1. /\ DOMAIN s = 1 .. Len(s) /\ Len(s) \in Nat /\ Len(s) > 0 /\ Head(s) = s[1]
      /\ DOMAIN Tail(s) = 1 .. Len(s) - 1
      /\ \A n \in 1 .. Len(s) - 1 : Tail(s)[n] = s[n + 1]
  OBVIOUS
<1>2. ASSUME NEW n \in 1 .. Len(s) - 1 PROVE n + 1 \in 1 .. Len(s)
  BY <1>1, <1>2
<1> QED BY <1>1, <1>2 DEF Range

LEMMA RangeConcat ==
    ASSUME NEW T, NEW s \in Seq(T), NEW t \in Seq(T)
    PROVE  Range(s \o t) \subseteq Range(s) \cup Range(t)
<1>1. /\ Len(s) \in Nat /\ Len(t) \in Nat
      /\ DOMAIN s = 1 .. Len(s) /\ DOMAIN t = 1 .. Len(t)
      /\ DOMAIN (s \o t) = 1 .. Len(s) + Len(t)
      /\ \A n \in 1 .. Len(s) + Len(t) :
            (s \o t)[n] = IF n <= Len(s) THEN s[n] ELSE t[n - Len(s)]
  OBVIOUS
<1>2. ASSUME NEW n \in 1 .. Len(s) + Len(t)
      PROVE  (s \o t)[n] \in Range(s) \cup Range(t)
  <2>1. CASE n <= Len(s)
    BY <1>1, <1>2, <2>1 DEF Range
  <2>2. CASE n > Len(s)
    <3>1. n - Len(s) \in DOMAIN t /\ (s \o t)[n] = t[n - Len(s)]
      BY <1>1, <1>2, <2>2
    <3> QED BY <3>1 DEF Range
  <2> QED BY <1>1, <2>1, <2>2
<1> QED BY <1>1, <1>2 DEF Range

\* What a frame to the reader says a number means.
Calls(fr, i, p) == (fr.to = i /\ fr.about = p) \/ (fr.ref = i /\ fr.refOf = p)

Means(i, p) ==
    \/ named[i] = p
    \/ far[i] # None /\ far[i].of = p
    \/ \E fr \in Range(toHolder) : fr.to = i /\ fr.about = p
    \/ \E fr \in Range(toReader) : Calls(fr, i, p)
    \/ \E u \in Range(unsaid) : u.id = i /\ u.proc = p

OneMeaning ==
    \A i \in Ids, p \in Procs : Means(i, p) =>
        i < nextId /\ \A q \in Procs : Means(i, q) => p = q

LEMMA OneMeaningIsSameProcess == TInv /\ OneMeaning => SameProcess
<1> SUFFICES ASSUME TInv, OneMeaning PROVE SameProcess
  OBVIOUS
<1>1. /\ toHolder \in Seq(FarFrames) /\ toReader \in Seq(Frames)
      /\ named \in [Ids -> Procs \cup {None}] /\ Linked(far)
  BY DEF TInv, Numbered, HolderOK, ReaderOK
<1>2. ASSUME NEW n \in DOMAIN toHolder
      PROVE  named[toHolder[n].to] \in {None, toHolder[n].about}
  <2> DEFINE fr == toHolder[n]
  <2>1. fr \in FarFrames /\ fr \in Range(toHolder)
    BY <1>1, <1>2 DEF Range
  <2>2. fr.to \in Ids /\ fr.about \in Procs
    BY <2>1 DEF FarFrames
  <2>3. Means(fr.to, fr.about)
    BY <2>1 DEF Means
  <2>4. \A q \in Procs : named[fr.to] = q => Means(fr.to, q)
    BY DEF Means
  <2> HIDE DEF fr
  <2>5. named[fr.to] \in {None, fr.about}
    BY <1>1, <2>2, <2>3, <2>4 DEF OneMeaning
  <2> QED BY <2>5 DEF fr
<1>3. ASSUME NEW n \in DOMAIN toReader
      PROVE  LET f == toReader[n] IN
             /\ f.to # 0 /\ Bound(f.to) => far[f.to].of = f.about
             /\ f.ref # 0 /\ Bound(f.ref) => far[f.ref].of = f.refOf
  <2> DEFINE fr == toReader[n]
  <2>1. fr \in Frames /\ fr \in Range(toReader)
    BY <1>1, <1>3 DEF Range
  <2>2. /\ fr.to # 0 => fr.to \in Ids /\ fr.about \in Procs
        /\ fr.ref # 0 => fr.ref \in Ids /\ fr.refOf \in Procs
    BY <2>1 DEF Frames
  <2>3. Means(fr.to, fr.about) /\ Means(fr.ref, fr.refOf)
    BY <2>1 DEF Means, Calls
  <2>4. \A i \in Ids : far[i] # None => far[i].of \in Procs /\ Means(i, far[i].of)
    BY <1>1, HandleOf DEF Means, Handles
  <2> HIDE DEF fr
  <2>5. /\ fr.to # 0 /\ far[fr.to] # None => far[fr.to].of = fr.about
        /\ fr.ref # 0 /\ far[fr.ref] # None => far[fr.ref].of = fr.refOf
    BY <2>2, <2>3, <2>4 DEF OneMeaning
  <2> QED BY <2>5 DEF fr, Bound
<1> QED BY <1>2, <1>3 DEF SameProcess

\* A step that lets no number mean anything new.
LEMMA NothingNew ==
    ASSUME TInv, OneMeaning, nextId' = nextId,
           \A i \in Ids, p \in Procs : Means(i, p)' => Means(i, p)
    PROVE  OneMeaning'
  BY DEF OneMeaning

\* A step that numbers a process at most.
LEMMA OneNew ==
    ASSUME TInv, OneMeaning, NEW c \in Procs \cup {None}, Number(c),
           \A i \in Ids, p \in Procs :
               Means(i, p)' => Means(i, p) \/ (p = c /\ i = IdFor(c))
    PROVE  OneMeaning'
<1>1. Numbered
  BY DEF TInv
<1>2. CASE c # None /\ number[c] = 0
  <2>1. /\ c \in Procs /\ nextId' = nextId + 1 /\ IdFor(c) = nextId /\ nextId \in Nat
    BY <1>1, <1>2 DEF Number, IdFor, NextId, Numbered
  <2>2. Ids \subseteq Nat
    BY DEF Ids
  <2> QED BY <2>1, <2>2 DEF OneMeaning
<1>3. CASE c # None /\ number[c] # 0
  <2>1. c \in Procs /\ number[c] \in Ids /\ IdFor(c) = number[c] /\ nextId' = nextId
    BY <1>1, <1>3 DEF Number, IdFor, Numbered
  <2>2. named[number[c]] = c
    BY <1>1, <2>1 DEF Numbered
  <2>3. Means(IdFor(c), c)
    BY <2>1, <2>2 DEF Means
  <2> QED BY <2>1, <2>3 DEF OneMeaning
<1>4. CASE c = None
  <2>1. c \notin Procs /\ nextId' = nextId
    BY <1>4, RefsAssumption DEF Number, Procs
  <2> QED BY <2>1 DEF OneMeaning
<1> QED BY <1>2, <1>3, <1>4

\* Saying a frame about a process by a number that means it.
LEMMA SaidMeans ==
    ASSUME TInv, OneMeaning,
           NEW kind \in {"message", "state", "exit", "methods"},
           NEW q \in Procs \cup {None}, NEW id \in Ids \cup {0}, id = 0 <=> q = None,
           q # None => Means(id, q),
           NEW v \in Nat, NEW c \in Procs \cup {None},
           Say(ToReader(kind, q, id, v, IdFor(c), c), c),
           Range(toHolder') \subseteq Range(toHolder), UNCHANGED far
    PROVE  OneMeaning'
<1> DEFINE fr == ToReader(kind, q, id, v, IdFor(c), c)
<1>1. Numbered /\ toReader \in Seq(Frames) /\ None \notin Procs /\ 0 \notin Ids
  BY RefsAssumption DEF TInv, HolderOK, Procs, Ids
<1>2. Number(c) /\ toReader' = Append(toReader, fr)
  BY DEF Say
<1>3. IdFor(c) \in Ids \cup {0} /\ (IdFor(c) = 0 <=> c = None)
  BY <1>1, <1>2, NumberKeeps
<1>4. fr \in Frames
  BY <1>3 DEF ToReader, Frames
<1>5. \A i, p : Calls(fr, i, p) <=> (i = id /\ p = q) \/ (i = IdFor(c) /\ p = c)
  BY DEF ToReader, Calls
<1> HIDE DEF fr
<1>6. Range(toReader') = Range(toReader) \cup {fr}
  BY <1>1, <1>2, <1>4, RangeAppend
<1>7. \A i \in Ids, p \in Procs : named'[i] = p => named[i] = p \/ (p = c /\ i = IdFor(c))
  <2>1. CASE c # None /\ number[c] = 0
    <3>1. named' = [named EXCEPT ![nextId] = c] /\ IdFor(c) = nextId
      BY <1>2, <2>1 DEF Number, IdFor, NextId
    <3>2. named \in [Ids -> Procs \cup {None}]
      BY <1>1 DEF Numbered
    <3> QED BY <3>1, <3>2
  <2>2. CASE ~(c # None /\ number[c] = 0)
    BY <1>2, <2>2 DEF Number
  <2> QED BY <2>1, <2>2
<1>8. \A u \in Range(unsaid') : u \in Range(unsaid) \/ (c \in Procs /\ u.proc = c /\ u.id = IdFor(c))
  <2>1. CASE c # None /\ number[c] = 0
    <3> DEFINE e == [proc |-> c, id |-> nextId]
               T == [proc : Procs, id : Ids]
    <3>1. unsaid' = Append(unsaid, e) /\ IdFor(c) = nextId /\ nextId \in Ids /\ c \in Procs
      BY <1>2, <2>1 DEF Number, IdFor, NextId
    <3>2. e \in T /\ e.proc = c /\ e.id = nextId
      BY <3>1
    <3>3. unsaid \in Seq(T)
      BY <1>1 DEF Numbered
    <3> HIDE DEF e, T
    <3>4. Range(unsaid') = Range(unsaid) \cup {e}
      BY <3>1, <3>2, <3>3, RangeAppend
    <3> QED BY <3>1, <3>2, <3>4
  <2>2. CASE ~(c # None /\ number[c] = 0)
    BY <1>2, <2>2 DEF Number
  <2> QED BY <2>1, <2>2
<1>9. ASSUME NEW i \in Ids, NEW p \in Procs, Means(i, p)'
      PROVE  Means(i, p) \/ (p = c /\ i = IdFor(c))
  <2>1. CASE named'[i] = p
    BY <1>7, <2>1 DEF Means
  <2>2. CASE far'[i] # None /\ far'[i].of = p
    BY <2>2 DEF Means
  <2>3. CASE \E f \in Range(toHolder') : f.to = i /\ f.about = p
    BY <2>3 DEF Means
  <2>4. CASE \E f \in Range(toReader') : Calls(f, i, p)
    BY <1>1, <1>5, <1>6, <2>4 DEF Means
  <2>5. CASE \E u \in Range(unsaid') : u.id = i /\ u.proc = p
    BY <1>8, <2>5 DEF Means
  <2> QED BY <1>9, <2>1, <2>2, <2>3, <2>4, <2>5 DEF Means
<1> QED BY <1>2, <1>9, OneNew
\* The number a process goes by means it.
LEMMA GoesBy ==
    ASSUME TInv, NEW p \in Procs, number[p] # 0
    PROVE  number[p] \in Ids /\ Means(number[p], p)
<1>1. number[p] \in Ids /\ named[number[p]] = p
  BY DEF TInv, Numbered
<1> QED BY <1>1 DEF Means

LEMMA HolderSaysMeans ==
    ASSUME TInv, OneMeaning, HolderSays
    PROVE  OneMeaning'
<1>0. None \notin Procs /\ 0 \notin Ids /\ Carriers \subseteq Procs /\ Leaves \subseteq Procs
  BY RefsAssumption DEF Procs, Ids
<1>1. ASSUME UNCHANGED <<number, named, unsaid, nextId, toReader, toHolder, far>>
      PROVE  OneMeaning'
  BY <1>1, NothingNew DEF Means
<1>2. ASSUME NEW p \in Procs, HandOver(p) PROVE OneMeaning'
  <2>1. /\ Say(ToReader("message", None, 0, 0, IdFor(p), p), p)
        /\ UNCHANGED <<toHolder, far>>
    BY <1>2 DEF HandOver, reader
  <2> QED BY <1>0, <2>1, SaidMeans
<1>3. ASSUME NEW p \in Procs, End(p) PROVE OneMeaning'
  <2> DEFINE s == state[p]
  <2>1. UNCHANGED <<toHolder, far>> /\ s.v \in Nat /\ s.ref \in Procs \cup {None}
    BY <1>3, StateOf DEF End, reader, TInv
  <2>2. CASE UNCHANGED <<number, named, unsaid, nextId, toReader>>
    BY <1>1, <2>1, <2>2
  <2>3. CASE /\ Told(number[p])
             /\ Say(ToReader("exit", p, number[p], s.v, IdFor(s.ref), s.ref), s.ref)
    <3>1. number[p] # 0
      BY <2>3 DEF Told
    <3>2. number[p] \in Ids /\ Means(number[p], p)
      BY <3>1, GoesBy
    <3> HIDE DEF s
    <3> QED BY <1>0, <2>1, <2>3, <3>1, <3>2, SaidMeans
  <2> QED BY <1>3, <2>2, <2>3 DEF End
<1>4. ASSUME NEW p \in Carriers, NEW c \in Leaves \cup {None}, Publish(p, c)
      PROVE  OneMeaning'
  <2>1. UNCHANGED <<toHolder, far>> /\ state[p].v + 1 \in Nat
    BY <1>0, <1>4, StateOf DEF Publish, reader, TInv
  <2>2. CASE UNCHANGED <<number, named, unsaid, nextId, toReader>>
    BY <1>1, <2>1, <2>2
  <2>3. CASE /\ number[p] # 0
             /\ Say(ToReader("state", p, number[p], state[p].v + 1, IdFor(c), c), c)
    <3>1. number[p] \in Ids /\ Means(number[p], p)
      BY <1>0, <2>3, GoesBy
    <3> QED BY <1>0, <2>1, <2>3, <3>1, SaidMeans
  <2> QED BY <1>4, <2>2, <2>3 DEF Publish
<1>5. ASSUME NEW p \in Carriers, NEW c \in Leaves \cup {None}, Speak(p, c)
      PROVE  OneMeaning'
  <2>1. /\ UNCHANGED <<toHolder, far>> /\ number[p] # 0
        /\ Say(ToReader("message", p, number[p], 0, IdFor(c), c), c)
    BY <1>5 DEF Speak, reader
  <2>2. number[p] \in Ids /\ Means(number[p], p)
    BY <1>0, <2>1, GoesBy
  <2> QED BY <1>0, <2>1, <2>2, SaidMeans
<1> QED BY <1>2, <1>3, <1>4, <1>5 DEF HolderSays

LEMMA FlushMeans ==
    ASSUME TInv, OneMeaning, Flush
    PROVE  OneMeaning'
<1> DEFINE T == [proc : Procs, id : Ids]
           u == Head(unsaid)
           fr == ToReader("methods", u.proc, u.id, 0, 0, None)
<1>1. /\ unsaid # <<>> /\ unsaid' = Tail(unsaid)
      /\ toReader' = Append(toReader, fr)
      /\ UNCHANGED <<named, nextId, toHolder, far>>
  BY DEF Flush, Streamed, reader
<1>2. unsaid \in Seq(T) /\ toReader \in Seq(Frames)
  BY DEF TInv, Numbered, HolderOK
<1> HIDE DEF T
<1>3. u \in Range(unsaid) /\ Range(unsaid') \subseteq Range(unsaid)
  BY <1>1, <1>2, RangeTail
<1>4. u \in T
  BY <1>1, <1>2
<1>5. u.proc \in Procs /\ u.id \in Ids
  BY <1>4 DEF T
<1> HIDE DEF u
<1>6. fr \in Frames
  BY <1>5, RefsAssumption DEF ToReader, Frames, Procs, Ids
<1>7. \A i \in Ids, p \in Procs : Calls(fr, i, p) => i = u.id /\ p = u.proc
  BY RefsAssumption DEF ToReader, Calls, Procs
<1> HIDE DEF fr
<1>8. Range(toReader') = Range(toReader) \cup {fr}
  BY <1>1, <1>2, <1>6, RangeAppend
<1>9. \A i \in Ids, p \in Procs : Means(i, p)' => Means(i, p)
  BY <1>1, <1>3, <1>7, <1>8 DEF Means
<1> QED BY <1>1, <1>9, NothingNew

LEMMA HolderGetsMeans ==
    ASSUME TInv, OneMeaning, HolderGets
    PROVE  OneMeaning'
<1> DEFINE f == Head(toHolder)
<1>1. toHolder # <<>> /\ toHolder' = Tail(toHolder) /\ UNCHANGED far
  BY DEF HolderGets, HolderTunes, HolderReleases, HolderStops, reader
<1>2. /\ toHolder \in Seq(FarFrames)
      /\ named \in [Ids -> Procs \cup {None}] /\ HolderOK
      /\ None \notin Procs /\ 0 \notin Ids
  BY RefsAssumption DEF TInv, ReaderOK, Numbered, Procs, Ids
<1>3. Range(toHolder') \subseteq Range(toHolder)
  BY <1>1, <1>2, RangeTail
<1>4. f.to \in Ids
  BY <1>1, HolderHears
<1>5. CASE HolderTunes
  <2>1. \/ named[f.to] # None /\ TuneTo(f.to, f.kinds)
        \/ UNCHANGED <<number, named, unsaid, nextId, toReader>>
    BY <1>5 DEF HolderTunes
  <2> DEFINE p == named[f.to]
             s == state[p]
  <2>2. CASE UNCHANGED <<number, named, unsaid, nextId, toReader>>
    <3>1. \A i \in Ids, q \in Procs : Means(i, q)' => Means(i, q)
      BY <1>1, <1>3, <2>2 DEF Means
    <3> QED BY <2>2, <3>1, NothingNew
  <2>3. CASE /\ p # None
             /\ Say(ToReader("state", p, f.to, s.v, IdFor(s.ref), s.ref), s.ref)
    <3>1. p \in Procs /\ Means(f.to, p)
      BY <1>2, <1>4, <2>3 DEF Means
    <3>2. s.v \in Nat /\ s.ref \in Procs \cup {None}
      BY <1>2, <3>1, StateOf
    <3>3. f.to # 0 /\ p # None /\ "state" \in {"message", "state", "exit", "methods"}
      BY <1>2, <1>4, <2>3
    <3> DEFINE c == s.ref
               v == s.v
    <3> HIDE DEF f, p, s, c, v
    <3>4. Say(ToReader("state", p, f.to, v, IdFor(c), c), c) /\ v \in Nat /\ c \in Procs \cup {None}
      BY <2>3, <3>2 DEF c, v
    <3> QED BY <1>1, <1>3, <1>4, <3>1, <3>3, <3>4, SaidMeans
  <2> QED BY <2>1, <2>2, <2>3 DEF TuneTo
<1>6. CASE HolderReleases
  <2>1. UNCHANGED <<toReader, unsaid, nextId>>
    BY <1>6 DEF HolderReleases, reader
  <2>2. \A i \in Ids : named'[i] = named[i] \/ named'[i] = None
    <3>1. named' = named \/ named' = [named EXCEPT ![f.to] = None]
      BY <1>6 DEF HolderReleases
    <3> HIDE DEF f
    <3> QED BY <1>2, <1>4, <3>1
  <2>3. \A i \in Ids, q \in Procs : Means(i, q)' => Means(i, q)
    BY <1>1, <1>2, <1>3, <2>1, <2>2 DEF Means
  <2> QED BY <2>1, <2>3, NothingNew
<1>7. CASE HolderStops
  <2>1. UNCHANGED <<named, toReader, unsaid, nextId>>
    BY <1>7 DEF HolderStops
  <2>2. \A i \in Ids, q \in Procs : Means(i, q)' => Means(i, q)
    BY <1>1, <1>3, <2>1 DEF Means
  <2> QED BY <2>1, <2>2, NothingNew
<1> QED BY <1>5, <1>6, <1>7 DEF HolderGets

LEMMA ReaderGetsMeans ==
    ASSUME TInv, OneMeaning, ReaderGets
    PROVE  OneMeaning'
<1> DEFINE fr == Head(toReader)
<1>1. /\ toReader # <<>> /\ toReader' = Tail(toReader) /\ Heeded(far, far', fr)
      /\ fr \in Frames
  BY ReaderGetsKeeps DEF TInv, HolderOK
<1>2. UNCHANGED <<named, unsaid, nextId, toHolder>>
  BY DEF ReaderGets, holder
<1>3. toReader \in Seq(Frames)
  BY DEF TInv, HolderOK
<1>4. fr \in Range(toReader) /\ Range(toReader') \subseteq Range(toReader)
  BY <1>1, <1>3, RangeTail
<1> HIDE DEF fr
<1>5. \A i \in Ids, p \in Procs : far'[i] # None /\ far'[i].of = p => Means(i, p)
  BY <1>1, <1>4 DEF Heeded, Means, Calls
<1>6. \A i \in Ids, p \in Procs : Means(i, p)' => Means(i, p)
  <2>1. ASSUME NEW i \in Ids, NEW p \in Procs, Means(i, p)', ~(far'[i] # None /\ far'[i].of = p)
        PROVE  Means(i, p)
    BY <1>2, <1>4, <2>1 DEF Means
  <2> QED BY <1>5, <2>1
<1> QED BY <1>2, <1>6, NothingNew

LEMMA ReaderAsksMeans ==
    ASSUME TInv, OneMeaning, ReaderAsks
    PROVE  OneMeaning'
<1>1. AskedFor /\ UNCHANGED <<holder, toReader>>
  BY ReaderAsksKeeps DEF TInv
<1>2. PICK s : Truthful(s) /\ toHolder' = toHolder \o s
  BY <1>1 DEF AskedFor
<1>3. s \in Seq(FarFrames) /\ toHolder \in Seq(FarFrames)
  BY <1>2 DEF Truthful, TInv, ReaderOK
<1>4. Range(toHolder') \subseteq Range(toHolder) \cup Range(s)
  BY <1>2, <1>3, RangeConcat
<1>5. \A fr \in Range(s) : far[fr.to] # None /\ far[fr.to].of = fr.about
  BY <1>2 DEF Truthful, Range
<1>6. Kept(far, far') /\ UNCHANGED <<named, unsaid, nextId>>
  BY <1>1 DEF AskedFor, holder
<1>7. \A i \in Ids, p \in Procs : Means(i, p)' => Means(i, p)
  BY <1>1, <1>4, <1>5, <1>6 DEF Means, Kept
<1> QED BY <1>6, <1>7, NothingNew

LEMMA OneMeaningNext == TInv /\ OneMeaning /\ [Next]_vars => OneMeaning'
<1> SUFFICES ASSUME TInv, OneMeaning, [Next]_vars PROVE OneMeaning'
  OBVIOUS
<1>1. CASE UNCHANGED vars
  <2>1. UNCHANGED <<named, unsaid, nextId, toReader, toHolder, far>>
    BY <1>1 DEF vars, holder, reader
  <2>2. \A i \in Ids, p \in Procs : Means(i, p)' => Means(i, p)
    BY <2>1 DEF Means
  <2> QED BY <2>1, <2>2, NothingNew
<1> QED BY <1>1, HolderSaysMeans, FlushMeans, HolderGetsMeans, ReaderGetsMeans, ReaderAsksMeans
        DEF Next

LEMMA OneMeaningInit == Init => OneMeaning
<1> SUFFICES ASSUME Init PROVE OneMeaning
  OBVIOUS
<1>1. TInv
  BY TInvInit
<1>2. Numbered /\ None \notin Procs
  BY <1>1, RefsAssumption DEF TInv, Procs
<1>3. Range(toHolder) = {} /\ Range(toReader) = {} /\ Range(unsaid) = {}
  <2>1. toHolder = <<>> /\ toReader = <<>> /\ unsaid = <<>>
    BY DEF Init
  <2> QED BY <2>1 DEF Range
<1>4. \A i \in Ids : far[i] # None => far[i].of = named[i]
  BY DEF Init, NewHandle
<1>5. \A i \in Ids, p \in Procs : Means(i, p) => named[i] = p
  BY <1>3, <1>4 DEF Means
<1>6. \A i \in Ids, p \in Procs : named[i] = p => i < nextId
  BY <1>2 DEF Numbered, Unused, Ids
<1> QED BY <1>5, <1>6 DEF OneMeaning

\* A number never comes to mean another process, however often a process is let go of
\* and handed over again while frames about it are under way (process-ref.ts:8-12).
THEOREM RefsSameProcess == Spec => []SameProcess
<1>1. Spec => [](TInv /\ OneMeaning)
  BY TInvInit, TInvNext, OneMeaningInit, OneMeaningNext, PTL DEF Spec
<1>2. TInv /\ OneMeaning => SameProcess
  BY OneMeaningIsSameProcess
<1> QED BY <1>1, <1>2, PTL
---------------------------------------------------------------------------
\* The count of a handle covers whoever keeps it.

Covers(f, id) == f[id].count >= f[id].keeps + Cardinality(Owners(f, id))
Covered(f) == \A id \in Ids : f[id] # None /\ ~f[id].released => Covers(f, id)

LEMMA CoveredIsCountsCover == Covered(far) <=> CountsCover
  BY DEF Covered, Covers, CountsCover, Bound

LEMMA OwnersFinite ==
    ASSUME NEW f, NEW id
    PROVE  /\ IsFiniteSet(Owners(f, id)) /\ Cardinality(Owners(f, id)) \in Nat
           /\ Owners(f, id) \subseteq Ids
<1>1. Owners(f, id) \in SUBSET Ids
  BY DEF Owners
<1> HIDE DEF Owners
<1>2. IsFiniteSet(Owners(f, id))
  BY <1>1, IdsFinite
<1> QED BY <1>1, <1>2, FS_CardinalityType

\* Whoever is counted alike, with no more owners, is covered as before.
LEMMA CoveredStill ==
    ASSUME NEW f, NEW g, Linked(f), Linked(g), Covered(f),
           NEW i \in Ids, g[i] # None, ~g[i].released,
           f[i] # None, ~f[i].released,
           g[i].count = f[i].count, g[i].keeps = f[i].keeps,
           Owners(g, i) \subseteq Owners(f, i)
    PROVE  Covers(g, i)
<1>1. Cardinality(Owners(g, i)) <= Cardinality(Owners(f, i))
  BY OwnersFinite, FS_Subset
<1>2. f[i] \in Handles
  BY HandleOf
<1>3. f[i].count \in Nat /\ f[i].keeps \in Nat
  BY <1>2 DEF Handles
<1>4. Cardinality(Owners(f, i)) \in Nat /\ Cardinality(Owners(g, i)) \in Nat
  BY OwnersFinite
<1>5. Covers(f, i)
  BY DEF Covered
<1> HIDE DEF Owners
<1> QED BY <1>1, <1>3, <1>4, <1>5 DEF Covers

LEMMA UnbindCovers ==
    ASSUME NEW f, Linked(f), Covered(f), NEW lost \in SUBSET Ids
    PROVE  Covered(Unbind(f, lost))
<1> DEFINE g == Unbind(f, lost)
<1>1. Linked(g) /\ Kept(f, g)
  BY UnbindKeeps
<1>2. ASSUME NEW i \in Ids, g[i] # None
      PROVE  /\ f[i] # None /\ g[i].released = f[i].released
             /\ g[i].count = f[i].count /\ g[i].keeps = f[i].keeps
             /\ g[i].owned \subseteq f[i].owned
  <2>1. f[i] # None /\ g[i] = [f[i] EXCEPT !.owned = @ \ lost, !.transient = @ \ lost]
    BY <1>2 DEF Unbind
  <2>2. f[i] \in Handles
    BY <2>1, HandleOf
  <2> HIDE DEF g
  <2> QED BY <2>1, <2>2 DEF Handles
<1> HIDE DEF g
<1>3. \A i \in Ids : Owners(g, i) \subseteq Owners(f, i)
  BY <1>2 DEF Owners
<1>4. ASSUME NEW i \in Ids, g[i] # None, ~g[i].released
      PROVE  Covers(g, i)
  BY <1>1, <1>2, <1>3, <1>4, CoveredStill
<1>5. Covered(g)
  BY <1>4 DEF Covered
<1> QED BY <1>5 DEF g

LEMMA GivenBackStays ==
    ASSUME NEW f, Linked(f), NEW id \in Ids, f[id] # None
    PROVE  \A j \in Ids : f[j] # None => GivenBack(f, id)[j] # None
<1> SUFFICES ASSUME NEW j \in Ids, f[j] # None
             PROVE  GivenBack(f, id)[j] # None
  OBVIOUS
<1> DEFINE h == f[j]
<1>1. h \in Handles
  BY HandleOf
<1>2. GivenBack(f, id)[j] =
        IF j = id THEN [h EXCEPT !.released = TRUE, !.owned = {}, !.transient = {}]
        ELSE IF j \in f[id].owned /\ h.count > 0 THEN [h EXCEPT !.count = h.count - 1]
        ELSE h
  BY DEF GivenBack
<1> HIDE DEF h
<1>3. [h EXCEPT !.released = TRUE, !.owned = {}, !.transient = {}] \in Handles
  BY <1>1 DEF Handles
<1>4. h.count > 0 => [h EXCEPT !.count = h.count - 1] \in Handles
  BY <1>1 DEF Handles
<1> QED BY <1>1, <1>2, <1>3, <1>4, NoneAssumption

LEMMA GivenBackCovers ==
    ASSUME NEW f, Linked(f), Covered(f), NEW id \in Ids, f[id] # None
    PROVE  Covered(GivenBack(f, id))
<1> DEFINE g == GivenBack(f, id)
<1>1. Linked(g) /\ Kept(f, g)
  BY GivenBackKeeps
<1>2. \A i \in Ids : g[i] =
        IF i = id THEN [f[i] EXCEPT !.released = TRUE, !.owned = {}, !.transient = {}]
        ELSE IF i \in f[id].owned /\ f[i].count > 0 THEN [f[i] EXCEPT !.count = @ - 1]
        ELSE f[i]
  BY DEF GivenBack
<1> HIDE DEF g
<1>3. g[id].released /\ g[id].owned = {}
  <2>1. f[id] \in Handles
    BY HandleOf
  <2> QED BY <1>2, <2>1 DEF Handles
<1>4. ASSUME NEW i \in Ids, i # id, g[i] # None
      PROVE  /\ f[i] # None /\ g[i].released = f[i].released
             /\ g[i].keeps = f[i].keeps /\ g[i].owned = f[i].owned
             /\ g[i].count = IF i \in f[id].owned /\ f[i].count > 0 THEN f[i].count - 1
                             ELSE f[i].count
  <2>1. f[i] # None
    BY <1>1, <1>4 DEF Kept
  <2>2. f[i] \in Handles
    BY <2>1, HandleOf
  <2>3. CASE i \in f[id].owned /\ f[i].count > 0
    <3>1. g[i] = [f[i] EXCEPT !.count = f[i].count - 1]
      BY <1>2, <1>4, <2>3
    <3> QED BY <2>1, <2>2, <2>3, <3>1 DEF Handles
  <2>4. CASE ~(i \in f[id].owned /\ f[i].count > 0)
    <3>1. g[i] = f[i]
      BY <1>2, <1>4, <2>4
    <3> QED BY <2>1, <2>4, <3>1
  <2> QED BY <2>3, <2>4
<1>5. \A i \in Ids : Owners(g, i) = Owners(f, i) \ {id}
  <2>1. \A j \in Ids : f[j] # None => g[j] # None
    BY GivenBackStays DEF g
  <2> QED BY <1>3, <1>4, <2>1 DEF Owners
<1>6. ASSUME NEW i \in Ids, g[i] # None, ~g[i].released
      PROVE  Covers(g, i)
  <2>1. i # id
    BY <1>3, <1>6
  <2>2. f[i] # None /\ ~f[i].released /\ g[i].keeps = f[i].keeps
    BY <1>4, <1>6, <2>1
  <2>3. CASE i \in f[id].owned
    <3> DEFINE os == Owners(f, i)
    <3>1. id \in os
      BY <2>3 DEF Owners
    <3>2. IsFiniteSet(os) /\ Cardinality(os) \in Nat
      BY OwnersFinite
    <3>3. Owners(g, i) = os \ {id}
      BY <1>5
    <3> HIDE DEF os
    <3>4. Cardinality(os \ {id}) = Cardinality(os) - 1
      BY <3>1, <3>2, FS_RemoveElement
    <3>5. os # {}
      BY <3>1
    <3>6. Cardinality(os) > 0
      BY <3>2, <3>5, FS_EmptySet
    <3>7. f[i] \in Handles
      BY <2>2, HandleOf
    <3>8. f[i].count \in Nat /\ f[i].keeps \in Nat
      BY <3>7 DEF Handles
    <3>9. f[i].count >= f[i].keeps + Cardinality(os)
      BY <2>2 DEF Covered, Covers, os
    <3>10. f[i].count > 0
      BY <3>2, <3>6, <3>8, <3>9
    <3>11. g[i].count = f[i].count - 1
      BY <1>4, <1>6, <2>1, <2>3, <3>10
    <3> QED BY <2>2, <3>2, <3>3, <3>4, <3>8, <3>9, <3>11 DEF Covers
  <2>4. CASE i \notin f[id].owned
    <3>1. g[i].count = f[i].count
      BY <1>4, <1>6, <2>1, <2>4
    <3>2. Owners(g, i) \subseteq Owners(f, i)
      BY <1>5
    <3> QED BY <1>1, <1>6, <2>2, <3>1, <3>2, CoveredStill
  <2> QED BY <2>3, <2>4
<1>7. Covered(g)
  BY <1>6 DEF Covered
<1> QED BY <1>7 DEF g

LEMMA LetGoCovers ==
    ASSUME NEW f, Linked(f), Covered(f), NEW id \in Ids, f[id] # None, LetGo(f, id)
    PROVE  Covered(far')
<1> DEFINE lost == Lost(f, id)
           idle == Idle(f, id)
           ended == {i \in idle : f[i].exit}
<1>1. Linked(GivenBack(f, id)) /\ Covered(GivenBack(f, id))
  BY GivenBackKeeps, GivenBackCovers
<1>2. lost \subseteq Ids /\ idle \subseteq Ids
  BY Closed1 DEF Lost, Idle
<1>3. \/ far' = Unbind(GivenBack(f, id), lost \cup idle \cup {id})
      \/ \E done \in SUBSET (idle \ ended) : far' = Unbind(GivenBack(f, id), lost \cup done)
  BY DEF LetGo
<1> HIDE DEF lost, idle, ended
<1>4. PICK gone \in SUBSET Ids : far' = Unbind(GivenBack(f, id), gone)
  BY <1>2, <1>3
<1> QED BY <1>1, <1>4, UnbindCovers

\* A handle that changes in neither what it owns nor how it is counted.
LEMMA SetCovers ==
    ASSUME NEW f, Linked(f), Covered(f), NEW id \in Ids, f[id] # None, NEW h \in Handles,
           h.owned = f[id].owned, h.released = f[id].released,
           Linked([f EXCEPT ![id] = h]),
           \/ h.count = f[id].count /\ h.keeps = f[id].keeps
           \/ h.count = f[id].count + 1 /\ h.keeps = f[id].keeps + 1
           \/ h.count = f[id].count - 1 /\ h.keeps = f[id].keeps - 1
    PROVE  Covered([f EXCEPT ![id] = h])
<1> DEFINE g == [f EXCEPT ![id] = h]
<1>1. \A i \in Ids : g[i] = IF i = id THEN h ELSE f[i]
  BY DEF Linked
<1> HIDE DEF g
<1>2. h # None
  BY NoneAssumption
<1>3. \A i \in Ids : Owners(g, i) = Owners(f, i)
  BY <1>1, <1>2 DEF Owners
<1>4. f[id] \in Handles
  BY HandleOf
<1>5. f[id].count \in Nat /\ f[id].keeps \in Nat /\ h.count \in Nat /\ h.keeps \in Nat
  BY <1>4 DEF Handles
<1>6. ASSUME NEW i \in Ids, g[i] # None, ~g[i].released
      PROVE  Covers(g, i)
  <2>1. CASE i # id
    BY <1>1, <1>3, <1>6, <2>1 DEF Covered, Covers
  <2>2. CASE i = id
    <3>1. Covers(f, id)
      BY <1>1, <1>6, <2>2 DEF Covered
    <3>2. Cardinality(Owners(f, id)) \in Nat
      BY OwnersFinite
    <3> QED BY <1>1, <1>3, <1>5, <2>2, <3>1, <3>2 DEF Covers
  <2> QED BY <2>1, <2>2
<1>7. Covered(g)
  BY <1>6 DEF Covered
<1> QED BY <1>7 DEF g
LEMMA KeepOwnedCovers ==
    ASSUME NEW f, Linked(f), Covered(f), NEW id \in Ids, f[id] # None,
           NEW r \in Ids \cup {0}, r # 0 => f[r] # None
    PROVE  Covered(KeepOwned(f, id, r))
<1>1. CASE r = 0 \/ f[r].released \/ r \in f[id].owned
  BY <1>1 DEF KeepOwned
<1>2. CASE ~(r = 0 \/ f[r].released \/ r \in f[id].owned)
  <2> DEFINE h == [f[id] EXCEPT !.owned = @ \cup {r}, !.transient = @ \ {r}]
             g == [f EXCEPT ![id] = h]
             k == [g[r] EXCEPT !.count = @ + 1]
             K == KeepOwned(f, id, r)
  <2>1. K = [g EXCEPT ![r] = k]
    BY <1>2 DEF KeepOwned
  <2>2. /\ r \in Ids /\ f[r] # None /\ f[id] \in Handles /\ f[r] \in Handles
        /\ ~f[r].released /\ r \notin f[id].owned
    BY <1>2, HandleOf
  <2>3. /\ h \in Handles /\ h.owned = f[id].owned \cup {r}
        /\ h.count = f[id].count /\ h.keeps = f[id].keeps /\ h.released = f[id].released
    BY <2>2 DEF Handles
  <2>4. \A q \in Ids : g[q] = IF q = id THEN h ELSE f[q]
    BY DEF Linked
  <2>5. g \in [Ids -> Handles \cup {None}]
    BY <2>3 DEF Linked
  <2> HIDE DEF h, g
  <2>6. g[r] \in Handles
    BY <2>2, <2>3, <2>4
  <2>7. /\ k \in Handles /\ k.owned = g[r].owned
        /\ k.count = g[r].count + 1 /\ k.keeps = g[r].keeps /\ k.released = g[r].released
    BY <2>6 DEF Handles
  <2>8. \A q \in Ids : K[q] = IF q = r THEN k ELSE g[q]
    BY <2>1, <2>5
  <2> HIDE DEF k, K
  <2>9. ASSUME NEW i \in Ids
        PROVE  /\ K[i] # None <=> f[i] # None
               /\ K[i] # None =>
                    /\ K[i].released = f[i].released /\ K[i].keeps = f[i].keeps
                    /\ K[i].count = IF i = r THEN f[i].count + 1 ELSE f[i].count
                    /\ K[i].owned = IF i = id THEN f[i].owned \cup {r} ELSE f[i].owned
    <3>1. k # None /\ h # None /\ g[r] # None
      BY <2>3, <2>6, <2>7, NoneAssumption
    <3>2. CASE i # r
      BY <2>3, <2>4, <2>8, <3>1, <3>2
    <3>3. CASE i = r
      BY <2>2, <2>3, <2>4, <2>7, <2>8, <3>1, <3>3
    <3> QED BY <3>2, <3>3
  <2>10. /\ \A i \in Ids : i # r => Owners(K, i) = Owners(f, i)
         /\ Owners(K, r) = Owners(f, r) \cup {id} /\ id \notin Owners(f, r)
    BY <2>2, <2>9 DEF Owners
  <2>11. ASSUME NEW i \in Ids, K[i] # None, ~K[i].released
         PROVE  Covers(K, i)
    <3>1. f[i] # None /\ Covers(f, i)
      BY <2>9, <2>11 DEF Covered
    <3>2. CASE i # r
      BY <2>9, <2>10, <2>11, <3>1, <3>2 DEF Covers
    <3>3. CASE i = r
      <4> DEFINE os == Owners(f, r)
      <4>1. IsFiniteSet(os) /\ Cardinality(os) \in Nat
        BY OwnersFinite
      <4>2. id \notin os /\ Owners(K, r) = os \cup {id}
        BY <2>10
      <4>3. f[r].count >= f[r].keeps + Cardinality(os)
        BY <3>1, <3>3 DEF Covers
      <4> HIDE DEF os
      <4>4. Cardinality(os \cup {id}) = Cardinality(os) + 1
        BY <4>1, <4>2, FS_AddElement
      <4>5. f[r].count \in Nat /\ f[r].keeps \in Nat
        BY <2>2 DEF Handles
      <4>6. K[r].count = f[r].count + 1 /\ K[r].keeps = f[r].keeps
        BY <2>2, <2>9, <2>11, <3>3
      <4>7. Cardinality(Owners(K, r)) = Cardinality(os) + 1
        BY <4>2, <4>4
      <4> HIDE DEF Owners
      <4> QED BY <3>3, <4>1, <4>3, <4>5, <4>6, <4>7 DEF Covers
    <3> QED BY <3>2, <3>3
  <2>12. Covered(K)
    BY <2>11 DEF Covered
  <2> QED BY <2>12 DEF K
<1> QED BY <1>1, <1>2

LEMMA RememberCovers ==
    ASSUME NEW f, Linked(f), Covered(f), NEW id \in Ids, f[id] # None,
           NEW r \in Ids \cup {0}, r # 0 => f[r] # None
    PROVE  Covered(Remember(f, id, r))
<1>1. CASE r = 0 \/ f[r].released \/ r \in f[id].owned
  BY <1>1 DEF Remember
<1>2. CASE ~(r = 0 \/ f[r].released \/ r \in f[id].owned)
  <2> DEFINE h == [f[id] EXCEPT !.transient = @ \cup {r}]
  <2>1. Remember(f, id, r) = [f EXCEPT ![id] = h]
    BY <1>2 DEF Remember
  <2>2. r \in Ids /\ f[id] \in Handles
    BY <1>2, HandleOf
  <2>3. /\ h \in Handles /\ h.owned = f[id].owned /\ h.released = f[id].released
        /\ h.count = f[id].count /\ h.keeps = f[id].keeps
    BY <2>2 DEF Handles
  <2>4. Linked([f EXCEPT ![id] = h])
    <3>1. Linked(Remember(f, id, r))
      BY RememberKeeps
    <3> QED BY <2>1, <3>1
  <2> HIDE DEF h
  <2>5. Covered([f EXCEPT ![id] = h])
    BY <2>3, <2>4, SetCovers
  <2> QED BY <2>1, <2>5
<1> QED BY <1>1, <1>2

LEMMA ResolvedCovers ==
    ASSUME Linked(far), Covered(far), NEW fr \in Frames
    PROVE  Covered(Resolved(fr))
<1> DEFINE f == Resolved(fr)
<1>1. /\ Linked(f)
      /\ \A i \in Ids : f[i] # None =>
            \/ far[i] # None /\ f[i] = far[i]
            \/ far[i] = None /\ i = fr.ref /\ f[i] = NewHandle(fr.refOf)
  BY ResolvedKeeps
<1> HIDE DEF f
<1>2. \A i \in Ids : Owners(f, i) \subseteq Owners(far, i)
  BY <1>1 DEF Owners, NewHandle
<1>3. ASSUME NEW i \in Ids, f[i] # None, ~f[i].released
      PROVE  Covers(f, i)
  <2>1. CASE far[i] # None
    <3>1. f[i] = far[i]
      BY <1>1, <1>3, <2>1
    <3> QED BY <1>1, <1>2, <1>3, <2>1, <3>1, CoveredStill
  <2>2. CASE far[i] = None
    <3>1. f[i] = NewHandle(fr.refOf)
      BY <1>1, <1>3, <2>2
    <3>2. Owners(far, i) = {}
      BY <2>2 DEF Linked, Owners
    <3>3. Owners(f, i) = {}
      BY <1>2, <3>2
    <3> HIDE DEF Owners
    <3>4. Cardinality(Owners(f, i)) = 0
      BY <3>3, FS_EmptySet
    <3> QED BY <3>1, <3>4 DEF Covers, NewHandle
  <2> QED BY <2>1, <2>2
<1>4. Covered(f)
  BY <1>3 DEF Covered
<1> QED BY <1>4 DEF f

LEMMA ReceiveCovers ==
    ASSUME NEW f, Linked(f), Covered(f), NEW fr \in Frames, fr.to # 0, f[fr.to] # None,
           fr.ref # 0 => f[fr.ref] # None
    PROVE  Covered(Receive(f, fr))
<1> DEFINE id == fr.to
<1>1. /\ id \in Ids /\ fr.ref \in Ids \cup {0} /\ fr.v \in Nat
      /\ fr.kind \in {"message", "state", "exit", "methods"}
  BY DEF Frames
<1>2. f[id] \in Handles
  BY <1>1, HandleOf
<1>3. CASE fr.kind = "state"
  <2> DEFINE h == Updated(f, f[id], fr)
             g == [f EXCEPT ![id] = h]
  <2>1. Receive(f, fr) = KeepOwned(g, id, fr.ref)
    BY <1>3 DEF Receive
  <2>2. /\ h \in Handles /\ h.of = f[id].of /\ h.exit = f[id].exit
        /\ h.owned = f[id].owned /\ h.transient = f[id].transient
        /\ h.count = f[id].count /\ h.keeps = f[id].keeps /\ h.released = f[id].released
    BY <1>2, UpdatedHandle
  <2>3. \A q \in Ids : g[q] = IF q = id THEN h ELSE f[q]
    BY DEF Linked
  <2> HIDE DEF h
  <2>4. \A q \in h.owned \cup h.transient : f[q] # None
    BY <1>1, <2>2, Closed1
  <2>5. Linked(g)
    BY <1>1, <2>2, <2>4, SetHandle
  <2>6. Covered(g)
    BY <1>1, <2>2, <2>5, SetCovers
  <2>7. g[id] # None /\ (fr.ref # 0 => g[fr.ref] # None)
    BY <1>1, <2>2, <2>3, NoneAssumption
  <2> HIDE DEF g
  <2>8. Covered(KeepOwned(g, id, fr.ref))
    BY <1>1, <2>5, <2>6, <2>7, KeepOwnedCovers
  <2> QED BY <2>1, <2>8
<1>4. CASE fr.kind = "message"
  <2>1. Receive(f, fr) = Remember(f, id, fr.ref)
    BY <1>4 DEF Receive
  <2> QED BY <1>1, <2>1, RememberCovers
<1>5. CASE fr.kind = "exit"
  <2> DEFINE h == [f[id] EXCEPT !.exit = TRUE, !.waiting = FALSE, !.readying = FALSE]
             g == [f EXCEPT ![id] = h]
  <2>1. Receive(f, fr) = g
    BY <1>5 DEF Receive
  <2>2. /\ h \in Handles
        /\ h.owned = f[id].owned /\ h.transient = f[id].transient
        /\ h.count = f[id].count /\ h.keeps = f[id].keeps /\ h.released = f[id].released
    BY <1>1, <1>2 DEF Handles
  <2> HIDE DEF h
  <2>3. \A q \in h.owned \cup h.transient : f[q] # None
    BY <1>1, <2>2, Closed1
  <2>4. Linked(g)
    BY <1>1, <2>2, <2>3, SetHandle
  <2>5. Covered(g)
    BY <1>1, <2>2, <2>4, SetCovers
  <2> QED BY <2>1, <2>5
<1>6. CASE fr.kind = "methods"
  BY <1>6 DEF Receive
<1> QED BY <1>1, <1>3, <1>4, <1>5, <1>6

LEMMA ReaderGetsCovers ==
    ASSUME TInv, Covered(far), ReaderGets
    PROVE  Covered(far')
<1> DEFINE fr == Head(toReader)
           f == Resolved(fr)
<1>1. /\ toReader # <<>>
      /\ far' = IF fr.to # 0 /\ f[fr.to] # None /\ ~f[fr.to].released
                THEN Receive(f, fr) ELSE f
  BY DEF ReaderGets
<1>2. fr \in Frames /\ Linked(far)
  BY <1>1 DEF TInv, HolderOK, ReaderOK
<1> HIDE DEF fr
<1>3. Linked(f) /\ Covered(f) /\ (fr.ref # 0 => f[fr.ref] # None)
  BY <1>2, ResolvedKeeps, ResolvedCovers
<1> HIDE DEF f
<1> QED BY <1>1, <1>2, <1>3, ReceiveCovers

LEMMA ReaderAsksCovers ==
    ASSUME TInv, Covered(far), ReaderAsks
    PROVE  Covered(far')
<1>1. Linked(far) /\ Linked(far')
  BY ReaderAsksKeeps DEF TInv, ReaderOK, AskedFor
<1>2. PICK id \in Ids :
        \/ Hold(id) \/ Release(id) \/ ReleaseRef(id)
        \/ \E kinds \in Lists : Tune(id, kinds)
        \/ \E kind \in {"message", "state"} : Subscribe(id, kind)
        \/ Ready(id) \/ Wait(id) \/ Stop(id)
  BY DEF ReaderAsks
<1>3. far[id] # None
  BY <1>2 DEF Hold, Release, ReleaseRef, Tune, Subscribe, Ready, Wait, Stop, Askable, Bound
<1>4. far[id] \in Handles
  BY <1>1, <1>3, HandleOf
<1>5. \A h \in Handles :
        /\ far' = [far EXCEPT ![id] = h]
        /\ h.owned = far[id].owned /\ h.released = far[id].released
        /\ h.count = far[id].count /\ h.keeps = far[id].keeps
        => Covered(far')
  BY <1>1, <1>3, SetCovers
<1>6. CASE Hold(id)
  <2> DEFINE h == [far[id] EXCEPT !.count = @ + 1, !.keeps = @ + 1]
  <2>1. far' = [far EXCEPT ![id] = h]
    BY <1>6 DEF Hold
  <2>2. /\ h \in Handles /\ h.owned = far[id].owned /\ h.released = far[id].released
        /\ h.count = far[id].count + 1 /\ h.keeps = far[id].keeps + 1
    <3> DEFINE b == far[id]
               k == b.keeps + 1
               n == b.count + 1
    <3>1. b \in Handles /\ k \in Nat /\ n \in Nat
      BY <1>4 DEF Handles
    <3>2. h = [b EXCEPT !.count = n, !.keeps = k]
      OBVIOUS
    <3> HIDE DEF h, b, k, n
    <3>3. /\ h \in Handles /\ h.owned = b.owned /\ h.released = b.released
          /\ h.count = n /\ h.keeps = k
      BY <3>1, <3>2 DEF Handles
    <3> QED BY <3>3 DEF b, k, n
  <2> HIDE DEF h
  <2>3. Linked([far EXCEPT ![id] = h])
    BY <1>1, <2>1
  <2>4. Covered([far EXCEPT ![id] = h])
    BY <1>1, <1>3, <2>2, <2>3, SetCovers
  <2> QED BY <2>1, <2>4
<1>7. CASE Release(id)
  BY <1>1, <1>3, <1>7, LetGoCovers DEF Release
<1>8. CASE ReleaseRef(id)
  <2> DEFINE h == [far[id] EXCEPT !.count = IF @ > 0 THEN @ - 1 ELSE 0,
                                  !.keeps = IF @ > 0 THEN @ - 1 ELSE 0]
             f == [far EXCEPT ![id] = h]
  <2>1. \/ far' = f \/ LetGo(f, id) \/ far' = Unbind(f, {id})
    <3>1. f = [far EXCEPT ![id].count = IF @ > 0 THEN @ - 1 ELSE 0,
                          ![id].keeps = IF @ > 0 THEN @ - 1 ELSE 0]
      BY <1>1 DEF Linked
    <3> HIDE DEF f
    <3> QED BY <1>8, <3>1 DEF ReleaseRef
  <2>2. /\ h \in Handles /\ h.owned = far[id].owned /\ h.transient = far[id].transient
        /\ h.released = far[id].released
        /\ h.count = IF far[id].count > 0 THEN far[id].count - 1 ELSE 0
        /\ h.keeps = IF far[id].keeps > 0 THEN far[id].keeps - 1 ELSE 0
    <3> DEFINE b == far[id]
               k == IF b.keeps > 0 THEN b.keeps - 1 ELSE 0
               n == IF b.count > 0 THEN b.count - 1 ELSE 0
    <3>1. b \in Handles /\ k \in Nat /\ n \in Nat
      BY <1>4 DEF Handles
    <3>2. h = [b EXCEPT !.count = n, !.keeps = k]
      OBVIOUS
    <3> HIDE DEF h, b, k, n
    <3>3. /\ h \in Handles /\ h.owned = b.owned /\ h.transient = b.transient
          /\ h.released = b.released /\ h.count = n /\ h.keeps = k
      BY <3>1, <3>2 DEF Handles
    <3> QED BY <3>3 DEF b, k, n
  <2>3. f[id] = h
    BY <1>1 DEF Linked
  <2> HIDE DEF h
  <2>4. \A r \in h.owned \cup h.transient : far[r] # None
    BY <1>1, <1>3, <2>2, Closed1
  <2>5. Linked(f)
    BY <1>1, <1>3, <2>2, <2>4, SetHandle
  <2>6. f[id] # None
    BY <2>2, <2>3, NoneAssumption
  <2>7. Covered(f)
    <3>1. ~far[id].released /\ (far[id].keeps > 0 \/ far[id].count = 0)
      BY <1>8 DEF ReleaseRef
    <3>2. far[id].count >= far[id].keeps + Cardinality(Owners(far, id))
      BY <1>3, <3>1 DEF Covered, Covers
    <3>3. /\ far[id].count \in Nat /\ far[id].keeps \in Nat
          /\ Cardinality(Owners(far, id)) \in Nat
      BY <1>4, OwnersFinite DEF Handles
    <3>4. \/ h.count = far[id].count - 1 /\ h.keeps = far[id].keeps - 1
          \/ h.count = far[id].count /\ h.keeps = far[id].keeps
      BY <2>2, <3>1, <3>2, <3>3
    <3> QED BY <1>1, <1>3, <2>2, <2>5, <3>4, SetCovers
  <2> HIDE DEF f
  <2> QED BY <2>1, <2>5, <2>6, <2>7, LetGoCovers, UnbindCovers
<1>9. ASSUME NEW kinds \in Lists, Tune(id, kinds)
      PROVE  Covered(far')
  <2> DEFINE h == [far[id] EXCEPT !.wanted = kinds]
  <2>1. far' = [far EXCEPT ![id] = h] /\ kinds \in SUBSET Kinds
    BY <1>9, RefsAssumption DEF Tune
  <2>2. /\ h \in Handles /\ h.owned = far[id].owned /\ h.released = far[id].released
        /\ h.count = far[id].count /\ h.keeps = far[id].keeps
    BY <1>4, <2>1 DEF Handles
  <2> HIDE DEF h
  <2> QED BY <1>5, <2>1, <2>2
<1>10. CASE Ready(id)
  <2> DEFINE h == [far[id] EXCEPT !.wanted = @ \cup {"state"}, !.readying = TRUE]
  <2>1. far' = [far EXCEPT ![id] = h]
    BY <1>10 DEF Ready
  <2>2. /\ h \in Handles /\ h.owned = far[id].owned /\ h.released = far[id].released
        /\ h.count = far[id].count /\ h.keeps = far[id].keeps
    BY <1>4 DEF Handles, Kinds
  <2> HIDE DEF h
  <2> QED BY <1>5, <2>1, <2>2
<1>11. CASE Wait(id) \/ Stop(id)
  <2> DEFINE h == [far[id] EXCEPT !.wanted = @ \cup {"exit"}, !.waiting = TRUE]
  <2>1. far' = [far EXCEPT ![id] = h]
    BY <1>11 DEF Wait, Stop
  <2>2. /\ h \in Handles /\ h.owned = far[id].owned /\ h.released = far[id].released
        /\ h.count = far[id].count /\ h.keeps = far[id].keeps
    BY <1>4 DEF Handles, Kinds
  <2> HIDE DEF h
  <2> QED BY <1>5, <2>1, <2>2
<1>12. ASSUME NEW kind \in {"message", "state"}, Subscribe(id, kind)
       PROVE  Covered(far')
  <2> DEFINE h == [far[id] EXCEPT !.wanted = @ \cup {kind}]
  <2>1. far' = [far EXCEPT ![id] = h]
    BY <1>12 DEF Subscribe
  <2>2. /\ h \in Handles /\ h.owned = far[id].owned /\ h.released = far[id].released
        /\ h.count = far[id].count /\ h.keeps = far[id].keeps
    BY <1>4 DEF Handles, Kinds
  <2> HIDE DEF h
  <2> QED BY <1>5, <2>1, <2>2
<1> QED BY <1>2, <1>6, <1>7, <1>8, <1>9, <1>10, <1>11, <1>12

LEMMA CoveredNext == TInv /\ Covered(far) /\ [Next]_vars => Covered(far)'
<1> SUFFICES ASSUME TInv, Covered(far), [Next]_vars PROVE Covered(far')
  OBVIOUS
<1>1. CASE far' = far
  BY <1>1
<1>2. CASE ReaderGets
  BY <1>2, ReaderGetsCovers
<1>3. CASE ReaderAsks
  BY <1>3, ReaderAsksCovers
<1> QED
  BY <1>1, <1>2, <1>3
  DEF Next, HolderSays, HandOver, End, Publish, Speak, Flush, HolderGets,
      HolderTunes, HolderReleases, HolderStops, reader, vars

LEMMA CoveredInit == Init => Covered(far)
<1> SUFFICES ASSUME Init PROVE Covered(far)
  OBVIOUS
<1>1. \A i \in Ids : far[i] # None =>
        far[i].count = 1 /\ far[i].keeps = 1 /\ far[i].owned = {}
  BY DEF Init, NewHandle
<1>2. \A i \in Ids : Owners(far, i) = {}
  BY <1>1 DEF Owners
<1> HIDE DEF Owners
<1>3. \A i \in Ids : Cardinality(Owners(far, i)) = 0
  BY <1>2, FS_EmptySet
<1> QED BY <1>1, <1>3 DEF Covered, Covers

\* Nobody is robbed of a reference: however the application, the states of several
\* handles and the cascades of releases keep and give back one handle, its count is
\* never below the number of those who keep it (remote-process.ts:177-205, 260-272).
THEOREM RefsCountsCover == Spec => []CountsCover
<1>1. Spec => [](TInv /\ Covered(far))
  BY TInvInit, TInvNext, CoveredInit, CoveredNext, PTL DEF Spec
<1>2. TInv /\ Covered(far) => CountsCover
  BY CoveredIsCountsCover
<1> QED BY <1>1, <1>2, PTL
---------------------------------------------------------------------------
\* The exit is the last word.

\* The end of the process has been said, and its word is under way or has come.
Ended(id) ==
    \/ \E fr \in Range(toReader) : fr.kind = "exit" /\ fr.to = id
    \/ far[id] # None /\ far[id].exit

\* The streams not yet begun are of different processes, none of which is on record.
Unbegun ==
    /\ \A m, n \in DOMAIN unsaid : m < n => unsaid[m].id # unsaid[n].id
    /\ \A u \in Range(unsaid) : record[u.id] = None

\* Nothing is on record, or begun later, for a process whose end has been said.
Silenced ==
    /\ \A id \in Ids : record[id] # None => id < nextId
    /\ \A id \in Ids : Ended(id) =>
          record[id] = None /\ \A u \in Range(unsaid) : u.id # id

\* No frame follows an exit, on the wire or past it.
NoneAfter ==
    /\ \A fr \in Range(toReader) : fr.kind = "exit" => fr.to # 0
    /\ \A m, n \in DOMAIN toReader :
          m < n /\ toReader[m].kind = "exit" => toReader[n].to # toReader[m].to
    /\ \A id \in Ids : far[id] # None /\ far[id].exit =>
          \A fr \in Range(toReader) : fr.to # id

LInv == Unbegun /\ Silenced /\ NoneAfter

LEMMA LInvIsLastWord == TInv /\ LInv => LastWord
<1> SUFFICES ASSUME TInv, LInv PROVE LastWord
  OBVIOUS
<1>1. toReader \in Seq(Frames)
  BY DEF TInv, HolderOK
<1>2. DOMAIN toReader = 1 .. Len(toReader) /\ Len(toReader) \in Nat
  BY <1>1
<1>3. ASSUME NEW n \in DOMAIN toReader, toReader[n].kind = "exit"
      PROVE  /\ record[toReader[n].to] = None
             /\ \A j \in n + 1 .. Len(toReader) : toReader[j].to # toReader[n].to
  <2> DEFINE fr == toReader[n]
  <2>1. fr \in Range(toReader) /\ fr \in Frames
    BY <1>1, <1>3 DEF Range
  <2>2. fr.to \in Ids
    BY <1>3, <2>1 DEF LInv, NoneAfter, Frames
  <2>3. Ended(fr.to)
    BY <1>3, <2>1 DEF Ended
  <2>4. record[fr.to] = None
    BY <2>2, <2>3 DEF LInv, Silenced
  <2>5. \A j \in n + 1 .. Len(toReader) : j \in DOMAIN toReader /\ n < j
    BY <1>2, <1>3
  <2> QED BY <1>3, <2>4, <2>5 DEF LInv, NoneAfter
<1>4. ASSUME NEW id \in Ids, far[id] # None, far[id].exit
      PROVE  ~Travels(toReader, {"state", "message", "exit"}, id)
  BY <1>4 DEF LInv, NoneAfter, Travels, Range
<1> QED BY <1>3, <1>4 DEF LastWord, Bound

\* A number that something on the wires or in the reader's table means was given.
LEMMA EndedIsOld ==
    ASSUME TInv, OneMeaning, NEW id \in Ids, Ended(id)
    PROVE  id < nextId
<1>1. CASE \E fr \in Range(toReader) : fr.kind = "exit" /\ fr.to = id
  <2>1. PICK fr \in Range(toReader) : fr.to = id
    BY <1>1
  <2>2. fr \in Frames
    BY <2>1 DEF TInv, HolderOK, Range
  <2>3. fr.about \in Procs
    BY <2>1, <2>2 DEF Frames, Ids
  <2>4. Means(id, fr.about)
    BY <2>1 DEF Means, Calls
  <2> QED BY <2>3, <2>4 DEF OneMeaning
<1>2. CASE far[id] # None /\ far[id].exit
  <2>1. far[id].of \in Procs
    BY <1>2, HandleOf DEF TInv, ReaderOK, Handles
  <2>2. Means(id, far[id].of)
    BY <1>2 DEF Means
  <2> QED BY <2>1, <2>2 DEF OneMeaning
<1> QED BY <1>1, <1>2 DEF Ended

LEMMA UnsaidIsOld ==
    ASSUME TInv, OneMeaning, NEW u \in Range(unsaid)
    PROVE  u.id \in Ids /\ u.proc \in Procs /\ u.id < nextId
<1>1. unsaid \in Seq([proc : Procs, id : Ids])
  BY DEF TInv, Numbered
<1>2. u.id \in Ids /\ u.proc \in Procs
  <2> DEFINE T == [proc : Procs, id : Ids]
  <2>1. unsaid \in Seq(T)
    BY <1>1
  <2> HIDE DEF T
  <2>2. u \in T
    BY <2>1, RangeOf
  <2> QED BY <2>2 DEF T
<1>3. Means(u.id, u.proc)
  BY DEF Means
<1> QED BY <1>2, <1>3 DEF OneMeaning

\* Numbering a process adds its stream to those not begun.
LEMMA NumberSilent ==
    ASSUME TInv, OneMeaning, LInv, NEW c \in Procs \cup {None}, Number(c)
    PROVE  /\ nextId' >= nextId
           /\ \A m, n \in DOMAIN unsaid' : m < n => unsaid'[m].id # unsaid'[n].id
           /\ \A u \in Range(unsaid') : u \in Range(unsaid) \/ u.id = nextId
<1>1. nextId \in Nat /\ unsaid \in Seq([proc : Procs, id : Ids])
  BY DEF TInv, Numbered
<1>2. CASE c # None /\ number[c] = 0
  <2> DEFINE e == [proc |-> c, id |-> nextId]
             T == [proc : Procs, id : Ids]
  <2>1. unsaid' = Append(unsaid, e) /\ nextId' = nextId + 1 /\ nextId \in Ids /\ c \in Procs
    BY <1>2 DEF Number, NextId
  <2>2. e \in T /\ e.id = nextId /\ unsaid \in Seq(T)
    BY <1>1, <2>1
  <2> HIDE DEF e, T
  <2>3. Range(unsaid') = Range(unsaid) \cup {e}
    BY <2>1, <2>2, RangeAppend
  <2>4. /\ DOMAIN unsaid = 1 .. Len(unsaid) /\ DOMAIN unsaid' = 1 .. Len(unsaid) + 1
        /\ Len(unsaid) \in Nat
        /\ unsaid'[Len(unsaid) + 1] = e /\ \A n \in DOMAIN unsaid : unsaid'[n] = unsaid[n]
    BY <2>1, <2>2
  <2>5. \A n \in DOMAIN unsaid : unsaid[n].id < nextId
    BY UnsaidIsOld DEF Range
  <2>6. ASSUME NEW m \in DOMAIN unsaid', NEW n \in DOMAIN unsaid', m < n
        PROVE  unsaid'[m].id # unsaid'[n].id
    <3>1. m \in DOMAIN unsaid
      BY <2>4, <2>6
    <3>2. CASE n \in DOMAIN unsaid
      BY <2>4, <2>6, <3>1, <3>2 DEF LInv, Unbegun
    <3>3. CASE n = Len(unsaid) + 1
      <4>1. unsaid'[m].id < nextId /\ unsaid'[n].id = nextId
        BY <2>2, <2>4, <2>5, <3>1, <3>3
      <4>2. unsaid[m].id \in Nat /\ unsaid'[m] = unsaid[m]
        <5>1. unsaid[m] \in Range(unsaid)
          BY <3>1 DEF Range
        <5>2. unsaid[m].id \in Ids
          BY <5>1, UnsaidIsOld
        <5> QED BY <2>4, <3>1, <5>2 DEF Ids
      <4> QED BY <1>1, <4>1, <4>2
    <3> QED BY <2>4, <3>2, <3>3
  <2> QED BY <1>1, <2>1, <2>2, <2>3, <2>6
<1>3. CASE ~(c # None /\ number[c] = 0)
  <2>1. UNCHANGED <<unsaid, nextId>>
    BY <1>3 DEF Number
  <2> QED BY <1>1, <2>1 DEF LInv, Unbegun
<1> QED BY <1>2, <1>3

\* Saying a frame of a process on record, or of none; an exit closes the record.
LEMMA SaidIsNotAfter ==
    ASSUME TInv, OneMeaning, LInv,
           NEW c \in Procs \cup {None}, NEW fr \in Frames, Say(fr, c),
           UNCHANGED far,
           \A id \in Ids : record'[id] # None => record[id] # None,
           \/ fr.to = 0 /\ fr.kind = "message"
           \/ /\ fr.to \in Ids /\ record[fr.to] # None
              /\ fr.kind = "exit" => record'[fr.to] = None
    PROVE  LInv'
<1>1. Number(c) /\ toReader' = Append(toReader, fr) /\ toReader \in Seq(Frames)
  BY DEF Say, TInv, HolderOK
<1>2. /\ nextId' >= nextId
      /\ \A m, n \in DOMAIN unsaid' : m < n => unsaid'[m].id # unsaid'[n].id
      /\ \A u \in Range(unsaid') : u \in Range(unsaid) \/ u.id = nextId
  BY <1>1, NumberSilent
<1>3. /\ Range(toReader') = Range(toReader) \cup {fr}
      /\ DOMAIN toReader = 1 .. Len(toReader) /\ DOMAIN toReader' = 1 .. Len(toReader) + 1
      /\ Len(toReader) \in Nat
      /\ toReader'[Len(toReader) + 1] = fr
      /\ \A n \in DOMAIN toReader : toReader'[n] = toReader[n]
  BY <1>1, RangeAppend
<1>4. nextId \in Nat /\ nextId' \in Nat /\ Ids \subseteq Nat /\ 0 \notin Ids
  <2>1. Numbered'
    BY <1>1, NumberKeeps DEF TInv
  <2> QED BY <2>1 DEF TInv, Numbered, Ids
<1>5. \A id \in Ids : record[id] # None => id < nextId /\ ~Ended(id)
  BY DEF LInv, Silenced
<1>6. Unbegun'
  <2>1. \A u \in Range(unsaid') : record'[u.id] = None
    <3>1. ASSUME NEW u \in Range(unsaid')
          PROVE  u.id \in Ids
      <4>1. Numbered'
        BY <1>1, NumberKeeps DEF TInv
      <4>2. unsaid' \in Seq([proc : Procs, id : Ids])
        BY <4>1 DEF Numbered
      <4> DEFINE T == [proc : Procs, id : Ids]
      <4>3. unsaid' \in Seq(T)
        BY <4>2
      <4> HIDE DEF T
      <4>4. u \in T
        BY <4>3, RangeOf
      <4> QED BY <4>4 DEF T
    <3>2. \A u \in Range(unsaid') : record[u.id] = None
      BY <1>2, <1>4, <1>5, <3>1 DEF LInv, Unbegun
    <3> QED BY <3>1, <3>2
  <2> QED BY <1>2, <2>1 DEF Unbegun
<1>7. Silenced'
  <2>1. ASSUME NEW id \in Ids, record'[id] # None
        PROVE  id < nextId'
    <3>1. id < nextId
      BY <1>5, <2>1
    <3> QED BY <1>2, <1>4, <3>1
  <2>2. ASSUME NEW id \in Ids, Ended(id)'
        PROVE  record'[id] = None /\ \A u \in Range(unsaid') : u.id # id
    <3>1. Ended(id) \/ (fr.kind = "exit" /\ fr.to = id)
      BY <1>3, <2>2 DEF Ended
    <3>2. CASE Ended(id)
      <4>1. record[id] = None /\ id < nextId /\ \A u \in Range(unsaid) : u.id # id
        BY <3>2, EndedIsOld DEF LInv, Silenced
      <4> QED BY <1>2, <1>4, <4>1
    <3>3. CASE fr.kind = "exit" /\ fr.to = id
      <4>1. record'[id] = None /\ record[id] # None /\ id < nextId
        BY <1>4, <1>5, <3>3
      <4>2. \A u \in Range(unsaid) : u.id # id
        BY <4>1 DEF LInv, Unbegun
      <4> QED BY <1>2, <1>4, <4>1, <4>2
    <3> QED BY <3>1, <3>2, <3>3
  <2> QED BY <2>1, <2>2 DEF Silenced
<1>8. NoneAfter'
  <2>1. \A g \in Range(toReader') : g.kind = "exit" => g.to # 0
    BY <1>3, <1>4 DEF LInv, NoneAfter
  <2>2. ASSUME NEW m \in DOMAIN toReader', NEW n \in DOMAIN toReader',
               m < n, toReader'[m].kind = "exit"
        PROVE  toReader'[n].to # toReader'[m].to
    <3>1. m \in DOMAIN toReader /\ toReader'[m] = toReader[m]
      BY <1>3, <2>2
    <3>2. CASE n \in DOMAIN toReader
      BY <1>3, <2>2, <3>1, <3>2 DEF LInv, NoneAfter
    <3>3. CASE n = Len(toReader) + 1
      <4>1. toReader[m] \in Range(toReader) /\ toReader[m].kind = "exit"
        BY <2>2, <3>1 DEF Range
      <4>2. toReader[m].to # 0 /\ toReader[m] \in Frames
        BY <1>1, <3>1, <4>1 DEF LInv, NoneAfter
      <4>3. toReader[m].to \in Ids /\ Ended(toReader[m].to)
        BY <4>1, <4>2 DEF Ended, Frames
      <4> QED BY <1>3, <1>4, <1>5, <3>1, <3>3, <4>3
    <3> QED BY <1>3, <3>2, <3>3
  <2>3. ASSUME NEW id \in Ids, far'[id] # None, far'[id].exit, NEW g \in Range(toReader')
        PROVE  g.to # id
    <3>1. Ended(id)
      BY <2>3 DEF Ended
    <3>2. CASE g = fr
      BY <1>4, <1>5, <3>1, <3>2
    <3>3. CASE g \in Range(toReader)
      BY <2>3, <3>3 DEF LInv, NoneAfter
    <3> QED BY <1>3, <3>2, <3>3
  <2> QED BY <2>1, <2>2, <2>3 DEF NoneAfter
<1> QED BY <1>6, <1>7, <1>8 DEF LInv

\* Nothing is said, and nothing new put on record.
LEMMA SilentKeeps ==
    ASSUME LInv, UNCHANGED <<unsaid, nextId, toReader>>,
           \A id \in Ids : far'[id] # None /\ far'[id].exit => far[id] # None /\ far[id].exit,
           \A id \in Ids : record'[id] # None => record[id] # None,
           TInv, OneMeaning
    PROVE  LInv'
<1>1. \A id \in Ids : Ended(id)' => Ended(id)
  BY DEF Ended
<1>2. Unbegun'
  BY UnsaidIsOld DEF LInv, Unbegun
<1>3. Silenced'
  BY <1>1 DEF LInv, Silenced
<1>4. NoneAfter'
  BY DEF LInv, NoneAfter
<1> QED BY <1>2, <1>3, <1>4 DEF LInv
LEMMA HolderSaysLast ==
    ASSUME TInv, OneMeaning, LInv, HolderSays
    PROVE  LInv'
<1>0. /\ None \notin Procs /\ 0 \notin Ids /\ Carriers \subseteq Procs /\ Leaves \subseteq Procs
      /\ Numbered /\ HolderOK
  BY RefsAssumption DEF Procs, Ids, TInv
<1>1. \A p \in Procs : number[p] \in Ids \cup {0}
  BY <1>0 DEF Numbered
<1>2. \A c \in Procs \cup {None} : Number(c) => IdFor(c) \in Ids \cup {0} /\ (IdFor(c) = 0 <=> c = None)
  BY <1>0, NumberKeeps
<1>3. ASSUME NEW p \in Procs, HandOver(p) PROVE LInv'
  <2> DEFINE fr == ToReader("message", None, 0, 0, IdFor(p), p)
  <2>1. Say(fr, p) /\ UNCHANGED <<record, far>>
    BY <1>3 DEF HandOver, reader
  <2>2. fr \in Frames /\ fr.to = 0 /\ fr.kind = "message"
    BY <1>0, <1>2, <2>1 DEF Say, ToReader, Frames
  <2> HIDE DEF fr
  <2> QED BY <2>1, <2>2, SaidIsNotAfter
<1>4. ASSUME NEW p \in Procs, End(p) PROVE LInv'
  <2> DEFINE s == state[p]
             id == number[p]
             c == s.ref
             fr == ToReader("exit", p, id, s.v, IdFor(c), c)
  <2>1. /\ UNCHANGED far /\ s.v \in Nat /\ c \in Procs \cup {None}
        /\ record' = Closed(id)
    BY <1>0, <1>4, StateOf DEF End, reader
  <2>2. /\ \A i \in Ids : record'[i] # None => record[i] # None
        /\ id # 0 => record'[id] = None
    BY <1>0, <1>1, <2>1 DEF Closed, HolderOK
  <2>3. CASE UNCHANGED <<number, named, unsaid, nextId, toReader>>
    BY <2>1, <2>2, <2>3, SilentKeeps
  <2>4. CASE Told(id) /\ Say(fr, c)
    <3>1. id # 0 /\ record[id] # None /\ id \in Ids
      BY <1>1, <2>4 DEF Told
    <3>2. fr \in Frames /\ fr.to = id
      <4>1. IdFor(c) \in Ids \cup {0} /\ (IdFor(c) = 0 <=> c = None)
        BY <1>2, <2>1, <2>4 DEF Say
      <4> HIDE DEF s, id, c
      <4> QED BY <1>0, <2>1, <3>1, <4>1 DEF ToReader, Frames
    <3> HIDE DEF fr, id, c
    <3> QED BY <2>1, <2>2, <2>4, <3>1, <3>2, SaidIsNotAfter
  <2> QED BY <1>4, <2>3, <2>4 DEF End
<1>5. ASSUME NEW p \in Procs, NEW kind \in {"state", "message"}, NEW v \in Nat,
             NEW c \in Leaves \cup {None},
             number[p] # 0, record[number[p]] # None,
             Say(ToReader(kind, p, number[p], v, IdFor(c), c), c),
             UNCHANGED <<record, far>>
      PROVE  LInv'
  <2> DEFINE fr == ToReader(kind, p, number[p], v, IdFor(c), c)
  <2>1. c \in Procs \cup {None} /\ number[p] \in Ids
    BY <1>0, <1>1, <1>5
  <2>2. IdFor(c) \in Ids \cup {0} /\ (IdFor(c) = 0 <=> c = None)
    BY <1>2, <1>5, <2>1 DEF Say
  <2>3. fr \in Frames /\ fr.to = number[p] /\ fr.kind = kind
    BY <1>0, <2>1, <2>2 DEF ToReader, Frames
  <2>4. Say(fr, c) /\ fr.kind # "exit"
    BY <1>5, <2>3
  <2> HIDE DEF fr
  <2> QED BY <1>5, <2>1, <2>3, <2>4, SaidIsNotAfter
<1>6. ASSUME NEW p \in Carriers, NEW c \in Leaves \cup {None}, Publish(p, c)
      PROVE  LInv'
  <2>1. UNCHANGED <<record, far>> /\ state[p].v + 1 \in Nat /\ p \in Procs
    BY <1>0, <1>6, StateOf DEF Publish, reader
  <2>2. CASE UNCHANGED <<number, named, unsaid, nextId, toReader>>
    BY <2>1, <2>2, SilentKeeps
  <2>3. CASE /\ number[p] # 0 /\ record[number[p]] # None
             /\ Say(ToReader("state", p, number[p], state[p].v + 1, IdFor(c), c), c)
    BY <1>5, <2>1, <2>3
  <2> QED BY <1>6, <2>2, <2>3 DEF Publish
<1>7. ASSUME NEW p \in Carriers, NEW c \in Leaves \cup {None}, Speak(p, c)
      PROVE  LInv'
  <2>1. /\ UNCHANGED <<record, far>> /\ number[p] # 0 /\ record[number[p]] # None
        /\ Say(ToReader("message", p, number[p], 0, IdFor(c), c), c) /\ p \in Procs
    BY <1>0, <1>7 DEF Speak, reader
  <2> QED BY <1>5, <2>1
<1> QED BY <1>3, <1>4, <1>6, <1>7 DEF HolderSays

LEMMA FlushLast ==
    ASSUME TInv, OneMeaning, LInv, Flush
    PROVE  LInv'
<1> DEFINE T == [proc : Procs, id : Ids]
           u == Head(unsaid)
           fr == ToReader("methods", u.proc, u.id, 0, 0, None)
<1>1. /\ unsaid # <<>> /\ unsaid' = Tail(unsaid)
      /\ toReader' = Append(toReader, fr)
      /\ record' = [record EXCEPT ![u.id] = IF u.proc \in running THEN {} ELSE None]
      /\ UNCHANGED <<nextId, far>>
  BY DEF Flush, Streamed, reader
<1>2. unsaid \in Seq(T) /\ toReader \in Seq(Frames)
  BY DEF TInv, Numbered, HolderOK
<1>3. /\ u \in Range(unsaid) /\ Range(unsaid') \subseteq Range(unsaid)
  BY <1>1, <1>2, RangeTail
<1>4. /\ DOMAIN unsaid = 1 .. Len(unsaid) /\ Len(unsaid) \in Nat /\ Len(unsaid) > 0
      /\ DOMAIN unsaid' = 1 .. Len(unsaid) - 1 /\ u = unsaid[1]
      /\ \A n \in 1 .. Len(unsaid) - 1 : unsaid'[n] = unsaid[n + 1]
  BY <1>1, <1>2
<1>5. u.id \in Ids /\ u.proc \in Procs /\ u.id < nextId
  BY <1>3, UnsaidIsOld
<1> HIDE DEF u, T
<1>6. fr \in Frames /\ fr.to = u.id /\ fr.kind = "methods"
  BY <1>5, RefsAssumption DEF ToReader, Frames, Procs, Ids
<1> HIDE DEF fr
<1>7. /\ Range(toReader') = Range(toReader) \cup {fr}
      /\ DOMAIN toReader = 1 .. Len(toReader) /\ DOMAIN toReader' = 1 .. Len(toReader) + 1
      /\ Len(toReader) \in Nat
      /\ toReader'[Len(toReader) + 1] = fr
      /\ \A n \in DOMAIN toReader : toReader'[n] = toReader[n]
  BY <1>1, <1>2, <1>6, RangeAppend
<1>8. \A w \in Range(unsaid') : w.id # u.id
  <2>1. ASSUME NEW n \in DOMAIN unsaid' PROVE unsaid'[n].id # u.id
    <3>1. n + 1 \in DOMAIN unsaid /\ 1 \in DOMAIN unsaid /\ 1 < n + 1 /\ unsaid'[n] = unsaid[n + 1]
      BY <1>4, <2>1
    <3>2. unsaid[1].id # unsaid[n + 1].id
      BY <3>1 DEF LInv, Unbegun
    <3> QED BY <1>4, <3>1, <3>2
  <2> QED BY <2>1 DEF Range
<1>9. \A id \in Ids : record'[id] = IF id = u.id THEN IF u.proc \in running THEN {} ELSE None
                                    ELSE record[id]
  BY <1>1 DEF TInv, HolderOK
<1>10. \A id \in Ids : Ended(id)' => Ended(id) /\ id # u.id
  <2>1. \A id \in Ids : Ended(id)' => Ended(id)
    BY <1>1, <1>6, <1>7 DEF Ended
  <2> QED BY <1>3, <2>1 DEF LInv, Silenced
<1>14. \A id \in Ids, g \in Range(toReader') :
          g.kind = "exit" /\ g.to = id => id # u.id
  BY <1>10 DEF Ended
<1>11. Unbegun'
  <2>1. \A w \in Range(unsaid') : w.id \in Ids /\ record[w.id] = None
    BY <1>3, UnsaidIsOld DEF LInv, Unbegun
  <2>2. ASSUME NEW m \in DOMAIN unsaid', NEW n \in DOMAIN unsaid', m < n
        PROVE  unsaid'[m].id # unsaid'[n].id
    <3>1. /\ m + 1 \in DOMAIN unsaid /\ n + 1 \in DOMAIN unsaid /\ m + 1 < n + 1
          /\ unsaid'[m] = unsaid[m + 1] /\ unsaid'[n] = unsaid[n + 1]
      BY <1>4, <2>2
    <3> QED BY <3>1 DEF LInv, Unbegun
  <2> QED BY <1>8, <1>9, <2>1, <2>2 DEF Unbegun
<1>12. Silenced'
  BY <1>1, <1>3, <1>5, <1>9, <1>10 DEF LInv, Silenced
<1>13. NoneAfter'
  <2>1. \A g \in Range(toReader') : g.kind = "exit" => g.to # 0
    BY <1>6, <1>7 DEF LInv, NoneAfter
  <2>2. ASSUME NEW m \in DOMAIN toReader', NEW n \in DOMAIN toReader',
               m < n, toReader'[m].kind = "exit"
        PROVE  toReader'[n].to # toReader'[m].to
    <3>1. m \in DOMAIN toReader /\ toReader'[m] = toReader[m]
      BY <1>7, <2>2
    <3>2. CASE n \in DOMAIN toReader
      BY <1>7, <2>2, <3>1, <3>2 DEF LInv, NoneAfter
    <3>3. CASE n = Len(toReader) + 1
      <4> DEFINE g == toReader'[m]
      <4>1. g \in Range(toReader') /\ g \in Frames /\ g.to # 0 /\ g.kind = "exit"
        BY <1>2, <2>1, <2>2, <3>1 DEF Range
      <4> HIDE DEF g
      <4>2. g.to \in Ids
        BY <4>1 DEF Frames
      <4>4. g.to # u.id
        BY <1>14, <4>1, <4>2
      <4>5. toReader'[n] = fr
        BY <1>7, <3>3
      <4> QED BY <1>6, <4>4, <4>5 DEF g
    <3> QED BY <1>7, <3>2, <3>3
  <2>3. ASSUME NEW id \in Ids, far'[id] # None, far'[id].exit, NEW g \in Range(toReader')
        PROVE  g.to # id
    <3>1. Ended(id)'
      BY <2>3 DEF Ended
    <3>2. CASE g = fr
      BY <1>6, <1>10, <3>1, <3>2
    <3>3. CASE g \in Range(toReader)
      BY <1>1, <2>3, <3>3 DEF LInv, NoneAfter
    <3> QED BY <1>7, <3>2, <3>3
  <2> QED BY <2>1, <2>2, <2>3 DEF NoneAfter
<1> QED BY <1>11, <1>12, <1>13 DEF LInv

LEMMA HolderGetsLast ==
    ASSUME TInv, OneMeaning, LInv, HolderGets
    PROVE  LInv'
<1> DEFINE f == Head(toHolder)
<1>0. /\ None \notin Procs /\ 0 \notin Ids
      /\ Numbered /\ HolderOK
  BY RefsAssumption DEF Procs, Ids, TInv
<1>1. toHolder # <<>> /\ UNCHANGED far
  BY DEF HolderGets, HolderTunes, HolderReleases, HolderStops, reader
<1>2. f.to \in Ids /\ f.kinds \subseteq Kinds
  BY <1>1, HolderHears
<1>3. CASE HolderTunes
  <2> DEFINE p == named[f.to]
             s == state[p]
             c == s.ref
             fr == ToReader("state", p, f.to, s.v, IdFor(c), c)
  <2>1. \/ p # None /\ record[f.to] # None /\ TuneTo(f.to, f.kinds)
        \/ UNCHANGED <<record, number, named, unsaid, nextId, toReader>>
    BY <1>3 DEF HolderTunes
  <2>2. CASE UNCHANGED <<record, number, named, unsaid, nextId, toReader>>
    BY <1>1, <2>2, SilentKeeps
  <2>3. CASE p # None /\ record[f.to] # None /\ TuneTo(f.to, f.kinds)
    <3>1. p \in Procs
      BY <1>0, <1>2, <2>3 DEF Numbered
    <3>2. s.v \in Nat /\ c \in Procs \cup {None}
      BY <1>0, <3>1, StateOf
    <3>3. \A i \in Ids : record'[i] # None => record[i] # None
      BY <1>0, <1>2, <2>3 DEF TuneTo, HolderOK
    <3>4. CASE UNCHANGED <<number, named, unsaid, nextId, toReader>>
      BY <1>1, <3>3, <3>4, SilentKeeps
    <3>5. CASE Say(fr, c)
      <4>1. IdFor(c) \in Ids \cup {0} /\ (IdFor(c) = 0 <=> c = None)
        BY <1>0, <3>2, <3>5, NumberKeeps DEF Say
      <4>2. fr \in Frames /\ fr.to = f.to /\ fr.kind = "state"
        <5> HIDE DEF p, s, c, f
        <5> QED BY <1>0, <1>2, <3>1, <3>2, <4>1 DEF ToReader, Frames
      <4> HIDE DEF fr, c, f
      <4> QED BY <1>1, <1>2, <2>3, <3>2, <3>3, <3>5, <4>2, SaidIsNotAfter
    <3> QED BY <2>3, <3>4, <3>5 DEF TuneTo
  <2> QED BY <2>1, <2>2, <2>3
<1>4. CASE HolderReleases
  <2>1. UNCHANGED <<toReader, unsaid, nextId>>
    BY <1>4 DEF HolderReleases, reader
  <2>2. \A i \in Ids : record'[i] # None => record[i] # None
    <3>1. record' = record \/ record' = [record EXCEPT ![f.to] = None]
      BY <1>4 DEF HolderReleases
    <3> HIDE DEF f
    <3> QED BY <1>0, <1>2, <3>1 DEF HolderOK
  <2> QED BY <1>1, <2>1, <2>2, SilentKeeps
<1>5. CASE HolderStops
  <2>1. UNCHANGED <<toReader, unsaid, nextId, record>>
    BY <1>5 DEF HolderStops
  <2> QED BY <1>1, <2>1, SilentKeeps
<1> QED BY <1>3, <1>4, <1>5 DEF HolderGets

LEMMA ReaderGetsLast ==
    ASSUME TInv, OneMeaning, LInv, ReaderGets
    PROVE  LInv'
<1> DEFINE fr == Head(toReader)
<1>1. /\ toReader # <<>> /\ toReader' = Tail(toReader) /\ Heeded(far, far', fr)
      /\ fr \in Frames
  BY ReaderGetsKeeps DEF TInv, HolderOK
<1>2. UNCHANGED <<record, unsaid, nextId>> /\ toReader \in Seq(Frames)
  BY DEF ReaderGets, holder, TInv, HolderOK
<1>3. fr \in Range(toReader) /\ Range(toReader') \subseteq Range(toReader)
  BY <1>1, <1>2, RangeTail
<1>4. /\ DOMAIN toReader = 1 .. Len(toReader) /\ Len(toReader) \in Nat /\ Len(toReader) > 0
      /\ DOMAIN toReader' = 1 .. Len(toReader) - 1 /\ fr = toReader[1]
      /\ \A n \in 1 .. Len(toReader) - 1 : toReader'[n] = toReader[n + 1]
  BY <1>1, <1>2
<1> HIDE DEF fr
<1>5. \A id \in Ids : far'[id] # None /\ far'[id].exit =>
         (far[id] # None /\ far[id].exit) \/ (fr.kind = "exit" /\ fr.to = id)
  BY <1>1 DEF Heeded
<1>6. \A id \in Ids : Ended(id)' => Ended(id)
  BY <1>3, <1>5 DEF Ended
<1>7. Unbegun'
  BY <1>2 DEF LInv, Unbegun
<1>8. Silenced'
  BY <1>2, <1>6 DEF LInv, Silenced
<1>9. NoneAfter'
  <2>1. \A g \in Range(toReader') : g.kind = "exit" => g.to # 0
    BY <1>3 DEF LInv, NoneAfter
  <2>2. ASSUME NEW m \in DOMAIN toReader', NEW n \in DOMAIN toReader',
               m < n, toReader'[m].kind = "exit"
        PROVE  toReader'[n].to # toReader'[m].to
    <3>1. /\ m + 1 \in DOMAIN toReader /\ n + 1 \in DOMAIN toReader /\ m + 1 < n + 1
          /\ toReader'[m] = toReader[m + 1] /\ toReader'[n] = toReader[n + 1]
      BY <1>4, <2>2
    <3> QED BY <2>2, <3>1 DEF LInv, NoneAfter
  <2>3. ASSUME NEW id \in Ids, far'[id] # None, far'[id].exit, NEW g \in Range(toReader')
        PROVE  g.to # id
    <3>1. CASE far[id] # None /\ far[id].exit
      BY <1>3, <2>3, <3>1 DEF LInv, NoneAfter
    <3>2. CASE fr.kind = "exit" /\ fr.to = id
      <4>1. PICK n \in DOMAIN toReader' : g = toReader'[n]
        BY <2>3 DEF Range
      <4>2. /\ 1 \in DOMAIN toReader /\ n + 1 \in DOMAIN toReader /\ 1 < n + 1
            /\ g = toReader[n + 1]
        BY <1>4, <4>1
      <4>3. toReader[n + 1].to # toReader[1].to
        BY <1>4, <3>2, <4>2 DEF LInv, NoneAfter
      <4> QED BY <1>4, <3>2, <4>2, <4>3
    <3> QED BY <1>5, <2>3, <3>1, <3>2
  <2> QED BY <2>1, <2>2, <2>3 DEF NoneAfter
<1> QED BY <1>7, <1>8, <1>9 DEF LInv

LEMMA ReaderAsksLast ==
    ASSUME TInv, OneMeaning, LInv, ReaderAsks
    PROVE  LInv'
<1>1. AskedFor /\ UNCHANGED <<holder, toReader>>
  BY ReaderAsksKeeps DEF TInv
<1>2. Kept(far, far') /\ UNCHANGED <<unsaid, nextId, toReader, record>>
  BY <1>1 DEF AskedFor, holder
<1> QED BY <1>2, SilentKeeps DEF Kept

LEMMA LInvNext == TInv /\ OneMeaning /\ LInv /\ [Next]_vars => LInv'
<1> SUFFICES ASSUME TInv, OneMeaning, LInv, [Next]_vars PROVE LInv'
  OBVIOUS
<1>1. CASE UNCHANGED vars
  BY <1>1, SilentKeeps DEF vars, holder, reader
<1> QED BY <1>1, HolderSaysLast, FlushLast, HolderGetsLast, ReaderGetsLast, ReaderAsksLast DEF Next

LEMMA LInvInit == Init => LInv
<1> SUFFICES ASSUME Init PROVE LInv
  OBVIOUS
<1>1. TInv
  BY TInvInit
<1>2. Numbered
  BY <1>1 DEF TInv
<1>3. /\ Range(toReader) = {} /\ Range(unsaid) = {}
      /\ DOMAIN toReader = {} /\ DOMAIN unsaid = {}
  <2>1. toReader = <<>> /\ unsaid = <<>>
    BY DEF Init
  <2> QED BY <2>1 DEF Range
<1>4. \A i \in Ids : far[i] # None => ~far[i].exit
  BY DEF Init, NewHandle
<1>5. \A i \in Ids : record[i] # None => i < nextId
  <2>1. ASSUME NEW i \in Ids, record[i] # None PROVE i < nextId
    <3>1. Known(i)
      BY <2>1 DEF Init
    <3>2. PICK c \in Carriers : First[c] = i
      BY <3>1 DEF Known
    <3>3. number[c] = i /\ c \in Procs
      BY <3>2 DEF Init, Procs
    <3>4. named[i] = c /\ c # None
      BY <1>2, <3>2, <3>3, RefsAssumption DEF Numbered
    <3> QED BY <1>2, <3>4 DEF Numbered, Unused, Ids
  <2> QED BY <2>1
<1> QED BY <1>3, <1>4, <1>5 DEF LInv, Unbegun, Silenced, NoneAfter, Ended

\* The exit is the last word: whatever is tuned, stopped, handed over or begun while a
\* process ends, nothing about it follows, on the wire or to a handle that has heard it
\* (process-streams.ts:203-216).
THEOREM RefsLastWord == Spec => []LastWord
<1>1. Spec => [](TInv /\ OneMeaning /\ LInv)
  BY TInvInit, TInvNext, OneMeaningInit, OneMeaningNext, LInvInit, LInvNext, PTL DEF Spec
<1>2. TInv /\ OneMeaning /\ LInv => LastWord
  BY LInvIsLastWord
<1> QED BY <1>1, <1>2, PTL

---------------------------------------------------------------------------
\* What is asked for is what is said.

\* A row of frames, and the last one of a class in it, if there is one.
Lacks(s, F) == \A n \in DOMAIN s : s[n] \notin F
LastIn(s, F) ==
    {s[n] : n \in {k \in DOMAIN s : s[k] \in F /\ \A m \in DOMAIN s : m > k => s[m] \notin F}}

LEMMA LastTail ==
    ASSUME NEW T, NEW s \in Seq(T), s # <<>>, NEW F
    PROVE  /\ LastIn(Tail(s), F) \subseteq LastIn(s, F)
           /\ Lacks(s, F) => Lacks(Tail(s), F)
           /\ Lacks(Tail(s), F) => Lacks(s, F) \/ (Head(s) \in F /\ Head(s) \in LastIn(s, F))
<1> DEFINE t == Tail(s)
           n == Len(s)
<1>1. /\ n \in Nat /\ n > 0 /\ DOMAIN s = 1 .. n /\ Head(s) = s[1]
      /\ DOMAIN t = 1 .. n - 1 /\ \A k \in 1 .. n - 1 : t[k] = s[k + 1]
  OBVIOUS
<1> HIDE DEF t, n
<1>2. ASSUME NEW e \in LastIn(t, F) PROVE e \in LastIn(s, F)
  <2>1. PICK k \in DOMAIN t : t[k] = e /\ e \in F /\ \A m \in DOMAIN t : m > k => t[m] \notin F
    BY <1>2 DEF LastIn
  <2>2. k + 1 \in DOMAIN s /\ s[k + 1] = e
    BY <1>1, <2>1
  <2>3. ASSUME NEW m \in DOMAIN s, m > k + 1 PROVE s[m] \notin F
    <3>1. m - 1 \in DOMAIN t /\ m - 1 > k /\ t[m - 1] = s[m]
      BY <1>1, <2>1, <2>3
    <3> QED BY <2>1, <3>1
  <2> QED BY <2>1, <2>2, <2>3 DEF LastIn
<1>3. Lacks(s, F) => Lacks(t, F)
  BY <1>1 DEF Lacks
<1>4. ASSUME Lacks(t, F), ~Lacks(s, F) PROVE Head(s) \in F /\ Head(s) \in LastIn(s, F)
  <2>1. ASSUME NEW m \in DOMAIN s, m > 1 PROVE s[m] \notin F
    <3>1. m - 1 \in DOMAIN t /\ t[m - 1] = s[m]
      BY <1>1, <2>1
    <3> QED BY <1>4, <3>1 DEF Lacks
  <2>2. 1 \in DOMAIN s /\ s[1] \in F
    BY <1>1, <1>4, <2>1 DEF Lacks
  <2> QED BY <1>1, <2>1, <2>2 DEF LastIn
<1> QED BY <1>2, <1>3, <1>4 DEF t

LEMMA LastConcat ==
    ASSUME NEW T, NEW s \in Seq(T), NEW t \in Seq(T), NEW F
    PROVE  /\ Lacks(t, F) => /\ LastIn(s \o t, F) \subseteq LastIn(s, F)
                             /\ Lacks(s \o t, F) <=> Lacks(s, F)
           /\ ~Lacks(t, F) => /\ LastIn(s \o t, F) \subseteq LastIn(t, F)
                              /\ ~Lacks(s \o t, F)
<1> DEFINE c == s \o t
           a == Len(s)
           b == Len(t)
<1>1. /\ a \in Nat /\ b \in Nat /\ DOMAIN s = 1 .. a /\ DOMAIN t = 1 .. b
      /\ DOMAIN c = 1 .. a + b
      /\ \A k \in 1 .. a + b : c[k] = IF k <= a THEN s[k] ELSE t[k - a]
  OBVIOUS
<1> HIDE DEF c, a, b
<1>2. \A k \in 1 .. a : k \in DOMAIN c /\ c[k] = s[k]
  BY <1>1
<1>3. \A k \in 1 .. b : a + k \in DOMAIN c /\ c[a + k] = t[k] /\ a + k > a
  BY <1>1
<1>4. \A k \in DOMAIN c : k \in 1 .. a \/ (k - a \in 1 .. b /\ c[k] = t[k - a] /\ k > a)
  BY <1>1
<1>5. ASSUME NEW e \in LastIn(c, F)
      PROVE  /\ Lacks(t, F) => e \in LastIn(s, F)
             /\ ~Lacks(t, F) => e \in LastIn(t, F)
  <2>1. PICK k \in DOMAIN c : c[k] = e /\ e \in F /\ \A m \in DOMAIN c : m > k => c[m] \notin F
    BY <1>5 DEF LastIn
  <2>2. CASE k \in 1 .. a
    <3>1. \A m \in DOMAIN s : m > k => s[m] \notin F
      BY <1>1, <1>2, <2>1
    <3>2. ASSUME NEW m \in DOMAIN t PROVE t[m] \notin F
      <4>1. a + m > k
        BY <1>1, <2>2, <3>2
      <4> QED BY <1>1, <1>3, <2>1, <4>1
    <3> QED BY <1>1, <1>2, <2>1, <2>2, <3>1, <3>2 DEF LastIn, Lacks
  <2>3. CASE k - a \in 1 .. b /\ c[k] = t[k - a]
    <3>1. ASSUME NEW m \in DOMAIN t, m > k - a PROVE t[m] \notin F
      <4>1. a + m > k
        BY <1>1, <2>3, <3>1
      <4> QED BY <1>1, <1>3, <2>1, <4>1
    <3> QED BY <1>1, <2>1, <2>3, <3>1 DEF LastIn, Lacks
  <2> QED BY <1>4, <2>2, <2>3
<1>6. ~Lacks(t, F) => ~Lacks(c, F)
  BY <1>1, <1>3 DEF Lacks
<1>7. Lacks(t, F) => (Lacks(c, F) <=> Lacks(s, F))
  BY <1>1, <1>2, <1>4 DEF Lacks
<1> QED BY <1>5, <1>6, <1>7 DEF c

LEMMA LastOne ==
    ASSUME NEW e, NEW F
    PROVE  /\ LastIn(<<e>>, F) \subseteq {e}
           /\ Lacks(<<e>>, F) <=> e \notin F
<1>1. DOMAIN <<e>> = {1} /\ <<e>>[1] = e
  OBVIOUS
<1> QED BY <1>1 DEF LastIn, Lacks

LEMMA LastAppend ==
    ASSUME NEW T, NEW s \in Seq(T), NEW e \in T, NEW F
    PROVE  /\ e \in F => LastIn(Append(s, e), F) \subseteq {e} /\ ~Lacks(Append(s, e), F)
           /\ e \notin F => /\ LastIn(Append(s, e), F) \subseteq LastIn(s, F)
                            /\ Lacks(Append(s, e), F) <=> Lacks(s, F)
<1> DEFINE t == <<e>>
<1>1. Append(s, e) = s \o t /\ t \in Seq(T)
  OBVIOUS
<1>2. LastIn(t, F) \subseteq {e} /\ (Lacks(t, F) <=> e \notin F)
  BY LastOne
<1> HIDE DEF t
<1>3. /\ Lacks(t, F) => /\ LastIn(s \o t, F) \subseteq LastIn(s, F)
                        /\ Lacks(s \o t, F) <=> Lacks(s, F)
      /\ ~Lacks(t, F) => /\ LastIn(s \o t, F) \subseteq LastIn(t, F)
                         /\ ~Lacks(s \o t, F)
  BY <1>1, LastConcat
<1> QED BY <1>1, <1>2, <1>3

\* What the reader's side asks of an id, and what the holder's side says of its state.
Tunes(id) == {fr \in FarFrames : fr.kind = "tune" /\ fr.to = id}
Drops(id) == {fr \in FarFrames : fr.kind = "release" /\ fr.to = id}
Asking(id) == Tunes(id) \cup Drops(id)
News(id) == {fr \in Frames : fr.kind = "state" /\ fr.to = id}

\* What a frame leaves asked for, where it is heeded.
Word(fr) == IF fr.kind = "tune" THEN fr.kinds ELSE {}

\* Every $tune of the id is followed by a $release.
GivenUp(s, id) ==
    \A n \in DOMAIN s : s[n] \in Tunes(id) =>
        \E m \in DOMAIN s : m > n /\ s[m] \in Drops(id)

OnRecord(id) == record[id] # None \/ \E u \in Range(unsaid) : u.id = id
Held(id) == IF record[id] = None THEN {} ELSE record[id]
Wanted(id) == IF far[id] = None THEN {} ELSE far[id].wanted

\* The last word under way about an id is what its handle wants, and without one what is
\* on record is; an id without a handle was given up, or never asked about.
Agrees(id) ==
    OnRecord(id) /\ (far[id] # None => ~far[id].released /\ id \notin deaf) =>
        /\ Lacks(toHolder, Asking(id)) => Held(id) = Wanted(id)
        /\ \A fr \in LastIn(toHolder, Asking(id)) : Word(fr) = Wanted(id)
        /\ far[id] = None => GivenUp(toHolder, id)

\* Nobody hears of a process that was let go of before its stream was begun.
Orphaned(id) == named[id] = None /\ record[id] # None => record[id] = {}

AInv == \A id \in Ids : Agrees(id) /\ Orphaned(id)

LEMMA AInvIsAskedIsHeard == TInv /\ AInv => AskedIsHeard
<1> SUFFICES ASSUME TInv, AInv,
                    NEW id \in Ids, far[id] # None, record[id] # None, id \notin deaf,
                    ~Travels(toHolder, {"tune", "release"}, id), ~far[id].released
             PROVE  record[id] = far[id].wanted
  BY DEF AskedIsHeard, Bound
<1>1. Lacks(toHolder, Asking(id))
  BY DEF Travels, Lacks, Asking, Tunes, Drops
<1>2. OnRecord(id) /\ Agrees(id)
  BY DEF OnRecord, AInv
<1> QED BY <1>1, <1>2 DEF Agrees, Held, Wanted

LEMMA GivenUpTail ==
    ASSUME NEW s \in Seq(FarFrames), s # <<>>, NEW id \in Ids, GivenUp(s, id)
    PROVE  /\ GivenUp(Tail(s), id)
           /\ Head(s) \in Tunes(id) => ~Lacks(Tail(s), Asking(id))
<1> DEFINE t == Tail(s)
           n == Len(s)
<1>1. /\ n \in Nat /\ n > 0 /\ DOMAIN s = 1 .. n /\ Head(s) = s[1]
      /\ DOMAIN t = 1 .. n - 1 /\ \A k \in 1 .. n - 1 : t[k] = s[k + 1]
  OBVIOUS
<1> HIDE DEF t, n
<1>2. ASSUME NEW k \in DOMAIN s, s[k] \in Tunes(id)
      PROVE  \E m \in DOMAIN t : m > k - 1 /\ t[m] \in Drops(id)
  <2>1. PICK m \in DOMAIN s : m > k /\ s[m] \in Drops(id)
    BY <1>2 DEF GivenUp
  <2>2. m - 1 \in DOMAIN t /\ t[m - 1] = s[m] /\ m - 1 > k - 1
    BY <1>1, <1>2, <2>1
  <2> QED BY <2>1, <2>2
<1>3. GivenUp(t, id)
  <2>1. ASSUME NEW k \in DOMAIN t, t[k] \in Tunes(id)
        PROVE  \E m \in DOMAIN t : m > k /\ t[m] \in Drops(id)
    <3>1. k + 1 \in DOMAIN s /\ s[k + 1] \in Tunes(id) /\ (k + 1) - 1 = k
      BY <1>1, <2>1
    <3>2. \E m \in DOMAIN t : m > (k + 1) - 1 /\ t[m] \in Drops(id)
      BY <1>2, <3>1
    <3> QED BY <3>1, <3>2
  <2> QED BY <2>1 DEF GivenUp
<1>4. Head(s) \in Tunes(id) => ~Lacks(t, Asking(id))
  BY <1>1, <1>2 DEF Lacks, Asking
<1> QED BY <1>3, <1>4 DEF t

LEMMA GivenUpConcat ==
    ASSUME NEW s \in Seq(FarFrames), NEW t \in Seq(FarFrames), NEW id \in Ids
    PROVE  /\ GivenUp(s, id) /\ Lacks(t, Asking(id)) => GivenUp(s \o t, id)
           /\ (\A n \in DOMAIN t : t[n].kind = "release") /\ ~Lacks(t, Asking(id))
                => GivenUp(s \o t, id)
<1> DEFINE c == s \o t
           a == Len(s)
           b == Len(t)
<1>1. /\ a \in Nat /\ b \in Nat /\ DOMAIN s = 1 .. a /\ DOMAIN t = 1 .. b
      /\ DOMAIN c = 1 .. a + b
      /\ \A k \in 1 .. a + b : c[k] = IF k <= a THEN s[k] ELSE t[k - a]
  OBVIOUS
<1> HIDE DEF c, a, b
<1>2. \A k \in 1 .. a : k \in DOMAIN c /\ c[k] = s[k]
  BY <1>1
<1>3. \A k \in 1 .. b : a + k \in DOMAIN c /\ c[a + k] = t[k] /\ a + k > a
  BY <1>1
<1>4. \A k \in DOMAIN c : k \in 1 .. a \/ (k - a \in 1 .. b /\ c[k] = t[k - a] /\ k > a)
  BY <1>1
<1>5. ASSUME GivenUp(s, id), Lacks(t, Asking(id)) PROVE GivenUp(c, id)
  <2>1. ASSUME NEW k \in DOMAIN c, c[k] \in Tunes(id)
        PROVE  \E m \in DOMAIN c : m > k /\ c[m] \in Drops(id)
    <3>1. k \in 1 .. a
      BY <1>1, <1>4, <1>5, <2>1 DEF Lacks, Asking
    <3>2. PICK m \in 1 .. a : m > k /\ s[m] \in Drops(id)
      BY <1>1, <1>2, <1>5, <2>1, <3>1 DEF GivenUp
    <3> QED BY <1>2, <3>2
  <2> QED BY <2>1 DEF GivenUp
<1>6. ASSUME \A n \in DOMAIN t : t[n].kind = "release", ~Lacks(t, Asking(id))
      PROVE  GivenUp(c, id)
  <2>1. PICK m \in 1 .. b : t[m] \in Drops(id)
    BY <1>1, <1>6 DEF Lacks, Asking, Tunes
  <2>2. a + m \in DOMAIN c /\ c[a + m] \in Drops(id) /\ a + m > a
    BY <1>3, <2>1
  <2>3. ASSUME NEW k \in DOMAIN c, c[k] \in Tunes(id) PROVE k \in 1 .. a
    BY <1>1, <1>4, <1>6, <2>3 DEF Tunes
  <2>4. ASSUME NEW k \in DOMAIN c, c[k] \in Tunes(id) PROVE a + m > k
    <3>1. k \in 1 .. a
      BY <2>3, <2>4
    <3> QED BY <1>1, <3>1
  <2> QED BY <2>2, <2>4 DEF GivenUp
<1> QED BY <1>5, <1>6 DEF c

\* An id not yet given is nobody's: no handle, no record, no frame.
LEMMA NextIsFresh ==
    ASSUME TInv, OneMeaning, LInv, NEW i \in Ids, i = nextId
    PROVE  /\ far[i] = None /\ record[i] = None /\ named[i] = None
           /\ Lacks(toHolder, Asking(i)) /\ LastIn(toHolder, Asking(i)) = {}
           /\ GivenUp(toHolder, i)
<1>1. toHolder \in Seq(FarFrames) /\ Linked(far) /\ nextId \in Nat
  BY DEF TInv, ReaderOK, Numbered
<1>2. \A p \in Procs : ~Means(i, p)
  BY <1>1 DEF OneMeaning
<1>3. far[i] = None
  <2>1. far[i] # None => far[i].of \in Procs /\ Means(i, far[i].of)
    BY <1>1, HandleOf DEF Handles, Means
  <2> QED BY <1>2, <2>1
<1>4. named[i] = None
  BY <1>1 DEF TInv, Numbered, Unused
<1>5. record[i] = None
  BY <1>1 DEF LInv, Silenced
<1>6. \A n \in DOMAIN toHolder : toHolder[n].to # i
  <2>1. ASSUME NEW n \in DOMAIN toHolder, toHolder[n].to = i PROVE FALSE
    <3>1. toHolder[n] \in FarFrames /\ toHolder[n] \in Range(toHolder)
      BY <1>1 DEF Range
    <3>2. toHolder[n].about \in Procs
      BY <3>1 DEF FarFrames
    <3>3. Means(i, toHolder[n].about)
      BY <2>1, <3>1 DEF Means
    <3> QED BY <1>2, <3>2, <3>3
  <2> QED BY <2>1
<1>7. \A n \in DOMAIN toHolder : toHolder[n] \notin Asking(i)
  BY <1>6 DEF Asking, Tunes, Drops
<1> QED BY <1>3, <1>4, <1>5, <1>7 DEF Lacks, LastIn, GivenUp, Asking

\* What a step that numbers one process at most does to the holder's books.
Books ==
    /\ Range(unsaid) \subseteq Range(unsaid')
    /\ \A u \in Range(unsaid') : u \in Range(unsaid) \/ u.id = nextId
    /\ \A i \in Ids : \/ named'[i] = named[i]
                      \/ /\ i = nextId /\ named'[i] # None
                         /\ \E u \in Range(unsaid') : u.id = i

LEMMA SameBooks == UNCHANGED <<unsaid, named>> => Books
  BY DEF Books

LEMMA NumberBooks ==
    ASSUME TInv, OneMeaning, LInv, NEW c \in Procs \cup {None}, Number(c)
    PROVE  Books
<1>1. CASE c # None /\ number[c] = 0
  <2> DEFINE e == [proc |-> c, id |-> nextId]
             T == [proc : Procs, id : Ids]
  <2>1. /\ unsaid' = Append(unsaid, e) /\ nextId \in Ids /\ c \in Procs
        /\ named' = [named EXCEPT ![nextId] = c]
    BY <1>1 DEF Number, NextId
  <2>2. e \in T /\ e.id = nextId /\ unsaid \in Seq(T)
    BY <2>1 DEF TInv, Numbered
  <2> HIDE DEF e, T
  <2>3. Range(unsaid') = Range(unsaid) \cup {e}
    BY <2>1, <2>2, RangeAppend
  <2>4. \A i \in Ids : named'[i] = IF i = nextId THEN c ELSE named[i]
    BY <2>1 DEF TInv, Numbered
  <2> QED BY <1>1, <2>2, <2>3, <2>4 DEF Books
<1>2. CASE ~(c # None /\ number[c] = 0)
  BY <1>2, SameBooks DEF Number
<1> QED BY <1>1, <1>2

\* What the processes do is numbered and said; one that ends is off the record.
Onward ==
    /\ Books /\ UNCHANGED <<far, toHolder, deaf>> /\ running' \subseteq running
    /\ \A i \in Ids :
          /\ record'[i] = record[i] \/ (record'[i] = None /\ named[i] # None /\ named[i] \notin running')
          /\ named[i] \in running \ running' => record'[i] = None

LEMMA SaysOnward ==
    ASSUME TInv, OneMeaning, LInv, HolderSays
    PROVE  Onward
<1>0. /\ None \notin Procs /\ 0 \notin Ids /\ Carriers \subseteq Procs /\ Leaves \subseteq Procs
      /\ Numbered /\ HolderOK
  BY RefsAssumption DEF Procs, Ids, TInv
<1>1. ASSUME NEW c \in Procs \cup {None}, Number(c),
             UNCHANGED <<record, running, far, toHolder, deaf>>
      PROVE  Onward
  BY <1>1, NumberBooks DEF Onward
<1>2. ASSUME UNCHANGED <<unsaid, named, record, running, far, toHolder, deaf>>
      PROVE  Onward
  BY <1>2, SameBooks DEF Onward
<1>3. ASSUME NEW p \in Procs, HandOver(p) PROVE Onward
  BY <1>1, <1>3 DEF HandOver, Say, reader
<1>4. ASSUME NEW p \in Carriers, NEW c \in Leaves \cup {None}, Publish(p, c)
      PROVE  Onward
  <2>1. UNCHANGED <<record, running, far, toHolder, deaf>> /\ c \in Procs \cup {None}
    BY <1>0, <1>4 DEF Publish, reader
  <2>2. Number(c) \/ UNCHANGED <<unsaid, named>>
    BY <1>4 DEF Publish, Say
  <2> QED BY <1>1, <1>2, <2>1, <2>2
<1>5. ASSUME NEW p \in Carriers, NEW c \in Leaves \cup {None}, Speak(p, c)
      PROVE  Onward
  BY <1>0, <1>1, <1>5 DEF Speak, Say, reader
<1>6. ASSUME NEW p \in Procs, End(p) PROVE Onward
  <2>1. /\ p \in running /\ running' = running \ {p} /\ record' = Closed(number[p])
        /\ UNCHANGED <<far, toHolder, deaf>>
        /\ state[p].ref \in Procs \cup {None}
    BY <1>0, <1>6, StateOf DEF End, reader
  <2>2. Number(state[p].ref) \/ UNCHANGED <<unsaid, named>>
    BY <1>6 DEF End, Say
  <2>3. Books
    BY <2>1, <2>2, NumberBooks, SameBooks
  <2>4. number[p] \in Ids \cup {0}
    BY <1>0 DEF Numbered
  <2>5. ASSUME NEW i \in Ids
        PROVE  /\ number[p] = i <=> named[i] = p
               /\ record'[i] = IF number[p] = i THEN None ELSE record[i]
    <3>1. number[p] = i <=> named[i] = p
      BY <1>0 DEF Numbered
    <3>2. record'[i] = IF number[p] = i THEN None ELSE record[i]
      BY <1>0, <2>1, <2>4 DEF Closed, HolderOK
    <3> QED BY <3>1, <3>2
  <2> QED BY <1>0, <2>1, <2>3, <2>5 DEF Onward
<1> QED BY <1>3, <1>4, <1>5, <1>6 DEF HolderSays

\* The stream at the head of the line is begun; nobody asks for anything yet.
Begun(u) ==
    /\ u \in Range(unsaid) /\ u.id \in Ids /\ u.proc \in Procs
    /\ record[u.id] = None /\ named[u.id] \in {None, u.proc}
    /\ Range(unsaid') \subseteq Range(unsaid)
    /\ \A w \in Range(unsaid) : w = u \/ w \in Range(unsaid')
    /\ \A i \in Ids : record'[i] = IF i = u.id THEN IF u.proc \in running THEN {} ELSE None
                                   ELSE record[i]
    /\ UNCHANGED <<far, toHolder, deaf, named, running, state>>

LEMMA FlushBegins ==
    ASSUME TInv, OneMeaning, LInv, Flush
    PROVE  \E u : Begun(u) /\ toReader' = Append(toReader, ToReader("methods", u.proc, u.id, 0, 0, None))
<1> DEFINE T == [proc : Procs, id : Ids]
           u == Head(unsaid)
<1>1. /\ unsaid # <<>> /\ unsaid' = Tail(unsaid)
      /\ record' = [record EXCEPT ![u.id] = IF u.proc \in running THEN {} ELSE None]
      /\ toReader' = Append(toReader, ToReader("methods", u.proc, u.id, 0, 0, None))
      /\ UNCHANGED <<far, toHolder, deaf, named, running, state>>
  BY DEF Flush, Streamed, reader
<1>2. unsaid \in Seq(T)
  BY DEF TInv, Numbered
<1> HIDE DEF T
<1>3. u \in Range(unsaid) /\ Range(unsaid') \subseteq Range(unsaid)
  BY <1>1, <1>2, RangeTail
<1>4. \A w \in Range(unsaid) : w = u \/ w \in Range(unsaid')
  <2>1. /\ DOMAIN unsaid = 1 .. Len(unsaid) /\ Len(unsaid) \in Nat /\ u = unsaid[1]
        /\ DOMAIN unsaid' = 1 .. Len(unsaid) - 1
        /\ \A n \in 1 .. Len(unsaid) - 1 : unsaid'[n] = unsaid[n + 1]
    BY <1>1, <1>2
  <2>2. ASSUME NEW n \in DOMAIN unsaid, n # 1
        PROVE  n - 1 \in DOMAIN unsaid' /\ unsaid'[n - 1] = unsaid[n]
    BY <2>1, <2>2
  <2> QED BY <2>1, <2>2 DEF Range
<1> HIDE DEF u
<1>5. u.id \in Ids /\ u.proc \in Procs /\ record[u.id] = None
  BY <1>3, UnsaidIsOld DEF LInv, Unbegun
<1>6. named[u.id] \in {None, u.proc}
  <2>1. named[u.id] \in Procs \cup {None}
    BY <1>5 DEF TInv, Numbered
  <2>2. Means(u.id, u.proc) /\ (named[u.id] \in Procs => Means(u.id, named[u.id]))
    BY <1>3 DEF Means
  <2> QED BY <1>5, <2>1, <2>2 DEF OneMeaning
<1>7. \A i \in Ids : record'[i] = IF i = u.id THEN IF u.proc \in running THEN {} ELSE None
                                  ELSE record[i]
  BY <1>1 DEF TInv, HolderOK
<1> QED BY <1>1, <1>3, <1>4, <1>5, <1>6, <1>7 DEF Begun

\* The holder hears a frame: a $tune sets what is on record, or finds nothing to tune;
\* a $release takes the id off the books; a $stop leaves them as they are.
TakesIn(f) ==
    /\ toHolder # <<>> /\ f = Head(toHolder) /\ toHolder' = Tail(toHolder)
    /\ f \in FarFrames /\ f.to \in Ids /\ f.kinds \subseteq Kinds
    /\ UNCHANGED <<far, running, state>>
    /\ \/ /\ f.kind = "tune" /\ Books
          /\ \A i \in Ids : i # f.to => record'[i] = record[i]
          /\ \/ /\ named[f.to] # None /\ record[f.to] # None
                /\ record'[f.to] = f.kinds /\ deaf' = deaf
                /\ TuneTo(f.to, f.kinds)
             \/ /\ named[f.to] = None \/ record[f.to] = None
                /\ record'[f.to] = record[f.to] /\ deaf' = deaf \cup {f.to}
                /\ UNCHANGED <<named, toReader>>
       \/ /\ f.kind = "release" /\ UNCHANGED <<unsaid, deaf, toReader>>
          /\ \A i \in Ids : i # f.to => record'[i] = record[i] /\ named'[i] = named[i]
          /\ named'[f.to] = None
          /\ record'[f.to] = IF named[f.to] # None THEN None ELSE record[f.to]
       \/ f.kind = "stop" /\ UNCHANGED <<unsaid, deaf, record, named, toReader>>

LEMMA HolderTakesIn ==
    ASSUME TInv, OneMeaning, LInv, HolderGets
    PROVE  TakesIn(Head(toHolder))
<1> DEFINE f == Head(toHolder)
<1>0. Numbered /\ HolderOK
  BY DEF TInv
<1>1. toHolder # <<>> /\ toHolder' = Tail(toHolder) /\ UNCHANGED <<far, running, state>>
  BY DEF HolderGets, HolderTunes, HolderReleases, HolderStops, reader
<1>2. f \in FarFrames /\ f.to \in Ids /\ f.kinds \subseteq Kinds
  BY <1>1, HolderHears
<1>3. CASE HolderTunes
  <2>1. f.kind = "tune"
    BY <1>3 DEF HolderTunes
  <2>2. CASE named[f.to] # None /\ record[f.to] # None
    <3>1. TuneTo(f.to, f.kinds) /\ UNCHANGED deaf
      BY <1>3, <2>2 DEF HolderTunes
    <3>2. record' = [record EXCEPT ![f.to] = f.kinds]
      BY <3>1 DEF TuneTo
    <3>3. named[f.to] \in Procs
      BY <1>0, <1>2, <2>2 DEF Numbered
    <3>4. state[named[f.to]].ref \in Procs \cup {None}
      BY <1>0, <3>3, StateOf
    <3>5. Number(state[named[f.to]].ref) \/ UNCHANGED <<unsaid, named>>
      BY <3>1 DEF TuneTo, Say
    <3>6. Books
      BY <3>4, <3>5, NumberBooks, SameBooks
    <3>7. \A i \in Ids : record'[i] = IF i = f.to THEN f.kinds ELSE record[i]
      BY <1>0, <3>2 DEF HolderOK
    <3> HIDE DEF f
    <3> QED BY <1>1, <1>2, <2>1, <2>2, <3>1, <3>6, <3>7 DEF TakesIn, f
  <2>3. CASE ~(named[f.to] # None /\ record[f.to] # None)
    <3>1. UNCHANGED <<record, number, named, unsaid, nextId, toReader>> /\ deaf' = deaf \cup {f.to}
      BY <1>3, <2>3 DEF HolderTunes
    <3> QED BY <1>1, <1>2, <2>1, <2>3, <3>1, SameBooks DEF TakesIn
  <2> QED BY <2>2, <2>3
<1>4. CASE HolderReleases
  <2>1. f.kind = "release" /\ UNCHANGED <<unsaid, deaf, toReader>>
    BY <1>4 DEF HolderReleases, reader
  <2>2. /\ named[f.to] # None => /\ record' = [record EXCEPT ![f.to] = None]
                                 /\ named' = [named EXCEPT ![f.to] = None]
        /\ named[f.to] = None => UNCHANGED <<record, named>>
    BY <1>4 DEF HolderReleases
  <2> HIDE DEF f
  <2>3. /\ \A i \in Ids : i # f.to => record'[i] = record[i] /\ named'[i] = named[i]
        /\ named'[f.to] = None
        /\ record'[f.to] = IF named[f.to] # None THEN None ELSE record[f.to]
    BY <1>0, <1>2, <2>2 DEF HolderOK, Numbered
  <2> QED BY <1>1, <1>2, <2>1, <2>3 DEF TakesIn, f
<1>5. CASE HolderStops
  <2>1. f.kind = "stop" /\ UNCHANGED <<unsaid, deaf, record, named, toReader>>
    BY <1>5 DEF HolderStops, reader
  <2> QED BY <1>1, <1>2, <2>1 DEF TakesIn
<1> QED BY <1>3, <1>4, <1>5 DEF HolderGets

\* A step of the holder's that takes nothing in, and changes no word on record of an id
\* that was on record, or was just given.
LEMMA AgreesStill ==
    ASSUME TInv, OneMeaning, LInv, AInv, UNCHANGED <<far, toHolder, deaf>>,
           NEW i \in Ids,
           OnRecord(i)' => (OnRecord(i) \/ i = nextId) /\ Held(i)' = Held(i)
    PROVE  Agrees(i)'
<1>1. Wanted(i)' = Wanted(i)
  BY DEF Wanted
<1>2. CASE i = nextId
  <2>1. /\ far[i] = None /\ record[i] = None
        /\ Lacks(toHolder, Asking(i)) /\ LastIn(toHolder, Asking(i)) = {}
        /\ GivenUp(toHolder, i)
    BY <1>2, NextIsFresh
  <2>2. Held(i) = {} /\ Wanted(i) = {}
    BY <2>1 DEF Held, Wanted
  <2> QED BY <1>1, <2>1, <2>2 DEF Agrees
<1>3. CASE i # nextId
  BY <1>1, <1>3 DEF AInv, Agrees
<1> QED BY <1>2, <1>3

LEMMA OnwardAgrees ==
    ASSUME TInv, OneMeaning, LInv, AInv, Onward
    PROVE  AInv'
<1>1. ASSUME NEW i \in Ids PROVE Agrees(i)'
  <2>1. record'[i] = record[i] \/ record'[i] = None
    BY DEF Onward
  <2>2. \A u \in Range(unsaid') : u.id = i =>
           record[i] = None /\ ((\E w \in Range(unsaid) : w.id = i) \/ i = nextId)
    <3>1. ASSUME NEW u \in Range(unsaid'), u.id = i, u \in Range(unsaid)
          PROVE  record[i] = None
      BY <3>1 DEF LInv, Unbegun
    <3> QED BY <3>1, NextIsFresh DEF Onward, Books
  <2>3. OnRecord(i)' => (OnRecord(i) \/ i = nextId) /\ Held(i)' = Held(i)
    BY <2>1, <2>2 DEF OnRecord, Held
  <2> QED BY <2>3, AgreesStill DEF Onward
<1>2. ASSUME NEW i \in Ids PROVE Orphaned(i)'
  <2>1. (named'[i] = None => named[i] = None) /\ (record'[i] = record[i] \/ record'[i] = None)
    BY DEF Onward, Books
  <2> QED BY <2>1 DEF AInv, Orphaned
<1> QED BY <1>1, <1>2 DEF AInv

LEMMA BegunAgrees ==
    ASSUME TInv, OneMeaning, LInv, AInv, NEW u, Begun(u)
    PROVE  AInv'
<1>1. ASSUME NEW i \in Ids PROVE Agrees(i)'
  <2>1. Held(i)' = Held(i)
    BY DEF Held, Begun
  <2>2. OnRecord(i)' => OnRecord(i)
    BY DEF OnRecord, Begun
  <2> QED BY <2>1, <2>2, AgreesStill DEF Begun
<1>2. ASSUME NEW i \in Ids PROVE Orphaned(i)'
  BY DEF Begun, AInv, Orphaned
<1> QED BY <1>1, <1>2 DEF AInv

LEMMA TakesInAgrees ==
    ASSUME TInv, OneMeaning, LInv, AInv, NEW f, TakesIn(f)
    PROVE  AInv'
<1>1. toHolder \in Seq(FarFrames) /\ toHolder # <<>> /\ f = Head(toHolder) /\ toHolder' = Tail(toHolder)
  BY DEF TInv, ReaderOK, TakesIn
<1>2. ASSUME NEW i \in Ids
      PROVE  OnRecord(i)' => OnRecord(i) \/ i = nextId
  <2>1. f.kind = "tune" => Books
    BY DEF TakesIn
  <2>2. record'[i] # None => record[i] # None
    BY DEF TakesIn
  <2>3. f.kind # "tune" => unsaid' = unsaid
    BY DEF TakesIn
  <2> QED BY <2>1, <2>2, <2>3 DEF OnRecord, Books
<1>3. ASSUME NEW i \in Ids, OnRecord(i)'
      PROVE  /\ f \in Asking(i) => Held(i)' = Word(f)
                                   \/ (f.kind = "tune" /\ i \in deaf' /\ Held(i)' = Held(i))
             /\ f \notin Asking(i) => Held(i)' = Held(i)
  <2>1. CASE i = f.to /\ f.kind = "tune"
    <3>1. \/ record'[i] = f.kinds /\ f.kinds # None
          \/ record'[i] = record[i] /\ i \in deaf'
      BY <2>1, NoneAssumption DEF TakesIn
    <3>2. f \in Asking(i)
      BY <2>1 DEF TakesIn, Asking, Tunes
    <3>3. Held(i)' = f.kinds \/ (i \in deaf' /\ Held(i)' = Held(i))
      BY <3>1 DEF Held
    <3> QED BY <2>1, <3>2, <3>3 DEF Word
  <2>2. CASE i = f.to /\ f.kind = "release"
    <3>1. Held(i)' = {}
      BY <2>2 DEF TakesIn, Held, AInv, Orphaned
    <3> QED BY <2>2, <3>1 DEF Word, Asking, Drops, TakesIn
  <2>3. CASE i # f.to \/ f.kind = "stop"
    <3>1. record'[i] = record[i] /\ f \notin Asking(i)
      BY <2>3 DEF TakesIn, Asking, Tunes, Drops
    <3> QED BY <3>1 DEF Held
  <2> QED BY <2>1, <2>2, <2>3 DEF TakesIn
<1>4. ASSUME NEW i \in Ids,
             OnRecord(i)', far[i] # None => ~far[i].released /\ i \notin deaf'
      PROVE  /\ Lacks(toHolder', Asking(i)) => Held(i)' = Wanted(i)
             /\ \A fr \in LastIn(toHolder', Asking(i)) : Word(fr) = Wanted(i)
             /\ far[i] = None => GivenUp(toHolder', i)
  <2>1. /\ LastIn(toHolder', Asking(i)) \subseteq LastIn(toHolder, Asking(i))
        /\ Lacks(toHolder', Asking(i)) =>
              Lacks(toHolder, Asking(i)) \/ (f \in Asking(i) /\ f \in LastIn(toHolder, Asking(i)))
        /\ Lacks(toHolder, Asking(i)) => f \notin Asking(i)
    <3>1. Lacks(toHolder, Asking(i)) => f \notin Asking(i)
      BY <1>1 DEF Lacks
    <3> QED BY <1>1, <3>1, LastTail
  <2>2. CASE i = nextId /\ ~OnRecord(i)
    <3>1. /\ far[i] = None /\ record[i] = None
          /\ Lacks(toHolder, Asking(i)) /\ LastIn(toHolder, Asking(i)) = {}
          /\ GivenUp(toHolder, i)
      BY <2>2, NextIsFresh
    <3>2. Held(i) = {} /\ Wanted(i) = {}
      BY <3>1 DEF Held, Wanted
    <3>3. Held(i)' = {}
      BY <1>3, <1>4, <2>1, <3>1, <3>2
    <3> QED BY <1>1, <2>1, <3>1, <3>2, <3>3, GivenUpTail
  <2>3. CASE OnRecord(i)
    <3>1. deaf \subseteq deaf'
      BY DEF TakesIn
    <3>2. /\ Lacks(toHolder, Asking(i)) => Held(i) = Wanted(i)
          /\ \A fr \in LastIn(toHolder, Asking(i)) : Word(fr) = Wanted(i)
          /\ far[i] = None => GivenUp(toHolder, i)
      BY <1>4, <2>3, <3>1 DEF AInv, Agrees
    <3>3. far[i] = None => /\ GivenUp(toHolder', i)
                           /\ f \in Tunes(i) => ~Lacks(toHolder', Asking(i))
      BY <1>1, <3>2, GivenUpTail
    <3>4. ASSUME Lacks(toHolder', Asking(i)) PROVE Held(i)' = Wanted(i)
      <4>1. CASE f \notin Asking(i)
        BY <1>3, <1>4, <2>1, <3>2, <3>4, <4>1
      <4>2. CASE f \in Asking(i)
        <5>1. Word(f) = Wanted(i)
          BY <2>1, <3>2, <3>4, <4>2
        <5>2. f.kind = "tune" => f \in Tunes(i)
          BY <4>2 DEF Asking, Tunes, Drops
        <5>3. ~(f.kind = "tune" /\ i \in deaf')
          BY <1>4, <3>3, <3>4, <5>2
        <5> QED BY <1>3, <1>4, <4>2, <5>1, <5>3
      <4> QED BY <4>1, <4>2
    <3> QED BY <2>1, <3>2, <3>3, <3>4
  <2> QED BY <1>2, <1>4, <2>2, <2>3
<1>5. ASSUME NEW i \in Ids PROVE Agrees(i)'
  <2>1. far' = far /\ Wanted(i)' = Wanted(i)
    BY DEF TakesIn, Wanted
  <2> QED BY <1>4, <2>1 DEF Agrees
<1>6. ASSUME NEW i \in Ids PROVE Orphaned(i)'
  <2>1. CASE f.kind = "tune"
    <3>1. named'[i] = None => named[i] = None
      BY <2>1 DEF TakesIn, Books
    <3>2. named[i] = None => record'[i] = record[i]
      BY <2>1 DEF TakesIn
    <3> QED BY <3>1, <3>2 DEF AInv, Orphaned
  <2>2. CASE f.kind = "release"
    BY <2>2 DEF TakesIn, AInv, Orphaned
  <2>3. CASE f.kind = "stop"
    BY <2>3 DEF TakesIn, AInv, Orphaned
  <2> QED BY <2>1, <2>2, <2>3 DEF TakesIn
<1> QED BY <1>5, <1>6 DEF AInv

\* Two handles that want, have seen and have heard the same; and tables of such.
Alike(h, g) ==
    /\ g.wanted = h.wanted /\ g.version = h.version /\ g.holds = h.holds
    /\ g.exit = h.exit /\ g.waiting = h.waiting /\ g.released = h.released
Same(f, g) ==
    \A i \in Ids : (g[i] = None <=> f[i] = None) /\ (f[i] # None => Alike(f[i], g[i]))

LEMMA SameTrans == ASSUME NEW f, NEW g, NEW h, Same(f, g), Same(g, h) PROVE Same(f, h)
  BY DEF Same, Alike

LEMMA SetAlike ==
    ASSUME NEW f, Linked(f), NEW id \in Ids, f[id] # None, NEW h \in Handles, Alike(f[id], h)
    PROVE  Same(f, [f EXCEPT ![id] = h])
<1> DEFINE g == [f EXCEPT ![id] = h]
<1>1. \A i \in Ids : g[i] = IF i = id THEN h ELSE f[i]
  BY DEF Linked
<1>2. h # None
  BY NoneAssumption
<1> HIDE DEF g
<1>3. Same(f, g)
  BY <1>1, <1>2 DEF Same, Alike
<1> QED BY <1>3 DEF g

LEMMA RememberAlike ==
    ASSUME NEW f, Linked(f), NEW id \in Ids, f[id] # None, NEW r \in Ids \cup {0}
    PROVE  Same(f, Remember(f, id, r))
<1>1. CASE r = 0 \/ f[r].released \/ r \in f[id].owned
  BY <1>1 DEF Remember, Same, Alike
<1>2. CASE ~(r = 0 \/ f[r].released \/ r \in f[id].owned)
  <2> DEFINE b == f[id]
             h == [b EXCEPT !.transient = @ \cup {r}]
  <2>1. b \in Handles /\ r \in Ids
    BY <1>2, HandleOf
  <2>2. h \in Handles /\ Alike(b, h)
    <3> HIDE DEF b
    <3> QED BY <2>1 DEF Handles, Alike
  <2>3. Remember(f, id, r) = [f EXCEPT ![id] = h]
    BY <1>2 DEF Remember
  <2> HIDE DEF h
  <2>4. Same(f, [f EXCEPT ![id] = h])
    BY <2>2, SetAlike
  <2> QED BY <2>3, <2>4
<1> QED BY <1>1, <1>2

LEMMA KeepOwnedAlike ==
    ASSUME NEW f, Linked(f), NEW id \in Ids, f[id] # None,
           NEW r \in Ids \cup {0}, r # 0 => f[r] # None
    PROVE  Same(f, KeepOwned(f, id, r))
<1>1. CASE r = 0 \/ f[r].released \/ r \in f[id].owned
  BY <1>1 DEF KeepOwned, Same, Alike
<1>2. CASE ~(r = 0 \/ f[r].released \/ r \in f[id].owned)
  <2> DEFINE b == f[id]
             h == [b EXCEPT !.owned = @ \cup {r}, !.transient = @ \ {r}]
             g == [f EXCEPT ![id] = h]
             d == g[r]
             k == [d EXCEPT !.count = @ + 1]
  <2>1. KeepOwned(f, id, r) = [g EXCEPT ![r] = k]
    BY <1>2 DEF KeepOwned
  <2>2. r \in Ids /\ f[r] # None /\ b \in Handles
    BY <1>2, HandleOf
  <2>3. h \in Handles /\ Alike(b, h) /\ h.of = b.of /\ h.exit = b.exit
        /\ h.owned = b.owned \cup {r} /\ h.transient = b.transient \ {r}
    <3> HIDE DEF b
    <3> QED BY <2>2 DEF Handles, Alike
  <2> HIDE DEF h
  <2>4. \A q \in h.owned \cup h.transient : f[q] # None
    BY <2>2, <2>3, Closed1
  <2>5. Same(f, g) /\ Linked(g)
    BY <2>3, <2>4, SetAlike, SetHandle
  <2> HIDE DEF g
  <2>6. d \in Handles /\ g[r] # None
    BY <2>2, <2>5, HandleOf DEF Same
  <2>7. k \in Handles /\ Alike(d, k)
    <3> HIDE DEF d
    <3> QED BY <2>6 DEF Handles, Alike
  <2> HIDE DEF k
  <2>8. Same(g, [g EXCEPT ![r] = k])
    BY <2>2, <2>5, <2>6, <2>7, SetAlike
  <2> QED BY <2>1, <2>5, <2>8, SameTrans
<1> QED BY <1>1, <1>2

\* The process that the reference of a frame comes to mean here, None without one.
Meant(f, fr) == IF fr.ref = 0 THEN None ELSE f[fr.ref].of

\* A frame lands: a handle made for it wants nothing yet; one that was there is told of
\* the state or of the end, and wants what it wanted.
Lands(fr) ==
    \A i \in Ids :
        /\ far[i] = None => far'[i] = None \/ (far'[i].wanted = {} /\ ~far'[i].waiting)
        /\ far[i] # None =>
              /\ far'[i] # None
              /\ far'[i].wanted = far[i].wanted /\ far'[i].released = far[i].released
              /\ far'[i].version = IF fr.kind = "state" /\ fr.to = i /\ ~far[i].released
                                   THEN fr.v ELSE far[i].version
              /\ far'[i].holds = IF fr.kind = "state" /\ fr.to = i /\ ~far[i].released
                                      /\ fr.ref # 0
                                 THEN Meant(Resolved(fr), fr) ELSE far[i].holds
              /\ far'[i].waiting => far[i].waiting /\ far'[i].exit = far[i].exit
              /\ fr.kind = "exit" /\ fr.to = i /\ ~far[i].released => far'[i].exit

\* What receiving a frame does to the handle it is for.
Received(f, h, g, fr) ==
    /\ g.wanted = h.wanted /\ g.released = h.released
    /\ g.version = IF fr.kind = "state" THEN fr.v ELSE h.version
    /\ g.holds = IF fr.kind = "state" /\ fr.ref # 0 THEN Meant(f, fr) ELSE h.holds
    /\ g.waiting => h.waiting /\ g.exit = h.exit
    /\ fr.kind = "exit" => g.exit

LEMMA ReceiveTells ==
    ASSUME NEW f, Linked(f), NEW fr \in Frames, fr.to # 0, f[fr.to] # None,
           fr.ref # 0 => f[fr.ref] # None
    PROVE  \A i \in Ids : /\ Receive(f, fr)[i] = None <=> f[i] = None
                          /\ i # fr.to /\ f[i] # None => Alike(f[i], Receive(f, fr)[i])
                          /\ i = fr.to => Received(f, f[i], Receive(f, fr)[i], fr)
<1> DEFINE id == fr.to
           b == f[id]
           R == Receive(f, fr)
<1>1. /\ id \in Ids /\ fr.ref \in Ids \cup {0} /\ fr.v \in Nat
      /\ fr.kind \in {"message", "state", "exit", "methods"}
  BY DEF Frames
<1>2. b \in Handles
  BY <1>1, HandleOf
<1>0. R = Receive(f, fr)
  OBVIOUS
<1> HIDE DEF R
<1>3. CASE fr.kind = "state"
  <2> DEFINE h == Updated(f, b, fr)
             g == [f EXCEPT ![id] = h]
  <2>1. R = KeepOwned(g, id, fr.ref)
    BY <1>0, <1>3 DEF Receive
  <2>2. /\ h \in Handles /\ h.of = b.of /\ h.exit = b.exit
        /\ h.owned = b.owned /\ h.transient = b.transient
        /\ h.wanted = b.wanted /\ h.released = b.released /\ h.version = fr.v
        /\ h.waiting = b.waiting
        /\ h.holds = IF fr.ref = 0 THEN b.holds ELSE f[fr.ref].of
    <3> HIDE DEF b
    <3> QED BY <1>2, UpdatedHandle
  <2>3. \A q \in Ids : g[q] = IF q = id THEN h ELSE f[q]
    BY DEF Linked
  <2> HIDE DEF h
  <2>4. \A q \in h.owned \cup h.transient : f[q] # None
    BY <1>1, <2>2, Closed1
  <2>5. Linked(g)
    BY <1>1, <2>2, <2>4, SetHandle
  <2>6. g[id] # None /\ (fr.ref # 0 => g[fr.ref] # None)
    BY <1>1, <2>2, <2>3, NoneAssumption
  <2> HIDE DEF g
  <2>7. Same(g, R)
    BY <1>1, <2>1, <2>5, <2>6, KeepOwnedAlike
  <2>8. h # None
    BY <2>2, NoneAssumption
  <2>9. ASSUME NEW i \in Ids
        PROVE  /\ R[i] = None <=> f[i] = None
               /\ i # fr.to /\ f[i] # None => Alike(f[i], R[i])
               /\ i = fr.to => Received(f, f[i], R[i], fr)
    <3>1. CASE i = id
      BY <1>3, <2>2, <2>3, <2>7, <2>8, <3>1 DEF Same, Alike, Received, Meant
    <3>2. CASE i # id
      BY <2>3, <2>7, <3>2 DEF Same
    <3> QED BY <3>1, <3>2
  <2> QED BY <1>0, <2>9
<1>4. CASE fr.kind = "message"
  <2>1. R = Remember(f, id, fr.ref)
    BY <1>0, <1>4 DEF Receive
  <2>2. Same(f, R)
    BY <1>1, <2>1, RememberAlike
  <2> QED BY <1>0, <1>4, <2>2 DEF Same, Alike, Received
<1>5. CASE fr.kind = "exit"
  <2> DEFINE h == [b EXCEPT !.exit = TRUE, !.waiting = FALSE, !.readying = FALSE]
  <2>1. R = [f EXCEPT ![id] = h]
    BY <1>0, <1>5 DEF Receive
  <2>2. /\ h \in Handles /\ h.exit /\ ~h.waiting
        /\ h.wanted = b.wanted /\ h.released = b.released /\ h.version = b.version
        /\ h.holds = b.holds
    <3> HIDE DEF b
    <3> QED BY <1>2 DEF Handles
  <2> HIDE DEF h
  <2>3. \A q \in Ids : R[q] = IF q = id THEN h ELSE f[q]
    BY <2>1 DEF Linked
  <2>4. h # None
    BY <2>2, NoneAssumption
  <2> QED BY <1>0, <1>5, <2>2, <2>3, <2>4 DEF Alike, Received
<1>6. CASE fr.kind = "methods"
  <2>1. R = f
    BY <1>0, <1>6 DEF Receive
  <2> QED BY <1>0, <1>6, <2>1 DEF Alike, Received
<1> QED BY <1>1, <1>3, <1>4, <1>5, <1>6

LEMMA ReaderGetsLands ==
    ASSUME TInv, ReaderGets
    PROVE  Lands(Head(toReader))
<1> DEFINE fr == Head(toReader)
           f == Resolved(fr)
<1>1. /\ toReader # <<>> /\ toReader \in Seq(Frames) /\ Linked(far)
      /\ far' = IF fr.to # 0 /\ f[fr.to] # None /\ ~f[fr.to].released
                THEN Receive(f, fr) ELSE f
  BY DEF ReaderGets, TInv, HolderOK, ReaderOK
<1>2. fr \in Frames
  BY <1>1
<1>3. fr.to \in Ids \cup {0}
  BY <1>2 DEF Frames
<1>4. Linked(f) /\ (fr.ref # 0 => f[fr.ref] # None)
  BY <1>1, <1>2, ResolvedKeeps
<1>5. ASSUME NEW i \in Ids
      PROVE  /\ far[i] # None => f[i] = far[i]
             /\ far[i] = None => f[i] = None \/ (f[i].wanted = {} /\ ~f[i].waiting)
  BY <1>1, <1>2, ResolvedKeeps DEF Resolved, Linked, Frames, NewHandle
<1> HIDE DEF fr, f
<1>6. CASE fr.to # 0 /\ f[fr.to] # None /\ ~f[fr.to].released
  <2>1. \A i \in Ids : /\ far'[i] = None <=> f[i] = None
                       /\ i # fr.to /\ f[i] # None => Alike(f[i], far'[i])
                       /\ i = fr.to => Received(f, f[i], far'[i], fr)
    BY <1>1, <1>2, <1>4, <1>6, ReceiveTells
  <2>2. ASSUME NEW i \in Ids, i = fr.to
        PROVE  far[i] # None => ~far[i].released
    BY <1>5, <1>6, <2>2
  <2>3. ASSUME NEW i \in Ids, i = fr.to
        PROVE  /\ far[i] = None => (far'[i].wanted = {} /\ ~far'[i].waiting)
               /\ far[i] # None =>
                    /\ far'[i] # None
                    /\ far'[i].wanted = far[i].wanted /\ far'[i].released = far[i].released
                    /\ far'[i].version = IF fr.kind = "state" THEN fr.v ELSE far[i].version
                    /\ far'[i].holds = IF fr.kind = "state" /\ fr.ref # 0
                                       THEN Meant(f, fr) ELSE far[i].holds
                    /\ far'[i].waiting => far[i].waiting /\ far'[i].exit = far[i].exit
                    /\ fr.kind = "exit" => far'[i].exit
    BY <1>5, <1>6, <2>1, <2>3 DEF Received
  <2>4. ASSUME NEW i \in Ids, i # fr.to
        PROVE  /\ far[i] = None => far'[i] = None \/ (far'[i].wanted = {} /\ ~far'[i].waiting)
               /\ far[i] # None => far'[i] # None /\ Alike(far[i], far'[i])
    BY <1>5, <2>1, <2>4 DEF Alike
  <2>5. Lands(fr)
    BY <2>2, <2>3, <2>4 DEF Lands, Alike, f
  <2> QED BY <2>5 DEF fr
<1>7. CASE ~(fr.to # 0 /\ f[fr.to] # None /\ ~f[fr.to].released)
  <2>1. far' = f
    BY <1>1, <1>7
  <2>2. ASSUME NEW i \in Ids, i = fr.to, far[i] # None PROVE far[i].released
    <3>1. fr.to # 0
      BY <2>2 DEF Ids
    <3> QED BY <1>5, <1>7, <2>2, <3>1
  <2>3. Lands(fr)
    BY <1>5, <2>1, <2>2 DEF Lands
  <2> QED BY <2>3 DEF fr
<1> QED BY <1>6, <1>7

LEMMA LandsAgrees ==
    ASSUME TInv, OneMeaning, LInv, AInv, NEW fr, Lands(fr),
           UNCHANGED <<record, unsaid, named, toHolder, deaf>>
    PROVE  AInv'
<1>1. ASSUME NEW i \in Ids PROVE Agrees(i)' /\ Orphaned(i)'
  <2>1. /\ OnRecord(i)' <=> OnRecord(i)
        /\ Held(i)' = Held(i) /\ Orphaned(i)'
    BY DEF OnRecord, Held, AInv, Orphaned
  <2>2. Wanted(i)' = Wanted(i)
    BY DEF Lands, Wanted
  <2>3. /\ (far'[i] # None => ~far'[i].released) => (far[i] # None => ~far[i].released)
        /\ far'[i] = None => far[i] = None
    BY DEF Lands
  <2>4. CASE far[i] = None
    BY <2>1, <2>2, <2>4 DEF AInv, Agrees
  <2>5. CASE far[i] # None
    BY <2>1, <2>2, <2>5 DEF AInv, Agrees, Lands
  <2> QED BY <2>1, <2>4, <2>5
<1> QED BY <1>1 DEF AInv

\* Releases of the ids of a set, one each at least.
Lets(t, S) ==
    /\ t \in Seq(FarFrames)
    /\ \A n \in DOMAIN t : t[n].kind = "release" /\ t[n].to \in S
    /\ \A i \in S : ~Lacks(t, Asking(i))

LEMMA LetsReleases ==
    ASSUME Linked(far), NEW S \in SUBSET Ids, \A i \in S : far[i] # None
    PROVE  Lets(Releases(S), S)
<1>1. IsFiniteSet(S)
  BY IdsFinite
<1> DEFINE n == Cardinality(S)
           q == SetToSeq(S)
           s == Releases(S)
<1>2. n \in Nat /\ q \in [1 .. n -> S] /\ q \in Surjection(1 .. n, S)
  <2>1. n \in Nat
    BY <1>1, FS_CardinalityType
  <2>2. \E f : f \in Bijection(1 .. n, S)
    BY <1>1, FS_CardinalityType DEF ExistsBijection
  <2>3. \E f \in [1 .. n -> S] : IsInjective(f)
    BY <2>2 DEF Bijection, Injection
  <2>4. q \in [1 .. n -> S] /\ IsInjective(q)
    BY <2>3 DEF SetToSeq
  <2>5. q \in Injection(1 .. n, S)
    BY <2>4 DEF Injection
  <2>6. Cardinality(1 .. n) = n
    BY <2>1, FS_Interval
  <2> HIDE DEF q
  <2>7. q \in Surjection(1 .. n, S)
    BY <1>1, <2>5, <2>6, FS_Injection
  <2> QED BY <2>1, <2>4, <2>7
<1>3. s = [k \in 1 .. n |-> ToHolder("release", q[k], {})]
  BY DEF Releases
<1>4. s \in Seq(FarFrames)
  BY TruthfulReleases DEF Truthful
<1> HIDE DEF n, q, s
<1>5. ASSUME NEW k \in DOMAIN s PROVE s[k].kind = "release" /\ s[k].to \in S
  <2>1. k \in 1 .. n
    BY <1>3, <1>5
  <2>2. s[k] = ToHolder("release", q[k], {})
    BY <1>3, <2>1
  <2>3. q[k] \in S
    BY <1>2, <2>1
  <2> QED BY <2>2, <2>3 DEF ToHolder
<1>6. ASSUME NEW i \in S PROVE ~Lacks(s, Asking(i))
  <2>1. PICK k \in 1 .. n : q[k] = i
    BY <1>2 DEF Surjection
  <2>2. k \in DOMAIN s /\ s[k].kind = "release" /\ s[k].to = i
    BY <1>3, <2>1 DEF ToHolder
  <2>3. s[k] \in FarFrames
    BY <1>4, <2>2
  <2> QED BY <2>2, <2>3 DEF Lacks, Asking, Drops
<1>7. Lets(s, S)
  BY <1>4, <1>5, <1>6 DEF Lets
<1> QED BY <1>7 DEF s

LEMMA LetsBoth ==
    ASSUME NEW s, NEW t, NEW S, NEW T, Lets(s, S), Lets(t, T)
    PROVE  Lets(s \o t, S \cup T)
<1>1. s \in Seq(FarFrames) /\ t \in Seq(FarFrames)
  BY DEF Lets
<1>2. s \o t \in Seq(FarFrames)
  BY <1>1
<1>3. ASSUME NEW n \in DOMAIN (s \o t)
      PROVE  (s \o t)[n].kind = "release" /\ (s \o t)[n].to \in S \cup T
  <2>1. (s \o t)[n] \in Range(s) \cup Range(t)
    <3>1. (s \o t)[n] \in Range(s \o t)
      BY <1>3 DEF Range
    <3> QED BY <1>1, <3>1, RangeConcat
  <2> QED BY <2>1 DEF Lets, Range
<1>4. ASSUME NEW i \in S \cup T PROVE ~Lacks(s \o t, Asking(i))
  <2>1. /\ Lacks(t, Asking(i)) => (Lacks(s \o t, Asking(i)) <=> Lacks(s, Asking(i)))
        /\ ~Lacks(t, Asking(i)) => ~Lacks(s \o t, Asking(i))
    BY <1>1, LastConcat
  <2> QED BY <1>4, <2>1 DEF Lets
<1> QED BY <1>2, <1>3, <1>4 DEF Lets

LEMMA LetsOthers ==
    ASSUME NEW t, NEW S, Lets(t, S), NEW i, i \notin S
    PROVE  Lacks(t, Asking(i))
  BY DEF Lets, Lacks, Asking, Tunes, Drops

LEMMA GivenBackAlike ==
    ASSUME NEW f, Linked(f), NEW id \in Ids, f[id] # None
    PROVE  LET g == GivenBack(f, id) IN
           /\ g[id] # None /\ g[id].released /\ g[id].wanted = f[id].wanted
           /\ g[id].version = f[id].version /\ g[id].holds = f[id].holds
           /\ g[id].exit = f[id].exit
           /\ g[id].waiting = f[id].waiting
           /\ \A i \in Ids : i # id => /\ g[i] = None <=> f[i] = None
                                       /\ f[i] # None => Alike(f[i], g[i])
<1> DEFINE g == GivenBack(f, id)
<1>1. \A i \in Ids : g[i] =
        IF i = id THEN [f[i] EXCEPT !.released = TRUE, !.owned = {}, !.transient = {}]
        ELSE IF i \in f[id].owned /\ f[i].count > 0 THEN [f[i] EXCEPT !.count = @ - 1]
        ELSE f[i]
  BY DEF GivenBack
<1> HIDE DEF g
<1>2. /\ g[id] # None /\ g[id].released /\ g[id].wanted = f[id].wanted
      /\ g[id].version = f[id].version /\ g[id].holds = f[id].holds
      /\ g[id].exit = f[id].exit
      /\ g[id].waiting = f[id].waiting
  <2> DEFINE b == f[id]
  <2>1. b \in Handles /\ g[id] = [b EXCEPT !.released = TRUE, !.owned = {}, !.transient = {}]
    BY <1>1, HandleOf
  <2> HIDE DEF b
  <2>2. /\ g[id] \in Handles /\ g[id].released /\ g[id].wanted = b.wanted
        /\ g[id].version = b.version /\ g[id].holds = b.holds /\ g[id].exit = b.exit /\ g[id].waiting = b.waiting
    BY <2>1 DEF Handles
  <2> QED BY <2>2, NoneAssumption DEF b
<1>3. ASSUME NEW i \in Ids, i # id
      PROVE  /\ g[i] = None <=> f[i] = None
             /\ f[i] # None => Alike(f[i], g[i])
  <2>1. CASE f[i] = None
    <3>1. i \notin f[id].owned
      BY <2>1, Closed1
    <3> QED BY <1>1, <1>3, <2>1, <3>1
  <2>2. CASE f[i] # None
    <3> DEFINE b == f[i]
    <3>1. b \in Handles
      BY <2>2, HandleOf
    <3>2. CASE i \in f[id].owned /\ b.count > 0
      <4>1. g[i] = [b EXCEPT !.count = b.count - 1]
        BY <1>1, <1>3, <3>2
      <4>2. b.count - 1 \in Nat
        BY <3>1, <3>2 DEF Handles
      <4> HIDE DEF b
      <4>3. g[i] \in Handles /\ Alike(b, g[i])
        BY <3>1, <4>1, <4>2 DEF Handles, Alike
      <4> QED BY <2>2, <4>3, NoneAssumption DEF b
    <3>3. CASE ~(i \in f[id].owned /\ b.count > 0)
      BY <1>1, <1>3, <2>2, <3>3 DEF Alike
    <3> QED BY <3>2, <3>3
  <2> QED BY <2>1, <2>2
<1>4. \A i \in Ids : i # id => /\ g[i] = None <=> f[i] = None
                               /\ f[i] # None => Alike(f[i], g[i])
  BY <1>3
<1> QED BY <1>2, <1>4 DEF g

LEMMA UnbindAlike ==
    ASSUME NEW f, Linked(f), NEW lost \in SUBSET Ids
    PROVE  \A i \in Ids : LET g == Unbind(f, lost) IN
              /\ i \in lost => g[i] = None
              /\ i \notin lost => /\ g[i] = None <=> f[i] = None
                                  /\ f[i] # None => Alike(f[i], g[i])
<1> DEFINE g == Unbind(f, lost)
<1>1. \A i \in Ids : g[i] = IF i \in lost \/ f[i] = None THEN None
                            ELSE [f[i] EXCEPT !.owned = @ \ lost, !.transient = @ \ lost]
  BY DEF Unbind
<1> HIDE DEF g
<1>2. ASSUME NEW i \in Ids, i \notin lost, f[i] # None
      PROVE  g[i] # None /\ Alike(f[i], g[i])
  <2> DEFINE b == f[i]
  <2>1. b \in Handles /\ g[i] = [b EXCEPT !.owned = @ \ lost, !.transient = @ \ lost]
    BY <1>1, <1>2, HandleOf
  <2> HIDE DEF b
  <2>2. g[i] \in Handles /\ Alike(b, g[i])
    BY <2>1 DEF Handles, Alike
  <2> QED BY <2>2, NoneAssumption DEF b
<1>3. \A i \in Ids : /\ i \in lost => g[i] = None
                     /\ i \notin lost => /\ g[i] = None <=> f[i] = None
                                         /\ f[i] # None => Alike(f[i], g[i])
  BY <1>1, <1>2
<1> QED BY <1>3 DEF g

\* What an action of the application does about an id, with the frames s it sends.
Untold(i, s) ==
    /\ Lacks(s, Asking(i))
    /\ far'[i] = None <=> far[i] = None
    /\ far[i] # None =>
          /\ far'[i].wanted = far[i].wanted /\ far'[i].version = far[i].version
          /\ far'[i].holds = far[i].holds
          /\ far'[i].exit = far[i].exit /\ (far[i].released => far'[i].released)
          /\ far'[i].waiting => far[i].waiting \/ ~far[i].exit

LetGoOf(i, s) ==
    /\ far[i] # None /\ ~far[i].released /\ far'[i] = None
    /\ \/ far[i].exit /\ Lacks(s, Asking(i))
       \/ ~Lacks(s, Asking(i)) /\ \A n \in DOMAIN s : s[n].kind = "release"

Tuned(i, s) ==
    /\ far[i] # None /\ ~far[i].released /\ far'[i] # None
    /\ far'[i].version = far[i].version /\ far'[i].holds = far[i].holds
    /\ far'[i].exit = far[i].exit /\ (far'[i].waiting => far[i].waiting \/ ~far[i].exit)
    /\ ~Lacks(s, Asking(i))
    /\ \A fr \in LastIn(s, Asking(i)) : Word(fr) = far'[i].wanted

Moved ==
    \E s \in Seq(FarFrames) :
        /\ toHolder' = toHolder \o s
        /\ \A i \in Ids : Untold(i, s) \/ LetGoOf(i, s) \/ Tuned(i, s)

LEMMA LetGoMoves ==
    ASSUME Linked(far), NEW f, Linked(f), Same(far, f),
           NEW id \in Ids, far[id] # None, ~far[id].released, LetGo(f, id)
    PROVE  Moved
<1> DEFINE lost == Lost(f, id)
           idle == Idle(f, id)
           alive == {i \in lost : ~f[i].exit}
           ended == {i \in idle : f[i].exit}
           g == GivenBack(f, id)
<1>0. f[id] # None
  BY DEF Same
<1>1. /\ Linked(g) /\ g[id] # None /\ g[id].wanted = f[id].wanted
      /\ g[id].version = f[id].version /\ g[id].holds = f[id].holds
      /\ g[id].exit = f[id].exit
      /\ g[id].waiting = f[id].waiting /\ g[id].released
      /\ \A i \in Ids : i # id => /\ g[i] = None <=> f[i] = None
                                  /\ f[i] # None => Alike(f[i], g[i])
  BY <1>0, GivenBackKeeps, GivenBackAlike
<1>2. /\ lost \subseteq Ids /\ idle \subseteq Ids
      /\ \A i \in lost \cup idle \cup {id} : far[i] # None /\ ~far[i].released
  <2>1. \A i \in lost \cup idle : i \in f[id].owned \cup f[id].transient /\ ~f[i].released
    BY DEF Lost, Idle
  <2>2. lost \subseteq Ids /\ idle \subseteq Ids /\ \A i \in lost \cup idle : f[i] # None
    BY <1>0, <2>1, Closed1
  <2> HIDE DEF lost, idle
  <2> QED BY <2>1, <2>2 DEF Same, Alike
<1>3. \/ /\ far' = Unbind(g, lost \cup idle \cup {id})
         /\ toHolder' = toHolder \o (Releases(alive) \o Releases(idle) \o Releases({id}))
         /\ ended = {}
      \/ \E done \in SUBSET (idle \ ended) :
         /\ far' = Unbind(g, lost \cup done)
         /\ toHolder' = toHolder \o (Releases(alive) \o Releases(done))
  BY DEF LetGo, Send
<1>4. alive \subseteq lost /\ \A i \in lost \ alive : far[i].exit
  BY <1>2 DEF Same, Alike
<1> HIDE DEF lost, idle, alive, ended, g
<1>5. ASSUME NEW out \in SUBSET Ids, NEW T \in SUBSET out, NEW s, Lets(s, T),
             far' = Unbind(g, out), toHolder' = toHolder \o s,
             \A i \in out : far[i] # None /\ ~far[i].released /\ (i \notin T => far[i].exit)
      PROVE  Moved
  <2>1. s \in Seq(FarFrames) /\ \A n \in DOMAIN s : s[n].kind = "release"
    BY <1>5 DEF Lets
  <2>2. ASSUME NEW i \in Ids PROVE Untold(i, s) \/ LetGoOf(i, s)
    <3>1. /\ i \in out => far'[i] = None
          /\ i \notin out => /\ far'[i] = None <=> g[i] = None
                             /\ g[i] # None => Alike(g[i], far'[i])
      BY <1>1, <1>5, UnbindAlike
    <3>2. CASE i \in out
      <4>1. CASE i \in T
        BY <1>5, <2>1, <3>1, <3>2, <4>1 DEF LetGoOf, Lets
      <4>2. CASE i \notin T
        <5>1. Lacks(s, Asking(i))
          BY <1>5, <4>2, LetsOthers
        <5> QED BY <1>5, <3>1, <3>2, <4>2, <5>1 DEF LetGoOf
      <4> QED BY <4>1, <4>2
    <3>3. CASE i \notin out
      <4>1. Lacks(s, Asking(i))
        BY <1>5, <3>3, LetsOthers
      <4>2. (far[i] = None <=> f[i] = None) /\ (far[i] # None => Alike(far[i], f[i]))
        BY DEF Same
      <4>3. CASE i = id
        BY <1>1, <3>1, <3>3, <4>1, <4>2, <4>3 DEF Untold, Alike
      <4>4. CASE i # id
        BY <1>1, <3>1, <3>3, <4>1, <4>2, <4>4 DEF Untold, Alike
      <4> QED BY <4>3, <4>4
    <3> QED BY <3>2, <3>3
  <2> QED BY <1>5, <2>1, <2>2 DEF Moved
<1>6. Lets(Releases(alive), alive)
  BY <1>2, <1>4, LetsReleases
<1>7. CASE /\ far' = Unbind(g, lost \cup idle \cup {id})
           /\ toHolder' = toHolder \o (Releases(alive) \o Releases(idle) \o Releases({id}))
  <2>1. Lets(Releases(idle), idle) /\ Lets(Releases({id}), {id})
    BY <1>2, LetsReleases
  <2>2. Lets(Releases(alive) \o Releases(idle) \o Releases({id}), alive \cup idle \cup {id})
    BY <1>6, <2>1, LetsBoth
  <2> DEFINE out == lost \cup idle \cup {id}
             T == alive \cup idle \cup {id}
             s == Releases(alive) \o Releases(idle) \o Releases({id})
  <2>3. /\ out \in SUBSET Ids /\ T \in SUBSET out
        /\ \A i \in out : far[i] # None /\ ~far[i].released /\ (i \notin T => far[i].exit)
    BY <1>2, <1>4
  <2>4. Lets(s, T) /\ far' = Unbind(g, out) /\ toHolder' = toHolder \o s
    BY <1>7, <2>2
  <2> HIDE DEF out, T, s
  <2> QED BY <1>5, <2>3, <2>4
<1>8. ASSUME NEW done \in SUBSET (idle \ ended),
             far' = Unbind(g, lost \cup done),
             toHolder' = toHolder \o (Releases(alive) \o Releases(done))
      PROVE  Moved
  <2>1. done \subseteq Ids /\ done \subseteq idle
    BY <1>2
  <2>2. Lets(Releases(done), done)
    BY <1>2, <2>1, LetsReleases
  <2>3. Lets(Releases(alive) \o Releases(done), alive \cup done)
    BY <1>6, <2>2, LetsBoth
  <2> DEFINE out == lost \cup done
             T == alive \cup done
             s == Releases(alive) \o Releases(done)
  <2>4. /\ out \in SUBSET Ids /\ T \in SUBSET out
        /\ \A i \in out : far[i] # None /\ ~far[i].released /\ (i \notin T => far[i].exit)
    BY <1>2, <1>4, <2>1
  <2>5. Lets(s, T) /\ far' = Unbind(g, out) /\ toHolder' = toHolder \o s
    BY <1>8, <2>3
  <2> HIDE DEF out, T, s
  <2> QED BY <1>5, <2>4, <2>5
<1> QED BY <1>3, <1>7, <1>8

\* One handle changes in what it wants and counts, and nothing else is sent.
LEMMA OneMoves ==
    ASSUME Linked(far), NEW id \in Ids, far[id] # None, NEW h, h # None,
           far' = [far EXCEPT ![id] = h], NEW s \in Seq(FarFrames), toHolder' = toHolder \o s,
           \A i \in Ids : i # id => Lacks(s, Asking(i)),
           h.version = far[id].version, h.holds = far[id].holds, h.exit = far[id].exit,
           h.released = far[id].released,
           h.waiting => far[id].waiting \/ ~far[id].exit,
           \/ h.wanted = far[id].wanted /\ Lacks(s, Asking(id))
           \/ /\ ~far[id].released /\ ~Lacks(s, Asking(id))
              /\ \A fr \in LastIn(s, Asking(id)) : Word(fr) = h.wanted
    PROVE  Moved
<1>1. \A i \in Ids : far'[i] = IF i = id THEN h ELSE far[i]
  BY DEF Linked
<1>2. ASSUME NEW i \in Ids, i # id PROVE Untold(i, s)
  BY <1>1, <1>2 DEF Untold
<1>3. Untold(id, s) \/ Tuned(id, s)
  BY <1>1 DEF Untold, Tuned
<1> QED BY <1>2, <1>3 DEF Moved

LEMMA WantMoves ==
    ASSUME Linked(far), NEW id \in Ids, far[id] # None, NEW kinds \in SUBSET Kinds
    PROVE  LET s == Want(id, kinds) IN
           /\ s \in Seq(FarFrames) /\ \A i \in Ids : i # id => Lacks(s, Asking(i))
           /\ \/ kinds = far[id].wanted /\ Lacks(s, Asking(id))
              \/ /\ ~Lacks(s, Asking(id))
                 /\ \A fr \in LastIn(s, Asking(id)) : Word(fr) = kinds
<1>1. CASE kinds = far[id].wanted
  <2>1. Want(id, kinds) = <<>>
    BY <1>1 DEF Want
  <2> QED BY <1>1, <2>1 DEF Lacks
<1>2. CASE kinds # far[id].wanted
  <2> DEFINE e == ToHolder("tune", id, kinds)
  <2>1. Want(id, kinds) = <<e>>
    BY <1>2 DEF Want
  <2>2. far[id].of \in Procs
    BY HandleOf DEF Handles
  <2>3. e \in FarFrames /\ e.to = id /\ e.kind = "tune" /\ e.kinds = kinds
    BY <2>2 DEF ToHolder, FarFrames
  <2> HIDE DEF e
  <2>4. /\ <<e>> \in Seq(FarFrames) /\ e \in Asking(id) /\ Word(e) = kinds
        /\ \A i \in Ids : i # id => e \notin Asking(i)
    BY <2>3 DEF Asking, Tunes, Drops, Word
  <2> QED BY <2>1, <2>4, LastOne
<1> QED BY <1>1, <1>2

\* A count changes, and the handle stays as it was.
LEMMA CountAlike ==
    ASSUME NEW b \in Handles, NEW n \in Nat, NEW k \in Nat
    PROVE  LET h == [b EXCEPT !.count = n, !.keeps = k] IN
           /\ h \in Handles /\ Alike(b, h) /\ h.of = b.of /\ h.exit = b.exit
           /\ h.owned = b.owned /\ h.transient = b.transient
  BY DEF Handles, Alike

LEMMA ReaderAsksMoves ==
    ASSUME ReaderOK, ReaderAsks
    PROVE  Moved /\ UNCHANGED <<holder, toReader, deaf>>
<1>1. Linked(far) /\ toHolder \in Seq(FarFrames)
  BY DEF ReaderOK
<1>2. Acts => UNCHANGED <<holder, toReader, deaf>>
  BY DEF Acts
<1>3. PICK id \in Ids :
        \/ Hold(id) \/ Release(id) \/ ReleaseRef(id)
        \/ \E kinds \in Lists : Tune(id, kinds)
        \/ \E kind \in {"message", "state"} : Subscribe(id, kind)
        \/ Ready(id) \/ Wait(id) \/ Stop(id)
  BY DEF ReaderAsks
<1>4. Acts /\ far[id] # None /\ ~far[id].released
  BY <1>3 DEF Hold, Release, ReleaseRef, Tune, Subscribe, Ready, Wait, Stop, Askable, Bound
<1> DEFINE b == far[id]
<1>5. b \in Handles
  BY <1>1, <1>4, HandleOf
<1>6. /\ <<>> \in Seq(FarFrames) /\ \A i \in Ids : Lacks(<<>>, Asking(i))
  BY DEF Lacks
<1>7. ASSUME NEW h \in Handles, Alike(b, h), far' = [far EXCEPT ![id] = h],
             toHolder' = toHolder \o <<>>
      PROVE  Moved
  BY <1>1, <1>4, <1>6, <1>7, OneMoves, NoneAssumption DEF Alike
<1>8. ASSUME Hold(id) PROVE Moved
  <2> DEFINE n == b.count + 1
             k == b.keeps + 1
             h == [b EXCEPT !.count = n, !.keeps = k]
  <2>1. far' = [far EXCEPT ![id] = h] /\ toHolder' = toHolder \o <<>>
    BY <1>8 DEF Hold, Send
  <2>2. n \in Nat /\ k \in Nat
    BY <1>5 DEF Handles
  <2> HIDE DEF n, k, b
  <2>3. h \in Handles /\ Alike(b, h)
    BY <1>5, <2>2, CountAlike
  <2> QED BY <1>7, <2>1, <2>3
<1>9. ASSUME Release(id) PROVE Moved
  <2>1. Same(far, far) /\ LetGo(far, id)
    BY <1>9 DEF Release, Same, Alike
  <2> QED BY <1>1, <1>4, <2>1, LetGoMoves
<1>10. ASSUME ReleaseRef(id) PROVE Moved
  <2> DEFINE n == IF b.count > 0 THEN b.count - 1 ELSE 0
             k == IF b.keeps > 0 THEN b.keeps - 1 ELSE 0
             h == [b EXCEPT !.count = n, !.keeps = k]
             f == [far EXCEPT ![id] = h]
  <2>1. IF f[id].count > 0 THEN far' = f /\ toHolder' = toHolder \o <<>>
        ELSE IF Askable(id) THEN LetGo(f, id)
        ELSE far' = Unbind(f, {id}) /\ toHolder' = toHolder \o <<>>
    <3>1. f = [far EXCEPT ![id].count = IF @ > 0 THEN @ - 1 ELSE 0,
                          ![id].keeps = IF @ > 0 THEN @ - 1 ELSE 0]
      BY <1>1 DEF Linked
    <3> HIDE DEF f
    <3> QED BY <1>10, <3>1 DEF ReleaseRef, Send
  <2>2. n \in Nat /\ k \in Nat
    BY <1>5 DEF Handles
  <2>3. /\ h \in Handles /\ Alike(b, h) /\ h.of = b.of /\ h.exit = b.exit
        /\ h.owned = b.owned /\ h.transient = b.transient
    <3> HIDE DEF n, k, b
    <3> QED BY <1>5, <2>2, CountAlike
  <2> HIDE DEF h, n, k
  <2>4. \A r \in h.owned \cup h.transient : far[r] # None
    BY <1>1, <1>4, <2>3, Closed1
  <2>5. Linked(f) /\ Same(far, f)
    BY <1>1, <1>4, <2>3, <2>4, SetHandle, SetAlike
  <2> HIDE DEF f
  <2>6. CASE f[id].count > 0
    BY <1>7, <2>1, <2>3, <2>6 DEF f
  <2>7. CASE ~(f[id].count > 0) /\ Askable(id)
    BY <1>1, <1>4, <2>1, <2>5, <2>7, LetGoMoves
  <2>8. CASE ~(f[id].count > 0) /\ ~Askable(id)
    <3>1. far' = Unbind(f, {id}) /\ toHolder' = toHolder \o <<>> /\ far[id].exit
      BY <1>4, <2>1, <2>8 DEF Askable, Bound
    <3>2. \A i \in Ids : /\ i = id => far'[i] = None
                         /\ i # id => /\ far'[i] = None <=> f[i] = None
                                      /\ f[i] # None => Alike(f[i], far'[i])
      BY <2>5, <3>1, UnbindAlike
    <3>3. LetGoOf(id, <<>>)
      BY <1>4, <1>6, <3>1, <3>2 DEF LetGoOf
    <3>4. ASSUME NEW i \in Ids, i # id PROVE Untold(i, <<>>)
      BY <1>6, <2>5, <3>2, <3>4 DEF Untold, Same, Alike
    <3> QED BY <1>6, <3>1, <3>3, <3>4 DEF Moved
  <2> QED BY <2>6, <2>7, <2>8
<1>11. ASSUME NEW kinds \in SUBSET Kinds, NEW h \in Handles,
              h.wanted = kinds, h.version = b.version, h.holds = b.holds, h.exit = b.exit,
              h.released = b.released, h.waiting => b.waiting \/ Askable(id), far' = [far EXCEPT ![id] = h],
              NEW s \in Seq(FarFrames), toHolder' = toHolder \o s,
              \A i \in Ids : i # id => Lacks(s, Asking(i)),
              \/ kinds = b.wanted /\ Lacks(s, Asking(id))
              \/ /\ ~Lacks(s, Asking(id))
                 /\ \A fr \in LastIn(s, Asking(id)) : Word(fr) = kinds
       PROVE  Moved
  BY <1>1, <1>4, <1>11, OneMoves, NoneAssumption DEF Askable
<1>12. ASSUME NEW kinds \in SUBSET Kinds
       PROVE  LET s == Want(id, kinds) IN
              /\ s \in Seq(FarFrames) /\ \A i \in Ids : i # id => Lacks(s, Asking(i))
              /\ \/ kinds = b.wanted /\ Lacks(s, Asking(id))
                 \/ /\ ~Lacks(s, Asking(id))
                    /\ \A fr \in LastIn(s, Asking(id)) : Word(fr) = kinds
  BY <1>1, <1>4, WantMoves
<1>13. ASSUME NEW kinds \in Lists, Tune(id, kinds) PROVE Moved
  <2> DEFINE h == [b EXCEPT !.wanted = kinds]
  <2>1. /\ far' = [far EXCEPT ![id] = h] /\ toHolder' = toHolder \o Want(id, kinds)
        /\ Askable(id)
    BY <1>13 DEF Tune, Send
  <2>2. kinds \in SUBSET Kinds
    BY RefsAssumption
  <2>3. /\ h \in Handles /\ h.wanted = kinds /\ h.version = b.version /\ h.holds = b.holds
        /\ h.exit = b.exit /\ h.released = b.released /\ h.waiting = b.waiting
    BY <1>5, <2>2 DEF Handles
  <2> HIDE DEF h, b
  <2> QED BY <1>11, <1>12, <2>1, <2>2, <2>3
<1>14. ASSUME Ready(id) PROVE Moved
  <2> DEFINE kinds == b.wanted \cup {"state"}
             h == [b EXCEPT !.wanted = kinds, !.readying = TRUE]
  <2>1. /\ far' = [far EXCEPT ![id] = h] /\ toHolder' = toHolder \o Want(id, kinds)
        /\ Askable(id)
    BY <1>14 DEF Ready, Send
  <2>2. kinds \in SUBSET Kinds
    BY <1>5 DEF Handles, Kinds
  <2> HIDE DEF kinds
  <2>3. /\ h \in Handles /\ h.wanted = kinds /\ h.version = b.version /\ h.holds = b.holds
        /\ h.exit = b.exit /\ h.released = b.released /\ h.waiting = b.waiting
    BY <1>5, <2>2 DEF Handles
  <2> HIDE DEF h, b
  <2> QED BY <1>11, <1>12, <2>1, <2>2, <2>3
<1> DEFINE kw == b.wanted \cup {"exit"}
           hw == [b EXCEPT !.wanted = kw, !.waiting = TRUE]
<1>15. kw \in SUBSET Kinds
  BY <1>5 DEF Handles, Kinds
<1>16. /\ hw \in Handles /\ hw.wanted = kw /\ hw.version = b.version /\ hw.holds = b.holds
       /\ hw.exit = b.exit /\ hw.released = b.released
  <2> HIDE DEF kw
  <2> QED BY <1>5, <1>15 DEF Handles
<1>17. ASSUME Wait(id) PROVE Moved
  <2>1. /\ far' = [far EXCEPT ![id] = hw] /\ toHolder' = toHolder \o Want(id, kw)
        /\ Askable(id)
    BY <1>17 DEF Wait, Send
  <2> HIDE DEF hw, kw, b
  <2> QED BY <1>11, <1>12, <1>15, <1>16, <2>1
<1>18. ASSUME Stop(id) PROVE Moved
  <2> DEFINE e == ToHolder("stop", id, {})
             w == Want(id, kw)
             s == Append(w, e)
  <2>1. far' = [far EXCEPT ![id] = hw] /\ toHolder' = toHolder \o s /\ Askable(id)
    BY <1>18 DEF Stop, Send
  <2>2. b.of \in Procs
    BY <1>5 DEF Handles
  <2>3. e \in FarFrames /\ \A i \in Ids : e \notin Asking(i)
    BY <2>2 DEF ToHolder, FarFrames, Asking, Tunes, Drops
  <2>4. /\ w \in Seq(FarFrames) /\ \A i \in Ids : i # id => Lacks(w, Asking(i))
        /\ \/ kw = b.wanted /\ Lacks(w, Asking(id))
           \/ /\ ~Lacks(w, Asking(id))
              /\ \A fr \in LastIn(w, Asking(id)) : Word(fr) = kw
    BY <1>12, <1>15
  <2> HIDE DEF e, w, hw, kw, b
  <2>5. s \in Seq(FarFrames)
    BY <2>3, <2>4
  <2>6. \A i \in Ids : /\ LastIn(s, Asking(i)) \subseteq LastIn(w, Asking(i))
                       /\ Lacks(s, Asking(i)) <=> Lacks(w, Asking(i))
    BY <2>3, <2>4, LastAppend
  <2> HIDE DEF s
  <2> QED BY <1>11, <1>15, <1>16, <2>1, <2>4, <2>5, <2>6
<1>19. ASSUME NEW kind \in {"message", "state"}, Subscribe(id, kind) PROVE Moved
  <2> DEFINE kinds == b.wanted \cup {kind}
             h == [b EXCEPT !.wanted = kinds]
  <2>1. far' = [far EXCEPT ![id] = h] /\ toHolder' = toHolder \o Want(id, kinds)
    BY <1>19 DEF Subscribe, Send
  <2>2. kinds \in SUBSET Kinds
    BY <1>5 DEF Handles, Kinds
  <2> HIDE DEF kinds
  <2>3. /\ h \in Handles /\ h.wanted = kinds /\ h.version = b.version /\ h.holds = b.holds
        /\ h.exit = b.exit /\ h.released = b.released /\ h.waiting = b.waiting
    BY <1>5, <2>2 DEF Handles
  <2> HIDE DEF h, b
  <2> QED BY <1>11, <1>12, <2>1, <2>2, <2>3
<1> QED BY <1>2, <1>3, <1>4, <1>8, <1>9, <1>10, <1>13, <1>14, <1>17, <1>18, <1>19

LEMMA MovedAgrees ==
    ASSUME TInv, OneMeaning, LInv, AInv, Moved, UNCHANGED <<holder, deaf>>
    PROVE  AInv'
<1>1. PICK s \in Seq(FarFrames) :
        /\ toHolder' = toHolder \o s
        /\ \A i \in Ids : Untold(i, s) \/ LetGoOf(i, s) \/ Tuned(i, s)
  BY DEF Moved
<1>2. toHolder \in Seq(FarFrames) /\ UNCHANGED <<record, unsaid, named>>
  BY DEF TInv, ReaderOK, holder
<1>3. ASSUME NEW i \in Ids
      PROVE  /\ Lacks(s, Asking(i)) =>
                   /\ LastIn(toHolder', Asking(i)) \subseteq LastIn(toHolder, Asking(i))
                   /\ Lacks(toHolder', Asking(i)) => Lacks(toHolder, Asking(i))
                   /\ GivenUp(toHolder, i) => GivenUp(toHolder', i)
             /\ ~Lacks(s, Asking(i)) =>
                   /\ LastIn(toHolder', Asking(i)) \subseteq LastIn(s, Asking(i))
                   /\ ~Lacks(toHolder', Asking(i))
                   /\ (\A n \in DOMAIN s : s[n].kind = "release") => GivenUp(toHolder', i)
  BY <1>1, <1>2, LastConcat, GivenUpConcat
<1>4. ASSUME NEW i \in Ids PROVE Orphaned(i)' /\ (OnRecord(i)' <=> OnRecord(i)) /\ Held(i)' = Held(i)
  BY <1>2 DEF AInv, Orphaned, OnRecord, Held
<1>5. ASSUME NEW i \in Ids, Untold(i, s) PROVE Agrees(i)'
  <2>1. Wanted(i)' = Wanted(i)
    BY <1>5 DEF Wanted, Untold
  <2> QED BY <1>3, <1>4, <1>5, <2>1 DEF AInv, Agrees, Untold
<1>6. ASSUME NEW i \in Ids, LetGoOf(i, s) PROVE Agrees(i)'
  <2>1. CASE far[i].exit
    <3>1. Ended(i)
      BY <1>6, <2>1 DEF LetGoOf, Ended
    <3>2. ~OnRecord(i)
      BY <3>1 DEF LInv, Silenced, OnRecord
    <3> QED BY <1>4, <3>2 DEF Agrees
  <2>2. CASE ~Lacks(s, Asking(i)) /\ \A n \in DOMAIN s : s[n].kind = "release"
    <3>1. \A fr \in LastIn(s, Asking(i)) : Word(fr) = {}
      BY <2>2 DEF LastIn, Word
    <3>2. Wanted(i)' = {}
      BY <1>6 DEF LetGoOf, Wanted
    <3> QED BY <1>3, <1>6, <2>2, <3>1, <3>2 DEF Agrees
  <2> QED BY <1>6, <2>1, <2>2 DEF LetGoOf
<1>7. ASSUME NEW i \in Ids, Tuned(i, s) PROVE Agrees(i)'
  <2>1. Wanted(i)' = far'[i].wanted
    BY <1>7 DEF Tuned, Wanted
  <2> QED BY <1>3, <1>7, <2>1 DEF Agrees, Tuned
<1> QED BY <1>1, <1>4, <1>5, <1>6, <1>7 DEF AInv

LEMMA AInvNext == TInv /\ OneMeaning /\ LInv /\ AInv /\ [Next]_vars => AInv'
<1> SUFFICES ASSUME TInv, OneMeaning, LInv, AInv, [Next]_vars PROVE AInv'
  OBVIOUS
<1>1. CASE UNCHANGED vars
  BY <1>1 DEF AInv, Agrees, Orphaned, OnRecord, Held, Wanted, vars, holder, reader
<1>2. CASE HolderSays
  BY <1>2, SaysOnward, OnwardAgrees
<1>3. CASE Flush
  BY <1>3, FlushBegins, BegunAgrees
<1>4. CASE HolderGets
  BY <1>4, HolderTakesIn, TakesInAgrees
<1>5. CASE ReaderGets
  <2>1. UNCHANGED <<record, unsaid, named, toHolder, deaf>>
    BY <1>5 DEF ReaderGets, holder
  <2> QED BY <1>5, <2>1, ReaderGetsLands, LandsAgrees
<1>6. CASE ReaderAsks
  BY <1>6, ReaderAsksMoves, MovedAgrees DEF TInv
<1> QED BY <1>1, <1>2, <1>3, <1>4, <1>5, <1>6 DEF Next

\* What the opening leaves: the numbered processes are heard, and nobody else is known.
LEMMA Opening ==
    ASSUME Init, NEW i \in Ids
    PROVE  /\ Known(i) => /\ far[i] # None /\ record[i] = Heard
                          /\ far[i].wanted = Heard /\ far[i].version = 1
                          /\ ~far[i].exit /\ ~far[i].waiting
           /\ ~Known(i) => far[i] = None /\ record[i] = None /\ named[i] = None
           /\ record[i] = None <=> named[i] = None
<1>1. TInv
  BY TInvInit
<1>2. far[i] = IF Known(i)
               THEN [NewHandle(named[i]) EXCEPT !.wanted = Heard, !.version = 1,
                                                !.keeps = 1, !.count = 1]
               ELSE None
  BY DEF Init
<1>3. ASSUME Known(i)
      PROVE  /\ far[i] # None /\ far[i].wanted = Heard /\ far[i].version = 1
             /\ ~far[i].exit /\ ~far[i].waiting /\ named[i] \in Carriers
  <2>1. PICK c \in Carriers : First[c] = i
    BY <1>3 DEF Known
  <2>2. number[c] = i /\ c \in Procs
    BY <2>1 DEF Init, Procs
  <2>3. named[i] = c
    BY <1>1, <2>2 DEF TInv, Numbered
  <2>4. named[i] \in Procs
    BY <2>2, <2>3
  <2>5. far[i] \in Handles
    <3> DEFINE b == NewHandle(named[i])
               w == Heard
    <3>1. b \in Handles
      BY <2>4 DEF NewHandle, Handles
    <3>2. w \in SUBSET Kinds
      BY DEF Heard, Kinds
    <3>3. far[i] = [b EXCEPT !.wanted = w, !.version = 1, !.keeps = 1, !.count = 1]
      BY <1>2, <1>3
    <3> HIDE DEF b, w
    <3> DEFINE h == [b EXCEPT !.wanted = w, !.version = 1]
    <3>4. h \in Handles
      BY <3>1, <3>2 DEF Handles
    <3>5. far[i] = [h EXCEPT !.keeps = 1, !.count = 1]
      BY <3>3
    <3> HIDE DEF h
    <3>6. [h EXCEPT !.keeps = 1, !.count = 1] \in Handles
      BY <3>4 DEF Handles
    <3> QED BY <3>5, <3>6
  <2>6. far[i] # None
    BY <2>5, NoneAssumption
  <2> QED BY <1>2, <1>3, <2>1, <2>3, <2>6 DEF NewHandle
<1>4. record[i] = IF Known(i) THEN Heard ELSE None
  BY DEF Init
<1>5. ~Known(i) => named[i] = None
  BY DEF Init
<1>6. Heard # None
  <2>1. Heard \in SUBSET Kinds
    BY DEF Heard, Kinds
  <2> QED BY <2>1, NoneAssumption
<1>7. Known(i) => named[i] # None
  BY <1>3, RefsAssumption
<1> QED BY <1>2, <1>3, <1>4, <1>5, <1>6, <1>7

LEMMA AInvInit == Init => AInv
<1> SUFFICES ASSUME Init, NEW i \in Ids PROVE Agrees(i) /\ Orphaned(i)
  BY DEF AInv
<1>1. toHolder = <<>> /\ unsaid = <<>>
  BY DEF Init
<1>2. DOMAIN toHolder = {} /\ Range(unsaid) = {}
  BY <1>1 DEF Range
<1>3. /\ Known(i) => far[i] # None /\ record[i] = Heard /\ far[i].wanted = Heard
      /\ ~Known(i) => far[i] = None /\ record[i] = None
      /\ record[i] = None <=> named[i] = None
  BY Opening
<1>4. Orphaned(i)
  BY <1>3 DEF Orphaned
<1>5. LastIn(toHolder, Asking(i)) = {}
  BY <1>2 DEF LastIn
<1>6. OnRecord(i) => Held(i) = Wanted(i)
  BY <1>2, <1>3 DEF OnRecord, Held, Wanted
<1>7. GivenUp(toHolder, i)
  BY <1>2 DEF GivenUp
<1> QED BY <1>4, <1>5, <1>6, <1>7 DEF Agrees

LEMMA Agreement == Spec => [](TInv /\ OneMeaning /\ LInv /\ AInv)
  BY TInvInit, TInvNext, OneMeaningInit, OneMeaningNext, LInvInit, LInvNext,
     AInvInit, AInvNext, PTL DEF Spec

\* What is asked for is what is said: however $tune and $release cross hand-overs, the
\* beginnings of streams and ends, once none is under way about an id the holder's
\* books and the handle agree (process-streams.ts:103-119, remote-process.ts:396-415).
THEOREM RefsAskedIsHeard == Spec => []AskedIsHeard
<1>1. TInv /\ AInv => AskedIsHeard
  BY AInvIsAskedIsHeard
<1> QED BY <1>1, Agreement, PTL

---------------------------------------------------------------------------
\* Whoever waits for an end is told.

\* A process that goes by a number is on record or will be, until it ends; then it is off.
Recorded(i) ==
    named[i] # None => IF named[i] \in running THEN OnRecord(i) ELSE record[i] = None

\* No handle that heard the end still waits for it.
Patient(i) == far[i] # None /\ far[i].waiting => ~far[i].exit

\* The end of a process whose handle wants to hear of it is on its way, unless the
\* want has not arrived.
Announced(i) ==
    /\ far[i] # None /\ ~far[i].released /\ ~far[i].exit /\ "exit" \in far[i].wanted
    /\ i \notin deaf /\ named[i] # None /\ named[i] \notin running
    => \/ ~Lacks(toHolder, Asking(i))
       \/ \E fr \in Range(toReader) : fr.kind = "exit" /\ fr.to = i

WInv == \A i \in Ids : Recorded(i) /\ Patient(i) /\ Announced(i)

LEMMA WInvIsWaitAnswered == TInv /\ OneMeaning /\ WInv => WaitAnswered
<1> SUFFICES ASSUME TInv, OneMeaning, WInv,
                    NEW id \in Ids, far[id] # None, ~far[id].released, far[id].waiting,
                    "exit" \in far[id].wanted, id \notin deaf,
                    named[id] # None, far[id].of \notin running
             PROVE  \/ Travels(toReader, {"exit"}, id)
                    \/ Travels(toHolder, {"tune", "release"}, id)
  BY DEF WaitAnswered, Bound
<1>1. named[id] = far[id].of
  <2>1. named[id] \in Procs /\ far[id].of \in Procs
    BY HandleOf DEF TInv, Numbered, ReaderOK, Handles
  <2>2. Means(id, named[id]) /\ Means(id, far[id].of)
    BY DEF Means
  <2> QED BY <2>1, <2>2 DEF OneMeaning
<1>2. Patient(id) /\ Announced(id)
  BY DEF WInv
<1>3. \/ ~Lacks(toHolder, Asking(id))
      \/ \E fr \in Range(toReader) : fr.kind = "exit" /\ fr.to = id
  BY <1>1, <1>2 DEF Patient, Announced
<1>4. ~Lacks(toHolder, Asking(id)) => Travels(toHolder, {"tune", "release"}, id)
  BY DEF Lacks, Asking, Tunes, Drops, Travels
<1>5. (\E fr \in Range(toReader) : fr.kind = "exit" /\ fr.to = id) => Travels(toReader, {"exit"}, id)
  BY DEF Range, Travels
<1> QED BY <1>3, <1>4, <1>5

\* One frame more on a wire, whatever it is.
LEMMA RangeSaid ==
    ASSUME NEW T, NEW s \in Seq(T), NEW e
    PROVE  Range(Append(s, e)) = Range(s) \cup {e}
<1> DEFINE S == T \cup {e}
<1>1. s \in Seq(S) /\ e \in S
  OBVIOUS
<1> HIDE DEF S
<1> QED BY <1>1, RangeAppend

\* What is under way stays under way, and the end of a process is said to who asked.
Spoken ==
    /\ Range(toReader) \subseteq Range(toReader')
    /\ \A i \in Ids : named[i] \in running \ running' /\ "exit" \in Held(i) =>
          \E fr \in Range(toReader') : fr.kind = "exit" /\ fr.to = i

LEMMA SaysSpoken ==
    ASSUME TInv, HolderSays
    PROVE  Spoken
<1>0. toReader \in Seq(Frames) /\ Numbered /\ 0 \notin Ids
  BY DEF TInv, HolderOK, Ids
<1>1. ASSUME NEW e, toReader' = Append(toReader, e)
      PROVE  Range(toReader') = Range(toReader) \cup {e}
  BY <1>0, <1>1, RangeSaid
<1>2. ASSUME NEW e, toReader' = Append(toReader, e) \/ UNCHANGED toReader, UNCHANGED running
      PROVE  Spoken
  BY <1>1, <1>2 DEF Spoken
<1>3. ASSUME NEW p \in Procs, HandOver(p) PROVE Spoken
  BY <1>2, <1>3 DEF HandOver, Say
<1>4. ASSUME NEW p \in Carriers, NEW c \in Leaves \cup {None}, Publish(p, c) PROVE Spoken
  BY <1>2, <1>4 DEF Publish, Say
<1>5. ASSUME NEW p \in Carriers, NEW c \in Leaves \cup {None}, Speak(p, c) PROVE Spoken
  BY <1>2, <1>5 DEF Speak, Say
<1>6. ASSUME NEW p \in Procs, End(p) PROVE Spoken
  <2> DEFINE s == state[p]
             e == ToReader("exit", p, number[p], s.v, IdFor(s.ref), s.ref)
  <2>1. /\ running' = running \ {p}
        /\ IF Told(number[p]) THEN toReader' = Append(toReader, e) ELSE UNCHANGED toReader
    BY <1>6 DEF End, Say
  <2>2. e.kind = "exit" /\ e.to = number[p]
    BY DEF ToReader
  <2> HIDE DEF e, s
  <2>3. Range(toReader) \subseteq Range(toReader')
    BY <1>1, <2>1
  <2>4. ASSUME NEW i \in Ids, named[i] \in running \ running', "exit" \in Held(i)
        PROVE  \E fr \in Range(toReader') : fr.kind = "exit" /\ fr.to = i
    <3>1. number[p] = i
      BY <1>0, <2>1, <2>4 DEF Numbered
    <3>2. Told(number[p])
      BY <1>0, <2>4, <3>1 DEF Told, Held
    <3> QED BY <1>1, <2>1, <2>2, <3>1, <3>2
  <2> QED BY <2>3, <2>4 DEF Spoken
<1> QED BY <1>3, <1>4, <1>5, <1>6 DEF HolderSays

LEMMA OnwardWaits ==
    ASSUME TInv, OneMeaning, LInv, AInv, WInv, Onward, Spoken
    PROVE  WInv'
<1>1. ASSUME NEW i \in Ids PROVE Recorded(i)'
  <2>1. CASE named'[i] = named[i]
    <3>1. record'[i] = record[i] \/ (record'[i] = None /\ named[i] \notin running')
      BY DEF Onward
    <3>2. named[i] \in running' => named[i] \in running
      BY DEF Onward
    <3>3. named[i] \in running \ running' => record'[i] = None
      BY DEF Onward
    <3>4. (\E u \in Range(unsaid) : u.id = i) => \E u \in Range(unsaid') : u.id = i
      BY DEF Onward, Books
    <3> QED BY <2>1, <3>1, <3>2, <3>3, <3>4 DEF WInv, Recorded, OnRecord
  <2>2. CASE i = nextId /\ named'[i] # None /\ \E u \in Range(unsaid') : u.id = i
    <3>1. record[i] = None
      BY <2>2, NextIsFresh
    <3>2. record'[i] = None
      BY <3>1 DEF Onward
    <3> QED BY <2>2, <3>2 DEF Recorded, OnRecord
  <2> QED BY <2>1, <2>2 DEF Onward, Books
<1>2. ASSUME NEW i \in Ids PROVE Patient(i)'
  BY DEF Onward, WInv, Patient
<1>3. ASSUME NEW i \in Ids PROVE Announced(i)'
  <2> SUFFICES ASSUME far[i] # None, ~far[i].released, ~far[i].exit, "exit" \in far[i].wanted,
                      i \notin deaf, named'[i] # None, named'[i] \notin running'
               PROVE  \/ ~Lacks(toHolder, Asking(i))
                      \/ \E fr \in Range(toReader') : fr.kind = "exit" /\ fr.to = i
    BY DEF Onward, Announced
  <2>1. named'[i] = named[i]
    BY NextIsFresh DEF Onward, Books
  <2>2. CASE named[i] \notin running
    BY <2>1, <2>2 DEF WInv, Announced, Spoken
  <2>3. CASE named[i] \in running
    <3>1. OnRecord(i) /\ Agrees(i)
      BY <2>1, <2>3 DEF WInv, Recorded, AInv
    <3>2. Lacks(toHolder, Asking(i)) => "exit" \in Held(i)
      BY <3>1 DEF Agrees, Wanted
    <3> QED BY <2>1, <2>3, <3>2 DEF Spoken
  <2> QED BY <2>2, <2>3
<1> QED BY <1>1, <1>2, <1>3 DEF WInv

LEMMA BegunWaits ==
    ASSUME TInv, OneMeaning, LInv, AInv, WInv, NEW u, Begun(u),
           Range(toReader) \subseteq Range(toReader')
    PROVE  WInv'
<1>1. ASSUME NEW i \in Ids PROVE Recorded(i)'
  <2>1. CASE i = u.id
    <3>1. named[i] # None => named[i] = u.proc
      BY <2>1 DEF Begun
    <3>2. record'[i] = IF u.proc \in running THEN {} ELSE None
      BY <2>1 DEF Begun
    <3>3. named' = named /\ running' = running
      BY DEF Begun
    <3>4. {} # None
      BY NoneAssumption
    <3> QED BY <3>1, <3>2, <3>3, <3>4 DEF Recorded, OnRecord
  <2>2. CASE i # u.id
    BY <2>2 DEF Begun, WInv, Recorded, OnRecord
  <2> QED BY <2>1, <2>2
<1>2. ASSUME NEW i \in Ids PROVE Patient(i)' /\ Announced(i)'
  BY DEF Begun, WInv, Patient, Announced
<1> QED BY <1>1, <1>2 DEF WInv

LEMMA TakesInWaits ==
    ASSUME TInv, OneMeaning, LInv, AInv, WInv, NEW f, TakesIn(f)
    PROVE  WInv'
<1>1. toHolder \in Seq(FarFrames) /\ toHolder # <<>> /\ f = Head(toHolder) /\ toHolder' = Tail(toHolder)
  BY DEF TInv, ReaderOK, TakesIn
<1>2. UNCHANGED <<far, running>> /\ deaf \subseteq deaf'
  BY DEF TakesIn
<1>3. Range(toReader) \subseteq Range(toReader')
  <2>1. toReader \in Seq(Frames)
    BY DEF TInv, HolderOK
  <2>2. (\E e : toReader' = Append(toReader, e)) \/ toReader' = toReader
    BY DEF TakesIn, TuneTo, Say
  <2>3. \A e : Range(Append(toReader, e)) = Range(toReader) \cup {e}
    BY <2>1, RangeSaid
  <2> QED BY <2>2, <2>3
<1>4. ASSUME NEW i \in Ids PROVE Recorded(i)'
  <2>1. CASE f.kind = "release" /\ i = f.to
    BY <2>1 DEF TakesIn, Recorded
  <2>2. CASE f.kind # "tune" /\ ~(f.kind = "release" /\ i = f.to)
    <3>1. named'[i] = named[i] /\ record'[i] = record[i] /\ unsaid' = unsaid
      BY <2>2 DEF TakesIn
    <3> QED BY <1>2, <3>1 DEF WInv, Recorded, OnRecord
  <2>3. CASE f.kind = "tune"
    <3>1. Books /\ f.kinds # None
      BY <2>3, NoneAssumption DEF TakesIn
    <3>2. /\ record[i] = None => record'[i] = None
          /\ record[i] # None => record'[i] # None
      BY <2>3, <3>1 DEF TakesIn
    <3>3. CASE named'[i] = named[i]
      <4>1. OnRecord(i) => OnRecord(i)'
        BY <3>1, <3>2 DEF OnRecord, Books
      <4> QED BY <1>2, <3>2, <3>3, <4>1 DEF WInv, Recorded
    <3>4. CASE i = nextId /\ named'[i] # None /\ \E u \in Range(unsaid') : u.id = i
      <4>1. record'[i] = None /\ OnRecord(i)'
        BY <3>2, <3>4, NextIsFresh DEF OnRecord
      <4> QED BY <4>1 DEF Recorded
    <3> QED BY <3>1, <3>3, <3>4 DEF Books
  <2> QED BY <2>1, <2>2, <2>3
<1>5. ASSUME NEW i \in Ids PROVE Patient(i)'
  BY <1>2 DEF WInv, Patient
<1>6. ASSUME NEW i \in Ids PROVE Announced(i)'
  <2> SUFFICES ASSUME far[i] # None, ~far[i].released, ~far[i].exit, "exit" \in far[i].wanted,
                      i \notin deaf', named'[i] # None, named'[i] \notin running
               PROVE  \/ ~Lacks(toHolder', Asking(i))
                      \/ \E fr \in Range(toReader') : fr.kind = "exit" /\ fr.to = i
    BY <1>2 DEF Announced
  <2>1. named'[i] = named[i]
    <3>1. i # nextId
      BY NextIsFresh
    <3> QED BY <3>1 DEF TakesIn, Books
  <2>2. record[i] = None
    BY <2>1 DEF WInv, Recorded
  <2>3. f \notin Asking(i)
    BY <2>1, <2>2 DEF TakesIn, Asking, Tunes, Drops
  <2>4. Lacks(toHolder', Asking(i)) => Lacks(toHolder, Asking(i))
    BY <1>1, <2>3, LastTail
  <2> QED BY <1>2, <1>3, <2>1, <2>4 DEF WInv, Announced
<1> QED BY <1>4, <1>5, <1>6 DEF WInv

LEMMA LandsWaits ==
    ASSUME WInv, toReader \in Seq(Frames), toReader # <<>>, toReader' = Tail(toReader),
           Lands(Head(toReader)), Heeded(far, far', Head(toReader)),
           UNCHANGED <<holder, toHolder, deaf>>
    PROVE  WInv'
<1> DEFINE fr == Head(toReader)
<1>1. UNCHANGED <<record, unsaid, named, running>>
  BY DEF holder
<1>2. \A e \in Range(toReader) : e = fr \/ e \in Range(toReader')
  <2>1. /\ DOMAIN toReader = 1 .. Len(toReader) /\ Len(toReader) \in Nat /\ fr = toReader[1]
        /\ DOMAIN toReader' = 1 .. Len(toReader) - 1
        /\ \A n \in 1 .. Len(toReader) - 1 : toReader'[n] = toReader[n + 1]
    OBVIOUS
  <2> HIDE DEF fr
  <2>2. ASSUME NEW n \in DOMAIN toReader, n # 1
        PROVE  n - 1 \in DOMAIN toReader' /\ toReader'[n - 1] = toReader[n]
    BY <2>1, <2>2
  <2> QED BY <2>1, <2>2 DEF Range
<1> HIDE DEF fr
<1>3. Lands(fr) /\ Heeded(far, far', fr)
  BY DEF fr
<1>4. ASSUME NEW i \in Ids PROVE Recorded(i)'
  BY <1>1 DEF WInv, Recorded, OnRecord
<1>5. ASSUME NEW i \in Ids PROVE Patient(i)'
  BY <1>3 DEF Lands, WInv, Patient
<1>6. ASSUME NEW i \in Ids PROVE Announced(i)'
  <2> SUFFICES ASSUME far'[i] # None, ~far'[i].released, ~far'[i].exit,
                      "exit" \in far'[i].wanted, i \notin deaf,
                      named[i] # None, named[i] \notin running
               PROVE  \/ ~Lacks(toHolder, Asking(i))
                      \/ \E e \in Range(toReader') : e.kind = "exit" /\ e.to = i
    BY <1>1 DEF Announced
  <2>1. far[i] # None /\ far[i].wanted = far'[i].wanted /\ ~far[i].released
    BY <1>3 DEF Lands
  <2>2. ~(fr.kind = "exit" /\ fr.to = i)
    BY <1>3, <2>1 DEF Lands
  <2>3. ~far[i].exit
    BY <1>3, <2>1, <2>2 DEF Heeded
  <2> QED BY <1>2, <2>1, <2>2, <2>3 DEF WInv, Announced
<1> QED BY <1>4, <1>5, <1>6 DEF WInv

LEMMA MovedWaits ==
    ASSUME WInv, toHolder \in Seq(FarFrames), Moved, UNCHANGED <<holder, toReader, deaf>>
    PROVE  WInv'
<1>1. PICK s \in Seq(FarFrames) :
        /\ toHolder' = toHolder \o s
        /\ \A i \in Ids : Untold(i, s) \/ LetGoOf(i, s) \/ Tuned(i, s)
  BY DEF Moved
<1>2. UNCHANGED <<record, unsaid, named, running>>
  BY DEF holder
<1>3. ASSUME NEW i \in Ids
      PROVE  /\ Lacks(s, Asking(i)) => (Lacks(toHolder', Asking(i)) => Lacks(toHolder, Asking(i)))
             /\ ~Lacks(s, Asking(i)) => ~Lacks(toHolder', Asking(i))
  BY <1>1, LastConcat
<1>4. ASSUME NEW i \in Ids PROVE Recorded(i)'
  BY <1>2 DEF WInv, Recorded, OnRecord
<1>5. ASSUME NEW i \in Ids, Untold(i, s) PROVE Patient(i)' /\ Announced(i)'
  BY <1>2, <1>3, <1>5 DEF Untold, WInv, Patient, Announced
<1>6. ASSUME NEW i \in Ids, LetGoOf(i, s) PROVE Patient(i)' /\ Announced(i)'
  BY <1>6 DEF LetGoOf, Patient, Announced
<1>7. ASSUME NEW i \in Ids, Tuned(i, s) PROVE Patient(i)' /\ Announced(i)'
  BY <1>3, <1>7 DEF Tuned, WInv, Patient, Announced
<1> QED BY <1>1, <1>4, <1>5, <1>6, <1>7 DEF WInv

LEMMA WInvNext ==
    TInv /\ OneMeaning /\ LInv /\ AInv /\ WInv /\ [Next]_vars => WInv'
<1> SUFFICES ASSUME TInv, OneMeaning, LInv, AInv, WInv, [Next]_vars PROVE WInv'
  OBVIOUS
<1>0. toReader \in Seq(Frames) /\ toHolder \in Seq(FarFrames) /\ ReaderOK
  BY DEF TInv, HolderOK, ReaderOK
<1>1. CASE UNCHANGED vars
  BY <1>1 DEF WInv, Recorded, Patient, Announced, OnRecord, vars, holder, reader
<1>2. CASE HolderSays
  BY <1>2, SaysOnward, SaysSpoken, OnwardWaits
<1>3. CASE Flush
  <2>1. PICK u : Begun(u) /\ toReader' = Append(toReader, ToReader("methods", u.proc, u.id, 0, 0, None))
    BY <1>3, FlushBegins
  <2>2. Range(toReader) \subseteq Range(toReader')
    BY <1>0, <2>1, RangeSaid
  <2> QED BY <2>1, <2>2, BegunWaits
<1>4. CASE HolderGets
  BY <1>4, HolderTakesIn, TakesInWaits
<1>5. CASE ReaderGets
  <2>1. UNCHANGED <<holder, toHolder, deaf>>
    BY <1>5 DEF ReaderGets
  <2> QED BY <1>0, <1>5, <2>1, ReaderGetsKeeps, ReaderGetsLands, LandsWaits
<1>6. CASE ReaderAsks
  BY <1>0, <1>6, ReaderAsksMoves, MovedWaits
<1> QED BY <1>1, <1>2, <1>3, <1>4, <1>5, <1>6 DEF Next

LEMMA WInvInit == Init => WInv
<1> SUFFICES ASSUME Init, NEW i \in Ids PROVE Recorded(i) /\ Patient(i) /\ Announced(i)
  BY DEF WInv
<1>1. running = Procs /\ named[i] \in Procs \cup {None}
  BY TInvInit DEF Init, TInv, Numbered
<1>2. /\ Known(i) => ~far[i].waiting
      /\ ~Known(i) => far[i] = None
      /\ record[i] = None <=> named[i] = None
  BY Opening
<1> QED BY <1>1, <1>2 DEF Recorded, Patient, Announced, OnRecord

\* Whoever waits is told: once a process has ended, a handle that waits for its end and
\* wants to hear of it has the end, or a word that changes what it wants, under way
\* (remote-process.ts:316-340, 380-389; process-streams.ts:203-216).
THEOREM RefsWaitAnswered == Spec => []WaitAnswered
<1>1. Spec => [](TInv /\ OneMeaning /\ WInv)
  BY TInvInit, TInvNext, OneMeaningInit, OneMeaningNext, LInvInit, LInvNext,
     AInvInit, AInvNext, WInvInit, WInvNext, PTL DEF Spec
<1>2. TInv /\ OneMeaning /\ WInv => WaitAnswered
  BY WInvIsWaitAnswered
<1> QED BY <1>1, <1>2, PTL

---------------------------------------------------------------------------
\* A handle that hears of the state has it, or has it coming.

\* A frame that says a state as it is.
Says(fr, s) == fr.v = s.v /\ fr.refOf = s.ref

\* The last word of the state under way, or else what the handle holds, is the state as
\* it is.
Current(i) ==
    /\ Lacks(toReader, News(i)) => Shows(far[i], state[named[i]])
    /\ \A fr \in LastIn(toReader, News(i)) : Says(fr, state[named[i]])

\* As long as no $release is under way, which a handle made since knows nothing of.
FInv ==
    \A i \in Ids :
        far[i] # None /\ ~far[i].released /\ named[i] # None /\ "state" \in Held(i)
            /\ Lacks(toHolder, Drops(i))
        => Current(i)

LEMMA FInvIsFresh == FInv => Fresh
<1> SUFFICES ASSUME FInv,
                    NEW i \in Ids, far[i] # None, record[i] # None, named[i] # None,
                    "state" \in record[i], ~far[i].released,
                    ~Travels(toReader, {"state"}, i),
                    ~Travels(toHolder, {"tune", "release"}, i)
             PROVE  Shows(far[i], state[named[i]])
  BY DEF Fresh, Bound
<1>1. Lacks(toHolder, Drops(i)) /\ Lacks(toReader, News(i))
  BY DEF Travels, Lacks, Drops, News
<1> QED BY <1>1 DEF FInv, Held, Current

\* What is said leaves the last word of the state as it was, or is the new one.
Keeps(i) ==
    /\ state'[named[i]] = state[named[i]]
    /\ LastIn(toReader', News(i)) \subseteq LastIn(toReader, News(i))
    /\ Lacks(toReader', News(i)) => Lacks(toReader, News(i))
Renews(i) ==
    /\ ~Lacks(toReader', News(i))
    /\ \A fr \in LastIn(toReader', News(i)) : Says(fr, state'[named[i]])

LEMMA StaysCurrent ==
    ASSUME NEW i, far' = far, named'[i] = named[i], (Current(i) /\ Keeps(i)) \/ Renews(i)
    PROVE  Current(i)'
  BY DEF Current, Keeps, Renews

LEMMA OneSaid ==
    ASSUME toReader \in Seq(Frames), toReader' \in Seq(Frames),
           NEW e, toReader' = Append(toReader, e), NEW i
    PROVE  /\ ~(e.kind = "state" /\ e.to = i) /\ state'[named[i]] = state[named[i]]
                => Keeps(i)
           /\ e.kind = "state" /\ e.to = i /\ Says(e, state'[named[i]]) => Renews(i)
<1>1. e \in Frames
  <2>1. e \in Range(toReader')
    BY RangeSaid
  <2> QED BY <2>1, RangeOf
<1>2. e \in News(i) <=> e.kind = "state" /\ e.to = i
  BY <1>1 DEF News
<1>3. CASE e \in News(i)
  <2>1. (\A fr \in LastIn(toReader', News(i)) : fr = e) /\ ~Lacks(toReader', News(i))
    BY <1>1, <1>3, LastAppend
  <2>2. e.kind = "state" /\ e.to = i
    BY <1>2, <1>3
  <2> QED BY <2>1, <2>2 DEF Renews
<1>4. CASE e \notin News(i)
  <2>1. /\ LastIn(toReader', News(i)) \subseteq LastIn(toReader, News(i))
        /\ Lacks(toReader', News(i)) => Lacks(toReader, News(i))
    BY <1>1, <1>4, LastAppend
  <2>2. ~(e.kind = "state" /\ e.to = i)
    BY <1>2, <1>4
  <2> QED BY <2>1, <2>2 DEF Keeps
<1> QED BY <1>3, <1>4

\* A change of state is said to whoever hears of it, with the state as it is then.
LEMMA SaysKeeps ==
    ASSUME TInv, TInv', HolderSays,
           NEW i \in Ids, named[i] # None, "state" \in Held(i)
    PROVE  Keeps(i) \/ Renews(i)
<1>1. /\ toReader \in Seq(Frames) /\ toReader' \in Seq(Frames) /\ Numbered /\ 0 \notin Ids
      /\ named[i] \in Procs /\ Carriers \subseteq Procs
  <2>1. 0 \notin Ids /\ Carriers \subseteq Procs
    BY DEF Ids, Procs
  <2> QED BY <2>1 DEF TInv, HolderOK, Numbered
<1>2. ASSUME NEW e, toReader' = Append(toReader, e) \/ toReader' = toReader,
             e.kind # "state" \/ e.to # i,
             state'[named[i]] = state[named[i]]
      PROVE  Keeps(i)
  <2>1. CASE toReader' = Append(toReader, e)
    BY <1>1, <1>2, <2>1, OneSaid
  <2>2. CASE toReader' = toReader
    BY <1>2, <2>2 DEF Keeps
  <2> QED BY <1>2, <2>1, <2>2
<1>3. ASSUME NEW p \in Procs, HandOver(p) PROVE Keeps(i)
  <2> DEFINE e == ToReader("message", None, 0, 0, IdFor(p), p)
  <2>1. toReader' = Append(toReader, e) /\ state' = state /\ e.kind = "message"
    BY <1>3 DEF HandOver, Say, ToReader
  <2> HIDE DEF e
  <2> QED BY <1>2, <2>1
<1>4. ASSUME NEW p \in Carriers, NEW c \in Leaves \cup {None}, Publish(p, c)
      PROVE  Keeps(i) \/ Renews(i)
  <2> DEFINE e == ToReader("state", p, number[p], state[p].v + 1, IdFor(c), c)
  <2>1. /\ state' = [state EXCEPT ![p] = [v |-> @.v + 1, ref |-> c]]
        /\ IF number[p] # 0 /\ record[number[p]] # None /\ "state" \in record[number[p]]
           THEN toReader' = Append(toReader, e) ELSE toReader' = toReader
    BY <1>4 DEF Publish, Say
  <2>2. e.kind = "state" /\ e.to = number[p] /\ e.v = state[p].v + 1 /\ e.refOf = c
    BY DEF ToReader
  <2> HIDE DEF e
  <2>3. number[p] = i <=> named[i] = p
    BY <1>1 DEF Numbered
  <2>4. state \in [Procs -> [v : Nat, ref : Leaves \cup {None}]] /\ p \in Procs
    BY <1>1 DEF TInv, HolderOK
  <2>5. CASE named[i] = p
    <3>1. number[p] # 0 /\ record[number[p]] # None /\ "state" \in record[number[p]]
      BY <1>1, <2>3, <2>5 DEF Held
    <3>2. Says(e, state'[named[i]])
      BY <2>1, <2>2, <2>4, <2>5 DEF Says
    <3> QED BY <1>1, <2>1, <2>2, <2>3, <2>5, <3>1, <3>2, OneSaid
  <2>6. CASE named[i] # p
    <3>1. state'[named[i]] = state[named[i]]
      BY <1>1, <2>1, <2>4, <2>6
    <3> QED BY <1>2, <2>1, <2>2, <2>3, <2>6, <3>1
  <2> QED BY <2>5, <2>6
<1>5. ASSUME NEW p \in Carriers, NEW c \in Leaves \cup {None}, Speak(p, c) PROVE Keeps(i)
  <2> DEFINE e == ToReader("message", p, number[p], 0, IdFor(c), c)
  <2>1. toReader' = Append(toReader, e) /\ state' = state /\ e.kind = "message"
    BY <1>5 DEF Speak, Say, ToReader
  <2> HIDE DEF e
  <2> QED BY <1>2, <2>1
<1>6. ASSUME NEW p \in Procs, End(p) PROVE Keeps(i)
  <2> DEFINE s == state[p]
             e == ToReader("exit", p, number[p], s.v, IdFor(s.ref), s.ref)
  <2>1. toReader' = Append(toReader, e) \/ toReader' = toReader
    BY <1>6 DEF End, Say
  <2>2. state' = state /\ e.kind = "exit"
    BY <1>6 DEF End, ToReader
  <2> HIDE DEF e, s
  <2> QED BY <1>2, <2>1, <2>2
<1> QED BY <1>3, <1>4, <1>5, <1>6 DEF HolderSays

LEMMA OnwardFresh ==
    ASSUME TInv, TInv', OneMeaning, LInv, FInv, HolderSays
    PROVE  FInv'
<1>1. Onward
  BY SaysOnward
<1> SUFFICES ASSUME NEW i \in Ids, far[i] # None, ~far[i].released, named'[i] # None,
                    "state" \in Held(i)', Lacks(toHolder, Drops(i))
             PROVE  Current(i)'
  BY <1>1 DEF FInv, Onward
<1>2. named'[i] = named[i] /\ far' = far
  BY <1>1, NextIsFresh DEF Onward, Books
<1>3. "state" \in Held(i)
  BY <1>1 DEF Onward, Held
<1>4. Current(i)
  BY <1>2, <1>3 DEF FInv
<1> QED BY <1>2, <1>3, <1>4, SaysKeeps, StaysCurrent

LEMMA BegunFresh ==
    ASSUME TInv, TInv', OneMeaning, LInv, FInv, Flush
    PROVE  FInv'
<1>1. PICK u : Begun(u) /\ toReader' = Append(toReader, ToReader("methods", u.proc, u.id, 0, 0, None))
  BY FlushBegins
<1> SUFFICES ASSUME NEW i \in Ids, far[i] # None, ~far[i].released, named[i] # None,
                    "state" \in Held(i)', Lacks(toHolder, Drops(i))
             PROVE  Current(i)'
  BY <1>1 DEF FInv, Begun
<1>2. Held(i)' = Held(i) /\ UNCHANGED <<far, named, state>>
  BY <1>1 DEF Begun, Held
<1>3. Current(i)
  BY <1>2 DEF FInv
<1>4. Keeps(i)
  <2> DEFINE e == ToReader("methods", u.proc, u.id, 0, 0, None)
  <2>1. e.kind = "methods" /\ toReader' = Append(toReader, e)
    BY <1>1 DEF ToReader
  <2>2. toReader \in Seq(Frames) /\ toReader' \in Seq(Frames)
    BY DEF TInv, HolderOK
  <2> HIDE DEF e
  <2> QED BY <1>2, <2>1, <2>2, OneSaid
<1> QED BY <1>2, <1>3, <1>4, StaysCurrent

\* Whoever asks for the state anew is told it; nobody else hears anything of it.
LEMMA TakesInKeeps ==
    ASSUME TInv, TInv', NEW f, TakesIn(f),
           NEW i \in Ids, named'[i] # None, "state" \in Held(i)'
    PROVE  /\ (("state" \in Held(i)) /\ Keeps(i)) \/ Renews(i)
           /\ Lacks(toHolder', Drops(i)) => Lacks(toHolder, Drops(i))
<1>1. /\ toReader \in Seq(Frames) /\ toReader' \in Seq(Frames) /\ state' = state
      /\ toHolder \in Seq(FarFrames) /\ toHolder # <<>>
      /\ f = Head(toHolder) /\ toHolder' = Tail(toHolder)
  BY DEF TInv, HolderOK, ReaderOK, TakesIn
<1>2. f \notin Drops(i)
  BY DEF TakesIn, Drops
<1>3. Lacks(toHolder', Drops(i)) => Lacks(toHolder, Drops(i))
  BY <1>1, <1>2, LastTail
<1>4. toReader' = toReader => Keeps(i)
  BY <1>1 DEF Keeps
<1>5. CASE toReader' = toReader /\ Held(i)' = Held(i)
  BY <1>3, <1>4, <1>5
<1>6. CASE ~(toReader' = toReader /\ Held(i)' = Held(i))
  <2>1. f.kind = "tune" /\ record'[f.to] = f.kinds /\ TuneTo(f.to, f.kinds)
    <3>1. f.kind # "tune" => toReader' = toReader /\ Held(i)' = Held(i)
      BY DEF TakesIn, Held
    <3>2. f.kind = "tune" /\ UNCHANGED toReader /\ record'[f.to] = record[f.to]
             => toReader' = toReader /\ Held(i)' = Held(i)
      BY DEF TakesIn, Held
    <3> QED BY <1>6, <3>1, <3>2 DEF TakesIn
  <2> DEFINE s == state[named[f.to]]
             e == ToReader("state", named[f.to], f.to, s.v, IdFor(s.ref), s.ref)
  <2>2. IF "state" \in f.kinds \ record[f.to] THEN toReader' = Append(toReader, e)
        ELSE toReader' = toReader
    BY <2>1 DEF TuneTo, Say
  <2>3. e.kind = "state" /\ e.to = f.to /\ Says(e, state[named[f.to]])
    BY DEF ToReader, Says
  <2> HIDE DEF e, s
  <2>4. CASE i = f.to
    <3>1. "state" \in f.kinds
      BY <2>1, <2>4 DEF Held
    <3>2. CASE "state" \in record[f.to] /\ record[f.to] # None
      BY <1>3, <1>4, <2>2, <2>4, <3>2 DEF Held
    <3>3. CASE "state" \notin record[f.to]
      <4>1. toReader' = Append(toReader, e) /\ Says(e, state'[named[i]])
        BY <1>1, <2>2, <2>3, <2>4, <3>1, <3>3
      <4> QED BY <1>1, <1>3, <2>3, <2>4, <4>1, OneSaid
    <3>4. record[f.to] # None
      BY <1>6, <2>1, <2>4 DEF TakesIn, Held
    <3> QED BY <3>2, <3>3, <3>4
  <2>5. CASE i # f.to
    <3>1. Held(i)' = Held(i)
      BY <2>1, <2>5 DEF TakesIn, Held
    <3>2. Keeps(i)
      BY <1>1, <1>4, <2>2, <2>3, <2>5, OneSaid
    <3> QED BY <1>3, <3>1, <3>2
  <2> QED BY <2>4, <2>5
<1> QED BY <1>5, <1>6

LEMMA TakesInFresh ==
    ASSUME TInv, TInv', OneMeaning, LInv, FInv, NEW f, TakesIn(f)
    PROVE  FInv'
<1> SUFFICES ASSUME NEW i \in Ids, far[i] # None, ~far[i].released, named'[i] # None,
                    "state" \in Held(i)', Lacks(toHolder', Drops(i))
             PROVE  Current(i)'
  BY DEF FInv, TakesIn
<1>1. far' = far /\ named'[i] = named[i]
  <2>1. i # nextId
    BY NextIsFresh
  <2> QED BY <2>1 DEF TakesIn, Books
<1>2. /\ (("state" \in Held(i)) /\ Keeps(i)) \/ Renews(i)
      /\ Lacks(toHolder, Drops(i))
  BY TakesInKeeps
<1>3. "state" \in Held(i) => Current(i)
  BY <1>1, <1>2 DEF FInv
<1> QED BY <1>1, <1>2, <1>3, StaysCurrent

LEMMA LandsFresh ==
    ASSUME AInv, FInv, SameProcess, Linked(far), toHolder \in Seq(FarFrames),
           toReader \in Seq(Frames), toReader # <<>>, toReader' = Tail(toReader),
           Lands(Head(toReader)), UNCHANGED <<holder, toHolder>>
    PROVE  FInv'
<1> DEFINE fr == Head(toReader)
<1>1. fr \in Frames /\ Lands(fr)
  OBVIOUS
<1>2. UNCHANGED <<record, state, named>>
  BY DEF holder
<1> SUFFICES ASSUME NEW i \in Ids, far'[i] # None, ~far'[i].released, named[i] # None,
                    "state" \in Held(i), Lacks(toHolder, Drops(i))
             PROVE  Current(i)'
  BY <1>2 DEF FInv, Held
<1>3. /\ LastIn(toReader', News(i)) \subseteq LastIn(toReader, News(i))
      /\ Lacks(toReader', News(i)) => \/ Lacks(toReader, News(i))
                                      \/ fr \in News(i) /\ fr \in LastIn(toReader, News(i))
  BY LastTail
<1>4. fr \in News(i) <=> fr.kind = "state" /\ fr.to = i
  BY <1>1 DEF News
<1>5. Lacks(toReader, News(i)) => fr \notin News(i)
  BY DEF Lacks
<1>9. fr.ref # 0 => Meant(Resolved(fr), fr) = fr.refOf
  <2>1. fr.ref # 0 /\ far[fr.ref] # None => far[fr.ref].of = fr.refOf
    BY DEF SameProcess, Bound
  <2>2. fr.ref \in Ids \cup {0}
    BY <1>1 DEF Frames
  <2> HIDE DEF fr
  <2> QED BY <2>1, <2>2 DEF Meant, Resolved, Linked, NewHandle
<1> HIDE DEF fr
<1>6. far[i] # None
  <2> SUFFICES ASSUME far[i] = None PROVE FALSE
    OBVIOUS
  <2>1. OnRecord(i) /\ Agrees(i)
    BY DEF AInv, OnRecord, Held
  <2>2. GivenUp(toHolder, i) /\ (Lacks(toHolder, Asking(i)) => Held(i) = {})
    BY <2>1 DEF Agrees, Wanted
  <2>3. Lacks(toHolder, Asking(i))
    BY <2>2 DEF GivenUp, Lacks, Asking
  <2> QED BY <2>2, <2>3
<1>7. /\ ~far[i].released
      /\ far'[i].version = IF fr.kind = "state" /\ fr.to = i THEN fr.v ELSE far[i].version
      /\ far'[i].holds = IF fr.kind = "state" /\ fr.to = i /\ fr.ref # 0
                         THEN fr.refOf ELSE far[i].holds
  BY <1>1, <1>6, <1>9 DEF Lands
<1>8. Current(i)
  BY <1>6, <1>7 DEF FInv
<1>10. fr.ref = 0 <=> fr.refOf = None
  BY <1>1 DEF Frames
<1>11. fr \in News(i) /\ Says(fr, state[named[i]]) => Shows(far'[i], state[named[i]])
  BY <1>4, <1>7, <1>10 DEF Says, Shows
<1>12. fr \notin News(i) /\ Shows(far[i], state[named[i]]) => Shows(far'[i], state[named[i]])
  BY <1>4, <1>7 DEF Shows
<1> QED BY <1>2, <1>3, <1>5, <1>8, <1>11, <1>12 DEF Current

LEMMA MovedFresh ==
    ASSUME FInv, toHolder \in Seq(FarFrames), Moved, UNCHANGED <<holder, toReader>>
    PROVE  FInv'
<1>1. PICK s \in Seq(FarFrames) :
        /\ toHolder' = toHolder \o s
        /\ \A i \in Ids : Untold(i, s) \/ LetGoOf(i, s) \/ Tuned(i, s)
  BY DEF Moved
<1>2. UNCHANGED <<record, state, named>>
  BY DEF holder
<1> SUFFICES ASSUME NEW i \in Ids, far'[i] # None, ~far'[i].released, named[i] # None,
                    "state" \in Held(i), Lacks(toHolder', Drops(i))
             PROVE  Current(i)'
  BY <1>2 DEF FInv, Held
<1>3. Lacks(toHolder, Drops(i))
  <2>1. /\ Lacks(s, Drops(i)) => (Lacks(toHolder', Drops(i)) => Lacks(toHolder, Drops(i)))
        /\ ~Lacks(s, Drops(i)) => ~Lacks(toHolder', Drops(i))
    BY <1>1, LastConcat
  <2> QED BY <2>1
<1>4. /\ far[i] # None /\ ~far[i].released
      /\ far'[i].version = far[i].version /\ far'[i].holds = far[i].holds
  BY <1>1 DEF Untold, LetGoOf, Tuned
<1> QED BY <1>2, <1>3, <1>4 DEF FInv, Current, Shows

LEMMA FInvNext ==
    TInv /\ TInv' /\ OneMeaning /\ LInv /\ AInv /\ FInv /\ [Next]_vars => FInv'
<1> SUFFICES ASSUME TInv, TInv', OneMeaning, LInv, AInv, FInv, [Next]_vars PROVE FInv'
  OBVIOUS
<1>0. toReader \in Seq(Frames) /\ toHolder \in Seq(FarFrames) /\ ReaderOK
  BY DEF TInv, HolderOK, ReaderOK
<1>1. CASE UNCHANGED vars
  BY <1>1 DEF FInv, Current, Held, vars, holder, reader
<1>2. CASE HolderSays
  BY <1>2, OnwardFresh
<1>3. CASE Flush
  BY <1>3, BegunFresh
<1>4. CASE HolderGets
  BY <1>4, HolderTakesIn, TakesInFresh
<1>5. CASE ReaderGets
  <2>1. UNCHANGED <<holder, toHolder>> /\ toReader # <<>> /\ toReader' = Tail(toReader)
    BY <1>5 DEF ReaderGets
  <2>2. SameProcess
    BY OneMeaningIsSameProcess
  <2> QED BY <1>0, <1>5, <2>1, <2>2, ReaderGetsLands, LandsFresh DEF ReaderOK
<1>6. CASE ReaderAsks
  BY <1>0, <1>6, ReaderAsksMoves, MovedFresh
<1> QED BY <1>1, <1>2, <1>3, <1>4, <1>5, <1>6 DEF Next

LEMMA FInvInit == Init => FInv
<1> SUFFICES ASSUME Init, NEW i \in Ids, far[i] # None, named[i] # None PROVE Current(i)
  BY DEF FInv
<1>1. far[i].version = 1
  BY Opening
<1>2. named[i] \in Procs
  BY TInvInit DEF TInv, Numbered
<1>3. state[named[i]].v = 1 /\ state[named[i]].ref = None
  BY <1>2 DEF Init
<1>4. toReader = <<>>
  BY DEF Init
<1>5. DOMAIN toReader = {}
  BY <1>4
<1> QED BY <1>1, <1>3, <1>5 DEF Current, LastIn, Shows

\* A handle that hears of the state and has no word of it under way holds every field the
\* process has as the process has it, however often it fell silent and asked again
\* (process-streams.ts:169-190, remote-process.ts:453-459).
THEOREM RefsFresh == Spec => []Fresh
<1>1. TInv /\ [Next]_vars => TInv'
  BY TInvNext
<1>2. Spec => []FInv
  BY <1>1, TInvInit, OneMeaningInit, OneMeaningNext, LInvInit, LInvNext,
     AInvInit, AInvNext, FInvInit, FInvNext, PTL DEF Spec
<1> QED BY <1>2, FInvIsFresh, PTL
=============================================================================
