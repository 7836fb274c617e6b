-------------------------- MODULE TreeHandoffProof --------------------------
(***************************************************************************)
(* The handoff of orphans in a tree where nobody calls monitor(): a process *)
(* has one place, and what it sent up is given to its owners' reducers once *)
(* and in order.  Through monitor() both fail (README, known divergences).  *)
(***************************************************************************)
EXTENDS TreeProof

-----------------------------------------------------------------------------
(* What a box says, and how the steps that build boxes change it.            *)

\* es has an entry of s; an entry of x that names s as an orphan; an entry that names
\* s; one such entry at most; the EXIT of s.
Says(es, s) == \E i \in DOMAIN es : es[i].from = s
Names(es, x, s) == \E i \in DOMAIN es : es[i].from = x /\ s \in es[i].orphans
Named(es, s) == \E i \in DOMAIN es : s \in es[i].orphans
Once(es, s) == \A i, j \in DOMAIN es : s \in es[i].orphans /\ s \in es[j].orphans => i = j
Exited(es, s) == \E i \in DOMAIN es : es[i].from = s /\ es[i].n = 0

\* Nothing came through monitor(), and only an EXIT carries orphans.
Plain(es) == \A i \in DOMAIN es : es[i].own /\ (es[i].n # 0 => es[i].orphans = {})
Sole(es, r) == \A i \in DOMAIN es : es[i].from = r

LEMMA BoxEmpty ==
    /\ \A s : ~Says(<<>>, s) /\ ~Named(<<>>, s) /\ Once(<<>>, s) /\ ~Exited(<<>>, s) /\ Sole(<<>>, s)
    /\ \A x, s : ~Names(<<>>, x, s)
    /\ Plain(<<>>)
BY DEF Says, Names, Named, Once, Exited, Plain, Sole

LEMMA BoxOne ==
    ASSUME NEW e \in Entry
    PROVE  /\ <<e>> \in Seq(Entry)
           /\ \A s : Says(<<e>>, s) <=> s = e.from
           /\ \A x, s : Names(<<e>>, x, s) <=> x = e.from /\ s \in e.orphans
           /\ \A s : Named(<<e>>, s) <=> s \in e.orphans
           /\ \A s : Once(<<e>>, s)
           /\ \A s : Exited(<<e>>, s) <=> s = e.from /\ e.n = 0
           /\ Plain(<<e>>) <=> e.own /\ (e.n # 0 => e.orphans = {})
           /\ \A r : Sole(<<e>>, r) <=> r = e.from
<1>1. <<e>> \in Seq(Entry) /\ DOMAIN <<e>> = {1} /\ <<e>>[1] = e
  OBVIOUS
<1> DEFINE es == <<e>>
<1> HIDE DEF es
<1>2. es \in Seq(Entry) /\ DOMAIN es = {1} /\ es[1] = e
  BY <1>1 DEF es
<1>3. \A s : Says(es, s) <=> s = e.from
  BY <1>2 DEF Says
<1>4. \A x, s : Names(es, x, s) <=> x = e.from /\ s \in e.orphans
  BY <1>2 DEF Names
<1>5. \A s : Named(es, s) <=> s \in e.orphans
  BY <1>2 DEF Named
<1>6. \A s : Once(es, s)
  BY <1>2 DEF Once
<1>7. \A s : Exited(es, s) <=> s = e.from /\ e.n = 0
  BY <1>2 DEF Exited
<1>8. Plain(es) <=> e.own /\ (e.n # 0 => e.orphans = {})
  BY <1>2 DEF Plain
<1>9. \A r : Sole(es, r) <=> r = e.from
  BY <1>2 DEF Sole
<1> QED BY <1>2, <1>3, <1>4, <1>5, <1>6, <1>7, <1>8, <1>9 DEF es

LEMMA BoxConcat ==
    ASSUME NEW es \in Seq(Entry), NEW fs \in Seq(Entry)
    PROVE  /\ es \o fs \in Seq(Entry)
           /\ \A s : Says(es \o fs, s) <=> Says(es, s) \/ Says(fs, s)
           /\ \A x, s : Names(es \o fs, x, s) <=> Names(es, x, s) \/ Names(fs, x, s)
           /\ \A s : Named(es \o fs, s) <=> Named(es, s) \/ Named(fs, s)
           /\ \A s : Once(es, s) /\ Once(fs, s) /\ ~(Named(es, s) /\ Named(fs, s)) => Once(es \o fs, s)
           /\ \A s : Exited(es \o fs, s) <=> Exited(es, s) \/ Exited(fs, s)
           /\ Plain(es) /\ Plain(fs) => Plain(es \o fs)
           /\ \A r : Sole(es, r) /\ Sole(fs, r) => Sole(es \o fs, r)
<1> DEFINE gs == es \o fs
<1>1. /\ gs \in Seq(Entry) /\ Len(es) \in Nat
      /\ DOMAIN es = 1..Len(es) /\ DOMAIN fs = 1..Len(fs) /\ DOMAIN gs = 1..(Len(es) + Len(fs))
      /\ Len(fs) \in Nat
      /\ \A i \in DOMAIN es : i \in DOMAIN gs /\ gs[i] = es[i]
      /\ \A i \in DOMAIN fs : Len(es) + i \in DOMAIN gs /\ gs[Len(es) + i] = fs[i]
      /\ \A i \in DOMAIN gs : i \in DOMAIN es \/ i - Len(es) \in DOMAIN fs
      /\ \A i \in DOMAIN gs : i \notin DOMAIN es => gs[i] = fs[i - Len(es)]
  BY ONLY es \in Seq(Entry), fs \in Seq(Entry), ConcatIndices
<1> HIDE DEF gs
<1>i. /\ \A i \in DOMAIN es : \E k \in DOMAIN gs : gs[k] = es[i]
      /\ \A i \in DOMAIN fs : \E k \in DOMAIN gs : gs[k] = fs[i]
  BY <1>1
<1>o. ASSUME NEW k \in DOMAIN gs
      PROVE  (\E i \in DOMAIN es : gs[k] = es[i]) \/ (\E i \in DOMAIN fs : gs[k] = fs[i])
  <2>1. CASE k \in DOMAIN es
    BY <1>1, <2>1
  <2>2. CASE k \notin DOMAIN es
    BY <1>1, <2>2
  <2> QED BY <2>1, <2>2
<1>2. \A s : Says(gs, s) <=> Says(es, s) \/ Says(fs, s)
  BY ONLY <1>i, <1>o DEF Says
<1>3. \A x, s : Names(gs, x, s) <=> Names(es, x, s) \/ Names(fs, x, s)
  BY ONLY <1>i, <1>o DEF Names
<1>4. \A s : Named(gs, s) <=> Named(es, s) \/ Named(fs, s)
  BY ONLY <1>i, <1>o DEF Named
<1>5. ASSUME NEW s, Once(es, s), Once(fs, s), ~(Named(es, s) /\ Named(fs, s))
      PROVE  Once(gs, s)
  <2> SUFFICES ASSUME NEW i \in DOMAIN gs, NEW j \in DOMAIN gs, s \in gs[i].orphans, s \in gs[j].orphans
               PROVE  i = j
    BY DEF Once
  <2>1. CASE i \in DOMAIN es /\ j \in DOMAIN es
    BY <1>1, <1>5, <2>1 DEF Once
  <2>2. CASE i \notin DOMAIN es /\ j \notin DOMAIN es
    <3>1. i - Len(es) \in DOMAIN fs /\ j - Len(es) \in DOMAIN fs
      BY <1>1, <2>2
    <3>2. s \in fs[i - Len(es)].orphans /\ s \in fs[j - Len(es)].orphans
      BY <1>1, <2>2
    <3>3. i - Len(es) = j - Len(es)
      BY <1>5, <3>1, <3>2 DEF Once
    <3>4. i \in Int /\ j \in Int
      BY <1>1
    <3> QED BY <1>1, <3>3, <3>4
  <2>3. CASE i \in DOMAIN es /\ j \notin DOMAIN es
    BY <1>1, <1>5, <2>3 DEF Named
  <2>4. CASE i \notin DOMAIN es /\ j \in DOMAIN es
    BY <1>1, <1>5, <2>4 DEF Named
  <2> QED BY <2>1, <2>2, <2>3, <2>4
<1>6. \A s : Exited(gs, s) <=> Exited(es, s) \/ Exited(fs, s)
  BY ONLY <1>i, <1>o DEF Exited
<1>7. Plain(es) /\ Plain(fs) => Plain(gs)
  BY ONLY <1>o DEF Plain
<1>8. \A r : Sole(es, r) /\ Sole(fs, r) => Sole(gs, r)
  BY ONLY <1>o DEF Sole
<1> QED BY <1>1, <1>2, <1>3, <1>4, <1>5, <1>6, <1>7, <1>8 DEF gs

\* One more entry.
LEMMA BoxAdd ==
    ASSUME NEW es \in Seq(Entry), NEW e \in Entry
    PROVE  /\ es \o <<e>> \in Seq(Entry)
           /\ \A s : Says(es \o <<e>>, s) <=> Says(es, s) \/ s = e.from
           /\ \A x, s : Names(es \o <<e>>, x, s) <=> Names(es, x, s) \/ (x = e.from /\ s \in e.orphans)
           /\ \A s : Named(es \o <<e>>, s) <=> Named(es, s) \/ s \in e.orphans
           /\ \A s : Once(es, s) /\ ~(Named(es, s) /\ s \in e.orphans) => Once(es \o <<e>>, s)
           /\ \A s : Exited(es \o <<e>>, s) <=> Exited(es, s) \/ (s = e.from /\ e.n = 0)
           /\ Plain(es) /\ e.own /\ (e.n # 0 => e.orphans = {}) => Plain(es \o <<e>>)
           /\ Sole(es, e.from) => Sole(es \o <<e>>, e.from)
<1> DEFINE fs == <<e>>
<1>1. /\ fs \in Seq(Entry)
      /\ \A s : Says(fs, s) <=> s = e.from
      /\ \A x, s : Names(fs, x, s) <=> x = e.from /\ s \in e.orphans
      /\ \A s : Named(fs, s) <=> s \in e.orphans
      /\ \A s : Once(fs, s)
      /\ \A s : Exited(fs, s) <=> s = e.from /\ e.n = 0
      /\ Plain(fs) <=> e.own /\ (e.n # 0 => e.orphans = {})
      /\ \A r : Sole(fs, r) <=> r = e.from
  BY BoxOne
<1> HIDE DEF fs
<1> DEFINE gs == es \o fs
<1>2. /\ gs \in Seq(Entry)
      /\ \A s : Says(gs, s) <=> Says(es, s) \/ Says(fs, s)
      /\ \A x, s : Names(gs, x, s) <=> Names(es, x, s) \/ Names(fs, x, s)
      /\ \A s : Named(gs, s) <=> Named(es, s) \/ Named(fs, s)
      /\ \A s : Once(es, s) /\ Once(fs, s) /\ ~(Named(es, s) /\ Named(fs, s)) => Once(gs, s)
      /\ \A s : Exited(gs, s) <=> Exited(es, s) \/ Exited(fs, s)
      /\ Plain(es) /\ Plain(fs) => Plain(gs)
      /\ \A r : Sole(es, r) /\ Sole(fs, r) => Sole(gs, r)
  BY <1>1, BoxConcat
<1> HIDE DEF gs
<1>3. /\ gs \in Seq(Entry)
      /\ \A s : Says(gs, s) <=> Says(es, s) \/ s = e.from
      /\ \A x, s : Names(gs, x, s) <=> Names(es, x, s) \/ (x = e.from /\ s \in e.orphans)
      /\ \A s : Named(gs, s) <=> Named(es, s) \/ s \in e.orphans
      /\ \A s : Once(es, s) /\ ~(Named(es, s) /\ s \in e.orphans) => Once(gs, s)
  BY <1>1, <1>2
<1>4. /\ \A s : Exited(gs, s) <=> Exited(es, s) \/ (s = e.from /\ e.n = 0)
      /\ Plain(es) /\ e.own /\ (e.n # 0 => e.orphans = {}) => Plain(gs)
      /\ Sole(es, e.from) => Sole(gs, e.from)
  BY <1>1, <1>2
<1> QED BY <1>3, <1>4 DEF gs, fs

LEMMA BoxTail ==
    ASSUME NEW es \in Seq(Entry), es # <<>>
    PROVE  /\ Tail(es) \in Seq(Entry) /\ Head(es) \in Entry
           /\ \A s : Says(Tail(es), s) => Says(es, s)
           /\ Says(es, Head(es).from)
           /\ \A x, s : Names(Tail(es), x, s) => Names(es, x, s)
           /\ \A s : Named(Tail(es), s) => Named(es, s)
           /\ \A s : s \in Head(es).orphans => Named(es, s)
           /\ \A s : Once(es, s) => Once(Tail(es), s)
           /\ \A s : Once(es, s) /\ s \in Head(es).orphans => ~Named(Tail(es), s)
           /\ \A s : Exited(Tail(es), s) => Exited(es, s)
           /\ Plain(es) => Plain(Tail(es))
<1> DEFINE ts == Tail(es)
           h == Head(es)
<1>1. /\ Len(es) \in Nat /\ Len(es) >= 1 /\ DOMAIN es = 1..Len(es)
      /\ DOMAIN ts = 1..(Len(es) - 1) /\ h = es[1]
      /\ \A i \in 1..(Len(es) - 1) : ts[i] = es[i + 1]
      /\ ts \in Seq(Entry) /\ h \in Entry
  OBVIOUS
<1> HIDE DEF ts, h
<1>2. \A i \in DOMAIN ts : i \in Nat /\ i + 1 \in DOMAIN es /\ i + 1 # 1 /\ ts[i] = es[i + 1]
  BY <1>1
<1>3. 1 \in DOMAIN es /\ h = es[1]
  BY <1>1
<1>4. \A s : Says(ts, s) => Says(es, s)
  BY <1>2 DEF Says
<1>5. Says(es, h.from)
  BY <1>3 DEF Says
<1>6. \A x, s : Names(ts, x, s) => Names(es, x, s)
  BY <1>2 DEF Names
<1>7. \A s : Named(ts, s) => Named(es, s)
  BY <1>2 DEF Named
<1>8. \A s : s \in h.orphans => Named(es, s)
  BY <1>3 DEF Named
<1>9. ASSUME NEW s, Once(es, s) PROVE Once(ts, s)
  <2> SUFFICES ASSUME NEW i \in DOMAIN ts, NEW j \in DOMAIN ts, s \in ts[i].orphans, s \in ts[j].orphans
               PROVE  i = j
    BY DEF Once
  <2>1. i \in Nat /\ j \in Nat /\ i + 1 = j + 1
    BY <1>2, <1>9 DEF Once
  <2> QED BY <2>1
<1>10. ASSUME NEW s, Once(es, s), s \in h.orphans, NEW i \in DOMAIN ts PROVE s \notin ts[i].orphans
  BY <1>2, <1>3, <1>10 DEF Once
<1>11. \A s : Once(es, s) /\ s \in h.orphans => ~Named(ts, s)
  BY <1>10 DEF Named
<1>12. \A s : Exited(ts, s) => Exited(es, s)
  BY <1>2 DEF Exited
<1>13. Plain(es) => Plain(ts)
  BY <1>2 DEF Plain
<1> QED BY <1>1, <1>4, <1>5, <1>6, <1>7, <1>8, <1>9, <1>11, <1>12, <1>13 DEF ts, h

LEMMA BoxPart ==
    ASSUME NEW es \in Seq(Entry), NEW S
    PROVE  LET ps == Picked(es, From(es, S)) IN
           /\ ps \in Seq(Entry)
           /\ \A s : Says(ps, s) => Says(es, s) /\ s \in S
           /\ \A x, s : Names(ps, x, s) => Names(es, x, s) /\ x \in S
           /\ \A s : Named(ps, s) => \E x \in S : Names(es, x, s)
           /\ \A s : Once(es, s) => Once(ps, s)
           /\ \A s : Exited(ps, s) => Exited(es, s)
           /\ Plain(es) => Plain(ps)
<1> DEFINE I == From(es, S)
           ps == Picked(es, I)
           n == Cardinality(I)
<1>1. I \in SUBSET DOMAIN es /\ ps \in Seq(Entry)
  BY PartType
<1>2. \A i \in I : es[i].from \in S
  BY DEF From
<1> HIDE DEF I
<1>2a. /\ DOMAIN ps = 1..n /\ n \in Nat
       /\ \E at \in [1..n -> I] : /\ \A i, j \in 1..n : i < j => at[i] < at[j]
                                 /\ \A k \in 1..n : ps[k] = es[at[k]]
  BY ONLY es \in Seq(Entry), <1>1, PickedFacts
<1>3. PICK at \in [1..n -> I] :
         /\ \A i, j \in 1..n : i < j => at[i] < at[j]
         /\ \A k \in 1..n : ps[k] = es[at[k]]
  BY <1>2a
<1>4. DOMAIN ps = 1..n /\ n \in Nat
  BY <1>2a
<1> HIDE DEF ps, n
<1>5. \A k \in DOMAIN ps : at[k] \in DOMAIN es /\ es[at[k]].from \in S /\ ps[k] = es[at[k]]
  BY <1>1, <1>2, <1>3, <1>4
<1>6. \A s : Says(ps, s) => Says(es, s) /\ s \in S
  BY <1>5 DEF Says
<1>7. \A x, s : Names(ps, x, s) => Names(es, x, s) /\ x \in S
  BY <1>5 DEF Names
<1>8. \A s : Named(ps, s) => \E x \in S : Names(es, x, s)
  BY <1>5 DEF Named, Names
<1>9. ASSUME NEW s, Once(es, s) PROVE Once(ps, s)
  <2> SUFFICES ASSUME NEW i \in DOMAIN ps, NEW j \in DOMAIN ps, s \in ps[i].orphans, s \in ps[j].orphans
               PROVE  i = j
    BY DEF Once
  <2>1. at[i] = at[j]
    BY <1>5, <1>9 DEF Once
  <2>2. i \in Nat /\ j \in Nat /\ at[i] \in Nat
    <3>1. at[i] \in DOMAIN es
      BY <1>5
    <3> QED BY <1>4, <3>1
  <2>3. ~(i < j) /\ ~(j < i)
    BY <1>3, <1>4, <2>1, <2>2
  <2> QED BY <2>2, <2>3
<1>10. \A s : Exited(ps, s) => Exited(es, s)
  BY <1>5 DEF Exited
<1>11. Plain(es) => Plain(ps)
  BY <1>5 DEF Plain
<1> QED BY <1>1, <1>6, <1>7, <1>8, <1>9, <1>10, <1>11 DEF ps, I

\* An EXIT is an entry; who names orphans has said EXIT; two entries that name the
\* same orphan are one.
LEMMA BoxFacts ==
    ASSUME NEW es \in Seq(Entry)
    PROVE  /\ \A s : Exited(es, s) => Says(es, s)
           /\ \A x, s : Names(es, x, s) => Named(es, s)
           /\ Plain(es) => \A x, s : Names(es, x, s) => Exited(es, x)
           /\ \A x, y, s : Once(es, s) /\ Names(es, x, s) /\ Names(es, y, s) => x = y
           /\ Plain(es) => \A s : Named(es, s) <=> s \in Left(es)
           /\ \A r : Sole(es, r) => \A s : Says(es, s) => s = r
           /\ \A s : Exited(es, s) => ExitIn(es) # {}
<1>1. \A s : Exited(es, s) => Says(es, s)
  BY DEF Exited, Says
<1>2. \A x, s : Names(es, x, s) => Named(es, s)
  BY DEF Names, Named
<1>3. ASSUME Plain(es), NEW x, NEW s, Names(es, x, s) PROVE Exited(es, x)
  <2>1. PICK i \in DOMAIN es : es[i].from = x /\ s \in es[i].orphans
    BY <1>3 DEF Names
  <2>2. es[i].n = 0
    BY <1>3, <2>1 DEF Plain
  <2> QED BY <2>1, <2>2 DEF Exited
<1>4. \A x, y, s : Once(es, s) /\ Names(es, x, s) /\ Names(es, y, s) => x = y
  BY DEF Once, Names
<1>5. ASSUME Plain(es), NEW s PROVE Named(es, s) <=> s \in Left(es)
  <2>1. \A i \in DOMAIN es : s \in es[i].orphans => es[i].n = 0
    BY <1>5 DEF Plain
  <2> QED BY <2>1, LeftType DEF Named
<1>6. \A r : Sole(es, r) => \A s : Says(es, s) => s = r
  BY DEF Sole, Says
<1>7. \A s : Exited(es, s) => ExitIn(es) # {}
  BY LeftType DEF Exited
<1> QED BY <1>1, <1>2, <1>3, <1>4, <1>5, <1>6, <1>7

-----------------------------------------------------------------------------
(* One place.  A process is at whoever subscribes to it, and at a process that *)
(* still acts and has it in a book, or has read nothing yet of what it said;   *)
(* or it is named in a buffer and waits for the one that adopts its carrier.   *)

Active(p) == st[p] \in {"running", "ending"}

Booked(s, p) ==
    \/ s \in children[p] \/ s \in orphans[p] \/ s \in awaiting[p] \/ s \in handing[p]
    \/ Says(inbox[p], s)
At(s, p) == s \in owned[p] \/ (Active(p) /\ Booked(s, p))

Unwatched ==
    \A p \in Procs : watched[p] = {} /\ Plain(inbox[p]) /\ Plain(pending[p]) /\ Sole(pending[p], p)

\* Nobody has two places, those that wait have none, and wait once.
OnePlace == \A s, p, q \in Procs : At(s, p) /\ At(s, q) => p = q
WaitsNowhere == \A s, x, p \in Procs : Named(pending[x], s) => ~At(s, p)
WaitsOnce ==
    \A s, x \in Procs :
        /\ Once(pending[x], s)
        /\ \A y \in Procs : Named(pending[x], s) /\ Named(pending[y], s) => x = y

\* Whom an unread EXIT names is listed, undecided yet, and named once.
NamedOnce ==
    \A p, s \in Procs : Active(p) =>
        /\ Once(inbox[p], s)
        /\ Named(inbox[p], s) => s \in orphans[p] /\ s \notin deciding[p]

Decided == \A p \in Procs : IF st[p] = "running" THEN deciding[p] \subseteq orphans[p] ELSE deciding[p] = {}

Apart == \A p, s \in Procs : Active(p) /\ s \in orphans[p] => s \notin children[p] /\ s \notin owned[p]

\* Whoever has said EXIT is in no list; a process that ends hands up the one that
\* said EXIT or those it left, never both.
HandsUp(s, p) == s \in handing[p] \/ s \in awaiting[p]
Leaving ==
    \A p \in Procs :
        /\ st[p] = "running" => \A s \in Procs :
              Exited(inbox[p], s) => s \notin children[p] /\ s \notin orphans[p]
        /\ st[p] = "ending" => \A x, s \in Procs :
              Names(inbox[p], x, s) => ~(HandsUp(x, p) /\ HandsUp(s, p))

\* Only a process in its finally block awaits anybody.
Awaited == \A p \in Procs : st[p] # "ending" => awaiting[p] = {}

Collecting == \A r, p \in Procs : collector[r] => r \notin owned[p]

Places ==
    /\ Unwatched /\ OnePlace /\ WaitsNowhere /\ WaitsOnce /\ NamedOnce /\ Decided /\ Apart
    /\ Leaving /\ Collecting /\ Awaited

\* What Places says of one owner.
LEMMA PlacesSingle == Places => SingleOwner
<1> SUFFICES ASSUME Places, NEW r \in Procs, Live(r)
             PROVE  /\ \A p, q \in Holders(r) : p = q
                    /\ \A p \in Holders(r) : r \notin children[p] \cap orphans[p]
                    /\ \A p, q \in Owners(r) : p = q
                    /\ collector[r] => Owners(r) = {}
  BY DEF SingleOwner
<1>1. \A p \in Holders(r) : p \in Procs /\ At(r, p) /\ Active(p)
  BY DEF Holders, At, Booked, Active, Live
<1>2. \A p \in Owners(r) : p \in Procs /\ At(r, p) /\ r \in owned[p]
  BY DEF Owners, At
<1>3. \A p \in Holders(r) : r \notin children[p] \cap orphans[p]
  BY <1>1 DEF Places, Apart
<1>4. collector[r] => Owners(r) = {}
  BY <1>2 DEF Places, Collecting
<1> QED BY <1>1, <1>2, <1>3, <1>4 DEF Places, OnePlace

\* What telling and collecting come to without monitors.
LEMMA ToldTree ==
    ASSUME TypeOK, Unwatched, NEW boxes \in Boxes, NEW e \in Entry, NEW p \in Procs
    PROVE  Told(boxes, e)[p] =
              IF e.from \in owned[p] /\ ~dead[p] THEN boxes[p] \o <<e>> ELSE boxes[p]
<1>1. watched[p] = {}
  BY DEF Unwatched
<1> DEFINE a == IF e.from \in owned[p] /\ ~dead[p] THEN <<e>> ELSE <<>>
<1>2. Copies(p, e) = a \o <<>>
  BY <1>1 DEF Copies
<1>3. a \in Seq(Entry)
  OBVIOUS
<1> HIDE DEF a
<1>4. Copies(p, e) = a
  BY <1>2, <1>3
<1>5. boxes[p] \in Seq(Entry)
  BY DEF Boxes
<1>6. boxes[p] \o <<>> = boxes[p]
  BY <1>5
<1>7. Told(boxes, e)[p] = boxes[p] \o a
  BY <1>4, ToldType
<1> QED BY <1>6, <1>7 DEF a

LEMMA CollectedTree ==
    ASSUME NEW held \in Boxes, NEW e \in Entry, NEW p \in Procs
    PROVE  Collected(held, e)[p] =
              IF p = e.from /\ collector[p] THEN held[p] \o <<e>> ELSE held[p]
<1>1. e.from \in Procs
  BY DEF Entry
<1>2. held[p] \in Seq(Entry)
  BY DEF Boxes
<1>3. Append(held[p], e) = held[p] \o <<e>>
  BY <1>2
<1> QED BY <1>1, <1>3 DEF Collected, Boxes

LEMMA UnreadTree ==
    ASSUME TypeOK, Unwatched, NEW p \in Procs, NEW r \in Procs
    PROVE  Unread(p, r) = Picked(inbox[p], From(inbox[p], {r}))
<1> DEFINE es == Picked(inbox[p], From(inbox[p], {r}))
<1>1. inbox[p] \in Seq(Entry)
  BY DEF TypeOK, Boxes
<1>2. es \in Seq(Entry) /\ Plain(es)
  <2>1. Plain(inbox[p])
    BY DEF Unwatched
  <2> QED BY <1>1, <2>1, BoxPart
<1>3. Unread(p, r) = [i \in DOMAIN es |-> [es[i] EXCEPT !.own = TRUE]]
  BY DEF Unread
<1> HIDE DEF es
<1>4. ASSUME NEW i \in DOMAIN es PROVE [es[i] EXCEPT !.own = TRUE] = es[i]
  <2>1. es[i] \in Entry /\ es[i].own
    BY <1>2 DEF Plain
  <2>2. es[i].own = TRUE
    BY <2>1 DEF Entry
  <2> QED BY <2>1, <2>2 DEF Entry
<1>5. es = [i \in DOMAIN es |-> es[i]]
  BY <1>2
<1> QED BY <1>3, <1>4, <1>5 DEF es

\* Where nothing gets a new place, the places stay single.
LEMMA FewerPlaces ==
    ASSUME Places, \A s, p \in Procs : At(s, p)' => At(s, p),
           \A s, x \in Procs : /\ Named(pending'[x], s) => Named(pending[x], s)
                               /\ Once(pending[x], s) => Once(pending'[x], s)
    PROVE  OnePlace' /\ WaitsNowhere' /\ WaitsOnce'
<1>1. OnePlace'
  BY DEF OnePlace, Places
<1>2. WaitsNowhere'
  BY DEF WaitsNowhere, Places
<1>3. WaitsOnce'
  BY DEF WaitsOnce, Places
<1> QED BY <1>1, <1>2, <1>3

LEMMA InitPlaces == TreeAssumption /\ Init => Places
<1> SUFFICES ASSUME TreeAssumption, Init PROVE Places
  OBVIOUS
<1>1. \A p \in Procs : /\ children[p] = {} /\ orphans[p] = {} /\ owned[p] = {} /\ watched[p] = {}
                       /\ deciding[p] = {} /\ awaiting[p] = {} /\ handing[p] = {}
                       /\ inbox[p] = <<>> /\ pending[p] = <<>> /\ ~collector[p]
  BY DEF Init, Nobody, Nothing
<1>2. \A s, p \in Procs : ~At(s, p)
  BY <1>1, BoxEmpty DEF At, Booked
<1>3. Unwatched
  BY <1>1, BoxEmpty DEF Unwatched
<1>4. OnePlace /\ WaitsNowhere /\ WaitsOnce
  BY <1>1, <1>2, BoxEmpty DEF OnePlace, WaitsNowhere, WaitsOnce
<1>5. NamedOnce /\ Decided /\ Apart
  BY <1>1, BoxEmpty DEF NamedOnce, Decided, Apart
<1>6. Leaving /\ Collecting /\ Awaited
  BY <1>1, BoxEmpty DEF Leaving, Collecting, Awaited
<1> QED BY <1>3, <1>4, <1>5, <1>6 DEF Places

LEMMA EmitPlaces ==
    ASSUME TreeAssumption, TypeOK, Places, NEW p \in Procs, Emit(p)
    PROVE  Places'
<1> DEFINE e == Message(p, emitted[p] + 1, {})
<1>1. e \in Entry /\ e.from = p /\ e.orphans = {} /\ e.own /\ e.n # 0
  <2>1. emitted[p] + 1 \in 0..MaxEmits /\ emitted[p] + 1 # 0
    BY DEF Emit, TypeOK, TreeAssumption
  <2> QED BY <2>1, MessageType DEF Message
<1>2. inbox' = Told(inbox, e) /\ pending' = Collected(pending, e)
  BY DEF Emit
<1>3. UNCHANGED <<st, dead, children, orphans, owned, watched, collector, deciding, awaiting, handing>>
  BY DEF Emit, family
<1> HIDE DEF e
<1>5. Unwatched
  BY DEF Places
<1>6. \A q \in Procs : inbox'[q] = IF p \in owned[q] /\ ~dead[q] THEN inbox[q] \o <<e>> ELSE inbox[q]
  BY <1>1, <1>2, <1>5, ToldTree DEF TypeOK
<1>7. \A q \in Procs : pending'[q] = IF q = p /\ collector[q] THEN pending[q] \o <<e>> ELSE pending[q]
  BY <1>1, <1>2, CollectedTree DEF TypeOK
<1>8. \A q \in Procs : inbox[q] \in Seq(Entry) /\ pending[q] \in Seq(Entry)
  BY DEF TypeOK, Boxes
<1>9. ASSUME NEW q \in Procs
      PROVE  /\ \A s : Says(inbox'[q], s) => Says(inbox[q], s) \/ (s = p /\ p \in owned[q])
             /\ \A x, s : Names(inbox'[q], x, s) => Names(inbox[q], x, s)
             /\ \A s : /\ Named(inbox'[q], s) => Named(inbox[q], s)
                       /\ Once(inbox[q], s) => Once(inbox'[q], s)
                       /\ Exited(inbox'[q], s) => Exited(inbox[q], s)
             /\ Plain(inbox[q]) => Plain(inbox'[q])
  <2>1. CASE p \in owned[q] /\ ~dead[q]
    <3>1. inbox'[q] = inbox[q] \o <<e>> /\ inbox[q] \in Seq(Entry)
      BY <1>6, <1>8, <2>1
    <3> DEFINE es == inbox[q]
               gs == es \o <<e>>
    <3>2. /\ \A s : /\ Says(gs, s) => Says(es, s) \/ s = p
                    /\ Named(gs, s) => Named(es, s)
                    /\ Once(es, s) => Once(gs, s)
                    /\ Exited(gs, s) => Exited(es, s)
          /\ \A x, s : Names(gs, x, s) => Names(es, x, s)
          /\ Plain(es) => Plain(gs)
          /\ Sole(es, p) => Sole(gs, p)
      <4>1. es \in Seq(Entry)
        BY <3>1
      <4> HIDE DEF es
      <4> QED BY <1>1, <4>1, BoxAdd
    <3> HIDE DEF gs
    <3> QED BY <2>1, <3>1, <3>2 DEF gs
  <2>2. CASE ~(p \in owned[q] /\ ~dead[q])
    BY <1>6, <2>2
  <2> QED BY <2>1, <2>2
<1>10. ASSUME NEW q \in Procs
       PROVE  /\ \A s : /\ Named(pending'[q], s) => Named(pending[q], s)
                        /\ Once(pending[q], s) => Once(pending'[q], s)
              /\ Plain(pending[q]) => Plain(pending'[q])
              /\ Sole(pending[q], q) => Sole(pending'[q], q)
  <2>1. CASE q = p /\ collector[q]
    <3>1. pending'[q] = pending[q] \o <<e>> /\ pending[q] \in Seq(Entry)
      BY <1>7, <1>8, <2>1
    <3> DEFINE es == pending[q]
               gs == es \o <<e>>
    <3>2. /\ \A s : /\ Says(gs, s) => Says(es, s) \/ s = p
                    /\ Named(gs, s) => Named(es, s)
                    /\ Once(es, s) => Once(gs, s)
                    /\ Exited(gs, s) => Exited(es, s)
          /\ \A x, s : Names(gs, x, s) => Names(es, x, s)
          /\ Plain(es) => Plain(gs)
          /\ Sole(es, p) => Sole(gs, p)
      <4>1. es \in Seq(Entry)
        BY <3>1
      <4> HIDE DEF es
      <4> QED BY <1>1, <4>1, BoxAdd
    <3> HIDE DEF gs
    <3> QED BY <2>1, <3>1, <3>2 DEF gs
  <2>2. CASE ~(q = p /\ collector[q])
    BY <1>7, <2>2
  <2> QED BY <2>1, <2>2
<1>11. \A s, q \in Procs : At(s, q)' => At(s, q)
  BY <1>3, <1>9 DEF At, Booked, Active
<1>12. OnePlace' /\ WaitsNowhere' /\ WaitsOnce'
  BY <1>10, <1>11, FewerPlaces
<1>13. Unwatched'
  BY <1>3, <1>5, <1>9, <1>10 DEF Unwatched
<1>14. NamedOnce'
  BY <1>3, <1>9 DEF Places, NamedOnce, Active
<1>15. Decided' /\ Apart' /\ Collecting' /\ Awaited'
  BY <1>3 DEF Places, Decided, Apart, Collecting, Awaited, Active
<1>16. Leaving'
  BY <1>3, <1>9 DEF Places, Leaving, HandsUp
<1> QED BY <1>12, <1>13, <1>14, <1>15, <1>16 DEF Places

LEMMA TakePlaces ==
    ASSUME TypeOK, Places, NEW p \in Procs, Take(p)
    PROVE  Places'
<1> DEFINE e == Head(inbox[p])
<1>1. /\ inbox' = [inbox EXCEPT ![p] = Tail(@)]
      /\ deciding' = [deciding EXCEPT ![p] = e.orphans]
      /\ st[p] = "running" /\ inbox[p] # <<>>
      /\ UNCHANGED <<st, children, orphans, owned, watched, collector, pending, awaiting, handing>>
  BY DEF Take, family
<1>2. inbox[p] \in Seq(Entry)
  BY DEF TypeOK, Boxes
<1>3. /\ \A s : /\ Says(Tail(inbox[p]), s) => Says(inbox[p], s)
                /\ Named(Tail(inbox[p]), s) => Named(inbox[p], s)
                /\ s \in e.orphans => Named(inbox[p], s)
                /\ Once(inbox[p], s) => Once(Tail(inbox[p]), s)
                /\ Once(inbox[p], s) /\ s \in e.orphans => ~Named(Tail(inbox[p]), s)
                /\ Exited(Tail(inbox[p]), s) => Exited(inbox[p], s)
      /\ \A x, s : Names(Tail(inbox[p]), x, s) => Names(inbox[p], x, s)
      /\ Plain(inbox[p]) => Plain(Tail(inbox[p]))
      /\ e \in Entry
  BY <1>1, <1>2, BoxTail
<1> HIDE DEF e
<1>4. e.orphans \in SUBSET Procs
  BY <1>3 DEF Entry
<1>5. \A q \in Procs : inbox'[q] = IF q = p THEN Tail(inbox[p]) ELSE inbox[q]
  BY <1>1 DEF TypeOK, Boxes
<1>6. \A q \in Procs : deciding'[q] = IF q = p THEN e.orphans ELSE deciding[q]
  BY <1>1 DEF TypeOK, Books
<1>7. \A s, q \in Procs : At(s, q)' => At(s, q)
  BY <1>1, <1>3, <1>5 DEF At, Booked, Active
<1>8. OnePlace' /\ WaitsNowhere' /\ WaitsOnce'
  BY <1>1, <1>7, FewerPlaces
<1>9. Unwatched'
  BY <1>1, <1>3, <1>5 DEF Places, Unwatched
<1>10. Active(p)
  BY <1>1 DEF Active
<1>11. NamedOnce'
  <2> SUFFICES ASSUME NEW q \in Procs, NEW s \in Procs, Active(q)
               PROVE  /\ Once(inbox'[q], s)
                      /\ Named(inbox'[q], s) => s \in orphans[q] /\ s \notin deciding'[q]
    BY <1>1 DEF NamedOnce, Active
  <2>1. CASE q = p
    BY <1>3, <1>5, <1>6, <1>10, <2>1 DEF Places, NamedOnce
  <2>2. CASE q # p
    BY <1>5, <1>6, <2>2 DEF Places, NamedOnce
  <2> QED BY <2>1, <2>2
<1>12. Decided'
  <2>1. e.orphans \subseteq orphans[p]
    BY <1>3, <1>4, <1>10 DEF Places, NamedOnce
  <2> QED BY <1>1, <1>6, <2>1 DEF Places, Decided
<1>13. Apart' /\ Collecting' /\ Awaited'
  BY <1>1 DEF Places, Apart, Collecting, Awaited, Active
<1>14. Leaving'
  BY <1>1, <1>3, <1>5 DEF Places, Leaving, HandsUp
<1> QED BY <1>8, <1>9, <1>11, <1>12, <1>13, <1>14 DEF Places

LEMMA WastePlaces ==
    ASSUME TypeOK, Places, NEW p \in Procs, Swallow(p) \/ Drop(p)
    PROVE  Places'
<1>1. /\ inbox' = [inbox EXCEPT ![p] = Tail(@)] /\ inbox[p] # <<>>
      /\ UNCHANGED <<st, children, orphans, owned, watched, collector, pending, deciding,
                     awaiting, handing>>
  BY DEF Swallow, Drop, Waste, family
<1>2. inbox[p] \in Seq(Entry)
  BY DEF TypeOK, Boxes
<1>3. \A q \in Procs : inbox'[q] = IF q = p THEN Tail(inbox[p]) ELSE inbox[q]
  BY <1>1 DEF TypeOK, Boxes
<1>4. \A q \in Procs :
         /\ \A s : /\ Says(inbox'[q], s) => Says(inbox[q], s)
                   /\ Named(inbox'[q], s) => Named(inbox[q], s)
                   /\ Once(inbox[q], s) => Once(inbox'[q], s)
                   /\ Exited(inbox'[q], s) => Exited(inbox[q], s)
         /\ \A x, s : Names(inbox'[q], x, s) => Names(inbox[q], x, s)
         /\ Plain(inbox[q]) => Plain(inbox'[q])
  BY <1>1, <1>2, <1>3, BoxTail
<1>5. \A s, q \in Procs : At(s, q)' => At(s, q)
  BY <1>1, <1>4 DEF At, Booked, Active
<1>6. OnePlace' /\ WaitsNowhere' /\ WaitsOnce'
  BY <1>1, <1>5, FewerPlaces
<1>7. Unwatched'
  BY <1>1, <1>4 DEF Places, Unwatched
<1>8. NamedOnce'
  BY <1>1, <1>4 DEF Places, NamedOnce, Active
<1>9. Decided' /\ Apart' /\ Collecting' /\ Awaited'
  BY <1>1 DEF Places, Decided, Apart, Collecting, Awaited, Active
<1>10. Leaving'
  BY <1>1, <1>4 DEF Places, Leaving, HandsUp
<1> QED BY <1>6, <1>7, <1>8, <1>9, <1>10 DEF Places

LEMMA ForkPlaces ==
    ASSUME TypeOK, UnbornClean, Places, NEW p \in Procs, Fork(p)
    PROVE  Places'
<1>1. PICK c \in Procs :
         /\ st[c] = "unborn"
         /\ st' = [st EXCEPT ![c] = "running"]
         /\ children' = [children EXCEPT ![p] = @ \cup {c}]
         /\ owned' = [owned EXCEPT ![p] = @ \cup {c}]
  BY DEF Fork
<1>2. /\ st[p] = "running"
      /\ UNCHANGED <<dead, orphans, watched, inbox, collector, pending, deciding, awaiting, handing>>
  BY DEF Fork, news
<1>3. Absent(c) /\ Blank(c) /\ c # p
  BY <1>1, <1>2 DEF UnbornClean
<1>4. \A q \in Procs : /\ st'[q] = IF q = c THEN "running" ELSE st[q]
                       /\ children'[q] = IF q = p THEN children[p] \cup {c} ELSE children[q]
                       /\ owned'[q] = IF q = p THEN owned[p] \cup {c} ELSE owned[q]
  BY <1>1 DEF TypeOK, Books
<1>5. \A q \in Procs : /\ ~Says(inbox[q], c) /\ ~Named(inbox[q], c) /\ ~Named(pending[q], c)
                       /\ ~Exited(inbox[q], c)
  BY <1>3 DEF Absent, Clean, Says, Named, Exited
<1>6. \A q \in Procs : ~At(c, q)
  BY <1>3, <1>5 DEF At, Booked, Absent
<1>7. \A s \in Procs : ~Booked(s, c)
  BY <1>3, BoxEmpty DEF Booked, Blank
<1>8. \A s, q \in Procs : At(s, q)' => At(s, q) \/ (s = c /\ q = p)
  <2> SUFFICES ASSUME NEW s \in Procs, NEW q \in Procs, At(s, q)' PROVE At(s, q) \/ (s = c /\ q = p)
    OBVIOUS
  <2>1. CASE q = c
    BY <1>2, <1>3, <1>4, <1>7, <2>1 DEF At, Booked
  <2>2. CASE q # c
    BY <1>2, <1>4, <2>2 DEF At, Booked, Active
  <2> QED BY <2>1, <2>2
<1>9. OnePlace'
  BY <1>6, <1>8 DEF OnePlace, Places
<1>10. WaitsNowhere'
  BY <1>2, <1>5, <1>8 DEF WaitsNowhere, Places
<1>11. WaitsOnce' /\ Unwatched'
  BY <1>2 DEF WaitsOnce, Unwatched, Places
<1>12. \A q \in Procs : Active(q)' => Active(q) \/ q = c
  BY <1>4 DEF Active
<1>13. inbox[c] = <<>> /\ orphans[c] = {} /\ deciding[c] = {}
  BY <1>3 DEF Blank
<1>14. NamedOnce'
  BY <1>2, <1>12, <1>13, BoxEmpty DEF NamedOnce, Places
<1>15. Decided'
  BY <1>2, <1>4, <1>13 DEF Decided, Places
<1>16. Apart'
  BY <1>2, <1>3, <1>4, <1>12, <1>13 DEF Apart, Places, Absent
<1>17. Leaving'
  BY <1>2, <1>3, <1>4, <1>5, <1>13, BoxEmpty DEF Leaving, HandsUp, Places
<1>18. Collecting'
  BY <1>2, <1>3, <1>4 DEF Collecting, Places, Blank
<1>19. Awaited'
  BY <1>2, <1>3, <1>4 DEF Awaited, Places, Blank
<1> QED BY <1>9, <1>10, <1>11, <1>14, <1>15, <1>16, <1>17, <1>18, <1>19 DEF Places

\* A step that takes from books and boxes and gives nothing keeps the places: whom a
\* process strikes from its orphans it was deciding about.
LEMMA TakingPlaces ==
    ASSUME Places,
           \A q \in Procs :
              /\ st'[q] = st[q] \/ (st[q] = "ending" /\ st'[q] = "ended")
              /\ children'[q] \subseteq children[q] /\ owned'[q] \subseteq owned[q]
              /\ orphans'[q] \subseteq orphans[q] /\ watched'[q] \subseteq watched[q]
              /\ deciding'[q] \subseteq deciding[q]
              /\ inbox'[q] \in {inbox[q], <<>>} /\ pending'[q] \in {pending[q], <<>>}
              /\ collector'[q] => collector[q],
           \A q, s \in Procs : HandsUp(s, q)' => HandsUp(s, q), Awaited',
           \A q \in Procs : orphans[q] \ orphans'[q] \subseteq deciding[q] \ deciding'[q]
    PROVE  Places'
<1>1. \A s, q \in Procs : At(s, q)' => At(s, q)
  <2> SUFFICES ASSUME NEW s \in Procs, NEW q \in Procs, At(s, q)' PROVE At(s, q)
    OBVIOUS
  <2>1. Active(q)' => Active(q)
    BY DEF Active
  <2>2. Booked(s, q)' => Booked(s, q)
    BY BoxEmpty DEF Booked, HandsUp
  <2> QED BY <2>1, <2>2 DEF At
<1>2. OnePlace' /\ WaitsNowhere' /\ WaitsOnce'
  BY <1>1, BoxEmpty, FewerPlaces
<1>3. Unwatched'
  BY BoxEmpty DEF Places, Unwatched
<1>4. NamedOnce'
  <2> SUFFICES ASSUME NEW q \in Procs, NEW s \in Procs, Active(q)'
               PROVE  /\ Once(inbox'[q], s)
                      /\ Named(inbox'[q], s) => s \in orphans'[q] /\ s \notin deciding'[q]
    BY DEF NamedOnce
  <2>1. Active(q)
    BY DEF Active
  <2>2. Once(inbox[q], s) /\ (Named(inbox[q], s) => s \in orphans[q] /\ s \notin deciding[q])
    BY <2>1 DEF Places, NamedOnce
  <2> QED BY <2>2, BoxEmpty
<1>5. Decided'
  <2> SUFFICES ASSUME NEW q \in Procs
               PROVE  IF st'[q] = "running" THEN deciding'[q] \subseteq orphans'[q] ELSE deciding'[q] = {}
    BY DEF Decided
  <2>1. IF st[q] = "running" THEN deciding[q] \subseteq orphans[q] ELSE deciding[q] = {}
    BY DEF Places, Decided
  <2>2. CASE st'[q] = "running"
    <3>1. deciding[q] \subseteq orphans[q]
      BY <2>1, <2>2
    <3>2. ASSUME NEW s \in deciding'[q] PROVE s \in orphans'[q]
      <4>1. s \in orphans[q]
        BY <3>1, <3>2
      <4> QED BY <3>2, <4>1
    <3> QED BY <2>2, <3>2
  <2>3. CASE st'[q] # "running"
    BY <2>1, <2>3
  <2> QED BY <2>2, <2>3
<1>6. Apart'
  BY DEF Places, Apart, Active
<1>7. Leaving'
  BY BoxEmpty DEF Places, Leaving
<1>8. Collecting'
  BY DEF Places, Collecting
<1> QED BY <1>2, <1>3, <1>4, <1>5, <1>6, <1>7, <1>8 DEF Places

LEMMA ForceStopTakes ==
    ASSUME TypeOK, NEW k \in Procs, ForceStop(k), NEW q \in Procs
    PROVE  /\ owned'[q] \subseteq owned[q] /\ watched'[q] \subseteq watched[q]
           /\ inbox'[q] \in {inbox[q], <<>>} /\ pending'[q] \in {pending[q], <<>>}
           /\ collector'[q] => collector[q]
<1>1. owned'[q] \subseteq owned[q] /\ watched'[q] \subseteq watched[q]
  BY DEF ForceStop, TypeOK, Books
<1>2. inbox'[q] \in {inbox[q], <<>>} /\ pending'[q] \in {pending[q], <<>>}
  BY DEF ForceStop, TypeOK, Boxes
<1>3. collector' = [collector EXCEPT ![k] = FALSE] /\ collector \in [Procs -> BOOLEAN]
  BY DEF ForceStop, TypeOK
<1>4. collector'[q] => collector[q]
  BY <1>3
<1> QED BY <1>1, <1>2, <1>4

LEMMA KillPlaces ==
    ASSUME TypeOK, Places, NEW p \in Procs, Kill(p) \/ ForcedKill(p)
    PROVE  Places'
<1>1. UNCHANGED <<st, children, orphans, deciding, awaiting, handing>>
  BY DEF Kill, ForcedKill
<1>2. ForceStop(p) \/ UNCHANGED <<inbox, owned, watched, collector, pending>>
  BY DEF Kill, ForcedKill
<1>5. Awaited'
  BY <1>1 DEF Places, Awaited
<1>3. \A q \in Procs : /\ owned'[q] \subseteq owned[q] /\ watched'[q] \subseteq watched[q]
                       /\ inbox'[q] \in {inbox[q], <<>>} /\ pending'[q] \in {pending[q], <<>>}
                       /\ collector'[q] => collector[q]
  BY <1>2, ForceStopTakes
<1>4. \A q, s \in Procs : HandsUp(s, q)' => HandsUp(s, q)
  BY <1>1 DEF HandsUp
<1> QED BY <1>1, <1>3, <1>4, <1>5, TakingPlaces

LEMMA QuietPlaces ==
    ASSUME Places, UNCHANGED <<st, children, orphans, owned, watched, inbox, collector, pending,
                               deciding, awaiting, handing>>
    PROVE  Places'
<1>1. \A q, s \in Procs : HandsUp(s, q)' => HandsUp(s, q)
  BY DEF HandsUp
<1>2. Awaited'
  BY DEF Places, Awaited
<1> QED BY <1>1, <1>2, TakingPlaces

LEMMA ChildPlaces ==
    ASSUME TypeOK, Places, NEW p \in Procs, NEW c \in Procs,
           ChildStops(p, c) \/ ChildRefuses(p, c) \/ ChildThrows(p, c)
    PROVE  Places'
<1>1. UNCHANGED <<children, orphans, owned, watched, inbox, collector, pending, deciding>>
  BY DEF ChildStops, ChildRefuses, ChildThrows, family
<1>2. st[p] = "ending"
  BY DEF ChildStops, ChildRefuses, ChildThrows, Places, Awaited
<1>3. \A q \in Procs : st'[q] = st[q] \/ (st[q] = "ending" /\ st'[q] = "ended")
  BY <1>2 DEF ChildStops, ChildRefuses, ChildThrows, TypeOK
<1>4. \A q, s \in Procs : HandsUp(s, q)' => HandsUp(s, q)
  <2>1. CASE ChildStops(p, c)
    BY <2>1 DEF ChildStops, HandsUp, TypeOK, Books
  <2>2. CASE ChildRefuses(p, c)
    BY <2>2 DEF ChildRefuses, HandsUp, TypeOK, Books
  <2>3. CASE ChildThrows(p, c)
    BY <2>3 DEF ChildThrows, HandsUp, TypeOK, Books
  <2> QED BY <2>1, <2>2, <2>3
<1>5. Awaited'
  <2>1. CASE ChildStops(p, c)
    BY <1>2, <2>1 DEF ChildStops, Places, Awaited, TypeOK, Books
  <2>2. CASE ChildRefuses(p, c)
    BY <1>2, <2>2 DEF ChildRefuses, Places, Awaited, TypeOK, Books
  <2>3. CASE ChildThrows(p, c)
    BY <2>3 DEF ChildThrows, Places, Awaited, TypeOK, Books
  <2> QED BY <2>1, <2>2, <2>3
<1> QED BY <1>1, <1>3, <1>4, <1>5, TakingPlaces

\* onOrphan says adopt.
LEMMA AdoptPlaces ==
    ASSUME TypeOK, Places, NEW p \in Procs, NEW r \in Procs, Decide(p, r), Adopt(p, r),
           UNCHANGED <<dead, watched, forced, off>>
    PROVE  Places'
<1> DEFINE ps == pending[r]
<1>1. /\ st[p] = "running" /\ r \in deciding[p]
      /\ \A q \in Procs : deciding'[q] = IF q = p THEN deciding[p] \ {r} ELSE deciding[q]
      /\ UNCHANGED <<st, awaiting, handing, watched>>
  BY DEF Decide, TypeOK, Books
<1>2. Active(p) /\ deciding[p] \subseteq orphans[p] /\ r \in orphans[p]
  BY <1>1 DEF Active, Places, Decided
<1>3. ps \in Seq(Entry) /\ inbox[p] \in Seq(Entry) /\ Plain(ps) /\ Sole(ps, r)
  BY DEF TypeOK, Boxes, Places, Unwatched
<1>4. /\ \A s : Named(ps, s) <=> s \in Left(ps)
      /\ \A s : Says(ps, s) => s = r
      /\ \A x, s : Names(ps, x, s) => Named(ps, s)
      /\ \A s : Exited(ps, s) => Says(ps, s) /\ ExitIn(ps) # {}
  BY <1>3, BoxFacts
<1>5. Left(ps) \subseteq Procs
  BY <1>3, LeftType
<1>6. /\ \A q \in Procs : children'[q] = IF q = p THEN (IF ExitIn(ps) = {} THEN children[p] \cup {r}
                                                         ELSE children[p] \ {r}) ELSE children[q]
      /\ \A q \in Procs : orphans'[q] = IF q = p THEN (orphans[p] \cup Left(ps)) \ {r} ELSE orphans[q]
      /\ \A q \in Procs : owned'[q] = IF q = p THEN owned[p] \cup {r} ELSE owned[q]
      /\ \A q \in Procs : collector'[q] = IF q = r THEN FALSE ELSE collector[q]
      /\ \A q \in Procs : pending'[q] = IF q = r THEN <<>> ELSE pending[q]
      /\ \A q \in Procs : inbox'[q] = IF q = p /\ ~dead[p] THEN inbox[p] \o ps ELSE inbox[q]
  BY DEF Adopt, TypeOK, Books, Boxes
<1> HIDE DEF ps
<1>7. /\ \A s : Says(inbox'[p], s) => Says(inbox[p], s) \/ s = r
      /\ \A s : Named(inbox'[p], s) => Named(inbox[p], s) \/ s \in Left(ps)
      /\ \A x, s : Names(inbox'[p], x, s) => Names(inbox[p], x, s) \/ s \in Left(ps)
      /\ \A s : Once(inbox[p], s) /\ Once(ps, s) /\ ~(Named(inbox[p], s) /\ s \in Left(ps))
            => Once(inbox'[p], s)
      /\ \A s : Exited(inbox'[p], s) => Exited(inbox[p], s) \/ (s = r /\ ExitIn(ps) # {})
      /\ Plain(inbox[p]) => Plain(inbox'[p])
  <2>1. CASE dead[p]
    BY <1>6, <2>1
  <2>2. CASE ~dead[p]
    <3>1. inbox'[p] = inbox[p] \o ps
      BY <1>6, <2>2
    <3> DEFINE es == inbox[p]
               gs == es \o ps
    <3>2. /\ \A s : Says(gs, s) => Says(es, s) \/ Says(ps, s)
          /\ \A x, s : Names(gs, x, s) => Names(es, x, s) \/ Names(ps, x, s)
          /\ \A s : Named(gs, s) => Named(es, s) \/ Named(ps, s)
          /\ \A s : Once(es, s) /\ Once(ps, s) /\ ~(Named(es, s) /\ Named(ps, s)) => Once(gs, s)
          /\ \A s : Exited(gs, s) => Exited(es, s) \/ Exited(ps, s)
          /\ Plain(es) /\ Plain(ps) => Plain(gs)
      <4>1. es \in Seq(Entry)
        BY <1>3
      <4> HIDE DEF es
      <4> QED BY <1>3, <4>1, BoxConcat
    <3>3. inbox'[p] = gs
      BY <3>1
    <3> HIDE DEF gs
    <3> QED BY <1>3, <1>4, <3>2, <3>3
  <2> QED BY <2>1, <2>2
<1>8. \A s \in Procs : s \in Left(ps) => \A q \in Procs : ~At(s, q)
  BY <1>4 DEF Places, WaitsNowhere, ps
<1>9. At(r, p)
  BY <1>2 DEF At, Booked
<1>10. r \notin Left(ps)
  BY <1>8, <1>9
<1>11. \A s, q \in Procs : At(s, q)' => At(s, q) \/ (q = p /\ s \in Left(ps))
  <2> SUFFICES ASSUME NEW s \in Procs, NEW q \in Procs, At(s, q)'
               PROVE  At(s, q) \/ (q = p /\ s \in Left(ps))
    OBVIOUS
  <2>1. Active(q)' <=> Active(q)
    BY <1>1 DEF Active
  <2>2. CASE q # p
    BY <1>1, <1>6, <2>1, <2>2 DEF At, Booked
  <2>3. CASE q = p /\ s # r
    BY <1>1, <1>6, <1>7, <2>1, <2>3 DEF At, Booked
  <2>4. CASE q = p /\ s = r
    BY <1>9, <2>4
  <2> QED BY <2>2, <2>3, <2>4
<1>12. \A x, s \in Procs : Named(pending'[x], s) => x # r /\ Named(pending[x], s)
  BY <1>6, BoxEmpty
<1>13. \A x, s \in Procs : Named(pending'[x], s) => s \notin Left(ps)
  BY <1>4, <1>12 DEF Places, WaitsOnce, ps
<1>14. OnePlace'
  BY <1>8, <1>11 DEF Places, OnePlace
<1>15. WaitsNowhere'
  BY <1>11, <1>12, <1>13 DEF Places, WaitsNowhere
<1>16. WaitsOnce'
  BY <1>6, <1>12, BoxEmpty DEF Places, WaitsOnce
<1>17. Unwatched'
  BY <1>1, <1>6, <1>7, BoxEmpty DEF Places, Unwatched
<1>18. NamedOnce'
  <2> SUFFICES ASSUME NEW q \in Procs, NEW s \in Procs, Active(q)
               PROVE  /\ Once(inbox'[q], s)
                      /\ Named(inbox'[q], s) => s \in orphans'[q] /\ s \notin deciding'[q]
    BY <1>1 DEF NamedOnce, Active
  <2>0. Once(inbox[q], s) /\ (Named(inbox[q], s) => s \in orphans[q] /\ s \notin deciding[q])
    BY DEF Places, NamedOnce
  <2>1. CASE q # p
    BY <1>1, <1>6, <2>0, <2>1
  <2>2. CASE q = p
    <3>1. Once(ps, s)
      BY DEF Places, WaitsOnce, ps
    <3>2. s \in Left(ps) => s \notin orphans[p] /\ s \notin deciding[p]
      BY <1>2, <1>8 DEF At, Booked
    <3>3. Once(inbox'[p], s)
      BY <1>7, <2>0, <2>2, <3>1, <3>2
    <3>4. Named(inbox'[p], s) => s \in orphans'[p] /\ s \notin deciding'[p]
      BY <1>1, <1>6, <1>7, <1>10, <2>0, <2>2, <3>2
    <3> QED BY <2>2, <3>3, <3>4
  <2> QED BY <2>1, <2>2
<1>19. Decided'
  BY <1>1, <1>2, <1>6 DEF Places, Decided
<1>20. Apart'
  <2> SUFFICES ASSUME NEW q \in Procs, NEW s \in Procs, Active(q), s \in orphans'[q]
               PROVE  s \notin children'[q] /\ s \notin owned'[q]
    BY <1>1 DEF Apart, Active
  <2>1. CASE q # p
    BY <1>6, <2>1 DEF Places, Apart
  <2>2. CASE q = p
    <3>1. s # r /\ (s \in orphans[p] \/ s \in Left(ps))
      BY <1>6, <2>2
    <3>2. s \notin children[p] /\ s \notin owned[p]
      <4>1. CASE s \in orphans[p]
        BY <1>2, <4>1 DEF Places, Apart
      <4>2. CASE s \in Left(ps)
        BY <1>2, <1>8, <4>2 DEF At, Booked
      <4> QED BY <3>1, <4>1, <4>2
    <3> QED BY <1>6, <2>2, <3>1, <3>2
  <2> QED BY <2>1, <2>2
<1>21. Leaving'
  <2>1. ASSUME NEW q \in Procs, st[q] = "running", NEW s \in Procs, Exited(inbox'[q], s)
        PROVE  s \notin children'[q] /\ s \notin orphans'[q]
    <3>1. CASE q # p
      BY <1>6, <2>1, <3>1 DEF Places, Leaving
    <3>2. CASE q = p /\ Exited(inbox[p], s)
      <4>1. s \notin children[p] /\ s \notin orphans[p]
        BY <2>1, <3>2 DEF Places, Leaving
      <4>2. At(s, p)
        BY <1>2, <1>3, <3>2, BoxFacts DEF At, Booked
      <4>3. s # r /\ s \notin Left(ps)
        BY <1>2, <1>8, <4>1, <4>2
      <4> QED BY <1>6, <3>2, <4>1, <4>3
    <3>3. CASE q = p /\ ~Exited(inbox[p], s)
      BY <1>6, <1>7, <2>1, <3>3
    <3> QED BY <3>1, <3>2, <3>3
  <2>2. ASSUME NEW q \in Procs, st[q] = "ending", NEW x \in Procs, NEW s \in Procs,
               Names(inbox'[q], x, s)
        PROVE  ~(HandsUp(x, q) /\ HandsUp(s, q))
    <3>1. q # p
      BY <1>1, <2>2
    <3> QED BY <1>6, <2>2, <3>1 DEF Places, Leaving
  <2> QED BY <1>1, <2>1, <2>2 DEF Leaving, HandsUp
<1>22. Collecting'
  <2> SUFFICES ASSUME NEW s \in Procs, NEW q \in Procs, collector'[s] PROVE s \notin owned'[q]
    BY DEF Collecting
  <2>1. s # r
    BY <1>6
  <2>2. collector[s]
    BY <1>6, <2>1
  <2> QED BY <1>6, <2>1, <2>2 DEF Places, Collecting
<1>23. Awaited'
  BY <1>1 DEF Places, Awaited
<1> QED BY <1>14, <1>15, <1>16, <1>17, <1>18, <1>19, <1>20, <1>21, <1>22, <1>23 DEF Places

LEMMA DecidePlaces ==
    ASSUME TypeOK, Places, NEW p \in Procs, NEW r \in Procs, Decide(p, r)
    PROVE  Places'
<1>1. /\ r \in deciding[p]
      /\ \A q \in Procs : deciding'[q] = IF q = p THEN deciding[p] \ {r} ELSE deciding[q]
      /\ UNCHANGED <<st, awaiting, handing>>
  BY DEF Decide, TypeOK, Books
<1>2. \A q, s \in Procs : HandsUp(s, q)' => HandsUp(s, q)
  BY <1>1 DEF HandsUp
<1>7. Awaited'
  BY <1>1 DEF Places, Awaited
<1>3. CASE Adopt(p, r) /\ UNCHANGED <<dead, watched, forced, off>>
  BY <1>3, AdoptPlaces
<1>4. CASE /\ orphans' = [orphans EXCEPT ![p] = @ \ {r}]
           /\ IF dead[r]
              THEN UNCHANGED <<dead, owned, watched, inbox, collector, pending, forced, off, cut>>
              ELSE ForceStop(r) /\ forced' = AskedToo(children[r])
           /\ UNCHANGED children
  <2>1. \A q \in Procs : orphans'[q] = IF q = p THEN orphans[p] \ {r} ELSE orphans[q]
    BY <1>4 DEF TypeOK, Books
  <2>2. \A q \in Procs : /\ owned'[q] \subseteq owned[q] /\ watched'[q] \subseteq watched[q]
                         /\ inbox'[q] \in {inbox[q], <<>>} /\ pending'[q] \in {pending[q], <<>>}
                         /\ collector'[q] => collector[q]
    BY <1>4, ForceStopTakes
  <2> QED BY <1>1, <1>2, <1>4, <2>1, <2>2, <1>7, TakingPlaces
<1>5. CASE /\ collector' = [collector EXCEPT ![r] = FALSE]
           /\ pending' = [pending EXCEPT ![r] = <<>>]
           /\ cut' = cut \cup {r}
           /\ UNCHANGED <<dead, family, inbox, forced, off>>
  <2>1. \A q \in Procs : pending'[q] \in {pending[q], <<>>} /\ (collector'[q] => collector[q])
    BY <1>5 DEF TypeOK, Boxes
  <2>2. UNCHANGED <<children, orphans, owned, watched, inbox>>
    BY <1>5 DEF family
  <2> QED BY <1>1, <1>2, <2>1, <2>2, <1>7, TakingPlaces
<1>6. CASE UNCHANGED <<dead, family, inbox, collector, pending, forced, off, cut>>
  <2>1. UNCHANGED <<children, orphans, owned, watched, inbox, collector, pending>>
    BY <1>6 DEF family
  <2> QED BY <1>1, <1>2, <2>1, <1>7, TakingPlaces
<1> QED BY <1>3, <1>4, <1>5, <1>6 DEF Decide

LEMMA BeginEndPlaces ==
    ASSUME TypeOK, Places, NEW p \in Procs, BeginEnd(p)
    PROVE  Places'
<1>1. /\ st[p] = "running" /\ Active(p)
      /\ UNCHANGED <<children, orphans, owned, watched, inbox, collector, pending>>
  BY DEF BeginEnd, Active, family
<1>2. \A q \in Procs : /\ st'[q] = IF q = p THEN "ending" ELSE st[q]
                       /\ deciding'[q] = IF q = p THEN {} ELSE deciding[q]
                       /\ handing'[q] = IF q = p THEN orphans[p] ELSE handing[q]
                       /\ awaiting'[q] = IF q = p THEN {c \in children[p] : ~Gone(c)} ELSE awaiting[q]
  BY DEF BeginEnd, TypeOK, Books
<1>3. \A q \in Procs : Active(q)' <=> Active(q)
  BY <1>1, <1>2 DEF Active
<1>4. \A s, q \in Procs : At(s, q)' => At(s, q)
  <2> SUFFICES ASSUME NEW s \in Procs, NEW q \in Procs, At(s, q)' PROVE At(s, q)
    OBVIOUS
  <2>1. Booked(s, q)' => Booked(s, q)
    BY <1>1, <1>2 DEF Booked
  <2> QED BY <1>1, <1>3, <2>1 DEF At
<1>5. OnePlace' /\ WaitsNowhere' /\ WaitsOnce'
  BY <1>1, <1>4, FewerPlaces
<1>6. Unwatched'
  BY <1>1 DEF Places, Unwatched
<1>7. NamedOnce'
  BY <1>1, <1>2, <1>3 DEF Places, NamedOnce
<1>8. Decided'
  BY <1>1, <1>2 DEF Places, Decided
<1>9. Apart' /\ Collecting'
  BY <1>1, <1>3 DEF Places, Apart, Collecting
<1>10. Leaving'
  <2>1. ASSUME NEW q \in Procs, st'[q] = "running", NEW s \in Procs, Exited(inbox[q], s)
        PROVE  s \notin children[q] /\ s \notin orphans[q]
    BY <1>2, <2>1 DEF Places, Leaving
  <2>2. ASSUME NEW q \in Procs, st'[q] = "ending", NEW x \in Procs, NEW s \in Procs,
               Names(inbox[q], x, s)
        PROVE  ~(HandsUp(x, q)' /\ HandsUp(s, q)')
    <3>1. CASE q = p
      <4>1. inbox[p] \in Seq(Entry) /\ Plain(inbox[p])
        BY DEF TypeOK, Boxes, Places, Unwatched
      <4>2. Exited(inbox[p], x)
        BY <2>2, <3>1, <4>1, BoxFacts
      <4>3. x \notin children[p] /\ x \notin orphans[p]
        BY <1>1, <4>2 DEF Places, Leaving
      <4> QED BY <1>2, <3>1, <4>3 DEF HandsUp
    <3>2. CASE q # p
      BY <1>2, <2>2, <3>2 DEF Places, Leaving, HandsUp
    <3> QED BY <3>1, <3>2
  <2> QED BY <1>1, <2>1, <2>2 DEF Leaving
<1>11. Awaited'
  BY <1>2 DEF Places, Awaited
<1> QED BY <1>5, <1>6, <1>7, <1>8, <1>9, <1>10, <1>11 DEF Places

\* What the end of a process does to every box: its inbox keeps what the handoff does
\* not move, each it hands up gets its part, the owner and the collector get the EXIT.
LEMMA FinishParts ==
    ASSUME TreeAssumption, TypeOK, Unwatched, NEW p \in Procs, Finish(p)
    PROVE  /\ FinalEntry(p) \in Entry
           /\ FinalEntry(p).from = p /\ FinalEntry(p).n = 0 /\ FinalEntry(p).own
           /\ FinalEntry(p).orphans = handing[p]
           /\ \A q \in Procs : q # p =>
                 inbox'[q] = IF p \in owned[q] /\ ~dead[q] THEN inbox[q] \o <<FinalEntry(p)>> ELSE inbox[q]
           /\ inbox'[p] = IF p \in owned[p] /\ ~dead[p] THEN Kept(p)[p] \o <<FinalEntry(p)>> ELSE Kept(p)[p]
           /\ Kept(p)[p] = Picked(inbox[p], From(inbox[p], Procs \ handing[p]))
           /\ \A x \in Procs : BackFed(p)[x] \in Seq(Entry)
           /\ \A x \in Procs : x \in handing[p] =>
                 BackFed(p)[x] = Picked(inbox[p], From(inbox[p], {x})) \o pending[x]
           /\ \A x \in Procs : x \notin handing[p] => BackFed(p)[x] = pending[x]
           /\ \A x \in Procs : x # p \/ ~collector[p] => pending'[x] = BackFed(p)[x]
           /\ collector[p] => pending'[p] = BackFed(p)[p] \o <<FinalEntry(p)>>
<1> DEFINE e == FinalEntry(p)
<1>1. /\ e \in Entry /\ Kept(p) \in Boxes /\ BackFed(p) \in Boxes
      /\ inbox' = Told(Kept(p), e) /\ pending' = Collected(BackFed(p), e)
  BY FinishBoxes
<1>2. e.from = p /\ e.n = 0 /\ e.own /\ e.orphans = handing[p]
  BY DEF FinalEntry, Message
<1> HIDE DEF e
<1>3. \A q \in Procs : inbox'[q] = IF p \in owned[q] /\ ~dead[q] THEN Kept(p)[q] \o <<e>> ELSE Kept(p)[q]
  BY <1>1, <1>2, ToldTree
<1>4. \A x \in Procs : pending'[x] = IF x = p /\ collector[x] THEN BackFed(p)[x] \o <<e>> ELSE BackFed(p)[x]
  BY <1>1, <1>2, CollectedTree
<1>5. /\ Kept(p)[p] = Picked(inbox[p], From(inbox[p], Procs \ handing[p]))
      /\ \A q \in Procs : q # p => Kept(p)[q] = inbox[q]
  BY DEF Kept, TypeOK, Boxes
<1>6. \A x \in Procs : BackFed(p)[x] = IF x \in handing[p] THEN Picked(inbox[p], From(inbox[p], {x})) \o pending[x]
                                       ELSE pending[x]
  BY BackFedType, UnreadTree
<1>7. \A x \in Procs : BackFed(p)[x] \in Seq(Entry)
  BY <1>1 DEF Boxes
<1>8. \A q \in Procs : q # p =>
         inbox'[q] = IF p \in owned[q] /\ ~dead[q] THEN inbox[q] \o <<e>> ELSE inbox[q]
  BY <1>3, <1>5
<1>9. inbox'[p] = IF p \in owned[p] /\ ~dead[p] THEN Kept(p)[p] \o <<e>> ELSE Kept(p)[p]
  BY <1>3
<1>10. /\ \A x \in Procs : x # p \/ ~collector[p] => pending'[x] = BackFed(p)[x]
       /\ collector[p] => pending'[p] = BackFed(p)[p] \o <<e>>
  BY <1>4
<1>11. /\ \A x \in Procs : x \in handing[p] =>
             BackFed(p)[x] = Picked(inbox[p], From(inbox[p], {x})) \o pending[x]
       /\ \A x \in Procs : x \notin handing[p] => BackFed(p)[x] = pending[x]
  BY <1>6
<1>12. e \in Entry
  BY <1>1
<1>13. Kept(p)[p] = Picked(inbox[p], From(inbox[p], Procs \ handing[p]))
  BY <1>5
<1>14. e = FinalEntry(p)
  BY DEF e
<1> QED BY ONLY <1>2, <1>7, <1>8, <1>9, <1>10, <1>11, <1>12, <1>13, <1>14

LEMMA FinishPlaces ==
    ASSUME TreeAssumption, TypeOK, Places, NEW p \in Procs, Finish(p)
    PROVE  Places'
<1> DEFINE e == FinalEntry(p)
           H == handing[p]
<1>0. Unwatched
  BY DEF Places
<1>1. /\ e \in Entry /\ e.from = p /\ e.n = 0 /\ e.own /\ e.orphans = H
  BY <1>0, FinishParts
<1>28. /\ \A q \in Procs : q # p =>
              inbox'[q] = IF p \in owned[q] /\ ~dead[q] THEN inbox[q] \o <<FinalEntry(p)>> ELSE inbox[q]
       /\ \A x \in Procs : x \in handing[p] =>
              BackFed(p)[x] = Picked(inbox[p], From(inbox[p], {x})) \o pending[x]
       /\ \A x \in Procs : x \notin handing[p] => BackFed(p)[x] = pending[x]
       /\ \A x \in Procs : x # p \/ ~collector[p] => pending'[x] = BackFed(p)[x]
  BY <1>0, FinishParts
<1>2. /\ st[p] = "ending" /\ awaiting[p] = {} /\ Active(p)
      /\ UNCHANGED <<dead, deciding, awaiting>>
      /\ \A q \in Procs : /\ st'[q] = IF q = p THEN "ended" ELSE st[q]
                          /\ owned'[q] = IF q = p THEN {} ELSE owned[q]
                          /\ watched'[q] = IF q = p THEN {} ELSE watched[q]
                          /\ handing'[q] = IF q = p THEN {} ELSE handing[q]
  BY DEF Finish, TypeOK, Books, Active, news
<1>3. \A q \in Procs : /\ children'[q] = IF p \in owned[q] THEN children[q] \ {p} ELSE children[q]
                       /\ orphans'[q] = IF p \in owned[q] THEN orphans[q] \cup H ELSE orphans[q]
  BY DEF Finish
<1>4. \A q \in Procs : collector'[q] => collector[q] \/ q \in H
  BY DEF Finish, TypeOK
<1>5. \A q \in Procs : inbox[q] \in Seq(Entry) /\ pending[q] \in Seq(Entry)
  BY DEF TypeOK, Boxes
<1>6. ASSUME NEW q \in Procs, q # p
      PROVE  /\ \A s : Says(inbox'[q], s) => Says(inbox[q], s) \/ (s = p /\ p \in owned[q])
             /\ \A x, s : Names(inbox'[q], x, s) => Names(inbox[q], x, s) \/ (x = p /\ s \in H)
             /\ \A s : Named(inbox'[q], s) => Named(inbox[q], s) \/ (s \in H /\ p \in owned[q])
             /\ \A s : Once(inbox[q], s) /\ ~(Named(inbox[q], s) /\ s \in H) => Once(inbox'[q], s)
             /\ \A s : Exited(inbox'[q], s) => Exited(inbox[q], s) \/ (s = p /\ p \in owned[q])
             /\ Plain(inbox[q]) => Plain(inbox'[q])
  <2> DEFINE es == inbox[q]
             gs == es \o <<e>>
  <2>1. inbox'[q] = IF p \in owned[q] /\ ~dead[q] THEN gs ELSE es
    BY <1>6, <1>28
  <2>2. es \in Seq(Entry)
    BY <1>5
  <2> HIDE DEF e, es
  <2>3. /\ \A s : Says(gs, s) => Says(es, s) \/ s = p
        /\ \A x, s : Names(gs, x, s) => Names(es, x, s) \/ (x = p /\ s \in H)
        /\ \A s : Named(gs, s) => Named(es, s) \/ s \in H
        /\ \A s : Once(es, s) /\ ~(Named(es, s) /\ s \in H) => Once(gs, s)
        /\ \A s : Exited(gs, s) => Exited(es, s) \/ s = p
        /\ Plain(es) => Plain(gs)
    BY <1>1, <2>2, BoxAdd
  <2> HIDE DEF gs
  <2>4. CASE p \in owned[q] /\ ~dead[q]
    BY <2>1, <2>3, <2>4 DEF es
  <2>5. CASE ~(p \in owned[q] /\ ~dead[q])
    BY <2>1, <2>5 DEF es
  <2> QED BY <2>4, <2>5
<1>7. Plain(inbox'[p])
  <2> DEFINE ks == Kept(p)[p]
  <2>1. ks = Picked(inbox[p], From(inbox[p], Procs \ handing[p]))
    BY <1>0, FinishParts
  <2>2. Plain(inbox[p])
    BY <1>0 DEF Unwatched
  <2>3. ks \in Seq(Entry) /\ Plain(ks)
    BY <1>5, <2>1, <2>2, BoxPart
  <2>4. inbox'[p] = IF p \in owned[p] /\ ~dead[p] THEN ks \o <<e>> ELSE ks
    BY <1>0, FinishParts
  <2> HIDE DEF ks, e
  <2>5. Plain(ks \o <<e>>)
    BY <1>1, <2>3, BoxAdd
  <2> QED BY <2>3, <2>4, <2>5
<1>8. ASSUME NEW x \in Procs
      PROVE  /\ BackFed(p)[x] \in Seq(Entry)
             /\ \A s : Named(BackFed(p)[x], s) => Named(pending[x], s) \/ (x \in H /\ Names(inbox[p], x, s))
             /\ \A s : Once(inbox[p], s) /\ Once(pending[x], s) /\ ~(Named(inbox[p], s) /\ Named(pending[x], s))
                   => Once(BackFed(p)[x], s)
             /\ Plain(BackFed(p)[x]) /\ Sole(BackFed(p)[x], x)
  <2>1. Plain(inbox[p]) /\ Plain(pending[x]) /\ Sole(pending[x], x)
    BY <1>0 DEF Unwatched
  <2>2. CASE x \in H
    <3> DEFINE us == Picked(inbox[p], From(inbox[p], {x}))
               ps == pending[x]
    <3>1. BackFed(p)[x] = us \o ps
      BY <1>28, <2>2
    <3>2. /\ us \in Seq(Entry)
          /\ \A s : Says(us, s) => s \in {x}
          /\ \A s : Named(us, s) => \E y \in {x} : Names(inbox[p], y, s)
          /\ \A s : Once(inbox[p], s) => Once(us, s)
          /\ Plain(us)
      BY <1>5, <2>1, BoxPart
    <3>3. Sole(us, x)
      BY <3>2 DEF Says, Sole
    <3>4. ps \in Seq(Entry) /\ Plain(ps) /\ Sole(ps, x)
      BY <1>5, <2>1
    <3>50. \A s : Named(us, s) => Names(inbox[p], x, s)
      BY <3>2
    <3>51. \A y, s : Names(inbox[p], y, s) => Named(inbox[p], s)
      BY <1>5, BoxFacts
    <3>5. \A s : Named(us, s) => Names(inbox[p], x, s) /\ Named(inbox[p], s)
      BY <3>50, <3>51
    <3> HIDE DEF us
    <3> DEFINE gs == us \o ps
    <3>6. /\ gs \in Seq(Entry)
          /\ \A s : Named(gs, s) => Named(us, s) \/ Named(ps, s)
          /\ \A s : Once(us, s) /\ Once(ps, s) /\ ~(Named(us, s) /\ Named(ps, s)) => Once(gs, s)
          /\ Plain(gs) /\ Sole(gs, x)
      <4> HIDE DEF ps
      <4> QED BY <3>2, <3>3, <3>4, BoxConcat
    <3>7. BackFed(p)[x] = gs
      BY <3>1
    <3> HIDE DEF gs
    <3> QED BY <2>2, <3>2, <3>5, <3>6, <3>7
  <2>3. CASE x \notin H
    <3>1. BackFed(p)[x] = pending[x]
      BY <1>28, <2>3
    <3> QED BY <1>5, <2>1, <3>1
  <2> QED BY <2>2, <2>3
<1>9. ASSUME NEW x \in Procs
      PROVE  /\ \A s : Named(pending'[x], s) => \/ Named(pending[x], s)
                                                \/ x \in H /\ Names(inbox[p], x, s)
                                                \/ x = p /\ collector[p] /\ s \in H
             /\ \A s : /\ Once(inbox[p], s) /\ Once(pending[x], s) /\ ~(Named(inbox[p], s) /\ Named(pending[x], s))
                       /\ ~(x = p /\ s \in H /\ (Named(pending[p], s) \/ (p \in H /\ Names(inbox[p], p, s))))
                   => Once(pending'[x], s)
             /\ Plain(pending'[x]) /\ Sole(pending'[x], x)
  <2>1. CASE x # p \/ ~collector[p]
    <3>1. pending'[x] = BackFed(p)[x]
      BY <1>28, <2>1
    <3> QED BY <1>8, <3>1
  <2>2. CASE x = p /\ collector[p]
    <3> DEFINE bs == BackFed(p)[p]
               gs == bs \o <<e>>
    <3>1. pending'[p] = gs
      BY <1>0, <2>2, FinishParts
    <3>2. /\ bs \in Seq(Entry)
          /\ \A s : Named(bs, s) => Named(pending[p], s) \/ (p \in H /\ Names(inbox[p], p, s))
          /\ \A s : Once(inbox[p], s) /\ Once(pending[p], s) /\ ~(Named(inbox[p], s) /\ Named(pending[p], s))
                => Once(bs, s)
          /\ Plain(bs) /\ Sole(bs, p)
      BY <1>8
    <3> HIDE DEF bs, e
    <3>3. /\ \A s : Named(gs, s) => Named(bs, s) \/ s \in H
          /\ \A s : Once(bs, s) /\ ~(Named(bs, s) /\ s \in H) => Once(gs, s)
          /\ Plain(gs) /\ Sole(gs, p)
      BY <1>1, <3>2, BoxAdd
    <3> HIDE DEF gs
    <3> QED BY <2>2, <3>1, <3>2, <3>3
  <2> QED BY <2>1, <2>2
<1> HIDE DEF e
<1>10. \A s \in Procs : s \in H => At(s, p)
  BY <1>2 DEF At, Booked
<1>11. \A s, q \in Procs : s \in H /\ q # p => ~At(s, q)
  BY <1>10 DEF Places, OnePlace
<1>12. \A s, x \in Procs : s \in H => ~Named(pending[x], s)
  BY <1>10 DEF Places, WaitsNowhere
<1>13. \A x, s \in Procs : Names(inbox[p], x, s) => At(s, p) /\ Named(inbox[p], s)
  <2>1. ASSUME NEW x \in Procs, NEW s \in Procs, Names(inbox[p], x, s)
        PROVE  At(s, p) /\ Named(inbox[p], s)
    <3>1. Named(inbox[p], s)
      BY <1>5, <2>1, BoxFacts
    <3>2. s \in orphans[p]
      BY <1>2, <3>1 DEF Places, NamedOnce
    <3> QED BY <1>2, <3>1, <3>2 DEF At, Booked
  <2> QED BY <2>1
<1>14. \A x, s \in Procs : Names(inbox[p], x, s) /\ x \in H => s \notin H
  BY <1>2 DEF Places, Leaving, HandsUp
<1>15. \A s, q \in Procs : At(s, q)' => q # p /\ (At(s, q) \/ (s \in H /\ p \in owned[q]))
  <2> SUFFICES ASSUME NEW s \in Procs, NEW q \in Procs, At(s, q)'
               PROVE  q # p /\ (At(s, q) \/ (s \in H /\ p \in owned[q]))
    OBVIOUS
  <2>1. q # p
    <3>1. ~At(s, p)'
      BY <1>2 DEF At, Active
    <3> QED BY <3>1
  <2>2. Active(q)' <=> Active(q)
    BY <1>2, <2>1 DEF Active
  <2>3. CASE s \in owned'[q]
    BY <1>2, <2>1, <2>3 DEF At
  <2>4. CASE Active(q) /\ Booked(s, q)'
    <3>1. CASE Says(inbox'[q], s)
      BY <1>6, <2>1, <2>4, <3>1 DEF At, Booked
    <3>2. CASE ~Says(inbox'[q], s)
      BY <1>2, <1>3, <2>1, <2>4, <3>2 DEF At, Booked
    <3> QED BY <3>1, <3>2
  <2> QED BY <2>1, <2>2, <2>3, <2>4 DEF At
<1>16. \A q, r \in Procs : p \in owned[q] /\ p \in owned[r] => q = r
  BY DEF Places, OnePlace, At
<1>17. OnePlace'
  <2> SUFFICES ASSUME NEW s \in Procs, NEW q \in Procs, NEW r \in Procs, At(s, q)', At(s, r)'
               PROVE  q = r
    BY DEF OnePlace
  <2>1. CASE s \in H
    BY <1>11, <1>15, <1>16, <2>1
  <2>2. CASE s \notin H
    BY <1>15, <2>2 DEF Places, OnePlace
  <2> QED BY <2>1, <2>2
<1>18. WaitsNowhere'
  <2> SUFFICES ASSUME NEW s \in Procs, NEW x \in Procs, NEW q \in Procs, Named(pending'[x], s), At(s, q)'
               PROVE  FALSE
    BY DEF WaitsNowhere
  <2>1. q # p /\ (At(s, q) \/ (s \in H /\ p \in owned[q]))
    BY <1>15
  <2>2. CASE Named(pending[x], s)
    BY <1>12, <2>1, <2>2 DEF Places, WaitsNowhere
  <2>3. CASE x \in H /\ Names(inbox[p], x, s)
    <3>1. At(s, p) /\ s \notin H
      BY <1>13, <1>14, <2>3
    <3> QED BY <2>1, <3>1 DEF Places, OnePlace
  <2>4. CASE x = p /\ collector[p] /\ s \in H
    BY <1>11, <2>1, <2>4 DEF Places, Collecting
  <2> QED BY <1>9, <2>2, <2>3, <2>4
<1>19. WaitsOnce'
  <2>1. ASSUME NEW s \in Procs, NEW x \in Procs PROVE Once(pending'[x], s)
    <3>1. Once(inbox[p], s) /\ Once(pending[x], s)
      BY <1>2 DEF Places, NamedOnce, WaitsOnce
    <3>2. ~(Named(inbox[p], s) /\ Named(pending[x], s))
      <4>1. Named(inbox[p], s) => At(s, p)
        BY <1>2 DEF Places, NamedOnce, At, Booked
      <4> QED BY <4>1 DEF Places, WaitsNowhere
    <3>3. ~(s \in H /\ (Named(pending[p], s) \/ (p \in H /\ Names(inbox[p], p, s))))
      BY <1>12, <1>14
    <3> QED BY <1>9, <3>1, <3>2, <3>3
  <2>2. ASSUME NEW s \in Procs, NEW x \in Procs, NEW y \in Procs,
               Named(pending'[x], s), Named(pending'[y], s)
        PROVE  x = y
    <3> DEFINE Old(z) == Named(pending[z], s)
               Fed(z) == z \in H /\ Names(inbox[p], z, s)
               Said(z) == z = p /\ s \in H
    <3>1. (Old(x) \/ Fed(x) \/ Said(x)) /\ (Old(y) \/ Fed(y) \/ Said(y))
      BY <1>9, <2>2
    <3>2. Old(x) /\ Old(y) => x = y
      BY DEF Places, WaitsOnce
    <3>3. \A z \in Procs : Old(z) => ~At(s, p)
      BY DEF Places, WaitsNowhere
    <3>4. \A z \in Procs : Fed(z) => At(s, p) /\ s \notin H
      BY <1>13, <1>14
    <3>5. s \in H => At(s, p)
      BY <1>10
    <3>6. Fed(x) /\ Fed(y) => x = y
      <4>1. Once(inbox[p], s)
        BY <1>2 DEF Places, NamedOnce
      <4> QED BY <1>5, <4>1, BoxFacts
    <3> HIDE DEF Old, Fed
    <3> QED BY <3>1, <3>2, <3>3, <3>4, <3>5, <3>6
  <2> QED BY <2>1, <2>2 DEF WaitsOnce
<1>20. Unwatched'
  BY <1>0, <1>2, <1>6, <1>7, <1>9 DEF Unwatched
<1>21. \A q \in Procs : Active(q)' => q # p /\ Active(q)
  BY <1>2 DEF Active
<1>22. NamedOnce'
  <2> SUFFICES ASSUME NEW q \in Procs, NEW s \in Procs, q # p, Active(q)
               PROVE  /\ Once(inbox'[q], s)
                      /\ Named(inbox'[q], s) => s \in orphans'[q] /\ s \notin deciding[q]
    BY <1>2, <1>21 DEF NamedOnce
  <2>1. Once(inbox[q], s) /\ (Named(inbox[q], s) => s \in orphans[q] /\ s \notin deciding[q])
    BY DEF Places, NamedOnce
  <2>2. s \in H => s \notin orphans[q] /\ s \notin deciding[q]
    <3>1. s \in H => s \notin orphans[q]
      BY <1>11 DEF At, Booked
    <3>2. deciding[q] \subseteq orphans[q] \/ deciding[q] = {}
      BY DEF Places, Decided
    <3> QED BY <3>1, <3>2
  <2>3. Once(inbox'[q], s)
    BY <1>6, <2>1, <2>2
  <2>4. Named(inbox'[q], s) => s \in orphans'[q] /\ s \notin deciding[q]
    BY <1>3, <1>6, <2>1, <2>2
  <2> QED BY <2>3, <2>4
<1>23. Decided'
  <2>1. \A q \in Procs : orphans[q] \subseteq orphans'[q]
    BY <1>3
  <2> QED BY <1>2, <2>1 DEF Places, Decided
<1>24. Apart'
  <2> SUFFICES ASSUME NEW q \in Procs, NEW s \in Procs, q # p, Active(q), s \in orphans'[q]
               PROVE  s \notin children'[q] /\ s \notin owned'[q]
    BY <1>21 DEF Apart
  <2>1. CASE s \in orphans[q]
    BY <1>2, <1>3, <2>1 DEF Places, Apart
  <2>2. CASE s \notin orphans[q]
    <3>1. s \in H
      BY <1>3, <2>2
    <3>2. ~At(s, q)
      BY <1>11, <3>1
    <3> QED BY <1>2, <1>3, <3>2 DEF At, Booked
  <2> QED BY <2>1, <2>2
<1>25. Leaving'
  <2>1. ASSUME NEW q \in Procs, st'[q] = "running", NEW s \in Procs, Exited(inbox'[q], s)
        PROVE  s \notin children'[q] /\ s \notin orphans'[q]
    <3>1. q # p /\ st[q] = "running" /\ Active(q)
      BY <1>2, <2>1 DEF Active
    <3>2. CASE Exited(inbox[q], s)
      <4>1. s \notin children[q] /\ s \notin orphans[q]
        BY <3>1, <3>2 DEF Places, Leaving
      <4>2. Says(inbox[q], s)
        BY <1>5, <3>2, BoxFacts
      <4>3. s \notin H
        BY <1>11, <3>1, <4>2 DEF At, Booked
      <4> QED BY <1>3, <4>1, <4>3
    <3>3. CASE s = p /\ p \in owned[q]
      <4>1. s \notin orphans[q]
        BY <3>1, <3>3 DEF Places, Apart
      <4>2. At(s, q)
        BY <3>3 DEF At
      <4>3. s \notin H
        BY <1>11, <3>1, <4>2
      <4> QED BY <1>3, <3>3, <4>1, <4>3
    <3> QED BY <1>6, <2>1, <3>1, <3>2, <3>3
  <2>2. ASSUME NEW q \in Procs, st'[q] = "ending", NEW x \in Procs, NEW s \in Procs,
               Names(inbox'[q], x, s)
        PROVE  ~(HandsUp(x, q)' /\ HandsUp(s, q)')
    <3>1. q # p /\ st[q] = "ending" /\ Active(q)
      BY <1>2, <2>2 DEF Active
    <3>2. \A z : HandsUp(z, q)' => HandsUp(z, q)
      BY <1>2, <3>1 DEF HandsUp
    <3>3. CASE Names(inbox[q], x, s)
      BY <3>1, <3>2, <3>3 DEF Places, Leaving
    <3>4. CASE s \in H
      <4>1. ~At(s, q)
        BY <1>11, <3>1, <3>4
      <4>2. ~HandsUp(s, q)
        BY <3>1, <4>1 DEF At, Booked, HandsUp
      <4> QED BY <3>2, <4>2
    <3> QED BY <1>6, <2>2, <3>1, <3>3, <3>4
  <2> QED BY <2>1, <2>2 DEF Leaving
<1>26. Collecting'
  <2> SUFFICES ASSUME NEW r \in Procs, NEW q \in Procs, collector'[r], r \in owned'[q] PROVE FALSE
    BY DEF Collecting
  <2>1. q # p /\ r \in owned[q]
    BY <1>2
  <2>2. CASE collector[r]
    BY <2>1, <2>2 DEF Places, Collecting
  <2>3. CASE r \in H
    BY <1>11, <2>1, <2>3 DEF At
  <2> QED BY <1>4, <2>2, <2>3
<1>27. Awaited'
  BY <1>2 DEF Places, Awaited
<1> QED BY <1>17, <1>18, <1>19, <1>20, <1>22, <1>23, <1>24, <1>25, <1>26, <1>27 DEF Places

LEMMA NextPlaces ==
    ASSUME TreeAssumption, Monitors = {}, TypeOK, UnbornClean, Places, [Next]_vars
    PROVE  Places'
<1>1. CASE UNCHANGED vars
  BY <1>1, QuietPlaces DEF vars
<1>2. ASSUME NEW p \in Procs, AskForce(p) \/ Escalate(p) \/ ForceThrows(p) PROVE Places'
  <2>1. UNCHANGED <<st, children, orphans, owned, watched, inbox, collector, pending,
                    deciding, awaiting, handing>>
    BY <1>2 DEF AskForce, Escalate, ForceThrows, family
  <2> QED BY <2>1, QuietPlaces
<1>3. ASSUME NEW p \in Procs,
             \/ Emit(p) \/ Take(p) \/ Swallow(p) \/ Drop(p)
             \/ Fork(p) \/ BeginEnd(p) \/ Finish(p)
             \/ Kill(p) \/ AskForce(p) \/ Escalate(p) \/ ForcedKill(p) \/ ForceThrows(p)
      PROVE  Places'
  BY <1>2, <1>3, EmitPlaces, TakePlaces, WastePlaces, ForkPlaces, BeginEndPlaces, FinishPlaces, KillPlaces
<1>4. ASSUME NEW p \in Procs, NEW r \in Procs,
             \/ Monitor(p, r) \/ Decide(p, r)
             \/ ChildStops(p, r) \/ ChildRefuses(p, r) \/ ChildThrows(p, r)
      PROVE  Places'
  <2>1. ~Monitor(p, r)
    BY DEF Monitor
  <2> QED BY <1>4, <2>1, DecidePlaces, ChildPlaces
<1> QED BY <1>1, <1>3, <1>4 DEF Next

\* The inductive invariant: where nobody calls monitor(), a process has one place.
THEOREM TreePlaces ==
    ASSUME Monitors = {}
    PROVE  Spec => []Places
<1>1. Init => TypeOK /\ UnbornClean /\ Places
  BY InitType, InitClean, InitPlaces, TreeAssumption
<1>2. TypeOK /\ UnbornClean /\ Places /\ [Next]_vars => TypeOK' /\ UnbornClean' /\ Places'
  BY NextType, NextClean, NextPlaces, TreeAssumption
<1> QED BY <1>1, <1>2, PTL DEF Spec

\* Where nobody calls monitor(), a live process is in the books of one live process at
\* most, once, and one at most hears it (src/src/process.async.ts, define-actor.ts).
THEOREM TreeSingleOwner ==
    ASSUME Monitors = {}
    PROVE  Spec => []SingleOwner
<1>1. Spec => []Places
  BY TreePlaces
<1>2. Places => SingleOwner
  BY PlacesSingle
<1> QED BY <1>1, <1>2, PTL

-----------------------------------------------------------------------------
(* How the steps that build boxes change what a box has of process r.        *)

\* A box that says nothing of r.
LEMMA NumberedNone ==
    ASSUME NEW es, NEW r, NEW a \in Nat, ~Says(es, r)
    PROVE  Numbered(es, r, a, a)
<1>1. Own(es, r) = {}
  BY DEF Own, Says
<1>2. a + 1..a = {}
  OBVIOUS
<1> QED BY <1>1, <1>2 DEF Numbered

\* The other part of the box says nothing of r.
LEMMA NumberedConcat ==
    ASSUME NEW es \in Seq(Entry), NEW fs \in Seq(Entry), NEW r, NEW a, NEW b
    PROVE  /\ Numbered(es, r, a, b) /\ ~Says(fs, r) => Numbered(es \o fs, r, a, b)
           /\ Numbered(fs, r, a, b) /\ ~Says(es, r) => Numbered(es \o fs, r, a, b)
<1> DEFINE gs == es \o fs
           m == Len(es)
<1>1. /\ m \in Nat
      /\ DOMAIN es = 1..m /\ DOMAIN fs = 1..Len(fs)
      /\ \A i \in DOMAIN es : i \in DOMAIN gs /\ gs[i] = es[i]
      /\ \A i \in DOMAIN fs : m + i \in DOMAIN gs /\ gs[m + i] = fs[i]
      /\ \A i \in DOMAIN gs : i \in DOMAIN es \/ i - m \in DOMAIN fs
      /\ \A i \in DOMAIN gs : i \notin DOMAIN es => gs[i] = fs[i - m]
      /\ DOMAIN gs = 1..(m + Len(fs)) /\ Len(fs) \in Nat
  BY ConcatIndices
<1>2. \A i \in DOMAIN gs : i \in Int
  BY <1>1
<1>8. \A i \in DOMAIN fs : i \in Int
  BY <1>1
<1> HIDE DEF gs, m
<1>3. ASSUME Numbered(es, r, a, b), ~Says(fs, r) PROVE Numbered(gs, r, a, b)
  <2>1. Own(gs, r) = Own(es, r)
    BY <1>1, <1>3 DEF Own, Says
  <2>2. \A i \in Own(es, r) : gs[i] = es[i]
    BY <1>1 DEF Own
  <2> QED BY <1>3, <2>1, <2>2 DEF Numbered
<1>4. ASSUME Numbered(fs, r, a, b), ~Says(es, r) PROVE Numbered(gs, r, a, b)
  <2>1. \A i \in Own(gs, r) : i \in Int /\ i - m \in Own(fs, r) /\ gs[i] = fs[i - m]
    BY <1>1, <1>2, <1>4 DEF Own, Says
  <2>2. \A i \in Own(fs, r) : m + i \in Own(gs, r) /\ gs[m + i] = fs[i]
    BY <1>1 DEF Own
  <2>3. {gs[i].n : i \in Own(gs, r)} = {fs[i].n : i \in Own(fs, r)}
    BY <2>1, <2>2
  <2>4. ASSUME NEW i \in Own(gs, r), NEW j \in Own(gs, r), i < j PROVE gs[i].n < gs[j].n
    <3>1. i - m < j - m
      BY <1>1, <2>1, <2>4
    <3> QED BY <1>4, <2>1, <3>1 DEF Numbered
  <2> QED BY <1>4, <2>3, <2>4 DEF Numbered
<1> QED BY <1>3, <1>4 DEF gs

\* The next message of r arrives.
LEMMA NumberedNext ==
    ASSUME NEW es \in Seq(Entry), NEW e \in Entry, NEW a \in Nat, NEW b \in Nat, a \leq b,
           Numbered(es, e.from, a, b), e.own, e.n = b + 1
    PROVE  Numbered(es \o <<e>>, e.from, a, b + 1)
<1> DEFINE gs == es \o <<e>>
           m == Len(es)
           r == e.from
<1>1. /\ m \in Nat /\ DOMAIN es = 1..m /\ DOMAIN gs = 1..(m + 1)
      /\ \A i \in 1..m : gs[i] = es[i]
      /\ gs[m + 1] = e
  OBVIOUS
<1> HIDE DEF gs, m
<1>2. Own(gs, r) = Own(es, r) \cup {m + 1}
  <2>1. \A i \in DOMAIN gs : i \in DOMAIN es \/ i = m + 1
    BY <1>1
  <2>2. m + 1 \in DOMAIN gs /\ \A i \in DOMAIN es : i \in DOMAIN gs
    BY <1>1
  <2>3. e.n > 0
    OBVIOUS
  <2> QED BY <1>1, <2>1, <2>2, <2>3 DEF Own
<1>3. \A i \in Own(es, r) : i \in 1..m /\ gs[i] = es[i] /\ es[i].n \in a + 1..b
  <2>1. \A i \in Own(es, r) : i \in 1..m
    BY <1>1 DEF Own
  <2>2. \A i \in Own(es, r) : es[i].n \in {es[j].n : j \in Own(es, r)}
    OBVIOUS
  <2>3. {es[j].n : j \in Own(es, r)} = a + 1..b
    BY DEF Numbered
  <2> QED BY <1>1, <2>1, <2>2, <2>3
<1>4. {gs[i].n : i \in Own(gs, r)} = {es[i].n : i \in Own(es, r)} \cup {b + 1}
  <2>1. \A i \in Own(es, r) : gs[i].n = es[i].n
    BY <1>3
  <2>2. gs[m + 1].n = b + 1
    BY <1>1
  <2> QED BY <1>2, <2>1, <2>2
<1>5. {gs[i].n : i \in Own(gs, r)} = a + 1..b + 1
  <2>1. {es[i].n : i \in Own(es, r)} = a + 1..b
    BY DEF Numbered
  <2>2. (a + 1..b) \cup {b + 1} = a + 1..b + 1
    OBVIOUS
  <2> QED BY <1>4, <2>1, <2>2
<1>6. ASSUME NEW i \in Own(gs, r), NEW j \in Own(gs, r), i < j PROVE gs[i].n < gs[j].n
  <2>1. CASE i \in Own(es, r) /\ j \in Own(es, r)
    BY <1>3, <1>6, <2>1 DEF Numbered
  <2>2. CASE i \in Own(es, r) /\ j = m + 1
    <3>1. gs[i].n \in a + 1..b /\ gs[j].n = b + 1
      BY <1>1, <1>3, <2>2
    <3> QED BY <3>1
  <2>3. CASE i = m + 1
    <3>1. j \in 1..m \/ j = m + 1
      BY <1>2, <1>3
    <3> QED BY <1>1, <1>6, <2>3, <3>1
  <2> QED BY <1>2, <2>1, <2>2, <2>3
<1> QED BY <1>5, <1>6 DEF Numbered, gs

\* The reducer is given the head of the box.
LEMMA NumberedTail ==
    ASSUME NEW es \in Seq(Entry), es # <<>>, NEW r, NEW a \in Nat, NEW b \in Nat, Numbered(es, r, a, b)
    PROVE  /\ Head(es).from # r => Numbered(Tail(es), r, a, b)
           /\ Head(es).from = r /\ Head(es).own /\ Head(es).n > 0 =>
                 Head(es).n = a + 1 /\ a + 1 \leq b /\ Numbered(Tail(es), r, a + 1, b)
<1> DEFINE ts == Tail(es)
           h == Head(es)
<1>1. /\ Len(es) \in Nat /\ Len(es) >= 1 /\ DOMAIN es = 1..Len(es)
      /\ DOMAIN ts = 1..(Len(es) - 1) /\ h = es[1]
      /\ \A i \in 1..(Len(es) - 1) : ts[i] = es[i + 1]
      /\ \A i \in 1..Len(es) : es[i] \in Entry
  OBVIOUS
<1> HIDE DEF ts, h
<1>2. \A i \in DOMAIN ts : i \in Nat /\ i + 1 \in DOMAIN es /\ ts[i] = es[i + 1]
  BY <1>1
<1>3. \A i \in DOMAIN es : i \in Nat /\ (i # 1 => i - 1 \in DOMAIN ts /\ es[i] = ts[i - 1])
  BY <1>1
<1>4. \A i \in Own(ts, r) : i \in Nat /\ i >= 1 /\ i + 1 \in Own(es, r) /\ ts[i] = es[i + 1]
  BY <1>1, <1>2 DEF Own
<1>5. \A i \in Own(es, r) : i \in Nat /\ (i # 1 => i - 1 \in Own(ts, r) /\ es[i] = ts[i - 1])
  BY <1>3 DEF Own
<1>6. ASSUME NEW i \in Own(ts, r), NEW j \in Own(ts, r), i < j PROVE ts[i].n < ts[j].n
  <2>1. i + 1 < j + 1
    BY <1>4, <1>6
  <2> QED BY <1>4, <2>1 DEF Numbered
<1>7. {es[i].n : i \in Own(es, r)} = a + 1..b
  BY DEF Numbered
<1>8. ASSUME h.from # r PROVE Numbered(ts, r, a, b)
  <2>1. 1 \notin Own(es, r)
    BY <1>1, <1>8 DEF Own
  <2>2. {ts[i].n : i \in Own(ts, r)} = {es[i].n : i \in Own(es, r)}
    BY <1>4, <1>5, <2>1
  <2> QED BY <1>6, <1>7, <2>2 DEF Numbered
<1>9. ASSUME h.from = r, h.own, h.n > 0
      PROVE  h.n = a + 1 /\ a + 1 \leq b /\ Numbered(ts, r, a + 1, b)
  <2>1. 1 \in Own(es, r) /\ es[1] = h
    BY <1>1, <1>9 DEF Own
  <2>2. h.n \in a + 1..b
    BY <1>7, <2>1
  <2>3. \A i \in Own(ts, r) : h.n < ts[i].n
    <3>1. \A i \in Own(ts, r) : 1 < i + 1
      BY <1>4
    <3> QED BY <1>4, <2>1, <3>1 DEF Numbered
  <2>4. \A k \in a + 1..b : k = h.n \/ \E i \in Own(ts, r) : ts[i].n = k
    <3>1. ASSUME NEW k \in a + 1..b PROVE k = h.n \/ \E i \in Own(ts, r) : ts[i].n = k
      <4>1. PICK i \in Own(es, r) : es[i].n = k
        BY <1>7
      <4> QED BY <1>5, <2>1, <4>1
    <3> QED BY <3>1
  <2>5. \A i \in Own(ts, r) : ts[i].n \in a + 1..b
    BY <1>4, <1>7
  <2>6. h.n = a + 1
    <3>1. a + 1 \in a + 1..b
      BY <2>2
    <3>2. CASE a + 1 = h.n
      BY <3>2
    <3>3. CASE \E i \in Own(ts, r) : ts[i].n = a + 1
      <4>1. h.n < a + 1
        BY <2>3, <3>3
      <4> QED BY <2>2, <4>1
    <3> QED BY <2>4, <3>1, <3>2, <3>3
  <2>7. \A i \in Own(ts, r) : ts[i].n \in a + 2..b
    BY <2>3, <2>5, <2>6
  <2>8. \A k \in a + 2..b : \E i \in Own(ts, r) : ts[i].n = k
    <3>1. ASSUME NEW k \in a + 2..b PROVE \E i \in Own(ts, r) : ts[i].n = k
      <4>1. k \in a + 1..b /\ k # h.n
        BY <2>6
      <4> QED BY <2>4, <4>1
    <3> QED BY <3>1
  <2>9. {ts[i].n : i \in Own(ts, r)} = (a + 1) + 1..b
    <3>1. (a + 1) + 1 = a + 2
      OBVIOUS
    <3> QED BY <2>7, <2>8, <3>1
  <2> QED BY <1>6, <2>2, <2>6, <2>9 DEF Numbered
<1> QED BY <1>8, <1>9 DEF ts, h

\* The handoff takes the part of r out of an inbox.
LEMMA NumberedPart ==
    ASSUME NEW es \in Seq(Entry), NEW r, NEW a, NEW b, Numbered(es, r, a, b)
    PROVE  Numbered(Picked(es, From(es, {r})), r, a, b)
<1> DEFINE I == From(es, {r})
           ps == Picked(es, I)
           n == Cardinality(I)
<1>1. I \in SUBSET DOMAIN es /\ ps \in Seq(Entry)
  BY PartType
<1>2. \A i \in I : es[i].from = r
  BY DEF From
<1>0. \A i \in DOMAIN es : es[i].from = r => i \in I
  BY DEF From
<1> HIDE DEF I
<1>2a. /\ DOMAIN ps = 1..n /\ n \in Nat
       /\ \E at \in [1..n -> I] :
             /\ \A i, j \in 1..n : i < j => at[i] < at[j]
             /\ \A i \in I : \E k \in 1..n : at[k] = i
             /\ \A k \in 1..n : ps[k] = es[at[k]]
  BY ONLY es \in Seq(Entry), <1>1, PickedFacts
<1>3. PICK at \in [1..n -> I] :
         /\ \A i, j \in 1..n : i < j => at[i] < at[j]
         /\ \A i \in I : \E k \in 1..n : at[k] = i
         /\ \A k \in 1..n : ps[k] = es[at[k]]
  BY <1>2a
<1>4. DOMAIN ps = 1..n /\ n \in Nat
  BY <1>2a
<1> HIDE DEF ps, n
<1>5. \A k \in Own(ps, r) : k \in 1..n /\ at[k] \in Own(es, r) /\ ps[k] = es[at[k]]
  BY <1>1, <1>3, <1>4 DEF Own
<1>6. \A i \in Own(es, r) : \E k \in Own(ps, r) : at[k] = i /\ ps[k] = es[i]
  <2>1. ASSUME NEW i \in Own(es, r) PROVE \E k \in Own(ps, r) : at[k] = i /\ ps[k] = es[i]
    <3>1. i \in I /\ es[i].from = r /\ es[i].own /\ es[i].n > 0
      BY <1>0 DEF Own
    <3>2. PICK k \in 1..n : at[k] = i
      BY <1>3, <3>1
    <3>3. ps[k] = es[i]
      BY <1>3, <3>2
    <3>4. k \in Own(ps, r)
      BY <1>4, <3>1, <3>3 DEF Own
    <3> QED BY <3>2, <3>3, <3>4
  <2> QED BY <2>1
<1>7. {ps[k].n : k \in Own(ps, r)} = {es[i].n : i \in Own(es, r)}
  BY <1>5, <1>6
<1>8. ASSUME NEW i \in Own(ps, r), NEW j \in Own(ps, r), i < j PROVE ps[i].n < ps[j].n
  <2>1. at[i] < at[j]
    BY <1>3, <1>5, <1>8
  <2> QED BY <1>5, <2>1 DEF Numbered
<1> QED BY <1>7, <1>8 DEF Numbered, ps, I

-----------------------------------------------------------------------------
(* The invariant.  Whoever is still listened to, and was not unparented, is   *)
(* looked after by its owner, or by a collector and nobody else; the one that *)
(* hears it has the rest of what it said.                                     *)

\* Whoever may take something from its inbox still.
Reads(p) == Active(p) \/ owned[p] # {}

Loyal(r) == r \notin cut \cup {Root} /\ Live(r)

Tended(r) ==
    /\ \A p \in Procs : r \in owned[p] =>
          /\ ~dead[p]
          /\ st[p] = "running" => r \in children[p]
          /\ st[p] = "ending" => HandsUp(r, p)
    /\ \A p \in Procs : Reads(p) /\ Says(inbox[p], r) => r \in owned[p]
    /\ (\A p \in Procs : r \notin owned[p]) => collector[r]
    /\ ~collector[r] => pending[r] = <<>>

\* What left the boxes is the first messages, each given or lost.
Tallied(r) ==
    /\ IsFiniteSet(lost[r])
    /\ \A i, j \in DOMAIN heard[r] : i < j => heard[r][i] < heard[r][j]
    /\ Given(r) \cup {l.n : l \in lost[r]} = 1..Shifted(r)

Counted(r) ==
    /\ Tallied(r)
    /\ Shifted(r) \leq emitted[r]
    /\ \A p \in Procs : r \in owned[p] => Numbered(inbox[p], r, Shifted(r), emitted[r])
    /\ collector[r] => Numbered(pending[r], r, Shifted(r), emitted[r])

\* Nobody that has said EXIT is alive.
ExitEnds ==
    \A p, r \in Procs : Exited(inbox[p], r) \/ Exited(pending[p], r) => st[r] = "ended"

Complete == ExitEnds /\ \A r \in Procs : Loyal(r) => Tended(r) /\ Counted(r)

LEMMA CompleteAccounted ==
    ASSUME TypeOK, Places, Complete, NEW r \in Procs \ (cut \cup {Root}), Live(r)
    PROVE  Accounted(r)
<1> SUFFICES Counted(r) /\ Numbered(Way(r), r, Shifted(r), emitted[r])
  BY DEF Accounted, Counted, Tallied
<1>1. r \in Procs /\ Tended(r) /\ Counted(r)
  BY DEF Complete, Loyal
<1>2. \A p \in Procs : inbox[p] \in Seq(Entry) /\ pending[p] \in Seq(Entry)
  BY DEF TypeOK, Boxes
<1>3. CASE Owners(r) = {}
  <2>1. collector[r]
    BY <1>1, <1>3 DEF Tended, Owners
  <2>2. Way(r) = <<>> \o pending[r]
    BY <1>3 DEF Way
  <2>3. Way(r) = pending[r]
    BY <1>1, <1>2, <2>2
  <2> QED BY <1>1, <2>1, <2>3 DEF Counted
<1>4. CASE Owners(r) # {}
  <2> DEFINE p == CHOOSE q \in Owners(r) : TRUE
  <2>1. p \in Owners(r)
    BY <1>4
  <2>2. p \in Procs /\ r \in owned[p]
    BY <2>1 DEF Owners
  <2>3. ~collector[r]
    BY <1>1, <2>2 DEF Places, Collecting
  <2>4. Way(r) = inbox[p] \o pending[r]
    BY <1>4 DEF Way
  <2> HIDE DEF p
  <2>5. pending[r] = <<>>
    BY <1>1, <2>3 DEF Tended
  <2>6. Way(r) = inbox[p]
    BY <1>2, <2>2, <2>4, <2>5
  <2> QED BY <1>1, <2>2, <2>6 DEF Counted
<1> QED BY <1>3, <1>4

LEMMA ShiftedType ==
    ASSUME TypeOK, NEW r \in Procs, Tallied(r)
    PROVE  Shifted(r) \in Nat
<1>1. Cardinality(lost[r]) \in Nat
  BY FS_CardinalityType DEF Tallied
<1>2. Len(heard[r]) \in Nat
  BY DEF TypeOK
<1> QED BY <1>1, <1>2 DEF Shifted

LEMMA SameTally ==
    ASSUME NEW r \in Procs, heard'[r] = heard[r], lost'[r] = lost[r]
    PROVE  Shifted(r)' = Shifted(r) /\ (Tallied(r) => Tallied(r)')
<1>1. Shifted(r)' = Shifted(r) /\ Given(r)' = Given(r)
  BY DEF Shifted, Given
<1> QED BY <1>1 DEF Tallied

\* The next message of e.from is given to a reducer.
LEMMA GivenNext ==
    ASSUME TypeOK, NEW r \in Procs, Tallied(r), heard' = [heard EXCEPT ![r] = Append(@, Shifted(r) + 1)],
           lost'[r] = lost[r]
    PROVE  Shifted(r)' = Shifted(r) + 1 /\ Tallied(r)'
<1> DEFINE hs == heard[r]
           m == Len(hs)
           n == Shifted(r)
<1>1. hs \in Seq(1..MaxEmits) /\ m \in Nat /\ heard'[r] = Append(hs, n + 1)
  BY DEF TypeOK
<1>2. n \in Nat /\ Cardinality(lost[r]) \in Nat /\ n = m + Cardinality(lost[r])
  BY ShiftedType, FS_CardinalityType DEF Tallied, Shifted
<1>3. /\ \A i \in 1..m : hs[i] \in 1..n
      /\ \A i, j \in 1..m : i < j => hs[i] < hs[j]
      /\ {hs[i] : i \in 1..m} \cup {l.n : l \in lost[r]} = 1..n
      /\ DOMAIN hs = 1..m
  <2>1. DOMAIN hs = 1..m
    BY <1>1
  <2>2. /\ \A i, j \in DOMAIN hs : i < j => hs[i] < hs[j]
        /\ {hs[i] : i \in DOMAIN hs} \cup {l.n : l \in lost[r]} = 1..n
    BY DEF Tallied, Given
  <2> HIDE DEF hs, n, m
  <2>3. \A i \in 1..m : hs[i] \in 1..n
    BY <2>1, <2>2
  <2> QED BY <2>1, <2>2, <2>3
<1> HIDE DEF hs, n
<1> DEFINE gs == Append(hs, n + 1)
<1>4. /\ Len(gs) = m + 1 /\ DOMAIN gs = 1..(m + 1) /\ gs[m + 1] = n + 1
      /\ \A i \in 1..m : gs[i] = hs[i]
  BY <1>1
<1>5. heard'[r] = gs
  BY <1>1
<1> HIDE DEF gs, m
<1>6. Shifted(r)' = n + 1
  BY <1>1, <1>2, <1>4, <1>5 DEF Shifted
<1>7. {gs[i] : i \in 1..(m + 1)} = {hs[i] : i \in 1..m} \cup {n + 1}
  <2>1. \A i \in 1..(m + 1) : i \in 1..m \/ i = m + 1
    BY <1>1 DEF m
  <2>2. m + 1 \in 1..(m + 1) /\ \A i \in 1..m : i \in 1..(m + 1)
    BY <1>1 DEF m
  <2> QED BY <1>4, <2>1, <2>2
<1>8. Given(r)' \cup {l.n : l \in lost'[r]} = 1..(n + 1)
  <2>1. Given(r)' = {gs[i] : i \in 1..(m + 1)}
    BY <1>4, <1>5 DEF Given
  <2>2. 1..(n + 1) = (1..n) \cup {n + 1}
    BY <1>2
  <2> QED BY <1>3, <1>7, <2>1, <2>2
<1>9. ASSUME NEW i \in 1..(m + 1), NEW j \in 1..(m + 1), i < j PROVE gs[i] < gs[j]
  <2>0. m \in Nat
    BY <1>1 DEF m
  <2>1. i \in 1..m
    BY <1>9, <2>0
  <2>2. CASE j \in 1..m
    BY <1>3, <1>4, <1>9, <2>1, <2>2
  <2>3. CASE j = m + 1
    <3>1. gs[i] \in 1..n /\ gs[j] = n + 1
      BY <1>3, <1>4, <2>1, <2>3
    <3> QED BY <1>2, <3>1
  <2>4. j \in 1..m \/ j = m + 1
    BY <2>0
  <2> QED BY <2>2, <2>3, <2>4
<1>10. Tallied(r)'
  BY <1>4, <1>5, <1>6, <1>8, <1>9 DEF Tallied
<1> QED BY <1>6, <1>10 DEF n

\* It is taken to no end.
LEMMA LostNext ==
    ASSUME TypeOK, NEW r \in Procs, Tallied(r), NEW p, heard'[r] = heard[r],
           lost'[r] = lost[r] \cup {[n |-> Shifted(r) + 1, by |-> p]}
    PROVE  Shifted(r)' = Shifted(r) + 1 /\ Tallied(r)'
<1> DEFINE L == lost[r]
           n == Shifted(r)
           new == [n |-> n + 1, by |-> p]
<1>1. /\ n \in Nat /\ Cardinality(L) \in Nat /\ Len(heard[r]) \in Nat
      /\ n = Len(heard[r]) + Cardinality(L)
  BY ShiftedType, FS_CardinalityType DEF Tallied, Shifted, TypeOK
<1>2. IsFiniteSet(L) /\ Given(r) \cup {l.n : l \in L} = 1..n
  BY DEF Tallied
<1>3. Given(r)' = Given(r) /\ lost'[r] = L \cup {new}
  BY DEF Given
<1> HIDE DEF L, n
<1>4. new.n = n + 1
  OBVIOUS
<1>5. new \notin L
  <2>1. \A l \in L : l.n \in 1..n
    BY <1>2
  <2>2. n + 1 \notin 1..n
    BY <1>1
  <2> QED BY <1>4, <2>1, <2>2
<1> HIDE DEF new
<1>6. IsFiniteSet(L \cup {new}) /\ Cardinality(L \cup {new}) = Cardinality(L) + 1
  BY <1>2, <1>5, FS_AddElement
<1>7. Shifted(r)' = n + 1
  <2>1. Shifted(r)' = Len(heard[r]) + Cardinality(lost'[r])
    BY DEF Shifted
  <2> QED BY <1>1, <1>3, <1>6, <2>1
<1>8. Given(r)' \cup {l.n : l \in lost'[r]} = 1..(n + 1)
  <2>1. {l.n : l \in L \cup {new}} = {l.n : l \in L} \cup {n + 1}
    BY <1>4
  <2>2. 1..(n + 1) = (1..n) \cup {n + 1}
    BY <1>1
  <2> QED BY <1>2, <1>3, <2>1, <2>2
<1>9. Tallied(r)'
  BY <1>3, <1>6, <1>7, <1>8 DEF Tallied
<1> QED BY <1>7, <1>9 DEF n

\* A process is looked after as before, when nothing of it changes and every inbox
\* keeps what it has of it.
LEMMA Undisturbed ==
    ASSUME NEW r \in Procs, Tended(r), Counted(r),
           heard'[r] = heard[r], lost'[r] = lost[r], emitted'[r] = emitted[r],
           collector'[r] = collector[r], pending'[r] = pending[r],
           \A p \in Procs : r \in owned'[p] <=> r \in owned[p],
           \A p \in Procs : r \in owned[p] =>
              /\ ~dead'[p]
              /\ st'[p] = "running" => r \in children'[p]
              /\ st'[p] = "ending" => HandsUp(r, p)',
           \A p \in Procs : Reads(p)' /\ Says(inbox'[p], r) => Reads(p) /\ Says(inbox[p], r),
           \A p \in Procs : r \in owned[p] =>
              \A a, b : Numbered(inbox[p], r, a, b) => Numbered(inbox'[p], r, a, b)
    PROVE  Tended(r)' /\ Counted(r)'
<1>1. Tended(r)'
  BY DEF Tended
<1>2. Counted(r)'
  BY SameTally DEF Counted
<1> QED BY <1>1, <1>2

LEMMA InitComplete == TreeAssumption /\ Init => Complete
<1> SUFFICES ASSUME TreeAssumption, Init PROVE Complete
  OBVIOUS
<1>1. \A p \in Procs : inbox[p] = <<>> /\ pending[p] = <<>>
  BY DEF Init, Nothing
<1>2. ExitEnds
  BY <1>1, BoxEmpty DEF ExitEnds
<1>3. \A r \in Procs : ~Loyal(r)
  BY DEF Init, Loyal, Live
<1> QED BY <1>2, <1>3 DEF Complete

LEMMA EmitComplete ==
    ASSUME TreeAssumption, TypeOK, Places, Complete, NEW p \in Procs, Emit(p)
    PROVE  Complete'
<1> DEFINE e == Message(p, emitted[p] + 1, {})
<1>1. e \in Entry /\ e.from = p /\ e.own /\ e.n = emitted[p] + 1 /\ e.n # 0
  <2>1. emitted[p] + 1 \in 0..MaxEmits /\ emitted[p] + 1 # 0
    BY DEF Emit, TypeOK, TreeAssumption
  <2> QED BY <2>1, MessageType DEF Message
<1>2. inbox' = Told(inbox, e) /\ pending' = Collected(pending, e)
  BY DEF Emit
<1>3. UNCHANGED <<st, dead, children, owned, collector, awaiting, handing, heard, lost, cut>>
  BY DEF Emit, family
<1>4. \A q \in Procs : emitted'[q] = IF q = p THEN emitted[p] + 1 ELSE emitted[q]
  BY DEF Emit, TypeOK
<1> HIDE DEF e
<1>5. Unwatched
  BY DEF Places
<1>6. \A q \in Procs : inbox'[q] = IF p \in owned[q] /\ ~dead[q] THEN inbox[q] \o <<e>> ELSE inbox[q]
  BY <1>1, <1>2, <1>5, ToldTree DEF TypeOK
<1>7. \A q \in Procs : pending'[q] = IF q = p /\ collector[q] THEN pending[q] \o <<e>> ELSE pending[q]
  BY <1>1, <1>2, CollectedTree DEF TypeOK
<1>8. \A q \in Procs : inbox[q] \in Seq(Entry) /\ pending[q] \in Seq(Entry)
  BY DEF TypeOK, Boxes
<1>9. \A es \in Seq(Entry) : \A s : /\ Exited(es \o <<e>>, s) => Exited(es, s)
                                    /\ Says(es \o <<e>>, s) => Says(es, s) \/ s = p
  BY <1>1, BoxAdd
<1>10. \A q, s \in Procs : /\ Exited(inbox'[q], s) => Exited(inbox[q], s)
                           /\ Exited(pending'[q], s) => Exited(pending[q], s)
                           /\ Says(inbox'[q], s) => Says(inbox[q], s) \/ (s = p /\ p \in owned[q])
  BY <1>6, <1>7, <1>8, <1>9
<1>11. ExitEnds'
  BY <1>3, <1>10 DEF Complete, ExitEnds
<1>12. ASSUME NEW r \in Procs, Loyal(r)' PROVE Tended(r)' /\ Counted(r)'
  <2>1. Tended(r) /\ Counted(r)
    BY <1>3, <1>12 DEF Complete, Loyal, Live
  <2>2. CASE r # p
    <3>1. \A q \in Procs : \A a, b : Numbered(inbox[q], r, a, b) => Numbered(inbox'[q], r, a, b)
      <4>1. <<e>> \in Seq(Entry) /\ ~Says(<<e>>, r)
        BY <1>1, <2>2, BoxOne
      <4>2. \A es \in Seq(Entry) : \A a, b : Numbered(es, r, a, b) => Numbered(es \o <<e>>, r, a, b)
        BY <4>1, NumberedConcat
      <4> QED BY <1>6, <1>8, <4>2
    <3>2. \A q \in Procs : r \in owned[q] =>
             /\ ~dead'[q]
             /\ st'[q] = "running" => r \in children'[q]
             /\ st'[q] = "ending" => HandsUp(r, q)'
      BY <1>3, <2>1 DEF Tended, HandsUp
    <3>3. \A q \in Procs : Reads(q)' /\ Says(inbox'[q], r) => Reads(q) /\ Says(inbox[q], r)
      BY <1>3, <1>10, <2>2 DEF Reads, Active
    <3> QED BY <1>3, <1>4, <1>7, <2>1, <2>2, <3>1, <3>2, <3>3, Undisturbed
  <2>3. CASE r = p
    <3>1. Tended(p)'
      BY <1>3, <1>7, <1>10, <2>1, <2>3 DEF Tended, HandsUp, Reads, Active
    <3>2. Shifted(p) \in Nat /\ emitted[p] \in Nat /\ Shifted(p) \leq emitted[p]
      BY <2>1, <2>3, ShiftedType DEF Counted, TypeOK
    <3>3. \A es \in Seq(Entry) : Numbered(es, p, Shifted(p), emitted[p]) =>
             Numbered(es \o <<e>>, p, Shifted(p), emitted[p] + 1)
      BY <1>1, <3>2, NumberedNext
    <3>4. ASSUME NEW q \in Procs, p \in owned[q]
          PROVE  Numbered(inbox'[q], p, Shifted(p), emitted[p] + 1)
      <4>1. ~dead[q] /\ Numbered(inbox[q], p, Shifted(p), emitted[p])
        BY <2>1, <2>3, <3>4 DEF Tended, Counted
      <4> QED BY <1>6, <1>8, <3>3, <3>4, <4>1
    <3>5. collector[p] => Numbered(pending'[p], p, Shifted(p), emitted[p] + 1)
      BY <1>7, <1>8, <2>1, <2>3, <3>3 DEF Counted
    <3>6. Shifted(p) \leq emitted[p] + 1
      BY <3>2
    <3>8. Shifted(p)' = Shifted(p) /\ (Tallied(p) => Tallied(p)')
      BY <1>3, SameTally
    <3>7. Counted(p)'
      BY <3>8, <1>3, <1>4, <2>1, <2>3, <3>4, <3>5, <3>6 DEF Counted
    <3> QED BY <2>3, <3>1, <3>7
  <2> QED BY <2>2, <2>3
<1> QED BY <1>11, <1>12 DEF Complete

\* A tick takes the head of an inbox, and its message is given or lost.
LEMMA ShiftComplete ==
    ASSUME TypeOK, Places, Complete, NEW p \in Procs, NEW e, e = Head(inbox[p]), inbox[p] # <<>>,
           Reads(p), inbox' = [inbox EXCEPT ![p] = Tail(@)],
           UNCHANGED <<st, dead, children, owned, collector, pending, awaiting, handing,
                       emitted, cut>>,
           \A r \in Procs : r # e.from => heard'[r] = heard[r] /\ lost'[r] = lost[r],
           ASSUME NEW r \in Procs, r = e.from, e.own, e.n = Shifted(r) + 1, Tallied(r)
           PROVE  Shifted(r)' = Shifted(r) + 1 /\ Tallied(r)'
    PROVE  Complete'
<1> DEFINE es == inbox[p]
<1>2. \A q \in Procs : inbox[q] \in Seq(Entry)
  BY DEF TypeOK, Boxes
<1>3. \A q \in Procs : inbox'[q] = IF q = p THEN Tail(es) ELSE inbox[q]
  BY DEF TypeOK, Boxes
<1>4. /\ e \in Entry /\ Says(es, e.from)
      /\ \A s : Says(Tail(es), s) => Says(es, s)
      /\ \A s : Exited(Tail(es), s) => Exited(es, s)
  BY <1>2, BoxTail
<1>5. e.own /\ (e.n = 0 => Exited(es, e.from))
  <2>1. 1 \in DOMAIN es /\ es[1] = e
    BY <1>2
  <2>2. Plain(es)
    BY DEF Places, Unwatched
  <2> QED BY <2>1, <2>2 DEF Plain, Exited
<1>6. e.from \in Procs /\ e.n \in Nat
  BY <1>4 DEF Entry
<1>8. ExitEnds'
  BY <1>3, <1>4 DEF Complete, ExitEnds
<1>9. ASSUME NEW r \in Procs, Loyal(r)' PROVE Tended(r)' /\ Counted(r)'
  <2>1. Tended(r) /\ Counted(r) /\ Live(r)
    BY <1>9 DEF Complete, Loyal, Live
  <2>2. Shifted(r) \in Nat /\ emitted[r] \in Nat
    <3>1. emitted[r] \in 0..MaxEmits
      BY DEF TypeOK
    <3>2. 0..MaxEmits \subseteq Nat
      BY TreeAssumption DEF TreeAssumption
    <3> QED BY <2>1, <3>1, <3>2, ShiftedType DEF Counted
  <2>3. Tended(r)'
    BY <1>3, <1>4, <2>1 DEF Tended, HandsUp, Reads, Active
  <2>4. CASE r # e.from
    <3>1. ASSUME NEW q \in Procs, r \in owned[q]
          PROVE  Numbered(inbox'[q], r, Shifted(r), emitted[r])
      <4>1. Numbered(inbox[q], r, Shifted(r), emitted[r])
        BY <2>1, <3>1 DEF Counted
      <4>2. CASE q = p
        BY <1>2, <1>3, <2>2, <2>4, <4>1, <4>2, NumberedTail
      <4> QED BY <1>3, <4>1, <4>2
    <3>2. Shifted(r)' = Shifted(r) /\ (Tallied(r) => Tallied(r)')
      BY <2>4, SameTally
    <3>3. Counted(r)'
      BY <2>1, <3>1, <3>2 DEF Counted
    <3> QED BY <2>3, <3>3
  <2>5. CASE r = e.from
    <3>1. r \in owned[p]
      BY <1>4, <2>1, <2>5 DEF Tended
    <3>2. ~collector[r] /\ \A q \in Procs : r \in owned[q] => q = p
      BY <3>1 DEF Places, Collecting, OnePlace, At
    <3>3. e.n > 0
      <4>1. st[r] # "ended"
        BY <2>1 DEF Live
      <4>2. ~Exited(es, r)
        BY <4>1 DEF Complete, ExitEnds
      <4> QED BY <1>5, <1>6, <2>5, <4>2
    <3>4. Numbered(es, r, Shifted(r), emitted[r])
      BY <2>1, <3>1 DEF Counted
    <3>5. e.n = Shifted(r) + 1 /\ Shifted(r) + 1 \leq emitted[r]
          /\ Numbered(Tail(es), r, Shifted(r) + 1, emitted[r])
      BY <1>2, <1>5, <2>2, <2>5, <3>3, <3>4, NumberedTail
    <3>6. Shifted(r)' = Shifted(r) + 1 /\ Tallied(r)'
      BY <1>5, <2>1, <2>5, <3>5 DEF Counted
    <3>9. Counted(r)'
      BY <1>3, <3>2, <3>5, <3>6 DEF Counted
    <3> QED BY <2>3, <3>9
  <2> QED BY <2>4, <2>5
<1> QED BY <1>8, <1>9 DEF Complete

LEMMA TakeComplete ==
    ASSUME TypeOK, Places, Complete, NEW p \in Procs, Take(p)
    PROVE  Complete'
<1> DEFINE e == Head(inbox[p])
<1>1. /\ inbox[p] # <<>> /\ Reads(p)
      /\ inbox' = [inbox EXCEPT ![p] = Tail(@)]
      /\ heard' = [heard EXCEPT ![e.from] = IF e.own /\ e.n > 0 THEN Append(@, e.n) ELSE @]
      /\ UNCHANGED <<st, dead, children, owned, collector, pending, awaiting, handing,
                     emitted, lost, cut>>
  BY DEF Take, family, Reads, Active
<1>2. PICK f : f = e
  OBVIOUS
<1>3. heard' = [heard EXCEPT ![f.from] = IF f.own /\ f.n > 0 THEN Append(@, f.n) ELSE @]
  BY <1>1, <1>2
<1>4. \A r \in Procs : r # f.from => heard'[r] = heard[r] /\ lost'[r] = lost[r]
  BY <1>1, <1>3 DEF TypeOK
<1>5. ASSUME NEW r \in Procs, r = f.from, f.own, f.n = Shifted(r) + 1, Tallied(r)
      PROVE  Shifted(r)' = Shifted(r) + 1 /\ Tallied(r)'
  <2>1. f.n > 0
    BY <1>5, ShiftedType
  <2>2. heard' = [heard EXCEPT ![r] = Append(@, Shifted(r) + 1)]
    BY <1>3, <1>5, <2>1
  <2> QED BY <1>1, <1>5, <2>2, GivenNext
<1> HIDE DEF e
<1>6. f = Head(inbox[p])
  BY <1>2 DEF e
<1> QED BY <1>1, <1>4, <1>5, <1>6, ShiftComplete

LEMMA WasteComplete ==
    ASSUME TypeOK, Places, Complete, NEW p \in Procs, Swallow(p) \/ Drop(p)
    PROVE  Complete'
<1> DEFINE e == Head(inbox[p])
<1>1. /\ inbox[p] # <<>>
      /\ inbox' = [inbox EXCEPT ![p] = Tail(@)]
      /\ lost' = [lost EXCEPT ![e.from] =
                     IF e.own /\ e.n > 0 THEN @ \cup {[n |-> e.n, by |-> p]} ELSE @]
      /\ UNCHANGED <<st, dead, children, owned, collector, pending, awaiting, handing,
                     emitted, heard, cut>>
  BY DEF Swallow, Drop, Waste, family
<1>2. Reads(p)
  <2>1. watched[p] = {}
    BY DEF Places, Unwatched
  <2>2. st[p] = "ending" \/ owned[p] # {}
    BY <2>1 DEF Swallow, Drop
  <2> QED BY <2>2 DEF Reads, Active
<1>3. PICK f : f = e
  OBVIOUS
<1>4. lost' = [lost EXCEPT ![f.from] =
                  IF f.own /\ f.n > 0 THEN @ \cup {[n |-> f.n, by |-> p]} ELSE @]
  BY <1>1, <1>3
<1>5. \A r \in Procs : r # f.from => heard'[r] = heard[r] /\ lost'[r] = lost[r]
  BY <1>1, <1>4 DEF TypeOK
<1>6. ASSUME NEW r \in Procs, r = f.from, f.own, f.n = Shifted(r) + 1, Tallied(r)
      PROVE  Shifted(r)' = Shifted(r) + 1 /\ Tallied(r)'
  <2>1. f.n > 0
    BY <1>6, ShiftedType
  <2>2. lost'[r] = lost[r] \cup {[n |-> Shifted(r) + 1, by |-> p]}
    BY <1>4, <1>6, <2>1 DEF TypeOK
  <2> QED BY <1>1, <1>6, <2>2, LostNext
<1> HIDE DEF e
<1>7. f = Head(inbox[p])
  BY <1>3 DEF e
<1> QED BY <1>1, <1>2, <1>5, <1>6, <1>7, ShiftComplete

LEMMA ForkComplete ==
    ASSUME TypeOK, UnbornClean, Complete, NEW p \in Procs, Fork(p)
    PROVE  Complete'
<1>1. PICK c \in Procs :
         /\ st[c] = "unborn"
         /\ st' = [st EXCEPT ![c] = "running"]
         /\ children' = [children EXCEPT ![p] = @ \cup {c}]
         /\ owned' = [owned EXCEPT ![p] = @ \cup {c}]
  BY DEF Fork
<1>2. /\ ~dead[p] /\ st[p] = "running"
      /\ UNCHANGED <<dead, inbox, collector, pending, awaiting, handing, emitted, heard, lost, cut>>
  BY DEF Fork, news
<1>3. Absent(c) /\ Blank(c) /\ c # p
  BY <1>1, <1>2 DEF UnbornClean
<1>4. \A q \in Procs : /\ st'[q] = IF q = c THEN "running" ELSE st[q]
                       /\ children'[q] = IF q = p THEN children[p] \cup {c} ELSE children[q]
                       /\ owned'[q] = IF q = p THEN owned[p] \cup {c} ELSE owned[q]
  BY <1>1 DEF TypeOK, Books
<1>5. \A q \in Procs : /\ ~Says(inbox[q], c) /\ ~Exited(inbox[q], c) /\ ~Exited(pending[q], c)
                       /\ c \notin owned[q]
  BY <1>3 DEF Absent, Clean, Says, Exited
<1>6. /\ inbox[c] = <<>> /\ pending[c] = <<>> /\ ~collector[c] /\ owned[c] = {}
      /\ emitted[c] = 0 /\ heard[c] = <<>> /\ lost[c] = {}
  BY <1>3 DEF Blank
<1>7. ExitEnds'
  BY <1>2, <1>4, <1>5 DEF Complete, ExitEnds
<1>8. ASSUME NEW r \in Procs, r # c, Loyal(r)' PROVE Tended(r)' /\ Counted(r)'
  <2>1. Tended(r) /\ Counted(r)
    BY <1>2, <1>4, <1>8 DEF Complete, Loyal, Live
  <2>2. \A q \in Procs : r \in owned'[q] <=> r \in owned[q]
    BY <1>4, <1>8
  <2>3. \A q \in Procs : r \in owned[q] =>
           /\ ~dead'[q]
           /\ st'[q] = "running" => r \in children'[q]
           /\ st'[q] = "ending" => HandsUp(r, q)'
    BY <1>2, <1>4, <1>6, <2>1 DEF Tended, HandsUp
  <2>4. \A q \in Procs : Reads(q)' /\ Says(inbox'[q], r) => Reads(q) /\ Says(inbox[q], r)
    BY <1>2, <1>4, <1>6, BoxEmpty DEF Reads, Active
  <2> QED BY <1>2, <2>1, <2>2, <2>3, <2>4, Undisturbed
<1>9. Tended(c)'
  <2>1. \A q \in Procs : c \in owned'[q] => q = p
    BY <1>4, <1>5
  <2>2. c \in owned'[p] /\ c \in children'[p] /\ st'[p] = "running"
    BY <1>2, <1>3, <1>4
  <2> QED BY <1>2, <1>5, <1>6, <2>1, <2>2 DEF Tended
<1>10. Counted(c)'
  <2>1. emitted'[c] = 0 /\ heard'[c] = <<>> /\ lost'[c] = {}
    BY <1>2, <1>6
  <2>2. Shifted(c)' = 0
    BY <2>1, FS_EmptySet DEF Shifted
  <2>3. Tallied(c)'
    <3>1. Given(c)' = {}
      BY <2>1 DEF Given
    <3>2. 1..0 = {}
      OBVIOUS
    <3> QED BY <2>1, <2>2, <3>1, <3>2, FS_EmptySet DEF Tallied
  <2>4. \A q \in Procs : Numbered(inbox'[q], c, 0, 0)
    BY <1>2, <1>5, NumberedNone
  <2> QED BY <1>2, <1>6, <2>1, <2>2, <2>3, <2>4 DEF Counted
<1> QED BY <1>7, <1>8, <1>9, <1>10 DEF Complete

LEMMA QuietComplete ==
    ASSUME Complete,
           UNCHANGED <<st, dead, children, owned, inbox, collector, pending, awaiting, handing,
                       emitted, heard, lost, cut>>
    PROVE  Complete'
<1>1. ExitEnds'
  BY DEF Complete, ExitEnds
<1>2. ASSUME NEW r \in Procs, Loyal(r)' PROVE Tended(r)' /\ Counted(r)'
  <2>1. Tended(r) /\ Counted(r)
    BY <1>2 DEF Complete, Loyal, Live
  <2>2. Tended(r)'
    BY <2>1 DEF Tended, HandsUp, Reads, Active
  <2>3. Counted(r)'
    BY <2>1, SameTally DEF Counted
  <2> QED BY <2>2, <2>3
<1> QED BY <1>1, <1>2 DEF Complete

\* A hard kill cuts off those the process owned; the others lose nothing.
LEMMA ForceStopComplete ==
    ASSUME TypeOK, Complete, NEW k \in Procs, ForceStop(k),
           UNCHANGED <<st, children, awaiting, handing, emitted, heard, lost>>
    PROVE  Complete'
<1>1. \A q \in Procs : /\ q = k => dead'[q] /\ owned'[q] = {} /\ inbox'[q] = <<>> /\ pending'[q] = <<>>
                       /\ q # k => /\ dead'[q] = dead[q] /\ inbox'[q] = inbox[q]
                                   /\ owned'[q] = owned[q] \ {k}
                                   /\ pending'[q] = pending[q] /\ collector'[q] = collector[q]
  BY DEF ForceStop, TypeOK, Boxes, Books
<1>2. cut' = cut \cup owned[k]
  BY DEF ForceStop
<1>3. ExitEnds'
  BY <1>1, BoxEmpty DEF Complete, ExitEnds
<1>4. ASSUME NEW r \in Procs, Loyal(r)' PROVE Tended(r)' /\ Counted(r)'
  <2>1. r # k /\ r \notin owned[k] /\ Loyal(r)
    BY <1>1, <1>2, <1>4 DEF Loyal, Live
  <2>2. Tended(r) /\ Counted(r)
    BY <2>1 DEF Complete
  <2>3. \A q \in Procs : r \in owned'[q] <=> r \in owned[q]
    BY <1>1, <2>1
  <2>4. \A q \in Procs : r \in owned[q] =>
           /\ ~dead'[q]
           /\ st'[q] = "running" => r \in children'[q]
           /\ st'[q] = "ending" => HandsUp(r, q)'
    BY <1>1, <2>1, <2>2 DEF Tended, HandsUp
  <2>5. \A q \in Procs : Reads(q)' /\ Says(inbox'[q], r) => Reads(q) /\ Says(inbox[q], r)
    BY <1>1, BoxEmpty DEF Reads, Active
  <2>6. \A q \in Procs : r \in owned[q] => inbox'[q] = inbox[q]
    BY <1>1, <2>1
  <2>7. collector'[r] = collector[r] /\ pending'[r] = pending[r]
    BY <1>1, <2>1
  <2> QED BY <2>2, <2>3, <2>4, <2>5, <2>6, <2>7, Undisturbed
<1> QED BY <1>3, <1>4 DEF Complete

LEMMA KillComplete ==
    ASSUME TypeOK, Complete, NEW p \in Procs, Kill(p) \/ ForcedKill(p)
    PROVE  Complete'
<1>1. UNCHANGED <<st, children, awaiting, handing, emitted, heard, lost>>
  BY DEF Kill, ForcedKill
<1>2. ForceStop(p) \/ UNCHANGED <<dead, inbox, owned, watched, collector, pending, cut>>
  BY DEF Kill, ForcedKill
<1>3. CASE ForceStop(p)
  BY <1>1, <1>3, ForceStopComplete
<1>4. CASE UNCHANGED <<dead, inbox, owned, watched, collector, pending, cut>>
  BY <1>1, <1>4, QuietComplete
<1> QED BY <1>2, <1>3, <1>4

LEMMA BeginEndComplete ==
    ASSUME TypeOK, Complete, NEW p \in Procs, BeginEnd(p)
    PROVE  Complete'
<1>1. /\ st[p] = "running"
      /\ UNCHANGED <<dead, children, owned, inbox, collector, pending, emitted, heard, lost,
                     cut>>
  BY DEF BeginEnd, family, news
<1>2. \A q \in Procs : /\ st'[q] = IF q = p THEN "ending" ELSE st[q]
                       /\ handing'[q] = IF q = p THEN orphans[p] ELSE handing[q]
                       /\ awaiting'[q] = IF q = p THEN {c \in children[p] : ~Gone(c)} ELSE awaiting[q]
  BY DEF BeginEnd, TypeOK, Books
<1>3. ExitEnds'
  BY <1>1, <1>2 DEF Complete, ExitEnds
<1>4. ASSUME NEW r \in Procs, Loyal(r)' PROVE Tended(r)' /\ Counted(r)'
  <2>1. Live(r) /\ Tended(r) /\ Counted(r)
    BY <1>1, <1>2, <1>4 DEF Complete, Loyal, Live
  <2>2. ~Gone(r)
    BY <2>1 DEF Live, Gone
  <2>3. \A q \in Procs : r \in owned[q] =>
           /\ ~dead'[q]
           /\ st'[q] = "running" => r \in children'[q]
           /\ st'[q] = "ending" => HandsUp(r, q)'
    BY <1>1, <1>2, <2>1, <2>2 DEF Tended, HandsUp
  <2>4. \A q \in Procs : Reads(q)' /\ Says(inbox'[q], r) => Reads(q) /\ Says(inbox[q], r)
    BY <1>1, <1>2 DEF Reads, Active
  <2> QED BY <1>1, <2>1, <2>3, <2>4, Undisturbed
<1> QED BY <1>3, <1>4 DEF Complete

LEMMA ChildComplete ==
    ASSUME TypeOK, Complete, NEW p \in Procs, NEW c \in Procs,
           ChildStops(p, c) \/ ChildRefuses(p, c) \/ ChildThrows(p, c)
    PROVE  Complete'
<1>1. UNCHANGED <<dead, children, owned, inbox, collector, pending, emitted, heard, lost, cut>>
  BY DEF ChildStops, ChildRefuses, ChildThrows, family, news
<1>2. \A q \in Procs : st'[q] = st[q] \/ st'[q] = "ended"
  BY DEF ChildStops, ChildRefuses, ChildThrows, TypeOK
<1>3. \A q, s \in Procs : st'[q] # "ended" /\ HandsUp(s, q) /\ ~Gone(s) => HandsUp(s, q)'
  <2>1. CASE ChildStops(p, c)
    BY <2>1 DEF ChildStops, HandsUp, TypeOK, Books
  <2>2. CASE ChildRefuses(p, c)
    BY <2>2 DEF ChildRefuses, HandsUp, TypeOK, Books
  <2>3. CASE ChildThrows(p, c)
    BY <2>3 DEF ChildThrows, HandsUp, TypeOK, Books
  <2> QED BY <2>1, <2>2, <2>3
<1>4. ExitEnds'
  BY <1>1, <1>2 DEF Complete, ExitEnds
<1>5. ASSUME NEW r \in Procs, Loyal(r)' PROVE Tended(r)' /\ Counted(r)'
  <2>1. Live(r) /\ Tended(r) /\ Counted(r)
    BY <1>1, <1>2, <1>5 DEF Complete, Loyal, Live
  <2>2. ~Gone(r)
    BY <2>1 DEF Live, Gone
  <2>3. \A q \in Procs : r \in owned[q] =>
           /\ ~dead'[q]
           /\ st'[q] = "running" => r \in children'[q]
           /\ st'[q] = "ending" => HandsUp(r, q)'
    BY <1>1, <1>2, <1>3, <2>1, <2>2 DEF Tended
  <2>4. \A q \in Procs : Reads(q)' /\ Says(inbox'[q], r) => Reads(q) /\ Says(inbox[q], r)
    BY <1>1, <1>2 DEF Reads, Active
  <2> QED BY <1>1, <2>1, <2>3, <2>4, Undisturbed
<1> QED BY <1>4, <1>5 DEF Complete

\* onOrphan says adopt: the buffer the orphan carried goes to an inbox that has nothing
\* of it yet.
LEMMA AdoptComplete ==
    ASSUME TypeOK, Places, Complete, NEW p \in Procs, NEW r \in Procs, Decide(p, r), Adopt(p, r),
           UNCHANGED <<dead, watched, forced, off>>
    PROVE  Complete'
<1> DEFINE ps == pending[r]
           es == inbox[p]
<1>1. /\ st[p] = "running" /\ Active(p) /\ r \in deciding[p]
      /\ UNCHANGED <<st, dead, awaiting, handing, emitted, heard, lost>>
  BY DEF Decide, Active
<1>2. \A q \in Procs :
         /\ children'[q] = IF q # p THEN children[q]
                           ELSE IF ExitIn(ps) = {} THEN children[p] \cup {r} ELSE children[p] \ {r}
         /\ owned'[q] = IF q = p THEN owned[p] \cup {r} ELSE owned[q]
         /\ pending'[q] = IF q = r THEN <<>> ELSE pending[q]
         /\ inbox'[q] = IF q = p /\ ~dead[p] THEN es \o ps ELSE inbox[q]
  BY DEF Adopt, TypeOK, Books, Boxes
<1>3. /\ \A q \in Procs : q # r => collector'[q] = collector[q]
      /\ ~collector'[r]
  BY DEF Adopt, TypeOK
<1>4. /\ cut \subseteq cut' /\ (dead[p] => r \in cut')
  BY DEF Adopt
<1>5. es \in Seq(Entry) /\ ps \in Seq(Entry) /\ Sole(ps, r)
  BY DEF TypeOK, Boxes, Places, Unwatched
<1>6. /\ \A s : Says(es \o ps, s) => Says(es, s) \/ s = r
      /\ \A s : Exited(es \o ps, s) => Exited(es, s) \/ Exited(ps, s)
      /\ \A s : s # r => ~Says(ps, s)
  <2>1. \A s : Says(ps, s) => s = r
    BY <1>5, BoxFacts
  <2> QED BY <1>5, <2>1, BoxConcat
<1> HIDE DEF ps
<1>7. ExitEnds'
  <2>1. \A s \in Procs : Exited(es, s) \/ Exited(ps, s) => st[s] = "ended"
    BY DEF Complete, ExitEnds, ps
  <2> QED BY <1>1, <1>2, <1>6, <2>1, BoxEmpty DEF Complete, ExitEnds
<1>8. ASSUME NEW s \in Procs, s # r, Loyal(s)' PROVE Tended(s)' /\ Counted(s)'
  <2>1. Tended(s) /\ Counted(s)
    BY <1>1, <1>4, <1>8 DEF Complete, Loyal, Live
  <2>2. \A q \in Procs : s \in owned'[q] <=> s \in owned[q]
    BY <1>2, <1>8
  <2>3. \A q \in Procs : s \in owned[q] =>
           /\ ~dead'[q]
           /\ st'[q] = "running" => s \in children'[q]
           /\ st'[q] = "ending" => HandsUp(s, q)'
    BY <1>1, <1>2, <1>8, <2>1 DEF Tended, HandsUp
  <2>4. \A q \in Procs : Reads(q)' /\ Says(inbox'[q], s) => Reads(q) /\ Says(inbox[q], s)
    BY <1>1, <1>2, <1>6, <1>8 DEF Reads, Active
  <2>5. \A a, b : Numbered(es, s, a, b) => Numbered(es \o ps, s, a, b)
    BY <1>5, <1>6, <1>8, NumberedConcat
  <2>6. \A q \in Procs : \A a, b : Numbered(inbox[q], s, a, b) => Numbered(inbox'[q], s, a, b)
    BY <1>2, <2>5
  <2> QED BY <1>1, <1>2, <1>3, <1>8, <2>1, <2>2, <2>3, <2>4, <2>6, Undisturbed
<1>9. ASSUME Loyal(r)' PROVE Tended(r)' /\ Counted(r)'
  <2>1. ~dead[p] /\ Live(r) /\ Tended(r) /\ Counted(r)
    BY <1>1, <1>4, <1>9 DEF Complete, Loyal, Live
  <2>2. r \in orphans[p]
    BY <1>1 DEF Places, Decided
  <2>3. At(r, p) /\ r \notin owned[p]
    BY <1>1, <2>2 DEF At, Booked, Places, Apart
  <2>4. \A q \in Procs : q # p => ~At(r, q)
    BY <2>3 DEF Places, OnePlace
  <2>5. \A q \in Procs : r \notin owned[q]
    BY <2>3, <2>4 DEF At
  <2>6. collector[r] /\ ~Says(es, r)
    BY <1>1, <2>1, <2>3, <2>5 DEF Tended, Reads
  <2>7. ExitIn(ps) = {}
    <3>1. ~Exited(ps, r)
      BY <2>1 DEF Complete, ExitEnds, Live, ps
    <3>2. \A i \in DOMAIN ps : ps[i].n # 0
      BY <1>5, <3>1 DEF Sole, Exited
    <3> QED BY <3>2 DEF ExitIn
  <2>8. \A q \in Procs : Reads(q)' /\ Says(inbox'[q], r) => q = p
    <3>1. \A q \in Procs : q # p /\ Reads(q) => ~Says(inbox[q], r)
      BY <2>1, <2>5 DEF Tended
    <3> QED BY <1>1, <1>2, <3>1 DEF Reads, Active
  <2>9. \A q \in Procs : r \in owned'[q] <=> q = p
    BY <1>2, <2>5
  <2>10. Tended(r)'
    <3>1. r \in children'[p] /\ pending'[r] = <<>>
      BY <1>2, <2>7
    <3> QED BY <1>1, <2>1, <2>8, <2>9, <3>1 DEF Tended
  <2>11. Numbered(es \o ps, r, Shifted(r), emitted[r])
    <3>1. Numbered(ps, r, Shifted(r), emitted[r])
      BY <2>1, <2>6 DEF Counted, ps
    <3> QED BY <1>5, <2>6, <3>1, NumberedConcat
  <2>12. Counted(r)'
    BY <1>1, <1>2, <1>3, <2>1, <2>9, <2>11, SameTally DEF Counted
  <2> QED BY <2>10, <2>12
<1> QED BY <1>7, <1>8, <1>9 DEF Complete

\* onOrphan says unparent: the buffer goes, and so does the promise.
LEMMA UnparentComplete ==
    ASSUME TypeOK, Complete, NEW r \in Procs,
           collector' = [collector EXCEPT ![r] = FALSE],
           pending' = [pending EXCEPT ![r] = <<>>],
           cut' = cut \cup {r},
           UNCHANGED <<st, dead, children, owned, inbox, awaiting, handing, emitted, heard, lost>>
    PROVE  Complete'
<1>1. /\ \A q \in Procs : q # r => collector'[q] = collector[q] /\ pending'[q] = pending[q]
      /\ pending'[r] = <<>>
  BY DEF TypeOK, Boxes
<1>2. ExitEnds'
  BY <1>1, BoxEmpty DEF Complete, ExitEnds
<1>3. ASSUME NEW s \in Procs, Loyal(s)' PROVE Tended(s)' /\ Counted(s)'
  <2>1. s # r /\ Tended(s) /\ Counted(s)
    BY <1>3 DEF Complete, Loyal, Live
  <2>2. Tended(s)'
    BY <1>1, <2>1 DEF Tended, HandsUp, Reads, Active
  <2>3. Counted(s)'
    BY <1>1, <2>1, SameTally DEF Counted
  <2> QED BY <2>2, <2>3
<1> QED BY <1>2, <1>3 DEF Complete

LEMMA DecideComplete ==
    ASSUME TypeOK, Places, Complete, NEW p \in Procs, NEW r \in Procs, Decide(p, r)
    PROVE  Complete'
<1>1. UNCHANGED <<st, awaiting, handing, emitted, heard, lost>>
  BY DEF Decide
<1>2. CASE Adopt(p, r) /\ UNCHANGED <<dead, watched, forced, off>>
  BY <1>2, AdoptComplete
<1>3. CASE /\ orphans' = [orphans EXCEPT ![p] = @ \ {r}]
           /\ IF dead[r]
              THEN UNCHANGED <<dead, owned, watched, inbox, collector, pending, forced, off, cut>>
              ELSE ForceStop(r) /\ forced' = AskedToo(children[r])
           /\ UNCHANGED children
  <2>1. CASE dead[r]
    BY <1>1, <1>3, <2>1, QuietComplete
  <2>2. CASE ~dead[r]
    BY <1>1, <1>3, <2>2, ForceStopComplete
  <2> QED BY <2>1, <2>2
<1>4. CASE /\ collector' = [collector EXCEPT ![r] = FALSE]
           /\ pending' = [pending EXCEPT ![r] = <<>>]
           /\ cut' = cut \cup {r}
           /\ UNCHANGED <<dead, family, inbox, forced, off>>
  <2>1. UNCHANGED <<children, owned>>
    BY <1>4 DEF family
  <2> QED BY <1>1, <1>4, <2>1, UnparentComplete
<1>5. CASE UNCHANGED <<dead, family, inbox, collector, pending, forced, off, cut>>
  <2>1. UNCHANGED <<children, owned>>
    BY <1>5 DEF family
  <2> QED BY <1>1, <1>5, <2>1, QuietComplete
<1> QED BY <1>2, <1>3, <1>4, <1>5 DEF Decide

\* The end of a process: each orphan it hands up takes along what the inbox has of it.
LEMMA FinishComplete ==
    ASSUME TreeAssumption, TypeOK, Places, Complete, NEW p \in Procs, Finish(p)
    PROVE  Complete'
<1> DEFINE e == FinalEntry(p)
           H == handing[p]
           Part(x) == Picked(inbox[p], From(inbox[p], {x}))
<1>0. Unwatched
  BY DEF Places
<1>1. e \in Entry /\ e.from = p /\ e.n = 0
  BY <1>0, FinishParts
<1>2. /\ \A q \in Procs : q # p =>
            inbox'[q] = IF p \in owned[q] /\ ~dead[q] THEN inbox[q] \o <<FinalEntry(p)>> ELSE inbox[q]
      /\ inbox'[p] = IF p \in owned[p] /\ ~dead[p] THEN Kept(p)[p] \o <<FinalEntry(p)>> ELSE Kept(p)[p]
      /\ Kept(p)[p] = Picked(inbox[p], From(inbox[p], Procs \ handing[p]))
  BY <1>0, FinishParts
<1>3. /\ \A x \in Procs : BackFed(p)[x] \in Seq(Entry)
      /\ \A x \in Procs : x \in handing[p] =>
            BackFed(p)[x] = Picked(inbox[p], From(inbox[p], {x})) \o pending[x]
      /\ \A x \in Procs : x \notin handing[p] => BackFed(p)[x] = pending[x]
      /\ \A x \in Procs : x # p \/ ~collector[p] => pending'[x] = BackFed(p)[x]
      /\ collector[p] => pending'[p] = BackFed(p)[p] \o <<FinalEntry(p)>>
  BY <1>0, FinishParts
<1>4. /\ st[p] = "ending" /\ awaiting[p] = {} /\ Active(p)
      /\ UNCHANGED <<dead, awaiting, emitted, heard, lost, cut>>
      /\ \A q \in Procs : /\ st'[q] = IF q = p THEN "ended" ELSE st[q]
                          /\ owned'[q] = IF q = p THEN {} ELSE owned[q]
                          /\ handing'[q] = IF q = p THEN {} ELSE handing[q]
  BY DEF Finish, TypeOK, Books, Active, news
<1>5. \A q \in Procs : children'[q] = IF p \in owned[q] THEN children[q] \ {p} ELSE children[q]
  BY DEF Finish
<1>6. \A q \in Procs : /\ q \in H => collector'[q]
                       /\ q \notin H => collector'[q] = collector[q]
  <2>1. \A q \in Procs : collector'[q] = (collector[q] \/ q \in H)
    BY DEF Finish
  <2>2. \A q \in Procs : collector[q] \in BOOLEAN
    BY DEF TypeOK
  <2> HIDE DEF H
  <2>3. ASSUME NEW q \in Procs, q \in H PROVE collector'[q]
    BY <2>1, <2>3
  <2>4. ASSUME NEW q \in Procs, q \notin H PROVE collector'[q] = collector[q]
    <3>1. CASE collector[q] = TRUE
      BY <2>1, <3>1
    <3>2. CASE collector[q] = FALSE
      BY <2>1, <2>4, <3>2
    <3> QED BY <2>2, <3>1, <3>2
  <2> QED BY <2>3, <2>4
<1>7. \A q \in Procs : inbox[q] \in Seq(Entry) /\ pending[q] \in Seq(Entry)
  BY DEF TypeOK, Boxes
<1> HIDE DEF e
<1>8. \A x \in Procs : /\ Part(x) \in Seq(Entry)
                       /\ \A s : Says(Part(x), s) => Says(inbox[p], s)
                       /\ \A s : Exited(Part(x), s) => Exited(inbox[p], s)
  BY <1>7, BoxPart
<1>9. /\ Kept(p)[p] \in Seq(Entry)
      /\ \A s : Exited(Kept(p)[p], s) => Exited(inbox[p], s)
  BY <1>2, <1>7, BoxPart
<1>10. \A es \in Seq(Entry) : \A s : /\ Exited(es \o <<e>>, s) => Exited(es, s) \/ s = p
                                     /\ Says(es \o <<e>>, s) => Says(es, s) \/ s = p
  BY <1>1, BoxAdd
<1>11. \A q, s \in Procs : Exited(inbox'[q], s) => Exited(inbox[q], s) \/ s = p
  <2>1. ASSUME NEW q \in Procs, NEW s \in Procs, Exited(inbox'[q], s)
        PROVE  Exited(inbox[q], s) \/ s = p
    <3>1. CASE q # p
      <4>1. inbox'[q] = inbox[q] \/ inbox'[q] = inbox[q] \o <<e>>
        BY <1>2, <3>1 DEF e
      <4>2. inbox[q] \in Seq(Entry)
        BY <1>7
      <4>3. Exited(inbox[q] \o <<e>>, s) => Exited(inbox[q], s) \/ s = p
        BY <1>10, <4>2
      <4> QED BY <2>1, <4>1, <4>3
    <3>2. CASE q = p
      <4>1. inbox'[p] = Kept(p)[p] \/ inbox'[p] = Kept(p)[p] \o <<e>>
        BY <1>2 DEF e
      <4>2. Exited(Kept(p)[p] \o <<e>>, s) => Exited(Kept(p)[p], s) \/ s = p
        BY <1>9, <1>10
      <4> QED BY <1>9, <2>1, <3>2, <4>1, <4>2
    <3> QED BY <3>1, <3>2
  <2> QED BY <2>1
<1>12. \A x, s \in Procs : Exited(pending'[x], s) => Exited(pending[x], s) \/ Exited(inbox[p], s) \/ s = p
  <2>1. ASSUME NEW x \in Procs, NEW s, Exited(BackFed(p)[x], s)
        PROVE  Exited(pending[x], s) \/ Exited(inbox[p], s)
    <3>1. CASE x \in H
      <4>1. Exited(Part(x) \o pending[x], s)
        BY <1>3, <2>1, <3>1
      <4> HIDE DEF Part
      <4>2. Exited(Part(x), s) \/ Exited(pending[x], s)
        BY <1>7, <1>8, <4>1, BoxConcat
      <4> QED BY <1>8, <4>2
    <3>2. CASE x \notin H
      BY <1>3, <2>1, <3>2
    <3> QED BY <3>1, <3>2
  <2>2. ASSUME NEW x \in Procs, NEW s \in Procs, Exited(pending'[x], s)
        PROVE  Exited(BackFed(p)[x], s) \/ s = p
    <3>1. CASE x # p \/ ~collector[p]
      BY <1>3, <2>2, <3>1
    <3>2. CASE x = p /\ collector[p]
      <4>1. pending'[x] = BackFed(p)[x] \o <<e>> /\ BackFed(p)[x] \in Seq(Entry)
        BY <1>3, <3>2 DEF e
      <4> QED BY <1>10, <2>2, <4>1
    <3> QED BY <3>1, <3>2
  <2> QED BY <2>1, <2>2
<1>13. ExitEnds'
  <2>1. \A q \in Procs : st[q] = "ended" => st'[q] = "ended"
    BY <1>4
  <2>2. st'[p] = "ended"
    BY <1>4
  <2> QED BY <1>11, <1>12, <2>1, <2>2 DEF Complete, ExitEnds
<1>14. ASSUME NEW r \in Procs, Loyal(r)'
       PROVE  r # p /\ Live(r) /\ Tended(r) /\ Counted(r) /\ pending'[r] = BackFed(p)[r]
  <2>1. r # p
    BY <1>4, <1>14 DEF Loyal, Live
  <2>2. Loyal(r)
    BY <1>4, <1>14, <2>1 DEF Loyal, Live
  <2> QED BY <1>3, <2>1, <2>2 DEF Complete, Loyal
<1>15. ASSUME NEW r \in Procs, Loyal(r)', r \notin H PROVE Tended(r)' /\ Counted(r)'
  <2>1. r # p /\ Tended(r) /\ Counted(r) /\ pending'[r] = pending[r]
    BY <1>3, <1>14, <1>15
  <2>2. r \notin owned[p]
    BY <1>4, <1>15, <2>1 DEF Tended, HandsUp
  <2>3. \A q \in Procs : r \in owned'[q] <=> r \in owned[q]
    BY <1>4, <2>2
  <2>4. ASSUME NEW q \in Procs, r \in owned[q]
        PROVE  /\ ~dead'[q]
               /\ st'[q] = "running" => r \in children'[q]
               /\ st'[q] = "ending" => HandsUp(r, q)'
    <3>1. /\ ~dead[q] /\ q # p /\ st'[q] = st[q] /\ handing'[q] = handing[q]
          /\ st[q] = "running" => r \in children[q]
          /\ st[q] = "ending" => HandsUp(r, q)
      BY <1>4, <2>1, <2>2, <2>4 DEF Tended
    <3>2. children'[q] = children[q] \/ children'[q] = children[q] \ {p}
      BY <1>5
    <3> QED BY <1>4, <2>1, <3>1, <3>2 DEF HandsUp
  <2>5. \A q \in Procs : Reads(q)' /\ Says(inbox'[q], r) => Reads(q) /\ Says(inbox[q], r)
    <3>1. ASSUME NEW q \in Procs, Reads(q)', Says(inbox'[q], r) PROVE Reads(q) /\ Says(inbox[q], r)
      <4>1. q # p /\ Reads(q)
        BY <1>4, <3>1 DEF Reads, Active
      <4> QED BY <1>2, <1>7, <1>10, <2>1, <3>1, <4>1 DEF e
    <3> QED BY <3>1
  <2>6. ASSUME NEW q \in Procs, r \in owned[q], NEW a, NEW b, Numbered(inbox[q], r, a, b)
        PROVE  Numbered(inbox'[q], r, a, b)
    <3>1. q # p
      BY <2>2, <2>6
    <3>2. <<e>> \in Seq(Entry) /\ ~Says(<<e>>, r)
      BY <1>1, <2>1, BoxOne
    <3>3. Numbered(inbox[q] \o <<e>>, r, a, b)
      BY <1>7, <2>6, <3>2, NumberedConcat
    <3> QED BY <1>2, <2>6, <3>1, <3>3 DEF e
  <2>7. collector'[r] = collector[r] /\ heard'[r] = heard[r] /\ lost'[r] = lost[r]
        /\ emitted'[r] = emitted[r]
    BY <1>4, <1>6, <1>15
  <2> QED BY <2>1, <2>3, <2>4, <2>5, <2>6, <2>7, Undisturbed
<1>16. ASSUME NEW r \in Procs, Loyal(r)', r \in H PROVE Tended(r)' /\ Counted(r)'
  <2>1. r # p /\ Tended(r) /\ Counted(r) /\ pending'[r] = Part(r) \o pending[r]
    BY <1>3, <1>14, <1>16
  <2>2. At(r, p)
    BY <1>4, <1>16 DEF At, Booked
  <2>3. \A q \in Procs : q # p => r \notin owned[q]
    <3>1. \A q \in Procs : q # p => ~At(r, q)
      BY <2>2 DEF Places, OnePlace
    <3> QED BY <3>1 DEF At
  <2>4. collector'[r] /\ \A q \in Procs : r \notin owned'[q]
    BY <1>4, <1>6, <1>16, <2>3
  <2>5. \A q \in Procs : ~(Reads(q)' /\ Says(inbox'[q], r))
    <3>1. ASSUME NEW q \in Procs, Reads(q)', Says(inbox'[q], r) PROVE FALSE
      <4>1. q # p /\ Reads(q)
        BY <1>4, <3>1 DEF Reads, Active
      <4>2. Says(inbox[q], r)
        BY <1>2, <1>7, <1>10, <2>1, <3>1, <4>1 DEF e
      <4> QED BY <2>1, <2>3, <4>1, <4>2 DEF Tended
    <3> QED BY <3>1
  <2>6. Tended(r)'
    BY <2>4, <2>5 DEF Tended
  <2>7. Numbered(pending'[r], r, Shifted(r), emitted[r])
    <3>1. CASE r \in owned[p]
      <4>1. ~collector[r] /\ Numbered(inbox[p], r, Shifted(r), emitted[r])
        BY <2>1, <3>1 DEF Places, Collecting, Counted
      <4>2. pending[r] = <<>>
        BY <2>1, <4>1 DEF Tended
      <4>3. pending'[r] = Part(r)
        <5> DEFINE us == Part(r)
        <5>1. us \in Seq(Entry)
          BY <1>8
        <5>2. pending'[r] = us \o pending[r]
          BY <2>1
        <5> HIDE DEF us
        <5>3. pending'[r] = us
          BY <4>2, <5>1, <5>2
        <5> QED BY <5>3 DEF us
      <4>4. Numbered(Part(r), r, Shifted(r), emitted[r])
        BY <1>7, <4>1, NumberedPart
      <4> QED BY <4>3, <4>4
    <3>2. CASE r \notin owned[p]
      <4>1. collector[r] /\ ~Says(inbox[p], r)
        BY <1>4, <2>1, <2>3, <3>2 DEF Tended, Reads
      <4>2. Numbered(pending[r], r, Shifted(r), emitted[r])
        BY <2>1, <4>1 DEF Counted
      <4> HIDE DEF Part
      <4>3. ~Says(Part(r), r)
        BY <1>8, <4>1
      <4>4. Numbered(Part(r) \o pending[r], r, Shifted(r), emitted[r])
        BY <1>7, <1>8, <4>2, <4>3, NumberedConcat
      <4> QED BY <2>1, <4>4
    <3> QED BY <3>1, <3>2
  <2>8. Counted(r)'
    BY <1>4, <2>1, <2>4, <2>7, SameTally DEF Counted
  <2> QED BY <2>6, <2>8
<1> QED BY <1>13, <1>15, <1>16 DEF Complete

LEMMA NextComplete ==
    ASSUME TreeAssumption, Monitors = {}, TypeOK, UnbornClean, Places, Complete, [Next]_vars
    PROVE  Complete'
<1>1. CASE UNCHANGED vars
  BY <1>1, QuietComplete DEF vars
<1>2. ASSUME NEW p \in Procs, AskForce(p) \/ Escalate(p) \/ ForceThrows(p) PROVE Complete'
  <2>1. UNCHANGED <<st, dead, children, owned, inbox, collector, pending, awaiting, handing,
                    emitted, heard, lost, cut>>
    BY <1>2 DEF AskForce, Escalate, ForceThrows, family, news
  <2> QED BY <2>1, QuietComplete
<1>3. ASSUME NEW p \in Procs,
             \/ Emit(p) \/ Take(p) \/ Swallow(p) \/ Drop(p)
             \/ Fork(p) \/ BeginEnd(p) \/ Finish(p)
             \/ Kill(p) \/ AskForce(p) \/ Escalate(p) \/ ForcedKill(p) \/ ForceThrows(p)
      PROVE  Complete'
  BY <1>2, <1>3, EmitComplete, TakeComplete, WasteComplete, ForkComplete, BeginEndComplete,
     FinishComplete, KillComplete
<1>4. ASSUME NEW p \in Procs, NEW r \in Procs,
             \/ Monitor(p, r) \/ Decide(p, r)
             \/ ChildStops(p, r) \/ ChildRefuses(p, r) \/ ChildThrows(p, r)
      PROVE  Complete'
  <2>1. ~Monitor(p, r)
    BY DEF Monitor
  <2> QED BY <1>4, <2>1, DecideComplete, ChildComplete
<1> QED BY <1>1, <1>3, <1>4 DEF Next

-----------------------------------------------------------------------------
(* What is lost, and to whom.                                                 *)

\* Whoever lost a message has ended or will, and no request outside the ticks
\* ends it any more; if no child ends with an error, it lost no other.
Losses ==
    /\ \A r \in Procs : \A l \in lost[r] : st[l.by] \in {"ending", "ended"} /\ off[l.by] = "no"
    /\ \A p \in Procs : st[p] = "ended" => off[p] = "no"
    /\ Fails = {} =>
          /\ \A p \in Procs : st[p] = "ended" => owned[p] = {} /\ watched[p] = {}
          /\ \A r, q \in Procs : \A l \in lost[r], k \in lost[q] : k.by = l.by => q = r /\ k = l

LEMMA LossesBounded == Losses => LossBounded
BY DEF Losses, LossBounded

\* A step that loses nothing.
LEMMA LossesKept ==
    ASSUME TypeOK, Losses, UNCHANGED lost,
           \A p \in Procs :
              /\ st[p] \in {"ending", "ended"} => /\ st'[p] \in {"ending", "ended"}
                                                  /\ off'[p] \in {off[p], "no"}
              /\ st'[p] = "ended" => /\ off'[p] = "no"
                                     /\ Fails = {} => owned'[p] = {} /\ watched'[p] = {}
    PROVE  Losses'
<1>1. \A r \in Procs : \A l \in lost[r] : l.by \in Procs
  BY DEF TypeOK, Loss
<1>2. \A r \in Procs : \A l \in lost'[r] : st'[l.by] \in {"ending", "ended"} /\ off'[l.by] = "no"
  BY <1>1 DEF Losses
<1>3. Fails = {} =>
         \A r, q \in Procs : \A l \in lost'[r], k \in lost'[q] : k.by = l.by => q = r /\ k = l
  BY DEF Losses
<1> QED BY <1>2, <1>3 DEF Losses

LEMMA InitLosses == Init => Losses
<1> SUFFICES ASSUME Init PROVE Losses
  OBVIOUS
<1>1. \A r \in Procs : lost[r] = {} /\ st[r] # "ended"
  BY DEF Init, Nobody
<1> QED BY <1>1 DEF Losses

LEMMA EndLosses ==
    ASSUME TypeOK, Losses, NEW p \in Procs, NEW c \in Procs,
           BeginEnd(p) \/ ChildThrows(p, c) \/ Finish(p)
    PROVE  Losses'
<1>1. UNCHANGED lost
  BY DEF BeginEnd, ChildThrows, Finish, news
<1>2. CASE BeginEnd(p)
  <2>1. UNCHANGED <<owned, watched>>
    BY <1>2 DEF BeginEnd, family
  <2>2. \A q \in Procs : /\ q # p => st'[q] = st[q] /\ off'[q] = off[q]
                         /\ q = p => st[q] = "running" /\ st'[q] = "ending"
    BY <1>2 DEF BeginEnd, TypeOK
  <2> QED BY <1>1, <2>1, <2>2, LossesKept DEF Losses
<1>3. CASE ChildThrows(p, c)
  <2>1. UNCHANGED <<owned, watched>> /\ Fails # {}
    BY <1>3 DEF ChildThrows, family
  <2>2. \A q \in Procs : /\ q # p => st'[q] = st[q] /\ off'[q] = off[q]
                         /\ q = p => st'[q] = "ended" /\ off'[q] = "no"
    BY <1>3 DEF ChildThrows, TypeOK
  <2> QED BY <1>1, <2>1, <2>2, LossesKept DEF Losses
<1>4. CASE Finish(p)
  <2>1. \A q \in Procs : /\ q # p => /\ st'[q] = st[q] /\ off'[q] = off[q]
                                     /\ owned'[q] = owned[q] /\ watched'[q] = watched[q]
                         /\ q = p => /\ st'[q] = "ended" /\ off'[q] = "no"
                                     /\ owned'[q] = {} /\ watched'[q] = {}
    BY <1>4 DEF Finish, TypeOK, Books
  <2> QED BY <1>1, <2>1, LossesKept DEF Losses
<1> QED BY <1>2, <1>3, <1>4

LEMMA ForkLosses ==
    ASSUME TypeOK, UnbornClean, Losses, NEW p \in Procs, Fork(p)
    PROVE  Losses'
<1>1. PICK c \in Procs :
         /\ st[c] = "unborn"
         /\ st' = [st EXCEPT ![c] = "running"]
         /\ owned' = [owned EXCEPT ![p] = @ \cup {c}]
  BY DEF Fork
<1>2. UNCHANGED <<lost, off, watched>> /\ st[p] = "running"
  BY DEF Fork, news, ladder
<1>3. \A q \in Procs : /\ q # c => st'[q] = st[q]
                       /\ q = c => st'[q] = "running" /\ st[q] = "unborn"
                       /\ q # p => owned'[q] = owned[q]
  BY <1>1 DEF TypeOK, Books
<1> QED BY <1>2, <1>3, LossesKept DEF Losses

\* Who subscribes to whom, and what ends whom, when a process is killed or one more
\* orphan is decided about.
LEMMA KillLosses ==
    ASSUME TypeOK, Losses, NEW p \in Procs, ForceStop(p), UNCHANGED <<st, lost>>
    PROVE  Losses'
<1>1. \A q \in Procs : /\ off'[q] \in {off[q], "no"}
                       /\ owned'[q] \subseteq owned[q] /\ watched'[q] \subseteq watched[q]
  BY DEF ForceStop, TypeOK
<1> QED BY <1>1, LossesKept DEF Losses

LEMMA QuietLosses ==
    ASSUME TypeOK, Losses, UNCHANGED <<st, owned, watched, off, lost>>
    PROVE  Losses'
BY LossesKept DEF Losses

LEMMA DecideLosses ==
    ASSUME TypeOK, Losses, NEW p \in Procs, NEW r \in Procs, Decide(p, r)
    PROVE  Losses'
<1>1. UNCHANGED <<st, lost>> /\ st[p] = "running"
  BY DEF Decide
<1>2. CASE Adopt(p, r) /\ UNCHANGED <<dead, watched, forced, off>>
  <2>1. \A q \in Procs : q # p => owned'[q] = owned[q]
    BY <1>2 DEF Adopt, TypeOK
  <2> QED BY <1>1, <1>2, <2>1, LossesKept DEF Losses
<1>3. CASE ForceStop(r)
  BY <1>1, <1>3, KillLosses
<1>4. CASE UNCHANGED <<owned, watched, off>>
  BY <1>1, <1>4, QuietLosses
<1> QED BY <1>2, <1>3, <1>4 DEF Decide, family

LEMMA WasteLosses ==
    ASSUME TypeOK, Losses, NEW p \in Procs, Swallow(p) \/ Drop(p)
    PROVE  Losses'
<1> DEFINE e == Head(inbox[p])
           new == [n |-> e.n, by |-> p]
<1>1. /\ inbox[p] # <<>>
      /\ lost' = [lost EXCEPT ![e.from] = IF e.own /\ e.n > 0 THEN @ \cup {new} ELSE @]
      /\ UNCHANGED <<st, owned, watched>>
      /\ st[p] \in {"ending", "ended"}
  BY DEF Swallow, Drop, Waste, family
<1>2. e.from \in Procs
  <2>1. inbox[p] \in Seq(Entry)
    BY DEF TypeOK, Boxes
  <2>2. e \in Entry
    BY <1>1, <2>1
  <2> QED BY <2>2 DEF Entry
<1>3. new.by = p
  OBVIOUS
<1> HIDE DEF e, new
<1>4. /\ \A q \in Procs : off'[q] = IF q = p THEN "no" ELSE off[q]
  <2>1. CASE Swallow(p)
    BY <2>1 DEF Swallow, TypeOK
  <2>2. CASE Drop(p)
    BY <2>2 DEF Drop, ladder, Losses
  <2> QED BY <2>1, <2>2
<1>5. \A r \in Procs : \A l \in lost'[r] : l \in lost[r] \/ (r = e.from /\ l = new)
  BY <1>1, <1>2 DEF TypeOK
<1>6. \A r \in Procs : \A l \in lost'[r] : st'[l.by] \in {"ending", "ended"} /\ off'[l.by] = "no"
  <2>1. \A r \in Procs : \A l \in lost[r] : l.by \in Procs
    BY DEF TypeOK, Loss
  <2> QED BY <1>1, <1>3, <1>4, <1>5, <2>1 DEF Losses
<1>7. \A q \in Procs : st'[q] = "ended" => off'[q] = "no"
  BY <1>1, <1>4 DEF Losses
<1>8. ASSUME Fails = {}
      PROVE  \A r, q \in Procs : \A l \in lost'[r], k \in lost'[q] : k.by = l.by => q = r /\ k = l
  <2>1. Swallow(p)
    BY <1>8 DEF Drop, Losses
  <2>2. \A r \in Procs : \A l \in lost[r] : l.by # p
    BY <2>1 DEF Swallow, Losses
  <2>3. \A r, q \in Procs : \A l \in lost[r], k \in lost[q] : k.by = l.by => q = r /\ k = l
    BY <1>8 DEF Losses
  <2> QED BY <1>3, <1>5, <2>2, <2>3
<1>9. Fails = {} => \A q \in Procs : st'[q] = "ended" => owned'[q] = {} /\ watched'[q] = {}
  BY <1>1 DEF Losses
<1> QED BY <1>6, <1>7, <1>8, <1>9 DEF Losses

LEMMA NextLosses ==
    ASSUME TypeOK, UnbornClean, Losses, [Next]_vars
    PROVE  Losses'
<1>1. CASE UNCHANGED vars
  BY <1>1, QuietLosses DEF vars
<1>2. ASSUME NEW p \in Procs, NEW c \in Procs,
             \/ Emit(p) \/ AskForce(p) \/ ForceThrows(p) \/ ChildStops(p, c) \/ ChildRefuses(p, c)
      PROVE  Losses'
  <2>1. UNCHANGED <<st, owned, watched, off, lost>>
    BY <1>2 DEF Emit, AskForce, ForceThrows, ChildStops, ChildRefuses, family, ladder, news
  <2> QED BY <2>1, QuietLosses
<1>3. ASSUME NEW p \in Procs, Take(p) \/ Escalate(p) PROVE Losses'
  <2>1. UNCHANGED <<st, owned, watched, lost>>
    BY <1>3 DEF Take, Escalate, family, news
  <2>2. \A q \in Procs : st[q] = "running" \/ off'[q] \in {off[q], "no"}
    <3>1. CASE Take(p)
      BY <3>1 DEF Take, TypeOK
    <3>2. CASE Escalate(p)
      BY <3>2 DEF Escalate, TypeOK
    <3> QED BY <1>3, <3>1, <3>2
  <2> QED BY <2>1, <2>2, LossesKept DEF Losses
<1>4. ASSUME NEW p \in Procs, NEW c \in Procs, Monitor(p, c) PROVE Losses'
  <2>1. UNCHANGED <<st, owned, off, lost>> /\ st[p] = "running"
    BY <1>4 DEF Monitor, ladder, news
  <2>2. \A q \in Procs : q # p => watched'[q] = watched[q]
    BY <1>4 DEF Monitor, TypeOK
  <2> QED BY <2>1, <2>2, LossesKept DEF Losses
<1>5. ASSUME NEW p \in Procs, Kill(p) \/ ForcedKill(p) PROVE Losses'
  <2>1. UNCHANGED <<st, lost>>
    BY <1>5 DEF Kill, ForcedKill
  <2>2. ForceStop(p) \/ UNCHANGED <<owned, watched, off>>
    BY <1>5 DEF Kill, ForcedKill
  <2> QED BY <2>1, <2>2, KillLosses, QuietLosses
<1>6. ASSUME NEW p \in Procs,
             \/ Emit(p) \/ Take(p) \/ Swallow(p) \/ Drop(p)
             \/ Fork(p) \/ BeginEnd(p) \/ Finish(p)
             \/ Kill(p) \/ AskForce(p) \/ Escalate(p) \/ ForcedKill(p) \/ ForceThrows(p)
      PROVE  Losses'
  BY <1>2, <1>3, <1>5, <1>6, WasteLosses, ForkLosses, EndLosses
<1>7. ASSUME NEW p \in Procs, NEW r \in Procs,
             \/ Monitor(p, r) \/ Decide(p, r)
             \/ ChildStops(p, r) \/ ChildRefuses(p, r) \/ ChildThrows(p, r)
      PROVE  Losses'
  BY <1>2, <1>4, <1>7, DecideLosses, EndLosses
<1> QED BY <1>1, <1>6, <1>7 DEF Next

\* Where nobody calls monitor(), each message a live process sent up, unless dropped on
\* purpose, was given to its owners' reducers, in order and once, or is one of those a
\* tick took for an owner whose generator had ended (one at most of each owner, if no
\* child ends with an error), or waits in one box, in order: over any number of
\* handoffs (pvtTick, pvtPrepareHandoff and pvtBackFeed of src/src/process.async.ts,
\* adopt of src/src/define-actor.ts).
THEOREM TreeLossless ==
    ASSUME Monitors = {}
    PROVE  Spec => []Lossless
<1>1. Init => TypeOK /\ UnbornClean /\ Places /\ Complete /\ Losses
  BY InitType, InitClean, InitPlaces, InitComplete, InitLosses, TreeAssumption
<1>2. TypeOK /\ UnbornClean /\ Places /\ Complete /\ Losses /\ [Next]_vars
      => TypeOK' /\ UnbornClean' /\ Places' /\ Complete' /\ Losses'
  BY NextType, NextClean, NextPlaces, NextComplete, NextLosses, TreeAssumption
<1>3. TypeOK /\ Places /\ Complete /\ Losses => Lossless
  BY CompleteAccounted, LossesBounded DEF Lossless
<1> QED BY <1>1, <1>2, <1>3, PTL DEF Spec

=============================================================================
