---------------------------- MODULE ProcessTree ----------------------------
(***************************************************************************)
(* The tree of processes: who owns whom, the messages a child sends up, the *)
(* stop cascade of an ending process, the handoff of the children that      *)
(* refused to stop (src/src/process.async.ts), and what defineActor does    *)
(* with the orphans a child's EXIT carries (src/src/define-actor.ts).       *)
(*                                                                         *)
(* A process is seen from its tree.  A handler is one step, except the one  *)
(* for EXIT, which awaits its hook once per orphan; module Actor has the    *)
(* interleavings within one process.                                        *)
(***************************************************************************)
EXTENDS Naturals, FiniteSets, Sequences, Selection

CONSTANTS
    N,              \* bound: processes there may ever be, forked in order
    MaxEmits,       \* bound: messages each of them sends up
    Policy,         \* the decisions onOrphan may return
    Monitors,       \* pairs <<p, r>>: p may call monitor(r)
    Kills,          \* processes outsiders may forceStop() or stop({ force })
    Fails           \* processes whose hooks may throw while they end

Procs == 1..N
Root == 1

ASSUME TreeAssumption ==
    /\ N \in Nat \ {0}
    /\ MaxEmits \in Nat
    /\ Policy \subseteq {"adopt", "force-stop", "unparent", "leave"}
    /\ Monitors \subseteq Procs \X Procs
    /\ Kills \subseteq Procs /\ Fails \subseteq Procs

VARIABLES
    st,             \* the generator: unborn, running, in its finally, ended
    dead,           \* pvtDead
    children,       \* ctx.children
    orphans,        \* ctx.orphans
    owned,          \* whom a process subscribes to by adopt (pvtAdoptUnsubs)
    watched,        \* whom it subscribes to by monitor
    inbox,          \* buffer: what came up from others
    collector,      \* pvtCollectorUnsub is set: a collector buffers for it
    pending,        \* pvtPending (null is the empty sequence)
    deciding,       \* orphans of the EXIT in hand that have no decision yet
    awaiting,       \* children the finally block still awaits
    handing,        \* `orphans' of the finally block
    forced,         \* where a stop({ force: true }) of the process stands
    below,          \* the children that forced stop awaits
    off,            \* the request outside the ticks that may end the generator,
                    \* or is ending it: start()'s advance, a stop's return()
    emitted,        \* messages a process sent up
    heard,          \* those its owners' reducers were given, in order
    lost,           \* those an owner took for a generator that had ended
    cut             \* processes whose messages were dropped on purpose: they
                    \* were unparented, or their owner was hard-killed

family == <<children, orphans, owned, watched>>
news   == <<emitted, heard, lost, cut>>
ladder == <<forced, below, off>>
vars == <<st, dead, children, orphans, owned, watched, inbox, collector, pending,
          deciding, awaiting, handing, forced, below, off, emitted, heard, lost, cut>>

-----------------------------------------------------------------------------
\* What lands in an inbox: message n of `from' (0 is its EXIT, with the orphans
\* it hands up), through the adopt subscription (own) or through a monitor's.
Entry == [from : Procs, n : 0..MaxEmits, orphans : SUBSET Procs, own : BOOLEAN]

\* Message n of a process, shifted off the inbox by `by' to no end.
Loss == [n : 1..MaxEmits, by : Procs]

Books == [Procs -> SUBSET Procs]
Boxes == [Procs -> Seq(Entry)]

TypeOK ==
    /\ st \in [Procs -> {"unborn", "running", "ending", "ended"}]
    /\ dead \in [Procs -> BOOLEAN] /\ collector \in [Procs -> BOOLEAN]
    /\ children \in Books /\ orphans \in Books /\ owned \in Books /\ watched \in Books
    /\ deciding \in Books /\ awaiting \in Books /\ handing \in Books /\ below \in Books
    /\ inbox \in Boxes /\ pending \in Boxes
    /\ forced \in [Procs -> {"no", "asked", "escalated", "done", "threw"}]
    /\ off \in [Procs -> {"start", "return", "no"}]
    /\ emitted \in [Procs -> 0..MaxEmits] /\ heard \in [Procs -> Seq(1..MaxEmits)]
    /\ lost \in [Procs -> SUBSET Loss] /\ cut \subseteq Procs

Nobody == [p \in Procs |-> {}]
Nothing == [p \in Procs |-> <<>>]

Init ==
    /\ st = [p \in Procs |-> IF p = Root THEN "running" ELSE "unborn"]
    /\ dead = [p \in Procs |-> FALSE] /\ collector = [p \in Procs |-> FALSE]
    /\ children = Nobody /\ orphans = Nobody /\ owned = Nobody /\ watched = Nobody
    /\ inbox = Nothing /\ pending = Nothing
    /\ deciding = Nobody /\ awaiting = Nobody /\ handing = Nobody
    /\ forced = [p \in Procs |-> "no"] /\ below = Nobody
    /\ off = [p \in Procs |-> "start"]
    /\ emitted = [p \in Procs |-> 0] /\ heard = Nothing /\ lost = Nobody /\ cut = {}

Live(p) == st[p] \in {"running", "ending"} /\ ~dead[p]

\* What its stop() and wait() promises wait for: exitWaiter, or pvtDead.
Gone(p) == st[p] = "ended" \/ dead[p]

Owners(r) == {p \in Procs : r \in owned[p]}

-----------------------------------------------------------------------------
(* Messages up the tree. *)

\* ctx.toParent: entry e of process r lands at each subscriber; send() on a dead
\* one drops it.
Copies(p, e) ==
    (IF e.from \in owned[p] /\ ~dead[p] THEN <<e>> ELSE <<>>) \o
    (IF e.from \in watched[p] /\ ~dead[p] THEN <<[e EXCEPT !.own = FALSE]>> ELSE <<>>)
Told(boxes, e) == [p \in Procs |-> boxes[p] \o Copies(p, e)]
Collected(held, e) == [held EXCEPT ![e.from] = IF collector[e.from] THEN Append(@, e) ELSE @]

Message(r, n, os) == [from |-> r, n |-> n, orphans |-> os, own |-> TRUE]

Emit(r) ==
    /\ Live(r)
    /\ emitted[r] < MaxEmits
    /\ emitted' = [emitted EXCEPT ![r] = @ + 1]
    /\ LET e == Message(r, emitted[r] + 1, {}) IN
          inbox' = Told(inbox, e) /\ pending' = Collected(pending, e)
    /\ UNCHANGED <<st, dead, family, collector, deciding, awaiting, handing, ladder,
                   heard, lost, cut>>

\* Mutant of Take: an EXIT is logged like a message.
TakeLogsExit(p) ==
    /\ st[p] = "running" /\ ~dead[p] /\ deciding[p] = {} /\ inbox[p] # <<>>
    /\ off[p] # "return"
    /\ LET e == Head(inbox[p]) IN
          /\ inbox' = [inbox EXCEPT ![p] = Tail(@)]
          /\ deciding' = [deciding EXCEPT ![p] = e.orphans]
          /\ heard' = [heard EXCEPT ![e.from] = IF e.own THEN Append(@, e.n) ELSE @]
    /\ off' = [off EXCEPT ![p] = "no"]
    /\ UNCHANGED <<st, dead, family, collector, pending, awaiting, handing, forced, below,
                   emitted, lost, cut>>

\* The next message of the inbox reaches the reducer: the start is over by then, and
\* no return() waits to be served.
Take(p) ==
    /\ st[p] = "running" /\ ~dead[p] /\ deciding[p] = {} /\ inbox[p] # <<>>
    /\ off[p] # "return"
    /\ LET e == Head(inbox[p]) IN
          /\ inbox' = [inbox EXCEPT ![p] = Tail(@)]
          /\ deciding' = [deciding EXCEPT ![p] = e.orphans]
          /\ heard' = [heard EXCEPT ![e.from] = IF e.own /\ e.n > 0 THEN Append(@, e.n) ELSE @]
    /\ off' = [off EXCEPT ![p] = "no"]
    /\ UNCHANGED <<st, dead, family, collector, pending, awaiting, handing, forced, below,
                   emitted, lost, cut>>

\* A tick takes the head of p's inbox for a generator that will only answer `done'.
Waste(p) ==
    LET e == Head(inbox[p]) IN
    /\ inbox' = [inbox EXCEPT ![p] = Tail(@)]
    /\ lost' = [lost EXCEPT ![e.from] =
                   IF e.own /\ e.n > 0 THEN @ \cup {[n |-> e.n, by |-> p]} ELSE @]

\* No tick was under way when the generator ended: the next one queues its message
\* behind that end and is stuck there until the finally block is through.
Swallow(p) ==
    /\ st[p] = "ending" /\ ~dead[p] /\ off[p] # "no" /\ inbox[p] # <<>>
    /\ Waste(p)
    /\ off' = [off EXCEPT ![p] = "no"]
    /\ UNCHANGED <<st, dead, family, collector, pending, deciding, awaiting, handing,
                   forced, below, emitted, heard, cut>>

\* A process that ended on the error of a child still subscribes to the others.
\* (The inbox of one that ended in order holds nothing of a live process it owned.)
Drop(p) ==
    /\ st[p] = "ended" /\ ~dead[p] /\ owned[p] \cup watched[p] # {} /\ inbox[p] # <<>>
    /\ Waste(p)
    /\ UNCHANGED <<st, dead, family, collector, pending, deciding, awaiting, handing,
                   ladder, emitted, heard, cut>>

-----------------------------------------------------------------------------
(* fork, monitor, adopt. *)

Fork(p) ==
    /\ st[p] = "running" /\ ~dead[p]
    /\ \E r \in Procs :
          /\ st[r] = "unborn" /\ \A q \in 1..(r - 1) : st[q] # "unborn"
          /\ st' = [st EXCEPT ![r] = "running"]
          /\ children' = [children EXCEPT ![p] = @ \cup {r}]
          /\ owned' = [owned EXCEPT ![p] = @ \cup {r}]
    /\ UNCHANGED <<dead, orphans, watched, inbox, collector, pending, deciding,
                   awaiting, handing, ladder, news>>

Monitor(p, r) ==
    /\ <<p, r>> \in Monitors
    /\ st[p] = "running" /\ ~dead[p] /\ Live(r)
    /\ r \notin watched[p]
    /\ watched' = [watched EXCEPT ![p] = @ \cup {r}]
    /\ UNCHANGED <<st, dead, children, orphans, owned, inbox, collector, pending,
                   deciding, awaiting, handing, ladder, news>>

\* pvtChildMessage for the entries a handed-off orphan kept: its EXIT among them
\* takes it out of `children' again.
ExitIn(es) == {es[i] : i \in {j \in DOMAIN es : es[j].n = 0}}
Left(es) == UNION {e.orphans : e \in ExitIn(es)}

\* Mutants of Adopt: the subscription is forgotten; the orphan stays listed; the
\* buffer it carries is dropped.
AdoptDeaf(p, r) ==
    /\ children' = [children EXCEPT ![p] = @ \cup {r}]
    /\ orphans' = [orphans EXCEPT ![p] = @ \ {r}]
    /\ collector' = [collector EXCEPT ![r] = FALSE]
    /\ pending' = [pending EXCEPT ![r] = <<>>]
    /\ inbox' = [inbox EXCEPT ![p] = IF dead[p] THEN @ ELSE @ \o pending[r]]
    /\ UNCHANGED <<owned, cut>>

AdoptListedTwice(p, r) ==
    /\ children' = [children EXCEPT ![p] = IF ExitIn(pending[r]) = {} THEN @ \cup {r} ELSE @ \ {r}]
    /\ orphans' = [orphans EXCEPT ![p] = @ \cup Left(pending[r])]
    /\ owned' = [owned EXCEPT ![p] = @ \cup {r}]
    /\ collector' = [collector EXCEPT ![r] = FALSE]
    /\ pending' = [pending EXCEPT ![r] = <<>>]
    /\ inbox' = [inbox EXCEPT ![p] = IF dead[p] THEN @ ELSE @ \o pending[r]]
    /\ cut' = IF dead[p] THEN cut \cup {r} ELSE cut

AdoptUndrained(p, r) ==
    /\ children' = [children EXCEPT ![p] = @ \cup {r}]
    /\ orphans' = [orphans EXCEPT ![p] = @ \ {r}]
    /\ owned' = [owned EXCEPT ![p] = @ \cup {r}]
    /\ collector' = [collector EXCEPT ![r] = FALSE]
    /\ pending' = [pending EXCEPT ![r] = <<>>]
    /\ UNCHANGED <<inbox, cut>>

Adopt(p, r) ==
    /\ children' = [children EXCEPT ![p] = IF ExitIn(pending[r]) = {} THEN @ \cup {r} ELSE @ \ {r}]
    /\ orphans' = [orphans EXCEPT ![p] = (@ \cup Left(pending[r])) \ {r}]
    /\ owned' = [owned EXCEPT ![p] = @ \cup {r}]
    /\ collector' = [collector EXCEPT ![r] = FALSE]
    /\ pending' = [pending EXCEPT ![r] = <<>>]
    /\ inbox' = [inbox EXCEPT ![p] = IF dead[p] THEN @ ELSE @ \o pending[r]]
    /\ cut' = IF dead[p] THEN cut \cup {r} ELSE cut

-----------------------------------------------------------------------------
(* Hard kills. *)

\* stop({ force: true }) is called on the processes of S.
\* (Mutant: the ladder stops at the process itself.)
AskedNobody(S) == forced

AskedToo(S) ==
    [q \in Procs |-> IF q \in S /\ ~Gone(q) /\ forced[q] \in {"no", "threw"} THEN "asked" ELSE forced[q]]

\* forceStop() of p: inbox, subscribers, subscriptions and handoff state go.
ForceStop(p) ==
    /\ dead' = [dead EXCEPT ![p] = TRUE]
    /\ inbox' = [inbox EXCEPT ![p] = <<>>]
    /\ owned' = [q \in Procs |-> IF q = p THEN {} ELSE owned[q] \ {p}]
    /\ watched' = [q \in Procs |-> IF q = p THEN {} ELSE watched[q] \ {p}]
    /\ collector' = [collector EXCEPT ![p] = FALSE]
    /\ pending' = [pending EXCEPT ![p] = <<>>]
    /\ cut' = cut \cup owned[p]
    /\ off' = [off EXCEPT ![p] = "no"]

\* An outsider's forceStop(), with or without { cascade: true }.
Kill(p) ==
    /\ p \in Kills /\ Live(p)
    /\ ForceStop(p)
    /\ \/ forced' = forced
       \/ forced' = AskedToo(children[p])
    /\ UNCHANGED <<st, children, orphans, deciding, awaiting, handing, below,
                   emitted, heard, lost>>

AskForce(p) ==
    /\ p \in Kills /\ Live(p) /\ forced[p] = "no"
    /\ forced' = [forced EXCEPT ![p] = "asked"]
    /\ UNCHANGED <<st, dead, family, inbox, collector, pending, deciding, awaiting,
                   handing, below, off, news>>

\* The nice stop timed out: return() is called on the generator, and the same is
\* asked of the children, as they are now.
Escalate(p) ==
    /\ forced[p] = "asked" /\ ~Gone(p)
    /\ off' = [off EXCEPT ![p] = IF st[p] = "running" THEN "return" ELSE @]
    /\ forced' = [AskedToo(children[p]) EXCEPT ![p] = "escalated"]
    /\ below' = [below EXCEPT ![p] = {c \in children[p] : ~Gone(c)}]
    /\ UNCHANGED <<st, dead, family, inbox, collector, pending, deciding, awaiting,
                   handing, news>>

\* Mutant: the ladder waits for its children to complete, hard-killed or not.
ForcedKillPolite(p) ==
    /\ forced[p] = "escalated" /\ \A c \in below[p] : st[c] = "ended"
    /\ forced' = [forced EXCEPT ![p] = "done"]
    /\ IF dead[p] THEN UNCHANGED <<dead, inbox, owned, watched, collector, pending, off, cut>>
       ELSE ForceStop(p)
    /\ UNCHANGED <<st, children, orphans, deciding, awaiting, handing, below,
                   emitted, heard, lost>>

ForcedKill(p) ==
    /\ forced[p] = "escalated" /\ \A c \in below[p] : Gone(c)
    /\ forced' = [forced EXCEPT ![p] = "done"]
    /\ IF dead[p] THEN UNCHANGED <<dead, inbox, owned, watched, collector, pending, off, cut>>
       ELSE ForceStop(p)
    /\ UNCHANGED <<st, children, orphans, deciding, awaiting, handing, below,
                   emitted, heard, lost>>

\* A child that ended with an error, or whose own ladder met one, rejects the
\* Promise.all of the ladder.
ForceThrows(p) ==
    /\ forced[p] = "escalated"
    /\ \E c \in below[p] : (c \in Fails /\ st[c] = "ended") \/ forced[c] = "threw"
    /\ forced' = [forced EXCEPT ![p] = "threw"]
    /\ UNCHANGED <<st, dead, family, inbox, collector, pending, deciding, awaiting,
                   handing, below, off, news>>

-----------------------------------------------------------------------------
(* What an actor decides about each orphan of an EXIT.  The hook is awaited: a *)
(* process killed meanwhile decides all the same.                            *)

Decide(p, r) ==
    /\ st[p] = "running" /\ r \in deciding[p]
    /\ deciding' = [deciding EXCEPT ![p] = @ \ {r}]
    /\ \/ /\ "adopt" \in Policy
          /\ Adopt(p, r)
          /\ UNCHANGED <<dead, watched, forced, off>>
       \/ /\ "force-stop" \in Policy
          /\ orphans' = [orphans EXCEPT ![p] = @ \ {r}]
          /\ IF dead[r]
             THEN UNCHANGED <<dead, owned, watched, inbox, collector, pending, forced, off, cut>>
             ELSE ForceStop(r) /\ forced' = AskedToo(children[r])
          /\ UNCHANGED children
       \/ /\ "unparent" \in Policy
          /\ collector' = [collector EXCEPT ![r] = FALSE]
          /\ pending' = [pending EXCEPT ![r] = <<>>]
          /\ cut' = cut \cup {r}
          /\ UNCHANGED <<dead, family, inbox, forced, off>>
       \/ /\ "leave" \in Policy
          /\ UNCHANGED <<dead, family, inbox, collector, pending, forced, off, cut>>
    /\ UNCHANGED <<st, awaiting, handing, below, emitted, heard, lost>>

-----------------------------------------------------------------------------
(* pvtWatchExit: the finally block. *)

\* The generator ends: it was told STOP, is done, or throws, under a tick, which
\* then holds the inbox shut, or under a request outside the ticks.  The list of
\* orphans is copied before the children are awaited.
BeginEnd(p) ==
    /\ st[p] = "running" /\ (~dead[p] \/ deciding[p] # {})
    /\ st' = [st EXCEPT ![p] = "ending"]
    /\ deciding' = [deciding EXCEPT ![p] = {}]
    /\ handing' = [handing EXCEPT ![p] = orphans[p]]
    /\ awaiting' = [awaiting EXCEPT ![p] = {c \in children[p] : ~Gone(c)}]
    /\ \E o \in {"no"} \cup (IF deciding[p] = {} THEN {off[p]} ELSE {}) :
          off' = [off EXCEPT ![p] = o]
    /\ UNCHANGED <<dead, family, inbox, collector, pending, forced, below, news>>

ChildStops(p, c) ==
    /\ c \in awaiting[p] /\ Gone(c)
    /\ awaiting' = [awaiting EXCEPT ![p] = @ \ {c}]
    /\ UNCHANGED <<st, dead, family, inbox, collector, pending, deciding, handing,
                   ladder, news>>

\* The timer of the child's stop() wins, at times against an answer under way.
ChildRefuses(p, c) ==
    /\ c \in awaiting[p]
    /\ awaiting' = [awaiting EXCEPT ![p] = @ \ {c}]
    /\ handing' = [handing EXCEPT ![p] = @ \cup {c}]
    /\ UNCHANGED <<st, dead, family, inbox, collector, pending, deciding, ladder, news>>

\* The child's own error comes out of its stop() and out of the finally block, of
\* which nothing more is done: no handoff, no EXIT, no end of subscriptions.
ChildThrows(p, c) ==
    /\ c \in awaiting[p] \cap Fails /\ st[c] = "ended"
    /\ st' = [st EXCEPT ![p] = "ended"]
    /\ awaiting' = [awaiting EXCEPT ![p] = {}]
    /\ handing' = [handing EXCEPT ![p] = {}]
    /\ off' = [off EXCEPT ![p] = "no"]
    /\ UNCHANGED <<dead, family, inbox, collector, pending, deciding, forced, below, news>>

\* pvtBackFeed: what of orphan r is in p's inbox still; whatever subscription
\* brought it, adopt() will drain it as the owner's.
From(es, S) == {i \in DOMAIN es : es[i].from \in S}
Unread(p, r) ==
    LET es == Picked(inbox[p], From(inbox[p], {r}))
    IN  [i \in DOMAIN es |-> [es[i] EXCEPT !.own = TRUE]]
\* (Mutant: the inbox of the dying parent is discarded with it.)
NothingBackFed(p) == pending

BackFed(p) ==
    [r \in Procs |-> IF r \in handing[p] THEN Unread(p, r) \o pending[r] ELSE pending[r]]

\* In one step: prepare the handoff, say EXIT, unsubscribe from everyone.
Finish(p) ==
    /\ st[p] = "ending" /\ awaiting[p] = {}
    /\ st' = [st EXCEPT ![p] = "ended"]
    /\ LET e == Message(p, 0, handing[p])
           kept == [inbox EXCEPT ![p] = Picked(@, From(@, Procs \ handing[p]))] IN
          /\ inbox' = Told(kept, e)
          /\ pending' = Collected(BackFed(p), e)
    /\ collector' = [r \in Procs |-> collector[r] \/ r \in handing[p]]
    /\ children' = [o \in Procs |-> IF p \in owned[o] THEN children[o] \ {p} ELSE children[o]]
    /\ orphans' = [o \in Procs |-> IF p \in owned[o] THEN orphans[o] \cup handing[p] ELSE orphans[o]]
    /\ owned' = [owned EXCEPT ![p] = {}]
    /\ watched' = [watched EXCEPT ![p] = {}]
    /\ handing' = [handing EXCEPT ![p] = {}]
    /\ off' = [off EXCEPT ![p] = "no"]
    /\ UNCHANGED <<dead, deciding, awaiting, forced, below, news>>

-----------------------------------------------------------------------------
Next ==
    \/ \E p \in Procs :
          \/ Emit(p) \/ Take(p) \/ Swallow(p) \/ Drop(p)
          \/ Fork(p) \/ BeginEnd(p) \/ Finish(p)
          \/ Kill(p) \/ AskForce(p) \/ Escalate(p) \/ ForcedKill(p) \/ ForceThrows(p)
    \/ \E p, r \in Procs :
          \/ Monitor(p, r) \/ Decide(p, r)
          \/ ChildStops(p, r) \/ ChildRefuses(p, r) \/ ChildThrows(p, r)

Spec == Init /\ [][Next]_vars

\* Timers fire and settled promises are noticed; nobody has to stop on request.
Fairness ==
    \A p \in Procs :
        /\ WF_vars(Escalate(p)) /\ WF_vars(ForcedKill(p) \/ ForceThrows(p))
        /\ WF_vars(Finish(p))
        /\ \A c \in Procs : WF_vars(ChildStops(p, c) \/ ChildRefuses(p, c) \/ ChildThrows(p, c))

FairSpec == Spec /\ Fairness

-----------------------------------------------------------------------------
\* Those that have r in their books, and are there to act on it.
Holders(r) == {p \in Procs : Live(p) /\ r \in children[p] \cup orphans[p]}

\* A live process is in the books of one live process at most, once; whoever
\* subscribes to it is alone, and no collector listens beside it.
SingleOwner ==
    \A r \in Procs : Live(r) =>
        /\ \A p, q \in Holders(r) : p = q
        /\ \A p \in Holders(r) : r \notin children[p] \cap orphans[p]
        /\ \A p, q \in Owners(r) : p = q
        /\ collector[r] => Owners(r) = {}

\* No mute child: whom a live process counts among its children it also hears.
OwnerHears == \A p, r \in Procs : Live(p) /\ Live(r) /\ r \in children[p] => r \in owned[p]

\* The handoff keeps every message a live process sent up: those that left the
\* boxes were given to the reducers of its owners, in order and once each, but for
\* the ones lost to an ended generator; the rest waits, in order, in the inbox of
\* its owner or in the buffer it carries -- save for what was dropped on purpose.
Way(r) == (IF Owners(r) = {} THEN <<>> ELSE inbox[CHOOSE p \in Owners(r) : TRUE]) \o pending[r]
Own(es, r) == {i \in DOMAIN es : es[i].from = r /\ es[i].own /\ es[i].n > 0}
Numbered(es, r, a, b) ==
    /\ {es[i].n : i \in Own(es, r)} = (a + 1)..b
    /\ \A i, j \in Own(es, r) : i < j => es[i].n < es[j].n

Given(r) == {heard[r][i] : i \in DOMAIN heard[r]}
Shifted(r) == Len(heard[r]) + Cardinality(lost[r])
Accounted(r) ==
    /\ Shifted(r) \leq emitted[r]
    /\ \A i, j \in DOMAIN heard[r] : i < j => heard[r][i] < heard[r][j]
    /\ Given(r) \cup {l.n : l \in lost[r]} = 1..Shifted(r)
    /\ Numbered(Way(r), r, Shifted(r), emitted[r])

\* Only a process that ends loses any, and if no child ends with an error it loses
\* one, of all its children's messages.
LossBounded ==
    \A r \in Procs : \A l \in lost[r] :
        /\ st[l.by] \in {"ending", "ended"}
        /\ Fails = {} => \A q \in Procs : \A k \in lost[q] : k.by = l.by => q = r /\ k = l

Lossless ==
    /\ \A r \in Procs \ (cut \cup {Root}) : Live(r) => Accounted(r)
    /\ LossBounded

\* stop({ force: true }): "when the process refuses ... then hard-kills itself".
ForcedStopEnds == \A p \in Procs : forced[p] = "asked" ~> Gone(p)

\* And so do the children it had when it turned to them.
ForcedStopReachesChildren ==
    \A p, c \in Procs : (forced[p] = "escalated" /\ c \in below[p]) ~> Gone(c)

-----------------------------------------------------------------------------
(* What comments and proposals say and the code does not do: neither holds,   *)
(* see the README's known divergences.                                        *)

\* pvtWatchExit: "Hand surviving children and inherited orphans up to the parent":
\* a process with an owner that ends leaves nobody it held to nobody.
SurvivorsHandedUp ==
    [][\A p, r \in Procs :
          /\ Live(p) /\ st'[p] = "ended" /\ \E o \in Owners(p) : Live(o)
          /\ r \in children[p] \cup orphans[p] /\ Live(r)
          => \E q \in Procs : Live(q)' /\ r \in children'[q] \cup orphans'[q]]_vars

\* monitor(): "No ownership": whoever only monitors a process leaves its orphans
\* to the one that owns it.
MonitorHandsOff ==
    [][\A p, r \in Procs :
          r \in deciding[p] /\ r \notin deciding'[p] /\ r \notin orphans[p]
          => children'[p] = children[p] /\ dead'[r] = dead[r]]_vars

=============================================================================
