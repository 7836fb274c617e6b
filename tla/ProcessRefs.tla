---------------------------- MODULE ProcessRefs ----------------------------
(***************************************************************************)
(* References to processes on one connection: process-ref.ts (the table of *)
(* ids), process-streams.ts (what the side that holds a process says of    *)
(* it), remote-process.ts (the handle on the other side), and the parts of *)
(* deliver() in server.ts and client.ts that tie them together.            *)
(*                                                                         *)
(* One side holds the processes, the other reads; both sides of a real     *)
(* connection are both, with ids of different parity.  A frame carries at  *)
(* most one reference.  Ids of the model are 1, 2, ...; 0 is no reference. *)
(***************************************************************************)
EXTENDS Naturals, Sequences, FiniteSets, SequencesExt

CONSTANTS
    Carriers,   \* processes whose state and messages may hold a reference
    Leaves,     \* processes they refer to, which refer to nothing
    None,       \* no process, no handle, no record
    MaxIds,     \* bound: ids ever given; where they are all gone, nothing is numbered
    MaxSays,    \* bound: hand-overs, changes of state and messages
    MaxAsks,    \* bound: what the reader's side does with its handles
    Lists       \* the lists of kinds tune() is called with

Kinds == {"message", "state", "exit"}

ASSUME RefsAssumption ==
    /\ Carriers \cap Leaves = {}
    /\ None \notin Carriers \cup Leaves
    /\ IsFiniteSet(Carriers)
    /\ MaxIds \in Nat /\ Cardinality(Carriers) <= MaxIds
    /\ MaxSays \in Nat /\ MaxAsks \in Nat
    /\ Lists \subseteq SUBSET Kinds

Procs == Carriers \cup Leaves
Ids == 1 .. MaxIds

VARIABLES
    \* the holder's side
    running,    \* processes that have not ended
    state,      \* state[p]: how often it changed, and what it refers to
    number,     \* pvtMineIds: the id of a process, 0 if it has none
    named,      \* pvtMine: the process an id names
    nextId,     \* IdSpace.pvtNext
    unsaid,     \* pvtPending: processes, with ids, whose stream is not begun
    record,     \* pvtRecords: the kinds asked for, None without a stream
    asked,      \* processes told to stop from over there
    says,       \* counts towards MaxSays
    \* the wires
    toReader, toHolder,
    \* the reader's side
    far,        \* pvtTheirs: the handle bound to an id
    asks,       \* counts towards MaxAsks
    \* history
    deaf        \* ids whose $tune found no stream to tune

holder == <<running, state, number, named, nextId, unsaid, record, asked>>
reader == <<far, asks>>
vars == <<holder, says, toReader, toHolder, reader, deaf>>

---------------------------------------------------------------------------
\* The reader's handle.  Its state has two fields: "version", which every state of the
\* process has, and "holds", the process referred to, which a state may leave out.
\* "keeps" is how often the application kept it,
\* "count" the number the code keeps; "owned" and "transient" hold the ids of
\* other handles.  A handle that was let go of leaves these sets at once: the
\* code skips it wherever it meets it there.

NewHandle(p) ==
    [of |-> p, wanted |-> {}, version |-> 0, holds |-> None, exit |-> FALSE,
     waiting |-> FALSE, readying |-> FALSE, released |-> FALSE,
     keeps |-> 0, count |-> 0, owned |-> {}, transient |-> {}]

Handles ==
    [of : Procs, wanted : SUBSET Kinds, version : Nat, holds : Procs \cup {None},
     exit : BOOLEAN,
     waiting : BOOLEAN, readying : BOOLEAN, released : BOOLEAN,
     keeps : Nat, count : Nat, owned : SUBSET Ids, transient : SUBSET Ids]

ASSUME NoneAssumption == None \notin Handles /\ \A kinds \in SUBSET Kinds : kinds # None

Bound(id) == far[id] # None
Askable(id) ==
    Bound(id) /\ ~far[id].released /\ ~far[id].exit

\* table.release on the reader's side.
Unbind(f, lost) ==
    [i \in Ids |->
        IF i \in lost \/ f[i] = None THEN None
        ELSE [f[i] EXCEPT !.owned = @ \ lost, !.transient = @ \ lost]]

Owners(f, id) == {j \in Ids : f[j] # None /\ id \in f[j].owned}

---------------------------------------------------------------------------
\* Frames.  "about" and "refOf" say which process the sender meant.

ToReader(kind, p, id, v, ref, refOf) ==
    [kind |-> kind, to |-> id, about |-> p, v |-> v, ref |-> ref, refOf |-> refOf]
ToHolder(kind, id, kinds) ==
    [kind |-> kind, to |-> id, about |-> far[id].of, kinds |-> kinds]

Travels(wire, kinds, id) ==
    \E i \in DOMAIN wire : wire[i].kind \in kinds /\ wire[i].to = id

---------------------------------------------------------------------------
\* The holder's side.

\* Mutant: the lowest id no process goes by, instead of a new one.
NextIdReused == CHOOSE i \in Ids : /\ named[i] = None
                                   /\ \A j \in 1 .. i - 1 : named[j] # None

\* IdSpace.next: never the same one twice.
NextId == nextId

\* handleFor: the id a process goes by, made the first time it crosses.
IdFor(p) ==
    IF p = None THEN 0 ELSE IF number[p] # 0 THEN number[p] ELSE NextId

\* What numbering does to the tables; a new number's stream waits for flush.
Number(p) ==
    IF p # None /\ number[p] = 0
    THEN /\ nextId \in Ids
         /\ number' = [number EXCEPT ![p] = NextId]
         /\ named' = [named EXCEPT ![NextId] = p]
         /\ unsaid' = Append(unsaid, [proc |-> p, id |-> NextId])
         /\ nextId' = nextId + 1
    ELSE UNCHANGED <<number, named, unsaid, nextId>>

Say(frame, p) == Number(p) /\ toReader' = Append(toReader, frame)

\* The root hands a process over, in a message of its own.
HandOver(p) ==
    /\ says < MaxSays
    /\ says' = says + 1
    /\ Say(ToReader("message", None, 0, 0, IdFor(p), p), p)
    /\ UNCHANGED <<running, state, record, asked, toHolder, reader, deaf>>

\* A process publishes a new state, which refers to c or to nothing.
Publish(p, c) ==
    /\ says < MaxSays /\ p \in running
    /\ says' = says + 1
    /\ state' = [state EXCEPT ![p] = [v |-> @.v + 1, ref |-> c]]
    /\ IF number[p] # 0 /\ record[number[p]] # None
            /\ "state" \in record[number[p]]
       THEN Say(ToReader("state", p, number[p], state[p].v + 1, IdFor(c), c), c)
       ELSE UNCHANGED <<number, named, unsaid, nextId, toReader>>
    /\ UNCHANGED <<running, record, asked, toHolder, reader, deaf>>

\* A process emits a message with a reference in it or without.
Speak(p, c) ==
    /\ says < MaxSays /\ p \in running
    /\ number[p] # 0 /\ record[number[p]] # None
    /\ "message" \in record[number[p]]
    /\ says' = says + 1
    /\ Say(ToReader("message", p, number[p], 0, IdFor(c), c), c)
    /\ UNCHANGED <<running, state, record, asked, toHolder, reader, deaf>>

\* pvtStream: the methods are announced, and the stream begins in silence.  An
\* ended process gets no stream: sayEnded runs before any frame can ask for one.
Streamed(p, id) ==
    /\ record' = [record EXCEPT ![id] = IF p \in running THEN {} ELSE None]
    /\ toReader' = Append(toReader, ToReader("methods", p, id, 0, 0, None))

\* flush(), some time after the frame that numbered a process is written.
Flush ==
    /\ unsaid # <<>>
    /\ Streamed(Head(unsaid).proc, Head(unsaid).id)
    /\ unsaid' = Tail(unsaid)
    /\ UNCHANGED <<running, state, number, named, nextId, asked, says, toHolder,
                   reader, deaf>>

\* Mutant: the stream of an ended process stays open.
ClosedLater(id) == record

\* ProcessStreams.stop: nothing more is said about this one.
Closed(id) == IF id = 0 THEN record ELSE [record EXCEPT ![id] = None]

\* Mutant: what was asked for is read when the books are closed already.
ToldTooLate(id) == id # 0 /\ record'[id] # None

\* Whether the far side asked to hear of the end.
Told(id) == id # 0 /\ record[id] # None /\ "exit" \in record[id]

\* A process ends, and wait() settles: sayEnded.  Between the two there are microtasks
\* only, and no frame comes in among those.
End(p) ==
    /\ p \in running
    /\ running' = running \ {p}
    /\ record' = Closed(number[p])
    /\ LET s == state[p] IN
       IF Told(number[p])
       THEN Say(ToReader("exit", p, number[p], s.v, IdFor(s.ref), s.ref), s.ref)
       ELSE UNCHANGED <<number, named, unsaid, nextId, toReader>>
    /\ UNCHANGED <<state, asked, says, toHolder, reader, deaf>>

\* Mutant: what was asked for once is never taken back.
TuneToAdds(id, kinds) ==
    /\ record' = [record EXCEPT ![id] = @ \cup kinds]
    /\ IF "state" \in kinds \ record[id]
       THEN LET s == state[named[id]] IN
            Say(ToReader("state", named[id], id, s.v, IdFor(s.ref), s.ref), s.ref)
       ELSE UNCHANGED <<number, named, unsaid, nextId, toReader>>

\* Mutant: asking for the state subscribes to it and says nothing yet.
TuneToLater(id, kinds) ==
    /\ record' = [record EXCEPT ![id] = kinds]
    /\ UNCHANGED <<number, named, unsaid, nextId, toReader>>

\* ProcessStreams.tune: asking for the state says it there and then.
TuneTo(id, kinds) ==
    /\ record' = [record EXCEPT ![id] = kinds]
    /\ IF "state" \in kinds \ record[id]
       THEN LET s == state[named[id]] IN
            Say(ToReader("state", named[id], id, s.v, IdFor(s.ref), s.ref), s.ref)
       ELSE UNCHANGED <<number, named, unsaid, nextId, toReader>>

HolderTunes ==
    /\ toHolder # <<>> /\ Head(toHolder).kind = "tune"
    /\ LET f == Head(toHolder) IN
       IF named[f.to] # None /\ record[f.to] # None
       THEN TuneTo(f.to, f.kinds) /\ UNCHANGED deaf
       ELSE /\ deaf' = deaf \cup {f.to}
            /\ UNCHANGED <<record, number, named, unsaid, nextId, toReader>>
    /\ toHolder' = Tail(toHolder)
    /\ UNCHANGED <<running, state, asked, says, reader>>

\* Mutant: the process keeps its number.
HolderReleasesHalf ==
    /\ toHolder # <<>> /\ Head(toHolder).kind = "release"
    /\ LET id == Head(toHolder).to IN
       IF named[id] # None
       THEN /\ record' = [record EXCEPT ![id] = None]
            /\ UNCHANGED number
            /\ named' = [named EXCEPT ![id] = None]
       ELSE UNCHANGED <<record, number, named>>
    /\ toHolder' = Tail(toHolder)
    /\ UNCHANGED <<running, state, nextId, unsaid, asked, says, toReader, reader, deaf>>

\* streams.stop and table.release, for an id this side still knows.
HolderReleases ==
    /\ toHolder # <<>> /\ Head(toHolder).kind = "release"
    /\ LET id == Head(toHolder).to IN
       IF named[id] # None
       THEN /\ record' = [record EXCEPT ![id] = None]
            /\ number' = [number EXCEPT ![named[id]] = 0]
            /\ named' = [named EXCEPT ![id] = None]
       ELSE UNCHANGED <<record, number, named>>
    /\ toHolder' = Tail(toHolder)
    /\ UNCHANGED <<running, state, nextId, unsaid, asked, says, toReader, reader, deaf>>

HolderStops ==
    /\ toHolder # <<>> /\ Head(toHolder).kind = "stop"
    /\ LET p == named[Head(toHolder).to] IN
       asked' = IF p = None THEN asked ELSE asked \cup {p}
    /\ toHolder' = Tail(toHolder)
    /\ UNCHANGED <<running, state, number, named, nextId, unsaid, record, says,
                   toReader, reader, deaf>>

---------------------------------------------------------------------------
\* The reader's side.

\* Mutant: a state's reference is remembered and not counted.
KeepOwnedUncounted(f, id, r) ==
    IF r = 0 \/ f[r].released THEN f
    ELSE [f EXCEPT ![id].owned = @ \cup {r}, ![id].transient = @ \ {r}]

\* pvtHoldOwned: the handle whose state refers to another keeps it, once.
KeepOwned(f, id, r) ==
    IF r = 0 \/ f[r].released \/ r \in f[id].owned THEN f
    ELSE [f EXCEPT ![id].owned = @ \cup {r}, ![id].transient = @ \ {r},
                   ![r].count = @ + 1]

\* markTransient: a reference in a message passes through and is remembered.
Remember(f, id, r) ==
    IF r = 0 \/ f[r].released \/ r \in f[id].owned THEN f
    ELSE [f EXCEPT ![id].transient = @ \cup {r}]

\* receiveState: what the frame says is added to what was heard before; a field that
\* the process left out stays as it was.
Updated(f, h, fr) ==
    [h EXCEPT !.version = fr.v, !.readying = FALSE,
              !.holds = IF fr.ref = 0 THEN @ ELSE f[fr.ref].of]

\* receiveState, receiveMessage, receiveExit, on a handle not let go of.
Receive(f, fr) ==
    LET id == fr.to IN
    CASE fr.kind = "state" ->
            KeepOwned([f EXCEPT ![id] = Updated(f, @, fr)], id, fr.ref)
      [] fr.kind = "message" -> Remember(f, id, fr.ref)
      [] fr.kind = "exit" ->
            [f EXCEPT ![id].exit = TRUE, ![id].waiting = FALSE, ![id].readying = FALSE]
      [] OTHER -> f

\* handleFor: a reference gives the handle already bound to its id, or a new one.
Resolved(fr) ==
    IF fr.ref # 0 /\ far[fr.ref] = None
    THEN [far EXCEPT ![fr.ref] = NewHandle(fr.refOf)] ELSE far

\* A frame is decoded first; then it lands on the handle of the process it is
\* about, if there is one.
ReaderGets ==
    /\ toReader # <<>>
    /\ LET fr == Head(toReader)
           f == Resolved(fr)
       IN far' = IF fr.to # 0 /\ f[fr.to] # None /\ ~f[fr.to].released
                 THEN Receive(f, fr) ELSE f
    /\ toReader' = Tail(toReader)
    /\ UNCHANGED <<holder, says, toHolder, asks, deaf>>

Acts == asks < MaxAsks /\ asks' = asks + 1
               /\ UNCHANGED <<holder, says, toReader, deaf>>
Send(frames) == toHolder' = toHolder \o frames

Hold(id) ==
    /\ Bound(id) /\ ~far[id].released /\ Acts
    /\ far' = [far EXCEPT ![id].count = @ + 1, ![id].keeps = @ + 1]
    /\ Send(<<>>)

\* What the handle kept is given back: whoever it owned is counted once less.
GivenBack(f, id) ==
    [i \in Ids |->
        IF i = id THEN [f[i] EXCEPT !.released = TRUE, !.owned = {}, !.transient = {}]
        ELSE IF i \in f[id].owned /\ f[i].count > 0 THEN [f[i] EXCEPT !.count = @ - 1]
        ELSE f[i]]

\* Whoever loses its last count by that, and whoever only passed through and nobody kept.
Lost(f, id) == {i \in f[id].owned : ~f[i].released /\ GivenBack(f, id)[i].count = 0}
Idle(f, id) == {i \in f[id].transient : ~f[i].released /\ f[i].count = 0}

Releases(S) == [n \in 1 .. Cardinality(S) |-> ToHolder("release", SetToSeq(S)[n], {})]

\* release().  They are let go of too.  If one that only passed through has ended, its
\* own release() throws, and the rest is not done: the handle is marked as released
\* but stays in the table.
LetGo(f, id) ==
    LET lost == Lost(f, id)
        idle == Idle(f, id)
        alive == {i \in lost : ~f[i].exit}
        ended == {i \in idle : f[i].exit}
    IN IF ended = {}
       THEN /\ far' = Unbind(GivenBack(f, id), lost \cup idle \cup {id})
            /\ Send(Releases(alive) \o Releases(idle) \o Releases({id}))
       ELSE \E done \in SUBSET (idle \ ended) :
            /\ far' = Unbind(GivenBack(f, id), lost \cup done)
            /\ Send(Releases(alive) \o Releases(done))

Release(id) == Askable(id) /\ Acts /\ LetGo(far, id)

\* releaseRef(): by one who kept it, or by a receiver who does not want it.
ReleaseRef(id) ==
    /\ Bound(id) /\ ~far[id].released
    /\ far[id].keeps > 0 \/ far[id].count = 0
    /\ Acts
    /\ LET f == [far EXCEPT ![id].count = IF @ > 0 THEN @ - 1 ELSE 0,
                            ![id].keeps = IF @ > 0 THEN @ - 1 ELSE 0]
       IN IF f[id].count > 0 THEN far' = f /\ Send(<<>>)
          ELSE IF Askable(id) THEN LetGo(f, id)
          ELSE far' = Unbind(f, {id}) /\ Send(<<>>)      \* pvtDropBinding

\* pvtTune: a $tune, unless this much is wanted already.
Want(id, kinds) ==
    IF kinds = far[id].wanted THEN <<>> ELSE <<ToHolder("tune", id, kinds)>>

\* tune(), with any list.
Tune(id, kinds) ==
    /\ Askable(id) /\ far[id].count > 0 /\ kinds # far[id].wanted /\ Acts
    /\ far' = [far EXCEPT ![id].wanted = kinds]
    /\ Send(Want(id, kinds))

\* subscribe(), to what was not asked for yet: of a handle that is kept, though the
\* process may have ended.
Subscribe(id, kind) ==
    /\ Bound(id) /\ ~far[id].released /\ far[id].count > 0 /\ kind \notin far[id].wanted
    /\ Acts
    /\ far' = [far EXCEPT ![id].wanted = @ \cup {kind}]
    /\ Send(Want(id, far[id].wanted \cup {kind}))

Ready(id) ==
    /\ Askable(id) /\ far[id].count > 0 /\ far[id].version = 0 /\ Acts
    /\ far' = [far EXCEPT ![id].wanted = @ \cup {"state"}, ![id].readying = TRUE]
    /\ Send(Want(id, far[id].wanted \cup {"state"}))

Wait(id) ==
    /\ Askable(id) /\ Acts
    /\ far' = [far EXCEPT ![id].wanted = @ \cup {"exit"}, ![id].waiting = TRUE]
    /\ Send(Want(id, far[id].wanted \cup {"exit"}))

\* stop(): asks for the end first, then for the stop.
Stop(id) ==
    /\ Askable(id) /\ Acts
    /\ far' = [far EXCEPT ![id].wanted = @ \cup {"exit"}, ![id].waiting = TRUE]
    /\ Send(Append(Want(id, far[id].wanted \cup {"exit"}), ToHolder("stop", id, {})))

---------------------------------------------------------------------------
\* Past the opening: the carriers have crossed, are kept once, and are heard.
\* (CHOOSE numbers them: any numbering is as good as another.)
First == CHOOSE f \in [Carriers -> 1 .. Cardinality(Carriers)] :
            \A c, d \in Carriers : c # d => f[c] # f[d]
Known(i) == \E c \in Carriers : First[c] = i
Heard == {"message", "state"}

Init ==
    /\ running = Procs
    /\ state = [p \in Procs |-> [v |-> 1, ref |-> None]]
    /\ number = [p \in Procs |-> IF p \in Carriers THEN First[p] ELSE 0]
    /\ named = [i \in Ids |-> IF Known(i) THEN CHOOSE c \in Carriers : First[c] = i
                              ELSE None]
    /\ nextId = Cardinality(Carriers) + 1 /\ unsaid = <<>>
    /\ record = [i \in Ids |-> IF Known(i) THEN Heard ELSE None]
    /\ asked = {} /\ says = 0
    /\ toReader = <<>> /\ toHolder = <<>>
    /\ far = [i \in Ids |->
                IF Known(i)
                THEN [NewHandle(named[i]) EXCEPT !.wanted = Heard, !.version = 1,
                                                 !.keeps = 1, !.count = 1]
                ELSE None]
    /\ asks = 0
    /\ deaf = {}

HolderGets == HolderTunes \/ HolderReleases \/ HolderStops

HolderSays ==
    \/ \E p \in Procs : HandOver(p) \/ End(p)
    \/ \E p \in Carriers, c \in Leaves \cup {None} : Publish(p, c) \/ Speak(p, c)

ReaderAsks ==
    \E id \in Ids :
        \/ Hold(id) \/ Release(id) \/ ReleaseRef(id)
        \/ \E kinds \in Lists : Tune(id, kinds)
        \/ \E kind \in {"message", "state"} : Subscribe(id, kind)
        \/ Ready(id) \/ Wait(id) \/ Stop(id)

Next == HolderSays \/ Flush \/ HolderGets \/ ReaderGets \/ ReaderAsks

Spec == Init /\ [][Next]_vars

\* Frames arrive and numbered processes get their streams, because callbacks
\* run; a process that was told to stop does.
FairSpec ==
    /\ Spec
    /\ WF_vars(Flush) /\ WF_vars(HolderGets) /\ WF_vars(ReaderGets)
    /\ \A p \in Procs : WF_vars(p \in asked /\ End(p))

---------------------------------------------------------------------------
\* Properties.

\* A frame about a process goes by a number, and so does a reference; neither has one
\* that names nobody.
FarFrames ==
    [kind : {"tune", "release", "stop"}, to : Ids, about : Procs, kinds : SUBSET Kinds]
Frames ==
    {f \in [kind : {"message", "state", "exit", "methods"}, to : Ids \cup {0},
            about : Procs \cup {None}, v : Nat, ref : Ids \cup {0}, refOf : Procs \cup {None}] :
        /\ f.to = 0 <=> f.about = None
        /\ f.ref = 0 <=> f.refOf = None}

\* The tables hold what they should (process-ref.ts:122-137, process-streams.ts
\* :46-65): the two tables of one's own processes are inverse, and a handle refers to
\* handles of the table.
TypeOK ==
    /\ running \subseteq Procs /\ asked \subseteq Procs /\ deaf \subseteq Ids
    /\ state \in [Procs -> [v : Nat, ref : Leaves \cup {None}]]
    /\ number \in [Procs -> Ids \cup {0}]
    /\ named \in [Ids -> Procs \cup {None}]
    /\ \A p \in Procs, i \in Ids : number[p] = i <=> named[i] = p
    /\ nextId \in 1 .. MaxIds + 1
    /\ unsaid \in Seq([proc : Procs, id : Ids])
    /\ record \in [Ids -> (SUBSET Kinds) \cup {None}]
    /\ toReader \in Seq(Frames) /\ toHolder \in Seq(FarFrames)
    /\ far \in [Ids -> Handles \cup {None}]
    /\ \A id \in Ids : Bound(id) => \A r \in far[id].owned \cup far[id].transient : Bound(r)
    /\ says \in 0 .. MaxSays /\ asks \in 0 .. MaxAsks

\* A number never comes to mean another process: a frame under way lands on
\* the process its sender meant or on nothing, in both directions, whatever
\* was released and handed over again meanwhile (process-ref.ts:8-12).
SameProcess ==
    /\ \A i \in DOMAIN toHolder :
          named[toHolder[i].to] \in {None, toHolder[i].about}
    /\ \A i \in DOMAIN toReader :
          LET f == toReader[i] IN
          /\ f.to # 0 /\ Bound(f.to) => far[f.to].of = f.about
          /\ f.ref # 0 /\ Bound(f.ref) => far[f.ref].of = f.refOf

\* When no $tune or $release is under way, the holder's books and the handle
\* agree on what is to be said of a process, unless a $tune came before the
\* stream was begun (process-streams.ts:103-119, remote-process.ts:396-415).
AskedIsHeard ==
    \A id \in Ids :
        Bound(id) /\ record[id] # None /\ id \notin deaf
            /\ ~Travels(toHolder, {"tune", "release"}, id)
            /\ ~far[id].released
        => record[id] = far[id].wanted

\* What a handle holds of a state: every field the state has, as it is there.
Shows(h, s) == h.version = s.v /\ (s.ref # None => h.holds = s.ref)

\* A handle that has asked for the state and has no word of it under way holds every
\* field the process has as the process has it, however often it fell silent and
\* asked again; of a field the process dropped it keeps the old value
\* (process-streams.ts:169-190, remote-process.ts:453-459).
Fresh ==
    \A id \in Ids :
        Bound(id) /\ record[id] # None /\ named[id] # None
            /\ "state" \in record[id] \cap far[id].wanted
            /\ ~far[id].released
            /\ ~Travels(toReader, {"state"}, id)
            /\ ~Travels(toHolder, {"tune", "release"}, id)
        => Shows(far[id], state[named[id]])

\* The exit is the last word: nothing about a process follows it, on the wire
\* or in the stream that was not yet begun (process-streams.ts:203-216).
LastWord ==
    /\ \A i \in DOMAIN toReader : toReader[i].kind = "exit" =>
          /\ record[toReader[i].to] = None
          /\ \A j \in i + 1 .. Len(toReader) : toReader[j].to # toReader[i].to
    /\ \A id \in Ids : Bound(id) /\ far[id].exit =>
          ~Travels(toReader, {"state", "message", "exit"}, id)

\* Nobody is robbed of a reference: the count of a handle is never below the
\* number of those who keep it, the application's and the handles whose state
\* holds it (remote-process.ts:177-205, 260-272).
CountsCover ==
    \A id \in Ids : Bound(id) /\ ~far[id].released =>
        far[id].count >= far[id].keeps + Cardinality(Owners(far, id))

\* Once a process has ended and everything about it has arrived, nobody waits
\* for its end any more; unless the wait's $tune came after the end, or the
\* handle fell silent, or its number was dropped (remote-process.ts:316-340,
\* :380-389).
WaitAnswered ==
    \A id \in Ids :
        Bound(id) /\ ~far[id].released /\ far[id].waiting
            /\ "exit" \in far[id].wanted /\ id \notin deaf
            /\ named[id] # None /\ far[id].of \notin running
        => \/ Travels(toReader, {"exit"}, id)
           \/ Travels(toHolder, {"tune", "release"}, id)

-----------------------------------------------------------------------------
(* What comments of the code say and the code does not do: neither holds, see *)
(* the README's known divergences.                                            *)

\* A handle marked as released is out of the table: the far side is told to
\* forget it (remote-process.ts:342-347).
ReleasedIsGone == \A id \in Ids : Bound(id) => ~far[id].released

\* ready() settles when the process has ended: it has said its last
\* (remote-process.ts:285-293).
ReadySettles ==
    \A id \in Ids :
        (Bound(id) /\ far[id].readying /\ far[id].of \notin running)
        ~> (~Bound(id) \/ ~far[id].readying)
=============================================================================
