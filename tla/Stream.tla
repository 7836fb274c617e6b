------------------------------- MODULE Stream -------------------------------
(***************************************************************************)
(* One stream of octets over a connection (src/src/remote/stream.ts): the   *)
(* offer of one StreamStore and its pump, the credit and chunk frames of    *)
(* both directions, the Incoming and RemoteStream of the other store, and   *)
(* the one consumer that reads it.                                          *)
(*                                                                         *)
(* Octets are counted, and a chunk is known by the position of its first    *)
(* one.  A step is what runs between two awaits; frames arrive in order.    *)
(***************************************************************************)
EXTENDS Integers, Sequences

CONSTANTS
    Window,         \* windowBytes
    Chunk,          \* chunkBytes
    MaxBytes,       \* maxBytes of the reader's store
    MaxTotal,       \* bound: octets the source holds
    Corrupts        \* TRUE: octets may be damaged on the way

ASSUME StreamAssumption ==
    /\ Window \in Nat \ {0} /\ Chunk \in Nat \ {0}
    /\ MaxBytes \in Nat /\ MaxTotal \in Nat /\ Corrupts \in BOOLEAN

VARIABLES
    total,          \* octets of the source, all told
    source,         \* octets it has not yielded yet
    rest,           \* `pending': what is left of the piece it yielded
    credit,         \* octets asked for and not sent
    seq,            \* chunks sent
    sent,           \* octets sent
    pump,           \* where pvtPump stands: idle, or what it awaits
    dropped,        \* the offer is out of the writer's table
    wclosed,        \* pvtClosed of the writer's store
    toReader,       \* frames under way to the reader
    toWriter,       \* frames under way to the writer
    down,           \* the connection is gone
    incoming,       \* the reader's entry: none yet, live, gone
    opened,         \* a reference to the stream was decoded
    asked,          \* octets the reader asked for
    consumed,       \* octets the consumer took
    received,       \* octets that arrived
    chunk,          \* the chunk that waits for its tail, if any
    queue,          \* chunks that wait for the consumer
    waiting,        \* the consumer waits in next()
    ended,          \* end() was called on the RemoteStream
    failure,        \* why fail() was called on it
    stopped,        \* cancel() was
    rclosed,        \* pvtClosed of the reader's store
    outcome         \* what the consumer was told: reading, done, error

offer  == <<total, source, rest, credit, seq, sent, pump, dropped, wclosed>>
reader == <<incoming, opened, asked, consumed, received, chunk, queue, waiting,
            ended, failure, stopped, rclosed, outcome>>
vars == <<total, source, rest, credit, seq, sent, pump, dropped, wclosed,
          toReader, toWriter, down,
          incoming, opened, asked, consumed, received, chunk, queue, waiting,
          ended, failure, stopped, rclosed, outcome>>

-----------------------------------------------------------------------------
Piece == [seq : Nat, at : Nat, bytes : Nat \ {0}, ok : BOOLEAN]
Named(n) == [seq |-> n, at |-> 0, bytes |-> 1, ok |-> TRUE]
ToReader == [k : {"stream", "chunk", "chunkEnd", "done", "fail"}, piece : Piece]
\* `upto' is not on the wire: all that was asked for, this ask included.
ToWriter == [k : {"ask", "fail", "cancel"}, credit : Nat, upto : Nat]

Reasons == {"none", "source", "refused", "bound", "corrupt", "framing", "closed"}

TypeOK ==
    /\ total \in Nat /\ source \in Nat /\ rest \in Nat /\ credit \in Nat
    /\ seq \in Nat /\ sent \in Nat
    /\ pump \in {"idle", "pull", "segment", "tail", "closing"}
    /\ dropped \in BOOLEAN /\ wclosed \in BOOLEAN /\ down \in BOOLEAN
    /\ toReader \in Seq(ToReader) /\ toWriter \in Seq(ToWriter)
    /\ incoming \in {"none", "live", "gone"} /\ opened \in BOOLEAN
    /\ asked \in Nat /\ consumed \in Nat /\ received \in Nat
    /\ chunk \in Seq(Piece) /\ Len(chunk) <= 1 /\ queue \in Seq(Piece)
    /\ waiting \in BOOLEAN /\ ended \in BOOLEAN /\ failure \in Reasons
    /\ stopped \in BOOLEAN /\ rclosed \in BOOLEAN
    /\ outcome \in {"reading", "done", "error"}

Frame(k) == [k |-> k, piece |-> Named(0)]
Note(k) == [k |-> k, credit |-> 0, upto |-> 0]

Init ==
    /\ total \in 0..MaxTotal /\ source = total /\ rest = 0
    /\ credit = 0 /\ seq = 0 /\ sent = 0
    /\ pump = "idle" /\ dropped = FALSE /\ wclosed = FALSE
    /\ toReader = <<Frame("stream")>> /\ toWriter = <<>> /\ down = FALSE
    /\ incoming = "none" /\ opened = FALSE
    /\ asked = 0 /\ consumed = 0 /\ received = 0 /\ chunk = <<>> /\ queue = <<>>
    /\ waiting = FALSE /\ ended = FALSE /\ failure = "none" /\ stopped = FALSE
    /\ rclosed = FALSE /\ outcome = "reading"

\* What is sent on a connection that is gone arrives nowhere.
Sent(wire, f) == IF down THEN wire ELSE Append(wire, f)

-----------------------------------------------------------------------------
(* The writer: pvtPump. *)

Least(a, b) == IF a < b THEN a ELSE b

\* Mutant: the credit bounds no piece, only whether one is sent.
CutWhole(c, piece) ==
    LET size == Least(piece, Chunk) IN
    /\ rest' = piece - size
    /\ credit' = c - size
    /\ seq' = seq + 1
    /\ sent' = sent + size
    /\ \E ok \in {TRUE, ~Corrupts} :
          toReader' = Sent(toReader, [k |-> "chunk", piece |->
                         [seq |-> seq, at |-> sent, bytes |-> size, ok |-> ok]])
    /\ pump' = "segment"

\* pvtTake, and the chunk's head and octets on the wire.
Cut(c, piece) ==
    LET size == Least(piece, Least(Chunk, c)) IN
    /\ rest' = piece - size
    /\ credit' = c - size
    /\ seq' = seq + 1
    /\ sent' = sent + size
    /\ \E ok \in {TRUE, ~Corrupts} :
          toReader' = Sent(toReader, [k |-> "chunk", piece |->
                         [seq |-> seq, at |-> sent, bytes |-> size, ok |-> ok]])
    /\ pump' = "segment"

\* The test of the loop, with credit c, up to the next await.
Loop(c) ==
    IF dropped \/ c = 0 \/ rest = 0
    THEN /\ pump' = IF dropped \/ c = 0 THEN "idle" ELSE "pull"
         /\ credit' = c
         /\ UNCHANGED <<rest, seq, sent, toReader>>
    ELSE Cut(c, rest)

\* source.next() comes back.  Whatever happened meanwhile, a piece is cut; an
\* empty one only leads back to the loop's test.
PullYields ==
    /\ pump = "pull"
    /\ \E n \in 1..source : source' = source - n /\ Cut(credit, n)
    /\ UNCHANGED <<total, dropped, wclosed, toWriter, down, reader>>

PullYieldsNothing ==
    /\ pump = "pull"
    /\ Loop(credit)
    /\ UNCHANGED <<total, source, dropped, wclosed, toWriter, down, reader>>

\* Mutant: a source that has nothing for the moment is taken to be done.
PullEndsEarly ==
    /\ pump = "pull"
    /\ \E k \in {"done", "fail"} : toReader' = Sent(toReader, Frame(k))
    /\ pump' = "closing"
    /\ UNCHANGED <<total, source, rest, credit, seq, sent, dropped, wclosed,
                   toWriter, down, reader>>

\* The source is done -- or was told to return -- or throws.
PullEnds ==
    /\ pump = "pull"
    /\ \/ (source = 0 \/ dropped) /\ toReader' = Sent(toReader, Frame("done"))
       \/ toReader' = Sent(toReader, Frame("fail"))
    /\ pump' = "closing"
    /\ UNCHANGED <<total, source, rest, credit, seq, sent, dropped, wclosed,
                   toWriter, down, reader>>

\* Mutant: the tail names the chunk counter as it stands after the head.
SegmentSentNamesNext ==
    /\ pump = "segment"
    /\ toReader' = Sent(toReader, [k |-> "chunkEnd", piece |-> Named(seq)])
    /\ pump' = "tail"
    /\ UNCHANGED <<total, source, rest, credit, seq, sent, dropped, wclosed,
                   toWriter, down, reader>>

SegmentSent ==
    /\ pump = "segment"
    /\ toReader' = Sent(toReader, [k |-> "chunkEnd", piece |-> Named(seq - 1)])
    /\ pump' = "tail"
    /\ UNCHANGED <<total, source, rest, credit, seq, sent, dropped, wclosed,
                   toWriter, down, reader>>

TailSent ==
    /\ pump = "tail"
    /\ Loop(credit)
    /\ UNCHANGED <<total, source, dropped, wclosed, toWriter, down, reader>>

\* The end is sent, or a send failed because the connection is gone: pvtDrop.
PumpDrops ==
    /\ pump = "closing" \/ (down /\ pump \in {"segment", "tail"})
    /\ dropped' = TRUE
    /\ pump' = "idle"
    /\ UNCHANGED <<total, source, rest, credit, seq, sent, wclosed,
                   toReader, toWriter, down, reader>>

\* Mutant: a cancel ends only a stream that is not being pumped.
WriterMissesCancel ==
    /\ toWriter # <<>>
    /\ toWriter' = Tail(toWriter)
    /\ LET f == Head(toWriter) IN
       \/ /\ f.k = "ask" /\ ~dropped
          /\ IF pump = "idle" THEN Loop(credit + f.credit)
             ELSE credit' = credit + f.credit /\ UNCHANGED <<rest, seq, sent, pump, toReader>>
          /\ UNCHANGED dropped
       \/ /\ f.k = "cancel" /\ pump = "idle" /\ ~dropped
          /\ dropped' = TRUE
          /\ UNCHANGED <<rest, credit, seq, sent, pump, toReader>>
       \/ /\ f.k = "fail" \/ dropped \/ (f.k = "cancel" /\ pump # "idle")
          /\ UNCHANGED <<rest, credit, seq, sent, pump, dropped, toReader>>
    /\ UNCHANGED <<total, source, wclosed, down, reader>>

\* onFrame of the writer's store.  A $streamFail is looked up among the incoming
\* streams and finds nothing.
WriterGets ==
    /\ toWriter # <<>>
    /\ toWriter' = Tail(toWriter)
    /\ LET f == Head(toWriter) IN
       \/ /\ f.k = "ask" /\ ~dropped
          /\ IF pump = "idle" THEN Loop(credit + f.credit)
             ELSE credit' = credit + f.credit /\ UNCHANGED <<rest, seq, sent, pump, toReader>>
          /\ UNCHANGED dropped
       \/ /\ f.k = "cancel" /\ ~dropped
          /\ dropped' = TRUE
          /\ UNCHANGED <<rest, credit, seq, sent, pump, toReader>>
       \/ /\ f.k = "fail" \/ dropped
          /\ UNCHANGED <<rest, credit, seq, sent, pump, dropped, toReader>>
    /\ UNCHANGED <<total, source, wclosed, down, reader>>

\* close() of the writer's store: a reader still waiting is told $streamDone.
WriterCloses ==
    /\ ~wclosed
    /\ wclosed' = TRUE
    /\ dropped' = TRUE
    /\ toReader' = IF dropped THEN toReader ELSE Sent(toReader, Frame("done"))
    /\ UNCHANGED <<total, source, rest, credit, seq, sent, pump, toWriter, down, reader>>

-----------------------------------------------------------------------------
(* The reader. *)

\* Mutant: what was taken since the last ask is not counted, so the window shuts.
AskOnce(c) ==
    IF incoming = "live" /\ ~rclosed /\ asked = 0
    THEN /\ asked' = c + Window
         /\ toWriter' = Sent(toWriter, [k |-> "ask", credit |-> c + Window - asked, upto |-> c + Window])
    ELSE UNCHANGED <<asked, toWriter>>

\* pvtAsk, once the consumer has taken c octets: nothing while half the window is
\* still out, else the whole of it.
Ask(c) ==
    IF incoming = "live" /\ ~rclosed /\ 2 * (asked - c) < Window
    THEN /\ asked' = c + Window
         /\ toWriter' = Sent(toWriter, [k |-> "ask", credit |-> c + Window - asked, upto |-> c + Window])
    ELSE UNCHANGED <<asked, toWriter>>

\* RemoteStream.fail: a consumer that waits is told; one that comes later is
\* given what is queued first.
FailWith(reason) ==
    IF ended \/ failure # "none" THEN UNCHANGED <<failure, waiting, outcome>>
    ELSE /\ failure' = reason
         /\ waiting' = FALSE
         /\ outcome' = IF waiting THEN "error" ELSE outcome

\* The reader gives the stream up and says so.
Refuse(reason) ==
    /\ incoming' = "gone"
    /\ FailWith(reason)
    /\ toWriter' = Sent(toWriter, Note("fail"))

\* A message with a reference is decoded: `sized' when it states how much it is.
\* A stream that is over by then is a stream of nothing but its error.
Reference ==
    /\ ~opened /\ outcome = "reading"
    /\ \/ /\ incoming = "live"
          /\ opened' = TRUE
          /\ \E sized \in BOOLEAN :
                IF sized /\ total > MaxBytes THEN Refuse("refused")
                ELSE UNCHANGED <<incoming, failure, waiting, outcome, toWriter>>
       \/ /\ incoming = "gone"
          /\ outcome' = "error"
          /\ UNCHANGED <<opened, incoming, failure, waiting, toWriter>>
    /\ UNCHANGED <<offer, toReader, down, asked, consumed, received, chunk, queue,
                   ended, stopped, rclosed>>

\* RemoteStream.next, by the one consumer.
Read ==
    /\ opened /\ ~waiting /\ outcome = "reading"
    /\ IF queue # <<>>
       THEN /\ queue' = Tail(queue)
            /\ consumed' = consumed + Head(queue).bytes
            /\ Ask(consumed + Head(queue).bytes)
            /\ UNCHANGED <<waiting, outcome>>
       ELSE IF failure # "none" \/ ended \/ stopped
       THEN /\ outcome' = IF failure # "none" THEN "error" ELSE "done"
            /\ UNCHANGED <<queue, consumed, asked, waiting, toWriter>>
       ELSE /\ waiting' = TRUE
            /\ Ask(consumed)
            /\ UNCHANGED <<queue, consumed, outcome>>
    /\ UNCHANGED <<offer, toReader, down, incoming, opened, received, chunk, ended,
                   failure, stopped, rclosed>>

\* RemoteStream.cancel, also by the platform's stream and by a loop that is left.
Cancel ==
    /\ opened /\ ~stopped /\ ~ended
    /\ stopped' = TRUE
    /\ queue' = <<>>
    /\ waiting' = FALSE
    /\ outcome' = IF waiting THEN "done" ELSE outcome
    /\ incoming' = "gone"
    /\ toWriter' = Sent(toWriter, Note("cancel"))
    /\ UNCHANGED <<offer, toReader, down, opened, asked, consumed, received, chunk,
                   ended, failure, rclosed>>

\* Mutant: a push while nobody waits keeps only the latest chunk.
PushKeepsLast(p) ==
    IF waiting
    THEN /\ consumed' = consumed + p.bytes
         /\ waiting' = FALSE
         /\ Ask(consumed + p.bytes)
         /\ UNCHANGED queue
    ELSE queue' = <<p>> /\ UNCHANGED <<consumed, waiting, asked, toWriter>>

\* Mutant: a chunk is counted as taken when it is queued, and again when it is.
PushCountsEarly(p) ==
    /\ consumed' = consumed + p.bytes
    /\ waiting' = FALSE
    /\ Ask(consumed + p.bytes)
    /\ queue' = IF waiting THEN queue ELSE Append(queue, p)

\* RemoteStream.push.
Push(p) ==
    IF waiting
    THEN /\ consumed' = consumed + p.bytes
         /\ waiting' = FALSE
         /\ Ask(consumed + p.bytes)
         /\ UNCHANGED queue
    ELSE queue' = Append(queue, p) /\ UNCHANGED <<consumed, waiting, asked, toWriter>>

\* onSegment: the octets of a stream that is not live are skipped.
GetsChunk(p) ==
    IF incoming # "live" THEN UNCHANGED <<incoming, received, chunk, failure, waiting, outcome, toWriter>>
    ELSE /\ received' = received + p.bytes
         /\ IF received + p.bytes > MaxBytes
            THEN Refuse("bound") /\ UNCHANGED chunk
            ELSE /\ chunk' = <<p>>
                 /\ UNCHANGED <<incoming, failure, waiting, outcome, toWriter>>

GetsChunkEnd(n) ==
    IF incoming # "live" THEN UNCHANGED <<incoming, asked, consumed, chunk, queue, failure, waiting, outcome, toWriter>>
    ELSE /\ chunk' = <<>>
         /\ IF chunk = <<>> \/ (chunk # <<>> /\ chunk[1].seq # n)
            THEN Refuse("framing") /\ UNCHANGED <<asked, consumed, queue>>
            ELSE IF ~chunk[1].ok
            THEN Refuse("corrupt") /\ UNCHANGED <<asked, consumed, queue>>
            ELSE Push(chunk[1]) /\ UNCHANGED <<incoming, failure, outcome>>

GetsDone ==
    IF incoming # "live" THEN UNCHANGED <<incoming, ended, waiting, outcome>>
    ELSE /\ incoming' = "gone"
         /\ ended' = TRUE
         /\ waiting' = FALSE
         /\ outcome' = IF waiting THEN "done" ELSE outcome

GetsFail ==
    IF incoming # "live" THEN UNCHANGED <<incoming, failure, waiting, outcome>>
    ELSE incoming' = "gone" /\ FailWith("source")

\* onFrame and onSegment of the reader's store; a closed store listens no more.
ReaderGets ==
    /\ toReader # <<>>
    /\ toReader' = Tail(toReader)
    /\ LET f == Head(toReader) IN
       \/ /\ rclosed
          /\ UNCHANGED <<toWriter, incoming, asked, consumed, received, chunk, queue,
                         waiting, ended, failure, outcome>>
       \/ /\ ~rclosed /\ f.k = "stream"
          /\ incoming' = "live"
          /\ UNCHANGED <<toWriter, asked, consumed, received, chunk, queue, waiting,
                         ended, failure, outcome>>
       \/ /\ ~rclosed /\ f.k = "chunk"
          /\ GetsChunk(f.piece)
          /\ UNCHANGED <<asked, consumed, queue, ended>>
       \/ /\ ~rclosed /\ f.k = "chunkEnd"
          /\ GetsChunkEnd(f.piece.seq)
          /\ UNCHANGED <<received, ended>>
       \/ /\ ~rclosed /\ f.k = "done"
          /\ GetsDone
          /\ UNCHANGED <<toWriter, asked, consumed, received, chunk, queue, failure>>
       \/ /\ ~rclosed /\ f.k = "fail"
          /\ GetsFail
          /\ UNCHANGED <<toWriter, asked, consumed, received, chunk, queue, ended>>
    /\ UNCHANGED <<offer, down, opened, stopped, rclosed>>

ReaderCloses ==
    /\ ~rclosed
    /\ rclosed' = TRUE
    /\ incoming' = "gone"
    /\ IF incoming = "live" THEN FailWith("closed") ELSE UNCHANGED <<failure, waiting, outcome>>
    /\ UNCHANGED <<offer, toReader, toWriter, down, opened, asked, consumed, received,
                   chunk, queue, ended, stopped>>

-----------------------------------------------------------------------------
\* The connection goes, and what is under way with it.
WireDrops ==
    /\ ~down
    /\ down' = TRUE
    /\ toReader' = <<>> /\ toWriter' = <<>>
    /\ UNCHANGED <<offer, reader>>

PumpStep ==
    PullYields \/ PullYieldsNothing \/ PullEnds \/ SegmentSent \/ TailSent \/ PumpDrops

Next ==
    \/ PumpStep \/ WriterGets \/ WriterCloses
    \/ Reference \/ Read \/ Cancel \/ ReaderGets \/ ReaderCloses \/ WireDrops

Spec == Init /\ [][Next]_vars

\* The source answers, frames arrive, the consumer goes on reading, and a store
\* whose connection went away is closed.
Fairness ==
    /\ WF_vars(PullYields \/ PullEnds) /\ WF_vars(SegmentSent \/ TailSent \/ PumpDrops)
    /\ WF_vars(WriterGets) /\ WF_vars(ReaderGets) /\ WF_vars(Read)
    /\ WF_vars(down /\ ReaderCloses)

FairSpec == Spec /\ Fairness

-----------------------------------------------------------------------------
\* "Nothing is written ahead of demand, so a slow consumer slows the writer": at
\* no moment are more than a window's octets sent and not taken.
WindowKept == sent - consumed <= Window

\* The stream is a bounded pipe.
Pipe == INSTANCE BoundedPipe WITH written <- sent, taken <- consumed, verdict <- outcome
PipeSpec == Pipe!Spec

\* What the consumer is given next, and what follows it, is what the source gave:
\* queue, chunk in hand and wire hold the octets taken to the octets sent, no
\* octet missing, none twice, none out of place; and none that is queued for the
\* consumer is damaged (Intact).  Parts in a row lead from a to b: of those that
\* move, the first begins at a, the last ends at b, and each begins where the one
\* before it ended.
Movers(parts) == {i \in DOMAIN parts : parts[i].moves}
Linked(parts, a, b) ==
    LET M == Movers(parts) IN
    /\ \A i \in M : (\A j \in M : i <= j) => parts[i].from = a
    /\ \A i \in M : (\A j \in M : j <= i) => parts[i].to = b
    /\ \A i, j \in M :
          i < j /\ (\A k \in M : k <= i \/ j <= k) => parts[i].to = parts[j].from
    /\ M = {} => a = b
Span(p) == [moves |-> TRUE, from |-> p.at, to |-> p.at + p.bytes]
Carried(f) == [moves |-> f.k = "chunk", from |-> f.piece.at, to |-> f.piece.at + f.piece.bytes]
Held(ps) == [i \in DOMAIN ps |-> Span(ps[i])]
Octets(fs) == [i \in DOMAIN fs |-> Carried(fs[i])]
Intact == \A i \in DOMAIN queue : queue[i].ok
Contiguous ==
    /\ Intact
    /\ \E upto \in 0..sent : Linked(Held(queue), consumed, upto)
    /\ incoming = "live" /\ ~down =>
          Linked(Held(queue) \o Held(chunk) \o Octets(toReader), consumed, sent)

\* A chunk's octets and its tail are matched whatever crosses in between.
FramingKept == failure # "framing"

\* A consumer that is told the stream is over, and neither it nor the writer's
\* store called it off, has read all of it.
DoneIsWhole == outcome = "done" /\ ~stopped /\ ~wclosed => consumed = total

\* A consumer that goes on reading is told something in the end: no credit is
\* lost, and no pump sleeps on credit it has.
ReadingEnds == opened ~> outcome # "reading"

\* A reader that stops early stops the writer.
CancelStopsWriter == (stopped /\ ~down) ~> (dropped \/ down)

-----------------------------------------------------------------------------
(* What comments and docs say and the code does not do: it does not hold, see *)
(* the README's known divergences.                                            *)

\* streams.md: "an error anywhere drops it on both sides".
ErrorDropsBoth == (failure \in {"refused", "bound", "corrupt"}) ~> (dropped \/ down)

=============================================================================
