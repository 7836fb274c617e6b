-------------------------------- MODULE Wire --------------------------------
(***************************************************************************)
(* One direction of a connection, between the channels of its two ends:    *)
(* json1 frames and segments (protocols/json1.ts) written to a transport   *)
(* (stdio.ts, transports/fifo.ts, transports/websocket.ts), the bytes cut  *)
(* anywhere on their way, and the reader of lines and octet runs           *)
(* (lines.ts) at the far end.                                              *)
(*                                                                         *)
(* The writing end holds the writes its transport has taken but the medium *)
(* has not; a write is awaited by whoever made it, so writes of different  *)
(* callers interleave, and a segment is two of them.  The reading end      *)
(* works on a chunk synchronously (`pumping'): nothing else of that end    *)
(* runs until the chunk is used up, except the handlers it calls, which    *)
(* may close the channel.                                                  *)
(*                                                                         *)
(* A byte is a record that remembers the item it was written for; only     *)
(* whether it is a newline is ever asked of it, and the first octet of     *)
(* every run is one.                                                       *)
(***************************************************************************)
EXTENDS Integers, Sequences, FiniteSets, SequencesExt

CONSTANTS
  Carriers,    \* the kinds of medium a connection may run on
  Items,       \* what is to be sent: a sequence of [by: a caller, size: octets, NoOctets for a plain frame]
  Relays,      \* the callers that do not wait for a write before making the next
  Breaks       \* may the medium break?

NoOctets == -1

ASSUME CarriersAssumption == Carriers \subseteq {"pipe", "socket", "fifo", "websocket"}
ASSUME ItemsAssumption ==
  /\ Len(Items) \in Nat /\ DOMAIN Items = 1..Len(Items)
  /\ \A i \in DOMAIN Items : Items[i].size \in Nat \cup {NoOctets}
ASSUME BreaksAssumption == Breaks \in BOOLEAN

ItemIds == DOMAIN Items
IsSegment(i) == Items[i].size # NoOctets

VARIABLES
  carrier,     \* the medium of this connection
  phase,       \* how far each item's send is, or how it was refused
  queue,       \* writes the transport has taken and the medium has not
  written,     \* every write the transport has taken, in order
  wclose,      \* the writing end: open, asked to close, ending its file, closed
  wire,        \* what is on its way: a sequence of writes, or what is left of them
  eof,         \* how the medium ends for the reader, "no" while it has not
  broke,       \* has the medium broken?
  acc, want,   \* the reader's bytes not made a part yet; the octets it waits for
  pumping,     \* is the reader at work on a chunk?
  expecting,   \* the head whose octets are on their way
  rclose,      \* the reading end: open, asked to close, ending its file, closed
  left,        \* did a handler of the reading end close it?
  said,        \* has the reading end said that the wire is over?
  log          \* what the reading end's handlers were given

writerVars == <<phase, queue, written, wclose>>
mediumVars == <<wire, eof, broke>>
readerVars == <<acc, want, pumping, expecting, rclose, left, said, log>>
vars == <<carrier, writerVars, mediumVars, readerVars>>

----------------------------------------------------------------------------
(* What goes over the wire.                                                *)

Byte == [of : ItemIds, kind : {"text", "newline", "octet"}, at : Nat]
IsNewline(b) == b.kind = "newline" \/ (b.kind = "octet" /\ b.at = 1)

Text(i) == [k \in 1..2 |-> [of |-> i, kind |-> "text", at |-> k]]
Line(i) == Append(Text(i), [of |-> i, kind |-> "newline", at |-> 0])
Octets(i) == [k \in 1..Items[i].size |-> [of |-> i, kind |-> "octet", at |-> k]]

NoItem == 0
Closed == [kind |-> "closed", of |-> NoItem, octets |-> << >>]
Bad == [kind |-> "bad", of |-> NoItem, octets |-> << >>]
FrameOf(i) == [kind |-> "frame", of |-> i, octets |-> << >>]
SegmentOf(i, octets) == [kind |-> "segment", of |-> i, octets |-> octets]

(* The item a line spells, NoItem for one that cannot be read as a frame.  *)
ReadFrame(line) ==
  IF \E i \in ItemIds : line = Text(i) THEN line[1].of ELSE NoItem

----------------------------------------------------------------------------
(* The writing end.                                                        *)

ByCallback == {"pipe", "socket"}   \* carriers whose send waits for the write's callback

(* A write made now is taken; one that is not is refused with an error, or *)
(* resolves as if it had been.  A fifo still lets writes through to its    *)
(* file's stream while that is ending: a write after the end destroys the  *)
(* stream, with the writes it has not given to the file.                   *)
Takes ==
  CASE carrier \in ByCallback -> wclose # "closed"
    [] carrier = "fifo" -> wclose \in {"open", "asked"}
    [] carrier = "websocket" -> wclose = "open"
Refused ==
  CASE carrier \notin ByCallback /\ wclose = "closed" -> "failed"
    [] carrier = "fifo" /\ wclose = "ending" /\ queue # << >> -> "late"
    [] OTHER -> "swallowed"

(* transport.send and transport.sendBytes.                                 *)
Write(i, part, bytes) ==
  IF Takes
  THEN /\ phase' = [phase EXCEPT ![i] = part]
       /\ queue' = Append(queue, [of |-> i, bytes |-> bytes])
       /\ written' = Append(written, [of |-> i, part |-> part])
  ELSE /\ phase' = [phase EXCEPT ![i] = Refused]
       /\ queue' = IF Refused = "late" THEN << >> ELSE queue
       /\ UNCHANGED written

Settled(i) == carrier \in ByCallback => \A k \in DOMAIN queue : queue[k].of # i

(* A caller's sends follow one another; a relay starts each as its frame   *)
(* arrives, whatever became of the one before.                             *)
Turn(i) ==
  \A j \in 1..(i - 1) : Items[j].by = Items[i].by =>
    IF Items[i].by \in Relays THEN phase[j] # "todo" ELSE phase[j] \in {"sent", "swallowed", "late"}

Send(i) ==
  /\ phase[i] = "todo"
  /\ Turn(i)
  /\ Write(i, "line", Line(i))
  /\ UNCHANGED <<carrier, wclose, mediumVars, readerVars>>

(* sendSegment: the octets are written when the line's write has settled.  *)
SendOctets(i) ==
  /\ phase[i] = "line"
  /\ IsSegment(i)
  /\ Settled(i)
  /\ Write(i, "octets", Octets(i))
  /\ UNCHANGED <<carrier, wclose, mediumVars, readerVars>>

SendSettles(i) ==
  /\ phase[i] = IF IsSegment(i) THEN "octets" ELSE "line"
  /\ Settled(i)
  /\ phase' = [phase EXCEPT ![i] = "sent"]
  /\ UNCHANGED <<carrier, queue, written, wclose, mediumVars, readerVars>>

(* The medium takes the oldest write.                                      *)
Flush ==
  /\ queue # << >>
  /\ eof = "no"
  /\ wire' = Append(wire, Head(queue).bytes)
  /\ queue' = Tail(queue)
  /\ UNCHANGED <<carrier, phase, written, wclose, eof, broke, readerVars>>

CloseAsked == IF carrier = "websocket" THEN "closed" ELSE "asked"

(* close(): a websocket is closed at once, the others a microtask later.   *)
WriterCloses ==
  /\ wclose = "open"
  /\ wclose' = CloseAsked
  /\ UNCHANGED <<carrier, phase, queue, written, mediumVars, readerVars>>

(* The writes the medium had not taken are dropped, and their sends end    *)
(* so.  Callbacks are the only way a send learns of it.                    *)
DropQueue(outcome) ==
  /\ queue' = << >>
  /\ phase' = [i \in ItemIds |-> IF Settled(i) THEN phase[i] ELSE outcome]

(* Mutant of WriterEnds: every carrier is destroyed rather than ended. *)
WriterDestroyed ==
  /\ wclose = "asked"
  /\ wclose' = IF carrier = "fifo" THEN "ending" ELSE "closed"
  /\ DropQueue("swallowed")
  /\ UNCHANGED <<carrier, written, mediumVars, readerVars>>

(* pvtClose past its first await.  Destroying the read side of a socket    *)
(* destroys the socket, with what it had not written yet, and the callback *)
(* of such a write says that the stream was destroyed: its send resolves.  *)
WriterEnds ==
  /\ wclose = "asked"
  /\ wclose' = IF carrier = "fifo" THEN "ending" ELSE "closed"
  /\ IF carrier = "socket" THEN DropQueue("swallowed") ELSE UNCHANGED <<queue, phase>>
  /\ UNCHANGED <<carrier, written, mediumVars, readerVars>>

(* The last write is out and the end follows it.  On a pipe made of two    *)
(* given files (fdStreams) the file itself stays open: there the end is    *)
(* seen when the writing process exits, which it does after its session.   *)
WriterEnded ==
  /\ wclose \in {"ending", "closed"}
  /\ queue = << >>
  /\ eof = "no" \/ wclose = "ending"
  /\ eof' \in IF eof # "no" THEN {eof}
              ELSE IF carrier = "socket" THEN {"end", "close"} ELSE {"end"}
  /\ wclose' = "closed"
  /\ UNCHANGED <<carrier, phase, queue, written, wire, broke, readerVars>>

(* The medium breaks, or the far end has gone: what it had not taken is    *)
(* lost, and some of what was on its way.  A write that was waiting for    *)
(* its callback resolves when the error says the peer is gone, and is      *)
(* rejected otherwise; the transport closes.                               *)
Break ==
  /\ Breaks \/ rclose = "closed"
  /\ eof = "no"
  /\ broke' = TRUE
  /\ eof' \in {"close", "error"}
  /\ \E n \in 0..Len(FlattenSeq(wire)) :
       wire' = IF n = 0 THEN << >> ELSE <<SubSeq(FlattenSeq(wire), 1, n)>>
  /\ \E outcome \in {"swallowed", "failed"} : DropQueue(outcome)
  /\ wclose' = IF wclose = "open" THEN CloseAsked ELSE wclose
  /\ UNCHANGED <<carrier, written, readerVars>>

----------------------------------------------------------------------------
(* The reading end.                                                        *)

(* A websocket hands over one message at a time; a stream cuts anywhere.   *)
ChunkSizes ==
  IF carrier = "websocket" THEN {Len(Head(wire))} ELSE 1..Len(FlattenSeq(wire))

Feed ==
  /\ rclose = "open"
  /\ ~pumping
  /\ wire # << >>
  /\ \E n \in ChunkSizes :
       LET bytes == FlattenSeq(wire) IN
       /\ acc' = acc \o SubSeq(bytes, 1, n)
       /\ wire' = IF carrier = "websocket" THEN Tail(wire)
                  ELSE IF n = Len(bytes) THEN << >> ELSE <<SubSeq(bytes, n + 1, Len(bytes))>>
  /\ pumping' = TRUE
  /\ UNCHANGED <<carrier, writerVars, eof, broke, want, expecting, rclose, left, said, log>>

(* A handler has been given something, and may close the channel.          *)
Handled ==
  \/ UNCHANGED <<rclose, left>>
  \/ /\ rclose = "open"
     /\ rclose' = CloseAsked
     /\ left' = TRUE

Heard(entry) ==
  /\ log' = Append(log, entry)
  /\ Handled

Unheard == UNCHANGED <<expecting, log, rclose, left>>

OnBytes(head, bytes) ==
  /\ expecting' = NoItem
  /\ Heard(IF head = NoItem THEN Bad ELSE SegmentOf(head, bytes))

(* The handler of a line, and the octets the reader is to wait for after   *)
(* it.  A run of no octets follows at once.                                *)
OnLine(line) ==
  LET i == ReadFrame(line) IN
  IF i # NoItem /\ IsSegment(i)
  THEN /\ want' = Items[i].size
       /\ IF Items[i].size = 0
          THEN OnBytes(i, << >>)
          ELSE expecting' = i /\ UNCHANGED <<log, rclose, left>>
  ELSE /\ Heard(IF i = NoItem THEN Bad ELSE FrameOf(i))
       /\ UNCHANGED <<want, expecting>>

(* Mutant of FirstNewline: a chunk's lines are taken for one. *)
LastNewline == CHOOSE k \in DOMAIN acc :
                 IsNewline(acc[k]) /\ \A j \in (k + 1)..Len(acc) : ~IsNewline(acc[j])

FirstNewline == CHOOSE k \in DOMAIN acc :
                  IsNewline(acc[k]) /\ \A j \in 1..(k - 1) : ~IsNewline(acc[j])
HasLine == \E k \in DOMAIN acc : IsNewline(acc[k])
HasOctets == Len(acc) >= want

PumpOctets ==
  /\ pumping
  /\ want > 0
  /\ HasOctets
  /\ acc' = SubSeq(acc, want + 1, Len(acc))
  /\ want' = 0
  /\ IF rclose = "closed" THEN Unheard ELSE OnBytes(expecting, SubSeq(acc, 1, want))
  /\ UNCHANGED <<carrier, writerVars, mediumVars, pumping, said>>

PumpLine ==
  /\ pumping
  /\ want = 0
  /\ HasLine
  /\ acc' = SubSeq(acc, FirstNewline + 1, Len(acc))
  /\ IF rclose = "closed"
     THEN Unheard /\ UNCHANGED want
     ELSE OnLine(SubSeq(acc, 1, FirstNewline - 1))
  /\ UNCHANGED <<carrier, writerVars, mediumVars, pumping, said>>

PumpRests ==
  /\ pumping
  /\ IF want > 0 THEN ~HasOctets ELSE ~HasLine
  /\ pumping' = FALSE
  /\ UNCHANGED <<carrier, writerVars, mediumVars, acc, want, expecting, rclose, left, said, log>>

(* The close handler, told once.                                           *)
SayClosed(heard) ==
  /\ said' = TRUE
  /\ log' = IF said THEN heard ELSE Append(heard, Closed)

(* Mutant of FinishOn: only a polite end ends the reader. *)
FinishOnEnd == {"end"}

(* The events that end the reader.                                         *)
FinishOn == {"end", "close", "error"}

(* The medium is over: an unfinished line is still a line, unfinished      *)
(* octets are dropped, and the transport closes.  A websocket is closed by *)
(* then, so its last line is not given to anyone.                          *)
LastLine ==
  IF carrier = "websocket" \/ acc = << >> \/ want > 0
  THEN << >>
  ELSE LET i == ReadFrame(acc) IN
       IF i = NoItem THEN <<Bad>>
       ELSE IF ~IsSegment(i) THEN <<FrameOf(i)>> ELSE << >>

ReaderEof ==
  /\ rclose = "open"
  /\ ~pumping
  /\ wire = << >>
  /\ eof \in FinishOn
  /\ acc' = << >>
  /\ rclose' = CloseAsked
  /\ SayClosed(log \o LastLine)
  /\ UNCHANGED <<carrier, writerVars, mediumVars, want, pumping, expecting, left>>

(* pvtClose past its first await: a fifo's reader is stopped, and the end  *)
(* is said when its files are closed.                                      *)
ReaderEnds ==
  /\ rclose = "asked"
  /\ ~pumping
  /\ IF carrier = "fifo"
     THEN rclose' = "ending" /\ UNCHANGED <<said, log>>
     ELSE rclose' = "closed" /\ SayClosed(log)
  /\ UNCHANGED <<carrier, writerVars, mediumVars, acc, want, pumping, expecting, left>>

FifoReaderEnded ==
  /\ rclose = "ending"
  /\ rclose' = "closed"
  /\ SayClosed(log)
  /\ UNCHANGED <<carrier, writerVars, mediumVars, acc, want, pumping, expecting, left>>

(* The websocket's own close event, after close() here.                    *)
WebSocketClosed ==
  /\ carrier = "websocket"
  /\ rclose = "closed"
  /\ ~pumping
  /\ ~said
  /\ SayClosed(log)
  /\ UNCHANGED <<carrier, writerVars, mediumVars, acc, want, pumping, expecting, rclose, left>>

----------------------------------------------------------------------------

Init ==
  /\ carrier \in Carriers
  /\ phase = [i \in ItemIds |-> "todo"]
  /\ queue = << >>
  /\ written = << >>
  /\ wclose = "open"
  /\ wire = << >>
  /\ eof = "no"
  /\ broke = FALSE
  /\ acc = << >>
  /\ want = 0
  /\ pumping = FALSE
  /\ expecting = NoItem
  /\ rclose = "open"
  /\ left = FALSE
  /\ said = FALSE
  /\ log = << >>

(* What the event loops and the medium carry on with by themselves.        *)
Progress ==
  \/ \E i \in ItemIds : SendOctets(i) \/ SendSettles(i)
  \/ Flush \/ WriterEnds \/ WriterEnded
  \/ Feed \/ PumpOctets \/ PumpLine \/ PumpRests
  \/ ReaderEof \/ ReaderEnds \/ FifoReaderEnded \/ WebSocketClosed

Next ==
  \/ Progress
  \/ \E i \in ItemIds : Send(i)
  \/ WriterCloses
  \/ Break

Spec == Init /\ [][Next]_vars
FairSpec == Spec /\ WF_vars(Progress)

----------------------------------------------------------------------------
(* Properties.                                                             *)

(* A write of another caller fell between a line and the octets it         *)
(* announces: a segment is two writes, and nothing holds the others back.  *)
Torn ==
  \E k \in 1..(Len(written) - 1) :
    /\ written[k].part = "line"
    /\ Items[written[k].of].size > 0
    /\ written[k + 1].of # written[k].of

(* The items whose lines were written, in that order.                      *)
Lines ==
  FlattenSeq([k \in DOMAIN written |->
                IF written[k].part = "line" THEN <<written[k].of>> ELSE << >>])

(* What the far end is to be given, if nothing is torn and all arrives.    *)
EntryOf(i) == IF IsSegment(i) THEN SegmentOf(i, Octets(i)) ELSE FrameOf(i)
Written == [k \in DOMAIN Lines |-> EntryOf(Lines[k])]

(* What it was given, the news of the end left out.                        *)
Reads ==
  FlattenSeq([k \in DOMAIN log |-> IF log[k].kind # "closed" THEN <<log[k]>> ELSE << >>])

(* Whatever the chunks look like, the frames and segments come out as they *)
(* were written, in that order and each with its own octets (lines.ts,     *)
(* json1Channel); only a line cut short by a medium that broke comes out   *)
(* as one that cannot be read, and nothing after it.                       *)
ReadAsWritten ==
  Torn \/ IsPrefix(Reads, Written)
       \/ /\ broke /\ said
          /\ Last(Reads) = Bad
          /\ IsPrefix(Front(Reads), Written)

(* A segment is handed over with its own octets (json1Channel's            *)
(* sendSegment and onBytes).                                               *)
OctetsAreItsOwn ==
  \A k \in DOMAIN log : log[k].kind = "segment" => log[k].octets = Octets(log[k].of)

Delivered(i) == \E k \in DOMAIN log : log[k].of = i

(* A write was made after the end of a fifo's file, whose stream still     *)
(* held others.                                                            *)
LateWrite == \E j \in ItemIds : phase[j] = "late"

(* A frame or segment whose send has resolved after it was written reaches *)
(* the far end, even when the writer closes straight after: closing a pipe *)
(* or a fifo writes what is still queued first, and a socket's send does   *)
(* not resolve before its write is out.  The exceptions are a torn         *)
(* segment, a medium that broke, a reader that left, and a fifo that       *)
(* another caller writes to while it is being closed: that write destroys  *)
(* those queued, whose sends have resolved.                                *)
SentArrives ==
  \A i \in ItemIds :
    phase[i] = "sent" ~> (Delivered(i) \/ Torn \/ broke \/ left \/ LateWrite)

(* Nothing is handed over after the news of the end, which comes once.     *)
EndIsLast == \A k \in DOMAIN log : log[k] = Closed => k = Len(log)

(* Whatever ends a connection (a close at either end, a handler's, a       *)
(* medium that breaks, by whichever event it reports that), the reading    *)
(* end's close handler is told, once, and nothing is handed over after it. *)
EndIsHeardOnce ==
  /\ []EndIsLast
  /\ (wclose # "open" \/ eof # "no" \/ rclose # "open") ~> said

=============================================================================
