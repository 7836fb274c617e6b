------------------------------ MODULE Session -------------------------------
(***************************************************************************)
(* One served connection, from both ends: the proxy that forked a process   *)
(* over it (src/src/remote/client.ts), the session that serves the process  *)
(* (server.ts), the calls of either side (call-side.ts) and the reactor     *)
(* that accepted the connection and may be stopped (reactor.ts).            *)
(*                                                                         *)
(* A step is what runs between two awaits, except that the frames which     *)
(* waited behind one that owed octets are taken one per step.  The medium   *)
(* keeps the order and may be cut; it says the close at each end once.      *)
(***************************************************************************)
EXTENDS Naturals, Sequences, FiniteSets

CONSTANTS
    MaxSays,        \* bound: messages sent to the served process
    Classes,        \* what such a message does on arrival: plain, owes, throws
    MaxEmits,       \* bound: messages the served process emits
    MaxCalls,       \* bound: calls of both sides together
    Serves,         \* what a factory may answer: a cleanup, a way to stop
    Cuts,           \* TRUE: the medium may be cut
    Garbles         \* TRUE: a frame may arrive unreadable

ASSUME SessionAssumption ==
    /\ MaxSays \in Nat /\ MaxEmits \in Nat /\ MaxCalls \in Nat
    /\ Classes \subseteq {"plain", "owes", "throws"}
    /\ Serves \subseteq [cleanup : {"stop", "keep"},
                         stops : {"agrees", "refuses", "fails"}]
    /\ Cuts \in BOOLEAN /\ Garbles \in BOOLEAN

VARIABLES
    wire,           \* frames under way to each side
    closed,         \* the transport of a side is closed
    cut,            \* the medium was cut
    garbled,        \* a frame arrived unreadable
    later,          \* frames that wait for the one before them, per side
    busy,           \* that one, per side: it owes octets, or it has thrown
    calls,          \* what became of each call of a side
    answering,      \* calls of a side whose method runs on the other
    proxy,          \* the proxy: opening, up, stopping, ended, over
    farEnd,         \* what settled wait() on the far root, if anything
    wireEnded,      \* wireGone has run
    said,           \* messages the proxy passed on
    session,        \* where serveChannel stands
    waiting,        \* frames collected before the dispatch is in place
    slot,           \* which onClose handler the server's channel holds
    served,         \* what the factory answered
    proc,           \* the served process: none, up, ended
    askedStop,      \* a $stop reached it
    tuned,          \* its root record sends state, messages and the exit
    ending,         \* the one run of the cleanup: no, running, done, failed
    cleanups,       \* how often it ran
    gone,           \* connectionGone is settled
    heard,          \* messages handed to the served process, in order
    emits,          \* messages it emitted
    reactor,        \* the reactor: accepting, stopping, waiting, stopped
    live,           \* the session is in its table
    awaited         \* stop() waits for the session's `done'

link == <<wire, closed, cut, garbled>>
queue == <<later, busy>>
call == <<calls, answering>>
client == <<proxy, farEnd, wireEnded, said>>
process == <<proc, askedStop, tuned, heard, emits>>
server == <<session, waiting, slot, served, ending, cleanups, gone>>
accept == <<reactor, live, awaited>>
vars == <<link, queue, call, client, process, server, accept>>

-----------------------------------------------------------------------------
Sides == {"client", "server"}
Other(s) == IF s = "client" THEN "server" ELSE "client"
Seqs == 1..MaxCalls
NoServed == [cleanup |-> "stop", stops |-> "agrees"]

Frame == [k : {"init", "tune", "stop", "say", "emit", "state", "exit", "call",
               "result", "bad", "error", "ask", "octets", "fin"},
          n : Nat, class : {"plain", "owes", "throws"}]
Numbered(k, n) == [k |-> k, n |-> n, class |-> "plain"]
F(k) == Numbered(k, 0)

Init ==
    /\ wire = [s \in Sides |-> IF s = "server" THEN <<F("init"), F("tune")>> ELSE <<>>]
    /\ closed = [s \in Sides |-> FALSE] /\ cut = FALSE /\ garbled = FALSE
    /\ later = [s \in Sides |-> <<>>] /\ busy = [s \in Sides |-> <<>>]
    /\ calls = [s \in Sides |-> [q \in Seqs |-> "none"]]
    /\ answering = [s \in Sides |-> {}]
    /\ proxy = "opening" /\ farEnd = "none" /\ wireEnded = FALSE /\ said = 0
    /\ session = "offered" /\ waiting = <<>> /\ slot = "none"
    /\ served = NoServed /\ ending = "no" /\ cleanups = 0 /\ gone = FALSE
    /\ proc = "none" /\ askedStop = FALSE /\ tuned = FALSE
    /\ heard = <<>> /\ emits = 0
    /\ reactor = "accepting" /\ live = FALSE /\ awaited = FALSE

\* Every variable has its type; frames are collected only until the dispatch is
\* in place, and the reactor's table holds the session for as long as it runs.
TypeOK ==
    /\ waiting # <<>> => session \in {"init", "making", "readying", "refused"}
    /\ live => session \in {"serving", "ending", "lastword"}
    /\ wire \in [Sides -> Seq(Frame)] /\ closed \in [Sides -> BOOLEAN]
    /\ cut \in BOOLEAN /\ garbled \in BOOLEAN
    /\ later \in [Sides -> Seq(Frame)] /\ busy \in [Sides -> Seq(Frame)]
    /\ \A s \in Sides : Len(busy[s]) <= 1
    /\ calls \in [Sides -> [Seqs -> {"none", "waiting", "late", "answered", "rejected"}]]
    /\ answering \in [Sides -> SUBSET Seqs]
    /\ proxy \in {"opening", "up", "stopping", "ended", "over"}
    /\ farEnd \in {"none", "exit", "lost"} /\ wireEnded \in BOOLEAN /\ said \in Nat
    /\ session \in {"offered", "init", "making", "readying", "serving", "ending",
                    "lastword", "over", "refused", "failed"}
    /\ waiting \in Seq(Frame) /\ slot \in {"none", "session"}
    /\ served \in Serves \cup {NoServed} /\ proc \in {"none", "up", "ended"}
    /\ askedStop \in BOOLEAN /\ tuned \in BOOLEAN
    /\ ending \in {"no", "running", "done", "failed"} /\ cleanups \in Nat
    /\ gone \in BOOLEAN /\ heard \in Seq(Nat) /\ emits \in Nat
    /\ reactor \in {"accepting", "stopping", "waiting", "stopped"}
    /\ live \in BOOLEAN /\ awaited \in BOOLEAN

-----------------------------------------------------------------------------
(* The medium. *)

\* A write on a closed transport resolves and goes nowhere, and so does one to
\* a peer that is gone.
Sent(w, s, f) ==
    IF closed[s] \/ closed[Other(s)] \/ cut THEN w
    ELSE [w EXCEPT ![Other(s)] = Append(@, f)]

\* The transport of s closes: what was under way to it is not delivered, and
\* the peer comes to the end of its input behind what was sent before.
ClosesIn(w, s) == [Sent(w, s, F("fin")) EXCEPT ![s] = <<>>]

Cut ==
    /\ Cuts /\ ~cut
    /\ cut' = TRUE
    /\ wire' = [s \in Sides |-> IF closed[s] THEN <<>> ELSE <<F("fin")>>]
    /\ UNCHANGED <<closed, garbled, queue, call, client, process, server, accept>>

-----------------------------------------------------------------------------
(* Endings. *)

\* Mutant: calls in flight are left as they are.
RejectedNone(cs) == cs

\* rejectAll: every call of the side that still waits is rejected.
Rejected(cs) == [q \in Seqs |-> IF cs[q] = "waiting" THEN "rejected" ELSE cs[q]]

\* Mutant: the far root is not lost with the wire.
WireGoneRejects ==
    /\ wireEnded' = TRUE
    /\ UNCHANGED farEnd
    /\ calls' = IF wireEnded THEN calls
                ELSE [calls EXCEPT !["client"] = Rejected(@)]

\* wireGone of the client, with its transport closed: said once.
WireGone ==
    /\ wireEnded' = TRUE
    /\ farEnd' = IF farEnd = "none" THEN "lost" ELSE farEnd
    /\ calls' = IF wireEnded THEN calls
                ELSE [calls EXCEPT !["client"] = Rejected(@)]

\* Mutant: whoever asks for the end runs the cleanup.
EndAgain ==
    /\ ending' = IF ending = "no" THEN "running" ELSE ending
    /\ cleanups' = cleanups + 1

\* end(): the cleanup runs once, whoever asks.
End ==
    /\ ending' = IF ending = "no" THEN "running" ELSE ending
    /\ cleanups' = IF ending = "no" THEN cleanups + 1 ELSE cleanups

\* What the one onClose handler of the server's channel does.
ServerHearsClose ==
    \/ /\ slot = "session"
       /\ gone' = TRUE /\ End
       /\ UNCHANGED session
    \/ /\ slot # "session"
       /\ session' = IF session = "init" /\ waiting = <<>> THEN "refused" ELSE session
       /\ UNCHANGED <<gone, ending, cleanups>>

-----------------------------------------------------------------------------
(* What a frame does: deliver, in each of the two files. *)

Settled(s, f) ==
    [calls EXCEPT ![s] = IF @[f.n] \in {"waiting", "late"}
                         THEN [@ EXCEPT ![f.n] = "answered"] ELSE @]

\* An answer finds the call that waits for it; a call starts to be answered.
TakesCall(s, f) ==
    /\ calls' = IF f.k = "result" THEN Settled(s, f) ELSE calls
    /\ answering' = IF f.k = "call"
                    THEN [answering EXCEPT ![Other(s)] = @ \cup {f.n}] ELSE answering

\* The root's record in the process streams: from the serve to its last word.
Recorded == session \in {"serving", "ending"}

ServerTakes(w, f) ==
    \/ /\ f.k \in {"bad", "error"}
       /\ wire' = Sent(w, "server", F("error"))
       /\ End
       /\ UNCHANGED <<closed, calls, answering, client, process, gone, session>>
    \/ /\ f.k = "tune"
       /\ tuned' = (tuned \/ Recorded)
       /\ wire' = IF Recorded THEN Sent(w, "server", F("state")) ELSE w
       /\ UNCHANGED <<closed, calls, answering, client, proc, askedStop, heard, emits, ending, cleanups, gone, session>>
    \/ /\ f.k \in {"stop", "say"}
       /\ wire' = w
       /\ askedStop' = (askedStop \/ f.k = "stop")
       /\ heard' = IF f.k = "say" THEN Append(heard, f.n) ELSE heard
       /\ UNCHANGED <<closed, calls, answering, client, proc, tuned, emits, ending, cleanups, gone, session>>
    \/ /\ f.k \in {"call", "result"}
       /\ wire' = w
       /\ TakesCall("server", f)
       /\ UNCHANGED <<closed, client, process, ending, cleanups, gone, session>>

\* A transport closed by the handler of a frame still delivers the frames that
\* came with it, in one chunk: any first part of what is under way.
SameChunk(frames) ==
    {SubSeq(frames, 1, n) : n \in {m \in 0..Len(frames) :
                                     \A i \in 1..m : frames[i].k # "fin"}}

ClientTakes(w, f) ==
    \/ /\ f.k \in {"bad", "error"}
       /\ \E rest \in SameChunk(w["client"]) :
             wire' = [ClosesIn(w, "client") EXCEPT !["client"] = rest]
       /\ closed' = [closed EXCEPT !["client"] = TRUE]
       /\ WireGone
       /\ UNCHANGED <<answering, proxy, said>>
    \/ /\ f.k \in {"state", "emit"}
       /\ wire' = w
       /\ proxy' = IF f.k = "state" /\ proxy = "opening" THEN "up" ELSE proxy
       /\ UNCHANGED <<closed, calls, answering, farEnd, wireEnded, said>>
    \/ /\ f.k = "exit"
       /\ wire' = w
       /\ farEnd' = IF farEnd = "none" THEN "exit" ELSE farEnd
       /\ UNCHANGED <<closed, calls, answering, proxy, wireEnded, said>>
    \/ /\ f.k \in {"call", "result"}
       /\ wire' = w
       /\ TakesCall("client", f)
       /\ UNCHANGED <<closed, proxy, farEnd, wireEnded, said>>

Takes(s, w, f) ==
    \/ s = "server" /\ ServerTakes(w, f)
    \/ s = "client" /\ ClientTakes(w, f)
       /\ UNCHANGED <<process, ending, cleanups, gone, session>>

-----------------------------------------------------------------------------
(* The queue of frames: schedule and pump. *)

\* process(raw) of one frame.  One that throws leaves `busy' as it was set.
Start(s, w, f) ==
    \/ /\ f.class = "plain"
       /\ Takes(s, w, f)
       /\ UNCHANGED busy
    \/ /\ f.class # "plain"
       /\ busy' = [busy EXCEPT ![s] = <<f>>]
       /\ wire' = IF f.class = "owes" THEN Sent(w, s, F("ask")) ELSE w
       /\ UNCHANGED <<closed, call, client, process, ending, cleanups, gone, session>>

Pump(s) ==
    /\ busy[s] = <<>> /\ later[s] # <<>>
    /\ later' = [later EXCEPT ![s] = Tail(@)]
    /\ Start(s, wire, Head(later[s]))
    /\ UNCHANGED <<cut, garbled, waiting, slot, served, accept>>

Arrived(s) == [wire EXCEPT ![s] = Tail(@)]
Collecting == session \in {"init", "making", "readying"}

\* Mutant: a frame with nothing to wait for does not wait behind one that has.
ReceivesAtOnce(s, f) ==
    \/ /\ s = "server" /\ (Collecting \/ session = "refused")
       /\ waiting' = IF Collecting THEN Append(waiting, f) ELSE waiting
       /\ wire' = Arrived(s)
       /\ UNCHANGED <<closed, queue, call, client, process, ending, cleanups, gone, session>>
    \/ /\ s = "client" \/ ~(Collecting \/ session = "refused")
       /\ UNCHANGED waiting
       /\ IF f.class = "plain" \/ (busy[s] = <<>> /\ later[s] = <<>>)
          THEN Start(s, Arrived(s), f) /\ UNCHANGED later
          ELSE /\ later' = [later EXCEPT ![s] = Append(@, f)]
               /\ wire' = Arrived(s)
               /\ UNCHANGED <<busy, closed, call, client, process, ending,
                              cleanups, gone, session>>

\* A frame arrives: the first reader collects it, the dispatch takes it or
\* puts it behind those that wait, and nobody reads a connection refused.
Receives(s, f) ==
    \/ /\ s = "server" /\ (Collecting \/ session = "refused")
       /\ waiting' = IF Collecting THEN Append(waiting, f) ELSE waiting
       /\ wire' = Arrived(s)
       /\ UNCHANGED <<closed, queue, call, client, process, ending, cleanups, gone, session>>
    \/ /\ s = "client" \/ ~(Collecting \/ session = "refused")
       /\ UNCHANGED waiting
       /\ IF busy[s] = <<>> /\ later[s] = <<>>
          THEN Start(s, Arrived(s), f) /\ UNCHANGED later
          ELSE /\ later' = [later EXCEPT ![s] = Append(@, f)]
               /\ wire' = Arrived(s)
               /\ UNCHANGED <<busy, closed, call, client, process, ending,
                              cleanups, gone, session>>

FrameArrives(s) ==
    /\ wire[s] # <<>> /\ (s = "server" => session # "offered")
    /\ LET f == Head(wire[s]) IN
       /\ f.k \notin {"ask", "octets", "fin"}
       /\ \/ garbled' = garbled /\ Receives(s, f)
          \/ Garbles /\ ~garbled /\ garbled' = TRUE /\ Receives(s, F("bad"))
    /\ UNCHANGED <<cut, slot, served, accept>>

\* The stream store reads the connection beside the queue: an ask is answered
\* with octets, and octets settle the frame that is held for them.
OctetsAsked ==
    /\ wire["client"] # <<>> /\ Head(wire["client"]).k = "ask"
    /\ wire' = IF wireEnded THEN Arrived("client")
               ELSE Sent(Arrived("client"), "client", F("octets"))
    /\ UNCHANGED <<closed, cut, garbled, queue, call, client, process, server, accept>>

OctetsArrive ==
    /\ wire["server"] # <<>> /\ Head(wire["server"]).k = "octets"
    /\ busy["server"] # <<>>
    /\ busy' = [busy EXCEPT !["server"] = <<>>]
    /\ Takes("server", Arrived("server"), Head(busy["server"]))
    /\ UNCHANGED <<cut, garbled, later, waiting, slot, served, accept>>

\* The end of the input: onClose is called, and this end closes as well.  One
\* that comes before the handshake listens waits for it.
CloseArrives(s) ==
    /\ wire[s] # <<>> /\ Head(wire[s]).k = "fin"
    /\ s = "server" => session # "offered"
    /\ closed' = [closed EXCEPT ![s] = TRUE]
    /\ wire' = [wire EXCEPT ![s] = <<>>]
    /\ \/ s = "server" /\ ServerHearsClose /\ UNCHANGED <<calls, farEnd, wireEnded>>
       \/ s = "client" /\ WireGone /\ UNCHANGED <<gone, ending, cleanups, session>>
    /\ UNCHANGED <<cut, garbled, queue, answering, proxy, said, process,
                   waiting, slot, served, accept>>

-----------------------------------------------------------------------------
(* The server: reactor.serveOne and serveChannel. *)

Accept ==
    /\ session = "offered" /\ reactor = "accepting"
    /\ session' = "init"
    /\ UNCHANGED <<link, queue, call, client, process, waiting, slot, served,
                   ending, cleanups, gone, accept>>

\* A connection admitted as the reactor stops is closed rather than served.
Turned ==
    /\ session = "offered" /\ reactor # "accepting"
    /\ session' = "over"
    /\ closed' = [closed EXCEPT !["server"] = TRUE]
    /\ wire' = ClosesIn(wire, "server")
    /\ UNCHANGED <<cut, garbled, queue, call, client, process, waiting, slot,
                   served, ending, cleanups, gone, accept>>

\* The first frame: the $init, or one that could not be read.
Handshake ==
    /\ session = "init" /\ waiting # <<>>
    /\ waiting' = Tail(waiting)
    /\ \/ /\ Head(waiting).k = "init"
          /\ session' = "making"
          /\ UNCHANGED wire
       \/ /\ Head(waiting).k = "bad"
          /\ session' = "refused"
          /\ wire' = Sent(wire, "server", F("error"))
    /\ UNCHANGED <<closed, cut, garbled, queue, call, client, process, slot, served,
                   ending, cleanups, gone, accept>>

\* The factory answers with a process.
Make ==
    /\ session = "making"
    /\ served' \in Serves
    /\ proc' = "up"
    /\ session' = "readying"
    /\ UNCHANGED <<link, queue, call, client, askedStop, tuned, heard,
                   emits, waiting, slot, ending, cleanups, gone, accept>>

\* The factory fails: serveChannel throws, and the channel stays as it is.
MakeFails ==
    /\ session = "making"
    /\ session' = "refused"
    /\ UNCHANGED <<link, queue, call, client, process, waiting, slot, served,
                   ending, cleanups, gone, accept>>

\* The process fails before its first state: ready() rejects, and serveChannel
\* throws.
ReadyFails ==
    /\ session = "readying" /\ proc = "up"
    /\ proc' = "ended"
    /\ session' = "refused"
    /\ UNCHANGED <<link, queue, call, client, askedStop, tuned, heard, emits,
                   waiting, slot, served, ending, cleanups, gone, accept>>

\* The process is ready: the close is listened to, the reactor told, and what
\* was collected is replayed to the dispatch.  (A frame whose handler throws
\* would throw out of the replay, and of serveChannel; this client says nothing
\* before the first state is there, so only its $tune and what could not be
\* read are ever collected, and neither throws.)
Serve ==
    /\ session = "readying"
    /\ session' = "serving"
    /\ slot' = "session"
    /\ live' = TRUE
    /\ later' = [later EXCEPT !["server"] = waiting]
    /\ waiting' = <<>>
    /\ UNCHANGED <<link, busy, call, client, process, served, ending, cleanups,
                   gone, reactor, awaited>>

\* Mutant: only the end of the process ends the session.
RaceForProcess ==
    /\ session = "serving" /\ proc = "ended"
    /\ session' = "ending"
    /\ End
    /\ UNCHANGED <<link, queue, call, client, process, waiting, slot, served,
                   gone, accept>>

\* The race: the process ended, or the connection went.
RaceSettles ==
    /\ session = "serving" /\ (proc = "ended" \/ gone)
    /\ session' = "ending"
    /\ End
    /\ UNCHANGED <<link, queue, call, client, process, waiting, slot, served,
                   gone, accept>>

\* The cleanup is over: a process of somebody else's is kept, one that was
\* asked to stop has ended, or refused for as long as stop() waits.
CleanupDone ==
    /\ ending = "running"
    /\ served.cleanup = "keep" \/ proc = "ended" \/ served.stops = "refuses"
    /\ ending' = "done"
    /\ UNCHANGED <<link, queue, call, client, process, session, waiting, slot,
                   served, cleanups, gone, accept>>

\* The cleanup failed: serveChannel throws, nothing more is said or closed.
CleanupFailed ==
    /\ session = "ending" /\ ending = "failed"
    /\ session' = "failed"
    /\ live' = FALSE
    /\ UNCHANGED <<link, queue, call, client, process, waiting, slot, served,
                   ending, cleanups, gone, reactor, awaited>>

\* Mutant: the streams are stopped first, and the root's record with them.
LastWordUnsaid ==
    /\ session = "ending" /\ ending = "done"
    /\ session' = "lastword"
    /\ UNCHANGED <<link, queue, call, client, process, waiting, slot,
                   served, ending, cleanups, gone, accept>>

\* sayEnded of the root, awaited: the record goes, and the far side is told
\* when it had asked.
LastWord ==
    /\ session = "ending" /\ ending = "done"
    /\ session' = "lastword"
    /\ wire' = IF tuned THEN Sent(wire, "server", F("exit")) ELSE wire
    /\ UNCHANGED <<closed, cut, garbled, queue, call, client, process, waiting,
                   slot, served, ending, cleanups, gone, accept>>

\* Mutant: the reactor keeps a session that is over in its table.
CloseKeepsEntry ==
    /\ session = "lastword"
    /\ session' = "over"
    /\ UNCHANGED live
    /\ calls' = [calls EXCEPT !["server"] = Rejected(@)]
    /\ busy' = [busy EXCEPT !["server"] = IF @ # <<>> /\ Head(@).class = "throws" THEN @ ELSE <<>>]
    /\ closed' = [closed EXCEPT !["server"] = TRUE]
    /\ wire' = IF closed["server"] THEN wire ELSE ClosesIn(wire, "server")
    /\ gone' = TRUE
    /\ UNCHANGED <<cut, garbled, later, answering, client, process, waiting, slot,
                   served, ending, cleanups, reactor, awaited>>

\* stopAll, rejectAll, close of the stores -- a frame held for octets is
\* dropped -- and of the channel; the reactor takes the session off its table.
CloseServer ==
    /\ session = "lastword"
    /\ session' = "over"
    /\ live' = FALSE
    /\ calls' = [calls EXCEPT !["server"] = Rejected(@)]
    /\ busy' = [busy EXCEPT !["server"] = IF @ # <<>> /\ Head(@).class = "throws" THEN @ ELSE <<>>]
    /\ closed' = [closed EXCEPT !["server"] = TRUE]
    /\ wire' = IF closed["server"] THEN wire ELSE ClosesIn(wire, "server")
    /\ gone' = TRUE
    /\ UNCHANGED <<cut, garbled, later, answering, client, process, waiting, slot,
                   served, ending, cleanups, reactor, awaited>>

-----------------------------------------------------------------------------
(* The served process. *)

\* It ends by itself; a process that is stopped and fails makes the stop fail.
ProcEnds ==
    /\ proc = "up"
    /\ proc' = "ended"
    /\ ending' = IF ending = "running" /\ served = [cleanup |-> "stop", stops |-> "fails"]
                 THEN "failed" ELSE ending
    /\ UNCHANGED <<link, queue, call, client, askedStop, tuned, heard,
                   emits, session, waiting, slot, served, cleanups, gone, accept>>

StopAsked == askedStop \/ (ending = "running" /\ served.cleanup = "stop")
ProcStops == StopAsked /\ served.stops # "refuses" /\ ProcEnds

Emit ==
    /\ proc = "up" /\ emits < MaxEmits
    /\ emits' = emits + 1
    /\ wire' = IF tuned /\ Recorded THEN Sent(wire, "server", F("emit")) ELSE wire
    /\ UNCHANGED <<closed, cut, garbled, queue, call, client, proc, askedStop,
                   tuned, heard, server, accept>>

-----------------------------------------------------------------------------
(* The calls. *)

\* A call is made on the surface that was announced, also after the wire ended;
\* a write that fails on a broken wire rejects it.
Call(s) ==
    /\ IF s = "client" THEN proxy # "opening" ELSE session \in {"serving", "ending"}
    /\ Cardinality({c \in Sides \X Seqs : calls[c[1]][c[2]] # "none"}) < MaxCalls
    /\ \E q \in Seqs :
          /\ calls[s][q] = "none" /\ (q > 1 => calls[s][q - 1] # "none")
          /\ \/ /\ calls' = [calls EXCEPT ![s][q] =
                      IF s = "client" /\ wireEnded THEN "late" ELSE "waiting"]
                /\ wire' = Sent(wire, s, Numbered("call", q))
             \/ /\ ~closed[s] /\ (cut \/ closed[Other(s)])
                /\ calls' = [calls EXCEPT ![s][q] = "rejected"]
                /\ UNCHANGED wire
    /\ UNCHANGED <<closed, cut, garbled, queue, answering, client, process, server, accept>>

\* The method has answered, or thrown: either way the caller hears.
Answer(s) ==
    \E q \in answering[s] :
       /\ answering' = [answering EXCEPT ![s] = @ \ {q}]
       /\ wire' = Sent(wire, Other(s), Numbered("result", q))
       /\ UNCHANGED <<closed, cut, garbled, queue, calls, client, process, server, accept>>

-----------------------------------------------------------------------------
(* The proxy. *)

\* A message passed on to the far root; one for a root that has ended throws,
\* which ends the proxy.
Say ==
    /\ proxy = "up" /\ ~wireEnded
    /\ \/ /\ farEnd = "none" /\ said < MaxSays
          /\ said' = said + 1
          /\ \E c \in Classes :
                wire' = Sent(wire, "client", [Numbered("say", said + 1) EXCEPT !.class = c])
          /\ UNCHANGED proxy
       \/ /\ farEnd # "none"
          /\ proxy' = "ended"
          /\ UNCHANGED <<said, wire>>
    /\ UNCHANGED <<closed, cut, garbled, queue, call, farEnd, wireEnded, process,
                   server, accept>>

\* onStopRequested: the far root is asked, and its end waited for.
StopProxy ==
    /\ proxy = "up"
    /\ proxy' = "stopping"
    /\ wire' = IF farEnd = "none" THEN Sent(wire, "client", F("stop")) ELSE wire
    /\ UNCHANGED <<closed, cut, garbled, queue, call, farEnd, wireEnded, said,
                   process, server, accept>>

ProxyStops ==
    /\ proxy = "stopping" /\ farEnd # "none"
    /\ proxy' = "ended"
    /\ UNCHANGED <<link, queue, call, farEnd, wireEnded, said, process, server, accept>>

\* exit(CHANNEL_LOST) ends a proxy that is up, when it is between two ticks;
\* what becomes of an exit() in the tail of a tick is Actor's matter.
ProxyLost ==
    /\ proxy = "up" /\ wireEnded
    /\ proxy' = "ended"
    /\ UNCHANGED <<link, queue, call, farEnd, wireEnded, said, process, server, accept>>

\* afterEnd: the channel is closed, and the close heard here too.
ProxyCloses ==
    /\ proxy = "ended"
    /\ proxy' = "over"
    /\ closed' = [closed EXCEPT !["client"] = TRUE]
    /\ wire' = ClosesIn(wire, "client")
    /\ WireGone
    /\ UNCHANGED <<cut, garbled, queue, answering, said, process, server, accept>>

-----------------------------------------------------------------------------
(* The reactor. *)

StopReactor ==
    /\ reactor = "accepting"
    /\ reactor' = "stopping"
    /\ UNCHANGED <<link, queue, call, client, process, server, live, awaited>>

\* The listener is closed: the sessions in the table are ended, and waited for.
ReactorEnds ==
    /\ reactor = "stopping"
    /\ reactor' = "waiting"
    /\ awaited' = live
    /\ IF live THEN End ELSE UNCHANGED <<ending, cleanups>>
    /\ UNCHANGED <<link, queue, call, client, process, session, waiting, slot,
                   served, gone, live>>

ReactorStopped ==
    /\ reactor = "waiting"
    /\ awaited => session \in {"over", "failed"}
    /\ reactor' = "stopped"
    /\ UNCHANGED <<link, queue, call, client, process, server, live, awaited>>

-----------------------------------------------------------------------------
Medium ==
    \/ \E s \in Sides : FrameArrives(s) \/ CloseArrives(s)
    \/ OctetsAsked \/ OctetsArrive

ServerStep ==
    \/ Accept \/ Turned \/ Handshake \/ Make \/ Serve \/ RaceSettles
    \/ CleanupDone \/ CleanupFailed \/ LastWord \/ CloseServer \/ ProcStops

ProxyStep == ProxyStops \/ ProxyLost \/ ProxyCloses

\* What happens by itself, once it can.
Steps ==
    \/ Medium \/ ServerStep \/ ProxyStep
    \/ \E s \in Sides : Pump(s) \/ Answer(s)
    \/ ReactorEnds \/ ReactorStopped

Next ==
    \/ Steps \/ Cut
    \/ \E s \in Sides : Call(s)
    \/ MakeFails \/ ReadyFails \/ ProcEnds \/ Emit \/ Say \/ StopProxy \/ StopReactor

Spec == Init /\ [][Next]_vars

\* The event loop, the medium and a process that was asked to stop do not rest
\* while they can move; nobody has to say, call, stop, cut, or end a process.
FairSpec == Spec /\ WF_vars(Steps)


-----------------------------------------------------------------------------
(* Properties. *)

\* What is on its way into a side, in the order it will be taken.
Inbound(s) == busy[s] \o later[s] \o (IF s = "server" THEN waiting ELSE <<>>) \o wire[s]
Sayings(frames) == {i \in DOMAIN frames : frames[i].k = "say"}

\* Frames are taken in the order they were sent, whether they waited for the
\* process to start or for octets: as long as the connection stands, what the
\* process was handed and what is on its way are all that was said, in order.
InOrder ==
    /\ \A i, j \in DOMAIN heard : i < j => heard[i] < heard[j]
    /\ ~cut /\ ~garbled /\ ~closed["server"] /\ ~closed["client"] =>
          LET coming == Inbound("server") IN
          /\ \A i \in DOMAIN heard : heard[i] = i
          /\ {coming[i].n : i \in Sayings(coming)} = Len(heard) + 1 .. said
          /\ \A i, j \in Sayings(coming) : i < j => coming[i].n < coming[j].n

\* The end of the served process is the last thing said about it, and it is
\* said before the connection closes to a proxy that asked for it: the far root
\* is lost without a word only when the medium failed.
ExitIsLastWord ==
    LET about == Inbound("client") IN
    /\ \A i, j \in DOMAIN about :
          i < j /\ about[i].k = "exit" => about[j].k \notin {"state", "emit", "exit"}
    /\ farEnd = "exit" =>
          \A i \in DOMAIN about : about[i].k \notin {"state", "emit", "exit"}
    /\ farEnd = "lost" /\ tuned => cut \/ garbled

\* However many ask for the end -- the race, a close, an unreadable frame, the
\* reactor -- the cleanup runs once, and the session closes after it.
CleanedUpOnce ==
    /\ cleanups <= 1
    /\ session \in {"lastword", "over"} /\ served \in Serves /\ slot = "session"
         => cleanups = 1 /\ ending = "done"
    /\ reactor = "stopped" /\ awaited => ~live

\* A handler has thrown, and the frames behind its frame are never taken.
Stuck == \E s \in Sides : \E i \in DOMAIN busy[s] : busy[s][i].class = "throws"

\* The close came before the session listened for it.
CloseLost == closed["server"] /\ ~gone

\* A call made while the wire stood is answered, or rejected when the wire
\* goes; provided its method answers or throws in the end, no frame's handler
\* has thrown, the cleanup did not fail, and the session has heard of the close.
CallsSettle ==
    \A s \in Sides, q \in Seqs :
       calls[s][q] = "waiting" ~>
          \/ calls[s][q] \in {"answered", "rejected"}
          \/ Stuck \/ CloseLost \/ session = "failed"

\* A session whose connection goes, or whose process ends, is over in the end
\* and off the reactor's table, whatever the cleanup does short of failing.
\* That the end of a process settles the wait() the session listens to is
\* Actor's matter (EndSettlesWait, which excepts one whose afterStart throws).
SessionEnds ==
    session \in {"serving", "ending"} /\ (gone \/ proc = "ended")
       ~> session \in {"over", "failed"} /\ ~live

\* A proxy that is asked to stop, or whose wire goes, is over in the end; one
\* that waits for the far root only if that refuses, or fails, to stop.  The
\* proxy is a process that notices its exit(): not one that is paused, or in
\* the tail of a tick as the wire goes (Actor's ExitNoticed).
ProxyEnds ==
    /\ proxy # "opening" /\ wireEnded ~> proxy = "over"
    /\ proxy = "stopping" ~>
          \/ proxy = "over"
          \/ Stuck \/ session = "failed" \/ served.stops = "refuses"

\* A connection that closes ends the session that is served over it.
CloseEndsSession ==
    closed["server"] ~> session \in {"over", "refused", "failed"}

\* The reactor's stop() comes back.
StopReturns == reactor = "stopping" ~> reactor = "stopped"

\* The proxy's spawn settles when the wire goes before the far side has spoken.
SpawnSettles == proxy = "opening" /\ wireEnded ~> proxy # "opening"

=============================================================================
