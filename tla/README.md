# posipaki in TLA+

posipaki is an actor library for TypeScript.  A *process* drives a generator that
handles one message at a time; processes form a tree, with a stop cascade and a
handoff of the children that refuse to stop; the `remote` part carries processes
and streams of octets over any connection.  This directory holds TLA+ modules of
its core, the TLC runs that check them, and TLAPS proofs about them.  Paths below
are relative to the repository.

## Inventory

| component | state it keeps | operations | what is hard |
|---|---|---|---|
| process and actor (`src/process.async.ts`, `src/define-actor.ts`, `src/util.ts`) | inbox, deferred tick, generator and its request queue, `done`, `pvtDead`, the promises of `start`, `wait`, `stop` | send, flush, tick, start, exit, pause, resume, wait, stop (nice, with a deadline, forced), forceStop | every await is a point where sends, kills and timers come in; a wakeup can be lost; one reject slot for many callers |
| process tree (same files) | `children`, `orphans`, subscriptions, a collector and a buffer per handed-over process | fork, monitor, adopt, unparent, forceStop, the `finally` cascade, `onOrphan` | a process changes owner while it goes on sending; several ends overlap |
| stream flow control (`src/remote/stream.ts`) | an offer (credit, remainder, sequence number, `pumping`, `dropped`) on one side; an incoming entry and a queue on the other | ask, pump, chunk, tail, done, fail, cancel, refuse, close | credit counted from two ends; frames of both directions cross; ends and errors race |
| stream names (`src/remote/stream.ts`, `streams.ts`) | two tables of names, a table of 64 refusals | announce, release, look up | re-announcement against late references |
| process references (`process-ref.ts`, `process-streams.ts`, `remote-process.ts`) | per side: ids of one's own processes, records of what each is asked to say, handles of the other side's processes with counts | number, bind, flush, tune, release, ready, wait, stop | `$release` and `$tune` cross a new use of the id; a count that several keep; an end nobody asked for in time |
| connection sessions (`server.ts`, `client.ts`, `channel.ts`) | frame queue with `busy` per side, one close slot, the cleanup run once | handshake, deliver, wind down | a frame that owes octets holds the rest back; close against process end |
| call side (`call-side.ts`) | calls by sequence number | call, settle, rejectAll | answer, failed write and end of the connection race |
| reactor (`reactor.ts`) | live sessions and their `done` | accept, serve, stop | stopping what is not yet started |
| line framing (`lines.ts`), wire format (`protocols/json1.ts`), transports (`stdio.ts`, `transports/`) | bytes not yet a part, octets wanted, the head they belong to; open, closing, closed, said | send, sendSegment, feed, end, close | input cut anywhere; a segment is two writes; more than one way to end, from inside a handler too |
| gateway, kit, subprocess actor, listeners, spawners | child, fifos, discovery; sockets held | start, relay, teardown; accept, close | a relay that does not wait; letting go half way |
| podman, bubblewrap, ssh packages | a container's handle and its consumers | start, retain, release | a name others may take; letting go with an await |
| xfetch, plugins, test helpers, types, examples | little or none | | STOP against an answer (xfetch) |

Interactions.  A process calls its subscribers synchronously (`send` pushes to the
inbox of the parent and arms its tick); a parent awaits its children's `stop` in
its `finally` block; EXIT carries the orphans up; a session turns frames into
calls of `send`, `stop`, `pause` on the process it serves; a stream store shares
the connection with it and hands chunks to consumers through promises.

What makes each part correct: no lost wakeup, one message at a time, in order,
and nobody told of an end that did not come (process); one owner per live
process, an owner that hears its children, a handoff that neither loses nor
repeats (tree); order, integrity, the window, and an end for whoever keeps reading
(stream); a number that names one process on the connection for as long as anyone
uses it (references); one answer per call (call side); one end per session
(sessions, reactor); bytes in, the same lines out (framing).

`PROJECT.json` lists all components with their status, and under "hazards" each
such danger at its line with the properties that watch it.

## Modules

| module | is about | used by |
|---|---|---|
| `Mailbox` | what an inbox promises its senders | `Actor` refines it |
| `Actor` | one process and its generator | `MCActor`, `ActorProof` |
| `ActorProof` | proofs about `Actor` | |
| `ProcessTree` | ownership, cascade, handoff, orphans | `MCProcessTree`, `TreeProof` |
| `Selection` | what `Array.prototype.filter` leaves of a list | `ProcessTree` |
| `SelectionProof` | facts about `Selection`, and induction over sets | `TreeProof`, `ActorProof`, `WireProof` |
| `TreeProof` | proofs about any tree: types, who is not forked, no mute child | `TreeHandoffProof` |
| `TreeHandoffProof` | one owner, and nothing lost, where nobody calls `monitor()` | |
| `BoundedPipe` | what a stream promises its two ends | `Stream` refines it |
| `Stream` | one stream over one connection | `MCStream`, `StreamProof` |
| `StreamProof` | proofs about `Stream`'s credit and octets, and that it is a bounded pipe | |
| `ProcessRefs` | references to processes across one connection | its own `.cfg`, `RefsProof` |
| `RefsProof` | proofs about `ProcessRefs` | |
| `Session` | a proxy, the session that serves it, calls, the reactor | `MCSession`, `SessionProof` |
| `SessionProof` | proofs about `Session` | |
| `Wire` | writes, the medium and the part reader, over four transports | `MCWire`, `WireProof` |
| `WireProof` | proofs about `Wire`, and about flattened sequences | |

The `MC*` modules hold what TLC needs (symmetry, sets and sequences that a `.cfg`
cannot write).  Operators whose comment begins with "Mutant" are wrong on purpose:
`PROJECT.json` pairs each with the property that must notice when it takes the
place of the right definition.

How they fit together: `Wire` moves frames and segments between two channels;
`Session` takes an ordered, cuttable stream of frames for granted, which is what
`Wire` shows of an untorn connection, and lets a frame arrive unreadable, which is
what a torn one becomes; `ProcessRefs` and `Stream` are about frames that a standing
session delivers in order; `Actor` and `ProcessTree` are what a session serves.

### Actor

A step is what runs between two awaits.  `gen` says where the async generator of
`defineActor` stands (setup, first yield, afterStart, parked, in a handler, the
phases of its `finally` block); `requests` is the queue of `next`/`return` calls
such a generator answers one at a time, and is the reason why a kill during an
await, or an advance by `start`, behaves as it does.  `tick` is `pvtTick`: idle,
waiting for the answer, or with the answer back and the loop's next turn due.
`armed` is `nextTick`; `loose` counts deferred ticks whose handle was overwritten
by `tick()`.  `caller` records what became of each `wait()` and `stop()`, with `slot`
for the one reject function they share.  A rejection is told apart by where its
error came from: the generator (`rejected`), the forced stop of a child (`childError`),
a state subscriber that threw in `notify()` at the end of a tick (`viewError`).  The
code hands its callers the bare error; only the first says that the process is over.

| action | code |
|---|---|
| `SetupYields` to `GeneratorEnds` (`GeneratorStep`) | `makeRuntime`, `pvtWatchExit` |
| `StartAdvances` | the callback of `start()` |
| `TickFires`, `TickContinues`, `TickEnds` | `pvtTick` with its `notify()` and its catch, `pvtScheduleTick` |
| `Send`, `Flush`, `Exit`, `Pause`, `Resume`, `Kill` | `send`, `tick`, `exit`, `pause`, `resume`, `forceStop` |
| `Wait`, `Stop`, `StopTimesOut`, `StopThrows`, `StopEscalates` | `wait`, `stop` and its timers; a forced stop whose children's stops fail, or not |

Bounds: `MaxSends` user messages and one call per caller.  Two messages are enough
for an order, for one in the generator's hands and one behind it; two callers for
the shared slot.  There is no bound on ticks, pauses or resumes; `exit()` is not called
again while the wake of an earlier call is still queued.

### ProcessTree

The tree is seen from outside its processes: a handler is one step, except the
EXIT handler, which awaits `onOrphan` once per orphan and is interruptible between
them (`deciding`).  `children`, `orphans`, `owned` (adopt subscriptions) and
`watched` (monitor) are the code's tables as sets; `collector` and `pending` are
what a refuser carries until somebody adopts it.  `awaiting` and `handing` are the
local variables of the `finally` block over its await: `handing` is the copy of
the orphans made before the children are awaited.  Every message a process sends
up is numbered, so `heard`, the inboxes and the buffers can be compared with what
was sent.  `cut` marks those whose messages the code drops on purpose.  `off` says which
request outside the ticks may end the generator, the advance of `start()` or the
`return()` of a forced stop: an end under a tick holds the inbox shut, one under these
does not, and the next tick shifts one more message off for a generator that only
answers `done` (`Swallow`).  A process that ended on a child's error still subscribes
to its other children, and its ticks drop what comes (`Drop`).  `lost` records what
either took, and by whom.
`Selection` writes `filter` with the set of indices that stay, in ascending order,
instead of `SelectSeq`, whose recursion no prover here can look through.

| action | code |
|---|---|
| `Fork`, `Emit`, `Take`, `Decide` | `fork`, `emit`, the EXIT handler of `makeRuntime` |
| `Swallow`, `Drop` | `pvtTick` during and after the `finally` block |
| `BeginEnd`, `ChildStops`, `ChildRefuses`, `ChildThrows`, `Finish` | `pvtWatchExit`, `pvtPrepareHandoff`, `pvtBackFeed`, `pvtSwapToCollector` |
| `Adopt`, `Monitor`, `Kill` | `adopt`, `pvtDrainPending`, `monitor`, `forceStop` |
| `AskForce`, `Escalate`, `ForcedKill`, `ForceThrows` | `stop({ force: true })` |

Bounds: `N` processes forked in order and `MaxEmits` messages each.  Three give a
parent with a parent and a child; four are needed for an orphan to bubble up and
be adopted by a process that did not fork it.  `tree_kills` kills the two below the root
and lets the lower of them fail, so the root lives to take their handoff.

Not in the model: forks during the cascade, handlers that await (other than
EXIT), the order in which several orphans are decided (any order is allowed),
a parent that adopts and monitors counts as one subscription each at most,
repeated `stop({ force: true })` calls on one process are one.

### Stream

Octets are counted, and a chunk is known by the position of its first octet, so
that a lost, repeated or misplaced octet shows.  The writer's half is the offer
and `pvtPump`: `pump` names the await it stands at (the source, the segment, the
tail, the closing frame).  A cut happens after the source answers even if the
stream was dropped meanwhile, as in the code.  The reader's half is the incoming
entry, the `RemoteStream` queue and one consumer.  Frames keep their order in each
direction; `Corrupts` damages octets, which `Contiguous` sees in what
waits for the consumer (`Intact`); `WireDrops` takes both directions at once.

| action | code |
|---|---|
| `PullYields`, `PullYieldsNothing`, `PullEnds`, `SegmentSent`, `TailSent`, `PumpDrops` | `pvtPump`, `pvtPull`, `pvtTake`, `pvtDrop` |
| `WriterGets`, `ReaderGets` | `onFrame`, `onSegment` |
| `Reference`, `Read`, `Cancel` | `pvtValueFor`, `RemoteStream.next`, `cancel` |
| `WriterCloses`, `ReaderCloses` | `close` |

`upto` of an ask is not on the wire: it records all that was asked for, and lets
the invariant speak of the asks under way.  `Contiguous` sees what holds octets (the
queue, the chunk in hand, the frames on the wire) as rows of intervals, and asks that
each lead on where the one before it ends, from what the consumer took to what was
sent; frames that hold none are passed over.  Bounds: five octets at most with a
window of three and chunks of two, so the window opens, closes and opens again
with an octet still out, the last chunk is short, the remainder of a piece waits
for credit, and the reader's bound of four can be passed.

Not in the model: names, several streams of one connection (they share nothing but
the ids), a typed array's and a blob's own reading code (each is one consumer), a
second consumer of one stream, frames with made-up ids or credit.

### ProcessRefs

One side holds processes, the other reads them; a real connection is both at once,
with ids of different parity.  `number` and `named` are the holder's two tables,
`unsaid` the processes that have an id and no stream yet, `record` what each id is
asked to say.  `far` is the reader's table: a handle carries what it wants to hear,
the state it saw (the version, and of the optional field whom it `holds`: `receiveState`
merges, so a field the process dropped stays), the keeps of the application, the count,
and the handles its
state owns or its messages passed through.  Both wires are queues, so that every
release and tune can cross what is said meanwhile.  `deaf` is history: ids whose
`$tune` came when there was no stream to tune.

| action | code |
|---|---|
| `HandOver`, `Publish`, `Speak`, `End` (`HolderSays`) | `handleFor`, the record's `state`, `message`, `end` |
| `Flush` | `ProcessStreams.flush` |
| `HolderGets` | `deliver` of `server.ts` and `client.ts` on `$tune`, `$release`, `$stop` |
| `ReaderGets` | `processFor`, `receiveState`, `receiveMessage`, `receiveExit` |
| `Hold`, `Release`, `ReleaseRef`, `Tune`, `Subscribe`, `Ready`, `Wait`, `Stop` (`ReaderAsks`) | the methods of `RemoteProcess` |

Bounds: two processes, one of which refers to the other in its state or a message;
`MaxIds` ids, after which nothing is numbered; `MaxSays` hand-overs, changes and messages, `MaxAsks` uses of a handle.  Two and
three are enough for an id to be released and the process handed over again while
the release travels.  Not in the model: more than one reference in a frame,
references inside what a reference refers to, the loss of the wire (`Session`), the
microtasks between the end of a process and the word of it.

### Session

Both ends of one served connection.  The server's half is `serveChannel` with the
factory, the frames collected before the dispatch is in place (`waiting`), the one
close handler of the channel (`slot`), the cleanup that runs once and the words said
at the end; the client's half is the proxy with its far root.  `later` and `busy` are
the frame queues of the two pumps.  A message of class `owes` waits for octets, one
of class `throws` fails in its handler and leaves `busy` set, as in the code.
`reactor`, `live` and `awaited` are the reactor's table over this one connection.

| action | code |
|---|---|
| `Accept`, `Handshake`, `Make`, `MakeFails`, `ReadyFails`, `Serve` | `reactor`, `serveOne`, `serveChannel`, `makeProc` |
| `FrameArrives`, `OctetsArrive`, `CloseArrives` | `json1Channel`'s handlers, `schedule`, `process`, `deliver`, `pump` of each end |
| `RaceSettles`, `CleanupDone`, `CleanupFailed`, `CloseServer` | the race of the two ends, `end`, the teardown |
| `ProcEnds`, `ProcStops`, `Emit` | the served process |
| `Call`, `Answer` | `CallSide.call`, `answerCall` |
| `Say`, `StopProxy`, `ProxyStops`, `ProxyLost`, `ProxyCloses` | the proxy of `client.ts` |
| `StopReactor`, `ReactorEnds`, `ReactorStopped` | `stop` of `reactor.ts` |
| `Cut` | the medium |

Bounds: `MaxSays` messages, `MaxEmits` of the process, `MaxCalls` calls.  Three
messages are one that waits, one that waits behind it and one that is still on the
wire.  Abstractions: frames that owe octets go from client to server only, and owed
octets do not fail; octets themselves pass the queue (that they do is
`OctetsArrive`, enabled whatever waits); after a handler has closed the transport,
the rest of the same chunk is still delivered (`SameChunk`).

### Wire

One direction of a connection, from the sends of the writing end's callers to the
handlers of the reading end, over one of four carriers: a pipe pair and a socket
(`LineTransport`), a fifo pair, a websocket.  `queue` is what a writable stream has
taken and not passed on.  A send over `LineTransport` settles with its write's
callback, over the others at once; a segment is a line, a settled send, and its
octets.  A fifo refuses sends only when its close is over: a write while its file's
stream is ending is a write after the end, which destroys the stream with what it still
holds (phase `late`, `Refused`).  Callers other than a relay make one send after another.  `acc`, `want` and
`expecting` are the part reader's and json1's; while `pumping` nothing but handlers
runs at that end.  A byte knows the item it belongs to, and the first octet of a run
is a newline.

| action | code |
|---|---|
| `Send`, `SendOctets`, `SendSettles` | `send`, `sendSegment` of `json1Channel`, `pvtWrite` |
| `Flush`, `Break` | the medium; the streams' error handlers |
| `WriterCloses`, `WriterEnds`, `WriterEnded` | `close`, `pvtClose` of the three transports |
| `Feed`, `PumpOctets`, `PumpLine`, `PumpRests` | `readChunks`, `PartReader.feed`, `pump`, the handlers of `json1Channel` |
| `ReaderEof` | `readParts`' end, `PartReader.end`, `ws.onclose` |
| `ReaderEnds`, `FifoReaderEnded`, `WebSocketClosed` | a close from a handler |

Bounds: a segment of two octets, its tail and a frame of another caller, with lines
of two characters and an ending; so a cut can fall within a line, before its ending,
between line and octets and inside the octets.  A medium that breaks keeps any
prefix of what was on its way.  Runs of no octets are in no run; the proof covers
them.  Not in the model: line endings of two characters, handlers that come and go.  On
a pipe made of two given files (`fdStreams`) the end reaches the reader when the writing
process exits, which `WriterEnded` takes to follow the close.

## Runs

| run | shows |
|---|---|
| `actor_safety` | `NoLostTick`, `OneAtATime`, `ToldStopped`, and that the process implements `Mailbox`, over all interleavings of two messages and two callers |
| `actor_liveness` | mail is handled, `done` set in the actor's code is honoured, STOP ends an actor without a stop hook |
| `tree_kills` | with hard kills and failing children: whoever counts as a child is heard (`OwnerHears`), every message is given on in order, waits, was dropped on purpose or is one an ending owner took (`Lossless`) |
| `tree_handoff` | four processes, no kills: one owner at a time, nothing lost but one message per owner that ended outside a tick |
| `tree_forced` | a forced stop ends a process that refuses, and its children, if no child ends with an error |
| `stream` | order and integrity (`Contiguous`), framing, a clean end only for a whole stream, the window, that the stream implements `BoundedPipe`; a consumer that keeps reading is told something, and a cancel stops the writer |
| `refs` | an id on the wire means one process to both sides (`SameProcess`); what is asked for is what is said (`AskedIsHeard`), every field of the state arrives as it is (`Fresh`), nothing follows an exit (`LastWord`), no count is below its keepers (`CountsCover`), a wait for a process that ended is answered (`WaitAnswered`) |
| `session` | frames are taken in the order sent (`InOrder`), the exit is said, and before the close (`ExitIsLastWord`), the cleanup runs once (`CleanedUpOnce`), with a cut, an unreadable frame and a stopped reactor at any moment |
| `session_ends` | calls settle, a session whose connection or process is gone is over and off the table, a proxy ends |
| `wire` | over all four carriers, unless a segment is torn: what is read is what was written, whatever the cuts (`ReadAsWritten`); what a send has resolved arrives though the writer closes behind it, unless a fifo is written to while it ends (`SentArrives`); every way of ending is heard once, and last (`EndIsHeardOnce`) |

Two runs end in a violation; they show where the code and what it says of itself
part:

| run | what TLC shows |
|---|---|
| `wire_torn` | the gateway's relay writes a frame between a segment's line and its octets: the frame's text is handed over as the octets.  Two pumps, or a pump and any other caller, can do the same (`Items <- PumpAndCaller`, any carrier) |
| `session_close_lost` | a connection that closes between the first frame and the registration of the session's own handler is heard by nobody: the process is served over a closed connection |

## Known divergences

Properties at the end of a module that no run claims are sentences of the code that
the model refutes; the constants that show it are given, and are those of `Stream.cfg`,
`Refs.cfg` and `SessionEnds.cfg` where none are.

- `Actor!ExitNoticed` (`MaxSends = 1`, one caller): `exit()` between the loop's test
  of `done` and the end of the tick is seen by nobody (`process.async.ts:344` against
  :342).
- `Actor!EndSettlesWait` (the same, `FairSpec`): an `afterStart` that throws leaves
  `wait()` pending for ever, and so does a state subscriber that throws at the last
  tick (:390, :365 against :587).
- `ProcessTree!ForcedStopEnds` with `Fails = {2}`, `FairSpec`: a child's error ends a
  forced stop before the hard kill (:576 against :549).
- `ProcessTree!SurvivorsHandedUp` (`N = 4`): orphans that arrive during the cascade
  belong to nobody afterwards (:276 against :289).
- `ProcessTree!MonitorHandsOff` (`N = 4`, `Monitors <- RootMonitors`): a mere monitor decides
  about orphans its owner holds (`define-actor.ts:302` against `process.async.ts:611`).
  With `RootMonitors` in `TreeHandoff.cfg`, `SingleOwner` and `Lossless` fail for
  the same reason, and the theorems about them say `Monitors = {}`.
- `Stream!ErrorDropsBoth` (`FairSpec`): a reader's refusal never drops the writer's
  offer (`stream.ts:984` against `docs/proposals/streams.md:84`).
- `ProcessRefs!ReleasedIsGone`: releasing a handle through which a reference passed
  that has ended since throws half way (`remote-process.ts:361` against :343).
- `ProcessRefs!ReadySettles` (`FairSpec`): a `$tune` for a process that has ended is
  dropped, and `ready()` stays pending (`process-streams.ts:105` against
  `remote-process.ts:291`).
- `Session!StopReturns`, `Session!SpawnSettles` (`FairSpec`): `stop()` of the reactor
  waits for a session whose cleanup keeps its process; a spawn hangs when the wire
  goes, or the factory fails, before the far side has spoken.

The models also reach states that differ from what a reader may expect:

- process: a tick in progress drains the inbox of a process paused meanwhile
  (`process.async.ts:484`); of two callers of `wait()` only the later one is rejected
  by a failed start (592); `forceStop()` during setup makes the callback of `start()`
  throw (234); a process killed inside a handler parks without running its `finally`
  (514); a child's error that comes out of the cascade takes the place of the
  parent's EXIT (279), for which `ToldStopped` allows.
  A forced stop whose child ended with an error rejects its caller before
  `forceStop()`, and the process lives on (576-580); a state subscriber that throws at
  the end of a tick rejects the `wait()` of a live process, and at the last tick takes
  the place of `pvtEatResult`, so that a later `wait()` is never settled (363-367).
  Neither caller can tell this from the process's own error.
- tree: a parent that also monitors its child hands its messages over twice (682); a
  generator that ends outside a tick loses the next message of a child that a tick
  shifts off during the `finally` block (353, 359), where the back-feed (678) does not
  look; a parent whose cascade a child's error cut short goes on dropping what its live
  children say (288 against 301).  `Lossless` says that nothing else is lost: of all its
  children's messages an owner takes one at most, and only when it ends.
- stream: a writer's store that is closed ends a partly sent stream with
  `$streamDone` (`stream.ts:619`), for which `DoneIsWhole` allows.
- references: a field that a process drops from its state stays in every handle that saw
  it (`remote-process.ts:455`; `remote-process.test.ts:115` wants the merge), so `Fresh`
  speaks of the fields the state has; the handle of a process that ended never gives back what its state
  owned (`remote-process.ts:209`); a `wait()` whose `$tune` comes after the end, or
  that is pending at a release, is not settled, for which `WaitAnswered` allows; a
  `$release` that comes before the flush leaves a record nobody can reach.
- session: a frame whose handler throws leaves `busy` set, and the frames behind it
  are never taken; a cleanup that fails lets `serveChannel` throw without an exit,
  a rejection of calls or a close; a call made after `rejectAll` settles only if its
  own write fails; a connection still shaking hands is served after the reactor's
  stop.  `CallsSettle`, `SessionEnds` and `ProxyEnds` name these as their exceptions.
  They take for granted what `Actor` shows to fail in corners: that the end of a served
  process settles its `wait()` (`EndSettlesWait`), and that the `exit()` of the proxy is
  noticed (`ExitNoticed`), unless something else wakes it.  A far method answers in the
  end.
- wire: a send over a socket that is closed before the write is out resolves all the
  same (`stdio.ts:166-172`); on a fifo a write made while another's close waits for the
  file's stream (`fifo.ts:173-177`, :203) destroys it, and with it queued writes whose
  sends resolved at once: `SentArrives` names it as an exception (`LateWrite`).
- stream names: a side never looks at its own table of outgoing names when it
  announces one, so a name can be live in both directions at once.

Deadlock is not
checked where the system may come to rest: a tree that ended, a stream that is over,
a connection that is closed, or idle.

## Fairness

`Actor`: weak fairness of the generator, of `start`'s callback and of ticks, because
promise callbacks and deferred callbacks always run; hooks and handlers return.
Callers, senders, pause and resume owe nothing; properties that need a resumed
process say `<>[]~paused`.  `ProcessTree`: timers fire, settled promises are
noticed; nobody has to stop on request.  `Stream`: the source answers in the end,
frames arrive while the connection is there, the consumer keeps reading, and a
store whose connection went away is closed, which is what the session's wind-down
does.  `Session` and `Wire`: one weak fairness of everything the event loops and the
media do by themselves; no step of theirs can be repeated, so the whole of it
carries every part on.  Nobody has to say, call, stop or close, and no medium has to
break.  No strong fairness is assumed anywhere.

## Proofs

All of it holds for every value of the constants that the module's assumption allows;
the assumptions say that bounds are numbers, sets finite where they are counted,
and that `None` is none of the things it stands beside.

`ActorProof`: `ActorType`, `ActorNoLostTick`, `ActorOneAtATime`, `ActorToldStopped`, for
every number of messages and callers, with and without a stop hook and children.
The properties are not inductive alone: `NoLostTick` depends on who holds the
generator, so `IInv` adds `MachineOK` (the request queue is empty exactly when the
generator is at rest, at most one request is a tick's, and the tick waits exactly
for it), `ExitInv` (subscribers are told EXIT when the phase after the cascade is
reached), `DeadInv` and `SettledInv` (a settled promise implies an end or a kill).
One step per action preserves it.

`ActorIsMailbox`, in the same module: a process implements `Mailbox`, action by action.
What is pending are the user messages of the inbox behind the one that a tick's request
still holds (`Mail`).  `Phase` maps the ends.  Beside `IInv` it needs `StageInv`: before
the generator reaches its first yield no tick is asked for, because resuming it there
would throw the message away, and nothing but a tick's request carries a message.
`UserNames`, which takes the names off a list, is a recursive function; that it has
the value its equation says is `FoldExists` of `SelectionProof`, and what it makes of an
append or a tail follows by `Induction`.

`StreamProof`: `StreamType`, `StreamWindow`, for every window, chunk size, bound and
source.  `IInv` adds `Demand`: what was sent and may still be sent, each ask under
way, and what the reader asked for form one chain of intervals, and its last point
is at most a window past what the consumer took.  `PumpInCredit` says that a pump
that awaits its source has credit, so that a chunk is never empty and the credit
never negative.

On the octets, in the same module: `StreamContiguous`, `StreamFraming`, `StreamDoneIsWhole`, and
`StreamIsPipe`, the refinement of `BoundedPipe`.  The invariant `DInv` lays all that
is anywhere in a row (`Laid`): the queue leads from what the consumer took to
`QueueTo`, the chunk in hand on to `HeldTo`, the wire on to what was sent; a second
row on the same wire has one interval for a chunk and one back for its tail
(`Bracket`), so that every tail meets its chunk.  `Whole` counts the source's octets,
`Waits` says when a consumer may still be given something, `Done` that a closing
frame has no chunk behind it and was said at the end of the source unless somebody
called the stream off.  `Bounded` keeps what lies anywhere below what was sent, which
a stream that is gone needs too.  `Intact`, that what
waits for the consumer is undamaged, is inductive alone.  For the refinement, each action is shown to be a
write, a take, a verdict or nothing of the pipe; that a write stays within the
window is `Demand`.

`SelectionProof`: for every list and every set of its indices there is an ascending
enumeration, which inverts the rank of an index among those that stay, so that no
induction over the list is needed.  `PickedFacts` says what `Picked` contains and in
which order.  `Induction` says that a set of numbers that has 0 and the successor of each
of its members has every number: it takes a set where the library's theorem takes an
operator, so the provers can use it, and is itself proved from an ascending
enumeration.  `FoldExists` uses it: a function defined from 0 upwards exists.

`TreeProof`: `TreeType`, `TreeUnborn`, `TreeOwnerHears`, for every number of processes,
every policy, whoever is monitored or killed and whichever child fails.  `OwnerHears`
needs `UnbornClean`: a process is forked under a name that is in no book yet.

`TreeHandoffProof`: `TreeSingleOwner`, for every tree where nobody calls `monitor()`,
with kills and failing children.  `Places` says where a process is: *at* those
that subscribe to it and at those that act and have it in a book, in hand, or in an
unread message (`OnePlace`: of all these there is one), or named by one EXIT in one
buffer, and then nowhere else (`WaitsNowhere`, `WaitsOnce`).  `NamedOnce`, `Decided`
and `Apart` keep an orphan that is listed, undecided or adopted from being two of
these; `Leaving` says that a process that ends hands up one that has said EXIT, or
those it left, never both.  The hypothesis `Monitors = {}` is needed: with a monitor
TLC finds both properties violated (known divergences).

`TreeLossless`, in the same module and under the same hypothesis, adds to `Places`,
for every live process none of whose messages were dropped on purpose, `Tended` (its
one subscriber lives and has it in a book, or its collector listens; its messages
are in no other inbox; without a collector its buffer is empty) and `Counted` (what
was given to reducers, together with what an ending owner lost, is 1 to k, and the one
inbox or buffer has k + 1 to the last one sent, in order).  That a loss is one per owner
follows from `off`: the request that lets a tick in is used up by it (`Losses`).  The
back-feed and the adoption are where the two meet: the unread part of an inbox becomes a
buffer, and the buffer an inbox again.

`RefsProof`: `RefsType`, `RefsSameProcess`, `RefsCountsCover`, `RefsLastWord`,
`RefsAskedIsHeard`, `RefsWaitAnswered`, `RefsFresh`, that is, every invariant `refs`
checks, for every set of processes and lists of kinds, and any number of ids,
hand-overs and uses.  `TInv` says that
the holder's two tables are inverse, that ids not yet given name nobody, and that
the reader's handles refer only to handles in the table, which is what makes the
cascade of `release` well defined.  `OneMeaning` says of everything that ties a number
to a process (the table, a handle, a frame in either direction, a stream not yet
begun) that they agree and that the number was given.  `Covered` is `CountsCover` of
any table, so that it can be carried through the two steps of a release, giving back
what the handle owned, then losing it.  `LInv` adds to `LastWord` that a process whose
end has been said has no record and no stream to begin (`Silenced`), and that streams
to begin are of different processes not on record (`Unbegun`).

For the last three the steps are sorted by what they do to the agreement of the two
sides rather than by their code: the processes go on (`Onward`), a stream is begun
(`Begun`), the holder takes a frame in (`TakesIn`), a frame lands on a handle (`Lands`),
and the application leaves each handle alone, lets go of it or tunes it (`Untold`,
`LetGoOf`, `Tuned`); each of these is a lemma about the actions, and each invariant is
then carried over these five.  `AInv`, for `AskedIsHeard`: the last `$tune` or
`$release` under way about an id (`LastIn`) asks for what its handle wants, and without
one that is what is on record; an id without a handle was given up, every `$tune` of
it is followed by its `$release` (`GivenUp`), which is what a handle made anew for that
id starts from; and a stream begun after its process was let go of says nothing
(`Orphaned`).  `WInv`, for `WaitAnswered`: a numbered process is on record or will be
as long as it runs, and off it afterwards (`Recorded`), so that a wanted exit is said
when it ends or found by no stream (`Announced`).  `FInv`, for `Fresh`: the last word of
the state under way is the state as it is, and merged into what the handle has it shows
every field (`Current`), unless a release is under way,
whose id a new handle may have taken in the meantime.

`SessionProof`: `SessionType`, `CleanedUpOnceAlways`, `ExitIsLastWordAlways`,
`InOrderAlways`, for any number of messages and calls, every answer of the factory and
every place where the medium may be cut or garble a frame.  `SInv` says which frames
travel which way (only a message for the process owes octets or throws, so the client
has no queue), that a session before `serving` has done nothing but collect, and that
`cleanups` counts what `ending` tells.  `WInv`, for the last word, follows the exit:
it is on the wire or heard only once the session has said it, an end that hears of a
close hears it behind all the other end said (`Closing`), an unreadable frame was
garbled or answers one that was (`Readable`), and a process that was tuned has its exit
on the wire or heard before the close (`WordSaid`).  `OInv`, for the order, says that the
frames held, in line, collected and on the wire are one ascending row above what was
heard (`ComesUp`), that it has no gap while the connection stands (`AllComes`), and that
nothing is said before the session serves, because the proxy waits for the first
state (`Opened`): without that, the collected frames and the queue could interleave.

`WireProof`: `WireReadAsWritten`, for every sequence of items (frames, segments of any
length, of none too), any callers and relays, all four carriers, every cut, break and
close; and `WireEndIsLast`, the half of `EndIsHeardOnce` that is no liveness.  The order
of the bytes is a relation between neighbours: `Follows` says that a byte comes straight
after another, within its item or as the first of the next item whose line was written.
The writes in the queue, the wire and the reader's buffer, one behind the other, are a
chain of that relation (`Chain`), which is cut and joined anywhere (`ChainConcat`), so a
chunk's border needs no case of its own.  A reader is in step (`InStep`) when it was
given what the first items make, awaits the octets of the next item or none, and what is
underway goes on from the last byte it used.  From this `TakeLine` finds that the first
newline of a buffer is the next item's, although octets may be newlines, and `TakeOctets`
that the octets awaited are that item's.  `Kept` adds that what is underway reaches to the
last byte written (`EndIn`), until the medium, the socket or a late write to a fifo has dropped something
(`Lost`); that is what a new write continues (`LineWritten`, `OctetsWritten`), unless it
tears a segment (`TornIn`).  `WrittenOnce` and `LinesOnce` keep the items of the chain
apart; `NoCut` and `Rested` say that a reader at the end of the medium can hold the front
of one line at most, and that only of a medium that broke.  A segment that is torn ends
the argument for good: there the code keeps no order (known divergences).

`FlattenSeq` of the community modules is a recursive function under a `LET`: what it
makes of an append and of a head (`FlatAppend`, `FlatHead`) is proved by `Induction` of
`SelectionProof` from the equation that `FoldExists` gives it.

Only model-checked: liveness under fairness, and whatever speaks of `ENABLED`, which is
out of the proof system's reach.  These are the mail that is handled, `done` and STOP that
are honoured, the forced stop, the reader that is told something, the cancel that stops
the writer, calls, sessions and proxies that end, sends that arrive, and that the end is
heard at all.  Every invariant and every action property of the passing runs, and
both refinements, are theorems.

## Plan

What the proofs can reach of the runs' properties is proved.  What a model could still
add is listed under "Not modelled"; the nearest are the two tables of stream names and
the gateway's start.

No module of the project has a `RECURSIVE` operator.

## Not modelled

- Stream names: two tables and 64 refusals; only the gateway and the client's output
  use names.
- Gateway (but for its relay), kit, subprocess actor, spawners, listeners: files,
  sockets and programs around a session, in sequences of awaited steps.
- podman: the retain and release of a shared container are listed as a hazard; the
  rest is what podman does with names and labels.  bubblewrap and ssh build argument
  lists.
- xfetch: one request and its abort.
- JSON itself, plugins (observers), types, test helpers, examples, scripts, the
  deprecated synchronous adapter.
