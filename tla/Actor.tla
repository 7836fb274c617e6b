------------------------------- MODULE Actor -------------------------------
(***************************************************************************)
(* One posipaki process: the AsyncProcess of src/src/process.async.ts      *)
(* driving the generator that defineActor (src/src/define-actor.ts)        *)
(* compiles an actor into.                                                 *)
(*                                                                         *)
(* An async generator answers its requests (next, return) one at a time    *)
(* and queues the others; `requests' is that queue, its head the request   *)
(* the generator is running for.  A step of this module is what runs       *)
(* between two awaits; which task runs next is the event loop's choice.    *)
(***************************************************************************)
EXTENDS Naturals, Sequences

CONSTANTS
    MaxSends,       \* bound: messages users send in a behaviour
    Callers,        \* those who call wait() or stop(), each one call
    None,           \* pvtExitReject = null
    StopHook,       \* TRUE: the actor has an onStopRequested hook
    HasChildren     \* TRUE: the actor may have children to stop when it ends

ASSUME ActorAssumption ==
    /\ MaxSends \in Nat
    /\ None \notin Callers
    /\ StopHook \in BOOLEAN
    /\ HasChildren \in BOOLEAN

VARIABLES
    inbox,          \* buffer
    armed,          \* nextTick holds the handle of a deferred tick
    loose,          \* deferred ticks whose handle was dropped
    paused,         \* pvtIsPaused
    dead,           \* pvtDead; `current' is null exactly then
    dispatchLive,   \* pvtDispatchLive
    tick,           \* pvtTick: "idle", or where the tick in progress stands
    gen,            \* where the generator stands
    failing,        \* the generator is completing with a throw
    requests,       \* the generator's request queue
    startPc,        \* start(): first request out, answered, or settled
    done,           \* `done' of the actor's runtime
    ready,          \* pvtReady
    exit,           \* exitWaiter is resolved
    slot,           \* whose reject function pvtExitReject holds
    caller,         \* what became of each wait() or stop() call
    exits,          \* EXIT messages the subscribers were given
    handled,        \* user messages the reducer was given, in order
    posted          \* user messages sent so far

schedule == <<armed, loose, paused>>
machine  == <<tick, gen, requests, handled>>
outcome  == <<exit, slot, caller>>
vars == <<inbox, armed, loose, paused, dead, dispatchLive, tick, gen, failing,
          requests, startPc, done, ready, exit, slot, caller, exits, handled,
          posted>>

-----------------------------------------------------------------------------
User(n)  == [k |-> "user", n |-> n]
STOP     == [k |-> "STOP", n |-> 0]
ADVANCE  == [k |-> "ADVANCE", n |-> 0]
Msg      == [k : {"user", "STOP", "ADVANCE"}, n : Nat]
Request  == [by : {"first", "advance", "tick", "return"}, m : Msg]

Suspended == {"initial", "parked"}
Ending    == {"beforeEnd", "cascade", "afterEnd", "closing", "ended"}
GenPhases == {"setup", "afterStart", "handling"} \cup Suspended \cup Ending

\* What a call was told: of the end ("resolved", "stopped", or "rejected" with the
\* generator's own error), of a refusal, or of an error from elsewhere, a child's
\* stop() or a state subscriber.
CallStates == {"idle", "wait", "nice", "force", "escalating",
               "resolved", "rejected", "stopped", "refused", "childError", "viewError"}
Pending == {"wait", "nice", "force"}

TypeOK ==
    /\ inbox \in Seq(Msg)
    /\ armed \in BOOLEAN /\ loose \in Nat /\ paused \in BOOLEAN
    /\ dead \in BOOLEAN /\ dispatchLive \in BOOLEAN
    /\ tick \in {"idle", "waiting", "yielded", "returned"}
    /\ gen \in GenPhases /\ failing \in BOOLEAN
    /\ requests \in Seq(Request)
    /\ startPc \in {"first", "yielded", "started", "failed"}
    /\ done \in BOOLEAN
    /\ ready \in {"pending", "resolved", "rejected"}
    /\ exit \in BOOLEAN /\ slot \in Callers \cup {None}
    /\ caller \in [Callers -> CallStates]
    /\ exits \in 0..1 /\ handled \in Seq(Nat) /\ posted \in Nat

Init ==
    /\ inbox = <<>> /\ armed = FALSE /\ loose = 0 /\ paused = FALSE
    /\ dead = FALSE /\ dispatchLive = FALSE /\ tick = "idle"
    /\ gen = "setup" /\ failing = FALSE
    /\ requests = <<[by |-> "first", m |-> ADVANCE]>>
    /\ startPc = "first" /\ done = FALSE /\ ready = "pending"
    /\ exit = FALSE /\ slot = None /\ caller = [c \in Callers |-> "idle"]
    /\ exits = 0 /\ handled = <<>> /\ posted = 0

-----------------------------------------------------------------------------
(* pvtScheduleTick, and what settles the promises of wait() and stop(). *)

ScheduleTick == armed' = (armed \/ (~paused /\ ~dead))

\* What wait() and stop() answer when the reject function in the slot fires
\* (`reject') and when exitWaiter resolves (`resolve').
Answered(cs, reject, resolve) ==
    [c \in Callers |->
        IF cs[c] \notin Pending THEN cs[c]
        ELSE IF reject /\ c = slot THEN "rejected"
        ELSE IF ~resolve THEN cs[c]
        ELSE IF cs[c] = "wait" THEN "resolved" ELSE "stopped"]

Settle(reject, resolve) ==
    /\ exit' = (exit \/ resolve)
    /\ slot' = IF reject \/ resolve THEN None ELSE slot
    /\ caller' = Answered(caller, reject, resolve)

\* notify() at the end of a tick: a state subscriber that throws lands in the
\* tick's catch, which rejects whoever holds the slot, the process as it was.  A
\* killed process has no subscribers.
SubscriberThrows ==
    /\ ~dead
    /\ slot' = None
    /\ caller' = [c \in Callers |->
                     IF c = slot /\ caller[c] \in Pending THEN "viewError" ELSE caller[c]]
    /\ UNCHANGED exit

Notify == UNCHANGED outcome \/ SubscriberThrows

-----------------------------------------------------------------------------
(* The generator as an async generator object. *)

\* Where a generator suspended at `at' goes when request r resumes it.  What is
\* handed to the initial yield is discarded.
Resumed(at, r) ==
    IF r.by = "return" THEN "cascade"
    ELSE IF at = "initial" THEN "afterStart" ELSE "handling"

Log(at, r) ==
    IF Resumed(at, r) = "handling" /\ r.m.k = "user"
    THEN Append(handled, r.m.n) ELSE handled

\* generator.next(m) / generator.return(): a suspended generator runs for it at
\* once, a running one queues it, a finished one answers it by itself.
Issue(r) ==
    IF gen = "ended" THEN UNCHANGED <<gen, requests, handled>>
    ELSE /\ requests' = Append(requests, r)
         /\ IF gen \in Suspended
            THEN gen' = Resumed(gen, r) /\ handled' = Log(gen, r)
            ELSE UNCHANGED <<gen, handled>>

\* The generator yields at `at': the head request is answered, and the next one,
\* if there is one, resumes the generator at once.
Yield(at) ==
    /\ requests' = Tail(requests)
    /\ tick' = IF Head(requests).by = "tick" THEN "yielded" ELSE tick
    /\ IF Len(requests) = 1
       THEN gen' = at /\ UNCHANGED handled
       ELSE gen' = Resumed(at, requests[2]) /\ handled' = Log(at, requests[2])

\* `while (!readyFn())' of runDispatchAsync, d being the flag it reads.
LoopTest(d) ==
    IF d THEN gen' = "beforeEnd" /\ UNCHANGED <<tick, requests, handled>>
    ELSE Yield("parked")

-----------------------------------------------------------------------------
(* start() and the life of the generator. *)

SetupYields ==
    /\ gen = "setup"
    /\ startPc' = "yielded"
    /\ Yield("initial")
    /\ UNCHANGED <<inbox, schedule, dead, dispatchLive, failing, done, ready,
                   outcome, exits, posted>>

\* beforeStart or setup throws, or a bare generator returns without a yield.
SetupEnds ==
    /\ gen = "setup"
    /\ gen' = "cascade"
    /\ failing' \in BOOLEAN
    /\ UNCHANGED <<inbox, schedule, dead, dispatchLive, tick, requests, startPc,
                   done, ready, outcome, exits, handled, posted>>

\* Mutants of StartAdvances: mail that came before the start gets no tick; or
\* it is dropped.
StartAdvancesNoTick ==
    /\ startPc = "yielded"
    /\ startPc' = "started"
    /\ ready' = IF ready = "pending" THEN "resolved" ELSE ready
    /\ dispatchLive' = TRUE
    /\ IF dead
       THEN UNCHANGED <<gen, requests, handled, outcome>>
       ELSE /\ Issue([by |-> "advance", m |-> ADVANCE])
            /\ Settle(FALSE, gen = "ended")
    /\ UNCHANGED <<inbox, schedule, dead, tick, failing, done, exits, posted>>

StartAdvancesDropping ==
    /\ startPc = "yielded"
    /\ startPc' = "started"
    /\ ready' = IF ready = "pending" THEN "resolved" ELSE ready
    /\ dispatchLive' = TRUE
    /\ inbox' = <<>>
    /\ IF dead
       THEN UNCHANGED <<gen, requests, handled, outcome>>
       ELSE /\ Issue([by |-> "advance", m |-> ADVANCE])
            /\ Settle(FALSE, gen = "ended")
    /\ UNCHANGED <<schedule, dead, tick, failing, done, exits, posted>>

\* The callback of the first next(): on a process killed meanwhile `current' is
\* null and calling next on it throws, in a callback nobody catches.
StartAdvances ==
    /\ startPc = "yielded"
    /\ startPc' = "started"
    /\ ready' = IF ready = "pending" THEN "resolved" ELSE ready
    /\ dispatchLive' = TRUE
    /\ IF dead
       THEN UNCHANGED <<gen, requests, handled, armed, outcome>>
       ELSE /\ Issue([by |-> "advance", m |-> ADVANCE])
            /\ IF inbox # <<>> THEN ScheduleTick ELSE UNCHANGED armed
            /\ Settle(FALSE, gen = "ended")
    /\ UNCHANGED <<inbox, loose, paused, dead, tick, failing, done, exits, posted>>

\* Mutant: runDispatchAsync tests the flag only after a message.
AfterStartParks ==
    /\ gen = "afterStart"
    /\ Yield("parked")
    /\ UNCHANGED <<inbox, schedule, dead, dispatchLive, failing, startPc, done,
                   ready, outcome, exits, posted>>

AfterStartReturns ==
    /\ gen = "afterStart"
    /\ LoopTest(done)
    /\ UNCHANGED <<inbox, schedule, dead, dispatchLive, failing, startPc, done,
                   ready, outcome, exits, posted>>

\* Only ADVANCE skips the hooks and handlers; a STOP no hook answers ends the actor.
MayStay(m) == m.k # "STOP" \/ StopHook
MayEnd(m)  == m.k # "ADVANCE"

HandlerReturns ==
    /\ gen = "handling"
    /\ \E ends \in BOOLEAN :
          /\ IF ends THEN MayEnd(Head(requests).m) ELSE MayStay(Head(requests).m)
          /\ done' = (done \/ ends)
          /\ LoopTest(done \/ ends)
    /\ UNCHANGED <<inbox, schedule, dead, dispatchLive, failing, startPc, ready,
                   outcome, exits, posted>>

\* A lifecycle hook throws, or a message hook or handler whose error onError
\* does not absorb.
HookThrows ==
    /\ \/ gen = "afterStart"
       \/ /\ gen = "handling"
          /\ Head(requests).m.k = "user" \/ (Head(requests).m.k = "STOP" /\ StopHook)
    /\ gen' = "cascade"
    /\ failing' = TRUE
    /\ UNCHANGED <<inbox, schedule, dead, dispatchLive, tick, requests, startPc,
                   done, ready, outcome, exits, handled, posted>>

BeforeEndFinishes ==
    /\ gen = "beforeEnd"
    /\ gen' = "cascade"
    /\ failing' \in BOOLEAN
    /\ UNCHANGED <<inbox, schedule, dead, dispatchLive, tick, requests, startPc,
                   done, ready, outcome, exits, handled, posted>>

\* Mutant: EXIT goes out from the finally block and again from afterEnd.
CascadeFinishesTwice ==
    /\ gen = "cascade"
    /\ exits' = IF dead THEN exits ELSE exits + 2
    /\ gen' = IF startPc = "started" THEN "afterEnd" ELSE "closing"
    /\ UNCHANGED <<inbox, schedule, dead, dispatchLive, tick, failing, requests,
                   startPc, done, ready, outcome, handled, posted>>

\* The finally block once the children have answered: EXIT goes to whoever still
\* subscribes, and afterEnd runs only on an actor that started.
CascadeFinishes ==
    /\ gen = "cascade"
    /\ exits' = IF dead THEN exits ELSE exits + 1
    /\ gen' = IF startPc = "started" THEN "afterEnd" ELSE "closing"
    /\ UNCHANGED <<inbox, schedule, dead, dispatchLive, tick, failing, requests,
                   startPc, done, ready, outcome, handled, posted>>

\* The stop() of a child throws the child's own error, and the finally block with it.
CascadeThrows ==
    /\ gen = "cascade" /\ HasChildren
    /\ gen' = "closing" /\ failing' = TRUE
    /\ UNCHANGED <<inbox, schedule, dead, dispatchLive, tick, requests, startPc,
                   done, ready, outcome, exits, handled, posted>>

\* The generator completes: the request it ran for gets its outcome, the queued
\* ones are answered `done'.
Answers(by) == \E i \in DOMAIN requests : requests[i].by = by

Completes(threw) ==
    LET ran == Head(requests).by IN
    /\ gen' = "ended" /\ failing' = threw /\ requests' = <<>>
    /\ tick' = IF Answers("tick") THEN "returned" ELSE tick
    /\ Settle(threw /\ ran \in {"first", "tick"},
              ran = "first" \/ (Answers("advance") /\ ~(threw /\ ran = "advance")))
    /\ startPc' = IF ran # "first" THEN startPc ELSE IF threw THEN "failed" ELSE "started"
    /\ ready' = IF ran # "first" \/ ready # "pending" THEN ready
                ELSE IF threw THEN "rejected" ELSE "resolved"
    /\ IF ran = "first" /\ threw
       THEN dead' = TRUE /\ inbox' = <<>> /\ armed' = FALSE
       ELSE UNCHANGED <<dead, inbox, armed>>

GeneratorEnds ==
    /\ gen \in {"afterEnd", "closing"}
    /\ \E threw \in (IF gen = "afterEnd" THEN {failing, TRUE} ELSE {failing}) : Completes(threw)
    /\ UNCHANGED <<loose, paused, dispatchLive, done, exits, handled, posted>>

-----------------------------------------------------------------------------
(* pvtTick. *)

\* Mutants of pvtTick's guard: no test of the tick in progress; none of
\* pvtDispatchLive.
RunnableReentrant == ~dead /\ dispatchLive
RunnableEarly == ~dead /\ tick = "idle"

Runnable == ~dead /\ dispatchLive /\ tick = "idle"

TakeNext ==
    /\ inbox' = Tail(inbox)
    /\ Issue([by |-> "tick", m |-> Head(inbox)])
    /\ tick' = IF gen = "ended" THEN "returned" ELSE "waiting"

\* A tick that finds nothing to take still notifies.
BeginTick ==
    IF Runnable /\ inbox # <<>> THEN TakeNext /\ UNCHANGED outcome
    ELSE /\ IF Runnable THEN Notify ELSE UNCHANGED outcome
         /\ UNCHANGED <<inbox, tick, gen, requests, handled>>

\* A deferred callback fires; it clears nextTick, whichever callback that names.
TickFires ==
    /\ armed \/ loose > 0
    /\ armed' = FALSE
    /\ loose' = IF armed THEN loose ELSE loose - 1
    /\ BeginTick
    /\ UNCHANGED <<paused, dead, dispatchLive, failing, startPc, done, ready,
                   exits, posted>>

\* Mutant: a tick that drained the inbox is taken for the end of the process.
TickContinuesAsEnd ==
    /\ tick = "yielded"
    /\ IF inbox # <<>> THEN TakeNext /\ UNCHANGED outcome
       ELSE tick' = "idle" /\ Settle(FALSE, TRUE) /\ UNCHANGED <<inbox, gen, requests, handled>>
    /\ UNCHANGED <<schedule, dead, dispatchLive, failing, startPc, done, ready,
                   exits, posted>>

\* The await on next() comes back with a yield: take the next message, or finish.
TickContinues ==
    /\ tick = "yielded"
    /\ IF inbox # <<>> THEN TakeNext /\ UNCHANGED outcome
       ELSE tick' = "idle" /\ Notify /\ UNCHANGED <<inbox, gen, requests, handled>>
    /\ UNCHANGED <<schedule, dead, dispatchLive, failing, startPc, done, ready,
                   exits, posted>>

\* It comes back done (or thrown): the loop breaks and the process has exited,
\* which a subscriber that throws keeps from being said.
TickEnds ==
    /\ tick = "returned"
    /\ tick' = "idle"
    /\ Settle(FALSE, TRUE) \/ SubscriberThrows
    /\ UNCHANGED <<inbox, schedule, dead, dispatchLive, gen, failing, requests,
                   startPc, done, ready, exits, handled, posted>>

-----------------------------------------------------------------------------
(* What the outside calls. *)

Push(m) == inbox' = Append(inbox, m) /\ ScheduleTick

Send ==
    /\ posted < MaxSends
    /\ ~dead
    /\ posted' = posted + 1
    /\ Push(User(posted + 1))
    /\ UNCHANGED <<loose, paused, dead, dispatchLive, machine, failing, startPc,
                   done, ready, outcome, exits>>

\* tick(): flush() runs the deferred tick now, and the handle is dropped after it
\* ran: a tick the handler's synchronous part scheduled keeps no handle.
Flush ==
    /\ armed
    /\ armed' = FALSE
    /\ \/ BeginTick /\ UNCHANGED <<loose, posted>>
       \/ /\ Runnable /\ inbox # <<>> /\ gen = "parked" /\ Head(inbox).k = "user"
          /\ posted < MaxSends /\ posted' = posted + 1
          /\ inbox' = Append(Tail(inbox), User(posted + 1))
          /\ Issue([by |-> "tick", m |-> Head(inbox)])
          /\ tick' = "waiting"
          /\ loose' = loose + 1
          /\ UNCHANGED outcome
    /\ UNCHANGED <<paused, dead, dispatchLive, failing, startPc, done, ready, exits>>

\* pvtWake: nothing on a process that is dead, not dispatching, or in a tick.
Wakeable == ~dead /\ dispatchLive /\ tick = "idle"

\* exit(reason), called by a hook, a handler or a callback of the actor's own; a
\* further call wakes the loop again (bound: not while the wake of one is queued).
Exit ==
    /\ ~done \/ \A i \in DOMAIN inbox : inbox[i] # ADVANCE
    /\ done' = TRUE
    /\ IF Wakeable THEN Push(ADVANCE) ELSE UNCHANGED <<inbox, armed>>
    /\ UNCHANGED <<loose, paused, dead, dispatchLive, machine, failing, startPc,
                   ready, outcome, exits, posted>>

Pause ==
    /\ armed' = FALSE /\ paused' = TRUE
    /\ UNCHANGED <<inbox, loose, dead, dispatchLive, machine, failing, startPc,
                   done, ready, outcome, exits, posted>>

\* Mutant: resume() clears the flag and schedules nothing.
ResumeUnscheduled ==
    /\ paused' = FALSE
    /\ UNCHANGED <<inbox, armed, loose, dead, dispatchLive, machine, failing, startPc,
                   done, ready, outcome, exits, posted>>

Resume ==
    /\ paused' = FALSE /\ armed' = (armed \/ ~dead)
    /\ UNCHANGED <<inbox, loose, dead, dispatchLive, machine, failing, startPc,
                   done, ready, outcome, exits, posted>>

\* wait() takes the one reject slot, whoever held it.
Wait(c) ==
    /\ caller[c] = "idle"
    /\ caller' = [caller EXCEPT ![c] = IF exit THEN "resolved" ELSE "wait"]
    /\ slot' = IF exit THEN None ELSE c
    /\ UNCHANGED <<inbox, schedule, dead, dispatchLive, machine, failing, startPc,
                   done, ready, exit, exits, posted>>

Stop(c) ==
    /\ caller[c] = "idle"
    /\ IF dead
       THEN /\ caller' = [caller EXCEPT ![c] = "stopped"]
            /\ UNCHANGED <<inbox, armed, slot>>
       ELSE /\ \E mode \in {"nice", "force"} :
                  caller' = [caller EXCEPT ![c] = IF exit THEN "stopped" ELSE mode]
            /\ slot' = IF exit THEN None ELSE c
            /\ Push(STOP)
    /\ UNCHANGED <<loose, paused, dead, dispatchLive, machine, failing, startPc,
                   done, ready, exit, exits, posted>>

\* The timer of stop() wins: a nice stop gives up, a forced one throws a return
\* at the generator and turns to the children.
StopTimesOut(c) ==
    /\ \/ /\ caller[c] = "nice"
          /\ caller' = [caller EXCEPT ![c] = "refused"]
          /\ UNCHANGED <<gen, requests, handled>>
       \/ /\ caller[c] = "force"
          /\ caller' = [caller EXCEPT ![c] = "escalating"]
          /\ IF dead THEN UNCHANGED <<gen, requests, handled>>
             ELSE Issue([by |-> "return", m |-> ADVANCE])
    /\ UNCHANGED <<inbox, schedule, dead, dispatchLive, tick, failing, startPc,
                   done, ready, exit, slot, exits, posted>>

\* forceStop(), called where the calls stand at cs; nothing on a dead process.
ForceStop(cs) ==
    IF dead
    THEN caller' = cs /\ UNCHANGED <<dead, inbox, armed, ready, exit, slot>>
    ELSE /\ dead' = TRUE /\ inbox' = <<>> /\ armed' = FALSE
         /\ ready' = IF ready = "pending" THEN "resolved" ELSE ready
         /\ exit' = TRUE /\ slot' = None
         /\ caller' = Answered(cs, FALSE, TRUE)

Kill ==
    /\ ForceStop(caller)
    /\ UNCHANGED <<loose, paused, dispatchLive, machine, failing, startPc, done,
                   exits, posted>>

\* The forced stop of a child threw that child's own error: so does this one, and
\* the process is not killed.
StopThrows(c) ==
    /\ caller[c] = "escalating" /\ HasChildren
    /\ caller' = [caller EXCEPT ![c] = "childError"]
    /\ UNCHANGED <<inbox, schedule, dead, dispatchLive, machine, failing, startPc,
                   done, ready, exit, slot, exits, posted>>

\* A forced stop whose children are down hard-kills the process itself.
StopEscalates(c) ==
    /\ caller[c] = "escalating"
    /\ ForceStop([caller EXCEPT ![c] = "stopped"])
    /\ UNCHANGED <<loose, paused, dispatchLive, machine, failing, startPc, done,
                   exits, posted>>

-----------------------------------------------------------------------------
\* What the event loop runs by itself, given that the actor's own code returns.
GeneratorStep ==
    \/ SetupYields \/ SetupEnds \/ AfterStartReturns \/ HandlerReturns \/ HookThrows
    \/ BeforeEndFinishes \/ CascadeFinishes \/ CascadeThrows \/ GeneratorEnds
TickStep == TickContinues \/ TickEnds

Next ==
    \/ GeneratorStep \/ StartAdvances \/ TickFires \/ TickStep
    \/ Send \/ Flush \/ Exit \/ Pause \/ Resume \/ Kill
    \/ \E c \in Callers : Wait(c) \/ Stop(c) \/ StopTimesOut(c) \/ StopThrows(c)
                            \/ StopEscalates(c)

Spec == Init /\ [][Next]_vars

\* Promise callbacks and deferred callbacks run; callers need not call.
Fairness ==
    WF_vars(GeneratorStep) /\ WF_vars(StartAdvances) /\ WF_vars(TickFires) /\ WF_vars(TickStep)

FairSpec == Spec /\ Fairness

-----------------------------------------------------------------------------
\* A hard kill, as opposed to a start that failed.
Killed == dead /\ ready = "resolved"

\* No wakeup is lost between send, resume, start and the end of a tick: a
\* process that may dispatch and has mail has a tick deferred or in progress.
NoLostTick ==
    inbox # <<>> /\ dispatchLive /\ ~paused /\ ~dead /\ gen # "ended"
        => armed \/ loose > 0 \/ tick # "idle"

\* "Messages are processed one at a time": the generator never holds two
\* messages, and one is in its hands exactly while a tick awaits it.
OneAtATime ==
    /\ \A i, j \in DOMAIN requests : requests[i].by = "tick" /\ requests[j].by = "tick" => i = j
    /\ tick = "waiting" <=> \E i \in DOMAIN requests : requests[i].by = "tick"

\* Whoever wait() or stop() tells that the process is over, by an answer or by the
\* generator's own error, is right: it was hard killed, or its generator completed
\* and its subscribers were told EXIT, once -- or the error of a child took the
\* place of EXIT.  (A call may also be rejected with an error from elsewhere; that
\* says nothing of the process, which may well live on.)
ChildError == HasChildren /\ failing
ToldStopped ==
    \A c \in Callers : caller[c] \in {"resolved", "rejected", "stopped"}
        => Killed \/ (gen = "ended" /\ (exits = 1 \/ ChildError))

\* Messages reach the reducer in the order sent, none skipped, none twice, and
\* none after the dispatch loop was left: the process implements Mailbox.
UserNames(ms) ==
    LET upto[i \in 0..Len(ms)] ==
            IF i = 0 THEN <<>>
            ELSE IF ms[i].k = "user" THEN Append(upto[i - 1], ms[i].n) ELSE upto[i - 1]
    IN upto[Len(ms)]
Unserved(rs) ==
    LET ts == {i \in 2..Len(rs) : rs[i].by = "tick"}
    IN IF ts = {} THEN <<>> ELSE <<rs[CHOOSE i \in ts : TRUE].m>>

Inbox == INSTANCE Mailbox WITH
    Names <- 1..MaxSends,
    pending <- UserNames(Unserved(requests) \o inbox),
    taken <- handled,
    phase <- IF gen \in Ending THEN "ended" ELSE IF dead THEN "killed" ELSE "open"
MailboxSpec == Inbox!Spec

\* A message sent to a process that is not left paused is handled, unless the
\* process ends or is killed first: nothing waits in the inbox forever.
Delivered ==
    <>[]~paused =>
        \A n \in 1..MaxSends :
            (posted >= n) ~> (gen \in Ending \/ dead \/ \E i \in DOMAIN handled : handled[i] = n)

\* `done' set while the actor's own code runs is noticed: the loop is left.
DoneHonoured ==
    (done /\ gen \in {"setup", "afterStart", "handling"}) ~> (gen \in Ending \/ dead)

\* A STOP sent to an actor without an onStopRequested hook ends it, at whatever
\* point of its life it arrives.
StopHonoured ==
    <>[]~paused =>
        ((~StopHook /\ \E i \in DOMAIN inbox : inbox[i] = STOP) ~> (gen = "ended" \/ dead))

-----------------------------------------------------------------------------
(* What comments of the code say and the code does not do: neither holds, see *)
(* the README's known divergences.                                            *)

\* pvtWake(): "The loop is running right now: it re-checks the flag as soon as
\* the reducer returns".  An actor whose exit() was called does not stay parked
\* with nothing left to wake it.
ExitNoticed ==
    done /\ gen = "parked" /\ ~dead /\ ~paused => armed \/ loose > 0 \/ tick # "idle"

\* wait(): "a promise that resolves when the generator completes".  (Left paused,
\* a process may also sit on the message that would settle it.)
EndSettlesWait == <>[]~paused => (gen = "ended" ~> exit)

=============================================================================
