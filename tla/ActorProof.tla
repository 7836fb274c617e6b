----------------------------- MODULE ActorProof -----------------------------
(***************************************************************************)
(* Safety of one process, for any number of messages and callers.          *)
(***************************************************************************)
EXTENDS Actor, SelectionProof, SequenceTheorems, TLAPS

\* The generator holds no request exactly while it is suspended or finished.
Idle == Suspended \cup {"ended"}
RequestsInv == requests = <<>> <=> gen \in Idle

\* EXIT is said once the cascade is over, unless the process was killed.
ExitInv ==
    /\ exits = 1 => gen \in {"afterEnd", "closing", "ended"}
    /\ gen = "afterEnd" => exits = 1 \/ Killed
    /\ gen \in {"closing", "ended"} => exits = 1 \/ Killed \/ ChildError

\* A dead process was killed, or failed to start and has said so.
DeadInv ==
    /\ dead => ready # "pending"
    /\ ready = "rejected" => dead /\ gen = "ended"
    /\ dead /\ gen # "ended" => ready = "resolved"

\* Promises settle no earlier than the generator completes.
SettledInv ==
    /\ tick = "returned" => gen = "ended"
    /\ exit => Killed \/ gen = "ended"

-----------------------------------------------------------------------------
(* Sequences of requests. *)

HasTick(rs) == \E i \in DOMAIN rs : rs[i].by = "tick"
OneTick(rs) == \A i, j \in DOMAIN rs : rs[i].by = "tick" /\ rs[j].by = "tick" => i = j

\* Appending a request.
LEMMA AppendRequest ==
    ASSUME NEW rs \in Seq(Request), NEW r \in Request
    PROVE  /\ Append(rs, r) \in Seq(Request)
           /\ Append(rs, r) # <<>>
           /\ HasTick(Append(rs, r)) <=> HasTick(rs) \/ r.by = "tick"
           /\ OneTick(rs) /\ (r.by = "tick" => ~HasTick(rs)) => OneTick(Append(rs, r))
<1>1. /\ Append(rs, r) \in Seq(Request)
      /\ Len(Append(rs, r)) = Len(rs) + 1
      /\ DOMAIN rs = 1..Len(rs)
      /\ DOMAIN Append(rs, r) = 1..(Len(rs) + 1)
      /\ \A i \in 1..Len(rs) : Append(rs, r)[i] = rs[i]
      /\ Append(rs, r)[Len(rs) + 1] = r
  OBVIOUS
<1>2. Len(rs) \in Nat
  OBVIOUS
<1>3. HasTick(Append(rs, r)) <=> HasTick(rs) \/ r.by = "tick"
  BY <1>1, <1>2 DEF HasTick
<1>4. OneTick(rs) /\ (r.by = "tick" => ~HasTick(rs)) => OneTick(Append(rs, r))
  BY <1>1, <1>2 DEF HasTick, OneTick
<1>5. Append(rs, r) # <<>>
  BY <1>1, <1>2
<1> QED
  BY <1>1, <1>3, <1>4, <1>5

\* Answering the head request.
LEMMA TailRequest ==
    ASSUME NEW rs \in Seq(Request), rs # <<>>
    PROVE  /\ Tail(rs) \in Seq(Request)
           /\ Head(rs) \in Request
           /\ Tail(rs) = <<>> <=> Len(rs) = 1
           /\ Len(rs) # 1 => rs[2] \in Request
           /\ HasTick(rs) <=> Head(rs).by = "tick" \/ HasTick(Tail(rs))
           /\ OneTick(rs) => OneTick(Tail(rs)) /\ (Head(rs).by = "tick" => ~HasTick(Tail(rs)))
<1>1. /\ Tail(rs) \in Seq(Request)
      /\ Len(rs) \in Nat /\ Len(rs) >= 1
      /\ Len(Tail(rs)) = Len(rs) - 1
      /\ DOMAIN rs = 1..Len(rs)
      /\ DOMAIN Tail(rs) = 1..(Len(rs) - 1)
      /\ Head(rs) = rs[1]
      /\ \A i \in 1..(Len(rs) - 1) : Tail(rs)[i] = rs[i + 1]
  OBVIOUS
<1>2. \A i \in 1..Len(rs) : rs[i] \in Request
  OBVIOUS
<1>3. /\ Head(rs) \in Request
      /\ Len(rs) # 1 => rs[2] \in Request
      /\ Tail(rs) = <<>> <=> Len(rs) = 1
  <2>1. Tail(rs) = <<>> <=> Len(Tail(rs)) = 0
    BY <1>1, EmptySeq
  <2> QED
    BY <1>1, <1>2, <2>1
<1>4. \A i \in 2..Len(rs) : i - 1 \in 1..(Len(rs) - 1) /\ Tail(rs)[i - 1] = rs[i]
  BY <1>1
<1>5. HasTick(rs) <=> Head(rs).by = "tick" \/ HasTick(Tail(rs))
  <2>1. HasTick(Tail(rs)) => HasTick(rs)
    BY <1>1 DEF HasTick
  <2>2. Head(rs).by = "tick" => HasTick(rs)
    BY <1>1 DEF HasTick
  <2>3. ASSUME NEW i \in 1..Len(rs), rs[i].by = "tick"
        PROVE  Head(rs).by = "tick" \/ HasTick(Tail(rs))
    <3>1. CASE i = 1
      BY <1>1, <2>3, <3>1
    <3>2. CASE i # 1
      <4>1. i \in 2..Len(rs)
        BY <1>1, <3>2
      <4> QED
        BY <1>1, <1>4, <2>3, <4>1 DEF HasTick
    <3> QED
      BY <3>1, <3>2
  <2> QED
    BY <1>1, <2>1, <2>2, <2>3 DEF HasTick
<1>6. ASSUME OneTick(rs)
      PROVE  OneTick(Tail(rs)) /\ (Head(rs).by = "tick" => ~HasTick(Tail(rs)))
  <2>1. \A i \in 1..(Len(rs) - 1) : i + 1 \in 1..Len(rs) /\ i + 1 # 1
    BY <1>1
  <2>2. OneTick(Tail(rs))
    BY <1>1, <1>6, <2>1 DEF OneTick
  <2>3. Head(rs).by = "tick" => ~HasTick(Tail(rs))
    BY <1>1, <1>6, <2>1 DEF OneTick, HasTick
  <2> QED
    BY <2>2, <2>3
<1> QED
  BY <1>1, <1>3, <1>5, <1>6

-----------------------------------------------------------------------------
(* The two ways a request moves: it is issued, or the generator yields to it. *)

Late == {"afterEnd", "closing", "ended"}

MachineOK ==
    /\ requests \in Seq(Request) /\ gen \in GenPhases
    /\ tick \in {"idle", "waiting", "yielded", "returned"}
    /\ handled \in Seq(Nat)
    /\ RequestsInv
    /\ OneTick(requests) /\ (tick = "waiting" <=> HasTick(requests))

\* Resuming a suspended generator.
LEMMA ResumeStep ==
    ASSUME NEW at \in Suspended, NEW r \in Request, handled \in Seq(Nat)
    PROVE  /\ Resumed(at, r) \in GenPhases \ (Idle \cup Late)
           /\ Log(at, r) \in Seq(Nat)
<1>1. Resumed(at, r) \in GenPhases \ (Idle \cup Late)
  BY DEF Resumed, GenPhases, Idle, Late, Suspended, Ending
<1>2. r.m.n \in Nat
  BY DEF Request, Msg
<1>3. Append(handled, r.m.n) \in Seq(Nat)
  BY <1>2
<1> QED
  BY <1>1, <1>3 DEF Log

LEMMA IssueStep ==
    ASSUME MachineOK, NEW r \in Request, Issue(r), r.by = "tick" => tick # "waiting"
    PROVE  /\ requests' \in Seq(Request) /\ gen' \in GenPhases /\ handled' \in Seq(Nat)
           /\ RequestsInv' /\ OneTick(requests')
           /\ HasTick(requests') <=> HasTick(requests) \/ (gen # "ended" /\ r.by = "tick")
           /\ gen' \in Late <=> gen \in Late
           /\ gen \in Late => gen' = gen
           /\ gen' = "ended" <=> gen = "ended"
<1> USE DEF MachineOK, RequestsInv
<1>1. CASE gen = "ended"
  BY <1>1 DEF Issue
<1>2. CASE gen \in Suspended
  <2>1. requests' = Append(requests, r)
    BY <1>2 DEF Issue, Suspended, Idle
  <2>2. gen' = Resumed(gen, r) /\ handled' = Log(gen, r)
    BY <1>2 DEF Issue, Suspended
  <2>3. gen' \in GenPhases \ (Idle \cup Late) /\ handled' \in Seq(Nat)
    BY <1>2, <2>2, ResumeStep
  <2>4. gen \notin Late
    BY <1>2 DEF Suspended, Late
  <2>5. gen \in Idle /\ gen # "ended"
    BY <1>2 DEF Idle, Suspended
  <2>6. "ended" \in Late
    BY DEF Late
  <2>7. requests' \in Seq(Request) /\ requests' # <<>> /\ OneTick(requests')
        /\ (HasTick(requests') <=> HasTick(requests) \/ r.by = "tick")
    BY <2>1, AppendRequest
  <2> QED
    BY <2>3, <2>4, <2>5, <2>6, <2>7
<1>3. CASE gen \notin Suspended /\ gen # "ended"
  <2>1. requests' = Append(requests, r) /\ gen' = gen /\ handled' = handled
    BY <1>3 DEF Issue
  <2>2. gen \notin Idle
    BY <1>3 DEF Idle
  <2>3. requests' \in Seq(Request) /\ requests' # <<>> /\ OneTick(requests')
        /\ (HasTick(requests') <=> HasTick(requests) \/ r.by = "tick")
    BY <2>1, AppendRequest
  <2> QED
    BY <1>3, <2>1, <2>2, <2>3
<1> QED
  BY <1>1, <1>2, <1>3

LEMMA YieldStep ==
    ASSUME MachineOK, NEW at \in Suspended, gen \notin Idle \cup Late, Yield(at)
    PROVE  /\ MachineOK'
           /\ gen' \notin Late
           /\ tick' = "returned" => tick = "returned"
           /\ tick' = "idle" => tick = "idle"
<1> USE DEF MachineOK, RequestsInv
<1>1. requests # <<>>
  OBVIOUS
<1>2. /\ requests' \in Seq(Request)
      /\ requests' = <<>> <=> Len(requests) = 1
      /\ Len(requests) # 1 => requests[2] \in Request
      /\ OneTick(requests')
      /\ HasTick(requests) <=> Head(requests).by = "tick" \/ HasTick(requests')
      /\ Head(requests).by = "tick" => ~HasTick(requests')
  BY <1>1, TailRequest DEF Yield
<1>3. /\ tick' \in {"idle", "waiting", "yielded", "returned"}
      /\ tick' = "waiting" <=> HasTick(requests')
      /\ tick' = "returned" => tick = "returned"
      /\ tick' = "idle" => tick = "idle"
  BY <1>2 DEF Yield
<1>4. /\ gen' \in GenPhases \ Late /\ handled' \in Seq(Nat)
      /\ gen' \in Idle <=> Len(requests) = 1
  <2>1. CASE Len(requests) = 1
    BY <2>1 DEF Yield, Suspended, GenPhases, Late, Idle
  <2>2. CASE Len(requests) # 1
    <3>1. gen' = Resumed(at, requests[2]) /\ handled' = Log(at, requests[2])
      BY <2>2 DEF Yield
    <3> QED
      BY <1>2, <2>2, <3>1, ResumeStep
  <2> QED
    BY <2>1, <2>2
<1> QED
  BY <1>2, <1>3, <1>4

\* A tick hands the oldest message over.
LEMMA TakeStep ==
    ASSUME MachineOK, inbox \in Seq(Msg), inbox # <<>>, tick \in {"idle", "yielded"}, TakeNext
    PROVE  /\ MachineOK' /\ inbox' \in Seq(Msg)
           /\ gen' \in Late <=> gen \in Late
           /\ gen \in Late => gen' = gen
           /\ gen' = "ended" <=> gen = "ended"
           /\ tick' # "idle" /\ (tick' = "returned" => gen = "ended")
<1> DEFINE r == [by |-> "tick", m |-> Head(inbox)]
<1>1. Head(inbox) \in Msg /\ Tail(inbox) \in Seq(Msg)
  OBVIOUS
<1>2. r \in Request /\ r.by = "tick"
  BY <1>1 DEF Request
<1>3. Issue(r) /\ inbox' = Tail(inbox)
      /\ tick' = IF gen = "ended" THEN "returned" ELSE "waiting"
  BY DEF TakeNext
<1>4. /\ requests' \in Seq(Request) /\ gen' \in GenPhases /\ handled' \in Seq(Nat)
      /\ RequestsInv' /\ OneTick(requests')
      /\ HasTick(requests') <=> HasTick(requests) \/ gen # "ended"
      /\ gen' \in Late <=> gen \in Late
      /\ gen \in Late => gen' = gen
      /\ gen' = "ended" <=> gen = "ended"
  BY <1>2, <1>3, IssueStep
<1> QED
  BY <1>1, <1>3, <1>4 DEF MachineOK

-----------------------------------------------------------------------------
(* The invariant. *)

IInv ==
    /\ TypeOK /\ MachineOK
    /\ ExitInv /\ DeadInv /\ SettledInv
    /\ NoLostTick /\ ToldStopped

\* Sending, from wherever.
LEMMA PushStep ==
    ASSUME TypeOK, NEW m \in Msg, Push(m)
    PROVE  /\ inbox' \in Seq(Msg) /\ armed' \in BOOLEAN
           /\ armed' = (armed \/ (~paused /\ ~dead))
<1>1. inbox' \in Seq(Msg)
  BY DEF Push, TypeOK
<1>2. armed' = (armed \/ (~paused /\ ~dead))
  BY DEF Push, ScheduleTick
<1> QED
  BY <1>1, <1>2

LEMMA InitInv == Init => IInv
<1> SUFFICES ASSUME Init PROVE IInv
  OBVIOUS
<1>1. TypeOK
  <2>1. inbox \in Seq(Msg) /\ handled \in Seq(Nat)
    BY EmptySeq DEF Init
  <2>2. [by |-> "first", m |-> ADVANCE] \in Request
    BY DEF Request, Msg, ADVANCE
  <2>3. requests \in Seq(Request)
    BY <2>2 DEF Init
  <2>4. caller \in [Callers -> CallStates]
    BY DEF Init, CallStates
  <2>5. gen \in GenPhases /\ slot \in Callers \cup {None} /\ exits \in 0..1
    BY DEF Init, GenPhases
  <2> QED
    BY <2>1, <2>3, <2>4, <2>5 DEF Init, TypeOK
<1>2. MachineOK
  <2>1. DOMAIN requests = {1} /\ requests[1].by = "first" /\ requests # <<>>
    BY DEF Init
  <2> QED
    BY <1>1, <2>1 DEF TypeOK, MachineOK, RequestsInv, Idle, Suspended, OneTick, HasTick, Init
<1> QED
  BY <1>1, <1>2 DEF Init, IInv, ExitInv, DeadInv, SettledInv, NoLostTick, ToldStopped

\* What settling promises does to the calls.
LEMMA AnsweredStep ==
    ASSUME NEW cs \in [Callers -> CallStates], NEW reject \in BOOLEAN, NEW resolve \in BOOLEAN
    PROVE  /\ Answered(cs, reject, resolve) \in [Callers -> CallStates]
           /\ \A c \in Callers : ~reject /\ ~resolve => Answered(cs, reject, resolve)[c] = cs[c]
BY DEF Answered, Pending, CallStates

\* A hard kill: whatever it tells the calls is true of a killed process.
LEMMA ForceStopStep ==
    ASSUME IInv, NEW cs \in [Callers -> CallStates], ForceStop(cs),
           UNCHANGED <<loose, paused, dispatchLive, machine, failing, startPc, done, exits,
                       posted>>
    PROVE  IInv'
<1> USE DEF IInv
<1>1. MachineOK'
  BY DEF machine, MachineOK, RequestsInv
<1>2. caller' \in [Callers -> CallStates]
  BY AnsweredStep DEF ForceStop
<1>3. inbox' \in Seq(Msg) /\ (inbox' = inbox \/ inbox' = <<>>)
  BY EmptySeq DEF ForceStop, TypeOK
<1>4. TypeOK'
  <2>1. dead \in BOOLEAN /\ armed \in BOOLEAN /\ exit \in BOOLEAN
    BY DEF TypeOK
  <2>2. dead' \in BOOLEAN /\ armed' \in BOOLEAN /\ exit' \in BOOLEAN
    BY <2>1 DEF ForceStop
  <2>3. ready' \in {"pending", "resolved", "rejected"} /\ slot' \in Callers \cup {None}
    BY DEF ForceStop, TypeOK
  <2>4. /\ UNCHANGED <<loose, paused, dispatchLive, tick, gen, failing, requests, startPc, done>>
        /\ UNCHANGED <<exits, handled, posted>>
    BY DEF machine
  <2> QED
    BY <1>2, <1>3, <2>2, <2>3, <2>4 DEF TypeOK
<1>5. dead' /\ (Killed' \/ (gen' = "ended" /\ (exits' = 1 \/ ChildError')))
  BY DEF ForceStop, Killed, ChildError, machine, DeadInv, ExitInv, TypeOK
<1>6. ExitInv' /\ DeadInv' /\ SettledInv' /\ ToldStopped'
  BY <1>5 DEF ForceStop, ExitInv, DeadInv, SettledInv, ToldStopped, Killed, ChildError, machine, TypeOK
<1>7. NoLostTick'
  BY <1>5 DEF NoLostTick
<1> QED
  BY <1>1, <1>4, <1>6, <1>7

\* A subscriber that throws, or does not, tells nobody of an end.
LEMMA NotifyStep ==
    ASSUME TypeOK, Notify
    PROVE  /\ exit' = exit /\ slot' \in Callers \cup {None}
           /\ caller' \in [Callers -> CallStates]
           /\ \A c \in Callers : caller'[c] \in {"resolved", "rejected", "stopped"}
                 => caller'[c] = caller[c]
<1>1. CASE UNCHANGED outcome
  BY <1>1 DEF outcome, TypeOK
<1>2. CASE SubscriberThrows
  <2>1. caller' \in [Callers -> CallStates]
    BY <1>2 DEF SubscriberThrows, TypeOK, CallStates
  <2> QED
    BY <1>2, <2>1 DEF SubscriberThrows
<1> QED
  BY <1>1, <1>2 DEF Notify

LEMMA NextInv == IInv /\ [Next]_vars => IInv'
<1> SUFFICES ASSUME IInv, [Next]_vars PROVE IInv'
  OBVIOUS
<1> USE ActorAssumption DEF IInv
<1>1. CASE SetupYields
  <2>1. gen \notin Idle \cup Late /\ "initial" \in Suspended
    BY <1>1 DEF SetupYields, Idle, Late, Suspended
  <2>2. /\ MachineOK' /\ gen' \notin Late
        /\ tick' = "returned" => tick = "returned"
        /\ tick' = "idle" => tick = "idle"
    BY <1>1, <2>1, YieldStep DEF SetupYields
  <2>3. TypeOK'
    BY <1>1, <2>2 DEF SetupYields, TypeOK, MachineOK, schedule, outcome
  <2>4. ExitInv' /\ DeadInv' /\ SettledInv' /\ ToldStopped'
    BY <1>1, <2>1, <2>2 DEF SetupYields, ExitInv, DeadInv, SettledInv, ToldStopped, Killed, ChildError,
        Late, outcome
  <2>5. NoLostTick'
    BY <1>1, <2>1, <2>2 DEF SetupYields, NoLostTick, schedule, Idle
  <2> QED
    BY <2>2, <2>3, <2>4, <2>5
<1>2. CASE SetupEnds
  <2>1. MachineOK'
    BY <1>2 DEF SetupEnds, MachineOK, RequestsInv, Idle, Suspended, GenPhases, Ending
  <2>2. TypeOK'
    BY <1>2, <2>1 DEF SetupEnds, TypeOK, MachineOK, schedule, outcome
  <2> QED
    BY <1>2, <2>1, <2>2 DEF SetupEnds, ExitInv, DeadInv, SettledInv, ToldStopped, Killed, ChildError,
        NoLostTick, schedule, outcome
<1>3. CASE StartAdvances
  <2> DEFINE r == [by |-> "advance", m |-> ADVANCE]
  <2>1. r \in Request /\ r.by # "tick"
    BY DEF Request, Msg, ADVANCE
  <2>2. CASE dead
    <3>1. MachineOK'
      BY <1>3, <2>2 DEF StartAdvances, MachineOK, RequestsInv
    <3>2. TypeOK'
      BY <1>3, <2>2 DEF StartAdvances, TypeOK, outcome
    <3> QED
      BY <1>3, <2>2, <3>1, <3>2 DEF StartAdvances, ExitInv, DeadInv, SettledInv,
          ToldStopped, Killed, ChildError, NoLostTick, outcome
  <2>3. CASE ~dead
    <3>1. Issue(r) /\ Settle(FALSE, gen = "ended")
      BY <1>3, <2>3 DEF StartAdvances
    <3>2. /\ MachineOK'
          /\ gen' \in Late <=> gen \in Late
          /\ gen \in Late => gen' = gen
          /\ gen' = "ended" <=> gen = "ended"
      BY <1>3, <2>1, <3>1, IssueStep DEF StartAdvances, MachineOK
    <3>3. caller' \in [Callers -> CallStates]
      BY <3>1, AnsweredStep DEF Settle, TypeOK
    <3>4. TypeOK'
      BY <1>3, <2>3, <3>1, <3>2, <3>3 DEF StartAdvances, TypeOK, MachineOK, Settle, ScheduleTick
    <3>5. ExitInv' /\ DeadInv' /\ SettledInv'
      BY <1>3, <2>3, <3>1, <3>2 DEF StartAdvances, ExitInv, DeadInv, SettledInv, Killed, ChildError, Settle, Late
    <3>6. ToldStopped'
      BY <1>3, <2>3, <3>1, <3>2, <3>5, AnsweredStep DEF StartAdvances, ToldStopped, Killed, ChildError,
          ExitInv, Settle, TypeOK, Late, DeadInv
    <3>7. NoLostTick'
      BY <1>3, <2>3, <3>1, <3>2 DEF StartAdvances, NoLostTick, ScheduleTick
    <3> QED
      BY <3>2, <3>4, <3>5, <3>6, <3>7
  <2> QED
    BY <2>2, <2>3
<1>4. CASE AfterStartReturns
  <2>1. gen \notin Idle \cup Late /\ "parked" \in Suspended
    BY <1>4 DEF AfterStartReturns, Idle, Late, Suspended
  <2>2. /\ MachineOK' /\ gen' \notin Late
        /\ tick' = "returned" => tick = "returned"
        /\ tick' = "idle" => tick = "idle"
    BY <1>4, <2>1, YieldStep DEF AfterStartReturns, LoopTest, MachineOK, RequestsInv, Idle,
        Suspended, Late, GenPhases, Ending
  <2>3. TypeOK'
    BY <1>4, <2>2 DEF AfterStartReturns, TypeOK, MachineOK, schedule, outcome
  <2>4. ExitInv' /\ DeadInv' /\ SettledInv' /\ ToldStopped'
    BY <1>4, <2>1, <2>2 DEF AfterStartReturns, ExitInv, DeadInv, SettledInv, ToldStopped, Killed, ChildError,
        Late, outcome
  <2>5. NoLostTick'
    BY <1>4, <2>1, <2>2 DEF AfterStartReturns, NoLostTick, schedule, Idle
  <2> QED
    BY <2>2, <2>3, <2>4, <2>5
<1>5. CASE HandlerReturns
  <2>1. gen \notin Idle \cup Late /\ "parked" \in Suspended
    BY <1>5 DEF HandlerReturns, Idle, Late, Suspended
  <2>2. PICK d \in BOOLEAN : done' = d /\ LoopTest(d)
    BY <1>5 DEF HandlerReturns, TypeOK
  <2>3. /\ MachineOK' /\ gen' \notin Late
        /\ tick' = "returned" => tick = "returned"
        /\ tick' = "idle" => tick = "idle"
    BY <2>1, <2>2, YieldStep DEF LoopTest, MachineOK, RequestsInv, Idle,
        Suspended, Late, GenPhases, Ending
  <2>4. TypeOK'
    BY <1>5, <2>2, <2>3 DEF HandlerReturns, TypeOK, MachineOK, schedule, outcome
  <2>5. ExitInv' /\ DeadInv' /\ SettledInv' /\ ToldStopped'
    BY <1>5, <2>1, <2>3 DEF HandlerReturns, ExitInv, DeadInv, SettledInv, ToldStopped, Killed, ChildError,
        Late, outcome
  <2>6. NoLostTick'
    BY <1>5, <2>1, <2>3 DEF HandlerReturns, NoLostTick, schedule, Idle
  <2> QED
    BY <2>3, <2>4, <2>5, <2>6
<1>6. CASE HookThrows
  <2>1. gen \in {"afterStart", "handling"} /\ gen' = "cascade"
    BY <1>6 DEF HookThrows
  <2>2. MachineOK'
    BY <1>6, <2>1 DEF HookThrows, MachineOK, RequestsInv, Idle, Suspended, GenPhases, Ending
  <2>3. TypeOK'
    BY <1>6, <2>2 DEF HookThrows, TypeOK, MachineOK, schedule, outcome
  <2> QED
    BY <1>6, <2>1, <2>2, <2>3 DEF HookThrows, ExitInv, DeadInv, SettledInv, ToldStopped, Killed, ChildError,
        NoLostTick, schedule, outcome
<1>7. CASE BeforeEndFinishes
  <2>1. MachineOK'
    BY <1>7 DEF BeforeEndFinishes, MachineOK, RequestsInv, Idle, Suspended, GenPhases, Ending
  <2>2. TypeOK'
    BY <1>7, <2>1 DEF BeforeEndFinishes, TypeOK, MachineOK, schedule, outcome
  <2> QED
    BY <1>7, <2>1, <2>2 DEF BeforeEndFinishes, ExitInv, DeadInv, SettledInv, ToldStopped, Killed, ChildError,
        NoLostTick, schedule, outcome
<1>8. CASE CascadeFinishes
  <2>1. MachineOK'
    BY <1>8 DEF CascadeFinishes, MachineOK, RequestsInv, Idle, Suspended, GenPhases, Ending
  <2>2. exits # 1
    BY <1>8 DEF CascadeFinishes, ExitInv
  <2>3. TypeOK'
    BY <1>8, <2>1, <2>2 DEF CascadeFinishes, TypeOK, MachineOK, schedule, outcome
  <2>4. ExitInv' /\ DeadInv' /\ SettledInv' /\ ToldStopped'
    BY <1>8, <2>2 DEF CascadeFinishes, ExitInv, DeadInv, SettledInv, ToldStopped, Killed, ChildError,
        outcome, TypeOK
  <2>5. NoLostTick'
    BY <1>8 DEF CascadeFinishes, NoLostTick, schedule
  <2> QED
    BY <2>1, <2>3, <2>4, <2>5
<1>24. CASE CascadeThrows
  <2>1. MachineOK'
    BY <1>24 DEF CascadeThrows, MachineOK, RequestsInv, Idle, Suspended, GenPhases, Ending
  <2>2. TypeOK'
    BY <1>24, <2>1 DEF CascadeThrows, TypeOK, MachineOK, schedule, outcome
  <2>3. ExitInv' /\ DeadInv' /\ SettledInv' /\ ToldStopped'
    BY <1>24 DEF CascadeThrows, ExitInv, DeadInv, SettledInv, ToldStopped, Killed, ChildError,
        ChildError, outcome
  <2>4. NoLostTick'
    BY <1>24 DEF CascadeThrows, NoLostTick, schedule
  <2> QED
    BY <2>1, <2>2, <2>3, <2>4
<1>9. CASE GeneratorEnds
  <2>1. gen \in {"afterEnd", "closing"} /\ gen \in Late
    BY <1>9 DEF GeneratorEnds, Late
  <2>2. PICK threw \in BOOLEAN : Completes(threw)
    BY <1>9 DEF GeneratorEnds, TypeOK
  <2>3. gen' = "ended" /\ requests' = <<>>
    BY <2>2 DEF Completes
  <2>4. exits' = exits /\ dispatchLive' = dispatchLive /\ paused' = paused /\ loose' = loose
    BY <1>9 DEF GeneratorEnds
  <2>5. Answers("tick") <=> HasTick(requests)
    BY DEF Answers, HasTick
  <2>6. tick' \in {"idle", "yielded", "returned"}
    BY <2>2, <2>5 DEF Completes, MachineOK
  <2>7. MachineOK'
    <3>1. OneTick(requests') /\ ~HasTick(requests') /\ requests' \in Seq(Request)
      BY <2>3, EmptySeq DEF OneTick, HasTick
    <3> QED
      BY <1>9, <2>3, <2>6, <3>1 DEF GeneratorEnds, MachineOK, RequestsInv, Idle, GenPhases, Ending
  <2>8. caller' \in [Callers -> CallStates]
    BY <2>2, AnsweredStep DEF Completes, Settle, TypeOK
  <2>9. TypeOK'
    <3>1. inbox' \in Seq(Msg)
      BY <2>2, EmptySeq DEF Completes, TypeOK
    <3> QED
      BY <1>9, <2>2, <2>7, <2>8, <3>1 DEF GeneratorEnds, Completes, TypeOK, MachineOK, Settle
  <2>10. exits = 1 \/ Killed \/ (gen = "closing" /\ ChildError)
    BY <2>1 DEF ExitInv
  <2>11. (Killed => Killed') /\ (gen = "closing" /\ ChildError => ChildError')
    BY <1>9, <2>2, <2>4 DEF Killed, Completes, ChildError, GeneratorEnds
  <2>12. ExitInv' /\ SettledInv' /\ ToldStopped'
    BY <2>3, <2>4, <2>10, <2>11 DEF ExitInv, SettledInv, ToldStopped
  <2>13. DeadInv'
    BY <2>1, <2>2, <2>3 DEF DeadInv, Completes
  <2>14. NoLostTick'
    BY <2>3 DEF NoLostTick
  <2> QED
    BY <2>7, <2>9, <2>12, <2>13, <2>14
<1>10. CASE TickFires
  <2>1. CASE Runnable /\ inbox # <<>>
    <3>1. TakeNext /\ tick = "idle" /\ UNCHANGED outcome
      BY <1>10, <2>1 DEF TickFires, BeginTick, Runnable
    <3>2. /\ MachineOK' /\ inbox' \in Seq(Msg)
          /\ gen' \in Late <=> gen \in Late
          /\ gen \in Late => gen' = gen
          /\ gen' = "ended" <=> gen = "ended"
          /\ tick' # "idle" /\ (tick' = "returned" => gen = "ended")
      BY <2>1, <3>1, TakeStep DEF TypeOK
    <3>3. armed' \in BOOLEAN
      BY <1>10 DEF TickFires
    <3>4. TypeOK'
      BY <1>10, <3>1, <3>2, <3>3 DEF TickFires, TypeOK, MachineOK, outcome
    <3> QED
      BY <1>10, <3>1, <3>2, <3>4 DEF TickFires, ExitInv, DeadInv, SettledInv, ToldStopped, Killed, ChildError,
          NoLostTick, outcome, Late
  <2>2. CASE ~(Runnable /\ inbox # <<>>)
    <3>1. UNCHANGED <<inbox, tick, gen, requests, handled>> /\ Notify
      BY <1>10, <2>2 DEF TickFires, BeginTick, Notify
    <3>2. MachineOK'
      BY <3>1 DEF MachineOK, RequestsInv
    <3>3. armed' \in BOOLEAN
      BY <1>10 DEF TickFires
    <3>4. TypeOK'
      BY <1>10, <3>1, <3>3, NotifyStep DEF TickFires, TypeOK
    <3> QED
      BY <1>10, <2>2, <3>1, <3>2, <3>4, NotifyStep DEF TickFires, ExitInv, DeadInv, SettledInv,
          ToldStopped, Killed, ChildError, NoLostTick, Runnable
  <2> QED
    BY <2>1, <2>2
<1>11. CASE TickContinues
  <2>1. CASE inbox # <<>>
    <3>1. TakeNext /\ tick = "yielded" /\ UNCHANGED outcome
      BY <1>11, <2>1 DEF TickContinues
    <3>2. /\ MachineOK' /\ inbox' \in Seq(Msg)
          /\ gen' \in Late <=> gen \in Late
          /\ gen \in Late => gen' = gen
          /\ gen' = "ended" <=> gen = "ended"
          /\ tick' # "idle" /\ (tick' = "returned" => gen = "ended")
      BY <2>1, <3>1, TakeStep DEF TypeOK
    <3>3. TypeOK'
      BY <1>11, <3>1, <3>2 DEF TickContinues, TypeOK, MachineOK, schedule, outcome
    <3> QED
      BY <1>11, <3>1, <3>2, <3>3 DEF TickContinues, ExitInv, DeadInv, SettledInv, ToldStopped, Killed, ChildError,
          NoLostTick, schedule, outcome, Late
  <2>2. CASE inbox = <<>>
    <3>1. tick' = "idle" /\ tick = "yielded" /\ UNCHANGED <<inbox, gen, requests, handled>>
          /\ Notify
      BY <1>11, <2>2 DEF TickContinues
    <3>2. MachineOK'
      BY <3>1 DEF MachineOK, RequestsInv
    <3>3. TypeOK'
      BY <1>11, <3>1, NotifyStep DEF TickContinues, TypeOK, schedule
    <3> QED
      BY <1>11, <2>2, <3>1, <3>2, <3>3, NotifyStep DEF TickContinues, ExitInv, DeadInv, SettledInv,
          ToldStopped, Killed, ChildError, NoLostTick, schedule
  <2> QED
    BY <2>1, <2>2
<1>12. CASE TickEnds
  <2>1. gen = "ended" /\ gen' = "ended" /\ tick' = "idle"
    BY <1>12 DEF TickEnds, SettledInv
  <2>2. MachineOK'
    BY <1>12, <2>1 DEF TickEnds, MachineOK, RequestsInv
  <2>3. caller' \in [Callers -> CallStates] /\ exit' \in BOOLEAN /\ slot' \in Callers \cup {None}
    <3>1. CASE Settle(FALSE, TRUE)
      BY <3>1, AnsweredStep DEF Settle, TypeOK
    <3>2. CASE SubscriberThrows
      BY <3>2, NotifyStep DEF Notify, TypeOK
    <3> QED
      BY <1>12, <3>1, <3>2 DEF TickEnds
  <2>4. TypeOK'
    BY <1>12, <2>1, <2>2, <2>3 DEF TickEnds, TypeOK, MachineOK, schedule
  <2>5. ExitInv' /\ DeadInv' /\ SettledInv' /\ ToldStopped'
    BY <1>12, <2>1 DEF TickEnds, ExitInv, DeadInv, SettledInv, ToldStopped, Killed, ChildError
  <2> QED
    BY <2>1, <2>2, <2>4, <2>5 DEF NoLostTick
<1>13. CASE Send
  <2>1. User(posted + 1) \in Msg
    BY DEF User, Msg, TypeOK
  <2>2. inbox' \in Seq(Msg) /\ armed' = (armed \/ (~paused /\ ~dead))
    BY <1>13, <2>1, PushStep DEF Send
  <2>3. MachineOK'
    BY <1>13 DEF Send, machine, MachineOK, RequestsInv
  <2>4. TypeOK'
    BY <1>13, <2>2 DEF Send, TypeOK, machine, outcome
  <2> QED
    BY <1>13, <2>2, <2>3, <2>4 DEF Send, ExitInv, DeadInv, SettledInv, ToldStopped, Killed, ChildError,
        NoLostTick, machine, outcome
<1>14. CASE Flush
  <2>1. CASE Runnable /\ inbox # <<>>
    <3> DEFINE r == [by |-> "tick", m |-> Head(inbox)]
    <3>1. Issue(r) /\ tick = "idle" /\ UNCHANGED outcome
      BY <1>14, <2>1 DEF Flush, BeginTick, TakeNext, Runnable
    <3>2. tick' = IF gen = "ended" THEN "returned" ELSE "waiting"
      BY <1>14, <2>1 DEF Flush, BeginTick, TakeNext
    <3>3. r \in Request /\ r.by = "tick" /\ Tail(inbox) \in Seq(Msg)
      <4>1. Head(inbox) \in Msg /\ Tail(inbox) \in Seq(Msg)
        BY <2>1 DEF TypeOK
      <4> QED
        BY <4>1 DEF Request
    <3>4. /\ requests' \in Seq(Request) /\ gen' \in GenPhases /\ handled' \in Seq(Nat)
          /\ RequestsInv' /\ OneTick(requests')
          /\ HasTick(requests') <=> HasTick(requests) \/ gen # "ended"
          /\ gen' \in Late <=> gen \in Late
          /\ gen \in Late => gen' = gen
          /\ gen' = "ended" <=> gen = "ended"
      BY <3>1, <3>3, IssueStep
    <3>5. MachineOK'
      BY <3>1, <3>2, <3>4 DEF MachineOK
    <3>6. User(posted + 1) \in Msg
      BY DEF User, Msg, TypeOK
    <3>7. inbox' \in Seq(Msg)
      <4>1. Append(Tail(inbox), User(posted + 1)) \in Seq(Msg)
        BY <3>3, <3>6
      <4> QED
        BY <1>14, <2>1, <3>3, <4>1 DEF Flush, BeginTick, TakeNext
    <3>8. armed' \in BOOLEAN
      BY <1>14 DEF Flush
    <3>9. posted' \in Nat /\ loose' \in Nat
      BY <1>14 DEF Flush, TypeOK
    <3>10. TypeOK'
      BY <1>14, <3>1, <3>5, <3>7, <3>8, <3>9 DEF Flush, TypeOK, MachineOK, outcome
    <3> QED
      BY <1>14, <3>1, <3>2, <3>4, <3>5, <3>10 DEF Flush, ExitInv, DeadInv, SettledInv, ToldStopped,
          Killed, ChildError, NoLostTick, outcome, Late
  <2>2. CASE ~(Runnable /\ inbox # <<>>)
    <3>1. UNCHANGED <<inbox, tick, gen, requests, handled, loose, posted>> /\ Notify
      BY <1>14, <2>2 DEF Flush, BeginTick, Notify
    <3>2. MachineOK'
      BY <3>1 DEF MachineOK, RequestsInv
    <3>3. armed' \in BOOLEAN
      BY <1>14 DEF Flush
    <3>4. TypeOK'
      BY <1>14, <3>1, <3>3, NotifyStep DEF Flush, TypeOK
    <3> QED
      BY <1>14, <2>2, <3>1, <3>2, <3>4, NotifyStep DEF Flush, ExitInv, DeadInv, SettledInv,
          ToldStopped, Killed, ChildError, NoLostTick, Runnable
  <2> QED
    BY <2>1, <2>2
<1>15. CASE Exit
  <2>1. ADVANCE \in Msg
    BY DEF ADVANCE, Msg
  <2>2. inbox' \in Seq(Msg) /\ armed' \in BOOLEAN
        /\ ((inbox' = inbox /\ armed' = armed) \/ armed' = (armed \/ (~paused /\ ~dead)))
    <3>1. CASE UNCHANGED <<inbox, armed>>
      BY <3>1 DEF TypeOK
    <3>2. CASE Push(ADVANCE)
      BY <2>1, <3>2, PushStep
    <3> QED
      BY <1>15, <3>1, <3>2 DEF Exit
  <2>3. MachineOK'
    BY <1>15 DEF Exit, machine, MachineOK, RequestsInv
  <2>4. TypeOK'
    BY <1>15, <2>2 DEF Exit, TypeOK, machine, outcome
  <2> QED
    BY <1>15, <2>2, <2>3, <2>4 DEF Exit, ExitInv, DeadInv, SettledInv, ToldStopped, Killed, ChildError,
        NoLostTick, machine, outcome
<1>16. CASE Pause
  <2>1. MachineOK'
    BY <1>16 DEF Pause, machine, MachineOK, RequestsInv
  <2>2. armed' \in BOOLEAN /\ paused' \in BOOLEAN
    BY <1>16 DEF Pause
  <2>3. TypeOK'
    BY <1>16, <2>2 DEF Pause, TypeOK, machine, outcome
  <2> QED
    BY <1>16, <2>1, <2>3 DEF Pause, ExitInv, DeadInv, SettledInv, ToldStopped, Killed, ChildError,
        NoLostTick, machine, outcome
<1>17. CASE Resume
  <2>1. MachineOK'
    BY <1>17 DEF Resume, machine, MachineOK, RequestsInv
  <2>2. armed' \in BOOLEAN /\ paused' \in BOOLEAN
    BY <1>17 DEF Resume
  <2>3. TypeOK'
    BY <1>17, <2>2 DEF Resume, TypeOK, machine, outcome
  <2> QED
    BY <1>17, <2>1, <2>3 DEF Resume, ExitInv, DeadInv, SettledInv, ToldStopped, Killed, ChildError,
        NoLostTick, machine, outcome
<1>18. CASE Kill
  <2>1. UNCHANGED <<loose, paused, dispatchLive, machine, failing, startPc, done, exits,
                    posted>> /\ ForceStop(caller) /\ caller \in [Callers -> CallStates]
    BY <1>18 DEF Kill, TypeOK
  <2> QED
    BY <2>1, ForceStopStep
<1>19. ASSUME NEW c \in Callers, Wait(c) PROVE IInv'
  <2>1. MachineOK'
    BY <1>19 DEF Wait, machine, MachineOK, RequestsInv
  <2>2. TypeOK'
    BY <1>19 DEF Wait, TypeOK, machine, schedule, CallStates
  <2>3. exit => Killed \/ (gen = "ended" /\ (exits = 1 \/ ChildError))
    BY DEF SettledInv, ExitInv
  <2>4. ToldStopped'
    BY <1>19, <2>3 DEF Wait, ToldStopped, Killed, ChildError, machine, TypeOK
  <2> QED
    BY <1>19, <2>1, <2>2, <2>4 DEF Wait, ExitInv, DeadInv, SettledInv, Killed, ChildError, NoLostTick,
        machine, schedule
<1>20. ASSUME NEW c \in Callers, Stop(c) PROVE IInv'
  <2>1. STOP \in Msg
    BY DEF STOP, Msg
  <2>2. inbox' \in Seq(Msg) /\ armed' \in BOOLEAN
        /\ ((inbox' = inbox /\ armed' = armed) \/ armed' = (armed \/ (~paused /\ ~dead)))
    <3>1. CASE UNCHANGED <<inbox, armed>>
      BY <3>1 DEF TypeOK
    <3>2. CASE Push(STOP)
      BY <2>1, <3>2, PushStep
    <3> QED
      BY <1>20, <3>1, <3>2 DEF Stop
  <2>3. MachineOK'
    BY <1>20 DEF Stop, machine, MachineOK, RequestsInv
  <2>4. caller' \in [Callers -> CallStates] /\ slot' \in Callers \cup {None}
    BY <1>20 DEF Stop, TypeOK, CallStates
  <2>5. TypeOK'
    BY <1>20, <2>2, <2>4 DEF Stop, TypeOK, machine
  <2>6. exit \/ dead => Killed \/ (gen = "ended" /\ (exits = 1 \/ ChildError))
    BY DEF SettledInv, ExitInv, DeadInv, Killed, ChildError, TypeOK
  <2>7. \A d \in Callers : caller'[d] \in {"resolved", "rejected", "stopped"}
          => caller[d] \in {"resolved", "rejected", "stopped"} \/ exit \/ dead
    BY <1>20 DEF Stop, TypeOK
  <2>8. ToldStopped'
    BY <1>20, <2>6, <2>7 DEF Stop, ToldStopped, Killed, ChildError, machine
  <2> QED
    BY <1>20, <2>2, <2>3, <2>5, <2>8 DEF Stop, ExitInv, DeadInv, SettledInv, Killed, ChildError, NoLostTick,
        machine
<1>21. ASSUME NEW c \in Callers, StopTimesOut(c) PROVE IInv'
  <2>1. /\ MachineOK'
        /\ gen' \in Late <=> gen \in Late
        /\ gen \in Late => gen' = gen
        /\ gen' = "ended" <=> gen = "ended"
    <3> DEFINE r == [by |-> "return", m |-> ADVANCE]
    <3>1. CASE UNCHANGED <<gen, requests, handled>>
      BY <1>21, <3>1 DEF StopTimesOut, MachineOK, RequestsInv
    <3>2. CASE Issue(r)
      <4>1. r \in Request /\ r.by # "tick"
        BY DEF Request, Msg, ADVANCE
      <4> QED
        BY <1>21, <3>2, <4>1, IssueStep DEF StopTimesOut, MachineOK
    <3> QED
      BY <1>21, <3>1, <3>2 DEF StopTimesOut
  <2>2. caller' \in [Callers -> CallStates]
        /\ \A d \in Callers : caller'[d] \in {"resolved", "rejected", "stopped"}
              => caller[d] \in {"resolved", "rejected", "stopped"}
    BY <1>21 DEF StopTimesOut, TypeOK, CallStates
  <2>3. TypeOK'
    BY <1>21, <2>1, <2>2 DEF StopTimesOut, TypeOK, MachineOK, schedule
  <2>4. ToldStopped'
    BY <1>21, <2>1, <2>2 DEF StopTimesOut, ToldStopped, Killed, ChildError
  <2> QED
    BY <1>21, <2>1, <2>3, <2>4 DEF StopTimesOut, ExitInv, DeadInv, SettledInv, Killed, ChildError,
        NoLostTick, schedule, Late
<1>22. ASSUME NEW c \in Callers, StopEscalates(c) PROVE IInv'
  <2> DEFINE cs == [caller EXCEPT ![c] = "stopped"]
  <2>1. cs \in [Callers -> CallStates]
    BY DEF TypeOK, CallStates
  <2> QED
    BY <1>22, <2>1, ForceStopStep DEF StopEscalates
<1>25. ASSUME NEW c \in Callers, StopThrows(c) PROVE IInv'
  <2>1. MachineOK'
    BY <1>25 DEF StopThrows, machine, MachineOK, RequestsInv
  <2>2. caller' \in [Callers -> CallStates]
        /\ \A d \in Callers : caller'[d] \in {"resolved", "rejected", "stopped"}
              => caller[d] \in {"resolved", "rejected", "stopped"}
    BY <1>25 DEF StopThrows, TypeOK, CallStates
  <2>3. TypeOK'
    BY <1>25, <2>2 DEF StopThrows, TypeOK, machine, schedule
  <2>4. ToldStopped'
    BY <1>25, <2>2 DEF StopThrows, machine, ToldStopped, Killed, ChildError
  <2> QED
    BY <1>25, <2>1, <2>3, <2>4 DEF StopThrows, ExitInv, DeadInv, SettledInv, Killed, ChildError,
        NoLostTick, machine, schedule
<1>23. CASE UNCHANGED vars
  <2>1. MachineOK'
    BY <1>23 DEF vars, MachineOK, RequestsInv
  <2>2. TypeOK'
    BY <1>23 DEF vars, TypeOK, schedule, machine, outcome
  <2> QED
    BY <1>23, <2>1, <2>2 DEF vars, ExitInv, DeadInv, SettledInv, ToldStopped, Killed, ChildError, NoLostTick
<1> QED
  BY <1>1, <1>2, <1>3, <1>4, <1>5, <1>6, <1>7, <1>8, <1>9, <1>10, <1>11, <1>12, <1>13,
     <1>14, <1>15, <1>16, <1>17, <1>18, <1>19, <1>20, <1>21, <1>22, <1>23,
     <1>24, <1>25
     DEF Next, GeneratorStep, TickStep

-----------------------------------------------------------------------------
(* The names of the messages of users in a list. *)

\* How UserNames goes through a list.
Counting(f, ms) ==
    f = [i \in 0..Len(ms) |->
            IF i = 0 THEN <<>>
            ELSE IF ms[i].k = "user" THEN Append(f[i - 1], ms[i].n) ELSE f[i - 1]]

LEMMA NamesUnfold ==
    ASSUME NEW ms \in Seq(Msg)
    PROVE  \E f \in [0..Len(ms) -> Seq(Nat)] : Counting(f, ms) /\ UserNames(ms) = f[Len(ms)]
<1> DEFINE n == Len(ms)
           step == [i \in 1..n |-> [ns \in Seq(Nat) |->
                      IF ms[i].k = "user" THEN Append(ns, ms[i].n) ELSE ns]]
           F == CHOOSE f : Counting(f, ms)
<1>1. n \in Nat /\ \A i \in 1..n : ms[i] \in Msg
  OBVIOUS
<1>2. step \in [1..n -> [Seq(Nat) -> Seq(Nat)]]
  <2>1. ASSUME NEW i \in 1..n, NEW ns \in Seq(Nat)
        PROVE  (IF ms[i].k = "user" THEN Append(ns, ms[i].n) ELSE ns) \in Seq(Nat)
    <3>1. ms[i].n \in Nat
      BY <1>1 DEF Msg
    <3> QED BY <3>1
  <2> HIDE DEF n
  <2> QED BY <2>1
<1>3. <<>> \in Seq(Nat)
  BY EmptySeq
<1> HIDE DEF step
<1>4. PICK f \in [0..n -> Seq(Nat)] : Folds(f, n, <<>>, step)
  <2> DEFINE S == Seq(Nat)
             x == <<>>
  <2>1. n \in Nat /\ x \in S /\ step \in [1..n -> [S -> S]]
    BY <1>1, <1>2, <1>3
  <2> HIDE DEF n, S, x
  <2>2. \E f \in [0..n -> S] : Folds(f, n, x, step)
    BY ONLY <2>1, FoldExists, Zenon
  <2> QED BY <2>2 DEF S, x
<1>5. Counting(f, ms)
  <2>1. ASSUME NEW i \in 0..n, i # 0
        PROVE  step[i][f[i - 1]] = IF ms[i].k = "user" THEN Append(f[i - 1], ms[i].n) ELSE f[i - 1]
    <3>1. n \in Nat
      BY <1>1
    <3> HIDE DEF n
    <3>2. i \in 1..n /\ i - 1 \in 0..n
      BY <2>1, <3>1
    <3>3. f[i - 1] \in Seq(Nat)
      BY <1>4, <3>2
    <3> QED BY <3>2, <3>3 DEF step
  <2> QED BY <1>4, <2>1 DEF Counting, Folds
<1>6. Counting(F, ms)
  BY <1>5
<1>7. UserNames(ms) = F[n]
  BY DEF UserNames, Counting
<1> QED OBVIOUS

\* Names of the empty list, and of a list with one message more at either end.
LEMMA NamesType ==
    /\ \A ms \in Seq(Msg) : UserNames(ms) \in Seq(Nat)
    /\ UserNames(<<>>) = <<>>
<1>1. ASSUME NEW ms \in Seq(Msg) PROVE UserNames(ms) \in Seq(Nat)
  <2>1. PICK f \in [0..Len(ms) -> Seq(Nat)] : UserNames(ms) = f[Len(ms)]
    BY NamesUnfold
  <2>2. Len(ms) \in 0..Len(ms)
    OBVIOUS
  <2> QED BY <2>1, <2>2
<1>2. UserNames(<<>>) = <<>>
  <2>1. <<>> \in Seq(Msg) /\ Len(<<>>) = 0
    BY EmptySeq
  <2>2. PICK f : Counting(f, <<>>) /\ UserNames(<<>>) = f[0]
    BY <2>1, NamesUnfold
  <2>3. f[0] = <<>>
    BY <2>1, <2>2 DEF Counting
  <2> QED BY <2>2, <2>3
<1> QED BY <1>1, <1>2

\* What Counting says entry by entry.
LEMMA CountingAt ==
    ASSUME NEW ms \in Seq(Msg), NEW f, Counting(f, ms)
    PROVE  /\ f[0] = <<>>
           /\ \A i \in Nat : i < Len(ms) =>
                 f[i + 1] = IF ms[i + 1].k = "user" THEN Append(f[i], ms[i + 1].n) ELSE f[i]
<1> DEFINE n == Len(ms)
<1>1. n \in Nat
  OBVIOUS
<1> HIDE DEF n
<1>2. f = [i \in 0..n |-> IF i = 0 THEN <<>>
                         ELSE IF ms[i].k = "user" THEN Append(f[i - 1], ms[i].n) ELSE f[i - 1]]
  BY DEF Counting, n
<1>3. f[0] = <<>>
  BY <1>1, <1>2
<1>4. ASSUME NEW i \in Nat, i < n
      PROVE  f[i + 1] = IF ms[i + 1].k = "user" THEN Append(f[i], ms[i + 1].n) ELSE f[i]
  <2>1. i + 1 \in 0..n /\ i + 1 # 0 /\ (i + 1) - 1 = i
    BY <1>1, <1>4
  <2> DEFINE j == i + 1
  <2>2. j \in 0..n /\ j # 0 /\ j - 1 = i
    BY <2>1
  <2> HIDE DEF j
  <2>3. f[j] = IF ms[j].k = "user" THEN Append(f[i], ms[j].n) ELSE f[i]
    BY <1>2, <2>2
  <2> QED BY <2>3 DEF j
<1> QED BY <1>3, <1>4 DEF n

LEMMA NamesAppend ==
    ASSUME NEW ms \in Seq(Msg), NEW m \in Msg
    PROVE  UserNames(Append(ms, m)) =
              IF m.k = "user" THEN Append(UserNames(ms), m.n) ELSE UserNames(ms)
<1> DEFINE n == Len(ms)
           more == Append(ms, m)
<1>1. /\ n \in Nat /\ more \in Seq(Msg) /\ Len(more) = n + 1
      /\ \A i \in Nat : i < n => more[i + 1] = ms[i + 1]
      /\ more[n + 1] = m
  OBVIOUS
<1>2. PICK f : Counting(f, ms) /\ UserNames(ms) = f[n]
  BY NamesUnfold
<1> HIDE DEF more
<1>3. PICK g : Counting(g, more) /\ UserNames(more) = g[n + 1]
  BY <1>1, NamesUnfold
<1>4. /\ f[0] = <<>>
      /\ \A i \in Nat : i < n =>
            f[i + 1] = IF ms[i + 1].k = "user" THEN Append(f[i], ms[i + 1].n) ELSE f[i]
  BY <1>2, CountingAt
<1> HIDE DEF n
<1>5. /\ g[0] = <<>>
      /\ \A i \in Nat : i < n + 1 =>
            g[i + 1] = IF more[i + 1].k = "user" THEN Append(g[i], more[i + 1].n) ELSE g[i]
  BY <1>1, <1>3, CountingAt
<1> DEFINE T == {i \in Nat : i \leq n => g[i] = f[i]}
<1>6. 0 \in T
  BY <1>4, <1>5
<1>7. ASSUME NEW i \in Nat, i \in T PROVE i + 1 \in T
  <2> SUFFICES ASSUME i + 1 \leq n PROVE g[i + 1] = f[i + 1]
    OBVIOUS
  <2>1. i < n /\ i < n + 1 /\ i \leq n
    BY <1>1
  <2>2. g[i] = f[i] /\ more[i + 1] = ms[i + 1]
    BY <1>1, <1>7, <2>1
  <2> QED BY <1>4, <1>5, <2>1, <2>2
<1> HIDE DEF T
<1>8. n \in T
  BY <1>1, <1>6, <1>7, Induction
<1>9. g[n] = f[n]
  BY <1>8 DEF T
<1>10. n < n + 1
  BY <1>1
<1>11. g[n + 1] = IF m.k = "user" THEN Append(f[n], m.n) ELSE f[n]
  BY <1>1, <1>5, <1>9, <1>10
<1> QED BY <1>2, <1>3, <1>11 DEF more

LEMMA AppendAfter ==
    ASSUME NEW s \in Seq(Nat), NEW t \in Seq(Nat), NEW x \in Nat
    PROVE  Append(s \o t, x) = s \o Append(t, x)
<1>1. /\ <<x>> \in Seq(Nat) /\ s \o t \in Seq(Nat)
      /\ Append(s \o t, x) = (s \o t) \o <<x>> /\ Append(t, x) = t \o <<x>>
  BY AppendIsConcat
<1>2. (s \o t) \o <<x>> = s \o (t \o <<x>>)
  BY <1>1, ConcatAssociative
<1> QED BY <1>1, <1>2

LEMMA NamesCons ==
    ASSUME NEW ms \in Seq(Msg), NEW m \in Msg
    PROVE  UserNames(<<m>> \o ms) =
              IF m.k = "user" THEN <<m.n>> \o UserNames(ms) ELSE UserNames(ms)
<1> DEFINE n == Len(ms)
           more == <<m>> \o ms
           P == IF m.k = "user" THEN <<m.n>> ELSE <<>>
<1>0. P \in Seq(Nat)
  BY DEF Msg
<1>1. /\ n \in Nat /\ more \in Seq(Msg) /\ Len(more) = n + 1
      /\ \A i \in Nat : i < n => more[(i + 1) + 1] = ms[i + 1]
      /\ more[1] = m
      /\ \A i \in Nat : i < n => ms[i + 1] \in Msg
  OBVIOUS
<1>2. PICK f \in [0..n -> Seq(Nat)] : Counting(f, ms) /\ UserNames(ms) = f[n]
  BY NamesUnfold
<1> HIDE DEF more
<1>3. PICK g : Counting(g, more) /\ UserNames(more) = g[n + 1]
  BY <1>1, NamesUnfold
<1>4. /\ f[0] = <<>>
      /\ \A i \in Nat : i < n =>
            f[i + 1] = IF ms[i + 1].k = "user" THEN Append(f[i], ms[i + 1].n) ELSE f[i]
  BY <1>2, CountingAt
<1> HIDE DEF n
<1>5. /\ g[0] = <<>>
      /\ \A i \in Nat : i < n + 1 =>
            g[i + 1] = IF more[i + 1].k = "user" THEN Append(g[i], more[i + 1].n) ELSE g[i]
  BY <1>1, <1>3, CountingAt
<1> HIDE DEF P
<1> DEFINE T == {i \in Nat : i \leq n => g[i + 1] = P \o f[i]}
<1>6. 0 \in T
  <2>1. 0 < n + 1 /\ 0 + 1 = 1
    BY <1>1
  <2>2. g[1] = IF m.k = "user" THEN Append(<<>>, m.n) ELSE <<>>
    BY <1>1, <1>5, <2>1
  <2>3. Append(<<>>, m.n) = <<m.n>>
    OBVIOUS
  <2>4. P \o <<>> = P
    BY <1>0
  <2>5. g[1] = P
    BY <2>2, <2>3 DEF P
  <2> QED BY <1>4, <2>1, <2>4, <2>5
<1>7. ASSUME NEW i \in Nat, i \in T PROVE i + 1 \in T
  <2> SUFFICES ASSUME i + 1 \leq n PROVE g[(i + 1) + 1] = P \o f[i + 1]
    OBVIOUS
  <2>1. i < n /\ i + 1 < n + 1 /\ i \leq n /\ i + 1 \in Nat /\ i \in 0..n
    BY <1>1
  <2>2. g[i + 1] = P \o f[i] /\ more[(i + 1) + 1] = ms[i + 1] /\ ms[i + 1] \in Msg
    BY <1>1, <1>7, <2>1
  <2>3. g[(i + 1) + 1] = IF ms[i + 1].k = "user" THEN Append(P \o f[i], ms[i + 1].n) ELSE P \o f[i]
    BY <1>5, <2>1, <2>2
  <2>4. f[i + 1] = IF ms[i + 1].k = "user" THEN Append(f[i], ms[i + 1].n) ELSE f[i]
    BY <1>4, <2>1
  <2>5. f[i] \in Seq(Nat) /\ ms[i + 1].n \in Nat
    BY <1>2, <2>1, <2>2 DEF Msg
  <2>6. Append(P \o f[i], ms[i + 1].n) = P \o Append(f[i], ms[i + 1].n)
    <3> DEFINE u == f[i]
               x == ms[i + 1].n
    <3>1. P \in Seq(Nat) /\ u \in Seq(Nat) /\ x \in Nat
      BY <1>0, <2>5
    <3> HIDE DEF u, x
    <3>2. Append(P \o u, x) = P \o Append(u, x)
      BY <3>1, AppendAfter
    <3> QED BY <3>2 DEF u, x
  <2> QED BY <2>3, <2>4, <2>6
<1> HIDE DEF T
<1>8. n \in T
  BY <1>1, <1>6, <1>7, Induction
<1>9. g[n + 1] = P \o f[n]
  BY <1>1, <1>8 DEF T
<1>10. <<>> \o f[n] = f[n]
  <2>1. f[n] \in Seq(Nat)
    BY <1>1, <1>2
  <2> QED BY <2>1
<1> QED BY <1>2, <1>3, <1>9, <1>10 DEF more, P

-----------------------------------------------------------------------------
(* The message in the generator's queue that it does not run for yet. *)

LEMMA UnservedIs ==
    ASSUME NEW rs \in Seq(Request), OneTick(rs)
    PROVE  /\ \A i \in 2..Len(rs) : rs[i].by = "tick" => Unserved(rs) = <<rs[i].m>>
           /\ (\A i \in 2..Len(rs) : rs[i].by # "tick") => Unserved(rs) = <<>>
<1> DEFINE ts == {i \in 2..Len(rs) : rs[i].by = "tick"}
<1>1. Unserved(rs) = IF ts = {} THEN <<>> ELSE <<rs[CHOOSE i \in ts : TRUE].m>>
  BY DEF Unserved
<1>2. \A i, j \in ts : i = j
  BY DEF OneTick
<1>3. ASSUME NEW i \in 2..Len(rs), rs[i].by = "tick" PROVE Unserved(rs) = <<rs[i].m>>
  <2>1. i \in ts
    BY <1>3
  <2> HIDE DEF ts
  <2>2. (CHOOSE j \in ts : TRUE) = i
    BY <1>2, <2>1
  <2> QED BY <1>1, <2>1, <2>2
<1>4. ASSUME \A i \in 2..Len(rs) : rs[i].by # "tick" PROVE Unserved(rs) = <<>>
  <2>1. ts = {}
    BY <1>4
  <2> QED BY <1>1, <2>1
<1> QED BY <1>3, <1>4

LEMMA UnservedType ==
    ASSUME NEW rs \in Seq(Request), OneTick(rs)
    PROVE  /\ Unserved(rs) = <<>> \/ \E m \in Msg : Unserved(rs) = <<m>>
           /\ Unserved(rs) \in Seq(Msg)
           /\ ~HasTick(rs) \/ rs = <<>> => Unserved(rs) = <<>>
<1>1. \A i \in 2..Len(rs) : i \in DOMAIN rs /\ rs[i].m \in Msg /\ rs # <<>>
  <2>1. \A i \in 2..Len(rs) : i \in DOMAIN rs /\ rs[i] \in Request /\ rs # <<>>
    OBVIOUS
  <2>2. \A q \in Request : q.m \in Msg
    BY DEF Request
  <2> QED BY <2>1, <2>2
<1>2. Unserved(rs) = <<>> \/ \E m \in Msg : Unserved(rs) = <<m>>
  BY <1>1, UnservedIs
<1>3. ~HasTick(rs) \/ rs = <<>> => Unserved(rs) = <<>>
  BY <1>1, UnservedIs DEF HasTick
<1>4. Unserved(rs) \in Seq(Msg)
  <2>1. CASE Unserved(rs) = <<>>
    BY <2>1, EmptySeq
  <2>2. ASSUME NEW m \in Msg, Unserved(rs) = <<m>> PROVE Unserved(rs) \in Seq(Msg)
    BY <2>2
  <2> QED BY <1>2, <2>1, <2>2
<1> QED BY <1>2, <1>3, <1>4

\* A request that brings no message, or one for a running generator, joins the queue.
LEMMA UnservedAppend ==
    ASSUME NEW rs \in Seq(Request), NEW r \in Request, OneTick(rs)
    PROVE  /\ r.by # "tick" => Unserved(Append(rs, r)) = Unserved(rs)
           /\ r.by = "tick" /\ ~HasTick(rs) /\ rs # <<>> => Unserved(Append(rs, r)) = <<r.m>>
           /\ rs = <<>> => Unserved(Append(rs, r)) = <<>>
<1> DEFINE n == Len(rs)
           more == Append(rs, r)
<1>1. /\ n \in Nat /\ DOMAIN rs = 1..n
      /\ more \in Seq(Request) /\ Len(more) = n + 1
      /\ \A i \in 1..n : more[i] = rs[i]
      /\ more[n + 1] = r
      /\ rs = <<>> <=> n = 0
  BY EmptySeq
<1>2. r.by = "tick" => HasTick(rs) \/ OneTick(more)
  BY AppendRequest
<1>3. r.by # "tick" => OneTick(more)
  BY AppendRequest
<1> HIDE DEF more
<1>4. ASSUME r.by # "tick" PROVE Unserved(more) = Unserved(rs)
  <2>1. CASE \E i \in 2..n : rs[i].by = "tick"
    <3>1. PICK i \in 2..n : rs[i].by = "tick"
      BY <2>1
    <3>2. i \in 2..Len(more) /\ more[i] = rs[i]
      BY <1>1
    <3>3. Unserved(rs) = <<rs[i].m>>
      BY <3>1, UnservedIs
    <3>4. Unserved(more) = <<more[i].m>>
      BY <1>1, <1>3, <1>4, <3>1, <3>2, UnservedIs
    <3> QED BY <3>2, <3>3, <3>4
  <2>2. CASE \A i \in 2..n : rs[i].by # "tick"
    <3>1. \A i \in 2..Len(more) : more[i].by # "tick"
      <4>1. ASSUME NEW i \in 2..(n + 1) PROVE more[i].by # "tick"
        <5>1. CASE i = n + 1
          BY <1>1, <1>4, <5>1
        <5>2. CASE i # n + 1
          <6>1. i \in 2..n /\ i \in 1..n
            BY <1>1, <5>2
          <6> QED BY <1>1, <2>2, <6>1
        <5> QED BY <5>1, <5>2
      <4> QED BY <1>1, <4>1
    <3>2. Unserved(more) = <<>>
      BY <1>1, <1>3, <1>4, <3>1, UnservedIs
    <3>3. Unserved(rs) = <<>>
      BY <2>2, UnservedIs
    <3> QED BY <3>2, <3>3
  <2> QED BY <2>1, <2>2
<1>5. ASSUME r.by = "tick", ~HasTick(rs), rs # <<>> PROVE Unserved(more) = <<r.m>>
  <2>1. n + 1 \in 2..Len(more)
    BY <1>1, <1>5
  <2> QED BY <1>1, <1>2, <1>5, <2>1, UnservedIs
<1>6. ASSUME rs = <<>> PROVE Unserved(more) = <<>>
  <2>1. 2..Len(more) = {} /\ ~HasTick(rs)
    <3>1. Len(more) = 1
      BY <1>1, <1>6
    <3> QED BY <1>1, <1>6, <3>1 DEF HasTick
  <2> QED BY <1>1, <1>2, <1>3, <2>1, UnservedIs
<1> QED BY <1>4, <1>5, <1>6 DEF more

\* The head request is answered and the next one takes its place.
LEMMA UnservedTail ==
    ASSUME NEW rs \in Seq(Request), OneTick(rs), rs # <<>>
    PROVE  /\ Len(rs) = 1 => Unserved(rs) = <<>> /\ Unserved(Tail(rs)) = <<>>
           /\ Len(rs) # 1 /\ rs[2].by # "tick" => Unserved(Tail(rs)) = Unserved(rs)
           /\ Len(rs) # 1 /\ rs[2].by = "tick" => /\ Unserved(rs) = <<rs[2].m>>
                                                  /\ Unserved(Tail(rs)) = <<>>
<1> DEFINE n == Len(rs)
           less == Tail(rs)
<1>1. /\ n \in Nat /\ n >= 1 /\ DOMAIN rs = 1..n
      /\ less \in Seq(Request) /\ Len(less) = n - 1
      /\ \A i \in 1..(n - 1) : less[i] = rs[i + 1]
  OBVIOUS
<1>2. OneTick(less)
  BY TailRequest
<1> HIDE DEF less
<1>3. ASSUME n = 1 PROVE Unserved(rs) = <<>> /\ Unserved(less) = <<>>
  <2>1. 2..n = {} /\ 2..Len(less) = {}
    BY <1>1, <1>3
  <2> QED BY <1>1, <1>2, <2>1, UnservedIs
<1>4. ASSUME n # 1, rs[2].by # "tick" PROVE Unserved(less) = Unserved(rs)
  <2>1. CASE \E i \in 2..n : rs[i].by = "tick"
    <3>1. PICK i \in 2..n : rs[i].by = "tick"
      BY <2>1
    <3>2. i - 1 \in 2..Len(less) /\ less[i - 1] = rs[i]
      <4>1. i # 2 /\ i \in Nat
        BY <1>1, <1>4, <3>1
      <4>2. i - 1 \in 1..(n - 1) /\ (i - 1) + 1 = i /\ i - 1 \in 2..(n - 1)
        BY <1>1, <4>1
      <4> QED BY <1>1, <4>2
    <3>3. Unserved(rs) = <<rs[i].m>>
      BY <3>1, UnservedIs
    <3>4. Unserved(less) = <<less[i - 1].m>>
      BY <1>1, <1>2, <3>1, <3>2, UnservedIs
    <3> QED BY <3>2, <3>3, <3>4
  <2>2. CASE \A i \in 2..n : rs[i].by # "tick"
    <3>1. \A i \in 2..Len(less) : less[i].by # "tick"
      <4>1. ASSUME NEW i \in 2..(n - 1) PROVE less[i].by # "tick"
        <5>1. i \in 1..(n - 1) /\ i + 1 \in 2..n
          BY <1>1
        <5> QED BY <1>1, <2>2, <5>1
      <4> QED BY <1>1, <4>1
    <3>2. Unserved(less) = <<>>
      BY <1>1, <1>2, <3>1, UnservedIs
    <3>3. Unserved(rs) = <<>>
      BY <2>2, UnservedIs
    <3> QED BY <3>2, <3>3
  <2> QED BY <2>1, <2>2
<1>5. ASSUME n # 1, rs[2].by = "tick"
      PROVE  Unserved(rs) = <<rs[2].m>> /\ Unserved(less) = <<>>
  <2>1. 2 \in 2..n
    BY <1>1, <1>5
  <2>2. Unserved(rs) = <<rs[2].m>>
    BY <1>5, <2>1, UnservedIs
  <2>3. \A i \in 2..Len(less) : less[i].by # "tick"
    <3>1. ASSUME NEW i \in 2..(n - 1), less[i].by = "tick" PROVE FALSE
      <4>1. i \in 1..(n - 1) /\ i + 1 \in 1..n /\ i + 1 # 2 /\ 2 \in 1..n
        BY <1>1
      <4>2. rs[i + 1].by = "tick"
        BY <1>1, <3>1, <4>1
      <4> QED BY <1>1, <1>5, <4>1, <4>2 DEF OneTick
    <3> QED BY <1>1, <3>1
  <2>4. Unserved(less) = <<>>
    BY <1>1, <1>2, <2>3, UnservedIs
  <2> QED BY <2>2, <2>4
<1> QED BY <1>3, <1>4, <1>5 DEF less

-----------------------------------------------------------------------------
(* The process implements Mailbox. *)

\* What stands for the mailbox of the abstract specification.
MailOf(rs, box) == UserNames(Unserved(rs) \o box)
Mail == MailOf(requests, inbox)
Phase == IF gen \in Ending THEN "ended" ELSE IF dead THEN "killed" ELSE "open"
Simulated == [Inbox!Next]_(Inbox!vars)

\* Nothing is handed to a generator that has not passed its first yield, which
\* would discard it; only a tick brings a message.
StageInv ==
    /\ gen = "setup" => startPc = "first"
    /\ startPc = "first" => ~dispatchLive
    /\ dispatchLive /\ gen = "initial" => dead
    /\ tick # "idle" => gen \notin {"setup", "initial"}
    /\ \A i \in DOMAIN requests : requests[i].by # "tick" => requests[i].m = ADVANCE

\* The steps of Mailbox, said of a process.
LEMMA MailSteps ==
    /\ /\ UNCHANGED <<Mail, handled>>
       /\ Phase' = Phase \/ Phase' = "ended"
       => Simulated
    /\ /\ Mail # <<>> /\ Phase # "ended" /\ UNCHANGED Phase
       /\ handled' = Append(handled, Head(Mail))
       /\ Mail' = Tail(Mail) \/ \E n \in 1..MaxSends : Mail' = Append(Tail(Mail), n)
       => Simulated
    /\ /\ Phase # "killed" /\ UNCHANGED <<Phase, handled>>
       /\ \E n \in 1..MaxSends : Mail' = Append(Mail, n)
       => Simulated
    /\ /\ UNCHANGED handled
       /\ (Phase = "open" /\ Phase' = "killed") \/ (Phase = "ended" /\ UNCHANGED Phase)
       /\ Mail' = <<>> \/ (Mail # <<>> /\ Mail' = <<Head(Mail)>>)
       => Simulated
    /\ /\ UNCHANGED <<handled, Phase>> /\ Phase = "ended"
       /\ Mail # <<>> /\ Mail' = Tail(Mail)
       => Simulated
<1> USE DEF Simulated, Inbox!Next, Inbox!vars
<1>1. ASSUME UNCHANGED <<Mail, handled>>, Phase' = Phase \/ Phase' = "ended"
      PROVE  Simulated
  BY <1>1 DEF MailOf, Inbox!End, Mail, Phase
<1>2. ASSUME Mail # <<>>, Phase # "ended", UNCHANGED Phase,
             handled' = Append(handled, Head(Mail)),
             Mail' = Tail(Mail) \/ \E n \in 1..MaxSends : Mail' = Append(Tail(Mail), n)
      PROVE  Simulated
  BY <1>2 DEF MailOf, Inbox!Take, Mail, Phase
<1>3. ASSUME Phase # "killed", UNCHANGED <<Phase, handled>>,
             \E n \in 1..MaxSends : Mail' = Append(Mail, n)
      PROVE  Simulated
  BY <1>3 DEF MailOf, Inbox!Post, Mail, Phase
<1>4. ASSUME UNCHANGED handled,
             (Phase = "open" /\ Phase' = "killed") \/ (Phase = "ended" /\ UNCHANGED Phase),
             Mail' = <<>> \/ (Mail # <<>> /\ Mail' = <<Head(Mail)>>)
      PROVE  Simulated
  BY <1>4 DEF MailOf, Inbox!Kill, Inbox!Discard, Inbox!Dropped, Mail, Phase
<1>5. ASSUME UNCHANGED <<handled, Phase>>, Phase = "ended", Mail # <<>>, Mail' = Tail(Mail)
      PROVE  Simulated
  BY <1>5 DEF MailOf, Inbox!Discard, Mail, Phase
<1> QED BY <1>1, <1>2, <1>3, <1>4, <1>5

\* The mailbox by what is in the generator's queue and what is in the inbox.
LEMMA MailIs ==
    ASSUME NEW rs \in Seq(Request), OneTick(rs), NEW box \in Seq(Msg)
    PROVE  /\ UserNames(box) \in Seq(Nat)
           /\ Unserved(rs) = <<>> => MailOf(rs, box) = UserNames(box)
           /\ \A m \in Msg : Unserved(rs) = <<m>> =>
                 MailOf(rs, box) = IF m.k = "user" THEN <<m.n>> \o UserNames(box) ELSE UserNames(box)
           /\ \A m \in Msg :
                 MailOf(rs, Append(box, m)) =
                    IF m.k = "user" THEN Append(MailOf(rs, box), m.n) ELSE MailOf(rs, box)
<1>1. UserNames(box) \in Seq(Nat)
  BY NamesType
<1>2. ASSUME Unserved(rs) = <<>> PROVE MailOf(rs, box) = UserNames(box)
  <2>1. <<>> \o box = box
    BY ConcatEmptySeq
  <2> QED BY <1>2, <2>1 DEF MailOf
<1>3. ASSUME NEW m \in Msg, Unserved(rs) = <<m>>
      PROVE  MailOf(rs, box) = IF m.k = "user" THEN <<m.n>> \o UserNames(box) ELSE UserNames(box)
  BY <1>3, NamesCons DEF MailOf
<1>4. ASSUME NEW m \in Msg
      PROVE  MailOf(rs, Append(box, m)) =
                IF m.k = "user" THEN Append(MailOf(rs, box), m.n) ELSE MailOf(rs, box)
  <2> DEFINE u == Unserved(rs)
  <2>1. u \in Seq(Msg)
    BY UnservedType
  <2> HIDE DEF u
  <2>2. /\ <<m>> \in Seq(Msg) /\ u \o box \in Seq(Msg)
        /\ Append(box, m) = box \o <<m>> /\ Append(u \o box, m) = (u \o box) \o <<m>>
    BY <2>1, AppendIsConcat
  <2>3. (u \o box) \o <<m>> = u \o (box \o <<m>>)
    BY <2>1, <2>2, ConcatAssociative
  <2>4. u \o Append(box, m) = Append(u \o box, m)
    BY <2>2, <2>3
  <2>5. UserNames(Append(u \o box, m)) = IF m.k = "user" THEN Append(UserNames(u \o box), m.n)
                                         ELSE UserNames(u \o box)
    BY <2>2, NamesAppend
  <2> QED BY <2>4, <2>5 DEF MailOf, u
<1> QED BY <1>1, <1>2, <1>3, <1>4

LEMMA OneAhead ==
    ASSUME NEW n \in Nat, NEW ns \in Seq(Nat)
    PROVE  <<n>> \o ns # <<>> /\ Head(<<n>> \o ns) = n /\ Tail(<<n>> \o ns) = ns
<1> DEFINE t == <<n>> \o ns
<1>1. t \in Seq(Nat) /\ Len(t) = Len(ns) + 1 /\ Len(ns) \in Nat /\ t[1] = n
      /\ \A i \in 1..Len(ns) : t[i + 1] = ns[i]
  OBVIOUS
<1> HIDE DEF t
<1>2. t # <<>> /\ Head(t) = n
  BY <1>1
<1>3. Tail(t) = ns
  <2>1. Tail(t) \in Seq(Nat) /\ Len(Tail(t)) = Len(ns) /\ \A i \in 1..Len(ns) : Tail(t)[i] = ns[i]
    BY <1>1
  <2> QED BY <2>1, SeqEqual
<1> QED BY <1>2, <1>3 DEF t

\* What the invariant says of the queue and the inbox.
LEMMA Holdings ==
    ASSUME IInv
    PROVE  /\ requests \in Seq(Request) /\ OneTick(requests) /\ inbox \in Seq(Msg)
           /\ tick # "waiting" => ~HasTick(requests)
           /\ requests = <<>> <=> gen \in Idle
           /\ inbox # <<>> => /\ Head(inbox) \in Msg /\ Tail(inbox) \in Seq(Msg)
                             /\ inbox = <<Head(inbox)>> \o Tail(inbox)
<1>1. /\ requests \in Seq(Request) /\ OneTick(requests) /\ inbox \in Seq(Msg)
      /\ tick # "waiting" => ~HasTick(requests)
      /\ requests = <<>> <=> gen \in Idle
  BY DEF IInv, MachineOK, TypeOK, RequestsInv
<1>2. ASSUME inbox # <<>>
      PROVE  /\ Head(inbox) \in Msg /\ Tail(inbox) \in Seq(Msg)
             /\ inbox = <<Head(inbox)>> \o Tail(inbox)
  BY <1>1, <1>2
<1> QED BY <1>1, <1>2

\* A step that leaves both alone.
LEMMA QuietSim ==
    ASSUME UNCHANGED <<requests, inbox, handled, dead>>, gen' = gen \/ gen' \in Ending
    PROVE  Simulated
<1>1. UNCHANGED <<Mail, handled>>
  BY DEF Mail
<1>2. Phase' = Phase \/ Phase' = "ended"
  BY DEF Phase
<1> QED BY <1>1, <1>2, MailSteps

\* A request that brings no message.
LEMMA IssueSim ==
    ASSUME IInv, NEW r \in Request, r.by # "tick", r.m = ADVANCE, Issue(r),
           UNCHANGED <<inbox, dead>>
    PROVE  Simulated
<1>1. requests' = requests \/ requests' = Append(requests, r)
  BY DEF Issue
<1>2. Unserved(requests') = Unserved(requests)
  <2>1. Unserved(Append(requests, r)) = Unserved(requests)
    BY Holdings, UnservedAppend
  <2> QED BY <1>1, <2>1
<1>3. UNCHANGED Mail
  BY <1>2 DEF Mail, MailOf
<1>4. UNCHANGED handled
  BY DEF Issue, Log, ADVANCE
<1>5. gen' = gen \/ gen' \in Ending \/ (gen \notin Ending /\ gen' \notin Ending)
  BY DEF Issue, Resumed, Suspended, Ending
<1>6. Phase' = Phase \/ Phase' = "ended"
  BY <1>5 DEF Phase
<1> QED BY <1>3, <1>4, <1>6, MailSteps

\* The generator yields; the request behind may bring it the next message.
LEMMA YieldSim ==
    ASSUME IInv, StageInv, NEW at \in Suspended, gen \notin Idle \cup Ending,
           at = "initial" => ~HasTick(requests),
           Yield(at), UNCHANGED <<inbox, dead>>
    PROVE  Simulated
<1> DEFINE rs == requests
           next == requests[2]
<1>1. /\ rs \in Seq(Request) /\ OneTick(rs) /\ inbox \in Seq(Msg) /\ rs # <<>>
      /\ requests' = Tail(rs)
  BY Holdings DEF Yield, Idle
<1>2. /\ Tail(rs) \in Seq(Request) /\ OneTick(Tail(rs))
      /\ Len(rs) # 1 => next \in Request /\ 2 \in DOMAIN rs
  BY <1>1, TailRequest
<1>3. Phase # "ended"
  BY DEF Phase, Idle, Ending
<1>4. gen' = at \/ gen' \in {"cascade", "afterStart", "handling"}
  BY DEF Yield, Resumed
<1>5. gen' \in Ending \/ UNCHANGED Phase
  BY <1>3, <1>4 DEF Phase, Suspended, Ending
<1>6. CASE Len(rs) = 1
  <2>1. UNCHANGED handled
    BY <1>6 DEF Yield
  <2>2. Unserved(requests') = Unserved(rs)
    BY <1>1, <1>6, UnservedTail
  <2>3. UNCHANGED Mail
    BY <2>2 DEF Mail, MailOf
  <2> QED BY <1>5, <2>1, <2>3, MailSteps DEF Phase
<1>7. CASE Len(rs) # 1 /\ next.by # "tick"
  <2>1. next.m = ADVANCE
    BY <1>2, <1>7 DEF StageInv
  <2>2. UNCHANGED handled
    BY <1>7, <2>1 DEF Yield, Log, ADVANCE
  <2>3. Unserved(requests') = Unserved(rs)
    BY <1>1, <1>7, UnservedTail
  <2>4. UNCHANGED Mail
    BY <2>3 DEF Mail, MailOf
  <2> QED BY <1>5, <2>2, <2>4, MailSteps DEF Phase
<1>8. CASE Len(rs) # 1 /\ next.by = "tick"
  <2>1. at = "parked"
    <3>1. HasTick(rs)
      BY <1>2, <1>8 DEF HasTick
    <3> QED BY <3>1 DEF Suspended
  <2>2. gen' = "handling" /\ handled' = IF next.m.k = "user" THEN Append(handled, next.m.n) ELSE handled
    BY <1>8, <2>1 DEF Yield, Resumed, Log
  <2>3. UNCHANGED Phase
    BY <1>5, <2>2 DEF Ending
  <2>4. Unserved(rs) = <<next.m>> /\ Unserved(requests') = <<>>
    BY <1>1, <1>8, UnservedTail
  <2>5. next.m \in Msg /\ next.m.n \in Nat
    BY <1>2, <1>8 DEF Request, Msg
  <2>6. /\ Mail = IF next.m.k = "user" THEN <<next.m.n>> \o UserNames(inbox) ELSE UserNames(inbox)
        /\ Mail' = UserNames(inbox)
        /\ UserNames(inbox) \in Seq(Nat)
    <3>1. Mail = IF next.m.k = "user" THEN <<next.m.n>> \o UserNames(inbox) ELSE UserNames(inbox)
      BY <1>1, <2>4, <2>5, MailIs DEF Mail
    <3>2. MailOf(Tail(rs), inbox) = UserNames(inbox) /\ UserNames(inbox) \in Seq(Nat)
      BY <1>1, <1>2, <2>4, MailIs
    <3> QED BY <1>1, <3>1, <3>2 DEF Mail
  <2>7. CASE next.m.k = "user"
    <3>1. Mail # <<>> /\ Head(Mail) = next.m.n /\ Tail(Mail) = UserNames(inbox)
      BY <2>5, <2>6, <2>7, OneAhead
    <3>2. Mail' = Tail(Mail) /\ handled' = Append(handled, Head(Mail))
      BY <2>2, <2>6, <2>7, <3>1
    <3> QED BY <1>3, <2>3, <3>1, <3>2, MailSteps
  <2>8. CASE next.m.k # "user"
    <3>1. UNCHANGED <<Mail, handled>>
      BY <2>2, <2>6, <2>8
    <3> QED BY <2>3, <3>1, MailSteps
  <2> QED BY <2>7, <2>8
<1> QED BY <1>6, <1>7, <1>8

\* A tick hands the oldest message over: to a parked generator, which takes it
\* now and may send as it does, to a busy one, or to a finished one, which drops it.
LEMMA TakeSim ==
    ASSUME IInv, StageInv, inbox # <<>>, tick \in {"idle", "yielded"},
           gen \notin {"setup", "initial"}, UNCHANGED dead,
           Issue([by |-> "tick", m |-> Head(inbox)]),
           \/ inbox' = Tail(inbox)
           \/ /\ gen = "parked" /\ Head(inbox).k = "user"
              /\ \E n \in Nat : n \in 1..MaxSends /\ inbox' = Append(Tail(inbox), User(n))
    PROVE  Simulated
<1> DEFINE m == Head(inbox)
           rest == Tail(inbox)
           r == [by |-> "tick", m |-> m]
<1>1. /\ requests \in Seq(Request) /\ OneTick(requests) /\ ~HasTick(requests)
      /\ requests = <<>> <=> gen \in Idle
      /\ inbox \in Seq(Msg) /\ m \in Msg /\ rest \in Seq(Msg) /\ inbox = <<m>> \o rest
  BY Holdings
<1>2. r \in Request /\ r.by = "tick" /\ r.m = m /\ m.n \in Nat
  BY <1>1 DEF Request, Msg
<1>3. Unserved(requests) = <<>>
  BY <1>1, UnservedType
<1>4. Mail = UserNames(inbox) /\ UserNames(rest) \in Seq(Nat)
  BY <1>1, <1>3, MailIs DEF Mail
<1>5. Mail = IF m.k = "user" THEN <<m.n>> \o UserNames(rest) ELSE UserNames(rest)
  BY <1>1, <1>4, NamesCons
<1>6. m.k = "user" => Mail # <<>> /\ Head(Mail) = m.n /\ Tail(Mail) = UserNames(rest)
  BY <1>2, <1>4, <1>5, OneAhead
<1> HIDE DEF r, m, rest
<1>7. CASE gen = "ended"
  <2>1. UNCHANGED <<gen, requests, handled>>
    BY <1>7 DEF Issue
  <2>2. inbox' = rest
    BY <1>7 DEF rest
  <2>3. Mail' = UserNames(rest)
    BY <1>1, <1>3, <2>1, <2>2, MailIs DEF Mail
  <2>4. Phase = "ended" /\ UNCHANGED Phase
    BY <1>7, <2>1 DEF Phase, Ending
  <2>5. UNCHANGED Mail \/ (Mail # <<>> /\ Mail' = Tail(Mail))
    BY <1>5, <1>6, <2>3
  <2> QED BY <2>1, <2>4, <2>5, MailSteps
<1>8. CASE gen \notin Idle
  <2>1. UNCHANGED <<gen, handled>> /\ requests' = Append(requests, r)
    BY <1>8 DEF Issue, Idle, r, m
  <2>2. Unserved(requests') = <<m>> /\ requests' \in Seq(Request) /\ OneTick(requests')
    BY <1>1, <1>2, <1>8, <2>1, UnservedAppend, AppendRequest
  <2>3. inbox' = rest
    BY <1>8 DEF rest, Idle, Suspended
  <2>4. Mail' = IF m.k = "user" THEN <<m.n>> \o UserNames(rest) ELSE UserNames(rest)
    BY <1>1, <2>2, <2>3, MailIs DEF Mail
  <2>5. UNCHANGED <<Mail, handled, Phase>>
    BY <1>5, <2>1, <2>4 DEF Phase
  <2> QED BY <2>5, MailSteps
<1>9. CASE gen = "parked"
  <2>1. requests' = Append(requests, r) /\ gen' = Resumed("parked", r) /\ handled' = Log("parked", r)
    BY <1>9 DEF Issue, Suspended, r, m
  <2>2. gen' = "handling" /\ handled' = IF m.k = "user" THEN Append(handled, m.n) ELSE handled
    BY <1>2, <2>1 DEF Resumed, Log
  <2>3. requests = <<>>
    BY <1>1, <1>9 DEF Idle, Suspended
  <2>4. Unserved(requests') = <<>> /\ requests' \in Seq(Request) /\ OneTick(requests')
    BY <1>1, <1>2, <2>1, <2>3, UnservedAppend, AppendRequest
  <2>5. Phase # "ended" /\ UNCHANGED Phase
    BY <1>9, <2>2 DEF Phase, Ending
  <2>6. CASE inbox' = rest
    <3>1. Mail' = UserNames(rest)
      BY <1>1, <2>4, <2>6, MailIs DEF Mail
    <3>2. CASE m.k = "user"
      BY <1>6, <2>2, <2>5, <3>1, <3>2, MailSteps
    <3>3. CASE m.k # "user"
      BY <1>5, <2>2, <2>5, <3>1, <3>3, MailSteps
    <3> QED BY <3>2, <3>3
  <2>7. ASSUME NEW n \in Nat, n \in 1..MaxSends, m.k = "user", inbox' = Append(rest, User(n))
        PROVE  Simulated
    <3>1. User(n) \in Msg /\ User(n).k = "user" /\ User(n).n = n
      BY DEF User, Msg
    <3>2. MailOf(requests', rest) = UserNames(rest)
      BY <1>1, <2>4, MailIs
    <3>3. Mail' = Append(UserNames(rest), n)
      BY <1>1, <2>4, <2>7, <3>1, <3>2, MailIs DEF Mail
    <3> QED BY <1>6, <2>2, <2>5, <2>7, <3>3, MailSteps
  <2> QED BY <1>9, <2>6, <2>7 DEF m, rest
<1> QED BY <1>7, <1>8, <1>9 DEF Idle, Suspended

\* A message, or a call that is none, joins the inbox.
LEMMA PushSim ==
    ASSUME IInv, NEW m \in Msg, inbox' = Append(inbox, m),
           UNCHANGED <<requests, handled, gen, dead>>,
           m.k = "user" => m.n \in 1..MaxSends /\ ~dead
    PROVE  Simulated
<1>1. Mail' = IF m.k = "user" THEN Append(Mail, m.n) ELSE Mail
  BY Holdings, MailIs DEF Mail
<1>2. UNCHANGED Phase /\ (~dead => Phase # "killed")
  BY DEF Phase
<1> QED BY <1>1, <1>2, MailSteps

\* The inbox is dropped, by a kill or by a start that failed.
LEMMA DropSim ==
    ASSUME IInv, inbox' = <<>>, UNCHANGED handled,
           requests' = requests \/ requests' = <<>>,
           (Phase = "open" /\ Phase' = "killed") \/ (Phase = "ended" /\ UNCHANGED Phase)
    PROVE  Simulated
<1>1. requests \in Seq(Request) /\ OneTick(requests) /\ inbox \in Seq(Msg)
  BY Holdings
<1>2. requests' \in Seq(Request) /\ OneTick(requests') /\ inbox' \in Seq(Msg)
  <2>1. <<>> \in Seq(Request) /\ OneTick(<<>>) /\ <<>> \in Seq(Msg)
    BY EmptySeq DEF OneTick
  <2> QED BY <1>1, <2>1
<1>3. UserNames(inbox) \in Seq(Nat) /\ UserNames(inbox') = <<>>
  BY <1>1, NamesType
<1>4. Unserved(requests') = <<>> \/ Unserved(requests') = Unserved(requests)
  BY <1>2, UnservedType
<1>5. CASE Unserved(requests') = <<>>
  <2>1. Mail' = <<>>
    BY <1>2, <1>3, <1>5, MailIs DEF Mail
  <2> QED BY <2>1, MailSteps
<1>6. ASSUME NEW m \in Msg, Unserved(requests) = <<m>>, Unserved(requests') = <<m>>
      PROVE  Simulated
  <2>1. Mail' = IF m.k = "user" THEN <<m.n>> \o <<>> ELSE <<>>
    <3>1. MailOf(requests', inbox') = IF m.k = "user" THEN <<m.n>> \o UserNames(inbox')
                                      ELSE UserNames(inbox')
      BY <1>2, <1>6, MailIs
    <3> QED BY <1>3, <3>1 DEF Mail
  <2>2. Mail = IF m.k = "user" THEN <<m.n>> \o UserNames(inbox) ELSE UserNames(inbox)
    BY <1>1, <1>6, MailIs DEF Mail
  <2>3. m.n \in Nat /\ <<m.n>> \o <<>> = <<m.n>>
    BY DEF Msg
  <2>4. m.k = "user" => Mail # <<>> /\ Mail' = <<Head(Mail)>>
    BY <1>3, <2>1, <2>2, <2>3, OneAhead
  <2>5. m.k # "user" => Mail' = <<>>
    BY <2>1
  <2> QED BY <2>4, <2>5, MailSteps
<1> QED BY <1>1, <1>4, <1>5, <1>6, UnservedType

\* The generator completes: the message in its queue, if any, is dropped.
LEMMA EndSim ==
    ASSUME IInv, requests' = <<>>, UNCHANGED <<inbox, handled>>, Phase = "ended", Phase' = "ended"
    PROVE  Simulated
<1>1. requests \in Seq(Request) /\ OneTick(requests) /\ inbox \in Seq(Msg)
  BY Holdings
<1>2. requests' \in Seq(Request) /\ OneTick(requests')
  BY EmptySeq DEF OneTick
<1>3. Unserved(requests') = <<>> /\ UserNames(inbox) \in Seq(Nat)
  BY <1>1, <1>2, UnservedType, NamesType
<1>4. Mail' = UserNames(inbox)
  BY <1>1, <1>2, <1>3, MailIs DEF Mail
<1>5. CASE Unserved(requests) = <<>>
  <2>1. Mail = UserNames(inbox)
    BY <1>1, <1>5, MailIs DEF Mail
  <2> QED BY <1>4, <2>1, MailSteps
<1>6. ASSUME NEW m \in Msg, Unserved(requests) = <<m>> PROVE Simulated
  <2>1. Mail = IF m.k = "user" THEN <<m.n>> \o UserNames(inbox) ELSE UserNames(inbox)
    BY <1>1, <1>6, MailIs DEF Mail
  <2>2. m.n \in Nat
    BY DEF Msg
  <2>3. UNCHANGED Mail \/ (Mail # <<>> /\ Mail' = Tail(Mail))
    BY <1>3, <1>4, <2>1, <2>2, OneAhead
  <2> QED BY <2>3, MailSteps
<1> QED BY <1>1, <1>5, <1>6, UnservedType

\* A hard kill.
LEMMA ForceSim ==
    ASSUME IInv, NEW cs, ForceStop(cs), UNCHANGED machine
    PROVE  Simulated
<1>1. UNCHANGED <<gen, requests, handled>>
  BY DEF machine
<1>2. CASE dead
  BY <1>1, <1>2, QuietSim DEF ForceStop
<1>3. CASE ~dead
  <2>1. inbox' = <<>> /\ dead'
    BY <1>3 DEF ForceStop
  <2>2. (Phase = "open" /\ Phase' = "killed") \/ (Phase = "ended" /\ UNCHANGED Phase)
    BY <1>1, <1>3, <2>1 DEF Phase
  <2> QED BY <1>1, <2>1, <2>2, DropSim
<1> QED BY <1>2, <1>3

\* Where the requests of a step come from.
LEMMA OnlyTicksBring ==
    ASSUME IInv, StageInv,
           \/ requests' = requests \/ requests' = <<>> \/ (requests # <<>> /\ requests' = Tail(requests))
           \/ \E r \in Request : /\ r.by # "tick" => r.m = ADVANCE
                                 /\ requests' = Append(requests, r)
    PROVE  \A i \in DOMAIN requests' : requests'[i].by # "tick" => requests'[i].m = ADVANCE
<1>1. requests \in Seq(Request) /\ \A i \in DOMAIN requests : requests[i].by # "tick" => requests[i].m = ADVANCE
  BY Holdings DEF StageInv
<1>2. CASE requests' = requests
  BY <1>1, <1>2
<1>3. CASE requests' = <<>>
  BY <1>3
<1>4. CASE requests # <<>> /\ requests' = Tail(requests)
  <2>1. \A i \in DOMAIN Tail(requests) : i + 1 \in DOMAIN requests /\ Tail(requests)[i] = requests[i + 1]
    BY <1>1, <1>4
  <2> QED BY <1>1, <1>4, <2>1
<1>5. ASSUME NEW r \in Request, r.by # "tick" => r.m = ADVANCE, requests' = Append(requests, r)
      PROVE  \A i \in DOMAIN requests' : requests'[i].by # "tick" => requests'[i].m = ADVANCE
  <2>1. \A i \in DOMAIN Append(requests, r) :
           \/ Append(requests, r)[i] = r
           \/ i \in DOMAIN requests /\ Append(requests, r)[i] = requests[i]
    BY <1>1
  <2> QED BY <1>1, <1>5, <2>1
<1> QED BY <1>2, <1>3, <1>4, <1>5

\* What a request does to the place where the generator stands.
LEMMA IssueMoves ==
    ASSUME NEW r, Issue(r)
    PROVE  /\ requests' = requests \/ requests' = Append(requests, r)
           /\ gen' = gen \/ (gen \in Suspended /\ gen' \in {"cascade", "afterStart", "handling"})
           /\ gen = "initial" => gen' # "initial"
BY DEF Issue, Resumed, Suspended

LEMMA YieldMoves ==
    ASSUME NEW at \in Suspended, IInv, gen \notin Idle, Yield(at)
    PROVE  /\ requests # <<>> /\ requests' = Tail(requests)
           /\ gen' = at \/ gen' \in {"cascade", "afterStart", "handling"}
           /\ tick' # "idle" => tick # "idle"
<1>1. requests # <<>>
  BY Holdings
<1>2. Head(requests).by = "tick" => tick = "waiting"
  <2>1. Head(requests) = requests[1] /\ 1 \in DOMAIN requests
    BY <1>1, Holdings
  <2> QED BY <2>1 DEF IInv, MachineOK, HasTick
<1> QED BY <1>1, <1>2 DEF Yield, Resumed

LEMMA TakeMoves ==
    ASSUME IInv, inbox # <<>>, NEW r, r = [by |-> "tick", m |-> Head(inbox)], Issue(r)
    PROVE  /\ \/ requests' = requests
              \/ \E q \in Request : /\ q.by # "tick" => q.m = ADVANCE
                                    /\ requests' = Append(requests, q)
           /\ gen' = gen \/ gen' \in {"cascade", "afterStart", "handling"}
<1>1. r \in Request /\ r.by = "tick"
  BY Holdings DEF Request
<1> QED BY <1>1, IssueMoves

LEMMA StageStep == IInv /\ StageInv /\ [Next]_vars => StageInv'
<1> SUFFICES ASSUME IInv, StageInv, [Next]_vars PROVE StageInv'
  OBVIOUS
<1> DEFINE Bring == \A i \in DOMAIN requests' : requests'[i].by # "tick" => requests'[i].m = ADVANCE
           Moves == \/ requests' = requests \/ requests' = <<>>
                    \/ (requests # <<>> /\ requests' = Tail(requests))
                    \/ \E r \in Request : /\ r.by # "tick" => r.m = ADVANCE
                                          /\ requests' = Append(requests, r)
           Stages == /\ gen' = "setup" => startPc' = "first"
                     /\ startPc' = "first" => ~dispatchLive'
                     /\ dispatchLive' /\ gen' = "initial" => dead'
                     /\ tick' # "idle" => gen' \notin {"setup", "initial"}
<1> SUFFICES Moves /\ Stages
  <2>1. Moves => Bring
    BY OnlyTicksBring
  <2> HIDE DEF Moves
  <2> QED BY <2>1 DEF StageInv
<1> DEFINE plain == [by |-> "return", m |-> ADVANCE]
           first == [by |-> "advance", m |-> ADVANCE]
<1>0. plain \in Request /\ first \in Request
  BY DEF Request, Msg, ADVANCE
<1>1. CASE SetupYields
  <2>1. /\ requests # <<>> /\ requests' = Tail(requests)
        /\ gen' = "initial" \/ gen' \in {"cascade", "afterStart", "handling"}
        /\ tick' # "idle" => tick # "idle"
    BY <1>1, YieldMoves DEF SetupYields, Idle, Suspended
  <2> QED BY <1>1, <2>1 DEF SetupYields, StageInv
<1>2. CASE SetupEnds \/ BeforeEndFinishes \/ HookThrows \/ CascadeFinishes \/ CascadeThrows
  BY <1>2 DEF SetupEnds, BeforeEndFinishes, HookThrows, CascadeFinishes, CascadeThrows, StageInv
<1>3. CASE AfterStartReturns \/ HandlerReturns
  <2>1. PICK d \in BOOLEAN : /\ LoopTest(d) /\ UNCHANGED <<dead, dispatchLive, startPc>>
                            /\ gen \in {"afterStart", "handling"}
    <3>1. done \in BOOLEAN
      BY DEF IInv, TypeOK
    <3> QED BY <1>3, <3>1 DEF AfterStartReturns, HandlerReturns
  <2>2. CASE d
    BY <2>1, <2>2 DEF LoopTest, StageInv
  <2>3. CASE ~d
    <3>1. /\ requests # <<>> /\ requests' = Tail(requests)
          /\ gen' = "parked" \/ gen' \in {"cascade", "afterStart", "handling"}
      BY <2>1, <2>3, YieldMoves DEF LoopTest, Idle, Suspended
    <3> QED BY <2>1, <3>1 DEF StageInv
  <2> QED BY <2>2, <2>3
<1>4. CASE GeneratorEnds
  <2>1. requests' = <<>> /\ gen' = "ended" /\ UNCHANGED dispatchLive
        /\ startPc' \in {startPc, "failed", "started"}
    BY <1>4 DEF GeneratorEnds, Completes
  <2> QED BY <2>1 DEF StageInv
<1>5. CASE StartAdvances
  <2>1. startPc = "yielded" /\ startPc' = "started" /\ UNCHANGED <<dead, tick>>
    BY <1>5 DEF StartAdvances
  <2>2. CASE dead
    <3>1. UNCHANGED <<gen, requests>>
      BY <1>5, <2>2 DEF StartAdvances
    <3> QED BY <2>1, <2>2, <3>1 DEF StageInv
  <2>3. CASE ~dead
    <3>1. Issue(first)
      BY <1>5, <2>3 DEF StartAdvances
    <3>2. /\ requests' = requests \/ requests' = Append(requests, first)
          /\ gen' = gen \/ gen' \in {"cascade", "afterStart", "handling"}
          /\ gen = "initial" => gen' # "initial"
      BY <3>1, IssueMoves
    <3> QED BY <1>0, <2>1, <3>2 DEF StageInv
  <2> QED BY <2>2, <2>3
<1>6. CASE TickFires
  <2>1. UNCHANGED <<dead, dispatchLive, startPc>> /\ BeginTick
    BY <1>6 DEF TickFires
  <2>2. CASE Runnable /\ inbox # <<>>
    <3>1. gen \notin {"setup", "initial"}
      BY <2>2 DEF Runnable, StageInv
    <3>2. Issue([by |-> "tick", m |-> Head(inbox)])
      BY <2>1, <2>2 DEF BeginTick, TakeNext
    <3> QED BY <2>1, <2>2, <3>1, <3>2, TakeMoves DEF StageInv
  <2>3. CASE ~(Runnable /\ inbox # <<>>)
    BY <2>1, <2>3 DEF BeginTick, StageInv
  <2> QED BY <2>2, <2>3
<1>7. CASE TickContinues
  <2>1. UNCHANGED <<dead, dispatchLive, startPc>> /\ gen \notin {"setup", "initial"}
    BY <1>7 DEF TickContinues, schedule, StageInv
  <2>2. CASE inbox # <<>>
    <3>1. Issue([by |-> "tick", m |-> Head(inbox)])
      BY <1>7, <2>2 DEF TickContinues, TakeNext
    <3> QED BY <2>1, <2>2, <3>1, TakeMoves DEF StageInv
  <2>3. CASE inbox = <<>>
    BY <1>7, <2>1, <2>3 DEF TickContinues, StageInv
  <2> QED BY <2>2, <2>3
<1>8. CASE TickEnds
  BY <1>8 DEF TickEnds, StageInv
<1>9. CASE \/ Send \/ Exit \/ Pause \/ Resume
           \/ \E c \in Callers : Wait(c) \/ Stop(c) \/ StopThrows(c)
  BY <1>9 DEF Send, Exit, Pause, Resume, Wait, Stop, StopThrows, machine, StageInv
<1>10. CASE Flush
  <2>1. UNCHANGED <<dead, dispatchLive, startPc>>
    BY <1>10 DEF Flush
  <2>2. CASE Runnable /\ inbox # <<>>
    <3>1. gen \notin {"setup", "initial"}
      BY <2>2 DEF Runnable, StageInv
    <3>2. Issue([by |-> "tick", m |-> Head(inbox)])
      BY <1>10, <2>2 DEF Flush, BeginTick, TakeNext
    <3> QED BY <2>1, <2>2, <3>1, <3>2, TakeMoves DEF StageInv
  <2>3. CASE ~(Runnable /\ inbox # <<>>)
    BY <1>10, <2>1, <2>3 DEF Flush, BeginTick, StageInv
  <2> QED BY <2>2, <2>3
<1>11. CASE Kill \/ \E c \in Callers : StopEscalates(c)
  <2>1. UNCHANGED <<machine, startPc, dispatchLive>> /\ (dead => dead')
    BY <1>11 DEF Kill, StopEscalates, ForceStop
  <2> QED BY <2>1 DEF machine, StageInv
<1>12. ASSUME NEW c \in Callers, StopTimesOut(c) PROVE Moves /\ Stages
  <2>1. UNCHANGED <<dead, dispatchLive, startPc, tick>>
    BY <1>12 DEF StopTimesOut
  <2>2. CASE UNCHANGED <<gen, requests, handled>>
    BY <2>1, <2>2 DEF StageInv
  <2>3. CASE Issue(plain)
    <3>1. /\ requests' = requests \/ requests' = Append(requests, plain)
          /\ gen' = gen \/ gen' \in {"cascade", "afterStart", "handling"}
      BY <2>3, IssueMoves
    <3> QED BY <1>0, <2>1, <3>1 DEF StageInv
  <2> QED BY <1>12, <2>2, <2>3 DEF StopTimesOut
<1>13. CASE UNCHANGED vars
  BY <1>13 DEF vars, StageInv
<1> HIDE DEF Moves, Stages
<1> QED BY <1>1, <1>2, <1>3, <1>4, <1>5, <1>6, <1>7, <1>8, <1>9, <1>10, <1>11, <1>12, <1>13
        DEF Next, GeneratorStep, TickStep

LEMMA StageInit == Init => StageInv
BY DEF Init, StageInv, ADVANCE

\* Every step of a process is a step of Mailbox, or none.
LEMMA MailStep == IInv /\ StageInv /\ [Next]_vars => Simulated
<1> SUFFICES ASSUME IInv, StageInv, [Next]_vars PROVE Simulated
  OBVIOUS
<1> DEFINE plain == [by |-> "return", m |-> ADVANCE]
           first == [by |-> "advance", m |-> ADVANCE]
<1>0. /\ plain \in Request /\ first \in Request
      /\ ADVANCE \in Msg /\ ADVANCE.k # "user" /\ STOP \in Msg /\ STOP.k # "user"
  BY DEF Request, Msg, ADVANCE, STOP
<1>1. CASE SetupYields
  <2>1. "initial" \in Suspended /\ gen \notin Idle \cup Ending
    BY <1>1 DEF SetupYields, Suspended, Idle, Ending
  <2>2. ~HasTick(requests)
    BY <1>1, Holdings DEF SetupYields, StageInv
  <2> QED BY <1>1, <2>1, <2>2, YieldSim DEF SetupYields
<1>2. CASE SetupEnds \/ BeforeEndFinishes \/ HookThrows \/ CascadeFinishes \/ CascadeThrows
  BY <1>2, QuietSim DEF SetupEnds, BeforeEndFinishes, HookThrows, CascadeFinishes, CascadeThrows, Ending
<1>3. CASE AfterStartReturns \/ HandlerReturns
  <2>1. PICK d \in BOOLEAN : /\ LoopTest(d) /\ UNCHANGED <<inbox, dead>>
                            /\ gen \in {"afterStart", "handling"}
    <3>1. done \in BOOLEAN
      BY DEF IInv, TypeOK
    <3> QED BY <1>3, <3>1 DEF AfterStartReturns, HandlerReturns
  <2>2. CASE d
    BY <2>1, <2>2, QuietSim DEF LoopTest, Ending
  <2>3. CASE ~d
    <3>1. "parked" \in Suspended /\ gen \notin Idle \cup Ending /\ Yield("parked")
      BY <2>1, <2>3 DEF LoopTest, Suspended, Idle, Ending
    <3> QED BY <2>1, <3>1, YieldSim
  <2> QED BY <2>2, <2>3
<1>4. CASE GeneratorEnds
  <2>1. /\ requests' = <<>> /\ UNCHANGED handled
        /\ gen \in Ending /\ gen' \in Ending
        /\ inbox' = inbox \/ inbox' = <<>>
    BY <1>4 DEF GeneratorEnds, Completes, Ending
  <2>2. Phase = "ended" /\ Phase' = "ended"
    BY <2>1 DEF Phase
  <2> QED BY <2>1, <2>2, EndSim, DropSim
<1>5. CASE StartAdvances
  <2>1. CASE dead
    BY <1>5, <2>1, QuietSim DEF StartAdvances
  <2>2. CASE ~dead
    <3>1. Issue(first) /\ UNCHANGED <<inbox, dead>>
      BY <1>5, <2>2 DEF StartAdvances
    <3> QED BY <1>0, <3>1, IssueSim
  <2> QED BY <2>1, <2>2
<1>6. CASE TickFires
  <2>1. CASE Runnable /\ inbox # <<>>
    <3>1. gen \notin {"setup", "initial"} /\ tick = "idle"
      BY <2>1 DEF Runnable, StageInv
    <3>2. Issue([by |-> "tick", m |-> Head(inbox)]) /\ inbox' = Tail(inbox) /\ UNCHANGED dead
      BY <1>6, <2>1 DEF TickFires, BeginTick, TakeNext
    <3> QED BY <2>1, <3>1, <3>2, TakeSim
  <2>2. CASE ~(Runnable /\ inbox # <<>>)
    BY <1>6, <2>2, QuietSim DEF TickFires, BeginTick
  <2> QED BY <2>1, <2>2
<1>7. CASE TickContinues
  <2>1. CASE inbox # <<>>
    <3>1. gen \notin {"setup", "initial"} /\ tick = "yielded"
      BY <1>7 DEF TickContinues, StageInv
    <3>2. Issue([by |-> "tick", m |-> Head(inbox)]) /\ inbox' = Tail(inbox) /\ UNCHANGED dead
      BY <1>7, <2>1 DEF TickContinues, TakeNext
    <3> QED BY <2>1, <3>1, <3>2, TakeSim
  <2>2. CASE inbox = <<>>
    BY <1>7, <2>2, QuietSim DEF TickContinues
  <2> QED BY <2>1, <2>2
<1>8. CASE TickEnds \/ Pause \/ Resume \/ \E c \in Callers : Wait(c) \/ StopThrows(c)
  BY <1>8, QuietSim DEF TickEnds, Pause, Resume, Wait, StopThrows, machine
<1>9. CASE Send
  <2>1. posted + 1 \in 1..MaxSends /\ posted + 1 \in Nat
    BY <1>9, ActorAssumption DEF Send, IInv, TypeOK
  <2>2. User(posted + 1) \in Msg /\ User(posted + 1).n = posted + 1
    BY <2>1 DEF User, Msg
  <2> QED BY <1>9, <2>1, <2>2, PushSim DEF Send, Push, machine
<1>10. CASE Flush
  <2>1. UNCHANGED dead
    BY <1>10 DEF Flush
  <2>2. CASE BeginTick
    <3>1. CASE Runnable /\ inbox # <<>>
      <4>1. gen \notin {"setup", "initial"} /\ tick = "idle"
        BY <3>1 DEF Runnable, StageInv
      <4>2. Issue([by |-> "tick", m |-> Head(inbox)]) /\ inbox' = Tail(inbox)
        BY <2>2, <3>1 DEF BeginTick, TakeNext
      <4> QED BY <2>1, <3>1, <4>1, <4>2, TakeSim
    <3>2. CASE ~(Runnable /\ inbox # <<>>)
      BY <2>1, <2>2, <3>2, QuietSim DEF BeginTick
    <3> QED BY <3>1, <3>2
  <2>3. CASE ~BeginTick
    <3>1. /\ inbox # <<>> /\ tick = "idle" /\ gen = "parked" /\ Head(inbox).k = "user"
          /\ Issue([by |-> "tick", m |-> Head(inbox)])
          /\ inbox' = Append(Tail(inbox), User(posted + 1)) /\ posted < MaxSends
      BY <1>10, <2>3 DEF Flush, Runnable
    <3>2. posted + 1 \in 1..MaxSends /\ posted + 1 \in Nat
      BY <3>1, ActorAssumption DEF IInv, TypeOK
    <3> QED BY <2>1, <3>1, <3>2, TakeSim
  <2> QED BY <2>2, <2>3
<1>11. CASE Exit
  <2>1. UNCHANGED <<requests, handled, gen, dead>>
    BY <1>11 DEF Exit, machine
  <2>2. CASE UNCHANGED inbox
    BY <2>1, <2>2, QuietSim
  <2>3. CASE inbox' = Append(inbox, ADVANCE)
    BY <1>0, <2>1, <2>3, PushSim
  <2> QED BY <1>11, <2>2, <2>3 DEF Exit, Push
<1>12. ASSUME NEW c \in Callers, Stop(c) PROVE Simulated
  <2>1. UNCHANGED <<requests, handled, gen, dead>>
    BY <1>12 DEF Stop, machine
  <2>2. CASE UNCHANGED inbox
    BY <2>1, <2>2, QuietSim
  <2>3. CASE inbox' = Append(inbox, STOP)
    BY <1>0, <2>1, <2>3, PushSim
  <2> QED BY <1>12, <2>2, <2>3 DEF Stop, Push
<1>13. CASE Kill \/ \E c \in Callers : StopEscalates(c)
  <2>1. PICK cs : ForceStop(cs) /\ UNCHANGED machine
    BY <1>13 DEF Kill, StopEscalates
  <2> QED BY <2>1, ForceSim
<1>14. ASSUME NEW c \in Callers, StopTimesOut(c) PROVE Simulated
  <2>1. UNCHANGED <<inbox, dead>>
    BY <1>14 DEF StopTimesOut
  <2>2. CASE UNCHANGED <<gen, requests, handled>>
    BY <2>1, <2>2, QuietSim
  <2>3. CASE Issue(plain)
    BY <1>0, <2>1, <2>3, IssueSim
  <2> QED BY <1>14, <2>2, <2>3 DEF StopTimesOut
<1>15. CASE UNCHANGED vars
  BY <1>15, QuietSim DEF vars
<1> QED BY <1>1, <1>2, <1>3, <1>4, <1>5, <1>6, <1>7, <1>8, <1>9, <1>10, <1>11, <1>12, <1>13,
           <1>14, <1>15
        DEF Next, GeneratorStep, TickStep

LEMMA MailInit == Init => Inbox!Init
<1> SUFFICES ASSUME Init PROVE Inbox!Init
  OBVIOUS
<1>1. IInv /\ inbox = <<>> /\ handled = <<>> /\ Phase = "open"
  BY InitInv DEF Init, Phase, Ending
<1>2. ~HasTick(requests)
  BY <1>1, Holdings DEF Init
<1>3. Mail = <<>>
  BY <1>1, <1>2, Holdings, UnservedType, MailIs, NamesType DEF Mail
<1> QED BY <1>1, <1>3 DEF Inbox!Init, Mail, MailOf, Phase

-----------------------------------------------------------------------------
LEMMA SpecInv == Spec => []IInv
<1>1. Init => IInv
  BY InitInv
<1>2. IInv /\ [Next]_vars => IInv'
  BY NextInv
<1> QED
  BY <1>1, <1>2, PTL DEF Spec

\* Every variable of a process keeps its type, whatever is called and whenever.
THEOREM ActorType == Spec => []TypeOK
<1>1. IInv => TypeOK
  BY DEF IInv
<1> QED
  BY <1>1, SpecInv, PTL

\* A process that may dispatch and has mail has a tick deferred or in progress:
\* no send, resume, start or end of a tick leaves a message behind.
THEOREM ActorNoLostTick == Spec => []NoLostTick
<1>1. IInv => NoLostTick
  BY DEF IInv
<1> QED
  BY <1>1, SpecInv, PTL

\* The generator never has two messages in hand, whoever calls it.
THEOREM ActorOneAtATime == Spec => []OneAtATime
<1>1. IInv => OneAtATime
  BY DEF IInv, MachineOK, OneTick, HasTick, OneAtATime
<1> QED
  BY <1>1, SpecInv, PTL

\* wait() and stop() never report the end of a process that has not ended, by an
\* answer or by the generator's error, whatever subscribers and children throw.
THEOREM ActorToldStopped == Spec => []ToldStopped
<1>1. IInv => ToldStopped
  BY DEF IInv
<1> QED
  BY <1>1, SpecInv, PTL

\* A process implements Mailbox: its messages reach the reducer in the order sent,
\* none skipped and none twice, none before the initial state is delivered and none
\* after the loop was left, whoever pauses, flushes, stops or kills it meanwhile.
THEOREM ActorIsMailbox == Spec => MailboxSpec
<1>1. Init => Inbox!Init /\ StageInv
  BY MailInit, StageInit
<1>2. IInv /\ StageInv /\ [Next]_vars => StageInv'
  BY StageStep
<1>3. IInv /\ StageInv /\ [Next]_vars => [Inbox!Next]_(Inbox!vars)
  BY MailStep DEF Simulated
<1> QED
  BY <1>1, <1>2, <1>3, SpecInv, PTL DEF Spec, MailboxSpec, Inbox!Spec

=============================================================================
