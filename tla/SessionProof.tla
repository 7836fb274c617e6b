---------------------------- MODULE SessionProof ----------------------------
(***************************************************************************)
(* What is proved of one served connection, for any number of messages and *)
(* calls, whatever the factory answers and wherever the medium is cut.     *)
(***************************************************************************)
EXTENDS Session, SequenceTheorems, TLAPS

-----------------------------------------------------------------------------
(* The invariant. *)

\* The frames that travel to each side; only a message does more on arrival than
\* being taken, and a call has a number of its side.
ForServer ==
    {f \in Frame :
        /\ f.k \in {"init", "tune", "stop", "say", "call", "result", "bad", "octets", "fin"}
        /\ f.k # "say" => f.class = "plain"
        /\ f.k = "call" => f.n \in Seqs}
ForClient ==
    {f \in Frame :
        /\ f.k \in {"state", "emit", "exit", "call", "result", "bad", "error", "ask", "fin"}
        /\ f.class = "plain"
        /\ f.k = "call" => f.n \in Seqs}

Wires == {w \in [Sides -> Seq(Frame)] :
              w["server"] \in Seq(ForServer) /\ w["client"] \in Seq(ForClient)}
Queues == {q \in [Sides -> Seq(Frame)] :
              q["server"] \in Seq(ForServer) /\ q["client"] = <<>>}

Frames ==
    /\ wire \in Wires /\ later \in Queues /\ busy \in Queues /\ waiting \in Seq(ForServer)
    /\ Len(busy["server"]) <= 1

Ledgers == [Seqs -> {"none", "waiting", "late", "answered", "rejected"}]
Calls == calls \in [Sides -> Ledgers] /\ answering \in [Sides -> SUBSET Seqs]

Settings ==
    /\ closed \in [Sides -> BOOLEAN] /\ cut \in BOOLEAN /\ garbled \in BOOLEAN
    /\ Calls
    /\ proxy \in {"opening", "up", "stopping", "ended", "over"}
    /\ farEnd \in {"none", "exit", "lost"} /\ wireEnded \in BOOLEAN /\ said \in Nat
    /\ session \in {"offered", "init", "making", "readying", "serving", "ending",
                    "lastword", "over", "refused", "failed"}
    /\ slot \in {"none", "session"}
    /\ served \in Serves \cup {NoServed} /\ proc \in {"none", "up", "ended"}
    /\ askedStop \in BOOLEAN /\ tuned \in BOOLEAN
    /\ ending \in {"no", "running", "done", "failed"} /\ cleanups \in Nat
    /\ gone \in BOOLEAN /\ heard \in Seq(Nat) /\ emits \in Nat
    /\ reactor \in {"accepting", "stopping", "waiting", "stopped"}
    /\ live \in BOOLEAN /\ awaited \in BOOLEAN

\* Before the session serves it has done nothing but collect frames.
Early == {"offered", "init", "making", "readying", "refused"}
Stages ==
    /\ session \in Early => later["server"] = <<>> /\ busy["server"] = <<>> /\ slot = "none" /\ ~tuned
    /\ waiting # <<>> => session \in {"init", "making", "readying", "refused"}
    /\ live => session \in {"serving", "ending", "lastword"}

\* The cleanup has run as often as `ending' says, and a session that closes has seen
\* it done.
Accounted ==
    /\ cleanups = IF ending = "no" THEN 0 ELSE 1
    /\ session = "lastword" => ending = "done"
    /\ session = "over" /\ slot = "session" => ending = "done"
    /\ reactor = "stopped" /\ awaited => session \in {"over", "failed"}

SInv == Frames /\ Settings /\ Stages /\ Accounted

-----------------------------------------------------------------------------
(* The last word. *)

About == {"state", "emit", "exit"}
Lacks(fs, K) == \A i \in DOMAIN fs : fs[i].k \notin K
Has(fs, k) == \E i \in DOMAIN fs : fs[i].k = k
\* Nothing of K follows a frame k.
Last(fs, k, K) == \A i, j \in DOMAIN fs : i < j /\ fs[i].k = k => fs[j].k \notin K

\* The exit is said as the session leaves `ending', and nothing about the process after.
WordLast ==
    /\ Has(wire["client"], "exit") \/ farEnd = "exit" => session \in {"lastword", "over"}
    /\ Last(wire["client"], "exit", About)
    /\ farEnd = "exit" => Lacks(wire["client"], About)

\* A far end that is lost is so because the wire is gone at that end.
ProxyKnows ==
    /\ closed["client"] => wireEnded
    /\ wireEnded \/ proxy \in {"ended", "over"} => farEnd # "none"

\* What cannot be read has been garbled, or answers what has been.
Unread == {"bad", "error"}
Readable ==
    ~garbled =>
        /\ Lacks(wire["server"], Unread) /\ Lacks(wire["client"], Unread)
        /\ Lacks(later["server"], Unread) /\ Lacks(waiting, Unread) /\ Lacks(busy["server"], Unread)

\* On a medium that holds, an end that hears of a close hears it of the other one, behind
\* all that one said.
Closing ==
    /\ ~cut => /\ Has(wire["server"], "fin") => closed["client"]
               /\ Has(wire["client"], "fin") => closed["server"]
    /\ Last(wire["client"], "fin", {"exit"})
    /\ ~cut /\ closed["server"] => session = "over" \/ closed["client"]

\* On one that garbles nothing either, a process that was asked for it has had its exit
\* said before the close.
WordSaid ==
    ~cut /\ ~garbled =>
        /\ tuned /\ session \in {"lastword", "over"} /\ farEnd = "none" => Has(wire["client"], "exit")
        /\ farEnd = "lost" => session = "over" /\ ~tuned

WInv == WordLast /\ ProxyKnows /\ Readable /\ Closing /\ WordSaid

-----------------------------------------------------------------------------
(* The order of messages. *)

\* The numbers of the messages among fs, and that they ascend.
Nums(fs) == {fs[i].n : i \in Sayings(fs)}
Ascends(fs) == \A i, j \in Sayings(fs) : i < j => fs[i].n < fs[j].n

\* How far the process has heard.
Upto == IF heard = <<>> THEN 0 ELSE heard[Len(heard)]

Standing == ~cut /\ ~garbled /\ ~closed["server"] /\ ~closed["client"]

\* Nothing is said before the session serves: the proxy waits for the first state.
Opened == session \in Early =>
             said = 0 /\ proxy = "opening" /\ ~Has(wire["client"], "state")
HeardUp ==
    /\ \A i, j \in DOMAIN heard : i < j => heard[i] < heard[j]
    /\ Upto <= said
ComesUp ==
    /\ Ascends(Inbound("server"))
    /\ \A m \in Nums(Inbound("server")) : Upto < m /\ m <= said
AllComes ==
    Standing =>
        /\ \A i \in DOMAIN heard : heard[i] = i
        /\ Nums(Inbound("server")) = Len(heard) + 1 .. said

OInv == Opened /\ HeardUp /\ ComesUp /\ AllComes

-----------------------------------------------------------------------------
(* Frames and what they travel in. *)

LEMMA FrameFacts ==
    /\ ForServer \subseteq Frame /\ ForClient \subseteq Frame
    /\ \A f \in ForServer :
          /\ f.k \in {"init", "tune", "stop", "say", "call", "result", "bad", "octets", "fin"}
          /\ f.k # "say" => f.class = "plain"
          /\ f.k = "call" => f.n \in Seqs
          /\ f.n \in Nat
    /\ \A f \in ForClient :
          /\ f.k \in {"state", "emit", "exit", "call", "result", "bad", "error", "ask", "fin"}
          /\ f.class = "plain"
          /\ f.k = "call" => f.n \in Seqs
          /\ f.n \in Nat
  BY DEF ForServer, ForClient, Frame

LEMMA MadeFrames ==
    /\ \A k \in {"init", "tune", "stop", "bad", "octets", "fin"} : F(k) \in ForServer
    /\ \A k \in {"state", "emit", "exit", "bad", "error", "ask", "fin"} : F(k) \in ForClient
    /\ \A k \in {"call", "result"}, q \in Seqs : Numbered(k, q) \in ForServer \cap ForClient
    /\ \A n \in Nat, c \in Classes : [Numbered("say", n) EXCEPT !.class = c] \in ForServer
<1>1. 0 \in Nat /\ Seqs \subseteq Nat /\ Classes \subseteq {"plain", "owes", "throws"}
  BY SessionAssumption DEF Seqs
<1> QED BY <1>1 DEF F, Numbered, ForServer, ForClient, Frame

LEMMA MadeKinds ==
    /\ \A k : F(k).k = k /\ F(k).class = "plain"
    /\ \A k, q : Numbered(k, q).k = k /\ Numbered(k, q).n = q
    /\ \A n, c : /\ [Numbered("say", n) EXCEPT !.class = c].k = "say"
                 /\ [Numbered("say", n) EXCEPT !.class = c].n = n
  BY DEF F, Numbered

\* One side's queue of a pair.
LEMMA PairFacts ==
    /\ \A w \in Wires : /\ w \in [Sides -> Seq(Frame)]
                        /\ w["server"] \in Seq(ForServer) /\ w["client"] \in Seq(ForClient)
    /\ \A q \in Queues : /\ q \in [Sides -> Seq(Frame)]
                         /\ q["server"] \in Seq(ForServer) /\ q["client"] = <<>>
    /\ \A w \in Wires, fs \in Seq(ForServer) :
          /\ [w EXCEPT !["server"] = fs] \in Wires
          /\ [w EXCEPT !["server"] = fs]["server"] = fs
          /\ [w EXCEPT !["server"] = fs]["client"] = w["client"]
    /\ \A w \in Wires, fs \in Seq(ForClient) :
          /\ [w EXCEPT !["client"] = fs] \in Wires
          /\ [w EXCEPT !["client"] = fs]["client"] = fs
          /\ [w EXCEPT !["client"] = fs]["server"] = w["server"]
    /\ \A q \in Queues, fs \in Seq(ForServer) :
          /\ [q EXCEPT !["server"] = fs] \in Queues
          /\ [q EXCEPT !["server"] = fs]["server"] = fs
<1> DEFINE A == Seq(ForServer)
           B == Seq(ForClient)
           C == Seq(Frame)
<1>1. A \subseteq C /\ B \subseteq C
  BY FrameFacts
<1>2. "server" \in Sides /\ "client" \in Sides /\ Sides = {"client", "server"}
  BY DEF Sides
<1> HIDE DEF A, B, C, Sides
<1> QED BY <1>1, <1>2 DEF Wires, Queues, A, B, C

LEMMA SentServer ==
    ASSUME NEW w \in Wires, NEW f \in ForClient
    PROVE  /\ Sent(w, "server", f) \in Wires
           /\ Sent(w, "server", f)["server"] = w["server"]
           /\ Sent(w, "server", f)["client"] =
                 IF closed["server"] \/ closed["client"] \/ cut THEN w["client"] ELSE Append(w["client"], f)
<1>1. w["client"] \in Seq(ForClient)
  BY PairFacts
<1>2. Append(w["client"], f) \in Seq(ForClient)
  BY <1>1
<1>3. Sent(w, "server", f) = IF closed["server"] \/ closed["client"] \/ cut THEN w
                             ELSE [w EXCEPT !["client"] = Append(w["client"], f)]
  BY PairFacts DEF Sent, Other
<1> DEFINE fs == Append(w["client"], f)
           v == [w EXCEPT !["client"] = fs]
<1> HIDE DEF fs
<1>4. v \in Wires /\ v["client"] = fs /\ v["server"] = w["server"]
  <2>1. fs \in Seq(ForClient)
    BY <1>2 DEF fs
  <2> QED BY ONLY w \in Wires, <2>1, PairFacts
<1>5. Sent(w, "server", f) = IF closed["server"] \/ closed["client"] \/ cut THEN w ELSE v
  BY <1>3 DEF fs
<1> HIDE DEF v
<1> QED BY <1>4, <1>5 DEF fs

LEMMA SentClient ==
    ASSUME NEW w \in Wires, NEW f \in ForServer
    PROVE  /\ Sent(w, "client", f) \in Wires
           /\ Sent(w, "client", f)["client"] = w["client"]
           /\ Sent(w, "client", f)["server"] =
                 IF closed["client"] \/ closed["server"] \/ cut THEN w["server"] ELSE Append(w["server"], f)
<1>1. w["server"] \in Seq(ForServer)
  BY PairFacts
<1>2. Append(w["server"], f) \in Seq(ForServer)
  BY <1>1
<1>3. Sent(w, "client", f) = IF closed["client"] \/ closed["server"] \/ cut THEN w
                             ELSE [w EXCEPT !["server"] = Append(w["server"], f)]
  BY PairFacts DEF Sent, Other
<1> DEFINE fs == Append(w["server"], f)
           v == [w EXCEPT !["server"] = fs]
<1> HIDE DEF fs
<1>4. v \in Wires /\ v["server"] = fs /\ v["client"] = w["client"]
  <2>1. fs \in Seq(ForServer)
    BY <1>2 DEF fs
  <2> QED BY ONLY w \in Wires, <2>1, PairFacts
<1>5. Sent(w, "client", f) = IF closed["client"] \/ closed["server"] \/ cut THEN w ELSE v
  BY <1>3 DEF fs
<1> HIDE DEF v
<1> QED BY <1>4, <1>5 DEF fs

LEMMA ClosesServer ==
    ASSUME NEW w \in Wires
    PROVE  /\ ClosesIn(w, "server") \in Wires
           /\ ClosesIn(w, "server")["server"] = <<>>
           /\ ClosesIn(w, "server")["client"] =
                 IF closed["server"] \/ closed["client"] \/ cut THEN w["client"] ELSE Append(w["client"], F("fin"))
<1>1. F("fin") \in ForClient /\ <<>> \in Seq(ForServer)
  BY MadeFrames
<1> DEFINE v == Sent(w, "server", F("fin"))
<1>2. /\ v \in Wires /\ v["client"] =
            IF closed["server"] \/ closed["client"] \/ cut THEN w["client"] ELSE Append(w["client"], F("fin"))
  BY <1>1, SentServer
<1>3. ClosesIn(w, "server") = [v EXCEPT !["server"] = <<>>]
  BY DEF ClosesIn
<1> HIDE DEF v
<1> DEFINE e == <<>>
           u == [v EXCEPT !["server"] = e]
<1>4. u \in Wires /\ u["server"] = e /\ u["client"] = v["client"]
  <2>1. v \in Wires /\ e \in Seq(ForServer)
    BY <1>1, <1>2
  <2> HIDE DEF e
  <2> QED BY ONLY <2>1, PairFacts
<1> HIDE DEF u
<1>5. ClosesIn(w, "server") = u
  BY <1>3 DEF u
<1> QED BY <1>2, <1>4, <1>5

LEMMA ClosesClient ==
    ASSUME NEW w \in Wires
    PROVE  /\ ClosesIn(w, "client") \in Wires
           /\ ClosesIn(w, "client")["client"] = <<>>
           /\ ClosesIn(w, "client")["server"] =
                 IF closed["client"] \/ closed["server"] \/ cut THEN w["server"] ELSE Append(w["server"], F("fin"))
<1>1. F("fin") \in ForServer /\ <<>> \in Seq(ForClient)
  BY MadeFrames
<1> DEFINE v == Sent(w, "client", F("fin"))
<1>2. /\ v \in Wires /\ v["server"] =
            IF closed["client"] \/ closed["server"] \/ cut THEN w["server"] ELSE Append(w["server"], F("fin"))
  BY <1>1, SentClient
<1>3. ClosesIn(w, "client") = [v EXCEPT !["client"] = <<>>]
  BY DEF ClosesIn
<1> HIDE DEF v
<1> DEFINE e == <<>>
           u == [v EXCEPT !["client"] = e]
<1>4. u \in Wires /\ u["client"] = e /\ u["server"] = v["server"]
  <2>1. v \in Wires /\ e \in Seq(ForClient)
    BY <1>1, <1>2
  <2> HIDE DEF e
  <2> QED BY ONLY <2>1, PairFacts
<1> HIDE DEF u
<1>5. ClosesIn(w, "client") = u
  BY <1>3 DEF u
<1> QED BY <1>2, <1>4, <1>5

-----------------------------------------------------------------------------
(* What a frame does. *)

\* One side's part of the calls changes.
LEMMA LedgerFacts ==
    ASSUME Calls, NEW s \in Sides
    PROVE  /\ \A c \in Ledgers : [calls EXCEPT ![s] = c] \in [Sides -> Ledgers]
           /\ \A a \in SUBSET Seqs : [answering EXCEPT ![s] = a] \in [Sides -> SUBSET Seqs]
           /\ calls[s] \in Ledgers /\ answering[s] \in SUBSET Seqs
  BY DEF Calls

LEMMA RejectedType ==
    ASSUME NEW c \in Ledgers
    PROVE  Rejected(c) \in Ledgers
  BY DEF Rejected, Ledgers

LEMMA TakesCallFacts ==
    ASSUME Calls, NEW s \in Sides, NEW f \in Frame, f.k = "call" => f.n \in Seqs, TakesCall(s, f)
    PROVE  Calls'
<1>1. Other(s) \in Sides
  BY DEF Other, Sides
<1>2. answering' \in [Sides -> SUBSET Seqs]
  <2>1. CASE f.k = "call"
    <3>1. answering' = [answering EXCEPT ![Other(s)] = answering[Other(s)] \cup {f.n}]
      BY <2>1 DEF TakesCall
    <3>2. answering[Other(s)] \cup {f.n} \in SUBSET Seqs
      BY <1>1, <2>1, LedgerFacts
    <3> QED BY <1>1, <3>1, <3>2, LedgerFacts
  <2>2. CASE f.k # "call"
    BY <2>2 DEF TakesCall, Calls
  <2> QED BY <2>1, <2>2
<1>3. calls' \in [Sides -> Ledgers]
  <2>1. CASE f.k = "result" /\ calls[s][f.n] \in {"waiting", "late"}
    <3> DEFINE c == [calls[s] EXCEPT ![f.n] = "answered"]
    <3>1. calls' = [calls EXCEPT ![s] = c]
      BY <2>1 DEF TakesCall, Settled
    <3>2. c \in Ledgers
      <4>1. calls[s] \in Ledgers
        BY LedgerFacts
      <4> QED BY <4>1 DEF Ledgers
    <3> HIDE DEF c
    <3> QED BY <3>1, <3>2, LedgerFacts
  <2>2. CASE f.k = "result" /\ calls[s][f.n] \notin {"waiting", "late"}
    <3>1. calls' = [calls EXCEPT ![s] = calls[s]]
      BY <2>2 DEF TakesCall, Settled
    <3> QED BY <3>1, LedgerFacts
  <2>3. CASE f.k # "result"
    BY <2>3 DEF TakesCall, Calls
  <2> QED BY <2>1, <2>2, <2>3
<1> QED BY <1>2, <1>3 DEF Calls

\* end() starts the cleanup, if nobody has.
LEMMA EndFacts ==
    ASSUME Settings, Accounted, End \/ UNCHANGED <<ending, cleanups>>
    PROVE  /\ ending' \in {"no", "running", "done", "failed"} /\ cleanups' \in Nat
           /\ cleanups' = (IF ending' = "no" THEN 0 ELSE 1)
           /\ ending = "no" \/ ending' = ending
  BY DEF Settings, Accounted, End

\* What the server's deliver does besides writing.
Delivered(f) ==
    /\ Calls' /\ askedStop' \in BOOLEAN /\ tuned' \in BOOLEAN
    /\ heard' = IF f.k = "say" THEN Append(heard, f.n) ELSE heard
    /\ tuned' => tuned \/ Recorded
    /\ End \/ UNCHANGED <<ending, cleanups>>
    /\ UNCHANGED <<closed, client, proc, emits, gone, session>>

\* What it writes.
Replies(w, f) ==
    /\ wire' \in Wires /\ wire'["server"] = w["server"]
    /\ \/ wire'["client"] = w["client"]
       \/ /\ ~closed["server"]
          /\ \E g \in ForClient :
                /\ wire'["client"] = Append(w["client"], g)
                /\ g.k \in {"ask", "error", "state"}
                /\ g.k = "error" => f.k \in Unread
                /\ g.k = "state" => Recorded

LEMMA ServerReplies ==
    ASSUME NEW w \in Wires, NEW f \in ForServer, NEW k \in {"ask", "error", "state"},
           wire' = Sent(w, "server", F(k)),
           k = "error" => f.k \in Unread, k = "state" => Recorded
    PROVE  Replies(w, f)
<1>1. F(k) \in ForClient /\ F(k).k = k
  BY MadeFrames, MadeKinds
<1>2. /\ wire' \in Wires /\ wire'["server"] = w["server"]
      /\ wire'["client"] = IF closed["server"] \/ closed["client"] \/ cut THEN w["client"]
                           ELSE Append(w["client"], F(k))
  BY <1>1, SentServer
<1> QED BY <1>1, <1>2 DEF Replies

LEMMA ServerTakesFacts ==
    ASSUME SInv, NEW w \in Wires, NEW f \in ForServer, ServerTakes(w, f)
    PROVE  Delivered(f) /\ Replies(w, f)
<1>1. Calls /\ askedStop \in BOOLEAN /\ tuned \in BOOLEAN /\ Recorded \in BOOLEAN
  BY DEF SInv, Settings, Recorded
<1>2. CASE f.k \in Unread
  <2>1. wire' = Sent(w, "server", F("error")) /\ End
        /\ UNCHANGED <<closed, calls, answering, client, process, gone, session>>
    BY <1>2 DEF ServerTakes, Unread
  <2>2. Replies(w, f)
    BY <1>2, <2>1, ServerReplies
  <2>3. Delivered(f)
    BY <1>1, <1>2, <2>1 DEF Delivered, process, Unread, Calls
  <2> QED BY <2>2, <2>3
<1>3. CASE f.k = "tune"
  <2>1. /\ tuned' = (tuned \/ Recorded)
        /\ wire' = IF Recorded THEN Sent(w, "server", F("state")) ELSE w
        /\ UNCHANGED <<closed, calls, answering, client, proc, askedStop, heard, emits, ending, cleanups, gone, session>>
    BY <1>3 DEF ServerTakes
  <2>2. Replies(w, f)
    BY <2>1, ServerReplies DEF Replies
  <2>3. Delivered(f)
    BY <1>1, <1>3, <2>1 DEF Delivered, Calls
  <2> QED BY <2>2, <2>3
<1>4. CASE f.k \in {"stop", "say"}
  <2>1. /\ wire' = w
        /\ askedStop' = (askedStop \/ f.k = "stop")
        /\ heard' = IF f.k = "say" THEN Append(heard, f.n) ELSE heard
        /\ UNCHANGED <<closed, calls, answering, client, proc, tuned, emits, ending, cleanups, gone, session>>
    BY <1>4 DEF ServerTakes
  <2>2. Replies(w, f)
    BY <2>1 DEF Replies
  <2>3. Delivered(f)
    BY <1>1, <2>1 DEF Delivered, Calls
  <2> QED BY <2>2, <2>3
<1>5. CASE f.k \in {"call", "result"}
  <2>1. /\ wire' = w
        /\ TakesCall("server", f)
        /\ UNCHANGED <<closed, client, process, ending, cleanups, gone, session>>
    BY <1>5 DEF ServerTakes
  <2>2. Replies(w, f)
    BY <2>1 DEF Replies
  <2>3. Calls'
    BY <1>1, <2>1, TakesCallFacts, FrameFacts DEF Sides
  <2>4. Delivered(f)
    BY <1>1, <1>5, <2>1, <2>3 DEF Delivered, process
  <2> QED BY <2>2, <2>4
<1>6. f.k \in Unread \/ f.k \in {"tune", "stop", "say", "call", "result"}
  BY DEF ServerTakes, Unread
<1> QED BY <1>2, <1>3, <1>4, <1>5, <1>6

LEMMA StartServer ==
    ASSUME SInv, NEW w \in Wires, NEW f \in ForServer, Start("server", w, f)
    PROVE  /\ Replies(w, f)
           /\ \/ Delivered(f) /\ UNCHANGED busy
              \/ /\ f.k = "say" /\ busy' = [busy EXCEPT !["server"] = <<f>>]
                 /\ UNCHANGED <<closed, call, client, process, ending, cleanups, gone, session>>
<1>1. CASE f.class = "plain"
  <2>1. ServerTakes(w, f) /\ UNCHANGED busy
    BY <1>1 DEF Start, Takes
  <2> QED BY <2>1, ServerTakesFacts
<1>2. CASE f.class # "plain"
  <2>1. /\ busy' = [busy EXCEPT !["server"] = <<f>>]
        /\ wire' = IF f.class = "owes" THEN Sent(w, "server", F("ask")) ELSE w
        /\ UNCHANGED <<closed, call, client, process, ending, cleanups, gone, session>>
    BY <1>2 DEF Start
  <2>2. Replies(w, f)
    BY <2>1, ServerReplies DEF Replies
  <2>3. f.k = "say"
    BY <1>2, FrameFacts
  <2> QED BY <2>1, <2>2, <2>3
<1> QED BY <1>1, <1>2

\* What the client's deliver does.
ClientDelivered(w, f) ==
    /\ wire' \in Wires /\ Calls'
    /\ \/ /\ f.k \in Unread
          /\ wire'["server"] = ClosesIn(w, "client")["server"]
          /\ \E n \in 0..Len(w["client"]) : wire'["client"] = SubSeq(w["client"], 1, n)
          /\ closed' = [closed EXCEPT !["client"] = TRUE]
          /\ wireEnded' = TRUE /\ farEnd' = IF farEnd = "none" THEN "lost" ELSE farEnd
          /\ UNCHANGED proxy
       \/ /\ f.k \notin Unread
          /\ wire' = w
          /\ proxy' = IF f.k = "state" /\ proxy = "opening" THEN "up" ELSE proxy
          /\ farEnd' = IF f.k = "exit" /\ farEnd = "none" THEN "exit" ELSE farEnd
          /\ UNCHANGED <<closed, wireEnded>>
    /\ UNCHANGED <<said, process, ending, cleanups, gone, session>>

LEMMA WireGoneFacts ==
    ASSUME Calls, WireGone, UNCHANGED answering
    PROVE  Calls'
<1>1. CASE wireEnded
  BY <1>1 DEF WireGone, Calls
<1>2. CASE ~wireEnded
  <2>1. calls' = [calls EXCEPT !["client"] = Rejected(calls["client"])]
    BY <1>2 DEF WireGone
  <2>2. Rejected(calls["client"]) \in Ledgers /\ "client" \in Sides
    BY LedgerFacts, RejectedType DEF Sides
  <2> QED BY <2>1, <2>2, LedgerFacts DEF Calls
<1> QED BY <1>1, <1>2

LEMMA ClientTakesFacts ==
    ASSUME SInv, NEW w \in Wires, NEW f \in ForClient, Takes("client", w, f)
    PROVE  ClientDelivered(w, f)
<1>0. ClientTakes(w, f) /\ UNCHANGED <<process, ending, cleanups, gone, session>>
  BY DEF Takes
<1>1. Calls
  BY DEF SInv, Settings
<1>2. CASE f.k \in Unread
  <2>1. /\ \E rest \in SameChunk(w["client"]) :
              wire' = [ClosesIn(w, "client") EXCEPT !["client"] = rest]
        /\ closed' = [closed EXCEPT !["client"] = TRUE]
        /\ WireGone
        /\ UNCHANGED <<answering, proxy, said>>
    BY <1>0, <1>2 DEF ClientTakes, Unread
  <2>2. PICK rest \in SameChunk(w["client"]) :
              wire' = [ClosesIn(w, "client") EXCEPT !["client"] = rest]
    BY <2>1
  <2>3. PICK n \in 0..Len(w["client"]) : rest = SubSeq(w["client"], 1, n)
    BY DEF SameChunk
  <2>4. rest \in Seq(ForClient)
    <3>1. w["client"] \in Seq(ForClient)
      BY PairFacts
    <3> QED BY <2>3, <3>1
  <2> DEFINE v == ClosesIn(w, "client")
  <2>5. v \in Wires
    BY ClosesClient
  <2> HIDE DEF v
  <2>6. /\ [v EXCEPT !["client"] = rest] \in Wires
        /\ [v EXCEPT !["client"] = rest]["client"] = rest
        /\ [v EXCEPT !["client"] = rest]["server"] = v["server"]
    BY <2>4, <2>5, PairFacts
  <2>7. wire' \in Wires /\ wire'["server"] = ClosesIn(w, "client")["server"]
        /\ wire'["client"] = SubSeq(w["client"], 1, n)
    BY <2>2, <2>3, <2>6 DEF v
  <2>8. Calls'
    BY <1>1, <2>1, WireGoneFacts
  <2>9. wireEnded' = TRUE /\ farEnd' = IF farEnd = "none" THEN "lost" ELSE farEnd
    BY <2>1 DEF WireGone
  <2> QED BY <1>0, <1>2, <2>1, <2>7, <2>8, <2>9 DEF ClientDelivered
<1>3. CASE f.k \in {"state", "emit"}
  <2>1. /\ wire' = w
        /\ proxy' = IF f.k = "state" /\ proxy = "opening" THEN "up" ELSE proxy
        /\ UNCHANGED <<closed, calls, answering, farEnd, wireEnded, said>>
    BY <1>0, <1>3 DEF ClientTakes
  <2> QED BY <1>0, <1>1, <1>3, <2>1 DEF ClientDelivered, Calls, Unread
<1>4. CASE f.k = "exit"
  <2>1. /\ wire' = w
        /\ farEnd' = IF farEnd = "none" THEN "exit" ELSE farEnd
        /\ UNCHANGED <<closed, calls, answering, proxy, wireEnded, said>>
    BY <1>0, <1>4 DEF ClientTakes
  <2> QED BY <1>0, <1>1, <1>4, <2>1 DEF ClientDelivered, Calls, Unread
<1>5. CASE f.k \in {"call", "result"}
  <2>1. /\ wire' = w
        /\ TakesCall("client", f)
        /\ UNCHANGED <<closed, proxy, farEnd, wireEnded, said>>
    BY <1>0, <1>5 DEF ClientTakes
  <2>2. Calls'
    BY <1>1, <2>1, TakesCallFacts, FrameFacts DEF Sides
  <2> QED BY <1>0, <1>5, <2>1, <2>2 DEF ClientDelivered, Unread
<1>6. f.k \in Unread \/ f.k \in {"state", "emit", "exit", "call", "result"}
  BY <1>0 DEF ClientTakes, Unread
<1> QED BY <1>2, <1>3, <1>4, <1>5, <1>6

-----------------------------------------------------------------------------
(* Types, stages and the account of the cleanup. *)

LEMMA InitSInv == Init => SInv
<1> SUFFICES ASSUME Init PROVE SInv
  OBVIOUS
<1>1. /\ <<F("init"), F("tune")>> \in Seq(ForServer) /\ <<>> \in Seq(ForServer)
      /\ <<>> \in Seq(ForClient) /\ <<>> \in Seq(Frame) /\ <<F("init"), F("tune")>> \in Seq(Frame)
  BY MadeFrames, FrameFacts
<1>2. /\ wire["server"] = <<F("init"), F("tune")>> /\ wire["client"] = <<>>
      /\ later["server"] = <<>> /\ later["client"] = <<>>
      /\ busy["server"] = <<>> /\ busy["client"] = <<>>
      /\ wire \in [Sides -> Seq(Frame)] /\ later \in [Sides -> Seq(Frame)] /\ busy \in [Sides -> Seq(Frame)]
  BY <1>1 DEF Init, Sides
<1>3. wire \in Wires /\ later \in Queues /\ busy \in Queues
  BY <1>1, <1>2 DEF Wires, Queues
<1>4. Frames
  BY <1>1, <1>2, <1>3 DEF Frames, Init
<1>5. Settings
  <2>1. Calls
    BY DEF Init, Calls, Ledgers
  <2>2. <<>> \in Seq(Nat)
    OBVIOUS
  <2> QED BY <2>1, <2>2 DEF Init, Settings
<1>6. Stages /\ Accounted
  BY <1>2 DEF Init, Stages, Accounted
<1> QED BY <1>4, <1>5, <1>6 DEF SInv

\* What is delivered at the server changes no stage.
LEMMA DeliveredKeeps ==
    ASSUME SInv, NEW f \in ForServer,
           \/ Delivered(f)
           \/ UNCHANGED <<closed, call, client, process, ending, cleanups, gone, session>>,
           garbled' \in BOOLEAN, UNCHANGED <<cut, slot, served, accept>>
    PROVE  /\ Settings' /\ Accounted' /\ session' = session
           /\ tuned' => tuned \/ Recorded
<1>1. Settings /\ Accounted
  BY DEF SInv
<1>2. UNCHANGED <<reactor, live, awaited>> /\ UNCHANGED <<cut, slot, served>>
  BY DEF accept
<1>3. CASE Delivered(f)
  <2>1. /\ Calls' /\ askedStop' \in BOOLEAN /\ tuned' \in BOOLEAN
        /\ heard' = IF f.k = "say" THEN Append(heard, f.n) ELSE heard
        /\ tuned' => tuned \/ Recorded
        /\ UNCHANGED <<closed, proc, emits, gone, session>>
        /\ UNCHANGED <<proxy, farEnd, wireEnded, said>>
    BY <1>3 DEF Delivered, client
  <2>2. /\ ending' \in {"no", "running", "done", "failed"} /\ cleanups' \in Nat
        /\ cleanups' = (IF ending' = "no" THEN 0 ELSE 1)
        /\ ending = "no" \/ ending' = ending
    BY <1>1, <1>3, EndFacts DEF Delivered
  <2>3. heard' \in Seq(Nat)
    <3>1. heard \in Seq(Nat) /\ f.n \in Nat
      BY <1>1, FrameFacts DEF Settings
    <3> QED BY <2>1, <3>1
  <2>4. Settings'
    BY <1>1, <1>2, <2>1, <2>2, <2>3 DEF Settings
  <2>5. Accounted'
    BY <1>1, <1>2, <2>1, <2>2 DEF Accounted
  <2> QED BY <2>1, <2>4, <2>5
<1>4. CASE UNCHANGED <<closed, call, client, process, ending, cleanups, gone, session>>
  <2>1. UNCHANGED <<closed, calls, answering, proxy, farEnd, wireEnded, said, proc, askedStop,
                    tuned, heard, emits, ending, cleanups, gone, session>>
    BY <1>4 DEF call, client, process
  <2>2. Settings'
    BY <1>1, <1>2, <2>1 DEF Settings, Calls
  <2>3. Accounted'
    BY <1>1, <1>2, <2>1 DEF Accounted
  <2> QED BY <2>1, <2>2, <2>3
<1> QED BY <1>3, <1>4

LEMMA ClientDeliveredKeeps ==
    ASSUME SInv, NEW w \in Wires, NEW f \in ForClient, ClientDelivered(w, f),
           garbled' \in BOOLEAN, UNCHANGED <<cut, slot, served, accept>>
    PROVE  Settings' /\ Accounted' /\ UNCHANGED <<session, tuned>>
<1>1. Settings /\ Accounted
  BY DEF SInv
<1>2. UNCHANGED <<reactor, live, awaited>> /\ UNCHANGED <<cut, slot, served>>
  BY DEF accept
<1>3. Calls' /\ UNCHANGED <<said, ending, cleanups, gone, session>>
      /\ UNCHANGED <<proc, askedStop, tuned, heard, emits>>
  BY DEF ClientDelivered, process
<1>4. closed' \in [Sides -> BOOLEAN] /\ wireEnded' \in BOOLEAN
      /\ farEnd' \in {"none", "exit", "lost"} /\ proxy' \in {"opening", "up", "stopping", "ended", "over"}
  BY <1>1 DEF ClientDelivered, Settings
<1>5. Settings'
  BY <1>1, <1>2, <1>3, <1>4 DEF Settings
<1>6. Accounted'
  BY <1>1, <1>2, <1>3 DEF Accounted
<1> QED BY <1>3, <1>5, <1>6

\* A frame is taken off the wire.
LEMMA ArrivedFacts ==
    ASSUME SInv
    PROVE  /\ wire["server"] # <<>> =>
                 /\ Arrived("server") \in Wires /\ Head(wire["server"]) \in ForServer
                 /\ Arrived("server")["server"] = Tail(wire["server"])
                 /\ Arrived("server")["client"] = wire["client"]
           /\ wire["client"] # <<>> =>
                 /\ Arrived("client") \in Wires /\ Head(wire["client"]) \in ForClient
                 /\ Arrived("client")["client"] = Tail(wire["client"])
                 /\ Arrived("client")["server"] = wire["server"]
<1>1. /\ wire \in Wires
      /\ wire["server"] \in Seq(ForServer) /\ wire["client"] \in Seq(ForClient)
  BY PairFacts DEF SInv, Frames
<1>2. /\ Arrived("server") = [wire EXCEPT !["server"] = Tail(wire["server"])]
      /\ Arrived("client") = [wire EXCEPT !["client"] = Tail(wire["client"])]
  BY DEF Arrived
<1>3. wire["server"] # <<>> => Head(wire["server"]) \in ForServer /\ Tail(wire["server"]) \in Seq(ForServer)
  BY <1>1
<1>4. wire["client"] # <<>> => Head(wire["client"]) \in ForClient /\ Tail(wire["client"]) \in Seq(ForClient)
  BY <1>1
<1> DEFINE t == Tail(wire["server"])
           u == Tail(wire["client"])
<1> HIDE DEF t, u
<1>5. t \in Seq(ForServer) =>
         /\ [wire EXCEPT !["server"] = t] \in Wires
         /\ [wire EXCEPT !["server"] = t]["server"] = t
         /\ [wire EXCEPT !["server"] = t]["client"] = wire["client"]
  BY <1>1, PairFacts
<1>6. u \in Seq(ForClient) =>
         /\ [wire EXCEPT !["client"] = u] \in Wires
         /\ [wire EXCEPT !["client"] = u]["client"] = u
         /\ [wire EXCEPT !["client"] = u]["server"] = wire["server"]
  BY <1>1, PairFacts
<1> QED BY <1>2, <1>3, <1>4, <1>5, <1>6 DEF t, u

\* What arrives at the server is collected, dropped, taken or put in line.
Gets(s, f) ==
    /\ wire[s] # <<>> /\ Receives(s, f)
    /\ \/ f = Head(wire[s]) /\ UNCHANGED garbled
       \/ f = F("bad") /\ garbled' = TRUE
    /\ f.k \notin {"ask", "octets", "fin"}
    /\ UNCHANGED <<cut, slot, served, accept>>

LEMMA FrameGets ==
    ASSUME SInv
    PROVE  /\ FrameArrives("server") => \E f \in ForServer : Gets("server", f)
           /\ FrameArrives("client") => \E f \in ForClient : Gets("client", f)
<1>1. F("bad") \in ForServer /\ F("bad") \in ForClient /\ F("bad").k = "bad"
  BY MadeFrames, MadeKinds
<1>2. ASSUME NEW s \in Sides, FrameArrives(s)
      PROVE  wire[s] # <<>> /\ (Gets(s, Head(wire[s])) \/ Gets(s, F("bad")))
  BY <1>1, <1>2 DEF FrameArrives, Gets
<1> QED BY <1>1, <1>2, ArrivedFacts DEF Sides

\* The four ways the server takes it.
Collects(f) ==
    /\ Collecting /\ waiting' = Append(waiting, f)
    /\ wire' = Arrived("server") /\ UNCHANGED <<later, busy>>
    /\ UNCHANGED <<closed, call, client, process, ending, cleanups, gone, session>>
Ignores ==
    /\ session = "refused" /\ UNCHANGED waiting
    /\ wire' = Arrived("server") /\ UNCHANGED <<later, busy>>
    /\ UNCHANGED <<closed, call, client, process, ending, cleanups, gone, session>>
Begins(f) ==
    /\ ~Collecting /\ session # "refused"
    /\ busy["server"] = <<>> /\ later["server"] = <<>>
    /\ Start("server", Arrived("server"), f) /\ UNCHANGED <<later, waiting>>
PutsInLine(f) ==
    /\ ~Collecting /\ session # "refused"
    /\ later' = [later EXCEPT !["server"] = Append(later["server"], f)]
    /\ wire' = Arrived("server") /\ UNCHANGED <<busy, waiting>>
    /\ UNCHANGED <<closed, call, client, process, ending, cleanups, gone, session>>

LEMMA ReceivesServer ==
    ASSUME NEW f, Receives("server", f)
    PROVE  Collects(f) \/ Ignores \/ Begins(f) \/ PutsInLine(f)
  BY DEF Receives, Collects, Ignores, Begins, PutsInLine, Collecting, queue

\* The client takes it at once.
LEMMA ReceivesClient ==
    ASSUME SInv, NEW f \in ForClient, Receives("client", f)
    PROVE  /\ Takes("client", Arrived("client"), f)
           /\ UNCHANGED <<later, busy, waiting>>
<1>1. busy["client"] = <<>> /\ later["client"] = <<>>
  BY PairFacts DEF SInv, Frames
<1>2. f.class = "plain"
  BY FrameFacts
<1> QED BY <1>1, <1>2 DEF Receives, Start

\* Frames are taken from a queue of the server.
LEMMA StartServerKeeps ==
    ASSUME SInv, NEW w \in Wires, NEW f \in ForServer, Start("server", w, f),
           session \notin Early, busy["server"] = <<>>,
           garbled' \in BOOLEAN, UNCHANGED <<cut, slot, served, accept>>
    PROVE  /\ wire' \in Wires /\ busy' \in Queues /\ Len(busy'["server"]) <= 1
           /\ Settings' /\ Accounted' /\ session' = session
           /\ tuned' => tuned \/ Recorded
<1>1. Replies(w, f) /\
      \/ Delivered(f) /\ UNCHANGED busy
      \/ /\ f.k = "say" /\ busy' = [busy EXCEPT !["server"] = <<f>>]
         /\ UNCHANGED <<closed, call, client, process, ending, cleanups, gone, session>>
  BY StartServer
<1>2. busy \in Queues /\ <<f>> \in Seq(ForServer) /\ Len(<<f>>) = 1
  BY DEF SInv, Frames
<1> DEFINE fs == <<f>>
<1> HIDE DEF fs
<1>6. [busy EXCEPT !["server"] = fs] \in Queues /\ [busy EXCEPT !["server"] = fs]["server"] = fs
      /\ Len(fs) = 1
  BY <1>2, PairFacts DEF fs
<1>3. busy' \in Queues /\ Len(busy'["server"]) <= 1
  <2>1. CASE UNCHANGED busy
    BY <1>2, <2>1 DEF SInv, Frames
  <2>2. CASE busy' = [busy EXCEPT !["server"] = <<f>>]
    BY <1>6, <2>2 DEF fs
  <2> QED BY <1>1, <2>1, <2>2
<1>4. wire' \in Wires
  BY <1>1 DEF Replies
<1>5. /\ Settings' /\ Accounted' /\ session' = session
      /\ tuned' => tuned \/ Recorded
  BY <1>1, DeliveredKeeps
<1> QED BY <1>3, <1>4, <1>5

LEMMA ArrivesServerS ==
    ASSUME SInv, FrameArrives("server")
    PROVE  SInv'
<1>0. wire \in Wires /\ later \in Queues /\ busy \in Queues /\ waiting \in Seq(ForServer)
      /\ Len(busy["server"]) <= 1 /\ later["server"] \in Seq(ForServer)
  BY PairFacts DEF SInv, Frames
<1>1. session # "offered"
  BY DEF FrameArrives
<1>2. PICK f \in ForServer : Gets("server", f)
  BY FrameGets
<1>3. garbled' \in BOOLEAN /\ UNCHANGED <<cut, slot, served, accept>>
  BY <1>2 DEF Gets, SInv, Settings
<1>4. Arrived("server") \in Wires
  BY <1>2, ArrivedFacts DEF Gets
<1>5. UNCHANGED live
  BY <1>3 DEF accept
<1>6. CASE Collects(f) \/ Ignores
  <2>1. /\ wire' = Arrived("server") /\ UNCHANGED <<later, busy>>
        /\ waiting' \in {waiting, Append(waiting, f)}
        /\ session \in {"init", "making", "readying", "refused"}
        /\ UNCHANGED <<closed, call, client, process, ending, cleanups, gone, session>>
    BY <1>6 DEF Collects, Ignores, Collecting
  <2>2. Settings' /\ Accounted' /\ session' = session /\ tuned' = tuned
    BY <1>3, <2>1, DeliveredKeeps DEF process
  <2>3. Append(waiting, f) \in Seq(ForServer)
    BY <1>0
  <2>4. Frames'
    BY <1>0, <1>4, <2>1, <2>3 DEF Frames
  <2>5. Stages'
    BY <1>3, <1>5, <2>1, <2>2 DEF SInv, Stages
  <2> QED BY <2>2, <2>4, <2>5 DEF SInv
<1>7. CASE Begins(f)
  <2>1. session \notin Early
    BY <1>1, <1>7 DEF Begins, Collecting, Early
  <2>2. /\ Start("server", Arrived("server"), f) /\ busy["server"] = <<>>
        /\ UNCHANGED <<later, waiting>>
    BY <1>7 DEF Begins
  <2>3. /\ wire' \in Wires /\ busy' \in Queues /\ Len(busy'["server"]) <= 1
        /\ Settings' /\ Accounted' /\ session' = session
        /\ tuned' => tuned \/ Recorded
    BY <1>3, <1>4, <2>1, <2>2, StartServerKeeps
  <2>4. Frames'
    BY <1>0, <2>2, <2>3 DEF Frames
  <2>5. Stages'
    BY <1>5, <2>1, <2>2, <2>3 DEF SInv, Stages
  <2> QED BY <2>3, <2>4, <2>5 DEF SInv
<1>8. CASE PutsInLine(f)
  <2>1. session \notin Early
    BY <1>1, <1>8 DEF PutsInLine, Collecting, Early
  <2>2. /\ later' = [later EXCEPT !["server"] = Append(later["server"], f)]
        /\ wire' = Arrived("server") /\ UNCHANGED <<busy, waiting>>
        /\ UNCHANGED <<closed, call, client, process, ending, cleanups, gone, session>>
    BY <1>8 DEF PutsInLine
  <2>3. Settings' /\ Accounted' /\ session' = session
    BY <1>3, <2>2, DeliveredKeeps
  <2>4. Append(later["server"], f) \in Seq(ForServer)
    BY <1>0
  <2> DEFINE fs == Append(later["server"], f)
  <2> HIDE DEF fs
  <2>5. later' \in Queues
    BY <1>0, <2>2, <2>4, PairFacts DEF fs
  <2>6. Frames'
    BY <1>0, <1>4, <2>2, <2>5 DEF Frames
  <2>7. Stages'
    BY <1>5, <2>1, <2>2, <2>3 DEF SInv, Stages
  <2> QED BY <2>3, <2>6, <2>7 DEF SInv
<1> QED BY <1>2, <1>6, <1>7, <1>8, ReceivesServer DEF Gets

LEMMA ArrivesClientS ==
    ASSUME SInv, FrameArrives("client")
    PROVE  SInv'
<1>2. PICK f \in ForClient : Gets("client", f)
  BY FrameGets
<1>3. garbled' \in BOOLEAN /\ UNCHANGED <<cut, slot, served, accept>>
  BY <1>2 DEF Gets, SInv, Settings
<1>4. Arrived("client") \in Wires
  BY <1>2, ArrivedFacts DEF Gets
<1>5. /\ Takes("client", Arrived("client"), f)
      /\ UNCHANGED <<later, busy, waiting>>
  BY <1>2, ReceivesClient DEF Gets
<1>6. ClientDelivered(Arrived("client"), f)
  BY <1>4, <1>5, ClientTakesFacts
<1>7. Settings' /\ Accounted' /\ UNCHANGED <<session, tuned>>
  BY <1>3, <1>4, <1>6, ClientDeliveredKeeps
<1>8. Frames'
  BY <1>5, <1>6 DEF SInv, Frames, ClientDelivered
<1>9. Stages'
  BY <1>3, <1>5, <1>7 DEF SInv, Stages, accept
<1> QED BY <1>7, <1>8, <1>9 DEF SInv

LEMMA PumpS ==
    ASSUME SInv, NEW s \in Sides, Pump(s)
    PROVE  /\ s = "server" /\ session \notin Early
           /\ busy["server"] = <<>> /\ Head(later["server"]) \in ForServer
           /\ Start("server", wire, Head(later["server"]))
           /\ later' \in Queues /\ later'["server"] = Tail(later["server"])
           /\ SInv'
<1>0. wire \in Wires /\ later \in Queues /\ waiting \in Seq(ForServer)
      /\ later["server"] \in Seq(ForServer) /\ later["client"] = <<>>
  BY PairFacts DEF SInv, Frames
<1>1. s = "server"
  BY <1>0 DEF Pump, Sides
<1>2. /\ busy["server"] = <<>> /\ later["server"] # <<>>
      /\ later' = [later EXCEPT !["server"] = Tail(later["server"])]
      /\ Start("server", wire, Head(later["server"]))
      /\ UNCHANGED <<cut, garbled, waiting, slot, served, accept>>
  BY <1>1 DEF Pump
<1> DEFINE t == Tail(later["server"])
           f == Head(later["server"])
<1>3. f \in ForServer /\ t \in Seq(ForServer)
  BY <1>0, <1>2
<1> HIDE DEF t, f
<1>4. later' \in Queues /\ later'["server"] = t
  BY <1>0, <1>2, <1>3, PairFacts DEF t
<1>5. session \notin Early
  BY <1>2 DEF SInv, Stages
<1>6. garbled' \in BOOLEAN /\ UNCHANGED live
  BY <1>2 DEF SInv, Settings, accept
<1>7. /\ wire' \in Wires /\ busy' \in Queues /\ Len(busy'["server"]) <= 1
      /\ Settings' /\ Accounted' /\ session' = session
  BY <1>0, <1>2, <1>3, <1>5, <1>6, StartServerKeeps DEF f
<1>8. Frames'
  BY <1>0, <1>2, <1>4, <1>7 DEF Frames
<1>9. Stages'
  BY <1>2, <1>5, <1>6, <1>7 DEF SInv, Stages
<1> QED BY <1>1, <1>2, <1>3, <1>4, <1>5, <1>7, <1>8, <1>9 DEF SInv, t, f

LEMMA OctetsArriveS ==
    ASSUME SInv, OctetsArrive
    PROVE  /\ session \notin Early
           /\ busy["server"] # <<>> /\ Head(busy["server"]) \in ForServer
           /\ wire["server"] # <<>> /\ Head(wire["server"]).k = "octets"
           /\ Delivered(Head(busy["server"]))
           /\ Replies(Arrived("server"), Head(busy["server"]))
           /\ busy' \in Queues /\ busy'["server"] = <<>>
           /\ SInv'
<1> DEFINE f == Head(busy["server"])
<1>0. wire \in Wires /\ later \in Queues /\ waiting \in Seq(ForServer) /\ busy \in Queues
      /\ busy["server"] \in Seq(ForServer) /\ <<>> \in Seq(ForServer) /\ Len(<<>>) = 0
  BY PairFacts DEF SInv, Frames
<1>1. /\ busy["server"] # <<>> /\ wire["server"] # <<>> /\ Head(wire["server"]).k = "octets"
      /\ busy' = [busy EXCEPT !["server"] = <<>>]
      /\ Takes("server", Arrived("server"), f)
      /\ UNCHANGED <<cut, garbled, later, waiting, slot, served, accept>>
  BY DEF OctetsArrive
<1>2. f \in ForServer
  BY <1>0, <1>1
<1> HIDE DEF f
<1>3. busy' \in Queues /\ busy'["server"] = <<>>
  BY <1>0, <1>1, PairFacts
<1>4. Arrived("server") \in Wires
  BY <1>1, ArrivedFacts
<1>5. ServerTakes(Arrived("server"), f)
  BY <1>1 DEF Takes
<1>6. Delivered(f) /\ Replies(Arrived("server"), f)
  BY <1>2, <1>4, <1>5, ServerTakesFacts
<1>7. garbled' \in BOOLEAN /\ UNCHANGED <<cut, slot, served, accept>> /\ UNCHANGED live
  BY <1>1 DEF SInv, Settings, accept
<1>8. Settings' /\ Accounted' /\ session' = session
  BY <1>2, <1>6, <1>7, DeliveredKeeps
<1>9. session \notin Early
  BY <1>1 DEF SInv, Stages
<1>10. Frames'
  BY <1>0, <1>1, <1>3, <1>6 DEF Frames, Replies
<1>11. Stages'
  BY <1>1, <1>7, <1>8, <1>9 DEF SInv, Stages
<1> QED BY <1>1, <1>2, <1>3, <1>6, <1>8, <1>9, <1>10, <1>11 DEF SInv, f

\* The steps that neither send nor read.
LEMMA AcceptS == ASSUME SInv, Accept PROVE SInv'
<1>1. Frames'
  BY DEF SInv, Frames, Accept, link, queue, server
<1>2. Settings'
  BY SessionAssumption DEF SInv, Settings, Calls, Accept, link, call, client, process, server, accept
<1>3. Stages'
  BY DEF SInv, Stages, Early, Accept, queue, process, server, accept
<1>4. Accounted'
  BY SessionAssumption DEF SInv, Accounted, Stages, Early, Settings, Accept, server, accept
<1> QED BY <1>1, <1>2, <1>3, <1>4 DEF SInv

LEMMA MakeS == ASSUME SInv, Make PROVE SInv'
<1>1. Frames'
  BY DEF SInv, Frames, Make, link, queue, server
<1>2. Settings'
  BY SessionAssumption DEF SInv, Settings, Calls, Make, link, call, client, process, server, accept
<1>3. Stages'
  BY DEF SInv, Stages, Early, Make, queue, process, server, accept
<1>4. Accounted'
  BY SessionAssumption DEF SInv, Accounted, Stages, Early, Settings, Make, server, accept
<1> QED BY <1>1, <1>2, <1>3, <1>4 DEF SInv

LEMMA MakeFailsS == ASSUME SInv, MakeFails PROVE SInv'
<1>1. Frames'
  BY DEF SInv, Frames, MakeFails, link, queue, server
<1>2. Settings'
  BY SessionAssumption DEF SInv, Settings, Calls, MakeFails, link, call, client, process, server, accept
<1>3. Stages'
  BY DEF SInv, Stages, Early, MakeFails, queue, process, server, accept
<1>4. Accounted'
  BY SessionAssumption DEF SInv, Accounted, Stages, Early, Settings, MakeFails, server, accept
<1> QED BY <1>1, <1>2, <1>3, <1>4 DEF SInv

LEMMA ReadyFailsS == ASSUME SInv, ReadyFails PROVE SInv'
<1>1. Frames'
  BY DEF SInv, Frames, ReadyFails, link, queue
<1>2. Settings'
  BY SessionAssumption DEF SInv, Settings, Calls, ReadyFails, link, call, client, accept
<1>3. Stages'
  BY DEF SInv, Stages, Early, ReadyFails, queue, accept
<1>4. Accounted'
  BY SessionAssumption DEF SInv, Accounted, Stages, Early, Settings, ReadyFails, accept
<1> QED BY <1>1, <1>2, <1>3, <1>4 DEF SInv

LEMMA RaceSettlesS == ASSUME SInv, RaceSettles PROVE SInv'
<1>5. /\ ending' \in {"no", "running", "done", "failed"} /\ cleanups' \in Nat
      /\ cleanups' = (IF ending' = "no" THEN 0 ELSE 1)
      /\ ending = "no" \/ ending' = ending
  BY EndFacts DEF SInv, RaceSettles
<1>1. Frames'
  BY DEF SInv, Frames, RaceSettles, link, queue, server
<1>2. Settings'
  BY <1>5, SessionAssumption DEF SInv, Settings, Calls, RaceSettles, link, call, client, process, server, accept
<1>3. Stages'
  BY DEF SInv, Stages, Early, RaceSettles, queue, process, server, accept
<1>4. Accounted'
  BY <1>5, SessionAssumption DEF SInv, Accounted, Stages, Early, Settings, RaceSettles, server, accept
<1> QED BY <1>1, <1>2, <1>3, <1>4 DEF SInv

LEMMA CleanupDoneS == ASSUME SInv, CleanupDone PROVE SInv'
<1>1. Frames'
  BY DEF SInv, Frames, CleanupDone, link, queue, server
<1>2. Settings'
  BY SessionAssumption DEF SInv, Settings, Calls, CleanupDone, link, call, client, process, server, accept
<1>3. Stages'
  BY DEF SInv, Stages, Early, CleanupDone, queue, process, server, accept
<1>4. Accounted'
  BY SessionAssumption DEF SInv, Accounted, Stages, Early, Settings, CleanupDone, server, accept
<1> QED BY <1>1, <1>2, <1>3, <1>4 DEF SInv

LEMMA CleanupFailedS == ASSUME SInv, CleanupFailed PROVE SInv'
<1>1. Frames'
  BY DEF SInv, Frames, CleanupFailed, link, queue, server
<1>2. Settings'
  <2>1. session' = "failed" /\ live' = FALSE
        /\ UNCHANGED <<closed, cut, garbled, calls, answering, proxy, farEnd, wireEnded, said,
                       proc, askedStop, tuned, heard, emits>>
        /\ UNCHANGED <<slot, served, ending, cleanups, gone, reactor, awaited>>
    BY DEF CleanupFailed, link, call, client, process
  <2>2. live' \in BOOLEAN
    BY <2>1
  <2>3. Calls'
    BY <2>1 DEF SInv, Settings, Calls
  <2> QED BY <2>1, <2>2, <2>3 DEF SInv, Settings
<1>3. Stages'
  <2>1. session = "ending" /\ session' = "failed" /\ live' = FALSE /\ waiting' = waiting
    BY DEF CleanupFailed
  <2> QED BY <2>1 DEF SInv, Stages, Early
<1>4. Accounted'
  BY SessionAssumption DEF SInv, Accounted, Stages, Early, Settings, CleanupFailed, server, accept
<1> QED BY <1>1, <1>2, <1>3, <1>4 DEF SInv

LEMMA ProcEndsS == ASSUME SInv, ProcEnds PROVE SInv'
<1>1. Frames'
  BY DEF SInv, Frames, ProcEnds, link, queue, server
<1>2. Settings'
  BY SessionAssumption DEF SInv, Settings, Calls, ProcEnds, link, call, client, process, server, accept
<1>3. Stages'
  BY DEF SInv, Stages, Early, ProcEnds, queue, process, server, accept
<1>4. Accounted'
  BY SessionAssumption DEF SInv, Accounted, Stages, Early, Settings, ProcEnds, server, accept
<1> QED BY <1>1, <1>2, <1>3, <1>4 DEF SInv

LEMMA ProxyStopsS == ASSUME SInv, ProxyStops PROVE SInv'
<1>1. Frames'
  BY DEF SInv, Frames, ProxyStops, link, queue, server
<1>2. Settings'
  BY SessionAssumption DEF SInv, Settings, Calls, ProxyStops, link, call, client, process, server, accept
<1>3. Stages'
  BY DEF SInv, Stages, Early, ProxyStops, queue, process, server, accept
<1>4. Accounted'
  BY SessionAssumption DEF SInv, Accounted, Stages, Early, Settings, ProxyStops, server, accept
<1> QED BY <1>1, <1>2, <1>3, <1>4 DEF SInv

LEMMA ProxyLostS == ASSUME SInv, ProxyLost PROVE SInv'
<1>1. Frames'
  BY DEF SInv, Frames, ProxyLost, link, queue, server
<1>2. Settings'
  BY SessionAssumption DEF SInv, Settings, Calls, ProxyLost, link, call, client, process, server, accept
<1>3. Stages'
  BY DEF SInv, Stages, Early, ProxyLost, queue, process, server, accept
<1>4. Accounted'
  BY SessionAssumption DEF SInv, Accounted, Stages, Early, Settings, ProxyLost, server, accept
<1> QED BY <1>1, <1>2, <1>3, <1>4 DEF SInv

LEMMA StopReactorS == ASSUME SInv, StopReactor PROVE SInv'
<1>1. Frames'
  BY DEF SInv, Frames, StopReactor, link, queue, server
<1>2. Settings'
  BY SessionAssumption DEF SInv, Settings, Calls, StopReactor, link, call, client, process, server, accept
<1>3. Stages'
  BY DEF SInv, Stages, Early, StopReactor, queue, process, server, accept
<1>4. Accounted'
  BY SessionAssumption DEF SInv, Accounted, Stages, Early, Settings, StopReactor, server, accept
<1> QED BY <1>1, <1>2, <1>3, <1>4 DEF SInv

LEMMA ReactorEndsS == ASSUME SInv, ReactorEnds PROVE SInv'
<1>5. /\ ending' \in {"no", "running", "done", "failed"} /\ cleanups' \in Nat
      /\ cleanups' = (IF ending' = "no" THEN 0 ELSE 1)
      /\ ending = "no" \/ ending' = ending
  BY EndFacts DEF SInv, ReactorEnds
<1>1. Frames'
  BY DEF SInv, Frames, ReactorEnds, link, queue, server
<1>2. Settings'
  BY <1>5, SessionAssumption DEF SInv, Settings, Calls, ReactorEnds, link, call, client, process, server, accept
<1>3. Stages'
  BY DEF SInv, Stages, Early, ReactorEnds, queue, process, server, accept
<1>4. Accounted'
  BY <1>5, SessionAssumption DEF SInv, Accounted, Stages, Early, Settings, ReactorEnds, server, accept
<1> QED BY <1>1, <1>2, <1>3, <1>4 DEF SInv

LEMMA ReactorStoppedS == ASSUME SInv, ReactorStopped PROVE SInv'
<1>1. Frames'
  BY DEF SInv, Frames, ReactorStopped, link, queue, server
<1>2. Settings'
  BY SessionAssumption DEF SInv, Settings, Calls, ReactorStopped, link, call, client, process, server, accept
<1>3. Stages'
  BY DEF SInv, Stages, Early, ReactorStopped, queue, process, server, accept
<1>4. Accounted'
  BY SessionAssumption DEF SInv, Accounted, Stages, Early, Settings, ReactorStopped, server, accept
<1> QED BY <1>1, <1>2, <1>3, <1>4 DEF SInv

\* The steps that read or write the wire.
LEMMA CloseArrivesS ==
    ASSUME SInv, NEW s \in Sides, CloseArrives(s)
    PROVE  /\ wire' \in Wires /\ wire'[s] = <<>>
           /\ wire'[Other(s)] = wire[Other(s)]
           /\ SInv'
<1>0. wire \in Wires /\ <<>> \in Seq(ForServer) /\ <<>> \in Seq(ForClient)
  BY DEF SInv, Frames
<1>1. /\ closed' = [closed EXCEPT ![s] = TRUE]
      /\ wire' = [wire EXCEPT ![s] = <<>>]
      /\ UNCHANGED <<cut, garbled, later, busy, answering, proxy, said, proc, askedStop, tuned,
                     heard, emits, waiting, slot, served, reactor, live, awaited>>
  BY DEF CloseArrives, queue, process, accept
<1>2. \/ s = "server" /\ ServerHearsClose /\ UNCHANGED <<calls, farEnd, wireEnded>>
      \/ s = "client" /\ WireGone /\ UNCHANGED <<gone, ending, cleanups, session>>
  BY DEF CloseArrives
<1>3. wire' \in Wires /\ wire'[s] = <<>> /\ wire'[Other(s)] = wire[Other(s)]
  <2> DEFINE e == <<>>
             u == [wire EXCEPT !["server"] = e]
             v == [wire EXCEPT !["client"] = e]
  <2>1. e \in Seq(ForServer) /\ e \in Seq(ForClient)
    BY <1>0
  <2> HIDE DEF e
  <2>2. u \in Wires /\ u["server"] = e /\ u["client"] = wire["client"]
    BY <1>0, <2>1, PairFacts
  <2>4. v \in Wires /\ v["client"] = e /\ v["server"] = wire["server"]
    BY <1>0, <2>1, PairFacts
  <2>3. \/ s = "server" /\ wire' = u /\ Other(s) = "client"
        \/ s = "client" /\ wire' = v /\ Other(s) = "server"
    BY <1>1 DEF Sides, Other, e
  <2> HIDE DEF u, v
  <2> QED BY <2>2, <2>3, <2>4 DEF e
<1>4. Frames'
  BY <1>1, <1>3 DEF SInv, Frames
<1>5. closed' \in [Sides -> BOOLEAN]
  BY <1>1 DEF SInv, Settings
<1>6. CASE s = "server"
  <2>1. ServerHearsClose /\ UNCHANGED <<calls, farEnd, wireEnded>>
    BY <1>2, <1>6
  <2>2. Calls'
    BY <1>1, <2>1 DEF SInv, Settings, Calls
  <2>3. /\ ending' \in {"no", "running", "done", "failed"} /\ cleanups' \in Nat
        /\ cleanups' = (IF ending' = "no" THEN 0 ELSE 1)
        /\ ending = "no" \/ ending' = ending
    BY <2>1, EndFacts DEF SInv, ServerHearsClose
  <2>4. /\ \/ session' = session
           \/ session = "init" /\ session' = "refused"
        /\ gone' \in BOOLEAN
    BY <2>1 DEF ServerHearsClose, SInv, Settings
  <2>5. Settings'
    BY <1>1, <1>5, <2>1, <2>2, <2>3, <2>4 DEF SInv, Settings
  <2>6. Stages'
    BY <1>1, <2>4 DEF SInv, Stages, Early
  <2>7. Accounted'
    BY <1>1, <2>3, <2>4 DEF SInv, Settings, Accounted
  <2> QED BY <1>3, <1>4, <2>5, <2>6, <2>7 DEF SInv
<1>7. CASE s = "client"
  <2>1. WireGone /\ UNCHANGED <<gone, ending, cleanups, session>>
    BY <1>2, <1>7
  <2>2. Calls'
    BY <1>1, <2>1, WireGoneFacts DEF SInv, Settings
  <2>3. wireEnded' \in BOOLEAN /\ farEnd' \in {"none", "exit", "lost"}
    BY <2>1 DEF WireGone, SInv, Settings
  <2>5. Settings'
    BY <1>1, <1>5, <2>1, <2>2, <2>3 DEF SInv, Settings
  <2>6. Stages' /\ Accounted'
    BY <1>1, <2>1 DEF SInv, Stages, Early, Accounted
  <2> QED BY <1>3, <1>4, <2>5, <2>6 DEF SInv
<1> QED BY <1>6, <1>7 DEF Sides

\* A step that only writes: SInv asks nothing of the wire but its type.
LEMMA WiresKeep ==
    ASSUME SInv, wire' \in Wires, UNCHANGED <<closed, cut, garbled, queue, client, process, server, accept>>,
           Calls'
    PROVE  SInv'
<1>1. /\ UNCHANGED <<closed, cut, garbled, later, busy, proxy, farEnd, wireEnded, said>>
      /\ UNCHANGED <<proc, askedStop, tuned, heard, emits>>
      /\ UNCHANGED <<session, waiting, slot, served, ending, cleanups, gone, reactor, live, awaited>>
  BY DEF queue, client, process, server, accept
<1>2. Frames'
  BY <1>1 DEF SInv, Frames
<1>3. Settings'
  BY <1>1 DEF SInv, Settings
<1>4. Stages' /\ Accounted'
  BY <1>1 DEF SInv, Stages, Accounted
<1> QED BY <1>2, <1>3, <1>4 DEF SInv

LEMMA OctetsAskedS ==
    ASSUME SInv, OctetsAsked
    PROVE  /\ wire["client"] # <<>> /\ Head(wire["client"]).k = "ask"
           /\ wire' \in Wires /\ wire'["client"] = Tail(wire["client"])
           /\ \/ wire'["server"] = wire["server"]
              \/ wire'["server"] = Append(wire["server"], F("octets"))
           /\ SInv'
<1>1. /\ wire["client"] # <<>> /\ Head(wire["client"]).k = "ask"
      /\ wire' = IF wireEnded THEN Arrived("client")
                 ELSE Sent(Arrived("client"), "client", F("octets"))
      /\ UNCHANGED <<closed, cut, garbled, queue, call, client, process, server, accept>>
  BY DEF OctetsAsked
<1> DEFINE w == Arrived("client")
<1>2. w \in Wires /\ w["client"] = Tail(wire["client"]) /\ w["server"] = wire["server"]
  BY <1>1, ArrivedFacts
<1> HIDE DEF w
<1>3. F("octets") \in ForServer
  BY MadeFrames
<1>4. /\ wire' \in Wires /\ wire'["client"] = Tail(wire["client"])
      /\ \/ wire'["server"] = wire["server"]
         \/ wire'["server"] = Append(wire["server"], F("octets"))
  <2>1. CASE wireEnded
    BY <1>1, <1>2, <2>1 DEF w
  <2>2. CASE ~wireEnded
    BY <1>1, <1>2, <1>3, <2>2, SentClient DEF w
  <2> QED BY <2>1, <2>2
<1>5. Calls'
  BY <1>1 DEF SInv, Settings, Calls, call
<1>6. SInv'
  BY <1>1, <1>4, <1>5, WiresKeep
<1> QED BY <1>1, <1>4, <1>6

LEMMA CutS ==
    ASSUME SInv, Cut
    PROVE  /\ cut' = TRUE
           /\ \A s \in Sides : wire'[s] = IF closed[s] THEN <<>> ELSE <<F("fin")>>
           /\ SInv'
<1>1. /\ cut' = TRUE
      /\ wire' = [s \in Sides |-> IF closed[s] THEN <<>> ELSE <<F("fin")>>]
      /\ UNCHANGED <<closed, garbled, queue, call, client, process, server, accept>>
  BY DEF Cut
<1>2. F("fin") \in ForServer /\ F("fin") \in ForClient
  BY MadeFrames
<1>3. /\ <<>> \in Seq(ForServer) /\ <<F("fin")>> \in Seq(ForServer)
      /\ <<>> \in Seq(ForClient) /\ <<F("fin")>> \in Seq(ForClient)
      /\ <<>> \in Seq(Frame) /\ <<F("fin")>> \in Seq(Frame)
  BY <1>2, FrameFacts
<1>4. \A s \in Sides : wire'[s] = IF closed[s] THEN <<>> ELSE <<F("fin")>>
  BY <1>1
<1>5. wire' \in [Sides -> Seq(Frame)]
  BY <1>1, <1>3
<1>6. wire' \in Wires
  BY <1>3, <1>4, <1>5 DEF Wires, Sides
<1>7. /\ UNCHANGED <<closed, garbled, later, busy, calls, answering, proxy, farEnd, wireEnded, said>>
      /\ UNCHANGED <<proc, askedStop, tuned, heard, emits>>
      /\ UNCHANGED <<session, waiting, slot, served, ending, cleanups, gone, reactor, live, awaited>>
  BY <1>1 DEF queue, call, client, process, server, accept
<1>8. Frames'
  BY <1>6, <1>7 DEF SInv, Frames
<1>9. cut' \in BOOLEAN /\ Calls'
  BY <1>1, <1>7 DEF SInv, Settings, Calls
<1>10. Settings'
  BY <1>7, <1>9 DEF SInv, Settings
<1>11. Stages' /\ Accounted'
  BY <1>7 DEF SInv, Stages, Accounted
<1> QED BY <1>1, <1>4, <1>8, <1>10, <1>11 DEF SInv

LEMMA TurnedS ==
    ASSUME SInv, Turned
    PROVE  SInv'
<1>1. /\ session = "offered" /\ session' = "over"
      /\ closed' = [closed EXCEPT !["server"] = TRUE]
      /\ wire' = ClosesIn(wire, "server")
      /\ UNCHANGED <<cut, garbled, later, busy, calls, answering, proxy, farEnd, wireEnded, said>>
      /\ UNCHANGED <<proc, askedStop, tuned, heard, emits>>
      /\ UNCHANGED <<waiting, slot, served, ending, cleanups, gone, reactor, live, awaited>>
  BY DEF Turned, queue, call, client, process, accept
<1>2. wire' \in Wires
  BY <1>1, ClosesServer DEF SInv, Frames
<1>3. Frames'
  BY <1>1, <1>2 DEF SInv, Frames
<1>4. closed' \in [Sides -> BOOLEAN] /\ Calls'
  BY <1>1 DEF SInv, Settings, Calls
<1>5. Settings'
  BY <1>1, <1>4 DEF SInv, Settings
<1>6. Stages'
  BY <1>1 DEF SInv, Stages, Early
<1>7. Accounted'
  BY <1>1 DEF SInv, Stages, Early, Accounted
<1> QED BY <1>3, <1>5, <1>6, <1>7 DEF SInv

LEMMA HandshakeS ==
    ASSUME SInv, Handshake
    PROVE  /\ wire' \in Wires /\ wire'["server"] = wire["server"]
           /\ waiting # <<>> /\ waiting' = Tail(waiting)
           /\ \/ Head(waiting).k = "init" /\ UNCHANGED wire
              \/ /\ Head(waiting).k = "bad"
                 /\ \/ wire'["client"] = wire["client"]
                    \/ ~closed["server"] /\ wire'["client"] = Append(wire["client"], F("error"))
           /\ SInv'
<1>1. /\ session = "init" /\ waiting # <<>> /\ waiting' = Tail(waiting)
      /\ UNCHANGED <<closed, cut, garbled, later, busy, calls, answering, proxy, farEnd, wireEnded, said>>
      /\ UNCHANGED <<proc, askedStop, tuned, heard, emits>>
      /\ UNCHANGED <<slot, served, ending, cleanups, gone, reactor, live, awaited>>
  BY DEF Handshake, queue, call, client, process, accept
<1>2. \/ Head(waiting).k = "init" /\ session' = "making" /\ UNCHANGED wire
      \/ Head(waiting).k = "bad" /\ session' = "refused" /\ wire' = Sent(wire, "server", F("error"))
  BY DEF Handshake
<1>3. F("error") \in ForClient /\ wire \in Wires
  BY MadeFrames DEF SInv, Frames
<1>4. /\ wire' \in Wires /\ wire'["server"] = wire["server"]
      /\ \/ Head(waiting).k = "init" /\ UNCHANGED wire
         \/ /\ Head(waiting).k = "bad"
            /\ \/ wire'["client"] = wire["client"]
               \/ ~closed["server"] /\ wire'["client"] = Append(wire["client"], F("error"))
  BY <1>2, <1>3, SentServer
<1>5. waiting' \in Seq(ForServer)
  BY <1>1 DEF SInv, Frames
<1>6. Frames'
  BY <1>1, <1>4, <1>5 DEF SInv, Frames
<1>7. Calls' /\ session' \in {"making", "refused"}
  BY <1>1, <1>2 DEF SInv, Settings, Calls
<1>8. Settings'
  BY <1>1, <1>7 DEF SInv, Settings
<1>9. Stages'
  BY <1>1, <1>7 DEF SInv, Stages, Early
<1>10. Accounted'
  BY <1>1, <1>7 DEF SInv, Accounted
<1> QED BY <1>1, <1>4, <1>6, <1>8, <1>9, <1>10 DEF SInv

LEMMA ServeS ==
    ASSUME SInv, Serve
    PROVE  /\ later' \in Queues /\ later["server"] = <<>> /\ later'["server"] = waiting
           /\ SInv'
<1>1. /\ session = "readying" /\ session' = "serving" /\ slot' = "session" /\ live' = TRUE
      /\ later' = [later EXCEPT !["server"] = waiting] /\ waiting' = <<>>
      /\ UNCHANGED <<wire, closed, cut, garbled, busy, calls, answering, proxy, farEnd, wireEnded, said>>
      /\ UNCHANGED <<proc, askedStop, tuned, heard, emits>>
      /\ UNCHANGED <<served, ending, cleanups, gone, reactor, awaited>>
  BY DEF Serve, link, call, client, process
<1>2. later \in Queues /\ waiting \in Seq(ForServer) /\ <<>> \in Seq(ForServer)
  BY DEF SInv, Frames
<1>3. later' \in Queues /\ later'["server"] = waiting
  BY <1>1, <1>2, PairFacts
<1>4. Frames'
  BY <1>1, <1>2, <1>3 DEF SInv, Frames
<1>5. Calls' /\ live' \in BOOLEAN
  BY <1>1 DEF SInv, Settings, Calls
<1>6. Settings'
  BY <1>1, <1>5 DEF SInv, Settings
<1>7. Stages' /\ later["server"] = <<>>
  BY <1>1 DEF SInv, Stages, Early
<1>8. Accounted'
  BY <1>1 DEF SInv, Accounted
<1> QED BY <1>3, <1>4, <1>6, <1>7, <1>8 DEF SInv

LEMMA LastWordS ==
    ASSUME SInv, LastWord
    PROVE  /\ wire' \in Wires /\ wire'["server"] = wire["server"]
           /\ wire'["client"] = IF ~tuned \/ closed["server"] \/ closed["client"] \/ cut
                                THEN wire["client"] ELSE Append(wire["client"], F("exit"))
           /\ SInv'
<1>1. /\ session = "ending" /\ ending = "done" /\ session' = "lastword"
      /\ wire' = IF tuned THEN Sent(wire, "server", F("exit")) ELSE wire
      /\ UNCHANGED <<closed, cut, garbled, later, busy, calls, answering, proxy, farEnd, wireEnded, said>>
      /\ UNCHANGED <<proc, askedStop, tuned, heard, emits>>
      /\ UNCHANGED <<waiting, slot, served, ending, cleanups, gone, reactor, live, awaited>>
  BY DEF LastWord, queue, call, client, process, accept
<1>2. F("exit") \in ForClient /\ wire \in Wires
  BY MadeFrames DEF SInv, Frames
<1>3. /\ wire' \in Wires /\ wire'["server"] = wire["server"]
      /\ wire'["client"] = IF ~tuned \/ closed["server"] \/ closed["client"] \/ cut
                           THEN wire["client"] ELSE Append(wire["client"], F("exit"))
  BY <1>1, <1>2, SentServer
<1>4. Frames'
  BY <1>1, <1>3 DEF SInv, Frames
<1>5. Calls'
  BY <1>1 DEF SInv, Settings, Calls
<1>6. Settings'
  BY <1>1, <1>5 DEF SInv, Settings
<1>7. Stages' /\ Accounted'
  BY <1>1 DEF SInv, Stages, Early, Accounted
<1> QED BY <1>3, <1>4, <1>6, <1>7 DEF SInv

LEMMA CloseServerS ==
    ASSUME SInv, CloseServer
    PROVE  /\ wire' \in Wires
           /\ wire'["server"] = IF closed["server"] THEN wire["server"] ELSE <<>>
           /\ wire'["client"] = IF closed["server"] \/ closed["client"] \/ cut
                                THEN wire["client"] ELSE Append(wire["client"], F("fin"))
           /\ busy' \in Queues /\ busy'["server"] \in {<<>>, busy["server"]}
           /\ SInv'
<1>1. /\ session = "lastword" /\ session' = "over" /\ live' = FALSE
      /\ calls' = [calls EXCEPT !["server"] = Rejected(calls["server"])]
      /\ busy' = [busy EXCEPT !["server"] = IF @ # <<>> /\ Head(@).class = "throws" THEN @ ELSE <<>>]
      /\ closed' = [closed EXCEPT !["server"] = TRUE]
      /\ wire' = IF closed["server"] THEN wire ELSE ClosesIn(wire, "server")
      /\ gone' = TRUE
      /\ UNCHANGED <<cut, garbled, later, answering, proxy, farEnd, wireEnded, said>>
      /\ UNCHANGED <<proc, askedStop, tuned, heard, emits>>
      /\ UNCHANGED <<waiting, slot, served, ending, cleanups, reactor, awaited>>
  BY DEF CloseServer, client, process
<1>2. wire \in Wires /\ busy \in Queues /\ <<>> \in Seq(ForServer) /\ Len(<<>>) = 0
      /\ busy["server"] \in Seq(ForServer) /\ busy \in [Sides -> Seq(Frame)]
  BY PairFacts DEF SInv, Frames
<1>3. /\ wire' \in Wires
      /\ wire'["server"] = IF closed["server"] THEN wire["server"] ELSE <<>>
      /\ wire'["client"] = IF closed["server"] \/ closed["client"] \/ cut
                           THEN wire["client"] ELSE Append(wire["client"], F("fin"))
  BY <1>1, <1>2, ClosesServer
<1> DEFINE fs == IF busy["server"] # <<>> /\ Head(busy["server"]).class = "throws" THEN busy["server"] ELSE <<>>
<1>4. fs \in Seq(ForServer) /\ fs \in {<<>>, busy["server"]} /\ busy' = [busy EXCEPT !["server"] = fs]
  BY <1>1, <1>2
<1> HIDE DEF fs
<1>5. busy' \in Queues /\ busy'["server"] \in {<<>>, busy["server"]}
  BY <1>2, <1>4, PairFacts
<1>6. Frames'
  BY <1>1, <1>2, <1>3, <1>5 DEF SInv, Frames
<1>7. Calls'
  <2>1. Calls /\ "server" \in Sides
    BY DEF SInv, Settings, Sides
  <2>2. Rejected(calls["server"]) \in Ledgers
    BY <2>1, LedgerFacts, RejectedType
  <2>3. calls' \in [Sides -> Ledgers]
    BY <1>1, <2>1, <2>2, LedgerFacts
  <2> QED BY <1>1, <2>1, <2>3 DEF Calls
<1>8. live' \in BOOLEAN /\ gone' \in BOOLEAN /\ closed' \in [Sides -> BOOLEAN]
  BY <1>1 DEF SInv, Settings
<1>9. Settings'
  BY <1>1, <1>7, <1>8 DEF SInv, Settings
<1>10. Stages'
  BY <1>1 DEF SInv, Stages, Early
<1>11. Accounted'
  BY <1>1 DEF SInv, Accounted
<1> QED BY <1>3, <1>5, <1>6, <1>9, <1>10, <1>11 DEF SInv

LEMMA EmitS ==
    ASSUME SInv, Emit
    PROVE  /\ wire' \in Wires /\ wire'["server"] = wire["server"]
           /\ \/ wire'["client"] = wire["client"]
              \/ Recorded /\ ~closed["server"] /\ wire'["client"] = Append(wire["client"], F("emit"))
           /\ SInv'
<1>1. /\ emits' = emits + 1
      /\ wire' = IF tuned /\ Recorded THEN Sent(wire, "server", F("emit")) ELSE wire
      /\ UNCHANGED <<closed, cut, garbled, later, busy, calls, answering, proxy, farEnd, wireEnded, said>>
      /\ UNCHANGED <<proc, askedStop, tuned, heard>>
      /\ UNCHANGED <<session, waiting, slot, served, ending, cleanups, gone, reactor, live, awaited>>
  BY DEF Emit, queue, call, client, server, accept
<1>2. F("emit") \in ForClient /\ wire \in Wires
  BY MadeFrames DEF SInv, Frames
<1>3. /\ wire' \in Wires /\ wire'["server"] = wire["server"]
      /\ \/ wire'["client"] = wire["client"]
         \/ Recorded /\ ~closed["server"] /\ wire'["client"] = Append(wire["client"], F("emit"))
  BY <1>1, <1>2, SentServer
<1>4. Frames'
  BY <1>1, <1>3 DEF SInv, Frames
<1>5. Calls' /\ emits' \in Nat
  BY <1>1 DEF SInv, Settings, Calls
<1>6. Settings'
  BY <1>1, <1>5 DEF SInv, Settings
<1>7. Stages' /\ Accounted'
  BY <1>1 DEF SInv, Stages, Early, Accounted
<1> QED BY <1>3, <1>4, <1>6, <1>7 DEF SInv

\* A frame about a call is written to the other side.
LEMMA SentCall ==
    ASSUME SInv, NEW s \in Sides, NEW k \in {"call", "result"}, NEW q \in Seqs,
           wire' = Sent(wire, s, Numbered(k, q))
    PROVE  /\ wire' \in Wires /\ wire'[s] = wire[s]
           /\ \/ wire'[Other(s)] = wire[Other(s)]
              \/ ~closed[s] /\ wire'[Other(s)] = Append(wire[Other(s)], Numbered(k, q))
<1>1. Numbered(k, q) \in ForServer /\ Numbered(k, q) \in ForClient /\ wire \in Wires
  BY MadeFrames DEF SInv, Frames
<1>2. CASE s = "server"
  BY <1>1, <1>2, SentServer DEF Other
<1>3. CASE s = "client"
  BY <1>1, <1>3, SentClient DEF Other
<1> QED BY <1>2, <1>3 DEF Sides

LEMMA CallS ==
    ASSUME SInv, NEW s \in Sides, Call(s)
    PROVE  /\ wire' \in Wires /\ wire'[s] = wire[s]
           /\ \/ wire'[Other(s)] = wire[Other(s)]
              \/ /\ ~closed[s]
                 /\ \E q \in Seqs : wire'[Other(s)] = Append(wire[Other(s)], Numbered("call", q))
           /\ SInv'
<1>0. PICK q \in Seqs :
          \/ /\ calls' = [calls EXCEPT ![s][q] =
                  IF s = "client" /\ wireEnded THEN "late" ELSE "waiting"]
             /\ wire' = Sent(wire, s, Numbered("call", q))
          \/ /\ calls' = [calls EXCEPT ![s][q] = "rejected"]
             /\ UNCHANGED wire
  BY DEF Call
<1>1. UNCHANGED <<closed, cut, garbled, queue, answering, client, process, server, accept>>
  BY DEF Call
<1>2. /\ wire' \in Wires /\ wire'[s] = wire[s]
      /\ \/ wire'[Other(s)] = wire[Other(s)]
         \/ /\ ~closed[s]
            /\ wire'[Other(s)] = Append(wire[Other(s)], Numbered("call", q))
  BY <1>0, SentCall DEF SInv, Frames
<1>3. Calls'
  <2>1. Calls
    BY DEF SInv, Settings
  <2>2. PICK what \in {"late", "waiting", "rejected"} : calls' = [calls EXCEPT ![s][q] = what]
    BY <1>0
  <2> DEFINE c == [calls[s] EXCEPT ![q] = what]
  <2>3. calls' = [calls EXCEPT ![s] = c]
    BY <2>2
  <2>4. c \in Ledgers
    <3>1. calls[s] \in Ledgers
      BY <2>1, LedgerFacts
    <3> QED BY <3>1 DEF Ledgers
  <2> HIDE DEF c
  <2>5. calls' \in [Sides -> Ledgers]
    BY <2>1, <2>3, <2>4, LedgerFacts
  <2> QED BY <1>1, <2>1, <2>5 DEF Calls
<1>4. SInv'
  BY <1>1, <1>2, <1>3, WiresKeep
<1> QED BY <1>2, <1>4

LEMMA AnswerS ==
    ASSUME SInv, NEW s \in Sides, Answer(s)
    PROVE  /\ wire' \in Wires /\ wire'[Other(s)] = wire[Other(s)]
           /\ \/ wire'[s] = wire[s]
              \/ /\ ~closed[Other(s)]
                 /\ \E q \in Seqs : wire'[s] = Append(wire[s], Numbered("result", q))
           /\ SInv'
<1>0. PICK q \in answering[s] :
          /\ answering' = [answering EXCEPT ![s] = answering[s] \ {q}]
          /\ wire' = Sent(wire, Other(s), Numbered("result", q))
          /\ UNCHANGED <<closed, cut, garbled, queue, calls, client, process, server, accept>>
  BY DEF Answer
<1>1. Calls /\ answering[s] \in SUBSET Seqs
  BY LedgerFacts DEF SInv, Settings
<1>2. Other(s) \in Sides /\ Other(Other(s)) = s
  BY DEF Other, Sides
<1>3. q \in Seqs
  BY <1>1
<1>4. /\ wire' \in Wires /\ wire'[Other(s)] = wire[Other(s)]
      /\ \/ wire'[s] = wire[s]
         \/ ~closed[Other(s)] /\ wire'[s] = Append(wire[s], Numbered("result", q))
  BY <1>0, <1>2, <1>3, SentCall
<1>5. Calls'
  <2>1. answering[s] \ {q} \in SUBSET Seqs
    BY <1>1
  <2>2. answering' \in [Sides -> SUBSET Seqs]
    BY <1>0, <1>1, <2>1, LedgerFacts
  <2> QED BY <1>0, <1>1, <2>2 DEF Calls
<1>6. SInv'
  BY <1>0, <1>4, <1>5, WiresKeep
<1> QED BY <1>3, <1>4, <1>6

\* What the proxy writes for the server.
LEMMA SayS ==
    ASSUME SInv, Say
    PROVE  /\ wire' \in Wires /\ wire'["client"] = wire["client"]
           /\ \/ /\ said' = said + 1 /\ farEnd = "none"
                 /\ \E c \in Classes :
                       wire'["server"] = IF closed["client"] \/ closed["server"] \/ cut THEN wire["server"]
                          ELSE Append(wire["server"], [Numbered("say", said + 1) EXCEPT !.class = c])
                 /\ UNCHANGED proxy
              \/ UNCHANGED <<said, wire>> /\ farEnd # "none"
           /\ SInv'
<1>1. /\ UNCHANGED <<closed, cut, garbled, later, busy, calls, answering, farEnd, wireEnded>>
      /\ UNCHANGED <<proc, askedStop, tuned, heard, emits>>
      /\ UNCHANGED <<session, waiting, slot, served, ending, cleanups, gone, reactor, live, awaited>>
  BY DEF Say, queue, call, process, server, accept
<1>2. \/ /\ said' = said + 1 /\ farEnd = "none" /\ UNCHANGED proxy
         /\ \E c \in Classes :
               wire' = Sent(wire, "client", [Numbered("say", said + 1) EXCEPT !.class = c])
      \/ farEnd # "none" /\ proxy' = "ended" /\ UNCHANGED <<said, wire>>
  BY DEF Say
<1>3. wire \in Wires /\ said \in Nat /\ said + 1 \in Nat
  BY DEF SInv, Frames, Settings
<1>4. ASSUME NEW c \in Classes,
             wire' = Sent(wire, "client", [Numbered("say", said + 1) EXCEPT !.class = c])
      PROVE  /\ wire' \in Wires /\ wire'["client"] = wire["client"]
             /\ wire'["server"] = IF closed["client"] \/ closed["server"] \/ cut THEN wire["server"]
                   ELSE Append(wire["server"], [Numbered("say", said + 1) EXCEPT !.class = c])
  <2> DEFINE f == [Numbered("say", said + 1) EXCEPT !.class = c]
  <2>1. f \in ForServer
    BY <1>3, MadeFrames
  <2> HIDE DEF f
  <2>2. wire' = Sent(wire, "client", f)
    BY <1>4 DEF f
  <2>3. /\ wire' \in Wires /\ wire'["client"] = wire["client"]
        /\ wire'["server"] = IF closed["client"] \/ closed["server"] \/ cut THEN wire["server"]
              ELSE Append(wire["server"], f)
    BY <1>3, <2>1, <2>2, SentClient
  <2> QED BY <2>3 DEF f
<1>5. /\ wire' \in Wires /\ wire'["client"] = wire["client"]
      /\ \/ /\ said' = said + 1 /\ farEnd = "none"
            /\ \E c \in Classes :
                  wire'["server"] = IF closed["client"] \/ closed["server"] \/ cut THEN wire["server"]
                     ELSE Append(wire["server"], [Numbered("say", said + 1) EXCEPT !.class = c])
            /\ UNCHANGED proxy
         \/ UNCHANGED <<said, wire>> /\ farEnd # "none"
  BY <1>2, <1>3, <1>4
<1>6. Frames'
  BY <1>1, <1>5 DEF SInv, Frames
<1>7. Calls' /\ said' \in Nat /\ proxy' \in {"opening", "up", "stopping", "ended", "over"}
  BY <1>1, <1>2, <1>3 DEF SInv, Settings, Calls
<1>8. Settings'
  BY <1>1, <1>7 DEF SInv, Settings
<1>9. Stages' /\ Accounted'
  BY <1>1 DEF SInv, Stages, Early, Accounted
<1> QED BY <1>5, <1>6, <1>8, <1>9 DEF SInv

LEMMA StopProxyS ==
    ASSUME SInv, StopProxy
    PROVE  /\ wire' \in Wires /\ wire'["client"] = wire["client"]
           /\ \/ wire'["server"] = wire["server"]
              \/ wire'["server"] = Append(wire["server"], F("stop"))
           /\ SInv'
<1>1. /\ proxy' = "stopping"
      /\ wire' = IF farEnd = "none" THEN Sent(wire, "client", F("stop")) ELSE wire
      /\ UNCHANGED <<closed, cut, garbled, later, busy, calls, answering, farEnd, wireEnded, said>>
      /\ UNCHANGED <<proc, askedStop, tuned, heard, emits>>
      /\ UNCHANGED <<session, waiting, slot, served, ending, cleanups, gone, reactor, live, awaited>>
  BY DEF StopProxy, queue, call, process, server, accept
<1>2. F("stop") \in ForServer /\ wire \in Wires
  BY MadeFrames DEF SInv, Frames
<1>3. /\ wire' \in Wires /\ wire'["client"] = wire["client"]
      /\ \/ wire'["server"] = wire["server"]
         \/ wire'["server"] = Append(wire["server"], F("stop"))
  BY <1>1, <1>2, SentClient
<1>4. Frames'
  BY <1>1, <1>3 DEF SInv, Frames
<1>5. Calls'
  BY <1>1 DEF SInv, Settings, Calls
<1>6. Settings'
  BY <1>1, <1>5 DEF SInv, Settings
<1>7. Stages' /\ Accounted'
  BY <1>1 DEF SInv, Stages, Early, Accounted
<1> QED BY <1>3, <1>4, <1>6, <1>7 DEF SInv

LEMMA ProxyClosesS ==
    ASSUME SInv, ProxyCloses
    PROVE  /\ wire' \in Wires /\ wire'["client"] = <<>>
           /\ \/ wire'["server"] = wire["server"]
              \/ wire'["server"] = Append(wire["server"], F("fin"))
           /\ SInv'
<1>1. /\ proxy' = "over"
      /\ closed' = [closed EXCEPT !["client"] = TRUE]
      /\ wire' = ClosesIn(wire, "client")
      /\ WireGone
      /\ UNCHANGED <<cut, garbled, later, busy, answering, said>>
      /\ UNCHANGED <<proc, askedStop, tuned, heard, emits>>
      /\ UNCHANGED <<session, waiting, slot, served, ending, cleanups, gone, reactor, live, awaited>>
  BY DEF ProxyCloses, queue, process, server, accept
<1>2. /\ wire' \in Wires /\ wire'["client"] = <<>>
      /\ \/ wire'["server"] = wire["server"]
         \/ wire'["server"] = Append(wire["server"], F("fin"))
  BY <1>1, ClosesClient DEF SInv, Frames
<1>3. Calls'
  BY <1>1, WireGoneFacts DEF SInv, Settings
<1>4. /\ wireEnded' \in BOOLEAN /\ farEnd' \in {"none", "exit", "lost"}
      /\ closed' \in [Sides -> BOOLEAN]
  BY <1>1 DEF WireGone, SInv, Settings
<1>5. Frames'
  BY <1>1, <1>2 DEF SInv, Frames
<1>6. Settings'
  BY <1>1, <1>3, <1>4 DEF SInv, Settings
<1>7. Stages' /\ Accounted'
  BY <1>1 DEF SInv, Stages, Early, Accounted
<1> QED BY <1>2, <1>5, <1>6, <1>7 DEF SInv

LEMMA RestS == ASSUME SInv, UNCHANGED vars PROVE SInv'
<1>1. UNCHANGED <<wire, closed, cut, garbled, queue, calls, answering, client, process, server, accept>>
  BY DEF vars, link, call
<1>2. wire' \in Wires /\ Calls'
  BY <1>1 DEF SInv, Frames, Settings, Calls
<1> QED BY <1>1, <1>2, WiresKeep

LEMMA NextSInv == SInv /\ [Next]_vars => SInv'
<1> SUFFICES ASSUME SInv, [Next]_vars PROVE SInv'
  OBVIOUS
<1>1. CASE Medium
  BY <1>1, ArrivesServerS, ArrivesClientS, CloseArrivesS, OctetsAskedS, OctetsArriveS DEF Medium, Sides
<1>2. CASE ServerStep
  BY <1>2, AcceptS, TurnedS, HandshakeS, MakeS, ServeS, RaceSettlesS, CleanupDoneS, CleanupFailedS,
     LastWordS, CloseServerS, ProcEndsS DEF ServerStep, ProcStops
<1>3. CASE ProxyStep
  BY <1>3, ProxyStopsS, ProxyLostS, ProxyClosesS DEF ProxyStep
<1>4. CASE \E s \in Sides : Pump(s) \/ Answer(s) \/ Call(s)
  BY <1>4, PumpS, AnswerS, CallS
<1>5. CASE ReactorEnds \/ ReactorStopped \/ Cut \/ StopReactor
  BY <1>5, ReactorEndsS, ReactorStoppedS, CutS, StopReactorS
<1>6. CASE MakeFails \/ ReadyFails \/ ProcEnds \/ Emit \/ Say \/ StopProxy
  BY <1>6, MakeFailsS, ReadyFailsS, ProcEndsS, EmitS, SayS, StopProxyS
<1>7. CASE UNCHANGED vars
  BY <1>7, RestS
<1> QED BY <1>1, <1>2, <1>3, <1>4, <1>5, <1>6, <1>7 DEF Next, Steps

LEMMA SessionInvariant == Spec => []SInv
  BY InitSInv, NextSInv, PTL DEF Spec

\* Every variable keeps its type; frames wait only until the dispatch is in place, and the
\* reactor's table holds the session only while it runs.
THEOREM SessionType == Spec => []TypeOK
<1>1. SInv => TypeOK
  <2> SUFFICES ASSUME SInv PROVE TypeOK
    OBVIOUS
  <2>1. /\ wire \in [Sides -> Seq(Frame)] /\ later \in [Sides -> Seq(Frame)]
        /\ busy \in [Sides -> Seq(Frame)]
        /\ busy["client"] = <<>> /\ Len(busy["server"]) <= 1
    BY PairFacts DEF SInv, Frames
  <2>2. waiting \in Seq(Frame)
    <3>1. ForServer \subseteq Frame
      BY FrameFacts
    <3> QED BY <3>1 DEF SInv, Frames
  <2>3. \A s \in Sides : Len(busy[s]) <= 1
    BY <2>1 DEF Sides
  <2>4. /\ calls \in [Sides -> [Seqs -> {"none", "waiting", "late", "answered", "rejected"}]]
        /\ answering \in [Sides -> SUBSET Seqs]
    BY DEF SInv, Settings, Calls, Ledgers
  <2>5. /\ waiting # <<>> => session \in {"init", "making", "readying", "refused"}
        /\ live => session \in {"serving", "ending", "lastword"}
    BY DEF SInv, Stages
  <2> QED BY <2>1, <2>2, <2>3, <2>4, <2>5 DEF SInv, Settings, TypeOK
<1> QED BY <1>1, SessionInvariant, PTL

\* Whoever asks for the end -- the race, a close, an unreadable frame, the reactor -- the
\* cleanup runs once, a session that served closes after it is done, and stop() comes back
\* from a session it waits for only once that is off the table.
THEOREM CleanedUpOnceAlways == Spec => []CleanedUpOnce
<1>1. SInv => CleanedUpOnce
  <2> SUFFICES ASSUME SInv PROVE CleanedUpOnce
    OBVIOUS
  <2>1. cleanups <= 1 /\ (ending = "done" => cleanups = 1)
    BY DEF SInv, Accounted
  <2>2. session \in {"lastword", "over"} /\ slot = "session" => ending = "done"
    BY DEF SInv, Accounted
  <2>3. reactor = "stopped" /\ awaited => ~live
    BY DEF SInv, Accounted, Stages
  <2> QED BY <2>1, <2>2, <2>3 DEF CleanedUpOnce
<1> QED BY <1>1, SessionInvariant, PTL

-----------------------------------------------------------------------------
(* Frames of a kind in a sequence. *)

LEMMA EmptyHolds ==
    \A k, K : ~Has(<<>>, k) /\ Lacks(<<>>, K) /\ Last(<<>>, k, K)
  BY DEF Has, Lacks, Last

LEMMA AppendHolds ==
    ASSUME NEW S, NEW fs \in Seq(S), NEW f \in S
    PROVE  /\ \A k : Has(Append(fs, f), k) <=> Has(fs, k) \/ f.k = k
           /\ \A K : Lacks(Append(fs, f), K) <=> Lacks(fs, K) /\ f.k \notin K
           /\ \A k, K : Last(Append(fs, f), k, K) <=> Last(fs, k, K) /\ (Has(fs, k) => f.k \notin K)
<1> DEFINE gs == Append(fs, f)
           n == Len(fs)
<1>1. /\ n \in Nat /\ DOMAIN fs = 1..n /\ DOMAIN gs = 1..(n + 1)
      /\ gs[n + 1] = f /\ \A i \in 1..n : gs[i] = fs[i]
  OBVIOUS
<1> HIDE DEF gs, n
<1>2. \A i : i \in 1..(n + 1) <=> i \in 1..n \/ i = n + 1
  BY <1>1
<1>3. ASSUME NEW k
      PROVE  Has(gs, k) <=> Has(fs, k) \/ f.k = k
  BY <1>1, <1>2 DEF Has
<1>4. ASSUME NEW K
      PROVE  Lacks(gs, K) <=> Lacks(fs, K) /\ f.k \notin K
  BY <1>1, <1>2 DEF Lacks
<1>5. ASSUME NEW k, NEW K
      PROVE  Last(gs, k, K) <=> Last(fs, k, K) /\ (Has(fs, k) => f.k \notin K)
  <2>1. ASSUME Last(gs, k, K)
        PROVE  Last(fs, k, K) /\ (Has(fs, k) => f.k \notin K)
    <3>1. \A i, j \in 1..(n + 1) : i < j /\ gs[i].k = k => gs[j].k \notin K
      BY <1>1, <2>1 DEF Last
    <3>2. Last(fs, k, K)
      BY <1>1, <1>2, <3>1 DEF Last
    <3>3. ASSUME Has(fs, k) PROVE f.k \notin K
      <4>1. PICK i \in 1..n : fs[i].k = k
        BY <1>1, <3>3 DEF Has
      <4>2. i < n + 1 /\ gs[i].k = k /\ i \in 1..(n + 1) /\ n + 1 \in 1..(n + 1)
        BY <1>1, <4>1
      <4> QED BY <1>1, <3>1, <4>2
    <3> QED BY <3>2, <3>3
  <2>2. ASSUME Last(fs, k, K), Has(fs, k) => f.k \notin K
        PROVE  Last(gs, k, K)
    <3> SUFFICES ASSUME NEW i \in 1..(n + 1), NEW j \in 1..(n + 1), i < j, gs[i].k = k
                 PROVE  gs[j].k \notin K
      BY <1>1 DEF Last
    <3>1. i \in 1..n
      BY <1>1
    <3>2. CASE j \in 1..n
      BY <1>1, <2>2, <3>1, <3>2 DEF Last
    <3>3. CASE j = n + 1
      BY <1>1, <2>2, <3>1, <3>3 DEF Has
    <3> QED BY <1>2, <3>2, <3>3
  <2> QED BY <2>1, <2>2
<1> QED BY <1>3, <1>4, <1>5 DEF gs

LEMMA TailHolds ==
    ASSUME NEW S, NEW fs \in Seq(S), fs # <<>>
    PROVE  /\ \A k : Has(Tail(fs), k) => Has(fs, k)
           /\ \A k : Has(fs, k) => Head(fs).k = k \/ Has(Tail(fs), k)
           /\ \A k : Head(fs).k = k => Has(fs, k)
           /\ \A K : Lacks(fs, K) => Lacks(Tail(fs), K) /\ Head(fs).k \notin K
           /\ \A k, K : Last(fs, k, K) => Last(Tail(fs), k, K) /\ (Head(fs).k = k => Lacks(Tail(fs), K))
<1> DEFINE gs == Tail(fs)
           h == Head(fs)
           n == Len(fs)
<1>1. /\ n \in Nat /\ n > 0 /\ DOMAIN fs = 1..n /\ DOMAIN gs = 1..(n - 1)
      /\ h = fs[1] /\ \A i \in 1..(n - 1) : gs[i] = fs[i + 1]
  OBVIOUS
<1> HIDE DEF gs, h, n
<1>2. /\ \A i \in 1..(n - 1) : i + 1 \in 1..n /\ 1 < i + 1
      /\ 1 \in 1..n
      /\ \A i \in 1..n : i = 1 \/ (i - 1 \in 1..(n - 1) /\ (i - 1) + 1 = i)
  BY <1>1
<1>3. ASSUME NEW k
      PROVE  (Has(gs, k) => Has(fs, k)) /\ (Has(fs, k) => h.k = k \/ Has(gs, k)) /\ (h.k = k => Has(fs, k))
  <2>1. Has(gs, k) => Has(fs, k)
    BY <1>1, <1>2 DEF Has
  <2>2. ASSUME Has(fs, k) PROVE h.k = k \/ Has(gs, k)
    <3>1. PICK i \in 1..n : fs[i].k = k
      BY <1>1, <2>2 DEF Has
    <3>2. CASE i = 1
      BY <1>1, <3>1, <3>2
    <3>3. CASE i # 1
      <4>1. i - 1 \in 1..(n - 1) /\ gs[i - 1] = fs[i]
        BY <1>1, <1>2, <3>3
      <4> QED BY <1>1, <3>1, <4>1 DEF Has
    <3> QED BY <3>2, <3>3
  <2>3. h.k = k => Has(fs, k)
    BY <1>1, <1>2 DEF Has
  <2> QED BY <2>1, <2>2, <2>3
<1>4. ASSUME NEW K, Lacks(fs, K)
      PROVE  Lacks(gs, K) /\ h.k \notin K
  BY <1>1, <1>2, <1>4 DEF Lacks
<1>5. ASSUME NEW k, NEW K, Last(fs, k, K)
      PROVE  Last(gs, k, K) /\ (h.k = k => Lacks(gs, K))
  <2>1. \A i, j \in 1..n : i < j /\ fs[i].k = k => fs[j].k \notin K
    BY <1>1, <1>5 DEF Last
  <2>2. h.k = k => Lacks(gs, K)
    BY <1>1, <1>2, <2>1 DEF Lacks
  <2>3. ASSUME NEW i \in 1..(n - 1), NEW j \in 1..(n - 1), i < j, gs[i].k = k
        PROVE  gs[j].k \notin K
    <3>1. i + 1 < j + 1
      BY <1>1, <2>3
    <3> QED BY <1>1, <1>2, <2>1, <2>3, <3>1
  <2>4. Last(gs, k, K)
    BY <1>1, <2>3 DEF Last
  <2> QED BY <2>2, <2>4
<1> QED BY <1>3, <1>4, <1>5 DEF gs, h

\* A first part of a sequence.
LEMMA PartHolds ==
    ASSUME NEW S, NEW fs \in Seq(S), NEW n \in 0..Len(fs)
    PROVE  /\ \A k : Has(SubSeq(fs, 1, n), k) => Has(fs, k)
           /\ \A K : Lacks(fs, K) => Lacks(SubSeq(fs, 1, n), K)
           /\ \A k, K : Last(fs, k, K) => Last(SubSeq(fs, 1, n), k, K)
<1> DEFINE gs == SubSeq(fs, 1, n)
<1>1. /\ n \in Nat /\ Len(fs) \in Nat /\ DOMAIN fs = 1..Len(fs) /\ DOMAIN gs = 1..n
      /\ \A i \in 1..n : gs[i] = fs[i] /\ i \in 1..Len(fs)
  OBVIOUS
<1> HIDE DEF gs
<1>2. ASSUME NEW k, NEW K, Last(fs, k, K)
      PROVE  Last(gs, k, K)
  <2>1. \A i, j \in 1..Len(fs) : i < j /\ fs[i].k = k => fs[j].k \notin K
    BY <1>1, <1>2 DEF Last
  <2> QED BY <1>1, <2>1 DEF Last
<1>3. ASSUME NEW K, Lacks(fs, K)
      PROVE  Lacks(gs, K)
  BY <1>1, <1>3 DEF Lacks
<1>4. \A k : Has(gs, k) => Has(fs, k)
  BY <1>1 DEF Has
<1> QED BY <1>2, <1>3, <1>4 DEF gs

-----------------------------------------------------------------------------
(* The last word is kept. *)

LEMMA WireTypes ==
    ASSUME SInv
    PROVE  /\ wire["server"] \in Seq(ForServer) /\ wire["client"] \in Seq(ForClient)
           /\ later["server"] \in Seq(ForServer) /\ busy["server"] \in Seq(ForServer)
           /\ waiting \in Seq(ForServer)
  BY PairFacts DEF SInv, Frames

LEMMA InitWInv == Init => WInv
<1> SUFFICES ASSUME Init PROVE WInv
  OBVIOUS
<1>1. /\ wire["server"] = <<F("init"), F("tune")>> /\ wire["client"] = <<>>
      /\ later["server"] = <<>> /\ busy["server"] = <<>> /\ waiting = <<>>
      /\ ~closed["client"] /\ ~closed["server"] /\ farEnd = "none" /\ ~wireEnded
      /\ proxy = "opening" /\ session = "offered"
  BY DEF Init, Sides
<1>2. Lacks(wire["server"], Unread) /\ ~Has(wire["server"], "fin")
  <2>1. \A i \in DOMAIN wire["server"] : wire["server"][i].k \in {"init", "tune"}
    BY <1>1, MadeKinds
  <2> QED BY <2>1 DEF Lacks, Has, Unread
<1> QED BY <1>1, <1>2, EmptyHolds
        DEF WInv, WordLast, ProxyKnows, Readable, Closing, WordSaid

\* Nothing is readable or not but what travels or waits.
AllRead ==
    /\ Lacks(wire["server"], Unread) /\ Lacks(wire["client"], Unread)
    /\ Lacks(later["server"], Unread) /\ Lacks(waiting, Unread) /\ Lacks(busy["server"], Unread)

\* The session neither reaches nor leaves its last word.
SameStage == session' = session \/ {session, session'} \cap {"lastword", "over"} = {}

\* Most steps say at most one frame to the client, and not the last word.
LEMMA TellsW ==
    ASSUME SInv, WInv, SameStage,
           UNCHANGED <<closed, cut, farEnd, wireEnded>>,
           proxy' \in {"ended", "over"} => farEnd # "none",
           garbled => garbled', tuned' => tuned \/ Recorded,
           Has(wire["server"], "fin")' => Has(wire["server"], "fin"),
           ~garbled' => AllRead',
           \/ wire'["client"] = wire["client"]
           \/ \E g \in ForClient :
                 /\ wire'["client"] = Append(wire["client"], g)
                 /\ g.k \notin {"exit", "fin"}
                 /\ g.k \in About => session \notin {"lastword", "over"}
    PROVE  WInv'
<1> DEFINE wc == wire["client"]
           wd == wire'["client"]
<1>1. wc \in Seq(ForClient)
  BY WireTypes
<1>2. /\ Has(wd, "exit") <=> Has(wc, "exit")
      /\ Has(wd, "fin") <=> Has(wc, "fin")
      /\ Last(wc, "fin", {"exit"}) => Last(wd, "fin", {"exit"})
      /\ Last(wc, "exit", About) /\ (Has(wc, "exit") => session \in {"lastword", "over"})
            => Last(wd, "exit", About)
      /\ Lacks(wc, About) /\ session \in {"lastword", "over"} => Lacks(wd, About)
  <2>1. CASE wd = wc
    BY <2>1
  <2>2. CASE wd # wc
    <3>1. PICK g \in ForClient :
                 /\ wd = Append(wc, g)
                 /\ g.k \notin {"exit", "fin"}
                 /\ g.k \in About => session \notin {"lastword", "over"}
      BY <2>2
    <3> QED BY <1>1, <3>1, AppendHolds
  <2> QED BY <2>1, <2>2
<1> HIDE DEF wc, wd
<1>3. /\ Has(wc, "exit") \/ farEnd = "exit" => session \in {"lastword", "over"}
      /\ Last(wc, "exit", About)
      /\ farEnd = "exit" => Lacks(wc, About)
  BY DEF WInv, WordLast, wc
<1>4. session' \in {"lastword", "over"} <=> session \in {"lastword", "over"}
  BY DEF SameStage
<1>5. session' = "over" <=> session = "over"
  BY DEF SameStage
<1>6. WordLast'
  BY <1>2, <1>3, <1>4 DEF WordLast, wd
<1>7. ProxyKnows'
  BY DEF WInv, ProxyKnows
<1>8. Readable'
  BY DEF Readable, AllRead
<1>9. Closing'
  <2>1. /\ ~cut => /\ Has(wire["server"], "fin") => closed["client"]
                   /\ Has(wc, "fin") => closed["server"]
        /\ Last(wc, "fin", {"exit"})
        /\ ~cut /\ closed["server"] => session = "over" \/ closed["client"]
    BY DEF WInv, Closing, wc
  <2> QED BY <1>2, <1>5, <2>1 DEF Closing, wd
<1>10. WordSaid'
  <2> SUFFICES ASSUME ~cut, ~garbled'
               PROVE  /\ tuned' /\ session' \in {"lastword", "over"} /\ farEnd = "none" => Has(wd, "exit")
                      /\ farEnd = "lost" => session' = "over" /\ ~tuned'
    BY DEF WordSaid, wd
  <2>1. /\ tuned /\ session \in {"lastword", "over"} /\ farEnd = "none" => Has(wc, "exit")
        /\ farEnd = "lost" => session = "over" /\ ~tuned
    BY DEF WInv, WordSaid, wc
  <2>2. session \in {"lastword", "over"} /\ tuned' => tuned
    BY DEF Recorded
  <2> QED BY <1>2, <1>4, <1>5, <2>1, <2>2
<1> QED BY <1>6, <1>7, <1>8, <1>9, <1>10 DEF WInv

\* Steps that touch none of it.
LEMMA QuietW ==
    ASSUME SInv, WInv, SameStage,
           UNCHANGED <<wire, closed, cut, garbled, later, busy, waiting, farEnd, wireEnded, tuned>>,
           proxy' \in {"ended", "over"} => farEnd # "none"
    PROVE  WInv'
<1>1. ~garbled => AllRead
  BY DEF WInv, Readable, AllRead
<1>2. ~garbled' => AllRead'
  BY <1>1 DEF AllRead
<1> QED BY <1>2, TellsW

LEMMA QuietStepsW ==
    ASSUME SInv, WInv,
           \/ Accept \/ Make \/ MakeFails \/ ReadyFails \/ RaceSettles \/ CleanupDone \/ CleanupFailed
           \/ ProcEnds \/ ProxyStops \/ ProxyLost \/ StopReactor \/ ReactorEnds \/ ReactorStopped
           \/ UNCHANGED vars
    PROVE  WInv'
<1>0. proxy \in {"ended", "over"} \/ wireEnded => farEnd # "none"
  BY DEF WInv, ProxyKnows
<1>1. CASE Accept
  <2>1. /\ UNCHANGED <<wire, closed, cut, garbled, later, busy, waiting, farEnd, wireEnded, tuned>>
        /\ SameStage /\ proxy' = proxy
    BY <1>1 DEF Accept, link, queue, client, process, SameStage
  <2> QED BY <1>0, <2>1, QuietW
<1>2. CASE Make \/ MakeFails \/ ReadyFails
  <2>1. /\ UNCHANGED <<wire, closed, cut, garbled, later, busy, waiting, farEnd, wireEnded, tuned>>
        /\ SameStage /\ proxy' = proxy
    BY <1>2 DEF Make, MakeFails, ReadyFails, link, queue, client, process, SameStage
  <2> QED BY <1>0, <2>1, QuietW
<1>3. CASE RaceSettles \/ CleanupDone
  <2>1. /\ UNCHANGED <<wire, closed, cut, garbled, later, busy, waiting, farEnd, wireEnded, tuned>>
        /\ SameStage /\ proxy' = proxy
    BY <1>3 DEF RaceSettles, CleanupDone, link, queue, client, process, SameStage
  <2> QED BY <1>0, <2>1, QuietW
<1>4. CASE CleanupFailed \/ ProcEnds
  <2>1. /\ UNCHANGED <<wire, closed, cut, garbled, later, busy, waiting, farEnd, wireEnded, tuned>>
        /\ SameStage /\ proxy' = proxy
    BY <1>4 DEF CleanupFailed, ProcEnds, link, queue, client, process, SameStage
  <2> QED BY <1>0, <2>1, QuietW
<1>5. CASE ProxyStops \/ ProxyLost
  <2>1. /\ UNCHANGED <<wire, closed, cut, garbled, later, busy, waiting, farEnd, wireEnded, tuned>>
        /\ SameStage /\ farEnd # "none"
    BY <1>0, <1>5 DEF ProxyStops, ProxyLost, link, queue, process, server, SameStage
  <2> QED BY <2>1, QuietW
<1>6. CASE StopReactor \/ ReactorEnds \/ ReactorStopped
  <2>1. /\ UNCHANGED <<wire, closed, cut, garbled, later, busy, waiting, farEnd, wireEnded, tuned>>
        /\ SameStage /\ proxy' = proxy
    BY <1>6 DEF StopReactor, ReactorEnds, ReactorStopped, link, queue, client, process, server, SameStage
  <2> QED BY <1>0, <2>1, QuietW
<1>7. CASE UNCHANGED vars
  <2>1. /\ UNCHANGED <<wire, closed, cut, garbled, later, busy, waiting, farEnd, wireEnded, tuned>>
        /\ SameStage /\ proxy' = proxy
    BY <1>7 DEF vars, link, queue, client, process, server, SameStage
  <2> QED BY <1>0, <2>1, QuietW
<1> QED BY <1>1, <1>2, <1>3, <1>4, <1>5, <1>6, <1>7

LEMMA RepliesW ==
    ASSUME SInv, WInv, NEW w \in Wires, NEW f, Replies(w, f), w["client"] = wire["client"],
           Has(w["server"], "fin") => Has(wire["server"], "fin"),
           session' = session, UNCHANGED <<closed, cut, client>>,
           garbled => garbled', tuned' => tuned \/ Recorded,
           ~garbled' => /\ f.k \notin Unread /\ Lacks(w["server"], Unread)
                        /\ Lacks(later'["server"], Unread) /\ Lacks(waiting', Unread)
                        /\ Lacks(busy'["server"], Unread)
    PROVE  WInv'
<1>1. wire'["server"] = w["server"]
  BY DEF Replies
<1>2. \/ wire'["client"] = wire["client"]
      \/ \E g \in ForClient :
            /\ wire'["client"] = Append(wire["client"], g)
            /\ g.k \in {"ask", "error", "state"}
            /\ g.k = "error" => f.k \in Unread
            /\ g.k = "state" => Recorded
  BY DEF Replies
<1>3. \/ wire'["client"] = wire["client"]
      \/ \E g \in ForClient :
            /\ wire'["client"] = Append(wire["client"], g)
            /\ g.k \notin {"exit", "fin"}
            /\ g.k \in About => session \notin {"lastword", "over"}
  BY <1>2 DEF About, Recorded
<1>4. ~garbled' => Lacks(wire'["client"], Unread)
  <2> SUFFICES ASSUME ~garbled' PROVE Lacks(wire'["client"], Unread)
    OBVIOUS
  <2>1. Lacks(wire["client"], Unread) /\ wire["client"] \in Seq(ForClient)
    BY WireTypes DEF WInv, Readable
  <2>2. CASE wire'["client"] = wire["client"]
    BY <2>1, <2>2
  <2>3. CASE wire'["client"] # wire["client"]
    <3>1. PICK g \in ForClient : wire'["client"] = Append(wire["client"], g) /\ g.k \notin Unread
      BY <1>2, <2>3 DEF Unread
    <3> QED BY <2>1, <3>1, AppendHolds
  <2> QED BY <2>2, <2>3
<1>5. ~garbled' => AllRead'
  BY <1>1, <1>4 DEF AllRead
<1>6. proxy' \in {"ended", "over"} => farEnd # "none"
  BY DEF client, WInv, ProxyKnows
<1>7. UNCHANGED <<closed, cut, farEnd, wireEnded>> /\ SameStage
  BY DEF client, SameStage
<1>8. Has(wire["server"], "fin")' => Has(wire["server"], "fin")
  BY <1>1
<1> QED BY <1>3, <1>5, <1>6, <1>7, <1>8, TellsW

\* Starting on a frame tells the client no more than that.
LEMMA StartW ==
    ASSUME SInv, WInv, NEW w \in Wires, NEW f \in ForServer, Start("server", w, f),
           w["client"] = wire["client"], Has(w["server"], "fin") => Has(wire["server"], "fin"),
           cut' = cut, garbled => garbled',
           ~garbled' => /\ f.k \notin Unread /\ Lacks(w["server"], Unread)
                        /\ Lacks(later'["server"], Unread) /\ Lacks(waiting', Unread)
    PROVE  WInv'
<1>1. Replies(w, f)
  BY StartServer
<1>2. \/ Delivered(f) /\ UNCHANGED busy
      \/ /\ f.k = "say" /\ busy' = [busy EXCEPT !["server"] = <<f>>]
         /\ UNCHANGED <<closed, call, client, process, ending, cleanups, gone, session>>
  BY StartServer
<1>3. /\ UNCHANGED <<closed, client>> /\ session' = session
      /\ tuned' => tuned \/ Recorded
  BY <1>2 DEF Delivered, process
<1>4. ~garbled' => Lacks(busy'["server"], Unread)
  <2>1. ~garbled => Lacks(busy["server"], Unread)
    BY DEF WInv, Readable
  <2>2. CASE UNCHANGED busy
    BY <2>1, <2>2
  <2>3. CASE f.k = "say" /\ busy' = [busy EXCEPT !["server"] = <<f>>]
    <3>1. busy \in [Sides -> Seq(Frame)]
      BY PairFacts DEF SInv, Frames
    <3>2. busy'["server"] = <<f>>
      BY <2>3, <3>1 DEF Sides
    <3>3. Lacks(<<f>>, Unread)
      BY <2>3 DEF Lacks, Unread
    <3> QED BY <3>2, <3>3
  <2> QED BY <1>2, <2>2, <2>3
<1> QED BY <1>1, <1>3, <1>4, RepliesW

LEMMA ArrivesServerW ==
    ASSUME SInv, WInv, FrameArrives("server")
    PROVE  WInv'
<1>1. PICK f \in ForServer : Gets("server", f)
  BY FrameGets
<1> DEFINE w == Arrived("server")
<1>2. /\ wire["server"] # <<>>
      /\ w \in Wires /\ w["server"] = Tail(wire["server"]) /\ w["client"] = wire["client"]
  BY <1>1, ArrivedFacts DEF Gets
<1> HIDE DEF w
<1>3. Has(w["server"], "fin") => Has(wire["server"], "fin")
  BY <1>2, TailHolds, WireTypes
<1>4. cut' = cut /\ (garbled => garbled')
  BY <1>1 DEF Gets
<1>5. ~garbled' => /\ f.k \notin Unread /\ Lacks(w["server"], Unread)
                   /\ AllRead
  <2> SUFFICES ASSUME ~garbled' PROVE f.k \notin Unread /\ Lacks(w["server"], Unread) /\ AllRead
    OBVIOUS
  <2>1. f = Head(wire["server"]) /\ ~garbled
    BY <1>1 DEF Gets
  <2>2. AllRead
    BY <2>1 DEF WInv, Readable, AllRead
  <2> QED BY <1>2, <2>1, <2>2, TailHolds, WireTypes DEF AllRead
<1>6. CASE Collects(f) \/ Ignores
  <2>1. /\ wire' = w /\ UNCHANGED <<later, busy>>
        /\ waiting' \in {waiting, Append(waiting, f)}
        /\ UNCHANGED <<closed, client, process, session>>
    BY <1>6 DEF Collects, Ignores, w
  <2>2. Replies(w, f)
    BY <1>2, <2>1 DEF Replies
  <2>4. UNCHANGED <<closed, cut, client>> /\ session' = session /\ tuned' = tuned
    BY <1>4, <2>1 DEF process
  <2>5. ~garbled' => Lacks(later'["server"], Unread) /\ Lacks(busy'["server"], Unread)
    BY <1>5, <2>1 DEF AllRead
  <2>3. ~garbled' => Lacks(waiting', Unread)
    <3>1. waiting \in Seq(ForServer)
      BY WireTypes
    <3>2. Lacks(waiting, Unread) /\ f.k \notin Unread => Lacks(Append(waiting, f), Unread)
      BY <3>1, AppendHolds
    <3> QED BY <1>5, <2>1, <3>2 DEF AllRead
  <2> QED BY <1>2, <1>3, <1>4, <1>5, <2>2, <2>3, <2>4, <2>5, RepliesW
<1>7. CASE Begins(f)
  <2>1. Start("server", w, f) /\ UNCHANGED <<later, waiting>>
    BY <1>7 DEF Begins, w
  <2> QED BY <1>2, <1>3, <1>4, <1>5, <2>1, StartW DEF AllRead
<1>8. CASE PutsInLine(f)
  <2>1. /\ later' = [later EXCEPT !["server"] = Append(later["server"], f)]
        /\ wire' = w /\ UNCHANGED <<busy, waiting>>
        /\ UNCHANGED <<closed, client, process, session>>
    BY <1>8 DEF PutsInLine, w
  <2>2. Replies(w, f)
    BY <1>2, <2>1 DEF Replies
  <2>3. later'["server"] = Append(later["server"], f)
    <3>1. later \in [Sides -> Seq(Frame)]
      BY PairFacts DEF SInv, Frames
    <3> QED BY <2>1, <3>1 DEF Sides
  <2>4. ~garbled' => Lacks(later'["server"], Unread)
    BY <1>5, <2>3, AppendHolds, WireTypes DEF AllRead
  <2> QED BY <1>2, <1>3, <1>4, <1>5, <2>1, <2>2, <2>4, RepliesW DEF AllRead, process
<1> QED BY <1>1, <1>6, <1>7, <1>8, ReceivesServer DEF Gets

LEMMA PumpW ==
    ASSUME SInv, WInv, NEW s \in Sides, Pump(s)
    PROVE  WInv'
<1>1. /\ s = "server" /\ Start("server", wire, Head(later["server"]))
      /\ Head(later["server"]) \in ForServer /\ later'["server"] = Tail(later["server"])
  BY PumpS
<1>2. later["server"] # <<>> /\ UNCHANGED <<cut, garbled, waiting>>
  BY <1>1 DEF Pump
<1>3. ~garbled => AllRead
  BY DEF WInv, Readable, AllRead
<1>4. ~garbled => Head(later["server"]).k \notin Unread /\ Lacks(Tail(later["server"]), Unread)
  BY <1>2, <1>3, TailHolds, WireTypes DEF AllRead
<1>5. wire \in Wires
  BY DEF SInv, Frames
<1> QED BY <1>1, <1>2, <1>3, <1>4, <1>5, StartW DEF AllRead

LEMMA OctetsArriveW ==
    ASSUME SInv, WInv, OctetsArrive
    PROVE  WInv'
<1> DEFINE f == Head(busy["server"])
           w == Arrived("server")
<1>1. /\ busy["server"] # <<>> /\ wire["server"] # <<>>
      /\ Delivered(f) /\ Replies(w, f) /\ busy'["server"] = <<>>
  BY OctetsArriveS
<1>2. w \in Wires /\ w["server"] = Tail(wire["server"]) /\ w["client"] = wire["client"]
  BY <1>1, ArrivedFacts
<1>3. UNCHANGED <<cut, garbled, later, waiting>>
  BY DEF OctetsArrive
<1>4. Has(w["server"], "fin") => Has(wire["server"], "fin")
  BY <1>1, <1>2, TailHolds, WireTypes
<1>5. ~garbled => AllRead /\ f.k \notin Unread /\ Lacks(w["server"], Unread)
  <2>1. ~garbled => AllRead
    BY DEF WInv, Readable, AllRead
  <2> QED BY <1>1, <1>2, <2>1, TailHolds, WireTypes DEF AllRead
<1>6. /\ UNCHANGED <<closed, client>> /\ session' = session
      /\ tuned' => tuned \/ Recorded
  BY <1>1 DEF Delivered
<1>7. Lacks(busy'["server"], Unread)
  BY <1>1, EmptyHolds
<1> HIDE DEF w, f
<1> QED BY <1>1, <1>2, <1>3, <1>4, <1>5, <1>6, <1>7, RepliesW DEF AllRead

\* A frame a side writes in passing: the client's about a call, a message or a stop, the
\* server's about a call or what was emitted.
LEMMA WritesW ==
    ASSUME SInv, WInv, NEW s \in Sides, NEW g \in ForServer \cup ForClient,
           g.k \in {"call", "result", "say", "stop", "emit"},
           s = "client" => g \in ForClient,
           g.k = "emit" => Recorded,
           wire'[Other(s)] = wire[Other(s)],
           wire'[s] \in {wire[s], Append(wire[s], g)},
           s = "server" => g \in ForServer,
           session' = session, tuned' = tuned, proxy' \in {"ended", "over"} => farEnd # "none",
           UNCHANGED <<closed, cut, garbled, later, busy, waiting, farEnd, wireEnded>>
    PROVE  WInv'
<1>1. ~garbled => AllRead
  BY DEF WInv, Readable, AllRead
<1>2. g.k \notin Unread /\ g.k \notin {"exit", "fin"}
      /\ (g.k \in About => session \notin {"lastword", "over"})
  BY DEF Unread, About, Recorded
<1>3. SameStage
  BY DEF SameStage
<1>4. CASE s = "server"
  <2>1. /\ wire'["client"] = wire["client"]
        /\ wire'["server"] \in {wire["server"], Append(wire["server"], g)}
    BY <1>4 DEF Other
  <2>2. wire["server"] \in Seq(ForServer) /\ g \in ForServer
    BY <1>4, WireTypes
  <2>3. /\ Has(Append(wire["server"], g), "fin") => Has(wire["server"], "fin")
        /\ Lacks(wire["server"], Unread) => Lacks(Append(wire["server"], g), Unread)
    BY <1>2, <2>2, AppendHolds
  <2>4. Has(wire'["server"], "fin") => Has(wire["server"], "fin")
    BY <2>1, <2>3
  <2>5. ~garbled' => AllRead'
    BY <1>1, <2>1, <2>3 DEF AllRead
  <2> QED BY <1>3, <2>1, <2>4, <2>5, TellsW
<1>5. CASE s = "client"
  <2>1. /\ wire'["server"] = wire["server"]
        /\ wire'["client"] \in {wire["client"], Append(wire["client"], g)}
    BY <1>5 DEF Other
  <2>2. wire["client"] \in Seq(ForClient) /\ g \in ForClient
    BY <1>5, WireTypes
  <2>3. Lacks(wire["client"], Unread) => Lacks(Append(wire["client"], g), Unread)
    BY <1>2, <2>2, AppendHolds
  <2>4. ~garbled' => AllRead'
    BY <1>1, <2>1, <2>3 DEF AllRead
  <2> QED BY <1>2, <1>3, <2>1, <2>2, <2>4, TellsW
<1> QED BY <1>4, <1>5 DEF Sides

LEMMA WritingStepsW ==
    ASSUME SInv, WInv,
           \/ \E s \in Sides : Call(s) \/ Answer(s)
           \/ Emit \/ Say \/ StopProxy
    PROVE  WInv'
<1>0. proxy \in {"ended", "over"} \/ wireEnded => farEnd # "none"
  BY DEF WInv, ProxyKnows
<1>1. ASSUME NEW s \in Sides, Call(s) PROVE WInv'
  <2>1. /\ wire'[s] = wire[s]
        /\ \/ wire'[Other(s)] = wire[Other(s)]
           \/ \E q \in Seqs : wire'[Other(s)] = Append(wire[Other(s)], Numbered("call", q))
    BY <1>1, CallS
  <2>2. /\ session' = session /\ tuned' = tuned /\ proxy' = proxy
        /\ UNCHANGED <<closed, cut, garbled, later, busy, waiting, farEnd, wireEnded>>
    BY <1>1 DEF Call, queue, client, process, server
  <2>3. PICK q \in Seqs : wire'[Other(s)] \in {wire[Other(s)], Append(wire[Other(s)], Numbered("call", q))}
    BY <1>1, <2>1 DEF Call
  <2>4. Other(s) \in Sides /\ Other(Other(s)) = s
    BY DEF Other, Sides
  <2> DEFINE g == Numbered("call", q)
  <2>5. g \in ForServer /\ g \in ForClient /\ g.k = "call"
    BY MadeFrames, MadeKinds
  <2> HIDE DEF g
  <2>6. wire'[Other(s)] \in {wire[Other(s)], Append(wire[Other(s)], g)}
    BY <2>3 DEF g
  <2> QED BY <1>0, <2>1, <2>2, <2>4, <2>5, <2>6, WritesW
<1>2. ASSUME NEW s \in Sides, Answer(s) PROVE WInv'
  <2>1. /\ wire'[Other(s)] = wire[Other(s)]
        /\ \/ wire'[s] = wire[s]
           \/ \E q \in Seqs : wire'[s] = Append(wire[s], Numbered("result", q))
    BY <1>2, AnswerS
  <2>2. /\ session' = session /\ tuned' = tuned /\ proxy' = proxy
        /\ UNCHANGED <<closed, cut, garbled, later, busy, waiting, farEnd, wireEnded>>
    BY <1>2 DEF Answer, queue, client, process, server
  <2>3. \E q \in Seqs : TRUE
    BY <1>2, LedgerFacts DEF Answer, SInv, Settings
  <2>4. PICK q \in Seqs : wire'[s] \in {wire[s], Append(wire[s], Numbered("result", q))}
    BY <2>1, <2>3
  <2> DEFINE g == Numbered("result", q)
  <2>5. g \in ForServer /\ g \in ForClient /\ g.k = "result"
    BY MadeFrames, MadeKinds
  <2> HIDE DEF g
  <2>6. wire'[s] \in {wire[s], Append(wire[s], g)}
    BY <2>4 DEF g
  <2> QED BY <1>0, <2>1, <2>2, <2>5, <2>6, WritesW
<1>3. ASSUME Emit PROVE WInv'
  <2> DEFINE g == F("emit")
  <2>1. /\ wire'["server"] = wire["server"]
        /\ \/ wire'["client"] = wire["client"]
           \/ Recorded /\ wire'["client"] = Append(wire["client"], g)
    BY <1>3, EmitS
  <2>2. /\ session' = session /\ tuned' = tuned /\ proxy' = proxy
        /\ UNCHANGED <<closed, cut, garbled, later, busy, waiting, farEnd, wireEnded>>
    BY <1>3 DEF Emit, queue, client, process, server
  <2>3. g \in ForClient /\ g.k = "emit"
    BY MadeFrames, MadeKinds
  <2> HIDE DEF g
  <2>4. CASE wire'["client"] = wire["client"]
    <3>1. ~garbled' => AllRead'
      BY <2>1, <2>2, <2>4 DEF WInv, Readable, AllRead
    <3>2. SameStage
      BY <2>2 DEF SameStage
    <3> QED BY <1>0, <2>1, <2>2, <2>4, <3>1, <3>2, TellsW
  <2>5. CASE Recorded /\ wire'["client"] = Append(wire["client"], g)
    <3>1. Other("client") = "server" /\ "client" \in Sides
      BY DEF Other, Sides
    <3>2. wire'["client"] \in {wire["client"], Append(wire["client"], g)}
      BY <2>5
    <3> QED BY <1>0, <2>1, <2>2, <2>3, <2>5, <3>1, <3>2, WritesW
  <2> QED BY <2>1, <2>4, <2>5
<1>4. ASSUME Say PROVE WInv'
  <2>1. /\ UNCHANGED <<closed, cut, garbled, later, busy, waiting, farEnd, wireEnded>>
        /\ session' = session /\ tuned' = tuned
    BY <1>4 DEF Say, queue, process, server
  <2>2. PICK c \in Classes \cup {"plain"} :
           /\ wire'["client"] = wire["client"]
           /\ wire'["server"] \in {wire["server"],
                 Append(wire["server"], [Numbered("say", said + 1) EXCEPT !.class = c])}
           /\ proxy' = proxy \/ farEnd # "none"
    <3>1. /\ wire'["client"] = wire["client"]
          /\ \/ /\ \E c \in Classes :
                      wire'["server"] = IF closed["client"] \/ closed["server"] \/ cut THEN wire["server"]
                         ELSE Append(wire["server"], [Numbered("say", said + 1) EXCEPT !.class = c])
                /\ UNCHANGED proxy
             \/ UNCHANGED wire /\ farEnd # "none"
      BY <1>4, SayS
    <3>2. CASE UNCHANGED wire /\ farEnd # "none"
      BY <3>2
    <3>3. CASE UNCHANGED proxy /\ \E c \in Classes :
                      wire'["server"] = IF closed["client"] \/ closed["server"] \/ cut THEN wire["server"]
                         ELSE Append(wire["server"], [Numbered("say", said + 1) EXCEPT !.class = c])
      BY <3>1, <3>3
    <3> QED BY <3>1, <3>2, <3>3
  <2> DEFINE g == [Numbered("say", said + 1) EXCEPT !.class = c]
  <2>3. g \in ForServer /\ g.k = "say"
    <3>1. said + 1 \in Nat /\ Classes \subseteq {"plain", "owes", "throws"}
      BY SessionAssumption DEF SInv, Settings
    <3> QED BY <3>1 DEF Numbered, ForServer, Frame
  <2> HIDE DEF g
  <2>4. wire'["server"] \in {wire["server"], Append(wire["server"], g)}
    BY <2>2 DEF g
  <2>5. Other("server") = "client" /\ "server" \in Sides
    BY DEF Other, Sides
  <2> QED BY <1>0, <2>1, <2>2, <2>3, <2>4, <2>5, WritesW
<1>5. ASSUME StopProxy PROVE WInv'
  <2> DEFINE g == F("stop")
  <2>1. /\ wire'["client"] = wire["client"]
        /\ wire'["server"] \in {wire["server"], Append(wire["server"], g)}
    BY <1>5, StopProxyS
  <2>2. /\ UNCHANGED <<closed, cut, garbled, later, busy, waiting, farEnd, wireEnded>>
        /\ session' = session /\ tuned' = tuned /\ proxy' = "stopping"
    BY <1>5 DEF StopProxy, queue, process, server
  <2>3. g \in ForServer /\ g.k = "stop"
    BY MadeFrames, MadeKinds
  <2> HIDE DEF g
  <2>5. Other("server") = "client" /\ "server" \in Sides
    BY DEF Other, Sides
  <2> QED BY <2>1, <2>2, <2>3, <2>5, WritesW
<1> QED BY <1>1, <1>2, <1>3, <1>4, <1>5

LEMMA HandshakeW ==
    ASSUME SInv, WInv, Handshake
    PROVE  WInv'
<1>1. /\ wire'["server"] = wire["server"]
      /\ waiting # <<>> /\ waiting' = Tail(waiting)
      /\ \/ Head(waiting).k = "init" /\ UNCHANGED wire
         \/ /\ Head(waiting).k = "bad"
            /\ \/ wire'["client"] = wire["client"]
               \/ wire'["client"] = Append(wire["client"], F("error"))
  BY HandshakeS
<1>2. /\ UNCHANGED <<closed, cut, garbled, later, busy, proxy, farEnd, wireEnded, tuned>>
      /\ SameStage
  BY DEF Handshake, queue, client, process, SameStage
<1>3. F("error") \in ForClient /\ F("error").k = "error"
  BY MadeFrames, MadeKinds
<1>4. ~garbled => Head(waiting).k # "bad" /\ Lacks(waiting', Unread) /\ AllRead
  <2>1. ~garbled => AllRead
    BY DEF WInv, Readable, AllRead
  <2> QED BY <1>1, <2>1, TailHolds, WireTypes DEF AllRead, Unread
<1>5. ~garbled' => AllRead'
  BY <1>1, <1>2, <1>4 DEF AllRead
<1>6. \/ wire'["client"] = wire["client"]
      \/ \E g \in ForClient :
            /\ wire'["client"] = Append(wire["client"], g)
            /\ g.k \notin {"exit", "fin"}
            /\ g.k \in About => session \notin {"lastword", "over"}
  BY <1>1, <1>3 DEF About
<1>7. proxy' \in {"ended", "over"} => farEnd # "none"
  BY <1>2 DEF WInv, ProxyKnows
<1> QED BY <1>1, <1>2, <1>5, <1>6, <1>7, TellsW

LEMMA ServeW ==
    ASSUME SInv, WInv, Serve
    PROVE  WInv'
<1>1. later'["server"] = waiting
  BY ServeS
<1>2. /\ UNCHANGED <<wire, closed, cut, garbled, busy, proxy, farEnd, wireEnded, tuned>>
      /\ waiting' = <<>> /\ SameStage
  BY DEF Serve, link, client, process, SameStage
<1>3. ~garbled' => AllRead'
  BY <1>1, <1>2, EmptyHolds DEF WInv, Readable, AllRead
<1>4. proxy' \in {"ended", "over"} => farEnd # "none"
  BY <1>2 DEF WInv, ProxyKnows
<1> QED BY <1>2, <1>3, <1>4, TellsW

LEMMA ArrivesClientW ==
    ASSUME SInv, WInv, FrameArrives("client")
    PROVE  WInv'
<1>1. PICK f \in ForClient : Gets("client", f)
  BY FrameGets
<1> DEFINE w == Arrived("client")
           wc == wire["client"]
           wd == wire'["client"]
<1>2. /\ wc # <<>> /\ wc \in Seq(ForClient) /\ wire["server"] \in Seq(ForServer)
      /\ w \in Wires /\ w["client"] = Tail(wc) /\ w["server"] = wire["server"]
  BY <1>1, ArrivedFacts, WireTypes DEF Gets
<1>3. /\ Takes("client", w, f) /\ UNCHANGED <<later, busy, waiting>>
  BY <1>1, ReceivesClient DEF Gets
<1> HIDE DEF w
<1>4. ClientDelivered(w, f)
  BY <1>2, <1>3, ClientTakesFacts
<1>5. UNCHANGED <<cut, session, tuned>> /\ (garbled => garbled')
      /\ \/ f = Head(wc) /\ garbled' = garbled
         \/ f.k = "bad" /\ garbled'
  BY <1>1, <1>4, MadeKinds DEF Gets, ClientDelivered, process
<1>6. /\ \A k : /\ Has(Tail(wc), k) => Has(wc, k)
                /\ Has(wc, k) => Head(wc).k = k \/ Has(Tail(wc), k)
                /\ Head(wc).k = k => Has(wc, k)
      /\ \A K : Lacks(wc, K) => Lacks(Tail(wc), K) /\ Head(wc).k \notin K
      /\ \A k, K : Last(wc, k, K) => Last(Tail(wc), k, K) /\ (Head(wc).k = k => Lacks(Tail(wc), K))
      /\ Tail(wc) \in Seq(ForClient)
  BY <1>2, TailHolds
<1>7. ~garbled => AllRead
  BY DEF WInv, Readable, AllRead
<1>8. /\ Has(wc, "exit") \/ farEnd = "exit" => session \in {"lastword", "over"}
      /\ Last(wc, "exit", About)
      /\ farEnd = "exit" => Lacks(wc, About)
      /\ closed["client"] => wireEnded
      /\ wireEnded \/ proxy \in {"ended", "over"} => farEnd # "none"
      /\ ~cut => /\ Has(wire["server"], "fin") => closed["client"]
                 /\ Has(wc, "fin") => closed["server"]
      /\ Last(wc, "fin", {"exit"})
      /\ ~cut /\ closed["server"] => session = "over" \/ closed["client"]
      /\ ~cut /\ ~garbled =>
          /\ tuned /\ session \in {"lastword", "over"} /\ farEnd = "none" => Has(wc, "exit")
          /\ farEnd = "lost" => session = "over" /\ ~tuned
  BY DEF WInv, WordLast, ProxyKnows, Closing, WordSaid
<1>9. CASE f.k \in Unread
  <2>1. /\ wire'["server"] = ClosesIn(w, "client")["server"]
        /\ \E n \in 0..Len(w["client"]) : wd = SubSeq(w["client"], 1, n)
        /\ closed' = [closed EXCEPT !["client"] = TRUE]
        /\ wireEnded' = TRUE /\ farEnd' = IF farEnd = "none" THEN "lost" ELSE farEnd
        /\ UNCHANGED proxy
    BY <1>4, <1>9 DEF ClientDelivered
  <2>2. garbled'
    <3>1. f = Head(wc) => garbled
      BY <1>6, <1>7, <1>9 DEF AllRead
    <3> QED BY <1>5, <3>1
  <2>3. closed'["client"] /\ closed'["server"] = closed["server"]
    BY <2>1 DEF SInv, Settings, Sides
  <2>4. /\ \A k : Has(wd, k) => Has(wc, k)
        /\ \A K : Lacks(wc, K) => Lacks(wd, K)
        /\ \A k, K : Last(wc, k, K) => Last(wd, k, K)
    <3>1. PICK n \in 0..Len(Tail(wc)) : wd = SubSeq(Tail(wc), 1, n)
      BY <1>2, <2>1
    <3> HIDE DEF wc, wd
    <3> QED BY <1>6, <3>1, PartHolds
  <2> HIDE DEF wc, wd
  <2>5. WordLast'
    BY <1>5, <1>8, <2>1, <2>4 DEF WordLast, wd
  <2>6. ProxyKnows'
    BY <2>1 DEF ProxyKnows
  <2>7. Closing'
    BY <1>5, <1>8, <2>3, <2>4 DEF Closing, wd
  <2> QED BY <2>2, <2>5, <2>6, <2>7 DEF WInv, Readable, WordSaid
<1>10. CASE f.k \notin Unread
  <2>1. /\ wire' = w
        /\ proxy' = IF f.k = "state" /\ proxy = "opening" THEN "up" ELSE proxy
        /\ farEnd' = IF f.k = "exit" /\ farEnd = "none" THEN "exit" ELSE farEnd
        /\ UNCHANGED <<closed, wireEnded>>
    BY <1>4, <1>10 DEF ClientDelivered
  <2>2. f = Head(wc) /\ garbled' = garbled
    BY <1>5, <1>10 DEF Unread
  <2>3. wd = Tail(wc) /\ wire'["server"] = wire["server"]
    BY <1>2, <2>1
  <2> HIDE DEF wc, wd
  <2>4. WordLast'
    BY <1>5, <1>6, <1>8, <2>1, <2>2, <2>3 DEF WordLast, wd
  <2>5. ProxyKnows'
    <3>1. proxy' \in {"ended", "over"} => proxy \in {"ended", "over"}
      BY <2>1
    <3> QED BY <1>8, <2>1, <3>1 DEF ProxyKnows
  <2>6. Readable'
    BY <1>3, <1>6, <1>7, <2>2, <2>3 DEF Readable, AllRead, wd, wc
  <2>7. Closing'
    BY <1>5, <1>6, <1>8, <2>1, <2>3 DEF Closing, wd
  <2>8. WordSaid'
    <3>1. farEnd' = "none" => farEnd = "none" /\ Head(wc).k # "exit"
      BY <2>1, <2>2
    <3>2. farEnd' = "lost" => farEnd = "lost"
      BY <2>1
    <3> QED BY <1>5, <1>6, <1>8, <2>2, <2>3, <3>1, <3>2 DEF WordSaid, wd
  <2> QED BY <2>4, <2>5, <2>6, <2>7, <2>8 DEF WInv
<1> QED BY <1>9, <1>10

LEMMA OctetsAskedW ==
    ASSUME SInv, WInv, OctetsAsked
    PROVE  WInv'
<1> DEFINE wc == wire["client"]
           ws == wire["server"]
           g == F("octets")
<1>1. /\ wc # <<>> /\ Head(wc).k = "ask" /\ wire'["client"] = Tail(wc)
      /\ wire'["server"] \in {ws, Append(ws, g)}
  BY OctetsAskedS
<1>2. wc \in Seq(ForClient) /\ ws \in Seq(ForServer) /\ g \in ForServer /\ g.k = "octets"
  BY WireTypes, MadeFrames, MadeKinds
<1> HIDE DEF g
<1>3. UNCHANGED <<closed, cut, garbled, later, busy, waiting, proxy, farEnd, wireEnded, tuned, session>>
  BY DEF OctetsAsked, queue, client, process, server
<1>4. /\ \A k : /\ Has(Tail(wc), k) => Has(wc, k)
                /\ Has(wc, k) => Head(wc).k = k \/ Has(Tail(wc), k)
      /\ \A K : Lacks(wc, K) => Lacks(Tail(wc), K)
      /\ \A k, K : Last(wc, k, K) => Last(Tail(wc), k, K)
  BY <1>1, <1>2, TailHolds
<1>5. /\ Has(wire'["server"], "fin") => Has(ws, "fin")
      /\ Lacks(ws, Unread) => Lacks(wire'["server"], Unread)
  <2>1. (Has(Append(ws, g), "fin") => Has(ws, "fin")) /\ (Lacks(ws, Unread) => Lacks(Append(ws, g), Unread))
    BY <1>2, AppendHolds DEF Unread
  <2> QED BY <1>1, <2>1
<1> HIDE DEF wc, ws
<1>6. WordLast'
  BY <1>1, <1>3, <1>4 DEF WInv, WordLast, wc
<1>7. ProxyKnows'
  BY <1>3 DEF WInv, ProxyKnows
<1>8. Readable'
  BY <1>1, <1>3, <1>4, <1>5 DEF WInv, Readable, wc, ws
<1>9. Closing'
  BY <1>1, <1>3, <1>4, <1>5 DEF WInv, Closing, wc, ws
<1>10. WordSaid'
  BY <1>1, <1>3, <1>4 DEF WInv, WordSaid, wc
<1> QED BY <1>6, <1>7, <1>8, <1>9, <1>10 DEF WInv

LEMMA CloseArrivesW ==
    ASSUME SInv, WInv, NEW s \in Sides, CloseArrives(s)
    PROVE  WInv'
<1> DEFINE wc == wire["client"]
<1>0. wc \in Seq(ForClient) /\ wire["server"] \in Seq(ForServer)
  BY WireTypes
<1>1. /\ wire[s] # <<>> /\ Head(wire[s]).k = "fin"
      /\ closed' = [closed EXCEPT ![s] = TRUE]
      /\ UNCHANGED <<cut, garbled, later, busy, waiting, proxy, tuned>>
      /\ \/ s = "server" /\ ServerHearsClose /\ UNCHANGED <<farEnd, wireEnded>>
         \/ s = "client" /\ WireGone /\ UNCHANGED session
  BY DEF CloseArrives, queue, process
<1>2. wire'[s] = <<>> /\ wire'[Other(s)] = wire[Other(s)]
  BY CloseArrivesS
<1>3. closed'[s] /\ closed'[Other(s)] = closed[Other(s)]
  BY <1>1 DEF SInv, Settings, Sides, Other
<1>4. Has(wire[s], "fin")
  BY <1>0, <1>1, TailHolds DEF Sides
<1>5. ~garbled => AllRead
  BY DEF WInv, Readable, AllRead
<1>6. CASE s = "server"
  <2>1. /\ wire'["server"] = <<>> /\ wire'["client"] = wc
        /\ closed'["server"] /\ closed'["client"] = closed["client"]
        /\ UNCHANGED <<farEnd, wireEnded>>
    BY <1>1, <1>2, <1>3, <1>6 DEF Other
  <2>2. (session' = "over" <=> session = "over") /\ (session' = "lastword" <=> session = "lastword")
    BY <1>1, <1>6 DEF ServerHearsClose
  <2>3. ~cut => closed["client"]
    BY <1>4, <1>6 DEF WInv, Closing
  <2>4. WordLast'
    BY <2>1, <2>2 DEF WInv, WordLast
  <2>5. ProxyKnows'
    BY <1>1, <2>1 DEF WInv, ProxyKnows
  <2>6. Readable'
    BY <1>1, <1>5, <2>1, EmptyHolds DEF Readable, AllRead
  <2>7. Closing'
    BY <1>1, <2>1, <2>2, <2>3, EmptyHolds DEF WInv, Closing
  <2>8. WordSaid'
    BY <1>1, <2>1, <2>2 DEF WInv, WordSaid
  <2> QED BY <2>4, <2>5, <2>6, <2>7, <2>8 DEF WInv
<1>7. CASE s = "client"
  <2>1. /\ wire'["client"] = <<>> /\ wire'["server"] = wire["server"]
        /\ closed'["client"] /\ closed'["server"] = closed["server"]
        /\ UNCHANGED session
        /\ wireEnded' = TRUE /\ farEnd' = IF farEnd = "none" THEN "lost" ELSE farEnd
    BY <1>1, <1>2, <1>3, <1>7 DEF Other, WireGone
  <2>2. WordLast'
    BY <2>1, EmptyHolds DEF WInv, WordLast
  <2>3. ProxyKnows'
    BY <2>1 DEF ProxyKnows
  <2>4. Readable'
    BY <1>1, <1>5, <2>1, EmptyHolds DEF Readable, AllRead
  <2>5. Closing'
    BY <1>1, <2>1, EmptyHolds DEF WInv, Closing
  <2>6. WordSaid'
    <3> SUFFICES ASSUME ~cut, ~garbled, farEnd = "none"
                 PROVE  session = "over" /\ ~tuned
      BY <1>1, <2>1 DEF WInv, WordSaid
    <3>1. closed["server"] /\ ~closed["client"]
      BY <1>4, <1>7 DEF WInv, Closing, ProxyKnows
    <3>2. session = "over"
      BY <3>1 DEF WInv, Closing
    <3>3. ~Has(wc, "exit")
      <4>1. Last(wc, "fin", {"exit"})
        BY DEF WInv, Closing
      <4>2. wc # <<>> /\ Head(wc).k = "fin"
        BY <1>1, <1>7
      <4>3. Lacks(Tail(wc), {"exit"})
        BY <1>0, <4>1, <4>2, TailHolds
      <4>4. ~Has(Tail(wc), "exit")
        BY <4>3 DEF Has, Lacks
      <4> QED BY <1>0, <4>2, <4>4, TailHolds
    <3> QED BY <3>2, <3>3 DEF WInv, WordSaid
  <2> QED BY <2>2, <2>3, <2>4, <2>5, <2>6 DEF WInv
<1> QED BY <1>6, <1>7 DEF Sides

LEMMA CutW ==
    ASSUME SInv, WInv, Cut
    PROVE  WInv'
<1>1. cut' /\ \A s \in Sides : wire'[s] = IF closed[s] THEN <<>> ELSE <<F("fin")>>
  BY CutS
<1>2. UNCHANGED <<closed, garbled, later, busy, waiting, proxy, farEnd, wireEnded, tuned, session>>
  BY DEF Cut, queue, client, process, server
<1>3. ASSUME NEW s \in Sides
      PROVE  /\ ~Has(wire'[s], "exit") /\ Lacks(wire'[s], About) /\ Lacks(wire'[s], Unread)
             /\ Last(wire'[s], "exit", About) /\ Last(wire'[s], "fin", {"exit"})
  <2>1. \A i \in DOMAIN wire'[s] : wire'[s][i].k = "fin"
    BY <1>1, MadeKinds
  <2> QED BY <2>1 DEF Has, Lacks, Last, About, Unread
<1>4. WordLast'
  BY <1>2, <1>3 DEF WInv, WordLast, Sides
<1>5. ProxyKnows'
  BY <1>2 DEF WInv, ProxyKnows
<1>6. Readable'
  BY <1>2, <1>3 DEF WInv, Readable, Sides
<1>7. Closing' /\ WordSaid'
  BY <1>1, <1>3 DEF Closing, WordSaid, Sides
<1> QED BY <1>4, <1>5, <1>6, <1>7 DEF WInv

\* A side closes: what was on its way to it is gone, and the other may be told.
LEMMA TurnedW ==
    ASSUME SInv, WInv, Turned
    PROVE  WInv'
<1> DEFINE wc == wire["client"]
           wd == wire'["client"]
           g == F("fin")
<1>1. /\ session = "offered" /\ session' = "over"
      /\ closed' = [closed EXCEPT !["server"] = TRUE]
      /\ wire' = ClosesIn(wire, "server")
      /\ UNCHANGED <<cut, garbled, later, busy, waiting, proxy, farEnd, wireEnded, tuned>>
  BY DEF Turned, queue, client, process
<1>2. wire'["server"] = <<>> /\ wd \in {wc, Append(wc, g)}
  BY <1>1, ClosesServer DEF SInv, Frames
<1>3. closed'["server"] /\ closed'["client"] = closed["client"]
  BY <1>1 DEF SInv, Settings, Sides
<1>4. wc \in Seq(ForClient) /\ g \in ForClient /\ g.k = "fin"
  BY WireTypes, MadeFrames, MadeKinds
<1> HIDE DEF g
<1>5. /\ Has(wd, "exit") <=> Has(wc, "exit")
      /\ Last(wc, "exit", About) => Last(wd, "exit", About)
      /\ Lacks(wc, About) => Lacks(wd, About)
      /\ Lacks(wc, Unread) => Lacks(wd, Unread)
      /\ Last(wc, "fin", {"exit"}) => Last(wd, "fin", {"exit"})
  <2>1. CASE wd = wc
    BY <2>1
  <2>2. CASE wd = Append(wc, g)
    BY <1>4, <2>2, AppendHolds DEF About, Unread
  <2> QED BY <1>2, <2>1, <2>2
<1>6. ~tuned
  BY <1>1 DEF SInv, Stages, Early
<1> HIDE DEF wc, wd
<1>7. WordLast'
  BY <1>1, <1>5 DEF WInv, WordLast, wc, wd
<1>8. ProxyKnows'
  BY <1>1, <1>3 DEF WInv, ProxyKnows
<1>9. Readable'
  BY <1>1, <1>2, <1>5, EmptyHolds DEF WInv, Readable, wc, wd
<1>10. Closing'
  BY <1>1, <1>2, <1>3, <1>5, EmptyHolds DEF WInv, Closing, wc, wd
<1>11. WordSaid'
  BY <1>1, <1>6 DEF WInv, WordSaid
<1> QED BY <1>7, <1>8, <1>9, <1>10, <1>11 DEF WInv

LEMMA LastWordW ==
    ASSUME SInv, WInv, LastWord
    PROVE  WInv'
<1> DEFINE wc == wire["client"]
           wd == wire'["client"]
           g == F("exit")
<1>1. /\ session = "ending" /\ session' = "lastword"
      /\ UNCHANGED <<closed, cut, garbled, later, busy, waiting, proxy, farEnd, wireEnded, tuned>>
  BY DEF LastWord, queue, client, process
<1>2. /\ wire'["server"] = wire["server"]
      /\ wd = IF ~tuned \/ closed["server"] \/ closed["client"] \/ cut THEN wc ELSE Append(wc, g)
  BY LastWordS
<1>3. wc \in Seq(ForClient) /\ g \in ForClient /\ g.k = "exit"
  BY WireTypes, MadeFrames, MadeKinds
<1> HIDE DEF g
<1>4. ~Has(wc, "exit") /\ farEnd # "exit"
  BY <1>1 DEF WInv, WordLast
<1>5. /\ Last(wc, "exit", About) => Last(wd, "exit", About)
      /\ Lacks(wc, Unread) => Lacks(wd, Unread)
      /\ Has(wd, "fin") <=> Has(wc, "fin")
  <2>1. CASE wd = wc
    BY <2>1
  <2>2. CASE wd = Append(wc, g)
    BY <1>3, <1>4, <2>2, AppendHolds DEF About, Unread
  <2> QED BY <1>2, <2>1, <2>2
<1>6. Last(wd, "fin", {"exit"})
  <2>1. Last(wc, "fin", {"exit"})
    BY DEF WInv, Closing
  <2>2. CASE ~tuned \/ closed["server"] \/ closed["client"] \/ cut
    BY <1>2, <2>1, <2>2
  <2>3. CASE ~(~tuned \/ closed["server"] \/ closed["client"] \/ cut)
    <3>1. ~Has(wc, "fin")
      BY <2>3 DEF WInv, Closing
    <3> QED BY <1>2, <1>3, <2>1, <2>3, <3>1, AppendHolds
  <2> QED BY <2>2, <2>3
<1>7. ~cut /\ ~garbled /\ tuned /\ farEnd = "none" => Has(wd, "exit")
  <2> SUFFICES ASSUME ~cut, ~garbled, tuned, farEnd = "none"
               PROVE  Has(wd, "exit")
    OBVIOUS
  <2>1. ~closed["client"]
    BY DEF WInv, ProxyKnows
  <2>2. ~closed["server"]
    BY <1>1, <2>1 DEF WInv, Closing
  <2> QED BY <1>2, <1>3, <2>1, <2>2, AppendHolds
<1> HIDE DEF wc, wd
<1>8. WordLast'
  BY <1>1, <1>4, <1>5 DEF WInv, WordLast, wc, wd
<1>9. ProxyKnows'
  BY <1>1 DEF WInv, ProxyKnows
<1>10. Readable'
  BY <1>1, <1>2, <1>5 DEF WInv, Readable, wc, wd
<1>11. Closing'
  BY <1>1, <1>2, <1>5, <1>6 DEF WInv, Closing, wc, wd
<1>12. WordSaid'
  BY <1>1, <1>7 DEF WInv, WordSaid, wd
<1> QED BY <1>8, <1>9, <1>10, <1>11, <1>12 DEF WInv

LEMMA CloseServerW ==
    ASSUME SInv, WInv, CloseServer
    PROVE  WInv'
<1> DEFINE wc == wire["client"]
           wd == wire'["client"]
           g == F("fin")
<1>1. /\ session = "lastword" /\ session' = "over"
      /\ closed' = [closed EXCEPT !["server"] = TRUE]
      /\ UNCHANGED <<cut, garbled, later, waiting, proxy, farEnd, wireEnded, tuned>>
  BY DEF CloseServer, client, process
<1>2. /\ wire'["server"] \in {wire["server"], <<>>}
      /\ wd \in {wc, Append(wc, g)}
      /\ busy'["server"] \in {<<>>, busy["server"]}
  BY CloseServerS
<1>3. closed'["server"] /\ closed'["client"] = closed["client"]
  BY <1>1 DEF SInv, Settings, Sides
<1>4. wc \in Seq(ForClient) /\ g \in ForClient /\ g.k = "fin"
  BY WireTypes, MadeFrames, MadeKinds
<1> HIDE DEF g
<1>5. /\ Has(wd, "exit") <=> Has(wc, "exit")
      /\ Last(wc, "exit", About) => Last(wd, "exit", About)
      /\ Lacks(wc, About) => Lacks(wd, About)
      /\ Lacks(wc, Unread) => Lacks(wd, Unread)
      /\ Last(wc, "fin", {"exit"}) => Last(wd, "fin", {"exit"})
  <2>1. CASE wd = wc
    BY <2>1
  <2>2. CASE wd = Append(wc, g)
    BY <1>4, <2>2, AppendHolds DEF About, Unread
  <2> QED BY <1>2, <2>1, <2>2
<1> HIDE DEF wc, wd
<1>7. WordLast'
  BY <1>1, <1>5 DEF WInv, WordLast, wc, wd
<1>8. ProxyKnows'
  BY <1>1, <1>3 DEF WInv, ProxyKnows
<1>9. Readable'
  BY <1>1, <1>2, <1>5, EmptyHolds DEF WInv, Readable, wc, wd
<1>10. Closing'
  BY <1>1, <1>2, <1>3, <1>5, EmptyHolds DEF WInv, Closing, wc, wd
<1>11. WordSaid'
  BY <1>1, <1>5 DEF WInv, WordSaid, wc, wd
<1> QED BY <1>7, <1>8, <1>9, <1>10, <1>11 DEF WInv

LEMMA ProxyClosesW ==
    ASSUME SInv, WInv, ProxyCloses
    PROVE  WInv'
<1> DEFINE ws == wire["server"]
           g == F("fin")
<1>1. /\ proxy = "ended" /\ wireEnded' /\ farEnd' = (IF farEnd = "none" THEN "lost" ELSE farEnd)
      /\ closed' = [closed EXCEPT !["client"] = TRUE]
      /\ UNCHANGED <<cut, garbled, later, busy, waiting, session, tuned>>
  BY DEF ProxyCloses, WireGone, queue, process, server
<1>2. wire'["client"] = <<>> /\ wire'["server"] \in {ws, Append(ws, g)}
  BY ProxyClosesS
<1>3. closed'["client"] /\ closed'["server"] = closed["server"]
  BY <1>1 DEF SInv, Settings, Sides
<1>4. ws \in Seq(ForServer) /\ g \in ForServer /\ g.k = "fin"
  BY WireTypes, MadeFrames, MadeKinds
<1> HIDE DEF g
<1>5. Lacks(ws, Unread) => Lacks(wire'["server"], Unread)
  <2>1. Lacks(ws, Unread) => Lacks(Append(ws, g), Unread)
    BY <1>4, AppendHolds DEF Unread
  <2> QED BY <1>2, <2>1
<1>6. farEnd # "none" /\ farEnd' = farEnd
  BY <1>1 DEF WInv, ProxyKnows
<1> HIDE DEF ws
<1>7. WordLast'
  BY <1>1, <1>2, <1>6, EmptyHolds DEF WInv, WordLast
<1>8. ProxyKnows'
  BY <1>1, <1>6 DEF ProxyKnows
<1>9. Readable'
  BY <1>1, <1>2, <1>5, EmptyHolds DEF WInv, Readable, ws
<1>10. Closing'
  BY <1>1, <1>2, <1>3, EmptyHolds DEF WInv, Closing
<1>11. WordSaid'
  BY <1>1, <1>6 DEF WInv, WordSaid
<1> QED BY <1>7, <1>8, <1>9, <1>10, <1>11 DEF WInv

LEMMA NextWInv == SInv /\ WInv /\ [Next]_vars => WInv'
<1> SUFFICES ASSUME SInv, WInv, [Next]_vars PROVE WInv'
  OBVIOUS
<1>1. CASE Medium
  BY <1>1, ArrivesServerW, ArrivesClientW, CloseArrivesW, OctetsAskedW, OctetsArriveW DEF Medium, Sides
<1>2. CASE ServerStep
  BY <1>2, QuietStepsW, TurnedW, HandshakeW, ServeW, LastWordW, CloseServerW DEF ServerStep, ProcStops
<1>3. CASE ProxyStep
  BY <1>3, QuietStepsW, ProxyClosesW DEF ProxyStep
<1>4. CASE \E s \in Sides : Pump(s) \/ Answer(s) \/ Call(s)
  BY <1>4, PumpW, WritingStepsW
<1>5. CASE ReactorEnds \/ ReactorStopped \/ Cut \/ StopReactor
  BY <1>5, QuietStepsW, CutW
<1>6. CASE MakeFails \/ ReadyFails \/ ProcEnds \/ Emit \/ Say \/ StopProxy
  BY <1>6, QuietStepsW, WritingStepsW
<1>7. CASE UNCHANGED vars
  BY <1>7, QuietStepsW
<1> QED BY <1>1, <1>2, <1>3, <1>4, <1>5, <1>6, <1>7 DEF Next, Steps

\* The end of the served process is the last thing the proxy hears about it, and it is said
\* before the connection closes: a far root is lost without a word only when the medium was
\* cut or garbled a frame.
THEOREM ExitIsLastWordAlways == Spec => []ExitIsLastWord
<1>1. SInv /\ WInv => ExitIsLastWord
  <2> SUFFICES ASSUME SInv, WInv PROVE ExitIsLastWord
    OBVIOUS
  <2>1. busy["client"] = <<>> /\ later["client"] = <<>> /\ wire["client"] \in Seq(ForClient)
    BY PairFacts DEF SInv, Frames
  <2>2. Inbound("client") = wire["client"]
    BY <2>1 DEF Inbound
  <2>3. /\ Last(wire["client"], "exit", About)
        /\ farEnd = "exit" => Lacks(wire["client"], About)
    BY DEF WInv, WordLast
  <2>4. farEnd = "lost" /\ tuned => cut \/ garbled
    BY DEF WInv, WordSaid
  <2> QED BY <2>2, <2>3, <2>4 DEF ExitIsLastWord, Last, Lacks, About
<1>2. Spec => [](SInv /\ WInv)
  BY InitSInv, NextSInv, InitWInv, NextWInv, PTL DEF Spec
<1> QED BY <1>1, <1>2, PTL

-----------------------------------------------------------------------------
(* The numbers of the messages in a sequence of frames. *)

LEMMA NumsFacts ==
    /\ \A fs : \A n : n \in Nums(fs) <=> \E i \in DOMAIN fs : fs[i].k = "say" /\ fs[i].n = n
    /\ \A fs : Ascends(fs) <=> \A i, j \in DOMAIN fs :
          i < j /\ fs[i].k = "say" /\ fs[j].k = "say" => fs[i].n < fs[j].n
    /\ \A fs : Nums(fs) = {} => Ascends(fs)
    /\ Nums(<<>>) = {}
<1>1. \A fs : \A n : n \in Nums(fs) <=> \E i \in DOMAIN fs : fs[i].k = "say" /\ fs[i].n = n
  BY DEF Nums, Sayings
<1>2. \A fs : Ascends(fs) <=> \A i, j \in DOMAIN fs :
          i < j /\ fs[i].k = "say" /\ fs[j].k = "say" => fs[i].n < fs[j].n
  BY DEF Ascends, Sayings
<1>3. \A fs : Nums(fs) = {} => Ascends(fs)
  BY DEF Nums, Ascends
<1>4. Nums(<<>>) = {}
  BY DEF Nums, Sayings
<1> QED BY <1>1, <1>2, <1>3, <1>4

\* What one frame adds.
Num(f) == IF f.k = "say" THEN {f.n} ELSE {}
\* One set of numbers before another.
Before(A, B) == \A m \in A, n \in B : m < n

LEMMA JoinNums ==
    ASSUME NEW S, NEW a \in Seq(S), NEW b \in Seq(S)
    PROVE  /\ Nums(a \o b) = Nums(a) \cup Nums(b)
           /\ Ascends(a \o b) <=> Ascends(a) /\ Ascends(b) /\ Before(Nums(a), Nums(b))
<1> DEFINE c == a \o b
           p == Len(a)
           q == Len(b)
<1>1. /\ p \in Nat /\ q \in Nat
      /\ DOMAIN a = 1..p /\ DOMAIN b = 1..q /\ DOMAIN c = 1..(p + q)
      /\ \A i \in 1..p : c[i] = a[i]
      /\ \A i \in 1..q : c[p + i] = b[i]
  OBVIOUS
<1> HIDE DEF c, p, q
<1>2. /\ \A i \in 1..p : i \in 1..(p + q)
      /\ \A i \in 1..q : p + i \in 1..(p + q)
      /\ \A i \in 1..(p + q) : i \in 1..p \/ (i - p \in 1..q /\ p + (i - p) = i)
  BY <1>1
<1>3. ASSUME NEW n
      PROVE  n \in Nums(c) <=> n \in Nums(a) \/ n \in Nums(b)
  <2>1. n \in Nums(a) \/ n \in Nums(b) => n \in Nums(c)
    BY <1>1, <1>2, NumsFacts
  <2>2. ASSUME n \in Nums(c) PROVE n \in Nums(a) \/ n \in Nums(b)
    <3>1. PICK i \in 1..(p + q) : c[i].k = "say" /\ c[i].n = n
      BY <1>1, <2>2, NumsFacts
    <3>2. CASE i \in 1..p
      BY <1>1, <3>1, <3>2, NumsFacts
    <3>3. CASE i \notin 1..p
      <4>1. i - p \in 1..q /\ c[i] = b[i - p]
        BY <1>1, <1>2, <3>1, <3>3
      <4> QED BY <1>1, <3>1, <4>1, NumsFacts
    <3> QED BY <3>2, <3>3
  <2> QED BY <2>1, <2>2
<1>4. ASSUME Ascends(c)
      PROVE  Ascends(a) /\ Ascends(b) /\ Before(Nums(a), Nums(b))
  <2>1. \A i, j \in 1..(p + q) : i < j /\ c[i].k = "say" /\ c[j].k = "say" => c[i].n < c[j].n
    BY <1>1, <1>4, NumsFacts
  <2>2. Ascends(a)
    BY <1>1, <1>2, <2>1, NumsFacts
  <2>3. Ascends(b)
    <3>1. ASSUME NEW i \in 1..q, NEW j \in 1..q, i < j, b[i].k = "say", b[j].k = "say"
          PROVE  b[i].n < b[j].n
      <4>1. p + i < p + j /\ c[p + i] = b[i] /\ c[p + j] = b[j]
        BY <1>1, <3>1
      <4>2. p + i \in 1..(p + q) /\ p + j \in 1..(p + q)
        BY <1>2
      <4> QED BY <2>1, <3>1, <4>1, <4>2
    <3> QED BY <1>1, <3>1, NumsFacts
  <2>4. ASSUME NEW m \in Nums(a), NEW n \in Nums(b)
        PROVE  m < n
    <3>0. /\ \E i \in DOMAIN a : a[i].k = "say" /\ a[i].n = m
          /\ \E j \in DOMAIN b : b[j].k = "say" /\ b[j].n = n
      BY ONLY m \in Nums(a), n \in Nums(b), NumsFacts
    <3>1. PICK i \in 1..p : a[i].k = "say" /\ a[i].n = m
      BY <1>1, <3>0
    <3>2. PICK j \in 1..q : b[j].k = "say" /\ b[j].n = n
      BY <1>1, <3>0
    <3>3. i < p + j /\ c[i] = a[i] /\ c[p + j] = b[j]
      <4>1. p \in Nat /\ c[i] = a[i] /\ c[p + j] = b[j]
        BY <1>1
      <4>2. i < p + j
        BY ONLY <4>1, i \in 1..p, j \in 1..q
      <4> QED BY <4>1, <4>2
    <3>4. i \in 1..(p + q) /\ p + j \in 1..(p + q)
      BY <1>2
    <3>5. c[i].n < c[p + j].n
      BY <2>1, <3>1, <3>2, <3>3, <3>4
    <3> QED BY <3>1, <3>2, <3>3, <3>5
  <2> QED BY <2>2, <2>3, <2>4 DEF Before
<1>5. ASSUME Ascends(a), Ascends(b), Before(Nums(a), Nums(b))
      PROVE  Ascends(c)
  <2>1. ASSUME NEW i \in 1..(p + q), NEW j \in 1..(p + q), i < j, c[i].k = "say", c[j].k = "say"
        PROVE  c[i].n < c[j].n
    <3>1. CASE j \in 1..p
      <4>1. i \in 1..p /\ c[i] = a[i] /\ c[j] = a[j]
        BY <1>1, <2>1, <3>1
      <4>2. \A u, v \in 1..p : u < v /\ a[u].k = "say" /\ a[v].k = "say" => a[u].n < a[v].n
        BY <1>1, <1>5, NumsFacts
      <4> QED BY <2>1, <3>1, <4>1, <4>2
    <3>2. CASE i \in 1..p /\ j \notin 1..p
      <4>1. j - p \in 1..q /\ c[j] = b[j - p] /\ c[i] = a[i]
        BY <1>1, <1>2, <3>2
      <4>2. c[i].n \in Nums(a) /\ c[j].n \in Nums(b)
        BY <1>1, <2>1, <3>2, <4>1, NumsFacts
      <4> QED BY <1>5, <4>2 DEF Before
    <3>3. CASE i \notin 1..p
      <4>1. j \notin 1..p /\ i - p < j - p
        BY <1>1, <2>1, <3>3
      <4>2. i - p \in 1..q /\ j - p \in 1..q /\ c[i] = b[i - p] /\ c[j] = b[j - p]
        BY <1>1, <1>2, <3>3, <4>1
      <4>3. \A u, v \in 1..q : u < v /\ b[u].k = "say" /\ b[v].k = "say" => b[u].n < b[v].n
        BY <1>1, <1>5, NumsFacts
      <4> QED BY <2>1, <4>1, <4>2, <4>3
    <3> QED BY <3>1, <3>2, <3>3
  <2> QED BY <1>1, <2>1, NumsFacts
<1> QED BY <1>3, <1>4, <1>5 DEF c

\* One frame, one frame more, one frame less.
LEMMA OneNum ==
    ASSUME NEW g \in ForServer
    PROVE  Nums(<<g>>) = Num(g) /\ Ascends(<<g>>)
<1>1. DOMAIN <<g>> = {1} /\ <<g>>[1] = g
  OBVIOUS
<1>2. Nums(<<g>>) = Num(g)
  <2>1. \A n : n \in Nums(<<g>>) <=> g.k = "say" /\ g.n = n
    BY <1>1, NumsFacts
  <2> QED BY <2>1 DEF Num
<1>3. Ascends(<<g>>)
  BY <1>1, NumsFacts
<1> QED BY <1>2, <1>3

LEMMA AppendNums ==
    ASSUME NEW fs \in Seq(ForServer), NEW f \in ForServer
    PROVE  /\ Nums(Append(fs, f)) = Nums(fs) \cup Num(f)
           /\ Ascends(Append(fs, f)) <=> Ascends(fs) /\ Before(Nums(fs), Num(f))
<1> DEFINE one == <<f>>
<1>1. Append(fs, f) = fs \o one /\ one \in Seq(ForServer)
  OBVIOUS
<1>2. Nums(one) = Num(f) /\ Ascends(one)
  BY OneNum
<1> HIDE DEF one
<1>3. /\ Nums(fs \o one) = Nums(fs) \cup Nums(one)
      /\ Ascends(fs \o one) <=> Ascends(fs) /\ Ascends(one) /\ Before(Nums(fs), Nums(one))
  BY <1>1, JoinNums
<1> QED BY <1>1, <1>2, <1>3

LEMMA TailNums ==
    ASSUME NEW fs \in Seq(ForServer), fs # <<>>
    PROVE  /\ Nums(fs) = Num(Head(fs)) \cup Nums(Tail(fs))
           /\ Ascends(fs) => Ascends(Tail(fs)) /\ Before(Num(Head(fs)), Nums(Tail(fs)))
<1> DEFINE h == Head(fs)
           t == Tail(fs)
           one == <<h>>
<1>1. fs = one \o t /\ one \in Seq(ForServer) /\ t \in Seq(ForServer) /\ h \in ForServer
  OBVIOUS
<1> HIDE DEF h, t
<1>2. Nums(one) = Num(h) /\ Ascends(one)
  BY <1>1, OneNum
<1> HIDE DEF one
<1>3. /\ Nums(one \o t) = Nums(one) \cup Nums(t)
      /\ Ascends(one \o t) <=> Ascends(one) /\ Ascends(t) /\ Before(Nums(one), Nums(t))
  BY <1>1, JoinNums
<1>4. Nums(fs) = Num(h) \cup Nums(t) /\ (Ascends(fs) => Ascends(t) /\ Before(Num(h), Nums(t)))
  BY <1>1, <1>2, <1>3
<1> QED BY <1>4 DEF h, t

\* The four places where a frame for the server may be.
LEMMA LineNums ==
    ASSUME NEW S, NEW b \in Seq(S), NEW l \in Seq(S), NEW w \in Seq(S), NEW r \in Seq(S)
    PROVE  /\ Nums(b \o l \o w \o r) = Nums(b) \cup Nums(l) \cup Nums(w) \cup Nums(r)
           /\ Ascends(b \o l \o w \o r) <=>
                 /\ Ascends(b) /\ Ascends(l) /\ Ascends(w) /\ Ascends(r)
                 /\ Before(Nums(b), Nums(l) \cup Nums(w) \cup Nums(r))
                 /\ Before(Nums(l), Nums(w) \cup Nums(r)) /\ Before(Nums(w), Nums(r))
<1> DEFINE x == b \o l
           y == x \o w
<1>1. x \in Seq(S) /\ y \in Seq(S) /\ b \o l \o w \o r = y \o r
  OBVIOUS
<1>2. Nums(x) = Nums(b) \cup Nums(l)
      /\ (Ascends(x) <=> Ascends(b) /\ Ascends(l) /\ Before(Nums(b), Nums(l)))
  BY JoinNums
<1> HIDE DEF x
<1>3. Nums(y) = Nums(x) \cup Nums(w)
      /\ (Ascends(y) <=> Ascends(x) /\ Ascends(w) /\ Before(Nums(x), Nums(w)))
  BY <1>1, JoinNums
<1> HIDE DEF y
<1>4. Nums(y \o r) = Nums(y) \cup Nums(r)
      /\ (Ascends(y \o r) <=> Ascends(y) /\ Ascends(r) /\ Before(Nums(y), Nums(r)))
  BY <1>1, JoinNums
<1>6. Nums(b \o l \o w \o r) = Nums(b) \cup Nums(l) \cup Nums(w) \cup Nums(r)
  BY <1>1, <1>2, <1>3, <1>4
<1> DEFINE B == Nums(b)
           L == Nums(l)
           W == Nums(w)
           R == Nums(r)
<1>7. Ascends(b \o l \o w \o r) <=>
         /\ Ascends(b) /\ Ascends(l) /\ Ascends(w) /\ Ascends(r)
         /\ Before(B, L) /\ Before((B \cup L), W) /\ Before((B \cup L) \cup W, R)
  BY <1>1, <1>2, <1>3, <1>4
<1> HIDE DEF B, L, W, R
<1>8. Before((B \cup L), W) <=> Before(B, W) /\ Before(L, W)
  BY DEF Before
<1>9. Before((B \cup L) \cup W, R) <=> Before(B, R) /\ Before(L, R) /\ Before(W, R)
  BY DEF Before
<1>10. Before(B, (L \cup W) \cup R) <=> Before(B, L) /\ Before(B, W) /\ Before(B, R)
  BY DEF Before
<1>11. Before(L, W \cup R) <=> Before(L, W) /\ Before(L, R)
  BY DEF Before
<1>12. Ascends(b \o l \o w \o r) <=>
         /\ Ascends(b) /\ Ascends(l) /\ Ascends(w) /\ Ascends(r)
         /\ Before(B, (L \cup W) \cup R)
         /\ Before(L, W \cup R) /\ Before(W, R)
  BY <1>7, <1>8, <1>9, <1>10, <1>11
<1> QED BY <1>6, <1>12 DEF B, L, W, R

-----------------------------------------------------------------------------
(* Messages are heard in order. *)

LEMMA InboundNums ==
    ASSUME SInv, SInv'
    PROVE  /\ Nums(Inbound("server")) =
                 Nums(busy["server"]) \cup Nums(later["server"]) \cup Nums(waiting) \cup Nums(wire["server"])
           /\ Ascends(Inbound("server")) <=>
                 /\ Ascends(busy["server"]) /\ Ascends(later["server"])
                 /\ Ascends(waiting) /\ Ascends(wire["server"])
                 /\ Before(Nums(busy["server"]),
                           Nums(later["server"]) \cup Nums(waiting) \cup Nums(wire["server"]))
                 /\ Before(Nums(later["server"]), Nums(waiting) \cup Nums(wire["server"]))
                 /\ Before(Nums(waiting), Nums(wire["server"]))
           /\ Nums(Inbound("server"))' =
                 Nums(busy'["server"]) \cup Nums(later'["server"]) \cup Nums(waiting') \cup Nums(wire'["server"])
           /\ Ascends(Inbound("server"))' <=>
                 /\ Ascends(busy'["server"]) /\ Ascends(later'["server"])
                 /\ Ascends(waiting') /\ Ascends(wire'["server"])
                 /\ Before(Nums(busy'["server"]),
                           Nums(later'["server"]) \cup Nums(waiting') \cup Nums(wire'["server"]))
                 /\ Before(Nums(later'["server"]), Nums(waiting') \cup Nums(wire'["server"]))
                 /\ Before(Nums(waiting'), Nums(wire'["server"]))
<1>1. /\ wire["server"] \in Seq(ForServer) /\ later["server"] \in Seq(ForServer)
      /\ busy["server"] \in Seq(ForServer) /\ waiting \in Seq(ForServer)
  BY WireTypes
<1>2. /\ wire'["server"] \in Seq(ForServer) /\ later'["server"] \in Seq(ForServer)
      /\ busy'["server"] \in Seq(ForServer) /\ waiting' \in Seq(ForServer)
  BY PairFacts DEF SInv, Frames
<1>3. /\ Inbound("server") = busy["server"] \o later["server"] \o waiting \o wire["server"]
      /\ Inbound("server")' = busy'["server"] \o later'["server"] \o waiting' \o wire'["server"]
  BY DEF Inbound
<1>4. /\ Nums(Inbound("server"))' = Nums(Inbound("server")')
      /\ Ascends(Inbound("server"))' <=> Ascends(Inbound("server")')
  BY DEF Nums, Ascends, Sayings
<1> DEFINE b == busy["server"]
           l == later["server"]
           r == wire["server"]
           c == busy'["server"]
           m == later'["server"]
           t == wire'["server"]
<1>5. b \in Seq(ForServer) /\ l \in Seq(ForServer) /\ waiting \in Seq(ForServer) /\ r \in Seq(ForServer)
  BY <1>1
<1>6. c \in Seq(ForServer) /\ m \in Seq(ForServer) /\ waiting' \in Seq(ForServer) /\ t \in Seq(ForServer)
  BY <1>2
<1> HIDE DEF b, l, r, c, m, t
<1>7. /\ Nums(b \o l \o waiting \o r) = Nums(b) \cup Nums(l) \cup Nums(waiting) \cup Nums(r)
      /\ Ascends(b \o l \o waiting \o r) <=>
            /\ Ascends(b) /\ Ascends(l) /\ Ascends(waiting) /\ Ascends(r)
            /\ Before(Nums(b), Nums(l) \cup Nums(waiting) \cup Nums(r))
            /\ Before(Nums(l), Nums(waiting) \cup Nums(r)) /\ Before(Nums(waiting), Nums(r))
  BY <1>5, LineNums
<1>8. /\ Nums(c \o m \o waiting' \o t) = Nums(c) \cup Nums(m) \cup Nums(waiting') \cup Nums(t)
      /\ Ascends(c \o m \o waiting' \o t) <=>
            /\ Ascends(c) /\ Ascends(m) /\ Ascends(waiting') /\ Ascends(t)
            /\ Before(Nums(c), Nums(m) \cup Nums(waiting') \cup Nums(t))
            /\ Before(Nums(m), Nums(waiting') \cup Nums(t)) /\ Before(Nums(waiting'), Nums(t))
  BY <1>6, LineNums
<1> QED BY <1>3, <1>4, <1>7, <1>8 DEF b, l, r, c, m, t

LEMMA OpenedKeeps ==
    ASSUME Opened, session' \in Early => session \in Early,
           said' = said \/ proxy # "opening", proxy' = proxy \/ proxy # "opening",
           session \in Early /\ Has(wire'["client"], "state") => Has(wire["client"], "state")
    PROVE  Opened'
  BY DEF Opened

\* What is collected before the session serves holds no message.
LEMMA NothingYet ==
    ASSUME SInv, OInv, SInv'
    PROVE  /\ Nums(waiting) = {}
           /\ session \in Early => Nums(Inbound("server")) = {}
<1>1. session \in Early => Nums(Inbound("server")) = {}
  <2> SUFFICES ASSUME session \in Early, NEW m \in Nums(Inbound("server")) PROVE FALSE
    OBVIOUS
  <2>1. Upto < m /\ m <= 0
    BY DEF OInv, ComesUp, Opened
  <2>2. Upto \in Nat
    BY DEF Upto, SInv, Settings
  <2>3. m \in Nat
    <3>1. PICK fs \in Seq(ForServer) : m \in Nums(fs)
      BY InboundNums, WireTypes
    <3>2. PICK i \in DOMAIN fs : fs[i].n = m
      BY <3>1, NumsFacts
    <3>3. fs[i] \in ForServer
      BY <3>1, <3>2
    <3> QED BY <3>2, <3>3, FrameFacts
  <2> QED BY <2>1, <2>2, <2>3
<1>2. waiting # <<>> => session \in Early
  BY DEF SInv, Stages, Early
<1> QED BY <1>1, <1>2, NumsFacts, InboundNums

\* What is on its way becomes no more, in the same order.
LEMMA KeepsO ==
    ASSUME OInv, Opened', Ascends(Inbound("server"))', heard' = heard, said' = said,
           Nums(Inbound("server"))' \subseteq Nums(Inbound("server")),
           Standing' => Standing /\ Nums(Inbound("server"))' = Nums(Inbound("server"))
    PROVE  OInv'
<1>1. HeardUp' /\ Upto' = Upto
  BY DEF OInv, HeardUp, Upto
<1> DEFINE N == Nums(Inbound("server"))
<1>2. \A m \in N : Upto < m /\ m <= said
  BY DEF OInv, ComesUp
<1>3. Standing => (\A i \in DOMAIN heard : heard[i] = i) /\ N = Len(heard) + 1 .. said
  BY DEF OInv, AllComes
<1>4. N' \subseteq N /\ (Standing' => Standing /\ N' = N)
  OBVIOUS
<1> HIDE DEF N
<1>5. \A m \in N' : Upto' < m /\ m <= said'
  BY <1>1, <1>2, <1>4
<1>6. Standing' => (\A i \in DOMAIN heard' : heard'[i] = i) /\ N' = Len(heard') + 1 .. said'
  BY <1>3, <1>4
<1>7. ComesUp'
  BY <1>5 DEF ComesUp, N
<1>8. AllComes'
  BY <1>6 DEF AllComes, N
<1> QED BY <1>1, <1>7, <1>8 DEF OInv

Fewer(fs, gs) == Nums(gs) \subseteq Nums(fs) /\ (Ascends(fs) => Ascends(gs))

LEMMA FewerO ==
    ASSUME SInv, SInv', OInv, Opened', heard' = heard, said' = said,
           Fewer(busy["server"], busy'["server"]), Fewer(later["server"], later'["server"]),
           Fewer(waiting, waiting'), Fewer(wire["server"], wire'["server"]),
           Standing' => /\ Standing
                        /\ Nums(busy'["server"]) = Nums(busy["server"])
                        /\ Nums(later'["server"]) = Nums(later["server"])
                        /\ Nums(waiting') = Nums(waiting)
                        /\ Nums(wire'["server"]) = Nums(wire["server"])
    PROVE  OInv'
<1>1. Ascends(Inbound("server"))
  BY DEF OInv, ComesUp
<1>2. Ascends(Inbound("server"))'
  <2>1. \A A, B, C, D : Before(A, B) /\ C \subseteq A /\ D \subseteq B => Before(C, D)
    BY DEF Before
  <2> DEFINE B == Nums(busy["server"])
             L == Nums(later["server"])
             W == Nums(waiting)
             R == Nums(wire["server"])
  <2>2. B' \subseteq B /\ L' \subseteq L /\ W' \subseteq W /\ R' \subseteq R
    BY DEF Fewer, Nums, Sayings
  <2>3. Before(B, (L \cup W) \cup R) /\ Before(L, W \cup R) /\ Before(W, R)
    BY <1>1, InboundNums
  <2> HIDE DEF B, L, W, R
  <2>4. ((L \cup W) \cup R)' \subseteq ((L \cup W) \cup R) /\ (W \cup R)' \subseteq (W \cup R)
    BY <2>2
  <2>5. Before(B', (L' \cup W') \cup R') /\ Before(L', W' \cup R') /\ Before(W', R')
    BY <2>2, <2>3, <2>4 DEF Before
  <2>6. /\ Ascends(busy'["server"]) /\ Ascends(later'["server"])
        /\ Ascends(waiting') /\ Ascends(wire'["server"])
    BY <1>1, InboundNums DEF Fewer
  <2>7. /\ B' = Nums(busy'["server"]) /\ L' = Nums(later'["server"])
        /\ W' = Nums(waiting') /\ R' = Nums(wire'["server"])
    BY DEF B, L, W, R, Nums, Sayings
  <2> QED BY <2>5, <2>6, <2>7, InboundNums
<1>3. Nums(Inbound("server"))' \subseteq Nums(Inbound("server"))
  BY InboundNums DEF Fewer
<1>4. Standing' => Standing /\ Nums(Inbound("server"))' = Nums(Inbound("server"))
  BY InboundNums
<1> QED BY <1>2, <1>3, <1>4, KeepsO

\* A frame is taken from the front of what is on its way, and heard when it is a message.
LEMMA TakenO ==
    ASSUME SInv, OInv, Opened', NEW f \in ForServer, Ascends(Inbound("server"))', said' = said,
           heard' = (IF f.k = "say" THEN Append(heard, f.n) ELSE heard),
           Num(f) \subseteq Nums(Inbound("server")),
           Nums(Inbound("server"))' \subseteq Nums(Inbound("server")),
           Before(Num(f), Nums(Inbound("server"))'),
           Standing' => Standing /\ Nums(Inbound("server")) = Num(f) \cup Nums(Inbound("server"))'
    PROVE  OInv'
<1> DEFINE N == Nums(Inbound("server"))
           n == Len(heard)
<1>1. CASE f.k # "say"
  <2>1. Num(f) = {} /\ heard' = heard
    BY <1>1 DEF Num
  <2> QED BY <2>1, KeepsO
<1>2. CASE f.k = "say"
  <2>1. Num(f) = {f.n} /\ heard' = Append(heard, f.n) /\ f.n \in Nat
    BY <1>2, FrameFacts DEF Num
  <2>2. heard \in Seq(Nat) /\ said \in Nat
    BY DEF SInv, Settings
  <2>3. /\ n \in Nat /\ DOMAIN heard = 1..n /\ DOMAIN heard' = 1..(n + 1) /\ Len(heard') = n + 1
        /\ heard'[n + 1] = f.n /\ (\A i \in 1..n : heard'[i] = heard[i] /\ heard[i] \in Nat)
        /\ (heard = <<>> <=> n = 0) /\ heard' # <<>>
    BY <2>1, <2>2
  <2>4. \A m \in N : Upto < m /\ m <= said
    BY DEF OInv, ComesUp
  <2>5. Standing => (\A i \in DOMAIN heard : heard[i] = i) /\ N = n + 1 .. said
    BY DEF OInv, AllComes
  <2>6. \A i, j \in 1..n : i < j => heard[i] < heard[j]
    BY <2>3 DEF OInv, HeardUp
  <2>7. Upto = (IF n = 0 THEN 0 ELSE heard[n]) /\ Upto' = f.n
    BY <2>3 DEF Upto
  <2>8. /\ f.n \in N /\ N' \subseteq N /\ (\A m \in N' : f.n < m)
        /\ Standing' => Standing /\ N = {f.n} \cup N'
    BY <2>1 DEF Before
  <2>14. said' = said
    OBVIOUS
  <2> HIDE DEF N, n
  <2>9. \A i \in 1..n : heard[i] <= Upto
    <3> SUFFICES ASSUME NEW i \in 1..n PROVE heard[i] <= Upto
      OBVIOUS
    <3>1. n # 0 /\ Upto = heard[n] /\ n \in 1..n /\ (i = n \/ i < n)
      BY <2>3, <2>7
    <3>2. heard[i] = heard[n] \/ heard[i] < heard[n]
      BY <2>6, <3>1
    <3> QED BY <2>3, <3>1, <3>2
  <2>10. Upto < f.n /\ f.n <= said /\ Upto \in Nat
    BY <2>3, <2>4, <2>7, <2>8
  <2>11. HeardUp'
    <3>1. ASSUME NEW i \in 1..(n + 1), NEW j \in 1..(n + 1), i < j
          PROVE  heard'[i] < heard'[j]
      <4>1. i \in 1..n /\ heard'[i] = heard[i] /\ heard[i] \in Nat
        BY <2>3, <3>1
      <4>2. CASE j \in 1..n
        BY <2>3, <2>6, <3>1, <4>1, <4>2
      <4>3. CASE j = n + 1
        <5>1. heard[i] <= Upto /\ heard'[j] = f.n
          BY <2>3, <2>9, <4>1, <4>3
        <5>2. \A h \in Nat : h <= Upto => h < f.n
          BY <2>1, <2>10
        <5>3. heard[i] < f.n
          BY <4>1, <5>1, <5>2
        <5> QED BY ONLY <4>1, <5>1, <5>3
      <4> QED BY <2>3, <4>2, <4>3
    <3> QED BY <2>3, <2>7, <2>10, <2>14, <3>1 DEF HeardUp
  <2>12. ComesUp'
    <3>1. \A m \in N' : Upto' < m /\ m <= said'
      BY <2>4, <2>7, <2>8, <2>14
    <3> QED BY <3>1 DEF ComesUp, N
  <2>13. AllComes'
    <3> SUFFICES ASSUME Standing'
                 PROVE  (\A i \in DOMAIN heard' : heard'[i] = i) /\ N' = Len(heard') + 1 .. said'
      BY DEF AllComes, N
    <3>1. /\ \A i \in 1..n : heard[i] = i
          /\ N = n + 1 .. said /\ N = {f.n} \cup N'
      BY <2>3, <2>5, <2>8
    <3>2. f.n = n + 1
      <4>1. n + 1 \in N
        BY <2>1, <2>2, <2>3, <2>8, <3>1
      <4>2. n + 1 \in N' => f.n < n + 1
        BY <2>8
      <4>3. n + 1 <= f.n
        BY <2>8, <3>1
      <4> QED BY <2>1, <2>3, <3>1, <4>1, <4>2, <4>3
    <3>3. N' = (n + 1) + 1 .. said
      <4>1. \A m \in N' : m \in (n + 1) + 1 .. said
        BY <2>2, <2>3, <2>8, <3>1, <3>2
      <4>2. \A m \in (n + 1) + 1 .. said : m \in N'
        BY <2>2, <2>3, <3>1, <3>2
      <4> QED BY <4>1, <4>2
    <3>4. \A i \in 1..(n + 1) : heard'[i] = i
      BY <2>3, <3>1, <3>2
    <3> QED BY <2>3, <2>14, <3>3, <3>4
  <2> QED BY <2>11, <2>12, <2>13 DEF OInv
<1> QED BY <1>1, <1>2

LEMMA InitOInv == Init => OInv
<1> SUFFICES ASSUME Init PROVE OInv
  OBVIOUS
<1>1. /\ wire["server"] = <<F("init"), F("tune")>> /\ wire["client"] = <<>>
      /\ later["server"] = <<>> /\ busy["server"] = <<>> /\ waiting = <<>>
      /\ proxy = "opening" /\ said = 0 /\ heard = <<>>
  BY DEF Init, Sides
<1>2. Inbound("server") = <<F("init"), F("tune")>>
  BY <1>1 DEF Inbound
<1>3. \A i \in DOMAIN Inbound("server") : Inbound("server")[i].k \in {"init", "tune"}
  BY <1>2, MadeKinds
<1>4. Nums(Inbound("server")) = {}
  BY <1>3, NumsFacts
<1>5. Ascends(Inbound("server"))
  BY <1>4, NumsFacts
<1> QED BY <1>1, <1>4, <1>5, EmptyHolds DEF OInv, Opened, HeardUp, ComesUp, AllComes, Upto

\* A frame that is no message adds none.
LEMMA AddsNone ==
    ASSUME NEW fs \in Seq(ForServer), NEW g \in ForServer, g.k # "say"
    PROVE  Fewer(fs, Append(fs, g)) /\ Nums(Append(fs, g)) = Nums(fs)
<1>1. Num(g) = {}
  BY DEF Num
<1>2. /\ Nums(Append(fs, g)) = Nums(fs) \cup Num(g)
      /\ Ascends(Append(fs, g)) <=> Ascends(fs) /\ Before(Nums(fs), Num(g))
  BY AppendNums
<1> QED BY <1>1, <1>2 DEF Fewer, Before

\* A step that takes nothing for the process, and says nothing to it.
LEMMA AsideO ==
    ASSUME SInv, SInv', OInv, Opened', heard' = heard, said' = said,
           UNCHANGED <<later, busy, waiting>>,
           \/ wire'["server"] = wire["server"]
           \/ \E g \in ForServer : g.k # "say" /\ wire'["server"] = Append(wire["server"], g)
           \/ Nums(wire'["server"]) = {} /\ ~Standing',
           Standing' => Standing
    PROVE  OInv'
<1>1. /\ Fewer(wire["server"], wire'["server"])
      /\ Standing' => Nums(wire'["server"]) = Nums(wire["server"])
  <2>1. CASE wire'["server"] = wire["server"]
    BY <2>1 DEF Fewer
  <2>2. CASE \E g \in ForServer : g.k # "say" /\ wire'["server"] = Append(wire["server"], g)
    <3>1. PICK g \in ForServer : g.k # "say" /\ wire'["server"] = Append(wire["server"], g)
      BY <2>2
    <3>2. wire["server"] \in Seq(ForServer)
      BY WireTypes
    <3> QED BY <3>1, <3>2, AddsNone
  <2>3. CASE Nums(wire'["server"]) = {} /\ ~Standing'
    BY <2>3, NumsFacts DEF Fewer
  <2> QED BY <2>1, <2>2, <2>3
<1>2. \A fs : Fewer(fs, fs)
  BY DEF Fewer
<1>3. later' = later /\ busy' = busy /\ waiting' = waiting
  OBVIOUS
<1> QED BY <1>1, <1>2, <1>3, FewerO

LEMMA QuietStepsO ==
    ASSUME SInv, SInv', OInv,
           \/ Accept \/ Make \/ MakeFails \/ ReadyFails \/ RaceSettles \/ CleanupDone \/ CleanupFailed
           \/ ProcEnds \/ ProxyStops \/ ProxyLost \/ StopReactor \/ ReactorEnds \/ ReactorStopped
           \/ LastWord \/ UNCHANGED vars
    PROVE  OInv'
<1>0. ASSUME session' \in Early => session \in Early,
             proxy' = proxy \/ proxy # "opening",
             \/ wire' = wire
             \/ session' \notin Early /\ wire'["server"] = wire["server"],
             UNCHANGED <<closed, cut, garbled, later, busy, waiting, said, heard>>
      PROVE  OInv'
  <2>1. Opened'
    BY <1>0 DEF OInv, Opened
  <2>2. Standing' => Standing
    BY <1>0 DEF Standing
  <2> QED BY <1>0, <2>1, <2>2, AsideO
<1>1. CASE Accept \/ Make \/ MakeFails \/ ReadyFails
  <2>1. UNCHANGED <<wire, closed, cut, garbled, later, busy, waiting, said, heard, proxy>>
    BY <1>1 DEF Accept, Make, MakeFails, ReadyFails, link, queue, client, process
  <2>2. session \in Early
    BY <1>1 DEF Accept, Make, MakeFails, ReadyFails, Early
  <2> QED BY <1>0, <2>1, <2>2
<1>2. CASE RaceSettles \/ CleanupDone \/ CleanupFailed
  <2>1. UNCHANGED <<wire, closed, cut, garbled, later, busy, waiting, said, heard, proxy>>
    BY <1>2 DEF RaceSettles, CleanupDone, CleanupFailed, link, queue, client, process
  <2>2. session' \in Early => session \in Early
    BY <1>2 DEF RaceSettles, CleanupDone, CleanupFailed, Early
  <2> QED BY <1>0, <2>1, <2>2
<1>3. CASE ProcEnds \/ StopReactor \/ ReactorStopped
  <2>1. UNCHANGED <<wire, closed, cut, garbled, later, busy, waiting, said, heard, proxy, session>>
    BY <1>3 DEF ProcEnds, StopReactor, ReactorStopped, link, queue, client, process, server
  <2> QED BY <1>0, <2>1
<1>4. CASE ReactorEnds \/ UNCHANGED vars
  <2>1. UNCHANGED <<wire, closed, cut, garbled, later, busy, waiting, said, heard, proxy, session>>
    BY <1>4 DEF ReactorEnds, vars, link, queue, client, process, server
  <2> QED BY <1>0, <2>1
<1>5. CASE ProxyStops \/ ProxyLost
  <2>1. /\ UNCHANGED <<wire, closed, cut, garbled, later, busy, waiting, said, heard, session>>
        /\ proxy # "opening"
    BY <1>5 DEF ProxyStops, ProxyLost, link, queue, process, server
  <2> QED BY <1>0, <2>1
<1>6. CASE LastWord
  <2>1. UNCHANGED <<closed, cut, garbled, later, busy, waiting, said, heard, proxy>>
    BY <1>6 DEF LastWord, queue, client, process
  <2>2. session' \notin Early
    BY <1>6 DEF LastWord, Early
  <2>3. wire'["server"] = wire["server"]
    BY <1>6, LastWordS
  <2> QED BY <1>0, <2>1, <2>2, <2>3
<1> QED BY <1>1, <1>2, <1>3, <1>4, <1>5, <1>6

LEMMA ClosingStepsO ==
    ASSUME SInv, SInv', OInv,
           \/ Cut \/ Turned \/ ProxyCloses
           \/ \E s \in Sides : CloseArrives(s)
    PROVE  OInv'
<1>1. CASE Cut
  <2>1. cut' /\ wire'["server"] \in {<<>>, <<F("fin")>>} /\ wire'["client"] \in {<<>>, <<F("fin")>>}
    BY <1>1, CutS DEF Sides
  <2>2. UNCHANGED <<later, busy, waiting, said, heard, proxy, session>>
    BY <1>1 DEF Cut, queue, client, process, server
  <2>3. \A i \in DOMAIN <<F("fin")>> : <<F("fin")>>[i].k = "fin"
    BY MadeKinds
  <2>4. Nums(wire'["server"]) = {}
    BY <2>1, <2>3, NumsFacts
  <2>5. ~Has(wire'["client"], "state")
    BY <2>1, <2>3, EmptyHolds DEF Has
  <2>6. ~Standing'
    BY <2>1 DEF Standing
  <2>7. Opened'
    BY <2>2, <2>5, OpenedKeeps DEF OInv
  <2> QED BY <2>2, <2>4, <2>6, <2>7, AsideO
<1>2. CASE Turned
  <2>1. /\ UNCHANGED <<later, busy, waiting, said, heard>>
        /\ session' = "over"
        /\ closed' = [closed EXCEPT !["server"] = TRUE] /\ wire' = ClosesIn(wire, "server")
    BY <1>2 DEF Turned, queue, client, process
  <2>2. wire'["server"] = <<>>
    BY <2>1, ClosesServer DEF SInv, Frames
  <2>3. ~Standing'
    BY <2>1 DEF SInv, Settings, Sides, Standing
  <2>4. Opened'
    BY <2>1 DEF Opened, Early
  <2> QED BY <2>1, <2>2, <2>3, <2>4, NumsFacts, AsideO
<1>3. CASE ProxyCloses
  <2>1. /\ UNCHANGED <<later, busy, waiting, said, heard, session>>
        /\ proxy # "opening" /\ closed' = [closed EXCEPT !["client"] = TRUE]
    BY <1>3 DEF ProxyCloses, queue, process, server
  <2>2. /\ wire'["client"] = <<>>
        /\ wire'["server"] = wire["server"] \/ wire'["server"] = Append(wire["server"], F("fin"))
    BY <1>3, ProxyClosesS
  <2>3. ~Standing'
    BY <2>1 DEF SInv, Settings, Sides, Standing
  <2>4. Opened'
    BY <2>1, <2>2, EmptyHolds, OpenedKeeps DEF OInv
  <2>5. F("fin") \in ForServer /\ F("fin").k = "fin"
    BY MadeFrames, MadeKinds
  <2> QED BY <2>1, <2>2, <2>3, <2>4, <2>5, AsideO
<1>4. ASSUME NEW s \in Sides, CloseArrives(s) PROVE OInv'
  <2>1. /\ UNCHANGED <<later, busy, waiting, said, heard, proxy>>
        /\ closed' = [closed EXCEPT ![s] = TRUE]
    BY <1>4 DEF CloseArrives, queue, process
  <2>2. wire'[s] = <<>> /\ wire'[Other(s)] = wire[Other(s)]
    BY <1>4, CloseArrivesS
  <2>3. ~Standing'
    BY <2>1 DEF SInv, Settings, Sides, Standing
  <2>4. session' \in Early => session \in Early
    BY <1>4 DEF CloseArrives, ServerHearsClose, Early
  <2>5. Has(wire'["client"], "state") => Has(wire["client"], "state")
    BY <2>2, EmptyHolds DEF Sides, Other
  <2>6. Opened'
    BY <2>1, <2>4, <2>5, OpenedKeeps DEF OInv
  <2>7. wire'["server"] = wire["server"] \/ Nums(wire'["server"]) = {}
    BY <2>2, NumsFacts DEF Sides, Other
  <2> QED BY <2>1, <2>3, <2>6, <2>7, AsideO
<1> QED BY <1>1, <1>2, <1>3, <1>4

\* What the client takes is nothing to the process, but the first state opens the proxy.
LEMMA ArrivesClientO ==
    ASSUME SInv, SInv', OInv, FrameArrives("client")
    PROVE  OInv'
<1>1. PICK f \in ForClient : Gets("client", f)
  BY FrameGets
<1> DEFINE w == Arrived("client")
           wc == wire["client"]
<1>2. /\ wc # <<>> /\ wc \in Seq(ForClient)
      /\ w \in Wires /\ w["client"] = Tail(wc) /\ w["server"] = wire["server"]
  BY <1>1, ArrivedFacts, WireTypes DEF Gets
<1>3. /\ Takes("client", w, f) /\ UNCHANGED <<later, busy, waiting>>
  BY <1>1, ReceivesClient DEF Gets
<1> HIDE DEF w
<1>4. ClientDelivered(w, f)
  BY <1>2, <1>3, ClientTakesFacts
<1>5. UNCHANGED <<said, heard, session, cut>> /\ (garbled => garbled')
  BY <1>1, <1>4 DEF ClientDelivered, process, Gets
<1>6. F("fin") \in ForServer /\ F("fin").k = "fin"
  BY MadeFrames, MadeKinds
<1>7. \A k : /\ Has(Tail(wc), k) => Has(wc, k)
             /\ Head(wc).k = k => Has(wc, k)
  BY <1>2, TailHolds
<1>8. CASE f.k \in Unread
  <2>1. /\ wire'["server"] = ClosesIn(w, "client")["server"]
        /\ \E n \in 0..Len(w["client"]) : wire'["client"] = SubSeq(w["client"], 1, n)
        /\ closed' = [closed EXCEPT !["client"] = TRUE]
        /\ UNCHANGED proxy
    BY <1>4, <1>8 DEF ClientDelivered
  <2>2. ~Standing'
    BY <2>1 DEF SInv, Settings, Sides, Standing
  <2>3. wire'["server"] = wire["server"] \/ wire'["server"] = Append(wire["server"], F("fin"))
    BY <1>2, <2>1, ClosesClient
  <2>4. Has(wire'["client"], "state") => Has(wc, "state")
    <3> DEFINE t == Tail(wc)
    <3>1. t \in Seq(ForClient)
      BY <1>2
    <3>2. PICK n \in 0..Len(t) : wire'["client"] = SubSeq(t, 1, n)
      BY <1>2, <2>1
    <3> HIDE DEF t
    <3>3. Has(SubSeq(t, 1, n), "state") => Has(t, "state")
      BY <3>1, PartHolds
    <3> QED BY <1>7, <3>2, <3>3 DEF t
  <2>5. Opened'
    BY <1>5, <2>1, <2>4, OpenedKeeps DEF OInv
  <2> QED BY <1>3, <1>5, <1>6, <2>2, <2>3, <2>5, AsideO
<1>9. CASE f.k \notin Unread
  <2>1. /\ wire' = w
        /\ proxy' = IF f.k = "state" /\ proxy = "opening" THEN "up" ELSE proxy
        /\ UNCHANGED closed
    BY <1>4, <1>9 DEF ClientDelivered
  <2>2. f = Head(wc) /\ garbled' = garbled
    BY <1>1, <1>9, MadeKinds DEF Gets, Unread
  <2>3. wire'["client"] = Tail(wc) /\ wire'["server"] = wire["server"]
    BY <1>2, <2>1
  <2>4. Standing' => Standing
    BY <1>5, <2>1, <2>2 DEF Standing
  <2>5. Opened'
    <3>1. session \in Early => f.k # "state"
      BY <1>7, <2>2 DEF OInv, Opened
    <3> QED BY <1>5, <1>7, <2>1, <2>3, <3>1 DEF OInv, Opened
  <2> QED BY <1>3, <1>5, <2>3, <2>4, <2>5, AsideO
<1> QED BY <1>8, <1>9

\* The frames about octets, calls, emits and the stop are not messages.
LEMMA WritingStepsO ==
    ASSUME SInv, SInv', OInv,
           \/ OctetsAsked \/ Emit \/ StopProxy
           \/ \E s \in Sides : Call(s) \/ Answer(s)
    PROVE  OInv'
<1>0. ASSUME \/ wire'["server"] = wire["server"]
             \/ \E g \in ForServer : g.k # "say" /\ wire'["server"] = Append(wire["server"], g),
             session \in Early /\ Has(wire'["client"], "state") => Has(wire["client"], "state"),
             proxy' = proxy \/ proxy # "opening",
             UNCHANGED <<closed, cut, garbled, later, busy, waiting, said, heard, session>>
      PROVE  OInv'
  <2>1. Opened'
    BY <1>0, OpenedKeeps DEF OInv
  <2>2. Standing' => Standing
    BY <1>0 DEF Standing
  <2> QED BY <1>0, <2>1, <2>2, AsideO
<1> DEFINE wc == wire["client"]
<1>a. wc \in Seq(ForClient)
  BY WireTypes
<1>b. \A g \in ForClient : g.k # "state" /\ Has(Append(wc, g), "state") => Has(wc, "state")
  BY <1>a, AppendHolds
<1>c. /\ \A q \in Seqs : /\ Numbered("call", q) \in ForServer \cap ForClient
                         /\ Numbered("result", q) \in ForServer \cap ForClient
      /\ F("octets") \in ForServer /\ F("stop") \in ForServer /\ F("emit") \in ForClient
  BY MadeFrames
<1>d. /\ \A q : Numbered("call", q).k = "call" /\ Numbered("result", q).k = "result"
      /\ F("octets").k = "octets" /\ F("stop").k = "stop" /\ F("emit").k = "emit"
  BY MadeKinds
<1>1. CASE OctetsAsked
  <2>1. UNCHANGED <<closed, cut, garbled, later, busy, waiting, said, heard, session, proxy>>
    BY <1>1 DEF OctetsAsked, queue, client, process, server
  <2>2. /\ wc # <<>> /\ wire'["client"] = Tail(wc)
        /\ wire'["server"] = wire["server"] \/ wire'["server"] = Append(wire["server"], F("octets"))
    BY <1>1, OctetsAskedS
  <2>3. Has(wire'["client"], "state") => Has(wc, "state")
    BY <1>a, <2>2, TailHolds
  <2> QED BY <1>0, <1>c, <1>d, <2>1, <2>2, <2>3
<1>2. CASE Emit
  <2>1. UNCHANGED <<closed, cut, garbled, later, busy, waiting, said, heard, session, proxy>>
    BY <1>2 DEF Emit, queue, client, process, server
  <2>2. /\ wire'["server"] = wire["server"]
        /\ wire'["client"] = wc \/ wire'["client"] = Append(wc, F("emit"))
    BY <1>2, EmitS
  <2> QED BY <1>0, <1>b, <1>c, <1>d, <2>1, <2>2
<1>3. CASE StopProxy
  <2>1. UNCHANGED <<closed, cut, garbled, later, busy, waiting, said, heard, session>>
        /\ proxy # "opening"
    BY <1>3 DEF StopProxy, queue, process, server
  <2>2. /\ wire'["client"] = wire["client"]
        /\ wire'["server"] = wire["server"] \/ wire'["server"] = Append(wire["server"], F("stop"))
    BY <1>3, StopProxyS
  <2> QED BY <1>0, <1>c, <1>d, <2>1, <2>2
<1>4. ASSUME NEW s \in Sides, Call(s) PROVE OInv'
  <2>1. UNCHANGED <<closed, cut, garbled, later, busy, waiting, said, heard, session, proxy>>
    BY <1>4 DEF Call, queue, client, process, server
  <2>2. /\ wire'[s] = wire[s]
        /\ \/ wire'[Other(s)] = wire[Other(s)]
           \/ \E q \in Seqs : wire'[Other(s)] = Append(wire[Other(s)], Numbered("call", q))
    BY <1>4, CallS
  <2>3. CASE s = "server"
    <3>1. /\ wire'["server"] = wire["server"]
          /\ \/ wire'["client"] = wc
             \/ \E q \in Seqs : wire'["client"] = Append(wc, Numbered("call", q))
      BY <2>2, <2>3 DEF Other
    <3>2. Has(wire'["client"], "state") => Has(wc, "state")
      BY <1>b, <1>c, <1>d, <3>1
    <3> QED BY <1>0, <2>1, <3>1, <3>2
  <2>4. CASE s = "client"
    <3>1. /\ wire'["client"] = wire["client"]
          /\ \/ wire'["server"] = wire["server"]
             \/ \E q \in Seqs : wire'["server"] = Append(wire["server"], Numbered("call", q))
      BY <2>2, <2>4 DEF Other
    <3> QED BY <1>0, <1>c, <1>d, <2>1, <3>1
  <2> QED BY <2>3, <2>4 DEF Sides
<1>5. ASSUME NEW s \in Sides, Answer(s) PROVE OInv'
  <2>1. UNCHANGED <<closed, cut, garbled, later, busy, waiting, said, heard, session, proxy>>
    BY <1>5 DEF Answer, queue, client, process, server
  <2>2. /\ wire'[Other(s)] = wire[Other(s)]
        /\ \/ wire'[s] = wire[s]
           \/ \E q \in Seqs : wire'[s] = Append(wire[s], Numbered("result", q))
    BY <1>5, AnswerS
  <2>3. CASE s = "client"
    <3>1. /\ wire'["server"] = wire["server"]
          /\ \/ wire'["client"] = wc
             \/ \E q \in Seqs : wire'["client"] = Append(wc, Numbered("result", q))
      BY <2>2, <2>3 DEF Other
    <3>2. Has(wire'["client"], "state") => Has(wc, "state")
      BY <1>b, <1>c, <1>d, <3>1
    <3> QED BY <1>0, <2>1, <3>1, <3>2
  <2>4. CASE s = "server"
    <3>1. /\ wire'["client"] = wire["client"]
          /\ \/ wire'["server"] = wire["server"]
             \/ \E q \in Seqs : wire'["server"] = Append(wire["server"], Numbered("result", q))
      BY <2>2, <2>4 DEF Other
    <3> QED BY <1>0, <1>c, <1>d, <2>1, <3>1
  <2> QED BY <2>3, <2>4 DEF Sides
<1> QED BY <1>1, <1>2, <1>3, <1>4, <1>5

\* A message is numbered past all before it.
LEMMA SayO ==
    ASSUME SInv, SInv', OInv, Say
    PROVE  OInv'
<1> DEFINE ws == wire["server"]
           N == Nums(Inbound("server"))
<1>1. /\ UNCHANGED <<closed, cut, garbled, later, busy, waiting, heard, session>>
      /\ proxy = "up"
  BY DEF Say, queue, process, server
<1>2. /\ wire'["client"] = wire["client"]
      /\ \/ /\ said' = said + 1
            /\ \E c \in Classes :
                  wire'["server"] = IF closed["client"] \/ closed["server"] \/ cut THEN ws
                     ELSE Append(ws, [Numbered("say", said + 1) EXCEPT !.class = c])
         \/ UNCHANGED <<said, wire>>
  BY SayS
<1>3. Opened'
  BY <1>1 DEF OInv, Opened
<1>4. Standing' <=> Standing
  BY <1>1 DEF Standing
<1>5. CASE UNCHANGED <<said, wire>>
  BY <1>1, <1>3, <1>4, <1>5, AsideO
<1>6. CASE said' = said + 1 /\ \E c \in Classes :
                  wire'["server"] = IF closed["client"] \/ closed["server"] \/ cut THEN ws
                     ELSE Append(ws, [Numbered("say", said + 1) EXCEPT !.class = c])
  <2>0. said \in Nat /\ said + 1 \in Nat /\ heard \in Seq(Nat) /\ Upto \in Nat /\ Len(heard) \in Nat
    BY DEF SInv, Settings, Upto
  <2>1. PICK c \in Classes : wire'["server"] = IF closed["client"] \/ closed["server"] \/ cut THEN ws
                     ELSE Append(ws, [Numbered("say", said + 1) EXCEPT !.class = c])
    BY <1>6
  <2> DEFINE g == [Numbered("say", said + 1) EXCEPT !.class = c]
  <2>2. g \in ForServer /\ Num(g) = {said + 1}
    BY <2>0, MadeFrames, MadeKinds DEF Num
  <2>3. /\ wire'["server"] = ws \/ wire'["server"] = Append(ws, g)
        /\ (Standing => wire'["server"] = Append(ws, g))
    BY <2>1 DEF Standing
  <2> HIDE DEF g
  <2>4. ws \in Seq(ForServer)
    BY WireTypes
  <2> HIDE DEF ws
  <2>5. /\ Nums(Append(ws, g)) = Nums(ws) \cup Num(g)
        /\ Ascends(Append(ws, g)) <=> Ascends(ws) /\ Before(Nums(ws), Num(g))
    BY <2>2, <2>4, AppendNums
  <2> DEFINE B == Nums(busy["server"])
             L == Nums(later["server"])
             W == Nums(waiting)
             R == Nums(ws)
             T == Nums(wire'["server"])
  <2>6. /\ N = ((B \cup L) \cup W) \cup R
        /\ Ascends(busy["server"]) /\ Ascends(later["server"]) /\ Ascends(waiting) /\ Ascends(ws)
        /\ Before(B, (L \cup W) \cup R) /\ Before(L, W \cup R) /\ Before(W, R)
        /\ \A m \in N : Upto < m /\ m <= said
    BY InboundNums DEF OInv, ComesUp, ws
  <2>7. /\ N' = ((B \cup L) \cup W) \cup T
        /\ Ascends(Inbound("server"))' <=>
              /\ Ascends(busy["server"]) /\ Ascends(later["server"])
              /\ Ascends(waiting) /\ Ascends(wire'["server"])
              /\ Before(B, (L \cup W) \cup T) /\ Before(L, W \cup T) /\ Before(W, T)
    BY <1>1, InboundNums
  <2>8. \/ T = R /\ wire'["server"] = ws
        \/ T = R \cup {said + 1} /\ wire'["server"] = Append(ws, g)
    BY <2>2, <2>3, <2>5
  <2>9. Standing => T = R \cup {said + 1}
    BY <2>2, <2>3, <2>5
  <2>10. Standing => (\A i \in DOMAIN heard : heard[i] = i) /\ N = Len(heard) + 1 .. said
    BY DEF OInv, AllComes
  <2>11. HeardUp
    BY DEF OInv
  <2>12. Upto' = Upto
    BY <1>1 DEF Upto
  <2> HIDE DEF N, B, L, W, R, T
  <2>13. \A m \in N : m < said + 1 /\ m <= said + 1
    <3>1. \A m \in N : m \in Nat
      <4>1. ASSUME NEW fs \in Seq(ForServer), NEW m \in Nums(fs)
            PROVE  m \in Nat
        <5>1. PICK i \in DOMAIN fs : fs[i].n = m
          BY NumsFacts
        <5>2. fs[i] \in ForServer
          OBVIOUS
        <5> QED BY <5>1, <5>2, FrameFacts
      <4> QED BY <2>4, <2>6, <4>1, WireTypes DEF B, L, W, R
    <3>2. \A m, n \in Nat : m <= n => m < n + 1 /\ m <= n + 1
      OBVIOUS
    <3> QED BY <2>0, <2>6, <3>1, <3>2
  <2>14. Ascends(Inbound("server"))'
    <3>1. CASE T = R /\ wire'["server"] = ws
      BY <2>6, <2>7, <3>1
    <3>2. CASE T = R \cup {said + 1} /\ wire'["server"] = Append(ws, g)
      <4>1. Before(R, Num(g))
        BY <2>2, <2>6, <2>13 DEF Before
      <4>2. Ascends(wire'["server"])
        BY <2>5, <2>6, <3>2, <4>1 DEF R
      <4>3. Before(B, (L \cup W) \cup T)
        BY <2>6, <2>13, <3>2 DEF Before
      <4>4. Before(L, W \cup T) /\ Before(W, T)
        BY <2>6, <2>13, <3>2 DEF Before
      <4> QED BY <2>6, <2>7, <4>2, <4>3, <4>4
    <3> QED BY <2>8, <3>1, <3>2
  <2>15. N' \subseteq N \cup {said + 1} /\ (Standing => N' = N \cup {said + 1})
    BY <2>6, <2>7, <2>8, <2>9
  <2>16. HeardUp'
    BY <1>1, <1>6, <2>0, <2>11, <2>12 DEF HeardUp
  <2>17. ComesUp'
    <3>1. \A m \in N' : Upto' < m /\ m <= said'
      <4>1. Upto < said + 1 /\ Upto <= said
        BY <2>0, <2>11 DEF HeardUp
      <4>2. ASSUME NEW m \in N PROVE Upto < m /\ m <= said + 1
        BY <2>0, <2>6, <2>13
      <4>3. said + 1 <= said + 1
        BY <2>0
      <4> QED BY <1>6, <2>12, <2>15, <4>1, <4>2, <4>3
    <3> QED BY <2>14, <3>1 DEF ComesUp, N
  <2>18. AllComes'
    <3> SUFFICES ASSUME Standing
                 PROVE  (\A i \in DOMAIN heard : heard[i] = i) /\ N' = Len(heard) + 1 .. said + 1
      BY <1>1, <1>4, <1>6 DEF AllComes, N
    <3>1. Len(heard) <= said
      <4>1. heard # <<>> => heard[Len(heard)] = Len(heard)
        BY <2>0, <2>10
      <4> QED BY <2>0, <2>11, <4>1 DEF HeardUp, Upto
    <3>2. N' = (Len(heard) + 1 .. said) \cup {said + 1}
      BY <2>10, <2>15
    <3> QED BY <2>0, <2>10, <3>1, <3>2
  <2> QED BY <1>3, <2>16, <2>17, <2>18 DEF OInv
<1> QED BY <1>2, <1>5, <1>6

\* A frame comes to its turn: it is taken, or held for what it owes.
LEMMA TakesO ==
    ASSUME SInv, SInv', OInv, NEW f \in ForServer, session \notin Early, session' = session,
           waiting' = waiting, said' = said,
           \/ /\ busy'["server"] = <<>>
              /\ heard' = (IF f.k = "say" THEN Append(heard, f.n) ELSE heard)
           \/ busy'["server"] = <<f>> /\ heard' = heard,
           Ascends(later'["server"]), Ascends(wire'["server"]),
           (Num(f) \cup Nums(later'["server"])) \cup Nums(wire'["server"]) \subseteq
               (Nums(busy["server"]) \cup Nums(later["server"])) \cup Nums(wire["server"]),
           Before(Num(f), Nums(later'["server"]) \cup Nums(wire'["server"])),
           Before(Nums(later'["server"]), Nums(wire'["server"])),
           Standing' =>
               /\ Standing
               /\ (Nums(busy["server"]) \cup Nums(later["server"])) \cup Nums(wire["server"])
                    = (Num(f) \cup Nums(later'["server"])) \cup Nums(wire'["server"])
    PROVE  OInv'
<1>1. Opened'
  BY DEF Opened
<1>2. Nums(waiting) = {} /\ Nums(waiting') = {} /\ Ascends(waiting')
  BY NothingYet, NumsFacts
<1> DEFINE N == Nums(Inbound("server"))
           A == Num(f)
           B == Nums(busy["server"])
           L == Nums(later["server"])
           R == Nums(wire["server"])
           C == Nums(busy'["server"])
           M == Nums(later'["server"])
           T == Nums(wire'["server"])
           V == Nums(waiting)
           W == Nums(waiting')
<1>3. N = ((B \cup L) \cup V) \cup R
  BY InboundNums
<1>4. N' = ((C \cup M) \cup W) \cup T
  BY InboundNums
<1>5. /\ Ascends(busy'["server"])
      /\ Before(C, (M \cup W) \cup T) /\ Before(M, W \cup T) /\ Before(W, T)
      => Ascends(Inbound("server"))'
  BY <1>2, InboundNums
<1>6. /\ (A \cup M) \cup T \subseteq (B \cup L) \cup R
      /\ Before(A, M \cup T) /\ Before(M, T)
      /\ Standing' => Standing /\ (B \cup L) \cup R = (A \cup M) \cup T
  OBVIOUS
<1>7. V = {} /\ W = {}
  BY <1>2
<1>8. /\ busy'["server"] = <<>> => C = {} /\ Ascends(busy'["server"])
      /\ busy'["server"] = <<f>> => C = A /\ Ascends(busy'["server"])
  BY NumsFacts, OneNum
<1> HIDE DEF N, A, B, L, R, C, M, T, V, W
<1>9. CASE busy'["server"] = <<>> /\ heard' = (IF f.k = "say" THEN Append(heard, f.n) ELSE heard)
  <2>1. Ascends(Inbound("server"))'
    BY <1>5, <1>6, <1>7, <1>8, <1>9 DEF Before
  <2>2. N' = M \cup T /\ N = (B \cup L) \cup R
    BY <1>3, <1>4, <1>7, <1>8, <1>9
  <2>3. /\ A \subseteq N /\ N' \subseteq N /\ Before(A, N')
        /\ Standing' => Standing /\ N = A \cup N'
    BY <1>6, <2>2
  <2> QED BY <1>1, <1>9, <2>1, <2>3, TakenO DEF N, A
<1>10. CASE busy'["server"] = <<f>> /\ heard' = heard
  <2>1. Ascends(Inbound("server"))'
    BY <1>5, <1>6, <1>7, <1>8, <1>10 DEF Before
  <2>2. N' \subseteq N /\ (Standing' => Standing /\ N' = N)
    BY <1>3, <1>4, <1>6, <1>7, <1>8, <1>10
  <2> QED BY <1>1, <1>10, <2>1, <2>2, KeepsO DEF N
<1> QED BY <1>9, <1>10

\* Started: one of the two.
LEMMA StartsO ==
    ASSUME SInv, NEW w \in Wires, NEW f \in ForServer, Start("server", w, f), busy["server"] = <<>>
    PROVE  /\ \/ /\ busy'["server"] = <<>>
                 /\ heard' = (IF f.k = "say" THEN Append(heard, f.n) ELSE heard)
              \/ busy'["server"] = <<f>> /\ heard' = heard
           /\ wire'["server"] = w["server"]
           /\ said' = said /\ session' = session /\ closed' = closed
<1>1. /\ Replies(w, f)
      /\ \/ Delivered(f) /\ UNCHANGED busy
         \/ /\ f.k = "say" /\ busy' = [busy EXCEPT !["server"] = <<f>>]
            /\ UNCHANGED <<closed, call, client, process, ending, cleanups, gone, session>>
  BY StartServer
<1>2. CASE Delivered(f) /\ UNCHANGED busy
  BY <1>1, <1>2 DEF Delivered, client, Replies
<1>3. CASE /\ f.k = "say" /\ busy' = [busy EXCEPT !["server"] = <<f>>]
           /\ UNCHANGED <<closed, call, client, process, ending, cleanups, gone, session>>
  <2>1. busy \in [Sides -> Seq(Frame)]
    BY PairFacts DEF SInv, Frames
  <2>2. busy'["server"] = <<f>>
    BY <1>3, <2>1 DEF Sides
  <2> QED BY <1>1, <1>3, <2>2 DEF client, process, Replies
<1> QED BY <1>1, <1>2, <1>3


LEMMA PumpO ==
    ASSUME SInv, SInv', OInv, NEW s \in Sides, Pump(s)
    PROVE  OInv'
<1> DEFINE f == Head(later["server"])
           ls == later["server"]
<1>1. /\ session \notin Early /\ busy["server"] = <<>> /\ f \in ForServer
      /\ Start("server", wire, f)
      /\ later'["server"] = Tail(ls)
  BY PumpS
<1>2. s = "server"
  BY PumpS
<1>3. ls # <<>> /\ UNCHANGED <<cut, garbled, waiting>>
  BY <1>2 DEF Pump
<1>4. ls \in Seq(ForServer) /\ wire \in Wires
  BY WireTypes DEF SInv, Frames
<1>5. /\ Nums(ls) = Num(f) \cup Nums(Tail(ls))
      /\ Ascends(ls) => Ascends(Tail(ls)) /\ Before(Num(f), Nums(Tail(ls)))
  BY <1>3, <1>4, TailNums
<1> HIDE DEF f
<1>6. /\ \/ /\ busy'["server"] = <<>>
            /\ heard' = (IF f.k = "say" THEN Append(heard, f.n) ELSE heard)
         \/ busy'["server"] = <<f>> /\ heard' = heard
      /\ wire'["server"] = wire["server"]
      /\ said' = said /\ session' = session /\ closed' = closed
  BY <1>1, <1>4, StartsO
<1> DEFINE lt == later'["server"]
           R == Nums(wire["server"])
<1>7. Nums(busy["server"]) = {}
  BY <1>1, NumsFacts
<1>8. /\ Ascends(ls) /\ Ascends(wire["server"])
      /\ Before(Nums(ls), Nums(waiting) \cup R)
  BY InboundNums DEF OInv, ComesUp
<1>9. lt = Tail(ls)
  BY <1>1
<1> HIDE DEF ls, lt, R
<1>10. /\ Ascends(lt) /\ Nums(ls) = Num(f) \cup Nums(lt)
       /\ Before(Num(f), Nums(lt) \cup R) /\ Before(Nums(lt), R)
  BY <1>5, <1>8, <1>9 DEF Before
<1>11. Standing' => Standing
  BY <1>3, <1>6 DEF Standing
<1>12. (Num(f) \cup Nums(lt)) \cup R = ({} \cup Nums(ls)) \cup R
  BY <1>10
<1> QED BY <1>1, <1>3, <1>6, <1>7, <1>8, <1>10, <1>11, <1>12, TakesO DEF ls, lt, R

LEMMA OctetsArriveO ==
    ASSUME SInv, SInv', OInv, OctetsArrive
    PROVE  OInv'
<1> DEFINE f == Head(busy["server"])
           bs == busy["server"]
           ws == wire["server"]
           wt == wire'["server"]
           L == Nums(later["server"])
<1>1. /\ session \notin Early /\ bs # <<>> /\ f \in ForServer
      /\ ws # <<>> /\ Head(ws).k = "octets"
      /\ Delivered(f) /\ Replies(Arrived("server"), f)
      /\ busy'["server"] = <<>>
  BY OctetsArriveS
<1>2. wt = Tail(ws)
  BY <1>1, ArrivedFacts DEF Replies
<1>3. UNCHANGED <<cut, garbled, later, waiting>>
  BY DEF OctetsArrive
<1>4. /\ heard' = (IF f.k = "say" THEN Append(heard, f.n) ELSE heard)
      /\ said' = said /\ session' = session /\ closed' = closed
  BY <1>1 DEF Delivered, client
<1>5. bs \in Seq(ForServer) /\ ws \in Seq(ForServer) /\ Len(bs) <= 1
  BY WireTypes DEF SInv, Frames
<1>6. bs = <<f>>
  BY <1>1, <1>5
<1>7. Nums(bs) = Num(f)
  BY <1>1, <1>6, OneNum
<1>8. Nums(wt) = Nums(ws) /\ (Ascends(ws) => Ascends(wt))
  <2>1. Num(Head(ws)) = {}
    BY <1>1 DEF Num
  <2> QED BY <1>1, <1>2, <1>5, <2>1, TailNums
<1>9. /\ Ascends(later["server"]) /\ Ascends(ws)
      /\ Before(Nums(bs), (L \cup Nums(waiting)) \cup Nums(ws))
      /\ Before(L, Nums(waiting) \cup Nums(ws))
  BY InboundNums DEF OInv, ComesUp
<1>10. Nums(later'["server"]) = L /\ Ascends(later'["server"])
  BY <1>3, <1>9
<1>11. Standing' => Standing
  BY <1>3, <1>4 DEF Standing
<1> HIDE DEF f, bs, ws, wt, L
<1>12. /\ Before(Num(f), L \cup Nums(wt)) /\ Before(L, Nums(wt))
       /\ Ascends(wt)
       /\ (Nums(bs) \cup L) \cup Nums(ws) = (Num(f) \cup L) \cup Nums(wt)
  BY <1>7, <1>8, <1>9 DEF Before
<1> QED BY <1>1, <1>3, <1>4, <1>10, <1>11, <1>12, TakesO DEF bs, ws, wt, L

LEMMA HandshakeO ==
    ASSUME SInv, SInv', OInv, Handshake
    PROVE  OInv'
<1>1. /\ wire'["server"] = wire["server"]
      /\ waiting # <<>> /\ waiting' = Tail(waiting)
      /\ \/ wire'["client"] = wire["client"]
         \/ wire'["client"] = Append(wire["client"], F("error"))
  BY HandshakeS
<1>2. /\ UNCHANGED <<closed, cut, garbled, later, busy, said, heard, proxy>>
      /\ session = "init"
  BY DEF Handshake, queue, client, process
<1>3. Has(wire'["client"], "state") => Has(wire["client"], "state")
  <2> DEFINE wc == wire["client"]
             wd == wire'["client"]
             g == F("error")
  <2>1. wc \in Seq(ForClient) /\ g \in ForClient /\ g.k # "state" /\ wd \in {wc, Append(wc, g)}
    BY <1>1, WireTypes, MadeFrames, MadeKinds
  <2> HIDE DEF wc, wd, g
  <2>2. Has(Append(wc, g), "state") => Has(wc, "state")
    BY <2>1, AppendHolds
  <2>3. Has(wd, "state") => Has(wc, "state")
    BY <2>1, <2>2
  <2> QED BY <2>3 DEF wc, wd
<1>4. Opened'
  BY <1>2, <1>3, OpenedKeeps DEF OInv, Early
<1>5. Fewer(waiting, waiting') /\ Nums(waiting') = Nums(waiting)
  <2>1. Nums(waiting) = {} /\ waiting \in Seq(ForServer)
    BY NothingYet, WireTypes
  <2>2. Nums(Tail(waiting)) = {}
    BY <1>1, <2>1, TailNums
  <2> QED BY <1>1, <2>1, <2>2, NumsFacts DEF Fewer
<1>6. \A fs : Fewer(fs, fs)
  BY DEF Fewer
<1>7. Standing' => Standing
  BY <1>2 DEF Standing
<1> QED BY <1>1, <1>2, <1>4, <1>5, <1>6, <1>7, FewerO

LEMMA ServeO ==
    ASSUME SInv, SInv', OInv, Serve
    PROVE  OInv'
<1>1. later["server"] = <<>> /\ later'["server"] = waiting
  BY ServeS
<1>2. /\ UNCHANGED <<wire, closed, cut, garbled, busy, said, heard, proxy>>
      /\ waiting' = <<>> /\ session' = "serving"
  BY DEF Serve, link, client, process
<1>3. Opened'
  BY <1>2 DEF Opened, Early
<1>4. Nums(waiting) = {} /\ Nums(waiting') = {} /\ Nums(later'["server"]) = {} /\ Nums(later["server"]) = {}
  BY <1>1, <1>2, NothingYet, NumsFacts
<1>5. Fewer(waiting, waiting') /\ Fewer(later["server"], later'["server"])
  BY <1>4, NumsFacts DEF Fewer
<1>6. \A fs : Fewer(fs, fs)
  BY DEF Fewer
<1>7. Standing' => Standing
  BY <1>2 DEF Standing
<1> QED BY <1>2, <1>3, <1>4, <1>5, <1>6, <1>7, FewerO

LEMMA CloseServerO ==
    ASSUME SInv, SInv', OInv, CloseServer
    PROVE  OInv'
<1>1. /\ session' = "over"
      /\ closed' = [closed EXCEPT !["server"] = TRUE]
      /\ UNCHANGED <<later, waiting, said, heard>>
  BY DEF CloseServer, client, process
<1>2. /\ wire'["server"] \in {wire["server"], <<>>}
      /\ busy'["server"] \in {<<>>, busy["server"]}
  BY CloseServerS
<1>3. ~Standing'
  BY <1>1 DEF SInv, Settings, Sides, Standing
<1>4. Opened'
  BY <1>1 DEF Opened, Early
<1>5. \A fs : Fewer(fs, fs) /\ Fewer(fs, <<>>)
  BY NumsFacts DEF Fewer
<1> QED BY <1>1, <1>2, <1>3, <1>4, <1>5, FewerO


LEMMA ArrivesServerO ==
    ASSUME SInv, SInv', OInv, FrameArrives("server")
    PROVE  OInv'
<1>1. PICK f \in ForServer : Gets("server", f)
  BY FrameGets
<1> DEFINE w == Arrived("server")
           ws == wire["server"]
           wt == wire'["server"]
           h == Head(ws)
           ls == later["server"]
           lt == later'["server"]
           bs == busy["server"]
           bt == busy'["server"]
<1>2. /\ ws # <<>> /\ ws \in Seq(ForServer) /\ ls \in Seq(ForServer) /\ h \in ForServer
      /\ w \in Wires /\ w["server"] = Tail(ws) /\ w["client"] = wire["client"]
  BY <1>1, ArrivedFacts, WireTypes DEF Gets
<1>3. /\ Nums(ws) = Num(h) \cup Nums(Tail(ws))
      /\ Ascends(ws) => Ascends(Tail(ws)) /\ Before(Num(h), Nums(Tail(ws)))
  BY <1>2, TailNums
<1>4. /\ Num(f) \subseteq Num(h) /\ (garbled => garbled')
      /\ ~garbled' => Num(f) = Num(h)
  <2>1. Num(F("bad")) = {}
    BY MadeKinds DEF Num
  <2>2. \/ f = h /\ garbled' = garbled
        \/ f = F("bad") /\ garbled'
    BY <1>1 DEF Gets
  <2>3. CASE f = h /\ garbled' = garbled
    BY <2>3
  <2>4. CASE f = F("bad") /\ garbled'
    BY <2>1, <2>4
  <2> QED BY <2>2, <2>3, <2>4
<1>5. cut' = cut /\ session # "offered"
  BY <1>1 DEF Gets, FrameArrives
<1>6. /\ Ascends(bs) /\ Ascends(ls) /\ Ascends(ws)
      /\ Before(Nums(bs), (Nums(ls) \cup Nums(waiting)) \cup Nums(ws))
      /\ Before(Nums(ls), Nums(waiting) \cup Nums(ws))
  BY InboundNums DEF OInv, ComesUp
<1> HIDE DEF w, h
<1>7. CASE Collects(f) \/ Ignores
  <2>1. /\ wire' = w /\ UNCHANGED <<later, busy>>
        /\ waiting' \in {waiting, Append(waiting, f)}
        /\ session \in Early
        /\ UNCHANGED <<closed, client, process, session>>
    BY <1>7 DEF Collects, Ignores, Collecting, Early, w
  <2>2. Opened'
    <3>1. session' = session /\ said' = said /\ proxy' = proxy /\ wire'["client"] = wire["client"]
      BY <1>2, <2>1 DEF client
    <3> QED BY <3>1 DEF OInv, Opened
  <2>3. Nums(bs) = {} /\ Nums(ls) = {} /\ Nums(waiting) = {} /\ Nums(ws) = {}
    BY <2>1, NothingYet, InboundNums
  <2>4. Nums(bt) = {} /\ Nums(lt) = {}
    BY <2>1, <2>3
  <2>5. Nums(wt) = {} /\ Num(f) = {}
    BY <1>2, <1>3, <1>4, <2>1, <2>3
  <2>6. Nums(waiting') = {}
    <3>1. waiting \in Seq(ForServer)
      BY WireTypes
    <3>2. Nums(Append(waiting, f)) = {}
      BY <2>3, <2>5, <3>1, AppendNums
    <3> QED BY <2>1, <2>3, <3>2
  <2>7. Fewer(bs, bt) /\ Fewer(ls, lt) /\ Fewer(waiting, waiting') /\ Fewer(ws, wt)
    BY <2>4, <2>5, <2>6, NumsFacts DEF Fewer
  <2>8. Standing' => Standing
    BY <1>4, <1>5, <2>1 DEF Standing, SInv, Settings
  <2> QED BY <2>1, <2>2, <2>3, <2>4, <2>5, <2>6, <2>7, <2>8, FewerO DEF client, process
<1>8. CASE Begins(f)
  <2>1. /\ Start("server", w, f) /\ UNCHANGED <<later, waiting>>
        /\ busy["server"] = <<>> /\ later["server"] = <<>> /\ session \notin Early
    BY <1>5, <1>8 DEF Begins, Collecting, Early, w
  <2>2. /\ \/ /\ busy'["server"] = <<>>
              /\ heard' = (IF f.k = "say" THEN Append(heard, f.n) ELSE heard)
           \/ busy'["server"] = <<f>> /\ heard' = heard
        /\ wt = Tail(ws)
        /\ said' = said /\ session' = session /\ closed' = closed
    BY <1>2, <2>1, StartsO
  <2>3. Nums(bs) = {} /\ Nums(ls) = {} /\ Nums(lt) = {} /\ Ascends(lt)
    BY <2>1, NumsFacts
  <2>4. Standing' => Standing /\ Num(f) = Num(h)
    BY <1>4, <1>5, <2>2 DEF Standing, SInv, Settings
  <2>5. waiting' = waiting
    BY <2>1
  <2> HIDE DEF ws, wt, ls, lt, bs, bt
  <2>6. Ascends(wt) /\ Before(Num(f), Nums(lt) \cup Nums(wt)) /\ Before(Nums(lt), Nums(wt))
    BY <1>3, <1>4, <1>6, <2>2, <2>3 DEF Before
  <2>7. /\ (Num(f) \cup Nums(lt)) \cup Nums(wt) \subseteq (Nums(bs) \cup Nums(ls)) \cup Nums(ws)
        /\ Standing' => (Nums(bs) \cup Nums(ls)) \cup Nums(ws) = (Num(f) \cup Nums(lt)) \cup Nums(wt)
    BY <1>3, <1>4, <2>2, <2>3, <2>4
  <2> QED BY <2>1, <2>2, <2>3, <2>4, <2>5, <2>6, <2>7, TakesO DEF ws, wt, ls, lt, bs, bt
<1>9. CASE PutsInLine(f)
  <2>1. /\ later' = [later EXCEPT !["server"] = Append(ls, f)]
        /\ wire' = w /\ UNCHANGED <<busy, waiting>> /\ session \notin Early
        /\ UNCHANGED <<closed, client, process, session>>
    BY <1>5, <1>9 DEF PutsInLine, Collecting, Early, w
  <2>2. lt = Append(ls, f)
    <3>1. later \in [Sides -> Seq(Frame)]
      BY PairFacts DEF SInv, Frames
    <3> QED BY <2>1, <3>1 DEF Sides
  <2>3. wt = Tail(ws) /\ bt = bs /\ waiting' = waiting /\ session' = session
        /\ said' = said /\ heard' = heard
    BY <1>2, <2>1 DEF client, process
  <2>4. Opened'
    BY <2>1, <2>3 DEF Opened
  <2>5. Standing' => Standing /\ Num(f) = Num(h)
    BY <1>4, <1>5, <2>1 DEF Standing, SInv, Settings
  <2>6. Nums(waiting) = {} /\ Nums(waiting') = {} /\ Ascends(waiting')
    BY <2>3, NothingYet, NumsFacts
  <2> DEFINE N == Nums(Inbound("server"))
             V == Nums(waiting')
  <2>7. N = ((Nums(bs) \cup Nums(ls)) \cup Nums(waiting)) \cup Nums(ws)
    BY InboundNums
  <2>8. N' = ((Nums(bt) \cup Nums(lt)) \cup V) \cup Nums(wt)
    BY InboundNums
  <2>9. /\ Ascends(bt) /\ Ascends(lt) /\ Ascends(waiting') /\ Ascends(wt)
        /\ Before(Nums(bt), (Nums(lt) \cup V) \cup Nums(wt))
        /\ Before(Nums(lt), V \cup Nums(wt)) /\ Before(V, Nums(wt))
        => Ascends(Inbound("server"))'
    BY InboundNums
  <2> HIDE DEF ws, wt, ls, lt, bs, bt, N
  <2>10. /\ Nums(lt) = Nums(ls) \cup Num(f)
         /\ Ascends(lt) <=> Ascends(ls) /\ Before(Nums(ls), Num(f))
    BY <1>2, <2>2, AppendNums
  <2>11. Nums(wt) = Nums(Tail(ws)) /\ Nums(bt) = Nums(bs) /\ Ascends(wt) /\ Ascends(bt)
    BY <1>3, <1>6, <2>3
  <2>12. V = {}
    BY <2>6
  <2> HIDE DEF V
  <2>13. Ascends(lt)
    BY <1>3, <1>4, <1>6, <2>10 DEF Before
  <2>14. /\ Before(Nums(bt), (Nums(lt) \cup V) \cup Nums(wt))
         /\ Before(Nums(lt), V \cup Nums(wt)) /\ Before(V, Nums(wt))
    BY <1>3, <1>4, <1>6, <2>10, <2>11, <2>12 DEF Before
  <2>15. Ascends(Inbound("server"))'
    BY <2>6, <2>9, <2>11, <2>13, <2>14
  <2>16. N' \subseteq N /\ (Standing' => Standing /\ N' = N)
    BY <1>3, <1>4, <2>5, <2>6, <2>7, <2>8, <2>10, <2>11, <2>12
  <2> QED BY <2>3, <2>4, <2>15, <2>16, KeepsO DEF N
<1> QED BY <1>1, <1>7, <1>8, <1>9, ReceivesServer DEF Gets

LEMMA NextOInv == SInv /\ OInv /\ [Next]_vars => OInv'
<1> SUFFICES ASSUME SInv, OInv, [Next]_vars PROVE OInv'
  OBVIOUS
<1>0. SInv'
  BY NextSInv
<1>1. CASE Medium
  BY <1>0, <1>1, ArrivesServerO, ArrivesClientO, ClosingStepsO, WritingStepsO, OctetsArriveO DEF Medium, Sides
<1>2. CASE ServerStep
  BY <1>0, <1>2, QuietStepsO, ClosingStepsO, HandshakeO, ServeO, CloseServerO DEF ServerStep, ProcStops
<1>3. CASE ProxyStep
  BY <1>0, <1>3, QuietStepsO, ClosingStepsO DEF ProxyStep
<1>4. CASE \E s \in Sides : Pump(s) \/ Answer(s) \/ Call(s)
  BY <1>0, <1>4, PumpO, WritingStepsO
<1>5. CASE ReactorEnds \/ ReactorStopped \/ Cut \/ StopReactor
  BY <1>0, <1>5, QuietStepsO, ClosingStepsO
<1>6. CASE MakeFails \/ ReadyFails \/ ProcEnds \/ Emit \/ Say \/ StopProxy
  BY <1>0, <1>6, QuietStepsO, WritingStepsO, SayO
<1>7. CASE UNCHANGED vars
  BY <1>0, <1>7, QuietStepsO
<1> QED BY <1>1, <1>2, <1>3, <1>4, <1>5, <1>6, <1>7 DEF Next, Steps

\* Messages are handed to the served process in the order they were sent, whether they
\* waited for the process to start, for octets, or behind another frame; and as long as the
\* connection stands, none is lost: what was handed over and what is on its way are all that
\* was said.
THEOREM InOrderAlways == Spec => []InOrder
<1>1. OInv => InOrder
  <2> SUFFICES ASSUME OInv PROVE InOrder
    OBVIOUS
  <2> DEFINE coming == Inbound("server")
  <2>1. \A i, j \in DOMAIN heard : i < j => heard[i] < heard[j]
    BY DEF OInv, HeardUp
  <2>2. /\ {coming[i].n : i \in Sayings(coming)} = Nums(coming)
        /\ Ascends(coming) <=> \A i, j \in Sayings(coming) : i < j => coming[i].n < coming[j].n
    BY DEF Nums, Ascends
  <2>3. Ascends(coming)
    BY DEF OInv, ComesUp
  <2>4. ~cut /\ ~garbled /\ ~closed["server"] /\ ~closed["client"] =>
          (\A i \in DOMAIN heard : heard[i] = i) /\ Nums(coming) = Len(heard) + 1 .. said
    BY DEF OInv, AllComes, Standing
  <2> HIDE DEF coming
  <2>5. /\ \A i, j \in DOMAIN heard : i < j => heard[i] < heard[j]
        /\ ~cut /\ ~garbled /\ ~closed["server"] /\ ~closed["client"] =>
              /\ \A i \in DOMAIN heard : heard[i] = i
              /\ {coming[i].n : i \in Sayings(coming)} = Len(heard) + 1 .. said
              /\ \A i, j \in Sayings(coming) : i < j => coming[i].n < coming[j].n
    BY <2>1, <2>2, <2>3, <2>4
  <2> QED BY <2>5 DEF InOrder, coming
<1>2. Spec => [](SInv /\ OInv)
  BY InitSInv, NextSInv, InitOInv, NextOInv, PTL DEF Spec
<1> QED BY <1>1, <1>2, PTL

=============================================================================
