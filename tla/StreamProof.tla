----------------------------- MODULE StreamProof -----------------------------
(***************************************************************************)
(* The window of Stream holds for every window, chunk size, bound and       *)
(* source.  Credit is one quantity seen from two ends: what the writer      *)
(* sent or may still send, the asks under way, and what the reader asked    *)
(* for are one chain, which the reader never stretches past what its        *)
(* consumer took and a window more.                                         *)
(*                                                                         *)
(* Then the octets: what the consumer is given is what the source gave,    *)
(* every chunk meets its own tail, the end is told after the last octet,   *)
(* and the stream is the bounded pipe that BoundedPipe describes.          *)
(***************************************************************************)
EXTENDS Stream, SequenceTheorems, TLAPS

IsAsk(i) == toWriter[i].k = "ask"

\* Each ask begins where the one before it ended, or later.
Demand ==
    /\ sent + credit <= asked
    /\ \A i \in DOMAIN toWriter : IsAsk(i) =>
          /\ sent + credit <= toWriter[i].upto - toWriter[i].credit
          /\ toWriter[i].upto <= asked
    /\ \A i, j \in DOMAIN toWriter : i < j /\ IsAsk(i) /\ IsAsk(j) =>
          toWriter[i].upto <= toWriter[j].upto - toWriter[j].credit
    /\ asked <= consumed + Window

\* The pump waits for the source only with credit in hand.
PumpInCredit ==
    /\ pump = "pull" => credit > 0
    /\ pump = "segment" => seq > 0

IInv == TypeOK /\ Demand /\ PumpInCredit

-----------------------------------------------------------------------------
(* Sequences of frames. *)

\* A frame sent is appended, or lost with the connection.
LEMMA SentType ==
    ASSUME NEW S, NEW w \in Seq(S), NEW f \in S
    PROVE  Sent(w, f) \in Seq(S)
  BY DEF Sent

\* It stands last, and moves nothing.
LEMMA SentIndex ==
    ASSUME NEW S, NEW w \in Seq(S), NEW f \in S, NEW i \in DOMAIN Sent(w, f)
    PROVE  \/ i \in DOMAIN w /\ Sent(w, f)[i] = w[i]
           \/ Sent(w, f)[i] = f /\ \A j \in DOMAIN Sent(w, f) : j <= i
<1>1. CASE down
  BY <1>1 DEF Sent
<1>2. CASE ~down
  <2>1. Sent(w, f) = Append(w, f)
    BY <1>2 DEF Sent
  <2>2. i \in 1..(Len(w) + 1) /\ DOMAIN Append(w, f) = 1..(Len(w) + 1)
    BY <2>1
  <2>3. CASE i = Len(w) + 1
    BY <2>1, <2>2, <2>3
  <2>4. CASE i # Len(w) + 1
    BY <2>1, <2>2, <2>4
  <2> QED
    BY <2>3, <2>4
<1> QED
  BY <1>1, <1>2

\* What is left when the first frame has been taken.
LEMMA TailFacts ==
    ASSUME NEW S, NEW w \in Seq(S), w # <<>>
    PROVE  /\ Tail(w) \in Seq(S)
           /\ 1 \in DOMAIN w /\ Head(w) = w[1] /\ Head(w) \in S
           /\ \A i \in DOMAIN Tail(w) : i \in Nat \ {0} /\ i + 1 \in DOMAIN w /\ Tail(w)[i] = w[i + 1]
  OBVIOUS

-----------------------------------------------------------------------------
(* The writer. *)

\* A chunk is at least one octet and at most the credit, and is paid for.
LEMMA CutFacts ==
    ASSUME TypeOK, NEW c \in Nat \ {0}, NEW piece \in Nat \ {0}, Cut(c, piece)
    PROVE  /\ rest' \in Nat /\ credit' \in Nat /\ sent' \in Nat
           /\ seq' \in Nat /\ seq' > 0
           /\ toReader' \in Seq(ToReader)
           /\ pump' = "segment"
           /\ sent' + credit' = sent + c
<1> DEFINE size == Least(piece, Least(Chunk, c))
<1>1. size \in Nat \ {0} /\ size <= piece /\ size <= c
  BY StreamAssumption DEF Least
<1>2. PICK ok \in {TRUE, ~Corrupts} :
         toReader' = Sent(toReader, [k |-> "chunk", piece |->
                         [seq |-> seq, at |-> sent, bytes |-> size, ok |-> ok]])
  BY DEF Cut
<1>3. ok \in BOOLEAN
  BY StreamAssumption
<1>4. [seq |-> seq, at |-> sent, bytes |-> size, ok |-> ok] \in Piece
  BY <1>1, <1>3 DEF Piece, TypeOK
<1>5. [k |-> "chunk", piece |-> [seq |-> seq, at |-> sent, bytes |-> size, ok |-> ok]] \in ToReader
  BY <1>4 DEF ToReader
<1>6. toReader' \in Seq(ToReader)
  BY <1>2, <1>5, SentType DEF TypeOK
<1>7. rest' = piece - size /\ credit' = c - size /\ seq' = seq + 1 /\ sent' = sent + size /\ pump' = "segment"
  BY DEF Cut
<1>8. seq \in Nat /\ sent \in Nat
  BY DEF TypeOK
<1> HIDE DEF size
<1> QED
  BY <1>1, <1>6, <1>7, <1>8

\* The loop's test either parks the pump or cuts a chunk.
LEMMA LoopFacts ==
    ASSUME TypeOK, NEW c \in Nat, Loop(c)
    PROVE  /\ rest' \in Nat /\ credit' \in Nat /\ sent' \in Nat /\ seq' \in Nat
           /\ toReader' \in Seq(ToReader)
           /\ pump' \in {"idle", "pull", "segment"}
           /\ PumpInCredit'
           /\ sent' + credit' = sent + c
<1>1. CASE dropped \/ c = 0 \/ rest = 0
  <2>1. /\ pump' = IF dropped \/ c = 0 THEN "idle" ELSE "pull"
        /\ credit' = c /\ rest' = rest /\ seq' = seq /\ sent' = sent /\ toReader' = toReader
    BY <1>1 DEF Loop
  <2>2. pump' \in {"idle", "pull"} /\ (pump' = "pull" => c # 0)
    BY <2>1
  <2> QED
    BY <2>1, <2>2 DEF TypeOK, PumpInCredit
<1>2. CASE ~(dropped \/ c = 0 \/ rest = 0)
  <2>1. Cut(c, rest)
    BY <1>2 DEF Loop
  <2>2. c \in Nat \ {0} /\ rest \in Nat \ {0}
    BY <1>2 DEF TypeOK
  <2> QED
    BY <2>1, <2>2, CutFacts DEF PumpInCredit
<1> QED
  BY <1>1, <1>2

-----------------------------------------------------------------------------
(* The reader. *)

\* An ask continues the chain.
LEMMA AskFacts ==
    ASSUME TypeOK, Demand, NEW c \in Nat, consumed <= c, Ask(c), consumed' = c,
           sent' = sent, credit' = credit
    PROVE  asked' \in Nat /\ toWriter' \in Seq(ToWriter) /\ Demand'
<1>0. Window \in Nat \ {0}
  BY StreamAssumption
<1>t. /\ sent \in Nat /\ credit \in Nat /\ asked \in Nat /\ consumed \in Nat
      /\ toWriter \in Seq(ToWriter)
  BY DEF TypeOK
<1>1. CASE incoming = "live" /\ ~rclosed /\ 2 * (asked - c) < Window
  <2> DEFINE f == [k |-> "ask", credit |-> c + Window - asked, upto |-> c + Window]
  <2>1. asked' = c + Window /\ toWriter' = Sent(toWriter, f)
    BY <1>1 DEF Ask
  <2>2. c + Window - asked \in Nat /\ c + Window >= asked
    BY <1>0, <1>1, <1>t
  <2>3. f \in ToWriter
    <3>1. c + Window \in Nat
      BY <1>0
    <3> QED
      BY <2>2, <3>1 DEF ToWriter
  <2>4. toWriter' \in Seq(ToWriter)
    BY <2>1, <2>3, <1>t, SentType
  <2>5. \A i \in DOMAIN toWriter' : \/ i \in DOMAIN toWriter /\ toWriter'[i] = toWriter[i]
                                    \/ toWriter'[i] = f /\ \A j \in DOMAIN toWriter' : j <= i
    <3> HIDE DEF f
    <3> QED
      BY <2>1, <2>3, <1>t, SentIndex
  <2>6. \A i \in DOMAIN toWriter : toWriter[i].upto \in Nat /\ toWriter[i].credit \in Nat
    <3>1. \A i \in DOMAIN toWriter : toWriter[i] \in ToWriter
      BY <1>t
    <3> QED
      BY <3>1 DEF ToWriter
  <2>7. DOMAIN toWriter' \subseteq Nat
    BY <2>4
  <2>8. sent' + credit' <= asked' /\ asked' <= consumed' + Window
    BY <1>0, <1>t, <2>1, <2>2 DEF Demand
  <2>9. ASSUME NEW i \in DOMAIN toWriter', IsAsk(i)'
        PROVE  /\ sent' + credit' <= toWriter'[i].upto - toWriter'[i].credit
               /\ toWriter'[i].upto <= asked'
    <3>1. CASE i \in DOMAIN toWriter /\ toWriter'[i] = toWriter[i]
      BY <1>0, <1>t, <2>1, <2>2, <2>6, <2>9, <3>1 DEF Demand, IsAsk
    <3>2. CASE toWriter'[i] = f
      BY <1>0, <1>t, <2>1, <2>2, <3>2 DEF Demand
    <3> QED
      BY <2>5, <3>1, <3>2
  <2>10. ASSUME NEW i \in DOMAIN toWriter', NEW j \in DOMAIN toWriter',
                i < j, IsAsk(i)', IsAsk(j)'
         PROVE  toWriter'[i].upto <= toWriter'[j].upto - toWriter'[j].credit
    <3>1. i \in DOMAIN toWriter /\ toWriter'[i] = toWriter[i]
      BY <2>5, <2>7, <2>10
    <3>2. CASE j \in DOMAIN toWriter /\ toWriter'[j] = toWriter[j]
      BY <2>10, <3>1, <3>2 DEF Demand, IsAsk
    <3>3. CASE toWriter'[j] = f
      BY <1>0, <1>t, <2>2, <2>6, <2>10, <3>1, <3>3 DEF Demand, IsAsk
    <3> QED
      BY <2>5, <3>2, <3>3
  <2> QED
    BY <1>0, <2>1, <2>4, <2>8, <2>9, <2>10 DEF Demand
<1>2. CASE ~(incoming = "live" /\ ~rclosed /\ 2 * (asked - c) < Window)
  <2>1. asked' = asked /\ toWriter' = toWriter
    BY <1>2 DEF Ask
  <2>2. asked <= c + Window
    BY <1>0, <1>t DEF Demand
  <2> QED
    BY <1>t, <2>1, <2>2 DEF Demand, IsAsk
<1> QED
  BY <1>1, <1>2

\* A fail or a cancel on its way asks for nothing.
LEMMA NoteFacts ==
    ASSUME TypeOK, Demand, NEW k \in {"fail", "cancel"}, toWriter' = Sent(toWriter, Note(k)),
           sent' = sent, credit' = credit, asked' = asked, consumed' = consumed
    PROVE  toWriter' \in Seq(ToWriter) /\ Demand'
<1>1. Note(k) \in ToWriter /\ Note(k).k # "ask"
  BY DEF Note, ToWriter
<1>2. toWriter' \in Seq(ToWriter)
  BY <1>1, SentType DEF TypeOK
<1>3. \A i \in DOMAIN toWriter' : IsAsk(i)' => i \in DOMAIN toWriter /\ toWriter'[i] = toWriter[i]
  BY <1>1 DEF IsAsk, Sent, TypeOK
<1> QED
  BY <1>2, <1>3 DEF Demand, IsAsk

\* A sum below one bound is below a larger one.
LEMMA Within ==
    ASSUME NEW a \in Nat, NEW b \in Nat, NEW u \in Nat, NEW m \in Nat, a + b <= u, u <= m
    PROVE  a + b <= m
  OBVIOUS

\* Nothing that is counted moved.
LEMMA Uncounted ==
    ASSUME Demand, toWriter' = toWriter \/ toWriter' = <<>>,
           sent' = sent, credit' = credit, asked' = asked, consumed' = consumed
    PROVE  Demand'
  BY DEF Demand, IsAsk

\* fail() leaves the consumer with a reason and in a state.
LEMMA FailType ==
    ASSUME TypeOK, NEW r \in Reasons, FailWith(r)
    PROVE  failure' \in Reasons /\ waiting' \in BOOLEAN /\ outcome' \in {"reading", "done", "error"}
  BY DEF TypeOK, FailWith

-----------------------------------------------------------------------------
(* The invariant. *)

LEMMA InitHolds == Init => IInv
<1> SUFFICES ASSUME Init PROVE IInv
  OBVIOUS
<1>1. Frame("stream") \in ToReader
  BY DEF Frame, ToReader, Named, Piece
<1>2. TypeOK
  <2>1. toReader \in Seq(ToReader) /\ toWriter \in Seq(ToWriter)
    BY <1>1 DEF Init
  <2>2. /\ total \in Nat /\ source \in Nat /\ rest \in Nat /\ credit \in Nat
        /\ seq \in Nat /\ sent \in Nat /\ asked \in Nat /\ consumed \in Nat /\ received \in Nat
    BY StreamAssumption DEF Init
  <2>3. chunk \in Seq(Piece) /\ Len(chunk) <= 1 /\ queue \in Seq(Piece)
    BY DEF Init
  <2>4. /\ dropped \in BOOLEAN /\ wclosed \in BOOLEAN /\ down \in BOOLEAN
        /\ opened \in BOOLEAN /\ waiting \in BOOLEAN /\ ended \in BOOLEAN
        /\ stopped \in BOOLEAN /\ rclosed \in BOOLEAN
    BY DEF Init
  <2>5. /\ pump \in {"idle", "pull", "segment", "tail", "closing"}
        /\ incoming \in {"none", "live", "gone"} /\ failure \in Reasons
        /\ outcome \in {"reading", "done", "error"}
    BY DEF Init, Reasons
  <2> QED
    BY <2>1, <2>2, <2>3, <2>4, <2>5 DEF TypeOK
<1>3. Demand /\ PumpInCredit
  BY StreamAssumption DEF Init, Demand, PumpInCredit
<1> QED
  BY <1>2, <1>3 DEF IInv

\* The pump's steps pay for what they send.
LEMMA PumpHolds == IInv /\ PumpStep => IInv'
<1> SUFFICES ASSUME IInv, PumpStep PROVE IInv'
  OBVIOUS
<1>t. TypeOK /\ Demand /\ PumpInCredit
  BY DEF IInv
<1>r. UNCHANGED reader => UNCHANGED <<asked, consumed>>
  BY DEF reader
<1>1. CASE PullYields
  <2>1. PICK n \in 1..source : source' = source - n /\ Cut(credit, n)
    BY <1>1 DEF PullYields
  <2>2. n \in Nat \ {0} /\ source' \in Nat /\ credit \in Nat \ {0}
    BY <1>1, <1>t, <2>1 DEF TypeOK, PumpInCredit, PullYields
  <2>3. /\ rest' \in Nat /\ credit' \in Nat /\ sent' \in Nat /\ seq' \in Nat /\ seq' > 0
        /\ toReader' \in Seq(ToReader) /\ pump' = "segment" /\ sent' + credit' = sent + credit
    BY <1>t, <2>1, <2>2, CutFacts
  <2>4. TypeOK'
    BY <1>1, <1>t, <2>2, <2>3 DEF TypeOK, PullYields, reader
  <2>5. Demand' /\ PumpInCredit'
    BY <1>1, <1>t, <1>r, <2>3 DEF Demand, IsAsk, PumpInCredit, PullYields
  <2> QED
    BY <2>4, <2>5 DEF IInv
<1>2. CASE PullYieldsNothing \/ TailSent
  <2>1. Loop(credit) /\ credit \in Nat
    BY <1>2, <1>t DEF PullYieldsNothing, TailSent, TypeOK
  <2>2. /\ rest' \in Nat /\ credit' \in Nat /\ sent' \in Nat /\ seq' \in Nat
        /\ toReader' \in Seq(ToReader) /\ pump' \in {"idle", "pull", "segment"}
        /\ PumpInCredit' /\ sent' + credit' = sent + credit
    BY <1>t, <2>1, LoopFacts
  <2>3. TypeOK'
    <3>1. UNCHANGED <<total, source, dropped, wclosed, toWriter, down>> /\ UNCHANGED reader
      BY <1>2 DEF PullYieldsNothing, TailSent
    <3> QED
      BY <1>t, <2>2, <3>1 DEF TypeOK, reader
  <2>4. Demand'
    BY <1>2, <1>t, <1>r, <2>2 DEF Demand, IsAsk, PullYieldsNothing, TailSent
  <2> QED
    BY <2>2, <2>3, <2>4 DEF IInv
<1>3. CASE PullEnds
  <2>1. Frame("done") \in ToReader /\ Frame("fail") \in ToReader
    BY DEF Frame, ToReader, Named, Piece
  <2>2. toReader' \in Seq(ToReader)
    BY <1>3, <1>t, <2>1, SentType DEF PullEnds, TypeOK
  <2>3. TypeOK'
    BY <1>3, <1>t, <2>2 DEF TypeOK, PullEnds, reader
  <2>4. Demand' /\ PumpInCredit'
    BY <1>3, <1>t, <1>r DEF Demand, IsAsk, PumpInCredit, PullEnds
  <2> QED
    BY <2>3, <2>4 DEF IInv
<1>4. CASE SegmentSent
  <2>1. seq - 1 \in Nat
    BY <1>4, <1>t DEF SegmentSent, TypeOK, PumpInCredit
  <2>2. [k |-> "chunkEnd", piece |-> Named(seq - 1)] \in ToReader
    BY <2>1 DEF ToReader, Named, Piece
  <2>3. toReader' \in Seq(ToReader)
    BY <1>4, <1>t, <2>2, SentType DEF SegmentSent, TypeOK
  <2>4. TypeOK'
    BY <1>4, <1>t, <2>3 DEF TypeOK, SegmentSent, reader
  <2>5. Demand' /\ PumpInCredit'
    BY <1>4, <1>t, <1>r DEF Demand, IsAsk, PumpInCredit, SegmentSent
  <2> QED
    BY <2>4, <2>5 DEF IInv
<1>5. CASE PumpDrops
  <2>1. TypeOK'
    BY <1>5, <1>t DEF TypeOK, PumpDrops, reader
  <2>2. Demand' /\ PumpInCredit'
    BY <1>5, <1>t, <1>r DEF Demand, IsAsk, PumpInCredit, PumpDrops
  <2> QED
    BY <2>1, <2>2 DEF IInv
<1> QED
  BY <1>1, <1>2, <1>3, <1>4, <1>5 DEF PumpStep

\* An ask that is taken off the wire becomes credit, no more than the next ask
\* left room for.
LEMMA WriterGetsHolds == IInv /\ WriterGets => IInv'
<1> SUFFICES ASSUME IInv, WriterGets PROVE IInv'
  OBVIOUS
<1> DEFINE f == Head(toWriter)
<1>t. TypeOK /\ Demand /\ PumpInCredit
  BY DEF IInv
<1>n. toWriter \in Seq(ToWriter) /\ sent \in Nat /\ credit \in Nat /\ asked \in Nat
  BY <1>t DEF TypeOK
<1>w. /\ toWriter # <<>> /\ toWriter' = Tail(toWriter)
      /\ UNCHANGED <<total, source, wclosed, down, reader>>
  BY DEF WriterGets
<1>r. UNCHANGED <<asked, consumed>>
  BY <1>w DEF reader
<1>1. /\ toWriter' \in Seq(ToWriter) /\ 1 \in DOMAIN toWriter /\ f = toWriter[1] /\ f \in ToWriter
      /\ \A i \in DOMAIN toWriter' :
            i \in Nat \ {0} /\ i + 1 \in DOMAIN toWriter /\ toWriter'[i] = toWriter[i + 1]
  BY <1>n, <1>w, TailFacts
<1>2. f.credit \in Nat /\ f.upto \in Nat
  BY <1>1 DEF ToWriter
<1> HIDE DEF f
<1>3. CASE f.k = "ask" /\ ~dropped
  <2>1. /\ IF pump = "idle" THEN Loop(credit + f.credit)
            ELSE credit' = credit + f.credit /\ UNCHANGED <<rest, seq, sent, pump, toReader>>
        /\ UNCHANGED dropped
    BY <1>3 DEF WriterGets, f
  <2>2. /\ rest' \in Nat /\ credit' \in Nat /\ sent' \in Nat /\ seq' \in Nat
        /\ toReader' \in Seq(ToReader)
        /\ pump' \in {"idle", "pull", "segment", "tail", "closing"}
        /\ PumpInCredit' /\ sent' + credit' = sent + credit + f.credit
    <3>1. CASE pump = "idle"
      <4>1. Loop(credit + f.credit) /\ credit + f.credit \in Nat
        BY <1>n, <1>2, <2>1, <3>1
      <4>2. /\ rest' \in Nat /\ credit' \in Nat /\ sent' \in Nat /\ seq' \in Nat
            /\ toReader' \in Seq(ToReader) /\ pump' \in {"idle", "pull", "segment"}
            /\ PumpInCredit' /\ sent' + credit' = sent + (credit + f.credit)
        BY <1>t, <4>1, LoopFacts, Zenon
      <4>3. sent + (credit + f.credit) = sent + credit + f.credit
        BY <1>n, <1>2
      <4>4. pump' \in {"idle", "pull", "segment", "tail", "closing"}
        BY <4>2
      <4> QED
        BY <4>2, <4>3, <4>4, Zenon
    <3>2. CASE pump # "idle"
      <4>1. credit' = credit + f.credit /\ UNCHANGED <<rest, seq, sent, pump, toReader>>
        BY <2>1, <3>2
      <4>2. PumpInCredit'
        BY <1>n, <1>2, <1>t, <4>1 DEF PumpInCredit
      <4> QED
        BY <1>n, <1>2, <1>t, <4>1, <4>2 DEF TypeOK
    <3> QED
      BY <3>1, <3>2
  <2>3. TypeOK'
    BY <1>t, <1>w, <1>1, <2>1, <2>2 DEF TypeOK, reader
  <2>4. /\ sent + credit <= f.upto - f.credit /\ f.upto <= asked
        /\ \A j \in DOMAIN toWriter : 1 < j /\ IsAsk(j) =>
              f.upto <= toWriter[j].upto - toWriter[j].credit
    BY <1>t, <1>1, <1>3 DEF Demand, IsAsk
  <2>5. sent' + credit' <= f.upto
    <3>1. sent' + credit' = sent + credit + f.credit /\ sent + credit <= f.upto - f.credit
      BY <2>2, <2>4
    <3> QED
      BY ONLY <1>n, <1>2, <3>1
  <2>6. ASSUME NEW i \in DOMAIN toWriter', IsAsk(i)'
        PROVE  /\ sent' + credit' <= toWriter'[i].upto - toWriter'[i].credit
               /\ toWriter'[i].upto <= asked'
    <3>1. i + 1 \in DOMAIN toWriter /\ 1 < i + 1 /\ IsAsk(i + 1) /\ toWriter'[i] = toWriter[i + 1]
      BY <1>1, <2>6 DEF IsAsk
    <3>2. toWriter'[i] \in ToWriter
      BY <1>1
    <3>3. toWriter'[i].upto \in Nat /\ toWriter'[i].credit \in Nat
      BY <3>2 DEF ToWriter
    <3>4. f.upto <= toWriter'[i].upto - toWriter'[i].credit /\ toWriter'[i].upto <= asked
      BY <1>t, <2>4, <3>1 DEF Demand
    <3> QED
      BY <1>2, <1>r, <2>2, <2>5, <3>3, <3>4
  <2>7. \A i, j \in DOMAIN toWriter' : i < j /\ IsAsk(i)' /\ IsAsk(j)' =>
           toWriter'[i].upto <= toWriter'[j].upto - toWriter'[j].credit
    BY <1>t, <1>1 DEF Demand, IsAsk
  <2>8. sent' + credit' <= asked' /\ asked' <= consumed' + Window
    <3>1. asked <= consumed + Window
      BY <1>t DEF Demand
    <3>2. f.upto <= asked
      BY <2>4
    <3>3. sent' \in Nat /\ credit' \in Nat
      BY <2>2
    <3>4. sent' + credit' <= asked
      BY <1>n, <1>2, <2>5, <3>2, <3>3, Within
    <3> QED
      BY <1>r, <3>1, <3>4
  <2> QED
    BY <2>2, <2>3, <2>6, <2>7, <2>8 DEF IInv, Demand
<1>4. CASE ~(f.k = "ask" /\ ~dropped)
  <2>1. UNCHANGED <<rest, credit, seq, sent, pump, toReader>> /\ dropped' \in BOOLEAN
    BY <1>4, <1>t DEF WriterGets, f, TypeOK
  <2>2. TypeOK'
    BY <1>t, <1>w, <1>1, <2>1 DEF TypeOK, reader
  <2>3. PumpInCredit'
    BY <1>t, <2>1 DEF PumpInCredit
  <2>4. \A i \in DOMAIN toWriter' : IsAsk(i)' =>
           i + 1 \in DOMAIN toWriter /\ IsAsk(i + 1) /\ toWriter'[i] = toWriter[i + 1]
    BY <1>1 DEF IsAsk
  <2>5. Demand'
    BY <1>t, <1>r, <1>1, <2>1, <2>4 DEF Demand
  <2> QED
    BY <2>2, <2>3, <2>5 DEF IInv
<1> QED
  BY <1>3, <1>4

\* Closing a store, or losing the connection, asks for nothing.
LEMMA EndsHold == IInv /\ (WriterCloses \/ ReaderCloses \/ WireDrops) => IInv'
<1> SUFFICES ASSUME IInv, WriterCloses \/ ReaderCloses \/ WireDrops PROVE IInv'
  OBVIOUS
<1>t. TypeOK /\ Demand /\ PumpInCredit
  BY DEF IInv
<1>1. CASE WriterCloses
  <2>1. Frame("done") \in ToReader
    BY DEF Frame, ToReader, Named, Piece
  <2>2. toReader' \in Seq(ToReader)
    BY <1>1, <1>t, <2>1, SentType DEF WriterCloses, TypeOK
  <2>3. TypeOK'
    BY <1>1, <1>t, <2>2 DEF TypeOK, WriterCloses, reader
  <2>4. UNCHANGED <<asked, consumed>>
    BY <1>1 DEF WriterCloses, reader
  <2>5. Demand' /\ PumpInCredit'
    BY <1>1, <1>t, <2>4 DEF Demand, IsAsk, PumpInCredit, WriterCloses
  <2> QED
    BY <2>3, <2>5 DEF IInv
<1>2. CASE ReaderCloses
  <2>1. "closed" \in Reasons
    BY DEF Reasons
  <2>2. failure' \in Reasons /\ waiting' \in BOOLEAN /\ outcome' \in {"reading", "done", "error"}
    BY <1>2, <1>t, <2>1, FailType DEF ReaderCloses, TypeOK
  <2>3. TypeOK'
    BY <1>2, <1>t, <2>2 DEF TypeOK, ReaderCloses, offer
  <2>4. UNCHANGED <<sent, credit, seq, pump>>
    BY <1>2 DEF ReaderCloses, offer
  <2>5. Demand' /\ PumpInCredit'
    BY <1>2, <1>t, <2>4 DEF Demand, IsAsk, PumpInCredit, ReaderCloses
  <2> QED
    BY <2>3, <2>5 DEF IInv
<1>3. CASE WireDrops
  <2>1. TypeOK'
    BY <1>3, <1>t DEF TypeOK, WireDrops, offer, reader
  <2>2. UNCHANGED <<sent, credit, seq, pump, asked, consumed>> /\ toWriter' = <<>>
    BY <1>3 DEF WireDrops, offer, reader
  <2>3. Demand'
    BY <1>t, <2>2, Uncounted
  <2>4. PumpInCredit'
    BY <1>t, <2>2 DEF PumpInCredit
  <2> QED
    BY <2>1, <2>3, <2>4 DEF IInv
<1> QED
  BY <1>1, <1>2, <1>3

\* Reading and cancelling: what is taken is counted before anything is asked for.
LEMMA ReadingHolds == IInv /\ (Reference \/ Read \/ Cancel) => IInv'
<1> SUFFICES ASSUME IInv, Reference \/ Read \/ Cancel PROVE IInv'
  OBVIOUS
<1>t. TypeOK /\ Demand /\ PumpInCredit
  BY DEF IInv
<1>o. UNCHANGED offer /\ UNCHANGED <<sent, credit, seq, pump>>
  BY DEF Reference, Read, Cancel, offer
<1>p. PumpInCredit'
  BY <1>t, <1>o DEF PumpInCredit
<1>1. CASE Reference
  <2>1. UNCHANGED <<toReader, down, asked, consumed, received, chunk, queue, ended, stopped, rclosed>>
    BY <1>1 DEF Reference
  <2>2. CASE Refuse("refused") /\ opened' = TRUE
    <3>1. toWriter' \in Seq(ToWriter) /\ Demand'
      BY <1>t, <1>o, <2>1, <2>2, NoteFacts DEF Refuse
    <3>2. /\ failure' \in Reasons /\ waiting' \in BOOLEAN /\ outcome' \in {"reading", "done", "error"}
          /\ incoming' = "gone" /\ opened' \in BOOLEAN
      BY <1>t, <2>2, FailType DEF Refuse, Reasons
    <3>3. TypeOK'
      BY <1>t, <1>o, <2>1, <3>1, <3>2 DEF TypeOK, offer
    <3> QED
      BY <1>p, <3>1, <3>3 DEF IInv
  <2>3. CASE UNCHANGED <<incoming, failure, waiting, toWriter>> /\ outcome' \in {outcome, "error"}
             /\ opened' \in {opened, TRUE}
    <3>1. Demand'
      BY <1>t, <1>o, <2>1, <2>3, Uncounted
    <3>2. opened' \in BOOLEAN /\ outcome' \in {"reading", "done", "error"}
      BY <1>t, <2>3 DEF TypeOK
    <3>3. TypeOK'
      BY <1>t, <1>o, <2>1, <2>3, <3>2 DEF TypeOK, offer
    <3> QED
      BY <1>p, <3>1, <3>3 DEF IInv
  <2> QED
    BY <1>1, <2>2, <2>3 DEF Reference
<1>2. CASE Read
  <2>1. UNCHANGED <<toReader, down, incoming, opened, received, chunk, ended, failure, stopped, rclosed>>
    BY <1>2 DEF Read
  <2>2. CASE queue # <<>>
    <3> DEFINE c == consumed + Head(queue).bytes
    <3>1. queue' = Tail(queue) /\ consumed' = c /\ Ask(c) /\ UNCHANGED <<waiting, outcome>>
      BY <1>2, <2>2 DEF Read
    <3>2. Head(queue) \in Piece /\ queue' \in Seq(Piece)
      BY <1>t, <2>2, <3>1, TailFacts DEF TypeOK
    <3>3. Head(queue).bytes \in Nat /\ consumed \in Nat
      BY <1>t, <3>2 DEF Piece, TypeOK
    <3>4. c \in Nat /\ consumed <= c
      BY <3>3
    <3> HIDE DEF c
    <3>5. asked' \in Nat /\ toWriter' \in Seq(ToWriter) /\ Demand'
      BY <1>t, <1>o, <3>1, <3>4, AskFacts
    <3>6. TypeOK'
      BY <1>t, <1>o, <2>1, <3>1, <3>2, <3>4, <3>5 DEF TypeOK, offer
    <3> QED
      BY <1>p, <3>5, <3>6 DEF IInv
  <2>3. CASE queue = <<>> /\ (failure # "none" \/ ended \/ stopped)
    <3>1. /\ outcome' \in {"reading", "done", "error"}
          /\ UNCHANGED <<queue, consumed, asked, waiting, toWriter>>
      BY <1>2, <2>3 DEF Read
    <3>2. Demand'
      BY <1>t, <1>o, <3>1, Uncounted
    <3>3. TypeOK'
      BY <1>t, <1>o, <2>1, <3>1 DEF TypeOK, offer
    <3> QED
      BY <1>p, <3>2, <3>3 DEF IInv
  <2>4. CASE queue = <<>> /\ ~(failure # "none" \/ ended \/ stopped)
    <3>1. waiting' \in BOOLEAN /\ Ask(consumed) /\ UNCHANGED <<queue, consumed, outcome>>
      BY <1>2, <2>4 DEF Read
    <3>2. consumed \in Nat /\ consumed <= consumed
      BY <1>t DEF TypeOK
    <3>3. asked' \in Nat /\ toWriter' \in Seq(ToWriter) /\ Demand'
      BY <1>t, <1>o, <3>1, <3>2, AskFacts
    <3>4. TypeOK'
      BY <1>t, <1>o, <2>1, <3>1, <3>3 DEF TypeOK, offer
    <3> QED
      BY <1>p, <3>3, <3>4 DEF IInv
  <2> QED
    BY <2>2, <2>3, <2>4
<1>3. CASE Cancel
  <2>1. /\ stopped' \in BOOLEAN /\ waiting' \in BOOLEAN /\ queue' \in Seq(Piece) /\ incoming' = "gone"
    <3>1. stopped' = TRUE /\ waiting' = FALSE /\ queue' = <<>> /\ incoming' = "gone"
      BY <1>3 DEF Cancel
    <3>2. queue' \in Seq(Piece)
      BY <3>1
    <3>3. stopped' \in BOOLEAN /\ waiting' \in BOOLEAN
      BY <3>1
    <3> QED
      BY <3>1, <3>2, <3>3
  <2>2. outcome' \in {"reading", "done", "error"}
    BY <1>3, <1>t DEF Cancel, TypeOK
  <2>3. /\ toWriter' = Sent(toWriter, Note("cancel"))
        /\ UNCHANGED <<toReader, down, opened, asked, consumed, received, chunk, ended, failure, rclosed>>
    BY <1>3 DEF Cancel
  <2>4. toWriter' \in Seq(ToWriter) /\ Demand'
    BY <1>t, <1>o, <2>3, NoteFacts
  <2>5. TypeOK'
    BY <1>t, <1>o, <2>1, <2>2, <2>3, <2>4 DEF TypeOK, offer
  <2> QED
    BY <1>p, <2>4, <2>5 DEF IInv
<1> QED
  BY <1>1, <1>2, <1>3

\* A frame that arrives is skipped, refused, queued, or taken and counted.
LEMMA ReaderGetsHolds == IInv /\ ReaderGets => IInv'
<1> SUFFICES ASSUME IInv, ReaderGets PROVE IInv'
  OBVIOUS
<1> DEFINE f == Head(toReader)
<1>t. TypeOK /\ Demand /\ PumpInCredit
  BY DEF IInv
<1>n. asked \in Nat /\ consumed \in Nat /\ received \in Nat
  BY <1>t DEF TypeOK
<1>w. /\ toReader # <<>> /\ toReader' = Tail(toReader)
      /\ UNCHANGED offer /\ UNCHANGED <<down, opened, stopped, rclosed>>
  BY DEF ReaderGets
<1>o. UNCHANGED <<sent, credit, seq, pump>>
  BY <1>w DEF offer
<1>p. PumpInCredit'
  BY <1>t, <1>o DEF PumpInCredit
<1>1. toReader' \in Seq(ToReader) /\ f \in ToReader
  BY <1>t, <1>w, TailFacts DEF TypeOK
<1>2. f.piece \in Piece /\ f.piece.bytes \in Nat
  BY <1>1 DEF ToReader, Piece
<1> HIDE DEF f
<1> DEFINE Typed ==
      /\ incoming \in {"none", "live", "gone"} /\ received \in Nat
      /\ chunk \in Seq(Piece) /\ Len(chunk) <= 1 /\ queue \in Seq(Piece)
      /\ waiting \in BOOLEAN /\ ended \in BOOLEAN /\ failure \in Reasons
      /\ outcome \in {"reading", "done", "error"}
<1>3. Typed
  BY <1>t DEF TypeOK
<1>4. SUFFICES /\ Typed'
               /\ asked' \in Nat /\ consumed' \in Nat
               /\ toWriter' \in Seq(ToWriter) /\ Demand'
  BY <1>t, <1>w, <1>p, <1>1 DEF IInv, TypeOK, offer
<1>5. ASSUME NEW r \in Reasons, Refuse(r), asked' = asked, consumed' = consumed
      PROVE  /\ toWriter' \in Seq(ToWriter) /\ Demand' /\ incoming' = "gone"
             /\ failure' \in Reasons /\ waiting' \in BOOLEAN
             /\ outcome' \in {"reading", "done", "error"}
  <2>1. toWriter' = Sent(toWriter, Note("fail")) /\ FailWith(r) /\ incoming' = "gone"
    BY <1>5 DEF Refuse
  <2> QED
    BY <1>t, <1>o, <1>5, <2>1, NoteFacts, FailType
<1>6. ASSUME UNCHANGED <<toWriter, asked, consumed>>
      PROVE  /\ asked' \in Nat /\ consumed' \in Nat
             /\ toWriter' \in Seq(ToWriter) /\ Demand'
  <2>1. Demand'
    BY <1>t, <1>o, <1>6, Uncounted
  <2> QED
    BY <1>t, <1>6, <2>1 DEF TypeOK
<1>7. CASE rclosed \/ f.k = "stream"
  <2>1. /\ incoming' \in {incoming, "live"}
        /\ UNCHANGED <<toWriter, asked, consumed, received, chunk, queue, waiting, ended, failure, outcome>>
    BY <1>7 DEF ReaderGets, f
  <2> QED
    BY <1>3, <1>6, <2>1
<1>8. CASE ~rclosed /\ f.k = "chunk"
  <2>1. GetsChunk(f.piece) /\ UNCHANGED <<asked, consumed, queue, ended>>
    BY <1>8 DEF ReaderGets, f
  <2>2. CASE incoming # "live"
    BY <1>3, <1>6, <2>1, <2>2 DEF GetsChunk
  <2>3. CASE incoming = "live" /\ received + f.piece.bytes > MaxBytes
    <3>1. received' = received + f.piece.bytes /\ Refuse("bound") /\ chunk' = chunk
      BY <2>1, <2>3 DEF GetsChunk
    <3>2. "bound" \in Reasons
      BY DEF Reasons
    <3>3. received' \in Nat
      BY <1>n, <1>2, <3>1
    <3> QED
      BY <1>3, <1>5, <1>n, <2>1, <3>1, <3>2, <3>3
  <2>4. CASE incoming = "live" /\ ~(received + f.piece.bytes > MaxBytes)
    <3>1. received' = received + f.piece.bytes /\ chunk' = <<f.piece>>
          /\ UNCHANGED <<incoming, failure, waiting, outcome, toWriter>>
      BY <2>1, <2>4 DEF GetsChunk
    <3>2. received' \in Nat /\ chunk' \in Seq(Piece) /\ Len(chunk') <= 1
      BY <1>n, <1>2, <3>1
    <3> QED
      BY <1>3, <1>6, <2>1, <3>1, <3>2
  <2> QED
    BY <2>2, <2>3, <2>4
<1>9. CASE ~rclosed /\ f.k = "chunkEnd"
  <2>1. GetsChunkEnd(f.piece.seq) /\ UNCHANGED <<received, ended>>
    BY <1>9 DEF ReaderGets, f
  <2>2. CASE incoming # "live"
    BY <1>3, <1>6, <2>1, <2>2 DEF GetsChunkEnd
  <2>3. CASE \E r \in {"framing", "corrupt"} :
               chunk' = <<>> /\ Refuse(r) /\ UNCHANGED <<asked, consumed, queue>>
    <3>1. PICK r \in {"framing", "corrupt"} :
             chunk' = <<>> /\ Refuse(r) /\ UNCHANGED <<asked, consumed, queue>>
      BY <2>3
    <3>2. r \in Reasons
      BY DEF Reasons
    <3>3. chunk' \in Seq(Piece) /\ Len(chunk') <= 1
      BY <3>1
    <3> QED
      BY <1>3, <1>5, <1>n, <2>1, <3>1, <3>2, <3>3
  <2>4. CASE /\ chunk # <<>> /\ chunk' = <<>> /\ Push(chunk[1])
             /\ UNCHANGED <<incoming, failure, outcome>>
    <3>1. chunk[1] \in Piece
      BY <1>3, <2>4
    <3>2. chunk[1].bytes \in Nat
      BY <3>1 DEF Piece
    <3>3. chunk' \in Seq(Piece) /\ Len(chunk') <= 1
      BY <2>4
    <3>4. CASE waiting
      <4> DEFINE c == consumed + chunk[1].bytes
      <4>1. consumed' = c /\ waiting' = FALSE /\ Ask(c) /\ queue' = queue
        BY <2>4, <3>4 DEF Push
      <4>2. c \in Nat /\ consumed <= c
        BY <1>n, <3>2
      <4> HIDE DEF c
      <4>3. asked' \in Nat /\ toWriter' \in Seq(ToWriter) /\ Demand'
        BY <1>t, <1>o, <4>1, <4>2, AskFacts
      <4>4. waiting' \in BOOLEAN
        BY <4>1
      <4> QED
        BY <1>3, <2>1, <2>4, <3>3, <4>1, <4>2, <4>3, <4>4
    <3>5. CASE ~waiting
      <4>1. queue' = Append(queue, chunk[1]) /\ UNCHANGED <<consumed, waiting, asked, toWriter>>
        BY <2>4, <3>5 DEF Push
      <4>2. queue' \in Seq(Piece)
        BY <1>3, <3>1, <4>1
      <4> QED
        BY <1>3, <1>6, <2>1, <2>4, <3>3, <4>1, <4>2
    <3> QED
      BY <3>4, <3>5
  <2> QED
    BY <2>1, <2>2, <2>3, <2>4 DEF GetsChunkEnd
<1>10. CASE ~rclosed /\ f.k = "done"
  <2>1. GetsDone /\ UNCHANGED <<toWriter, asked, consumed, received, chunk, queue, failure>>
    BY <1>10 DEF ReaderGets, f
  <2>2. CASE incoming # "live"
    BY <1>3, <1>6, <2>1, <2>2 DEF GetsDone
  <2>3. CASE incoming = "live"
    <3>1. /\ incoming' = "gone" /\ ended' = TRUE /\ waiting' = FALSE
          /\ outcome' \in {outcome, "done"}
      BY <2>1, <2>3 DEF GetsDone
    <3>2. ended' \in BOOLEAN /\ waiting' \in BOOLEAN
      BY <3>1
    <3> QED
      BY <1>3, <1>6, <2>1, <3>1, <3>2
  <2> QED
    BY <2>2, <2>3
<1>11. CASE ~rclosed /\ f.k = "fail"
  <2>1. GetsFail /\ UNCHANGED <<toWriter, asked, consumed, received, chunk, queue, ended>>
    BY <1>11 DEF ReaderGets, f
  <2>2. CASE incoming # "live"
    BY <1>3, <1>6, <2>1, <2>2 DEF GetsFail
  <2>3. CASE incoming = "live"
    <3>1. incoming' = "gone" /\ FailWith("source") /\ "source" \in Reasons
      BY <2>1, <2>3 DEF GetsFail, Reasons
    <3>2. failure' \in Reasons /\ waiting' \in BOOLEAN /\ outcome' \in {"reading", "done", "error"}
      BY <1>t, <3>1, FailType
    <3> QED
      BY <1>3, <1>6, <2>1, <3>1, <3>2
  <2> QED
    BY <2>2, <2>3
<1>12. f.k \in {"stream", "chunk", "chunkEnd", "done", "fail"}
  BY <1>1 DEF ToReader
<1> QED
  BY <1>7, <1>8, <1>9, <1>10, <1>11, <1>12

-----------------------------------------------------------------------------
(* The theorems. *)

\* The invariant holds of every stream.
THEOREM StreamInvariant == Spec => []IInv
<1>1. Init => IInv
  BY InitHolds
<1>2. IInv /\ [Next]_vars => IInv'
  <2>1. CASE Next
    BY <2>1, PumpHolds, WriterGetsHolds, EndsHold, ReadingHolds, ReaderGetsHolds DEF Next
  <2>2. ASSUME IInv, UNCHANGED vars PROVE IInv'
    BY <2>2 DEF IInv, TypeOK, Demand, IsAsk, PumpInCredit, vars
  <2> QED
    BY <2>1, <2>2
<1> QED
  BY <1>1, <1>2, PTL DEF Spec

\* Every frame, counter and state of both stores has the type the code gives it;
\* no credit is negative.
THEOREM StreamType == Spec => []TypeOK
<1>1. IInv => TypeOK
  BY DEF IInv
<1> QED
  BY <1>1, StreamInvariant, PTL

\* Whatever window, chunk size and bound the two stores are given, and however
\* asks, chunks, cancels and closes cross, the writer is never more than a
\* window ahead of the consumer.
THEOREM StreamWindow == Spec => []WindowKept
<1>1. IInv => WindowKept
  BY StreamAssumption DEF IInv, TypeOK, Demand, WindowKept
<1> QED
  BY <1>1, StreamInvariant, PTL

-----------------------------------------------------------------------------
(* Parts that lead from one point to another. *)

Parts == [moves : BOOLEAN, from : Int, to : Int]

\* A part added where the others end leads on from there.
LEMMA LinkedAppend ==
    ASSUME NEW ps \in Seq(Parts), NEW p \in Parts, NEW a \in Int, NEW b \in Int,
           Linked(ps, a, b), p.moves => p.from = b
    PROVE  Linked(Append(ps, p), a, IF p.moves THEN p.to ELSE b)
<1> DEFINE qs == Append(ps, p)
           n == Len(ps)
           M == Movers(ps)
           N == Movers(qs)
<1>1. /\ n \in Nat /\ DOMAIN ps = 1..n /\ DOMAIN qs = 1..(n + 1)
      /\ \A i \in 1..n : qs[i] = ps[i]
      /\ qs[n + 1] = p
  OBVIOUS
<1>2. /\ M \subseteq 1..n /\ \A i \in M : qs[i] = ps[i]
      /\ N = IF p.moves THEN M \cup {n + 1} ELSE M
  <2> HIDE DEF qs, n
  <2> QED
    BY <1>1 DEF Movers
<1>3. /\ \A i \in M : (\A j \in M : i <= j) => ps[i].from = a
      /\ \A i \in M : (\A j \in M : j <= i) => ps[i].to = b
      /\ \A i, j \in M :
            i < j /\ (\A k \in M : k <= i \/ j <= k) => ps[i].to = ps[j].from
      /\ M = {} => a = b
  BY DEF Linked
<1> HIDE DEF qs, n, M, N
<1>4. CASE p.moves
  <2>1. ASSUME NEW i \in N, \A j \in N : i <= j
        PROVE  qs[i].from = a
    <3>1. CASE i \in M
      BY <1>2, <1>3, <1>4, <2>1, <3>1
    <3>2. CASE i = n + 1
      <4>1. M = {}
        BY <1>1, <1>2, <1>4, <2>1, <3>2
      <4> QED
        BY <1>1, <1>3, <1>4, <3>2, <4>1
    <3> QED
      BY <1>2, <1>4, <3>1, <3>2
  <2>2. ASSUME NEW i \in N, \A j \in N : j <= i
        PROVE  qs[i].to = p.to
    <3>1. n + 1 <= i
      BY <1>2, <1>4, <2>2
    <3> QED
      BY <1>1, <1>2, <1>4, <3>1
  <2>3. \A i, j \in N : i < j /\ (\A k \in N : k <= i \/ j <= k) => qs[i].to = qs[j].from
    <3> SUFFICES ASSUME NEW i \in N, NEW j \in N, i < j, \A k \in N : k <= i \/ j <= k
                 PROVE  qs[i].to = qs[j].from
      OBVIOUS
    <3>1. i \in M
      BY <1>1, <1>2, <1>4
    <3>2. CASE j \in M
      BY <1>2, <1>3, <1>4, <3>1, <3>2
    <3>3. CASE j = n + 1
      <4>1. \A k \in M : k <= i
        BY <1>1, <1>2, <1>4, <3>3
      <4> QED
        BY <1>1, <1>2, <1>3, <1>4, <3>1, <3>3, <4>1
    <3> QED
      BY <1>2, <1>4, <3>2, <3>3
  <2>4. N # {}
    BY <1>2, <1>4
  <2>5. Linked(qs, a, p.to)
    BY <2>1, <2>2, <2>3, <2>4 DEF Linked, N
  <2> QED
    BY <1>4, <2>5 DEF qs
<1>5. CASE ~p.moves
  <2>1. N = M /\ \A i \in N : qs[i] = ps[i]
    BY <1>2, <1>5
  <2>2. Linked(qs, a, b)
    BY <1>3, <2>1 DEF Linked, N
  <2> QED
    BY <1>5, <2>2 DEF qs
<1> QED
  BY <1>4, <1>5

\* The first part taken away, the rest lead on from where it ended.
LEMMA LinkedTail ==
    ASSUME NEW ps \in Seq(Parts), ps # <<>>, NEW a \in Int, NEW b \in Int, Linked(ps, a, b)
    PROVE  /\ ps[1].moves => ps[1].from = a
           /\ Linked(Tail(ps), IF ps[1].moves THEN ps[1].to ELSE a, b)
<1> DEFINE qs == Tail(ps)
           n == Len(ps)
           c == IF ps[1].moves THEN ps[1].to ELSE a
           M == Movers(ps)
           N == Movers(qs)
<1>1. /\ n \in Nat /\ n > 0 /\ DOMAIN ps = 1..n /\ DOMAIN qs = 1..(n - 1)
      /\ \A i \in 1..(n - 1) : qs[i] = ps[i + 1]
  OBVIOUS
<1>2. /\ M \subseteq 1..n /\ N \subseteq 1..(n - 1)
      /\ ps[1].moves <=> 1 \in M
      /\ \A i \in N : i + 1 \in M /\ qs[i] = ps[i + 1]
      /\ \A i \in M : i = 1 \/ (i - 1 \in N /\ qs[i - 1] = ps[i])
  <2> HIDE DEF qs, n
  <2>1. \A i \in 2..n : i - 1 \in 1..(n - 1) /\ qs[i - 1] = ps[i]
    <3> SUFFICES ASSUME NEW i \in 2..n PROVE i - 1 \in 1..(n - 1) /\ qs[i - 1] = ps[i]
      OBVIOUS
    <3>1. i - 1 \in 1..(n - 1) /\ (i - 1) + 1 = i
      BY <1>1
    <3> QED
      BY <1>1, <3>1
  <2> QED
    BY <1>1, <2>1 DEF Movers
<1>3. /\ \A i \in M : (\A j \in M : i <= j) => ps[i].from = a
      /\ \A i \in M : (\A j \in M : j <= i) => ps[i].to = b
      /\ \A i, j \in M :
            i < j /\ (\A k \in M : k <= i \/ j <= k) => ps[i].to = ps[j].from
      /\ M = {} => a = b
  BY DEF Linked
<1> HIDE DEF qs, n, M, N
<1>4. ps[1].moves => ps[1].from = a
  BY <1>1, <1>2, <1>3
<1>5. ASSUME NEW i \in N, \A j \in N : i <= j
      PROVE  qs[i].from = c
  <2>1. \A k \in M : k = 1 \/ i + 1 <= k
    BY <1>1, <1>2, <1>5
  <2>2. i + 1 \in M /\ qs[i] = ps[i + 1] /\ 1 < i + 1
    BY <1>1, <1>2
  <2>3. CASE ps[1].moves
    BY <1>1, <1>2, <1>3, <2>1, <2>2, <2>3
  <2>4. CASE ~ps[1].moves
    BY <1>1, <1>2, <1>3, <2>1, <2>2, <2>4
  <2> QED
    BY <2>3, <2>4
<1>6. ASSUME NEW i \in N, \A j \in N : j <= i
      PROVE  qs[i].to = b
  <2>1. i + 1 \in M /\ qs[i] = ps[i + 1]
    BY <1>2
  <2>2. \A k \in M : k <= i + 1
    BY <1>1, <1>2, <1>6
  <2> QED
    BY <1>3, <2>1, <2>2
<1>7. ASSUME NEW i \in N, NEW j \in N, i < j, \A k \in N : k <= i \/ j <= k
      PROVE  qs[i].to = qs[j].from
  <2>1. i + 1 \in M /\ qs[i] = ps[i + 1] /\ j + 1 \in M /\ qs[j] = ps[j + 1] /\ i + 1 < j + 1
    BY <1>1, <1>2, <1>7
  <2>2. \A k \in M : k <= i + 1 \/ j + 1 <= k
    BY <1>1, <1>2, <1>7
  <2> QED
    BY <1>3, <2>1, <2>2
<1>8. N = {} => c = b
  <2>1. N = {} => M \subseteq {1}
    BY <1>2
  <2> QED
    BY <1>1, <1>2, <1>3, <2>1
<1>9. Linked(qs, c, b)
  BY <1>5, <1>6, <1>7, <1>8 DEF Linked, N
<1> QED
  BY <1>4, <1>9 DEF qs

\* Two rows, the second from where the first ends.
LEMMA LinkedConcat ==
    ASSUME NEW ps \in Seq(Parts), NEW qs \in Seq(Parts), NEW a \in Int, NEW b \in Int, NEW c \in Int,
           Linked(ps, a, b), Linked(qs, b, c)
    PROVE  Linked(ps \o qs, a, c)
<1> DEFINE rs == ps \o qs
           n == Len(ps)
           m == Len(qs)
           M == Movers(ps)
           N == Movers(qs)
           O == Movers(rs)
<1>1. /\ n \in Nat /\ m \in Nat /\ DOMAIN ps = 1..n /\ DOMAIN qs = 1..m /\ DOMAIN rs = 1..(n + m)
      /\ \A i \in 1..n : rs[i] = ps[i]
      /\ \A i \in 1..m : rs[n + i] = qs[i]
  OBVIOUS
<1>2. /\ M \subseteq 1..n /\ N \subseteq 1..m /\ O \subseteq 1..(n + m)
      /\ \A i \in M : i \in O /\ rs[i] = ps[i]
      /\ \A i \in N : n + i \in O /\ rs[n + i] = qs[i]
      /\ \A i \in O : \/ i \in M
                      \/ i > n /\ i - n \in N /\ rs[i] = qs[i - n]
  <2> HIDE DEF rs, n, m
  <2>1. \A i \in (n + 1)..(n + m) : i - n \in 1..m /\ rs[i] = qs[i - n]
    <3> SUFFICES ASSUME NEW i \in (n + 1)..(n + m) PROVE i - n \in 1..m /\ rs[i] = qs[i - n]
      OBVIOUS
    <3>1. i - n \in 1..m /\ n + (i - n) = i
      BY <1>1
    <3> QED
      BY <1>1, <3>1
  <2>2. \A i \in 1..m : n + i \in 1..(n + m)
    BY <1>1
  <2>3. \A i \in 1..n : i \in 1..(n + m)
    BY <1>1
  <2>4. \A i \in 1..(n + m) : i \in 1..n \/ i \in (n + 1)..(n + m)
    BY <1>1
  <2> QED
    BY <1>1, <2>1, <2>2, <2>3, <2>4 DEF Movers
<1>3. /\ \A i \in M : (\A j \in M : i <= j) => ps[i].from = a
      /\ \A i \in M : (\A j \in M : j <= i) => ps[i].to = b
      /\ \A i, j \in M :
            i < j /\ (\A k \in M : k <= i \/ j <= k) => ps[i].to = ps[j].from
      /\ M = {} => a = b
  BY DEF Linked
<1>4. /\ \A i \in N : (\A j \in N : i <= j) => qs[i].from = b
      /\ \A i \in N : (\A j \in N : j <= i) => qs[i].to = c
      /\ \A i, j \in N :
            i < j /\ (\A k \in N : k <= i \/ j <= k) => qs[i].to = qs[j].from
      /\ N = {} => b = c
  BY DEF Linked
<1> HIDE DEF rs, n, m, M, N, O
<1>5. ASSUME NEW i \in O, \A j \in O : i <= j
      PROVE  rs[i].from = a
  <2>1. CASE i \in M
    BY <1>2, <1>3, <1>5, <2>1
  <2>2. CASE i > n /\ i - n \in N /\ rs[i] = qs[i - n]
    <3>1. M = {}
      BY <1>1, <1>2, <1>5, <2>2
    <3>2. \A j \in N : i - n <= j
      BY <1>1, <1>2, <1>5, <2>2
    <3> QED
      BY <1>3, <1>4, <2>2, <3>1, <3>2
  <2> QED
    BY <1>2, <2>1, <2>2
<1>6. ASSUME NEW i \in O, \A j \in O : j <= i
      PROVE  rs[i].to = c
  <2>1. CASE i \in M
    <3>1. N = {}
      BY <1>1, <1>2, <1>6, <2>1
    <3> QED
      BY <1>2, <1>3, <1>4, <1>6, <2>1, <3>1
  <2>2. CASE i > n /\ i - n \in N /\ rs[i] = qs[i - n]
    <3>1. \A j \in N : j <= i - n
      BY <1>1, <1>2, <1>6, <2>2
    <3> QED
      BY <1>4, <2>2, <3>1
  <2> QED
    BY <1>2, <2>1, <2>2
<1>7. ASSUME NEW i \in O, NEW j \in O, i < j, \A k \in O : k <= i \/ j <= k
      PROVE  rs[i].to = rs[j].from
  <2>1. CASE j \in M
    <3>1. i \in M
      BY <1>1, <1>2, <1>7, <2>1
    <3>2. \A k \in M : k <= i \/ j <= k
      BY <1>2, <1>7
    <3>3. rs[i] = ps[i] /\ rs[j] = ps[j]
      BY <1>2, <2>1, <3>1
    <3>4. ps[i].to = ps[j].from
      BY <1>3, <1>7, <2>1, <3>1, <3>2
    <3> QED
      BY <3>3, <3>4
  <2>2. CASE j > n /\ j - n \in N /\ rs[j] = qs[j - n]
    <3>1. CASE i \in M
      <4>1. ASSUME NEW k \in M PROVE k <= i
        <5>1. k <= i \/ j <= k
          BY <1>2, <1>7
        <5> QED
          BY <1>1, <1>2, <2>2, <5>1
      <4>2. ps[i].to = b
        BY <1>3, <3>1, <4>1
      <4>3. ASSUME NEW k \in N PROVE j - n <= k
        <5>1. n + k <= i \/ j <= n + k
          BY <1>2, <1>7
        <5>2. i <= n /\ k >= 1
          BY <1>1, <1>2, <3>1
        <5> QED
          BY <1>1, <1>2, <1>7, <5>1, <5>2
      <4>4. qs[j - n].from = b
        BY <1>4, <2>2, <4>3
      <4> QED
        BY <1>2, <2>2, <3>1, <4>2, <4>4
    <3>2. CASE i > n /\ i - n \in N /\ rs[i] = qs[i - n]
      <4>1. \A k \in N : k <= i - n \/ j - n <= k
        BY <1>1, <1>2, <1>7, <2>2, <3>2
      <4>2. i - n < j - n
        BY <1>1, <1>2, <1>7
      <4> QED
        BY <1>4, <2>2, <3>2, <4>1, <4>2
    <3> QED
      BY <1>2, <3>1, <3>2
  <2> QED
    BY <1>2, <2>1, <2>2
<1>8. O = {} => a = c
  <2>1. O = {} => M = {} /\ N = {}
    BY <1>2
  <2> QED
    BY <1>3, <1>4, <2>1
<1> QED
  BY <1>5, <1>6, <1>7, <1>8 DEF Linked, O, rs

-----------------------------------------------------------------------------
(* The invariant. *)

\* Where the chunks that wait for the consumer end, and where the one in hand does.
QueueTo == IF queue = <<>> THEN consumed ELSE queue[Len(queue)].at + queue[Len(queue)].bytes
HeldTo == IF chunk = <<>> THEN QueueTo ELSE chunk[1].at + chunk[1].bytes

\* A chunk opens at -1, no chunk being open, and its tail brings that back.
Bracket(f) == [moves |-> f.k \in {"chunk", "chunkEnd"},
               from |-> IF f.k = "chunkEnd" THEN f.piece.seq ELSE -1,
               to |-> IF f.k = "chunk" THEN f.piece.seq ELSE -1]
Brackets(fs) == [i \in DOMAIN fs |-> Bracket(fs[i])]
ReaderAt == IF chunk = <<>> THEN -1 ELSE chunk[1].seq
WriterAt == IF pump = "segment" THEN seq - 1 ELSE -1

\* The frames fs lead the reader's octets from `at' to `upto' and its chunk from r to w.
Wired(fs, at, upto, r, w) == Linked(Octets(fs), at, upto) /\ Linked(Brackets(fs), r, w)

\* The source's octets are yielded, pending or sent; nothing is pending while the
\* pump waits for more.
Whole ==
    /\ total = source + rest + sent
    /\ pump = "pull" => rest = 0

\* Before the stream's frame arrives nothing has moved, and it arrives once.
Opening ==
    /\ down => toReader = <<>> /\ toWriter = <<>>
    /\ rclosed => incoming = "gone"
    /\ \A i \in DOMAIN toReader : toReader[i].k = "stream" =>
          i = 1 /\ (rclosed \/ incoming = "none")
    /\ incoming = "none" =>
          /\ asked = 0 /\ queue = <<>> /\ chunk = <<>> /\ ~opened
          /\ pump = "idle" /\ toWriter = <<>>
          /\ \A i \in DOMAIN toReader : toReader[i].k \notin {"chunk", "chunkEnd"}

\* A consumer waits only for a stream that may still give it something.
Waits ==
    waiting => /\ queue = <<>> /\ outcome = "reading" /\ opened
               /\ failure = "none" /\ ~ended /\ ~stopped

\* All that lies anywhere was sent.
Bounded ==
    /\ consumed <= sent
    /\ \A i \in DOMAIN queue : queue[i].at + queue[i].bytes <= sent
    /\ \A i \in DOMAIN chunk : chunk[i].at + chunk[i].bytes <= sent
    /\ \A i \in DOMAIN toReader : toReader[i].k = "chunk" =>
          toReader[i].piece.at + toReader[i].piece.bytes <= sent

\* The queue goes on where the consumer is; while the stream is to be had, the
\* chunk in hand goes on where the queue ends, and the wire where that one ends.
Laid ==
    /\ Linked(Held(queue), consumed, QueueTo)
    /\ incoming # "gone" /\ ~down =>
          /\ \A i \in DOMAIN chunk : chunk[i].at = QueueTo
          /\ Wired(toReader, HeldTo, sent, ReaderAt, WriterAt)

\* A writer that nobody called off says it is done after the last octet.
Cancels(fs) == \E i \in DOMAIN fs : fs[i].k = "cancel"
CalledOff == wclosed \/ stopped
Done ==
    /\ Cancels(toWriter) => stopped
    /\ dropped /\ ~CalledOff => pump = "idle"
    /\ \A i \in DOMAIN toReader : toReader[i].k = "done" /\ ~CalledOff =>
          /\ source = 0 /\ rest = 0 /\ (pump = "closing" \/ dropped)
          /\ \A j \in DOMAIN toReader : j > i => toReader[j].k \notin {"chunk", "chunkEnd"}
    /\ ended => incoming = "gone" /\ (CalledOff \/ QueueTo = total)

DInv ==
    /\ Whole /\ Opening /\ Waits /\ Bounded /\ Laid /\ Done
    /\ FramingKept /\ DoneIsWhole

-----------------------------------------------------------------------------
(* Chunks and frames as parts. *)

\* A piece, a frame's octets and its bracket are parts.
LEMMA PieceFacts ==
    ASSUME NEW p \in Piece
    PROVE  /\ p.seq \in Nat /\ p.at \in Nat /\ p.bytes \in Nat /\ p.bytes > 0
           /\ Span(p) \in Parts /\ Span(p).moves
           /\ Span(p).from = p.at /\ Span(p).to = p.at + p.bytes
  BY DEF Piece, Span, Parts

LEMMA FrameFacts ==
    ASSUME NEW f \in ToReader
    PROVE  /\ f.piece \in Piece /\ f.k \in {"stream", "chunk", "chunkEnd", "done", "fail"}
           /\ Carried(f) \in Parts /\ (Carried(f).moves <=> f.k = "chunk")
           /\ Carried(f).from = f.piece.at /\ Carried(f).to = f.piece.at + f.piece.bytes
           /\ Bracket(f) \in Parts /\ (Bracket(f).moves <=> f.k \in {"chunk", "chunkEnd"})
           /\ f.k = "chunk" => Bracket(f).from = -1 /\ Bracket(f).to = f.piece.seq
           /\ f.k = "chunkEnd" => Bracket(f).from = f.piece.seq /\ Bracket(f).to = -1
<1>1. f.piece \in Piece /\ f.k \in {"stream", "chunk", "chunkEnd", "done", "fail"}
  BY DEF ToReader
<1>2. f.piece.seq \in Int /\ f.piece.at \in Int /\ f.piece.at + f.piece.bytes \in Int
  BY <1>1 DEF Piece
<1>3. (f.k = "chunk") \in BOOLEAN /\ (f.k \in {"chunk", "chunkEnd"}) \in BOOLEAN
  OBVIOUS
<1>4. Carried(f) \in Parts
  BY <1>2, <1>3 DEF Carried, Parts
<1>5. Bracket(f) \in Parts
  BY <1>2, <1>3 DEF Bracket, Parts
<1> QED
  BY <1>1, <1>4, <1>5 DEF Carried, Bracket

\* A function on 1..n is a sequence of length n.
LEMMA SequenceOf ==
    ASSUME NEW T, NEW n \in Nat, NEW s \in [1..n -> T]
    PROVE  s \in Seq(T) /\ Len(s) = n
  OBVIOUS

\* A sequence one longer is the other with its last element appended, and one
\* shorter by its first is the tail.
LEMMA IsAppend ==
    ASSUME NEW T, NEW s \in Seq(T), NEW t \in Seq(T), NEW x \in T,
           Len(t) = Len(s) + 1, \A i \in 1..Len(s) : t[i] = s[i], t[Len(s) + 1] = x
    PROVE  t = Append(s, x)
<1>1. Append(s, x) \in Seq(T) /\ Len(Append(s, x)) = Len(s) + 1
  OBVIOUS
<1>2. \A i \in 1..(Len(s) + 1) : Append(s, x)[i] = t[i]
  OBVIOUS
<1> QED
  BY <1>1, <1>2, SeqEqual

LEMMA IsTail ==
    ASSUME NEW T, NEW s \in Seq(T), NEW t \in Seq(T), s # <<>>,
           Len(s) = Len(t) + 1, \A i \in 1..Len(t) : t[i] = s[i + 1]
    PROVE  t = Tail(s)
<1>1. Tail(s) \in Seq(T) /\ Len(Tail(s)) = Len(t)
  OBVIOUS
<1>2. \A i \in 1..Len(t) : Tail(s)[i] = t[i]
  OBVIOUS
<1> QED
  BY <1>1, <1>2, SeqEqual

\* The chunks in a queue, one more, and one less.
LEMMA HeldFacts ==
    ASSUME NEW ps \in Seq(Piece), NEW p \in Piece
    PROVE  /\ Held(ps) \in Seq(Parts) /\ Len(Held(ps)) = Len(ps)
           /\ \A i \in DOMAIN ps : Held(ps)[i] = Span(ps[i])
           /\ Held(Append(ps, p)) = Append(Held(ps), Span(p))
           /\ ps # <<>> => Held(Tail(ps)) = Tail(Held(ps))
<1>1. ASSUME NEW s \in Seq(Piece)
      PROVE  Held(s) \in Seq(Parts) /\ Len(Held(s)) = Len(s)
  <2>1. \A i \in 1..Len(s) : Span(s[i]) \in Parts
    BY PieceFacts
  <2>2. Held(s) \in [1..Len(s) -> Parts]
    BY <2>1 DEF Held
  <2> QED
    BY <2>2, SequenceOf
<1>2. \A i \in DOMAIN ps : Held(ps)[i] = Span(ps[i])
  BY DEF Held
<1>3. Held(Append(ps, p)) = Append(Held(ps), Span(p))
  <2> DEFINE t == Append(ps, p)
  <2>1. /\ t \in Seq(Piece) /\ Len(t) = Len(ps) + 1 /\ t[Len(ps) + 1] = p
        /\ \A i \in 1..Len(ps) : t[i] = ps[i]
    OBVIOUS
  <2> HIDE DEF t
  <2>2. /\ Held(t)[Len(ps) + 1] = Span(p)
        /\ \A i \in 1..Len(ps) : Held(t)[i] = Held(ps)[i]
    BY <2>1 DEF Held
  <2>3. Span(p) \in Parts
    BY PieceFacts
  <2>4. Held(t) = Append(Held(ps), Span(p))
    BY <1>1, <2>1, <2>2, <2>3, IsAppend
  <2> QED
    BY <2>4 DEF t
<1>4. ASSUME ps # <<>> PROVE Held(Tail(ps)) = Tail(Held(ps))
  <2> DEFINE t == Tail(ps)
  <2>1. /\ t \in Seq(Piece) /\ Len(ps) = Len(t) + 1
        /\ \A i \in 1..Len(t) : i + 1 \in 1..Len(ps) /\ t[i] = ps[i + 1]
    BY <1>4
  <2> HIDE DEF t
  <2>2. \A i \in 1..Len(t) : Held(t)[i] = Held(ps)[i + 1]
    BY <2>1 DEF Held
  <2>3. Held(ps) # <<>>
    BY <1>1, <2>1
  <2>4. Held(t) = Tail(Held(ps))
    BY <1>1, <2>1, <2>2, <2>3, IsTail
  <2> QED
    BY <2>4 DEF t
<1> QED
  BY <1>1, <1>2, <1>3, <1>4

\* The octets on the wire, one frame more, and one less.
LEMMA OctetsFacts ==
    ASSUME NEW fs \in Seq(ToReader), NEW f \in ToReader
    PROVE  /\ Octets(fs) \in Seq(Parts) /\ Len(Octets(fs)) = Len(fs)
           /\ \A i \in DOMAIN fs : Octets(fs)[i] = Carried(fs[i])
           /\ Octets(Append(fs, f)) = Append(Octets(fs), Carried(f))
           /\ fs # <<>> => Octets(Tail(fs)) = Tail(Octets(fs))
<1>1. ASSUME NEW s \in Seq(ToReader)
      PROVE  Octets(s) \in Seq(Parts) /\ Len(Octets(s)) = Len(s)
  <2>1. \A i \in 1..Len(s) : Carried(s[i]) \in Parts
    BY FrameFacts
  <2>2. Octets(s) \in [1..Len(s) -> Parts]
    BY <2>1 DEF Octets
  <2> QED
    BY <2>2, SequenceOf
<1>2. \A i \in DOMAIN fs : Octets(fs)[i] = Carried(fs[i])
  BY DEF Octets
<1>3. Octets(Append(fs, f)) = Append(Octets(fs), Carried(f))
  <2> DEFINE t == Append(fs, f)
  <2>1. /\ t \in Seq(ToReader) /\ Len(t) = Len(fs) + 1 /\ t[Len(fs) + 1] = f
        /\ \A i \in 1..Len(fs) : t[i] = fs[i]
    OBVIOUS
  <2> HIDE DEF t
  <2>2. /\ Octets(t)[Len(fs) + 1] = Carried(f)
        /\ \A i \in 1..Len(fs) : Octets(t)[i] = Octets(fs)[i]
    BY <2>1 DEF Octets
  <2>3. Carried(f) \in Parts
    BY FrameFacts
  <2>4. Octets(t) = Append(Octets(fs), Carried(f))
    BY <1>1, <2>1, <2>2, <2>3, IsAppend
  <2> QED
    BY <2>4 DEF t
<1>4. ASSUME fs # <<>> PROVE Octets(Tail(fs)) = Tail(Octets(fs))
  <2> DEFINE t == Tail(fs)
  <2>1. /\ t \in Seq(ToReader) /\ Len(fs) = Len(t) + 1
        /\ \A i \in 1..Len(t) : i + 1 \in 1..Len(fs) /\ t[i] = fs[i + 1]
    BY <1>4
  <2> HIDE DEF t
  <2>2. \A i \in 1..Len(t) : Octets(t)[i] = Octets(fs)[i + 1]
    BY <2>1 DEF Octets
  <2>3. Octets(fs) # <<>>
    BY <1>1, <2>1
  <2>4. Octets(t) = Tail(Octets(fs))
    BY <1>1, <2>1, <2>2, <2>3, IsTail
  <2> QED
    BY <2>4 DEF t
<1> QED
  BY <1>1, <1>2, <1>3, <1>4

\* The chunks opened and shut on the wire, likewise.
LEMMA BracketsFacts ==
    ASSUME NEW fs \in Seq(ToReader), NEW f \in ToReader
    PROVE  /\ Brackets(fs) \in Seq(Parts) /\ Len(Brackets(fs)) = Len(fs)
           /\ \A i \in DOMAIN fs : Brackets(fs)[i] = Bracket(fs[i])
           /\ Brackets(Append(fs, f)) = Append(Brackets(fs), Bracket(f))
           /\ fs # <<>> => Brackets(Tail(fs)) = Tail(Brackets(fs))
<1>1. ASSUME NEW s \in Seq(ToReader)
      PROVE  Brackets(s) \in Seq(Parts) /\ Len(Brackets(s)) = Len(s)
  <2>1. \A i \in 1..Len(s) : Bracket(s[i]) \in Parts
    BY FrameFacts
  <2>2. Brackets(s) \in [1..Len(s) -> Parts]
    BY <2>1 DEF Brackets
  <2> QED
    BY <2>2, SequenceOf
<1>2. \A i \in DOMAIN fs : Brackets(fs)[i] = Bracket(fs[i])
  BY DEF Brackets
<1>3. Brackets(Append(fs, f)) = Append(Brackets(fs), Bracket(f))
  <2> DEFINE t == Append(fs, f)
  <2>1. /\ t \in Seq(ToReader) /\ Len(t) = Len(fs) + 1 /\ t[Len(fs) + 1] = f
        /\ \A i \in 1..Len(fs) : t[i] = fs[i]
    OBVIOUS
  <2> HIDE DEF t
  <2>2. /\ Brackets(t)[Len(fs) + 1] = Bracket(f)
        /\ \A i \in 1..Len(fs) : Brackets(t)[i] = Brackets(fs)[i]
    BY <2>1 DEF Brackets
  <2>3. Bracket(f) \in Parts
    BY FrameFacts
  <2>4. Brackets(t) = Append(Brackets(fs), Bracket(f))
    BY <1>1, <2>1, <2>2, <2>3, IsAppend
  <2> QED
    BY <2>4 DEF t
<1>4. ASSUME fs # <<>> PROVE Brackets(Tail(fs)) = Tail(Brackets(fs))
  <2> DEFINE t == Tail(fs)
  <2>1. /\ t \in Seq(ToReader) /\ Len(fs) = Len(t) + 1
        /\ \A i \in 1..Len(t) : i + 1 \in 1..Len(fs) /\ t[i] = fs[i + 1]
    BY <1>4
  <2> HIDE DEF t
  <2>2. \A i \in 1..Len(t) : Brackets(t)[i] = Brackets(fs)[i + 1]
    BY <2>1 DEF Brackets
  <2>3. Brackets(fs) # <<>>
    BY <1>1, <2>1
  <2>4. Brackets(t) = Tail(Brackets(fs))
    BY <1>1, <2>1, <2>2, <2>3, IsTail
  <2> QED
    BY <2>4 DEF t
<1> QED
  BY <1>1, <1>2, <1>3, <1>4

-----------------------------------------------------------------------------
(* The wire to the reader. *)

\* A frame is sent that goes on where the wire ends.
LEMMA WiredSend ==
    ASSUME NEW fs \in Seq(ToReader), NEW f \in ToReader,
           NEW at \in Int, NEW upto \in Int, NEW r \in Int, NEW w \in Int,
           Wired(fs, at, upto, r, w),
           f.k = "chunk" => f.piece.at = upto /\ w = -1,
           f.k = "chunkEnd" => f.piece.seq = w
    PROVE  Wired(Append(fs, f),
                 at, IF f.k = "chunk" THEN upto + f.piece.bytes ELSE upto,
                 r, IF f.k = "chunk" THEN f.piece.seq ELSE IF f.k = "chunkEnd" THEN -1 ELSE w)
<1>1. Linked(Octets(fs), at, upto) /\ Linked(Brackets(fs), r, w)
  BY DEF Wired
<1>2. /\ Octets(fs) \in Seq(Parts) /\ Octets(Append(fs, f)) = Append(Octets(fs), Carried(f))
      /\ Brackets(fs) \in Seq(Parts) /\ Brackets(Append(fs, f)) = Append(Brackets(fs), Bracket(f))
  BY OctetsFacts, BracketsFacts
<1>3. Linked(Octets(Append(fs, f)), at, IF Carried(f).moves THEN Carried(f).to ELSE upto)
  BY <1>1, <1>2, LinkedAppend, FrameFacts
<1>4. Linked(Brackets(Append(fs, f)), r, IF Bracket(f).moves THEN Bracket(f).to ELSE w)
  BY <1>1, <1>2, LinkedAppend, FrameFacts
<1>5. (IF Carried(f).moves THEN Carried(f).to ELSE upto)
        = (IF f.k = "chunk" THEN upto + f.piece.bytes ELSE upto)
  BY FrameFacts
<1>6. (IF Bracket(f).moves THEN Bracket(f).to ELSE w)
        = (IF f.k = "chunk" THEN f.piece.seq ELSE IF f.k = "chunkEnd" THEN -1 ELSE w)
  BY FrameFacts
<1> QED
  BY <1>3, <1>4, <1>5, <1>6 DEF Wired

\* The first frame is taken: it is what the reader is at.
LEMMA WiredTake ==
    ASSUME NEW fs \in Seq(ToReader), fs # <<>>, NEW f, f = Head(fs),
           NEW at \in Int, NEW upto \in Int, NEW r \in Int, NEW w \in Int,
           Wired(fs, at, upto, r, w)
    PROVE  /\ f.k = "chunk" => f.piece.at = at /\ r = -1
           /\ f.k = "chunkEnd" => f.piece.seq = r
           /\ Wired(Tail(fs),
                    IF f.k = "chunk" THEN at + f.piece.bytes ELSE at, upto,
                    IF f.k = "chunk" THEN f.piece.seq ELSE IF f.k = "chunkEnd" THEN -1 ELSE r, w)
<1>1. Linked(Octets(fs), at, upto) /\ Linked(Brackets(fs), r, w)
  BY DEF Wired
<1>2. f \in ToReader /\ 1 \in DOMAIN fs /\ f = fs[1]
  BY TailFacts
<1>3. /\ Octets(fs) \in Seq(Parts) /\ Len(Octets(fs)) = Len(fs)
      /\ Octets(fs)[1] = Carried(f) /\ Octets(Tail(fs)) = Tail(Octets(fs))
      /\ Brackets(fs) \in Seq(Parts) /\ Len(Brackets(fs)) = Len(fs)
      /\ Brackets(fs)[1] = Bracket(f) /\ Brackets(Tail(fs)) = Tail(Brackets(fs))
  BY <1>2, OctetsFacts, BracketsFacts
<1>4. Octets(fs) # <<>> /\ Brackets(fs) # <<>>
  BY <1>2, <1>3
<1>5. /\ Carried(f).moves => Carried(f).from = at
      /\ Linked(Octets(Tail(fs)), IF Carried(f).moves THEN Carried(f).to ELSE at, upto)
  BY <1>1, <1>3, <1>4, LinkedTail
<1>6. /\ Bracket(f).moves => Bracket(f).from = r
      /\ Linked(Brackets(Tail(fs)), IF Bracket(f).moves THEN Bracket(f).to ELSE r, w)
  BY <1>1, <1>3, <1>4, LinkedTail
<1>7. /\ f.k = "chunk" => f.piece.at = at /\ r = -1
      /\ f.k = "chunkEnd" => f.piece.seq = r
  BY <1>2, <1>5, <1>6, FrameFacts
<1>8. (IF Carried(f).moves THEN Carried(f).to ELSE at)
        = (IF f.k = "chunk" THEN at + f.piece.bytes ELSE at)
  BY <1>2, <1>7, FrameFacts
<1>9. (IF Bracket(f).moves THEN Bracket(f).to ELSE r)
        = (IF f.k = "chunk" THEN f.piece.seq ELSE IF f.k = "chunkEnd" THEN -1 ELSE r)
  BY <1>2, FrameFacts
<1> QED
  BY <1>5, <1>6, <1>7, <1>8, <1>9 DEF Wired

\* A wire with no chunk on it ends where it begins.
LEMMA WiredNone ==
    ASSUME NEW fs \in Seq(ToReader), NEW at, NEW upto, NEW r, NEW w, Wired(fs, at, upto, r, w),
           \A i \in DOMAIN fs : fs[i].k \notin {"chunk", "chunkEnd"}
    PROVE  at = upto /\ r = w
<1>1. \A i \in DOMAIN fs : fs[i] \in ToReader
  OBVIOUS
<1>2. DOMAIN Octets(fs) = DOMAIN fs /\ \A i \in DOMAIN fs : ~Octets(fs)[i].moves
  BY <1>1, FrameFacts DEF Octets
<1>3. DOMAIN Brackets(fs) = DOMAIN fs /\ \A i \in DOMAIN fs : ~Brackets(fs)[i].moves
  BY <1>1, FrameFacts DEF Brackets
<1>4. Movers(Octets(fs)) = {} /\ Movers(Brackets(fs)) = {}
  BY <1>2, <1>3 DEF Movers
<1> QED
  BY <1>4 DEF Wired, Linked

\* Nothing leads nowhere.
LEMMA LinkedEmpty ==
    ASSUME NEW a PROVE Linked(Held(<<>>), a, a)
<1>1. Movers(Held(<<>>)) = {}
  BY DEF Movers, Held
<1> QED
  BY <1>1 DEF Linked

\* Where reader and writer are is a number.
LEMMA Positions ==
    ASSUME TypeOK
    PROVE  QueueTo \in Nat /\ HeldTo \in Nat /\ ReaderAt \in Int /\ WriterAt \in Int
<1>1. consumed \in Nat /\ queue \in Seq(Piece) /\ chunk \in Seq(Piece) /\ seq \in Nat
  BY DEF TypeOK
<1>2. queue # <<>> => queue[Len(queue)] \in Piece
  BY <1>1
<1>3. chunk # <<>> => chunk[1] \in Piece
  BY <1>1
<1>4. QueueTo \in Nat
  BY <1>1, <1>2, PieceFacts DEF QueueTo
<1>5. HeldTo \in Nat /\ ReaderAt \in Int
  BY <1>3, <1>4, PieceFacts DEF HeldTo, ReaderAt
<1> QED
  BY <1>1, <1>4, <1>5 DEF WriterAt

\* A frame that does not cancel adds no cancel.
LEMMA SentCancels ==
    ASSUME TypeOK, NEW f \in ToWriter, f.k # "cancel", Cancels(Sent(toWriter, f))
    PROVE  Cancels(toWriter)
<1>1. toWriter \in Seq(ToWriter)
  BY DEF TypeOK
<1>2. PICK i \in DOMAIN Sent(toWriter, f) : Sent(toWriter, f)[i].k = "cancel"
  BY DEF Cancels
<1>3. i \in DOMAIN toWriter /\ Sent(toWriter, f)[i] = toWriter[i]
  BY <1>1, <1>2, SentIndex
<1> QED
  BY <1>2, <1>3 DEF Cancels

-----------------------------------------------------------------------------
(* The writer. *)

\* A sum is no less than what it adds to.
LEMMA Grows ==
    ASSUME NEW a \in Nat, NEW b \in Nat
    PROVE  a <= a + b /\ a + b \in Nat
  OBVIOUS

\* The reader does not move, and a frame goes on where the wire ends.
LEMMA SendData ==
    ASSUME TypeOK, DInv, UNCHANGED reader, down' = down, NEW f \in ToReader,
           toReader' = Sent(toReader, f), f.k # "stream", WriterAt' \in Int,
           f.k \in {"chunk", "chunkEnd"} => incoming # "none",
           f.k = "chunk" => f.piece.at = sent /\ WriterAt = -1 /\ WriterAt' = f.piece.seq,
           f.k = "chunkEnd" => f.piece.seq = WriterAt /\ WriterAt' = -1,
           f.k \notin {"chunk", "chunkEnd"} => WriterAt' = WriterAt,
           sent' = IF f.k = "chunk" THEN sent + f.piece.bytes ELSE sent
    PROVE  /\ Waits' /\ Bounded' /\ Laid' /\ FramingKept'
           /\ down' => toReader' = <<>>
           /\ rclosed' => incoming' = "gone"
           /\ \A i \in DOMAIN toReader' : toReader'[i].k = "stream" =>
                 i = 1 /\ (rclosed' \/ incoming' = "none")
           /\ incoming' = "none" =>
                 \A i \in DOMAIN toReader' : toReader'[i].k \notin {"chunk", "chunkEnd"}
<1>t. /\ toReader \in Seq(ToReader) /\ sent \in Nat /\ queue \in Seq(Piece) /\ chunk \in Seq(Piece)
      /\ consumed \in Nat
  BY DEF TypeOK
<1>f. f.piece \in Piece /\ f.piece.at \in Nat /\ f.piece.bytes \in Nat
  BY FrameFacts, PieceFacts
<1>d. Opening /\ Waits /\ Bounded /\ Laid /\ FramingKept
  BY DEF DInv
<1>r. UNCHANGED <<incoming, opened, asked, consumed, received, chunk, queue, waiting,
                  ended, failure, stopped, rclosed, outcome>>
  BY DEF reader
<1>p. QueueTo \in Nat /\ HeldTo \in Nat /\ ReaderAt \in Int /\ WriterAt \in Int
  BY Positions
<1>q. QueueTo' = QueueTo /\ HeldTo' = HeldTo /\ ReaderAt' = ReaderAt
  BY <1>r DEF QueueTo, HeldTo, ReaderAt
<1>i. \A i \in DOMAIN toReader' : \/ i \in DOMAIN toReader /\ toReader'[i] = toReader[i]
                                  \/ toReader'[i] = f
  BY <1>t, SentIndex
<1>1. Waits' /\ FramingKept'
  BY <1>d, <1>r DEF Waits, FramingKept
<1>2. sent <= sent' /\ (f.k = "chunk" => f.piece.at + f.piece.bytes <= sent') /\ sent' \in Nat
  <2>1. CASE f.k = "chunk"
    <3>1. sent' = sent + f.piece.bytes /\ f.piece.at = sent
      BY <2>1
    <3>2. sent <= sent + f.piece.bytes /\ sent + f.piece.bytes \in Nat
      BY <1>t, <1>f, Grows
    <3>3. sent + f.piece.bytes <= sent + f.piece.bytes
      BY <3>2
    <3> QED
      BY <3>1, <3>2, <3>3
  <2>2. CASE f.k # "chunk"
    <3>1. sent' = sent
      BY <2>2
    <3> QED
      BY <1>t, <2>2, <3>1
  <2> QED
    BY <2>1, <2>2
<1>3. Bounded'
  <2>1. consumed' <= sent'
    BY <1>t, <1>d, <1>r, <1>2 DEF Bounded
  <2>2. \A i \in DOMAIN queue' : queue'[i].at + queue'[i].bytes <= sent'
    <3> SUFFICES ASSUME NEW i \in DOMAIN queue PROVE queue[i].at + queue[i].bytes <= sent'
      BY <1>r
    <3>1. queue[i].at \in Nat /\ queue[i].bytes \in Nat
      BY <1>t, PieceFacts
    <3>2. queue[i].at + queue[i].bytes <= sent
      BY <1>d DEF Bounded
    <3> QED
      BY <1>t, <1>2, <3>1, <3>2, Within
  <2>3. \A i \in DOMAIN chunk' : chunk'[i].at + chunk'[i].bytes <= sent'
    <3> SUFFICES ASSUME NEW i \in DOMAIN chunk PROVE chunk[i].at + chunk[i].bytes <= sent'
      BY <1>r
    <3>1. chunk[i].at \in Nat /\ chunk[i].bytes \in Nat
      BY <1>t, PieceFacts
    <3>2. chunk[i].at + chunk[i].bytes <= sent
      BY <1>d DEF Bounded
    <3> QED
      BY <1>t, <1>2, <3>1, <3>2, Within
  <2>4. \A i \in DOMAIN toReader' : toReader'[i].k = "chunk" =>
           toReader'[i].piece.at + toReader'[i].piece.bytes <= sent'
    <3>1. \A i \in DOMAIN toReader :
             toReader[i].piece.at \in Nat /\ toReader[i].piece.bytes \in Nat
      BY <1>t, FrameFacts, PieceFacts
    <3> SUFFICES ASSUME NEW i \in DOMAIN toReader', toReader'[i].k = "chunk"
                 PROVE  toReader'[i].piece.at + toReader'[i].piece.bytes <= sent'
      OBVIOUS
    <3>2. CASE i \in DOMAIN toReader /\ toReader'[i] = toReader[i]
      <4>1. toReader[i].piece.at + toReader[i].piece.bytes <= sent
        BY <1>d, <3>2 DEF Bounded
      <4>2. toReader[i].piece.at \in Nat /\ toReader[i].piece.bytes \in Nat
        BY <3>1, <3>2
      <4>3. toReader[i].piece.at + toReader[i].piece.bytes <= sent'
        BY <1>t, <1>2, <4>1, <4>2, Within
      <4> QED
        BY <3>2, <4>3
    <3>3. CASE toReader'[i] = f
      BY <1>2, <3>3
    <3> QED
      BY <1>i, <3>2, <3>3
  <2> QED
    BY <2>1, <2>2, <2>3, <2>4 DEF Bounded
<1>4. Laid'
  <2>1. Linked(Held(queue'), consumed', QueueTo')
    BY <1>d, <1>r, <1>q DEF Laid
  <2>2. ASSUME incoming' # "gone", ~down'
        PROVE  /\ \A i \in DOMAIN chunk' : chunk'[i].at = QueueTo'
               /\ Wired(toReader', HeldTo', sent', ReaderAt', WriterAt')
    <3>1. /\ \A i \in DOMAIN chunk : chunk[i].at = QueueTo
          /\ Wired(toReader, HeldTo, sent, ReaderAt, WriterAt)
      BY <1>d, <1>r, <2>2 DEF Laid
    <3>2. toReader' = Append(toReader, f)
      BY <2>2 DEF Sent
    <3>3. Wired(Append(toReader, f),
                HeldTo, IF f.k = "chunk" THEN sent + f.piece.bytes ELSE sent,
                ReaderAt, IF f.k = "chunk" THEN f.piece.seq ELSE IF f.k = "chunkEnd" THEN -1 ELSE WriterAt)
      BY <1>t, <1>p, <3>1, WiredSend
    <3>4. WriterAt' = IF f.k = "chunk" THEN f.piece.seq ELSE IF f.k = "chunkEnd" THEN -1 ELSE WriterAt
      OBVIOUS
    <3> QED
      BY <1>r, <1>q, <3>1, <3>2, <3>3, <3>4
  <2> QED
    BY <2>1, <2>2 DEF Laid
<1>5. /\ down' => toReader' = <<>>
      /\ rclosed' => incoming' = "gone"
  BY <1>d, <1>r DEF Opening, Sent
<1>6. \A i \in DOMAIN toReader' : toReader'[i].k = "stream" =>
         i = 1 /\ (rclosed' \/ incoming' = "none")
  BY <1>d, <1>r, <1>i DEF Opening
<1>7. incoming' = "none" =>
         \A i \in DOMAIN toReader' : toReader'[i].k \notin {"chunk", "chunkEnd"}
  BY <1>d, <1>r, <1>i DEF Opening
<1> QED
  BY <1>1, <1>3, <1>4, <1>5, <1>6, <1>7

\* A chunk is cut by a writer that has not said the last word.
LEMMA CutData ==
    ASSUME IInv, DInv, UNCHANGED reader, UNCHANGED <<total, dropped, wclosed, down>>,
           down' => toWriter' = <<>>, Cancels(toWriter') => stopped',
           NEW c \in Nat \ {0}, NEW piece \in Nat \ {0}, Cut(c, piece),
           source' \in Nat, total = source' + piece + sent,
           pump \notin {"segment", "closing"}, incoming # "none", ~CalledOff => ~dropped
    PROVE  DInv'
<1> DEFINE size == Least(piece, Least(Chunk, c))
<1>d. Opening /\ Done /\ DoneIsWhole
  BY DEF DInv
<1>t. TypeOK /\ PumpInCredit /\ toReader \in Seq(ToReader) /\ seq \in Nat /\ sent \in Nat /\ total \in Nat
  BY DEF IInv, TypeOK
<1>r. UNCHANGED <<incoming, opened, asked, consumed, received, chunk, queue, waiting,
                  ended, failure, stopped, rclosed, outcome>>
  BY DEF reader
<1>1. size \in Nat \ {0} /\ size <= piece
  BY StreamAssumption DEF Least
<1>2. PICK ok \in {TRUE, ~Corrupts} :
         toReader' = Sent(toReader, [k |-> "chunk", piece |->
                         [seq |-> seq, at |-> sent, bytes |-> size, ok |-> ok]])
  BY DEF Cut
<1> DEFINE f == [k |-> "chunk", piece |-> [seq |-> seq, at |-> sent, bytes |-> size, ok |-> ok]]
<1>3. rest' = piece - size /\ seq' = seq + 1 /\ sent' = sent + size /\ pump' = "segment"
  BY DEF Cut
<1> HIDE DEF size
<1>4. ok \in BOOLEAN
  BY StreamAssumption
<1>5. /\ f \in ToReader /\ f.k = "chunk" /\ f.piece.at = sent /\ f.piece.bytes = size
      /\ f.piece.seq = seq
  <2>1. f.piece \in Piece
    BY <1>1, <1>4, <1>t DEF Piece
  <2> QED
    BY <2>1 DEF ToReader
<1>6. toReader' = Sent(toReader, f)
  BY <1>2
<1>7. WriterAt = -1 /\ WriterAt' = seq
  BY <1>3, <1>t DEF WriterAt
<1> HIDE DEF f
<1>8. /\ Waits' /\ Bounded' /\ Laid' /\ FramingKept'
      /\ down' => toReader' = <<>>
      /\ rclosed' => incoming' = "gone"
      /\ \A i \in DOMAIN toReader' : toReader'[i].k = "stream" =>
            i = 1 /\ (rclosed' \/ incoming' = "none")
      /\ incoming' = "none" =>
            \A i \in DOMAIN toReader' : toReader'[i].k \notin {"chunk", "chunkEnd"}
  BY <1>t, <1>3, <1>5, <1>6, <1>7, SendData
<1>9. Opening'
  BY <1>r, <1>8 DEF Opening
<1>10. Whole'
  BY <1>1, <1>3, <1>t DEF Whole
<1>11. Done'
  <2>1. \A i \in DOMAIN toReader' : toReader'[i].k = "done" =>
           i \in DOMAIN toReader /\ toReader[i].k = "done"
    BY <1>t, <1>5, <1>6, SentIndex
  <2>2. CalledOff' = CalledOff
    BY <1>r DEF CalledOff
  <2>3. \A i \in DOMAIN toReader' : ~(toReader'[i].k = "done" /\ ~CalledOff')
    BY <1>d, <2>1, <2>2 DEF Done
  <2>4. QueueTo' = QueueTo
    BY <1>r DEF QueueTo
  <2> QED
    BY <1>d, <1>r, <2>2, <2>3, <2>4 DEF Done
<1>12. DoneIsWhole'
  BY <1>d, <1>r DEF DoneIsWhole
<1> QED
  BY <1>8, <1>9, <1>10, <1>11, <1>12 DEF DInv

\* The writer neither sends nor moves its octets.
LEMMA QuietData ==
    ASSUME IInv, DInv, UNCHANGED reader, UNCHANGED <<total, source, rest, sent, toReader, down>>,
           down' => toWriter' = <<>>, Cancels(toWriter') => stopped',
           down \/ WriterAt' = WriterAt,
           pump' = "pull" => rest = 0,
           incoming = "none" => pump' = "idle" /\ toWriter' = <<>>,
           wclosed => wclosed', dropped' /\ ~CalledOff' => pump' = "idle",
           pump = "closing" \/ dropped => pump' = "closing" \/ dropped'
    PROVE  DInv'
<1>d. Whole /\ Opening /\ Waits /\ Bounded /\ Laid /\ Done /\ FramingKept /\ DoneIsWhole
  BY DEF DInv
<1>r. UNCHANGED <<incoming, opened, asked, consumed, received, chunk, queue, waiting,
                  ended, failure, stopped, rclosed, outcome>>
  BY DEF reader
<1>q. QueueTo' = QueueTo /\ HeldTo' = HeldTo /\ ReaderAt' = ReaderAt
  BY <1>r DEF QueueTo, HeldTo, ReaderAt
<1>1. Whole'
  BY <1>d DEF Whole
<1>2. Opening'
  BY <1>d, <1>r DEF Opening
<1>3. Waits' /\ FramingKept'
  BY <1>d, <1>r DEF Waits, FramingKept
<1>4. Bounded'
  BY <1>d, <1>r DEF Bounded
<1>5. Laid'
  BY <1>d, <1>r, <1>q DEF Laid, Wired
<1>6. CalledOff => CalledOff'
  BY <1>r DEF CalledOff
<1>7. Done'
  BY <1>d, <1>r, <1>q, <1>6 DEF Done
<1>8. DoneIsWhole'
  BY <1>d, <1>r, <1>6 DEF DoneIsWhole, CalledOff
<1> QED
  BY <1>1, <1>2, <1>3, <1>4, <1>5, <1>7, <1>8 DEF DInv

\* The loop's test.
LEMMA LoopData ==
    ASSUME IInv, DInv, UNCHANGED reader, UNCHANGED <<total, source, dropped, wclosed, down>>,
           down' => toWriter' = <<>>, Cancels(toWriter') => stopped',
           NEW c \in Nat, Loop(c), pump \notin {"segment", "closing"}, incoming # "none"
    PROVE  DInv'
<1>t. TypeOK /\ rest \in Nat /\ total = source + rest + sent
  BY DEF IInv, TypeOK, DInv, Whole
<1>1. CASE dropped \/ c = 0 \/ rest = 0
  <2>1. /\ pump' = IF dropped \/ c = 0 THEN "idle" ELSE "pull"
        /\ UNCHANGED <<rest, seq, sent, toReader>>
    BY <1>1 DEF Loop
  <2>2. pump' # "segment" /\ (pump' = "pull" => rest = 0) /\ (dropped' => pump' = "idle")
    BY <1>1, <2>1
  <2>3. WriterAt' = WriterAt
    BY <2>2 DEF WriterAt
  <2> QED
    BY <2>1, <2>2, <2>3, QuietData
<1>2. CASE ~(dropped \/ c = 0 \/ rest = 0)
  <2>1. Cut(c, rest) /\ c \in Nat \ {0} /\ rest \in Nat \ {0}
    BY <1>2, <1>t DEF Loop
  <2>2. source' \in Nat /\ total = source' + rest + sent
    BY <1>t DEF TypeOK
  <2> QED
    BY <1>2, <2>1, <2>2, CutData
<1> QED
  BY <1>1, <1>2

\* The pump.
LEMMA PumpData == IInv /\ DInv /\ PumpStep => DInv'
<1> SUFFICES ASSUME IInv, DInv, PumpStep PROVE DInv'
  OBVIOUS
<1>t. TypeOK /\ PumpInCredit /\ total \in Nat /\ source \in Nat /\ sent \in Nat /\ credit \in Nat
      /\ toReader \in Seq(ToReader) /\ seq \in Nat
  BY DEF IInv, TypeOK
<1>d. Whole /\ Opening /\ Done /\ DoneIsWhole
  BY DEF DInv
<1>r. UNCHANGED reader => UNCHANGED <<incoming, opened, asked, consumed, received, chunk, queue,
                                      waiting, ended, failure, stopped, rclosed, outcome>>
  BY DEF reader
<1>o. /\ down => toWriter = <<>>
      /\ Cancels(toWriter) => stopped
      /\ pump # "idle" => incoming # "none"
  BY <1>d DEF Opening, Done
<1>1. CASE PullYields
  <2>1. PICK n \in 1..source : source' = source - n /\ Cut(credit, n)
    BY <1>1 DEF PullYields
  <2>2. /\ pump = "pull" /\ UNCHANGED reader
        /\ UNCHANGED <<total, dropped, wclosed, toWriter, down>>
    BY <1>1 DEF PullYields
  <2>3. n \in Nat \ {0} /\ credit \in Nat \ {0} /\ rest = 0
    BY <1>t, <1>d, <2>2 DEF PumpInCredit, Whole
  <2>4. source' \in Nat /\ total = source' + n + sent
    BY <1>t, <1>d, <2>1, <2>3 DEF Whole
  <2>5. ~CalledOff => ~dropped
    BY <1>d, <2>2 DEF Done
  <2> QED
    BY <1>o, <1>r, <2>1, <2>2, <2>3, <2>4, <2>5, CutData
<1>2. CASE PullYieldsNothing \/ TailSent
  <2>1. /\ pump \in {"pull", "tail"} /\ UNCHANGED reader /\ Loop(credit)
        /\ UNCHANGED <<total, source, dropped, wclosed, toWriter, down>>
    BY <1>2 DEF PullYieldsNothing, TailSent
  <2> QED
    BY <1>t, <1>o, <1>r, <2>1, LoopData
<1>3. CASE PullEnds
  <2>1. /\ pump = "pull" /\ pump' = "closing" /\ UNCHANGED reader
        /\ UNCHANGED <<total, source, rest, credit, seq, sent, dropped, wclosed, toWriter, down>>
    BY <1>3 DEF PullEnds
  <2>2. PICK k \in {"done", "fail"} :
           toReader' = Sent(toReader, Frame(k)) /\ (k = "done" => source = 0 \/ dropped)
    BY <1>3 DEF PullEnds
  <2> DEFINE f == Frame(k)
  <2>3. f \in ToReader /\ f.k = k
    BY DEF Frame, ToReader, Named, Piece
  <2>4. toReader' = Sent(toReader, f)
    BY <2>2
  <2> HIDE DEF f
  <2>5. WriterAt = -1 /\ WriterAt' = -1
    BY <2>1 DEF WriterAt
  <2>6. /\ Waits' /\ Bounded' /\ Laid' /\ FramingKept'
        /\ down' => toReader' = <<>>
        /\ rclosed' => incoming' = "gone"
        /\ \A i \in DOMAIN toReader' : toReader'[i].k = "stream" =>
              i = 1 /\ (rclosed' \/ incoming' = "none")
    BY <1>t, <2>1, <2>2, <2>3, <2>4, <2>5, SendData
  <2>7. Whole'
    BY <1>d, <2>1 DEF Whole
  <2>8. Opening'
    BY <1>d, <1>o, <1>r, <2>1, <2>6 DEF Opening
  <2>9. DoneIsWhole'
    BY <1>d, <1>r, <2>1 DEF DoneIsWhole
  <2>10. QueueTo' = QueueTo /\ CalledOff' = CalledOff /\ ended' = ended
        /\ stopped' = stopped /\ incoming' = incoming
    BY <1>r, <2>1 DEF QueueTo, CalledOff
  <2>11. ~CalledOff => ~dropped /\ rest = 0
    BY <1>d, <2>1 DEF Done, Whole
  <2>12. ASSUME NEW i \in DOMAIN toReader', toReader'[i].k = "done", ~CalledOff
         PROVE  k = "done" /\ \A j \in DOMAIN toReader' : j <= i
    <3>1. ~(i \in DOMAIN toReader /\ toReader'[i] = toReader[i])
      BY <1>d, <2>1, <2>11, <2>12 DEF Done
    <3> QED
      BY <1>t, <2>3, <2>4, <2>12, <3>1, SentIndex
  <2>13. DOMAIN toReader' \subseteq Nat
    <3>1. toReader' \in Seq(ToReader)
      BY <1>t, <2>3, <2>4, SentType
    <3> QED
      BY <3>1
  <2>14. Done'
    BY <1>d, <2>1, <2>2, <2>10, <2>11, <2>12, <2>13 DEF Done
  <2> QED
    BY <2>6, <2>7, <2>8, <2>9, <2>14 DEF DInv
<1>4. CASE SegmentSent
  <2> DEFINE f == [k |-> "chunkEnd", piece |-> Named(seq - 1)]
  <2>1. /\ pump = "segment" /\ pump' = "tail" /\ UNCHANGED reader
        /\ UNCHANGED <<total, source, rest, credit, seq, sent, dropped, wclosed, toWriter, down>>
        /\ toReader' = Sent(toReader, f)
    BY <1>4 DEF SegmentSent
  <2>2. f \in ToReader /\ f.k = "chunkEnd" /\ f.piece.seq = seq - 1
    <3>1. seq - 1 \in Nat
      BY <1>t, <2>1 DEF PumpInCredit
    <3> QED
      BY <3>1 DEF ToReader, Named, Piece
  <2> HIDE DEF f
  <2>3. WriterAt = seq - 1 /\ WriterAt' = -1
    BY <2>1 DEF WriterAt
  <2>4. /\ Waits' /\ Bounded' /\ Laid' /\ FramingKept'
        /\ down' => toReader' = <<>>
        /\ rclosed' => incoming' = "gone"
        /\ \A i \in DOMAIN toReader' : toReader'[i].k = "stream" =>
              i = 1 /\ (rclosed' \/ incoming' = "none")
    BY <1>t, <1>o, <2>1, <2>2, <2>3, SendData
  <2>5. Whole' /\ Opening' /\ DoneIsWhole'
    BY <1>d, <1>o, <1>r, <2>1, <2>4 DEF Whole, Opening, DoneIsWhole
  <2>6. QueueTo' = QueueTo /\ CalledOff' = CalledOff /\ ended' = ended
        /\ stopped' = stopped /\ incoming' = incoming
    BY <1>r, <2>1 DEF QueueTo, CalledOff
  <2>7. ~CalledOff => ~dropped /\ \A i \in DOMAIN toReader : toReader[i].k # "done"
    BY <1>d, <2>1 DEF Done
  <2>8. \A i \in DOMAIN toReader' : toReader'[i].k = "done" =>
           i \in DOMAIN toReader /\ toReader[i].k = "done"
    BY <1>t, <2>1, <2>2, SentIndex
  <2>9. Done'
    BY <1>d, <2>1, <2>6, <2>7, <2>8 DEF Done
  <2> QED
    BY <2>4, <2>5, <2>9 DEF DInv
<1>5. CASE PumpDrops
  <2>1. /\ pump = "closing" \/ (down /\ pump \in {"segment", "tail"})
        /\ dropped' /\ pump' = "idle" /\ UNCHANGED reader
        /\ UNCHANGED <<total, source, rest, credit, seq, sent, wclosed, toReader, toWriter, down>>
    BY <1>5 DEF PumpDrops
  <2>2. down \/ WriterAt' = WriterAt
    BY <2>1 DEF WriterAt
  <2> QED
    BY <1>o, <1>r, <2>1, <2>2, QuietData
<1> QED
  BY <1>1, <1>2, <1>3, <1>4, <1>5 DEF PumpStep

\* A frame that reaches the writer.
LEMMA WriterGetsData == IInv /\ DInv /\ WriterGets => DInv'
<1> SUFFICES ASSUME IInv, DInv, WriterGets PROVE DInv'
  OBVIOUS
<1> DEFINE f == Head(toWriter)
<1>t. TypeOK /\ toWriter \in Seq(ToWriter) /\ credit \in Nat
  BY DEF IInv, TypeOK
<1>d. Whole /\ Opening /\ Done
  BY DEF DInv
<1>w. /\ toWriter # <<>> /\ toWriter' = Tail(toWriter)
      /\ UNCHANGED <<total, source, wclosed, down>> /\ UNCHANGED reader
  BY DEF WriterGets
<1>1. /\ 1 \in DOMAIN toWriter /\ f = toWriter[1] /\ f \in ToWriter
      /\ \A i \in DOMAIN toWriter' :
            i \in Nat \ {0} /\ i + 1 \in DOMAIN toWriter /\ toWriter'[i] = toWriter[i + 1]
  BY <1>t, <1>w, TailFacts
<1>2. f.credit \in Nat /\ f.k \in {"ask", "fail", "cancel"}
  BY <1>1 DEF ToWriter
<1>3. stopped' = stopped /\ incoming' = incoming
  BY <1>w DEF reader
<1>4. Cancels(toWriter') => stopped'
  BY <1>d, <1>1, <1>3 DEF Done, Cancels
<1>5. f.k = "cancel" => stopped
  BY <1>d, <1>1 DEF Done, Cancels
<1>6. incoming # "none" /\ ~down
  BY <1>d, <1>w DEF Opening
<1> HIDE DEF f
<1>7. CASE f.k = "ask" /\ ~dropped /\ pump = "idle"
  <2>1. Loop(credit + f.credit) /\ UNCHANGED dropped
    BY <1>7 DEF WriterGets, f
  <2>2. credit + f.credit \in Nat
    BY <1>t, <1>2
  <2> QED
    BY <1>4, <1>6, <1>7, <1>w, <2>1, <2>2, LoopData
<1>8. CASE ~(f.k = "ask" /\ ~dropped /\ pump = "idle")
  <2>1. UNCHANGED <<rest, seq, sent, pump, toReader>>
    BY <1>8 DEF WriterGets, f
  <2>2. /\ dropped => dropped'
        /\ dropped' => dropped \/ f.k = "cancel"
    BY <1>8 DEF WriterGets, f
  <2>3. WriterAt' = WriterAt
    BY <2>1 DEF WriterAt
  <2>4. dropped' /\ ~CalledOff' => pump' = "idle"
    BY <1>d, <1>3, <1>5, <1>w, <2>1, <2>2 DEF Done, CalledOff
  <2>5. pump = "pull" => rest = 0
    BY <1>d DEF Whole
  <2> QED
    BY <1>4, <1>6, <1>w, <2>1, <2>2, <2>3, <2>4, <2>5, QuietData
<1> QED
  BY <1>7, <1>8

\* close() of the writer's store calls the stream off.
LEMMA WriterClosesData == IInv /\ DInv /\ WriterCloses => DInv'
<1> SUFFICES ASSUME IInv, DInv, WriterCloses PROVE DInv'
  OBVIOUS
<1>t. TypeOK /\ toReader \in Seq(ToReader) /\ sent \in Nat
  BY DEF IInv, TypeOK
<1>d. Whole /\ Opening /\ Waits /\ Bounded /\ Laid /\ Done /\ FramingKept /\ DoneIsWhole
  BY DEF DInv
<1>w. /\ wclosed' /\ dropped' /\ UNCHANGED reader
      /\ UNCHANGED <<total, source, rest, credit, seq, sent, pump, toWriter, down>>
      /\ toReader' = IF dropped THEN toReader ELSE Sent(toReader, Frame("done"))
  BY DEF WriterCloses
<1>r. UNCHANGED <<incoming, opened, asked, consumed, received, chunk, queue, waiting,
                  ended, failure, stopped, rclosed, outcome>>
  BY <1>w DEF reader
<1>1. CalledOff' /\ WriterAt' = WriterAt /\ WriterAt \in Int
  BY <1>t, <1>w, Positions DEF CalledOff, WriterAt
<1>2. /\ down => toWriter = <<>>
      /\ Cancels(toWriter) => stopped
      /\ incoming = "none" => pump = "idle" /\ toWriter = <<>>
      /\ pump = "pull" => rest = 0
  BY <1>d DEF Opening, Done, Whole
<1>3. CASE dropped
  <2>1. toReader' = toReader
    BY <1>3, <1>w
  <2> QED
    BY <1>w, <1>r, <1>1, <1>2, <2>1, QuietData
<1>4. CASE ~dropped
  <2> DEFINE f == Frame("done")
  <2>1. f \in ToReader /\ f.k = "done"
    BY DEF Frame, ToReader, Named, Piece
  <2>2. toReader' = Sent(toReader, f)
    BY <1>4, <1>w
  <2> HIDE DEF f
  <2>3. /\ Waits' /\ Bounded' /\ Laid' /\ FramingKept'
        /\ down' => toReader' = <<>>
        /\ rclosed' => incoming' = "gone"
        /\ \A i \in DOMAIN toReader' : toReader'[i].k = "stream" =>
              i = 1 /\ (rclosed' \/ incoming' = "none")
        /\ incoming' = "none" =>
              \A i \in DOMAIN toReader' : toReader'[i].k \notin {"chunk", "chunkEnd"}
    BY <1>t, <1>w, <1>1, <2>1, <2>2, SendData
  <2>4. Whole' /\ Opening'
    BY <1>d, <1>w, <1>r, <2>3 DEF Whole, Opening
  <2>5. DoneIsWhole' /\ Done'
    BY <1>d, <1>w, <1>r, <1>1, <1>2 DEF DoneIsWhole, Done
  <2> QED
    BY <2>3, <2>4, <2>5 DEF DInv
<1> QED
  BY <1>3, <1>4

-----------------------------------------------------------------------------
(* The reader. *)

\* An ask cancels nothing, and is not sent before the stream is here.
LEMMA AskSends ==
    ASSUME TypeOK, NEW c \in Nat, Ask(c)
    PROVE  /\ Cancels(toWriter') => Cancels(toWriter)
           /\ down => toWriter' = toWriter
           /\ incoming = "none" => asked' = asked /\ toWriter' = toWriter
<1>0. Window \in Nat \ {0} /\ asked \in Nat
  BY StreamAssumption DEF TypeOK
<1>1. CASE incoming = "live" /\ ~rclosed /\ 2 * (asked - c) < Window
  <2> DEFINE f == [k |-> "ask", credit |-> c + Window - asked, upto |-> c + Window]
  <2>1. toWriter' = Sent(toWriter, f)
    BY <1>1 DEF Ask
  <2>2. c + Window - asked \in Nat /\ c + Window \in Nat
    BY <1>0, <1>1
  <2>3. f \in ToWriter /\ f.k # "cancel"
    BY <2>2 DEF ToWriter
  <2> HIDE DEF f
  <2>4. Cancels(toWriter') => Cancels(toWriter)
    BY <2>1, <2>3, SentCancels
  <2> QED
    BY <1>1, <2>1, <2>4 DEF Sent
<1>2. CASE ~(incoming = "live" /\ ~rclosed /\ 2 * (asked - c) < Window)
  BY <1>2 DEF Ask
<1> QED
  BY <1>1, <1>2

\* Giving the stream up cancels nothing.
LEMMA RefuseSends ==
    ASSUME TypeOK, NEW r, Refuse(r)
    PROVE  /\ Cancels(toWriter') => Cancels(toWriter)
           /\ down => toWriter' = toWriter
           /\ incoming' = "gone"
<1>1. toWriter' = Sent(toWriter, Note("fail")) /\ incoming' = "gone"
  BY DEF Refuse
<1>2. Note("fail") \in ToWriter /\ Note("fail").k # "cancel"
  BY DEF Note, ToWriter
<1> QED
  BY <1>1, <1>2, SentCancels DEF Sent

\* A consumer that is told of a failure waits no more.
LEMMA FailData ==
    ASSUME TypeOK, Waits, DoneIsWhole, FramingKept, NEW r, r # "framing", FailWith(r),
           UNCHANGED <<queue, opened, ended, stopped, wclosed, consumed, total>>
    PROVE  Waits' /\ DoneIsWhole' /\ FramingKept'
  BY DEF TypeOK, FailWith, Waits, DoneIsWhole, FramingKept

\* The reader is through with the stream: nothing more comes of what is under way.
LEMMA GoneData ==
    ASSUME IInv, DInv, incoming' = "gone", down => toReader' = toReader /\ toWriter' = toWriter,
           UNCHANGED <<total, source, rest, sent, pump, dropped, wclosed, down, consumed,
                       queue, stopped>>,
           Cancels(toWriter') => Cancels(toWriter),
           toReader' = toReader \/ (toReader # <<>> /\ toReader' = Tail(toReader)),
           chunk' = chunk \/ chunk' = <<>>, ended' => ended \/ QueueTo = total \/ CalledOff,
           rclosed => rclosed', rclosed' \/ incoming # "none",
           Waits', DoneIsWhole', FramingKept'
    PROVE  DInv'
<1>t. TypeOK /\ toReader \in Seq(ToReader)
  BY DEF IInv, TypeOK
<1>d. Whole /\ Opening /\ Waits /\ Bounded /\ Laid /\ Done
  BY DEF DInv
<1>1. \/ toReader' = toReader
      \/ \A i \in DOMAIN toReader' :
            i \in Nat \ {0} /\ i + 1 \in DOMAIN toReader /\ toReader'[i] = toReader[i + 1]
  BY <1>t, TailFacts
<1>2. Whole'
  BY <1>d DEF Whole
<1>3. Opening'
  <2>1. \A i \in DOMAIN toReader' : toReader'[i].k = "stream" => i = 1 /\ rclosed'
    <3>1. CASE toReader' = toReader
      BY <1>d, <3>1 DEF Opening
    <3>2. CASE \A i \in DOMAIN toReader' :
                  i \in Nat \ {0} /\ i + 1 \in DOMAIN toReader /\ toReader'[i] = toReader[i + 1]
      BY <1>d, <3>2 DEF Opening
    <3> QED
      BY <1>1, <3>1, <3>2
  <2> QED
    BY <1>d, <2>1 DEF Opening
<1>4. Bounded'
  BY <1>d, <1>1 DEF Bounded
<1>5. QueueTo' = QueueTo
  BY DEF QueueTo
<1>6. Laid'
  BY <1>d, <1>5 DEF Laid
<1>7. Done'
  <2>1. CalledOff' = CalledOff
    BY DEF CalledOff
  <2>2. ASSUME NEW i \in DOMAIN toReader', toReader'[i].k = "done", ~CalledOff
        PROVE  /\ source = 0 /\ rest = 0 /\ (pump = "closing" \/ dropped)
               /\ \A j \in DOMAIN toReader' : j > i => toReader'[j].k \notin {"chunk", "chunkEnd"}
    <3>1. CASE toReader' = toReader
      BY <1>d, <2>2, <3>1 DEF Done
    <3>2. CASE \A j \in DOMAIN toReader' :
                  j \in Nat \ {0} /\ j + 1 \in DOMAIN toReader /\ toReader'[j] = toReader[j + 1]
      <4>1. /\ source = 0 /\ rest = 0 /\ (pump = "closing" \/ dropped)
            /\ \A j \in DOMAIN toReader : j > i + 1 => toReader[j].k \notin {"chunk", "chunkEnd"}
        BY <1>d, <2>2, <3>2 DEF Done
      <4>2. \A j \in DOMAIN toReader' : j > i => j + 1 > i + 1
        BY <2>2, <3>2
      <4> QED
        BY <3>2, <4>1, <4>2
    <3> QED
      BY <1>1, <3>1, <3>2
  <2> QED
    BY <1>d, <1>5, <2>1, <2>2 DEF Done
<1> QED
  BY <1>2, <1>3, <1>4, <1>6, <1>7 DEF DInv

\* close() of the reader's store, and a reference to a stream.
LEMMA ReaderEndsData == IInv /\ DInv /\ (ReaderCloses \/ Reference) => DInv'
<1> SUFFICES ASSUME IInv, DInv, ReaderCloses \/ Reference PROVE DInv'
  OBVIOUS
<1>t. TypeOK
  BY DEF IInv
<1>d. Whole /\ Opening /\ Waits /\ Bounded /\ Laid /\ Done /\ FramingKept /\ DoneIsWhole
  BY DEF DInv
<1>1. CASE ReaderCloses
  <2>1. /\ rclosed' /\ incoming' = "gone"
        /\ IF incoming = "live" THEN FailWith("closed") ELSE UNCHANGED <<failure, waiting, outcome>>
        /\ UNCHANGED offer
        /\ UNCHANGED <<toReader, toWriter, down, opened, asked, consumed, received,
                       chunk, queue, ended, stopped>>
    BY <1>1 DEF ReaderCloses
  <2>2. UNCHANGED <<total, source, rest, sent, pump, dropped, wclosed>>
    BY <2>1 DEF offer
  <2>3. Waits' /\ DoneIsWhole' /\ FramingKept'
    <3>1. CASE FailWith("closed")
      BY <1>t, <1>d, <2>1, <2>2, <3>1, FailData
    <3>2. CASE UNCHANGED <<failure, waiting, outcome>>
      BY <1>d, <2>1, <2>2, <3>2 DEF Waits, DoneIsWhole, FramingKept
    <3> QED
      BY <2>1, <3>1, <3>2
  <2> QED
    BY <2>1, <2>2, <2>3, GoneData
<1>2. CASE Reference
  <2>1. /\ ~opened /\ UNCHANGED offer
        /\ UNCHANGED <<toReader, down, asked, consumed, received, chunk, queue, ended, stopped, rclosed>>
    BY <1>2 DEF Reference
  <2>2. UNCHANGED <<total, source, rest, credit, seq, sent, pump, dropped, wclosed>>
    BY <2>1 DEF offer
  <2>3. ~waiting
    BY <1>d, <2>1 DEF Waits
  <2>4. CASE incoming = "live" /\ Refuse("refused")
    <3>1. FailWith("refused")
      BY <2>4 DEF Refuse
    <3>2. Waits' /\ DoneIsWhole' /\ FramingKept'
      BY <1>d, <2>1, <2>2, <2>3, <3>1 DEF FailWith, Waits, DoneIsWhole, FramingKept
    <3> QED
      BY <1>t, <2>1, <2>2, <2>4, <3>2, RefuseSends, GoneData
  <2>5. CASE /\ incoming # "none" /\ UNCHANGED <<incoming, failure, waiting, toWriter>>
             /\ outcome' = outcome \/ outcome' = "error"
    <3>1. QueueTo' = QueueTo /\ HeldTo' = HeldTo /\ ReaderAt' = ReaderAt /\ WriterAt' = WriterAt
      BY <2>1, <2>2 DEF QueueTo, HeldTo, ReaderAt, WriterAt
    <3>2. Whole' /\ Opening' /\ Bounded'
      BY <1>d, <2>1, <2>2, <2>5 DEF Whole, Opening, Bounded
    <3>3. Laid' /\ Done'
      BY <1>d, <2>1, <2>2, <2>5, <3>1 DEF Laid, Wired, Done, CalledOff
    <3>4. Waits' /\ DoneIsWhole' /\ FramingKept'
      BY <1>d, <2>1, <2>2, <2>3, <2>5 DEF Waits, DoneIsWhole, FramingKept
    <3> QED
      BY <3>2, <3>3, <3>4 DEF DInv
  <2> QED
    BY <1>2, <2>4, <2>5 DEF Reference
<1> QED
  BY <1>1, <1>2

\* What the invariant says of the wire it says of the rest of it.
LEMMA TailData ==
    ASSUME IInv, DInv, toReader # <<>>, toReader' = Tail(toReader)
    PROVE  /\ \A i \in DOMAIN toReader' : toReader'[i].k # "stream"
           /\ incoming = "none" =>
                 \A i \in DOMAIN toReader' : toReader'[i].k \notin {"chunk", "chunkEnd"}
           /\ \A i \in DOMAIN toReader' : toReader'[i].k = "chunk" =>
                 toReader'[i].piece.at + toReader'[i].piece.bytes <= sent
           /\ \A i \in DOMAIN toReader' : toReader'[i].k = "done" /\ ~CalledOff =>
                 /\ source = 0 /\ rest = 0 /\ (pump = "closing" \/ dropped)
                 /\ \A j \in DOMAIN toReader' : j > i => toReader'[j].k \notin {"chunk", "chunkEnd"}
<1>t. toReader \in Seq(ToReader)
  BY DEF IInv, TypeOK
<1>d. Opening /\ Bounded /\ Done
  BY DEF DInv
<1>1. \A i \in DOMAIN toReader' :
         i \in Nat \ {0} /\ i + 1 \in DOMAIN toReader /\ toReader'[i] = toReader[i + 1]
  BY <1>t, TailFacts
<1>2. \A i \in DOMAIN toReader' : toReader'[i].k # "stream"
  BY <1>d, <1>1 DEF Opening
<1>3. incoming = "none" =>
         \A i \in DOMAIN toReader' : toReader'[i].k \notin {"chunk", "chunkEnd"}
  BY <1>d, <1>1 DEF Opening
<1>4. \A i \in DOMAIN toReader' : toReader'[i].k = "chunk" =>
         toReader'[i].piece.at + toReader'[i].piece.bytes <= sent
  BY <1>d, <1>1 DEF Bounded
<1>5. ASSUME NEW i \in DOMAIN toReader', toReader'[i].k = "done", ~CalledOff
      PROVE  /\ source = 0 /\ rest = 0 /\ (pump = "closing" \/ dropped)
             /\ \A j \in DOMAIN toReader' : j > i => toReader'[j].k \notin {"chunk", "chunkEnd"}
  <2>1. /\ source = 0 /\ rest = 0 /\ (pump = "closing" \/ dropped)
        /\ \A j \in DOMAIN toReader : j > i + 1 => toReader[j].k \notin {"chunk", "chunkEnd"}
    BY <1>d, <1>1, <1>5 DEF Done
  <2>2. \A j \in DOMAIN toReader' : j > i => j + 1 > i + 1
    BY <1>1, <1>5
  <2> QED
    BY <1>1, <2>1, <2>2
<1> QED
  BY <1>2, <1>3, <1>4, <1>5

\* A frame that is no chunk's, before the stream is here: the stream's own, or
\* one of no consequence.
LEMMA SkipData ==
    ASSUME IInv, DInv, toReader # <<>>, toReader' = Tail(toReader),
           Head(toReader).k \notin {"chunk", "chunkEnd"},
           incoming = "none", incoming' \in {"none", "live"}, ~rclosed, UNCHANGED offer,
           UNCHANGED <<down, opened, stopped, rclosed, toWriter, asked, consumed, received,
                       chunk, queue, waiting, ended, failure, outcome>>
    PROVE  DInv'
<1> DEFINE f == Head(toReader)
<1>t. TypeOK /\ toReader \in Seq(ToReader) /\ sent \in Nat
  BY DEF IInv, TypeOK
<1>d. Whole /\ Opening /\ Waits /\ Bounded /\ Laid /\ Done /\ FramingKept /\ DoneIsWhole
  BY DEF DInv
<1>o. UNCHANGED <<total, source, rest, credit, seq, sent, pump, dropped, wclosed>>
  BY DEF offer
<1>q. QueueTo' = QueueTo /\ HeldTo' = HeldTo /\ ReaderAt' = ReaderAt /\ WriterAt' = WriterAt
  BY <1>o DEF QueueTo, HeldTo, ReaderAt, WriterAt
<1>n. ~down
  BY <1>d DEF Opening
<1>1. /\ \A i \in DOMAIN chunk : chunk[i].at = QueueTo
      /\ Wired(toReader, HeldTo, sent, ReaderAt, WriterAt)
  BY <1>d, <1>n DEF Laid
<1>2. f.k \notin {"chunk", "chunkEnd"} /\ f = Head(toReader)
  OBVIOUS
<1> HIDE DEF f
<1>3. Wired(Tail(toReader), HeldTo, sent, ReaderAt, WriterAt)
  <2>1. HeldTo \in Int /\ sent \in Int /\ ReaderAt \in Int /\ WriterAt \in Int
    BY <1>t, Positions
  <2>2. Wired(Tail(toReader),
              IF f.k = "chunk" THEN HeldTo + f.piece.bytes ELSE HeldTo, sent,
              IF f.k = "chunk" THEN f.piece.seq ELSE IF f.k = "chunkEnd" THEN -1 ELSE ReaderAt, WriterAt)
    BY <1>t, <1>1, <1>2, <2>1, WiredTake
  <2> QED
    BY <1>2, <2>2
<1>4. Laid'
  BY <1>d, <1>o, <1>q, <1>1, <1>3 DEF Laid
<1>5. Whole' /\ Waits' /\ FramingKept' /\ DoneIsWhole'
  BY <1>d, <1>o DEF Whole, Waits, FramingKept, DoneIsWhole
<1>6. Bounded' /\ Opening'
  BY <1>d, <1>o, <1>n, TailData DEF Bounded, Opening
<1>7. CalledOff' = CalledOff
  BY <1>o DEF CalledOff
<1>8. Done'
  BY <1>d, <1>o, <1>q, <1>7, TailData DEF Done
<1> QED
  BY <1>4, <1>5, <1>6, <1>8 DEF DInv

\* A chunk's head and octets, of a stream that is here.
LEMMA ChunkData ==
    ASSUME IInv, DInv, toReader # <<>>, toReader' = Tail(toReader), NEW f, f = Head(toReader),
           f.k = "chunk", incoming = "live", chunk' = <<f.piece>>, UNCHANGED offer,
           UNCHANGED <<incoming, down, opened, stopped, rclosed, toWriter, asked, consumed,
                       queue, waiting, ended, failure, outcome>>
    PROVE  DInv'
<1>t. TypeOK /\ toReader \in Seq(ToReader) /\ sent \in Nat /\ chunk \in Seq(Piece) /\ Len(chunk) <= 1
  BY DEF IInv, TypeOK
<1>d. Whole /\ Opening /\ Waits /\ Bounded /\ Laid /\ Done /\ FramingKept /\ DoneIsWhole
  BY DEF DInv
<1>o. UNCHANGED <<total, source, rest, credit, seq, sent, pump, dropped, wclosed>>
  BY DEF offer
<1>f. f \in ToReader /\ f = toReader[1] /\ 1 \in DOMAIN toReader /\ f.piece \in Piece
  BY <1>t, TailFacts, FrameFacts
<1>n. ~down
  BY <1>d DEF Opening
<1>p. QueueTo \in Int /\ HeldTo \in Int /\ sent \in Int /\ ReaderAt \in Int /\ WriterAt \in Int
  BY <1>t, Positions
<1>1. Wired(toReader, HeldTo, sent, ReaderAt, WriterAt)
  BY <1>d, <1>n DEF Laid
<1>2. /\ f.piece.at = HeldTo /\ ReaderAt = -1
      /\ Wired(Tail(toReader), HeldTo + f.piece.bytes, sent, f.piece.seq, WriterAt)
  BY <1>t, <1>p, <1>1, WiredTake
<1>3. chunk = <<>>
  <2>1. chunk # <<>> => chunk[1] \in Piece
    BY <1>t
  <2> QED
    BY <1>2, <2>1, PieceFacts DEF ReaderAt
<1>4. chunk' # <<>> /\ chunk'[1] = f.piece /\ DOMAIN chunk' = {1}
  OBVIOUS
<1>5. QueueTo' = QueueTo /\ HeldTo = QueueTo /\ HeldTo' = f.piece.at + f.piece.bytes
      /\ ReaderAt' = f.piece.seq /\ WriterAt' = WriterAt
  BY <1>o, <1>3, <1>4 DEF QueueTo, HeldTo, ReaderAt, WriterAt
<1>6. Laid'
  BY <1>d, <1>o, <1>2, <1>4, <1>5 DEF Laid
<1>7. f.piece.at + f.piece.bytes <= sent
  BY <1>d, <1>f DEF Bounded
<1>8. Bounded'
  BY <1>d, <1>o, <1>4, <1>7, TailData DEF Bounded
<1>9. Whole' /\ Waits' /\ FramingKept' /\ DoneIsWhole'
  BY <1>d, <1>o DEF Whole, Waits, FramingKept, DoneIsWhole
<1>10. Opening'
  BY <1>d, <1>o, <1>n, TailData DEF Opening
<1>11. CalledOff' = CalledOff
  BY <1>o DEF CalledOff
<1>12. Done'
  BY <1>d, <1>o, <1>5, <1>11, TailData DEF Done
<1> QED
  BY <1>6, <1>8, <1>9, <1>10, <1>12 DEF DInv

\* Its tail: the chunk in hand is the one it names, and is pushed.
LEMMA ChunkEndData ==
    ASSUME IInv, DInv, toReader # <<>>, toReader' = Tail(toReader), NEW f, f = Head(toReader),
           f.k = "chunkEnd", incoming = "live", chunk # <<>>, Push(chunk[1]), chunk' = <<>>,
           UNCHANGED offer,
           UNCHANGED <<incoming, down, opened, stopped, rclosed, ended, failure, outcome>>
    PROVE  DInv'
<1> DEFINE p == chunk[1]
<1>t. /\ TypeOK /\ toReader \in Seq(ToReader) /\ sent \in Nat /\ consumed \in Nat
      /\ chunk \in Seq(Piece) /\ queue \in Seq(Piece)
  BY DEF IInv, TypeOK
<1>d. Whole /\ Opening /\ Waits /\ Bounded /\ Laid /\ Done /\ FramingKept /\ DoneIsWhole
  BY DEF DInv
<1>o. UNCHANGED <<total, source, rest, credit, seq, sent, pump, dropped, wclosed>>
  BY DEF offer
<1>n. ~down
  BY <1>d DEF Opening
<1>a. p \in Piece /\ 1 \in DOMAIN chunk
  BY <1>t
<1>b. p.at \in Nat /\ p.bytes \in Nat
  BY <1>a, PieceFacts
<1>p. QueueTo \in Nat /\ HeldTo \in Int /\ sent \in Int /\ ReaderAt \in Int /\ WriterAt \in Int
  BY <1>t, Positions
<1>1. p.at = QueueTo /\ Wired(toReader, HeldTo, sent, ReaderAt, WriterAt) /\ p.at + p.bytes <= sent
  BY <1>d, <1>a, <1>n DEF Laid, Bounded
<1>2. Wired(Tail(toReader), HeldTo, sent, -1, WriterAt)
  BY <1>t, <1>p, <1>1, WiredTake
<1>3. HeldTo = p.at + p.bytes
  BY DEF HeldTo
<1>c. Push(p)
  OBVIOUS
<1> HIDE DEF p
<1>4. /\ QueueTo' = p.at + p.bytes /\ Linked(Held(queue'), consumed', QueueTo')
      /\ consumed' <= sent
      /\ \A i \in DOMAIN queue' : queue'[i].at + queue'[i].bytes <= sent
      /\ waiting' = FALSE
      /\ Cancels(toWriter') => Cancels(toWriter)
      /\ down => toWriter' = toWriter
      /\ outcome = "done" => consumed' = consumed
  <2>1. CASE waiting
    <3>1. /\ consumed' = consumed + p.bytes /\ waiting' = FALSE /\ Ask(consumed + p.bytes)
          /\ queue' = queue
      BY <1>c, <2>1 DEF Push
    <3>2. queue = <<>> /\ outcome = "reading"
      BY <1>d, <2>1 DEF Waits
    <3>3. p.at = consumed
      BY <1>1, <3>2 DEF QueueTo
    <3>4. QueueTo' = consumed' /\ consumed' = p.at + p.bytes
      BY <3>1, <3>2, <3>3 DEF QueueTo
    <3>5. Linked(Held(queue'), consumed', consumed')
      BY <3>1, <3>2, LinkedEmpty
    <3>6. consumed + p.bytes \in Nat
      BY <1>t, <1>b
    <3>7. /\ Cancels(toWriter') => Cancels(toWriter)
          /\ down => toWriter' = toWriter
      BY <1>t, <3>1, <3>6, AskSends
    <3>8. DOMAIN queue' = {}
      BY <3>1, <3>2
    <3> QED
      BY <1>1, <3>1, <3>2, <3>4, <3>5, <3>7, <3>8
  <2>2. CASE ~waiting
    <3>1. queue' = Append(queue, p) /\ UNCHANGED <<consumed, waiting, asked, toWriter>>
      BY <1>c, <2>2 DEF Push
    <3>2. Linked(Held(queue), consumed, QueueTo)
      BY <1>d DEF Laid
    <3>3. /\ Held(queue) \in Seq(Parts) /\ Held(queue') = Append(Held(queue), Span(p))
          /\ Span(p) \in Parts /\ Span(p).moves
          /\ Span(p).from = p.at /\ Span(p).to = p.at + p.bytes
      BY <1>t, <1>a, <3>1, HeldFacts, PieceFacts
    <3>4. Linked(Held(queue'), consumed, p.at + p.bytes)
      <4>1. consumed \in Int /\ QueueTo \in Int
        BY <1>t, <1>p
      <4>2. Linked(Append(Held(queue), Span(p)), consumed, IF Span(p).moves THEN Span(p).to ELSE QueueTo)
        BY <1>1, <3>2, <3>3, <4>1, LinkedAppend
      <4> QED
        BY <3>3, <4>2
    <3>5. queue' # <<>> /\ queue'[Len(queue')] = p
      BY <1>t, <1>a, <3>1
    <3>6. QueueTo' = p.at + p.bytes
      BY <3>5 DEF QueueTo
    <3>7. \A i \in DOMAIN queue' : (i \in DOMAIN queue /\ queue'[i] = queue[i]) \/ queue'[i] = p
      BY <1>t, <1>a, <3>1
    <3>8. consumed' <= sent /\ \A i \in DOMAIN queue' : queue'[i].at + queue'[i].bytes <= sent
      BY <1>d, <1>1, <3>1, <3>7 DEF Bounded
    <3>9. waiting' = FALSE
      BY <1>t, <2>2, <3>1 DEF TypeOK
    <3> QED
      BY <3>1, <3>4, <3>6, <3>8, <3>9
  <2> QED
    BY <2>1, <2>2
<1>5. HeldTo' = QueueTo' /\ ReaderAt' = -1 /\ WriterAt' = WriterAt /\ DOMAIN chunk' = {}
  BY <1>o DEF HeldTo, ReaderAt, WriterAt
<1>6. Laid'
  BY <1>o, <1>2, <1>3, <1>4, <1>5 DEF Laid
<1>7. Bounded'
  BY <1>o, <1>4, <1>5, TailData DEF Bounded
<1>8. Whole' /\ Waits' /\ FramingKept' /\ DoneIsWhole'
  BY <1>d, <1>o, <1>4 DEF Whole, Waits, FramingKept, DoneIsWhole
<1>9. Opening'
  BY <1>d, <1>o, <1>n, TailData DEF Opening
<1>10. CalledOff' = CalledOff
  BY <1>o DEF CalledOff
<1>11. ~ended
  BY <1>d DEF Done
<1>12. Done'
  BY <1>d, <1>o, <1>4, <1>10, <1>11, TailData DEF Done
<1> QED
  BY <1>6, <1>7, <1>8, <1>9, <1>12 DEF DInv

\* A frame that reaches the reader.
LEMMA ReaderGetsData == IInv /\ DInv /\ ReaderGets => DInv'
<1> SUFFICES ASSUME IInv, DInv, ReaderGets PROVE DInv'
  OBVIOUS
<1> DEFINE f == Head(toReader)
<1>t. /\ TypeOK /\ toReader \in Seq(ToReader) /\ chunk \in Seq(Piece) /\ Len(chunk) <= 1
      /\ incoming \in {"none", "live", "gone"} /\ sent \in Nat
  BY DEF IInv, TypeOK
<1>d. Whole /\ Opening /\ Waits /\ Laid /\ Done /\ FramingKept /\ DoneIsWhole
  BY DEF DInv
<1>w. /\ toReader # <<>> /\ toReader' = Tail(toReader) /\ f = Head(toReader)
      /\ UNCHANGED offer /\ UNCHANGED <<down, opened, stopped, rclosed>>
  BY DEF ReaderGets
<1>o. UNCHANGED <<total, source, rest, credit, seq, sent, pump, dropped, wclosed>>
  BY <1>w DEF offer
<1>f. f \in ToReader /\ f = toReader[1] /\ 1 \in DOMAIN toReader
      /\ f.k \in {"stream", "chunk", "chunkEnd", "done", "fail"} /\ f.piece \in Piece
  BY <1>t, <1>w, TailFacts, FrameFacts
<1>n. ~down
  BY <1>d, <1>w DEF Opening
<1> HIDE DEF f
<1>1. ASSUME incoming # "none", incoming' = "gone",
             UNCHANGED <<consumed, queue>>, chunk' = chunk \/ chunk' = <<>>,
             Cancels(toWriter') => Cancels(toWriter),
             ended' => ended \/ QueueTo = total \/ CalledOff,
             Waits', DoneIsWhole', FramingKept'
      PROVE  DInv'
  BY <1>n, <1>o, <1>w, <1>1, GoneData
<1>2. ASSUME incoming' = incoming, incoming = "gone",
             UNCHANGED <<asked, consumed, queue, waiting, ended, failure, outcome, toWriter, chunk>>
      PROVE  DInv'
  <2>1. Waits' /\ DoneIsWhole' /\ FramingKept'
    BY <1>d, <1>o, <1>w, <1>2 DEF Waits, DoneIsWhole, FramingKept
  <2> QED
    BY <1>1, <1>2, <2>1
<1>3. CASE rclosed
  <2>1. UNCHANGED <<toWriter, incoming, asked, consumed, received, chunk, queue,
                    waiting, ended, failure, outcome>>
    <3>1. incoming = "gone" /\ (f.k = "stream" => TRUE)
      BY <1>3, <1>d DEF Opening
    <3> QED
      BY <1>3, <3>1 DEF ReaderGets
  <2>2. incoming = "gone"
    BY <1>3, <1>d DEF Opening
  <2> QED
    BY <1>2, <2>1, <2>2
<1>4. CASE ~rclosed /\ f.k = "stream"
  <2>1. /\ incoming' = "live"
        /\ UNCHANGED <<toWriter, asked, consumed, received, chunk, queue, waiting,
                       ended, failure, outcome>>
    BY <1>4 DEF ReaderGets, f
  <2>2. incoming = "none"
    BY <1>4, <1>d, <1>f DEF Opening
  <2>3. Head(toReader).k \notin {"chunk", "chunkEnd"}
    BY <1>4, <1>w
  <2> QED
    BY <1>4, <1>w, <2>1, <2>2, <2>3, SkipData
<1>5. CASE ~rclosed /\ f.k = "chunk"
  <2>1. GetsChunk(f.piece) /\ UNCHANGED <<asked, consumed, queue, ended>>
    BY <1>5 DEF ReaderGets, f
  <2>2. incoming # "none"
    BY <1>5, <1>d, <1>f DEF Opening
  <2>3. CASE incoming = "gone"
    BY <1>2, <2>1, <2>3 DEF GetsChunk
  <2>4. CASE incoming = "live" /\ received + f.piece.bytes > MaxBytes
    <3>1. Refuse("bound") /\ UNCHANGED chunk
      BY <2>1, <2>4 DEF GetsChunk
    <3>2. FailWith("bound")
      BY <3>1 DEF Refuse
    <3>3. Waits' /\ DoneIsWhole' /\ FramingKept'
      BY <1>t, <1>d, <1>o, <1>w, <2>1, <3>2, FailData
    <3>4. (Cancels(toWriter') => Cancels(toWriter)) /\ incoming' = "gone"
      BY <1>t, <3>1, RefuseSends
    <3> QED
      BY <1>1, <2>1, <2>2, <3>1, <3>3, <3>4
  <2>5. CASE incoming = "live" /\ ~(received + f.piece.bytes > MaxBytes)
    <3>1. chunk' = <<f.piece>> /\ UNCHANGED <<incoming, failure, waiting, outcome, toWriter>>
      BY <2>1, <2>5 DEF GetsChunk
    <3> QED
      BY <1>5, <1>w, <2>1, <2>5, <3>1, ChunkData
  <2> QED
    BY <1>t, <2>2, <2>3, <2>4, <2>5
<1>6. CASE ~rclosed /\ f.k = "chunkEnd"
  <2>1. GetsChunkEnd(f.piece.seq) /\ UNCHANGED <<received, ended>>
    BY <1>6 DEF ReaderGets, f
  <2>2. incoming # "none"
    BY <1>6, <1>d, <1>f DEF Opening
  <2>3. CASE incoming = "gone"
    BY <1>2, <2>1, <2>3 DEF GetsChunkEnd
  <2>4. CASE incoming = "live"
    <3>1. chunk # <<>> /\ chunk[1].seq = f.piece.seq
      <4>1. Wired(toReader, HeldTo, sent, ReaderAt, WriterAt)
        BY <1>d, <1>n, <2>4 DEF Laid
      <4>2. HeldTo \in Int /\ sent \in Int /\ ReaderAt \in Int /\ WriterAt \in Int
        BY <1>t, Positions
      <4>3. f.piece.seq = ReaderAt
        BY <1>6, <1>t, <1>w, <4>1, <4>2, WiredTake
      <4> QED
        BY <1>f, <4>3, PieceFacts DEF ReaderAt
    <3>2. CASE ~chunk[1].ok
      <4>1. chunk' = <<>> /\ Refuse("corrupt") /\ UNCHANGED <<asked, consumed, queue>>
        BY <2>1, <2>4, <3>1, <3>2 DEF GetsChunkEnd
      <4>2. FailWith("corrupt")
        BY <4>1 DEF Refuse
      <4>3. Waits' /\ DoneIsWhole' /\ FramingKept'
        BY <1>t, <1>d, <1>o, <1>w, <2>1, <4>1, <4>2, FailData
      <4>4. (Cancels(toWriter') => Cancels(toWriter)) /\ incoming' = "gone"
        BY <1>t, <4>1, RefuseSends
      <4> QED
        BY <1>1, <2>1, <2>2, <4>1, <4>3, <4>4
    <3>3. CASE chunk[1].ok
      <4>1. chunk' = <<>> /\ Push(chunk[1]) /\ UNCHANGED <<incoming, failure, outcome>>
        BY <2>1, <2>4, <3>1, <3>3 DEF GetsChunkEnd
      <4> QED
        BY <1>6, <1>w, <2>1, <2>4, <3>1, <4>1, ChunkEndData
    <3> QED
      BY <3>2, <3>3
  <2> QED
    BY <1>t, <2>2, <2>3, <2>4
<1>7. CASE ~rclosed /\ f.k \in {"done", "fail"} /\ incoming # "live"
  <2>1. UNCHANGED <<toWriter, incoming, asked, consumed, received, chunk, queue,
                    waiting, ended, failure, outcome>>
    BY <1>7 DEF ReaderGets, GetsDone, GetsFail, f
  <2>2. Head(toReader).k \notin {"chunk", "chunkEnd"}
    BY <1>7, <1>w
  <2>3. CASE incoming = "none"
    BY <1>7, <1>w, <2>1, <2>2, <2>3, SkipData
  <2>4. CASE incoming = "gone"
    BY <1>2, <2>1, <2>4
  <2> QED
    BY <1>t, <1>7, <2>3, <2>4
<1>8. CASE ~rclosed /\ f.k = "done" /\ incoming = "live"
  <2>1. /\ incoming' = "gone" /\ ended' = TRUE /\ waiting' = FALSE
        /\ outcome' = IF waiting THEN "done" ELSE outcome
        /\ UNCHANGED <<toWriter, asked, consumed, received, chunk, queue, failure>>
    BY <1>8 DEF ReaderGets, GetsDone, f
  <2>2. ~CalledOff => QueueTo = total
    <3> SUFFICES ASSUME ~CalledOff PROVE QueueTo = total
      OBVIOUS
    <3>1. /\ source = 0 /\ rest = 0 /\ (pump = "closing" \/ dropped)
          /\ \A j \in DOMAIN toReader : j > 1 => toReader[j].k \notin {"chunk", "chunkEnd"}
      BY <1>d, <1>f, <1>8 DEF Done
    <3>2. WriterAt = -1
      BY <1>d, <3>1 DEF Done, WriterAt
    <3>3. \A j \in DOMAIN toReader : toReader[j].k \notin {"chunk", "chunkEnd"}
      <4>1. \A j \in DOMAIN toReader : j = 1 \/ j > 1
        BY <1>t
      <4> QED
        BY <1>f, <1>8, <3>1, <4>1
    <3>4. Wired(toReader, HeldTo, sent, ReaderAt, WriterAt)
      BY <1>d, <1>n, <1>8 DEF Laid
    <3>5. HeldTo = sent /\ ReaderAt = -1
      BY <1>t, <3>2, <3>3, <3>4, WiredNone
    <3>6. chunk = <<>>
      <4>1. chunk # <<>> => chunk[1] \in Piece
        BY <1>t
      <4> QED
        BY <3>5, <4>1, PieceFacts DEF ReaderAt
    <3>7. total = sent
      BY <1>t, <1>d, <3>1 DEF Whole
    <3> QED
      BY <3>5, <3>6, <3>7 DEF HeldTo
  <2>3. waiting => queue = <<>> /\ QueueTo = consumed
    BY <1>d DEF Waits, QueueTo
  <2>4. Waits' /\ FramingKept'
    BY <1>d, <2>1 DEF Waits, FramingKept
  <2>5. DoneIsWhole'
    BY <1>d, <1>o, <1>w, <2>1, <2>2, <2>3 DEF DoneIsWhole, CalledOff
  <2> QED
    BY <1>1, <1>8, <2>1, <2>2, <2>4, <2>5
<1>9. CASE ~rclosed /\ f.k = "fail" /\ incoming = "live"
  <2>1. /\ incoming' = "gone" /\ FailWith("source")
        /\ UNCHANGED <<toWriter, asked, consumed, received, chunk, queue, ended>>
    BY <1>9 DEF ReaderGets, GetsFail, f
  <2>2. Waits' /\ DoneIsWhole' /\ FramingKept'
    BY <1>t, <1>d, <1>o, <1>w, <2>1, FailData
  <2> QED
    BY <1>1, <1>9, <2>1, <2>2
<1> QED
  BY <1>f, <1>3, <1>4, <1>5, <1>6, <1>7, <1>8, <1>9

\* The consumer.
LEMMA ConsumerData == IInv /\ DInv /\ (Read \/ Cancel) => DInv'
<1> SUFFICES ASSUME IInv, DInv, Read \/ Cancel PROVE DInv'
  OBVIOUS
<1>t. /\ TypeOK /\ queue \in Seq(Piece) /\ consumed \in Nat /\ sent \in Nat
      /\ outcome \in {"reading", "done", "error"}
  BY DEF IInv, TypeOK
<1>d. Whole /\ Opening /\ Waits /\ Bounded /\ Laid /\ Done /\ FramingKept /\ DoneIsWhole
  BY DEF DInv
<1>1. CASE Cancel
  <2>1. /\ ~ended /\ stopped' /\ queue' = <<>> /\ waiting' = FALSE /\ incoming' = "gone"
        /\ toWriter' = Sent(toWriter, Note("cancel")) /\ UNCHANGED offer /\ opened
        /\ UNCHANGED <<toReader, down, opened, asked, consumed, received, chunk, ended, failure, rclosed>>
    BY <1>1 DEF Cancel
  <2>2. UNCHANGED <<total, source, rest, credit, seq, sent, pump, dropped, wclosed>>
    BY <2>1 DEF offer
  <2>3. Whole' /\ Waits' /\ FramingKept' /\ DoneIsWhole'
    BY <1>d, <2>1, <2>2 DEF Whole, Waits, FramingKept, DoneIsWhole
  <2>4. DOMAIN queue' = {} /\ QueueTo' = consumed'
    BY <2>1 DEF QueueTo
  <2>5. Bounded'
    BY <1>d, <2>1, <2>2, <2>4 DEF Bounded
  <2>6. Laid'
    BY <2>1, <2>4, LinkedEmpty DEF Laid
  <2>7. Done'
    BY <1>d, <2>1 DEF Done, CalledOff
  <2>8. Opening'
    BY <1>d, <2>1, <2>2 DEF Opening, Sent
  <2> QED
    BY <2>3, <2>5, <2>6, <2>7, <2>8 DEF DInv
<1>2. CASE Read
  <2>1. /\ opened /\ ~waiting /\ outcome = "reading" /\ UNCHANGED offer
        /\ UNCHANGED <<toReader, down, incoming, opened, received, chunk, ended,
                       failure, stopped, rclosed>>
    BY <1>2 DEF Read
  <2>2. UNCHANGED <<total, source, rest, credit, seq, sent, pump, dropped, wclosed>>
    BY <2>1 DEF offer
  <2>3. SUFFICES /\ QueueTo' = QueueTo /\ Linked(Held(queue'), consumed', QueueTo')
                 /\ consumed' <= sent
                 /\ \A i \in DOMAIN queue' : queue'[i].at + queue'[i].bytes <= sent
                 /\ Cancels(toWriter') => Cancels(toWriter)
                 /\ down => toWriter' = toWriter
                 /\ incoming = "none" => asked' = asked /\ toWriter' = toWriter /\ queue' = <<>>
                 /\ Waits' /\ DoneIsWhole'
    <3>1. HeldTo' = HeldTo /\ ReaderAt' = ReaderAt /\ WriterAt' = WriterAt
      BY <2>1, <2>2, <2>3 DEF HeldTo, ReaderAt, WriterAt
    <3>2. Whole' /\ FramingKept'
      BY <1>d, <2>1, <2>2 DEF Whole, FramingKept
    <3>3. Opening' /\ Bounded'
      BY <1>d, <2>1, <2>2, <2>3 DEF Opening, Bounded
    <3>4. Laid'
      BY <1>d, <2>1, <2>2, <2>3, <3>1 DEF Laid, Wired
    <3>5. Done'
      BY <1>d, <2>1, <2>2, <2>3 DEF Done, CalledOff
    <3> QED
      BY <2>3, <3>2, <3>3, <3>4, <3>5 DEF DInv
  <2>4. CASE queue # <<>>
    <3> DEFINE p == Head(queue)
               c == consumed + p.bytes
    <3>1. /\ queue' = Tail(queue) /\ consumed' = c /\ Ask(c) /\ UNCHANGED <<waiting, outcome>>
      BY <1>2, <2>4 DEF Read
    <3>2. /\ p \in Piece /\ 1 \in DOMAIN queue /\ p = queue[1]
          /\ \A i \in DOMAIN queue' :
                i \in Nat \ {0} /\ i + 1 \in DOMAIN queue /\ queue'[i] = queue[i + 1]
      BY <1>t, <2>4, <3>1, TailFacts
    <3>3. p.at \in Nat /\ p.bytes \in Nat /\ c \in Nat
      BY <1>t, <3>2, PieceFacts
    <3> HIDE DEF p
    <3>4. /\ Held(queue) \in Seq(Parts) /\ Len(Held(queue)) = Len(queue)
          /\ Held(queue)[1] = Span(p) /\ Held(Tail(queue)) = Tail(Held(queue))
          /\ Span(p).moves /\ Span(p).from = p.at /\ Span(p).to = p.at + p.bytes
      BY <1>t, <2>4, <3>2, HeldFacts, PieceFacts
    <3>5. /\ p.at = consumed
          /\ Linked(Held(queue'), p.at + p.bytes, QueueTo)
      <4>1. Linked(Held(queue), consumed, QueueTo)
        BY <1>d DEF Laid
      <4>2. Held(queue) # <<>> /\ consumed \in Int /\ QueueTo \in Int
        BY <1>t, <2>4, <3>4, Positions
      <4>3. /\ Held(queue)[1].moves => Held(queue)[1].from = consumed
            /\ Linked(Tail(Held(queue)),
                      IF Held(queue)[1].moves THEN Held(queue)[1].to ELSE consumed, QueueTo)
        BY <3>4, <4>1, <4>2, LinkedTail
      <4> QED
        BY <3>1, <3>4, <4>3
    <3>6. consumed' = p.at + p.bytes
      BY <3>1, <3>5
    <3>7. QueueTo' = QueueTo
      <4>1. CASE queue' = <<>>
        <5>1. Len(queue) = 1
          <6>1. Len(Tail(queue)) = Len(queue) - 1 /\ Len(queue) \in Nat
            BY <1>t, <2>4
          <6>2. Tail(queue) = <<>>
            BY <3>1, <4>1
          <6>3. Len(Tail(queue)) = 0
            BY <6>2, EmptySeq
          <6> QED
            BY <6>1, <6>3
        <5>2. QueueTo = p.at + p.bytes
          BY <2>4, <3>2, <5>1 DEF QueueTo
        <5>3. QueueTo' = consumed'
          BY <4>1 DEF QueueTo
        <5> QED
          BY <3>6, <5>2, <5>3
      <4>2. CASE queue' # <<>>
        <5>1. queue'[Len(queue')] = queue[Len(queue)]
          BY <1>t, <2>4, <3>1, <4>2
        <5> QED
          BY <2>4, <4>2, <5>1 DEF QueueTo
      <4> QED
        BY <4>1, <4>2
    <3>8. consumed' <= sent /\ \A i \in DOMAIN queue' : queue'[i].at + queue'[i].bytes <= sent
      BY <1>d, <3>2, <3>6 DEF Bounded
    <3>9. /\ Cancels(toWriter') => Cancels(toWriter)
          /\ down => toWriter' = toWriter
          /\ incoming = "none" => asked' = asked /\ toWriter' = toWriter
      BY <1>t, <3>1, <3>3, AskSends
    <3>10. incoming # "none"
      BY <1>d, <2>4 DEF Opening
    <3>11. Waits' /\ DoneIsWhole'
      BY <2>1, <3>1 DEF Waits, DoneIsWhole
    <3> QED
      BY <3>5, <3>6, <3>7, <3>8, <3>9, <3>10, <3>11
  <2>5. CASE queue = <<>> /\ (failure # "none" \/ ended \/ stopped)
    <3>1. /\ outcome' = IF failure # "none" THEN "error" ELSE "done"
          /\ UNCHANGED <<queue, consumed, asked, waiting, toWriter>>
      BY <1>2, <2>5 DEF Read
    <3>2. QueueTo' = QueueTo /\ QueueTo = consumed
      BY <2>5, <3>1 DEF QueueTo
    <3>3. Waits'
      BY <2>1, <3>1 DEF Waits
    <3>4. DoneIsWhole'
      BY <1>d, <2>1, <2>2, <2>5, <3>1, <3>2 DEF DoneIsWhole, Done, CalledOff
    <3>5. /\ Linked(Held(queue'), consumed', QueueTo') /\ consumed' <= sent
          /\ \A i \in DOMAIN queue' : queue'[i].at + queue'[i].bytes <= sent
      BY <1>d, <3>1, <3>2 DEF Laid, Bounded
    <3> QED
      BY <2>5, <3>1, <3>2, <3>3, <3>4, <3>5
  <2>6. CASE queue = <<>> /\ ~(failure # "none" \/ ended \/ stopped)
    <3>1. waiting' = TRUE /\ Ask(consumed) /\ UNCHANGED <<queue, consumed, outcome>>
      BY <1>2, <2>6 DEF Read
    <3>2. QueueTo' = QueueTo
      BY <3>1 DEF QueueTo
    <3>3. Waits' /\ DoneIsWhole'
      BY <2>1, <2>6, <3>1 DEF Waits, DoneIsWhole
    <3>4. /\ Linked(Held(queue'), consumed', QueueTo') /\ consumed' <= sent
          /\ \A i \in DOMAIN queue' : queue'[i].at + queue'[i].bytes <= sent
      BY <1>d, <3>1, <3>2 DEF Laid, Bounded
    <3>5. /\ Cancels(toWriter') => Cancels(toWriter)
          /\ down => toWriter' = toWriter
          /\ incoming = "none" => asked' = asked /\ toWriter' = toWriter
      BY <1>t, <3>1, AskSends
    <3> QED
      BY <2>6, <3>1, <3>2, <3>3, <3>4, <3>5
  <2> QED
    BY <2>4, <2>5, <2>6
<1> QED
  BY <1>1, <1>2

\* The connection goes.
LEMMA WireDropsData == IInv /\ DInv /\ WireDrops => DInv'
<1> SUFFICES ASSUME IInv, DInv, WireDrops PROVE DInv'
  OBVIOUS
<1>d. Whole /\ Opening /\ Waits /\ Bounded /\ Laid /\ Done /\ FramingKept /\ DoneIsWhole
  BY DEF DInv
<1>1. down' /\ toReader' = <<>> /\ toWriter' = <<>> /\ UNCHANGED <<offer, reader>>
  BY DEF WireDrops
<1>2. /\ UNCHANGED <<total, source, rest, credit, seq, sent, pump, dropped, wclosed>>
      /\ UNCHANGED <<incoming, opened, asked, consumed, received, chunk, queue, waiting,
                     ended, failure, stopped, rclosed, outcome>>
  BY <1>1 DEF offer, reader
<1>3. QueueTo' = QueueTo /\ CalledOff' = CalledOff /\ DOMAIN toReader' = {} /\ ~Cancels(toWriter')
  BY <1>1, <1>2 DEF QueueTo, CalledOff, Cancels
<1>4. Whole' /\ Waits' /\ FramingKept' /\ DoneIsWhole'
  BY <1>d, <1>2 DEF Whole, Waits, FramingKept, DoneIsWhole
<1>5. Opening' /\ Bounded'
  BY <1>d, <1>1, <1>2, <1>3 DEF Opening, Bounded
<1>6. Laid' /\ Done'
  BY <1>d, <1>1, <1>2, <1>3 DEF Laid, Done
<1> QED
  BY <1>4, <1>5, <1>6 DEF DInv

\* A stream starts with all its octets at the source and its name on the wire.
LEMMA InitData == Init => DInv
<1> SUFFICES ASSUME Init PROVE DInv
  OBVIOUS
<1>0. total \in Nat
  BY StreamAssumption DEF Init
<1>1. /\ source = total /\ rest = 0 /\ credit = 0 /\ seq = 0 /\ sent = 0
      /\ pump = "idle" /\ dropped = FALSE /\ toReader = <<Frame("stream")>> /\ toWriter = <<>>
      /\ down = FALSE /\ incoming = "none" /\ opened = FALSE /\ asked = 0 /\ consumed = 0
      /\ chunk = <<>> /\ queue = <<>> /\ waiting = FALSE /\ ended = FALSE
      /\ failure = "none" /\ stopped = FALSE /\ rclosed = FALSE /\ outcome = "reading"
  BY DEF Init
<1>2. /\ Frame("stream") \in ToReader /\ Frame("stream").k = "stream"
      /\ DOMAIN toReader = {1} /\ toReader[1] = Frame("stream")
  BY <1>1 DEF Frame, ToReader, Named, Piece
<1>3. QueueTo = 0 /\ HeldTo = 0 /\ ReaderAt = -1 /\ WriterAt = -1 /\ ~Cancels(toWriter)
      /\ DOMAIN queue = {} /\ DOMAIN chunk = {}
  BY <1>1 DEF QueueTo, HeldTo, ReaderAt, WriterAt, Cancels
<1>4. Wired(toReader, 0, 0, -1, -1)
  <2>1. Movers(Octets(toReader)) = {}
    BY <1>2 DEF Movers, Octets, Carried
  <2>2. Movers(Brackets(toReader)) = {}
    BY <1>2 DEF Movers, Brackets, Bracket
  <2> QED
    BY <2>1, <2>2 DEF Wired, Linked
<1>5. Laid
  BY <1>1, <1>3, <1>4, LinkedEmpty DEF Laid
<1>6. Whole /\ Waits /\ FramingKept /\ DoneIsWhole
  BY <1>0, <1>1 DEF Whole, Waits, FramingKept, DoneIsWhole
<1>7. Opening /\ Bounded /\ Done
  BY <1>1, <1>2, <1>3 DEF Opening, Bounded, Done
<1> QED
  BY <1>5, <1>6, <1>7 DEF DInv

-----------------------------------------------------------------------------
(* The theorems. *)

\* Every step keeps the octets in their places.
LEMMA StepData == IInv /\ DInv /\ [Next]_vars => DInv'
<1>1. ASSUME IInv, DInv, Next PROVE DInv'
  BY <1>1, PumpData, WriterGetsData, WriterClosesData, ReaderEndsData, ConsumerData,
     ReaderGetsData, WireDropsData DEF Next
<1>2. ASSUME DInv, UNCHANGED vars PROVE DInv'
  <2>1. /\ UNCHANGED <<total, source, rest, credit, seq, sent, pump, dropped, wclosed>>
        /\ UNCHANGED <<toReader, toWriter, down>>
        /\ UNCHANGED <<incoming, opened, asked, consumed, received, chunk, queue, waiting,
                       ended, failure, stopped, rclosed, outcome>>
    BY <1>2 DEF vars
  <2>2. QueueTo' = QueueTo /\ HeldTo' = HeldTo /\ ReaderAt' = ReaderAt /\ WriterAt' = WriterAt
        /\ CalledOff' = CalledOff
    BY <2>1 DEF QueueTo, HeldTo, ReaderAt, WriterAt, CalledOff
  <2>3. Whole' /\ Opening' /\ Waits' /\ Bounded' /\ FramingKept' /\ DoneIsWhole'
    BY <1>2, <2>1 DEF DInv, Whole, Opening, Waits, Bounded, FramingKept, DoneIsWhole
  <2>4. Laid' /\ Done'
    BY <1>2, <2>1, <2>2 DEF DInv, Laid, Wired, Done
  <2> QED
    BY <2>3, <2>4 DEF DInv
<1> QED
  BY <1>1, <1>2

\* The octets are in their places in every stream.
THEOREM StreamDataInvariant == Spec => []DInv
<1>1. Init => DInv
  BY InitData
<1>2. IInv /\ DInv /\ [Next]_vars => DInv'
  BY StepData
<1> QED
  BY <1>1, <1>2, StreamInvariant, PTL DEF Spec

\* Only a chunk that has passed its checksum is queued.
LEMMA QueueIntact == Spec => []Intact
<1>1. Init => Intact
  BY DEF Init, Intact
<1>2. ASSUME TypeOK, Intact, [Next]_vars PROVE Intact'
  <2>t. queue \in Seq(Piece)
    BY <1>2 DEF TypeOK
  <2>1. ASSUME queue' = queue PROVE Intact'
    BY <1>2, <2>1 DEF Intact
  <2>2. CASE PumpStep \/ WriterGets \/ WriterCloses
    <3>1. UNCHANGED reader
      BY <2>2 DEF PumpStep, PullYields, PullYieldsNothing, PullEnds, SegmentSent, TailSent, PumpDrops,
                  WriterGets, WriterCloses
    <3> QED
      BY <2>1, <3>1 DEF reader
  <2>3. CASE Reference \/ ReaderCloses \/ WireDrops
    BY <2>1, <2>3 DEF Reference, ReaderCloses, WireDrops, reader
  <2>4. CASE Read
    <3>1. CASE queue # <<>>
      <4>1. queue' = Tail(queue)
        BY <2>4, <3>1 DEF Read
      <4>2. /\ Len(queue) \in Nat /\ DOMAIN queue = 1..Len(queue)
            /\ DOMAIN queue' = 1..(Len(queue) - 1)
            /\ \A i \in 1..(Len(queue) - 1) : queue'[i] = queue[i + 1]
        BY <2>t, <3>1, <4>1
      <4> QED
        BY <1>2, <4>2 DEF Intact
    <3>2. CASE queue = <<>>
      BY <2>1, <2>4, <3>2 DEF Read
    <3> QED
      BY <3>1, <3>2
  <2>5. CASE Cancel
    BY <2>5 DEF Cancel, Intact
  <2>6. CASE ReaderGets
    <3>1. CASE queue' = queue
      BY <2>1, <3>1
    <3>2. CASE queue' # queue
      <4>1. PICK n : GetsChunkEnd(n)
        BY <2>6, <3>2 DEF ReaderGets
      <4>2. chunk # <<>> /\ chunk[1].ok /\ queue' = Append(queue, chunk[1])
        BY <3>2, <4>1 DEF GetsChunkEnd, Push
      <4>3. chunk[1] \in Piece
        BY <1>2, <4>2 DEF TypeOK
      <4>4. /\ Len(queue) \in Nat /\ DOMAIN queue = 1..Len(queue)
            /\ DOMAIN queue' = 1..(Len(queue) + 1) /\ queue'[Len(queue) + 1] = chunk[1]
            /\ \A i \in 1..Len(queue) : queue'[i] = queue[i]
        BY <2>t, <4>2, <4>3
      <4>5. \A i \in DOMAIN queue' : i \in DOMAIN queue \/ i = Len(queue) + 1
        BY <4>4
      <4> QED
        BY <1>2, <4>2, <4>4, <4>5 DEF Intact
    <3> QED
      BY <3>1, <3>2
  <2>7. CASE UNCHANGED vars
    BY <2>1, <2>7 DEF vars, reader
  <2> QED
    BY <1>2, <2>2, <2>3, <2>4, <2>5, <2>6, <2>7 DEF Next
<1> QED
  BY <1>1, <1>2, StreamType, PTL DEF Spec

\* What the consumer is given next, and what follows it in the queue, in hand and
\* on the wire, is what the source gave: nothing missing, twice, out of place or,
\* where it is queued for the consumer, damaged,
\* whatever the window, the chunks' size and the order in which frames cross.
THEOREM StreamContiguous == Spec => []Contiguous
<1>1. ASSUME IInv, DInv, Intact PROVE Contiguous
  <2>t. /\ TypeOK /\ queue \in Seq(Piece) /\ chunk \in Seq(Piece) /\ Len(chunk) <= 1
        /\ toReader \in Seq(ToReader) /\ sent \in Nat /\ consumed \in Nat
    BY <1>1 DEF IInv, TypeOK
  <2>d. Laid /\ Bounded
    BY <1>1 DEF DInv
  <2>p. QueueTo \in Nat /\ HeldTo \in Nat
    BY <2>t, Positions
  <2>1. QueueTo \in 0..sent
    <3>1. CASE queue = <<>>
      BY <2>t, <2>d, <2>p, <3>1 DEF QueueTo, Bounded
    <3>2. CASE queue # <<>>
      <4>1. Len(queue) \in DOMAIN queue
        BY <2>t, <3>2
      <4> QED
        BY <2>t, <2>d, <2>p, <3>2, <4>1 DEF QueueTo, Bounded
    <3> QED
      BY <3>1, <3>2
  <2>2. \E upto \in 0..sent : Linked(Held(queue), consumed, upto)
    BY <2>d, <2>1 DEF Laid
  <2>3. ASSUME incoming = "live", ~down
        PROVE  Linked(Held(queue) \o Held(chunk) \o Octets(toReader), consumed, sent)
    <3>1. Linked(Held(queue), consumed, QueueTo)
      BY <2>d DEF Laid
    <3>2. /\ \A i \in DOMAIN chunk : chunk[i].at = QueueTo
          /\ Linked(Octets(toReader), HeldTo, sent)
      BY <2>3, <2>d DEF Laid, Wired
    <3>3. Held(queue) \in Seq(Parts) /\ Held(chunk) \in Seq(Parts)
      <4>1. Named(0) \in Piece
        BY DEF Named, Piece
      <4> QED
        BY <2>t, <4>1, HeldFacts
    <3>4. Octets(toReader) \in Seq(Parts)
      <4>1. Frame("done") \in ToReader
        BY DEF Frame, ToReader, Named, Piece
      <4> QED
        BY <2>t, <4>1, OctetsFacts
    <3>5. Linked(Held(chunk), QueueTo, HeldTo)
      <4>1. CASE chunk = <<>>
        BY <4>1, LinkedEmpty DEF HeldTo
      <4>2. CASE chunk # <<>>
        <5>1. DOMAIN chunk = {1} /\ chunk[1] \in Piece
          <6>1. Len(chunk) \in Nat /\ Len(chunk) # 0 /\ DOMAIN chunk = 1..Len(chunk)
            BY <2>t, <4>2
          <6>2. Len(chunk) = 1
            BY <2>t, <6>1
          <6>3. 1..Len(chunk) = {1}
            BY <6>2
          <6> QED
            BY <2>t, <6>1, <6>3
        <5>2. chunk[1].at = QueueTo /\ HeldTo = chunk[1].at + chunk[1].bytes
          BY <3>2, <4>2, <5>1 DEF HeldTo
        <5>3. DOMAIN Held(chunk) = {1} /\ Held(chunk)[1] = Span(chunk[1])
          BY <5>1 DEF Held
        <5>4. Movers(Held(chunk)) = {1}
          BY <5>1, <5>3, PieceFacts DEF Movers
        <5> QED
          BY <5>1, <5>2, <5>3, <5>4, PieceFacts DEF Linked
      <4> QED
        BY <4>1, <4>2
    <3>6. consumed \in Int /\ QueueTo \in Int /\ HeldTo \in Int /\ sent \in Int
      BY <2>t, <2>p
    <3>7. Linked(Held(queue) \o Held(chunk), consumed, HeldTo)
      BY <3>1, <3>3, <3>5, <3>6, LinkedConcat
    <3>8. Held(queue) \o Held(chunk) \in Seq(Parts)
      BY <3>3
    <3> QED
      BY <3>2, <3>4, <3>6, <3>7, <3>8, LinkedConcat
  <2> QED
    BY <1>1, <2>2, <2>3 DEF Contiguous
<1> QED
  BY <1>1, StreamInvariant, StreamDataInvariant, QueueIntact, PTL

\* No chunk ever meets another one's tail, nor a tail no chunk.
THEOREM StreamFraming == Spec => []FramingKept
<1>1. DInv => FramingKept
  BY DEF DInv
<1> QED
  BY <1>1, StreamDataInvariant, PTL

\* A consumer that is told the end of a stream nobody called off has read every
\* octet the source held.
THEOREM StreamDoneIsWhole == Spec => []DoneIsWhole
<1>1. DInv => DoneIsWhole
  BY DEF DInv
<1> QED
  BY <1>1, StreamDataInvariant, PTL

-----------------------------------------------------------------------------
(* The bounded pipe. *)

\* Every step of a stream is a write, a take or an end of the pipe, or none.
PipeStep ==
    \/ UNCHANGED <<consumed, outcome>> /\ (sent' = sent \/ sent' > sent)
    \/ UNCHANGED <<sent, consumed>> /\ outcome' = outcome
    \/ UNCHANGED <<sent, consumed>> /\ outcome = "reading" /\ outcome' \in {"done", "error"}
    \/ UNCHANGED <<sent, outcome>> /\ outcome = "reading" /\ consumed' > consumed

\* The writer's octets are only ever more.
LEMMA WriterPipe == IInv /\ (PumpStep \/ WriterGets \/ WriterCloses) => PipeStep
<1> SUFFICES ASSUME IInv, PumpStep \/ WriterGets \/ WriterCloses PROVE PipeStep
  OBVIOUS
<1>t. /\ TypeOK /\ PumpInCredit /\ rest \in Nat /\ credit \in Nat /\ sent \in Nat /\ source \in Nat
      /\ toWriter \in Seq(ToWriter)
  BY DEF IInv, TypeOK
<1>1. UNCHANGED <<consumed, outcome>>
  BY DEF PumpStep, PullYields, PullYieldsNothing, PullEnds, SegmentSent, TailSent, PumpDrops,
         WriterGets, WriterCloses, reader
<1>2. ASSUME NEW c \in Nat \ {0}, NEW piece \in Nat \ {0}, Cut(c, piece)
      PROVE  sent' > sent
  <2> DEFINE size == Least(piece, Least(Chunk, c))
  <2>1. size \in Nat \ {0}
    BY StreamAssumption DEF Least
  <2>2. sent' = sent + size
    BY <1>2 DEF Cut
  <2> HIDE DEF size
  <2> QED
    BY <1>t, <2>1, <2>2
<1>3. ASSUME NEW c \in Nat, Loop(c)
      PROVE  sent' = sent \/ sent' > sent
  <2>1. CASE dropped \/ c = 0 \/ rest = 0
    BY <1>3, <2>1 DEF Loop
  <2>2. CASE ~(dropped \/ c = 0 \/ rest = 0)
    <3>1. Cut(c, rest) /\ c \in Nat \ {0} /\ rest \in Nat \ {0}
      BY <1>3, <1>t, <2>2 DEF Loop
    <3> QED
      BY <1>2, <3>1
  <2> QED
    BY <2>1, <2>2
<1>4. CASE PullYields
  <2>1. PICK n \in 1..source : Cut(credit, n)
    BY <1>4 DEF PullYields
  <2>2. credit \in Nat \ {0} /\ n \in Nat \ {0}
    BY <1>4, <1>t DEF PullYields, PumpInCredit
  <2> QED
    BY <1>1, <1>2, <2>1, <2>2 DEF PipeStep
<1>5. CASE PullYieldsNothing \/ TailSent
  BY <1>1, <1>3, <1>5, <1>t DEF PipeStep, PullYieldsNothing, TailSent
<1>6. CASE PullEnds \/ SegmentSent \/ PumpDrops \/ WriterCloses
  BY <1>1, <1>6 DEF PipeStep, PullEnds, SegmentSent, PumpDrops, WriterCloses
<1>7. CASE WriterGets
  <2> DEFINE f == Head(toWriter)
  <2>1. f \in ToWriter
    BY <1>7, <1>t, TailFacts DEF WriterGets
  <2>2. credit + f.credit \in Nat
    BY <1>t, <2>1 DEF ToWriter
  <2>3. Loop(credit + f.credit) \/ sent' = sent
    BY <1>7 DEF WriterGets
  <2> HIDE DEF f
  <2> QED
    BY <1>1, <1>3, <2>2, <2>3 DEF PipeStep
<1> QED
  BY <1>4, <1>5, <1>6, <1>7 DEF PumpStep

\* Octets are taken, and the end is told, while the consumer reads.
LEMMA ReaderPipe ==
    IInv /\ DInv /\ (Reference \/ Read \/ Cancel \/ ReaderGets \/ ReaderCloses \/ WireDrops) => PipeStep
<1> SUFFICES ASSUME IInv, DInv,
                    Reference \/ Read \/ Cancel \/ ReaderGets \/ ReaderCloses \/ WireDrops
             PROVE  PipeStep
  OBVIOUS
<1>t. /\ TypeOK /\ consumed \in Nat /\ queue \in Seq(Piece) /\ chunk \in Seq(Piece)
      /\ toReader \in Seq(ToReader)
  BY DEF IInv, TypeOK
<1>d. Waits
  BY DEF DInv
<1>1. sent' = sent
  BY DEF Reference, Read, Cancel, ReaderGets, ReaderCloses, WireDrops, offer
<1>2. ASSUME NEW r, FailWith(r), consumed' = consumed
      PROVE  PipeStep
  BY <1>1, <1>2, <1>d DEF FailWith, Waits, PipeStep
<1>3. CASE Reference
  <2>1. outcome = "reading" /\ consumed' = consumed
    BY <1>3 DEF Reference
  <2>2. outcome' = outcome \/ outcome' = "error" \/ FailWith("refused")
    BY <1>3 DEF Reference, Refuse
  <2> QED
    BY <1>1, <1>2, <2>1, <2>2 DEF PipeStep
<1>4. CASE Read
  <2>1. CASE queue # <<>>
    <3>1. outcome = "reading" /\ outcome' = outcome /\ consumed' = consumed + Head(queue).bytes
      BY <1>4, <2>1 DEF Read
    <3>2. Head(queue) \in Piece
      BY <1>t, <2>1
    <3>3. Head(queue).bytes \in Nat /\ Head(queue).bytes > 0
      BY <3>2, PieceFacts
    <3>4. consumed' > consumed
      BY <1>t, <3>1, <3>3
    <3> QED
      BY <1>1, <3>1, <3>4 DEF PipeStep
  <2>2. CASE queue = <<>>
    BY <1>1, <1>4, <2>2 DEF Read, PipeStep
  <2> QED
    BY <2>1, <2>2
<1>5. CASE Cancel
  <2>1. consumed' = consumed /\ outcome' = IF waiting THEN "done" ELSE outcome
    BY <1>5 DEF Cancel
  <2> QED
    BY <1>1, <1>d, <2>1 DEF Waits, PipeStep
<1>6. CASE ReaderCloses
  <2>1. consumed' = consumed /\ (FailWith("closed") \/ outcome' = outcome)
    BY <1>6 DEF ReaderCloses
  <2> QED
    BY <1>1, <1>2, <2>1 DEF PipeStep
<1>7. CASE WireDrops
  BY <1>1, <1>7 DEF WireDrops, reader, PipeStep
<1>8. CASE ReaderGets
  <2> DEFINE f == Head(toReader)
  <2>1. CASE UNCHANGED <<consumed, outcome>>
    BY <1>1, <2>1 DEF PipeStep
  <2>2. CASE GetsChunk(f.piece) /\ consumed' = consumed
    BY <1>1, <1>2, <2>2 DEF GetsChunk, Refuse, PipeStep
  <2>3. CASE GetsChunkEnd(f.piece.seq)
    <3>1. CASE incoming # "live"
      BY <1>1, <2>3, <3>1 DEF GetsChunkEnd, PipeStep
    <3>2. CASE \E r : Refuse(r) /\ consumed' = consumed
      BY <1>2, <3>2 DEF Refuse
    <3>3. CASE chunk # <<>> /\ Push(chunk[1]) /\ outcome' = outcome
      <4>1. chunk[1] \in Piece
        BY <1>t, <3>3
      <4>2. chunk[1].bytes \in Nat /\ chunk[1].bytes > 0
        BY <4>1, PieceFacts
      <4>3. CASE waiting
        <5>1. consumed' = consumed + chunk[1].bytes /\ outcome = "reading"
          BY <1>d, <3>3, <4>3 DEF Push, Waits
        <5>2. consumed' > consumed
          BY <1>t, <4>2, <5>1
        <5> QED
          BY <1>1, <3>3, <5>1, <5>2 DEF PipeStep
      <4>4. CASE ~waiting
        BY <1>1, <3>3, <4>4 DEF Push, PipeStep
      <4> QED
        BY <4>3, <4>4
    <3>4. CASE incoming = "live" /\ (chunk = <<>> \/ (chunk # <<>> /\ chunk[1].seq # f.piece.seq))
      <4>1. Refuse("framing") /\ consumed' = consumed
        BY <2>3, <3>4 DEF GetsChunkEnd
      <4> QED
        BY <3>2, <4>1
    <3>5. CASE incoming = "live" /\ chunk # <<>> /\ chunk[1].seq = f.piece.seq
      <4>1. \/ Refuse("corrupt") /\ consumed' = consumed
            \/ Push(chunk[1]) /\ outcome' = outcome
        BY <2>3, <3>5 DEF GetsChunkEnd
      <4> QED
        BY <3>2, <3>3, <3>5, <4>1
    <3> QED
      BY <3>1, <3>4, <3>5
  <2>4. CASE GetsDone /\ consumed' = consumed
    BY <1>1, <1>d, <2>4 DEF GetsDone, Waits, PipeStep
  <2>5. CASE GetsFail /\ consumed' = consumed
    BY <1>1, <1>2, <2>5 DEF GetsFail, PipeStep
  <2> QED
    BY <1>8, <2>1, <2>2, <2>3, <2>4, <2>5 DEF ReaderGets
<1> QED
  BY <1>3, <1>4, <1>5, <1>6, <1>7, <1>8

\* What is paid for out of a bound is within it.
LEMMA Ahead ==
    ASSUME NEW a \in Nat, NEW b \in Nat, NEW u \in Nat, NEW c \in Nat, NEW w \in Nat,
           a + b <= u, u <= c + w
    PROVE  a <= c + w
  OBVIOUS

\* A stream is a bounded pipe: octets are taken in the order they were written,
\* the writer is never more than a window ahead, and a reader that has its verdict
\* takes nothing more.
THEOREM StreamIsPipe == Spec => PipeSpec
<1>1. Init => Pipe!Init
  BY DEF Init, Pipe!Init
<1>2. ASSUME IInv, DInv, IInv', DInv', [Next]_vars
      PROVE  [Pipe!Next]_<<sent, consumed, outcome>>
  <2>1. PipeStep
    <3>1. CASE Next
      BY <1>2, <3>1, WriterPipe, ReaderPipe DEF Next
    <3>2. CASE UNCHANGED vars
      BY <3>2 DEF vars, PipeStep
    <3> QED
      BY <1>2, <3>1, <3>2
  <2>2. sent' <= consumed' + Window /\ consumed' <= sent'
    <3>1. sent' + credit' <= asked' /\ asked' <= consumed' + Window
      BY <1>2 DEF IInv, Demand
    <3>2. sent' \in Nat /\ credit' \in Nat /\ asked' \in Nat /\ consumed' \in Nat /\ Window \in Nat
      BY <1>2, StreamAssumption DEF IInv, TypeOK
    <3>3. consumed' <= sent'
      BY <1>2 DEF DInv, Bounded
    <3>4. sent' <= consumed' + Window
      BY <3>1, <3>2, Ahead
    <3> QED
      BY <3>3, <3>4
  <2> QED
    BY <2>1, <2>2 DEF PipeStep, Pipe!Next, Pipe!Write, Pipe!Take, Pipe!End
<1> QED
  BY <1>1, <1>2, StreamInvariant, StreamDataInvariant, PTL DEF Spec, PipeSpec, Pipe!Spec

=============================================================================
