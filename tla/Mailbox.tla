------------------------------ MODULE Mailbox ------------------------------
(***************************************************************************)
(* What the inbox of a posipaki process promises its senders: messages are *)
(* taken one at a time, in the order they were sent, none skipped and none *)
(* twice, for as long as the process is in its dispatch loop.  A hard kill *)
(* drops what has not been taken yet, but a message already handed to the  *)
(* generator may still be taken; a process that left its loop takes none.  *)
(***************************************************************************)
EXTENDS Naturals, Sequences

CONSTANT Names  \* what the messages are called

VARIABLES
    pending,    \* messages sent and not yet taken, oldest first
    taken,      \* messages taken by the reducer, in order
    phase       \* "open", "killed" or "ended"

vars == <<pending, taken, phase>>

Init == pending = <<>> /\ taken = <<>> /\ phase = "open"

Post ==
    /\ phase # "killed"
    /\ \E n \in Names : pending' = Append(pending, n)
    /\ UNCHANGED <<taken, phase>>

\* The reducer may itself send as it takes.
Take ==
    /\ phase # "ended"
    /\ pending # <<>>
    /\ taken' = Append(taken, Head(pending))
    /\ pending' \in {Tail(pending)} \cup {Append(Tail(pending), n) : n \in Names}
    /\ UNCHANGED phase

\* Dropping the inbox spares the oldest message if it left the inbox already.
Dropped == {<<>>} \cup (IF pending = <<>> THEN {} ELSE {<<Head(pending)>>})

Kill ==
    /\ phase = "open"
    /\ phase' = "killed"
    /\ pending' \in Dropped
    /\ UNCHANGED taken

End ==
    /\ phase' = "ended"
    /\ UNCHANGED <<pending, taken>>

\* What is left when the loop ends is handed to a finished generator, or dropped.
Discard ==
    /\ phase = "ended"
    /\ pending' \in Dropped \cup (IF pending = <<>> THEN {} ELSE {Tail(pending)})
    /\ UNCHANGED <<taken, phase>>

Next == Post \/ Take \/ Kill \/ End \/ Discard

Spec == Init /\ [][Next]_vars

=============================================================================
