---------------------------- MODULE BoundedPipe ----------------------------
(***************************************************************************)
(* What a stream promises its two ends: octets are taken in the order they  *)
(* were written, the writer is never more than a window ahead of the        *)
(* reader, and once the reader has its verdict it takes nothing more.       *)
(***************************************************************************)
EXTENDS Naturals

CONSTANT Window     \* how far ahead of the reader the writer may run

VARIABLES written,  \* octets written so far
          taken,    \* octets the reader has taken
          verdict   \* "reading", or how it ended for the reader

Init == written = 0 /\ taken = 0 /\ verdict = "reading"

Write ==
    /\ written' > written
    /\ written' <= taken + Window
    /\ UNCHANGED <<taken, verdict>>

Take ==
    /\ verdict = "reading"
    /\ taken' > taken /\ taken' <= written
    /\ UNCHANGED <<written, verdict>>

End ==
    /\ verdict = "reading"
    /\ verdict' \in {"done", "error"}
    /\ UNCHANGED <<written, taken>>

Next == Write \/ Take \/ End

Spec == Init /\ [][Next]_<<written, taken, verdict>>

=============================================================================
