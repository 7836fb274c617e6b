----------------------------- MODULE Selection -----------------------------
(***************************************************************************)
(* What Array.prototype.filter leaves of a list.  SelectSeq of the standard *)
(* modules says the same; written with the indices that stay, it can be     *)
(* reasoned about without induction over the list.                          *)
(***************************************************************************)
EXTENDS Naturals, FiniteSets, Sequences

\* f goes through the set I of indices in ascending order.
Ascends(f, I) ==
    /\ f \in [1..Cardinality(I) -> I]
    /\ \A i, j \in 1..Cardinality(I) : i < j => f[i] < f[j]

\* The entries of es at the indices I, in their order.
Picked(es, I) ==
    LET at == CHOOSE f \in [1..Cardinality(I) -> I] : Ascends(f, I)
    IN  [i \in 1..Cardinality(I) |-> es[at[i]]]

=============================================================================
