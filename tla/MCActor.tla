------------------------------ MODULE MCActor ------------------------------
(* Actor on a small instance; callers of wait() and stop() are interchangeable. *)
EXTENDS Actor, TLC

CallerSymmetry == Permutations(Callers)

=============================================================================
