------------------------------ MODULE MCStream ------------------------------
(* Stream with a source of a few octets. *)
EXTENDS Stream

=============================================================================
