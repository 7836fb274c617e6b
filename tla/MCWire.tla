------------------------------- MODULE MCWire -------------------------------
(* Instances of Wire: what is sent, and by whom.                           *)
EXTENDS Wire

(* A stream's pump (stream.ts): a chunk's head and octets, then its tail;  *)
(* and another caller on the same connection with a frame of its own.      *)
PumpAndCaller ==
  << [by |-> "pump", size |-> 2],
     [by |-> "pump", size |-> NoOctets],
     [by |-> "caller", size |-> NoOctets] >>

(* The gateway's relay (gateway.ts): a segment and the frame after it, as  *)
(* they arrive, and an empty segment.                                      *)
Relayed ==
  << [by |-> "relay", size |-> 1],
     [by |-> "relay", size |-> NoOctets] >>
=============================================================================
