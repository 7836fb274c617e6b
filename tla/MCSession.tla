----------------------------- MODULE MCSession ------------------------------
(* Values of Session's constants. *)
EXTENDS Session

Stopping == [cleanup : {"stop"}, stops : {"agrees", "refuses", "fails"}]
Outliving == {[cleanup |-> "keep", stops |-> "agrees"]}
AllServes == Stopping \cup Outliving
=============================================================================
