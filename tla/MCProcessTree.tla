--------------------------- MODULE MCProcessTree ---------------------------
(* ProcessTree on small trees. *)
EXTENDS ProcessTree

AllPolicies == {"adopt", "force-stop", "unparent", "leave"}
NoMonitors == {}
RootMonitors == {<<1, 3>>}

=============================================================================
