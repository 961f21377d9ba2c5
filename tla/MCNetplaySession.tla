-------------------------- MODULE MCNetplaySession --------------------------
(* Instances of NetplaySession for TLC: all launchers begin alike. *)
EXTENDS NetplaySession

MCFirstDocs == {[hash |-> "disk", rest |-> "full"]}
=============================================================================
