---------------------------- MODULE MCLibraryScan ----------------------------
(* A configuration, and an archive with two members in a directory that is *)
(* scanned twice or, with other settings, alone.                           *)
EXTENDS LibraryScan

CONSTANTS config, archive, slave, data

MCMembers == [f \in Files |-> IF f = archive THEN {slave, data} ELSE {}]
MCScanPaths == {<<{config, archive}, {archive}>>, <<{archive}>>}
MCNeeds == [v \in Variants |-> {<<slave, 1>>, <<data, 1>>}]
=============================================================================
