---------------------------- MODULE MCGameRelay ----------------------------
(* Values of the constants of GameRelay that a .cfg file cannot express.   *)
EXTENDS GameRelay, TLC

Symmetric == Permutations(Conns)

SameVersions == [c \in Conns |-> 1]

(* The first connection brings an emulator version of its own. *)
CONSTANT Odd
MixedVersions == [c \in Conns |-> IF c = Odd THEN 1 ELSE 2]
=============================================================================
