------------------------- MODULE MCConnectionTester -------------------------
(***************************************************************************)
(* Two lobbies: one at two addresses, the other, on another port, at one   *)
(* of these.                                                               *)
(***************************************************************************)
EXTENDS ConnectionTester

CONSTANTS home, away, public, local

MCLobbies == {home, away}
MCAddresses == {public, local}
MCListed == [l \in MCLobbies |-> IF l = home THEN <<public, local>> ELSE <<public>>]
=============================================================================
