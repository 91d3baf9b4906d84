--------------------------- MODULE MCServerRounds ----------------------------
(* The instance of ServerRounds that TLC checks.                            *)
EXTENDS ServerRounds

\* Two players of different destinations.
TwoClients == <<1, 2>>
=============================================================================
