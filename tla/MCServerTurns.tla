---------------------------- MODULE MCServerTurns ----------------------------
(* The instances of ServerTurns that TLC checks.                            *)
EXTENDS ServerTurns

\* Two players and a computer player.
TwoAndComputer == <<1, 2, 0>>

\* A player that owns two tanks, with another one, or with a computer player and
\* a turret.
OneOwnsTwo == <<1, 1, 2>>
TwoOfOneComputerAndTurret == <<1, 1, 0, 0>>
=============================================================================
