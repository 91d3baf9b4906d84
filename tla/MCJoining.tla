------------------------------ MODULE MCJoining ------------------------------
(* The instances of Joining that TLC checks.                                *)
EXTENDS Joining

\* The first may leave; it shares its unique id with the second and its machine
\* with the third, which has no unique id, asks for two players and may be refused.
Three == {1, 2, 3}
TwoOfThird == <<1, 1, 2>>
OneEach == <<1, 1, 1>>
UniqueIds == <<1, 1, NoId>>
Machines == <<1, NoId, 1>>
First == {1}
Third == {3}
=============================================================================
