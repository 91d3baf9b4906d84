----------------------------- MODULE MCNetServer -----------------------------
(* The instance of NetServer that TLC checks.                               *)
EXTENDS NetServer

\* The first destination does what a destination can do; the second is there.
First == {1}
OneOfFirst == <<1, 0>>
TwoToFirst == <<2, 0>>
=============================================================================
