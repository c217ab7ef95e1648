---------------------------- MODULE MCExecutors -----------------------------
(* The finite instances of Executors that TLC checks. *)
EXTENDS Executors

CONSTANTS w1, w2

\* Code that must be given up, and code that may end, panic or be given up.
MixedPrograms == {<<"loops", "splits">>}
Ordinary == {<<"ends">>}

SecondIsBad == {<<w2, 1>>, <<w2, 2>>}
NoneIsBad == {}
=============================================================================
