----------------------------- MODULE MCNetwork ------------------------------
(* The finite instances of Network that TLC checks. *)
EXTENDS Network, TLC

CONSTANTS p1, p2, p3

\* No definition singles out an account, so any renaming of them is a symmetry.
AccountSymmetry == Permutations(Participants)
=============================================================================
