------------------------------ MODULE MCLogin ------------------------------
(* Two requests at a time, which are interchangeable.                      *)
EXTENDS Login, TLC

Symmetry == Permutations(Slots)
=============================================================================
