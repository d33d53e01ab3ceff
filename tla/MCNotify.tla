------------------------------ MODULE MCNotify ------------------------------
(* Small instances of Notify for TLC.                                       *)
EXTENDS Notify, TLC

MCSymmetry == Permutations(Panel) \cup Permutations(Alert) \cup Permutations(Org)
=============================================================================
