--------------------------- MODULE MCDestinations ---------------------------
(* Small instances of Destinations for TLC.                                 *)
EXTENDS Destinations, TLC

(* Which bucket or server is which does not matter.                        *)
MCSymmetry == Permutations(Buckets) \cup Permutations(Servers)
=============================================================================
