---------------------------- MODULE MCMembership ----------------------------
(* Two requests at a time; who is not the first administrator is            *)
(* interchangeable, and so are the requests.                                *)
EXTENDS Membership, TLC

Symmetry == Permutations(People \ {Bootstrap}) \cup Permutations(Slots)

(* What the code does not keep, see the README's known divergences: no run  *)
(* checks it, and TLC refutes it when one does.                             *)

(* ErrLastOwner is returned by any change that would leave an org with no   *)
(* owner (paneldb/orgs.go).                                                 *)
KeepsOwner == Owners # {}
=============================================================================
