---- MODULE MCRestore ----
(* Model values for TLC: two restores are enough for one to meet another.   *)
EXTENDS Restore, TLC
CONSTANTS r1, r2
Symmetry == Permutations(Restores)

(* What the code does not keep, see the README's known divergences: no run  *)
(* checks it, and TLC refutes it when one does.                             *)

(* api/v1alpha1/gameserverrestore_types.go:27 "RestoringAnnotation locks a  *)
(* GameServer during a restore: it cannot start": of restores that follow   *)
(* one another, one that runs and is not being deleted holds the lock.      *)
LocksDuringRestore ==
  ~overlapped => \A r \in Restores :
    (rs[r].phase = "Running" /\ ~rs[r].deleting /\ Writes(job[r])) => gs.restoring
====
