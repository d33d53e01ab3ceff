---- MODULE MCBackup ----
(* Model values for TLC.  Backups share only the Pod and the worker; what    *)
(* overlapping ones do to each other is what the properties set aside.       *)
EXTENDS Backup
CONSTANTS b1

(* What the code does not keep, see the README's known divergences: no run  *)
(* checks it, and TLC refutes it when one does.                             *)

(* api/v1alpha1/gameserverbackup_types.go:42 "GameServerBackupFinalizer     *)
(* removes the remote snapshots before the backup object goes away": no     *)
(* snapshot stays behind unless its cleanup Job gave up.                    *)
SnapshotHasOwner ==
  \A b \in Backups : snapshot[b] => bk[b].exists \/ b \in gaveUp
====
