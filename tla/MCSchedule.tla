---- MODULE MCSchedule ----
(* Three schedules for TLC to choose from and to edit into one another: the *)
(* second one is shorter than the first, so that a run can outlive its      *)
(* tasks.                                                                   *)
EXTENDS Schedule
Task1(action, wait) == [action |-> action, delay |-> wait]
MCSpecs ==
  { [tasks |-> <<Task1("Backup", 0), Task1("Command", 1)>>, suspend |-> FALSE, onlyUp |-> TRUE],
    [tasks |-> <<Task1("Backup", 1)>>, suspend |-> TRUE, onlyUp |-> FALSE],
    [tasks |-> <<Task1("Stop", 0), Task1("Restart", 0), Task1("Start", 1)>>,
     suspend |-> FALSE, onlyUp |-> FALSE] }

(* What the code does not keep, see the README's known divergences: no run  *)
(* checks it, and TLC refutes it when one does.                             *)

(* "a retried Backup task does not create a second backup" (runTask), and   *)
(* "backups it creates carry it so a retried Backup task never creates a    *)
(* second one" of a run's ID (gameserverschedule_types.go): no two backups  *)
(* share a run ID, and one fire time or request leads to one backup.        *)
OneBackupPerRun ==
  \A b, c \in BackupIds :
    Exists(backups[b]) /\ Exists(backups[c]) /\ backups[b].run = backups[c].run => b = c

OneBackupPerTrigger ==
  \A b, c \in BackupIds :
    Exists(backups[b]) /\ Exists(backups[c]) /\ backups[b].why = backups[c].why => b = c
====
