---------------------------- MODULE BackupProofs ----------------------------
(* Proofs about Backup for any set of backups, with or without caches that   *)
(* have caught up.                                                           *)
EXTENDS Backup, TLAPS

-----------------------------------------------------------------------------
(* Type correctness.                                                        *)

(* The object of a name not in use is well typed.                           *)
LEMMA AbsentType == Absent \in BackupObjects
BY BoundsAssumption DEF Absent, BackupObjects, Phases, Decided

(* A reconcile that stops leaves an idle worker.                            *)
LEMMA DoneType ==
  Done => pc' = "idle" /\ cur' = NoBackup /\ l' \in BackupObjects /\ target' \in 0..MaxPods
BY AbsentType, BoundsAssumption DEF Done

(* What the worker writes of the copy it works on.                          *)
LEMMA LocalType ==
  ASSUME TypeOK
  PROVE  /\ [l EXCEPT !.finalizer = TRUE] \in BackupObjects
         /\ [l EXCEPT !.sentTo = target] \in BackupObjects
         /\ \A d \in {"True", "False"} : [l EXCEPT !.quiesced = d] \in BackupObjects
         /\ \A p \in Phases : [l EXCEPT !.phase = p] \in BackupObjects
         /\ [l EXCEPT !.attempts = @ + 1] \in BackupObjects
         /\ [l EXCEPT !.resumed = "True"] \in BackupObjects
         /\ [l EXCEPT !.resumed = "False", !.attempts = @ + 1] \in BackupObjects
<1>1. l \in BackupObjects /\ target \in 0..MaxPods /\ l.attempts + 1 \in Nat
  BY DEF TypeOK, BackupObjects
<1>2. [l EXCEPT !.finalizer = TRUE] \in BackupObjects
      /\ [l EXCEPT !.sentTo = target] \in BackupObjects
      /\ \A p \in Phases : [l EXCEPT !.phase = p] \in BackupObjects
  BY <1>1 DEF BackupObjects
<1>3. \A d \in Decided : [l EXCEPT !.quiesced = d] \in BackupObjects
                         /\ [l EXCEPT !.resumed = d] \in BackupObjects
  BY <1>1 DEF BackupObjects
<1>4. [l EXCEPT !.attempts = @ + 1] \in BackupObjects
  BY <1>1 DEF BackupObjects
<1>5. \A d \in Decided : [l EXCEPT !.resumed = d, !.attempts = @ + 1] \in BackupObjects
  BY <1>1 DEF BackupObjects
<1> QED BY <1>2, <1>3, <1>4, <1>5 DEF Decided

(* The phases the worker writes are phases.                                 *)
LEMMA PhasesKnown == {"Running", "Deleting", "Completed", "Failed"} \subseteq Phases
BY DEF Phases, Ended

(* A write touches one backup, and gives it what was written.               *)
LEMMA WriteType ==
  ASSUME TypeOK, cur \in Backups, NEW new \in BackupObjects, Write(new)
  PROVE  /\ bk' \in [Backups -> BackupObjects] /\ l = bk[cur]
         /\ \A b \in Backups : bk'[b] = IF b = cur THEN new ELSE bk[b]
BY DEF TypeOK, Write

(* A deletion leaves a well-typed object.                                   *)
LEMMA DeletedType ==
  ASSUME NEW o \in BackupObjects PROVE Deleted(o) \in BackupObjects
BY AbsentType DEF Deleted, BackupObjects

(* The steps a reconcile may begin or go on with.                           *)
Pcs == {"idle", "adopt", "record", "before", "unsent", "wait", "copy", "started",
        "complete", "fail", "after", "unresumed", "resumed", "skip", "cleanup",
        "pruning", "drop", "expire"}

(* Reconcile goes to a step the worker knows.                               *)
LEMMA StepsType ==
  ASSUME NEW b \in Backups, NEW o
  PROVE  /\ AfterResume(b, o) \subseteq {"drop", "cleanup", "idle", "expire"}
         /\ Steps(b, o) \subseteq {"idle", "adopt", "copy", "record", "wait", "complete",
              "fail", "after", "skip", "drop", "cleanup", "expire"}
<1>1. AfterResume(b, o) \subseteq {"drop", "cleanup", "idle", "expire"}
  BY DEF AfterResume, PruneStep
<1>2. QuiesceStep(o) \in {"copy", "record", "wait"}
  BY DEF QuiesceStep
<1>3. PollStep(jobCache[<<"copy", b>>]) \in {"idle", "complete", "fail"}
  BY DEF PollStep
<1> QED BY <1>1, <1>2, <1>3 DEF Steps, ResumeSteps

(* A write that ends the reconcile keeps the types.                         *)
LEMMA StopType ==
  ASSUME TypeOK, cur \in Backups, NEW new \in BackupObjects,
         WriteAndStop(new) \/ WriteAndRequeue(new), stranded' \in BOOLEAN
  PROVE  TypeOK'
<1> USE DEF backupVars, jobVars, podVars, workerVars, historyVars
<1>1. Write(new) /\ Done /\ queue' \subseteq Backups
  BY DEF WriteAndStop, WriteAndRequeue, Fail, Requeue, TypeOK
<1>2. bk' \in [Backups -> BackupObjects]
  BY <1>1, WriteType
<1> QED BY <1>1, <1>2, DoneType, BackupsAssumption DEF Write, TypeOK

(* A write the reconcile goes on after keeps the types.                     *)
LEMMA GoType ==
  ASSUME TypeOK, cur \in Backups, NEW new \in BackupObjects, NEW next \in {"before", "copy"},
         WriteAndGo(new, next), stranded' \in BOOLEAN
  PROVE  TypeOK'
<1> USE DEF backupVars, jobVars, podVars, workerVars, historyVars
<1>1. bk' \in [Backups -> BackupObjects] /\ l' \in BackupObjects /\ target' \in 0..MaxPods
  BY WriteType, BoundsAssumption DEF WriteAndGo
<1>2. pc' \in Pcs /\ pc' # "idle" /\ cur' = cur /\ cur # NoBackup
  BY BackupsAssumption DEF WriteAndGo, Pcs
<1> QED BY <1>1, <1>2 DEF WriteAndGo, Write, TypeOK, Pcs

(* The end of resume keeps the types.                                       *)
LEMMA EndType ==
  ASSUME TypeOK, cur \in Backups, NEW new \in BackupObjects, EndResume(new),
         stranded' \in BOOLEAN
  PROVE  TypeOK'
<1> USE DEF backupVars, jobVars, podVars, workerVars, historyVars
<1>1. bk' \in [Backups -> BackupObjects] /\ l' \in BackupObjects /\ target' \in 0..MaxPods
  BY WriteType, AbsentType, BoundsAssumption DEF EndResume
<1>2. pc' \in {"drop", "cleanup", "idle", "expire"}
  BY StepsType DEF EndResume
<1>3. cur' \in Backups \cup {NoBackup} /\ (cur' = NoBackup <=> pc' = "idle")
      /\ queue' \subseteq Backups
  BY BackupsAssumption DEF EndResume, TypeOK
<1> QED BY <1>1, <1>2, <1>3 DEF EndResume, Write, TypeOK

(* Sending commands touches nothing but the Pod.                            *)
LEMMA ExecType ==
  ASSUME TypeOK, cur \in Backups, NEW paused \in BOOLEAN,
         NEW next \in {"wait", "unsent", "resumed", "unresumed"}, Exec(paused, next),
         sends' \in [Backups -> Nat], heard' \subseteq Backups, stranded' \in BOOLEAN
  PROVE  TypeOK'
<1> USE DEF backupVars, jobVars, podVars, workerVars, historyVars
<1>1. pod' \in Pods
  BY DEF Exec, TypeOK, Pods
<1> QED BY <1>1, BackupsAssumption DEF Exec, TypeOK

(* Every variable keeps its type, and a worker without a backup is idle.    *)
THEOREM TypeCorrect == Spec => []TypeOK
<1> USE DEF backupVars, jobVars, podVars, workerVars, historyVars
<1>1. Init => TypeOK
  <2> SUFFICES ASSUME Init PROVE TypeOK
    OBVIOUS
  <2>1. bk \in [Backups -> BackupObjects] /\ l \in BackupObjects
        /\ job \in [JobKeys -> Jobs] /\ pod \in Pods
        /\ podCache \in [uid : 0..MaxPods, up : BOOLEAN] /\ target \in 0..MaxPods
    BY AbsentType, BoundsAssumption DEF Init, Jobs, Pods, Seen
  <2> QED BY <2>1 DEF Init, TypeOK
<1>2. TypeOK /\ [Next]_vars => TypeOK'
  <2> SUFFICES ASSUME TypeOK, [Next]_vars PROVE TypeOK'
    OBVIOUS
  <2>0. pc # "idle" => cur \in Backups
    BY DEF TypeOK
  <2>1. ASSUME NEW b \in Backups, BeginReconcile(b) PROVE TypeOK'
    <3>1. pc' \in Pcs
      BY <2>1, StepsType DEF BeginReconcile, Pcs
    <3>2. cur' \in Backups \cup {NoBackup} /\ (cur' = NoBackup <=> pc' = "idle")
      BY <2>1, BackupsAssumption DEF BeginReconcile
    <3>3. l' \in BackupObjects /\ queue' \subseteq Backups /\ target' \in 0..MaxPods
      BY <2>1, AbsentType, BoundsAssumption DEF BeginReconcile, TypeOK
    <3> QED BY <2>1, <3>1, <3>2, <3>3 DEF BeginReconcile, TypeOK, Pcs
  <2>2. CASE Adopt \/ NoVolume \/ MarkRunning \/ MarkDeleting \/ Complete \/ AfterFailed
             \/ DropFinalizer
    <3>1. cur \in Backups /\ stranded' \in BOOLEAN
      BY <2>0, <2>2 DEF Adopt, NoVolume, MarkRunning, MarkDeleting, Complete, AfterFailed,
         DropFinalizer, WriteAndStop, WriteAndRequeue, TypeOK
    <3>2. PICK new \in BackupObjects : WriteAndStop(new) \/ WriteAndRequeue(new)
      BY <2>2, LocalType, PhasesKnown, AbsentType DEF Adopt, NoVolume, MarkRunning,
         MarkDeleting, Complete, AfterFailed, DropFinalizer
    <3> QED BY <3>1, <3>2, StopType
  <2>3. CASE Record \/ BeforeFailed
    <3>1. cur \in Backups /\ stranded' \in BOOLEAN
      BY <2>0, <2>3 DEF Record, BeforeFailed, TypeOK
    <3>2. PICK new \in BackupObjects, next \in {"before", "copy"} : WriteAndGo(new, next)
      BY <2>3, LocalType DEF Record, BeforeFailed
    <3> QED BY <3>1, <3>2, GoType
  <2>4. CASE Wait
    <3>1. cur \in Backups
      BY <2>0, <2>4 DEF Wait
    <3>2. ASSUME NEW d \in {"True", "False"}, WriteAndGo([l EXCEPT !.quiesced = d], "copy"),
                 UNCHANGED stranded
          PROVE  TypeOK'
      <4>1. [l EXCEPT !.quiesced = d] \in BackupObjects /\ stranded' \in BOOLEAN
        BY <3>2, LocalType DEF TypeOK
      <4> QED BY <3>1, <3>2, <4>1, GoType
    <3>3. ASSUME Fail, UNCHANGED <<backupVars, jobVars, podVars, events, historyVars>>
          PROVE  TypeOK'
      BY <3>1, <3>3, DoneType, BackupsAssumption DEF Fail, Requeue, TypeOK
    <3> QED BY <2>4, <3>2, <3>3 DEF Wait
  <2>5. CASE StartCopy \/ StartPrune
    <3>1. cur \in Backups
      BY <2>0, <2>5 DEF StartCopy, StartPrune, CreateJob
    <3>2. job' \in [JobKeys -> Jobs]
      BY <2>5, <3>1 DEF StartCopy, StartPrune, CreateJob, TypeOK, JobKeys, Jobs
    <3> QED BY <2>5, <3>1, <3>2, BackupsAssumption DEF StartCopy, StartPrune, CreateJob,
            TypeOK
  <2>6. CASE SendBefore
    <3>1. cur \in Backups /\ sends' \in [Backups -> Nat]
      BY <2>0, <2>6 DEF SendBefore, TypeOK
    <3>2. heard' \subseteq Backups
      BY <2>6, <3>1 DEF SendBefore, TypeOK
    <3>3. PICK paused \in BOOLEAN, next \in {"wait", "unsent"} : Exec(paused, next)
      BY <2>6 DEF SendBefore, TypeOK, Pods
    <3>4. stranded' \in BOOLEAN
      BY <2>6 DEF SendBefore, TypeOK, Pods
    <3> QED BY <3>1, <3>2, <3>3, <3>4, ExecType
  <2>7. CASE SendAfter
    <3>1. cur \in Backups
      BY <2>0, <2>7 DEF SendAfter
    <3>2. PICK paused \in BOOLEAN, next \in {"resumed", "unresumed"} : Exec(paused, next)
      BY <2>7 DEF SendAfter, TypeOK, Pods
    <3>3. sends' \in [Backups -> Nat] /\ heard' \subseteq Backups /\ stranded' \in BOOLEAN
      BY <2>7 DEF SendAfter, TypeOK
    <3> QED BY <3>1, <3>2, <3>3, ExecType
  <2>8. CASE Resumed \/ GiveUp
    <3>1. cur \in Backups
      BY <2>0, <2>8 DEF Resumed, GiveUp
    <3>2. stranded' \in BOOLEAN
      BY <2>8 DEF Resumed, GiveUp, TypeOK, Pods
    <3>3. PICK new \in BackupObjects : EndResume(new)
      BY <2>8, LocalType DEF Resumed, GiveUp
    <3> QED BY <3>1, <3>2, <3>3, EndType
  <2>9. CASE Expire
    <3>1. bk' \in [Backups -> BackupObjects]
      BY <2>9, <2>0, DeletedType DEF Expire, TypeOK
    <3> QED BY <2>9, <3>1, DoneType, BackupsAssumption DEF Expire, TypeOK
  <2>10. CASE Conflicts \/ CallFails
    <3>1. cur \in Backups
      BY <2>0, <2>10 DEF Conflicts, CallFails
    <3>2. events' \in Nat
      BY <2>10 DEF Conflicts, CallFails, Happens, TypeOK
    <3> QED BY <2>10, <3>1, <3>2, DoneType, BackupsAssumption DEF Conflicts, CallFails,
            Fail, Requeue, TypeOK
  <2>11. CASE OperatorRestarts
    <3>1. events' \in Nat /\ podCache' \in [uid : 0..MaxPods, up : BOOLEAN]
      BY <2>11 DEF OperatorRestarts, Happens, Seen, TypeOK, Pods
    <3> QED BY <2>11, <3>1, DoneType, BackupsAssumption DEF OperatorRestarts, TypeOK
  <2>12. CASE Watches
    <3>1. ASSUME SeePod PROVE TypeOK'
      BY <3>1 DEF SeePod, Seen, TypeOK, Pods
    <3>2. ASSUME NEW b \in Backups, SeeBackup(b) PROVE TypeOK'
      BY <3>2 DEF SeeBackup, TypeOK
    <3>3. ASSUME NEW k \in JobKeys, SeeJob(k) PROVE TypeOK'
      BY <3>3 DEF SeeJob, TypeOK, JobKeys
    <3> QED BY <2>12, <3>1, <3>2, <3>3 DEF Watches
  <2>13. CASE Environment
    <3>1. ASSUME PodStarts \/ PodStops \/ ServerDeleted PROVE TypeOK'
      <4>1. CASE PodStarts
        <5>1. pod.uid + 1 \in 0..MaxPods
          BY <4>1, BoundsAssumption DEF PodStarts, TypeOK, Pods
        <5> QED BY <4>1, <5>1 DEF PodStarts, TypeOK, Pods
      <4>2. CASE PodStops \/ ServerDeleted
        <5>1. [pod EXCEPT !.up = FALSE, !.paused = FALSE] \in Pods
          BY DEF TypeOK, Pods
        <5>2. pod' \in Pods /\ volume' \in BOOLEAN
          BY <4>2, <5>1 DEF PodStops, ServerDeleted, TypeOK
        <5>3. events' \in Nat
          BY <4>2 DEF PodStops, ServerDeleted, Happens, TypeOK
        <5> QED BY <4>2, <5>2, <5>3 DEF PodStops, ServerDeleted, TypeOK
      <4> QED BY <3>1, <4>1, <4>2
    <3>2. ASSUME NEW b \in Backups, CreateBackup(b) PROVE TypeOK'
      <4>1. [Absent EXCEPT !.exists = TRUE] \in BackupObjects
        BY AbsentType DEF BackupObjects
      <4> QED BY <3>2, <4>1 DEF CreateBackup, TypeOK
    <3>3. ASSUME NEW b \in Backups, DeleteBackup(b) PROVE TypeOK'
      <4>1. bk' \in [Backups -> BackupObjects] /\ events' \in Nat
        BY <3>3, DeletedType DEF DeleteBackup, Happens, TypeOK
      <4> QED BY <3>3, <4>1 DEF DeleteBackup, TypeOK
    <3>4. ASSUME NEW k \in JobKeys,
                 JobSucceeds(k) \/ AttemptFails(k) \/ JobGivesUp(k) \/ JobRemoved(k)
          PROVE  TypeOK'
      <4>0. k[2] \in Backups
        BY DEF JobKeys
      <4>1. job' \in [JobKeys -> Jobs]
        <5>1. PICK new \in Jobs : JobStep(k, new)
          BY <3>4 DEF JobSucceeds, AttemptFails, JobGivesUp, JobRemoved, Jobs
        <5> QED BY <5>1 DEF JobStep, TypeOK
      <4>5. events' \in Nat
        <5>1. UNCHANGED events \/ Happens
          BY <3>4 DEF JobSucceeds, AttemptFails, JobGivesUp, JobRemoved
        <5> QED BY <5>1 DEF Happens, TypeOK
      <4>2. snapshot' \in [Backups -> BOOLEAN]
        BY <3>4, <4>0 DEF JobSucceeds, AttemptFails, JobGivesUp, JobRemoved, Stores, TypeOK
      <4>3. gaveUp' \subseteq Backups
        BY <3>4, <4>0 DEF JobSucceeds, AttemptFails, JobGivesUp, JobRemoved, TypeOK
      <4>6. JobSucceeds(k) \/ JobGivesUp(k) => TypeOK'
        BY <4>1, <4>2, <4>3, <4>5 DEF JobSucceeds, JobGivesUp, JobStep, TypeOK
      <4>7. AttemptFails(k) \/ JobRemoved(k) => TypeOK'
        BY <4>1, <4>2, <4>3, <4>5 DEF AttemptFails, JobRemoved, JobStep, TypeOK
      <4> QED BY <3>4, <4>6, <4>7
    <3> QED BY <2>13, <3>1, <3>2, <3>3, <3>4 DEF Environment
  <2>14. CASE UNCHANGED vars
    BY <2>14 DEF vars, TypeOK
  <2> QED
    BY <2>1, <2>2, <2>3, <2>4, <2>5, <2>6, <2>7, <2>8, <2>9, <2>10, <2>11, <2>12,
       <2>13, <2>14 DEF Next, Worker
<1> QED BY <1>1, <1>2, PTL DEF Spec

-----------------------------------------------------------------------------
(* Before is sent once.                                                     *)

(* A name is used once; a backup that has not chosen a Pod has sent nothing. *)
SentKnown ==
  \A b \in Backups :
    /\ sends[b] <= 1
    /\ b \notin used => ~bk[b].exists /\ sends[b] = 0
    /\ bk[b].exists /\ bk[b].sentTo = 0 => sends[b] = 0

(* The Pods that exist and are seen have a number.                          *)
PodsKnown == (pod.up => pod.uid # 0) /\ (podCache.up => podCache.uid # 0)

(* A worker that is about to choose a Pod has one to choose for a backup    *)
(* that has none, and one about to send has recorded it and sent nothing.   *)
WorkerKnown ==
  /\ pc = "record" => target # 0 /\ l.exists /\ l.sentTo = 0
  /\ pc = "before" => /\ cur \in used /\ sends[cur] = 0
                      /\ bk[cur].exists => bk[cur].sentTo # 0

SendInv == SentKnown /\ PodsKnown /\ WorkerKnown

(* PodsKnown is kept: Pods are numbered from 1.                             *)
LEMMA PodsKnownStep == TypeOK /\ PodsKnown /\ [Next]_vars => PodsKnown'
<1> USE DEF backupVars, jobVars, podVars, workerVars, historyVars
<1> SUFFICES ASSUME TypeOK, PodsKnown, [Next]_vars PROVE PodsKnown'
  OBVIOUS
<1>1. CASE UNCHANGED <<pod, podCache>>
  BY <1>1 DEF PodsKnown
<1>2. CASE SeePod \/ OperatorRestarts
  BY <1>2 DEF SeePod, OperatorRestarts, Seen, PodsKnown
<1>3. CASE PodStarts
  BY <1>3 DEF PodStarts, PodsKnown, TypeOK, Pods
<1>4. CASE PodStops \/ ServerDeleted
  BY <1>4 DEF PodStops, ServerDeleted, PodsKnown, TypeOK, Pods
<1>5. ASSUME NEW paused, NEW next, Exec(paused, next) PROVE PodsKnown'
  BY <1>5 DEF Exec, PodsKnown, TypeOK, Pods
<1>6. SendBefore \/ SendAfter => \E paused, next : Exec(paused, next)
  BY DEF SendBefore, SendAfter
<1>7. \/ UNCHANGED <<pod, podCache>> \/ SeePod \/ OperatorRestarts \/ PodStarts
      \/ PodStops \/ ServerDeleted \/ SendBefore \/ SendAfter
  BY DEF Next, Worker, BeginReconcile, Adopt, Record, BeforeFailed, Wait, StartCopy,
     StartPrune, CreateJob, NoVolume, MarkRunning, MarkDeleting, Complete, AfterFailed,
     Resumed, GiveUp, EndResume, DropFinalizer, Expire, Conflicts, CallFails, WriteAndStop,
     WriteAndRequeue, WriteAndGo, Write, Watches, SeeBackup, SeeJob, Environment,
     CreateBackup, DeleteBackup, JobSucceeds, AttemptFails, JobGivesUp, JobRemoved,
     JobStep, vars
<1> QED BY <1>1, <1>2, <1>3, <1>4, <1>5, <1>6, <1>7

(* An Update that keeps what SentKnown speaks of keeps SentKnown.           *)
LEMMA WriteKeepsSent ==
  ASSUME TypeOK, SentKnown, cur \in Backups, NEW new \in BackupObjects, Write(new),
         new.exists => l.exists, new.exists /\ new.sentTo = 0 => l.sentTo = 0,
         UNCHANGED <<used, sends>>
  PROVE  SentKnown'
<1>1. \A b \in Backups : bk'[b] = IF b = cur THEN new ELSE bk[b]
  BY WriteType
<1>2. l = bk[cur]
  BY WriteType
<1> QED BY <1>1, <1>2 DEF SentKnown

(* quiesce records a Pod only for a backup that has none, and only a Pod    *)
(* that runs.                                                               *)
LEMMA RecordStep ==
  ASSUME NEW b \in Backups, NEW o, "record" \in Steps(b, o)
  PROVE  o.exists /\ o.sentTo = 0 /\ podCache.up
<1>1. "record" \notin ResumeSteps(b, o) /\ "record" # PollStep(jobCache[<<"copy", b>>])
  BY StepsType DEF ResumeSteps, PollStep
<1>2. o.exists /\ "record" = QuiesceStep(o)
  BY <1>1 DEF Steps
<1> QED BY <1>2 DEF QuiesceStep

(* The copies a reconcile writes back keep existence and Pod, but Record's. *)
LEMMA LocalKeeps ==
  ASSUME TypeOK
  PROVE  /\ \A f \in BOOLEAN : LET n == [l EXCEPT !.finalizer = f] IN
              n.exists = l.exists /\ n.sentTo = l.sentTo
         /\ \A d \in Decided : LET n == [l EXCEPT !.quiesced = d] IN
              n.exists = l.exists /\ n.sentTo = l.sentTo
         /\ \A p \in Phases : LET n == [l EXCEPT !.phase = p] IN
              n.exists = l.exists /\ n.sentTo = l.sentTo
         /\ LET n == [l EXCEPT !.attempts = @ + 1] IN
              n.exists = l.exists /\ n.sentTo = l.sentTo
         /\ LET n == [l EXCEPT !.resumed = "True"] IN
              n.exists = l.exists /\ n.sentTo = l.sentTo
         /\ LET n == [l EXCEPT !.resumed = "False", !.attempts = @ + 1] IN
              n.exists = l.exists /\ n.sentTo = l.sentTo
BY DEF TypeOK, BackupObjects

(* SendInv is inductive, given the types.                                   *)
LEMMA SendInvHolds == Spec => []SendInv
<1> USE DEF backupVars, jobVars, podVars, workerVars, historyVars
<1>1. Init => SendInv
  <2> SUFFICES ASSUME Init PROVE SendInv
    OBVIOUS
  <2>1. SentKnown
    <3>1. \A b \in Backups : bk[b] = Absent /\ sends[b] = 0
      BY DEF Init
    <3>2. ~Absent.exists
      BY DEF Absent
    <3> QED BY <3>1, <3>2 DEF SentKnown
  <2>2. PodsKnown /\ WorkerKnown
    BY DEF Init, PodsKnown, WorkerKnown, Seen
  <2> QED BY <2>1, <2>2 DEF SendInv
<1>2. TypeOK /\ TypeOK' /\ SendInv /\ [Next]_vars => SendInv'
  <2> SUFFICES ASSUME TypeOK, TypeOK', SendInv, [Next]_vars PROVE SentKnown' /\ WorkerKnown'
    BY PodsKnownStep DEF SendInv
  <2>0. SentKnown /\ PodsKnown /\ WorkerKnown /\ (pc # "idle" => cur \in Backups)
    BY DEF SendInv, TypeOK
  <2>a. ASSUME UNCHANGED <<bk, used, sends>> PROVE SentKnown'
    BY <2>0, <2>a DEF SentKnown
  <2>b. ASSUME pc' \notin {"record", "before"} PROVE WorkerKnown'
    BY <2>b DEF WorkerKnown
  <2>1. ASSUME NEW b \in Backups, BeginReconcile(b) PROVE SentKnown' /\ WorkerKnown'
    <3>1. pc' # "before"
      BY <2>1, StepsType DEF BeginReconcile
    <3>2. CASE pc' = "record"
      <4>1. "record" \in Steps(b, bkCache[b])
        BY <2>1, <3>2 DEF BeginReconcile
      <4>2. bkCache[b].exists /\ bkCache[b].sentTo = 0 /\ podCache.up
        BY <4>1, RecordStep
      <4>3. l' = bkCache[b] /\ target' = podCache.uid /\ UNCHANGED <<bk, used, sends>>
        BY <2>1, <3>2 DEF BeginReconcile
      <4> QED BY <2>0, <2>a, <3>2, <4>2, <4>3 DEF WorkerKnown, PodsKnown
    <3> QED BY <2>a, <2>b, <2>1, <3>1, <3>2 DEF BeginReconcile
  <2>2. CASE Adopt \/ NoVolume \/ MarkRunning \/ MarkDeleting \/ Complete \/ AfterFailed
             \/ DropFinalizer
    <3>1. cur \in Backups
      BY <2>0, <2>2 DEF Adopt, NoVolume, MarkRunning, MarkDeleting, Complete, AfterFailed,
         DropFinalizer
    <3>2. ASSUME NEW new \in BackupObjects, WriteAndStop(new) \/ WriteAndRequeue(new),
                 new.exists => l.exists, new.exists /\ new.sentTo = 0 => l.sentTo = 0
          PROVE  SentKnown' /\ WorkerKnown'
      <4>1. Write(new) /\ pc' = "idle" /\ UNCHANGED <<used, sends>>
        BY <3>2 DEF WriteAndStop, WriteAndRequeue, Fail, Done, Write
      <4> QED BY <2>0, <2>b, <3>1, <3>2, <4>1, WriteKeepsSent
    <3>3. ASSUME NEW p \in {"Running", "Deleting", "Completed", "Failed"},
                 LET n == [l EXCEPT !.phase = p] IN WriteAndStop(n) \/ WriteAndRequeue(n)
          PROVE  SentKnown' /\ WorkerKnown'
      BY <3>2, <3>3, LocalType, LocalKeeps, PhasesKnown
    <3>4. CASE Adopt
      BY <3>2, <3>4, LocalType, LocalKeeps DEF Adopt
    <3>5. CASE NoVolume \/ MarkRunning \/ MarkDeleting \/ Complete
      BY <3>3, <3>5 DEF NoVolume, MarkRunning, MarkDeleting, Complete
    <3>6. CASE AfterFailed
      BY <3>2, <3>6, LocalType, LocalKeeps DEF AfterFailed
    <3>7. CASE DropFinalizer
      <4>1. ~Absent.exists
        BY DEF Absent
      <4> QED BY <3>2, <3>7, <4>1, AbsentType DEF DropFinalizer
    <3> QED BY <2>2, <3>4, <3>5, <3>6, <3>7
  <2>3. CASE Record
    <3> DEFINE new == [l EXCEPT !.sentTo = target]
    <3>1. new \in BackupObjects /\ new.exists /\ l.exists /\ new.sentTo = target
          /\ target # 0 /\ l.sentTo = 0 /\ cur \in Backups
      BY <2>0, <2>3, LocalType DEF Record, WorkerKnown, TypeOK, BackupObjects
    <3>2. Write(new) /\ pc' = "before" /\ cur' = cur /\ UNCHANGED <<used, sends>>
      BY <2>3 DEF Record, WriteAndGo, Write
    <3>3. SentKnown'
      BY <2>0, <3>1, <3>2, WriteKeepsSent
    <3>4. l = bk[cur] /\ bk'[cur] = new
      BY <3>1, <3>2, WriteType
    <3>5. cur \in used /\ sends[cur] = 0
      BY <2>0, <3>1, <3>4 DEF SentKnown
    <3> QED BY <3>1, <3>2, <3>3, <3>4, <3>5 DEF WorkerKnown
  <2>4. CASE SendBefore
    <3>1. cur \in Backups /\ cur \in used /\ sends[cur] = 0
          /\ (bk[cur].exists => bk[cur].sentTo # 0)
      BY <2>0, <2>4 DEF SendBefore, WorkerKnown
    <3>2. bk' = bk /\ used' = used /\ sends' = [sends EXCEPT ![cur] = @ + 1]
          /\ pc' \in {"wait", "unsent"}
      BY <2>4 DEF SendBefore, Exec
    <3>3. sends'[cur] = 1 /\ \A b \in Backups : b # cur => sends'[b] = sends[b]
      BY <3>1, <3>2 DEF TypeOK
    <3> QED BY <2>0, <2>b, <3>1, <3>2, <3>3 DEF SentKnown
  <2>5. CASE BeforeFailed \/ Wait
    <3>1. CASE UNCHANGED <<bk, used, sends>> /\ pc' = "idle"
      BY <2>a, <2>b, <3>1
    <3>2. CASE \E d \in {"True", "False"} :
                 WriteAndGo([l EXCEPT !.quiesced = d], "copy")
      <4>1. PICK d \in {"True", "False"} : WriteAndGo([l EXCEPT !.quiesced = d], "copy")
        BY <3>2
      <4>2. [l EXCEPT !.quiesced = d] \in BackupObjects
        BY LocalType
      <4>3. [l EXCEPT !.quiesced = d].exists = l.exists
            /\ [l EXCEPT !.quiesced = d].sentTo = l.sentTo
        BY LocalKeeps DEF Decided
      <4>4. Write([l EXCEPT !.quiesced = d]) /\ pc' = "copy" /\ UNCHANGED <<used, sends>>
        BY <4>1 DEF WriteAndGo, Write
      <4>5. cur \in Backups
        BY <2>0, <2>5 DEF BeforeFailed, Wait
      <4> QED BY <2>0, <2>b, <4>2, <4>3, <4>4, <4>5, WriteKeepsSent
    <3> QED BY <2>5, <3>1, <3>2 DEF BeforeFailed, Wait, Fail, Done
  <2>6. CASE Resumed \/ GiveUp
    <3>1. PICK new \in BackupObjects :
            EndResume(new) /\ new.exists = l.exists /\ new.sentTo = l.sentTo
      BY <2>6, LocalType, LocalKeeps DEF Resumed, GiveUp
    <3>2. cur \in Backups
      BY <2>0, <2>6 DEF Resumed, GiveUp
    <3>3. Write(new) /\ pc' \notin {"record", "before"} /\ UNCHANGED <<used, sends>>
      BY <3>1, <3>2, StepsType DEF EndResume, Write
    <3> QED BY <2>0, <2>b, <3>1, <3>2, <3>3, WriteKeepsSent
  <2>7. CASE StartCopy \/ StartPrune \/ SendAfter \/ Conflicts \/ CallFails
             \/ OperatorRestarts
    <3>1. UNCHANGED <<bk, used, sends>> /\ pc' \notin {"record", "before"}
      BY <2>7 DEF StartCopy, StartPrune, CreateJob, SendAfter, Exec, Conflicts, CallFails,
         OperatorRestarts, Fail, Done
    <3> QED BY <2>a, <2>b, <3>1
  <2>8. ASSUME NEW b \in Backups, bk' = [bk EXCEPT ![b] = Deleted(@)],
               UNCHANGED <<used, sends>>
        PROVE  /\ SentKnown'
               /\ UNCHANGED <<pc, cur, l, target>> => WorkerKnown'
    <3>1. \A a \in Backups :
            /\ bk'[a].exists => bk[a].exists
            /\ bk'[a].exists => bk'[a].sentTo = bk[a].sentTo
      <4>1. ~Absent.exists /\ [bk[b] EXCEPT !.deleting = TRUE].exists = bk[b].exists
            /\ [bk[b] EXCEPT !.deleting = TRUE].sentTo = bk[b].sentTo
        BY DEF Absent, TypeOK, BackupObjects
      <4>2. \A a \in Backups : bk'[a] = IF a = b THEN Deleted(bk[b]) ELSE bk[a]
        BY <2>8 DEF TypeOK
      <4> QED BY <4>1, <4>2 DEF Deleted
    <3> QED BY <2>0, <2>8, <3>1 DEF SentKnown, WorkerKnown
  <2>9. CASE Expire
    BY <2>0, <2>9, <2>8, <2>b DEF Expire, Done
  <2>10. ASSUME NEW b \in Backups, CreateBackup(b) PROVE SentKnown' /\ WorkerKnown'
    <3>1. \A a \in Backups : bk'[a] = IF a = b THEN [Absent EXCEPT !.exists = TRUE]
                                       ELSE bk[a]
      BY <2>10 DEF CreateBackup, TypeOK
    <3>2. b \notin used /\ sends[b] = 0 /\ used' = used \cup {b} /\ sends' = sends
          /\ UNCHANGED <<pc, cur, l, target>>
      BY <2>0, <2>10 DEF CreateBackup, SentKnown
    <3>3. SentKnown'
      BY <2>0, <3>1, <3>2 DEF SentKnown
    <3>4. WorkerKnown'
      BY <2>0, <3>1, <3>2 DEF WorkerKnown
    <3> QED BY <3>3, <3>4
  <2>11. ASSUME NEW b \in Backups, DeleteBackup(b) PROVE SentKnown' /\ WorkerKnown'
    BY <2>8, <2>11 DEF DeleteBackup
  <2>12. CASE UNCHANGED <<bk, used, sends, pc, cur, l, target>>
    BY <2>0, <2>a, <2>12 DEF WorkerKnown
  <2>13. Watches \/ PodStarts \/ PodStops \/ ServerDeleted
           => UNCHANGED <<bk, used, sends, pc, cur, l, target>>
    BY DEF Watches, SeePod, SeeBackup, SeeJob, PodStarts, PodStops, ServerDeleted
  <2>14. ASSUME NEW k \in JobKeys,
                JobSucceeds(k) \/ AttemptFails(k) \/ JobGivesUp(k) \/ JobRemoved(k)
         PROVE  UNCHANGED <<bk, used, sends, pc, cur, l, target>>
    BY <2>14 DEF JobSucceeds, AttemptFails, JobGivesUp, JobRemoved, JobStep
  <2>15. CASE UNCHANGED vars
    BY <2>12, <2>15 DEF vars
  <2> QED
    BY <2>1, <2>2, <2>3, <2>4, <2>5, <2>6, <2>7, <2>9, <2>10, <2>11, <2>12, <2>13,
       <2>14, <2>15 DEF Next, Worker, Environment
<1> QED BY <1>1, <1>2, TypeCorrect, PTL DEF Spec

(* BeforeOnce: whatever fails, conflicts or is read late, no backup sends   *)
(* its Before commands twice.                                               *)
THEOREM SentOnce == Spec => []BeforeOnce
<1>1. SendInv => BeforeOnce
  BY DEF SendInv, SentKnown, BeforeOnce
<1> QED BY <1>1, SendInvHolds, PTL

-----------------------------------------------------------------------------
(* The backups and the copy of one the worker goes by.                      *)

(* A name is used once; a backup goes through its phases with the finalizer *)
(* on; only one being deleted is pruned; nobody is to get After who was not *)
(* sent Before; and a deletion once seen is never taken back.               *)
Consistent(b) ==
  /\ bk[b].exists \/ bkCache[b].exists => b \in used
  /\ ~bk[b].exists => bk[b] = Absent
  /\ bk[b].phase # "" \/ bk[b].deleting \/ bk[b].sentTo # 0 => bk[b].finalizer
  /\ bk[b].phase = "Deleting" => bk[b].deleting
  /\ bk[b].sentTo = 0 => bk[b].resumed = ""
  /\ bkCache[b].deleting => bkCache[b].exists /\ (~bk[b].exists \/ bk[b].deleting)

Objects == \A b \in Backups : Consistent(b)

Quiescing == {"record", "before", "unsent", "wait", "copy", "started"}
Resuming == {"after", "unresumed", "resumed", "skip"}

(* What a reconcile's step says of the copy it was chosen for.              *)
Fits(step, o) ==
  /\ o.exists
  /\ IF step = "adopt" THEN ~o.finalizer ELSE o.finalizer
  /\ step \in {"adopt", "complete", "fail", "expire"} \cup Quiescing => ~o.deleting
  /\ step \in Quiescing => o.phase = ""
  /\ step \in {"complete", "fail"} => o.phase = "Running"
  /\ step \in Resuming => OwesResume(o) /\ (o.deleting \/ o.phase \notin {"", "Running"})
  /\ step \in {"cleanup", "pruning", "drop", "expire"} => ~OwesResume(o)
  /\ step \in {"cleanup", "pruning", "drop"} => o.deleting
  /\ step \in {"cleanup", "pruning"} => o.phase \in {"Completed", "Deleting"}

(* The worker's copy is one its step is for; as long as it is what the API  *)
(* server holds, the cache tells of no later phase.                         *)
Copy ==
  pc # "idle" =>
    /\ cur \in used /\ Fits(pc, l)
    /\ l.deleting => ~bk[cur].exists \/ bk[cur].deleting
    /\ pc \in {"adopt", "complete", "fail"} \cup Quiescing /\ l = bk[cur]
         => bkCache[cur].phase = l.phase /\ bkCache[cur].finalizer = l.finalizer
    /\ pc = "expire" /\ bkCache[cur].deleting => cur \in queue

(* After the resume: pruning, retention, or nothing.                        *)
LEMMA AfterFits ==
  ASSUME NEW b \in Backups, NEW o \in BackupObjects, o.exists, o.finalizer, ~OwesResume(o),
         NEW step \in AfterResume(b, o), step # "idle"
  PROVE  Fits(step, o) /\ step \in {"cleanup", "drop", "expire"}
BY DEF AfterResume, PruneStep, Fits, Quiescing, Resuming

(* A reconcile begins with a step that fits what it has read.               *)
LEMMA BeginFits ==
  ASSUME NEW b \in Backups, NEW o \in BackupObjects, NEW step \in Steps(b, o), step # "idle"
  PROVE  Fits(step, o)
<1>1. o.exists /\ (o.deleting => o.finalizer)
  BY DEF Steps
<1>2. CASE o.deleting \/ (o.finalizer /\ o.phase \notin {"", "Running"})
  <2>1. step \in ResumeSteps(b, o) /\ o.finalizer
    BY <1>1, <1>2 DEF Steps
  <2>2. CASE OwesResume(o)
    BY <1>1, <1>2, <2>1, <2>2 DEF ResumeSteps, Fits, Quiescing, Resuming
  <2>3. CASE ~OwesResume(o)
    BY <1>1, <2>1, <2>3, AfterFits DEF ResumeSteps
  <2> QED BY <2>2, <2>3
<1>3. CASE ~o.deleting /\ ~o.finalizer
  BY <1>1, <1>3 DEF Steps, Fits, Quiescing, Resuming
<1>4. CASE ~o.deleting /\ o.finalizer /\ o.phase = ""
  <2>1. step = QuiesceStep(o)
    BY <1>1, <1>4 DEF Steps
  <2> QED BY <1>1, <1>4, <2>1 DEF QuiesceStep, Fits, Quiescing, Resuming
<1>5. CASE ~o.deleting /\ o.finalizer /\ o.phase = "Running"
  <2>1. step = PollStep(jobCache[<<"copy", b>>])
    BY <1>1, <1>5 DEF Steps
  <2>2. step \in {"complete", "fail"}
    BY <2>1 DEF PollStep
  <2> QED BY <1>1, <1>5, <2>2 DEF Fits, Quiescing, Resuming
<1> QED BY <1>1, <1>2, <1>3, <1>4, <1>5

(* The worker writes one backup, from the copy the API server holds.        *)
Wrote(new) ==
  /\ pc # "idle" /\ cur \in Backups /\ l = bk[cur] /\ l \in BackupObjects
  /\ bk' \in [Backups -> BackupObjects]
  /\ \A b \in Backups : bk'[b] = IF b = cur THEN new ELSE bk[b]
  /\ UNCHANGED <<bkCache, job, jobCache, snapshot, pod, podCache, volume, used, sends,
                 heard, overlapped, gaveUp>>

(* Every write is one of these.                                             *)
LEMMA Writing ==
  ASSUME TypeOK
  PROVE  /\ Adopt => Wrote([l EXCEPT !.finalizer = TRUE])
         /\ Record => Wrote([l EXCEPT !.sentTo = target])
         /\ BeforeFailed => Wrote([l EXCEPT !.quiesced = "False"])
         /\ NoVolume => Wrote([l EXCEPT !.phase = "Failed"])
         /\ MarkRunning => Wrote([l EXCEPT !.phase = "Running"])
         /\ MarkDeleting => Wrote([l EXCEPT !.phase = "Deleting"])
         /\ Complete => \E f \in Ended : Wrote([l EXCEPT !.phase = f])
         /\ AfterFailed => Wrote([l EXCEPT !.attempts = @ + 1])
         /\ Resumed => Wrote([l EXCEPT !.resumed = "True"])
         /\ GiveUp => Wrote([l EXCEPT !.resumed = "False", !.attempts = @ + 1])
         /\ DropFinalizer => Wrote(Absent)
         /\ Wait => \/ pc' = "idle" /\ queue' = queue \cup {cur} /\ UNCHANGED bk
                    \/ \E d \in {"True", "False"} : Wrote([l EXCEPT !.quiesced = d])
<1> USE DEF jobVars, podVars
<1>1. ASSUME NEW new \in BackupObjects, Write(new), pc # "idle" PROVE Wrote(new)
  <2>1. cur \in Backups /\ l \in BackupObjects
    BY <1>1 DEF TypeOK
  <2> QED BY <1>1, <2>1, WriteType DEF Write, Wrote
<1>2. "Running" \in Phases /\ "Deleting" \in Phases /\ Ended \subseteq Phases
  BY PhasesKnown DEF Ended
<1>3. Wait => \/ pc' = "idle" /\ queue' = queue \cup {cur} /\ UNCHANGED bk
              \/ \E d \in {"True", "False"} : Wrote([l EXCEPT !.quiesced = d])
  BY <1>1, LocalType DEF Wait, WriteAndGo, Fail, Requeue, Done, backupVars
<1>4. (Record => Wrote([l EXCEPT !.sentTo = target]))
      /\ (BeforeFailed => Wrote([l EXCEPT !.quiesced = "False"]))
  BY <1>1, LocalType DEF Record, BeforeFailed, WriteAndGo
<1>5. /\ Adopt => Wrote([l EXCEPT !.finalizer = TRUE])
      /\ AfterFailed => Wrote([l EXCEPT !.attempts = @ + 1])
      /\ DropFinalizer => Wrote(Absent)
  BY <1>1, LocalType, AbsentType DEF Adopt, AfterFailed, DropFinalizer, WriteAndStop,
     WriteAndRequeue
<1>6. /\ NoVolume => Wrote([l EXCEPT !.phase = "Failed"])
      /\ MarkRunning => Wrote([l EXCEPT !.phase = "Running"])
      /\ MarkDeleting => Wrote([l EXCEPT !.phase = "Deleting"])
      /\ Complete => \E f \in Ended : Wrote([l EXCEPT !.phase = f])
  BY <1>1, <1>2, LocalType DEF NoVolume, MarkRunning, MarkDeleting, Complete, WriteAndStop,
     WriteAndRequeue, Ended
<1>7. /\ Resumed => Wrote([l EXCEPT !.resumed = "True"])
      /\ GiveUp => Wrote([l EXCEPT !.resumed = "False", !.attempts = @ + 1])
  BY <1>1, LocalType DEF Resumed, GiveUp, EndResume
<1> QED BY <1>3, <1>4, <1>5, <1>6, <1>7

WorkerWrites ==
  \/ Adopt \/ Record \/ BeforeFailed \/ NoVolume \/ MarkRunning \/ MarkDeleting
  \/ Complete \/ AfterFailed \/ Resumed \/ GiveUp \/ DropFinalizer
  \/ Wait /\ ~UNCHANGED bk

(* What is left of the steps: a deletion (Expire is the operator's own), a  *)
(* creation, a cache catching up, or none of the backups touched.           *)
Deletes(b) ==
  /\ b \in Backups
  /\ bk' \in [Backups -> BackupObjects]
  /\ \A a \in Backups : bk'[a] = IF a = b THEN Deleted(bk[b]) ELSE bk[a]
  /\ UNCHANGED <<bkCache, job, jobCache, snapshot, pod, podCache, volume, used, sends,
                 heard, overlapped, stranded, gaveUp>>

LEMMA Deleting ==
  ASSUME TypeOK
  PROVE  /\ \A b \in Backups : DeleteBackup(b) => Deletes(b) /\ bk[b].exists /\ ~bk[b].deleting
         /\ Expire => Deletes(cur)
<1>1. ASSUME NEW b \in Backups, bk' = [bk EXCEPT ![b] = Deleted(@)]
      PROVE  /\ bk' \in [Backups -> BackupObjects]
             /\ \A a \in Backups : bk'[a] = IF a = b THEN Deleted(bk[b]) ELSE bk[a]
  BY <1>1, DeletedType DEF TypeOK
<1>2. Expire => cur \in Backups
  BY DEF Expire, TypeOK
<1> QED BY <1>1, <1>2 DEF DeleteBackup, Expire, Deletes, jobVars, podVars, historyVars

LEMMA StepsOnBackups ==
  ASSUME TypeOK, [Next]_vars
  PROVE  \/ UNCHANGED <<bk, bkCache, used>>
         \/ WorkerWrites \/ Expire \/ OperatorRestarts
         \/ \E b \in Backups : SeeBackup(b) \/ CreateBackup(b) \/ DeleteBackup(b)
<1> USE DEF backupVars, historyVars
<1>1. Wait /\ UNCHANGED bk => UNCHANGED <<bk, bkCache, used>>
  BY DEF Wait, WriteAndGo, Write
<1>2. \/ SendBefore \/ StartCopy \/ SendAfter \/ StartPrune \/ Conflicts \/ CallFails
      \/ (\E b \in Backups : BeginReconcile(b)) \/ SeePod \/ (\E k \in JobKeys : SeeJob(k))
      \/ PodStarts \/ PodStops \/ ServerDeleted \/ UNCHANGED vars
      \/ (\E k \in JobKeys : JobSucceeds(k) \/ AttemptFails(k) \/ JobGivesUp(k) \/ JobRemoved(k))
      => UNCHANGED <<bk, bkCache, used>>
  BY DEF SendBefore, Exec, StartCopy, SendAfter, StartPrune, CreateJob, Conflicts, CallFails,
     BeginReconcile, SeePod, SeeJob, PodStarts, PodStops, ServerDeleted, JobSucceeds,
     AttemptFails, JobGivesUp, JobRemoved, JobStep, vars
<1> QED BY <1>1, <1>2 DEF Next, Worker, Watches, Environment, WorkerWrites

(* What a write leaves: the backup gone, or there, adopted, and as much     *)
(* being deleted as it was.                                                 *)
Tidy(new) ==
  new = Absent
    \/ /\ new.exists /\ new.finalizer /\ new.deleting = l.deleting
       /\ new.phase = "Deleting" => new.deleting
       /\ new.sentTo = 0 => new.resumed = ""

LEMMA WritesTidy ==
  ASSUME TypeOK, SendInv, Objects, Copy, WorkerWrites
  PROVE  \E new : Wrote(new) /\ Tidy(new)
<1>1. pc # "idle"
  BY DEF WorkerWrites, Adopt, Record, BeforeFailed, NoVolume, MarkRunning, MarkDeleting,
     Complete, AfterFailed, Resumed, GiveUp, DropFinalizer, Wait
<1>2. /\ l.exists /\ l \in BackupObjects /\ (pc # "adopt" => l.finalizer)
      /\ pc \in Resuming => OwesResume(l)
      /\ pc = "pruning" => l.deleting
      /\ pc = "record" => l.phase = ""
  BY <1>1 DEF Copy, Fits, Quiescing, TypeOK
<1>3. l = bk[cur] /\ cur \in Backups =>
        /\ l.phase = "Deleting" => l.deleting
        /\ l.sentTo = 0 => l.resumed = ""
  BY DEF Objects, Consistent
<1>4. CASE Adopt
  <2> DEFINE n == [l EXCEPT !.finalizer = TRUE]
  <2>1. Wrote(n)
    BY <1>4, Writing
  <2>2. Tidy(n)
    BY <1>2, <1>3, <2>1 DEF Wrote, Tidy, BackupObjects
  <2> QED BY <2>1, <2>2
<1>5. CASE Record
  <2> DEFINE n == [l EXCEPT !.sentTo = target]
  <2>1. Wrote(n) /\ pc = "record" /\ l.sentTo = 0
    BY <1>5, Writing DEF Record, SendInv, WorkerKnown
  <2>2. Tidy(n)
    BY <1>2, <1>3, <2>1 DEF Wrote, Tidy, BackupObjects
  <2> QED BY <2>1, <2>2
<1>6. CASE BeforeFailed \/ (Wait /\ ~UNCHANGED bk)
  <2>1. PICK d \in {"True", "False"} : Wrote([l EXCEPT !.quiesced = d])
    BY <1>6, Writing
  <2> DEFINE n == [l EXCEPT !.quiesced = d]
  <2>2. pc # "adopt"
    BY <1>6 DEF BeforeFailed, Wait
  <2>3. Tidy(n)
    BY <1>2, <1>3, <2>1, <2>2 DEF Wrote, Tidy, BackupObjects
  <2> QED BY <2>1, <2>3
<1>7. CASE NoVolume \/ MarkRunning \/ Complete
  <2>1. PICK f \in {"Running"} \cup Ended : Wrote([l EXCEPT !.phase = f])
    BY <1>7, Writing DEF Ended
  <2> DEFINE n == [l EXCEPT !.phase = f]
  <2>2. pc # "adopt"
    BY <1>7 DEF NoVolume, MarkRunning, Complete
  <2>3. Tidy(n)
    BY <1>2, <1>3, <2>1, <2>2 DEF Wrote, Tidy, BackupObjects, Ended
  <2> QED BY <2>1, <2>3
<1>8. CASE MarkDeleting
  <2> DEFINE n == [l EXCEPT !.phase = "Deleting"]
  <2>1. Wrote(n) /\ pc = "pruning"
    BY <1>8, Writing DEF MarkDeleting
  <2>2. Tidy(n)
    BY <1>2, <1>3, <2>1 DEF Wrote, Tidy, BackupObjects
  <2> QED BY <2>1, <2>2
<1>9. CASE AfterFailed
  <2> DEFINE n == [l EXCEPT !.attempts = @ + 1]
  <2>1. Wrote(n) /\ pc = "unresumed"
    BY <1>9, Writing DEF AfterFailed
  <2>2. Tidy(n)
    BY <1>2, <1>3, <2>1 DEF Wrote, Tidy, BackupObjects
  <2> QED BY <2>1, <2>2
<1>10. CASE Resumed \/ GiveUp
  <2>1. PICK n \in {[l EXCEPT !.resumed = "True"],
                    [l EXCEPT !.resumed = "False", !.attempts = @ + 1]} : Wrote(n)
    BY <1>10, Writing
  <2>2. pc \in Resuming
    BY <1>10 DEF Resumed, GiveUp, Resuming
  <2>3. l.sentTo # 0 /\ pc # "adopt"
    BY <1>2, <2>2 DEF OwesResume, Resuming
  <2>4. Tidy(n)
    BY <1>2, <1>3, <2>1, <2>3 DEF Wrote, Tidy, BackupObjects
  <2> QED BY <2>1, <2>4
<1>11. CASE DropFinalizer
  BY <1>11, Writing DEF Tidy
<1> QED BY <1>4, <1>5, <1>6, <1>7, <1>8, <1>9, <1>10, <1>11 DEF WorkerWrites

(* Neither a step of the worker nor a request leaves a backup in a state    *)
(* the objects cannot be in.                                                *)
LEMMA ObjectsStep ==
  ASSUME TypeOK, SendInv, Objects, Copy, [Next]_vars
  PROVE  Objects'
<1> USE DEF backupVars, jobVars, podVars, workerVars, historyVars
<1>0. /\ bk \in [Backups -> BackupObjects] /\ bkCache \in [Backups -> BackupObjects]
      /\ ~Absent.exists /\ ~Absent.deleting /\ ~Absent.finalizer /\ Absent.phase = ""
      /\ Absent.sentTo = 0 /\ Absent.resumed = ""
  BY DEF TypeOK, Absent
<1>1. CASE UNCHANGED <<bk, bkCache, used>>
  BY <1>1 DEF Objects, Consistent
<1>2. CASE WorkerWrites
  <2>1. PICK new : Wrote(new) /\ Tidy(new)
    BY <1>2, WritesTidy
  <2>2. l.exists /\ cur \in used
    BY <2>1 DEF Wrote, Copy, Fits
  <2>3. ASSUME NEW b \in Backups PROVE Consistent(b)'
    <3>1. Consistent(b) /\ UNCHANGED <<bkCache, used>> /\ cur \in Backups /\ l = bk[cur]
          /\ bk'[b] = IF b = cur THEN new ELSE bk[b]
      BY <2>1 DEF Objects, Wrote
    <3>2. CASE b # cur
      BY <3>1, <3>2 DEF Consistent
    <3>3. CASE b = cur /\ new = Absent
      BY <1>0, <2>2, <3>1, <3>3 DEF Consistent
    <3>4. CASE b = cur /\ new # Absent
      BY <2>1, <2>2, <3>1, <3>4 DEF Consistent, Tidy
    <3> QED BY <3>2, <3>3, <3>4
  <2> QED BY <2>3 DEF Objects
<1>3. ASSUME NEW b \in Backups, Deletes(b) PROVE Objects'
  <2>1. /\ bk'[b] = Absent
           \/ /\ bk[b].finalizer /\ bk'[b].exists = bk[b].exists /\ bk'[b].finalizer
              /\ bk'[b].phase = bk[b].phase /\ bk'[b].deleting
              /\ bk'[b].sentTo = bk[b].sentTo /\ bk'[b].resumed = bk[b].resumed
        /\ \A a \in Backups : a # b => bk'[a] = bk[a]
    BY <1>0, <1>3 DEF Deletes, Deleted, BackupObjects
  <2>2. bk[b].finalizer => bk[b].exists
    BY <1>0, <1>3 DEF Objects, Consistent, Deletes
  <2>3. ASSUME NEW a \in Backups PROVE Consistent(a)'
    <3>1. Consistent(a) /\ UNCHANGED <<bkCache, used>>
      BY <1>3 DEF Objects, Deletes
    <3>2. CASE a # b
      BY <2>1, <3>1, <3>2 DEF Consistent
    <3>3. CASE a = b
      BY <1>0, <2>1, <2>2, <3>1, <3>3 DEF Consistent
    <3> QED BY <3>2, <3>3
  <2> QED BY <2>3 DEF Objects
<1>4. CASE OperatorRestarts
  BY <1>0, <1>4 DEF OperatorRestarts, Objects, Consistent
<1>5. ASSUME NEW b \in Backups, SeeBackup(b) PROVE Objects'
  BY <1>0, <1>5 DEF SeeBackup, Objects, Consistent
<1>6. ASSUME NEW b \in Backups, CreateBackup(b) PROVE Objects'
  <2>1. /\ bk'[b] = [Absent EXCEPT !.exists = TRUE]
        /\ \A a \in Backups : a # b => bk'[a] = bk[a]
    BY <1>0, <1>6 DEF CreateBackup
  <2>2. /\ bk'[b].exists /\ ~bk'[b].deleting /\ bk'[b].phase = "" /\ bk'[b].sentTo = 0
        /\ bk'[b].resumed = ""
    BY <2>1 DEF Absent
  <2>3. ASSUME NEW a \in Backups PROVE Consistent(a)'
    <3>1. Consistent(a) /\ bkCache' = bkCache /\ used' = used \cup {b} /\ b \notin used
      BY <1>6 DEF Objects, CreateBackup
    <3>2. CASE a # b
      BY <2>1, <3>1, <3>2 DEF Consistent
    <3>3. CASE a = b
      BY <2>2, <3>1, <3>3 DEF Consistent
    <3> QED BY <3>2, <3>3
  <2> QED BY <2>3 DEF Objects
<1> QED BY <1>1, <1>2, <1>3, <1>4, <1>5, <1>6, StepsOnBackups, Deleting DEF TypeOK, Expire

(* The steps a reconcile ends with, and those it goes on with.              *)
Idles ==
  \/ Adopt \/ NoVolume \/ MarkRunning \/ MarkDeleting \/ Complete \/ AfterFailed
  \/ DropFinalizer \/ Expire \/ Conflicts \/ CallFails \/ OperatorRestarts

LEMMA Idling == Idles => pc' = "idle" /\ cur' = NoBackup
BY DEF Idles, Adopt, NoVolume, MarkRunning, MarkDeleting, Complete, AfterFailed,
   DropFinalizer, Expire, Conflicts, CallFails, OperatorRestarts, WriteAndStop,
   WriteAndRequeue, Fail, Done

(* Nobody but the worker moves the worker.                                  *)
LEMMA WorkerKept ==
  ASSUME \/ Watches \/ Environment \/ UNCHANGED vars
  PROVE  UNCHANGED <<pc, cur, l, target>> /\ queue \subseteq queue'
BY DEF Watches, SeePod, SeeBackup, SeeJob, Environment, PodStarts, PodStops, ServerDeleted,
   CreateBackup, DeleteBackup, JobSucceeds, AttemptFails, JobGivesUp, JobRemoved, JobStep,
   vars, workerVars

(* The worker's copy fits the step it goes to.                              *)
LEMMA CopyStep ==
  ASSUME TypeOK, Objects, Copy, [Next]_vars
  PROVE  Copy'
<1> USE DEF backupVars, jobVars, podVars, historyVars
<1>0. /\ bk \in [Backups -> BackupObjects] /\ bkCache \in [Backups -> BackupObjects]
      /\ l \in BackupObjects /\ (pc # "idle" => cur \in Backups) /\ used \subseteq Backups
  BY DEF TypeOK
<1>1. ASSUME NEW b \in Backups, BeginReconcile(b) PROVE Copy'
  <2>1. UNCHANGED <<bk, bkCache, used>>
    BY <1>1 DEF BeginReconcile
  <2>2. CASE pc' # "idle"
    <3>1. cur' = b /\ l' = bkCache[b] /\ pc' \in Steps(b, bkCache[b])
      BY <1>1, <2>2 DEF BeginReconcile
    <3>2. Fits(pc', l') /\ bkCache[b].exists
      BY <1>0, <2>2, <3>1, BeginFits DEF Fits
    <3>3. pc' = "expire" => ~bkCache[b].deleting
      BY <3>1, <3>2 DEF Fits
    <3>4. Fits(pc, l)'
      BY <3>2 DEF Fits, OwesResume
    <3> QED BY <2>1, <3>1, <3>2, <3>3, <3>4 DEF Objects, Consistent, Copy
  <2> QED BY <2>2 DEF Copy
<1>2. CASE Idles
  BY <1>2, Idling DEF Copy
<1>3. CASE Record \/ BeforeFailed \/ (Wait /\ ~UNCHANGED bk)
  <2>1. PICK new : /\ Wrote(new) /\ l' = new /\ pc' \in {"before", "copy"} /\ cur' = cur
                   /\ new.exists = l.exists /\ new.finalizer = l.finalizer
                   /\ new.phase = l.phase /\ new.deleting = l.deleting
    <3>1. CASE Record
      BY <1>0, <3>1, Writing DEF Record, WriteAndGo, BackupObjects
    <3>2. CASE BeforeFailed
      BY <1>0, <3>2, Writing DEF BeforeFailed, WriteAndGo, BackupObjects
    <3>3. CASE Wait /\ ~UNCHANGED bk
      <4>1. PICK d \in {"True", "False"} : WriteAndGo([l EXCEPT !.quiesced = d], "copy")
        BY <3>3 DEF Wait
      <4>2. Wrote([l EXCEPT !.quiesced = d])
        BY <1>0, <3>3, <4>1, LocalType, WriteType DEF WriteAndGo, Write, Wrote, Wait
      <4> QED BY <1>0, <4>1, <4>2 DEF WriteAndGo, BackupObjects
    <3> QED BY <1>3, <3>1, <3>2, <3>3
  <2>2. pc \in {"record", "unsent", "wait"}
    BY <1>3 DEF Record, BeforeFailed, Wait
  <2>3. l.exists /\ l.finalizer /\ ~l.deleting /\ l.phase = "" /\ cur \in used
    BY <2>2 DEF Copy, Fits, Quiescing
  <2>4. Fits(pc, l)'
    BY <2>1, <2>3 DEF Fits, Quiescing, Resuming
  <2>5. bkCache'[cur].phase = l.phase /\ bkCache'[cur].finalizer = l.finalizer /\ used' = used
    BY <2>1, <2>2 DEF Copy, Wrote, Quiescing
  <2> QED BY <2>1, <2>3, <2>4, <2>5 DEF Copy
<1>4. ASSUME UNCHANGED <<bk, bkCache, used, cur, l>>, queue \subseteq queue', pc # "idle",
             \/ pc' \in Quiescing /\ pc \in Quiescing
             \/ pc' \in Resuming /\ pc \in Resuming
             \/ pc' = "pruning" /\ pc = "cleanup"
      PROVE  Copy'
  <2>1. Fits(pc, l)'
    BY <1>4 DEF Fits, Copy, Quiescing, Resuming, OwesResume
  <2> QED BY <1>4, <2>1 DEF Copy, Quiescing, Resuming
<1>5. CASE SendBefore \/ StartCopy \/ SendAfter \/ StartPrune
  BY <1>4, <1>5 DEF SendBefore, SendAfter, Exec, StartCopy, StartPrune, CreateJob, Quiescing,
     Resuming
<1>6. CASE Wait /\ UNCHANGED bk
  <2>1. CASE pc' = "idle"
    BY <2>1 DEF Copy
  <2>2. CASE pc' = "copy"
    <3>1. PICK d \in {"True", "False"} : WriteAndGo([l EXCEPT !.quiesced = d], "copy")
      BY <1>6, <2>2 DEF Wait, Fail, Done
    <3>2. UNCHANGED <<bkCache, used, cur, queue>> /\ l' = [l EXCEPT !.quiesced = d] /\ l = bk[cur]
      BY <3>1 DEF WriteAndGo, Write
    <3>3. l' = bk'[cur]
      BY <1>0, <1>6, <3>1 DEF WriteAndGo, Write, Wait
    <3> QED BY <1>4, <1>6, <2>2, <3>2, <3>3 DEF Wait, Quiescing
  <2> QED BY <1>6, <2>1, <2>2 DEF Wait, Fail, Done, WriteAndGo
<1>7. CASE Resumed \/ GiveUp
  <2>1. PICK new \in BackupObjects :
          /\ EndResume(new) /\ Wrote(new) /\ new.exists = l.exists /\ new.finalizer = l.finalizer
          /\ new.deleting = l.deleting /\ new.resumed # ""
    <3>2. CASE Resumed
      BY <1>0, <3>2, Writing, LocalType DEF Resumed, BackupObjects
    <3>3. CASE GiveUp
      <4> DEFINE x == [l EXCEPT !.resumed = "False", !.attempts = @ + 1]
      <4>1. x \in BackupObjects
        BY LocalType
      <4>2. EndResume(x) /\ Wrote(x)
        BY <3>3, Writing DEF GiveUp
      <4>3. /\ x.exists = l.exists /\ x.finalizer = l.finalizer
            /\ x.deleting = l.deleting /\ x.resumed # ""
        BY <1>0 DEF BackupObjects
      <4> HIDE DEF x
      <4> QED BY <4>1, <4>2, <4>3
    <3> QED BY <1>7, <3>2, <3>3
  <2>2. l.exists /\ l.finalizer /\ cur \in used
    BY <1>7 DEF Resumed, GiveUp, Copy, Fits
  <2>3. CASE pc' # "idle"
    <3>1. pc' \in AfterResume(cur, new) /\ l' = new /\ cur' = cur /\ queue' = queue
      BY <2>1, <2>3 DEF EndResume
    <3>2. Fits(pc', new) /\ pc' \in {"cleanup", "drop", "expire"}
      BY <2>1, <2>2, <2>3, <3>1, AfterFits DEF Wrote, OwesResume
    <3>3. Fits(pc, l)'
      BY <3>1, <3>2 DEF Fits, OwesResume
    <3>4. pc' = "expire" => ~bkCache[cur].deleting
      <4>1. pc' = "expire" => ~bk[cur].deleting /\ bk[cur].exists
        BY <2>1, <2>2, <3>2 DEF Fits, Wrote
      <4> QED BY <2>1, <4>1 DEF Objects, Consistent, Wrote
    <3>5. bk'[cur] = new /\ UNCHANGED <<used, bkCache>>
      BY <2>1 DEF Wrote
    <3> QED BY <2>1, <2>2, <3>1, <3>2, <3>3, <3>4, <3>5 DEF Copy, Quiescing
  <2> QED BY <2>3 DEF Copy
<1>8. ASSUME UNCHANGED <<pc, cur, l>>, queue \subseteq queue', used \subseteq used', pc # "idle",
             l.deleting /\ bk'[cur].exists => bk'[cur].deleting,
             pc \in {"adopt", "complete", "fail"} \cup Quiescing /\ l = bk'[cur]
               => bkCache'[cur].phase = l.phase /\ bkCache'[cur].finalizer = l.finalizer,
             pc = "expire" /\ bkCache'[cur].deleting => cur \in queue'
      PROVE  Copy'
  <2>1. Fits(pc, l)'
    BY <1>8 DEF Copy, Fits, OwesResume
  <2> QED BY <1>8, <2>1 DEF Copy
<1>9. CASE pc = "idle" /\ pc' = "idle"
  BY <1>9 DEF Copy
<1>10. CASE (Watches \/ Environment \/ UNCHANGED vars) /\ UNCHANGED <<bk, bkCache, used>>
  BY <1>10, <1>8, <1>9, WorkerKept DEF Copy
<1>11. ASSUME NEW b \in Backups, SeeBackup(b) PROVE Copy'
  <2>1. UNCHANGED <<pc, cur, l>>
    BY <1>11 DEF SeeBackup, workerVars
  <2> QED BY <1>0, <1>11, <1>8, <1>9, <2>1 DEF SeeBackup, Copy
<1>12. ASSUME NEW b \in Backups, DeleteBackup(b) PROVE Copy'
  <2>1. UNCHANGED <<pc, cur, l, queue, bkCache, used>>
    BY <1>12 DEF DeleteBackup, workerVars
  <2>2. /\ ~bk'[b].exists \/ bk'[b].deleting
        /\ \A a \in Backups : a # b => bk'[a] = bk[a]
    <3>1. bk'[b] = Deleted(bk[b]) /\ \A a \in Backups : a # b => bk'[a] = bk[a]
      BY <1>12, Deleting DEF Deletes
    <3>2. ~Deleted(bk[b]).exists \/ Deleted(bk[b]).deleting
      BY <1>0 DEF Deleted, Absent, BackupObjects
    <3> QED BY <3>1, <3>2
  <2>3. pc \in {"adopt", "complete", "fail"} \cup Quiescing => l.exists /\ ~l.deleting
    BY DEF Copy, Fits, Quiescing
  <2> QED BY <1>0, <1>8, <1>9, <2>1, <2>2, <2>3 DEF Copy
<1>13. ASSUME NEW b \in Backups, CreateBackup(b) PROVE Copy'
  <2>1. UNCHANGED <<pc, cur, l, queue, bkCache>> /\ b \notin used /\ used \subseteq used'
    BY <1>13 DEF CreateBackup, workerVars
  <2>2. pc # "idle" => bk'[cur] = bk[cur]
    BY <1>0, <1>13, <2>1 DEF CreateBackup, Copy
  <2> QED BY <1>0, <1>8, <1>9, <2>1, <2>2 DEF Copy
<1>14. CASE Worker \/ CallFails \/ OperatorRestarts
  BY <1>1, <1>2, <1>3, <1>5, <1>6, <1>7, <1>14 DEF Worker, Idles
<1>15. CASE Watches \/ Environment \/ UNCHANGED vars
  <2>1. \/ UNCHANGED <<bk, bkCache, used>>
        \/ \E b \in Backups : SeeBackup(b) \/ CreateBackup(b) \/ DeleteBackup(b)
    BY <1>15 DEF Watches, SeePod, SeeJob, Environment, PodStarts, PodStops, ServerDeleted,
       JobSucceeds, AttemptFails, JobGivesUp, JobRemoved, JobStep, vars
  <2> QED BY <1>10, <1>11, <1>12, <1>13, <1>15, <2>1
<1> QED BY <1>14, <1>15 DEF Next

(* The backups and the worker's copy of one, in every reachable state.      *)
LEMMA BackupsKnown == Spec => [](Objects /\ Copy)
<1>1. Init => Objects /\ Copy
  <2> SUFFICES ASSUME Init PROVE Objects /\ Copy
    OBVIOUS
  <2>1. \A b \in Backups : bk[b] = Absent /\ bkCache[b] = Absent
    BY DEF Init
  <2>2. /\ ~Absent.exists /\ ~Absent.deleting /\ Absent.phase = "" /\ Absent.sentTo = 0
        /\ Absent.resumed = ""
    BY DEF Absent
  <2> QED BY <2>1, <2>2 DEF Init, Objects, Consistent, Copy
<1>2. TypeOK /\ SendInv /\ Objects /\ Copy /\ [Next]_vars => (Objects /\ Copy)'
  BY ObjectsStep, CopyStep
<1> QED BY <1>1, <1>2, TypeCorrect, SendInvHolds, PTL DEF Spec

-----------------------------------------------------------------------------
(* The Pod: which one is known to whom, and who is to resume it.            *)

(* Pods are numbered as they come; the cache lags behind, and one it has    *)
(* seen stop does not run.                                                  *)
PodsOrdered ==
  /\ podCache.uid <= pod.uid
  /\ podCache.uid = pod.uid /\ pod.up => podCache.up
  /\ pod.paused => pod.up
  /\ pod.up => volume

(* What is remembered of the Pod that Before went to was read in the cache. *)
Remembered ==
  /\ target <= podCache.uid /\ l.sentTo <= podCache.uid
  /\ \A b \in Backups : bk[b].sentTo <= podCache.uid /\ bkCache[b].sentTo <= podCache.uid

(* Which steps touch the Pod.                                               *)
LEMMA StepsOnPod ==
  ASSUME [Next]_vars
  PROVE  \/ UNCHANGED <<pod, podCache, volume>>
         \/ SendBefore \/ SendAfter \/ OperatorRestarts \/ SeePod
         \/ PodStarts \/ PodStops \/ ServerDeleted
BY DEF Next, Worker, BeginReconcile, Adopt, Record, BeforeFailed, Wait, StartCopy,
   StartPrune, CreateJob, NoVolume, MarkRunning, MarkDeleting, Complete, AfterFailed,
   Resumed, GiveUp, EndResume, DropFinalizer, Expire, Conflicts, CallFails, WriteAndStop,
   WriteAndRequeue, WriteAndGo, Write, Watches, SeeBackup, SeeJob, Environment,
   CreateBackup, DeleteBackup, JobSucceeds, AttemptFails, JobGivesUp, JobRemoved,
   JobStep, vars, podVars

(* Sending commands changes nothing but whether the Pod saves.              *)
LEMMA Sending ==
  ASSUME TypeOK, SendBefore \/ SendAfter
  PROVE  /\ pod' \in Pods /\ pod'.uid = pod.uid /\ pod'.up = pod.up
         /\ ~pod.up => pod'.paused = pod.paused
         /\ UNCHANGED <<bk, bkCache, podCache, volume, queue, cur, l, target, used, overlapped>>
         /\ SendAfter => (pod'.paused => pod.paused) /\ UNCHANGED <<stranded, heard>>
         /\ SendBefore => (pod.up /\ pod.paused => pod'.paused)
<1>1. PICK paused \in BOOLEAN, next \in {"wait", "unsent", "resumed", "unresumed"} :
        /\ Exec(paused, next)
        /\ SendAfter => ~paused \/ paused = pod.paused
        /\ SendBefore => paused \/ paused = pod.paused
  <2>1. pod.paused \in BOOLEAN /\ ~(SendBefore /\ SendAfter)
    BY DEF TypeOK, Pods, SendBefore, SendAfter
  <2>2. CASE SendBefore
    BY <2>1, <2>2 DEF SendBefore
  <2>3. CASE SendAfter
    BY <2>1, <2>3 DEF SendAfter
  <2> QED BY <2>2, <2>3
<1>2. pod \in Pods /\ pod' = [pod EXCEPT !.paused = IF pod.up THEN paused ELSE @]
  BY <1>1 DEF TypeOK, Exec
<1>3. pod' \in Pods /\ pod'.uid = pod.uid /\ pod'.up = pod.up
      /\ pod'.paused = IF pod.up THEN paused ELSE pod.paused
  BY <1>2 DEF Pods
<1> QED BY <1>1, <1>2, <1>3 DEF Exec, backupVars, SendAfter, Pods

(* PodsOrdered is kept.                                                     *)
LEMMA PodsOrderedHolds == Spec => []PodsOrdered
<1> USE BoundsAssumption
<1>1. Init => PodsOrdered
  BY DEF Init, PodsOrdered, Seen
<1>2. TypeOK /\ PodsOrdered /\ [Next]_vars => PodsOrdered'
  <2> SUFFICES ASSUME TypeOK, PodsOrdered, [Next]_vars PROVE PodsOrdered'
    OBVIOUS
  <2>0. pod \in Pods /\ podCache.uid \in 0..MaxPods /\ volume \in BOOLEAN
    BY DEF TypeOK
  <2>1. CASE UNCHANGED <<pod, podCache, volume>>
    BY <2>1 DEF PodsOrdered
  <2>2. CASE SendBefore \/ SendAfter
    BY <2>0, <2>2, Sending DEF PodsOrdered, Pods
  <2>3. CASE OperatorRestarts \/ SeePod
    <3>1. UNCHANGED <<pod, volume>> /\ podCache'.uid = pod.uid /\ podCache'.up = pod.up
      BY <2>3 DEF OperatorRestarts, SeePod, Seen
    <3> QED BY <2>0, <3>1 DEF PodsOrdered, Pods
  <2>4. CASE PodStarts
    <3>1. pod'.uid = pod.uid + 1 /\ pod'.up /\ ~pod'.paused /\ UNCHANGED <<podCache, volume>>
          /\ volume
      BY <2>4 DEF PodStarts
    <3> QED BY <2>0, <3>1 DEF PodsOrdered, Pods
  <2>5. CASE PodStops \/ ServerDeleted
    <3>1. pod'.uid = pod.uid /\ ~pod'.up /\ ~pod'.paused /\ UNCHANGED podCache
      BY <2>0, <2>5 DEF PodStops, ServerDeleted, Pods
    <3> QED BY <2>0, <3>1 DEF PodsOrdered, Pods
  <2> QED BY <2>1, <2>2, <2>3, <2>4, <2>5, StepsOnPod
<1> QED BY <1>1, <1>2, TypeCorrect, PTL DEF Spec

(* What a write makes of the Pod that Before went to, and of the resume.    *)
Resumes(new) == new.exists /\ new.sentTo = l.sentTo /\ new.resumed = l.resumed

LEMMA WritesSent ==
  ASSUME TypeOK, Copy, SendInv, WorkerWrites
  PROVE  \E new : /\ Wrote(new)
                  /\ l'.sentTo \in {0, new.sentTo}
                  /\ \/ Resumes(new) /\ ~(Resumed \/ GiveUp)
                     \/ Record /\ new.sentTo = target /\ l.sentTo = 0 /\ new.exists
                     \/ DropFinalizer /\ new = Absent /\ ~OwesResume(l)
                     \/ (Resumed \/ GiveUp) /\ new.sentTo = l.sentTo /\ new.exists
<1>0. l \in BackupObjects /\ Absent.sentTo = 0 /\ (pc # "idle" => l.exists)
  BY DEF TypeOK, Absent, Copy, Fits
<1>1. CASE Adopt \/ NoVolume \/ MarkRunning \/ MarkDeleting \/ Complete \/ AfterFailed
  <2>1. PICK new \in {[l EXCEPT !.finalizer = TRUE], [l EXCEPT !.attempts = @ + 1]}
               \cup {[l EXCEPT !.phase = f] : f \in Phases} :
          Wrote(new)
    BY <1>1, Writing, PhasesKnown DEF Ended
  <2>2. /\ l' = Absent /\ pc \notin {"resumed", "skip"}
        /\ pc = "unresumed" => l.attempts + 1 < MaxAttempts
    BY <1>1 DEF Adopt, NoVolume, MarkRunning, MarkDeleting, Complete, AfterFailed,
       WriteAndStop, WriteAndRequeue, Fail, Done
  <2>3. ~(Resumed \/ GiveUp)
    <3>1. l.attempts + 1 \in Nat /\ MaxAttempts \in Nat
      BY <1>0, AttemptsAssumption DEF BackupObjects
    <3> QED BY <2>2, <3>1 DEF Resumed, GiveUp
  <2>4. Resumes(new)
    BY <1>0, <2>1 DEF Wrote, Resumes, BackupObjects
  <2> QED BY <1>0, <2>1, <2>2, <2>3, <2>4
<1>2. CASE BeforeFailed \/ (Wait /\ ~UNCHANGED bk)
  <2>1. PICK d \in {"True", "False"} : WriteAndGo([l EXCEPT !.quiesced = d], "copy")
    BY <1>2 DEF BeforeFailed, Wait, backupVars
  <2>2. pc \in {"unsent", "wait"} /\ l.exists /\ l' = [l EXCEPT !.quiesced = d]
    BY <1>0, <1>2, <2>1 DEF BeforeFailed, Wait, WriteAndGo
  <2>3. Wrote([l EXCEPT !.quiesced = d])
    <3>1. cur \in Backups
      BY <2>2 DEF TypeOK
    <3> QED BY <1>0, <2>1, <2>2, <3>1, LocalType, WriteType DEF WriteAndGo, Write, Wrote,
           jobVars, podVars
  <2> QED BY <1>0, <2>2, <2>3 DEF Resumes, BackupObjects, Resumed, GiveUp
<1>3. CASE Record
  <2>1. Wrote([l EXCEPT !.sentTo = target]) /\ l.sentTo = 0 /\ l' = [l EXCEPT !.sentTo = target]
        /\ l.exists
    BY <1>0, <1>3, Writing DEF Record, WriteAndGo, SendInv, WorkerKnown
  <2> QED BY <1>0, <1>3, <2>1 DEF BackupObjects
<1>4. CASE DropFinalizer
  <2>1. Wrote(Absent) /\ pc = "drop" /\ l' = Absent
    BY <1>4, Writing DEF DropFinalizer, WriteAndStop, Done
  <2>2. ~OwesResume(l)
    BY <2>1 DEF Copy, Fits
  <2> QED BY <1>0, <1>4, <2>1, <2>2
<1>5. CASE Resumed \/ GiveUp
  <2>1. PICK new \in {[l EXCEPT !.resumed = "True"],
                      [l EXCEPT !.resumed = "False", !.attempts = @ + 1]} :
          Wrote(new) /\ EndResume(new)
    BY <1>5, Writing DEF Resumed, GiveUp
  <2>2. l' \in {Absent, new} /\ pc # "idle"
    BY <1>5, <2>1 DEF EndResume, Resumed, GiveUp
  <2> QED BY <1>0, <1>5, <2>1, <2>2 DEF BackupObjects
<1> QED BY <1>1, <1>2, <1>3, <1>4, <1>5 DEF WorkerWrites

(* Remembered is kept.                                                      *)
LEMMA RememberedHolds == Spec => []Remembered
<1> USE BoundsAssumption DEF podVars, backupVars
<1>1. Init => Remembered
  <2> SUFFICES ASSUME Init PROVE Remembered
    OBVIOUS
  <2>1. podCache.uid = 0 /\ l.sentTo = 0 /\ target = 0
        /\ \A b \in Backups : bk[b].sentTo = 0 /\ bkCache[b].sentTo = 0
    BY DEF Init, Seen, Absent
  <2> QED BY <2>1 DEF Remembered
<1>2. TypeOK /\ TypeOK' /\ SendInv /\ Copy /\ PodsOrdered /\ Remembered /\ [Next]_vars
        => Remembered'
  <2> SUFFICES ASSUME TypeOK, TypeOK', SendInv, Copy, PodsOrdered, Remembered, [Next]_vars
               PROVE  Remembered'
    OBVIOUS
  <2>0. /\ bk \in [Backups -> BackupObjects] /\ bkCache \in [Backups -> BackupObjects]
        /\ podCache.uid \in Nat /\ podCache'.uid \in Nat /\ Absent.sentTo = 0
        /\ l \in BackupObjects /\ l' \in BackupObjects /\ target \in Nat
        /\ bk' \in [Backups -> BackupObjects] /\ bkCache' \in [Backups -> BackupObjects]
    BY DEF TypeOK, Absent
  <2>1. podCache.uid <= podCache'.uid
    <3>1. SendBefore \/ SendAfter => podCache' = podCache
      BY Sending
    <3>2. PodStarts \/ PodStops \/ ServerDeleted => podCache' = podCache
      BY DEF PodStarts, PodStops, ServerDeleted
    <3>3. OperatorRestarts \/ SeePod => podCache'.uid = pod.uid
      BY DEF OperatorRestarts, SeePod, Seen
    <3>4. podCache.uid <= pod.uid
      BY DEF PodsOrdered
    <3> QED BY <2>0, <3>1, <3>2, <3>3, <3>4, StepsOnPod
  <2>2. ASSUME target' \in {0, target, podCache.uid},
               l'.sentTo \in {0, l.sentTo, target} \cup {bkCache[b].sentTo : b \in Backups},
               \A b \in Backups :
                 /\ bk'[b].sentTo \in {0, l.sentTo, target, bk[b].sentTo}
                 /\ bkCache'[b].sentTo \in {bkCache[b].sentTo, bk[b].sentTo}
        PROVE  Remembered'
    <3>1. ASSUME NEW x \in Nat, x <= podCache.uid PROVE x <= podCache'.uid
      BY <2>0, <2>1, <3>1
    <3>2. 0 <= podCache.uid /\ l.sentTo \in Nat /\ target \in Nat
          /\ \A b \in Backups : bk[b].sentTo \in Nat /\ bkCache[b].sentTo \in Nat
      BY <2>0 DEF BackupObjects
    <3>3. target' <= podCache'.uid
      BY <2>0, <2>2, <3>1, <3>2 DEF Remembered
    <3>4. l'.sentTo <= podCache'.uid
      BY <2>0, <2>2, <3>1, <3>2 DEF Remembered
    <3>5. ASSUME NEW b \in Backups
          PROVE  bk'[b].sentTo <= podCache'.uid /\ bkCache'[b].sentTo <= podCache'.uid
      <4>1. /\ bk'[b].sentTo \in {0, l.sentTo, target, bk[b].sentTo}
            /\ bkCache'[b].sentTo \in {bkCache[b].sentTo, bk[b].sentTo}
        BY <2>2
      <4>2. /\ l.sentTo <= podCache.uid /\ target <= podCache.uid
            /\ bk[b].sentTo <= podCache.uid /\ bkCache[b].sentTo <= podCache.uid
        BY <2>0 DEF Remembered
      <4> QED BY <3>1, <3>2, <4>1, <4>2
    <3> QED BY <3>3, <3>4, <3>5 DEF Remembered
  <2>3. CASE WorkerWrites
    <3>1. PICK new : /\ Wrote(new) /\ l'.sentTo \in {0, new.sentTo}
                     /\ new.sentTo \in {0, l.sentTo, target}
      BY <2>0, <2>3, WritesSent DEF Resumes
    <3>2. target' \in {0, target} /\ bkCache' = bkCache
      BY <2>3 DEF WorkerWrites, Adopt, Record, BeforeFailed, NoVolume, MarkRunning,
         MarkDeleting, Complete, AfterFailed, Resumed, GiveUp, DropFinalizer, Wait,
         WriteAndGo, WriteAndStop, WriteAndRequeue, EndResume, Fail, Done, Write
    <3> QED BY <2>2, <3>1, <3>2 DEF Wrote
  <2>4. CASE \E b \in Backups : BeginReconcile(b)
    BY <2>0, <2>2, <2>4 DEF BeginReconcile
  <2>5. ASSUME NEW b \in Backups, Deletes(b), target' \in {0, target}, l'.sentTo \in {0, l.sentTo}
        PROVE  Remembered'
    <3>1. Deleted(bk[b]).sentTo \in {0, bk[b].sentTo}
      BY <2>0 DEF Deleted, BackupObjects
    <3> QED BY <2>2, <2>5, <3>1 DEF Deletes
  <2>6. CASE Expire
    BY <2>0, <2>5, <2>6, Deleting DEF Expire, Done, TypeOK
  <2>7. ASSUME NEW b \in Backups, DeleteBackup(b) PROVE Remembered'
    BY <2>5, <2>7, Deleting DEF DeleteBackup, workerVars
  <2>8. ASSUME NEW b \in Backups, CreateBackup(b) PROVE Remembered'
    <3>1. \A a \in Backups : bk'[a].sentTo \in {0, bk[a].sentTo}
      BY <2>0, <2>8 DEF CreateBackup, Absent
    <3> QED BY <2>2, <2>8, <3>1 DEF CreateBackup, workerVars
  <2>9. ASSUME NEW b \in Backups, SeeBackup(b) PROVE Remembered'
    <3>1. \A a \in Backups : bkCache'[a] \in {bkCache[a], bk[a]}
      BY <2>0, <2>9 DEF SeeBackup
    <3> QED BY <2>2, <2>9, <3>1 DEF SeeBackup, workerVars
  <2>10. CASE OperatorRestarts
    BY <2>0, <2>2, <2>10 DEF OperatorRestarts, Done
  <2>11. CASE UNCHANGED <<bk, bkCache>> /\ target' \in {0, target} /\ l'.sentTo \in {0, l.sentTo}
    BY <2>2, <2>11
  <2>12. CASE Wait /\ UNCHANGED bk
    <3>1. l'.sentTo \in {0, l.sentTo} /\ target' \in {0, target} /\ bkCache' = bkCache
      BY <2>0, <2>12 DEF Wait, Fail, Done, WriteAndGo, Write, BackupObjects
    <3> QED BY <2>11, <2>12, <3>1
  <2>13. SendBefore \/ SendAfter \/ StartCopy \/ StartPrune \/ Conflicts \/ CallFails
           => UNCHANGED <<bk, bkCache>> /\ target' \in {0, target} /\ l'.sentTo \in {0, l.sentTo}
    BY <2>0 DEF SendBefore, SendAfter, Exec, StartCopy, StartPrune, CreateJob, Conflicts,
       CallFails, Fail, Done
  <2>14. ASSUME NEW k \in JobKeys,
                \/ JobSucceeds(k) \/ AttemptFails(k) \/ JobGivesUp(k) \/ JobRemoved(k) \/ SeeJob(k)
         PROVE  UNCHANGED <<bk, bkCache, target, l>>
    BY <2>14 DEF SeeJob, JobSucceeds, AttemptFails, JobGivesUp, JobRemoved, JobStep, workerVars
  <2>15. SeePod \/ PodStarts \/ PodStops \/ ServerDeleted \/ UNCHANGED vars
           => UNCHANGED <<bk, bkCache, target, l>>
    BY DEF SeePod, PodStarts, PodStops, ServerDeleted, vars, workerVars
  <2> QED BY <2>3, <2>4, <2>6, <2>7, <2>8, <2>9, <2>10, <2>11, <2>12, <2>13, <2>14, <2>15
          DEF Next, Worker, Watches, Environment, WorkerWrites
<1> QED BY <1>1, <1>2, TypeCorrect, SendInvHolds, BackupsKnown, PodsOrderedHolds, PTL DEF Spec

(* The backup that is to resume the Pod.                                    *)
Holder(b) == bk[b].exists /\ OwesResume(bk[b]) /\ bk[b].sentTo = pod.uid

(* A Pod that does not save has a backup that is to resume it, and the      *)
(* worker drops that debt only when the Pod saves, or is another one.       *)
Paused ==
  /\ pc = "before" => bk[cur].exists /\ bk[cur].sentTo = l.sentTo /\ bk[cur].resumed = ""
  /\ pc = "resumed" => ~pod.paused
  /\ pc = "skip" => ~(pod.up /\ pod.uid = l.sentTo)
  /\ pod.paused /\ ~stranded => \E b \in Backups : Holder(b)

(* A user's deletion keeps what is owed: the finalizer is on.               *)
LEMMA DeletionKeepsDebt ==
  ASSUME TypeOK, Objects, NEW b \in Backups, Deletes(b),
         NEW a \in Backups, bk[a].exists, bk[a].sentTo # 0
  PROVE  bk'[a].exists /\ bk'[a].sentTo = bk[a].sentTo /\ bk'[a].resumed = bk[a].resumed
<1>1. bk[a].finalizer /\ bk[a] \in BackupObjects
  BY DEF Objects, Consistent, TypeOK
<1>2. a = b => bk'[a] = [bk[a] EXCEPT !.deleting = TRUE]
  BY <1>1 DEF Deletes, Deleted
<1> QED BY <1>1, <1>2 DEF Deletes, BackupObjects

(* Paused is kept.                                                          *)
LEMMA PausedHolds == Spec => []Paused
<1> USE BoundsAssumption
<1>1. Init => Paused
  BY DEF Init, Paused
<1>2. TypeOK /\ SendInv /\ Objects /\ Copy /\ PodsOrdered /\ Remembered /\ Paused /\ [Next]_vars
        => Paused'
  <2> SUFFICES ASSUME TypeOK, SendInv, Objects, Copy, PodsOrdered, Remembered, Paused, [Next]_vars
               PROVE  Paused'
    OBVIOUS
  <2>0. /\ bk \in [Backups -> BackupObjects] /\ bkCache \in [Backups -> BackupObjects]
        /\ pod \in Pods /\ l \in BackupObjects /\ (pc # "idle" => cur \in Backups)
        /\ podCache.uid \in 0..MaxPods /\ ~Absent.exists
    BY DEF TypeOK, Absent
  <2>0a. stranded \in BOOLEAN /\ pod.paused \in BOOLEAN
    BY DEF TypeOK, Pods
  <2>a. ASSUME pc' \notin {"before", "resumed", "skip"},
               pod'.paused /\ ~stranded' => \E b \in Backups : Holder(b)'
        PROVE  Paused'
    BY <2>a DEF Paused
  <2>b. ASSUME pc' \notin {"before", "resumed", "skip"},
               pod'.paused => pod.paused, stranded => stranded', pod'.uid = pod.uid,
               \A b \in Backups : Holder(b) => Holder(b)'
        PROVE  Paused'
    BY <2>a, <2>b DEF Paused
  <2>c. ASSUME UNCHANGED <<bk, pod, stranded>>, pc' \notin {"before", "resumed", "skip"}
        PROVE  Paused'
    BY <2>b, <2>c DEF Holder, OwesResume
  <2>1. ASSUME NEW b \in Backups, BeginReconcile(b) PROVE Paused'
    <3>1. UNCHANGED <<bk, pod, stranded>> /\ pc' \notin {"before", "resumed"}
      BY <2>1, StepsType DEF BeginReconcile, podVars, backupVars, historyVars
    <3>2. CASE pc' = "skip"
      <4>1. l' = bkCache[b] /\ "skip" \in Steps(b, bkCache[b])
        BY <2>1, <3>2 DEF BeginReconcile
      <4>2. "skip" \in ResumeSteps(b, bkCache[b])
        BY <4>1 DEF Steps, QuiesceStep, PollStep
      <4>3. ~(podCache.up /\ podCache.uid = bkCache[b].sentTo)
        BY <4>2, StepsType DEF ResumeSteps
      <4>4. bkCache[b].sentTo \in 0..MaxPods
        BY <2>0 DEF BackupObjects
      <4>5. ~(pod.up /\ pod.uid = bkCache[b].sentTo)
        <5>1. CASE podCache.uid = pod.uid
          BY <2>0, <4>3, <4>4, <5>1 DEF PodsOrdered
        <5>2. CASE podCache.uid # pod.uid
          <6>1. podCache.uid < pod.uid
            BY <2>0, <5>2 DEF PodsOrdered, Pods
          <6>2. bkCache[b].sentTo <= podCache.uid
            BY <2>0 DEF Remembered
          <6> QED BY <2>0, <4>4, <6>1, <6>2 DEF Pods
        <5> QED BY <5>1, <5>2
      <4> QED BY <3>1, <3>2, <4>1, <4>5 DEF Paused, Holder, OwesResume
    <3> QED BY <2>c, <3>1, <3>2
  <2>2. CASE WorkerWrites /\ ~Record
    <3>1. PICK new : /\ Wrote(new)
                     /\ \/ Resumes(new) /\ ~(Resumed \/ GiveUp)
                        \/ DropFinalizer /\ new = Absent /\ ~OwesResume(l)
                        \/ (Resumed \/ GiveUp) /\ new.sentTo = l.sentTo /\ new.exists
      BY <2>2, WritesSent
    <3>2. pc' \notin {"before", "resumed", "skip"} /\ (stranded => stranded')
      <4>1. CASE Adopt \/ NoVolume \/ MarkRunning \/ MarkDeleting \/ Complete \/ AfterFailed
                 \/ DropFinalizer
        <5>1. pc' = "idle"
          BY <4>1, Idling DEF Idles
        <5>2. UNCHANGED stranded
          BY <4>1 DEF Adopt, NoVolume, MarkRunning, MarkDeleting, Complete, AfterFailed,
             DropFinalizer, WriteAndStop, WriteAndRequeue
        <5> QED BY <5>1, <5>2
      <4>2. CASE BeforeFailed \/ (Wait /\ ~UNCHANGED bk)
        BY <4>2 DEF BeforeFailed, Wait, WriteAndGo, backupVars, historyVars
      <4>3. CASE Resumed \/ GiveUp
        <5>1. pc' \in {"drop", "cleanup", "idle", "expire"}
          <6>1. cur \in Backups
            BY <3>1 DEF Wrote
          <6>2. \E n : pc' \in AfterResume(cur, n)
            BY <4>3 DEF Resumed, GiveUp, EndResume
          <6> QED BY <6>1, <6>2, StepsType
        <5>2. stranded => stranded'
          BY <2>0a, <4>3 DEF Resumed, GiveUp
        <5> QED BY <5>1, <5>2
      <4> QED BY <2>2, <4>1, <4>2, <4>3 DEF WorkerWrites
    <3>3. \A b \in Backups : b # cur => (Holder(b) <=> Holder(b)')
      BY <3>1 DEF Wrote, Holder, OwesResume
    <3>4. CASE Resumes(new) \/ ~OwesResume(l)
      <4>1. l = bk[cur] /\ bk'[cur] = new /\ pod' = pod /\ cur \in Backups
        BY <3>1 DEF Wrote
      <4>2. \A b \in Backups : b = cur /\ Holder(b) => Holder(b)'
        BY <3>4, <4>1 DEF Holder, OwesResume, Resumes
      <4> QED BY <2>b, <3>2, <3>3, <4>1, <4>2
    <3>5. CASE Resumed
      <4>1. pod.paused => ~Holder(cur)
        BY <3>1, <3>5 DEF Resumed, Paused, Holder, PodsOrdered, Wrote
      <4>2. UNCHANGED <<pod, stranded>>
        BY <3>1, <3>5 DEF Resumed, Wrote
      <4> QED BY <2>a, <3>2, <3>3, <4>1, <4>2 DEF Paused
    <3>6. CASE GiveUp
      BY <2>a, <3>1, <3>2, <3>6 DEF GiveUp, Wrote
    <3> QED BY <3>1, <3>4, <3>5, <3>6
  <2>3. CASE Record
    <3> DEFINE new == [l EXCEPT !.sentTo = target]
    <3>1. /\ Wrote(new) /\ l.sentTo = 0 /\ l.exists /\ target # 0
          /\ pc' = "before" /\ l' = new /\ cur' = cur /\ stranded' = stranded
      BY <2>3, Writing DEF Record, WriteAndGo, SendInv, WorkerKnown
    <3>2. l.resumed = "" /\ new.resumed = "" /\ new.exists
      BY <2>0, <3>1 DEF Objects, Consistent, Wrote, BackupObjects
    <3>3. \A b \in Backups : Holder(b) => Holder(b)'
      BY <3>1 DEF Wrote, Holder, OwesResume
    <3> QED BY <3>1, <3>2, <3>3 DEF Paused, Wrote
  <2>4. CASE SendBefore
    <3>1. pc = "before" /\ pc' \in {"wait", "unsent"}
          /\ (stranded' <=> (stranded \/ (pod'.paused /\ pod.uid # l.sentTo)))
      BY <2>4 DEF SendBefore, Exec, TypeOK
    <3>2. UNCHANGED <<bk, cur, l>> /\ pod'.uid = pod.uid
      BY <2>4, Sending
    <3>3. ASSUME pod'.paused, ~stranded' PROVE Holder(cur)'
      <4>1. pod.uid = l.sentTo /\ bk[cur].exists /\ bk[cur].sentTo = l.sentTo
            /\ bk[cur].resumed = ""
        BY <3>1, <3>3 DEF Paused
      <4>2. bk[cur].sentTo # 0
        BY <3>1, <4>1 DEF SendInv, WorkerKnown
      <4> QED BY <3>2, <4>1, <4>2 DEF Holder, OwesResume
    <3> QED BY <2>0, <2>a, <3>1, <3>2, <3>3
  <2>5. CASE SendAfter
    <3>1. /\ pc' \in {"resumed", "unresumed"} /\ pod'.uid = pod.uid
          /\ (pod'.paused => pod.paused) /\ UNCHANGED <<bk, stranded>>
      BY <2>5, Sending DEF SendAfter, Exec
    <3>2. pc' = "resumed" => ~pod'.paused
      <4>1. pc' = "resumed" => pod.up /\ pod' = [pod EXCEPT !.paused = FALSE]
        BY <2>5 DEF SendAfter, Exec
      <4> QED BY <2>0, <4>1 DEF Pods
    <3>3. \A b \in Backups : Holder(b) => Holder(b)'
      BY <3>1 DEF Holder, OwesResume
    <3> QED BY <3>1, <3>2, <3>3 DEF Paused
  <2>6. CASE StartCopy \/ StartPrune \/ Conflicts \/ CallFails \/ OperatorRestarts
              \/ (Wait /\ UNCHANGED bk)
    <3>1. UNCHANGED <<bk, pod, stranded>> /\ pc' \notin {"before", "resumed", "skip"}
      BY <2>6 DEF StartCopy, StartPrune, CreateJob, Conflicts, CallFails, OperatorRestarts,
         Wait, WriteAndGo, Write, Fail, Done, backupVars, podVars, historyVars
    <3> QED BY <2>c, <3>1
  <2>7. ASSUME NEW b \in Backups, Deletes(b), pc' = "idle" \/ UNCHANGED <<pc, cur, l>>
        PROVE  Paused'
    <3>1. \A a \in Backups : Holder(a) => Holder(a)'
      BY <2>7, DeletionKeepsDebt DEF Holder, OwesResume, Deletes
    <3>2. UNCHANGED <<pod, stranded>>
      BY <2>7 DEF Deletes
    <3>3. CASE pc' = "idle"
      BY <2>b, <3>1, <3>2, <3>3
    <3>4. CASE pc' # "idle"
      <4>1. pc = "before" => bk[cur].sentTo # 0 /\ bk[cur].exists /\ cur \in Backups
        BY <2>0 DEF SendInv, WorkerKnown, Paused
      <4>2. pc = "before" => bk'[cur].exists /\ bk'[cur].sentTo = bk[cur].sentTo
                             /\ bk'[cur].resumed = bk[cur].resumed
        BY <2>7, <4>1, DeletionKeepsDebt
      <4> QED BY <2>7, <3>1, <3>2, <3>4, <4>2 DEF Paused
    <3> QED BY <3>3, <3>4
  <2>8. CASE Expire
    BY <2>7, <2>8, <2>0, Deleting DEF Expire, Done
  <2>9. ASSUME NEW b \in Backups, DeleteBackup(b) PROVE Paused'
    BY <2>7, <2>9, Deleting DEF DeleteBackup, workerVars
  <2>10. ASSUME NEW b \in Backups, CreateBackup(b) PROVE Paused'
    <3>1. UNCHANGED <<pc, cur, l, pod, stranded>> /\ b \notin used
      BY <2>10 DEF CreateBackup, workerVars, podVars
    <3>2. \A a \in Backups : bk[a].exists => bk'[a] = bk[a]
      BY <2>0, <2>10, <3>1 DEF CreateBackup, Objects, Consistent
    <3>3. \A a \in Backups : Holder(a) => Holder(a)'
      BY <3>1, <3>2 DEF Holder, OwesResume
    <3> QED BY <2>0, <3>1, <3>2, <3>3 DEF Paused
  <2>11. CASE PodStarts
    <3>1. ~pod'.paused /\ pod'.uid = pod.uid + 1 /\ UNCHANGED <<pc, cur, l, bk, podCache>>
      BY <2>11 DEF PodStarts, backupVars, workerVars
    <3>2. l.sentTo # pod.uid + 1
      BY <2>0 DEF Remembered, PodsOrdered, BackupObjects, Pods
    <3> QED BY <3>1, <3>2 DEF Paused
  <2>12. CASE PodStops \/ ServerDeleted
    <3>1. ~pod'.paused /\ ~pod'.up /\ UNCHANGED <<pc, cur, l, bk>>
      BY <2>0, <2>12 DEF PodStops, ServerDeleted, backupVars, workerVars, Pods
    <3> QED BY <3>1 DEF Paused
  <2>13. CASE UNCHANGED <<pc, cur, l, bk, pod, stranded>>
    BY <2>13 DEF Paused, Holder, OwesResume
  <2>14. ASSUME NEW k \in JobKeys,
                \/ JobSucceeds(k) \/ AttemptFails(k) \/ JobGivesUp(k) \/ JobRemoved(k) \/ SeeJob(k)
         PROVE  UNCHANGED <<pc, cur, l, bk, pod, stranded>>
    BY <2>14 DEF SeeJob, JobSucceeds, AttemptFails, JobGivesUp, JobRemoved, JobStep, workerVars,
       backupVars, podVars, historyVars
  <2>15. SeePod \/ (\E b \in Backups : SeeBackup(b)) \/ UNCHANGED vars
           => UNCHANGED <<pc, cur, l, bk, pod, stranded>>
    BY DEF SeePod, SeeBackup, vars, workerVars, backupVars, podVars, historyVars
  <2> QED BY <2>1, <2>2, <2>3, <2>4, <2>5, <2>6, <2>8, <2>9, <2>10, <2>11, <2>12, <2>13,
             <2>14, <2>15
          DEF Next, Worker, Watches, Environment, WorkerWrites
<1> QED BY <1>1, <1>2, TypeCorrect, SendInvHolds, BackupsKnown, PodsOrderedHolds,
        RememberedHolds, PTL DEF Spec

-----------------------------------------------------------------------------
(* Nothing is left half done.                                               *)

(* A backup the operator still owes something.                              *)
Needs(o) == o.exists /\ (o.deleting \/ o.phase \notin Ended \/ OwesResume(o))

(* Such a backup is in the queue or worked on, or a watch event is to come. *)
Attended ==
  \A b \in Backups : Needs(bk[b]) => b \in queue \/ cur = b \/ bkCache[b] # bk[b]

(* A reconcile that ends without a step comes back, or owes nothing.        *)
LEMMA IdleComesBack ==
  ASSUME TypeOK, Objects, NEW b \in Backups, bkCache[b] = bk[b], Needs(bk[b]),
         "idle" \in Steps(b, bkCache[b])
  PROVE  ComesBack(bkCache[b]) = {TRUE}
<1> DEFINE o == bk[b]
<1>1. /\ o \in BackupObjects /\ (o.deleting => o.finalizer) /\ o.exists
      /\ o.phase = "Deleting" => o.deleting
  BY DEF TypeOK, Objects, Consistent, Needs
<1>2. CASE o.deleting \/ o.phase = "Running"
  BY <1>1, <1>2 DEF ComesBack
<1>3. CASE ~o.deleting /\ o.phase # "Running"
  <2>1. o.finalizer
    BY <1>1, <1>3 DEF Steps
  <2>2. o.phase # ""
    BY <1>1, <1>3, <2>1 DEF Steps, QuiesceStep
  <2>3. OwesResume(o)
    BY <1>1, <1>3, <2>2 DEF Needs, BackupObjects, Phases
  <2>4. "idle" \in ResumeSteps(b, o)
    BY <1>1, <1>3, <2>1, <2>2 DEF Steps
  <2> QED BY <2>3, <2>4 DEF ResumeSteps
<1> QED BY <1>2, <1>3

(* A write that ends the reconcile comes back, is seen later, or is the last. *)
LEMMA WritesAttended ==
  ASSUME TypeOK, Objects, Copy, WorkerWrites
  PROVE  \E new : /\ Wrote(new) /\ queue \subseteq queue'
                  /\ Needs(new) => cur' = cur \/ cur \in queue' \/ bkCache[cur] # new
<1>0. l \in BackupObjects
  BY DEF TypeOK
<1>1. CASE Adopt
  <2>1. Wrote([l EXCEPT !.finalizer = TRUE]) /\ queue' = queue /\ pc = "adopt"
    BY <1>1, Writing DEF Adopt, WriteAndStop
  <2>2. bkCache[cur].finalizer = FALSE
    <3>1. ~l.finalizer
      BY <2>1 DEF Copy, Fits
    <3>2. pc = "adopt" /\ l = bk[cur]
      BY <2>1 DEF Wrote
    <3>3. bkCache[cur].finalizer = l.finalizer
      BY <3>2 DEF Copy
    <3> QED BY <1>0, <3>1, <3>3 DEF BackupObjects
  <2> QED BY <1>0, <2>1, <2>2 DEF BackupObjects
<1>2. CASE NoVolume \/ Complete
  <2>1. PICK f \in Ended : Wrote([l EXCEPT !.phase = f])
    BY <1>2, Writing DEF Ended
  <2>2. queue' = queue /\ pc \in {"copy", "complete", "fail"}
    BY <1>2 DEF NoVolume, Complete, WriteAndStop
  <2>3. bkCache[cur].phase = l.phase /\ l.phase \in {"", "Running"}
    BY <2>1, <2>2 DEF Copy, Fits, Wrote, Quiescing
  <2>4. bkCache[cur] # [l EXCEPT !.phase = f]
    BY <1>0, <2>3 DEF BackupObjects, Ended
  <2> QED BY <2>1, <2>2, <2>4
<1>3. CASE MarkRunning \/ MarkDeleting \/ AfterFailed
  <2>1. \E new : Wrote(new)
    BY <1>3, Writing
  <2>2. queue' = queue \cup {cur}
    BY <1>3 DEF MarkRunning, MarkDeleting, AfterFailed, WriteAndRequeue, Fail, Requeue
  <2> QED BY <2>1, <2>2
<1>4. CASE DropFinalizer
  <2>1. Wrote(Absent) /\ queue' = queue
    BY <1>4, Writing DEF DropFinalizer, WriteAndStop
  <2>2. ~Needs(Absent)
    BY DEF Needs, Absent
  <2> QED BY <2>1, <2>2
<1>5. CASE Record \/ BeforeFailed \/ (Wait /\ ~UNCHANGED bk)
  <2>1. \E new : Wrote(new)
    <3>1. CASE Record \/ BeforeFailed
      BY <3>1, Writing
    <3>2. CASE Wait /\ ~UNCHANGED bk
      BY <3>2, Writing
    <3> QED BY <1>5, <3>1, <3>2
  <2>2. cur' = cur /\ queue' = queue
    BY <1>5 DEF Record, BeforeFailed, Wait, WriteAndGo, backupVars
  <2> QED BY <2>1, <2>2
<1>6. CASE Resumed \/ GiveUp
  <2>1. PICK new \in {[l EXCEPT !.resumed = "True"],
                      [l EXCEPT !.resumed = "False", !.attempts = @ + 1]} :
          Wrote(new) /\ EndResume(new)
    BY <1>6, Writing DEF Resumed, GiveUp
  <2>2. /\ new.exists = l.exists /\ new.deleting = l.deleting /\ new.phase = l.phase
        /\ new.resumed # ""
    BY <1>0, <2>1 DEF BackupObjects
  <2>3. queue \subseteq queue'
    BY <2>1 DEF EndResume
  <2>4. ASSUME Needs(new) PROVE cur' = cur \/ cur \in queue'
    <3>1. pc \in Resuming /\ pc # "idle"
      BY <1>6 DEF Resumed, GiveUp, Resuming
    <3>2. (l.deleting \/ l.phase \notin {"", "Running"}) /\ (l.phase = "Deleting" => l.deleting)
      BY <2>1, <3>1 DEF Copy, Fits, Wrote, Objects, Consistent
    <3>3. new.exists /\ new.deleting
      BY <1>0, <2>2, <2>4, <3>2 DEF Needs, OwesResume, BackupObjects, Phases
    <3>4. ComesBack(new) = {TRUE}
      BY <3>3 DEF ComesBack
    <3> QED BY <2>1, <3>4 DEF EndResume
  <2> QED BY <2>1, <2>3, <2>4
<1> QED BY <1>1, <1>2, <1>3, <1>4, <1>5, <1>6 DEF WorkerWrites

(* Attended is kept, whatever the caches show.                              *)
LEMMA AttendedHolds == Spec => []Attended
<1>1. Init => Attended
  <2> SUFFICES ASSUME Init PROVE Attended
    OBVIOUS
  <2>1. \A b \in Backups : ~bk[b].exists
    BY DEF Init, Absent
  <2> QED BY <2>1 DEF Attended, Needs
<1>2. TypeOK /\ SendInv /\ Objects /\ Copy /\ Attended /\ [Next]_vars => Attended'
  <2> SUFFICES ASSUME TypeOK, SendInv, Objects, Copy, Attended, [Next]_vars PROVE Attended'
    OBVIOUS
  <2>0. /\ bk \in [Backups -> BackupObjects] /\ bkCache \in [Backups -> BackupObjects]
        /\ (pc # "idle" => cur \in Backups) /\ (pc = "idle" => cur = NoBackup)
        /\ ~Absent.exists
    BY DEF TypeOK, Absent
  <2>a. ASSUME UNCHANGED <<bk, bkCache>>, queue \subseteq queue', cur' = cur \/ cur \in queue'
        PROVE  Attended'
    BY <2>a DEF Attended
  <2>1. ASSUME NEW b \in Backups, BeginReconcile(b) PROVE Attended'
    <3>1. UNCHANGED <<bk, bkCache>> /\ queue \ {b} \subseteq queue' /\ pc = "idle"
      BY <2>1 DEF BeginReconcile, backupVars
    <3>2. Needs(bk[b]) => b \in queue' \/ cur' = b \/ bkCache[b] # bk[b]
      <4>1. CASE pc' # "idle"
        BY <2>1, <4>1 DEF BeginReconcile
      <4>2. CASE pc' = "idle" /\ Needs(bk[b]) /\ bkCache[b] = bk[b]
        <5>1. "idle" \in Steps(b, bkCache[b])
          BY <2>1, <4>2 DEF BeginReconcile
        <5>2. ComesBack(bkCache[b]) = {TRUE}
          BY <4>2, <5>1, IdleComesBack
        <5> QED BY <2>1, <4>2, <5>2 DEF BeginReconcile
      <4> QED BY <4>1, <4>2
    <3>3. ASSUME NEW a \in Backups, a # b, Needs(bk[a])
          PROVE  a \in queue' \/ bkCache[a] # bk[a]
      BY <2>0, <3>1, <3>3, BackupsAssumption DEF Attended
    <3> QED BY <3>1, <3>2, <3>3 DEF Attended
  <2>2. CASE WorkerWrites
    <3>1. PICK new : /\ Wrote(new) /\ queue \subseteq queue'
                     /\ Needs(new) => cur' = cur \/ cur \in queue' \/ bkCache[cur] # new
      BY <2>2, WritesAttended
    <3>2. ASSUME NEW b \in Backups, Needs(bk'[b])
          PROVE  b \in queue' \/ cur' = b \/ bkCache'[b] # bk'[b]
      <4>1. CASE b = cur
        BY <3>1, <3>2, <4>1 DEF Wrote
      <4>2. CASE b # cur
        BY <3>1, <3>2, <4>2 DEF Wrote, Attended
      <4> QED BY <4>1, <4>2
    <3> QED BY <3>2 DEF Attended
  <2>3. ASSUME NEW b \in Backups, Deletes(b), queue' = queue, cur' = cur \/ cur = b,
               b \in queue \/ ~bkCache[b].deleting
        PROVE  Attended'
    <3>1. ASSUME NEW a \in Backups, Needs(bk'[a])
          PROVE  a \in queue' \/ cur' = a \/ bkCache'[a] # bk'[a]
      <4>1. CASE a = b
        <5>1. bk'[b] = Deleted(bk[b]) /\ bkCache' = bkCache
          BY <2>3 DEF Deletes
        <5>2. bk'[b].deleting
          BY <2>0, <3>1, <4>1, <5>1 DEF Deleted, Needs, BackupObjects
        <5> QED BY <2>3, <4>1, <5>1, <5>2
      <4>2. CASE a # b
        <5>1. bk'[a] = bk[a] /\ bkCache' = bkCache
          BY <2>3, <4>2 DEF Deletes
        <5> QED BY <2>3, <3>1, <4>2, <5>1 DEF Attended
      <4> QED BY <4>1, <4>2
    <3> QED BY <3>1 DEF Attended
  <2>4. CASE Expire
    <3>1. pc = "expire" /\ queue' = queue /\ cur \in Backups
      BY <2>0, <2>4 DEF Expire
    <3>2. cur \in queue \/ ~bkCache[cur].deleting
      BY <3>1 DEF Copy
    <3> QED BY <2>3, <2>4, <3>1, <3>2, Deleting
  <2>5. ASSUME NEW b \in Backups, DeleteBackup(b) PROVE Attended'
    <3>1. Deletes(b) /\ bk[b].exists /\ ~bk[b].deleting
      BY <2>5, Deleting
    <3>2. ~bkCache[b].deleting /\ queue' = queue /\ cur' = cur
      BY <2>5, <3>1 DEF Objects, Consistent, DeleteBackup, workerVars
    <3> QED BY <2>3, <3>1, <3>2
  <2>6. ASSUME NEW b \in Backups, CreateBackup(b) PROVE Attended'
    <3>1. /\ ~bkCache[b].exists /\ UNCHANGED <<bkCache, queue, cur>>
          /\ \A a \in Backups : a # b => bk'[a] = bk[a]
      BY <2>0, <2>6 DEF Objects, Consistent, CreateBackup, workerVars
    <3>2. Needs(bk'[b]) => bkCache'[b] # bk'[b]
      BY <3>1 DEF Needs
    <3> QED BY <3>1, <3>2 DEF Attended
  <2>7. ASSUME NEW b \in Backups, SeeBackup(b) PROVE Attended'
    <3>1. /\ UNCHANGED <<bk, cur>> /\ queue' = queue \cup {b}
          /\ \A a \in Backups : a # b => bkCache'[a] = bkCache[a]
      BY <2>0, <2>7 DEF SeeBackup, workerVars
    <3> QED BY <3>1 DEF Attended
  <2>8. CASE OperatorRestarts
    BY <2>8 DEF OperatorRestarts, Attended, Needs
  <2>9. SendBefore \/ StartCopy \/ SendAfter \/ StartPrune \/ Conflicts \/ CallFails
        \/ (Wait /\ UNCHANGED bk)
          => UNCHANGED <<bk, bkCache>> /\ queue \subseteq queue' /\ (cur' = cur \/ cur \in queue')
    BY DEF SendBefore, Exec, StartCopy, SendAfter, StartPrune, CreateJob, Conflicts, CallFails,
       Wait, Fail, Requeue, WriteAndGo, Write, backupVars
  <2>10. ASSUME \/ SeePod \/ PodStarts \/ PodStops \/ ServerDeleted \/ UNCHANGED vars
                \/ \E k \in JobKeys : \/ JobSucceeds(k) \/ AttemptFails(k) \/ JobGivesUp(k)
                                      \/ JobRemoved(k) \/ SeeJob(k)
         PROVE  UNCHANGED <<bk, bkCache, cur>> /\ queue \subseteq queue'
    BY <2>10 DEF SeePod, PodStarts, PodStops, ServerDeleted, JobSucceeds, AttemptFails,
       JobGivesUp, JobRemoved, JobStep, SeeJob, vars, workerVars, backupVars
  <2> QED BY <2>a, <2>1, <2>2, <2>4, <2>5, <2>6, <2>7, <2>8, <2>9, <2>10
          DEF Next, Worker, Watches, Environment, WorkerWrites
<1> QED BY <1>1, <1>2, TypeCorrect, SendInvHolds, BackupsKnown, PTL DEF Spec

(* Settled: when nothing is left to do no backup is under way or waits to   *)
(* be deleted, and the game saves its world unless nobody could know that   *)
(* it does not.  No write has to be seen at once for it.                    *)
THEOREM AllSettled == Spec => []Settled
<1>1. TypeOK /\ Objects /\ Paused /\ Attended => Settled
  <2> SUFFICES ASSUME TypeOK, Objects, Paused, Attended, pc = "idle", queue = {}, bkCache = bk
               PROVE  /\ \A b \in Backups : ~UnderWay(b) /\ ~bk[b].deleting
                      /\ pod.paused => stranded
    BY DEF Settled
  <2>1. ASSUME NEW b \in Backups PROVE ~UnderWay(b) /\ ~bk[b].deleting
    <3>1. ~Needs(bk[b])
      BY BackupsAssumption DEF Attended, TypeOK
    <3>2. bk[b].deleting => bk[b].exists
      BY DEF Objects, Consistent, Absent
    <3> QED BY <3>1, <3>2 DEF Needs, UnderWay
  <2>2. pod.paused => stranded
    BY <2>1 DEF Paused, Holder, UnderWay
  <2> QED BY <2>1, <2>2
<1> QED BY <1>1, TypeCorrect, BackupsKnown, PausedHolds, AttendedHolds, PTL

-----------------------------------------------------------------------------
(* How one backup moves on, and how Jobs do.                                *)

(* The phases in order; a Pod is chosen once, before the copy; a deletion   *)
(* is not taken back.                                                       *)
MovesOn(b) ==
  /\ bk[b].exists /\ bk'[b].exists
  /\ bk[b].deleting => bk'[b].deleting
  /\ \/ bk'[b].phase = bk[b].phase
     \/ bk[b].phase = "" /\ bk'[b].phase = "Running"
     \/ bk[b].phase = "" /\ bk'[b].phase = "Failed" /\ ~volume
     \/ bk[b].phase = "Running" /\ bk'[b].phase \in Ended /\ cur = b /\ pc \in {"complete", "fail"}
     \/ bk[b].phase \in {"Completed", "Deleting"} /\ bk'[b].phase = "Deleting"
  /\ bk'[b].sentTo = bk[b].sentTo \/ (bk[b].sentTo = 0 /\ bk[b].phase = "")
  /\ OwesResume(bk'[b]) => OwesResume(bk[b]) \/ bk[b].phase = ""

(* Only the worker removes a backup that has its finalizer.                 *)
Goes(b) ==
  bk'[b] = Absent /\ (bk[b].finalizer => DropFinalizer /\ cur = b /\ l = bk[b])

(* A write by the worker moves its backup on, or removes it.                *)
LEMMA WritesMove ==
  ASSUME TypeOK, SendInv, Objects, Copy, WorkerWrites
  PROVE  \E new : Wrote(new) /\ (MovesOn(cur) \/ Goes(cur))
<1>0. l \in BackupObjects /\ (pc # "idle" => l.exists)
  BY DEF TypeOK, Copy, Fits
<1>1. CASE Adopt \/ AfterFailed
  <2>1. PICK new \in {[l EXCEPT !.finalizer = TRUE], [l EXCEPT !.attempts = @ + 1]} : Wrote(new)
    BY <1>1, Writing
  <2>2. /\ new.exists /\ new.deleting = l.deleting /\ new.phase = l.phase
        /\ new.sentTo = l.sentTo /\ new.resumed = l.resumed
    BY <1>0, <2>1 DEF Wrote, BackupObjects
  <2>3. cur \in Backups /\ bk'[cur] = new /\ bk[cur] = l /\ l.exists
    BY <1>0, <2>1 DEF Wrote
  <2>4. MovesOn(cur)
    BY <2>2, <2>3 DEF MovesOn, OwesResume
  <2> QED BY <2>1, <2>4
<1>2. CASE Record
  <2> DEFINE new == [l EXCEPT !.sentTo = target]
  <2>1. Wrote(new) /\ pc = "record" /\ l.sentTo = 0
    BY <1>2, Writing DEF Record, SendInv, WorkerKnown
  <2>2. l.phase = "" /\ new.exists /\ new.deleting = l.deleting /\ new.phase = l.phase
    BY <1>0, <2>1 DEF Copy, Fits, Quiescing, BackupObjects
  <2>3. cur \in Backups /\ bk'[cur] = new /\ bk[cur] = l /\ l.exists
    BY <1>0, <2>1 DEF Wrote
  <2>4. MovesOn(cur)
    BY <2>1, <2>2, <2>3 DEF MovesOn
  <2> QED BY <2>1, <2>4
<1>3. CASE BeforeFailed \/ (Wait /\ ~UNCHANGED bk)
  <2>1. PICK d \in {"True", "False"} : Wrote([l EXCEPT !.quiesced = d])
    BY <1>3, Writing
  <2> DEFINE new == [l EXCEPT !.quiesced = d]
  <2>2. /\ new.exists /\ new.deleting = l.deleting /\ new.phase = l.phase
        /\ new.sentTo = l.sentTo /\ new.resumed = l.resumed
    BY <1>0, <2>1 DEF Wrote, BackupObjects
  <2> QED BY <1>0, <2>1, <2>2 DEF Wrote, MovesOn, OwesResume
<1>4. CASE NoVolume \/ MarkRunning \/ MarkDeleting \/ Complete
  <2>1. PICK f \in Phases :
          /\ Wrote([l EXCEPT !.phase = f])
          /\ \/ NoVolume /\ f = "Failed"
             \/ MarkRunning /\ f = "Running"
             \/ MarkDeleting /\ f = "Deleting"
             \/ Complete /\ f \in Ended
    BY <1>4, Writing, PhasesKnown DEF Ended
  <2> DEFINE new == [l EXCEPT !.phase = f]
  <2>2. /\ new.exists /\ new.deleting = l.deleting /\ new.phase = f
        /\ new.sentTo = l.sentTo /\ new.resumed = l.resumed
    BY <1>0, <2>1 DEF Wrote, BackupObjects
  <2>3. \/ l.phase = "" /\ f = "Running"
        \/ l.phase = "" /\ f = "Failed" /\ ~volume
        \/ l.phase = "Running" /\ f \in Ended /\ pc \in {"complete", "fail"}
        \/ l.phase \in {"Completed", "Deleting"} /\ f = "Deleting"
    BY <2>1 DEF NoVolume, MarkRunning, MarkDeleting, Complete, Copy, Fits, Quiescing
  <2>4. cur \in Backups /\ bk'[cur] = new /\ bk[cur] = l /\ l.exists
    BY <1>0, <2>1 DEF Wrote
  <2>5. MovesOn(cur)
    BY <2>2, <2>3, <2>4 DEF MovesOn, OwesResume
  <2> QED BY <2>1, <2>5
<1>5. CASE Resumed \/ GiveUp
  <2>1. PICK new \in {[l EXCEPT !.resumed = "True"],
                      [l EXCEPT !.resumed = "False", !.attempts = @ + 1]} : Wrote(new)
    BY <1>5, Writing
  <2>2. /\ new.exists /\ new.deleting = l.deleting /\ new.phase = l.phase
        /\ new.sentTo = l.sentTo /\ new.resumed # ""
    <3>0. l.exists
      BY <1>0, <2>1 DEF Wrote
    <3>1. CASE new = [l EXCEPT !.resumed = "True"]
      BY <1>0, <3>0, <3>1 DEF BackupObjects
    <3>2. CASE new = [l EXCEPT !.resumed = "False", !.attempts = @ + 1]
      BY <1>0, <3>0, <3>2 DEF BackupObjects
    <3> QED BY <2>1, <3>1, <3>2
  <2>3. cur \in Backups /\ bk'[cur] = new /\ bk[cur] = l /\ l.exists
    BY <1>0, <2>1 DEF Wrote
  <2>4. MovesOn(cur)
    BY <2>2, <2>3 DEF MovesOn, OwesResume
  <2> QED BY <2>1, <2>4
<1>6. CASE DropFinalizer
  <2>1. Wrote(Absent)
    BY <1>6, Writing
  <2>2. Goes(cur)
    BY <1>6, <2>1 DEF Wrote, Goes
  <2> QED BY <2>1, <2>2
<1> QED BY <1>1, <1>2, <1>3, <1>4, <1>5, <1>6 DEF WorkerWrites

(* A backup changes by being created, by moving on or by going; the rest    *)
(* then stays.                                                              *)
LEMMA Moves ==
  ASSUME TypeOK, SendInv, Objects, Copy, [Next]_vars, ~UNCHANGED bk
  PROVE  /\ UNCHANGED <<job, jobCache, snapshot, gaveUp, pod, podCache, heard, volume>>
         /\ (overlapped \in BOOLEAN /\ ~overlapped' => ~overlapped)
         /\ \A b \in Backups :
              \/ bk'[b] = bk[b]
              \/ CreateBackup(b) /\ bk'[b] = [Absent EXCEPT !.exists = TRUE]
              \/ MovesOn(b) \/ Goes(b)
<1>0. bk \in [Backups -> BackupObjects] /\ ~Absent.finalizer
  BY DEF TypeOK, Absent
<1>1. CASE WorkerWrites
  <2>1. PICK new : Wrote(new) /\ (MovesOn(cur) \/ Goes(cur))
    BY <1>1, WritesMove
  <2> QED BY <2>1 DEF Wrote
<1>2. ASSUME NEW b \in Backups, Deletes(b)
      PROVE  MovesOn(b) \/ Goes(b) \/ bk'[b] = bk[b]
  <2>1. bk[b] \in BackupObjects /\ bk'[b] = Deleted(bk[b])
    BY <1>0, <1>2 DEF Deletes
  <2>2. CASE bk[b].finalizer
    <3>1. bk'[b] = [bk[b] EXCEPT !.deleting = TRUE]
      BY <2>1, <2>2 DEF Deleted
    <3>2. bk[b].exists
      BY <1>0, <2>2 DEF Objects, Consistent
    <3>3. /\ bk'[b].exists /\ bk'[b].deleting /\ bk'[b].phase = bk[b].phase
          /\ bk'[b].sentTo = bk[b].sentTo /\ bk'[b].resumed = bk[b].resumed
      BY <2>1, <3>1, <3>2 DEF BackupObjects
    <3> QED BY <3>2, <3>3 DEF MovesOn, OwesResume
  <2>3. CASE ~bk[b].finalizer
    BY <2>1, <2>3 DEF Deleted, Goes
  <2> QED BY <2>2, <2>3
<1>3. ASSUME NEW b \in Backups, Deletes(b)
      PROVE  /\ UNCHANGED <<job, jobCache, snapshot, gaveUp, pod, podCache, heard, volume,
                            overlapped>>
             /\ \A a \in Backups : bk'[a] = bk[a] \/ MovesOn(a) \/ Goes(a)
  BY <1>2, <1>3 DEF Deletes
<1>4. CASE Expire
  <2>1. cur \in Backups /\ Deletes(cur)
    BY <1>4, Deleting DEF Expire, TypeOK
  <2> QED BY <1>3, <2>1
<1>5. ASSUME NEW b \in Backups, DeleteBackup(b)
      PROVE  /\ UNCHANGED <<job, jobCache, snapshot, gaveUp, pod, podCache, heard, volume,
                            overlapped>>
             /\ \A a \in Backups : bk'[a] = bk[a] \/ MovesOn(a) \/ Goes(a)
  BY <1>3, <1>5, Deleting
<1>6. ASSUME NEW b \in Backups, CreateBackup(b)
      PROVE  /\ UNCHANGED <<job, jobCache, snapshot, gaveUp, pod, podCache, heard, volume>>
             /\ (overlapped \in BOOLEAN /\ ~overlapped' => ~overlapped)
             /\ \A a \in Backups :
                  bk'[a] = bk[a] \/ (CreateBackup(a) /\ bk'[a] = [Absent EXCEPT !.exists = TRUE])
  BY <1>0, <1>6 DEF CreateBackup, jobVars, podVars
<1>7. OperatorRestarts \/ (\E b \in Backups : SeeBackup(b)) => UNCHANGED bk
  BY DEF OperatorRestarts, SeeBackup
<1> QED BY <1>1, <1>4, <1>5, <1>6, <1>7, StepsOnBackups

(* Which steps touch Jobs, their cached copies or snapshots.                *)
LEMMA StepsOnJobs ==
  ASSUME [Next]_vars
  PROVE  \/ UNCHANGED <<job, jobCache, snapshot, gaveUp>>
         \/ StartCopy \/ StartPrune \/ OperatorRestarts
         \/ \E k \in JobKeys : \/ SeeJob(k) \/ JobSucceeds(k) \/ AttemptFails(k)
                               \/ JobGivesUp(k) \/ JobRemoved(k)
BY DEF Next, Worker, BeginReconcile, Adopt, Record, SendBefore, SendAfter, Exec, BeforeFailed,
   Wait, NoVolume, MarkRunning, MarkDeleting, Complete, AfterFailed, Resumed, GiveUp,
   EndResume, DropFinalizer, Expire, Conflicts, CallFails, WriteAndStop, WriteAndRequeue,
   WriteAndGo, Write, Watches, SeeBackup, SeePod, Environment, PodStarts, PodStops,
   ServerDeleted, CreateBackup, DeleteBackup, vars, jobVars, historyVars

-----------------------------------------------------------------------------
(* What a reconcile goes by when it finds the operator's own writes.        *)

(* The same but for a deletion.                                             *)
Alike(o, p) ==
  /\ o.exists = p.exists /\ o.phase = p.phase /\ o.finalizer = p.finalizer
  /\ o.sentTo = p.sentTo /\ o.resumed = p.resumed

(* Its copy is the backup's state but for a deletion by a user.             *)
Current ==
  CaughtUp /\ pc # "idle"
    => (~bk[cur].exists /\ ~l.finalizer) \/ Alike(l, bk[cur])

LEMMA CurrentHolds == Spec => []Current
<1>1. Init => Current
  BY DEF Init, Current
<1>2. TypeOK /\ SendInv /\ Objects /\ Copy /\ Current /\ [Next]_vars => Current'
  <2> SUFFICES ASSUME TypeOK, SendInv, Objects, Copy, Current, [Next]_vars, CaughtUp, pc' # "idle"
               PROVE  (~bk[cur].exists /\ ~l.finalizer)' \/ Alike(l', bk'[cur'])
    BY DEF Current
  <2>0. /\ bk \in [Backups -> BackupObjects] /\ bkCache \in [Backups -> BackupObjects]
        /\ (pc # "idle" => cur \in Backups) /\ ~Absent.exists /\ ~Absent.finalizer
    BY DEF TypeOK, Absent
  <2>1. ASSUME NEW b \in Backups, BeginReconcile(b)
        PROVE  (~bk[cur].exists /\ ~l.finalizer)' \/ Alike(l', bk'[cur'])
    <3>1. cur' = b /\ l' = bkCache[b] /\ bk' = bk /\ OwnWritesSeen(b)
      BY <2>1 DEF BeginReconcile, backupVars
    <3>2. bk[b] \in BackupObjects /\ bkCache[b] \in BackupObjects
      BY <2>0
    <3>3. [bkCache[b] EXCEPT !.deleting = bk[b].deleting] = bk[b] => Alike(bkCache[b], bk[b])
      BY <3>2 DEF BackupObjects, Alike
    <3> QED BY <3>1, <3>3 DEF OwnWritesSeen
  <2>2. CASE WorkerWrites
    <3>1. CASE Record \/ BeforeFailed \/ (Wait /\ ~UNCHANGED bk)
      <4>1. PICK new, next : WriteAndGo(new, next)
        BY <3>1, <2>2 DEF Record, BeforeFailed, Wait, backupVars
      <4>2. l' = new /\ cur' = cur /\ bk' = [bk EXCEPT ![cur] = new] /\ pc # "idle"
        BY <3>1, <4>1 DEF WriteAndGo, Write, Record, BeforeFailed, Wait
      <4> QED BY <2>0, <4>2 DEF Alike
    <3>2. CASE Resumed \/ GiveUp
      <4>1. PICK new : EndResume(new)
        BY <3>2 DEF Resumed, GiveUp
      <4>2. l' = new /\ cur' = cur /\ bk' = [bk EXCEPT ![cur] = new] /\ pc # "idle"
        BY <3>2, <4>1 DEF EndResume, Write, Resumed, GiveUp
      <4> QED BY <2>0, <4>2 DEF Alike
    <3> QED BY <2>2, <3>1, <3>2, Idling DEF WorkerWrites, Idles
  <2>3. ASSUME NEW b \in Backups, DeleteBackup(b)
        PROVE  (~bk[cur].exists /\ ~l.finalizer)' \/ Alike(l', bk'[cur'])
    <3>1. UNCHANGED <<pc, cur, l>> /\ Deletes(b) /\ bk[b] \in BackupObjects
      BY <2>0, <2>3, Deleting DEF DeleteBackup, workerVars
    <3>2. /\ \A a \in Backups : a # b => bk'[a] = bk[a]
          /\ bk[b].finalizer => Alike(bk[b], bk'[b])
          /\ ~bk[b].finalizer => ~bk'[b].exists
      <4>1. bk'[b] = Deleted(bk[b]) /\ \A a \in Backups : a # b => bk'[a] = bk[a]
        BY <3>1 DEF Deletes
      <4>2. bk[b].finalizer => Alike(bk[b], bk'[b])
        <5>1. bk[b].finalizer => bk'[b] = [bk[b] EXCEPT !.deleting = TRUE]
          BY <4>1 DEF Deleted
        <5> QED BY <3>1, <5>1 DEF Alike, BackupObjects
      <4>3. ~bk[b].finalizer => ~bk'[b].exists
        BY <2>0, <4>1 DEF Deleted
      <4> QED BY <4>1, <4>2, <4>3
    <3>3. CASE cur # b
      BY <2>0, <3>1, <3>2, <3>3 DEF Current
    <3>4. CASE cur = b /\ bk[b].finalizer
      <4>1. bk[b].exists
        BY <2>0, <3>4 DEF Objects, Consistent
      <4> QED BY <3>1, <3>2, <3>4, <4>1 DEF Current, Alike
    <3>5. CASE cur = b /\ ~bk[b].finalizer
      <4>1. ~l.finalizer
        BY <3>1, <3>5 DEF Current, Alike
      <4> QED BY <3>1, <3>2, <3>5, <4>1
    <3> QED BY <3>3, <3>4, <3>5
  <2>4. ASSUME NEW b \in Backups, CreateBackup(b)
        PROVE  (~bk[cur].exists /\ ~l.finalizer)' \/ Alike(l', bk'[cur'])
    <3>1. UNCHANGED <<pc, cur, l>> /\ b # cur
      BY <2>4 DEF CreateBackup, workerVars, Copy
    <3> QED BY <2>0, <2>4, <3>1 DEF CreateBackup, Current
  <2>5. CASE UNCHANGED <<bk, cur, l>> /\ pc # "idle"
    BY <2>5 DEF Current
  <2>6. SendBefore \/ StartCopy \/ SendAfter \/ StartPrune => UNCHANGED <<bk, cur, l>> /\ pc # "idle"
    BY DEF SendBefore, Exec, StartCopy, SendAfter, StartPrune, CreateJob, backupVars
  <2>7. Wait /\ UNCHANGED bk => Alike(l', bk'[cur'])
    <3>1. ASSUME Wait PROVE Alike(l', bk'[cur'])
      <4>1. PICK new : WriteAndGo(new, "copy") /\ cur \in Backups
        BY <2>0, <3>1 DEF Wait, Fail, Done
      <4>2. l' = new /\ cur' = cur /\ bk' = [bk EXCEPT ![cur] = new]
        BY <4>1 DEF WriteAndGo, Write
      <4> QED BY <2>0, <4>1, <4>2 DEF Alike
    <3> QED BY <3>1
  <2>8. ASSUME \/ PodStarts \/ PodStops \/ ServerDeleted \/ UNCHANGED vars \/ Watches
               \/ \E k \in JobKeys : \/ JobSucceeds(k) \/ AttemptFails(k) \/ JobGivesUp(k)
                                     \/ JobRemoved(k)
        PROVE  UNCHANGED <<bk, cur, l, pc>>
    BY <2>8 DEF Watches, SeePod, SeeBackup, PodStarts, PodStops, ServerDeleted, JobSucceeds,
       AttemptFails, JobGivesUp, JobRemoved, JobStep, SeeJob, vars, workerVars, backupVars
  <2> QED BY <2>1, <2>2, <2>3, <2>4, <2>5, <2>6, <2>7, <2>8, Idling
          DEF Next, Worker, Environment, WorkerWrites, Idles
<1> QED BY <1>1, <1>2, TypeCorrect, SendInvHolds, BackupsKnown, PTL DEF Spec

(* A worker that has adopted its backup knows all of it but a deletion.     *)
LEMMA Known ==
  ASSUME Copy, Current, CaughtUp, pc \notin {"idle", "adopt"}
  PROVE  Alike(l, bk[cur]) /\ bk[cur].exists
BY DEF Copy, Current, Fits, Alike

-----------------------------------------------------------------------------
(* A backup is over only when its copy is.                                  *)

(* A Job at work copies for a backup that is not over, unless there is      *)
(* nothing left to copy; one that is being reported has stopped.            *)
Copied ==
  CaughtUp =>
    /\ \A b \in Backups :
         AtWork(job[<<"copy", b>>])
           => /\ bk[b].phase \notin {"Completed", "Deleting"}
              /\ bk[b].phase = "Failed" => ~volume
    /\ pc \in {"complete", "fail"} => ~AtWork(job[<<"copy", cur>>])

(* A Job starts to work only where the worker starts it.                    *)
LEMMA JobsStart ==
  ASSUME TypeOK, [Next]_vars, NEW b \in Backups, AtWork(job'[<<"copy", b>>]),
         ~AtWork(job[<<"copy", b>>])
  PROVE  StartCopy /\ cur = b
<1>0. job \in [JobKeys -> Jobs] /\ <<"copy", b>> \in JobKeys
  BY DEF TypeOK, JobKeys
<1>1. CASE UNCHANGED job
  BY <1>1
<1>2. CASE StartCopy
  <2>1. job' = [job EXCEPT ![<<"copy", cur>>] = IF @ = "none" THEN "active" ELSE @]
    BY <1>2 DEF StartCopy, CreateJob
  <2>2. b # cur => job'[<<"copy", b>>] = job[<<"copy", b>>]
    BY <1>0, <2>1
  <2> QED BY <1>2, <2>2
<1>3. CASE StartPrune
  <2>1. job' = [job EXCEPT ![<<"prune", cur>>] = IF @ = "none" THEN "active" ELSE @]
    BY <1>3 DEF StartPrune, CreateJob
  <2> QED BY <1>0, <2>1
<1>4. ASSUME NEW k \in JobKeys,
             \/ JobSucceeds(k) \/ AttemptFails(k) \/ JobGivesUp(k) \/ JobRemoved(k)
      PROVE  FALSE
  <2>1. \A j \in JobKeys : j # k => job'[j] = job[j]
    BY <1>0, <1>4 DEF JobSucceeds, AttemptFails, JobGivesUp, JobRemoved, JobStep
  <2>2. AtWork(job'[k]) => AtWork(job[k])
    BY <1>0, <1>4 DEF JobSucceeds, AttemptFails, JobGivesUp, JobRemoved, JobStep, AtWork
  <2> QED BY <1>0, <2>1, <2>2
<1>5. OperatorRestarts \/ (\E k \in JobKeys : SeeJob(k)) => UNCHANGED job
  BY DEF OperatorRestarts, SeeJob
<1> QED BY <1>1, <1>2, <1>3, <1>4, <1>5, StepsOnJobs

(* A reconcile reports a Job that has stopped, as the cache has it.         *)
LEMMA ReportsStopped ==
  ASSUME NEW b \in Backups, NEW o \in BackupObjects, NEW step \in Steps(b, o),
         step \in {"complete", "fail"}
  PROVE  ~AtWork(jobCache[<<"copy", b>>])
<1>1. step \notin ResumeSteps(b, o) /\ step # QuiesceStep(o)
  BY StepsType DEF ResumeSteps, QuiesceStep
<1>2. step = PollStep(jobCache[<<"copy", b>>])
  BY <1>1 DEF Steps
<1> QED BY <1>2 DEF PollStep, AtWork

LEMMA CopiedHolds == Spec => []Copied
<1>1. Init => Copied
  <2> SUFFICES ASSUME Init PROVE Copied
    OBVIOUS
  <2>1. \A b \in Backups : job[<<"copy", b>>] = "none"
    BY DEF Init, JobKeys
  <2> QED BY <2>1 DEF Init, Copied, AtWork
<1>2. TypeOK /\ SendInv /\ Objects /\ Copy /\ Current /\ Copied /\ [Next]_vars => Copied'
  <2> SUFFICES ASSUME TypeOK, SendInv, Objects, Copy, Current, Copied, [Next]_vars, CaughtUp
               PROVE  Copied'
    BY DEF Copied
  <2>0. /\ bk \in [Backups -> BackupObjects] /\ bkCache \in [Backups -> BackupObjects]
        /\ (pc # "idle" => cur \in Backups) /\ volume \in BOOLEAN
        /\ Absent.phase = "" /\ [Absent EXCEPT !.exists = TRUE].phase = ""
    BY DEF TypeOK, Absent
  <2>1. ~volume => ~volume'
    BY StepsOnPod, Sending DEF OperatorRestarts, SeePod, PodStarts, PodStops, ServerDeleted
  <2>2. ASSUME NEW b \in Backups, AtWork(job'[<<"copy", b>>])
        PROVE  /\ bk'[b].phase \notin {"Completed", "Deleting"}
               /\ bk'[b].phase = "Failed" => ~volume'
    <3>1. CASE ~AtWork(job[<<"copy", b>>])
      <4>1. StartCopy /\ cur = b
        BY <2>2, <3>1, JobsStart
      <4>2. bk' = bk /\ pc = "copy"
        BY <4>1 DEF StartCopy, CreateJob, backupVars
      <4>3. bk[b].phase = ""
        BY <4>1, <4>2, Known DEF Copy, Fits, Quiescing, Alike
      <4> QED BY <4>2, <4>3
    <3>2. CASE AtWork(job[<<"copy", b>>]) /\ bk'[b] = bk[b]
      BY <2>1, <3>2 DEF Copied
    <3>3. CASE AtWork(job[<<"copy", b>>]) /\ bk'[b] # bk[b]
      <4>1. MovesOn(b) \/ bk'[b].phase = ""
        BY <2>0, <3>3, Moves DEF Goes
      <4>2. MovesOn(b) => bk'[b].phase \notin {"Completed", "Deleting"}
                          /\ (bk'[b].phase = "Failed" => ~volume)
        BY <3>3 DEF MovesOn, Copied, Ended
      <4> QED BY <2>1, <4>1, <4>2
    <3> QED BY <3>1, <3>2, <3>3
  <2>3. ASSUME pc' \in {"complete", "fail"}, AtWork(job'[<<"copy", cur'>>]) PROVE FALSE
    <3>1. ASSUME NEW b \in Backups, BeginReconcile(b) PROVE FALSE
      <4>1. cur' = b /\ OwnWritesSeen(b) /\ job' = job /\ pc' \in Steps(b, bkCache[b])
        BY <2>3, <3>1 DEF BeginReconcile, jobVars
      <4>2. ~AtWork(jobCache[<<"copy", b>>])
        BY <2>0, <2>3, <4>1, ReportsStopped
      <4> QED BY <2>3, <4>1, <4>2 DEF OwnWritesSeen
    <3>2. CASE UNCHANGED <<pc, cur>>
      <4>1. cur \in Backups /\ pc \in {"complete", "fail"}
        BY <2>0, <2>3, <3>2
      <4>2. ~StartCopy
        BY <4>1 DEF StartCopy, CreateJob
      <4>3. ~AtWork(job[<<"copy", cur>>])
        BY <4>1 DEF Copied
      <4> QED BY <2>3, <3>2, <4>1, <4>2, <4>3, JobsStart
    <3>3. Worker \/ CallFails \/ OperatorRestarts
            => pc' \notin {"complete", "fail"} \/ (\E b \in Backups : BeginReconcile(b))
      <4>1. Resumed \/ GiveUp => pc' \notin {"complete", "fail"}
        <5>1. ASSUME Resumed \/ GiveUp PROVE pc' \notin {"complete", "fail"}
          <6>1. cur \in Backups /\ \E n : pc' \in AfterResume(cur, n)
            BY <2>0, <5>1 DEF Resumed, GiveUp, EndResume
          <6> QED BY <6>1, StepsType
        <5> QED BY <5>1
      <4>2. Record \/ SendBefore \/ BeforeFailed \/ Wait \/ StartCopy \/ SendAfter \/ StartPrune
              => pc' \notin {"complete", "fail"}
        BY DEF Record, SendBefore, BeforeFailed, Wait, StartCopy, SendAfter, StartPrune,
           WriteAndGo, Exec, CreateJob, Fail, Done
      <4> QED BY <4>1, <4>2, Idling DEF Worker, Idles
    <3> QED BY <2>3, <3>1, <3>2, <3>3, WorkerKept DEF Next
  <2> QED BY <2>2, <2>3 DEF Copied
<1> QED BY <1>1, <1>2, TypeCorrect, SendInvHolds, BackupsKnown, CurrentHolds, PTL DEF Spec

-----------------------------------------------------------------------------
(* The Pod does not save while it is copied.                                *)

(* The backups that may send, or have sent, Before and owe After.           *)
Active(b) == bk[b].exists /\ (bk[b].phase \in {"", "Running"} \/ OwesResume(bk[b]))

(* There is one at a time, unless two were made to overlap.                 *)
Alone == ~overlapped => \A a, b \in Backups : Active(a) /\ Active(b) => a = b

(* What has overlapped has; only SendBefore reaches a game.                 *)
LEMMA HistoryGrows ==
  ASSUME TypeOK, [Next]_vars
  PROVE  /\ ~overlapped' => ~overlapped
         /\ ~SendBefore => UNCHANGED <<sends, heard>>
<1>1. UNCHANGED overlapped \/ \E b \in Backups : CreateBackup(b)
  BY DEF Next, Worker, BeginReconcile, Adopt, Record, SendBefore, SendAfter, Exec,
     BeforeFailed, Wait, StartCopy, StartPrune, CreateJob, NoVolume, MarkRunning,
     MarkDeleting, Complete, AfterFailed, Resumed, GiveUp, EndResume, DropFinalizer,
     Expire, Conflicts, CallFails, OperatorRestarts, WriteAndStop, WriteAndRequeue,
     WriteAndGo, Write, Watches, SeeBackup, SeePod, SeeJob, Environment, PodStarts,
     PodStops, ServerDeleted, DeleteBackup, JobSucceeds, AttemptFails, JobGivesUp,
     JobRemoved, JobStep, vars, historyVars
<1>2. SendBefore \/ UNCHANGED <<sends, heard>>
  BY DEF Next, Worker, BeginReconcile, Adopt, Record, SendAfter, Exec,
     BeforeFailed, Wait, StartCopy, StartPrune, CreateJob, NoVolume, MarkRunning,
     MarkDeleting, Complete, AfterFailed, Resumed, GiveUp, EndResume, DropFinalizer,
     Expire, Conflicts, CallFails, OperatorRestarts, WriteAndStop, WriteAndRequeue,
     WriteAndGo, Write, Watches, SeeBackup, SeePod, SeeJob, Environment, PodStarts,
     PodStops, ServerDeleted, CreateBackup, DeleteBackup, JobSucceeds, AttemptFails,
     JobGivesUp, JobRemoved, JobStep, vars, historyVars
<1>3. overlapped \in BOOLEAN
  BY DEF TypeOK
<1> QED BY <1>1, <1>2, <1>3 DEF CreateBackup

LEMMA AloneHolds == Spec => []Alone
<1>1. Init => Alone
  <2> SUFFICES ASSUME Init PROVE Alone
    OBVIOUS
  <2>1. \A b \in Backups : ~bk[b].exists
    BY DEF Init, Absent
  <2> QED BY <2>1 DEF Alone, Active
<1>2. TypeOK /\ SendInv /\ Objects /\ Copy /\ Alone /\ [Next]_vars => Alone'
  <2> SUFFICES ASSUME TypeOK, SendInv, Objects, Copy, Alone, [Next]_vars PROVE Alone'
    OBVIOUS
  <2>1. CASE UNCHANGED bk
    BY <2>1, HistoryGrows DEF Alone, Active, OwesResume
  <2>2. CASE ~UNCHANGED bk
    <3>0. overlapped \in BOOLEAN /\ bk \in [Backups -> BackupObjects] /\ ~Absent.exists
      BY DEF TypeOK, Absent
    <3>1. ~overlapped' => ~overlapped
      BY <2>2, <3>0, Moves
    <3>2. ASSUME NEW b \in Backups, Active(b)', ~CreateBackup(b) PROVE Active(b)
      <4>1. bk'[b] = bk[b] \/ MovesOn(b) \/ bk'[b] = Absent
        BY <2>2, <3>2, Moves DEF Goes
      <4>2. MovesOn(b) => Active(b)
        BY <3>2 DEF MovesOn, Active, Ended
      <4> QED BY <3>0, <3>2, <4>1, <4>2 DEF Active, OwesResume
    <3>3. ASSUME NEW b \in Backups, CreateBackup(b), ~overlapped'
          PROVE  \A a \in Backups : Active(a)' => a = b
      <4>1. \A a \in Backups : ~UnderWay(a)
        BY <3>3 DEF CreateBackup
      <4>2. ASSUME NEW a \in Backups, a # b, Active(a)' PROVE FALSE
        <5>1. bk'[a] = bk[a]
          BY <3>0, <3>3, <4>2 DEF CreateBackup
        <5>2. UnderWay(a)
          BY <4>2, <5>1 DEF Active, UnderWay, OwesResume, Ended
        <5> QED BY <4>1, <5>2
      <4> QED BY <4>2
    <3> QED BY <3>1, <3>2, <3>3 DEF Alone
  <2> QED BY <2>1, <2>2
<1> QED BY <1>1, <1>2, TypeCorrect, SendInvHolds, BackupsKnown, PTL DEF Spec

(* A backup whose Before all reached the Pod, as long as it may be copying. *)
Counts(b) ==
  /\ bk[b].exists /\ ~bk[b].deleting /\ bk[b].phase \in {"", "Running"}
  /\ pod.up /\ pod.uid = bk[b].sentTo

(* Its Pod does not save.                                                   *)
Quiet ==
  /\ \A b \in heard : sends[b] # 0
  /\ CaughtUp /\ ~overlapped => \A b \in heard : Counts(b) => pod.paused

LEMMA QuietHolds == Spec => []Quiet
<1>1. Init => Quiet
  BY DEF Init, Quiet
<1>2. TypeOK /\ SendInv /\ Objects /\ Copy /\ PodsOrdered /\ Remembered /\ Current /\ Alone
        /\ Quiet /\ [Next]_vars => Quiet'
  <2> SUFFICES ASSUME TypeOK, SendInv, Objects, Copy, PodsOrdered, Remembered, Current, Alone,
                      Quiet, [Next]_vars
               PROVE  Quiet'
    OBVIOUS
  <2>0. /\ bk \in [Backups -> BackupObjects] /\ overlapped \in BOOLEAN /\ heard \subseteq Backups
        /\ sends \in [Backups -> Nat] /\ pod \in Pods /\ podCache.uid \in Nat
        /\ (pc # "idle" => cur \in Backups) /\ ~Absent.exists
    BY DEF TypeOK, Absent
  <2>1. ASSUME NEW b \in heard PROVE sends[b] # 0 /\ b \in Backups
    BY <2>0, <2>1 DEF Quiet
  <2>2. CASE SendBefore
    <3>1. /\ cur \in Backups /\ sends[cur] = 0 /\ sends' = [sends EXCEPT ![cur] = @ + 1]
          /\ pc = "before"
      BY <2>0, <2>2 DEF SendBefore, SendInv, WorkerKnown
    <3>2. cur \notin heard /\ \A b \in Backups : sends[b] # 0 => sends'[b] # 0
      BY <2>0, <2>1, <3>1
    <3>3. sends'[cur] # 0
      BY <2>0, <3>1
    <3>4. /\ UNCHANGED <<bk, overlapped>> /\ pod'.uid = pod.uid /\ pod'.up = pod.up
          /\ pod.up /\ pod.paused => pod'.paused
      BY <2>2, Sending
    <3>5. heard' = heard \/ (heard' = heard \cup {cur} /\ pod'.paused)
      <4>1. CASE pod.up /\ Exec(TRUE, "wait") /\ heard' = heard \cup {cur}
        BY <2>0, <4>1 DEF Exec, Pods
      <4>2. CASE UNCHANGED heard
        BY <4>2
      <4> QED BY <2>2, <4>1, <4>2, Zenon DEF SendBefore
    <3>6. \A b \in heard' : sends'[b] # 0
      BY <2>1, <3>2, <3>3, <3>5
    <3>7. ASSUME CaughtUp, ~overlapped', NEW b \in heard', Counts(b)' PROVE pod'.paused
      <4>1. Counts(b) /\ pod.up
        BY <3>4, <3>7 DEF Counts
      <4> QED BY <3>4, <3>5, <3>7, <4>1 DEF Quiet
    <3> QED BY <3>6, <3>7 DEF Quiet
  <2>3. CASE ~SendBefore
    <3>1. UNCHANGED <<sends, heard>> /\ (~overlapped' => ~overlapped)
      BY <2>3, HistoryGrows
    <3>2. ASSUME CaughtUp, ~overlapped', NEW b \in heard, Counts(b)' PROVE pod'.paused
      <4>0. b \in Backups /\ sends[b] # 0 /\ (Counts(b) => pod.paused) /\ ~overlapped
        BY <2>1, <3>1, <3>2 DEF Quiet
      <4>1. CASE ~UNCHANGED bk
        <5>1. pod' = pod /\ ~CreateBackup(b) /\ (MovesOn(b) \/ Goes(b) \/ bk'[b] = bk[b])
          BY <4>0, <4>1, Moves DEF CreateBackup, SendInv, SentKnown
        <5>2. bk'[b] # Absent
          BY <2>0, <3>2 DEF Counts
        <5>3. MovesOn(b) => bk'[b].sentTo = bk[b].sentTo
          BY <4>0 DEF MovesOn, SendInv, SentKnown
        <5>4. MovesOn(b) => Counts(b)
          BY <3>2, <5>1, <5>3 DEF MovesOn, Counts, Ended
        <5> QED BY <3>2, <4>0, <5>1, <5>2, <5>4 DEF Goes, Counts
      <4>2. CASE bk' = bk /\ pod' = pod
        BY <3>2, <4>0, <4>2 DEF Counts
      <4>3. CASE bk' = bk /\ SendAfter
        <5>1. pod'.uid = pod.uid /\ pod'.up = pod.up
          BY <4>3, Sending
        <5>2. Counts(b)
          BY <3>2, <4>3, <5>1 DEF Counts
        <5>3. pc = "after" /\ cur \in Backups
          BY <2>0, <4>3 DEF SendAfter
        <5>4. Alike(l, bk[cur]) /\ bk[cur].exists /\ OwesResume(l)
          BY <3>2, <5>3, Known DEF Copy, Fits, Resuming
        <5>5. Active(cur) /\ Active(b)
          BY <5>2, <5>4 DEF Active, OwesResume, Alike, Counts
        <5>6. b = cur
          BY <4>0, <5>3, <5>5 DEF Alone
        <5>7. l.deleting \/ l.phase \notin {"", "Running"}
          BY <5>3 DEF Copy, Fits, Resuming
        <5>8. l.deleting => bk[cur].deleting
          BY <5>3, <5>4 DEF Copy
        <5> QED BY <5>2, <5>4, <5>6, <5>7, <5>8 DEF Counts, Alike
      <4>4. CASE bk' = bk /\ PodStarts
        <5>1. pod'.uid = pod.uid + 1
          BY <4>4 DEF PodStarts
        <5>2. bk[b].sentTo <= podCache.uid /\ podCache.uid <= pod.uid /\ bk[b].sentTo \in Nat
          BY <2>0, <4>0 DEF Remembered, PodsOrdered, BackupObjects
        <5>3. podCache.uid \in Nat /\ pod.uid \in Nat
          BY <2>0, BoundsAssumption DEF Pods
        <5>4. pod'.uid = bk[b].sentTo
          BY <3>2, <4>4 DEF Counts
        <5> QED BY <5>1, <5>2, <5>3, <5>4
      <4>5. CASE PodStops \/ ServerDeleted
        <5>1. ~pod'.up
          BY <2>0, <4>5 DEF PodStops, ServerDeleted, Pods
        <5> QED BY <3>2, <5>1 DEF Counts
      <4>6. OperatorRestarts \/ SeePod => pod' = pod
        BY DEF OperatorRestarts, SeePod
      <4> QED BY <2>3, <4>1, <4>2, <4>3, <4>4, <4>5, <4>6, StepsOnPod
    <3> QED BY <2>1, <3>1, <3>2 DEF Quiet
  <2> QED BY <2>2, <2>3
<1> QED BY <1>1, <1>2, TypeCorrect, SendInvHolds, BackupsKnown, PodsOrderedHolds,
        RememberedHolds, CurrentHolds, AloneHolds, PTL DEF Spec

(* QuietWhileCopying: from the moment a backup counts its Pod as quiesced   *)
(* until its Job has stopped, the Pod does not save, for any number of      *)
(* backups of the server, one after the other.                              *)
THEOREM QuietKept ==
  ASSUME CaughtUp
  PROVE  Spec => []QuietWhileCopying
<1>1. TypeOK /\ SendInv /\ Objects /\ PodsOrdered /\ Copied /\ Quiet => QuietWhileCopying
  <2> SUFFICES ASSUME TypeOK, SendInv, Objects, PodsOrdered, Copied, Quiet, ~overlapped,
                      NEW b \in Backups, AtWork(job[<<"copy", b>>]), b \in heard,
                      ~bk[b].deleting, pod.up, pod.uid = bk[b].sentTo
               PROVE  pod.paused
    BY DEF QuietWhileCopying
  <2>1. bk[b].exists
    <3>1. bk[b].sentTo # 0
      BY DEF SendInv, PodsKnown
    <3>2. Absent.sentTo = 0
      BY DEF Absent
    <3> QED BY <3>1, <3>2 DEF Objects, Consistent
  <2>2. bk[b].phase \in {"", "Running"}
    <3>1. bk[b].phase \in Phases
      BY DEF TypeOK, BackupObjects
    <3>2. bk[b].phase \notin {"Completed", "Deleting"} /\ (bk[b].phase = "Failed" => ~volume)
      BY DEF Copied
    <3>3. volume
      BY DEF PodsOrdered
    <3> QED BY <3>1, <3>2, <3>3 DEF Phases, Ended
  <2> QED BY <2>1, <2>2 DEF Quiet, Counts
<1> QED BY <1>1, TypeCorrect, SendInvHolds, BackupsKnown, PodsOrderedHolds, CopiedHolds,
        QuietHolds, PTL

-----------------------------------------------------------------------------
(* A completed backup goes after its snapshot.                              *)

(* A cleanup Job, or the cached copy of one, in state j is one of a backup  *)
(* that was completed; when it succeeded the snapshot is gone.              *)
Cleans(b, j) ==
  /\ j # "none" => b \in used /\ (bk[b].exists => bk[b].phase \in {"Completed", "Deleting"})
  /\ j = "succeeded" => ~bk[b].exists \/ ~snapshot[b]
  /\ j = "failed" => b \in gaveUp

Pruned ==
  CaughtUp =>
    /\ \A b \in Backups : Cleans(b, job[<<"prune", b>>]) /\ Cleans(b, jobCache[<<"prune", b>>])
    /\ pc = "drop" /\ l.phase \in {"Completed", "Deleting"} => ~snapshot[cur] \/ cur \in gaveUp

(* The finalizer of a completed backup is dropped once a cleanup Job ended. *)
LEMMA DropsAfter ==
  ASSUME NEW b \in Backups, NEW o,
         "drop" \in AfterResume(b, o) \/ "drop" \in Steps(b, o),
         o.phase \in {"Completed", "Deleting"}, jobCache[<<"prune", b>>] \in Jobs
  PROVE  jobCache[<<"prune", b>>] \in {"succeeded", "failed"}
<1>1. "drop" \in Steps(b, o) => "drop" \in ResumeSteps(b, o)
  BY DEF Steps, QuiesceStep, PollStep
<1>2. "drop" \in ResumeSteps(b, o) => "drop" \in AfterResume(b, o)
  BY DEF ResumeSteps
<1>3. "drop" = PruneStep(o, jobCache[<<"prune", b>>])
  BY <1>1, <1>2 DEF AfterResume
<1> QED BY <1>3 DEF PruneStep, Jobs, AtWork

(* A snapshot is stored while the copy is under way, and never otherwise.   *)
LEMMA SnapshotsStored ==
  ASSUME TypeOK, CaughtUp, Copied, [Next]_vars, NEW b \in Backups,
         bk[b].phase \in {"Completed", "Deleting"}, ~snapshot[b]
  PROVE  ~snapshot'[b]
<1>0. snapshot \in [Backups -> BOOLEAN] /\ ~AtWork(job[<<"copy", b>>])
  BY DEF TypeOK, Copied
<1>1. CASE UNCHANGED snapshot
  BY <1>1
<1>2. ASSUME NEW k \in JobKeys, JobSucceeds(k) \/ AttemptFails(k) \/ JobGivesUp(k)
      PROVE  ~snapshot'[b]
  <2>1. k[2] \in Backups /\ k[1] \in {"copy", "prune"} /\ k = <<k[1], k[2]>>
    BY DEF JobKeys
  <2>2. AtWork(job[k])
    BY <1>2 DEF JobSucceeds, AttemptFails, JobGivesUp, AtWork
  <2>3. PICK s \in {k[1] = "copy"} \cup {FALSE, snapshot[k[2]]} :
          snapshot' = [snapshot EXCEPT ![k[2]] = s]
    BY <1>2 DEF JobSucceeds, AttemptFails, JobGivesUp, Stores
  <2>4. CASE k[2] # b
    BY <1>0, <2>1, <2>3, <2>4
  <2>5. CASE k[2] = b
    <3>1. k[1] = "prune"
      BY <1>0, <2>1, <2>2, <2>5
    <3>2. s = FALSE
      BY <1>0, <2>3, <2>5, <3>1
    <3> QED BY <1>0, <2>1, <2>3, <2>5, <3>2
  <2> QED BY <2>4, <2>5
<1>3. \/ StartCopy \/ StartPrune \/ OperatorRestarts
      \/ (\E k \in JobKeys : SeeJob(k) \/ JobRemoved(k))
      => UNCHANGED snapshot
  BY DEF StartCopy, StartPrune, CreateJob, OperatorRestarts, SeeJob, JobRemoved
<1> QED BY <1>1, <1>2, <1>3, StepsOnJobs

(* gaveUp only grows.                                                       *)
LEMMA GaveUpGrows == ASSUME [Next]_vars PROVE gaveUp \subseteq gaveUp'
<1>1. UNCHANGED gaveUp => gaveUp \subseteq gaveUp'
  OBVIOUS
<1>2. StartCopy \/ StartPrune \/ OperatorRestarts => UNCHANGED gaveUp
  BY DEF StartCopy, StartPrune, CreateJob, OperatorRestarts, historyVars
<1>3. ASSUME NEW k \in JobKeys,
             \/ SeeJob(k) \/ JobSucceeds(k) \/ AttemptFails(k) \/ JobGivesUp(k) \/ JobRemoved(k)
      PROVE  gaveUp \subseteq gaveUp'
  BY <1>3 DEF SeeJob, JobSucceeds, AttemptFails, JobGivesUp, JobRemoved, historyVars
<1> QED BY <1>1, <1>2, <1>3, StepsOnJobs

(* What is known of a cleanup Job stays true as its backup moves on.        *)
LEMMA CleansStays ==
  ASSUME TypeOK, SendInv, Objects, Copy, CaughtUp, Copied, [Next]_vars, NEW b \in Backups,
         NEW j \in Jobs, Cleans(b, j), used \subseteq used'
  PROVE  Cleans(b, j)'
<1>0. bk \in [Backups -> BackupObjects] /\ ~Absent.exists
  BY DEF TypeOK, Absent
<1>1. j = "none" \/ b \in used
  BY DEF Cleans
<1>2. ASSUME bk'[b].exists, j # "none"
      PROVE  /\ bk[b].exists /\ bk'[b].phase \in {"Completed", "Deleting"}
             /\ bk[b].phase \in {"Completed", "Deleting"}
  <2>1. bk'[b] = bk[b] \/ MovesOn(b)
    <3>1. ~CreateBackup(b)
      BY <1>1, <1>2 DEF CreateBackup
    <3>2. ~Goes(b)
      BY <1>0, <1>2 DEF Goes
    <3> QED BY <3>1, <3>2, Moves
  <2> QED BY <1>2, <2>1 DEF MovesOn, Cleans
<1>3. j = "succeeded" => ~bk'[b].exists \/ ~snapshot'[b]
  BY <1>2, SnapshotsStored DEF Cleans
<1> QED BY <1>1, <1>2, <1>3, GaveUpGrows DEF Cleans

(* How a cleanup Job and its cached copy change.                            *)
LEMMA CleanupMoves ==
  ASSUME TypeOK, [Next]_vars, NEW b \in Backups
  PROVE  LET p == <<"prune", b>> IN
         /\ \/ job'[p] = job[p] \/ job'[p] = "none"
            \/ StartPrune /\ cur = b /\ job'[p] = "active"
            \/ /\ AtWork(job[p]) /\ UNCHANGED <<bk, used>>
               /\ \/ job'[p] = "retrying"
                  \/ job'[p] = "succeeded" /\ ~snapshot'[b]
                  \/ job'[p] = "failed" /\ b \in gaveUp'
         /\ jobCache'[p] \in {jobCache[p], job[p]}
<1> DEFINE p == <<"prune", b>>
<1>0. /\ job \in [JobKeys -> Jobs] /\ jobCache \in [JobKeys -> Jobs] /\ p \in JobKeys
      /\ snapshot \in [Backups -> BOOLEAN] /\ p[1] = "prune" /\ p[2] = b
  BY DEF TypeOK, JobKeys
<1>1. jobCache'[p] \in {jobCache[p], job[p]}
  <2>1. \A k \in JobKeys : SeeJob(k) => jobCache' = [jobCache EXCEPT ![k] = job[k]]
    BY DEF SeeJob
  <2>2. OperatorRestarts => jobCache' = job
    BY DEF OperatorRestarts
  <2>3. \/ StartCopy \/ StartPrune
        \/ \E k \in JobKeys : JobSucceeds(k) \/ AttemptFails(k) \/ JobGivesUp(k) \/ JobRemoved(k)
        => UNCHANGED jobCache
    BY DEF StartCopy, StartPrune, CreateJob, JobSucceeds, AttemptFails, JobGivesUp, JobRemoved,
       JobStep
  <2> QED BY <1>0, <2>1, <2>2, <2>3, StepsOnJobs
<1>2. CASE UNCHANGED job
  BY <1>1, <1>2
<1>3. CASE StartCopy \/ StartPrune
  <2>1. PICK kind \in {"copy", "prune"} :
          /\ job' = [job EXCEPT ![<<kind, cur>>] = IF @ = "none" THEN "active" ELSE @]
          /\ kind = "prune" => StartPrune
    BY <1>3 DEF StartCopy, StartPrune, CreateJob
  <2>2. CASE kind = "prune" /\ cur = b
    BY <1>0, <1>1, <2>1, <2>2
  <2>3. CASE ~(kind = "prune" /\ cur = b)
    <3>1. <<kind, cur>> # p
      BY <2>3
    <3>2. job'[p] = job[p]
      BY <1>0, <2>1, <3>1
    <3> QED BY <1>1, <3>2
  <2> QED BY <2>2, <2>3
<1>4. ASSUME NEW k \in JobKeys,
             JobSucceeds(k) \/ AttemptFails(k) \/ JobGivesUp(k) \/ JobRemoved(k)
      PROVE  \/ job'[p] = job[p] \/ job'[p] = "none"
             \/ /\ AtWork(job[p]) /\ UNCHANGED <<bk, used>>
                /\ \/ job'[p] = "retrying"
                   \/ job'[p] = "succeeded" /\ ~snapshot'[b]
                   \/ job'[p] = "failed" /\ b \in gaveUp'
  <2>1. PICK new \in Jobs : JobStep(k, new) /\ job' = [job EXCEPT ![k] = new]
    BY <1>4 DEF JobSucceeds, AttemptFails, JobGivesUp, JobRemoved, JobStep, Jobs
  <2>2. CASE k # p
    BY <1>0, <2>1, <2>2
  <2>3. CASE k = p
    <3>1. UNCHANGED <<bk, used>>
      BY <2>1 DEF JobStep, backupVars
    <3>2. CASE JobRemoved(p)
      BY <1>0, <3>2 DEF JobRemoved, JobStep
    <3>3. CASE AttemptFails(p)
      BY <1>0, <3>1, <3>3 DEF AttemptFails, JobStep, AtWork
    <3>4. CASE JobGivesUp(p)
      BY <1>0, <3>1, <3>4 DEF JobGivesUp, JobStep, AtWork
    <3>5. CASE JobSucceeds(p)
      <4>1. \E s \in {p[1] = "copy"} : snapshot' = [snapshot EXCEPT ![p[2]] = s]
        BY <3>5 DEF JobSucceeds, Stores
      <4>2. ~snapshot'[b]
        BY <1>0, <4>1
      <4> QED BY <1>0, <3>1, <3>5, <4>2 DEF JobSucceeds, JobStep
    <3> QED BY <1>4, <2>3, <3>2, <3>3, <3>4, <3>5
  <2> QED BY <2>2, <2>3
<1>5. OperatorRestarts \/ (\E k \in JobKeys : SeeJob(k)) => UNCHANGED job
  BY DEF OperatorRestarts, SeeJob
<1> QED BY <1>1, <1>2, <1>3, <1>4, <1>5, StepsOnJobs

LEMMA PrunedHolds == Spec => []Pruned
<1>1. Init => Pruned
  <2> SUFFICES ASSUME Init PROVE Pruned
    OBVIOUS
  <2>1. \A b \in Backups : job[<<"prune", b>>] = "none" /\ jobCache[<<"prune", b>>] = "none"
    BY DEF Init, JobKeys
  <2> QED BY <2>1 DEF Init, Pruned, Cleans
<1>2. TypeOK /\ SendInv /\ Objects /\ Copy /\ Current /\ Copied /\ Pruned /\ [Next]_vars
        => Pruned'
  <2> SUFFICES ASSUME TypeOK, SendInv, Objects, Copy, Current, Copied, Pruned, [Next]_vars,
                      CaughtUp
               PROVE  Pruned'
    BY DEF Pruned
  <2>0. /\ bk \in [Backups -> BackupObjects] /\ bkCache \in [Backups -> BackupObjects]
        /\ job \in [JobKeys -> Jobs] /\ jobCache \in [JobKeys -> Jobs]
        /\ (pc # "idle" => cur \in Backups) /\ l \in BackupObjects
        /\ \A b \in Backups : <<"prune", b>> \in JobKeys
    BY DEF TypeOK, JobKeys
  <2>1. used \subseteq used'
    <3>1. \/ UNCHANGED used \/ \E b \in Backups : CreateBackup(b)
      BY StepsOnBackups, Deleting DEF WorkerWrites, Adopt, Record, BeforeFailed, NoVolume,
         MarkRunning, MarkDeleting, Complete, AfterFailed, Resumed, GiveUp, EndResume,
         DropFinalizer, Wait, WriteAndGo, WriteAndStop, WriteAndRequeue, Write, Fail, Expire,
         OperatorRestarts, SeeBackup, DeleteBackup, historyVars
    <3> QED BY <3>1 DEF CreateBackup
  <2>2. ASSUME NEW b \in Backups
        PROVE  Cleans(b, job[<<"prune", b>>])' /\ Cleans(b, jobCache[<<"prune", b>>])'
    <3> DEFINE p == <<"prune", b>>
    <3>1. Cleans(b, job[p]) /\ Cleans(b, jobCache[p]) /\ job[p] \in Jobs /\ jobCache[p] \in Jobs
      BY <2>0 DEF Pruned
    <3>2. ASSUME NEW j \in {job[p], jobCache[p]}, NEW i, i = j
          PROVE  /\ i # "none" => b \in used' /\ (bk'[b].exists => bk'[b].phase \in {"Completed", "Deleting"})
                 /\ i = "succeeded" => ~bk'[b].exists \/ ~snapshot'[b]
                 /\ i = "failed" => b \in gaveUp'
      <4>1. j \in Jobs /\ Cleans(b, j)
        BY <3>1
      <4> QED BY <2>1, <3>2, <4>1, CleansStays DEF Cleans
    <3>3. Cleans(b, jobCache[p])'
      <4>1. jobCache'[p] \in {jobCache[p], job[p]}
        BY CleanupMoves
      <4> QED BY <3>2, <4>1 DEF Cleans
    <3>4. Cleans(b, job[p])'
      <4>1. CASE job'[p] = job[p]
        BY <3>2, <4>1 DEF Cleans
      <4>2. CASE job'[p] = "none"
        BY <4>2 DEF Cleans
      <4>3. CASE StartPrune /\ cur = b /\ job'[p] = "active"
        <5>1. pc = "cleanup" /\ UNCHANGED <<bk, used>>
          BY <4>3 DEF StartPrune, CreateJob, backupVars, historyVars
        <5>2. b \in used /\ bk[b].phase \in {"Completed", "Deleting"}
          BY <4>3, <5>1, Known DEF Copy, Fits, Alike
        <5> QED BY <4>3, <5>1, <5>2 DEF Cleans
      <4>4. CASE /\ AtWork(job[p]) /\ UNCHANGED <<bk, used>>
                 /\ \/ job'[p] = "retrying"
                    \/ job'[p] = "succeeded" /\ ~snapshot'[b]
                    \/ job'[p] = "failed" /\ b \in gaveUp'
        BY <3>1, <4>4 DEF Cleans, AtWork
      <4> QED BY <4>1, <4>2, <4>3, <4>4, CleanupMoves
    <3> QED BY <3>3, <3>4
  <2>3. ASSUME pc' = "drop", l'.phase \in {"Completed", "Deleting"}
        PROVE  ~snapshot'[cur'] \/ cur' \in gaveUp'
    <3>1. ASSUME NEW b \in Backups, BeginReconcile(b)
          PROVE  ~snapshot'[cur'] \/ cur' \in gaveUp'
      <4>1. /\ cur' = b /\ l' = bkCache[b] /\ OwnWritesSeen(b) /\ "drop" \in Steps(b, bkCache[b])
            /\ UNCHANGED <<snapshot, gaveUp>>
        BY <2>3, <3>1 DEF BeginReconcile, jobVars, historyVars
      <4>2. bkCache[b].exists /\ bkCache[b].finalizer
        BY <2>0, <4>1, BeginFits DEF Fits
      <4>3. bk[b].exists
        BY <2>0, <4>1, <4>2 DEF OwnWritesSeen, BackupObjects
      <4>4. jobCache[<<"prune", b>>] \in {"succeeded", "failed"}
        BY <2>0, <2>3, <4>1, DropsAfter
      <4> QED BY <4>1, <4>3, <4>4 DEF Pruned, Cleans
    <3>2. CASE Resumed \/ GiveUp
      <4>1. PICK new \in {[l EXCEPT !.resumed = "True"],
                          [l EXCEPT !.resumed = "False", !.attempts = @ + 1]} :
              Wrote(new) /\ EndResume(new)
        BY <3>2, Writing DEF Resumed, GiveUp
      <4>2. /\ cur' = cur /\ l' = new /\ "drop" \in AfterResume(cur, new) /\ cur \in Backups
            /\ bk[cur] = l /\ l.exists /\ UNCHANGED <<snapshot, gaveUp>>
        BY <2>3, <4>1 DEF EndResume, Wrote, Copy, Fits
      <4>3. new.phase \in {"Completed", "Deleting"}
        BY <2>3, <4>2
      <4>4. jobCache[<<"prune", cur>>] \in {"succeeded", "failed"}
        BY <2>0, <4>2, <4>3, DropsAfter
      <4> QED BY <4>2, <4>4 DEF Pruned, Cleans
    <3>3. CASE UNCHANGED <<pc, cur, l>>
      <4>1. cur \in Backups /\ bk[cur].phase \in {"Completed", "Deleting"}
        BY <2>0, <2>3, <3>3, Known DEF Alike
      <4>2. ~snapshot[cur] \/ cur \in gaveUp
        BY <2>3, <3>3 DEF Pruned
      <4> QED BY <3>3, <4>1, <4>2, SnapshotsStored, GaveUpGrows
    <3>4. Record \/ SendBefore \/ BeforeFailed \/ Wait \/ StartCopy \/ SendAfter \/ StartPrune
            => pc' # "drop"
      BY DEF Record, SendBefore, BeforeFailed, Wait, StartCopy, SendAfter, StartPrune,
         WriteAndGo, Exec, CreateJob, Fail, Done
    <3> QED BY <2>3, <3>1, <3>2, <3>3, <3>4, Idling, WorkerKept DEF Next, Worker, Idles
  <2> QED BY <2>2, <2>3 DEF Pruned
<1> QED BY <1>1, <1>2, TypeCorrect, SendInvHolds, BackupsKnown, CurrentHolds, CopiedHolds,
        PTL DEF Spec

(* PruneFirst: a completed backup is gone only once its snapshot is, or     *)
(* after a cleanup Job that ran out of its retries.                         *)
THEOREM PrunedFirst ==
  ASSUME CaughtUp
  PROVE  Spec => PruneFirst
<1>1. TypeOK /\ SendInv /\ Objects /\ Copy /\ Pruned /\ [Next]_vars
        => [\A b \in Backups :
              bk[b].phase \in {"Completed", "Deleting"} /\ ~bk'[b].exists
                => ~snapshot[b] \/ b \in gaveUp]_vars
  <2> SUFFICES ASSUME TypeOK, SendInv, Objects, Copy, Pruned, [Next]_vars, NEW b \in Backups,
                      bk[b].phase \in {"Completed", "Deleting"}, ~bk'[b].exists
               PROVE  ~snapshot[b] \/ b \in gaveUp
    OBVIOUS
  <2>1. bk[b].exists /\ bk[b].finalizer
    <3>1. Absent.phase = ""
      BY DEF Absent
    <3> QED BY <3>1 DEF Objects, Consistent
  <2>2. Goes(b)
    <3>1. ~CreateBackup(b)
      BY <2>1 DEF CreateBackup, Objects, Consistent
    <3> QED BY <2>1, <3>1, Moves DEF MovesOn
  <2>3. pc = "drop" /\ cur = b /\ l = bk[b]
    BY <2>1, <2>2 DEF Goes, DropFinalizer
  <2> QED BY <2>3 DEF Pruned
<1> QED BY <1>1, TypeCorrect, SendInvHolds, BackupsKnown, PrunedHolds, PTL DEF Spec, PruneFirst
=============================================================================
