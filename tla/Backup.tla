------------------------------- MODULE Backup -------------------------------
(***************************************************************************)
(* GameServerBackups of one GameServer                                     *)
(* (internal/controller/gameserverbackup_controller.go, _quiesce.go and    *)
(* internal/backup): pause world saving, run a restic Job, resume saving,  *)
(* and prune the snapshot before a deleted backup may go.                  *)
(*                                                                         *)
(* One worker, informer caches, one call per step as in Restore.  A call   *)
(* is an Update (refused unless made from what the API server holds), a    *)
(* Create, a Delete, or an exec in the game Pod: exec names the Pod, and   *)
(* every Pod of a GameServer has the same name.  The Egg has Before and    *)
(* After commands.                                                         *)
(***************************************************************************)
EXTENDS Naturals, FiniteSets

CONSTANTS
  Backups,      \* the names GameServerBackups may be given, each once
  NoBackup,     \* no backup: what an idle worker works on
  MaxAttempts,  \* resumeMaxAttempts
  CaughtUp,     \* whether a reconcile finds the operator's own writes in its caches
  MaxPods,      \* bound: Pods of the server, one after the other
  MaxEvents     \* bound: deletions, failed calls, operator restarts, removed Jobs

ASSUME BackupsAssumption == NoBackup \notin Backups
ASSUME AttemptsAssumption == MaxAttempts \in Nat \ {0}
ASSUME CaughtUpAssumption == CaughtUp \in BOOLEAN
ASSUME BoundsAssumption == MaxPods \in Nat /\ MaxEvents \in Nat

VARIABLES
  bk, bkCache,    \* the backups, and their cached copies
  job, jobCache,  \* each backup's Jobs, and their cached copies
  snapshot,       \* whether the repository holds a snapshot under a backup's tag
  pod, podCache,  \* the server's Pod, and the cached copy of it
  volume,         \* whether the server still has its data volume
  queue,          \* the backups in the work queue
  pc, cur, l,     \* the worker: next step, backup, the copy it works on
  target,         \* the Pod quiesce read
  events,         \* what MaxEvents bounds
  used,           \* history: the backups created so far
  sends,          \* history: how often Before was sent for a backup
  heard,          \* history: the backups whose Before all reached the game
  overlapped,     \* history: a backup was created while another was under way
  stranded,       \* history: a Pod was paused that nobody is going to resume
  gaveUp          \* history: the backups whose cleanup Job gave up

backupVars == <<bk, bkCache>>
jobVars == <<job, jobCache, snapshot>>
podVars == <<pod, podCache, volume>>
workerVars == <<pc, cur, l, target>>
historyVars == <<used, sends, heard, overlapped, stranded, gaveUp>>
vars == <<bk, bkCache, job, jobCache, snapshot, pod, podCache, volume, queue, pc,
          cur, l, target, events, used, sends, heard, overlapped, stranded, gaveUp>>

Ended == {"Completed", "Failed"}
Phases == {"", "Running", "Deleting"} \cup Ended
Decided == {"", "True", "False"}     \* a condition, "" while it is not set

(* sentTo: the Pod Before is sent to, 0 as long as none was chosen          *)
BackupObjects ==
  [exists : BOOLEAN, phase : Phases, finalizer : BOOLEAN, deleting : BOOLEAN,
   sentTo : 0..MaxPods, quiesced : Decided, resumed : Decided,
   attempts : Nat]

Absent ==
  [exists |-> FALSE, phase |-> "", finalizer |-> FALSE, deleting |-> FALSE,
   sentTo |-> 0, quiesced |-> "", resumed |-> "", attempts |-> 0]

Pods == [uid : 0..MaxPods, up : BOOLEAN, paused : BOOLEAN]

(* What gameTarget reads of a Pod                                           *)
Seen(p) == [uid |-> p.uid, up |-> p.up]

(* The Job that copies the volume and the one that prunes the snapshot      *)
JobKeys == {"copy", "prune"} \X Backups
Jobs == {"none", "active", "retrying", "succeeded", "failed"}
AtWork(j) == j \in {"active", "retrying"}

Init ==
  /\ bk = [b \in Backups |-> Absent] /\ bkCache = bk
  /\ job = [k \in JobKeys |-> "none"] /\ jobCache = job
  /\ snapshot = [b \in Backups |-> FALSE]
  /\ pod = [uid |-> 0, up |-> FALSE, paused |-> FALSE] /\ podCache = Seen(pod)
  /\ volume = TRUE
  /\ queue = {} /\ pc = "idle" /\ cur = NoBackup /\ l = Absent /\ target = 0
  /\ events = 0 /\ used = {} /\ sends = [b \in Backups |-> 0]
  /\ heard = {} /\ overlapped = FALSE /\ stranded = FALSE /\ gaveUp = {}

-----------------------------------------------------------------------------
(* What Reconcile decides from the objects as it reads them: the first call *)
(* it makes, or "idle".                                                     *)

(* Seeded fault: Before is sent first and recorded with its outcome.        *)
QuiesceStepUnrecorded(o) ==
  IF o.quiesced # "" \/ (o.sentTo = 0 /\ ~podCache.up) THEN "copy"
  ELSE IF o.sentTo = 0 THEN "before" ELSE "wait"

QuiesceStep(o) ==
  IF o.quiesced # "" \/ (o.sentTo = 0 /\ ~podCache.up) THEN "copy"
  ELSE IF o.sentTo = 0 THEN "record" ELSE "wait"

(* Seeded fault: a failed attempt is a failed Job.                          *)
PollStepFirstAttempt(j) ==
  CASE j = "active" -> "idle" [] j = "succeeded" -> "complete" [] OTHER -> "fail"

(* pollJob                                                                  *)
PollStep(j) ==
  CASE AtWork(j) -> "idle" [] j = "succeeded" -> "complete" [] OTHER -> "fail"

(* Seeded fault: a cleanup Job that exists has pruned.                      *)
PruneStepAnyJob(o, j) ==
  IF o.phase \notin {"Completed", "Deleting"} THEN "drop"
  ELSE IF j = "none" THEN "cleanup" ELSE "drop"

(* reconcileDelete, after resume                                            *)
PruneStep(o, j) ==
  IF o.phase \notin {"Completed", "Deleting"} THEN "drop"
  ELSE CASE j = "none" -> "cleanup" [] AtWork(j) -> "idle" [] OTHER -> "drop"

(* What follows resume: pruning, or retention (some backups expire).        *)
AfterResume(b, o) ==
  IF o.deleting THEN {PruneStep(o, jobCache[<<"prune", b>>])} ELSE {"idle", "expire"}

OwesResume(o) == o.sentTo # 0 /\ o.resumed = ""

(* resumeDecision: After goes to the Pod that got Before, or to nobody.     *)
ResumeSteps(b, o) ==
  IF ~OwesResume(o) THEN AfterResume(b, o)
  ELSE IF podCache.up /\ podCache.uid = o.sentTo THEN {"after"} ELSE {"skip"}

Steps(b, o) ==
  IF ~o.exists \/ (o.deleting /\ ~o.finalizer) THEN {"idle"}
  ELSE IF o.deleting THEN ResumeSteps(b, o)
  ELSE IF ~o.finalizer THEN {"adopt"}
  ELSE CASE o.phase = "" -> {QuiesceStep(o)}
         [] o.phase = "Running" -> {PollStep(jobCache[<<"copy", b>>])}
         [] OTHER -> ResumeSteps(b, o)

(* RequeueAfter, when nothing is to be done now: a Job is polled until it    *)
(* is seen to have ended, a backup that is going to expire is looked at.     *)
ComesBack(o) ==
  IF o.exists /\ (o.phase = "Running" \/ o.deleting) THEN {TRUE}
  ELSE IF o.phase \in Ended THEN BOOLEAN ELSE {FALSE}

-----------------------------------------------------------------------------
(* The worker.                                                              *)

Done == pc' = "idle" /\ cur' = NoBackup /\ l' = Absent /\ target' = 0

Requeue == queue' = queue \cup {cur}

(* Seeded fault: the error is swallowed.                                    *)
FailSilently == Done /\ UNCHANGED queue

(* A step returned an error: the backup goes back to the queue.             *)
Fail == Done /\ Requeue

(* What the operator itself wrote last: deletions are a user's, but only    *)
(* the operator takes the finalizer off.                                    *)
OwnWritesSeen(b) ==
  /\ \/ [bkCache[b] EXCEPT !.deleting = bk[b].deleting] = bk[b]
     \/ ~bk[b].exists /\ ~bkCache[b].finalizer
  /\ \A k \in {<<"copy", b>>, <<"prune", b>>} :
       /\ job[k] # "none" => jobCache[k] # "none"
       /\ AtWork(job[k]) => AtWork(jobCache[k])

BeginReconcile(b) ==
  /\ pc = "idle" /\ b \in queue
  /\ CaughtUp => OwnWritesSeen(b)
  /\ pc' \in Steps(b, bkCache[b])
  /\ cur' = IF pc' = "idle" THEN NoBackup ELSE b
  /\ l' = IF pc' = "idle" THEN Absent ELSE bkCache[b]
  /\ target' = IF pc' = "record" THEN podCache.uid ELSE 0
  /\ \E again \in ComesBack(bkCache[b]) :
       queue' = IF pc' = "idle" /\ again THEN queue ELSE queue \ {b}
  /\ UNCHANGED <<backupVars, jobVars, podVars, events, historyVars>>

(* An Update of the backup or of its status.                                *)
Write(new) ==
  /\ l = bk[cur]
  /\ bk' = [bk EXCEPT ![cur] = new]
  /\ UNCHANGED <<bkCache, jobVars, podVars, events, used, sends, heard, overlapped,
                 gaveUp>>

WriteAndStop(new) == Write(new) /\ Done /\ UNCHANGED <<queue, stranded>>
WriteAndRequeue(new) == Write(new) /\ Fail /\ UNCHANGED stranded

(* The same reconcile goes on with the copy the API server returned.        *)
WriteAndGo(new, next) ==
  /\ Write(new)
  /\ pc' = next /\ l' = new /\ target' = 0 /\ UNCHANGED <<cur, queue>>

Adopt == pc = "adopt" /\ WriteAndStop([l EXCEPT !.finalizer = TRUE])

(* quiesce: the Pod is recorded before anything is sent to it.              *)
Record ==
  /\ pc = "record"
  /\ WriteAndGo([l EXCEPT !.sentTo = target], "before")
  /\ UNCHANGED stranded

(* sendCommands: several lines, each an exec in whatever Pod has the name.   *)
Exec(paused, next) ==
  /\ pod' = [pod EXCEPT !.paused = IF pod.up THEN paused ELSE @]
  /\ pc' = next
  /\ UNCHANGED <<backupVars, jobVars, podCache, volume, queue, cur, l, target, events,
                 used, overlapped, gaveUp>>

SendBefore ==
  /\ pc = "before"
  /\ \/ pod.up /\ Exec(TRUE, "wait") /\ heard' = heard \cup {cur}
     \/ \E paused \in {pod.paused, TRUE} : Exec(paused, "unsent") /\ UNCHANGED heard
  /\ sends' = [sends EXCEPT ![cur] = @ + 1]
  /\ stranded' = (stranded \/ (pod'.paused /\ pod.uid # l.sentTo))

BeforeFailed ==
  /\ pc = "unsent"
  /\ WriteAndGo([l EXCEPT !.quiesced = "False"], "copy")
  /\ UNCHANGED stranded

(* quiesceWait: over once the game confirmed the save, after a delay, or    *)
(* ("False") at the deadline.                                               *)
Wait ==
  /\ pc = "wait"
  /\ \/ /\ Fail
        /\ UNCHANGED <<backupVars, jobVars, podVars, events, historyVars>>
     \/ /\ \E outcome \in {"True", "False"} :
             WriteAndGo([l EXCEPT !.quiesced = outcome], "copy")
        /\ UNCHANGED stranded

(* startJob: Create, an existing Job tolerated (the cache may still show a  *)
(* volume that is gone)                                                     *)
CreateJob(kind, at, next) ==
  /\ pc = at
  /\ job' = [job EXCEPT ![<<kind, cur>>] = IF @ = "none" THEN "active" ELSE @]
  /\ pc' = next
  /\ UNCHANGED <<backupVars, jobCache, snapshot, podVars, queue, cur, l, target,
                 events, historyVars>>

StartCopy == CreateJob("copy", "copy", "started")
StartPrune == CreateJob("prune", "cleanup", "pruning")

NoVolume == pc = "copy" /\ ~volume /\ WriteAndStop([l EXCEPT !.phase = "Failed"])

MarkRunning == pc = "started" /\ WriteAndRequeue([l EXCEPT !.phase = "Running"])
MarkDeleting == pc = "pruning" /\ WriteAndRequeue([l EXCEPT !.phase = "Deleting"])

(* completeJob                                                              *)
Complete ==
  \/ pc = "complete" /\ WriteAndStop([l EXCEPT !.phase = "Completed"])
  \/ pc = "fail" /\ WriteAndStop([l EXCEPT !.phase = "Failed"])

SendAfter ==
  /\ pc = "after"
  /\ \/ pod.up /\ Exec(FALSE, "resumed")
     \/ \E paused \in {pod.paused, FALSE} : Exec(paused, "unresumed")
  /\ UNCHANGED <<sends, heard, stranded>>

AfterFailed ==
  /\ pc = "unresumed" /\ l.attempts + 1 < MaxAttempts
  /\ WriteAndRequeue([l EXCEPT !.attempts = @ + 1])

(* resume ends: sent, skipped, or given up; reconcileDelete or              *)
(* enforceRetention follows.                                                *)
EndResume(new) ==
  /\ Write(new)
  /\ pc' \in AfterResume(cur, new)
  /\ cur' = IF pc' = "idle" THEN NoBackup ELSE cur
  /\ l' = IF pc' = "idle" THEN Absent ELSE new
  /\ target' = 0
  /\ \E again \in ComesBack(new) :
       queue' = IF pc' = "idle" /\ again THEN queue \cup {cur} ELSE queue

Resumed ==
  /\ pc \in {"resumed", "skip"}
  /\ EndResume([l EXCEPT !.resumed = "True"])
  /\ UNCHANGED stranded

GiveUp ==
  /\ pc = "unresumed" /\ l.attempts + 1 >= MaxAttempts
  /\ EndResume([l EXCEPT !.resumed = "False", !.attempts = @ + 1])
  /\ stranded' = (stranded \/ pod.paused)

(* A backup being deleted is gone without its finalizer.                    *)
DropFinalizer == pc = "drop" /\ WriteAndStop(Absent)

Deleted(o) == IF o.finalizer THEN [o EXCEPT !.deleting = TRUE] ELSE Absent

(* enforceRetention                                                         *)
Expire ==
  /\ pc = "expire"
  /\ bk' = [bk EXCEPT ![cur] = Deleted(@)]
  /\ Done
  /\ UNCHANGED <<bkCache, jobVars, podVars, queue, events, historyVars>>

Conflicts ==
  /\ pc \in {"adopt", "record", "unsent", "wait", "started", "pruning", "complete",
             "fail", "unresumed", "resumed", "skip", "drop"}
  /\ l # bk[cur]
  /\ Fail
  /\ UNCHANGED <<backupVars, jobVars, podVars, events, historyVars>>

Worker ==
  \/ \E b \in Backups : BeginReconcile(b)
  \/ Adopt \/ Record \/ SendBefore \/ BeforeFailed \/ Wait \/ StartCopy \/ NoVolume
  \/ MarkRunning \/ Complete \/ SendAfter \/ AfterFailed \/ Resumed \/ GiveUp
  \/ StartPrune \/ MarkDeleting \/ DropFinalizer \/ Expire \/ Conflicts

Happens == events < MaxEvents /\ events' = events + 1

CallFails ==
  /\ pc # "idle" /\ Happens
  /\ Fail
  /\ UNCHANGED <<backupVars, jobVars, podVars, historyVars>>

OperatorRestarts ==
  /\ Happens
  /\ Done
  /\ bkCache' = bk /\ jobCache' = job /\ podCache' = Seen(pod)
  /\ queue' = {b \in Backups : bk[b].exists}
  /\ UNCHANGED <<bk, job, snapshot, pod, volume, historyVars>>

-----------------------------------------------------------------------------
(* Watch events (For and Owns), in no particular order.  Pods are cached    *)
(* but not watched by this controller.                                      *)

SeeBackup(b) ==
  /\ bkCache[b] # bk[b]
  /\ bkCache' = [bkCache EXCEPT ![b] = bk[b]]
  /\ queue' = queue \cup {b}
  /\ UNCHANGED <<bk, jobVars, podVars, workerVars, events, historyVars>>

SeeJob(k) ==
  /\ jobCache[k] # job[k]
  /\ jobCache' = [jobCache EXCEPT ![k] = job[k]]
  /\ queue' = queue \cup {k[2]}
  /\ UNCHANGED <<backupVars, job, snapshot, podVars, workerVars, events, historyVars>>

SeePod ==
  /\ podCache # Seen(pod)
  /\ podCache' = Seen(pod)
  /\ UNCHANGED <<backupVars, jobVars, pod, volume, queue, workerVars, events,
                 historyVars>>

Watches ==
  SeePod \/ (\E b \in Backups : SeeBackup(b)) \/ (\E k \in JobKeys : SeeJob(k))

-----------------------------------------------------------------------------
(* Users, the game Pod, and the Job controller.                             *)

UnderWay(b) == bk[b].exists /\ (bk[b].phase \notin Ended \/ OwesResume(bk[b]))

CreateBackup(b) ==
  /\ b \notin used
  /\ bk' = [bk EXCEPT ![b] = [Absent EXCEPT !.exists = TRUE]]
  /\ used' = used \cup {b}
  /\ overlapped' = (overlapped \/ \E a \in Backups : UnderWay(a))
  /\ UNCHANGED <<bkCache, jobVars, podVars, queue, workerVars, events, sends, heard,
                 stranded, gaveUp>>

DeleteBackup(b) ==
  /\ bk[b].exists /\ ~bk[b].deleting
  /\ Happens
  /\ bk' = [bk EXCEPT ![b] = Deleted(@)]
  /\ UNCHANGED <<bkCache, jobVars, podVars, queue, workerVars, historyVars>>

(* A new Pod saves its world, whatever its predecessor was told.            *)
PodStarts ==
  /\ volume /\ ~pod.up /\ pod.uid < MaxPods
  /\ pod' = [uid |-> pod.uid + 1, up |-> TRUE, paused |-> FALSE]
  /\ UNCHANGED <<backupVars, jobVars, podCache, volume, queue, workerVars, events,
                 historyVars>>

PodStops ==
  /\ pod.up
  /\ pod' = [pod EXCEPT !.up = FALSE, !.paused = FALSE]
  /\ UNCHANGED <<backupVars, jobVars, podCache, volume, queue, workerVars, events,
                 historyVars>>

ServerDeleted ==
  /\ volume /\ Happens
  /\ volume' = FALSE /\ pod' = [pod EXCEPT !.up = FALSE, !.paused = FALSE]
  /\ UNCHANGED <<backupVars, jobVars, podCache, queue, workerVars, historyVars>>

JobStep(k, new) ==
  /\ job' = [job EXCEPT ![k] = new]
  /\ UNCHANGED <<backupVars, jobCache, podVars, queue, workerVars, used, sends,
                 heard, overlapped, stranded>>

(* restic may have stored a snapshot although it failed (files it could not *)
(* read, a lost answer), and may have forgotten one.                        *)
Stores(k, done) ==
  \E s \in {k[1] = "copy"} \cup (IF done THEN {} ELSE {snapshot[k[2]]}) :
    snapshot' = [snapshot EXCEPT ![k[2]] = s]

JobSucceeds(k) ==
  /\ AtWork(job[k]) /\ JobStep(k, "succeeded") /\ Stores(k, TRUE)
  /\ UNCHANGED <<events, gaveUp>>

AttemptFails(k) ==
  /\ job[k] = "active" /\ JobStep(k, "retrying") /\ Stores(k, FALSE)
  /\ UNCHANGED <<events, gaveUp>>

JobGivesUp(k) ==
  /\ job[k] = "retrying" /\ JobStep(k, "failed") /\ Stores(k, FALSE)
  /\ gaveUp' = IF k[1] = "prune" THEN gaveUp \cup {k[2]} ELSE gaveUp
  /\ UNCHANGED events

(* Somebody deletes the Job.  (One that outlives its backup is collected,   *)
(* sooner or later; nothing reads it any more.)                             *)
JobRemoved(k) ==
  /\ bk[k[2]].exists /\ job[k] # "none" /\ JobStep(k, "none")
  /\ Happens
  /\ UNCHANGED <<snapshot, gaveUp>>

Environment ==
  \/ PodStarts \/ PodStops \/ ServerDeleted
  \/ \E b \in Backups : CreateBackup(b) \/ DeleteBackup(b)
  \/ \E k \in JobKeys : JobSucceeds(k) \/ AttemptFails(k) \/ JobGivesUp(k) \/ JobRemoved(k)

-----------------------------------------------------------------------------
Next == Worker \/ CallFails \/ OperatorRestarts \/ Watches \/ Environment

Spec == Init /\ [][Next]_vars

-----------------------------------------------------------------------------
(* Properties.                                                              *)

(* Type invariant of the model's variables.                                 *)
TypeOK ==
  /\ bk \in [Backups -> BackupObjects] /\ bkCache \in [Backups -> BackupObjects]
  /\ job \in [JobKeys -> Jobs] /\ jobCache \in [JobKeys -> Jobs]
  /\ snapshot \in [Backups -> BOOLEAN]
  /\ pod \in Pods /\ podCache \in [uid : 0..MaxPods, up : BOOLEAN] /\ volume \in BOOLEAN
  /\ queue \subseteq Backups
  /\ pc \in {"idle", "adopt", "record", "before", "unsent", "wait", "copy", "started",
             "complete", "fail", "after", "unresumed", "resumed", "skip", "cleanup",
             "pruning", "drop", "expire"}
  /\ cur \in Backups \cup {NoBackup} /\ (cur = NoBackup <=> pc = "idle")
  /\ l \in BackupObjects /\ target \in 0..MaxPods /\ events \in Nat /\ used \subseteq Backups
  /\ sends \in [Backups -> Nat] /\ heard \subseteq Backups /\ gaveUp \subseteq Backups
  /\ overlapped \in BOOLEAN /\ stranded \in BOOLEAN

(* gameserverbackup_quiesce.go:98 "a restarted operator must never send     *)
(* Before twice": nor after a failed call, a conflict or a stale read.      *)
BeforeOnce == \A b \in Backups : sends[b] <= 1

(* reconcileDelete: a completed backup goes only after its snapshot, or     *)
(* after a cleanup Job that ran out of retries.                             *)
PruneFirst ==
  [][\A b \in Backups :
       bk[b].phase \in {"Completed", "Deleting"} /\ ~bk'[b].exists
         => ~snapshot[b] \/ b \in gaveUp]_vars

(* What the pause is for: once a backup counts its Pod as quiesced the Pod   *)
(* does not save until the copy is over, unless Before never got there, the *)
(* backup is deleted, or another backup was made at the same time.          *)
QuietWhileCopying ==
  ~overlapped => \A b \in Backups :
    (/\ AtWork(job[<<"copy", b>>]) /\ bk[b].quiesced = "True" /\ b \in heard
     /\ ~bk[b].deleting /\ pod.up /\ pod.uid = bk[b].sentTo)
      => pod.paused

(* When nothing is left to do every backup has ended, none waits to be      *)
(* deleted or to send After, and the game is saving its world again unless  *)
(* the Pod was replaced just before Before or five Afters failed.           *)
Settled ==
  (/\ pc = "idle" /\ queue = {} /\ bkCache = bk /\ jobCache = job /\ podCache = Seen(pod)
   /\ \A k \in JobKeys : ~AtWork(job[k]))
    => /\ \A b \in Backups : ~UnderWay(b) /\ ~bk[b].deleting
       /\ pod.paused => stranded

=============================================================================
