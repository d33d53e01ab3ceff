------------------------------ MODULE Restore ------------------------------
(***************************************************************************)
(* GameServerRestores of one GameServer                                    *)
(* (internal/controller/gameserverrestore_controller.go) and the webhooks  *)
(* that keep the server down while a restore Job overwrites its volume.    *)
(*                                                                         *)
(* RestoringAnnotation is the lock: the controller sets it before it       *)
(* creates the Job and clears it before it records the outcome; the        *)
(* webhooks refuse to start the server while it is set.  The controller    *)
(* has one worker, reads everything from informer caches and makes one     *)
(* API call per step.  An Update is refused unless the copy it was made    *)
(* from is still what the API server holds.                                *)
(*                                                                         *)
(* The GameServer and its volume exist throughout, the backup may go.      *)
(***************************************************************************)
EXTENDS Naturals, FiniteSets

CONSTANTS
  Restores,   \* the names GameServerRestores may be given, each once
  NoRestore,  \* no restore: what an idle worker works on
  CaughtUp,   \* whether a reconcile finds the operator's own writes in its caches
  MaxEvents   \* bound: requests, failed calls, operator restarts, removed Jobs

ASSUME RestoresAssumption == NoRestore \notin Restores
ASSUME CaughtUpAssumption == CaughtUp \in BOOLEAN
ASSUME EventsAssumption == MaxEvents \in Nat

VARIABLES
  gs, gsCache,     \* the GameServer, and the operator's cached copy
  rs, rsCache,     \* the restores, and their cached copies
  job, jobCache,   \* each restore's Job, and its cached copy
  backup,          \* whether the backup they restore still exists
  queue,           \* the restores in the work queue
  pc, cur, l,      \* the worker: next step, restore, the copy it works on
  result,          \* the phase completeJob was called with
  events,          \* what MaxEvents bounds
  used,            \* history: the restores created so far
  overlapped       \* history: two restores were in progress at once

serverVars == <<gs, gsCache>>
restoreVars == <<rs, rsCache>>
jobVars == <<job, jobCache, backup>>
workerVars == <<pc, cur, l, result>>
historyVars == <<used, overlapped>>
vars == <<gs, gsCache, rs, rsCache, job, jobCache, backup, queue, pc, cur, l,
          result, events, used, overlapped>>

GameServers == [state : {"Running", "Stopped"}, restoring : BOOLEAN]

Terminal == {"Completed", "Failed"}
Phases == {"", "Running"} \cup Terminal

RestoreObjects ==
  [exists : BOOLEAN, phase : Phases, finalizer : BOOLEAN, deleting : BOOLEAN]

Absent == [exists |-> FALSE, phase |-> "", finalizer |-> FALSE, deleting |-> FALSE]

(* retrying: an attempt failed and the Job has not given up                 *)
Jobs == {"none", "active", "retrying", "succeeded", "failed"}
Writes(j) == j \in {"active", "retrying"}

Init ==
  /\ gs = [state |-> "Stopped", restoring |-> FALSE] /\ gsCache = gs
  /\ rs = [r \in Restores |-> Absent] /\ rsCache = rs
  /\ job = [r \in Restores |-> "none"] /\ jobCache = job
  /\ backup = TRUE
  /\ queue = {} /\ pc = "idle" /\ cur = NoRestore /\ l = Absent
  /\ result = "Failed" /\ events = 0 /\ used = {} /\ overlapped = FALSE

-----------------------------------------------------------------------------
(* Admission.                                                               *)

(* Seeded fault: the update webhook does not look at the annotation.        *)
AdmitsServerAlways(new) == new \in GameServers

(* ValidateUpdate of the GameServer webhook                                 *)
AdmitsServer(new) == ~(new.state = "Running" /\ new.restoring)

(* ValidateCreate of the GameServerRestore webhook, on cached objects         *)
AdmitsRestore == gsCache.state = "Stopped" /\ ~gsCache.restoring /\ backup

-----------------------------------------------------------------------------
(* The controller.                                                          *)

Done == pc' = "idle" /\ cur' = NoRestore /\ l' = Absent /\ result' = "Failed"

(* Seeded fault: the error is swallowed.                                    *)
FailSilently == Done /\ UNCHANGED queue

(* A step returned an error: the restore goes back to the queue.            *)
Fail == Done /\ queue' = queue \cup {cur}

(* Seeded faults: a failed attempt is taken for a failed Job, and the Job   *)
(* comes before the lock.                                                   *)
PollStepsFirstAttempt(j) == IF j = "active" THEN {"idle"} ELSE {"clear"}
StartStepsJobFirst == IF backup THEN {"create"} ELSE {"create", "clear"}

(* pollJob fails the restore when it does not find the Job; a failed        *)
(* attempt is not a failed Job.                                             *)
PollSteps(j) == IF Writes(j) THEN {"idle"} ELSE {"clear"}

(* startJob fails the restore when it does not find the backup (the cache   *)
(* may still show one).                                                     *)
StartSteps == IF backup THEN {"lock"} ELSE {"lock", "clear"}

(* What Reconcile does with a restore and its Job as it reads them: the     *)
(* first API call, or "idle".                                               *)
Steps(o, j) ==
  CASE ~o.exists \/ (o.deleting /\ ~o.finalizer) -> {"idle"}
    [] o.exists /\ o.deleting /\ o.finalizer -> {"release"}
    [] o.exists /\ ~o.deleting /\ ~o.finalizer -> {"adopt"}
    [] OTHER -> CASE o.phase = "" -> StartSteps
                  [] o.phase = "Running" -> PollSteps(j)
                  [] OTHER -> {"idle"}

(* What the operator itself wrote last: deletions are a user's.             *)
OwnWritesSeen(r) ==
  /\ gsCache.restoring = gs.restoring
  /\ job[r] # "none" => jobCache[r] # "none"
  /\ Writes(job[r]) => Writes(jobCache[r])
  /\ rsCache[r].phase = rs[r].phase /\ rsCache[r].finalizer = rs[r].finalizer

BeginReconcile(r) ==
  /\ pc = "idle" /\ r \in queue
  /\ CaughtUp => OwnWritesSeen(r)
  /\ pc' \in Steps(rsCache[r], jobCache[r])
  /\ cur' = IF pc' = "idle" THEN NoRestore ELSE r
  /\ l' = IF pc' = "idle" THEN Absent ELSE rsCache[r]
  /\ result' = IF pc' = "clear" /\ rsCache[r].phase = "Running"
                    /\ jobCache[r] = "succeeded"
               THEN "Completed" ELSE "Failed"
  /\ queue' = IF pc' = "idle" /\ rsCache[r].phase = "Running" /\ ~rsCache[r].deleting
              THEN queue ELSE queue \ {r}   \* RequeueAfter backupJobPollInterval
  /\ UNCHANGED <<serverVars, restoreVars, jobVars, events, historyVars>>

(* An Update of the restore or of its status.                               *)
Write(new) ==
  /\ l = rs[cur]
  /\ rs' = [rs EXCEPT ![cur] = new]
  /\ UNCHANGED <<serverVars, rsCache, jobVars, events, historyVars>>

Adopt ==
  /\ pc = "adopt"
  /\ Write([l EXCEPT !.finalizer = TRUE])
  /\ Done /\ UNCHANGED queue

(* setRestoringAnnotation.                                                  *)
SetRestoring(on, next) ==
  /\ \/ gsCache.restoring = on /\ UNCHANGED gs
     \/ /\ gsCache.restoring # on /\ gsCache = gs
        /\ AdmitsServer([gs EXCEPT !.restoring = on])
        /\ gs' = [gs EXCEPT !.restoring = on]
  /\ pc' = next
  /\ UNCHANGED <<gsCache, restoreVars, jobVars, queue, cur, l, result, events,
                 historyVars>>

Lock == pc = "lock" /\ SetRestoring(TRUE, "create")

(* completeJob and reconcileDelete                                          *)
Unlock ==
  \/ pc = "clear" /\ SetRestoring(FALSE, "finish")
  \/ pc = "release" /\ SetRestoring(FALSE, "drop")

(* Create, an existing Job tolerated                                        *)
CreateJob ==
  /\ pc = "create"
  /\ job' = [job EXCEPT ![cur] = IF @ = "none" THEN "active" ELSE @]
  /\ pc' = "started"
  /\ UNCHANGED <<serverVars, restoreVars, jobCache, backup, queue, cur, l, result,
                 events, historyVars>>

MarkRunning ==
  /\ pc = "started"
  /\ Write([l EXCEPT !.phase = "Running"])
  /\ Done /\ queue' = queue \cup {cur}

MarkDone ==
  /\ pc = "finish"
  /\ Write([l EXCEPT !.phase = result])
  /\ l' = rs'[cur] /\ pc' = "drop"
  /\ UNCHANGED <<queue, cur, result>>

(* Without its last finalizer a restore being deleted is gone.              *)
DropFinalizer ==
  /\ pc = "drop"
  /\ Write(IF l.deleting THEN Absent ELSE [l EXCEPT !.finalizer = FALSE])
  /\ Done /\ UNCHANGED queue

Conflicts ==
  /\ \/ pc \in {"adopt", "started", "finish", "drop"} /\ l # rs[cur]
     \/ /\ pc \in {"lock", "clear", "release"}
        /\ LET on == pc = "lock" IN
             /\ gsCache.restoring # on
             /\ gsCache # gs \/ ~AdmitsServer([gs EXCEPT !.restoring = on])
  /\ Fail
  /\ UNCHANGED <<serverVars, restoreVars, jobVars, events, historyVars>>

Worker ==
  \/ \E r \in Restores : BeginReconcile(r)
  \/ Adopt \/ Lock \/ Unlock \/ CreateJob \/ MarkRunning \/ MarkDone
  \/ DropFinalizer \/ Conflicts

CallFails ==
  /\ pc # "idle" /\ events < MaxEvents
  /\ events' = events + 1
  /\ Fail
  /\ UNCHANGED <<serverVars, restoreVars, jobVars, historyVars>>

OperatorRestarts ==
  /\ events < MaxEvents
  /\ events' = events + 1
  /\ Done
  /\ gsCache' = gs /\ rsCache' = rs /\ jobCache' = job
  /\ queue' = {r \in Restores : rs[r].exists}
  /\ UNCHANGED <<gs, rs, job, backup, historyVars>>

-----------------------------------------------------------------------------
(* Watch events (For and Owns), in no particular order.  GameServers are    *)
(* not watched by this controller, but they are cached.                     *)

SeeServer ==
  /\ gsCache # gs
  /\ gsCache' = gs
  /\ UNCHANGED <<gs, restoreVars, jobVars, queue, workerVars, events, historyVars>>

SeeRestore(r) ==
  /\ rsCache[r] # rs[r]
  /\ rsCache' = [rsCache EXCEPT ![r] = rs[r]]
  /\ queue' = queue \cup {r}
  /\ UNCHANGED <<serverVars, rs, jobVars, workerVars, events, historyVars>>

SeeJob(r) ==
  /\ jobCache[r] # job[r]
  /\ jobCache' = [jobCache EXCEPT ![r] = job[r]]
  /\ queue' = queue \cup {r}
  /\ UNCHANGED <<serverVars, restoreVars, job, backup, workerVars, events,
                 historyVars>>

Watches == SeeServer \/ \E r \in Restores : SeeRestore(r) \/ SeeJob(r)

-----------------------------------------------------------------------------
(* Users, and the Job controller.                                           *)

InProgress(r) == rs[r].exists /\ rs[r].phase \notin Terminal

Requests == events < MaxEvents /\ events' = events + 1

CreateRestore(r) ==
  /\ r \notin used /\ AdmitsRestore
  /\ rs' = [rs EXCEPT ![r] = [Absent EXCEPT !.exists = TRUE]]
  /\ used' = used \cup {r}
  /\ overlapped' = (overlapped \/ \E q \in Restores : InProgress(q))
  /\ UNCHANGED <<serverVars, rsCache, jobVars, queue, workerVars, events>>

DeleteRestore(r) ==
  /\ rs[r].exists /\ ~rs[r].deleting
  /\ Requests
  /\ rs' = [rs EXCEPT ![r] = IF @.finalizer THEN [@ EXCEPT !.deleting = TRUE] ELSE Absent]
  /\ UNCHANGED <<serverVars, rsCache, jobVars, queue, workerVars, historyVars>>

SetState(s) ==
  /\ gs.state # s
  /\ AdmitsServer([gs EXCEPT !.state = s])
  /\ Requests
  /\ gs' = [gs EXCEPT !.state = s]
  /\ UNCHANGED <<gsCache, restoreVars, jobVars, queue, workerVars, historyVars>>

JobStep(r, new) ==
  /\ job' = [job EXCEPT ![r] = new]
  /\ UNCHANGED <<serverVars, restoreVars, jobCache, backup, queue, workerVars,
                 historyVars>>

JobEnds(r) ==
  /\ Writes(job[r])
  /\ \E new \in {"succeeded", "failed"} : JobStep(r, new)
  /\ UNCHANGED events

AttemptFails(r) ==
  /\ job[r] = "active" /\ JobStep(r, "retrying") /\ UNCHANGED events

(* Somebody deletes the Job, or it is collected after its owner.            *)
JobRemoved(r) ==
  /\ job[r] # "none" /\ JobStep(r, "none")
  /\ IF rs[r].exists THEN Requests ELSE UNCHANGED events

DeleteBackup ==
  /\ backup /\ Requests
  /\ backup' = FALSE
  /\ UNCHANGED <<serverVars, restoreVars, job, jobCache, queue, workerVars,
                 historyVars>>

Environment ==
  \/ DeleteBackup
  \/ \E s \in {"Running", "Stopped"} : SetState(s)
  \/ \E r \in Restores :
       CreateRestore(r) \/ DeleteRestore(r) \/ JobEnds(r) \/ AttemptFails(r)
         \/ JobRemoved(r)

-----------------------------------------------------------------------------
Next == Worker \/ CallFails \/ OperatorRestarts \/ Watches \/ Environment

Spec == Init /\ [][Next]_vars

-----------------------------------------------------------------------------
(* Properties.                                                              *)

(* Type invariant of the model's variables.                                 *)
TypeOK ==
  /\ gs \in GameServers /\ gsCache \in GameServers
  /\ rs \in [Restores -> RestoreObjects] /\ rsCache \in [Restores -> RestoreObjects]
  /\ job \in [Restores -> Jobs] /\ jobCache \in [Restores -> Jobs]
  /\ queue \subseteq Restores /\ backup \in BOOLEAN
  /\ pc \in {"idle", "adopt", "lock", "create", "started", "clear", "finish",
             "release", "drop"}
  /\ cur \in Restores \cup {NoRestore} /\ (cur = NoRestore <=> pc = "idle")
  /\ l \in RestoreObjects /\ result \in Terminal
  /\ events \in Nat /\ used \subseteq Restores /\ overlapped \in BOOLEAN

(* The two webhooks' promise: a locked GameServer is never to run, whoever  *)
(* updates it in whatever order.                                            *)
RestoringStopped == gs.restoring => gs.state = "Stopped"

(* startJob: no Job starts to overwrite the volume before the server is     *)
(* locked, on any retry, with any cached copy of the server.                *)
LockFirst ==
  [][\A r \in Restores : (~Writes(job[r]) /\ Writes(job'[r])) => gs.restoring]_vars

(* As long as restores follow one another, none of them is deleted and the  *)
(* backup is there, the server stays locked until the Job has stopped       *)
(* writing.                                                                 *)
LockedWhileWriting ==
  (backup /\ ~overlapped /\ \A r \in used : rs[r].exists /\ ~rs[r].deleting)
    => \A r \in Restores : Writes(job[r]) => gs.restoring

(* A lock is always one that somebody is going to release: the restore      *)
(* that took it has neither ended nor gone.                                 *)
LockOwned ==
  gs.restoring => \E r \in Restores : InProgress(r) /\ rs[r].finalizer

(* Held as long as it is needed, and not any longer.                        *)
LockKept == LockedWhileWriting /\ LockOwned

(* When nothing is left to do (no key queued, caches caught up, no Job at   *)
(* work) every restore has ended, none waits to be deleted, and the server  *)
(* is free: no failure, conflict or coalesced event loses a restore.        *)
Settled ==
  (/\ pc = "idle" /\ queue = {} /\ gsCache = gs /\ rsCache = rs /\ jobCache = job
   /\ \A r \in Restores : ~Writes(job[r]))
    => /\ \A r \in Restores : rs[r].exists => ~InProgress(r) /\ ~rs[r].deleting
       /\ ~gs.restoring

=============================================================================
