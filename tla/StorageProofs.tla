---------------------------- MODULE StorageProofs ----------------------------
(* Proofs about Restore for any set of restores, and about Destinations for *)
(* every value of its constants: where backups go, and how they come back.  *)
EXTENDS Restore, Destinations, FiniteSetTheorems, TLAPS

-----------------------------------------------------------------------------
(* Type correctness.                                                        *)

(* The object of a name not in use is well typed.                           *)
LEMMA AbsentType == Absent \in RestoreObjects
BY DEF Absent, RestoreObjects, Phases

(* A reconcile that ends leaves an idle worker.                             *)
LEMMA DoneType ==
  Done => pc' = "idle" /\ cur' = NoRestore /\ l' \in RestoreObjects /\ result' \in Terminal
BY AbsentType DEF Done, Terminal

(* What the worker writes to a restore.                                     *)
LEMMA WriteType ==
  ASSUME TypeOK, cur \in Restores, NEW new \in RestoreObjects, Write(new)
  PROVE  rs' \in [Restores -> RestoreObjects] /\ rs'[cur] = new
BY DEF TypeOK, Write

(* What the worker changes in its copy keeps its type.                      *)
LEMMA LocalType ==
  ASSUME TypeOK
  PROVE  /\ [l EXCEPT !.finalizer = TRUE] \in RestoreObjects
         /\ [l EXCEPT !.finalizer = FALSE] \in RestoreObjects
         /\ [l EXCEPT !.phase = "Running"] \in RestoreObjects
         /\ [l EXCEPT !.phase = result] \in RestoreObjects
BY DEF TypeOK, RestoreObjects, Phases, Terminal

(* What a request or the lock changes in the server keeps its type.         *)
LEMMA ServerType ==
  ASSUME NEW g \in GameServers, NEW s \in {"Running", "Stopped"}, NEW b \in BOOLEAN
  PROVE  /\ [g EXCEPT !.state = s] \in GameServers
         /\ [g EXCEPT !.restoring = b] \in GameServers
BY DEF GameServers

(* Every variable keeps its type, and a worker without a restore is idle.   *)
THEOREM TypeCorrect == Spec => []TypeOK
<1> USE DEF serverVars, restoreVars, jobVars, workerVars, historyVars
<1>1. Init => TypeOK
  <2> SUFFICES ASSUME Init PROVE TypeOK
    OBVIOUS
  <2>1. gs \in GameServers /\ rs \in [Restores -> RestoreObjects]
        /\ job \in [Restores -> Jobs] /\ l \in RestoreObjects
    BY AbsentType DEF Init, GameServers, Jobs
  <2>2. result \in Terminal /\ events \in Nat
    BY DEF Init, Terminal
  <2> QED BY <2>1, <2>2 DEF Init, TypeOK
<1>2. TypeOK /\ [Next]_vars => TypeOK'
  <2> SUFFICES ASSUME TypeOK, [Next]_vars PROVE TypeOK'
    OBVIOUS
  <2>0. pc # "idle" => cur \in Restores
    BY DEF TypeOK
  <2>1. ASSUME NEW r \in Restores, BeginReconcile(r) PROVE TypeOK'
    <3>1. pc' \in {"idle", "release", "adopt", "lock", "clear"}
      BY <2>1 DEF BeginReconcile, Steps, StartSteps, PollSteps
    <3>2. cur' \in Restores \cup {NoRestore} /\ (cur' = NoRestore <=> pc' = "idle")
      BY <2>1, RestoresAssumption DEF BeginReconcile
    <3>3. l' \in RestoreObjects /\ result' \in Terminal /\ queue' \subseteq Restores
      BY <2>1, AbsentType DEF BeginReconcile, TypeOK, Terminal
    <3> QED BY <2>1, <3>1, <3>2, <3>3 DEF BeginReconcile, TypeOK
  <2>2. CASE Adopt
    BY <2>0, <2>2, DoneType, LocalType, WriteType DEF Adopt, Write, TypeOK
  <2>3. CASE Lock
    BY <2>3, ServerType, RestoresAssumption DEF Lock, SetRestoring, TypeOK
  <2>4. CASE Unlock
    BY <2>4, ServerType, RestoresAssumption DEF Unlock, SetRestoring, TypeOK
  <2>5. CASE CreateJob
    <3>1. job' \in [Restores -> Jobs]
      BY <2>5 DEF CreateJob, TypeOK, Jobs
    <3> QED BY <2>5, <3>1 DEF CreateJob, TypeOK
  <2>6. CASE MarkRunning
    BY <2>0, <2>6, DoneType, LocalType, WriteType DEF MarkRunning, Write, TypeOK
  <2>7. CASE MarkDone
    <3>1. rs' \in [Restores -> RestoreObjects] /\ l' \in RestoreObjects
      BY <2>0, <2>7, LocalType, WriteType DEF MarkDone
    <3> QED BY <2>7, <3>1 DEF MarkDone, Write, TypeOK
  <2>8. CASE DropFinalizer
    <3>1. (IF l.deleting THEN Absent ELSE [l EXCEPT !.finalizer = FALSE]) \in RestoreObjects
      BY AbsentType, LocalType
    <3> QED BY <2>0, <2>8, <3>1, DoneType, WriteType DEF DropFinalizer, Write, TypeOK
  <2>9. CASE Conflicts \/ CallFails
    <3>1. cur \in Restores
      BY <2>0, <2>9 DEF Conflicts, CallFails
    <3>2. events' \in Nat
      BY <2>9 DEF Conflicts, CallFails, TypeOK
    <3> QED BY <2>9, <3>1, <3>2, DoneType DEF Conflicts, CallFails, Fail, TypeOK
  <2>10. CASE OperatorRestarts
    BY <2>10, DoneType DEF OperatorRestarts, TypeOK
  <2>11. CASE Watches
    BY <2>11 DEF Watches, SeeServer, SeeRestore, SeeJob, TypeOK
  <2>12. CASE Environment
    <3>1. ASSUME NEW s \in {"Running", "Stopped"}, SetState(s) PROVE TypeOK'
      <4>1. gs' \in GameServers /\ events' \in Nat
        <5>1. [gs EXCEPT !.state = s] \in GameServers
          BY ServerType DEF TypeOK
        <5> QED BY <3>1, <5>1 DEF SetState, Requests, TypeOK
      <4> QED BY <3>1, <4>1 DEF SetState, TypeOK
    <3>2. ASSUME NEW r \in Restores, CreateRestore(r) PROVE TypeOK'
      <4>1. [Absent EXCEPT !.exists = TRUE] \in RestoreObjects
        BY AbsentType DEF RestoreObjects
      <4> QED BY <3>2, <4>1 DEF CreateRestore, TypeOK
    <3>3. ASSUME NEW r \in Restores, DeleteRestore(r) PROVE TypeOK'
      <4>1. (IF rs[r].finalizer THEN [rs[r] EXCEPT !.deleting = TRUE] ELSE Absent)
              \in RestoreObjects
        BY AbsentType DEF RestoreObjects, TypeOK
      <4> QED BY <3>3, <4>1 DEF DeleteRestore, Requests, TypeOK
    <3>4. ASSUME NEW r \in Restores, JobEnds(r) \/ AttemptFails(r) \/ JobRemoved(r)
          PROVE  TypeOK'
      BY <3>4 DEF JobEnds, AttemptFails, JobRemoved, JobStep, Requests, TypeOK, Jobs
    <3>5. ASSUME DeleteBackup PROVE TypeOK'
      <4>1. events' \in Nat
        BY <3>5 DEF DeleteBackup, Requests, TypeOK
      <4> QED BY <3>5, <4>1 DEF DeleteBackup, TypeOK
    <3> QED BY <2>12, <3>1, <3>2, <3>3, <3>4, <3>5 DEF Environment
  <2>13. CASE UNCHANGED vars
    BY <2>13 DEF vars, TypeOK
  <2> QED
    BY <2>1, <2>2, <2>3, <2>4, <2>5, <2>6, <2>7, <2>8, <2>9, <2>10, <2>11, <2>12,
       <2>13 DEF Next, Worker
<1> QED BY <1>1, <1>2, PTL DEF Spec

-----------------------------------------------------------------------------
(* The lock.                                                                *)

(* RestoringStopped: a locked server is never to run.                       *)
THEOREM LockedIsStopped == Spec => []RestoringStopped
<1> USE DEF serverVars, restoreVars, jobVars, workerVars, historyVars
<1>1. Init => RestoringStopped
  BY DEF Init, RestoringStopped
<1>2. TypeOK /\ RestoringStopped /\ [Next]_vars => RestoringStopped'
  <2> SUFFICES ASSUME TypeOK, RestoringStopped, [Next]_vars PROVE RestoringStopped'
    OBVIOUS
  <2>1. CASE Lock \/ Unlock
    BY <2>1 DEF Lock, Unlock, SetRestoring, AdmitsServer, RestoringStopped, TypeOK,
       GameServers
  <2>2. ASSUME NEW s \in {"Running", "Stopped"}, SetState(s) PROVE RestoringStopped'
    BY <2>2 DEF SetState, AdmitsServer, RestoringStopped, TypeOK, GameServers
  <2>3. CASE UNCHANGED gs
    BY <2>3 DEF RestoringStopped
  <2>4. \/ Lock \/ Unlock \/ UNCHANGED gs
        \/ \E s \in {"Running", "Stopped"} : SetState(s)
    BY DEF Next, Worker, BeginReconcile, Adopt, CreateJob, MarkRunning, MarkDone,
       DropFinalizer, Write, Conflicts, CallFails, OperatorRestarts, Watches, SeeServer,
       SeeRestore, SeeJob, Environment, CreateRestore, DeleteRestore, JobEnds,
       AttemptFails, JobRemoved, JobStep, DeleteBackup, vars
  <2> QED BY <2>1, <2>2, <2>3, <2>4
<1> QED BY <1>1, <1>2, TypeCorrect, PTL DEF Spec

(* What a worker that has locked the server, or is about to, knows of it,   *)
(* if its reconcile found the operator's own writes in the cache.           *)
LockKnown ==
  CaughtUp =>
    /\ pc \in {"lock", "clear", "release"} => gsCache.restoring = gs.restoring
    /\ pc = "create" => gs.restoring

(* startJob creates the Job with the lock in place, if reconciles see the   *)
(* operator's own writes.                                                   *)
LEMMA LockKnownHolds == Spec => []LockKnown
<1> USE DEF serverVars, restoreVars, jobVars, workerVars, historyVars
<1>1. Init => LockKnown
  BY DEF Init, LockKnown
<1>2. TypeOK /\ LockKnown /\ [Next]_vars => LockKnown'
  <2> SUFFICES ASSUME TypeOK, LockKnown, [Next]_vars PROVE LockKnown'
    OBVIOUS
  <2>1. ASSUME NEW r \in Restores, BeginReconcile(r) PROVE LockKnown'
    <3>1. pc' # "create" /\ UNCHANGED <<gs, gsCache>>
      BY <2>1 DEF BeginReconcile, Steps, StartSteps, PollSteps
    <3> QED BY <2>1, <3>1 DEF BeginReconcile, OwnWritesSeen, LockKnown
  <2>2. CASE Lock
    BY <2>2 DEF Lock, SetRestoring, LockKnown, TypeOK, GameServers
  <2>3. CASE Unlock
    BY <2>3 DEF Unlock, SetRestoring, LockKnown
  <2>4. CASE pc' \in {"idle", "started", "drop"}
    BY <2>4 DEF LockKnown
  <2>5. ASSUME pc' = pc, gsCache' \in {gsCache, gs'}, gs'.restoring = gs.restoring
        PROVE  LockKnown'
    BY <2>5 DEF LockKnown
  <2>6. ASSUME NEW s \in {"Running", "Stopped"}, SetState(s)
        PROVE  pc' = pc /\ gsCache' = gsCache /\ gs'.restoring = gs.restoring
    BY <2>6 DEF SetState, TypeOK, GameServers
  <2>7. Adopt \/ CreateJob \/ MarkRunning \/ MarkDone \/ DropFinalizer \/ Conflicts
          \/ CallFails \/ OperatorRestarts => pc' \in {"idle", "started", "drop"}
    BY DEF Adopt, CreateJob, MarkRunning, MarkDone, DropFinalizer, Conflicts, CallFails,
       OperatorRestarts, Fail, Done
  <2>8. ASSUME NEW r \in Restores,
               \/ CreateRestore(r) \/ DeleteRestore(r) \/ JobEnds(r) \/ AttemptFails(r)
               \/ JobRemoved(r) \/ DeleteBackup
        PROVE  UNCHANGED <<pc, gs, gsCache>>
    BY <2>8 DEF CreateRestore, DeleteRestore, JobEnds, AttemptFails, JobRemoved, JobStep,
       DeleteBackup
  <2>9. Watches \/ DeleteBackup \/ UNCHANGED vars
          => pc' = pc /\ gs' = gs /\ gsCache' \in {gsCache, gs}
    BY DEF Watches, SeeServer, SeeRestore, SeeJob, DeleteBackup, vars
  <2> QED
    BY <2>1, <2>2, <2>3, <2>4, <2>5, <2>6, <2>7, <2>8, <2>9 DEF Next, Worker, Environment
<1> QED BY <1>1, <1>2, TypeCorrect, PTL DEF Spec

(* LockFirst: where reconciles see the operator's own writes, no Job starts *)
(* to write the volume of a server that is not locked.                      *)
THEOREM LocksFirst == ASSUME CaughtUp PROVE Spec => LockFirst
<1> DEFINE Step == \A r \in Restores : (~Writes(job[r]) /\ Writes(job'[r])) => gs.restoring
<1>1. TypeOK /\ LockKnown /\ [Next]_vars => [Step]_vars
  <2> SUFFICES ASSUME TypeOK, LockKnown, Next,
                      NEW r \in Restores, ~Writes(job[r]), Writes(job'[r])
               PROVE  gs.restoring
    OBVIOUS
  <2>1. CASE CreateJob
    BY <2>1 DEF CreateJob, LockKnown
  <2>2. ASSUME NEW q \in Restores, JobEnds(q) \/ AttemptFails(q) \/ JobRemoved(q)
        PROVE  FALSE
    BY <2>2 DEF JobEnds, AttemptFails, JobRemoved, JobStep, Writes, TypeOK
  <2>3. CASE UNCHANGED job
    BY <2>3
  <2>4. \/ CreateJob \/ UNCHANGED job
        \/ \E q \in Restores : JobEnds(q) \/ AttemptFails(q) \/ JobRemoved(q)
    BY DEF Next, Worker, BeginReconcile, Adopt, Lock, Unlock, SetRestoring, MarkRunning,
       MarkDone, DropFinalizer, Write, Conflicts, CallFails, OperatorRestarts, Watches,
       SeeServer, SeeRestore, SeeJob, Environment, SetState, CreateRestore, DeleteRestore,
       DeleteBackup, serverVars, restoreVars, jobVars
  <2> QED BY <2>1, <2>2, <2>3, <2>4
<1> QED BY <1>1, TypeCorrect, LockKnownHolds, PTL DEF Spec, LockFirst

-----------------------------------------------------------------------------
(* Who holds the lock, and for how long.                                    *)

(* The restore objects: a name is used once, a finalizer keeps a deleted    *)
(* object, and a deletion once seen is never taken back.                    *)
Objects ==
  /\ \A r \in Restores : rs[r].exists \/ rsCache[r].exists => r \in used
  /\ \A r \in Restores : rs[r].finalizer => rs[r].exists
  /\ \A r \in Restores : rs[r].deleting => rs[r].exists /\ rs[r].finalizer
  /\ \A r \in Restores : rsCache[r].deleting => ~rs[r].exists \/ rs[r].deleting
  /\ \A r \in Restores :
       rsCache[r].deleting \/ rsCache[r].finalizer => rsCache[r].exists

(* The copy the worker goes by, step by step.                               *)
Copy ==
  /\ pc # "idle" => cur \in used
  /\ pc = "adopt" => /\ l.exists /\ ~l.deleting /\ ~l.finalizer
                     /\ l = rs[cur] => ~rsCache[cur].finalizer
  /\ pc = "release" => l.deleting
  /\ pc = "drop" => l.deleting \/ l.phase \in Terminal

(* Which steps touch a restore, and which touch none.                       *)
Untouched == UNCHANGED <<rs, rsCache, used>>

WorkerWrites(new) ==
  /\ pc # "idle" /\ cur \in Restores /\ l = rs[cur]
  /\ rs' = [rs EXCEPT ![cur] = new] /\ UNCHANGED <<rsCache, used>>

(* The worker's four writes of a restore.                                   *)
LEMMA Writing ==
  ASSUME TypeOK
  PROVE  /\ Adopt => WorkerWrites([l EXCEPT !.finalizer = TRUE])
         /\ MarkRunning => WorkerWrites([l EXCEPT !.phase = "Running"])
         /\ MarkDone => WorkerWrites([l EXCEPT !.phase = result])
         /\ DropFinalizer =>
              WorkerWrites(IF l.deleting THEN Absent ELSE [l EXCEPT !.finalizer = FALSE])
BY DEF TypeOK, Adopt, MarkRunning, MarkDone, DropFinalizer, Write, WorkerWrites,
       historyVars

(* Every other step of the worker, the Jobs and the server leaves them be.  *)
LEMMA Leaving ==
  \/ \E r \in Restores : BeginReconcile(r)
  \/ Lock \/ Unlock \/ CreateJob \/ Conflicts \/ CallFails
  \/ SeeServer \/ (\E r \in Restores : SeeJob(r))
  \/ DeleteBackup \/ (\E s \in {"Running", "Stopped"} : SetState(s))
  \/ (\E r \in Restores : JobEnds(r) \/ AttemptFails(r) \/ JobRemoved(r))
  \/ UNCHANGED vars
  => Untouched
BY DEF BeginReconcile, Lock, Unlock, SetRestoring, CreateJob, Conflicts, CallFails,
       SeeServer, SeeJob, DeleteBackup, SetState, JobEnds, AttemptFails, JobRemoved, JobStep,
       vars, restoreVars, historyVars, Untouched

(* All steps, by what they do to the restores.                              *)
LEMMA StepsOnRestores ==
  ASSUME TypeOK, [Next]_vars
  PROVE  \/ Untouched
         \/ Adopt \/ MarkRunning \/ MarkDone \/ DropFinalizer \/ OperatorRestarts
         \/ \E r \in Restores : SeeRestore(r) \/ CreateRestore(r) \/ DeleteRestore(r)
BY Leaving DEF Next, Worker, Watches, Environment

(* Neither a step of the worker nor a request leaves a restore in a state   *)
(* the objects cannot be in.                                                *)
LEMMA ObjectsStep ==
  ASSUME TypeOK, Objects, Copy, [Next]_vars
  PROVE  Objects'
<1> USE DEF serverVars, restoreVars, jobVars, workerVars, historyVars
<1>0. /\ rs \in [Restores -> RestoreObjects] /\ rsCache \in [Restores -> RestoreObjects]
      /\ l \in RestoreObjects
      /\ ~Absent.exists /\ ~Absent.deleting /\ ~Absent.finalizer
  BY DEF TypeOK, Absent
<1>1. CASE Untouched
  BY <1>1 DEF Untouched, Objects
<1>2. ASSUME NEW new, WorkerWrites(new),
             \/ new = Absent
             \/ /\ new.exists = l.exists /\ new.deleting = l.deleting
                /\ new.finalizer => l.exists
                /\ l.deleting => new.finalizer
      PROVE  Objects'
  <2>1. rs'[cur] = new /\ \A r \in Restores : r # cur => rs'[r] = rs[r]
    BY <1>0, <1>2 DEF WorkerWrites
  <2> QED BY <1>0, <1>2, <2>1 DEF WorkerWrites, Objects
<1>3. CASE Adopt
  <2>1. l.exists
    BY <1>3 DEF Adopt, Copy
  <2> DEFINE new == [l EXCEPT !.finalizer = TRUE]
  <2>2. new.exists = l.exists /\ new.deleting = l.deleting /\ new.finalizer
    BY <1>0 DEF RestoreObjects
  <2> QED BY <1>2, <1>3, <2>1, <2>2, Writing
<1>4. CASE MarkRunning \/ MarkDone
  <2>1. PICK f \in Phases : WorkerWrites([l EXCEPT !.phase = f])
    BY <1>4, Writing DEF Phases, TypeOK
  <2> DEFINE new == [l EXCEPT !.phase = f]
  <2>2. /\ new.exists = l.exists /\ new.deleting = l.deleting /\ new.finalizer = l.finalizer
    BY <1>0 DEF RestoreObjects
  <2>3. (l.finalizer => l.exists) /\ (l.deleting => l.finalizer)
    BY <2>1 DEF WorkerWrites, Objects
  <2> QED BY <1>2, <2>1, <2>2, <2>3
<1>5. CASE DropFinalizer
  <2> DEFINE new == [l EXCEPT !.finalizer = FALSE]
  <2>1. /\ new.exists = l.exists /\ new.deleting = l.deleting /\ ~new.finalizer
    BY <1>0 DEF RestoreObjects
  <2>2. CASE l.deleting
    BY <1>2, <1>5, <2>2, Writing
  <2>3. CASE ~l.deleting
    BY <1>2, <1>5, <2>1, <2>3, Writing
  <2> QED BY <2>2, <2>3
<1>6. CASE OperatorRestarts
  BY <1>6 DEF OperatorRestarts, Objects
<1>7. ASSUME NEW r \in Restores, SeeRestore(r) PROVE Objects'
  BY <1>0, <1>7 DEF SeeRestore, Objects
<1>8. ASSUME NEW r \in Restores, CreateRestore(r) PROVE Objects'
  <2>1. /\ rs'[r].exists /\ ~rs'[r].deleting /\ ~rs'[r].finalizer
        /\ \A q \in Restores : q # r => rs'[q] = rs[q]
    BY <1>0, <1>8 DEF CreateRestore, Absent
  <2> QED BY <1>8, <2>1 DEF CreateRestore, Objects
<1>9. ASSUME NEW r \in Restores, DeleteRestore(r) PROVE Objects'
  <2>1. \A q \in Restores : q # r => rs'[q] = rs[q]
    BY <1>0, <1>9 DEF DeleteRestore
  <2>2. \/ rs'[r] = Absent
        \/ rs'[r].exists = rs[r].exists /\ rs'[r].deleting /\ rs'[r].finalizer
    BY <1>0, <1>9 DEF DeleteRestore, RestoreObjects
  <2> QED BY <1>0, <1>9, <2>1, <2>2 DEF DeleteRestore, Objects
<1> QED BY <1>1, <1>3, <1>4, <1>5, <1>6, <1>7, <1>8, <1>9, StepsOnRestores

(* The worker's copy is what its step is for, and while nobody has changed  *)
(* the restore since, neither has the cache.                                *)
LEMMA CopyStep ==
  ASSUME TypeOK, Objects, Copy, [Next]_vars
  PROVE  Copy'
<1> USE DEF serverVars, restoreVars, jobVars, workerVars, historyVars
<1>0. /\ rs \in [Restores -> RestoreObjects] /\ rsCache \in [Restores -> RestoreObjects]
      /\ l \in RestoreObjects /\ (pc # "idle" => cur \in Restores)
      /\ used \subseteq Restores
  BY DEF TypeOK
<1>1. ASSUME NEW r \in Restores, BeginReconcile(r) PROVE Copy'
  <2>1. UNCHANGED <<rs, rsCache, used>>
    BY <1>1 DEF BeginReconcile
  <2>2. CASE pc' = "idle"
    BY <2>2 DEF Copy
  <2>3. CASE pc' # "idle"
    <3>1. cur' = r /\ l' = rsCache[r] /\ pc' \in Steps(rsCache[r], jobCache[r])
      BY <1>1, <2>3 DEF BeginReconcile
    <3>2. l'.exists /\ pc' # "drop"
      BY <2>3, <3>1 DEF Steps, StartSteps, PollSteps
    <3>3. pc' = "adopt" => ~l'.deleting /\ ~l'.finalizer
      BY <3>1 DEF Steps, StartSteps, PollSteps
    <3>4. pc' = "release" => l'.deleting
      BY <3>1 DEF Steps, StartSteps, PollSteps
    <3> QED BY <2>1, <3>1, <3>2, <3>3, <3>4 DEF Objects, Copy
  <2> QED BY <2>2, <2>3
<1>2. CASE Lock \/ CreateJob
  BY <1>2 DEF Lock, SetRestoring, CreateJob, Copy
<1>3. CASE Unlock
  BY <1>3 DEF Unlock, SetRestoring, Copy
<1>4. CASE MarkDone
  <2>1. rs'[cur] = [l EXCEPT !.phase = result] /\ pc' = "drop" /\ l' = rs'[cur]
    BY <1>0, <1>4 DEF MarkDone, Write
  <2>2. l'.phase \in Terminal
    BY <1>0, <2>1 DEF TypeOK, RestoreObjects
  <2> QED BY <1>4, <2>1, <2>2 DEF MarkDone, Write, Copy
<1>5. CASE pc' = "idle"
  BY <1>5 DEF Copy
<1>6. Adopt \/ MarkRunning \/ DropFinalizer \/ Conflicts \/ CallFails \/ OperatorRestarts
        => pc' = "idle"
  BY DEF Adopt, MarkRunning, DropFinalizer, Conflicts, CallFails, OperatorRestarts, Fail, Done
<1>7. CASE Untouched /\ UNCHANGED <<pc, cur, l>>
  BY <1>7 DEF Untouched, Copy
<1>8. ASSUME NEW r \in Restores, SeeRestore(r) PROVE Copy'
  BY <1>0, <1>8 DEF SeeRestore, Copy
<1>9. ASSUME NEW r \in Restores, CreateRestore(r) PROVE Copy'
  <2>1. pc # "idle" => cur # r /\ rs'[cur] = rs[cur]
    BY <1>0, <1>9 DEF CreateRestore, Copy
  <2> QED BY <1>9, <2>1 DEF CreateRestore, Copy
<1>10. ASSUME NEW r \in Restores, DeleteRestore(r) PROVE Copy'
  <2>1. pc # "idle" =>
          \/ rs'[cur] = rs[cur]
          \/ ~rs'[cur].exists \/ rs'[cur].deleting
    BY <1>0, <1>10 DEF DeleteRestore, RestoreObjects, Absent
  <2> QED BY <1>10, <2>1 DEF DeleteRestore, Copy
<1>11. ASSUME \/ SeeServer \/ (\E r \in Restores : SeeJob(r))
              \/ DeleteBackup \/ (\E s \in {"Running", "Stopped"} : SetState(s))
              \/ (\E r \in Restores : JobEnds(r) \/ AttemptFails(r) \/ JobRemoved(r))
              \/ UNCHANGED vars
       PROVE  Untouched /\ UNCHANGED <<pc, cur, l>>
  BY <1>11, Leaving DEF SeeServer, SeeJob, DeleteBackup, SetState, JobEnds, AttemptFails,
     JobRemoved, JobStep, vars
<1> QED BY <1>1, <1>2, <1>3, <1>4, <1>5, <1>6, <1>7, <1>8, <1>9, <1>10, <1>11
        DEF Next, Worker, Watches, Environment

(* The restores and the worker's copy of one, in every reachable state.     *)
LEMMA RestoresKnown == Spec => [](Objects /\ Copy)
<1>1. Init => Objects /\ Copy
  <2> SUFFICES ASSUME Init PROVE Objects /\ Copy
    OBVIOUS
  <2>1. \A r \in Restores : rs[r] = Absent /\ rsCache[r] = Absent
    BY DEF Init
  <2>2. ~Absent.exists /\ ~Absent.deleting /\ ~Absent.finalizer
    BY DEF Absent
  <2> QED BY <2>1, <2>2 DEF Init, Objects, Copy
<1>2. TypeOK /\ Objects /\ Copy /\ [Next]_vars => (Objects /\ Copy)'
  BY ObjectsStep, CopyStep
<1> QED BY <1>1, <1>2, TypeCorrect, PTL DEF Spec

(* The lock is taken for a restore that is to run, given up before that     *)
(* restore is done, and always of one that somebody will end.               *)
Owned ==
  CaughtUp =>
    /\ pc \in {"finish", "drop"} => ~gs.restoring
    /\ pc \in {"lock", "create", "started", "clear"} =>
         InProgress(cur) /\ rs[cur].finalizer
    /\ LockOwned

(* No restore is deleted.                                                   *)
Standing == \A r \in used : rs[r].exists /\ ~rs[r].deleting

(* Of restores that follow one another, only the one in progress has a Job  *)
(* that writes, and the server is locked as long as it does.                *)
Held ==
  CaughtUp /\ backup /\ ~overlapped /\ Standing =>
    /\ \A q, r \in Restores : InProgress(q) /\ InProgress(r) => q = r
    /\ \A r \in Restores : Writes(job[r]) => InProgress(r) /\ gs.restoring
    /\ pc \in {"clear", "finish"} => ~Writes(job[cur])
    /\ pc # "release"

(* A user's deletion, a new restore and a cache catching up leave a restore *)
(* in progress, with its finalizer, what it is.                             *)
LEMMA StaysInProgress ==
  ASSUME TypeOK, Objects, Untouched \/ OperatorRestarts
           \/ \E r \in Restores : SeeRestore(r) \/ CreateRestore(r) \/ DeleteRestore(r),
         NEW q \in Restores, InProgress(q), rs[q].finalizer
  PROVE  InProgress(q)' /\ rs'[q].finalizer
<1>0. rs \in [Restores -> RestoreObjects]
  BY DEF TypeOK
<1>1. ASSUME NEW r \in Restores, CreateRestore(r) PROVE InProgress(q)' /\ rs'[q].finalizer
  BY <1>0, <1>1 DEF CreateRestore, Objects, InProgress
<1>2. ASSUME NEW r \in Restores, DeleteRestore(r) PROVE InProgress(q)' /\ rs'[q].finalizer
  <2>1. CASE q = r
    <3>1. rs'[q] = [rs[q] EXCEPT !.deleting = TRUE]
      BY <1>0, <1>2, <2>1 DEF DeleteRestore
    <3> QED BY <1>0, <3>1 DEF InProgress, RestoreObjects
  <2>2. CASE q # r
    BY <1>0, <1>2, <2>2 DEF DeleteRestore, InProgress
  <2> QED BY <2>1, <2>2
<1>3. CASE UNCHANGED rs
  BY <1>3 DEF InProgress
<1> QED BY <1>1, <1>2, <1>3 DEF Untouched, OperatorRestarts, SeeRestore

(* LockOwned, with what the worker has to know for it.                      *)
LEMMA OwnedHolds == Spec => []Owned
<1> USE DEF serverVars, restoreVars, jobVars, workerVars, historyVars
<1>1. Init => Owned
  BY DEF Init, Owned, LockOwned
<1>2. TypeOK /\ Objects /\ Copy /\ LockKnown /\ Owned /\ [Next]_vars => Owned'
  <2> SUFFICES ASSUME CaughtUp, TypeOK, Objects, Copy, LockKnown, Owned, [Next]_vars
               PROVE  Owned'
    BY DEF Owned
  <2>0. /\ rs \in [Restores -> RestoreObjects] /\ l \in RestoreObjects
        /\ gs \in GameServers /\ (pc # "idle" => cur \in Restores)
    BY DEF TypeOK
  <2>1. ASSUME NEW r \in Restores, BeginReconcile(r) PROVE Owned'
    <3>1. UNCHANGED <<gs, rs>> /\ LockOwned'
      BY <2>1 DEF BeginReconcile, Owned, LockOwned, InProgress
    <3>2. pc' \in {"idle", "release", "adopt", "lock", "clear"}
      BY <2>1 DEF BeginReconcile, Steps, StartSteps, PollSteps
    <3>3. ASSUME pc' \in {"lock", "clear"} PROVE (InProgress(cur) /\ rs[cur].finalizer)'
      <4>1. cur' = r /\ pc' \in Steps(rsCache[r], jobCache[r])
        BY <2>1, <3>3 DEF BeginReconcile
      <4>2. rsCache[r].finalizer /\ rsCache[r].phase \notin Terminal
        BY <3>3, <4>1 DEF Steps, StartSteps, PollSteps, Terminal
      <4>3. rs[r].finalizer /\ rs[r].phase \notin Terminal
        BY <2>1, <4>2 DEF BeginReconcile, OwnWritesSeen
      <4> QED BY <3>1, <4>1, <4>3 DEF Objects, InProgress
    <3> QED BY <3>1, <3>2, <3>3 DEF Owned
  <2>2. CASE Lock
    <3>1. pc = "lock" /\ pc' = "create" /\ UNCHANGED <<rs, cur>>
      BY <2>2 DEF Lock, SetRestoring
    <3> QED BY <2>0, <3>1 DEF Owned, LockOwned, InProgress
  <2>3. CASE Unlock
    <3>1. /\ UNCHANGED <<rs, cur>> /\ pc' \in {"finish", "drop"}
          /\ gsCache.restoring = gs.restoring
      BY <2>3 DEF Unlock, SetRestoring, LockKnown
    <3>2. ~gs'.restoring
      BY <2>0, <2>3, <3>1 DEF Unlock, SetRestoring, GameServers
    <3> QED BY <3>1, <3>2 DEF Owned, LockOwned
  <2>4. CASE CreateJob
    BY <2>4 DEF CreateJob, Owned, LockOwned, InProgress
  <2>5. CASE Adopt \/ MarkRunning
    <3>1. PICK new \in {[l EXCEPT !.finalizer = TRUE], [l EXCEPT !.phase = "Running"]} :
             WorkerWrites(new)
      BY <2>5, Writing
    <3>2. /\ new.exists = l.exists /\ (l.finalizer => new.finalizer)
          /\ l.phase \notin Terminal => new.phase \notin Terminal
      BY <2>0 DEF RestoreObjects, Terminal
    <3>3. \A q \in Restores : InProgress(q) /\ rs[q].finalizer
                                 => InProgress(q)' /\ rs'[q].finalizer
      BY <2>0, <3>1, <3>2 DEF WorkerWrites, InProgress
    <3>4. pc' = "idle" /\ gs' = gs
      BY <2>5 DEF Adopt, MarkRunning, Done, Write
    <3> QED BY <3>3, <3>4 DEF Owned, LockOwned
  <2>6. CASE MarkDone \/ DropFinalizer
    <3>1. pc' \in {"idle", "drop"} /\ gs' = gs /\ ~gs.restoring
      BY <2>6 DEF MarkDone, DropFinalizer, Done, Write, Owned
    <3> QED BY <3>1 DEF Owned, LockOwned
  <2>7. ASSUME Untouched \/ OperatorRestarts
                 \/ \E r \in Restores : SeeRestore(r) \/ CreateRestore(r) \/ DeleteRestore(r),
               pc' = "idle" \/ UNCHANGED <<pc, cur>>, gs'.restoring = gs.restoring
        PROVE  Owned'
    <3>1. \A q \in Restores : InProgress(q) /\ rs[q].finalizer
                                 => InProgress(q)' /\ rs'[q].finalizer
      BY <2>7, StaysInProgress
    <3> QED BY <2>0, <2>7, <3>1 DEF Owned, LockOwned
  <2>8. ASSUME Conflicts \/ CallFails \/ OperatorRestarts
        PROVE  pc' = "idle" /\ gs' = gs
    BY <2>8 DEF Conflicts, CallFails, OperatorRestarts, Fail, Done
  <2>9. ASSUME NEW s \in {"Running", "Stopped"}, SetState(s)
        PROVE  UNCHANGED <<pc, cur>> /\ gs'.restoring = gs.restoring
    BY <2>0, <2>9 DEF SetState, GameServers
  <2>10. CASE Conflicts \/ CallFails \/ OperatorRestarts
    BY <2>7, <2>8, <2>10, Leaving
  <2>11. CASE \E s \in {"Running", "Stopped"} : SetState(s)
    BY <2>7, <2>9, <2>11, Leaving
  <2>12. CASE Watches \/ UNCHANGED vars
    <3>1. UNCHANGED <<pc, cur, gs>>
      BY <2>12 DEF Watches, SeeServer, SeeRestore, SeeJob, vars
    <3> QED BY <2>7, <2>12, <3>1, Leaving DEF Watches
  <2>13. CASE DeleteBackup \/ \E r \in Restores : CreateRestore(r) \/ DeleteRestore(r)
                \/ JobEnds(r) \/ AttemptFails(r) \/ JobRemoved(r)
    <3>1. UNCHANGED <<pc, cur, gs>>
      BY <2>13 DEF CreateRestore, DeleteRestore, JobEnds, AttemptFails, JobRemoved, JobStep,
         DeleteBackup
    <3> QED BY <2>7, <2>13, <3>1, Leaving
  <2> QED BY <2>1, <2>2, <2>3, <2>4, <2>5, <2>6, <2>10, <2>11, <2>12, <2>13
          DEF Next, Worker, Environment
<1> QED BY <1>1, <1>2, TypeCorrect, RestoresKnown, LockKnownHolds, PTL DEF Spec

(* A history in which restores follow one another, none is deleted and the  *)
(* backup stays, was one before.                                            *)
LEMMA OrderlyBefore ==
  ASSUME TypeOK, Objects, [Next]_vars, (backup /\ ~overlapped /\ Standing)'
  PROVE  /\ backup /\ ~overlapped /\ Standing
         /\ ~DeleteBackup /\ \A r \in Restores : ~DeleteRestore(r)
<1> USE DEF serverVars, restoreVars, jobVars, workerVars, historyVars
<1>0. /\ rs \in [Restores -> RestoreObjects] /\ l \in RestoreObjects
      /\ used \subseteq Restores /\ ~Absent.exists
  BY DEF TypeOK, Absent
<1>1. ~DeleteBackup
  BY DEF DeleteBackup
<1>2. ASSUME NEW r \in Restores, DeleteRestore(r) PROVE FALSE
  <2>1. r \in used' /\ (~rs'[r].exists \/ rs'[r].deleting)
    BY <1>0, <1>2 DEF DeleteRestore, Objects, RestoreObjects
  <2> QED BY <2>1 DEF Standing
<1>3. backup \in BOOLEAN /\ overlapped \in BOOLEAN
  BY DEF TypeOK
<1>4. backup' = backup /\ (overlapped => overlapped')
  BY <1>1, <1>3 DEF Next, Worker, BeginReconcile, Adopt, Lock, Unlock, SetRestoring, CreateJob,
     MarkRunning, MarkDone, DropFinalizer, Write, Conflicts, CallFails, OperatorRestarts,
     Watches, SeeServer, SeeRestore, SeeJob, Environment, SetState, CreateRestore,
     DeleteRestore, JobEnds, AttemptFails, JobRemoved, JobStep, vars
<1>5. ASSUME NEW r \in used PROVE rs[r].exists /\ ~rs[r].deleting
  <2>0. r \in Restores
    BY <1>0
  <2>1. CASE UNCHANGED <<rs, used>>
    BY <1>5, <2>1 DEF Standing
  <2>2. ASSUME NEW new, WorkerWrites(new),
               new = Absent \/ (new.exists = l.exists /\ new.deleting = l.deleting)
        PROVE  rs[r].exists /\ ~rs[r].deleting
    <3>1. r \in used' /\ (r = cur => rs[r] = l /\ rs'[r] = new) /\ (r # cur => rs'[r] = rs[r])
      BY <1>0, <1>5, <2>0, <2>2 DEF WorkerWrites
    <3> QED BY <1>0, <2>2, <3>1 DEF Standing
  <2>3. CASE Adopt \/ MarkRunning \/ MarkDone \/ DropFinalizer
    <3>1. PICK new : WorkerWrites(new) /\
            (new = Absent \/ (new.exists = l.exists /\ new.deleting = l.deleting))
      BY <1>0, <2>3, Writing DEF RestoreObjects
    <3> QED BY <2>2, <3>1
  <2>4. ASSUME NEW q \in Restores, CreateRestore(q) PROVE rs[r].exists /\ ~rs[r].deleting
    <3>1. r \in used' /\ rs'[r] = rs[r]
      BY <1>0, <1>5, <2>0, <2>4 DEF CreateRestore
    <3> QED BY <3>1 DEF Standing
  <2> QED BY <1>2, <2>1, <2>3, <2>4, StepsOnRestores DEF Untouched, OperatorRestarts, SeeRestore
<1> QED BY <1>1, <1>2, <1>4, <1>5 DEF Standing

(* LockedWhileWriting, with what it takes to be inductive.                  *)
LEMMA HeldHolds == Spec => []Held
<1> USE DEF serverVars, restoreVars, jobVars, workerVars, historyVars
<1>1. Init => Held
  <2> SUFFICES ASSUME Init PROVE Held
    OBVIOUS
  <2>1. \A r \in Restores : job[r] = "none" /\ rs[r] = Absent
    BY DEF Init
  <2> QED BY <2>1 DEF Init, Held, Writes, InProgress, Absent
<1>2. TypeOK /\ Objects /\ Copy /\ LockKnown /\ Owned /\ Held /\ [Next]_vars => Held'
  <2> SUFFICES ASSUME CaughtUp, TypeOK, Objects, Copy, LockKnown, Owned, Held, [Next]_vars,
                      (backup /\ ~overlapped /\ Standing)'
               PROVE  Held'
    BY DEF Held
  <2>0. /\ rs \in [Restores -> RestoreObjects] /\ l \in RestoreObjects
        /\ gs \in GameServers /\ (pc # "idle" => cur \in Restores)
        /\ job \in [Restores -> Jobs]
    BY DEF TypeOK
  <2>b. /\ backup /\ ~overlapped /\ Standing
        /\ ~DeleteBackup /\ \A r \in Restores : ~DeleteRestore(r)
    BY OrderlyBefore
  <2>a. /\ \A q, r \in Restores : InProgress(q) /\ InProgress(r) => q = r
        /\ \A r \in Restores : Writes(job[r]) => InProgress(r) /\ gs.restoring
        /\ pc \in {"clear", "finish"} => ~Writes(job[cur])
        /\ pc # "release"
    BY <2>b DEF Held
  <2>1. ASSUME NEW r \in Restores, BeginReconcile(r) PROVE Held'
    <3>1. /\ UNCHANGED <<gs, rs, job>> /\ OwnWritesSeen(r)
          /\ pc' \in Steps(rsCache[r], jobCache[r]) /\ pc' # "finish"
          /\ pc' # "idle" => cur' = r
      BY <2>1 DEF BeginReconcile, Steps, StartSteps, PollSteps
    <3>2. pc' # "release"
      <4>1. pc' = "release" => rsCache[r].deleting /\ rsCache[r].exists
        BY <3>1 DEF Steps, StartSteps, PollSteps
      <4> QED BY <2>b, <4>1 DEF Objects, Standing
    <3>3. pc' = "clear" => ~Writes(job[r])
      <4>1. pc' = "clear" => ~Writes(jobCache[r])
        BY <2>b, <3>1 DEF Steps, StartSteps, PollSteps
      <4> QED BY <3>1, <4>1 DEF OwnWritesSeen
    <3> QED BY <2>a, <3>1, <3>2, <3>3 DEF Held, InProgress
  <2>2. CASE Adopt \/ MarkRunning
    <3>1. CASE Adopt
      <4>1. PICK m : WorkerWrites(m) /\ m = [l EXCEPT !.finalizer = TRUE]
        BY <3>1, Writing
      <4>2. \A q \in Restores : InProgress(q)' <=> InProgress(q)
        BY <2>0, <4>1 DEF WorkerWrites, InProgress, RestoreObjects
      <4> QED BY <2>a, <3>1, <4>2 DEF Adopt, Done, Write, Held
    <3>2. CASE MarkRunning
      <4>1. InProgress(cur)
        BY <3>2 DEF MarkRunning, Owned
      <4>2. \A q \in Restores : InProgress(q)' <=> InProgress(q)
        BY <2>0, <3>2, <4>1, Writing DEF WorkerWrites, InProgress, RestoreObjects, Terminal
      <4> QED BY <2>a, <3>2, <4>2 DEF MarkRunning, Done, Write, Held
    <3> QED BY <2>2, <3>1, <3>2
  <2>3. CASE MarkDone
    <3>1. \A q \in Restores : InProgress(q)' => InProgress(q) /\ q # cur
      BY <2>0, <2>3, Writing DEF WorkerWrites, InProgress, RestoreObjects, TypeOK
    <3>2. \A q \in Restores : q # cur /\ InProgress(q) => InProgress(q)'
      BY <2>0, <2>3, Writing DEF WorkerWrites, InProgress
    <3>3. pc = "finish" /\ pc' = "drop" /\ UNCHANGED <<gs, job>>
      BY <2>3 DEF MarkDone, Write
    <3> QED BY <2>a, <3>1, <3>2, <3>3 DEF Held
  <2>4. CASE DropFinalizer
    <3>1. ~l.deleting /\ l.phase \in Terminal
      <4>1. cur \in used /\ l = rs[cur]
        BY <2>0, <2>4 DEF DropFinalizer, Write, Copy
      <4> QED BY <2>b, <2>4, <4>1 DEF DropFinalizer, Copy, Standing
    <3>2. \A q \in Restores : InProgress(q)' <=> InProgress(q)
      BY <2>0, <2>4, <3>1, Writing DEF WorkerWrites, InProgress, RestoreObjects
    <3> QED BY <2>a, <2>4, <3>2 DEF DropFinalizer, Done, Write, Held
  <2>5. CASE Lock
    <3>1. pc' = "create" /\ UNCHANGED <<rs, job>> /\ gs'.restoring
      BY <2>0, <2>5 DEF Lock, SetRestoring, LockKnown, GameServers
    <3> QED BY <2>a, <3>1 DEF Held, InProgress
  <2>6. CASE Unlock
    <3>1. pc = "clear" /\ pc' = "finish" /\ UNCHANGED <<rs, job, cur>>
      BY <2>a, <2>6 DEF Unlock, SetRestoring
    <3>2. InProgress(cur) /\ cur \in Restores
      BY <2>0, <3>1 DEF Owned
    <3>3. \A r \in Restores : ~Writes(job[r])
      BY <2>a, <3>1, <3>2
    <3> QED BY <2>a, <3>1, <3>2, <3>3 DEF Held, InProgress
  <2>7. CASE CreateJob
    <3>1. InProgress(cur) /\ gs.restoring /\ cur \in Restores
      BY <2>0, <2>7 DEF CreateJob, Owned, LockKnown
    <3>2. \A r \in Restores : r # cur => job'[r] = job[r]
      BY <2>0, <2>7 DEF CreateJob
    <3> QED BY <2>a, <2>7, <3>1, <3>2 DEF CreateJob, Held, InProgress
  <2>8. ASSUME UNCHANGED rs, gs'.restoring = gs.restoring,
               pc' = "idle" \/ UNCHANGED <<pc, cur>>,
               \A r \in Restores : Writes(job'[r]) => Writes(job[r])
        PROVE  Held'
    BY <2>0, <2>8, <2>a DEF Held, InProgress
  <2>9. CASE Conflicts \/ CallFails \/ OperatorRestarts
    BY <2>8, <2>9 DEF Conflicts, CallFails, OperatorRestarts, Fail, Done
  <2>10. ASSUME NEW s \in {"Running", "Stopped"}, SetState(s) PROVE Held'
    <3>1. gs'.restoring = gs.restoring
      BY <2>0, <2>10 DEF SetState, GameServers
    <3> QED BY <2>8, <2>10, <3>1 DEF SetState
  <2>11. CASE Watches \/ UNCHANGED vars
    BY <2>8, <2>11 DEF Watches, SeeServer, SeeRestore, SeeJob, vars
  <2>12. ASSUME NEW r \in Restores, JobEnds(r) \/ AttemptFails(r) \/ JobRemoved(r) PROVE Held'
    <3>1. \A q \in Restores : Writes(job'[q]) => Writes(job[q])
      BY <2>0, <2>12 DEF JobEnds, AttemptFails, JobRemoved, JobStep, Writes
    <3> QED BY <2>8, <2>12, <3>1 DEF JobEnds, AttemptFails, JobRemoved, JobStep
  <2>13. ASSUME NEW r \in Restores, CreateRestore(r) PROVE Held'
    <3>1. \A q \in Restores : ~InProgress(q) /\ ~Writes(job[q])
      BY <2>13, <2>a DEF CreateRestore, InProgress
    <3>2. \A q \in Restores : InProgress(q)' => q = r
      BY <2>0, <2>13, <3>1 DEF CreateRestore, InProgress
    <3> QED BY <2>0, <2>13, <2>a, <3>1, <3>2 DEF CreateRestore, Held
  <2> QED BY <2>1, <2>2, <2>3, <2>4, <2>5, <2>6, <2>7, <2>9, <2>10, <2>11, <2>12, <2>13, <2>b
          DEF Next, Worker, Environment
<1> QED BY <1>1, <1>2, TypeCorrect, RestoresKnown, LockKnownHolds, OwnedHolds, PTL DEF Spec

(* LockKept: where reconciles see the operator's own writes, the server is  *)
(* locked while a Job writes, and never without a restore that will end.    *)
THEOREM LocksKept == ASSUME CaughtUp PROVE Spec => []LockKept
<1>1. Owned /\ Held => LockKept
  BY DEF Owned, Held, LockKept, LockedWhileWriting, Standing
<1> QED BY <1>1, OwnedHolds, HeldHolds, PTL

-----------------------------------------------------------------------------
(* Nothing is lost.                                                         *)

(* A restore that is to run, or to go, is in the queue, in the worker's     *)
(* hands, or about to come up in the cache.                                 *)
Attended ==
  \A r \in Restores :
    rs[r].exists /\ (InProgress(r) \/ rs[r].deleting)
      => r \in queue \/ cur = r \/ rsCache[r] # rs[r]

(* No failure, conflict, deletion or coalesced event loses a restore.       *)
LEMMA AttendedHolds == Spec => []Attended
<1> USE DEF serverVars, restoreVars, jobVars, workerVars, historyVars
<1>1. Init => Attended
  <2>1. Init => \A r \in Restores : rs[r] = Absent
    BY DEF Init
  <2>2. ~Absent.exists
    BY DEF Absent
  <2> QED BY <2>1, <2>2 DEF Attended
<1>2. TypeOK /\ Objects /\ Copy /\ Attended /\ [Next]_vars => Attended'
  <2> SUFFICES ASSUME TypeOK, Objects, Copy, Attended, [Next]_vars PROVE Attended'
    OBVIOUS
  <2>0. /\ rs \in [Restores -> RestoreObjects] /\ rsCache \in [Restores -> RestoreObjects]
        /\ l \in RestoreObjects /\ (pc # "idle" => cur \in Restores)
        /\ NoRestore \notin Restores /\ (pc = "idle" => cur = NoRestore)
    BY RestoresAssumption DEF TypeOK
  <2>1. ASSUME NEW r \in Restores, BeginReconcile(r) PROVE Attended'
    <3>1. UNCHANGED <<rs, rsCache>> /\ pc = "idle"
      BY <2>1 DEF BeginReconcile
    <3>2. CASE pc' # "idle"
      <4>1. cur' = r /\ queue' = queue \ {r}
        BY <2>1, <3>2 DEF BeginReconcile
      <4> QED BY <2>0, <3>1, <4>1 DEF Attended, InProgress
    <3>3. CASE pc' = "idle" /\ queue' = queue
      BY <2>0, <3>1, <3>3 DEF Attended, InProgress
    <3>4. CASE pc' = "idle" /\ queue' # queue
      <4>1. queue' = queue \ {r} /\ pc' \in Steps(rsCache[r], jobCache[r])
            /\ ~(rsCache[r].phase = "Running" /\ ~rsCache[r].deleting)
        BY <2>1, <3>4 DEF BeginReconcile
      <4>2. \/ ~rsCache[r].exists
            \/ rsCache[r].deleting /\ ~rsCache[r].finalizer
            \/ ~rsCache[r].deleting /\ rsCache[r].phase \in Terminal
        BY <2>0, <3>4, <4>1 DEF Steps, StartSteps, RestoreObjects, Phases
      <4>3. rsCache[r] = rs[r] => ~(rs[r].exists /\ (InProgress(r) \/ rs[r].deleting))
        BY <4>2 DEF Objects, InProgress
      <4> QED BY <2>0, <3>1, <4>1, <4>3 DEF Attended, InProgress
    <3> QED BY <3>2, <3>3, <3>4
  <2>2. ASSUME NEW new, WorkerWrites(new),
               queue \subseteq queue',
               \/ cur' = cur
               \/ cur \in queue' \/ rsCache[cur] # new
               \/ ~(new.exists /\ (new.phase \notin Terminal \/ new.deleting))
        PROVE  Attended'
    <3>1. rs'[cur] = new /\ \A r \in Restores : r # cur => rs'[r] = rs[r]
      BY <2>0, <2>2 DEF WorkerWrites
    <3> QED BY <2>0, <2>2, <3>1 DEF WorkerWrites, Attended, InProgress
  <2>3. CASE Adopt
    <3>1. WorkerWrites([l EXCEPT !.finalizer = TRUE]) /\ ~rsCache[cur].finalizer
      BY <2>3, Writing DEF Adopt, Copy, WorkerWrites
    <3>2. [l EXCEPT !.finalizer = TRUE].finalizer
      BY <2>0 DEF RestoreObjects
    <3> QED BY <2>2, <2>3, <3>1, <3>2 DEF Adopt
  <2>4. CASE MarkRunning
    BY <2>0, <2>2, <2>4, Writing DEF MarkRunning
  <2>5. CASE MarkDone
    BY <2>0, <2>2, <2>5, Writing DEF MarkDone
  <2>6. CASE DropFinalizer
    <3> DEFINE new == IF l.deleting THEN Absent ELSE [l EXCEPT !.finalizer = FALSE]
    <3>1. ~(new.exists /\ (new.phase \notin Terminal \/ new.deleting))
      BY <2>0, <2>6 DEF DropFinalizer, Copy, RestoreObjects, Absent
    <3>2. WorkerWrites(new) /\ queue' = queue
      BY <2>6, Writing DEF DropFinalizer
    <3> HIDE DEF new
    <3> QED BY <2>2, <3>1, <3>2
  <2>7. ASSUME UNCHANGED <<rs, rsCache>>, queue \subseteq queue', cur' = cur \/ cur \in queue'
        PROVE  Attended'
    BY <2>0, <2>7 DEF Attended, InProgress
  <2>8. CASE Lock \/ Unlock \/ CreateJob \/ Conflicts \/ CallFails
    BY <2>7, <2>8 DEF Lock, Unlock, SetRestoring, CreateJob, Conflicts, CallFails, Fail
  <2>9. CASE OperatorRestarts
    BY <2>9 DEF OperatorRestarts, Attended
  <2>10. CASE \/ SeeServer \/ DeleteBackup \/ UNCHANGED vars
              \/ \E s \in {"Running", "Stopped"} : SetState(s)
              \/ \E r \in Restores : SeeJob(r) \/ JobEnds(r) \/ AttemptFails(r) \/ JobRemoved(r)
    BY <2>7, <2>10 DEF SeeServer, SeeJob, DeleteBackup, SetState, JobEnds, AttemptFails,
       JobRemoved, JobStep, vars
  <2>11. ASSUME NEW r \in Restores, SeeRestore(r) PROVE Attended'
    BY <2>0, <2>11 DEF SeeRestore, Attended, InProgress
  <2>12. ASSUME NEW r \in Restores, CreateRestore(r) PROVE Attended'
    <3>1. ~rsCache[r].exists /\ rs'[r].exists
      BY <2>0, <2>12 DEF CreateRestore, Objects, Absent
    <3>2. \A q \in Restores : q # r => rs'[q] = rs[q]
      BY <2>0, <2>12 DEF CreateRestore
    <3> QED BY <2>12, <3>1, <3>2 DEF CreateRestore, Attended, InProgress
  <2>13. ASSUME NEW r \in Restores, DeleteRestore(r) PROVE Attended'
    <3>1. ~rsCache[r].deleting /\ (rs'[r].deleting \/ ~rs'[r].exists)
      BY <2>0, <2>13 DEF DeleteRestore, Objects, Absent, RestoreObjects
    <3>2. \A q \in Restores : q # r => rs'[q] = rs[q]
      BY <2>0, <2>13 DEF DeleteRestore
    <3> QED BY <2>13, <3>1, <3>2 DEF DeleteRestore, Attended, InProgress
  <2> QED BY <2>1, <2>3, <2>4, <2>5, <2>6, <2>8, <2>9, <2>10, <2>11, <2>12, <2>13
          DEF Next, Worker, Watches, Environment
<1> QED BY <1>1, <1>2, TypeCorrect, RestoresKnown, PTL DEF Spec

(* Settled: with empty queue and caches caught up every restore has ended   *)
(* or gone, and where reconciles see the operator's own writes the server   *)
(* is free.                                                                 *)
THEOREM AllSettled == ASSUME CaughtUp PROVE Spec => []Settled
<1>1. TypeOK /\ Attended /\ Owned => Settled
  <2> SUFFICES ASSUME TypeOK, Attended, Owned, pc = "idle", queue = {}, rsCache = rs
               PROVE  /\ \A r \in Restores : rs[r].exists => ~InProgress(r) /\ ~rs[r].deleting
                      /\ ~gs.restoring
    BY DEF Settled
  <2>1. \A r \in Restores : rs[r].exists => ~InProgress(r) /\ ~rs[r].deleting
    BY RestoresAssumption DEF TypeOK, Attended
  <2> QED BY <2>1 DEF Owned, LockOwned, InProgress
<1> QED BY <1>1, TypeCorrect, AttendedHolds, OwnedHolds, PTL

-----------------------------------------------------------------------------
(* Destinations: the types.                                                 *)

LEMMA NoRequestType == NoRequest \in Request
BY DEF NoRequest, Request, NoConnection, Ops, PCs

LEMMA GoesType ==
  ASSUME req \in [Slots -> Request], NEW s \in Slots, NEW step \in PCs, Goes(s, step)
  PROVE  req' \in [Slots -> Request]
<1>1. [req[s] EXCEPT !.pc = step] \in Request
  BY DEF Request
<1> QED BY <1>1 DEF Goes

LEMMA EndsType ==
  ASSUME req \in [Slots -> Request], NEW s \in Slots, Ends(s)
  PROVE  req' \in [Slots -> Request]
BY NoRequestType DEF Ends

LEMMA EndsWritingType ==
  ASSUME req \in [Slots -> Request], NEW s \in Slots, NEW old, NEW crossed,
         EndsWriting(s, old, crossed)
  PROVE  req' \in [Slots -> Request]
<1>1. \A t \in Slots : \A f, c \in BOOLEAN : [req[t] EXCEPT !.fresh = f, !.crossed = c] \in Request
  BY DEF Request
<1>2. \A t \in Slots : /\ (req[t].fresh /\ t \notin old) \in BOOLEAN
                       /\ (req[t].crossed \/ t \in crossed) \in BOOLEAN
  OBVIOUS
<1> QED BY <1>1, <1>2, NoRequestType DEF EndsWriting

LEMMA BeginType ==
  ASSUME PlanTypes, NEW s \in Slots, NEW r \in Request, Begin(s, r)
  PROVE  PlanTypes'
BY DEF Begin, PlanTypes, secrets

LEMMA RequestTypes ==
  ASSUME PlanTypes, NEW s \in Slots,
         RequestBackup(s) \/ RequestRun(s) \/ RequestPut(s) \/ RequestDrop(s) \/ RequestTarget(s)
  PROVE  PlanTypes'
<1>1. CASE RequestBackup(s)
  <2>1. \A n \in Servers :
          [NoRequest EXCEPT !.op = "backup", !.pc = "get", !.server = n] \in Request
    BY NoRequestType DEF Request, Ops, PCs
  <2> QED BY <1>1, <2>1, BeginType DEF RequestBackup, Created
<1>5. CASE RequestRun(s)
  <2>1. \A n \in Servers :
          [NoRequest EXCEPT !.op = "run", !.pc = "get", !.server = n] \in Request
    BY NoRequestType DEF Request, Ops, PCs
  <2> QED BY <1>5, <2>1, BeginType DEF RequestRun, Created
<1>2. CASE RequestPut(s)
  <2>1. \A bs \in (SUBSET Buckets) \ {{}} :
          [NoRequest EXCEPT !.op = "put", !.pc = "read", !.buckets = bs] \in Request
    BY NoRequestType DEF Request, Ops, PCs
  <2> QED BY <1>2, <2>1, BeginType DEF RequestPut
<1>3. CASE RequestDrop(s)
  <2>1. [NoRequest EXCEPT !.op = "drop", !.pc = "users"] \in Request
    BY NoRequestType DEF Request, Ops, PCs
  <2> QED BY <1>3, <2>1, BeginType DEF RequestDrop
<1>4. CASE RequestTarget(s)
  <2>1. \A n \in Servers, to \in Places \cup {"none"} :
          [NoRequest EXCEPT !.op = "target", !.pc = "get", !.server = n, !.to = to] \in Request
    BY NoRequestType DEF Request, Ops, PCs
  <2> QED BY <1>4, <2>1, BeginType DEF RequestTarget, Created
<1> QED BY <1>1, <1>2, <1>3, <1>4, <1>5

(* The steps that read, and change the request alone.                       *)
Reads(s) ==
  \/ ReadServer(s) \/ ReadSecret(s) \/ ReadConnection(s) \/ ValidateTarget(s)
  \/ ReadPut(s) \/ CheckRemoved(s) \/ CheckUsers(s) \/ CheckBackups(s)

LEMMA ReadsTypes ==
  ASSUME PlanTypes, NEW s \in Slots, Reads(s)
  PROVE  PlanTypes' /\ UNCHANGED <<conn, own, target, backups, repo, made, requests, marks>>
<1>0. /\ req \in [Slots -> Request] /\ target \in [Servers -> Places \cup {"none", "absent"}]
      /\ conn \in [key : Nat, buckets : SUBSET Buckets]
  BY DEF PlanTypes
<1>1. UNCHANGED <<conn, own, target, backups, repo, made, requests, marks>>
  BY DEF Reads, ReadServer, ReadSecret, ReadConnection, ValidateTarget, ReadPut,
         CheckRemoved, CheckUsers, CheckBackups, secrets
<1>2. req' \in [Slots -> Request]
  <2>1. CASE ReadServer(s)
    <3>1. req[s] \in Request
      BY <1>0
    <3>2. /\ [req[s] EXCEPT !.pc = "validate", !.fresh = TRUE] \in Request
          /\ target[req[s].server] \in Places =>
               \A step \in PCs : [req[s] EXCEPT !.to = target[req[s].server], !.pc = step] \in Request
      BY <3>1 DEF Request, PCs
    <3>3. "count" \in PCs /\ "connection" \in PCs
      BY DEF PCs
    <3> DEFINE step == IF target[req[s].server] = "platform" THEN "count" ELSE "connection"
               a == [req[s] EXCEPT !.pc = "validate", !.fresh = TRUE]
               b == [req[s] EXCEPT !.to = target[req[s].server], !.pc = step]
    <3>4. a \in Request /\ (target[req[s].server] \in Places => b \in Request)
      BY <3>2, <3>3
    <3>5. \/ Ends(s) \/ req' = [req EXCEPT ![s] = a]
          \/ target[req[s].server] \in Places /\ req' = [req EXCEPT ![s] = b]
      BY <1>0, <2>1 DEF ReadServer
    <3> HIDE DEF a, b
    <3> QED BY <1>0, <3>4, <3>5, EndsType
  <2>2. CASE ReadPut(s)
    <3>a. req[s] \in Request
      BY <1>0
    <3>1. ASSUME NEW step \in PCs
          PROVE  [req[s] EXCEPT !.saw = conn, !.fresh = TRUE, !.pc = step] \in Request
      BY <1>0, <3>a DEF Request
    <3>2. "write" \in PCs /\ "users" \in PCs
      BY DEF PCs
    <3> QED BY <1>0, <2>2, <3>1, <3>2 DEF ReadPut
  <2>3. CASE ~ReadServer(s) /\ ~ReadPut(s)
    <3>1. \E step \in PCs : Goes(s, step) \/ Ends(s)
      BY <2>3 DEF Reads, ReadSecret, ReadConnection, ValidateTarget, CheckRemoved,
                  CheckUsers, CheckBackups, PCs
    <3> QED BY <1>0, <3>1, GoesType, EndsType
  <2> QED BY <2>1, <2>2, <2>3
<1> QED BY <1>0, <1>1, <1>2 DEF PlanTypes

(* A count ends the request or goes on, and remembers what it missed.       *)
LEMMA CountTypes ==
  ASSUME PlanTypes, NEW s \in Slots, CountBackups(s)
  PROVE  /\ PlanTypes' /\ UNCHANGED <<conn, own, target, backups, repo, made, requests>>
         /\ UNCHANGED <<marks.checked, marks.raced, marks.dropped>>
         /\ marks.missed \in Nat /\ marks'.missed \in Nat /\ marks.missed <= marks'.missed
         /\ req[s].pc = "count" /\ (Ends(s) \/ Goes(s, "secret"))
         /\ Goes(s, "secret") =>
              \/ Ends(s)
              \/ /\ HasRoom(req[s].server, KnownTo(s))
                 /\ Cardinality(Counted \ KnownTo(s)) <= marks'.missed
<1>0. /\ req \in [Slots -> Request] /\ marks \in Marks /\ marks.missed \in Nat
      /\ "secret" \in PCs /\ IsFiniteSet(backups)
  BY DEF PlanTypes, Marks, PCs
<1>1. Cardinality(Counted \ KnownTo(s)) \in Nat
  <2>1. (Counted \ KnownTo(s)) \subseteq backups
    BY DEF Counted
  <2> QED BY <1>0, <2>1, FS_Subset, FS_CardinalityType
<1>2. /\ UNCHANGED <<conn, own, target, backups, repo, made, requests>> /\ req[s].pc = "count"
      /\ \/ Ends(s) /\ UNCHANGED marks
         \/ /\ Goes(s, "secret") /\ HasRoom(req[s].server, KnownTo(s))
            /\ marks' = [marks EXCEPT !.missed =
                 IF @ < Cardinality(Counted \ KnownTo(s)) THEN Cardinality(Counted \ KnownTo(s))
                 ELSE @]
  BY DEF CountBackups, secrets
<1>3. req' \in [Slots -> Request]
  BY <1>0, <1>2, GoesType, EndsType
<1>4. /\ marks' \in Marks /\ UNCHANGED <<marks.checked, marks.raced, marks.dropped>>
      /\ marks'.missed \in Nat /\ marks.missed <= marks'.missed
      /\ ~Ends(s) => Cardinality(Counted \ KnownTo(s)) <= marks'.missed
  <2> DEFINE c == Cardinality(Counted \ KnownTo(s))
  <2>1. c \in Nat
    BY <1>1
  <2>2. \/ Ends(s) /\ UNCHANGED marks
        \/ marks' = [marks EXCEPT !.missed = IF marks.missed < c THEN c ELSE marks.missed]
    BY <1>2
  <2> HIDE DEF c
  <2>3. /\ marks' \in Marks /\ UNCHANGED <<marks.checked, marks.raced, marks.dropped>>
        /\ marks'.missed \in Nat /\ marks.missed <= marks'.missed /\ (~Ends(s) => c <= marks'.missed)
    BY <1>0, <2>1, <2>2 DEF Marks
  <2> QED BY <2>3 DEF c
<1>5. PlanTypes'
  BY <1>2, <1>3, <1>4 DEF PlanTypes
<1>6. /\ req[s].pc = "count" /\ (Ends(s) \/ Goes(s, "secret"))
      /\ Goes(s, "secret") =>
           \/ Ends(s)
           \/ /\ HasRoom(req[s].server, KnownTo(s))
              /\ Cardinality(Counted \ KnownTo(s)) <= marks'.missed
  BY <1>2, <1>4
<1> QED BY <1>0, <1>2, <1>4, <1>5, <1>6

(* The steps of a request that write.                                       *)
RequestWrites(s) ==
  \/ MakeSecret(s) \/ CreateBackup(s) \/ UpdateTarget(s)
  \/ CreateConnection(s) \/ UpdateConnection(s) \/ DeleteConnection(s)

(* A request that creates a backup has a place for it, and one that works   *)
(* on a server names it.                                                    *)
Placed == \A s \in Slots : req[s].pc = "create" => req[s].to \in Places
Served == \A s \in Slots : req[s].pc \in {"create", "update"} => req[s].server \in Servers

LEMMA WritesTypes ==
  ASSUME PlanTypes, Placed, Served, NEW s \in Slots, RequestWrites(s)
  PROVE  PlanTypes'
<1>0. /\ req \in [Slots -> Request] /\ req[s] \in Request
      /\ target \in [Servers -> Places \cup {"none", "absent"}] /\ backups \subseteq Backup
      /\ conn \in [key : Nat, buckets : SUBSET Buckets] /\ made \in [keys : Nat, backups : Nat]
      /\ marks \in Marks
  BY DEF PlanTypes
<1>1. CASE MakeSecret(s)
  <2>1. own' \in Nat /\ made' \in [keys : Nat, backups : Nat]
    BY <1>0, <1>1 DEF MakeSecret, PlanTypes
  <2>2. req' \in [Slots -> Request]
    BY <1>0, <1>1, GoesType, EndsType DEF MakeSecret, PCs
  <2> QED BY <1>1, <2>1, <2>2 DEF MakeSecret, PlanTypes
<1>2. CASE CreateBackup(s)
  <2>1. [id |-> made.backups + 1, server |-> req[s].server, to |-> req[s].to,
         phase |-> "Pending", key |-> 0, deleting |-> FALSE, seen |-> req[s].to # "platform"] \in Backup
    BY <1>0, <1>2 DEF CreateBackup, Placed, Served, Backup, Request, BackupPhases
  <2>2. backups' \subseteq Backup /\ IsFiniteSet(backups')
    <3>1. PICK x \in Backup : backups' = backups \cup {x}
      BY <1>2, <2>1 DEF CreateBackup
    <3>2. IsFiniteSet(backups \cup {x})
      BY FS_AddElement DEF PlanTypes
    <3> HIDE DEF Backup
    <3> QED BY <1>0, <3>1, <3>2
  <2>4. made' \in [keys : Nat, backups : Nat]
    BY <1>0, <1>2 DEF CreateBackup
  <2>3. req' \in [Slots -> Request]
    BY <1>0, <1>2, EndsWritingType DEF CreateBackup
  <2> QED BY <1>2, <2>2, <2>3, <2>4 DEF CreateBackup, PlanTypes, secrets
<1>3. CASE UpdateTarget(s)
  <2>1. req' \in [Slots -> Request]
    BY <1>0, <1>3, EndsType, EndsWritingType DEF UpdateTarget
  <2>2. target' \in [Servers -> Places \cup {"none", "absent"}]
    BY <1>0, <1>3 DEF UpdateTarget, Request
  <2>3. marks' \in Marks
    <3>1. UNCHANGED marks \/ /\ req[s].server \in Servers
                             /\ marks' = [marks EXCEPT !.checked = @ \cup {req[s].server},
                                                       !.raced = @ \/ req[s].crossed]
      BY <1>3 DEF UpdateTarget, Served
    <3>2. (marks.raced \/ req[s].crossed) \in BOOLEAN
      OBVIOUS
    <3>3. \A c \in SUBSET Servers : \A r \in BOOLEAN :
            [marks EXCEPT !.checked = c, !.raced = r] \in Marks
      BY <1>0 DEF Marks
    <3>4. req[s].server \in Servers => marks.checked \cup {req[s].server} \in SUBSET Servers
      BY <1>0 DEF Marks
    <3> DEFINE c == marks.checked \cup {req[s].server}
               r == marks.raced \/ req[s].crossed
    <3>5. \/ UNCHANGED marks
          \/ /\ marks' = [marks EXCEPT !.checked = c, !.raced = r]
             /\ c \in SUBSET Servers /\ r \in BOOLEAN
      BY <3>1, <3>2, <3>4
    <3> HIDE DEF c, r
    <3>6. c \in SUBSET Servers /\ r \in BOOLEAN => [marks EXCEPT !.checked = c, !.raced = r] \in Marks
      BY <3>3
    <3>7. CASE UNCHANGED marks
      BY <1>0, <3>7
    <3>8. CASE ~UNCHANGED marks
      BY <3>5, <3>6, <3>8
    <3> QED BY <3>7, <3>8
  <2> QED BY <1>3, <2>1, <2>2, <2>3 DEF UpdateTarget, PlanTypes, secrets
<1>4. CASE CreateConnection(s) \/ UpdateConnection(s) \/ DeleteConnection(s)
  <2>1. req' \in [Slots -> Request]
    BY <1>0, <1>4, EndsType, EndsWritingType
       DEF CreateConnection, UpdateConnection, DeleteConnection
  <2>2. conn' \in [key : Nat, buckets : SUBSET Buckets] /\ made' \in [keys : Nat, backups : Nat]
    BY <1>0, <1>4 DEF CreateConnection, UpdateConnection, DeleteConnection, NoConnection, Request
  <2>3. marks' \in Marks
    BY <1>0, <1>4 DEF CreateConnection, UpdateConnection, DeleteConnection, Raced, Marks
  <2>4. UNCHANGED <<own, target, backups, repo, requests>>
    BY <1>4 DEF CreateConnection, UpdateConnection, DeleteConnection
  <2> QED BY <2>1, <2>2, <2>3, <2>4 DEF PlanTypes
<1> QED BY <1>1, <1>2, <1>3, <1>4 DEF RequestWrites

(* The steps of the Jobs and the operator, and a user's deletion.           *)
Runs == Store \/ BackupFails \/ RemoveBackup \/ Clean \/ SeeBackup

LEMMA RunsFinite ==
  ASSUME IsFiniteSet(backups), Runs
  PROVE  IsFiniteSet(backups')
<1>1. \E x : backups' \subseteq backups \cup {x}
  BY DEF Runs, Store, BackupFails, RemoveBackup, Clean, SeeBackup, Becomes
<1>2. PICK x : backups' \subseteq backups \cup {x}
  BY <1>1
<1>3. IsFiniteSet(backups \cup {x})
  BY FS_AddElement
<1> QED BY <1>2, <1>3, FS_Subset

LEMMA RunsTypes ==
  ASSUME PlanTypes, Runs
  PROVE  PlanTypes'
<1>0. /\ backups \subseteq Backup /\ own \in Nat /\ conn.key \in Nat
      /\ repo \in [Places \X Servers -> Nat]
  BY DEF PlanTypes
<1>1. \A b \in backups : /\ Key(b.to) \in Nat /\ <<b.to, b.server>> \in Places \X Servers
                         /\ \A phase \in BackupPhases, key \in Nat :
                              [b EXCEPT !.phase = phase, !.key = key] \in Backup
                         /\ [b EXCEPT !.deleting = TRUE] \in Backup
                         /\ [b EXCEPT !.seen = TRUE] \in Backup
  BY <1>0 DEF Key, Backup
<1>4. IsFiniteSet(backups')
  BY RunsFinite DEF PlanTypes
<1>2. CASE Store
  <2>1. PICK b \in backups :
          LET at == <<b.to, b.server>> key == Key(b.to) IN
            /\ repo' = [repo EXCEPT ![at] = IF @ = 0 THEN key ELSE @]
            /\ Becomes(b, IF repo'[at] = key THEN "Completed" ELSE "Refused", key)
            /\ UNCHANGED <<secrets, target, req, made, requests, marks>>
    BY <1>2 DEF Store
  <2>2. repo' \in [Places \X Servers -> Nat]
    BY <1>0, <1>1, <2>1
  <2>3. backups' \subseteq Backup
    BY <1>0, <1>1, <2>1 DEF Becomes, BackupPhases
  <2> QED BY <1>4, <2>1, <2>2, <2>3 DEF PlanTypes, secrets
<1>3. CASE BackupFails \/ RemoveBackup \/ Clean \/ SeeBackup
  <2>1. backups' \subseteq Backup
    <3>1. CASE BackupFails
      BY <1>0, <1>1, <3>1 DEF BackupFails, Becomes, BackupPhases
    <3>2. CASE RemoveBackup
      BY <1>0, <1>1, <3>2 DEF RemoveBackup
    <3>3. CASE Clean
      BY <1>0, <3>3 DEF Clean
    <3>4. CASE SeeBackup
      BY <1>0, <1>1, <3>4 DEF SeeBackup
    <3> QED BY <1>3, <3>1, <3>2, <3>3, <3>4
  <2>2. requests' \in Nat
    BY <1>3 DEF BackupFails, RemoveBackup, Clean, SeeBackup, PlanTypes
  <2>3. UNCHANGED <<conn, own, target, repo, req, made, marks>>
    BY <1>3 DEF BackupFails, RemoveBackup, Clean, SeeBackup, secrets
  <2> QED BY <1>4, <2>1, <2>2, <2>3 DEF PlanTypes
<1> QED BY <1>2, <1>3 DEF Runs

LEMMA CreateServerTypes ==
  ASSUME PlanTypes, CreateServer
  PROVE  PlanTypes' /\ UNCHANGED <<conn, own, backups, repo, req, made, requests, marks>>
BY DEF CreateServer, PlanTypes, secrets

LEMMA PlanCases ==
  ASSUME [PlanNext]_planVars
  PROVE  \/ \E s \in Slots : \/ RequestBackup(s) \/ RequestRun(s) \/ RequestPut(s)
                               \/ RequestDrop(s) \/ RequestTarget(s)
         \/ \E s \in Slots : Reads(s) \/ CountBackups(s)
         \/ \E s \in Slots : RequestWrites(s)
         \/ Runs \/ CreateServer
         \/ UNCHANGED planVars
BY DEF PlanNext, Handle, Reads, RequestWrites, Runs
-----------------------------------------------------------------------------
(* What the steps do to requests.                                           *)

(* r, outdated or crossed by the step of another one.                       *)
Same(r, x) ==
  /\ x.op = r.op /\ x.pc = r.pc /\ x.server = r.server /\ x.to = r.to
  /\ x.buckets = r.buckets /\ x.saw = r.saw
  /\ (x.fresh => r.fresh) /\ (r.crossed => x.crossed)

(* r, one step later.                                                       *)
Keeps(r, x) == x.op = r.op /\ x.server = r.server /\ x.buckets = r.buckets /\ x.crossed = r.crossed

Others(s) == \A t \in Slots \ {s} : Same(req[t], req'[t])

LEMMA Went ==
  ASSUME req \in [Slots -> Request], NEW s \in Slots, NEW step, Goes(s, step)
  PROVE  /\ Others(s) /\ Keeps(req[s], req'[s]) /\ req'[s].pc = step
         /\ req'[s].to = req[s].to /\ req'[s].saw = req[s].saw /\ req'[s].fresh = req[s].fresh
BY DEF Goes, Others, Same, Keeps, Request

LEMMA Ended ==
  ASSUME req \in [Slots -> Request], NEW s \in Slots, Ends(s)
  PROVE  Others(s) /\ req'[s] = NoRequest
BY DEF Ends, Others, Same

LEMMA EndedWriting ==
  ASSUME req \in [Slots -> Request], NEW s \in Slots, NEW old, NEW crossed,
         EndsWriting(s, old, crossed)
  PROVE  /\ Others(s) /\ req'[s] = NoRequest
         /\ \A t \in Slots \ {s} : /\ t \in old => ~req'[t].fresh
                                   /\ t \in crossed => req'[t].crossed
<1>1. req'[s] = NoRequest
  BY DEF EndsWriting
<1>2. ASSUME NEW t \in Slots \ {s}
      PROVE  /\ Same(req[t], req'[t])
             /\ t \in old => ~req'[t].fresh
             /\ t \in crossed => req'[t].crossed
  <2>1. req[t] \in Request
    OBVIOUS
  <2>2. req'[t] = [req[t] EXCEPT !.fresh = @ /\ t \notin old, !.crossed = @ \/ t \in crossed]
    BY DEF EndsWriting
  <2> QED BY <2>1, <2>2 DEF Same, Request
<1> QED BY <1>1, <1>2 DEF Others

LEMMA Started ==
  ASSUME req \in [Slots -> Request], NEW s \in Slots, NEW r \in Request, Begin(s, r)
  PROVE  Others(s) /\ req[s].pc = "idle" /\ req'[s] = r
BY DEF Begin, Others, Same

LEMMA ReadsMove ==
  ASSUME PlanTypes, NEW s \in Slots, Reads(s)
  PROVE  Others(s) /\ (req'[s] = NoRequest \/ Keeps(req[s], req'[s]))
<1>0. req \in [Slots -> Request] /\ req[s] \in Request
  BY DEF PlanTypes
<1>1. CASE ReadServer(s)
  BY <1>0, <1>1, Ended DEF ReadServer, Others, Same, Keeps, Request
<1>2. CASE ReadPut(s)
  BY <1>0, <1>2 DEF ReadPut, Others, Same, Keeps, Request
<1>3. CASE ~ReadServer(s) /\ ~ReadPut(s)
  <2>1. (\E step \in PCs : Goes(s, step)) \/ Ends(s)
    BY <1>3 DEF Reads, ReadSecret, ReadConnection, ValidateTarget, CheckRemoved,
                CheckUsers, CheckBackups, PCs
  <2> QED BY <1>0, <2>1, Went, Ended
<1> QED BY <1>1, <1>2, <1>3

LEMMA WritesMove ==
  ASSUME PlanTypes, NEW s \in Slots, RequestWrites(s)
  PROVE  Others(s) /\ (req'[s] = NoRequest \/ Keeps(req[s], req'[s]))
<1>0. req \in [Slots -> Request]
  BY DEF PlanTypes
<1>1. Goes(s, "create") \/ Ends(s) \/ \E old, crossed : EndsWriting(s, old, crossed)
  BY DEF RequestWrites, MakeSecret, CreateBackup, UpdateTarget, CreateConnection, UpdateConnection,
         DeleteConnection
<1> QED BY <1>0, <1>1, Went, Ended, EndedWriting

Begins(s) ==
  \/ RequestBackup(s) \/ RequestRun(s) \/ RequestPut(s) \/ RequestDrop(s) \/ RequestTarget(s)

(* A request that begins.                                                   *)
LEMMA BeginsMove ==
  ASSUME PlanTypes, NEW s \in Slots, Begins(s)
  PROVE  /\ Others(s) /\ req[s].pc = "idle"
         /\ UNCHANGED <<conn, own, target, backups, repo, made, marks>>
         /\ \/ /\ req'[s].op \in {"backup", "run", "target"} /\ req'[s].pc = "get"
               /\ req'[s].server \in Servers
            \/ req'[s].op = "put" /\ req'[s].pc = "read" /\ req'[s].buckets # {}
            \/ req'[s].op = "drop" /\ req'[s].pc = "users"
<1>0. req \in [Slots -> Request] /\ NoRequest \in Request
  BY NoRequestType DEF PlanTypes
<1>1. PICK r \in Request :
        /\ Begin(s, r)
        /\ \/ r.op \in {"backup", "run", "target"} /\ r.pc = "get" /\ r.server \in Servers
           \/ r.op = "put" /\ r.pc = "read" /\ r.buckets # {}
           \/ r.op = "drop" /\ r.pc = "users"
  <2>2. CASE RequestBackup(s)
    <3>1. PICK n \in Servers :
            Begin(s, [NoRequest EXCEPT !.op = "backup", !.pc = "get", !.server = n])
      BY <2>2 DEF RequestBackup, Created
    <3> DEFINE r == [NoRequest EXCEPT !.op = "backup", !.pc = "get", !.server = n]
    <3>2. r \in Request /\ r.op = "backup" /\ r.pc = "get" /\ r.server = n
      BY <1>0 DEF Request, Ops, PCs
    <3> QED BY <3>1, <3>2
  <2>3. CASE RequestRun(s)
    <3>1. PICK n \in Servers :
            Begin(s, [NoRequest EXCEPT !.op = "run", !.pc = "get", !.server = n])
      BY <2>3 DEF RequestRun, Created
    <3> DEFINE r == [NoRequest EXCEPT !.op = "run", !.pc = "get", !.server = n]
    <3>2. r \in Request /\ r.op = "run" /\ r.pc = "get" /\ r.server = n
      BY <1>0 DEF Request, Ops, PCs
    <3> QED BY <3>1, <3>2
  <2>4. CASE RequestPut(s)
    <3>1. PICK bs \in (SUBSET Buckets) \ {{}} :
            Begin(s, [NoRequest EXCEPT !.op = "put", !.pc = "read", !.buckets = bs])
      BY <2>4 DEF RequestPut
    <3> DEFINE r == [NoRequest EXCEPT !.op = "put", !.pc = "read", !.buckets = bs]
    <3>2. r \in Request /\ r.op = "put" /\ r.pc = "read" /\ r.buckets = bs /\ bs # {}
      BY <1>0 DEF Request, Ops, PCs
    <3> QED BY <3>1, <3>2
  <2>5. CASE RequestDrop(s)
    <3> DEFINE r == [NoRequest EXCEPT !.op = "drop", !.pc = "users"]
    <3>2. r \in Request /\ r.op = "drop" /\ r.pc = "users"
      BY <1>0 DEF Request, Ops, PCs
    <3> QED BY <2>5, <3>2 DEF RequestDrop
  <2>6. CASE RequestTarget(s)
    <3>1. PICK n \in Servers, to \in Places \cup {"none"} :
            Begin(s, [NoRequest EXCEPT !.op = "target", !.pc = "get", !.server = n, !.to = to])
      BY <2>6 DEF RequestTarget, Created
    <3> DEFINE r == [NoRequest EXCEPT !.op = "target", !.pc = "get", !.server = n, !.to = to]
    <3>2. r \in Request /\ r.op = "target" /\ r.pc = "get" /\ r.server = n
      BY <1>0 DEF Request, Ops, PCs
    <3> QED BY <3>1, <3>2
  <2> QED BY <2>2, <2>3, <2>4, <2>5, <2>6 DEF Begins
<1>2. UNCHANGED <<conn, own, target, backups, repo, made, marks>>
  BY <1>1 DEF Begin, secrets
<1> QED BY <1>0, <1>1, <1>2, Started
-----------------------------------------------------------------------------
(* A request is in the course of its operation, and has a place for the     *)
(* backup it makes.  A put has a list of buckets.                           *)
StepsOf(op) ==
  CASE op = "none" -> {"idle"}
    [] op \in {"backup", "run"} -> {"get", "count", "secret", "make", "connection", "create"}
    [] op = "put" -> {"read", "users", "write"}
    [] op = "drop" -> {"users", "backups", "delete"}
    [] op = "target" -> {"get", "validate", "update"}

Course(r) ==
  /\ r.pc \in StepsOf(r.op)
  /\ r.op = "put" => r.buckets # {}
  /\ r.op \in {"backup", "run", "target"} => r.server \in Servers
  /\ r.pc \in {"count", "secret", "make"} => r.to = "platform"
  /\ r.pc = "create" => r.to \in Places

InCourse == \A s \in Slots : Course(req[s])

LEMMA CourseSame == ASSUME NEW r, NEW x, Course(r), Same(r, x) PROVE Course(x)
BY DEF Course, Same

LEMMA NoCourse == Course(NoRequest)
BY DEF Course, NoRequest, StepsOf

LEMMA ReadsCourse ==
  ASSUME PlanTypes, InCourse, NEW s \in Slots, Reads(s) \/ CountBackups(s)
  PROVE  Course(req'[s])
<1>0. req \in [Slots -> Request] /\ req[s] \in Request /\ Course(req[s])
      /\ conn.buckets \subseteq Buckets /\ req[s].op \in Ops
  BY DEF PlanTypes, InCourse, Request
<1>1. CASE ReadServer(s)
  <2>1. CASE req[s].op = "target"
    BY <1>0, <1>1, <2>1 DEF ReadServer, Course, StepsOf, Request
  <2>2. CASE req[s].op # "target" /\ target[req[s].server] \in Places
    <3>1. req[s].op \in {"backup", "run"} /\ target[req[s].server] \in Places
      BY <1>0, <1>1, <2>2 DEF ReadServer, Course, StepsOf, Ops, PlanTypes, Request
    <3> QED BY <1>0, <1>1, <2>2, <3>1 DEF ReadServer, Course, StepsOf, Request
  <2>3. CASE req[s].op # "target" /\ target[req[s].server] \notin Places
    BY <1>0, <1>1, <2>3, NoCourse, Ended DEF ReadServer
  <2> QED BY <2>1, <2>2, <2>3
<1>2. CASE ReadPut(s)
  BY <1>0, <1>2 DEF ReadPut, Course, StepsOf, Request, Ops
<1>3. CASE Ends(s)
  BY <1>0, <1>3, Ended, NoCourse
<1>4. CASE CountBackups(s) /\ Goes(s, "secret")
  BY <1>0, <1>4, Went DEF CountBackups, Course, StepsOf, Keeps, Ops
<1>5. CASE ReadSecret(s)
  <2>1. Goes(s, "make") \/ Goes(s, "create")
    BY <1>5 DEF ReadSecret
  <2> QED BY <1>0, <1>5, <2>1, Went DEF ReadSecret, Course, StepsOf, Keeps, Ops, Places
<1>6. CASE ReadConnection(s) /\ ~Ends(s)
  BY <1>0, <1>6, Went DEF ReadConnection, Course, StepsOf, Keeps, Ops, Places
<1>7. CASE ValidateTarget(s) /\ ~Ends(s)
  BY <1>0, <1>7, Went DEF ValidateTarget, Course, StepsOf, Keeps, Ops
<1>8. CASE CheckRemoved(s) /\ ~Ends(s)
  BY <1>0, <1>8, Went DEF CheckRemoved, Course, StepsOf, Keeps
<1>9. CASE (CheckUsers(s) \/ CheckBackups(s)) /\ ~Ends(s)
  BY <1>0, <1>9, Went DEF CheckUsers, CheckBackups, Course, StepsOf, Keeps, Ops
<1> QED BY <1>1, <1>2, <1>3, <1>4, <1>5, <1>6, <1>7, <1>8, <1>9 DEF Reads, CountBackups

LEMMA WritesCourse ==
  ASSUME PlanTypes, InCourse, NEW s \in Slots, RequestWrites(s)
  PROVE  Course(req'[s])
<1>0. req \in [Slots -> Request] /\ Course(req[s]) /\ req[s].op \in Ops
  BY DEF PlanTypes, InCourse, Request
<1>1. CASE MakeSecret(s) /\ Goes(s, "create")
  BY <1>0, <1>1, Went DEF MakeSecret, Course, StepsOf, Keeps, Ops, Places
<1>2. CASE Ends(s) \/ \E old, crossed : EndsWriting(s, old, crossed)
  BY <1>0, <1>2, Ended, EndedWriting, NoCourse
<1> QED BY <1>1, <1>2 DEF RequestWrites, MakeSecret, CreateBackup, UpdateTarget, CreateConnection,
                          UpdateConnection, DeleteConnection

LEMMA PlanStep == PlanTypes /\ InCourse /\ [PlanNext]_planVars => (PlanTypes /\ InCourse)'
<1> SUFFICES ASSUME PlanTypes, InCourse, [PlanNext]_planVars PROVE (PlanTypes /\ InCourse)'
  OBVIOUS
<1>1. ASSUME NEW s \in Slots, Begins(s) PROVE (PlanTypes /\ InCourse)'
  <2>1. PlanTypes'
    BY <1>1, RequestTypes DEF Begins
  <2>2. Course(req'[s])
    BY <1>1, BeginsMove DEF Course, StepsOf
  <2> QED BY <1>1, <2>1, <2>2, BeginsMove, CourseSame DEF InCourse, Others
<1>2. ASSUME NEW s \in Slots, Reads(s) PROVE (PlanTypes /\ InCourse)'
  BY <1>2, ReadsTypes, ReadsMove, ReadsCourse, CourseSame DEF InCourse, Others
<1>3. ASSUME NEW s \in Slots, RequestWrites(s) PROVE (PlanTypes /\ InCourse)'
  <2>1. Placed /\ Served
    <3>1. \A t \in Slots : req[t].op \in Ops /\ Course(req[t])
      BY DEF PlanTypes, InCourse, Request
    <3> QED BY <3>1 DEF Placed, Served, Course, StepsOf, Ops
  <2> QED BY <1>3, <2>1, WritesTypes, WritesMove, WritesCourse, CourseSame DEF InCourse, Others
<1>6. ASSUME NEW s \in Slots, CountBackups(s) PROVE (PlanTypes /\ InCourse)'
  <2>1. req \in [Slots -> Request] /\ (Ends(s) \/ Goes(s, "secret"))
    BY <1>6, CountTypes DEF PlanTypes
  <2>2. Others(s)
    BY <2>1, Went, Ended
  <2> QED BY <1>6, <2>2, CountTypes, ReadsCourse, CourseSame DEF InCourse, Others
<1>7. CASE CreateServer
  BY <1>7, CreateServerTypes DEF InCourse
<1>4. CASE Runs
  <2>1. req' = req
    BY <1>4 DEF Runs, Store, BackupFails, RemoveBackup, Clean, SeeBackup
  <2> QED BY <1>4, <2>1, RunsTypes DEF InCourse
<1>5. CASE UNCHANGED planVars
  BY <1>5 DEF planVars, PlanTypes, InCourse
<1> QED BY <1>1, <1>2, <1>3, <1>4, <1>5, <1>6, <1>7, PlanCases DEF Begins

LEMMA PlanBegins == PlanInit => PlanTypes /\ InCourse
<1> SUFFICES ASSUME PlanInit PROVE PlanTypes /\ InCourse
  OBVIOUS
<1>1. req \in [Slots -> Request] /\ InCourse
  BY NoRequestType, NoCourse DEF PlanInit, InCourse
<1>2. backups \subseteq Backup /\ IsFiniteSet(backups)
  BY FS_EmptySet DEF PlanInit
<1>3. marks \in Marks /\ target \in [Servers -> Places \cup {"none", "absent"}]
  BY DEF PlanInit, Marks
<1> QED BY <1>1, <1>2, <1>3 DEF PlanInit, PlanTypes, NoConnection

(* The types of connections, backups and requests.                          *)
THEOREM PlanTypeCorrect == PlanSpec => []PlanTypes
BY PlanBegins, PlanStep, PTL DEF PlanSpec
LEMMA PlanTyped == PlanSpec => [](PlanTypes /\ InCourse)
BY PlanBegins, PlanStep, PTL DEF PlanSpec
-----------------------------------------------------------------------------
(* One password for a repository.                                           *)

(* A repository has the password of the Secret its backups go by.           *)
RepoInv ==
  /\ \A n \in Servers : repo[<<"platform", n>>] \in {0, own}
  /\ ~marks.dropped => \A at \in Buckets \X Servers : repo[at] \in {0, conn.key}

(* The steps that leave the passwords and the repositories alone.           *)
LEMMA RepoFrame ==
  ASSUME RepoInv, UNCHANGED <<conn, own, repo, marks.dropped>>
  PROVE  RepoInv'
BY DEF RepoInv

LEMMA BackupsFrame ==
  ASSUME OneKey, marks.dropped => marks'.dropped,
         \A b \in backups' : b.phase = "Refused" =>
           \E c \in backups : c.phase = "Refused" /\ c.to = b.to
  PROVE  OneKey'
BY DEF OneKey

LEMMA WritesRepo ==
  ASSUME PlanTypes, RepoInv, OneKey, NEW s \in Slots, RequestWrites(s)
  PROVE  RepoInv' /\ OneKey'
<1>0. /\ marks \in Marks
      /\ conn \in [key : Nat, buckets : SUBSET Buckets]
  BY DEF PlanTypes
<1>1. CASE MakeSecret(s)
  BY <1>1 DEF MakeSecret, RepoInv, OneKey
<1>2. CASE CreateBackup(s)
  <2>1. UNCHANGED <<conn, own, repo, marks>>
    BY <1>2 DEF CreateBackup, secrets
  <2>2. \A b \in backups' : b \in backups \/ b.phase = "Pending"
    BY <1>2 DEF CreateBackup
  <2> QED BY <2>1, <2>2, RepoFrame, BackupsFrame
<1>3. CASE UpdateTarget(s)
  <2>1. UNCHANGED <<conn, own, repo, marks.dropped, backups>>
    BY <1>0, <1>3 DEF UpdateTarget, secrets, Marks
  <2> QED BY <2>1, RepoFrame, BackupsFrame
<1>4. CASE CreateConnection(s)
  <2>1. UNCHANGED <<own, repo, marks, backups>> /\ (conn' = conn \/ conn.key = 0)
    BY <1>4 DEF CreateConnection
  <2> QED BY <2>1 DEF RepoInv, OneKey
<1>5. CASE UpdateConnection(s)
  <2>1. /\ UNCHANGED <<own, repo, backups>> /\ conn'.key = conn.key
        /\ marks'.dropped = marks.dropped
    BY <1>0, <1>5 DEF UpdateConnection, Raced, Marks
  <2> QED BY <2>1 DEF RepoInv, OneKey
<1>6. CASE DeleteConnection(s)
  <2>1. UNCHANGED <<own, repo, backups>> /\ marks'.dropped
    BY <1>0, <1>6 DEF DeleteConnection, Raced, Marks
  <2> QED BY <2>1 DEF RepoInv, OneKey
<1> QED BY <1>1, <1>2, <1>3, <1>4, <1>5, <1>6 DEF RequestWrites

LEMMA StoreRepo ==
  ASSUME PlanTypes, RepoInv, OneKey, Store
  PROVE  RepoInv' /\ OneKey'
<1>0. backups \subseteq Backup /\ repo \in [Places \X Servers -> Nat]
  BY DEF PlanTypes
<1>1. PICK b \in backups :
        LET at == <<b.to, b.server>> key == Key(b.to) IN
          /\ repo' = [repo EXCEPT ![at] = IF @ = 0 THEN key ELSE @]
          /\ Becomes(b, IF repo'[at] = key THEN "Completed" ELSE "Refused", key)
          /\ UNCHANGED <<secrets, marks>>
  BY DEF Store
<1> DEFINE at == <<b.to, b.server>>
<1>2. /\ b \in Backup /\ at \in Places \X Servers /\ UNCHANGED <<conn, own, marks>>
      /\ b.to \in Places /\ b.server \in Servers
  BY <1>0, <1>1 DEF Backup, secrets
<1>3. /\ repo'[at] \in {repo[at], Key(b.to)} /\ (repo[at] = 0 => repo'[at] = Key(b.to))
      /\ \A x \in (Places \X Servers) \ {at} : repo'[x] = repo[x]
  BY <1>0, <1>1, <1>2
<1>4. b.to = "platform" => repo[at] \in {0, own} /\ Key(b.to) = own
  BY <1>2 DEF RepoInv, Key
<1>5. b.to # "platform" => /\ b.to \in Buckets /\ Key(b.to) = conn.key
                           /\ ~marks.dropped => repo[at] \in {0, conn.key}
  BY <1>2 DEF RepoInv, Key, Places
<1>6. RepoInv'
  <2>1. ASSUME NEW n \in Servers PROVE repo'[<<"platform", n>>] \in {0, own}
    <3>1. <<"platform", n>> \in Places \X Servers /\ repo[<<"platform", n>>] \in {0, own}
      BY DEF Places, RepoInv
    <3>2. <<"platform", n>> = at => b.to = "platform"
      OBVIOUS
    <3> HIDE DEF at
    <3> QED BY <1>3, <1>4, <3>1, <3>2
  <2>2. ASSUME ~marks.dropped, NEW x \in Buckets \X Servers PROVE repo'[x] \in {0, conn.key}
    <3>1. x \in Places \X Servers /\ repo[x] \in {0, conn.key} /\ x # <<"platform", b.server>>
      BY <2>2, NamesAssumption DEF Places, RepoInv
    <3>2. x = at => b.to # "platform"
      BY <3>1
    <3> HIDE DEF at
    <3> QED BY <1>3, <1>5, <2>2, <3>1, <3>2
  <2> QED BY <1>2, <2>1, <2>2 DEF RepoInv
<1>7. OneKey'
  <2>1. repo'[at] # Key(b.to) => b.to # "platform" /\ marks.dropped
    BY <1>3, <1>4, <1>5
  <2> DEFINE phase == IF repo'[at] = Key(b.to) THEN "Completed" ELSE "Refused"
  <2>3. PICK x : x = [b EXCEPT !.phase = phase, !.key = Key(b.to)]
    OBVIOUS
  <2>4. backups' = (backups \ {b}) \cup {x}
    BY <1>1, <2>3 DEF Becomes
  <2>5. x.to = b.to /\ (x.phase = "Refused" => repo'[at] # Key(b.to))
    <3> HIDE DEF at
    <3> QED BY <1>2, <2>3 DEF Backup
  <2>2. \A c \in backups' :
          c \in backups \/ (c.to = b.to /\ (c.phase = "Refused" => repo'[at] # Key(b.to)))
    <3> HIDE DEF at, phase
    <3> QED BY <2>4, <2>5
  <2> HIDE DEF at, phase
  <2> QED BY <1>2, <2>1, <2>2 DEF OneKey
<1> QED BY <1>6, <1>7

LEMMA RunsRepo ==
  ASSUME PlanTypes, RepoInv, OneKey, Runs
  PROVE  RepoInv' /\ OneKey'
<1>1. CASE BackupFails \/ RemoveBackup \/ Clean \/ SeeBackup
  <2>0. backups \subseteq Backup
    BY DEF PlanTypes
  <2>1. UNCHANGED <<conn, own, repo, marks>>
    BY <1>1 DEF BackupFails, RemoveBackup, Clean, SeeBackup, secrets
  <2>2. ASSUME NEW b \in backups', b.phase = "Refused"
        PROVE  \E c \in backups : c.phase = "Refused" /\ c.to = b.to
    <3>1. CASE BackupFails
      <4>1. PICK c \in backups : backups' = (backups \ {c}) \cup {[c EXCEPT !.phase = "Failed", !.key = 0]}
        BY <3>1 DEF BackupFails, Becomes
      <4>2. [c EXCEPT !.phase = "Failed", !.key = 0].phase # "Refused"
        BY <2>0 DEF Backup
      <4> QED BY <2>2, <4>1, <4>2
    <3>2. CASE RemoveBackup
      BY <2>0, <2>2, <3>2 DEF RemoveBackup, Backup
    <3>3. CASE Clean
      BY <2>2, <3>3 DEF Clean
    <3>4. CASE SeeBackup
      <4>1. PICK c \in backups : backups' = (backups \ {c}) \cup {[c EXCEPT !.seen = TRUE]}
        BY <3>4 DEF SeeBackup
      <4>2. [c EXCEPT !.seen = TRUE].phase = c.phase /\ [c EXCEPT !.seen = TRUE].to = c.to
        BY <2>0 DEF Backup
      <4> QED BY <2>2, <4>1, <4>2
    <3> QED BY <1>1, <3>1, <3>2, <3>3, <3>4
  <2> QED BY <2>1, <2>2, RepoFrame, BackupsFrame
<1> QED BY <1>1, StoreRepo DEF Runs

LEMMA RepoStep ==
  PlanTypes /\ RepoInv /\ OneKey /\ [PlanNext]_planVars => (RepoInv /\ OneKey)'
<1> SUFFICES ASSUME PlanTypes, RepoInv, OneKey, [PlanNext]_planVars PROVE RepoInv' /\ OneKey'
  OBVIOUS
<1>1. ASSUME \/ \E s \in Slots : Begins(s) \/ Reads(s) \/ CountBackups(s)
             \/ CreateServer
      PROVE  RepoInv' /\ OneKey'
  <2>1. UNCHANGED <<conn, own, repo, backups, marks.dropped>>
    BY <1>1, BeginsMove, ReadsTypes, CountTypes, CreateServerTypes
  <2> QED BY <2>1, RepoFrame, BackupsFrame
<1>2. CASE UNCHANGED planVars
  BY <1>2, RepoFrame, BackupsFrame DEF planVars
<1> QED BY <1>1, <1>2, WritesRepo, RunsRepo, PlanCases DEF Begins

LEMMA RepoBegins == PlanInit => RepoInv /\ OneKey
BY DEF PlanInit, RepoInv, OneKey, Places, NoConnection

(* A repository meets one password as long as the connection is not deleted. *)
THEOREM KeysFit == PlanSpec => []OneKey
BY RepoBegins, RepoStep, PlanTyped, PTL DEF PlanSpec
-----------------------------------------------------------------------------
(* The limits on the platform's storage.                                    *)

(* Requests that will make a backup there.                                  *)
Making == {s \in Slots : req[s].pc \in {"secret", "make", "create"} /\ req[s].to = "platform"}

(* The backups and the requests of the servers in G, that together are to   *)
(* fit in the limit K, and as many more as can be handled at once and as    *)
(* the operator's cache missed.                                             *)
CountedIn(G) == {b \in Counted : b.server \in G}
MakingIn(G) == {s \in Making : req[s].server \in G}
Fits(G, K) == Cardinality(CountedIn(G)) + Cardinality(MakingIn(G)) <=
                K + AtOnce - 1 + marks.missed

(* What was missed is remembered.                                           *)
Remembers == marks.missed \in Nat /\ marks'.missed \in Nat /\ marks.missed <= marks'.missed

Bounded ==
  /\ IsFiniteSet(backups)
  /\ Fits(Servers, MaxPerOrg)
  /\ \A n \in Servers : Fits({n}, MaxPerServer)

LEMMA SlotsCount ==
  ASSUME NEW S, S \subseteq Slots
  PROVE  IsFiniteSet(S) /\ Cardinality(S) \in Nat /\ Cardinality(S) <= AtOnce
<1>1. IsFiniteSet(Slots) /\ Cardinality(Slots) = AtOnce
  BY BoundsAssumption, FS_Interval DEF Slots
<1> QED BY <1>1, FS_Subset, FS_CardinalityType

LEMMA FiniteIn ==
  ASSUME NEW G, IsFiniteSet(backups)
  PROVE  /\ IsFiniteSet(CountedIn(G)) /\ Cardinality(CountedIn(G)) \in Nat
         /\ IsFiniteSet(MakingIn(G)) /\ Cardinality(MakingIn(G)) \in Nat
         /\ Cardinality(MakingIn(G)) <= AtOnce
<1>1. CountedIn(G) \subseteq backups /\ MakingIn(G) \subseteq Slots
  BY DEF CountedIn, Counted, MakingIn, Making
<1> QED BY <1>1, SlotsCount, FS_Subset, FS_CardinalityType

(* One element for another.                                                 *)
LEMMA Swapped ==
  ASSUME NEW S, NEW T, NEW b, NEW x, IsFiniteSet(S),
         T \subseteq (S \ {b}) \cup {x}, x \in T => x \in S \/ b \in S
  PROVE  IsFiniteSet(T) /\ Cardinality(T) \in Nat /\ Cardinality(T) <= Cardinality(S)
<1>1. CASE T \subseteq S
  BY <1>1, FS_Subset, FS_CardinalityType
<1>2. CASE ~(T \subseteq S)
  <2>1. x \in T /\ b \in S /\ x \notin S
    BY <1>2
  <2>2. /\ IsFiniteSet(S \ {b}) /\ Cardinality(S \ {b}) = Cardinality(S) - 1
        /\ Cardinality(S) \in Nat
    BY <2>1, FS_RemoveElement, FS_CardinalityType
  <2>3. /\ IsFiniteSet((S \ {b}) \cup {x})
        /\ Cardinality((S \ {b}) \cup {x}) = Cardinality(S \ {b}) + 1
    BY <2>1, <2>2, FS_AddElement
  <2> QED BY <2>2, <2>3, FS_Subset, FS_CardinalityType
<1> QED BY <1>1, <1>2

(* A step that counts no more.                                              *)
LEMMA FitsStill ==
  ASSUME Remembers, NEW G, NEW K \in Nat, Fits(G, K), IsFiniteSet(backups), IsFiniteSet(backups'),
         Cardinality(CountedIn(G)') <= Cardinality(CountedIn(G)),
         MakingIn(G)' \subseteq MakingIn(G)
  PROVE  Fits(G, K)'
<1>1. /\ Cardinality(CountedIn(G)) \in Nat /\ Cardinality(MakingIn(G)) \in Nat
      /\ IsFiniteSet(MakingIn(G))
  BY FiniteIn
<1>2. IsFiniteSet(CountedIn(G)') /\ Cardinality(CountedIn(G)') \in Nat
  <2>1. CountedIn(G)' \subseteq backups'
    BY DEF CountedIn, Counted
  <2> QED BY <2>1, FS_Subset, FS_CardinalityType
<1>3. Cardinality(MakingIn(G)') \in Nat /\ Cardinality(MakingIn(G)') <= Cardinality(MakingIn(G))
  BY <1>1, FS_Subset, FS_CardinalityType
<1> QED BY <1>1, <1>2, <1>3, BoundsAssumption DEF Fits, Remembers

(* A step of s that adds neither to the backups nor to those making one.    *)
LEMMA MakesNone ==
  ASSUME Remembers, NEW G, NEW K \in Nat, Fits(G, K), IsFiniteSet(backups), UNCHANGED backups,
         NEW s \in Slots, Others(s),
         s \in MakingIn(G)' => s \in MakingIn(G)
  PROVE  Fits(G, K)'
<1>1. CountedIn(G)' = CountedIn(G)
  BY DEF CountedIn, Counted, CountsForLimits
<1>2. MakingIn(G)' \subseteq MakingIn(G)
  BY DEF MakingIn, Making, Others, Same
<1>3. Cardinality(CountedIn(G)) <= Cardinality(CountedIn(G))
  BY FiniteIn
<1> QED BY <1>1, <1>2, <1>3, FitsStill

LEMMA ReadsFit ==
  ASSUME PlanTypes, InCourse, Remembers, NEW G, NEW K \in Nat, Fits(G, K), IsFiniteSet(backups),
         NEW s \in Slots, Reads(s)
  PROVE  Fits(G, K)'
<1>0. /\ req \in [Slots -> Request] /\ req[s] \in Request /\ Course(req[s]) /\ req[s].op \in Ops
      /\ conn.buckets \subseteq Buckets
  BY DEF PlanTypes, InCourse, Request
<1>1. UNCHANGED backups /\ Others(s) /\ (req'[s] = NoRequest \/ Keeps(req[s], req'[s]))
  BY ReadsTypes, ReadsMove
<1>2. CASE ReadSecret(s)
  <2>1. req[s].pc = "secret" /\ req'[s].to = req[s].to /\ req'[s].server = req[s].server
    BY <1>0, <1>2, Went, ReadsMove DEF ReadSecret, Keeps
  <2>2. s \in MakingIn(G)' => s \in MakingIn(G)
    BY <2>1 DEF MakingIn, Making
  <2> QED BY <1>1, <2>2, MakesNone
<1>3. CASE ~ReadSecret(s)
  <2>1. req'[s].pc \in {"secret", "make", "create"} => req'[s].to # "platform"
    <3>1. CASE ReadServer(s)
      <4>1. CASE Ends(s)
        BY <1>0, <4>1, Ended DEF NoRequest
      <4>2. CASE ~Ends(s)
        BY <1>0, <3>1, <4>2 DEF ReadServer, Request
      <4> QED BY <4>1, <4>2
    <3>2. CASE ReadPut(s)
      BY <1>0, <3>2 DEF ReadPut, Request
    <3>3. CASE Ends(s)
      BY <1>0, <3>3, Ended DEF NoRequest
    <3>4. CASE ReadConnection(s) /\ ~Ends(s)
      <4>1. req[s].to \in Buckets /\ req'[s].to = req[s].to
        BY <1>0, <3>4, Went DEF ReadConnection
      <4> QED BY <4>1, NamesAssumption
    <3>5. CASE ValidateTarget(s) /\ ~Ends(s)
      BY <1>0, <3>5, Went DEF ValidateTarget
    <3>6. CASE (CheckRemoved(s) \/ CheckUsers(s) \/ CheckBackups(s)) /\ ~Ends(s)
      <4>1. \E step \in {"write", "backups", "delete"} : Goes(s, step)
        BY <3>6 DEF CheckRemoved, CheckUsers, CheckBackups
      <4> QED BY <1>0, <4>1, Went
    <3> QED BY <1>3, <3>1, <3>2, <3>3, <3>4, <3>5, <3>6 DEF Reads
  <2>2. s \notin MakingIn(G)'
    BY <2>1 DEF MakingIn, Making
  <2> QED BY <1>1, <2>2, MakesNone
<1> QED BY <1>2, <1>3

(* A backup is planned below the limits: even if all the others make one.   *)
LEMMA CountFits ==
  ASSUME PlanTypes, InCourse, Bounded, Remembers, NEW s \in Slots, CountBackups(s)
  PROVE  Bounded'
<1>0. /\ req \in [Slots -> Request] /\ req[s] \in Request /\ req[s].server \in Servers
      /\ backups \subseteq Backup /\ UNCHANGED backups /\ IsFiniteSet(backups)
      /\ MaxPerOrg \in Nat /\ MaxPerServer \in Nat
  <2>1. req[s].pc = "count" /\ Course(req[s]) /\ req[s].op \in Ops /\ UNCHANGED backups
    BY CountTypes DEF InCourse, PlanTypes, Request
  <2>2. req[s].server \in Servers
    BY <2>1 DEF Course, StepsOf, Ops
  <2> QED BY <2>1, <2>2, LimitsAssumption DEF PlanTypes
<1>1. CASE Ends(s)
  <2>1. Others(s) /\ req'[s].pc = "idle"
    BY <1>0, <1>1, Ended DEF NoRequest
  <2>2. \A G : s \notin MakingIn(G)'
    BY <2>1 DEF MakingIn, Making
  <2> QED BY <1>0, <2>1, <2>2, MakesNone DEF Bounded
<1>2. CASE ~Ends(s)
  <2> DEFINE KnownIn(G) == {b \in KnownTo(s) : b.server \in G}
             Unknown == Counted \ KnownTo(s)
  <2>1. /\ Goes(s, "secret") /\ HasRoom(req[s].server, KnownTo(s))
        /\ Cardinality(Unknown) <= marks'.missed
    BY <1>2, CountTypes
  <2>2. /\ Others(s) /\ req'[s].server = req[s].server
    BY <1>0, <2>1, Went DEF Keeps
  <2>3. ASSUME NEW G, NEW K \in Nat, Cardinality(KnownIn(G)) < K
        PROVE  Fits(G, K)'
    <3>1. CountedIn(G)' = CountedIn(G) /\ Cardinality(CountedIn(G)) \in Nat
      BY <1>0, FiniteIn DEF CountedIn, Counted, CountsForLimits
    <3>2. MakingIn(G)' \subseteq Slots
      BY DEF MakingIn, Making
    <3>3. Cardinality(MakingIn(G)') \in Nat /\ Cardinality(MakingIn(G)') <= AtOnce
      BY <3>2, SlotsCount
    <3>4. Cardinality(CountedIn(G)) <= Cardinality(KnownIn(G)) + Cardinality(Unknown)
      <4>1. KnownIn(G) \subseteq backups /\ Unknown \subseteq backups
        BY DEF KnownTo, Counted
      <4>2. /\ IsFiniteSet(KnownIn(G)) /\ Cardinality(KnownIn(G)) \in Nat
            /\ IsFiniteSet(Unknown) /\ Cardinality(Unknown) \in Nat
        BY <1>0, <4>1, FS_Subset, FS_CardinalityType
      <4>3. CountedIn(G) \subseteq KnownIn(G) \cup Unknown
        BY DEF CountedIn
      <4> HIDE DEF KnownIn, Unknown
      <4>4. /\ IsFiniteSet(KnownIn(G) \cup Unknown)
            /\ Cardinality(KnownIn(G) \cup Unknown) =
                 Cardinality(KnownIn(G)) + Cardinality(Unknown) - Cardinality(KnownIn(G) \cap Unknown)
        BY <4>2, FS_Union
      <4>5. IsFiniteSet(KnownIn(G) \cap Unknown) /\ Cardinality(KnownIn(G) \cap Unknown) \in Nat
        BY <4>2, FS_Subset, FS_CardinalityType
      <4>6. Cardinality(CountedIn(G)) <= Cardinality(KnownIn(G) \cup Unknown)
        BY <4>3, <4>4, FS_Subset
      <4> QED BY <3>1, <4>2, <4>4, <4>5, <4>6
    <3>5. Cardinality(KnownIn(G)) \in Nat /\ Cardinality(Unknown) \in Nat
      <4>1. KnownIn(G) \subseteq backups /\ Unknown \subseteq backups
        BY DEF KnownTo, Counted
      <4> QED BY <1>0, <4>1, FS_Subset, FS_CardinalityType
    <3>6. Cardinality(CountedIn(G)) <= K - 1 + marks'.missed
      <4> HIDE DEF KnownIn, Unknown
      <4> QED BY <2>1, <2>3, <3>1, <3>4, <3>5 DEF Remembers
    <3> QED BY <3>1, <3>3, <3>6, BoundsAssumption DEF Fits, Remembers
  <2>4. /\ KnownIn(Servers) = KnownTo(s)
        /\ KnownIn({req[s].server}) = OfServer(req[s].server, KnownTo(s))
    BY <1>0 DEF KnownTo, OfServer, Counted, Backup
  <2>5. /\ Cardinality(KnownIn(Servers)) < MaxPerOrg
        /\ Cardinality(KnownIn({req[s].server})) < MaxPerServer
    BY <2>1, <2>4 DEF HasRoom
  <2> HIDE DEF KnownIn, Unknown
  <2>a. Fits(Servers, MaxPerOrg)'
    BY <1>0, <2>3, <2>5
  <2>b. ASSUME NEW n \in Servers, n = req[s].server PROVE Fits({n}, MaxPerServer)'
    BY <1>0, <2>3, <2>5, <2>b
  <2>6. ASSUME NEW n \in Servers, n # req[s].server PROVE Fits({n}, MaxPerServer)'
    <3>1. s \notin MakingIn({n})'
      BY <2>2, <2>6 DEF MakingIn
    <3> QED BY <1>0, <2>2, <3>1, MakesNone DEF Bounded
  <2> QED BY <1>0, <2>a, <2>b, <2>6 DEF Bounded
<1> QED BY <1>1, <1>2

LEMMA WritesFit ==
  ASSUME PlanTypes, Remembers, NEW G, NEW K \in Nat, Fits(G, K), IsFiniteSet(backups),
         NEW s \in Slots, RequestWrites(s)
  PROVE  IsFiniteSet(backups') /\ Fits(G, K)'
<1>0. /\ req \in [Slots -> Request] /\ req[s] \in Request
      /\ Others(s) /\ (req'[s] = NoRequest \/ Keeps(req[s], req'[s]))
  BY WritesMove DEF PlanTypes
<1>1. CASE CreateBackup(s)
  <2> DEFINE b == [id |-> made.backups + 1, server |-> req[s].server, to |-> req[s].to,
                   phase |-> "Pending", key |-> 0, deleting |-> FALSE, seen |-> req[s].to # "platform"]
  <2>1. req[s].pc = "create" /\ backups' = backups \cup {b} /\ UNCHANGED marks
        /\ \E crossed : EndsWriting(s, {}, crossed)
    BY <1>1 DEF CreateBackup
  <2>2. b.to = req[s].to /\ b.server = req[s].server
    OBVIOUS
  <2> HIDE DEF b
  <2>3. IsFiniteSet(backups')
    BY <2>1, FS_AddElement
  <2>4. req'[s].pc = "idle"
    BY <1>0, <2>1, EndedWriting DEF NoRequest
  <2>5. MakingIn(G)' \subseteq MakingIn(G) \ {s}
    BY <1>0, <2>4 DEF MakingIn, Making, Others, Same
  <2>6. CountedIn(G)' \subseteq CountedIn(G) \cup {b}
    BY <2>1 DEF CountedIn, Counted, CountsForLimits
  <2>7. CASE CountedIn(G)' \subseteq CountedIn(G)
    <3>1. Cardinality(CountedIn(G)') <= Cardinality(CountedIn(G))
      BY <2>7, FiniteIn, FS_Subset
    <3> QED BY <2>3, <2>5, <3>1, FitsStill
  <2>8. CASE ~(CountedIn(G)' \subseteq CountedIn(G))
    <3>1. b \in CountedIn(G)' /\ b \notin CountedIn(G)
      BY <2>6, <2>8
    <3>2. b.to = "platform" /\ b.server \in G
      BY <3>1 DEF CountedIn, Counted, CountsForLimits
    <3>3. s \in MakingIn(G)
      BY <2>1, <2>2, <3>2 DEF MakingIn, Making
    <3>4. /\ IsFiniteSet(CountedIn(G) \cup {b})
          /\ Cardinality(CountedIn(G) \cup {b}) = Cardinality(CountedIn(G)) + 1
      BY <3>1, FiniteIn, FS_AddElement
    <3>5. /\ Cardinality(CountedIn(G)') \in Nat
          /\ Cardinality(CountedIn(G)') <= Cardinality(CountedIn(G)) + 1
      BY <2>6, <3>4, FS_Subset, FS_CardinalityType
    <3>6. /\ IsFiniteSet(MakingIn(G) \ {s})
          /\ Cardinality(MakingIn(G) \ {s}) = Cardinality(MakingIn(G)) - 1
      BY <3>3, FiniteIn, FS_RemoveElement
    <3>7. /\ Cardinality(MakingIn(G)') \in Nat
          /\ Cardinality(MakingIn(G)') <= Cardinality(MakingIn(G)) - 1
      BY <2>5, <3>6, FS_Subset, FS_CardinalityType
    <3>8. Cardinality(CountedIn(G)) \in Nat /\ Cardinality(MakingIn(G)) \in Nat
      BY FiniteIn
    <3>9. UNCHANGED marks.missed /\ marks.missed \in Nat
      BY <2>1 DEF Remembers
    <3>10. Cardinality(CountedIn(G)) + Cardinality(MakingIn(G)) <= K + AtOnce - 1 + marks.missed
      BY DEF Fits
    <3>11. Cardinality(CountedIn(G)') + Cardinality(MakingIn(G)')
             <= K + AtOnce - 1 + marks'.missed
      BY <3>5, <3>7, <3>8, <3>9, <3>10, BoundsAssumption
    <3> QED BY <2>3, <3>11 DEF Fits
  <2> QED BY <2>7, <2>8, <2>3
<1>2. CASE MakeSecret(s)
  <2>1. /\ UNCHANGED backups /\ req[s].pc = "make"
        /\ \/ req'[s].pc = "idle"
           \/ req'[s].to = req[s].to /\ req'[s].server = req[s].server
    BY <1>0, <1>2, Went, Ended DEF MakeSecret, Keeps, NoRequest
  <2>2. s \in MakingIn(G)' => s \in MakingIn(G)
    BY <2>1 DEF MakingIn, Making
  <2> QED BY <1>0, <2>1, <2>2, MakesNone
<1>3. CASE UpdateTarget(s) \/ CreateConnection(s) \/ UpdateConnection(s) \/ DeleteConnection(s)
  <2>1. UNCHANGED backups /\ (Ends(s) \/ \E old, crossed : EndsWriting(s, old, crossed))
    BY <1>3 DEF UpdateTarget, CreateConnection, UpdateConnection, DeleteConnection
  <2>2. req'[s].pc = "idle"
    BY <1>0, <2>1, Ended, EndedWriting DEF NoRequest
  <2>3. s \notin MakingIn(G)'
    BY <2>2 DEF MakingIn, Making
  <2> QED BY <1>0, <2>1, <2>3, MakesNone
<1> QED BY <1>1, <1>2, <1>3 DEF RequestWrites

LEMMA RunsFit ==
  ASSUME PlanTypes, Remembers, NEW G, NEW K \in Nat, Fits(G, K), IsFiniteSet(backups), Runs
  PROVE  IsFiniteSet(backups') /\ Fits(G, K)'
<1>0. UNCHANGED req /\ backups \subseteq Backup /\ BOOLEAN = {TRUE, FALSE}
  BY DEF Runs, Store, BackupFails, RemoveBackup, Clean, SeeBackup, PlanTypes
<1>a. PICK b \in backups : \E x :
        /\ backups' \subseteq (backups \ {b}) \cup {x}
        /\ CountsForLimits(x) /\ x.server \in G => CountsForLimits(b) /\ b.server \in G
  <2>1. CASE Store
    <3>1. PICK b \in backups, phase \in BackupPhases :
            b.phase = "Pending" /\ Becomes(b, phase, Key(b.to))
      BY <2>1 DEF Store, BackupPhases
    <3> DEFINE x == [b EXCEPT !.phase = phase, !.key = Key(b.to)]
    <3>2. CountsForLimits(x) /\ x.server \in G => CountsForLimits(b) /\ b.server \in G
      BY <1>0, <3>1 DEF CountsForLimits, Backup
    <3>3. backups' = (backups \ {b}) \cup {x}
      BY <3>1 DEF Becomes
    <3> HIDE DEF x
    <3> QED BY <3>2, <3>3
  <2>2. CASE BackupFails
    <3>1. PICK b \in backups : b.phase = "Pending" /\ Becomes(b, "Failed", 0)
      BY <2>2 DEF BackupFails
    <3> DEFINE x == [b EXCEPT !.phase = "Failed", !.key = 0]
    <3>2. CountsForLimits(x) /\ x.server \in G => CountsForLimits(b) /\ b.server \in G
      BY <1>0, <3>1 DEF CountsForLimits, Backup
    <3>3. backups' = (backups \ {b}) \cup {x}
      BY <3>1 DEF Becomes
    <3> HIDE DEF x
    <3> QED BY <3>2, <3>3
  <2>3. CASE RemoveBackup
    <3>1. PICK b \in backups : backups' = (backups \ {b}) \cup {[b EXCEPT !.deleting = TRUE]}
      BY <2>3 DEF RemoveBackup
    <3>2. LET x == [b EXCEPT !.deleting = TRUE] IN
            CountsForLimits(x) /\ x.server \in G => CountsForLimits(b) /\ b.server \in G
      BY <1>0, <3>1 DEF CountsForLimits, Backup
    <3> QED BY <3>1, <3>2
  <2>4. CASE Clean
    <3>1. PICK b \in backups : backups' = backups \ {b}
      BY <2>4 DEF Clean
    <3> QED BY <3>1
  <2>5. CASE SeeBackup
    <3>1. PICK b \in backups : backups' = (backups \ {b}) \cup {[b EXCEPT !.seen = TRUE]}
      BY <2>5 DEF SeeBackup
    <3>2. LET x == [b EXCEPT !.seen = TRUE] IN
            CountsForLimits(x) /\ x.server \in G => CountsForLimits(b) /\ b.server \in G
      BY <1>0, <3>1 DEF CountsForLimits, Backup
    <3> QED BY <3>1, <3>2
  <2> QED BY <2>1, <2>2, <2>3, <2>4, <2>5 DEF Runs
<1>1. PICK x :
        /\ backups' \subseteq (backups \ {b}) \cup {x}
        /\ CountsForLimits(x) /\ x.server \in G => CountsForLimits(b) /\ b.server \in G
  BY <1>a
<1>2. IsFiniteSet(backups')
  <2>1. IsFiniteSet((backups \ {b}) \cup {x})
    BY FS_RemoveElement, FS_AddElement
  <2> QED BY <1>1, <2>1, FS_Subset
<1>3. CountedIn(G)' \subseteq (CountedIn(G) \ {b}) \cup {x}
  BY <1>1 DEF CountedIn, Counted, CountsForLimits
<1>4. x \in CountedIn(G)' => b \in CountedIn(G)
  BY <1>1 DEF CountedIn, Counted, CountsForLimits
<1>5. Cardinality(CountedIn(G)') <= Cardinality(CountedIn(G))
  BY <1>3, <1>4, FiniteIn, Swapped
<1>6. MakingIn(G)' \subseteq MakingIn(G)
  BY <1>0 DEF MakingIn, Making
<1> QED BY <1>2, <1>5, <1>6, FitsStill

LEMMA BoundedStep == PlanTypes /\ InCourse /\ Bounded /\ [PlanNext]_planVars => Bounded'
<1> SUFFICES ASSUME PlanTypes, InCourse, Bounded, [PlanNext]_planVars PROVE Bounded'
  OBVIOUS
<1>0. IsFiniteSet(backups) /\ MaxPerOrg \in Nat /\ MaxPerServer \in Nat
  BY LimitsAssumption DEF Bounded
<1>a. Remembers
  <2>1. marks \in Marks /\ marks' \in Marks
    BY PlanStep DEF PlanTypes
  <2>2. marks.missed \in Nat /\ marks'.missed \in Nat
    BY <2>1 DEF Marks
  <2>3. CASE \E s \in Slots : CountBackups(s)
    BY <2>3, CountTypes DEF Remembers
  <2>4. CASE ~\E s \in Slots : CountBackups(s)
    <3>1. marks'.missed = marks.missed
      <4>1. CASE \E s \in Slots : RequestWrites(s)
        BY <2>1, <4>1 DEF RequestWrites, MakeSecret, CreateBackup, UpdateTarget, CreateConnection,
                          UpdateConnection, DeleteConnection, Raced, Marks
      <4>2. CASE Runs
        BY <4>2 DEF Runs, Store, BackupFails, RemoveBackup, Clean, SeeBackup
      <4>3. CASE UNCHANGED planVars
        BY <4>3 DEF planVars
      <4> QED BY <2>4, <4>1, <4>2, <4>3, BeginsMove, ReadsTypes, CreateServerTypes, PlanCases
              DEF Begins
    <3> QED BY <2>2, <3>1 DEF Remembers
  <2> QED BY <2>3, <2>4
<1>1. ASSUME NEW s \in Slots, Begins(s) PROVE Bounded'
  <2>1. Others(s) /\ UNCHANGED backups /\ req'[s].pc \in {"get", "read", "users"}
    BY <1>1, BeginsMove
  <2>2. \A G : s \notin MakingIn(G)'
    BY <2>1 DEF MakingIn, Making
  <2> QED BY <1>0, <1>a, <2>1, <2>2, MakesNone DEF Bounded
<1>2. ASSUME NEW s \in Slots, Reads(s) PROVE Bounded'
  <2>1. UNCHANGED backups
    BY <1>2, ReadsTypes
  <2> QED BY <1>0, <1>a, <1>2, <2>1, ReadsFit DEF Bounded
<1>3. ASSUME NEW s \in Slots, RequestWrites(s) PROVE Bounded'
  BY <1>0, <1>a, <1>3, WritesFit DEF Bounded
<1>4. CASE Runs
  BY <1>0, <1>a, <1>4, RunsFit DEF Bounded
<1>6. CASE CreateServer
  BY <1>6, CreateServerTypes
     DEF Bounded, Fits, CountedIn, Counted, CountsForLimits, MakingIn, Making
<1>5. CASE UNCHANGED planVars
  BY <1>5 DEF planVars, Bounded, Fits, CountedIn, Counted, CountsForLimits, MakingIn, Making
<1> QED BY <1>1, <1>2, <1>3, <1>4, <1>5, <1>6, <1>a, CountFits, PlanCases DEF Begins

LEMMA BoundedBegins == PlanInit => Bounded
<1> SUFFICES ASSUME PlanInit PROVE Bounded
  OBVIOUS
<1>1. IsFiniteSet({}) /\ Cardinality({}) = 0
  BY FS_EmptySet
<1>2. backups = {} /\ marks.missed = 0 /\ \A s \in Slots : req[s].pc = "idle"
  BY DEF PlanInit, NoRequest
<1>3. \A G : CountedIn(G) = {} /\ MakingIn(G) = {}
  BY <1>2 DEF CountedIn, Counted, MakingIn, Making
<1>4. ASSUME NEW G, NEW K \in Nat PROVE Fits(G, K)
  BY <1>1, <1>2, <1>3, BoundsAssumption DEF Fits
<1> QED BY <1>1, <1>2, <1>4, LimitsAssumption DEF Bounded

LEMMA BoundedLimits == PlanTypes /\ Bounded => LimitsKept
<1> SUFFICES ASSUME PlanTypes, Bounded PROVE LimitsKept
  OBVIOUS
<1>1. CountedIn(Servers) = Counted /\ \A n \in Servers : CountedIn({n}) = OfServer(n, Counted)
  BY DEF CountedIn, OfServer, Counted, Backup, PlanTypes
<1>2. ASSUME NEW G, NEW K \in Nat, Fits(G, K) PROVE Cardinality(CountedIn(G)) <= K + AtOnce - 1 + marks.missed
  <2>1. Cardinality(CountedIn(G)) \in Nat /\ Cardinality(MakingIn(G)) \in Nat
    BY FiniteIn DEF Bounded
  <2>2. marks.missed \in Nat
    BY DEF PlanTypes, Marks
  <2> QED BY <1>2, <2>1, <2>2, BoundsAssumption DEF Fits
<1>3. Cardinality(CountedIn(Servers)) <= MaxPerOrg + AtOnce - 1 + marks.missed
  BY <1>2, LimitsAssumption DEF Bounded
<1>4. \A n \in Servers : Cardinality(CountedIn({n})) <= MaxPerServer + AtOnce - 1 + marks.missed
  BY <1>2, LimitsAssumption DEF Bounded
<1> QED BY <1>1, <1>3, <1>4 DEF LimitsKept

(* The platform's storage has no more backups than the limits allow, and as *)
(* many more as there were other requests at that time and as the           *)
(* operator's cache missed when it counted.                                 *)
THEOREM LimitsHold == PlanSpec => []LimitsKept
<1>1. PlanSpec => []Bounded
  BY BoundedBegins, BoundedStep, PlanTyped, PTL DEF PlanSpec
<1> QED BY <1>1, BoundedLimits, PlanTyped, PTL
-----------------------------------------------------------------------------
(* What servers and stored backups refer to.                                *)

(* A connection that is there lists a bucket.                               *)
Listed == conn.key = 0 <=> conn.buckets = {}
Encrypted == \A b \in backups : b.phase = "Completed" => b.key # 0

(* Validated targets are those of servers that were created.                *)
CheckedCreated == \A n \in marks.checked : target[n] # "absent"

(* What a request that nobody crossed has found, is still so.               *)
InUse(bs) == \E n \in marks.checked : target[n] \in bs
FoundBy(s) == ~req[s].crossed =>
  /\ req[s].pc = "write" => ~InUse(Removed(s))
  /\ req[s].pc \in {"backups", "delete"} => ~InUse(Buckets)
  /\ req[s].pc = "delete" => \A b \in backups : b.to \notin Buckets

(* What a put has read is the connection, until somebody writes it.         *)
ReadBy(s) == req[s].pc \in {"users", "write"} /\ req[s].op = "put" /\ req[s].fresh =>
  req[s].saw = conn

(* A target about to be written is one of the list.                         *)
ValidatedBy(s) == ~req[s].crossed =>
  (req[s].pc = "update" /\ req[s].to \in Buckets => req[s].to \in conn.buckets)

Knows(s) == FoundBy(s) /\ ReadBy(s) /\ ValidatedBy(s)
AllKnow == \A s \in Slots : Knows(s)
Referred == Listed /\ Encrypted /\ Keyed /\ TargetsListed /\ CheckedCreated /\ AllKnow

(* What the others know, when a step of s leaves it alone.                  *)
LEMMA OthersKnow ==
  ASSUME NEW s, NEW t \in Slots \ {s}, Others(s), UNCHANGED <<conn, target, marks.checked>>,
         \A b \in backups' : \E c \in backups : c.to = b.to, Knows(t)
  PROVE  Knows(t)'
<1>1. Same(req[t], req'[t])
  BY DEF Others
<1>2. FoundBy(t)'
  BY <1>1 DEF Knows, FoundBy, Same, InUse, Removed
<1>3. ReadBy(t)'
  BY <1>1 DEF Knows, ReadBy, Same
<1>4. ValidatedBy(t)'
  BY <1>1 DEF Knows, ValidatedBy, Same
<1> QED BY <1>2, <1>3, <1>4 DEF Knows

(* Where there is nothing to know.                                          *)
LEMMA NothingToKnow ==
  ASSUME NEW s, req[s].pc \notin {"users", "write", "backups", "delete", "update"}
  PROVE  Knows(s)
BY DEF Knows, FoundBy, ReadBy, ValidatedBy

LEMMA ReadsKnow ==
  ASSUME PlanTypes, InCourse, NEW s \in Slots, Knows(s), Reads(s)
  PROVE  Knows(s)'
<1>0. /\ req \in [Slots -> Request] /\ req[s] \in Request /\ Course(req[s]) /\ req[s].op \in Ops
      /\ UNCHANGED <<conn, target, backups, marks>> /\ marks.checked \subseteq Servers
  BY ReadsTypes DEF PlanTypes, InCourse, Request, Marks
<1>1. CASE req'[s].pc \notin {"users", "write", "backups", "delete", "update"}
  BY <1>1 DEF Knows, FoundBy, ReadBy, ValidatedBy
<1>2. CASE ReadPut(s)
  <2>1. /\ req'[s].saw = conn /\ req'[s].buckets = req[s].buckets
        /\ req'[s].pc = IF conn.buckets \subseteq req[s].buckets THEN "write" ELSE "users"
    BY <1>0, <1>2 DEF ReadPut, Request
  <2>2. req'[s].pc = "write" => Removed(s)' = {}
    BY <2>1 DEF Removed
  <2> QED BY <1>0, <2>1, <2>2 DEF Knows, FoundBy, ReadBy, ValidatedBy, InUse
<1>3. CASE ValidateTarget(s) /\ ~Ends(s)
  <2>1. /\ req'[s].pc = "update" /\ req'[s].to = req[s].to
        /\ req[s].to \in Buckets => req[s].to \in conn.buckets
    BY <1>0, <1>3, Went DEF ValidateTarget
  <2> QED BY <1>0, <2>1 DEF Knows, FoundBy, ReadBy, ValidatedBy
<1>4. CASE CheckRemoved(s) /\ ~Ends(s)
  <2>1. /\ req[s].pc = "users" /\ req[s].op = "put" /\ ~InUse(Removed(s))
        /\ req'[s].pc = "write" /\ req'[s].saw = req[s].saw /\ req'[s].fresh = req[s].fresh
        /\ req'[s].buckets = req[s].buckets
    BY <1>0, <1>4, Went DEF CheckRemoved, Keeps, Use, InUse
  <2>2. ~InUse(Removed(s))'
    BY <1>0, <2>1 DEF InUse, Removed
  <2> QED BY <1>0, <2>1, <2>2 DEF Knows, FoundBy, ReadBy, ValidatedBy
<1>5. CASE CheckUsers(s) /\ ~Ends(s)
  <2>1. req'[s].pc = "backups" /\ ~InUse(Buckets)
    BY <1>0, <1>5, Went DEF CheckUsers, Use, InUse
  <2> QED BY <1>0, <2>1 DEF Knows, FoundBy, ReadBy, ValidatedBy, InUse
<1>6. CASE CheckBackups(s) /\ ~Ends(s)
  <2>1. /\ req[s].pc = "backups" /\ req'[s].pc = "delete" /\ req'[s].crossed = req[s].crossed
        /\ \A b \in backups : b.to \notin Buckets
    BY <1>0, <1>6, Went DEF CheckBackups, Keeps
  <2> QED BY <1>0, <2>1 DEF Knows, FoundBy, ReadBy, ValidatedBy, InUse
<1>7. CASE Ends(s)
  BY <1>0, <1>1, <1>7, Ended DEF NoRequest
<1>8. CASE ReadServer(s) /\ ~Ends(s)
  <2>1. req'[s].pc \in {"validate", "count", "connection"}
    BY <1>0, <1>8 DEF ReadServer, Request
  <2> QED BY <1>1, <2>1
<1>9. CASE (ReadSecret(s) \/ ReadConnection(s)) /\ ~Ends(s)
  <2>1. \E step \in {"make", "create"} : Goes(s, step)
    BY <1>9 DEF ReadSecret, ReadConnection
  <2> QED BY <1>0, <1>1, <2>1, Went
<1> QED BY <1>2, <1>3, <1>4, <1>5, <1>6, <1>7, <1>8, <1>9 DEF Reads

(* A request that has ended knows nothing.                                  *)
LEMMA EndedKnows ==
  ASSUME NEW s \in Slots, req'[s] = NoRequest
  PROVE  Knows(s)'
BY DEF Knows, FoundBy, ReadBy, ValidatedBy, NoRequest

LEMMA SecretReferred ==
  ASSUME PlanTypes, InCourse, Referred, NEW s \in Slots, MakeSecret(s)
  PROVE  Referred'
<1>1. UNCHANGED <<conn, target, backups, marks>> /\ (own' = own \/ own = 0)
  BY DEF MakeSecret
<1>2. Others(s) /\ (req'[s] = NoRequest \/ Keeps(req[s], req'[s]))
  BY WritesMove DEF RequestWrites
<1>3. Listed' /\ Encrypted' /\ TargetsListed' /\ CheckedCreated'
  BY <1>1 DEF Referred, Listed, Encrypted, TargetsListed, CheckedCreated
<1>4. Keyed'
  BY <1>1 DEF Referred, Keyed, Encrypted, Key
<1>6. Knows(s)'
  <2>1. req \in [Slots -> Request]
    BY DEF PlanTypes
  <2>2. req'[s] = NoRequest \/ req'[s].pc = "create"
    BY <2>1, Went, Ended DEF MakeSecret
  <2>3. CASE req'[s].pc = "create"
    BY <2>3 DEF Knows, FoundBy, ReadBy, ValidatedBy
  <2> QED BY <2>2, <2>3, EndedKnows
<1>7. AllKnow'
  BY <1>1, <1>2, <1>6, OthersKnow DEF Referred, AllKnow
<1> QED BY <1>3, <1>4, <1>7 DEF Referred

LEMMA CreateReferred ==
  ASSUME PlanTypes, Referred, NEW s \in Slots, CreateBackup(s)
  PROVE  Referred'
<1>0. req \in [Slots -> Request]
  BY DEF PlanTypes
<1>1. /\ UNCHANGED <<conn, own, target, marks>>
      /\ \A b \in backups' : b \in backups \/ (b.phase = "Pending" /\ b.to = req[s].to)
  BY DEF CreateBackup, secrets
<1>2. EndsWriting(s, {}, IF req[s].to \in Buckets THEN Deleting ELSE {})
  BY DEF CreateBackup
<1>3. /\ Others(s) /\ req'[s] = NoRequest
      /\ req[s].to \in Buckets => \A t \in Slots \ {s} : req[t].pc = "delete" => req'[t].crossed
  BY <1>0, <1>2, EndedWriting DEF Deleting
<1>4. Listed' /\ TargetsListed' /\ CheckedCreated' /\ Encrypted' /\ Keyed'
  BY <1>1 DEF Referred, Listed, TargetsListed, CheckedCreated, Encrypted, Keyed, Key
<1>6. ASSUME NEW t \in Slots \ {s} PROVE Knows(t)'
  <2>1. Same(req[t], req'[t]) /\ Knows(t)
    BY <1>3 DEF Others, Referred, AllKnow
  <2>2. FoundBy(t)'
    BY <1>1, <1>3, <2>1 DEF Knows, FoundBy, Same, InUse, Removed
  <2>3. ReadBy(t)' /\ ValidatedBy(t)'
    BY <1>1, <2>1 DEF Knows, ReadBy, ValidatedBy, Same
  <2> QED BY <2>2, <2>3 DEF Knows
<1>7. AllKnow'
  BY <1>3, <1>6, EndedKnows DEF AllKnow
<1> QED BY <1>4, <1>7 DEF Referred

(* A write that somebody was faster than is not made, and the request ends. *)
LEMMA RefusedReferred ==
  ASSUME PlanTypes, Referred, NEW s \in Slots, Ends(s),
         UNCHANGED <<conn, own, target, backups, marks>>
  PROVE  Referred'
<1>1. Others(s) /\ req'[s] = NoRequest
  <2>1. req \in [Slots -> Request]
    BY DEF PlanTypes
  <2> QED BY <2>1, Ended
<1>2. Listed' /\ Encrypted' /\ Keyed' /\ TargetsListed' /\ CheckedCreated'
  BY DEF Referred, Listed, Encrypted, Keyed, Key, TargetsListed, CheckedCreated
<1>4. AllKnow'
  BY <1>1, EndedKnows, OthersKnow DEF Referred, AllKnow
<1> QED BY <1>2, <1>4 DEF Referred

LEMMA TargetReferred ==
  ASSUME PlanTypes, InCourse, Referred, NEW s \in Slots, UpdateTarget(s)
  PROVE  Referred'
<1>0. /\ req \in [Slots -> Request] /\ req[s] \in Request /\ Course(req[s])
      /\ req[s].pc = "update" /\ req[s].op \in Ops
      /\ target \in [Servers -> Places \cup {"none", "absent"}] /\ Knows(s)
      /\ marks \in Marks /\ req[s].to \in Places \cup {"none"}
  BY DEF PlanTypes, InCourse, UpdateTarget, Request, Referred, AllKnow
<1>1. CASE ~req[s].fresh
  <2>1. Ends(s) /\ UNCHANGED <<conn, own, target, backups, marks>>
    BY <1>1 DEF UpdateTarget, secrets
  <2> QED BY <2>1, RefusedReferred
<1>2. CASE req[s].fresh
  <2> DEFINE n == req[s].server
  <2>1. /\ target' = [target EXCEPT ![n] = req[s].to]
        /\ marks' = [marks EXCEPT !.checked = @ \cup {n}, !.raced = @ \/ req[s].crossed]
        /\ EndsWriting(s, UpdatingToo(n), Removing)
        /\ UNCHANGED <<conn, own, backups>>
    BY <1>2 DEF UpdateTarget, secrets
  <2>2. n \in Servers
    BY <1>0 DEF Course, StepsOf, Ops
  <2>3. /\ marks'.checked = marks.checked \cup {n} /\ marks.checked \subseteq Servers
        /\ ~marks'.raced => ~marks.raced /\ ~req[s].crossed
    BY <1>0, <2>1 DEF Marks
  <2>4. target'[n] = req[s].to /\ \A m \in Servers : m # n => target'[m] = target[m]
    BY <1>0, <2>1, <2>2
  <2>5. /\ Others(s) /\ req'[s] = NoRequest
        /\ \A t \in Slots \ {s} : req[t].pc \in {"write", "backups", "delete"} => req'[t].crossed
    BY <1>0, <2>1, EndedWriting DEF Removing
  <2> HIDE DEF n
  <2>6. Listed' /\ Encrypted' /\ Keyed'
    BY <2>1, <2>3 DEF Referred, Listed, Encrypted, Keyed, Key
  <2>7. TargetsListed'
    <3>1. ASSUME ~marks'.raced, NEW m \in marks'.checked, target'[m] \in Buckets
          PROVE  target'[m] \in conn.buckets
      <4>1. CASE m = n
        BY <1>0, <2>3, <2>4, <3>1, <4>1 DEF Knows, ValidatedBy
      <4>2. CASE m # n
        BY <2>3, <2>4, <3>1, <4>2 DEF Referred, TargetsListed
      <4> QED BY <4>1, <4>2
    <3> QED BY <2>1, <3>1 DEF TargetsListed
  <2>8. CheckedCreated'
    <3>1. req[s].to # "absent"
      BY <1>0, NamesAssumption DEF Places
    <3> QED BY <2>3, <2>4, <3>1 DEF Referred, CheckedCreated
  <2>9. ASSUME NEW t \in Slots \ {s} PROVE Knows(t)'
    <3>1. Same(req[t], req'[t]) /\ Knows(t)
      BY <2>5 DEF Others, Referred, AllKnow
    <3>2. FoundBy(t)'
      BY <2>5, <3>1 DEF FoundBy, Same
    <3>3. ReadBy(t)' /\ ValidatedBy(t)'
      BY <2>1, <3>1 DEF Knows, ReadBy, ValidatedBy, Same
    <3> QED BY <3>2, <3>3 DEF Knows
  <2>10. AllKnow'
    BY <2>5, <2>9, EndedKnows DEF AllKnow
  <2> QED BY <2>6, <2>7, <2>8, <2>10 DEF Referred
<1> QED BY <1>1, <1>2

(* The connection is written by s: what others have read of it is old, and  *)
(* they were crossed if it had what they have found there.                  *)
LEMMA ConnectionKnown ==
  ASSUME PlanTypes, InCourse, AllKnow, NEW s \in Slots, NEW crossed,
         EndsWriting(s, Putting, crossed), UNCHANGED <<target, backups, marks.checked>>,
         crossed = Validated \/ conn.buckets \subseteq conn'.buckets
  PROVE  AllKnow'
<1>0. req \in [Slots -> Request]
  BY DEF PlanTypes
<1>1. /\ Others(s) /\ req'[s] = NoRequest
      /\ \A t \in Slots \ {s} : /\ req[t].op = "put" => ~req'[t].fresh
                                /\ t \in crossed => req'[t].crossed
  BY <1>0, EndedWriting DEF Putting
<1>2. ASSUME NEW t \in Slots \ {s} PROVE Knows(t)'
  <2>1. Same(req[t], req'[t]) /\ Knows(t)
    BY <1>1 DEF Others, AllKnow
  <2>2. FoundBy(t)'
    BY <1>1, <2>1 DEF Knows, FoundBy, Same, InUse, Removed
  <2>3. ReadBy(t)'
    BY <1>1, <2>1 DEF ReadBy, Same
  <2>4. ValidatedBy(t)'
    BY <1>1, <2>1 DEF Knows, ValidatedBy, Same, Validated
  <2> QED BY <2>2, <2>3, <2>4 DEF Knows
<1> QED BY <1>1, <1>2, EndedKnows DEF AllKnow

LEMMA CreateConnectionReferred ==
  ASSUME PlanTypes, InCourse, Referred, NEW s \in Slots, CreateConnection(s)
  PROVE  Referred'
<1>1. CASE conn.key # 0
  <2>1. Ends(s) /\ UNCHANGED <<conn, own, target, backups, marks>>
    BY <1>1 DEF CreateConnection
  <2> QED BY <2>1, RefusedReferred
<1>2. CASE conn.key = 0
  <2>0. /\ req[s] \in Request /\ req \in [Slots -> Request] /\ req[s].op \in Ops /\ Course(req[s])
        /\ made.keys \in Nat /\ req[s].pc = "write"
    BY <1>2 DEF PlanTypes, InCourse, Request, CreateConnection
  <2>1. /\ conn' = [key |-> made.keys + 1, buckets |-> req[s].buckets]
        /\ EndsWriting(s, Putting, {})
        /\ UNCHANGED <<own, target, backups, marks>>
    BY <1>2 DEF CreateConnection
  <2>2. req[s].op = "put" /\ req[s].buckets # {} /\ conn.buckets = {}
    BY <1>2, <2>0 DEF Course, StepsOf, Ops, Referred, Listed
  <2>3. Listed' /\ Encrypted'
    BY <2>0, <2>1, <2>2 DEF Referred, Listed, Encrypted
  <2>4. TargetsListed' /\ CheckedCreated'
    BY <2>1, <2>2 DEF Referred, TargetsListed, CheckedCreated
  <2>5. Keyed'
    BY <1>2, <2>1 DEF Referred, Keyed, Encrypted, Key
  <2>7. AllKnow'
    BY <2>1, <2>2, ConnectionKnown DEF Referred
  <2> QED BY <2>3, <2>4, <2>5, <2>7 DEF Referred
<1> QED BY <1>1, <1>2

LEMMA UpdateConnectionReferred ==
  ASSUME PlanTypes, InCourse, Referred, NEW s \in Slots, UpdateConnection(s)
  PROVE  Referred'
<1>1. CASE ~req[s].fresh
  <2>1. Ends(s) /\ UNCHANGED <<conn, own, target, backups, marks>>
    BY <1>1 DEF UpdateConnection
  <2> QED BY <2>1, RefusedReferred
<1>2. CASE req[s].fresh
  <2>0. /\ req[s] \in Request /\ req \in [Slots -> Request] /\ req[s].op \in Ops /\ Course(req[s])
        /\ conn \in [key : Nat, buckets : SUBSET Buckets] /\ req[s].pc = "write"
        /\ marks \in Marks /\ req[s].saw.key # 0 /\ Knows(s)
    BY DEF PlanTypes, InCourse, Request, UpdateConnection, Referred, AllKnow
  <2>1. /\ conn' = [conn EXCEPT !.buckets = req[s].buckets] /\ marks' = Raced(s, Removed(s))
        /\ EndsWriting(s, Putting, Validated) /\ UNCHANGED <<own, target, backups>>
    BY <1>2 DEF UpdateConnection
  <2>2. req[s].op = "put" /\ req[s].buckets # {}
    BY <2>0 DEF Course, StepsOf, Ops
  <2>3. req[s].saw = conn
    BY <1>2, <2>0, <2>2 DEF Knows, ReadBy
  <2>4. conn'.key = conn.key /\ conn.key # 0 /\ conn'.buckets = req[s].buckets
    BY <2>0, <2>1, <2>3
  <2>5. ~marks'.raced => ~marks.raced /\ (conn.buckets \subseteq conn'.buckets \/ ~req[s].crossed)
    BY <2>0, <2>1, <2>3, <2>4 DEF Raced, Removed, Marks
  <2>a. UNCHANGED marks.checked
    BY <2>0, <2>1 DEF Raced, Marks
  <2>6. Listed' /\ Encrypted'
    BY <2>1, <2>2, <2>4 DEF Referred, Listed, Encrypted
  <2>7. Keyed'
    BY <2>1, <2>4, <2>5 DEF Referred, Keyed, Key
  <2>8. TargetsListed' /\ CheckedCreated'
    <3>1. ~req[s].crossed =>
            \A n \in marks.checked : target[n] \notin conn.buckets \ req[s].buckets
      BY <2>0, <2>3 DEF Knows, FoundBy, InUse, Removed
    <3> QED BY <2>1, <2>4, <2>5, <2>a, <3>1 DEF Referred, TargetsListed, CheckedCreated
  <2>10. AllKnow'
    BY <2>1, <2>a, ConnectionKnown DEF Referred
  <2> QED BY <2>6, <2>7, <2>8, <2>10 DEF Referred
<1> QED BY <1>1, <1>2

LEMMA DeleteConnectionReferred ==
  ASSUME PlanTypes, InCourse, Referred, NEW s \in Slots, DeleteConnection(s)
  PROVE  Referred'
<1>0. /\ req[s] \in Request /\ req \in [Slots -> Request] /\ req[s].op \in Ops /\ Course(req[s])
      /\ req[s].pc = "delete" /\ Knows(s) /\ marks \in Marks
      /\ conn \in [key : Nat, buckets : SUBSET Buckets]
  BY DEF PlanTypes, InCourse, Request, DeleteConnection, Referred, AllKnow
<1>1. /\ conn' = NoConnection /\ conn'.key = 0 /\ conn'.buckets = {}
      /\ EndsWriting(s, Putting, Validated) /\ UNCHANGED <<own, target, backups>>
  BY DEF DeleteConnection, NoConnection
<1>2. ~marks'.raced => ~marks.raced /\ (conn.buckets = {} \/ ~req[s].crossed)
  BY <1>0 DEF DeleteConnection, Raced, Marks
<1>3. UNCHANGED marks.checked
  BY <1>0 DEF DeleteConnection, Raced, Marks
<1>4. ~req[s].crossed => ~InUse(Buckets) /\ \A b \in backups : b.to \notin Buckets
  BY <1>0 DEF Knows, FoundBy
<1>5. Listed' /\ Encrypted'
  BY <1>1 DEF Referred, Listed, Encrypted
<1>6. Keyed'
  <2>1. ASSUME ~marks'.raced, NEW b \in backups, b.phase = "Completed" PROVE b.key = Key(b.to)'
    <3>1. b.key = Key(b.to) /\ b.to \in Places
      BY <1>2, <2>1 DEF Referred, Keyed, PlanTypes, Backup
    <3>2. CASE b.to = "platform"
      BY <1>1, <3>1, <3>2 DEF Key
    <3>3. CASE b.to \in Buckets
      BY <1>1, <1>2, <1>4, <2>1, <3>1, <3>3 DEF Key, Referred, Listed
    <3> QED BY <3>1, <3>2, <3>3 DEF Places
  <2> QED BY <1>1, <2>1 DEF Keyed, Key
<1>7. TargetsListed' /\ CheckedCreated'
  BY <1>1, <1>2, <1>3, <1>4 DEF Referred, TargetsListed, CheckedCreated, InUse
<1>9. AllKnow'
  BY <1>1, <1>3, ConnectionKnown DEF Referred
<1> QED BY <1>5, <1>6, <1>7, <1>9 DEF Referred

LEMMA RunsReferred ==
  ASSUME PlanTypes, InCourse, Referred, Runs
  PROVE  Referred'
<1>0. /\ backups \subseteq Backup /\ UNCHANGED <<conn, own, target, marks, req>>
  BY DEF PlanTypes, Runs, Store, BackupFails, RemoveBackup, Clean, SeeBackup, secrets
<1>1. \A b \in backups' : \E c \in backups :
        /\ c.to = b.to
        /\ b.phase = "Completed" =>
             (c.phase = "Completed" /\ c.key = b.key) \/ (b.key = Key(b.to) /\ b.key # 0)
  <2>1. CASE Store
    <3>1. PICK b \in backups, phase \in BackupPhases :
            Key(b.to) # 0 /\ Becomes(b, phase, Key(b.to))
      BY <2>1 DEF Store, BackupPhases
    <3> DEFINE x == [b EXCEPT !.phase = phase, !.key = Key(b.to)]
    <3>2. x.to = b.to /\ x.key = Key(b.to)
      BY <1>0 DEF Backup
    <3>3. backups' = (backups \ {b}) \cup {x}
      BY <3>1 DEF Becomes
    <3> HIDE DEF x
    <3> QED BY <3>1, <3>2, <3>3
  <2>2. CASE BackupFails
    <3>1. PICK b \in backups : Becomes(b, "Failed", 0)
      BY <2>2 DEF BackupFails
    <3> DEFINE x == [b EXCEPT !.phase = "Failed", !.key = 0]
    <3>2. x.to = b.to /\ x.phase = "Failed"
      BY <1>0 DEF Backup
    <3>3. backups' = (backups \ {b}) \cup {x}
      BY <3>1 DEF Becomes
    <3> HIDE DEF x
    <3> QED BY <3>1, <3>2, <3>3
  <2>3. CASE RemoveBackup
    <3>1. PICK b \in backups : backups' = (backups \ {b}) \cup {[b EXCEPT !.deleting = TRUE]}
      BY <2>3 DEF RemoveBackup
    <3> DEFINE x == [b EXCEPT !.deleting = TRUE]
    <3>2. x.to = b.to /\ x.phase = b.phase /\ x.key = b.key
      BY <1>0 DEF Backup
    <3>3. backups' = (backups \ {b}) \cup {x}
      BY <3>1
    <3> HIDE DEF x
    <3> QED BY <3>2, <3>3
  <2>4. CASE Clean
    BY <2>4 DEF Clean
  <2>5. CASE SeeBackup
    <3>1. PICK b \in backups : backups' = (backups \ {b}) \cup {[b EXCEPT !.seen = TRUE]}
      BY <2>5 DEF SeeBackup
    <3> DEFINE x == [b EXCEPT !.seen = TRUE]
    <3>2. x.to = b.to /\ x.phase = b.phase /\ x.key = b.key
      BY <1>0 DEF Backup
    <3>3. backups' = (backups \ {b}) \cup {x}
      BY <3>1
    <3> HIDE DEF x
    <3> QED BY <3>2, <3>3
  <2> QED BY <2>1, <2>2, <2>3, <2>4, <2>5 DEF Runs
<1>2. Listed' /\ TargetsListed' /\ CheckedCreated' /\ Encrypted'
  BY <1>0, <1>1 DEF Referred, Listed, TargetsListed, CheckedCreated, Encrypted
<1>3. Keyed'
  BY <1>0, <1>1 DEF Referred, Keyed, Key
<1>5. ASSUME NEW t \in Slots PROVE Knows(t)'
  <2>1. Knows(t)
    BY DEF Referred, AllKnow
  <2> QED BY <1>0, <1>1, <2>1 DEF Knows, FoundBy, ReadBy, ValidatedBy, InUse, Removed
<1> QED BY <1>2, <1>3, <1>5 DEF Referred, AllKnow

LEMMA ReferredStep == PlanTypes /\ InCourse /\ Referred /\ [PlanNext]_planVars => Referred'
<1> SUFFICES ASSUME PlanTypes, InCourse, Referred, [PlanNext]_planVars PROVE Referred'
  OBVIOUS
<1>1. ASSUME NEW s \in Slots, Begins(s) \/ Reads(s) \/ CountBackups(s) PROVE Referred'
  <2>1. Others(s) /\ UNCHANGED <<conn, own, target, backups, marks.checked, marks.raced>>
    <3>1. CASE CountBackups(s)
      <4>1. req \in [Slots -> Request] /\ (Ends(s) \/ Goes(s, "secret"))
        BY <3>1, CountTypes DEF PlanTypes
      <4> QED BY <3>1, <4>1, CountTypes, Went, Ended
    <3> QED BY <1>1, <3>1, BeginsMove, ReadsTypes, ReadsMove
  <2>2. Listed' /\ Encrypted' /\ Keyed' /\ TargetsListed' /\ CheckedCreated'
    BY <2>1 DEF Referred, Listed, Encrypted, Keyed, Key, TargetsListed, CheckedCreated
  <2>4. Knows(s)'
    <3>1. CASE Begins(s)
      <4>1. \/ req'[s].pc \in {"get", "read"}
            \/ req'[s].pc = "users" /\ req'[s].op = "drop"
        BY <3>1, BeginsMove
      <4> QED BY <4>1 DEF Knows, FoundBy, ReadBy, ValidatedBy
    <3>2. CASE Reads(s)
      BY <3>2, ReadsKnow DEF Referred, AllKnow
    <3>3. CASE CountBackups(s)
      <4>1. req'[s].pc \in {"idle", "secret"}
        <5>1. req \in [Slots -> Request] /\ (Ends(s) \/ Goes(s, "secret"))
          BY <3>3, CountTypes DEF PlanTypes
        <5> QED BY <5>1, Went, Ended DEF NoRequest
      <4> QED BY <4>1 DEF Knows, FoundBy, ReadBy, ValidatedBy
    <3> QED BY <1>1, <3>1, <3>2, <3>3
  <2>5. AllKnow'
    BY <2>1, <2>4, OthersKnow DEF Referred, AllKnow
  <2> QED BY <2>2, <2>5 DEF Referred
<1>2. ASSUME NEW s \in Slots, RequestWrites(s) PROVE Referred'
  BY <1>2, SecretReferred, CreateReferred, TargetReferred, CreateConnectionReferred,
     UpdateConnectionReferred, DeleteConnectionReferred DEF RequestWrites
<1>3. CASE UNCHANGED planVars
  BY <1>3 DEF planVars, Referred, Listed, Encrypted, Keyed, Key, TargetsListed,
     CheckedCreated, AllKnow, Knows, FoundBy, ReadBy, ValidatedBy, InUse, Removed
<1>4. CASE CreateServer
  <2>1. UNCHANGED <<conn, own, backups, req, marks>>
    BY <1>4, CreateServerTypes
  <2>2. /\ \A n \in Servers : target[n] # "absent" => target'[n] = target[n]
        /\ marks.checked \subseteq Servers
    BY <1>4 DEF CreateServer, Created, PlanTypes, Marks
  <2>3. \A n \in marks.checked : target'[n] = target[n]
    BY <2>2 DEF Referred, CheckedCreated
  <2>4. Listed' /\ Encrypted' /\ Keyed' /\ TargetsListed' /\ CheckedCreated'
    BY <2>1, <2>3 DEF Referred, Listed, Encrypted, Keyed, Key, TargetsListed, CheckedCreated
  <2>5. AllKnow'
    BY <2>1, <2>3
       DEF Referred, AllKnow, Knows, FoundBy, ReadBy, ValidatedBy, InUse, Removed
  <2> QED BY <2>4, <2>5 DEF Referred
<1> QED BY <1>1, <1>2, <1>3, <1>4, RunsReferred, PlanCases DEF Begins

LEMMA ReferredBegins == PlanInit => Referred
<1> SUFFICES ASSUME PlanInit PROVE Referred
  OBVIOUS
<1>1. \A s \in Slots : req[s].pc = "idle" /\ req[s].op = "none"
  BY DEF PlanInit, NoRequest
<1>2. conn.key = 0 /\ conn.buckets = {} /\ backups = {} /\ marks.checked = {}
  BY DEF PlanInit, NoConnection
<1>3. AllKnow
  BY <1>1 DEF AllKnow, Knows, FoundBy, ReadBy, ValidatedBy
<1>4. Listed /\ Encrypted /\ Keyed /\ TargetsListed /\ CheckedCreated
  BY <1>2 DEF Listed, Encrypted, Keyed, TargetsListed, CheckedCreated
<1> QED BY <1>3, <1>4 DEF Referred

(* What updates of servers and stored backups refer to is still there, but  *)
(* for the two orders of the calls that ReferencesKept names.               *)
THEOREM ReferencesHold == PlanSpec => []ReferencesKept
<1>1. PlanSpec => []Referred
  BY ReferredBegins, ReferredStep, PlanTyped, PTL DEF PlanSpec
<1>2. Referred => ReferencesKept
  BY DEF Referred, ReferencesKept
<1> QED BY <1>1, <1>2, PTL
=============================================================================
