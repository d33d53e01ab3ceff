--------------------------- MODULE OperatorProofs ---------------------------
(* Proofs about what the operator keeps going, game servers (GameServer) and *)
(* then organizations (Tenancy), for every value of their constants.        *)
EXTENDS GameServer, Tenancy, FiniteSetTheorems, TLAPS

-----------------------------------------------------------------------------
(* The values the model's operators compute have their types.               *)

(* The status reconcileCrash records is well typed.                         *)
LEMMA RecordedType ==
  ASSUME NEW g \in GameServers, NEW at \in Nat
  PROVE  Recorded(g, at) \in GameServers
<1>1. Kept(g.recent, at) \in SUBSET Nat
  BY DEF Kept, GameServers
<1>2. (GivesUp(g, at) \/ g.crashed) \in BOOLEAN
  OBVIOUS
<1> QED BY <1>1, <1>2 DEF Recorded, GameServers

(* The status updateStatus writes is well typed.                            *)
LEMMA ObservedType ==
  ASSUME NEW g \in GameServers, NEW q \in Pods
  PROVE  Observed(g, q) \in GameServers
<1>1. ObservedPhase(g, q) \in Phases
  BY DEF ObservedPhase, Phases, WantsDown, GameServers, Pods
<1>2. (q.exists /\ q.spec # g.spec) \in BOOLEAN
  OBVIOUS
<1>3. (IF WantsDown(g) THEN g.crashed ELSE FALSE) \in BOOLEAN
  BY DEF GameServers
<1>4. (IF WantsDown(g) THEN {} ELSE g.recent) \in SUBSET Nat
  BY DEF GameServers
<1>5. q.exists \in BOOLEAN
  BY DEF Pods
<1> DEFINE restart == q.exists /\ q.spec # g.spec
           crashed == IF WantsDown(g) THEN g.crashed ELSE FALSE
           recent == IF WantsDown(g) THEN {} ELSE g.recent
<1>6. Observed(g, q) = [g EXCEPT !.phase = ObservedPhase(g, q), !.hasPod = q.exists,
                                 !.restartRequired = restart, !.crashed = crashed,
                                 !.recent = recent]
  BY DEF Observed
<1>8. restart \in BOOLEAN /\ crashed \in BOOLEAN /\ recent \in SUBSET Nat
  BY <1>2, <1>3, <1>4
<1> HIDE DEF restart, crashed, recent
<1> DEFINE phase == ObservedPhase(g, q)
           runs == q.exists
           x == [g EXCEPT !.phase = phase, !.hasPod = runs, !.restartRequired = restart,
                          !.crashed = crashed, !.recent = recent]
<1>7. Observed(g, q) = x /\ phase \in Phases /\ runs \in BOOLEAN
  BY <1>1, <1>5, <1>6
<1> HIDE DEF phase, runs
<1>9. x \in GameServers
  BY <1>7, <1>8 DEF GameServers
<1> QED BY <1>7, <1>9

(* What the first state and an idle worker hold is well typed.              *)
LEMMA NewTypes == NewServer \in GameServers /\ NoPod \in Pods
BY DEF NewServer, GameServers, NoPod, Pods, Phases, Never

(* A server is new, suspended or not.                                       *)
LEMMA Began ==
  ASSUME Init
  PROVE  /\ gs \in GameServers /\ cache = gs
         /\ gs.lastCrash = 0 /\ gs.starts = 0 /\ gs.recent = {}
         /\ gs.suspended => gs.state = "Stopped"
<1>1. gs = NewServer \/ gs = NewSuspended
  BY DEF Init
<1>2. /\ NewServer.lastCrash = 0 /\ NewServer.starts = 0 /\ NewServer.recent = {}
      /\ ~NewServer.suspended
  BY DEF NewServer, Never
<1>3. NewSuspended \in GameServers
  BY NewTypes DEF NewSuspended, GameServers
<1>4. /\ NewSuspended.lastCrash = 0 /\ NewSuspended.starts = 0 /\ NewSuspended.recent = {}
      /\ NewSuspended.state = "Stopped"
  BY DEF NewSuspended, NewServer, Never
<1> QED BY <1>1, <1>2, <1>3, <1>4, NewTypes DEF Init

(* buildPod builds a well-typed Pod.                                        *)
LEMMA BuildPodType ==
  ASSUME NEW g \in GameServers
  PROVE  buildPod(g) \in Pods
BY DEF buildPod, NoPod, GameServers, Pods, Never

-----------------------------------------------------------------------------
(* Type correctness.                                                        *)

(* A reconcile that ends leaves well-typed copies.                          *)
LEMMA ForgetType == Forget => l' \in GameServers /\ localFresh' \in BOOLEAN
                              /\ p' \in Pods /\ pc' = "idle"
BY NewTypes DEF Forget

(* Deleting a Pod leaves a well-typed Pod.                                  *)
LEMMA EndPodType ==
  ASSUME pod \in Pods
  PROVE  DeletePod => pod' \in Pods
BY DEF DeletePod, Pods

(* The fields a request sets keep their types.                              *)
LEMMA StateType ==
  ASSUME NEW g \in GameServers, NEW s \in {"Running", "Stopped"}, NEW n \in Nat
  PROVE  /\ [g EXCEPT !.state = s, !.starts = n] \in GameServers
         /\ [g EXCEPT !.state = s, !.asks = n] \in GameServers
         /\ [g EXCEPT !.restartAt = n] \in GameServers
         /\ [g EXCEPT !.asks = n] \in GameServers
         /\ [g EXCEPT !.suspended = TRUE] \in GameServers
BY DEF GameServers

(* What a request may write.                                                *)
LEMMA RequestType ==
  ASSUME TypeOK, PanelRequest
  PROVE  gs' \in GameServers /\ events' \in Nat
<1>1. events + 1 \in Nat /\ events' = events + 1
  BY DEF TypeOK, PanelRequest, Start, Stop, Restart, Suspend, Unsuspend, EditSpec,
         Reinstall, SetAutoRestart, Request
<1>2. gs \in GameServers /\ gs.starts + 1 \in Nat /\ gs.asks + 1 \in Nat
      /\ gs.recent \subseteq Nat
  BY DEF TypeOK, GameServers
<1>3. CASE Start
  BY <1>1, <1>2, <1>3, StateType DEF Start, Request
<1>4. CASE Stop
  BY <1>1, <1>2, <1>4, StateType DEF Stop, Request
<1>5. CASE Restart
  <2>1. [gs EXCEPT !.restartAt = events + 1] \in GameServers
    BY <1>1, <1>2, StateType
  <2> QED BY <1>1, <1>2, <1>5, <2>1 DEF Restart, Request, GameServers
<1>6. CASE Suspend
  BY <1>1, <1>2, <1>6 DEF Suspend, Request, GameServers
<1>7. CASE Unsuspend
  BY <1>1, <1>2, <1>7 DEF Unsuspend, Request, GameServers
<1>8. CASE EditSpec
  BY <1>1, <1>2, <1>8 DEF EditSpec, Request, GameServers
<1>9. CASE SetAutoRestart
  BY <1>1, <1>2, <1>9 DEF SetAutoRestart, Request, GameServers
<1>10. CASE Reinstall
  <2>1. CASE gs.state = "Running"
    <3>1. gs' = [gs EXCEPT !.spec = events + 1, !.restartAt = events + 1, !.asks = @ + 1]
      BY <1>10, <2>1 DEF Reinstall, Request
    <3> QED BY <1>1, <1>2, <3>1 DEF GameServers
  <2>2. CASE gs.state # "Running"
    <3>1. gs' = [gs EXCEPT !.spec = events + 1]
      BY <1>10, <2>2 DEF Reinstall, Request
    <3> QED BY <1>1, <1>2, <3>1 DEF GameServers
  <2> QED BY <2>1, <2>2
<1> QED BY <1>3, <1>4, <1>5, <1>6, <1>7, <1>8, <1>9, <1>10 DEF PanelRequest

(* Every variable keeps its type, whatever the constants.                   *)
THEOREM TypeCorrect == Spec => []TypeOK
<1> USE DEF apiVars, cacheVars, queueVars, localVars, historyVars
<1>1. Init => TypeOK
  <2> SUFFICES ASSUME Init PROVE TypeOK
    OBVIOUS
  <2>1. timer \in Nat /\ crashLog \in Nat /\ now \in Nat /\ events \in Nat
    BY DEF Init, Never
  <2> QED BY <2>1, NewTypes, Began DEF Init, TypeOK
<1>2. TypeOK /\ [Next]_vars => TypeOK'
  <2> SUFFICES ASSUME TypeOK, [Next]_vars PROVE TypeOK'
    OBVIOUS
  <2>1. CASE BeginReconcile
    <3>1. p' \in Pods /\ pod' \in Pods
      <4>1. CASE NothingToRun
        BY <4>1, NewTypes DEF NothingToRun, TypeOK
      <4>2. CASE EndPod
        BY <4>2, NewTypes, EndPodType DEF EndPod, TypeOK
      <4>3. CASE KeepPod
        BY <4>3 DEF KeepPod, TypeOK
      <4>4. CASE CreatePod
        BY <4>4, BuildPodType DEF CreatePod, TypeOK
      <4> QED BY <2>1, <4>1, <4>2, <4>3, <4>4 DEF BeginReconcile
    <3>2. pc' \in {"status", "stop", "log", "record"}
      BY <2>1 DEF BeginReconcile, Goto, CrashStep
    <3> QED BY <2>1, <3>1, <3>2 DEF BeginReconcile, TypeOK
  <2>2. CASE CreateConflicts
    BY <2>2, ForgetType DEF CreateConflicts, Fail, TypeOK
  <2>3. CASE SaveCrashLog
    BY <2>3 DEF SaveCrashLog, Goto, TypeOK, Pods
  <2>4. CASE RecordCrash
    <3>1. p.at \in Nat /\ RestartTime(l, p.at) \in Nat
      BY PolicyAssumption DEF TypeOK, Pods, RestartTime, restartDelay
    <3>2. Recorded(l, p.at) \in GameServers
      BY <3>1, RecordedType DEF TypeOK
    <3>3. /\ gs' \in GameServers /\ l' \in GameServers
          /\ cacheFresh' \in BOOLEAN /\ localFresh' \in BOOLEAN
      BY <2>4, <3>2 DEF RecordCrash, Write, TypeOK
    <3>4. now' \in Nat /\ pc' \in {"stop", "wait", "restart"} /\ final' \in BOOLEAN
      BY <2>4, <3>1 DEF RecordCrash, Goto, TypeOK
    <3> QED BY <2>4, <3>3, <3>4 DEF RecordCrash, TypeOK
  <2>5. CASE RecordConflicts
    BY <2>5, ForgetType DEF RecordConflicts, Fail, TypeOK
  <2>6. CASE RestartCrashed
    <3>1. <<l.starts, p.at>> \in Nat \X Nat
      BY DEF TypeOK, GameServers, Pods
    <3>2. restarted' \subseteq Nat \X Nat
      BY <2>6, <3>1 DEF RestartCrashed, TypeOK
    <3>3. pod' \in Pods
      BY <2>6, EndPodType DEF RestartCrashed, TypeOK
    <3> QED BY <2>6, <3>2, <3>3 DEF RestartCrashed, Goto, TypeOK
  <2>7. CASE StopAfterExit
    <3>1. [l EXCEPT !.state = "Stopped", !.asks = l.asks + 1] \in GameServers
      <4>1. l \in GameServers /\ l.asks + 1 \in Nat
        BY DEF TypeOK, GameServers
      <4> QED BY <4>1, StateType
    <3> QED BY <2>7, <3>1 DEF StopAfterExit, Write, Goto, TypeOK
  <2>8. CASE StopConflicts
    BY <2>8, ForgetType DEF StopConflicts, Fail, TypeOK
  <2>9. CASE RemoveDeadPod
    BY <2>9, EndPodType DEF RemoveDeadPod, Goto, TypeOK
  <2>10. CASE UpdateStatus
    <3>1. gs' \in GameServers /\ cacheFresh' \in BOOLEAN
      BY <2>10, ObservedType DEF UpdateStatus, TypeOK
    <3>2. RestartTime(l, p.at) \in Nat
      BY PolicyAssumption DEF TypeOK, Pods, RestartTime, restartDelay
    <3>3. timer' \in Nat
      BY <2>10, <3>2 DEF UpdateStatus, Earlier, TypeOK
    <3> QED BY <2>10, <3>1, <3>3, ForgetType DEF UpdateStatus, TypeOK
  <2>11. CASE StatusConflicts
    BY <2>11, ForgetType DEF StatusConflicts, Fail, TypeOK
  <2>12. CASE CallFails
    BY <2>12, ForgetType DEF CallFails, Fail, TypeOK
  <2>13. CASE OperatorRestarts
    BY <2>13, ForgetType DEF OperatorRestarts, TypeOK, Never
  <2>14. CASE SeeGameServer
    BY <2>14 DEF SeeGameServer, TypeOK
  <2>15. CASE SeePod
    BY <2>15 DEF SeePod, TypeOK
  <2>16. CASE TimerFires
    BY <2>16 DEF TimerFires, TypeOK, Never
  <2>17. CASE PanelRequest
    <3>1. /\ cacheFresh' = FALSE /\ localFresh' = FALSE /\ final' = FALSE
          /\ UNCHANGED <<restarted, pod, crashLog, cache, podCache, queueVars, pc, l, p, now>>
      BY <2>17 DEF PanelRequest, Start, Stop, Restart, Suspend, Unsuspend, EditSpec, Reinstall,
         SetAutoRestart, Request
    <3> QED BY <2>17, <3>1, RequestType DEF TypeOK, queueVars
  <2>18. CASE Kubelet
    <3>1. CASE RunPod
      BY <2>18, <3>1 DEF RunPod, PodStep, TypeOK, Pods
    <3>2. CASE PodFails
      BY <2>18, <3>2 DEF PodFails, PodStep, TypeOK, Pods
    <3>3. CASE GameExits
      <4> PICK how \in {"clean", "crash"}, t \in (now + 1)..LastExit :
            /\ now' = t
            /\ pod' = [pod EXCEPT !.exit = how, !.at = t]
            /\ final' = (final \/ (/\ how = "clean" /\ ~pod.deleting
                                 /\ ~WantsDown(gs) /\ pod.asks = gs.asks))
        BY <3>3 DEF GameExits
      <4>1. t \in Nat /\ final' \in BOOLEAN
        BY BoundsAssumption DEF TypeOK
      <4>2. pod' \in Pods
        BY <4>1 DEF TypeOK, Pods
      <4> QED BY <3>3, <4>1, <4>2 DEF GameExits, TypeOK
    <3>4. CASE PodGone
      BY <3>4, NewTypes DEF PodGone, PodStep, TypeOK
    <3> QED BY <2>18, <3>1, <3>2, <3>3, <3>4 DEF Kubelet
  <2>19. CASE UNCHANGED vars
    BY <2>19 DEF vars, TypeOK
  <2> QED
    BY <2>1, <2>2, <2>3, <2>4, <2>5, <2>6, <2>7, <2>8, <2>9, <2>10, <2>11, <2>12,
       <2>13, <2>14, <2>15, <2>16, <2>17, <2>18, <2>19 DEF Next, Reconcile
<1> QED BY <1>1, <1>2, PTL DEF Spec

-----------------------------------------------------------------------------
(* The inductive invariant, in layers: first the copies and the times.      *)

Ended(q) == q.exit # "none"

(* The copies of the Pod: no copy knows of an end the Pod itself has not    *)
(* come to, and the exited copies all tell of the same exit.                *)
PodCopies ==
  /\ \A q \in {pod, podCache, p} : ~q.exists => ~Ended(q)
  /\ pod.exists /\ ~Ended(pod) => ~Ended(podCache) /\ ~Ended(p)
  /\ \A q, r \in {pod, podCache, p} : Ended(q) /\ Ended(r) => q.at = r.at
  /\ pc = "idle" => ~Ended(p)
  /\ pc \in {"log", "record", "restart", "wait"} => Ended(p)

(* The copies of the GameServer.                                            *)
ServerCopies ==
  /\ cacheFresh => cache = gs
  /\ localFresh => l = gs
  /\ \A g \in {gs, cache, l} : IsFiniteSet(g.recent)
  /\ \A g \in {gs, cache, l} : g.suspended => g.state = "Stopped"
  /\ pc \in {"log", "record"} => l.state = "Running"

(* No crash is newer than the exit at hand.                                 *)
Times ==
  /\ crashLog <= now /\ gs.lastCrash <= now
  /\ \A x \in restarted : x[1] <= gs.starts /\ x[2] <= now
  /\ \A g \in {cache, l} : g.starts <= gs.starts
  /\ \A q \in {pod, podCache, p} : Ended(q) =>
       /\ q.at <= now /\ crashLog <= q.at /\ gs.lastCrash <= q.at
       /\ \A x \in restarted : x[2] <= q.at
  /\ \A g \in {gs, cache, l} : g.lastCrash <= crashLog
  /\ pc = "record" => p.at <= crashLog

(* The crash at time u, of the epoch of g, is accounted for in g.           *)
Counted(g, u) ==
  u \in g.recent \/ g.lastCrash - u >= Window \/ g.state = "Stopped"

Budget ==
  /\ \A x \in restarted : x[1] = gs.starts => Counted(gs, x[2])
  /\ \A g \in {cache, l} :
       /\ g.lastCrash <= gs.lastCrash /\ g.starts <= gs.starts
       /\ g.starts = gs.starts => \A u \in g.recent : Counted(gs, u)
       /\ g.lastCrash \in g.recent =>
            \A x \in restarted : x[1] = g.starts /\ x[2] <= g.lastCrash => Counted(g, x[2])
  /\ pc = "restart" =>
       /\ p.at \in l.recent /\ Cardinality(l.recent) < Limit
       /\ \A x \in restarted : x[1] = l.starts /\ p.at - x[2] < Window => x[2] \in l.recent

-----------------------------------------------------------------------------
(* Steps that look alike to the invariant.                                  *)

(* A reconcile that ends, or is ended, without a change to either object.   *)
GivesBack == Forget /\ UNCHANGED <<gs, pod, cache, cacheFresh, podCache, crashLog,
                                   now, restarted>>

(* Conflicts, failed calls and restarts of the operator change no object.   *)
LEMMA FailuresGiveBack ==
  CreateConflicts \/ RecordConflicts \/ StopConflicts \/ StatusConflicts \/ CallFails
    => GivesBack
BY DEF CreateConflicts, RecordConflicts, StopConflicts, StatusConflicts, CallFails,
       Fail, GivesBack, apiVars, cacheVars, historyVars

(* Deleting a Pod changes neither whether it exists nor how it ended.       *)
LEMMA DeleteKeeps ==
  ASSUME pod \in Pods, DeletePod
  PROVE  pod'.exists = pod.exists /\ pod'.exit = pod.exit /\ pod'.at = pod.at
BY DEF DeletePod, Pods

(* What a request leaves alone.                                             *)
LEMMA RequestKeeps ==
  PanelRequest => /\ cacheFresh' = FALSE /\ localFresh' = FALSE
                  /\ UNCHANGED <<pod, cache, podCache, crashLog, pc, l, p, now, restarted>>
BY DEF PanelRequest, Start, Stop, Restart, Suspend, Unsuspend, EditSpec,
       Reinstall, SetAutoRestart, Request, queueVars

-----------------------------------------------------------------------------
(* Layer one: the copies of the Pod.                                        *)

(* No copy of the Pod the operator reads tells of an exit the Pod itself    *)
(* has not come to.                                                         *)
THEOREM PodCopiesHold == Spec => []PodCopies
<1> USE DEF apiVars, cacheVars, queueVars, localVars, historyVars
<1>1. Init => PodCopies
  BY DEF Init, PodCopies, Ended, NoPod
<1>2. TypeOK /\ PodCopies /\ [Next]_vars => PodCopies'
  <2> SUFFICES ASSUME TypeOK, PodCopies, [Next]_vars PROVE PodCopies'
    OBVIOUS
  <2>1. CASE BeginReconcile
    <3>1. CASE NothingToRun
      BY <2>1, <3>1 DEF BeginReconcile, NothingToRun, PodCopies, Ended, NoPod, Goto,
         CrashStep, crashedPod
    <3>2. CASE EndPod
      <4>1. pod'.exists = pod.exists /\ pod'.exit = pod.exit /\ pod'.at = pod.at
        BY <3>2, DeleteKeeps DEF EndPod, TypeOK
      <4> QED BY <2>1, <3>2, <4>1 DEF BeginReconcile, EndPod, PodCopies, Ended, NoPod,
         Goto, CrashStep, crashedPod
    <3>3. CASE KeepPod
      BY <2>1, <3>3 DEF BeginReconcile, KeepPod, PodCopies, Ended, Goto, CrashStep,
         crashedPod
    <3>4. CASE CreatePod
      <4>1. pod'.exists /\ pod'.exit = "none" /\ p' = pod'
        BY <3>4 DEF CreatePod, buildPod, NoPod
      <4> QED BY <2>1, <3>4, <4>1 DEF BeginReconcile, CreatePod, PodCopies, Ended, Goto,
         CrashStep, crashedPod
    <3> QED BY <2>1, <3>1, <3>2, <3>3, <3>4 DEF BeginReconcile
  <2>2. CASE GivesBack
    BY <2>2 DEF GivesBack, Forget, PodCopies, Ended, NoPod
  <2>3. CASE SaveCrashLog
    BY <2>3 DEF SaveCrashLog, Goto, PodCopies
  <2>4. CASE RecordCrash
    BY <2>4 DEF RecordCrash, Goto, PodCopies
  <2>5. CASE RestartCrashed \/ RemoveDeadPod
    <3>1. /\ pod'.exists = pod.exists /\ pod'.exit = pod.exit /\ pod'.at = pod.at
          /\ UNCHANGED <<podCache, p>> /\ pc' = "status"
      BY <2>5, DeleteKeeps DEF RestartCrashed, RemoveDeadPod, Goto, TypeOK
    <3> QED BY <3>1 DEF PodCopies, Ended
  <2>6. CASE StopAfterExit
    BY <2>6 DEF StopAfterExit, Goto, PodCopies
  <2>7. CASE UpdateStatus
    BY <2>7 DEF UpdateStatus, Forget, PodCopies, Ended, NoPod
  <2>8. CASE OperatorRestarts
    BY <2>8 DEF OperatorRestarts, Forget, PodCopies, Ended, NoPod
  <2>9. CASE SeeGameServer \/ TimerFires \/ PanelRequest
    BY <2>9, RequestKeeps DEF SeeGameServer, TimerFires, PodCopies
  <2>10. CASE SeePod
    BY <2>10 DEF SeePod, PodCopies
  <2>11. CASE RunPod \/ PodFails
    <3>1. /\ pod'.exists = pod.exists /\ pod'.exit = pod.exit /\ pod'.at = pod.at
          /\ UNCHANGED <<podCache, p, pc>>
      BY <2>11 DEF RunPod, PodFails, PodStep, TypeOK, Pods
    <3> QED BY <3>1 DEF PodCopies, Ended
  <2>12. CASE GameExits
    <3>1. pod'.exists /\ UNCHANGED <<podCache, p, pc>>
      BY <2>12 DEF GameExits, TypeOK, Pods
    <3>2. ~Ended(podCache) /\ ~Ended(p)
      BY <2>12 DEF GameExits, PodCopies, Ended
    <3>3. Ended(pod')
      BY <2>12 DEF GameExits, TypeOK, Pods, Ended
    <3> QED BY <3>1, <3>2, <3>3 DEF PodCopies, Ended
  <2>13. CASE PodGone
    BY <2>13 DEF PodGone, PodStep, PodCopies, Ended, NoPod
  <2>14. CASE UNCHANGED vars
    BY <2>14 DEF vars, PodCopies
  <2> QED
    BY <2>1, <2>2, <2>3, <2>4, <2>5, <2>6, <2>7, <2>8, <2>9, <2>10, <2>11, <2>12,
       <2>13, <2>14, FailuresGiveBack DEF Next, Reconcile, Kubelet
<1> QED BY <1>1, <1>2, TypeCorrect, PTL DEF Spec

-----------------------------------------------------------------------------
(* Layer two: the copies of the GameServer.                                 *)

(* decideCrash keeps finitely many crashes.                                 *)
LEMMA KeptFinite ==
  ASSUME NEW r, IsFiniteSet(r), NEW at
  PROVE  IsFiniteSet(Kept(r, at))
<1>1. IsFiniteSet({t \in r : at - t < Window})
  BY FS_Subset
<1>2. IsFiniteSet({at})
  BY FS_Singleton
<1> QED BY <1>1, <1>2, FS_Union DEF Kept

(* What a request makes of the fields the invariant is about.               *)
LEMMA RequestWrites ==
  ASSUME gs \in GameServers, PanelRequest
  PROVE  /\ gs'.recent = gs.recent /\ gs'.lastCrash = gs.lastCrash
         /\ \/ gs'.starts = gs.starts /\ gs'.state \in {gs.state, "Stopped"}
               /\ (gs'.suspended => gs.suspended \/ gs'.state = "Stopped")
            \/ gs'.starts = gs.starts + 1 /\ gs.state = "Stopped" /\ ~gs'.suspended
<1> USE DEF Request, GameServers
<1>1. CASE Start   BY <1>1 DEF Start
<1>2. CASE Stop   BY <1>2 DEF Stop
<1>3. CASE Restart   BY <1>3 DEF Restart
<1>4. CASE Suspend   BY <1>4 DEF Suspend
<1>5. CASE Unsuspend   BY <1>5 DEF Unsuspend
<1>6. CASE EditSpec   BY <1>6 DEF EditSpec
<1>7. CASE SetAutoRestart   BY <1>7 DEF SetAutoRestart
<1>8. CASE Reinstall   BY <1>8 DEF Reinstall
<1> QED BY <1>1, <1>2, <1>3, <1>4, <1>5, <1>6, <1>7, <1>8 DEF PanelRequest

(* What the kubelet and the game leave alone.                               *)
LEMMA KubeletKeeps ==
  Kubelet => UNCHANGED <<gs, cache, cacheFresh, podCache, l, localFresh, p, pc,
                         crashLog, restarted>>
BY DEF Kubelet, RunPod, PodFails, GameExits, PodGone, PodStep, cacheVars, localVars

(* What the reconciler's three writes make of them.                         *)
LEMMA RecordedWrites ==
  ASSUME NEW g \in GameServers, NEW at \in Nat
  PROVE  /\ Recorded(g, at).recent = Kept(g.recent, at)
         /\ Recorded(g, at).lastCrash = at
         /\ Recorded(g, at).state = g.state
         /\ Recorded(g, at).suspended = g.suspended
         /\ Recorded(g, at).starts = g.starts
BY DEF Recorded, GameServers

(* updateStatus clears the crashes of a stopped server and touches none     *)
(* of the rest.                                                             *)
LEMMA ObservedWrites ==
  ASSUME NEW g \in GameServers, NEW q
  PROVE  /\ Observed(g, q).recent = IF WantsDown(g) THEN {} ELSE g.recent
         /\ Observed(g, q).lastCrash = g.lastCrash
         /\ Observed(g, q).state = g.state
         /\ Observed(g, q).suspended = g.suspended
         /\ Observed(g, q).starts = g.starts
BY DEF Observed, GameServers

(* stopAfterExit writes the spec from its own copy and nothing else.        *)
LEMMA StoppedWrites ==
  ASSUME l \in GameServers, StopAfterExit
  PROVE  /\ gs' = l' /\ cacheFresh' = FALSE /\ localFresh' = TRUE
         /\ gs'.state = "Stopped" /\ gs'.recent = l.recent
         /\ gs'.lastCrash = l.lastCrash /\ gs'.suspended = l.suspended
         /\ gs'.starts = l.starts
BY DEF StopAfterExit, Write, GameServers

(* The copies that count as fresh are the GameServer, so an Update that     *)
(* is not refused loses nothing.                                            *)
THEOREM ServerCopiesHold == Spec => []ServerCopies
<1> USE DEF apiVars, cacheVars, queueVars, localVars, historyVars
<1>0. IsFiniteSet(NewServer.recent) /\ ~NewServer.suspended
  BY FS_EmptySet DEF NewServer
<1>1. Init => ServerCopies
  <2> SUFFICES ASSUME Init PROVE ServerCopies
    OBVIOUS
  <2>1. cache = gs /\ l = NewServer /\ ~localFresh /\ pc = "idle"
    BY DEF Init
  <2>2. IsFiniteSet(gs.recent) /\ (gs.suspended => gs.state = "Stopped")
    BY Began, FS_EmptySet
  <2> QED BY <1>0, <2>1, <2>2 DEF ServerCopies
<1>2. TypeOK /\ ServerCopies /\ [Next]_vars => ServerCopies'
  <2> SUFFICES ASSUME TypeOK, ServerCopies, [Next]_vars PROVE ServerCopies'
    OBVIOUS
  <2>1. CASE BeginReconcile
    <3>1. l' = cache /\ localFresh' = cacheFresh /\ UNCHANGED <<gs, cache, cacheFresh>>
      BY <2>1 DEF BeginReconcile
    <3>2. pc' \in {"log", "record"} => l'.state # "Stopped"
      BY <2>1 DEF BeginReconcile, Goto, CrashStep, crashedPod, WantsDown
    <3> QED BY <3>1, <3>2 DEF ServerCopies, TypeOK, GameServers
  <2>2. CASE GivesBack
    BY <2>2, <1>0 DEF GivesBack, Forget, ServerCopies
  <2>3. CASE SaveCrashLog
    BY <2>3 DEF SaveCrashLog, Goto, ServerCopies
  <2>4. CASE RecordCrash
    <3>1. p.at \in Nat /\ l \in GameServers
      BY DEF TypeOK, Pods
    <3>2. pc' \notin {"log", "record"} /\ cache' = cache
      BY <2>4 DEF RecordCrash, Goto
    <3>3. CASE Recorded(l, p.at) = l
      BY <2>4, <3>2, <3>3 DEF RecordCrash, ServerCopies
    <3>4. CASE Recorded(l, p.at) # l
      <4>1. gs' = Recorded(l, p.at) /\ l' = gs' /\ cacheFresh' = FALSE
        BY <2>4, <3>4 DEF RecordCrash, Write
      <4>2. IsFiniteSet(gs'.recent)
        BY <3>1, <4>1, RecordedWrites, KeptFinite DEF ServerCopies
      <4> QED BY <3>1, <3>2, <4>1, <4>2, RecordedWrites DEF ServerCopies
    <3> QED BY <3>3, <3>4
  <2>5. CASE RestartCrashed \/ RemoveDeadPod
    BY <2>5 DEF RestartCrashed, RemoveDeadPod, Goto, ServerCopies
  <2>6. CASE StopAfterExit
    BY <2>6, StoppedWrites DEF StopAfterExit, Goto, ServerCopies, TypeOK
  <2>7. CASE UpdateStatus
    <3>1. l' = NewServer /\ localFresh' = FALSE /\ pc' = "idle" /\ cache' = cache
      BY <2>7 DEF UpdateStatus, Forget
    <3>2. CASE Observed(l, p) = l
      BY <1>0, <2>7, <3>1, <3>2 DEF UpdateStatus, ServerCopies
    <3>3. CASE Observed(l, p) # l
      <4>1. gs' = Observed(l, p) /\ cacheFresh' = FALSE /\ l \in GameServers
        BY <2>7, <3>3 DEF UpdateStatus, TypeOK
      <4>2. /\ gs'.recent = IF WantsDown(l) THEN {} ELSE l.recent
            /\ gs'.state = l.state /\ gs'.suspended = l.suspended
        BY <4>1, ObservedWrites
      <4>3. IsFiniteSet(gs'.recent)
        BY <4>2, FS_EmptySet DEF ServerCopies
      <4> QED BY <1>0, <3>1, <4>1, <4>2, <4>3 DEF ServerCopies
    <3> QED BY <3>2, <3>3
  <2>8. CASE OperatorRestarts
    BY <1>0, <2>8 DEF OperatorRestarts, Forget, ServerCopies
  <2>9. CASE SeeGameServer
    BY <2>9 DEF SeeGameServer, ServerCopies
  <2>10. CASE SeePod \/ TimerFires \/ Kubelet
    <3>1. UNCHANGED <<gs, cache, cacheFresh, l, localFresh, pc>>
      BY <2>10, KubeletKeeps DEF SeePod, TimerFires
    <3> QED BY <3>1 DEF ServerCopies
  <2>11. CASE PanelRequest
    <3>1. IsFiniteSet(gs'.recent) /\ (gs'.suspended => gs'.state = "Stopped")
      BY <2>11, RequestWrites DEF ServerCopies, TypeOK
    <3> QED BY <2>11, <3>1, RequestKeeps DEF ServerCopies
  <2>12. CASE UNCHANGED vars
    BY <2>12 DEF vars, ServerCopies
  <2> QED
    BY <2>1, <2>2, <2>3, <2>4, <2>5, <2>6, <2>7, <2>8, <2>9, <2>10, <2>11, <2>12,
       FailuresGiveBack DEF Next, Reconcile
<1> QED BY <1>1, <1>2, TypeCorrect, PTL DEF Spec

-----------------------------------------------------------------------------
(* Layer three: the order of crashes, and the crash log.                    *)

(* The times and counts in the state are natural numbers.                   *)
LEMMA Numbers ==
  ASSUME TypeOK
  PROVE  /\ \A g \in {gs, cache, l} : /\ g.lastCrash \in Nat /\ g.starts \in Nat
                                     /\ g.recent \subseteq Nat
                                     /\ g.state \in {"Running", "Stopped"}
         /\ \A q \in {pod, podCache, p} : q.at \in Nat
         /\ \A x \in restarted : x[1] \in Nat /\ x[2] \in Nat
         /\ crashLog \in Nat /\ now \in Nat
BY DEF TypeOK, GameServers, Pods

(* Everything Times speaks of but the clock is left alone, or the Pod's      *)
(* copies and the GameServer's are exchanged for one another.               *)
Reshuffled ==
  /\ UNCHANGED <<crashLog, restarted>> /\ now' \in Nat /\ now' >= now
  /\ gs'.lastCrash = gs.lastCrash /\ gs'.starts \in Nat /\ gs'.starts >= gs.starts
  /\ \A g \in {cache', l'} : g.starts <= gs'.starts
  /\ \A q \in {pod', podCache', p'} :
       ~Ended(q) \/ \E r \in {pod, podCache, p} : q.exit = r.exit /\ q.at = r.at
  /\ \A g \in {gs', cache', l'} :
       g.lastCrash = 0 \/ \E h \in {gs, cache, l} : g.lastCrash = h.lastCrash

(* Steps that only move copies about keep the order of times.               *)
LEMMA TimesReshuffled ==
  ASSUME TypeOK, Times, Reshuffled, pc' = "record" => p'.at <= crashLog
  PROVE  Times'
<1>1. /\ crashLog' <= now' /\ gs'.lastCrash <= now'
      /\ \A x \in restarted' : x[1] <= gs'.starts /\ x[2] <= now'
  BY Numbers DEF Times, Reshuffled
<1>2. ASSUME NEW q \in {pod', podCache', p'}, Ended(q)
      PROVE  /\ q.at <= now' /\ crashLog' <= q.at /\ gs'.lastCrash <= q.at
             /\ \A x \in restarted' : x[2] <= q.at
  <2>1. PICK r \in {pod, podCache, p} : q.exit = r.exit /\ q.at = r.at
    BY <1>2 DEF Reshuffled
  <2>2. Ended(r)
    BY <1>2, <2>1 DEF Ended
  <2> QED BY <2>1, <2>2, Numbers DEF Times, Reshuffled
<1>3. /\ \A g \in {gs', cache', l'} : g.lastCrash <= crashLog'
      /\ \A g \in {cache', l'} : g.starts <= gs'.starts
  BY Numbers DEF Times, Reshuffled
<1> QED BY <1>1, <1>2, <1>3 DEF Times, Reshuffled

(* saveCrashLog comes before the status: no recorded crash is newer than    *)
(* the log, and none is newer than the exit at hand.                        *)
THEOREM TimesHold == Spec => []Times
<1> USE DEF apiVars, cacheVars, queueVars, localVars, historyVars
<1>1. Init => Times
  <2> SUFFICES ASSUME Init PROVE Times
    OBVIOUS
  <2>1. NewServer.lastCrash = 0 /\ NewServer.starts = 0 /\ ~Ended(NoPod)
    BY DEF NewServer, NoPod, Never, Ended
  <2>2. /\ l = NewServer
        /\ pod = NoPod /\ podCache = NoPod /\ p = NoPod
        /\ crashLog = 0 /\ now = 0 /\ restarted = {} /\ pc # "record"
    BY DEF Init, Never
  <2> QED BY <2>1, <2>2, Began DEF Times
<1>2. TypeOK /\ PodCopies /\ ServerCopies /\ Times /\ [Next]_vars => Times'
  <2> SUFFICES ASSUME TypeOK, PodCopies, ServerCopies, Times, [Next]_vars PROVE Times'
    OBVIOUS
  <2>a. NewServer.lastCrash = 0 /\ NewServer.starts = 0 /\ ~Ended(NoPod)
    BY DEF NewServer, NoPod, Never, Ended
  <2>1. CASE BeginReconcile
    <3>1. UNCHANGED <<gs, cache, podCache, crashLog, restarted, now>> /\ l' = cache
      BY <2>1 DEF BeginReconcile
    <3>2. /\ p' \in {NoPod, podCache} \/ ~Ended(p')
          /\ ~Ended(pod') \/ (pod'.exit = pod.exit /\ pod'.at = pod.at)
      <4>1. CASE NothingToRun
        BY <4>1 DEF NothingToRun
      <4>2. CASE EndPod
        BY <4>2, DeleteKeeps DEF EndPod, TypeOK
      <4>3. CASE KeepPod
        BY <4>3 DEF KeepPod
      <4>4. CASE CreatePod
        BY <4>4 DEF CreatePod, buildPod, NoPod, Ended
      <4> QED BY <2>1, <4>1, <4>2, <4>3, <4>4 DEF BeginReconcile
    <3>3. Reshuffled
      BY <3>1, <3>2, <2>a, Numbers DEF Reshuffled, Times
    <3>4. pc' = "record" => p'.at = cache.lastCrash
      BY <2>1 DEF BeginReconcile, Goto, CrashStep
    <3>5. pc' = "record" => p'.at <= crashLog
      BY <3>4 DEF Times
    <3> QED BY <3>3, <3>5, TimesReshuffled
  <2>2. CASE GivesBack
    <3>1. Reshuffled /\ pc' = "idle"
      BY <2>2, <2>a, Numbers DEF GivesBack, Forget, Reshuffled, Times
    <3> QED BY <3>1, TimesReshuffled
  <2>3. CASE SaveCrashLog
    <3>1. /\ UNCHANGED <<gs, cache, l, pod, podCache, p, restarted, now>>
          /\ crashLog' = p.at /\ Ended(p)
      BY <2>3 DEF SaveCrashLog, PodCopies
    <3>2. crashLog <= p.at /\ p.at <= now
      BY <3>1 DEF Times
    <3>3. \A q \in {pod, podCache, p} : Ended(q) => q.at = p.at
      BY <3>1 DEF PodCopies
    <3>4. \A g \in {gs, cache, l} : g.lastCrash <= p.at
      BY <3>2, Numbers DEF Times
    <3> QED BY <3>1, <3>2, <3>3, <3>4, Numbers DEF Times
  <2>4. CASE RecordCrash
    <3>1. /\ UNCHANGED <<cache, pod, podCache, p, restarted, crashLog>> /\ Ended(p)
          /\ pc' # "record"
      BY <2>4 DEF RecordCrash, PodCopies, Goto
    <3>2. p.at \in Nat /\ l \in GameServers /\ p.at <= crashLog /\ p.at <= now
      BY <2>4, <3>1, Numbers DEF TypeOK, Times, RecordCrash
    <3>3. now' \in Nat /\ now' >= now
      <4>1. RestartTime(l, p.at) \in Nat
        BY <3>2, PolicyAssumption DEF RestartTime, restartDelay
      <4> QED BY <2>4, <4>1, Numbers DEF RecordCrash
    <3>4. CASE UNCHANGED <<gs, l>>
      <4>1. Reshuffled
        BY <3>1, <3>3, <3>4, Numbers DEF Reshuffled, Times
      <4> QED BY <4>1, <3>1, TimesReshuffled
    <3>5. CASE gs' = Recorded(l, p.at) /\ l' = gs' /\ localFresh
      <4>1. gs'.lastCrash = p.at /\ gs'.starts = gs.starts
        BY <3>2, <3>5, RecordedWrites DEF ServerCopies
      <4>2. \A q \in {pod, podCache, p} : Ended(q) => q.at = p.at
        BY <3>1 DEF PodCopies
      <4> QED BY <3>1, <3>2, <3>3, <3>5, <4>1, <4>2, Numbers DEF Times
    <3> QED BY <2>4, <3>4, <3>5 DEF RecordCrash, Write
  <2>5. CASE RestartCrashed
    <3>1. /\ UNCHANGED <<gs, cache, l, podCache, p, crashLog, now>> /\ Ended(p)
          /\ pc' = "status" /\ restarted' = restarted \cup {<<l.starts, p.at>>}
          /\ pod'.exit = pod.exit /\ pod'.at = pod.at
      BY <2>5, DeleteKeeps DEF RestartCrashed, PodCopies, Goto, TypeOK
    <3>2. \A q \in {pod, podCache, p} : Ended(q) => q.at = p.at
      BY <3>1 DEF PodCopies
    <3>3. p.at <= now /\ l.starts <= gs.starts
      BY <3>1 DEF Times
    <3> QED BY <3>1, <3>2, <3>3, Numbers DEF Times, Ended
  <2>6. CASE RemoveDeadPod
    <3>1. Reshuffled /\ pc' = "status"
      BY <2>6, DeleteKeeps, Numbers DEF RemoveDeadPod, Goto, Reshuffled, Times, TypeOK
    <3> QED BY <3>1, TimesReshuffled
  <2>7. CASE StopAfterExit
    <3>1. /\ gs'.lastCrash = l.lastCrash /\ gs'.starts = l.starts /\ l' = gs'
          /\ l = gs /\ UNCHANGED <<cache, pod, podCache, p, restarted, crashLog, now>>
      BY <2>7, StoppedWrites DEF StopAfterExit, ServerCopies, TypeOK
    <3>2. Reshuffled /\ pc' = "remove"
      BY <2>7, <3>1, Numbers DEF StopAfterExit, Goto, Reshuffled, Times
    <3> QED BY <3>2, TimesReshuffled
  <2>8. CASE UpdateStatus
    <3>1. gs'.lastCrash = gs.lastCrash /\ gs'.starts = gs.starts
      BY <2>8, ObservedWrites DEF UpdateStatus, ServerCopies, TypeOK
    <3>2. Reshuffled /\ pc' = "idle"
      BY <2>8, <2>a, <3>1, Numbers DEF UpdateStatus, Forget, Reshuffled, Times
    <3> QED BY <3>2, TimesReshuffled
  <2>9. CASE OperatorRestarts
    <3>1. Reshuffled /\ pc' = "idle"
      BY <2>9, <2>a, Numbers DEF OperatorRestarts, Forget, Reshuffled, Times
    <3> QED BY <3>1, TimesReshuffled
  <2>10. CASE SeeGameServer \/ SeePod \/ TimerFires \/ UNCHANGED vars
    <3>1. Reshuffled /\ UNCHANGED <<pc, p, crashLog>>
      BY <2>10, Numbers DEF SeeGameServer, SeePod, TimerFires, vars, Reshuffled, Times, TypeOK
    <3>2. pc' = "record" => p'.at <= crashLog
      BY <3>1 DEF Times
    <3> QED BY <3>1, <3>2, TimesReshuffled
  <2>11. CASE PanelRequest
    <3>1. gs'.lastCrash = gs.lastCrash /\ gs'.starts \in {gs.starts, gs.starts + 1}
      BY <2>11, RequestWrites DEF TypeOK
    <3>2. Reshuffled /\ UNCHANGED <<pc, p, crashLog>>
      BY <2>11, <3>1, RequestKeeps, Numbers DEF Reshuffled, Times
    <3>3. pc' = "record" => p'.at <= crashLog
      BY <3>2 DEF Times
    <3> QED BY <3>2, <3>3, TimesReshuffled
  <2>12. CASE RunPod \/ PodFails \/ PodGone
    <3>1. UNCHANGED <<gs, cache, podCache, l, p, pc, crashLog, restarted>>
      BY <2>12, KubeletKeeps DEF Kubelet
    <3>2. now' = now /\ (~Ended(pod') \/ (pod'.exit = pod.exit /\ pod'.at = pod.at))
      BY <2>12, <2>a DEF RunPod, PodFails, PodGone, PodStep, TypeOK, Pods
    <3>3. Reshuffled
      BY <3>1, <3>2, Numbers DEF Reshuffled, Times
    <3>4. pc' = "record" => p'.at <= crashLog
      BY <3>1 DEF Times
    <3> QED BY <3>3, <3>4, TimesReshuffled
  <2>13. CASE GameExits
    <3>1. UNCHANGED <<gs, cache, podCache, l, p, pc, crashLog, restarted>>
      BY <2>13, KubeletKeeps DEF Kubelet
    <3>2. pod'.at = now' /\ now' \in Nat /\ now' > now
      BY <2>13, Numbers, BoundsAssumption DEF GameExits, TypeOK, Pods
    <3> QED BY <3>1, <3>2, Numbers DEF Times
  <2> QED
    BY <2>1, <2>2, <2>3, <2>4, <2>5, <2>6, <2>7, <2>8, <2>9, <2>10, <2>11, <2>12,
       <2>13, FailuresGiveBack DEF Next, Reconcile, Kubelet
<1> QED BY <1>1, <1>2, TypeCorrect, PodCopiesHold, ServerCopiesHold, PTL DEF Spec

(* LastCrashHasLog: the crash log is of the crash status.lastCrash names,   *)
(* or of a later one.                                                       *)
THEOREM LastCrashLogged == Spec => []LastCrashHasLog
<1>1. Times => LastCrashHasLog
  BY DEF Times, LastCrashHasLog
<1> QED BY <1>1, TimesHold, PTL

-----------------------------------------------------------------------------
(* Layer four: the budget.                                                  *)

(* The clauses of Budget for the GameServer and for a copy of it.           *)
LEMMA KeptCounts ==
  ASSUME TypeOK, Times, Ended(p), NEW r \in SUBSET Nat, NEW u \in Nat,
         u \in r \/ gs.lastCrash - u >= Window
  PROVE  u \in Kept(r, p.at) \/ p.at - u >= Window
BY Numbers, PolicyAssumption DEF Times, Kept

(* Every crash answered with a restart still counts in the copy             *)
(* decideCrash reads, until it leaves the window.                           *)
THEOREM BudgetHolds == Spec => []Budget
<1> USE DEF apiVars, cacheVars, queueVars, localVars, historyVars
<1>0. /\ NewServer.lastCrash = 0 /\ NewServer.starts = 0 /\ NewServer.recent = {}
  BY DEF NewServer, Never
<1>1. Init => Budget
  <2> SUFFICES ASSUME Init PROVE Budget
    OBVIOUS
  <2>1. cache = gs /\ l = NewServer /\ restarted = {} /\ pc = "idle"
    BY DEF Init
  <2>2. gs.lastCrash = 0 /\ gs.starts = 0 /\ gs.recent = {}
    BY Began
  <2> QED BY <1>0, <2>1, <2>2 DEF Budget
<1>2. TypeOK /\ PodCopies /\ ServerCopies /\ Times /\ Budget /\ [Next]_vars => Budget'
  <2> SUFFICES ASSUME TypeOK, PodCopies, ServerCopies, Times, Budget, [Next]_vars
               PROVE  Budget'
    OBVIOUS
  <2>1. CASE BeginReconcile
    <3>1. UNCHANGED <<gs, cache, restarted>> /\ l' = cache /\ pc' # "restart"
      BY <2>1 DEF BeginReconcile, Goto, CrashStep
    <3> QED BY <3>1 DEF Budget, Counted
  <2>2. CASE GivesBack
    <3>1. UNCHANGED <<gs, cache, restarted>> /\ l' = NewServer /\ pc' # "restart"
      BY <2>2 DEF GivesBack, Forget
    <3> QED BY <1>0, <3>1, Numbers DEF Budget, Counted
  <2>3. CASE SaveCrashLog \/ RemoveDeadPod
    <3>1. UNCHANGED <<gs, cache, l, restarted>> /\ pc' # "restart"
      BY <2>3 DEF SaveCrashLog, RemoveDeadPod, Goto
    <3> QED BY <3>1 DEF Budget, Counted
  <2>4. CASE RecordCrash
    <3>1. /\ UNCHANGED <<cache, p, restarted>> /\ Ended(p) /\ l.state = "Running"
          /\ p.at \in Nat /\ l \in GameServers
      BY <2>4, Numbers DEF RecordCrash, PodCopies, ServerCopies, TypeOK
    <3>2. \A x \in restarted : x[2] <= p.at
      BY <3>1 DEF Times
    <3>3. ASSUME pc' = "restart"
          PROVE  p.at \in Kept(l.recent, p.at) /\ Cardinality(Kept(l.recent, p.at)) < Limit
      <4>1. ~GivesUp(l, p.at)
        BY <2>4, <3>3 DEF RecordCrash, Goto
      <4>2. IsFiniteSet(Kept(l.recent, p.at))
        BY KeptFinite DEF ServerCopies
      <4>3. Cardinality(Kept(l.recent, p.at)) \in Nat
        BY <4>2, FS_CardinalityType
      <4> QED BY <4>1, <4>3, PolicyAssumption DEF GivesUp, Kept
    <3>4. CASE Recorded(l, p.at) = l
      <4>1. UNCHANGED <<gs, l>> /\ l.lastCrash = p.at /\ l.recent = Kept(l.recent, p.at)
        BY <2>4, <3>1, <3>4, RecordedWrites DEF RecordCrash
      <4>2. p.at \in l.recent
        BY <4>1 DEF Kept
      <4>3. \A x \in restarted : x[1] = l.starts /\ p.at - x[2] < Window => x[2] \in l.recent
        BY <3>1, <3>2, <4>1, <4>2, Numbers, PolicyAssumption DEF Budget, Counted
      <4> QED BY <3>1, <3>3, <4>1, <4>3 DEF Budget, Counted
    <3>5. CASE Recorded(l, p.at) # l
      <4>1. l = gs /\ gs' = Recorded(gs, p.at) /\ l' = gs'
        BY <2>4, <3>5 DEF RecordCrash, Write, ServerCopies
      <4>2. /\ gs'.recent = Kept(gs.recent, p.at) /\ gs'.lastCrash = p.at
            /\ gs'.starts = gs.starts /\ gs'.state = "Running" /\ gs.state = "Running"
        BY <3>1, <4>1, RecordedWrites
      <4>3. gs.lastCrash <= p.at
        BY <3>1 DEF Times
      <4>4. ASSUME NEW u \in Nat, Counted(gs, u)
            PROVE  u \in gs'.recent \/ p.at - u >= Window
        <5>1. gs.recent \in SUBSET Nat
          BY Numbers
        <5> QED BY <3>1, <4>2, <4>4, <5>1, KeptCounts DEF Counted
      <4>5. \A x \in restarted :
              x[1] = gs.starts => x[2] \in gs'.recent \/ p.at - x[2] >= Window
        BY <4>4, Numbers DEF Budget
      <4>6. cache.starts = gs.starts =>
              \A u \in cache.recent : u \in gs'.recent \/ p.at - u >= Window
        BY <4>4, Numbers DEF Budget
      <4>7. p.at \in Kept(l.recent, p.at) /\ p.at - p.at < Window
        BY <3>1, PolicyAssumption DEF Kept
      <4>8. \A x \in restarted' : x[1] = gs'.starts => Counted(gs', x[2])
        BY <3>1, <4>2, <4>5 DEF Counted
      <4>9. /\ cache'.lastCrash <= gs'.lastCrash /\ cache'.starts <= gs'.starts
            /\ cache'.starts = gs'.starts => \A u \in cache'.recent : Counted(gs', u)
            /\ cache'.lastCrash \in cache'.recent =>
                 \A x \in restarted' : x[1] = cache'.starts /\ x[2] <= cache'.lastCrash
                   => Counted(cache', x[2])
        BY <3>1, <4>2, <4>3, <4>6, Numbers DEF Budget, Counted
      <4>10. /\ l'.lastCrash <= gs'.lastCrash /\ l'.starts <= gs'.starts
             /\ l'.starts = gs'.starts => \A u \in l'.recent : Counted(gs', u)
             /\ l'.lastCrash \in l'.recent =>
                 \A x \in restarted' : x[1] = l'.starts /\ x[2] <= l'.lastCrash
                   => Counted(l', x[2])
        BY <3>1, <4>1, <4>2, <4>8, Numbers DEF Counted
      <4>11. pc' = "restart" =>
              /\ p'.at \in l'.recent /\ Cardinality(l'.recent) < Limit
              /\ \A x \in restarted' :
                   x[1] = l'.starts /\ p'.at - x[2] < Window => x[2] \in l'.recent
        BY <3>1, <3>3, <4>1, <4>2, <4>5, Numbers, PolicyAssumption
      <4> QED BY <4>8, <4>9, <4>10, <4>11 DEF Budget
    <3> QED BY <3>4, <3>5
  <2>5. CASE RestartCrashed
    <3>1. /\ UNCHANGED <<gs, cache, l, p>> /\ Ended(p) /\ pc = "restart" /\ pc' = "status"
          /\ restarted' = restarted \cup {<<l.starts, p.at>>}
      BY <2>5 DEF RestartCrashed, PodCopies, Goto
    <3>2. p.at \in l.recent
      BY <3>1 DEF Budget
    <3>3. l.starts = gs.starts => Counted(gs, p.at)
      BY <3>2 DEF Budget
    <3>4. /\ p.at <= cache.lastCrash /\ cache.lastCrash \in cache.recent
             => Counted(cache, p.at)
          /\ Counted(l, p.at)
      <4>1. cache.lastCrash <= gs.lastCrash /\ gs.lastCrash <= p.at
        BY <3>1 DEF Budget, Times
      <4> QED BY <3>2, <4>1, Numbers DEF Counted
    <3> QED BY <3>1, <3>3, <3>4 DEF Budget, Counted
  <2>6. CASE StopAfterExit
    <3>1. /\ l = gs /\ l' = gs' /\ UNCHANGED <<cache, restarted>> /\ pc' = "remove"
          /\ gs'.starts = gs.starts /\ gs'.lastCrash = gs.lastCrash
          /\ gs'.state = "Stopped"
      BY <2>6, StoppedWrites DEF StopAfterExit, Goto, ServerCopies, TypeOK
    <3> QED BY <3>1, Numbers DEF Budget, Counted
  <2>7. CASE UpdateStatus
    <3>1. UNCHANGED <<cache, restarted>> /\ l' = NewServer /\ pc' = "idle"
      BY <2>7 DEF UpdateStatus, Forget
    <3>2. /\ gs'.lastCrash = gs.lastCrash /\ gs'.starts = gs.starts
          /\ gs'.state = gs.state /\ (gs.state # "Stopped" => gs'.recent = gs.recent)
      <4>1. l = gs => (WantsDown(l) => gs.state = "Stopped")
        BY DEF WantsDown, ServerCopies
      <4> QED BY <2>7, <4>1, ObservedWrites DEF UpdateStatus, ServerCopies, TypeOK
    <3>3. \A u : Counted(gs, u) => Counted(gs', u)
      BY <3>2 DEF Counted
    <3> QED BY <1>0, <3>1, <3>2, <3>3, Numbers DEF Budget, Counted
  <2>8. CASE OperatorRestarts
    <3>1. /\ UNCHANGED <<gs, restarted>> /\ l' = NewServer /\ pc' = "idle"
          /\ cache' = gs
      BY <2>8 DEF OperatorRestarts, Forget
    <3> QED BY <1>0, <3>1, Numbers DEF Budget, Counted
  <2>9. CASE SeeGameServer
    <3>1. UNCHANGED <<gs, restarted, l, p, pc>> /\ cache' = gs
      BY <2>9 DEF SeeGameServer
    <3> QED BY <3>1, Numbers DEF Budget, Counted
  <2>10. CASE SeePod \/ TimerFires \/ Kubelet \/ UNCHANGED vars
    <3>1. UNCHANGED <<gs, cache, restarted, l, p, pc>>
      BY <2>10, KubeletKeeps DEF SeePod, TimerFires, vars
    <3> QED BY <3>1 DEF Budget, Counted
  <2>11. CASE PanelRequest
    <3>1. UNCHANGED <<cache, restarted, l, p, pc>>
      BY <2>11, RequestKeeps
    <3>2. gs'.recent = gs.recent /\ gs'.lastCrash = gs.lastCrash
      BY <2>11, RequestWrites DEF TypeOK
    <3>3. CASE gs'.starts = gs.starts /\ gs'.state \in {gs.state, "Stopped"}
      BY <3>1, <3>2, <3>3 DEF Budget, Counted
    <3>4. CASE gs'.starts = gs.starts + 1
      BY <3>1, <3>2, <3>4, Numbers DEF Budget, Counted, Times
    <3> QED BY <2>11, <3>3, <3>4, RequestWrites DEF TypeOK
  <2> QED
    BY <2>1, <2>2, <2>3, <2>4, <2>5, <2>6, <2>7, <2>8, <2>9, <2>10, <2>11,
       FailuresGiveBack DEF Next, Reconcile
<1> QED BY <1>1, <1>2, TypeCorrect, PodCopiesHold, ServerCopiesHold, TimesHold, PTL DEF Spec

(* RestartsBounded: between two Starts at most Limit - 1 crashes of one     *)
(* Window are answered with a restart.                                      *)
THEOREM CrashBudget == Spec => []RestartsBounded
<1> USE DEF apiVars, cacheVars, queueVars, localVars, historyVars
<1>1. Init => RestartsBounded
  BY DEF Init, RestartsBounded
<1>2. TypeOK /\ PodCopies /\ ServerCopies /\ Times /\ Budget /\ RestartsBounded
        /\ [Next]_vars => RestartsBounded'
  <2> SUFFICES ASSUME TypeOK, PodCopies, ServerCopies, Times, Budget, RestartsBounded,
                      [Next]_vars
               PROVE  RestartsBounded'
    OBVIOUS
  <2>1. CASE RestartCrashed
    <3> DEFINE new == <<l.starts, p.at>>
    <3>1. /\ Ended(p) /\ pc = "restart" /\ restarted' = restarted \cup {new}
          /\ UNCHANGED <<l, p>>
      BY <2>1 DEF RestartCrashed, PodCopies
    <3>2. /\ p.at \in l.recent /\ Cardinality(l.recent) < Limit
          /\ \A x \in restarted :
               x[1] = l.starts /\ p.at - x[2] < Window => x[2] \in l.recent
      BY <3>1 DEF Budget
    <3>3. restarted \subseteq Nat \X Nat
      BY DEF TypeOK
    <3>4. Cardinality(SameWindow(new)') < Limit
      <4>1. SameWindow(new)' \subseteq {l.starts} \X l.recent
        BY <3>1, <3>2, <3>3 DEF SameWindow
      <4>2. /\ IsFiniteSet({l.starts}) /\ Cardinality({l.starts}) = 1
            /\ IsFiniteSet(l.recent) /\ Cardinality(l.recent) \in Nat
        BY FS_Singleton, FS_CardinalityType DEF ServerCopies
      <4>3. /\ IsFiniteSet({l.starts} \X l.recent)
            /\ Cardinality({l.starts} \X l.recent) = 1 * Cardinality(l.recent)
        BY <4>2, FS_Product
      <4>4. /\ Cardinality(SameWindow(new)') <= Cardinality({l.starts} \X l.recent)
            /\ Cardinality(SameWindow(new)') \in Nat
        BY <4>1, <4>3, FS_Subset, FS_CardinalityType
      <4> QED BY <3>2, <4>2, <4>3, <4>4, PolicyAssumption
    <3>5. ASSUME NEW x \in restarted, x # new
          PROVE  SameWindow(x)' = SameWindow(x)
      <4>1. x[2] <= p.at /\ x = <<x[1], x[2]>>
        BY <3>1, <3>3 DEF Times
      <4>2. ~(new[1] = x[1] /\ new[2] <= x[2])
        BY <3>5, <4>1, Numbers
      <4> QED BY <3>1, <4>2 DEF SameWindow
    <3>6. ASSUME NEW x \in restarted' PROVE Cardinality(SameWindow(x)') < Limit
      <4>1. CASE x = new
        BY <3>1, <3>4, <4>1 DEF SameWindow
      <4>2. CASE x # new
        BY <3>1, <3>5, <4>2 DEF RestartsBounded
      <4> QED BY <4>1, <4>2
    <3> QED BY <3>6 DEF RestartsBounded
  <2>2. CASE UNCHANGED restarted
    BY <2>2 DEF RestartsBounded, SameWindow
  <2>3. RestartCrashed \/ UNCHANGED restarted
    <3>1. CASE Reconcile
      BY <3>1 DEF Reconcile, BeginReconcile, CreateConflicts, SaveCrashLog, RecordCrash,
         RecordConflicts, StopAfterExit, StopConflicts, RemoveDeadPod, UpdateStatus,
         StatusConflicts
    <3> QED BY <3>1, RequestKeeps, KubeletKeeps DEF Next, CallFails, OperatorRestarts,
         SeeGameServer, SeePod, TimerFires, vars
  <2> QED BY <2>1, <2>2, <2>3
<1> QED BY <1>1, <1>2, TypeCorrect, PodCopiesHold, ServerCopiesHold, TimesHold,
           BudgetHolds, PTL DEF Spec

-----------------------------------------------------------------------------
(* Layer five: what the worker knows of the Pod it deals with.              *)

(* Copies of the Pod that exist at once are copies of one Pod, those that   *)
(* have ended tell of one end, and a crash at hand past the log step is the *)
(* one in the crash log.                                                    *)
PodKnown ==
  /\ \A q, r \in {pod, podCache, p} : Ended(q) /\ Ended(r) => q.exit = r.exit
  /\ pc \in {"stop", "remove"} => Ended(p)
  /\ pc \in {"log", "record", "restart"} => p.exit = "crash"
  /\ pc \in {"log", "record"} => ~p.deleting
  /\ pc \in {"record", "restart", "stop", "remove"} /\ p.exit = "crash" => p.at = crashLog
  /\ pod.exists /\ podCache.exists => pod.asks = podCache.asks /\ pod.stamp = podCache.stamp

(* Deleting a Pod changes nothing it was built with.                        *)
LEMMA DeleteKeepsStamp ==
  ASSUME pod \in Pods, DeletePod
  PROVE  pod'.exists = pod.exists /\ pod'.asks = pod.asks /\ pod'.stamp = pod.stamp
BY DEF DeletePod, Pods

(* The kubelet starts no Pod: one that exists afterwards was there before,  *)
(* and only the end of the game is news about it.                           *)
LEMMA KubeletPod ==
  ASSUME pod \in Pods, Kubelet
  PROVE  \/ pod' = NoPod
         \/ /\ pod.exists /\ pod'.exists
            /\ pod'.asks = pod.asks /\ pod'.stamp = pod.stamp /\ pod'.deleting = pod.deleting
            /\ (pod'.exit = pod.exit /\ pod'.at = pod.at) \/ ~Ended(pod)
<1> USE DEF Pods, Ended
<1>1. CASE RunPod   BY <1>1 DEF RunPod, PodStep
<1>2. CASE PodFails   BY <1>2 DEF PodFails, PodStep
<1>3. CASE GameExits   BY <1>3 DEF GameExits
<1>4. CASE PodGone   BY <1>4 DEF PodGone, PodStep
<1> QED BY <1>1, <1>2, <1>3, <1>4 DEF Kubelet

(* The Pod a reconcile works on is the cached one, the one it has just      *)
(* made, or none.                                                           *)
LEMMA ReadPod ==
  ASSUME TypeOK, BeginReconcile
  PROVE  /\ p' \in {NoPod, podCache} \/ ~Ended(p')
         /\ \/ /\ pod'.exists = pod.exists /\ pod'.asks = pod.asks /\ pod'.stamp = pod.stamp
               /\ pod'.exit = pod.exit /\ pod'.at = pod.at
            \/ /\ ~podCache.exists /\ ~pod.exists /\ pod' = buildPod(cache)
               /\ ~WantsDown(cache) /\ ~Ended(pod')
<1>1. CASE NothingToRun
  BY <1>1 DEF NothingToRun
<1>2. CASE EndPod
  BY <1>2, DeleteKeeps, DeleteKeepsStamp DEF EndPod, TypeOK
<1>3. CASE KeepPod
  BY <1>3 DEF KeepPod
<1>4. CASE CreatePod
  BY <1>4 DEF CreatePod, buildPod, NoPod, Ended
<1> QED BY <1>1, <1>2, <1>3, <1>4 DEF BeginReconcile

(* The worker treats as crashed a Pod that ended, crashed, and was not      *)
(* being deleted, and its crash log is written first.                       *)
THEOREM PodKnownHolds == Spec => []PodKnown
<1> USE DEF apiVars, cacheVars, queueVars, localVars, historyVars
<1>0. ~Ended(NoPod) /\ ~NoPod.exists
  BY DEF NoPod, Ended
<1>1. Init => PodKnown
  BY DEF Init, PodKnown, Ended, NoPod
<1>2. TypeOK /\ PodCopies /\ Times /\ PodKnown /\ [Next]_vars => PodKnown'
  <2> SUFFICES ASSUME TypeOK, PodCopies, Times, PodKnown, [Next]_vars PROVE PodKnown'
    OBVIOUS
  <2>1. CASE BeginReconcile
    <3>1. UNCHANGED <<podCache, crashLog>> /\ l' = cache
      BY <2>1 DEF BeginReconcile
    <3>2. \A q, r \in {pod, podCache, p}' : Ended(q) /\ Ended(r) => q.exit = r.exit
      BY <1>0, <2>1, <3>1, ReadPod DEF PodKnown, Ended
    <3>3. pc' = CrashStep(l', p')
      BY <2>1 DEF BeginReconcile, Goto
    <3>4. pc' \notin {"restart", "remove"} /\ (pc' = "stop" => Ended(p') /\ p'.exit = "clean")
          /\ (pc' \in {"log", "record"} => Ended(p') /\ ~p'.deleting /\ p'.exit # "clean")
          /\ (pc' = "record" => cache.lastCrash = p'.at)
      BY <3>1, <3>3 DEF CrashStep, crashedPod, Ended
    <3>5. p' \in Pods
      BY <2>1, NewTypes, BuildPodType DEF BeginReconcile, NothingToRun, EndPod, KeepPod,
         CreatePod, TypeOK
    <3>6. pc' \in {"log", "record"} => p'.exit = "crash"
      BY <3>4, <3>5 DEF Pods, Ended
    <3>7. pc' = "record" => p'.at = crashLog'
      <4> SUFFICES ASSUME pc' = "record" PROVE p'.at = crashLog'
        OBVIOUS
      <4>1. Ended(p') /\ p' = podCache
        BY <1>0, <2>1, <3>4, ReadPod
      <4> QED BY <3>1, <3>4, <4>1, Numbers DEF Times
    <3>8. pod'.exists /\ podCache'.exists =>
            pod'.asks = podCache'.asks /\ pod'.stamp = podCache'.stamp
      BY <2>1, <3>1, ReadPod DEF PodKnown
    <3> QED BY <3>2, <3>4, <3>6, <3>7, <3>8 DEF PodKnown
  <2>2. CASE GivesBack
    BY <1>0, <2>2 DEF GivesBack, Forget, PodKnown
  <2>3. CASE SaveCrashLog
    BY <2>3 DEF SaveCrashLog, Goto, PodKnown
  <2>4. CASE RecordCrash
    <3>1. /\ UNCHANGED <<pod, podCache, p, crashLog>> /\ pc = "record" /\ Ended(p)
          /\ pc' \in {"stop", "wait", "restart"}
      BY <2>4 DEF RecordCrash, Goto, PodCopies
    <3> QED BY <3>1 DEF PodKnown
  <2>5. CASE RestartCrashed \/ RemoveDeadPod
    <3>1. /\ pod'.exists = pod.exists /\ pod'.exit = pod.exit /\ pod'.at = pod.at
          /\ pod'.asks = pod.asks /\ pod'.stamp = pod.stamp
          /\ UNCHANGED <<podCache, p, crashLog>> /\ pc' = "status"
      BY <2>5, DeleteKeeps, DeleteKeepsStamp DEF RestartCrashed, RemoveDeadPod, Goto, TypeOK
    <3> QED BY <3>1 DEF PodKnown, Ended
  <2>6. CASE StopAfterExit
    BY <2>6 DEF StopAfterExit, Goto, PodKnown
  <2>7. CASE UpdateStatus \/ OperatorRestarts
    <3>1. /\ pc' = "idle" /\ p' = NoPod /\ pod' = pod /\ podCache' \in {podCache, pod}
      BY <2>7 DEF UpdateStatus, OperatorRestarts, Forget
    <3> QED BY <1>0, <3>1 DEF PodKnown
  <2>8. CASE SeeGameServer \/ SeePod \/ TimerFires \/ PanelRequest \/ UNCHANGED vars
    <3>1. UNCHANGED <<pod, p, pc, crashLog>> /\ podCache' \in {podCache, pod}
      BY <2>8, RequestKeeps DEF SeeGameServer, SeePod, TimerFires, vars
    <3> QED BY <3>1 DEF PodKnown
  <2>9. CASE Kubelet
    <3>1. UNCHANGED <<podCache, p, pc, crashLog>>
      BY <2>9, KubeletKeeps
    <3>2. CASE pod' = NoPod
      BY <1>0, <3>1, <3>2 DEF PodKnown
    <3>3. CASE /\ pod.exists /\ pod'.exists
               /\ pod'.asks = pod.asks /\ pod'.stamp = pod.stamp
               /\ pod'.exit = pod.exit \/ ~Ended(pod)
      BY <3>1, <3>3 DEF PodKnown, PodCopies, Ended
    <3> QED BY <2>9, <3>2, <3>3, KubeletPod DEF TypeOK
  <2> QED
    BY <2>1, <2>2, <2>3, <2>4, <2>5, <2>6, <2>7, <2>8, <2>9, FailuresGiveBack
       DEF Next, Reconcile
<1> QED BY <1>1, <1>2, TypeCorrect, PodCopiesHold, TimesHold, PTL DEF Spec

-----------------------------------------------------------------------------
(* Layer six: who asked for an end.                                         *)

(* g is as recent as h: a server that has come to be stopped, or to be      *)
(* restarted, since h has been asked to.                                    *)
Later(g, h) ==
  /\ h.asks <= g.asks
  /\ g.asks = h.asks => (WantsDown(g) => WantsDown(h)) /\ g.restartAt = h.restartAt

(* g is as recent as what q was built from.                                 *)
After(g, q) == q.exists =>
  /\ q.asks <= g.asks
  /\ g.asks = q.asks => ~WantsDown(g) /\ g.restartAt = q.stamp

Asked == Later(gs, cache) /\ After(cache, pod)

(* Versions of the GameServer are ordered by what they were asked.          *)
LEMMA LaterAfter ==
  ASSUME NEW f \in GameServers, NEW g \in GameServers, NEW h \in GameServers, Later(f, g)
  PROVE  /\ Later(g, h) => Later(f, h)
         /\ \A q \in Pods : After(g, q) => After(f, q)
BY DEF Later, After, GameServers, Pods

(* No version is older than itself.                                         *)
LEMMA LaterSelf ==
  ASSUME NEW g \in GameServers
  PROVE  Later(g, g)
BY DEF Later, GameServers

(* Every request that stops or restarts the server counts as asking.        *)
LEMMA RequestAsks ==
  ASSUME gs \in GameServers, PanelRequest, gs.suspended => gs.state = "Stopped"
  PROVE  Later(gs', gs)
<1> USE DEF Request, GameServers, Later, WantsDown
<1>1. CASE Start   BY <1>1 DEF Start
<1>2. CASE Stop   BY <1>2 DEF Stop
<1>3. CASE Restart   BY <1>3 DEF Restart
<1>4. CASE Suspend   BY <1>4 DEF Suspend
<1>5. CASE Unsuspend   BY <1>5 DEF Unsuspend
<1>6. CASE EditSpec   BY <1>6 DEF EditSpec
<1>7. CASE SetAutoRestart   BY <1>7 DEF SetAutoRestart
<1>8. CASE Reinstall
  <2>1. gs.asks + 1 > gs.asks
    BY DEF GameServers
  <2>2. CASE /\ gs.state = "Running"
             /\ gs' = [gs EXCEPT !.spec = events + 1, !.restartAt = events + 1, !.asks = @ + 1]
    <3>1. gs'.asks = gs.asks + 1
      BY <2>2
    <3> QED BY <2>1, <3>1
  <2>3. CASE gs' = [gs EXCEPT !.spec = events + 1]
    <3>1. /\ gs'.asks = gs.asks /\ gs'.restartAt = gs.restartAt
          /\ gs'.state = gs.state /\ gs'.suspended = gs.suspended
      BY <2>3
    <3> QED BY <3>1
  <2> QED BY <1>8, <2>2, <2>3 DEF Reinstall
<1> QED BY <1>1, <1>2, <1>3, <1>4, <1>5, <1>6, <1>7, <1>8 DEF PanelRequest

(* What the reconciler writes leaves the asking alone, but for              *)
(* stopAfterExit.                                                           *)
LEMMA WritesAsk ==
  ASSUME NEW g \in GameServers
  PROVE  /\ \A at : Later(Recorded(g, at), g) /\ Recorded(g, at).asks = g.asks
         /\ \A q : Later(Observed(g, q), g) /\ Observed(g, q).asks = g.asks
         /\ Later([g EXCEPT !.state = "Stopped", !.asks = g.asks + 1], g)
BY DEF Recorded, Observed, Later, GameServers, WantsDown

(* No step takes back what the server was asked.                            *)
LEMMA GrowsLater ==
  ASSUME TypeOK, ServerCopies, [Next]_vars
  PROVE  Later(gs', gs)
<1> USE DEF apiVars, cacheVars, queueVars, localVars, historyVars
<1>1. CASE UNCHANGED gs
  BY <1>1, LaterSelf DEF TypeOK
<1>2. CASE RecordCrash
  BY <1>1, <1>2, WritesAsk DEF RecordCrash, Write, ServerCopies, TypeOK
<1>3. CASE StopAfterExit
  BY <1>3, WritesAsk DEF StopAfterExit, Write, ServerCopies, TypeOK
<1>4. CASE UpdateStatus
  BY <1>1, <1>4, WritesAsk DEF UpdateStatus, ServerCopies, TypeOK
<1>5. CASE PanelRequest
  BY <1>5, RequestAsks DEF ServerCopies, TypeOK
<1>6. \/ RecordCrash \/ StopAfterExit \/ UpdateStatus \/ PanelRequest \/ UNCHANGED gs
  <2>1. CASE Reconcile
    BY <2>1, FailuresGiveBack DEF Reconcile, GivesBack, BeginReconcile, SaveCrashLog,
       RestartCrashed, RemoveDeadPod
  <2> QED BY <2>1, FailuresGiveBack, KubeletKeeps DEF Next, GivesBack, OperatorRestarts,
       SeeGameServer, SeePod, TimerFires, vars
<1> QED BY <1>1, <1>2, <1>3, <1>4, <1>5, <1>6

(* The cached server is as recent as what the Pod was built from.           *)
THEOREM AskedHolds == Spec => []Asked
<1> USE DEF apiVars, cacheVars, queueVars, localVars, historyVars
<1>1. Init => Asked
  <2> SUFFICES ASSUME Init PROVE Asked
    OBVIOUS
  <2>1. cache = gs /\ gs \in GameServers /\ ~pod.exists
    BY Began DEF Init, NoPod
  <2> QED BY <2>1, LaterSelf DEF Asked, After
<1>2. TypeOK /\ TypeOK' /\ ServerCopies /\ Asked /\ [Next]_vars => Asked'
  <2> SUFFICES ASSUME TypeOK, TypeOK', ServerCopies, Asked, [Next]_vars PROVE Asked'
    OBVIOUS
  <2>0. /\ gs \in GameServers /\ gs' \in GameServers /\ cache \in GameServers
        /\ pod \in Pods /\ pod' \in Pods /\ Later(gs', gs)
    BY GrowsLater DEF TypeOK
  <2>1. Later(gs', cache) /\ After(gs, pod)
    BY <2>0, LaterAfter DEF Asked
  <2>2. ASSUME cache' = cache, pod' = pod \/ ~pod'.exists
               \/ /\ pod.exists /\ pod'.asks = pod.asks /\ pod'.stamp = pod.stamp
        PROVE  Asked'
    BY <2>0, <2>1, <2>2 DEF Asked, After
  <2>3. ASSUME cache' = gs, gs' = gs, pod' = pod PROVE Asked'
    BY <2>0, <2>1, <2>3, LaterSelf DEF Asked
  <2>4. CASE BeginReconcile
    <3>1. CASE pod' = buildPod(cache) /\ ~WantsDown(cache)
      <4>1. pod'.asks = cache.asks /\ pod'.stamp = cache.restartAt
        BY <3>1 DEF buildPod, NoPod
      <4>2. cache' = cache
        BY <2>4 DEF BeginReconcile
      <4> QED BY <2>0, <2>1, <3>1, <4>1, <4>2 DEF Asked, After, GameServers
    <3>2. CASE pod'.exists = pod.exists /\ pod'.asks = pod.asks /\ pod'.stamp = pod.stamp
      BY <2>2, <2>4, <3>2 DEF BeginReconcile, Pods
    <3> QED BY <2>4, <3>1, <3>2, ReadPod
  <2>5. CASE RestartCrashed \/ RemoveDeadPod
    <3>1. pod'.exists = pod.exists /\ pod'.asks = pod.asks /\ pod'.stamp = pod.stamp
      BY <2>0, <2>5, DeleteKeepsStamp DEF RestartCrashed, RemoveDeadPod
    <3>2. cache' = cache /\ pod'.exists \in BOOLEAN
      BY <2>0, <2>5 DEF RestartCrashed, RemoveDeadPod, Pods
    <3> QED BY <2>2, <3>1, <3>2
  <2>6. CASE Kubelet
    <3>1. ~NoPod.exists
      BY DEF NoPod
    <3> QED BY <2>0, <2>2, <2>6, <3>1, KubeletKeeps, KubeletPod
  <2>7. CASE SeeGameServer \/ OperatorRestarts
    BY <2>3, <2>7 DEF SeeGameServer, OperatorRestarts
  <2>8. CASE UNCHANGED <<cache, pod>>
    BY <2>2, <2>8
  <2>9. \/ BeginReconcile \/ RestartCrashed \/ RemoveDeadPod \/ Kubelet
        \/ SeeGameServer \/ OperatorRestarts \/ UNCHANGED <<cache, pod>>
    <3>1. CASE Reconcile
      BY <3>1, FailuresGiveBack DEF Reconcile, GivesBack, SaveCrashLog, RecordCrash,
         StopAfterExit, UpdateStatus
    <3> QED BY <3>1, RequestKeeps, FailuresGiveBack DEF Next, GivesBack, SeePod,
         TimerFires, vars
  <2> QED BY <2>4, <2>5, <2>6, <2>7, <2>8, <2>9
<1> QED BY <1>1, <1>2, TypeCorrect, ServerCopiesHold, PTL DEF Spec

(* reconcilePod ends no Pod that nobody asked to end.                       *)
LEMMA EndAsked ==
  ASSUME TypeOK, PodKnown, Asked, EndPod, pod.exists
  PROVE  gs.asks > pod.asks
<1>1. podCache.exists /\ (WantsDown(cache) \/ cache.restartAt # podCache.stamp)
  BY DEF EndPod, restartRequested
<1>2. pod.stamp = podCache.stamp /\ After(cache, pod) /\ Later(gs, cache)
  BY <1>1 DEF PodKnown, Asked
<1>3. gs.asks \in Nat /\ cache.asks \in Nat /\ pod.asks \in Nat
  BY DEF TypeOK, GameServers, Pods
<1>4. cache.asks # pod.asks /\ pod.asks <= cache.asks /\ cache.asks <= gs.asks
  BY <1>1, <1>2 DEF After, Later
<1> QED BY <1>3, <1>4

(* Where a Pod can come to be deleted, and on what ground: the game at the  *)
(* worker's hands ended, or somebody asked.                                 *)
LEMMA DeletedFor ==
  ASSUME TypeOK, PodCopies, PodKnown, Asked, Next,
         pod.exists, ~pod.deleting, pod'.deleting
  PROVE  \/ gs.asks > pod.asks
         \/ /\ Ended(p) /\ Ended(pod)
            /\ pod.exit = "crash" => crashLog = pod.at
<1> USE DEF apiVars, cacheVars, queueVars, localVars, historyVars
<1>1. CASE BeginReconcile
  <2>1. EndPod
    BY <1>1 DEF BeginReconcile, NothingToRun, KeepPod, CreatePod
  <2> QED BY <2>1, EndAsked
<1>2. CASE RestartCrashed \/ RemoveDeadPod
  <2>1. Ended(p) /\ pc \in {"restart", "remove"}
    BY <1>2 DEF RestartCrashed, RemoveDeadPod, PodCopies, PodKnown
  <2>2. Ended(pod)
    BY <2>1 DEF PodCopies
  <2> QED BY <2>1, <2>2 DEF PodCopies, PodKnown
<1>3. CASE Kubelet
  <2>1. ~NoPod.deleting
    BY DEF NoPod
  <2>2. pod' = NoPod \/ pod'.deleting = pod.deleting
    BY <1>3, KubeletPod DEF TypeOK
  <2> QED BY <2>1, <2>2
<1>4. \/ BeginReconcile \/ RestartCrashed \/ RemoveDeadPod \/ Kubelet \/ UNCHANGED pod
  <2>1. CASE Reconcile
    BY <2>1, FailuresGiveBack DEF Reconcile, GivesBack, SaveCrashLog, RecordCrash,
       StopAfterExit, UpdateStatus
  <2> QED BY <2>1, RequestKeeps, FailuresGiveBack DEF Next, GivesBack, OperatorRestarts,
       SeeGameServer, SeePod, TimerFires
<1> QED BY <1>1, <1>2, <1>3, <1>4

(* NoUnaskedKill: however stale the caches, a game that runs is ended only  *)
(* by a stop, a suspension or a restart asked for since its Pod was built.  *)
THEOREM NoGameEndedUnasked == Spec => NoUnaskedKill
<1> DEFINE Step == (pod.exists /\ ~pod.deleting /\ pod'.deleting /\ pod.exit = "none")
                      => gs.asks > pod.asks
<1>1. TypeOK /\ PodCopies /\ PodKnown /\ Asked /\ [Next]_vars => [Step]_vars
  BY DeletedFor DEF Ended
<1> QED BY <1>1, TypeCorrect, PodCopiesHold, PodKnownHolds, AskedHolds, PTL
        DEF Spec, NoUnaskedKill

(* CrashLogged: the Pod of a crashed game goes while the crash log is of    *)
(* its crash, unless somebody asked for its end.                            *)
THEOREM CrashesLogged == Spec => CrashLogged
<1> DEFINE Step == (pod.exists /\ ~pod.deleting /\ pod'.deleting /\ pod.exit = "crash"
                      /\ pod.asks = gs.asks) => crashLog = pod.at
<1>1. TypeOK /\ PodCopies /\ PodKnown /\ Asked /\ [Next]_vars => [Step]_vars
  <2>1. ASSUME TypeOK PROVE ~(gs.asks > gs.asks)
    BY <2>1 DEF TypeOK, GameServers
  <2> QED BY <2>1, DeletedFor
<1> QED BY <1>1, TypeCorrect, PodCopiesHold, PodKnownHolds, AskedHolds, PTL
        DEF Spec, CrashLogged

-----------------------------------------------------------------------------
(* Layer seven: the servers that stay down.                                 *)

(* The crash at time at, once recorded in g, is one the operator gives up.  *)
Over(g, at) == Recorded(g, at) = g => GivesUp(g, at)

(* The dead Pod of a server that went down for good, before stopAfterExit:  *)
(* it stays, and every copy the operator may read says so.                  *)
Waiting ==
  /\ pod.exists /\ Ended(pod) /\ ~pod.deleting /\ pod.asks = gs.asks
  /\ pc \notin {"restart", "remove"}
  /\ pod.exit = "crash" =>
       /\ GivesUp(gs, pod.at) /\ Over(cache, pod.at)
       /\ pc \in {"log", "record"} => Over(l, pod.at)

Down ==
  /\ pc \in {"log", "record"} /\ localFresh => cacheFresh
  /\ pc = "remove" /\ final => WantsDown(gs)
  /\ final => WantsDown(gs) \/ Waiting

(* Whether to give up is decided the same before and after the crash is     *)
(* recorded, and updateStatus does not change it while the server is up.    *)
LEMMA GivesUpStays ==
  ASSUME NEW g \in GameServers, NEW at \in Nat
  PROVE  /\ GivesUp(Recorded(g, at), at) <=> GivesUp(g, at)
         /\ \A q : ~WantsDown(g) => (GivesUp(Observed(g, q), at) <=> GivesUp(g, at))
<1>1. Kept(Kept(g.recent, at), at) = Kept(g.recent, at)
  BY PolicyAssumption DEF Kept, GameServers
<1>2. /\ Recorded(g, at).recent = Kept(g.recent, at)
      /\ Recorded(g, at).autoRestart = g.autoRestart
  BY DEF Recorded, GameServers
<1>3. ASSUME NEW q, ~WantsDown(g)
      PROVE  Observed(g, q).recent = g.recent /\ Observed(g, q).autoRestart = g.autoRestart
  BY <1>3 DEF Observed, GameServers
<1> QED BY <1>1, <1>2, <1>3 DEF GivesUp

(* The one step that decides to give a server up.                           *)
LEMMA RecordDown ==
  ASSUME TypeOK, PodCopies, ServerCopies, PodKnown, Down, RecordCrash
  PROVE  Down'
<1> USE DEF apiVars, cacheVars, queueVars, localVars, historyVars
<1>1. /\ pc = "record" /\ pc' \in {"stop", "wait", "restart"}
      /\ UNCHANGED <<pod, cache, p>>
      /\ GivesUp(l, p.at) => pc' = "stop"
  BY DEF RecordCrash, Goto
<1>2. /\ Ended(p) /\ p.exit = "crash" /\ ~p.deleting /\ p.exists
      /\ p.at \in Nat /\ gs \in GameServers /\ l \in GameServers
  BY <1>1 DEF PodCopies, PodKnown, TypeOK, Pods
<1>3. localFresh => l = gs /\ cache = gs
  BY <1>1 DEF Down, ServerCopies
<1>4. SUFFICES ASSUME final', ~WantsDown(gs') PROVE Waiting'
  BY <1>1 DEF Down
<1>5. final \/ (GivesUp(l, p.at) /\ localFresh' /\ pod = p /\ p.asks = gs.asks)
  BY <1>4 DEF RecordCrash
<1>6. CASE localFresh /\ Recorded(l, p.at) # l /\ gs' = Recorded(l, p.at)
  <2>1. gs' = Recorded(gs, p.at) /\ Recorded(gs, p.at) # gs
    BY <1>3, <1>6
  <2>2. gs'.asks = gs.asks /\ ~WantsDown(gs)
    BY <1>2, <1>4, <2>1, RecordedWrites, WritesAsk DEF WantsDown
  <2>3. /\ pod.exists /\ Ended(pod) /\ ~pod.deleting /\ pod.asks = gs.asks
        /\ pod.at = p.at /\ GivesUp(gs, p.at)
    <3>1. CASE final
      BY <1>2, <2>2, <3>1 DEF Down, Waiting, PodCopies, PodKnown
    <3>2. CASE ~final
      BY <1>2, <1>3, <1>5, <1>6, <3>2
    <3> QED BY <3>1, <3>2
  <2>4. GivesUp(gs', p.at)
    BY <1>2, <2>1, <2>3, GivesUpStays
  <2>5. GivesUp(l, p.at) /\ Over(cache, pod.at)
    BY <1>3, <1>6, <2>1, <2>3 DEF Over
  <2> QED BY <1>1, <2>2, <2>3, <2>4, <2>5 DEF Waiting, Ended, Over
<1>7. CASE Recorded(l, p.at) = l /\ UNCHANGED <<gs, localFresh>>
  <2>1. ~WantsDown(gs)
    BY <1>4, <1>7
  <2>2. /\ pod.exists /\ Ended(pod) /\ ~pod.deleting /\ pod.asks = gs.asks
        /\ pod.at = p.at /\ GivesUp(gs, p.at) /\ GivesUp(l, p.at) /\ Over(cache, p.at)
    <3>1. CASE final
      <4>1. Waiting
        BY <2>1, <3>1 DEF Down
      <4>2. pod.at = p.at /\ pod.exit = "crash"
        BY <1>2, <4>1 DEF Waiting, PodCopies, PodKnown
      <4> QED BY <1>1, <1>7, <4>1, <4>2 DEF Waiting, Over
    <3>2. CASE ~final
      BY <1>2, <1>3, <1>5, <1>7, <3>2 DEF Over
    <3> QED BY <3>1, <3>2
  <2> QED BY <1>1, <1>7, <2>2 DEF Waiting, Ended, Over
<1> QED BY <1>6, <1>7 DEF RecordCrash, Write

(* The dead Pod of a server that went down for good is left alone by every  *)
(* step until the spec says Stopped.                                        *)
THEOREM DownHolds == Spec => []Down
<1> USE DEF apiVars, cacheVars, queueVars, localVars, historyVars
<1>1. Init => Down
  BY DEF Init, Down
<1>2. TypeOK /\ PodCopies /\ ServerCopies /\ PodKnown /\ Asked /\ Down /\ [Next]_vars => Down'
  <2> SUFFICES ASSUME TypeOK, PodCopies, ServerCopies, PodKnown, Asked, Down, [Next]_vars
               PROVE  Down'
    OBVIOUS
  <2>0. gs \in GameServers /\ pod \in Pods /\ pod.at \in Nat
    BY DEF TypeOK, Pods
  <2>1. CASE BeginReconcile
    <3>1. pc' \notin {"restart", "remove"} /\ l' = cache /\ localFresh' = cacheFresh
      BY <2>1 DEF BeginReconcile, Goto, CrashStep
    <3>2. ASSUME Waiting PROVE pod' = pod
      BY <2>1, <3>2, EndAsked DEF BeginReconcile, Waiting, NothingToRun, KeepPod, CreatePod,
         TypeOK, GameServers, Pods
    <3>3. UNCHANGED <<gs, cache, cacheFresh, final>>
      BY <2>1 DEF BeginReconcile
    <3> QED BY <3>1, <3>2, <3>3 DEF Down, Waiting, WantsDown, Ended, Over, GivesUp
  <2>2. CASE GivesBack /\ UNCHANGED final
    BY <2>2 DEF GivesBack, Forget, Down, Waiting, WantsDown, Ended, Over, GivesUp
  <2>3. CASE SaveCrashLog
    BY <2>3 DEF SaveCrashLog, Goto, Down, Waiting, WantsDown, Ended, Over, GivesUp
  <2>4. CASE RecordCrash
    BY <2>4, RecordDown
  <2>5. CASE RestartCrashed \/ RemoveDeadPod
    BY <2>5 DEF RestartCrashed, RemoveDeadPod, Goto, Down, Waiting, WantsDown
  <2>6. CASE StopAfterExit
    <3>1. WantsDown(gs')
      BY <2>6 DEF StopAfterExit, Write, WantsDown, TypeOK, GameServers
    <3> QED BY <2>6, <3>1 DEF StopAfterExit, Goto, Down, WantsDown
  <2>7. CASE UpdateStatus
    <3>1. CASE gs' = gs
      BY <2>7, <3>1 DEF UpdateStatus, Forget, Down, Waiting, WantsDown, Ended, Over, GivesUp
    <3>2. CASE localFresh /\ gs' = Observed(l, p)
      <4>1. gs' = Observed(gs, p) /\ gs'.asks = gs.asks
        BY <2>0, <3>2, WritesAsk DEF ServerCopies
      <4>2. WantsDown(gs') <=> WantsDown(gs)
        BY <2>0, <4>1, ObservedWrites DEF WantsDown
      <4>3. ~WantsDown(gs) => (GivesUp(gs', pod.at) <=> GivesUp(gs, pod.at))
        BY <2>0, <4>1, GivesUpStays
      <4>4. pc' = "idle" /\ UNCHANGED <<pod, cache, final>>
        BY <2>7 DEF UpdateStatus, Forget
      <4> QED BY <4>1, <4>2, <4>3, <4>4 DEF Down, Waiting, Ended, Over
    <3> QED BY <2>7, <3>1, <3>2 DEF UpdateStatus
  <2>8. CASE OperatorRestarts \/ SeeGameServer
    <3>1. UNCHANGED <<gs, pod, final>> /\ cache' = gs /\ cacheFresh' = TRUE
          /\ (pc' = "idle" \/ UNCHANGED <<pc, l, localFresh>>)
      BY <2>8 DEF OperatorRestarts, SeeGameServer, Forget
    <3> QED BY <3>1 DEF Down, Waiting, WantsDown, Ended, Over, GivesUp
  <2>9. CASE SeePod \/ TimerFires \/ UNCHANGED vars
    <3>1. UNCHANGED <<gs, pod, final, cache, cacheFresh, pc, l, localFresh>>
      BY <2>9 DEF SeePod, TimerFires, vars
    <3> QED BY <3>1 DEF Down, Waiting, WantsDown, Ended, Over, GivesUp
  <2>10. CASE PanelRequest
    <3>1. final' = FALSE /\ localFresh' = FALSE
      BY <2>10 DEF PanelRequest, Start, Stop, Restart, Suspend, Unsuspend, EditSpec,
         Reinstall, SetAutoRestart, Request
    <3> QED BY <3>1 DEF Down
  <2>11. CASE RunPod \/ PodFails \/ PodGone
    <3>1. UNCHANGED <<gs, final, cache, cacheFresh, pc, l, localFresh>>
      BY <2>11 DEF RunPod, PodFails, PodGone, PodStep
    <3>2. pod.deleting \/ /\ pod'.exists = pod.exists /\ pod'.deleting = pod.deleting
                          /\ pod'.exit = pod.exit /\ pod'.at = pod.at /\ pod'.asks = pod.asks
      BY <2>0, <2>11 DEF RunPod, PodFails, PodGone, PodStep, Pods
    <3> QED BY <3>1, <3>2 DEF Down, Waiting, WantsDown, Ended, Over, GivesUp
  <2>12. CASE GameExits
    <3>1. /\ UNCHANGED <<gs, cache, cacheFresh, pc, l, localFresh>>
          /\ pod.exists /\ ~Ended(pod)
      BY <2>12 DEF GameExits, Ended
    <3>2. pc \notin {"restart", "remove"}
      BY <3>1 DEF PodCopies, PodKnown
    <3>3. ASSUME final', ~final PROVE Waiting'
      <4>1. /\ pod'.exists /\ pod'.exit = "clean" /\ ~pod'.deleting /\ pod'.asks = gs.asks
        BY <2>0, <2>12, <3>1, <3>3 DEF GameExits, Pods
      <4> QED BY <3>1, <3>2, <4>1 DEF Waiting, Ended
    <3> QED BY <3>1, <3>2, <3>3 DEF Down, Waiting, WantsDown
  <2>13. CASE Reconcile
    <3>1. CreateConflicts \/ RecordConflicts \/ StopConflicts \/ StatusConflicts
            => GivesBack /\ UNCHANGED final
      BY FailuresGiveBack DEF CreateConflicts, RecordConflicts, StopConflicts, StatusConflicts
    <3> QED BY <2>1, <2>2, <2>3, <2>4, <2>5, <2>6, <2>7, <2>13, <3>1 DEF Reconcile
  <2>14. CASE CallFails
    BY <2>2, <2>14, FailuresGiveBack DEF CallFails
  <2> QED BY <2>8, <2>9, <2>10, <2>11, <2>12, <2>13, <2>14 DEF Next, Kubelet
<1> QED BY <1>1, <1>2, TypeCorrect, PodCopiesHold, ServerCopiesHold, PodKnownHolds, AskedHolds,
        PTL DEF Spec

(* DownForGood: a server that exited on its own, or that the operator gave  *)
(* up, is not started again before somebody asks for something: its dead    *)
(* Pod stands until the spec says Stopped.                                  *)
THEOREM StaysDown == Spec => []DownForGood
<1>1. Down => DownForGood
  BY DEF Down, Waiting, DownForGood, Ended
<1> QED BY <1>1, DownHolds, PTL

-----------------------------------------------------------------------------
(* Layer eight: no wake-up is lost.                                         *)

(* Something is on its way that makes the operator look again.              *)
Awaited == queued \/ ~cacheFresh \/ podCache # pod

(* The Pod is as the spec says, or on its way out.                          *)
Served ==
  \/ ~pod.exists /\ WantsDown(gs)
  \/ pod.exists /\ pod.deleting
  \/ /\ pod.exists /\ ~Ended(pod)
     /\ ~WantsDown(gs) /\ ~restartRequested(gs, pod)

(* A Pod is news to the cache until it was seen, and what the cache has     *)
(* seen of it does not come undone: it never is again what it was before.   *)
NoReturn ==
  /\ \A q \in {pod, podCache, p} : ~q.exists => q = NoPod
  /\ pod.exists /\ podCache.exists =>
       /\ podCache.deleting => pod.deleting
       /\ Ended(podCache) => Ended(pod)
       /\ podCache.phase # "Pending" => pod.phase # "Pending"
  /\ pod.exists /\ ~podCache.exists => ~pod.deleting /\ pc \in {"idle", "status"}

(* While nothing is on its way, the running reconcile works on what there   *)
(* is, or the last one has left nothing to do until the timer.              *)
Attended ==
  \/ Awaited
  \/ pc = "idle" /\ (timer # Never \/ (Served /\ Observed(gs, pod) = gs))
  \/ /\ pc \notin {"idle", "remove"} /\ localFresh /\ p = pod
     /\ IF pc = "status" THEN Served ELSE crashedPod(gs, pod)

(* A controller with nothing to do has done everything: the status is that  *)
(* of the Pod, and a server that should be down has no Pod that stays, one  *)
(* that should run a Pod that runs, or fails to, and has answered every     *)
(* restart that was asked for, or is about to lose the Pod it has.          *)
AtRest ==
  pc = "idle" /\ ~queued /\ timer = Never /\ cacheFresh /\ podCache = pod =>
    /\ Observed(gs, pod) = gs
    /\ WantsDown(gs) => ~pod.exists \/ pod.deleting
    /\ ~WantsDown(gs) => /\ pod.exists
                         /\ pod.deleting \/ (~Ended(pod) /\ ~restartRequested(gs, pod))

(* Neither a delete nor the kubelet makes of the Pod what the cache has.    *)
LEMMA DeleteIsNews ==
  ASSUME TypeOK, NoReturn, DeletePod,
         podCache.exists \/ ~pod.exists
  PROVE  /\ pod' = pod \/ (pod.exists /\ pod'.deleting /\ pod' # podCache)
         /\ pod.exists /\ ~pod.deleting => pod' # podCache
         /\ pod'.exists = pod.exists /\ pod'.phase = pod.phase /\ pod'.exit = pod.exit
         /\ pod.deleting => pod'.deleting
<1>1. pod \in Pods
  BY DEF TypeOK
<1>2. CASE pod.exists /\ ~pod.deleting
  <2>1. /\ pod'.deleting /\ pod'.exists /\ pod'.phase = pod.phase /\ pod'.exit = pod.exit
    BY <1>1, <1>2 DEF DeletePod, Pods
  <2>2. podCache.exists /\ ~podCache.deleting
    BY <1>2 DEF NoReturn
  <2> QED BY <1>2, <2>1, <2>2
<1>3. CASE pod.exists /\ pod.deleting
  <2>1. pod' = pod
    BY <1>1, <1>3 DEF DeletePod, Pods
  <2> QED BY <1>3, <2>1
<1>4. CASE ~pod.exists
  BY <1>4 DEF DeletePod
<1> QED BY <1>1, <1>2, <1>3, <1>4 DEF Pods

LEMMA KubeletIsNews ==
  ASSUME TypeOK, NoReturn, Kubelet
  PROVE  /\ pod' # podCache
         /\ \/ pod' = NoPod
            \/ /\ pod.exists /\ pod'.exists /\ pod'.deleting = pod.deleting
               /\ Ended(pod) => Ended(pod')
               /\ pod.phase # "Pending" => pod'.phase # "Pending"
<1>1. pod \in Pods
  BY DEF TypeOK
<1>2. CASE RunPod
  <2>1. pod.phase = "Pending" /\ pod.exists /\ pod'.phase = "Running" /\ pod'.exists
        /\ pod'.deleting = pod.deleting /\ pod'.exit = pod.exit
    BY <1>1, <1>2 DEF RunPod, PodStep, Pods
  <2> QED BY <2>1 DEF NoReturn, Ended
<1>3. CASE PodFails
  <2>1. pod.phase = "Pending" /\ pod.exists /\ pod'.phase = "Failed" /\ pod'.exists
        /\ pod'.deleting = pod.deleting /\ pod'.exit = pod.exit
    BY <1>1, <1>3 DEF PodFails, PodStep, Pods
  <2> QED BY <2>1 DEF NoReturn, Ended
<1>4. CASE GameExits
  <2>1. ~Ended(pod) /\ pod.exists /\ Ended(pod') /\ pod'.exists
        /\ pod'.deleting = pod.deleting /\ pod'.phase = pod.phase
    BY <1>1, <1>4 DEF GameExits, Pods, Ended
  <2> QED BY <2>1 DEF NoReturn
<1>5. CASE PodGone
  <2>1. pod.exists /\ pod.deleting /\ pod' = NoPod
    BY <1>5 DEF PodGone, PodStep
  <2>2. podCache.exists /\ ~NoPod.exists
    BY <2>1 DEF NoReturn, NoPod
  <2> QED BY <2>1, <2>2
<1> QED BY <1>2, <1>3, <1>4, <1>5, KubeletKeeps DEF Kubelet

(* What a reconcile begins with.                                            *)
LEMMA BeginReads ==
  ASSUME TypeOK, NoReturn, BeginReconcile
  PROVE  /\ UNCHANGED podCache
         /\ p' = NoPod \/ p' = podCache \/ (p' = pod' /\ pod'.exists)
         /\ \/ pod' = pod
            \/ /\ podCache.exists /\ pod.exists /\ pod'.exists /\ pod'.deleting
               /\ pod'.phase = pod.phase /\ pod'.exit = pod.exit
            \/ /\ ~podCache.exists /\ ~pod.exists /\ pod'.exists /\ ~pod'.deleting
         /\ podCache.exists \/ pc' = "status"
<1>0. pod \in Pods /\ UNCHANGED podCache /\ pc' = CrashStep(l', p')
  BY DEF TypeOK, BeginReconcile, cacheVars, Goto
<1>1. CASE NothingToRun
  <2>1. p' = NoPod /\ pod' = pod
    BY <1>1 DEF NothingToRun
  <2> QED BY <1>0, <2>1 DEF CrashStep, crashedPod, NoPod
<1>2. CASE EndPod
  <2>1. podCache.exists /\ DeletePod /\ (p' = podCache \/ p' = NoPod)
    BY <1>2 DEF EndPod
  <2>2. \/ pod' = pod
        \/ /\ pod.exists /\ pod'.exists /\ pod'.deleting
           /\ pod'.phase = pod.phase /\ pod'.exit = pod.exit
    BY <2>1, DeleteIsNews
  <2> QED BY <1>0, <2>1, <2>2
<1>3. CASE KeepPod
  BY <1>0, <1>3 DEF KeepPod
<1>4. CASE CreatePod
  <2>1. ~podCache.exists /\ ~pod.exists /\ p' = pod' /\ pod' = buildPod(cache)
    BY <1>4 DEF CreatePod
  <2>2. pod'.exists /\ ~pod'.deleting /\ ~Ended(pod')
    BY <2>1 DEF buildPod, NoPod, Ended
  <2> QED BY <1>0, <2>1, <2>2 DEF CrashStep, crashedPod, Ended
<1> QED BY <1>1, <1>2, <1>3, <1>4 DEF BeginReconcile

LEMMA NoReturnHolds == Spec => []NoReturn
<1> USE DEF apiVars, cacheVars, queueVars, localVars, historyVars
<1>0. ~NoPod.exists /\ ~NoPod.deleting
  BY DEF NoPod
<1>1. Init => NoReturn
  BY <1>0 DEF Init, NoReturn
<1>2. TypeOK /\ NoReturn /\ [Next]_vars => NoReturn'
  <2> SUFFICES ASSUME TypeOK, NoReturn, [Next]_vars PROVE NoReturn'
    OBVIOUS
  <2>1. CASE BeginReconcile
    BY <1>0, <2>1, BeginReads DEF NoReturn, Ended
  <2>2. CASE GivesBack
    BY <1>0, <2>2 DEF GivesBack, Forget, NoReturn
  <2>3. CASE SaveCrashLog \/ RecordCrash \/ StopAfterExit
    <3>1. UNCHANGED <<pod, podCache, p>> /\ pc \notin {"idle", "status"}
      BY <2>3 DEF SaveCrashLog, RecordCrash, StopAfterExit
    <3> QED BY <3>1 DEF NoReturn
  <2>4. CASE RestartCrashed \/ RemoveDeadPod
    <3>1. /\ DeletePod /\ UNCHANGED <<podCache, p>> /\ pc' = "status"
          /\ pc \notin {"idle", "status"}
      BY <2>4 DEF RestartCrashed, RemoveDeadPod, Goto
    <3>2. podCache.exists \/ ~pod.exists
      BY <3>1 DEF NoReturn
    <3>3. \/ pod' = pod
          \/ /\ pod.exists /\ pod'.exists /\ pod'.deleting
             /\ pod'.phase = pod.phase /\ pod'.exit = pod.exit
      BY <3>1, <3>2, DeleteIsNews
    <3> QED BY <3>1, <3>2, <3>3 DEF NoReturn, Ended
  <2>5. CASE UpdateStatus \/ OperatorRestarts
    <3>1. pc' = "idle" /\ p' = NoPod /\ pod' = pod /\ podCache' \in {podCache, pod}
      BY <2>5 DEF UpdateStatus, OperatorRestarts, Forget
    <3> QED BY <1>0, <3>1 DEF NoReturn
  <2>6. CASE SeeGameServer \/ SeePod \/ TimerFires \/ PanelRequest \/ UNCHANGED vars
    <3>1. UNCHANGED <<pod, p, pc>> /\ podCache' \in {podCache, pod}
      BY <2>6, RequestKeeps DEF SeeGameServer, SeePod, TimerFires, vars
    <3> QED BY <3>1 DEF NoReturn
  <2>7. CASE Kubelet
    <3>1. UNCHANGED <<podCache, p, pc>>
      BY <2>7, KubeletKeeps
    <3> QED BY <1>0, <2>7, <3>1, KubeletIsNews DEF NoReturn
  <2> QED
    BY <2>1, <2>2, <2>3, <2>4, <2>5, <2>6, <2>7, FailuresGiveBack DEF Next, Reconcile
<1> QED BY <1>1, <1>2, TypeCorrect, PTL DEF Spec

(* A reconcile begins on what there is, if nothing more is on its way.      *)
LEMMA BeginAttends ==
  ASSUME TypeOK, ServerCopies, NoReturn, BeginReconcile
  PROVE  Attended'
<1>0. /\ UNCHANGED <<gs, cache, cacheFresh, podCache>> /\ l' = cache /\ localFresh' = cacheFresh
      /\ pc' = CrashStep(l', p')
  BY DEF BeginReconcile, cacheVars, Goto
<1> SUFFICES ASSUME cacheFresh, podCache = pod' PROVE Attended'
  BY <1>0 DEF Attended, Awaited
<1>1. l' = gs' /\ localFresh' /\ gs' = gs /\ cache = gs
  BY <1>0 DEF ServerCopies
<1>2. pc' \notin {"idle", "remove"}
      /\ (pc' = "status" <=> ~crashedPod(l', p'))
  BY <1>0 DEF CrashStep
<1>3. p' = pod' /\ (~crashedPod(gs, pod') => Served')
  <2>1. CASE NothingToRun
    <3>1. ~pod'.exists /\ pod' = pod /\ p' = NoPod /\ WantsDown(gs)
      BY <1>1, <2>1 DEF NothingToRun
    <3>2. pod = NoPod
      BY <3>1 DEF NoReturn
    <3> QED BY <1>1, <3>1, <3>2 DEF Served
  <2>2. CASE EndPod
    <3>1. podCache.exists /\ ~podCache.deleting /\ DeletePod
      BY <2>2 DEF EndPod
    <3>2. pod.exists /\ ~pod.deleting => pod' # podCache
      BY <3>1, DeleteIsNews
    <3>3. ~pod.exists => ~pod'.exists
      BY <3>1 DEF DeletePod
    <3>4. pod.exists /\ pod.deleting => pod'.deleting
      BY <3>1, DeleteIsNews
    <3> QED BY <3>1, <3>2, <3>3, <3>4
  <2>3. CASE KeepPod
    <3>1. p' = pod' /\ pod'.exists /\ (pod'.deleting \/ ~(WantsDown(gs) \/ restartRequested(gs, pod')))
      BY <1>1, <2>3 DEF KeepPod
    <3> QED BY <1>1, <3>1 DEF Served, crashedPod, Ended
  <2>4. CASE CreatePod
    <3>1. pod'.exists /\ ~podCache.exists
      BY <2>4 DEF CreatePod, buildPod, NoPod
    <3> QED BY <3>1
  <2> QED BY <2>1, <2>2, <2>3, <2>4 DEF BeginReconcile
<1> QED BY <1>1, <1>2, <1>3 DEF Attended

(* A crashed server that waits has a timer.                                 *)
LEMMA TimesAreLater ==
  ASSUME NEW g, NEW at \in Nat, NEW t \in Nat
  PROVE  Earlier(t, RestartTime(g, at)) # Never
<1>1. restartDelay(Cardinality(Kept(g.recent, at))) \in Nat \ {0}
  BY PolicyAssumption DEF restartDelay
<1>2. RestartTime(g, at) # 0
  BY <1>1 DEF RestartTime
<1> QED BY <1>2 DEF Earlier, Never

LEMMA AttendedStep ==
  ASSUME TypeOK, ServerCopies, NoReturn, Attended, [Next]_vars
  PROVE  Attended'
<1> USE DEF apiVars, cacheVars, queueVars, localVars, historyVars
<1>1. CASE BeginReconcile
  BY <1>1, BeginAttends
<1>2. CASE \/ CreateConflicts \/ RecordConflicts \/ StopConflicts \/ StatusConflicts \/ CallFails
           \/ OperatorRestarts \/ SeeGameServer \/ SeePod \/ TimerFires
  <2>1. queued'
    BY <1>2 DEF CreateConflicts, RecordConflicts, StopConflicts, StatusConflicts, CallFails, Fail,
       OperatorRestarts, SeeGameServer, SeePod, TimerFires
  <2> QED BY <2>1 DEF Attended, Awaited
<1>3. CASE PanelRequest
  BY <1>3, RequestKeeps DEF Attended, Awaited
<1>4. CASE Kubelet
  <2>1. podCache' = podCache /\ pod' # podCache
    BY <1>4, KubeletKeeps, KubeletIsNews
  <2> QED BY <2>1 DEF Attended, Awaited
<1>5. CASE SaveCrashLog
  BY <1>5 DEF SaveCrashLog, Goto, Attended, Awaited
<1>6. CASE RecordCrash
  <2>1. /\ pc = "record" /\ pc' \in {"stop", "wait", "restart"}
        /\ UNCHANGED <<pod, podCache, queued, p>>
        /\ cacheFresh' = FALSE \/ UNCHANGED <<gs, cacheFresh, l, localFresh>>
    BY <1>6 DEF RecordCrash, Goto, Write
  <2> QED BY <2>1 DEF Attended, Awaited
<1>7. CASE RestartCrashed \/ RemoveDeadPod
  <2>1. /\ DeletePod /\ pc \in {"restart", "remove"}
        /\ UNCHANGED <<gs, cacheFresh, podCache, queued>>
    BY <1>7 DEF RestartCrashed, RemoveDeadPod
  <2>2. podCache.exists \/ ~pod.exists
    BY <2>1 DEF NoReturn
  <2>3. (pod' = pod \/ pod' # podCache) /\ (pod.exists /\ ~pod.deleting => pod' # podCache)
    BY <2>1, <2>2, DeleteIsNews
  <2>4. CASE Awaited
    BY <2>1, <2>3, <2>4 DEF Attended, Awaited
  <2>5. CASE ~Awaited
    <3>1. pod.exists /\ ~pod.deleting
      BY <2>1, <2>5 DEF Attended, crashedPod
    <3> QED BY <2>1, <2>3, <3>1 DEF Attended, Awaited
  <2> QED BY <2>4, <2>5
<1>8. CASE StopAfterExit
  BY <1>8 DEF StopAfterExit, Write, Attended, Awaited
<1>9. CASE UpdateStatus
  <2>1. /\ pc \in {"status", "wait"} /\ pc' = "idle" /\ UNCHANGED <<pod, podCache, queued>>
        /\ cacheFresh' = FALSE \/ (Observed(l, p) = l /\ UNCHANGED <<gs, cacheFresh>>)
    BY <1>9 DEF UpdateStatus, Forget
  <2>2. CASE Awaited \/ cacheFresh' = FALSE
    BY <2>1, <2>2 DEF Attended, Awaited
  <2>3. CASE ~Awaited /\ cacheFresh' # FALSE /\ pc = "wait"
    <3>1. timer' = Earlier(timer, RestartTime(l, p.at))
      BY <1>9, <2>3 DEF UpdateStatus
    <3>2. timer \in Nat /\ p.at \in Nat
      BY DEF TypeOK, Pods
    <3> QED BY <2>1, <3>1, <3>2, TimesAreLater DEF Attended
  <2>4. CASE ~Awaited /\ cacheFresh' # FALSE /\ pc = "status"
    <3>1. localFresh /\ p = pod /\ Served
      BY <2>4 DEF Attended
    <3>2. Observed(gs, pod) = gs
      BY <2>1, <2>4, <3>1 DEF ServerCopies
    <3> QED BY <2>1, <2>4, <3>1, <3>2 DEF Attended, Served
  <2> QED BY <2>1, <2>2, <2>3, <2>4
<1>10. CASE UNCHANGED vars
  BY <1>10 DEF vars, Attended, Awaited, Served
<1> QED
  BY <1>1, <1>2, <1>3, <1>4, <1>5, <1>6, <1>7, <1>8, <1>9, <1>10 DEF Next, Reconcile

(* No wake-up is lost: whatever is requested, fails or ends between two     *)
(* steps of a reconcile, the operator does not come to rest before it has   *)
(* seen it and has done what the spec asks for.                             *)
THEOREM NoWakeUpLost == Spec => []AtRest
<1>1. Init => Attended
  BY DEF Init, Attended, Awaited
<1>2. Attended => AtRest
  BY DEF Attended, Awaited, Served, AtRest
<1> QED BY <1>1, <1>2, AttendedStep, TypeCorrect, ServerCopiesHold, NoReturnHolds, PTL DEF Spec

-----------------------------------------------------------------------------
(* Tenancy: the types.                                                      *)

TenantType == [id : Nat, deleting : BOOLEAN, held : BOOLEAN, quota : Nat, phase : TenantPhases]
SpaceType == [owner : Nat, ending : BOOLEAN, has : SUBSET {"quota", "binding"}, hard : Nat]
RequestRecords == [op : Ops, pc : PCs, row : Nat, name : Names, quota : Nat, saw : Nat, late : BOOLEAN]
PassType == [pc : Passes, id : Nat, quota : Nat, done : 0..2, fresh : BOOLEAN]
MarksType == [broken : BOOLEAN, crossed : BOOLEAN, stale : SUBSET Nat, largest : Nat]

LEMMA FencesAre == {Fences[i] : i \in 1..2} = {"quota", "binding"} /\ Len(Fences) = 2
<1>1. Fences[1] = "quota" /\ Fences[2] = "binding" /\ Len(Fences) = 2
  BY DEF Fences
<1>2. 1..2 = {1, 2}
  OBVIOUS
<1> QED BY <1>1, <1>2

LEMMA OrgTypesAre ==
  OrgTypes <=>
    /\ org \in Nat /\ tenant \in TenantType /\ space \in SpaceType
    /\ servers \in [Names -> [id : Nat, going : BOOLEAN]]
    /\ grants \subseteq [row : Nat, name : Names, server : Nat]
    /\ req \in [Slots -> RequestRecords] /\ rec \in PassType
    /\ made \in [orgs : Nat, tenants : Nat, servers : Nat]
    /\ requests \in Nat /\ faults \in Nat /\ marks \in MarksType
BY FencesAre DEF OrgTypes, TenantType, SpaceType, RequestRecords, PassType, MarksType

LEMMA OrgTypesThen ==
  ASSUME org' \in Nat, tenant' \in TenantType, space' \in SpaceType,
         servers' \in [Names -> [id : Nat, going : BOOLEAN]],
         grants' \subseteq [row : Nat, name : Names, server : Nat],
         req' \in [Slots -> RequestRecords], rec' \in PassType,
         made' \in [orgs : Nat, tenants : Nat, servers : Nat],
         requests' \in Nat, faults' \in Nat, marks' \in MarksType
  PROVE  OrgTypes'
BY FencesAre DEF OrgTypes, TenantType, SpaceType, RequestRecords, PassType, MarksType

LEMMA NothingTypes ==
  /\ NoRequest \in RequestRecords /\ NoTenant \in TenantType /\ NoSpace \in SpaceType
  /\ NoServer \in [id : Nat, going : BOOLEAN] /\ NoPass \in PassType
<1>1. (CHOOSE n \in Names : TRUE) \in Names
  BY NamesAssumption
<1>2. NoRequest \in RequestRecords
  BY <1>1 DEF NoRequest, RequestRecords, Ops, PCs
<1> QED BY <1>2 DEF NoTenant, NoSpace, NoServer, NoPass, TenantType, SpaceType, PassType,
                    TenantPhases, Passes

-----------------------------------------------------------------------------
(* What the steps of a request do to the requests.                          *)

(* r, during the step of another one.                                       *)
Alike(r, x) ==
  /\ x.op = r.op /\ x.pc = r.pc /\ x.row = r.row /\ x.name = r.name /\ x.saw = r.saw
  /\ (r.late => x.late)

(* s is the only one to go on, and it goes on to step.                      *)
Rest(s) == \A t \in Slots \ {s} : Alike(req[t], req'[t])
GoesOn(s, step) ==
  /\ Rest(s) /\ req'[s].op = req[s].op /\ req'[s].name = req[s].name
  /\ req'[s].pc = step

LEMMA WentOn ==
  ASSUME req \in [Slots -> RequestRecords], NEW s \in Slots, NEW step \in PCs, Goes(s, step)
  PROVE  /\ req' \in [Slots -> RequestRecords] /\ GoesOn(s, step)
         /\ req'[s].row = req[s].row /\ req'[s].saw = req[s].saw /\ req'[s].late = req[s].late
<1>1. [req[s] EXCEPT !.pc = step] \in RequestRecords
  BY DEF RequestRecords
<1>2. req' \in [Slots -> RequestRecords]
  BY <1>1 DEF Goes
<1> QED BY <1>2 DEF Goes, GoesOn, Rest, Alike, RequestRecords

LEMMA HasEnded ==
  ASSUME req \in [Slots -> RequestRecords], NEW s \in Slots, Ends(s)
  PROVE  req' \in [Slots -> RequestRecords] /\ Rest(s) /\ req'[s] = NoRequest
BY NothingTypes DEF Ends, Rest, Alike

LEMMA HasBegun ==
  ASSUME req \in [Slots -> RequestRecords], NEW s \in Slots, NEW r \in RequestRecords, Begin(s, r)
  PROVE  req' \in [Slots -> RequestRecords] /\ Rest(s) /\ req'[s] = r /\ req[s].pc = "idle"
BY DEF Begin, Rest, Alike

(* The requests that begin.                                                 *)
Asks(s) ==
  \/ RequestOrg(s) \/ RequestDeleteOrg(s) \/ RequestServer(s) \/ RequestDeleteServer(s)
  \/ RequestGrant(s)

LEMMA HasAsked ==
  ASSUME OrgTypes, NEW s \in Slots, Asks(s)
  PROVE  /\ req' \in [Slots -> RequestRecords] /\ Rest(s) /\ req[s].pc = "idle"
         /\ requests' \in Nat
         /\ UNCHANGED <<org, tenant, space, servers, grants, rec, made, faults, marks>>
         /\ \/ req'[s].op = "org" /\ req'[s].pc = "row" /\ req'[s].row = 0
            \/ /\ req'[s].row = org /\ org # 0
               /\ \/ req'[s].op = "unorg" /\ req'[s].pc = "list"
                  \/ req'[s].op = "server" /\ req'[s].pc = "quota"
                  \/ req'[s].op = "unserver" /\ req'[s].pc = "remove"
                  \/ req'[s].op = "grant" /\ req'[s].pc = "check"
         /\ req'[s].saw = 0
<1>0. req \in [Slots -> RequestRecords] /\ org \in Nat /\ requests \in Nat
  BY OrgTypesAre
<1>1. PICK r \in RequestRecords :
        /\ Begin(s, r) /\ r.saw = 0
        /\ \/ r.op = "org" /\ r.pc = "row" /\ r.row = 0
           \/ /\ r.row = org /\ org # 0
              /\ \/ r.op = "unorg" /\ r.pc = "list"
                 \/ r.op = "server" /\ r.pc = "quota"
                 \/ r.op = "unserver" /\ r.pc = "remove"
                 \/ r.op = "grant" /\ r.pc = "check"
  <2>0. /\ NoRequest \in RequestRecords /\ NoRequest.name \in Names
        /\ NoRequest.saw = 0 /\ NoRequest.row = 0
    BY NothingTypes DEF NoRequest, RequestRecords
  <2>1. CASE RequestOrg(s)
    <3>1. PICK q \in Begun : Begin(s, [NoRequest EXCEPT !.op = "org", !.pc = "row", !.quota = q])
      BY <2>1 DEF RequestOrg
    <3> DEFINE r == [NoRequest EXCEPT !.op = "org", !.pc = "row", !.quota = q]
    <3>2. q \in Nat
      BY <3>1, QuotasAssumption
    <3>3. r \in RequestRecords /\ r.op = "org" /\ r.pc = "row" /\ r.row = 0 /\ r.saw = 0
      BY <2>0, <3>2 DEF RequestRecords, Ops, PCs
    <3>4. Begin(s, r)
      BY <3>1
    <3> HIDE DEF r
    <3> QED BY <3>3, <3>4
  <2>2. ASSUME NEW op \in Ops, NEW step \in PCs, NEW n \in Names, BeginIn(s, op, step, n)
        PROVE  \E r \in RequestRecords : /\ Begin(s, r) /\ r.saw = 0 /\ r.op = op /\ r.pc = step
                                      /\ r.row = org /\ org # 0
    <3> DEFINE r == [NoRequest EXCEPT !.op = op, !.pc = step, !.row = org, !.name = n]
    <3>1. r \in RequestRecords /\ r.op = op /\ r.pc = step /\ r.row = org /\ r.saw = 0
      BY <1>0, <2>0 DEF RequestRecords
    <3>2. Begin(s, r) /\ org # 0
      BY <2>2 DEF BeginIn
    <3> HIDE DEF r
    <3> QED BY <3>1, <3>2
  <2>3. CASE RequestDeleteOrg(s)
    BY <2>0, <2>2, <2>3 DEF RequestDeleteOrg, Ops, PCs
  <2>4. CASE RequestServer(s)
    BY <2>2, <2>4 DEF RequestServer, Ops, PCs
  <2>5. CASE RequestDeleteServer(s)
    BY <2>2, <2>5 DEF RequestDeleteServer, Ops, PCs
  <2>6. CASE RequestGrant(s)
    BY <2>2, <2>6 DEF RequestGrant, Ops, PCs
  <2> QED BY <2>1, <2>3, <2>4, <2>5, <2>6 DEF Asks
<1>2. requests' = requests + 1
      /\ UNCHANGED <<org, tenant, space, servers, grants, rec, made, faults, marks>>
  BY <1>1 DEF Begin, store, cluster
<1> QED BY <1>0, <1>1, <1>2, HasBegun

-----------------------------------------------------------------------------
(* Each step keeps the types.                                               *)

LEMMA AskedTypes ==
  ASSUME OrgTypes, NEW s \in Slots, Asks(s) PROVE OrgTypes'
BY HasAsked, OrgTypesAre, OrgTypesThen

(* The requests that look at the cluster.                                   *)
Looks(s) == ListOrg(s) \/ CheckQuota(s) \/ CheckServer(s)

LEMMA LooksTypes ==
  ASSUME OrgTypes, NEW s \in Slots, Looks(s)
  PROVE  /\ OrgTypes'
         /\ UNCHANGED <<org, tenant, space, servers, grants, rec, made, requests, faults, marks>>
<1>0. /\ req \in [Slots -> RequestRecords] /\ req[s] \in RequestRecords
      /\ servers \in [Names -> [id : Nat, going : BOOLEAN]]
  BY OrgTypesAre
<1>1. UNCHANGED <<org, tenant, space, servers, grants, rec, made, requests, faults, marks>>
  BY DEF Looks, ListOrg, CheckQuota, CheckServer, store, cluster
<1>2. req' \in [Slots -> RequestRecords]
  <2>1. CASE ListOrg(s) \/ CheckQuota(s)
    <3>1. Ends(s) \/ \E step \in PCs : Goes(s, step)
      BY <2>1 DEF ListOrg, CheckQuota, PCs
    <3> QED BY <1>0, <3>1, WentOn, HasEnded
  <2>2. CASE CheckServer(s)
    <3>1. servers[req[s].name] \in [id : Nat, going : BOOLEAN]
      BY <1>0 DEF RequestRecords
    <3>2. [req[s] EXCEPT !.pc = "set", !.saw = servers[req[s].name].id,
                         !.late = servers[req[s].name].going] \in RequestRecords
      BY <1>0, <3>1 DEF RequestRecords, PCs
    <3> QED BY <1>0, <2>2, <3>2, HasEnded DEF CheckServer
  <2> QED BY <2>1, <2>2 DEF Looks
<1> QED BY <1>1, <1>2, OrgTypesAre, OrgTypesThen

(* The rows.                                                                *)
Rows(s) == CreateRow(s) \/ Undo(s) \/ DeleteRow(s)

LEMMA RowsTypes ==
  ASSUME OrgTypes, NEW s \in Slots, Rows(s)
  PROVE  OrgTypes' /\ UNCHANGED <<tenant, space, servers, rec, requests, faults>>
<1>0. /\ req \in [Slots -> RequestRecords] /\ req[s] \in RequestRecords /\ org \in Nat
      /\ made \in [orgs : Nat, tenants : Nat, servers : Nat] /\ marks \in MarksType
      /\ grants \subseteq [row : Nat, name : Names, server : Nat]
  BY OrgTypesAre
<1>1. UNCHANGED <<tenant, space, servers, rec, requests, faults>>
  BY DEF Rows, CreateRow, Undo, DeleteRow, cluster
<1>2. CASE CreateRow(s)
  <2>1. org' \in Nat /\ made' \in [orgs : Nat, tenants : Nat, servers : Nat]
    BY <1>0, <1>2 DEF CreateRow
  <2>2. req' \in [Slots -> RequestRecords]
    <3>1. [req[s] EXCEPT !.pc = "tenant", !.row = org'] \in RequestRecords
      BY <1>0, <2>1 DEF RequestRecords, PCs
    <3> QED BY <1>0, <1>2, <3>1, HasEnded DEF CreateRow
  <2>3. UNCHANGED <<grants, marks>>
    BY <1>2 DEF CreateRow
  <2> QED BY <1>1, <2>1, <2>2, <2>3, OrgTypesAre, OrgTypesThen
<1>3. CASE Undo(s) \/ DeleteRow(s)
  <2>1. org' \in Nat /\ grants' \subseteq grants /\ UNCHANGED made
    BY <1>3 DEF Undo, DeleteRow, WithoutRow
  <2>2. marks' \in MarksType
    BY <1>0, <1>3 DEF Undo, DeleteRow, Crossing, MarksType, Crosses
  <2>3. req' \in [Slots -> RequestRecords]
    BY <1>0, <1>3, HasEnded DEF Undo, DeleteRow
  <2> QED BY <1>0, <1>1, <2>1, <2>2, <2>3, OrgTypesAre, OrgTypesThen
<1> QED BY <1>1, <1>2, <1>3 DEF Rows

(* The Tenant, by requests.                                                 *)
Tenants(s) == CreateTenant(s) \/ DeleteTenant(s) \/ Breaks(s) \/ UpdateQuota

LEMMA MarkedLargest ==
  ASSUME NEW m \in MarksType, NEW q \in Nat
  PROVE  /\ [m EXCEPT !.largest = IF q > @ THEN q ELSE @] \in MarksType
         /\ [m EXCEPT !.largest = IF q > @ THEN q ELSE @].largest >= m.largest
         /\ [m EXCEPT !.largest = IF q > @ THEN q ELSE @].largest >= q
BY DEF MarksType

LEMMA TenantsTypes ==
  ASSUME OrgTypes, NEW s \in Slots, Tenants(s)
  PROVE  OrgTypes' /\ UNCHANGED <<org, grants, space, servers>>
<1>0. /\ req \in [Slots -> RequestRecords] /\ req[s] \in RequestRecords /\ req[s].quota \in Nat
      /\ made \in [orgs : Nat, tenants : Nat, servers : Nat] /\ marks \in MarksType
      /\ tenant \in TenantType /\ NoTenant \in TenantType /\ rec \in PassType
      /\ requests \in Nat /\ faults \in Nat
  BY OrgTypesAre, NothingTypes DEF RequestRecords
<1>1. UNCHANGED <<org, grants, space, servers>>
  BY DEF Tenants, CreateTenant, DeleteTenant, Breaks, UpdateQuota, store
<1>2. ASSUME NEW q \in Nat
      PROVE  [NoTenant EXCEPT !.id = made.tenants + 1, !.quota = q] \in TenantType
  <2>1. made.tenants + 1 \in Nat
    BY <1>0
  <2> QED BY <1>0, <2>1 DEF TenantType
<1>3. Written => rec' \in PassType
  BY <1>0 DEF Written, PassType
<1>4. Crossing(s) \in MarksType
  BY <1>0 DEF Crossing, Crosses, MarksType
<1>5. [made EXCEPT !.tenants = @ + 1] \in [orgs : Nat, tenants : Nat, servers : Nat]
  BY <1>0
<1>6. CASE CreateTenant(s)
  <2>1. tenant' \in TenantType /\ made' \in [orgs : Nat, tenants : Nat, servers : Nat]
    BY <1>0, <1>2, <1>5, <1>6 DEF CreateTenant
  <2>2. rec' \in PassType /\ UNCHANGED <<requests, faults>>
    BY <1>0, <1>3, <1>6 DEF CreateTenant
  <2>3. marks' \in MarksType
    BY <1>0, <1>4, <1>6, MarkedLargest DEF CreateTenant
  <2>4. req' \in [Slots -> RequestRecords]
    BY <1>0, <1>6, WentOn, HasEnded DEF CreateTenant, PCs
  <2> QED BY <1>0, <1>1, <2>1, <2>2, <2>3, <2>4, OrgTypesAre, OrgTypesThen
<1>7. CASE DeleteTenant(s)
  <2>1. tenant' \in TenantType
    BY <1>0, <1>7 DEF DeleteTenant, TenantType
  <2>2. req' \in [Slots -> RequestRecords]
    BY <1>0, <1>7, WentOn DEF DeleteTenant, PCs
  <2> QED BY <1>0, <1>1, <1>3, <1>4, <1>7, <2>1, <2>2, OrgTypesAre, OrgTypesThen DEF DeleteTenant
<1>8. CASE Breaks(s)
  <2>1. tenant' \in TenantType /\ made' \in [orgs : Nat, tenants : Nat, servers : Nat]
    BY <1>0, <1>2, <1>5, <1>8 DEF Breaks
  <2>2. rec' \in PassType /\ faults' \in Nat /\ UNCHANGED requests
    BY <1>0, <1>3, <1>8 DEF Breaks, Fault
  <2>3. marks' \in MarksType
    <3>1. tenant'.quota \in Nat /\ 1..made.servers \subseteq Nat
      BY <1>0, <2>1 DEF TenantType
    <3> DEFINE m == [marks EXCEPT
                       !.broken = @ \/ req[s].pc \in {"tenant", "undo", "unrow"},
                       !.stale = IF req[s].pc = "drop" THEN @ \cup 1..made.servers ELSE @]
    <3>2. m \in MarksType
      BY <1>0, <3>1 DEF MarksType
    <3>3. marks' = [m EXCEPT !.largest = IF tenant'.quota > @ THEN tenant'.quota ELSE @]
      BY <1>0, <1>8 DEF Breaks, MarksType
    <3> HIDE DEF m
    <3> QED BY <3>1, <3>2, <3>3, MarkedLargest
  <2>4. req' \in [Slots -> RequestRecords]
    BY <1>0, <1>8, WentOn, HasEnded DEF Breaks, PCs
  <2> QED BY <1>1, <2>1, <2>2, <2>3, <2>4, OrgTypesAre, OrgTypesThen
<1>9. CASE UpdateQuota
  <2>1. PICK q \in Nat : /\ tenant' = [tenant EXCEPT !.quota = q]
                         /\ marks' = [marks EXCEPT !.largest = IF q > @ THEN q ELSE @]
    BY <1>9, QuotasAssumption DEF UpdateQuota
  <2>2. tenant' \in TenantType /\ marks' \in MarksType
    BY <1>0, <2>1, MarkedLargest DEF TenantType
  <2>3. rec' \in PassType /\ requests' \in Nat /\ UNCHANGED <<req, made, faults>>
    BY <1>0, <1>3, <1>9 DEF UpdateQuota
  <2> QED BY <1>0, <1>1, <2>2, <2>3, OrgTypesAre, OrgTypesThen
<1> QED BY <1>1, <1>6, <1>7, <1>8, <1>9 DEF Tenants

(* The game servers.                                                        *)
ServersStep(s) == CreateServer(s) \/ DeleteServer(s) \/ ServerGone \/ NamespaceEnds

LEMMA ServersTypes ==
  ASSUME OrgTypes, NEW s \in Slots, ServersStep(s)
  PROVE  OrgTypes' /\ UNCHANGED <<org, grants, tenant, rec, requests, faults>>
<1>0. /\ req \in [Slots -> RequestRecords] /\ req[s] \in RequestRecords /\ req[s].name \in Names
      /\ servers \in [Names -> [id : Nat, going : BOOLEAN]]
      /\ made \in [orgs : Nat, tenants : Nat, servers : Nat] /\ marks \in MarksType
      /\ NoServer \in [id : Nat, going : BOOLEAN] /\ NoSpace \in SpaceType
  BY OrgTypesAre, NothingTypes DEF RequestRecords
<1>1. UNCHANGED <<org, grants, tenant, rec, requests, faults>>
  BY DEF ServersStep, CreateServer, DeleteServer, ServerGone, NamespaceEnds, store
<1>2. CASE CreateServer(s)
  <2>1. UNCHANGED <<space, marks>> /\ Ends(s)
    BY <1>2 DEF CreateServer
  <2>2. /\ servers' \in [Names -> [id : Nat, going : BOOLEAN]]
        /\ made' \in [orgs : Nat, tenants : Nat, servers : Nat]
    <3>1. /\ made.servers + 1 \in Nat
          /\ [id |-> made.servers + 1, going |-> FALSE] \in [id : Nat, going : BOOLEAN]
          /\ [made EXCEPT !.servers = @ + 1] \in [orgs : Nat, tenants : Nat, servers : Nat]
      BY <1>0
    <3>2. \/ UNCHANGED <<servers, made>>
          \/ /\ servers' = [servers EXCEPT ![req[s].name] = [id |-> made.servers + 1, going |-> FALSE]]
             /\ made' = [made EXCEPT !.servers = @ + 1]
      BY <1>2 DEF CreateServer
    <3> DEFINE new == [id |-> made.servers + 1, going |-> FALSE]
    <3>3. \/ UNCHANGED <<servers, made>>
          \/ /\ servers' = [servers EXCEPT ![req[s].name] = new]
             /\ made' = [made EXCEPT !.servers = @ + 1]
      BY <3>2
    <3>4. new \in [id : Nat, going : BOOLEAN]
      BY <3>1
    <3> HIDE DEF new
    <3>5. servers' \in [Names -> [id : Nat, going : BOOLEAN]]
      BY <1>0, <3>3, <3>4
    <3> QED BY <1>0, <3>1, <3>2, <3>5
  <2> QED BY <1>0, <1>1, <2>1, <2>2, HasEnded, OrgTypesAre, OrgTypesThen
<1>3. CASE DeleteServer(s)
  <2>1. UNCHANGED <<space, made>>
    BY <1>3 DEF DeleteServer
  <2>2. servers' \in [Names -> [id : Nat, going : BOOLEAN]]
    <3>1. \/ UNCHANGED servers
          \/ servers' = [servers EXCEPT ![req[s].name].going = TRUE]
      BY <1>3 DEF DeleteServer
    <3>2. [servers[req[s].name] EXCEPT !.going = TRUE] \in [id : Nat, going : BOOLEAN]
      BY <1>0
    <3> QED BY <1>0, <3>1, <3>2
  <2>3. marks' \in MarksType
    BY <1>0, <1>3 DEF DeleteServer, MarksType
  <2>4. req' \in [Slots -> RequestRecords]
    <3>1. [req[s] EXCEPT !.pc = "drop"] \in RequestRecords
      BY <1>0 DEF RequestRecords, PCs
    <3>2. ASSUME NEW t \in Slots, NEW b \in BOOLEAN
          PROVE  [req[t] EXCEPT !.late = @ \/ b] \in RequestRecords
      BY <1>0 DEF RequestRecords
    <3>3. CASE req' = [t \in Slots |->
               IF t = s THEN [req[s] EXCEPT !.pc = "drop"]
               ELSE [req[t] EXCEPT !.late = @ \/ (req[t].pc = "set" /\ req[t].name = req[s].name)]]
      BY <3>1, <3>2, <3>3
    <3> QED BY <1>0, <1>3, <3>3, HasEnded DEF DeleteServer
  <2> QED BY <1>1, <2>1, <2>2, <2>3, <2>4, OrgTypesAre, OrgTypesThen
<1>4. CASE ServerGone
  <2>1. servers' \in [Names -> [id : Nat, going : BOOLEAN]]
    BY <1>0, <1>4 DEF ServerGone
  <2>2. UNCHANGED <<space, req, made, marks>>
    BY <1>4 DEF ServerGone
  <2> QED BY <1>0, <1>1, <2>1, <2>2, OrgTypesAre, OrgTypesThen
<1>5. CASE NamespaceEnds
  <2>1. servers' \in [Names -> [id : Nat, going : BOOLEAN]] /\ space' \in SpaceType
    BY <1>0, <1>5 DEF NamespaceEnds
  <2>2. marks' \in MarksType
    BY <1>0, <1>5 DEF NamespaceEnds, MarksType, There
  <2>3. UNCHANGED <<req, made>>
    BY <1>5 DEF NamespaceEnds
  <2> QED BY <1>0, <1>1, <2>1, <2>2, <2>3, OrgTypesAre, OrgTypesThen
<1> QED BY <1>1, <1>2, <1>3, <1>4, <1>5 DEF ServersStep

(* The grants.                                                              *)
GrantsStep(s) == DropGrants(s) \/ SetGrants(s)

LEMMA GrantsTypes ==
  ASSUME OrgTypes, NEW s \in Slots, GrantsStep(s)
  PROVE  /\ OrgTypes' /\ Rest(s) /\ req'[s] = NoRequest
         /\ UNCHANGED <<org, tenant, space, servers, rec, made, requests, faults>>
<1>0. /\ req \in [Slots -> RequestRecords] /\ req[s] \in RequestRecords /\ org \in Nat
      /\ grants \subseteq [row : Nat, name : Names, server : Nat] /\ marks \in MarksType
  BY OrgTypesAre
<1>1. UNCHANGED <<org, tenant, space, servers, rec, made, requests, faults>>
  BY DEF GrantsStep, DropGrants, SetGrants, cluster
<1>2. req' \in [Slots -> RequestRecords] /\ Rest(s) /\ req'[s] = NoRequest
  BY <1>0, HasEnded DEF GrantsStep, DropGrants, SetGrants
<1>3. grants' \subseteq [row : Nat, name : Names, server : Nat]
  BY <1>0 DEF GrantsStep, DropGrants, SetGrants, RequestRecords
<1>4. marks' \in MarksType
  BY <1>0 DEF GrantsStep, DropGrants, SetGrants, RequestRecords, MarksType
<1> QED BY <1>1, <1>2, <1>3, <1>4, OrgTypesAre, OrgTypesThen

-----------------------------------------------------------------------------
(* The operator.                                                            *)
OperatorStep == Operate \/ PassBreaks

(* A pass puts the fences in their order.                                   *)
Fencing ==
  /\ rec.pc \in {"idle", "finalizer", "space"} => rec.done = 0
  /\ rec.pc = "fence" => rec.done \in {0, 1}

LEMMA OperatorTypes ==
  ASSUME OrgTypes, Fencing, OperatorStep
  PROVE  /\ OrgTypes' /\ Fencing'
         /\ UNCHANGED <<org, grants, servers, req, made, requests, marks>>
<1>0. /\ tenant \in TenantType /\ space \in SpaceType /\ rec \in PassType /\ faults \in Nat
      /\ NoTenant \in TenantType /\ NoPass \in PassType /\ NoSpace \in SpaceType
  BY OrgTypesAre, NothingTypes
<1>1. UNCHANGED <<org, grants, servers, req, made, requests, marks>>
  BY DEF OperatorStep, Operate, PassBreaks, ReconcileTenant, AddFinalizer, ReconcileNamespace,
         ReconcileFence, SetStatus, ListSpace, DeleteSpace, RemoveFinalizer, store, cluster
<1>2. faults' \in Nat
  BY <1>0 DEF OperatorStep, Operate, PassBreaks, ReconcileTenant, AddFinalizer,
         ReconcileNamespace, ReconcileFence, SetStatus, ListSpace, DeleteSpace, RemoveFinalizer,
         Fault
<1>3. tenant' \in TenantType
  BY <1>0 DEF OperatorStep, Operate, PassBreaks, ReconcileTenant, AddFinalizer, TenantType,
         ReconcileNamespace, ReconcileFence, SetStatus, ListSpace, DeleteSpace, RemoveFinalizer,
         TenantPhases, cluster
<1>4. Fences[1] = "quota" /\ Fences[2] = "binding" /\ Len(Fences) = 2
  BY DEF Fences
<1>5. CASE ReconcileFence
  <2>1. rec.done \in {0, 1} /\ Fences[rec.done + 1] \in {"quota", "binding"}
    BY <1>4, <1>5 DEF ReconcileFence, Fencing
  <2> DEFINE fence == Fences[rec.done + 1]
  <2>a. \/ UNCHANGED space /\ To("failed")
        \/ /\ space' = [space EXCEPT !.has = @ \cup {fence},
                                      !.hard = IF fence = "quota" THEN rec.quota ELSE @]
           /\ rec' = [rec EXCEPT !.done = @ + 1, !.pc = IF rec.done + 1 = 2 THEN "active" ELSE "fence"]
    BY <1>4, <1>5 DEF ReconcileFence
  <2> HIDE DEF fence
  <2>b. fence \in {"quota", "binding"} /\ rec.quota \in Nat
    BY <1>0, <2>1 DEF fence, PassType
  <2>2. space' \in SpaceType
    <3>1. [space EXCEPT !.has = @ \cup {fence}, !.hard = IF fence = "quota" THEN rec.quota ELSE @]
            \in SpaceType
      BY <1>0, <2>b DEF SpaceType
    <3> QED BY <1>0, <2>a, <3>1
  <2>3. rec' \in PassType /\ Fencing'
    <3>1. CASE To("failed")
      BY <1>0, <3>1 DEF To, PassType, Passes, Fencing
    <3>2. CASE rec' = [rec EXCEPT !.done = @ + 1, !.pc = IF rec.done + 1 = 2 THEN "active" ELSE "fence"]
      <4>1. CASE rec.done = 0
        <5>1. rec.done + 1 = 1
          BY <4>1
        <5>2. rec' = [rec EXCEPT !.done = 1, !.pc = "fence"]
          BY <3>2, <4>1, <5>1
        <5>a. 1 \in 0..2 /\ "fence" \in Passes
          BY DEF Passes
        <5>3. rec' \in PassType
          BY <1>0, <5>2, <5>a DEF PassType
        <5>4. Fencing'
          BY <1>0, <5>2 DEF PassType, Fencing
        <5> QED BY <5>3, <5>4
      <4>2. CASE rec.done = 1
        <5>1. rec.done + 1 = 2
          BY <4>2
        <5>2. rec' = [rec EXCEPT !.done = 2, !.pc = "active"]
          BY <3>2, <4>2, <5>1
        <5>a. 2 \in 0..2 /\ "active" \in Passes
          BY DEF Passes
        <5>3. rec' \in PassType
          BY <1>0, <5>2, <5>a DEF PassType
        <5>4. Fencing'
          BY <1>0, <5>2 DEF PassType, Fencing
        <5> QED BY <5>3, <5>4
      <4> QED BY <2>1, <4>1, <4>2
    <3> QED BY <2>a, <3>1, <3>2
  <2> QED BY <1>1, <1>2, <1>3, <2>2, <2>3, OrgTypesAre, OrgTypesThen
<1>6. CASE ~ReconcileFence
  <2>1. space' \in SpaceType
    <3>1. CASE ReconcileNamespace
      BY <1>0, <3>1 DEF ReconcileNamespace, SpaceType, PassType
    <3>2. CASE DeleteSpace
      BY <1>0, <3>2 DEF DeleteSpace, SpaceType
    <3>3. CASE UNCHANGED space
      BY <1>0, <3>3
    <3> QED BY <1>6, <3>1, <3>2, <3>3 DEF OperatorStep, Operate, PassBreaks, ReconcileTenant,
              AddFinalizer, SetStatus, ListSpace, RemoveFinalizer, cluster
  <2>2. \/ rec' = NoPass
        \/ ReconcileTenant
        \/ \E step \in Passes \ {"idle", "finalizer", "space"} :
             To(step) /\ (step = "fence" => rec.pc = "space")
        \/ To("space") /\ rec.pc = "finalizer"
    BY <1>6 DEF OperatorStep, Operate, PassBreaks, AddFinalizer, ReconcileNamespace, SetStatus,
                ListSpace, DeleteSpace, RemoveFinalizer, PassEnds, Passes
  <2>3. rec' \in PassType /\ Fencing'
    <3>1. CASE rec' = NoPass
      BY <1>0, <3>1 DEF NoPass, Fencing
    <3>2. CASE ReconcileTenant
      BY <1>0, <3>2 DEF ReconcileTenant, NoPass, PassType, TenantType, Passes, Fencing
    <3>3. CASE \E step \in Passes \ {"idle", "finalizer", "space"} :
                 To(step) /\ (step = "fence" => rec.pc = "space")
      BY <1>0, <3>3 DEF To, PassType, Fencing
    <3>4. CASE To("space") /\ rec.pc = "finalizer"
      BY <1>0, <3>4 DEF To, PassType, Fencing, Passes
    <3> QED BY <2>2, <3>1, <3>2, <3>3, <3>4
  <2> QED BY <1>1, <1>2, <1>3, <2>1, <2>3, OrgTypesAre, OrgTypesThen
<1> QED BY <1>1, <1>5, <1>6

-----------------------------------------------------------------------------
LEMMA OrgCases ==
  ASSUME [OrgNext]_orgVars
  PROVE  \/ \E s \in Slots :
              \/ Asks(s) \/ Looks(s) \/ Rows(s) \/ Tenants(s) \/ ServersStep(s) \/ GrantsStep(s)
         \/ OperatorStep
         \/ UNCHANGED orgVars
<1>1. 1 \in Slots
  BY OrgBoundsAssumption DEF Slots
<1>2. CASE \E s \in Slots : Handle(s)
  BY <1>2 DEF Handle, Asks, Looks, Rows, Tenants, ServersStep, GrantsStep
<1>3. CASE UpdateQuota \/ ServerGone \/ NamespaceEnds
  BY <1>1, <1>3 DEF Tenants, ServersStep
<1> QED BY <1>2, <1>3 DEF OrgNext, OperatorStep

LEMMA FencingFrame ==
  ASSUME Fencing, rec'.pc = rec.pc, rec'.done = rec.done
  PROVE  Fencing'
BY DEF Fencing

(* What is written of the Tenant leaves the pass where it is.               *)
LEMMA TenantsPass ==
  ASSUME OrgTypes, NEW s \in Slots, Tenants(s)
  PROVE  rec'.pc = rec.pc /\ rec'.done = rec.done /\ rec'.id = rec.id /\ rec'.quota = rec.quota
<1>1. rec \in PassType
  BY OrgTypesAre
<1>2. rec' = rec \/ Written
  BY DEF Tenants, CreateTenant, DeleteTenant, Breaks, UpdateQuota
<1> QED BY <1>1, <1>2 DEF Written, PassType

LEMMA OrgTypesStep == OrgTypes /\ Fencing /\ [OrgNext]_orgVars => (OrgTypes /\ Fencing)'
<1> SUFFICES ASSUME OrgTypes, Fencing, [OrgNext]_orgVars PROVE OrgTypes' /\ Fencing'
  OBVIOUS
<1>1. ASSUME NEW s \in Slots, Asks(s) \/ Looks(s) \/ Rows(s) \/ ServersStep(s) \/ GrantsStep(s)
      PROVE  OrgTypes' /\ Fencing'
  <2>1. OrgTypes' /\ UNCHANGED rec
    BY <1>1, AskedTypes, HasAsked, LooksTypes, RowsTypes, ServersTypes, GrantsTypes
  <2> QED BY <2>1, FencingFrame
<1>2. ASSUME NEW s \in Slots, Tenants(s) PROVE OrgTypes' /\ Fencing'
  BY <1>2, TenantsTypes, TenantsPass, FencingFrame
<1>3. CASE OperatorStep
  BY <1>3, OperatorTypes
<1>4. CASE UNCHANGED orgVars
  BY <1>4 DEF orgVars, OrgTypes, Fencing
<1> QED BY <1>1, <1>2, <1>3, <1>4, OrgCases

LEMMA OrgTypesBegin == OrgInit => OrgTypes /\ Fencing
<1> SUFFICES ASSUME OrgInit PROVE OrgTypes /\ Fencing
  OBVIOUS
<1>1. Fencing
  BY DEF OrgInit, Fencing, NoPass
<1>2. marks \in MarksType /\ made \in [orgs : Nat, tenants : Nat, servers : Nat]
  BY DEF OrgInit, MarksType
<1>3. req \in [Slots -> RequestRecords] /\ servers \in [Names -> [id : Nat, going : BOOLEAN]]
  BY NothingTypes DEF OrgInit
<1> QED BY <1>1, <1>2, <1>3, NothingTypes, OrgTypesAre DEF OrgInit

(* The types of rows, Tenants, servers and requests.                        *)
THEOREM OrgTypeCorrect == OrgSpec => []OrgTypes
BY OrgTypesBegin, OrgTypesStep, PTL DEF OrgSpec
LEMMA OrgTyped == OrgSpec => [](OrgTypes /\ Fencing)
BY OrgTypesBegin, OrgTypesStep, PTL DEF OrgSpec

-----------------------------------------------------------------------------
(* The namespace and its Tenant.                                            *)

Live == space.owner # 0 /\ ~space.ending

(* A Tenant with a namespace is held by the finalizer, and so is one that   *)
(* the operator works on; it lets go when there is no namespace.            *)
Held ==
  /\ tenant.deleting => tenant.held
  /\ tenant.held => tenant.id # 0
  /\ Live => space.owner = tenant.id /\ tenant.held
  /\ rec.pc \notin {"idle", "finalizer"} => rec.id = tenant.id /\ tenant.held
  /\ rec.pc \in {"list", "sweep", "unfinalize"} => tenant.deleting
  /\ rec.pc = "unfinalize" => ~Live
  /\ rec.pc # "idle" => rec.id # 0

LEMMA HeldFrame ==
  ASSUME Held, UNCHANGED <<tenant, space, rec>> PROVE Held'
BY DEF Held, Live

(* What requests do to the Tenant.                                          *)
LEMMA TenantsMove ==
  ASSUME OrgTypes, NEW s \in Slots, Tenants(s)
  PROVE  \/ /\ tenant'.id = tenant.id /\ tenant'.held = tenant.held
            /\ tenant'.deleting = tenant.deleting
         \/ /\ DeleteTenant(s) /\ tenant.held
            /\ tenant'.id = tenant.id /\ tenant'.held /\ tenant'.deleting
         \/ DeleteTenant(s) /\ ~tenant.held /\ tenant' = NoTenant
         \/ /\ CreateTenant(s) \/ Breaks(s)
            /\ req[s].pc = "tenant" /\ tenant.id = 0
            /\ tenant'.id # 0 /\ ~tenant'.held /\ ~tenant'.deleting
<1>0. tenant \in TenantType /\ made.tenants \in Nat
  BY OrgTypesAre
<1>1. ASSUME NEW q, tenant' = [NoTenant EXCEPT !.id = made.tenants + 1, !.quota = q]
      PROVE  tenant'.id # 0 /\ ~tenant'.held /\ ~tenant'.deleting
  BY <1>0, <1>1 DEF NoTenant
<1>2. CASE CreateTenant(s)
  BY <1>1, <1>2 DEF CreateTenant
<1>3. CASE DeleteTenant(s)
  BY <1>0, <1>3 DEF DeleteTenant, TenantType
<1>4. CASE Breaks(s)
  BY <1>1, <1>4 DEF Breaks
<1>5. CASE UpdateQuota
  BY <1>0, <1>5 DEF UpdateQuota, TenantType
<1> QED BY <1>2, <1>3, <1>4, <1>5 DEF Tenants

LEMMA TenantsHeld ==
  ASSUME OrgTypes, Held, NEW s \in Slots, Tenants(s)
  PROVE  Held'
<1>1. UNCHANGED space /\ rec'.pc = rec.pc /\ rec'.id = rec.id
  BY TenantsTypes, TenantsPass
<1>2. NoTenant.id = 0 /\ ~NoTenant.held /\ ~NoTenant.deleting
  BY DEF NoTenant
<1> QED BY <1>1, <1>2, TenantsMove DEF Held, Live

LEMMA OperatorHeld ==
  ASSUME OrgTypes, Held, OperatorStep
  PROVE  Held'
<1>0. tenant \in TenantType /\ rec \in PassType /\ space \in SpaceType
  BY OrgTypesAre
<1>1. CASE ReconcileTenant
  BY <1>0, <1>1 DEF ReconcileTenant, NoPass, cluster, Held, Live
<1>2. CASE AddFinalizer
  BY <1>0, <1>2 DEF AddFinalizer, Current, To, PassEnds, NoPass, Held, Live, TenantType, PassType
<1>3. CASE ReconcileNamespace
  BY <1>0, <1>3 DEF ReconcileNamespace, To, Held, Live, NoSpace, PassType
<1>4. CASE ReconcileFence
  <2>1. /\ space'.owner = space.owner /\ space'.ending = space.ending /\ UNCHANGED tenant
        /\ rec'.id = rec.id /\ rec'.pc \in {"active", "fence", "failed"} /\ rec.pc = "fence"
    BY <1>0, <1>4 DEF ReconcileFence, To, PassType, SpaceType
  <2> QED BY <2>1 DEF Held, Live
<1>5. CASE SetStatus
  BY <1>0, <1>5 DEF SetStatus, PassEnds, NoPass, Held, Live, TenantType
<1>6. CASE ListSpace
  BY <1>0, <1>6 DEF ListSpace, To, PassEnds, NoPass, Held, Live, TenantType, PassType
<1>7. CASE DeleteSpace
  BY <1>0, <1>7 DEF DeleteSpace, To, Held, Live, SpaceType, PassType
<1>8. CASE RemoveFinalizer
  BY <1>0, <1>8 DEF RemoveFinalizer, PassEnds, NoPass, NoTenant, Held, Live
<1>9. CASE PassBreaks
  BY <1>0, <1>9 DEF PassBreaks, PassEnds, NoPass, cluster, Held, Live
<1> QED BY <1>1, <1>2, <1>3, <1>4, <1>5, <1>6, <1>7, <1>8, <1>9 DEF OperatorStep, Operate

LEMMA HeldStep == OrgTypes /\ Held /\ [OrgNext]_orgVars => Held'
<1> SUFFICES ASSUME OrgTypes, Held, [OrgNext]_orgVars PROVE Held'
  OBVIOUS
<1>1. ASSUME NEW s \in Slots, Asks(s) \/ Looks(s) \/ Rows(s) \/ GrantsStep(s) PROVE Held'
  BY <1>1, HasAsked, LooksTypes, RowsTypes, GrantsTypes, HeldFrame
<1>2. ASSUME NEW s \in Slots, ServersStep(s) PROVE Held'
  <2>1. UNCHANGED <<tenant, rec>> /\ (space' = space \/ space' = NoSpace)
    BY <1>2, ServersTypes DEF ServersStep, CreateServer, DeleteServer, ServerGone, NamespaceEnds
  <2> QED BY <2>1 DEF Held, Live, NoSpace
<1>3. CASE UNCHANGED orgVars
  BY <1>3, HeldFrame DEF orgVars
<1> QED BY <1>1, <1>2, <1>3, TenantsHeld, OperatorHeld, OrgCases

LEMMA HeldBegins == OrgInit => Held
BY DEF OrgInit, Held, Live, NoTenant, NoSpace, NoPass
LEMMA HeldAlways == OrgSpec => []Held
BY HeldBegins, HeldStep, OrgTyped, PTL DEF OrgSpec

-----------------------------------------------------------------------------
(* What Active means.                                                       *)

(* A Tenant that is Active, and stays, has a namespace of its own with      *)
(* everything that fences it in place, the quota and the Panel's rights:    *)
(* setStatus (tenant_controller.go) comes after them; they are not undone.  *)
ActiveIsFenced ==
  tenant.phase = "Active" /\ ~tenant.deleting =>
    space.owner = tenant.id /\ ~space.ending /\ space.has = {"quota", "binding"}

(* A pass that puts up the fences has the namespace, and those so far.      *)
PassFences ==
  /\ rec.pc \in {"fence", "active"} => space.owner = rec.id /\ ~space.ending
  /\ rec.pc = "fence" /\ rec.done = 1 => "quota" \in space.has
  /\ rec.pc = "active" => space.has = {"quota", "binding"}

(* A request makes no Tenant Active, and keeps whose it is.                 *)
LEMMA TenantsPhase ==
  ASSUME OrgTypes, NEW s \in Slots, Tenants(s)
  PROVE  \/ tenant'.phase # "Active" \/ tenant'.deleting
         \/ /\ tenant'.phase = tenant.phase /\ tenant'.id = tenant.id
            /\ tenant'.deleting = tenant.deleting
<1>0. tenant \in TenantType /\ NoTenant.phase = "Pending"
  BY OrgTypesAre DEF NoTenant
<1>1. ASSUME NEW q, tenant' = [NoTenant EXCEPT !.id = made.tenants + 1, !.quota = q]
      PROVE  tenant'.phase # "Active"
  BY <1>1 DEF NoTenant
<1>2. CASE CreateTenant(s)
  BY <1>1, <1>2 DEF CreateTenant
<1>3. CASE DeleteTenant(s)
  BY <1>0, <1>3 DEF DeleteTenant, TenantType
<1>4. CASE Breaks(s)
  BY <1>1, <1>4 DEF Breaks
<1>5. CASE UpdateQuota
  BY <1>0, <1>5 DEF UpdateQuota, TenantType
<1> QED BY <1>2, <1>3, <1>4, <1>5 DEF Tenants

LEMMA FencesFrame ==
  ASSUME ActiveIsFenced, PassFences, UNCHANGED <<tenant, space, rec>>
  PROVE  ActiveIsFenced' /\ PassFences'
BY DEF ActiveIsFenced, PassFences

LEMMA OperatorFences ==
  ASSUME OrgTypes, Fencing, Held, ActiveIsFenced, PassFences, OperatorStep
  PROVE  ActiveIsFenced' /\ PassFences'
<1>0. tenant \in TenantType /\ rec \in PassType /\ space \in SpaceType
  BY OrgTypesAre
<1>1. CASE ReconcileTenant \/ PassBreaks
  <2>1. UNCHANGED <<tenant, space>>
    BY <1>1 DEF ReconcileTenant, PassBreaks, cluster
  <2>2. CASE ReconcileTenant
    <3>1. rec'.pc \in {"list", "space", "finalizer"}
      BY <2>2 DEF ReconcileTenant, NoPass
    <3> QED BY <2>1, <3>1 DEF ActiveIsFenced, PassFences
  <2>3. CASE PassBreaks
    <3>1. rec'.pc = "idle"
      BY <2>3 DEF PassBreaks, PassEnds, NoPass
    <3> QED BY <2>1, <3>1 DEF ActiveIsFenced, PassFences
  <2> QED BY <1>1, <2>2, <2>3
<1>2. CASE AddFinalizer
  <2>1. /\ UNCHANGED space /\ rec'.pc \notin {"fence", "active"}
        /\ tenant'.phase = tenant.phase /\ tenant'.id = tenant.id
        /\ tenant'.deleting = tenant.deleting
    BY <1>0, <1>2 DEF AddFinalizer, To, PassEnds, NoPass, PassType, TenantType
  <2> QED BY <2>1 DEF ActiveIsFenced, PassFences
<1>3. CASE ReconcileNamespace
  <2>1. UNCHANGED tenant /\ tenant.id = rec.id /\ rec.id # 0 /\ rec'.id = rec.id
        /\ rec'.pc \in {"fence", "failed"} /\ rec'.done = 0
    BY <1>0, <1>3 DEF ReconcileNamespace, To, PassType, Held, Fencing
  <2>2. CASE space.owner = 0
    <3>1. space'.owner = rec.id /\ ~space'.ending
      BY <1>3, <2>2 DEF ReconcileNamespace, NoSpace
    <3>2. ~(tenant.phase = "Active" /\ ~tenant.deleting)
      BY <2>1, <2>2 DEF ActiveIsFenced
    <3> QED BY <2>1, <3>1, <3>2 DEF ActiveIsFenced, PassFences
  <2>3. CASE space.owner # 0
    <3>1. UNCHANGED space /\ (rec'.pc = "fence" => space.owner = rec.id /\ ~space.ending)
      BY <1>0, <1>3, <2>3 DEF ReconcileNamespace, To, PassType
    <3> QED BY <2>1, <3>1 DEF ActiveIsFenced, PassFences
  <2> QED BY <2>2, <2>3
<1>4. CASE ReconcileFence
  <2> DEFINE fence == Fences[rec.done + 1]
  <2>1. /\ rec.done \in {0, 1} /\ rec.pc = "fence" /\ UNCHANGED tenant
        /\ rec.done = 0 => fence = "quota"
        /\ rec.done = 1 => fence = "binding"
    BY <1>4 DEF ReconcileFence, Fencing, Fences
  <2>2. CASE space.owner = 0 \/ space.ending
    <3>1. UNCHANGED space /\ rec'.pc = "failed"
      BY <1>0, <1>4, <2>2 DEF ReconcileFence, To, PassType
    <3> QED BY <2>1, <3>1 DEF ActiveIsFenced, PassFences
  <2>3. CASE ~(space.owner = 0 \/ space.ending)
    <3>1. /\ space'.has = space.has \cup {fence} /\ space'.owner = space.owner
          /\ space'.ending = space.ending
      BY <1>0, <1>4, <2>3 DEF ReconcileFence, SpaceType
    <3>2. Len(Fences) = 2
      BY DEF Fences
    <3>3. /\ rec'.id = rec.id /\ rec'.done = rec.done + 1
          /\ rec'.pc = IF rec.done + 1 = 2 THEN "active" ELSE "fence"
      BY <1>0, <1>4, <2>3, <3>2 DEF ReconcileFence, PassType
    <3> HIDE DEF fence
    <3>4. /\ space.has \subseteq {"quota", "binding"} /\ fence \in {"quota", "binding"}
          /\ space.owner = rec.id /\ ~space.ending
      BY <1>0, <2>1 DEF SpaceType, PassFences
    <3>5. ActiveIsFenced'
      BY <2>1, <3>1, <3>4 DEF ActiveIsFenced
    <3>6. CASE rec.done = 0
      <4>1. rec'.pc = "fence" /\ "quota" \in space'.has
        BY <2>1, <3>1, <3>3, <3>6
      <4> QED BY <3>1, <3>3, <3>4, <3>5, <4>1 DEF PassFences
    <3>7. CASE rec.done = 1
      <4>1. rec'.pc = "active" /\ "quota" \in space.has /\ fence = "binding"
        BY <2>1, <3>3, <3>7 DEF PassFences
      <4>2. space'.has = {"quota", "binding"}
        BY <3>1, <3>4, <4>1
      <4> QED BY <3>1, <3>3, <3>4, <3>5, <4>1, <4>2 DEF PassFences
    <3> QED BY <2>1, <3>6, <3>7
  <2> QED BY <2>2, <2>3
<1>5. CASE SetStatus
  <2>1. UNCHANGED space /\ rec'.pc = "idle" /\ rec.pc \in {"active", "failed"}
    BY <1>5 DEF SetStatus, PassEnds, NoPass
  <2>2. \/ UNCHANGED tenant
        \/ /\ tenant.id = rec.id /\ tenant'.id = tenant.id
           /\ tenant'.phase = "Active" => rec.pc = "active"
    BY <1>0, <1>5 DEF SetStatus, Current, TenantType
  <2> QED BY <2>1, <2>2 DEF ActiveIsFenced, PassFences
<1>6. CASE ListSpace \/ RemoveFinalizer
  <2>1. UNCHANGED space /\ rec'.pc \notin {"fence", "active"}
    BY <1>0, <1>6 DEF ListSpace, RemoveFinalizer, To, PassEnds, NoPass, PassType
  <2>2. UNCHANGED tenant \/ tenant'.phase # "Active"
    BY <1>0, <1>6 DEF ListSpace, RemoveFinalizer, NoTenant, TenantType
  <2> QED BY <2>1, <2>2 DEF ActiveIsFenced, PassFences
<1>7. CASE DeleteSpace
  <2>1. UNCHANGED tenant /\ tenant.deleting /\ rec'.pc = "unfinalize"
    BY <1>0, <1>7 DEF DeleteSpace, To, PassType, Held
  <2> QED BY <2>1 DEF ActiveIsFenced, PassFences
<1> QED BY <1>1, <1>2, <1>3, <1>4, <1>5, <1>6, <1>7 DEF OperatorStep, Operate

LEMMA FencesStep ==
  OrgTypes /\ Fencing /\ Held /\ ActiveIsFenced /\ PassFences /\ [OrgNext]_orgVars
    => (ActiveIsFenced /\ PassFences)'
<1> SUFFICES ASSUME OrgTypes, Fencing, Held, ActiveIsFenced, PassFences, [OrgNext]_orgVars
             PROVE  ActiveIsFenced' /\ PassFences'
  OBVIOUS
<1>1. ASSUME NEW s \in Slots, Asks(s) \/ Looks(s) \/ Rows(s) \/ GrantsStep(s)
      PROVE  ActiveIsFenced' /\ PassFences'
  BY <1>1, HasAsked, LooksTypes, RowsTypes, GrantsTypes, FencesFrame
<1>2. ASSUME NEW s \in Slots, ServersStep(s) PROVE ActiveIsFenced' /\ PassFences'
  <2>1. UNCHANGED <<tenant, rec>> /\ (space' = space \/ space.ending)
    BY <1>2, ServersTypes DEF ServersStep, CreateServer, DeleteServer, ServerGone, NamespaceEnds
  <2>2. space.ending => /\ ~(tenant.phase = "Active" /\ ~tenant.deleting)
                        /\ rec.pc \notin {"fence", "active"}
    BY DEF ActiveIsFenced, PassFences
  <2> QED BY <2>1, <2>2 DEF ActiveIsFenced, PassFences
<1>3. ASSUME NEW s \in Slots, Tenants(s) PROVE ActiveIsFenced' /\ PassFences'
  <2>1. UNCHANGED space /\ rec'.pc = rec.pc /\ rec'.id = rec.id /\ rec'.done = rec.done
    BY <1>3, TenantsTypes, TenantsPass
  <2> QED BY <1>3, <2>1, TenantsPhase DEF ActiveIsFenced, PassFences
<1>4. CASE UNCHANGED orgVars
  BY <1>4, FencesFrame DEF orgVars
<1> QED BY <1>1, <1>2, <1>3, <1>4, OperatorFences, OrgCases

(* The phase a member sees is not ahead of the cluster: passes that fail,   *)
(* are repeated, or meet a namespace of a Tenant deleted before never make  *)
(* a Tenant Active before the last fence is up.                             *)
THEOREM ActiveMeansFenced == OrgSpec => []ActiveIsFenced
<1>1. OrgInit => ActiveIsFenced /\ PassFences
  BY DEF OrgInit, ActiveIsFenced, PassFences, NoTenant, NoPass
<1> QED BY <1>1, FencesStep, OrgTyped, HeldAlways, PTL DEF OrgSpec

-----------------------------------------------------------------------------
(* The quota.                                                               *)

(* The quota the operator puts on the namespace is one the Tenant had, and  *)
(* is there before the Panel may create servers.                            *)
Quoted ==
  /\ tenant.quota <= marks.largest /\ rec.quota <= marks.largest
  /\ "quota" \in space.has => space.hard <= marks.largest
  /\ "binding" \in space.has => "quota" \in space.has
  /\ rec.pc = "fence" /\ rec.done = 1 /\ space.owner # 0 => "quota" \in space.has

Counts == IsFiniteSet(There) /\ WithinQuota

LEMMA QuotedFrame ==
  ASSUME OrgTypes, Quoted, UNCHANGED <<tenant, space, rec>>, marks'.largest = marks.largest
  PROVE  Quoted'
BY DEF Quoted

LEMMA CountsFrame ==
  ASSUME OrgTypes, Counts, UNCHANGED servers, marks' \in MarksType, marks'.largest >= marks.largest
  PROVE  Counts'
<1>1. There' = There
  BY DEF There
<1>2. Cardinality(There) \in Nat /\ marks.largest \in Nat /\ marks'.largest \in Nat
  BY FS_CardinalityType, OrgTypesAre DEF Counts, MarksType
<1> QED BY <1>1, <1>2 DEF Counts, WithinQuota

(* The largest quota is at least the Tenant's.                              *)
LEMMA TenantsQuoted ==
  ASSUME OrgTypes, Quoted, NEW s \in Slots, Tenants(s)
  PROVE  Quoted' /\ marks'.largest >= marks.largest
<1>0. /\ tenant \in TenantType /\ marks \in MarksType /\ req[s].quota \in Nat
      /\ tenant.quota \in Nat /\ marks.largest \in Nat /\ rec.quota \in Nat /\ space.hard \in Nat
      /\ tenant' \in TenantType /\ tenant'.quota \in Nat /\ marks' \in MarksType
  <2>1. req \in [Slots -> RequestRecords] /\ OrgTypes'
    BY OrgTypesAre, TenantsTypes
  <2>2. tenant' \in TenantType /\ marks' \in MarksType
    BY <2>1, FencesAre DEF OrgTypes, TenantType, MarksType
  <2> QED BY <2>1, <2>2, OrgTypesAre DEF RequestRecords, TenantType, MarksType, PassType, SpaceType
<1>1. marks'.largest >= marks.largest /\ tenant'.quota <= marks'.largest
  <2>1. CASE CreateTenant(s)
    <3>0. Crossing(s) \in MarksType /\ Crossing(s).largest = marks.largest
      BY <1>0 DEF Crossing, Crosses, MarksType
    <3>1. CASE tenant.id # 0
      <4>1. marks' = Crossing(s) /\ tenant' = tenant
        BY <2>1, <3>1 DEF CreateTenant
      <4> QED BY <1>0, <3>0, <4>1 DEF Quoted
    <3>2. CASE tenant.id = 0
      <4>1. /\ tenant' = [NoTenant EXCEPT !.id = made.tenants + 1, !.quota = req[s].quota]
            /\ marks' = [Crossing(s) EXCEPT !.largest = IF req[s].quota > @ THEN req[s].quota ELSE @]
        BY <2>1, <3>2 DEF CreateTenant
      <4>2. tenant'.quota = req[s].quota
        BY <4>1 DEF NoTenant
      <4> QED BY <1>0, <3>0, <4>1, <4>2, MarkedLargest
    <3> QED BY <3>1, <3>2
  <2>2. CASE DeleteTenant(s)
    <3>1. marks'.largest = marks.largest
      BY <1>0, <2>2 DEF DeleteTenant, Crossing, Crosses, MarksType
    <3>2. tenant'.quota \in {tenant.quota, 0}
      BY <1>0, <2>2 DEF DeleteTenant, NoTenant, TenantType
    <3> QED BY <1>0, <3>1, <3>2 DEF Quoted
  <2>3. CASE Breaks(s)
    <3>1. marks'.largest = IF tenant'.quota > marks.largest THEN tenant'.quota ELSE marks.largest
      BY <1>0, <2>3 DEF Breaks, MarksType
    <3> QED BY <1>0, <3>1
  <2>4. CASE UpdateQuota
    <3>1. PICK q \in Nat : /\ tenant' = [tenant EXCEPT !.quota = q]
                           /\ marks' = [marks EXCEPT !.largest = IF q > @ THEN q ELSE @]
      BY <2>4, QuotasAssumption DEF UpdateQuota
    <3>2. tenant'.quota = q
      BY <1>0, <3>1 DEF TenantType
    <3> QED BY <1>0, <3>1, <3>2, MarkedLargest
  <2> QED BY <2>1, <2>2, <2>3, <2>4 DEF Tenants
<1>2. UNCHANGED space /\ rec'.pc = rec.pc /\ rec'.done = rec.done /\ rec'.quota = rec.quota
  BY TenantsTypes, TenantsPass
<1>3. marks'.largest \in Nat
  BY <1>0 DEF MarksType
<1> QED BY <1>0, <1>1, <1>2, <1>3 DEF Quoted

LEMMA OperatorQuoted ==
  ASSUME OrgTypes, Fencing, Quoted, OperatorStep
  PROVE  Quoted'
<1>0. /\ tenant \in TenantType /\ rec \in PassType /\ space \in SpaceType /\ UNCHANGED marks
      /\ marks.largest \in Nat /\ tenant.quota \in Nat
  BY OrgTypesAre, OperatorTypes DEF MarksType, TenantType
<1>1. CASE ReconcileFence
  <2> DEFINE fence == Fences[rec.done + 1]
  <2>1. rec.done \in {0, 1} /\ (rec.done = 0 => fence = "quota") /\ (rec.done = 1 => fence = "binding")
    BY <1>1 DEF ReconcileFence, Fencing, Fences
  <2>2. rec'.quota = rec.quota /\ UNCHANGED tenant /\ rec.pc = "fence"
    BY <1>0, <1>1 DEF ReconcileFence, To, PassType
  <2>3. CASE space.owner = 0 \/ space.ending
    <3>1. UNCHANGED space /\ rec'.pc = "failed"
      BY <1>0, <1>1, <2>3 DEF ReconcileFence, To, PassType
    <3> QED BY <1>0, <2>2, <3>1 DEF Quoted
  <2>4. CASE ~(space.owner = 0 \/ space.ending)
    <3>1. /\ space'.has = space.has \cup {fence}
          /\ space'.hard = (IF fence = "quota" THEN rec.quota ELSE space.hard)
      BY <1>0, <1>1, <2>4 DEF ReconcileFence, SpaceType
    <3> HIDE DEF fence
    <3>2. CASE rec.done = 0
      BY <1>0, <2>1, <2>2, <3>1, <3>2 DEF Quoted
    <3>3. CASE rec.done = 1
      BY <1>0, <2>1, <2>2, <2>4, <3>1, <3>3 DEF Quoted
    <3> QED BY <2>1, <3>2, <3>3
  <2> QED BY <2>3, <2>4
<1>2. CASE ReconcileNamespace
  <2>1. UNCHANGED tenant /\ rec'.quota = rec.quota /\ rec'.done = 0
    BY <1>0, <1>2 DEF ReconcileNamespace, To, PassType, Fencing
  <2>2. space' = space \/ space'.has = {}
    BY <1>2 DEF ReconcileNamespace, NoSpace
  <2> QED BY <1>0, <2>1, <2>2 DEF Quoted
<1>3. CASE ~ReconcileFence /\ ~ReconcileNamespace
  <2>1. space'.has = space.has /\ space'.hard = space.hard
    BY <1>0, <1>3 DEF OperatorStep, Operate, PassBreaks, ReconcileTenant, AddFinalizer, SetStatus,
                ListSpace, DeleteSpace, RemoveFinalizer, cluster, SpaceType
  <2>2. tenant'.quota \in {tenant.quota, 0}
    BY <1>0, <1>3 DEF OperatorStep, Operate, PassBreaks, ReconcileTenant, AddFinalizer, SetStatus,
                ListSpace, DeleteSpace, RemoveFinalizer, cluster, TenantType, NoTenant
  <2>3. rec'.pc # "fence" /\ rec'.quota \in {tenant.quota, rec.quota, 0}
    <3>1. PassEnds \/ ReconcileTenant \/ \E step \in Passes \ {"fence"} : To(step)
      BY <1>3 DEF OperatorStep, Operate, PassBreaks, AddFinalizer, SetStatus, ListSpace,
                  DeleteSpace, RemoveFinalizer, Passes
    <3>2. CASE PassEnds
      BY <3>2 DEF PassEnds, NoPass
    <3>3. CASE ReconcileTenant
      BY <3>3 DEF ReconcileTenant, NoPass
    <3>4. CASE \E step \in Passes \ {"fence"} : To(step)
      BY <1>0, <3>4 DEF To, PassType
    <3> QED BY <3>1, <3>2, <3>3, <3>4
  <2> QED BY <1>0, <2>1, <2>2, <2>3 DEF Quoted
<1> QED BY <1>1, <1>2, <1>3

LEMMA ServersQuoted ==
  ASSUME OrgTypes, Quoted, Counts, NEW s \in Slots, ServersStep(s)
  PROVE  Quoted' /\ Counts'
<1>0. /\ UNCHANGED <<tenant, rec>> /\ marks'.largest = marks.largest
      /\ marks.largest \in Nat /\ space.hard \in Nat
      /\ servers \in [Names -> [id : Nat, going : BOOLEAN]]
      /\ IsFiniteSet(There) /\ Cardinality(There) \in Nat
  BY OrgTypesAre, ServersTypes, FS_CardinalityType
     DEF ServersStep, CreateServer, DeleteServer, ServerGone, NamespaceEnds, MarksType, SpaceType,
         Counts
<1>1. Quoted'
  <2>1. space' = space \/ space' = NoSpace
    BY DEF ServersStep, CreateServer, DeleteServer, ServerGone, NamespaceEnds
  <2> QED BY <1>0, <2>1 DEF Quoted, NoSpace
<1>2. CASE There' \subseteq There
  <2>1. IsFiniteSet(There') /\ Cardinality(There') \in Nat /\ Cardinality(There') <= Cardinality(There)
    BY <1>0, <1>2, FS_Subset, FS_CardinalityType
  <2> QED BY <1>0, <1>1, <2>1 DEF Counts, WithinQuota
<1>3. CASE ~(There' \subseteq There)
  <2>1. CreateServer(s) /\ ~(servers' = servers)
    BY <1>0, <1>3 DEF ServersStep, DeleteServer, ServerGone, NamespaceEnds, There, NoServer
  <2>2. /\ "binding" \in space.has /\ ("quota" \in space.has => Cardinality(There) < space.hard)
        /\ servers' = [servers EXCEPT ![req[s].name] = [id |-> made.servers + 1, going |-> FALSE]]
    BY <2>1 DEF CreateServer
  <2>3. There' \subseteq There \cup {req[s].name}
    BY <1>0, <2>2 DEF There
  <2>4. IsFiniteSet(There \cup {req[s].name})
        /\ Cardinality(There \cup {req[s].name}) <= Cardinality(There) + 1
        /\ Cardinality(There \cup {req[s].name}) \in Nat
    <3>1. CASE req[s].name \in There
      <4>1. There \cup {req[s].name} = There
        BY <3>1
      <4>2. Cardinality(There) <= Cardinality(There) + 1
        BY <1>0
      <4>3. IsFiniteSet(There) /\ Cardinality(There) \in Nat
        BY <1>0
      <4> HIDE DEF There
      <4> QED BY <4>1, <4>2, <4>3
    <3>2. CASE req[s].name \notin There
      <4>1. /\ IsFiniteSet(There \cup {req[s].name})
            /\ Cardinality(There \cup {req[s].name}) = Cardinality(There) + 1
        BY <1>0, <3>2, FS_AddElement
      <4> QED BY <1>0, <4>1
    <3> QED BY <3>1, <3>2
  <2>5. /\ IsFiniteSet(There') /\ Cardinality(There') \in Nat
        /\ Cardinality(There') <= Cardinality(There \cup {req[s].name})
    BY <2>3, <2>4, FS_Subset, FS_CardinalityType
  <2>6. Cardinality(There) < marks.largest
    BY <1>0, <2>2 DEF Quoted
  <2> QED BY <1>0, <1>1, <2>4, <2>5, <2>6 DEF Counts, WithinQuota
<1> QED BY <1>2, <1>3

LEMMA QuotedStep ==
  OrgTypes /\ Fencing /\ Quoted /\ Counts /\ [OrgNext]_orgVars => (Quoted /\ Counts)'
<1> SUFFICES ASSUME OrgTypes, Fencing, Quoted, Counts, [OrgNext]_orgVars PROVE Quoted' /\ Counts'
  OBVIOUS
<1>0. marks \in MarksType /\ marks.largest \in Nat
  BY OrgTypesAre DEF MarksType
<1>1. ASSUME UNCHANGED <<tenant, space, rec, servers>>, marks' \in MarksType,
             marks'.largest = marks.largest
      PROVE  Quoted' /\ Counts'
  BY <1>0, <1>1, QuotedFrame, CountsFrame
<1>2. ASSUME NEW s \in Slots, Asks(s) \/ Looks(s) PROVE Quoted' /\ Counts'
  BY <1>0, <1>1, <1>2, HasAsked, LooksTypes
<1>3. ASSUME NEW s \in Slots, Rows(s) \/ GrantsStep(s) PROVE Quoted' /\ Counts'
  <2>1. UNCHANGED <<tenant, space, rec, servers>> /\ OrgTypes'
    BY <1>3, RowsTypes, GrantsTypes
  <2>2. marks' \in MarksType
    BY <2>1, FencesAre DEF OrgTypes, MarksType
  <2>3. marks'.largest = marks.largest
    BY <1>0, <1>3 DEF Rows, GrantsStep, CreateRow, Undo, DeleteRow, DropGrants, SetGrants, Crossing,
                      Crosses, MarksType
  <2> QED BY <1>1, <2>1, <2>2, <2>3
<1>4. ASSUME NEW s \in Slots, Tenants(s) PROVE Quoted' /\ Counts'
  <2>1. UNCHANGED servers /\ OrgTypes' /\ Quoted' /\ marks'.largest >= marks.largest
    BY <1>4, TenantsTypes, TenantsQuoted
  <2>2. marks' \in MarksType
    BY <2>1, FencesAre DEF OrgTypes, MarksType
  <2> QED BY <2>1, <2>2, CountsFrame
<1>5. CASE OperatorStep
  <2>1. UNCHANGED <<servers, marks>>
    BY <1>5, OperatorTypes
  <2> QED BY <1>0, <1>5, <2>1, OperatorQuoted, CountsFrame
<1>6. CASE UNCHANGED orgVars
  BY <1>0, <1>1, <1>6 DEF orgVars
<1> QED BY <1>2, <1>3, <1>4, <1>5, <1>6, ServersQuoted, OrgCases

LEMMA QuotedBegins == OrgInit => Quoted /\ Counts
<1> SUFFICES ASSUME OrgInit PROVE Quoted /\ Counts
  OBVIOUS
<1>1. There = {}
  BY DEF OrgInit, There, NoServer
<1>2. Quoted
  BY DEF OrgInit, Quoted, NoTenant, NoPass, NoSpace
<1>3. marks.largest = 0
  BY DEF OrgInit
<1> QED BY <1>1, <1>2, <1>3, FS_EmptySet DEF Counts, WithinQuota

(* There are never more servers than the largest quota the Tenant had.      *)
THEOREM QuotaHolds == OrgSpec => []WithinQuota
<1>1. OrgSpec => [](Quoted /\ Counts)
  BY QuotedBegins, QuotedStep, OrgTyped, PTL DEF OrgSpec
<1>2. Counts => WithinQuota
  BY DEF Counts
<1> QED BY <1>1, <1>2, PTL

-----------------------------------------------------------------------------
(* The course of a request.                                                 *)

CourseOf(op) ==
  CASE op = "none" -> {"idle"}
    [] op = "org" -> {"row", "tenant", "undo"}
    [] op = "unorg" -> {"list", "delete", "unrow"}
    [] op = "server" -> {"quota", "create"}
    [] op = "unserver" -> {"remove", "drop"}
    [] op = "grant" -> {"check", "set"}

OnCourse(r) == r.pc \in CourseOf(r.op)
AllOnCourse == \A s \in Slots : OnCourse(req[s])

Edges == {<<"row", "tenant">>, <<"tenant", "undo">>, <<"list", "delete">>, <<"delete", "unrow">>,
          <<"quota", "create">>, <<"remove", "drop">>, <<"check", "set">>}

(* s goes on to its next step, with the row it has but for the first.       *)
Advances(s) == \E step \in PCs :
  /\ GoesOn(s, step) /\ <<req[s].pc, step>> \in Edges
  /\ req[s].pc # "row" => req'[s].row = req[s].row

(* Nothing happens to the requests, or s ends, or it goes on.               *)
Moves(s) == UNCHANGED req \/ (Rest(s) /\ req'[s] = NoRequest) \/ Advances(s)

LEMMA LooksMove ==
  ASSUME OrgTypes, NEW s \in Slots, Looks(s) PROVE Moves(s)
<1>0. req \in [Slots -> RequestRecords] /\ req[s] \in RequestRecords
  BY OrgTypesAre
<1>1. CASE Ends(s)
  BY <1>0, <1>1, HasEnded DEF Moves
<1>2. CASE ListOrg(s) /\ ~Ends(s)
  BY <1>0, <1>2, WentOn DEF ListOrg, Moves, Advances, Edges, PCs
<1>3. CASE CheckQuota(s) /\ ~Ends(s)
  BY <1>0, <1>3, WentOn DEF CheckQuota, Moves, Advances, Edges, PCs
<1>4. CASE CheckServer(s) /\ ~Ends(s)
  <2>1. /\ req' = [req EXCEPT ![s].pc = "set", ![s].saw = servers[req[s].name].id,
                              ![s].late = servers[req[s].name].going]
        /\ req[s].pc = "check"
    BY <1>4 DEF CheckServer
  <2>2. GoesOn(s, "set") /\ req'[s].row = req[s].row
    BY <1>0, <2>1 DEF GoesOn, Rest, Alike, RequestRecords
  <2> QED BY <2>1, <2>2 DEF Moves, Advances, Edges, PCs
<1> QED BY <1>1, <1>2, <1>3, <1>4 DEF Looks

LEMMA RowsMove ==
  ASSUME OrgTypes, NEW s \in Slots, Rows(s) PROVE Moves(s)
<1>0. req \in [Slots -> RequestRecords] /\ req[s] \in RequestRecords
  BY OrgTypesAre
<1>1. CASE Ends(s)
  BY <1>0, <1>1, HasEnded DEF Moves
<1>2. CASE CreateRow(s) /\ ~Ends(s)
  <2>1. req' = [req EXCEPT ![s].pc = "tenant", ![s].row = org'] /\ req[s].pc = "row"
    BY <1>2 DEF CreateRow
  <2>2. GoesOn(s, "tenant")
    BY <1>0, <2>1 DEF GoesOn, Rest, Alike, RequestRecords
  <2> QED BY <2>1, <2>2 DEF Moves, Advances, Edges, PCs
<1> QED BY <1>1, <1>2 DEF Rows, Undo, DeleteRow

LEMMA TenantsReqMove ==
  ASSUME OrgTypes, NEW s \in Slots, Tenants(s) PROVE Moves(s)
<1>0. req \in [Slots -> RequestRecords]
  BY OrgTypesAre
<1>1. \/ UNCHANGED req \/ Ends(s)
      \/ req[s].pc = "tenant" /\ Goes(s, "undo")
      \/ req[s].pc = "delete" /\ Goes(s, "unrow")
  BY DEF Tenants, CreateTenant, DeleteTenant, Breaks, UpdateQuota
<1> QED BY <1>0, <1>1, WentOn, HasEnded DEF Moves, Advances, Edges, PCs

LEMMA ServersMove ==
  ASSUME OrgTypes, NEW s \in Slots, ServersStep(s) PROVE Moves(s)
<1>0. req \in [Slots -> RequestRecords] /\ req[s] \in RequestRecords
  BY OrgTypesAre
<1>1. CASE UNCHANGED req \/ Ends(s)
  BY <1>0, <1>1, HasEnded DEF Moves
<1>2. CASE DeleteServer(s) /\ ~Ends(s)
  <2>1. /\ req' = [t \in Slots |->
               IF t = s THEN [req[s] EXCEPT !.pc = "drop"]
               ELSE [req[t] EXCEPT !.late = @ \/ (req[t].pc = "set" /\ req[t].name = req[s].name)]]
        /\ req[s].pc = "remove"
    BY <1>2 DEF DeleteServer
  <2>2. \A t \in Slots \ {s} : Alike(req[t], req'[t])
    BY <1>0, <2>1 DEF Alike, RequestRecords
  <2>3. /\ req'[s].op = req[s].op /\ req'[s].name = req[s].name /\ req'[s].pc = "drop"
        /\ req'[s].row = req[s].row
    BY <1>0, <2>1 DEF RequestRecords
  <2> QED BY <2>1, <2>2, <2>3 DEF Moves, Advances, GoesOn, Rest, Edges, PCs
<1> QED BY <1>1, <1>2 DEF ServersStep, CreateServer, ServerGone, NamespaceEnds

LEMMA AlikeOnCourse == ASSUME NEW r, NEW x, OnCourse(r), Alike(r, x) PROVE OnCourse(x)
BY DEF OnCourse, Alike

LEMMA NothingOnCourse == OnCourse(NoRequest)
BY DEF OnCourse, NoRequest, CourseOf

LEMMA EdgesOnCourse ==
  ASSUME NEW r \in RequestRecords, NEW x, OnCourse(r), x.op = r.op, <<r.pc, x.pc>> \in Edges
  PROVE  OnCourse(x)
<1>1. r.op \in Ops /\ r.pc \in CourseOf(r.op) /\ x.op = r.op
  BY DEF RequestRecords, OnCourse
<1>2. \/ r.pc = "row" /\ x.pc = "tenant"
      \/ r.pc = "tenant" /\ x.pc = "undo"
      \/ r.pc = "list" /\ x.pc = "delete"
      \/ r.pc = "delete" /\ x.pc = "unrow"
      \/ r.pc = "quota" /\ x.pc = "create"
      \/ r.pc = "remove" /\ x.pc = "drop"
      \/ r.pc = "check" /\ x.pc = "set"
  BY DEF Edges
<1>3. \E op \in Ops : r.op = op /\ r.pc \in CourseOf(op)
  BY <1>1
<1> QED BY <1>1, <1>2 DEF OnCourse, CourseOf, Ops

LEMMA MovesCourse ==
  ASSUME OrgTypes, AllOnCourse, NEW s \in Slots, Moves(s) PROVE AllOnCourse'
<1>1. CASE UNCHANGED req
  BY <1>1 DEF AllOnCourse
<1>2. CASE Rest(s) /\ req'[s] = NoRequest
  BY <1>2, AlikeOnCourse, NothingOnCourse DEF AllOnCourse, Rest
<1>3. CASE Advances(s)
  <2>1. PICK step \in PCs : GoesOn(s, step) /\ <<req[s].pc, step>> \in Edges
    BY <1>3 DEF Advances
  <2>2. OnCourse(req'[s])
    <3>1. req[s] \in RequestRecords
      BY OrgTypesAre
    <3> QED BY <2>1, <3>1, EdgesOnCourse DEF AllOnCourse, GoesOn
  <2>3. \A t \in Slots \ {s} : OnCourse(req'[t])
    BY <2>1, AlikeOnCourse DEF AllOnCourse, GoesOn, Rest
  <2> QED BY <2>2, <2>3 DEF AllOnCourse
<1> QED BY <1>1, <1>2, <1>3 DEF Moves

LEMMA GrantsMove ==
  ASSUME OrgTypes, NEW s \in Slots, GrantsStep(s) PROVE Moves(s)
BY GrantsTypes DEF Moves

LEMMA CourseStep == OrgTypes /\ Fencing /\ AllOnCourse /\ [OrgNext]_orgVars => AllOnCourse'
<1> SUFFICES ASSUME OrgTypes, Fencing, AllOnCourse, [OrgNext]_orgVars PROVE AllOnCourse'
  OBVIOUS
<1>1. ASSUME NEW s \in Slots, Asks(s) PROVE AllOnCourse'
  <2>1. OnCourse(req'[s])
    BY <1>1, HasAsked DEF OnCourse, CourseOf
  <2> QED BY <1>1, <2>1, HasAsked, AlikeOnCourse DEF AllOnCourse, Rest
<1>2. ASSUME NEW s \in Slots,
             Looks(s) \/ Rows(s) \/ Tenants(s) \/ ServersStep(s) \/ GrantsStep(s)
      PROVE  AllOnCourse'
  BY <1>2, LooksMove, RowsMove, TenantsReqMove, ServersMove, GrantsMove, MovesCourse
<1>3. CASE OperatorStep \/ UNCHANGED orgVars
  <2>1. UNCHANGED req
    BY <1>3, OperatorTypes DEF orgVars
  <2> QED BY <2>1 DEF AllOnCourse
<1> QED BY <1>1, <1>2, <1>3, OrgCases

LEMMA CourseBegins == OrgInit => AllOnCourse
BY DEF OrgInit, AllOnCourse, OnCourse, NoRequest, CourseOf
LEMMA CourseAlways == OrgSpec => []AllOnCourse
BY CourseBegins, CourseStep, OrgTyped, PTL DEF OrgSpec

-----------------------------------------------------------------------------
(* The two halves of an organization.                                       *)

Stays == tenant.id # 0 /\ ~tenant.deleting
Makes(t) == req[t].pc \in {"tenant", "undo"}
Between(t) == Makes(t) \/ req[t].pc = "unrow"

(* While a request is between the two halves, there is no Tenant to stay;   *)
(* one that makes an organization has made the row, and is the only one.    *)
HalvesMatch ==
  /\ (\A t \in Slots : ~Between(t)) => (org # 0 <=> Stays)
  /\ \A t \in Slots : Between(t) => ~Stays
  /\ \A t \in Slots : Makes(t) =>
       org # 0 /\ \A o \in Slots \ {t} : ~Makes(o)
Halves == ~marks.broken /\ ~marks.crossed => HalvesMatch

Marked == (marks.broken => marks'.broken) /\ (marks.crossed => marks'.crossed)

(* A step that leaves rows, Tenants and requests between the halves alone.  *)
LEMMA HalvesFrame ==
  ASSUME Halves, Marked, org' = org, Stays' <=> Stays,
         \A t \in Slots : (Between(t)' <=> Between(t)) /\ (Makes(t)' <=> Makes(t))
  PROVE  Halves'
BY DEF Halves, HalvesMatch, Marked

(* A step of a request that is not between the halves before or after.      *)
LEMMA Apart ==
  ASSUME NEW s \in Slots, Rest(s), ~Between(s), ~Between(s)'
  PROVE  \A t \in Slots : (Between(t)' <=> Between(t)) /\ (Makes(t)' <=> Makes(t))
BY DEF Rest, Alike, Between, Makes

LEMMA LooksHalves ==
  ASSUME OrgTypes, Halves, NEW s \in Slots, Asks(s) \/ Looks(s)
  PROVE  Halves'
<1>1. UNCHANGED <<org, tenant, marks>>
  BY HasAsked, LooksTypes
<1>2. CASE Asks(s)
  <2>1. Rest(s) /\ ~Between(s) /\ ~Between(s)'
    BY <1>2, HasAsked DEF Between, Makes
  <2> QED BY <1>1, <2>1, Apart, HalvesFrame DEF Marked, Stays
<1>3. CASE Looks(s)
  <2>1. UNCHANGED req \/ (Rest(s) /\ ~Between(s) /\ ~Between(s)')
    <3>1. req[s].pc \in {"list", "quota", "check"}
      BY <1>3 DEF Looks, ListOrg, CheckQuota, CheckServer
    <3>2. CASE Rest(s) /\ req'[s] = NoRequest
      BY <3>1, <3>2 DEF Between, Makes, NoRequest
    <3>3. CASE Advances(s)
      BY <3>1, <3>3 DEF Advances, GoesOn, Edges, Between, Makes
    <3> QED BY <1>3, <3>2, <3>3, LooksMove DEF Moves
  <2>2. CASE UNCHANGED req
    BY <1>1, <2>2, HalvesFrame DEF Marked, Stays, Between, Makes
  <2> QED BY <1>1, <2>1, <2>2, Apart, HalvesFrame DEF Marked, Stays
<1> QED BY <1>2, <1>3

LEMMA GrantsHalves ==
  ASSUME OrgTypes, Halves, NEW s \in Slots, GrantsStep(s)
  PROVE  Halves'
<1>0. UNCHANGED <<org, tenant>> /\ Rest(s) /\ req'[s] = NoRequest
  BY GrantsTypes
<1>1. ~Between(s) /\ ~Between(s)'
  BY <1>0 DEF GrantsStep, DropGrants, SetGrants, Between, Makes, NoRequest
<1>2. Marked
  BY OrgTypesAre DEF Marked, GrantsStep, DropGrants, SetGrants, MarksType
<1> QED BY <1>0, <1>1, <1>2, Apart, HalvesFrame DEF Stays

LEMMA ServersHalves ==
  ASSUME OrgTypes, Halves, NEW s \in Slots, ServersStep(s)
  PROVE  Halves'
<1>1. UNCHANGED <<org, tenant>>
  BY ServersTypes
<1>2. Marked
  BY OrgTypesAre
     DEF Marked, ServersStep, CreateServer, DeleteServer, ServerGone, NamespaceEnds, MarksType
<1>3. CASE UNCHANGED req
  BY <1>1, <1>2, <1>3, HalvesFrame DEF Stays, Between, Makes
<1>4. CASE ~UNCHANGED req
  <2>1. req[s].pc \in {"create", "remove"}
    BY <1>4 DEF ServersStep, CreateServer, DeleteServer, ServerGone, NamespaceEnds
  <2>2. CASE Rest(s) /\ req'[s] = NoRequest
    <3>1. ~Between(s) /\ ~Between(s)'
      BY <2>1, <2>2 DEF Between, Makes, NoRequest
    <3> QED BY <1>1, <1>2, <2>2, <3>1, Apart, HalvesFrame DEF Stays
  <2>3. CASE Advances(s)
    <3>1. Rest(s) /\ ~Between(s) /\ ~Between(s)'
      BY <2>1, <2>3 DEF Advances, GoesOn, Edges, Between, Makes
    <3> QED BY <1>1, <1>2, <3>1, Apart, HalvesFrame DEF Stays
  <2> QED BY <1>4, <2>2, <2>3, ServersMove DEF Moves
<1> QED BY <1>3, <1>4

LEMMA OperatorHalves ==
  ASSUME OrgTypes, Fencing, Held, Halves, OperatorStep
  PROVE  Halves'
<1>0. UNCHANGED <<org, req, marks>> /\ tenant \in TenantType
  BY OperatorTypes, OrgTypesAre
<1>1. Stays' <=> Stays
  <2>1. CASE RemoveFinalizer
    BY <2>1 DEF RemoveFinalizer, Stays, Held, NoTenant
  <2>2. CASE ~RemoveFinalizer
    <3>1. tenant'.id = tenant.id /\ tenant'.deleting = tenant.deleting
      BY <1>0, <2>2 DEF OperatorStep, Operate, PassBreaks, ReconcileTenant, AddFinalizer, TenantType,
           ReconcileNamespace, ReconcileFence, SetStatus, ListSpace, DeleteSpace, cluster
    <3> QED BY <3>1 DEF Stays
  <2> QED BY <2>1, <2>2
<1> QED BY <1>0, <1>1, HalvesFrame DEF Marked, Between, Makes

(* A creation that meets a deletion, or the other way round, is marked.     *)
LEMMA Crossed ==
  ASSUME OrgTypes, AllOnCourse, NEW s \in Slots, NEW t \in Slots, ~Crossing(s).crossed,
         Between(s) \/ req[s].pc = "delete"
  PROVE  /\ Makes(s) => req[t].pc # "unrow"
         /\ ~Makes(s) => ~Makes(t)
<1>0. /\ req[s] \in RequestRecords /\ req[t] \in RequestRecords /\ marks \in MarksType
      /\ OnCourse(req[s]) /\ OnCourse(req[t])
  BY OrgTypesAre DEF AllOnCourse
<1>1. {req[s].op, req[t].op} # {"org", "unorg"}
  BY <1>0 DEF Crossing, Crosses, MarksType
<1>2. \A u \in {s, t} : /\ Makes(u) => req[u].op = "org"
                        /\ req[u].pc \in {"unrow", "delete"} => req[u].op = "unorg"
  BY <1>0 DEF OnCourse, CourseOf, RequestRecords, Ops, Makes
<1> QED BY <1>1, <1>2 DEF Between, Makes

(* Requests other than s stay where they are.                               *)
LEMMA RestApart ==
  ASSUME NEW s \in Slots, Rest(s), NEW t \in Slots \ {s}
  PROVE  (Between(t)' <=> Between(t)) /\ (Makes(t)' <=> Makes(t))
BY DEF Rest, Alike, Between, Makes

LEMMA CrossingMarks ==
  ASSUME OrgTypes, NEW s \in Slots
  PROVE  /\ Crossing(s).broken = marks.broken /\ (marks.crossed => Crossing(s).crossed)
         /\ Crossing(s) \in MarksType
BY OrgTypesAre DEF Crossing, Crosses, MarksType

LEMMA RowsHalves ==
  ASSUME OrgTypes, AllOnCourse, Halves, NEW s \in Slots, Rows(s)
  PROVE  Halves'
<1>0. /\ UNCHANGED tenant /\ req \in [Slots -> RequestRecords] /\ org \in Nat
      /\ made.orgs \in Nat
  BY RowsTypes, OrgTypesAre
<1>1. CASE CreateRow(s)
  <2>0. UNCHANGED marks /\ req[s].pc = "row" /\ ~Between(s)
    BY <1>1 DEF CreateRow, Between, Makes
  <2>1. CASE Ends(s)
    <3>1. UNCHANGED org
      <4>1. CASE org = 0
        <5>1. req'[s].pc = "tenant" /\ req'[s].pc = "idle"
          BY <1>0, <1>1, <2>1, <4>1, HasEnded DEF CreateRow, NoRequest, RequestRecords
        <5> QED BY <5>1
      <4> QED BY <1>1, <4>1 DEF CreateRow
    <3>2. Rest(s) /\ ~Between(s)'
      <4>1. Rest(s) /\ req'[s] = NoRequest
        BY <1>0, <2>1, HasEnded
      <4> QED BY <4>1 DEF NoRequest, Between, Makes
    <3> QED BY <1>0, <2>0, <3>1, <3>2, Apart, HalvesFrame DEF Marked, Stays
  <2>2. CASE ~Ends(s)
    <3>1. org = 0 /\ org' # 0 /\ req' = [req EXCEPT ![s].pc = "tenant", ![s].row = org']
      BY <1>0, <1>1, <2>2 DEF CreateRow
    <3>2. Rest(s) /\ Makes(s)' /\ Between(s)'
      BY <1>0, <3>1 DEF Rest, Alike, RequestRecords, Makes, Between
    <3>3. ASSUME HalvesMatch PROVE HalvesMatch'
      <4>1. ~Stays /\ ~Stays'
        BY <1>0, <3>1, <3>3 DEF HalvesMatch, Stays
      <4>2. \A t \in Slots : ~Makes(t)
        BY <3>1, <3>3 DEF HalvesMatch
      <4>3. \A t \in Slots \ {s} : ~Makes(t)'
        BY <3>2, <4>2, RestApart
      <4> QED BY <3>1, <3>2, <4>1, <4>3 DEF HalvesMatch
    <3> QED BY <2>0, <3>3 DEF Halves
  <2> QED BY <2>1, <2>2
<1>2. CASE Undo(s) \/ DeleteRow(s)
  <2>1. /\ org' = 0 /\ marks' = Crossing(s) /\ Rest(s) /\ req'[s] = NoRequest
        /\ Between(s) /\ (Undo(s) => Makes(s)) /\ (DeleteRow(s) => ~Makes(s))
    BY <1>0, <1>2, HasEnded DEF Undo, DeleteRow, WithoutRow, Between, Makes
  <2>2. ~Between(s)' /\ ~Makes(s)'
    BY <2>1 DEF NoRequest, Between, Makes
  <2>3. ASSUME HalvesMatch, ~marks'.crossed PROVE HalvesMatch'
    <3>1. ~Stays /\ ~Stays'
      BY <1>0, <2>1, <2>3 DEF HalvesMatch, Stays
    <3>2. \A t \in Slots \ {s} : ~Makes(t)
      <4>1. CASE Makes(s)
        BY <2>3, <4>1 DEF HalvesMatch
      <4>2. CASE ~Makes(s)
        BY <2>1, <2>3, <4>2, Crossed
      <4> QED BY <4>1, <4>2
    <3>3. \A t \in Slots : ~Makes(t)'
      BY <2>1, <2>2, <3>2, RestApart
    <3> QED BY <2>1, <3>1, <3>3 DEF HalvesMatch
  <2>4. (marks.broken => marks'.broken) /\ (marks.crossed => marks'.crossed)
    BY <2>1, CrossingMarks
  <2> QED BY <2>3, <2>4 DEF Halves
<1> QED BY <1>1, <1>2 DEF Rows

LEMMA TenantsHalves ==
  ASSUME OrgTypes, AllOnCourse, Halves, NEW s \in Slots, Tenants(s)
  PROVE  Halves'
<1>0. /\ UNCHANGED org /\ req \in [Slots -> RequestRecords] /\ req[s] \in RequestRecords
      /\ tenant \in TenantType /\ marks \in MarksType
  BY TenantsTypes, OrgTypesAre
<1>1. CASE CreateTenant(s)
  <2>0. req[s].pc = "tenant" /\ Makes(s) /\ Between(s)
    BY <1>1 DEF CreateTenant, Makes, Between
  <2>1. CASE tenant.id # 0
    <3>1. UNCHANGED tenant /\ Goes(s, "undo") /\ marks' = Crossing(s)
      BY <1>1, <2>1 DEF CreateTenant
    <3>2. Rest(s) /\ Makes(s)' /\ Between(s)'
      BY <1>0, <3>1, WentOn DEF GoesOn, Makes, Between, PCs
    <3>3. \A t \in Slots : (Between(t)' <=> Between(t)) /\ (Makes(t)' <=> Makes(t))
      BY <2>0, <3>2, RestApart
    <3>4. Marked
      BY <3>1, CrossingMarks DEF Marked
    <3> QED BY <1>0, <3>1, <3>3, <3>4, HalvesFrame DEF Stays
  <2>2. CASE tenant.id = 0
    <3>1. /\ tenant' = [NoTenant EXCEPT !.id = made.tenants + 1, !.quota = req[s].quota]
          /\ marks' = [Crossing(s) EXCEPT !.largest = IF req[s].quota > @ THEN req[s].quota ELSE @]
          /\ Ends(s)
      BY <1>1, <2>2 DEF CreateTenant
    <3>2. /\ marks'.broken = Crossing(s).broken /\ marks'.crossed = Crossing(s).crossed
      BY <3>1, CrossingMarks DEF MarksType
    <3>3. made.tenants \in Nat
      BY OrgTypesAre
    <3>4. Stays'
      BY <3>1, <3>3 DEF Stays, NoTenant
    <3>5. Rest(s) /\ ~Between(s)' /\ ~Makes(s)'
      <4>1. Rest(s) /\ req'[s] = NoRequest
        BY <1>0, <3>1, HasEnded
      <4> QED BY <4>1 DEF NoRequest, Between, Makes
    <3>6. ASSUME HalvesMatch, ~marks'.crossed PROVE HalvesMatch'
      <4>1. org # 0 /\ \A t \in Slots \ {s} : ~Makes(t)
        BY <2>0, <3>6 DEF HalvesMatch
      <4>2. \A t \in Slots : req[t].pc # "unrow"
        BY <2>0, <3>2, <3>6, Crossed
      <4>3. \A t \in Slots : ~Between(t)' /\ ~Makes(t)'
        BY <3>5, <4>1, <4>2, RestApart DEF Between
      <4> QED BY <1>0, <3>4, <4>1, <4>3 DEF HalvesMatch
    <3> QED BY <3>2, <3>6, CrossingMarks DEF Halves
  <2> QED BY <2>1, <2>2
<1>2. CASE DeleteTenant(s)
  <2>0. /\ req[s].pc = "delete" /\ ~Makes(s) /\ marks' = Crossing(s) /\ Goes(s, "unrow")
        /\ tenant' = IF tenant.held THEN [tenant EXCEPT !.deleting = TRUE] ELSE NoTenant
    BY <1>2 DEF DeleteTenant, Makes
  <2>1. ~Stays'
    BY <1>0, <2>0 DEF Stays, NoTenant, TenantType
  <2>2. Rest(s) /\ Between(s)' /\ ~Makes(s)'
    BY <1>0, <2>0, WentOn DEF GoesOn, Makes, Between, PCs
  <2>3. ASSUME ~marks'.crossed PROVE HalvesMatch'
    <3>1. \A t \in Slots : ~Makes(t)
      BY <2>0, <2>3, Crossed
    <3>2. \A t \in Slots : ~Makes(t)'
      BY <2>2, <3>1, RestApart
    <3> QED BY <2>1, <2>2, <3>2 DEF HalvesMatch
  <2> QED BY <2>3 DEF Halves
<1>3. CASE Breaks(s)
  <2>1. /\ marks'.broken = (marks.broken \/ req[s].pc \in {"tenant", "undo", "unrow"})
        /\ marks'.crossed = marks.crossed
    BY <1>0, <1>3 DEF Breaks, MarksType
  <2>2. CASE Between(s)
    BY <2>1, <2>2 DEF Halves, Between, Makes
  <2>3. CASE ~Between(s)
    <3>1. Ends(s) /\ UNCHANGED tenant
      BY <1>3, <2>3 DEF Breaks, Between, Makes
    <3>2. Rest(s) /\ ~Between(s)'
      <4>1. Rest(s) /\ req'[s] = NoRequest
        BY <1>0, <3>1, HasEnded
      <4> QED BY <4>1 DEF NoRequest, Between, Makes
    <3> QED BY <1>0, <2>1, <2>3, <3>1, <3>2, Apart, HalvesFrame DEF Marked, Stays
  <2> QED BY <2>2, <2>3
<1>4. CASE UpdateQuota
  <2>1. /\ tenant'.id = tenant.id /\ tenant'.deleting = tenant.deleting /\ UNCHANGED req
        /\ marks'.broken = marks.broken /\ marks'.crossed = marks.crossed
    BY <1>0, <1>4 DEF UpdateQuota, TenantType, MarksType
  <2> QED BY <1>0, <2>1, HalvesFrame DEF Marked, Stays, Between, Makes
<1> QED BY <1>1, <1>2, <1>3, <1>4 DEF Tenants

LEMMA HalvesStep ==
  OrgTypes /\ Fencing /\ Held /\ AllOnCourse /\ Halves /\ [OrgNext]_orgVars => Halves'
<1> SUFFICES ASSUME OrgTypes, Fencing, Held, AllOnCourse, Halves, [OrgNext]_orgVars PROVE Halves'
  OBVIOUS
<1>1. CASE UNCHANGED orgVars
  BY <1>1, HalvesFrame DEF orgVars, Marked, Stays, Between, Makes
<1> QED BY <1>1, LooksHalves, RowsHalves, TenantsHalves, ServersHalves, GrantsHalves,
           OperatorHalves, OrgCases

LEMMA HalvesBegin == OrgInit => Halves
BY DEF OrgInit, Halves, HalvesMatch, NoRequest, NoTenant, Between, Makes, Stays

LEMMA HalvesTwo == OrgTypes /\ AllOnCourse /\ Halves => TwoHalves
<1> SUFFICES ASSUME OrgTypes, AllOnCourse, Halves, ~marks.broken, ~marks.crossed,
                    \A s \in Slots : req[s].op \notin {"org", "unorg"}
             PROVE  (org # 0) <=> (tenant.id # 0 /\ ~tenant.deleting)
  BY DEF TwoHalves
<1>1. ASSUME NEW s \in Slots PROVE ~Between(s)
  <2>1. req[s] \in RequestRecords /\ OnCourse(req[s])
    BY OrgTypesAre DEF AllOnCourse
  <2>2. req[s].op \in Ops /\ req[s].pc \in CourseOf(req[s].op)
    BY <2>1 DEF RequestRecords, OnCourse
  <2> QED BY <2>2 DEF CourseOf, Ops, Between, Makes
<1> QED BY <1>1 DEF Halves, HalvesMatch, Stays

(* No half of an organization outlives the other, nor its namespace both.   *)
THEOREM HalvesTogether == OrgSpec => []NothingLingers
<1>1. OrgSpec => []Halves
  BY HalvesBegin, HalvesStep, OrgTyped, HeldAlways, CourseAlways, PTL DEF OrgSpec
<1>2. Held => SpaceHasTenant
  BY DEF Held, Live, SpaceHasTenant
<1>3. TwoHalves /\ SpaceHasTenant => NothingLingers
  BY DEF NothingLingers
<1> QED BY <1>1, <1>2, <1>3, HalvesTwo, OrgTyped, HeldAlways, CourseAlways, PTL

-----------------------------------------------------------------------------
(* The numbers: rows and servers that are to come have numbers of their own.*)
Numbered(r) ==
  /\ r.row <= made.orgs /\ r.saw <= made.servers
  /\ r.pc = "set" => r.saw # 0
  /\ r.pc \in {"check", "set"} => r.row # 0
AllNumbered == \A t \in Slots : Numbered(req[t])
ServersNumbered == \A n \in Names : servers[n].id <= made.servers
GrantNumbered(g) ==
  1 <= g.row /\ g.row <= made.orgs /\ 1 <= g.server /\ g.server <= made.servers
GrantsNumbered == \A g \in grants : GrantNumbered(g)
Numbering == org <= made.orgs /\ AllNumbered /\ ServersNumbered /\ GrantsNumbered

Grows == made.orgs <= made'.orgs /\ made.servers <= made'.servers
Simply(s) == Ends(s) \/ \E step \in PCs \ {"check", "set"} : Goes(s, step)

LEMMA RestNumbered ==
  ASSUME OrgTypes, OrgTypes', AllNumbered, Grows, NEW s \in Slots, Rest(s), Numbered(req[s])'
  PROVE  AllNumbered'
<1>1. ASSUME NEW t \in Slots \ {s} PROVE Numbered(req[t])'
  <2>1. /\ req[t] \in RequestRecords /\ Numbered(req[t]) /\ Alike(req[t], req'[t])
        /\ made \in [orgs : Nat, tenants : Nat, servers : Nat]
        /\ made' \in [orgs : Nat, tenants : Nat, servers : Nat]
    BY OrgTypesAre, FencesAre DEF AllNumbered, Rest, OrgTypes
  <2>2. /\ req[t].row \in Nat /\ req[t].saw \in Nat /\ req'[t].row = req[t].row
        /\ req'[t].saw = req[t].saw /\ req'[t].pc = req[t].pc
    BY <2>1 DEF RequestRecords, Alike
  <2> QED BY <2>1, <2>2 DEF Numbered, Grows
<1> QED BY <1>1 DEF AllNumbered

LEMMA SimplyNumbered ==
  ASSUME OrgTypes, OrgTypes', AllNumbered, Grows, NEW s \in Slots, Simply(s)
  PROVE  AllNumbered'
<1>0. /\ req \in [Slots -> RequestRecords] /\ req[s] \in RequestRecords /\ Numbered(req[s])
      /\ made \in [orgs : Nat, tenants : Nat, servers : Nat]
      /\ made' \in [orgs : Nat, tenants : Nat, servers : Nat]
  BY OrgTypesAre, FencesAre DEF AllNumbered, OrgTypes
<1>1. CASE Ends(s)
  <2>1. Rest(s) /\ req'[s] = NoRequest
    BY <1>0, <1>1, HasEnded
  <2>2. Numbered(req[s])'
    BY <1>0, <2>1 DEF Numbered, NoRequest
  <2> QED BY <2>1, <2>2, RestNumbered
<1>2. ASSUME NEW step \in PCs \ {"check", "set"}, Goes(s, step) PROVE AllNumbered'
  <2>1. /\ Rest(s) /\ req'[s].pc = step
        /\ req'[s].row = req[s].row /\ req'[s].saw = req[s].saw
    BY <1>0, <1>2, WentOn DEF GoesOn
  <2>2. req[s].row \in Nat /\ req[s].saw \in Nat
    BY <1>0 DEF RequestRecords
  <2>3. Numbered(req[s])'
    BY <1>0, <2>1, <2>2 DEF Numbered, Grows
  <2> QED BY <2>1, <2>3, RestNumbered
<1> QED BY <1>1, <1>2 DEF Simply

(* Of what a step leaves alone.                                             *)
LEMMA OthersNumbered ==
  ASSUME OrgTypes, OrgTypes', Grows
  PROVE  /\ org' = org /\ org <= made.orgs => org' <= made'.orgs
         /\ ServersNumbered /\ (\A n \in Names : servers'[n].id \in {0, servers[n].id})
              => ServersNumbered'
         /\ GrantsNumbered /\ grants' \subseteq grants => GrantsNumbered'
<1>0. /\ made \in [orgs : Nat, tenants : Nat, servers : Nat] /\ org \in Nat
      /\ made' \in [orgs : Nat, tenants : Nat, servers : Nat]
      /\ servers \in [Names -> [id : Nat, going : BOOLEAN]]
      /\ grants \subseteq [row : Nat, name : Names, server : Nat]
  BY OrgTypesAre, FencesAre DEF OrgTypes
<1>1. org' = org /\ org <= made.orgs => org' <= made'.orgs
  BY <1>0 DEF Grows
<1>2. ServersNumbered /\ (\A n \in Names : servers'[n].id \in {0, servers[n].id})
        => ServersNumbered'
  <2>1. \A n \in Names : servers[n].id \in Nat
    BY <1>0
  <2> QED BY <1>0, <2>1 DEF Grows, ServersNumbered
<1>3. GrantsNumbered /\ grants' \subseteq grants => GrantsNumbered'
  <2>1. \A g \in grants : g.row \in Nat /\ g.server \in Nat
    BY <1>0
  <2> QED BY <1>0, <2>1 DEF Grows, GrantsNumbered, GrantNumbered
<1> QED BY <1>1, <1>2, <1>3

LEMMA LooksNumbers ==
  ASSUME OrgTypes, OrgTypes', Numbering, NEW s \in Slots, Asks(s) \/ Looks(s)
  PROVE  Numbering'
<1>0. /\ UNCHANGED <<org, servers, grants, made>> /\ Grows
      /\ made \in [orgs : Nat, tenants : Nat, servers : Nat]
  BY HasAsked, LooksTypes, OrgTypesAre DEF Grows
<1>1. org' <= made'.orgs /\ ServersNumbered' /\ GrantsNumbered'
  BY <1>0 DEF Numbering, ServersNumbered, GrantsNumbered, GrantNumbered
<1>2. AllNumbered'
  <2>1. CASE Asks(s)
    <3>1. /\ Rest(s) /\ req'[s].saw = 0 /\ req'[s].pc # "set"
          /\ req'[s].row = 0 \/ (req'[s].row = org /\ org # 0)
          /\ req'[s].row = 0 => req'[s].pc = "row"
      BY <2>1, HasAsked
    <3>2. Numbered(req[s])'
      BY <1>0, <3>1 DEF Numbering, Numbered
    <3> QED BY <3>1, <3>2, <1>0, RestNumbered DEF Numbering
  <2>2. CASE ListOrg(s) \/ CheckQuota(s)
    <3>1. Simply(s)
      BY <2>2 DEF ListOrg, CheckQuota, Simply, PCs
    <3> QED BY <1>0, <3>1, SimplyNumbered DEF Numbering
  <2>3. CASE CheckServer(s)
    <3>1. CASE Ends(s)
      BY <1>0, <3>1, SimplyNumbered DEF Numbering, Simply
    <3>2. CASE ~Ends(s)
      <4>0. req \in [Slots -> RequestRecords] /\ req[s] \in RequestRecords /\ req[s].name \in Names
        BY OrgTypesAre DEF RequestRecords
      <4>1. /\ servers[req[s].name].id # 0 /\ req[s].pc = "check"
            /\ req' = [req EXCEPT ![s].pc = "set", ![s].saw = servers[req[s].name].id,
                                  ![s].late = servers[req[s].name].going]
        BY <2>3, <3>2 DEF CheckServer
      <4>2. Rest(s) /\ req'[s].row = req[s].row /\ req'[s].saw = servers[req[s].name].id
        BY <4>0, <4>1 DEF Rest, Alike, RequestRecords
      <4>3. req[s].row <= made.orgs /\ req[s].row # 0 /\ servers[req[s].name].id <= made.servers
        BY <4>0, <4>1 DEF Numbering, AllNumbered, Numbered, ServersNumbered
      <4>4. Numbered(req[s])'
        BY <1>0, <4>1, <4>2, <4>3 DEF Numbered
      <4> QED BY <1>0, <4>2, <4>4, RestNumbered DEF Numbering
    <3> QED BY <3>1, <3>2
  <2> QED BY <2>1, <2>2, <2>3 DEF Looks
<1> QED BY <1>1, <1>2 DEF Numbering

LEMMA RowsNumbers ==
  ASSUME OrgTypes, OrgTypes', Numbering, NEW s \in Slots, Rows(s)
  PROVE  Numbering'
<1>0. /\ UNCHANGED servers /\ org \in Nat
      /\ made \in [orgs : Nat, tenants : Nat, servers : Nat]
      /\ servers \in [Names -> [id : Nat, going : BOOLEAN]]
  BY RowsTypes, OrgTypesAre
<1>1. CASE Undo(s) \/ DeleteRow(s)
  <2>1. org' = 0 /\ grants' \subseteq grants /\ UNCHANGED made /\ Ends(s)
    BY <1>1 DEF Undo, DeleteRow, WithoutRow
  <2>2. Grows /\ 0 <= made.orgs
    BY <1>0, <2>1 DEF Grows
  <2>3. AllNumbered' /\ ServersNumbered' /\ GrantsNumbered'
    BY <1>0, <2>1, <2>2, SimplyNumbered, OthersNumbered DEF Numbering, Simply
  <2> QED BY <2>1, <2>2, <2>3 DEF Numbering
<1>2. CASE CreateRow(s) /\ org # 0
  <2>1. UNCHANGED <<org, made, grants>> /\ Ends(s)
    BY <1>2 DEF CreateRow
  <2>2. Grows
    BY <1>0, <2>1 DEF Grows
  <2>3. AllNumbered' /\ ServersNumbered' /\ GrantsNumbered' /\ org' <= made'.orgs
    BY <1>0, <2>1, <2>2, SimplyNumbered, OthersNumbered DEF Numbering, Simply
  <2> QED BY <2>3 DEF Numbering
<1>3. CASE CreateRow(s) /\ org = 0
  <2>0. req \in [Slots -> RequestRecords] /\ req[s] \in RequestRecords /\ Numbered(req[s])
    BY OrgTypesAre DEF Numbering, AllNumbered
  <2>1. /\ org' = made.orgs + 1 /\ made' = [made EXCEPT !.orgs = @ + 1] /\ UNCHANGED grants
        /\ req' = [req EXCEPT ![s].pc = "tenant", ![s].row = org']
    BY <1>3 DEF CreateRow
  <2>2. Grows /\ org' <= made'.orgs /\ made'.servers = made.servers
    BY <1>0, <2>1 DEF Grows
  <2>3. /\ Rest(s) /\ req'[s].row = org' /\ req'[s].saw = req[s].saw
        /\ req'[s].pc = "tenant"
    BY <2>0, <2>1 DEF Rest, Alike, RequestRecords
  <2>4. Numbered(req[s])'
    BY <2>0, <2>2, <2>3 DEF Numbered
  <2>5. AllNumbered'
    BY <2>2, <2>3, <2>4, RestNumbered DEF Numbering
  <2>6. ServersNumbered' /\ GrantsNumbered'
    BY <1>0, <2>1, <2>2, OthersNumbered DEF Numbering
  <2> QED BY <2>2, <2>5, <2>6 DEF Numbering
<1> QED BY <1>1, <1>2, <1>3 DEF Rows

LEMMA TenantsNumbers ==
  ASSUME OrgTypes, OrgTypes', Numbering, NEW s \in Slots, Tenants(s)
  PROVE  Numbering'
<1>0. /\ UNCHANGED <<org, grants, servers>>
      /\ made \in [orgs : Nat, tenants : Nat, servers : Nat]
      /\ servers \in [Names -> [id : Nat, going : BOOLEAN]]
  BY TenantsTypes, OrgTypesAre
<1>1. made' = made \/ made' = [made EXCEPT !.tenants = @ + 1]
  BY DEF Tenants, CreateTenant, DeleteTenant, Breaks, UpdateQuota
<1>2. Grows
  BY <1>0, <1>1 DEF Grows
<1>3. Simply(s) \/ UNCHANGED req
  BY DEF Tenants, CreateTenant, DeleteTenant, Breaks, UpdateQuota, Simply, PCs
<1>4. AllNumbered'
  <2>1. CASE Simply(s)
    BY <1>2, <2>1, SimplyNumbered DEF Numbering
  <2>2. CASE UNCHANGED req
    <3>1. made'.orgs = made.orgs /\ made'.servers = made.servers
      BY <1>0, <1>1
    <3> QED BY <2>2, <3>1 DEF Numbering, AllNumbered, Numbered
  <2> QED BY <1>3, <2>1, <2>2
<1>5. ServersNumbered' /\ GrantsNumbered' /\ org' <= made'.orgs
  BY <1>0, <1>2, OthersNumbered DEF Numbering
<1> QED BY <1>4, <1>5 DEF Numbering

LEMMA ServersNumbers ==
  ASSUME OrgTypes, OrgTypes', Numbering, NEW s \in Slots, ServersStep(s)
  PROVE  Numbering'
<1>0. /\ UNCHANGED <<org, grants>> /\ req[s] \in RequestRecords /\ req[s].name \in Names
      /\ made \in [orgs : Nat, tenants : Nat, servers : Nat]
      /\ servers \in [Names -> [id : Nat, going : BOOLEAN]]
      /\ req \in [Slots -> RequestRecords]
  BY ServersTypes, OrgTypesAre DEF RequestRecords
<1>1. CASE CreateServer(s) /\ ~UNCHANGED servers
  <2>1. /\ servers' = [servers EXCEPT ![req[s].name] = [id |-> made.servers + 1, going |-> FALSE]]
        /\ made' = [made EXCEPT !.servers = @ + 1] /\ Ends(s)
    BY <1>1 DEF CreateServer
  <2>2. Grows /\ made'.servers = made.servers + 1
    BY <1>0, <2>1 DEF Grows
  <2>3. AllNumbered' /\ GrantsNumbered' /\ org' <= made'.orgs
    BY <1>0, <2>1, <2>2, SimplyNumbered, OthersNumbered DEF Numbering, Simply
  <2>4. ASSUME NEW n \in Names PROVE servers'[n].id <= made'.servers
    <3>1. CASE n = req[s].name
      <4>1. servers'[n] = [id |-> made.servers + 1, going |-> FALSE]
        BY <1>0, <2>1, <3>1
      <4> QED BY <1>0, <2>2, <4>1
    <3>2. CASE n # req[s].name
      <4>1. servers'[n] = servers[n] /\ servers[n].id \in Nat /\ servers[n].id <= made.servers
        BY <1>0, <2>1, <3>2 DEF Numbering, ServersNumbered
      <4> QED BY <1>0, <2>2, <4>1
    <3> QED BY <3>1, <3>2
  <2>5. ServersNumbered'
    BY <2>4 DEF ServersNumbered
  <2> QED BY <2>3, <2>5 DEF Numbering
<1>2. CASE ~CreateServer(s) \/ UNCHANGED servers
  <2>1. \A n \in Names : servers'[n].id \in {0, servers[n].id}
    BY <1>0, <1>2 DEF ServersStep, DeleteServer, ServerGone, NamespaceEnds, NoServer
  <2>2. made' = made \/ (made' = [made EXCEPT !.servers = @ + 1] /\ CreateServer(s))
    BY DEF ServersStep, CreateServer, DeleteServer, ServerGone, NamespaceEnds
  <2>3. Grows
    BY <1>0, <2>2 DEF Grows
  <2>4. AllNumbered'
    <3>1. CASE Ends(s)
      BY <2>3, <3>1, SimplyNumbered DEF Numbering, Simply
    <3>2. CASE UNCHANGED req
      <4>1. ASSUME NEW t \in Slots PROVE Numbered(req[t])'
        <5>1. req[t] \in RequestRecords /\ Numbered(req[t])
          BY <1>0 DEF Numbering, AllNumbered
        <5> QED BY <1>0, <2>2, <3>2, <5>1 DEF Numbered, RequestRecords
      <4> QED BY <4>1 DEF AllNumbered
    <3>3. CASE ~Ends(s) /\ ~UNCHANGED req
      <4>1. /\ DeleteServer(s) /\ UNCHANGED made
            /\ req' = [t \in Slots |->
                 IF t = s THEN [req[s] EXCEPT !.pc = "drop"]
                 ELSE [req[t] EXCEPT !.late = @ \/ (req[t].pc = "set" /\ req[t].name = req[s].name)]]
        BY <3>3 DEF ServersStep, CreateServer, DeleteServer, ServerGone, NamespaceEnds
      <4>2. ASSUME NEW t \in Slots PROVE Numbered(req[t])'
        <5>1. /\ req[t] \in RequestRecords /\ Numbered(req[t])
              /\ req'[t].row = req[t].row /\ req'[t].saw = req[t].saw
              /\ req'[t].pc \in {req[t].pc, "drop"}
          BY <1>0, <4>1 DEF RequestRecords, Numbering, AllNumbered
        <5> QED BY <4>1, <5>1 DEF Numbered
      <4> QED BY <4>2 DEF AllNumbered
    <3> QED BY <3>1, <3>2, <3>3
  <2>5. ServersNumbered' /\ GrantsNumbered' /\ org' <= made'.orgs
    BY <1>0, <2>1, <2>3, OthersNumbered DEF Numbering
  <2> QED BY <2>4, <2>5 DEF Numbering
<1> QED BY <1>1, <1>2

LEMMA GrantsNumbers ==
  ASSUME OrgTypes, OrgTypes', Numbering, NEW s \in Slots, GrantsStep(s)
  PROVE  Numbering'
<1>0. /\ UNCHANGED <<org, servers, made>> /\ req[s] \in RequestRecords /\ Numbered(req[s])
      /\ made \in [orgs : Nat, tenants : Nat, servers : Nat] /\ org \in Nat
      /\ servers \in [Names -> [id : Nat, going : BOOLEAN]] /\ org <= made.orgs
  BY GrantsTypes, OrgTypesAre DEF Numbering, AllNumbered
<1>1. Grows /\ Simply(s)
  BY <1>0 DEF Grows, GrantsStep, DropGrants, SetGrants, Simply
<1>2. AllNumbered' /\ ServersNumbered' /\ org' <= made'.orgs
  BY <1>0, <1>1, SimplyNumbered, OthersNumbered DEF Numbering
<1>3. GrantsNumbered'
  <2>1. CASE grants' \subseteq grants
    BY <1>1, <2>1, OthersNumbered DEF Numbering
  <2>2. CASE ~(grants' \subseteq grants)
    <3> DEFINE new == [row |-> org, name |-> req[s].name, server |-> req[s].saw]
    <3>1. grants' = {new} /\ org = req[s].row /\ req[s].pc = "set"
      BY <2>2 DEF GrantsStep, DropGrants, SetGrants
    <3>2. /\ org # 0 /\ req[s].saw # 0 /\ req[s].saw \in Nat /\ req[s].saw <= made.servers
      BY <1>0, <3>1 DEF Numbered, RequestRecords
    <3>3. ASSUME NEW g \in grants' PROVE GrantNumbered(g)'
      <4>1. g.row = org /\ g.server = req[s].saw
        BY <3>1, <3>3
      <4> QED BY <1>0, <3>2, <4>1 DEF GrantNumbered
    <3> QED BY <3>3 DEF GrantsNumbered
  <2> QED BY <2>1, <2>2
<1> QED BY <1>2, <1>3 DEF Numbering

LEMMA NumbersStep == OrgTypes /\ Fencing /\ Numbering /\ [OrgNext]_orgVars => Numbering'
<1> SUFFICES ASSUME OrgTypes, Fencing, Numbering, [OrgNext]_orgVars PROVE Numbering'
  OBVIOUS
<1>0. OrgTypes'
  BY OrgTypesStep
<1>1. CASE OperatorStep \/ UNCHANGED orgVars
  <2>1. UNCHANGED <<org, grants, servers, req, made>>
    <3>1. OperatorStep => UNCHANGED <<org, grants, servers, req, made>>
      BY OperatorTypes
           DEF OperatorStep, Operate, PassBreaks, ReconcileTenant, AddFinalizer, ReconcileNamespace,
               ReconcileFence, SetStatus, ListSpace, DeleteSpace, RemoveFinalizer, store
    <3> QED BY <1>1, <3>1 DEF orgVars
  <2> QED BY <2>1 DEF Numbering, AllNumbered, Numbered, ServersNumbered, GrantsNumbered, GrantNumbered
<1> QED BY <1>0, <1>1, LooksNumbers, RowsNumbers, TenantsNumbers, ServersNumbers, GrantsNumbers,
           OrgCases

LEMMA NumbersBegin == OrgInit => Numbering
BY DEF OrgInit, Numbering, AllNumbered, Numbered, ServersNumbered, GrantsNumbered, NoRequest, NoServer

-----------------------------------------------------------------------------
(* The server that a grant means.                                           *)
Stands(n, id) == servers[n].id = id /\ ~servers[n].going
Drops(n) == \E s \in Slots : req[s].pc = "drop" /\ req[s].name = n /\ req[s].row = org

(* It stands, or its grants are about to be dropped; and the one that a     *)
(* request has seen stands.                                                 *)
Covered(g) ==
  g.row = org /\ g.server \notin marks.stale => Stands(g.name, g.server) \/ Drops(g.name)
GrantsCovered == \A g \in grants : Covered(g)
Sees(r) ==
  r.pc = "set" /\ r.row = org /\ ~r.late /\ r.saw \notin marks.stale => Stands(r.name, r.saw)
AllSee == \A t \in Slots : Sees(req[t])
Meant == GrantsCovered /\ AllSee

LEMMA StillCovered ==
  ASSUME NEW g, Covered(g), marks.stale \subseteq marks'.stale, org' # org => org' # g.row,
         Stands(g.name, g.server) /\ ~Stands(g.name, g.server)'
           => Drops(g.name)' \/ g.server \in marks'.stale \/ g.row # org,
         Drops(g.name) /\ ~Drops(g.name)'
           => g.server \in marks'.stale \/ g.row # org
  PROVE  Covered(g)'
BY DEF Covered

(* A request that drops grants goes on doing so.                            *)
LEMMA StillDrops ==
  ASSUME NEW s \in Slots, Rest(s), req[s].pc # "drop", org' = org
  PROVE  \A n \in Names : Drops(n) => Drops(n)'
BY DEF Rest, Alike, Drops

(* A step of s that leaves the row and the servers alone.                   *)
LEMMA MeantFrame ==
  ASSUME Meant, UNCHANGED <<org, servers>>, marks.stale \subseteq marks'.stale,
         grants \subseteq [row : Nat, name : Names, server : Nat],
         grants' \subseteq grants, NEW s \in Slots, Rest(s), req[s].pc # "drop", Sees(req[s])'
  PROVE  Meant'
<1>1. ASSUME NEW g \in grants PROVE Covered(g)'
  <2>1. g.name \in Names
    BY <1>1
  <2>2. Drops(g.name) => Drops(g.name)'
    BY <2>1, StillDrops
  <2>3. Stands(g.name, g.server)' <=> Stands(g.name, g.server)
    BY DEF Stands
  <2>4. Covered(g)
    BY <1>1 DEF Meant, GrantsCovered
  <2> QED BY <2>2, <2>3, <2>4, StillCovered
<1>2. ASSUME NEW t \in Slots \ {s} PROVE Sees(req[t])'
  <2>1. Sees(req[t]) /\ Alike(req[t], req'[t])
    BY DEF Meant, AllSee, Rest
  <2> QED BY <2>1 DEF Sees, Alike, Stands
<1> QED BY <1>1, <1>2 DEF Meant, GrantsCovered, AllSee

(* Nothing that was granted or is about to be is of the new row.            *)
LEMMA NoneMeant ==
  ASSUME \A g \in grants' : g.row # org',
         \A t \in Slots : req'[t].pc = "set" => req'[t].row # org'
  PROVE  Meant'
BY DEF Meant, GrantsCovered, Covered, AllSee, Sees

LEMMA LooksMeant ==
  ASSUME OrgTypes, Meant, NEW s \in Slots, Asks(s) \/ Looks(s)
  PROVE  Meant'
<1>0. /\ UNCHANGED <<org, servers, grants, marks>>
      /\ grants \subseteq [row : Nat, name : Names, server : Nat]
      /\ req \in [Slots -> RequestRecords] /\ req[s] \in RequestRecords
  BY HasAsked, LooksTypes, OrgTypesAre
<1>1. CASE Asks(s)
  <2>1. Rest(s) /\ req[s].pc = "idle" /\ req'[s].pc # "set"
    BY <1>1, HasAsked
  <2> QED BY <1>0, <2>1, MeantFrame DEF Sees
<1>2. CASE ListOrg(s) \/ CheckQuota(s)
  <2>1. Rest(s) /\ req'[s].pc # "set" /\ req[s].pc # "drop"
    <3>1. Ends(s) \/ Goes(s, "delete") \/ Goes(s, "create")
      BY <1>2 DEF ListOrg, CheckQuota
    <3>2. CASE Ends(s)
      <4>1. Rest(s) /\ req'[s] = NoRequest
        BY <1>0, <3>2, HasEnded
      <4> QED BY <1>2, <4>1 DEF NoRequest, ListOrg, CheckQuota
    <3>3. ASSUME NEW step \in {"delete", "create"}, Goes(s, step)
          PROVE  Rest(s) /\ req'[s].pc = step
      BY <1>0, <3>3, WentOn DEF GoesOn, PCs
    <3> QED BY <1>2, <3>1, <3>2, <3>3 DEF ListOrg, CheckQuota
  <2> QED BY <1>0, <2>1, MeantFrame DEF Sees
<1>3. CASE CheckServer(s)
  <2>0. req[s].pc = "check"
    BY <1>3 DEF CheckServer
  <2>1. CASE Ends(s)
    <3>1. Rest(s) /\ req'[s] = NoRequest
      BY <1>0, <2>1, HasEnded
    <3> QED BY <1>0, <2>0, <3>1, MeantFrame DEF Sees, NoRequest
  <2>2. CASE ~Ends(s)
    <3>1. req' = [req EXCEPT ![s].pc = "set", ![s].saw = servers[req[s].name].id,
                             ![s].late = servers[req[s].name].going]
      BY <1>3, <2>2 DEF CheckServer
    <3>2. /\ Rest(s) /\ req'[s].name = req[s].name /\ req'[s].saw = servers[req[s].name].id
          /\ req'[s].late = servers[req[s].name].going
      BY <1>0, <3>1 DEF Rest, Alike, RequestRecords
    <3>3. Sees(req[s])'
      BY <1>0, <3>2 DEF Sees, Stands
    <3> QED BY <1>0, <2>0, <3>2, <3>3, MeantFrame
  <2> QED BY <2>1, <2>2
<1> QED BY <1>1, <1>2, <1>3 DEF Looks

LEMMA RowsMeant ==
  ASSUME OrgTypes, Numbering, Meant, NEW s \in Slots, Rows(s)
  PROVE  Meant'
<1>0. /\ UNCHANGED servers /\ req \in [Slots -> RequestRecords] /\ req[s] \in RequestRecords
      /\ made \in [orgs : Nat, tenants : Nat, servers : Nat] /\ marks \in MarksType
      /\ grants \subseteq [row : Nat, name : Names, server : Nat]
  BY RowsTypes, OrgTypesAre
<1>1. CASE Undo(s) \/ DeleteRow(s)
  <2>1. org' = 0 /\ grants' \subseteq grants /\ Rest(s) /\ req'[s] = NoRequest
    BY <1>0, <1>1, HasEnded DEF Undo, DeleteRow, WithoutRow
  <2>2. \A g \in grants' : g.row # org'
    BY <1>0, <2>1 DEF Numbering, GrantsNumbered, GrantNumbered
  <2>3. \A t \in Slots : req'[t].pc = "set" => req'[t].row # org'
    <3>1. \A t \in Slots : req[t].pc = "set" => req[t].row # 0
      BY DEF Numbering, AllNumbered, Numbered
    <3>2. req'[s].pc # "set"
      BY <2>1 DEF NoRequest
    <3> QED BY <2>1, <3>1, <3>2 DEF Rest, Alike
  <2> QED BY <2>2, <2>3, NoneMeant
<1>2. CASE CreateRow(s) /\ org # 0
  <2>1. UNCHANGED <<org, grants, marks>> /\ Rest(s) /\ req'[s] = NoRequest /\ req[s].pc = "row"
    BY <1>0, <1>2, HasEnded DEF CreateRow
  <2> QED BY <1>0, <2>1, MeantFrame DEF Sees, NoRequest
<1>3. CASE CreateRow(s) /\ org = 0
  <2>1. /\ org' = made.orgs + 1 /\ UNCHANGED grants
        /\ req' = [req EXCEPT ![s].pc = "tenant", ![s].row = org']
    BY <1>3 DEF CreateRow
  <2>2. \A g \in grants' : g.row # org'
    <3>1. \A g \in grants : g.row \in Nat /\ g.row <= made.orgs
      BY <1>0 DEF Numbering, GrantsNumbered, GrantNumbered
    <3> QED BY <1>0, <2>1, <3>1
  <2>3. \A t \in Slots : req'[t].pc = "set" => req'[t].row # org'
    <3>1. \A t \in Slots : req[t].row \in Nat /\ req[t].row <= made.orgs
      BY <1>0 DEF Numbering, AllNumbered, Numbered, RequestRecords
    <3>2. req'[s].pc = "tenant" /\ \A t \in Slots \ {s} : req'[t] = req[t]
      BY <1>0, <2>1 DEF RequestRecords
    <3> QED BY <1>0, <2>1, <3>1, <3>2
  <2> QED BY <2>2, <2>3, NoneMeant
<1> QED BY <1>1, <1>2, <1>3 DEF Rows

LEMMA TenantsMeant ==
  ASSUME OrgTypes, Numbering, Meant, NEW s \in Slots, Tenants(s)
  PROVE  Meant'
<1>0. /\ UNCHANGED <<org, grants, servers>>
      /\ req \in [Slots -> RequestRecords] /\ req[s] \in RequestRecords /\ marks \in MarksType
      /\ made \in [orgs : Nat, tenants : Nat, servers : Nat]
      /\ grants \subseteq [row : Nat, name : Names, server : Nat]
  BY TenantsTypes, OrgTypesAre
<1>1. marks.stale \subseteq marks'.stale
  <2>1. CASE CreateTenant(s) \/ DeleteTenant(s)
    <3>1. Crossing(s).stale = marks.stale /\ Crossing(s) \in MarksType
      BY <1>0, CrossingMarks DEF Crossing, MarksType
    <3>2. marks'.stale = Crossing(s).stale
      BY <2>1, <3>1 DEF CreateTenant, DeleteTenant, MarksType
    <3> QED BY <3>1, <3>2
  <2>2. CASE Breaks(s)
    BY <1>0, <2>2 DEF Breaks, MarksType
  <2>3. CASE UpdateQuota
    BY <1>0, <2>3 DEF UpdateQuota, MarksType
  <2> QED BY <2>1, <2>2, <2>3 DEF Tenants
<1>2. CASE UNCHANGED req
  <2>2. ASSUME NEW g \in grants PROVE Covered(g)'
    BY <1>0, <1>1, <1>2, <2>2 DEF Meant, GrantsCovered, Covered, Stands, Drops
  <2>3. ASSUME NEW t \in Slots PROVE Sees(req[t])'
    BY <1>0, <1>1, <1>2, <2>3 DEF Meant, AllSee, Sees, Stands
  <2> QED BY <1>0, <2>2, <2>3 DEF Meant, GrantsCovered, AllSee
<1>3. CASE ~UNCHANGED req
  <2>1. Rest(s) /\ req'[s].pc # "set"
    <3>1. Ends(s) \/ Goes(s, "undo") \/ Goes(s, "unrow")
      BY <1>3 DEF Tenants, CreateTenant, DeleteTenant, Breaks, UpdateQuota
    <3>2. CASE Ends(s)
      <4>1. Rest(s) /\ req'[s] = NoRequest
        BY <1>0, <3>2, HasEnded
      <4> QED BY <4>1 DEF NoRequest
    <3>3. ASSUME NEW step \in {"undo", "unrow"}, Goes(s, step)
          PROVE  Rest(s) /\ req'[s].pc = step
      BY <1>0, <3>3, WentOn DEF GoesOn, PCs
    <3> QED BY <3>1, <3>2, <3>3
  <2>2. CASE req[s].pc # "drop"
    BY <1>0, <1>1, <2>1, <2>2, MeantFrame DEF Sees
  <2>3. CASE req[s].pc = "drop"
    <3>1. 1..made.servers \subseteq marks'.stale
      <4>1. Breaks(s)
        BY <1>3, <2>3 DEF Tenants, CreateTenant, DeleteTenant, UpdateQuota
      <4> QED BY <1>0, <2>3, <4>1 DEF Breaks, MarksType
    <3>2. \A g \in grants : g.server \in marks'.stale
      BY <1>0, <3>1 DEF Numbering, GrantsNumbered, GrantNumbered
    <3>3. GrantsCovered'
      BY <1>0, <3>2 DEF GrantsCovered, Covered
    <3>4. ASSUME NEW t \in Slots \ {s} PROVE Sees(req[t])'
      BY <1>0, <1>1, <2>1 DEF Meant, AllSee, Rest, Sees, Alike, Stands
    <3>5. Sees(req[s])'
      BY <2>1 DEF Sees
    <3> QED BY <3>3, <3>4, <3>5 DEF Meant, AllSee
  <2> QED BY <2>2, <2>3
<1> QED BY <1>2, <1>3

LEMMA GrantsMeant ==
  ASSUME OrgTypes, Meant, NEW s \in Slots, GrantsStep(s)
  PROVE  Meant'
<1>0. /\ UNCHANGED <<org, servers>> /\ Rest(s) /\ req'[s] = NoRequest
      /\ req[s] \in RequestRecords /\ marks \in MarksType
      /\ grants \subseteq [row : Nat, name : Names, server : Nat]
  BY GrantsTypes, OrgTypesAre
<1>1. marks.stale \subseteq marks'.stale
  BY <1>0 DEF GrantsStep, DropGrants, SetGrants, MarksType
<1>2. Sees(req[s])'
  BY <1>0 DEF Sees, NoRequest
<1>3. CASE SetGrants(s)
  <2>1. CASE org # req[s].row
    <3>1. UNCHANGED grants /\ req[s].pc = "set"
      BY <1>3, <2>1 DEF SetGrants
    <3> QED BY <1>0, <1>1, <1>2, <3>1, MeantFrame
  <2>2. CASE org = req[s].row
    <3>1. /\ grants' = {[row |-> org, name |-> req[s].name, server |-> req[s].saw]}
          /\ req[s].pc = "set" /\ (req[s].late => req[s].saw \in marks'.stale)
      BY <1>0, <1>3, <2>2 DEF SetGrants, MarksType
    <3>2. ASSUME NEW g \in grants' PROVE Covered(g)'
      <4>1. g.row = org /\ g.name = req[s].name /\ g.server = req[s].saw
        BY <3>1, <3>2
      <4>2. Sees(req[s])
        BY DEF Meant, AllSee
      <4>3. g.server \notin marks'.stale => Stands(g.name, g.server)
        BY <1>1, <2>2, <3>1, <4>1, <4>2 DEF Sees
      <4> QED BY <1>0, <4>3 DEF Covered, Stands
    <3>3. ASSUME NEW t \in Slots \ {s} PROVE Sees(req[t])'
      BY <1>0, <1>1 DEF Meant, AllSee, Rest, Sees, Alike, Stands
    <3> QED BY <1>2, <3>2, <3>3 DEF Meant, GrantsCovered, AllSee
  <2> QED BY <2>1, <2>2
<1>4. CASE DropGrants(s)
  <2>1. /\ grants' = {g \in grants : ~(g.row = req[s].row /\ g.name = req[s].name)}
        /\ UNCHANGED marks
    BY <1>4 DEF DropGrants
  <2>2. ASSUME NEW g \in grants' PROVE Covered(g)'
    <3>1. g \in grants /\ ~(g.row = req[s].row /\ g.name = req[s].name) /\ Covered(g)
      BY <2>1, <2>2 DEF Meant, GrantsCovered
    <3>2. ASSUME g.row = org, NEW t \in Slots, req[t].pc = "drop", req[t].name = g.name,
                 req[t].row = org
          PROVE  Drops(g.name)'
      <4>1. t \in Slots \ {s}
        BY <3>1, <3>2
      <4> QED BY <1>0, <3>2, <4>1 DEF Rest, Alike, Drops
    <3>3. g.row = org /\ Drops(g.name) => Drops(g.name)'
      BY <3>2 DEF Drops
    <3> QED BY <1>0, <2>1, <3>1, <3>3 DEF Covered, Stands
  <2>3. ASSUME NEW t \in Slots \ {s} PROVE Sees(req[t])'
    BY <1>0, <1>1 DEF Meant, AllSee, Rest, Sees, Alike, Stands
  <2> QED BY <1>2, <2>2, <2>3 DEF Meant, GrantsCovered, AllSee
<1> QED BY <1>3, <1>4 DEF GrantsStep

LEMMA ServersMeant ==
  ASSUME OrgTypes, Numbering, Meant, NEW s \in Slots, ServersStep(s)
  PROVE  Meant'
<1>0. /\ UNCHANGED <<org, grants>> /\ req[s] \in RequestRecords /\ req[s].name \in Names
      /\ req \in [Slots -> RequestRecords] /\ marks \in MarksType
      /\ made \in [orgs : Nat, tenants : Nat, servers : Nat]
      /\ servers \in [Names -> [id : Nat, going : BOOLEAN]]
      /\ grants \subseteq [row : Nat, name : Names, server : Nat]
  BY ServersTypes, OrgTypesAre DEF RequestRecords
<1>1. ASSUME NEW g \in grants
      PROVE  g.name \in Names /\ g.server # 0 /\ Covered(g)
  BY <1>0, <1>1 DEF Numbering, GrantsNumbered, GrantNumbered, Meant, GrantsCovered
<1>2. ASSUME NEW t \in Slots
      PROVE  /\ req[t].name \in Names /\ Sees(req[t]) /\ req[t] \in RequestRecords
             /\ req[t].pc = "set" => req[t].saw # 0
  BY <1>0, <1>2 DEF RequestRecords, Numbering, AllNumbered, Numbered, Meant, AllSee
<1>3. CASE CreateServer(s)
  <2>1. UNCHANGED marks /\ Rest(s) /\ req'[s] = NoRequest /\ req[s].pc = "create"
    BY <1>0, <1>3, HasEnded DEF CreateServer
  <2>2. ASSUME NEW n \in Names, NEW id, id # 0, Stands(n, id) PROVE Stands(n, id)'
    <3>1. servers'[n] = servers[n]
      BY <1>0, <1>3, <2>2 DEF CreateServer, Stands
    <3> QED BY <2>2, <3>1 DEF Stands
  <2>3. ASSUME NEW g \in grants PROVE Covered(g)'
    <3>1. Drops(g.name) => Drops(g.name)'
      BY <1>0, <1>1, <2>1, StillDrops
    <3> QED BY <1>0, <1>1, <2>1, <2>2, <3>1, StillCovered
  <2>4. ASSUME NEW t \in Slots \ {s} PROVE Sees(req[t])'
    BY <1>0, <1>2, <2>1, <2>2 DEF Rest, Alike, Sees
  <2>5. Sees(req[s])'
    BY <2>1 DEF Sees, NoRequest
  <2> QED BY <1>0, <2>3, <2>4, <2>5 DEF Meant, GrantsCovered, AllSee
<1>4. CASE ServerGone
  <2>1. /\ UNCHANGED <<marks, req>>
        /\ \A n \in Names : servers'[n] = servers[n] \/ servers[n].going
    BY <1>0, <1>4 DEF ServerGone
  <2>2. \A n \in Names, id \in Nat : Stands(n, id) => Stands(n, id)'
    BY <2>1 DEF Stands
  <2>3. ASSUME NEW g \in grants PROVE Covered(g)'
    BY <1>0, <1>1, <2>1, <2>2 DEF Covered, Drops
  <2>4. ASSUME NEW t \in Slots PROVE Sees(req[t])'
    BY <1>0, <1>2, <2>1, <2>2 DEF Sees, RequestRecords
  <2> QED BY <1>0, <2>3, <2>4 DEF Meant, GrantsCovered, AllSee
<1>5. CASE NamespaceEnds
  <2>1. /\ UNCHANGED req
        /\ marks'.stale = marks.stale \cup {servers[n].id : n \in There}
    BY <1>0, <1>5 DEF NamespaceEnds, MarksType
  <2>2. \A n \in Names, id \in Nat : id # 0 /\ Stands(n, id) => id \in marks'.stale
    BY <2>1 DEF Stands, There
  <2>3. ASSUME NEW g \in grants PROVE Covered(g)'
    BY <1>0, <1>1, <2>1, <2>2 DEF Covered, Drops
  <2>4. ASSUME NEW t \in Slots PROVE Sees(req[t])'
    BY <1>0, <1>2, <2>1, <2>2 DEF Sees, RequestRecords
  <2> QED BY <1>0, <2>3, <2>4 DEF Meant, GrantsCovered, AllSee
<1>6. CASE DeleteServer(s) /\ servers[req[s].name].id = 0
  <2>1. /\ UNCHANGED <<servers, marks>> /\ Rest(s) /\ req'[s] = NoRequest /\ req[s].pc = "remove"
    BY <1>0, <1>6, HasEnded DEF DeleteServer
  <2> QED BY <1>0, <2>1, MeantFrame DEF Sees, NoRequest
<1>7. CASE DeleteServer(s) /\ servers[req[s].name].id # 0
  <2>1. /\ servers' = [servers EXCEPT ![req[s].name].going = TRUE]
        /\ marks' = [marks EXCEPT !.stale = IF req[s].row = org THEN @
                                            ELSE @ \cup {servers[req[s].name].id}]
        /\ req' = [t \in Slots |->
             IF t = s THEN [req[s] EXCEPT !.pc = "drop"]
             ELSE [req[t] EXCEPT !.late = @ \/ (req[t].pc = "set" /\ req[t].name = req[s].name)]]
        /\ req[s].pc = "remove"
    BY <1>7 DEF DeleteServer
  <2>2. /\ marks.stale \subseteq marks'.stale
        /\ req[s].row # org => servers[req[s].name].id \in marks'.stale
    BY <1>0, <2>1 DEF MarksType
  <2>3. \A n \in Names : n # req[s].name => servers'[n] = servers[n]
    BY <1>0, <2>1
  <2>4. /\ Rest(s)
        /\ \A t \in Slots \ {s} : req[t].pc = "set" /\ req[t].name = req[s].name => req'[t].late
    BY <1>2, <2>1 DEF Rest, Alike, RequestRecords
  <2>5. req'[s].pc = "drop" /\ req'[s].name = req[s].name /\ req'[s].row = req[s].row
    BY <1>0, <2>1 DEF RequestRecords
  <2>6. ASSUME NEW g \in grants PROVE Covered(g)'
    <3>1. Drops(g.name) => Drops(g.name)'
      BY <1>0, <1>1, <2>1, <2>4, StillDrops
    <3>2. CASE g.name # req[s].name
      BY <1>0, <1>1, <2>2, <2>3, <3>1, <3>2 DEF Covered, Stands
    <3>3. CASE g.name = req[s].name /\ req[s].row = org
      BY <1>0, <2>5, <3>3 DEF Covered, Drops
    <3>4. CASE g.name = req[s].name /\ req[s].row # org
      BY <1>0, <1>1, <2>2, <3>1, <3>4 DEF Covered, Stands
    <3> QED BY <3>2, <3>3, <3>4
  <2>7. ASSUME NEW t \in Slots \ {s} PROVE Sees(req[t])'
    BY <1>0, <1>2, <2>2, <2>3, <2>4 DEF Rest, Alike, Sees, Stands
  <2>8. Sees(req[s])'
    BY <2>5 DEF Sees
  <2> QED BY <1>0, <2>6, <2>7, <2>8 DEF Meant, GrantsCovered, AllSee
<1> QED BY <1>3, <1>4, <1>5, <1>6, <1>7 DEF ServersStep

LEMMA MeantStep == OrgTypes /\ Fencing /\ Numbering /\ Meant /\ [OrgNext]_orgVars => Meant'
<1> SUFFICES ASSUME OrgTypes, Fencing, Numbering, Meant, [OrgNext]_orgVars PROVE Meant'
  OBVIOUS
<1>1. CASE OperatorStep \/ UNCHANGED orgVars
  <2>1. UNCHANGED <<org, grants, servers, req, marks>>
    <3>1. OperatorStep => UNCHANGED <<org, grants, servers, req, marks>>
      BY OperatorTypes
           DEF OperatorStep, Operate, PassBreaks, ReconcileTenant, AddFinalizer, ReconcileNamespace,
               ReconcileFence, SetStatus, ListSpace, DeleteSpace, RemoveFinalizer, store
    <3> QED BY <1>1, <3>1 DEF orgVars
  <2> QED BY <2>1 DEF Meant, GrantsCovered, Covered, AllSee, Sees, Stands, Drops
<1> QED BY <1>1, LooksMeant, RowsMeant, TenantsMeant, ServersMeant, GrantsMeant, OrgCases

LEMMA MeantBegins == OrgInit => Meant
BY DEF OrgInit, Meant, GrantsCovered, AllSee, Sees, NoRequest

(* A grant on a server does not reach a later one of the same name.         *)
THEOREM GrantsFollow == OrgSpec => []GrantsOfServer
<1>1. OrgSpec => []Numbering
  BY NumbersBegin, NumbersStep, OrgTyped, PTL DEF OrgSpec
<1>2. OrgSpec => []Meant
  BY <1>1, MeantBegins, MeantStep, OrgTyped, PTL DEF OrgSpec
<1>3. Meant => GrantsOfServer
  BY DEF Meant, GrantsCovered, Covered, Stands, Drops, GrantsOfServer, Dropping
<1> QED BY <1>2, <1>3, PTL
=============================================================================
