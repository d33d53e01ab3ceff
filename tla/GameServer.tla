----------------------------- MODULE GameServer -----------------------------
(***************************************************************************)
(* The GameServer controller (internal/controller/gameserver_*.go): one    *)
(* GameServer object, the Pod that runs it, and the reconciler between     *)
(* them.                                                                   *)
(*                                                                         *)
(* The reconciler reads both objects from informer caches that lag behind  *)
(* the API server, works on the copies it read, and makes one API call per *)
(* step.  Other writers (the Panel, the kubelet) act between any two       *)
(* steps, any call may fail, and the operator may die.  An Update carries  *)
(* the resourceVersion of the copy it was read with: instead of versions,  *)
(* the flags cacheFresh and localFresh say whether the cached and the      *)
(* local copy still hold the object's latest version.                      *)
(*                                                                         *)
(* The clock is lazy: now is the latest time anybody has looked at, and    *)
(* moves forward by any amount in the steps that read it.                  *)
(*                                                                         *)
(* Eggs are taken to resolve, without startupDetection, and the Secret,    *)
(* PVC, Service and NetworkPolicy to exist (all are created once from the  *)
(* spec and no step below reads them).                                     *)
(***************************************************************************)
EXTENDS Integers, FiniteSets

CONSTANTS
  Limit,        \* CrashPolicy.Limit
  Window,       \* CrashPolicy.Window, in ticks
  FirstDelay,   \* crashRestartDelays[0], in ticks
  LaterDelay,   \* crashRestartDelays[1], in ticks
  LastExit,     \* bound: no game process ends after this tick
  MaxEvents     \* bound: Panel requests, failed calls and operator restarts

ASSUME PolicyAssumption ==
  /\ Limit \in Nat \ {0}
  /\ Window \in Nat \ {0}
  /\ FirstDelay \in Nat \ {0}
  /\ LaterDelay \in Nat \ {0}
ASSUME BoundsAssumption ==
  LastExit \in Nat /\ MaxEvents \in Nat

VARIABLES
  gs,          \* the GameServer as the API server holds it
  cache,       \* the GameServer in the operator's informer cache
  cacheFresh,  \* whether cache is the latest version of gs
  pod,         \* the Pod as the API server holds it
  podCache,    \* the Pod in the operator's informer cache
  queued,      \* whether the work queue holds the GameServer's key
  timer,       \* when a RequeueAfter puts it back, or Never
  pc,          \* the next step of the running reconcile
  l, localFresh, p,  \* what the running reconcile read: GameServer and Pod
  crashLog,    \* finishedAt of the crash the crash log ConfigMap is of, or Never
  now,         \* the clock
  events,      \* what MaxEvents bounds
  restarted,   \* history: the crashes answered with a restart, as <<starts, at>>
  final        \* history: the server went down for good and nobody asked since

apiVars == <<gs, pod, crashLog>>
cacheVars == <<cache, cacheFresh, podCache>>
queueVars == <<queued, timer>>
localVars == <<pc, l, localFresh, p>>
historyVars == <<restarted, final>>
vars == <<gs, pod, crashLog, cache, cacheFresh, podCache, queued, timer,
          pc, l, localFresh, p, now, events, restarted, final>>

(* The zero time.  Everything that happens, happens later.                   *)
Never == 0

Phases == {"", "Pending", "Running", "Stopping", "Stopped",
           "Suspended", "Crashed", "Failed"}

(* Two fields are history.  starts counts the Starts so far; asks counts    *)
(* the stops (by a user, an admin or stopAfterExit) and restarts, each of   *)
(* which is a reason to end a Pod built before it.                          *)
GameServers ==
  [state : {"Running", "Stopped"}, suspended : BOOLEAN, autoRestart : BOOLEAN,
   restartAt : Nat, spec : Nat, starts : Nat, asks : Nat,
   phase : Phases, hasPod : BOOLEAN, restartRequired : BOOLEAN,
   crashed : BOOLEAN, lastCrash : Nat, recent : SUBSET Nat]

Pods ==
  [exists : BOOLEAN, deleting : BOOLEAN,
   phase : {"Pending", "Running", "Failed"},
   exit : {"none", "clean", "crash"}, at : Nat,
   stamp : Nat, spec : Nat, asks : Nat]

NoPod == [exists |-> FALSE, deleting |-> FALSE, phase |-> "Pending",
          exit |-> "none", at |-> Never, stamp |-> 0, spec |-> 0, asks |-> 0]

NewServer ==
  [state |-> "Running", suspended |-> FALSE, autoRestart |-> TRUE,
   restartAt |-> 0, spec |-> 0, starts |-> 0, asks |-> 0,
   phase |-> "", hasPod |-> FALSE, restartRequired |-> FALSE,
   crashed |-> FALSE, lastCrash |-> Never, recent |-> {}]

(* ValidateCreate: one that is suspended is created Stopped.                *)
NewSuspended == [NewServer EXCEPT !.suspended = TRUE, !.state = "Stopped"]

Init ==
  /\ gs \in {NewServer, NewSuspended} /\ cache = gs /\ cacheFresh = TRUE
  /\ pod = NoPod /\ podCache = NoPod
  /\ queued = TRUE /\ timer = Never
  /\ pc = "idle" /\ l = NewServer /\ localFresh = FALSE /\ p = NoPod
  /\ crashLog = Never /\ now = 0 /\ events = 0
  /\ restarted = {} /\ final = FALSE

-----------------------------------------------------------------------------
(* What the reconciler computes from the copies it read.                    *)

WantsDown(g) == g.state = "Stopped" \/ g.suspended

restartRequested(g, q) == g.restartAt # 0 /\ g.restartAt # q.stamp

(* The game ended on its own: nobody is stopping or restarting the server.  *)
crashedPod(g, q) ==
  /\ q.exists /\ ~q.deleting /\ q.exit # "none"
  /\ ~WantsDown(g) /\ ~restartRequested(g, q)

(* decideCrash: the crash window after this crash, and what follows from it *)
Kept(recent, at) == {t \in recent : at - t < Window} \cup {at}

restartDelay(crashes) == IF crashes <= 1 THEN FirstDelay ELSE LaterDelay

(* Seeded fault: one crash too many is answered with a restart.             *)
GivesUpLate(g, at) ==
  ~g.autoRestart \/ Cardinality(Kept(g.recent, at)) > Limit

GivesUp(g, at) ==
  ~g.autoRestart \/ Cardinality(Kept(g.recent, at)) >= Limit

RestartTime(g, at) == at + restartDelay(Cardinality(Kept(g.recent, at)))

Recorded(g, at) ==
  [g EXCEPT !.lastCrash = at, !.recent = Kept(g.recent, at),
            !.crashed = GivesUp(g, at) \/ @]

ObservedPhase(g, q) ==
  CASE ~q.exists /\ g.suspended -> "Suspended"
    [] ~q.exists /\ ~g.suspended /\ g.state = "Stopped" -> "Stopped"
    [] ~q.exists /\ ~WantsDown(g) -> "Pending"
    [] q.exists /\ (q.deleting \/ WantsDown(g) \/ restartRequested(g, q)) -> "Stopping"
    [] OTHER -> IF q.exit # "none" THEN "Crashed" ELSE q.phase

(* updateStatus: the GameServer with its status recomputed from the Pod     *)
Observed(g, q) ==
  [g EXCEPT !.phase = ObservedPhase(g, q),
            !.hasPod = q.exists,
            !.restartRequired = q.exists /\ q.spec # g.spec,
            !.crashed = IF WantsDown(g) THEN @ ELSE FALSE,
            !.recent = IF WantsDown(g) THEN {} ELSE @]

(* Seeded fault (never part of Spec): the stamp is left out.                *)
buildPodUnstamped(g) ==
  [NoPod EXCEPT !.exists = TRUE, !.spec = g.spec, !.asks = g.asks]
buildPod(g) ==
  [NoPod EXCEPT !.exists = TRUE, !.stamp = g.restartAt, !.spec = g.spec,
                !.asks = g.asks]

Earlier(a, b) == IF a = Never \/ (b # Never /\ b < a) THEN b ELSE a

-----------------------------------------------------------------------------
(* The reconcile loop.                                                      *)

(* The steps a reconcile goes through, and how it ends.                     *)
Goto(step) == pc' = step

Forget == pc' = "idle" /\ l' = NewServer /\ localFresh' = FALSE /\ p' = NoPod

(* A step returned an error: the key goes back to the queue.                *)
Fail == Forget /\ queued' = TRUE /\ UNCHANGED timer

(* An Update of the GameServer: refused when the copy is not the latest.    *)
Write(new) ==
  /\ gs' = new /\ l' = new
  /\ cacheFresh' = FALSE /\ localFresh' = TRUE

(* DELETE by name: whatever Pod has the name starts to terminate.           *)
DeletePod == pod' = IF pod.exists THEN [pod EXCEPT !.deleting = TRUE] ELSE pod

(* reconcilePod, one operator per outcome.  It makes the reconcile's first   *)
(* API call; both objects are read from the caches before it.               *)
NothingToRun ==
  /\ ~podCache.exists /\ WantsDown(cache)
  /\ p' = NoPod /\ UNCHANGED pod

EndPod ==
  /\ podCache.exists /\ ~podCache.deleting
  /\ WantsDown(cache) \/ restartRequested(cache, podCache)
  /\ DeletePod
  /\ p' = IF pod.exists THEN podCache ELSE NoPod

KeepPod ==
  /\ podCache.exists
  /\ podCache.deleting \/ ~(WantsDown(cache) \/ restartRequested(cache, podCache))
  /\ p' = podCache /\ UNCHANGED pod

CreatePod ==
  /\ ~podCache.exists /\ ~WantsDown(cache)
  /\ ~pod.exists
  /\ pod' = buildPod(cache) /\ p' = pod'

(* Seeded faults: the crash log is written for the first crash only, and a  *)
(* clean exit is not written to the spec.                                   *)
CrashStepFirstOnly(g, q) ==
  IF ~crashedPod(g, q) THEN "status"
  ELSE IF q.exit = "clean" THEN "stop"
  ELSE IF g.lastCrash = Never THEN "log" ELSE "record"
CrashStepNoStop(g, q) ==
  IF ~crashedPod(g, q) THEN "status"
  ELSE IF q.exit = "clean" THEN "remove"
  ELSE IF g.lastCrash # q.at THEN "log" ELSE "record"

(* Where reconcileCrash starts.                                             *)
CrashStep(g, q) ==
  IF ~crashedPod(g, q) THEN "status"
  ELSE IF q.exit = "clean" THEN "stop"
  ELSE IF g.lastCrash # q.at THEN "log" ELSE "record"

BeginReconcile ==
  /\ pc = "idle" /\ queued
  /\ queued' = FALSE
  /\ l' = cache /\ localFresh' = cacheFresh
  /\ NothingToRun \/ EndPod \/ KeepPod \/ CreatePod
  /\ Goto(CrashStep(l', p'))
  /\ UNCHANGED <<gs, crashLog, cacheVars, timer, now, events, historyVars>>

(* Create answers AlreadyExists when the cache has not seen the Pod yet; the *)
(* error puts the key back.                                                 *)
CreateConflicts ==
  /\ pc = "idle" /\ queued
  /\ ~podCache.exists /\ ~WantsDown(cache) /\ pod.exists
  /\ Fail
  /\ UNCHANGED <<apiVars, cacheVars, now, events, historyVars>>

(* saveCrashLog: the first time this crash is seen.  A console that cannot  *)
(* be read is saved empty, under the same crash, and holds nothing up: what *)
(* the log contains besides the crash it is of is left out.                 *)
SaveCrashLog ==
  /\ pc = "log"
  /\ crashLog' = p.at
  /\ Goto("record")
  /\ UNCHANGED <<gs, pod, cacheVars, queueVars, l, localFresh, p, now,
                 events, historyVars>>

(* The crash is in status before anything is done about it.                 *)
RecordCrash ==
  /\ pc = "record"
  /\ LET new == Recorded(l, p.at) IN
     /\ IF new = l THEN UNCHANGED <<gs, cacheFresh, l, localFresh>>
        ELSE localFresh /\ Write(new)
     /\ \E t \in {now, RestartTime(l, p.at)} :
          /\ now' = t /\ t >= now
          /\ Goto(IF GivesUp(l, p.at) THEN "stop"
                  ELSE IF t < RestartTime(l, p.at) THEN "wait" ELSE "restart")
     /\ final' = (final \/ (/\ GivesUp(l, p.at) /\ localFresh'
                            /\ pod = p /\ p.asks = gs.asks))
  /\ UNCHANGED <<pod, crashLog, cache, podCache, queueVars, p, events,
                 restarted>>

RecordConflicts ==
  /\ pc = "record" /\ ~localFresh /\ Recorded(l, p.at) # l
  /\ Fail
  /\ UNCHANGED <<apiVars, cacheVars, now, events, historyVars>>

RestartCrashed ==
  /\ pc = "restart"
  /\ DeletePod
  /\ restarted' = restarted \cup {<<l.starts, p.at>>}
  /\ Goto("status")
  /\ UNCHANGED <<gs, crashLog, cacheVars, queueVars, l, localFresh, p, now,
                 events, final>>

(* stopAfterExit: first the spec, then the dead Pod.                        *)
StopAfterExit ==
  /\ pc = "stop" /\ localFresh
  /\ Write([l EXCEPT !.state = "Stopped", !.asks = @ + 1])
  /\ Goto("remove")
  /\ UNCHANGED <<pod, crashLog, cache, podCache, queueVars, p, now,
                 events, historyVars>>

StopConflicts ==
  /\ pc = "stop" /\ ~localFresh
  /\ Fail
  /\ UNCHANGED <<apiVars, cacheVars, now, events, historyVars>>

RemoveDeadPod ==
  /\ pc = "remove"
  /\ DeletePod
  /\ Goto("status")
  /\ UNCHANGED <<gs, crashLog, cacheVars, queueVars, l, localFresh, p, now,
                 events, historyVars>>

(* updateStatus, and RequeueAfter when a crashed server has to wait.        *)
UpdateStatus ==
  /\ pc \in {"status", "wait"}
  /\ LET new == Observed(l, p) IN
     IF new = l THEN UNCHANGED <<gs, cacheFresh>>
     ELSE localFresh /\ gs' = new /\ cacheFresh' = FALSE
  /\ timer' = IF pc = "wait" THEN Earlier(timer, RestartTime(l, p.at)) ELSE timer
  /\ Forget
  /\ UNCHANGED <<pod, crashLog, cache, podCache, queued, now, events,
                 historyVars>>

StatusConflicts ==
  /\ pc \in {"status", "wait"} /\ ~localFresh /\ Observed(l, p) # l
  /\ Fail
  /\ UNCHANGED <<apiVars, cacheVars, now, events, historyVars>>

Reconcile ==
  \/ BeginReconcile \/ CreateConflicts \/ SaveCrashLog
  \/ RecordCrash \/ RecordConflicts \/ RestartCrashed
  \/ StopAfterExit \/ StopConflicts \/ RemoveDeadPod
  \/ UpdateStatus \/ StatusConflicts

(* Any call may fail, and the operator may die: a new one lists everything  *)
(* and queues every GameServer.                                             *)
CallFails ==
  /\ pc # "idle" /\ events < MaxEvents
  /\ events' = events + 1
  /\ Fail
  /\ UNCHANGED <<apiVars, cacheVars, now, historyVars>>

OperatorRestarts ==
  /\ events < MaxEvents
  /\ events' = events + 1
  /\ Forget /\ queued' = TRUE /\ timer' = Never
  /\ cache' = gs /\ cacheFresh' = TRUE /\ podCache' = pod
  /\ UNCHANGED <<apiVars, now, historyVars>>

-----------------------------------------------------------------------------
(* Watch events and the work queue's timer (For and Owns in                 *)
(* SetupWithManager).                                                       *)

SeeGameServer ==
  /\ ~cacheFresh
  /\ cache' = gs /\ cacheFresh' = TRUE /\ queued' = TRUE
  /\ UNCHANGED <<apiVars, podCache, timer, localVars, now, events,
                 historyVars>>

(* Seeded fault: Pods are not watched.                                      *)
SeePodUnwatched ==
  /\ podCache # pod
  /\ podCache' = pod
  /\ UNCHANGED <<apiVars, cache, cacheFresh, queueVars, localVars, now, events,
                 historyVars>>

SeePod ==
  /\ podCache # pod
  /\ podCache' = pod /\ queued' = TRUE
  /\ UNCHANGED <<apiVars, cache, cacheFresh, timer, localVars, now, events,
                 historyVars>>

TimerFires ==
  /\ timer # Never
  /\ now' = IF now < timer THEN timer ELSE now
  /\ timer' = Never /\ queued' = TRUE
  /\ UNCHANGED <<apiVars, cacheVars, localVars, events, historyVars>>

-----------------------------------------------------------------------------
(* Requests made through the Panel (and the webhook's guards on them).  The *)
(* Panel reads and updates in one optimistic transaction: a conflict makes  *)
(* it try again or answer an error, so what is left is one atomic change.   *)

Request(new) ==
  /\ events < MaxEvents
  /\ events' = events + 1
  /\ gs' = new /\ cacheFresh' = FALSE /\ localFresh' = FALSE
  /\ final' = FALSE
  /\ UNCHANGED <<restarted, pod, crashLog, cache, podCache, queueVars, pc, l, p, now>>

Start ==
  /\ gs.state = "Stopped" /\ ~gs.suspended
  /\ Request([gs EXCEPT !.state = "Running", !.starts = @ + 1])

Stop ==
  /\ gs.state = "Running"
  /\ Request([gs EXCEPT !.state = "Stopped", !.asks = @ + 1])

Restart ==
  /\ gs.state = "Running"
  /\ Request([gs EXCEPT !.restartAt = events + 1, !.asks = @ + 1])

Suspend ==
  /\ ~gs.suspended
  /\ Request([gs EXCEPT !.suspended = TRUE, !.state = "Stopped", !.asks = @ + 1])

Unsuspend ==
  /\ gs.suspended
  /\ Request([gs EXCEPT !.suspended = FALSE])

EditSpec ==
  Request([gs EXCEPT !.spec = events + 1])

(* Reinstalling changes the spec; a server that runs is restarted with it.   *)
Reinstall ==
  \/ /\ gs.state = "Running"
     /\ Request([gs EXCEPT !.spec = events + 1, !.restartAt = events + 1, !.asks = @ + 1])
  \/ /\ gs.state = "Stopped"
     /\ Request([gs EXCEPT !.spec = events + 1])

SetAutoRestart ==
  Request([gs EXCEPT !.autoRestart = ~@])

PanelRequest ==
  \/ Start \/ Stop \/ Restart \/ Suspend \/ Unsuspend
  \/ EditSpec \/ Reinstall \/ SetAutoRestart

-----------------------------------------------------------------------------
(* The kubelet and the game.                                                *)

PodStep(new) ==
  /\ pod' = new
  /\ UNCHANGED <<gs, crashLog, cacheVars, queueVars, localVars, now, events,
                 restarted>>

RunPod ==
  /\ pod.exists /\ pod.phase = "Pending" /\ ~pod.deleting
  /\ PodStep([pod EXCEPT !.phase = "Running"]) /\ UNCHANGED final

(* An init container fails or the node evicts the Pod (RestartPolicy Never) *)
PodFails ==
  /\ pod.exists /\ pod.phase = "Pending"
  /\ PodStep([pod EXCEPT !.phase = "Failed"]) /\ UNCHANGED final

(* The game container ends; the sftp-agent keeps the Pod Running.  A game   *)
(* runs for a tick at least: no two end in the same second.                 *)
GameExits ==
  /\ pod.exists /\ pod.phase = "Running" /\ pod.exit = "none"
  /\ \E how \in {"clean", "crash"}, t \in (now + 1)..LastExit :
       /\ now' = t
       /\ pod' = [pod EXCEPT !.exit = how, !.at = t]
       /\ final' = (final \/ (/\ how = "clean" /\ ~pod.deleting
                              /\ ~WantsDown(gs) /\ pod.asks = gs.asks))
  /\ UNCHANGED <<gs, crashLog, cacheVars, queueVars, localVars, events,
                 restarted>>

PodGone ==
  /\ pod.exists /\ pod.deleting
  /\ PodStep(NoPod) /\ UNCHANGED final

Kubelet == RunPod \/ PodFails \/ GameExits \/ PodGone

-----------------------------------------------------------------------------
Next ==
  \/ Reconcile \/ CallFails \/ OperatorRestarts
  \/ SeeGameServer \/ SeePod \/ TimerFires
  \/ PanelRequest \/ Kubelet

Spec == Init /\ [][Next]_vars

(* The manager's worker, watches and queue (time passes), and a kubelet that *)
(* ends the Pods it is told to end.  Nothing is asked of the Panel's users  *)
(* or of the game.                                                          *)
Fairness ==
  /\ WF_vars(Reconcile)
  /\ WF_vars(SeeGameServer) /\ WF_vars(SeePod) /\ WF_vars(TimerFires)
  /\ WF_vars(PodGone)

FairSpec == Spec /\ Fairness

-----------------------------------------------------------------------------
(* Properties.                                                              *)

(* Type invariant of the model's variables.                                 *)
TypeOK ==
  /\ gs \in GameServers /\ cache \in GameServers /\ l \in GameServers
  /\ pod \in Pods /\ podCache \in Pods /\ p \in Pods
  /\ cacheFresh \in BOOLEAN /\ localFresh \in BOOLEAN
  /\ queued \in BOOLEAN /\ timer \in Nat
  /\ pc \in {"idle", "log", "record", "restart", "stop", "remove",
             "status", "wait"}
  /\ crashLog \in Nat /\ now \in Nat /\ events \in Nat
  /\ restarted \subseteq Nat \X Nat /\ final \in BOOLEAN

(* CrashPolicy (crash.go): between two Starts, however its steps are        *)
(* interrupted and repeated, the operator never answers Limit crashes of    *)
(* one Window with a restart.                                               *)
SameWindow(x) ==
  {y \in restarted : y[1] = x[1] /\ y[2] <= x[2] /\ x[2] - y[2] < Window}

RestartsBounded == \A x \in restarted : Cardinality(SameWindow(x)) < Limit

(* status.lastCrash never names a crash later than the one the crash log is *)
(* of (saveCrashLog runs before the status is written).                     *)
LastCrashHasLog == gs.lastCrash <= crashLog

(* A crashed Pod that nobody asked to end is only deleted while the crash   *)
(* log is of its crash, not missing or of an earlier one (saveCrashLog): it *)
(* has the console if it could be read when the crash was first seen.       *)
CrashLogged ==
  [][(pod.exists /\ ~pod.deleting /\ pod'.deleting /\ pod.exit = "crash"
      /\ pod.asks = gs.asks) => crashLog = pod.at]_vars

(* A Pod whose game still runs is only deleted when a stop, a suspension or *)
(* a restart was requested after the version it was built from: stale       *)
(* caches, retries and restart values served before never end a game.       *)
NoUnaskedKill ==
  [][(pod.exists /\ ~pod.deleting /\ pod'.deleting /\ pod.exit = "none")
      => gs.asks > pod.asks]_vars

(* A server that exited on its own, or that the operator gave up on, keeps  *)
(* its dead Pod until the spec says Stopped (stopAfterExit), so no Pod is   *)
(* started to stay until somebody asks for something.                       *)
DownForGood == final => WantsDown(gs) \/ (pod.exists /\ pod.exit # "none")

(* Once requests, faults and exits cease, a server that should be down has  *)
(* no Pod and one that should run has a live one, for good: a game that     *)
(* ended is restarted or its server left stopped.                           *)
Converges ==
  <>[](IF WantsDown(gs) THEN ~pod.exists
       ELSE pod.exists /\ ~pod.deleting /\ pod.exit = "none")
=============================================================================
