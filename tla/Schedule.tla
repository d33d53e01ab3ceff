------------------------------ MODULE Schedule ------------------------------
(***************************************************************************)
(* A GameServerSchedule                                                    *)
(* (internal/controller/gameserverschedule_controller.go), the backups it  *)
(* makes (internal/backupplan/plan.go) and their rotation.                 *)
(*                                                                         *)
(* The controller has one worker.  A reconcile reads cached copies, deletes*)
(* the backups that rotate out, starts a run if one is due, carries out    *)
(* the tasks that are due, each by one call, and only then patches the     *)
(* status, where the run's progress lives.  The patch holds the fields     *)
(* that differ from the cached copy the reconcile began with, and carries  *)
(* no resource version.                                                    *)
(*                                                                         *)
(* One tick of the clock is one second, the resolution of a run's ID.  The *)
(* cron expression fires at the multiples of Period.  status.lastRun,      *)
(* nextScheduleTime and the conditions are output only and left out.       *)
(*                                                                         *)
(* The caches may be as old as they like.  A backup the schedule made wakes*)
(* it, and the reconcile that follows may read the status of before the    *)
(* patch that recorded the run.                                            *)
(***************************************************************************)
EXTENDS Integers, Sequences, FiniteSets

CONSTANTS
  Specs,       \* what a user may ask for: [tasks, suspend, onlyUp] records
  Period,      \* ticks between two fire times
  Window,      \* missedRunWindow
  KeepLast,    \* how many Completed backups a Backup task keeps
  Limit,       \* how many backups one server may have on the platform's storage
  OrgLimit,    \* how many all the servers of the organisation may have
  MaxTime,     \* bound: the last tick
  MaxBackups,  \* bound: backups made
  MaxOthers,   \* bound: backups that count and are not this schedule's
  MaxEvents    \* bound: requests, failed calls, operator restarts, changes of the game,
               \* and reconciles that do not find the operator's own writes in the caches

Actions == {"Command", "Restart", "Start", "Stop", "Backup"}
Tasks == [action : Actions, delay : Nat]

(* scheduleBackupHeadroom: a schedule that never rotates, or keeps as many   *)
(* as the server's limit, is not accepted; the next backup needs room.  The  *)
(* organisation's limit is not looked at.                                   *)
Headroom == KeepLast # 0 /\ KeepLast < Limit

(* ValidateSchedule: at least one task.                                     *)
ASSUME SpecsAssumption ==
  \A s \in Specs : /\ s \in [tasks : Seq(Tasks), suspend : BOOLEAN, onlyUp : BOOLEAN]
                   /\ s.tasks # <<>>
ASSUME PeriodAssumption == Period \in Nat \ {0} /\ Window \in Nat
ASSUME HeadroomAssumption ==
  KeepLast \in Nat /\ Limit \in Nat /\ OrgLimit \in Nat /\ Headroom
ASSUME BoundsAssumption ==
  MaxTime \in Nat /\ MaxBackups \in Nat /\ MaxOthers \in Nat /\ MaxEvents \in Nat

VARIABLES
  now,                    \* the clock
  sched, schedCache,      \* the schedule, and the operator's cached copy
  gs,                     \* the GameServer
  backups, backupsCache,  \* the schedule's backups, oldest first, and their cached copies
  made,                   \* how many were created
  queued, timer,          \* the work queue: due, and due later (Never: no timer)
  pc, at,                 \* the worker: its next step, and r.Now()
  orig, l, seen,          \* the schedule as read and as changed, the GameServer as read
  doomed,                 \* the backups it still has to delete
  events,                 \* what MaxEvents bounds
  old,                    \* history: this reconcile began with a status that is not the last
  ran,                    \* history: the tasks whose outcome the status records
  fresh,                  \* history: the tasks this reconcile has carried out
  again,                  \* history: a task in ran was carried out, though the status was the last
  blind,                  \* history: the last backup was made on a list that missed another
  slow                    \* history: how long the last complete reconcile took

timeVars == <<now, timer, queued>>
schedVars == <<sched, schedCache>>
backupVars == <<backups, backupsCache, made>>
workerVars == <<pc, at, orig, l, seen, doomed>>
historyVars == <<old, ran, fresh, again, blind, slow>>
vars == <<now, sched, schedCache, gs, backups, backupsCache, made, queued, timer, pc, at,
          orig, l, seen, doomed, events, old, ran, fresh, again, blind, slow>>

Never == 0
Times == 0..MaxTime

(* status.activeRun; idx counts from 1, 0 is no run.  why is history: the   *)
(* fire time, or the run-now request (negative), the run answers.           *)
NoRun == [id |-> 0, idx |-> 0, next |-> 0, why |-> 0]
Runs == [id : Times, idx : Nat, next : Nat, why : Int]

Schedules ==
  [spec : Specs, owned : BOOLEAN, runNow : Nat, ranNow : Nat, last : Nat, active : Runs]

GameServers == [up : BOOLEAN, blocked : BOOLEAN, state : {"Running", "Stopped"}]

Phases == {"none", "Running", "Completed", "Failed", "Deleting"}
Backups == [run : Times, why : Int, phase : Phases, deleting : BOOLEAN]
NoBackup == [run |-> 0, why |-> 0, phase |-> "none", deleting |-> FALSE]
BackupIds == 1..MaxBackups

NewSchedule(s) ==
  [spec |-> s, owned |-> FALSE, runNow |-> 0, ranNow |-> 0, last |-> 0, active |-> NoRun]
NewServer == [up |-> TRUE, blocked |-> FALSE, state |-> "Running"]

(* What an idle worker holds.                                               *)
Blank == NewSchedule(CHOOSE s \in Specs : TRUE)

Init ==
  /\ now = 0 /\ timer = Never /\ queued = TRUE
  /\ \E s \in Specs : sched = NewSchedule(s)
  /\ schedCache = sched
  /\ gs = NewServer
  /\ backups = [b \in BackupIds |-> NoBackup] /\ backupsCache = backups /\ made = 0
  /\ pc = "idle" /\ at = 0 /\ orig = Blank /\ l = Blank /\ seen = NewServer /\ doomed = {}
  /\ events = 0
  /\ old = FALSE /\ ran = {} /\ fresh = {} /\ again = FALSE /\ blind = FALSE /\ slow = 0

-----------------------------------------------------------------------------
(* What a reconcile decides.                                                *)

(* The first fire time strictly after t, and the last one up to t.          *)
NextRun(t) == Period * (t \div Period + 1)
LastRun(t) == Period * (t \div Period)

HasRun(o) == o.active.idx # 0
Waits(o, t) == ~HasRun(o) \/ t < o.active.next
Finished(o) == [o EXCEPT !.active = NoRun]
Asked(o) == o.runNow # o.ranNow
FireDue(o, t) == ~o.spec.suspend /\ NextRun(o.last) <= t

(* start: the run, unless the server cannot take it (Skipped).              *)
start(o, g, t, why) ==
  IF g.blocked \/ (o.spec.onlyUp /\ ~g.up) THEN o
  ELSE [o EXCEPT !.active = [id |-> t, idx |-> 1, next |-> t + o.spec.tasks[1].delay,
                             why |-> why]]

(* Mutant: a fire time is run but not recorded.                             *)
maybeStartUnrecorded(o, g, t) ==
  CASE HasRun(o) -> o
    [] ~HasRun(o) /\ Asked(o) -> start([o EXCEPT !.ranNow = o.runNow], g, t, -o.runNow)
    [] ~HasRun(o) /\ ~Asked(o) /\ FireDue(o, t) -> start(o, g, t, LastRun(t))
    [] OTHER -> o

(* maybeStart: a manual run first; a fire time missed by more than Window   *)
(* is recorded as Skipped.                                                  *)
maybeStart(o, g, t) ==
  CASE HasRun(o) -> o
    [] ~HasRun(o) /\ Asked(o) -> start([o EXCEPT !.ranNow = o.runNow], g, t, -o.runNow)
    [] ~HasRun(o) /\ ~Asked(o) /\ FireDue(o, t) ->
         LET r == [o EXCEPT !.last = LastRun(t)]
         IN  IF t - LastRun(t) > Window THEN r ELSE start(r, g, t, LastRun(t))
    [] OTHER -> o

(* advance, after a task: on to the next one, or the end of the run.        *)
TaskDone(o, t) ==
  IF o.active.idx >= Len(o.spec.tasks) THEN Finished(o)
  ELSE [o EXCEPT !.active.idx = @ + 1,
                 !.active.next = t + o.spec.tasks[o.active.idx + 1].delay]

(* advance, before a task: the tasks may have been shortened mid-run.       *)
Shortened(o) == o.active.idx > Len(o.spec.tasks)

Exists(b) == b.phase # "none"
HasBackupTask(o) == \E i \in DOMAIN o.spec.tasks : o.spec.tasks[i].action = "Backup"
Good(list) == {b \in BackupIds : list[b].phase = "Completed" /\ ~list[b].deleting}
NewestDone(list) ==
  \E b \in BackupIds : /\ list[b].phase = "Completed"
                       /\ \A c \in BackupIds : c > b => ~Exists(list[c])

(* Mutant: every backup counts towards keepLast, failed ones too.           *)
RotatedOutAll(o, list) ==
  IF HasBackupTask(o) /\ NewestDone(list)
  THEN {b \in BackupIds : /\ Exists(list[b]) /\ ~list[b].deleting
                          /\ Cardinality({c \in BackupIds : c > b /\ Exists(list[c])}) >= KeepLast}
  ELSE {}

(* rotateBackups: the Completed backups beyond the newest KeepLast, once    *)
(* the newest backup of all is Completed.                                   *)
RotatedOut(o, list) ==
  IF HasBackupTask(o) /\ NewestDone(list)
  THEN {b \in Good(list) : Cardinality({c \in Good(list) : c > b}) >= KeepLast}
  ELSE {}

(* Mutant: failed backups count.                                            *)
CountsForLimitsFailed(b) == Exists(b) /\ ~b.deleting

CountsForLimits(b) == Exists(b) /\ b.phase # "Failed" /\ ~b.deleting
Counted(list) == {b \in BackupIds : CountsForLimits(list[b])}

(* What counts besides: here, the server's other backups (asked for by hand, *)
(* made by another schedule), and elsewhere, those of the organisation's    *)
(* other servers.                                                           *)
OtherCounts == [here : 0..MaxOthers, elsewhere : 0..MaxOthers]

LimitReached(list, others) ==
  LET perServer == Cardinality(Counted(list)) + others.here
  IN  perServer >= Limit \/ perServer + others.elsewhere >= OrgLimit

(* Mutant: only the next fire time is waited for.                           *)
WakeAtFire(o, t) == NextRun(t)

(* When the next reconcile is wanted: the next fire time or task.           *)
Wake(o, t) ==
  IF HasRun(o) /\ o.active.next < NextRun(t) THEN o.active.next ELSE NextRun(t)

Sooner(a, b) == IF a = Never \/ b < a THEN b ELSE a

-----------------------------------------------------------------------------
(* The worker.                                                              *)

(* A reconcile that ends early forgets its copies; a task it carried out    *)
(* is then unknown to the schedule.                                         *)
Done ==
  /\ pc' = "idle" /\ orig' = Blank /\ l' = Blank /\ seen' = NewServer
  /\ doomed' = {} /\ old' = FALSE /\ fresh' = {}
  /\ UNCHANGED <<at, again, blind>>

Fail == Done /\ queued' = TRUE /\ UNCHANGED <<ran, slow>>

(* On to the tasks with copy o, or to the patch when none is due.           *)
Advance(o) ==
  LET n == IF ~Waits(o, at') /\ Shortened(o) THEN Finished(o) ELSE o
  IN  l' = n /\ pc' = IF Waits(n, at') THEN "patch" ELSE "task"

(* rotateBackups, maybeStart, and the first step of advance.                *)
Decide(o, out, g, t) ==
  IF out # {} THEN pc' = "rotate" /\ l' = o
  ELSE Advance(maybeStart(o, g, t))

Happens == events < MaxEvents /\ events' = events + 1

SameStatus(o, n) == o.last = n.last /\ o.ranNow = n.ranNow /\ o.active = n.active

(* The operator's own writes: the status, the owner, the backups it made.   *)
OwnWritesSeen ==
  /\ SameStatus(schedCache, sched) /\ schedCache.owned = sched.owned
  /\ \A b \in BackupIds : Exists(backups[b]) => Exists(backupsCache[b])

BeginReconcile ==
  /\ pc = "idle" /\ queued /\ queued' = FALSE
  /\ at' = now /\ orig' = schedCache /\ seen' = gs
  /\ doomed' = IF schedCache.owned THEN RotatedOut(schedCache, backupsCache) ELSE {}
  /\ IF schedCache.owned THEN Decide(schedCache, doomed', gs, now)
     ELSE pc' = "adopt" /\ l' = schedCache
  /\ old' = ~SameStatus(schedCache, sched)
  /\ IF OwnWritesSeen THEN UNCHANGED events ELSE Happens
  /\ UNCHANGED <<now, timer, schedVars, gs, backupVars, ran, fresh, again, blind, slow>>

(* ensureOwner, an Update: refused if the copy is not the latest.           *)
Adopt ==
  /\ pc = "adopt" /\ l = sched
  /\ sched' = [sched EXCEPT !.owned = TRUE]
  /\ orig' = sched' /\ doomed' = RotatedOut(sched', backupsCache)
  /\ at' = at /\ Decide(sched', doomed', seen, at)
  /\ UNCHANGED <<timeVars, schedCache, gs, backupVars, seen, events, historyVars>>

AdoptConflicts ==
  /\ pc = "adopt" /\ l # sched
  /\ Fail
  /\ UNCHANGED <<now, timer, schedVars, gs, backupVars, events>>

(* rotateBackups deletes, the newest first.                                 *)
Rotate ==
  /\ pc = "rotate"
  /\ \E b \in doomed :
       /\ \A c \in doomed : c <= b
       /\ backups' = [backups EXCEPT ![b].deleting = Exists(backups[b])]
       /\ doomed' = doomed \ {b}
  /\ at' = at /\ Decide(l, doomed', seen, at)
  /\ UNCHANGED <<timeVars, schedVars, gs, backupsCache, made, orig, seen, events,
                 historyVars>>

Task == l.spec.tasks[l.active.idx]
Due(action) == pc = "task" /\ Task.action = action

(* The call of a task succeeded.                                            *)
Succeeds ==
  LET key == <<l.active.why, l.active.idx>>
  IN  /\ fresh' = fresh \cup {key} /\ again' = (again \/ (~old /\ key \in ran))
      /\ at' = at /\ Advance(TaskDone(l, at))
      /\ UNCHANGED <<timeVars, schedVars, orig, doomed, events, old, ran, slow>>

(* A task returned an error: the run ends as Failed.                        *)
EndsRun ==
  /\ l' = Finished(l) /\ pc' = "patch"
  /\ UNCHANGED <<timeVars, schedVars, gs, backupVars, at, orig, seen, doomed, historyVars>>

SendCommand ==
  /\ Due("Command") /\ seen.up
  /\ Succeeds
  /\ UNCHANGED <<gs, backupVars, seen, blind>>

(* The restart annotation is GameServer.tla's; the reply is a fresh copy.   *)
RestartServer ==
  /\ Due("Restart")
  /\ seen' = IF seen.up THEN gs ELSE seen
  /\ Succeeds
  /\ UNCHANGED <<gs, backupVars, blind>>

SetPower(action, state) ==
  /\ Due(action) /\ ~seen.blocked
  /\ gs' = IF seen.state = state THEN gs ELSE [gs EXCEPT !.state = state]
  /\ seen' = IF seen.state = state THEN seen ELSE gs'
  /\ Succeeds
  /\ UNCHANGED <<backupVars, blind>>

StartServer == SetPower("Start", "Running")
StopServer == SetPower("Stop", "Stopped")

CannotRun ==
  /\ \/ Due("Command") /\ ~seen.up
     \/ (Due("Start") \/ Due("Stop")) /\ seen.blocked
  /\ EndsRun
  /\ UNCHANGED events

MadeBy(list, run) == \E b \in BackupIds : Exists(list[b]) /\ list[b].run = run

TakeBackup ==
  /\ Due("Backup") /\ made < MaxBackups
  /\ ~MadeBy(backupsCache, l.active.id)
  /\ \E others \in OtherCounts : ~LimitReached(backupsCache, others)
  /\ made' = made + 1
  /\ backups' = [backups EXCEPT ![made'] = [run |-> l.active.id, why |-> l.active.why,
                                           phase |-> "Running", deleting |-> FALSE]]
  /\ blind' = \E b \in BackupIds : Exists(backups[b]) /\ ~Exists(backupsCache[b])
  /\ Succeeds
  /\ UNCHANGED <<gs, backupsCache, seen>>

BackupKnown ==
  /\ Due("Backup") /\ MadeBy(backupsCache, l.active.id)
  /\ Succeeds
  /\ UNCHANGED <<gs, backupVars, seen, blind>>

BackupRefused ==
  /\ Due("Backup") /\ ~MadeBy(backupsCache, l.active.id)
  /\ \E others \in OtherCounts : LimitReached(backupsCache, others)
  /\ EndsRun
  /\ UNCHANGED events

(* What the status records from then on: a patch made from an old status    *)
(* may put an earlier moment of the run back.                               *)
Recorded ==
  CASE ~old -> ran \cup fresh
    [] old /\ SameStatus(sched, sched') -> ran
    [] OTHER -> {}

(* patchStatus: the merge patch, then RequeueAfter.                         *)
PatchStatus ==
  /\ pc = "patch"
  /\ sched' = [sched EXCEPT !.last = IF l.last = orig.last THEN @ ELSE l.last,
                            !.ranNow = IF l.ranNow = orig.ranNow THEN @ ELSE l.ranNow,
                            !.active = IF l.active = orig.active THEN @ ELSE l.active]
  /\ timer' = Sooner(timer, now + Wake(l, at) - at)
  /\ ran' = Recorded /\ slow' = now - at
  /\ Done
  /\ UNCHANGED <<now, queued, schedCache, gs, backupVars, events>>

Worker ==
  \/ BeginReconcile \/ Adopt \/ AdoptConflicts \/ Rotate
  \/ SendCommand \/ RestartServer \/ StartServer \/ StopServer \/ CannotRun
  \/ TakeBackup \/ BackupKnown \/ BackupRefused
  \/ PatchStatus

(* Any call outside the tasks fails: an error of Reconcile.                 *)
CallFails ==
  /\ Happens /\ pc \in {"adopt", "rotate", "patch"}
  /\ Fail
  /\ UNCHANGED <<now, timer, schedVars, gs, backupVars>>

(* The call of a task fails.                                                *)
TaskFails ==
  /\ Happens /\ pc = "task"
  /\ EndsRun

(* The operator stops at any point and its successor lists everything.      *)
OperatorRestarts ==
  /\ Happens
  /\ Fail /\ timer' = Never
  /\ schedCache' = sched /\ backupsCache' = backups
  /\ UNCHANGED <<now, sched, gs, backups, made>>

SeeSchedule ==
  /\ schedCache # sched /\ schedCache' = sched /\ queued' = TRUE
  /\ UNCHANGED <<now, timer, sched, gs, backupVars, workerVars, events, historyVars>>

(* A backup's label wakes the schedule.                                     *)
SeeBackups ==
  /\ backupsCache # backups /\ backupsCache' = backups /\ queued' = TRUE
  /\ UNCHANGED <<now, timer, schedVars, gs, backups, made, workerVars, events, historyVars>>

TimerFires ==
  /\ timer # Never /\ timer <= now
  /\ timer' = Never /\ queued' = TRUE
  /\ UNCHANGED <<now, schedVars, gs, backupVars, workerVars, events, historyVars>>

Tick ==
  /\ now < MaxTime /\ now' = now + 1
  /\ UNCHANGED <<timer, queued, schedVars, gs, backupVars, workerVars, events, historyVars>>

-----------------------------------------------------------------------------
(* The Panel, the game and the backups.                                     *)

Request(new) ==
  /\ Happens /\ sched' = new
  /\ UNCHANGED <<timeVars, schedCache, gs, backupVars, workerVars, historyVars>>

UpdateSchedule ==
  \E s \in Specs : s # sched.spec /\ Request([sched EXCEPT !.spec = s])

RunSchedule == Request([sched EXCEPT !.runNow = @ + 1])

GameChanges(new) ==
  /\ Happens /\ gs' = new
  /\ UNCHANGED <<timeVars, schedVars, backupVars, workerVars, historyVars>>

(* The phase leaves or reaches Running; a suspension or a restore begins or *)
(* ends.                                                                    *)
PhaseChanges == GameChanges([gs EXCEPT !.up = ~@])
BlockChanges == GameChanges([gs EXCEPT !.blocked = ~@])

BackupStep(b, new) ==
  /\ backups' = [backups EXCEPT ![b] = new]
  /\ UNCHANGED <<timeVars, schedVars, gs, backupsCache, made, workerVars, historyVars>>

BackupEnds(b) ==
  /\ backups[b].phase = "Running" /\ ~backups[b].deleting
  /\ \E phase \in {"Completed", "Failed"} : BackupStep(b, [backups[b] EXCEPT !.phase = phase])
  /\ UNCHANGED events

(* A user or its expiry deletes a backup.                                   *)
DeleteBackup(b) ==
  /\ Happens /\ Exists(backups[b]) /\ ~backups[b].deleting
  /\ BackupStep(b, [backups[b] EXCEPT !.deleting = TRUE])

Pruning(b) ==
  /\ backups[b].deleting /\ backups[b].phase = "Completed"
  /\ BackupStep(b, [backups[b] EXCEPT !.phase = "Deleting"])
  /\ UNCHANGED events

BackupGone(b) ==
  /\ backups[b].deleting /\ backups[b].phase # "Completed"
  /\ BackupStep(b, NoBackup)
  /\ UNCHANGED events

Environment ==
  \/ UpdateSchedule \/ RunSchedule \/ PhaseChanges \/ BlockChanges
  \/ \E b \in BackupIds : BackupEnds(b) \/ DeleteBackup(b) \/ Pruning(b) \/ BackupGone(b)

Next ==
  \/ Worker \/ CallFails \/ TaskFails \/ OperatorRestarts
  \/ SeeSchedule \/ SeeBackups \/ TimerFires \/ Tick
  \/ Environment

Spec == Init /\ [][Next]_vars

-----------------------------------------------------------------------------
(* Properties.                                                              *)

(* The type invariant; a run in progress has an ID that is a past moment.   *)
TypeOK ==
  /\ now \in Times /\ timer \in Nat /\ queued \in BOOLEAN
  /\ {sched, schedCache, orig, l} \subseteq Schedules
  /\ {gs, seen} \subseteq GameServers
  /\ backups \in [BackupIds -> Backups] /\ backupsCache \in [BackupIds -> Backups]
  /\ made \in 0..MaxBackups
  /\ pc \in {"idle", "adopt", "rotate", "task", "patch"} /\ at \in 0..now
  /\ doomed \subseteq BackupIds
  /\ pc = "rotate" <=> doomed # {}
  /\ pc = "task" => l.active.idx \in DOMAIN l.spec.tasks
  /\ events \in 0..MaxEvents
  /\ {old, again, blind} \subseteq BOOLEAN /\ slow \in Nat

(* "A run's progress lives in status.activeRun, so an operator restart      *)
(* resumes it at the task it was on": once the status records that a task   *)
(* was carried out, no reconcile that has read the last status carries it   *)
(* out again for the same fire time or request, whatever failed, restarted  *)
(* or was edited.  One that has not read it may, see the README: it starts  *)
(* from an earlier moment, and its patch takes the record back there: what  *)
(* came after is then carried out once more.                                *)
RecordedOnce == ~again

(* rotateBackups deletes Completed backups only, each with KeepLast newer   *)
(* ones that are Completed, or were until somebody else deleted them.       *)
KeepsNewest ==
  [][\A b \in doomed \ doomed' :
       backups[b] # backups'[b] =>
         /\ backups[b].phase = "Completed"
         /\ Cardinality({c \in BackupIds : c > b /\ c <= made
                                           /\ backups[c].phase \notin {"Running", "Failed"}})
              >= KeepLast]_vars

(* scheduleBackupHeadroom: "the next backup needs room before an old one is *)
(* rotated out".  With no backup under way and none to rotate out, the      *)
(* schedule's own backups leave room under the server's limit, as long as   *)
(* the last of them was not made on a list that missed another.  The other  *)
(* backups of the server, and the organisation's limit, may still refuse    *)
(* the next one.                                                            *)
RoomForNext ==
  \A list \in {backups, backupsCache} :
    /\ ~blind /\ HasBackupTask(sched)
    /\ \A b \in BackupIds : list[b].phase # "Running"
    /\ RotatedOut(sched, list) = {}
    => Cardinality(Counted(list)) < Limit

(* With nothing queued and everything seen, the schedule will be looked at  *)
(* by the time its next run or task is due, give or take the time a         *)
(* reconcile takes.                                                         *)
Awake ==
  pc = "idle" /\ ~queued /\ schedCache = sched =>
    /\ timer # Never
    /\ ~Asked(sched) \/ HasRun(sched)
    /\ timer <= NextRun(at) + slow
    /\ HasRun(sched) => at < sched.active.next /\ timer <= sched.active.next + slow
    /\ ~HasRun(sched) => ~FireDue(sched, at)

=============================================================================
