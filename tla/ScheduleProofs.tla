--------------------------- MODULE ScheduleProofs ---------------------------
(* Theorems about the specification of Schedule.                            *)
EXTENDS Schedule, FiniteSetTheorems, WellFoundedInduction, TLAPS

-----------------------------------------------------------------------------
(* Fire times.                                                              *)

LEMMA Products ==
  ASSUME NEW p \in Nat \ {0}, NEW a \in Nat, NEW b \in Nat
  PROVE  /\ p * a \in Nat /\ p * (a + 1) = p * a + p
         /\ p * a < p * b => a < b
         /\ a < b => p * (a + 1) <= p * b
OBVIOUS

LEMMA Quotients ==
  ASSUME NEW p \in Nat \ {0}, NEW t \in Nat
  PROVE  /\ t \div p \in Nat
         /\ p * (t \div p) <= t /\ t < p * (t \div p) + p
OBVIOUS

(* The moment t lies between two fire times; if the one after s is not      *)
(* later than t, the last one up to t is later than s.                      *)
LEMMA FireTimes ==
  ASSUME NEW s \in Nat, NEW t \in Nat
  PROVE  /\ LastRun(t) \in Nat /\ LastRun(t) <= t
         /\ NextRun(t) \in Nat /\ t < NextRun(t)
         /\ NextRun(s) <= t => s < LastRun(t)
<1> DEFINE p == Period
           a == s \div p
           b == t \div p
<1>1. p \in Nat \ {0}
  BY PeriodAssumption
<1>2. a \in Nat /\ p * a <= s /\ s < p * a + p
  BY <1>1, Quotients
<1>3. b \in Nat /\ p * b <= t /\ t < p * b + p
  BY <1>1, Quotients
<1>4. /\ p * a \in Nat /\ p * (a + 1) = p * a + p /\ p * b \in Nat /\ p * (b + 1) = p * b + p
  BY <1>1, <1>2, <1>3, Products
<1>5. p * (a + 1) <= t => p * (a + 1) <= p * b
  <2> SUFFICES ASSUME p * (a + 1) <= t PROVE p * (a + 1) <= p * b
    OBVIOUS
  <2>1. p * a < p * b
    BY <1>1, <1>3, <1>4
  <2>2. a < b
    BY <1>1, <1>2, <1>3, <2>1, Products
  <2> QED BY <1>1, <1>2, <1>3, <2>2, Products
<1> HIDE DEF p, a, b
<1>6. LastRun(t) = p * b /\ NextRun(t) = p * (b + 1) /\ NextRun(s) = p * (a + 1)
  BY DEF LastRun, NextRun, p, a, b
<1> QED BY <1>1, <1>2, <1>3, <1>4, <1>5, <1>6

-----------------------------------------------------------------------------
(* Type correctness.                                                        *)

LEMMA SpecType ==
  ASSUME NEW o \in Schedules
  PROVE  /\ o.spec.tasks \in Seq(Tasks) /\ o.spec.tasks # <<>>
         /\ o.spec.suspend \in BOOLEAN /\ o.spec.onlyUp \in BOOLEAN
         /\ 1 \in DOMAIN o.spec.tasks
         /\ \A i \in DOMAIN o.spec.tasks : o.spec.tasks[i].delay \in Nat
<1>1. o.spec \in Specs
  BY DEF Schedules
<1>2. /\ o.spec \in [tasks : Seq(Tasks), suspend : BOOLEAN, onlyUp : BOOLEAN]
      /\ o.spec.tasks # <<>>
  BY <1>1, SpecsAssumption
<1> DEFINE s == o.spec.tasks
<1>3. s \in Seq(Tasks) /\ s # <<>>
  BY <1>2
<1> HIDE DEF s
<1>4. \A i \in DOMAIN s : s[i] \in Tasks
  BY <1>3
<1>5. \A i \in DOMAIN s : s[i].delay \in Nat
  BY <1>4 DEF Tasks
<1>6. 1 \in DOMAIN s
  BY <1>3
<1> QED BY <1>2, <1>5, <1>6 DEF s

LEMMA RunType == NoRun \in Runs
BY BoundsAssumption DEF NoRun, Runs, Times

LEMMA NewType ==
  /\ \A s \in Specs : NewSchedule(s) \in Schedules
  /\ Specs # {} => Blank \in Schedules
  /\ NewServer \in GameServers
<1>1. \A s \in Specs : NewSchedule(s) \in Schedules
  BY RunType DEF NewSchedule, Schedules
<1> QED BY <1>1 DEF Blank, NewServer, GameServers

LEMMA FinishedType ==
  ASSUME NEW o \in Schedules
  PROVE  Finished(o) \in Schedules /\ ~HasRun(Finished(o))
BY RunType DEF Finished, Schedules, HasRun, NoRun

LEMMA StartType ==
  ASSUME NEW o \in Schedules, NEW g, NEW t \in Times, NEW why \in Int
  PROVE  start(o, g, t, why) \in Schedules
<1> DEFINE run == [id |-> t, idx |-> 1, next |-> t + o.spec.tasks[1].delay, why |-> why]
<1>1. run \in Runs
  BY SpecType DEF Runs, Times
<1> QED BY <1>1 DEF start, Schedules

LEMMA MaybeStartType ==
  ASSUME NEW o \in Schedules, NEW g, NEW t \in Times
  PROVE  maybeStart(o, g, t) \in Schedules
<1>0. t \in Nat /\ o.runNow \in Nat /\ LastRun(t) \in Nat
  BY FireTimes DEF Times, Schedules
<1>1. [o EXCEPT !.ranNow = o.runNow] \in Schedules /\ [o EXCEPT !.last = LastRun(t)] \in Schedules
  BY <1>0 DEF Schedules
<1> QED BY <1>0, <1>1, StartType DEF maybeStart

LEMMA TaskDoneType ==
  ASSUME NEW o \in Schedules, NEW t \in Nat, HasRun(o)
  PROVE  TaskDone(o, t) \in Schedules
<1>1. CASE o.active.idx >= Len(o.spec.tasks)
  BY <1>1, FinishedType DEF TaskDone
<1>2. CASE ~(o.active.idx >= Len(o.spec.tasks))
  <2>1. o.active \in Runs /\ o.active.idx \in Nat
    BY DEF Schedules, Runs
  <2>2. o.active.idx + 1 \in DOMAIN o.spec.tasks
    BY <1>2, <2>1, SpecType
  <2> DEFINE n == t + o.spec.tasks[o.active.idx + 1].delay
  <2>3. n \in Nat
    <3>1. o.spec.tasks[o.active.idx + 1].delay \in Nat
      BY <2>2, SpecType
    <3> QED BY <3>1
  <2> HIDE DEF n
  <2> DEFINE i == o.active.idx + 1
  <2>a. i \in Nat
    BY <2>1
  <2> HIDE DEF i
  <2>4. [o.active EXCEPT !.idx = i, !.next = n] \in Runs
    BY <2>1, <2>3, <2>a DEF Runs
  <2>5. TaskDone(o, t) = [o EXCEPT !.active = [o.active EXCEPT !.idx = i, !.next = n]]
    BY <1>2, <2>1 DEF TaskDone, Schedules, Runs, n, i
  <2> QED BY <2>4, <2>5 DEF Schedules
<1> QED BY <1>1, <1>2

LEMMA AdvanceType ==
  ASSUME NEW o \in Schedules, at' \in Nat, Advance(o)
  PROVE  /\ l' \in Schedules /\ pc' \in {"patch", "task"}
         /\ pc' = "task" => l'.active.idx \in DOMAIN l'.spec.tasks /\ l' = o /\ HasRun(o)
         /\ l' = o \/ l' = Finished(o)
         /\ l'.spec = o.spec
<1> DEFINE n == IF ~Waits(o, at') /\ Shortened(o) THEN Finished(o) ELSE o
<1>1. n \in Schedules
  BY FinishedType
<1>2. l' = n /\ pc' = IF Waits(n, at') THEN "patch" ELSE "task"
  BY DEF Advance
<1>3. Finished(o).spec = o.spec
  BY DEF Finished, Schedules
<1>4. ASSUME ~Waits(n, at') PROVE n = o /\ HasRun(o) /\ n.active.idx \in DOMAIN n.spec.tasks
  <2>1. Waits(Finished(o), at')
    BY FinishedType DEF Waits
  <2>2. n = o /\ ~Shortened(o) /\ HasRun(o)
    BY <1>4, <2>1 DEF Waits
  <2>3. o.active.idx \in Nat \ {0}
    BY <2>2 DEF HasRun, Schedules, Runs
  <2> QED BY <2>2, <2>3, SpecType DEF Shortened
<1> QED BY <1>1, <1>2, <1>3, <1>4

LEMMA DecideType ==
  ASSUME NEW o \in Schedules, NEW out, NEW g, NEW t \in Times, at' \in Nat, Decide(o, out, g, t)
  PROVE  /\ l' \in Schedules /\ pc' \in {"rotate", "patch", "task"}
         /\ pc' = "rotate" <=> out # {}
         /\ pc' = "task" => l'.active.idx \in DOMAIN l'.spec.tasks
BY MaybeStartType, AdvanceType DEF Decide

LEMMA RotatedType ==
  ASSUME NEW o, NEW list
  PROVE  RotatedOut(o, list) \subseteq Good(list) /\ Good(list) \subseteq BackupIds
BY DEF RotatedOut, Good
LEMMA TypeInit == Init => TypeOK
<1> SUFFICES ASSUME Init PROVE TypeOK
  OBVIOUS
<1>1. PICK s \in Specs : sched = NewSchedule(s)
  BY DEF Init
<1>2. {sched, schedCache, orig, l} \subseteq Schedules /\ {gs, seen} \subseteq GameServers
  BY <1>1, NewType DEF Init
<1>3. NoBackup \in Backups
  BY BoundsAssumption DEF NoBackup, Backups, Times, Phases
<1>4. backups \in [BackupIds -> Backups] /\ backupsCache \in [BackupIds -> Backups]
  BY <1>3 DEF Init
<1>5. /\ now \in Times /\ timer \in Nat /\ made \in 0..MaxBackups /\ at \in 0..now
      /\ events \in 0..MaxEvents /\ slow \in Nat
  BY BoundsAssumption DEF Init, Times, Never
<1>6. {old, again, blind} \subseteq BOOLEAN /\ queued \in BOOLEAN
  BY DEF Init
<1> QED BY <1>2, <1>4, <1>5, <1>6 DEF Init, TypeOK

(* What a step leaves of the worker when the reconcile is over.             *)
LEMMA DoneType ==
  ASSUME TypeOK, Done, now' \in Nat, now <= now'
  PROVE  /\ {orig', l'} \subseteq Schedules /\ seen' \in GameServers
         /\ pc' = "idle" /\ at' \in 0..now' /\ doomed' = {}
         /\ {old', again', blind'} \subseteq BOOLEAN
<1>1. Specs # {}
  BY DEF TypeOK, Schedules
<1>2. Blank \in Schedules /\ NewServer \in GameServers
  BY <1>1, NewType
<1>3. now \in Nat /\ at \in 0..now
  BY DEF TypeOK, Times
<1>4. {old', again', blind'} \subseteq BOOLEAN
  BY DEF Done, TypeOK
<1>5. at' \in 0..now'
  BY <1>3 DEF Done
<1> QED BY <1>2, <1>4, <1>5 DEF Done

(* The steps that leave the worker and the histories alone.                 *)
LEMMA WorldTypes ==
  ASSUME TypeOK, UNCHANGED <<workerVars, historyVars>>,
         now' \in Times, now <= now', timer' \in Nat, queued' \in BOOLEAN,
         {sched', schedCache'} \subseteq Schedules, gs' \in GameServers,
         backups' \in [BackupIds -> Backups], backupsCache' \in [BackupIds -> Backups],
         made' \in 0..MaxBackups, events' \in 0..MaxEvents
  PROVE  TypeOK'
<1>1. at' \in 0..now'
  BY DEF TypeOK, workerVars, Times
<1> QED BY <1>1 DEF TypeOK, workerVars, historyVars

LEMMA RequestTypes ==
  ASSUME TypeOK, Environment \/ SeeSchedule \/ SeeBackups \/ TimerFires \/ Tick
  PROVE  TypeOK'
<1>0. /\ sched \in Schedules /\ gs \in GameServers /\ now \in Times /\ now \in Nat
      /\ MaxTime \in Nat /\ MaxEvents \in Nat /\ events \in 0..MaxEvents
  BY BoundsAssumption DEF TypeOK, Times
<1>1. CASE UpdateSchedule
  <2>1. PICK s \in Specs : Request([sched EXCEPT !.spec = s])
    BY <1>1 DEF UpdateSchedule
  <2>2. [sched EXCEPT !.spec = s] \in Schedules
    BY <1>0 DEF Schedules
  <2> QED BY <1>0, <2>1, <2>2, WorldTypes
          DEF Request, Happens, timeVars, backupVars, TypeOK
<1>2. CASE RunSchedule
  <2>1. [sched EXCEPT !.runNow = @ + 1] \in Schedules
    BY <1>0 DEF Schedules
  <2> QED BY <1>0, <1>2, <2>1, WorldTypes
          DEF RunSchedule, Request, Happens, timeVars, backupVars, TypeOK
<1>3. CASE PhaseChanges \/ BlockChanges
  <2>1. [gs EXCEPT !.up = ~@] \in GameServers /\ [gs EXCEPT !.blocked = ~@] \in GameServers
    BY <1>0 DEF GameServers
  <2> QED BY <1>0, <1>3, <2>1, WorldTypes
          DEF PhaseChanges, BlockChanges, GameChanges, Happens, timeVars, schedVars, backupVars,
              TypeOK
<1>4. ASSUME NEW b \in BackupIds, BackupEnds(b) \/ DeleteBackup(b) \/ Pruning(b) \/ BackupGone(b)
      PROVE  TypeOK'
  <2>0. backups[b] \in Backups /\ NoBackup \in Backups
    BY BoundsAssumption DEF TypeOK, NoBackup, Backups, Times, Phases
  <2>1. /\ \A phase \in {"Completed", "Failed"} : [backups[b] EXCEPT !.phase = phase] \in Backups
        /\ [backups[b] EXCEPT !.deleting = TRUE] \in Backups
        /\ [backups[b] EXCEPT !.phase = "Deleting"] \in Backups
    BY <2>0 DEF Backups, Phases
  <2>2. \E new \in Backups : BackupStep(b, new)
    BY <1>4, <2>0, <2>1 DEF BackupEnds, DeleteBackup, Pruning, BackupGone
  <2>3. events' \in 0..MaxEvents
    BY <1>0, <1>4 DEF BackupEnds, DeleteBackup, Pruning, BackupGone, Happens
  <2>4. backups' \in [BackupIds -> Backups]
    BY <2>2 DEF BackupStep, TypeOK
  <2> QED BY <1>0, <2>2, <2>3, <2>4, WorldTypes
          DEF BackupStep, timeVars, schedVars, TypeOK
<1>5. CASE SeeSchedule
  BY <1>0, <1>5, WorldTypes DEF SeeSchedule, backupVars, TypeOK
<1>6. CASE SeeBackups
  BY <1>0, <1>6, WorldTypes DEF SeeBackups, schedVars, TypeOK
<1>7. CASE TimerFires
  BY <1>0, <1>7, WorldTypes DEF TimerFires, schedVars, backupVars, TypeOK, Never
<1>8. CASE Tick
  BY <1>0, <1>8, WorldTypes DEF Tick, schedVars, backupVars, TypeOK, Times
<1> QED BY <1>1, <1>2, <1>3, <1>4, <1>5, <1>6, <1>7, <1>8 DEF Environment
(* The facts about numbers that the steps of the worker need.               *)
LEMMA Numbers ==
  ASSUME TypeOK
  PROVE  /\ now \in Nat /\ now <= MaxTime /\ at \in Nat /\ at <= now /\ at \in Times
         /\ now \in Times /\ timer \in Nat /\ slow \in Nat /\ made \in Nat /\ made <= MaxBackups
         /\ MaxTime \in Nat /\ MaxBackups \in Nat /\ events \in 0..MaxEvents /\ MaxEvents \in Nat
BY BoundsAssumption DEF TypeOK, Times

LEMMA SucceedsTypes ==
  ASSUME TypeOK, pc = "task", Succeeds, {gs', seen'} \subseteq GameServers,
         backups' \in [BackupIds -> Backups], backupsCache' = backupsCache,
         made' \in 0..MaxBackups, blind' \in BOOLEAN
  PROVE  TypeOK'
<1>0. l \in Schedules /\ HasRun(l) /\ at' = at /\ Advance(TaskDone(l, at))
  <2>1. l \in Schedules /\ l.active.idx \in DOMAIN l.spec.tasks
    BY DEF TypeOK
  <2>2. l.active.idx # 0
    BY <2>1, SpecType
  <2> QED BY <2>1, <2>2 DEF Succeeds, HasRun
<1>1. TaskDone(l, at) \in Schedules
  BY <1>0, TaskDoneType, Numbers
<1>2. /\ l' \in Schedules /\ pc' \in {"patch", "task"}
      /\ pc' = "task" => l'.active.idx \in DOMAIN l'.spec.tasks
  BY <1>0, <1>1, AdvanceType, Numbers
<1>3. {old', again', blind'} \subseteq BOOLEAN
  <2>1. again' \in BOOLEAN
    BY DEF Succeeds, TypeOK
  <2> QED BY <2>1 DEF Succeeds, TypeOK
<1>4. doomed = {} /\ doomed' = {}
  BY DEF TypeOK, Succeeds
<1>5. UNCHANGED <<now, timer, queued, sched, schedCache, orig, events, slow, at>>
  BY DEF Succeeds, timeVars, schedVars
<1> QED BY <1>2, <1>3, <1>4, <1>5 DEF TypeOK

LEMMA EndsRunTypes ==
  ASSUME TypeOK, pc = "task", EndsRun, events' \in 0..MaxEvents
  PROVE  TypeOK'
<1>1. l' \in Schedules
  BY FinishedType DEF EndsRun, TypeOK
<1>2. {old', again', blind'} \subseteq BOOLEAN
  BY DEF EndsRun, historyVars, TypeOK
<1>3. UNCHANGED <<now, timer, queued, sched, schedCache, gs, backups, backupsCache, made, at,
                  orig, seen, doomed, slow>> /\ pc' = "patch"
  BY DEF EndsRun, timeVars, schedVars, backupVars, historyVars
<1> QED BY <1>1, <1>2, <1>3 DEF TypeOK

(* A reconcile that ends, and leaves the world typed.                       *)
LEMMA EndTypes ==
  ASSUME TypeOK, Done, queued' \in BOOLEAN, slow' \in Nat, timer' \in Nat, now' = now,
         {sched', schedCache'} \subseteq Schedules, gs' = gs, backups' = backups,
         backupsCache' \in [BackupIds -> Backups], made' = made, events' \in 0..MaxEvents
  PROVE  TypeOK'
<1>1. /\ {orig', l'} \subseteq Schedules /\ seen' \in GameServers
      /\ pc' = "idle" /\ at' \in 0..now' /\ doomed' = {}
      /\ {old', again', blind'} \subseteq BOOLEAN
  BY DoneType, Numbers
<1> QED BY <1>1 DEF TypeOK

LEMMA ReconcileTypes ==
  ASSUME TypeOK, BeginReconcile \/ Adopt \/ Rotate
  PROVE  TypeOK'
<1>0. /\ {sched, schedCache, orig, l} \subseteq Schedules
      /\ now \in Times /\ now \in Nat /\ at \in Times /\ at \in Nat /\ at <= now
  BY Numbers DEF TypeOK
<1>1. CASE BeginReconcile
  <2>1. doomed' \subseteq BackupIds
    BY <1>1, RotatedType DEF BeginReconcile
  <2>2. at' \in 0..now'
    BY <1>0, <1>1 DEF BeginReconcile
  <2>3. /\ l' \in Schedules /\ pc' \in {"adopt", "rotate", "patch", "task"}
        /\ pc' = "rotate" <=> doomed' # {}
        /\ pc' = "task" => l'.active.idx \in DOMAIN l'.spec.tasks
    <3>1. CASE schedCache.owned
      BY <1>0, <1>1, <3>1, <2>2, DecideType DEF BeginReconcile
    <3>2. CASE ~schedCache.owned
      BY <1>0, <1>1, <3>2 DEF BeginReconcile
    <3> QED BY <3>1, <3>2
  <2>4. {old', again', blind'} \subseteq BOOLEAN
    <3>1. old' \in BOOLEAN
      BY <1>1 DEF BeginReconcile
    <3> QED BY <1>1, <3>1 DEF BeginReconcile, TypeOK
  <2>5. UNCHANGED <<now, timer, sched, schedCache, gs, backups, backupsCache, made, slow>>
    BY <1>1 DEF BeginReconcile, schedVars, backupVars
  <2>6. orig' \in Schedules /\ seen' \in GameServers /\ queued' \in BOOLEAN
        /\ events' \in 0..MaxEvents
    <3>1. events' \in 0..MaxEvents
      BY <1>1, Numbers DEF BeginReconcile, Happens
    <3> QED BY <1>1, <3>1 DEF BeginReconcile, TypeOK
  <2> QED BY <2>1, <2>2, <2>3, <2>4, <2>5, <2>6 DEF TypeOK
<1>2. CASE Adopt
  <2>1. sched' \in Schedules
    BY <1>0, <1>2 DEF Adopt, Schedules
  <2>2. doomed' \subseteq BackupIds /\ at' = at
    BY <1>2, RotatedType DEF Adopt
  <2>3. /\ l' \in Schedules /\ pc' \in {"rotate", "patch", "task"}
        /\ pc' = "rotate" <=> doomed' # {}
        /\ pc' = "task" => l'.active.idx \in DOMAIN l'.spec.tasks
    BY <1>0, <1>2, <2>1, <2>2, DecideType DEF Adopt
  <2>4. {old', again', blind'} \subseteq BOOLEAN
    BY <1>2 DEF Adopt, historyVars, TypeOK
  <2>5. /\ UNCHANGED <<now, timer, queued, schedCache, gs, backups, backupsCache, made, events,
                       seen, slow>>
        /\ orig' = sched'
    BY <1>2 DEF Adopt, timeVars, backupVars, historyVars
  <2> QED BY <2>1, <2>2, <2>3, <2>4, <2>5 DEF TypeOK
<1>3. CASE Rotate
  <2>1. doomed' \subseteq BackupIds /\ at' = at
    BY <1>3 DEF Rotate, TypeOK
  <2>2. backups' \in [BackupIds -> Backups]
    <3>1. PICK b \in doomed : backups' = [backups EXCEPT ![b].deleting = Exists(backups[b])]
      BY <1>3 DEF Rotate
    <3>2. b \in BackupIds /\ backups[b] \in Backups
      BY <3>1 DEF TypeOK
    <3>3. [backups[b] EXCEPT !.deleting = Exists(backups[b])] \in Backups
      BY <3>2 DEF Backups, Exists
    <3>4. backups' = [backups EXCEPT ![b] = [backups[b] EXCEPT !.deleting = Exists(backups[b])]]
      BY <3>1, <3>2 DEF TypeOK
    <3> QED BY <3>2, <3>3, <3>4 DEF TypeOK
  <2>3. /\ l' \in Schedules /\ pc' \in {"rotate", "patch", "task"}
        /\ pc' = "rotate" <=> doomed' # {}
        /\ pc' = "task" => l'.active.idx \in DOMAIN l'.spec.tasks
    BY <1>0, <1>3, <2>1, DecideType DEF Rotate
  <2>4. UNCHANGED <<now, timer, queued, sched, schedCache, gs, backupsCache, made, events, orig,
                    seen, old, again, blind, slow>>
    BY <1>3 DEF Rotate, timeVars, schedVars, historyVars
  <2> QED BY <2>1, <2>2, <2>3, <2>4 DEF TypeOK
<1> QED BY <1>1, <1>2, <1>3
(* The steps that carry out a task.                                         *)
WorksOn ==
  SendCommand \/ RestartServer \/ StartServer \/ StopServer \/ TakeBackup \/ BackupKnown

LEMMA WorksOnTypes ==
  ASSUME TypeOK, WorksOn
  PROVE  TypeOK' /\ pc = "task" /\ Succeeds
<1>0. gs \in GameServers /\ seen \in GameServers /\ l \in Schedules
      /\ backups \in [BackupIds -> Backups] /\ made \in 0..MaxBackups
  BY DEF TypeOK
<1>1. CASE SendCommand \/ RestartServer \/ BackupKnown
  BY <1>0, <1>1, SucceedsTypes DEF SendCommand, RestartServer, BackupKnown, Due, backupVars,
                                   TypeOK
<1>2. ASSUME NEW action, NEW state \in {"Running", "Stopped"}, SetPower(action, state)
      PROVE  TypeOK' /\ pc = "task" /\ Succeeds
  <2>1. [gs EXCEPT !.state = state] \in GameServers
    BY <1>0 DEF GameServers
  <2>2. {gs', seen'} \subseteq GameServers
    BY <1>0, <1>2, <2>1 DEF SetPower
  <2> QED BY <1>0, <1>2, <2>2, SucceedsTypes DEF SetPower, Due, backupVars, TypeOK
<1>3. CASE TakeBackup
  <2>1. made' \in 0..MaxBackups /\ made' = made + 1
    BY <1>0, <1>3, Numbers DEF TakeBackup
  <2>2. l.active \in Runs
    BY <1>0 DEF Schedules
  <2>3. [run |-> l.active.id, why |-> l.active.why, phase |-> "Running", deleting |-> FALSE]
          \in Backups
    BY <2>2 DEF Runs, Backups, Phases
  <2>4. backups' \in [BackupIds -> Backups]
    BY <1>0, <1>3, <2>3 DEF TakeBackup
  <2> QED BY <1>0, <1>3, <2>1, <2>4, SucceedsTypes DEF TakeBackup, Due
<1> QED BY <1>1, <1>2, <1>3 DEF WorksOn, StartServer, StopServer

(* The steps that end a run early.                                          *)
Stops == CannotRun \/ BackupRefused \/ TaskFails

LEMMA StopsTypes ==
  ASSUME TypeOK, Stops
  PROVE  TypeOK' /\ pc = "task" /\ EndsRun
<1>1. pc = "task" /\ EndsRun
  BY DEF Stops, CannotRun, BackupRefused, TaskFails, Due
<1>2. events' \in 0..MaxEvents
  BY Numbers DEF Stops, CannotRun, BackupRefused, TaskFails, Happens
<1> QED BY <1>1, <1>2, EndsRunTypes

(* A reconcile fails, or the operator stops.                                *)
Breaks == AdoptConflicts \/ CallFails \/ OperatorRestarts

LEMMA BreaksTypes ==
  ASSUME TypeOK, Breaks
  PROVE  TypeOK' /\ Fail
<1>1. Fail /\ Done
  BY DEF Breaks, AdoptConflicts, CallFails, OperatorRestarts, Fail
<1>2. events' \in 0..MaxEvents
  BY Numbers DEF Breaks, AdoptConflicts, CallFails, OperatorRestarts, Happens
<1>3. /\ queued' \in BOOLEAN /\ slow' \in Nat /\ timer' \in Nat /\ now' = now
      /\ {sched', schedCache'} \subseteq Schedules /\ gs' = gs /\ backups' = backups
      /\ backupsCache' \in [BackupIds -> Backups] /\ made' = made
  BY <1>1 DEF Breaks, AdoptConflicts, CallFails, OperatorRestarts, Fail, schedVars, backupVars,
              TypeOK, Never
<1> QED BY <1>1, <1>2, <1>3, EndTypes

(* When the reconcile asks to be called again.                              *)
LEMMA WakeType ==
  ASSUME NEW o \in Schedules, NEW t \in Nat
  PROVE  /\ Wake(o, t) \in Nat /\ Wake(o, t) <= NextRun(t)
         /\ HasRun(o) => Wake(o, t) <= o.active.next
         /\ HasRun(o) /\ t < o.active.next => t < Wake(o, t)
         /\ ~HasRun(o) => t < Wake(o, t)
<1>1. o.active.next \in Nat /\ NextRun(t) \in Nat /\ t < NextRun(t)
  BY FireTimes DEF Schedules, Runs
<1> QED BY <1>1 DEF Wake

LEMMA PatchTypes ==
  ASSUME TypeOK, PatchStatus
  PROVE  TypeOK' /\ Done
<1>0. sched \in Schedules /\ l \in Schedules
  BY DEF TypeOK
<1>1. sched' \in Schedules
  BY <1>0 DEF PatchStatus, Schedules
<1>2. Wake(l, at) \in Nat
  BY <1>0, WakeType, Numbers
<1>3. timer' \in Nat /\ slow' \in Nat
  BY <1>2, Numbers DEF PatchStatus, Sooner
<1> QED BY <1>1, <1>3, EndTypes DEF PatchStatus, backupVars, TypeOK

LEMMA StepCases ==
  ASSUME [Next]_vars
  PROVE  \/ BeginReconcile \/ Adopt \/ Rotate \/ WorksOn \/ Stops \/ Breaks \/ PatchStatus
         \/ Environment \/ SeeSchedule \/ SeeBackups \/ TimerFires \/ Tick \/ UNCHANGED vars
BY DEF Next, Worker, WorksOn, Stops, Breaks

LEMMA TypeStep == TypeOK /\ [Next]_vars => TypeOK'
<1> SUFFICES ASSUME TypeOK, [Next]_vars PROVE TypeOK'
  OBVIOUS
<1>1. CASE UNCHANGED vars
  BY <1>1 DEF vars, TypeOK
<1> QED BY <1>1, StepCases, ReconcileTypes, WorksOnTypes, StopsTypes, BreaksTypes, PatchTypes,
           RequestTypes

(* Every state of the specification is well typed; a worker that carries    *)
(* out a task has one to carry out.                                         *)
THEOREM TypeCorrect == Spec => []TypeOK
BY TypeInit, TypeStep, PTL DEF Spec
-----------------------------------------------------------------------------
(* Backups and their cached copies.                                         *)

(* y is x, some steps later.                                                *)
Later(x, y) ==
  Exists(x) =>
    \/ ~Exists(y)
    \/ /\ y.run = x.run /\ (x.deleting => y.deleting)
       /\ x.phase = "Failed" => y.phase = "Failed"
       /\ x.phase = "Completed" => y.phase \in {"Completed", "Deleting"}
       /\ x.phase = "Deleting" => y.phase = "Deleting"

(* A deletion comes before its phase, and no longer than the backup.        *)
Marked(x) == (x.phase = "Deleting" => x.deleting) /\ (~Exists(x) => ~x.deleting)

CopyInv ==
  \A b \in BackupIds :
    /\ Later(backupsCache[b], backups[b])
    /\ b > made => backups[b] = NoBackup /\ backupsCache[b] = NoBackup
    /\ Marked(backups[b]) /\ Marked(backupsCache[b])

(* What a step does to a backup that was made before.                       *)
Ages(x, y) ==
  /\ Later(x, y)
  /\ ~Exists(x) => ~Exists(y)
  /\ Marked(x) => Marked(y)
  /\ x = NoBackup => y = NoBackup

LEMMA AgesSame == \A x : Ages(x, x)
BY DEF Ages, Later

LEMMA LaterAges ==
  ASSUME NEW x, NEW y, NEW z, Later(x, y), Ages(y, z)
  PROVE  Later(x, z)
BY DEF Later, Ages, Exists

LEMMA EnvironmentAges ==
  ASSUME TypeOK, NEW b \in BackupIds, BackupEnds(b) \/ DeleteBackup(b) \/ Pruning(b) \/ BackupGone(b)
  PROVE  /\ \A c \in BackupIds : Ages(backups[c], backups'[c])
         /\ UNCHANGED <<backupsCache, made, workerVars, historyVars, sched, schedCache>>
<1>0. backups[b] \in Backups /\ backups \in [BackupIds -> Backups]
  BY DEF TypeOK
<1>1. PICK new : BackupStep(b, new) /\ Ages(backups[b], new)
  <2>1. CASE BackupEnds(b)
    BY <1>0, <2>1 DEF BackupEnds, Ages, Later, Marked, Exists, Backups, NoBackup
  <2>2. CASE DeleteBackup(b)
    BY <1>0, <2>2 DEF DeleteBackup, Ages, Later, Marked, Exists, Backups, NoBackup
  <2>3. CASE Pruning(b)
    BY <1>0, <2>3 DEF Pruning, Ages, Later, Marked, Exists, Backups, NoBackup
  <2>4. CASE BackupGone(b)
    BY <1>0, <2>4 DEF BackupGone, Ages, Later, Marked, Exists, Backups, NoBackup
  <2> QED BY <2>1, <2>2, <2>3, <2>4
<1>2. \A c \in BackupIds : backups'[c] = IF c = b THEN new ELSE backups[c]
  BY <1>0, <1>1 DEF BackupStep
<1> QED BY <1>1, <1>2, AgesSame DEF BackupStep, schedVars

LEMMA RotateAges ==
  ASSUME TypeOK, Rotate
  PROVE  /\ \A c \in BackupIds : Ages(backups[c], backups'[c])
         /\ UNCHANGED <<backupsCache, made>>
<1>1. PICK b \in doomed : backups' = [backups EXCEPT ![b].deleting = Exists(backups[b])]
  BY DEF Rotate
<1>2. b \in BackupIds /\ backups \in [BackupIds -> Backups] /\ backups[b] \in Backups
  BY <1>1 DEF TypeOK
<1>3. Ages(backups[b], [backups[b] EXCEPT !.deleting = Exists(backups[b])])
  <2>1. CASE Exists(backups[b])
    <3>1. Ages(backups[b], [backups[b] EXCEPT !.deleting = TRUE])
      BY <1>2, <2>1 DEF Ages, Later, Marked, Exists, Backups, NoBackup
    <3> QED BY <2>1, <3>1
  <2>2. CASE ~Exists(backups[b])
    <3>1. Ages(backups[b], [backups[b] EXCEPT !.deleting = FALSE])
      <4>0. \A r \in Backups : [r EXCEPT !.deleting = r.deleting] = r
        BY DEF Backups
      <4>1. backups[b] = NoBackup => [backups[b] EXCEPT !.deleting = FALSE] = NoBackup
        <5>1. NoBackup.deleting = FALSE
          BY DEF NoBackup
        <5> QED BY <1>2, <4>0, <5>1
      <4>2. [backups[b] EXCEPT !.deleting = FALSE].phase = backups[b].phase
        BY <1>2 DEF Backups
      <4> QED BY <2>2, <4>1, <4>2 DEF Ages, Later, Marked, Exists
    <3>2. Exists(backups[b]) = FALSE
      BY <2>2 DEF Exists
    <3> QED BY <3>1, <3>2
  <2> QED BY <2>1, <2>2
<1>4. \A c \in BackupIds :
        backups'[c] = IF c = b THEN [backups[b] EXCEPT !.deleting = Exists(backups[b])]
                      ELSE backups[c]
  BY <1>1, <1>2
<1> QED BY <1>3, <1>4, AgesSame DEF Rotate

LEMMA BackupSteps ==
  ASSUME TypeOK, [Next]_vars
  PROVE  /\ made' = made \/ (made' = made + 1 /\ TakeBackup)
         /\ \A b \in BackupIds : (TakeBackup /\ b = made + 1) \/ Ages(backups[b], backups'[b])
         /\ backupsCache' = backupsCache \/ (backupsCache' = backups /\ backups' = backups)
<1>1. CASE Rotate
  BY <1>1, RotateAges
<1>2. CASE \E b \in BackupIds : BackupEnds(b) \/ DeleteBackup(b) \/ Pruning(b) \/ BackupGone(b)
  BY <1>2, EnvironmentAges
<1>3. CASE TakeBackup
  <2>1. backups \in [BackupIds -> Backups] /\ made' = made + 1
    BY <1>3 DEF TakeBackup, TypeOK
  <2>2. \A b \in BackupIds : b # made + 1 => backups'[b] = backups[b]
    BY <1>3, <2>1 DEF TakeBackup
  <2> QED BY <1>3, <2>1, <2>2, AgesSame DEF TakeBackup
<1>4. CASE /\ ~Rotate /\ ~TakeBackup
           /\ ~\E b \in BackupIds : BackupEnds(b) \/ DeleteBackup(b) \/ Pruning(b) \/ BackupGone(b)
  <2>1. UNCHANGED <<backups, made>>
        /\ (backupsCache' = backupsCache \/ backupsCache' = backups)
    BY <1>4, StepCases
       DEF BeginReconcile, Adopt, WorksOn, SendCommand, RestartServer, StartServer, StopServer,
           SetPower, BackupKnown, Stops, CannotRun, BackupRefused, TaskFails, EndsRun, Breaks,
           AdoptConflicts, CallFails, OperatorRestarts, PatchStatus, Environment, UpdateSchedule,
           RunSchedule, Request, PhaseChanges, BlockChanges, GameChanges, SeeSchedule, SeeBackups,
           TimerFires, Tick, backupVars, vars
  <2> QED BY <2>1, AgesSame
<1> QED BY <1>1, <1>2, <1>3, <1>4

LEMMA CopyInvKept == TypeOK /\ CopyInv /\ [Next]_vars => CopyInv'
<1> SUFFICES ASSUME TypeOK, CopyInv, [Next]_vars, NEW b \in BackupIds
             PROVE  /\ Later(backupsCache'[b], backups'[b])
                    /\ b > made' => backups'[b] = NoBackup /\ backupsCache'[b] = NoBackup
                    /\ Marked(backups'[b]) /\ Marked(backupsCache'[b])
  BY DEF CopyInv
<1>0. b \in Nat /\ made \in Nat /\ MaxBackups \in Nat
  BY Numbers DEF BackupIds
<1>1. CASE TakeBackup /\ b = made + 1
  <2>1. backupsCache[b] = NoBackup /\ backupsCache' = backupsCache /\ made' = made + 1
    BY <1>0, <1>1 DEF CopyInv, TakeBackup
  <2>2. backups'[b].phase = "Running"
    BY <1>1 DEF TakeBackup, TypeOK
  <2> QED BY <1>0, <1>1, <2>1, <2>2 DEF Later, Marked, Exists, NoBackup
<1>2. CASE Ages(backups[b], backups'[b])
  <2>1. CASE backupsCache' = backupsCache
    BY <1>0, <1>2, <2>1, BackupSteps, LaterAges DEF CopyInv, Ages
  <2>2. CASE backupsCache' = backups /\ backups' = backups
    BY <1>0, <1>2, <2>2, BackupSteps, AgesSame DEF CopyInv, Ages
  <2> QED BY <2>1, <2>2, BackupSteps
<1> QED BY <1>1, <1>2, BackupSteps

LEMMA CopyInvInit == Init => CopyInv
BY DEF Init, CopyInv, Later, Marked, Exists, NoBackup

LEMMA CopiesKnown == Spec => []CopyInv
BY TypeCorrect, CopyInvInit, CopyInvKept, PTL DEF Spec
-----------------------------------------------------------------------------
(* Rotation.                                                                *)

LEMMA SubsetsOfBackups ==
  /\ \A S \in SUBSET BackupIds : IsFiniteSet(S) /\ Cardinality(S) \in Nat
  /\ \A S, T \in SUBSET BackupIds : S \subseteq T => Cardinality(S) <= Cardinality(T)
<1>1. IsFiniteSet(BackupIds)
  BY BoundsAssumption, FS_Interval DEF BackupIds
<1>2. \A S \in SUBSET BackupIds : IsFiniteSet(S) /\ Cardinality(S) \in Nat
  BY <1>1, FS_Subset, FS_CardinalityType
<1> QED BY <1>2, FS_Subset

(* The backups made after b that are Completed, or were.                    *)
Past(b) ==
  {c \in BackupIds : c > b /\ c <= made /\ backups[c].phase \notin {"Running", "Failed"}}

(* What a worker is about to delete was Completed when it looked, with      *)
(* KeepLast newer ones.                                                     *)
DoomedInv ==
  \A b \in doomed :
    /\ b <= made
    /\ backups[b].phase = "Completed" \/ ~Exists(backups[b]) \/ backups[b].deleting
    /\ Cardinality(Past(b)) >= KeepLast

LEMMA PastGrows ==
  ASSUME TypeOK, CopyInv, [Next]_vars, NEW b \in BackupIds
  PROVE  Cardinality(Past(b)) <= Cardinality(Past(b)')
<1>1. Past(b) \subseteq Past(b)'
  <2> SUFFICES ASSUME NEW c \in Past(b) PROVE c \in Past(b)'
    OBVIOUS
  <2>1. /\ c \in BackupIds /\ c > b /\ c <= made /\ c \in Nat /\ made \in Nat
        /\ backups[c].phase \notin {"Running", "Failed"} /\ backups[c] \in Backups
    BY Numbers DEF Past, BackupIds, TypeOK
  <2>2. c <= made' /\ Ages(backups[c], backups'[c])
    BY <2>1, BackupSteps
  <2>3. backups'[c].phase \notin {"Running", "Failed"}
    BY <2>1, <2>2 DEF Ages, Later, Exists, Backups, Phases
  <2> QED BY <2>1, <2>2, <2>3 DEF Past
<1>2. Past(b) \subseteq BackupIds /\ Past(b)' \subseteq BackupIds
  BY DEF Past, BackupIds
<1> QED BY <1>1, <1>2, SubsetsOfBackups

(* What is chosen from the cached copies.                                   *)
LEMMA ChosenWell ==
  ASSUME TypeOK, CopyInv, NEW o, NEW b \in RotatedOut(o, backupsCache)
  PROVE  /\ b <= made
         /\ backups[b].phase = "Completed" \/ ~Exists(backups[b]) \/ backups[b].deleting
         /\ Cardinality(Past(b)) >= KeepLast
<1> DEFINE N == {c \in Good(backupsCache) : c > b}
<1>1. /\ b \in BackupIds /\ b \in Nat /\ made \in Nat /\ backupsCache[b].phase = "Completed"
      /\ Cardinality(N) >= KeepLast
  BY Numbers DEF RotatedOut, Good, BackupIds
<1>2. b <= made
  BY <1>1 DEF CopyInv, NoBackup
<1>3. backups[b].phase = "Completed" \/ ~Exists(backups[b]) \/ backups[b].deleting
  BY <1>1 DEF CopyInv, Later, Exists, Marked
<1>4. N \subseteq Past(b)
  <2> SUFFICES ASSUME NEW c \in N PROVE c \in Past(b)
    OBVIOUS
  <2>1. c \in BackupIds /\ c \in Nat /\ c > b /\ backupsCache[c].phase = "Completed"
    BY DEF Good, BackupIds
  <2>2. c <= made
    BY <1>1, <2>1 DEF CopyInv, NoBackup
  <2>3. backups[c].phase \notin {"Running", "Failed"}
    BY <2>1 DEF CopyInv, Later, Exists
  <2> QED BY <2>1, <2>2, <2>3 DEF Past
<1>5. N \subseteq BackupIds /\ Past(b) \subseteq BackupIds
  BY DEF Good, Past
<1>6. Cardinality(N) <= Cardinality(Past(b)) /\ Cardinality(N) \in Nat /\ Cardinality(Past(b)) \in Nat
  BY <1>4, <1>5, SubsetsOfBackups
<1>7. KeepLast \in Nat
  BY HeadroomAssumption
<1> HIDE DEF N
<1> QED BY <1>1, <1>2, <1>3, <1>6, <1>7

LEMMA DoomedInvKept == TypeOK /\ CopyInv /\ DoomedInv /\ [Next]_vars => DoomedInv'
<1> SUFFICES ASSUME TypeOK, CopyInv, DoomedInv, [Next]_vars PROVE DoomedInv'
  OBVIOUS
<1>1. CASE doomed' \subseteq doomed
  <2> SUFFICES ASSUME NEW b \in doomed'
               PROVE  /\ b <= made'
                      /\ \/ backups'[b].phase = "Completed" \/ ~Exists(backups'[b])
                         \/ backups'[b].deleting
                      /\ Cardinality(Past(b)') >= KeepLast
    BY DEF DoomedInv, Past
  <2>1. /\ b \in doomed /\ b \in BackupIds /\ b \in Nat /\ made \in Nat /\ b <= made
        /\ backups[b].phase = "Completed" \/ ~Exists(backups[b]) \/ backups[b].deleting
        /\ Cardinality(Past(b)) >= KeepLast
    BY <1>1, Numbers DEF DoomedInv, TypeOK, BackupIds
  <2>2. b <= made' /\ Ages(backups[b], backups'[b])
    BY <2>1, BackupSteps
  <2>3. backups'[b].phase = "Completed" \/ ~Exists(backups'[b]) \/ backups'[b].deleting
    <3>1. backups[b] \in Backups /\ backups'[b] \in Backups
      BY <2>1, TypeStep DEF TypeOK
    <3>2. CASE ~Exists(backups[b])
      BY <2>2, <3>2 DEF Ages
    <3>3. CASE Exists(backups[b]) /\ backups[b].deleting
      BY <2>2, <3>3 DEF Ages, Later
    <3>4. CASE Exists(backups[b]) /\ backups[b].phase = "Completed"
      <4>1. Marked(backups'[b])
        BY <2>1, CopyInvKept DEF CopyInv
      <4> QED BY <2>2, <3>1, <3>4, <4>1 DEF Ages, Later, Marked
    <3> QED BY <2>1, <3>2, <3>3, <3>4
  <2>4. Cardinality(Past(b)) <= Cardinality(Past(b)')
    BY <2>1, PastGrows
  <2>5. Cardinality(Past(b)) \in Nat /\ Cardinality(Past(b)') \in Nat /\ KeepLast \in Nat
    <3>1. Past(b) \subseteq BackupIds /\ Past(b)' \subseteq BackupIds
      BY DEF Past, BackupIds
    <3> QED BY <3>1, SubsetsOfBackups, HeadroomAssumption
  <2> QED BY <2>1, <2>2, <2>3, <2>4, <2>5
<1>2. CASE BeginReconcile \/ Adopt
  <2>1. /\ doomed' = {} \/ \E o : doomed' = RotatedOut(o, backupsCache)
        /\ UNCHANGED <<backups, made>>
    BY <1>2 DEF BeginReconcile, Adopt, backupVars
  <2> QED BY <2>1, ChosenWell DEF DoomedInv, Past
<1>3. doomed' \subseteq doomed \/ BeginReconcile \/ Adopt
  BY StepCases, WorksOnTypes, StopsTypes, BreaksTypes, PatchTypes
     DEF Rotate, Succeeds, EndsRun, Fail, Done, Environment, UpdateSchedule, RunSchedule, Request,
         PhaseChanges, BlockChanges, GameChanges, BackupEnds, DeleteBackup, Pruning, BackupGone,
         BackupStep, SeeSchedule, SeeBackups, TimerFires, Tick, workerVars, vars
<1> QED BY <1>1, <1>2, <1>3

LEMMA DoomedKnown == Spec => []DoomedInv
<1>1. Init => DoomedInv
  BY DEF Init, DoomedInv
<1> QED BY <1>1, TypeCorrect, CopiesKnown, DoomedInvKept, PTL DEF Spec

(* What KeepsNewest says of one step.                                       *)
DeletesRightly ==
  \A b \in doomed \ doomed' :
    backups[b] # backups'[b] =>
      /\ backups[b].phase = "Completed"
      /\ Cardinality({c \in BackupIds : c > b /\ c <= made
                                        /\ backups[c].phase \notin {"Running", "Failed"}})
           >= KeepLast

(* However stale the cached copies, rotation deletes Completed backups only *)
(* and each of them has KeepLast newer ones that are Completed, or were.    *)
THEOREM NewestKept == Spec => KeepsNewest
<1>1. TypeOK /\ CopyInv /\ DoomedInv /\ [Next]_vars => [DeletesRightly]_vars
  <2> SUFFICES ASSUME TypeOK, CopyInv, DoomedInv, [Next]_vars, NEW b \in doomed \ doomed',
                      backups[b] # backups'[b]
               PROVE  /\ backups[b].phase = "Completed"
                      /\ Cardinality(Past(b)) >= KeepLast
    BY DEF DeletesRightly, Past
  <2>1. Rotate
    BY StepCases, WorksOnTypes, StopsTypes, BreaksTypes, PatchTypes
       DEF BeginReconcile, Adopt, Succeeds, EndsRun, Breaks, AdoptConflicts, CallFails,
           OperatorRestarts, PatchStatus, Environment, UpdateSchedule, RunSchedule, Request,
           PhaseChanges, BlockChanges, GameChanges, BackupEnds, DeleteBackup, Pruning, BackupGone,
           BackupStep, SeeSchedule, SeeBackups, TimerFires, Tick, backupVars, workerVars, vars
  <2>2. PICK d \in doomed : /\ backups' = [backups EXCEPT ![d].deleting = Exists(backups[d])]
                            /\ doomed' = doomed \ {d}
    BY <2>1 DEF Rotate
  <2>3. b = d /\ b \in BackupIds /\ backups[b] \in Backups
    BY <2>2 DEF TypeOK
  <2>4. backups'[b] = [backups[b] EXCEPT !.deleting = Exists(backups[b])]
    BY <2>2, <2>3 DEF TypeOK
  <2>5. \A r \in Backups : [r EXCEPT !.deleting = r.deleting] = r
    BY DEF Backups
  <2>6. Exists(backups[b]) # backups[b].deleting
    BY <2>3, <2>4, <2>5
  <2>7. Marked(backups[b])
    BY <2>3 DEF CopyInv
  <2>8. Exists(backups[b]) /\ ~backups[b].deleting
    <3>1. CASE Exists(backups[b])
      <4>1. Exists(backups[b]) = TRUE
        BY <3>1 DEF Exists
      <4>2. backups[b].deleting # TRUE /\ backups[b].deleting \in BOOLEAN
        BY <2>3, <2>6, <4>1 DEF Backups
      <4> QED BY <3>1, <4>2
    <3>2. CASE ~Exists(backups[b])
      <4>1. Exists(backups[b]) = FALSE
        BY <3>2 DEF Exists
      <4>2. backups[b].deleting # FALSE /\ backups[b].deleting \in BOOLEAN
        BY <2>3, <2>6, <4>1 DEF Backups
      <4> QED BY <2>7, <3>2, <4>2 DEF Marked
    <3> QED BY <3>1, <3>2
  <2> QED BY <2>8 DEF DoomedInv
<1>2. [DeletesRightly]_vars =>
        [\A b \in doomed \ doomed' :
           backups[b] # backups'[b] =>
             /\ backups[b].phase = "Completed"
             /\ Cardinality({c \in BackupIds : c > b /\ c <= made
                                               /\ backups[c].phase \notin {"Running", "Failed"}})
                  >= KeepLast]_vars
  BY DEF DeletesRightly
<1> QED BY <1>1, <1>2, TypeCorrect, CopiesKnown, DoomedKnown, PTL DEF Spec, KeepsNewest
-----------------------------------------------------------------------------
(* What a reconcile makes of the schedule it read.                          *)

(* The fields a reconcile leaves alone.                                     *)
Kept(o, n) == n.spec = o.spec /\ n.owned = o.owned /\ n.runNow = o.runNow

(* n is o after a run was started, advanced, ended or skipped.              *)
Moved(o, n) ==
  \/ n.last # o.last \/ n.ranNow # o.ranNow
  \/ HasRun(o) /\ (~HasRun(n) \/ n.active.idx > o.active.idx)

(* Nothing to start at t.                                                   *)
NothingToStart(o, t) == HasRun(o) \/ (~Asked(o) /\ ~FireDue(o, t))

LEMMA MovedDiffers ==
  ASSUME NEW o \in Schedules, NEW n, Moved(o, n)
  PROVE  ~SameStatus(o, n)
BY DEF Moved, SameStatus, HasRun, Schedules, Runs

LEMMA FinishedMoves ==
  ASSUME NEW o \in Schedules, NEW n \in Schedules, Kept(o, n)
  PROVE  /\ ~HasRun(Finished(n))
         /\ Kept(o, Finished(n)) /\ Finished(n).last = n.last /\ Finished(n).ranNow = n.ranNow
         /\ Moved(o, n) \/ HasRun(o) => Moved(o, Finished(n))
<1>1. ~HasRun(Finished(n))
  BY FinishedType
<1>2. /\ Finished(n).spec = n.spec /\ Finished(n).owned = n.owned
      /\ Finished(n).runNow = n.runNow
      /\ Finished(n).last = n.last /\ Finished(n).ranNow = n.ranNow
  BY DEF Finished, Schedules
<1> QED BY <1>1, <1>2 DEF Kept, Moved

LEMMA StartKeeps ==
  ASSUME NEW o \in Schedules, NEW g, NEW t, NEW why
  PROVE  /\ Kept(o, start(o, g, t, why))
         /\ start(o, g, t, why).last = o.last /\ start(o, g, t, why).ranNow = o.ranNow
         /\ \/ start(o, g, t, why) = o
            \/ /\ start(o, g, t, why).active.why = why /\ start(o, g, t, why).active.idx = 1
               /\ start(o, g, t, why).active.id = t
BY DEF start, Kept, Schedules

LEMMA MaybeStartMoves ==
  ASSUME NEW o \in Schedules, NEW g, NEW t \in Times
  PROVE  /\ Kept(o, maybeStart(o, g, t))
         /\ \/ maybeStart(o, g, t) = o /\ NothingToStart(o, t)
            \/ ~HasRun(o) /\ Moved(o, maybeStart(o, g, t))
<1> DEFINE m == maybeStart(o, g, t)
           a == [o EXCEPT !.ranNow = o.runNow]
           f == [o EXCEPT !.last = LastRun(t)]
<1>0. t \in Nat /\ o.last \in Nat /\ LastRun(t) \in Nat
  BY FireTimes DEF Times, Schedules
<1>1. CASE ~HasRun(o) /\ Asked(o)
  <2>1. a \in Schedules /\ Kept(o, a) /\ a.ranNow = o.runNow /\ a.last = o.last
    BY DEF Schedules, Kept
  <2>2. m = start(a, g, t, -o.runNow)
    BY <1>1 DEF maybeStart
  <2> HIDE DEF a, m
  <2>3. Kept(a, m) /\ m.ranNow = a.ranNow
    BY <2>1, <2>2, StartKeeps
  <2> QED BY <1>1, <2>1, <2>3 DEF Kept, Moved, Asked, m
<1>2. CASE ~HasRun(o) /\ ~Asked(o) /\ FireDue(o, t)
  <2>1. f \in Schedules /\ Kept(o, f) /\ f.last = LastRun(t)
    BY <1>0 DEF Schedules, Kept
  <2>2. m = f \/ m = start(f, g, t, LastRun(t))
    BY <1>2 DEF maybeStart
  <2> HIDE DEF f, m
  <2>3. Kept(f, m) /\ m.last = f.last
    BY <2>1, <2>2, StartKeeps DEF Kept
  <2>4. LastRun(t) > o.last
    BY <1>0, <1>2, FireTimes DEF FireDue
  <2> QED BY <1>0, <1>2, <2>1, <2>3, <2>4 DEF Kept, Moved, m
<1>3. CASE HasRun(o) \/ (~Asked(o) /\ ~FireDue(o, t))
  BY <1>3 DEF maybeStart, Kept, NothingToStart
<1> QED BY <1>1, <1>2, <1>3

LEMMA AdvanceMoves ==
  ASSUME NEW m \in Schedules, at' \in Nat, Advance(m)
  PROVE  \/ l' = m /\ pc' = "patch" /\ Waits(m, at')
         \/ l' = m /\ pc' = "task" /\ HasRun(m)
         \/ l' = Finished(m) /\ pc' = "patch" /\ HasRun(m)
<1>1. Waits(Finished(m), at')
  BY FinishedType DEF Waits
<1> QED BY <1>1, AdvanceType DEF Advance, Waits

LEMMA TaskDoneMoves ==
  ASSUME NEW m \in Schedules, HasRun(m), NEW t \in Nat
  PROVE  /\ Kept(m, TaskDone(m, t)) /\ Moved(m, TaskDone(m, t))
         /\ TaskDone(m, t).last = m.last /\ TaskDone(m, t).ranNow = m.ranNow
         /\ \/ ~HasRun(TaskDone(m, t))
            \/ /\ TaskDone(m, t).active.idx = m.active.idx + 1
               /\ TaskDone(m, t).active.id = m.active.id
               /\ TaskDone(m, t).active.why = m.active.why
<1>1. CASE m.active.idx >= Len(m.spec.tasks)
  <2>1. TaskDone(m, t) = Finished(m) /\ Kept(m, m)
    BY <1>1 DEF TaskDone, Kept
  <2> QED BY <2>1, FinishedMoves
<1>2. CASE ~(m.active.idx >= Len(m.spec.tasks))
  <2> DEFINE n == t + m.spec.tasks[m.active.idx + 1].delay
             d == [m EXCEPT !.active = [m.active EXCEPT !.idx = @ + 1, !.next = n]]
  <2>1. TaskDone(m, t) = d
    BY <1>2 DEF TaskDone, Schedules, Runs
  <2> HIDE DEF n
  <2>2. d.active.idx = m.active.idx + 1 /\ d.active.id = m.active.id
        /\ d.active.why = m.active.why
    BY DEF Schedules, Runs
  <2>3. Kept(m, d) /\ d.last = m.last /\ d.ranNow = m.ranNow
    BY DEF Kept, Schedules
  <2>4. m.active.idx \in Nat
    BY DEF Schedules, Runs
  <2> HIDE DEF d
  <2> QED BY <2>1, <2>2, <2>3, <2>4 DEF Moved
<1> QED BY <1>1, <1>2

LEMMA MovesOn ==
  ASSUME NEW o \in Schedules, NEW m \in Schedules, NEW n \in Schedules,
         Moved(o, m), m.last = n.last, m.ranNow = n.ranNow,
         ~HasRun(n) \/ (HasRun(m) /\ n.active.idx >= m.active.idx)
  PROVE  Moved(o, n)
<1>1. o.active.idx \in Nat /\ m.active.idx \in Nat /\ n.active.idx \in Nat
  BY DEF Schedules, Runs
<1> QED BY <1>1 DEF Moved
(* Where a reconcile stands: l is orig until something was started or       *)
(* advanced, and a reconcile that comes to the patch with l unchanged had   *)
(* nothing to do.                                                           *)
Progress ==
  /\ pc # "idle" => Kept(orig, l)
  /\ pc \in {"adopt", "rotate"} => l = orig
  /\ pc = "adopt" => ~orig.owned
  /\ pc = "task" => Moved(orig, l) \/ l = orig
  /\ pc = "patch" =>
       Moved(orig, l) \/ (l = orig /\ Waits(orig, at) /\ NothingToStart(orig, at))

LEMMA DecideProgress ==
  ASSUME NEW o \in Schedules, NEW out, NEW g, NEW t \in Times, at' = t, orig' = o,
         Decide(o, out, g, t)
  PROVE  Progress'
<1> DEFINE m == maybeStart(o, g, t)
<1>0. t \in Nat
  BY DEF Times
<1>1. CASE out # {}
  BY <1>1 DEF Decide, Progress, Kept
<1>2. CASE out = {}
  <2>1. Advance(m) /\ m \in Schedules
    BY <1>2, MaybeStartType DEF Decide
  <2>2. Kept(o, m) /\ ((m = o /\ NothingToStart(o, t)) \/ Moved(o, m))
    BY MaybeStartMoves
  <2> HIDE DEF m
  <2>3. \/ l' = m /\ pc' = "patch" /\ Waits(m, t)
        \/ l' = m /\ pc' = "task"
        \/ l' = Finished(m) /\ pc' = "patch" /\ HasRun(m)
    BY <1>0, <2>1, AdvanceMoves
  <2>4. CASE l' = m
    <3>1. CASE m = o /\ NothingToStart(o, t)
      <4>1. pc' = "patch" => Waits(o, t)
        <5>1. CASE pc' = "patch" /\ HasRun(m) /\ l' = Finished(m)
          <6>1. Waits(m, t)
            BY <2>1, <2>4, <3>1, <5>1, FinishedType
          <6> QED BY <3>1, <6>1
        <5> QED BY <2>3, <3>1, <5>1
      <4> QED BY <2>2, <2>3, <2>4, <3>1, <4>1 DEF Progress
    <3>2. CASE Moved(o, m)
      BY <2>2, <2>3, <2>4, <3>2 DEF Progress
    <3> QED BY <2>2, <3>1, <3>2
  <2>5. CASE l' = Finished(m) /\ pc' = "patch" /\ HasRun(m)
    BY <2>1, <2>2, <2>5, FinishedMoves DEF Progress
  <2> QED BY <2>3, <2>4, <2>5
<1> QED BY <1>1, <1>2

LEMMA SucceedsProgress ==
  ASSUME TypeOK, Progress, pc = "task", Succeeds
  PROVE  Progress' /\ pc' \in {"patch", "task"}
<1> DEFINE m == TaskDone(l, at)
<1>0. /\ l \in Schedules /\ orig \in Schedules /\ at \in Nat /\ at' = at /\ orig' = orig
      /\ Advance(m)
  BY Numbers DEF TypeOK, Succeeds
<1>1. HasRun(l)
  <2>1. l.active.idx # 0
    BY <1>0, SpecType DEF TypeOK
  <2> QED BY <2>1 DEF HasRun
<1>2. m \in Schedules
  BY <1>0, <1>1, TaskDoneType
<1>3. Kept(orig, m) /\ Moved(orig, m)
  <2>1. /\ Kept(l, m) /\ Moved(l, m) /\ m.last = l.last /\ m.ranNow = l.ranNow
        /\ ~HasRun(m) \/ m.active.idx = l.active.idx + 1
    BY <1>0, <1>1, TaskDoneMoves
  <2>2. l.active.idx \in Nat
    BY <1>0 DEF Schedules, Runs
  <2> HIDE DEF m
  <2>3. Kept(orig, m)
    BY <2>1 DEF Kept, Progress
  <2>4. CASE l = orig
    BY <2>1, <2>3, <2>4
  <2>5. CASE Moved(orig, l)
    BY <1>0, <1>1, <1>2, <2>1, <2>2, <2>3, <2>5, MovesOn
  <2> QED BY <2>4, <2>5 DEF Progress
<1> HIDE DEF m
<1>4. (l' = m \/ l' = Finished(m)) /\ pc' \in {"patch", "task"}
  BY <1>0, <1>2, AdvanceMoves
<1>5. Kept(orig, l') /\ Moved(orig, l')
  BY <1>0, <1>2, <1>3, <1>4, FinishedMoves
<1> QED BY <1>0, <1>4, <1>5 DEF Progress

LEMMA EndsRunProgress ==
  ASSUME TypeOK, Progress, pc = "task", EndsRun
  PROVE  Progress'
<1>0. l \in Schedules /\ orig \in Schedules /\ l' = Finished(l) /\ pc' = "patch" /\ orig' = orig
  BY DEF TypeOK, EndsRun
<1>1. HasRun(l)
  <2>1. l.active.idx # 0
    BY <1>0, SpecType DEF TypeOK
  <2> QED BY <2>1 DEF HasRun
<1>2. Kept(orig, l') /\ Moved(orig, l')
  BY <1>0, <1>1, FinishedMoves DEF Progress
<1> QED BY <1>0, <1>2 DEF Progress

(* The steps in which the worker does not move.                             *)
LEMMA Elsewhere ==
  ASSUME Environment \/ SeeSchedule \/ SeeBackups \/ TimerFires \/ Tick \/ UNCHANGED vars
  PROVE  UNCHANGED <<workerVars, historyVars>>
BY DEF Environment, UpdateSchedule, RunSchedule, Request, PhaseChanges, BlockChanges, GameChanges,
       BackupEnds, DeleteBackup, Pruning, BackupGone, BackupStep, SeeSchedule, SeeBackups,
       TimerFires, Tick, workerVars, historyVars, vars

LEMMA ProgressKept == TypeOK /\ Progress /\ [Next]_vars => Progress'
<1> SUFFICES ASSUME TypeOK, Progress, [Next]_vars PROVE Progress'
  OBVIOUS
<1>0. {sched, schedCache, orig, l} \subseteq Schedules /\ now \in Times /\ at \in Times
  BY Numbers DEF TypeOK
<1>1. CASE BeginReconcile
  <2>1. CASE schedCache.owned
    BY <1>0, <1>1, <2>1, DecideProgress DEF BeginReconcile
  <2>2. CASE ~schedCache.owned
    BY <1>1, <2>2 DEF BeginReconcile, Progress, Kept
  <2> QED BY <2>1, <2>2
<1>2. CASE Adopt
  <2>1. sched' \in Schedules
    BY <1>2, TypeStep DEF TypeOK
  <2> QED BY <1>0, <1>2, <2>1, DecideProgress DEF Adopt
<1>3. CASE Rotate
  BY <1>0, <1>3, DecideProgress DEF Rotate, Progress
<1>4. CASE WorksOn
  BY <1>4, WorksOnTypes, SucceedsProgress
<1>5. CASE Stops
  BY <1>5, StopsTypes, EndsRunProgress
<1>6. CASE Breaks \/ PatchStatus
  BY <1>6, BreaksTypes, PatchTypes DEF Fail, Done, Progress
<1>7. CASE Environment \/ SeeSchedule \/ SeeBackups \/ TimerFires \/ Tick \/ UNCHANGED vars
  BY <1>7, Elsewhere DEF Progress, workerVars
<1> QED BY <1>1, <1>2, <1>3, <1>4, <1>5, <1>6, <1>7, StepCases

LEMMA ProgressKnown == Spec => []Progress
<1>1. Init => Progress
  BY DEF Init, Progress
<1> QED BY <1>1, TypeCorrect, ProgressKept, PTL DEF Spec
-----------------------------------------------------------------------------
(* No run or task is slept through.                                         *)

(* The operator's own change of the owner is not in its cache yet.          *)
Adopted == ~schedCache.owned /\ sched.owned

WillWake(o) ==
  /\ timer # Never /\ timer <= NextRun(at) + slow
  /\ HasRun(o) => timer <= o.active.next + slow

(* With nothing queued the cached copy is the one the reconcile works on;   *)
(* after it, either a change is still to be seen and will be queued, or     *)
(* there was nothing to do and the timer is set.                            *)
AwakeInv ==
  ~queued =>
    \/ Adopted
    \/ pc # "idle" /\ schedCache = orig
    \/ pc = "idle" /\ ~SameStatus(schedCache, sched)
    \/ /\ pc = "idle" /\ Waits(schedCache, at) /\ NothingToStart(schedCache, at)
       /\ WillWake(schedCache)

LEMMA PatchWakes ==
  ASSUME TypeOK, Progress, AwakeInv, PatchStatus
  PROVE  AwakeInv'
<1> SUFFICES ASSUME ~queued', ~Adopted'
             PROVE  \/ ~SameStatus(schedCache', sched')
                    \/ /\ Waits(schedCache', at') /\ NothingToStart(schedCache', at')
                       /\ WillWake(schedCache)'
  BY DEF AwakeInv, PatchStatus, Done
<1>0. /\ sched \in Schedules /\ orig \in Schedules /\ l \in Schedules
      /\ now \in Nat /\ at \in Nat /\ at <= now /\ timer \in Nat
  BY Numbers DEF TypeOK
<1>1. /\ schedCache' = schedCache /\ sched'.owned = sched.owned /\ queued' = queued /\ at' = at
      /\ pc = "patch" /\ slow' = now - at /\ timer' = Sooner(timer, now + Wake(l, at) - at)
  BY <1>0 DEF PatchStatus, Done, Schedules
<1>2. schedCache = orig
  BY <1>1 DEF AwakeInv, Adopted
<1>3. CASE Moved(orig, l)
  <2>1. ~SameStatus(orig, l)
    BY <1>0, <1>3, MovedDiffers
  <2>2. /\ l.last # orig.last => sched'.last = l.last
        /\ l.ranNow # orig.ranNow => sched'.ranNow = l.ranNow
        /\ l.active # orig.active => sched'.active = l.active
    BY <1>0 DEF PatchStatus, Schedules
  <2> QED BY <1>1, <1>2, <2>1, <2>2 DEF SameStatus
<1>4. CASE l = orig /\ Waits(orig, at) /\ NothingToStart(orig, at)
  <2>1. /\ Wake(l, at) \in Nat /\ at < Wake(l, at) /\ Wake(l, at) <= NextRun(at)
        /\ HasRun(l) => Wake(l, at) <= l.active.next
    BY <1>0, <1>4, WakeType DEF Waits
  <2>2. l.active.next \in Nat /\ NextRun(at) \in Nat
    BY <1>0, FireTimes DEF Schedules, Runs
  <2>3. timer' # Never /\ timer' <= now + Wake(l, at) - at
    BY <1>0, <1>1, <2>1 DEF Sooner, Never
  <2>4. timer' \in Nat
    BY PatchTypes DEF TypeOK
  <2>5. WillWake(schedCache)'
    BY <1>0, <1>1, <1>2, <1>4, <2>1, <2>2, <2>3, <2>4 DEF WillWake
  <2> QED BY <1>1, <1>2, <1>4, <2>5
<1> QED BY <1>1, <1>3, <1>4 DEF Progress

LEMMA AwakeInvKept == TypeOK /\ Progress /\ AwakeInv /\ [Next]_vars => AwakeInv'
<1> SUFFICES ASSUME TypeOK, Progress, AwakeInv, [Next]_vars, ~queued' PROVE AwakeInv'
  BY DEF AwakeInv
<1>0. sched \in Schedules
  BY DEF TypeOK
<1>1. CASE BeginReconcile
  <2>1. pc' # "idle"
    BY <1>1, DecideType, Numbers DEF BeginReconcile, Decide, Advance
  <2> QED BY <1>1, <2>1 DEF BeginReconcile, schedVars, AwakeInv
<1>2. CASE Adopt
  <2>1. sched'.owned = TRUE
    BY <1>0, <1>2 DEF Adopt, Schedules
  <2>2. schedCache' = schedCache /\ ~schedCache.owned
    BY <1>2 DEF Adopt, timeVars, AwakeInv, Adopted, Progress
  <2> QED BY <2>1, <2>2 DEF AwakeInv, Adopted
<1>3. CASE Rotate \/ WorksOn \/ Stops
  <2>1. /\ UNCHANGED <<sched, schedCache, orig, queued>> /\ pc # "idle"
    BY <1>3, WorksOnTypes, StopsTypes DEF Rotate, Succeeds, EndsRun, timeVars, schedVars
  <2>2. pc' # "idle"
    BY <1>3, WorksOnTypes, StopsTypes DEF Rotate, Decide, Succeeds, Advance, EndsRun
  <2> QED BY <2>1, <2>2 DEF AwakeInv, Adopted
<1>4. CASE Breaks
  BY <1>4, BreaksTypes DEF Fail
<1>5. CASE PatchStatus
  BY <1>5, PatchWakes
<1>6. CASE Environment
  <2>1. UNCHANGED <<workerVars, historyVars, timer, queued, schedCache>>
    BY <1>6, Elsewhere DEF Environment, UpdateSchedule, RunSchedule, Request, PhaseChanges,
       BlockChanges, GameChanges, BackupEnds, DeleteBackup, Pruning, BackupGone, BackupStep,
       timeVars, schedVars
  <2>2. SameStatus(sched, sched') /\ sched'.owned = sched.owned
    BY <1>0, <1>6 DEF Environment, UpdateSchedule, RunSchedule, Request, PhaseChanges,
       BlockChanges, GameChanges, BackupEnds, DeleteBackup, Pruning, BackupGone, BackupStep,
       schedVars, SameStatus, Schedules
  <2> QED BY <2>1, <2>2 DEF AwakeInv, Adopted, SameStatus, WillWake, workerVars, historyVars
<1>7. CASE SeeSchedule \/ SeeBackups \/ TimerFires
  BY <1>7 DEF SeeSchedule, SeeBackups, TimerFires
<1>8. CASE Tick \/ UNCHANGED vars
  <2>1. UNCHANGED <<queued, timer, sched, schedCache, pc, orig, at, slow>>
    BY <1>8 DEF Tick, vars, schedVars, workerVars, historyVars
  <2> QED BY <2>1 DEF AwakeInv, Adopted, WillWake
<1> QED BY <1>1, <1>2, <1>3, <1>4, <1>5, <1>6, <1>7, <1>8, StepCases

(* With nothing queued and everything seen, the timer is set to the next    *)
(* fire time or task, give or take the time a reconcile takes: for any      *)
(* tasks, edits of them, failures, restarts and caches.                     *)
THEOREM NothingSleptThrough == Spec => []Awake
<1>1. Init => AwakeInv
  BY DEF Init, AwakeInv
<1>2. AwakeInv => Awake
  BY DEF AwakeInv, Awake, Adopted, SameStatus, WillWake, Waits, NothingToStart
<1> QED BY <1>1, <1>2, TypeCorrect, ProgressKnown, AwakeInvKept, PTL DEF Spec
-----------------------------------------------------------------------------
(* No recorded task is repeated.                                            *)

(* Nobody else writes the status: a reconcile that began with the last one  *)
(* still has it when it patches.                                            *)
StatusKnown == pc # "idle" /\ ~old => SameStatus(orig, sched)

LEMMA StatusKnownKept == TypeOK /\ StatusKnown /\ [Next]_vars => StatusKnown'
<1> SUFFICES ASSUME TypeOK, StatusKnown, [Next]_vars PROVE StatusKnown'
  OBVIOUS
<1>0. sched \in Schedules
  BY DEF TypeOK
<1>1. CASE BeginReconcile
  BY <1>1 DEF BeginReconcile, schedVars, StatusKnown, SameStatus
<1>2. CASE Adopt
  BY <1>2 DEF Adopt, StatusKnown, SameStatus
<1>3. CASE Rotate \/ WorksOn \/ Stops
  <2>1. /\ UNCHANGED <<sched, orig, old>> /\ pc # "idle"
    BY <1>3, WorksOnTypes, StopsTypes DEF Rotate, Succeeds, EndsRun, schedVars, historyVars
  <2> QED BY <2>1 DEF StatusKnown
<1>4. CASE Breaks \/ PatchStatus
  BY <1>4, BreaksTypes, PatchTypes DEF Fail, Done, StatusKnown
<1>5. CASE Environment \/ SeeSchedule \/ SeeBackups \/ TimerFires \/ Tick \/ UNCHANGED vars
  <2>1. UNCHANGED <<pc, orig, old>>
    BY <1>5, Elsewhere DEF workerVars, historyVars
  <2>2. SameStatus(sched, sched')
    BY <1>0, <1>5 DEF Environment, UpdateSchedule, RunSchedule, Request, PhaseChanges,
       BlockChanges, GameChanges, BackupEnds, DeleteBackup, Pruning, BackupGone, BackupStep,
       SeeSchedule, SeeBackups, TimerFires, Tick, schedVars, vars, SameStatus, Schedules
  <2> QED BY <2>1, <2>2 DEF StatusKnown, SameStatus
<1> QED BY <1>1, <1>2, <1>3, <1>4, <1>5, StepCases

LEMMA StatusKnownAlways == Spec => []StatusKnown
<1>1. Init => StatusKnown
  BY DEF Init, StatusKnown
<1> QED BY <1>1, StatusKnownKept, TypeCorrect, PTL DEF Spec

(* What maybeStart records with a run it starts.                            *)
LEMMA MaybeStartRecords ==
  ASSUME NEW o \in Schedules, NEW g, NEW t \in Times, NEW m, m = maybeStart(o, g, t)
  PROVE  \/ m = o
         \/ /\ m.ranNow = o.runNow /\ m.ranNow # o.ranNow /\ m.last = o.last
            /\ ~HasRun(m) \/ m.active.why = -o.runNow
         \/ /\ m.last > o.last /\ m.last = LastRun(t) /\ m.ranNow = o.ranNow
            /\ ~HasRun(m) \/ m.active.why = m.last
<1> DEFINE a == [o EXCEPT !.ranNow = o.runNow]
           f == [o EXCEPT !.last = LastRun(t)]
<1>0. t \in Nat /\ o.last \in Nat /\ LastRun(t) \in Nat
  BY FireTimes DEF Times, Schedules
<1>1. CASE ~HasRun(o) /\ Asked(o)
  <2>1. a \in Schedules /\ a.ranNow = o.runNow /\ a.last = o.last /\ ~HasRun(a)
    BY <1>1 DEF Schedules, HasRun
  <2>2. m = start(a, g, t, -o.runNow)
    BY <1>1 DEF maybeStart
  <2> HIDE DEF a
  <2>3. m.ranNow = a.ranNow /\ m.last = a.last /\ (m = a \/ m.active.why = -o.runNow)
    BY <2>1, <2>2, StartKeeps
  <2> QED BY <1>1, <2>1, <2>3 DEF Asked
<1>2. CASE ~HasRun(o) /\ ~Asked(o) /\ FireDue(o, t)
  <2>1. f \in Schedules /\ f.last = LastRun(t) /\ f.ranNow = o.ranNow /\ ~HasRun(f)
    BY <1>0, <1>2 DEF Schedules, HasRun
  <2>2. m = f \/ m = start(f, g, t, LastRun(t))
    BY <1>2 DEF maybeStart
  <2> HIDE DEF f
  <2>3. m.ranNow = f.ranNow /\ m.last = f.last /\ (m = f \/ m.active.why = LastRun(t))
    BY <2>1, <2>2, StartKeeps
  <2>4. LastRun(t) > o.last
    BY <1>0, <1>2, FireTimes DEF FireDue
  <2> QED BY <2>1, <2>3, <2>4
<1>3. CASE HasRun(o) \/ (~Asked(o) /\ ~FireDue(o, t))
  BY <1>3 DEF maybeStart
<1> QED BY <1>1, <1>2, <1>3

(* What n, which a reconcile at t makes of o, may record.                   *)
Records(o, n, t) ==
  /\ n.runNow = o.runNow
  /\ n.last = o.last \/ n.last = LastRun(t)
  /\ n.ranNow = o.ranNow \/ n.ranNow = o.runNow

(* What is recorded never goes back, whatever copy a reconcile works on: it *)
(* records the last fire time of its own moment, or the requests its copy   *)
(* knows of, which are no fewer than those recorded.                        *)
Ordered ==
  /\ sched.last <= LastRun(at)
  /\ schedCache.last <= sched.last /\ schedCache.ranNow <= sched.ranNow
  /\ schedCache.ranNow <= schedCache.runNow
  /\ sched.ranNow <= schedCache.runNow /\ schedCache.runNow <= sched.runNow
  /\ pc # "idle" =>
       /\ orig.last <= sched.last /\ orig.ranNow <= sched.ranNow
       /\ sched.ranNow <= orig.runNow /\ orig.runNow <= schedCache.runNow
       /\ Records(orig, l, at)

LEMMA LastRunGrows ==
  ASSUME NEW s \in Nat, NEW t \in Nat, s <= t
  PROVE  LastRun(s) <= LastRun(t)
<1> DEFINE p == Period
           a == s \div p
           b == t \div p
<1>1. p \in Nat \ {0}
  BY PeriodAssumption
<1>2. a \in Nat /\ p * a <= s
  BY <1>1, Quotients
<1>3. b \in Nat /\ t < p * b + p
  BY <1>1, Quotients
<1>4. p * a \in Nat /\ p * b \in Nat /\ p * (b + 1) = p * b + p /\ b + 1 \in Nat
  BY <1>1, <1>2, <1>3, Products
<1> HIDE DEF p, a, b
<1>5. p * a < p * (b + 1)
  <2> DEFINE x == p * a
             y == p * b
             z == p * (b + 1)
  <2>1. /\ x \in Nat /\ y \in Nat /\ x <= s /\ t < y + p /\ z = y + p /\ p \in Nat
    BY <1>1, <1>2, <1>3, <1>4
  <2> HIDE DEF x, y, z
  <2>2. x < z
    BY <2>1
  <2> QED BY <2>2 DEF x, z
<1>6. a < b + 1
  BY <1>1, <1>2, <1>4, <1>5, Products
<1>7. a = b \/ a < b
  BY <1>2, <1>3, <1>6
<1>8. p * a <= p * b
  <2>1. CASE a = b
    BY <1>4, <2>1
  <2>2. CASE a < b
    <3>1. p * (a + 1) <= p * b /\ p * (a + 1) = p * a + p
      BY <1>1, <1>2, <1>3, <2>2, Products
    <3> QED BY <1>1, <1>4, <3>1
  <2> QED BY <1>7, <2>1, <2>2
<1> QED BY <1>8 DEF LastRun, p, a, b

LEMMA DecideRecords ==
  ASSUME NEW o \in Schedules, NEW out, NEW g, NEW t \in Times, at' \in Nat,
         Decide(o, out, g, t)
  PROVE  Records(o, l', t)
<1> DEFINE m == maybeStart(o, g, t)
<1>1. CASE out # {}
  BY <1>1 DEF Decide, Records
<1>2. CASE out = {}
  <2>1. Advance(m) /\ m \in Schedules
    BY <1>2, MaybeStartType DEF Decide
  <2>2. Records(o, m, t)
    BY MaybeStartMoves, MaybeStartRecords DEF Kept, Records
  <2> HIDE DEF m
  <2>3. l' = m \/ l' = Finished(m)
    BY <2>1, AdvanceMoves
  <2>4. l'.runNow = m.runNow /\ l'.ranNow = m.ranNow /\ l'.last = m.last
    BY <2>1, <2>3, FinishedMoves DEF Kept
  <2> QED BY <2>2, <2>4 DEF Records
<1> QED BY <1>1, <1>2

LEMMA OrderedKept == TypeOK /\ Progress /\ Ordered /\ [Next]_vars => Ordered'
<1> SUFFICES ASSUME TypeOK, Progress, Ordered, [Next]_vars PROVE Ordered'
  OBVIOUS
<1>0. /\ {sched, schedCache, orig, l} \subseteq Schedules
      /\ now \in Times /\ now \in Nat /\ at \in Times /\ at \in Nat /\ at <= now
  BY Numbers DEF TypeOK
<1>a. /\ \A o \in {sched, schedCache, orig, l} :
           o.runNow \in Nat /\ o.ranNow \in Nat /\ o.last \in Nat
      /\ LastRun(at) \in Nat /\ LastRun(now) \in Nat /\ LastRun(at) <= LastRun(now)
  BY <1>0, FireTimes, LastRunGrows DEF Schedules
<1>1. CASE BeginReconcile
  <2>1. /\ orig' = schedCache /\ UNCHANGED <<sched, schedCache>> /\ at' = now
    BY <1>1 DEF BeginReconcile, schedVars
  <2>2. Records(schedCache, l', now)
    <3>1. CASE schedCache.owned
      BY <1>0, <1>1, <2>1, <3>1, DecideRecords DEF BeginReconcile
    <3>2. CASE ~schedCache.owned
      BY <1>1, <3>2 DEF BeginReconcile, Records
    <3> QED BY <3>1, <3>2
  <2> QED BY <1>a, <2>1, <2>2 DEF Ordered
<1>2. CASE Adopt
  <2>1. /\ sched' = [sched EXCEPT !.owned = TRUE] /\ orig' = sched' /\ schedCache' = schedCache
        /\ l = sched /\ pc = "adopt" /\ at' = at
    BY <1>2 DEF Adopt
  <2>2. /\ sched' \in Schedules /\ sched'.runNow = sched.runNow /\ sched'.ranNow = sched.ranNow
        /\ sched'.last = sched.last
    BY <1>0, <2>1 DEF Schedules
  <2>3. Records(sched', l', at)
    BY <1>0, <1>2, <2>2, DecideRecords DEF Adopt
  <2>4. sched.runNow <= schedCache.runNow
    BY <2>1 DEF Ordered, Records
  <2> QED BY <1>a, <2>1, <2>2, <2>3, <2>4 DEF Ordered
<1>3. CASE Rotate
  <2>1. /\ UNCHANGED <<sched, schedCache, orig, at>> /\ l = orig /\ pc = "rotate"
    BY <1>3 DEF Rotate, schedVars, Progress
  <2>2. Records(orig, l', at)
    BY <1>0, <1>3, <2>1, DecideRecords DEF Rotate
  <2> QED BY <2>1, <2>2 DEF Ordered
<1>4. CASE WorksOn
  <2>1. /\ Succeeds /\ pc = "task" /\ UNCHANGED <<sched, schedCache, orig, at>>
    BY <1>4, WorksOnTypes DEF Succeeds, schedVars
  <2> DEFINE m == TaskDone(l, at)
  <2>2. HasRun(l) /\ at' = at /\ Advance(m)
    <3>1. l.active.idx # 0
      BY <1>0, <2>1, SpecType DEF TypeOK
    <3> QED BY <2>1, <3>1 DEF Succeeds, HasRun
  <2>3. m \in Schedules /\ m.runNow = l.runNow /\ m.ranNow = l.ranNow /\ m.last = l.last
    BY <1>0, <2>2, TaskDoneType, TaskDoneMoves DEF Kept
  <2> HIDE DEF m
  <2>4. l' = m \/ l' = Finished(m)
    BY <1>0, <2>2, <2>3, AdvanceMoves
  <2>5. l'.runNow = m.runNow /\ l'.ranNow = m.ranNow /\ l'.last = m.last
    BY <2>3, <2>4, FinishedMoves DEF Kept
  <2> QED BY <2>1, <2>3, <2>5 DEF Ordered, Records
<1>5. CASE Stops
  <2>1. /\ l' = Finished(l) /\ pc = "task" /\ UNCHANGED <<sched, schedCache, orig, at>>
    BY <1>5, StopsTypes DEF EndsRun, schedVars
  <2>2. l'.runNow = l.runNow /\ l'.ranNow = l.ranNow /\ l'.last = l.last
    BY <1>0, <2>1, FinishedMoves DEF Kept
  <2> QED BY <2>1, <2>2 DEF Ordered, Records
<1>6. CASE Breaks
  <2>1. /\ pc' = "idle" /\ sched' = sched /\ (schedCache' = schedCache \/ schedCache' = sched)
        /\ at' = at
    BY <1>6, BreaksTypes
       DEF Fail, Done, Breaks, AdoptConflicts, CallFails, OperatorRestarts, schedVars
  <2> QED BY <1>a, <2>1 DEF Ordered
<1>7. CASE PatchStatus
  <2>1. /\ pc = "patch" /\ pc' = "idle" /\ schedCache' = schedCache /\ at' = at
        /\ sched'.runNow = sched.runNow
        /\ sched'.ranNow = IF l.ranNow = orig.ranNow THEN sched.ranNow ELSE l.ranNow
        /\ sched'.last = IF l.last = orig.last THEN sched.last ELSE l.last
    BY <1>0, <1>7 DEF PatchStatus, Done, Schedules
  <2> QED BY <1>a, <2>1 DEF Ordered, Records
<1>8. CASE Environment \/ SeeSchedule \/ SeeBackups \/ TimerFires \/ Tick \/ UNCHANGED vars
  <2>1. UNCHANGED <<pc, orig, l, at>>
    BY <1>8, Elsewhere DEF workerVars
  <2>2. /\ sched'.ranNow = sched.ranNow /\ sched'.last = sched.last
        /\ sched'.runNow = sched.runNow \/ sched'.runNow = sched.runNow + 1
        /\ schedCache' = schedCache \/ (schedCache' = sched /\ sched' = sched)
    BY <1>0, <1>8 DEF Environment, UpdateSchedule, RunSchedule, Request, PhaseChanges,
       BlockChanges, GameChanges, BackupEnds, DeleteBackup, Pruning, BackupGone, BackupStep,
       SeeSchedule, SeeBackups, TimerFires, Tick, schedVars, vars, Schedules
  <2> QED BY <1>a, <2>1, <2>2 DEF Ordered
<1> QED BY <1>1, <1>2, <1>3, <1>4, <1>5, <1>6, <1>7, <1>8, StepCases

LEMMA OrderedAlways == Spec => []Ordered
<1>1. Init => Ordered
  <2>1. LastRun(0) \in Nat
    BY FireTimes
  <2> QED BY <2>1 DEF Init, Ordered, NewSchedule
<1> QED BY <1>1, OrderedKept, TypeCorrect, ProgressKnown, PTL DEF Spec
(* k, the trigger of a run and a task of it, lies behind what o knows.      *)
Bounded(w, o) == (0 < w /\ w <= o.last) \/ (w < 0 /\ -w <= o.ranNow)

Behind(k, o) ==
  /\ k[1] \in Int /\ k[2] \in Nat
  /\ Bounded(k[1], o)
  /\ HasRun(o) /\ o.active.why = k[1] => k[2] < o.active.idx

Triggered(o) == HasRun(o) => Bounded(o.active.why, o)

RanInv ==
  /\ \A k \in ran : Behind(k, sched)
  /\ Triggered(sched) /\ Triggered(schedCache)
  /\ pc # "idle" => Triggered(l)
  /\ pc # "idle" /\ ~old => \A k \in ran \cup fresh : Behind(k, l)
  /\ pc \in {"idle", "adopt", "rotate"} => fresh = {}

LEMMA BehindStatus ==
  ASSUME NEW o, NEW n, SameStatus(o, n)
  PROVE  (Triggered(o) => Triggered(n)) /\ \A k : Behind(k, o) => Behind(k, n)
BY DEF SameStatus, Triggered, Behind, Bounded, HasRun

LEMMA TriggeredGrows ==
  ASSUME NEW o \in Schedules, NEW n \in Schedules, Triggered(o), n.active = o.active,
         o.last <= n.last, o.ranNow <= n.ranNow
  PROVE  Triggered(n)
<1>1. /\ o.last \in Nat /\ n.last \in Nat /\ o.ranNow \in Nat /\ n.ranNow \in Nat
      /\ o.active.why \in Int
  BY DEF Schedules, Runs
<1> QED BY <1>1 DEF Triggered, Bounded, HasRun

LEMMA BehindFinished ==
  ASSUME NEW o \in Schedules
  PROVE  Triggered(Finished(o)) /\ \A k : Behind(k, o) => Behind(k, Finished(o))
<1>1. Finished(o).last = o.last /\ Finished(o).ranNow = o.ranNow /\ ~HasRun(Finished(o))
  BY FinishedType DEF Finished, Schedules
<1> QED BY <1>1 DEF Triggered, Behind, Bounded

LEMMA BehindMaybeStart ==
  ASSUME NEW o \in Schedules, NEW g, NEW t \in Times, o.ranNow <= o.runNow, Triggered(o)
  PROVE  /\ Triggered(maybeStart(o, g, t))
         /\ \A k : Behind(k, o) => Behind(k, maybeStart(o, g, t))
<1> DEFINE m == maybeStart(o, g, t)
<1>0. m \in Schedules
  BY MaybeStartType
<1>1. /\ o.last \in Nat /\ o.ranNow \in Nat /\ o.runNow \in Nat /\ m.last \in Nat
      /\ m.ranNow \in Nat
  BY <1>0 DEF Schedules
<1>2. \/ m = o
      \/ /\ m.ranNow = o.runNow /\ m.ranNow # o.ranNow /\ m.last = o.last
         /\ ~HasRun(m) \/ m.active.why = -o.runNow
      \/ /\ m.last > o.last /\ m.ranNow = o.ranNow
         /\ ~HasRun(m) \/ m.active.why = m.last
  BY MaybeStartRecords
<1> HIDE DEF m
<1>3. CASE m = o
  BY <1>3 DEF m
<1>4. CASE /\ m.ranNow = o.runNow /\ m.ranNow # o.ranNow /\ m.last = o.last
           /\ ~HasRun(m) \/ m.active.why = -o.runNow
  <2>1. Triggered(m)
    BY <1>1, <1>4 DEF Triggered, Bounded
  <2>2. ASSUME NEW k, Behind(k, o) PROVE Behind(k, m)
    <3>1. k[1] \in Int /\ Bounded(k[1], o)
      BY <2>2 DEF Behind
    <3>2. Bounded(k[1], m) /\ k[1] # -o.runNow
      BY <1>1, <1>4, <3>1 DEF Bounded
    <3> QED BY <1>4, <2>2, <3>2 DEF Behind
  <2> QED BY <2>1, <2>2 DEF m
<1>5. CASE /\ m.last > o.last /\ m.ranNow = o.ranNow
           /\ ~HasRun(m) \/ m.active.why = m.last
  <2>1. Triggered(m)
    BY <1>1, <1>5 DEF Triggered, Bounded
  <2>2. ASSUME NEW k, Behind(k, o) PROVE Behind(k, m)
    <3>1. k[1] \in Int /\ Bounded(k[1], o)
      BY <2>2 DEF Behind
    <3>2. Bounded(k[1], m) /\ k[1] # m.last
      BY <1>1, <1>5, <3>1 DEF Bounded
    <3> QED BY <1>5, <2>2, <3>2 DEF Behind
  <2> QED BY <2>1, <2>2 DEF m
<1> QED BY <1>2, <1>3, <1>4, <1>5

LEMMA DecideBehind ==
  ASSUME NEW o \in Schedules, NEW out, NEW g, NEW t \in Times, at' \in Nat,
         o.ranNow <= o.runNow, Triggered(o), Decide(o, out, g, t)
  PROVE  Triggered(l') /\ \A k : Behind(k, o) => Behind(k, l')
<1> DEFINE m == maybeStart(o, g, t)
<1>1. CASE out # {}
  BY <1>1 DEF Decide
<1>2. CASE out = {}
  <2>1. Advance(m) /\ m \in Schedules
    BY <1>2, MaybeStartType DEF Decide
  <2>2. Triggered(m) /\ \A k : Behind(k, o) => Behind(k, m)
    BY BehindMaybeStart
  <2> HIDE DEF m
  <2> QED BY <2>1, <2>2, AdvanceMoves, BehindFinished
<1> QED BY <1>1, <1>2

LEMMA SucceedsBehind ==
  ASSUME TypeOK, RanInv, pc = "task", Succeeds
  PROVE  /\ Triggered(l') /\ (~old => \A k \in ran \cup fresh' : Behind(k, l'))
         /\ again' = again
<1> DEFINE m == TaskDone(l, at)
           key == <<l.active.why, l.active.idx>>
<1>0. l \in Schedules /\ at \in Nat /\ at' = at /\ Advance(m) /\ fresh' = fresh \cup {key}
  BY Numbers DEF TypeOK, Succeeds
<1>1. HasRun(l)
  <2>1. l.active.idx # 0
    BY <1>0, SpecType DEF TypeOK
  <2> QED BY <2>1 DEF HasRun
<1>2. l.active.why \in Int /\ l.active.idx \in Nat
  BY <1>0 DEF Schedules, Runs
<1>3. /\ m \in Schedules /\ m.last = l.last /\ m.ranNow = l.ranNow
      /\ \/ ~HasRun(m)
         \/ m.active.idx = l.active.idx + 1 /\ m.active.why = l.active.why
  BY <1>0, <1>1, TaskDoneType, TaskDoneMoves
<1>4. key[1] = l.active.why /\ key[2] = l.active.idx
  OBVIOUS
<1> HIDE DEF m, key
<1>5. Triggered(m)
  BY <1>1, <1>3 DEF RanInv, Triggered, Bounded
<1>6. ASSUME ~old, NEW k \in ran \cup fresh PROVE Behind(k, m)
  <2>1. Behind(k, l)
    BY <1>6 DEF RanInv
  <2> QED BY <1>1, <1>2, <1>3, <2>1 DEF Behind, Bounded
<1>7. Behind(key, m)
  BY <1>1, <1>2, <1>3, <1>4 DEF RanInv, Triggered, Behind, Bounded
<1>8. l' = m \/ l' = Finished(m)
  BY <1>0, <1>3, AdvanceMoves
<1>9. Triggered(l') /\ (~old => \A k \in ran \cup fresh' : Behind(k, l'))
  BY <1>0, <1>3, <1>5, <1>6, <1>7, <1>8, BehindFinished
<1>10. old \/ key \notin ran
  <2> SUFFICES ASSUME ~old, key \in ran PROVE FALSE
    OBVIOUS
  <2>1. Behind(key, l)
    BY DEF RanInv
  <2> QED BY <1>1, <1>2, <1>4, <2>1 DEF Behind
<1> QED BY <1>9, <1>10 DEF Succeeds, TypeOK, key

LEMMA RanInvKept ==
  TypeOK /\ Progress /\ StatusKnown /\ Ordered /\ RanInv /\ [Next]_vars => RanInv'
<1> SUFFICES ASSUME TypeOK, Progress, StatusKnown, Ordered, RanInv, [Next]_vars PROVE RanInv'
  OBVIOUS
<1>0. /\ {sched, schedCache, orig, l} \subseteq Schedules
      /\ now \in Times /\ now \in Nat /\ at \in Times /\ at \in Nat
  BY Numbers DEF TypeOK
<1>a. \A o \in {sched, schedCache, orig, l} :
        o.runNow \in Nat /\ o.ranNow \in Nat /\ o.last \in Nat
  BY <1>0 DEF Schedules
<1>1. CASE BeginReconcile
  <2>1. /\ UNCHANGED <<sched, schedCache, ran, fresh>> /\ pc = "idle"
        /\ ~old' => SameStatus(sched, schedCache)
    BY <1>1 DEF BeginReconcile, schedVars, SameStatus
  <2>2. schedCache.ranNow <= schedCache.runNow /\ Triggered(schedCache)
    BY DEF Ordered, RanInv
  <2>3. Triggered(l') /\ \A k : Behind(k, schedCache) => Behind(k, l')
    <3>1. CASE schedCache.owned
      BY <1>0, <1>1, <2>2, <3>1, DecideBehind DEF BeginReconcile
    <3>2. CASE ~schedCache.owned
      BY <1>1, <2>2, <3>2 DEF BeginReconcile
    <3> QED BY <3>1, <3>2
  <2>4. ~old' => \A k \in ran : Behind(k, schedCache)
    BY <2>1, BehindStatus DEF RanInv
  <2> QED BY <2>1, <2>3, <2>4 DEF RanInv
<1>2. CASE Adopt
  <2>1. /\ sched' = [sched EXCEPT !.owned = TRUE] /\ pc = "adopt" /\ schedCache' = schedCache
        /\ UNCHANGED <<ran, fresh, old>> /\ fresh = {} /\ at' = at
    BY <1>2 DEF Adopt, historyVars, RanInv
  <2>2. sched' \in Schedules /\ SameStatus(sched, sched') /\ sched'.ranNow <= sched'.runNow
    <3>1. sched.ranNow <= sched.runNow
      BY <1>a DEF Ordered
    <3>2. sched' \in Schedules /\ SameStatus(sched, sched') /\ sched'.runNow = sched.runNow
      BY <1>0, <2>1 DEF Schedules, SameStatus
    <3> QED BY <3>1, <3>2 DEF SameStatus
  <2>3. Triggered(sched') /\ \A k \in ran : Behind(k, sched')
    BY <2>2, BehindStatus DEF RanInv
  <2>4. Triggered(l') /\ \A k \in ran : Behind(k, l')
    BY <1>0, <1>2, <2>1, <2>2, <2>3, DecideBehind DEF Adopt
  <2> QED BY <2>1, <2>3, <2>4 DEF RanInv
<1>3. CASE Rotate
  <2>1. /\ UNCHANGED <<sched, schedCache, ran, fresh, old>> /\ fresh = {} /\ pc = "rotate"
        /\ at' = at
    BY <1>3 DEF Rotate, schedVars, historyVars, RanInv
  <2>2. l.ranNow <= l.runNow /\ Triggered(l)
    BY <1>a, <2>1 DEF Ordered, Records, RanInv
  <2>3. Triggered(l') /\ \A k : Behind(k, l) => Behind(k, l')
    BY <1>0, <1>3, <2>1, <2>2, DecideBehind DEF Rotate
  <2> QED BY <2>1, <2>3 DEF RanInv
<1>4. CASE WorksOn
  <2>1. /\ Succeeds /\ pc = "task" /\ UNCHANGED <<sched, schedCache, ran, old>>
    BY <1>4, WorksOnTypes DEF Succeeds, schedVars
  <2>2. Triggered(l') /\ (~old => \A k \in ran \cup fresh' : Behind(k, l'))
    BY <2>1, SucceedsBehind
  <2>3. pc' \in {"patch", "task"}
    BY <2>1, SucceedsProgress
  <2> QED BY <2>1, <2>2, <2>3 DEF RanInv
<1>5. CASE Stops
  <2>1. /\ l' = Finished(l) /\ pc = "task" /\ pc' = "patch"
        /\ UNCHANGED <<sched, schedCache, ran, fresh, old>>
    BY <1>5, StopsTypes DEF EndsRun, schedVars, historyVars
  <2> QED BY <1>0, <2>1, BehindFinished DEF RanInv
<1>6. CASE Breaks
  <2>1. /\ pc' = "idle" /\ sched' = sched /\ ran' = ran /\ fresh' = {}
        /\ schedCache' = schedCache \/ schedCache' = sched
    BY <1>6, BreaksTypes
       DEF Fail, Done, Breaks, AdoptConflicts, CallFails, OperatorRestarts, schedVars
  <2> QED BY <2>1 DEF RanInv
<1>7. CASE PatchStatus
  <2>1. /\ pc = "patch" /\ pc' = "idle" /\ ran' = Recorded /\ fresh' = {}
        /\ schedCache' = schedCache /\ sched' \in Schedules
    BY <1>7, PatchTypes DEF PatchStatus, Done, TypeOK
  <2>2. /\ sched'.ranNow = IF l.ranNow = orig.ranNow THEN sched.ranNow ELSE l.ranNow
        /\ sched'.last = IF l.last = orig.last THEN sched.last ELSE l.last
        /\ sched'.active = IF l.active = orig.active THEN sched.active ELSE l.active
    BY <1>0, <1>7 DEF PatchStatus, Schedules
  <2>3. /\ sched.last <= sched'.last /\ l.last <= sched'.last
        /\ sched.ranNow <= sched'.ranNow /\ l.ranNow <= sched'.ranNow
    <3>1. LastRun(at) \in Nat
      BY <1>0, FireTimes
    <3> QED BY <1>a, <2>1, <2>2, <3>1 DEF Ordered, Records
  <2>4. Triggered(sched')
    BY <1>0, <2>1, <2>2, <2>3, TriggeredGrows DEF RanInv
  <2>5. \A k \in ran' : Behind(k, sched')
    <3>1. CASE ~old
      <4>1. SameStatus(l, sched')
        BY <2>1, <2>2, <3>1 DEF StatusKnown, SameStatus
      <4> QED BY <2>1, <3>1, <4>1, BehindStatus DEF Recorded, RanInv
    <3>2. CASE old /\ SameStatus(sched, sched')
      BY <2>1, <3>2, BehindStatus DEF Recorded, RanInv
    <3>3. CASE old /\ ~SameStatus(sched, sched')
      BY <2>1, <3>3 DEF Recorded
    <3> QED BY <3>1, <3>2, <3>3
  <2> QED BY <2>1, <2>4, <2>5 DEF RanInv
<1>8. CASE Environment \/ SeeSchedule \/ SeeBackups \/ TimerFires \/ Tick \/ UNCHANGED vars
  <2>1. UNCHANGED <<pc, l, ran, fresh, old>>
    BY <1>8, Elsewhere DEF workerVars, historyVars
  <2>2. SameStatus(sched, sched') /\ (schedCache' = schedCache \/ schedCache' = sched)
    BY <1>0, <1>8 DEF Environment, UpdateSchedule, RunSchedule, Request, PhaseChanges,
       BlockChanges, GameChanges, BackupEnds, DeleteBackup, Pruning, BackupGone, BackupStep,
       SeeSchedule, SeeBackups, TimerFires, Tick, schedVars, vars, SameStatus, Schedules
  <2> QED BY <2>1, <2>2, BehindStatus DEF RanInv
<1> QED BY <1>1, <1>2, <1>3, <1>4, <1>5, <1>6, <1>7, <1>8, StepCases

(* Once the status records that a task was carried out, no reconcile that   *)
(* read the last status carries it out again for the same fire time or      *)
(* request: for any tasks and edits of them, failures, restarts and caches  *)
(* of any age.                                                              *)
THEOREM RecordedWorkOnce == Spec => []RecordedOnce
<1>1. Init => RanInv /\ RecordedOnce
  BY DEF Init, RanInv, RecordedOnce, Triggered, HasRun, NewSchedule, NoRun
<1>2. TypeOK /\ Progress /\ StatusKnown /\ Ordered /\ RanInv /\ [Next]_vars => RanInv'
  BY RanInvKept
<1>3. TypeOK /\ RanInv /\ RecordedOnce /\ [Next]_vars => RecordedOnce'
  <2> SUFFICES ASSUME TypeOK, RanInv, [Next]_vars PROVE again' = again
    BY DEF RecordedOnce
  <2>1. CASE WorksOn
    BY <2>1, WorksOnTypes, SucceedsBehind
  <2>2. CASE ~WorksOn
    BY <2>2, StepCases, StopsTypes, BreaksTypes, PatchTypes, Elsewhere
       DEF BeginReconcile, Adopt, Rotate, EndsRun, Fail, Done, historyVars
  <2> QED BY <2>1, <2>2
<1> QED BY <1>1, <1>2, <1>3, TypeCorrect, ProgressKnown, StatusKnownAlways, OrderedAlways,
           PTL DEF Spec
-----------------------------------------------------------------------------
(* Room for the next backup.                                                *)

LEMMA FirstOf ==
  ASSUME NEW S \in SUBSET Nat, S # {}
  PROVE  \E m \in S : \A c \in S : m <= c
<1> DEFINE R == OpToRel(<, Nat)
<1>1. IsWellFoundedOn(R, Nat)
  BY NatLessThanWellFounded
<1>2. PICK m \in S : \A c \in S : ~ (<<c, m>> \in R)
  <2> HIDE DEF R
  <2> QED BY <1>1, WFMin
<1>3. \A c \in S : c < m => <<c, m>> \in R
  BY DEF OpToRel
<1> HIDE DEF R
<1>4. \A c \in S : ~(c < m)
  BY <1>2, <1>3
<1>5. \A c \in S : c \in Nat /\ m \in Nat
  OBVIOUS
<1>6. \A c \in S : m <= c
  BY <1>4, <1>5
<1> QED BY <1>6

(* A set of which no member has n greater ones has n members at most.       *)
LEMMA FewGreater ==
  ASSUME NEW S \in SUBSET BackupIds, NEW n \in Nat,
         \A b \in S : Cardinality({c \in S : c > b}) < n
  PROVE  Cardinality(S) <= n
<1>1. CASE S = {}
  BY <1>1, FS_EmptySet
<1>2. CASE S # {}
  <2>1. S \subseteq Nat
    BY DEF BackupIds
  <2>2. PICK m \in S : \A c \in S : m <= c
    BY <1>2, <2>1, FirstOf
  <2> DEFINE T == {c \in S : c > m}
  <2>3. S = T \cup {m} /\ m \notin T
    <3>1. \A c \in S : c \in Nat /\ m \in Nat
      BY <2>1
    <3>2. \A c \in S : c # m <=> c > m
      BY <2>2, <3>1
    <3> QED BY <3>2
  <2>4. Cardinality(T) < n
    BY <2>2
  <2>5. IsFiniteSet(T) /\ Cardinality(T) \in Nat
    BY SubsetsOfBackups
  <2> HIDE DEF T
  <2>6. Cardinality(S) = Cardinality(T) + 1
    BY <2>3, <2>5, FS_AddElement
  <2> QED BY <2>4, <2>5, <2>6
<1> QED BY <1>1, <1>2

Older(list) == {b \in Counted(list) : b < made}

(* Before the newest backup was made there was room for it, if the list it  *)
(* was made on had all the others.                                          *)
Uncrowded ==
  ~blind => Cardinality(Older(backups)) < Limit /\ Cardinality(Older(backupsCache)) < Limit

LEMMA CountedLater ==
  ASSUME NEW x, NEW y, Exists(x), Later(x, y), CountsForLimits(y)
  PROVE  CountsForLimits(x)
BY DEF Later, CountsForLimits, Exists

LEMMA CountedSubsets ==
  ASSUME NEW S \in SUBSET BackupIds, NEW T \in SUBSET BackupIds, S \subseteq T, Cardinality(T) < Limit
  PROVE  Cardinality(S) < Limit
<1>1. /\ Cardinality(S) <= Cardinality(T) /\ Cardinality(S) \in Nat /\ Cardinality(T) \in Nat
      /\ Limit \in Nat
  BY SubsetsOfBackups, HeadroomAssumption
<1> QED BY <1>1

(* What else counts leaves no more room than the schedule's own backups.    *)
LEMMA OwnRoom ==
  ASSUME NEW list, NEW others \in OtherCounts, ~LimitReached(list, others)
  PROVE  Cardinality(Counted(list)) < Limit
<1>1. Cardinality(Counted(list)) \in Nat
  BY SubsetsOfBackups DEF Counted
<1>2. others.here \in Nat /\ Limit \in Nat
  BY BoundsAssumption, HeadroomAssumption DEF OtherCounts
<1>3. ~(Cardinality(Counted(list)) + others.here >= Limit)
  BY DEF LimitReached
<1> QED BY <1>1, <1>2, <1>3

(* Only a new backup changes blind.                                         *)
LEMMA BlindKept ==
  ASSUME TypeOK, [Next]_vars, ~TakeBackup
  PROVE  blind' = blind
<1>1. CASE WorksOn
  BY <1>1 DEF WorksOn, SendCommand, RestartServer, StartServer, StopServer, SetPower, BackupKnown
<1>2. CASE ~WorksOn
  BY <1>2, StepCases, StopsTypes, BreaksTypes, PatchTypes, Elsewhere
     DEF BeginReconcile, Adopt, Rotate, EndsRun, Fail, Done, historyVars
<1> QED BY <1>1, <1>2

LEMMA UncrowdedKept == TypeOK /\ CopyInv /\ Uncrowded /\ [Next]_vars => Uncrowded'
<1> SUFFICES ASSUME TypeOK, CopyInv, Uncrowded, [Next]_vars, ~blind'
             PROVE  Cardinality(Older(backups)') < Limit /\ Cardinality(Older(backupsCache)') < Limit
  BY DEF Uncrowded
<1>0. /\ Older(backups) \subseteq BackupIds /\ Older(backupsCache) \subseteq BackupIds
      /\ Older(backups)' \subseteq BackupIds /\ Older(backupsCache)' \subseteq BackupIds
      /\ Counted(backupsCache) \subseteq BackupIds
  BY DEF Older, Counted, BackupIds
<1>1. CASE ~TakeBackup
  <2>0. Cardinality(Older(backups)) < Limit /\ Cardinality(Older(backupsCache)) < Limit
    BY <1>1, BlindKept DEF Uncrowded
  <2>1. made' = made /\ \A b \in BackupIds : Ages(backups[b], backups'[b])
    BY <1>1, BackupSteps
  <2>2. Older(backups)' \subseteq Older(backups)
    <3> SUFFICES ASSUME NEW b \in BackupIds, b < made, CountsForLimits(backups'[b])
                 PROVE  CountsForLimits(backups[b])
      BY <2>1 DEF Older, Counted
    <3>1. Exists(backups[b])
      BY <2>1 DEF Ages, CountsForLimits
    <3> QED BY <2>1, <3>1, CountedLater DEF Ages
  <2>3. Cardinality(Older(backups)') < Limit
    BY <1>0, <2>0, <2>2, CountedSubsets
  <2>4. CASE backupsCache' = backupsCache
    BY <2>0, <2>1, <2>3, <2>4 DEF Older, Counted
  <2>5. CASE backupsCache' = backups /\ backups' = backups
    BY <2>0, <2>1, <2>3, <2>5 DEF Older, Counted
  <2> QED BY <2>4, <2>5, BackupSteps
<1>2. CASE TakeBackup
  <2>1. /\ made' = made + 1 /\ backupsCache' = backupsCache /\ made \in Nat
        /\ \A b \in BackupIds : b # made + 1 => backups'[b] = backups[b]
        /\ \A b \in BackupIds : Exists(backups[b]) => Exists(backupsCache[b])
    BY <1>2, Numbers DEF TakeBackup, TypeOK
  <2>2. Cardinality(Counted(backupsCache)) < Limit
    BY <1>2, OwnRoom DEF TakeBackup
  <2>3. Counted(backups) \subseteq Counted(backupsCache)
    BY <2>1, CountedLater DEF Counted, CopyInv, CountsForLimits
  <2>4. Older(backups)' \subseteq Counted(backups)
    <3> SUFFICES ASSUME NEW b \in BackupIds, b < made + 1, CountsForLimits(backups'[b])
                 PROVE  CountsForLimits(backups[b])
      BY <2>1 DEF Older, Counted
    <3>1. b # made + 1
      BY <2>1 DEF BackupIds
    <3> QED BY <2>1, <3>1
  <2>5. Older(backupsCache)' \subseteq Counted(backupsCache)
    BY <2>1 DEF Older, Counted
  <2> QED BY <1>0, <2>2, <2>3, <2>4, <2>5, CountedSubsets
<1> QED BY <1>1, <1>2

(* A schedule with nothing under way and nothing to rotate out has room.    *)
LEMMA RoomLeft ==
  ASSUME TypeOK, CopyInv, Uncrowded, ~blind, NEW list \in {backups, backupsCache},
         NEW o, HasBackupTask(o), RotatedOut(o, list) = {},
         \A b \in BackupIds : list[b].phase # "Running"
  PROVE  Cardinality(Counted(list)) < Limit
<1> DEFINE C == Counted(list)
           G == Good(list)
<1>0. C \subseteq BackupIds /\ G \subseteq BackupIds /\ Older(list) \subseteq BackupIds
  BY DEF Counted, Good, Older
<1>a. /\ \A b \in BackupIds : list[b] \in Backups /\ Marked(list[b])
      /\ \A b \in BackupIds : b > made => list[b] = NoBackup
      /\ Cardinality(Older(list)) < Limit
  BY DEF TypeOK, CopyInv, Uncrowded
<1>1. C \subseteq G
  <2> SUFFICES ASSUME NEW b \in BackupIds, CountsForLimits(list[b])
               PROVE  list[b].phase = "Completed" /\ ~list[b].deleting
    BY DEF Counted, Good
  <2> QED BY <1>a DEF CountsForLimits, Exists, Marked, Backups, Phases
<1>2. CASE NewestDone(list)
  <2>1. KeepLast \in Nat /\ Limit \in Nat /\ KeepLast < Limit
    BY HeadroomAssumption DEF Headroom
  <2>2. \A b \in G : Cardinality({c \in G : c > b}) < KeepLast
    <3> SUFFICES ASSUME NEW b \in G PROVE Cardinality({c \in G : c > b}) < KeepLast
      OBVIOUS
    <3>1. ~(Cardinality({c \in G : c > b}) >= KeepLast)
      BY <1>2 DEF RotatedOut
    <3>2. Cardinality({c \in G : c > b}) \in Nat
      BY <1>0, SubsetsOfBackups
    <3> QED BY <2>1, <3>1, <3>2
  <2>3. Cardinality(G) <= KeepLast
    <3> HIDE DEF G
    <3> QED BY <1>0, <2>1, <2>2, FewGreater
  <2>4. Cardinality(G) \in Nat
    BY <1>0, SubsetsOfBackups
  <2>5. Cardinality(G) < Limit
    BY <2>1, <2>3, <2>4
  <2> QED BY <1>0, <1>1, <2>5, CountedSubsets
<1>3. CASE ~NewestDone(list)
  <2>1. C \subseteq Older(list)
    <3> SUFFICES ASSUME NEW b \in C PROVE b < made
      BY DEF Older
    <3>1. b \in BackupIds /\ list[b].phase = "Completed" /\ b \in Nat /\ made \in Nat
      BY <1>0, <1>1, Numbers DEF Good, BackupIds
    <3>2. b <= made
      BY <1>a, <3>1 DEF NoBackup
    <3>3. b # made
      <4> SUFFICES ASSUME b = made PROVE FALSE
        OBVIOUS
      <4>1. \A c \in BackupIds : c > b => ~Exists(list[c])
        BY <1>a DEF NoBackup, Exists
      <4> QED BY <1>3, <3>1, <4>1 DEF NewestDone
    <3> QED BY <3>1, <3>2, <3>3
  <2> QED BY <1>0, <1>a, <2>1, CountedSubsets
<1> QED BY <1>2, <1>3

(* With no backup under way and none to rotate out, the schedule's own      *)
(* backups leave room for the next one: keepLast stays below the limit, and *)
(* every backup but the newest was there when there was room for that one.  *)
(* Neither the age of the caches nor the number of Backup tasks matters,    *)
(* only that the newest was not made on a list that missed another.         *)
THEOREM RoomForBackups == Spec => []RoomForNext
<1>1. Init => Uncrowded
  <2> SUFFICES ASSUME Init PROVE Uncrowded
    OBVIOUS
  <2>1. Older(backups) = {} /\ Older(backupsCache) = {}
    BY DEF Init, Older, Counted, CountsForLimits, Exists, NoBackup
  <2>2. 0 < Limit
    BY HeadroomAssumption DEF Headroom
  <2> QED BY <2>1, <2>2, FS_EmptySet DEF Uncrowded
<1>2. TypeOK /\ CopyInv /\ Uncrowded => RoomForNext
  BY RoomLeft DEF RoomForNext
<1> QED BY <1>1, <1>2, UncrowdedKept, TypeCorrect, CopiesKnown, PTL DEF Spec
=============================================================================
