# Hatchery in TLA+

Hatchery runs game servers on Kubernetes: an operator turns `GameServer`, `GameServerBackup`,
`GameServerRestore`, `GameServerSchedule`, `Tenant` and `Egg` objects into Pods, Jobs, routes and
namespaces, and a Panel (a Go API with Postgres and Redis, and a web client) lets people of an
organisation create and run those servers. This directory holds TLA+ specifications of the parts
whose correctness depends on the order in which things happen, TLC configurations that check them
on small instances, and TLAPS proofs of the results that matter most.

Names of definitions are the source's names where TLA+ allows. `PROJECT.json` maps every
definition to the lines it stands for, lists what each run checks, the hazards the properties were
written for, and a mutant of the code for every property, which shows that the property can fail.

    tlc -workers 2 -config MCGameServer.cfg MCGameServer      # check
    tlapm OperatorProofs.tla                                  # prove

## The system

### Operator (`internal/controller`, `internal/webhook`, `internal/backup*`)

All controllers run in one process behind leader election, one worker each. A worker reads objects
from informer caches that lag behind the API server, works on copies, and makes one API call after
another. An `Update` is refused (409) when the copy is not the latest version; a merge `Patch`, a
`Delete` and a `Create` are not. Anything may happen between two calls, every call may fail, and
the process may stop at any point; the next leader lists everything afresh.

| Component | State it keeps | Operations | What is hard |
|---|---|---|---|
| GameServer controller | `GameServer.status` (phase, crash history, restart times), the Pod, the crash log ConfigMap | create, restart and delete the Pod; record a crash, save its log, restart with a delay, give up | stale copies, conflicts with Panel requests, a crash between any two steps, delays kept only in the work queue |
| GameServerBackup controller | phase, quiesce status, finalizer; the restic Job and the cleanup Job | send Before, copy, send After, expire, prune | the commands must be sent once although their outcome is recorded by a later call; Pods are replaced under a running backup; deletion at any phase |
| GameServerRestore controller | phase, finalizer; the lock annotation on the GameServer; the Job | lock, copy back, unlock | the lock, the Job and the status are three objects |
| GameServerSchedule controller | `status.activeRun`, `lastScheduleTime`, `lastRunNow` | start a run, carry out tasks, rotate backups | tasks take effect before the status knows; wake-ups; rotation against failures |
| Backup planning | none (counts a list) | plan and create a backup within the organisation's limits | check and create are two calls, by the Panel and the operator |
| Gateway exposure controller | ports in `GameServer.status.publicExposure`, TCP/UDP routes, one Gateway | allocate ports, apply and prune routes, rebuild the listeners | one shared object computed from all servers; names that collide across namespaces |
| Tenant controller | phase, finalizer; the namespace with its quota, policies and role binding | provision, repair, delete once empty | list-then-delete while servers are being created |
| Webhooks | none | admit or refuse one object, looking at cached others | checks that are stale when the object is stored |

### Panel (`internal/panelapi`, `internal/paneldb`, `internal/panelcache`, and helpers)

| Component | State it keeps | What is hard |
|---|---|---|
| Organisations, members, invitations, users | Postgres rows; a `Tenant` per organisation | the last owner and the last administrator across transactions; rows and cluster objects changed in two steps |
| Sessions, tokens, two-factor login | Postgres rows; login challenges and attempt counters in Redis | codes and tokens spent once by concurrent requests; sessions revoked by a reset |
| Game servers, backups, schedules | none of its own: requests to the API server | races with the operator, quota checked before creation |
| Notifications, Discord | claims in Redis; a gateway connection | at most one delivery, reconnects |
| Mods, files | jars in a directory of the volume, reached over SFTP; a flag on the `GameServer` | several writers of one directory, plans made from one listing, connections that break |
| Backup destinations, quota | Secrets with buckets and passwords; sums over lists | counted or looked up in one call, used in a later one |
| Console, samplers, mail, audit | streams, readings, log lines | I/O; mostly one request, one effect |

The Panel and the operator meet in the API server only: the Panel's requests are the environment
of the operator's models, and appear in them as actions that may happen between any two steps of a
reconcile. `Tenancy` has both sides, the Panel's requests and the operator's passes.

## Modules

| Module | Models | Extended by |
|---|---|---|
| `GameServer` | the GameServer controller, its Pod, the Panel's power requests | `MCGameServer`, `OperatorProofs` |
| `Restore` | the GameServerRestore controller and the two webhooks that guard the lock | `MCRestore`, `StorageProofs` |
| `Backup` | the GameServerBackup controller, the game's Pods, the Jobs | `MCBackup`, `BackupProofs` |
| `Schedule` | the GameServerSchedule controller, its backups and their rotation | `MCSchedule`, `ScheduleProofs` |
| `Exposure` | the Gateway exposure controller: public ports, routes and the shared Gateway | `MCExposure`, `ExposureProofs` |
| `Membership` | the Panel's roles, invitations, account deletion and administrators, over Postgres | `MCMembership`, `PanelProofs` |
| `SingleUse` | abstract: what a token that may be used once promises | instantiated by `Login` |
| `Login` | password, second factor, challenges, limiter, sessions and links by mail | `MCLogin`, `LoginProofs` |
| `Mods` | a directory of mods: installer, file manager, the flag for a restart | `MCMods`, `DeliveryProofs` |
| `Tenancy` | an organisation, from its row to its namespace; quota, servers and grants | `MCTenancy`, `OperatorProofs` |
| `Destinations` | where backups go: connections, buckets, limits, repository passwords | `MCDestinations`, `StorageProofs` |
| `Notify` | the alerts: rounds of several Panels, claims, two channels | `MCNotify`, `DeliveryProofs` |
| `Discord` | linking accounts and guilds by OAuth2, registering and running slash commands | `MCDiscord`, `PanelProofs` |

The first five share one way of modelling a controller:

* The worker's `pc` names the next API call; `Reconcile`'s reads and local decisions up to that
  call are one step (`BeginReconcile` with `Steps` or `Decide`). Copies the worker holds are
  variables (`l`, `p`, `orig`, `seen`) and are forgotten when it goes idle.
* Each object has a cached copy, refreshed at any time by `See...`, which also queues the key where
  the controller watches that object. An `Update` is enabled when the copy is the latest version
  and a `...Conflicts` action otherwise. `GameServer` has several writers and keeps freshness flags
  (`cacheFresh`, `localFresh`) instead of comparing values, since two versions may be equal, and so
  does `Exposure` (`fresh`, `current`); the other modules compare the copies.
* `Fail` is a reconcile that returns an error: the key is queued again. `CallFails` lets any call
  fail, `OperatorRestarts` stops the worker at any step, forgets timers and lists everything.
* History variables (marked `history`) record what properties need and the code does not keep. No
  guard reads them.
* `CaughtUp` (Restore, Backup, Exposure) says whether a reconcile finds the operator's own earlier
  writes in its caches. The code relies on it in several places (`pollJob` fails an object whose
  Job is not in the cache, `setRestoringAnnotation` returns early on a cached annotation), and
  informers nearly always satisfy it, as a watch event overtakes the next reconcile. The runs take
  `CaughtUp = TRUE`; the changes of everybody else may still be seen late. Theorems hold for both
  values unless they assume it. What goes wrong without it is listed as hazards. `Schedule` has no
  such constant: a backup the schedule has just made wakes it, often before the status patch of the
  same reconcile is in the cache, so its caches may always be late.

### GameServer

`gs` is spec, annotations and status in one record; `pod` the one Pod of that name, with how and
when its container ended. `BeginReconcile` goes through `reconcilePod`/`crashedPod`/
`reconcileCrash`; a crash leads through `SaveCrashLog`, `RecordCrash` and `RestartCrashed`, or
`StopAfterExit` and `RemoveDeadPod`; `UpdateStatus` is `updateStatus`, and ends with the timer
that `RequeueAfter` sets. Start, Stop, Restart, Suspend, edits come from the Panel; the kubelet
runs, fails and removes Pods, and games exit or crash. The clock is lazy: `now` moves, by any
amount, in the steps that read it.

### Restore

`AdmitsRestore` and `AdmitsServer` are the webhooks, evaluated on what they read. The controller
takes the lock (`Lock`), creates the Job (`CreateJob`), records it (`MarkRunning`), and at the end
or on deletion releases (`Unlock`) and finishes (`MarkDone`, `DropFinalizer`). `Adopt` sets the
finalizer, also on a restore that has ended, as the code does.

### Backup

`Record`, `SendBefore`, `BeforeFailed` and `Wait` are `quiesce`; `StartCopy` and `MarkRunning`
`startJob`; `Complete` `completeJob`; `SendAfter` to `GiveUp` `resume`; `Expire`
`enforceRetention`; `StartPrune`, `MarkDeleting` and `DropFinalizer` `reconcileDelete`. A Pod has
a number for its UID, and is paused by Before and released by After; commands reach whichever Pod
has the server's name. A Job attempt may fail after it has stored a snapshot.

### Schedule

Cron fires at the multiples of `Period`; a tick is a second, the resolution of a run's ID.
`maybeStart`, `TaskDone`, `RotatedOut` and `Wake` are the code's decisions; each task and each
deletion is one call; `PatchStatus` merges the fields that changed since the copy was read. A
task's error ends the run, any other error retries the reconcile. A backup is planned on the
schedule's own backups in the cache and on any number, up to `MaxOthers`, of others that count: the
server's, for its limit, and the other servers', for the organisation's.

### Exposure

`BeginReconcile` is `Reconcile` and `reconcileOne` up to the first call; `Allocate` lists the
servers at the API server and gives each port without one the lowest that is free (`Allocations`,
in any order of the ports, stopping when the pool is empty). `ApplyRoute` and `PruneRoute` are one
call each, `UpdateStatus` the status, `ListServers` and `WriteGateway` `rebuildGateway`; the
listeners are computed from all servers, whatever server the reconcile is of. Servers are created,
exposed, hidden, given extra ports, and deleted, and the Egg they share is edited, at any time; the
controller watches GameServers only, so nothing else queues a key.

All servers use one Egg, and a port is its name: protocols, container ports and the public host are
data of routes and listeners. Names are such that joining a server's and a port's with a dash is
unambiguous. A server of a name used before is created only once the routes and the copies of the
old one are gone, and the informers' resync, which queues every key every ten hours, is left out.

### Membership

The Panel handles requests concurrently, and its state is in Postgres. Each of the `Slots` is a
request being handled; a step is one SQL statement, and the statement that ends a transaction is a
step with its commit. The transactions run at READ COMMITTED (the driver's default), so each
statement sees what is committed when it runs. Row locks are not variables: who holds one follows
from where the requests are (`LocksOrg`, `AdminsHeld`, `InvitationFree`), and a statement that needs
a locked row is not enabled. That includes inserts, which lock the rows they refer to.

`RequestSetRole`, `RequestRemove` and so on are the handlers up to their first transaction: the
caller's access (`EffectiveRole`), and the checks on what was read then. `LockOrg` to `WriteRole`
are `changeMembership` with its two callers, `ScanOwned` to `DeleteUser` `DeleteUser`, `FindAdmins`
to `Demote` `SetAdmin`. A statement with FOR UPDATE reads its rows before it locks them; where that
matters it is two steps (`ScanOwned` and `LockOwned`, `FindAdmins` and `LockAdmins`, which looks at
the rows again, as Postgres does, but not for new ones). `Upsert`, `Reissue`, `Deliver`,
`DeleteInvitation` and `Join` are the life of an invitation; a person follows only a link that was
delivered. There is one organisation, which starts with an owner; a person is an e-mail address.

### Login and SingleUse

One account, used from one address. A step is one SQL statement or one Redis script, as in
`Membership`; `Slots` requests are under way at a time. `RequestLogin` and its like are handlers up
to their first call. `AskLimiter`, `RecordFailure`, `RecordSuccess` are the limiter, in Redis, which
may not answer (`LimiterFails`); `CheckPassword`, `IssueChallenge`, `Peek`, `VerifyCode`,
`AcceptTOTPStep`, `UseRecoveryCode`, `FailChallenge`, `Consume`, `CreateSession` are
`handleLogin` and `handleLogin2FA` in the order of their calls; `EnableTOTP`, `DisableTOTP`,
`SetPassword`, `RevokeUserSessions` the settings of an account; `FindRows`, `LockRows`, `Replace`
and `Mail` `IssueUserToken`, where a DELETE sees only rows committed before it; `RequestReset`,
`WritePassword`, `FindSessions` and `CommitReset` the four statements of `ResetPassword`, and
`ConfirmEmail` the other thing a link is for. `tries` counts the wrong answers to requests that ask
the limiter; `confirmIdentity`, before two-factor is turned off or the codes are replaced, asks no
limiter, and `GuessesBounded` says nothing of it. Time is a TOTP step; links, challenges, sessions and the window
of the limiter end at any time (`Expire`, `WindowEnds`).

`SingleUse` is the abstract specification: a token is issued, used once, answered wrongly at most
`MaxWrong` times, or ends. `Login` instantiates it three times (`Challenge`, `Link`,
`RecoveryCode`) with a refinement mapping from its rows; a challenge counts as used when its session
is made, so the mapping looks into the request that has consumed it. That each instance is
implemented is checked by TLC (`TokensSingleUse`) and proved.

### Mods

A file is a name, as the jar or as its temporary file; its content is the version it is a copy of,
`Own`, `Torn` while it is being written, or `None`. Every SFTP call is a step (`CreatePart`,
`Write`, `StatFinal`, `RemoveFinal`, `RenamePart`, `RemoveOld`, `RemoveMod`, `OpenPlace`,
`DeletePath`, `RenameFile`), and so are the listing with the plan made from it (`PlanInstall`,
`PlanUpdate`, with `Resolve` for `ResolveInstall`) and the calls of `markFilesChanged`
(`ReadServer`, `Flag`, `FlagConflicts`). Connections go through the agent next to the game or a
maintenance Pod and break when that Pod goes (`PodGoes`, `MaintenanceEnds`, `Breaks`).

`Resolve` is a recursive function of the depth, one level of dependencies after the other
(`Deeper`), `WithJars` one of the rounds (`MoreJars`). `Promises` is the answer: it promises only
names that the request gave to one version, as the code checks a plan against the directory but not
against itself, and of two planned files of one name writes the second over the first and lists
both. `Complete` sets such an install aside (`OneEach`), and follows requirements as far as
`ResolveInstall` does (`Leads`). The specification is `ModsSpec`, and its parts are named after it
(`ModsInit`, `ModsNext`, `ModsTypes`), so that one module of proofs can extend it together with
`Notify`.

### Tenancy

One slug. `CreateRow`, `CreateTenant` and `Undo` are `handleCreateOrg` with its compensation,
`ListOrg` to `DeleteRow` `handleDeleteOrg`, `CheckQuota` and `CreateServer` the creation of a
server, `DeleteServer` and `DropGrants` its deletion, `CheckServer` and `SetGrants` the grants of a
member. The operator's pass is `Reconcile` to `RemoveFinalizer`, with the fences in their order
(`ReconcileFence`: the quota first, the role binding last; what comes between is not told apart).
Rows, Tenants and servers are numbered when they are made, as nothing else tells two of one name
apart. The specification is `OrgSpec`, and its parts are named after it (`OrgInit`, `OrgNext`,
`OrgTypes`, `ReconcileTenant`), so that one module of proofs can extend it together with `GameServer`.

### Destinations

`ReadServer` to `CreateBackup` are `backupplan.Plan` and `Create`, for the Panel and the operator
alike; `ReadPut` to `UpdateConnection` `handlePutBackupConnection`, `CheckUsers` to
`DeleteConnection` its deletion, `ValidateTarget` and `UpdateTarget` a server's choice. `CreateServer`
makes a server with whatever target the request names, which nothing validates. The Panel counts the
backups there are, the operator (`RequestRun`) those in the manager's cache (`KnownTo`), which
`SeeBackup` brings up to date, in order. `Store` and
`BackupFails` end a backup, with the password of the Secret it names; a repository opens only with the one
it was initialised with, and `Refused` is a backup that met another. How a backup runs is `Backup`.
The specification is `PlanSpec` (`PlanInit`, `PlanNext`, `PlanTypes`), which is extended together with
`Restore`.

### Notify

An alert is one occurrence. `StartRound` is the part of `NotifyOnce` that lists, for all
organisations in one step, `ReadSettings`, `Claim` and `Deliver` are `notify`; `Suspend` and
`Announce` the suspension that announces itself in the background. A claim has a time to live, a
message to Discord may arrive without an answer and is then sent again, and a Panel may stop at any
point. A round skips the organisations whose Tenant is not Active (`TenantFails`, `TenantActive`). Time is
counted in units longer than `notifyInterval`; in each, some Panel finishes a round,
and no round is longer than `MaxRound`. A second round of the same Panel in one unit, and one that
finds nothing, are left out.

### Discord

`Authorize` and `Callback` start the three OAuth2 flows; `SetDiscordLink`, `CheckOrg` and
`SetOrgGuild` finish those of a user and of an organisation. For the platform, each of its two
settings is an UPDATE and, when there was no row, an INSERT (`SetPlatformGuild` and `InsertGuild`,
`SetPlatformName` and `InsertName`), which the primary key refuses when another callback's came
first; `SettingFails` is a failure of the database. The commands are registered
(`RegisterPlatformCommands`) when both settings were stored, otherwise the callback answers an error
and is over (`Answers`). `CutOff` is a Panel that stops, or a statement on a link that fails.
`Interact` finds who asks for which organisation, `Admit` runs the route's checks, `GetServer` reads
the server, and `SetState`, `Suspend` and `Unsuspend` write what was read (`Save`), unless it has
changed since (`Current`) or the webhook refuses (`Accepted`). Starting and stopping stand for the
commands of an organisation, as the others do not write the spec's state; they give up on a conflict,
the others read again (`TryAgain`). The specification is `BotSpec`, and its parts are
named after it (`BotInit`, `BotNext`, `BotTypes`, `Requested`), so that one module of proofs can
extend it together with `Membership`.

## Runs

| Run | Instance | Checks |
|---|---|---|
| `gameserver` | limit 2, window 3, exits up to tick 4, 1 event, fair | `RestartsBounded`, `DownForGood`, `CrashLogged`, `NoUnaskedKill`, `Converges` |
| `restore` | 2 restores, symmetric, 3 events | `RestoringStopped`, `LockKept`, `Settled`, `LockFirst` |
| `backup` | 1 backup, 2 Pods, 2 attempts per Job, 3 events | `BeforeOnce`, `QuietWhileCopying`, `Settled`, `PruneFirst` |
| `schedule` | 3 task lists, period 3, 5 ticks, 3 backups, 2 events, 1 other backup | `RecordedOnce`, `RoomForNext`, `Awake`, `KeepsNewest` |
| `exposure` | 2 servers with up to 2 ports, a pool of 3, 2 events | `PortsDistinct`, `NothingLeft`, `AddressStable`, `FreedLast` |
| `membership` | 3 people, 2 requests at a time, 4 events, symmetric | `InCharge`, `OwnersMadeByOwners` |
| `login` | 2 requests at a time, 3 in all, 2 faults, limits 2, 1 and 2, symmetric | `GuessesBounded`, `OldGone`, `TokensSingleUse` |
| `mods` | 2 requests, 3 projects, 5 versions, 4 names, 1 fault, 1 edit | `WholeJars`, `Delivered`, `Flagged` |
| `tenancy` | 5 requests, 2 at a time, 2 names, quota 1 raised to 2, 1 fault, fair | `NothingLingers`, `WithinQuota`, `GrantsOfServer`, `Provisioned` |
| `destinations` | 2 servers, 2 buckets, limits 1 and 2, 4 requests, 2 at a time, symmetric | `ReferencesKept`, `LimitsKept`, `OneKey` |
| `notify` | 2 organisations, 2 Panels, 2 alerts, window 1, claims of 3, 3 ticks, 3 requests, 2 faults, symmetric | `AnnouncedOnce`, `NoneMissed` |
| `discord` | 2 of everything, 3 requests, 1 fault, symmetric | `SuspendedStays`, `CommandsThere` |

What each property says is written above its definition, what each run shows is in `PROJECT.json`.
In short: a game is restarted within its budget, ended only on request and its crash logged; a
volume is written to only under the lock; the world is paused for the copy and saved afterwards; a
recorded task of a schedule is not repeated and no run slept through; an address is given once and stays;
somebody stays in charge; a code, link or challenge works once and guesses are bounded; the mods an
install promised are whole and there; an organisation is made and taken down as one; credentials
and limits hold against concurrent planners; an alert is sent once and not lost; a suspended server
stays down.

**Bounds.** An event is a request, a failed call, an operator restart or a change made by the
environment on its own; two or three of them allow every pair (triple) of disturbances at every
step, and the known divergences below need one or two. In `GameServer` a limit of 2 with exits up
to tick 4 lets two crashes fall within one window and into different windows; the delays of 1 make
the restart race with everything else. Two restores are
enough for one to meet another, as the lock is one bit. Two Pods suffice for a Pod to be replaced
between a decision and the command. `Backup` is checked with one backup: overlapping backups are
not excluded by the code, and the properties about pausing set them aside. In `Schedule`, five
ticks hold a fire time with its missed-run window and manual runs around it, and three backups let
rotation meet a failed one between two good ones; a reconcile that begins before the operator's own
writes are in the caches counts as an event, so two of them, or one and a failure, fall in one behaviour. In `Exposure`, two servers of two ports each want
four ports of a pool of three, so the pool is exhausted, completely or halfway through a server,
and a port that one gives up is taken by the other. In `Membership`, a
race needs two requests at a time, and those who race must first be made owner or administrator:
four events are two requests that prepare and two that race, or a failure among three; a third
person is who is invited or left over. In `Login` a request leads to a challenge or a
link, and two race for it; the account starts with or without a second factor. In `Mods` the
server runs or is stopped, and its directory is empty or has older versions of two mods, so that
an install can share a dependency, replace a file of the same name or update what another
removes. In `Tenancy` five requests make an organisation and a server, delete it, and make one of
the same name, or let two servers race for the last place. In `Destinations` a server may be created on any target, so four requests set up a connection, make a backup (or
choose a target), and let two others race; the cache of the operator may miss any of them. In `Notify` a claim of 3 with a window of 1 and rounds of 1 is the
smallest that outlasts both; two Panels and two alerts let one round fail in the middle. `Discord`
starts from every state of links and guilds, so three requests are enough for two that race and one
that undoes.

**Deadlock** is not checked: once the bounds are used up and everything has settled, nothing is
left to do. The `Settled` and `NothingLeft` invariants say what holds then: whenever no key is
queued, no timer is set and the caches are up to date, the objects are as they should be. They are
what shows that no failure, conflict or coalesced event loses work.

**Fairness.** `gameserver`: the worker takes its next step (controller-runtime runs it), caches
catch up, timers fire, and the kubelet removes a terminating Pod. `tenancy`: the operator's queue
retries a pass, and what is being deleted in the cluster (a namespace, a server) goes. No fairness
is assumed of requests, faults, crashes or operator restarts, and a call that fails is retried
because the key is queued again. Faults are finite, so this asks what happens once disturbances
cease.

## Known divergences

Behaviours in which the code does other than a comment says. They were met while modelling, and the
properties set exactly them aside; no run is kept for them. For the first five the formula that TLC
refutes is in the MC module.

* `LocksDuringRestore` (`MCRestore`): "RestoringAnnotation locks a GameServer during a restore"
  (`gameserverrestore_types.go:27`). An ended restore gets its finalizer back
  (`gameserverrestore_controller.go:70`); deleting it releases a lock that belongs to another.
* `SnapshotHasOwner` (`MCBackup`): "removes the remote snapshots before the backup object goes
  away" (`gameserverbackup_types.go:41`). A backup deleted before its success is recorded
  (`gameserverbackup_controller.go:218`) leaves its snapshot behind.
* `OneBackupPerTrigger` and `OneBackupPerRun` (`MCSchedule`): a run's backups carry its ID "so a
  retried Backup task never creates a second one", and a restart resumes it "instead of repeating
  earlier tasks" (`gameserverschedule_types.go:107`). A run that starts with an undelayed Backup makes
  a second one when the reconcile's status patch is lost, as the run's ID is the time it was started;
  and nothing need fail for that: the backup's own event wakes the schedule
  (`gameserverschedule_controller.go:381`), and a reconcile that reads the status of before the patch
  starts the run again. Two backups even share an ID when the cached list misses the first.
  `RecordedOnce` speaks of the reconciles that have read the last status.
* `Reachable` (`MCExposure`): the status "reports where this server is publicly reachable"
  (`gameserver_types.go:124`). Listeners are named without the namespace
  (`gatewayexposure_controller.go:315`), so of two exposed servers of one name one has none.
* `KeepsOwner` (`MCMembership`): "returned by any change that would leave an org with no owner"
  (`paneldb/orgs.go:48`). `DeleteUser` locks the organisations the user owns when it begins
  (`users.go:349`); a user made an owner after that is deleted without the lock.
* `modsinstall.go:190`: "the server never sees a half-written jar". Two installs of one file name
  share a temporary file, and one renames what the other has just emptied (`WholeJars`: `clash`).
* `tokens.go:38`: "only the latest e-mailed link works". Two issued at once both do (`LatestLink`:
  `crossed`).
* `panelapi/orgs.go:131`: "no row without a Tenant". The Panel may stop between the two calls, or
  the compensation fail (`TwoHalves`).
* `tenant_types.go:26`: the finalizer "holds a Tenant's deletion until its namespace is empty". It is
  listed before it is deleted, and a server may be created in between.
* `notified.go:11`: "the same occurrence is never announced twice". A message Discord took without
  answering is sent again (`AnnouncedOnce`: `unsure`).

Others were seen that no comment speaks about. Two restores created before the first one is locked
are both admitted and both write. Two demotions may leave no administrator: `SetAdmin`
refuses when the rows it locked are the one administrator it is to demote, and if those it had
found were all demoted before it locked them, it has locked none and goes on; `AdminKept` sets this
aside (`bare`), and with it the deletion of the only administrator, which `DeleteUser` allows. A
connection that is deleted and made again draws a new password, and its old repositories do not
open (`OneKey`: `dropped`). A login that checked the old password may insert its session after a
new password revoked them all, or between the revocation and the commit of a reset
(`paneldb/tokens.go:97-104`), which does not see it (`OldGone`: the session's `late`).
Turning two-factor off and replacing the recovery codes ask for a password or a code, and answer as
many wrong ones as are sent: `confirmIdentity` (`twofactor.go:274`) has no limiter, unlike the other
requests that check one. The operator counts backups in a cache that may miss the latest, so that one
planner alone can exceed a limit (`LimitsKept` allows for what was `missed`). A server is created
with any `backupTarget`, on the list of buckets or not (`gameservers.go:161`); only updates are
validated, and of those two orders of calls leave a target or a stored backup without its connection:
a backup made, or a target written, between a check for users and the write that removes the bucket,
and this write between a target's validation and its own (`ReferencesKept`: `raced`). When two callbacks
connect the platform's first Discord server at once, each may find a row of the other's where it
meant to insert its own: both answer an error, the guild is stored, and its commands are not registered before
the next start of a Panel (`CommandsThere`: `clashed`).

Hazards of this code that no property covers: a quick Start between two reconciles hides the stop
that would clear the recent crashes (`gameserver_controller.go:411`); the webhook and the Panel look
at `spec.state` only, so the Pod of a server just stopped may still be saving when a restore begins
(`gameserverrestore_webhook.go:65`, it needs `GameServer` and `Restore` over one volume); a server for
which the pool was exhausted is not queued again when a port becomes free, and an edit of the Egg
queues nobody (`gatewayexposure_controller.go:166`; `FreedLast` and `NothingLeft` set them aside); a
resent invitation has its link replaced before the mail is sent (`invitations.go:117`); the cleanup
script treats a failing `restic snapshots` as nothing to prune (`backup/job.go:125`); the name
stored for the platform's guild may be another guild's, as they are two settings (`discordbot.go:193`).

## Proofs

All theorems hold for every value of the constants that satisfies the modules' assumptions, and
those the list names. Each `TypeCorrect` says that every reachable state is well typed; the others
rest on it. An invariant below is what makes the property inductive; where it has several parts,
each is proved from the ones before it.

**`OperatorProofs`**, of `GameServer`

* `LastCrashLogged` (the status names no crash later than the one in the log) and `CrashBudget`
  (`RestartsBounded`: fewer than `Limit` crashes of one window are answered with a restart between
  two Starts). The decision is taken on a stale copy, recorded in a conditional update and carried
  out later, so the property is far from inductive. `PodCopies`: no copy of the Pod knows of an exit
  the Pod has not come to. `ServerCopies`: copies marked fresh are the object. `Times`: no recorded
  crash is newer than the exit at hand or than the saved log. `Budget`: every crash answered
  with a restart is still counted by any copy a decision could be based on, or has left the window.
* `CrashesLogged` (`CrashLogged`), from `PodKnown`: copies of the Pod that exist at once tell of one
  end, and a crash that is past the log step is the one in the crash log.
* `NoGameEndedUnasked` (`NoUnaskedKill`), from `Asked`: the cache is no newer than the object in
  what was asked, and newer than nothing the Pod was built from.
* `StaysDown` (`DownForGood`), from `Down`: the dead Pod of a server that went down for good stays,
  because every copy the operator may read leads it to the same decision (`Waiting`).
* `NoWakeUpLost` (`AtRest`): a controller with no reconcile, key or timer left and caches that have
  caught up has served the spec. That is the safety half of `Converges`, for any policy and any
  number of faults; that it comes to rest needs fairness. `Attended`: while no event is on its way,
  a running reconcile works on what there is, and one that ended left nothing to do, or a timer. It
  needs `NoReturn`: the Pod is never again what the cache had of it, so that a change is an event.

and of `Tenancy`, for any names and quotas and any number of requests at a time:

* `OrgTypeCorrect`, with `Fencing`: a pass puts the fences in their order.
* `QuotaHolds` (`WithinQuota`), from `Quoted`: no quota that is kept anywhere (in the Tenant, by a pass,
  in the namespace) is above the largest, and who may create in the namespace meets the quota there.
* `HalvesTogether` (`NothingLingers`). `Held`: a namespace that stays has its Tenant, with the
  finalizer on it, and so has a pass that has got past the finalizer. `Halves`: while a request is between row and Tenant there is no Tenant
  to stay, and of those that make an organization there is one; it needs that a request is always at a
  step of its own handler (`AllOnCourse`).
* `ActiveMeansFenced` (`ActiveIsFenced`): an Active Tenant that stays has a namespace of its own with
  quota and binding, the safety half of `Provisioned`. `PassFences`: a pass at the fences has the
  namespace and those it put up; nobody deletes it meanwhile, by `Held`.
* `GrantsFollow` (`GrantsOfServer`). `Numbers`: what is to come has a number of its own. `Meant`: the
  server a grant of the row means stands, or its grants are about to be dropped, and the server that a
  request about to grant has seen stands, unless a deletion came in between.

The attempt to prove `GrantsFollow` showed that `GrantsOfServer` was wrong beyond the bounds of its run:
with a sixth request, TLC finds a server that goes with its namespace, or is deleted by a request that
had read the row of an earlier organization, while a grant of the new row means it. Neither drops that
grant. The property sets both aside now, as its comment says.

**`StorageProofs`**, of `Restore`

* `LockedIsStopped` (`RestoringStopped`, from the admission rule alone) and `LocksFirst`
  (`LockFirst`, assuming `CaughtUp`: a worker at `create` holds the lock, `LockKnown`).
* `LocksKept` (`LockKept`, assuming `CaughtUp`), from `Owned` (the lock is taken for a restore that
  is to run and given up before that one is done) and `Held` (of restores that follow one another
  only the one in progress writes).
* `AllSettled` (`Settled`, assuming `CaughtUp`), from `Attended`: a restore that is to run, or to go,
  is in the queue, in hand, or not yet seen.

and of `Destinations`, for any servers and buckets and any number of requests at a time:

* `PlanTypeCorrect`.
* `KeysFit` (`OneKey`), from `RepoInv`: a password is never drawn twice, and while the connection is
  not deleted every repository that was initialised has the password of its Secret.
* `LimitsHold` (`LimitsKept`), from `Bounded`: the backups that count and the requests about to make
  one are together at most the limit, the number of others at a time, and what a cache `missed`.
* `ReferencesHold` (`ReferencesKept`), from `Referred`: what a request has found to be unused, or to be
  on the list, still is when it writes, or another's write has `crossed` it, and writing sets `raced`.

**`BackupProofs`**

* `SentOnce` (`BeforeOnce`, with or without `CaughtUp`), from `SendInv`: nothing is sent before a Pod
  is recorded, and a worker about to send has recorded it in an update that was not refused.
* `AllSettled` (`Settled`, with or without `CaughtUp`), from `Attended` and `Paused`: a Pod that does
  not save has a backup that owes it an After, and that debt is dropped only when it saves or is gone.
* `QuietKept` (`QuietWhileCopying`, assuming `CaughtUp`) adds `Copied` (a Job at work copies for a
  backup that is not over), `Alone` (of backups one after the other, one is active) and `Quiet`.
* `PrunedFirst` (`PruneFirst`, assuming `CaughtUp`), from `Pruned`: a cleanup Job, or a cached copy
  of one, is of a completed backup, and the snapshot is gone when it has succeeded.

What `CaughtUp` means for a backup (`OwnWritesSeen`): of one that exists, the copy differs by a
user's deletion at most; of one that is gone, the copy has no finalizer, which only the operator takes
off. The second case had to be told apart for the proof of `PrunedFirst`.

**`ScheduleProofs`**

* `NewestKept` (`KeepsNewest`, with caches however stale): `CopyInv` says that a cached backup is an
  earlier state of the backup, `DoomedInv` that what a reconcile chose to delete, and the `KeepLast`
  newer ones it counted, are still those.
* `NothingSleptThrough` (`Awake`, with caches however stale), from `Progress` (a reconcile that comes
  to the patch unchanged had nothing to do) and `AwakeInv` (with nothing queued, either a change is
  still to be seen, or there was nothing to do and the timer is set). It needs that the first fire
  time after an instant is a multiple of `Period`, proved from the definition of division.
* `RecordedWorkOnce` (`RecordedOnce`, with caches however stale). `StatusKnown`: a reconcile that
  began with the last status still has it when it patches, as the one worker is its only writer.
  `Ordered`: the last fire time and request recorded never go back, even by a patch made from an old
  copy. `RanInv`: what was carried out lies behind the task the status, and the copy of a worker that
  read the last one, is at; an old copy's run was triggered by something recorded, too.
* `RoomForBackups` (`RoomForNext`, with caches however stale). `Uncrowded`: leaving out the newest,
  fewer of the schedule's backups than `Limit` count, as the newest was made when there was room,
  unless its list missed another (`blind`). When the newest is Completed and nothing is to be
  rotated, no more than `KeepLast` count (`FewGreater`); otherwise the newest has failed, or goes,
  and does not count.

**`ExposureProofs`**

* `PortsGivenOnce` (`PortsDistinct`, with caches however stale), from `PortsInv`: a copy marked fresh
  has the ports of the object, and while a worker's copy is current, the ports it is about to write
  are pairwise distinct and nobody else's. `AddressKept` (`AddressStable`) needs that the names a
  worker goes by hold the lasting ones.
* `RoutesFirst` (`FreedLast`, assuming `CaughtUp`), from `Swept`: until it has pruned, the worker
  knows all routes of its server that have to go.
* `NothingHalfDone` (`NothingLeft`, assuming `CaughtUp`), from `LeftInv` (a server is as it should be,
  or will be reconciled, or a reconcile on the latest copy has got that far) and `GatewayInv` (the
  Gateway has the listeners of all servers, or somebody is to write them).

**`PanelProofs`**, of `Membership`

* `OrganisationKeepsOwner`, `PlatformKeepsAdmin`, and from both `SomebodyInCharge` (`InCharge`);
  `LinksOnce`; `OwnersFromOwners` (`OwnersMadeByOwners`), for any number of people and of requests at
  a time. `OwnerInv` says that one request holds the organisation's lock and that what it has counted
  still holds when it writes (`LeavesAnother`), and that a deletion without the lock is of nobody who
  owns, or `late` is set. `AdminInv`: the rows a demotion has locked are administrators still.
  `LinkInv`: links are fresh and not shared, and a request that lets somebody in holds the invitation
  alone. `GivenInv`: a request or invitation that gives ownership is an owner's.

and of `Discord`: `BotTypeCorrect`; `OneForEach` (an account speaks for one user, a guild for one
organisation); `StaysSuspended` (`SuspendedStays`), as what is saved is the server that was read with
one change, and nobody has written it since; `CommandsComeTo` (`CommandsThere`), as each step of the
callback that stored the guild keeps it `Pending`, registers, or is one of the events that excuse it.

**`LoginProofs`**

* `LinkOnce`, `RecoveryCodeOnce`, `ChallengeOnce` (each kind of row, seen through its mapping,
  implements `SingleUse`: initial states map to initial states, every step to a step or a stutter),
  `TotpOnce`, and from them `TokensOnce` (`TokensSingleUse`). A request refers to rows that were made
  (`Typed`), a row is used only when it is over (`Lives`), what was accepted is not accepted again
  because the last step only grows (`OnceInv`), and a challenge consumed and not yet a session is
  held by one request, which no other reaches (`ChallengeInv`).
* `GuessesLimited` (`GuessesBounded`), from `GuessInv`: the counter lags behind by the requests that
  have answered and not counted, and together with those past the limiter it is bounded. It is about
  the requests that ask the limiter, which `confirmIdentity` does not.
* `OldClosed` (`OldGone`), from `SessionsInv` (a reset about to commit has found every live session
  but those made `late`, `FoundAll`) and `LinksInv` (a request that issues a link has found every good
  one of its kind, unless two issue at once). That a link claimed by a reset is used once, whatever
  its four statements meet, is `ClaimsInv`: nobody else has it, locked or claimed.

**`DeliveryProofs`**, of `Notify`, assumes what the code's constants meet: the window is not empty
(15 minutes, `notifier.go:23`), a claim outlasts it and the longest round (`Window + MaxRound < Ttl`,
24 hours), and a Panel is not an alert (`WorkersAssumption`, as both have a worker).

* `Announced` (`AnnouncedOnce`), from `IInv`: as long as a worker could still act on an occurrence,
  the claim of whoever announced it is there; one that finds the claim free is the first.
* `NoneLost` (`NoneMissed`), from `MissInv`: what is owed is in the window, and in its last unit of
  time every round that began then has it before itself, so none is over (`LastRound`). A Tenant that
  is not Active is a reason, and what it hid is owed again when it comes back in time.

and of `Mods`, for any catalog, any directory, and any number of requests at a time:

* `ModsTypeCorrect`, `JarsWhole` (`WholeJars`), `FlaggedHolds` (`Flagged`) and `OwedKept` (the half of
  `Delivered` about what was answered). `AllSane`: a request is at a step of its own handler, means
  every file it touches, and has one open only to write to it. `Clashes`: names that two requests
  mean at once are in `clash`. So the temporary file of a request that did not clash has what it
  wrote (`Temporaries`), no jar that did not clash is open (`Whole`), what a request wrote and will
  not replace is there (`AllRemain`), and so is what is owed, which nobody means (`Paid`). A call
  keeps the part of the others because it touches only names that its request means (`Local`).
  `Asks`: while a server runs with older mods and nothing asks for a restart, a request that changed
  a file is not over.
* `DeliveredHolds` (`Delivered`), from `AllFulfil`: the versions an install means to leave there cover
  what they require, among themselves or by jars it does not replace. That a plan does so from the
  beginning (`PlanCovers`) is a fact about `Resolve` and `WithJars`: a chain of requirements through
  the plan passes levels one at a time (`LeadsThrough`), as a version not chosen by the levels is of a
  project that nothing chosen or present has (`WithJarsAdds`), and a present project's jar is
  replaced only by its own (`Conflicts`).

`Resolve` and `WithJars` are defined by recursion, so this needs induction. The induction theorems of
the library take an operator as a parameter, which the provers cannot instantiate; instead,
`LeastNumber` (every set of numbers has a least one) is proved from `WFMin` and
`NatLessThanWellFounded`, and an induction is the absence of a least counterexample. The levels and
the rounds are shown to exist in this way (`LevelsThere`, `JarRoundsThere`) before anything is said
of them.

The attempts at these proofs showed where the model and its properties were wrong beyond the bounds
of the run. With three requests, a file a `RenameFile` moves takes a clash of its old name to the new
one, which `clash` did not record. An answer promised a name that its install had given to two
versions. And `Complete` asked for the requirements of versions reached through what was there
before, which `ResolveInstall` does not follow, so that a catalog deeper than the run's violates it.

Only model-checked: liveness (`Converges`, `Provisioned`), which is out of the prover's reach with
what `ENABLED` stands for; of these, `NoWakeUpLost` and `ActiveMeansFenced` prove what holds once they
are there. Every invariant and action property of the runs is proved. No module declares a RECURSIVE
operator.

## Not modelled

* The catalog of Eggs, the mailer, samplers, the audit log, console and log streams, set-up, charts
  and the web client: single reads and writes, formatting or streams, with reasons in
  `PROJECT.json`. Console tickets are single-use tokens too, taken by one Redis call.
* Within the controllers: PVC, Service, ConfigMap and image checks (a failure of theirs is a
  reconcile that fails), Pod templates, messages and conditions that nothing reads, metrics, objects
  of an invalid spec, and the deletion of a schedule.
* Within the Panel: profiles, the two-factor requirement of an organisation, paths and archives of
  the file manager, the search and the caches of the mod sources, the bot's gateway connection,
  its autocompletion and its commands that only read.
* Generated code, the API types' helpers (pure functions of one object, with table tests), and the
  predicates of one object in the webhooks.

## Plan

1. Composition of `GameServer` and `Restore` over one volume: the Pod that is still saving and the
   Job that writes.
2. Two backups at a time in `Backup`, and the schedules of one server together.
