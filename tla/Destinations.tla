----------------------------- MODULE Destinations -----------------------------
(***************************************************************************)
(* Where the backups of an organization go (internal/panelapi/backups.go,  *)
(* internal/backupplan/plan.go and internal/backup/job.go): its own        *)
(* connection, a Secret with a list of buckets, or the platform's storage, *)
(* with limits and a copy of the platform's Secret.  Each Secret has a     *)
(* restic password of its own, and a repository opens only with the one it *)
(* was initialized with.                                                   *)
(*                                                                         *)
(* Requests are handled concurrently; one step is one call to the cluster. *)
(* The schedules of the operator, whose one worker plans like the Panel,   *)
(* count the backups in the manager's cache (cmd/main.go), which may miss  *)
(* new ones.  Its copies of servers and Secrets may be old as well: such a *)
(* backup is one whose request was slow after reading them.  A repository  *)
(* is one place and one server: prefixes that meet are left out.  How a    *)
(* backup runs is in Backup.                                               *)
(***************************************************************************)
EXTENDS Integers, FiniteSets

CONSTANTS
  Servers,       \* the game servers
  Buckets,       \* that a connection may list
  MaxPerServer,  \* the limits on the platform's storage
  MaxPerOrg,
  AtOnce,        \* bound: requests handled at a time
  MaxRequests    \* bound: requests

ASSUME LimitsAssumption == MaxPerServer \in Nat /\ MaxPerOrg \in Nat
ASSUME BoundsAssumption == AtOnce \in Nat \ {0} /\ MaxRequests \in Nat
ASSUME NamesAssumption == {"platform", "none", "absent"} \cap Buckets = {}

VARIABLES
  conn,      \* the connection: its password (0: there is none) and buckets
  own,       \* the password in the copy of the platform's Secret, 0 if there is none
  target,    \* of each server: where its backups go; "absent": it is not created
  backups,   \* the backups, with the password each was stored with, and whether
             \* the operator's cache has it, if it counts
  repo,      \* of each place and server: the password of its repository, 0 if there is none
  req,       \* the requests being handled
  made,      \* how many passwords and backups there were
  requests,
  marks      \* history: what the properties are about, or set aside

secrets == <<conn, own>>
planVars == <<conn, own, target, backups, repo, req, made, requests, marks>>

Slots == 1..AtOnce
Places == Buckets \cup {"platform"}
BackupPhases == {"Pending", "Completed", "Failed", "Refused"}
Ops == {"none", "backup", "run", "put", "drop", "target"}
PCs == {"idle", "get", "count", "secret", "make", "connection", "create", "read", "users", "write",
        "backups", "delete", "validate", "update"}

NoConnection == [key |-> 0, buckets |-> {}]
NoRequest == [op |-> "none", pc |-> "idle", server |-> "none", to |-> "none", buckets |-> {},
              saw |-> NoConnection, fresh |-> FALSE, crossed |-> FALSE]

(* A new organization.                                                      *)
PlanInit ==
  /\ conn = NoConnection /\ own = 0
  /\ target = [n \in Servers |-> "absent"]
  /\ backups = {}
  /\ repo = [at \in Places \X Servers |-> 0]
  /\ req = [s \in Slots |-> NoRequest]
  /\ made = [keys |-> 0, backups |-> 0]
  /\ requests = 0
  /\ marks = [checked |-> {}, raced |-> FALSE, dropped |-> FALSE, missed |-> 0]

------------------------------------------------------------------------------
Goes(s, pc) == req' = [req EXCEPT ![s].pc = pc]
Ends(s) == req' = [req EXCEPT ![s] = NoRequest]
(* A write ends the request, and others are late: what these have read is    *)
(* old, and those have checked something that may no longer be true.         *)
EndsWriting(s, old, crossed) == req' = [t \in Slots |->
  IF t = s THEN NoRequest ELSE [req[t] EXCEPT !.fresh = @ /\ t \notin old,
                                              !.crossed = @ \/ t \in crossed]]
Key(to) == IF to = "platform" THEN own ELSE conn.key

(* A request takes the first free slot.                                     *)
Begin(s, r) ==
  /\ req[s].pc = "idle" /\ requests < MaxRequests
  /\ \A t \in Slots : t < s => req[t].pc # "idle"
  /\ requests' = requests + 1
  /\ req' = [req EXCEPT ![s] = r]
  /\ UNCHANGED <<secrets, target, backups, repo, made, marks>>

Created == {n \in Servers : target[n] # "absent"}
RequestBackup(s) == \E n \in Created :
  Begin(s, [NoRequest EXCEPT !.op = "backup", !.pc = "get", !.server = n])
RequestRun(s) == \E n \in Created :
  /\ \A t \in Slots : req[t].op # "run"
  /\ Begin(s, [NoRequest EXCEPT !.op = "run", !.pc = "get", !.server = n])
RequestPut(s) == \E bs \in (SUBSET Buckets) \ {{}} :
  Begin(s, [NoRequest EXCEPT !.op = "put", !.pc = "read", !.buckets = bs])
RequestDrop(s) == Begin(s, [NoRequest EXCEPT !.op = "drop", !.pc = "users"])
RequestTarget(s) == \E n \in Created, to \in Places \cup {"none"} :
  Begin(s, [NoRequest EXCEPT !.op = "target", !.pc = "get", !.server = n, !.to = to])

(* handleCreateGameServer: whatever target the request names is stored.     *)
CreateServer == \E n \in Servers \ Created, to \in Places \cup {"none"} :
  /\ target' = [target EXCEPT ![n] = to]
  /\ UNCHANGED <<secrets, backups, repo, req, made, requests, marks>>

------------------------------------------------------------------------------
(* handleCreateBackup, and backup of the operator's schedules: the server   *)
(* is read, the backup planned and created.                                 *)
(* applyGameServerUpdate: the server is read, the target checked, and the   *)
(* server written if nobody wrote it since.                                 *)
ReadServer(s) ==
  LET n == req[s].server IN
  /\ req[s].pc = "get"
  /\ IF req[s].op = "target" THEN req' = [req EXCEPT ![s].pc = "validate", ![s].fresh = TRUE]
     ELSE IF target[n] \notin Places THEN Ends(s)
     ELSE req' = [req EXCEPT ![s].to = target[n],
                             ![s].pc = IF target[n] = "platform" THEN "count" ELSE "connection"]
  /\ UNCHANGED <<secrets, target, backups, repo, made, requests, marks>>

(* Plan, on the platform's storage.  What is gone and still in the cache    *)
(* only makes the operator stop.                                            *)
CountsForLimits(b) == b.to = "platform" /\ b.phase \notin {"Failed", "Refused"} /\ ~b.deleting
Counted == {b \in backups : CountsForLimits(b)}
OfServer(n, counted) == {b \in counted : b.server = n}
KnownTo(s) == {b \in Counted : req[s].op = "run" => b.seen}
(* A mutant: one more than the limit.                                       *)
HasOneMore(n, counted) ==
  Cardinality(OfServer(n, counted)) <= MaxPerServer /\ Cardinality(counted) <= MaxPerOrg
HasRoom(n, counted) ==
  Cardinality(OfServer(n, counted)) < MaxPerServer /\ Cardinality(counted) < MaxPerOrg
CountBackups(s) ==
  /\ req[s].pc = "count"
  /\ IF HasRoom(req[s].server, KnownTo(s))
     THEN /\ Goes(s, "secret")
          /\ marks' = [marks EXCEPT !.missed =
               IF @ < Cardinality(Counted \ KnownTo(s)) THEN Cardinality(Counted \ KnownTo(s)) ELSE @]
     ELSE Ends(s) /\ UNCHANGED marks
  /\ UNCHANGED <<secrets, target, backups, repo, made, requests>>

(* ensurePlatformBackupSecret.                                              *)
ReadSecret(s) ==
  /\ req[s].pc = "secret"
  /\ Goes(s, IF own = 0 THEN "make" ELSE "create")
  /\ UNCHANGED <<secrets, target, backups, repo, made, requests, marks>>
(* A mutant: the Secret is written whoever made it since.                   *)
MakeSecretAnyway(s) ==
  /\ req[s].pc = "make"
  /\ own' = made.keys + 1
  /\ made' = [made EXCEPT !.keys = @ + 1]
  /\ Goes(s, "create")
  /\ UNCHANGED <<conn, target, backups, repo, requests, marks>>
MakeSecret(s) ==
  /\ req[s].pc = "make"
  /\ IF own # 0 THEN Ends(s) /\ UNCHANGED <<own, made>>
     ELSE /\ own' = made.keys + 1
          /\ made' = [made EXCEPT !.keys = @ + 1]
          /\ Goes(s, "create")
  /\ UNCHANGED <<conn, target, backups, repo, requests, marks>>

(* Plan, through the connection.                                            *)
ReadConnection(s) ==
  /\ req[s].pc = "connection"
  /\ IF conn.key = 0 \/ req[s].to \notin conn.buckets THEN Ends(s) ELSE Goes(s, "create")
  /\ UNCHANGED <<secrets, target, backups, repo, made, requests, marks>>

(* Create, with a suffix if there was one in the same second.  A request    *)
(* that is about to delete the connection has not seen it.                  *)
Deleting == {t \in Slots : req[t].pc = "delete"}
CreateBackup(s) ==
  /\ req[s].pc = "create"
  /\ backups' = backups \cup {[id |-> made.backups + 1, server |-> req[s].server, to |-> req[s].to,
                               phase |-> "Pending", key |-> 0, deleting |-> FALSE,
                               seen |-> req[s].to # "platform"]}
  /\ made' = [made EXCEPT !.backups = @ + 1]
  /\ EndsWriting(s, {}, IF req[s].to \in Buckets THEN Deleting ELSE {})
  /\ UNCHANGED <<secrets, target, repo, requests, marks>>

ValidateTarget(s) ==
  LET to == req[s].to IN
  /\ req[s].pc = "validate"
  /\ IF to \in Buckets /\ (conn.key = 0 \/ to \notin conn.buckets) THEN Ends(s) ELSE Goes(s, "update")
  /\ UNCHANGED <<secrets, target, backups, repo, made, requests, marks>>
Removing == {t \in Slots : req[t].pc \in {"write", "backups", "delete"}}
UpdatingToo(n) == {t \in Slots : req[t].op = "target" /\ req[t].server = n}
UpdateTarget(s) ==
  LET n == req[s].server IN
  /\ req[s].pc = "update"
  /\ IF req[s].fresh
     THEN /\ target' = [target EXCEPT ![n] = req[s].to]
          /\ marks' = [marks EXCEPT !.checked = @ \cup {n}, !.raced = @ \/ req[s].crossed]
          /\ EndsWriting(s, UpdatingToo(n), Removing)
     ELSE UNCHANGED <<target, marks>> /\ Ends(s)
  /\ UNCHANGED <<secrets, backups, repo, made, requests>>

------------------------------------------------------------------------------
(* handlePutBackupConnection: a bucket that is used cannot be dropped from  *)
(* the list; the Secret is created, or written if nobody wrote it since.    *)
Removed(s) == req[s].saw.buckets \ req[s].buckets
Putting == {t \in Slots : req[t].op = "put"}
Validated == {t \in Slots : req[t].pc = "update"}
Raced(s, taken) == [marks EXCEPT !.raced = @ \/ (taken # {} /\ req[s].crossed)]
Use(bs) == \E n \in Servers : target[n] \in bs

ReadPut(s) ==
  /\ req[s].pc = "read"
  /\ req' = [req EXCEPT ![s].saw = conn, ![s].fresh = TRUE,
                        ![s].pc = IF conn.buckets \subseteq req[s].buckets THEN "write" ELSE "users"]
  /\ UNCHANGED <<secrets, target, backups, repo, made, requests, marks>>
CheckRemoved(s) ==
  /\ req[s].pc = "users" /\ req[s].op = "put"
  /\ IF Use(Removed(s)) THEN Ends(s) ELSE Goes(s, "write")
  /\ UNCHANGED <<secrets, target, backups, repo, made, requests, marks>>
CreateConnection(s) ==
  /\ req[s].pc = "write" /\ req[s].saw.key = 0
  /\ IF conn.key # 0 THEN UNCHANGED <<conn, made>> /\ Ends(s)
     ELSE /\ conn' = [key |-> made.keys + 1, buckets |-> req[s].buckets]
          /\ made' = [made EXCEPT !.keys = @ + 1]
          /\ EndsWriting(s, Putting, {})
  /\ UNCHANGED <<own, target, backups, repo, requests, marks>>
UpdateConnection(s) ==
  /\ req[s].pc = "write" /\ req[s].saw.key # 0
  /\ IF ~req[s].fresh THEN UNCHANGED <<conn, marks>> /\ Ends(s)
     ELSE /\ conn' = [conn EXCEPT !.buckets = req[s].buckets]
          /\ marks' = Raced(s, Removed(s))
          /\ EndsWriting(s, Putting, Validated)
  /\ UNCHANGED <<own, target, backups, repo, made, requests>>

(* handleDeleteBackupConnection: no server sends its backups there, and no  *)
(* backup lives there, being deleted or not.                                *)
CheckUsers(s) ==
  /\ req[s].pc = "users" /\ req[s].op = "drop"
  /\ IF Use(Buckets) THEN Ends(s) ELSE Goes(s, "backups")
  /\ UNCHANGED <<secrets, target, backups, repo, made, requests, marks>>
(* A mutant: backups that are being deleted are not counted.                *)
CheckLiveBackups(s) ==
  /\ req[s].pc = "backups"
  /\ IF \E b \in backups : b.to \in Buckets /\ ~b.deleting THEN Ends(s) ELSE Goes(s, "delete")
  /\ UNCHANGED <<secrets, target, backups, repo, made, requests, marks>>
CheckBackups(s) ==
  /\ req[s].pc = "backups"
  /\ IF \E b \in backups : b.to \in Buckets THEN Ends(s) ELSE Goes(s, "delete")
  /\ UNCHANGED <<secrets, target, backups, repo, made, requests, marks>>
DeleteConnection(s) ==
  /\ req[s].pc = "delete"
  /\ conn' = NoConnection
  /\ marks' = [Raced(s, conn.buckets) EXCEPT !.dropped = TRUE]
  /\ EndsWriting(s, Putting, Validated)
  /\ UNCHANGED <<own, target, backups, repo, made, requests>>

------------------------------------------------------------------------------
(* The Job of a backup: "restic init" makes the repository if there is      *)
(* none, and the copy fails if its password is another, or for any reason.  *)
Becomes(b, phase, key) == backups' = (backups \ {b}) \cup {[b EXCEPT !.phase = phase, !.key = key]}
Store == \E b \in backups :
  LET at == <<b.to, b.server>> key == Key(b.to) IN
  /\ b.phase = "Pending" /\ key # 0
  /\ repo' = [repo EXCEPT ![at] = IF @ = 0 THEN key ELSE @]
  /\ Becomes(b, IF repo'[at] = key THEN "Completed" ELSE "Refused", key)
  /\ UNCHANGED <<secrets, target, req, made, requests, marks>>
BackupFails == \E b \in backups :
  /\ b.phase = "Pending" /\ Becomes(b, "Failed", 0)
  /\ UNCHANGED <<secrets, target, repo, req, made, requests, marks>>

(* handleDeleteBackup, and the operator when it has expired.                *)
RemoveBackup == \E b \in backups :
  /\ ~b.deleting /\ requests < MaxRequests
  /\ requests' = requests + 1
  /\ backups' = (backups \ {b}) \cup {[b EXCEPT !.deleting = TRUE]}
  /\ UNCHANGED <<secrets, target, repo, req, made, marks>>
(* The backup goes when its snapshots are pruned, if it has any; the Job    *)
(* needs the Secret to start.                                               *)
Clean == \E b \in backups :
  /\ b.deleting /\ (b.phase = "Completed" => Key(b.to) # 0)
  /\ backups' = backups \ {b}
  /\ UNCHANGED <<secrets, target, repo, req, made, requests, marks>>

(* The watch of the operator's cache brings the next backup.                *)
SeeBackup == \E b \in backups :
  /\ ~b.seen /\ \A c \in backups : c.id < b.id => c.seen
  /\ backups' = (backups \ {b}) \cup {[b EXCEPT !.seen = TRUE]}
  /\ UNCHANGED <<secrets, target, repo, req, made, requests, marks>>

Handle(s) ==
  \/ RequestBackup(s) \/ RequestRun(s) \/ RequestPut(s) \/ RequestDrop(s) \/ RequestTarget(s)
  \/ ReadServer(s) \/ CountBackups(s) \/ ReadSecret(s) \/ MakeSecret(s) \/ ReadConnection(s)
  \/ CreateBackup(s) \/ ValidateTarget(s) \/ UpdateTarget(s)
  \/ ReadPut(s) \/ CheckRemoved(s) \/ CreateConnection(s) \/ UpdateConnection(s)
  \/ CheckUsers(s) \/ CheckBackups(s) \/ DeleteConnection(s)
PlanNext ==
  \/ \E s \in Slots : Handle(s)
  \/ CreateServer \/ Store \/ BackupFails \/ RemoveBackup \/ Clean \/ SeeBackup
PlanSpec == PlanInit /\ [][PlanNext]_planVars

------------------------------------------------------------------------------
Marks == [checked : SUBSET Servers, raced : BOOLEAN, dropped : BOOLEAN, missed : Nat]
Backup == [id : Nat, server : Servers, to : Places, phase : BackupPhases, key : Nat, deleting : BOOLEAN,
           seen : BOOLEAN]
Request == [op : Ops, pc : PCs, server : Servers \cup {"none"}, to : Places \cup {"none"}, buckets : SUBSET Buckets,
            saw : [key : Nat, buckets : SUBSET Buckets], fresh : BOOLEAN, crossed : BOOLEAN]
PlanTypes ==
  /\ conn \in [key : Nat, buckets : SUBSET Buckets] /\ own \in Nat
  /\ target \in [Servers -> Places \cup {"none", "absent"}]
  /\ backups \subseteq Backup /\ IsFiniteSet(backups)
  /\ repo \in [Places \X Servers -> Nat]
  /\ req \in [Slots -> Request]
  /\ made \in [keys : Nat, backups : Nat]
  /\ requests \in Nat
  /\ marks \in Marks

(* What a stored backup was encrypted with is there to restore and to clean *)
(* it with.                                                                 *)
Keyed == ~marks.raced => \A b \in backups : b.phase = "Completed" => b.key = Key(b.to)

(* A bucket that a validated update chose for a server is on the list; what *)
(* the request that created the server chose is not validated.              *)
TargetsListed == ~marks.raced =>
  \A n \in marks.checked : target[n] \in Buckets => target[n] \in conn.buckets

(* What updates of servers and stored backups refer to is still there, but  *)
(* for two orders of the calls: a backup was made or a target written       *)
(* between the check for users and the write that removed the bucket or the *)
(* connection, or this write came between the validation of a target and    *)
(* its own.  Every other overlap of requests keeps it.                      *)
ReferencesKept == Keyed /\ TargetsListed

(* The limits are counted before a backup is made: as many more may be made *)
(* as there were others handled at that time, and as many as the operator's *)
(* cache once missed when it counted, and no more.                          *)
LimitsKept ==
  /\ Cardinality(Counted) <= MaxPerOrg + AtOnce - 1 + marks.missed
  /\ \A n \in Servers :
       Cardinality(OfServer(n, Counted)) <= MaxPerServer + AtOnce - 1 + marks.missed

(* A repository meets one password only, however many planners and requests *)
(* make its Secret at once, as long as the connection is not deleted.       *)
OneKey == \A b \in backups : b.phase = "Refused" => b.to # "platform" /\ marks.dropped
==============================================================================
