------------------------------- MODULE Tenancy -------------------------------
(***************************************************************************)
(* An organization, from its row to its namespace                          *)
(* (internal/panelapi/{orgs,quota,gameservers,members}.go,                 *)
(* internal/paneldb/{orgs,permissions}.go and                              *)
(* internal/controller/tenant_{controller,resources}.go): the Panel makes  *)
(* and deletes its row and its Tenant, the operator its namespace and what *)
(* fences it, and the members its game servers.                            *)
(*                                                                         *)
(* There is one slug, and one member whose grants are followed.  Requests  *)
(* are handled concurrently; one step is one statement or one call to the  *)
(* cluster.  The operator has one worker for the Tenant.  Rows, Tenants    *)
(* and servers are numbered as they are made, as nothing else tells two of *)
(* the same name apart.                                                    *)
(***************************************************************************)
EXTENDS Integers, Sequences, FiniteSets

CONSTANTS
  AtOnce,       \* bound: requests handled at a time
  Names,        \* of game servers
  Quotas,       \* the numbers of servers a Tenant may be given
  Begun,        \* bound: those it may be created with
  MaxRequests,  \* bound: requests
  MaxFaults     \* bound: calls that fail, and requests that are cut off

(* An idle slot holds some name.                                            *)
ASSUME NamesAssumption == Names # {}
ASSUME QuotasAssumption == Quotas \subseteq Nat /\ Begun \subseteq Quotas
ASSUME OrgBoundsAssumption == MaxRequests \in Nat /\ MaxFaults \in Nat /\ AtOnce \in Nat \ {0}

VARIABLES
  org,        \* the row: its number, 0 if there is none
  tenant,     \* the Tenant of the slug: its number (0: none), deletion, finalizer, quota, phase
  space,      \* the namespace: the Tenant that owns it (0: none), deletion, what was put in it
  servers,    \* in it, of each name: its number (0: none), and deletion
  grants,     \* of the member: the row, the server's name, and history: the server meant
  req,        \* the requests being handled
  rec,        \* the operator's pass
  made,       \* how many rows, Tenants and servers there were
  requests, faults,
  marks       \* history: what the properties set aside, and the largest quota

store == <<org, grants>>
cluster == <<tenant, space, servers>>
orgVars == <<org, tenant, space, servers, grants, req, rec, made, requests, faults, marks>>

Slots == 1..AtOnce
Fences == <<"quota", "binding">>
TenantPhases == {"Pending", "Failed", "Active", "Terminating"}
Ops == {"none", "org", "unorg", "server", "unserver", "grant"}
PCs == {"idle", "row", "tenant", "undo", "list", "delete", "unrow", "quota", "create", "remove",
        "drop", "check", "set"}
Passes == {"idle", "finalizer", "space", "fence", "active", "failed", "list", "sweep", "unfinalize"}

NoTenant == [id |-> 0, deleting |-> FALSE, held |-> FALSE, quota |-> 0, phase |-> "Pending"]
NoSpace == [owner |-> 0, ending |-> FALSE, has |-> {}, hard |-> 0]
NoServer == [id |-> 0, going |-> FALSE]
NoRequest == [op |-> "none", pc |-> "idle", row |-> 0, name |-> CHOOSE n \in Names : TRUE,
              quota |-> 0, saw |-> 0, late |-> FALSE]
NoPass == [pc |-> "idle", id |-> 0, quota |-> 0, done |-> 0, fresh |-> FALSE]

(* No organization yet.                                                     *)
OrgInit ==
  /\ org = 0
  /\ tenant = NoTenant /\ space = NoSpace
  /\ servers = [n \in Names |-> NoServer]
  /\ grants = {}
  /\ req = [s \in Slots |-> NoRequest]
  /\ rec = NoPass
  /\ made = [orgs |-> 0, tenants |-> 0, servers |-> 0]
  /\ requests = 0 /\ faults = 0
  /\ marks = [broken |-> FALSE, crossed |-> FALSE, stale |-> {}, largest |-> 0]

------------------------------------------------------------------------------
There == {n \in Names : servers[n].id # 0}
Goes(s, pc) == req' = [req EXCEPT ![s].pc = pc]
Ends(s) == req' = [req EXCEPT ![s] = NoRequest]
(* The Tenant was written: what the operator read of it is old.             *)
Written == rec' = [rec EXCEPT !.fresh = FALSE]

(* A creation and a deletion are under way at once.                         *)
Crosses(s) == \E t \in Slots : {req[s].op, req[t].op} = {"org", "unorg"}
Crossing(s) == [marks EXCEPT !.crossed = @ \/ Crosses(s)]

(* A request takes the first free slot.                                     *)
Begin(s, r) ==
  /\ req[s].pc = "idle" /\ requests < MaxRequests
  /\ \A t \in Slots : t < s => req[t].pc # "idle"
  /\ requests' = requests + 1
  /\ req' = [req EXCEPT ![s] = r]
  /\ UNCHANGED <<store, cluster, rec, made, faults, marks>>
(* Every route of an organization reads its row first.                      *)
BeginIn(s, op, pc, n) ==
  org # 0 /\ Begin(s, [NoRequest EXCEPT !.op = op, !.pc = pc, !.row = org, !.name = n])

RequestOrg(s) == \E q \in Begun :
  Begin(s, [NoRequest EXCEPT !.op = "org", !.pc = "row", !.quota = q])
RequestDeleteOrg(s) == BeginIn(s, "unorg", "list", NoRequest.name)
RequestServer(s) == \E n \in Names : BeginIn(s, "server", "quota", n)
RequestDeleteServer(s) == \E n \in Names : BeginIn(s, "unserver", "remove", n)
RequestGrant(s) == \E n \in Names : BeginIn(s, "grant", "check", n)

------------------------------------------------------------------------------
(* handleCreateOrg: the row, the Tenant, and the row taken back if that     *)
(* fails.                                                                   *)
CreateRow(s) ==
  /\ req[s].pc = "row"
  /\ IF org # 0 THEN Ends(s) /\ UNCHANGED <<org, made>>
     ELSE /\ org' = made.orgs + 1
          /\ made' = [made EXCEPT !.orgs = @ + 1]
          /\ req' = [req EXCEPT ![s].pc = "tenant", ![s].row = org']
  /\ UNCHANGED <<grants, cluster, rec, requests, faults, marks>>

CreateTenant(s) ==
  /\ req[s].pc = "tenant"
  /\ IF tenant.id # 0 THEN Goes(s, "undo") /\ marks' = Crossing(s) /\ UNCHANGED <<tenant, made, rec>>
     ELSE /\ tenant' = [NoTenant EXCEPT !.id = made.tenants + 1, !.quota = req[s].quota]
          /\ made' = [made EXCEPT !.tenants = @ + 1]
          /\ marks' = [Crossing(s) EXCEPT !.largest = IF req[s].quota > @ THEN req[s].quota ELSE @]
          /\ Written /\ Ends(s)
  /\ UNCHANGED <<store, space, servers, requests, faults>>

(* DeleteOrg, by slug: the memberships and the grants of the row go too.    *)
WithoutRow == org' = 0 /\ grants' = {g \in grants : g.row # org}
Undo(s) ==
  /\ req[s].pc = "undo"
  /\ WithoutRow /\ Ends(s)
  /\ marks' = Crossing(s)
  /\ UNCHANGED <<cluster, rec, made, requests, faults>>

(* handleDeleteOrg: nothing may be left, then the Tenant, then the row.     *)
ListOrg(s) ==
  /\ req[s].pc = "list"
  /\ IF There # {} THEN Ends(s) ELSE Goes(s, "delete")
  /\ UNCHANGED <<store, cluster, rec, made, requests, faults, marks>>
DeleteTenant(s) ==
  /\ req[s].pc = "delete"
  /\ tenant' = IF tenant.held THEN [tenant EXCEPT !.deleting = TRUE] ELSE NoTenant
  /\ marks' = Crossing(s)
  /\ Written /\ Goes(s, "unrow")
  /\ UNCHANGED <<store, space, servers, made, requests, faults>>
DeleteRow(s) ==
  /\ req[s].pc = "unrow"
  /\ WithoutRow /\ Ends(s)
  /\ marks' = Crossing(s)
  /\ UNCHANGED <<cluster, rec, made, requests, faults>>

(* handleUpdateQuota: read and written back, or a conflict.                 *)
UpdateQuota ==
  /\ org # 0 /\ tenant.id # 0 /\ requests < MaxRequests
  /\ requests' = requests + 1
  /\ \E q \in Quotas :
       /\ q # tenant.quota
       /\ tenant' = [tenant EXCEPT !.quota = q]
       /\ marks' = [marks EXCEPT !.largest = IF q > @ THEN q ELSE @]
  /\ Written
  /\ UNCHANGED <<store, space, servers, req, made, faults>>

------------------------------------------------------------------------------
(* handleCreateGameServer: the headroom is counted, and then the API        *)
(* server, once the Panel may write there, counts again if it has a quota.  *)
CheckQuota(s) ==
  /\ req[s].pc = "quota"
  /\ IF tenant.id # 0 /\ Cardinality(There) + 1 > tenant.quota THEN Ends(s) ELSE Goes(s, "create")
  /\ UNCHANGED <<store, cluster, rec, made, requests, faults, marks>>
CreateServer(s) ==
  /\ req[s].pc = "create"
  /\ Ends(s)
  /\ IF /\ space.owner # 0 /\ ~space.ending /\ "binding" \in space.has
        /\ "quota" \in space.has => Cardinality(There) < space.hard
        /\ servers[req[s].name].id = 0
     THEN /\ servers' = [servers EXCEPT ![req[s].name] = [id |-> made.servers + 1, going |-> FALSE]]
          /\ made' = [made EXCEPT !.servers = @ + 1]
     ELSE UNCHANGED <<servers, made>>
  /\ UNCHANGED <<store, tenant, space, rec, requests, faults, marks>>

(* A mutant: the grants on the name are left.                               *)
DeleteServerOnly(s) ==
  /\ req[s].pc = "remove"
  /\ servers' = IF servers[req[s].name].id = 0 THEN servers
                ELSE [servers EXCEPT ![req[s].name].going = TRUE]
  /\ Ends(s)
  /\ UNCHANGED <<store, tenant, space, rec, made, requests, faults, marks>>

(* handleDeleteGameServer: the server, which goes once its finalizer is     *)
(* done, and then the grants on its name in the row that was read.          *)
DeleteServer(s) ==
  LET server == servers[req[s].name] IN
  /\ req[s].pc = "remove"
  /\ IF server.id = 0 THEN Ends(s) /\ UNCHANGED <<servers, marks>>
     ELSE /\ servers' = [servers EXCEPT ![req[s].name].going = TRUE]
          /\ marks' = [marks EXCEPT !.stale = IF req[s].row = org THEN @ ELSE @ \cup {server.id}]
          /\ req' = [t \in Slots |->
               IF t = s THEN [req[s] EXCEPT !.pc = "drop"]
               ELSE [req[t] EXCEPT !.late = @ \/ (req[t].pc = "set" /\ req[t].name = req[s].name)]]
  /\ UNCHANGED <<store, tenant, space, rec, made, requests, faults>>
DropGrants(s) ==
  /\ req[s].pc = "drop"
  /\ grants' = {g \in grants : ~(g.row = req[s].row /\ g.name = req[s].name)}
  /\ Ends(s)
  /\ UNCHANGED <<org, cluster, rec, made, requests, faults, marks>>
ServerGone == \E n \in Names :
  /\ servers[n].going
  /\ servers' = [servers EXCEPT ![n] = NoServer]
  /\ UNCHANGED <<store, tenant, space, req, rec, made, requests, faults, marks>>

(* handlePutMemberPermissions: the server is there, then the grant is set.  *)
CheckServer(s) ==
  LET server == servers[req[s].name] IN
  /\ req[s].pc = "check"
  /\ IF server.id = 0 THEN Ends(s)
     ELSE req' = [req EXCEPT ![s].pc = "set", ![s].saw = server.id, ![s].late = server.going]
  /\ UNCHANGED <<store, cluster, rec, made, requests, faults, marks>>
SetGrants(s) ==
  /\ req[s].pc = "set"
  /\ grants' = IF org = req[s].row THEN {[row |-> org, name |-> req[s].name, server |-> req[s].saw]}
               ELSE grants
  /\ marks' = [marks EXCEPT !.stale = IF req[s].late THEN @ \cup {req[s].saw} ELSE @]
  /\ Ends(s)
  /\ UNCHANGED <<org, cluster, rec, made, requests, faults>>

------------------------------------------------------------------------------
(* The operator.  A pass reads the Tenant; it ends when a call fails, and a *)
(* write of a Tenant that changed since does.                               *)
To(pc) == rec' = [rec EXCEPT !.pc = pc]
PassEnds == rec' = NoPass
Current == rec.fresh /\ tenant.id = rec.id

(* A mutant: a Tenant with a phase is left alone until it is deleted.       *)
ReconcileOnce ==
  /\ rec.pc = "idle" /\ tenant.id # 0 /\ (tenant.deleting \/ tenant.phase = "Pending")
  /\ rec' = [NoPass EXCEPT !.id = tenant.id, !.quota = tenant.quota, !.fresh = TRUE,
       !.pc = IF tenant.deleting THEN "list" ELSE IF tenant.held THEN "space" ELSE "finalizer"]
  /\ UNCHANGED <<store, cluster, req, made, requests, faults, marks>>

ReconcileTenant ==
  /\ rec.pc = "idle" /\ tenant.id # 0
  /\ rec' = [NoPass EXCEPT !.id = tenant.id, !.quota = tenant.quota, !.fresh = TRUE,
       !.pc = IF tenant.deleting THEN "list" ELSE IF tenant.held THEN "space" ELSE "finalizer"]
  /\ UNCHANGED <<store, cluster, req, made, requests, faults, marks>>

(* A mutant: the finalizer is not written before the pass goes on.          *)
AddFinalizerLate ==
  /\ rec.pc = "finalizer"
  /\ To("space")
  /\ UNCHANGED <<store, cluster, req, made, requests, faults, marks>>

AddFinalizer ==
  /\ rec.pc = "finalizer"
  /\ IF Current THEN tenant' = [tenant EXCEPT !.held = TRUE] /\ To("space")
     ELSE UNCHANGED tenant /\ PassEnds
  /\ UNCHANGED <<store, space, servers, req, made, requests, faults, marks>>

(* Never a namespace that it does not control, or that is on its way out.   *)
ReconcileNamespace ==
  /\ rec.pc = "space"
  /\ IF space.owner = 0 THEN space' = [NoSpace EXCEPT !.owner = rec.id] /\ To("fence")
     ELSE UNCHANGED space /\ To(IF space.owner = rec.id /\ ~space.ending THEN "fence" ELSE "failed")
  /\ UNCHANGED <<store, tenant, servers, req, made, requests, faults, marks>>

(* A mutant: the Panel's rights first.                                      *)
BindFirst ==
  LET fence == Fences[Len(Fences) - rec.done] IN
  /\ rec.pc = "fence"
  /\ IF space.owner = 0 \/ space.ending THEN UNCHANGED space /\ To("failed")
     ELSE /\ space' = [space EXCEPT !.has = @ \cup {fence},
                                    !.hard = IF fence = "quota" THEN rec.quota ELSE @]
          /\ rec' = [rec EXCEPT !.done = @ + 1,
                                !.pc = IF rec.done + 1 = Len(Fences) THEN "active" ELSE "fence"]
  /\ UNCHANGED <<store, tenant, servers, req, made, requests, faults, marks>>

(* The quota, and only then, after limits and policies, the Panel's rights. *)
ReconcileFence ==
  LET fence == Fences[rec.done + 1] IN
  /\ rec.pc = "fence"
  /\ IF space.owner = 0 \/ space.ending THEN UNCHANGED space /\ To("failed")
     ELSE /\ space' = [space EXCEPT !.has = @ \cup {fence},
                                    !.hard = IF fence = "quota" THEN rec.quota ELSE @]
          /\ rec' = [rec EXCEPT !.done = @ + 1,
                                !.pc = IF rec.done + 1 = Len(Fences) THEN "active" ELSE "fence"]
  /\ UNCHANGED <<store, tenant, servers, req, made, requests, faults, marks>>

SetStatus ==
  /\ rec.pc \in {"active", "failed"}
  /\ tenant' = IF Current THEN [tenant EXCEPT !.phase = IF rec.pc = "active" THEN "Active" ELSE "Failed"]
               ELSE tenant
  /\ PassEnds
  /\ UNCHANGED <<store, space, servers, req, made, requests, faults, marks>>

(* reconcileDelete: wait until the namespace is empty, delete it, let go.   *)
ListSpace ==
  /\ rec.pc = "list"
  /\ IF There = {} THEN To("sweep") /\ UNCHANGED tenant
     ELSE /\ tenant' = IF Current THEN [tenant EXCEPT !.phase = "Terminating"] ELSE tenant
          /\ PassEnds
  /\ UNCHANGED <<store, space, servers, req, made, requests, faults, marks>>
DeleteSpace ==
  /\ rec.pc = "sweep"
  /\ space' = IF space.owner = rec.id THEN [space EXCEPT !.ending = TRUE] ELSE space
  /\ To("unfinalize")
  /\ UNCHANGED <<store, tenant, servers, req, made, requests, faults, marks>>
RemoveFinalizer ==
  /\ rec.pc = "unfinalize"
  /\ tenant' = IF Current THEN NoTenant ELSE tenant
  /\ PassEnds
  /\ UNCHANGED <<store, space, servers, req, made, requests, faults, marks>>

(* The namespace controller: what is left in it goes with it.               *)
NamespaceEnds ==
  /\ space.ending
  /\ space' = NoSpace
  /\ servers' = [n \in Names |-> NoServer]
  /\ marks' = [marks EXCEPT !.stale = @ \cup {servers[n].id : n \in There}]
  /\ UNCHANGED <<store, tenant, req, rec, made, requests, faults>>

(* A request is cut off, or its call fails, done or not; after a failed     *)
(* create of the Tenant the row is taken back, if that works.  The operator *)
(* stops, or fails, and starts the pass over.                               *)
Fault == faults < MaxFaults /\ faults' = faults + 1
Breaks(s) ==
  /\ req[s].pc # "idle" /\ Fault
  /\ \/ Ends(s) /\ UNCHANGED <<tenant, made, rec>>
     \/ /\ req[s].pc = "tenant"
        /\ Goes(s, "undo") /\ UNCHANGED <<tenant, made, rec>>
     \/ /\ req[s].pc = "tenant" /\ tenant.id = 0
        /\ tenant' = [NoTenant EXCEPT !.id = made.tenants + 1, !.quota = req[s].quota]
        /\ made' = [made EXCEPT !.tenants = @ + 1]
        /\ Written /\ Goes(s, "undo")
  /\ marks' = [marks EXCEPT !.broken = @ \/ req[s].pc \in {"tenant", "undo", "unrow"},
                            !.stale = IF req[s].pc = "drop" THEN @ \cup 1..made.servers ELSE @,
                            !.largest = IF tenant'.quota > @ THEN tenant'.quota ELSE @]
  /\ UNCHANGED <<store, space, servers, requests>>
PassBreaks ==
  /\ rec.pc # "idle" /\ Fault
  /\ PassEnds
  /\ UNCHANGED <<store, cluster, req, made, requests, marks>>

Handle(s) ==
  \/ RequestOrg(s) \/ RequestDeleteOrg(s) \/ RequestServer(s) \/ RequestDeleteServer(s)
  \/ RequestGrant(s) \/ CreateRow(s) \/ CreateTenant(s) \/ Undo(s)
  \/ ListOrg(s) \/ DeleteTenant(s) \/ DeleteRow(s)
  \/ CheckQuota(s) \/ CreateServer(s) \/ DeleteServer(s) \/ DropGrants(s)
  \/ CheckServer(s) \/ SetGrants(s) \/ Breaks(s)
Operate ==
  \/ ReconcileTenant \/ AddFinalizer \/ ReconcileNamespace \/ ReconcileFence \/ SetStatus
  \/ ListSpace \/ DeleteSpace \/ RemoveFinalizer
OrgNext ==
  \/ \E s \in Slots : Handle(s)
  \/ UpdateQuota \/ Operate \/ ServerGone \/ NamespaceEnds \/ PassBreaks
OrgSpec == OrgInit /\ [][OrgNext]_orgVars
(* The operator's queue retries, and deletions in the cluster finish.       *)
FairOrgSpec == OrgSpec /\ WF_orgVars(Operate) /\ WF_orgVars(NamespaceEnds) /\ WF_orgVars(ServerGone)

------------------------------------------------------------------------------
OrgTypes ==
  /\ org \in Nat
  /\ tenant \in [id : Nat, deleting : BOOLEAN, held : BOOLEAN, quota : Nat, phase : TenantPhases]
  /\ space \in [owner : Nat, ending : BOOLEAN, has : SUBSET {Fences[i] : i \in 1..2}, hard : Nat]
  /\ servers \in [Names -> [id : Nat, going : BOOLEAN]]
  /\ grants \subseteq [row : Nat, name : Names, server : Nat]
  /\ req \in [Slots -> [op : Ops, pc : PCs, row : Nat, name : Names, quota : Nat, saw : Nat,
                        late : BOOLEAN]]
  /\ rec \in [pc : Passes, id : Nat, quota : Nat, done : 0..2, fresh : BOOLEAN]
  /\ made \in [orgs : Nat, tenants : Nat, servers : Nat]
  /\ requests \in Nat /\ faults \in Nat
  /\ marks \in [broken : BOOLEAN, crossed : BOOLEAN, stale : SUBSET Nat, largest : Nat]

(* No half-created organization lingers: once nobody makes or deletes one,  *)
(* there is a row exactly when there is a Tenant to stay, unless a request  *)
(* was cut off between the two, or a deletion crossed a creation.           *)
TwoHalves ==
  (\A s \in Slots : req[s].op \notin {"org", "unorg"}) /\ ~marks.broken /\ ~marks.crossed
    => ((org # 0) <=> (tenant.id # 0 /\ ~tenant.deleting))

(* No namespace is left without a Tenant that would delete it: the          *)
(* finalizer is on the Tenant before there is a namespace, and comes off    *)
(* after its deletion was asked for.                                        *)
SpaceHasTenant == space.owner # 0 => space.ending \/ space.owner = tenant.id

(* No half of an organization outlives the other, nor its namespace both.   *)
NothingLingers == TwoHalves /\ SpaceHasTenant

(* There are never more servers than the largest quota the Tenant had: two  *)
(* requests that both find room are told apart by the ResourceQuota, which  *)
(* is there before the Panel may create anything.                           *)
WithinQuota == Cardinality(There) <= marks.largest

(* A grant on a server does not reach a later one of the same name, unless  *)
(* dropping the grants failed or is still to come, the grant was set while  *)
(* the server was deleted, the server went with its namespace, or it was    *)
(* deleted by a request that read the row of an earlier organization.       *)
Dropping(n) == \E s \in Slots : req[s].pc = "drop" /\ req[s].name = n
GrantsOfServer == \A g \in grants :
  (g.row = org /\ g.server \notin marks.stale /\ servers[g.name].id # 0 /\ ~Dropping(g.name))
    => g.server = servers[g.name].id

(* An organization that is not deleted gets its namespace, also when one of *)
(* that name, of an organization deleted before, is still on its way out.   *)
Provisioned == (tenant.id # 0) ~> (tenant.phase = "Active" \/ tenant.deleting \/ tenant.id = 0)
==============================================================================
