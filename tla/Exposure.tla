------------------------------ MODULE Exposure ------------------------------
(***************************************************************************)
(* Public exposure (internal/controller/gatewayexposure_controller.go and  *)
(* publicexposure.go): every exposed GameServer has a public port for each *)
(* of its ports, kept in its status, and a route that attaches to the      *)
(* listener of that port on one Gateway all servers share.                 *)
(*                                                                         *)
(* The controller has one worker.  A reconcile is of one server, but ends  *)
(* by computing the Gateway's listeners from all of them.  It reads cached *)
(* copies, except where it allocates ports and lists the servers for the   *)
(* Gateway, which go to the API server.  Only GameServers are watched.     *)
(*                                                                         *)
(* Protocols, container ports and the public host are left out.  All       *)
(* servers use one Egg.  A condition is its reason; its generation and     *)
(* message are output only.                                                *)
(***************************************************************************)
EXTENDS Integers, FiniteSets

CONSTANTS
  Servers,       \* numbered in the order the API server lists them
  NameOf,        \* their names, which differ within a namespace only
  PortNames,     \* names of ports
  EggPorts,      \* the sets of ports an Egg may declare
  Extras,        \* the possible spec.extraPorts
  PortRangeMin, PortRangeMax,
  CaughtUp,      \* whether a reconcile finds the operator's own writes in its caches
  MaxEvents      \* bound: requests, failed calls, operator restarts

ASSUME ServersAssumption == Servers \subseteq Nat /\ IsFiniteSet(Servers)
ASSUME NamesAssumption == DOMAIN NameOf = Servers
ASSUME PortsAssumption ==
  /\ EggPorts \subseteq SUBSET PortNames /\ EggPorts # {}
  /\ Extras \subseteq SUBSET PortNames /\ {} \in Extras
ASSUME RangeAssumption == PortRangeMin \in Nat \ {0} /\ PortRangeMax \in Nat
ASSUME CaughtUpAssumption == CaughtUp \in BOOLEAN
ASSUME BoundsAssumption == MaxEvents \in Nat

VARIABLES
  gs,                  \* the GameServers
  cache, fresh,        \* their cached copies, and which of them are the latest version
  egg, eggCache,       \* the Egg and its cached copy
  routes, routeCache,  \* the routes, <<server, port name>>, and the cached ones
  gw, gwCache,         \* the Gateway's listeners, name to port, and their cached copy
  queue,               \* the work queue
  pc, item,            \* the worker: its next call, and the server it reconciles
  orig, l, current,    \* that server as read and as changed, and whether it is the latest version
  names,               \* the port names it should expose
  todo,                \* the routes still to apply or to delete
  want,                \* the listeners it has computed
  events,              \* what MaxEvents bounds
  knows                \* history: the servers reconciled with the Egg as it is

cacheVars == <<cache, fresh>>
eggVars == <<egg, eggCache, knows>>
routeVars == <<routes, routeCache>>
gwVars == <<gw, gwCache>>
workerVars == <<pc, item, orig, l, current, names, todo, want>>
vars == <<gs, cache, fresh, egg, eggCache, routes, routeCache, gw, gwCache, queue,
          pc, item, orig, l, current, names, todo, want, events, knows>>

Pool == PortRangeMin..PortRangeMax
Unset == 0
PortMaps == [PortNames -> Pool \cup {Unset}]
NoPorts == [p \in PortNames |-> Unset]

Reasons == {"none", "Allocated", "PoolExhausted", "Disabled"}
GameServers ==
  [exists : BOOLEAN, deleting : BOOLEAN, enabled : BOOLEAN, extra : SUBSET PortNames,
   ports : PortMaps, cond : Reasons]

Absent == [exists |-> FALSE, deleting |-> FALSE, enabled |-> FALSE, extra |-> {},
           ports |-> NoPorts, cond |-> "none"]
NewServer(b, x) == [Absent EXCEPT !.exists = TRUE, !.enabled = b, !.extra = x]

Eggs == [exists : BOOLEAN, ports : EggPorts]

NoGateway == [n \in {} |-> Unset]

Init ==
  /\ \E b \in [Servers -> BOOLEAN] :
       gs = [s \in Servers |-> IF b[s] THEN NewServer(TRUE, {}) ELSE Absent]
  /\ cache = gs /\ fresh = [s \in Servers |-> TRUE]
  /\ \E ps \in EggPorts : egg = [exists |-> TRUE, ports |-> ps]
  /\ eggCache = egg
  /\ routes = {} /\ routeCache = {}
  /\ gw = NoGateway /\ gwCache = NoGateway
  /\ queue = {s \in Servers : gs[s].exists}
  /\ pc = "idle" /\ item \in Servers /\ orig = Absent /\ l = Absent /\ current = FALSE
  /\ names = {} /\ todo = {} /\ want = NoGateway
  /\ events = 0 /\ knows = {}

-----------------------------------------------------------------------------
(* What a reconcile decides.                                                *)

(* The Egg's ports and the extra ports whose names it does not use.         *)
EffectivePorts(e, o) == e.ports \cup o.extra

routeName(s, p) == <<NameOf[s], p>>

Kept(o, ns) == [p \in PortNames |-> IF p \in ns THEN o.ports[p] ELSE Unset]
Missing(f, ns) == {p \in ns : f[p] = Unset}

(* Mutant: the ports in use are taken from the cache.                       *)
usedPublicPortsCached == {cache[s].ports[p] : s \in Servers, p \in PortNames} \ {Unset}

usedPublicPorts == {gs[s].ports[p] : s \in Servers, p \in PortNames} \ {Unset}

Free(used) == Pool \ used

(* What f can become when the ports missing from it are allocated one after *)
(* the other, each the lowest that is free, until none is.                  *)
Allocations(f, missing, used) ==
  {g \in [PortNames -> Free(used) \cup {Unset} \cup {f[p] : p \in PortNames}] :
     LET given == {g[p] : p \in missing} \ {Unset}
     IN  /\ \A p \in PortNames \ missing : g[p] = f[p]
         /\ given \subseteq Free(used)
         /\ \A p, q \in missing : g[p] = g[q] /\ g[p] # Unset => p = q
         /\ \A n \in Free(used), m \in given : n < m => n \in given
         /\ Unset \in {g[p] : p \in missing} => Free(used) \subseteq given}

(* reconcileOne of a server that is not exposed; setExposureDisabled.       *)
Disabled(o) ==
  [o EXCEPT !.ports = NoPorts, !.cond = IF @ = "none" THEN "none" ELSE "Disabled"]

(* rebuildGateway: a server later in the list replaces an earlier one's     *)
(* listener of the same name.                                               *)
Claims(e) ==
  {c \in Servers \X PortNames :
     /\ e.exists
     /\ gs[c[1]].enabled
     /\ c[2] \in EffectivePorts(e, gs[c[1]])
     /\ gs[c[1]].ports[c[2]] # Unset}

Listeners(e) ==
  [n \in {routeName(c[1], c[2]) : c \in Claims(e)} |->
     LET mine == {c \in Claims(e) : routeName(c[1], c[2]) = n}
         last == CHOOSE c \in mine : \A d \in mine : d[1] <= c[1]
     IN  gs[last[1]].ports[last[2]]]

-----------------------------------------------------------------------------
(* The worker.                                                              *)

Idle ==
  /\ pc' = "idle" /\ orig' = Absent /\ l' = Absent /\ current' = FALSE
  /\ names' = {} /\ todo' = {} /\ want' = NoGateway
  /\ UNCHANGED item

(* A reconcile that returns an error is repeated.                           *)
Fail == Idle /\ queue' = queue \cup {item}

(* Mutant: only the routes of a server that is not exposed are deleted.     *)
StaleAll(s, ns) == IF ns = {} THEN {r \in routeCache : r[1] = s} ELSE {}

(* pruneRoutes: the cached routes to delete.                                *)
Stale(s, ns) == {r \in routeCache : r[1] = s /\ r[2] \notin ns}

(* What follows the routes: Status().Update if something changed.           *)
AfterRoutes(o, o1) == IF o1 # o THEN "status" ELSE "list"

AfterApply(s, ns, o, o1) ==
  /\ todo' = Stale(s, ns)
  /\ pc' = IF Stale(s, ns) # {} THEN "prune" ELSE AfterRoutes(o, o1)

(* reconcileOne up to its first call.                                       *)
Disable(s, o) ==
  /\ names' = {} /\ l' = Disabled(o)
  /\ AfterApply(s, {}, o, Disabled(o))

Expose(s, o) ==
  LET ns == EffectivePorts(eggCache, o)
      f == Kept(o, ns)
      full == Missing(f, ns) = {}
      o1 == [o EXCEPT !.ports = f, !.cond = IF full THEN "Allocated" ELSE @]
  IN  /\ names' = ns /\ l' = o1
      /\ IF ns = {} THEN AfterApply(s, ns, o, o1)
         ELSE todo' = ns /\ pc' = IF full THEN "apply" ELSE "allocate"

(* Mutant: a server that is gone leaves its listeners.                      *)
NotFoundReturns(s) == UNCHANGED workerVars

(* A server that is gone leaves nothing but its listeners.                  *)
NotFound(s) ==
  /\ pc' = "list" /\ item' = s /\ orig' = Absent /\ l' = Absent /\ current' = FALSE
  /\ UNCHANGED <<names, todo, want>>

BeginReconcile(s) ==
  LET o == cache[s]
  IN  /\ pc = "idle" /\ s \in queue
      /\ CaughtUp => routeCache = routes /\ gwCache = gw
      /\ queue' = queue \ {s}
      /\ knows' = IF eggCache = egg THEN knows \cup {s} ELSE knows
      /\ \/ ~o.exists /\ NotFound(s)
         \/ /\ o.exists /\ (o.deleting \/ ~eggCache.exists)
            /\ UNCHANGED workerVars
         \/ /\ o.exists /\ ~o.deleting /\ eggCache.exists
            /\ item' = s /\ orig' = o /\ current' = fresh[s]
            /\ IF o.enabled THEN Expose(s, o) ELSE Disable(s, o)
            /\ UNCHANGED want
      /\ UNCHANGED <<gs, cacheVars, egg, eggCache, routeVars, gwVars, events>>

(* Without a free port for each, the routes stay as they are.               *)
Allocate ==
  /\ pc = "allocate"
  /\ \E f \in Allocations(l.ports, Missing(l.ports, names), usedPublicPorts) :
       LET exhausted == Missing(f, names) # {}
           o == [l EXCEPT !.ports = f, !.cond = IF exhausted THEN "PoolExhausted" ELSE "Allocated"]
       IN  /\ l' = o
           /\ pc' = IF exhausted THEN AfterRoutes(orig, o) ELSE "apply"
  /\ UNCHANGED <<gs, cacheVars, eggVars, routeVars, gwVars, queue, item, orig, current, names,
                 todo, want, events>>

(* applyRoutes: CreateOrUpdate, which looks for the route in the cache.     *)
ApplyRoute(p) ==
  /\ pc = "apply" /\ p \in todo
  /\ IF <<item, p>> \in routes \ routeCache
     THEN Fail /\ UNCHANGED routes
     ELSE /\ routes' = IF <<item, p>> \in routeCache THEN routes ELSE routes \cup {<<item, p>>}
          /\ IF todo # {p} THEN todo' = todo \ {p} /\ pc' = "apply"
             ELSE AfterApply(item, names, orig, l)
          /\ UNCHANGED <<queue, item, orig, l, current, names, want>>
  /\ UNCHANGED <<gs, cacheVars, eggVars, routeCache, gwVars, events>>

PruneRoute(r) ==
  /\ pc = "prune" /\ r \in todo
  /\ routes' = routes \ {r}
  /\ todo' = todo \ {r}
  /\ pc' = IF todo = {r} THEN AfterRoutes(orig, l) ELSE "prune"
  /\ UNCHANGED <<gs, cacheVars, eggVars, routeCache, gwVars, queue, item, orig, l, current,
                 names, want, events>>

Touch(s) == fresh' = [fresh EXCEPT ![s] = FALSE]

(* Mutant: the status is patched, whatever version the copy is.             *)
PatchStatus ==
  /\ pc = "status" /\ gs[item].exists
  /\ gs' = [gs EXCEPT ![item].ports = l.ports, ![item].cond = l.cond]
  /\ Touch(item)
  /\ pc' = "list" /\ todo' = {}
  /\ UNCHANGED <<cache, eggVars, routeVars, gwVars, queue, item, orig, l, current, names, want,
                 events>>

UpdateStatus ==
  /\ pc = "status" /\ current
  /\ gs' = [gs EXCEPT ![item].ports = l.ports, ![item].cond = l.cond]
  /\ Touch(item)
  /\ pc' = "list" /\ todo' = {}
  /\ UNCHANGED <<cache, eggVars, routeVars, gwVars, queue, item, orig, l, current, names, want,
                 events>>

UpdateConflicts ==
  /\ pc = "status" /\ ~current
  /\ Fail
  /\ UNCHANGED <<gs, cacheVars, eggVars, routeVars, gwVars, events>>

ListServers ==
  /\ pc = "list"
  /\ want' = Listeners(eggCache) /\ pc' = "gateway"
  /\ UNCHANGED <<gs, cacheVars, eggVars, routeVars, gwVars, queue, item, orig, l, current, names,
                 todo, events>>

(* Without listeners the Gateway is deleted.  CreateOrUpdate compares with  *)
(* the cached Gateway, and is refused if it must write and that is not the  *)
(* latest.                                                                  *)
WriteGateway ==
  /\ pc = "gateway"
  /\ \/ want = NoGateway /\ gw' = NoGateway /\ Idle /\ UNCHANGED queue
     \/ want # NoGateway /\ gwCache = want /\ Idle /\ UNCHANGED <<gw, queue>>
     \/ want # NoGateway /\ gwCache # want /\ gwCache = gw /\ gw' = want /\ Idle /\ UNCHANGED queue
     \/ want # NoGateway /\ gwCache # want /\ gwCache # gw /\ Fail /\ UNCHANGED gw
  /\ UNCHANGED <<gs, cacheVars, eggVars, routeVars, gwCache, events>>

-----------------------------------------------------------------------------
(* Caches and the work queue.                                               *)

SeeServer(s) ==
  /\ ~fresh[s]
  /\ cache' = [cache EXCEPT ![s] = gs[s]] /\ fresh' = [fresh EXCEPT ![s] = TRUE]
  /\ queue' = queue \cup {s}
  /\ UNCHANGED <<gs, eggVars, routeVars, gwVars, workerVars, events>>

SeeEgg ==
  /\ eggCache # egg /\ eggCache' = egg
  /\ UNCHANGED <<gs, cacheVars, egg, knows, routeVars, gwVars, queue, workerVars, events>>

SeeRoutes ==
  /\ routeCache # routes /\ routeCache' = routes
  /\ UNCHANGED <<gs, cacheVars, eggVars, routes, gwVars, queue, workerVars, events>>

SeeGateway ==
  /\ gwCache # gw /\ gwCache' = gw
  /\ UNCHANGED <<gs, cacheVars, eggVars, routeVars, gw, queue, workerVars, events>>

-----------------------------------------------------------------------------
(* Everybody else.                                                          *)

Event == events < MaxEvents /\ events' = events + 1

(* Any write to s makes the worker's copy of it an old version.             *)
Write(s, o) ==
  /\ gs' = [gs EXCEPT ![s] = o]
  /\ Touch(s)
  /\ current' = (current /\ item # s)
  /\ UNCHANGED <<cache, eggVars, routeVars, gwVars, queue, pc, item, orig, l, names, todo, want>>

Live(s) == gs[s].exists /\ ~gs[s].deleting

(* A name is used again once nothing is left of the server that had it: its *)
(* routes, the cached copy and the worker's.                                *)
CreateServer(s) ==
  /\ Event /\ ~gs[s].exists /\ ~cache[s].exists
  /\ item # s \/ pc = "idle"
  /\ \A r \in routes : r[1] # s
  /\ \E b \in BOOLEAN, x \in Extras : Write(s, NewServer(b, x))

SetExposure(s) ==
  /\ Event /\ Live(s)
  /\ Write(s, [gs[s] EXCEPT !.enabled = ~@])

SetExtraPorts(s) ==
  /\ Event /\ Live(s)
  /\ \E x \in Extras \ {gs[s].extra} : Write(s, [gs[s] EXCEPT !.extra = x])

DeleteServer(s) ==
  /\ Event /\ Live(s)
  /\ Write(s, [gs[s] EXCEPT !.deleting = TRUE])

(* The GameServer controller removes its finalizer.                         *)
ServerGone(s) ==
  /\ gs[s].deleting
  /\ Write(s, Absent) /\ UNCHANGED events

(* The garbage collector deletes what a server that is gone owned.          *)
CollectRoutes(s) ==
  /\ ~gs[s].exists
  /\ \E r \in routes : r[1] = s
  /\ routes' = {r \in routes : r[1] # s}
  /\ UNCHANGED <<gs, cacheVars, eggVars, routeCache, gwVars, queue, workerVars, events>>

EditEgg ==
  /\ Event
  /\ egg' \in Eggs \ {egg} /\ knows' = {}
  /\ UNCHANGED <<gs, cacheVars, eggCache, routeVars, gwVars, queue, workerVars>>

CallFails ==
  /\ Event /\ pc # "idle" /\ Fail
  /\ UNCHANGED <<gs, cacheVars, eggVars, routeVars, gwVars>>

(* The next leader lists everything afresh.                                 *)
OperatorRestarts ==
  /\ Event /\ Idle
  /\ queue' = {s \in Servers : gs[s].exists}
  /\ cache' = gs /\ fresh' = [s \in Servers |-> TRUE]
  /\ eggCache' = egg /\ routeCache' = routes /\ gwCache' = gw
  /\ UNCHANGED <<gs, egg, knows, routes, gw>>

-----------------------------------------------------------------------------
Worker ==
  \/ \E s \in Servers : BeginReconcile(s)
  \/ Allocate
  \/ \E p \in PortNames : ApplyRoute(p)
  \/ \E r \in Servers \X PortNames : PruneRoute(r)
  \/ UpdateStatus \/ UpdateConflicts
  \/ ListServers \/ WriteGateway

Caches == (\E s \in Servers : SeeServer(s)) \/ SeeEgg \/ SeeRoutes \/ SeeGateway

Environment ==
  \/ \E s \in Servers :
       \/ CreateServer(s) \/ SetExposure(s) \/ SetExtraPorts(s) \/ DeleteServer(s)
       \/ ServerGone(s) \/ CollectRoutes(s)
  \/ EditEgg \/ CallFails \/ OperatorRestarts

Next == Worker \/ Caches \/ Environment

Spec == Init /\ [][Next]_vars

-----------------------------------------------------------------------------
(* Properties.                                                              *)

(* Every variable has its type; the ports in a status are of the pool       *)
(* (allocatePublicPort).                                                    *)
TypeOK ==
  /\ gs \in [Servers -> GameServers] /\ cache \in [Servers -> GameServers]
  /\ fresh \in [Servers -> BOOLEAN]
  /\ egg \in Eggs /\ eggCache \in Eggs
  /\ routes \subseteq Servers \X PortNames /\ routeCache \subseteq Servers \X PortNames
  /\ queue \subseteq Servers /\ item \in Servers /\ knows \subseteq Servers
  /\ pc \in {"idle", "allocate", "apply", "prune", "status", "list", "gateway"}
  /\ orig \in GameServers /\ l \in GameServers /\ current \in BOOLEAN
  /\ names \subseteq PortNames
  /\ todo \subseteq PortNames \cup (Servers \X PortNames)
  /\ events \in 0..MaxEvents

(* No public port is given out twice, to two servers or to two ports of one *)
(* (usedPublicPorts reads past the cache, Status().Update refuses a stale   *)
(* copy).                                                                   *)
PortsDistinct ==
  \A s, t \in Servers, p, q \in PortNames :
    gs[s].ports[p] # Unset /\ gs[s].ports[p] = gs[t].ports[q] => s = t /\ p = q

Lasting(s) == {p \in PortNames : p \in gs[s].extra \/ \A ps \in EggPorts : p \in ps}

(* A server's public address is stable: while it stays exposed, no step     *)
(* changes the public port of a port that every edit of the Egg declares,   *)
(* or that is one of its extra ports (reconcileOne keeps what is            *)
(* allocated).                                                              *)
AddressStable ==
  [][\A s \in Servers : \A p \in Lasting(s) :
       gs[s].enabled /\ gs'[s].enabled /\ gs[s].ports[p] # Unset
       => gs'[s].ports[p] = gs[s].ports[p]]_vars

(* A public port is given up last: when the status of a server lets go of   *)
(* one, the route that led to it is gone (reconcileOne prunes first).  A    *)
(* server for which the pool is exhausted returns before that and is set    *)
(* aside.                                                                   *)
FreedLast ==
  [][\A s \in Servers, p \in PortNames :
       /\ gs[s].ports[p] # Unset /\ gs'[s].ports[p] = Unset
       /\ gs'[s].exists /\ gs'[s].cond # "PoolExhausted"
       => <<s, p>> \notin routes]_vars

Settled ==
  /\ pc = "idle" /\ queue = {}
  /\ \A s \in Servers : fresh[s]
  /\ eggCache = egg /\ routeCache = routes /\ gwCache = gw
  /\ egg.exists
  /\ \A s \in Servers : gs[s].exists => ~gs[s].deleting /\ s \in knows

RoutesOf(s) == {p \in PortNames : <<s, p>> \in routes}
Allocated(s) == {p \in PortNames : gs[s].ports[p] # Unset}

(* Nothing is left half done: when all events have been handled, a server   *)
(* that is not exposed has no port and no route, one that is has its ports  *)
(* and routes, unless the pool was exhausted, and the Gateway has the       *)
(* listeners of all of them (Reconcile, every failure and conflict is       *)
(* retried).                                                                *)
NothingLeft ==
  Settled =>
    /\ \A s \in Servers : gs[s].exists =>
         IF ~gs[s].enabled THEN RoutesOf(s) = {} /\ Allocated(s) = {}
         ELSE \/ gs[s].cond = "PoolExhausted"
              \/ /\ gs[s].cond = "Allocated"
                 /\ RoutesOf(s) = EffectivePorts(egg, gs[s])
                 /\ Allocated(s) = EffectivePorts(egg, gs[s])
    /\ (\E s \in Servers : gs[s].exists) => gw = Listeners(egg)

=============================================================================
