--------------------------- MODULE ExposureProofs ---------------------------
(* Proofs about Exposure for every value of its constants.                  *)
EXTENDS Exposure, TLAPS

-----------------------------------------------------------------------------
(* The values the model's operators compute have their types.               *)

(* The ports of a server and of the Egg are port names.                     *)
LEMMA EffectivePortsType ==
  ASSUME NEW e \in Eggs, NEW o \in GameServers
  PROVE  EffectivePorts(e, o) \subseteq PortNames
BY PortsAssumption DEF Eggs, GameServers, EffectivePorts

(* Keeping some of the ports gives a map of ports.                          *)
LEMMA KeptType ==
  ASSUME NEW o \in GameServers, NEW ns
  PROVE  Kept(o, ns) \in PortMaps
BY DEF Kept, GameServers, PortMaps

(* g is f with free ports, each given once, for some that were missing.     *)
Gives(g, f, missing, used) ==
  /\ g \in PortMaps
  /\ \A p \in PortNames \ missing : g[p] = f[p]
  /\ \A p \in missing : g[p] # Unset => g[p] \notin used
  /\ \A p, q \in missing : g[p] = g[q] /\ g[p] # Unset => p = q

(* What an allocation gives.                                                *)
LEMMA AllocationsGive ==
  ASSUME NEW f \in PortMaps, NEW missing \in SUBSET PortNames, NEW used,
         NEW g \in Allocations(f, missing, used)
  PROVE  Gives(g, f, missing, used)
<1>1. Free(used) \subseteq Pool /\ Free(used) \cap used = {}
  BY DEF Free
<1>2. {f[p] : p \in PortNames} \subseteq Pool \cup {Unset}
  BY DEF PortMaps
<1>3. \A p \in missing : g[p] # Unset => g[p] \in Free(used)
  BY DEF Allocations
<1> QED BY <1>1, <1>2, <1>3 DEF Gives, Allocations, PortMaps

(* A server that was created, and one that is not there.                    *)
LEMMA ServerTypes ==
  /\ Absent \in GameServers
  /\ \A b \in BOOLEAN, x \in Extras : NewServer(b, x) \in GameServers
<1>1. NoPorts \in PortMaps
  BY DEF NoPorts, PortMaps
<1> QED BY <1>1, PortsAssumption DEF Absent, NewServer, GameServers, Reasons

(* What a reconcile makes of a server is a server.                          *)
LEMMA ChangedType ==
  ASSUME NEW o \in GameServers, NEW f \in PortMaps, NEW c \in Reasons
  PROVE  /\ [o EXCEPT !.ports = f, !.cond = c] \in GameServers
         /\ Disabled(o) \in GameServers
<1>1. NoPorts \in PortMaps
  BY DEF NoPorts, PortMaps
<1>2. "none" \in Reasons /\ "Disabled" \in Reasons
  BY DEF Reasons
<1> QED BY <1>1, <1>2 DEF GameServers, Disabled

-----------------------------------------------------------------------------
(* Type correctness.                                                        *)

(* An idle worker holds nothing.                                            *)
LEMMA IdleType ==
  ASSUME TypeOK, Idle
  PROVE  /\ pc' = "idle" /\ item' \in Servers /\ orig' \in GameServers /\ l' \in GameServers
         /\ current' \in BOOLEAN /\ names' = {} /\ todo' = {}
BY ServerTypes DEF Idle, TypeOK

(* The routes to delete are routes.                                         *)
LEMMA StaleType ==
  ASSUME TypeOK, NEW s, NEW ns
  PROVE  Stale(s, ns) \subseteq Servers \X PortNames
BY DEF Stale, TypeOK

(* Where the worker goes once the routes are applied.                       *)
LEMMA AfterApplyType ==
  ASSUME TypeOK, NEW s, NEW ns, NEW o, NEW o1, AfterApply(s, ns, o, o1)
  PROVE  pc' \in {"prune", "status", "list"} /\ todo' \subseteq Servers \X PortNames
BY StaleType DEF AfterApply, AfterRoutes

(* A write of a well-typed server keeps the types.                          *)
LEMMA WriteType ==
  ASSUME TypeOK, NEW s \in Servers, NEW o \in GameServers, Write(s, o), events' \in 0..MaxEvents
  PROVE  TypeOK'
<1>1. gs' \in [Servers -> GameServers]
  BY DEF Write, TypeOK
<1>2. fresh' \in [Servers -> BOOLEAN] /\ current' \in BOOLEAN
  BY DEF Write, Touch, TypeOK
<1> QED BY <1>1, <1>2 DEF Write, TypeOK, eggVars, routeVars, gwVars

(* Every variable keeps its type, whatever the constants.                   *)
THEOREM TypeCorrect == Spec => []TypeOK
<1> USE DEF cacheVars, eggVars, routeVars, gwVars, workerVars
<1>1. Init => TypeOK
  <2> SUFFICES ASSUME Init PROVE TypeOK
    OBVIOUS
  <2>1. gs \in [Servers -> GameServers]
    BY ServerTypes, PortsAssumption DEF Init
  <2>2. egg \in Eggs
    BY DEF Init, Eggs
  <2>3. fresh \in [Servers -> BOOLEAN] /\ events \in 0..MaxEvents
    BY BoundsAssumption DEF Init
  <2> QED BY <2>1, <2>2, <2>3, ServerTypes DEF Init, TypeOK
<1>2. TypeOK /\ [Next]_vars => TypeOK'
  <2> SUFFICES ASSUME TypeOK, [Next]_vars PROVE TypeOK'
    OBVIOUS
  <2>e. Event => events' \in 0..MaxEvents
    BY BoundsAssumption DEF Event, TypeOK
  <2>1. ASSUME NEW s \in Servers, BeginReconcile(s) PROVE TypeOK'
    <3> DEFINE o == cache[s]
    <3>0. o \in GameServers /\ fresh[s] \in BOOLEAN
      BY DEF TypeOK
    <3>w. pc' \in {"idle", "allocate", "apply", "prune", "status", "list"}
          /\ item' \in Servers /\ orig' \in GameServers /\ l' \in GameServers
          /\ current' \in BOOLEAN /\ names' \subseteq PortNames
          /\ todo' \subseteq PortNames \cup (Servers \X PortNames)
      <4>1. CASE NotFound(s)
        BY <4>1, ServerTypes DEF NotFound, TypeOK
      <4>2. CASE UNCHANGED workerVars
        BY <2>1, <4>2 DEF BeginReconcile, TypeOK
      <4>3. CASE item' = s /\ orig' = o /\ current' = fresh[s] /\ Expose(s, o)
        <5> DEFINE ns == EffectivePorts(eggCache, o)
                   f == Kept(o, ns)
                   c == IF Missing(f, ns) = {} THEN "Allocated" ELSE o.cond
        <5>1. ns \subseteq PortNames /\ f \in PortMaps
          BY <3>0, EffectivePortsType, KeptType DEF TypeOK
        <5>2. c \in Reasons
          BY <3>0 DEF GameServers, Reasons
        <5>3. [o EXCEPT !.ports = f, !.cond = c] \in GameServers
          BY <3>0, <5>1, <5>2, ChangedType
        <5>4. l' = [o EXCEPT !.ports = f, !.cond = c] /\ names' = ns
          BY <4>3 DEF Expose
        <5>5. CASE ns = {}
          BY <4>3, <5>5, <3>0, <5>1, <5>3, <5>4, AfterApplyType DEF Expose
        <5>6. CASE ns # {}
          BY <4>3, <5>6, <3>0, <5>1, <5>3, <5>4 DEF Expose
        <5> QED BY <5>5, <5>6
      <4>4. CASE item' = s /\ orig' = o /\ current' = fresh[s] /\ Disable(s, o)
        <5>1. Disabled(o) \in GameServers
          BY <3>0, ChangedType DEF GameServers
        <5> QED BY <4>4, <3>0, <5>1, AfterApplyType DEF Disable
      <4> QED BY <2>1, <4>1, <4>2, <4>3, <4>4 DEF BeginReconcile
    <3> QED BY <2>1, <3>w DEF BeginReconcile, TypeOK
  <2>2. CASE Allocate
    <3>1. PICK f \in Allocations(l.ports, Missing(l.ports, names), usedPublicPorts) :
            LET exhausted == Missing(f, names) # {}
                o == [l EXCEPT !.ports = f,
                               !.cond = IF exhausted THEN "PoolExhausted" ELSE "Allocated"]
            IN  /\ l' = o
                /\ pc' = IF exhausted THEN AfterRoutes(orig, o) ELSE "apply"
      BY <2>2 DEF Allocate
    <3>2. l.ports \in PortMaps /\ Missing(l.ports, names) \in SUBSET PortNames
      BY DEF TypeOK, GameServers, Missing
    <3>3. f \in PortMaps
      <4> DEFINE m == Missing(l.ports, names)
      <4>1. f \in Allocations(l.ports, m, usedPublicPorts)
        BY <3>1
      <4>2. l.ports \in PortMaps /\ m \in SUBSET PortNames
        BY <3>2
      <4> HIDE DEF m
      <4>3. Gives(f, l.ports, m, usedPublicPorts)
        BY <4>1, <4>2, AllocationsGive
      <4> QED BY <4>3 DEF Gives
    <3>4. l' \in GameServers /\ pc' \in {"status", "list", "apply"}
      BY <3>1, <3>3, ChangedType DEF TypeOK, Reasons, AfterRoutes
    <3> QED BY <2>2, <3>4 DEF Allocate, TypeOK
  <2>3. ASSUME NEW p \in PortNames, ApplyRoute(p) PROVE TypeOK'
    <3>1. CASE <<item, p>> \in routes \ routeCache
      BY <2>3, <3>1, IdleType DEF ApplyRoute, Fail, TypeOK
    <3>2. CASE <<item, p>> \notin routes \ routeCache
      <4>1. routes' \subseteq Servers \X PortNames
        BY <2>3, <3>2 DEF ApplyRoute, TypeOK
      <4>2. pc' \in {"apply", "prune", "status", "list"}
            /\ todo' \subseteq PortNames \cup (Servers \X PortNames)
        BY <2>3, <3>2, AfterApplyType DEF ApplyRoute, TypeOK
      <4> QED BY <2>3, <3>2, <4>1, <4>2 DEF ApplyRoute, TypeOK
    <3> QED BY <3>1, <3>2
  <2>4. ASSUME NEW r \in Servers \X PortNames, PruneRoute(r) PROVE TypeOK'
    BY <2>4 DEF PruneRoute, AfterRoutes, TypeOK
  <2>5. CASE UpdateStatus
    <3>1. gs' \in [Servers -> GameServers]
      <4> DEFINE x == [gs[item] EXCEPT !.ports = l.ports, !.cond = l.cond]
      <4>1. gs \in [Servers -> GameServers] /\ item \in Servers /\ l \in GameServers
        BY DEF TypeOK
      <4>2. gs' = [gs EXCEPT ![item] = x]
        BY <2>5, <4>1 DEF UpdateStatus
      <4>3. x \in GameServers
        BY <4>1 DEF GameServers
      <4> HIDE DEF x
      <4> QED BY <4>1, <4>2, <4>3
    <3>2. fresh' \in [Servers -> BOOLEAN]
      BY <2>5 DEF UpdateStatus, Touch, TypeOK
    <3> QED BY <2>5, <3>1, <3>2 DEF UpdateStatus, TypeOK
  <2>6. CASE UpdateConflicts
    BY <2>6, IdleType DEF UpdateConflicts, Fail, TypeOK
  <2>7. CASE ListServers
    BY <2>7 DEF ListServers, TypeOK
  <2>8. CASE WriteGateway
    BY <2>8, IdleType DEF WriteGateway, Fail, TypeOK
  <2>9. CASE Caches
    <3>1. CASE SeeEgg \/ SeeRoutes \/ SeeGateway
      BY <3>1 DEF SeeEgg, SeeRoutes, SeeGateway, TypeOK
    <3>2. ASSUME NEW s \in Servers, SeeServer(s) PROVE TypeOK'
      BY <3>2 DEF SeeServer, TypeOK
    <3> QED BY <2>9, <3>1, <3>2 DEF Caches
  <2>10. ASSUME NEW s \in Servers,
                CreateServer(s) \/ SetExposure(s) \/ SetExtraPorts(s) \/ DeleteServer(s)
         PROVE TypeOK'
    <3>1. PICK o \in GameServers : Write(s, o)
      <4>1. CASE CreateServer(s)
        BY <4>1, ServerTypes DEF CreateServer
      <4>2. CASE SetExposure(s)
        <5>1. [gs[s] EXCEPT !.enabled = ~@] \in GameServers
          BY DEF TypeOK, GameServers
        <5> QED BY <4>2, <5>1 DEF SetExposure
      <4>3. CASE SetExtraPorts(s)
        <5>1. \A x \in Extras : [gs[s] EXCEPT !.extra = x] \in GameServers
          BY PortsAssumption DEF TypeOK, GameServers
        <5> QED BY <4>3, <5>1 DEF SetExtraPorts
      <4>4. CASE DeleteServer(s)
        <5>1. [gs[s] EXCEPT !.deleting = TRUE] \in GameServers
          BY DEF TypeOK, GameServers
        <5> QED BY <4>4, <5>1 DEF DeleteServer
      <4> QED BY <2>10, <4>1, <4>2, <4>3, <4>4
    <3>2. events' \in 0..MaxEvents
      BY <2>10, <2>e DEF CreateServer, SetExposure, SetExtraPorts, DeleteServer
    <3> QED BY <3>1, <3>2, WriteType
  <2>11. ASSUME NEW s \in Servers, ServerGone(s) PROVE TypeOK'
    BY <2>11, ServerTypes, WriteType DEF ServerGone, TypeOK
  <2>12. ASSUME NEW s \in Servers, CollectRoutes(s) PROVE TypeOK'
    BY <2>12 DEF CollectRoutes, TypeOK
  <2>13. CASE EditEgg
    BY <2>13, <2>e DEF EditEgg, TypeOK
  <2>14. CASE CallFails
    BY <2>14, <2>e, IdleType DEF CallFails, Fail, TypeOK
  <2>15. CASE OperatorRestarts
    BY <2>15, <2>e, IdleType DEF OperatorRestarts, TypeOK
  <2>16. CASE UNCHANGED vars
    BY <2>16 DEF vars, TypeOK
  <2> QED BY <2>1, <2>2, <2>3, <2>4, <2>5, <2>6, <2>7, <2>8, <2>9, <2>10, <2>11, <2>12, <2>13,
             <2>14, <2>15, <2>16 DEF Next, Worker, Environment
<1> QED BY <1>1, <1>2, PTL DEF Spec

-----------------------------------------------------------------------------
(* No public port is given out twice.                                       *)

(* No two of a server's ports have the same public port.                    *)
Injective(f) == \A p, q \in PortNames : f[p] # Unset /\ f[p] = f[q] => p = q

(* f shares no public port with a server other than s.                      *)
Apart(f, s) ==
  \A t \in Servers \ {s}, p, q \in PortNames : f[p] # Unset => f[p] # gs[t].ports[q]

(* A fresh cached copy is the server, ...                                   *)
FreshCopies == \A s \in Servers : fresh[s] => cache[s] = gs[s]

(* ... so what a worker with a current copy means to write clashes with     *)
(* nobody, and until it allocates it holds only ports the server has.       *)
Holding == {"allocate", "apply", "prune", "status"}
HeldPorts ==
  current /\ pc \in Holding =>
    /\ Injective(l.ports) /\ Apart(l.ports, item)
    /\ pc = "allocate" => \A p \in PortNames : l.ports[p] \in {gs[item].ports[p], Unset}

PortsInv == PortsDistinct /\ FreshCopies /\ HeldPorts

(* The ports of one server.                                                 *)
LEMMA DistinctSplits ==
  PortsDistinct <=> \A s \in Servers : Injective(gs[s].ports) /\ Apart(gs[s].ports, s)
BY DEF PortsDistinct, Injective, Apart

(* Keeping some of a server's ports, or none, clashes with nobody.          *)
LEMMA KeptDistinct ==
  ASSUME TypeOK, PortsDistinct, NEW s \in Servers, NEW f \in PortMaps,
         \A p \in PortNames : f[p] \in {gs[s].ports[p], Unset}
  PROVE  Injective(f) /\ Apart(f, s)
BY DEF PortsDistinct, Injective, Apart

(* A step that leaves the servers and their copies alone, and whose worker  *)
(* holds the same ports or lets go of them, keeps the invariant.            *)
LEMMA SameServers ==
  ASSUME PortsInv, UNCHANGED <<gs, cache, fresh>>,
         \/ current' = FALSE
         \/ pc' \notin Holding
         \/ /\ pc' # "allocate" \/ pc = "allocate"
            /\ pc \in Holding /\ UNCHANGED <<l, current, item>>
  PROVE  PortsInv'
<1>1. PortsDistinct' /\ FreshCopies'
  BY DEF PortsInv, PortsDistinct, FreshCopies
<1>2. HeldPorts'
  <2>1. CASE current' = FALSE \/ pc' \notin Holding
    BY <2>1 DEF HeldPorts
  <2>2. CASE /\ pc' # "allocate" \/ pc = "allocate"
             /\ pc \in Holding /\ UNCHANGED <<l, current, item>>
    <3>1. current' => Injective(l.ports)' /\ Apart(l.ports, item)'
      BY <2>2 DEF PortsInv, HeldPorts, Injective, Apart
    <3>2. current' /\ pc' = "allocate" => \A p \in PortNames : l'.ports[p] \in {gs'[item'].ports[p], Unset}
      BY <2>2 DEF PortsInv, HeldPorts
    <3> QED BY <3>1, <3>2 DEF HeldPorts
  <2> QED BY <2>1, <2>2
<1> QED BY <1>1, <1>2 DEF PortsInv

(* An Event's write drops no invariant if it changes no port or removes     *)
(* them all.                                                                *)
LEMMA WriteKeeps ==
  ASSUME TypeOK, PortsInv, NEW s \in Servers, NEW o \in GameServers, Write(s, o),
         o.ports = gs[s].ports \/ o.ports = NoPorts
  PROVE  PortsInv'
<1>1. gs' = [gs EXCEPT ![s] = o] /\ gs \in [Servers -> GameServers]
  BY DEF Write, TypeOK
<1>2. \A t \in Servers, p \in PortNames : gs'[t].ports[p] \in {gs[t].ports[p], Unset}
  BY <1>1 DEF NoPorts
<1>3. PortsDistinct'
  BY <1>2 DEF PortsInv, PortsDistinct
<1>4. FreshCopies'
  BY <1>1 DEF PortsInv, FreshCopies, Write, Touch, TypeOK
<1>5. HeldPorts'
  <2> SUFFICES ASSUME current', pc' \in Holding PROVE HeldPorts'
    BY DEF HeldPorts
  <2>1. current /\ item # s /\ pc \in Holding /\ UNCHANGED <<pc, item, l>>
    BY DEF Write
  <2>2. gs'[item] = gs[item] /\ item \in Servers
    BY <1>1, <2>1 DEF TypeOK
  <2>3. Apart(l.ports, item)'
    BY <1>2, <2>1 DEF PortsInv, HeldPorts, Apart
  <2> QED BY <2>1, <2>2, <2>3 DEF PortsInv, HeldPorts, Injective
<1> QED BY <1>3, <1>4, <1>5 DEF PortsInv

(* The public ports in the statuses are pairwise different, whatever the    *)
(* number of servers, the range and what the caches show                    *)
(* (reconcileOne, usedPublicPorts, Reconcile's Status().Update).            *)
THEOREM PortsGivenOnce == Spec => []PortsDistinct
<1> USE DEF cacheVars, eggVars, routeVars, gwVars, workerVars
<1>1. Init => PortsInv
  <2> SUFFICES ASSUME Init PROVE PortsInv
    OBVIOUS
  <2>1. \A s \in Servers, p \in PortNames : gs[s].ports[p] = Unset
    BY DEF Init, NewServer, Absent, NoPorts
  <2> QED BY <2>1 DEF Init, PortsInv, PortsDistinct, FreshCopies, HeldPorts
<1>2. TypeOK /\ PortsInv /\ [Next]_vars => PortsInv'
  <2> SUFFICES ASSUME TypeOK, PortsInv, [Next]_vars PROVE PortsInv'
    OBVIOUS
  <2>i. Idle => current' = FALSE
    BY DEF Idle
  <2>1. ASSUME NEW s \in Servers, BeginReconcile(s) PROVE PortsInv'
    <3> DEFINE o == cache[s]
    <3>1. CASE NotFound(s) \/ UNCHANGED workerVars
      BY <2>1, <3>1, SameServers DEF BeginReconcile, NotFound
    <3>2. CASE /\ item' = s /\ current' = fresh[s]
               /\ Expose(s, o) \/ Disable(s, o)
      <4>1. CASE ~fresh[s]
        BY <2>1, <3>2, <4>1, SameServers DEF BeginReconcile, TypeOK
      <4>2. CASE fresh[s]
        <5>1. o = gs[s] /\ o \in GameServers
          BY <4>2 DEF PortsInv, FreshCopies, TypeOK
        <5>2. l'.ports \in PortMaps /\ \A p \in PortNames : l'.ports[p] \in {gs[s].ports[p], Unset}
          <6>1. CASE Expose(s, o)
            <7> DEFINE f == Kept(o, EffectivePorts(eggCache, o))
            <7>1. l'.ports = f
              BY <6>1, <5>1 DEF Expose, GameServers
            <7>2. f \in PortMaps
              BY <5>1, KeptType
            <7>3. \A p \in PortNames : f[p] \in {gs[s].ports[p], Unset}
              BY <5>1 DEF Kept
            <7> QED BY <7>1, <7>2, <7>3
          <6>2. CASE Disable(s, o)
            <7>1. l'.ports = NoPorts
              BY <6>2, <5>1 DEF Disable, Disabled, GameServers
            <7> QED BY <7>1 DEF NoPorts, PortMaps
          <6> QED BY <3>2, <6>1, <6>2
        <5>3. Injective(l'.ports) /\ Apart(l'.ports, s)
          BY <5>2, KeptDistinct DEF PortsInv
        <5>4. HeldPorts'
          BY <2>1, <3>2, <5>2, <5>3 DEF HeldPorts, Injective, Apart, BeginReconcile
        <5>5. PortsDistinct' /\ FreshCopies'
          BY <2>1 DEF PortsInv, PortsDistinct, FreshCopies, BeginReconcile
        <5> QED BY <5>4, <5>5 DEF PortsInv
      <4> QED BY <4>1, <4>2
    <3> QED BY <2>1, <3>1, <3>2 DEF BeginReconcile
  <2>2. CASE Allocate
    <3>1. PortsDistinct' /\ FreshCopies'
      BY <2>2 DEF Allocate, PortsInv, PortsDistinct, FreshCopies
    <3>2. HeldPorts'
      <4> SUFFICES ASSUME current PROVE HeldPorts'
        BY <2>2 DEF Allocate, HeldPorts
      <4> DEFINE m == Missing(l.ports, names)
      <4>1. PICK f \in Allocations(l.ports, m, usedPublicPorts) : l'.ports = f
        <5>1. \A f, c : [l EXCEPT !.ports = f, !.cond = c].ports = f
          BY DEF TypeOK, GameServers
        <5> QED BY <2>2, <5>1 DEF Allocate
      <4>2. l.ports \in PortMaps /\ m \in SUBSET PortNames
        BY DEF TypeOK, GameServers, Missing
      <4>3. /\ f \in PortMaps
            /\ \A p \in PortNames \ m : f[p] = l.ports[p]
            /\ \A p \in m : f[p] # Unset => f[p] \notin usedPublicPorts
            /\ \A p, q \in m : f[p] = f[q] /\ f[p] # Unset => p = q
        <5>1. f \in Allocations(l.ports, m, usedPublicPorts)
          BY <4>1
        <5> HIDE DEF m
        <5>2. Gives(f, l.ports, m, usedPublicPorts)
          BY <5>1, <4>2, AllocationsGive
        <5> QED BY <5>2 DEF Gives
      <4>4. /\ Injective(l.ports) /\ Apart(l.ports, item)
            /\ \A p \in PortNames : l.ports[p] \in {gs[item].ports[p], Unset}
        BY <2>2 DEF PortsInv, HeldPorts, Holding, Allocate
      <4>5. \A t \in Servers, q \in PortNames :
              gs[t].ports[q] = Unset \/ gs[t].ports[q] \in usedPublicPorts
        BY DEF usedPublicPorts
      <4>6. Injective(f)
        BY <4>3, <4>4, <4>5 DEF Injective, TypeOK
      <4>7. Apart(f, item)
        BY <4>3, <4>4, <4>5 DEF Apart
      <4>8. pc' # "allocate" /\ UNCHANGED <<gs, item>>
        BY <2>2 DEF Allocate, AfterRoutes
      <4> QED BY <4>1, <4>6, <4>7, <4>8 DEF HeldPorts, Injective, Apart
    <3> QED BY <3>1, <3>2 DEF PortsInv
  <2>3. ASSUME NEW p \in PortNames, ApplyRoute(p) PROVE PortsInv'
    <3>1. current' = FALSE \/ (pc' # "allocate" /\ UNCHANGED <<l, current, item>>)
      BY <2>3, <2>i DEF ApplyRoute, Fail, AfterApply, AfterRoutes
    <3> QED BY <2>3, <3>1, SameServers DEF ApplyRoute, Holding
  <2>4. ASSUME NEW r \in Servers \X PortNames, PruneRoute(r) PROVE PortsInv'
    BY <2>4, SameServers DEF PruneRoute, AfterRoutes, Holding
  <2>5. CASE UpdateStatus
    <3>1. Injective(l.ports) /\ Apart(l.ports, item)
      BY <2>5 DEF UpdateStatus, PortsInv, HeldPorts, Holding
    <3>2. /\ gs'[item].ports = l.ports /\ item \in Servers
          /\ \A t \in Servers \ {item} : gs'[t] = gs[t]
      BY <2>5 DEF UpdateStatus, TypeOK, GameServers
    <3>3. PortsDistinct'
      <4> SUFFICES ASSUME NEW s \in Servers, NEW t \in Servers, NEW p \in PortNames,
                          NEW q \in PortNames,
                          gs'[s].ports[p] # Unset, gs'[s].ports[p] = gs'[t].ports[q]
                   PROVE  s = t /\ p = q
        BY DEF PortsDistinct
      <4>1. CASE s = item /\ t = item
        BY <3>1, <3>2, <4>1 DEF Injective
      <4>2. CASE s = item /\ t # item
        BY <3>1, <3>2, <4>2 DEF Apart
      <4>3. CASE s # item /\ t = item
        BY <3>1, <3>2, <4>3 DEF Apart
      <4>4. CASE s # item /\ t # item
        BY <3>2, <4>4 DEF PortsInv, PortsDistinct
      <4> QED BY <4>1, <4>2, <4>3, <4>4
    <3>4. FreshCopies'
      BY <2>5, <3>2 DEF UpdateStatus, Touch, PortsInv, FreshCopies, TypeOK
    <3>5. HeldPorts'
      BY <2>5 DEF UpdateStatus, HeldPorts, Holding
    <3> QED BY <3>3, <3>4, <3>5 DEF PortsInv
  <2>6. CASE UpdateConflicts \/ ListServers \/ WriteGateway \/ CallFails
    BY <2>6, <2>i, SameServers
       DEF UpdateConflicts, ListServers, WriteGateway, CallFails, Fail, Holding
  <2>7. CASE Caches
    <3>1. CASE SeeEgg \/ SeeRoutes \/ SeeGateway
      <4>1. UNCHANGED <<gs, cache, fresh, pc, item, l, current>>
        BY <3>1 DEF SeeEgg, SeeRoutes, SeeGateway
      <4> QED BY <4>1 DEF PortsInv, PortsDistinct, FreshCopies, HeldPorts, Injective, Apart
    <3>2. ASSUME NEW s \in Servers, SeeServer(s) PROVE PortsInv'
      <4>1. FreshCopies'
        BY <3>2 DEF SeeServer, PortsInv, FreshCopies, TypeOK
      <4>2. PortsDistinct' /\ HeldPorts'
        BY <3>2 DEF SeeServer, PortsInv, PortsDistinct, HeldPorts, Injective, Apart
      <4> QED BY <4>1, <4>2 DEF PortsInv
    <3> QED BY <2>7, <3>1, <3>2 DEF Caches
  <2>8. ASSUME NEW s \in Servers,
               \/ CreateServer(s) \/ SetExposure(s) \/ SetExtraPorts(s) \/ DeleteServer(s)
               \/ ServerGone(s)
        PROVE  PortsInv'
    <3>1. gs[s] \in GameServers
      BY DEF TypeOK
    <3>2. PICK o \in GameServers :
            Write(s, o) /\ (o.ports = gs[s].ports \/ o.ports = NoPorts)
      <4>1. CASE CreateServer(s)
        <5>1. \A b \in BOOLEAN, x \in Extras : NewServer(b, x).ports = NoPorts
          BY DEF NewServer, Absent
        <5> QED BY <4>1, <5>1, ServerTypes DEF CreateServer
      <4>2. CASE SetExposure(s)
        <5>1. LET o == [gs[s] EXCEPT !.enabled = ~@]
              IN  o \in GameServers /\ o.ports = gs[s].ports
          BY <3>1 DEF GameServers
        <5> QED BY <4>2, <5>1 DEF SetExposure
      <4>3. CASE SetExtraPorts(s)
        <5>1. \A x \in Extras : LET o == [gs[s] EXCEPT !.extra = x]
                                IN  o \in GameServers /\ o.ports = gs[s].ports
          BY <3>1, PortsAssumption DEF GameServers
        <5> QED BY <4>3, <5>1 DEF SetExtraPorts
      <4>4. CASE DeleteServer(s)
        <5>1. LET o == [gs[s] EXCEPT !.deleting = TRUE]
              IN  o \in GameServers /\ o.ports = gs[s].ports
          BY <3>1 DEF GameServers
        <5> QED BY <4>4, <5>1 DEF DeleteServer
      <4>5. CASE ServerGone(s)
        <5>1. Absent.ports = NoPorts
          BY DEF Absent
        <5> QED BY <4>5, <5>1, ServerTypes DEF ServerGone
      <4> QED BY <2>8, <4>1, <4>2, <4>3, <4>4, <4>5
    <3> QED BY <3>2, WriteKeeps
  <2>9. CASE (\E s \in Servers : CollectRoutes(s)) \/ EditEgg \/ UNCHANGED vars
    <3>1. UNCHANGED <<gs, cache, fresh, pc, item, l, current>>
      BY <2>9 DEF CollectRoutes, EditEgg, vars
    <3> QED BY <3>1 DEF PortsInv, PortsDistinct, FreshCopies, HeldPorts, Injective, Apart
  <2>10. CASE OperatorRestarts
    <3>1. PortsDistinct' /\ FreshCopies'
      BY <2>10 DEF OperatorRestarts, PortsInv, PortsDistinct, FreshCopies
    <3>2. HeldPorts'
      BY <2>10, <2>i DEF OperatorRestarts, HeldPorts
    <3> QED BY <3>1, <3>2 DEF PortsInv
  <2> QED BY <2>1, <2>2, <2>3, <2>4, <2>5, <2>6, <2>7, <2>8, <2>9, <2>10
      DEF Next, Worker, Environment
<1>3. PortsInv => PortsDistinct
  BY DEF PortsInv
<1> QED BY <1>1, <1>2, <1>3, TypeCorrect, PTL DEF Spec

-----------------------------------------------------------------------------
(* An exposed server keeps its public ports.                                *)

(* A server that is not there is blank, and a worker with a current copy of *)
(* a server that is exposed means to write the ports that last as they are. *)
KeepInv ==
  /\ FreshCopies
  /\ \A s \in Servers : ~gs[s].exists => gs[s] = Absent
  /\ current /\ pc \in Holding =>
       /\ gs[item].exists
       /\ gs[item].enabled =>
            \A p \in Lasting(item) : gs[item].ports[p] # Unset => l.ports[p] = gs[item].ports[p]

(* One step keeps the ports of an exposed server.                           *)
PortsKept ==
  \A s \in Servers : \A p \in Lasting(s) :
    gs[s].enabled /\ gs'[s].enabled /\ gs[s].ports[p] # Unset
    => gs'[s].ports[p] = gs[s].ports[p]

(* A step that leaves the servers and their copies alone, and whose worker  *)
(* holds the same ports or lets go of them, keeps the invariant.            *)
LEMMA KeepSameServers ==
  ASSUME KeepInv, UNCHANGED <<gs, cache, fresh>>,
         \/ current' = FALSE
         \/ pc' \notin Holding
         \/ pc \in Holding /\ UNCHANGED <<l, current, item>>
  PROVE  KeepInv'
<1>1. FreshCopies' /\ \A s \in Servers : Lasting(s)' = Lasting(s)
  BY DEF KeepInv, FreshCopies, Lasting
<1>2. CASE current' = FALSE \/ pc' \notin Holding
  BY <1>1, <1>2 DEF KeepInv
<1>3. CASE pc \in Holding /\ UNCHANGED <<l, current, item>>
  BY <1>1, <1>3 DEF KeepInv, Lasting
<1> QED BY <1>2, <1>3

(* So does the write of somebody else, which changes no port, or creates or *)
(* removes the server.                                                      *)
LEMMA KeepWrite ==
  ASSUME TypeOK, KeepInv, NEW s \in Servers, NEW o \in GameServers, Write(s, o),
         ~o.exists => o = Absent,
         \/ o.ports = gs[s].ports
         \/ o = Absent
         \/ ~gs[s].exists
  PROVE  KeepInv' /\ PortsKept
<1>1. gs' = [gs EXCEPT ![s] = o] /\ gs \in [Servers -> GameServers]
  BY DEF Write, TypeOK
<1>2. FreshCopies'
  BY <1>1 DEF KeepInv, FreshCopies, Write, Touch, TypeOK
<1>3. (\A t \in Servers : ~gs[t].exists => gs[t] = Absent)'
  BY <1>1 DEF KeepInv
<1>4. ASSUME current', pc' \in Holding
      PROVE  KeepInv'
  <2>1. gs'[item] = gs[item] /\ current /\ pc \in Holding /\ UNCHANGED <<item, l>>
    BY <1>1, <1>4 DEF Write, TypeOK
  <2>2. Lasting(item)' = Lasting(item)
    BY <2>1 DEF Lasting
  <2> QED BY <1>2, <1>3, <2>1, <2>2 DEF KeepInv
<1>5. PortsKept
  <2>1. ~Absent.enabled /\ \A p \in PortNames : Absent.ports[p] = Unset
    BY DEF Absent, NoPorts
  <2> QED BY <1>1, <2>1 DEF PortsKept, KeepInv, Lasting
<1> QED BY <1>2, <1>3, <1>4, <1>5 DEF KeepInv

(* What a request writes to a server: its ports stay, or it is created, or   *)
(* nothing is left of it.                                                   *)
Request(s) ==
  \/ CreateServer(s) \/ SetExposure(s) \/ SetExtraPorts(s) \/ DeleteServer(s)
  \/ ServerGone(s)

LEMMA Requests ==
  ASSUME TypeOK, NEW s \in Servers, Request(s)
  PROVE  \E o \in GameServers :
           /\ Write(s, o) /\ (~o.exists => o = Absent)
           /\ o.ports = gs[s].ports \/ o = Absent \/ ~gs[s].exists
<1>1. gs[s] \in GameServers
  BY DEF TypeOK
<1>2. PICK o \in GameServers :
        /\ Write(s, o) /\ (~o.exists => o = Absent)
        /\ o.ports = gs[s].ports \/ o = Absent \/ ~gs[s].exists
  <2>1. CASE CreateServer(s)
    <3>1. \A b \in BOOLEAN, x \in Extras : NewServer(b, x).exists
      BY DEF NewServer, Absent
    <3> QED BY <2>1, <3>1, ServerTypes DEF CreateServer
  <2>2. CASE SetExposure(s)
    <3>1. LET o == [gs[s] EXCEPT !.enabled = ~@]
          IN  o \in GameServers /\ o.ports = gs[s].ports /\ o.exists = gs[s].exists
      BY <1>1 DEF GameServers
    <3> QED BY <2>2, <3>1 DEF SetExposure, Live
  <2>3. CASE SetExtraPorts(s)
    <3>1. \A x \in Extras :
            LET o == [gs[s] EXCEPT !.extra = x]
            IN  o \in GameServers /\ o.ports = gs[s].ports /\ o.exists = gs[s].exists
      BY <1>1, PortsAssumption DEF GameServers
    <3> QED BY <2>3, <3>1 DEF SetExtraPorts, Live
  <2>4. CASE DeleteServer(s)
    <3>1. LET o == [gs[s] EXCEPT !.deleting = TRUE]
          IN  o \in GameServers /\ o.ports = gs[s].ports /\ o.exists = gs[s].exists
      BY <1>1 DEF GameServers
    <3> QED BY <2>4, <3>1 DEF DeleteServer, Live
  <2>5. CASE ServerGone(s)
    BY <2>5, ServerTypes DEF ServerGone
  <2> QED BY <2>1, <2>2, <2>3, <2>4, <2>5 DEF Request
<1> QED BY <1>2

(* Both hold of every behaviour.                                           *)
LEMMA Keeping == Spec => []KeepInv /\ AddressStable
<1> USE DEF cacheVars, eggVars, routeVars, gwVars, workerVars
<1>1. Init => KeepInv
  BY DEF Init, KeepInv, FreshCopies, Holding, NewServer, Absent
<1>2. TypeOK /\ KeepInv /\ [Next]_vars => KeepInv' /\ [PortsKept]_vars
  <2> SUFFICES ASSUME TypeOK, KeepInv, [Next]_vars PROVE KeepInv' /\ [PortsKept]_vars
    OBVIOUS
  <2>i. Idle => current' = FALSE
    BY DEF Idle
  <2>k. gs' = gs => PortsKept
    BY DEF PortsKept
  <2>1. ASSUME NEW s \in Servers, BeginReconcile(s) PROVE KeepInv'
    <3> DEFINE o == cache[s]
    <3>1. CASE NotFound(s) \/ UNCHANGED workerVars
      BY <2>1, <3>1, KeepSameServers DEF BeginReconcile, NotFound
    <3>2. CASE /\ o.exists /\ item' = s /\ current' = fresh[s]
               /\ (o.enabled /\ Expose(s, o)) \/ (~o.enabled /\ Disable(s, o))
      <4>1. CASE ~fresh[s]
        BY <2>1, <3>2, <4>1, KeepSameServers DEF BeginReconcile, TypeOK
      <4>2. CASE fresh[s]
        <5>1. o = gs[s] /\ o \in GameServers
          BY <4>2 DEF KeepInv, FreshCopies, TypeOK
        <5>2. ASSUME o.enabled, NEW p \in Lasting(s) PROVE l'.ports[p] = gs[s].ports[p]
          <6>1. l'.ports = Kept(o, EffectivePorts(eggCache, o))
            BY <3>2, <5>1, <5>2 DEF Expose, GameServers
          <6>2. p \in EffectivePorts(eggCache, o)
            BY <5>1, <5>2 DEF Lasting, EffectivePorts, TypeOK, Eggs
          <6> QED BY <5>1, <6>1, <6>2 DEF Kept, Lasting
        <5>3. UNCHANGED <<gs, cache, fresh>>
          BY <2>1 DEF BeginReconcile
        <5>4. Lasting(s)' = Lasting(s) /\ FreshCopies'
          BY <5>3 DEF Lasting, FreshCopies, KeepInv
        <5> QED BY <3>2, <5>1, <5>2, <5>3, <5>4 DEF KeepInv
      <4> QED BY <4>1, <4>2
    <3> QED BY <2>1, <3>1, <3>2 DEF BeginReconcile
  <2>2. CASE Allocate
    <3>1. UNCHANGED <<gs, cache, fresh, item, current>> /\ pc = "allocate"
      BY <2>2 DEF Allocate
    <3>2. ASSUME NEW p \in PortNames, l.ports[p] # Unset PROVE l'.ports[p] = l.ports[p]
      <4> DEFINE m == Missing(l.ports, names)
      <4>1. PICK f \in Allocations(l.ports, m, usedPublicPorts) : l'.ports = f
        <5>1. \A f, c : [l EXCEPT !.ports = f, !.cond = c].ports = f
          BY DEF TypeOK, GameServers
        <5> QED BY <2>2, <5>1 DEF Allocate
      <4>2. l.ports \in PortMaps /\ m \in SUBSET PortNames /\ p \notin m
        BY <3>2 DEF TypeOK, GameServers, Missing
      <4>3. Gives(f, l.ports, m, usedPublicPorts)
        <5>1. f \in Allocations(l.ports, m, usedPublicPorts)
          BY <4>1
        <5> HIDE DEF m
        <5> QED BY <5>1, <4>2, AllocationsGive
      <4> QED BY <4>1, <4>2, <4>3 DEF Gives
    <3>3. \A p \in Lasting(item) : p \in PortNames
      BY DEF Lasting
    <3>4. (\A s \in Servers : Lasting(s)' = Lasting(s)) /\ FreshCopies'
      BY <3>1 DEF Lasting, FreshCopies, KeepInv
    <3>5. /\ Lasting(item)' = Lasting(item)
          /\ current => /\ gs[item].exists
                        /\ gs[item].enabled =>
                             \A p \in Lasting(item) :
                               gs[item].ports[p] # Unset => l.ports[p] = gs[item].ports[p]
      BY <3>1, <3>4 DEF KeepInv, Holding, TypeOK
    <3>6. current /\ gs[item].enabled =>
            \A p \in Lasting(item) : gs[item].ports[p] # Unset => l'.ports[p] = gs[item].ports[p]
      BY <3>2, <3>3, <3>5
    <3> QED BY <3>1, <3>4, <3>5, <3>6, <2>k DEF KeepInv, Lasting
  <2>3. ASSUME NEW p \in PortNames, ApplyRoute(p) PROVE KeepInv'
    <3>1. current' = FALSE \/ UNCHANGED <<l, current, item>>
      BY <2>3, <2>i DEF ApplyRoute, Fail
    <3> QED BY <2>3, <3>1, KeepSameServers DEF ApplyRoute, Holding
  <2>4. ASSUME NEW r \in Servers \X PortNames, PruneRoute(r) PROVE KeepInv'
    BY <2>4, KeepSameServers DEF PruneRoute, Holding
  <2>5. CASE UpdateStatus
    <3>1. /\ gs' = [gs EXCEPT ![item].ports = l.ports, ![item].cond = l.cond]
          /\ item \in Servers /\ gs \in [Servers -> GameServers] /\ gs[item].exists
      BY <2>5 DEF UpdateStatus, TypeOK, KeepInv, Holding
    <3>2. /\ gs'[item].ports = l.ports /\ gs'[item].exists
          /\ \A t \in Servers \ {item} : gs'[t] = gs[t]
      BY <3>1 DEF GameServers
    <3>3. FreshCopies'
      BY <2>5, <3>2 DEF UpdateStatus, Touch, KeepInv, FreshCopies, TypeOK
    <3>4. PortsKept
      <4>1. ASSUME NEW t \in Servers, NEW p \in Lasting(t), t # item
            PROVE  gs'[t].ports[p] = gs[t].ports[p]
        BY <3>2, <4>1
      <4>2. current /\ pc \in Holding
        BY <2>5 DEF UpdateStatus, Holding
      <4>3. ASSUME NEW p \in Lasting(item), gs[item].enabled, gs[item].ports[p] # Unset
            PROVE  gs'[item].ports[p] = gs[item].ports[p]
        BY <3>2, <4>2, <4>3 DEF KeepInv
      <4> QED BY <4>1, <4>3 DEF PortsKept
    <3>5. KeepInv'
      BY <2>5, <3>2, <3>3 DEF KeepInv, UpdateStatus, Holding
    <3> QED BY <3>4, <3>5
  <2>6. CASE UpdateConflicts \/ ListServers \/ WriteGateway \/ CallFails
    BY <2>6, <2>i, KeepSameServers, <2>k
       DEF UpdateConflicts, ListServers, WriteGateway, CallFails, Fail, Holding
  <2>7. CASE Caches
    <3>1. CASE SeeEgg \/ SeeRoutes \/ SeeGateway
      <4>1. UNCHANGED <<gs, cache, fresh, pc, item, l, current>>
        BY <3>1 DEF SeeEgg, SeeRoutes, SeeGateway
      <4> QED BY <4>1, <2>k DEF KeepInv, FreshCopies, Lasting
    <3>2. ASSUME NEW s \in Servers, SeeServer(s) PROVE KeepInv' /\ gs' = gs
      <4>1. FreshCopies'
        BY <3>2 DEF SeeServer, KeepInv, FreshCopies, TypeOK
      <4>2. UNCHANGED <<gs, pc, item, l, current>>
        BY <3>2 DEF SeeServer
      <4> QED BY <4>1, <4>2 DEF KeepInv, Lasting
    <3> QED BY <2>7, <3>1, <3>2, <2>k DEF Caches
  <2>8. ASSUME NEW s \in Servers, Request(s)
        PROVE  KeepInv' /\ PortsKept
    <3> QED BY <2>8, Requests, KeepWrite
  <2>9. CASE (\E s \in Servers : CollectRoutes(s)) \/ EditEgg \/ UNCHANGED vars
    <3>1. UNCHANGED <<gs, cache, fresh, pc, item, l, current>>
      BY <2>9 DEF CollectRoutes, EditEgg, vars
    <3> QED BY <3>1, <2>k DEF KeepInv, FreshCopies, Lasting
  <2>10. CASE OperatorRestarts
    <3>1. gs' = gs /\ FreshCopies' /\ current' = FALSE
      BY <2>10, <2>i DEF OperatorRestarts, FreshCopies
    <3> QED BY <3>1, <2>k DEF KeepInv
  <2>11. CASE Allocate \/ (Worker /\ ~UpdateStatus)
    <3>1. gs' = gs
      BY <2>11 DEF Worker, BeginReconcile, Allocate, ApplyRoute, PruneRoute, UpdateConflicts,
                   ListServers, WriteGateway
    <3> QED BY <3>1, <2>k, <2>1, <2>2, <2>3, <2>4, <2>6, <2>11 DEF Worker
  <2> QED BY <2>5, <2>6, <2>7, <2>8, <2>9, <2>10, <2>11 DEF Next, Worker, Environment, Request
<1>3. [PortsKept]_vars =>
        [\A s \in Servers : \A p \in Lasting(s) :
           gs[s].enabled /\ gs'[s].enabled /\ gs[s].ports[p] # Unset
           => gs'[s].ports[p] = gs[s].ports[p]]_vars
  BY DEF PortsKept
<1> QED BY <1>1, <1>2, <1>3, TypeCorrect, PTL DEF Spec, AddressStable

(* While a server stays exposed, a port that lasts keeps its public port,   *)
(* whatever the Egg, the caches and the other servers do (reconcileOne,     *)
(* Reconcile's Status().Update).                                            *)
THEOREM AddressKept == Spec => AddressStable
BY Keeping

-----------------------------------------------------------------------------
(* A public port is given up last.                                          *)

(* The routes of the worker's server to ports it should not expose.         *)
Leaving == {r \in routes : r[1] = item /\ r[2] \notin names}

(* Until it deletes them the worker knows them all, and it writes the       *)
(* status of a server with a port for each name only without them.          *)
Swept ==
  /\ pc \in {"allocate", "apply"} => Leaving \subseteq routeCache /\ todo \subseteq names
  /\ pc = "prune" => Leaving \subseteq todo /\ \A r \in todo : r[1] = item /\ r[2] \notin names
  /\ pc = "status" /\ l.cond # "PoolExhausted" => Leaving = {}
  /\ pc \in {"apply", "prune", "status"} /\ l.cond # "PoolExhausted"
     => \A p \in names : l.ports[p] # Unset

(* Once the routes are applied, all that remain are to be deleted.          *)
LEMMA SweptAfterApply ==
  ASSUME TypeOK, NEW s, NEW ns, NEW o, NEW o1,
         AfterApply(s, ns, o, o1), item' = s, names' = ns, l' = o1,
         {r \in routes' : r[1] = s /\ r[2] \notin ns} \subseteq routeCache,
         o1.cond # "PoolExhausted" => \A p \in ns : o1.ports[p] # Unset
  PROVE  Swept'
<1>1. Leaving' = {r \in routes' : r[1] = s /\ r[2] \notin ns}
  BY DEF Leaving
<1>2. Leaving' \subseteq Stale(s, ns)
  BY <1>1 DEF Stale
<1>3. CASE Stale(s, ns) # {}
  BY <1>2, <1>3 DEF AfterApply, Stale, Swept
<1>4. CASE Stale(s, ns) = {}
  BY <1>2, <1>4 DEF AfterApply, AfterRoutes, Swept
<1> QED BY <1>3, <1>4

(* A server with a port for each of ns, as the worker would write it.       *)
LEMMA ExposedWhole ==
  ASSUME NEW o \in GameServers, NEW ns, Missing(Kept(o, ns), ns) = {}
  PROVE  \A p \in ns : Kept(o, ns)[p] # Unset
BY DEF Missing

(* A reconcile that has begun.                                              *)
LEMMA SweptBegins ==
  ASSUME TypeOK, Swept, NEW s \in Servers, BeginReconcile(s), routeCache = routes
  PROVE  Swept'
<1> USE DEF cacheVars, eggVars, routeVars, gwVars, workerVars
<1> DEFINE o == cache[s]
<1>0. o \in GameServers /\ UNCHANGED <<routes, routeCache>> /\ pc = "idle"
  BY DEF TypeOK, BeginReconcile
<1>1. CASE NotFound(s) \/ UNCHANGED workerVars
  BY <1>0, <1>1 DEF NotFound, Swept
<1>2. CASE item' = s /\ Disable(s, o)
  <2>1. \A p \in {} : Disabled(o).ports[p] # Unset
    OBVIOUS
  <2> QED BY <1>0, <1>2, <2>1, SweptAfterApply DEF Disable
<1>3. CASE item' = s /\ Expose(s, o)
  <2> DEFINE ns == EffectivePorts(eggCache, o)
             f == Kept(o, ns)
             full == Missing(f, ns) = {}
             o1 == [o EXCEPT !.ports = f, !.cond = IF full THEN "Allocated" ELSE @]
  <2>1. names' = ns /\ l' = o1 /\ item' = s
    BY <1>3 DEF Expose
  <2>2. CASE ns = {}
    <3>1. AfterApply(s, ns, o, o1)
      BY <1>3, <2>2 DEF Expose
    <3>2. {r \in routes' : r[1] = s /\ r[2] \notin ns} \subseteq routeCache
      BY <1>0
    <3>3. \A p \in ns : o1.ports[p] # Unset
      BY <2>2
    <3> HIDE DEF ns, o1
    <3> QED BY <2>1, <3>1, <3>2, <3>3, SweptAfterApply
  <2>3. CASE ns # {}
    <3>1. todo' = ns /\ pc' = IF full THEN "apply" ELSE "allocate"
      BY <1>3, <2>3 DEF Expose
    <3>2. full => \A p \in ns : o1.ports[p] # Unset
      BY <1>0 DEF Missing, GameServers
    <3>3. Leaving' \subseteq routeCache'
      BY <1>0 DEF Leaving
    <3> QED BY <2>1, <3>1, <3>2, <3>3 DEF Swept
  <2> QED BY <2>2, <2>3
<1> QED BY <1>1, <1>2, <1>3 DEF BeginReconcile

(* What an allocation writes.                                               *)
LEMMA AllocateWrites ==
  ASSUME TypeOK, Allocate
  PROVE  /\ Gives(l'.ports, l.ports, Missing(l.ports, names), usedPublicPorts)
         /\ l'.enabled = l.enabled
         /\ \/ Missing(l'.ports, names) # {} /\ l'.cond = "PoolExhausted" /\ pc' \in {"status", "list"}
               /\ pc' = AfterRoutes(orig, l')
            \/ Missing(l'.ports, names) = {} /\ l'.cond = "Allocated" /\ pc' = "apply"
<1> DEFINE m == Missing(l.ports, names)
           wr(f) == [l EXCEPT !.ports = f,
                       !.cond = IF Missing(f, names) # {} THEN "PoolExhausted" ELSE "Allocated"]
<1>1. PICK f \in Allocations(l.ports, m, usedPublicPorts) :
        /\ l' = wr(f)
        /\ pc' = IF Missing(f, names) # {} THEN AfterRoutes(orig, wr(f)) ELSE "apply"
  BY DEF Allocate
<1>2. /\ l'.ports = f /\ l'.enabled = l.enabled
      /\ l'.cond = IF Missing(f, names) # {} THEN "PoolExhausted" ELSE "Allocated"
  BY <1>1 DEF TypeOK, GameServers
<1>3. l.ports \in PortMaps /\ m \in SUBSET PortNames
  BY DEF TypeOK, GameServers, Missing
<1>4. Gives(f, l.ports, m, usedPublicPorts)
  <2>1. f \in Allocations(l.ports, m, usedPublicPorts)
    BY <1>1
  <2> HIDE DEF m
  <2> QED BY <2>1, <1>3, AllocationsGive
<1> QED BY <1>1, <1>2, <1>4 DEF AfterRoutes

(* The routes the worker meets.                                             *)
LEMMA SweptRoutes ==
  ASSUME TypeOK, Swept,
         (\E p \in PortNames : ApplyRoute(p)) \/ (\E r \in Servers \X PortNames : PruneRoute(r))
  PROVE  Swept'
<1> USE DEF cacheVars, eggVars, routeVars, gwVars, workerVars
<1>1. ASSUME NEW p \in PortNames, ApplyRoute(p) PROVE Swept'
  <2>1. CASE <<item, p>> \in routes \ routeCache
    BY <1>1, <2>1 DEF ApplyRoute, Fail, Idle, Swept
  <2>2. CASE <<item, p>> \notin routes \ routeCache
    <3>1. /\ routes' \in {routes, routes \cup {<<item, p>>}} /\ p \in todo /\ pc = "apply"
          /\ UNCHANGED <<item, names, l, routeCache>>
      BY <1>1, <2>2 DEF ApplyRoute
    <3>2. Leaving' = Leaving
      BY <3>1 DEF Leaving, Swept
    <3>3. CASE todo # {p}
      BY <1>1, <2>2, <3>1, <3>2, <3>3 DEF ApplyRoute, Swept
    <3>4. CASE todo = {p}
      <4>1. AfterApply(item, names, orig, l)
        BY <1>1, <2>2, <3>4 DEF ApplyRoute
      <4>2. {r \in routes' : r[1] = item /\ r[2] \notin names} \subseteq routeCache
        BY <3>1, <3>2 DEF Leaving, Swept
      <4>3. l.cond # "PoolExhausted" => \A q \in names : l.ports[q] # Unset
        BY <3>1 DEF Swept
      <4> QED BY <3>1, <4>1, <4>2, <4>3, SweptAfterApply
    <3> QED BY <3>3, <3>4
  <2> QED BY <2>1, <2>2
<1>2. ASSUME NEW r \in Servers \X PortNames, PruneRoute(r) PROVE Swept'
  <2>1. /\ Leaving' = Leaving \ {r} /\ pc = "prune" /\ todo' = todo \ {r}
        /\ UNCHANGED <<names, l, item>>
    BY <1>2 DEF PruneRoute, Leaving
  <2>2. \/ pc' = "prune"
        \/ todo' = {} /\ pc' \in {"status", "list"}
    BY <1>2 DEF PruneRoute, AfterRoutes
  <2> QED BY <2>1, <2>2 DEF Swept
<1> QED BY <1>1, <1>2

(* No step upsets it, if a reconcile finds the operator's own writes in its *)
(* caches.                                                                  *)
LEMMA Sweeping == ASSUME CaughtUp PROVE Spec => []Swept
<1> USE DEF cacheVars, eggVars, routeVars, gwVars, workerVars
<1>1. Init => Swept
  BY DEF Init, Swept
<1>2. TypeOK /\ Swept /\ [Next]_vars => Swept'
  <2> SUFFICES ASSUME TypeOK, Swept, [Next]_vars PROVE Swept'
    OBVIOUS
  <2>1. ASSUME NEW s \in Servers, BeginReconcile(s) PROVE Swept'
    BY <2>1, SweptBegins DEF BeginReconcile
  <2>2. CASE Allocate
    <3>1. UNCHANGED <<routes, routeCache, item, names, todo>> /\ pc = "allocate"
      BY <2>2 DEF Allocate
    <3>2. Leaving' = Leaving
      BY <3>1 DEF Leaving
    <3>3. names \subseteq PortNames
      BY DEF TypeOK
    <3> QED BY <2>2, <3>1, <3>2, <3>3, AllocateWrites DEF Swept, Missing
  <2>3. CASE \/ \E p \in PortNames : ApplyRoute(p)
             \/ \E r \in Servers \X PortNames : PruneRoute(r)
    BY <2>3, SweptRoutes
  <2>4. CASE \/ UpdateStatus \/ UpdateConflicts \/ ListServers \/ WriteGateway
             \/ CallFails \/ OperatorRestarts
    BY <2>4 DEF UpdateStatus, UpdateConflicts, ListServers, WriteGateway, CallFails, Fail, Idle,
                OperatorRestarts, Swept
  <2>5. CASE SeeRoutes
    BY <2>5 DEF SeeRoutes, Swept, Leaving
  <2>6. CASE (\E s \in Servers : SeeServer(s) \/ Request(s)) \/ SeeEgg \/ SeeGateway \/ EditEgg
             \/ UNCHANGED vars
    <3>1. UNCHANGED <<routes, routeCache, pc, item, l, names, todo>>
      BY <2>6 DEF SeeServer, SeeEgg, SeeGateway, EditEgg, vars, Request, CreateServer, SetExposure,
                  SetExtraPorts, DeleteServer, ServerGone, Write
    <3> QED BY <3>1 DEF Swept, Leaving
  <2>7. ASSUME NEW s \in Servers, CollectRoutes(s) PROVE Swept'
    <3>1. UNCHANGED <<routeCache, pc, item, l, names, todo>> /\ Leaving' \subseteq Leaving
      BY <2>7 DEF CollectRoutes, Leaving
    <3> QED BY <3>1 DEF Swept
  <2> QED BY <2>1, <2>2, <2>3, <2>4, <2>5, <2>6, <2>7
      DEF Next, Worker, Caches, Environment, Request
<1> QED BY <1>1, <1>2, TypeCorrect, PTL DEF Spec

(* When the status of a server lets go of a public port, the route that led *)
(* to it is gone (reconcileOne prunes the routes before it writes the       *)
(* status), for every Egg, pool and number of servers, if a reconcile finds *)
(* the routes it wrote before in its cache.                                 *)
THEOREM RoutesFirst == ASSUME CaughtUp PROVE Spec => FreedLast
<1> DEFINE Frees(s, p) ==
             /\ gs[s].ports[p] # Unset /\ gs'[s].ports[p] = Unset
             /\ gs'[s].exists /\ gs'[s].cond # "PoolExhausted"
           Last == \A s \in Servers, p \in PortNames : Frees(s, p) => <<s, p>> \notin routes
<1>1. TypeOK /\ KeepInv /\ Swept /\ [Next]_vars => [Last]_vars
  <2> SUFFICES ASSUME TypeOK, KeepInv, Swept, Next,
                      NEW s \in Servers, NEW p \in PortNames, Frees(s, p)
               PROVE  <<s, p>> \notin routes
    OBVIOUS
  <2>1. CASE UpdateStatus
    <3>1. /\ \A t \in Servers \ {item} : gs'[t] = gs[t]
          /\ gs'[item].ports = l.ports /\ gs'[item].cond = l.cond /\ pc = "status"
      BY <2>1 DEF UpdateStatus, TypeOK, GameServers
    <3>2. s = item /\ l.ports[p] = Unset /\ l.cond # "PoolExhausted"
      BY <3>1
    <3>3. p \notin names /\ Leaving = {}
      BY <3>1, <3>2 DEF Swept
    <3> QED BY <3>2, <3>3 DEF Leaving
  <2>2. ASSUME NEW t \in Servers, Request(t) PROVE FALSE
    <3>1. PICK o \in GameServers :
            /\ Write(t, o) /\ (~o.exists => o = Absent)
            /\ o.ports = gs[t].ports \/ o = Absent \/ ~gs[t].exists
      BY <2>2, Requests
    <3>2. gs' = [gs EXCEPT ![t] = o]
      BY <3>1 DEF Write
    <3>3. s = t /\ gs'[s] = o
      BY <3>2 DEF TypeOK
    <3>4. ~Absent.exists /\ Absent.ports[p] = Unset
      BY DEF Absent, NoPorts
    <3> QED BY <3>1, <3>3, <3>4 DEF KeepInv
  <2>3. CASE ~UpdateStatus /\ ~(\E t \in Servers : Request(t))
    <3>1. gs' = gs
      BY <2>3 DEF Next, Worker, Caches, Environment, Request, BeginReconcile, Allocate, ApplyRoute,
                  PruneRoute, UpdateConflicts, ListServers, WriteGateway, SeeServer, SeeEgg,
                  SeeRoutes, SeeGateway, CollectRoutes, EditEgg, CallFails, OperatorRestarts
    <3> QED BY <3>1
  <2> QED BY <2>1, <2>2, <2>3
<1>2. [Last]_vars =>
        [\A s \in Servers, p \in PortNames :
           /\ gs[s].ports[p] # Unset /\ gs'[s].ports[p] = Unset
           /\ gs'[s].exists /\ gs'[s].cond # "PoolExhausted"
           => <<s, p>> \notin routes]_vars
  OBVIOUS
<1> HIDE DEF Last
<1> QED BY <1>1, <1>2, TypeCorrect, Keeping, Sweeping, PTL DEF Spec, FreedLast

-----------------------------------------------------------------------------
(* Nothing is left half done.                                               *)

(* What NothingLeft asks of one server.                                     *)
Good(s) ==
  IF ~gs[s].enabled THEN RoutesOf(s) = {} /\ Allocated(s) = {}
  ELSE \/ gs[s].cond = "PoolExhausted"
       \/ /\ gs[s].cond = "Allocated"
          /\ RoutesOf(s) = EffectivePorts(egg, gs[s])
          /\ Allocated(s) = EffectivePorts(egg, gs[s])

(* A server that will be reconciled again, or that Settled leaves out.      *)
Due(s) == ~fresh[s] \/ s \in queue \/ s \notin knows \/ ~egg.exists \/ gs[s].deleting

(* Every other server is as it should be, but for the one in hand.          *)
Done(s) == gs[s].exists /\ ~Due(s) /\ ~(item = s /\ pc \in Holding) => Good(s)
Finished == \A s \in Servers : Done(s)

(* Whoever was reconciled with the Egg as it is, the cache shows that Egg.  *)
EggKnown == knows # {} => eggCache = egg

(* A reconcile under way: if its copy is the latest, what it has done so    *)
(* far; otherwise there will be another.                                    *)
Busy == {"allocate", "apply", "prune"}
Underway ==
  /\ orig = gs[item] /\ gs[item].exists
  /\ item \in knows => names = (IF gs[item].enabled THEN EffectivePorts(egg, gs[item]) ELSE {})
  /\ \A p \in PortNames \ names : l.ports[p] = Unset
  /\ gs[item].enabled /\ pc # "allocate" => l.cond = "Allocated"
  /\ pc # "prune" => gs[item].enabled /\ \A r \in routeCache : r[1] = item => r \in routes
  /\ pc # "prune" => names \ todo \subseteq RoutesOf(item)
  /\ pc = "prune" => names \subseteq RoutesOf(item)
Doing ==
  pc \in Busy => /\ current \/ ~fresh[item] \/ item \in queue
                 /\ current => Underway

LeftInv == EggKnown /\ Doing /\ Finished

(* When a server is as it should be after a step of the worker.             *)
LEMMA GoodWhen ==
  ASSUME NEW s \in Servers, UNCHANGED <<gs, egg>>, NEW ns \in SUBSET PortNames,
         ns = (IF gs[s].enabled THEN EffectivePorts(egg, gs[s]) ELSE {}),
         \A p \in PortNames : <<s, p>> \in routes' <=> p \in ns,
         \A p \in PortNames : gs[s].ports[p] # Unset <=> p \in ns,
         gs[s].enabled => gs[s].cond = "Allocated"
  PROVE  Good(s)'
<1>1. RoutesOf(s)' = ns /\ Allocated(s)' = ns
  BY DEF RoutesOf, Allocated
<1>2. EffectivePorts(egg, gs[s])' = EffectivePorts(egg, gs[s])
  BY DEF EffectivePorts
<1> QED BY <1>1, <1>2 DEF Good

(* A step that is about one server finishes no other.                       *)
LEMMA OthersDone ==
  ASSUME Finished, NEW s \in Servers, NEW t \in Servers, t # s,
         egg' = egg, gs'[t] = gs[t], fresh'[t] = fresh[t],
         t \in queue => t \in queue',
         t \in knows' => t \in knows,
         \A p \in PortNames : <<t, p>> \in routes' <=> <<t, p>> \in routes,
         item = t /\ pc \in Holding => item' = t /\ pc' \in Holding
  PROVE  Done(t)'
<1> SUFFICES ASSUME gs'[t].exists, ~Due(t)', ~(item' = t /\ pc' \in Holding)
             PROVE  Good(t)'
  BY DEF Done
<1>1. Good(t)
  BY DEF Finished, Done, Due
<1>2. RoutesOf(t)' = RoutesOf(t) /\ Allocated(t)' = Allocated(t)
  BY DEF RoutesOf, Allocated
<1>3. EffectivePorts(egg, gs[t])' = EffectivePorts(egg, gs[t])
  BY DEF EffectivePorts
<1> QED BY <1>1, <1>2, <1>3 DEF Good

(* A step that changes nothing these speak of.                              *)
LEMMA LeftSame ==
  ASSUME LeftInv,
         UNCHANGED <<gs, fresh, egg, eggCache, routes, routeCache, queue, pc, item, orig, l,
                     current, names, todo, knows>>
  PROVE  LeftInv'
<1>1. EggKnown'
  BY DEF LeftInv, EggKnown
<1>2. Doing'
  BY DEF LeftInv, Doing, Underway, EffectivePorts, RoutesOf
<1>3. ASSUME NEW s \in Servers PROVE Done(s)'
  BY DEF LeftInv, Finished, Done, Due, Good, EffectivePorts, RoutesOf, Allocated
<1> QED BY <1>1, <1>2, <1>3 DEF LeftInv, Finished

(* A reconcile that failed is in the queue again.                           *)
LEMMA LeftFail ==
  ASSUME TypeOK, LeftInv, Fail, UNCHANGED <<gs, fresh, egg, eggCache, routes, knows>>
  PROVE  LeftInv'
<1>1. pc' = "idle" /\ item' = item /\ queue' = queue \cup {item} /\ item \in Servers
  BY DEF Fail, Idle, TypeOK
<1>2. EggKnown' /\ Doing'
  BY <1>1 DEF LeftInv, EggKnown, Doing, Busy
<1>3. ASSUME NEW t \in Servers PROVE Done(t)'
  <2>1. CASE t = item
    BY <1>1, <2>1 DEF Done, Due
  <2>2. CASE t # item
    BY <1>1, <2>2, OthersDone DEF LeftInv
  <2> QED BY <2>1, <2>2
<1> QED BY <1>2, <1>3 DEF LeftInv, Finished

(* The routes of a server are those a reconcile should leave it.            *)
LEMMA RoutesLeft ==
  ASSUME NEW s, NEW ns, NEW rs,
         {r \in rs : r[1] = s /\ r[2] \notin ns} = {}, ns \subseteq {p \in PortNames : <<s, p>> \in rs}
  PROVE  \A p \in PortNames : <<s, p>> \in rs <=> p \in ns
<1> SUFFICES ASSUME NEW p \in PortNames, <<s, p>> \in rs, p \notin ns PROVE FALSE
  OBVIOUS
<1>1. <<s, p>>[1] = s /\ <<s, p>>[2] = p
  OBVIOUS
<1> QED BY <1>1

(* A reconcile that begins is about a server as it is, or it will be        *)
(* repeated; if it has nothing to do, the server is as it should be.        *)
LEMMA LeftBegins ==
  ASSUME TypeOK, FreshCopies, LeftInv, NEW s \in Servers, BeginReconcile(s), routeCache = routes
  PROVE  LeftInv'
<1> USE DEF cacheVars, eggVars, routeVars, gwVars, workerVars
<1> DEFINE o == cache[s]
           ns == EffectivePorts(eggCache, o)
           f == Kept(o, ns)
           full == Missing(f, ns) = {}
           o1 == [o EXCEPT !.ports = f, !.cond = IF full THEN "Allocated" ELSE @]
<1>0. /\ UNCHANGED <<gs, fresh, egg, eggCache, routes, routeCache>>
      /\ pc = "idle" /\ queue' = queue \ {s}
      /\ s \in knows' => eggCache = egg
      /\ \A t \in Servers \ {s} : t \in knows' => t \in knows
  BY DEF BeginReconcile, LeftInv, EggKnown
<1>1. EggKnown'
  BY <1>0 DEF BeginReconcile, LeftInv, EggKnown
<1>2. ASSUME NEW t \in Servers, t # s PROVE Done(t)'
  BY <1>0, <1>2, OthersDone DEF LeftInv, Holding
<1>3. o \in GameServers /\ (fresh[s] => o = gs[s])
  BY DEF TypeOK, FreshCopies
<1>4. CASE NotFound(s) /\ ~o.exists
  <2>1. Done(s)'
    BY <1>0, <1>3, <1>4 DEF Done, Due
  <2>2. Doing'
    BY <1>4 DEF NotFound, Doing, Busy
  <2> QED BY <1>1, <1>2, <2>1, <2>2 DEF LeftInv, Finished
<1>5. CASE (o.deleting \/ ~eggCache.exists) /\ UNCHANGED workerVars
  <2>1. Done(s)'
    BY <1>0, <1>3, <1>5 DEF Done, Due
  <2>2. Doing'
    BY <1>0, <1>5 DEF Doing, Busy
  <2> QED BY <1>1, <1>2, <2>1, <2>2 DEF LeftInv, Finished
<1>6. CASE /\ o.exists /\ o.enabled /\ item' = s /\ orig' = o /\ current' = fresh[s]
           /\ Expose(s, o)
  <2>1. names' = ns /\ l' = o1 /\ ns \subseteq PortNames
    BY <1>3, <1>6, EffectivePortsType DEF Expose, TypeOK
  <2>2. /\ l'.ports = f /\ (full => l'.cond = "Allocated") /\ l'.enabled
        /\ \A p \in PortNames \ ns : f[p] = Unset
    BY <1>3, <1>6, <2>1 DEF GameServers, Kept
  <2>3. ASSUME fresh[s], s \in knows' PROVE ns = EffectivePorts(egg, gs[s])
    BY <1>0, <1>3, <2>3
  <2>4. CASE ns # {}
    <3>1. todo' = ns /\ pc' = (IF full THEN "apply" ELSE "allocate")
      BY <1>6, <2>4 DEF Expose
    <3>2. current' => Underway'
      <4> SUFFICES ASSUME fresh[s] PROVE Underway'
        BY <1>6
      <4>1. orig' = gs'[item'] /\ gs'[item'].exists /\ gs'[item'].enabled
        BY <1>0, <1>3, <1>6
      <4>2. item' \in knows' => names' = EffectivePorts(egg', gs'[item'])
        BY <1>0, <1>6, <2>1, <2>3
      <4>3. \A p \in PortNames \ names' : l'.ports[p] = Unset
        BY <2>1, <2>2
      <4>4. pc' # "allocate" => l'.cond = "Allocated"
        BY <2>2, <3>1
      <4>5. \A r \in routeCache' : r[1] = item' => r \in routes'
        BY <1>0
      <4>6. names' \ todo' = {}
        BY <2>1, <3>1
      <4> HIDE DEF ns, f, full, o1, o
      <4>7. EffectivePorts(egg, gs[item])' = EffectivePorts(egg', gs'[item'])
        BY DEF EffectivePorts
      <4> QED BY <3>1, <4>1, <4>2, <4>3, <4>4, <4>5, <4>6, <4>7 DEF Underway
    <3>3. Doing'
      BY <1>0, <1>6, <3>2 DEF Doing
    <3>4. Done(s)'
      BY <1>6, <3>1 DEF Done, Holding
    <3> QED BY <1>1, <1>2, <3>3, <3>4 DEF LeftInv, Finished
  <2>5. CASE ns = {}
    <3>1. AfterApply(s, ns, o, o1) /\ full
      BY <1>6, <2>5 DEF Expose, Missing
    <3>2. fresh[s] /\ pc' = "prune" => Underway'
      <4> SUFFICES ASSUME fresh[s], pc' = "prune" PROVE Underway'
        OBVIOUS
      <4>1. orig' = gs'[item'] /\ gs'[item'].exists /\ gs'[item'].enabled
        BY <1>0, <1>3, <1>6
      <4>2. item' \in knows' => names' = EffectivePorts(egg', gs'[item'])
        BY <1>0, <1>6, <2>1, <2>3
      <4>3. \A p \in PortNames \ names' : l'.ports[p] = Unset
        BY <2>1, <2>2
      <4>4. l'.cond = "Allocated" /\ names' = {}
        BY <2>1, <2>2, <2>5, <3>1
      <4> HIDE DEF ns, f, full, o1, o
      <4>7. EffectivePorts(egg, gs[item])' = EffectivePorts(egg', gs'[item'])
        BY DEF EffectivePorts
      <4> QED BY <4>1, <4>2, <4>3, <4>4, <4>7 DEF Underway
    <3>3. pc' \in {"prune", "status", "list"}
      BY <3>1 DEF AfterApply, AfterRoutes
    <3>4. Doing'
      BY <1>0, <1>6, <3>2, <3>3 DEF Doing, Busy
    <3>5. Done(s)'
      <4> SUFFICES ASSUME fresh[s], s \in knows', pc' = "list" PROVE Good(s)'
        BY <1>0, <1>6, <3>3 DEF Done, Due, Holding
      <4>1. o1 = o /\ Stale(s, ns) = {}
        BY <3>1 DEF AfterApply, AfterRoutes
      <4>2. o = gs[s] /\ gs[s].enabled /\ gs[s].cond = "Allocated" /\ gs[s].ports = f
        BY <1>3, <1>6, <2>1, <2>2, <3>1, <4>1
      <4>3. \A p \in PortNames : <<s, p>> \notin routes'
        <5> SUFFICES ASSUME NEW p \in PortNames, <<s, p>> \in routes PROVE FALSE
          BY <1>0
        <5>1. <<s, p>>[1] = s /\ <<s, p>>[2] = p
          OBVIOUS
        <5> QED BY <4>1, <2>5, <5>1 DEF Stale
      <4>4. \A p \in PortNames : gs[s].ports[p] = Unset
        BY <2>2, <2>5, <4>2
      <4>5. {} = EffectivePorts(egg, gs[s]) /\ {} \in SUBSET PortNames
        BY <2>3, <2>5
      <4> HIDE DEF ns, f, full, o1, o
      <4> QED BY <1>0, <4>2, <4>3, <4>4, <4>5, GoodWhen
    <3> QED BY <1>1, <1>2, <3>4, <3>5 DEF LeftInv, Finished
  <2> QED BY <2>4, <2>5
<1>7. CASE /\ o.exists /\ ~o.enabled /\ item' = s /\ orig' = o /\ current' = fresh[s]
           /\ Disable(s, o)
  <2>1. names' = {} /\ l' = Disabled(o) /\ AfterApply(s, {}, o, Disabled(o))
    BY <1>7 DEF Disable
  <2>2. Disabled(o).ports = NoPorts /\ \A p \in PortNames : NoPorts[p] = Unset
    BY <1>3 DEF Disabled, GameServers, NoPorts
  <2>3. pc' \in {"prune", "status", "list"}
    BY <2>1 DEF AfterApply, AfterRoutes
  <2>4. fresh[s] /\ pc' = "prune" => Underway'
    <3> SUFFICES ASSUME fresh[s], pc' = "prune" PROVE Underway'
      OBVIOUS
    <3>1. orig' = gs'[item'] /\ gs'[item'].exists /\ ~gs'[item'].enabled
      BY <1>0, <1>3, <1>7
    <3>2. \A p \in PortNames \ names' : l'.ports[p] = Unset
      BY <2>1, <2>2
    <3> HIDE DEF o
    <3> QED BY <2>1, <3>1, <3>2 DEF Underway
  <2>5. Doing'
    BY <1>0, <1>7, <2>3, <2>4 DEF Doing, Busy
  <2>6. Done(s)'
    <3> SUFFICES ASSUME fresh[s], pc' = "list" PROVE Good(s)'
      BY <1>0, <1>7, <2>3 DEF Done, Due, Holding
    <3>1. Disabled(o) = o /\ Stale(s, {}) = {}
      BY <2>1 DEF AfterApply, AfterRoutes
    <3>2. o = gs[s] /\ ~gs[s].enabled /\ \A p \in PortNames : gs[s].ports[p] = Unset
      BY <1>3, <1>7, <2>2, <3>1
    <3>3. \A p \in PortNames : <<s, p>> \notin routes'
      <4> SUFFICES ASSUME NEW p \in PortNames, <<s, p>> \in routes PROVE FALSE
        BY <1>0
      <4>1. <<s, p>>[1] = s /\ <<s, p>>[2] = p
        OBVIOUS
      <4> QED BY <3>1, <4>1 DEF Stale
    <3> HIDE DEF o
    <3>4. {} \in SUBSET PortNames
      OBVIOUS
    <3> QED BY <1>0, <3>2, <3>3, <3>4, GoodWhen
  <2> QED BY <1>1, <1>2, <2>5, <2>6 DEF LeftInv, Finished
<1> QED BY <1>4, <1>5, <1>6, <1>7 DEF BeginReconcile

(* The ports are allocated.                                                 *)
LEMMA LeftAllocates ==
  ASSUME TypeOK, LeftInv, Allocate
  PROVE  LeftInv'
<1> USE DEF cacheVars, eggVars, routeVars, gwVars, workerVars
<1>0. /\ UNCHANGED <<gs, fresh, egg, eggCache, routes, routeCache, queue, knows, item, orig,
                     current, names, todo>>
      /\ pc = "allocate" /\ item \in Servers
  BY DEF Allocate, TypeOK
<1>1. EggKnown'
  BY <1>0 DEF LeftInv, EggKnown
<1>2. ASSUME NEW t \in Servers, t # item PROVE Done(t)'
  BY <1>0, <1>2, OthersDone DEF LeftInv
<1>3. /\ current \/ ~fresh[item] \/ item \in queue
      /\ current => Underway
  BY <1>0 DEF LeftInv, Doing, Busy
<1>4. CASE Missing(l'.ports, names) # {} /\ l'.cond = "PoolExhausted" /\ pc' \in {"status", "list"}
           /\ pc' = AfterRoutes(orig, l')
  <2>1. Doing'
    BY <1>4 DEF Doing, Busy
  <2>2. Done(item)'
    <3> SUFFICES ASSUME current, pc' = "list" PROVE Good(item)'
      BY <1>0, <1>3, <1>4 DEF Done, Due, Holding
    <3>1. l' = orig /\ orig = gs[item] /\ gs[item].enabled
      BY <1>0, <1>3, <1>4 DEF AfterRoutes, Underway
    <3> QED BY <1>0, <1>4, <3>1 DEF Good
  <2> QED BY <1>0, <1>1, <1>2, <2>1, <2>2 DEF LeftInv, Finished
<1>5. CASE Missing(l'.ports, names) = {} /\ l'.cond = "Allocated" /\ pc' = "apply"
  <2>1. Done(item)'
    BY <1>0, <1>5 DEF Done, Holding
  <2>2. current => Underway'
    <3> SUFFICES ASSUME current PROVE Underway'
      OBVIOUS
    <3>1. Underway
      BY <1>3
    <3>2. \A p \in PortNames \ names : l'.ports[p] = Unset
      BY <3>1, AllocateWrites DEF Underway, Gives, Missing
    <3>3. EffectivePorts(egg, gs[item])' = EffectivePorts(egg, gs[item])
          /\ RoutesOf(item)' = RoutesOf(item)
      BY <1>0 DEF EffectivePorts, RoutesOf
    <3>4. orig' = gs'[item'] /\ gs'[item'].exists
      BY <1>0, <3>1 DEF Underway
    <3> QED BY <1>0, <1>5, <3>1, <3>2, <3>3, <3>4 DEF Underway
  <2>3. Doing'
    BY <1>0, <1>3, <2>2 DEF Doing
  <2> QED BY <1>0, <1>1, <1>2, <2>1, <2>3 DEF LeftInv, Finished
<1> QED BY <1>4, <1>5, AllocateWrites

(* What the worker has made of a server it has finished with.               *)
LEMMA LeftReady ==
  ASSUME TypeOK, Underway, UNCHANGED <<gs, egg, item>>, item \in knows, l = orig, pc # "allocate",
         {r \in routes' : r[1] = item /\ r[2] \notin names} = {},
         names \subseteq {p \in PortNames : <<item, p>> \in routes'},
         \A p \in names : l.ports[p] # Unset
  PROVE  Good(item)'
<1>1. names = (IF gs[item].enabled THEN EffectivePorts(egg, gs[item]) ELSE {})
      /\ names \in SUBSET PortNames /\ item \in Servers
  BY DEF Underway, TypeOK
<1>2. \A p \in PortNames : <<item, p>> \in routes' <=> p \in names
  BY RoutesLeft
<1>3. gs[item] = l /\ \A p \in PortNames : gs[item].ports[p] # Unset <=> p \in names
  BY DEF Underway
<1>4. gs[item].enabled => gs[item].cond = "Allocated"
  BY <1>3 DEF Underway
<1>5. PICK s \in Servers : s = item
  BY <1>1
<1>6. Good(s)'
  BY <1>1, <1>2, <1>3, <1>4, <1>5, GoodWhen
<1> QED BY <1>5, <1>6 DEF Good, RoutesOf, Allocated, EffectivePorts

(* A route is applied.                                                      *)
LEMMA LeftApplies ==
  ASSUME TypeOK, Swept, LeftInv, NEW p \in PortNames, ApplyRoute(p)
  PROVE  LeftInv'
<1> USE DEF cacheVars, eggVars, routeVars, gwVars, workerVars
<1>0. /\ UNCHANGED <<gs, fresh, egg, eggCache, routeCache, knows>> /\ pc = "apply" /\ p \in todo
      /\ item \in Servers
  BY DEF ApplyRoute, TypeOK
<1>1. CASE <<item, p>> \in routes \ routeCache
  BY <1>0, <1>1, LeftFail DEF ApplyRoute
<1>2. CASE <<item, p>> \notin routes \ routeCache
  <2>0. /\ UNCHANGED <<queue, item, orig, l, current, names>>
        /\ routes' = IF <<item, p>> \in routeCache THEN routes ELSE routes \cup {<<item, p>>}
        /\ \/ todo # {p} /\ todo' = todo \ {p} /\ pc' = "apply"
           \/ todo = {p} /\ AfterApply(item, names, orig, l)
    BY <1>2 DEF ApplyRoute
  <2>1. EggKnown'
    BY <1>0 DEF LeftInv, EggKnown
  <2>2. ASSUME NEW t \in Servers, t # item PROVE Done(t)'
    <3>1. \A q \in PortNames : <<t, q>> \in routes' <=> <<t, q>> \in routes
      BY <2>0, <2>2
    <3> QED BY <1>0, <2>0, <2>2, <3>1, OthersDone DEF LeftInv
  <2>3. /\ current \/ ~fresh[item] \/ item \in queue
        /\ current => Underway
    BY <1>0 DEF LeftInv, Doing, Busy
  <2>4. EffectivePorts(egg, gs[item])' = EffectivePorts(egg, gs[item])
    BY <1>0, <2>0 DEF EffectivePorts
  <2>5. current => /\ names \ (todo \ {p}) \subseteq RoutesOf(item)' /\ gs[item].enabled
                   /\ \A r \in routeCache : r[1] = item => r \in routes'
    <3> SUFFICES ASSUME current
                 PROVE  /\ names \ (todo \ {p}) \subseteq RoutesOf(item)' /\ gs[item].enabled
                        /\ \A r \in routeCache : r[1] = item => r \in routes'
      OBVIOUS
    <3>1. Underway /\ \A r \in routeCache : r[1] = item => r \in routes
      BY <1>0, <2>3 DEF Underway
    <3>2. <<item, p>>[1] = item
      OBVIOUS
    <3>3. <<item, p>> \in routes' /\ routes \subseteq routes'
      BY <2>0, <3>1, <3>2
    <3>4. RoutesOf(item) \subseteq RoutesOf(item)' /\ p \in RoutesOf(item)'
      BY <2>0, <3>3 DEF RoutesOf
    <3> QED BY <1>0, <3>1, <3>3, <3>4 DEF Underway
  <2>6. CASE todo # {p} /\ todo' = todo \ {p} /\ pc' = "apply"
    <3>1. current => Underway'
      BY <1>0, <2>0, <2>3, <2>4, <2>5, <2>6 DEF Underway
    <3>2. Doing' /\ Done(item)'
      BY <1>0, <2>0, <2>3, <2>6, <3>1 DEF Doing, Done, Holding
    <3> QED BY <2>0, <2>1, <2>2, <3>2 DEF LeftInv, Finished
  <2>7. CASE todo = {p} /\ AfterApply(item, names, orig, l)
    <3>1. pc' \in {"prune", "status", "list"} /\ todo' = Stale(item, names)
      BY <2>7 DEF AfterApply, AfterRoutes
    <3>2. current => names \subseteq RoutesOf(item)'
      BY <2>5, <2>7
    <3>3. current /\ pc' = "prune" => Underway'
      BY <1>0, <2>0, <2>3, <2>4, <3>2 DEF Underway
    <3>4. Doing'
      BY <1>0, <2>0, <2>3, <3>1, <3>3 DEF Doing, Busy
    <3>5. Done(item)'
      <4> SUFFICES ASSUME current, item \in knows, pc' = "list" PROVE Good(item)'
        BY <1>0, <2>0, <2>3, <3>1 DEF Done, Due, Holding
      <4>1. Stale(item, names) = {} /\ l = orig
        BY <2>7 DEF AfterApply, AfterRoutes
      <4>2. {r \in routes' : r[1] = item /\ r[2] \notin names} = {}
        <5>1. \A r \in routes' : r[1] = item /\ r[2] \notin names => r \in Leaving
          BY <1>0, <2>0 DEF Swept, Leaving
        <5>2. Leaving \subseteq Stale(item, names)
          BY <1>0 DEF Swept, Leaving, Stale
        <5> QED BY <4>1, <5>1, <5>2
      <4>3. names \subseteq {q \in PortNames : <<item, q>> \in routes'}
        BY <2>0, <3>2 DEF RoutesOf
      <4>4. l.cond = "Allocated" /\ Underway
        BY <1>0, <2>3, <2>5 DEF Underway
      <4>5. \A q \in names : l.ports[q] # Unset
        BY <1>0, <4>4 DEF Swept
      <4> QED BY <1>0, <2>0, <4>1, <4>2, <4>3, <4>4, <4>5, LeftReady
    <3> QED BY <2>0, <2>1, <2>2, <3>4, <3>5 DEF LeftInv, Finished
  <2> QED BY <2>0, <2>6, <2>7
<1> QED BY <1>1, <1>2

(* A route is deleted.                                                      *)
LEMMA LeftPrunes ==
  ASSUME TypeOK, Swept, LeftInv, NEW r \in Servers \X PortNames, PruneRoute(r)
  PROVE  LeftInv'
<1> USE DEF cacheVars, eggVars, routeVars, gwVars, workerVars
<1>0. /\ UNCHANGED <<gs, fresh, egg, eggCache, routeCache, knows, queue, item, orig, l, current,
                     names>>
      /\ pc = "prune" /\ r \in todo /\ item \in Servers
      /\ routes' = routes \ {r} /\ todo' = todo \ {r}
      /\ pc' = IF todo = {r} THEN AfterRoutes(orig, l) ELSE "prune"
  BY DEF PruneRoute, TypeOK
<1>1. EggKnown'
  BY <1>0 DEF LeftInv, EggKnown
<1>2. /\ current \/ ~fresh[item] \/ item \in queue
      /\ current => Underway
  BY <1>0 DEF LeftInv, Doing, Busy
<1>3. r[1] = item /\ r[2] \notin names /\ Leaving \subseteq todo
  BY <1>0 DEF Swept
<1>4. ASSUME NEW t \in Servers, t # item PROVE Done(t)'
  <2>1. \A p \in PortNames : <<t, p>> # r
    BY <1>3, <1>4
  <2>2. \A p \in PortNames : <<t, p>> \in routes' <=> <<t, p>> \in routes
    BY <1>0, <2>1
  <2>3. pc' \in {"prune", "status", "list"}
    BY <1>0 DEF AfterRoutes
  <2> QED BY <1>0, <1>4, <2>2, <2>3, OthersDone DEF LeftInv
<1>5. current => names \subseteq RoutesOf(item)'
  <2> SUFFICES ASSUME current, NEW p \in names PROVE p \in RoutesOf(item)'
    OBVIOUS
  <2>1. p \in RoutesOf(item)
    BY <1>0, <1>2 DEF Underway
  <2>2. <<item, p>>[2] = p
    OBVIOUS
  <2>3. <<item, p>> # r
    BY <1>3, <2>2
  <2> QED BY <1>0, <2>1, <2>3 DEF RoutesOf
<1>6. CASE todo # {r}
  <2>1. EffectivePorts(egg, gs[item])' = EffectivePorts(egg, gs[item])
    BY <1>0 DEF EffectivePorts
  <2>2. pc' = "prune"
    BY <1>0, <1>6
  <2>3. current => Underway'
    BY <1>0, <1>2, <1>5, <2>1, <2>2 DEF Underway
  <2>4. Doing' /\ Done(item)'
    BY <1>0, <1>2, <2>2, <2>3 DEF Doing, Done, Holding
  <2> QED BY <1>0, <1>1, <1>4, <2>4 DEF LeftInv, Finished
<1>7. CASE todo = {r}
  <2>1. pc' = AfterRoutes(orig, l) /\ pc' \in {"status", "list"}
    BY <1>0, <1>7 DEF AfterRoutes
  <2>2. Doing'
    BY <2>1 DEF Doing, Busy
  <2>3. Done(item)'
    <3> SUFFICES ASSUME current, item \in knows, pc' = "list" PROVE Good(item)'
      BY <1>0, <1>2, <2>1 DEF Done, Due, Holding
    <3>1. l = orig /\ Underway
      BY <1>2, <2>1 DEF AfterRoutes
    <3>2. {x \in routes' : x[1] = item /\ x[2] \notin names} = {}
      <4>1. \A x \in routes' : x[1] = item /\ x[2] \notin names => x \in Leaving /\ x # r
        BY <1>0 DEF Leaving
      <4> QED BY <1>3, <1>7, <4>1
    <3>3. names \subseteq {q \in PortNames : <<item, q>> \in routes'}
      BY <1>0, <1>5 DEF RoutesOf
    <3>4. \A q \in names : l.ports[q] # Unset
      <4>1. CASE gs[item].enabled
        BY <1>0, <3>1, <4>1 DEF Swept, Underway
      <4>2. CASE ~gs[item].enabled
        BY <3>1, <4>2 DEF Underway
      <4> QED BY <4>1, <4>2
    <3> QED BY <1>0, <3>1, <3>2, <3>3, <3>4, LeftReady
  <2> QED BY <1>0, <1>1, <1>4, <2>2, <2>3 DEF LeftInv, Finished
<1> QED BY <1>6, <1>7

(* Somebody writes a server.                                                *)
LEMMA LeftRequests ==
  ASSUME TypeOK, LeftInv, NEW s \in Servers, Request(s)
  PROVE  LeftInv'
<1> USE DEF cacheVars, eggVars, routeVars, gwVars, workerVars
<1>1. PICK o \in GameServers : Write(s, o)
  BY Requests
<1>2. /\ UNCHANGED <<egg, eggCache, routes, routeCache, queue, pc, item, orig, l, names, todo,
                     knows>>
      /\ fresh'[s] = FALSE /\ \A t \in Servers \ {s} : gs'[t] = gs[t] /\ fresh'[t] = fresh[t]
      /\ current' = (current /\ item # s) /\ item \in Servers
  BY <1>1 DEF Write, Touch, TypeOK
<1>3. EggKnown'
  BY <1>2 DEF LeftInv, EggKnown
<1>4. ASSUME NEW t \in Servers PROVE Done(t)'
  <2>1. CASE t = s
    BY <1>2, <2>1 DEF Done, Due
  <2>2. CASE t # s
    BY <1>2, <2>2, OthersDone DEF LeftInv
  <2> QED BY <2>1, <2>2
<1>5. Doing'
  <2> SUFFICES ASSUME pc \in Busy PROVE Doing'
    BY <1>2 DEF Doing
  <2>1. CASE item = s
    BY <1>2, <2>1 DEF Doing
  <2>2. CASE item # s
    <3>1. /\ current \/ ~fresh[item] \/ item \in queue
          /\ current => Underway
      BY DEF LeftInv, Doing
    <3>2. gs'[item] = gs[item] /\ fresh'[item] = fresh[item] /\ current' = current
      BY <1>2, <2>2 DEF TypeOK
    <3>3. current => Underway'
      BY <1>2, <3>1, <3>2 DEF Underway, EffectivePorts, RoutesOf
    <3> QED BY <1>2, <3>1, <3>2, <3>3 DEF Doing
  <2> QED BY <2>1, <2>2
<1> QED BY <1>3, <1>4, <1>5 DEF LeftInv, Finished

(* No step upsets it.                                                       *)
LEMMA LeftKept == ASSUME CaughtUp PROVE Spec => []LeftInv
<1> USE DEF cacheVars, eggVars, routeVars, gwVars, workerVars
<1>1. Init => LeftInv
  BY DEF Init, LeftInv, EggKnown, Doing, Busy, Finished, Done, Due
<1>2. TypeOK /\ KeepInv /\ Swept /\ LeftInv /\ [Next]_vars => LeftInv'
  <2> SUFFICES ASSUME TypeOK, KeepInv, Swept, LeftInv, [Next]_vars PROVE LeftInv'
    OBVIOUS
  <2>1. ASSUME NEW s \in Servers, BeginReconcile(s) PROVE LeftInv'
    BY <2>1, LeftBegins DEF BeginReconcile, KeepInv
  <2>2. CASE Allocate
    BY <2>2, LeftAllocates
  <2>3. ASSUME NEW p \in PortNames, ApplyRoute(p) PROVE LeftInv'
    BY <2>3, LeftApplies
  <2>4. ASSUME NEW r \in Servers \X PortNames, PruneRoute(r) PROVE LeftInv'
    BY <2>4, LeftPrunes
  <2>5. CASE UpdateStatus
    <3>1. /\ UNCHANGED <<egg, eggCache, routes, queue, item, knows>>
          /\ pc = "status" /\ pc' = "list" /\ item \in Servers /\ fresh'[item] = FALSE
          /\ \A t \in Servers \ {item} : gs'[t] = gs[t] /\ fresh'[t] = fresh[t]
      BY <2>5 DEF UpdateStatus, Touch, TypeOK
    <3>2. EggKnown' /\ Doing'
      BY <3>1 DEF LeftInv, EggKnown, Doing, Busy
    <3>3. ASSUME NEW t \in Servers PROVE Done(t)'
      <4>1. CASE t = item
        BY <3>1, <4>1 DEF Done, Due
      <4>2. CASE t # item
        BY <3>1, <4>2, OthersDone DEF LeftInv
      <4> QED BY <4>1, <4>2
    <3> QED BY <3>2, <3>3 DEF LeftInv, Finished
  <2>6. CASE UpdateConflicts \/ CallFails \/ (WriteGateway /\ Fail)
    BY <2>6, LeftFail DEF UpdateConflicts, CallFails, WriteGateway
  <2>7. CASE ListServers \/ (WriteGateway /\ Idle /\ UNCHANGED queue)
    <3>1. /\ UNCHANGED <<gs, fresh, egg, eggCache, routes, knows, queue>>
          /\ pc \in {"list", "gateway"} /\ pc' \in {"gateway", "idle"}
      BY <2>7 DEF ListServers, WriteGateway, Idle
    <3>2. EggKnown' /\ Doing'
      BY <3>1 DEF LeftInv, EggKnown, Doing, Busy
    <3>3. ASSUME NEW t \in Servers PROVE Done(t)'
      BY <3>1 DEF LeftInv, Finished, Done, Due, Good, EffectivePorts, RoutesOf, Allocated, Holding
    <3> QED BY <3>2, <3>3 DEF LeftInv, Finished
  <2>8. ASSUME NEW s \in Servers, SeeServer(s) PROVE LeftInv'
    <3>1. /\ UNCHANGED <<gs, egg, eggCache, routes, routeCache, pc, item, orig, l, current, names,
                         todo, knows>>
          /\ queue' = queue \cup {s} /\ \A t \in Servers \ {s} : fresh'[t] = fresh[t]
      BY <2>8 DEF SeeServer, TypeOK
    <3>2. EggKnown'
      BY <3>1 DEF LeftInv, EggKnown
    <3>3. Doing'
      <4>1. Underway => Underway'
        BY <3>1 DEF Underway, EffectivePorts, RoutesOf
      <4>2. item \in Servers
        BY DEF TypeOK
      <4> QED BY <3>1, <4>1, <4>2 DEF LeftInv, Doing
    <3>4. ASSUME NEW t \in Servers PROVE Done(t)'
      <4>1. CASE t = s
        BY <3>1, <4>1 DEF Done, Due
      <4>2. CASE t # s
        BY <3>1, <4>2, OthersDone DEF LeftInv
      <4> QED BY <4>1, <4>2
    <3> QED BY <3>2, <3>3, <3>4 DEF LeftInv, Finished
  <2>9. CASE SeeEgg \/ SeeRoutes
    <3>1. /\ UNCHANGED <<gs, fresh, egg, routes, queue, pc, item, orig, l, current, names, todo,
                         knows>>
          /\ eggCache' \in {egg, eggCache} /\ routeCache' \in {routes, routeCache}
      BY <2>9 DEF SeeEgg, SeeRoutes
    <3>2. EggKnown'
      BY <3>1 DEF LeftInv, EggKnown
    <3>3. Underway => Underway'
      BY <3>1 DEF Underway, EffectivePorts, RoutesOf
    <3>4. Doing'
      BY <3>1, <3>3 DEF LeftInv, Doing
    <3>5. ASSUME NEW t \in Servers PROVE Done(t)'
      BY <3>1 DEF LeftInv, Finished, Done, Due, Good, EffectivePorts, RoutesOf, Allocated
    <3> QED BY <3>2, <3>4, <3>5 DEF LeftInv, Finished
  <2>10. ASSUME NEW s \in Servers, Request(s) PROVE LeftInv'
    BY <2>10, LeftRequests
  <2>11. ASSUME NEW s \in Servers, CollectRoutes(s) PROVE LeftInv'
    <3>1. /\ UNCHANGED <<gs, fresh, egg, eggCache, routeCache, queue, pc, item, orig, l, current,
                         names, todo, knows>>
          /\ ~gs[s].exists /\ routes' = {r \in routes : r[1] # s}
      BY <2>11 DEF CollectRoutes
    <3>2. \A t \in Servers, p \in PortNames : t # s => (<<t, p>> \in routes' <=> <<t, p>> \in routes)
      BY <3>1
    <3>3. EggKnown'
      BY <3>1 DEF LeftInv, EggKnown
    <3>4. Underway => Underway'
      <4> SUFFICES ASSUME Underway PROVE Underway'
        OBVIOUS
      <4>1. item # s /\ item \in Servers
        BY <3>1 DEF Underway, TypeOK
      <4>2. RoutesOf(item)' = RoutesOf(item)
        BY <3>1, <3>2, <4>1 DEF RoutesOf
      <4>3. \A r \in routes : r[1] = item => r \in routes'
        BY <3>1, <4>1
      <4>4. EffectivePorts(egg, gs[item])' = EffectivePorts(egg, gs[item])
        BY <3>1 DEF EffectivePorts
      <4> QED BY <3>1, <4>2, <4>3, <4>4 DEF Underway
    <3>5. Doing'
      BY <3>1, <3>4 DEF LeftInv, Doing
    <3>6. ASSUME NEW t \in Servers PROVE Done(t)'
      <4>1. CASE t = s
        BY <3>1, <4>1 DEF Done
      <4>2. CASE t # s
        BY <3>1, <3>2, <4>2, OthersDone DEF LeftInv
      <4> QED BY <4>1, <4>2
    <3> QED BY <3>3, <3>5, <3>6 DEF LeftInv, Finished
  <2>12. CASE EditEgg
    <3>1. /\ UNCHANGED <<gs, fresh, routes, routeCache, queue, pc, item, orig, l, current, names,
                         todo>>
          /\ knows' = {}
      BY <2>12 DEF EditEgg
    <3>2. EggKnown' /\ \A t \in Servers : Done(t)'
      BY <3>1 DEF EggKnown, Done, Due
    <3>3. Underway => Underway'
      BY <3>1 DEF Underway, RoutesOf
    <3> QED BY <3>1, <3>2, <3>3 DEF LeftInv, Doing, Finished
  <2>13. CASE OperatorRestarts
    BY <2>13 DEF OperatorRestarts, Idle, LeftInv, EggKnown, Doing, Busy, Finished, Done, Due
  <2>14. CASE SeeGateway \/ UNCHANGED vars
    BY <2>14, LeftSame DEF SeeGateway, vars
  <2>15. WriteGateway => Fail \/ (Idle /\ UNCHANGED queue)
    BY DEF WriteGateway
  <2> QED BY <2>1, <2>2, <2>3, <2>4, <2>5, <2>6, <2>7, <2>8, <2>9, <2>10, <2>11, <2>12, <2>13,
             <2>14, <2>15 DEF Next, Worker, Caches, Environment, Request
<1> QED BY <1>1, <1>2, TypeCorrect, Keeping, Sweeping, PTL DEF Spec

(* The Gateway has the listeners of all servers, or a reconcile that will   *)
(* write them is under way or to come.                                      *)
Awaited(s) ==
  \/ ~fresh[s] \/ s \in queue
  \/ gs[s].exists /\ (s \notin knows \/ ~egg.exists \/ gs[s].deleting)
Expected == (\A s \in Servers : ~gs[s].exists) \/ (\E s \in Servers : Awaited(s))
GatewayInv ==
  /\ pc # "idle" => gwCache = gw
  /\ \/ Expected
     \/ pc \in Holding \cup {"list"}
     \/ pc = "gateway" /\ want = Listeners(egg)
     \/ pc = "idle" /\ gw = Listeners(egg)

(* The listeners follow from the servers and the Egg.                       *)
LEMMA ListenersSame ==
  ASSUME UNCHANGED <<gs, egg>>
  PROVE  Listeners(egg)' = Listeners(egg)
<1>1. Claims(egg)' = Claims(egg)
  BY DEF Claims, EffectivePorts
<1> QED BY <1>1 DEF Listeners, routeName

(* What is expected stays so while servers and Egg do and none is taken     *)
(* from the queue.                                                          *)
LEMMA StaysExpected ==
  ASSUME Expected, UNCHANGED <<gs, fresh, egg, knows>>, queue \subseteq queue'
  PROVE  Expected'
BY DEF Expected, Awaited

(* No step upsets it.                                                       *)
LEMMA GatewayKept == ASSUME CaughtUp PROVE Spec => []GatewayInv
<1> USE DEF cacheVars, eggVars, routeVars, gwVars, workerVars
<1>1. Init => GatewayInv
  BY DEF Init, GatewayInv, Expected, Awaited
<1>2. TypeOK /\ KeepInv /\ EggKnown /\ GatewayInv /\ [Next]_vars => GatewayInv'
  <2> SUFFICES ASSUME TypeOK, KeepInv, EggKnown, GatewayInv, [Next]_vars PROVE GatewayInv'
    OBVIOUS
  <2>f. ASSUME Fail PROVE GatewayInv'
    BY <2>f DEF Fail, Idle, GatewayInv, Expected, Awaited, TypeOK
  <2>1. ASSUME NEW s \in Servers, BeginReconcile(s) PROVE GatewayInv'
    <3>1. /\ UNCHANGED <<gs, fresh, egg, eggCache, gw, gwCache>> /\ pc = "idle" /\ gwCache = gw
          /\ (knows' # {} => eggCache = egg)
          /\ fresh[s] => cache[s] = gs[s]
      BY <2>1 DEF BeginReconcile, KeepInv, FreshCopies, EggKnown
    <3>2. CASE (cache[s].deleting \/ ~eggCache.exists) /\ cache[s].exists /\ UNCHANGED workerVars
      <4>1. Awaited(s)'
        BY <3>1, <3>2 DEF Awaited
      <4> QED BY <3>1, <3>2, <4>1 DEF GatewayInv, Expected
    <3>3. CASE NotFound(s) \/ Expose(s, cache[s]) \/ Disable(s, cache[s])
      <4>1. pc' \in Holding \cup {"list"}
        BY <3>3 DEF NotFound, Expose, Disable, AfterApply, AfterRoutes, Holding
      <4> QED BY <3>1, <4>1 DEF GatewayInv
    <3> QED BY <2>1, <3>2, <3>3 DEF BeginReconcile
  <2>2. CASE \/ Allocate \/ UpdateStatus
             \/ \E p \in PortNames : ApplyRoute(p) /\ ~Fail
             \/ \E r \in Servers \X PortNames : PruneRoute(r)
    <3>1. pc' \in Holding \cup {"list"}
      BY <2>2 DEF Allocate, UpdateStatus, ApplyRoute, PruneRoute, AfterApply, AfterRoutes, Holding
    <3>2. UNCHANGED <<gw, gwCache>> /\ pc # "idle"
      BY <2>2 DEF Allocate, UpdateStatus, ApplyRoute, PruneRoute
    <3> QED BY <3>1, <3>2 DEF GatewayInv
  <2>3. CASE ListServers
    <3>1. /\ UNCHANGED <<gs, fresh, egg, queue, knows, gw, gwCache>> /\ pc = "list"
          /\ pc' = "gateway" /\ want' = Listeners(eggCache)
      BY <2>3 DEF ListServers
    <3>2. CASE eggCache = egg
      <4>1. want' = Listeners(egg)'
        BY <3>1, <3>2, ListenersSame
      <4> QED BY <3>1, <4>1 DEF GatewayInv
    <3>3. CASE eggCache # egg
      <4>1. knows' = {}
        BY <3>1, <3>3 DEF EggKnown
      <4>2. Expected'
        BY <3>1, <4>1 DEF Expected, Awaited
      <4> QED BY <3>1, <4>2 DEF GatewayInv
    <3> QED BY <3>2, <3>3
  <2>4. CASE WriteGateway /\ ~Fail
    <3>1. /\ UNCHANGED <<gs, fresh, egg, queue, knows, gwCache>> /\ pc = "gateway"
          /\ pc' = "idle" /\ gwCache = gw
      BY <2>4 DEF WriteGateway, Idle, GatewayInv
    <3>2. gw' = want
      BY <2>4, <3>1 DEF WriteGateway
    <3>3. CASE Expected
      BY <3>1, <3>3, StaysExpected DEF GatewayInv
    <3>4. CASE want = Listeners(egg)
      <4>1. gw' = Listeners(egg)'
        BY <3>1, <3>2, <3>4, ListenersSame
      <4> QED BY <3>1, <4>1 DEF GatewayInv
    <3> QED BY <3>1, <3>3, <3>4 DEF GatewayInv, Holding
  <2>5. CASE UpdateConflicts \/ CallFails
    BY <2>5, <2>f DEF UpdateConflicts, CallFails
  <2>6. ASSUME NEW s \in Servers, SeeServer(s) PROVE GatewayInv'
    BY <2>6 DEF SeeServer, GatewayInv, Expected, Awaited
  <2>7. CASE SeeEgg \/ SeeRoutes \/ SeeGateway \/ UNCHANGED vars \/ \E s \in Servers : CollectRoutes(s)
    <3>1. UNCHANGED <<gs, fresh, egg, queue, knows, pc, want, gw>> /\ gwCache' \in {gw, gwCache}
      BY <2>7 DEF SeeEgg, SeeRoutes, SeeGateway, vars, CollectRoutes
    <3>2. Listeners(egg)' = Listeners(egg)
      BY <3>1, ListenersSame
    <3>3. Expected => Expected'
      BY <3>1, StaysExpected
    <3> QED BY <3>1, <3>2, <3>3 DEF GatewayInv
  <2>8. ASSUME NEW s \in Servers, Request(s) PROVE GatewayInv'
    <3>1. PICK o \in GameServers : Write(s, o)
      BY <2>8, Requests
    <3>2. fresh'[s] = FALSE /\ UNCHANGED <<pc, gw, gwCache>>
      BY <3>1 DEF Write, Touch, TypeOK
    <3> QED BY <3>2 DEF GatewayInv, Expected, Awaited
  <2>9. CASE EditEgg
    <3>1. UNCHANGED <<pc, gw, gwCache>> /\ knows' = {}
      BY <2>9 DEF EditEgg
    <3> QED BY <3>1 DEF GatewayInv, Expected, Awaited
  <2>10. CASE OperatorRestarts
    BY <2>10 DEF OperatorRestarts, Idle, GatewayInv, Expected, Awaited
  <2> QED BY <2>f, <2>1, <2>2, <2>3, <2>4, <2>5, <2>6, <2>7, <2>8, <2>9, <2>10
      DEF Next, Worker, Caches, Environment, Request
<1>3. LeftInv => EggKnown
  BY DEF LeftInv
<1> QED BY <1>1, <1>2, <1>3, TypeCorrect, Keeping, LeftKept, PTL DEF Spec

(* When all events have been handled nothing is left half done, for every   *)
(* Egg, pool and number of servers and after any failures, conflicts and    *)
(* restarts: ports, routes and listeners are those of the exposed servers   *)
(* (Reconcile, reconcileOne, rebuildGateway), if a reconcile finds the      *)
(* operator's own writes in its caches.                                     *)
THEOREM NothingHalfDone == ASSUME CaughtUp PROVE Spec => []NothingLeft
<1>1. TypeOK /\ LeftInv /\ GatewayInv => NothingLeft
  <2> SUFFICES ASSUME LeftInv, GatewayInv, Settled
               PROVE  /\ \A s \in Servers : gs[s].exists => Good(s)
                      /\ (\E s \in Servers : gs[s].exists) => gw = Listeners(egg)
    BY DEF NothingLeft, Good
  <2>1. ASSUME NEW s \in Servers, gs[s].exists PROVE Good(s)
    BY <2>1 DEF Settled, LeftInv, Finished, Done, Due, Holding
  <2>2. (\E s \in Servers : gs[s].exists) => gw = Listeners(egg)
    BY DEF Settled, GatewayInv, Expected, Awaited, Holding
  <2> QED BY <2>1, <2>2
<1> QED BY <1>1, TypeCorrect, LeftKept, GatewayKept, PTL
=============================================================================
