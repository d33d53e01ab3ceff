-------------------------------- MODULE Mods ---------------------------------
(***************************************************************************)
(* The mods directory of a server and those who write to it                *)
(* (internal/panelapi/{modsinstall,files,filesftp,sftpsession,modpacks}.go *)
(* and internal/modsource/resolve.go): the mod installer, the file manager *)
(* and the flag that asks for a restart.                                   *)
(*                                                                         *)
(* Requests are handled concurrently, each over an SFTP connection of its  *)
(* own to the agent next to the server, or to a maintenance Pod; one step  *)
(* is one SFTP call, or one call to the cluster.  What a request works out *)
(* from one listing of the directory is one step with the listing, since   *)
(* it reads nothing else that anyone writes.  A file is created empty, and *)
(* opening one that exists empties it; Rename replaces what it finds.      *)
(*                                                                         *)
(* The content of a jar is the version it is a copy of, Own for one that   *)
(* no catalog knows, or Torn.  Each version has the file name it is        *)
(* published under, the projects its catalog says it requires and those    *)
(* only its own metadata names.  The cache of hashes is not here: a key    *)
(* has the size and the time of the file in it.                            *)
(***************************************************************************)
EXTENDS Integers, FiniteSets

CONSTANTS
  Slots,                       \* requests handled at a time
  Names, Projects, Versions,   \* of jars
  Project, File,               \* of a version: its project and its file name
  Deps, Needs,                 \* of a version: what its catalog and its metadata require
  Latest,                      \* of a project: its newest version
  MaxDepth, MaxFiles, MaxRounds, MaxAttempts,  \* limits of the code: 5, 20, 5 and 3
  None, Own, Torn,             \* contents that are no version
  Initial,                     \* the directories there may be at the start
  Selections,                  \* bound: the files a file-manager request may name
  MaxAsked, MaxFailures, MaxEdits  \* bounds: requests, failures, changes of the GameServer

ASSUME CatalogAssumption ==
  /\ Project \in [Versions -> Projects] /\ File \in [Versions -> Names]
  /\ Deps \in [Versions -> SUBSET Projects] /\ Needs \in [Versions -> SUBSET Projects]
  /\ Latest \in [Projects -> Versions] /\ \A p \in Projects : Project[Latest[p]] = p
ASSUME LimitAssumption ==
  /\ MaxDepth \in Nat /\ MaxFiles \in Nat /\ MaxRounds \in Nat /\ MaxAttempts \in Nat \ {0}
  /\ MaxAsked \in Nat /\ MaxFailures \in Nat /\ MaxEdits \in Nat
ASSUME ContentAssumption ==
  /\ None # Own /\ None # Torn /\ Own # Torn /\ {None, Own, Torn} \cap Versions = {}
  /\ Initial \subseteq [Names -> Versions \cup {None, Own}] /\ Selections \subseteq SUBSET Names
  /\ None \notin Names

VARIABLES
  files,      \* the directory: each jar, and the temporary file it is written through
  gs,         \* the GameServer: state, the stamp of its files, a restart asked for
  pod,        \* the server's Pod: up, the stamp it was made with, files changed since
  maint,      \* whether the maintenance Pod is up
  req,        \* the requests being handled
  asked, failures, edits,
  owed,       \* history: what the answers so far promise is in the directory
  loose,      \* history: names the file manager wrote in place
  clash,      \* history: names two requests meant to write or remove at once
  missed      \* history: a change made since the Pod started, whose flag was not set

world == <<gs, pod, maint>>
history == <<owed, loose, clash, missed>>
modsVars == <<files, gs, pod, maint, req, asked, failures, edits, owed, loose, clash, missed>>

Contents == Versions \cup {None, Own, Torn}
Ops == {"none", "install", "update", "remove", "put", "delete", "rename"}
PCs == {"idle", "connect", "list", "create", "write", "stat", "unlink", "rename", "old", "mark",
        "flag", "check", "remove", "open", "drop", "move"}

Jar(n) == <<n, "jar">>
Part(n) == <<n, "part">>
Nowhere == <<None, "none">>
Places == {Jar(n) : n \in Names} \cup {Part(n) : n \in Names}

(* A request: the version asked for, the files it names or means to write,  *)
(* what is left to write and what was written, the file in hand and where   *)
(* its open handle points; history: whether nobody else changed a file.     *)
Requests ==
  [op : Ops, pc : PCs, ver : Versions \cup {None}, file : Names \cup {None}, to : Names \cup {None},
   names : SUBSET Names, plan : SUBSET Versions, wrote : SUBSET Versions, left : SUBSET Names,
   cur : Versions \cup {None}, at : Places \cup {Nowhere}, via : {"none", "sidecar", "maintenance"},
   fresh : BOOLEAN, tries : Nat, done : BOOLEAN, quiet : BOOLEAN]
NoRequest ==
  [op |-> "none", pc |-> "idle", ver |-> None, file |-> None, to |-> None, names |-> {},
   plan |-> {}, wrote |-> {}, left |-> {}, cur |-> None, at |-> Nowhere, via |-> "none",
   fresh |-> FALSE, tries |-> 0, done |-> FALSE, quiet |-> TRUE]

(* A server that runs or is stopped, with some jars.                        *)
ModsInit ==
  /\ \E dir \in Initial :
       files = [p \in Places |-> IF p[2] = "jar" THEN dir[p[1]] ELSE None]
  /\ \E runs \in BOOLEAN :
       /\ gs = [state |-> IF runs THEN "Running" ELSE "Stopped", changed |-> 0, restart |-> FALSE]
       /\ pod = [up |-> runs, stamp |-> 0, stale |-> FALSE]
  /\ maint = FALSE
  /\ req = [s \in Slots |-> NoRequest]
  /\ asked = 0 /\ failures = 0 /\ edits = 0
  /\ owed = [n \in Names |-> None]
  /\ loose = {} /\ clash = {} /\ missed = FALSE

------------------------------------------------------------------------------
Active(s) == req[s].pc # "idle"
Meant(s) == UNION {req[t].names : t \in Slots \ {s}}

(* The request s goes on as r; another that waits with what it read of the  *)
(* GameServer finds it changed when it writes.                              *)
Becomes(s, r) == req' = [req EXCEPT ![s] = r]
GoesTo(s, pc) == Becomes(s, [req[s] EXCEPT !.pc = pc])
Stales(s, r) ==
  req' = [t \in Slots |-> IF t = s THEN r ELSE [req[t] EXCEPT !.fresh = FALSE]]

(* s means to touch the names ns from now on: they are owed no more.        *)
Means(s, ns) ==
  /\ owed' = [n \in Names |-> IF n \in ns THEN None ELSE owed[n]]
  /\ clash' = clash \cup (ns \cap Meant(s))

(* An SFTP call of s that leaves the directory as dir, with s going on as   *)
(* r.  An open handle follows its file from one place to another; a file    *)
(* that is replaced or removed is nowhere.  When a jar changed, the server  *)
(* runs with an older one, and the other requests are not alone.            *)
ModsOps == {"install", "update", "remove"}
Working == {t \in Slots : req[t].op = "install" /\ req[t].names # {}}
Call(s, r, dir, from, to) ==
  LET changed == \E n \in Names : dir[Jar(n)] # files[Jar(n)]
      at(t) == IF req[t].at = from THEN to ELSE IF req[t].at = to THEN Nowhere ELSE req[t].at
  IN
  /\ files' = dir
  /\ req' = [t \in Slots |->
       IF t = s THEN [r EXCEPT !.done = (r.done \/ changed)]
                ELSE [req[t] EXCEPT !.at = at(t), !.quiet = @ /\ (t \notin Working \/ ~changed)]]
  /\ pod' = [pod EXCEPT !.stale = @ \/ (changed /\ pod.up /\ r.op \in ModsOps)]
  /\ UNCHANGED <<gs, maint, asked, edits>>
Removed(p) == [files EXCEPT ![p] = None]

(* A request ends: with an error, or with the promise that its files are    *)
(* there, but for those whose name it gave to two versions, one in place of *)
(* the other.  A mods request that changed files and ends early never flags.*)
Fails(s) ==
  /\ req' = [req EXCEPT ![s] = NoRequest]
  /\ missed' = (missed \/ (req[s].done /\ req[s].op \in ModsOps))
Wrote(s, n) == {v \in req[s].wrote : File[v] = n}
Promises(s) ==
  owed' = [n \in Names |->
    IF n \notin clash /\ \E v \in Wrote(s, n) : Wrote(s, n) = {v}
    THEN CHOOSE v \in Wrote(s, n) : TRUE ELSE owed[n]]

------------------------------------------------------------------------------
(* Requests.                                                                *)
Begin(s, r) ==
  /\ ~Active(s) /\ asked < MaxAsked
  /\ asked' = asked + 1
  /\ Becomes(s, r)
  /\ Means(s, r.names)
  /\ UNCHANGED <<files, world, failures, edits, loose, missed>>

RequestInstall(s) == \E v \in Versions :
  Begin(s, [NoRequest EXCEPT !.op = "install", !.pc = "connect", !.ver = v])
RequestUpdate(s) == \E n \in Names :
  Begin(s, [NoRequest EXCEPT !.op = "update", !.pc = "connect", !.file = n, !.names = {n}])
RequestRemove(s) == \E n \in Names :
  Begin(s, [NoRequest EXCEPT !.op = "remove", !.pc = "connect", !.file = n, !.names = {n}])
(* An edit, an upload, an archive made or unpacked, a copy: written in place.*)
RequestPut(s) == \E ns \in Selections :
  Begin(s, [NoRequest EXCEPT !.op = "put", !.pc = "connect", !.left = ns, !.names = ns])
RequestDelete(s) == \E ns \in Selections :
  Begin(s, [NoRequest EXCEPT !.op = "delete", !.pc = "connect", !.left = ns, !.names = ns])
RequestRename(s) == \E n, m \in Names :
  /\ n # m /\ {n, m} \in Selections
  /\ Begin(s, [NoRequest EXCEPT !.op = "rename", !.pc = "connect", !.file = n, !.to = m,
                                !.names = {n, m}])

FirstCall(op) ==
  [install |-> "list", update |-> "list", remove |-> "check", put |-> "open", delete |-> "drop",
   rename |-> "move"][op]

(* The Service leads to the Pod or to the maintenance Pod, which is made    *)
(* first when the server is to be stopped.                                  *)
Connect(s) ==
  /\ req[s].pc = "connect"
  /\ maint' = (maint \/ gs.state = "Stopped")
  /\ \/ \E via \in (IF pod.up THEN {"sidecar"} ELSE {}) \cup (IF maint' THEN {"maintenance"} ELSE {}) :
          Becomes(s, [req[s] EXCEPT !.pc = FirstCall(req[s].op), !.via = via])
     \/ ~pod.up /\ ~maint' /\ Becomes(s, NoRequest)
  /\ UNCHANGED <<files, gs, pod, asked, failures, edits, history>>

------------------------------------------------------------------------------
(* What to install.                                                         *)
ProjectsIn(vs) == {Project[v] : v \in vs}
Listed == {files[Jar(n)] : n \in Names} \cap Versions
Holding(p) == {n \in Names : files[Jar(n)] \in Versions /\ Project[files[Jar(n)]] = p}

(* One level of ResolveInstall: the latest version of what those of the     *)
(* level before require, but for projects that are present or chosen.       *)
Deeper(Level, d, v, present) ==
  IF d = 0 THEN {v}
  ELSE LET chosen == UNION {Level[e] : e \in 0..(d - 1)}
       IN {Latest[p] : p \in (UNION {Deps[w] : w \in Level[d - 1]})
                                \ (ProjectsIn(chosen) \cup present)}
(* A mutant: the last level of dependencies is left out.                    *)
ResolveShort(v, present) ==
  LET Level[d \in 0..MaxDepth] ==
        IF d = MaxDepth THEN {} ELSE Deeper(Level, d, v, present)
  IN Level
(* ResolveInstall: breadth-first from the requested version.                *)
Resolve(v, present) ==
  LET Level[d \in 0..MaxDepth] == Deeper(Level, d, v, present) IN Level

(* resolveJarDependencies, round by round: what the jars say they require   *)
(* and no jar is, as far as the lookup finds it and its file name is free.  *)
MoreJars(old, found) ==
  LET wanted == (UNION {Needs[v] : v \in old}) \ (ProjectsIn(old) \cup ProjectsIn(Listed))
      new == {Latest[p] : p \in {q \in wanted \cap found : files[Jar(File[Latest[q]])] = None}}
  IN IF Cardinality(old \cup new) <= MaxFiles THEN old \cup new ELSE old
WithJars(plan, found) ==
  LET Round[i \in 0..MaxRounds] == IF i = 0 THEN plan ELSE MoreJars(Round[i - 1], found)
  IN Round[MaxRounds]

(* A file of that name exists, and is not where its project was found.      *)
Conflicts(v, where) ==
  /\ files[Jar(File[v])] # None
  /\ Project[v] \in DOMAIN where => where[Project[v]] # File[v]

(* The listing, the resolution and the downloads.  The source may fail to   *)
(* identify what is there, and then nothing counts as installed; any of what*)
(* a jar requires may not be found.                                         *)
Needed == UNION {Needs[v] : v \in Versions}
PlanInstall(s) ==
  /\ req[s].pc = "list" /\ req[s].op = "install"
  /\ \E known \in BOOLEAN, found \in SUBSET Needed :
       /\ failures + (IF known THEN 0 ELSE 1) <= MaxFailures
       /\ failures' = failures + (IF known THEN 0 ELSE 1)
       /\ LET present == IF known THEN ProjectsIn(Listed) ELSE {}
              level == Resolve(req[s].ver, present)
              chosen == UNION {level[d] : d \in 0..MaxDepth}
          IN \E where \in {w \in [present -> Names] : \A p \in present : w[p] \in Holding(p)} :
               IF Cardinality(chosen) > MaxFiles \/ \E v \in chosen : Conflicts(v, where)
               THEN Becomes(s, NoRequest) /\ UNCHANGED <<owed, clash>>
               ELSE LET plan == WithJars(chosen, found)
                        names == {File[v] : v \in plan}
                    IN /\ Becomes(s, [req[s] EXCEPT !.pc = "create", !.plan = plan,
                                                    !.names = names, !.quiet = TRUE])
                       /\ Means(s, names)
  /\ UNCHANGED <<files, world, asked, edits, loose, missed>>

(* The file is there, its project is known and has something newer.         *)
PlanUpdate(s) ==
  LET now == files[Jar(req[s].file)]
      new == Latest[Project[now]]
  IN
  /\ req[s].pc = "list" /\ req[s].op = "update"
  /\ IF now \in Versions /\ new # now
     THEN /\ Becomes(s, [req[s] EXCEPT !.pc = "create", !.plan = {new}, !.names = @ \cup {File[new]},
                                       !.quiet = TRUE])
          /\ Means(s, {File[new]})
     ELSE Becomes(s, NoRequest) /\ UNCHANGED <<owed, clash>>
  /\ UNCHANGED <<files, world, asked, failures, edits, loose, missed>>

------------------------------------------------------------------------------
(* A mutant: the jar is written in place, without a temporary file.         *)
CreateInPlace(s) ==
  /\ req[s].pc = "create" /\ req[s].plan # {}
  /\ \E v \in req[s].plan :
       /\ req[s].ver \in req[s].plan => v = req[s].ver
       /\ Call(s, [req[s] EXCEPT !.pc = "write", !.cur = v, !.plan = @ \ {v}, !.at = Jar(File[v])],
               [files EXCEPT ![Jar(File[v])] = Torn], Nowhere, Nowhere)
  /\ UNCHANGED <<failures, history>>
(* writeModFile, file by file, the requested one first.                     *)
CreatePart(s) ==
  /\ req[s].pc = "create" /\ req[s].plan # {}
  /\ \E v \in req[s].plan :
       /\ req[s].ver \in req[s].plan => v = req[s].ver
       /\ Call(s, [req[s] EXCEPT !.pc = "write", !.cur = v, !.plan = @ \ {v}, !.at = Part(File[v])],
               [files EXCEPT ![Part(File[v])] = Torn], Nowhere, Nowhere)
  /\ UNCHANGED <<failures, history>>

(* The content goes where the open handle leads.  A file that someone else  *)
(* has open, or that has other content, may end up as neither.              *)
Shared(s) == \E t \in Slots \ {s} : req[t].at = req[s].at
(* downloadVerified: what the version names, or the request ends.            *)
Downloaded(s) == req[s].cur
Content(s) == IF req[s].op = "put" THEN Own ELSE Downloaded(s)
Write(s) ==
  LET at == req[s].at
      r == [req[s] EXCEPT !.pc = IF req[s].op = "put" THEN "open" ELSE "stat", !.at = Nowhere]
  IN
  /\ req[s].pc = "write"
  /\ IF at = Nowhere THEN Call(s, r, files, Nowhere, Nowhere)
     ELSE \E c \in {Content(s)} \cup
             (IF Shared(s) \/ files[at] \notin {Torn, Content(s)} THEN {Torn} ELSE {}) :
            Call(s, r, [files EXCEPT ![at] = c], Nowhere, Nowhere)
  /\ UNCHANGED <<failures, history>>

(* What is there under the final name is removed, and then renamed over.    *)
Name(s) == File[req[s].cur]
StatFinal(s) ==
  /\ req[s].pc = "stat"
  /\ GoesTo(s, IF files[Jar(Name(s))] # None THEN "unlink" ELSE "rename")
  /\ UNCHANGED <<files, world, asked, failures, edits, history>>

RemoveFinal(s) ==
  /\ req[s].pc = "unlink" /\ files[Jar(Name(s))] # None
  /\ Call(s, [req[s] EXCEPT !.pc = "rename"], Removed(Jar(Name(s))), Jar(Name(s)), Nowhere)
  /\ UNCHANGED <<failures, history>>

RenamePart(s) ==
  LET from == Part(Name(s))
      to == Jar(Name(s))
      next == IF req[s].plan # {} THEN "create"
              ELSE IF req[s].op = "update" /\ Name(s) # req[s].file THEN "old" ELSE "mark"
  IN
  /\ req[s].pc = "rename" /\ files[from] # None
  /\ Call(s, [req[s] EXCEPT !.pc = next, !.wrote = @ \cup {req[s].cur}],
          [Removed(from) EXCEPT ![to] = files[from]], from, to)
  /\ UNCHANGED <<failures, history>>

(* The file an update replaces.                                             *)
RemoveOld(s) ==
  LET old == Jar(req[s].file) IN
  /\ req[s].pc = "old" /\ files[old] # None
  /\ Call(s, [req[s] EXCEPT !.pc = "mark"], Removed(old), old, Nowhere)
  /\ UNCHANGED <<failures, history>>

(* handleRemoveMod: what is not there is not found.                         *)
CheckRemove(s) ==
  /\ req[s].pc = "check" /\ files[Jar(req[s].file)] # None
  /\ GoesTo(s, "remove")
  /\ UNCHANGED <<files, world, asked, failures, edits, history>>
RemoveMod(s) ==
  LET jar == Jar(req[s].file) IN
  /\ req[s].pc = "remove" /\ files[jar] # None
  /\ Call(s, [req[s] EXCEPT !.pc = "mark"], Removed(jar), jar, Nowhere)
  /\ UNCHANGED <<failures, history>>

(* A call that needs a file someone took away is an error; if it was the    *)
(* removal before the rename, the temporary file is removed.                *)
Gone(s) ==
  \/ /\ \/ req[s].pc = "rename" /\ files[Part(Name(s))] = None
        \/ req[s].pc \in {"old", "check", "remove", "move"} /\ files[Jar(req[s].file)] = None
     /\ Fails(s)
     /\ UNCHANGED <<files, world, asked, failures, edits, owed, loose, clash>>
  \/ /\ req[s].pc = "unlink" /\ files[Jar(Name(s))] = None
     /\ Call(s, NoRequest, Removed(Part(Name(s))), Part(Name(s)), Nowhere)
     /\ missed' = (missed \/ req[s].done)
     /\ UNCHANGED <<failures, owed, loose, clash>>

------------------------------------------------------------------------------
(* markFilesChanged: up to MaxAttempts reads and writes of the GameServer.  *)
ReadServer(s) ==
  /\ req[s].pc = "mark"
  /\ IF gs.state = "Running"
     THEN Becomes(s, [req[s] EXCEPT !.pc = "flag", !.fresh = TRUE]) /\ UNCHANGED <<owed, missed>>
     ELSE Becomes(s, NoRequest) /\ Promises(s) /\ missed' = (missed \/ pod.up)
  /\ UNCHANGED <<files, world, asked, failures, edits, loose, clash>>

Flag(s) ==
  /\ req[s].pc = "flag" /\ req[s].fresh
  /\ gs' = [gs EXCEPT !.changed = @ + 1]
  /\ Stales(s, NoRequest)
  /\ Promises(s)
  /\ UNCHANGED <<files, pod, maint, asked, failures, edits, loose, clash, missed>>

(* A mutant: a conflict is not tried again.                                 *)
FlagOnce(s) ==
  /\ req[s].pc = "flag" /\ ~req[s].fresh
  /\ Becomes(s, NoRequest) /\ Promises(s)
  /\ UNCHANGED <<files, world, asked, failures, edits, loose, clash, missed>>
FlagConflicts(s) ==
  /\ req[s].pc = "flag" /\ ~req[s].fresh
  /\ IF req[s].tries + 1 < MaxAttempts
     THEN Becomes(s, [req[s] EXCEPT !.pc = "mark", !.tries = @ + 1]) /\ UNCHANGED <<owed, missed>>
     ELSE Becomes(s, NoRequest) /\ Promises(s) /\ missed' = TRUE
  /\ UNCHANGED <<files, world, asked, failures, edits, loose, clash>>

------------------------------------------------------------------------------
(* The file manager: files written in place one after the other, removed    *)
(* one after the other whether the last one failed or not, or renamed.      *)
OpenPlace(s) ==
  /\ req[s].pc = "open" /\ req[s].left # {}
  /\ \E n \in req[s].left :
       /\ Call(s, [req[s] EXCEPT !.pc = "write", !.left = @ \ {n}, !.at = Jar(n)],
               [files EXCEPT ![Jar(n)] = Torn], Nowhere, Nowhere)
       /\ loose' = loose \cup {n}
  /\ UNCHANGED <<failures, owed, clash, missed>>
DeletePath(s) ==
  /\ req[s].pc = "drop" /\ req[s].left # {}
  /\ \E n \in req[s].left :
       Call(s, [req[s] EXCEPT !.left = @ \ {n}], Removed(Jar(n)), Jar(n), Nowhere)
  /\ UNCHANGED <<failures, history>>
RenameFile(s) ==
  LET from == Jar(req[s].file)
      to == Jar(req[s].to)
  IN
  /\ req[s].pc = "move" /\ files[from] # None
  /\ Call(s, NoRequest, [Removed(from) EXCEPT ![to] = files[from]], from, to)
  /\ loose' = IF req[s].file \in loose THEN loose \cup {req[s].to} ELSE loose
  /\ clash' = IF req[s].file \in clash THEN clash \cup {req[s].to} ELSE clash
  /\ UNCHANGED <<failures, owed, missed>>
Finish(s) ==
  /\ req[s].pc \in {"open", "drop"} /\ req[s].left = {}
  /\ Becomes(s, NoRequest)
  /\ UNCHANGED <<files, world, asked, failures, edits, history>>

------------------------------------------------------------------------------
(* The GameServer and its Pods.  A Pod is made with the stamp of the files  *)
(* there is; a stop, a restart, and so an update of the modpack, take it    *)
(* away, and with it the connections that went through it.                  *)
SetState ==
  /\ edits < MaxEdits
  /\ edits' = edits + 1
  /\ gs' = [gs EXCEPT !.state = IF @ = "Running" THEN "Stopped" ELSE "Running"]
  /\ req' = [s \in Slots |-> [req[s] EXCEPT !.fresh = FALSE]]
  /\ UNCHANGED <<files, pod, maint, asked, failures, history>>
UpdateModpack ==
  /\ edits < MaxEdits
  /\ edits' = edits + 1
  /\ gs' = [gs EXCEPT !.restart = @ \/ gs.state = "Running"]
  /\ req' = [s \in Slots |-> [req[s] EXCEPT !.fresh = FALSE]]
  /\ UNCHANGED <<files, pod, maint, asked, failures, history>>
PodStarts ==
  /\ ~pod.up /\ gs.state = "Running"
  /\ pod' = [up |-> TRUE, stamp |-> gs.changed, stale |-> FALSE]
  /\ gs' = [gs EXCEPT !.restart = FALSE]
  /\ missed' = FALSE
  /\ UNCHANGED <<files, maint, req, asked, failures, edits, owed, loose, clash>>

Through(via) == {s \in Slots : req[s].via = via /\ req[s].pc \notin {"mark", "flag"}}
Cut(via) ==
  /\ req' = [s \in Slots |-> IF s \in Through(via) THEN NoRequest ELSE req[s]]
  /\ missed' = (missed \/ \E s \in Through(via) : req[s].done /\ req[s].op \in ModsOps)
PodGoes ==
  /\ pod.up /\ (gs.state = "Stopped" \/ gs.restart)
  /\ pod' = [pod EXCEPT !.up = FALSE, !.stale = FALSE]
  /\ Cut("sidecar")
  /\ UNCHANGED <<files, gs, maint, asked, failures, edits, owed, loose, clash>>
(* Its ActiveDeadlineSeconds.                                               *)
MaintenanceEnds ==
  /\ maint /\ failures < MaxFailures
  /\ failures' = failures + 1
  /\ maint' = FALSE
  /\ Cut("maintenance")
  /\ UNCHANGED <<files, gs, pod, asked, edits, owed, loose, clash>>

(* A call fails, the client goes away before the flag, or the Panel stops:  *)
(* the request ends there.  After a failed write or removal the temporary   *)
(* file is removed, if that call succeeds.                                  *)
Breaks(s) ==
  /\ Active(s) /\ failures < MaxFailures
  /\ failures' = failures + 1
  /\ \/ Fails(s) /\ UNCHANGED <<files, world, asked, edits>>
     \/ /\ req[s].pc \in {"write", "unlink"} /\ req[s].op # "put"
        /\ Call(s, NoRequest, Removed(Part(Name(s))), Part(Name(s)), Nowhere)
        /\ missed' = (missed \/ req[s].done)
  /\ UNCHANGED <<owed, loose, clash>>

Handle(s) ==
  \/ RequestInstall(s) \/ RequestUpdate(s) \/ RequestRemove(s)
  \/ RequestPut(s) \/ RequestDelete(s) \/ RequestRename(s)
  \/ Connect(s) \/ PlanInstall(s) \/ PlanUpdate(s)
  \/ CreatePart(s) \/ Write(s) \/ StatFinal(s) \/ RemoveFinal(s) \/ RenamePart(s)
  \/ RemoveOld(s) \/ CheckRemove(s) \/ RemoveMod(s) \/ Gone(s)
  \/ ReadServer(s) \/ Flag(s) \/ FlagConflicts(s)
  \/ OpenPlace(s) \/ DeletePath(s) \/ RenameFile(s) \/ Finish(s) \/ Breaks(s)
ModsNext ==
  \/ \E s \in Slots : Handle(s)
  \/ SetState \/ UpdateModpack \/ PodStarts \/ PodGoes \/ MaintenanceEnds
ModsSpec == ModsInit /\ [][ModsNext]_modsVars

------------------------------------------------------------------------------
ModsTypes ==
  /\ files \in [Places -> Contents]
  /\ gs \in [state : {"Running", "Stopped"}, changed : Nat, restart : BOOLEAN]
  /\ pod \in [up : BOOLEAN, stamp : Nat, stale : BOOLEAN]
  /\ maint \in BOOLEAN /\ missed \in BOOLEAN
  /\ req \in [Slots -> Requests]
  /\ asked \in Nat /\ failures \in Nat /\ edits \in Nat
  /\ owed \in [Names -> Versions \cup {None}]
  /\ loose \subseteq Names /\ clash \subseteq Names

(* The server never sees a half-written jar: one is there only under a name *)
(* the file manager writes in place, or that two requests meant at once     *)
(* (writeModFile's temporary file and rename).                              *)
WholeJars == \A n \in Names \ (loose \cup clash) : files[Jar(n)] # Torn

(* What an install or an update answered is there, is there as long as no   *)
(* later request means that file: an update does not remove its own file,   *)
(* and another request that fails half-way does not take it along.          *)
OwedThere == \A n \in Names : owed[n] # None => files[Jar(n)] = owed[n]

(* A chain of less than MaxDepth requirements leads to v from the version   *)
(* that was asked for, through versions vs that were chosen.                *)
Leads(ver, vs, v) == \E k \in 0..(MaxDepth - 1) : \E path \in [0..k -> vs] :
  /\ path[0] = ver /\ path[k] = v
  /\ \A i \in 1..k : \E p \in Deps[path[i - 1]] : path[i] = Latest[p]
OneEach(vs) == \A v, w \in vs : File[v] = File[w] => v = w

(* When an install is about to answer, and nobody else changed a file since *)
(* it looked, every project its versions require, down to the depth it      *)
(* follows, is there (ResolveInstall skips only what is present or chosen), *)
(* unless it gave one name to two versions.                                 *)
Complete == \A s \in Slots :
  LET r == req[s] IN
  (r.op = "install" /\ r.pc = "mark" /\ r.quiet /\ r.names \cap clash = {} /\ OneEach(r.wrote)) =>
    \A v \in r.wrote : Leads(r.ver, r.wrote, v) => \A p \in Deps[v] : Holding(p) # {}

(* What an install answered is there, with what it requires.                *)
Delivered == OwedThere /\ Complete

(* A server that runs with older mods than a request left in the directory  *)
(* is flagged for a restart, once the request is over: unless it ended      *)
(* early, gave up, or found the server about to stop (markFilesChanged).    *)
Flagged ==
  (pod.up /\ pod.stale /\ ~missed /\ \A s \in Slots : ~(req[s].done /\ req[s].op \in ModsOps))
    => gs.changed # pod.stamp
==============================================================================
