------------------------------- MODULE Discord -------------------------------
(***************************************************************************)
(* The Discord bot of the Panel (internal/panelapi/discordbot.go,          *)
(* discordinteractions.go, dispatch.go, paneldb/discord.go): users link    *)
(* their Discord account, organisations and the platform connect a Discord *)
(* server (a guild) through OAuth2, and slash commands run the Panel's     *)
(* routes as the linked user.  What a suspension announces is in Notify.   *)
(*                                                                         *)
(* The requests that change links and guilds, and the commands, are        *)
(* several at a time, call by call.  An organisation has one server.       *)
(***************************************************************************)
EXTENDS Integers, FiniteSets

CONSTANTS
  Org, User, Account, Guild,
  Flow,          \* the requests on links and guilds
  Command,       \* the slash commands
  MaxRequests,   \* bound: what people do
  MaxFaults      \* bound: failed calls and crashes

VARIABLES
  link,          \* of each user: the linked Discord account
  guildOf,       \* of each organisation: its guild
  platform,      \* the platform's guild and the guild its name is from
  registered,    \* the guilds that have the platform's commands
  unregistered,  \* the guilds whose registration failed or was cut off
  clashed,       \* the guilds whose name another callback kept from being stored
  managers,        \* who may manage an organisation and its server
  admins,        \* the platform's administrators
  server,        \* of each organisation: what its server is asked to be
  held,          \* the organisations whose server was suspended and not let go
  flow, command, requests, faults

botVars == <<link, guildOf, platform, registered, unregistered, clashed, managers,
          admins, server, held, flow, command, requests, faults>>

None == "none"
NoFlow == [at |-> "none", kind |-> "-", user |-> "-", org |-> "-", pick |-> "-",
           admin |-> FALSE, refused |-> FALSE]
Stopped == [running |-> FALSE, suspended |-> FALSE]
NoCommand == [at |-> "none", do |-> "-", user |-> "-", org |-> "-",
              admin |-> FALSE, copy |-> Stopped]

(* Some may have been linked and connected before.                          *)
Apart(f) == \A x, y \in DOMAIN f : x # y /\ f[x] # None => f[x] # f[y]

BotInit ==
  /\ link \in {l \in [User -> Account \cup {None}] : Apart(l)}
  /\ guildOf \in {g \in [Org -> Guild \cup {None}] : Apart(g)}
  /\ platform \in {[guild |-> g, name |-> g] : g \in Guild \cup {None}}
  /\ registered = {platform.guild} \ {None} /\ unregistered = {} /\ clashed = {}
  /\ managers = [o \in Org |-> User]
  /\ admins \in {{u} : u \in User}
  /\ server = [o \in Org |-> [Stopped EXCEPT !.running = TRUE]] /\ held = {}
  /\ flow = [f \in Flow |-> NoFlow]
  /\ command = [c \in Command |-> NoCommand]
  /\ requests = 0 /\ faults = 0

Requested == requests < MaxRequests /\ requests' = requests + 1
Fault == faults < MaxFaults /\ faults' = faults + 1

Moves(f, change) == flow' = [flow EXCEPT ![f] = change]
Over(f) == Moves(f, [NoFlow EXCEPT !.at = "over"])
Step(f, place) == Moves(f, [flow[f] EXCEPT !.at = place])
Ends(c) == command' = [command EXCEPT ![c] = [NoCommand EXCEPT !.at = "over"]]

LinksKept == UNCHANGED <<link, guildOf>>
RegistryKept == UNCHANGED <<registered, unregistered, clashed>>
PlatformKept == UNCHANGED platform /\ RegistryKept
RightsKept == UNCHANGED <<managers, admins>>
NotOnServers == UNCHANGED <<server, held, command>>
NotOnFlows == UNCHANGED flow
-----------------------------------------------------------------------------
(* A single-use state is issued for a flow: of a user, an administrator of   *)
(* an organisation, or one of the platform.                                 *)
Authorize(f, kind, u, o) ==
  /\ Requested /\ flow[f] = NoFlow
  /\ kind = "org" => u \in managers[o] \cup admins
  /\ kind = "platform" => u \in admins
  /\ Moves(f, [NoFlow EXCEPT !.at = "issued", !.kind = kind, !.user = u, !.org = o])
  /\ LinksKept /\ PlatformKept /\ RightsKept /\ NotOnServers
  /\ UNCHANGED faults

(* The callback takes the state, reads the user and trades the code for      *)
(* what was picked on Discord.  The state may expire, the trade may fail.    *)
Callback(f, pick) ==
  /\ flow[f].at = "issued"
  /\ pick \in IF flow[f].kind = "link" THEN Account ELSE Guild
  /\ \/ Moves(f, [flow[f] EXCEPT !.at = "picked", !.pick = pick,
                                 !.admin = flow[f].user \in admins])
     \/ Over(f)
  /\ LinksKept /\ PlatformKept /\ RightsKept /\ NotOnServers
  /\ UNCHANGED <<requests, faults>>

(* The account may be linked to one user, by a unique index.                 *)
SetDiscordLink(f) ==
  LET taken == \E u \in User \ {flow[f].user} : link[u] = flow[f].pick IN
  /\ flow[f].at = "picked" /\ flow[f].kind = "link" /\ Over(f)
  /\ link' = IF taken THEN link ELSE [link EXCEPT ![flow[f].user] = flow[f].pick]
  /\ PlatformKept /\ RightsKept /\ NotOnServers
  /\ UNCHANGED <<guildOf, requests, faults>>

(* resolveOrgAccess: the right to the organisation is checked again.         *)
CheckOrg(f) ==
  /\ flow[f].at = "picked" /\ flow[f].kind = "org"
  /\ IF flow[f].admin \/ flow[f].user \in managers[flow[f].org]
     THEN Step(f, "able") ELSE Over(f)
  /\ LinksKept /\ PlatformKept /\ RightsKept /\ NotOnServers
  /\ UNCHANGED <<requests, faults>>

(* One transaction, and one organisation for a guild by its table.           *)
SetOrgGuild(f) ==
  LET taken == \E o \in Org \ {flow[f].org} : guildOf[o] = flow[f].pick IN
  /\ flow[f].at = "able" /\ Over(f)
  /\ guildOf' = IF taken THEN guildOf
                ELSE [guildOf EXCEPT ![flow[f].org] = flow[f].pick]
  /\ PlatformKept /\ RightsKept /\ NotOnServers
  /\ UNCHANGED <<link, requests, faults>>

(* The platform's guild and its name are two settings (SetSetting), written  *)
(* one after the other even when the first could not be: a row is updated,   *)
(* or inserted when there was none, and the primary key refuses an insertion *)
(* that another callback has made since.                                    *)
Stores(f, setting) == platform' = [platform EXCEPT ![setting] = flow[f].pick]
NameNext(f, refused) == Moves(f, [flow[f] EXCEPT !.at = "name", !.refused = refused])

(* The commands are registered when both were written, otherwise the answer  *)
(* is an error and nothing else is done.                                    *)
(* A mutant: the commands wait for the next start of a Panel.                *)
AnswersOnly(f) == Over(f)

Answers(f) == IF flow[f].refused THEN Over(f) ELSE Step(f, "register")

SetPlatformGuild(f) ==
  /\ flow[f].at = "picked" /\ flow[f].kind = "platform"
  /\ \/ ~flow[f].admin /\ Over(f) /\ UNCHANGED platform
     \/ flow[f].admin /\ platform.guild # None /\ Stores(f, "guild") /\ NameNext(f, FALSE)
     \/ flow[f].admin /\ platform.guild = None /\ Step(f, "guild") /\ UNCHANGED platform
  /\ LinksKept /\ RightsKept /\ NotOnServers /\ RegistryKept
  /\ UNCHANGED <<requests, faults>>

InsertGuild(f) ==
  /\ flow[f].at = "guild" /\ NameNext(f, platform.guild # None)
  /\ IF platform.guild = None THEN Stores(f, "guild") ELSE UNCHANGED platform
  /\ LinksKept /\ RightsKept /\ NotOnServers /\ RegistryKept
  /\ UNCHANGED <<requests, faults>>

SetPlatformName(f) ==
  /\ flow[f].at = "name"
  /\ IF platform.name # None THEN Stores(f, "name") /\ Answers(f)
     ELSE Step(f, "naming") /\ UNCHANGED platform
  /\ LinksKept /\ RightsKept /\ NotOnServers /\ RegistryKept
  /\ UNCHANGED <<requests, faults>>

(* A callback that is about to register commands where it stored the guild.  *)
Pending(x) == x.at = "register" \/ (x.at \in {"name", "naming"} /\ ~x.refused)
Awaiting(f) == IF Pending(flow[f]) THEN {flow[f].pick} ELSE {}

InsertName(f) ==
  /\ flow[f].at = "naming"
  /\ \/ platform.name = None /\ Stores(f, "name") /\ Answers(f) /\ UNCHANGED clashed
     \/ platform.name # None /\ UNCHANGED platform /\ Over(f)
        /\ clashed' = clashed \cup Awaiting(f)
  /\ LinksKept /\ RightsKept /\ NotOnServers
  /\ UNCHANGED <<registered, unregistered, requests, faults>>

(* A setting that cannot be written for another reason.                      *)
SettingFails(f) ==
  /\ Fault
  /\ \/ /\ \/ flow[f].at = "picked" /\ flow[f].kind = "platform" /\ flow[f].admin
           \/ flow[f].at = "guild"
        /\ NameNext(f, TRUE) /\ UNCHANGED unregistered
     \/ /\ flow[f].at \in {"name", "naming"} /\ Over(f)
        /\ unregistered' = unregistered \cup Awaiting(f)
  /\ LinksKept /\ RightsKept /\ NotOnServers
  /\ UNCHANGED <<platform, registered, clashed, requests>>

RegisterPlatformCommands(f) ==
  /\ flow[f].at = "register" /\ Over(f)
  /\ \/ registered' = registered \cup {flow[f].pick} /\ UNCHANGED <<unregistered, faults>>
     \/ Fault /\ unregistered' = unregistered \cup {flow[f].pick} /\ UNCHANGED registered
  /\ LinksKept /\ RightsKept /\ NotOnServers
  /\ UNCHANGED <<platform, clashed, requests>>

(* A Panel that starts registers the commands of the platform's guild; one   *)
(* that stops, or a statement on links that fails, leaves what its callback  *)
(* had still to do.                                                         *)
RegisterDiscordCommands ==
  /\ Requested /\ platform.guild # None
  /\ registered' = registered \cup {platform.guild}
  /\ LinksKept /\ RightsKept /\ NotOnServers /\ NotOnFlows
  /\ UNCHANGED <<platform, unregistered, clashed, faults>>

CutOff(f) ==
  /\ Fault /\ Over(f)
  /\ flow[f].at \in {"picked", "able", "guild", "name", "naming", "register"}
  /\ unregistered' = unregistered \cup Awaiting(f)
  /\ LinksKept /\ RightsKept /\ NotOnServers
  /\ UNCHANGED <<platform, registered, clashed, requests>>

ClearDiscordLink(u) ==
  /\ Requested /\ link[u] # None
  /\ link' = [link EXCEPT ![u] = None]
  /\ PlatformKept /\ RightsKept /\ NotOnServers /\ NotOnFlows
  /\ UNCHANGED <<guildOf, faults>>

ClearOrgGuild(o) ==
  /\ Requested /\ guildOf[o] # None
  /\ guildOf' = [guildOf EXCEPT ![o] = None]
  /\ PlatformKept /\ RightsKept /\ NotOnServers /\ NotOnFlows
  /\ UNCHANGED <<link, faults>>

(* Both settings are deleted, the guild first.                              *)
DeletePlatformGuild(f) ==
  /\ Requested /\ flow[f] = NoFlow /\ platform.guild # None
  /\ platform' = [platform EXCEPT !.guild = None]
  /\ Moves(f, [NoFlow EXCEPT !.at = "unname"])
  /\ LinksKept /\ RightsKept /\ NotOnServers /\ RegistryKept
  /\ UNCHANGED faults

DeletePlatformName(f) ==
  /\ flow[f].at = "unname" /\ Over(f)
  /\ platform' = [platform EXCEPT !.name = None]
  /\ LinksKept /\ RightsKept /\ NotOnServers /\ RegistryKept
  /\ UNCHANGED <<requests, faults>>

(* Rights come and go in the Panel.                                         *)
SetRights(u) ==
  /\ Requested
  /\ \/ \E o \in Org :
          managers' = [managers EXCEPT ![o] = (@ \ {u}) \cup ({u} \ @)]
        /\ UNCHANGED admins
     \/ admins' = (admins \ {u}) \cup ({u} \ admins) /\ UNCHANGED managers
  /\ LinksKept /\ PlatformKept /\ NotOnServers /\ NotOnFlows
  /\ UNCHANGED faults
-----------------------------------------------------------------------------
OrgCommands == {"start", "stop"}
PlatformCommands == {"suspend", "unsuspend"}

(* interact: the guild says for which organisation, the account says who.    *)
(* In the platform's guild only its administrators are answered, and name    *)
(* the organisation themselves.                                             *)
Interact(c, account, g, do, o) ==
  /\ Requested /\ command[c] = NoCommand
  /\ IF g = platform.guild
     THEN do \in PlatformCommands
     ELSE do \in OrgCommands /\ guildOf[o] = g
  /\ \E u \in User :
       /\ link[u] = account
       /\ g = platform.guild => u \in admins
       /\ command' = [command EXCEPT ![c] =
            [NoCommand EXCEPT !.at = "asked", !.do = do, !.user = u, !.org = o,
                              !.admin = u \in admins]]
  /\ LinksKept /\ PlatformKept /\ RightsKept /\ NotOnFlows
  /\ UNCHANGED <<server, held, faults>>

(* unlessSuspended: a suspended server is locked for all but administrators. *)
Locked(k) == ~k.admin /\ server[k.org].suspended

(* dispatch runs the route with its checks: the right to the organisation,   *)
(* and the lock of a suspended server.                                      *)
Admit(c) ==
  LET k == command[c] IN
  /\ k.at = "asked"
  /\ IF (k.admin \/ k.user \in managers[k.org]) /\ ~Locked(k)
     THEN command' = [command EXCEPT ![c].at = "admitted"] ELSE Ends(c)
  /\ LinksKept /\ PlatformKept /\ RightsKept /\ NotOnFlows
  /\ UNCHANGED <<server, held, requests, faults>>

(* The handler reads the server again, and updates it with what it read.     *)
GetServer(c) ==
  /\ command[c].at = "admitted"
  /\ command' = [command EXCEPT ![c].at = "read", ![c].copy = server[command[c].org]]
  /\ LinksKept /\ PlatformKept /\ RightsKept /\ NotOnFlows
  /\ UNCHANGED <<server, held, requests, faults>>

(* An update conflicts when the server is not what was read.  (A version     *)
(* that changed and says the same may conflict as well, see NotSaved.)       *)
(* A mutant: the update is unconditional.                                    *)
CurrentOrNot(c) == command[c].at = "read"

Current(c) == command[c].copy = server[command[c].org]

(* The webhook of GameServers refuses an update that leaves a suspended      *)
(* server running.                                                          *)
Accepted(s) == ~(s.suspended /\ s.running)

Save(c, s) ==
  /\ Current(c) /\ Accepted(s) /\ Ends(c)
  /\ server' = [server EXCEPT ![command[c].org] = s]

(* Nothing is saved: a conflict, the webhook, or a call that failed.         *)
NotSaved(c) == Ends(c) /\ UNCHANGED <<server, held>>

SetState(c) ==
  LET k == command[c] IN
  /\ k.at = "read" /\ k.do \in OrgCommands
  /\ \/ Save(c, [k.copy EXCEPT !.running = k.do = "start"]) /\ UNCHANGED held
     \/ NotSaved(c)
  /\ LinksKept /\ PlatformKept /\ RightsKept /\ NotOnFlows
  /\ UNCHANGED <<requests, faults>>

(* mutateGameServer: after a conflict it reads again, a few times.           *)
TryAgain(c) ==
  /\ command' = [command EXCEPT ![c].at = "admitted", ![c].copy = Stopped]
  /\ UNCHANGED <<server, held>>

(* A suspended server is stopped.                                            *)
Suspend(c) ==
  LET k == command[c] IN
  /\ k.at = "read" /\ k.do = "suspend"
  /\ \/ /\ Save(c, [k.copy EXCEPT !.suspended = TRUE, !.running = FALSE])
        /\ held' = held \cup {k.org}
     \/ NotSaved(c) \/ TryAgain(c)
  /\ LinksKept /\ PlatformKept /\ RightsKept /\ NotOnFlows
  /\ UNCHANGED <<requests, faults>>

(* A server that is let go stays stopped.                                    *)
Unsuspend(c) ==
  LET k == command[c] IN
  /\ k.at = "read" /\ k.do = "unsuspend"
  /\ \/ /\ Save(c, [k.copy EXCEPT !.suspended = FALSE])
        /\ held' = held \ {k.org}
     \/ NotSaved(c) \/ TryAgain(c)
  /\ LinksKept /\ PlatformKept /\ RightsKept /\ NotOnFlows
  /\ UNCHANGED <<requests, faults>>

BotNext ==
  \/ \E f \in Flow, u \in User, o \in Org :
       \E kind \in {"link", "org", "platform"} : Authorize(f, kind, u, o)
  \/ \E f \in Flow, pick \in Account \cup Guild : Callback(f, pick)
  \/ \E f \in Flow :
       \/ SetDiscordLink(f) \/ CheckOrg(f) \/ SetOrgGuild(f)
       \/ SetPlatformGuild(f) \/ InsertGuild(f) \/ SetPlatformName(f) \/ InsertName(f)
       \/ SettingFails(f) \/ RegisterPlatformCommands(f)
       \/ CutOff(f) \/ DeletePlatformGuild(f) \/ DeletePlatformName(f)
  \/ RegisterDiscordCommands
  \/ \E u \in User : ClearDiscordLink(u) \/ SetRights(u)
  \/ \E o \in Org : ClearOrgGuild(o)
  \/ \E c \in Command, a \in Account, g \in Guild, o \in Org :
       \E do \in OrgCommands \cup PlatformCommands : Interact(c, a, g, do, o)
  \/ \E c \in Command : Admit(c) \/ GetServer(c) \/ SetState(c) \/ Suspend(c) \/ Unsuspend(c)

BotSpec == BotInit /\ [][BotNext]_botVars
-----------------------------------------------------------------------------
(* Every variable has its type.                                             *)
Servers == [running : BOOLEAN, suspended : BOOLEAN]
Flows == [at : {"none", "issued", "picked", "able", "guild", "name", "naming", "register",
                "unname", "over"},
          kind : {"-", "link", "org", "platform"}, user : User \cup {"-"},
          org : Org \cup {"-"}, pick : Account \cup Guild \cup {"-"}, admin : BOOLEAN,
          refused : BOOLEAN]
Commands == [at : {"none", "asked", "admitted", "read", "over"},
             do : OrgCommands \cup PlatformCommands \cup {"-"},
             user : User \cup {"-"}, org : Org \cup {"-"}, admin : BOOLEAN,
             copy : Servers]
FlowFits(x) ==
  /\ x.at \in {"issued", "picked", "able"} => x.user \in User /\ x.org \in Org
  /\ x.at = "picked" => x.pick \in IF x.kind = "link" THEN Account ELSE Guild
  /\ x.at \in {"able", "guild", "name", "naming", "register"} => x.pick \in Guild
CommandFits(x) == x.at \in {"asked", "admitted", "read"} => x.user \in User /\ x.org \in Org
BotTypes ==
  /\ link \in [User -> Account \cup {None}] /\ guildOf \in [Org -> Guild \cup {None}]
  /\ platform \in [guild : Guild \cup {None}, name : Guild \cup {None}]
  /\ registered \subseteq Guild /\ unregistered \subseteq Guild /\ clashed \subseteq Guild
  /\ managers \in [Org -> SUBSET User] /\ admins \subseteq User
  /\ server \in [Org -> Servers] /\ held \subseteq Org
  /\ flow \in [Flow -> Flows] /\ command \in [Command -> Commands]
  /\ \A f \in Flow : FlowFits(flow[f])
  /\ \A c \in Command : CommandFits(command[c])
  /\ requests \in Nat /\ faults \in Nat

(* A Discord account speaks for one user and a guild for one organisation,   *)
(* however the callbacks overlap (SetDiscordLink, SetOrgGuild).              *)
OneEach ==
  Apart(link) /\ Apart(guildOf)

(* A suspended server is not asked to run and stays suspended until it is    *)
(* let go: a start that passed the lock, or read the server, before the      *)
(* suspension neither runs it nor undoes it when it is written, and lifting  *)
(* the suspension starts nothing (handleSuspendGameServer, unlessSuspended,  *)
(* handleSetGameServerState, mutateGameServer).                              *)
SuspendedStays ==
  \A o \in Org : /\ server[o].suspended => ~server[o].running
                /\ o \in held => server[o].suspended

(* The platform's guild has the platform's commands, or will have them when  *)
(* the callback that stored it is done (registerPlatformCommands), however   *)
(* callbacks, disconnections and starts of Panels overlap.  Set aside, each  *)
(* by its event: Discord refused, a setting could not be written or the      *)
(* Panel stopped before it asked (unregistered), and the name of the guild   *)
(* was refused because another callback had inserted its own meanwhile       *)
(* (clashed), which leaves the guild stored and its commands unregistered.   *)
CommandsThere ==
  platform.guild # None =>
    \/ platform.guild \in registered \cup unregistered \cup clashed
    \/ \E f \in Flow : Pending(flow[f]) /\ flow[f].pick = platform.guild
=============================================================================
