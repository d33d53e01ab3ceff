-------------------------------- MODULE Notify -------------------------------
(***************************************************************************)
(* The alerts of the Panel (internal/panelapi/notifier.go): every replica  *)
(* looks every notifyInterval at what the operator recorded in each        *)
(* organisation's namespace and announces, on Discord and by e-mail, what  *)
(* went wrong in the last notifyMaxAge and nobody has claimed.  A claim is *)
(* a key with a time to live in the cache the replicas share; a suspension *)
(* is announced by the request that made it, in the background.            *)
(*                                                                         *)
(* An alert is one occurrence (occurrence.Identity).  Time is counted in   *)
(* units far longer than notifyInterval: some Panel finishes a round in    *)
(* each, and nobody is in one round for longer than MaxRound.              *)
(***************************************************************************)
EXTENDS Integers, FiniteSets

CONSTANTS
  Org,
  Panel,         \* the replicas
  Alert,         \* the occurrences there can be
  Window,        \* notifyMaxAge
  Ttl,           \* NotifiedTTL
  MaxRound,      \* the longest a round takes
  MaxTime,       \* bound: the clock
  MaxRequests,   \* bound: what people and the operator do
  MaxFaults      \* bound: failed calls and crashes

ASSUME WindowAssumption ==
  /\ {Window, MaxRound, Ttl, MaxTime, MaxRequests, MaxFaults} \subseteq Nat
  /\ Window > 0 /\ Window + MaxRound < Ttl
(* A replica is not an occurrence: both have a worker.                       *)
ASSUME WorkersAssumption == Panel \cap Alert = {}

VARIABLES
  now,
  occurrence,    \* of each alert: its organisation, event and time
  muted,         \* of each organisation: the events that are switched off
  inactive,      \* the organisations whose Tenant is not Active
  claim,         \* of each alert: when its claim ends, 0 for none
  worker,        \* of each Panel its round, of each alert its own goroutine
  rested,        \* the Panels that finished a round in this unit of time
  posted, mailed,\* of each alert: messages on Discord, turns of e-mail
  unsure,        \* the alerts whose first message arrived without an answer
  claimed,       \* the alerts claimed at some time
  excused,       \* the alerts that may stay unannounced, see NoneMissed
  requests, faults

vars == <<now, occurrence, muted, inactive, claim, worker, rested, posted,
                mailed, unsure, claimed, excused, requests, faults>>

(* What the operator recorded: a condition it clears again when the server  *)
(* is started, or the status of a backup, which stays; and the suspensions. *)
Recorded == {"gave_up", "backup_failed"}
Events == Recorded \cup {"suspended"}

NoOccurrence == [org |-> "-", event |-> "-", at |-> 0, shown |-> FALSE]
Idle == [at |-> "idle", clock |-> 0, todo |-> {}, alert |-> "-"]
Workers == Panel \cup Alert

Init ==
  /\ now = 0
  /\ occurrence = [i \in Alert |-> NoOccurrence]
  /\ muted = [o \in Org |-> {}] /\ inactive = {}
  /\ claim = [i \in Alert |-> 0]
  /\ worker = [w \in Workers |-> Idle]
  /\ rested = {}
  /\ posted = [i \in Alert |-> 0] /\ mailed = [i \in Alert |-> 0]
  /\ unsure = {} /\ claimed = {} /\ excused = {}
  /\ requests = 0 /\ faults = 0

Request == requests < MaxRequests /\ requests' = requests + 1
Fault == faults < MaxFaults /\ faults' = faults + 1

At(w, place) == worker[w].at = place
Become(w, change) == worker' = [worker EXCEPT ![w] = change]
Goes(w, place) == Become(w, [worker[w] EXCEPT !.at = place])
(* Back to the other occurrences of the round; a goroutine ends.             *)
Leaves(w) ==
  IF w \in Panel
  THEN [worker[w] EXCEPT !.at = "round", !.alert = "-"]
  ELSE Idle

Unseen(i) == occurrence[i] = NoOccurrence
(* What an administrator may save: any known events, each of them once.     *)
Settings == {{}, Events}
(* The organisation's settings, none if it never saved any.                 *)
Off(i) == occurrence[i].event \in muted[occurrence[i].org]
Fresh(i, clock) == clock - occurrence[i].at \in 0..Window

NothingSent == UNCHANGED <<posted, mailed, unsure>>
SettingsKept == UNCHANGED <<muted, inactive>>
WorldKept == UNCHANGED <<now, occurrence>>
-----------------------------------------------------------------------------
(* The operator records that something went wrong.                          *)
Record(i, o, event) ==
  /\ Request /\ Unseen(i) /\ event \in Recorded
  /\ occurrence' = [occurrence EXCEPT
       ![i] = [org |-> o, event |-> event, at |-> now, shown |-> TRUE]]
  /\ SettingsKept /\ NothingSent
  /\ UNCHANGED <<now, claim, worker, rested, claimed, excused, faults>>

(* The server is started: the condition says it is not crashed any more.    *)
Recover(i) ==
  /\ Request /\ occurrence[i].event = "gave_up" /\ occurrence[i].shown
  /\ occurrence' = [occurrence EXCEPT ![i].shown = FALSE]
  /\ excused' = excused \cup {i}
  /\ SettingsKept /\ NothingSent
  /\ UNCHANGED <<now, claim, worker, rested, claimed, faults>>

(* What the operator recorded is owed again, while it is not too old, when   *)
(* its event is switched on; a suspension is announced at once or never.     *)
SetMutedEvents(o, events) ==
  /\ Request /\ muted[o] # events
  /\ muted' = [muted EXCEPT ![o] = events]
  /\ excused' = excused \ {i \in Alert :
       /\ occurrence[i].org = o /\ occurrence[i].event \in (Recorded \cap muted[o]) \ events
       /\ now - occurrence[i].at < Window}
  /\ NothingSent /\ WorldKept
  /\ UNCHANGED <<inactive, claim, worker, rested, claimed, faults>>

(* The operator could not reconcile a Tenant, or could again (setStatus);    *)
(* then what it had recorded, and is not too old, is owed again.             *)
TenantFails(o) ==
  /\ Request /\ o \notin inactive
  /\ inactive' = inactive \cup {o}
  /\ NothingSent /\ WorldKept
  /\ UNCHANGED <<muted, claim, worker, rested, claimed, excused, faults>>

TenantActive(o) ==
  /\ Request /\ o \in inactive
  /\ inactive' = inactive \ {o}
  /\ excused' = excused \ {i \in Alert :
       /\ occurrence[i].org = o /\ occurrence[i].event \in Recorded
       /\ now - occurrence[i].at < Window}
  /\ NothingSent /\ WorldKept
  /\ UNCHANGED <<muted, claim, worker, rested, claimed, faults>>
-----------------------------------------------------------------------------
(* A round: it lists the tenants, reads the clock once and lists the objects  *)
(* of every organisation whose Tenant is Active; one that cannot be read is  *)
(* left for the next round.  While there is nothing to find a round changes  *)
(* nothing and is left out; so is a second one in a unit.                    *)
(* A mutant: one organisation that cannot be read ends the round.            *)
ListAllOrNone(clock, readable) ==
  {i \in Alert : /\ occurrence[i].shown /\ occurrence[i].event \in Recorded
                 /\ readable = Org /\ Fresh(i, clock)}

ListOrgs(clock, readable) ==
  {i \in Alert : /\ occurrence[i].shown /\ occurrence[i].event \in Recorded
                 /\ occurrence[i].org \in readable /\ Fresh(i, clock)}

StartRound(w, unread) ==
  /\ w \in Panel /\ At(w, "idle") /\ w \notin rested
  /\ \E i \in Alert : occurrence[i].event \in Recorded /\ occurrence[i].shown
  /\ IF unread = {} THEN UNCHANGED faults ELSE Fault
  /\ Become(w, [Idle EXCEPT !.at = "round", !.clock = now,
                            !.todo = ListOrgs(now, Org \ (unread \cup inactive))])
  /\ excused' = excused \cup {i \in Alert : occurrence[i].org \in unread \cup inactive}
  /\ SettingsKept /\ NothingSent /\ WorldKept
  /\ UNCHANGED <<claim, rested, claimed, requests>>

EndRound(w) ==
  /\ At(w, "round") /\ worker[w].todo = {}
  /\ Become(w, Idle)
  /\ rested' = IF worker[w].clock = now THEN rested \cup {w} ELSE rested
  /\ SettingsKept /\ NothingSent /\ WorldKept
  /\ UNCHANGED <<claim, claimed, excused, requests, faults>>

(* notify: the settings, the claim, and then the channels.                  *)
ReadSettings(w, i) ==
  LET left == [worker[w] EXCEPT !.todo = @ \ {i}] IN
  /\ At(w, "round") /\ i \in worker[w].todo
  /\ \/ /\ ~Off(i)
        /\ Become(w, [left EXCEPT !.at = "claim", !.alert = i])
        /\ UNCHANGED <<excused, faults>>
     \/ /\ (Off(i) /\ UNCHANGED faults) \/ (~Off(i) /\ Fault)
        /\ Become(w, left)
        /\ excused' = excused \cup {i}
  /\ SettingsKept /\ NothingSent /\ WorldKept
  /\ UNCHANGED <<claim, rested, claimed, requests>>

(* A mutant: a claim does not outlast the window.                            *)
FreeSoon(i) == claim[i] - Ttl < now

Free(i) == claim[i] <= now

(* SETNX: the first one has the alert.  A call that fails may have set it.   *)
Claim(w) ==
  LET i == worker[w].alert IN
  /\ At(w, "claim")
  /\ \/ /\ Free(i)
        /\ claim' = [claim EXCEPT ![i] = now + Ttl]
        /\ claimed' = claimed \cup {i}
        /\ Goes(w, "deliver")
        /\ UNCHANGED <<excused, faults>>
     \/ /\ ~Free(i) /\ Become(w, Leaves(w))
        /\ UNCHANGED <<claim, claimed, excused, faults>>
     \/ /\ Fault /\ Free(i)
        /\ \/ claim' = [claim EXCEPT ![i] = now + Ttl] /\ claimed' = claimed \cup {i}
           \/ UNCHANGED <<claim, claimed>>
        /\ excused' = excused \cup {i}
        /\ Become(w, Leaves(w))
  /\ SettingsKept /\ NothingSent /\ WorldKept
  /\ UNCHANGED <<rested, requests>>

(* discordHTTP.Send: a message that was refused is given up, one without an  *)
(* answer is sent a second time.  How many arrive, none if the organisation  *)
(* has no webhook.                                                          *)
Arrivals == {0, 1, 2}

(* Discord first, then every recipient is written to, whatever became of     *)
(* Discord; nothing that failed is tried again.                             *)
Deliver(w) ==
  LET i == worker[w].alert IN
  /\ At(w, "deliver") /\ Become(w, Leaves(w))
  /\ mailed' = [mailed EXCEPT ![i] = @ + 1]
  /\ \E n \in Arrivals :
       /\ posted' = [posted EXCEPT ![i] = @ + n]
       /\ unsure' = IF n = 2 THEN unsure \cup {i} ELSE unsure
       /\ IF n = 2 THEN Fault ELSE UNCHANGED faults
  /\ SettingsKept /\ WorldKept
  /\ UNCHANGED <<claim, rested, claimed, excused, requests>>

(* An administrator suspends a server, in the Panel or from Discord; the     *)
(* request's goroutine announces it (notifySuspended).                      *)
Suspend(i, o) ==
  /\ Request /\ Unseen(i)
  /\ occurrence' = [occurrence EXCEPT
       ![i] = [org |-> o, event |-> "suspended", at |-> now, shown |-> TRUE]]
  /\ Become(i, [Idle EXCEPT !.at = "announce", !.clock = now])
  /\ SettingsKept /\ NothingSent
  /\ UNCHANGED <<now, claim, rested, claimed, excused, faults>>

Announce(i) ==
  /\ At(i, "announce")
  /\ \/ /\ ~Off(i)
        /\ Become(i, [worker[i] EXCEPT !.at = "claim", !.alert = i])
        /\ UNCHANGED <<excused, faults>>
     \/ /\ (Off(i) /\ UNCHANGED faults) \/ (~Off(i) /\ Fault)
        /\ Become(i, Idle)
        /\ excused' = excused \cup {i}
  /\ SettingsKept /\ NothingSent /\ WorldKept
  /\ UNCHANGED <<claim, rested, claimed, requests>>

(* A Panel stops in the middle.  A goroutine that is gone has nobody to      *)
(* follow it, a round has the next one.                                     *)
Stop(w) ==
  /\ Fault /\ ~At(w, "idle")
  /\ Become(w, Idle)
  /\ excused' = IF w \in Alert THEN excused \cup {w} ELSE excused
  /\ SettingsKept /\ NothingSent /\ WorldKept
  /\ UNCHANGED <<claim, rested, claimed, requests>>

(* Time passes: some Panel has made a round, and no round lasts too long.    *)
Tick ==
  /\ now < MaxTime /\ rested # {}
  /\ \A w \in Workers : ~At(w, "idle") => now - worker[w].clock < MaxRound
  /\ now' = now + 1
  /\ rested' = {}
  /\ SettingsKept /\ NothingSent
  /\ UNCHANGED <<occurrence, claim, worker, claimed, excused, requests, faults>>

Next ==
  \/ \E i \in Alert, o \in Org, e \in Recorded : Record(i, o, e)
  \/ \E i \in Alert : Recover(i) \/ Announce(i)
  \/ \E o \in Org, off \in Settings : SetMutedEvents(o, off)
  \/ \E o \in Org : TenantFails(o) \/ TenantActive(o)
  \/ \E w \in Panel, i \in Alert : ReadSettings(w, i)
  \/ \E w \in Panel : EndRound(w) \/ \E unread \in SUBSET Org : StartRound(w, unread)
  \/ \E w \in Workers : Claim(w) \/ Deliver(w) \/ Stop(w)
  \/ \E i \in Alert, o \in Org : Suspend(i, o)
  \/ Tick

Spec == Init /\ [][Next]_vars
-----------------------------------------------------------------------------
(* Every variable has its type; whoever is at a claim or at a delivery is at  *)
(* one alert (notify).                                                      *)
TypeOK ==
  /\ now \in Nat
  /\ occurrence \in [Alert -> [org : Org \cup {"-"}, event : Events \cup {"-"},
                              at : Nat, shown : BOOLEAN]]
  /\ muted \in [Org -> Settings] /\ inactive \subseteq Org
  /\ claim \in [Alert -> Nat]
  /\ worker \in [Workers -> [at : {"idle", "round", "announce", "claim", "deliver"},
                             clock : Nat, todo : SUBSET Alert, alert : Alert \cup {"-"}]]
  /\ \A w \in Workers : worker[w].at \in {"claim", "deliver"} => worker[w].alert \in Alert
  /\ rested \subseteq Panel
  /\ posted \in [Alert -> Nat] /\ mailed \in [Alert -> Nat]
  /\ unsure \subseteq Alert /\ claimed \subseteq Alert /\ excused \subseteq Alert
  /\ requests \in Nat /\ faults \in Nat

(* Nobody is told twice: of several Panels that find one occurrence in       *)
(* several rounds one announces it, and only a message Discord did not       *)
(* answer is sent a second time (NotifiedTTL, notify, discordHTTP.Send).     *)
AnnouncedOnce ==
  \A i \in Alert :
    /\ mailed[i] <= 1
    /\ posted[i] <= (IF i \in unsure THEN 2 ELSE 1)

(* Nothing is passed over: what is still shown when it has become too old    *)
(* was claimed, unless the organisation had it switched off until the end,   *)
(* its Tenant was not Active when it was looked for and was not Active       *)
(* again in time, or a call about it, or about its own organisation,         *)
(* failed.  One organisation that cannot be read or is not Active does not   *)
(* cost another its alerts, and an alert that was switched on, or whose      *)
(* Tenant came back, in time is not lost (NotifyOnce, notify).               *)
NoneMissed ==
  \A i \in Alert :
    LET late == IF occurrence[i].event = "suspended"
                THEN At(i, "idle")
                ELSE now - occurrence[i].at > Window
    IN occurrence[i].shown /\ late => i \in claimed \cup excused
=============================================================================
