--------------------------- MODULE DeliveryProofs ---------------------------
(* Proofs about what the Panel delivers, alerts (Notify) and then the files *)
(* of a server (Mods), for every value of their constants.                  *)
EXTENDS Notify, Mods, FiniteSetTheorems, WellFoundedInduction, TLAPS

Occurrences == [org : Org \cup {"-"}, event : Events \cup {"-"}, at : Nat, shown : BOOLEAN]
Rounds == [at : {"idle", "round", "announce", "claim", "deliver"},
           clock : Nat, todo : SUBSET Alert, alert : Alert \cup {"-"}]

-----------------------------------------------------------------------------
(* Type correctness.                                                        *)

(* What a worker may become has its type.                                   *)
LEMMA WorkerTypes ==
  ASSUME TypeOK, NEW w \in Workers
  PROVE  /\ worker[w] \in Rounds /\ Idle \in Rounds /\ Leaves(w) \in Rounds
         /\ Leaves(w).at \in {"idle", "round"}
<1>1. worker[w] \in Rounds
  BY DEF TypeOK, Rounds
<1>2. Idle \in Rounds
  BY DEF Idle, Rounds
<1> QED BY <1>1, <1>2 DEF Leaves, Rounds, Idle

(* A worker that becomes something of its type leaves all of them typed.    *)
LEMMA BecomeType ==
  ASSUME TypeOK, NEW w \in Workers, NEW x \in Rounds, Become(w, x),
         x.at \in {"claim", "deliver"} => x.alert \in Alert
  PROVE  /\ worker' \in [Workers -> Rounds]
         /\ \A v \in Workers : worker'[v].at \in {"claim", "deliver"} => worker'[v].alert \in Alert
BY DEF TypeOK, Become, Rounds

(* At the start every variable has its type.                                *)
LEMMA TypeInit == Init => TypeOK
<1> SUFFICES ASSUME Init PROVE TypeOK
  OBVIOUS
<1>1. Idle \in Rounds /\ NoOccurrence \in Occurrences
  BY DEF Idle, Rounds, NoOccurrence, Occurrences
<1>2. worker \in [Workers -> Rounds] /\ occurrence \in [Alert -> Occurrences]
  BY <1>1 DEF Init
<1>3. \A w \in Workers : worker[w].at = "idle"
  BY DEF Init, Idle
<1> QED BY <1>2, <1>3 DEF Init, TypeOK, Settings, Rounds, Occurrences

(* Every step keeps the types.                                              *)
LEMMA TypeStep ==
  ASSUME TypeOK, [Next]_vars
  PROVE  TypeOK'
<1> USE DEF SettingsKept, WorldKept, NothingSent, Request, Fault
<1>0. requests + 1 \in Nat /\ faults + 1 \in Nat /\ now + 1 \in Nat /\ now + Ttl \in Nat
  BY WindowAssumption DEF TypeOK
<1>1. ASSUME NEW i \in Alert, NEW o \in Org, NEW e \in Recorded, Record(i, o, e)
      PROVE  TypeOK'
  <2>1. [org |-> o, event |-> e, at |-> now, shown |-> TRUE] \in Occurrences
    BY DEF Occurrences, Events, TypeOK
  <2>2. occurrence' \in [Alert -> Occurrences]
    BY <1>1, <2>1 DEF Record, TypeOK, Occurrences
  <2> QED BY <1>0, <1>1, <2>2 DEF Record, TypeOK, Occurrences
<1>2. ASSUME NEW i \in Alert, Recover(i)
      PROVE  TypeOK'
  <2> DEFINE o == [occurrence[i] EXCEPT !.shown = FALSE]
  <2>3. occurrence \in [Alert -> Occurrences] /\ occurrence' = [occurrence EXCEPT ![i] = o]
    BY <1>2 DEF Recover, TypeOK, Occurrences
  <2>4. o \in Occurrences
    BY <2>3 DEF Occurrences
  <2> HIDE DEF o
  <2>1. occurrence' \in [Alert -> Occurrences]
    BY <2>3, <2>4
  <2>2. excused' \subseteq Alert
    BY <1>2 DEF Recover, TypeOK
  <2> QED BY <1>0, <1>2, <2>1, <2>2 DEF Recover, TypeOK, Occurrences
<1>3. ASSUME NEW i \in Alert, Announce(i)
      PROVE  TypeOK'
  <2>1. i \in Workers
    BY DEF Workers
  <2>2. PICK x \in Rounds : Become(i, x) /\ (x.at \in {"claim", "deliver"} => x.alert \in Alert)
    <3>1. worker[i] \in Rounds /\ Idle \in Rounds /\ Idle.at = "idle"
      BY <2>1, WorkerTypes DEF Idle
    <3> DEFINE z == [worker[i] EXCEPT !.at = "claim", !.alert = i]
    <3>2. z \in Rounds /\ z.at = "claim" /\ z.alert = i
      BY <3>1 DEF Rounds
    <3>3. Become(i, z) \/ Become(i, Idle)
      BY <1>3 DEF Announce
    <3> HIDE DEF z
    <3> QED BY <3>1, <3>2, <3>3
  <2>3. UNCHANGED <<now, occurrence, muted, inactive, claim, rested, posted, mailed, unsure, claimed, requests>>
        /\ excused' \subseteq Alert /\ faults' \in Nat
    BY <1>0, <1>3 DEF Announce, TypeOK
  <2> QED BY <2>1, <2>2, <2>3, BecomeType DEF TypeOK, Rounds
<1>4. ASSUME NEW o \in Org, NEW off \in Settings, SetMutedEvents(o, off)
      PROVE  TypeOK'
  <2>1. muted' \in [Org -> Settings] /\ excused' \subseteq Alert
    BY <1>4 DEF SetMutedEvents, TypeOK
  <2> QED BY <1>0, <1>4, <2>1 DEF SetMutedEvents, TypeOK
<1>14. ASSUME NEW o \in Org, TenantFails(o) \/ TenantActive(o)
       PROVE  TypeOK'
  <2>1. inactive' \subseteq Org /\ excused' \subseteq Alert
    BY <1>14 DEF TenantFails, TenantActive, TypeOK
  <2> QED BY <1>0, <1>14, <2>1 DEF TenantFails, TenantActive, TypeOK
<1>5. ASSUME NEW w \in Panel, NEW i \in Alert, ReadSettings(w, i)
      PROVE  TypeOK'
  <2>1. w \in Workers
    BY DEF Workers
  <2>2. PICK x \in Rounds : Become(w, x) /\ (x.at \in {"claim", "deliver"} => x.alert \in Alert)
    <3>1. worker[w] \in Rounds /\ At(w, "round")
      BY <1>5, <2>1, WorkerTypes DEF ReadSettings
    <3> DEFINE y == [worker[w] EXCEPT !.todo = @ \ {i}]
               z == [y EXCEPT !.at = "claim", !.alert = i]
    <3>2. y \in Rounds /\ y.at = "round" /\ z \in Rounds /\ z.at = "claim" /\ z.alert = i
      BY <3>1 DEF Rounds, At
    <3>3. Become(w, y) \/ Become(w, z)
      BY <1>5 DEF ReadSettings
    <3> HIDE DEF y, z
    <3> QED BY <3>2, <3>3
  <2>3. UNCHANGED <<now, occurrence, muted, inactive, claim, rested, posted, mailed, unsure, claimed, requests>>
        /\ excused' \subseteq Alert /\ faults' \in Nat
    BY <1>0, <1>5 DEF ReadSettings, TypeOK
  <2> QED BY <2>1, <2>2, <2>3, BecomeType DEF TypeOK, Rounds
<1>6. ASSUME NEW w \in Panel, EndRound(w)
      PROVE  TypeOK'
  <2>1. w \in Workers /\ rested' \subseteq Panel
    BY <1>6 DEF Workers, EndRound, TypeOK
  <2>2. Become(w, Idle) /\ Idle \in Rounds /\ Idle.at = "idle"
    BY <1>6, <2>1, WorkerTypes DEF EndRound, Idle
  <2> QED BY <1>6, <2>1, <2>2, BecomeType DEF EndRound, TypeOK, Rounds
<1>7. ASSUME NEW w \in Panel, NEW unread \in SUBSET Org, StartRound(w, unread)
      PROVE  TypeOK'
  <2>1. w \in Workers
    BY DEF Workers
  <2> DEFINE x == [Idle EXCEPT !.at = "round", !.clock = now, !.todo = ListOrgs(now, Org \ (unread \cup inactive))]
  <2>2. x \in Rounds /\ x.at = "round" /\ Become(w, x)
    BY <1>7 DEF StartRound, Idle, Rounds, ListOrgs, TypeOK
  <2>3. worker' \in [Workers -> Rounds]
        /\ \A v \in Workers : worker'[v].at \in {"claim", "deliver"} => worker'[v].alert \in Alert
    <3> HIDE DEF x
    <3> QED BY <2>1, <2>2, BecomeType
  <2>4. excused' \subseteq Alert /\ faults' \in Nat
    BY <1>0, <1>7 DEF StartRound, TypeOK
  <2> QED BY <1>7, <2>3, <2>4 DEF StartRound, TypeOK, Rounds
<1>8. ASSUME NEW w \in Workers, Claim(w)
      PROVE  TypeOK'
  <2>1. worker[w].alert \in Alert
    BY <1>8 DEF Claim, At, TypeOK
  <2>2. PICK x \in Rounds : Become(w, x) /\ (x.at \in {"claim", "deliver"} => x.alert \in Alert)
    BY <1>8, <2>1, WorkerTypes DEF Claim, Goes, Rounds
  <2>3. claim' \in [Alert -> Nat] /\ claimed' \subseteq Alert /\ excused' \subseteq Alert
        /\ faults' \in Nat
    BY <1>0, <1>8, <2>1 DEF Claim, TypeOK
  <2> QED BY <1>8, <2>2, <2>3, BecomeType DEF Claim, TypeOK, Rounds
<1>9. ASSUME NEW w \in Workers, Deliver(w)
      PROVE  TypeOK'
  <2>1. worker[w].alert \in Alert
    BY <1>9 DEF Deliver, At, TypeOK
  <2>2. Become(w, Leaves(w)) /\ Leaves(w) \in Rounds /\ Leaves(w).at \in {"idle", "round"}
    BY <1>9, WorkerTypes DEF Deliver
  <2>3. PICK n \in Arrivals :
          /\ posted' = [posted EXCEPT ![worker[w].alert] = @ + n]
          /\ unsure' = IF n = 2 THEN unsure \cup {worker[w].alert} ELSE unsure
          /\ IF n = 2 THEN Fault ELSE UNCHANGED faults
    BY <1>9 DEF Deliver
  <2>4. posted' \in [Alert -> Nat] /\ mailed' \in [Alert -> Nat] /\ unsure' \subseteq Alert
        /\ faults' \in Nat
    BY <1>0, <1>9, <2>1, <2>3 DEF Deliver, TypeOK, Arrivals
  <2>5. worker' \in [Workers -> Rounds]
        /\ \A v \in Workers : worker'[v].at \in {"claim", "deliver"} => worker'[v].alert \in Alert
    BY <2>2, BecomeType
  <2> QED BY <1>9, <2>4, <2>5 DEF Deliver, TypeOK, Rounds
<1>10. ASSUME NEW w \in Workers, Stop(w)
       PROVE  TypeOK'
  <2>1. Become(w, Idle) /\ Idle \in Rounds /\ Idle.at = "idle"
    BY <1>10, WorkerTypes DEF Stop, Idle
  <2>2. excused' \subseteq Alert
    BY <1>10 DEF Stop, TypeOK
  <2> QED BY <1>0, <1>10, <2>1, <2>2, BecomeType DEF Stop, TypeOK, Rounds
<1>11. ASSUME NEW i \in Alert, NEW o \in Org, Suspend(i, o)
       PROVE  TypeOK'
  <2>1. i \in Workers
    BY DEF Workers
  <2>2. [org |-> o, event |-> "suspended", at |-> now, shown |-> TRUE] \in Occurrences
    BY DEF Occurrences, Events, TypeOK
  <2>3. occurrence' \in [Alert -> Occurrences]
    BY <1>11, <2>2 DEF Suspend, TypeOK, Occurrences
  <2> DEFINE x == [Idle EXCEPT !.at = "announce", !.clock = now]
  <2>4. x \in Rounds /\ x.at = "announce" /\ Become(i, x)
    BY <1>11 DEF Suspend, Idle, Rounds, TypeOK
  <2>5. worker' \in [Workers -> Rounds]
        /\ \A v \in Workers : worker'[v].at \in {"claim", "deliver"} => worker'[v].alert \in Alert
    <3> HIDE DEF x
    <3> QED BY <2>1, <2>4, BecomeType
  <2> QED BY <1>0, <1>11, <2>3, <2>5 DEF Suspend, TypeOK, Rounds, Occurrences
<1>12. CASE Tick
  BY <1>0, <1>12 DEF Tick, TypeOK
<1>13. CASE UNCHANGED vars
  BY <1>13 DEF vars, TypeOK
<1> QED BY <1>1, <1>2, <1>3, <1>4, <1>5, <1>6, <1>7, <1>8, <1>9, <1>10, <1>11, <1>12, <1>13,
           <1>14 DEF Next

(* Every variable keeps its type, for any number of Panels, organisations   *)
(* and alerts and whatever the times are.                                   *)
THEOREM TypeCorrect == Spec => []TypeOK
<1>1. Init => TypeOK
  BY TypeInit
<1>2. TypeOK /\ [Next]_vars => TypeOK'
  BY TypeStep
<1> QED BY <1>1, <1>2, PTL DEF Spec

-----------------------------------------------------------------------------
(* An occurrence is announced once.                                         *)

(* w found alert i and has not passed it on or let go of it.                *)
Handles(w, i) ==
  /\ ~At(w, "idle")
  /\ \/ i \in worker[w].todo
     \/ worker[w].at \in {"claim", "deliver"} /\ worker[w].alert = i
     \/ At(w, "announce") /\ w = i
Delivers(w, i) == At(w, "deliver") /\ worker[w].alert = i

(* No round is too old.                                                     *)
InTime == \A w \in Workers :
  ~At(w, "idle") => worker[w].clock <= now /\ now - worker[w].clock <= MaxRound

(* What a round handles was there, and in the window, by its clock.         *)
Found == \A w \in Workers, i \in Alert :
  Handles(w, i) => /\ ~Unseen(i) /\ occurrence[i].at <= worker[w].clock
                   /\ worker[w].clock - occurrence[i].at <= Window

(* What has been delivered, or is being delivered by one worker, carries a  *)
(* claim that ends when no round can have it in its window any more.        *)
Taken == \A i \in Alert :
  (mailed[i] # 0 \/ \E w \in Workers : Delivers(w, i)) =>
    ~Unseen(i) /\ claim[i] >= occurrence[i].at + Ttl
Alone == \A i \in Alert, w \in Workers :
  Delivers(w, i) => mailed[i] = 0 /\ \A v \in Workers : Delivers(v, i) => v = w
Counted == \A i \in Alert : mailed[i] = 0 => posted[i] = 0

IInv == TypeOK /\ InTime /\ Found /\ Taken /\ Alone /\ Counted /\ AnnouncedOnce

(* A worker that starts to deliver an alert it handled, while the alert was *)
(* free, is the first: a claim made before would still be there.            *)
LEMMA FreeIsNew ==
  ASSUME IInv, NEW w \in Workers, NEW i \in Alert, Handles(w, i), Free(i)
  PROVE  mailed[i] = 0 /\ \A v \in Workers : ~Delivers(v, i)
<1>1. now \in Nat /\ claim[i] \in Nat /\ occurrence[i].at \in Nat /\ worker[w].clock \in Nat
  BY DEF IInv, TypeOK
<1>2. now <= worker[w].clock + MaxRound /\ worker[w].clock <= occurrence[i].at + Window
  BY <1>1, WindowAssumption DEF IInv, InTime, Found, Handles
<1>3. now < occurrence[i].at + Ttl
  BY <1>1, <1>2, WindowAssumption
<1>4. ~(claim[i] >= occurrence[i].at + Ttl)
  BY <1>1, <1>3, WindowAssumption DEF Free
<1> QED BY <1>4 DEF IInv, Taken

(* Workers that stay as they are keep what is known of them, when nothing   *)
(* is claimed or delivered and occurrences stay what they are.              *)
LEMMA WorkersKept ==
  ASSUME IInv, TypeOK', UNCHANGED <<worker, claim, mailed, posted, unsure>>,
         \A i \in Alert : ~Unseen(i) => ~Unseen(i)' /\ occurrence'[i].at = occurrence[i].at
  PROVE  Found' /\ Taken' /\ Alone' /\ Counted' /\ AnnouncedOnce'
<1>1. \A v \in Workers, i \in Alert :
        (Handles(v, i)' <=> Handles(v, i)) /\ (Delivers(v, i)' <=> Delivers(v, i))
  BY DEF Handles, Delivers, At
<1>2. Found'
  BY <1>1 DEF IInv, Found
<1>3. Taken'
  BY <1>1 DEF IInv, Taken
<1>4. Alone'
  BY <1>1 DEF IInv, Alone
<1>5. Counted' /\ AnnouncedOnce'
  BY DEF IInv, Counted, AnnouncedOnce
<1> QED BY <1>2, <1>3, <1>4, <1>5

(* A worker that becomes x keeps everything, when its round is in time,     *)
(* what it handles was found in the window, and it only starts to deliver   *)
(* what nobody has delivered and its own claim now holds.                   *)
LEMMA WorkerMoves ==
  ASSUME IInv, TypeOK', NEW w \in Workers, NEW x \in Rounds, Become(w, x),
         UNCHANGED <<now, mailed, posted, unsure>>,
         \A i \in Alert : claim'[i] >= claim[i],
         \A i \in Alert : ~Unseen(i) => ~Unseen(i)' /\ occurrence'[i].at = occurrence[i].at,
         x.at # "idle" => x.clock <= now /\ now - x.clock <= MaxRound,
         \A i \in Alert :
           (x.at # "idle" /\ Handles(w, i)') => /\ ~Unseen(i)' /\ occurrence'[i].at <= x.clock
                                               /\ x.clock - occurrence'[i].at <= Window,
         x.at = "deliver" =>
           /\ mailed[x.alert] = 0 /\ \A v \in Workers : ~Delivers(v, x.alert)
           /\ ~Unseen(x.alert)' /\ claim'[x.alert] >= occurrence'[x.alert].at + Ttl
  PROVE  IInv'
<1>0. worker'[w] = x /\ \A v \in Workers \ {w} : worker'[v] = worker[v]
  BY DEF Become, IInv, TypeOK
<1>1. \A v \in Workers \ {w}, i \in Alert :
        (Handles(v, i)' <=> Handles(v, i)) /\ (Delivers(v, i)' <=> Delivers(v, i))
  BY <1>0 DEF Handles, Delivers, At
<1>2. InTime'
  BY <1>0 DEF IInv, InTime, At
<1>3. Found'
  <2> SUFFICES ASSUME NEW v \in Workers, NEW i \in Alert, Handles(v, i)'
               PROVE  /\ ~Unseen(i)' /\ occurrence'[i].at <= worker'[v].clock
                      /\ worker'[v].clock - occurrence'[i].at <= Window
    BY DEF Found
  <2>1. CASE v = w
    <3>1. x.at # "idle"
      BY <1>0, <2>1 DEF Handles, At
    <3> QED BY <1>0, <2>1, <3>1
  <2>2. CASE v # w
    BY <1>0, <1>1, <2>2 DEF IInv, Found
  <2> QED BY <2>1, <2>2
<1>4. Taken'
  <2> SUFFICES ASSUME NEW i \in Alert,
                      mailed'[i] # 0 \/ \E v \in Workers : Delivers(v, i)'
               PROVE  ~Unseen(i)' /\ claim'[i] >= occurrence'[i].at + Ttl
    BY DEF Taken
  <2>1. CASE Delivers(w, i)'
    BY <1>0, <2>1 DEF Delivers, At
  <2>2. CASE ~Delivers(w, i)'
    <3>1. mailed[i] # 0 \/ \E v \in Workers : Delivers(v, i)
      BY <1>1, <2>2
    <3>2. ~Unseen(i) /\ claim[i] >= occurrence[i].at + Ttl
      BY <3>1 DEF IInv, Taken
    <3>3. /\ claim[i] \in Nat /\ claim'[i] \in Nat /\ occurrence[i].at \in Nat
          /\ occurrence'[i].at = occurrence[i].at
      BY <3>2 DEF IInv, TypeOK
    <3>4. claim'[i] >= claim[i]
      OBVIOUS
    <3>5. claim'[i] >= occurrence[i].at + Ttl
      BY <3>2, <3>3, <3>4, WindowAssumption
    <3> QED BY <3>2, <3>3, <3>5
  <2> QED BY <2>1, <2>2
<1>5. Alone'
  <2> SUFFICES ASSUME NEW i \in Alert, NEW u \in Workers, Delivers(u, i)'
               PROVE  mailed'[i] = 0 /\ \A v \in Workers : Delivers(v, i)' => v = u
    BY DEF Alone
  <2>1. CASE u = w
    BY <1>0, <1>1, <2>1 DEF Delivers, At
  <2>2. CASE u # w
    <3>1. Delivers(u, i)
      BY <1>1, <2>2
    <3>2. ~Delivers(w, i)'
      BY <1>0, <3>1 DEF Delivers, At
    <3> QED BY <1>1, <3>1, <3>2 DEF IInv, Alone
  <2> QED BY <2>1, <2>2
<1>6. Counted' /\ AnnouncedOnce'
  BY DEF IInv, Counted, AnnouncedOnce
<1> QED BY <1>2, <1>3, <1>4, <1>5, <1>6 DEF IInv

(* A worker that goes on with what it has, or lets go of it, and delivers   *)
(* nothing yet keeps everything.                                            *)
LEMMA WorkerGoesOn ==
  ASSUME IInv, TypeOK', NEW w \in Workers, NEW x \in Rounds, Become(w, x),
         UNCHANGED <<now, occurrence, mailed, posted, unsure>>,
         \A i \in Alert : claim'[i] >= claim[i],
         x.at \in {"idle", "round", "claim"}, x.todo \subseteq worker[w].todo,
         x.at # "idle" => ~At(w, "idle") /\ x.clock = worker[w].clock,
         x.at = "claim" => Handles(w, x.alert)
  PROVE  IInv'
<1>0. worker'[w] = x
  BY DEF Become, IInv, TypeOK
<1>1. \A i \in Alert : Handles(w, i)' => Handles(w, i) /\ x.clock = worker[w].clock
  BY <1>0 DEF Handles, At
<1>2. x.at # "idle" => x.clock <= now /\ now - x.clock <= MaxRound
  BY DEF IInv, InTime
<1>3. \A i \in Alert : Handles(w, i)' => /\ ~Unseen(i)' /\ occurrence'[i].at <= x.clock
                                        /\ x.clock - occurrence'[i].at <= Window
  BY <1>1 DEF IInv, Found, Unseen
<1> QED BY <1>2, <1>3, WorkerMoves DEF Unseen

(* At the start nothing is found, claimed or delivered.                     *)
LEMMA AnnouncedInit == Init => IInv
<1> SUFFICES ASSUME Init PROVE IInv
  OBVIOUS
<1>1. TypeOK
  BY TypeInit
<1>2. \A w \in Workers : At(w, "idle")
  BY DEF Init, At, Idle
<1> QED BY <1>1, <1>2 DEF Init, IInv, InTime, Found, Taken, Alone, Counted, AnnouncedOnce, Handles,
                          Delivers, At

(* Every step keeps the invariant.                                          *)
LEMMA AnnouncedStep ==
  ASSUME IInv, [Next]_vars
  PROVE  IInv'
<1> USE DEF SettingsKept, WorldKept, NothingSent
<1>0. TypeOK' /\ TypeOK
  BY TypeStep DEF IInv
<1>a. /\ now \in Nat /\ \A i \in Alert : claim[i] \in Nat /\ occurrence[i].at \in Nat
      /\ \A w \in Workers : worker[w] \in Rounds /\ Leaves(w) \in Rounds /\ Idle \in Rounds
      /\ \A i \in Alert : claim'[i] \in Nat
  BY <1>0, WorkerTypes DEF TypeOK
<1>b. Panel \subseteq Workers /\ Alert \subseteq Workers
  BY DEF Workers
<1>1. ASSUME NEW i \in Alert, NEW o \in Org, NEW e \in Recorded, Record(i, o, e)
      PROVE  IInv'
  <2>1. \A j \in Alert : ~Unseen(j) => ~Unseen(j)' /\ occurrence'[j].at = occurrence[j].at
    BY <1>0, <1>1 DEF Record, Unseen, TypeOK
  <2>2. UNCHANGED <<now, worker, claim, mailed, posted, unsure>>
    BY <1>1 DEF Record
  <2>3. InTime'
    BY <2>2 DEF IInv, InTime, At
  <2> QED BY <1>0, <2>1, <2>2, <2>3, WorkersKept DEF IInv
<1>2. ASSUME NEW i \in Alert, Recover(i)
      PROVE  IInv'
  <2>1. \A j \in Alert : ~Unseen(j) => ~Unseen(j)' /\ occurrence'[j].at = occurrence[j].at
    BY <1>0, <1>2 DEF Recover, Unseen, NoOccurrence, TypeOK
  <2>2. UNCHANGED <<now, worker, claim, mailed, posted, unsure>>
    BY <1>2 DEF Recover
  <2>3. InTime'
    BY <2>2 DEF IInv, InTime, At
  <2> QED BY <1>0, <2>1, <2>2, <2>3, WorkersKept DEF IInv
<1>3. ASSUME NEW o \in Org, NEW off \in Settings, SetMutedEvents(o, off)
      PROVE  IInv'
  <2>1. UNCHANGED <<now, occurrence, worker, claim, mailed, posted, unsure>>
    BY <1>3 DEF SetMutedEvents
  <2>2. InTime'
    BY <2>1 DEF IInv, InTime, At
  <2> QED BY <1>0, <2>1, <2>2, WorkersKept DEF IInv, Unseen
<1>13. ASSUME NEW o \in Org, TenantFails(o) \/ TenantActive(o)
       PROVE  IInv'
  <2>1. UNCHANGED <<now, occurrence, worker, claim, mailed, posted, unsure>>
    BY <1>13 DEF TenantFails, TenantActive
  <2>2. InTime'
    BY <2>1 DEF IInv, InTime, At
  <2> QED BY <1>0, <2>1, <2>2, WorkersKept DEF IInv, Unseen
<1>4. ASSUME NEW i \in Alert, Announce(i)
      PROVE  IInv'
  <2>1. worker[i] \in Rounds /\ Idle \in Rounds /\ ~At(i, "idle") /\ Handles(i, i)
    BY <1>a, <1>b, <1>4 DEF Announce, Handles, At
  <2>2. UNCHANGED <<now, occurrence, claim, mailed, posted, unsure>>
    BY <1>4 DEF Announce
  <2>3. \A j \in Alert : claim'[j] >= claim[j]
    BY <1>a, <2>2
  <2> DEFINE z == [worker[i] EXCEPT !.at = "claim", !.alert = i]
  <2>4. /\ z \in Rounds /\ z.at = "claim" /\ z.alert = i /\ z.todo = worker[i].todo
        /\ z.clock = worker[i].clock
    BY <2>1 DEF Rounds
  <2>5. Become(i, z) \/ Become(i, Idle)
    BY <1>4 DEF Announce
  <2>6. CASE Become(i, z)
    <3> HIDE DEF z
    <3> QED BY <1>0, <1>b, <2>1, <2>2, <2>3, <2>4, <2>6, WorkerGoesOn
  <2>7. CASE Become(i, Idle)
    BY <1>0, <1>b, <2>1, <2>2, <2>3, <2>7, WorkerGoesOn DEF Idle
  <2> QED BY <2>5, <2>6, <2>7
<1>5. ASSUME NEW w \in Panel, NEW i \in Alert, ReadSettings(w, i)
      PROVE  IInv'
  <2>1. worker[w] \in Rounds /\ At(w, "round") /\ i \in worker[w].todo /\ Handles(w, i)
    BY <1>a, <1>b, <1>5 DEF ReadSettings, Handles, At
  <2>2. UNCHANGED <<now, occurrence, claim, mailed, posted, unsure>>
    BY <1>5 DEF ReadSettings
  <2>3. \A j \in Alert : claim'[j] >= claim[j]
    BY <1>a, <2>2
  <2> DEFINE y == [worker[w] EXCEPT !.todo = @ \ {i}]
             z == [y EXCEPT !.at = "claim", !.alert = i]
  <2>4. /\ y \in Rounds /\ y.at = "round" /\ y.todo \subseteq worker[w].todo
        /\ y.clock = worker[w].clock
        /\ z \in Rounds /\ z.at = "claim" /\ z.alert = i /\ z.todo \subseteq worker[w].todo
        /\ z.clock = worker[w].clock
    BY <2>1 DEF Rounds, At
  <2>5. Become(w, y) \/ Become(w, z)
    BY <1>5 DEF ReadSettings
  <2> HIDE DEF y, z
  <2>6. ~At(w, "idle")
    BY <2>1 DEF At
  <2>7. CASE Become(w, y)
    BY <1>0, <1>b, <2>1, <2>2, <2>3, <2>4, <2>6, <2>7, WorkerGoesOn
  <2>8. CASE Become(w, z)
    BY <1>0, <1>b, <2>1, <2>2, <2>3, <2>4, <2>6, <2>8, WorkerGoesOn
  <2> QED BY <2>5, <2>7, <2>8
<1>6. ASSUME NEW w \in Workers, EndRound(w) \/ Stop(w)
      PROVE  IInv'
  <2>1. Become(w, Idle) /\ UNCHANGED <<now, occurrence, claim, mailed, posted, unsure>>
    BY <1>6 DEF EndRound, Stop
  <2>2. \A j \in Alert : claim'[j] >= claim[j]
    BY <1>a, <2>1
  <2>3. Idle \in Rounds /\ Idle.at = "idle" /\ Idle.todo = {}
    BY <1>a DEF Idle
  <2> QED BY <1>0, <2>1, <2>2, <2>3, WorkerGoesOn
<1>7. ASSUME NEW w \in Panel, NEW unread \in SUBSET Org, StartRound(w, unread)
      PROVE  IInv'
  <2> DEFINE x == [Idle EXCEPT !.at = "round", !.clock = now, !.todo = ListOrgs(now, Org \ (unread \cup inactive))]
  <2>1. /\ x \in Rounds /\ x.at = "round" /\ x.clock = now
        /\ x.todo = ListOrgs(now, Org \ (unread \cup inactive))
    BY <1>a DEF Idle, Rounds, ListOrgs
  <2>2. Become(w, x) /\ UNCHANGED <<now, occurrence, claim, mailed, posted, unsure>>
    BY <1>7 DEF StartRound
  <2> HIDE DEF x
  <2>3. worker'[w] = x
    BY <1>0, <1>b, <2>2 DEF Become, TypeOK
  <2>4. \A j \in Alert : claim'[j] >= claim[j]
    BY <1>a, <2>2
  <2>5. \A j \in Alert : Handles(w, j)' => j \in ListOrgs(now, Org \ (unread \cup inactive))
    BY <2>1, <2>3 DEF Handles, At
  <2>6. \A j \in ListOrgs(now, Org \ (unread \cup inactive)) :
          ~Unseen(j) /\ occurrence[j].at <= now /\ now - occurrence[j].at <= Window
    BY <1>a, WindowAssumption DEF ListOrgs, Fresh, Unseen, NoOccurrence
  <2>7. x.clock <= now /\ now - x.clock <= MaxRound
    BY <1>a, <2>1, WindowAssumption
  <2> QED BY <1>0, <1>b, <2>1, <2>2, <2>4, <2>5, <2>6, <2>7, WorkerMoves DEF Unseen
<1>8. ASSUME NEW w \in Workers, Claim(w)
      PROVE  IInv'
  <2> DEFINE i == worker[w].alert
             d == [worker[w] EXCEPT !.at = "deliver"]
  <2>1. /\ i \in Alert /\ Handles(w, i) /\ ~At(w, "idle")
        /\ UNCHANGED <<now, occurrence, mailed, posted, unsure>>
    BY <1>8, <1>0 DEF Claim, Handles, At, TypeOK
  <2> HIDE DEF i
  <2>2. ~Unseen(i) /\ occurrence[i].at <= worker[w].clock /\ worker[w].clock <= now
    BY <2>1 DEF IInv, Found, InTime
  <2>3. (\A j \in Alert : claim'[j] >= claim[j]) /\ (claim' # claim => claim'[i] = now + Ttl)
    <3>1. CASE claim' = claim
      BY <1>a, <3>1
    <3>2. CASE claim' = [claim EXCEPT ![i] = now + Ttl] /\ Free(i)
      BY <1>0, <1>a, <2>1, <3>2, WindowAssumption DEF Free, TypeOK
    <3> QED BY <1>8, <3>1, <3>2 DEF Claim, i
  <2>4. CASE Become(w, Leaves(w))
    <3>1. /\ Leaves(w).at \in {"idle", "round"} /\ Leaves(w).todo \subseteq worker[w].todo
          /\ (Leaves(w).at # "idle" => Leaves(w).clock = worker[w].clock)
      BY <1>a DEF Leaves, Idle, Rounds
    <3> QED BY <1>0, <1>a, <2>1, <2>3, <2>4, <3>1, WorkerGoesOn
  <2>5. CASE Become(w, d) /\ Free(i) /\ claim' = [claim EXCEPT ![i] = now + Ttl]
    <3>1. d \in Rounds /\ d.at = "deliver" /\ d.alert = i /\ d.todo = worker[w].todo
          /\ d.clock = worker[w].clock
      BY <1>a DEF Rounds, i
    <3> HIDE DEF d
    <3>2. worker'[w] = d
      BY <1>0, <2>5 DEF Become, TypeOK
    <3>3. \A j \in Alert : Handles(w, j)' => Handles(w, j)
      BY <2>1, <3>1, <3>2 DEF Handles, At
    <3>4. \A j \in Alert : Handles(w, j)' => /\ ~Unseen(j)' /\ occurrence'[j].at <= d.clock
                                            /\ d.clock - occurrence'[j].at <= Window
      BY <2>1, <3>1, <3>3 DEF IInv, Found, Unseen
    <3>5. d.clock <= now /\ now - d.clock <= MaxRound
      BY <2>1, <3>1 DEF IInv, InTime
    <3>6. mailed[i] = 0 /\ \A v \in Workers : ~Delivers(v, i)
      BY <2>1, <2>5, FreeIsNew
    <3>7. claim'[i] >= occurrence'[i].at + Ttl
      <4>1. claim'[i] = now + Ttl /\ occurrence'[i].at = occurrence[i].at
        BY <1>0, <2>1, <2>5 DEF TypeOK
      <4>2. worker[w].clock \in Nat
        BY <1>a DEF Rounds
      <4> QED BY <1>a, <2>1, <2>2, <4>1, <4>2, WindowAssumption
    <3> QED BY <1>0, <2>1, <2>2, <2>3, <2>5, <3>1, <3>4, <3>5, <3>6, <3>7, WorkerMoves DEF Unseen
  <2> QED BY <1>8, <2>4, <2>5 DEF Claim, Goes, i
<1>9. ASSUME NEW i \in Alert, NEW o \in Org, Suspend(i, o)
      PROVE  IInv'
  <2> DEFINE x == [Idle EXCEPT !.at = "announce", !.clock = now]
  <2>1. x \in Rounds /\ x.at = "announce" /\ x.clock = now /\ x.todo = {}
    BY <1>a DEF Idle, Rounds
  <2>2. Become(i, x) /\ UNCHANGED <<now, claim, mailed, posted, unsure>>
    BY <1>9 DEF Suspend
  <2> HIDE DEF x
  <2>3. worker'[i] = x
    BY <1>0, <1>b, <2>2 DEF Become, TypeOK
  <2>4. \A j \in Alert : claim'[j] >= claim[j]
    BY <1>a, <2>2
  <2>5. \A j \in Alert : ~Unseen(j) => ~Unseen(j)' /\ occurrence'[j].at = occurrence[j].at
    BY <1>0, <1>9 DEF Suspend, Unseen, TypeOK
  <2>6. \A j \in Alert : Handles(i, j)' => j = i
    BY <2>1, <2>3 DEF Handles, At
  <2>7. ~Unseen(i)' /\ occurrence'[i].at = now
    BY <1>0, <1>9 DEF Suspend, Unseen, NoOccurrence, TypeOK
  <2>8. x.clock <= now /\ now - x.clock <= MaxRound /\ now - now <= Window
    BY <1>a, <2>1, WindowAssumption
  <2>9. \A j \in Alert : Handles(i, j)' => /\ ~Unseen(j)' /\ occurrence'[j].at <= x.clock
                                          /\ x.clock - occurrence'[j].at <= Window
    BY <1>a, <2>1, <2>6, <2>7, <2>8
  <2> QED BY <1>0, <1>b, <2>1, <2>2, <2>4, <2>5, <2>8, <2>9, WorkerMoves
<1>10. ASSUME NEW w \in Workers, Deliver(w)
       PROVE  IInv'
  <2> DEFINE i == worker[w].alert
  <2>1. PICK n \in Arrivals :
          /\ posted' = [posted EXCEPT ![i] = @ + n]
          /\ unsure' = IF n = 2 THEN unsure \cup {i} ELSE unsure
    BY <1>10 DEF Deliver
  <2>2. /\ i \in Alert /\ Delivers(w, i) /\ mailed' = [mailed EXCEPT ![i] = @ + 1]
        /\ Become(w, Leaves(w)) /\ UNCHANGED <<now, occurrence, claim>>
    BY <1>10, <1>0 DEF Deliver, Delivers, At, TypeOK
  <2> HIDE DEF i
  <2>a. worker'[w] = Leaves(w) /\ \A v \in Workers \ {w} : worker'[v] = worker[v]
    BY <1>0, <2>2 DEF Become, TypeOK
  <2>b. /\ Leaves(w).at \in {"idle", "round"} /\ Leaves(w).todo \subseteq worker[w].todo
        /\ (Leaves(w).at # "idle" => Leaves(w).clock = worker[w].clock)
    BY <1>a DEF Leaves, Idle, Rounds
  <2>3. /\ worker'[w] = Leaves(w) /\ \A v \in Workers \ {w} : worker'[v] = worker[v]
        /\ Leaves(w).at \in {"idle", "round"} /\ Leaves(w).todo \subseteq worker[w].todo
        /\ (Leaves(w).at # "idle" => Leaves(w).clock = worker[w].clock)
    BY <2>a, <2>b
  <2>4. ~At(w, "idle")
    BY <2>2 DEF Delivers, At
  <2>5. /\ \A v \in Workers, j \in Alert :
             Handles(v, j)' => Handles(v, j) /\ worker'[v].clock = worker[v].clock
        /\ \A v \in Workers, j \in Alert : Delivers(v, j)' => v # w /\ Delivers(v, j)
    BY <2>3, <2>4 DEF Handles, Delivers, At
  <2>6. InTime'
    BY <2>2, <2>3, <2>4 DEF IInv, InTime, At
  <2>7. Found'
    BY <2>2, <2>5 DEF IInv, Found, Unseen
  <2>8. mailed[i] = 0 /\ posted[i] = 0 /\ \A v \in Workers : Delivers(v, i) => v = w
    BY <2>2 DEF IInv, Alone, Counted
  <2>9. /\ mailed'[i] = 1 /\ posted'[i] = n
        /\ \A j \in Alert \ {i} : mailed'[j] = mailed[j] /\ posted'[j] = posted[j]
    BY <1>0, <2>1, <2>2, <2>8 DEF TypeOK, Arrivals
  <2>10. Taken'
    <3> SUFFICES ASSUME NEW j \in Alert, mailed'[j] # 0 \/ \E v \in Workers : Delivers(v, j)'
                 PROVE  ~Unseen(j) /\ claim[j] >= occurrence[j].at + Ttl
      BY <2>2 DEF Taken, Unseen
    <3>1. CASE j = i
      BY <2>2, <3>1 DEF IInv, Taken
    <3>2. CASE j # i
      BY <2>5, <2>9, <3>2 DEF IInv, Taken
    <3> QED BY <3>1, <3>2
  <2>11. Alone'
    BY <2>5, <2>8, <2>9 DEF IInv, Alone
  <2>12. Counted'
    BY <2>9 DEF IInv, Counted
  <2>13. AnnouncedOnce'
    <3> SUFFICES ASSUME NEW j \in Alert
                 PROVE  mailed'[j] <= 1 /\ posted'[j] <= (IF j \in unsure' THEN 2 ELSE 1)
      BY DEF AnnouncedOnce
    <3>1. CASE j = i
      BY <2>1, <2>9, <3>1 DEF Arrivals
    <3>2. CASE j # i
      <4>1. j \in unsure' <=> j \in unsure
        BY <2>1, <3>2
      <4> QED BY <2>9, <3>2, <4>1 DEF IInv, AnnouncedOnce
    <3> QED BY <3>1, <3>2
  <2> QED BY <1>0, <2>6, <2>7, <2>10, <2>11, <2>12, <2>13 DEF IInv
<1>11. CASE Tick
  <2>1. /\ now' = now + 1 /\ UNCHANGED <<occurrence, worker, claim, mailed, posted, unsure>>
        /\ \A w \in Workers : ~At(w, "idle") => now - worker[w].clock < MaxRound
    BY <1>11 DEF Tick
  <2>2. InTime'
    <3> SUFFICES ASSUME NEW w \in Workers, ~At(w, "idle")'
                 PROVE  worker'[w].clock <= now' /\ now' - worker'[w].clock <= MaxRound
      BY DEF InTime
    <3>0. ~At(w, "idle") /\ worker'[w] = worker[w]
      BY <2>1 DEF At
    <3>1. worker[w].clock \in Nat /\ worker[w].clock <= now /\ now - worker[w].clock < MaxRound
      BY <1>a, <2>1, <3>0 DEF IInv, InTime, Rounds
    <3> QED BY <1>a, <2>1, <3>0, <3>1, WindowAssumption
  <2> QED BY <1>0, <2>1, <2>2, WorkersKept DEF IInv, Unseen
<1>12. CASE UNCHANGED vars
  <2>1. UNCHANGED <<now, occurrence, worker, claim, mailed, posted, unsure>>
    BY <1>12 DEF vars
  <2>2. InTime'
    BY <2>1 DEF IInv, InTime, At
  <2> QED BY <1>0, <2>1, <2>2, WorkersKept DEF IInv, Unseen
<1> QED BY <1>1, <1>2, <1>3, <1>4, <1>5, <1>6, <1>7, <1>8, <1>9, <1>10, <1>11, <1>12, <1>13,
           <1>b DEF Next

(* Nobody is told twice of one occurrence, however many Panels find it and  *)
(* in however many rounds, as long as a claim outlasts the window and the   *)
(* longest round together (NotifiedTTL, notifyMaxAge).                      *)
THEOREM Announced == Spec => []AnnouncedOnce
<1>1. IInv => AnnouncedOnce
  BY DEF IInv
<1> QED BY <1>1, AnnouncedInit, AnnouncedStep, PTL DEF Spec
-----------------------------------------------------------------------------
(* Nothing is passed over.                                                  *)

(* Alert i is still shown, and nobody claimed it or has an excuse.          *)
Owed(i) ==
  /\ occurrence[i].shown /\ occurrence[i].event \in Recorded
  /\ i \notin claimed \cup excused

Pending(w, i) == i \in worker[w].todo \/ (At(w, "claim") /\ worker[w].alert = i)

Known == \A i \in Alert : occurrence[i].shown =>
  occurrence[i].org \in Org /\ occurrence[i].event \in Events /\ occurrence[i].at <= now
Held == \A i \in Alert : claim[i] # 0 => i \in claimed

(* What is owed is not too old yet; in the last unit it can be found, every *)
(* round that began in that unit found it and has it before itself, and so  *)
(* none is over.                                                            *)
InWindow == \A i \in Alert : Owed(i) => now <= occurrence[i].at + Window
LastRound == \A i \in Alert : Owed(i) /\ now = occurrence[i].at + Window =>
  /\ rested = {}
  /\ \A w \in Panel : ~At(w, "idle") /\ worker[w].clock = now => Pending(w, i)

(* A suspension has its goroutine until it is claimed.                      *)
Announcing == \A i \in Alert : occurrence[i].event = "suspended" =>
  \/ i \in claimed \cup excused \/ At(i, "announce")
  \/ At(i, "claim") /\ worker[i].alert = i

MissInv == Known /\ Held /\ InWindow /\ LastRound /\ Announcing

LEMMA MissTypes ==
  ASSUME TypeOK
  PROVE  /\ now \in Nat /\ (\A i \in Alert : occurrence[i].at \in Nat /\ claim[i] \in Nat)
         /\ \A w \in Workers : worker[w] \in Rounds
         /\ Panel \subseteq Workers /\ Alert \subseteq Workers /\ rested \subseteq Panel
         /\ Window \in Nat /\ Ttl \in Nat /\ MaxRound \in Nat /\ Window > 0
BY WindowAssumption DEF TypeOK, Rounds, Workers

(* A worker that becomes x keeps everything, when a round that may be the   *)
(* last still has what is owed, and a suspension does not lose its          *)
(* goroutine.                                                               *)
LEMMA MissMoves ==
  ASSUME TypeOK, MissInv, NEW w \in Workers, NEW x, Become(w, x),
         UNCHANGED <<now, occurrence, rested>>,
         claimed \subseteq claimed', excused \subseteq excused', Held',
         w \in Panel => \A i \in Alert :
           Owed(i)' /\ Owed(i) /\ now = occurrence[i].at + Window /\ x.at # "idle" /\ x.clock = now
             => i \in x.todo \/ (x.at = "claim" /\ x.alert = i),
         w \in Alert /\ occurrence[w].event = "suspended" =>
           w \in claimed' \cup excused' \/ x.at = "announce" \/ (x.at = "claim" /\ x.alert = w)
  PROVE  MissInv'
<1>1. worker'[w] = x /\ \A v \in Workers \ {w} : worker'[v] = worker[v]
  BY DEF Become, TypeOK
<1>2. \A i \in Alert : Owed(i)' => Owed(i)
  BY DEF Owed
<1>3. Known' /\ InWindow'
  BY <1>2 DEF MissInv, Known, InWindow
<1>4. LastRound'
  <2> SUFFICES ASSUME NEW i \in Alert, Owed(i)', now = occurrence[i].at + Window
               PROVE  /\ rested = {}
                      /\ \A v \in Panel : ~At(v, "idle")' /\ worker'[v].clock = now => Pending(v, i)'
    BY DEF LastRound
  <2>1. Owed(i) /\ rested = {}
        /\ \A v \in Panel : ~At(v, "idle") /\ worker[v].clock = now => Pending(v, i)
    BY <1>2 DEF MissInv, LastRound
  <2>2. ASSUME NEW v \in Panel, ~At(v, "idle")', worker'[v].clock = now PROVE Pending(v, i)'
    <3>1. CASE v = w
      BY <1>1, <2>1, <2>2, <3>1 DEF Pending, At
    <3>2. CASE v # w
      <4>1. worker'[v] = worker[v]
        BY <1>1, <3>2 DEF Workers
      <4> QED BY <2>1, <2>2, <4>1 DEF Pending, At
    <3> QED BY <3>1, <3>2
  <2> QED BY <2>1, <2>2
<1>5. Announcing'
  <2> SUFFICES ASSUME NEW i \in Alert, occurrence[i].event = "suspended"
               PROVE  \/ i \in claimed' \cup excused' \/ At(i, "announce")'
                      \/ At(i, "claim")' /\ worker'[i].alert = i
    BY DEF Announcing
  <2>1. CASE i = w
    BY <1>1, <2>1 DEF At
  <2>2. CASE i # w
    <3>1. worker'[i] = worker[i]
      BY <1>1, <2>2 DEF Workers
    <3> QED BY <3>1 DEF MissInv, Announcing, At
  <2> QED BY <2>1, <2>2
<1> QED BY <1>3, <1>4, <1>5 DEF MissInv

(* What the rounds and the goroutines do.                                   *)
LEMMA MissStart ==
  ASSUME TypeOK, MissInv, NEW w \in Panel, NEW unread \in SUBSET Org, StartRound(w, unread)
  PROVE  MissInv'
<1> DEFINE x == [Idle EXCEPT !.at = "round", !.clock = now, !.todo = ListOrgs(now, Org \ (unread \cup inactive))]
<1>1. x.at = "round" /\ x.clock = now /\ x.todo = ListOrgs(now, Org \ (unread \cup inactive))
  BY DEF Idle
<1>2. /\ Become(w, x) /\ UNCHANGED <<now, occurrence, rested, claim, claimed>>
      /\ excused' = excused \cup {i \in Alert : occurrence[i].org \in unread \cup inactive}
  BY DEF StartRound, WorldKept
<1> HIDE DEF x
<1>3. w \in Workers /\ w \notin Alert
  BY WorkersAssumption DEF Workers
<1>4. ASSUME NEW i \in Alert, Owed(i)', Owed(i), now = occurrence[i].at + Window PROVE i \in x.todo
  <2>1. occurrence[i].org \in Org \ (unread \cup inactive)
    BY <1>2, <1>4 DEF Owed, MissInv, Known, TypeOK
  <2>2. Fresh(i, now)
    BY <1>4, MissTypes DEF Fresh
  <2> QED BY <1>1, <1>4, <2>1, <2>2 DEF ListOrgs, Owed
<1>5. Held'
  BY <1>2 DEF MissInv, Held
<1> QED BY <1>2, <1>3, <1>4, <1>5, MissMoves

LEMMA MissEnd ==
  ASSUME TypeOK, MissInv, NEW w \in Panel, EndRound(w)
  PROVE  MissInv'
<1>1. /\ At(w, "round") /\ worker[w].todo = {} /\ Become(w, Idle)
      /\ UNCHANGED <<now, occurrence, claim, claimed, excused>>
      /\ rested' = IF worker[w].clock = now THEN rested \cup {w} ELSE rested
  BY DEF EndRound, WorldKept
<1>2. /\ worker'[w] = Idle /\ w \notin Alert
      /\ \A v \in Workers \ {w} : worker'[v] = worker[v]
  BY <1>1, WorkersAssumption DEF Become, TypeOK, Workers
<1>3. Known' /\ Held' /\ InWindow' /\ \A i \in Alert : Owed(i)' <=> Owed(i)
  BY <1>1 DEF MissInv, Known, Held, InWindow, Owed
<1>4. LastRound'
  <2> SUFFICES ASSUME NEW i \in Alert, Owed(i), now = occurrence[i].at + Window
               PROVE  /\ rested' = {}
                      /\ \A v \in Panel : ~At(v, "idle")' /\ worker'[v].clock = now => Pending(v, i)'
    BY <1>1, <1>3 DEF LastRound
  <2>1. rested = {} /\ \A v \in Panel : ~At(v, "idle") /\ worker[v].clock = now => Pending(v, i)
    BY DEF MissInv, LastRound
  <2>2. worker[w].clock # now
    BY <1>1, <2>1 DEF Pending, At
  <2>3. ASSUME NEW v \in Panel, ~At(v, "idle")', worker'[v].clock = now PROVE Pending(v, i)'
    <3>1. v # w /\ worker'[v] = worker[v]
      BY <1>2, <2>3 DEF At, Idle, Workers
    <3> QED BY <2>1, <2>3, <3>1 DEF Pending, At
  <2> QED BY <1>1, <2>1, <2>2, <2>3
<1>5. Announcing'
  BY <1>1, <1>2 DEF MissInv, Announcing, At, Workers
<1> QED BY <1>3, <1>4, <1>5 DEF MissInv

LEMMA MissRead ==
  ASSUME TypeOK, MissInv, NEW w \in Panel, NEW i \in Alert, ReadSettings(w, i)
  PROVE  MissInv'
<1> DEFINE y == [worker[w] EXCEPT !.todo = @ \ {i}]
           z == [y EXCEPT !.at = "claim", !.alert = i]
<1>1. w \in Workers /\ w \notin Alert /\ worker[w] \in Rounds
  BY WorkersAssumption, MissTypes DEF Workers
<1>2. /\ At(w, "round") /\ UNCHANGED <<now, occurrence, rested, claim, claimed>>
      /\ excused \subseteq excused'
      /\ Become(w, z) \/ (Become(w, y) /\ i \in excused')
  BY DEF ReadSettings, WorldKept
<1>3. /\ y.at = worker[w].at /\ y.todo = worker[w].todo \ {i} /\ y.clock = worker[w].clock
      /\ z.at = "claim" /\ z.alert = i /\ z.todo = worker[w].todo \ {i} /\ z.clock = worker[w].clock
  BY <1>1 DEF Rounds
<1> HIDE DEF y, z
<1>4. ASSUME NEW j \in Alert, Owed(j), now = occurrence[j].at + Window, worker[w].clock = now
      PROVE  j \in worker[w].todo
  BY <1>2, <1>4 DEF MissInv, LastRound, Pending, At
<1>5. Held'
  BY <1>2 DEF MissInv, Held
<1>6. CASE Become(w, z)
  BY <1>1, <1>2, <1>3, <1>4, <1>5, <1>6, MissMoves
<1>7. CASE Become(w, y) /\ i \in excused'
  <2>1. ~Owed(i)'
    BY <1>7 DEF Owed
  <2> QED BY <1>1, <1>2, <1>3, <1>4, <1>5, <1>7, <2>1, MissMoves
<1> QED BY <1>2, <1>6, <1>7

(* What lets go of an alert has left it claimed, or excused.                *)
LEMMA MissClaim ==
  ASSUME TypeOK, MissInv, NEW w \in Workers, Claim(w)
  PROVE  MissInv'
<1> DEFINE i == worker[w].alert
           d == [worker[w] EXCEPT !.at = "deliver"]
<1>1. worker[w] \in Rounds /\ At(w, "claim") /\ i \in Alert
  BY MissTypes DEF Claim, At, TypeOK
<1>2. /\ UNCHANGED <<now, occurrence, rested>>
      /\ claimed \subseteq claimed' /\ excused \subseteq excused'
      /\ Become(w, d) \/ Become(w, Leaves(w))
  BY DEF Claim, Goes, WorldKept
<1>3. i \in claimed' \cup excused'
  <2>1. CASE ~Free(i)
    <3>1. claim[i] # 0
      BY <1>1, <2>1, MissTypes DEF Free
    <3> QED BY <1>1, <1>2, <3>1 DEF MissInv, Held
  <2>2. CASE Free(i)
    BY <2>2 DEF Claim
  <2> QED BY <2>1, <2>2
<1>4. Held'
  <2>1. CASE UNCHANGED claim
    BY <1>2, <2>1 DEF MissInv, Held
  <2>2. CASE claim' = [claim EXCEPT ![i] = now + Ttl] /\ i \in claimed'
    BY <1>1, <1>2, <2>2 DEF MissInv, Held, TypeOK
  <2> QED BY <2>1, <2>2 DEF Claim
<1>5. /\ d.todo = worker[w].todo /\ d.clock = worker[w].clock
      /\ w \in Panel => Leaves(w).todo = worker[w].todo /\ Leaves(w).clock = worker[w].clock
  BY <1>1 DEF Rounds, Leaves
<1>6. ASSUME NEW j \in Alert, w \in Panel, Owed(j), Owed(j)', now = occurrence[j].at + Window,
             worker[w].clock = now
      PROVE  j \in worker[w].todo
  <2>1. Pending(w, j)
    BY <1>1, <1>6 DEF MissInv, LastRound, At
  <2>2. j # i
    BY <1>3, <1>6 DEF Owed
  <2> QED BY <2>1, <2>2 DEF Pending
<1>7. w \in Alert /\ occurrence[w].event = "suspended" => w \in claimed' \cup excused'
  BY <1>1, <1>2, <1>3 DEF MissInv, Announcing, At
<1> HIDE DEF d, i
<1> QED BY <1>2, <1>4, <1>5, <1>6, <1>7, MissMoves

LEMMA MissDeliver ==
  ASSUME TypeOK, MissInv, NEW w \in Workers, Deliver(w)
  PROVE  MissInv'
<1>1. worker[w] \in Rounds /\ At(w, "deliver")
      /\ UNCHANGED <<now, occurrence, rested, claim, claimed, excused>> /\ Become(w, Leaves(w))
  BY MissTypes DEF Deliver, WorldKept
<1>2. Held'
  BY <1>1 DEF MissInv, Held
<1>3. w \in Panel => Leaves(w).todo = worker[w].todo /\ Leaves(w).clock = worker[w].clock
  BY <1>1 DEF Rounds, Leaves
<1>4. ASSUME NEW j \in Alert, w \in Panel, Owed(j), now = occurrence[j].at + Window,
             worker[w].clock = now
      PROVE  j \in worker[w].todo
  BY <1>1, <1>4 DEF MissInv, LastRound, Pending, At
<1>5. w \in Alert /\ occurrence[w].event = "suspended" => w \in claimed \cup excused
  BY <1>1 DEF MissInv, Announcing, At
<1> QED BY <1>1, <1>2, <1>3, <1>4, <1>5, MissMoves

LEMMA MissStop ==
  ASSUME TypeOK, MissInv, NEW w \in Workers, Stop(w)
  PROVE  MissInv'
<1>1. /\ UNCHANGED <<now, occurrence, rested, claim, claimed>> /\ Become(w, Idle)
      /\ excused \subseteq excused' /\ (w \in Alert => w \in excused') /\ Idle.at = "idle"
  BY DEF Stop, WorldKept, Idle
<1>2. Held'
  BY <1>1 DEF MissInv, Held
<1> QED BY <1>1, <1>2, MissMoves

LEMMA MissAnnounce ==
  ASSUME TypeOK, MissInv, NEW i \in Alert, Announce(i)
  PROVE  MissInv'
<1> DEFINE z == [worker[i] EXCEPT !.at = "claim", !.alert = i]
<1>1. /\ i \in Workers /\ i \notin Panel /\ worker[i] \in Rounds
      /\ UNCHANGED <<now, occurrence, rested, claim, claimed>> /\ excused \subseteq excused'
      /\ Become(i, z) \/ (Become(i, Idle) /\ i \in excused')
  BY MissTypes, WorkersAssumption DEF Announce, WorldKept
<1>2. z.at = "claim" /\ z.alert = i
  BY <1>1 DEF Rounds
<1> HIDE DEF z
<1>3. Held'
  BY <1>1 DEF MissInv, Held
<1> QED BY <1>1, <1>2, <1>3, MissMoves

-----------------------------------------------------------------------------
(* What people and the operator do.                                         *)

LEMMA MissRecorded ==
  ASSUME TypeOK, MissInv, NEW i \in Alert, NEW o \in Org,
         (\E e \in Recorded : Record(i, o, e)) \/ Suspend(i, o)
  PROVE  MissInv'
<1>1. PICK e \in Events :
        /\ occurrence' = [occurrence EXCEPT ![i] = [org |-> o, event |-> e, at |-> now, shown |-> TRUE]]
        /\ e = "suspended" <=> Suspend(i, o)
  BY DEF Record, Suspend, Events, Recorded
<1>2. /\ occurrence'[i].org = o /\ occurrence'[i].event = e /\ occurrence'[i].at = now
      /\ \A j \in Alert \ {i} : occurrence'[j] = occurrence[j]
  BY <1>1 DEF TypeOK
<1>3. /\ UNCHANGED <<now, claim, claimed, excused, rested>>
      /\ \A v \in Workers \ {i} : worker'[v] = worker[v]
      /\ Suspend(i, o) => At(i, "announce")'
      /\ \A v \in Panel : v # i
  <2>1. UNCHANGED <<now, claim, claimed, excused, rested>>
    BY DEF Record, Suspend
  <2>2. CASE Suspend(i, o)
    <3> DEFINE x == [Idle EXCEPT !.at = "announce", !.clock = now]
    <3>1. x.at = "announce" /\ Become(i, x)
      BY <2>2 DEF Suspend, Idle
    <3> HIDE DEF x
    <3>2. worker'[i] = x /\ \A v \in Workers \ {i} : worker'[v] = worker[v]
      BY <3>1 DEF Become, TypeOK, Workers
    <3> QED BY <2>1, <3>1, <3>2, WorkersAssumption DEF At
  <2>3. CASE ~Suspend(i, o)
    <3>1. UNCHANGED worker
      BY <2>3 DEF Record
    <3> QED BY <2>1, <2>3, <3>1, WorkersAssumption
  <2> QED BY <2>2, <2>3
<1>4. Known' /\ Held'
  BY <1>2, <1>3, MissTypes DEF MissInv, Known, Held
<1>5. \A j \in Alert \ {i} : Owed(j)' <=> Owed(j)
  BY <1>2, <1>3 DEF Owed
<1>6. InWindow'
  BY <1>2, <1>3, <1>5, MissTypes DEF MissInv, InWindow
<1>7. LastRound'
  <2>1. now # occurrence'[i].at + Window
    BY <1>2, MissTypes
  <2>2. \A v \in Panel : worker'[v] = worker[v]
    BY <1>3 DEF Workers
  <2> QED BY <1>2, <1>3, <1>5, <2>1, <2>2 DEF MissInv, LastRound, Pending, At
<1>8. Announcing'
  <2> SUFFICES ASSUME NEW j \in Alert, occurrence'[j].event = "suspended"
               PROVE  \/ j \in claimed' \cup excused' \/ At(j, "announce")'
                      \/ At(j, "claim")' /\ worker'[j].alert = j
    BY DEF Announcing
  <2>1. CASE j = i
    BY <1>1, <1>2, <1>3, <2>1
  <2>2. CASE j # i
    <3>1. worker'[j] = worker[j]
      BY <1>3, <2>2 DEF Workers
    <3> QED BY <1>2, <1>3, <2>2, <3>1 DEF MissInv, Announcing, At
  <2> QED BY <2>1, <2>2
<1> QED BY <1>4, <1>6, <1>7, <1>8 DEF MissInv

LEMMA MissRecover ==
  ASSUME TypeOK, MissInv, NEW i \in Alert, Recover(i)
  PROVE  MissInv'
<1>1. /\ UNCHANGED <<now, claim, claimed, rested, worker>> /\ excused \subseteq excused'
      /\ occurrence[i].event = "gave_up"
      /\ \A j \in Alert : /\ occurrence'[j].org = occurrence[j].org
                          /\ occurrence'[j].event = occurrence[j].event
                          /\ occurrence'[j].at = occurrence[j].at
                          /\ occurrence'[j].shown => occurrence[j].shown
  BY DEF Recover, TypeOK
<1>2. \A j \in Alert : Owed(j)' => Owed(j)
  BY <1>1 DEF Owed
<1>3. Known' /\ Held' /\ InWindow'
  BY <1>1, <1>2 DEF MissInv, Known, Held, InWindow
<1>4. LastRound'
  BY <1>1, <1>2 DEF MissInv, LastRound, Pending, At
<1>5. Announcing'
  BY <1>1 DEF MissInv, Announcing, At
<1> QED BY <1>3, <1>4, <1>5 DEF MissInv

(* An alert that was switched on, or whose Tenant is Active again, has its  *)
(* last unit before itself.                                                 *)
LEMMA MissMuted ==
  ASSUME TypeOK, MissInv, NEW o \in Org,
         (\E off \in Settings : SetMutedEvents(o, off)) \/ TenantFails(o) \/ TenantActive(o)
  PROVE  MissInv'
<1>1. /\ UNCHANGED <<now, occurrence, claim, claimed, rested, worker>>
      /\ \A j \in Alert : j \in excused /\ j \notin excused' =>
           occurrence[j].event \in Recorded /\ now - occurrence[j].at < Window
      /\ excused' \subseteq excused
  BY DEF SetMutedEvents, TenantFails, TenantActive, WorldKept
<1>2. \A j \in Alert : Owed(j)' => Owed(j) \/ now - occurrence[j].at < Window
  BY <1>1 DEF Owed
<1>3. Known' /\ Held'
  BY <1>1 DEF MissInv, Known, Held
<1>4. InWindow'
  BY <1>1, <1>2, MissTypes DEF MissInv, InWindow
<1>5. LastRound'
  <2>1. ASSUME NEW j \in Alert, Owed(j)', now = occurrence[j].at + Window PROVE Owed(j)
    BY <1>2, <2>1, MissTypes
  <2> QED BY <1>1, <2>1 DEF MissInv, LastRound, Pending, At
<1>6. Announcing'
  BY <1>1 DEF MissInv, Announcing, At, Recorded
<1> QED BY <1>3, <1>4, <1>5, <1>6 DEF MissInv

(* Time passes: somebody finished a round, so nothing owed is at its end;   *)
(* and no round began in the new unit yet.                                  *)
LEMMA MissTick ==
  ASSUME IInv, MissInv, Tick
  PROVE  MissInv'
<1>0. TypeOK
  BY DEF IInv
<1>1. /\ now' = now + 1 /\ rested # {} /\ rested' = {}
      /\ UNCHANGED <<occurrence, claim, claimed, excused, worker>>
  BY DEF Tick
<1>2. Known'
  BY <1>0, <1>1, MissTypes DEF MissInv, Known
<1>3. Held'
  BY <1>1 DEF MissInv, Held
<1>4. InWindow'
  <2> SUFFICES ASSUME NEW i \in Alert, Owed(i) PROVE now + 1 <= occurrence[i].at + Window
    BY <1>1 DEF InWindow, Owed
  <2>1. now <= occurrence[i].at + Window /\ now # occurrence[i].at + Window
    BY <1>1 DEF MissInv, InWindow, LastRound
  <2> QED BY <1>0, <2>1, MissTypes
<1>5. LastRound'
  <2>1. ASSUME NEW w \in Panel, ~At(w, "idle") PROVE worker[w].clock # now + 1
    <3>1. worker[w].clock <= now /\ worker[w].clock \in Nat
      BY <1>0, <2>1, MissTypes DEF IInv, InTime, Rounds
    <3> QED BY <1>0, <3>1, MissTypes
  <2> QED BY <1>1, <2>1 DEF LastRound, At
<1>6. Announcing'
  BY <1>1 DEF MissInv, Announcing, At
<1> QED BY <1>2, <1>3, <1>4, <1>5, <1>6 DEF MissInv

LEMMA MissStep ==
  ASSUME IInv, MissInv, [Next]_vars
  PROVE  MissInv'
<1>0. TypeOK
  BY DEF IInv
<1>1. CASE UNCHANGED vars
  <2>1. \A i \in Alert : Owed(i)' <=> Owed(i)
    BY <1>1 DEF vars, Owed
  <2> QED BY <1>1, <2>1 DEF vars, MissInv, Known, Held, InWindow, LastRound, Announcing, Pending, At
<1> QED BY <1>0, <1>1, MissStart, MissEnd, MissRead, MissClaim, MissDeliver, MissStop, MissAnnounce,
           MissRecorded, MissRecover, MissMuted, MissTick DEF Next

(* Nothing is passed over, however many Panels there are and whatever fails *)
(* in one organisation, as long as some Panel finishes a round in each unit *)
(* of time and the window is not empty (notifyMaxAge, NotifyOnce, notify).  *)
THEOREM NoneLost == Spec => []NoneMissed
<1>1. Init => MissInv
  <2> SUFFICES ASSUME Init PROVE MissInv
    OBVIOUS
  <2>1. \A i \in Alert : ~occurrence[i].shown /\ occurrence[i].event = "-" /\ claim[i] = 0
    BY DEF Init, NoOccurrence
  <2> QED BY <2>1 DEF MissInv, Known, Held, InWindow, LastRound, Announcing, Owed
<1>2. IInv /\ MissInv => NoneMissed
  <2> SUFFICES ASSUME IInv, MissInv, NEW i \in Alert, occurrence[i].shown,
                      IF occurrence[i].event = "suspended" THEN At(i, "idle")
                      ELSE now - occurrence[i].at > Window
               PROVE  i \in claimed \cup excused
    BY DEF NoneMissed
  <2>1. TypeOK /\ occurrence[i].event \in Events
    BY DEF IInv, MissInv, Known
  <2>2. CASE occurrence[i].event = "suspended"
    BY <2>2 DEF MissInv, Announcing, At
  <2>3. CASE occurrence[i].event # "suspended"
    <3>1. occurrence[i].event \in Recorded /\ ~(now <= occurrence[i].at + Window)
      BY <2>1, <2>3, MissTypes DEF Events
    <3> QED BY <3>1 DEF MissInv, InWindow, Owed
  <2> QED BY <2>2, <2>3
<1> QED BY <1>1, <1>2, AnnouncedInit, AnnouncedStep, MissStep, PTL DEF Spec

-----------------------------------------------------------------------------
(* What a request works out.                                                *)

(* Induction: of the numbers that a fact fails for, one would be the least. *)
LEMMA LeastNumber ==
  ASSUME NEW T \in SUBSET Nat, T # {}
  PROVE  \E m \in T : \A k \in T : m =< k
<1> DEFINE R == {ss \in Nat \X Nat : ss[1] < ss[2]}
<1>1. IsWellFoundedOn(R, Nat)
  BY NatLessThanWellFounded DEF OpToRel
<1>2. PICK m \in T : \A k \in T : ~(<<k, m>> \in R)
  BY <1>1, WFMin, Zenon
<1>3. \A k \in T : ~(k < m)
  BY <1>2
<1> QED BY <1>3

(* A level is worked out from those before it.                              *)
LEMMA DeeperLocal ==
  ASSUME NEW v, NEW present, NEW d \in Nat, NEW g, NEW h, \A e \in 0..(d - 1) : g[e] = h[e]
  PROVE  Deeper(g, d, v, present) = Deeper(h, d, v, present)
<1>1. CASE d = 0
  BY <1>1 DEF Deeper
<1>2. CASE d # 0
  <2>1. d - 1 \in 0..(d - 1)
    BY <1>2
  <2>2. {g[e] : e \in 0..(d - 1)} = {h[e] : e \in 0..(d - 1)}
    OBVIOUS
  <2>3. g[d - 1] = h[d - 1]
    BY <2>1
  <2> HIDE DEF Deeper
  <2> QED BY <1>2, <2>2, <2>3 DEF Deeper
<1> QED BY <1>1, <1>2

(* And so there are levels as Resolve says, however deep it goes.           *)
Levels(g, k, v, present) == g = [d \in 0..k |-> Deeper(g, d, v, present)]
LEMMA LevelsThere ==
  ASSUME NEW v, NEW present
  PROVE  \A k \in Nat : \E g : Levels(g, k, v, present)
<1> DEFINE T == {k \in Nat : ~\E g : Levels(g, k, v, present)}
<1> SUFFICES ASSUME T # {} PROVE FALSE
  OBVIOUS
<1>1. PICK m \in T : \A k \in T : m =< k
  BY LeastNumber
<1>2. m \in Nat /\ ~\E g : Levels(g, m, v, present)
  BY <1>1
<1>3. CASE m = 0
  <2> DEFINE g == [d \in 0..0 |-> {v}]
  <2>1. \A d \in 0..0 : g[d] = Deeper(g, d, v, present)
    BY DEF Deeper
  <2>2. g = [d \in 0..0 |-> Deeper(g, d, v, present)]
    <3> HIDE DEF Deeper
    <3>1. g = [d \in 0..0 |-> g[d]]
      OBVIOUS
    <3> HIDE DEF g
    <3> QED BY <2>1, <3>1
  <2> QED BY <1>2, <1>3, <2>2 DEF Levels
<1>4. CASE m # 0
  <2>1. m - 1 \in Nat /\ m - 1 \notin T
    BY <1>1, <1>2, <1>4
  <2>2. PICK h : Levels(h, m - 1, v, present)
    BY <2>1
  <2> DEFINE g == [d \in 0..m |-> IF d = m THEN Deeper(h, m, v, present) ELSE h[d]]
  <2>3. \A e \in 0..(m - 1) : g[e] = h[e]
    BY <1>2
  <2>4. g = [d \in 0..m |-> g[d]]
    OBVIOUS
  <2>5. g[m] = Deeper(h, m, v, present)
    BY <1>2
  <2> HIDE DEF g
  <2>6. ASSUME NEW d \in 0..m PROVE g[d] = Deeper(g, d, v, present)
    <3>1. d \in Nat /\ \A e \in 0..(d - 1) : g[e] = h[e]
      BY <1>2, <2>3
    <3>2. Deeper(g, d, v, present) = Deeper(h, d, v, present)
      BY <3>1, DeeperLocal
    <3>3. CASE d = m
      BY <2>5, <3>2, <3>3
    <3>4. CASE d # m
      <4>1. d \in 0..(m - 1)
        BY <1>2, <3>4
      <4>2. h[d] = Deeper(h, d, v, present)
        BY <2>2, <4>1 DEF Levels
      <4> QED BY <2>3, <3>2, <4>1, <4>2
    <3> QED BY <3>3, <3>4
  <2>7. g = [d \in 0..m |-> Deeper(g, d, v, present)]
    BY <2>4, <2>6
  <2> QED BY <1>2, <2>7 DEF Levels
<1> QED BY <1>3, <1>4

LEMMA ResolveIs ==
  ASSUME NEW v, NEW present
  PROVE  Levels(Resolve(v, present), MaxDepth, v, present)
<1> DEFINE P(g) == Levels(g, MaxDepth, v, present)
<1>1. Resolve(v, present) = CHOOSE g : g = [d \in 0..MaxDepth |-> Deeper(g, d, v, present)]
  BY DEF Resolve
<1>2. Resolve(v, present) = CHOOSE g : P(g)
  BY <1>1 DEF Levels
<1>3. \E g : P(g)
  BY LevelsThere, LimitAssumption
<1> HIDE DEF P
<1>4. P(Resolve(v, present))
  BY <1>2, <1>3
<1> QED BY <1>4 DEF P

(* What ResolveInstall chooses: the version that was asked for and the      *)
(* latest ones of other projects, none of them present, each of them once,  *)
(* and all that the levels but the last require.                            *)
LEMMA ResolveChooses ==
  ASSUME NEW v \in Versions, NEW present
  PROVE  LET level == Resolve(v, present) IN
         /\ level[0] = {v}
         /\ \A d \in 0..MaxDepth : level[d] \subseteq Versions
         /\ \A d \in 1..MaxDepth : \A w \in level[d] :
              /\ Project[w] \notin present
              /\ \A e \in 0..(d - 1) : \A x \in level[e] : Project[x] # Project[w]
         /\ \A d \in 0..(MaxDepth - 1) : \A w \in level[d] : \A p \in Deps[w] :
              \/ p \in present \/ Latest[p] \in level[d + 1]
              \/ \E e \in 0..d : \E x \in level[e] : Project[x] = p
<1> DEFINE level == Resolve(v, present)
<1>0. /\ MaxDepth \in Nat
      /\ \A p \in Projects : Latest[p] \in Versions /\ Project[Latest[p]] = p
      /\ \A w \in Versions : Deps[w] \subseteq Projects
  BY LimitAssumption, CatalogAssumption
<1>1. \A d \in 0..MaxDepth : level[d] = Deeper(level, d, v, present)
  <2>1. Levels(level, MaxDepth, v, present)
    BY ResolveIs
  <2> HIDE DEF level
  <2> QED BY <2>1 DEF Levels
<1> HIDE DEF level
<1>2. level[0] = {v}
  <2>1. 0 \in 0..MaxDepth
    BY <1>0
  <2> QED BY <1>1, <2>1 DEF Deeper
<1>3. ASSUME NEW d \in 1..MaxDepth
      PROVE  level[d] = {Latest[p] : p \in (UNION {Deps[w] : w \in level[d - 1]})
                           \ (ProjectsIn(UNION {level[e] : e \in 0..(d - 1)}) \cup present)}
  <2>1. d \in 0..MaxDepth /\ d # 0
    BY <1>0
  <2> QED BY <1>1, <2>1 DEF Deeper
<1>4. \A d \in 0..MaxDepth : level[d] \subseteq Versions
  <2> DEFINE T == {d \in 0..MaxDepth : ~(level[d] \subseteq Versions)}
  <2> SUFFICES ASSUME T # {} PROVE FALSE
    OBVIOUS
  <2>1. T \in SUBSET Nat
    OBVIOUS
  <2>2. PICK m \in T : \A k \in T : m =< k
    BY <2>1, LeastNumber
  <2>3. m \in 1..MaxDepth /\ m - 1 \in 0..MaxDepth /\ m - 1 \notin T
    BY <1>0, <1>2, <2>1, <2>2
  <2>4. level[m - 1] \subseteq Versions
    BY <2>3
  <2>5. level[m] \subseteq Versions
    <3>1. \A w \in level[m - 1] : Deps[w] \subseteq Projects
      BY <1>0, <2>4
    <3>2. ASSUME NEW w \in level[m] PROVE w \in Versions
      <4> DEFINE some == UNION {Deps[x] : x \in level[m - 1]}
                 others == ProjectsIn(UNION {level[e] : e \in 0..(m - 1)}) \cup present
      <4>0. level[m] = {Latest[p] : p \in some \ others}
        BY <1>3, <2>3
      <4>1. PICK p \in some : w = Latest[p]
        <5> HIDE DEF some, others
        <5> QED BY <4>0
      <4>2. p \in Projects
        BY <3>1
      <4> QED BY <1>0, <4>1, <4>2
    <3> QED BY <3>2
  <2> QED BY <2>2, <2>5
<1>5. ASSUME NEW d \in 1..MaxDepth, NEW w \in level[d]
      PROVE  Project[w] \notin present
             /\ \A e \in 0..(d - 1) : \A x \in level[e] : Project[x] # Project[w]
  <2>1. PICK p \in (UNION {Deps[x] : x \in level[d - 1]})
                     \ (ProjectsIn(UNION {level[e] : e \in 0..(d - 1)}) \cup present) :
          w = Latest[p]
    BY <1>3
  <2>2. d - 1 \in 0..MaxDepth
    BY <1>0
  <2>3. p \in Projects
    BY <1>0, <1>4, <2>1, <2>2
  <2>4. Project[w] = p
    BY <1>0, <2>1, <2>3
  <2> QED BY <2>1, <2>4 DEF ProjectsIn
<1>6. ASSUME NEW d \in 0..(MaxDepth - 1), NEW w \in level[d], NEW p \in Deps[w], p \notin present,
             Latest[p] \notin level[d + 1]
      PROVE  \E e \in 0..d : \E x \in level[e] : Project[x] = p
  <2>1. d + 1 \in 1..MaxDepth /\ (d + 1) - 1 = d
    BY <1>0
  <2> DEFINE before == ProjectsIn(UNION {level[e] : e \in 0..d})
             wanted == UNION {Deps[x] : x \in level[d]}
  <2>2. level[d + 1] = {Latest[q] : q \in wanted \ (before \cup present)}
    BY <1>3, <2>1
  <2>3. p \in wanted
    BY <1>6
  <2>4. p \in before
    <3> HIDE DEF before, wanted
    <3> QED BY <1>6, <2>2, <2>3
  <2> QED BY <2>4 DEF ProjectsIn
<1> QED BY <1>2, <1>4, <1>5, <1>6 DEF level

(* The rounds of resolveJarDependencies, in the same way.                   *)
JarRounds(g, k, plan, found) ==
  g = [i \in 0..k |-> IF i = 0 THEN plan ELSE MoreJars(g[i - 1], found)]
LEMMA JarRoundsThere ==
  ASSUME NEW plan, NEW found
  PROVE  \A k \in Nat : \E g : JarRounds(g, k, plan, found)
<1> DEFINE T == {k \in Nat : ~\E g : JarRounds(g, k, plan, found)}
<1> SUFFICES ASSUME T # {} PROVE FALSE
  OBVIOUS
<1>1. PICK m \in T : \A k \in T : m =< k
  BY LeastNumber
<1>2. m \in Nat /\ ~\E g : JarRounds(g, m, plan, found)
  BY <1>1
<1>3. CASE m = 0
  <2> DEFINE g == [i \in 0..0 |-> plan]
  <2>1. g = [i \in 0..0 |-> IF i = 0 THEN plan ELSE MoreJars(g[i - 1], found)]
    OBVIOUS
  <2> QED BY <1>2, <1>3, <2>1 DEF JarRounds
<1>4. CASE m # 0
  <2>1. m - 1 \in Nat /\ m - 1 \notin T
    BY <1>1, <1>2, <1>4
  <2>2. PICK h : JarRounds(h, m - 1, plan, found)
    BY <2>1
  <2> DEFINE next(f, i) == IF i = 0 THEN plan ELSE MoreJars(f[i - 1], found)
             g == [i \in 0..m |-> IF i = m THEN MoreJars(h[m - 1], found) ELSE h[i]]
  <2>3. g = [i \in 0..m |-> g[i]] /\ g[m] = MoreJars(h[m - 1], found)
        /\ \A i \in 0..(m - 1) : g[i] = h[i]
    BY <1>2
  <2> HIDE DEF g
  <2>4. ASSUME NEW i \in 0..m PROVE g[i] = next(g, i)
    <3>1. CASE i = m
      <4>1. m - 1 \in 0..(m - 1)
        BY <1>2, <1>4
      <4> QED BY <1>4, <2>3, <3>1, <4>1
    <3>2. CASE i # m /\ i = 0
      <4>1. i \in 0..(m - 1)
        BY <1>2, <3>2
      <4> QED BY <2>2, <2>3, <3>2, <4>1 DEF JarRounds
    <3>3. CASE i # m /\ i # 0
      <4>1. i \in 0..(m - 1) /\ i - 1 \in 0..(m - 1)
        BY <1>2, <3>3
      <4>2. h[i] = MoreJars(h[i - 1], found)
        BY <2>2, <3>3, <4>1 DEF JarRounds
      <4> QED BY <2>3, <3>3, <4>1, <4>2
    <3> QED BY <3>1, <3>2, <3>3
  <2>5. g = [i \in 0..m |-> next(g, i)]
    <3> HIDE DEF next
    <3> QED BY <2>3, <2>4
  <2> QED BY <1>2, <2>5 DEF JarRounds
<1> QED BY <1>3, <1>4

(* What resolveJarDependencies makes of a plan: that plan, and the latest   *)
(* versions of projects that are neither in it nor in the directory, under  *)
(* names that are free.                                                     *)
LEMMA WithJarsAdds ==
  ASSUME NEW plan \in SUBSET Versions, NEW found
  PROVE  /\ plan \subseteq WithJars(plan, found) /\ WithJars(plan, found) \subseteq Versions
         /\ \A w \in WithJars(plan, found) \ plan :
              /\ files[Jar(File[w])] = None
              /\ Project[w] \notin ProjectsIn(plan) \cup ProjectsIn(Listed)
<1> DEFINE P(g) == JarRounds(g, MaxRounds, plan, found)
           round == CHOOSE g : P(g)
           Good(vs) == /\ plan \subseteq vs /\ vs \subseteq Versions
                       /\ \A w \in vs \ plan :
                            /\ files[Jar(File[w])] = None
                            /\ Project[w] \notin ProjectsIn(plan) \cup ProjectsIn(Listed)
<1>0. /\ MaxRounds \in Nat
      /\ \A p \in Projects : Latest[p] \in Versions /\ Project[Latest[p]] = p
      /\ \A w \in Versions : Needs[w] \subseteq Projects
  BY LimitAssumption, CatalogAssumption
<1>1. WithJars(plan, found) = round[MaxRounds]
  BY DEF WithJars, JarRounds
<1>2. P(round)
  <2>1. \E g : P(g)
    BY <1>0, JarRoundsThere
  <2> HIDE DEF P
  <2> QED BY <2>1
<1> HIDE DEF round
<1>3. /\ round[0] = plan
      /\ \A i \in 1..MaxRounds : round[i] = MoreJars(round[i - 1], found)
  BY <1>0, <1>2 DEF JarRounds
<1>4. ASSUME NEW old, Good(old) PROVE Good(MoreJars(old, found))
  <2> DEFINE wanted == (UNION {Needs[v] : v \in old}) \ (ProjectsIn(old) \cup ProjectsIn(Listed))
             there == {q \in wanted \cap found : files[Jar(File[Latest[q]])] = None}
             new == {Latest[p] : p \in there}
  <2>1. MoreJars(old, found) = old \cup new \/ MoreJars(old, found) = old
    BY DEF MoreJars
  <2>2. ASSUME NEW w \in new
        PROVE  /\ w \in Versions /\ files[Jar(File[w])] = None
               /\ Project[w] \notin ProjectsIn(plan) \cup ProjectsIn(Listed)
    <3>1. PICK p \in there : w = Latest[p]
      OBVIOUS
    <3>2. /\ files[Jar(File[w])] = None /\ p \notin ProjectsIn(old) \cup ProjectsIn(Listed)
          /\ p \in Projects
      BY <1>0, <1>4, <3>1
    <3>3. ProjectsIn(plan) \subseteq ProjectsIn(old)
      BY <1>4 DEF ProjectsIn
    <3>4. w \in Versions /\ Project[w] = p
      BY <1>0, <3>1, <3>2
    <3> QED BY <3>2, <3>3, <3>4
  <2> HIDE DEF new
  <2> QED BY <1>4, <2>1, <2>2
<1>5. Good(plan)
  OBVIOUS
<1> HIDE DEF Good
<1>6. \A i \in 0..MaxRounds : Good(round[i])
  <2> DEFINE T == {i \in 0..MaxRounds : ~Good(round[i])}
  <2> SUFFICES ASSUME T # {} PROVE FALSE
    OBVIOUS
  <2>1. T \in SUBSET Nat
    OBVIOUS
  <2>2. PICK m \in T : \A k \in T : m =< k
    BY <2>1, LeastNumber
  <2>3. m \in 1..MaxRounds /\ m - 1 \in 0..MaxRounds /\ m - 1 \notin T
    BY <1>0, <1>3, <1>5, <2>1, <2>2
  <2>4. Good(MoreJars(round[m - 1], found))
    BY <1>4, <2>3
  <2> QED BY <1>3, <2>2, <2>3, <2>4
<1>7. Good(WithJars(plan, found))
  BY <1>0, <1>1, <1>6
<1> QED BY <1>7 DEF Good

(* A chain of requirements through what is installed passes only levels     *)
(* that ResolveInstall chose, one at a time.                                *)
LEMMA LeadsThrough ==
  ASSUME NEW v \in Versions, NEW present, present \subseteq ProjectsIn(Listed), NEW found,
         NEW chosen, chosen = UNION {Resolve(v, present)[d] : d \in 0..MaxDepth},
         NEW vs, vs = WithJars(chosen, found), NEW w, Leads(v, vs, w)
  PROVE  \E d \in 0..(MaxDepth - 1) : w \in Resolve(v, present)[d]
<1> DEFINE level == Resolve(v, present)
<1>0. MaxDepth \in Nat /\ Latest \in [Projects -> Versions]
  BY LimitAssumption, CatalogAssumption
<1>1. /\ level[0] = {v}
      /\ \A d \in 0..MaxDepth : level[d] \subseteq Versions
      /\ \A d \in 1..MaxDepth : \A x \in level[d] :
           /\ Project[x] \notin present
           /\ \A e \in 0..(d - 1) : \A y \in level[e] : Project[y] # Project[x]
      /\ \A d \in 0..(MaxDepth - 1) : \A x \in level[d] : \A p \in Deps[x] :
           \/ p \in present \/ Latest[p] \in level[d + 1]
           \/ \E e \in 0..d : \E y \in level[e] : Project[y] = p
  BY ResolveChooses
<1>2. chosen = UNION {level[d] : d \in 0..MaxDepth}
  OBVIOUS
<1> HIDE DEF level
<1>11. \A x \in chosen : \E d \in 0..MaxDepth : x \in level[d]
  BY <1>2, Zenon
<1>3. chosen \subseteq Versions
  BY <1>1, <1>2
<1>4. \A x \in vs : x \in chosen \/ Project[x] \notin ProjectsIn(chosen) \cup ProjectsIn(Listed)
  <2>1. \A x \in WithJars(chosen, found) \ chosen :
           Project[x] \notin ProjectsIn(chosen) \cup ProjectsIn(Listed)
    <3> HIDE <1>1, <1>11
    <3> QED BY <1>3, WithJarsAdds
  <2> QED BY <2>1
<1>5. PICK k \in 0..(MaxDepth - 1) : \E path \in [0..k -> vs] :
        /\ path[0] = v /\ path[k] = w
        /\ \A i \in 1..k : \E p \in Deps[path[i - 1]] : path[i] = Latest[p]
  BY DEF Leads
<1>6. PICK path \in [0..k -> vs] :
        /\ path[0] = v /\ path[k] = w
        /\ \A i \in 1..k : \E p \in Deps[path[i - 1]] : path[i] = Latest[p]
  BY <1>5
<1> DEFINE Near(i) == \E d \in 0..i : path[i] \in level[d]
<1>7. Near(0)
  BY <1>1, <1>6
<1>8. ASSUME NEW i \in 1..k, Near(i - 1) PROVE Near(i)
  <2>0. k \in Nat /\ i - 1 \in 0..(MaxDepth - 1) /\ path[i] \in vs /\ k < MaxDepth
    BY <1>0, <1>6
  <2>1. PICK d \in 0..(i - 1) : path[i - 1] \in level[d]
    BY <1>8
  <2>2. PICK p \in Deps[path[i - 1]] : path[i] = Latest[p]
    BY <1>6
  <2>3. d \in 0..(MaxDepth - 1) /\ d \in 0..MaxDepth /\ d + 1 \in 0..i
    BY <1>0, <2>0
  <2>4. p \in Projects /\ Project[path[i]] = p
    BY <1>1, <2>1, <2>2, <2>3, CatalogAssumption
  <2>5. CASE Latest[p] \in level[d + 1]
    BY <2>2, <2>3, <2>5
  <2>6. CASE p \in present
    <3>1. path[i] \in chosen
      BY <1>4, <2>0, <2>4, <2>6
    <3>2. PICK e \in 0..MaxDepth : path[i] \in level[e]
      BY <1>11, <3>1
    <3>3. e = 0
      BY <1>1, <2>4, <2>6, <3>2
    <3> QED BY <2>0, <3>2, <3>3
  <2>7. CASE \E e \in 0..d : \E y \in level[e] : Project[y] = p
    <3>0. PICK e \in 0..d : \E y \in level[e] : Project[y] = p
      BY <2>7
    <3>1. PICK y \in level[e] : Project[y] = p
      BY <3>0
    <3>2. e \in 0..MaxDepth /\ y \in chosen
      <4>1. e \in 0..MaxDepth
        BY <1>0, <2>3, <3>0
      <4> QED BY <1>2, <4>1
    <3>3. path[i] \in chosen
      BY <1>4, <2>0, <2>4, <3>1, <3>2 DEF ProjectsIn
    <3>4. PICK c \in 0..MaxDepth : path[i] \in level[c]
      BY <1>11, <3>3
    <3>5. c =< e
      <4>1. SUFFICES ASSUME e < c PROVE FALSE
        BY <3>2, <3>4
      <4>2. c \in 1..MaxDepth /\ e \in 0..(c - 1)
        BY <3>2, <3>4, <4>1
      <4> QED BY <1>1, <2>4, <3>1, <3>4, <4>2
    <3>6. c \in 0..i
      BY <2>0, <2>3, <3>1, <3>4, <3>5
    <3> QED BY <3>4, <3>6
  <2> QED BY <1>1, <2>1, <2>2, <2>3, <2>5, <2>6, <2>7
<1> HIDE DEF Near
<1>9. Near(k)
  <2> DEFINE T == {i \in 0..k : ~Near(i)}
  <2> SUFFICES ASSUME T # {} PROVE FALSE
    BY <1>0
  <2>0. k \in Nat
    BY <1>0
  <2>1. T \in SUBSET Nat
    BY <2>0
  <2>2. PICK m \in T : \A j \in T : m =< j
    BY <2>1, LeastNumber
  <2>3. m \in 1..k /\ m - 1 \in 0..k /\ m - 1 \notin T
    BY <2>0, <1>7, <2>1, <2>2
  <2> QED BY <1>8, <2>2, <2>3
<1>10. \E d \in 0..(MaxDepth - 1) : w \in level[d]
  BY <1>0, <1>6, <1>9 DEF Near
<1> QED BY <1>10 DEF level

-----------------------------------------------------------------------------
(* Requests for mods, one by one.                                           *)

Writing(r) == r.op \in {"install", "update"} /\ r.pc \in {"write", "stat", "unlink", "rename"}
Current(r) == IF Writing(r) THEN {r.cur} ELSE {}
OpsAt(step) ==
  CASE step = "idle" -> {"none"}
    [] step \in {"connect"} -> Ops \ {"none"}
    [] step \in {"list", "create", "stat", "unlink", "rename"} -> {"install", "update"}
    [] step = "write" -> {"install", "update", "put"}
    [] step = "old" -> {"update"}
    [] step \in {"check", "remove"} -> {"remove"}
    [] step = "open" -> {"put"}
    [] step = "drop" -> {"delete"}
    [] step = "move" -> {"rename"}
    [] step \in {"mark", "flag"} -> ModsOps

(* It is at a step of its handler, means every file it has to do with, and  *)
(* has a file open only to write to it.                                     *)
Sane(r) ==
  /\ r.op \in OpsAt(r.pc)
  /\ \A v \in r.plan \cup r.wrote \cup Current(r) : v \in Versions /\ File[v] \in r.names
  /\ r.op \in {"update", "remove", "rename"} => r.file \in r.names
  /\ r.op = "rename" => r.to \in r.names
  /\ r.op = "install" => r.ver \in Versions
  /\ r.left \subseteq r.names /\ r.names \subseteq Names
  /\ r.op \notin {"put", "delete"} => r.left = {}
  /\ r.at # Nowhere => r.pc = "write"
  /\ \A n \in Names : r.at = Part(n) => n \in r.names
  /\ r.pc = "idle" => r.names = {}
  /\ r.pc \in {"connect", "list"} => ~r.done /\ r.wrote = {}
  /\ r.op \notin {"install", "update"} => r.wrote = {}
  /\ r.pc \in {"old", "mark", "flag"} => r.plan = {} \/ r.wrote = {}

(* An update writes one file, and takes away another one at most.           *)
Updates(r) == r.op = "update" =>
  /\ r.pc = "create" => r.wrote = {} /\ \E v \in Versions : r.plan = {v}
  /\ Writing(r) => r.wrote = {} /\ r.plan = {}
  /\ r.pc = "old" => r.wrote = {r.cur} /\ File[r.cur] # r.file /\ r.plan = {}

AllSane == \A s \in Slots : Sane(req[s]) /\ Updates(req[s])

(* Two requests at once.                                                    *)

(* What two of them mean has clashed.                                       *)
Clashes == \A s, t \in Slots : s # t => req[s].names \cap req[t].names \subseteq clash

(* The temporary file of one that did not clash has what it wrote.          *)
Temporary(s) ==
  LET n == Name(s) IN
  Writing(req[s]) /\ n \notin clash =>
    IF req[s].pc = "write" THEN req[s].at = Part(n) /\ files[Part(n)] = Torn
    ELSE files[Part(n)] = req[s].cur
Temporaries == \A s \in Slots : Temporary(s)

(* Nobody has the jar open.                                                 *)
Closed(n) == \A t \in Slots : req[t].at # Jar(n)
Whole == \A n \in Names \ (loose \cup clash) : files[Jar(n)] # Torn /\ Closed(n)

(* What it wrote and did not replace is there.                              *)
Left(r, v) ==
  /\ v \in r.wrote /\ \A w \in r.wrote : File[w] = File[v] => w = v
  /\ \A w \in r.plan \cup Current(r) : File[w] # File[v]
Remains(s) == \A v \in Versions : Left(req[s], v) /\ File[v] \notin clash
  => files[Jar(File[v])] = v /\ Closed(File[v])
AllRemain == \A s \in Slots : Remains(s)

(* What is owed is there, and nobody means it.                              *)
Paid == \A n \in Names : owed[n] # None =>
  /\ files[Jar(n)] = owed[n] /\ Closed(n)
  /\ \A t \in Slots : n \notin req[t].names

-----------------------------------------------------------------------------
(* The places of files.                                                     *)

LEMMA PlacesAre ==
  /\ \A n \in Names : Jar(n) \in Places /\ Part(n) \in Places
  /\ \A n \in Names : Jar(n) # Nowhere /\ Part(n) # Nowhere
  /\ \A n, m \in Names : Jar(n) # Part(m)
  /\ \A n, m \in Names : (Jar(n) = Jar(m) => n = m) /\ (Part(n) = Part(m) => n = m)
BY DEF Jar, Part, Places, Nowhere

LEMMA FilesNamed ==
  /\ File \in [Versions -> Names] /\ Latest \in [Projects -> Versions]
  /\ None # Own /\ None # Torn /\ Own # Torn /\ {None, Own, Torn} \cap Versions = {}
  /\ Contents = Versions \cup {None, Own, Torn}
BY CatalogAssumption, ContentAssumption DEF Contents

(* Everywhere in dir as in the files, but for what is at p.                 *)
LEMMA RemovedIs ==
  ASSUME files \in [Places -> Contents], NEW p \in Places
  PROVE  /\ Removed(p) \in [Places -> Contents] /\ Removed(p)[p] = None
         /\ \A o \in Places : o # p => Removed(p)[o] = files[o]
BY FilesNamed DEF Removed

(* What a request is about, but for its handle and what it did.             *)
Like(r, x) ==
  /\ x.op = r.op /\ x.pc = r.pc /\ x.file = r.file /\ x.to = r.to /\ x.names = r.names
  /\ x.plan = r.plan /\ x.wrote = r.wrote /\ x.left = r.left /\ x.cur = r.cur /\ x.ver = r.ver

(* The types, but for the order in which they are given.                    *)
LEMMA ModsTypesAre ==
  ModsTypes <=>
    /\ files \in [Places -> Contents] /\ req \in [Slots -> Requests]
    /\ gs \in [state : {"Running", "Stopped"}, changed : Nat, restart : BOOLEAN]
    /\ pod \in [up : BOOLEAN, stamp : Nat, stale : BOOLEAN]
    /\ maint \in BOOLEAN /\ missed \in BOOLEAN
    /\ asked \in Nat /\ failures \in Nat /\ edits \in Nat
    /\ owed \in [Names -> Versions \cup {None}]
    /\ loose \subseteq Names /\ clash \subseteq Names
BY DEF ModsTypes

(* The steps a request goes through.                                        *)
LEMMA PcsNamed ==
  \A pc \in {"idle", "connect", "list", "create", "write", "stat", "unlink", "rename", "old", "mark",
             "flag", "check", "remove", "open", "drop", "move"} : pc \in PCs
BY DEF PCs

LEMMA NothingAsked == NoRequest \in Requests /\ Sane(NoRequest) /\ Updates(NoRequest)
<1>1. NoRequest \in Requests
  BY DEF NoRequest, Requests, Ops, PCs
<1>2. Updates(NoRequest)
  BY DEF NoRequest, Updates
<1>3. Sane(NoRequest)
  BY PlacesAre DEF NoRequest, Sane, OpsAt, Current, Writing
<1> QED BY <1>1, <1>2, <1>3

(* An SFTP call: what it does to the requests.                              *)
LEMMA Called ==
  ASSUME ModsTypes, NEW s \in Slots, NEW r \in Requests, NEW dir \in [Places -> Contents],
         NEW from \in Places \cup {Nowhere}, NEW to \in Places \cup {Nowhere},
         Call(s, r, dir, from, to)
  PROVE  /\ req' \in [Slots -> Requests] /\ pod' \in [up : BOOLEAN, stamp : Nat, stale : BOOLEAN]
         /\ files' = dir /\ UNCHANGED <<gs, maint, asked, edits>>
         /\ \A t \in Slots \ {s} :
              /\ Like(req[t], req'[t]) /\ req'[t].done = req[t].done
              /\ req'[t].at = IF req[t].at = from THEN to
                              ELSE IF req[t].at = to THEN Nowhere ELSE req[t].at
         /\ Like(r, req'[s]) /\ req'[s].at = r.at
         /\ (r.done => req'[s].done)
<1>0. req \in [Slots -> Requests] /\ pod \in [up : BOOLEAN, stamp : Nat, stale : BOOLEAN]
  BY ModsTypesAre
<1> DEFINE changed == \E n \in Names : dir[Jar(n)] # files[Jar(n)]
           at(t) == IF req[t].at = from THEN to ELSE IF req[t].at = to THEN Nowhere ELSE req[t].at
           mine == [r EXCEPT !.done = (r.done \/ changed)]
           still(t) == req[t].quiet /\ (t \notin Working \/ ~changed)
           theirs(t) == [req[t] EXCEPT !.at = at(t), !.quiet = still(t)]
<1>1. /\ files' = dir /\ UNCHANGED <<gs, maint, asked, edits>>
      /\ req' = [t \in Slots |-> IF t = s THEN mine ELSE theirs(t)]
      /\ pod' = [pod EXCEPT !.stale = @ \/ (changed /\ pod.up /\ r.op \in ModsOps)]
  BY DEF Call
<1>2. changed \in BOOLEAN
  OBVIOUS
<1> HIDE DEF changed
<1>3. /\ mine \in Requests /\ Like(r, mine) /\ mine.at = r.at
      /\ (r.done => mine.done)
  BY <1>2 DEF Requests, Like
<1>4. ASSUME NEW t \in Slots
      PROVE  /\ theirs(t) \in Requests /\ Like(req[t], theirs(t)) /\ theirs(t).at = at(t)
             /\ theirs(t).done = req[t].done
  <2>1. req[t] \in Requests /\ at(t) \in Places \cup {Nowhere}
    BY <1>0 DEF Requests
  <2>2. still(t) \in BOOLEAN
    OBVIOUS
  <2> HIDE DEF still, at
  <2>3. theirs(t) \in Requests
    BY <2>1, <2>2 DEF Requests
  <2>4. theirs(t).at = at(t) /\ theirs(t).done = req[t].done
    BY <2>1 DEF Requests
  <2>5. Like(req[t], theirs(t))
    BY <2>1 DEF Requests, Like
  <2> HIDE DEF theirs
  <2> QED BY <2>3, <2>4, <2>5
<1>5. pod' \in [up : BOOLEAN, stamp : Nat, stale : BOOLEAN]
  BY <1>0, <1>1, <1>2
<1> HIDE DEF mine, theirs
<1>6. req' \in [Slots -> Requests]
  BY <1>1, <1>3, <1>4
<1>7. req'[s] = mine /\ \A t \in Slots \ {s} : req'[t] = theirs(t)
  BY <1>1
<1> QED BY <1>1, <1>3, <1>4, <1>5, <1>6, <1>7

(* One that is as sane as another.                                          *)
LEMMA SaneLike ==
  ASSUME NEW r, NEW x, Sane(r), Updates(r), Like(r, x),
         x.at # Nowhere => r.at # Nowhere, \A n \in Names : x.at = Part(n) => n \in r.names,
         r.pc \in {"connect", "list"} => ~x.done
  PROVE  Sane(x) /\ Updates(x)
<1>1. Current(x) = Current(r) /\ Writing(x) = Writing(r)
  BY DEF Like, Current, Writing
<1>2. Sane(x)
  BY <1>1 DEF Sane, Like
<1>3. Updates(x)
  BY <1>1 DEF Updates, Like
<1> QED BY <1>2, <1>3

(* What a step of s may do to files and handles: those that s means, and    *)
(* the one that it has open.                                                *)
Local(s) ==
  /\ \A n \in Names : n \notin req[s].names =>
       /\ req[s].at # Jar(n) => files'[Jar(n)] = files[Jar(n)]
       /\ files'[Part(n)] = files[Part(n)]
       /\ \A t \in Slots : req'[t].at = Jar(n) => req[t].at = Jar(n)
       /\ \A t \in Slots \ {s} : req[t].at = Part(n) => req'[t].at = Part(n)
  /\ \A t \in Slots \ {s} : Like(req[t], req'[t])
  /\ req'[s].names \subseteq req[s].names

(* The files that an SFTP call of s changes, and where handles go.          *)
Inside(s, dir, from, to) ==
  /\ \A n \in Names : n \notin req[s].names =>
       /\ req[s].at # Jar(n) => dir[Jar(n)] = files[Jar(n)]
       /\ dir[Part(n)] = files[Part(n)]
       /\ to # Jar(n) /\ from # Part(n)
  /\ \A n \in Names : to # Part(n)
  /\ from = Nowhere => to = Nowhere

LEMMA CalledLocal ==
  ASSUME ModsTypes, AllSane, NEW s \in Slots, NEW r \in Requests, NEW dir \in [Places -> Contents],
         NEW from \in Places \cup {Nowhere}, NEW to \in Places \cup {Nowhere},
         Call(s, r, dir, from, to), Inside(s, dir, from, to),
         Sane(r), Updates(r), r.names \subseteq req[s].names, r.pc \notin {"connect", "list"},
         \A n \in Names : r.at = Jar(n) => n \in req[s].names
  PROVE  AllSane' /\ Local(s)
<1>1. /\ files' = dir
      /\ \A t \in Slots \ {s} :
              /\ Like(req[t], req'[t]) /\ req'[t].done = req[t].done
              /\ req'[t].at = IF req[t].at = from THEN to
                              ELSE IF req[t].at = to THEN Nowhere ELSE req[t].at
      /\ Like(r, req'[s]) /\ req'[s].at = r.at
  BY Called
<1>2. ASSUME NEW t \in Slots \ {s} PROVE Sane(req'[t]) /\ Updates(req'[t])
  <2>1. Sane(req[t]) /\ Updates(req[t])
    BY DEF AllSane
  <2>2. req'[t].at # Nowhere => req[t].at # Nowhere
    BY <1>1 DEF Inside
  <2>3. \A n \in Names : req'[t].at = Part(n) => n \in req[t].names
    BY <1>1, <2>1, PlacesAre DEF Inside, Sane
  <2>4. req[t].pc \in {"connect", "list"} => ~req'[t].done
    BY <1>1, <2>1 DEF Sane
  <2> QED BY <1>1, <2>1, <2>2, <2>3, <2>4, SaneLike
<1>3. Sane(req'[s]) /\ Updates(req'[s])
  <2>1. \A n \in Names : req'[s].at = Part(n) => n \in r.names
    BY <1>1 DEF Sane
  <2> QED BY <1>1, <2>1, SaneLike
<1>4. AllSane'
  BY <1>2, <1>3 DEF AllSane
<1>5. Local(s)
  <2>1. ASSUME NEW n \in Names, n \notin req[s].names
        PROVE  /\ req[s].at # Jar(n) => files'[Jar(n)] = files[Jar(n)]
               /\ files'[Part(n)] = files[Part(n)]
    BY <1>1, <2>1 DEF Inside
  <2>2. ASSUME NEW n \in Names, n \notin req[s].names, NEW t \in Slots, req'[t].at = Jar(n)
        PROVE  req[t].at = Jar(n)
    BY <1>1, <2>2, PlacesAre DEF Inside
  <2>3. ASSUME NEW n \in Names, n \notin req[s].names, NEW t \in Slots \ {s}, req[t].at = Part(n)
        PROVE  req'[t].at = Part(n)
    <3>1. from # Part(n) /\ to # Part(n)
      BY <2>3 DEF Inside
    <3> QED BY <1>1, <2>3, <3>1
  <2>4. req'[s].names \subseteq req[s].names
    BY <1>1 DEF Like
  <2> QED BY <1>1, <2>1, <2>2, <2>3, <2>4 DEF Local
<1> QED BY <1>4, <1>5

(* All that is said of the requests and of the files between them.          *)
Between == AllSane /\ Clashes /\ Temporaries /\ Whole /\ AllRemain /\ Paid

(* An SFTP call of s keeps it when s sees to its own files.                 *)
LEMMA LocalKept ==
  ASSUME ModsTypes, Between, NEW s \in Slots, Local(s), AllSane',
         clash \subseteq clash', loose \subseteq loose', owed' = owed,
         Temporary(s)', Remains(s)',
         \A n \in req[s].names \ (loose' \cup clash') : files'[Jar(n)] # Torn /\ Closed(n)'
  PROVE  Between'
<1>0. AllSane /\ Clashes /\ Temporaries /\ Whole /\ AllRemain /\ Paid
  BY DEF Between
<1>1. ASSUME NEW t \in Slots PROVE req'[t].names \subseteq req[t].names
  BY DEF Local, Like
<1>2. Clashes'
  BY <1>0, <1>1 DEF Clashes
<1>3. ASSUME NEW t \in Slots \ {s}, NEW n \in req[t].names, n \notin clash
      PROVE  n \notin req[s].names
  BY <1>0, <1>3 DEF Clashes
<1>4. ASSUME NEW t \in Slots \ {s} PROVE Temporary(t)'
  <2>1. Like(req[t], req'[t]) /\ Sane(req[t]) /\ Temporary(t)
    BY <1>0 DEF Local, AllSane, Temporaries
  <2>2. Writing(req'[t]) = Writing(req[t]) /\ Name(t)' = Name(t)
    BY <2>1 DEF Like, Writing, Name
  <2> SUFFICES ASSUME Writing(req[t]), Name(t) \notin clash'
               PROVE  IF req'[t].pc = "write"
                      THEN req'[t].at = Part(Name(t)) /\ files'[Part(Name(t))] = Torn
                      ELSE files'[Part(Name(t))] = req'[t].cur
    BY <2>2 DEF Temporary, Part
  <2>3. Name(t) \in req[t].names /\ Name(t) \in Names
    BY <2>1 DEF Sane, Current, Name
  <2>4. Name(t) \notin req[s].names /\ Name(t) \notin clash
    BY <2>3, <1>3
  <2>5. /\ files'[Part(Name(t))] = files[Part(Name(t))]
        /\ req[t].at = Part(Name(t)) => req'[t].at = Part(Name(t))
    BY <2>3, <2>4 DEF Local
  <2> QED BY <2>1, <2>4, <2>5 DEF Temporary, Like
<1>5. ASSUME NEW n \in Names, n \notin req[s].names, Closed(n)
      PROVE  files'[Jar(n)] = files[Jar(n)] /\ Closed(n)'
  <2>1. files'[Jar(n)] = files[Jar(n)]
    BY <1>5 DEF Local, Closed
  <2>2. \A t \in Slots : req'[t].at # Jar(n)
    BY <1>5 DEF Local, Closed
  <2> QED BY <2>1, <2>2 DEF Closed, Jar
<1>6. ASSUME NEW t \in Slots \ {s} PROVE Remains(t)'
  <2>1. Like(req[t], req'[t]) /\ Sane(req[t]) /\ Remains(t)
    BY <1>0 DEF Local, AllSane, AllRemain
  <2> SUFFICES ASSUME NEW v \in Versions, Left(req'[t], v), File[v] \notin clash'
               PROVE  files'[Jar(File[v])] = v /\ Closed(File[v])'
    BY DEF Remains, Jar, Closed
  <2>2. Left(req[t], v) /\ File[v] \in req[t].names /\ File[v] \in Names
    BY <2>1, FilesNamed DEF Like, Left, Current, Writing, Sane
  <2>3. files[Jar(File[v])] = v /\ Closed(File[v]) /\ File[v] \notin req[s].names
    BY <2>1, <2>2, <1>3 DEF Remains
  <2> QED BY <2>2, <2>3, <1>5
<1>7. Whole'
  <2> SUFFICES ASSUME NEW n \in Names \ (loose' \cup clash')
               PROVE  files'[Jar(n)] # Torn /\ Closed(n)'
    BY DEF Whole, Jar, Closed
  <2>1. CASE n \in req[s].names
    BY <2>1
  <2>2. CASE n \notin req[s].names
    BY <2>2, <1>0, <1>5 DEF Whole
  <2> QED BY <2>1, <2>2
<1>8. Paid'
  <2> SUFFICES ASSUME NEW n \in Names, owed[n] # None
               PROVE  /\ files'[Jar(n)] = owed[n] /\ Closed(n)'
                      /\ \A t \in Slots : n \notin req'[t].names
    BY DEF Paid, Jar, Closed
  <2>1. /\ files[Jar(n)] = owed[n] /\ Closed(n)
        /\ \A t \in Slots : n \notin req[t].names
    BY <1>0 DEF Paid
  <2> QED BY <2>1, <1>1, <1>5
<1>9. Temporaries' /\ AllRemain'
  BY <1>4, <1>6 DEF Temporaries, AllRemain
<1> QED BY <1>2, <1>7, <1>8, <1>9 DEF Between

(* One that goes on softly takes nothing up that it did not have.           *)
Softly(x, y) ==
  /\ y.names \subseteq x.names /\ y.at \in {x.at, Nowhere}
  /\ \A v \in Versions : Left(y, v) => Left(x, v)
  /\ Writing(y) => /\ Writing(x) /\ y.cur = x.cur
                   /\ x.pc = "write" <=> y.pc = "write"
                   /\ y.pc = "write" => y.at = x.at

LEMMA SoftlyKept ==
  ASSUME ModsTypes, Between, AllSane', \A t \in Slots : Softly(req[t], req'[t]),
         UNCHANGED <<files, loose, clash>>
  PROVE  /\ owed' = owed => Between'
         /\ Clashes' /\ Temporaries' /\ Whole' /\ AllRemain'
         /\ \A n \in Names : Closed(n) => Closed(n)'
<1>0. AllSane /\ Clashes /\ Temporaries /\ Whole /\ AllRemain /\ Paid
  BY DEF Between
<1>1. Clashes'
  BY <1>0 DEF Clashes, Softly
<1>2. ASSUME NEW n \in Names, Closed(n) PROVE Closed(n)'
  <2>1. \A t \in Slots : req'[t].at # Jar(n)
    BY <1>2, PlacesAre DEF Closed, Softly
  <2> QED BY <2>1 DEF Closed, Jar
<1>3. ASSUME NEW t \in Slots PROVE Temporary(t)'
  <2>1. Temporary(t) /\ Softly(req[t], req'[t])
    BY <1>0 DEF Temporaries
  <2> SUFFICES ASSUME Writing(req'[t]), File[req'[t].cur] \notin clash
               PROVE  IF req'[t].pc = "write"
                      THEN /\ req'[t].at = Part(File[req'[t].cur])
                           /\ files[Part(File[req'[t].cur])] = Torn
                      ELSE files[Part(File[req'[t].cur])] = req'[t].cur
    BY DEF Temporary, Name, Part
  <2> QED BY <2>1 DEF Temporary, Softly, Name
<1>4. ASSUME NEW t \in Slots PROVE Remains(t)'
  <2> SUFFICES ASSUME NEW v \in Versions, Left(req'[t], v), File[v] \notin clash
               PROVE  files[Jar(File[v])] = v /\ Closed(File[v])'
    BY DEF Remains, Jar, Closed
  <2>1. Left(req[t], v) /\ File[v] \in Names
    BY FilesNamed DEF Softly
  <2> QED BY <2>1, <1>0, <1>2 DEF AllRemain, Remains
<1>5. Whole'
  <2> SUFFICES ASSUME NEW n \in Names \ (loose \cup clash)
               PROVE  files[Jar(n)] # Torn /\ Closed(n)'
    BY DEF Whole, Jar, Closed
  <2> QED BY <1>0, <1>2 DEF Whole
<1>6. ASSUME owed' = owed PROVE Paid'
  <2> SUFFICES ASSUME NEW n \in Names, owed[n] # None
               PROVE  /\ files[Jar(n)] = owed[n] /\ Closed(n)'
                      /\ \A t \in Slots : n \notin req'[t].names
    BY <1>6 DEF Paid, Jar, Closed
  <2> QED BY <1>0, <1>2 DEF Paid, Softly
<1>7. Temporaries' /\ AllRemain'
  BY <1>3, <1>4 DEF Temporaries, AllRemain
<1> QED BY <1>1, <1>2, <1>5, <1>6, <1>7 DEF Between

(* The end of a request is soft, and so is what leaves it as it is.         *)
LEMMA SoftEnds ==
  ASSUME NEW x PROVE Softly(x, NoRequest)
BY DEF Softly, NoRequest, Left, Writing

LEMMA SoftLike ==
  ASSUME NEW x, NEW y, Like(x, y), y.at = x.at PROVE Softly(x, y)
<1>1. Current(y) = Current(x) /\ Writing(y) = Writing(x)
  BY DEF Like, Current, Writing
<1> QED BY <1>1 DEF Softly, Like, Left

(* s means to touch the names ns, and has done nothing yet.                 *)
LEMMA MeansKept ==
  ASSUME ModsTypes, Between, NEW s \in Slots, NEW r, Becomes(s, r), NEW ns, Means(s, ns),
         UNCHANGED <<files, loose>>, r.names \subseteq req[s].names \cup ns,
         Sane(r), Updates(r), ~Writing(r), r.wrote = {}, r.at = Nowhere
  PROVE  Between'
<1>0. AllSane /\ Clashes /\ Temporaries /\ Whole /\ AllRemain /\ Paid
  BY DEF Between
<1>1. req'[s] = r /\ \A t \in Slots \ {s} : req'[t] = req[t]
  BY ModsTypesAre DEF Becomes
<1>2. /\ clash' = clash \cup (ns \cap Meant(s))
      /\ owed' = [n \in Names |-> IF n \in ns THEN None ELSE owed[n]]
  BY DEF Means
<1>3. AllSane'
  BY <1>0, <1>1 DEF AllSane
<1>4. Clashes'
  <2>1. ASSUME NEW t \in Slots \ {s}
        PROVE  r.names \cap req[t].names \subseteq clash'
    <3>1. req[s].names \cap req[t].names \subseteq clash
      BY <1>0 DEF Clashes
    <3>2. req[t].names \subseteq Meant(s)
      BY DEF Meant
    <3> QED BY <1>2, <3>1, <3>2
  <2>2. ASSUME NEW t \in Slots, NEW u \in Slots, t # u
        PROVE  req'[t].names \cap req'[u].names \subseteq clash'
    <3>1. CASE t = s
      BY <3>1, <1>1, <2>1, <2>2
    <3>2. CASE u = s
      BY <3>2, <1>1, <2>1, <2>2
    <3>3. CASE t # s /\ u # s
      BY <3>3, <1>0, <1>1, <1>2, <2>2 DEF Clashes
    <3> QED BY <3>1, <3>2, <3>3
  <2> QED BY <2>2 DEF Clashes
<1>5. ASSUME NEW n \in Names, Closed(n) PROVE Closed(n)'
  <2>1. \A t \in Slots : req'[t].at # Jar(n)
    BY <1>1, <1>5, PlacesAre DEF Closed
  <2> QED BY <2>1 DEF Closed, Jar
<1>6. ASSUME NEW t \in Slots PROVE Temporary(t)'
  <2>1. CASE t = s
    BY <2>1, <1>1 DEF Temporary
  <2>2. CASE t # s
    <3>1. Temporary(t) /\ req'[t] = req[t] /\ clash \subseteq clash' /\ files' = files
      BY <1>0, <1>1, <1>2, <2>2 DEF Temporaries
    <3> QED BY <3>1 DEF Temporary, Name, Part
  <2> QED BY <2>1, <2>2
<1>7. ASSUME NEW t \in Slots PROVE Remains(t)'
  <2> SUFFICES ASSUME NEW v \in Versions, Left(req'[t], v), File[v] \notin clash'
               PROVE  files[Jar(File[v])] = v /\ Closed(File[v])'
    BY DEF Remains, Jar, Closed
  <2>1. t # s
    BY <1>1 DEF Left
  <2>2. Left(req[t], v) /\ File[v] \in Names /\ File[v] \notin clash
    BY <1>1, <1>2, <2>1, FilesNamed
  <2> QED BY <2>2, <1>0, <1>5 DEF AllRemain, Remains
<1>8. Whole'
  <2> SUFFICES ASSUME NEW n \in Names \ (loose \cup clash')
               PROVE  files[Jar(n)] # Torn /\ Closed(n)'
    BY DEF Whole, Jar, Closed
  <2> QED BY <1>0, <1>2, <1>5 DEF Whole
<1>9. Paid'
  <2> SUFFICES ASSUME NEW n \in Names, owed'[n] # None
               PROVE  /\ files[Jar(n)] = owed'[n] /\ Closed(n)'
                      /\ \A t \in Slots : n \notin req'[t].names
    BY DEF Paid, Jar, Closed
  <2>1. n \notin ns /\ owed'[n] = owed[n]
    BY <1>2
  <2>2. /\ files[Jar(n)] = owed[n] /\ Closed(n)
        /\ \A t \in Slots : n \notin req[t].names
    BY <1>0, <2>1 DEF Paid
  <2> QED BY <2>1, <2>2, <1>1, <1>5
<1>10. Temporaries' /\ AllRemain'
  BY <1>6, <1>7 DEF Temporaries, AllRemain
<1> QED BY <1>3, <1>4, <1>8, <1>9, <1>10 DEF Between

(* A mods request that changed files and is not over; while a server runs   *)
(* with older mods and nothing asks for a restart, there is one.            *)
Busy(r) == r.done /\ r.op \in ModsOps
Asks ==
  /\ pod.stamp =< gs.changed
  /\ pod.up /\ pod.stale /\ ~missed /\ gs.changed = pod.stamp => \E s \in Slots : Busy(req[s])

ModsInv == ModsTypes /\ Between /\ Asks

LEMMA AsksKept ==
  ASSUME ModsTypes, Asks, gs'.changed = gs.changed, pod' = pod, missed => missed',
         \A t \in Slots : Busy(req[t]) => Busy(req'[t]) \/ missed'
  PROVE  Asks'
BY DEF Asks, Busy, ModsOps

(* Where a handle is after an SFTP call.                                    *)
Moved(at, from, to) == IF at = from THEN to ELSE IF at = to THEN Nowhere ELSE at

(* What is asked of an SFTP call that leaves s with r, the directory as dir:*)
(* s stays sane and touches only what it means ...                          *)
Fits(s, r, dir, from, to) ==
  /\ r \in Requests /\ dir \in [Places -> Contents]
  /\ from \in Places \cup {Nowhere} /\ to \in Places \cup {Nowhere}
  /\ Inside(s, dir, from, to) /\ Sane(r) /\ Updates(r)
  /\ r.names \subseteq req[s].names /\ r.pc \notin {"connect", "list"}
  /\ \A n \in Names : r.at = Jar(n) => n \in req[s].names

(* ... and what is written, or was before, is whole and has nobody at it.   *)
Away(n, s, r, from, to) ==
  r.at # Jar(n) /\ \A t \in Slots \ {s} : Moved(req[t].at, from, to) # Jar(n)
Keeps(s, r, dir, from, to) ==
  /\ Writing(r) /\ File[r.cur] \notin clash' =>
       IF r.pc = "write" THEN r.at = Part(File[r.cur]) /\ dir[Part(File[r.cur])] = Torn
       ELSE dir[Part(File[r.cur])] = r.cur
  /\ \A v \in Versions : Left(r, v) /\ File[v] \notin clash' =>
       dir[Jar(File[v])] = v /\ Away(File[v], s, r, from, to)
  /\ \A n \in req[s].names \ (loose' \cup clash') :
       dir[Jar(n)] # Torn /\ Away(n, s, r, from, to)

LEMMA CallKept ==
  ASSUME ModsInv, NEW s \in Slots, NEW r, NEW dir, NEW from, NEW to, Call(s, r, dir, from, to),
         Fits(s, r, dir, from, to), Keeps(s, r, dir, from, to),
         clash \subseteq clash', loose \subseteq loose', clash' \cup loose' \subseteq Names,
         owed' = owed, failures' \in Nat, missed' \in BOOLEAN, missed => missed',
         Busy(req[s]) => Busy(r) \/ missed'
  PROVE  ModsInv'
<1>0. /\ ModsTypes /\ Between /\ Asks /\ AllSane
      /\ r \in Requests /\ dir \in [Places -> Contents]
      /\ from \in Places \cup {Nowhere} /\ to \in Places \cup {Nowhere}
  BY DEF ModsInv, Between, Fits
<1>1. /\ req' \in [Slots -> Requests] /\ pod' \in [up : BOOLEAN, stamp : Nat, stale : BOOLEAN]
      /\ files' = dir /\ UNCHANGED <<gs, maint, asked, edits>>
      /\ \A t \in Slots \ {s} :
           /\ Like(req[t], req'[t]) /\ req'[t].done = req[t].done
           /\ req'[t].at = Moved(req[t].at, from, to)
      /\ Like(r, req'[s]) /\ req'[s].at = r.at
      /\ (r.done => req'[s].done)
  BY <1>0, Called DEF Moved
<1>2. AllSane' /\ Local(s)
  BY <1>0, CalledLocal DEF Fits
<1>3. ModsTypes'
  BY <1>0, <1>1, ModsTypesAre DEF ModsTypes
<1>4. Temporary(s)'
  <2>1. Writing(req'[s]) = Writing(r) /\ req'[s].cur = r.cur /\ req'[s].pc = r.pc
    BY <1>1 DEF Like, Writing
  <2> QED BY <1>1, <2>1 DEF Keeps, Temporary, Name, Part
<1>5. ASSUME NEW n \in Names, Away(n, s, r, from, to)
      PROVE  Closed(n)'
  <2>1. \A t \in Slots : req'[t].at # Jar(n)
    BY <1>1, <1>5 DEF Away
  <2> QED BY <2>1 DEF Closed, Jar
<1>6. Remains(s)'
  <2> SUFFICES ASSUME NEW v \in Versions, Left(req'[s], v), File[v] \notin clash'
               PROVE  files'[Jar(File[v])] = v /\ Closed(File[v])'
    BY DEF Remains, Jar, Closed
  <2>1. Left(r, v) /\ File[v] \in Names
    BY <1>1, FilesNamed DEF Left, Like, Current, Writing
  <2> QED BY <2>1, <1>1, <1>5 DEF Keeps
<1>7. \A n \in req[s].names \ (loose' \cup clash') : files'[Jar(n)] # Torn /\ Closed(n)'
  <2>1. req[s].names \subseteq Names
    BY <1>0 DEF AllSane, Sane
  <2> QED BY <1>1, <1>5, <2>1 DEF Keeps
<1>8. Between'
  BY <1>0, <1>2, <1>4, <1>6, <1>7, LocalKept
<1>9. Asks'
  <2> DEFINE changed == \E n \in Names : dir[Jar(n)] # files[Jar(n)]
  <2>1. /\ pod' = [pod EXCEPT !.stale = @ \/ (changed /\ pod.up /\ r.op \in ModsOps)]
        /\ req'[s].done = (r.done \/ changed)
    BY <1>0, ModsTypesAre DEF Call, Requests
  <2>2. changed \in BOOLEAN
    OBVIOUS
  <2> HIDE DEF changed
  <2>3. /\ pod'.up = pod.up /\ pod'.stamp = pod.stamp /\ gs' = gs
        /\ pod'.stale = (pod.stale \/ (changed /\ pod.up /\ r.op \in ModsOps))
    BY <1>0, <1>1, <2>1, ModsTypesAre
  <2>4. \A t \in Slots : Busy(req[t]) => Busy(req'[t]) \/ missed'
    BY <1>1 DEF Busy, Like
  <2>5. changed /\ r.op \in ModsOps => Busy(req'[s])
    BY <1>1, <2>1 DEF Busy, Like
  <2>6. pod'.up /\ pod'.stale /\ ~missed' /\ gs.changed = pod.stamp =>
          \E t \in Slots : Busy(req'[t])
    BY <1>0, <2>3, <2>4, <2>5 DEF Asks
  <2>7. pod'.stamp =< gs'.changed
    BY <1>0, <2>3 DEF Asks
  <2> HIDE DEF Busy
  <2> QED BY <2>3, <2>6, <2>7 DEF Asks, Busy, ModsOps
<1> QED BY <1>3, <1>8, <1>9 DEF ModsInv

-----------------------------------------------------------------------------
(* The calls.                                                               *)

(* What is known of a request that is being handled.                        *)
LEMMA AboutRequest ==
  ASSUME ModsInv, NEW s \in Slots
  PROVE  /\ req \in [Slots -> Requests] /\ req[s] \in Requests /\ Sane(req[s]) /\ Updates(req[s])
         /\ files \in [Places -> Contents] /\ failures \in Nat /\ missed \in BOOLEAN
         /\ loose \subseteq Names /\ clash \subseteq Names
         /\ req[s].names \subseteq Names
         /\ \A n \in Names \ (loose \cup clash) :
              /\ files[Jar(n)] # Torn /\ \A t \in Slots : req[t].at # Jar(n)
         /\ \A v \in Versions : Left(req[s], v) /\ File[v] \notin clash =>
              files[Jar(File[v])] = v /\ \A t \in Slots : req[t].at # Jar(File[v])
         /\ Temporary(s)
         /\ \A t \in Slots \ {s} : \A n \in req[s].names \ clash :
              n \notin req[t].names /\ req[t].at # Part(n)
<1>0. ModsTypes /\ AllSane /\ Clashes /\ Temporaries /\ Whole /\ AllRemain
  BY DEF ModsInv, Between
<1>1. Sane(req[s]) /\ Updates(req[s]) /\ Temporary(s) /\ Remains(s)
  BY <1>0 DEF AllSane, Temporaries, AllRemain
<1>2. req[s].names \subseteq Names
  BY <1>1 DEF Sane
<1>3. ASSUME NEW t \in Slots \ {s}, NEW n \in req[s].names \ clash
      PROVE  n \notin req[t].names /\ req[t].at # Part(n)
  <2>1. n \notin req[t].names
    BY <1>0, <1>3 DEF Clashes
  <2> QED BY <1>0, <1>2, <2>1 DEF AllSane, Sane
<1>4. req \in [Slots -> Requests] /\ req[s] \in Requests /\ files \in [Places -> Contents]
      /\ failures \in Nat /\ missed \in BOOLEAN /\ loose \subseteq Names /\ clash \subseteq Names
  BY <1>0, ModsTypesAre
<1>5. \A n \in Names \ (loose \cup clash) :
         /\ files[Jar(n)] # Torn /\ \A t \in Slots : req[t].at # Jar(n)
  BY <1>0 DEF Whole, Closed
<1>6. \A v \in Versions : Left(req[s], v) /\ File[v] \notin clash =>
         files[Jar(File[v])] = v /\ \A t \in Slots : req[t].at # Jar(File[v])
  BY <1>1 DEF Remains, Closed
<1> QED BY <1>1, <1>2, <1>3, <1>4, <1>5, <1>6

LEMMA CreatePartKept ==
  ASSUME ModsInv, NEW s \in Slots, CreatePart(s)
  PROVE  ModsInv'
<1>1. PICK v \in req[s].plan :
        Call(s, [req[s] EXCEPT !.pc = "write", !.cur = v, !.plan = @ \ {v}, !.at = Part(File[v])],
             [files EXCEPT ![Part(File[v])] = Torn], Nowhere, Nowhere)
  BY DEF CreatePart
<1>2. req[s].pc = "create" /\ UNCHANGED <<failures, owed, loose, clash, missed>>
  BY DEF CreatePart, history
<1> DEFINE r == [req[s] EXCEPT !.pc = "write", !.cur = v, !.plan = @ \ {v}, !.at = Part(File[v])]
           dir == [files EXCEPT ![Part(File[v])] = Torn]
<1>3. /\ v \in Versions /\ File[v] \in req[s].names /\ File[v] \in Names
      /\ req[s].op \in {"install", "update"} /\ Part(File[v]) \in Places
      /\ \A w \in req[s].plan \cup req[s].wrote : w \in Versions /\ File[w] \in req[s].names
  BY <1>2, AboutRequest, PlacesAre DEF Sane, OpsAt
<1>4. /\ r \in Requests /\ r.op = req[s].op /\ r.pc = "write" /\ r.cur = v /\ r.at = Part(File[v])
      /\ r.plan = req[s].plan \ {v} /\ r.wrote = req[s].wrote /\ r.names = req[s].names
      /\ r.file = req[s].file /\ r.ver = req[s].ver /\ r.to = req[s].to /\ r.left = req[s].left
      /\ r.done = req[s].done
  <2>1. req[s] \in Requests
    BY AboutRequest
  <2>2. r \in Requests
    BY <1>3, <2>1, PcsNamed DEF Requests
  <2>3. /\ r.op = req[s].op /\ r.pc = "write" /\ r.cur = v /\ r.at = Part(File[v])
        /\ r.plan = req[s].plan \ {v} /\ r.wrote = req[s].wrote /\ r.names = req[s].names
    BY <2>1 DEF Requests
  <2>4. /\ r.file = req[s].file /\ r.ver = req[s].ver /\ r.to = req[s].to
        /\ r.left = req[s].left /\ r.done = req[s].done
    BY <2>1 DEF Requests
  <2> HIDE DEF r
  <2> QED BY <2>2, <2>3, <2>4
<1>5. /\ dir \in [Places -> Contents] /\ dir[Part(File[v])] = Torn
      /\ \A p \in Places : p # Part(File[v]) => dir[p] = files[p]
  BY <1>3, AboutRequest, FilesNamed
<1> HIDE DEF r, dir
<1>6. Inside(s, dir, Nowhere, Nowhere)
  BY <1>3, <1>5, PlacesAre DEF Inside
<1>7. Writing(r) /\ Current(r) = {v} /\ Current(req[s]) = {}
  BY <1>2, <1>3, <1>4 DEF Writing, Current
<1>8. Sane(r)
  BY <1>2, <1>3, <1>4, <1>7, AboutRequest, PlacesAre DEF Sane, OpsAt
<1>9. Updates(r)
  <2>1. Updates(req[s])
    BY AboutRequest
  <2> QED BY <1>1, <1>2, <1>4, <2>1 DEF Updates
<1>10. \A w \in Versions : Left(r, w) => Left(req[s], w)
  BY <1>4, <1>7 DEF Left
<1>11. \A n \in Names : dir[Jar(n)] = files[Jar(n)] /\ r.at # Jar(n)
  BY <1>3, <1>4, <1>5, PlacesAre
<1>12. \A n \in Names, t \in Slots :
          req[t].at # Jar(n) => Moved(req[t].at, Nowhere, Nowhere) # Jar(n)
  BY PlacesAre DEF Moved
<1>13. Busy(req[s]) => Busy(r)
  BY <1>4 DEF Busy
<1>14. \A w \in Versions : Left(r, w) /\ File[w] \notin clash' =>
           dir[Jar(File[w])] = w /\ Away(File[w], s, r, Nowhere, Nowhere)
  BY <1>2, <1>10, <1>11, <1>12, AboutRequest, FilesNamed DEF Away
<1>15. \A n \in req[s].names \ (loose' \cup clash') :
           dir[Jar(n)] # Torn /\ Away(n, s, r, Nowhere, Nowhere)
  BY <1>2, <1>11, <1>12, AboutRequest DEF Away
<1>16. Call(s, r, dir, Nowhere, Nowhere)
  BY <1>1 DEF r, dir
<1>17. clash' \cup loose' \subseteq Names /\ failures' \in Nat /\ missed' \in BOOLEAN
  BY <1>2, AboutRequest
<1>18. r.pc \notin {"connect", "list"} /\ r.names \subseteq req[s].names
  BY <1>4
<1>19. Fits(s, r, dir, Nowhere, Nowhere)
  BY <1>4, <1>5, <1>6, <1>8, <1>9, <1>11, <1>18 DEF Fits
<1>20. Keeps(s, r, dir, Nowhere, Nowhere)
  BY <1>4, <1>5, <1>14, <1>15 DEF Keeps
<1> QED BY <1>2, <1>13, <1>16, <1>17, <1>19, <1>20, CallKept

LEMMA WriteKept ==
  ASSUME ModsInv, NEW s \in Slots, Write(s)
  PROVE  ModsInv'
<1> DEFINE at == req[s].at
           r == [req[s] EXCEPT !.pc = IF req[s].op = "put" THEN "open" ELSE "stat", !.at = Nowhere]
<1>1. PICK dir :
        /\ Call(s, r, dir, Nowhere, Nowhere)
        /\ \/ at = Nowhere /\ dir = files
           \/ at # Nowhere /\ \E c \in {Content(s), Torn} :
                /\ dir = [files EXCEPT ![at] = c]
                /\ c = Content(s) \/ Shared(s) \/ files[at] \notin {Torn, Content(s)}
  <2>1. CASE at = Nowhere
    BY <2>1 DEF Write
  <2>2. CASE at # Nowhere
    BY <2>2 DEF Write
  <2> QED BY <2>1, <2>2
<1>2. req[s].pc = "write" /\ UNCHANGED <<failures, owed, loose, clash, missed>>
  BY DEF Write, history
<1>3. req[s].op \in {"install", "update", "put"} /\ at \in Places \cup {Nowhere}
  BY <1>2, AboutRequest DEF Sane, OpsAt, Requests
<1>4. /\ r \in Requests /\ r.op = req[s].op /\ r.pc \in {"open", "stat"} /\ r.at = Nowhere
      /\ r.pc = "open" <=> r.op = "put"
      /\ r.plan = req[s].plan /\ r.wrote = req[s].wrote /\ r.names = req[s].names
      /\ r.file = req[s].file /\ r.ver = req[s].ver /\ r.to = req[s].to /\ r.left = req[s].left
      /\ r.done = req[s].done /\ r.cur = req[s].cur
  <2> DEFINE next == IF req[s].op = "put" THEN "open" ELSE "stat"
             q == [req[s] EXCEPT !.pc = next, !.at = Nowhere]
  <2>1. req[s] \in Requests
    BY AboutRequest
  <2>2. next \in {"open", "stat"} /\ (next = "open" <=> req[s].op = "put")
    OBVIOUS
  <2> HIDE DEF next
  <2>3. q \in Requests
    BY <2>1, <2>2, PcsNamed DEF Requests
  <2>4. /\ q.op = req[s].op /\ q.pc = next /\ q.at = Nowhere
        /\ q.plan = req[s].plan /\ q.wrote = req[s].wrote /\ q.names = req[s].names
    BY <2>1 DEF Requests
  <2>5. /\ q.file = req[s].file /\ q.ver = req[s].ver /\ q.to = req[s].to
        /\ q.left = req[s].left /\ q.done = req[s].done /\ q.cur = req[s].cur
    BY <2>1 DEF Requests
  <2>6. r = q
    BY DEF next
  <2> HIDE DEF q, r
  <2> QED BY <2>2, <2>3, <2>4, <2>5, <2>6
<1>5. Writing(r) = Writing(req[s]) /\ Current(r) = Current(req[s])
      /\ (Writing(r) <=> r.op # "put")
  BY <1>2, <1>3, <1>4 DEF Writing, Current
<1>6. Writing(r) => r.cur \in Versions /\ File[r.cur] \in req[s].names /\ File[r.cur] \in Names
  BY <1>4, <1>5, AboutRequest DEF Current, Sane
<1>7. Content(s) \in Contents
  BY <1>3, <1>4, <1>5, <1>6, FilesNamed DEF Content, Downloaded
<1>8. /\ dir \in [Places -> Contents]
      /\ \A p \in Places : p # at => dir[p] = files[p]
      /\ at # Nowhere => dir[at] = Content(s) \/ Shared(s) \/ files[at] \notin {Torn, Content(s)}
  BY <1>1, <1>3, <1>7, AboutRequest, FilesNamed
<1> HIDE DEF r, at
<1>9. Sane(r)
  BY <1>2, <1>3, <1>4, <1>5, AboutRequest, PlacesAre DEF Sane, OpsAt
<1>10. Updates(r)
  BY <1>2, <1>3, <1>4, <1>5, AboutRequest DEF Updates
<1>11. Inside(s, dir, Nowhere, Nowhere)
  BY <1>3, <1>8, AboutRequest, PlacesAre DEF Inside, Sane, at
<1>12. ASSUME Writing(r), File[r.cur] \notin clash PROVE dir[Part(File[r.cur])] = r.cur
  <2>1. at = Part(File[r.cur]) /\ files[at] = Torn
    BY <1>2, <1>4, <1>5, <1>12, AboutRequest DEF Temporary, Name, at
  <2>2. ~Shared(s)
    BY <1>6, <1>12, <2>1, AboutRequest DEF Shared, at
  <2>3. Content(s) = r.cur
    BY <1>4, <1>5, <1>12 DEF Content, Downloaded
  <2>4. at # Nowhere
    BY <1>6, <1>12, <2>1, PlacesAre
  <2> QED BY <1>8, <2>1, <2>2, <2>3, <2>4
<1>13. \A w \in Versions : Left(r, w) => Left(req[s], w)
  BY <1>4, <1>5 DEF Left
<1>14. \A n \in Names : (\A t \in Slots : req[t].at # Jar(n)) =>
         dir[Jar(n)] = files[Jar(n)] /\ Away(n, s, r, Nowhere, Nowhere)
  BY <1>4, <1>8, PlacesAre DEF Moved, Away, at
<1>15. \A w \in Versions : Left(r, w) /\ File[w] \notin clash' =>
           dir[Jar(File[w])] = w /\ Away(File[w], s, r, Nowhere, Nowhere)
  BY <1>2, <1>13, <1>14, AboutRequest, FilesNamed
<1>16. \A n \in req[s].names \ (loose' \cup clash') :
           dir[Jar(n)] # Torn /\ Away(n, s, r, Nowhere, Nowhere)
  BY <1>2, <1>14, AboutRequest
<1>17. clash' \cup loose' \subseteq Names /\ failures' \in Nat /\ missed' \in BOOLEAN
  BY <1>2, AboutRequest
<1>18. /\ r.pc \notin {"connect", "list"} /\ r.names \subseteq req[s].names /\ r.pc # "write"
       /\ \A n \in Names : r.at # Jar(n)
       /\ Busy(req[s]) => Busy(r)
  BY <1>4, PlacesAre DEF Busy
<1>19. Fits(s, r, dir, Nowhere, Nowhere)
  BY <1>4, <1>8, <1>9, <1>10, <1>11, <1>18 DEF Fits
<1>20. Keeps(s, r, dir, Nowhere, Nowhere)
  BY <1>2, <1>12, <1>15, <1>16, <1>18 DEF Keeps
<1> QED BY <1>1, <1>2, <1>17, <1>18, <1>19, <1>20, CallKept

(* The removal of a jar that s means.                                       *)
LEMMA JarRemovedKept ==
  ASSUME ModsInv, NEW s \in Slots, NEW n \in req[s].names, NEW r \in Requests,
         Call(s, r, Removed(Jar(n)), Jar(n), Nowhere), UNCHANGED <<failures, history>>,
         Sane(r), Updates(r), r.names \subseteq req[s].names, r.pc \notin {"connect", "list"},
         r.at = Nowhere, Busy(req[s]) => Busy(r),
         Writing(r) => Writing(req[s]) /\ r.cur = req[s].cur /\ "write" \notin {r.pc, req[s].pc},
         \A v \in Versions : Left(r, v) => Left(req[s], v) /\ File[v] # n
  PROVE  ModsInv'
<1> DEFINE dir == Removed(Jar(n))
<1>0. n \in Names /\ Jar(n) \in Places
  BY AboutRequest, PlacesAre
<1>1. /\ dir \in [Places -> Contents] /\ dir[Jar(n)] = None
      /\ \A p \in Places : p # Jar(n) => dir[p] = files[p]
  BY <1>0, AboutRequest, RemovedIs
<1> HIDE DEF dir
<1>2. UNCHANGED <<failures, owed, loose, clash, missed>>
  BY DEF history
<1>3. \A m \in Names : dir[Part(m)] = files[Part(m)]
  BY <1>0, <1>1, PlacesAre
<1>4. \A m \in Names : m # n => dir[Jar(m)] = files[Jar(m)]
  BY <1>0, <1>1, PlacesAre
<1>5. Inside(s, dir, Jar(n), Nowhere)
  BY <1>0, <1>3, <1>4, PlacesAre DEF Inside
<1>6. \A m \in Names : (\A t \in Slots : req[t].at # Jar(m)) => Away(m, s, r, Jar(n), Nowhere)
  BY PlacesAre DEF Away, Moved
<1>7. ASSUME NEW m \in Names \ (loose \cup clash)
      PROVE  dir[Jar(m)] # Torn /\ Away(m, s, r, Jar(n), Nowhere)
  <2>1. files[Jar(m)] # Torn /\ \A t \in Slots : req[t].at # Jar(m)
    BY AboutRequest
  <2> QED BY <1>1, <1>4, <1>6, <2>1, FilesNamed
<1>8. ASSUME NEW v \in Versions, Left(r, v), File[v] \notin clash
      PROVE  dir[Jar(File[v])] = v /\ Away(File[v], s, r, Jar(n), Nowhere)
  <2>1. files[Jar(File[v])] = v /\ \A t \in Slots : req[t].at # Jar(File[v])
    BY <1>8, AboutRequest
  <2>2. File[v] \in Names /\ File[v] # n
    BY <1>8, FilesNamed
  <2> QED BY <1>4, <1>6, <2>1, <2>2
<1>9. ASSUME Writing(r), File[r.cur] \notin clash
      PROVE  r.pc # "write" /\ dir[Part(File[r.cur])] = r.cur
  <2>1. Writing(req[s]) /\ r.cur = req[s].cur /\ "write" \notin {r.pc, req[s].pc}
    BY <1>9
  <2>2. files[Part(File[r.cur])] = r.cur
    BY <2>1, <1>9, AboutRequest DEF Temporary, Name
  <2>3. Sane(req[s])
    BY AboutRequest
  <2>4. File[r.cur] \in Names
    BY <2>1, <2>3 DEF Sane, Current
  <2> QED BY <1>3, <2>1, <2>2, <2>4
<1>10. Fits(s, r, dir, Jar(n), Nowhere)
  BY <1>0, <1>1, <1>5, PlacesAre DEF Fits
<1>11. Keeps(s, r, dir, Jar(n), Nowhere)
  <2>1. req[s].names \subseteq Names
    BY AboutRequest
  <2> QED BY <1>2, <1>7, <1>8, <1>9, <2>1 DEF Keeps
<1>12. Call(s, r, dir, Jar(n), Nowhere)
  BY DEF dir
<1>13. clash' \cup loose' \subseteq Names /\ failures' \in Nat /\ missed' \in BOOLEAN
  BY <1>2, AboutRequest
<1> QED BY <1>2, <1>10, <1>11, <1>12, <1>13, CallKept

(* The removal of the temporary file of a request that ends.                *)
LEMMA PartRemovedKept ==
  ASSUME ModsInv, NEW s \in Slots, NEW n \in req[s].names,
         Call(s, NoRequest, Removed(Part(n)), Part(n), Nowhere), UNCHANGED <<owed, loose, clash>>,
         failures' \in Nat, missed' = (missed \/ req[s].done)
  PROVE  ModsInv'
<1> DEFINE dir == Removed(Part(n))
<1>0. n \in Names /\ Part(n) \in Places
  BY AboutRequest, PlacesAre
<1>1. /\ dir \in [Places -> Contents]
      /\ \A p \in Places : p # Part(n) => dir[p] = files[p]
  BY <1>0, AboutRequest, RemovedIs
<1> HIDE DEF dir
<1>2. NoRequest.names = {} /\ NoRequest.pc = "idle" /\ NoRequest.at = Nowhere /\ ~Writing(NoRequest)
  BY DEF NoRequest, Writing
<1>3. \A m \in Names : dir[Jar(m)] = files[Jar(m)] /\ (m # n => dir[Part(m)] = files[Part(m)])
  BY <1>0, <1>1, PlacesAre
<1>4. Inside(s, dir, Part(n), Nowhere)
  BY <1>0, <1>3, PlacesAre DEF Inside
<1>5. \A m \in Names :
        (\A t \in Slots : req[t].at # Jar(m)) => Away(m, s, NoRequest, Part(n), Nowhere)
  BY <1>2, PlacesAre DEF Away, Moved
<1>6. ASSUME NEW m \in Names \ (loose \cup clash)
      PROVE  dir[Jar(m)] # Torn /\ Away(m, s, NoRequest, Part(n), Nowhere)
  <2>1. files[Jar(m)] # Torn /\ \A t \in Slots : req[t].at # Jar(m)
    BY AboutRequest
  <2> QED BY <1>3, <1>5, <2>1
<1>7. \A v \in Versions : ~Left(NoRequest, v)
  BY DEF Left, NoRequest
<1>8. Fits(s, NoRequest, dir, Part(n), Nowhere)
  BY <1>0, <1>1, <1>2, <1>4, PlacesAre, NothingAsked DEF Fits
<1>9. Keeps(s, NoRequest, dir, Part(n), Nowhere)
  <2>1. req[s].names \subseteq Names
    BY AboutRequest
  <2> QED BY <1>2, <1>6, <1>7, <2>1 DEF Keeps
<1>10. Call(s, NoRequest, dir, Part(n), Nowhere)
  BY DEF dir
<1>11. clash' \cup loose' \subseteq Names /\ missed' \in BOOLEAN /\ (missed => missed')
  <2>1. req[s] \in Requests
    BY AboutRequest
  <2>2. req[s].done \in BOOLEAN
    BY <2>1 DEF Requests
  <2> QED BY <2>2, AboutRequest
<1>12. Busy(req[s]) => missed'
  BY DEF Busy
<1> QED BY <1>8, <1>9, <1>10, <1>11, <1>12, CallKept

LEMMA RemoveFinalKept ==
  ASSUME ModsInv, NEW s \in Slots, RemoveFinal(s)
  PROVE  ModsInv'
<1> DEFINE r == [req[s] EXCEPT !.pc = "rename"]
<1>0. req[s] \in Requests /\ Sane(req[s]) /\ Updates(req[s])
  BY AboutRequest
<1>1. /\ req[s].pc = "unlink" /\ UNCHANGED <<failures, history>>
      /\ Call(s, r, Removed(Jar(Name(s))), Jar(Name(s)), Nowhere)
  BY DEF RemoveFinal
<1>2. /\ r \in Requests /\ r.pc = "rename" /\ r.op = req[s].op
      /\ r.file = req[s].file /\ r.ver = req[s].ver
      /\ r.to = req[s].to /\ r.names = req[s].names /\ r.plan = req[s].plan
      /\ r.wrote = req[s].wrote /\ r.left = req[s].left /\ r.cur = req[s].cur
      /\ r.at = req[s].at /\ r.done = req[s].done
  <2>1. r \in Requests
    BY <1>0, PcsNamed DEF Requests
  <2>2. /\ r.pc = "rename" /\ r.op = req[s].op
        /\ r.file = req[s].file /\ r.ver = req[s].ver
        /\ r.to = req[s].to /\ r.names = req[s].names /\ r.plan = req[s].plan
        /\ r.wrote = req[s].wrote /\ r.left = req[s].left /\ r.cur = req[s].cur
        /\ r.at = req[s].at /\ r.done = req[s].done
    BY <1>0 DEF Requests
  <2> QED BY <2>1, <2>2
<1> HIDE DEF r
<1>3. /\ req[s].op \in {"install", "update"} /\ req[s].at = Nowhere
  BY <1>0, <1>1 DEF Sane, OpsAt
<1>4. Writing(r) /\ Writing(req[s]) /\ Current(r) = {req[s].cur} /\ Current(req[s]) = {req[s].cur}
  BY <1>1, <1>2, <1>3 DEF Writing, Current
<1>5. Name(s) \in req[s].names
  BY <1>0, <1>4 DEF Sane, Name
<1>6. Sane(r)
  BY <1>0, <1>1, <1>2, <1>3, <1>4 DEF Sane, OpsAt
<1>7. Updates(r)
  BY <1>0, <1>2, <1>4 DEF Updates
<1>8. \A v \in Versions : Left(r, v) => Left(req[s], v) /\ File[v] # Name(s)
  BY <1>2, <1>4 DEF Left, Name
<1>9. Busy(req[s]) => Busy(r)
  BY <1>2 DEF Busy
<1> QED BY <1>1, <1>2, <1>3, <1>4, <1>5, <1>6, <1>7, <1>8, <1>9, JarRemovedKept

LEMMA RemoveOldKept ==
  ASSUME ModsInv, NEW s \in Slots, RemoveOld(s)
  PROVE  ModsInv'
<1> DEFINE r == [req[s] EXCEPT !.pc = "mark"]
<1>0. req[s] \in Requests /\ Sane(req[s]) /\ Updates(req[s])
  BY AboutRequest
<1>1. /\ req[s].pc = "old" /\ UNCHANGED <<failures, history>>
      /\ Call(s, r, Removed(Jar(req[s].file)), Jar(req[s].file), Nowhere)
  BY DEF RemoveOld
<1>2. /\ r \in Requests /\ r.pc = "mark" /\ r.op = req[s].op
      /\ r.file = req[s].file /\ r.ver = req[s].ver
      /\ r.to = req[s].to /\ r.names = req[s].names /\ r.plan = req[s].plan
      /\ r.wrote = req[s].wrote /\ r.left = req[s].left /\ r.cur = req[s].cur
      /\ r.at = req[s].at /\ r.done = req[s].done
  <2>1. r \in Requests
    BY <1>0, PcsNamed DEF Requests
  <2>2. /\ r.pc = "mark" /\ r.op = req[s].op
        /\ r.file = req[s].file /\ r.ver = req[s].ver
        /\ r.to = req[s].to /\ r.names = req[s].names /\ r.plan = req[s].plan
        /\ r.wrote = req[s].wrote /\ r.left = req[s].left /\ r.cur = req[s].cur
        /\ r.at = req[s].at /\ r.done = req[s].done
    BY <1>0 DEF Requests
  <2> QED BY <2>1, <2>2
<1> HIDE DEF r
<1>3. req[s].op = "update" /\ req[s].at = Nowhere /\ req[s].file \in req[s].names
  BY <1>0, <1>1 DEF Sane, OpsAt
<1>4. ~Writing(r) /\ Current(r) = {} /\ Current(req[s]) = {}
  BY <1>1, <1>2 DEF Writing, Current
<1>5. Sane(r)
  BY <1>0, <1>1, <1>2, <1>3, <1>4 DEF Sane, OpsAt, ModsOps
<1>6. Updates(r)
  BY <1>2, <1>4 DEF Updates
<1>7. \A v \in Versions : Left(r, v) => Left(req[s], v) /\ File[v] # req[s].file
  BY <1>0, <1>1, <1>2, <1>3, <1>4 DEF Left, Updates
<1>8. Busy(req[s]) => Busy(r)
  BY <1>2 DEF Busy
<1> QED BY <1>1, <1>2, <1>3, <1>4, <1>5, <1>6, <1>7, <1>8, JarRemovedKept

LEMMA RemoveModKept ==
  ASSUME ModsInv, NEW s \in Slots, RemoveMod(s)
  PROVE  ModsInv'
<1> DEFINE r == [req[s] EXCEPT !.pc = "mark"]
<1>0. req[s] \in Requests /\ Sane(req[s]) /\ Updates(req[s])
  BY AboutRequest
<1>1. /\ req[s].pc = "remove" /\ UNCHANGED <<failures, history>>
      /\ Call(s, r, Removed(Jar(req[s].file)), Jar(req[s].file), Nowhere)
  BY DEF RemoveMod
<1>2. /\ r \in Requests /\ r.pc = "mark" /\ r.op = req[s].op
      /\ r.file = req[s].file /\ r.ver = req[s].ver
      /\ r.to = req[s].to /\ r.names = req[s].names /\ r.plan = req[s].plan
      /\ r.wrote = req[s].wrote /\ r.left = req[s].left /\ r.cur = req[s].cur
      /\ r.at = req[s].at /\ r.done = req[s].done
  <2>1. r \in Requests
    BY <1>0, PcsNamed DEF Requests
  <2>2. /\ r.pc = "mark" /\ r.op = req[s].op
        /\ r.file = req[s].file /\ r.ver = req[s].ver
        /\ r.to = req[s].to /\ r.names = req[s].names /\ r.plan = req[s].plan
        /\ r.wrote = req[s].wrote /\ r.left = req[s].left /\ r.cur = req[s].cur
        /\ r.at = req[s].at /\ r.done = req[s].done
    BY <1>0 DEF Requests
  <2> QED BY <2>1, <2>2
<1> HIDE DEF r
<1>3. /\ req[s].op = "remove" /\ req[s].at = Nowhere /\ req[s].file \in req[s].names
      /\ req[s].wrote = {}
  BY <1>0, <1>1 DEF Sane, OpsAt
<1>4. ~Writing(r) /\ Current(r) = {} /\ Current(req[s]) = {}
  BY <1>1, <1>2 DEF Writing, Current
<1>5. Sane(r)
  BY <1>0, <1>1, <1>2, <1>3, <1>4 DEF Sane, OpsAt, ModsOps
<1>6. Updates(r)
  BY <1>2, <1>3 DEF Updates
<1>7. \A v \in Versions : ~Left(r, v)
  BY <1>2, <1>3 DEF Left
<1>8. Busy(req[s]) => Busy(r)
  BY <1>2 DEF Busy
<1> QED BY <1>1, <1>2, <1>3, <1>4, <1>5, <1>6, <1>7, <1>8, JarRemovedKept

LEMMA DeletePathKept ==
  ASSUME ModsInv, NEW s \in Slots, DeletePath(s)
  PROVE  ModsInv'
<1>0. req[s] \in Requests /\ Sane(req[s]) /\ Updates(req[s])
  BY AboutRequest
<1>1. PICK n \in req[s].left :
        Call(s, [req[s] EXCEPT !.left = @ \ {n}], Removed(Jar(n)), Jar(n), Nowhere)
  BY DEF DeletePath
<1>2. req[s].pc = "drop" /\ UNCHANGED <<failures, history>>
  BY DEF DeletePath
<1> DEFINE r == [req[s] EXCEPT !.left = @ \ {n}]
<1>3. /\ r \in Requests /\ r.pc = "drop" /\ r.op = req[s].op
      /\ r.file = req[s].file /\ r.ver = req[s].ver
      /\ r.to = req[s].to /\ r.names = req[s].names /\ r.plan = req[s].plan
      /\ r.wrote = req[s].wrote /\ r.left \subseteq req[s].left /\ r.cur = req[s].cur
      /\ r.at = req[s].at /\ r.done = req[s].done
  <2>1. r \in Requests
    BY <1>0, <1>2, PcsNamed DEF Requests
  <2>2. /\ r.pc = "drop" /\ r.op = req[s].op
        /\ r.file = req[s].file /\ r.ver = req[s].ver
        /\ r.to = req[s].to /\ r.names = req[s].names /\ r.plan = req[s].plan
        /\ r.wrote = req[s].wrote /\ r.left \subseteq req[s].left /\ r.cur = req[s].cur
        /\ r.at = req[s].at /\ r.done = req[s].done
    BY <1>0, <1>2 DEF Requests
  <2> QED BY <2>1, <2>2
<1>4. Call(s, r, Removed(Jar(n)), Jar(n), Nowhere)
  BY <1>1
<1> HIDE DEF r
<1>5. /\ req[s].op = "delete" /\ req[s].at = Nowhere /\ n \in req[s].names /\ req[s].wrote = {}
  BY <1>0, <1>1, <1>2 DEF Sane, OpsAt
<1>6. ~Writing(r) /\ Current(r) = {} /\ Current(req[s]) = {}
  BY <1>2, <1>3 DEF Writing, Current
<1>7. Sane(r)
  BY <1>0, <1>2, <1>3, <1>5, <1>6 DEF Sane, OpsAt
<1>8. Updates(r)
  BY <1>3, <1>5 DEF Updates
<1>9. \A v \in Versions : ~Left(r, v)
  BY <1>3, <1>5 DEF Left
<1>10. Busy(req[s]) => Busy(r)
  BY <1>3 DEF Busy
<1> QED BY <1>2, <1>3, <1>4, <1>5, <1>6, <1>7, <1>8, <1>9, <1>10, JarRemovedKept

LEMMA RenamePartKept ==
  ASSUME ModsInv, NEW s \in Slots, RenamePart(s)
  PROVE  ModsInv'
<1> DEFINE n == Name(s)
           next == IF req[s].plan # {} THEN "create"
                   ELSE IF req[s].op = "update" /\ n # req[s].file THEN "old" ELSE "mark"
           r == [req[s] EXCEPT !.pc = next, !.wrote = @ \cup {req[s].cur}]
           dir == [Removed(Part(n)) EXCEPT ![Jar(n)] = files[Part(n)]]
<1>0. req[s] \in Requests /\ Sane(req[s]) /\ Updates(req[s])
  BY AboutRequest
<1>1. /\ req[s].pc = "rename" /\ UNCHANGED <<failures, history>>
      /\ Call(s, r, dir, Part(n), Jar(n))
  BY DEF RenamePart
<1>2. /\ req[s].op \in {"install", "update"} /\ req[s].at = Nowhere
  BY <1>0, <1>1 DEF Sane, OpsAt
<1>3. Writing(req[s]) /\ Current(req[s]) = {req[s].cur}
  BY <1>1, <1>2 DEF Writing, Current
<1>4. /\ req[s].cur \in Versions /\ n = File[req[s].cur] /\ n \in req[s].names /\ n \in Names
      /\ Part(n) \in Places /\ Jar(n) \in Places
  BY <1>0, <1>3, AboutRequest, PlacesAre DEF Sane, Name
<1>5. /\ next \in {"create", "old", "mark"}
      /\ next = "create" <=> req[s].plan # {}
      /\ next = "old" => req[s].op = "update" /\ n # req[s].file
  OBVIOUS
<1> HIDE DEF next, n
<1>6. /\ r \in Requests /\ r.pc = next /\ r.op = req[s].op
      /\ r.file = req[s].file /\ r.ver = req[s].ver
      /\ r.to = req[s].to /\ r.names = req[s].names /\ r.plan = req[s].plan
      /\ r.wrote = req[s].wrote \cup {req[s].cur} /\ r.left = req[s].left /\ r.cur = req[s].cur
      /\ r.at = Nowhere /\ r.done = req[s].done
  <2>1. r \in Requests
    BY <1>0, <1>2, <1>4, <1>5, PcsNamed DEF Requests
  <2>2. /\ r.pc = next /\ r.op = req[s].op
        /\ r.file = req[s].file /\ r.ver = req[s].ver
        /\ r.to = req[s].to /\ r.names = req[s].names /\ r.plan = req[s].plan
        /\ r.wrote = req[s].wrote \cup {req[s].cur} /\ r.left = req[s].left /\ r.cur = req[s].cur
        /\ r.at = Nowhere /\ r.done = req[s].done
    BY <1>0, <1>2, <1>4, <1>5 DEF Requests
  <2> QED BY <2>1, <2>2
<1> HIDE DEF r
<1>7. /\ dir \in [Places -> Contents] /\ dir[Jar(n)] = files[Part(n)]
      /\ \A p \in Places : p \notin {Part(n), Jar(n)} => dir[p] = files[p]
  BY <1>4, AboutRequest, RemovedIs
<1> HIDE DEF dir
<1>8. ~Writing(r) /\ Current(r) = {}
  BY <1>5, <1>6 DEF Writing, Current
<1>9. Sane(r)
  BY <1>0, <1>2, <1>3, <1>4, <1>5, <1>6, <1>8, PlacesAre DEF Sane, OpsAt, ModsOps
<1>10. Updates(r)
  BY <1>0, <1>3, <1>4, <1>5, <1>6, <1>8 DEF Updates
<1>11. \A m \in Names : m # n => dir[Part(m)] = files[Part(m)] /\ dir[Jar(m)] = files[Jar(m)]
  BY <1>4, <1>7, PlacesAre
<1>12. Inside(s, dir, Part(n), Jar(n))
  BY <1>4, <1>11, PlacesAre DEF Inside
<1>13. \A m \in Names : m # n /\ (\A t \in Slots : req[t].at # Jar(m)) =>
         Away(m, s, r, Part(n), Jar(n))
  BY <1>4, <1>6, PlacesAre DEF Away, Moved
<1>14. ASSUME n \notin clash
       PROVE  dir[Jar(n)] = req[s].cur /\ Away(n, s, r, Part(n), Jar(n))
  <2>1. files[Part(n)] = req[s].cur
    BY <1>1, <1>3, <1>14, AboutRequest DEF Temporary, n
  <2>2. \A t \in Slots \ {s} : req[t].at # Part(n)
    BY <1>4, <1>14, AboutRequest
  <2>3. Away(n, s, r, Part(n), Jar(n))
    BY <1>4, <1>6, <2>2, PlacesAre DEF Away, Moved
  <2> QED BY <1>7, <2>1, <2>3
<1>15. UNCHANGED <<failures, owed, loose, clash, missed>>
  BY <1>1 DEF history
<1>16. ASSUME NEW m \in req[s].names \ (loose \cup clash)
       PROVE  dir[Jar(m)] # Torn /\ Away(m, s, r, Part(n), Jar(n))
  <2>1. m \in Names /\ files[Jar(m)] # Torn /\ \A t \in Slots : req[t].at # Jar(m)
    BY AboutRequest
  <2>2. CASE m = n
    BY <1>4, <1>14, <2>2, FilesNamed
  <2>3. CASE m # n
    BY <1>11, <1>13, <2>1, <2>3
  <2> QED BY <2>2, <2>3
<1>17. ASSUME NEW v \in Versions, Left(r, v), File[v] \notin clash
       PROVE  dir[Jar(File[v])] = v /\ Away(File[v], s, r, Part(n), Jar(n))
  <2>1. CASE File[v] = n
    <3>1. v = req[s].cur
      BY <1>4, <1>6, <1>17, <2>1 DEF Left
    <3> QED BY <3>1, <1>14, <1>17, <2>1
  <2>2. CASE File[v] # n
    <3>1. Left(req[s], v)
      BY <1>3, <1>4, <1>6, <1>17, <2>2 DEF Left
    <3>2. files[Jar(File[v])] = v /\ \A t \in Slots : req[t].at # Jar(File[v])
      BY <3>1, <1>17, AboutRequest
    <3>3. File[v] \in Names
      BY FilesNamed
    <3> QED BY <3>2, <3>3, <2>2, <1>11, <1>13
  <2> QED BY <2>1, <2>2
<1>18. Fits(s, r, dir, Part(n), Jar(n))
  BY <1>4, <1>5, <1>6, <1>7, <1>9, <1>10, <1>12, PlacesAre DEF Fits
<1>19. Keeps(s, r, dir, Part(n), Jar(n))
  BY <1>8, <1>15, <1>16, <1>17 DEF Keeps
<1>20. clash' \cup loose' \subseteq Names /\ failures' \in Nat /\ missed' \in BOOLEAN
  BY <1>15, AboutRequest
<1>21. Busy(req[s]) => Busy(r)
  BY <1>6 DEF Busy
<1>22. Call(s, r, dir, Part(n), Jar(n))
  BY <1>1 DEF r, dir
<1> QED BY <1>15, <1>18, <1>19, <1>20, <1>21, <1>22, CallKept

LEMMA OpenPlaceKept ==
  ASSUME ModsInv, NEW s \in Slots, OpenPlace(s)
  PROVE  ModsInv'
<1>0. req[s] \in Requests /\ Sane(req[s]) /\ Updates(req[s])
  BY AboutRequest
<1>1. PICK n \in req[s].left :
        /\ Call(s, [req[s] EXCEPT !.pc = "write", !.left = @ \ {n}, !.at = Jar(n)],
                [files EXCEPT ![Jar(n)] = Torn], Nowhere, Nowhere)
        /\ loose' = loose \cup {n}
  BY DEF OpenPlace
<1> DEFINE r == [req[s] EXCEPT !.pc = "write", !.left = @ \ {n}, !.at = Jar(n)]
           dir == [files EXCEPT ![Jar(n)] = Torn]
<1>2. req[s].pc = "open" /\ UNCHANGED <<failures, owed, clash, missed>>
  BY DEF OpenPlace
<1>3. /\ req[s].op = "put" /\ req[s].wrote = {} /\ n \in req[s].names /\ n \in Names
      /\ Jar(n) \in Places
  BY <1>0, <1>1, <1>2, PlacesAre DEF Sane, OpsAt
<1>4. /\ r \in Requests /\ r.pc = "write" /\ r.op = req[s].op
      /\ r.file = req[s].file /\ r.ver = req[s].ver
      /\ r.to = req[s].to /\ r.names = req[s].names /\ r.plan = req[s].plan
      /\ r.wrote = req[s].wrote /\ r.left \subseteq req[s].left /\ r.cur = req[s].cur
      /\ r.at = Jar(n) /\ r.done = req[s].done
  <2>1. r \in Requests
    BY <1>0, <1>3, PcsNamed DEF Requests
  <2>2. /\ r.pc = "write" /\ r.op = req[s].op
        /\ r.file = req[s].file /\ r.ver = req[s].ver
        /\ r.to = req[s].to /\ r.names = req[s].names /\ r.plan = req[s].plan
        /\ r.wrote = req[s].wrote /\ r.left \subseteq req[s].left /\ r.cur = req[s].cur
        /\ r.at = Jar(n) /\ r.done = req[s].done
    BY <1>0, <1>3 DEF Requests
  <2> QED BY <2>1, <2>2
<1>5. /\ dir \in [Places -> Contents]
      /\ \A p \in Places : p # Jar(n) => dir[p] = files[p]
  BY <1>3, AboutRequest, FilesNamed
<1>6. Call(s, r, dir, Nowhere, Nowhere)
  BY <1>1
<1> HIDE DEF r, dir
<1>7. ~Writing(r) /\ Current(r) = {} /\ Current(req[s]) = {}
  BY <1>3, <1>4 DEF Writing, Current
<1>8. Sane(r)
  BY <1>0, <1>3, <1>4, <1>7, PlacesAre DEF Sane, OpsAt
<1>9. Updates(r)
  BY <1>3, <1>4 DEF Updates
<1>10. \A m \in Names : dir[Part(m)] = files[Part(m)] /\ (m # n => dir[Jar(m)] = files[Jar(m)])
  BY <1>3, <1>5, PlacesAre
<1>11. Inside(s, dir, Nowhere, Nowhere)
  BY <1>3, <1>10, PlacesAre DEF Inside
<1>12. \A m \in Names : m # n /\ (\A t \in Slots : req[t].at # Jar(m)) =>
         Away(m, s, r, Nowhere, Nowhere)
  BY <1>3, <1>4, PlacesAre DEF Away, Moved
<1>13. ASSUME NEW m \in req[s].names \ (loose' \cup clash')
       PROVE  dir[Jar(m)] # Torn /\ Away(m, s, r, Nowhere, Nowhere)
  <2>1. m \in Names /\ m # n /\ files[Jar(m)] # Torn /\ \A t \in Slots : req[t].at # Jar(m)
    BY <1>1, <1>2, AboutRequest
  <2> QED BY <2>1, <1>10, <1>12
<1>14. \A v \in Versions : ~Left(r, v)
  BY <1>3, <1>4 DEF Left
<1>15. Fits(s, r, dir, Nowhere, Nowhere)
  BY <1>3, <1>4, <1>5, <1>8, <1>9, <1>11, PlacesAre DEF Fits
<1>16. Keeps(s, r, dir, Nowhere, Nowhere)
  BY <1>7, <1>13, <1>14 DEF Keeps
<1>17. clash' \cup loose' \subseteq Names /\ failures' \in Nat /\ missed' \in BOOLEAN
  BY <1>1, <1>2, <1>3, AboutRequest
<1>18. Busy(req[s]) => Busy(r)
  BY <1>4 DEF Busy
<1> QED BY <1>1, <1>2, <1>6, <1>15, <1>16, <1>17, <1>18, CallKept

LEMMA RenameFileKept ==
  ASSUME ModsInv, NEW s \in Slots, RenameFile(s)
  PROVE  ModsInv'
<1> DEFINE n == req[s].file
           m == req[s].to
           dir == [Removed(Jar(n)) EXCEPT ![Jar(m)] = files[Jar(n)]]
<1>0. req[s] \in Requests /\ Sane(req[s])
  BY AboutRequest
<1>1. /\ req[s].pc = "move" /\ UNCHANGED <<failures, owed, missed>>
      /\ Call(s, NoRequest, dir, Jar(n), Jar(m))
      /\ loose' = IF n \in loose THEN loose \cup {m} ELSE loose
      /\ clash' = IF n \in clash THEN clash \cup {m} ELSE clash
  BY DEF RenameFile
<1>2. /\ req[s].op = "rename" /\ n \in req[s].names /\ m \in req[s].names
      /\ n \in Names /\ m \in Names /\ Jar(n) \in Places /\ Jar(m) \in Places
  BY <1>0, <1>1, PlacesAre DEF Sane, OpsAt
<1> HIDE DEF n, m
<1>3. NoRequest.names = {} /\ NoRequest.pc = "idle" /\ NoRequest.at = Nowhere /\ ~Writing(NoRequest)
  BY DEF NoRequest, Writing
<1>4. /\ dir \in [Places -> Contents] /\ dir[Jar(m)] = files[Jar(n)]
      /\ n # m => dir[Jar(n)] = None
      /\ \A p \in Places : p \notin {Jar(n), Jar(m)} => dir[p] = files[p]
  BY <1>2, AboutRequest, RemovedIs, PlacesAre
<1> HIDE DEF dir
<1>5. \A k \in Names : /\ dir[Part(k)] = files[Part(k)]
                       /\ k \notin {n, m} => dir[Jar(k)] = files[Jar(k)]
  BY <1>2, <1>4, PlacesAre
<1>6. Inside(s, dir, Jar(n), Jar(m))
  BY <1>2, <1>5, PlacesAre DEF Inside
<1>7. \A k \in Names : k # m /\ (\A t \in Slots : req[t].at # Jar(k)) =>
         Away(k, s, NoRequest, Jar(n), Jar(m))
  BY <1>2, <1>3, PlacesAre DEF Away, Moved
<1>8. (\A t \in Slots : req[t].at # Jar(n)) => Away(m, s, NoRequest, Jar(n), Jar(m))
  BY <1>2, <1>3, PlacesAre DEF Away, Moved
<1>9. ASSUME NEW k \in req[s].names \ (loose' \cup clash')
      PROVE  dir[Jar(k)] # Torn /\ Away(k, s, NoRequest, Jar(n), Jar(m))
  <2>1. k \in Names \ (loose \cup clash)
    BY <1>1, AboutRequest
  <2>2. files[Jar(k)] # Torn /\ \A t \in Slots : req[t].at # Jar(k)
    BY <2>1, AboutRequest
  <2>3. CASE k = m
    <3>1. n \in Names \ (loose \cup clash)
      BY <1>1, <1>2, <1>9, <2>3
    <3>2. files[Jar(n)] # Torn /\ \A t \in Slots : req[t].at # Jar(n)
      BY <3>1, AboutRequest
    <3> QED BY <1>4, <1>8, <2>3, <3>2
  <2>4. CASE k # m
    <3>1. dir[Jar(k)] \in {None, files[Jar(k)]}
      BY <1>4, <1>5, <2>1, <2>4
    <3> QED BY <1>7, <2>1, <2>2, <2>4, <3>1, FilesNamed
  <2> QED BY <2>3, <2>4
<1>10. \A v \in Versions : ~Left(NoRequest, v)
  BY DEF Left, NoRequest
<1>11. Fits(s, NoRequest, dir, Jar(n), Jar(m))
  BY <1>2, <1>3, <1>4, <1>6, PlacesAre, NothingAsked DEF Fits
<1>12. Keeps(s, NoRequest, dir, Jar(n), Jar(m))
  BY <1>3, <1>9, <1>10 DEF Keeps
<1>13. /\ clash' \cup loose' \subseteq Names /\ failures' \in Nat /\ missed' \in BOOLEAN
       /\ clash \subseteq clash' /\ loose \subseteq loose'
  BY <1>1, <1>2, AboutRequest
<1>14. ~Busy(req[s])
  BY <1>2 DEF Busy, ModsOps
<1>15. Call(s, NoRequest, dir, Jar(n), Jar(m))
  BY <1>1 DEF dir
<1> QED BY <1>1, <1>11, <1>12, <1>13, <1>14, <1>15, CallKept

LEMMA GoneKept ==
  ASSUME ModsInv, NEW s \in Slots, req[s].pc \in {"write", "unlink"}, req[s].op # "put",
         Call(s, NoRequest, Removed(Part(Name(s))), Part(Name(s)), Nowhere),
         UNCHANGED <<owed, loose, clash>>, failures' \in Nat, missed' = (missed \/ req[s].done)
  PROVE  ModsInv'
<1>1. Sane(req[s])
  BY AboutRequest
<1>2. Writing(req[s])
  BY <1>1 DEF Sane, OpsAt, Writing
<1>3. Name(s) \in req[s].names
  BY <1>1, <1>2 DEF Sane, Current, Name
<1> QED BY <1>3, PartRemovedKept

-----------------------------------------------------------------------------
(* The steps that call nothing.                                             *)

LEMMA QuietKept ==
  ASSUME ModsInv, req' \in [Slots -> Requests],
         \A t \in Slots : Softly(req[t], req'[t]) /\ Sane(req'[t]) /\ Updates(req'[t]),
         UNCHANGED <<files, loose, clash>>
  PROVE  /\ owed' = owed => Between'
         /\ AllSane' /\ Clashes' /\ Temporaries' /\ Whole' /\ AllRemain'
         /\ \A n \in Names : Closed(n) => Closed(n)'
<1>1. AllSane'
  BY DEF AllSane
<1> QED BY <1>1, SoftlyKept DEF ModsInv

LEMMA NothingEnds ==
  ASSUME NEW t \in Slots, req'[t] = NoRequest
  PROVE  Softly(req[t], req'[t]) /\ Sane(req'[t]) /\ Updates(req'[t]) /\ ~Busy(req'[t])
<1>1. ~Busy(NoRequest)
  BY DEF Busy, NoRequest
<1> QED BY <1>1, SoftEnds, NothingAsked

LEMMA NothingChanges ==
  ASSUME ModsInv, NEW t \in Slots, Like(req[t], req'[t]), req'[t].at = req[t].at,
         req'[t].done = req[t].done
  PROVE  /\ Softly(req[t], req'[t]) /\ Sane(req'[t]) /\ Updates(req'[t])
         /\ Busy(req[t]) <=> Busy(req'[t])
<1>1. Sane(req[t]) /\ Updates(req[t])
  BY AboutRequest
<1>2. Sane(req'[t]) /\ Updates(req'[t])
  <2>1. \A n \in Names : req'[t].at = Part(n) => n \in req[t].names
    BY <1>1 DEF Sane
  <2>2. req[t].pc \in {"connect", "list"} => ~req'[t].done
    BY <1>1 DEF Sane
  <2> QED BY <1>1, <2>1, <2>2, SaneLike
<1>3. Busy(req[t]) <=> Busy(req'[t])
  BY DEF Busy, Like
<1> QED BY <1>2, <1>3, SoftLike

LEMMA LikeItself == \A x : Like(x, x)
BY DEF Like

(* s goes on as r.                                                          *)
LEMMA BecomesQuiet ==
  ASSUME ModsInv, NEW s \in Slots, NEW r \in Requests, Becomes(s, r)
  PROVE  /\ req' \in [Slots -> Requests] /\ req'[s] = r
         /\ Softly(req[s], r) /\ Sane(r) /\ Updates(r) =>
              \A t \in Slots : Softly(req[t], req'[t]) /\ Sane(req'[t]) /\ Updates(req'[t])
         /\ \A t \in Slots \ {s} : req'[t] = req[t] /\ (Busy(req[t]) <=> Busy(req'[t]))
<1>1. req \in [Slots -> Requests]
  BY AboutRequest
<1>2. /\ req' \in [Slots -> Requests] /\ req'[s] = r
      /\ \A t \in Slots \ {s} : req'[t] = req[t]
  BY <1>1 DEF Becomes
<1>3. ASSUME NEW t \in Slots \ {s}
      PROVE  /\ Softly(req[t], req'[t]) /\ Sane(req'[t]) /\ Updates(req'[t])
             /\ Busy(req[t]) <=> Busy(req'[t])
  BY <1>2, NothingChanges, LikeItself
<1> QED BY <1>2, <1>3

(* What is promised is there: the request wrote it, and nobody else had to  *)
(* do with it.                                                              *)
LEMMA PromisesKept ==
  ASSUME ModsInv, NEW s \in Slots, Promises(s), req[s].pc \in {"mark", "flag"},
         req' \in [Slots -> Requests], req'[s] = NoRequest,
         \A t \in Slots : Softly(req[t], req'[t]) /\ Sane(req'[t]) /\ Updates(req'[t]),
         UNCHANGED <<files, loose, clash>>
  PROVE  Between' /\ owed' \in [Names -> Versions \cup {None}]
<1>0. /\ Sane(req[s]) /\ AllSane /\ Clashes /\ Paid
      /\ owed \in [Names -> Versions \cup {None}]
  BY AboutRequest, ModsTypesAre DEF ModsInv, Between
<1>1. owed' = [n \in Names |->
        IF n \notin clash /\ \E v \in Wrote(s, n) : Wrote(s, n) = {v}
        THEN CHOOSE v \in Wrote(s, n) : TRUE ELSE owed[n]]
  BY DEF Promises
<1>2. ASSUME NEW n \in Names, n \notin clash, NEW v \in Wrote(s, n), Wrote(s, n) = {v}
      PROVE  /\ owed'[n] = v /\ v \in Versions /\ files'[Jar(n)] = v /\ Closed(n)'
             /\ \A t \in Slots : n \notin req'[t].names
  <2>1. owed'[n] = v
    <3>1. (CHOOSE w \in {v} : TRUE) = v
      OBVIOUS
    <3> QED BY <1>1, <1>2, <3>1
  <2>2. v \in req[s].wrote /\ File[v] = n /\ v \in Versions /\ n \in req[s].names
    BY <1>0, <1>2 DEF Wrote, Sane
  <2>3. req[s].plan = {} /\ Current(req[s]) = {}
    BY <1>0, <2>2 DEF Sane, Current, Writing
  <2>4. Left(req[s], v)
    BY <1>2, <2>2, <2>3 DEF Left, Wrote
  <2>5. files[Jar(n)] = v /\ Closed(n)
    BY <1>2, <2>2, <2>4, AboutRequest DEF Closed
  <2>6. Closed(n)'
    BY <2>5, QuietKept
  <2>7. ASSUME NEW t \in Slots PROVE n \notin req'[t].names
    <3>1. CASE t = s
      BY <3>1 DEF NoRequest
    <3>2. CASE t # s
      BY <1>0, <1>2, <2>2, <3>2 DEF Clashes, Softly
    <3> QED BY <3>1, <3>2
  <2> QED BY <2>1, <2>2, <2>5, <2>6, <2>7
<1>3. ASSUME NEW n \in Names, ~(n \notin clash /\ \E v \in Wrote(s, n) : Wrote(s, n) = {v})
      PROVE  owed'[n] = owed[n]
  BY <1>1, <1>3
<1>4. owed' \in [Names -> Versions \cup {None}]
  <2>1. \A n \in Names : owed'[n] \in Versions \cup {None}
    BY <1>0, <1>2, <1>3
  <2> QED BY <1>1, <2>1
<1>5. Paid'
  <2> SUFFICES ASSUME NEW n \in Names, owed'[n] # None
               PROVE  /\ files'[Jar(n)] = owed'[n] /\ Closed(n)'
                      /\ \A t \in Slots : n \notin req'[t].names
    BY DEF Paid, Jar, Closed
  <2>1. CASE n \notin clash /\ \E v \in Wrote(s, n) : Wrote(s, n) = {v}
    BY <2>1, <1>2
  <2>2. CASE ~(n \notin clash /\ \E v \in Wrote(s, n) : Wrote(s, n) = {v})
    <3>1. owed'[n] = owed[n]
      BY <1>3, <2>2
    <3>2. /\ files[Jar(n)] = owed[n] /\ Closed(n)
          /\ \A t \in Slots : n \notin req[t].names
      BY <1>0, <3>1 DEF Paid
    <3> QED BY <3>1, <3>2, QuietKept DEF Softly
  <2> QED BY <2>1, <2>2
<1> QED BY <1>4, <1>5, QuietKept DEF Between

(* A step that calls nothing and keeps the types keeps the rest.            *)
LEMMA QuietStep ==
  ASSUME ModsInv, ModsTypes', NEW s \in Slots, NEW r \in Requests, Becomes(s, r),
         Softly(req[s], r), Sane(r), Updates(r),
         UNCHANGED <<files, gs, pod, loose, clash, owed>>, missed => missed',
         Busy(req[s]) => Busy(r) \/ missed'
  PROVE  ModsInv'
<1>1. Between'
  BY BecomesQuiet, QuietKept
<1>2. Asks'
  BY BecomesQuiet, AsksKept DEF ModsInv
<1> QED BY <1>1, <1>2 DEF ModsInv

(* A request begins ...                                                     *)
LEMMA BeginKept ==
  ASSUME ModsInv, NEW s \in Slots, NEW r \in Requests, Begin(s, r), Sane(r), r.pc = "connect"
  PROVE  ModsInv'
<1>0. ModsTypes /\ Between /\ Asks /\ Sane(req[s])
  BY AboutRequest DEF ModsInv
<1>1. /\ ~Active(s) /\ asked' = asked + 1 /\ Becomes(s, r) /\ Means(s, r.names)
      /\ UNCHANGED <<files, gs, pod, maint, failures, edits, loose, missed>>
  BY DEF Begin, world
<1>2. ~Writing(r) /\ r.wrote = {} /\ r.at = Nowhere /\ r.names \subseteq Names /\ Updates(r)
  BY DEF Sane, Writing, Updates
<1>3. /\ owed' \in [Names -> Versions \cup {None}] /\ clash' \subseteq Names
  BY <1>0, <1>1, <1>2, ModsTypesAre DEF Means
<1>4. req' \in [Slots -> Requests]
  BY <1>1, BecomesQuiet
<1>5. ModsTypes'
  BY <1>0, <1>1, <1>3, <1>4, ModsTypesAre DEF ModsTypes
<1>6. Between'
  BY <1>0, <1>1, <1>2, MeansKept
<1>7. ~Busy(req[s])
  BY <1>0, <1>1 DEF Active, Sane, OpsAt, Busy, ModsOps
<1>8. Asks'
  BY <1>0, <1>1, <1>7, BecomesQuiet, AsksKept
<1> QED BY <1>5, <1>6, <1>8 DEF ModsInv

LEMMA RequestsKept ==
  ASSUME ModsInv, NEW s \in Slots,
         \/ RequestInstall(s) \/ RequestUpdate(s) \/ RequestRemove(s)
         \/ RequestPut(s) \/ RequestDelete(s) \/ RequestRename(s)
  PROVE  ModsInv'
<1>1. CASE RequestInstall(s)
  <2>1. PICK v \in Versions :
          Begin(s, [NoRequest EXCEPT !.op = "install", !.pc = "connect", !.ver = v])
    BY <1>1 DEF RequestInstall
  <2> DEFINE r == [NoRequest EXCEPT !.op = "install", !.pc = "connect", !.ver = v]
  <2>2. r \in Requests /\ r.pc = "connect"
    BY DEF NoRequest, Requests, Ops, PCs
  <2>3. Sane(r)
    BY PlacesAre DEF NoRequest, Sane, OpsAt, Current, Writing, Ops
  <2> QED BY <2>1, <2>2, <2>3, BeginKept
<1>2. CASE RequestUpdate(s)
  <2>1. PICK n \in Names :
          Begin(s, [NoRequest EXCEPT !.op = "update", !.pc = "connect", !.file = n, !.names = {n}])
    BY <1>2 DEF RequestUpdate
  <2> DEFINE r == [NoRequest EXCEPT !.op = "update", !.pc = "connect", !.file = n, !.names = {n}]
  <2>2. r \in Requests /\ r.pc = "connect"
    BY DEF NoRequest, Requests, Ops, PCs
  <2>3. Sane(r)
    BY PlacesAre DEF NoRequest, Sane, OpsAt, Current, Writing, Ops
  <2> QED BY <2>1, <2>2, <2>3, BeginKept
<1>3. CASE RequestRemove(s)
  <2>1. PICK n \in Names :
          Begin(s, [NoRequest EXCEPT !.op = "remove", !.pc = "connect", !.file = n, !.names = {n}])
    BY <1>3 DEF RequestRemove
  <2> DEFINE r == [NoRequest EXCEPT !.op = "remove", !.pc = "connect", !.file = n, !.names = {n}]
  <2>2. r \in Requests /\ r.pc = "connect"
    BY DEF NoRequest, Requests, Ops, PCs
  <2>3. Sane(r)
    BY PlacesAre DEF NoRequest, Sane, OpsAt, Current, Writing, Ops
  <2> QED BY <2>1, <2>2, <2>3, BeginKept
<1>4. CASE RequestPut(s)
  <2>1. PICK ns \in Selections :
          Begin(s, [NoRequest EXCEPT !.op = "put", !.pc = "connect", !.left = ns, !.names = ns])
    BY <1>4 DEF RequestPut
  <2> DEFINE r == [NoRequest EXCEPT !.op = "put", !.pc = "connect", !.left = ns, !.names = ns]
  <2>2. ns \subseteq Names
    BY ContentAssumption
  <2>3. r \in Requests /\ r.pc = "connect"
    BY <2>2 DEF NoRequest, Requests, Ops, PCs
  <2>4. Sane(r)
    BY <2>2, PlacesAre DEF NoRequest, Sane, OpsAt, Current, Writing, Ops
  <2> QED BY <2>1, <2>3, <2>4, BeginKept
<1>5. CASE RequestDelete(s)
  <2>1. PICK ns \in Selections :
          Begin(s, [NoRequest EXCEPT !.op = "delete", !.pc = "connect", !.left = ns, !.names = ns])
    BY <1>5 DEF RequestDelete
  <2> DEFINE r == [NoRequest EXCEPT !.op = "delete", !.pc = "connect", !.left = ns, !.names = ns]
  <2>2. ns \subseteq Names
    BY ContentAssumption
  <2>3. r \in Requests /\ r.pc = "connect"
    BY <2>2 DEF NoRequest, Requests, Ops, PCs
  <2>4. Sane(r)
    BY <2>2, PlacesAre DEF NoRequest, Sane, OpsAt, Current, Writing, Ops
  <2> QED BY <2>1, <2>3, <2>4, BeginKept
<1>6. CASE RequestRename(s)
  <2>1. PICK n \in Names, m \in Names :
          Begin(s, [NoRequest EXCEPT !.op = "rename", !.pc = "connect", !.file = n, !.to = m,
                                     !.names = {n, m}])
    BY <1>6 DEF RequestRename
  <2> DEFINE r == [NoRequest EXCEPT !.op = "rename", !.pc = "connect", !.file = n, !.to = m,
                                    !.names = {n, m}]
  <2>2. r \in Requests /\ r.pc = "connect"
    BY DEF NoRequest, Requests, Ops, PCs
  <2>3. Sane(r)
    BY PlacesAre DEF NoRequest, Sane, OpsAt, Current, Writing, Ops
  <2> QED BY <2>1, <2>2, <2>3, BeginKept
<1> QED BY <1>1, <1>2, <1>3, <1>4, <1>5, <1>6

LEMMA ConnectKept ==
  ASSUME ModsInv, NEW s \in Slots, Connect(s)
  PROVE  ModsInv'
<1>0. req[s] \in Requests /\ Sane(req[s]) /\ Updates(req[s]) /\ ModsTypes
  BY AboutRequest DEF ModsInv
<1>1. /\ req[s].pc = "connect" /\ maint' = (maint \/ gs.state = "Stopped")
      /\ UNCHANGED <<files, gs, pod, asked, failures, edits, owed, loose, clash, missed>>
  BY DEF Connect, history
<1>2. ~req[s].done /\ req[s].wrote = {} /\ req[s].op \in Ops \ {"none"} /\ req[s].at = Nowhere
      /\ Current(req[s]) = {}
  BY <1>0, <1>1 DEF Sane, OpsAt, Current, Writing
<1>3. maint' \in BOOLEAN
  BY <1>0, <1>1, ModsTypesAre
<1>4. CASE Becomes(s, NoRequest)
  <2>1. req' \in [Slots -> Requests]
    BY <1>4, NothingAsked, BecomesQuiet
  <2>2. ModsTypes'
    BY <1>0, <1>1, <1>3, <2>1, ModsTypesAre DEF ModsTypes
  <2>3. ~Busy(req[s])
    BY <1>2 DEF Busy
  <2> QED BY <1>1, <1>4, <2>2, <2>3, NothingAsked, SoftEnds, QuietStep
<1>5. ASSUME NEW via \in {"sidecar", "maintenance"},
             Becomes(s, [req[s] EXCEPT !.pc = FirstCall(req[s].op), !.via = via])
      PROVE  ModsInv'
  <2> DEFINE first == FirstCall(req[s].op)
             r == [req[s] EXCEPT !.pc = first, !.via = via]
  <2>1. /\ first \in {"list", "check", "open", "drop", "move"}
        /\ req[s].op \in OpsAt(first)
    BY <1>2 DEF FirstCall, OpsAt, Ops
  <2> HIDE DEF first
  <2>2. /\ r \in Requests /\ r.pc = first /\ r.op = req[s].op
        /\ r.file = req[s].file /\ r.ver = req[s].ver
        /\ r.to = req[s].to /\ r.names = req[s].names /\ r.plan = req[s].plan
        /\ r.wrote = req[s].wrote /\ r.left = req[s].left /\ r.cur = req[s].cur
        /\ r.at = req[s].at /\ r.done = req[s].done
    <3>1. req[s] \in Requests /\ first \in PCs /\ via \in {"none", "sidecar", "maintenance"}
      BY <1>0, <2>1 DEF PCs
    <3> QED BY <3>1 DEF Requests
  <2>3. Becomes(s, r)
    BY <1>5 DEF first
  <2> HIDE DEF r
  <2>4. ~Writing(r) /\ Current(r) = {}
    BY <2>1, <2>2 DEF Writing, Current
  <2>5. Sane(r) /\ Updates(r)
    BY <1>0, <1>2, <2>1, <2>2, <2>4 DEF Sane, Updates
  <2>6. Softly(req[s], r)
    BY <1>2, <2>2, <2>4 DEF Softly, Left
  <2>7. req' \in [Slots -> Requests]
    BY <2>2, <2>3, BecomesQuiet
  <2>8. ModsTypes'
    BY <1>0, <1>1, <1>3, <2>7, ModsTypesAre DEF ModsTypes
  <2>9. ~Busy(req[s])
    BY <1>2 DEF Busy
  <2> QED BY <1>1, <2>2, <2>3, <2>5, <2>6, <2>8, <2>9, QuietStep
<1> QED BY <1>4, <1>5 DEF Connect

LEMMA StatFinalKept ==
  ASSUME ModsInv, NEW s \in Slots, StatFinal(s)
  PROVE  ModsInv'
<1> DEFINE next == IF files[Jar(Name(s))] # None THEN "unlink" ELSE "rename"
           r == [req[s] EXCEPT !.pc = next]
<1>0. req[s] \in Requests /\ Sane(req[s]) /\ Updates(req[s]) /\ ModsTypes
  BY AboutRequest DEF ModsInv
<1>1. /\ req[s].pc = "stat" /\ Becomes(s, r)
      /\ UNCHANGED <<files, gs, pod, maint, asked, failures, edits, owed, loose, clash, missed>>
  BY DEF StatFinal, GoesTo, history, world
<1>2. next \in {"unlink", "rename"} /\ next \in PCs
  BY DEF PCs
<1> HIDE DEF next
<1>3. /\ r \in Requests /\ r.pc = next /\ r.op = req[s].op
      /\ r.file = req[s].file /\ r.ver = req[s].ver
      /\ r.to = req[s].to /\ r.names = req[s].names /\ r.plan = req[s].plan
      /\ r.wrote = req[s].wrote /\ r.left = req[s].left /\ r.cur = req[s].cur
      /\ r.at = req[s].at /\ r.done = req[s].done
  BY <1>0, <1>2 DEF Requests
<1> HIDE DEF r
<1>4. req[s].op \in {"install", "update"} /\ req[s].at = Nowhere
  BY <1>0, <1>1 DEF Sane, OpsAt
<1>5. Writing(r) /\ Writing(req[s]) /\ Current(r) = Current(req[s])
  BY <1>1, <1>2, <1>3, <1>4 DEF Writing, Current
<1>6. Sane(r)
  BY <1>0, <1>2, <1>3, <1>4, <1>5 DEF Sane, OpsAt
<1>7. Updates(r)
  BY <1>0, <1>2, <1>3, <1>5 DEF Updates
<1>8. Softly(req[s], r)
  BY <1>1, <1>2, <1>3, <1>5 DEF Softly, Left
<1>9. ModsTypes'
  BY <1>0, <1>1, <1>3, BecomesQuiet, ModsTypesAre DEF ModsTypes
<1>10. Busy(req[s]) => Busy(r)
  BY <1>3 DEF Busy
<1> QED BY <1>1, <1>3, <1>6, <1>7, <1>8, <1>9, <1>10, QuietStep

LEMMA CheckRemoveKept ==
  ASSUME ModsInv, NEW s \in Slots, CheckRemove(s)
  PROVE  ModsInv'
<1> DEFINE r == [req[s] EXCEPT !.pc = "remove"]
<1>0. req[s] \in Requests /\ Sane(req[s]) /\ Updates(req[s]) /\ ModsTypes
  BY AboutRequest DEF ModsInv
<1>1. /\ req[s].pc = "check" /\ Becomes(s, r)
      /\ UNCHANGED <<files, gs, pod, maint, asked, failures, edits, owed, loose, clash, missed>>
  BY DEF CheckRemove, GoesTo, history, world
<1>2. /\ r \in Requests /\ r.pc = "remove" /\ r.op = req[s].op
      /\ r.file = req[s].file /\ r.ver = req[s].ver
      /\ r.to = req[s].to /\ r.names = req[s].names /\ r.plan = req[s].plan
      /\ r.wrote = req[s].wrote /\ r.left = req[s].left /\ r.cur = req[s].cur
      /\ r.at = req[s].at /\ r.done = req[s].done
  <2>1. r \in Requests
    BY <1>0, PcsNamed DEF Requests
  <2>2. /\ r.pc = "remove" /\ r.op = req[s].op
        /\ r.file = req[s].file /\ r.ver = req[s].ver
        /\ r.to = req[s].to /\ r.names = req[s].names /\ r.plan = req[s].plan
        /\ r.wrote = req[s].wrote /\ r.left = req[s].left /\ r.cur = req[s].cur
        /\ r.at = req[s].at /\ r.done = req[s].done
    BY <1>0 DEF Requests
  <2> QED BY <2>1, <2>2
<1> HIDE DEF r
<1>3. req[s].op = "remove" /\ req[s].at = Nowhere
  BY <1>0, <1>1 DEF Sane, OpsAt
<1>4. ~Writing(r) /\ Current(r) = {} /\ Current(req[s]) = {}
  BY <1>2, <1>3 DEF Writing, Current
<1>5. Sane(r) /\ Updates(r)
  BY <1>0, <1>2, <1>3, <1>4 DEF Sane, Updates, OpsAt
<1>6. Softly(req[s], r)
  BY <1>2, <1>4 DEF Softly, Left
<1>7. ModsTypes'
  BY <1>0, <1>1, <1>2, BecomesQuiet, ModsTypesAre DEF ModsTypes
<1>8. Busy(req[s]) => Busy(r)
  BY <1>2 DEF Busy
<1> QED BY <1>1, <1>2, <1>5, <1>6, <1>7, <1>8, QuietStep

(* A request goes on with the flag, at another step of it.                  *)
LEMMA FlaggingKept ==
  ASSUME ModsInv, NEW s \in Slots, NEW r \in Requests, Becomes(s, r),
         req[s].pc \in {"mark", "flag"}, r.pc \in {"mark", "flag"}, r.op = req[s].op,
         r.file = req[s].file, r.ver = req[s].ver, r.to = req[s].to, r.names = req[s].names,
         r.plan = req[s].plan,
         r.wrote = req[s].wrote, r.left = req[s].left, r.cur = req[s].cur, r.at = req[s].at,
         r.done = req[s].done,
         UNCHANGED <<files, gs, pod, maint, asked, failures, edits, owed, loose, clash, missed>>
  PROVE  ModsInv'
<1>0. Sane(req[s]) /\ ModsTypes
  BY AboutRequest DEF ModsInv
<1>1. req[s].op \in ModsOps /\ req[s].at = Nowhere
  BY <1>0 DEF Sane, OpsAt
<1>2. ~Writing(r) /\ Current(r) = {} /\ Current(req[s]) = {}
  BY DEF Writing, Current
<1>3. Sane(r) /\ Updates(r)
  BY <1>0, <1>1, <1>2 DEF Sane, Updates, OpsAt
<1>4. Softly(req[s], r)
  BY <1>2 DEF Softly, Left
<1>5. ModsTypes'
  BY <1>0, BecomesQuiet, ModsTypesAre DEF ModsTypes
<1>6. Busy(req[s]) => Busy(r)
  BY DEF Busy
<1> QED BY <1>3, <1>4, <1>5, <1>6, QuietStep

(* A request ends with the promise of its files.                            *)
LEMMA PromisedKept ==
  ASSUME ModsInv, NEW s \in Slots, req[s].pc \in {"mark", "flag"}, Promises(s),
         Becomes(s, NoRequest),
         UNCHANGED <<files, gs, pod, maint, asked, failures, edits, loose, clash>>,
         missed' \in BOOLEAN, missed => missed', pod.up => missed'
  PROVE  ModsInv'
<1>0. ModsTypes /\ Asks
  BY DEF ModsInv
<1>1. /\ req' \in [Slots -> Requests] /\ req'[s] = NoRequest
      /\ \A t \in Slots : Softly(req[t], req'[t]) /\ Sane(req'[t]) /\ Updates(req'[t])
  BY NothingAsked, SoftEnds, BecomesQuiet
<1>2. Between' /\ owed' \in [Names -> Versions \cup {None}]
  BY <1>1, PromisesKept
<1>3. ModsTypes'
  BY <1>0, <1>1, <1>2, ModsTypesAre DEF ModsTypes
<1>4. Asks'
  BY <1>0 DEF Asks, Busy, ModsOps
<1> QED BY <1>2, <1>3, <1>4 DEF ModsInv

LEMMA ReadServerKept ==
  ASSUME ModsInv, NEW s \in Slots, ReadServer(s)
  PROVE  ModsInv'
<1>0. req[s] \in Requests /\ ModsTypes
  BY AboutRequest DEF ModsInv
<1>1. /\ req[s].pc = "mark"
      /\ UNCHANGED <<files, gs, pod, maint, asked, failures, edits, loose, clash>>
  BY DEF ReadServer, world
<1>2. CASE gs.state = "Running"
  <2> DEFINE r == [req[s] EXCEPT !.pc = "flag", !.fresh = TRUE]
  <2>1. Becomes(s, r) /\ UNCHANGED <<owed, missed>>
    BY <1>2 DEF ReadServer
  <2>2. /\ r \in Requests /\ r.pc = "flag" /\ r.op = req[s].op
        /\ r.file = req[s].file /\ r.ver = req[s].ver
        /\ r.to = req[s].to /\ r.names = req[s].names /\ r.plan = req[s].plan
        /\ r.wrote = req[s].wrote /\ r.left = req[s].left /\ r.cur = req[s].cur
        /\ r.at = req[s].at /\ r.done = req[s].done
    <3>1. r \in Requests
      BY <1>0, PcsNamed DEF Requests
    <3>2. /\ r.pc = "flag" /\ r.op = req[s].op
          /\ r.file = req[s].file /\ r.ver = req[s].ver
          /\ r.to = req[s].to /\ r.names = req[s].names /\ r.plan = req[s].plan
          /\ r.wrote = req[s].wrote /\ r.left = req[s].left /\ r.cur = req[s].cur
          /\ r.at = req[s].at /\ r.done = req[s].done
      BY <1>0 DEF Requests
    <3> QED BY <3>1, <3>2
  <2> HIDE DEF r
  <2> QED BY <1>1, <2>1, <2>2, FlaggingKept
<1>3. CASE gs.state # "Running"
  <2>1. Becomes(s, NoRequest) /\ Promises(s) /\ missed' = (missed \/ pod.up)
    BY <1>3 DEF ReadServer
  <2>2. missed' \in BOOLEAN /\ (missed => missed') /\ (pod.up => missed')
    BY <1>0, <2>1, ModsTypesAre
  <2> QED BY <1>1, <2>1, <2>2, PromisedKept
<1> QED BY <1>2, <1>3

LEMMA FlagConflictsKept ==
  ASSUME ModsInv, NEW s \in Slots, FlagConflicts(s)
  PROVE  ModsInv'
<1>0. req[s] \in Requests /\ ModsTypes
  BY AboutRequest DEF ModsInv
<1>1. /\ req[s].pc = "flag"
      /\ UNCHANGED <<files, gs, pod, maint, asked, failures, edits, loose, clash>>
  BY DEF FlagConflicts, world
<1>2. CASE req[s].tries + 1 < MaxAttempts
  <2> DEFINE more == req[s].tries + 1
             r == [req[s] EXCEPT !.pc = "mark", !.tries = more]
  <2>1. Becomes(s, r) /\ UNCHANGED <<owed, missed>>
    BY <1>2 DEF FlagConflicts
  <2>2. more \in Nat /\ "mark" \in PCs
    BY <1>0 DEF Requests, PCs
  <2> HIDE DEF more
  <2>3. /\ r \in Requests /\ r.pc = "mark" /\ r.op = req[s].op
        /\ r.file = req[s].file /\ r.ver = req[s].ver
        /\ r.to = req[s].to /\ r.names = req[s].names /\ r.plan = req[s].plan
        /\ r.wrote = req[s].wrote /\ r.left = req[s].left /\ r.cur = req[s].cur
        /\ r.at = req[s].at /\ r.done = req[s].done
    BY <1>0, <2>2 DEF Requests
  <2> HIDE DEF r
  <2> QED BY <1>1, <2>1, <2>3, FlaggingKept
<1>3. CASE ~(req[s].tries + 1 < MaxAttempts)
  <2>1. Becomes(s, NoRequest) /\ Promises(s) /\ missed' = TRUE
    BY <1>3 DEF FlagConflicts
  <2> QED BY <1>1, <2>1, PromisedKept
<1> QED BY <1>2, <1>3

(* The others stay as they are but for what they read of the GameServer.    *)
LEMMA StaleIs ==
  ASSUME NEW x \in Requests
  PROVE  /\ [x EXCEPT !.fresh = FALSE] \in Requests /\ Like(x, [x EXCEPT !.fresh = FALSE])
         /\ [x EXCEPT !.fresh = FALSE].at = x.at /\ [x EXCEPT !.fresh = FALSE].done = x.done
BY DEF Requests, Like

LEMMA FlagKept ==
  ASSUME ModsInv, NEW s \in Slots, Flag(s)
  PROVE  ModsInv'
<1>0. ModsTypes /\ Asks
  BY DEF ModsInv
<1>1. /\ req[s].pc = "flag" /\ gs' = [gs EXCEPT !.changed = @ + 1] /\ Promises(s)
      /\ UNCHANGED <<files, pod, maint, asked, failures, edits, loose, clash, missed>>
  BY DEF Flag
<1>2. req' = [t \in Slots |-> IF t = s THEN NoRequest ELSE [req[t] EXCEPT !.fresh = FALSE]]
  BY DEF Flag, Stales
<1>3. \A t \in Slots : req[t] \in Requests
  BY <1>0, ModsTypesAre
<1>4. req' \in [Slots -> Requests] /\ req'[s] = NoRequest
  BY <1>2, <1>3, StaleIs, NothingAsked
<1>5. ASSUME NEW t \in Slots
      PROVE  Softly(req[t], req'[t]) /\ Sane(req'[t]) /\ Updates(req'[t])
  <2>1. CASE t = s
    BY <1>4, <2>1, NothingEnds
  <2>2. CASE t # s
    <3>1. req'[t] = [req[t] EXCEPT !.fresh = FALSE]
      BY <1>2, <2>2
    <3>2. Like(req[t], req'[t]) /\ req'[t].at = req[t].at /\ req'[t].done = req[t].done
      BY <1>3, <3>1, StaleIs
    <3> QED BY <3>2, NothingChanges
  <2> QED BY <2>1, <2>2
<1>6. Between' /\ owed' \in [Names -> Versions \cup {None}]
  BY <1>1, <1>4, <1>5, PromisesKept
<1>7. gs' \in [state : {"Running", "Stopped"}, changed : Nat, restart : BOOLEAN]
      /\ gs'.changed = gs.changed + 1
  BY <1>0, <1>1, ModsTypesAre
<1>8. ModsTypes'
  BY <1>0, <1>1, <1>4, <1>6, <1>7, ModsTypesAre DEF ModsTypes
<1>9. Asks'
  <2>1. pod.stamp \in Nat /\ gs.changed \in Nat /\ pod.stamp =< gs.changed
    BY <1>0, ModsTypesAre DEF Asks
  <2>2. pod' = pod /\ pod.stamp < gs'.changed
    BY <1>1, <1>7, <2>1
  <2> QED BY <1>7, <2>1, <2>2 DEF Asks
<1> QED BY <1>6, <1>8, <1>9 DEF ModsInv

(* Many requests may end at once, with nothing flagged.                     *)
LEMMA EndsKept ==
  ASSUME ModsInv, NEW which \in SUBSET Slots,
         req' = [t \in Slots |-> IF t \in which THEN NoRequest ELSE req[t]],
         UNCHANGED <<files, gs, asked, edits, loose, clash, owed>>,
         pod' \in [up : BOOLEAN, stamp : Nat, stale : BOOLEAN], pod'.stamp = pod.stamp,
         pod'.up => pod' = pod, maint' \in BOOLEAN, failures' \in Nat, missed' \in BOOLEAN,
         missed => missed', \A t \in which : Busy(req[t]) => missed'
  PROVE  ModsInv'
<1>0. ModsTypes /\ Asks /\ req \in [Slots -> Requests]
  BY ModsTypesAre DEF ModsInv
<1>1. req' \in [Slots -> Requests]
  BY <1>0, NothingAsked
<1>2. ASSUME NEW t \in Slots
      PROVE  /\ Softly(req[t], req'[t]) /\ Sane(req'[t]) /\ Updates(req'[t])
             /\ Busy(req[t]) => Busy(req'[t]) \/ missed'
  <2>1. CASE t \in which
    BY <2>1, NothingEnds
  <2>2. CASE t \notin which
    BY <2>2, NothingChanges, LikeItself
  <2> QED BY <2>1, <2>2
<1>3. Between'
  BY <1>1, <1>2, QuietKept
<1>4. ModsTypes'
  BY <1>0, <1>1, ModsTypesAre DEF ModsTypes
<1>5. Asks'
  <2>1. CASE pod'.up
    BY <1>0, <1>2, <2>1, AsksKept
  <2>2. CASE ~pod'.up
    BY <1>0, <2>2 DEF Asks, Busy, ModsOps
  <2> QED BY <2>1, <2>2
<1> QED BY <1>3, <1>4, <1>5 DEF ModsInv

LEMMA FailsKept ==
  ASSUME ModsInv, NEW s \in Slots, Fails(s),
         UNCHANGED <<files, gs, pod, maint, asked, edits, owed, loose, clash>>, failures' \in Nat
  PROVE  ModsInv'
<1> DEFINE lost == req[s].done /\ req[s].op \in ModsOps
           which == {s}
<1>0. /\ ModsTypes /\ req \in [Slots -> Requests] /\ missed \in BOOLEAN /\ maint \in BOOLEAN
      /\ pod \in [up : BOOLEAN, stamp : Nat, stale : BOOLEAN]
  BY ModsTypesAre DEF ModsInv
<1>1. /\ req' = [t \in Slots |-> IF t \in which THEN NoRequest ELSE req[t]]
      /\ missed' = (missed \/ lost)
  BY <1>0 DEF Fails
<1>2. lost \in BOOLEAN /\ (Busy(req[s]) => lost)
  <2>1. req[s].done \in BOOLEAN
    BY <1>0 DEF Requests
  <2> QED BY <2>1 DEF Busy
<1>3. which \in SUBSET Slots /\ \A t \in which : t = s
  OBVIOUS
<1> HIDE DEF lost, which
<1>4. missed' \in BOOLEAN /\ (missed => missed') /\ \A t \in which : Busy(req[t]) => missed'
  BY <1>0, <1>1, <1>2, <1>3
<1> QED BY <1>0, <1>1, <1>3, <1>4, EndsKept

LEMMA FinishKept ==
  ASSUME ModsInv, NEW s \in Slots, Finish(s)
  PROVE  ModsInv'
<1>0. ModsTypes /\ Sane(req[s])
  BY AboutRequest DEF ModsInv
<1>1. /\ req[s].pc \in {"open", "drop"} /\ Becomes(s, NoRequest)
      /\ UNCHANGED <<files, gs, pod, maint, asked, failures, edits, owed, loose, clash, missed>>
  BY DEF Finish, world, history
<1>2. ~Busy(req[s])
  BY <1>0, <1>1 DEF Sane, OpsAt, Busy, ModsOps
<1>3. ModsTypes'
  BY <1>0, <1>1, NothingAsked, BecomesQuiet, ModsTypesAre DEF ModsTypes
<1> QED BY <1>1, <1>2, <1>3, NothingAsked, SoftEnds, QuietStep

(* The environment.                                                         *)
LEMMA CutKept ==
  ASSUME ModsInv, NEW via, Cut(via), UNCHANGED <<files, gs, asked, edits, loose, clash, owed>>,
         pod' \in [up : BOOLEAN, stamp : Nat, stale : BOOLEAN], pod'.stamp = pod.stamp,
         pod'.up => pod' = pod, maint' \in BOOLEAN, failures' \in Nat
  PROVE  ModsInv'
<1>0. missed \in BOOLEAN
  BY ModsTypesAre DEF ModsInv
<1> DEFINE lost == \E s \in Through(via) : req[s].done /\ req[s].op \in ModsOps
<1>1. /\ req' = [s \in Slots |-> IF s \in Through(via) THEN NoRequest ELSE req[s]]
      /\ missed' = (missed \/ lost)
  BY DEF Cut
<1>2. lost \in BOOLEAN /\ \A s \in Through(via) : Busy(req[s]) => lost
  BY DEF Busy
<1> HIDE DEF lost
<1>3. missed' \in BOOLEAN /\ (missed => missed')
  BY <1>0, <1>1, <1>2
<1>4. Through(via) \in SUBSET Slots
  BY DEF Through
<1> QED BY <1>1, <1>2, <1>3, <1>4, EndsKept

LEMMA EnvironmentKept ==
  ASSUME ModsInv, SetState \/ UpdateModpack \/ PodStarts \/ PodGoes \/ MaintenanceEnds
  PROVE  ModsInv'
<1>0. /\ ModsTypes /\ Asks /\ req \in [Slots -> Requests]
      /\ gs \in [state : {"Running", "Stopped"}, changed : Nat, restart : BOOLEAN]
      /\ pod \in [up : BOOLEAN, stamp : Nat, stale : BOOLEAN]
      /\ edits \in Nat /\ failures \in Nat /\ maint \in BOOLEAN
  BY ModsTypesAre DEF ModsInv
<1>1. ASSUME SetState \/ UpdateModpack PROVE ModsInv'
  <2>1. /\ req' = [s \in Slots |-> [req[s] EXCEPT !.fresh = FALSE]] /\ edits' = edits + 1
        /\ UNCHANGED <<files, pod, maint, asked, failures, owed, loose, clash, missed>>
    BY <1>1 DEF SetState, UpdateModpack, history
  <2>2. gs' \in [state : {"Running", "Stopped"}, changed : Nat, restart : BOOLEAN]
        /\ gs'.changed = gs.changed
    <3>1. CASE SetState
      BY <1>0, <3>1 DEF SetState
    <3>2. CASE UpdateModpack
      <4> DEFINE again == gs.restart \/ gs.state = "Running"
      <4>1. again \in BOOLEAN /\ gs' = [gs EXCEPT !.restart = again]
        BY <1>0, <3>2 DEF UpdateModpack
      <4> HIDE DEF again
      <4> QED BY <1>0, <4>1
    <3> QED BY <1>1, <3>1, <3>2
  <2>3. \A s \in Slots : /\ req'[s] \in Requests /\ Like(req[s], req'[s])
                         /\ req'[s].at = req[s].at /\ req'[s].done = req[s].done
    BY <1>0, <2>1, StaleIs
  <2>4. req' \in [Slots -> Requests]
    BY <2>1, <2>3
  <2>5. ModsTypes'
    BY <1>0, <2>1, <2>2, <2>4, ModsTypesAre DEF ModsTypes
  <2>6. Between'
    BY <2>1, <2>3, <2>4, NothingChanges, QuietKept
  <2>7. Asks'
    BY <1>0, <2>1, <2>2, <2>3, NothingChanges, AsksKept
  <2> QED BY <2>5, <2>6, <2>7 DEF ModsInv
<1>2. CASE PodStarts
  <2>1. /\ pod' = [up |-> TRUE, stamp |-> gs.changed, stale |-> FALSE]
        /\ gs' = [gs EXCEPT !.restart = FALSE] /\ missed' = FALSE
        /\ UNCHANGED <<files, maint, req, asked, failures, edits, owed, loose, clash>>
    BY <1>2 DEF PodStarts
  <2>2. gs' \in [state : {"Running", "Stopped"}, changed : Nat, restart : BOOLEAN]
        /\ gs'.changed = gs.changed /\ gs.changed \in Nat
    BY <1>0, <2>1
  <2>3. ModsTypes'
    BY <1>0, <2>1, <2>2, ModsTypesAre DEF ModsTypes
  <2>4. Between'
    BY <1>0, <2>1, NothingChanges, LikeItself, QuietKept
  <2>5. Asks'
    BY <2>1, <2>2 DEF Asks
  <2> QED BY <2>3, <2>4, <2>5 DEF ModsInv
<1>3. CASE PodGoes
  <2>1. /\ pod' = [pod EXCEPT !.up = FALSE, !.stale = FALSE] /\ Cut("sidecar")
        /\ UNCHANGED <<files, gs, maint, asked, failures, edits, owed, loose, clash>>
    BY <1>3 DEF PodGoes
  <2>2. pod' \in [up : BOOLEAN, stamp : Nat, stale : BOOLEAN] /\ pod'.stamp = pod.stamp
        /\ ~pod'.up
    BY <1>0, <2>1
  <2> QED BY <1>0, <2>1, <2>2, CutKept
<1>4. CASE MaintenanceEnds
  <2>1. /\ failures' = failures + 1 /\ maint' = FALSE /\ Cut("maintenance")
        /\ UNCHANGED <<files, gs, pod, asked, edits, owed, loose, clash>>
    BY <1>4 DEF MaintenanceEnds
  <2>2. maint' \in BOOLEAN /\ failures' \in Nat
    <3>1. failures' \in Nat
      BY <1>0, <2>1
    <3>2. maint' \in BOOLEAN
      BY <2>1
    <3> QED BY <3>1, <3>2
  <2>3. /\ pod' \in [up : BOOLEAN, stamp : Nat, stale : BOOLEAN]
        /\ pod' = pod /\ pod'.stamp = pod.stamp
    BY <1>0, <2>1
  <2> QED BY <2>1, <2>2, <2>3, CutKept
<1> QED BY <1>1, <1>2, <1>3, <1>4

(* The plans.                                                               *)
LEMMA RefusedKept ==
  ASSUME ModsInv, NEW s \in Slots, req[s].pc = "list", Becomes(s, NoRequest),
         UNCHANGED <<files, gs, pod, maint, asked, edits, owed, loose, clash, missed>>,
         failures' \in Nat
  PROVE  ModsInv'
<1>0. ModsTypes /\ Sane(req[s])
  BY AboutRequest DEF ModsInv
<1>1. ~Busy(req[s])
  BY <1>0 DEF Sane, Busy
<1>2. ModsTypes'
  BY <1>0, NothingAsked, BecomesQuiet, ModsTypesAre DEF ModsTypes
<1> QED BY <1>1, <1>2, NothingAsked, SoftEnds, QuietStep

LEMMA PlannedKept ==
  ASSUME ModsInv, NEW s \in Slots, req[s].pc = "list", NEW r \in Requests, Becomes(s, r),
         NEW ns \in SUBSET Names, Means(s, ns), r.names \subseteq req[s].names \cup ns,
         r.pc = "create", Sane(r), Updates(r), r.wrote = {}, r.at = Nowhere,
         UNCHANGED <<files, gs, pod, maint, asked, edits, loose, missed>>, failures' \in Nat
  PROVE  ModsInv'
<1>0. ModsTypes /\ Between /\ Asks /\ Sane(req[s])
  BY AboutRequest DEF ModsInv
<1>1. ~Writing(r)
  BY DEF Writing
<1>2. owed' \in [Names -> Versions \cup {None}] /\ clash' \subseteq Names
  BY <1>0, ModsTypesAre DEF Means
<1>3. ModsTypes'
  BY <1>0, <1>2, BecomesQuiet, ModsTypesAre DEF ModsTypes
<1>4. Between'
  BY <1>0, <1>1, MeansKept
<1>5. ~Busy(req[s])
  BY <1>0 DEF Sane, Busy
<1>6. Asks'
  BY <1>0, <1>5, BecomesQuiet, AsksKept
<1> QED BY <1>3, <1>4, <1>6 DEF ModsInv

(* What there is to install, given where the projects that are present were *)
(* found; and s goes on to install it.                                      *)
Resolved(v, present, where, found, plan) ==
  LET chosen == UNION {Resolve(v, present)[d] : d \in 0..MaxDepth} IN
  /\ present \subseteq ProjectsIn(Listed)
  /\ where \in [present -> Names] /\ \A p \in present : where[p] \in Holding(p)
  /\ \A x \in chosen : ~Conflicts(x, where)
  /\ plan = WithJars(chosen, found)
PlanInstalls(s, plan) ==
  LET names == {File[v] : v \in plan} IN
  /\ \E present, where, found : Resolved(req[s].ver, present, where, found, plan)
  /\ Becomes(s, [req[s] EXCEPT !.pc = "create", !.plan = plan, !.names = names, !.quiet = TRUE])
  /\ Means(s, names)

LEMMA PlanInstallIs ==
  ASSUME NEW s, PlanInstall(s)
  PROVE  \E known \in BOOLEAN :
           /\ failures' = failures + (IF known THEN 0 ELSE 1)
           /\ \/ Becomes(s, NoRequest) /\ UNCHANGED <<owed, clash>>
              \/ \E plan : PlanInstalls(s, plan)
<1> DEFINE present(known) == IF known THEN ProjectsIn(Listed) ELSE {}
           chosen(known) == UNION {Resolve(req[s].ver, present(known))[d] : d \in 0..MaxDepth}
           plan(known, found) == WithJars(chosen(known), found)
           names(known, found) == {File[v] : v \in plan(known, found)}
           Wheres(known) == {w \in [present(known) -> Names] :
                              \A p \in present(known) : w[p] \in Holding(p)}
           Refused(known, where) == \/ Cardinality(chosen(known)) > MaxFiles
                                    \/ \E v \in chosen(known) : Conflicts(v, where)
<1>1. PICK known \in BOOLEAN, found \in SUBSET Needed :
        /\ failures' = failures + (IF known THEN 0 ELSE 1)
        /\ \E where \in Wheres(known) :
             IF Refused(known, where)
             THEN Becomes(s, NoRequest) /\ UNCHANGED <<owed, clash>>
             ELSE /\ Becomes(s, [req[s] EXCEPT !.pc = "create", !.plan = plan(known, found),
                                   !.names = names(known, found), !.quiet = TRUE])
                  /\ Means(s, names(known, found))
  BY DEF PlanInstall
<1>2. PICK where \in Wheres(known) :
             IF Refused(known, where)
             THEN Becomes(s, NoRequest) /\ UNCHANGED <<owed, clash>>
             ELSE /\ Becomes(s, [req[s] EXCEPT !.pc = "create", !.plan = plan(known, found),
                                   !.names = names(known, found), !.quiet = TRUE])
                  /\ Means(s, names(known, found))
  BY <1>1
<1>3. CASE Refused(known, where)
  BY <1>1, <1>2, <1>3
<1>4. CASE ~Refused(known, where)
  <2>1. present(known) \subseteq ProjectsIn(Listed)
    OBVIOUS
  <2>2. Resolved(req[s].ver, present(known), where, found, plan(known, found))
    <3> HIDE DEF present
    <3> QED BY <1>2, <1>4, <2>1 DEF Resolved
  <2> HIDE DEF plan
  <2>3. PlanInstalls(s, plan(known, found))
    BY <1>2, <1>4, <2>2 DEF PlanInstalls
  <2> QED BY <1>1, <2>3
<1> QED BY <1>3, <1>4

LEMMA PlanInstallKept ==
  ASSUME ModsInv, NEW s \in Slots, PlanInstall(s)
  PROVE  ModsInv'
<1>0. req[s] \in Requests /\ Sane(req[s]) /\ failures \in Nat
  BY AboutRequest
<1>1. /\ req[s].pc = "list" /\ req[s].op = "install"
      /\ UNCHANGED <<files, gs, pod, maint, asked, edits, loose, missed>>
  BY DEF PlanInstall, world
<1>2. PICK known \in BOOLEAN :
        /\ failures' = failures + (IF known THEN 0 ELSE 1)
        /\ \/ Becomes(s, NoRequest) /\ UNCHANGED <<owed, clash>>
           \/ \E plan : PlanInstalls(s, plan)
  BY PlanInstallIs
<1>3. failures' \in Nat
  <2>1. failures' = failures + (IF known THEN 0 ELSE 1)
    BY <1>2
  <2>2. CASE known
    BY <1>0, <2>1, <2>2
  <2>3. CASE ~known
    BY <1>0, <2>1, <2>3
  <2> QED BY <2>2, <2>3
<1>4. CASE Becomes(s, NoRequest) /\ UNCHANGED <<owed, clash>>
  BY <1>1, <1>3, <1>4, RefusedKept
<1>5. ASSUME NEW plan, PlanInstalls(s, plan) PROVE ModsInv'
  <2> DEFINE names == {File[v] : v \in plan}
  <2>0. /\ Becomes(s, [req[s] EXCEPT !.pc = "create", !.plan = plan, !.names = names,
                                     !.quiet = TRUE])
        /\ Means(s, names)
    BY <1>5 DEF PlanInstalls
  <2> DEFINE r == [req[s] EXCEPT !.pc = "create", !.plan = plan, !.names = names, !.quiet = TRUE]
  <2>1. plan \subseteq Versions
    <3>1. PICK present, where, found : Resolved(req[s].ver, present, where, found, plan)
      BY <1>5 DEF PlanInstalls
    <3> DEFINE chosen == UNION {Resolve(req[s].ver, present)[d] : d \in 0..MaxDepth}
    <3>2. \A d \in 0..MaxDepth : Resolve(req[s].ver, present)[d] \subseteq Versions
      BY <1>0, <1>1, ResolveChooses DEF Sane
    <3>3. chosen \subseteq Versions /\ plan = WithJars(chosen, found)
      BY <3>1, <3>2 DEF Resolved
    <3> HIDE DEF chosen
    <3> QED BY <3>3, WithJarsAdds
  <2>2. names \subseteq Names
    BY <2>1, FilesNamed
  <2> HIDE DEF names
  <2>3. /\ r \in Requests /\ r.pc = "create" /\ r.op = "install" /\ r.plan = plan
        /\ r.names = names /\ r.file = req[s].file /\ r.ver = req[s].ver /\ r.to = req[s].to
        /\ r.wrote = req[s].wrote /\ r.left = req[s].left /\ r.cur = req[s].cur
        /\ r.at = req[s].at /\ r.done = req[s].done
    <3>1. r \in Requests
      BY <1>0, <1>1, <2>1, <2>2, PcsNamed DEF Requests
    <3>2. /\ r.pc = "create" /\ r.op = "install" /\ r.plan = plan
          /\ r.names = names /\ r.file = req[s].file /\ r.ver = req[s].ver /\ r.to = req[s].to
          /\ r.wrote = req[s].wrote /\ r.left = req[s].left /\ r.cur = req[s].cur
          /\ r.at = req[s].at /\ r.done = req[s].done
      BY <1>0, <1>1, <2>1, <2>2 DEF Requests
    <3> QED BY <3>1, <3>2
  <2>4. Becomes(s, r)
    BY <2>0
  <2> HIDE DEF r
  <2>5. r.wrote = {} /\ r.at = Nowhere /\ Current(r) = {}
    BY <1>0, <1>1, <2>3 DEF Sane, Current, Writing
  <2>6. Sane(r)
    <3>1. \A v \in r.plan \cup r.wrote \cup Current(r) : v \in Versions /\ File[v] \in r.names
      BY <2>1, <2>3, <2>5 DEF names
    <3>2. r.left = {} /\ r.ver \in Versions
      BY <1>0, <1>1, <2>3 DEF Sane
    <3>3. r.op \in OpsAt(r.pc)
      BY <2>3 DEF OpsAt
    <3> QED BY <2>2, <2>3, <2>5, <3>1, <3>2, <3>3, PlacesAre DEF Sane
  <2>7. Updates(r)
    BY <2>3 DEF Updates
  <2> QED BY <1>1, <1>3, <2>0, <2>2, <2>3, <2>4, <2>5, <2>6, <2>7, PlannedKept
<1> QED BY <1>2, <1>4, <1>5

LEMMA PlanUpdateKept ==
  ASSUME ModsInv, NEW s \in Slots, PlanUpdate(s)
  PROVE  ModsInv'
<1> DEFINE there == files[Jar(req[s].file)]
           new == Latest[Project[there]]
           r == [req[s] EXCEPT !.pc = "create", !.plan = {new}, !.names = @ \cup {File[new]},
                               !.quiet = TRUE]
<1>0. req[s] \in Requests /\ Sane(req[s]) /\ failures \in Nat
  BY AboutRequest
<1>1. /\ req[s].pc = "list" /\ req[s].op = "update"
      /\ UNCHANGED <<files, gs, pod, maint, asked, failures, edits, loose, missed>>
  BY DEF PlanUpdate, world
<1>2. CASE there \in Versions /\ new # there
  <2>1. Becomes(s, r) /\ Means(s, {File[new]})
    BY <1>2 DEF PlanUpdate
  <2>2. new \in Versions /\ File[new] \in Names
    BY <1>2, CatalogAssumption
  <2> HIDE DEF there, new
  <2>3. /\ r \in Requests /\ r.pc = "create" /\ r.op = "update" /\ r.plan = {new}
        /\ r.names = req[s].names \cup {File[new]}
        /\ r.file = req[s].file /\ r.ver = req[s].ver /\ r.to = req[s].to
        /\ r.wrote = req[s].wrote /\ r.left = req[s].left /\ r.cur = req[s].cur
        /\ r.at = req[s].at /\ r.done = req[s].done
    <3>1. r \in Requests
      BY <1>0, <1>1, <2>2, PcsNamed DEF Requests
    <3>2. /\ r.pc = "create" /\ r.op = "update" /\ r.plan = {new}
          /\ r.names = req[s].names \cup {File[new]}
          /\ r.file = req[s].file /\ r.ver = req[s].ver /\ r.to = req[s].to
          /\ r.wrote = req[s].wrote /\ r.left = req[s].left /\ r.cur = req[s].cur
          /\ r.at = req[s].at /\ r.done = req[s].done
      BY <1>0, <1>1, <2>2 DEF Requests
    <3> QED BY <3>1, <3>2
  <2> HIDE DEF r
  <2>4. r.wrote = {} /\ r.at = Nowhere /\ Current(r) = {} /\ ~Writing(r)
    BY <1>0, <1>1, <2>3 DEF Sane, Current, Writing
  <2>5. Sane(r)
    BY <1>0, <1>1, <2>2, <2>3, <2>4, PlacesAre DEF Sane, OpsAt
  <2>6. Updates(r)
    BY <2>2, <2>3, <2>4 DEF Updates
  <2>7. {File[new]} \in SUBSET Names /\ failures' \in Nat
    BY <1>0, <1>1, <2>2
  <2> QED BY <1>1, <2>1, <2>3, <2>4, <2>5, <2>6, <2>7, PlannedKept
<1>3. CASE ~(there \in Versions /\ new # there)
  <2>1. Becomes(s, NoRequest) /\ UNCHANGED <<owed, clash>>
    BY <1>3 DEF PlanUpdate
  <2> QED BY <1>0, <1>1, <2>1, RefusedKept
<1> QED BY <1>2, <1>3

-----------------------------------------------------------------------------
LEMMA ModsInitially == ModsInit => ModsInv
<1> SUFFICES ASSUME ModsInit PROVE ModsInv
  OBVIOUS
<1>1. PICK dir \in Initial : files = [p \in Places |-> IF p[2] = "jar" THEN dir[p[1]] ELSE None]
  BY DEF ModsInit
<1>2. PICK runs \in BOOLEAN :
        /\ gs = [state |-> IF runs THEN "Running" ELSE "Stopped", changed |-> 0, restart |-> FALSE]
        /\ pod = [up |-> runs, stamp |-> 0, stale |-> FALSE]
  BY DEF ModsInit
<1>3. /\ maint = FALSE /\ req = [s \in Slots |-> NoRequest]
      /\ asked = 0 /\ failures = 0 /\ edits = 0 /\ owed = [n \in Names |-> None]
      /\ loose = {} /\ clash = {} /\ missed = FALSE
  BY DEF ModsInit
<1>4. dir \in [Names -> Versions \cup {None, Own}]
  BY ContentAssumption
<1>5. \A n \in Names : /\ files[Jar(n)] = dir[n] /\ files[Part(n)] = None
  <2>1. \A n \in Names : /\ Jar(n)[2] = "jar" /\ Jar(n)[1] = n /\ Part(n)[2] = "part"
                         /\ Jar(n) \in Places /\ Part(n) \in Places
    BY DEF Jar, Part, Places
  <2> QED BY <1>1, <2>1
<1>6. files \in [Places -> Contents]
  <2>1. \A p \in Places : files[p] \in Contents
    <3>1. \A n \in Names : files[Jar(n)] \in Contents /\ files[Part(n)] \in Contents
      BY <1>4, <1>5, FilesNamed
    <3> QED BY <3>1 DEF Places
  <2> QED BY <1>1, <2>1
<1>7. \A s \in Slots : req[s] = NoRequest
  BY <1>3
<1>8. ModsTypes
  <2>1. req \in [Slots -> Requests]
    BY <1>3, NothingAsked
  <2>2. gs \in [state : {"Running", "Stopped"}, changed : Nat, restart : BOOLEAN]
        /\ pod \in [up : BOOLEAN, stamp : Nat, stale : BOOLEAN]
    BY <1>2
  <2> QED BY <1>3, <1>6, <2>1, <2>2 DEF ModsTypes
<1>9. AllSane
  BY <1>7, NothingAsked DEF AllSane
<1>10. \A n \in Names : Closed(n)
  <2>1. NoRequest.at = Nowhere
    BY DEF NoRequest
  <2> QED BY <1>7, <2>1, PlacesAre DEF Closed
<1>11. Clashes /\ Temporaries /\ AllRemain
  <2>1. NoRequest.names = {} /\ ~Writing(NoRequest) /\ \A v \in Versions : ~Left(NoRequest, v)
    BY DEF NoRequest, Writing, Left
  <2> QED BY <1>7, <2>1 DEF Clashes, Temporaries, Temporary, AllRemain, Remains
<1>12. Whole
  <2>1. \A n \in Names : files[Jar(n)] # Torn
    BY <1>4, <1>5, FilesNamed
  <2> QED BY <1>10, <2>1 DEF Whole
<1>13. Paid
  BY <1>3 DEF Paid
<1>14. Asks
  BY <1>2 DEF Asks
<1> QED BY <1>8, <1>9, <1>11, <1>12, <1>13, <1>14 DEF ModsInv, Between

LEMMA HandleKept ==
  ASSUME ModsInv, NEW s \in Slots, Handle(s)
  PROVE  ModsInv'
<1>1. CASE Gone(s)
  <2>1. CASE /\ Fails(s)
             /\ UNCHANGED <<files, world, asked, failures, edits, owed, loose, clash>>
    <3>1. UNCHANGED <<files, gs, pod, maint, asked, edits, owed, loose, clash>>
          /\ failures' \in Nat
      BY <2>1, AboutRequest DEF world
    <3> QED BY <2>1, <3>1, FailsKept
  <2>2. CASE /\ req[s].pc = "unlink"
             /\ Call(s, NoRequest, Removed(Part(Name(s))), Part(Name(s)), Nowhere)
             /\ missed' = (missed \/ req[s].done)
             /\ UNCHANGED <<failures, owed, loose, clash>>
    <3>1. Sane(req[s]) /\ failures' \in Nat
      BY <2>2, AboutRequest
    <3>2. req[s].op # "put"
      BY <2>2, <3>1 DEF Sane, OpsAt
    <3> QED BY <2>2, <3>1, <3>2, GoneKept
  <2> QED BY <1>1, <2>1, <2>2 DEF Gone
<1>2. CASE Breaks(s)
  <2>1. failures' \in Nat /\ UNCHANGED <<owed, loose, clash>>
    <3>1. failures \in Nat /\ failures' = failures + 1
      BY <1>2, AboutRequest DEF Breaks
    <3> QED BY <1>2, <3>1 DEF Breaks
  <2>2. CASE Fails(s) /\ UNCHANGED <<files, world, asked, edits>>
    BY <2>1, <2>2, FailsKept DEF world
  <2>3. CASE /\ req[s].pc \in {"write", "unlink"} /\ req[s].op # "put"
             /\ Call(s, NoRequest, Removed(Part(Name(s))), Part(Name(s)), Nowhere)
             /\ missed' = (missed \/ req[s].done)
    BY <2>1, <2>3, GoneKept
  <2> QED BY <1>2, <2>2, <2>3 DEF Breaks
<1> QED
  BY <1>1, <1>2, RequestsKept, ConnectKept, PlanInstallKept, PlanUpdateKept, CreatePartKept,
     WriteKept, StatFinalKept, RemoveFinalKept, RenamePartKept, RemoveOldKept, CheckRemoveKept,
     RemoveModKept, ReadServerKept, FlagKept, FlagConflictsKept, OpenPlaceKept, DeletePathKept,
     RenameFileKept, FinishKept DEF Handle

LEMMA ModsStays == ModsInv /\ [ModsNext]_modsVars => ModsInv'
<1> SUFFICES ASSUME ModsInv, [ModsNext]_modsVars PROVE ModsInv'
  OBVIOUS
<1>1. CASE ModsNext
  BY <1>1, HandleKept, EnvironmentKept DEF ModsNext
<1>2. CASE UNCHANGED modsVars
  <2>1. UNCHANGED <<files, gs, pod, maint, req, asked, failures, edits, owed, loose, clash, missed>>
    BY <1>2 DEF modsVars
  <2>2. ModsTypes /\ Asks
    BY DEF ModsInv
  <2>3. ModsTypes'
    BY <2>1, <2>2, ModsTypesAre DEF ModsTypes
  <2>4. Between'
    BY <2>1, <2>2, NothingChanges, LikeItself, QuietKept, ModsTypesAre
  <2>5. Asks'
    BY <2>1, <2>2 DEF Asks
  <2> QED BY <2>3, <2>4, <2>5 DEF ModsInv
<1> QED BY <1>1, <1>2

LEMMA ModsHolds == ModsSpec => []ModsInv
BY ModsInitially, ModsStays, PTL DEF ModsSpec

(* Every variable keeps its type, for any number of requests at once, any   *)
(* catalog and any number of failures, in modsinstall.go and files.go.      *)
THEOREM ModsTypeCorrect == ModsSpec => []ModsTypes
<1>1. ModsInv => ModsTypes
  BY DEF ModsInv
<1> QED BY <1>1, ModsHolds, PTL

(* The server never finds a half-written jar, however many requests write   *)
(* to the directory and wherever they stop (writeModFile), but under names  *)
(* the file manager writes in place or two requests meant at once.          *)
THEOREM JarsWhole == ModsSpec => []WholeJars
<1>1. ModsInv => WholeJars
  BY DEF ModsInv, Between, Whole, WholeJars
<1> QED BY <1>1, ModsHolds, PTL

(* What an install or an update answered stays there until a later request  *)
(* means that file (handleInstallMod, handleUpdateMod).                     *)
THEOREM OwedKept == ModsSpec => []OwedThere
<1>1. ModsInv => OwedThere
  BY DEF ModsInv, Between, Paid, OwedThere
<1> QED BY <1>1, ModsHolds, PTL

(* A server that runs with older mods is flagged for a restart once the     *)
(* requests are over, if none of them stopped early (markFilesChanged).     *)
THEOREM FlaggedHolds == ModsSpec => []Flagged
<1>1. ModsInv => Flagged
  BY DEF ModsInv, Asks, Busy, Flagged
<1> QED BY <1>1, ModsHolds, PTL

-----------------------------------------------------------------------------
(* What an install delivers.                                                *)

(* A plan covers what its versions require: another one of them is of that  *)
(* project, or a jar is that no file of the plan replaces.                  *)
LEMMA PlanCovers ==
  ASSUME NEW v \in Versions, NEW present, NEW where, NEW found, NEW plan,
         Resolved(v, present, where, found, plan),
         NEW w \in plan, Leads(v, plan, w), NEW p \in Deps[w]
  PROVE  \/ \E x \in plan : Project[x] = p
         \/ \E n \in Holding(p) : \A x \in plan : n # File[x]
<1> DEFINE level == Resolve(v, present)
           chosen == UNION {level[d] : d \in 0..MaxDepth}
<1>0. /\ MaxDepth \in Nat /\ File \in [Versions -> Names]
      /\ present \subseteq ProjectsIn(Listed)
      /\ where \in [present -> Names] /\ \A q \in present : where[q] \in Holding(q)
      /\ \A x \in chosen : ~Conflicts(x, where)
      /\ plan = WithJars(chosen, found)
  BY LimitAssumption, CatalogAssumption DEF Resolved
<1>1. PICK d \in 0..(MaxDepth - 1) : w \in level[d]
  <2>1. present \subseteq ProjectsIn(Listed) /\ plan = WithJars(chosen, found) /\ Leads(v, plan, w)
    BY <1>0
  <2> QED BY <2>1, LeadsThrough
<1>2. /\ \A e \in 0..MaxDepth : level[e] \subseteq Versions
      /\ \/ p \in present \/ Latest[p] \in level[d + 1]
         \/ \E e \in 0..d : \E x \in level[e] : Project[x] = p
  BY <1>1, ResolveChooses
<1>3. \A e \in 0..MaxDepth : level[e] \subseteq chosen
  OBVIOUS
<1>4. chosen \subseteq Versions
  <2>1. \A x \in chosen : \E e \in 0..MaxDepth : x \in level[e]
    BY Zenon
  <2> HIDE DEF level
  <2> QED BY <1>2, <2>1
<1> HIDE DEF level, chosen
<1>5. /\ chosen \subseteq plan /\ plan \subseteq Versions
      /\ \A x \in plan \ chosen : files[Jar(File[x])] = None
  <2>1. chosen \in SUBSET Versions
    BY <1>4
  <2>2. /\ chosen \subseteq WithJars(chosen, found) /\ WithJars(chosen, found) \subseteq Versions
        /\ \A x \in WithJars(chosen, found) \ chosen : files[Jar(File[x])] = None
    BY <2>1, WithJarsAdds
  <2> QED BY <1>0, <2>2
<1>6. p \in Projects /\ Project[Latest[p]] = p
  BY <1>5, CatalogAssumption
<1>7. CASE Latest[p] \in level[d + 1]
  <2>1. d + 1 \in 0..MaxDepth
    BY <1>0
  <2> QED BY <1>3, <1>5, <1>6, <1>7, <2>1
<1>8. CASE \E e \in 0..d : \E x \in level[e] : Project[x] = p
  <2>1. PICK e \in 0..d : \E x \in level[e] : Project[x] = p
    BY <1>8
  <2>2. e \in 0..MaxDepth
    BY <1>0, <2>1
  <2> QED BY <1>3, <1>5, <2>1, <2>2
<1>9. CASE p \in present
  <2> DEFINE n == where[p]
  <2>1. n \in Holding(p) /\ n \in Names /\ files[Jar(n)] \in Versions /\ Project[files[Jar(n)]] = p
    BY <1>0, <1>9 DEF Holding
  <2> HIDE DEF n
  <2>2. ASSUME NEW x \in plan, n = File[x] PROVE Project[x] = p
    <3>1. files[Jar(File[x])] # None
      BY <2>1, <2>2, FilesNamed
    <3>2. x \in chosen
      BY <1>5, <3>1
    <3>3. Project[x] \in present /\ where[Project[x]] = n
      BY <1>0, <2>2, <3>1, <3>2 DEF Conflicts
    <3>4. n \in Holding(Project[x])
      BY <1>0, <3>3
    <3> QED BY <2>1, <3>4 DEF Holding
  <2> QED BY <2>1, <2>2
<1> QED BY <1>2, <1>7, <1>8, <1>9

(* What an install means to have in the directory, and that it covers it.   *)
Chosen(r) == r.plan \cup r.wrote \cup Current(r)
Planned(r) == r.op = "install" /\ r.pc \notin {"connect", "list"} /\ r.quiet
Covers(r) == \A v \in Chosen(r) : Leads(r.ver, Chosen(r), v) => \A p \in Deps[v] :
  \/ \E w \in Chosen(r) : Project[w] = p
  \/ \E n \in Holding(p) : n \notin r.names
Fulfils(r) == Planned(r) /\ r.names \cap clash = {} /\ OneEach(Chosen(r)) => Covers(r)
AllFulfil == \A s \in Slots : Fulfils(req[s])

(* x goes on with what r planned.                                           *)
GoesOn(r, x) == Planned(x) =>
  /\ Planned(r) /\ x.ver = r.ver /\ x.names = r.names /\ Chosen(x) = Chosen(r)

LEMMA CoversStay ==
  ASSUME NEW r, NEW x, Fulfils(r), GoesOn(r, x), clash \subseteq clash',
         \/ Chosen(x) = {}
         \/ Planned(x) /\ x.names \cap clash' = {} =>
              \A n \in Names \ x.names : files'[Jar(n)] = files[Jar(n)]
  PROVE  Planned(x) /\ x.names \cap clash' = {} /\ OneEach(Chosen(x)) =>
           \A v \in Chosen(x) : Leads(x.ver, Chosen(x), v) => \A p \in Deps[v] :
             \/ \E w \in Chosen(x) : Project[w] = p
             \/ \E n \in Holding(p)' : n \notin x.names
<1> SUFFICES ASSUME Planned(x), x.names \cap clash' = {}, OneEach(Chosen(x)),
                    NEW v \in Chosen(x), Leads(x.ver, Chosen(x), v), NEW p \in Deps[v],
                    ~\E w \in Chosen(x) : Project[w] = p
             PROVE  \E n \in Holding(p)' : n \notin x.names
  OBVIOUS
<1>1. Planned(r) /\ x.ver = r.ver /\ x.names = r.names /\ Chosen(x) = Chosen(r)
  BY DEF GoesOn
<1>2. \A n \in Names \ x.names : files'[Jar(n)] = files[Jar(n)]
  OBVIOUS
<1>3. PICK n \in Holding(p) : n \notin r.names
  BY <1>1 DEF Fulfils, Covers
<1>4. n \in Holding(p)'
  BY <1>1, <1>2, <1>3 DEF Holding, Jar
<1> QED BY <1>1, <1>3, <1>4

LEMMA FulfilsOn ==
  ASSUME NEW t \in Slots, NEW x, req'[t] = x, Fulfils(req[t]), GoesOn(req[t], x),
         clash \subseteq clash',
         \/ Chosen(x) = {}
         \/ Planned(x) /\ x.names \cap clash' = {} =>
              \A n \in Names \ x.names : files'[Jar(n)] = files[Jar(n)]
  PROVE  Fulfils(req[t])'
BY CoversStay DEF Fulfils, Covers, Planned, Chosen, Current, Writing, OneEach, Leads

(* Nothing moves in the directory.                                          *)
LEMMA StillFulfils ==
  ASSUME AllFulfil, files' = files, clash \subseteq clash',
         \A t \in Slots : GoesOn(req[t], req'[t])
  PROVE  AllFulfil'
<1> SUFFICES ASSUME NEW t \in Slots PROVE Fulfils(req[t])'
  BY DEF AllFulfil
<1>1. Fulfils(req[t]) /\ GoesOn(req[t], req'[t])
  BY DEF AllFulfil
<1> QED BY <1>1, CoversStay DEF Fulfils, Covers, Planned, Chosen, Current, Writing, OneEach, Leads

(* An SFTP call: another install that a jar changed under is not alone.     *)
LEMMA CallFulfils ==
  ASSUME ModsInv, AllFulfil, NEW s \in Slots, NEW r \in Requests, NEW dir, NEW from, NEW to,
         Call(s, r, dir, from, to), clash \subseteq clash', GoesOn(req[s], r),
         Planned(r) /\ r.names \cap clash' = {} =>
           \A n \in Names \ r.names : dir[Jar(n)] = files[Jar(n)]
  PROVE  AllFulfil'
<1>0. req \in [Slots -> Requests]
  BY AboutRequest
<1> DEFINE changed == \E n \in Names : dir[Jar(n)] # files[Jar(n)]
           at(t) == IF req[t].at = from THEN to ELSE IF req[t].at = to THEN Nowhere ELSE req[t].at
           mine == [r EXCEPT !.done = (r.done \/ changed)]
           theirs(t) == [req[t] EXCEPT !.at = at(t), !.quiet = @ /\ (t \notin Working \/ ~changed)]
<1>1. /\ files' = dir
      /\ req' = [t \in Slots |-> IF t = s THEN mine ELSE theirs(t)]
  BY DEF Call
<1>2. CASE TRUE
  <2> SUFFICES ASSUME NEW t \in Slots PROVE Fulfils(req[t])'
    BY DEF AllFulfil
  <2>1. Fulfils(req[t]) /\ req[t] \in Requests /\ Sane(req[t])
    BY <1>0, AboutRequest DEF AllFulfil
  <2>2. CASE t = s
    <3>1. req'[t] = mine
      BY <1>1, <2>2
    <3>2. /\ mine.op = r.op /\ mine.pc = r.pc /\ mine.ver = r.ver /\ mine.names = r.names
          /\ mine.plan = r.plan /\ mine.wrote = r.wrote /\ mine.cur = r.cur /\ mine.quiet = r.quiet
      BY DEF Requests
    <3> HIDE DEF mine
    <3>3. Planned(mine) = Planned(r) /\ Chosen(mine) = Chosen(r)
      BY <3>2 DEF Planned, Chosen, Current, Writing
    <3>4. GoesOn(req[t], mine)
      BY <2>2, <3>2, <3>3 DEF GoesOn
    <3>5. Planned(mine) /\ mine.names \cap clash' = {} =>
             \A n \in Names \ mine.names : files'[Jar(n)] = files[Jar(n)]
      BY <1>1, <3>2, <3>3
    <3> QED BY <2>1, <3>1, <3>4, <3>5, FulfilsOn
  <2>3. CASE t # s
    <3>1. req'[t] = theirs(t)
      BY <1>1, <2>3
    <3>2. /\ theirs(t).op = req[t].op /\ theirs(t).pc = req[t].pc /\ theirs(t).ver = req[t].ver
          /\ theirs(t).names = req[t].names /\ theirs(t).plan = req[t].plan
          /\ theirs(t).wrote = req[t].wrote /\ theirs(t).cur = req[t].cur
          /\ theirs(t).quiet => req[t].quiet /\ (t \notin Working \/ ~changed)
      BY <2>1 DEF Requests
    <3> HIDE DEF theirs, changed
    <3>3. Chosen(theirs(t)) = Chosen(req[t])
      BY <3>2 DEF Chosen, Current, Writing
    <3>4. GoesOn(req[t], theirs(t))
      BY <3>2, <3>3 DEF GoesOn, Planned
    <3>5. \/ Chosen(theirs(t)) = {}
          \/ Planned(theirs(t)) => \A n \in Names : files'[Jar(n)] = files[Jar(n)]
      <4>1. CASE t \notin Working
        <5>1. req[t].names = {} \/ req[t].op # "install"
          BY <4>1 DEF Working
        <5>2. Planned(theirs(t)) => Chosen(req[t]) = {}
          BY <2>1, <3>2, <5>1 DEF Sane, Chosen, Planned
        <5> QED BY <3>3, <5>2
      <4>2. CASE t \in Working
        <5>1. Planned(theirs(t)) => ~changed
          BY <3>2, <4>2 DEF Planned
        <5> QED BY <1>1, <5>1 DEF changed
      <4> QED BY <4>1, <4>2
    <3> QED BY <1>1, <2>1, <3>1, <3>2, <3>3, <3>4, <3>5, FulfilsOn
  <2> QED BY <2>2, <2>3
<1> QED BY <1>2

(* Only s moves on, and the directory is as it was.                         *)
LEMMA BecomesFulfils ==
  ASSUME ModsInv, AllFulfil, NEW s \in Slots, NEW r, Becomes(s, r), GoesOn(req[s], r),
         files' = files, clash \subseteq clash'
  PROVE  AllFulfil'
<1>0. req \in [Slots -> Requests]
  BY AboutRequest
<1>1. req'[s] = r /\ \A t \in Slots \ {s} : req'[t] = req[t]
  BY <1>0 DEF Becomes
<1>2. \A x : GoesOn(x, x)
  BY DEF GoesOn
<1>3. \A t \in Slots : GoesOn(req[t], req'[t])
  BY <1>1, <1>2
<1> QED BY <1>3, StillFulfils

LEMMA NotPlanned ==
  /\ ~Planned(NoRequest) /\ \A r, x : ~Planned(x) => GoesOn(r, x)
BY DEF NoRequest, Planned, GoesOn

(* The calls of an install change jars only under its own names.            *)
LEMMA InstallFulfils ==
  ASSUME ModsInv, AllFulfil, NEW s \in Slots,
         CreatePart(s) \/ Write(s) \/ RemoveFinal(s) \/ RenamePart(s)
  PROVE  AllFulfil'
<1>0. /\ req[s] \in Requests /\ Sane(req[s]) /\ Temporary(s) /\ files \in [Places -> Contents]
      /\ req[s].names \subseteq Names
  BY AboutRequest
<1>1. CASE CreatePart(s)
  <2>1. PICK v \in req[s].plan :
          Call(s, [req[s] EXCEPT !.pc = "write", !.cur = v, !.plan = @ \ {v}, !.at = Part(File[v])],
               [files EXCEPT ![Part(File[v])] = Torn], Nowhere, Nowhere)
    BY <1>1 DEF CreatePart
  <2>2. req[s].pc = "create" /\ clash' = clash
    BY <1>1 DEF CreatePart, history
  <2> DEFINE r == [req[s] EXCEPT !.pc = "write", !.cur = v, !.plan = @ \ {v}, !.at = Part(File[v])]
             dir == [files EXCEPT ![Part(File[v])] = Torn]
  <2>3. v \in Versions /\ File[v] \in Names
    BY <1>0 DEF Sane
  <2>4. /\ r \in Requests /\ r.op = req[s].op /\ r.pc = "write" /\ r.cur = v /\ r.ver = req[s].ver
        /\ r.plan = req[s].plan \ {v} /\ r.wrote = req[s].wrote /\ r.names = req[s].names
        /\ r.quiet = req[s].quiet
    <3>1. r \in Requests
      BY <1>0, <2>3, PlacesAre, PcsNamed DEF Requests
    <3>2. /\ r.op = req[s].op /\ r.pc = "write" /\ r.cur = v /\ r.ver = req[s].ver
          /\ r.plan = req[s].plan \ {v} /\ r.wrote = req[s].wrote /\ r.names = req[s].names
          /\ r.quiet = req[s].quiet
      BY <1>0, <2>3, PlacesAre DEF Requests
    <3> QED BY <3>1, <3>2
  <2>5. \A n \in Names : dir[Jar(n)] = files[Jar(n)]
    BY <1>0, <2>3, PlacesAre
  <2> HIDE DEF r, dir
  <2>6. Planned(r) => Chosen(r) = Chosen(req[s])
    BY <2>2, <2>4 DEF Chosen, Current, Writing, Planned
  <2>7. GoesOn(req[s], r)
    BY <2>2, <2>4, <2>6 DEF GoesOn, Planned
  <2> QED BY <2>1, <2>2, <2>4, <2>5, <2>7, CallFulfils DEF r, dir
<1>2. CASE Write(s)
  <2> DEFINE at == req[s].at
             next == IF req[s].op = "put" THEN "open" ELSE "stat"
             r == [req[s] EXCEPT !.pc = next, !.at = Nowhere]
  <2>1. PICK dir :
          /\ Call(s, r, dir, Nowhere, Nowhere)
          /\ dir = files \/ \E c : dir = [files EXCEPT ![at] = c]
    BY <1>2 DEF Write
  <2>2. req[s].pc = "write" /\ clash' = clash
    BY <1>2 DEF Write, history
  <2>3. /\ r \in Requests /\ r.op = req[s].op /\ r.cur = req[s].cur /\ r.ver = req[s].ver
        /\ r.pc = next
        /\ r.plan = req[s].plan /\ r.wrote = req[s].wrote /\ r.names = req[s].names
        /\ r.quiet = req[s].quiet
    <3>1. next \in {"open", "stat"}
      OBVIOUS
    <3> HIDE DEF next
    <3>2. r \in Requests
      BY <1>0, <3>1, PcsNamed DEF Requests
    <3>3. /\ r.op = req[s].op /\ r.cur = req[s].cur /\ r.ver = req[s].ver /\ r.pc = next
          /\ r.plan = req[s].plan /\ r.wrote = req[s].wrote /\ r.names = req[s].names
          /\ r.quiet = req[s].quiet
      BY <1>0 DEF Requests
    <3> HIDE DEF r
    <3> QED BY <3>2, <3>3
  <2> HIDE DEF r
  <2>4. Planned(r) => Chosen(r) = Chosen(req[s])
    BY <2>2, <2>3 DEF Chosen, Current, Writing, Planned
  <2>5. GoesOn(req[s], r)
    BY <2>2, <2>3, <2>4 DEF GoesOn, Planned
  <2>6. ASSUME Planned(r), r.names \cap clash' = {}
        PROVE  \A n \in Names : dir[Jar(n)] = files[Jar(n)]
    <3>1. Writing(req[s]) /\ Name(s) \in req[s].names /\ Name(s) \in Names
      BY <1>0, <2>2, <2>3, <2>6 DEF Planned, Writing, Sane, Current, Name
    <3>2. at = Part(Name(s))
      BY <1>0, <2>2, <2>3, <2>6, <3>1 DEF Temporary
    <3> HIDE DEF at
    <3> QED BY <1>0, <2>1, <3>1, <3>2, PlacesAre
  <2> QED BY <2>1, <2>2, <2>3, <2>5, <2>6, CallFulfils
<1>3. CASE RemoveFinal(s)
  <2> DEFINE r == [req[s] EXCEPT !.pc = "rename"]
             dir == Removed(Jar(Name(s)))
  <2>1. Call(s, r, dir, Jar(Name(s)), Nowhere) /\ req[s].pc = "unlink" /\ clash' = clash
    BY <1>3 DEF RemoveFinal, history
  <2>2. Writing(req[s]) /\ Name(s) \in req[s].names /\ Name(s) \in Names
    BY <1>0, <2>1 DEF Writing, Sane, Current, Name, OpsAt
  <2>3. /\ r \in Requests /\ r.op = req[s].op /\ r.cur = req[s].cur /\ r.ver = req[s].ver
        /\ r.pc = "rename" /\ r.plan = req[s].plan /\ r.wrote = req[s].wrote
        /\ r.names = req[s].names /\ r.quiet = req[s].quiet
    <3>1. r \in Requests
      BY <1>0, PcsNamed DEF Requests
    <3>2. /\ r.op = req[s].op /\ r.cur = req[s].cur /\ r.ver = req[s].ver
          /\ r.pc = "rename" /\ r.plan = req[s].plan /\ r.wrote = req[s].wrote
          /\ r.names = req[s].names /\ r.quiet = req[s].quiet
      BY <1>0 DEF Requests
    <3> QED BY <3>1, <3>2
  <2>4. \A n \in Names \ req[s].names : dir[Jar(n)] = files[Jar(n)]
    BY <1>0, <2>2, PlacesAre, RemovedIs
  <2> HIDE DEF r, dir
  <2>5. Chosen(r) = Chosen(req[s])
    BY <2>1, <2>3 DEF Chosen, Current, Writing
  <2>6. GoesOn(req[s], r)
    BY <2>1, <2>3, <2>5 DEF GoesOn, Planned
  <2> QED BY <2>1, <2>3, <2>4, <2>6, CallFulfils
<1>4. CASE RenamePart(s)
  <2> DEFINE from == Part(Name(s))
             to == Jar(Name(s))
             next == IF req[s].plan # {} THEN "create"
                     ELSE IF req[s].op = "update" /\ Name(s) # req[s].file THEN "old" ELSE "mark"
             r == [req[s] EXCEPT !.pc = next, !.wrote = @ \cup {req[s].cur}]
             dir == [Removed(from) EXCEPT ![to] = files[from]]
  <2>1. Call(s, r, dir, from, to) /\ req[s].pc = "rename" /\ clash' = clash
    BY <1>4 DEF RenamePart, history
  <2>2. Writing(req[s]) /\ Name(s) \in req[s].names /\ Name(s) \in Names
    BY <1>0, <2>1 DEF Writing, Sane, Current, Name, OpsAt
  <2>3. next \in {"create", "old", "mark"}
    OBVIOUS
  <2>4. req[s].cur \in Versions
    BY <1>0, <2>2 DEF Sane, Current
  <2>5. \A n \in Names \ req[s].names : dir[Jar(n)] = files[Jar(n)]
    BY <1>0, <2>2, PlacesAre, RemovedIs
  <2> HIDE DEF next, dir, from, to
  <2>6. /\ r \in Requests /\ r.op = req[s].op /\ r.cur = req[s].cur /\ r.ver = req[s].ver
        /\ r.pc \in {"create", "old", "mark"} /\ r.plan = req[s].plan
        /\ r.wrote = req[s].wrote \cup {req[s].cur}
        /\ r.names = req[s].names /\ r.quiet = req[s].quiet
    <3>1. r \in Requests
      BY <1>0, <2>3, <2>4, PcsNamed DEF Requests
    <3>2. /\ r.op = req[s].op /\ r.cur = req[s].cur /\ r.ver = req[s].ver
          /\ r.pc \in {"create", "old", "mark"} /\ r.plan = req[s].plan
          /\ r.wrote = req[s].wrote \cup {req[s].cur}
          /\ r.names = req[s].names /\ r.quiet = req[s].quiet
      BY <1>0, <2>3, <2>4 DEF Requests
    <3> QED BY <3>1, <3>2
  <2> HIDE DEF r
  <2>7. Chosen(r) = Chosen(req[s])
    BY <2>1, <2>2, <2>6 DEF Chosen, Current, Writing
  <2>8. GoesOn(req[s], r)
    BY <2>1, <2>6, <2>7 DEF GoesOn, Planned
  <2> QED BY <2>1, <2>5, <2>6, <2>8, CallFulfils
<1> QED BY <1>1, <1>2, <1>3, <1>4

(* Those of others, and the last one of one that fails.                     *)
LEMMA OthersFulfil ==
  ASSUME ModsInv, AllFulfil, NEW s \in Slots,
         RemoveOld(s) \/ RemoveMod(s) \/ OpenPlace(s) \/ DeletePath(s) \/ RenameFile(s)
  PROVE  AllFulfil'
<1>0. /\ req[s] \in Requests /\ Sane(req[s]) /\ clash \subseteq clash'
  BY AboutRequest DEF RemoveOld, RemoveMod, OpenPlace, DeletePath, RenameFile, history
<1>o. req[s].pc \in {"old", "remove", "open", "drop"} => req[s].op # "install"
  BY <1>0 DEF Sane, OpsAt
<1>1. CASE RenameFile(s)
  BY <1>0, <1>1, NotPlanned, NothingAsked, CallFulfils DEF RenameFile
<1>2. CASE RemoveOld(s)
  <2> DEFINE r == [req[s] EXCEPT !.pc = "mark"]
  <2>1. \E dir, from : Call(s, r, dir, from, Nowhere) /\ req[s].pc = "old"
    BY <1>2 DEF RemoveOld
  <2>2. r \in Requests /\ r.op # "install"
    <3>1. r \in Requests
      BY <1>0, PcsNamed DEF Requests
    <3>2. r.op = req[s].op
      BY <1>0 DEF Requests
    <3> QED BY <1>o, <2>1, <3>1, <3>2
  <2> HIDE DEF r
  <2> QED BY <1>0, <2>1, <2>2, NotPlanned, CallFulfils DEF Planned
<1>3. CASE RemoveMod(s)
  <2> DEFINE r == [req[s] EXCEPT !.pc = "mark"]
  <2>1. \E dir, from : Call(s, r, dir, from, Nowhere) /\ req[s].pc = "remove"
    BY <1>3 DEF RemoveMod
  <2>2. r \in Requests /\ r.op # "install"
    <3>1. r \in Requests
      BY <1>0, PcsNamed DEF Requests
    <3>2. r.op = req[s].op
      BY <1>0 DEF Requests
    <3> QED BY <1>o, <2>1, <3>1, <3>2
  <2> HIDE DEF r
  <2> QED BY <1>0, <2>1, <2>2, NotPlanned, CallFulfils DEF Planned
<1>4. CASE OpenPlace(s)
  <2>1. PICK n \in req[s].left : \E dir :
          /\ Call(s, [req[s] EXCEPT !.pc = "write", !.left = @ \ {n}, !.at = Jar(n)],
                  dir, Nowhere, Nowhere)
          /\ req[s].pc = "open"
    BY <1>4 DEF OpenPlace
  <2> DEFINE r == [req[s] EXCEPT !.pc = "write", !.left = @ \ {n}, !.at = Jar(n)]
  <2>2. n \in Names
    BY <1>0 DEF Requests
  <2>3. r \in Requests /\ r.op # "install"
    <3>0. Jar(n) \in Places
      BY <2>2, PlacesAre
    <3>1. r \in Requests
      BY <1>0, <3>0, PcsNamed DEF Requests
    <3>2. r.op = req[s].op
      BY <1>0 DEF Requests
    <3> QED BY <1>o, <2>1, <3>1, <3>2
  <2>4. \E dir : Call(s, r, dir, Nowhere, Nowhere)
    BY <2>1
  <2> HIDE DEF r
  <2> QED BY <1>0, <2>3, <2>4, NotPlanned, CallFulfils DEF Planned
<1>5. CASE DeletePath(s)
  <2>1. PICK n \in req[s].left : \E dir, from :
          Call(s, [req[s] EXCEPT !.left = @ \ {n}], dir, from, Nowhere) /\ req[s].pc = "drop"
    BY <1>5 DEF DeletePath
  <2> DEFINE r == [req[s] EXCEPT !.left = @ \ {n}]
  <2>2. r \in Requests /\ r.op # "install"
    <3>1. r \in Requests
      BY <1>0 DEF Requests
    <3>2. r.op = req[s].op
      BY <1>0 DEF Requests
    <3> QED BY <1>o, <2>1, <3>1, <3>2
  <2>3. \E dir, from : Call(s, r, dir, from, Nowhere)
    BY <2>1
  <2> HIDE DEF r
  <2> QED BY <1>0, <2>2, <2>3, NotPlanned, CallFulfils DEF Planned
<1> QED BY <1>0, <1>1, <1>2, <1>3, <1>4, <1>5

LEMMA StaleGoesOn ==
  ASSUME NEW r \in Requests
  PROVE  GoesOn(r, [r EXCEPT !.fresh = FALSE])
<1> DEFINE x == [r EXCEPT !.fresh = FALSE]
<1>1. /\ x.op = r.op /\ x.cur = r.cur /\ x.ver = r.ver /\ x.pc = r.pc
      /\ x.plan = r.plan /\ x.wrote = r.wrote /\ x.names = r.names /\ x.quiet = r.quiet
  BY DEF Requests
<1> HIDE DEF x
<1>2. GoesOn(r, x)
  BY <1>1 DEF GoesOn, Planned, Chosen, Current, Writing
<1> QED BY <1>2 DEF x

(* A request that ends, or asks for a restart.                              *)
LEMMA EndFulfils ==
  ASSUME ModsInv, AllFulfil, NEW s \in Slots,
         \/ Finish(s) \/ Gone(s) \/ Breaks(s) \/ FlagConflicts(s) \/ Flag(s) \/ ReadServer(s)
  PROVE  AllFulfil'
<1>0. req \in [Slots -> Requests] /\ req[s] \in Requests /\ Sane(req[s])
  BY AboutRequest
<1>1. CASE Becomes(s, NoRequest) /\ files' = files /\ clash' = clash
  BY <1>1, NotPlanned, BecomesFulfils
<1>2. CASE Fails(s) /\ files' = files /\ clash' = clash
  <2>1. Becomes(s, NoRequest)
    BY <1>2 DEF Fails, Becomes
  <2> QED BY <1>2, <2>1, NotPlanned, BecomesFulfils
<1>3. CASE (\E dir, from : Call(s, NoRequest, dir, from, Nowhere)) /\ clash' = clash
  BY <1>3, NotPlanned, NothingAsked, CallFulfils
<1>4. CASE Finish(s)
  BY <1>1, <1>4 DEF Finish, history
<1>5. CASE Gone(s)
  BY <1>2, <1>3, <1>5 DEF Gone
<1>6. CASE Breaks(s)
  BY <1>2, <1>3, <1>6 DEF Breaks
<1>7. CASE FlagConflicts(s)
  <2> DEFINE r == [req[s] EXCEPT !.pc = "mark", !.tries = @ + 1]
  <2>1. /\ Becomes(s, r) \/ Becomes(s, NoRequest)
        /\ files' = files /\ clash' = clash /\ req[s].pc = "flag"
    BY <1>7 DEF FlagConflicts
  <2>2. /\ r.op = req[s].op /\ r.cur = req[s].cur /\ r.ver = req[s].ver /\ r.pc = "mark"
        /\ r.plan = req[s].plan /\ r.wrote = req[s].wrote
        /\ r.names = req[s].names /\ r.quiet = req[s].quiet
    BY <1>0 DEF Requests
  <2> HIDE DEF r
  <2>3. GoesOn(req[s], r)
    BY <2>1, <2>2 DEF GoesOn, Planned, Chosen, Current, Writing
  <2> QED BY <1>1, <2>1, <2>3, BecomesFulfils
<1>8. CASE ReadServer(s)
  <2> DEFINE r == [req[s] EXCEPT !.pc = "flag", !.fresh = TRUE]
  <2>1. /\ Becomes(s, r) \/ Becomes(s, NoRequest)
        /\ files' = files /\ clash' = clash /\ req[s].pc = "mark"
    BY <1>8 DEF ReadServer
  <2>2. /\ r.op = req[s].op /\ r.cur = req[s].cur /\ r.ver = req[s].ver /\ r.pc = "flag"
        /\ r.plan = req[s].plan /\ r.wrote = req[s].wrote
        /\ r.names = req[s].names /\ r.quiet = req[s].quiet
    BY <1>0 DEF Requests
  <2> HIDE DEF r
  <2>3. GoesOn(req[s], r)
    BY <2>1, <2>2 DEF GoesOn, Planned, Chosen, Current, Writing
  <2> QED BY <1>1, <2>1, <2>3, BecomesFulfils
<1>9. CASE Flag(s)
  <2>1. /\ req' = [t \in Slots |-> IF t = s THEN NoRequest ELSE [req[t] EXCEPT !.fresh = FALSE]]
        /\ files' = files /\ clash' = clash
    BY <1>9 DEF Flag, Stales
  <2>2. ASSUME NEW t \in Slots PROVE GoesOn(req[t], req'[t])
    <3>1. CASE t = s
      BY <2>1, <3>1, NotPlanned
    <3>2. CASE t # s
      BY <1>0, <2>1, <3>2, StaleGoesOn
    <3> QED BY <3>1, <3>2
  <2> QED BY <2>1, <2>2, StillFulfils
<1> QED BY <1>4, <1>5, <1>6, <1>7, <1>8, <1>9

(* One that begins, or goes on without a call that changes a file.          *)
LEMMA BeginFulfils ==
  ASSUME ModsInv, AllFulfil, NEW s \in Slots,
         \/ RequestInstall(s) \/ RequestUpdate(s) \/ RequestRemove(s)
         \/ RequestPut(s) \/ RequestDelete(s) \/ RequestRename(s)
  PROVE  AllFulfil'
<1>1. ASSUME NEW r, Begin(s, r), r.pc = "connect" PROVE AllFulfil'
  <2>1. Becomes(s, r) /\ files' = files /\ clash \subseteq clash'
    BY <1>1 DEF Begin, Means
  <2>2. ~Planned(r)
    BY <1>1 DEF Planned
  <2> QED BY <2>1, <2>2, NotPlanned, BecomesFulfils
<1>2. \E r : Begin(s, r) /\ r.pc = "connect"
  <2>0. \A v, n :
          /\ [NoRequest EXCEPT !.op = "install", !.pc = "connect", !.ver = v].pc = "connect"
          /\ [NoRequest EXCEPT !.op = "update", !.pc = "connect", !.file = n,
                               !.names = {n}].pc = "connect"
          /\ [NoRequest EXCEPT !.op = "remove", !.pc = "connect", !.file = n,
                               !.names = {n}].pc = "connect"
          /\ [NoRequest EXCEPT !.op = "put", !.pc = "connect", !.left = n,
                               !.names = n].pc = "connect"
          /\ [NoRequest EXCEPT !.op = "delete", !.pc = "connect", !.left = n,
                               !.names = n].pc = "connect"
    BY DEF NoRequest
  <2>1. CASE RequestInstall(s)
    BY <2>0, <2>1 DEF RequestInstall
  <2>2. CASE RequestUpdate(s)
    BY <2>0, <2>2 DEF RequestUpdate
  <2>3. CASE RequestRemove(s)
    BY <2>0, <2>3 DEF RequestRemove
  <2>4. CASE RequestPut(s)
    BY <2>0, <2>4 DEF RequestPut
  <2>5. CASE RequestDelete(s)
    BY <2>0, <2>5 DEF RequestDelete
  <2>6. CASE RequestRename(s)
    <3>1. PICK n \in Names, m \in Names :
            Begin(s, [NoRequest EXCEPT !.op = "rename", !.pc = "connect", !.file = n, !.to = m,
                                       !.names = {n, m}])
      BY <2>6 DEF RequestRename
    <3> DEFINE r == [NoRequest EXCEPT !.op = "rename", !.pc = "connect", !.file = n, !.to = m,
                                      !.names = {n, m}]
    <3>2. Begin(s, r)
      BY <3>1
    <3>3. r.pc = "connect"
      BY DEF NoRequest
    <3> HIDE DEF r
    <3> QED BY <3>2, <3>3
  <2> QED BY <2>1, <2>2, <2>3, <2>4, <2>5, <2>6
<1> QED BY <1>1, <1>2

LEMMA StepFulfils ==
  ASSUME ModsInv, AllFulfil, NEW s \in Slots,
         Connect(s) \/ PlanUpdate(s) \/ StatFinal(s) \/ CheckRemove(s)
  PROVE  AllFulfil'
<1>0. req[s] \in Requests /\ Sane(req[s])
  BY AboutRequest
<1>1. CASE Becomes(s, NoRequest) /\ files' = files /\ clash' = clash
  BY <1>1, NotPlanned, BecomesFulfils
<1>2. CASE Connect(s)
  <2>1. /\ files' = files /\ clash' = clash /\ req[s].pc = "connect"
        /\ Becomes(s, NoRequest) \/ \E via :
             Becomes(s, [req[s] EXCEPT !.pc = FirstCall(req[s].op), !.via = via])
    BY <1>2 DEF Connect, history
  <2>2. ASSUME NEW via PROVE ~Planned([req[s] EXCEPT !.pc = FirstCall(req[s].op), !.via = via])
    <3> DEFINE first == FirstCall(req[s].op)
               r == [req[s] EXCEPT !.pc = first, !.via = via]
    <3>1. req[s].op = "install" => first = "list"
      BY DEF FirstCall
    <3> HIDE DEF first
    <3>2. r.op = req[s].op /\ r.pc = first
      BY <1>0 DEF Requests
    <3> HIDE DEF r
    <3>3. ~Planned(r)
      BY <3>1, <3>2 DEF Planned
    <3> QED BY <3>3 DEF r, first
  <2> QED BY <1>1, <2>1, <2>2, NotPlanned, BecomesFulfils
<1>3. CASE PlanUpdate(s)
  <2> DEFINE new == Latest[Project[files[Jar(req[s].file)]]]
             r == [req[s] EXCEPT !.pc = "create", !.plan = {new}, !.names = @ \cup {File[new]},
                                 !.quiet = TRUE]
  <2>1. /\ files' = files /\ clash \subseteq clash' /\ req[s].op = "update"
        /\ Becomes(s, NoRequest) \/ Becomes(s, r)
    BY <1>3 DEF PlanUpdate, Means
  <2>2. r.op = req[s].op
    BY <1>0 DEF Requests
  <2> HIDE DEF r
  <2>3. ~Planned(r)
    BY <2>1, <2>2 DEF Planned
  <2> QED BY <2>1, <2>3, NotPlanned, BecomesFulfils
<1>4. ASSUME NEW next, GoesTo(s, next), files' = files, clash' = clash,
             \/ req[s].pc = "stat" /\ next \in {"unlink", "rename"}
             \/ req[s].pc = "check"
      PROVE  AllFulfil'
  <2> DEFINE r == [req[s] EXCEPT !.pc = next]
  <2>1. Becomes(s, r)
    BY <1>4 DEF GoesTo
  <2>2. /\ r.op = req[s].op /\ r.cur = req[s].cur /\ r.ver = req[s].ver /\ r.pc = next
        /\ r.plan = req[s].plan /\ r.wrote = req[s].wrote
        /\ r.names = req[s].names /\ r.quiet = req[s].quiet
    BY <1>0 DEF Requests
  <2> HIDE DEF r
  <2>3. GoesOn(req[s], r)
    BY <1>0, <1>4, <2>2 DEF GoesOn, Planned, Chosen, Current, Writing, Sane, OpsAt
  <2> QED BY <1>4, <2>1, <2>3, BecomesFulfils
<1>5. CASE StatFinal(s)
  BY <1>4, <1>5 DEF StatFinal, history
<1>6. CASE CheckRemove(s)
  BY <1>4, <1>6 DEF CheckRemove, history
<1> QED BY <1>2, <1>3, <1>5, <1>6

(* An install begins with a plan that covers what it needs.                 *)
LEMMA PlanFulfils ==
  ASSUME ModsInv, AllFulfil, NEW s \in Slots, PlanInstall(s)
  PROVE  AllFulfil'
<1>0. req \in [Slots -> Requests] /\ req[s] \in Requests /\ Sane(req[s])
  BY AboutRequest
<1>1. /\ files' = files /\ req[s].pc = "list" /\ req[s].op = "install"
  BY DEF PlanInstall
<1>2. \/ Becomes(s, NoRequest) /\ clash' = clash
      \/ \E plan : PlanInstalls(s, plan)
  BY PlanInstallIs
<1>3. CASE Becomes(s, NoRequest) /\ clash' = clash
  BY <1>1, <1>3, NotPlanned, BecomesFulfils
<1>4. ASSUME NEW plan, PlanInstalls(s, plan) PROVE AllFulfil'
  <2> DEFINE names == {File[v] : v \in plan}
             r == [req[s] EXCEPT !.pc = "create", !.plan = plan, !.names = names, !.quiet = TRUE]
  <2>1. Becomes(s, r) /\ clash \subseteq clash'
    BY <1>4 DEF PlanInstalls, Means
  <2>2. req[s].ver \in Versions
    BY <1>0, <1>1 DEF Sane
  <2>3. /\ r.ver = req[s].ver /\ r.pc = "create" /\ r.plan = plan /\ r.wrote = req[s].wrote
        /\ r.names = names /\ r.op = req[s].op
    BY <1>0 DEF Requests
  <2>4. Chosen(r) = plan
    <3> HIDE DEF r
    <3> QED BY <1>0, <1>1, <2>3 DEF Chosen, Sane, Current, Writing
  <2>5. ASSUME NEW v \in plan, Leads(req[s].ver, plan, v), NEW p \in Deps[v]
        PROVE  \/ \E w \in plan : Project[w] = p
               \/ \E n \in Holding(p) : n \notin names
    <3>1. PICK present, where, found : Resolved(req[s].ver, present, where, found, plan)
      BY <1>4 DEF PlanInstalls
    <3>2. \/ \E w \in plan : Project[w] = p
          \/ \E n \in Holding(p) : \A x \in plan : n # File[x]
      BY <2>2, <2>5, <3>1, PlanCovers
    <3> QED BY <3>2
  <2> HIDE DEF names, r
  <2>6. /\ req'[s] = r /\ \A t \in Slots \ {s} : req'[t] = req[t]
    BY <1>0, <2>1 DEF Becomes
  <2>7. Covers(r)
    BY <2>3, <2>4, <2>5 DEF Covers
  <2>8. Covers(req[s])'
    <3>1. \A p : Holding(p)' = Holding(p)
      BY <1>1 DEF Holding, Jar
    <3> DEFINE x == req'[s]
    <3>2. x = r
      BY <2>6
    <3> HIDE DEF x
    <3>3. \A v \in Chosen(x) : Leads(x.ver, Chosen(x), v) => \A p \in Deps[v] :
             \/ \E w \in Chosen(x) : Project[w] = p
             \/ \E n \in Holding(p)' : n \notin x.names
      BY <2>7, <3>1, <3>2 DEF Covers
    <3> QED BY <3>3 DEF x, Covers, Chosen, Current, Writing, Leads
  <2>9. ASSUME NEW t \in Slots PROVE Fulfils(req[t])'
    <3>1. CASE t = s
      BY <2>8, <3>1 DEF Fulfils
    <3>2. CASE t # s
      <4>1. Fulfils(req[t]) /\ GoesOn(req[t], req[t]) /\ req'[t] = req[t]
        BY <2>6, <3>2 DEF AllFulfil, GoesOn
      <4> QED BY <1>1, <2>1, <4>1, FulfilsOn
    <3> QED BY <3>1, <3>2
  <2> QED BY <2>9 DEF AllFulfil
<1> QED BY <1>2, <1>3, <1>4

LEMMA AroundFulfils ==
  ASSUME ModsInv, AllFulfil, SetState \/ UpdateModpack \/ PodStarts \/ PodGoes \/ MaintenanceEnds
  PROVE  AllFulfil'
<1>0. req \in [Slots -> Requests]
  BY ModsTypesAre DEF ModsInv
<1>1. files' = files /\ clash' = clash
  BY DEF SetState, UpdateModpack, PodStarts, PodGoes, MaintenanceEnds, history
<1>2. ASSUME NEW t \in Slots PROVE GoesOn(req[t], req'[t])
  <2>1. CASE SetState \/ UpdateModpack
    <3>1. req'[t] = [req[t] EXCEPT !.fresh = FALSE]
      BY <2>1 DEF SetState, UpdateModpack
    <3> QED BY <1>0, <3>1, StaleGoesOn
  <2>2. CASE PodStarts \/ PodGoes \/ MaintenanceEnds
    <3>1. req'[t] = NoRequest \/ req'[t] = req[t]
      BY <2>2 DEF PodStarts, PodGoes, MaintenanceEnds, Cut
    <3> QED BY <3>1, NotPlanned DEF GoesOn
  <2> QED BY <2>1, <2>2
<1> QED BY <1>1, <1>2, StillFulfils

LEMMA FulfilHolds == ModsSpec => [](ModsInv /\ AllFulfil)
<1>1. ModsInit => AllFulfil
  BY NotPlanned DEF ModsInit, AllFulfil, Fulfils
<1>2. ASSUME ModsInv, AllFulfil, [ModsNext]_modsVars PROVE AllFulfil'
  <2>1. CASE UNCHANGED modsVars
    <3>1. files' = files /\ clash' = clash /\ req' = req
      BY <2>1 DEF modsVars
    <3>2. \A t \in Slots : GoesOn(req[t], req'[t])
      BY <3>1 DEF GoesOn
    <3> QED BY <1>2, <3>1, <3>2, StillFulfils
  <2>2. ASSUME NEW s \in Slots, Handle(s) PROVE AllFulfil'
    BY <1>2, <2>2, BeginFulfils, StepFulfils, PlanFulfils, InstallFulfils, OthersFulfil, EndFulfils
        DEF Handle
  <2> QED BY <1>2, <2>1, <2>2, AroundFulfils DEF ModsNext
<1> QED BY <1>1, <1>2, ModsInitially, ModsStays, PTL DEF ModsSpec

(* An install delivers what its versions require, for every catalog and as  *)
(* deep as it follows it (ResolveInstall, resolveJarDependencies and the    *)
(* conflicts handleInstallMod looks for), and what it answered stays there. *)
THEOREM DeliveredHolds == ModsSpec => []Delivered
<1>1. ModsInv /\ AllFulfil => Complete
  <2> SUFFICES ASSUME ModsInv, AllFulfil, NEW s \in Slots,
                      req[s].op = "install", req[s].pc = "mark",
                      req[s].quiet, req[s].names \cap clash = {}, OneEach(req[s].wrote),
                      NEW v \in req[s].wrote, Leads(req[s].ver, req[s].wrote, v), NEW p \in Deps[v]
               PROVE  Holding(p) # {}
    BY DEF Complete
  <2>1. /\ Sane(req[s]) /\ Fulfils(req[s])
        /\ \A w \in Versions : Left(req[s], w) /\ File[w] \notin clash => files[Jar(File[w])] = w
    BY AboutRequest DEF AllFulfil
  <2>2. req[s].plan = {} /\ Current(req[s]) = {} /\ Chosen(req[s]) = req[s].wrote
    BY <2>1 DEF Sane, Current, Writing, Chosen
  <2>3. Covers(req[s])
    BY <2>1, <2>2 DEF Fulfils, Planned
  <2>4. CASE \E w \in req[s].wrote : Project[w] = p
    <3>1. PICK w \in req[s].wrote : Project[w] = p
      BY <2>4
    <3>2. w \in Versions /\ File[w] \in req[s].names /\ File[w] \in Names
      BY <2>1 DEF Sane
    <3>3. Left(req[s], w)
      BY <2>2, <3>1, <3>2 DEF Left, OneEach
    <3>4. files[Jar(File[w])] = w
      BY <2>1, <3>2, <3>3
    <3> QED BY <3>1, <3>2, <3>4 DEF Holding
  <2> QED BY <2>2, <2>3, <2>4 DEF Covers
<1>2. ModsInv => OwedThere
  BY DEF ModsInv, Between, Paid, OwedThere
<1>3. ModsInv /\ AllFulfil => Delivered
  BY <1>1, <1>2 DEF Delivered
<1> QED BY <1>3, FulfilHolds, PTL
=============================================================================
