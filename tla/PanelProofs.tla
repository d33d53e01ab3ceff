---------------------------- MODULE PanelProofs ----------------------------
(* Theorems about two specifications of the Panel, for every value of their *)
(* constants: Membership first, then Discord, whose definitions go by other *)
(* names (BotInit, BotNext, BotSpec) so that one module can extend both.    *)
EXTENDS Membership, Discord, SequenceTheorems, TLAPS

-----------------------------------------------------------------------------
(* Types.                                                                   *)

LEMMA NoneTypes ==
  ASSUME accepted \in Seq(Nat)
  PROVE  NoRequest \in Requests /\ NoInvitation \in Invitations
<1>1. 0 \in Links
  BY DEF Links
<1> QED BY <1>1, PeopleAssumption DEF NoRequest, Requests, Ops, PCs, NoInvitation, Invitations

(* More links only make for more requests and invitations.                  *)
LEMMA LinksGrow ==
  ASSUME accepted \in Seq(Nat), accepted' \in Seq(Nat), Len(accepted) <= Len(accepted')
  PROVE  /\ Links \subseteq Links' /\ Requests \subseteq Requests'
         /\ Invitations \subseteq Invitations'
<1>1. Links \subseteq Links'
  BY DEF Links
<1>2. \A r \in Requests : r \in Requests'
  BY <1>1 DEF Requests
<1>3. \A i \in Invitations : i \in Invitations'
  BY <1>1 DEF Invitations
<1> QED BY <1>1, <1>2, <1>3

LEMMA DoneType ==
  ASSUME TypeOK, NEW s \in Slots, Done(s)
  PROVE  req' \in [Slots -> Requests]
BY NoneTypes DEF TypeOK, Done

LEMMA GoType ==
  ASSUME TypeOK, NEW s \in Slots, NEW pc \in PCs, Go(s, pc)
  PROVE  req' \in [Slots -> Requests]
<1>1. [req[s] EXCEPT !.pc = pc] \in Requests
  BY DEF TypeOK, Requests
<1> QED BY <1>1 DEF TypeOK, Go

(* The handlers and the steps they go through.                              *)
LEMMA StepsNamed ==
  /\ \A o \in {"none", "setRole", "remove", "deleteUser", "promote", "demote", "invite", "resend",
               "revoke", "accept", "acceptNew"} : o \in Ops
  /\ \A pc \in {"idle", "lock", "read", "count", "write", "scan", "check", "delete", "set", "admins",
                "wait", "clear", "upsert", "reissue", "mail", "undo", "take", "join"} : pc \in PCs
BY DEF Ops, PCs

(* A step that leaves the rows alone.                                       *)
LEMMA RequestsOnly ==
  ASSUME TypeOK, req' \in [Slots -> Requests], UNCHANGED <<rowVars, accepted, historyVars>>,
         sent' \subseteq Links, events' \in 0..MaxEvents
  PROVE  TypeOK'
BY DEF TypeOK, rowVars, historyVars, Requests, Invitations, Links

LEMMA RequestTypes ==
  ASSUME TypeOK, NEW s \in Slots, Request(s)
  PROVE  TypeOK'
<1>1. PICK c \in People, p \in People :
        \/ \E r \in Roles : RequestSetRole(s, c, p, r) \/ RequestInvite(s, c, p, r)
        \/ RequestRemove(s, c, p) \/ RequestDeleteUser(s, c, p)
        \/ RequestPromote(s, c, p) \/ RequestDemote(s, c, p)
        \/ RequestResend(s, c, p) \/ RequestRevoke(s, c, p)
        \/ c = p /\ RequestAccept(s, p)
  BY DEF Request
<1>2. /\ EffectiveRole(c) \in Roles \cup {"none"}
      /\ inv[p].id \in Links /\ inv[p].link \in Links
  BY DEF TypeOK, EffectiveRole, Roles, Invitations, NoInvitation
<1>n. NoRequest \in Requests
  BY NoneTypes DEF TypeOK
<1>3. SUFFICES ASSUME NEW r \in Requests, Begin(s, r) PROVE TypeOK'
  <2>1. CASE \E r \in Roles : RequestSetRole(s, c, p, r) \/ RequestInvite(s, c, p, r)
    <3>1. PICK r \in Roles : RequestSetRole(s, c, p, r) \/ RequestInvite(s, c, p, r)
      BY <2>1
    <3>2. [NoRequest EXCEPT !.op = "setRole", !.pc = "lock", !.who = p, !.to = r,
                            !.acc = EffectiveRole(c)] \in Requests
      BY <1>n, <1>2, StepsNamed DEF Requests
    <3>3. [NoRequest EXCEPT !.op = "invite", !.pc = "upsert", !.by = c, !.who = p, !.to = r,
                            !.acc = EffectiveRole(c)] \in Requests
      BY <1>n, <1>2, StepsNamed DEF Requests
    <3> QED BY <1>3, <3>1, <3>2, <3>3 DEF RequestSetRole, RequestInvite
  <2>2. /\ [NoRequest EXCEPT !.op = "remove", !.pc = "lock", !.who = p] \in Requests
        /\ [NoRequest EXCEPT !.op = "deleteUser", !.pc = "scan", !.who = p] \in Requests
        /\ [NoRequest EXCEPT !.op = "promote", !.pc = "set", !.who = p] \in Requests
        /\ [NoRequest EXCEPT !.op = "demote", !.pc = "admins", !.who = p] \in Requests
    <3>1. \A o \in Ops, pc \in PCs : [NoRequest EXCEPT !.op = o, !.pc = pc, !.who = p] \in Requests
      BY <1>n DEF Requests
    <3> QED BY <3>1, StepsNamed
  <2>3. /\ [NoRequest EXCEPT !.op = "resend", !.pc = "reissue", !.who = p,
                             !.acc = EffectiveRole(c), !.id = inv[p].id] \in Requests
        /\ [NoRequest EXCEPT !.op = "revoke", !.pc = "undo", !.who = p,
                             !.id = inv[p].id] \in Requests
    BY <1>n, <1>2, StepsNamed DEF Requests
  <2>4. \A o \in Ops : [NoRequest EXCEPT !.op = o, !.pc = "take", !.who = p,
                                         !.link = inv[p].link] \in Requests
    BY <1>n, <1>2 DEF Requests, PCs
  <2>5. (IF p \in account THEN "accept" ELSE "acceptNew") \in Ops
    BY DEF Ops
  <2> QED
    BY <1>1, <1>3, <2>1, <2>2, <2>3, <2>4, <2>5
       DEF RequestRemove, RequestDeleteUser, RequestPromote, RequestDemote, RequestResend,
           RequestRevoke, RequestAccept
<1>4. req' \in [Slots -> Requests] /\ UNCHANGED <<rowVars, accepted, sent, historyVars>>
  BY <1>3 DEF Begin, TypeOK, linkVars
<1>5. events' \in 0..MaxEvents /\ sent' \subseteq Links
  BY <1>3, <1>4, BoundAssumption DEF Begin, TypeOK
<1> QED BY <1>4, <1>5, RequestsOnly

(* The steps within a handler that change nothing but the request.          *)
Quiet(s) ==
  \/ LockOrg(s) \/ ReadRole(s) \/ CountOwners(s) \/ ScanOwned(s) \/ LockOwned(s)
  \/ CheckSoleOwner(s) \/ FindAdmins(s) \/ LockAdmins(s) \/ Deliver(s)
  \/ TakeInvitation(s)
  \/ DeliveryFails(s) \/ CallFails(s)

LEMMA QuietTypes ==
  ASSUME TypeOK, NEW s \in Slots, Quiet(s)
  PROVE  TypeOK'
<1>1. UNCHANGED <<rowVars, accepted, historyVars>> /\ events' \in 0..MaxEvents
  BY BoundAssumption DEF Quiet, TypeOK, linkVars, LockOrg, ReadRole, CountOwners,
       ScanOwned, LockOwned, CheckSoleOwner, FindAdmins, LockAdmins, Deliver, TakeInvitation,
       DeliveryFails, CallFails
<1>2. sent' \subseteq Links
  <2>1. CASE Deliver(s)
    <3>1. req[s].link \in Links
      BY DEF TypeOK, Requests
    <3> QED BY <2>1, <3>1 DEF Deliver, TypeOK
  <2>2. CASE ~Deliver(s)
    BY <2>2 DEF Quiet, TypeOK, linkVars, LockOrg, ReadRole, CountOwners, ScanOwned,
       LockOwned, CheckSoleOwner, FindAdmins, LockAdmins, TakeInvitation, DeliveryFails, CallFails
  <2> QED BY <2>1, <2>2
<1>3. req' \in [Slots -> Requests]
  <2>1. CASE ScanOwned(s)
    <3>0. req[s] \in Requests
      BY DEF TypeOK
    <3>1. \A b \in BOOLEAN, pc \in PCs : [req[s] EXCEPT !.owns = b, !.pc = pc] \in Requests
      BY <3>0 DEF Requests
    <3> QED BY <2>1, <3>1 DEF ScanOwned, TypeOK, PCs
  <2>2. CASE FindAdmins(s) \/ LockAdmins(s)
    <3>1. req[s] \in Requests /\ {"wait", "clear"} \subseteq PCs
      BY DEF TypeOK, PCs
    <3>2. \A r \in Requests, pc \in PCs, R \in SUBSET People :
            [r EXCEPT !.rows = R, !.pc = pc] \in Requests
      BY DEF Requests
    <3>3. admin \in SUBSET People /\ req[s].rows \cap admin \in SUBSET People
      BY DEF TypeOK
    <3>4. CASE FindAdmins(s)
      BY <3>1, <3>2, <3>3, <3>4 DEF FindAdmins, TypeOK
    <3>5. CASE LockAdmins(s)
      <4>1. CASE Done(s)
        BY <4>1, DoneType
      <4>2. CASE req' = [req EXCEPT ![s].rows = req[s].rows \cap admin, ![s].pc = "clear"]
        BY <3>1, <3>2, <3>3, <4>2 DEF TypeOK
      <4> QED BY <3>5, <4>1, <4>2 DEF LockAdmins
    <3> QED BY <2>2, <3>4, <3>5
  <2>3. CASE Done(s)
    BY <2>3, DoneType
  <2>4. CASE \E pc \in PCs : Go(s, pc)
    BY <2>4, GoType
  <2>5. Done(s) \/ (\E pc \in PCs : Go(s, pc)) \/ ScanOwned(s)
          \/ FindAdmins(s) \/ LockAdmins(s)
    BY DEF Quiet, PCs, LockOrg, ReadRole, CountOwners, LockOwned, CheckSoleOwner, Deliver,
           TakeInvitation, DeliveryFails, CallFails
  <2> QED BY <2>1, <2>2, <2>3, <2>4, <2>5
<1> QED BY <1>1, <1>2, <1>3, RequestsOnly DEF TypeOK

(* The steps that write rows.                                               *)
LEMMA WriteTypes ==
  ASSUME TypeOK, NEW s \in Slots,
         \/ WriteRole(s) \/ DeleteUser(s) \/ Promote(s) \/ Demote(s) \/ Upsert(s) \/ Reissue(s)
         \/ DeleteInvitation(s) \/ Join(s)
  PROVE  TypeOK'
<1>r. /\ req[s] \in Requests /\ req[s].who \in People
      /\ req[s].to \in Roles \cup {"none"} /\ req[s].acc \in Roles \cup {"none"}
  BY DEF TypeOK, Requests
<1>w. UNCHANGED accepted /\ req' \in [Slots -> Requests] =>
        req' \in [Slots -> Requests'] /\ UNCHANGED <<Links, Invitations>>
  BY DEF Links, Invitations, Requests
<1>1. CASE WriteRole(s)
  BY <1>1, <1>r, <1>w, DoneType DEF WriteRole, GivesRole, TypeOK, linkVars
<1>2. CASE DeleteUser(s)
  <2>1. account' \subseteq People /\ gone' \subseteq People /\ admin' \subseteq People
    BY <1>2, <1>r DEF DeleteUser, TypeOK, rowVars
  <2>2. role' \in [People -> Roles \cup {"none"}] /\ bare' \in BOOLEAN
    BY <1>2, <1>r DEF DeleteUser, TypeOK, rowVars
  <2> QED BY <1>2, <1>r, <1>w, <2>1, <2>2, DoneType DEF DeleteUser, TypeOK, linkVars, rowVars
<1>3. CASE Promote(s)
  BY <1>3, <1>r, <1>w, DoneType DEF Promote, TypeOK, linkVars, historyVars
<1>4. CASE Demote(s)
  BY <1>4, <1>r, <1>w, DoneType DEF Demote, TypeOK, linkVars, historyVars
<1>5. CASE DeleteInvitation(s)
  <2>1. NoInvitation \in Invitations
    BY NoneTypes DEF TypeOK
  <2> QED
    BY <1>5, <1>r, <1>w, <2>1, DoneType
       DEF DeleteInvitation, TypeOK, linkVars, historyVars
<1>6. CASE Join(s)
  <2>1. /\ NoInvitation \in Invitations
        /\ inv[req[s].who].role \in Roles \cup {"none"}
    BY <1>r, NoneTypes DEF Invitations, TypeOK
  <2>2. accepted' \in Seq(Nat) /\ Len(accepted') = Len(accepted)
    <3>1. \A k \in Links : LET a == [accepted EXCEPT ![k] = @ + 1]
                                   IN  a \in Seq(Nat) /\ Len(a) = Len(accepted)
      <4> SUFFICES ASSUME NEW k \in Links
                   PROVE  LET a == [accepted EXCEPT ![k] = @ + 1]
                          IN  a \in Seq(Nat) /\ Len(a) = Len(accepted)
        OBVIOUS
      <4>0. accepted \in Seq(Nat)
        BY DEF TypeOK
      <4>1. CASE k = 0
        <5>1. accepted \in [1..Len(accepted) -> Nat]
          BY <4>0
        <5>2. [accepted EXCEPT ![k] = @ + 1] = accepted
          BY <4>1, <5>1
        <5> QED BY <4>0, <5>2
      <4>2. CASE k # 0
        <5>1. k \in 1..Len(accepted) /\ accepted[k] + 1 \in Nat
          BY <4>0, <4>2 DEF Links
        <5> QED BY <4>0, <5>1, ExceptSeq
      <4> QED BY <4>1, <4>2
    <3>2. req[s].link \in Links
      BY <1>r DEF Requests
    <3>3. \/ accepted' = accepted
          \/ accepted' = [accepted EXCEPT ![req[s].link] = @ + 1]
      BY <1>6 DEF Join
    <3>4. CASE accepted' = accepted
      BY <3>4 DEF TypeOK
    <3>5. CASE accepted' = [accepted EXCEPT ![req[s].link] = @ + 1]
      BY <3>1, <3>2, <3>5
    <3> QED BY <3>3, <3>4, <3>5
  <2>3. Links' = Links /\ Requests' = Requests /\ Invitations' = Invitations
    BY <2>2 DEF Links, Requests, Invitations
  <2>4. role' \in [People -> Roles \cup {"none"}] /\ late' \in BOOLEAN
    BY <1>6, <1>r, <2>1 DEF Join, GivesRole, TypeOK
  <2>5. inv' \in [People -> Invitations]
    BY <1>6, <1>r, <2>1 DEF Join, TypeOK
  <2>6. /\ account' \subseteq People /\ gone' \subseteq People \ account'
        /\ admin' \subseteq account'
        /\ \A p \in People : role'[p] # "none" => p \in account'
    BY <1>6, <1>r DEF Join, GivesRole, TypeOK
  <2>7. UNCHANGED <<sent, events, bare>> /\ req' \in [Slots -> Requests]
    BY <1>6, DoneType DEF Join
  <2> QED BY <2>2, <2>3, <2>4, <2>5, <2>6, <2>7 DEF TypeOK
<1>7. CASE Upsert(s) \/ Reissue(s)
  <2>1. UNCHANGED <<account, gone, admin, role, sent, events, historyVars>>
    BY <1>7 DEF Upsert, Reissue
  <2>2. CASE Done(s) /\ UNCHANGED <<inv, accepted>>
    BY <1>w, <2>1, <2>2, DoneType DEF TypeOK, historyVars
  <2>3. CASE accepted' = Append(accepted, 0)
    <3> DEFINE k == Len(accepted) + 1
    <3>1. accepted' \in Seq(Nat) /\ Len(accepted') = Len(accepted) + 1
      BY <2>3 DEF TypeOK
    <3>2. /\ Links \subseteq Links' /\ Requests \subseteq Requests'
          /\ Invitations \subseteq Invitations'
      BY <3>1, LinksGrow DEF TypeOK
    <3>3. k \in Links'
      BY <3>1 DEF Links, TypeOK
    <3>4. inv' \in [People -> Invitations']
      <4> DEFINE p == req[s].who
      <4>1. \A q \in People : inv[q] \in Invitations /\ inv[q] \in Invitations'
        BY <3>2 DEF TypeOK
      <4>2. CASE Upsert(s)
        <5>1. \A i, l \in Links', r, b \in Roles \cup {"none"} :
                [id |-> i, role |-> r, link |-> l, live |-> TRUE, by |-> b] \in Invitations'
          BY DEF Invitations
        <5>2. k \in Links' /\ inv[p].id \in Links'
          BY <3>3, <4>1, <1>r DEF Invitations
        <5>3. \/ inv' = [inv EXCEPT ![p] = [id |-> IF inv[p].id = 0 THEN k ELSE inv[p].id,
                                            role |-> req[s].to, link |-> k, live |-> TRUE,
                                            by |-> req[s].acc]]
              \/ UNCHANGED inv
          BY <4>2 DEF Upsert
        <5>4. [id |-> IF inv[p].id = 0 THEN k ELSE inv[p].id, role |-> req[s].to, link |-> k,
               live |-> TRUE, by |-> req[s].acc] \in Invitations'
          BY <5>1, <5>2, <1>r
        <5>5. p \in People /\ inv \in [People -> Invitations]
          BY <1>r DEF TypeOK
        <5> QED BY <4>1, <5>3, <5>4, <5>5
      <4>3. CASE Reissue(s)
        <5>1. \A i \in Invitations', l \in Links' :
                [i EXCEPT !.link = l, !.live = TRUE] \in Invitations'
          BY DEF Invitations
        <5>2. inv' = [inv EXCEPT ![p] = [inv[p] EXCEPT !.link = k, !.live = TRUE]] \/ UNCHANGED inv
          <6>1. inv \in [People -> Invitations] /\ p \in People
            BY <1>r DEF TypeOK
          <6> QED BY <4>3, <6>1 DEF Reissue
        <5>3. inv[p] \in Invitations' /\ [inv[p] EXCEPT !.link = k, !.live = TRUE] \in Invitations'
          BY <3>3, <4>1, <5>1, <1>r
        <5> QED BY <4>1, <5>2, <5>3, <1>r DEF TypeOK
      <4> QED BY <1>7, <4>2, <4>3
    <3>5. req' \in [Slots -> Requests']
      <4>1. \A t \in Slots : req[t] \in Requests /\ req[t] \in Requests'
        BY <3>2 DEF TypeOK
      <4>2. \A r \in Requests', i, l \in Links', pc \in PCs :
              /\ [r EXCEPT !.id = i, !.link = l, !.pc = pc] \in Requests'
              /\ [r EXCEPT !.link = l, !.pc = pc] \in Requests'
        BY DEF Requests
      <4>3. /\ inv[req[s].who].id \in Links' /\ "mail" \in PCs
            /\ NoRequest \in Requests'
        BY <1>r, <3>2, NoneTypes DEF TypeOK, Invitations, PCs
      <4>4. \E r \in Requests' : req' = [req EXCEPT ![s] = r]
        <5>1. CASE Upsert(s)
          <6> DEFINE i == IF inv[req[s].who].id = 0 THEN k ELSE inv[req[s].who].id
          <6>1. \/ Done(s)
                \/ req' = [req EXCEPT ![s] = [req[s] EXCEPT !.id = i, !.link = k, !.pc = "mail"]]
            BY <1>r, <5>1 DEF Upsert, TypeOK
          <6>2. i \in Links'
            BY <3>3, <4>3
          <6> QED BY <3>3, <4>1, <4>2, <4>3, <6>1, <6>2 DEF Done
        <5>2. CASE Reissue(s)
          <6>1. Done(s) \/ req' = [req EXCEPT ![s] = [req[s] EXCEPT !.link = k, !.pc = "mail"]]
            <7>1. req \in [Slots -> Requests]
              BY DEF TypeOK
            <7> QED BY <7>1, <5>2 DEF Reissue
          <6> QED BY <3>3, <4>1, <4>2, <4>3, <6>1 DEF Done
        <5> QED BY <1>7, <5>1, <5>2
      <4> QED BY <4>1, <4>4 DEF TypeOK
    <3> QED BY <2>1, <3>1, <3>2, <3>4, <3>5 DEF TypeOK, historyVars
  <2> QED BY <1>7, <2>2, <2>3 DEF Upsert, Reissue
<1> QED BY <1>1, <1>2, <1>3, <1>4, <1>5, <1>6, <1>7

LEMMA ExpiryTypes ==
  ASSUME TypeOK, NEW p \in People, Expire(p) \/ Prune(p)
  PROVE  TypeOK'
<1>1. NoInvitation \in Invitations /\ [inv[p] EXCEPT !.live = FALSE] \in Invitations
  BY NoneTypes DEF TypeOK, Invitations
<1>2. inv' \in [People -> Invitations]
  BY <1>1 DEF Expire, Prune, TypeOK
<1>3. events' \in 0..MaxEvents
  BY BoundAssumption DEF Expire, Prune, TypeOK
<1> QED BY <1>2, <1>3 DEF TypeOK, Expire, Prune, linkVars, historyVars, Links, Invitations, Requests

LEMMA InitTypes == Init => TypeOK
<1> SUFFICES ASSUME Init PROVE TypeOK
  OBVIOUS
<1>1. accepted \in Seq(Nat) /\ sent \subseteq Links
  BY DEF Init
<1>2. NoRequest \in Requests /\ NoInvitation \in Invitations
  BY <1>1, NoneTypes
<1>3. /\ role \in [People -> Roles \cup {"none"}]
      /\ \A p \in People : role[p] # "none" => p \in account
  BY DEF Init, Roles
<1>4. /\ account \subseteq People /\ gone \subseteq People \ account
      /\ admin \subseteq account
  BY PeopleAssumption DEF Init
<1>5. inv \in [People -> Invitations] /\ req \in [Slots -> Requests]
  BY <1>2 DEF Init
<1>6. events \in 0..MaxEvents
  BY BoundAssumption DEF Init
<1>7. late \in BOOLEAN /\ bare \in BOOLEAN
  BY DEF Init
<1> QED BY <1>1, <1>3, <1>4, <1>5, <1>6, <1>7 DEF TypeOK

(* One step at a time.                                                      *)
LEMMA StepCases ==
  ASSUME Next
  PROVE  \/ \E s \in Slots : \/ Request(s) \/ Quiet(s)
                             \/ WriteRole(s) \/ DeleteUser(s) \/ Promote(s) \/ Demote(s)
                             \/ Upsert(s) \/ Reissue(s) \/ DeleteInvitation(s) \/ Join(s)
         \/ \E p \in People : Expire(p) \/ Prune(p)
BY DEF Next, Handle, Quiet

LEMMA TypesKept == TypeOK /\ [Next]_vars => TypeOK'
<1> SUFFICES ASSUME TypeOK, [Next]_vars PROVE TypeOK'
  OBVIOUS
<1>1. CASE Next
  BY <1>1, StepCases, RequestTypes, QuietTypes, WriteTypes, ExpiryTypes
<1>2. CASE UNCHANGED vars
  BY <1>2 DEF vars, TypeOK, Links, Invitations, Requests
<1> QED BY <1>1, <1>2

(* Every variable has its type: the accounts, memberships, invitations and  *)
(* requests of Membership, whatever the requests handled at a time.         *)
THEOREM TypeCorrect == Spec => []TypeOK
<1>1. Init => TypeOK
  BY InitTypes
<1>2. TypeOK /\ [Next]_vars => TypeOK'
  BY TypesKept
<1> QED BY <1>1, <1>2, PTL DEF Spec

-----------------------------------------------------------------------------
(* What a step leaves alone.                                                *)

Writes(s) ==
  \/ WriteRole(s) \/ DeleteUser(s) \/ Promote(s) \/ Demote(s) \/ Upsert(s) \/ Reissue(s)
  \/ DeleteInvitation(s) \/ Join(s)

RequestStep(s) == Request(s) \/ Quiet(s) \/ Writes(s)

LEMMA Steps ==
  ASSUME [Next]_vars
  PROVE  \/ \E s \in Slots : RequestStep(s)
         \/ UNCHANGED req /\ \E p \in People : Expire(p) \/ Prune(p)
         \/ UNCHANGED vars
BY StepCases DEF RequestStep, Writes, Expire, Prune

(* The request begun by c and about p.                                      *)
Begun(s, c, p) ==
  \/ req'[s] = [NoRequest EXCEPT !.op = "remove", !.pc = "lock", !.who = p]
  \/ req'[s] = [NoRequest EXCEPT !.op = "deleteUser", !.pc = "scan", !.who = p]
  \/ req'[s] = [NoRequest EXCEPT !.op = "promote", !.pc = "set", !.who = p]
  \/ req'[s] = [NoRequest EXCEPT !.op = "demote", !.pc = "admins", !.who = p]
  \/ req'[s] = [NoRequest EXCEPT !.op = "resend", !.pc = "reissue", !.who = p,
                                 !.acc = EffectiveRole(c), !.id = inv[p].id]
  \/ req'[s] = [NoRequest EXCEPT !.op = "revoke", !.pc = "undo", !.who = p,
                                 !.id = inv[p].id]
  \/ \E o \in {"accept", "acceptNew"} :
       req'[s] = [NoRequest EXCEPT !.op = o, !.pc = "take", !.who = p, !.link = inv[p].link]
  \/ \E r \in Roles :
       /\ canTouchRole(EffectiveRole(c), r)
       /\ \/ req'[s] = [NoRequest EXCEPT !.op = "setRole", !.pc = "lock", !.who = p,
                                         !.to = r, !.acc = EffectiveRole(c)]
          \/ req'[s] = [NoRequest EXCEPT !.op = "invite", !.pc = "upsert", !.by = c,
                                         !.who = p, !.to = r, !.acc = EffectiveRole(c)]

LEMMA RequestsBegin ==
  ASSUME TypeOK, NEW s \in Slots, Request(s)
  PROVE  /\ \E c, p \in People : Begun(s, c, p)
         /\ UNCHANGED <<rowVars, linkVars, historyVars>>
         /\ \A t \in Slots \ {s} : req'[t] = req[t]
<1>1. PICK c \in People, p \in People :
        \/ \E r \in Roles : RequestSetRole(s, c, p, r) \/ RequestInvite(s, c, p, r)
        \/ RequestRemove(s, c, p) \/ RequestDeleteUser(s, c, p)
        \/ RequestPromote(s, c, p) \/ RequestDemote(s, c, p)
        \/ RequestResend(s, c, p) \/ RequestRevoke(s, c, p)
        \/ c = p /\ RequestAccept(s, p)
  BY DEF Request
<1>2. \A r : Begin(s, r) =>
        /\ req'[s] = r /\ UNCHANGED <<rowVars, linkVars, historyVars>>
        /\ \A t \in Slots \ {s} : req'[t] = req[t]
  BY DEF Begin, TypeOK
<1>3. \E r : Begin(s, r)
  BY <1>1 DEF RequestSetRole, RequestInvite, RequestRemove, RequestDeleteUser, RequestPromote,
              RequestDemote, RequestResend, RequestRevoke, RequestAccept
<1>4. Begun(s, c, p)
  <2>1. CASE \E r \in Roles : RequestSetRole(s, c, p, r) \/ RequestInvite(s, c, p, r)
    <3>1. \E r \in Roles :
            /\ canTouchRole(EffectiveRole(c), r)
            /\ \/ req'[s] = [NoRequest EXCEPT !.op = "setRole", !.pc = "lock", !.who = p,
                                              !.to = r, !.acc = EffectiveRole(c)]
               \/ req'[s] = [NoRequest EXCEPT !.op = "invite", !.pc = "upsert", !.by = c,
                                              !.who = p, !.to = r, !.acc = EffectiveRole(c)]
      BY <1>2, <2>1 DEF RequestSetRole, RequestInvite
    <3> QED BY <3>1 DEF Begun
  <2>2. CASE RequestAccept(s, p)
    <3>1. \E o \in {"accept", "acceptNew"} :
            req'[s] = [NoRequest EXCEPT !.op = o, !.pc = "take", !.who = p, !.link = inv[p].link]
      BY <1>2, <2>2 DEF RequestAccept
    <3> QED BY <3>1 DEF Begun
  <2>3. CASE RequestRemove(s, c, p) \/ RequestDeleteUser(s, c, p)
    BY <1>2, <2>3 DEF RequestRemove, RequestDeleteUser, Begun
  <2>4. CASE RequestPromote(s, c, p) \/ RequestDemote(s, c, p)
    BY <1>2, <2>4 DEF RequestPromote, RequestDemote, Begun
  <2>5. CASE RequestResend(s, c, p)
    <3>1. req'[s] = [NoRequest EXCEPT !.op = "resend", !.pc = "reissue", !.who = p,
                                      !.acc = EffectiveRole(c), !.id = inv[p].id]
      BY <1>2, <2>5 DEF RequestResend
    <3> QED BY <3>1 DEF Begun
  <2>6. CASE RequestRevoke(s, c, p)
    <3>1. req'[s] = [NoRequest EXCEPT !.op = "revoke", !.pc = "undo", !.who = p,
                                      !.id = inv[p].id]
      BY <1>2, <2>6 DEF RequestRevoke
    <3> QED BY <3>1 DEF Begun
  <2> QED BY <1>1, <2>1, <2>2, <2>3, <2>4, <2>5, <2>6
<1> QED BY <1>2, <1>3, <1>4

LEMMA BegunAt ==
  ASSUME NEW s \in Slots, NEW c, NEW p, Begun(s, c, p)
  PROVE  /\ req'[s].pc \in {"lock", "scan", "set", "admins", "reissue", "undo", "take", "upsert"}
         /\ req'[s].pc = "lock" => req'[s].op \in {"setRole", "remove"}
         /\ req'[s].pc = "scan" => req'[s].op = "deleteUser"
         /\ req'[s].to = "owner" => req'[s].acc = "owner" /\ req'[s].op \in {"setRole", "invite"}
<1>1. CASE \E r \in Roles :
       /\ canTouchRole(EffectiveRole(c), r)
       /\ \/ req'[s] = [NoRequest EXCEPT !.op = "setRole", !.pc = "lock", !.who = p,
                                         !.to = r, !.acc = EffectiveRole(c)]
          \/ req'[s] = [NoRequest EXCEPT !.op = "invite", !.pc = "upsert", !.by = c,
                                         !.who = p, !.to = r, !.acc = EffectiveRole(c)]
  <2>1. PICK r \in Roles :
          /\ canTouchRole(EffectiveRole(c), r)
          /\ \/ req'[s] = [NoRequest EXCEPT !.op = "setRole", !.pc = "lock", !.who = p,
                                            !.to = r, !.acc = EffectiveRole(c)]
             \/ req'[s] = [NoRequest EXCEPT !.op = "invite", !.pc = "upsert", !.by = c,
                                            !.who = p, !.to = r, !.acc = EffectiveRole(c)]
    BY <1>1
  <2>2. /\ req'[s].to = r /\ req'[s].acc = EffectiveRole(c)
        /\ \/ req'[s].op = "setRole" /\ req'[s].pc = "lock"
           \/ req'[s].op = "invite" /\ req'[s].pc = "upsert"
    BY <2>1 DEF NoRequest
  <2> QED BY <2>1, <2>2 DEF canTouchRole
<1>2. CASE \E o \in {"accept", "acceptNew"} :
       req'[s] = [NoRequest EXCEPT !.op = o, !.pc = "take", !.who = p, !.link = inv[p].link]
  BY <1>2 DEF NoRequest
<1>3. CASE \/ req'[s] = [NoRequest EXCEPT !.op = "resend", !.pc = "reissue", !.who = p,
                                 !.acc = EffectiveRole(c), !.id = inv[p].id]
           \/ req'[s] = [NoRequest EXCEPT !.op = "revoke", !.pc = "undo", !.who = p,
                                 !.id = inv[p].id]
  BY <1>3 DEF NoRequest
<1>4. CASE \/ req'[s] = [NoRequest EXCEPT !.op = "remove", !.pc = "lock", !.who = p]
           \/ req'[s] = [NoRequest EXCEPT !.op = "deleteUser", !.pc = "scan", !.who = p]
           \/ req'[s] = [NoRequest EXCEPT !.op = "promote", !.pc = "set", !.who = p]
           \/ req'[s] = [NoRequest EXCEPT !.op = "demote", !.pc = "admins", !.who = p]
  <2>1. /\ req'[s].to = "none"
        /\ \/ req'[s].op = "remove" /\ req'[s].pc = "lock"
           \/ req'[s].op = "deleteUser" /\ req'[s].pc = "scan"
           \/ req'[s].pc \in {"set", "admins"}
    BY <1>4 DEF NoRequest
  <2> QED BY <2>1
<1> QED BY <1>1, <1>2, <1>3, <1>4 DEF Begun

(* An invitation that was written is delivered next.                        *)
LEMMA MailsNext ==
  ASSUME TypeOK, NEW s \in Slots, Upsert(s) \/ Reissue(s)
  PROVE  \/ Done(s)
         \/ /\ req'[s].pc = "mail"
            /\ req'[s].op = req[s].op /\ req'[s].to = req[s].to /\ req'[s].acc = req[s].acc
<1>1. req \in [Slots -> Requests] /\ req[s] \in Requests
  BY DEF TypeOK
<1>2. CASE Upsert(s)
  <2> DEFINE k == Len(accepted) + 1
             i == IF inv[req[s].who].id = 0 THEN k ELSE inv[req[s].who].id
             r == [req[s] EXCEPT !.id = i, !.link = k, !.pc = "mail"]
  <2> HIDE DEF k
  <2>1. Done(s) \/ req' = [req EXCEPT ![s] = r]
    BY <1>1, <1>2 DEF Upsert, k
  <2> HIDE DEF i
  <2>2. r.pc = "mail" /\ r.op = req[s].op /\ r.to = req[s].to /\ r.acc = req[s].acc
    BY <1>1 DEF Requests
  <2> HIDE DEF r
  <2> QED BY <1>1, <2>1, <2>2
<1>3. CASE Reissue(s)
  <2> DEFINE k == Len(accepted) + 1
             r == [req[s] EXCEPT !.link = k, !.pc = "mail"]
  <2>1. Done(s) \/ req' = [req EXCEPT ![s] = r]
    BY <1>1, <1>3 DEF Reissue
  <2>2. r.pc = "mail" /\ r.op = req[s].op /\ r.to = req[s].to /\ r.acc = req[s].acc
    BY <1>1 DEF Requests
  <2> HIDE DEF r
  <2> QED BY <1>1, <2>1, <2>2
<1> QED BY <1>2, <1>3

LEMMA OthersStay ==
  ASSUME TypeOK, NEW s \in Slots, RequestStep(s), NEW t \in Slots \ {s}
  PROVE  req'[t] = req[t]
<1>1. CASE Request(s)
  BY <1>1, RequestsBegin
<1>2. CASE Quiet(s)
  BY <1>2 DEF Quiet, LockOrg, ReadRole, CountOwners, ScanOwned, LockOwned, CheckSoleOwner,
       FindAdmins, LockAdmins, Deliver, TakeInvitation, DeliveryFails, CallFails, Go, Done, TypeOK
<1>3. CASE Writes(s)
  BY <1>3 DEF Writes, WriteRole, DeleteUser, Promote, Demote, Upsert, Reissue, DeleteInvitation,
       Join, Done, TypeOK
<1> QED BY <1>1, <1>2, <1>3 DEF RequestStep

LEMMA QuietRows ==
  ASSUME NEW s \in Slots, Quiet(s)
  PROVE  UNCHANGED <<rowVars, accepted, historyVars>>
BY DEF Quiet, linkVars, LockOrg, ReadRole, CountOwners, ScanOwned, LockOwned, CheckSoleOwner,
       FindAdmins, LockAdmins, Deliver, TakeInvitation, DeliveryFails, CallFails

-----------------------------------------------------------------------------
(* The platform keeps an administrator.                                     *)

(* What LockAdmins has found and locked is still there when Demote acts.    *)
LockedAdmins(s) ==
  req[s].pc = "clear" => req[s].rows \subseteq admin /\ req[s].rows # {req[s].who}

AdminInv == (\A s \in Slots : LockedAdmins(s)) /\ AdminKept

(* Only LockAdmins brings a request where it takes the flag away.           *)
LEMMA ClearAfterLock ==
  ASSUME TypeOK, NEW s \in Slots, RequestStep(s), ~LockAdmins(s)
  PROVE  req'[s].pc = "clear" => req[s].pc = "clear" /\ req'[s] = req[s]
<1>1. CASE Request(s)
  BY <1>1, RequestsBegin, BegunAt
<1>2. CASE Quiet(s)
  BY <1>2 DEF Quiet, LockOrg, ReadRole, CountOwners, ScanOwned, LockOwned, CheckSoleOwner,
       FindAdmins, Deliver, TakeInvitation, DeliveryFails, CallFails, Go, Done, TypeOK, Requests,
       NoRequest
<1>3. CASE Upsert(s) \/ Reissue(s)
  <2>1. Done(s) => req'[s].pc = "idle"
    BY DEF Done, TypeOK, NoRequest
  <2> QED BY <1>3, <2>1, MailsNext
<1>4. CASE Done(s)
  BY <1>4 DEF Done, TypeOK, NoRequest
<1> QED
  BY <1>1, <1>2, <1>3, <1>4 DEF RequestStep, Writes, WriteRole, DeleteUser, Promote, Demote,
       DeleteInvitation, Join

(* No step takes the flag from a row another request has locked.            *)
LEMMA HeldStay ==
  ASSUME TypeOK, NEW s \in Slots, RequestStep(s), NEW t \in Slots \ {s},
         req[t].pc = "clear", req[t].rows \subseteq admin
  PROVE  req[t].rows \subseteq admin'
<1>1. req[t].rows \subseteq AdminsHeld(s)
  BY DEF AdminsHeld
<1>2. CASE Request(s) \/ Quiet(s)
  BY <1>2, RequestsBegin, QuietRows DEF rowVars
<1>3. CASE Writes(s)
  <2>1. UNCHANGED admin \/ admin' = admin \cup {req[s].who}
          \/ (admin' = admin \ {req[s].who} /\ req[s].who \notin AdminsHeld(s))
    BY <1>3 DEF Writes, WriteRole, DeleteUser, Promote, Demote, Upsert, Reissue,
                DeleteInvitation, Join, rowVars
  <2> QED BY <1>1, <2>1
<1> QED BY <1>2, <1>3 DEF RequestStep

LEMMA AdminInvKept ==
  ASSUME TypeOK, AdminInv, [Next]_vars
  PROVE  AdminInv'
<1>1. CASE UNCHANGED <<req, admin, bare>>
  BY <1>1 DEF AdminInv, LockedAdmins, AdminKept
<1>2. CASE \E s \in Slots : RequestStep(s)
  <2>1. PICK s \in Slots : RequestStep(s)
    BY <1>2
  <2>2. bare => bare'
    BY <2>1, RequestsBegin, QuietRows
       DEF RequestStep, Writes, WriteRole, DeleteUser, Promote, Demote, Upsert, Reissue,
           DeleteInvitation, Join, historyVars
  <2>3. ASSUME NEW t \in Slots \ {s} PROVE LockedAdmins(t)'
    <3>1. req'[t] = req[t]
      BY <2>1, OthersStay
    <3> QED BY <2>1, <2>2, <3>1, HeldStay DEF AdminInv, LockedAdmins
  <2>4. LockedAdmins(s)'
    <3>1. CASE LockAdmins(s)
      <4>1. \/ req'[s] = NoRequest
            \/ /\ req'[s].rows = req[s].rows \cap admin /\ req'[s].rows # {req[s].who}
               /\ req'[s].who = req[s].who
        BY <3>1 DEF LockAdmins, Done, TypeOK, Requests
      <4>2. UNCHANGED <<admin, bare>>
        BY <3>1 DEF LockAdmins, rowVars, historyVars
      <4> QED BY <4>1, <4>2 DEF LockedAdmins, NoRequest
    <3>2. CASE ~LockAdmins(s) /\ req'[s].pc = "clear"
      <4>1. req[s].pc = "clear" /\ req'[s] = req[s]
        BY <2>1, <3>2, ClearAfterLock
      <4>2. UNCHANGED admin \/ req'[s] = NoRequest
        BY <2>1, RequestsBegin, QuietRows
           DEF RequestStep, Writes, WriteRole, DeleteUser, Promote, Demote, Upsert, Reissue,
               DeleteInvitation, Join, rowVars, Done, TypeOK
      <4>3. UNCHANGED admin
        BY <3>2, <4>2 DEF NoRequest
      <4> QED BY <2>2, <4>1, <4>3 DEF AdminInv, LockedAdmins
    <3> QED BY <3>1, <3>2 DEF LockedAdmins
  <2>5. AdminKept'
    <3>1. CASE DeleteUser(s)
      BY <3>1 DEF DeleteUser, AdminInv, AdminKept, rowVars
    <3>2. CASE Demote(s)
      <4>1. /\ admin' = admin \ {req[s].who} /\ req[s].rows \subseteq admin
            /\ req[s].rows # {req[s].who}
            /\ bare' = (bare \/ (req[s].rows = {} /\ admin = {req[s].who}))
        BY <3>2 DEF Demote, At, AdminInv, LockedAdmins
      <4>2. CASE req[s].rows = {}
        BY <4>1, <4>2 DEF AdminInv, AdminKept
      <4>3. CASE req[s].rows # {}
        <5>1. \E a \in req[s].rows : a # req[s].who
          BY <4>1, <4>3
        <5> QED BY <4>1, <5>1 DEF AdminKept
      <4> QED BY <4>2, <4>3
    <3>3. CASE ~DeleteUser(s) /\ ~Demote(s)
      <4>1. admin \subseteq admin'
        BY <2>1, <3>3, RequestsBegin, QuietRows
           DEF RequestStep, Writes, WriteRole, Promote, Upsert, Reissue, DeleteInvitation, Join, rowVars
      <4> QED BY <2>2, <4>1 DEF AdminInv, AdminKept
    <3> QED BY <3>1, <3>2, <3>3
  <2> QED BY <2>3, <2>4, <2>5 DEF AdminInv
<1> QED BY <1>1, <1>2, Steps DEF Expire, Prune, historyVars, vars

(* The platform keeps an administrator, however many requests to take the   *)
(* flag away, or to delete accounts, are handled at a time: SetAdmin locks  *)
(* the administrators it finds before it decides.                           *)
THEOREM PlatformKeepsAdmin == Spec => []AdminKept
<1>1. Init => TypeOK /\ AdminInv
  BY InitTypes DEF Init, AdminInv, LockedAdmins, AdminKept, NoRequest
<1>2. (TypeOK /\ AdminInv) /\ [Next]_vars => (TypeOK /\ AdminInv)'
  BY TypesKept, AdminInvKept
<1>3. AdminInv => AdminKept
  BY DEF AdminInv
<1> QED BY <1>1, <1>2, <1>3, PTL DEF Spec

-----------------------------------------------------------------------------
(* The organisation keeps an owner.                                         *)

Another(p) == \E q \in People : q # p /\ role[q] = "owner"

(* What a request is about is told by where it is.                          *)
KnownOp(s) ==
  /\ req[s].pc \in {"read", "count", "write"} => req[s].op \in {"setRole", "remove"}
  /\ req[s].pc \in {"scan", "check", "delete"} => req[s].op = "deleteUser"
  /\ req[s].pc = "lock" /\ req[s].op # "setRole" /\ req[s].op # "remove" =>
       req[s].op = "deleteUser" /\ req[s].owns

(* What was checked under the organisation's lock, or without it where      *)
(* there was nothing to lock, still holds when the row is written.          *)
LeavesAnother(s) ==
  /\ req[s].op = "deleteUser" /\ ~req[s].owns /\ req[s].pc \in {"check", "delete"} =>
       late \/ role[req[s].who] # "owner"
  /\ req[s].pc = "write" /\ req[s].to # "owner" =>
       late \/ role[req[s].who] # "owner" \/ Another(req[s].who)
  /\ req[s].pc = "delete" => late \/ role[req[s].who] # "owner" \/ Another(req[s].who)

OneHolder == \A s, t \in Slots : LocksOrg(s) /\ LocksOrg(t) => s = t

OwnerInv ==
  /\ \A s \in Slots : KnownOp(s) /\ LeavesAnother(s)
  /\ OneHolder /\ OwnerKept

LEMMA OpKept ==
  ASSUME TypeOK, NEW s \in Slots, KnownOp(s), RequestStep(s)
  PROVE  KnownOp(s)'
<1>0. req[s] \in Requests
  BY DEF TypeOK
<1>1. CASE Request(s)
  <2>1. PICK c \in People, p \in People : Begun(s, c, p)
    BY <1>1, RequestsBegin
  <2> QED BY <2>1, BegunAt DEF KnownOp
<1>2. CASE Done(s)
  BY <1>2 DEF Done, TypeOK, NoRequest, KnownOp
<1>3. CASE Quiet(s) /\ ~Done(s)
  <2>1. CASE ScanOwned(s)
    BY <1>0, <2>1 DEF ScanOwned, TypeOK, At, KnownOp, Requests
  <2>2. CASE FindAdmins(s) \/ LockAdmins(s)
    BY <1>0, <1>3, <2>2 DEF FindAdmins, LockAdmins, TypeOK, KnownOp, Requests
  <2>3. CASE ~ScanOwned(s) /\ ~FindAdmins(s) /\ ~LockAdmins(s)
    <3>1. \A pc : Go(s, pc) => /\ req'[s].op = req[s].op /\ req'[s].owns = req[s].owns
                               /\ req'[s].pc = pc
      BY <1>0 DEF Go, TypeOK, Requests
    <3> QED
      BY <1>0, <1>3, <2>3, <3>1
         DEF Quiet, LockOrg, ReadRole, CountOwners, LockOwned, CheckSoleOwner, Deliver,
             TakeInvitation, DeliveryFails, CallFails, At, KnownOp
  <2> QED BY <2>1, <2>2, <2>3
<1>4. CASE (Upsert(s) \/ Reissue(s)) /\ ~Done(s)
  <2>1. req'[s].pc = "mail"
    BY <1>4, MailsNext
  <2> QED BY <2>1 DEF KnownOp
<1> QED
  BY <1>1, <1>2, <1>3, <1>4 DEF RequestStep, Writes, WriteRole, DeleteUser, Promote, Demote,
       DeleteInvitation, Join

(* The lock is kept, or taken when it is free.                              *)
LEMMA LockTaken ==
  ASSUME TypeOK, NEW s \in Slots, KnownOp(s), RequestStep(s), LocksOrg(s)'
  PROVE  LocksOrg(s) \/ OrgFree(s)
<1>0. req[s] \in Requests
  BY DEF TypeOK
<1>1. CASE Request(s)
  <2>1. PICK c \in People, p \in People : Begun(s, c, p)
    BY <1>1, RequestsBegin
  <2> QED BY <2>1, BegunAt DEF LocksOrg
<1>2. CASE Done(s)
  BY <1>2 DEF Done, TypeOK, NoRequest, LocksOrg
<1>3. CASE Quiet(s) /\ ~Done(s)
  <2>1. CASE ScanOwned(s)
    BY <1>0, <2>1 DEF ScanOwned, TypeOK, At, LocksOrg, Requests
  <2>2. CASE FindAdmins(s) \/ LockAdmins(s)
    BY <1>0, <1>3, <2>2 DEF FindAdmins, LockAdmins, TypeOK, LocksOrg, Requests
  <2>3. CASE LockOrg(s) \/ LockOwned(s)
    BY <2>3 DEF LockOrg, LockOwned
  <2>4. CASE ~ScanOwned(s) /\ ~FindAdmins(s) /\ ~LockAdmins(s) /\ ~LockOrg(s) /\ ~LockOwned(s)
    <3>1. \A pc : Go(s, pc) => /\ req'[s].op = req[s].op /\ req'[s].owns = req[s].owns
                               /\ req'[s].pc = pc
      BY <1>0 DEF Go, TypeOK, Requests
    <3> QED
      BY <1>0, <1>3, <2>4, <3>1
         DEF Quiet, ReadRole, CountOwners, CheckSoleOwner, Deliver,
             TakeInvitation, DeliveryFails, CallFails, At, KnownOp, LocksOrg
  <2> QED BY <2>1, <2>2, <2>3, <2>4
<1>4. CASE (Upsert(s) \/ Reissue(s)) /\ ~Done(s)
  <2>1. req'[s].pc = "mail"
    BY <1>4, MailsNext
  <2> QED BY <2>1 DEF LocksOrg
<1> QED
  BY <1>1, <1>2, <1>3, <1>4 DEF RequestStep, Writes, WriteRole, DeleteUser, Promote, Demote,
       DeleteInvitation, Join

LEMMA OneHolderKept ==
  ASSUME TypeOK, OneHolder, NEW s \in Slots, KnownOp(s), RequestStep(s)
  PROVE  OneHolder'
<1>1. ASSUME NEW t \in Slots \ {s} PROVE LocksOrg(t)' = LocksOrg(t)
  BY OthersStay DEF LocksOrg
<1>2. ASSUME NEW t \in Slots \ {s}, LocksOrg(s)', LocksOrg(t)' PROVE FALSE
  <2>1. LocksOrg(t)
    BY <1>1, <1>2
  <2>2. LocksOrg(s) \/ OrgFree(s)
    BY <1>2, LockTaken
  <2> QED BY <2>1, <2>2 DEF OrgFree, OneHolder
<1> QED BY <1>1, <1>2 DEF OneHolder

(* Who changes roles.                                                       *)
LEMMA RoleSteps ==
  ASSUME TypeOK, NEW s \in Slots, RequestStep(s)
  PROVE  \/ UNCHANGED <<role, late>>
         \/ WriteRole(s) \/ DeleteUser(s) \/ Join(s)
BY RequestsBegin, QuietRows
   DEF RequestStep, Writes, Promote, Demote, Upsert, Reissue, DeleteInvitation, rowVars, historyVars

(* The request that makes the step.                                         *)
LEMMA OwnCheck ==
  ASSUME TypeOK, NEW s \in Slots, KnownOp(s), LeavesAnother(s), RequestStep(s)
  PROVE  LeavesAnother(s)'
<1>0. req[s] \in Requests
  BY DEF TypeOK
<1>d. CASE Done(s)
  BY <1>d DEF Done, TypeOK, NoRequest, LeavesAnother
<1>1. CASE Request(s)
  <2>1. PICK c \in People, p \in People : Begun(s, c, p)
    BY <1>1, RequestsBegin
  <2> QED BY <2>1, BegunAt DEF LeavesAnother
<1>2. CASE Writes(s) /\ ~Done(s)
  <2>1. req'[s].pc = "mail"
    <3>1. Upsert(s) \/ Reissue(s)
      BY <1>2 DEF Writes, WriteRole, DeleteUser, Promote, Demote, DeleteInvitation, Join
    <3> QED BY <1>2, <3>1, MailsNext
  <2> QED BY <2>1 DEF LeavesAnother
<1>3. CASE Quiet(s) /\ ~Done(s)
  <2>0. UNCHANGED <<role, late>>
    BY <1>3, QuietRows DEF rowVars, historyVars
  <2>1. CASE ScanOwned(s)
    <3>1. /\ req'[s].who = req[s].who /\ req'[s].pc \in {"lock", "check"}
          /\ ~req'[s].owns => role[req[s].who] # "owner"
      BY <1>0, <2>1 DEF ScanOwned, TypeOK, Requests
    <3> QED BY <2>0, <3>1 DEF LeavesAnother
  <2>2. CASE FindAdmins(s) \/ LockAdmins(s)
    BY <1>0, <1>3, <2>2 DEF FindAdmins, LockAdmins, TypeOK, LeavesAnother, Requests
  <2>3. CASE ~ScanOwned(s) /\ ~FindAdmins(s) /\ ~LockAdmins(s)
    <3>1. \A pc : Go(s, pc) => /\ req'[s].op = req[s].op /\ req'[s].owns = req[s].owns
                               /\ req'[s].who = req[s].who /\ req'[s].to = req[s].to
                               /\ req'[s].pc = pc
      BY <1>0 DEF Go, TypeOK, Requests
    <3>2. CASE ReadRole(s)
      <4>1. Go(s, IF role[req[s].who] = "owner" /\ req[s].to # "owner" THEN "count" ELSE "write")
        BY <1>3, <3>2 DEF ReadRole
      <4>2. req[s].op # "deleteUser"
        BY <3>2 DEF ReadRole, At, KnownOp
      <4> QED BY <2>0, <3>1, <4>1, <4>2 DEF LeavesAnother
    <3>3. CASE CountOwners(s)
      <4>1. AnotherOwner /\ Go(s, "write") /\ req[s].op # "deleteUser"
        BY <1>3, <3>3 DEF CountOwners, At, KnownOp
      <4>2. Another(req[s].who)
        BY <4>1 DEF AnotherOwner, Owners, Another
      <4>3. Another(req[s].who)'
        BY <2>0, <3>1, <4>1, <4>2 DEF Another
      <4> QED BY <3>1, <4>1, <4>3 DEF LeavesAnother
    <3>4. CASE CheckSoleOwner(s)
      <4>1. Owners # {req[s].who} /\ Go(s, "delete") /\ At(s, "check")
        BY <1>3, <3>4 DEF CheckSoleOwner
      <4>2. role[req[s].who] # "owner" \/ Another(req[s].who)
        BY <1>0, <4>1 DEF Owners, Another, Requests
      <4>3. role'[req'[s].who] # "owner" \/ Another(req[s].who)'
        BY <2>0, <3>1, <4>1, <4>2 DEF Another
      <4> QED BY <2>0, <3>1, <4>1, <4>3 DEF LeavesAnother, At
    <3>5. CASE LockOwned(s)
      <4>1. Go(s, "check") /\ req[s].op = "deleteUser" /\ req[s].owns
        BY <3>5 DEF LockOwned, At, KnownOp
      <4> QED BY <2>0, <3>1, <4>1 DEF LeavesAnother
    <3>6. CASE LockOrg(s) \/ Deliver(s) \/ TakeInvitation(s) \/ DeliveryFails(s) \/ CallFails(s)
      <4>1. \E pc \in {"read", "join", "undo"} : Go(s, pc)
        BY <1>3, <3>6 DEF LockOrg, Deliver, TakeInvitation, DeliveryFails, CallFails
      <4> QED BY <3>1, <4>1 DEF LeavesAnother
    <3> QED BY <1>3, <2>3, <3>2, <3>3, <3>4, <3>5, <3>6 DEF Quiet
  <2> QED BY <2>1, <2>2, <2>3
<1> QED BY <1>d, <1>1, <1>2, <1>3 DEF RequestStep

(* The other requests: what they checked they checked under the lock, which *)
(* the step would have to wait for, or they find late set.                  *)
LEMMA OthersCheck ==
  ASSUME TypeOK, OwnerInv, NEW s \in Slots, RequestStep(s), NEW t \in Slots \ {s}
  PROVE  LeavesAnother(t)'
<1>0. /\ req[s] \in Requests /\ req[t] \in Requests /\ role \in [People -> Roles \cup {"none"}]
      /\ req[s].who \in People /\ req[t].who \in People /\ late \in BOOLEAN
  BY DEF TypeOK, Requests
<1>1. req'[t] = req[t] /\ KnownOp(t) /\ LeavesAnother(t) /\ KnownOp(s) /\ LeavesAnother(s)
  BY OthersStay DEF OwnerInv
<1>2. CASE UNCHANGED <<role, late>>
  BY <1>1, <1>2 DEF LeavesAnother, Another
<1>3. CASE OrgFree(s) /\ (WriteRole(s) \/ Join(s))
  <2>1. ~LocksOrg(t)
    BY <1>3 DEF OrgFree
  <2>2. req[t].pc # "write" /\ (req[t].pc = "delete" => ~req[t].owns)
    BY <1>1, <2>1 DEF KnownOp, LocksOrg
  <2>3. req[t].op = "deleteUser" /\ ~req[t].owns /\ req[t].pc \in {"check", "delete"} =>
          late' \/ role'[req[t].who] # "owner"
    <3>1. CASE UNCHANGED <<role, late>>
      BY <1>1, <3>1 DEF LeavesAnother
    <3>2. CASE \E r : GivesRole(req[s].who, r)
      <4>1. PICK r : GivesRole(req[s].who, r)
        BY <3>2
      <4> QED BY <1>0, <1>1, <4>1 DEF LeavesAnother, GivesRole, UnlockedDeletion
    <3> QED BY <1>3, <3>1, <3>2 DEF WriteRole, Join
  <2> QED BY <1>1, <2>2, <2>3 DEF LeavesAnother, KnownOp
<1>4. CASE WriteRole(s)
  <2>1. LocksOrg(s)
    BY <1>1, <1>4 DEF WriteRole, At, KnownOp, LocksOrg
  <2>2. OrgFree(s)
    BY <2>1 DEF OwnerInv, OneHolder, OrgFree
  <2> QED BY <1>3, <1>4, <2>2
<1>5. CASE Join(s) /\ ~OrgFree(s)
  BY <1>2, <1>5 DEF Join
<1>6. CASE DeleteUser(s)
  <2>1. CASE UNCHANGED <<role, late>>
    BY <1>2, <2>1
  <2>2. CASE role' = [role EXCEPT ![req[s].who] = "none"] /\ UNCHANGED late
    <3>1. req[s].op = "deleteUser" /\ req[s].pc = "delete"
      BY <1>1, <1>6 DEF DeleteUser, At, KnownOp
    <3>2. CASE req[s].owns
      <4>1. LocksOrg(s)
        BY <3>1, <3>2 DEF LocksOrg
      <4>2. ~LocksOrg(t)
        BY <4>1 DEF OwnerInv, OneHolder
      <4>3. req[t].pc # "write" /\ (req[t].pc = "delete" => ~req[t].owns)
        BY <1>1, <4>2 DEF KnownOp, LocksOrg
      <4>4. role[req[t].who] # "owner" => role'[req[t].who] # "owner"
        BY <1>0, <2>2
      <4> QED BY <1>1, <2>2, <4>3, <4>4 DEF LeavesAnother, KnownOp
    <3>3. CASE ~req[s].owns
      <4>1. late \/ role[req[s].who] # "owner"
        BY <1>1, <3>1, <3>3 DEF LeavesAnother
      <4>2. late \/ \A q \in People : role'[q] = "owner" <=> role[q] = "owner"
        BY <1>0, <2>2, <4>1
      <4> QED BY <1>0, <1>1, <2>2, <4>2 DEF LeavesAnother, Another
    <3> QED BY <3>2, <3>3
  <2> QED BY <1>6, <2>1, <2>2 DEF DeleteUser, rowVars
<1> QED BY <1>2, <1>3, <1>4, <1>5, <1>6, RoleSteps

LEMMA OwnerStays ==
  ASSUME TypeOK, OwnerInv, NEW s \in Slots, RequestStep(s)
  PROVE  OwnerKept'
<1>0. /\ req[s] \in Requests /\ req[s].who \in People /\ late \in BOOLEAN
      /\ role \in [People -> Roles \cup {"none"}] /\ KnownOp(s) /\ LeavesAnother(s)
  BY DEF TypeOK, Requests, OwnerInv
<1>1. CASE late
  <2>1. late'
    BY <1>1, RoleSteps DEF WriteRole, DeleteUser, Join, GivesRole
  <2> QED BY <2>1 DEF OwnerKept
<1>2. CASE ~late
  <2>1. PICK o \in People : role[o] = "owner"
    BY <1>2 DEF OwnerInv, OwnerKept, Owners
  <2>2. CASE UNCHANGED role
    BY <2>1, <2>2 DEF OwnerKept, Owners
  <2>3. CASE Join(s)
    <3>1. role'[o] = "owner"
      BY <1>0, <2>1, <2>3 DEF Join, GivesRole
    <3> QED BY <3>1 DEF OwnerKept, Owners
  <2>4. CASE WriteRole(s) /\ role' # role
    <3>1. req[s].pc = "write" /\ role' = [role EXCEPT ![req[s].who] = req[s].to]
      BY <2>4 DEF WriteRole, At, GivesRole
    <3>2. req[s].to = "owner" \/ \E q \in People : q # req[s].who /\ role[q] = "owner"
      BY <1>0, <1>2, <2>1, <3>1 DEF LeavesAnother, Another
    <3>3. \E q \in People : role'[q] = "owner"
      BY <1>0, <3>1, <3>2
    <3> QED BY <3>3 DEF OwnerKept, Owners
  <2>5. CASE DeleteUser(s) /\ role' # role
    <3>1. req[s].pc = "delete" /\ role' = [role EXCEPT ![req[s].who] = "none"]
      BY <2>5 DEF DeleteUser, At, rowVars
    <3>2. \E q \in People : q # req[s].who /\ role[q] = "owner"
      BY <1>0, <1>2, <2>1, <3>1 DEF LeavesAnother, Another
    <3>3. \E q \in People : role'[q] = "owner"
      BY <1>0, <3>1, <3>2
    <3> QED BY <3>3 DEF OwnerKept, Owners
  <2> QED BY <2>2, <2>3, <2>4, <2>5, RoleSteps
<1> QED BY <1>1, <1>2

LEMMA OwnerInvKept ==
  ASSUME TypeOK, OwnerInv, [Next]_vars
  PROVE  OwnerInv'
<1>1. CASE UNCHANGED <<req, role, late>>
  BY <1>1 DEF OwnerInv, KnownOp, LeavesAnother, Another, OneHolder, LocksOrg, OwnerKept, Owners
<1>2. CASE \E s \in Slots : RequestStep(s)
  <2>1. PICK s \in Slots : RequestStep(s)
    BY <1>2
  <2>2. \A t \in Slots : KnownOp(t)'
    <3>1. ASSUME NEW t \in Slots \ {s} PROVE KnownOp(t)'
      BY <2>1, OthersStay DEF KnownOp, OwnerInv
    <3> QED BY <2>1, <3>1, OpKept DEF OwnerInv
  <2>3. \A t \in Slots : LeavesAnother(t)'
    BY <2>1, OwnCheck, OthersCheck DEF OwnerInv
  <2>4. OneHolder' /\ OwnerKept'
    BY <2>1, OneHolderKept, OwnerStays DEF OwnerInv
  <2> QED BY <2>2, <2>3, <2>4 DEF OwnerInv
<1> QED BY <1>1, <1>2, Steps DEF Expire, Prune, historyVars, vars

(* The organisation keeps an owner, whatever roles are changed, members     *)
(* removed and accounts deleted at a time (requireAnotherOwner and          *)
(* DeleteUser under the organisation's lock), unless somebody became an     *)
(* owner while DeleteUser, not having found an owner, held no lock.         *)
THEOREM OrganisationKeepsOwner == Spec => []OwnerKept
<1>1. Init => TypeOK /\ OwnerInv
  <2> SUFFICES ASSUME Init PROVE TypeOK /\ OwnerInv
    OBVIOUS
  <2>1. \A s \in Slots : req[s] = NoRequest
    BY DEF Init
  <2>2. OwnerKept
    BY PeopleAssumption DEF Init, OwnerKept, Owners
  <2> QED
    BY <2>1, <2>2, InitTypes
       DEF OwnerInv, KnownOp, LeavesAnother, OneHolder, LocksOrg, NoRequest
<1>2. (TypeOK /\ OwnerInv) /\ [Next]_vars => (TypeOK /\ OwnerInv)'
  BY TypesKept, OwnerInvKept
<1>3. OwnerInv => OwnerKept
  BY DEF OwnerInv
<1> QED BY <1>1, <1>2, <1>3, PTL DEF Spec

(* Somebody stays in charge of the organisation and of the platform,        *)
(* whatever requests overlap (requireAnotherOwner, DeleteUser, SetAdmin),   *)
(* with the exceptions OwnerKept and AdminKept name.                        *)
THEOREM SomebodyInCharge == Spec => []InCharge
<1>1. OwnerKept /\ AdminKept => InCharge
  BY DEF InCharge
<1> QED BY <1>1, OrganisationKeepsOwner, PlatformKeepsAdmin, PTL

-----------------------------------------------------------------------------
(* A link lets somebody in at most once.                                    *)

(* The link of an invitation is its own and has not been used, and who is   *)
(* being let in is so by one request alone, which holds the row.            *)
FreshLinks ==
  /\ \A p \in People : inv[p].live => inv[p].link # 0
  /\ \A p \in People : inv[p].link # 0 => accepted[inv[p].link] = 0
  /\ \A p, q \in People : inv[p].link # 0 /\ inv[p].link = inv[q].link => p = q

HoldsInvitation(s) ==
  req[s].pc = "join" => req[s].link # 0 /\ inv[req[s].who].link = req[s].link

OneJoin ==
  \A s, t \in Slots :
    req[s].pc = "join" /\ req[t].pc = "join" /\ req[s].who = req[t].who => s = t

LinkInv ==
  FreshLinks /\ (\A s \in Slots : HoldsInvitation(s)) /\ OneJoin /\ AcceptedOnce

(* What becomes of invitations: one is issued a link, ...                   *)
Issued(p) ==
  /\ InvitationFree(p) /\ accepted' = Append(accepted, 0)
  /\ \E x : x.link = Len(accepted) + 1 /\ inv' = [inv EXCEPT ![p] = x]

(* ... deleted, ...                                                         *)
Deleted(p) ==
  InvitationFree(p) /\ inv' = [inv EXCEPT ![p] = NoInvitation] /\ UNCHANGED accepted

(* ... or expires.                                                          *)
Expired(p) == inv' = [inv EXCEPT ![p].live = FALSE] /\ UNCHANGED accepted

LEMMA InvitationSteps ==
  ASSUME TypeOK, NEW s \in Slots, RequestStep(s)
  PROVE  \/ UNCHANGED <<inv, accepted>>
         \/ Issued(req[s].who) \/ Deleted(req[s].who)
         \/ Join(s)
<1>1. CASE Upsert(s)
  <2>1. \/ UNCHANGED <<inv, accepted>>
        \/ /\ InvitationFree(req[s].who) /\ accepted' = Append(accepted, 0)
           /\ inv' = [inv EXCEPT ![req[s].who] =
                        [id |-> IF inv[req[s].who].id = 0 THEN Len(accepted) + 1
                                ELSE inv[req[s].who].id,
                         role |-> req[s].to, link |-> Len(accepted) + 1, live |-> TRUE,
                         by |-> req[s].acc]]
    BY <1>1 DEF Upsert
  <2> QED BY <2>1 DEF Issued
<1>2. CASE Reissue(s)
  <2>1. inv[req[s].who] \in Invitations
    BY DEF TypeOK, Requests
  <2>2. \/ UNCHANGED <<inv, accepted>>
        \/ /\ InvitationFree(req[s].who) /\ accepted' = Append(accepted, 0)
           /\ inv' = [inv EXCEPT ![req[s].who] =
                        [inv[req[s].who] EXCEPT !.link = Len(accepted) + 1, !.live = TRUE]]
    <3>1. inv \in [People -> Invitations] /\ req[s].who \in People
      BY DEF TypeOK, Requests
    <3> QED BY <1>2, <3>1 DEF Reissue
  <2>3. [inv[req[s].who] EXCEPT !.link = Len(accepted) + 1, !.live = TRUE].link
          = Len(accepted) + 1
    BY <2>1 DEF Invitations
  <2> QED BY <2>2, <2>3 DEF Issued
<1>3. CASE DeleteInvitation(s)
  BY <1>3 DEF DeleteInvitation, Deleted, linkVars
<1>4. CASE WriteRole(s) \/ DeleteUser(s) \/ Promote(s) \/ Demote(s)
  BY <1>4 DEF WriteRole, DeleteUser, Promote, Demote, linkVars, rowVars
<1>5. CASE Request(s) \/ Quiet(s)
  BY <1>5, RequestsBegin, QuietRows DEF rowVars, linkVars
<1> QED BY <1>1, <1>2, <1>3, <1>4, <1>5 DEF RequestStep, Writes

LEMMA FreshLinksKept ==
  ASSUME TypeOK, LinkInv,
         \/ UNCHANGED <<inv, accepted>>
         \/ \E p \in People : Issued(p) \/ Deleted(p) \/ Expired(p)
         \/ \E s \in Slots : Join(s)
  PROVE  FreshLinks' /\ AcceptedOnce'
<1>0. /\ accepted \in Seq(Nat) /\ \A p \in People : inv[p] \in Invitations
      /\ \A p \in People : inv[p].link \in 0..Len(accepted)
      /\ inv \in [People -> Invitations] /\ NoInvitation.link = 0 /\ ~NoInvitation.live
      /\ FreshLinks /\ AcceptedOnce
  BY DEF TypeOK, Invitations, Links, NoInvitation, LinkInv
<1>1. CASE UNCHANGED <<inv, accepted>>
  BY <1>0, <1>1 DEF FreshLinks, AcceptedOnce
<1>2. ASSUME NEW p \in People, Issued(p) PROVE FreshLinks' /\ AcceptedOnce'
  <2>1. PICK x : x.link = Len(accepted) + 1 /\ inv' = [inv EXCEPT ![p] = x]
    BY <1>2 DEF Issued
  <2>2. /\ accepted' = Append(accepted, 0) /\ Len(accepted') = Len(accepted) + 1
        /\ accepted' \in Seq(Nat)
        /\ \A k \in 1..Len(accepted) : accepted'[k] = accepted[k]
        /\ accepted'[Len(accepted) + 1] = 0
    BY <1>0, <1>2 DEF Issued
  <2>3. inv'[p].link = Len(accepted) + 1 /\ \A q \in People \ {p} : inv'[q] = inv[q]
    BY <1>0, <2>1
  <2>4. Len(accepted) + 1 # 0 /\ Len(accepted) + 1 \notin 0..Len(accepted)
    BY <1>0
  <2>5. FreshLinks'
    <3>1. ASSUME NEW q \in People, inv'[q].live PROVE inv'[q].link # 0
      BY <1>0, <2>3, <2>4, <3>1 DEF FreshLinks
    <3>2. ASSUME NEW q \in People, inv'[q].link # 0 PROVE accepted'[inv'[q].link] = 0
      <4>1. CASE q = p
        BY <2>2, <2>3, <4>1
      <4>2. CASE q # p
        <5>1. inv'[q] = inv[q] /\ inv[q].link \in 1..Len(accepted) /\ accepted[inv[q].link] = 0
          BY <1>0, <2>3, <3>2, <4>2 DEF FreshLinks
        <5> QED BY <2>2, <5>1
      <4> QED BY <4>1, <4>2
    <3>3. ASSUME NEW q \in People, NEW r \in People, inv'[q].link # 0,
                 inv'[q].link = inv'[r].link
          PROVE  q = r
      <4>1. inv[q].link \in 0..Len(accepted) /\ inv[r].link \in 0..Len(accepted)
        BY <1>0
      <4>2. CASE q = p \/ r = p
        BY <2>3, <2>4, <3>3, <4>1, <4>2
      <4>3. CASE q # p /\ r # p
        BY <1>0, <2>3, <3>3, <4>3 DEF FreshLinks
      <4> QED BY <4>2, <4>3
    <3> QED BY <3>1, <3>2, <3>3 DEF FreshLinks
  <2>6. AcceptedOnce'
    BY <1>0, <2>2 DEF AcceptedOnce
  <2> QED BY <2>5, <2>6
<1>3. ASSUME NEW p \in People, Deleted(p) PROVE FreshLinks' /\ AcceptedOnce'
  BY <1>0, <1>3 DEF FreshLinks, AcceptedOnce, Deleted
<1>4. ASSUME NEW p \in People, Expired(p) PROVE FreshLinks' /\ AcceptedOnce'
  <2>1. /\ inv'[p].link = inv[p].link /\ ~inv'[p].live
        /\ \A q \in People \ {p} : inv'[q] = inv[q]
    BY <1>0, <1>4 DEF Expired, Invitations
  <2> QED BY <1>0, <1>4, <2>1 DEF FreshLinks, AcceptedOnce, Expired
<1>5. ASSUME NEW s \in Slots, Join(s) PROVE FreshLinks' /\ AcceptedOnce'
  <2> DEFINE p == req[s].who
             k == req[s].link
  <2>1. CASE UNCHANGED <<inv, accepted>>
    BY <1>1, <2>1
  <2>2. CASE /\ inv' = [inv EXCEPT ![p] = NoInvitation]
             /\ accepted' = [accepted EXCEPT ![k] = accepted[k] + 1]
    <3>1. p \in People /\ k # 0 /\ inv[p].link = k
      BY <1>5 DEF TypeOK, Requests, LinkInv, HoldsInvitation, Join, At
    <3>2. k \in 1..Len(accepted) /\ accepted[k] = 0
      BY <1>0, <3>1 DEF FreshLinks
    <3>3. /\ DOMAIN accepted' = DOMAIN accepted /\ accepted'[k] = 1
          /\ \A j \in DOMAIN accepted : j # k => accepted'[j] = accepted[j]
      BY <1>0, <2>2, <3>2
    <3>4. inv'[p] = NoInvitation /\ \A q \in People \ {p} : inv'[q] = inv[q]
      BY <1>0, <2>2, <3>1
    <3>5. \A q \in People \ {p} : inv[q].link # k
      BY <1>0, <3>1 DEF FreshLinks
    <3>6. FreshLinks'
      <4>1. inv'[p].link = 0 /\ ~inv'[p].live
        BY <3>4 DEF NoInvitation
      <4>2. \A q \in People : inv'[q].link # 0 => inv'[q] = inv[q] /\ inv[q].link # k
        BY <3>4, <3>5, <4>1
      <4>3. \A q \in People : inv'[q].link # 0 => accepted'[inv'[q].link] = 0
        BY <1>0, <3>3, <4>2 DEF FreshLinks
      <4> QED BY <1>0, <3>4, <4>1, <4>2, <4>3 DEF FreshLinks
    <3>7. AcceptedOnce'
      BY <1>0, <3>3 DEF AcceptedOnce
    <3> QED BY <3>6, <3>7
  <2> QED BY <1>5, <2>1, <2>2 DEF Join
<1> QED BY <1>1, <1>2, <1>3, <1>4, <1>5

(* A request gets to where it lets somebody in by taking the invitation.    *)
LEMMA JoinAfterTake ==
  ASSUME TypeOK, NEW s \in Slots, RequestStep(s), ~TakeInvitation(s)
  PROVE  req'[s].pc # "join"
<1>0. req[s] \in Requests
  BY DEF TypeOK
<1>1. CASE Request(s)
  BY <1>1, RequestsBegin, BegunAt
<1>2. CASE Done(s)
  BY <1>2 DEF Done, TypeOK, NoRequest
<1>3. CASE Quiet(s) /\ ~Done(s)
  BY <1>0, <1>3 DEF Quiet, LockOrg, ReadRole, CountOwners, ScanOwned, LockOwned, CheckSoleOwner,
       FindAdmins, LockAdmins, Deliver, DeliveryFails, CallFails, Go, TypeOK, Requests
<1>4. CASE (Upsert(s) \/ Reissue(s)) /\ ~Done(s)
  BY <1>4, MailsNext
<1> QED
  BY <1>1, <1>2, <1>3, <1>4 DEF RequestStep, Writes, WriteRole, DeleteUser, Promote, Demote,
       DeleteInvitation, Join

LEMMA LinkInvKept ==
  ASSUME TypeOK, LinkInv, [Next]_vars
  PROVE  LinkInv'
<1>1. CASE UNCHANGED <<req, inv, accepted>>
  BY <1>1, FreshLinksKept DEF LinkInv, HoldsInvitation, OneJoin
<1>2. CASE UNCHANGED req /\ \E p \in People : Expire(p) \/ Prune(p)
  <2>1. PICK p \in People : Expire(p) \/ Prune(p)
    BY <1>2
  <2>2. Expired(p) \/ Deleted(p)
    BY <2>1 DEF Expire, Prune, Expired, Deleted, linkVars
  <2>3. ASSUME NEW t \in Slots PROVE HoldsInvitation(t)'
    <3>1. req[t].who \in People /\ req'[t] = req[t] /\ HoldsInvitation(t)
      BY <1>2 DEF TypeOK, Requests, LinkInv
    <3>2. Deleted(p) => (req[t].pc = "join" => req[t].who # p)
      BY DEF Deleted, InvitationFree
    <3>3. req[t].pc = "join" => inv'[req[t].who].link = inv[req[t].who].link
      <4>1. CASE Deleted(p)
        BY <3>1, <3>2, <4>1 DEF Deleted, TypeOK
      <4>2. CASE Expired(p)
        BY <3>1, <4>2 DEF Expired, TypeOK, Invitations
      <4> QED BY <2>2, <4>1, <4>2
    <3> QED BY <3>1, <3>3 DEF HoldsInvitation
  <2>4. OneJoin'
    BY <1>2 DEF LinkInv, OneJoin
  <2> QED BY <2>2, <2>3, <2>4, FreshLinksKept DEF LinkInv
<1>3. CASE \E s \in Slots : RequestStep(s)
  <2>1. PICK s \in Slots : RequestStep(s)
    BY <1>3
  <2>0. req[s] \in Requests /\ req[s].who \in People
    BY DEF TypeOK, Requests
  <2>2. FreshLinks' /\ AcceptedOnce'
    BY <2>0, <2>1, InvitationSteps, FreshLinksKept
  <2>3. TakeInvitation(s) /\ req'[s].pc = "join" =>
          /\ InvitationFree(req[s].who) /\ req'[s].who = req[s].who
          /\ inv[req[s].who].live /\ inv[req[s].who].link = req[s].link
          /\ req'[s].link = req[s].link /\ UNCHANGED inv
    BY <2>0 DEF TakeInvitation, Go, Done, TypeOK, Requests, NoRequest, rowVars
  <2>4. HoldsInvitation(s)'
    BY <2>0, <2>1, <2>3, JoinAfterTake DEF LinkInv, FreshLinks, HoldsInvitation
  <2>5. ASSUME NEW t \in Slots \ {s} PROVE HoldsInvitation(t)'
    <3>1. req'[t] = req[t] /\ HoldsInvitation(t) /\ req[t].who \in People
      BY <2>1, OthersStay DEF LinkInv, TypeOK, Requests
    <3>2. req[t].pc = "join" => inv'[req[t].who] = inv[req[t].who]
      <4>1. CASE UNCHANGED <<inv, accepted>>
        BY <4>1
      <4>2. CASE Issued(req[s].who) \/ Deleted(req[s].who)
        BY <3>1, <4>2 DEF Issued, Deleted, InvitationFree, TypeOK
      <4>3. CASE Join(s)
        <5>1. req[t].pc = "join" => req[t].who # req[s].who
          BY <4>3 DEF Join, At, LinkInv, OneJoin
        <5> QED BY <3>1, <4>3, <5>1 DEF Join, TypeOK
      <4> QED BY <2>1, <4>1, <4>2, <4>3, InvitationSteps
    <3> QED BY <3>1, <3>2 DEF HoldsInvitation
  <2>6. OneJoin'
    <3>1. \A t \in Slots \ {s} : req'[t] = req[t]
      BY <2>1, OthersStay
    <3>2. req'[s].pc = "join" =>
            \A t \in Slots : ~(req[t].pc = "join" /\ req[t].who = req'[s].who)
      BY <2>1, <2>3, JoinAfterTake DEF InvitationFree
    <3> QED BY <3>1, <3>2 DEF LinkInv, OneJoin
  <2> QED BY <2>2, <2>4, <2>5, <2>6 DEF LinkInv
<1> QED BY <1>1, <1>2, <1>3, Steps DEF vars

(* A link lets somebody in at most once, however many requests present it:  *)
(* takeInvitation holds the row until it is deleted.                        *)
THEOREM LinksOnce == Spec => []AcceptedOnce
<1>1. Init => TypeOK /\ LinkInv
  <2> SUFFICES ASSUME Init PROVE TypeOK /\ LinkInv
    OBVIOUS
  <2>1. /\ \A s \in Slots : req[s].pc # "join"
        /\ \A p \in People : inv[p].link = 0 /\ ~inv[p].live
        /\ accepted = <<>>
    BY DEF Init, NoRequest, NoInvitation
  <2> QED BY <2>1, InitTypes DEF LinkInv, FreshLinks, HoldsInvitation, OneJoin, AcceptedOnce
<1>2. (TypeOK /\ LinkInv) /\ [Next]_vars => (TypeOK /\ LinkInv)'
  BY TypesKept, LinkInvKept
<1>3. LinkInv => AcceptedOnce
  BY DEF LinkInv
<1> QED BY <1>1, <1>2, <1>3, PTL DEF Spec

-----------------------------------------------------------------------------
(* Owners are made by owners.                                               *)

(* Whoever was allowed to give ownership, when the request was admitted or  *)
(* the invitation made, was an owner.                                       *)
OwnerGiven(s) ==
  req[s].to = "owner" => req[s].acc = "owner" /\ req[s].op \in {"setRole", "invite"}

GivenInv ==
  /\ \A s \in Slots : KnownOp(s) /\ OwnerGiven(s)
  /\ \A p \in People : inv[p].role = "owner" => inv[p].by = "owner"

LEMMA GivenStays ==
  ASSUME TypeOK, NEW s \in Slots, OwnerGiven(s), RequestStep(s)
  PROVE  OwnerGiven(s)'
<1>0. req[s] \in Requests
  BY DEF TypeOK
<1>1. CASE Request(s)
  BY <1>1, RequestsBegin, BegunAt DEF OwnerGiven
<1>2. CASE Done(s)
  BY <1>2 DEF Done, TypeOK, NoRequest, OwnerGiven
<1>3. CASE Quiet(s) /\ ~Done(s)
  BY <1>0, <1>3 DEF Quiet, LockOrg, ReadRole, CountOwners, ScanOwned, LockOwned, CheckSoleOwner,
       FindAdmins, LockAdmins, Deliver, TakeInvitation, DeliveryFails, CallFails, Go, TypeOK,
       Requests,
       OwnerGiven
<1>4. CASE (Upsert(s) \/ Reissue(s)) /\ ~Done(s)
  BY <1>4, MailsNext DEF OwnerGiven
<1> QED
  BY <1>1, <1>2, <1>3, <1>4 DEF RequestStep, Writes, WriteRole, DeleteUser, Promote, Demote,
       DeleteInvitation, Join

LEMMA InvitationsKeepTheirInviter ==
  ASSUME TypeOK, NEW s \in Slots, OwnerGiven(s), RequestStep(s), NEW p \in People,
         inv[p].role = "owner" => inv[p].by = "owner"
  PROVE  inv'[p].role = "owner" => inv'[p].by = "owner"
<1>0. req[s] \in Requests /\ inv[p] \in Invitations /\ inv \in [People -> Invitations]
  BY DEF TypeOK
<1>1. CASE Upsert(s)
  <2>1. \/ UNCHANGED inv
        \/ \E i, k :
             inv' = [inv EXCEPT ![req[s].who] = [id |-> i, role |-> req[s].to, link |-> k,
                                                 live |-> TRUE, by |-> req[s].acc]]
    BY <1>1 DEF Upsert
  <2>2. req[s].to = "owner" => req[s].acc = "owner"
    BY DEF OwnerGiven
  <2>3. ASSUME NEW x, x.role = req[s].to, x.by = req[s].acc, inv' = [inv EXCEPT ![req[s].who] = x]
        PROVE  inv'[p].role = "owner" => inv'[p].by = "owner"
    <3>1. inv'[p] = x \/ inv'[p] = inv[p]
      BY <1>0, <2>3
    <3> QED BY <2>2, <2>3, <3>1
  <2>4. CASE \E i, k :
             inv' = [inv EXCEPT ![req[s].who] = [id |-> i, role |-> req[s].to, link |-> k,
                                                 live |-> TRUE, by |-> req[s].acc]]
    <3>1. PICK i, k :
             inv' = [inv EXCEPT ![req[s].who] = [id |-> i, role |-> req[s].to, link |-> k,
                                                 live |-> TRUE, by |-> req[s].acc]]
      BY <2>4
    <3> DEFINE x == [id |-> i, role |-> req[s].to, link |-> k, live |-> TRUE, by |-> req[s].acc]
    <3>2. x.role = req[s].to /\ x.by = req[s].acc /\ inv' = [inv EXCEPT ![req[s].who] = x]
      BY <3>1
    <3> HIDE DEF x
    <3> QED BY <2>3, <3>2
  <2> QED BY <2>1, <2>4
<1>2. CASE Reissue(s)
  BY <1>0, <1>2 DEF Reissue, Invitations
<1>3. CASE DeleteInvitation(s) \/ Join(s)
  BY <1>0, <1>3 DEF DeleteInvitation, Join, NoInvitation
<1>4. CASE WriteRole(s) \/ DeleteUser(s) \/ Promote(s) \/ Demote(s)
  BY <1>4 DEF WriteRole, DeleteUser, Promote, Demote, rowVars
<1>5. CASE Request(s) \/ Quiet(s)
  BY <1>5, RequestsBegin, QuietRows DEF rowVars
<1> QED BY <1>1, <1>2, <1>3, <1>4, <1>5 DEF RequestStep, Writes

LEMMA GivenInvKept ==
  ASSUME TypeOK, GivenInv, [Next]_vars
  PROVE  GivenInv'
<1>1. CASE UNCHANGED vars
  BY <1>1 DEF vars, GivenInv, KnownOp, OwnerGiven
<1>2. CASE UNCHANGED req /\ \E p \in People : Expire(p) \/ Prune(p)
  <2>1. PICK p \in People : Expire(p) \/ Prune(p)
    BY <1>2
  <2>2. \A q \in People : inv'[q].role = "owner" => inv'[q].by = "owner"
    <3>1. inv \in [People -> Invitations]
      BY DEF TypeOK
    <3>2. CASE inv' = [inv EXCEPT ![p].live = FALSE]
      <4>1. \A q \in People : inv'[q].role = inv[q].role /\ inv'[q].by = inv[q].by
        BY <3>1, <3>2 DEF Invitations
      <4> QED BY <4>1 DEF GivenInv
    <3>3. CASE inv' = [inv EXCEPT ![p] = NoInvitation]
      BY <3>1, <3>3 DEF NoInvitation, GivenInv
    <3> QED BY <2>1, <3>2, <3>3 DEF Expire, Prune
  <2> QED BY <1>2, <2>2 DEF GivenInv, KnownOp, OwnerGiven
<1>3. CASE \E s \in Slots : RequestStep(s)
  <2>1. PICK s \in Slots : RequestStep(s)
    BY <1>3
  <2>2. ASSUME NEW t \in Slots PROVE KnownOp(t)' /\ OwnerGiven(t)'
    <3>1. CASE t = s
      BY <2>1, <3>1, OpKept, GivenStays DEF GivenInv
    <3>2. CASE t # s
      <4>1. req'[t] = req[t]
        BY <2>1, <3>2, OthersStay
      <4> QED BY <4>1 DEF GivenInv, KnownOp, OwnerGiven
    <3> QED BY <3>1, <3>2
  <2>3. \A q \in People : inv'[q].role = "owner" => inv'[q].by = "owner"
    BY <2>1, InvitationsKeepTheirInviter DEF GivenInv
  <2> QED BY <2>2, <2>3 DEF GivenInv
<1> QED BY <1>1, <1>2, <1>3, Steps

OwnerByOwner ==
  \A p \in People : role[p] # "owner" /\ role'[p] = "owner" =>
    \E s \in Slots : /\ req[s].who = p
                     /\ \/ req[s].op = "setRole" /\ req[s].acc = "owner"
                        \/ req[s].pc = "join" /\ inv[p].by = "owner"

LEMMA OwnerMade ==
  ASSUME TypeOK, GivenInv, [Next]_vars
  PROVE  OwnerByOwner
<1>1. CASE UNCHANGED role
  BY <1>1 DEF OwnerByOwner
<1>2. CASE \E s \in Slots : RequestStep(s)
  <2>1. PICK s \in Slots : RequestStep(s)
    BY <1>2
  <2>2. SUFFICES ASSUME NEW p \in People, role[p] # "owner", role'[p] = "owner"
                 PROVE  /\ req[s].who = p
                        /\ \/ req[s].op = "setRole" /\ req[s].acc = "owner"
                           \/ req[s].pc = "join" /\ inv[p].by = "owner"
    BY DEF OwnerByOwner
  <2>3. CASE WriteRole(s)
    <3>1. role' = [role EXCEPT ![req[s].who] = req[s].to]
      BY <2>2, <2>3 DEF WriteRole, GivesRole
    <3>2. req[s].who = p /\ req[s].to = "owner" /\ req[s].pc = "write"
      BY <2>2, <2>3, <3>1 DEF TypeOK, WriteRole, At
    <3> QED BY <3>2 DEF GivenInv, KnownOp, OwnerGiven
  <2>4. CASE Join(s)
    <3>1. role' = [role EXCEPT ![req[s].who] = inv[req[s].who].role]
      BY <2>2, <2>4 DEF Join, GivesRole
    <3>2. req[s].who = p /\ inv[p].role = "owner" /\ req[s].pc = "join"
      BY <2>2, <2>4, <3>1 DEF TypeOK, Join, At
    <3> QED BY <3>2 DEF GivenInv
  <2>5. CASE DeleteUser(s)
    BY <2>2, <2>5 DEF DeleteUser, TypeOK, rowVars
  <2> QED BY <2>1, <2>2, <2>3, <2>4, <2>5, RoleSteps
<1> QED BY <1>1, <1>2, Steps DEF Expire, Prune, vars

(* An owner is made by an owner: by a request of one, or through an         *)
(* invitation one has made, whoever sent it again (canTouchRole).           *)
THEOREM OwnersFromOwners == Spec => OwnersMadeByOwners
<1>1. Init => TypeOK /\ GivenInv
  BY InitTypes DEF Init, GivenInv, KnownOp, OwnerGiven, NoRequest, NoInvitation
<1>2. (TypeOK /\ GivenInv) /\ [Next]_vars => (TypeOK /\ GivenInv)'
  BY TypesKept, GivenInvKept
<1>3. TypeOK /\ GivenInv /\ [Next]_vars => [OwnerByOwner]_vars
  BY OwnerMade
<1>4. Spec => [][OwnerByOwner]_vars
  BY <1>1, <1>2, <1>3, PTL DEF Spec
<1> QED BY <1>4 DEF OwnersMadeByOwners, OwnerByOwner

-----------------------------------------------------------------------------
(* The bot: type correctness.                                               *)

(* A request on links and guilds that moves on to x, which fits.            *)
LEMMA FlowMoves ==
  ASSUME BotTypes, NEW f \in Flow, NEW x \in Flows, FlowFits(x), Moves(f, x)
  PROVE  flow' \in [Flow -> Flows] /\ \A g \in Flow : FlowFits(flow'[g])
BY DEF BotTypes, Moves

(* What the callback adds to a request.                                     *)
LEMMA PickType ==
  ASSUME NEW r \in Flows, NEW pick \in Account \cup Guild, NEW b \in BOOLEAN
  PROVE  [r EXCEPT !.at = "picked", !.pick = pick, !.admin = b] \in Flows
BY DEF Flows

(* The ends, and the steps that keep what the request is about.             *)
LEMMA FlowPlaces ==
  ASSUME BotTypes, NEW f \in Flow
  PROVE  /\ [NoFlow EXCEPT !.at = "over"] \in Flows /\ FlowFits([NoFlow EXCEPT !.at = "over"])
         /\ [NoFlow EXCEPT !.at = "unname"] \in Flows /\ FlowFits([NoFlow EXCEPT !.at = "unname"])
         /\ [flow[f] EXCEPT !.at = "able"] \in Flows
<1>1. flow[f] \in Flows
  BY DEF BotTypes
<1> QED BY <1>1 DEF NoFlow, Flows, FlowFits

(* What a callback that stores the platform's settings goes on to.          *)
LEMMA SettingMoves ==
  ASSUME BotTypes, NEW f \in Flow, flow[f].pick \in Guild
  PROVE  /\ \A place \in {"guild", "naming", "register"} :
              [flow[f] EXCEPT !.at = place] \in Flows /\ FlowFits([flow[f] EXCEPT !.at = place])
         /\ \A b \in BOOLEAN : /\ [flow[f] EXCEPT !.at = "name", !.refused = b] \in Flows
                             /\ FlowFits([flow[f] EXCEPT !.at = "name", !.refused = b])
<1>1. flow[f] \in Flows
  BY DEF BotTypes
<1> QED BY <1>1 DEF Flows, FlowFits

LEMMA CommandMoves ==
  ASSUME BotTypes, NEW c \in Command, NEW x \in Commands, CommandFits(x),
         command' = [command EXCEPT ![c] = x]
  PROVE  command' \in [Command -> Commands] /\ \A d \in Command : CommandFits(command'[d])
BY DEF BotTypes

LEMMA CommandEnds ==
  [NoCommand EXCEPT !.at = "over"] \in Commands /\ CommandFits([NoCommand EXCEPT !.at = "over"])
BY DEF NoCommand, Stopped, Commands, Servers, CommandFits

(* At the start every variable has its type.                                *)
LEMMA BotTypesInit == BotInit => BotTypes
<1> SUFFICES ASSUME BotInit PROVE BotTypes
  OBVIOUS
<1>1. NoFlow \in Flows /\ FlowFits(NoFlow) /\ NoCommand \in Commands /\ CommandFits(NoCommand)
  BY DEF NoFlow, Flows, FlowFits, NoCommand, Stopped, Commands, Servers, CommandFits
<1>2. flow \in [Flow -> Flows] /\ \A f \in Flow : FlowFits(flow[f])
  BY <1>1 DEF BotInit
<1>3. command \in [Command -> Commands] /\ \A c \in Command : CommandFits(command[c])
  BY <1>1 DEF BotInit
<1>4. server \in [Org -> Servers]
  BY DEF BotInit, Stopped, Servers
<1>5. platform \in [guild : Guild \cup {None}, name : Guild \cup {None}]
  BY DEF BotInit
<1>6. registered \subseteq Guild /\ unregistered \subseteq Guild /\ clashed \subseteq Guild
  BY <1>5 DEF BotInit
<1> QED BY <1>2, <1>3, <1>4, <1>5, <1>6 DEF BotInit, BotTypes

(* Every step keeps the types.                                              *)
LEMMA BotTypesKept ==
  ASSUME BotTypes, [BotNext]_botVars
  PROVE  BotTypes'
<1> USE DEF LinksKept, PlatformKept, RegistryKept, RightsKept, NotOnServers, NotOnFlows
<1>0. /\ requests + 1 \in Nat /\ faults + 1 \in Nat
      /\ \A f \in Flow : flow[f] \in Flows /\ FlowFits(flow[f])
      /\ \A c \in Command : command[c] \in Commands /\ CommandFits(command[c])
  BY DEF BotTypes
(* A step of one request on links and guilds that leaves servers, commands  *)
(* and rights alone.                                                        *)
<1>a. ASSUME NEW f \in Flow, NEW x \in Flows, FlowFits(x), Moves(f, x), RightsKept, NotOnServers,
             link' \in [User -> Account \cup {None}], guildOf' \in [Org -> Guild \cup {None}],
             platform' \in [guild : Guild \cup {None}, name : Guild \cup {None}],
             registered' \subseteq Guild, unregistered' \subseteq Guild, clashed' \subseteq Guild,
             requests' \in Nat, faults' \in Nat
      PROVE  BotTypes'
  BY <1>a, FlowMoves DEF BotTypes
<1>1. ASSUME NEW f \in Flow, NEW u \in User, NEW o \in Org,
             NEW kind \in {"link", "org", "platform"}, Authorize(f, kind, u, o)
      PROVE  BotTypes'
  <2> DEFINE x == [NoFlow EXCEPT !.at = "issued", !.kind = kind, !.user = u, !.org = o]
  <2>1. x \in Flows /\ FlowFits(x)
    BY DEF NoFlow, Flows, FlowFits
  <2>2. Moves(f, x)
    BY <1>1 DEF Authorize
  <2> HIDE DEF x
  <2> QED BY <1>0, <1>1, <1>a, <2>1, <2>2 DEF Authorize, Requested, BotTypes
<1>2. ASSUME NEW f \in Flow, NEW pick \in Account \cup Guild, Callback(f, pick)
      PROVE  BotTypes'
  <2> DEFINE x == [flow[f] EXCEPT !.at = "picked", !.pick = pick, !.admin = flow[f].user \in admins]
             y == [NoFlow EXCEPT !.at = "over"]
  <2>a. x \in Flows
    <3> DEFINE b == flow[f].user \in admins
    <3>1. b \in BOOLEAN /\ x = [flow[f] EXCEPT !.at = "picked", !.pick = pick, !.admin = b]
      OBVIOUS
    <3> HIDE DEF b
    <3> QED BY <1>0, <3>1, PickType
  <2>b. FlowFits(x)
    BY <1>0, <1>2 DEF Callback, Flows, FlowFits
  <2>1. x \in Flows /\ FlowFits(x) /\ y \in Flows /\ FlowFits(y)
    BY <2>a, <2>b, FlowPlaces
  <2>2. Moves(f, x) \/ Moves(f, y)
    BY <1>2 DEF Callback, Over
  <2> HIDE DEF x, y
  <2> QED BY <1>2, <1>a, <2>1, <2>2 DEF Callback, BotTypes
<1>3. ASSUME NEW f \in Flow, SetDiscordLink(f)
      PROVE  BotTypes'
  <2>1. flow[f].user \in User /\ flow[f].pick \in Account
    BY <1>0, <1>3 DEF SetDiscordLink, FlowFits
  <2>2. link' \in [User -> Account \cup {None}]
    BY <1>3, <2>1 DEF SetDiscordLink, BotTypes
  <2> QED BY <1>3, <1>a, <2>2, FlowPlaces DEF SetDiscordLink, Over, BotTypes
<1>4. ASSUME NEW f \in Flow, CheckOrg(f)
      PROVE  BotTypes'
  <2> DEFINE x == [flow[f] EXCEPT !.at = "able"]
             y == [NoFlow EXCEPT !.at = "over"]
  <2>a. x \in Flows /\ y \in Flows /\ FlowFits(y)
    BY FlowPlaces
  <2>b. FlowFits(x)
    BY <1>0, <1>4 DEF CheckOrg, Flows, FlowFits
  <2>1. x \in Flows /\ FlowFits(x) /\ y \in Flows /\ FlowFits(y)
    BY <2>a, <2>b
  <2>2. Moves(f, x) \/ Moves(f, y)
    BY <1>4 DEF CheckOrg, Over, Step
  <2> HIDE DEF x, y
  <2> QED BY <1>4, <1>a, <2>1, <2>2 DEF CheckOrg, BotTypes
<1>5. ASSUME NEW f \in Flow, SetOrgGuild(f)
      PROVE  BotTypes'
  <2>1. flow[f].org \in Org /\ flow[f].pick \in Guild
    BY <1>0, <1>5 DEF SetOrgGuild, FlowFits
  <2>2. guildOf' \in [Org -> Guild \cup {None}]
    BY <1>5, <2>1 DEF SetOrgGuild, BotTypes
  <2> QED BY <1>5, <1>a, <2>2, FlowPlaces DEF SetOrgGuild, Over, BotTypes
<1>6. ASSUME NEW f \in Flow, SetPlatformGuild(f) \/ InsertGuild(f)
      PROVE  BotTypes'
  <2>1. flow[f].pick \in Guild
    BY <1>0, <1>6 DEF SetPlatformGuild, InsertGuild, FlowFits
  <2>2. PICK x \in Flows : FlowFits(x) /\ Moves(f, x)
    BY <1>0, <1>6, <2>1, SettingMoves, FlowPlaces
       DEF SetPlatformGuild, InsertGuild, Over, Step, NameNext
  <2>3. platform' \in [guild : Guild \cup {None}, name : Guild \cup {None}]
    BY <1>6, <2>1 DEF SetPlatformGuild, InsertGuild, Stores, BotTypes
  <2> QED BY <1>6, <1>a, <2>2, <2>3 DEF SetPlatformGuild, InsertGuild, BotTypes
<1>7. ASSUME NEW f \in Flow, SetPlatformName(f) \/ InsertName(f)
      PROVE  BotTypes'
  <2>1. flow[f].pick \in Guild
    BY <1>0, <1>7 DEF SetPlatformName, InsertName, FlowFits
  <2>2. PICK x \in Flows : FlowFits(x) /\ Moves(f, x)
    BY <1>0, <1>7, <2>1, SettingMoves, FlowPlaces
       DEF SetPlatformName, InsertName, Answers, Over, Step
  <2>3. platform' \in [guild : Guild \cup {None}, name : Guild \cup {None}]
    BY <1>7, <2>1 DEF SetPlatformName, InsertName, Stores, BotTypes
  <2>4. clashed' \subseteq Guild
    BY <1>7, <2>1 DEF SetPlatformName, InsertName, Awaiting, BotTypes
  <2> QED BY <1>7, <1>a, <2>2, <2>3, <2>4 DEF SetPlatformName, InsertName, BotTypes
<1>20. ASSUME NEW f \in Flow, SettingFails(f)
       PROVE  BotTypes'
  <2>1. flow[f].pick \in Guild
    BY <1>0, <1>20 DEF SettingFails, FlowFits
  <2>2. PICK x \in Flows : FlowFits(x) /\ Moves(f, x)
    BY <1>0, <1>20, <2>1, SettingMoves, FlowPlaces DEF SettingFails, Over, NameNext
  <2>3. unregistered' \subseteq Guild /\ faults' \in Nat
    BY <1>0, <1>20, <2>1 DEF SettingFails, Awaiting, Fault, BotTypes
  <2> QED BY <1>20, <1>a, <2>2, <2>3 DEF SettingFails, BotTypes
<1>8. ASSUME NEW f \in Flow, RegisterPlatformCommands(f)
      PROVE  BotTypes'
  <2>1. flow[f].pick \in Guild
    BY <1>0, <1>8 DEF RegisterPlatformCommands, FlowFits
  <2>2. registered' \subseteq Guild /\ unregistered' \subseteq Guild /\ faults' \in Nat
    BY <1>0, <1>8, <2>1 DEF RegisterPlatformCommands, Fault, BotTypes
  <2> QED BY <1>8, <1>a, <2>2, FlowPlaces DEF RegisterPlatformCommands, Over, BotTypes
<1>9. ASSUME NEW f \in Flow, CutOff(f)
      PROVE  BotTypes'
  <2>1. unregistered' \subseteq Guild /\ faults' \in Nat
    BY <1>0, <1>9 DEF CutOff, Awaiting, Pending, Fault, FlowFits, BotTypes
  <2> QED BY <1>9, <1>a, <2>1, FlowPlaces DEF CutOff, Over, BotTypes
<1>10. ASSUME NEW f \in Flow, DeletePlatformGuild(f)
       PROVE  BotTypes'
  <2>1. platform' \in [guild : Guild \cup {None}, name : Guild \cup {None}]
    BY <1>10 DEF DeletePlatformGuild, BotTypes
  <2> QED BY <1>0, <1>10, <1>a, <2>1, FlowPlaces DEF DeletePlatformGuild, Requested, BotTypes
<1>11. ASSUME NEW f \in Flow, DeletePlatformName(f)
       PROVE  BotTypes'
  <2>1. platform' \in [guild : Guild \cup {None}, name : Guild \cup {None}]
    BY <1>11 DEF DeletePlatformName, BotTypes
  <2> QED BY <1>11, <1>a, <2>1, FlowPlaces DEF DeletePlatformName, Over, BotTypes
<1>12. CASE RegisterDiscordCommands
  <2>1. platform.guild \in Guild
    BY <1>12 DEF RegisterDiscordCommands, BotTypes
  <2> QED BY <1>0, <1>12, <2>1 DEF RegisterDiscordCommands, Requested, BotTypes
<1>13. ASSUME NEW u \in User, ClearDiscordLink(u)
       PROVE  BotTypes'
  BY <1>0, <1>13 DEF ClearDiscordLink, Requested, BotTypes
<1>14. ASSUME NEW u \in User, SetRights(u)
       PROVE  BotTypes'
  <2>1. managers' \in [Org -> SUBSET User] /\ admins' \subseteq User
    BY <1>14 DEF SetRights, BotTypes
  <2> QED BY <1>0, <1>14, <2>1 DEF SetRights, Requested, BotTypes
<1>15. ASSUME NEW o \in Org, ClearOrgGuild(o)
       PROVE  BotTypes'
  BY <1>0, <1>15 DEF ClearOrgGuild, Requested, BotTypes
<1>16. ASSUME NEW c \in Command, NEW a \in Account, NEW g \in Guild, NEW o \in Org,
              NEW do \in OrgCommands \cup PlatformCommands, Interact(c, a, g, do, o)
       PROVE  BotTypes'
  <2>1. PICK u \in User : command' = [command EXCEPT ![c] =
            [NoCommand EXCEPT !.at = "asked", !.do = do, !.user = u, !.org = o,
                              !.admin = u \in admins]]
    BY <1>16 DEF Interact
  <2> DEFINE b == u \in admins
             x == [NoCommand EXCEPT !.at = "asked", !.do = do, !.user = u, !.org = o, !.admin = b]
  <2>2. b \in BOOLEAN /\ command' = [command EXCEPT ![c] = x]
    BY <2>1
  <2> HIDE DEF b
  <2>3. x \in Commands /\ CommandFits(x)
    BY <2>2 DEF NoCommand, Stopped, Commands, Servers, CommandFits
  <2> HIDE DEF x
  <2> QED BY <1>0, <1>16, <2>2, <2>3, CommandMoves DEF Interact, Requested, BotTypes
<1>21. ASSUME NEW c \in Command, GetServer(c)
       PROVE  BotTypes'
  <2> DEFINE x == [command[c] EXCEPT !.at = "read", !.copy = server[command[c].org]]
  <2>1. command[c].org \in Org /\ server[command[c].org] \in Servers
    BY <1>0, <1>21 DEF GetServer, CommandFits, BotTypes
  <2>2. x \in Commands /\ CommandFits(x) /\ command' = [command EXCEPT ![c] = x]
    BY <1>0, <1>21, <2>1 DEF GetServer, Commands, CommandFits
  <2> HIDE DEF x
  <2> QED BY <1>21, <2>2, CommandMoves DEF GetServer, BotTypes
<1>17. ASSUME NEW c \in Command, Admit(c)
       PROVE  BotTypes'
  <2> DEFINE x == [command[c] EXCEPT !.at = "admitted"]
             y == [NoCommand EXCEPT !.at = "over"]
  <2>1. x \in Commands /\ CommandFits(x) /\ y \in Commands /\ CommandFits(y)
    BY <1>0, <1>17, CommandEnds DEF Admit, Commands, CommandFits
  <2>2. command' = [command EXCEPT ![c] = x] \/ command' = [command EXCEPT ![c] = y]
    BY <1>17 DEF Admit, Ends
  <2> HIDE DEF x, y
  <2> QED BY <1>17, <2>1, <2>2, CommandMoves DEF Admit, BotTypes
<1>18. ASSUME NEW c \in Command, SetState(c) \/ Suspend(c) \/ Unsuspend(c)
       PROVE  BotTypes'
  <2>1. command[c].org \in Org
    BY <1>0, <1>18 DEF SetState, Suspend, Unsuspend, CommandFits
  <2>2. (\E s \in Servers : Save(c, s)) \/ NotSaved(c) \/ TryAgain(c)
    BY <1>0, <1>18 DEF SetState, Suspend, Unsuspend, Commands, Servers
  <2>3. server' \in [Org -> Servers] /\ held' \subseteq Org
    BY <1>18, <2>1, <2>2 DEF SetState, Suspend, Unsuspend, Save, NotSaved, TryAgain, BotTypes
  <2> DEFINE x == [NoCommand EXCEPT !.at = "over"]
             y == [command[c] EXCEPT !.at = "admitted", !.copy = Stopped]
  <2>4. x \in Commands /\ CommandFits(x) /\ y \in Commands /\ CommandFits(y)
    BY <1>0, <1>18, CommandEnds
       DEF SetState, Suspend, Unsuspend, Stopped, Commands, Servers, CommandFits
  <2>5. command' = [command EXCEPT ![c] = x] \/ command' = [command EXCEPT ![c] = y]
    BY <2>2 DEF Save, NotSaved, TryAgain, Ends
  <2> HIDE DEF x, y
  <2> QED BY <1>18, <2>3, <2>4, <2>5, CommandMoves DEF SetState, Suspend, Unsuspend, BotTypes
<1>19. CASE UNCHANGED botVars
  BY <1>19 DEF botVars, BotTypes
<1> QED BY <1>1, <1>2, <1>3, <1>4, <1>5, <1>6, <1>7, <1>8, <1>9, <1>10, <1>11, <1>12, <1>13, <1>14,
           <1>15, <1>16, <1>17, <1>18, <1>19, <1>20,
           <1>21 DEF BotNext

(* Every variable keeps its type, for any users, guilds and organisations,  *)
(* and any number of requests and commands at a time.                       *)
THEOREM BotTypeCorrect == BotSpec => []BotTypes
BY BotTypesInit, BotTypesKept, PTL DEF BotSpec

-----------------------------------------------------------------------------
(* Accounts, guilds and suspensions.                                        *)

(* One entry of a function that is given a value no other has, or None,     *)
(* keeps the entries apart.                                                 *)
LEMMA StaysApart ==
  ASSUME NEW S, NEW f, NEW k, NEW v, f \in [S -> {f[x] : x \in S}], Apart(f), k \in S,
         v = None \/ \A x \in S \ {k} : f[x] # v
  PROVE  Apart([f EXCEPT ![k] = v])
BY DEF Apart

(* A Discord account speaks for one user and a guild for one organisation,  *)
(* however callbacks, disconnections and restarts of Panels overlap: the    *)
(* tables refuse the second (SetDiscordLink, SetOrgGuild).                  *)
THEOREM OneForEach == BotSpec => []OneEach
<1>1. BotInit => OneEach
  BY DEF BotInit, OneEach
<1>2. BotTypes /\ OneEach /\ [BotNext]_botVars => OneEach'
  <2> SUFFICES ASSUME BotTypes, OneEach, [BotNext]_botVars PROVE OneEach'
    OBVIOUS
  <2>0. /\ link \in [User -> {link[x] : x \in User}] /\ DOMAIN link = User
        /\ guildOf \in [Org -> {guildOf[x] : x \in Org}] /\ DOMAIN guildOf = Org
        /\ Apart(link) /\ Apart(guildOf)
    BY DEF BotTypes, OneEach
  <2>1. ASSUME NEW f \in Flow, SetDiscordLink(f)
        PROVE  OneEach'
    <3>1. flow[f].user \in User
      BY <2>1 DEF SetDiscordLink, BotTypes, FlowFits
    <3>2. Apart(link')
      <4>1. CASE \E u \in User \ {flow[f].user} : link[u] = flow[f].pick
        BY <2>0, <2>1, <4>1 DEF SetDiscordLink
      <4>2. CASE \A u \in User \ {flow[f].user} : link[u] # flow[f].pick
        BY <2>0, <2>1, <3>1, <4>2, StaysApart DEF SetDiscordLink
      <4> QED BY <4>1, <4>2
    <3> QED BY <2>0, <2>1, <3>2 DEF SetDiscordLink, OneEach
  <2>2. ASSUME NEW f \in Flow, SetOrgGuild(f)
        PROVE  OneEach'
    <3>1. flow[f].org \in Org
      BY <2>2 DEF SetOrgGuild, BotTypes, FlowFits
    <3>2. Apart(guildOf')
      <4>1. CASE \E o \in Org \ {flow[f].org} : guildOf[o] = flow[f].pick
        BY <2>0, <2>2, <4>1 DEF SetOrgGuild
      <4>2. CASE \A o \in Org \ {flow[f].org} : guildOf[o] # flow[f].pick
        BY <2>0, <2>2, <3>1, <4>2, StaysApart DEF SetOrgGuild
      <4> QED BY <4>1, <4>2
    <3> QED BY <2>0, <2>2, <3>2 DEF SetOrgGuild, OneEach
  <2>3. ASSUME NEW u \in User, ClearDiscordLink(u)
        PROVE  OneEach'
    BY <2>0, <2>3, StaysApart DEF ClearDiscordLink, OneEach
  <2>4. ASSUME NEW o \in Org, ClearOrgGuild(o)
        PROVE  OneEach'
    BY <2>0, <2>4, StaysApart DEF ClearOrgGuild, OneEach
  <2>5. CASE UNCHANGED <<link, guildOf>>
    BY <2>0, <2>5 DEF OneEach
  <2> QED BY <2>1, <2>2, <2>3, <2>4, <2>5
          DEF BotNext, Authorize, Callback, CheckOrg, SetPlatformGuild, InsertGuild, SetPlatformName,
              InsertName, SettingFails, RegisterPlatformCommands, CutOff, DeletePlatformGuild, DeletePlatformName,
              RegisterDiscordCommands, SetRights, Interact, Admit, GetServer, SetState, Suspend, Unsuspend,
              LinksKept, botVars
<1> QED BY <1>1, <1>2, BotTypeCorrect, PTL DEF BotSpec

(* A suspended server is not asked to run and stays suspended until it is   *)
(* let go, however many commands and requests overlap and whatever they had *)
(* checked or read before (the webhook's rule on suspension, the version of *)
(* an update, handleSuspendGameServer, unlessSuspended).                    *)
THEOREM StaysSuspended == BotSpec => []SuspendedStays
<1>1. BotInit => SuspendedStays
  BY DEF BotInit, SuspendedStays
<1>2. BotTypes /\ SuspendedStays /\ [BotNext]_botVars => SuspendedStays'
  <2> SUFFICES ASSUME BotTypes, SuspendedStays, [BotNext]_botVars PROVE SuspendedStays'
    OBVIOUS
  <2>1. ASSUME NEW c \in Command, SetState(c) \/ Suspend(c) \/ Unsuspend(c)
        PROVE  SuspendedStays'
    <3> DEFINE k == command[c]
    <3>1. CASE NotSaved(c) \/ TryAgain(c)
      BY <3>1 DEF NotSaved, TryAgain, SuspendedStays
    <3>2. CASE \E s : /\ Save(c, s)
                      /\ \/ s = [k.copy EXCEPT !.running = k.do = "start"] /\ UNCHANGED held
                         \/ /\ s = [k.copy EXCEPT !.suspended = TRUE, !.running = FALSE]
                            /\ held' = held \cup {k.org}
                         \/ s = [k.copy EXCEPT !.suspended = FALSE] /\ held' = held \ {k.org}
      <4>1. PICK s : /\ Save(c, s)
                     /\ \/ s = [k.copy EXCEPT !.running = k.do = "start"] /\ UNCHANGED held
                        \/ /\ s = [k.copy EXCEPT !.suspended = TRUE, !.running = FALSE]
                           /\ held' = held \cup {k.org}
                        \/ s = [k.copy EXCEPT !.suspended = FALSE] /\ held' = held \ {k.org}
        BY <3>2
      <4>2. k.org \in Org /\ k.copy = server[k.org] /\ k.copy \in Servers
        BY <2>1, <4>1 DEF SetState, Suspend, Unsuspend, Save, Current, CommandFits, BotTypes
      <4>3. /\ ~(s.suspended /\ s.running) /\ server' = [server EXCEPT ![k.org] = s]
            /\ k.org \in held' => s.suspended
            /\ \A o \in Org \ {k.org} : o \in held' => o \in held
        BY <4>1, <4>2 DEF Save, Accepted, Servers, SuspendedStays
      <4> HIDE DEF k
      <4> QED BY <4>2, <4>3 DEF SuspendedStays, BotTypes
    <3> QED BY <2>1, <3>1, <3>2 DEF SetState, Suspend, Unsuspend
  <2>2. CASE UNCHANGED <<server, held>>
    BY <2>2 DEF SuspendedStays
  <2> QED BY <2>1, <2>2
          DEF BotNext, Authorize, Callback, SetDiscordLink, CheckOrg, SetOrgGuild, SetPlatformGuild,
              InsertGuild, SetPlatformName, InsertName, SettingFails, RegisterPlatformCommands, CutOff, DeletePlatformGuild,
              DeletePlatformName, RegisterDiscordCommands, ClearDiscordLink, SetRights,
              ClearOrgGuild, Interact, Admit, GetServer, NotOnServers, botVars
<1> QED BY <1>1, <1>2, BotTypeCorrect, PTL DEF BotSpec

(* A step of one request that leaves the platform's guild, when it does not *)
(* forget commands it was about to register before they are there.          *)
Excused == registered \cup unregistered \cup clashed

LEMMA ThereKept ==
  ASSUME BotTypes, CommandsThere, NEW f \in Flow, NEW x, Moves(f, x),
         Pending(flow[f]) => \/ Pending(x) /\ x.pick = flow[f].pick
                             \/ flow[f].pick \in Excused',
         platform'.guild = platform.guild, Excused \subseteq Excused'
  PROVE  CommandsThere'
<1> SUFFICES ASSUME platform.guild # None, platform.guild \notin Excused'
             PROVE  \E g \in Flow : Pending(flow'[g]) /\ flow'[g].pick = platform.guild
  BY DEF CommandsThere, Excused
<1>1. flow'[f] = x /\ \A h \in Flow \ {f} : flow'[h] = flow[h]
  BY DEF Moves, BotTypes
<1>2. PICK h \in Flow : Pending(flow[h]) /\ flow[h].pick = platform.guild
  BY DEF CommandsThere, Excused
<1>3. CASE h = f
  BY <1>1, <1>2, <1>3
<1>4. CASE h # f
  BY <1>1, <1>2, <1>4
<1> QED BY <1>3, <1>4

(* A callback that is about to register commands and ends is excused by     *)
(* what happened to it.                                                     *)
LEMMA AwaitingIn ==
  ASSUME NEW f \in Flow, Pending(flow[f])
  PROVE  flow[f].pick \in Awaiting(f)
BY DEF Awaiting

(* The platform's guild has its commands or the callback that stored it is  *)
(* about to register them, however many callbacks, disconnections and       *)
(* starts of Panels overlap (registerPlatformCommands).  Set aside: Discord *)
(* refused, a setting could not be written or the Panel stopped first, and  *)
(* the guild's name was refused because another callback had just inserted  *)
(* its own (SetSetting).                                                    *)
THEOREM CommandsComeTo == BotSpec => []CommandsThere
<1>1. BotInit => CommandsThere
  <2> SUFFICES ASSUME BotInit, platform.guild # None PROVE platform.guild \in registered
    BY DEF CommandsThere
  <2> QED BY DEF BotInit
<1>2. BotTypes /\ CommandsThere /\ [BotNext]_botVars => CommandsThere'
  <2> SUFFICES ASSUME BotTypes, CommandsThere, [BotNext]_botVars PROVE CommandsThere'
    OBVIOUS
  <2>0. flow \in [Flow -> Flows] /\ \A f \in Flow : flow[f] \in Flows
    BY DEF BotTypes
  <2>1. ASSUME NEW f \in Flow, NEW u \in User, NEW o \in Org,
               NEW kind \in {"link", "org", "platform"}, Authorize(f, kind, u, o)
        PROVE  CommandsThere'
    <3>1. ~Pending(flow[f])
      BY <2>1 DEF Authorize, NoFlow, Pending
    <3> QED BY <2>1, <3>1, ThereKept DEF Authorize, PlatformKept, RegistryKept, Excused
  <2>2. ASSUME NEW f \in Flow, NEW pick \in Account \cup Guild, Callback(f, pick)
        PROVE  CommandsThere'
    BY <2>2, ThereKept DEF Callback, Over, PlatformKept, RegistryKept, Pending, Excused
  <2>3. ASSUME NEW f \in Flow, SetDiscordLink(f) \/ SetOrgGuild(f)
        PROVE  CommandsThere'
    BY <2>3, ThereKept
       DEF SetDiscordLink, SetOrgGuild, Over, PlatformKept, RegistryKept, Pending, Excused
  <2>4. ASSUME NEW f \in Flow, CheckOrg(f)
        PROVE  CommandsThere'
    BY <2>4, ThereKept DEF CheckOrg, Step, Over, PlatformKept, RegistryKept, Pending, Excused
  (* A callback that stores the guild is about to register its commands.    *)
  <2>5. ASSUME NEW f \in Flow, SetPlatformGuild(f) \/ InsertGuild(f)
        PROVE  CommandsThere'
    <3>1. CASE Stores(f, "guild") /\ NameNext(f, FALSE)
      <4>1. /\ platform'.guild = flow[f].pick
            /\ flow'[f] = [flow[f] EXCEPT !.at = "name", !.refused = FALSE]
        BY <3>1 DEF Stores, NameNext, Moves, BotTypes
      <4>2. Pending(flow'[f]) /\ flow'[f].pick = flow[f].pick
        BY <2>0, <4>1 DEF Flows, Pending
      <4> QED BY <4>1, <4>2 DEF CommandsThere
    <3>2. CASE ~(Stores(f, "guild") /\ NameNext(f, FALSE))
      <4>1. UNCHANGED platform /\ RegistryKept /\ ~Pending(flow[f])
        BY <2>5, <3>2 DEF SetPlatformGuild, InsertGuild, Pending
      <4>2. PICK x : Moves(f, x)
        BY <2>5 DEF SetPlatformGuild, InsertGuild, Over, Step, NameNext
      <4> QED BY <4>1, <4>2, ThereKept DEF RegistryKept, Excused
    <3> QED BY <3>1, <3>2
  <2>6. ASSUME NEW f \in Flow, SetPlatformName(f) \/ InsertName(f)
        PROVE  CommandsThere'
    <3>1. /\ platform'.guild = platform.guild /\ Excused \subseteq Excused'
          /\ \/ Answers(f) \/ Step(f, "naming")
             \/ Over(f) /\ clashed' = clashed \cup Awaiting(f)
      BY <2>6 DEF SetPlatformName, InsertName, Stores, RegistryKept, Excused, BotTypes
    <3>2. CASE Answers(f) \/ Step(f, "naming")
      <4>1. flow[f].at \in {"name", "naming"}
        BY <2>6 DEF SetPlatformName, InsertName
      <4>2. PICK x : Moves(f, x) /\ (Pending(flow[f]) => Pending(x) /\ x.pick = flow[f].pick)
        BY <2>0, <3>2, <4>1 DEF Answers, Over, Step, Pending, Flows
      <4> QED BY <3>1, <4>2, ThereKept
    <3>3. CASE Over(f) /\ clashed' = clashed \cup Awaiting(f)
      BY <3>1, <3>3, AwaitingIn, ThereKept DEF Over, Excused
    <3> QED BY <3>1, <3>2, <3>3
  <2>7. ASSUME NEW f \in Flow, RegisterPlatformCommands(f) \/ CutOff(f) \/ SettingFails(f)
        PROVE  CommandsThere'
    <3>1. Pending(flow[f]) => flow[f].pick \in Excused'
      BY <2>7, AwaitingIn DEF RegisterPlatformCommands, CutOff, SettingFails, Pending, Excused
    <3>2. platform' = platform /\ Excused \subseteq Excused'
      BY <2>7 DEF RegisterPlatformCommands, CutOff, SettingFails, Excused
    <3>3. PICK x : Moves(f, x)
      BY <2>7 DEF RegisterPlatformCommands, CutOff, SettingFails, Over, NameNext
    <3> QED BY <3>1, <3>2, <3>3, ThereKept
  <2>8. ASSUME NEW f \in Flow, DeletePlatformName(f)
        PROVE  CommandsThere'
    BY <2>8, ThereKept DEF DeletePlatformName, Over, RegistryKept, Pending, Excused, BotTypes
  <2>9. ASSUME NEW f \in Flow, DeletePlatformGuild(f)
        PROVE  CommandsThere'
    BY <2>9 DEF DeletePlatformGuild, CommandsThere, BotTypes
  <2>10. CASE UNCHANGED <<flow, platform, unregistered, clashed>> /\ registered \subseteq registered'
    BY <2>10 DEF CommandsThere
  <2> QED BY <2>1, <2>2, <2>3, <2>4, <2>5, <2>6, <2>7, <2>8, <2>9, <2>10
          DEF BotNext, RegisterDiscordCommands, ClearDiscordLink, SetRights, ClearOrgGuild, Interact,
              Admit, GetServer, SetState, Suspend, Unsuspend, PlatformKept, RegistryKept, NotOnFlows, botVars
<1> QED BY <1>1, <1>2, BotTypeCorrect, PTL DEF BotSpec

=============================================================================
