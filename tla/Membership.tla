----------------------------- MODULE Membership -----------------------------
(***************************************************************************)
(* Who belongs to an organisation, and who administers the platform        *)
(* (internal/panelapi/{members,invitations,users}.go and                   *)
(* internal/paneldb/{orgs,invitations,users}.go): roles, invitations, the  *)
(* deletion of accounts and the administrators' flag.                      *)
(*                                                                         *)
(* Requests are handled concurrently.  One step is one SQL statement; the  *)
(* statement that ends a transaction is one with its commit, as what a     *)
(* transaction has written is not seen before.  Isolation is READ          *)
(* COMMITTED: every statement sees what has been committed by then, and    *)
(* waits for rows that others have locked, also where a row it inserts     *)
(* refers to them.  A row is locked from the statement that locks it until *)
(* its request leaves the transaction.                                     *)
(*                                                                         *)
(* There is one organisation, and a person is an e-mail address, not used  *)
(* again once its account was deleted.  Two-factor requirements, profiles  *)
(* and sessions are left out.                                              *)
(***************************************************************************)
EXTENDS Integers, Sequences

CONSTANTS
  People,
  Bootstrap,     \* the account named "admin", which cannot be deleted
  Slots,         \* requests handled at a time
  MaxEvents      \* bound: requests, failures, invitations that expire or are pruned

ASSUME PeopleAssumption == Bootstrap \in People
ASSUME BoundAssumption == MaxEvents \in Nat

VARIABLES
  account,       \* people with an account
  gone,          \* those whose account was deleted
  admin,         \* administrators of the platform
  role,          \* memberships of the organisation
  inv,           \* the invitation of each address
  accepted,      \* the links issued, and how often each was accepted
  sent,          \* the links that reached somebody
  req,           \* the requests being handled
  events,        \* what MaxEvents bounds
  late,          \* history: somebody became an owner after the deletion of the account had locked
  bare           \* history: the only administrator's account was deleted, or they were
                 \* demoted where nobody was left to lock

rowVars == <<account, gone, admin, role, inv>>
linkVars == <<accepted, sent>>
historyVars == <<late, bare>>
vars == <<account, gone, admin, role, inv, accepted, sent, req, events, late, bare>>

Roles == {"owner", "admin", "member"}
Links == 0..Len(accepted)

Invitations ==
  [id : Links, role : Roles \cup {"none"}, link : Links, live : BOOLEAN,
   by : Roles \cup {"none"}]
NoInvitation == [id |-> 0, role |-> "none", link |-> 0, live |-> FALSE, by |-> "none"]

Ops == {"none", "setRole", "remove", "deleteUser", "promote", "demote", "invite", "resend",
        "revoke", "accept", "acceptNew"}
PCs == {"idle", "lock", "read", "count", "write", "scan", "check", "delete", "set",
        "admins", "wait", "clear", "upsert", "reissue", "mail", "undo", "take", "join"}

(* A request: the person it is about, the role it gives, whether it found   *)
(* them an owner, the invitation and link, the rows it has locked; and,     *)
(* where they matter later, the caller and the caller's effective role.     *)
Requests ==
  [op : Ops, pc : PCs, by : People, who : People, to : Roles \cup {"none"},
   acc : Roles \cup {"none"}, owns : BOOLEAN, id : Links, link : Links, rows : SUBSET People]
NoRequest ==
  [op |-> "none", pc |-> "idle", by |-> Bootstrap, who |-> Bootstrap, to |-> "none",
   acc |-> "none", owns |-> FALSE, id |-> 0, link |-> 0, rows |-> {}]

(* CreateOrg with an owner who has an account.                              *)
Init ==
  /\ account \in {A \in SUBSET People : Bootstrap \in A} /\ gone = {}
  /\ admin = {Bootstrap}
  /\ \E o \in account : role = [p \in People |-> IF p = o THEN "owner" ELSE "none"]
  /\ inv = [p \in People |-> NoInvitation]
  /\ accepted = <<>> /\ sent = {}
  /\ req = [s \in Slots |-> NoRequest]
  /\ events = 0
  /\ late = FALSE /\ bare = FALSE

-----------------------------------------------------------------------------
(* Roles and locks.                                                         *)

EffectiveRole(c) == IF c \in admin THEN "owner" ELSE role[c]

(* Mutant: administrators of the organisation touch any role.               *)
TouchAny(caller, r) == caller \in {"owner", "admin"}

canTouchRole(caller, r) == r # "owner" \/ caller = "owner"

Owners == {p \in People : role[p] = "owner"}

(* requireAnotherOwner: there are at least two.                             *)
AnotherOwner == \E p, q \in Owners : p # q

LocksOrg(s) ==
  \/ req[s].op \in {"setRole", "remove"} /\ req[s].pc \in {"read", "count", "write"}
  \/ req[s].op = "deleteUser" /\ req[s].owns /\ req[s].pc \in {"check", "delete"}

OrgFree(s) == \A t \in Slots \ {s} : ~LocksOrg(t)

AdminsHeld(s) == UNION {req[t].rows : t \in {u \in Slots \ {s} : req[u].pc = "clear"}}

InvitationFree(p) == \A t \in Slots : ~(req[t].pc = "join" /\ req[t].who = p)

At(s, pc) == req[s].pc = pc
Go(s, pc) == req' = [req EXCEPT ![s].pc = pc]

(* The request is over; an open transaction is rolled back or committed.    *)
Done(s) == req' = [req EXCEPT ![s] = NoRequest]

(* DeleteUser did not find p an owner and goes on without the lock.         *)
UnlockedDeletion(p) ==
  \E s \in Slots : /\ req[s].op = "deleteUser" /\ req[s].who = p /\ ~req[s].owns
                   /\ req[s].pc \in {"check", "delete"}

GivesRole(p, r) ==
  /\ role' = [role EXCEPT ![p] = r]
  /\ late' = (late \/ (r = "owner" /\ role[p] # "owner" /\ UnlockedDeletion(p)))

Begin(s, r) ==
  /\ At(s, "idle") /\ events < MaxEvents
  /\ events' = events + 1
  /\ req' = [req EXCEPT ![s] = r]
  /\ UNCHANGED <<rowVars, linkVars, historyVars>>

-----------------------------------------------------------------------------
(* handleSetMemberRole and handleRemoveMember: the role is read before the  *)
(* transaction, and not checked again in it.  Any member may leave.         *)

RequestSetRole(s, c, p, r) ==
  LET acc == EffectiveRole(c)
  IN  /\ c \in account /\ acc \in {"owner", "admin"}
      /\ role[p] # "none" /\ canTouchRole(acc, role[p]) /\ canTouchRole(acc, r)
      /\ Begin(s, [NoRequest EXCEPT !.op = "setRole", !.pc = "lock", !.who = p, !.to = r,
                                    !.acc = acc])

RequestRemove(s, c, p) ==
  LET acc == EffectiveRole(c)
  IN  /\ c \in account
      /\ role[p] # "none"
      /\ p = c \/ (acc \in {"owner", "admin"} /\ canTouchRole(acc, role[p]))
      /\ Begin(s, [NoRequest EXCEPT !.op = "remove", !.pc = "lock", !.who = p])

(* Mutant: changeMembership does not lock the organisation.                 *)
LockNothing(s) ==
  /\ At(s, "lock") /\ req[s].op # "deleteUser"
  /\ Go(s, "read")
  /\ UNCHANGED <<rowVars, linkVars, events, historyVars>>

(* changeMembership.                                                        *)
LockOrg(s) ==
  /\ At(s, "lock") /\ req[s].op # "deleteUser"
  /\ OrgFree(s)
  /\ Go(s, "read")
  /\ UNCHANGED <<rowVars, linkVars, events, historyVars>>

ReadRole(s) ==
  LET current == role[req[s].who]
  IN  /\ At(s, "read")
      /\ \/ current = "none" /\ Done(s)
         \/ current # "none" /\ Go(s, IF current = "owner" /\ req[s].to # "owner" THEN "count"
                                      ELSE "write")
      /\ UNCHANGED <<rowVars, linkVars, events, historyVars>>

CountOwners(s) ==
  /\ At(s, "count")
  /\ IF AnotherOwner THEN Go(s, "write") ELSE Done(s)
  /\ UNCHANGED <<rowVars, linkVars, events, historyVars>>

(* The row may have gone with the account.                                  *)
WriteRole(s) ==
  /\ At(s, "write") /\ Done(s)
  /\ IF role[req[s].who] = "none" THEN UNCHANGED <<role, late>>
     ELSE GivesRole(req[s].who, req[s].to)
  /\ UNCHANGED <<account, gone, admin, inv, linkVars, events, bare>>

-----------------------------------------------------------------------------
(* handleDeleteUser and DeleteUser.                                         *)

RequestDeleteUser(s, c, p) ==
  /\ c \in admin /\ p \in account \ {Bootstrap}
  /\ Begin(s, [NoRequest EXCEPT !.op = "deleteUser", !.pc = "scan", !.who = p])

(* The statement looks for organisations the user owns, and waits for their *)
(* locks.                                                                   *)
ScanOwned(s) ==
  LET owns == role[req[s].who] = "owner"
  IN  /\ At(s, "scan")
      /\ req' = [req EXCEPT ![s].owns = owns, ![s].pc = IF owns THEN "lock" ELSE "check"]
      /\ UNCHANGED <<rowVars, linkVars, events, historyVars>>

LockOwned(s) ==
  /\ At(s, "lock") /\ req[s].op = "deleteUser"
  /\ OrgFree(s)
  /\ Go(s, "check")
  /\ UNCHANGED <<rowVars, linkVars, events, historyVars>>

CheckSoleOwner(s) ==
  /\ At(s, "check")
  /\ IF Owners = {req[s].who} THEN Done(s) ELSE Go(s, "delete")
  /\ UNCHANGED <<rowVars, linkVars, events, historyVars>>

(* The membership goes with the account.                                    *)
DeleteUser(s) ==
  LET p == req[s].who
  IN  /\ At(s, "delete") /\ p \notin AdminsHeld(s)
      /\ Done(s)
      /\ IF p \notin account THEN UNCHANGED <<rowVars, bare>>
         ELSE /\ account' = account \ {p} /\ gone' = gone \cup {p}
              /\ admin' = admin \ {p} /\ bare' = (bare \/ admin = {p})
              /\ role' = [role EXCEPT ![p] = "none"]
              /\ UNCHANGED inv
      /\ UNCHANGED <<linkVars, events, late>>

-----------------------------------------------------------------------------
(* handleSetUserAdmin and SetAdmin.                                         *)

RequestPromote(s, c, p) ==
  /\ c \in admin /\ p # c
  /\ Begin(s, [NoRequest EXCEPT !.op = "promote", !.pc = "set", !.who = p])

Promote(s) ==
  LET p == req[s].who
  IN  /\ At(s, "set") /\ p \notin AdminsHeld(s)
      /\ Done(s)
      /\ admin' = IF p \in account THEN admin \cup {p} ELSE admin
      /\ UNCHANGED <<account, gone, role, inv, linkVars, events, historyVars>>

RequestDemote(s, c, p) ==
  /\ c \in admin /\ p # c
  /\ Begin(s, [NoRequest EXCEPT !.op = "demote", !.pc = "admins", !.who = p])

(* The statement finds the administrators there are, ...                    *)
FindAdmins(s) ==
  /\ At(s, "admins")
  /\ req' = [req EXCEPT ![s].rows = admin, ![s].pc = "wait"]
  /\ UNCHANGED <<rowVars, linkVars, events, historyVars>>

(* ... and locks those of them that still are.                              *)
LockAdmins(s) ==
  LET locked == req[s].rows \cap admin
  IN  /\ At(s, "wait") /\ req[s].rows \cap AdminsHeld(s) = {}
      /\ IF locked = {req[s].who} THEN Done(s)
         ELSE req' = [req EXCEPT ![s].rows = locked, ![s].pc = "clear"]
      /\ UNCHANGED <<rowVars, linkVars, events, historyVars>>

Demote(s) ==
  /\ At(s, "clear") /\ req[s].who \notin AdminsHeld(s)
  /\ Done(s)
  /\ admin' = admin \ {req[s].who}
  /\ bare' = (bare \/ (req[s].rows = {} /\ admin = {req[s].who}))
  /\ UNCHANGED <<account, gone, role, inv, linkVars, events, late>>

-----------------------------------------------------------------------------
(* Invitations.                                                             *)

(* handleCreateInvitation up to CreateInvitation: no member is invited.     *)
RequestInvite(s, c, p, r) ==
  /\ c \in account /\ EffectiveRole(c) \in {"owner", "admin"}
  /\ canTouchRole(EffectiveRole(c), r)
  /\ p \notin gone /\ role[p] = "none"
  /\ Begin(s, [NoRequest EXCEPT !.op = "invite", !.pc = "upsert", !.by = c, !.who = p, !.to = r,
                                !.acc = EffectiveRole(c)])

(* CreateInvitation creates or replaces; an inviter must have an account.   *)
Upsert(s) ==
  LET r == req[s]
      k == Len(accepted) + 1
      id == IF inv[r.who].id = 0 THEN k ELSE inv[r.who].id
  IN  /\ At(s, "upsert") /\ InvitationFree(r.who)
      /\ r.by \notin AdminsHeld(s) /\ (inv[r.who].id = 0 => OrgFree(s))
      /\ \/ r.by \notin account /\ Done(s) /\ UNCHANGED <<inv, accepted>>
         \/ /\ r.by \in account
            /\ accepted' = Append(accepted, 0)
            /\ inv' = [inv EXCEPT ![r.who] = [id |-> id, role |-> r.to, link |-> k, live |-> TRUE,
                                              by |-> r.acc]]
            /\ req' = [req EXCEPT ![s].id = id, ![s].link = k, ![s].pc = "mail"]
      /\ UNCHANGED <<account, gone, admin, role, sent, events, historyVars>>

RequestResend(s, c, p) ==
  /\ c \in account /\ EffectiveRole(c) \in {"owner", "admin"}
  /\ inv[p].id # 0
  /\ Begin(s, [NoRequest EXCEPT !.op = "resend", !.pc = "reissue", !.who = p,
                                !.acc = EffectiveRole(c), !.id = inv[p].id])

(* ReissueInvitation, and the handler's check after it.                     *)
Reissue(s) ==
  LET r == req[s]
      k == Len(accepted) + 1
  IN  /\ At(s, "reissue") /\ InvitationFree(r.who)
      /\ \/ inv[r.who].id # r.id /\ Done(s) /\ UNCHANGED <<inv, accepted>>
         \/ /\ inv[r.who].id = r.id
            /\ accepted' = Append(accepted, 0)
            /\ inv' = [inv EXCEPT ![r.who].link = k, ![r.who].live = TRUE]
            /\ IF canTouchRole(r.acc, inv[r.who].role)
               THEN req' = [req EXCEPT ![s].link = k, ![s].pc = "mail"]
               ELSE Done(s)
      /\ UNCHANGED <<account, gone, admin, role, sent, events, historyVars>>

(* deliverInvitation: by mail, or the inviter is given the link.            *)
Deliver(s) ==
  /\ At(s, "mail") /\ Done(s)
  /\ sent' = sent \cup {req[s].link}
  /\ UNCHANGED <<rowVars, accepted, events, historyVars>>

(* A new invitation that cannot be mailed is deleted.                       *)
DeliveryFails(s) ==
  /\ At(s, "mail") /\ events < MaxEvents /\ events' = events + 1
  /\ IF req[s].op = "invite" THEN Go(s, "undo") ELSE Done(s)
  /\ UNCHANGED <<rowVars, linkVars, historyVars>>

RequestRevoke(s, c, p) ==
  /\ c \in account /\ EffectiveRole(c) \in {"owner", "admin"}
  /\ inv[p].id # 0
  /\ Begin(s, [NoRequest EXCEPT !.op = "revoke", !.pc = "undo", !.who = p,
                                !.id = inv[p].id])

DeleteInvitation(s) ==
  LET p == req[s].who
  IN  /\ At(s, "undo") /\ InvitationFree(p)
      /\ Done(s)
      /\ inv' = IF inv[p].id = req[s].id THEN [inv EXCEPT ![p] = NoInvitation] ELSE inv
      /\ UNCHANGED <<account, gone, admin, role, linkVars, events, historyVars>>

(* handleAcceptInvitation: the person follows a link, signed in if there is *)
(* an account.                                                              *)
RequestAccept(s, p) ==
  /\ p \notin gone /\ inv[p].live /\ inv[p].link \in sent
  /\ Begin(s, [NoRequest EXCEPT !.op = IF p \in account THEN "accept" ELSE "acceptNew",
                                !.pc = "take", !.who = p, !.link = inv[p].link])

(* takeInvitation.                                                          *)
TakeInvitation(s) ==
  LET r == req[s]
  IN  /\ At(s, "take") /\ InvitationFree(r.who)
      /\ IF inv[r.who].live /\ inv[r.who].link = r.link THEN Go(s, "join") ELSE Done(s)
      /\ UNCHANGED <<rowVars, linkVars, events, historyVars>>

(* The rest of AcceptInvitationExistingUser, to whom already being a member *)
(* changes nothing, or of AcceptInvitationNewUser, whose address must be    *)
(* free.                                                                    *)
Join(s) ==
  LET r == req[s]
      p == r.who
      joins == IF r.op = "accept" THEN p \in account ELSE p \notin account \cup gone
  IN  /\ At(s, "join") /\ Done(s)
      /\ role[p] = "none" => OrgFree(s) /\ p \notin AdminsHeld(s)
      /\ IF joins
         THEN /\ account' = account \cup {p}
              /\ IF role[p] # "none" THEN UNCHANGED <<role, late>> ELSE GivesRole(p, inv[p].role)
              /\ inv' = [inv EXCEPT ![p] = NoInvitation]
              /\ accepted' = [accepted EXCEPT ![r.link] = @ + 1]
         ELSE UNCHANGED <<account, role, inv, accepted, late>>
      /\ UNCHANGED <<gone, admin, sent, events, bare>>

-----------------------------------------------------------------------------
Expire(p) ==
  /\ events < MaxEvents /\ events' = events + 1
  /\ inv[p].live
  /\ inv' = [inv EXCEPT ![p].live = FALSE]
  /\ UNCHANGED <<account, gone, admin, role, linkVars, req, historyVars>>

(* ListInvitations deletes what has long expired.                           *)
Prune(p) ==
  /\ events < MaxEvents /\ events' = events + 1
  /\ inv[p].id # 0 /\ ~inv[p].live /\ InvitationFree(p)
  /\ inv' = [inv EXCEPT ![p] = NoInvitation]
  /\ UNCHANGED <<account, gone, admin, role, linkVars, req, historyVars>>

(* A statement fails, or the Panel stops: the transaction is rolled back.   *)
CallFails(s) ==
  /\ ~At(s, "idle") /\ events < MaxEvents /\ events' = events + 1
  /\ Done(s)
  /\ UNCHANGED <<rowVars, linkVars, historyVars>>

Request(s) ==
  \E c, p \in People :
    \/ \E r \in Roles : RequestSetRole(s, c, p, r) \/ RequestInvite(s, c, p, r)
    \/ RequestRemove(s, c, p) \/ RequestDeleteUser(s, c, p)
    \/ RequestPromote(s, c, p) \/ RequestDemote(s, c, p)
    \/ RequestResend(s, c, p) \/ RequestRevoke(s, c, p)
    \/ c = p /\ RequestAccept(s, p)

Handle(s) ==
  \/ LockOrg(s) \/ ReadRole(s) \/ CountOwners(s) \/ WriteRole(s)
  \/ ScanOwned(s) \/ LockOwned(s) \/ CheckSoleOwner(s) \/ DeleteUser(s)
  \/ Promote(s) \/ FindAdmins(s) \/ LockAdmins(s) \/ Demote(s)
  \/ Upsert(s) \/ Reissue(s) \/ Deliver(s) \/ DeleteInvitation(s)
  \/ TakeInvitation(s) \/ Join(s)

Next ==
  \/ \E s \in Slots : Request(s) \/ Handle(s) \/ DeliveryFails(s) \/ CallFails(s)
  \/ \E p \in People : Expire(p) \/ Prune(p)

Spec == Init /\ [][Next]_vars

-----------------------------------------------------------------------------
(* Properties.                                                              *)

(* Every variable has its type.                                             *)
TypeOK ==
  /\ account \subseteq People /\ gone \subseteq People \ account
  /\ admin \subseteq account
  /\ role \in [People -> Roles \cup {"none"}]
  /\ \A p \in People : role[p] # "none" => p \in account
  /\ inv \in [People -> Invitations]
  /\ accepted \in Seq(Nat) /\ sent \subseteq Links
  /\ req \in [Slots -> Requests]
  /\ events \in 0..MaxEvents
  /\ late \in BOOLEAN /\ bare \in BOOLEAN

(* An organisation keeps an owner, whichever roles are changed, members     *)
(* removed and accounts deleted at the same time (requireAnotherOwner and   *)
(* DeleteUser, under the organisation's lock), unless somebody became an    *)
(* owner after the deletion of the account had looked for what to lock.     *)
OwnerKept == late \/ Owners # {}

(* The platform keeps an administrator: two who demote each other do not    *)
(* both succeed (SetAdmin), unless an account was deleted that was the only *)
(* one, which DeleteUser does not ask, or all administrators SetAdmin had   *)
(* found were gone when it came to lock them, and it takes none for more    *)
(* than one.                                                                *)
AdminKept == bare \/ admin # {}

(* Neither the organisation nor the platform is left without somebody in    *)
(* charge by requests that overlap.                                         *)
InCharge == OwnerKept /\ AdminKept

(* A link lets somebody in at most once, however many requests present it   *)
(* (takeInvitation: the second finds nothing).                              *)
AcceptedOnce == \A k \in DOMAIN accepted : accepted[k] <= 1

(* An owner is made by an owner: by a request of one, or through an         *)
(* invitation one has made, whoever resent it (canTouchRole).               *)
OwnersMadeByOwners ==
  [][\A p \in People : role[p] # "owner" /\ role'[p] = "owner" =>
       \E s \in Slots : /\ req[s].who = p
                        /\ \/ req[s].op = "setRole" /\ req[s].acc = "owner"
                           \/ req[s].pc = "join" /\ inv[p].by = "owner"]_vars

=============================================================================
