-------------------------------- MODULE Login --------------------------------
(***************************************************************************)
(* Signing in to the Panel (internal/panelapi/{authhandlers,twofactor,     *)
(* account}.go, internal/paneldb/{users,sessions,tokens,twofactor}.go and  *)
(* internal/panelcache): the password, the second factor and its           *)
(* challenges, the limit on failures, sessions, and links sent by mail.    *)
(*                                                                         *)
(* Requests are handled concurrently; one step is one SQL statement or     *)
(* Redis script, a statement that ends a transaction together with its     *)
(* commit.  Isolation is READ COMMITTED, and a row is locked from the      *)
(* statement that writes it until its transaction ends.                    *)
(*                                                                         *)
(* There is one account, and one address it is used from.  Passwords are   *)
(* numbered in the order they are set, as secrets, challenges, recovery    *)
(* codes, links and sessions are; a recovery code stands for the ten that  *)
(* are issued together.                                                    *)
(***************************************************************************)
EXTENDS Integers, Sequences, FiniteSets

CONSTANTS
  Slots,            \* requests handled at a time
  PerIP, PerUserIP, \* failures that block an address, and the account from it
  MaxFailures,      \* wrong codes that end a challenge
  MaxRequests,      \* bound: requests
  MaxFaults         \* bound: what expires or fails, and steps of the clock

ASSUME LimitAssumption ==
  /\ PerIP \in Nat \ {0} /\ PerUserIP \in Nat \ {0} /\ MaxFailures \in Nat \ {0}
  /\ MaxRequests \in Nat /\ MaxFaults \in Nat
ASSUME SlotsAssumption == IsFiniteSet(Slots)

VARIABLES
  password,      \* the current one
  totp,          \* [secret (0: off), last accepted step]
  pending,       \* the secret of a setup, 0: none
  secrets,       \* how many there were
  now,           \* the step of the clock
  codes,         \* of each recovery code: whether it is there, and how often it was accepted
  challenges,    \* of each challenge: whether it exists, its failures, the password given
  fails,         \* the two counters of failures
  sessions,      \* of each session: live, password, challenge, whether a change of password
                 \* kept it, and whether it was made after a change of password, or
                 \* after a reset looked for sessions
  links,         \* of each link: its purpose, whether it is good, how often it was used
  mailed,        \* the links that were sent
  req,           \* the requests being handled
  requests, faults,
  accepted,      \* history: the TOTP codes accepted, each with how often
  tries,         \* history: wrong answers to requests that ask the limiter, since the
                 \* counter was last cleared
  marks          \* history: what the properties set aside

storeVars == <<password, totp, pending, secrets, codes, challenges, fails, sessions, links>>
historyVars == <<accepted, tries, marks>>
vars == <<password, totp, pending, secrets, now, codes, challenges, fails, sessions, links, mailed,
          req, requests, faults, accepted, tries, marks>>

Purposes == {"reset", "email"}
Ops == {"none", "login", "login2fa", "enable", "disable", "regenerate", "password", "email",
        "forgot", "admin", "reset"}
PCs == {"idle", "limit", "password", "fail", "issue", "peek", "factor", "accept", "miss",
        "consume", "success", "session", "pending", "enable", "forget", "off", "set", "revoke",
        "find", "lock", "replace", "mail", "reset", "close", "commit"}

(* A code: of a secret for a step of the clock, or a recovery code.         *)
Codes == [secret : Nat, step : Nat, recovery : Nat]
NoCode == [secret |-> 0, step |-> 0, recovery |-> 0]

(* A request: the session it comes with, the password and the code given,   *)
(* the challenge, the secret it has read, the rows it replaces or the        *)
(* sessions it closes, its link.                                             *)
Requests ==
  [op : Ops, pc : PCs, by : Nat, pw : Nat, code : Codes, ch : Nat, secret : Nat,
   rows : SUBSET Nat, link : Nat]
NoRequest ==
  [op |-> "none", pc |-> "idle", by |-> 0, pw |-> 0, code |-> NoCode, ch |-> 0, secret |-> 0,
   rows |-> {}, link |-> 0]

NewCode == [live |-> TRUE, uses |-> 0]

(* An account with a session, two-factor authentication on or off.          *)
Init ==
  /\ password = 1
  /\ \E on \in BOOLEAN : /\ totp = [secret |-> IF on THEN 1 ELSE 0, last |-> 0]
                         /\ codes = IF on THEN <<NewCode>> ELSE <<>>
                         /\ secrets = IF on THEN 1 ELSE 0
  /\ pending = 0 /\ now = 1
  /\ challenges = <<>> /\ links = <<>> /\ mailed = {}
  /\ fails = [ip |-> 0, user |-> 0]
  /\ sessions = <<[live |-> TRUE, pw |-> 1, ch |-> 0, kept |-> FALSE, late |-> FALSE]>>
  /\ req = [s \in Slots |-> NoRequest]
  /\ requests = 0 /\ faults = 0
  /\ accepted = [c \in {} |-> 0] /\ tries = 0
  /\ marks = [stale |-> FALSE, uncounted |-> FALSE, halfway |-> FALSE, crossed |-> FALSE]

-----------------------------------------------------------------------------
At(s, pc) == req[s].pc = pc
Go(s, pc) == req' = [req EXCEPT ![s].pc = pc]
Done(s) == req' = [req EXCEPT ![s] = NoRequest]

LiveSessions == {x \in DOMAIN sessions : sessions[x].live}
LiveCodes == {c \in DOMAIN codes : codes[c].live}
LiveLinks(p) == {k \in DOMAIN links : links[k].purpose = p /\ links[k].live}

(* Rows are deleted.                                                        *)
Without(rows, ids) == [i \in DOMAIN rows |-> [rows[i] EXCEPT !.live = @ /\ i \notin ids]]

Locked(s, ops) ==
  UNION {req[t].rows : t \in {u \in Slots \ {s} : req[u].op \in ops /\ req[u].pc = "replace"}}

(* The links that resets have claimed, and the links others have locked.    *)
Claimed(slots) == {req[t].link : t \in {u \in slots : req[u].op = "reset"}}
LockedLinks(s) == Locked(s, {"forgot", "email"}) \cup Claimed(Slots \ {s})

(* A reset has written the user's row and not committed.                    *)
UserLocked(s) == \E t \in Slots \ {s} : At(t, "close") \/ At(t, "commit")

(* The code counts as accepted once more.                                   *)
Accept(c) ==
  accepted' = [d \in DOMAIN accepted \cup {c} |->
                 (IF d \in DOMAIN accepted THEN accepted[d] ELSE 0) + (IF d = c THEN 1 ELSE 0)]

Begin(s, r) ==
  /\ At(s, "idle") /\ requests < MaxRequests
  /\ requests' = requests + 1
  /\ req' = [req EXCEPT ![s] = r]
  /\ UNCHANGED <<storeVars, now, mailed, faults, historyVars>>

(* requireAuth: a session is valid when the request comes in.               *)
BeginSignedIn(s, r) == LiveSessions # {} /\ Begin(s, r)

-----------------------------------------------------------------------------
(* Requests.  What is typed may be wrong (0), or no longer right when it is *)
(* checked.                                                                 *)

TypedPasswords == {0, password}

(* The authenticator shows a code of the current secret, its clock one step *)
(* early or late; or a recovery code; or what is typed is wrong.            *)
TypedCodes ==
  {NoCode}
  \cup {[secret |-> totp.secret, step |-> k, recovery |-> 0] : k \in {now - 1, now, now + 1} \ {0}}
  \cup {[NoCode EXCEPT !.recovery = c] : c \in DOMAIN codes}

RequestLogin(s) ==
  \E v \in TypedPasswords :
    Begin(s, [NoRequest EXCEPT !.op = "login", !.pc = "limit", !.pw = v])

RequestLogin2FA(s) ==
  \E c \in DOMAIN challenges, code \in TypedCodes :
    Begin(s, [NoRequest EXCEPT !.op = "login2fa", !.pc = "peek", !.ch = c, !.code = code])

(* handle2FASetup: two-factor is off for the user requireAuth has read.     *)
Setup(s) ==
  /\ At(s, "idle") /\ requests < MaxRequests /\ LiveSessions # {} /\ totp.secret = 0
  /\ requests' = requests + 1
  /\ secrets' = secrets + 1 /\ pending' = secrets'
  /\ UNCHANGED <<password, totp, now, codes, challenges, fails, sessions, links, mailed, req,
                 faults, historyVars>>

RequestEnable(s) ==
  /\ totp.secret = 0 /\ pending # 0
  /\ \E k \in {now, now + 1} :
       BeginSignedIn(s, [NoRequest EXCEPT !.op = "enable", !.pc = "pending",
                           !.code = [secret |-> pending, step |-> k, recovery |-> 0]])

RequestConfirmed(s) ==
  /\ totp.secret # 0
  /\ \E op \in {"disable", "regenerate"}, v \in TypedPasswords, code \in TypedCodes :
       BeginSignedIn(s, [NoRequest EXCEPT !.op = op, !.pc = "password", !.pw = v,
                                          !.code = code])

RequestChangePassword(s) ==
  \E x \in LiveSessions, v \in TypedPasswords :
    Begin(s, [NoRequest EXCEPT !.op = "password", !.pc = "limit", !.by = x, !.pw = v])

RequestChangeEmail(s) ==
  \E v \in TypedPasswords :
    BeginSignedIn(s, [NoRequest EXCEPT !.op = "email", !.pc = "limit", !.pw = v])

RequestForgot(s) == Begin(s, [NoRequest EXCEPT !.op = "forgot", !.pc = "find"])

(* handleAdminDisable2FA, by somebody else.                                 *)
RequestAdminDisable(s) == Begin(s, [NoRequest EXCEPT !.op = "admin", !.pc = "off"])

(* handleLogout.                                                            *)
Logout(s) ==
  /\ At(s, "idle") /\ requests < MaxRequests
  /\ requests' = requests + 1
  /\ \E x \in LiveSessions : sessions' = [sessions EXCEPT ![x].live = FALSE]
  /\ UNCHANGED <<password, totp, pending, secrets, now, codes, challenges, fails, links, mailed,
                 req, faults, historyVars>>

Request(s) ==
  \/ RequestLogin(s) \/ RequestLogin2FA(s) \/ Setup(s) \/ RequestEnable(s) \/ RequestConfirmed(s)
  \/ RequestChangePassword(s) \/ RequestChangeEmail(s) \/ RequestForgot(s)
  \/ RequestAdminDisable(s) \/ Logout(s)

-----------------------------------------------------------------------------
(* The limiter.                                                             *)

(* Mutant: one failure too many.                                            *)
BlockedLate == fails.ip > PerIP \/ fails.user > PerUserIP

Blocked == fails.ip >= PerIP \/ fails.user >= PerUserIP

Guarded == [login |-> "password", login2fa |-> "factor", password |-> "password",
            email |-> "password"]

AskLimiter(s) ==
  /\ At(s, "limit")
  /\ IF Blocked THEN Done(s) ELSE Go(s, Guarded[req[s].op])
  /\ UNCHANGED <<storeVars, now, mailed, requests, faults, historyVars>>

(* RecordFailure: two counters, one after the other.                        *)
RecordFailure(s) ==
  /\ At(s, "fail") /\ Done(s)
  /\ fails' = [ip |-> fails.ip + 1, user |-> fails.user + 1]
  /\ UNCHANGED <<password, totp, pending, secrets, now, codes, challenges, sessions, links,
                 mailed, requests, faults, historyVars>>

RecordSuccess(s) ==
  /\ At(s, "success") /\ Go(s, "session")
  /\ fails' = [fails EXCEPT !.user = 0]
  /\ tries' = 0
  /\ UNCHANGED <<password, totp, pending, secrets, now, codes, challenges, sessions, links,
                 mailed, requests, faults, accepted, marks>>

(* Redis does not answer: the request goes on, whatever was counted.        *)
LimiterFails(s) ==
  /\ faults < MaxFaults /\ faults' = faults + 1
  /\ \/ /\ At(s, "limit") /\ Go(s, Guarded[req[s].op])
        /\ marks' = [marks EXCEPT !.uncounted = TRUE] /\ UNCHANGED <<fails, tries>>
     \/ /\ At(s, "fail") /\ Done(s)
        /\ marks' = [marks EXCEPT !.uncounted = TRUE] /\ UNCHANGED tries
        /\ fails' \in {fails, [fails EXCEPT !.ip = @ + 1]}
     \/ /\ At(s, "success") /\ Go(s, "session")
        /\ UNCHANGED <<fails, tries, marks>>
  /\ UNCHANGED <<password, totp, pending, secrets, now, codes, challenges, sessions, links,
                 mailed, requests, accepted>>

-----------------------------------------------------------------------------
(* The password.                                                            *)

(* VerifyPassword and VerifyUserPassword.  confirmIdentity asks no limiter: *)
(* who has a session may try passwords and codes there without a bound, and *)
(* tries has none of them (nor has IsWrong).                                *)
CheckPassword(s) ==
  LET r == req[s]
      right == r.pw = password
      counted == r.op \in DOMAIN Guarded
      next == CASE r.op = "login" -> IF totp.secret # 0 THEN "issue" ELSE "success"
                [] r.op = "password" -> "set"
                [] r.op = "email" -> "find"
                [] OTHER -> "factor"
  IN  /\ At(s, "password")
      /\ IF right THEN Go(s, next) ELSE IF counted THEN Go(s, "fail") ELSE Done(s)
      /\ tries' = IF counted /\ ~right THEN tries + 1 ELSE tries
      /\ UNCHANGED <<storeVars, now, mailed, requests, faults, accepted, marks>>

(* startTwoFactorLogin.                                                     *)
IssueChallenge(s) ==
  /\ At(s, "issue") /\ Done(s)
  /\ challenges' = Append(challenges, [live |-> TRUE, failures |-> 0, pw |-> req[s].pw])
  /\ UNCHANGED <<password, totp, pending, secrets, now, codes, fails, sessions, links, mailed,
                 requests, faults, historyVars>>

(* A reset has found the sessions it closes, and not committed.             *)
Closing == \E t \in Slots : At(t, "commit")

CreateSession(s) ==
  LET r == req[s]
  IN  /\ At(s, "session") /\ Done(s)
      /\ sessions' = Append(sessions, [live |-> TRUE, pw |-> r.pw, ch |-> r.ch, kept |-> FALSE,
                                       late |-> r.pw # password \/ Closing])
      /\ UNCHANGED <<password, totp, pending, secrets, now, codes, challenges, fails, links,
                     mailed, requests, faults, historyVars>>

-----------------------------------------------------------------------------
(* The second factor, and challenges.                                       *)

Peek(s) ==
  /\ At(s, "peek")
  /\ IF challenges[req[s].ch].live THEN Go(s, "limit") ELSE Done(s)
  /\ UNCHANGED <<storeVars, now, mailed, requests, faults, historyVars>>

(* What follows a right code, and a wrong one.                              *)
Right == [login2fa |-> "consume", disable |-> "off", regenerate |-> "find"]

IsRight(s) == Go(s, Right[req[s].op]) /\ UNCHANGED tries
IsWrong(s) ==
  IF req[s].op = "login2fa" THEN Go(s, "miss") /\ tries' = tries + 1
  ELSE Done(s) /\ UNCHANGED tries

(* UseRecoveryCode: a row that is being replaced is waited for.             *)
UseRecoveryCode(s) ==
  LET c == req[s].code.recovery
  IN  /\ At(s, "factor") /\ c # 0 /\ c \notin Locked(s, {"regenerate"})
      /\ IF codes[c].live
         THEN IsRight(s) /\ codes' = [codes EXCEPT ![c].live = FALSE, ![c].uses = @ + 1]
         ELSE IsWrong(s) /\ UNCHANGED codes
      /\ UNCHANGED <<password, totp, pending, secrets, now, challenges, fails, sessions, links,
                     mailed, requests, faults, accepted, marks>>

Matches(code, secret) ==
  secret # 0 /\ code.secret = secret /\ code.step \in {now - 1, now, now + 1}

(* GetTOTP and Verify.                                                      *)
VerifyCode(s) ==
  LET r == req[s]
  IN  /\ At(s, "factor") /\ r.code.recovery = 0
      /\ IF Matches(r.code, totp.secret) THEN Go(s, "accept") /\ UNCHANGED tries ELSE IsWrong(s)
      /\ UNCHANGED <<storeVars, now, mailed, requests, faults, accepted, marks>>

AcceptTOTPStep(s) ==
  LET r == req[s]
  IN  /\ At(s, "accept") /\ ~UserLocked(s)
      /\ IF totp.last < r.code.step
         THEN /\ IsRight(s) /\ Accept(r.code)
              /\ totp' = [totp EXCEPT !.last = r.code.step]
              /\ marks' = [marks EXCEPT !.stale = @ \/ r.code.secret # totp.secret]
         ELSE IsWrong(s) /\ UNCHANGED <<totp, accepted, marks>>
      /\ UNCHANGED <<password, pending, secrets, now, codes, challenges, fails, sessions, links,
                     mailed, requests, faults>>

(* Fail: too many wrong codes delete the challenge.                         *)
FailChallenge(s) ==
  LET c == req[s].ch
      n == challenges[c].failures + 1
  IN  /\ At(s, "miss") /\ Go(s, "fail")
      /\ challenges' = IF challenges[c].live
                       THEN [challenges EXCEPT ![c].failures = n, ![c].live = n < MaxFailures]
                       ELSE challenges
      /\ UNCHANGED <<password, totp, pending, secrets, now, codes, fails, sessions, links, mailed,
                     requests, faults, historyVars>>

(* Mutant: the challenge is read and not deleted.                           *)
ReadChallenge(s) ==
  LET c == req[s].ch
  IN  /\ At(s, "consume")
      /\ IF challenges[c].live
         THEN req' = [req EXCEPT ![s].pc = "success", ![s].pw = challenges[c].pw]
         ELSE Done(s)
      /\ UNCHANGED <<storeVars, now, mailed, requests, faults, historyVars>>

Consume(s) ==
  LET c == req[s].ch
  IN  /\ At(s, "consume")
      /\ IF challenges[c].live
         THEN /\ challenges' = [challenges EXCEPT ![c].live = FALSE]
              /\ req' = [req EXCEPT ![s].pc = "success", ![s].pw = challenges[c].pw]
         ELSE Done(s) /\ UNCHANGED challenges
      /\ UNCHANGED <<password, totp, pending, secrets, now, codes, fails, sessions, links, mailed,
                     requests, faults, historyVars>>

-----------------------------------------------------------------------------
(* Turning two-factor authentication on and off.                            *)

(* handle2FAEnable up to EnableTOTP: the code must be of the pending secret.*)
ReadPending(s) ==
  /\ At(s, "pending")
  /\ IF Matches(req[s].code, pending)
     THEN req' = [req EXCEPT ![s].pc = "enable", ![s].secret = pending]
     ELSE Done(s)
  /\ UNCHANGED <<storeVars, now, mailed, requests, faults, historyVars>>

(* EnableTOTP: whatever was on is replaced, and the last step with it.      *)
EnableTOTP(s) ==
  LET r == req[s]
  IN  /\ At(s, "enable") /\ ~UserLocked(s) /\ LiveCodes \cap Locked(s, {"regenerate"}) = {}
      /\ Go(s, "forget")
      /\ totp' = [secret |-> r.secret, last |-> r.code.step]
      /\ codes' = Append(Without(codes, LiveCodes), NewCode)
      /\ Accept(r.code)
      /\ marks' = [marks EXCEPT !.stale = @ \/ \E c \in DOMAIN accepted : c.secret = r.secret]
      /\ UNCHANGED <<password, pending, secrets, now, challenges, fails, sessions, links, mailed,
                     requests, faults, tries>>

ForgetPending(s) ==
  /\ At(s, "forget") /\ Done(s)
  /\ pending' = 0
  /\ UNCHANGED <<password, totp, secrets, now, codes, challenges, fails, sessions, links, mailed,
                 requests, faults, historyVars>>

(* DisableTOTP.                                                             *)
DisableTOTP(s) ==
  /\ At(s, "off") /\ ~UserLocked(s) /\ LiveCodes \cap Locked(s, {"regenerate"}) = {}
  /\ IF req[s].op = "admin" THEN Go(s, "revoke") ELSE Done(s)
  /\ totp' = [secret |-> 0, last |-> 0]
  /\ codes' = Without(codes, LiveCodes)
  /\ UNCHANGED <<password, pending, secrets, now, challenges, fails, sessions, links, mailed,
                 requests, faults, historyVars>>

-----------------------------------------------------------------------------
(* Passwords, and links by mail.                                            *)

(* SetPassword; the sessions follow in a statement of their own.            *)
SetPassword(s) ==
  LET x == req[s].by
  IN  /\ At(s, "set") /\ ~UserLocked(s) /\ Go(s, "revoke")
      /\ password' = password + 1
      /\ sessions' = [sessions EXCEPT ![x].kept = TRUE]
      /\ UNCHANGED <<totp, pending, secrets, now, codes, challenges, fails, links, mailed,
                     requests, faults, historyVars>>

Revoked(except) ==
  [x \in DOMAIN sessions |-> [sessions[x] EXCEPT !.live = @ /\ x = except]]

(* RevokeUserSessions: all but the one that changes the password.           *)
RevokeUserSessions(s) ==
  /\ At(s, "revoke") /\ Done(s)
  /\ sessions' = Revoked(IF req[s].op = "admin" THEN 0 ELSE req[s].by)
  /\ UNCHANGED <<password, totp, pending, secrets, now, codes, challenges, fails, links, mailed,
                 requests, faults, historyVars>>

(* IssueUserToken and ReplaceRecoveryCodes: the DELETE finds the rows there *)
(* are, ...                                                                 *)
Purpose(s) == IF req[s].op = "email" THEN "email" ELSE "reset"

(* Mutant: older links and codes are left alone.                            *)
FindNothing(s) ==
  /\ At(s, "find")
  /\ req' = [req EXCEPT ![s].pc = "lock", ![s].rows = {}]
  /\ UNCHANGED <<storeVars, now, mailed, requests, faults, historyVars>>

FindRows(s) ==
  /\ At(s, "find")
  /\ req' = [req EXCEPT ![s].pc = "lock",
                        ![s].rows = IF req[s].op = "regenerate" THEN LiveCodes
                                    ELSE LiveLinks(Purpose(s))]
  /\ UNCHANGED <<storeVars, now, mailed, requests, faults, historyVars>>

(* ... waits for those that others have locked, ...                         *)
LockRows(s) ==
  /\ At(s, "lock")
  /\ LET locked == IF req[s].op = "regenerate" THEN Locked(s, {"regenerate"}) ELSE LockedLinks(s)
     IN  req[s].rows \cap locked = {}
  /\ Go(s, "replace")
  /\ UNCHANGED <<storeVars, now, mailed, requests, faults, historyVars>>

(* Another link of the kind is being issued.                                *)
Overlapped(s) ==
  \E t \in Slots \ {s} : req[t].pc \in {"lock", "replace"} /\ req[t].op # "regenerate"
                        /\ Purpose(t) = Purpose(s)

(* ... and the new row comes with the commit.                               *)
Replace(s) ==
  LET r == req[s]
  IN  /\ At(s, "replace")
      /\ IF r.op = "regenerate"
         THEN /\ codes' = Append(Without(codes, r.rows), NewCode)
              /\ Done(s)
              /\ UNCHANGED <<links, marks>>
         ELSE /\ links' = Append(Without(links, r.rows),
                                 [purpose |-> Purpose(s), live |-> TRUE, uses |-> 0])
              /\ req' = [req EXCEPT ![s].pc = "mail", ![s].link = Len(links'), ![s].rows = {}]
              /\ marks' = [marks EXCEPT !.crossed = @ \/ Overlapped(s)]
              /\ UNCHANGED codes
      /\ UNCHANGED <<password, totp, pending, secrets, now, challenges, fails, sessions, mailed,
                     requests, faults, accepted, tries>>

Mail(s) ==
  /\ At(s, "mail") /\ Done(s)
  /\ mailed' = mailed \cup {req[s].link}
  /\ UNCHANGED <<storeVars, now, requests, faults, historyVars>>

(* consumeUserToken: a link that is there, unused, and no other transaction *)
(* holds its row.                                                           *)
Usable(s, k, purpose) ==
  /\ k \in mailed /\ links[k].purpose = purpose
  /\ k \notin LockedLinks(s)
  /\ links[k].live

Used(k) == [links EXCEPT ![k].live = FALSE, ![k].uses = @ + 1]

(* ConfirmEmailChange: the address, which is not modelled, and the use of   *)
(* the link are one transaction.                                            *)
ConfirmEmail(s) ==
  /\ At(s, "idle") /\ requests < MaxRequests
  /\ requests' = requests + 1
  /\ \E k \in DOMAIN links : Usable(s, k, "email") /\ links' = Used(k)
  /\ UNCHANGED <<password, totp, pending, secrets, now, codes, challenges, fails, sessions, mailed,
                 req, faults, historyVars>>

(* ResetPassword, a transaction of four statements.  It claims the link, ...*)
RequestReset(s) ==
  \E k \in DOMAIN links :
    /\ Usable(s, k, "reset")
    /\ Begin(s, [NoRequest EXCEPT !.op = "reset", !.pc = "reset", !.link = k])

(* ... writes the user's row, which others go on reading as it was, ...     *)
WritePassword(s) ==
  /\ At(s, "reset") /\ ~UserLocked(s) /\ Go(s, "close")
  /\ UNCHANGED <<storeVars, now, mailed, requests, faults, historyVars>>

(* ... revokes the sessions there are by now, ...                           *)
FindSessions(s) ==
  /\ At(s, "close")
  /\ req' = [req EXCEPT ![s].pc = "commit", ![s].rows = LiveSessions]
  /\ UNCHANGED <<storeVars, now, mailed, requests, faults, historyVars>>

(* ... and reads the user, and commits.                                     *)
CommitReset(s) ==
  /\ At(s, "commit") /\ Done(s)
  /\ password' = password + 1
  /\ sessions' = Without(sessions, req[s].rows)
  /\ links' = Used(req[s].link)
  /\ UNCHANGED <<totp, pending, secrets, now, codes, challenges, fails, mailed, requests, faults,
                 historyVars>>

-----------------------------------------------------------------------------
(* Time and failures.                                                       *)

Tick ==
  /\ faults < MaxFaults /\ faults' = faults + 1
  /\ now' = now + 1
  /\ UNCHANGED <<storeVars, mailed, req, requests, historyVars>>

(* A window of the limiter ends; each counter has its own.                  *)
WindowEnds ==
  /\ faults < MaxFaults /\ faults' = faults + 1
  /\ \/ fails.ip > 0 /\ fails' = [fails EXCEPT !.ip = 0] /\ UNCHANGED tries
     \/ fails.user > 0 /\ fails' = [fails EXCEPT !.user = 0] /\ tries' = 0
  /\ UNCHANGED <<password, totp, pending, secrets, now, codes, challenges, sessions, links,
                 mailed, req, requests, accepted, marks>>

(* Challenges, setups, sessions and links live for a time.  A link that is  *)
(* claimed is not asked for its time again.                                 *)
Expire ==
  /\ faults < MaxFaults /\ faults' = faults + 1
  /\ \/ /\ \E c \in DOMAIN challenges : /\ challenges[c].live
                                        /\ challenges' = [challenges EXCEPT ![c].live = FALSE]
        /\ UNCHANGED <<pending, sessions, links>>
     \/ /\ \E x \in LiveSessions : sessions' = [sessions EXCEPT ![x].live = FALSE]
        /\ UNCHANGED <<pending, challenges, links>>
     \/ /\ \E p \in Purposes, k \in DOMAIN links :
             k \in LiveLinks(p) \ Claimed(Slots) /\ links' = [links EXCEPT ![k].live = FALSE]
        /\ UNCHANGED <<pending, challenges, sessions>>
     \/ pending # 0 /\ pending' = 0 /\ UNCHANGED <<challenges, sessions, links>>
  /\ UNCHANGED <<password, totp, secrets, now, codes, fails, mailed, req, requests, historyVars>>

(* A call fails, or the Panel stops: what was not committed is not done. A  *)
(* wrong answer may go uncounted, a change of password stay without the     *)
(* revocation.                                                              *)
CallFails(s) ==
  /\ ~At(s, "idle") /\ faults < MaxFaults /\ faults' = faults + 1
  /\ Done(s)
  /\ marks' = [marks EXCEPT !.uncounted = @ \/ req[s].pc \in {"miss", "fail"},
                            !.halfway = @ \/ req[s].pc = "revoke"]
  /\ UNCHANGED <<storeVars, now, mailed, requests, accepted, tries>>

Handle(s) ==
  \/ AskLimiter(s) \/ RecordFailure(s) \/ RecordSuccess(s) \/ CheckPassword(s)
  \/ IssueChallenge(s) \/ CreateSession(s) \/ Peek(s) \/ UseRecoveryCode(s) \/ VerifyCode(s)
  \/ AcceptTOTPStep(s) \/ FailChallenge(s) \/ Consume(s) \/ ReadPending(s) \/ EnableTOTP(s)
  \/ ForgetPending(s) \/ DisableTOTP(s) \/ SetPassword(s) \/ RevokeUserSessions(s)
  \/ FindRows(s) \/ LockRows(s) \/ Replace(s) \/ Mail(s)
  \/ WritePassword(s) \/ FindSessions(s) \/ CommitReset(s)

Next ==
  \/ \E s \in Slots : \/ Request(s) \/ RequestReset(s) \/ ConfirmEmail(s) \/ Handle(s)
                     \/ LimiterFails(s) \/ CallFails(s)
  \/ Tick \/ WindowEnds \/ Expire

Spec == Init /\ [][Next]_vars

-----------------------------------------------------------------------------
(* Properties.                                                              *)

(* Every variable has its type.                                             *)
TypeOK ==
  /\ password \in Nat /\ totp \in [secret : Nat, last : Nat]
  /\ pending \in Nat /\ secrets \in Nat /\ now \in Nat
  /\ codes \in Seq([live : BOOLEAN, uses : Nat])
  /\ challenges \in Seq([live : BOOLEAN, failures : Nat, pw : Nat])
  /\ fails \in [ip : Nat, user : Nat]
  /\ sessions \in Seq([live : BOOLEAN, pw : Nat, ch : Nat, kept : BOOLEAN, late : BOOLEAN])
  /\ links \in Seq([purpose : Purposes, live : BOOLEAN, uses : Nat])
  /\ mailed \subseteq DOMAIN links
  /\ req \in [Slots -> Requests]
  /\ requests \in 0..MaxRequests /\ faults \in 0..MaxFaults
  /\ tries \in Nat
  /\ marks \in [stale : BOOLEAN, uncounted : BOOLEAN, halfway : BOOLEAN, crossed : BOOLEAN]

Ids == 1..MaxRequests

(* A challenge is used when its session is made; the request that consumed  *)
(* it holds it until then.                                                  *)
Holds(s, c) == req[s].ch = c /\ req[s].pc \in {"success", "session"}

Challenge == INSTANCE SingleUse WITH
  Token <- Ids, MaxWrong <- MaxFailures,
  state <- [c \in Ids |-> IF c \notin DOMAIN challenges THEN "none"
                          ELSE IF challenges[c].live \/ \E s \in Slots : Holds(s, c) THEN "live"
                          ELSE "over"],
  uses <- [c \in Ids |-> Cardinality({x \in DOMAIN sessions : sessions[x].ch = c})],
  wrong <- [c \in Ids |-> IF c \in DOMAIN challenges THEN challenges[c].failures ELSE 0]

Link == INSTANCE SingleUse WITH
  Token <- Ids, MaxWrong <- 1,
  state <- [k \in Ids |-> IF k \notin DOMAIN links THEN "none"
                          ELSE IF links[k].live THEN "live" ELSE "over"],
  uses <- [k \in Ids |-> IF k \in DOMAIN links THEN links[k].uses ELSE 0],
  wrong <- [k \in Ids |-> 0]

RecoveryCode == INSTANCE SingleUse WITH
  Token <- Ids, MaxWrong <- 1,
  state <- [c \in Ids |-> IF c \notin DOMAIN codes THEN "none"
                          ELSE IF codes[c].live THEN "live" ELSE "over"],
  uses <- [c \in Ids |-> IF c \in DOMAIN codes THEN codes[c].uses ELSE 0],
  wrong <- [c \in Ids |-> 0]

(* A two-factor challenge implements a single-use token: it ends at the     *)
(* configured number of wrong codes, however requests overlap, and of those *)
(* that present it with a right code one gets a session (Fail and Consume   *)
(* in panelcache/twofactor.go).                                             *)
ChallengesSingleUse == Challenge!Spec

(* So does a link sent by mail: of two that spend it one succeeds, whatever *)
(* is issued meanwhile (consumeUserToken and IssueUserToken).               *)
LinksSingleUse == Link!Spec

(* And a recovery code, used in a login, to turn two-factor off or to       *)
(* replace the codes, which may happen at the same time (UseRecoveryCode).  *)
CodesSingleUse == RecoveryCode!Spec

(* No TOTP code is accepted twice, the one that confirmed the setup         *)
(* included (AcceptTOTPStep, EnableTOTP).  Set aside: a secret turned on    *)
(* again, by a second request or from a pending copy that outlived it, and  *)
(* a code verified before the secret was replaced or turned off.            *)
CodesOnce == marks.stale \/ \A c \in DOMAIN accepted : accepted[c] <= 1

(* Who signs in, or changes the password or the address, gets at most       *)
(* PerUserIP - 1 wrong passwords and codes answered between two logins, or  *)
(* within a window, and one for each request handled at the time: a right   *)
(* password does not clear the count (handleLogin), and no answer is given  *)
(* before the limiter was asked.  Set aside: Redis did not answer, or the   *)
(* Panel stopped before it counted.  Nothing is said of what is answered to *)
(* disable two-factor authentication or to replace the recovery codes       *)
(* (confirmIdentity), which the code does not limit.                        *)
GuessesBounded == marks.uncounted \/ tries <= PerUserIP - 1 + Cardinality(Slots)

(* After a change of password or a reset, no session remains that was made  *)
(* with an older password, but the one that changed it and those of a login *)
(* that had checked the old one and made its session after the change       *)
(* (handleChangePassword sets the password before it revokes), or between   *)
(* the revocation and the commit of a reset, which does not see it          *)
(* (ResetPassword, paneldb/tokens.go).                                      *)
OldSessionsClosed ==
  \/ marks.halfway \/ \E s \in Slots : At(s, "revoke")
  \/ \A x \in LiveSessions :
       sessions[x].pw = password \/ sessions[x].kept \/ sessions[x].late

(* Only the latest link of a kind works (IssueUserToken), unless two were   *)
(* issued at the same time.                                                 *)
LatestLink == marks.crossed \/ \A p \in Purposes : Cardinality(LiveLinks(p)) <= 1

(* Every kind of single-use credential is one, in any interleaving.         *)
TokensSingleUse ==
  ChallengesSingleUse /\ LinksSingleUse /\ CodesSingleUse /\ []CodesOnce

(* What a newer credential replaces is gone.                                *)
OldGone == OldSessionsClosed /\ LatestLink
=============================================================================
