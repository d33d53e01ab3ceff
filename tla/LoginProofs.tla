----------------------------- MODULE LoginProofs -----------------------------
(* Proofs about Login for every value of its constants: the types of its    *)
(* rows and requests, and that challenges, links and recovery codes         *)
(* implement single-use tokens.                                             *)
EXTENDS Login, SequenceTheorems, FiniteSetTheorems, TLAPS

CodeRows == [live : BOOLEAN, uses : Nat]
ChallengeRows == [live : BOOLEAN, failures : Nat, pw : Nat]
SessionRows == [live : BOOLEAN, pw : Nat, ch : Nat, kept : BOOLEAN, late : BOOLEAN]
LinkRows == [purpose : Purposes, live : BOOLEAN, uses : Nat]
Marks == [stale : BOOLEAN, uncounted : BOOLEAN, halfway : BOOLEAN, crossed : BOOLEAN]

-----------------------------------------------------------------------------
(* Rows.                                                                    *)

(* What a row is added to.                                                  *)
LEMMA Added ==
  ASSUME NEW S, NEW q \in Seq(S), NEW e \in S
  PROVE  /\ Len(q) \in Nat /\ DOMAIN q = 1..Len(q)
         /\ Append(q, e) \in Seq(S) /\ Len(Append(q, e)) = Len(q) + 1
         /\ DOMAIN Append(q, e) = 1..(Len(q) + 1)
         /\ \A i \in 1..Len(q) : Append(q, e)[i] = q[i]
         /\ Append(q, e)[Len(q) + 1] = e
<1>1. Len(q) \in Nat /\ DOMAIN q = 1..Len(q)
  BY LenProperties
<1>2. Append(q, e) \in Seq(S) /\ Len(Append(q, e)) = Len(q) + 1
      /\ (\A i \in 1..Len(q) : Append(q, e)[i] = q[i]) /\ Append(q, e)[Len(q) + 1] = e
  BY <1>1, AppendProperties
<1>3. DOMAIN Append(q, e) = 1..(Len(q) + 1)
  BY <1>2, LenProperties
<1> QED BY <1>1, <1>2, <1>3

(* What is changed row by row.                                              *)
LEMMA Changed ==
  ASSUME NEW S, NEW q \in Seq(S), NEW f \in [1..Len(q) -> S]
  PROVE  f \in Seq(S) /\ Len(f) = Len(q) /\ DOMAIN f = 1..Len(q)
<1>1. Len(q) \in Nat
  BY LenProperties
<1>2. f \in Seq(S)
  BY <1>1, SeqDef
<1>3. DOMAIN f = 1..Len(f) /\ Len(f) \in Nat /\ DOMAIN f = 1..Len(q)
  BY <1>2, LenProperties
<1> QED BY <1>1, <1>2, <1>3

(* Rows that are deleted keep what else they say.                           *)
CanGo(S) == \A r \in S : r.live \in BOOLEAN /\ \A b \in BOOLEAN : [r EXCEPT !.live = b] \in S

LEMMA Deleted ==
  ASSUME NEW S, CanGo(S), NEW q \in Seq(S), NEW ids
  PROVE  /\ Without(q, ids) \in Seq(S) /\ Len(Without(q, ids)) = Len(q)
         /\ DOMAIN Without(q, ids) = 1..Len(q)
         /\ \A i \in 1..Len(q) :
              Without(q, ids)[i] = [q[i] EXCEPT !.live = @ /\ i \notin ids]
<1>1. DOMAIN q = 1..Len(q) /\ \A i \in 1..Len(q) : q[i] \in S
  BY LenProperties, ElementOfSeq
<1>2. \A i \in 1..Len(q) : [q[i] EXCEPT !.live = @ /\ i \notin ids] \in S
  <2> SUFFICES ASSUME NEW i \in 1..Len(q) PROVE [q[i] EXCEPT !.live = @ /\ i \notin ids] \in S
    OBVIOUS
  <2> DEFINE b == q[i].live /\ i \notin ids
  <2>1. b \in BOOLEAN /\ q[i] \in S
    BY <1>1 DEF CanGo
  <2> HIDE DEF b
  <2>2. [q[i] EXCEPT !.live = b] \in S
    BY <2>1 DEF CanGo
  <2> QED BY <2>2 DEF b
<1>3. Without(q, ids) = [i \in 1..Len(q) |-> [q[i] EXCEPT !.live = @ /\ i \notin ids]]
  BY <1>1 DEF Without
<1>4. Without(q, ids) \in [1..Len(q) -> S]
  BY <1>2, <1>3
<1> QED BY <1>3, <1>4, Changed

(* The rows there are can be deleted.                                       *)
LEMMA RowsCanGo == CanGo(CodeRows) /\ CanGo(LinkRows) /\ CanGo(SessionRows)
BY DEF CanGo, CodeRows, LinkRows, SessionRows

(* One session is closed, or kept, or all but some are closed.              *)
LEMMA SessionsChange ==
  ASSUME sessions \in Seq(SessionRows), NEW x \in 1..Len(sessions)
  PROVE  /\ [sessions EXCEPT ![x].live = FALSE] \in Seq(SessionRows)
         /\ Len([sessions EXCEPT ![x].live = FALSE]) = Len(sessions)
         /\ [sessions EXCEPT ![x].kept = TRUE] \in Seq(SessionRows)
         /\ Len([sessions EXCEPT ![x].kept = TRUE]) = Len(sessions)
<1>1. sessions \in [1..Len(sessions) -> SessionRows] /\ sessions[x] \in SessionRows
  BY LenProperties, ElementOfSeq
<1>2. /\ [sessions[x] EXCEPT !.live = FALSE] \in SessionRows
      /\ [sessions[x] EXCEPT !.kept = TRUE] \in SessionRows
  BY <1>1 DEF SessionRows
<1>3. /\ [sessions EXCEPT ![x].live = FALSE] \in [1..Len(sessions) -> SessionRows]
      /\ [sessions EXCEPT ![x].kept = TRUE] \in [1..Len(sessions) -> SessionRows]
  BY <1>1, <1>2
<1> QED BY <1>3, Changed

LEMMA SessionsClosed ==
  ASSUME sessions \in Seq(SessionRows), NEW y
  PROVE  Revoked(y) \in Seq(SessionRows) /\ Len(Revoked(y)) = Len(sessions)
<1>1. DOMAIN sessions = 1..Len(sessions) /\ \A x \in 1..Len(sessions) : sessions[x] \in SessionRows
  BY LenProperties, ElementOfSeq
<1>2. \A x \in 1..Len(sessions) : [sessions[x] EXCEPT !.live = @ /\ x = y] \in SessionRows
  <2> TAKE x \in 1..Len(sessions)
  <2>1. sessions[x] \in SessionRows /\ (sessions[x].live /\ x = y) \in BOOLEAN
    BY <1>1
  <2> QED BY <2>1 DEF SessionRows
<1>3. Revoked(y) = [x \in 1..Len(sessions) |-> [sessions[x] EXCEPT !.live = @ /\ x = y]]
  BY <1>1 DEF Revoked
<1>4. Revoked(y) \in [1..Len(sessions) -> SessionRows]
  BY <1>2, <1>3
<1> QED BY <1>4, Changed

(* One challenge, link or code changes.                                     *)
LEMMA ChallengeEnds ==
  ASSUME challenges \in Seq(ChallengeRows), NEW c \in 1..Len(challenges)
  PROVE  /\ [challenges EXCEPT ![c].live = FALSE] \in Seq(ChallengeRows)
         /\ Len([challenges EXCEPT ![c].live = FALSE]) = Len(challenges)
<1>1. challenges \in [1..Len(challenges) -> ChallengeRows] /\ challenges[c] \in ChallengeRows
  BY LenProperties, ElementOfSeq
<1>2. [challenges[c] EXCEPT !.live = FALSE] \in ChallengeRows
  BY <1>1 DEF ChallengeRows
<1>3. [challenges EXCEPT ![c].live = FALSE] \in [1..Len(challenges) -> ChallengeRows]
  BY <1>1, <1>2
<1> QED BY <1>3, Changed

LEMMA ChallengeMissed ==
  ASSUME challenges \in Seq(ChallengeRows), NEW c \in 1..Len(challenges), NEW b \in BOOLEAN,
         NEW n \in Nat
  PROVE  /\ [challenges EXCEPT ![c].failures = n, ![c].live = b] \in Seq(ChallengeRows)
         /\ Len([challenges EXCEPT ![c].failures = n, ![c].live = b]) = Len(challenges)
<1> DEFINE f == [challenges EXCEPT ![c].failures = n, ![c].live = b]
<1>1. challenges \in [1..Len(challenges) -> ChallengeRows] /\ challenges[c] \in ChallengeRows
  BY LenProperties, ElementOfSeq
<1>2. [challenges[c] EXCEPT !.failures = n, !.live = b] \in ChallengeRows
  BY <1>1 DEF ChallengeRows
<1>3. f \in [1..Len(challenges) -> ChallengeRows]
  BY <1>1, <1>2
<1> HIDE DEF f
<1>4. f \in Seq(ChallengeRows) /\ Len(f) = Len(challenges)
  BY <1>3, Changed
<1> QED BY <1>4 DEF f

LEMMA LinkChanges ==
  ASSUME links \in Seq(LinkRows), NEW k \in 1..Len(links)
  PROVE  /\ [links EXCEPT ![k].live = FALSE] \in Seq(LinkRows)
         /\ Len([links EXCEPT ![k].live = FALSE]) = Len(links)
         /\ [links EXCEPT ![k].live = FALSE, ![k].uses = @ + 1] \in Seq(LinkRows)
         /\ Len([links EXCEPT ![k].live = FALSE, ![k].uses = @ + 1]) = Len(links)
<1>0. links[k] \in LinkRows
  BY ElementOfSeq
<1>1. links \in [1..Len(links) -> LinkRows] /\ links[k] \in LinkRows
  BY <1>0, LenProperties
<1>4. links[k].uses + 1 \in Nat
  BY <1>0 DEF LinkRows
<1>2. /\ [links[k] EXCEPT !.live = FALSE] \in LinkRows
      /\ [links[k] EXCEPT !.live = FALSE, !.uses = @ + 1] \in LinkRows
  BY <1>1, <1>4 DEF LinkRows
<1>3. /\ [links EXCEPT ![k].live = FALSE] \in [1..Len(links) -> LinkRows]
      /\ [links EXCEPT ![k].live = FALSE, ![k].uses = @ + 1] \in [1..Len(links) -> LinkRows]
  BY <1>1, <1>2
<1> QED BY <1>3, Changed

LEMMA CodeChanges ==
  ASSUME codes \in Seq(CodeRows), NEW c \in 1..Len(codes)
  PROVE  /\ [codes EXCEPT ![c].live = FALSE, ![c].uses = @ + 1] \in Seq(CodeRows)
         /\ Len([codes EXCEPT ![c].live = FALSE, ![c].uses = @ + 1]) = Len(codes)
<1> DEFINE f == [codes EXCEPT ![c].live = FALSE, ![c].uses = @ + 1]
<1>0. codes[c] \in CodeRows
  BY ElementOfSeq
<1>1. codes \in [1..Len(codes) -> CodeRows] /\ codes[c] \in CodeRows
  BY <1>0, LenProperties
<1>4. codes[c].uses + 1 \in Nat
  BY <1>0 DEF CodeRows
<1>2. [codes[c] EXCEPT !.live = FALSE, !.uses = @ + 1] \in CodeRows
  BY <1>1, <1>4 DEF CodeRows
<1>3. f \in [1..Len(codes) -> CodeRows]
  BY <1>1, <1>2
<1> HIDE DEF f
<1>5. f \in Seq(CodeRows) /\ Len(f) = Len(codes)
  BY <1>3, Changed
<1> QED BY <1>5 DEF f

-----------------------------------------------------------------------------
(* Type correctness.                                                        *)

(* A request is in the course of its operation ...                          *)
InCourse(op, pc) ==
  /\ pc = "limit" => op \in {"login", "login2fa", "password", "email"}
  /\ pc = "password" => op \in {"login", "password", "email", "disable", "regenerate"}
  /\ pc \in {"factor", "accept"} => op \in {"login2fa", "disable", "regenerate"}
  /\ pc \in {"peek", "miss", "consume"} => op = "login2fa"
  /\ pc \in {"success", "session"} => op \in {"login", "login2fa"}
  /\ pc = "set" => op = "password"
  /\ pc \in {"find", "lock", "replace"} => op \in {"regenerate", "email", "forgot"}
  /\ pc \in {"reset", "close", "commit"} <=> op = "reset"

(* ... and what it refers to exists.                                        *)
FitsIn(r, nChallenges, nSessions, nCodes, nLinks) ==
  /\ InCourse(r.op, r.pc)
  /\ r.op = "login2fa" => r.ch \in 1..nChallenges
  /\ r.op # "login2fa" => r.ch = 0
  /\ r.op = "password" => r.by \in 1..nSessions
  /\ r.code.recovery \in 0..nCodes
  /\ r.pc = "mail" \/ r.op = "reset" => r.link \in 1..nLinks
Fits(r) == FitsIn(r, Len(challenges), Len(sessions), Len(codes), Len(links))

Stores ==
  /\ password \in Nat /\ totp \in [secret : Nat, last : Nat]
  /\ pending \in Nat /\ secrets \in Nat /\ now \in Nat \ {0}
  /\ codes \in Seq(CodeRows) /\ challenges \in Seq(ChallengeRows)
  /\ fails \in [ip : Nat, user : Nat]
  /\ sessions \in Seq(SessionRows) /\ links \in Seq(LinkRows)
  /\ mailed \subseteq 1..Len(links)
  /\ requests \in 0..MaxRequests /\ faults \in 0..MaxFaults
  /\ tries \in Nat /\ marks \in Marks

Handled == req \in [Slots -> Requests] /\ \A s \in Slots : Fits(req[s])
Typed == Stores /\ Handled

(* No row is taken out of its table.                                        *)
Grow ==
  /\ Len(challenges) <= Len(challenges') /\ Len(sessions) <= Len(sessions')
  /\ Len(codes) <= Len(codes') /\ Len(links) <= Len(links')

LEMMA Lengths ==
  ASSUME Stores
  PROVE  /\ Len(challenges) \in Nat /\ Len(sessions) \in Nat /\ Len(codes) \in Nat /\ Len(links) \in Nat
         /\ DOMAIN challenges = 1..Len(challenges) /\ DOMAIN sessions = 1..Len(sessions)
         /\ DOMAIN codes = 1..Len(codes) /\ DOMAIN links = 1..Len(links)
         /\ \A i \in 1..Len(challenges) : challenges[i] \in ChallengeRows
         /\ \A i \in 1..Len(sessions) : sessions[i] \in SessionRows
         /\ \A i \in 1..Len(codes) : codes[i] \in CodeRows
         /\ \A i \in 1..Len(links) : links[i] \in LinkRows
BY LenProperties, ElementOfSeq DEF Stores

(* What a request refers to is still there when tables have grown.          *)
LEMMA FitsGrows ==
  ASSUME NEW r, NEW a \in Nat, NEW b \in Nat, NEW c \in Nat, NEW d \in Nat,
         NEW aa \in Nat, NEW bb \in Nat, NEW cc \in Nat, NEW dd \in Nat,
         a <= aa, b <= bb, c <= cc, d <= dd, FitsIn(r, a, b, c, d)
  PROVE  FitsIn(r, aa, bb, cc, dd)
<1>1. 1..a \subseteq 1..aa /\ 1..b \subseteq 1..bb /\ 0..c \subseteq 0..cc /\ 1..d \subseteq 1..dd
  OBVIOUS
<1> HIDE DEF InCourse
<1> QED BY <1>1 DEF FitsIn

(* The other requests fit as they did.                                      *)
LEMMA OthersFit ==
  ASSUME Stores, Stores', Handled, Grow, NEW s \in Slots, NEW x \in Requests,
         req' = [req EXCEPT ![s] = x],
         FitsIn(x, Len(challenges'), Len(sessions'), Len(codes'), Len(links'))
  PROVE  Handled'
<1>1. /\ Len(challenges) \in Nat /\ Len(sessions) \in Nat /\ Len(codes) \in Nat /\ Len(links) \in Nat
      /\ Len(challenges') \in Nat /\ Len(sessions') \in Nat /\ Len(codes') \in Nat /\ Len(links') \in Nat
  BY LenProperties DEF Stores
<1>2. ASSUME NEW t \in Slots
      PROVE  FitsIn(req'[t], Len(challenges'), Len(sessions'), Len(codes'), Len(links'))
  <2>1. CASE t = s
    BY <2>1 DEF Handled
  <2>2. CASE t # s
    <3>1. req'[t] = req[t] /\ Fits(req[t])
      BY <2>2 DEF Handled
    <3>2. /\ Len(challenges) <= Len(challenges') /\ Len(sessions) <= Len(sessions')
          /\ Len(codes) <= Len(codes') /\ Len(links) <= Len(links')
      BY DEF Grow
    <3>3. FitsIn(req[t], Len(challenges), Len(sessions), Len(codes), Len(links))
      BY <3>1 DEF Fits
    <3>4. FitsIn(req[t], Len(challenges'), Len(sessions'), Len(codes'), Len(links'))
      <4> HIDE DEF FitsIn
      <4> QED BY <1>1, <3>2, <3>3, FitsGrows
    <3> QED BY <3>1, <3>4
  <2> QED BY <2>1, <2>2
<1> QED BY <1>2 DEF Handled, Fits

(* Nor do any change when no request is handled.                            *)
LEMMA AllFit ==
  ASSUME Stores, Stores', Handled, Grow, UNCHANGED req
  PROVE  Handled'
<1>1. /\ Len(challenges) \in Nat /\ Len(sessions) \in Nat /\ Len(codes) \in Nat /\ Len(links) \in Nat
      /\ Len(challenges') \in Nat /\ Len(sessions') \in Nat /\ Len(codes') \in Nat /\ Len(links') \in Nat
  BY LenProperties DEF Stores
<1>2. /\ Len(challenges) <= Len(challenges') /\ Len(sessions) <= Len(sessions')
      /\ Len(codes) <= Len(codes') /\ Len(links) <= Len(links')
  BY DEF Grow
<1>3. ASSUME NEW t \in Slots
      PROVE  FitsIn(req[t], Len(challenges'), Len(sessions'), Len(codes'), Len(links'))
  <2>1. FitsIn(req[t], Len(challenges), Len(sessions), Len(codes), Len(links))
    BY DEF Handled, Fits
  <2> QED BY <1>1, <1>2, <2>1, FitsGrows
<1> QED BY <1>3 DEF Handled, Fits

(* A request is over.                                                       *)
LEMMA DoneFits ==
  ASSUME Stores, Stores', Handled, Grow, NEW s \in Slots, Done(s)
  PROVE  Handled'
<1>1. NoCode \in Codes /\ NoRequest \in Requests
  BY DEF NoCode, Codes, NoRequest, Requests, Ops, PCs
<1>2. Len(codes') \in Nat
  BY LenProperties DEF Stores
<1>3. FitsIn(NoRequest, Len(challenges'), Len(sessions'), Len(codes'), Len(links'))
  BY <1>2 DEF FitsIn, InCourse, NoRequest, NoCode
<1> QED BY <1>1, <1>3, OthersFit DEF Done

(* A request goes on.                                                       *)
LEMMA GoFits ==
  ASSUME Stores, Stores', Handled, Grow, NEW s \in Slots, NEW p \in PCs,
         Go(s, p), p # "mail", InCourse(req[s].op, p)
  PROVE  Handled'
<1> DEFINE x == [req[s] EXCEPT !.pc = p]
<1>1. req[s] \in Requests /\ Fits(req[s]) /\ x \in Requests
  BY DEF Handled, Requests
<1>2. req' = [req EXCEPT ![s] = x]
  BY DEF Go, Handled
<1>3. /\ Len(challenges) \in Nat /\ Len(sessions) \in Nat /\ Len(codes) \in Nat /\ Len(links) \in Nat
      /\ Len(challenges') \in Nat /\ Len(sessions') \in Nat /\ Len(codes') \in Nat /\ Len(links') \in Nat
  BY LenProperties DEF Stores
<1>4. x.link = req[s].link /\ x.op = req[s].op /\ x.pc = p /\ x.ch = req[s].ch /\ x.by = req[s].by /\ x.code = req[s].code
  BY <1>1 DEF Requests
<1> HIDE DEF x
<1>5. FitsIn(x, Len(challenges'), Len(sessions'), Len(codes'), Len(links'))
  <2>1. /\ Len(challenges) <= Len(challenges') /\ Len(sessions) <= Len(sessions')
        /\ Len(codes) <= Len(codes') /\ Len(links) <= Len(links')
    BY DEF Grow
  <2>2. FitsIn(x, Len(challenges), Len(sessions), Len(codes), Len(links))
    BY <1>1, <1>4 DEF Fits, FitsIn
  <2> QED BY <1>3, <2>1, <2>2, FitsGrows
<1> QED BY <1>1, <1>2, <1>5, OthersFit DEF x

LEMMA TypedIsTypeOK == Typed => TypeOK
<1> SUFFICES ASSUME Typed PROVE TypeOK
  OBVIOUS
<1>1. DOMAIN links = 1..Len(links)
  BY Lengths DEF Typed
<1> QED BY <1>1 DEF Typed, Stores, Handled, TypeOK, CodeRows, ChallengeRows, SessionRows, LinkRows, Marks

LEMMA TypeInit == Init => Typed
<1> SUFFICES ASSUME Init PROVE Typed
  OBVIOUS
<1>1. NoCode \in Codes /\ NoRequest \in Requests
  BY DEF NoCode, Codes, NoRequest, Requests, Ops, PCs
<1>2. codes \in Seq(CodeRows) /\ Len(codes) \in Nat
  <2>1. PICK on \in BOOLEAN : codes = IF on THEN <<NewCode>> ELSE <<>>
    BY DEF Init
  <2>2. NewCode \in CodeRows
    BY DEF NewCode, CodeRows
  <2>3. <<>> \in Seq(CodeRows) /\ <<NewCode>> \in Seq(CodeRows)
    BY <2>2
  <2> QED BY <2>1, <2>3, LenProperties
<1>3. /\ sessions \in Seq(SessionRows) /\ Len(sessions) = 1
  BY DEF Init, SessionRows
<1>4. challenges \in Seq(ChallengeRows) /\ links \in Seq(LinkRows) /\ Len(challenges) = 0 /\ Len(links) = 0
  BY EmptySeq DEF Init
<1>5. Stores
  BY <1>2, <1>3, <1>4, LimitAssumption DEF Init, Stores, Marks
<1>6. Fits(NoRequest)
  BY <1>2, <1>3, <1>4 DEF Fits, FitsIn, InCourse, NoRequest, NoCode
<1>7. Handled
  BY <1>1, <1>6 DEF Init, Handled
<1> QED BY <1>5, <1>7 DEF Typed

-----------------------------------------------------------------------------
(* Every step keeps the types: first those that leave the rows alone.       *)
LEMMA Unread ==
  ASSUME Stores, UNCHANGED <<storeVars, mailed>>, now' \in Nat \ {0},
         requests' \in 0..MaxRequests, faults' \in 0..MaxFaults, tries' \in Nat, marks' \in Marks
  PROVE  Stores' /\ Grow
BY Lengths DEF Stores, Grow, storeVars

LEMMA BeginTyped ==
  ASSUME Typed, NEW s \in Slots, NEW r \in Requests, Begin(s, r), Fits(r)
  PROVE  Typed'
<1>1. requests' \in 0..MaxRequests
  BY LimitAssumption DEF Typed, Stores, Begin
<1>2. Stores' /\ Grow
  BY <1>1, Unread DEF Typed, Stores, Begin, historyVars
<1>3. UNCHANGED <<challenges, sessions, codes, links>>
  BY DEF Begin, storeVars
<1>4. Handled'
  BY <1>2, <1>3, OthersFit DEF Typed, Begin, Fits
<1> QED BY <1>2, <1>4 DEF Typed

LEMMA CodesTyped ==
  ASSUME Stores, NEW code \in TypedCodes
  PROVE  code \in Codes /\ code.recovery \in 0..Len(codes)
<1>1. DOMAIN codes = 1..Len(codes) /\ Len(codes) \in Nat
  BY Lengths
<1>2. CASE code = NoCode
  BY <1>1, <1>2 DEF NoCode, Codes
<1>3. ASSUME NEW k \in {now - 1, now, now + 1} \ {0},
             code = [secret |-> totp.secret, step |-> k, recovery |-> 0]
      PROVE  code \in Codes /\ code.recovery \in 0..Len(codes)
  <2>1. k \in Nat /\ totp.secret \in Nat
    BY DEF Stores
  <2> QED BY <1>1, <1>3, <2>1 DEF Codes
<1>4. ASSUME NEW c \in DOMAIN codes, code = [NoCode EXCEPT !.recovery = c]
      PROVE  code \in Codes /\ code.recovery \in 0..Len(codes)
  BY <1>1, <1>4 DEF NoCode, Codes
<1> QED BY <1>2, <1>3, <1>4 DEF TypedCodes

(* What a request comes with.                                               *)
LEMMA Blank ==
  /\ NoRequest \in Requests
  /\ NoRequest.op = "none" /\ NoRequest.pc = "idle" /\ NoRequest.by = 0 /\ NoRequest.pw = 0
  /\ NoRequest.code = NoCode /\ NoRequest.ch = 0
  /\ NoCode \in Codes /\ NoCode.recovery = 0
BY DEF NoRequest, NoCode, Requests, Codes, Ops, PCs

(* Where a request begins.                                                  *)
Starts(r) ==
  /\ r.pc \in {"limit", "peek", "pending", "password", "find", "off"}
  /\ r.pc = "password" => r.op \in {"disable", "regenerate"}
  /\ r.op # "reset"

(* What a request begins with.                                              *)
LEMMA Begun ==
  ASSUME NEW s \in Slots, Request(s)
  PROVE  Setup(s) \/ Logout(s)
         \/ \E r : Begin(s, r) /\ Starts(r)
<1>1. ASSUME RequestLogin(s)
      PROVE  \E r : Begin(s, r) /\ Starts(r)
  <2>1. PICK v \in TypedPasswords :
          Begin(s, [NoRequest EXCEPT !.op = "login", !.pc = "limit", !.pw = v])
    BY <1>1 DEF RequestLogin
  <2>2. Starts([NoRequest EXCEPT !.op = "login", !.pc = "limit", !.pw = v])
    BY Blank DEF Requests, Starts
  <2> QED BY <2>1, <2>2
<1>2. ASSUME RequestLogin2FA(s)
      PROVE  \E r : Begin(s, r) /\ Starts(r)
  <2>1. PICK c \in DOMAIN challenges, code \in TypedCodes :
          Begin(s, [NoRequest EXCEPT !.op = "login2fa", !.pc = "peek", !.ch = c, !.code = code])
    BY <1>2 DEF RequestLogin2FA
  <2>2. Starts([NoRequest EXCEPT !.op = "login2fa", !.pc = "peek", !.ch = c, !.code = code])
    BY Blank DEF Requests, Starts
  <2> QED BY <2>1, <2>2
<1>3. ASSUME RequestEnable(s)
      PROVE  \E r : Begin(s, r) /\ Starts(r)
  <2>1. PICK k \in {now, now + 1} :
          Begin(s, [NoRequest EXCEPT !.op = "enable", !.pc = "pending",
                    !.code = [secret |-> pending, step |-> k, recovery |-> 0]])
    BY <1>3 DEF RequestEnable, BeginSignedIn
  <2>2. Starts([NoRequest EXCEPT !.op = "enable", !.pc = "pending",
                    !.code = [secret |-> pending, step |-> k, recovery |-> 0]])
    BY Blank DEF Requests, Starts
  <2> QED BY <2>1, <2>2
<1>4. ASSUME RequestConfirmed(s)
      PROVE  \E r : Begin(s, r) /\ Starts(r)
  <2>1. PICK op \in {"disable", "regenerate"}, v \in TypedPasswords, code \in TypedCodes :
          Begin(s, [NoRequest EXCEPT !.op = op, !.pc = "password", !.pw = v, !.code = code])
    BY <1>4 DEF RequestConfirmed, BeginSignedIn
  <2>2. Starts([NoRequest EXCEPT !.op = op, !.pc = "password", !.pw = v, !.code = code])
    BY Blank DEF Requests, Starts
  <2> QED BY <2>1, <2>2
<1>5. ASSUME RequestChangePassword(s)
      PROVE  \E r : Begin(s, r) /\ Starts(r)
  <2>1. PICK x \in LiveSessions, v \in TypedPasswords :
          Begin(s, [NoRequest EXCEPT !.op = "password", !.pc = "limit", !.by = x, !.pw = v])
    BY <1>5 DEF RequestChangePassword
  <2>2. Starts([NoRequest EXCEPT !.op = "password", !.pc = "limit", !.by = x, !.pw = v])
    BY Blank DEF Requests, Starts
  <2> QED BY <2>1, <2>2
<1>6. ASSUME RequestChangeEmail(s)
      PROVE  \E r : Begin(s, r) /\ Starts(r)
  <2>1. PICK v \in TypedPasswords :
          Begin(s, [NoRequest EXCEPT !.op = "email", !.pc = "limit", !.pw = v])
    BY <1>6 DEF RequestChangeEmail, BeginSignedIn
  <2>2. Starts([NoRequest EXCEPT !.op = "email", !.pc = "limit", !.pw = v])
    BY Blank DEF Requests, Starts
  <2> QED BY <2>1, <2>2
<1>7. ASSUME RequestForgot(s)
      PROVE  \E r : Begin(s, r) /\ Starts(r)
  <2>2. Starts([NoRequest EXCEPT !.op = "forgot", !.pc = "find"])
    BY Blank DEF Requests, Starts
  <2> QED BY <1>7, <2>2 DEF RequestForgot
<1>8. ASSUME RequestAdminDisable(s)
      PROVE  \E r : Begin(s, r) /\ Starts(r)
  <2>2. Starts([NoRequest EXCEPT !.op = "admin", !.pc = "off"])
    BY Blank DEF Requests, Starts
  <2> QED BY <1>8, <2>2 DEF RequestAdminDisable
<1> QED BY <1>1, <1>2, <1>3, <1>4, <1>5, <1>6, <1>7, <1>8 DEF Request

LEMMA RequestTyped ==
  ASSUME Typed, NEW s \in Slots, Request(s)
  PROVE  Typed'
<1> USE DEF Typed
<1>0. /\ NoCode \in Codes /\ NoCode.recovery \in 0..Len(codes)
      /\ DOMAIN challenges = 1..Len(challenges) /\ Len(challenges) \in Nat
      /\ DOMAIN sessions = 1..Len(sessions) /\ Len(sessions) \in Nat /\ Len(codes) \in Nat
      /\ \A v \in TypedPasswords : v \in Nat
  BY Lengths DEF NoCode, Codes, TypedPasswords, Stores
<1>1. CASE RequestLogin(s)
  <2>1. PICK v \in TypedPasswords :
          Begin(s, [NoRequest EXCEPT !.op = "login", !.pc = "limit", !.pw = v])
    BY <1>1 DEF RequestLogin
  <2> DEFINE r == [NoRequest EXCEPT !.op = "login", !.pc = "limit", !.pw = v]
  <2>2. r \in Requests /\ Fits(r)
    <3>1. /\ r \in Requests /\ r.op = "login" /\ r.pc = "limit" /\ r.by = 0
          /\ r.code = NoCode /\ r.ch = 0
      BY <1>0, Blank DEF Requests, Ops, PCs
    <3> HIDE DEF r
    <3> QED BY <3>1, <1>0, Blank DEF Fits, FitsIn, InCourse
  <2> QED BY <2>1, <2>2, BeginTyped
<1>2. CASE RequestLogin2FA(s)
  <2>1. PICK c \in DOMAIN challenges, code \in TypedCodes :
          Begin(s, [NoRequest EXCEPT !.op = "login2fa", !.pc = "peek", !.ch = c, !.code = code])
    BY <1>2 DEF RequestLogin2FA
  <2> DEFINE r == [NoRequest EXCEPT !.op = "login2fa", !.pc = "peek", !.ch = c, !.code = code]
  <2>2. r \in Requests /\ Fits(r)
    <3>0. c \in Nat /\ code \in Codes /\ code.recovery \in 0..Len(codes)
      BY <1>0, CodesTyped
    <3>1. /\ r \in Requests /\ r.op = "login2fa" /\ r.pc = "peek" /\ r.by = 0
          /\ r.code = code /\ r.ch = c
      BY <3>0, Blank DEF Requests, Ops, PCs
    <3> HIDE DEF r
    <3> QED BY <3>0, <3>1, <1>0, Blank DEF Fits, FitsIn, InCourse
  <2> QED BY <2>1, <2>2, BeginTyped
<1>3. CASE Setup(s)
  <2>1. Stores' /\ Grow
    BY <1>3, LimitAssumption, Lengths DEF Setup, Stores, Grow, historyVars
  <2> QED BY <2>1, <1>3, AllFit DEF Setup
<1>4. CASE RequestEnable(s)
  <2>1. PICK k \in {now, now + 1} :
          Begin(s, [NoRequest EXCEPT !.op = "enable", !.pc = "pending",
                      !.code = [secret |-> pending, step |-> k, recovery |-> 0]])
    BY <1>4 DEF RequestEnable, BeginSignedIn
  <2> DEFINE e == [secret |-> pending, step |-> k, recovery |-> 0]
             r == [NoRequest EXCEPT !.op = "enable", !.pc = "pending", !.code = e]
  <2>2. e \in Codes /\ e.recovery \in 0..Len(codes)
    BY <1>0 DEF Stores, Codes
  <2> HIDE DEF e
  <2>3. r \in Requests /\ Fits(r)
    <3>1. /\ r \in Requests /\ r.op = "enable" /\ r.pc = "pending" /\ r.by = 0
          /\ r.code = e /\ r.ch = 0
      BY <2>2, <1>0, Blank DEF Requests, Ops, PCs
    <3> HIDE DEF r
    <3> QED BY <3>1, <2>2, <1>0, Blank DEF Fits, FitsIn, InCourse
  <2> QED BY <2>1, <2>3, BeginTyped DEF e
<1>5. CASE RequestConfirmed(s)
  <2>1. PICK op \in {"disable", "regenerate"}, v \in TypedPasswords, code \in TypedCodes :
          Begin(s, [NoRequest EXCEPT !.op = op, !.pc = "password", !.pw = v, !.code = code])
    BY <1>5 DEF RequestConfirmed, BeginSignedIn
  <2> DEFINE r == [NoRequest EXCEPT !.op = op, !.pc = "password", !.pw = v, !.code = code]
  <2>2. r \in Requests /\ Fits(r)
    <3>1. /\ r \in Requests /\ r.op = op /\ r.pc = "password" /\ r.by = 0
          /\ r.code = code /\ r.ch = 0
      BY <1>0, CodesTyped, Blank DEF Requests, Ops, PCs
    <3> HIDE DEF r
    <3> QED BY <3>1, <1>0, CodesTyped, Blank DEF Fits, FitsIn, InCourse
  <2> QED BY <2>1, <2>2, BeginTyped
<1>6. CASE RequestChangePassword(s)
  <2>1. PICK x \in LiveSessions, v \in TypedPasswords :
          Begin(s, [NoRequest EXCEPT !.op = "password", !.pc = "limit", !.by = x, !.pw = v])
    BY <1>6 DEF RequestChangePassword
  <2> DEFINE r == [NoRequest EXCEPT !.op = "password", !.pc = "limit", !.by = x, !.pw = v]
  <2>2. x \in 1..Len(sessions)
    BY <1>0 DEF LiveSessions
  <2>3. r \in Requests /\ Fits(r)
    <3>0. x \in Nat /\ v \in Nat
      BY <2>2, <1>0
    <3>1. /\ r \in Requests /\ r.op = "password" /\ r.pc = "limit" /\ r.by = x
          /\ r.code = NoCode /\ r.ch = 0
      BY <3>0, Blank DEF Requests, Ops, PCs
    <3> HIDE DEF r
    <3> QED BY <3>1, <2>2, <1>0, Blank DEF Fits, FitsIn, InCourse
  <2> QED BY <2>1, <2>3, BeginTyped
<1>7. CASE RequestChangeEmail(s)
  <2>1. PICK v \in TypedPasswords :
          Begin(s, [NoRequest EXCEPT !.op = "email", !.pc = "limit", !.pw = v])
    BY <1>7 DEF RequestChangeEmail, BeginSignedIn
  <2> DEFINE r == [NoRequest EXCEPT !.op = "email", !.pc = "limit", !.pw = v]
  <2>2. r \in Requests /\ Fits(r)
    <3>1. /\ r \in Requests /\ r.op = "email" /\ r.pc = "limit" /\ r.by = 0
          /\ r.code = NoCode /\ r.ch = 0
      BY <1>0, Blank DEF Requests, Ops, PCs
    <3> HIDE DEF r
    <3> QED BY <3>1, <1>0, Blank DEF Fits, FitsIn, InCourse
  <2> QED BY <2>1, <2>2, BeginTyped
<1>8. CASE RequestForgot(s)
  <2> DEFINE r == [NoRequest EXCEPT !.op = "forgot", !.pc = "find"]
  <2>1. r \in Requests /\ Fits(r)
    <3>1. /\ r \in Requests /\ r.op = "forgot" /\ r.pc = "find" /\ r.by = 0
          /\ r.code = NoCode /\ r.ch = 0
      BY <1>0, Blank DEF Requests, Ops, PCs
    <3> HIDE DEF r
    <3> QED BY <3>1, <1>0, Blank DEF Fits, FitsIn, InCourse
  <2> QED BY <1>8, <2>1, BeginTyped DEF RequestForgot
<1>9. CASE RequestAdminDisable(s)
  <2> DEFINE r == [NoRequest EXCEPT !.op = "admin", !.pc = "off"]
  <2>1. r \in Requests /\ Fits(r)
    <3>1. /\ r \in Requests /\ r.op = "admin" /\ r.pc = "off" /\ r.by = 0
          /\ r.code = NoCode /\ r.ch = 0
      BY <1>0, Blank DEF Requests, Ops, PCs
    <3> HIDE DEF r
    <3> QED BY <3>1, <1>0, Blank DEF Fits, FitsIn, InCourse
  <2> QED BY <1>9, <2>1, BeginTyped DEF RequestAdminDisable
<1>10. CASE Logout(s)
  <2>1. PICK x \in LiveSessions : sessions' = [sessions EXCEPT ![x].live = FALSE]
    BY <1>10 DEF Logout
  <2>2. sessions' \in Seq(SessionRows) /\ Len(sessions') = Len(sessions)
    BY <2>1, <1>0, SessionsChange DEF LiveSessions, Stores
  <2>3. Stores' /\ Grow
    <3>1. requests < MaxRequests /\ requests' = requests + 1
      BY <1>10 DEF Logout
    <3>2. requests' \in 0..MaxRequests
      BY <3>1, LimitAssumption DEF Stores
    <3> QED BY <1>10, <2>2, <3>2, Lengths DEF Logout, Stores, Grow, historyVars
  <2> QED BY <2>3, <1>10, AllFit DEF Logout
<1> QED BY <1>1, <1>2, <1>3, <1>4, <1>5, <1>6, <1>7, <1>8, <1>9, <1>10 DEF Request

(* Steps of a request that change no row: it goes on, or it is over.        *)
LEMMA OnlyRequest ==
  ASSUME Typed, NEW s \in Slots, UNCHANGED <<storeVars, mailed, now, requests>>,
         faults' \in 0..MaxFaults, tries' \in Nat, marks' \in Marks,
         \/ Done(s)
         \/ \E p \in PCs \ {"mail"} : Go(s, p) /\ InCourse(req[s].op, p)
  PROVE  Typed'
<1>1. Stores' /\ Grow
  BY Unread DEF Typed, Stores
<1>2. CASE Done(s)
  BY <1>1, <1>2, DoneFits DEF Typed
<1>3. CASE \E p \in PCs \ {"mail"} : Go(s, p) /\ InCourse(req[s].op, p)
  BY <1>1, <1>3, GoFits DEF Typed
<1> QED BY <1>2, <1>3

LEMMA RequestFits ==
  ASSUME Typed, NEW s \in Slots
  PROVE  req[s] \in Requests /\ Fits(req[s]) /\ req[s].op \in Ops /\ InCourse(req[s].op, req[s].pc)
         /\ tries \in Nat /\ tries + 1 \in Nat /\ marks \in Marks /\ faults \in 0..MaxFaults
<1>1. req[s] \in Requests /\ Fits(req[s])
  BY DEF Typed, Handled
<1>2. req[s].op \in Ops
  BY <1>1 DEF Requests
<1>3. InCourse(req[s].op, req[s].pc)
  BY <1>1 DEF Fits, FitsIn
<1>4. tries \in Nat /\ tries + 1 \in Nat /\ marks \in Marks /\ faults \in 0..MaxFaults
  BY DEF Typed, Stores
<1> QED BY <1>1, <1>2, <1>3, <1>4

(* A recovery code that is looked up has a row.                             *)
LEMMA GivenCode ==
  ASSUME Typed, NEW s \in Slots, UseRecoveryCode(s)
  PROVE  req[s].code.recovery \in 1..Len(codes)
<1>1. req[s].code.recovery \in 0..Len(codes)
  BY RequestFits DEF Fits, FitsIn
<1>2. req[s].code.recovery # 0
  BY DEF UseRecoveryCode
<1>3. Len(codes) \in Nat
  BY Lengths DEF Typed
<1> QED BY <1>1, <1>2, <1>3

(* The limiter.                                                             *)
LEMMA LimiterTyped ==
  ASSUME Typed, NEW s \in Slots,
         AskLimiter(s) \/ RecordFailure(s) \/ RecordSuccess(s) \/ LimiterFails(s)
  PROVE  Typed'
<1>0. /\ Guarded[req[s].op] \in PCs \ {"mail"} /\ InCourse(req[s].op, Guarded[req[s].op])
      \/ ~At(s, "limit")
  BY RequestFits DEF At, Guarded, PCs, InCourse
<1>1. CASE AskLimiter(s)
  <2>1. Done(s) \/ \E p \in PCs \ {"mail"} : Go(s, p) /\ InCourse(req[s].op, p)
    BY <1>0, <1>1 DEF AskLimiter
  <2> QED BY <1>1, <2>1, OnlyRequest, RequestFits DEF AskLimiter, historyVars
<1>2. ASSUME At(s, "fail"), Done(s), fails' \in [ip : Nat, user : Nat], faults' \in 0..MaxFaults,
             marks' \in Marks, tries' \in Nat,
             UNCHANGED <<password, totp, pending, secrets, now, codes, challenges, sessions, links,
                         mailed, requests>>
      PROVE  Typed'
  <2>1. Stores' /\ Grow
    BY <1>2, Lengths DEF Typed, Stores, Grow
  <2> QED BY <1>2, <2>1, DoneFits DEF Typed
<1>3. ASSUME At(s, "success"), Go(s, "session"), fails' \in [ip : Nat, user : Nat],
             faults' \in 0..MaxFaults, marks' \in Marks, tries' \in Nat,
             UNCHANGED <<password, totp, pending, secrets, now, codes, challenges, sessions, links,
                         mailed, requests>>
      PROVE  Typed'
  <2>1. Stores' /\ Grow
    BY <1>3, Lengths DEF Typed, Stores, Grow
  <2>2. InCourse(req[s].op, "session")
    BY <1>3, RequestFits DEF At, InCourse
  <2> QED BY <1>3, <2>1, <2>2, GoFits DEF Typed, PCs
<1>4. fails.ip \in Nat /\ fails.user \in Nat /\ fails \in [ip : Nat, user : Nat]
  BY DEF Typed, Stores
<1>5. CASE RecordFailure(s)
  <2>1. fails' \in [ip : Nat, user : Nat]
    BY <1>4, <1>5 DEF RecordFailure
  <2> QED BY <1>2, <1>5, <2>1, RequestFits DEF RecordFailure, historyVars
<1>6. CASE RecordSuccess(s)
  <2>1. fails' \in [ip : Nat, user : Nat]
    BY <1>4, <1>6 DEF RecordSuccess
  <2> QED BY <1>3, <1>6, <2>1, RequestFits DEF RecordSuccess
<1>7. CASE LimiterFails(s)
  <2>1. faults' \in 0..MaxFaults
    BY <1>7, LimitAssumption, RequestFits DEF LimiterFails
  <2>2. [marks EXCEPT !.uncounted = TRUE] \in Marks
    BY RequestFits DEF Marks
  <2>3. CASE At(s, "limit") /\ Go(s, Guarded[req[s].op])
              /\ marks' = [marks EXCEPT !.uncounted = TRUE] /\ UNCHANGED <<fails, tries>>
    <3>1. \E p \in PCs \ {"mail"} : Go(s, p) /\ InCourse(req[s].op, p)
      BY <1>0, <2>3
    <3> QED BY <1>7, <2>1, <2>2, <2>3, <3>1, OnlyRequest, RequestFits DEF LimiterFails, storeVars
  <2>4. CASE At(s, "fail") /\ Done(s)
              /\ marks' = [marks EXCEPT !.uncounted = TRUE] /\ UNCHANGED tries
              /\ fails' \in {fails, [fails EXCEPT !.ip = @ + 1]}
    <3>1. fails' \in [ip : Nat, user : Nat]
      BY <1>4, <2>4
    <3> QED BY <1>2, <1>7, <2>1, <2>2, <2>4, <3>1, RequestFits DEF LimiterFails
  <2>5. CASE At(s, "success") /\ Go(s, "session") /\ UNCHANGED <<fails, tries, marks>>
    BY <1>3, <1>4, <1>7, <2>1, <2>5, RequestFits DEF LimiterFails
  <2> QED BY <1>7, <2>3, <2>4, <2>5 DEF LimiterFails
<1> QED BY <1>1, <1>5, <1>6, <1>7

(* What is checked without a row being changed.                             *)
LEMMA CheckTyped ==
  ASSUME Typed, NEW s \in Slots,
         \/ CheckPassword(s) \/ Peek(s) \/ VerifyCode(s) \/ FindRows(s) \/ LockRows(s)
         \/ ReadPending(s) \/ CallFails(s)
  PROVE  Typed'
<1>1. CASE CheckPassword(s)
  <2>1. At(s, "password") /\ req[s].op \in {"login", "password", "email", "disable", "regenerate"}
    BY <1>1, RequestFits DEF CheckPassword, At, InCourse
  <2>2. \A p \in {"issue", "success"} : req[s].op = "login" => InCourse(req[s].op, p)
    BY DEF InCourse
  <2>3. Done(s) \/ \E p \in PCs \ {"mail"} : Go(s, p) /\ InCourse(req[s].op, p)
    BY <1>1, <2>1 DEF CheckPassword, InCourse, PCs
  <2>4. tries' \in Nat
    BY <1>1, RequestFits DEF CheckPassword
  <2> QED BY <1>1, <2>3, <2>4, OnlyRequest, RequestFits DEF CheckPassword
<1>2. CASE Peek(s)
  <2>1. Done(s) \/ (Go(s, "limit") /\ InCourse(req[s].op, "limit"))
    BY <1>2, RequestFits DEF Peek, At, InCourse
  <2>2. "limit" \in PCs \ {"mail"}
    BY DEF PCs
  <2> QED BY <1>2, <2>1, <2>2, OnlyRequest, RequestFits DEF Peek, historyVars
<1>3. CASE VerifyCode(s)
  <2>1. req[s].op \in {"login2fa", "disable", "regenerate"} /\ {"accept", "miss"} \subseteq PCs \ {"mail"}
    BY <1>3, RequestFits DEF VerifyCode, At, InCourse, PCs
  <2>2. /\ Done(s) \/ \E p \in PCs \ {"mail"} : Go(s, p) /\ InCourse(req[s].op, p)
        /\ tries' \in Nat
    BY <1>3, <2>1, RequestFits DEF VerifyCode, IsWrong, InCourse
  <2> QED BY <1>3, <2>2, OnlyRequest, RequestFits DEF VerifyCode
<1>4. CASE FindRows(s)
  <2> DEFINE rows == IF req[s].op = "regenerate" THEN LiveCodes ELSE LiveLinks(Purpose(s))
             x == [req[s] EXCEPT !.pc = "lock", !.rows = rows]
  <2>1. rows \subseteq Nat
    BY Lengths DEF LiveCodes, LiveLinks, Typed
  <2>2. Stores' /\ Grow /\ UNCHANGED <<challenges, sessions, codes, links>>
    BY <1>4, Unread DEF FindRows, Typed, Stores, historyVars, storeVars
  <2>3. req' = [req EXCEPT ![s] = x]
    BY <1>4 DEF FindRows
  <2> HIDE DEF rows
  <2>4. x \in Requests /\ x.pc = "lock" /\ x.op = req[s].op /\ x.ch = req[s].ch /\ x.by = req[s].by
        /\ x.code = req[s].code /\ req[s].pc = "find"
    BY <1>4, <2>1, RequestFits DEF Requests, PCs, FindRows, At
  <2> HIDE DEF x
  <2>5. Fits(x)
    BY <2>4, RequestFits DEF Fits, FitsIn, InCourse
  <2> QED BY <2>2, <2>3, <2>4, <2>5, OthersFit DEF Fits, Typed
<1>5. CASE LockRows(s)
  <2>1. InCourse(req[s].op, "replace") /\ "replace" \in PCs \ {"mail"}
    BY <1>5, RequestFits DEF InCourse, PCs, LockRows, At
  <2> QED BY <1>5, <2>1, OnlyRequest, RequestFits DEF LockRows, historyVars
<1>6. CASE ReadPending(s)
  <2>1. CASE Done(s)
    BY <1>6, <2>1, OnlyRequest, RequestFits DEF ReadPending, historyVars
  <2>2. CASE req' = [req EXCEPT ![s].pc = "enable", ![s].secret = pending]
    <3> DEFINE x == [req[s] EXCEPT !.pc = "enable", !.secret = pending]
    <3>1. Stores' /\ Grow /\ UNCHANGED <<challenges, sessions, codes, links>>
      BY <1>6, Unread DEF ReadPending, Typed, Stores, historyVars, storeVars
    <3>2. req' = [req EXCEPT ![s] = x]
      BY <2>2
    <3>3. x \in Requests /\ x.pc = "enable" /\ x.op = req[s].op /\ x.ch = req[s].ch
          /\ x.by = req[s].by /\ x.code = req[s].code
      <4>1. req[s] \in Requests /\ pending \in Nat
        BY RequestFits DEF Typed, Stores
      <4>2. "enable" \in PCs
        BY DEF PCs
      <4>3. x \in Requests
        BY <4>1, <4>2 DEF Requests
      <4>4. x.pc = "enable" /\ x.op = req[s].op /\ x.ch = req[s].ch
            /\ x.by = req[s].by /\ x.code = req[s].code
        BY <4>1 DEF Requests
      <4> HIDE DEF x
      <4> QED BY <4>3, <4>4
    <3> HIDE DEF x
    <3>4. req[s].pc = "pending"
      BY <1>6 DEF ReadPending, At
    <3>5. Fits(x)
      BY <3>3, <3>4, RequestFits DEF Fits, FitsIn, InCourse
    <3> QED BY <3>1, <3>2, <3>3, <3>5, OthersFit DEF Fits, Typed
  <2> QED BY <1>6, <2>1, <2>2 DEF ReadPending
<1>7. CASE CallFails(s)
  <2>1. faults' \in 0..MaxFaults
    BY <1>7, LimitAssumption, RequestFits DEF CallFails
  <2>2. marks' \in Marks
    BY <1>7, RequestFits DEF CallFails, Marks
  <2> QED BY <1>7, <2>1, <2>2, OnlyRequest, RequestFits DEF CallFails
<1> QED BY <1>1, <1>2, <1>3, <1>4, <1>5, <1>6, <1>7

(* Challenges and sessions.                                                 *)
LEMMA ChallengeTyped ==
  ASSUME Typed, NEW s \in Slots, IssueChallenge(s) \/ FailChallenge(s) \/ Consume(s)
  PROVE  Typed'
<1>1. ASSUME challenges' \in Seq(ChallengeRows), Len(challenges) <= Len(challenges'),
             UNCHANGED <<password, totp, pending, secrets, now, codes, fails, sessions, links,
                         mailed, requests, faults, historyVars>>
      PROVE  Stores' /\ Grow
  BY <1>1, Lengths DEF Typed, Stores, Grow, historyVars
<1>2. CASE IssueChallenge(s)
  <2> DEFINE e == [live |-> TRUE, failures |-> 0, pw |-> req[s].pw]
  <2>1. e \in ChallengeRows
    BY RequestFits DEF Requests, ChallengeRows
  <2> HIDE DEF e
  <2>2. challenges' = Append(challenges, e)
    BY <1>2 DEF IssueChallenge, e
  <2>3. challenges' \in Seq(ChallengeRows) /\ Len(challenges) <= Len(challenges')
    BY <2>1, <2>2, Added DEF Typed, Stores
  <2>4. Stores' /\ Grow
    BY <1>1, <1>2, <2>3 DEF IssueChallenge
  <2> QED BY <1>2, <2>4, DoneFits DEF Typed, IssueChallenge
<1>3. CASE FailChallenge(s)
  <2>1. req[s].op = "login2fa" /\ req[s].ch \in 1..Len(challenges)
    BY <1>3, RequestFits DEF FailChallenge, At, Fits, FitsIn, InCourse
  <2> DEFINE c == req[s].ch
             n == challenges[c].failures + 1
             b == n < MaxFailures
  <2>2. n \in Nat /\ b \in BOOLEAN
    <3>1. challenges[c] \in ChallengeRows
      BY <2>1, Lengths DEF Typed
    <3> QED BY <3>1, LimitAssumption DEF ChallengeRows
  <2>3. \/ challenges' = challenges
        \/ challenges' = [challenges EXCEPT ![c].failures = n, ![c].live = b]
    BY <1>3 DEF FailChallenge
  <2> HIDE DEF c, n, b
  <2>4. challenges' \in Seq(ChallengeRows) /\ Len(challenges') = Len(challenges)
    <3>1. challenges \in Seq(ChallengeRows) /\ c \in 1..Len(challenges)
      BY <2>1 DEF c, Typed, Stores
    <3>2. /\ [challenges EXCEPT ![c].failures = n, ![c].live = b] \in Seq(ChallengeRows)
          /\ Len([challenges EXCEPT ![c].failures = n, ![c].live = b]) = Len(challenges)
      BY <2>2, <3>1, ChallengeMissed
    <3> QED BY <2>3, <3>1, <3>2
  <2>5. Stores' /\ Grow
    BY <1>1, <1>3, <2>4, Lengths DEF FailChallenge, Typed
  <2>6. InCourse(req[s].op, "fail") /\ "fail" \in PCs \ {"mail"}
    BY <2>1 DEF InCourse, PCs
  <2> QED BY <1>3, <2>5, <2>6, GoFits DEF Typed, FailChallenge
<1>4. CASE Consume(s)
  <2>1. req[s].op = "login2fa" /\ req[s].ch \in 1..Len(challenges)
    BY <1>4, RequestFits DEF Consume, At, Fits, FitsIn, InCourse
  <2>2. challenges' = challenges \/ challenges' = [challenges EXCEPT ![req[s].ch].live = FALSE]
    BY <1>4 DEF Consume
  <2>3. challenges' \in Seq(ChallengeRows) /\ Len(challenges') = Len(challenges)
    <3>1. challenges \in Seq(ChallengeRows)
      BY DEF Typed, Stores
    <3>2. /\ [challenges EXCEPT ![req[s].ch].live = FALSE] \in Seq(ChallengeRows)
          /\ Len([challenges EXCEPT ![req[s].ch].live = FALSE]) = Len(challenges)
      BY <2>1, <3>1, ChallengeEnds
    <3> QED BY <2>2, <3>1, <3>2
  <2>4. Stores' /\ Grow
    BY <1>1, <1>4, <2>3, Lengths DEF Consume, Typed
  <2>5. CASE Done(s)
    BY <2>4, <2>5, DoneFits DEF Typed
  <2>6. CASE req' = [req EXCEPT ![s].pc = "success", ![s].pw = challenges[req[s].ch].pw]
    <3> DEFINE v == challenges[req[s].ch].pw
               x == [req[s] EXCEPT !.pc = "success", !.pw = v]
    <3>1. v \in Nat
      BY <2>1, Lengths DEF Typed, ChallengeRows
    <3> HIDE DEF v
    <3>2. req' = [req EXCEPT ![s] = x]
      BY <2>6 DEF v
    <3>3. x \in Requests /\ x.pc = "success" /\ x.op = req[s].op /\ x.ch = req[s].ch
          /\ x.by = req[s].by /\ x.code = req[s].code
      BY <3>1, RequestFits DEF Requests, PCs
    <3> HIDE DEF x
    <3>4. Fits(x)
      BY <2>1, <3>3, RequestFits DEF Fits, FitsIn, InCourse
    <3>5. Len(sessions') = Len(sessions) /\ Len(codes') = Len(codes) /\ Len(links') = Len(links)
      BY <1>4, <3>4 DEF Consume, Fits
    <3>6. FitsIn(x, Len(challenges'), Len(sessions'), Len(codes'), Len(links'))
      BY <2>3, <3>4, <3>5 DEF Fits
    <3> QED BY <2>4, <3>2, <3>3, <3>6, OthersFit DEF Typed
  <2> QED BY <1>4, <2>5, <2>6 DEF Consume
<1> QED BY <1>2, <1>3, <1>4

LEMMA SessionTyped ==
  ASSUME Typed, NEW s \in Slots, CreateSession(s) \/ SetPassword(s) \/ RevokeUserSessions(s)
  PROVE  Typed'
<1>1. ASSUME sessions' \in Seq(SessionRows), Len(sessions) <= Len(sessions'), password' \in Nat,
             UNCHANGED <<totp, pending, secrets, now, codes, challenges, fails, links, mailed,
                         requests, faults, historyVars>>
      PROVE  Stores' /\ Grow
  BY <1>1, Lengths DEF Typed, Stores, Grow, historyVars
<1>2. password \in Nat /\ sessions \in Seq(SessionRows) /\ Len(sessions) \in Nat
  BY Lengths DEF Typed, Stores
<1>3. CASE CreateSession(s)
  <2> DEFINE e == [live |-> TRUE, pw |-> req[s].pw, ch |-> req[s].ch, kept |-> FALSE,
                   late |-> req[s].pw # password \/ Closing]
  <2>1. e \in SessionRows
    BY RequestFits DEF Requests, SessionRows, Closing
  <2>2. sessions' = Append(sessions, e)
    BY <1>3 DEF CreateSession
  <2> HIDE DEF e
  <2>3. sessions' \in Seq(SessionRows) /\ Len(sessions) <= Len(sessions')
    BY <1>2, <2>1, <2>2, Added
  <2>4. Stores' /\ Grow
    BY <1>1, <1>2, <1>3, <2>3 DEF CreateSession
  <2> QED BY <1>3, <2>4, DoneFits DEF Typed, CreateSession
<1>4. CASE SetPassword(s)
  <2>1. req[s].by \in 1..Len(sessions)
    BY <1>4, RequestFits DEF SetPassword, At, Fits, FitsIn, InCourse
  <2>2. sessions' \in Seq(SessionRows) /\ Len(sessions) <= Len(sessions')
    <3>1. sessions' = [sessions EXCEPT ![req[s].by].kept = TRUE]
      BY <1>4 DEF SetPassword
    <3>2. /\ [sessions EXCEPT ![req[s].by].kept = TRUE] \in Seq(SessionRows)
          /\ Len([sessions EXCEPT ![req[s].by].kept = TRUE]) = Len(sessions)
      BY <1>2, <2>1, SessionsChange
    <3> QED BY <1>2, <3>1, <3>2
  <2>3. Stores' /\ Grow
    BY <1>1, <1>2, <1>4, <2>2 DEF SetPassword
  <2>4. InCourse(req[s].op, "revoke") /\ "revoke" \in PCs \ {"mail"}
    BY <1>4, RequestFits DEF InCourse, PCs, SetPassword, At
  <2> QED BY <1>4, <2>3, <2>4, GoFits DEF Typed, SetPassword
<1>5. CASE RevokeUserSessions(s)
  <2>1. sessions' \in Seq(SessionRows) /\ Len(sessions) <= Len(sessions')
    BY <1>2, <1>5, SessionsClosed DEF RevokeUserSessions
  <2>2. Stores' /\ Grow
    BY <1>1, <1>2, <1>5, <2>1 DEF RevokeUserSessions
  <2> QED BY <1>5, <2>2, DoneFits DEF Typed, RevokeUserSessions
<1> QED BY <1>3, <1>4, <1>5

(* Recovery codes, and two-factor authentication on and off.                *)
LEMMA FactorTyped ==
  ASSUME Typed, NEW s \in Slots,
         \/ UseRecoveryCode(s) \/ AcceptTOTPStep(s) \/ EnableTOTP(s) \/ ForgetPending(s)
         \/ DisableTOTP(s)
  PROVE  Typed'
<1>0. /\ codes \in Seq(CodeRows) /\ Len(codes) \in Nat /\ totp \in [secret : Nat, last : Nat]
      /\ pending \in Nat
  BY Lengths DEF Typed, Stores
<1>1. ASSUME codes' \in Seq(CodeRows), Len(codes) <= Len(codes'), pending' \in Nat,
             totp' \in [secret : Nat, last : Nat], tries' \in Nat, marks' \in Marks,
             UNCHANGED <<password, secrets, now, challenges, fails, sessions, links, mailed,
                         requests, faults>>
      PROVE  Stores' /\ Grow
  BY <1>1, Lengths DEF Typed, Stores, Grow
<1>2. \A ids : Without(codes, ids) \in Seq(CodeRows) /\ Len(Without(codes, ids)) = Len(codes)
  BY <1>0, Deleted, RowsCanGo
<1>3. At(s, "factor") \/ At(s, "accept") =>
        /\ req[s].op \in {"login2fa", "disable", "regenerate"}
        /\ Right[req[s].op] \in PCs \ {"mail"} /\ InCourse(req[s].op, Right[req[s].op])
        /\ "miss" \in PCs \ {"mail"} /\ (req[s].op = "login2fa" => InCourse(req[s].op, "miss"))
  BY RequestFits DEF At, InCourse, Right, PCs
<1>4. ASSUME Stores', Grow, At(s, "factor") \/ At(s, "accept"), IsRight(s) \/ IsWrong(s)
      PROVE  Handled'
  <2>1. \/ Done(s)
        \/ \E p \in PCs \ {"mail"} : Go(s, p) /\ InCourse(req[s].op, p)
    BY <1>3, <1>4 DEF IsRight, IsWrong
  <2> QED BY <1>4, <2>1, DoneFits, GoFits DEF Typed
<1>5. ASSUME IsRight(s) \/ IsWrong(s)
      PROVE  tries' \in Nat
  BY <1>5, RequestFits DEF IsRight, IsWrong
<1>6. CASE UseRecoveryCode(s)
  <2> DEFINE c == req[s].code.recovery
  <2>0. /\ pending' \in Nat /\ totp' \in [secret : Nat, last : Nat]
        /\ tries' \in Nat /\ marks' \in Marks
        /\ UNCHANGED <<password, secrets, now, challenges, fails, sessions, links, mailed,
                       requests, faults>>
    <3>1. UNCHANGED <<password, totp, pending, secrets, now, challenges, fails, sessions, links,
                      mailed, requests, faults, marks>>
      BY <1>6 DEF UseRecoveryCode
    <3>2. tries' \in Nat
      BY <1>5, <1>6 DEF UseRecoveryCode
    <3> QED BY <1>0, <3>1, <3>2, RequestFits
  <2>1. CASE UNCHANGED codes
    <3>1. Stores' /\ Grow
      BY <1>0, <1>1, <2>0, <2>1
    <3> QED BY <1>4, <1>6, <3>1 DEF UseRecoveryCode, Typed
  <2>2. CASE codes' = [codes EXCEPT ![c].live = FALSE, ![c].uses = @ + 1]
    <3>1. c \in 1..Len(codes)
      BY <1>6, GivenCode
    <3>2. /\ [codes EXCEPT ![c].live = FALSE, ![c].uses = @ + 1] \in Seq(CodeRows)
          /\ Len([codes EXCEPT ![c].live = FALSE, ![c].uses = @ + 1]) = Len(codes)
      BY <1>0, <3>1, CodeChanges
    <3>3. codes' \in Seq(CodeRows) /\ Len(codes) <= Len(codes')
      <4> DEFINE next == [codes EXCEPT ![c].live = FALSE, ![c].uses = @ + 1]
      <4>1. next \in Seq(CodeRows) /\ Len(next) = Len(codes)
        BY <3>2
      <4>2. codes' = next
        BY <2>2
      <4> HIDE DEF next
      <4>3. Len(codes) \in Nat
        BY <1>0
      <4> QED BY <4>1, <4>2, <4>3
    <3>4. Stores' /\ Grow
      BY <1>1, <2>0, <3>3
    <3> QED BY <1>4, <1>6, <3>4 DEF UseRecoveryCode, Typed
  <2> QED BY <1>6, <2>1, <2>2 DEF UseRecoveryCode
<1>7. CASE AcceptTOTPStep(s)
  <2>1. req[s].code.step \in Nat
    BY RequestFits DEF Requests, Codes
  <2>2. totp' \in [secret : Nat, last : Nat]
    BY <1>0, <1>7, <2>1 DEF AcceptTOTPStep
  <2>3. marks' \in Marks
    BY <1>7, RequestFits DEF AcceptTOTPStep, Marks
  <2>4. IsRight(s) \/ IsWrong(s)
    BY <1>7 DEF AcceptTOTPStep
  <2>5. Stores' /\ Grow
    BY <1>0, <1>1, <1>5, <1>7, <2>2, <2>3, <2>4 DEF AcceptTOTPStep
  <2> QED BY <1>4, <1>7, <2>4, <2>5 DEF AcceptTOTPStep, Typed
<1>8. CASE EnableTOTP(s)
  <2>1. NewCode \in CodeRows
    BY DEF NewCode, CodeRows
  <2>2. codes' = Append(Without(codes, LiveCodes), NewCode)
    BY <1>8 DEF EnableTOTP
  <2> DEFINE left == Without(codes, LiveCodes)
  <2>3. left \in Seq(CodeRows) /\ Len(left) = Len(codes)
    BY <1>2
  <2> HIDE DEF left
  <2>4. Append(left, NewCode) \in Seq(CodeRows) /\ Len(Append(left, NewCode)) = Len(codes) + 1
    BY <2>1, <2>3, Added
  <2>5. codes' \in Seq(CodeRows) /\ Len(codes) <= Len(codes')
    BY <1>0, <2>2, <2>4 DEF left
  <2>6. totp' \in [secret : Nat, last : Nat]
    BY <1>8, RequestFits DEF EnableTOTP, Requests, Codes
  <2>7. marks' \in Marks
    BY <1>8, RequestFits DEF EnableTOTP, Marks
  <2>8. Stores' /\ Grow
    BY <1>0, <1>1, <1>8, <2>5, <2>6, <2>7, RequestFits DEF EnableTOTP
  <2>9. InCourse(req[s].op, "forget") /\ "forget" \in PCs \ {"mail"}
    BY <1>8, RequestFits DEF InCourse, PCs, EnableTOTP, At
  <2> QED BY <1>8, <2>8, <2>9, GoFits DEF EnableTOTP, Typed
<1>9. CASE ForgetPending(s)
  <2>1. Stores' /\ Grow
    BY <1>0, <1>1, <1>9, RequestFits DEF ForgetPending, historyVars
  <2> QED BY <1>9, <2>1, DoneFits DEF ForgetPending, Typed
<1>10. CASE DisableTOTP(s)
  <2>1. codes' \in Seq(CodeRows) /\ Len(codes) <= Len(codes')
    BY <1>0, <1>2, <1>10 DEF DisableTOTP
  <2>2. totp' \in [secret : Nat, last : Nat]
    BY <1>10 DEF DisableTOTP
  <2>3. Stores' /\ Grow
    BY <1>0, <1>1, <1>10, <2>1, <2>2, RequestFits DEF DisableTOTP, historyVars
  <2>4. InCourse(req[s].op, "revoke") /\ "revoke" \in PCs \ {"mail"}
    BY <1>10, RequestFits DEF InCourse, PCs, DisableTOTP, At
  <2>5. Done(s) \/ Go(s, "revoke")
    BY <1>10 DEF DisableTOTP
  <2> QED BY <2>3, <2>4, <2>5, DoneFits, GoFits DEF Typed
<1> QED BY <1>6, <1>7, <1>8, <1>9, <1>10

(* Links.                                                                   *)
LEMMA LinkTyped ==
  ASSUME Typed, NEW s \in Slots,
         Replace(s) \/ Mail(s) \/ ConfirmEmail(s)
  PROVE  Typed'
<1>0. /\ codes \in Seq(CodeRows) /\ Len(codes) \in Nat /\ links \in Seq(LinkRows)
      /\ Len(links) \in Nat /\ DOMAIN links = 1..Len(links) /\ mailed \subseteq 1..Len(links)
      /\ sessions \in Seq(SessionRows) /\ Len(sessions) \in Nat /\ password \in Nat
      /\ requests \in 0..MaxRequests
  BY Lengths DEF Typed, Stores
<1>1. ASSUME codes' \in Seq(CodeRows), Len(codes) <= Len(codes'),
             links' \in Seq(LinkRows), Len(links) <= Len(links'), mailed' \subseteq 1..Len(links'),
             sessions' \in Seq(SessionRows), Len(sessions) <= Len(sessions'), password' \in Nat,
             requests' \in 0..MaxRequests, marks' \in Marks,
             UNCHANGED <<totp, pending, secrets, now, challenges, fails, faults, tries>>
      PROVE  Stores' /\ Grow
  BY <1>1, Lengths DEF Typed, Stores, Grow
<1>2. ASSUME Replace(s), req[s].op = "regenerate"
      PROVE  Typed'
  <2>1. NewCode \in CodeRows
    BY DEF NewCode, CodeRows
  <2> DEFINE left == Without(codes, req[s].rows)
  <2>2. left \in Seq(CodeRows) /\ Len(left) = Len(codes)
    <3>1. codes \in Seq(CodeRows)
      BY <1>0
    <3> QED BY <3>1, RowsCanGo, Deleted
  <2> HIDE DEF left
  <2>3. Append(left, NewCode) \in Seq(CodeRows) /\ Len(Append(left, NewCode)) = Len(codes) + 1
    BY <2>1, <2>2, Added
  <2>4. codes' = Append(left, NewCode)
    BY <1>2 DEF Replace, left
  <2>5. Stores' /\ Grow
    BY <1>0, <1>1, <1>2, <2>3, <2>4, RequestFits DEF Replace
  <2> QED BY <1>2, <2>5, DoneFits DEF Replace, Typed
<1>3. ASSUME Replace(s), req[s].op # "regenerate"
      PROVE  Typed'
  <2> DEFINE e == [purpose |-> Purpose(s), live |-> TRUE, uses |-> 0]
             left == Without(links, req[s].rows)
             x == [req[s] EXCEPT !.pc = "mail", !.link = Len(links'), !.rows = {}]
  <2>1. e \in LinkRows
    BY DEF Purpose, Purposes, LinkRows
  <2>2. left \in Seq(LinkRows) /\ Len(left) = Len(links)
    BY <1>0, Deleted, RowsCanGo
  <2>3. links' = Append(left, e) /\ req' = [req EXCEPT ![s] = x]
    BY <1>3 DEF Replace
  <2> HIDE DEF left, e
  <2>4. links' \in Seq(LinkRows) /\ Len(links') = Len(links) + 1
    BY <2>1, <2>2, <2>3, Added
  <2>5. marks' \in Marks
    BY <1>3, RequestFits DEF Replace, Marks
  <2>6. mailed' \subseteq 1..Len(links')
    BY <1>0, <1>3, <2>4 DEF Replace
  <2>7. Stores' /\ Grow
    BY <1>0, <1>1, <1>3, <2>4, <2>5, <2>6 DEF Replace
  <2>8. Len(links') \in Nat /\ Len(links') \in 1..Len(links')
    BY <1>0, <2>4
  <2>9. x \in Requests /\ x.pc = "mail" /\ x.op = req[s].op /\ x.ch = req[s].ch
        /\ x.by = req[s].by /\ x.code = req[s].code /\ x.link = Len(links')
    BY <2>8, RequestFits DEF Requests, PCs
  <2>11. req[s].pc = "replace"
    BY <1>3 DEF Replace, At
  <2> HIDE DEF x
  <2>10. FitsIn(x, Len(challenges'), Len(sessions'), Len(codes'), Len(links'))
    <3>1. UNCHANGED <<challenges, sessions, codes>>
      BY <1>3 DEF Replace
    <3> QED BY <2>8, <2>9, <2>11, <3>1, RequestFits DEF Fits, FitsIn, InCourse
  <2> QED BY <2>3, <2>7, <2>9, <2>10, OthersFit DEF Typed
<1>4. CASE Mail(s)
  <2>1. req[s].link \in 1..Len(links)
    BY <1>4, RequestFits DEF Mail, At, Fits, FitsIn
  <2>2. mailed' \subseteq 1..Len(links')
    BY <1>0, <1>4, <2>1 DEF Mail, storeVars
  <2>3. Stores' /\ Grow
    BY <1>0, <1>1, <1>4, <2>2, RequestFits DEF Mail, storeVars, historyVars
  <2> QED BY <1>4, <2>3, DoneFits DEF Mail, Typed
<1>5. CASE ConfirmEmail(s)
  <2>1. PICK k \in DOMAIN links : links' = Used(k)
    BY <1>5 DEF ConfirmEmail
  <2>2. links' \in Seq(LinkRows) /\ Len(links') = Len(links)
    BY <1>0, <2>1, LinkChanges DEF Used
  <2>3. requests' \in 0..MaxRequests
    <3>1. requests' = requests + 1 /\ requests < MaxRequests
      BY <1>5 DEF ConfirmEmail
    <3> QED BY <1>0, <3>1, LimitAssumption
  <2>4. Stores' /\ Grow
    BY <1>0, <1>1, <1>5, <2>2, <2>3, RequestFits DEF ConfirmEmail, historyVars
  <2> QED BY <1>5, <2>4, AllFit DEF ConfirmEmail, Typed
<1> QED BY <1>2, <1>3, <1>4, <1>5

(* A reset goes on, statement by statement.                                 *)
LEMMA ResetTyped ==
  ASSUME Typed, NEW s \in Slots,
         RequestReset(s) \/ WritePassword(s) \/ FindSessions(s) \/ CommitReset(s)
  PROVE  Typed'
<1>0. /\ links \in Seq(LinkRows) /\ Len(links) \in Nat /\ DOMAIN links = 1..Len(links)
      /\ sessions \in Seq(SessionRows) /\ Len(sessions) \in Nat /\ DOMAIN sessions = 1..Len(sessions)
      /\ password \in Nat /\ Len(codes) \in Nat
  BY Lengths DEF Typed, Stores
<1>1. CASE RequestReset(s)
  <2>1. PICK k \in DOMAIN links :
          Begin(s, [NoRequest EXCEPT !.op = "reset", !.pc = "reset", !.link = k])
    BY <1>1 DEF RequestReset
  <2> DEFINE r == [NoRequest EXCEPT !.op = "reset", !.pc = "reset", !.link = k]
  <2>4. k \in Nat /\ "reset" \in Ops /\ "reset" \in PCs
    BY <1>0 DEF Ops, PCs
  <2>5. r \in Requests
    BY <2>4, Blank DEF Requests
  <2>2. /\ r \in Requests /\ r.op = "reset" /\ r.pc = "reset" /\ r.by = 0
        /\ r.code = NoCode /\ r.ch = 0 /\ r.link = k
    BY <2>5, Blank DEF Requests
  <2> HIDE DEF r
  <2>3. Fits(r)
    BY <1>0, <2>2, Blank DEF Fits, FitsIn, InCourse
  <2> QED BY <2>1, <2>2, <2>3, BeginTyped DEF r
<1>2. CASE WritePassword(s)
  <2>1. InCourse(req[s].op, "close") /\ "close" \in PCs \ {"mail"}
    BY <1>2, RequestFits DEF InCourse, PCs, WritePassword, At
  <2> QED BY <1>2, <2>1, OnlyRequest, RequestFits DEF WritePassword, historyVars
<1>3. CASE FindSessions(s)
  <2> DEFINE x == [req[s] EXCEPT !.pc = "commit", !.rows = LiveSessions]
  <2>1. LiveSessions \subseteq Nat
    BY <1>0 DEF LiveSessions
  <2>2. Stores' /\ Grow /\ UNCHANGED <<challenges, sessions, codes, links>>
    BY <1>3, Unread DEF FindSessions, Typed, Stores, historyVars, storeVars
  <2>3. req' = [req EXCEPT ![s] = x] /\ req[s].pc = "close"
    BY <1>3 DEF FindSessions, At
  <2>4. x \in Requests /\ x.pc = "commit" /\ x.op = req[s].op /\ x.ch = req[s].ch /\ x.by = req[s].by
        /\ x.code = req[s].code /\ x.link = req[s].link
    BY <2>1, RequestFits DEF Requests, PCs
  <2> HIDE DEF x
  <2>5. Fits(x)
    BY <2>3, <2>4, RequestFits DEF Fits, FitsIn, InCourse
  <2> QED BY <2>2, <2>3, <2>4, <2>5, OthersFit DEF Fits, Typed
<1>4. CASE CommitReset(s)
  <2> DEFINE k == req[s].link
  <2>1. k \in 1..Len(links)
    BY <1>4, RequestFits DEF CommitReset, At, Fits, FitsIn, InCourse
  <2>2. links' \in Seq(LinkRows) /\ Len(links') = Len(links)
    BY <1>0, <1>4, <2>1, LinkChanges DEF CommitReset, Used
  <2>3. sessions' \in Seq(SessionRows) /\ Len(sessions') = Len(sessions)
    BY <1>0, <1>4, Deleted, RowsCanGo DEF CommitReset
  <2>4. UNCHANGED <<totp, pending, secrets, now, codes, challenges, fails, mailed, requests, faults,
                    tries, marks>> /\ password' \in Nat
    BY <1>0, <1>4 DEF CommitReset, historyVars
  <2>5. Stores' /\ Grow
    BY <1>0, <2>2, <2>3, <2>4, Lengths DEF Typed, Stores, Grow
  <2> QED BY <1>4, <2>5, DoneFits DEF CommitReset, Typed
<1> QED BY <1>1, <1>2, <1>3, <1>4

(* Time.                                                                    *)
LEMMA TimeTyped ==
  ASSUME Typed, Tick \/ WindowEnds \/ Expire
  PROVE  Typed'
<1>0. /\ Stores /\ Handled /\ fails.ip \in Nat /\ fails.user \in Nat
      /\ fails \in [ip : Nat, user : Nat] /\ now + 1 \in Nat \ {0} /\ pending \in Nat
      /\ tries \in Nat /\ marks \in Marks /\ requests \in 0..MaxRequests
  BY DEF Typed, Stores
<1>1. faults' \in 0..MaxFaults
  <2>1. faults < MaxFaults /\ faults' = faults + 1
    BY DEF Tick, WindowEnds, Expire
  <2> QED BY <2>1, LimitAssumption DEF Typed, Stores
<1>2. CASE Tick
  <2>1. Stores' /\ Grow
    BY <1>0, <1>1, <1>2, Unread DEF Tick, historyVars
  <2> QED BY <1>0, <1>2, <2>1, AllFit DEF Tick, Typed
<1>3. CASE WindowEnds
  <2>1. fails' \in [ip : Nat, user : Nat] /\ tries' \in Nat
    BY <1>0, <1>3 DEF WindowEnds
  <2>2. Stores' /\ Grow
    BY <1>0, <1>1, <1>3, <2>1, Lengths DEF WindowEnds, Stores, Grow
  <2> QED BY <1>0, <1>3, <2>2, AllFit DEF WindowEnds, Typed
<1>4. CASE Expire
  <2>1. /\ challenges \in Seq(ChallengeRows) /\ sessions \in Seq(SessionRows)
        /\ links \in Seq(LinkRows) /\ DOMAIN challenges = 1..Len(challenges)
        /\ DOMAIN sessions = 1..Len(sessions) /\ DOMAIN links = 1..Len(links)
        /\ Len(challenges) \in Nat /\ Len(sessions) \in Nat /\ Len(links) \in Nat
    BY <1>0, Lengths DEF Stores
  <2>2. ASSUME challenges' \in Seq(ChallengeRows), Len(challenges') = Len(challenges),
               sessions' \in Seq(SessionRows), Len(sessions') = Len(sessions),
               links' \in Seq(LinkRows), Len(links') = Len(links), pending' \in Nat
        PROVE  Typed'
    <3>1. Stores' /\ Grow
      BY <1>0, <1>1, <1>4, <2>2, Lengths DEF Expire, Stores, Grow, historyVars
    <3> QED BY <1>0, <1>4, <3>1, AllFit DEF Expire, Typed
  <2>3. ASSUME NEW c \in DOMAIN challenges, challenges' = [challenges EXCEPT ![c].live = FALSE]
        PROVE  challenges' \in Seq(ChallengeRows) /\ Len(challenges') = Len(challenges)
    BY <2>1, <2>3, ChallengeEnds
  <2>4. ASSUME NEW x \in LiveSessions, sessions' = [sessions EXCEPT ![x].live = FALSE]
        PROVE  sessions' \in Seq(SessionRows) /\ Len(sessions') = Len(sessions)
    <3>1. x \in 1..Len(sessions)
      BY <2>1 DEF LiveSessions
    <3>2. /\ [sessions EXCEPT ![x].live = FALSE] \in Seq(SessionRows)
          /\ Len([sessions EXCEPT ![x].live = FALSE]) = Len(sessions)
      BY <2>1, <3>1, SessionsChange
    <3> QED BY <2>4, <3>2
  <2>5. ASSUME NEW k \in DOMAIN links, links' = [links EXCEPT ![k].live = FALSE]
        PROVE  links' \in Seq(LinkRows) /\ Len(links') = Len(links)
    <3>1. /\ [links EXCEPT ![k].live = FALSE] \in Seq(LinkRows)
          /\ Len([links EXCEPT ![k].live = FALSE]) = Len(links)
      BY <2>1, LinkChanges
    <3> QED BY <2>5, <3>1
  <2>6. CASE /\ \E c \in DOMAIN challenges : challenges' = [challenges EXCEPT ![c].live = FALSE]
             /\ UNCHANGED <<pending, sessions, links>>
    BY <1>0, <2>1, <2>2, <2>3, <2>6
  <2>7. CASE /\ \E x \in LiveSessions : sessions' = [sessions EXCEPT ![x].live = FALSE]
             /\ UNCHANGED <<pending, challenges, links>>
    BY <1>0, <2>1, <2>2, <2>4, <2>7
  <2>8. CASE /\ \E k \in DOMAIN links : links' = [links EXCEPT ![k].live = FALSE]
             /\ UNCHANGED <<pending, challenges, sessions>>
    BY <1>0, <2>1, <2>2, <2>5, <2>8
  <2>9. CASE pending' = 0 /\ UNCHANGED <<challenges, sessions, links>>
    BY <2>1, <2>2, <2>9
  <2> QED BY <1>4, <2>6, <2>7, <2>8, <2>9 DEF Expire
<1> QED BY <1>2, <1>3, <1>4

LEMMA TypeStep == Typed /\ [Next]_vars => Typed'
<1> SUFFICES ASSUME Typed, [Next]_vars PROVE Typed'
  OBVIOUS
<1>1. ASSUME NEW s \in Slots, Handle(s)
      PROVE  Typed'
  BY <1>1, LimiterTyped, CheckTyped, ChallengeTyped, SessionTyped, FactorTyped, LinkTyped, ResetTyped
     DEF Handle
<1>2. ASSUME NEW s \in Slots,
             Request(s) \/ RequestReset(s) \/ ConfirmEmail(s) \/ LimiterFails(s) \/ CallFails(s)
      PROVE  Typed'
  BY <1>2, RequestTyped, LinkTyped, ResetTyped, LimiterTyped, CheckTyped
<1>3. CASE Tick \/ WindowEnds \/ Expire
  BY <1>3, TimeTyped
<1>4. CASE UNCHANGED vars
  <2>1. Stores' /\ Grow
    BY <1>4, Lengths DEF vars, Typed, Stores, Grow
  <2> QED BY <1>4, <2>1, AllFit DEF vars, Typed
<1> QED BY <1>1, <1>2, <1>3, <1>4 DEF Next

(* Every variable keeps its type, and a request refers to a challenge, a    *)
(* session, a recovery code and a link that were once made, however         *)
(* requests overlap (authhandlers.go, twofactor.go, account.go).            *)
THEOREM TypeCorrect == Spec => []TypeOK
<1>1. Spec => []Typed
  BY TypeInit, TypeStep, PTL DEF Spec
<1> QED BY <1>1, TypedIsTypeOK, PTL

-----------------------------------------------------------------------------
(* How a step changes the request it is about, and no other.                *)

Others(s) == \A t \in Slots \ {s} : req'[t] = req[t]

LEMMA Goes ==
  ASSUME Typed, NEW s \in Slots
  PROVE  /\ Done(s) => Others(s) /\ req'[s] = NoRequest
         /\ \A p : Go(s, p) => /\ Others(s) /\ req'[s].pc = p
                               /\ req'[s].op = req[s].op /\ req'[s].by = req[s].by
                               /\ req'[s].rows = req[s].rows /\ req'[s].link = req[s].link
<1>1. req \in [Slots -> Requests]
  BY DEF Typed, Handled
<1>2. Done(s) => Others(s) /\ req'[s] = NoRequest
  BY <1>1 DEF Done, Others
<1>3. ASSUME NEW p, Go(s, p)
      PROVE  /\ Others(s) /\ req'[s].pc = p /\ req'[s].op = req[s].op /\ req'[s].by = req[s].by
             /\ req'[s].rows = req[s].rows /\ req'[s].link = req[s].link
  BY <1>1, <1>3 DEF Go, Others, Requests
<1> QED BY <1>2, <1>3

(* The steps that do more than go on.                                       *)
LEMMA GoesWith ==
  ASSUME Typed, NEW s \in Slots
  PROVE  /\ Consume(s) => Others(s) /\ req'[s].pc \in {"success", "idle"}
         /\ ReadPending(s) => Others(s) /\ req'[s].pc \in {"enable", "idle"}
         /\ FindRows(s) => /\ Others(s) /\ req'[s].pc = "lock" /\ req'[s].op = req[s].op
                           /\ req'[s].rows = IF req[s].op = "regenerate" THEN LiveCodes
                                             ELSE LiveLinks(Purpose(s))
         /\ Replace(s) => Others(s) /\ req'[s].pc \in {"mail", "idle"}
         /\ FindSessions(s) => /\ Others(s) /\ req'[s].pc = "commit" /\ req'[s].op = req[s].op
                               /\ req'[s].link = req[s].link /\ req'[s].rows = LiveSessions
<1>1. req \in [Slots -> Requests] /\ NoRequest.pc = "idle"
  BY Blank DEF Typed, Handled
<1>2. Consume(s) => Others(s) /\ req'[s].pc \in {"success", "idle"}
  BY <1>1 DEF Consume, Done, Others, Requests
<1>3. ReadPending(s) => Others(s) /\ req'[s].pc \in {"enable", "idle"}
  BY <1>1 DEF ReadPending, Done, Others, Requests
<1>4. FindRows(s) => /\ Others(s) /\ req'[s].pc = "lock" /\ req'[s].op = req[s].op
                     /\ req'[s].rows = IF req[s].op = "regenerate" THEN LiveCodes
                                       ELSE LiveLinks(Purpose(s))
  BY <1>1 DEF FindRows, Others, Requests
<1>5. Replace(s) => Others(s) /\ req'[s].pc \in {"mail", "idle"}
  BY <1>1 DEF Replace, Done, Others, Requests
<1>6. FindSessions(s) => /\ Others(s) /\ req'[s].pc = "commit" /\ req'[s].op = req[s].op
                         /\ req'[s].link = req[s].link /\ req'[s].rows = LiveSessions
  BY <1>1 DEF FindSessions, Others, Requests
<1> QED BY <1>2, <1>3, <1>4, <1>5, <1>6

(* A reset begins with its link.                                            *)
LEMMA GoesClaiming ==
  ASSUME Typed, NEW s \in Slots, RequestReset(s)
  PROVE  /\ At(s, "idle") /\ Others(s) /\ req'[s].op = "reset" /\ req'[s].pc = "reset"
         /\ req'[s].link \in DOMAIN links /\ Usable(s, req'[s].link, "reset")
         /\ UNCHANGED <<storeVars, now, mailed, faults, historyVars>>
<1>1. PICK k \in DOMAIN links :
        /\ Usable(s, k, "reset")
        /\ Begin(s, [NoRequest EXCEPT !.op = "reset", !.pc = "reset", !.link = k])
  BY DEF RequestReset
<1> DEFINE r == [NoRequest EXCEPT !.op = "reset", !.pc = "reset", !.link = k]
<1>2. r.op = "reset" /\ r.pc = "reset" /\ r.link = k
  BY Blank DEF Requests
<1>3. req' = [req EXCEPT ![s] = r] /\ req \in [Slots -> Requests]
  BY <1>1 DEF Begin, Typed, Handled
<1> HIDE DEF r
<1>4. req'[s] = r /\ Others(s)
  BY <1>3 DEF Others
<1> QED BY <1>1, <1>2, <1>4 DEF Begin

(* A request begins in one of a few places.                                 *)
LEMMA GoesFirst ==
  ASSUME Typed, NEW s \in Slots, Request(s)
  PROVE  /\ UNCHANGED req \/ (At(s, "idle") /\ Others(s) /\ Starts(req'[s]))
         /\ UNCHANGED <<password, totp, codes, challenges, fails, links, historyVars>>
         /\ UNCHANGED sessions \/ Logout(s)
<1>1. ASSUME NEW r, Begin(s, r), Starts(r)
      PROVE  /\ At(s, "idle") /\ Others(s) /\ Starts(req'[s])
             /\ UNCHANGED <<password, totp, codes, challenges, fails, links, historyVars, sessions>>
  BY <1>1 DEF Begin, storeVars, Others, Typed, Handled
<1>2. CASE Setup(s) \/ Logout(s)
  BY <1>2 DEF Setup, Logout
<1> QED BY <1>1, <1>2, Begun

(* The requests these steps handle come to no place where sessions or links *)
(* change.                                                                  *)
LEMMA GoesOn ==
  ASSUME Typed, NEW s \in Slots,
         \/ AskLimiter(s) \/ RecordFailure(s) \/ RecordSuccess(s) \/ CheckPassword(s)
         \/ IssueChallenge(s) \/ Peek(s) \/ UseRecoveryCode(s) \/ VerifyCode(s)
         \/ AcceptTOTPStep(s) \/ FailChallenge(s) \/ Consume(s) \/ ReadPending(s) \/ EnableTOTP(s)
         \/ ForgetPending(s) \/ Mail(s) \/ LimiterFails(s)
  PROVE  Others(s) /\ req'[s].pc \notin {"revoke", "lock", "replace", "reset", "close", "commit"}
<1>1. Done(s) => Others(s) /\ req'[s].pc = "idle"
  BY Goes, Blank
<1>2. \A p : Go(s, p) => Others(s) /\ req'[s].pc = p
  BY Goes
<1>3. CASE AskLimiter(s) \/ LimiterFails(s)
  <2>1. At(s, "limit") => Guarded[req[s].op] \in {"password", "factor"}
    BY RequestFits DEF At, InCourse, Guarded
  <2> QED BY <1>1, <1>2, <1>3, <2>1 DEF AskLimiter, LimiterFails
<1>4. CASE RecordFailure(s) \/ RecordSuccess(s) \/ CheckPassword(s) \/ IssueChallenge(s)
           \/ Peek(s) \/ FailChallenge(s) \/ EnableTOTP(s) \/ ForgetPending(s) \/ Mail(s)
  <2>1. CASE RecordFailure(s) \/ RecordSuccess(s) \/ CheckPassword(s) \/ IssueChallenge(s)
    BY <1>1, <1>2, <2>1 DEF RecordFailure, RecordSuccess, CheckPassword, IssueChallenge
  <2>2. CASE Peek(s) \/ FailChallenge(s) \/ EnableTOTP(s) \/ ForgetPending(s) \/ Mail(s)
    BY <1>1, <1>2, <2>2 DEF Peek, FailChallenge, EnableTOTP, ForgetPending, Mail
  <2> QED BY <1>4, <2>1, <2>2
<1>5. CASE UseRecoveryCode(s) \/ VerifyCode(s) \/ AcceptTOTPStep(s)
  <2>1. Right[req[s].op] \in {"consume", "off", "find"}
    <3>1. req[s].pc \in {"factor", "accept"}
      BY <1>5 DEF UseRecoveryCode, VerifyCode, AcceptTOTPStep, At
    <3>2. req[s].op \in {"login2fa", "disable", "regenerate"}
      BY <3>1, RequestFits DEF InCourse
    <3> QED BY <3>2 DEF Right
  <2>2. Done(s) \/ \E p \in {"accept", "miss", "consume", "off", "find"} : Go(s, p)
    BY <1>5, <2>1 DEF UseRecoveryCode, VerifyCode, AcceptTOTPStep, IsRight, IsWrong
  <2> QED BY <1>1, <1>2, <2>2
<1>6. CASE Consume(s) \/ ReadPending(s)
  BY <1>6, GoesWith
<1> QED BY <1>3, <1>4, <1>5, <1>6

-----------------------------------------------------------------------------
(* Links that resets have claimed.                                          *)

(* The link of a reset is good until it commits: no other reset has it, and *)
(* whoever issues another link of the kind waits for it.                    *)
ClaimHolds(s) ==
  req[s].op = "reset" =>
    /\ links[req[s].link].live
    /\ req[s].link \notin LockedLinks(s)
ClaimsInv == \A s \in Slots : ClaimHolds(s)

LEMMA ClaimsOn ==
  ASSUME Typed, ClaimsInv, NEW s \in Slots, Others(s),
         \A k \in Claimed(Slots \ {s}) : links'[k].live,
         req'[s].op = "reset" =>
           links'[req'[s].link].live /\ req'[s].link \notin LockedLinks(s),
         req'[s].op \in {"forgot", "email"} /\ req'[s].pc = "replace" =>
           req'[s].rows \cap Claimed(Slots \ {s}) = {}
  PROVE  ClaimsInv'
<1>1. \A t \in Slots \ {s} : req'[t] = req[t]
  BY DEF Others
<1>2. LockedLinks(s)' = LockedLinks(s)
  BY <1>1 DEF LockedLinks, Locked, Claimed
<1>3. ClaimHolds(s)'
  BY <1>2 DEF ClaimHolds
<1>4. ASSUME NEW t \in Slots \ {s}, req[t].op = "reset" PROVE ClaimHolds(t)'
  <2> DEFINE k == req[t].link
  <2>1. req'[t] = req[t] /\ k \in Claimed(Slots \ {s}) /\ ClaimHolds(t)
    BY <1>1, <1>4 DEF Claimed, ClaimsInv
  <2>2. links'[k].live
    BY <2>1
  <2>3. k \notin LockedLinks(t)
    BY <1>4, <2>1 DEF ClaimHolds
  <2>4. ASSUME k \in LockedLinks(t)' PROVE FALSE
    <3>1. CASE \E u \in Slots \ {t} : /\ req'[u].op \in {"forgot", "email"} /\ req'[u].pc = "replace"
                                      /\ k \in req'[u].rows
      <4>1. PICK u \in Slots \ {t} : /\ req'[u].op \in {"forgot", "email"} /\ req'[u].pc = "replace"
                                     /\ k \in req'[u].rows
        BY <3>1
      <4>2. CASE u = s
        BY <2>1, <4>1, <4>2
      <4>3. CASE u # s
        <5>1. req'[u] = req[u]
          BY <1>1, <4>3
        <5>2. k \in LockedLinks(t)
          BY <4>1, <5>1 DEF LockedLinks, Locked
        <5> QED BY <2>3, <5>2
      <4> QED BY <4>2, <4>3
    <3>2. CASE \E u \in Slots \ {t} : req'[u].op = "reset" /\ req'[u].link = k
      <4>1. PICK u \in Slots \ {t} : req'[u].op = "reset" /\ req'[u].link = k
        BY <3>2
      <4>2. CASE u = s
        BY <2>1, <4>1, <4>2 DEF LockedLinks
      <4>3. CASE u # s
        <5>1. req'[u] = req[u]
          BY <1>1, <4>3
        <5>2. k \in LockedLinks(t)
          BY <4>1, <5>1 DEF LockedLinks, Claimed
        <5> QED BY <2>3, <5>2
      <4> QED BY <4>2, <4>3
    <3> QED BY <2>4, <3>1, <3>2 DEF LockedLinks, Locked, Claimed
  <2> QED BY <2>1, <2>2, <2>4 DEF ClaimHolds
<1>5. ASSUME NEW t \in Slots \ {s}, req[t].op # "reset" PROVE ClaimHolds(t)'
  BY <1>1, <1>5 DEF ClaimHolds
<1> QED BY <1>3, <1>4, <1>5 DEF ClaimsInv

(* The links that others have claimed are good.                             *)
LEMMA ClaimedLive ==
  ASSUME Typed, ClaimsInv, NEW k \in Claimed(Slots)
  PROVE  k \in DOMAIN links /\ links[k].live
<1>1. PICK t \in Slots : req[t].op = "reset" /\ req[t].link = k
  BY DEF Claimed
<1>2. k \in 1..Len(links)
  BY <1>1, RequestFits DEF Fits, FitsIn
<1> QED BY <1>1, <1>2, Lengths DEF ClaimsInv, ClaimHolds, Typed

(* Most steps leave links alone, and their request is not at a place where  *)
(* it claims or locks any.                                                  *)
LEMMA ClaimsAside ==
  ASSUME Typed, Typed', ClaimsInv, NEW s \in Slots, Others(s), UNCHANGED links,
         req'[s].pc \notin {"replace", "reset", "close", "commit"}
  PROVE  ClaimsInv'
<1>1. req'[s].op # "reset"
  BY DEF Typed, Handled, Fits, FitsIn, InCourse
<1>2. \A k \in Claimed(Slots \ {s}) : links'[k].live
  BY ClaimedLive DEF Claimed
<1> QED BY <1>1, <1>2, ClaimsOn

(* No request changes, and links that are claimed stay good.                *)
LEMMA ClaimsIdle ==
  ASSUME Typed, ClaimsInv, UNCHANGED req, \A k \in Claimed(Slots) : links'[k].live
  PROVE  ClaimsInv'
<1> SUFFICES ASSUME NEW t \in Slots, req[t].op = "reset" PROVE ClaimHolds(t)'
  BY DEF ClaimsInv, ClaimHolds
<1>1. ClaimHolds(t) /\ LockedLinks(t)' = LockedLinks(t) /\ req[t].link \in Claimed(Slots)
  BY DEF ClaimsInv, LockedLinks, Locked, Claimed
<1> QED BY <1>1 DEF ClaimHolds

(* One link is used, or expires: the others are as they were.               *)
LEMMA OneLink ==
  ASSUME Typed, NEW k \in DOMAIN links,
         links' = [links EXCEPT ![k].live = FALSE] \/ links' = Used(k)
  PROVE  \A j \in DOMAIN links \ {k} : links'[j] = links[j]
BY DEF Used

-----------------------------------------------------------------------------
(* Links and recovery codes are single-use tokens.                          *)

(* The life of rows: one that is there may be used once or ended, what is   *)
(* over stays over, and a new one is good and unused.                       *)
Lives(rows, next) ==
  /\ DOMAIN rows \subseteq DOMAIN next
  /\ \A k \in DOMAIN rows :
       \/ next[k].live = rows[k].live /\ next[k].uses = rows[k].uses
       \/ /\ rows[k].live /\ ~next[k].live
          /\ next[k].uses = rows[k].uses \/ next[k].uses = rows[k].uses + 1
  /\ \A k \in DOMAIN next \ DOMAIN rows : next[k].live /\ next[k].uses = 0

Countable(S) ==
  /\ \A r \in S : r.live \in BOOLEAN /\ r.uses \in Nat
  /\ \A r \in S : \A b \in BOOLEAN :
       LET d == [r EXCEPT !.live = b] IN d \in S /\ d.live = b /\ d.uses = r.uses

LEMMA RowsCountable == Countable(CodeRows) /\ Countable(LinkRows)
BY DEF Countable, CodeRows, LinkRows

LEMMA CountableGo ==
  ASSUME NEW S, Countable(S)
  PROVE  CanGo(S)
BY DEF Countable, CanGo

LEMMA LivesUnused ==
  ASSUME NEW S, Countable(S), NEW q \in Seq(S), NEW ids
  PROVE  Lives(q, Without(q, ids))
<1>1. /\ Without(q, ids) \in Seq(S) /\ DOMAIN q = 1..Len(q) /\ DOMAIN Without(q, ids) = 1..Len(q)
      /\ \A i \in 1..Len(q) : q[i] \in S
      /\ \A i \in 1..Len(q) : Without(q, ids)[i] = [q[i] EXCEPT !.live = @ /\ i \notin ids]
  <2>1. CanGo(S)
    BY CountableGo
  <2>2. DOMAIN q = 1..Len(q) /\ \A i \in 1..Len(q) : q[i] \in S
    BY LenProperties, ElementOfSeq
  <2>3. /\ Without(q, ids) \in Seq(S) /\ Len(Without(q, ids)) = Len(q)
        /\ DOMAIN Without(q, ids) = 1..Len(q)
        /\ \A i \in 1..Len(q) : Without(q, ids)[i] = [q[i] EXCEPT !.live = @ /\ i \notin ids]
    BY <2>1, Deleted
  <2> QED BY <2>2, <2>3
<1>2. ASSUME NEW k \in 1..Len(q)
      PROVE  /\ Without(q, ids)[k].uses = q[k].uses
             /\ Without(q, ids)[k].live = (q[k].live /\ k \notin ids)
  <2> DEFINE b == q[k].live /\ k \notin ids
             d == [q[k] EXCEPT !.live = b]
  <2>1. b \in BOOLEAN /\ q[k] \in S /\ Without(q, ids)[k] = d
    BY <1>1 DEF Countable
  <2> HIDE DEF b
  <2>2. d.live = b /\ d.uses = q[k].uses
    BY <2>1 DEF Countable
  <2> QED BY <2>1, <2>2 DEF b
<1>3. \A k \in 1..Len(q) : q[k].live \in BOOLEAN
  BY <1>1 DEF Countable
<1> QED BY <1>1, <1>2, <1>3 DEF Lives

LEMMA LivesIssued ==
  ASSUME NEW S, Countable(S), NEW q \in Seq(S), NEW ids, NEW e \in S, e.live, e.uses = 0
  PROVE  Lives(q, Append(Without(q, ids), e))
<1> DEFINE w == Without(q, ids)
<1>1. w \in Seq(S) /\ Len(w) = Len(q)
  BY Deleted, CountableGo
<1>2. Lives(q, w) /\ DOMAIN q = 1..Len(q) /\ DOMAIN w = 1..Len(w) /\ Len(q) \in Nat
  BY <1>1, LivesUnused, LenProperties
<1> HIDE DEF w
<1>3. /\ DOMAIN Append(w, e) = 1..(Len(q) + 1) /\ Append(w, e)[Len(q) + 1] = e
      /\ \A i \in 1..Len(q) : Append(w, e)[i] = w[i]
  BY <1>1, Added
<1>4. Lives(q, Append(w, e))
  BY <1>1, <1>2, <1>3 DEF Lives
<1> QED BY <1>4 DEF w

LEMMA LivesUsed ==
  ASSUME NEW S, Countable(S), NEW q \in Seq(S), NEW k \in 1..Len(q), q[k].live, NEW r,
         \/ r = [q EXCEPT ![k].live = FALSE]
         \/ r = [q EXCEPT ![k].live = FALSE, ![k].uses = @ + 1],
         S = CodeRows \/ S = LinkRows
  PROVE  Lives(q, r)
<1>1. DOMAIN q = 1..Len(q) /\ q[k] \in S /\ \A i \in 1..Len(q) : q[i] \in S
  BY LenProperties, ElementOfSeq
<1>2. DOMAIN r = 1..Len(q) /\ \A i \in 1..Len(q) \ {k} : r[i] = q[i]
  BY <1>1
<1>3. \/ r[k] = [q[k] EXCEPT !.live = FALSE]
      \/ r[k] = [q[k] EXCEPT !.live = FALSE, !.uses = @ + 1]
  BY <1>1
<1>4. ~r[k].live /\ (r[k].uses = q[k].uses \/ r[k].uses = q[k].uses + 1)
  <2>1. CASE S = CodeRows
    BY <1>1, <1>3, <2>1 DEF CodeRows
  <2>2. CASE S = LinkRows
    BY <1>1, <1>3, <2>2 DEF LinkRows
  <2> QED BY <2>1, <2>2
<1> QED BY <1>1, <1>2, <1>4 DEF Lives

LEMMA LivesOn == ASSUME NEW q PROVE Lives(q, q)
BY DEF Lives

(* Most steps leave links and codes alone.                                  *)
LEMMA LeftAlone ==
  ASSUME NEW s \in Slots,
         \/ Request(s) \/ LimiterFails(s) \/ CallFails(s)
         \/ AskLimiter(s) \/ RecordFailure(s) \/ RecordSuccess(s) \/ CheckPassword(s)
         \/ IssueChallenge(s) \/ CreateSession(s) \/ Peek(s) \/ VerifyCode(s)
         \/ AcceptTOTPStep(s) \/ FailChallenge(s) \/ Consume(s) \/ ReadPending(s)
         \/ ForgetPending(s) \/ SetPassword(s) \/ RevokeUserSessions(s)
         \/ FindRows(s) \/ LockRows(s) \/ Mail(s)
         \/ RequestReset(s) \/ WritePassword(s) \/ FindSessions(s)
  PROVE  UNCHANGED <<links, codes>>
<1>1. ASSUME Request(s) PROVE UNCHANGED <<links, codes>>
  <2>1. ASSUME NEW r, Begin(s, r) PROVE UNCHANGED <<links, codes>>
    BY <2>1 DEF Begin, storeVars
  <2>2. Setup(s) \/ Logout(s) => UNCHANGED <<links, codes>>
    BY DEF Setup, Logout
  <2> QED BY <1>1, <2>1, <2>2, Begun
<1>2. LimiterFails(s) \/ CallFails(s) \/ AskLimiter(s) \/ RecordFailure(s) \/ RecordSuccess(s)
        \/ CheckPassword(s) \/ IssueChallenge(s) \/ CreateSession(s)
      => UNCHANGED <<links, codes>>
  BY DEF LimiterFails, CallFails, AskLimiter, RecordFailure, RecordSuccess, CheckPassword,
         IssueChallenge, CreateSession, storeVars
<1>3. Peek(s) \/ VerifyCode(s) \/ AcceptTOTPStep(s) \/ FailChallenge(s) \/ Consume(s)
        \/ ReadPending(s) => UNCHANGED <<links, codes>>
  BY DEF Peek, VerifyCode, AcceptTOTPStep, FailChallenge, Consume, ReadPending, storeVars
<1>4. ForgetPending(s) \/ SetPassword(s) \/ RevokeUserSessions(s) \/ FindRows(s) \/ LockRows(s)
        \/ Mail(s) => UNCHANGED <<links, codes>>
  BY DEF ForgetPending, SetPassword, RevokeUserSessions, FindRows, LockRows, Mail, storeVars
<1>5. RequestReset(s) \/ WritePassword(s) \/ FindSessions(s) => UNCHANGED <<links, codes>>
  BY DEF RequestReset, Begin, WritePassword, FindSessions, storeVars
<1> QED BY <1>1, <1>2, <1>3, <1>4, <1>5

LEMMA ClaimsStep == Typed /\ Typed' /\ ClaimsInv /\ [Next]_vars => ClaimsInv'
<1> SUFFICES ASSUME Typed, Typed', ClaimsInv, [Next]_vars PROVE ClaimsInv'
  OBVIOUS
<1>0. \A k \in Claimed(Slots) : k \in DOMAIN links /\ links[k].live
  BY ClaimedLive
<1>1. ASSUME NEW s \in Slots, Request(s) PROVE ClaimsInv'
  <2>1. UNCHANGED links
    BY <1>1, LeftAlone
  <2>2. CASE UNCHANGED req
    BY <1>0, <2>1, <2>2, ClaimsIdle
  <2>3. CASE Others(s) /\ Starts(req'[s])
    BY <2>1, <2>3, ClaimsAside DEF Starts
  <2> QED BY <1>1, <2>2, <2>3, GoesFirst
<1>2. ASSUME NEW s \in Slots,
             \/ AskLimiter(s) \/ RecordFailure(s) \/ RecordSuccess(s) \/ CheckPassword(s)
             \/ IssueChallenge(s) \/ Peek(s) \/ UseRecoveryCode(s) \/ VerifyCode(s)
             \/ AcceptTOTPStep(s) \/ FailChallenge(s) \/ Consume(s) \/ ReadPending(s)
             \/ EnableTOTP(s) \/ ForgetPending(s) \/ Mail(s) \/ LimiterFails(s)
      PROVE  ClaimsInv'
  <2>1. UNCHANGED links
    BY <1>2, LeftAlone DEF UseRecoveryCode, EnableTOTP
  <2>2. Others(s) /\ req'[s].pc \notin {"replace", "reset", "close", "commit"}
    BY <1>2, GoesOn
  <2> QED BY <2>1, <2>2, ClaimsAside
<1>3. ASSUME NEW s \in Slots,
             \/ CreateSession(s) \/ DisableTOTP(s) \/ SetPassword(s) \/ RevokeUserSessions(s)
             \/ CallFails(s) \/ FindRows(s)
      PROVE  ClaimsInv'
  <2>1. UNCHANGED links
    BY <1>3, LeftAlone DEF DisableTOTP
  <2>2. Others(s) /\ req'[s].pc \in {"idle", "revoke", "lock"}
    BY <1>3, Goes, GoesWith, Blank
       DEF CreateSession, DisableTOTP, SetPassword, RevokeUserSessions, CallFails
  <2> QED BY <2>1, <2>2, ClaimsAside
<1>4. ASSUME NEW s \in Slots, LockRows(s) PROVE ClaimsInv'
  <2>1. Others(s) /\ req'[s].op = req[s].op /\ req'[s].rows = req[s].rows /\ At(s, "lock")
    BY <1>4, Goes DEF LockRows
  <2>2. req[s].op # "reset"
    BY <2>1, RequestFits DEF At, InCourse
  <2>3. UNCHANGED links /\ \A k \in Claimed(Slots \ {s}) : links[k].live
    BY <1>0, <1>4, LeftAlone DEF Claimed
  <2>4. req[s].op \in {"forgot", "email"} => req[s].rows \cap Claimed(Slots \ {s}) = {}
    BY <1>4 DEF LockRows, LockedLinks
  <2> QED BY <2>1, <2>2, <2>3, <2>4, ClaimsOn
<1>5. ASSUME NEW s \in Slots, Replace(s) PROVE ClaimsInv'
  <2>1. Others(s) /\ req'[s].pc \in {"mail", "idle"} /\ At(s, "replace")
    BY <1>5, GoesWith DEF Replace
  <2>2. CASE req[s].op = "regenerate"
    BY <1>5, <2>1, <2>2, ClaimsAside DEF Replace
  <2>3. CASE req[s].op # "regenerate"
    <3> DEFINE e == [purpose |-> Purpose(s), live |-> TRUE, uses |-> 0]
               w == Without(links, req[s].rows)
    <3>1. links' = Append(w, e) /\ e \in LinkRows
      BY <1>5, <2>3 DEF Replace, Purpose, Purposes, LinkRows
    <3>2. /\ links \in Seq(LinkRows) /\ Len(links) \in Nat /\ DOMAIN links = 1..Len(links)
          /\ \A i \in 1..Len(links) : links[i] \in LinkRows
      BY Lengths DEF Typed, Stores
    <3>3. /\ w \in Seq(LinkRows) /\ Len(w) = Len(links)
          /\ \A i \in 1..Len(links) : w[i] = [links[i] EXCEPT !.live = @ /\ i \notin req[s].rows]
      BY <3>2, Deleted, RowsCanGo
    <3>4. ASSUME NEW k \in Claimed(Slots \ {s}) PROVE links'[k].live
      <4>1. PICK t \in Slots \ {s} : req[t].op = "reset" /\ req[t].link = k
        BY DEF Claimed
      <4>2. k \in 1..Len(links) /\ links[k].live
        BY <1>0, <3>2, <4>1 DEF Claimed
      <4>3. req[s].op \in {"forgot", "email"}
        BY <2>1, <2>3, RequestFits DEF At, InCourse
      <4>4. k \notin req[s].rows
        BY <2>1, <4>1, <4>3 DEF ClaimsInv, ClaimHolds, LockedLinks, Locked, At
      <4> DEFINE b == links[k].live /\ k \notin req[s].rows
      <4>5. w[k] = [links[k] EXCEPT !.live = b]
        BY <3>3, <4>2
      <4>6. b
        BY <4>2, <4>4
      <4> HIDE DEF b, w, e
      <4>7. w[k].live
        BY <3>2, <4>2, <4>5, <4>6 DEF LinkRows
      <4>8. links'[k] = w[k]
        BY <3>1, <3>3, <4>2, Added
      <4> QED BY <4>7, <4>8
    <3>5. req'[s].op # "reset"
      BY <2>1 DEF Typed, Handled, Fits, FitsIn, InCourse
    <3> QED BY <2>1, <3>4, <3>5, ClaimsOn
  <2> QED BY <2>2, <2>3
<1>6. ASSUME NEW s \in Slots, WritePassword(s) \/ FindSessions(s) PROVE ClaimsInv'
  <2>1. Others(s) /\ req'[s].op = req[s].op /\ req'[s].link = req[s].link
        /\ req'[s].pc \in {"close", "commit"}
    BY <1>6, Goes, GoesWith DEF WritePassword
  <2>2. UNCHANGED links /\ \A k \in Claimed(Slots \ {s}) : links[k].live
    BY <1>0, <1>6, LeftAlone DEF Claimed
  <2>3. req[s].op = "reset" => links[req[s].link].live /\ req[s].link \notin LockedLinks(s)
    BY DEF ClaimsInv, ClaimHolds
  <2> QED BY <2>1, <2>2, <2>3, ClaimsOn
<1>7. ASSUME NEW s \in Slots, RequestReset(s) PROVE ClaimsInv'
  <2>1. Others(s) /\ req'[s].pc = "reset" /\ Usable(s, req'[s].link, "reset")
    BY <1>7, GoesClaiming
  <2>2. UNCHANGED links /\ \A k \in Claimed(Slots \ {s}) : links[k].live
    BY <1>0, <1>7, LeftAlone DEF Claimed
  <2> QED BY <2>1, <2>2, ClaimsOn DEF Usable
<1>8. ASSUME NEW s \in Slots, ConfirmEmail(s) PROVE ClaimsInv'
  <2>1. PICK k \in DOMAIN links : Usable(s, k, "email") /\ links' = Used(k)
    BY <1>8 DEF ConfirmEmail
  <2>2. UNCHANGED req /\ req[s].op # "reset"
    BY <1>8, RequestFits DEF ConfirmEmail, At, InCourse
  <2>3. \A j \in Claimed(Slots) : j # k
    BY <2>1, <2>2 DEF Usable, LockedLinks, Claimed
  <2>4. \A j \in Claimed(Slots) : links'[j] = links[j]
    BY <1>0, <2>1, <2>3, OneLink
  <2> QED BY <1>0, <2>2, <2>4, ClaimsIdle
<1>9. ASSUME NEW s \in Slots, CommitReset(s) PROVE ClaimsInv'
  <2> DEFINE k == req[s].link
  <2>1. Others(s) /\ req'[s] = NoRequest /\ links' = Used(k) /\ req[s].op = "reset"
    BY <1>9, Goes, RequestFits DEF CommitReset, At, InCourse
  <2>2. k \in DOMAIN links /\ k \notin LockedLinks(s)
    BY <1>0, <2>1 DEF Claimed, ClaimsInv, ClaimHolds
  <2>3. \A j \in Claimed(Slots \ {s}) : j # k /\ links[j].live /\ j \in DOMAIN links
    BY <1>0, <2>2 DEF LockedLinks, Claimed
  <2>4. \A j \in Claimed(Slots \ {s}) : links'[j].live
    BY <2>1, <2>2, <2>3, OneLink
  <2> QED BY <2>1, <2>4, ClaimsOn, Blank
<1>10. CASE Tick \/ WindowEnds \/ UNCHANGED vars
  <2>1. UNCHANGED <<req, links>>
    BY <1>10 DEF Tick, WindowEnds, storeVars, vars
  <2> QED BY <1>0, <2>1, ClaimsIdle
<1>11. CASE Expire
  <2>1. UNCHANGED req
    BY <1>11 DEF Expire
  <2>2. CASE UNCHANGED links
    BY <1>0, <2>1, <2>2, ClaimsIdle
  <2>3. CASE \E k \in DOMAIN links \ Claimed(Slots) : links' = [links EXCEPT ![k].live = FALSE]
    <3>1. PICK k \in DOMAIN links \ Claimed(Slots) : links' = [links EXCEPT ![k].live = FALSE]
      BY <2>3
    <3>2. \A j \in Claimed(Slots) : links'[j] = links[j]
      BY <1>0, <3>1, OneLink
    <3> QED BY <1>0, <2>1, <3>2, ClaimsIdle
  <2> QED BY <1>11, <2>2, <2>3 DEF Expire, LiveLinks
<1> QED BY <1>1, <1>2, <1>3, <1>4, <1>5, <1>6, <1>7, <1>8, <1>9, <1>10, <1>11 DEF Next, Handle

(* When nothing is handled, nothing is claimed.                             *)
LEMMA ClaimsInit == Init => ClaimsInv
BY Blank DEF Init, ClaimsInv, ClaimHolds

LEMMA TokensLive ==
  ASSUME Typed, ClaimsInv, [Next]_vars
  PROVE  Lives(links, links') /\ Lives(codes, codes')
<1>0. /\ links \in Seq(LinkRows) /\ codes \in Seq(CodeRows)
      /\ DOMAIN links = 1..Len(links) /\ DOMAIN codes = 1..Len(codes) /\ Len(codes) \in Nat
  BY Lengths DEF Typed, Stores
<1>1. NewCode \in CodeRows /\ NewCode.live /\ NewCode.uses = 0
  BY DEF NewCode, CodeRows
<1>2. \A ids : Lives(codes, Without(codes, ids)) /\ Lives(codes, Append(Without(codes, ids), NewCode))
  BY <1>0, <1>1, LivesUnused, LivesIssued, RowsCountable
<1>3. Lives(links, links) /\ Lives(codes, codes)
  BY LivesOn
<1>4. ASSUME UNCHANGED <<links, codes>> PROVE Lives(links, links') /\ Lives(codes, codes')
  BY <1>3, <1>4
<1>5. ASSUME NEW s \in Slots, UseRecoveryCode(s)
      PROVE  Lives(links, links') /\ Lives(codes, codes')
  <2> DEFINE c == req[s].code.recovery
             next == [codes EXCEPT ![c].live = FALSE, ![c].uses = @ + 1]
  <2>1. CASE codes[c].live /\ codes' = next
    <3>1. c \in 1..Len(codes)
      BY <1>0, <1>5, GivenCode
    <3>2. Lives(codes, next)
      BY <1>0, <2>1, <3>1, LivesUsed, RowsCountable
    <3> QED BY <1>3, <1>5, <2>1, <3>2 DEF UseRecoveryCode
  <2>2. CASE UNCHANGED codes
    BY <1>4, <1>5, <2>2 DEF UseRecoveryCode
  <2> QED BY <1>5, <2>1, <2>2 DEF UseRecoveryCode
<1>6. ASSUME NEW s \in Slots, EnableTOTP(s) \/ DisableTOTP(s)
      PROVE  Lives(links, links') /\ Lives(codes, codes')
  BY <1>2, <1>3, <1>6 DEF EnableTOTP, DisableTOTP
<1>7. ASSUME NEW s \in Slots, Replace(s)
      PROVE  Lives(links, links') /\ Lives(codes, codes')
  <2>1. CASE req[s].op = "regenerate"
    BY <1>2, <1>3, <1>7, <2>1 DEF Replace
  <2>2. CASE req[s].op # "regenerate"
    <3> DEFINE e == [purpose |-> Purpose(s), live |-> TRUE, uses |-> 0]
    <3>1. e \in LinkRows /\ e.live /\ e.uses = 0
      BY DEF Purpose, Purposes, LinkRows
    <3>2. links' = Append(Without(links, req[s].rows), e) /\ codes' = codes
      BY <1>7, <2>2 DEF Replace
    <3> HIDE DEF e
    <3>3. Lives(links, links')
      BY <1>0, <3>1, <3>2, LivesIssued, RowsCountable
    <3> QED BY <1>3, <3>2, <3>3
  <2> QED BY <2>1, <2>2
<1>8. ASSUME NEW k \in 1..Len(links), links[k].live,
             \/ links' = [links EXCEPT ![k].live = FALSE]
             \/ links' = [links EXCEPT ![k].live = FALSE, ![k].uses = @ + 1]
      PROVE  Lives(links, links')
  BY <1>0, <1>8, LivesUsed, RowsCountable
<1>9. ASSUME NEW s \in Slots, CommitReset(s) \/ ConfirmEmail(s)
      PROVE  Lives(links, links') /\ Lives(codes, codes')
  <2>1. \E k \in DOMAIN links : links[k].live /\ links' = Used(k)
    <3>1. CASE CommitReset(s)
      <4>1. req[s].op = "reset" /\ links' = Used(req[s].link)
        BY <1>9, <3>1, RequestFits DEF CommitReset, At, InCourse
      <4> QED BY <4>1, ClaimedLive DEF Claimed
    <3>2. CASE ConfirmEmail(s)
      BY <3>2 DEF ConfirmEmail, Usable
    <3> QED BY <1>9, <3>1, <3>2
  <2>2. UNCHANGED codes
    BY <1>9 DEF CommitReset, ConfirmEmail
  <2>3. Lives(links, links')
    BY <1>0, <1>8, <2>1 DEF Used
  <2> QED BY <1>3, <2>2, <2>3
<1>10. CASE Tick \/ WindowEnds
  BY <1>4, <1>10 DEF Tick, WindowEnds, storeVars
<1>11. CASE Expire
  <2>1. codes' = codes
    BY <1>11 DEF Expire
  <2>2. CASE UNCHANGED links
    BY <1>4, <2>1, <2>2
  <2>3. CASE \E p \in Purposes, k \in DOMAIN links :
               k \in LiveLinks(p) /\ links' = [links EXCEPT ![k].live = FALSE]
    BY <1>0, <1>3, <1>8, <2>1, <2>3 DEF LiveLinks
  <2> QED BY <1>11, <2>2, <2>3 DEF Expire, LiveLinks
<1>12. CASE UNCHANGED vars
  BY <1>4, <1>12 DEF vars
<1> QED BY <1>4, <1>5, <1>6, <1>7, <1>9, <1>10, <1>11, <1>12, LeftAlone DEF Next, Handle

(* A link sent by mail is good until it is used, replaced or expired, and   *)
(* of the requests that spend it one succeeds: consumeUserToken is one      *)
(* statement, and the effect commits with it (paneldb/tokens.go).           *)
THEOREM LinkOnce == Spec => LinksSingleUse
<1>1. Init => Link!Init
  BY EmptySeq DEF Init, Link!Init, Ids
<1>2. Typed /\ Lives(links, links') => Link!Next
  <2> SUFFICES ASSUME Typed, Lives(links, links'), NEW t \in Ids
               PROVE  Link!Keep(t) \/ Link!Issue(t) \/ Link!Use(t) \/ Link!End(t) \/ Link!Miss(t)
    BY DEF Link!Next
  <2>1. CASE t \in DOMAIN links
    BY <2>1 DEF Lives, Link!Keep, Link!Use, Link!End
  <2>2. CASE t \in DOMAIN links' \ DOMAIN links
    BY <2>2 DEF Lives, Link!Issue
  <2>3. CASE t \notin DOMAIN links'
    BY <2>3 DEF Lives, Link!Keep
  <2> QED BY <2>1, <2>2, <2>3
<1>3. Typed /\ ClaimsInv /\ [Next]_vars => [Link!Next]_(Link!vars)
  BY <1>2, TokensLive
<1> QED BY <1>1, <1>3, TypeInit, TypeStep, ClaimsInit, ClaimsStep, PTL DEF Spec, LinksSingleUse, Link!Spec

(* A recovery code is accepted once, in a login, to turn two-factor off or  *)
(* to replace the codes, whichever come at the same time (UseRecoveryCode,  *)
(* ReplaceRecoveryCodes and DisableTOTP in paneldb/twofactor.go).           *)
THEOREM RecoveryCodeOnce == Spec => CodesSingleUse
<1>1. Init => RecoveryCode!Init
  <2> SUFFICES ASSUME Init PROVE RecoveryCode!Init
    OBVIOUS
  <2>1. \A c \in DOMAIN codes : codes[c].live /\ codes[c].uses = 0
    BY DEF Init, NewCode
  <2> QED BY <2>1 DEF RecoveryCode!Init
<1>2. Typed /\ Lives(codes, codes') => RecoveryCode!Next
  <2> SUFFICES ASSUME Typed, Lives(codes, codes'), NEW t \in Ids
               PROVE  \/ RecoveryCode!Keep(t) \/ RecoveryCode!Issue(t) \/ RecoveryCode!Use(t)
                      \/ RecoveryCode!End(t) \/ RecoveryCode!Miss(t)
    BY DEF RecoveryCode!Next
  <2>1. CASE t \in DOMAIN codes
    BY <2>1 DEF Lives, RecoveryCode!Keep, RecoveryCode!Use, RecoveryCode!End
  <2>2. CASE t \in DOMAIN codes' \ DOMAIN codes
    BY <2>2 DEF Lives, RecoveryCode!Issue
  <2>3. CASE t \notin DOMAIN codes'
    BY <2>3 DEF Lives, RecoveryCode!Keep
  <2> QED BY <2>1, <2>2, <2>3
<1>3. Typed /\ ClaimsInv /\ [Next]_vars => [RecoveryCode!Next]_(RecoveryCode!vars)
  BY <1>2, TokensLive
<1> QED BY <1>1, <1>3, TypeInit, TypeStep, ClaimsInit, ClaimsStep, PTL DEF Spec, CodesSingleUse, RecoveryCode!Spec

-----------------------------------------------------------------------------
(* TOTP codes.                                                              *)

(* What was accepted of the current secret is no later than the last step,  *)
(* and a request that is about to use a code has it of a secret.            *)
AcceptedSoFar ==
  \/ marks.stale
  \/ \A c \in DOMAIN accepted :
       /\ c \in Codes /\ accepted[c] = 1 /\ c.secret # 0
       /\ c.secret = totp.secret => c.step <= totp.last
HoldsCode(r) ==
  /\ r.pc = "accept" => r.code.secret # 0
  /\ r.pc = "enable" => r.code.secret = r.secret /\ r.secret # 0
CodesKnown == \A s \in Slots : HoldsCode(req[s])
OnceInv == AcceptedSoFar /\ CodesKnown

(* A request that starts or ends holds nothing, others are as they were.    *)
LEMMA KnownOn ==
  ASSUME Typed, CodesKnown, NEW s \in Slots, NEW x, req' = [req EXCEPT ![s] = x], HoldsCode(x)
  PROVE  CodesKnown'
BY DEF CodesKnown, Typed, Handled

LEMMA KnownGoes ==
  ASSUME Typed, CodesKnown, NEW s \in Slots,
         Done(s) \/ \E p \in PCs \ {"accept", "enable"} : Go(s, p)
  PROVE  CodesKnown'
<1>1. CASE Done(s)
  <2>1. HoldsCode(NoRequest)
    BY DEF HoldsCode, NoRequest
  <2> QED BY <1>1, <2>1, KnownOn DEF Done
<1>2. ASSUME NEW p \in PCs \ {"accept", "enable"}, Go(s, p)
      PROVE  CodesKnown'
  <2> DEFINE x == [req[s] EXCEPT !.pc = p]
  <2>1. req' = [req EXCEPT ![s] = x]
    BY <1>2 DEF Go
  <2>2. x.pc = p
    BY RequestFits DEF Requests
  <2> HIDE DEF x
  <2>3. HoldsCode(x)
    BY <2>2 DEF HoldsCode
  <2> QED BY <2>1, <2>3, KnownOn
<1> QED BY <1>1, <1>2

LEMMA OnceInit == Init => OnceInv
BY DEF Init, OnceInv, AcceptedSoFar, CodesKnown, HoldsCode, NoRequest

(* A code that was not accepted is accepted once.                           *)
LEMMA AcceptedOne ==
  ASSUME NEW c, c \notin DOMAIN accepted, Accept(c), \A d \in DOMAIN accepted : accepted[d] = 1
  PROVE  /\ DOMAIN accepted' = DOMAIN accepted \cup {c}
         /\ \A d \in DOMAIN accepted' : accepted'[d] = 1
BY DEF Accept

LEMMA OnceWhenAccepted ==
  ASSUME Typed, OnceInv, NEW s \in Slots, AcceptTOTPStep(s)
  PROVE  OnceInv'
<1> DEFINE c == req[s].code
<1>1. c \in Codes /\ c.step \in Nat /\ c.secret # 0 /\ totp.last \in Nat
  BY RequestFits DEF AcceptTOTPStep, OnceInv, CodesKnown, HoldsCode, At, Requests, Codes, Typed, Stores
<1>2. CodesKnown'
  <2>1. {Right[o] : o \in {"login2fa", "disable", "regenerate"}} \cup {"miss"} \subseteq PCs \ {"accept", "enable"}
    BY DEF Right, PCs
  <2>2. req[s].op \in {"login2fa", "disable", "regenerate"}
    BY RequestFits DEF AcceptTOTPStep, At, InCourse
  <2>3. Done(s) \/ \E p \in PCs \ {"accept", "enable"} : Go(s, p)
    BY <2>1, <2>2 DEF AcceptTOTPStep, IsRight, IsWrong
  <2> QED BY <2>3, KnownGoes DEF OnceInv
<1>3. CASE totp.last < c.step /\ c.secret = totp.secret /\ ~marks.stale
  <2>1. /\ Accept(c) /\ totp' = [totp EXCEPT !.last = c.step]
    BY <1>3 DEF AcceptTOTPStep
  <2>2. \A d \in DOMAIN accepted : /\ d \in Codes /\ accepted[d] = 1 /\ d.secret # 0
                                   /\ d.secret = totp.secret => d.step <= totp.last
    BY <1>3 DEF OnceInv, AcceptedSoFar
  <2>3. c \notin DOMAIN accepted
    BY <1>1, <1>3, <2>2
  <2>4. /\ DOMAIN accepted' = DOMAIN accepted \cup {c}
        /\ \A d \in DOMAIN accepted' : accepted'[d] = 1
    BY <2>1, <2>2, <2>3, AcceptedOne
  <2>5. totp'.last = c.step /\ totp'.secret = totp.secret
    BY <2>1 DEF Typed, Stores
  <2>6. ASSUME NEW d \in DOMAIN accepted, d.secret = totp'.secret
        PROVE  d.step <= totp'.last
    <3>1. d.step <= totp.last /\ d.step \in Nat
      BY <2>2, <2>5, <2>6 DEF Codes
    <3> QED BY <1>1, <1>3, <2>5, <3>1
  <2>7. AcceptedSoFar'
    BY <1>1, <1>3, <2>2, <2>4, <2>5, <2>6 DEF AcceptedSoFar
  <2> QED BY <1>2, <2>7 DEF OnceInv
<1>4. CASE totp.last < c.step /\ (c.secret # totp.secret \/ marks.stale)
  <2>1. marks'.stale
    BY <1>4, RequestFits DEF AcceptTOTPStep, Marks
  <2> QED BY <1>2, <2>1 DEF OnceInv, AcceptedSoFar
<1>5. CASE ~(totp.last < c.step)
  BY <1>2, <1>5 DEF AcceptTOTPStep, OnceInv, AcceptedSoFar
<1> QED BY <1>3, <1>4, <1>5

LEMMA OnceWhenEnabled ==
  ASSUME Typed, OnceInv, NEW s \in Slots, EnableTOTP(s)
  PROVE  OnceInv'
<1> DEFINE c == req[s].code
<1>1. c \in Codes /\ c.step \in Nat /\ c.secret = req[s].secret /\ c.secret # 0
  BY RequestFits DEF EnableTOTP, OnceInv, CodesKnown, HoldsCode, At, Requests, Codes
<1>2. CodesKnown'
  BY KnownGoes DEF EnableTOTP, OnceInv, PCs
<1>3. CASE marks.stale \/ \E d \in DOMAIN accepted : d.secret = req[s].secret
  <2>1. marks'.stale
    BY <1>3, RequestFits DEF EnableTOTP, Marks
  <2> QED BY <1>2, <2>1 DEF OnceInv, AcceptedSoFar
<1>4. CASE ~marks.stale /\ \A d \in DOMAIN accepted : d.secret # req[s].secret
  <2>1. Accept(c) /\ totp' = [secret |-> req[s].secret, last |-> c.step]
    BY DEF EnableTOTP
  <2>2. \A d \in DOMAIN accepted : d \in Codes /\ accepted[d] = 1 /\ d.secret # 0
    BY <1>4 DEF OnceInv, AcceptedSoFar
  <2>3. c \notin DOMAIN accepted
    BY <1>1, <1>4
  <2>4. /\ DOMAIN accepted' = DOMAIN accepted \cup {c}
        /\ \A d \in DOMAIN accepted' : accepted'[d] = 1
    BY <2>1, <2>2, <2>3, AcceptedOne
  <2>5. AcceptedSoFar'
    BY <1>1, <1>4, <2>1, <2>2, <2>4 DEF AcceptedSoFar
  <2> QED BY <1>2, <2>5 DEF OnceInv
<1> QED BY <1>3, <1>4

(* The secret is as it was, or off, and nothing is accepted.                *)
LEMMA SameAccepted ==
  ASSUME OnceInv, CodesKnown', UNCHANGED accepted, marks'.stale = marks.stale,
         UNCHANGED totp \/ totp'.secret = 0
  PROVE  OnceInv'
BY DEF OnceInv, AcceptedSoFar

LEMMA OnceWhenRequested ==
  ASSUME Typed, OnceInv, NEW s \in Slots, Request(s) \/ RequestReset(s)
  PROVE  OnceInv'
<1>0. CodesKnown
  BY DEF OnceInv
<1>1. ASSUME NEW r, Begin(s, r), r.pc \notin {"accept", "enable"}
      PROVE  OnceInv'
  <2>1. CodesKnown'
    BY <1>0, <1>1, KnownOn DEF Begin, HoldsCode
  <2> QED BY <1>1, <2>1, SameAccepted DEF Begin, historyVars, storeVars
<1>2. CASE Setup(s) \/ Logout(s)
  <2>1. CodesKnown'
    BY <1>0, <1>2 DEF Setup, Logout, CodesKnown
  <2> QED BY <1>2, <2>1, SameAccepted DEF Setup, Logout, historyVars
<1>3. CASE RequestReset(s)
  <2>1. PICK k \in DOMAIN links :
          Begin(s, [NoRequest EXCEPT !.op = "reset", !.pc = "reset", !.link = k])
    BY <1>3 DEF RequestReset
  <2> DEFINE r == [NoRequest EXCEPT !.op = "reset", !.pc = "reset", !.link = k]
  <2>2. r.pc = "reset"
    BY Blank DEF Requests
  <2> HIDE DEF r
  <2>3. r.pc \notin {"accept", "enable"}
    BY <2>2
  <2> QED BY <1>1, <2>1, <2>3 DEF r
<1> QED BY <1>1, <1>2, <1>3, Begun DEF Starts

LEMMA OnceWhenChecked ==
  ASSUME Typed, OnceInv, NEW s \in Slots, VerifyCode(s) \/ ReadPending(s)
  PROVE  OnceInv'
<1>0. CodesKnown /\ req[s] \in Requests
  BY RequestFits DEF OnceInv
<1>1. CASE VerifyCode(s)
  <2>1. CASE Matches(req[s].code, totp.secret) /\ Go(s, "accept")
    <3> DEFINE x == [req[s] EXCEPT !.pc = "accept"]
    <3>1. req' = [req EXCEPT ![s] = x]
      BY <2>1 DEF Go
    <3>2. x.pc = "accept" /\ x.code = req[s].code /\ req[s].code.secret # 0
      BY <1>0, <2>1 DEF Requests, Matches
    <3> HIDE DEF x
    <3>3. CodesKnown'
      BY <1>0, <3>1, <3>2, KnownOn DEF HoldsCode
    <3> QED BY <1>1, <3>3, SameAccepted DEF VerifyCode, storeVars
  <2>2. CASE IsWrong(s)
    <3>1. CodesKnown'
      BY <1>0, <2>2, KnownGoes DEF IsWrong, PCs
    <3> QED BY <1>1, <3>1, SameAccepted DEF VerifyCode, storeVars
  <2> QED BY <1>1, <2>1, <2>2 DEF VerifyCode
<1>2. CASE ReadPending(s)
  <2>1. CASE Matches(req[s].code, pending)
             /\ req' = [req EXCEPT ![s].pc = "enable", ![s].secret = pending]
    <3> DEFINE x == [req[s] EXCEPT !.pc = "enable", !.secret = pending]
    <3>1. req' = [req EXCEPT ![s] = x]
      BY <2>1
    <3>2. x.pc = "enable" /\ x.code.secret = x.secret /\ x.secret # 0
      BY <1>0, <2>1 DEF Requests, Matches
    <3> HIDE DEF x
    <3>3. CodesKnown'
      BY <1>0, <3>1, <3>2, KnownOn DEF HoldsCode
    <3> QED BY <1>2, <3>3, SameAccepted DEF ReadPending, storeVars, historyVars
  <2>2. CASE Done(s)
    <3>1. CodesKnown'
      BY <1>0, <2>2, KnownGoes
    <3> QED BY <1>2, <3>1, SameAccepted DEF ReadPending, storeVars, historyVars
  <2> QED BY <1>2, <2>1, <2>2 DEF ReadPending
<1> QED BY <1>1, <1>2

LEMMA OnceOtherwise ==
  ASSUME Typed, OnceInv, NEW s \in Slots,
         \/ AskLimiter(s) \/ RecordFailure(s) \/ RecordSuccess(s) \/ CheckPassword(s)
         \/ IssueChallenge(s) \/ CreateSession(s) \/ Peek(s) \/ UseRecoveryCode(s)
         \/ FailChallenge(s) \/ Consume(s) \/ ForgetPending(s) \/ DisableTOTP(s) \/ SetPassword(s)
         \/ RevokeUserSessions(s) \/ FindRows(s) \/ LockRows(s) \/ Replace(s) \/ Mail(s)
         \/ LimiterFails(s) \/ CallFails(s) \/ WritePassword(s) \/ FindSessions(s) \/ CommitReset(s)
  PROVE  OnceInv'
<1>0. CodesKnown /\ req[s] \in Requests /\ marks \in Marks
  BY RequestFits DEF OnceInv
<1>1. /\ {"password", "factor", "fail", "session", "issue", "success", "set", "find", "limit",
          "miss", "consume", "off", "revoke", "replace", "close"} \subseteq PCs \ {"accept", "enable"}
  BY DEF PCs
<1>2. At(s, "limit") => Guarded[req[s].op] \in {"password", "factor"}
  BY RequestFits DEF At, InCourse, Guarded
<1>3. At(s, "factor") => Right[req[s].op] \in {"consume", "off", "find"}
  BY RequestFits DEF At, InCourse, Right
<1>4. ASSUME Done(s) \/ \E p \in PCs \ {"accept", "enable"} : Go(s, p),
             UNCHANGED <<accepted, totp>> \/ (UNCHANGED accepted /\ totp'.secret = 0),
             marks'.stale = marks.stale
      PROVE  OnceInv'
  BY <1>0, <1>4, KnownGoes, SameAccepted
<1>5. CASE AskLimiter(s) \/ RecordFailure(s) \/ RecordSuccess(s) \/ CheckPassword(s)
  BY <1>1, <1>2, <1>4, <1>5
  DEF AskLimiter, RecordFailure, RecordSuccess, CheckPassword, storeVars, historyVars
<1>6. CASE IssueChallenge(s) \/ CreateSession(s) \/ Peek(s) \/ FailChallenge(s)
           \/ ForgetPending(s) \/ SetPassword(s) \/ RevokeUserSessions(s) \/ LockRows(s) \/ Mail(s)
  BY <1>1, <1>4, <1>6
  DEF IssueChallenge, CreateSession, Peek, FailChallenge, ForgetPending, SetPassword,
      RevokeUserSessions, LockRows, Mail, storeVars, historyVars
<1>7. CASE UseRecoveryCode(s)
  BY <1>1, <1>3, <1>4, <1>7 DEF UseRecoveryCode, IsRight, IsWrong
<1>8. CASE DisableTOTP(s)
  BY <1>1, <1>4, <1>8 DEF DisableTOTP, historyVars
<1>9. CASE LimiterFails(s) \/ CallFails(s)
  <2>1. Done(s) \/ \E p \in PCs \ {"accept", "enable"} : Go(s, p)
    BY <1>1, <1>2, <1>9 DEF LimiterFails, CallFails
  <2>2. marks'.stale = marks.stale
    BY <1>0, <1>9 DEF LimiterFails, CallFails, Marks
  <2> QED BY <1>4, <1>9, <2>1, <2>2 DEF LimiterFails, CallFails, storeVars
<1>10. ASSUME NEW x, req' = [req EXCEPT ![s] = x], x.pc \notin {"accept", "enable"},
              UNCHANGED <<accepted, totp>>, marks'.stale = marks.stale
       PROVE  OnceInv'
  <2>1. CodesKnown'
    BY <1>0, <1>10, KnownOn DEF HoldsCode
  <2> QED BY <1>10, <2>1, SameAccepted
<1>11. CASE Consume(s)
  <2>1. CASE Done(s)
    BY <1>4, <1>11, <2>1 DEF Consume, historyVars
  <2>2. CASE req' = [req EXCEPT ![s].pc = "success", ![s].pw = challenges[req[s].ch].pw]
    <3> DEFINE x == [req[s] EXCEPT !.pc = "success", !.pw = challenges[req[s].ch].pw]
    <3>1. x.pc = "success" /\ req' = [req EXCEPT ![s] = x]
      BY <1>0, <2>2 DEF Requests
    <3> HIDE DEF x
    <3> QED BY <1>10, <1>11, <3>1 DEF Consume, historyVars
  <2> QED BY <1>11, <2>1, <2>2 DEF Consume
<1>12. CASE FindRows(s)
  <2> DEFINE rows == IF req[s].op = "regenerate" THEN LiveCodes ELSE LiveLinks(Purpose(s))
             x == [req[s] EXCEPT !.pc = "lock", !.rows = rows]
  <2>1. x.pc = "lock" /\ req' = [req EXCEPT ![s] = x]
    BY <1>0, <1>12 DEF Requests, FindRows
  <2> HIDE DEF x
  <2> QED BY <1>10, <1>12, <2>1 DEF FindRows, historyVars, storeVars
<1>13. CASE Replace(s)
  <2>1. CASE req[s].op = "regenerate"
    BY <1>4, <1>13, <2>1 DEF Replace
  <2>2. CASE req[s].op # "regenerate"
    <3> DEFINE x == [req[s] EXCEPT !.pc = "mail", !.link = Len(links'), !.rows = {}]
    <3>1. x.pc = "mail" /\ req' = [req EXCEPT ![s] = x]
      BY <1>0, <1>13, <2>2 DEF Requests, Replace
    <3>2. marks'.stale = marks.stale
      BY <1>0, <1>13, <2>2 DEF Replace, Marks
    <3> HIDE DEF x
    <3> QED BY <1>10, <1>13, <3>1, <3>2 DEF Replace
  <2> QED BY <2>1, <2>2
<1>14. CASE WritePassword(s) \/ CommitReset(s)
  BY <1>1, <1>4, <1>14 DEF WritePassword, CommitReset, storeVars, historyVars
<1>15. CASE FindSessions(s)
  <2> DEFINE x == [req[s] EXCEPT !.pc = "commit", !.rows = LiveSessions]
  <2>1. x.pc = "commit" /\ req' = [req EXCEPT ![s] = x]
    BY <1>0, <1>15 DEF Requests, FindSessions
  <2> HIDE DEF x
  <2> QED BY <1>10, <1>15, <2>1 DEF FindSessions, historyVars, storeVars
<1> QED BY <1>5, <1>6, <1>7, <1>8, <1>9, <1>11, <1>12, <1>13, <1>14, <1>15

LEMMA OnceStep == Typed /\ OnceInv /\ [Next]_vars => OnceInv'
<1> SUFFICES ASSUME Typed, OnceInv, [Next]_vars PROVE OnceInv'
  OBVIOUS
<1>1. ASSUME UNCHANGED <<req, accepted, marks, totp>> PROVE OnceInv'
  BY <1>1 DEF OnceInv, AcceptedSoFar, CodesKnown
<1>2. ASSUME NEW s \in Slots, ConfirmEmail(s) PROVE OnceInv'
  BY <1>1, <1>2 DEF ConfirmEmail, historyVars
<1>3. CASE Tick \/ WindowEnds \/ Expire
  BY <1>1, <1>3 DEF Tick, WindowEnds, Expire, historyVars, storeVars
<1>4. CASE UNCHANGED vars
  BY <1>1, <1>4 DEF vars
<1> QED BY <1>2, <1>3, <1>4, OnceWhenRequested, OnceWhenAccepted, OnceWhenEnabled, OnceWhenChecked,
           OnceOtherwise DEF Next, Handle

(* No TOTP code is accepted twice, whichever requests present it at the     *)
(* same time (AcceptTOTPStep compares and sets in one statement).           *)
THEOREM TotpOnce == Spec => []CodesOnce
<1>1. OnceInv => CodesOnce
  BY DEF OnceInv, AcceptedSoFar, CodesOnce
<1> QED BY <1>1, TypeInit, TypeStep, OnceInit, OnceStep, PTL DEF Spec

-----------------------------------------------------------------------------
(* Challenges.                                                              *)

(* A challenge that a request holds is deleted, no other request holds it,  *)
(* and no session was made with it; with one that has made a session no     *)
(* other was; and a challenge that exists has failures left.                *)
Held ==
  \A s \in Slots, c \in Nat \ {0} : Holds(s, c) =>
    /\ c \in DOMAIN challenges /\ ~challenges[c].live
    /\ \A t \in Slots : Holds(t, c) => t = s
    /\ \A x \in DOMAIN sessions : sessions[x].ch # c
Made ==
  \A x \in DOMAIN sessions : sessions[x].ch # 0 =>
    /\ sessions[x].ch \in DOMAIN challenges /\ ~challenges[sessions[x].ch].live
    /\ \A y \in DOMAIN sessions : sessions[y].ch = sessions[x].ch => y = x
HasLeft == \A c \in DOMAIN challenges : challenges[c].live => challenges[c].failures < MaxFailures
ChallengeInv == Held /\ Made /\ HasLeft

(* No request comes to hold a challenge; no challenge changes, and no       *)
(* session is made.                                                         *)
NoneHeld == \A t \in Slots, c \in Nat \ {0} : Holds(t, c)' => Holds(t, c)
SameMade ==
  DOMAIN sessions' = DOMAIN sessions /\ \A x \in DOMAIN sessions : sessions'[x].ch = sessions[x].ch
Apart == NoneHeld /\ SameMade /\ UNCHANGED challenges

MadeWith(c) == {x \in DOMAIN sessions : sessions[x].ch = c}
IsLive(c) == challenges[c].live \/ \E s \in Slots : Holds(s, c)

LEMMA ApartKeeps == ChallengeInv /\ Apart => ChallengeInv'
<1> SUFFICES ASSUME ChallengeInv, Apart PROVE ChallengeInv'
  OBVIOUS
<1>1. Held'
  BY DEF ChallengeInv, Held, Apart, NoneHeld, SameMade
<1>2. Made'
  BY DEF ChallengeInv, Made, Apart, SameMade
<1>3. HasLeft'
  BY DEF ChallengeInv, HasLeft, Apart
<1> QED BY <1>1, <1>2, <1>3 DEF ChallengeInv

LEMMA HeldOn ==
  ASSUME Typed, NEW s \in Slots, NEW x, req' = [req EXCEPT ![s] = x],
         \/ x.pc \notin {"success", "session"}
         \/ x.ch = 0
         \/ x.ch = req[s].ch /\ req[s].pc \in {"success", "session"}
  PROVE  NoneHeld
BY DEF NoneHeld, Holds, Typed, Handled

LEMMA HeldGoes ==
  ASSUME Typed, NEW s \in Slots,
         Done(s) \/ \E p : /\ Go(s, p)
                           /\ \/ p \notin {"success", "session"}
                              \/ req[s].op # "login2fa"
                              \/ req[s].pc \in {"success", "session"}
  PROVE  NoneHeld
<1>1. CASE Done(s)
  BY <1>1, HeldOn DEF Done, NoRequest
<1>2. ASSUME NEW p, Go(s, p),
             p \notin {"success", "session"} \/ req[s].op # "login2fa"
               \/ req[s].pc \in {"success", "session"}
      PROVE  NoneHeld
  <2> DEFINE x == [req[s] EXCEPT !.pc = p]
  <2>1. req' = [req EXCEPT ![s] = x]
    BY <1>2 DEF Go
  <2>2. x.pc = p /\ x.ch = req[s].ch
    BY RequestFits DEF Requests
  <2>3. req[s].op # "login2fa" => req[s].ch = 0
    BY RequestFits DEF Fits, FitsIn
  <2> HIDE DEF x
  <2> QED BY <1>2, <2>1, <2>2, <2>3, HeldOn
<1> QED BY <1>1, <1>2

LEMMA SessionsSame ==
  ASSUME Typed, \/ UNCHANGED sessions
                \/ \E x \in 1..Len(sessions) : sessions' = [sessions EXCEPT ![x].live = FALSE]
                \/ \E x \in 1..Len(sessions) : sessions' = [sessions EXCEPT ![x].kept = TRUE]
                \/ \E y : sessions' = Revoked(y)
                \/ \E ids : sessions' = Without(sessions, ids)
  PROVE  SameMade
<1>1. DOMAIN sessions = 1..Len(sessions) /\ \A x \in 1..Len(sessions) : sessions[x] \in SessionRows
  BY Lengths DEF Typed
<1>2. CASE UNCHANGED sessions
  BY <1>2 DEF SameMade
<1>3. ASSUME NEW x \in 1..Len(sessions),
             \/ sessions' = [sessions EXCEPT ![x].live = FALSE]
             \/ sessions' = [sessions EXCEPT ![x].kept = TRUE]
      PROVE  SameMade
  <2>1. DOMAIN sessions' = DOMAIN sessions /\ \A y \in DOMAIN sessions \ {x} : sessions'[y] = sessions[y]
    BY <1>1, <1>3
  <2>2. sessions'[x] = [sessions[x] EXCEPT !.live = FALSE] \/ sessions'[x] = [sessions[x] EXCEPT !.kept = TRUE]
    BY <1>1, <1>3
  <2>3. sessions'[x].ch = sessions[x].ch
    BY <1>1, <2>2 DEF SessionRows
  <2> QED BY <2>1, <2>3 DEF SameMade
<1>4. ASSUME NEW y, sessions' = Revoked(y) PROVE SameMade
  <2>1. DOMAIN sessions' = DOMAIN sessions
        /\ \A x \in DOMAIN sessions : sessions'[x] = [sessions[x] EXCEPT !.live = @ /\ x = y]
    BY <1>4 DEF Revoked
  <2>2. \A x \in DOMAIN sessions : sessions'[x].ch = sessions[x].ch
    BY <1>1, <2>1 DEF SessionRows
  <2> QED BY <2>1, <2>2 DEF SameMade
<1>5. ASSUME NEW ids, sessions' = Without(sessions, ids) PROVE SameMade
  <2>1. DOMAIN sessions' = DOMAIN sessions
        /\ \A x \in DOMAIN sessions : sessions'[x] = [sessions[x] EXCEPT !.live = @ /\ x \notin ids]
    BY <1>5 DEF Without
  <2>2. \A x \in DOMAIN sessions : sessions'[x].ch = sessions[x].ch
    BY <1>1, <2>1 DEF SessionRows
  <2> QED BY <2>1, <2>2 DEF SameMade
<1> QED BY <1>2, <1>3, <1>4, <1>5

(* Requests are begun.                                                      *)
LEMMA ApartRequested ==
  ASSUME Typed, NEW s \in Slots, Request(s)
  PROVE  Apart
<1>1. ASSUME NEW r, Begin(s, r), r.pc \notin {"success", "session"}
      PROVE  Apart
  BY <1>1, HeldOn, SessionsSame DEF Begin, Apart, storeVars
<1>2. CASE Setup(s)
  BY <1>2, SessionsSame DEF Setup, Apart, NoneHeld, Holds
<1>3. CASE Logout(s)
  <2>1. PICK x \in LiveSessions : sessions' = [sessions EXCEPT ![x].live = FALSE]
    BY <1>3 DEF Logout
  <2>2. x \in 1..Len(sessions)
    BY Lengths DEF Typed, LiveSessions
  <2> QED BY <1>3, <2>1, <2>2, SessionsSame DEF Logout, Apart, NoneHeld, Holds
<1> QED BY <1>1, <1>2, <1>3, Begun DEF Starts

(* Most steps of a request are apart from challenges.                       *)
LEMMA ApartOtherwise ==
  ASSUME Typed, NEW s \in Slots,
         \/ AskLimiter(s) \/ RecordFailure(s) \/ RecordSuccess(s) \/ CheckPassword(s) \/ Peek(s)
         \/ UseRecoveryCode(s) \/ VerifyCode(s) \/ AcceptTOTPStep(s) \/ ReadPending(s)
         \/ EnableTOTP(s) \/ ForgetPending(s) \/ DisableTOTP(s) \/ SetPassword(s)
         \/ RevokeUserSessions(s) \/ FindRows(s) \/ LockRows(s) \/ Replace(s) \/ Mail(s)
         \/ LimiterFails(s) \/ CallFails(s) \/ ConfirmEmail(s)
         \/ RequestReset(s) \/ WritePassword(s) \/ FindSessions(s) \/ CommitReset(s)
  PROVE  Apart
<1>0. req[s] \in Requests
  BY RequestFits
<1>1. At(s, "limit") => Guarded[req[s].op] \in {"password", "factor"}
  BY RequestFits DEF At, InCourse, Guarded
<1>2. At(s, "factor") \/ At(s, "accept") => Right[req[s].op] \in {"consume", "off", "find"}
  BY RequestFits DEF At, InCourse, Right
<1>3. UNCHANGED sessions => SameMade
  BY SessionsSame
<1>4. ASSUME AskLimiter(s) \/ RecordFailure(s) \/ RecordSuccess(s) \/ Peek(s)
             \/ EnableTOTP(s) \/ ForgetPending(s) \/ DisableTOTP(s) \/ LockRows(s) \/ Mail(s)
      PROVE  Apart
  <2>1. NoneHeld
    BY <1>1, <1>4, HeldGoes
    DEF AskLimiter, RecordFailure, RecordSuccess, Peek, EnableTOTP, ForgetPending, DisableTOTP,
        LockRows, Mail, At
  <2> QED BY <1>3, <1>4, <2>1
      DEF AskLimiter, RecordFailure, RecordSuccess, Peek, EnableTOTP, ForgetPending, DisableTOTP,
          LockRows, Mail, Apart, storeVars
<1>5. CASE CheckPassword(s)
  <2>1. req[s].op \in {"login", "password", "email", "disable", "regenerate"}
    BY <1>5, RequestFits DEF CheckPassword, At, InCourse
  <2>2. \E p : Go(s, p) \/ Done(s)
    BY <1>5 DEF CheckPassword
  <2>3. NoneHeld
    BY <2>1, <2>2, HeldGoes
  <2> QED BY <1>3, <1>5, <2>3 DEF CheckPassword, Apart, storeVars
<1>6. CASE UseRecoveryCode(s) \/ VerifyCode(s) \/ AcceptTOTPStep(s)
  <2>1. Done(s) \/ \E p : Go(s, p) /\ p \notin {"success", "session"}
    <3>1. At(s, "factor") \/ At(s, "accept")
      BY <1>6 DEF UseRecoveryCode, VerifyCode, AcceptTOTPStep
    <3>2. Right[req[s].op] \notin {"success", "session"}
      BY <1>2, <3>1
    <3>3. IsRight(s) \/ IsWrong(s) \/ Go(s, "accept")
      BY <1>6 DEF UseRecoveryCode, VerifyCode, AcceptTOTPStep
    <3> QED BY <3>2, <3>3 DEF IsRight, IsWrong
  <2>2. NoneHeld
    BY <2>1, HeldGoes
  <2> QED BY <1>3, <1>6, <2>2 DEF UseRecoveryCode, VerifyCode, AcceptTOTPStep, Apart, storeVars
<1>7. CASE ReadPending(s)
  <2>1. CASE Done(s)
    BY <1>3, <1>7, <2>1, HeldGoes DEF ReadPending, Apart, storeVars
  <2>2. CASE req' = [req EXCEPT ![s].pc = "enable", ![s].secret = pending]
    <3> DEFINE x == [req[s] EXCEPT !.pc = "enable", !.secret = pending]
    <3>1. x.pc = "enable" /\ req' = [req EXCEPT ![s] = x]
      BY <1>0, <2>2 DEF Requests
    <3> HIDE DEF x
    <3> QED BY <1>3, <1>7, <3>1, HeldOn DEF ReadPending, Apart, storeVars
  <2> QED BY <1>7, <2>1, <2>2 DEF ReadPending
<1>8. CASE SetPassword(s)
  <2>1. req[s].by \in 1..Len(sessions)
    BY <1>8, RequestFits DEF SetPassword, At, Fits, FitsIn, InCourse
  <2>2. SameMade
    BY <1>8, <2>1, SessionsSame DEF SetPassword
  <2> QED BY <1>8, <2>2, HeldGoes DEF SetPassword, Apart
<1>9. CASE RevokeUserSessions(s)
  <2>1. SameMade
    BY <1>9, SessionsSame DEF RevokeUserSessions
  <2> QED BY <1>9, <2>1, HeldGoes DEF RevokeUserSessions, Apart
<1>10. CASE FindRows(s)
  <2> DEFINE rows == IF req[s].op = "regenerate" THEN LiveCodes ELSE LiveLinks(Purpose(s))
             x == [req[s] EXCEPT !.pc = "lock", !.rows = rows]
  <2>1. x.pc = "lock" /\ req' = [req EXCEPT ![s] = x]
    BY <1>0, <1>10 DEF Requests, FindRows
  <2> HIDE DEF x
  <2> QED BY <1>3, <1>10, <2>1, HeldOn DEF FindRows, Apart, storeVars
<1>11. CASE Replace(s)
  <2>1. CASE req[s].op = "regenerate"
    BY <1>3, <1>11, <2>1, HeldGoes DEF Replace, Apart
  <2>2. CASE req[s].op # "regenerate"
    <3> DEFINE x == [req[s] EXCEPT !.pc = "mail", !.link = Len(links'), !.rows = {}]
    <3>1. x.pc = "mail" /\ req' = [req EXCEPT ![s] = x]
      BY <1>0, <1>11, <2>2 DEF Requests, Replace
    <3> HIDE DEF x
    <3> QED BY <1>3, <1>11, <3>1, HeldOn DEF Replace, Apart
  <2> QED BY <2>1, <2>2
<1>12. CASE LimiterFails(s) \/ CallFails(s)
  <2>1. NoneHeld
    BY <1>1, <1>12, HeldGoes DEF LimiterFails, CallFails, At
  <2> QED BY <1>3, <1>12, <2>1 DEF LimiterFails, CallFails, Apart, storeVars
<1>13. CASE CommitReset(s)
  <2>1. SameMade
    BY <1>13, SessionsSame DEF CommitReset
  <2> QED BY <1>13, <2>1, HeldGoes DEF CommitReset, Apart
<1>14. CASE ConfirmEmail(s)
  BY <1>3, <1>14 DEF ConfirmEmail, Apart, NoneHeld, Holds
<1>15. CASE WritePassword(s)
  BY <1>3, <1>15, HeldGoes DEF WritePassword, Apart, storeVars
<1>16. CASE RequestReset(s) \/ FindSessions(s)
  <2>1. Others(s) /\ req'[s].pc \in {"reset", "commit"}
    BY <1>16, GoesClaiming, GoesWith
  <2>2. NoneHeld
    BY <2>1 DEF NoneHeld, Holds, Others
  <2>3. UNCHANGED <<challenges, sessions>>
    BY <1>16 DEF RequestReset, Begin, FindSessions, storeVars
  <2> QED BY <1>3, <2>2, <2>3 DEF Apart
<1> QED BY <1>4, <1>5, <1>6, <1>7, <1>8, <1>9, <1>10, <1>11, <1>12, <1>13, <1>14, <1>15, <1>16

(* A challenge as a token.                                                  *)
Phase(c) ==
  IF c \notin DOMAIN challenges THEN "none" ELSE IF IsLive(c) THEN "live" ELSE "over"
Count(c) == Cardinality(MadeWith(c))
Misses(c) == IF c \in DOMAIN challenges THEN challenges[c].failures ELSE 0

LEMMA AsToken ==
  ASSUME NEW c \in Ids
  PROVE  /\ (Phase(c)' = Phase(c) /\ Count(c)' = Count(c) /\ Misses(c)' = Misses(c))
              => Challenge!Keep(c)
         /\ (Phase(c) = "none" /\ Phase(c)' = "live" /\ Count(c)' = Count(c) /\ Misses(c)' = Misses(c))
              => Challenge!Issue(c)
         /\ (Phase(c) = "live" /\ Phase(c)' = "over" /\ Count(c)' = Count(c) + 1
               /\ Misses(c)' = Misses(c)) => Challenge!Use(c)
         /\ (Phase(c) = "live" /\ Phase(c)' = "over" /\ Count(c)' = Count(c) /\ Misses(c)' = Misses(c))
              => Challenge!End(c)
         /\ (Phase(c) = "live" /\ Misses(c)' = Misses(c) + 1 /\ Count(c)' = Count(c)
               /\ Phase(c)' = IF Misses(c)' = MaxFailures THEN "over" ELSE "live")
              => Challenge!Miss(c)
<1>1. (Phase(c)' = Phase(c) /\ Count(c)' = Count(c) /\ Misses(c)' = Misses(c)) => Challenge!Keep(c)
  BY DEF Phase, Count, Misses, IsLive, MadeWith, Challenge!Keep
<1>2. (Phase(c) = "none" /\ Phase(c)' = "live" /\ Count(c)' = Count(c) /\ Misses(c)' = Misses(c))
        => Challenge!Issue(c)
  BY DEF Phase, Count, Misses, IsLive, MadeWith, Challenge!Issue
<1>3. (Phase(c) = "live" /\ Phase(c)' = "over" /\ Count(c)' = Count(c) + 1
         /\ Misses(c)' = Misses(c)) => Challenge!Use(c)
  BY DEF Phase, Count, Misses, IsLive, MadeWith, Challenge!Use
<1>4. (Phase(c) = "live" /\ Phase(c)' = "over" /\ Count(c)' = Count(c) /\ Misses(c)' = Misses(c))
        => Challenge!End(c)
  BY DEF Phase, Count, Misses, IsLive, MadeWith, Challenge!End
<1>5. (Phase(c) = "live" /\ Misses(c)' = Misses(c) + 1 /\ Count(c)' = Count(c)
         /\ Phase(c)' = IF Misses(c)' = MaxFailures THEN "over" ELSE "live") => Challenge!Miss(c)
  BY DEF Phase, Count, Misses, IsLive, MadeWith, Challenge!Miss
<1> QED BY <1>1, <1>2, <1>3, <1>4, <1>5

Moves(c) ==
  Challenge!Keep(c) \/ Challenge!Issue(c) \/ Challenge!Use(c) \/ Challenge!End(c) \/ Challenge!Miss(c)

(* What is apart from challenges may end those that a request holds.        *)
LEMMA ApartMoves == ASSUME Apart, NEW c \in Ids PROVE Moves(c)
<1>1. MadeWith(c)' = MadeWith(c)
  BY DEF MadeWith, Apart, SameMade
<1>2. Count(c)' = Count(c) /\ Misses(c)' = Misses(c)
  BY <1>1 DEF Count, Misses, Apart
<1>3. Phase(c)' = Phase(c) \/ (Phase(c) = "live" /\ Phase(c)' = "over")
  BY DEF Phase, IsLive, Apart, NoneHeld, Ids
<1> QED BY <1>2, <1>3, AsToken DEF Moves

LEMMA IssueMoves ==
  ASSUME Typed, ChallengeInv, NEW s \in Slots, IssueChallenge(s)
  PROVE  ChallengeInv' /\ \A c \in Ids : Moves(c)
<1> DEFINE n == Len(challenges)
           e == [live |-> TRUE, failures |-> 0, pw |-> req[s].pw]
<1>1. e \in ChallengeRows /\ e.live /\ e.failures = 0
  BY RequestFits DEF Requests, ChallengeRows
<1>2. challenges' = Append(challenges, e) /\ challenges \in Seq(ChallengeRows)
  BY DEF IssueChallenge, Typed, Stores
<1> HIDE DEF e
<1>3. /\ n \in Nat /\ DOMAIN challenges = 1..n /\ DOMAIN challenges' = 1..(n + 1)
      /\ \A i \in 1..n : challenges'[i] = challenges[i]
      /\ challenges'[n + 1] = e
  BY <1>1, <1>2, Added
<1>4. NoneHeld /\ UNCHANGED sessions
  BY HeldGoes DEF IssueChallenge
<1>5. \A c \in DOMAIN challenges : c \in DOMAIN challenges' /\ challenges'[c] = challenges[c]
  BY <1>3
<1>6. Held'
  BY <1>4, <1>5 DEF ChallengeInv, Held, NoneHeld
<1>7. Made'
  BY <1>4, <1>5 DEF ChallengeInv, Made
<1>8. HasLeft'
  BY <1>1, <1>3, LimitAssumption DEF ChallengeInv, HasLeft
<1>9. ASSUME NEW c \in Ids PROVE Moves(c)
  <2>1. Count(c)' = Count(c)
    BY <1>4 DEF Count, MadeWith
  <2>2. CASE c \in DOMAIN challenges
    <3>1. Misses(c)' = Misses(c) /\ (Phase(c)' = Phase(c) \/ (Phase(c) = "live" /\ Phase(c)' = "over"))
      BY <1>4, <1>5, <2>2 DEF Misses, Phase, IsLive, NoneHeld, Ids
    <3> QED BY <2>1, <3>1, AsToken DEF Moves
  <2>3. CASE c = n + 1
    <3>1. c \notin DOMAIN challenges /\ c \in DOMAIN challenges' /\ challenges'[c] = e
      BY <1>3, <2>3
    <3>2. Phase(c) = "none" /\ Phase(c)' = "live" /\ Misses(c)' = Misses(c)
      BY <1>1, <3>1 DEF Misses, Phase, IsLive
    <3> QED BY <2>1, <3>2, AsToken DEF Moves
  <2>4. CASE c \notin DOMAIN challenges /\ c # n + 1
    <3>1. c \notin DOMAIN challenges'
      BY <1>3, <2>4 DEF Ids
    <3>2. Phase(c)' = Phase(c) /\ Misses(c)' = Misses(c)
      BY <2>4, <3>1 DEF Misses, Phase
    <3> QED BY <2>1, <3>2, AsToken DEF Moves
  <2> QED BY <2>2, <2>3, <2>4
<1> QED BY <1>6, <1>7, <1>8, <1>9 DEF ChallengeInv

(* A challenge ends, whoever ends it.                                       *)
LEMMA EndMoves ==
  ASSUME Typed, ChallengeInv, NEW k \in DOMAIN challenges, challenges[k].live,
         challenges' = [challenges EXCEPT ![k].live = FALSE], UNCHANGED <<req, sessions>>
  PROVE  ChallengeInv' /\ \A c \in Ids : Moves(c)
<1>1. /\ DOMAIN challenges = 1..Len(challenges) /\ DOMAIN challenges' = DOMAIN challenges
      /\ challenges[k] \in ChallengeRows
      /\ \A c \in DOMAIN challenges \ {k} : challenges'[c] = challenges[c]
      /\ challenges'[k] = [challenges[k] EXCEPT !.live = FALSE]
  BY Lengths DEF Typed
<1>2. ~challenges'[k].live /\ challenges'[k].failures = challenges[k].failures
  BY <1>1 DEF ChallengeRows
<1>3. \A c : \A s \in Slots : Holds(s, c)' <=> Holds(s, c)
  BY DEF Holds
<1>4. Held'
  BY <1>1, <1>2, <1>3 DEF ChallengeInv, Held
<1>5. Made'
  BY <1>1, <1>2 DEF ChallengeInv, Made
<1>6. HasLeft'
  BY <1>1, <1>2 DEF ChallengeInv, HasLeft
<1>7. ASSUME NEW c \in Ids PROVE Moves(c)
  <2>1. Count(c)' = Count(c) /\ Misses(c)' = Misses(c)
    BY <1>1, <1>2 DEF Count, MadeWith, Misses
  <2>2. Phase(c)' = Phase(c) \/ (Phase(c) = "live" /\ Phase(c)' = "over")
    BY <1>1, <1>2, <1>3 DEF Phase, IsLive
  <2> QED BY <2>1, <2>2, AsToken DEF Moves
<1> QED BY <1>4, <1>5, <1>6, <1>7 DEF ChallengeInv

LEMMA FailMoves ==
  ASSUME Typed, ChallengeInv, NEW s \in Slots, FailChallenge(s)
  PROVE  ChallengeInv' /\ \A c \in Ids : Moves(c)
<1> DEFINE k == req[s].ch
           n == challenges[k].failures + 1
<1>1. k \in 1..Len(challenges) /\ NoneHeld /\ UNCHANGED sessions
  BY RequestFits, HeldGoes DEF FailChallenge, At, Fits, FitsIn, InCourse
<1>2. CASE ~challenges[k].live
  <2>1. Apart
    BY <1>1, <1>2, SessionsSame DEF FailChallenge, Apart
  <2> QED BY <2>1, ApartKeeps, ApartMoves
<1>3. CASE challenges[k].live
  <2>1. /\ DOMAIN challenges = 1..Len(challenges) /\ challenges[k] \in ChallengeRows /\ k \in DOMAIN challenges
    BY <1>1, Lengths DEF Typed
  <2>2. n \in Nat /\ n <= MaxFailures
    BY <1>3, <2>1, LimitAssumption DEF ChallengeRows, ChallengeInv, HasLeft
  <2>3. challenges' = [challenges EXCEPT ![k].failures = n, ![k].live = n < MaxFailures]
    BY <1>3 DEF FailChallenge
  <2>4. /\ DOMAIN challenges' = DOMAIN challenges
        /\ \A c \in DOMAIN challenges \ {k} : challenges'[c] = challenges[c]
        /\ challenges'[k] = [challenges[k] EXCEPT !.failures = n, !.live = n < MaxFailures]
    BY <2>1, <2>3
  <2>5. challenges'[k].failures = n /\ (challenges'[k].live <=> n < MaxFailures)
    BY <2>1, <2>2, <2>4 DEF ChallengeRows
  <2> HIDE DEF n, k
  <2>6. \A t \in Slots : ~Holds(t, k)
    <3>1. k \in Nat \ {0}
      BY <1>1 DEF k
    <3> QED BY <1>3, <3>1 DEF ChallengeInv, Held
  <2>7. Held'
    BY <1>1, <2>4, <2>6 DEF ChallengeInv, Held, NoneHeld
  <2>8. Made'
    BY <1>1, <1>3, <2>4 DEF ChallengeInv, Made
  <2>9. HasLeft'
    BY <2>4, <2>5 DEF ChallengeInv, HasLeft
  <2>10. ASSUME NEW c \in Ids PROVE Moves(c)
    <3>1. Count(c)' = Count(c)
      BY <1>1 DEF Count, MadeWith
    <3>2. CASE c # k
      <4>1. Misses(c)' = Misses(c) /\ (Phase(c)' = Phase(c) \/ (Phase(c) = "live" /\ Phase(c)' = "over"))
        BY <1>1, <2>4, <3>2 DEF Misses, Phase, IsLive, NoneHeld, Ids
      <4> QED BY <3>1, <4>1, AsToken DEF Moves
    <3>3. CASE c = k
      <4>1. \A t \in Slots : ~Holds(t, c)'
        BY <1>1, <2>6, <3>3 DEF NoneHeld, Ids
      <4>2. Phase(c) = "live" /\ Misses(c)' = n /\ n = Misses(c) + 1
        BY <1>3, <2>1, <2>4, <2>5, <3>3 DEF Phase, IsLive, Misses, n
      <4>3. Phase(c)' = IF n = MaxFailures THEN "over" ELSE "live"
        <5>1. (n = MaxFailures => ~challenges'[c].live) /\ (n # MaxFailures => challenges'[c].live)
          BY <2>2, <2>5, <3>3, LimitAssumption
        <5> QED BY <2>1, <2>4, <3>3, <4>1, <5>1 DEF Phase, IsLive
      <4> QED BY <3>1, <4>2, <4>3, AsToken DEF Moves
    <3> QED BY <3>2, <3>3
  <2> QED BY <2>7, <2>8, <2>9, <2>10 DEF ChallengeInv
<1> QED BY <1>2, <1>3

LEMMA ConsumeMoves ==
  ASSUME Typed, ChallengeInv, NEW s \in Slots, Consume(s)
  PROVE  ChallengeInv' /\ \A c \in Ids : Moves(c)
<1> DEFINE k == req[s].ch
           x == [req[s] EXCEPT !.pc = "success", !.pw = challenges[k].pw]
<1>1. k \in 1..Len(challenges) /\ At(s, "consume") /\ UNCHANGED sessions
  BY RequestFits DEF Consume, At, Fits, FitsIn, InCourse
<1>2. CASE ~challenges[k].live
  <2>1. Apart
    BY <1>1, <1>2, HeldGoes, SessionsSame DEF Consume, Apart
  <2> QED BY <2>1, ApartKeeps, ApartMoves
<1>3. CASE challenges[k].live
  <2>1. /\ DOMAIN challenges = 1..Len(challenges) /\ challenges[k] \in ChallengeRows /\ k \in DOMAIN challenges
    BY <1>1, Lengths DEF Typed
  <2>2. challenges' = [challenges EXCEPT ![k].live = FALSE] /\ req' = [req EXCEPT ![s] = x]
    BY <1>3 DEF Consume
  <2>3. /\ DOMAIN challenges' = DOMAIN challenges
        /\ \A c \in DOMAIN challenges \ {k} : challenges'[c] = challenges[c]
        /\ challenges'[k] = [challenges[k] EXCEPT !.live = FALSE]
    BY <2>1, <2>2
  <2>4. ~challenges'[k].live /\ challenges'[k].failures = challenges[k].failures
    BY <2>1, <2>3 DEF ChallengeRows
  <2>5. x.ch = k /\ x.pc = "success"
    BY RequestFits DEF Requests
  <2> HIDE DEF x
  <2>6. \A t \in Slots, c \in Nat : Holds(t, c)' <=> (IF t = s THEN c = k ELSE Holds(t, c))
    BY <2>2, <2>5 DEF Holds, Typed, Handled
  <2>7. k \in Nat \ {0} /\ ~Holds(s, k) /\ \A t \in Slots : ~Holds(t, k)
    BY <1>1, <1>3 DEF ChallengeInv, Held
  <2>8. \A y \in DOMAIN sessions : sessions[y].ch # k
    BY <1>3, <2>7 DEF ChallengeInv, Made
  <2> HIDE DEF k
  <2>9. Held'
    <3>1. ASSUME NEW t \in Slots, NEW c \in Nat \ {0}, Holds(t, c)'
          PROVE  /\ c \in DOMAIN challenges' /\ ~challenges'[c].live
                 /\ \A u \in Slots : Holds(u, c)' => u = t
                 /\ \A y \in DOMAIN sessions' : sessions'[y].ch # c
      <4>1. CASE t = s
        <5>1. c = k
          BY <2>6, <3>1, <4>1
        <5> QED BY <1>1, <2>1, <2>3, <2>4, <2>6, <2>7, <2>8, <4>1, <5>1
      <4>2. CASE t # s
        <5>1. Holds(t, c) /\ c # k
          BY <2>6, <2>7, <3>1, <4>2
        <5>2. /\ c \in DOMAIN challenges /\ ~challenges[c].live
              /\ \A u \in Slots : Holds(u, c) => u = t
              /\ \A y \in DOMAIN sessions : sessions[y].ch # c
          BY <5>1 DEF ChallengeInv, Held
        <5> QED BY <1>1, <2>3, <2>6, <5>1, <5>2
      <4> QED BY <4>1, <4>2
    <3> QED BY <3>1 DEF Held
  <2>10. Made'
    BY <1>1, <2>3, <2>8 DEF ChallengeInv, Made
  <2>11. HasLeft'
    BY <2>3, <2>4 DEF ChallengeInv, HasLeft
  <2>12. ASSUME NEW c \in Ids PROVE Moves(c)
    <3>0. c \in Nat
      BY DEF Ids
    <3>1. Count(c)' = Count(c) /\ Misses(c)' = Misses(c)
      BY <1>1, <2>3, <2>4 DEF Count, MadeWith, Misses
    <3>2. CASE c = k
      <4>1. Phase(c) = "live" /\ Phase(c)' = "live"
        BY <1>3, <2>1, <2>3, <2>6, <3>0, <3>2 DEF Phase, IsLive
      <4> QED BY <3>1, <4>1, AsToken DEF Moves
    <3>3. CASE c # k
      <4>1. Phase(c)' = Phase(c) \/ (Phase(c) = "live" /\ Phase(c)' = "over")
        BY <2>3, <2>6, <3>0, <3>3 DEF Phase, IsLive
      <4> QED BY <3>1, <4>1, AsToken DEF Moves
    <3> QED BY <3>2, <3>3
  <2> QED BY <2>9, <2>10, <2>11, <2>12 DEF ChallengeInv
<1> QED BY <1>2, <1>3

LEMMA SessionMoves ==
  ASSUME Typed, ChallengeInv, NEW s \in Slots, CreateSession(s)
  PROVE  ChallengeInv' /\ \A c \in Ids : Moves(c)
<1> DEFINE k == req[s].ch
           n == Len(sessions)
           e == [live |-> TRUE, pw |-> req[s].pw, ch |-> k, kept |-> FALSE,
                 late |-> req[s].pw # password \/ Closing]
<1>1. e \in SessionRows /\ e.ch = k /\ k \in Nat
  BY RequestFits DEF Requests, SessionRows, Closing
<1>2. sessions' = Append(sessions, e) /\ sessions \in Seq(SessionRows) /\ UNCHANGED challenges
  BY DEF CreateSession, Typed, Stores
<1> HIDE DEF e
<1>3. /\ n \in Nat /\ DOMAIN sessions = 1..n /\ DOMAIN sessions' = 1..(n + 1)
      /\ \A i \in 1..n : sessions'[i] = sessions[i]
      /\ sessions'[n + 1] = e
  BY <1>1, <1>2, Added
<1>4. \A t \in Slots, c \in Nat \ {0} : Holds(t, c)' <=> Holds(t, c) /\ t # s
  BY DEF CreateSession, Done, Holds, NoRequest, Typed, Handled
<1>5. Holds(s, k)
  BY DEF CreateSession, At, Holds
<1>6. k # 0 => /\ k \in DOMAIN challenges /\ ~challenges[k].live
               /\ \A t \in Slots : Holds(t, k) => t = s
               /\ \A x \in DOMAIN sessions : sessions[x].ch # k
  BY <1>1, <1>5 DEF ChallengeInv, Held
<1> HIDE DEF k, n
<1>7. Held'
  <2>1. ASSUME NEW t \in Slots, NEW c \in Nat \ {0}, Holds(t, c)'
        PROVE  /\ c \in DOMAIN challenges' /\ ~challenges'[c].live
               /\ \A u \in Slots : Holds(u, c)' => u = t
               /\ \A x \in DOMAIN sessions' : sessions'[x].ch # c
    <3>1. Holds(t, c) /\ t # s
      BY <1>4, <2>1
    <3>2. /\ c \in DOMAIN challenges /\ ~challenges[c].live
          /\ \A u \in Slots : Holds(u, c) => u = t
          /\ \A x \in DOMAIN sessions : sessions[x].ch # c
      BY <3>1 DEF ChallengeInv, Held
    <3>3. c # k
      BY <1>6, <3>1
    <3>4. \A x \in DOMAIN sessions' : sessions'[x].ch # c
      BY <1>1, <1>3, <3>2, <3>3
    <3> QED BY <1>2, <1>4, <3>2, <3>4
  <2> QED BY <2>1 DEF Held
<1>8. Made'
  <2>1. ASSUME NEW x \in DOMAIN sessions', sessions'[x].ch # 0
        PROVE  /\ sessions'[x].ch \in DOMAIN challenges' /\ ~challenges'[sessions'[x].ch].live
               /\ \A y \in DOMAIN sessions' : sessions'[y].ch = sessions'[x].ch => y = x
    <3>1. CASE x = n + 1
      BY <1>1, <1>2, <1>3, <1>6, <2>1, <3>1
    <3>2. CASE x # n + 1
      <4>1. x \in DOMAIN sessions /\ sessions'[x] = sessions[x]
        BY <1>3, <3>2
      <4>2. /\ sessions[x].ch \in DOMAIN challenges /\ ~challenges[sessions[x].ch].live
            /\ \A y \in DOMAIN sessions : sessions[y].ch = sessions[x].ch => y = x
        BY <2>1, <4>1 DEF ChallengeInv, Made
      <4>3. sessions[x].ch # k
        BY <1>6, <2>1, <4>1
      <4>4. \A y \in DOMAIN sessions' : sessions'[y].ch = sessions'[x].ch => y = x
        BY <1>1, <1>3, <4>1, <4>2, <4>3
      <4> QED BY <1>2, <4>1, <4>2, <4>4
    <3> QED BY <3>1, <3>2
  <2> QED BY <2>1 DEF Made
<1>9. HasLeft'
  BY <1>2 DEF ChallengeInv, HasLeft
<1>10. ASSUME NEW c \in Ids PROVE Moves(c)
  <2>0. c \in Nat \ {0} /\ Misses(c)' = Misses(c)
    BY <1>2 DEF Ids, Misses
  <2>1. CASE c = k
    <3>1. MadeWith(c) = {} /\ MadeWith(c)' = {n + 1}
      BY <1>1, <1>3, <1>6, <2>0, <2>1 DEF MadeWith
    <3>2. Count(c) = 0 /\ Count(c)' = 1
      BY <3>1, FS_EmptySet, FS_Singleton DEF Count
    <3>3. Phase(c) = "live" /\ Phase(c)' = "over"
      BY <1>2, <1>4, <1>5, <1>6, <2>0, <2>1 DEF Phase, IsLive
    <3> QED BY <2>0, <3>2, <3>3, AsToken DEF Moves
  <2>2. CASE c # k
    <3>1. MadeWith(c)' = MadeWith(c)
      BY <1>1, <1>3, <2>2 DEF MadeWith
    <3>2. Count(c)' = Count(c)
      BY <3>1 DEF Count
    <3>3. Holds(s, c) => FALSE
      BY <2>2 DEF Holds, k
    <3>4. Phase(c)' = Phase(c)
      BY <1>2, <1>4, <2>0, <3>3 DEF Phase, IsLive
    <3> QED BY <2>0, <3>2, <3>4, AsToken DEF Moves
  <2> QED BY <2>1, <2>2
<1> QED BY <1>7, <1>8, <1>9, <1>10 DEF ChallengeInv

LEMMA ChallengeStep ==
  ASSUME Typed, ChallengeInv, [Next]_vars
  PROVE  ChallengeInv' /\ \A c \in Ids : Moves(c)
<1>1. ASSUME Apart PROVE ChallengeInv' /\ \A c \in Ids : Moves(c)
  BY <1>1, ApartKeeps, ApartMoves
<1>2. CASE Tick \/ WindowEnds
  BY <1>1, <1>2, SessionsSame DEF Tick, WindowEnds, storeVars, Apart, NoneHeld, Holds
<1>3. CASE Expire
  <2>1. CASE /\ \E c \in DOMAIN challenges : /\ challenges[c].live
                                             /\ challenges' = [challenges EXCEPT ![c].live = FALSE]
             /\ UNCHANGED sessions
    BY <1>3, <2>1, EndMoves DEF Expire
  <2>2. CASE UNCHANGED challenges /\ \E x \in LiveSessions : sessions' = [sessions EXCEPT ![x].live = FALSE]
    <3>1. LiveSessions \subseteq 1..Len(sessions)
      BY Lengths DEF Typed, LiveSessions
    <3>2. SameMade
      BY <2>2, <3>1, SessionsSame
    <3> QED BY <1>1, <1>3, <2>2, <3>2 DEF Expire, Apart, NoneHeld, Holds
  <2>3. CASE UNCHANGED <<challenges, sessions>>
    BY <1>1, <1>3, <2>3, SessionsSame DEF Expire, Apart, NoneHeld, Holds
  <2> QED BY <1>3, <2>1, <2>2, <2>3 DEF Expire
<1>4. CASE UNCHANGED vars
  BY <1>1, <1>4, SessionsSame DEF vars, Apart, NoneHeld, Holds
<1> QED BY <1>1, <1>2, <1>3, <1>4, ApartRequested, ApartOtherwise, IssueMoves, FailMoves,
           ConsumeMoves, SessionMoves DEF Next, Handle

(* A two-factor challenge makes at most one session, and ends at the        *)
(* configured number of wrong codes, however the requests that present it   *)
(* overlap (Fail and Consume in panelcache/twofactor.go).                   *)
THEOREM ChallengeOnce == Spec => ChallengesSingleUse
<1>1. Init => ChallengeInv
  BY DEF Init, ChallengeInv, Held, Made, HasLeft, Holds, NoRequest
<1>2. Init => Challenge!Init
  <2> SUFFICES ASSUME Init PROVE Challenge!Init
    OBVIOUS
  <2>1. DOMAIN challenges = {} /\ \A x \in DOMAIN sessions : sessions[x].ch = 0
    BY DEF Init
  <2>2. \A c \in Ids : {x \in DOMAIN sessions : sessions[x].ch = c} = {}
    BY <2>1 DEF Ids
  <2>3. \A c \in Ids : Cardinality({x \in DOMAIN sessions : sessions[x].ch = c}) = 0
    BY <2>2, FS_EmptySet
  <2> QED BY <2>1, <2>3 DEF Challenge!Init
<1>3. Typed /\ ChallengeInv /\ [Next]_vars => ChallengeInv' /\ [Challenge!Next]_(Challenge!vars)
  BY ChallengeStep DEF Moves, Challenge!Next
<1> QED BY <1>1, <1>2, <1>3, TypeInit, TypeStep, PTL DEF Spec, ChallengesSingleUse, Challenge!Spec

(* Challenges, links, recovery codes and TOTP codes are each good for one   *)
(* use, in any interleaving of any number of requests.                      *)
THEOREM TokensOnce == Spec => TokensSingleUse
BY ChallengeOnce, LinkOnce, RecoveryCodeOnce, TotpOnce, PTL DEF TokensSingleUse

-----------------------------------------------------------------------------
(* The number of guesses is bounded.                                        *)

(* A request that was answered that the password or code was wrong, and has *)
(* not counted it yet; one that has passed the limiter and may be.          *)
Wrong(r) == r.pc \in {"miss", "fail"}
Past(r) ==
  \/ Wrong(r)
  \/ r.pc = "password" /\ r.op \in {"login", "password", "email"}
  \/ r.pc \in {"factor", "accept"} /\ r.op = "login2fa"
WrongSlots == {s \in Slots : Wrong(req[s])}
PastSlots == {s \in Slots : Past(req[s])}

(* The counter lags behind by the answers not counted; and requests pass    *)
(* the limiter only while the counter is below the limit.                   *)
GuessInv ==
  \/ marks.uncounted
  \/ /\ tries <= fails.user + Cardinality(WrongSlots)
     /\ fails.user + Cardinality(PastSlots) <= PerUserIP - 1 + Cardinality(Slots)

LEMMA Slotted ==
  ASSUME NEW A \in SUBSET Slots
  PROVE  IsFiniteSet(A) /\ Cardinality(A) \in Nat /\ Cardinality(A) <= Cardinality(Slots)
         /\ Cardinality(Slots) \in Nat
BY SlotsAssumption, FS_Subset, FS_CardinalityType

(* A set of slots that changes by one slot at most.                         *)
One(b) == IF b THEN 1 ELSE 0
LEMMA OneSlot ==
  ASSUME NEW A \in SUBSET Slots, NEW B \in SUBSET Slots, NEW s \in Slots,
         \A t \in Slots \ {s} : t \in A <=> t \in B
  PROVE  Cardinality(B) - One(s \in B) = Cardinality(A) - One(s \in A)
<1>1. A \ {s} = B \ {s}
  OBVIOUS
<1>2. IsFiniteSet(A) /\ IsFiniteSet(B) /\ Cardinality(A) \in Nat /\ Cardinality(B) \in Nat
  BY Slotted
<1>3. /\ Cardinality(A \ {s}) = IF s \in A THEN Cardinality(A) - 1 ELSE Cardinality(A)
      /\ Cardinality(B \ {s}) = IF s \in B THEN Cardinality(B) - 1 ELSE Cardinality(B)
  BY <1>2, FS_RemoveElement
<1> QED BY <1>1, <1>2, <1>3 DEF One

(* A step of one request keeps the bound if it answers no more than it      *)
(* leaves to be counted, and counts no more than were answered.             *)
LEMMA GuessOn ==
  ASSUME Typed, Typed', GuessInv, NEW s \in Slots, Others(s),
         marks.uncounted => marks'.uncounted,
         tries' - tries <= fails'.user - fails.user + One(Wrong(req'[s])) - One(Wrong(req[s])),
         fails'.user - fails.user + One(Past(req'[s])) - One(Past(req[s])) <= 0
  PROVE  GuessInv'
<1> SUFFICES ASSUME ~marks'.uncounted, ~marks.uncounted PROVE GuessInv'
  BY DEF GuessInv
<1>1. /\ WrongSlots \in SUBSET Slots /\ WrongSlots' \in SUBSET Slots
      /\ PastSlots \in SUBSET Slots /\ PastSlots' \in SUBSET Slots
  BY DEF WrongSlots, PastSlots
<1>2. Cardinality(WrongSlots') - One(Wrong(req'[s])) = Cardinality(WrongSlots) - One(Wrong(req[s]))
  <2>1. \A t \in Slots \ {s} : t \in WrongSlots <=> t \in WrongSlots'
    BY DEF Others, WrongSlots
  <2>2. (s \in WrongSlots' <=> Wrong(req'[s])) /\ (s \in WrongSlots <=> Wrong(req[s]))
    BY DEF WrongSlots
  <2>3. One(s \in WrongSlots') = One(Wrong(req'[s])) /\ One(s \in WrongSlots) = One(Wrong(req[s]))
    BY <2>2 DEF One
  <2> QED BY <1>1, <2>1, <2>3, OneSlot
<1>3. Cardinality(PastSlots') - One(Past(req'[s])) = Cardinality(PastSlots) - One(Past(req[s]))
  <2>1. \A t \in Slots \ {s} : t \in PastSlots <=> t \in PastSlots'
    BY DEF Others, PastSlots
  <2>2. (s \in PastSlots' <=> Past(req'[s])) /\ (s \in PastSlots <=> Past(req[s]))
    BY DEF PastSlots
  <2>3. One(s \in PastSlots') = One(Past(req'[s])) /\ One(s \in PastSlots) = One(Past(req[s]))
    BY <2>2 DEF One
  <2> QED BY <1>1, <2>1, <2>3, OneSlot
<1>4. /\ Cardinality(WrongSlots) \in Nat /\ Cardinality(WrongSlots') \in Nat
      /\ Cardinality(PastSlots) \in Nat /\ Cardinality(PastSlots') \in Nat
      /\ Cardinality(Slots) \in Nat
  BY <1>1, Slotted
<1>5. tries \in Nat /\ tries' \in Nat /\ fails.user \in Nat /\ fails'.user \in Nat
  BY DEF Typed, Stores
<1>6. \A b : One(b) \in {0, 1}
  BY DEF One
<1>7. /\ tries <= fails.user + Cardinality(WrongSlots)
      /\ fails.user + Cardinality(PastSlots) <= PerUserIP - 1 + Cardinality(Slots)
  BY DEF GuessInv
<1>8. tries' <= fails'.user + Cardinality(WrongSlots')
  BY <1>2, <1>4, <1>5, <1>6, <1>7
<1>9. fails'.user + Cardinality(PastSlots') <= PerUserIP - 1 + Cardinality(Slots)
  BY <1>3, <1>4, <1>5, <1>6, <1>7, LimitAssumption
<1> QED BY <1>8, <1>9 DEF GuessInv

(* So does one after which the counter is below the limit.                  *)
LEMMA GuessBelow ==
  ASSUME Typed, Typed', fails'.user < PerUserIP, tries' <= fails'.user + Cardinality(WrongSlots')
  PROVE  GuessInv'
<1>1. PastSlots' \in SUBSET Slots
  BY DEF PastSlots
<1>2. /\ Cardinality(PastSlots') \in Nat /\ Cardinality(PastSlots') <= Cardinality(Slots)
      /\ Cardinality(Slots) \in Nat
  BY <1>1, Slotted
<1>3. fails'.user \in Nat
  BY DEF Typed, Stores
<1> QED BY <1>2, <1>3, LimitAssumption DEF GuessInv

(* A step that neither answers nor counts: its request does not come to     *)
(* pass the limiter by it.                                                  *)
LEMMA GuessIdle ==
  ASSUME Typed, Typed', GuessInv, NEW s \in Slots, Others(s), UNCHANGED <<tries, fails>>,
         marks.uncounted => marks'.uncounted,
         Wrong(req[s]) => Wrong(req'[s]) \/ marks'.uncounted,
         Past(req'[s]) => Past(req[s])
  PROVE  GuessInv'
<1>1. CASE marks'.uncounted
  BY <1>1 DEF GuessInv
<1>2. CASE Wrong(req[s]) => Wrong(req'[s])
  <2>1. tries \in Nat /\ fails.user \in Nat
    BY DEF Typed, Stores
  <2>2. One(Wrong(req'[s])) - One(Wrong(req[s])) \in {0, 1}
    BY <1>2 DEF One
  <2>3. One(Past(req'[s])) - One(Past(req[s])) \in {0, -1}
    BY DEF One
  <2>4. tries' - tries = 0 /\ fails'.user - fails.user = 0
    BY <2>1
  <2>5. \A b : One(b) \in {0, 1}
    BY DEF One
  <2> QED BY <2>1, <2>2, <2>3, <2>4, <2>5, GuessOn
<1> QED BY <1>1, <1>2

(* The limiter is asked.                                                    *)
LEMMA GuessAsked ==
  ASSUME Typed, Typed', GuessInv, NEW s \in Slots, AskLimiter(s)
  PROVE  GuessInv'
<1>1. CASE Blocked
  <2>1. Others(s) /\ req'[s] = NoRequest
    BY <1>1, Goes DEF AskLimiter
  <2>2. ~Wrong(req'[s]) /\ ~Past(req'[s]) /\ ~Wrong(req[s])
    BY <2>1, Blank DEF AskLimiter, At, Wrong, Past
  <2>3. UNCHANGED <<tries, fails, marks>>
    BY DEF AskLimiter, storeVars, historyVars
  <2> QED BY <2>1, <2>2, <2>3, GuessIdle
<1>2. CASE ~Blocked
  <2>1. /\ Others(s) /\ UNCHANGED <<tries, fails, marks>> /\ ~Wrong(req[s])
    BY <1>2, Goes DEF AskLimiter, At, Wrong, storeVars, historyVars
  <2>2. fails.user < PerUserIP
    <3>1. fails.user \in Nat /\ PerUserIP \in Nat
      BY LimitAssumption DEF Typed, Stores
    <3>2. ~(fails.user >= PerUserIP)
      BY <1>2 DEF Blocked
    <3> QED BY <3>1, <3>2
  <2>3. WrongSlots \subseteq WrongSlots'
    BY <2>1 DEF WrongSlots, Others
  <2>4. WrongSlots \in SUBSET WrongSlots' /\ WrongSlots' \in SUBSET Slots /\ WrongSlots \in SUBSET Slots
    BY <2>3 DEF WrongSlots
  <2>5. Cardinality(WrongSlots) <= Cardinality(WrongSlots')
        /\ Cardinality(WrongSlots) \in Nat /\ Cardinality(WrongSlots') \in Nat
    BY <2>4, Slotted, FS_Subset
  <2>6. fails.user \in Nat /\ tries \in Nat
    BY DEF Typed, Stores
  <2>7. CASE marks.uncounted
    BY <2>1, <2>7 DEF GuessInv
  <2>8. CASE ~marks.uncounted
    <3>1. tries' <= fails'.user + Cardinality(WrongSlots')
      BY <2>1, <2>5, <2>6, <2>8 DEF GuessInv
    <3> QED BY <2>1, <2>2, <3>1, GuessBelow
  <2> QED BY <2>7, <2>8
<1> QED BY <1>1, <1>2

(* The counter is cleared: there is nothing to be behind of.                *)
LEMMA GuessCleared ==
  ASSUME Typed, Typed', tries' = 0, fails'.user = 0
  PROVE  GuessInv'
<1>1. WrongSlots' \in SUBSET Slots
  BY DEF WrongSlots
<1>2. Cardinality(WrongSlots') \in Nat
  BY <1>1, Slotted
<1> QED BY <1>2, GuessBelow, LimitAssumption

(* A wrong answer, not counted yet.                                         *)
LEMMA GuessAnswered ==
  ASSUME Typed, Typed', GuessInv, NEW s \in Slots, Others(s), UNCHANGED <<fails, marks>>,
         tries' = tries + 1, One(Past(req[s])) = 1, One(Past(req'[s])) = 1,
         One(Wrong(req[s])) = 0, One(Wrong(req'[s])) = 1
  PROVE  GuessInv'
<1>1. tries \in Nat /\ fails.user \in Nat
  BY DEF Typed, Stores
<1>2. tries' - tries = 1 /\ fails'.user - fails.user = 0
  BY <1>1
<1> QED BY <1>1, <1>2, GuessOn

LEMMA GuessWrong ==
  ASSUME Typed, Typed', GuessInv, NEW s \in Slots, Others(s), UNCHANGED <<fails, marks>>,
         tries' = tries + 1, Past(req[s]), ~Wrong(req[s]), Wrong(req'[s])
  PROVE  GuessInv'
<1>1. One(Wrong(req[s])) = 0 /\ One(Wrong(req'[s])) = 1 /\ One(Past(req[s])) = 1 /\ One(Past(req'[s])) = 1
  BY DEF One, Past
<1> QED BY <1>1, GuessAnswered

(* The limiter counts.                                                      *)
LEMMA GuessCounted ==
  ASSUME Typed, Typed', GuessInv, NEW s \in Slots,
         RecordFailure(s) \/ RecordSuccess(s) \/ LimiterFails(s)
  PROVE  GuessInv'
<1>0. fails \in [ip : Nat, user : Nat] /\ tries \in Nat /\ marks \in Marks
  BY DEF Typed, Stores
<1>1. CASE RecordFailure(s)
  <2>1. Others(s) /\ req'[s] = NoRequest /\ UNCHANGED <<tries, marks>>
    BY <1>1, Goes DEF RecordFailure, historyVars
  <2>2. fails'.user = fails.user + 1
    BY <1>0, <1>1 DEF RecordFailure
  <2>3. Wrong(req[s]) /\ Past(req[s]) /\ ~Wrong(req'[s]) /\ ~Past(req'[s])
    BY <1>1, <2>1, Blank DEF RecordFailure, At, Wrong, Past
  <2>4. One(Wrong(req[s])) = 1 /\ One(Wrong(req'[s])) = 0 /\ One(Past(req[s])) = 1 /\ One(Past(req'[s])) = 0
    BY <2>3 DEF One
  <2>5. fails.user \in Nat /\ fails'.user - fails.user = 1 /\ tries' - tries = 0
    BY <1>0, <2>1, <2>2
  <2> QED BY <1>0, <2>1, <2>4, <2>5, GuessOn
<1>2. CASE RecordSuccess(s)
  <2>1. fails'.user = 0 /\ tries' = 0
    BY <1>0, <1>2 DEF RecordSuccess
  <2> QED BY <2>1, GuessCleared
<1>3. CASE LimiterFails(s)
  <2>1. CASE marks' = [marks EXCEPT !.uncounted = TRUE]
    <3>1. marks'.uncounted
      BY <1>0, <2>1 DEF Marks
    <3> QED BY <3>1 DEF GuessInv
  <2>2. CASE At(s, "success") /\ Go(s, "session") /\ UNCHANGED <<fails, tries, marks>>
    <3>1. Others(s) /\ req'[s].pc = "session"
      BY <2>2, Goes
    <3>2. ~Wrong(req[s]) /\ ~Past(req'[s])
      BY <2>2, <3>1 DEF At, Wrong, Past
    <3> QED BY <2>2, <3>1, <3>2, GuessIdle
  <2> QED BY <1>3, <2>1, <2>2 DEF LimiterFails
<1> QED BY <1>1, <1>2, <1>3

(* A password or a code is checked.                                         *)
LEMMA GuessChecked ==
  ASSUME Typed, Typed', GuessInv, NEW s \in Slots,
         CheckPassword(s) \/ UseRecoveryCode(s) \/ VerifyCode(s) \/ AcceptTOTPStep(s)
  PROVE  GuessInv'
<1>0. marks \in Marks /\ DOMAIN Guarded = {"login", "login2fa", "password", "email"}
  BY DEF Typed, Stores, Guarded
<1>1. CASE CheckPassword(s)
  <2>1. At(s, "password") /\ req[s].op \in {"login", "password", "email", "disable", "regenerate"}
        /\ UNCHANGED <<fails, marks>>
    BY <1>1, RequestFits DEF CheckPassword, At, InCourse, storeVars
  <2>2. CASE req[s].op \in {"login", "password", "email"} /\ req[s].pw # password
    <3>1. Go(s, "fail") /\ tries' = tries + 1
      BY <1>0, <1>1, <2>2 DEF CheckPassword
    <3>2. Others(s) /\ Wrong(req'[s]) /\ Past(req[s]) /\ ~Wrong(req[s])
      BY <2>1, <2>2, <3>1, Goes DEF At, Wrong, Past
    <3> QED BY <2>1, <3>1, <3>2, GuessWrong
  <2>3. CASE ~(req[s].op \in {"login", "password", "email"} /\ req[s].pw # password)
    <3>1. UNCHANGED tries
      BY <1>0, <1>1, <2>1, <2>3 DEF CheckPassword
    <3>2. Done(s) \/ (\E p \in {"issue", "success", "set", "find"} : Go(s, p))
          \/ (Go(s, "factor") /\ req[s].op # "login2fa")
      BY <1>0, <1>1, <2>1, <2>3 DEF CheckPassword
    <3>3. Others(s) /\ ~Past(req'[s]) /\ ~Wrong(req[s])
      BY <2>1, <3>2, Goes, Blank DEF At, Wrong, Past
    <3> QED BY <2>1, <3>1, <3>3, GuessIdle
  <2> QED BY <2>2, <2>3
<1>2. ASSUME IsWrong(s), At(s, "factor") \/ At(s, "accept"), UNCHANGED <<fails, marks>>
      PROVE  GuessInv'
  <2>1. CASE req[s].op = "login2fa"
    <3>1. Go(s, "miss") /\ tries' = tries + 1
      BY <1>2, <2>1 DEF IsWrong
    <3>2. Others(s) /\ Wrong(req'[s]) /\ Past(req[s]) /\ ~Wrong(req[s])
      BY <1>2, <2>1, <3>1, Goes DEF At, Wrong, Past
    <3> QED BY <1>2, <3>1, <3>2, GuessWrong
  <2>2. CASE req[s].op # "login2fa"
    <3>1. Done(s) /\ UNCHANGED tries
      BY <1>2, <2>2 DEF IsWrong
    <3>2. Others(s) /\ ~Past(req'[s]) /\ ~Wrong(req[s])
      BY <1>2, <3>1, Goes, Blank DEF At, Wrong, Past
    <3> QED BY <1>2, <3>1, <3>2, GuessIdle
  <2> QED BY <2>1, <2>2
<1>3. ASSUME IsRight(s), At(s, "factor") \/ At(s, "accept"), UNCHANGED fails,
             marks'.uncounted = marks.uncounted
      PROVE  GuessInv'
  <2>1. Right[req[s].op] \in {"consume", "off", "find"}
    BY <1>3, RequestFits DEF At, InCourse, Right
  <2>2. Others(s) /\ ~Past(req'[s]) /\ ~Wrong(req[s]) /\ UNCHANGED tries
    BY <1>3, <2>1, Goes DEF IsRight, At, Wrong, Past
  <2> QED BY <1>3, <2>2, GuessIdle
<1>4. CASE UseRecoveryCode(s)
  BY <1>2, <1>3, <1>4 DEF UseRecoveryCode
<1>5. CASE VerifyCode(s)
  <2>1. CASE IsWrong(s)
    BY <1>2, <1>5, <2>1 DEF VerifyCode, storeVars
  <2>2. CASE Go(s, "accept") /\ UNCHANGED tries
    <3>1. Others(s) /\ req'[s].pc = "accept" /\ req'[s].op = req[s].op /\ req[s].pc = "factor"
      BY <1>5, <2>2, Goes DEF VerifyCode, At
    <3>2. (Past(req'[s]) => Past(req[s])) /\ ~Wrong(req[s])
      BY <3>1 DEF Wrong, Past
    <3> QED BY <1>5, <2>2, <3>1, <3>2, GuessIdle DEF VerifyCode, storeVars
  <2> QED BY <1>5, <2>1, <2>2 DEF VerifyCode
<1>6. CASE AcceptTOTPStep(s)
  <2>1. marks'.uncounted = marks.uncounted /\ UNCHANGED fails
    BY <1>0, <1>6 DEF AcceptTOTPStep, Marks
  <2> QED BY <1>2, <1>3, <1>6, <2>1 DEF AcceptTOTPStep
<1> QED BY <1>1, <1>4, <1>5, <1>6

(* What else a request does.                                                *)
LEMMA GuessOtherwise ==
  ASSUME Typed, Typed', GuessInv, NEW s \in Slots,
         \/ IssueChallenge(s) \/ CreateSession(s) \/ Peek(s) \/ FailChallenge(s) \/ Consume(s)
         \/ ReadPending(s) \/ EnableTOTP(s) \/ ForgetPending(s) \/ DisableTOTP(s)
         \/ SetPassword(s) \/ RevokeUserSessions(s) \/ FindRows(s) \/ LockRows(s) \/ Replace(s)
         \/ Mail(s) \/ CallFails(s) \/ RequestReset(s) \/ WritePassword(s) \/ FindSessions(s)
         \/ CommitReset(s)
  PROVE  GuessInv'
<1>0. marks \in Marks
  BY DEF Typed, Stores
<1>1. CASE IssueChallenge(s) \/ CreateSession(s) \/ Peek(s) \/ ForgetPending(s) \/ DisableTOTP(s)
           \/ SetPassword(s) \/ RevokeUserSessions(s) \/ LockRows(s) \/ Mail(s)
  <2>1. ~Wrong(req[s]) /\ UNCHANGED <<tries, fails, marks>>
    BY <1>1 DEF IssueChallenge, CreateSession, Peek, ForgetPending, DisableTOTP, SetPassword,
       RevokeUserSessions, LockRows, Mail, At, Wrong, storeVars, historyVars
  <2>2. Done(s) \/ \E p \in {"limit", "revoke", "replace"} : Go(s, p)
    BY <1>1 DEF IssueChallenge, CreateSession, Peek, ForgetPending, DisableTOTP, SetPassword,
       RevokeUserSessions, LockRows, Mail
  <2>3. Others(s) /\ ~Past(req'[s])
    BY <2>2, Goes, Blank DEF Past, Wrong
  <2> QED BY <2>1, <2>3, GuessIdle
<1>2. CASE FailChallenge(s)
  <2>1. Others(s) /\ Wrong(req'[s]) /\ Past(req[s]) /\ UNCHANGED <<tries, fails, marks>>
    BY <1>2, Goes DEF FailChallenge, At, Wrong, Past, historyVars
  <2> QED BY <2>1, GuessIdle
<1>3. CASE Consume(s) \/ ReadPending(s) \/ FindRows(s) \/ Replace(s)
  <2>1. Others(s) /\ req'[s].pc \in {"success", "enable", "lock", "mail", "idle"}
    BY <1>3, GoesWith
  <2>2. ~Wrong(req[s]) /\ ~Past(req'[s]) /\ UNCHANGED <<tries, fails>>
    BY <1>3, <2>1 DEF Consume, ReadPending, FindRows, Replace, At, Wrong, Past, storeVars,
       historyVars
  <2>3. marks'.uncounted = marks.uncounted
    BY <1>0, <1>3 DEF Consume, ReadPending, FindRows, Replace, historyVars, Marks
  <2> QED BY <2>1, <2>2, <2>3, GuessIdle
<1>4. CASE EnableTOTP(s)
  <2>1. Others(s) /\ req'[s].pc = "forget" /\ At(s, "enable") /\ UNCHANGED <<tries, fails>>
    BY <1>4, Goes DEF EnableTOTP
  <2>2. marks'.uncounted = marks.uncounted
    BY <1>0, <1>4 DEF EnableTOTP, Marks
  <2> QED BY <2>1, <2>2, GuessIdle DEF At, Wrong, Past
<1>5. CASE CallFails(s)
  <2>1. Others(s) /\ ~Past(req'[s]) /\ UNCHANGED <<tries, fails>>
    BY <1>5, Goes, Blank DEF CallFails, Past, Wrong, storeVars
  <2>2. marks'.uncounted = (marks.uncounted \/ req[s].pc \in {"miss", "fail"})
    BY <1>0, <1>5 DEF CallFails, Marks
  <2> QED BY <2>1, <2>2, GuessIdle DEF Wrong
<1>6. CASE RequestReset(s) \/ WritePassword(s) \/ FindSessions(s) \/ CommitReset(s)
  <2>1. Others(s) /\ req'[s].pc \in {"reset", "close", "commit", "idle"}
    BY <1>6, Goes, GoesWith, GoesClaiming, Blank DEF WritePassword, CommitReset
  <2>2. req[s].pc \in {"idle", "reset", "close", "commit"} /\ UNCHANGED <<tries, fails, marks>>
    BY <1>6, GoesClaiming DEF WritePassword, FindSessions, CommitReset, At, storeVars, historyVars
  <2> QED BY <2>1, <2>2, GuessIdle DEF Wrong, Past
<1> QED BY <1>1, <1>2, <1>3, <1>4, <1>5, <1>6

LEMMA GuessStep == Typed /\ Typed' /\ GuessInv /\ [Next]_vars => GuessInv'
<1> SUFFICES ASSUME Typed, Typed', GuessInv, [Next]_vars PROVE GuessInv'
  OBVIOUS
<1>1. ASSUME UNCHANGED <<req, tries, fails, marks>> PROVE GuessInv'
  BY <1>1 DEF GuessInv, WrongSlots, PastSlots
<1>2. ASSUME NEW s \in Slots, Request(s) PROVE GuessInv'
  <2>1. UNCHANGED <<tries, fails, marks>>
    BY <1>2, GoesFirst DEF historyVars
  <2>2. CASE UNCHANGED req
    BY <1>1, <2>1, <2>2
  <2>3. CASE At(s, "idle") /\ Others(s) /\ Starts(req'[s])
    BY <2>1, <2>3, GuessIdle DEF At, Starts, Wrong, Past
  <2> QED BY <1>2, <2>2, <2>3, GoesFirst
<1>3. CASE (\E s \in Slots : ConfirmEmail(s)) \/ Tick \/ Expire \/ UNCHANGED vars
  BY <1>1, <1>3 DEF ConfirmEmail, Tick, Expire, historyVars, storeVars, vars
<1>4. CASE WindowEnds
  <2>0. fails \in [ip : Nat, user : Nat]
    BY DEF Typed, Stores
  <2>1. CASE fails' = [fails EXCEPT !.ip = 0] /\ UNCHANGED tries
    <3>1. fails'.user = fails.user /\ UNCHANGED <<req, marks>>
      BY <1>4, <2>0, <2>1 DEF WindowEnds
    <3> QED BY <2>1, <3>1 DEF GuessInv, WrongSlots, PastSlots
  <2>2. CASE fails' = [fails EXCEPT !.user = 0] /\ tries' = 0
    BY <2>0, <2>2, GuessCleared
  <2> QED BY <1>4, <2>1, <2>2 DEF WindowEnds
<1> QED BY <1>2, <1>3, <1>4, GuessAsked, GuessCounted, GuessChecked, GuessOtherwise DEF Next, Handle

(* Between two logins, or within a window, requests to sign in and to       *)
(* change the password or the address answer no more wrong passwords and    *)
(* codes than the limit allows and requests are handled at the time, for    *)
(* every limit and any number of requests (Limiter.Allow before the answer, *)
(* RecordFailure after it).  What confirmIdentity answers to who is signed  *)
(* in is not limited, and not counted here.                                 *)
THEOREM GuessesLimited == Spec => []GuessesBounded
<1>1. Init => GuessInv
  <2> SUFFICES ASSUME Init PROVE GuessInv
    OBVIOUS
  <2>1. WrongSlots = {} /\ PastSlots = {}
    BY DEF Init, WrongSlots, PastSlots, Wrong, Past, NoRequest
  <2>2. Cardinality(WrongSlots) = 0 /\ Cardinality(PastSlots) = 0 /\ Cardinality(Slots) \in Nat
    BY <2>1, FS_EmptySet, Slotted
  <2> QED BY <2>2, LimitAssumption DEF Init, GuessInv
<1>2. Typed /\ GuessInv => GuessesBounded
  <2> SUFFICES ASSUME Typed, GuessInv, ~marks.uncounted PROVE GuessesBounded
    BY DEF GuessesBounded
  <2>1. WrongSlots \in SUBSET PastSlots /\ PastSlots \in SUBSET Slots /\ WrongSlots \in SUBSET Slots
    BY DEF WrongSlots, PastSlots, Past
  <2>2. /\ Cardinality(WrongSlots) <= Cardinality(PastSlots)
        /\ Cardinality(WrongSlots) \in Nat /\ Cardinality(PastSlots) \in Nat /\ Cardinality(Slots) \in Nat
    BY <2>1, Slotted, FS_Subset
  <2>3. tries \in Nat /\ fails.user \in Nat
    BY DEF Typed, Stores
  <2> QED BY <2>2, <2>3, LimitAssumption DEF GuessInv, GuessesBounded
<1> QED BY <1>1, <1>2, TypeInit, TypeStep, GuessStep, PTL DEF Spec

-----------------------------------------------------------------------------
(* What a newer credential replaces is gone: sessions.                      *)

(* The session that changes the password is marked before it revokes the    *)
(* others.                                                                  *)
KeptOne(s) ==
  At(s, "revoke") =>
    req[s].op = "admin" \/ (req[s].by \in DOMAIN sessions /\ sessions[req[s].by].kept)

(* A reset that is about to commit has found every session there is, but    *)
(* those made since.                                                        *)
FoundAll(s) ==
  At(s, "commit") => \A x \in LiveSessions : x \in req[s].rows \/ sessions[x].late
SessionsInv ==
  /\ OldSessionsClosed
  /\ \A s \in Slots : KeptOne(s)
  /\ \A s \in Slots : FoundAll(s)

(* Sessions stay what they are, or end; new ones are of this password, or   *)
(* of a login that began before it.                                         *)
SessionsStay ==
  /\ UNCHANGED password
  /\ DOMAIN sessions \subseteq DOMAIN sessions'
  /\ \A x \in DOMAIN sessions : sessions[x].kept => sessions'[x].kept
  /\ \A x \in LiveSessions' :
       \/ sessions'[x].late \/ (sessions'[x].pw = password /\ ~Closing)
       \/ x \in LiveSessions /\ sessions'[x].pw = sessions[x].pw /\ sessions'[x].late = sessions[x].late

LEMMA StayUnchanged ==
  ASSUME UNCHANGED <<password, sessions>>
  PROVE  SessionsStay
BY DEF SessionsStay, LiveSessions

LEMMA SessionsOn ==
  ASSUME Typed, SessionsInv, SessionsStay, marks.halfway => marks'.halfway,
         \A s \in Slots : req'[s] = req[s] \/ (~At(s, "revoke") /\ KeptOne(s)' /\ FoundAll(s)')
  PROVE  SessionsInv'
<1>1. ASSUME NEW s \in Slots PROVE KeptOne(s)'
  <2>1. CASE req'[s] = req[s]
    BY <2>1 DEF SessionsInv, KeptOne, SessionsStay, At
  <2> QED BY <2>1
<1>5. ASSUME NEW s \in Slots PROVE FoundAll(s)'
  <2>1. CASE req'[s] = req[s]
    <3> SUFFICES ASSUME At(s, "commit"), NEW x \in LiveSessions'
                 PROVE  x \in req[s].rows \/ sessions'[x].late
      BY <2>1 DEF FoundAll, At
    <3>1. Closing /\ FoundAll(s)
      BY DEF Closing, SessionsInv
    <3> QED BY <3>1 DEF FoundAll, SessionsStay
  <2> QED BY <2>1
<1>2. CASE marks.halfway
  BY <1>1, <1>5, <1>2 DEF OldSessionsClosed, SessionsInv
<1>3. CASE \E s \in Slots : At(s, "revoke")
  <2>1. \E s \in Slots : At(s, "revoke")'
    BY <1>3 DEF At
  <2> QED BY <1>1, <1>5, <2>1 DEF OldSessionsClosed, SessionsInv
<1>4. CASE \A x \in LiveSessions :
             sessions[x].pw = password \/ sessions[x].kept \/ sessions[x].late
  <2>1. ASSUME NEW x \in LiveSessions'
        PROVE  sessions'[x].pw = password' \/ sessions'[x].kept \/ sessions'[x].late
    <3>1. x \in LiveSessions => x \in DOMAIN sessions
      BY DEF LiveSessions
    <3> QED BY <1>4, <2>1, <3>1 DEF SessionsStay
  <2> QED BY <1>1, <1>5, <2>1 DEF OldSessionsClosed, SessionsInv
<1> QED BY <1>2, <1>3, <1>4 DEF SessionsInv, OldSessionsClosed

(* A session ends.                                                          *)
LEMMA OneEnds ==
  ASSUME Typed, UNCHANGED password, NEW x \in LiveSessions,
         sessions' = [sessions EXCEPT ![x].live = FALSE]
  PROVE  SessionsStay
<1>1. DOMAIN sessions = 1..Len(sessions) /\ \A y \in DOMAIN sessions : sessions[y] \in SessionRows
  BY Lengths DEF Typed
<1>2. x \in DOMAIN sessions
  BY DEF LiveSessions
<1>3. DOMAIN sessions' = DOMAIN sessions /\ (\A y \in DOMAIN sessions \ {x} : sessions'[y] = sessions[y])
      /\ sessions'[x] = [sessions[x] EXCEPT !.live = FALSE]
  BY <1>2
<1>4. ~sessions'[x].live /\ sessions'[x].kept = sessions[x].kept
  BY <1>1, <1>2, <1>3 DEF SessionRows
<1> QED BY <1>3, <1>4 DEF SessionsStay, LiveSessions

(* All sessions end but one.                                                *)
LEMMA OthersEnd ==
  ASSUME Typed, NEW y, sessions' = Revoked(y)
  PROVE  /\ DOMAIN sessions' = DOMAIN sessions
         /\ \A x \in DOMAIN sessions : sessions'[x].kept = sessions[x].kept
         /\ \A x \in LiveSessions' : x \in DOMAIN sessions /\ x = y
         /\ \A x \in LiveSessions' : x \in LiveSessions /\ sessions'[x].late = sessions[x].late
<1>1. \A x \in DOMAIN sessions : sessions[x] \in SessionRows
  BY Lengths DEF Typed
<1>2. DOMAIN sessions' = DOMAIN sessions
      /\ \A x \in DOMAIN sessions : sessions'[x] = [sessions[x] EXCEPT !.live = @ /\ x = y]
  BY DEF Revoked
<1>3. ASSUME NEW x \in DOMAIN sessions
      PROVE  /\ sessions'[x].kept = sessions[x].kept /\ sessions'[x].late = sessions[x].late
             /\ (sessions'[x].live => x = y /\ sessions[x].live)
  <2> DEFINE b == sessions[x].live /\ x = y
  <2>1. b \in BOOLEAN /\ sessions[x] \in SessionRows /\ sessions'[x] = [sessions[x] EXCEPT !.live = b]
    BY <1>1, <1>2
  <2>2. b => x = y /\ sessions[x].live
    OBVIOUS
  <2> HIDE DEF b
  <2> QED BY <2>1, <2>2 DEF SessionRows
<1> QED BY <1>2, <1>3 DEF LiveSessions

(* Some sessions end.                                                       *)
LEMMA SomeEnd ==
  ASSUME Typed, NEW ids, sessions' = Without(sessions, ids)
  PROVE  /\ DOMAIN sessions' = DOMAIN sessions
         /\ \A x \in DOMAIN sessions : sessions'[x].kept = sessions[x].kept
         /\ \A x \in LiveSessions' : x \in LiveSessions /\ x \notin ids
                                      /\ sessions'[x].late = sessions[x].late
<1>1. \A x \in DOMAIN sessions : sessions[x] \in SessionRows
  BY Lengths DEF Typed
<1>2. DOMAIN sessions' = DOMAIN sessions
      /\ \A x \in DOMAIN sessions : sessions'[x] = [sessions[x] EXCEPT !.live = @ /\ x \notin ids]
  BY DEF Without
<1>3. ASSUME NEW x \in DOMAIN sessions
      PROVE  /\ sessions'[x].kept = sessions[x].kept /\ sessions'[x].late = sessions[x].late
             /\ (sessions'[x].live => x \notin ids /\ sessions[x].live)
  <2> DEFINE b == sessions[x].live /\ x \notin ids
  <2>1. b \in BOOLEAN /\ sessions[x] \in SessionRows /\ sessions'[x] = [sessions[x] EXCEPT !.live = b]
    BY <1>1, <1>2
  <2>2. b => x \notin ids /\ sessions[x].live
    OBVIOUS
  <2> HIDE DEF b
  <2> QED BY <2>1, <2>2 DEF SessionRows
<1> QED BY <1>2, <1>3 DEF LiveSessions

(* What a reset has found is all there is as long as sessions only end.     *)
LEMMA FoundOn ==
  ASSUME SessionsInv, NEW t \in Slots, req'[t] = req[t],
         \A x \in LiveSessions' : x \in LiveSessions /\ sessions'[x].late = sessions[x].late
  PROVE  FoundAll(t)'
BY DEF SessionsInv, FoundAll, At

(* The password changes; the session that asked for it is kept.             *)
LEMMA SessionsSet ==
  ASSUME Typed, SessionsInv, NEW s \in Slots, SetPassword(s)
  PROVE  SessionsInv'
<1> DEFINE y == req[s].by
<1>1. y \in 1..Len(sessions) /\ DOMAIN sessions = 1..Len(sessions)
      /\ \A x \in DOMAIN sessions : sessions[x] \in SessionRows
  BY Lengths, RequestFits DEF SetPassword, At, InCourse, Fits, FitsIn, Typed
<1>2. sessions' = [sessions EXCEPT ![y].kept = TRUE] /\ Others(s) /\ req'[s].pc = "revoke"
      /\ req'[s].by = y
  BY Goes DEF SetPassword
<1>3. DOMAIN sessions' = DOMAIN sessions /\ sessions'[y] = [sessions[y] EXCEPT !.kept = TRUE]
      /\ \A x \in DOMAIN sessions \ {y} : sessions'[x] = sessions[x]
  BY <1>1, <1>2
<1>4. sessions'[y].kept
  BY <1>1, <1>3 DEF SessionRows
<1>5. KeptOne(s)' /\ At(s, "revoke")'
  BY <1>1, <1>2, <1>3, <1>4 DEF KeptOne, At
<1>6. \A t \in Slots \ {s} : KeptOne(t)'
  BY <1>2, <1>3, <1>4 DEF SessionsInv, KeptOne, Others, At
<1>7. sessions'[y].live = sessions[y].live /\ sessions'[y].late = sessions[y].late
  BY <1>1, <1>3 DEF SessionRows
<1>8. \A x \in LiveSessions' : x \in LiveSessions /\ sessions'[x].late = sessions[x].late
  BY <1>3, <1>7 DEF LiveSessions
<1>9. \A t \in Slots \ {s} : FoundAll(t)'
  BY <1>2, <1>8, FoundOn DEF Others
<1>10. FoundAll(s)'
  BY <1>2 DEF FoundAll, At
<1> QED BY <1>5, <1>6, <1>9, <1>10 DEF SessionsInv, OldSessionsClosed

(* The other sessions are revoked.                                          *)
LEMMA SessionsRevoked ==
  ASSUME Typed, SessionsInv, NEW s \in Slots, RevokeUserSessions(s)
  PROVE  SessionsInv'
<1> DEFINE y == IF req[s].op = "admin" THEN 0 ELSE req[s].by
<1>1. sessions' = Revoked(y) /\ Others(s) /\ req'[s] = NoRequest /\ At(s, "revoke")
  BY Goes DEF RevokeUserSessions
<1>2. /\ DOMAIN sessions' = DOMAIN sessions
      /\ \A x \in DOMAIN sessions : sessions'[x].kept = sessions[x].kept
      /\ \A x \in LiveSessions' : x \in DOMAIN sessions /\ x = y
      /\ \A x \in LiveSessions' : x \in LiveSessions /\ sessions'[x].late = sessions[x].late
  BY <1>1, OthersEnd
<1>3. 0 \notin DOMAIN sessions
  BY Lengths DEF Typed
<1>4. KeptOne(s)
  BY DEF SessionsInv
<1>5. \A x \in LiveSessions' : sessions'[x].kept
  BY <1>1, <1>2, <1>3, <1>4 DEF KeptOne
<1>6. ASSUME NEW t \in Slots PROVE KeptOne(t)'
  <2>1. CASE t = s
    BY <1>1, <2>1, Blank DEF KeptOne, At
  <2>2. CASE t # s
    <3>1. KeptOne(t) /\ req'[t] = req[t]
      BY <1>1, <2>2 DEF SessionsInv, Others
    <3> QED BY <1>2, <3>1 DEF KeptOne, At
  <2> QED BY <2>1, <2>2
<1>7. ASSUME NEW t \in Slots PROVE FoundAll(t)'
  <2>1. CASE t = s
    BY <1>1, <2>1, Blank DEF FoundAll, At
  <2>2. CASE t # s
    BY <1>1, <1>2, <2>2, FoundOn DEF Others
  <2> QED BY <2>1, <2>2
<1> QED BY <1>5, <1>6, <1>7 DEF SessionsInv, OldSessionsClosed

(* A reset finds the sessions there are.                                    *)
LEMMA SessionsFound ==
  ASSUME Typed, SessionsInv, NEW s \in Slots, FindSessions(s)
  PROVE  SessionsInv'
<1>1. /\ Others(s) /\ req'[s].pc = "commit" /\ req'[s].rows = LiveSessions
      /\ ~At(s, "revoke") /\ UNCHANGED <<password, sessions, marks>>
  BY GoesWith DEF FindSessions, At, storeVars, historyVars
<1>2. LiveSessions' = LiveSessions
  BY <1>1 DEF LiveSessions
<1>3. KeptOne(s)' /\ FoundAll(s)'
  BY <1>1, <1>2 DEF KeptOne, FoundAll, At
<1> QED BY <1>1, <1>3, StayUnchanged, SessionsOn DEF Others

(* It commits, and closes those it found; what it did not find is late.     *)
LEMMA SessionsReset ==
  ASSUME Typed, SessionsInv, NEW s \in Slots, CommitReset(s)
  PROVE  SessionsInv'
<1>1. /\ sessions' = Without(sessions, req[s].rows) /\ Others(s) /\ req'[s] = NoRequest
      /\ At(s, "commit")
  BY Goes DEF CommitReset
<1>2. /\ DOMAIN sessions' = DOMAIN sessions
      /\ \A x \in DOMAIN sessions : sessions'[x].kept = sessions[x].kept
      /\ \A x \in LiveSessions' : x \in LiveSessions /\ x \notin req[s].rows
                                   /\ sessions'[x].late = sessions[x].late
  BY <1>1, SomeEnd
<1>3. \A x \in LiveSessions' : sessions'[x].late
  BY <1>1, <1>2 DEF SessionsInv, FoundAll
<1>4. ASSUME NEW t \in Slots PROVE KeptOne(t)' /\ FoundAll(t)'
  <2>1. CASE t = s
    BY <1>1, <2>1, Blank DEF KeptOne, FoundAll, At
  <2>2. CASE t # s
    <3>1. KeptOne(t) /\ req'[t] = req[t]
      BY <1>1, <2>2 DEF SessionsInv, Others
    <3>2. KeptOne(t)'
      BY <1>2, <3>1 DEF KeptOne, At
    <3> QED BY <1>2, <3>1, <3>2, FoundOn
  <2> QED BY <2>1, <2>2
<1> QED BY <1>3, <1>4 DEF SessionsInv, OldSessionsClosed

(* A session is made.                                                       *)
LEMMA SessionsMade ==
  ASSUME Typed, SessionsInv, NEW s \in Slots, CreateSession(s)
  PROVE  SessionsInv'
<1> DEFINE e == [live |-> TRUE, pw |-> req[s].pw, ch |-> req[s].ch, kept |-> FALSE,
                 late |-> req[s].pw # password \/ Closing]
           n == Len(sessions) + 1
<1>1. e \in SessionRows /\ (e.late \/ (e.pw = password /\ ~Closing))
  BY RequestFits DEF SessionRows, Requests, Closing
<1>2. sessions' = Append(sessions, e) /\ sessions \in Seq(SessionRows)
  BY DEF CreateSession, Typed, Stores
<1> HIDE DEF e
<1>3. /\ Len(sessions) \in Nat /\ DOMAIN sessions = 1..Len(sessions) /\ DOMAIN sessions' = 1..n
      /\ (\A x \in 1..Len(sessions) : sessions'[x] = sessions[x]) /\ sessions'[n] = e
  BY <1>1, <1>2, Added
<1>4. \A x \in 1..n : x \in 1..Len(sessions) \/ x = n
  BY <1>3
<1>5. SessionsStay
  BY <1>1, <1>3, <1>4 DEF SessionsStay, LiveSessions, CreateSession
<1>6. Others(s) /\ req'[s] = NoRequest /\ ~At(s, "revoke") /\ UNCHANGED marks
  BY Goes DEF CreateSession, At, historyVars
<1>7. KeptOne(s)' /\ FoundAll(s)'
  BY <1>6, Blank DEF KeptOne, FoundAll, At
<1> QED BY <1>5, <1>6, <1>7, SessionsOn DEF Others

-----------------------------------------------------------------------------
(* What a newer credential replaces is gone: links.                         *)

(* A request that issues a link has found every good one of the kind, when  *)
(* no other issues one at the time.                                         *)
Issuing(s) == req[s].pc \in {"lock", "replace"} /\ req[s].op # "regenerate"
Covered(s) == Issuing(s) => LiveLinks(Purpose(s)) \subseteq req[s].rows
LinksInv ==
  \/ marks.crossed
  \/ /\ \A s \in Slots : Covered(s)
     /\ \A p \in Purposes : \A j, k \in LiveLinks(p) : j = k

LinksFall == \A p \in Purposes : LiveLinks(p)' \subseteq LiveLinks(p)

LEMMA FallUnchanged == ASSUME UNCHANGED links PROVE LinksFall
BY DEF LinksFall, LiveLinks

LEMMA LinksOn ==
  ASSUME LinksInv, LinksFall, marks.crossed => marks'.crossed,
         \A s \in Slots :
           \/ Covered(s)'
           \/ Issuing(s) /\ req'[s].op = req[s].op /\ req'[s].rows = req[s].rows
  PROVE  LinksInv'
<1>1. CASE marks.crossed
  BY <1>1 DEF LinksInv
<1>2. CASE ~marks.crossed
  <2>1. /\ \A s \in Slots : Covered(s)
        /\ \A p \in Purposes : \A j, k \in LiveLinks(p) : j = k
    BY <1>2 DEF LinksInv
  <2>2. ASSUME NEW s \in Slots PROVE Covered(s)'
    <3>1. CASE Issuing(s) /\ req'[s].op = req[s].op /\ req'[s].rows = req[s].rows
      <4>1. Purpose(s)' = Purpose(s) /\ Purpose(s) \in Purposes
        BY <3>1 DEF Purpose, Purposes
      <4>2. LiveLinks(Purpose(s)) \subseteq req[s].rows
        BY <2>1, <3>1 DEF Covered
      <4>3. LiveLinks(Purpose(s))' \subseteq req'[s].rows
        BY <3>1, <4>1, <4>2 DEF LinksFall, LiveLinks
      <4> QED BY <4>3 DEF Covered
    <3> QED BY <3>1
  <2>3. \A p \in Purposes : \A j, k \in LiveLinks(p)' : j = k
    BY <2>1 DEF LinksFall
  <2> QED BY <2>2, <2>3 DEF LinksInv
<1> QED BY <1>1, <1>2

(* The request of a step does not issue a link, and no other changes.       *)
LEMMA LinksStay ==
  ASSUME LinksInv, LinksFall, marks.crossed => marks'.crossed, NEW s \in Slots, Others(s),
         req'[s].pc \notin {"lock", "replace"}
  PROVE  LinksInv'
<1>1. Covered(s)'
  BY DEF Covered, Issuing
<1>2. ASSUME NEW t \in Slots \ {s}
      PROVE  \/ Covered(t)'
             \/ Issuing(t) /\ req'[t].op = req[t].op /\ req'[t].rows = req[t].rows
  BY <1>2 DEF Others, Covered, Issuing
<1> QED BY <1>1, <1>2, LinksOn

(* No request changes.                                                      *)
LEMMA LinksIdle ==
  ASSUME LinksInv, LinksFall, marks.crossed => marks'.crossed, UNCHANGED req
  PROVE  LinksInv'
<1>1. ASSUME NEW t \in Slots
      PROVE  \/ Covered(t)'
             \/ Issuing(t) /\ req'[t].op = req[t].op /\ req'[t].rows = req[t].rows
  BY <1>1 DEF Covered, Issuing
<1> QED BY <1>1, LinksOn

(* A link is used, or expires.                                              *)
LEMMA OneFalls ==
  ASSUME Typed, NEW k \in DOMAIN links,
         \/ links' = [links EXCEPT ![k].live = FALSE]
         \/ links' = [links EXCEPT ![k].live = FALSE, ![k].uses = @ + 1]
  PROVE  LinksFall
<1>1. k \in DOMAIN links /\ links[k] \in LinkRows
  BY Lengths DEF Typed
<1>2. DOMAIN links' = DOMAIN links /\ \A i \in DOMAIN links \ {k} : links'[i] = links[i]
  BY <1>1
<1>3. \/ links'[k] = [links[k] EXCEPT !.live = FALSE]
      \/ links'[k] = [links[k] EXCEPT !.live = FALSE, !.uses = @ + 1]
  BY <1>1
<1>4. ~links'[k].live
  BY <1>1, <1>3 DEF LinkRows
<1> QED BY <1>2, <1>4 DEF LinksFall, LiveLinks

(* The rows are found, and locked.                                          *)
LEMMA LinksFound ==
  ASSUME Typed, LinksInv, NEW s \in Slots, FindRows(s) \/ LockRows(s)
  PROVE  LinksInv'
<1>1. LinksFall /\ UNCHANGED <<links, marks>>
  BY FallUnchanged DEF FindRows, LockRows, storeVars, historyVars
<1>2. Others(s)
  BY Goes, GoesWith DEF LockRows
<1>3. ASSUME NEW t \in Slots \ {s}
      PROVE  \/ Covered(t)'
             \/ Issuing(t) /\ req'[t].op = req[t].op /\ req'[t].rows = req[t].rows
  BY <1>2, <1>3 DEF Others, Covered, Issuing
<1>4. CASE FindRows(s)
  <2>1. /\ req'[s].op = req[s].op
        /\ req[s].op # "regenerate" => req'[s].rows = LiveLinks(Purpose(s))
    BY <1>4, GoesWith
  <2>2. Purpose(s)' = Purpose(s)
    BY <2>1 DEF Purpose
  <2>3. Covered(s)'
    BY <1>1, <2>1, <2>2 DEF Covered, Issuing, LiveLinks
  <2> QED BY <1>1, <1>3, <2>3, LinksOn
<1>5. CASE LockRows(s)
  <2>1. At(s, "lock") /\ req'[s].op = req[s].op /\ req'[s].rows = req[s].rows
    BY <1>5, Goes DEF LockRows
  <2>2. \/ Covered(s)'
        \/ Issuing(s) /\ req'[s].op = req[s].op /\ req'[s].rows = req[s].rows
    BY <2>1 DEF Covered, Issuing, At
  <2> QED BY <1>1, <1>3, <2>2, LinksOn
<1> QED BY <1>4, <1>5

(* The new link comes, and those that were found go.                        *)
LEMMA LinksReplaced ==
  ASSUME Typed, LinksInv, NEW s \in Slots, Replace(s), req[s].op # "regenerate"
  PROVE  LinksInv'
<1> DEFINE e == [purpose |-> Purpose(s), live |-> TRUE, uses |-> 0]
           w == Without(links, req[s].rows)
           n == Len(links) + 1
<1>1. links' = Append(w, e) /\ marks' = [marks EXCEPT !.crossed = @ \/ Overlapped(s)]
      /\ At(s, "replace") /\ Others(s) /\ req'[s].pc \in {"mail", "idle"}
  BY GoesWith DEF Replace
<1>2. Purpose(s) \in Purposes /\ e \in LinkRows /\ e.purpose = Purpose(s)
  BY DEF Purpose, Purposes, LinkRows
<1>3. /\ links \in Seq(LinkRows) /\ Len(links) \in Nat /\ DOMAIN links = 1..Len(links)
      /\ (\A i \in 1..Len(links) : links[i] \in LinkRows) /\ marks \in Marks
  BY Lengths DEF Typed, Stores
<1>4. /\ w \in Seq(LinkRows) /\ Len(w) = Len(links)
      /\ \A i \in 1..Len(links) : w[i] = [links[i] EXCEPT !.live = @ /\ i \notin req[s].rows]
  BY <1>3, Deleted, RowsCanGo
<1>5. marks'.crossed = (marks.crossed \/ Overlapped(s))
  BY <1>1, <1>3 DEF Marks
<1> SUFFICES ASSUME ~marks.crossed, ~Overlapped(s) PROVE LinksInv'
  BY <1>5 DEF LinksInv
<1>6. /\ \A t \in Slots : Covered(t)
      /\ \A p \in Purposes : \A j, k \in LiveLinks(p) : j = k
  BY DEF LinksInv
<1>7. \A i \in 1..Len(links) :
        w[i].purpose = links[i].purpose /\ (w[i].live => links[i].live /\ i \notin req[s].rows)
  <2> SUFFICES ASSUME NEW i \in 1..Len(links)
               PROVE  w[i].purpose = links[i].purpose
                      /\ (w[i].live => links[i].live /\ i \notin req[s].rows)
    OBVIOUS
  <2> DEFINE b == links[i].live /\ i \notin req[s].rows
  <2>1. b \in BOOLEAN /\ links[i] \in LinkRows /\ w[i] = [links[i] EXCEPT !.live = b]
    BY <1>3, <1>4
  <2>2. b => links[i].live /\ i \notin req[s].rows
    OBVIOUS
  <2> HIDE DEF b, w
  <2> QED BY <2>1, <2>2 DEF LinkRows
<1> HIDE DEF e, w
<1>8. /\ DOMAIN links' = 1..n /\ links'[n] = e
      /\ \A i \in 1..Len(links) : links'[i] = w[i]
  BY <1>1, <1>2, <1>4, Added
<1>9. \A i \in 1..n : i \in 1..Len(links) \/ i = n
  BY <1>3
<1>10. LiveLinks(Purpose(s)) \subseteq req[s].rows
  BY <1>1, <1>6 DEF Covered, Issuing, At
<1>11. ASSUME NEW p \in Purposes, NEW k \in LiveLinks(p)'
       PROVE  IF p = Purpose(s) THEN k = n ELSE k \in LiveLinks(p)
  <2>1. k \in 1..n /\ links'[k].live /\ links'[k].purpose = p
    BY <1>8, <1>11 DEF LiveLinks
  <2>2. CASE k = n
    BY <1>2, <1>8, <2>1, <2>2
  <2>3. CASE k \in 1..Len(links)
    <3>1. links[k].live /\ k \notin req[s].rows /\ links[k].purpose = p
      BY <1>7, <1>8, <2>1, <2>3
    <3>2. k \in LiveLinks(p)
      BY <1>3, <2>3, <3>1 DEF LiveLinks
    <3> QED BY <1>10, <3>1, <3>2
  <2> QED BY <1>9, <2>1, <2>2, <2>3
<1>12. ASSUME NEW p \in Purposes, NEW j \in LiveLinks(p)', NEW k \in LiveLinks(p)' PROVE j = k
  BY <1>6, <1>11
<1>13. ASSUME NEW t \in Slots \ {s} PROVE Covered(t)'
  <2>1. req'[t] = req[t] /\ Purpose(t)' = Purpose(t) /\ Purpose(t) \in Purposes
    BY <1>1, <1>13 DEF Others, Purpose, Purposes
  <2>2. SUFFICES ASSUME Issuing(t) PROVE LiveLinks(Purpose(t))' \subseteq req[t].rows
    BY <2>1 DEF Covered, Issuing
  <2>3. Purpose(t) # Purpose(s)
    BY <2>2 DEF Issuing, Overlapped
  <2>4. LiveLinks(Purpose(t)) \subseteq req[t].rows
    BY <1>6, <2>2 DEF Covered
  <2>5. ASSUME NEW p \in Purposes, p = Purpose(t) PROVE LiveLinks(p)' \subseteq req[t].rows
    BY <1>11, <2>3, <2>4, <2>5
  <2> QED BY <2>1, <2>5
<1>14. Covered(s)'
  BY <1>1 DEF Covered, Issuing
<1> QED BY <1>12, <1>13, <1>14 DEF LinksInv

-----------------------------------------------------------------------------
(* What a newer credential replaces is gone: all of it.                     *)

OldInv == SessionsInv /\ LinksInv

(* Most steps change neither sessions nor links, and bring their request to *)
(* no place where they do.                                                  *)
LEMMA OldOn ==
  ASSUME Typed, OldInv, NEW s \in Slots, Others(s), UNCHANGED <<password, sessions, links>>,
         marks.halfway => marks'.halfway, marks.crossed => marks'.crossed,
         ~At(s, "revoke"), req'[s].pc \notin {"revoke", "lock", "replace", "commit"}
  PROVE  OldInv'
<1>1. KeptOne(s)' /\ FoundAll(s)'
  BY DEF KeptOne, FoundAll, At
<1>2. SessionsInv'
  BY <1>1, StayUnchanged, SessionsOn DEF OldInv, Others
<1>3. LinksInv'
  BY FallUnchanged, LinksStay DEF OldInv
<1> QED BY <1>2, <1>3 DEF OldInv

LEMMA OldIdle ==
  ASSUME Typed, OldInv, SessionsStay, LinksFall, UNCHANGED <<req, marks>>
  PROVE  OldInv'
BY SessionsOn, LinksIdle DEF OldInv

LEMMA OldRequested ==
  ASSUME Typed, OldInv, NEW s \in Slots, Request(s)
  PROVE  OldInv'
<1>1. UNCHANGED <<password, links, marks>>
  BY GoesFirst DEF historyVars
<1>2. CASE Logout(s)
  <2>1. SessionsStay /\ UNCHANGED req
    BY <1>1, <1>2, OneEnds DEF Logout
  <2> QED BY <1>1, <2>1, FallUnchanged, OldIdle
<1>3. CASE UNCHANGED sessions
  <2>1. CASE UNCHANGED req
    BY <1>1, <1>3, <2>1, StayUnchanged, FallUnchanged, OldIdle
  <2>2. CASE At(s, "idle") /\ Others(s) /\ Starts(req'[s])
    <3>1. ~At(s, "revoke") /\ req'[s].pc \notin {"revoke", "lock", "replace", "commit"}
      BY <2>2 DEF At, Starts
    <3> QED BY <1>1, <1>3, <2>2, <3>1, OldOn
  <2> QED BY <2>1, <2>2, GoesFirst
<1> QED BY <1>2, <1>3, GoesFirst

(* Sessions and links are not what these steps change.                      *)
LEMMA OldElsewhere ==
  ASSUME Typed, OldInv, NEW s \in Slots,
         \/ AskLimiter(s) \/ RecordFailure(s) \/ RecordSuccess(s) \/ CheckPassword(s)
         \/ IssueChallenge(s) \/ Peek(s) \/ UseRecoveryCode(s) \/ VerifyCode(s)
         \/ AcceptTOTPStep(s) \/ FailChallenge(s) \/ Consume(s) \/ ReadPending(s) \/ EnableTOTP(s)
         \/ ForgetPending(s) \/ Mail(s) \/ LimiterFails(s)
  PROVE  OldInv'
<1>0. marks \in Marks
  BY DEF Typed, Stores
<1>1. UNCHANGED <<password, sessions, links>>
  BY DEF AskLimiter, RecordFailure, RecordSuccess, CheckPassword, IssueChallenge, Peek,
     UseRecoveryCode, VerifyCode, AcceptTOTPStep, FailChallenge, Consume, ReadPending, EnableTOTP,
     ForgetPending, Mail, LimiterFails, storeVars
<1>2. marks'.halfway = marks.halfway /\ marks'.crossed = marks.crossed
  BY <1>0 DEF AskLimiter, RecordFailure, RecordSuccess, CheckPassword, IssueChallenge, Peek,
     UseRecoveryCode, VerifyCode, AcceptTOTPStep, FailChallenge, Consume, ReadPending, EnableTOTP,
     ForgetPending, Mail, LimiterFails, historyVars, Marks
<1>3. ~At(s, "revoke")
  BY DEF AskLimiter, RecordFailure, RecordSuccess, CheckPassword, IssueChallenge, Peek,
     UseRecoveryCode, VerifyCode, AcceptTOTPStep, FailChallenge, Consume, ReadPending, EnableTOTP,
     ForgetPending, Mail, LimiterFails, At
<1>4. Others(s) /\ req'[s].pc \notin {"revoke", "lock", "replace", "commit"}
  BY GoesOn
<1> QED BY <1>1, <1>2, <1>3, <1>4, OldOn

(* The steps that change sessions.                                          *)
LEMMA OldSessionsChanged ==
  ASSUME Typed, OldInv, NEW s \in Slots,
         CreateSession(s) \/ DisableTOTP(s) \/ SetPassword(s) \/ RevokeUserSessions(s)
  PROVE  OldInv'
<1>1. UNCHANGED <<links, marks>>
  BY DEF CreateSession, DisableTOTP, SetPassword, RevokeUserSessions, historyVars
<1>2. Done(s) \/ Go(s, "revoke")
  BY DEF CreateSession, DisableTOTP, SetPassword, RevokeUserSessions
<1>3. Others(s) /\ req'[s].pc \in {"idle", "revoke"}
  BY <1>2, Goes, Blank
<1>4. LinksInv'
  BY <1>1, <1>3, FallUnchanged, LinksStay DEF OldInv
<1>5. CASE DisableTOTP(s)
  <2>1. UNCHANGED <<password, sessions>> /\ ~At(s, "revoke")
    BY <1>5 DEF DisableTOTP, At
  <2>2. req'[s].pc = "revoke" => req'[s].op = "admin"
    BY <1>5, Goes, Blank DEF DisableTOTP
  <2>3. KeptOne(s)' /\ FoundAll(s)'
    BY <1>3, <2>2 DEF KeptOne, FoundAll, At
  <2>4. SessionsInv'
    BY <1>1, <1>3, <2>1, <2>3, StayUnchanged, SessionsOn DEF OldInv, Others
  <2> QED BY <1>4, <2>4 DEF OldInv
<1> QED BY <1>4, <1>5, SessionsMade, SessionsSet, SessionsRevoked DEF OldInv

(* The steps that change links.                                             *)
LEMMA OldLinksChanged ==
  ASSUME Typed, OldInv, NEW s \in Slots, FindRows(s) \/ LockRows(s) \/ Replace(s)
  PROVE  OldInv'
<1>0. marks \in Marks
  BY DEF Typed, Stores
<1>1. UNCHANGED <<password, sessions>> /\ marks'.halfway = marks.halfway
  BY <1>0 DEF FindRows, LockRows, Replace, storeVars, historyVars, Marks
<1>2. Others(s) /\ ~At(s, "revoke") /\ req'[s].pc \notin {"revoke", "commit"}
  <2>1. CASE FindRows(s)
    BY <2>1, GoesWith DEF FindRows, At
  <2>2. CASE LockRows(s)
    BY <2>2, Goes DEF LockRows, At
  <2>3. CASE Replace(s)
    BY <2>3, GoesWith DEF Replace, At
  <2> QED BY <2>1, <2>2, <2>3
<1>3. KeptOne(s)' /\ FoundAll(s)'
  BY <1>2 DEF KeptOne, FoundAll, At
<1>4. SessionsInv'
  BY <1>1, <1>2, <1>3, StayUnchanged, SessionsOn DEF OldInv, Others
<1>5. CASE Replace(s) /\ req[s].op = "regenerate"
  <2>1. UNCHANGED <<links, marks>> /\ req'[s].pc \notin {"lock", "replace"}
    BY <1>5, GoesWith DEF Replace
  <2>2. LinksInv'
    BY <1>2, <2>1, FallUnchanged, LinksStay DEF OldInv
  <2> QED BY <1>4, <2>2 DEF OldInv
<1> QED BY <1>4, <1>5, LinksFound, LinksReplaced DEF OldInv

(* A link is used.                                                          *)
LEMMA OldLinkUsed ==
  ASSUME Typed, OldInv, NEW s \in Slots, CommitReset(s) \/ ConfirmEmail(s)
  PROVE  OldInv'
<1>1. CASE CommitReset(s)
  <2>1. req[s].link \in DOMAIN links /\ links' = Used(req[s].link)
    BY <1>1, RequestFits, Lengths DEF CommitReset, At, InCourse, Fits, FitsIn, Typed
  <2>2. LinksFall /\ UNCHANGED marks
    BY <1>1, <2>1, OneFalls DEF Used, CommitReset, historyVars
  <2>3. Others(s) /\ req'[s].pc = "idle"
    BY <1>1, Goes, Blank DEF CommitReset
  <2>4. LinksInv'
    BY <2>2, <2>3, LinksStay DEF OldInv
  <2> QED BY <1>1, <2>4, SessionsReset DEF OldInv
<1>2. CASE ConfirmEmail(s)
  <2>1. LinksFall
    BY <1>2, OneFalls DEF ConfirmEmail, Used
  <2> QED BY <1>2, <2>1, StayUnchanged, OldIdle DEF ConfirmEmail, historyVars
<1> QED BY <1>1, <1>2

(* A reset begins, and goes on.                                             *)
LEMMA OldReset ==
  ASSUME Typed, OldInv, NEW s \in Slots, RequestReset(s) \/ WritePassword(s) \/ FindSessions(s)
  PROVE  OldInv'
<1>1. /\ Others(s) /\ req'[s].pc \in {"reset", "close", "commit"} /\ ~At(s, "revoke")
      /\ UNCHANGED <<password, sessions, links, marks>>
  <2>1. CASE RequestReset(s)
    BY <2>1, GoesClaiming DEF At, storeVars, historyVars
  <2>2. CASE WritePassword(s)
    BY <2>2, Goes DEF WritePassword, At, storeVars, historyVars
  <2>3. CASE FindSessions(s)
    BY <2>3, GoesWith DEF FindSessions, At, storeVars, historyVars
  <2> QED BY <2>1, <2>2, <2>3
<1>2. CASE FindSessions(s)
  <2>1. LinksInv'
    BY <1>1, FallUnchanged, LinksStay DEF OldInv
  <2> QED BY <1>2, <2>1, SessionsFound DEF OldInv
<1>3. CASE RequestReset(s) \/ WritePassword(s)
  <2>1. req'[s].pc # "commit"
    BY <1>3, GoesClaiming, Goes DEF WritePassword
  <2> QED BY <1>1, <2>1, OldOn
<1> QED BY <1>2, <1>3

(* A call fails: a change of password stays without its revocation.         *)
LEMMA OldCallFails ==
  ASSUME Typed, OldInv, NEW s \in Slots, CallFails(s)
  PROVE  OldInv'
<1>0. marks \in Marks
  BY DEF Typed, Stores
<1>1. /\ Others(s) /\ req'[s].pc = "idle" /\ UNCHANGED <<password, sessions, links>>
      /\ marks'.crossed = marks.crossed /\ marks'.halfway = (marks.halfway \/ At(s, "revoke"))
  BY <1>0, Goes, Blank DEF CallFails, storeVars, Marks, At
<1>2. CASE At(s, "revoke")
  <2>1. \A t \in Slots : KeptOne(t)' /\ FoundAll(t)'
    BY <1>1 DEF KeptOne, FoundAll, LiveSessions, At, Others, OldInv, SessionsInv
  <2>2. SessionsInv'
    BY <1>1, <1>2, <2>1 DEF SessionsInv, OldSessionsClosed
  <2>3. LinksInv'
    BY <1>1, FallUnchanged, LinksStay DEF OldInv
  <2> QED BY <2>2, <2>3 DEF OldInv
<1>3. CASE ~At(s, "revoke")
  BY <1>1, <1>3, OldOn
<1> QED BY <1>2, <1>3

LEMMA OldStep == Typed /\ OldInv /\ [Next]_vars => OldInv'
<1> SUFFICES ASSUME Typed, OldInv, [Next]_vars PROVE OldInv'
  OBVIOUS
<1>1. CASE Tick \/ WindowEnds \/ UNCHANGED vars
  <2>1. UNCHANGED <<password, sessions, links, req, marks>>
    BY <1>1 DEF Tick, WindowEnds, storeVars, historyVars, vars
  <2> QED BY <2>1, StayUnchanged, FallUnchanged, OldIdle
<1>2. CASE Expire
  <2>1. UNCHANGED <<password, req, marks>>
    BY <1>2 DEF Expire, historyVars
  <2>2. SessionsStay
    <3>1. CASE UNCHANGED sessions
      BY <2>1, <3>1, StayUnchanged
    <3>2. CASE \E x \in LiveSessions : sessions' = [sessions EXCEPT ![x].live = FALSE]
      BY <2>1, <3>2, OneEnds
    <3> QED BY <1>2, <3>1, <3>2 DEF Expire
  <2>3. LinksFall
    <3>1. CASE UNCHANGED links
      BY <3>1, FallUnchanged
    <3>2. CASE \E p \in Purposes, k \in DOMAIN links :
                 k \in LiveLinks(p) /\ links' = [links EXCEPT ![k].live = FALSE]
      BY <3>2, OneFalls
    <3> QED BY <1>2, <3>1, <3>2 DEF Expire, LiveLinks
  <2> QED BY <2>1, <2>2, <2>3, OldIdle
<1> QED BY <1>1, <1>2, OldRequested, OldElsewhere, OldSessionsChanged, OldLinksChanged, OldLinkUsed,
           OldReset, OldCallFails DEF Next, Handle

(* No session of an older password outlives a change or a reset, and only   *)
(* the latest link of a kind is good, for any number of requests that       *)
(* overlap (SetPassword and RevokeUserSessions, ResetPassword statement by  *)
(* statement, IssueUserToken).  OldGone names what it sets aside: a change  *)
(* whose revocation failed or is to come, a login that had checked the old  *)
(* password before the change, or made its session between the revocation   *)
(* and the commit of a reset, and two links issued at the same time.        *)
THEOREM OldClosed == Spec => []OldGone
<1>1. Init => OldInv
  <2> SUFFICES ASSUME Init PROVE OldInv
    OBVIOUS
  <2>1. \A s \in Slots : req[s].pc = "idle"
    BY Blank DEF Init
  <2>2. DOMAIN sessions = {1} /\ sessions[1].pw = password
    BY DEF Init
  <2>3. SessionsInv
    BY <2>1, <2>2 DEF SessionsInv, OldSessionsClosed, KeptOne, FoundAll, At, LiveSessions
  <2>4. DOMAIN links = {}
    BY DEF Init
  <2>5. LinksInv
    BY <2>1, <2>4 DEF LinksInv, Covered, Issuing, LiveLinks
  <2> QED BY <2>3, <2>5 DEF OldInv
<1>2. OldInv => OldGone
  <2> SUFFICES ASSUME OldInv PROVE LatestLink
    BY DEF OldInv, SessionsInv, OldGone
  <2> SUFFICES ASSUME ~marks.crossed, NEW p \in Purposes PROVE Cardinality(LiveLinks(p)) <= 1
    BY DEF LatestLink
  <2>1. \A j, k \in LiveLinks(p) : j = k
    BY DEF OldInv, LinksInv
  <2>2. CASE LiveLinks(p) = {}
    BY <2>2, FS_EmptySet
  <2>3. CASE LiveLinks(p) # {}
    <3>1. PICK k \in LiveLinks(p) : TRUE
      BY <2>3
    <3>2. LiveLinks(p) = {k}
      BY <2>1, <3>1
    <3>3. Cardinality({k}) = 1
      BY FS_Singleton
    <3> QED BY <3>2, <3>3
  <2> QED BY <2>2, <2>3
<1> QED BY <1>1, <1>2, TypeInit, TypeStep, OldStep, PTL DEF Spec
=============================================================================
