---------------------------- MODULE AuthSessions -----------------------------
(***************************************************************************)
(* POST /auth/login, /auth/refresh and /auth/logout                        *)
(* (internal/usecase/auth.go, internal/repository/auth.go) over the table  *)
(* refresh_tokens, and the check of the access token that opens every      *)
(* other route (pkg/middlewares/jwt.go: Protect).  One action per          *)
(* statement, one for the tests of Refresh that read the clock, and one    *)
(* for the answer that follows a write: the process may die in between.    *)
(*                                                                         *)
(* Abstracted: a refresh token is the login that issued it and an access   *)
(* token the login or refresh that made it; hashes and signatures are      *)
(* unforgeable; a name and a password that belong together are the user    *)
(* they belong to.  The table users is never written.  A time.Now() after  *)
(* one statement and before the next is any time between the two.          *)
(***************************************************************************)
EXTENDS Naturals

CONSTANTS
  Requests,    \* HTTP requests, each handled once
  Users,       \* the rows of the table users
  Nobody,      \* a wrong password or unknown name; no token or one nobody issued
  Never,       \* NULL in the column revoked_at
  AccessTTL,   \* JWT_ACCESS_TTL
  RefreshTTL,  \* JWT_REFRESH_TTL
  MaxClock,    \* bound on the clock
  Prompt,      \* TRUE when no request runs on from one unit of time to the next
  DBFaults,    \* TRUE when statements may fail
  Crashes,     \* TRUE when the process may die
  NoInput      \* the request has not arrived

ASSUME SessionAssumption ==
  /\ Nobody \notin Requests \cup Users
  /\ Never \notin Nat
  /\ AccessTTL \in Nat \ {0} /\ RefreshTTL \in Nat \ {0} /\ MaxClock \in Nat
  /\ Prompt \in BOOLEAN /\ DBFaults \in BOOLEAN /\ Crashes \in BOOLEAN

VARIABLES
  tokens,  \* the table refresh_tokens: the row each login inserted
  clock,   \* the time, in seconds
  pc,      \* the step a request takes next
  input,   \* what the client sent
  stored,  \* the row FindRefreshToken returned
  now,     \* the time of the last look at the clock that is used later
  exp,     \* the exp claim of the access token a request made
  reply,   \* the answer sent to the client
  after    \* history: the logouts answered 200 before a request came in

locals == <<input, stored, now, exp, after>>
vars == <<tokens, clock, pc, locals, reply>>

NoToken == [user |-> Nobody, expiresAt |-> 0, revokedAt |-> Never]

Token ==
  [user: Users \cup {Nobody}, expiresAt: 0 .. MaxClock + RefreshTTL,
   revokedAt: 0 .. MaxClock \cup {Never}]

\* "malformed" is a login, refresh or logout whose body does not parse or
\* misses a field.
Asks ==
  [op: {"malformed"}, user: {Nobody}, token: {Nobody}]
    \cup [op: {"login"}, user: Users \cup {Nobody}, token: {Nobody}]
    \cup [op: {"refresh", "logout", "call"}, user: {Nobody}, token: Requests \cup {Nobody}]

Replies == {"none", "loggedIn", "refreshed", "loggedOut", "accepted", "badRequest",
            "unauthorized", "invalid", "revoked", "expired", "internal"}

Statements == {"findUser", "createToken", "findToken", "findOwner", "revoke"}
Running == Statements \cup {"judge", "handOut", "confirm"}
Ended == {"done", "lost"}

Init ==
  /\ tokens = [q \in Requests |-> NoToken]
  /\ clock = 0
  /\ pc = [r \in Requests |-> "idle"]
  /\ input = [r \in Requests |-> NoInput]
  /\ stored = [r \in Requests |-> NoToken]
  /\ now = [r \in Requests |-> 0]
  /\ exp = [r \in Requests |-> 0]
  /\ reply = [r \in Requests |-> "none"]
  /\ after = [r \in Requests |-> {}]

Goto(r, label) == pc' = [pc EXCEPT ![r] = label] /\ UNCHANGED reply

Answer(r, what) ==
  /\ pc' = [pc EXCEPT ![r] = "done"]
  /\ reply' = [reply EXCEPT ![r] = what]

HasToken(q) == tokens[q] # NoToken

\* The client got a refresh token, or an access token, from request q.
GaveRefresh(q) == reply[q] = "loggedIn"
GaveAccess(q) == reply[q] \in {"loggedIn", "refreshed"}

\* The session and the sub claim of the access token that request q made.
Session(q) == IF input[q].op = "login" THEN q ELSE input[q].token
Subject(q) == IF input[q].op = "login" THEN input[q].user ELSE stored[q].user

Valid(q) == clock < exp[q]

-----------------------------------------------------------------------------
(* One action per step of a request.                                       *)

\* A client sends only tokens it was given, or made up.
Sendable(ask) ==
  ask.token \in Requests =>
    IF ask.op = "call" THEN GaveAccess(ask.token) ELSE GaveRefresh(ask.token)

\* The handlers' BodyParser and ValidateStruct; for a call, all of Protect.
Receive(r) ==
  /\ pc[r] = "idle"
  /\ \E ask \in Asks :
       /\ Sendable(ask)
       /\ input' = [input EXCEPT ![r] = ask]
       /\ CASE ask.op = "call" ->
                 IF ask.token \in Requests /\ Valid(ask.token)
                   THEN Answer(r, "accepted")
                   ELSE Answer(r, "unauthorized")
            [] ask.op = "malformed" -> Answer(r, "badRequest")
            [] ask.op = "login" -> Goto(r, "findUser")
            [] ask.op \in {"refresh", "logout"} -> Goto(r, "findToken")
       /\ now' = IF ask.op = "call" THEN [now EXCEPT ![r] = clock] ELSE now
       /\ after' = IF ask.op = "refresh"
                     THEN [after EXCEPT ![r] = {q \in Requests : reply[q] = "loggedOut"}]
                     ELSE after
  /\ UNCHANGED <<tokens, clock, stored, exp>>

\* Bug: the outcome of CompareHashAndPassword is ignored.
PasswordIgnored(r) == TRUE

\* FindUserByUsername found a user whose hash fits the password.
PasswordFits(r) == input[r].user \in Users

\* Bug: the two lifetimes are swapped.
ExpiryOfRefresh(t) == t + RefreshTTL

Expiry(t) == t + AccessTTL

\* Login, up to the access token.
FindUser(r) ==
  /\ pc[r] = "findUser"
  /\ IF PasswordFits(r)
       THEN /\ exp' = [exp EXCEPT ![r] = Expiry(clock)]
            /\ now' = [now EXCEPT ![r] = clock]
            /\ Goto(r, "createToken")
       ELSE /\ Answer(r, "unauthorized")
            /\ UNCHANGED <<exp, now>>
  /\ UNCHANGED <<tokens, clock, input, stored, after>>

NewToken(r, t) == [user |-> input[r].user, expiresAt |-> t + RefreshTTL, revokedAt |-> Never]

InsertToken(r) ==
  \E t \in now[r] .. clock : tokens' = [tokens EXCEPT ![r] = NewToken(r, t)]

\* issueRefreshToken and CreateRefreshToken.
CreateToken(r) ==
  /\ pc[r] = "createToken"
  /\ InsertToken(r)
  /\ Goto(r, "handOut")
  /\ UNCHANGED <<clock, locals>>

\* Login returns the tokens, and the answer takes them to the client.
HandOut(r) ==
  /\ pc[r] = "handOut"
  /\ Answer(r, "loggedIn")
  /\ UNCHANGED <<tokens, clock, locals>>

\* FindRefreshToken, of Refresh and of Logout.
FindToken(r) ==
  LET token == input[r].token
  IN /\ pc[r] = "findToken"
     /\ IF token \in Requests /\ HasToken(token)
          THEN /\ stored' = [stored EXCEPT ![r] = tokens[token]]
               /\ now' = [now EXCEPT ![r] = clock]
               /\ Goto(r, IF input[r].op = "refresh" THEN "judge" ELSE "revoke")
          ELSE Answer(r, "invalid") /\ UNCHANGED <<stored, now>>
     /\ UNCHANGED <<tokens, clock, input, exp, after>>

\* Bug: revoked_at is not looked at.
JudgementOfExpiry(r) == IF clock > stored[r].expiresAt THEN "expired" ELSE "fine"

\* Bug: ExpiresAt.After(now) instead of now.After(ExpiresAt).
JudgementInverted(r) ==
  CASE stored[r].revokedAt # Never -> "revoked"
    [] stored[r].revokedAt = Never /\ ~(clock > stored[r].expiresAt) -> "expired"
    [] OTHER -> "fine"

Judgement(r) ==
  CASE stored[r].revokedAt # Never -> "revoked"
    [] stored[r].revokedAt = Never /\ clock > stored[r].expiresAt -> "expired"
    [] OTHER -> "fine"

\* The tests of Refresh on the row it read.
Judge(r) ==
  /\ pc[r] = "judge"
  /\ IF Judgement(r) = "fine" THEN Goto(r, "findOwner") ELSE Answer(r, Judgement(r))
  /\ UNCHANGED <<tokens, clock, locals>>

\* FindUserByID, which a foreign key lets succeed, and the access token.
FindOwner(r) ==
  /\ pc[r] = "findOwner"
  /\ exp' = [exp EXCEPT ![r] = Expiry(clock)]
  /\ Answer(r, "refreshed")
  /\ UNCHANGED <<tokens, clock, input, stored, now, after>>

Revoked(row, t) == [user |-> row.user, expiresAt |-> row.expiresAt, revokedAt |-> t]

\* Bug: WHERE token_hash = ? alone.
RevokeAgain(s, t) == tokens' = [tokens EXCEPT ![s] = Revoked(tokens[s], t)]

\* RevokeRefreshToken: WHERE token_hash = ? AND revoked_at IS NULL.
RevokeOnce(s, t) ==
  tokens' = IF tokens[s].revokedAt = Never
              THEN [tokens EXCEPT ![s] = Revoked(tokens[s], t)]
              ELSE tokens

UpdateToken(r) == \E t \in now[r] .. clock : RevokeOnce(input[r].token, t)

\* The second statement of Logout; a token revoked before is not an error.
Revoke(r) ==
  /\ pc[r] = "revoke"
  /\ UpdateToken(r)
  /\ Goto(r, "confirm")
  /\ UNCHANGED <<clock, locals>>

\* Logout returns, and the client is told.
Confirm(r) ==
  /\ pc[r] = "confirm"
  /\ Answer(r, "loggedOut")
  /\ UNCHANGED <<tokens, clock, locals>>

-----------------------------------------------------------------------------
(* Faults.                                                                 *)

\* A statement fails without effect: 500.
StatementFails(r) ==
  /\ DBFaults
  /\ pc[r] \in Statements
  /\ Answer(r, "internal")
  /\ UNCHANGED <<tokens, clock, locals>>

\* A write takes effect but its acknowledgement is lost: 500.
AckLost(r) ==
  /\ DBFaults
  /\ \/ pc[r] = "createToken" /\ InsertToken(r)
     \/ pc[r] = "revoke" /\ UpdateToken(r)
  /\ Answer(r, "internal")
  /\ UNCHANGED <<clock, locals>>

\* The process dies.  The table stays, with the writes whose requests are not
\* answered yet, and so do the access tokens, which live at the clients.
Crash ==
  /\ Crashes
  /\ \E r \in Requests : pc[r] \in Running
  /\ pc' = [r \in Requests |-> IF pc[r] \in Running THEN "lost" ELSE pc[r]]
  /\ UNCHANGED <<tokens, clock, locals, reply>>

Tick ==
  /\ clock < MaxClock
  /\ Prompt => \A r \in Requests : pc[r] \notin Running
  /\ clock' = clock + 1
  /\ UNCHANGED <<tokens, pc, locals, reply>>

Step(r) ==
  \/ Receive(r) \/ FindUser(r) \/ CreateToken(r) \/ HandOut(r)
  \/ FindToken(r) \/ Judge(r) \/ FindOwner(r) \/ Revoke(r) \/ Confirm(r)
  \/ StatementFails(r) \/ AckLost(r)

Next == (\E r \in Requests : Step(r)) \/ Crash \/ Tick

Spec == Init /\ [][Next]_vars

-----------------------------------------------------------------------------
(* Properties.                                                             *)

TypeOK ==
  /\ tokens \in [Requests -> Token]
  /\ clock \in 0 .. MaxClock
  /\ pc \in [Requests -> {"idle"} \cup Running \cup Ended]
  /\ input \in [Requests -> Asks \cup {NoInput}]
  /\ stored \in [Requests -> Token]
  /\ now \in [Requests -> 0 .. MaxClock]
  /\ exp \in [Requests -> 0 .. MaxClock + AccessTTL]
  /\ reply \in [Requests -> Replies]
  /\ after \in [Requests -> SUBSET Requests]

\* Once a logout is answered 200, no request that comes in later gets an
\* access token with that refresh token: not after a crash, not while other
\* logouts of it are still running, and whatever statements fail.
LogoutIsFinal ==
  \A l, r \in Requests :
    /\ l \in after[r]
    /\ input[r].op = "refresh" /\ input[r].token = input[l].token
    => pc[r] # "findOwner" /\ reply[r] # "refreshed"

\* Every call that Protect lets through goes back, directly or by a refresh,
\* to a login with the right password of the user it acts for.
CallTraceable ==
  \A c \in Requests : reply[c] = "accepted" =>
    LET a == input[c].token
        s == Session(a)
    IN /\ input[s].op = "login" /\ reply[s] = "loggedIn"
       /\ input[s].user \in Users
       /\ Subject(a) = input[s].user

\* Access tokens outlive the session they come from by less than AccessTTL,
\* whether it was logged out or expired, if no request runs on from one unit
\* of time to the next (Refresh reads the clock twice, Logout before it
\* writes).
AccessEnds ==
  \A c \in Requests : reply[c] = "accepted" /\ Prompt =>
    LET s == Session(input[c].token)
    IN /\ now[c] < tokens[s].expiresAt + AccessTTL
       /\ tokens[s].revokedAt # Never => now[c] < tokens[s].revokedAt + AccessTTL

\* The UPDATE of a logout was, or may have been, carried out: it is answered
\* 200, or 500 (the acknowledgement may be lost), or not answered yet, or
\* never will be, for the process died.
MayHaveRevoked(l) ==
  reply[l] \in {"loggedOut", "internal"} \/ pc[l] \in {"confirm", "lost"}

\* A refused refresh was refused for a reason: "revoked" after a logout of
\* this token that reached its UPDATE, whatever became of its answer,
\* "expired" past its expiry, and "invalid" never for a token that a login
\* handed out, restarts, failed logouts and logouts cut short in between
\* included (ARCHITECTURE.md: tokens stay valid after a restart).
RefusalTrue ==
  \A r \in Requests :
    /\ reply[r] = "revoked" =>
         \E l \in Requests :
           /\ input[l].op = "logout" /\ input[l].token = input[r].token
           /\ stored[l] # NoToken /\ MayHaveRevoked(l)
    /\ reply[r] = "expired" => clock > tokens[input[r].token].expiresAt
    /\ reply[r] = "invalid" => input[r].token = Nobody

-----------------------------------------------------------------------------
(* Refinement.                                                             *)

until == [s \in Requests |-> IF HasToken(s) THEN tokens[s].expiresAt ELSE Never]
closed == [s \in Requests |-> tokens[s].revokedAt]

SawOpen(q) ==
  /\ stored[q] # NoToken /\ stored[q].revokedAt = Never
  /\ now[q] <= stored[q].expiresAt

seen == {<<q, input[q].token>> : q \in {p \in Requests : SawOpen(p)}}
granted == {<<q, input[q].token>> : q \in {p \in Requests : reply[p] = "refreshed"}}

Book == INSTANCE SessionBook

\* All interleavings, faults and crashes of login, refresh and logout keep
\* the promises of SessionBook: a session closes once, at a time that stays,
\* and access tokens go to requests that found it open and unexpired.
SessionSpec == Book!Spec
=============================================================================
