------------------------ MODULE AuthSessions_proofs --------------------------
(***************************************************************************)
(* The safety of AuthSessions for every number of requests and users, any  *)
(* lifetimes of the tokens, with faults and crashes.                       *)
(***************************************************************************)
EXTENDS AuthSessions, TLAPS

(* The inductive invariant: what each request in flight, or answered, can  *)
(* rely on, and what each row of refresh_tokens goes back to.              *)

\* A request is where its input leads, and has the answer that goes with it.
AskFits(r) ==
  /\ pc[r] # "idle" => input[r] \in Asks
  /\ pc[r] = "idle" => stored[r] = NoToken /\ after[r] = {}
  /\ reply[r] # "none" => pc[r] = "done"
  /\ pc[r] = "findUser" => input[r].op = "login"
  /\ pc[r] \in {"createToken", "handOut"} \/ reply[r] = "loggedIn" =>
       /\ input[r].op = "login" /\ input[r].user \in Users
       /\ exp[r] = now[r] + AccessTTL
  /\ pc[r] = "findToken" => input[r].op \in {"refresh", "logout"} /\ stored[r] = NoToken
  /\ pc[r] \in {"judge", "findOwner"} \/ reply[r] \in {"refreshed", "revoked", "expired"} =>
       input[r].op = "refresh" /\ stored[r] # NoToken
  /\ pc[r] \in {"revoke", "confirm"} \/ reply[r] = "loggedOut" =>
       input[r].op = "logout" /\ stored[r] # NoToken
  /\ reply[r] = "accepted" => input[r].op = "call" /\ now[r] < exp[input[r].token]
  /\ now[r] <= clock

\* A client presents tokens it was given.
PresentFits(r) ==
  /\ pc[r] # "idle" /\ input[r].op \in {"refresh", "logout"} /\ input[r].token \in Requests
       => GaveRefresh(input[r].token)
  /\ reply[r] = "accepted" => input[r].token \in Requests /\ GaveAccess(input[r].token)

\* The row a request read is the row in the table, but for a later revocation.
StoredFits(r) ==
  LET s == input[r].token
  IN stored[r] # NoToken =>
       /\ s \in Requests /\ HasToken(s)
       /\ stored[r].user = tokens[s].user /\ stored[r].expiresAt = tokens[s].expiresAt
       /\ stored[r].revokedAt # Never => tokens[s].revokedAt # Never
       /\ Prompt /\ stored[r].revokedAt = Never /\ tokens[s].revokedAt # Never
            => now[r] <= tokens[s].revokedAt

\* The outcome of a refresh fits the row it read; a logout has revoked.
OutcomeFits(r) ==
  /\ pc[r] = "findOwner" \/ reply[r] = "refreshed" => SawOpen(r)
  /\ reply[r] = "revoked" => stored[r].revokedAt # Never
  /\ reply[r] = "expired" => clock > stored[r].expiresAt
  /\ reply[r] = "invalid" => input[r].token = Nobody
  /\ pc[r] = "confirm" \/ reply[r] = "loggedOut" => tokens[input[r].token].revokedAt # Never
  /\ pc[r] = "handOut" \/ reply[r] = "loggedIn" => HasToken(r)
  /\ Prompt /\ reply[r] = "refreshed" => exp[r] = now[r] + AccessTTL
  /\ Prompt /\ pc[r] \in {"createToken", "judge", "findOwner", "revoke"} => now[r] = clock

\* A request has not read a token open if it came after a finished logout.
AfterFits(r) ==
  \A l \in after[r] :
    /\ reply[l] = "loggedOut"
    /\ input[r].token = input[l].token =>
         stored[r] = NoToken \/ stored[r].revokedAt # Never

Fits(r) == AskFits(r) /\ PresentFits(r) /\ StoredFits(r) /\ OutcomeFits(r) /\ AfterFits(r)

\* A request that is past its write: answered, about to be, or lost.
Written(r) == pc[r] \in {"handOut", "confirm"} \cup Ended

\* Request l is a logout of token s that may have revoked it.
RevokerOf(l, s) ==
  /\ Written(l) /\ input[l].op = "logout" /\ input[l].token = s
  /\ stored[l] # NoToken /\ MayHaveRevoked(l)

\* A row goes back to a login, and its revocation to a logout.
RowFits(s) ==
  /\ HasToken(s) =>
       /\ Written(s) /\ input[s].op = "login"
       /\ input[s].user \in Users /\ tokens[s].user = input[s].user
       /\ now[s] + RefreshTTL <= tokens[s].expiresAt
  /\ tokens[s].revokedAt # Never =>
       /\ HasToken(s)
       /\ \E l \in Requests : RevokerOf(l, s)
       /\ Prompt => now[s] <= tokens[s].revokedAt

IInv ==
  /\ TypeOK
  /\ \A r \in Requests : Fits(r)
  /\ \A s \in Requests : RowFits(s)

-----------------------------------------------------------------------------
(* The rows of refresh_tokens and the inputs.                              *)

LEMMA AskFields ==
  ASSUME NEW ask \in Asks
  PROVE  /\ ask.op \in {"malformed", "login", "refresh", "logout", "call"}
         /\ ask.user \in Users \cup {Nobody}
         /\ ask.token \in Requests \cup {Nobody}
  BY DEF Asks

LEMMA NoTokenFacts ==
  NoToken \in Token /\ NoToken.user = Nobody /\ NoToken.revokedAt = Never
  BY SessionAssumption DEF NoToken, Token

LEMMA NewTokenFacts ==
  ASSUME NEW r \in Requests, input[r].user \in Users, NEW t \in 0 .. MaxClock
  PROVE  /\ NewToken(r, t) \in Token
         /\ NewToken(r, t) # NoToken
         /\ NewToken(r, t).user = input[r].user
         /\ NewToken(r, t).expiresAt = t + RefreshTTL
         /\ NewToken(r, t).revokedAt = Never
<1>1. t + RefreshTTL \in 0 .. MaxClock + RefreshTTL
  BY SessionAssumption
<1>2. NewToken(r, t) \in Token /\ NewToken(r, t).user = input[r].user
      /\ NewToken(r, t).expiresAt = t + RefreshTTL /\ NewToken(r, t).revokedAt = Never
  BY <1>1 DEF NewToken, Token
<1> QED
  BY <1>2, NoTokenFacts, SessionAssumption

LEMMA RevokedFacts ==
  ASSUME NEW row \in Token, NEW t \in 0 .. MaxClock
  PROVE  /\ Revoked(row, t) \in Token
         /\ Revoked(row, t) # NoToken
         /\ Revoked(row, t).user = row.user
         /\ Revoked(row, t).expiresAt = row.expiresAt
         /\ Revoked(row, t).revokedAt = t /\ t # Never
<1>1. Revoked(row, t) \in Token /\ Revoked(row, t).user = row.user
      /\ Revoked(row, t).expiresAt = row.expiresAt /\ Revoked(row, t).revokedAt = t
  BY DEF Revoked, Token
<1>2. t # Never
  BY SessionAssumption
<1> QED
  BY <1>1, <1>2, NoTokenFacts

LEMMA ColumnTypes ==
  ASSUME NEW row \in Token
  PROVE  /\ row.expiresAt \in 0 .. MaxClock + RefreshTTL
         /\ row.revokedAt # Never => row.revokedAt \in 0 .. MaxClock
  BY DEF Token

-----------------------------------------------------------------------------
(* What one request's step leaves to the others.                           *)

Same(r) ==
  /\ pc'[r] = pc[r] /\ input'[r] = input[r] /\ stored'[r] = stored[r] /\ now'[r] = now[r]
  /\ exp'[r] = exp[r] /\ reply'[r] = reply[r] /\ after'[r] = after[r]

\* r takes no step, or dies with its process.
Rests(r) ==
  \/ Same(r)
  \/ /\ pc[r] \in Running /\ pc'[r] = "lost"
     /\ UNCHANGED <<locals, reply>>

Settled == \A l \in Requests : pc[l] = "done" => Same(l)

\* What a request was past its write it stays, whatever becomes of its answer.
Lasting ==
  \A l \in Requests : Written(l) =>
    /\ Written(l)' /\ UNCHANGED <<input[l], stored[l], now[l]>>
    /\ MayHaveRevoked(l) => MayHaveRevoked(l)'

\* A row stays, but may be revoked; at this time, when requests are prompt.
Grows(s) ==
  /\ HasToken(s) =>
       /\ HasToken(s)'
       /\ tokens'[s].user = tokens[s].user /\ tokens'[s].expiresAt = tokens[s].expiresAt
  /\ tokens[s].revokedAt # Never => tokens'[s].revokedAt = tokens[s].revokedAt
  /\ Prompt /\ tokens'[s].revokedAt # tokens[s].revokedAt => tokens'[s].revokedAt = clock

\* Time stands still, or passes where nobody who must be prompt is running.
TimeFor(r) ==
  /\ clock' \in {clock, clock + 1}
  /\ Prompt /\ pc[r] \in Running => clock' = clock

LEMMA RestingKeepsAsk ==
  ASSUME TypeOK, TypeOK', Settled, NEW r \in Requests, AskFits(r), PresentFits(r),
         \A l \in Requests : AskFits(l), Rests(r), TimeFor(r)
  PROVE  AskFits(r)' /\ PresentFits(r)'
<1>1. now'[r] <= clock' /\ input'[r] = input[r] /\ now'[r] = now[r] /\ reply'[r] = reply[r]
  BY DEF TypeOK, AskFits, Rests, Same, TimeFor, locals
<1>2. reply[r] = "accepted" => exp'[input[r].token] = exp[input[r].token]
  BY DEF AskFits, PresentFits, Settled, Same, GaveAccess
<1>3. AskFits(r)'
  BY <1>1, <1>2 DEF AskFits, Rests, Same, Running, Statements, locals
<1>4. PresentFits(r)'
  <2>1. \A s \in Requests : /\ GaveRefresh(s) => GaveRefresh(s)'
                            /\ GaveAccess(s) => GaveAccess(s)'
    BY DEF AskFits, Settled, Same, GaveRefresh, GaveAccess
  <2> QED BY <1>1, <2>1 DEF PresentFits, Rests, Same, Running, Statements
<1> QED BY <1>3, <1>4

LEMMA RestingLasts ==
  ASSUME NEW r \in Requests, Written(r), Rests(r)
  PROVE  /\ Written(r)' /\ UNCHANGED <<input[r], stored[r], now[r]>>
         /\ MayHaveRevoked(r) => MayHaveRevoked(r)'
  BY DEF Written, Rests, Same, Running, Statements, Ended, MayHaveRevoked, locals

LEMMA RestingKeepsStored ==
  ASSUME TypeOK, TypeOK', NEW r \in Requests, Fits(r), Rests(r), Settled,
         \A s \in Requests : Grows(s)
  PROVE  StoredFits(r)'
<1>1. stored'[r] = stored[r] /\ input'[r] = input[r] /\ now'[r] = now[r]
  BY DEF Rests, Same, locals
<1>2. CASE stored[r] = NoToken
  BY <1>1, <1>2 DEF StoredFits
<1>3. CASE stored[r] # NoToken
  <2>0. PICK s \in Requests : s = input[r].token
    BY <1>3 DEF Fits, StoredFits
  <2>1. HasToken(s) /\ Grows(s)
    BY <1>3, <2>0 DEF Fits, StoredFits
  <2>2. now[r] <= clock
    BY DEF Fits, AskFits
  <2>3. Prompt /\ stored[r].revokedAt = Never /\ tokens'[s].revokedAt # Never
          => now[r] <= tokens'[s].revokedAt
    BY <1>3, <2>0, <2>1, <2>2 DEF Fits, StoredFits, Grows
  <2> QED BY <1>1, <1>3, <2>0, <2>1, <2>3 DEF Fits, StoredFits, Grows
<1> QED BY <1>2, <1>3

LEMMA RestingKeepsOutcome ==
  ASSUME TypeOK, TypeOK', NEW r \in Requests, \A l \in Requests : Fits(l),
         Rests(r), Settled, TimeFor(r), \A s \in Requests : Grows(s)
  PROVE  OutcomeFits(r)' /\ AfterFits(r)'
<1>1. /\ stored'[r] = stored[r] /\ input'[r] = input[r] /\ now'[r] = now[r]
      /\ reply'[r] = reply[r] /\ after'[r] = after[r] /\ exp'[r] = exp[r]
      /\ pc'[r] = pc[r] \/ pc'[r] = "lost"
  BY DEF Rests, Same, locals
<1>2. SawOpen(r)' <=> SawOpen(r)
  BY <1>1 DEF SawOpen
<1>3. pc[r] = "confirm" \/ reply[r] = "loggedOut" =>
        tokens'[input[r].token].revokedAt # Never
  BY DEF Fits, AskFits, StoredFits, OutcomeFits, Grows
<1>4. reply[r] = "expired" => clock' > stored[r].expiresAt
  <2>1. stored[r].expiresAt \in 0 .. MaxClock + RefreshTTL
    BY ColumnTypes DEF TypeOK
  <2> QED BY <2>1, SessionAssumption DEF Fits, OutcomeFits, TimeFor, TypeOK
<1>5. pc[r] = "handOut" \/ reply[r] = "loggedIn" => HasToken(r)'
  BY DEF Fits, OutcomeFits, Grows
<1>6. Prompt /\ pc'[r] \in {"createToken", "judge", "findOwner", "revoke"} => now[r] = clock'
  BY <1>1 DEF Fits, OutcomeFits, TimeFor, Running, Statements
<1>7. OutcomeFits(r)'
  BY <1>1, <1>2, <1>3, <1>4, <1>5, <1>6 DEF Fits, OutcomeFits
<1>8. AfterFits(r)'
  <2> SUFFICES ASSUME NEW l \in after[r]
               PROVE  /\ reply'[l] = "loggedOut"
                      /\ input'[r].token = input'[l].token =>
                           stored'[r] = NoToken \/ stored'[r].revokedAt # Never
    BY <1>1 DEF AfterFits
  <2>1. l \in Requests /\ reply'[l] = reply[l] /\ input'[l] = input[l] /\ reply[l] = "loggedOut"
    BY DEF Fits, AfterFits, AskFits, Settled, Same, TypeOK
  <2> QED BY <1>1, <2>1 DEF Fits, AfterFits
<1> QED BY <1>7, <1>8

LEMMA RestingKeepsFits ==
  ASSUME TypeOK, TypeOK', NEW r \in Requests, \A l \in Requests : Fits(l),
         Rests(r), Settled, TimeFor(r), \A s \in Requests : Grows(s)
  PROVE  Fits(r)'
  BY RestingKeepsAsk, RestingKeepsStored, RestingKeepsOutcome DEF Fits

LEMMA RowKept ==
  ASSUME NEW s \in Requests, RowFits(s), tokens'[s] = tokens[s], Lasting
  PROVE  RowFits(s)'
<1>1. CASE ~HasToken(s)
  BY <1>1 DEF RowFits, HasToken
<1>2. CASE HasToken(s)
  <2>1. Written(s)' /\ input'[s] = input[s] /\ now'[s] = now[s]
    BY <1>2 DEF RowFits, Lasting
  <2>2. (HasToken(s) =>
       /\ Written(s) /\ input[s].op = "login"
       /\ input[s].user \in Users /\ tokens[s].user = input[s].user
       /\ now[s] + RefreshTTL <= tokens[s].expiresAt)'
    BY <1>2, <2>1 DEF RowFits, HasToken
  <2>3. CASE tokens[s].revokedAt = Never
    BY <2>2, <2>3 DEF RowFits
  <2>4. CASE tokens[s].revokedAt # Never
    <3>1. PICK l \in Requests : RevokerOf(l, s)
      BY <2>4 DEF RowFits
    <3>2. RevokerOf(l, s)'
      BY <3>1 DEF RevokerOf, Lasting
    <3> QED BY <1>2, <2>1, <2>2, <2>4, <3>1, <3>2 DEF RowFits, HasToken
  <2> QED BY <2>3, <2>4
<1> QED BY <1>1, <1>2

-----------------------------------------------------------------------------
(* One lemma per step of a request: what it does to that request and to    *)
(* the rows.                                                               *)

Effect(q) ==
  /\ TypeOK'
  /\ Fits(q)'
  /\ pc[q] # "done"
  /\ \A r \in Requests \ {q} : Same(r)
  /\ clock' = clock
  /\ \A s \in Requests : Grows(s) /\ RowFits(s)'

LEMMA EffectKeepsIInv ==
  ASSUME IInv, NEW q \in Requests, Effect(q)
  PROVE  IInv'
<1>1. Settled
  BY DEF Effect, Settled
<1>2. \A r \in Requests : TimeFor(r)
  BY DEF Effect, TimeFor
<1>3. ASSUME NEW r \in Requests
      PROVE  Fits(r)'
  <2>1. CASE r = q
    BY <2>1 DEF Effect
  <2>2. CASE r # q
    BY <1>1, <1>2, <2>2, RestingKeepsFits DEF Effect, Rests, IInv
  <2> QED BY <2>1, <2>2
<1> QED BY <1>3 DEF Effect, IInv

\* A step that leaves refresh_tokens alone leaves its rows as they were.
LEMMA TokensKept ==
  ASSUME IInv, NEW q \in Requests, ~Written(q), tokens' = tokens,
         \A r \in Requests \ {q} : Same(r)
  PROVE  \A s \in Requests : Grows(s) /\ RowFits(s)'
<1>1. Lasting
  BY RestingLasts DEF Lasting, Rests
<1>2. \A s \in Requests : Grows(s)
  BY DEF Grows, HasToken
<1> QED BY <1>1, <1>2, RowKept DEF IInv

LEMMA ReceiveEffect ==
  ASSUME IInv, NEW q \in Requests, Receive(q)
  PROVE  Effect(q)
<1>1. PICK ask \in Asks :
        /\ Sendable(ask)
        /\ input' = [input EXCEPT ![q] = ask]
        /\ CASE ask.op = "call" ->
                  IF ask.token \in Requests /\ Valid(ask.token)
                    THEN Answer(q, "accepted")
                    ELSE Answer(q, "unauthorized")
             [] ask.op = "malformed" -> Answer(q, "badRequest")
             [] ask.op = "login" -> Goto(q, "findUser")
             [] ask.op \in {"refresh", "logout"} -> Goto(q, "findToken")
        /\ now' = IF ask.op = "call" THEN [now EXCEPT ![q] = clock] ELSE now
        /\ after' = IF ask.op = "refresh"
                      THEN [after EXCEPT ![q] = {l \in Requests : reply[l] = "loggedOut"}]
                      ELSE after
  BY DEF Receive
<1>2. /\ pc[q] = "idle" /\ UNCHANGED <<tokens, clock, stored, exp>>
      /\ reply[q] = "none" /\ stored[q] = NoToken /\ after[q] = {}
  BY DEF Receive, IInv, Fits, AskFits
<1>3. /\ input'[q] = ask /\ now'[q] <= clock
      /\ \/ /\ pc'[q] = "done" /\ reply'[q] = "accepted" /\ ask.op = "call"
            /\ ask.token \in Requests /\ Valid(ask.token) /\ now'[q] = clock
         \/ pc'[q] = "done" /\ reply'[q] = "unauthorized"
         \/ pc'[q] = "done" /\ reply'[q] = "badRequest"
         \/ pc'[q] = "findUser" /\ reply'[q] = "none" /\ ask.op = "login"
         \/ pc'[q] = "findToken" /\ reply'[q] = "none" /\ ask.op \in {"refresh", "logout"}
  <2>1. input'[q] = ask /\ now'[q] <= clock
    BY <1>1 DEF IInv, TypeOK, Fits, AskFits
  <2>2. ask.op \in {"malformed", "login", "refresh", "logout", "call"}
    BY AskFields
  <2>3. CASE ask.op = "call"
    <3>1. now'[q] = clock
      BY <1>1, <2>3 DEF IInv, TypeOK
    <3>2. IF ask.token \in Requests /\ Valid(ask.token)
            THEN Answer(q, "accepted") ELSE Answer(q, "unauthorized")
      BY <1>1, <2>3
    <3> QED BY <2>1, <2>3, <3>1, <3>2 DEF IInv, TypeOK, Answer
  <2>4. CASE ask.op # "call"
    <3>1. \/ Answer(q, "badRequest")
          \/ ask.op = "login" /\ Goto(q, "findUser")
          \/ ask.op \in {"refresh", "logout"} /\ Goto(q, "findToken")
      BY <1>1, <2>2, <2>4
    <3> QED BY <1>2, <2>1, <3>1 DEF IInv, TypeOK, Answer, Goto
  <2> QED BY <2>3, <2>4
<1>4. TypeOK'
  <2>1. input' \in [Requests -> Asks \cup {NoInput}] /\ now' \in [Requests -> 0 .. MaxClock]
        /\ after' \in [Requests -> SUBSET Requests]
    BY <1>1 DEF IInv, TypeOK
  <2>2. pc' \in [Requests -> {"idle"} \cup Running \cup Ended] /\ reply' \in [Requests -> Replies]
    BY <1>1, AskFields DEF IInv, TypeOK, Answer, Goto, Replies, Running, Statements, Ended
  <2> QED BY <1>2, <2>1, <2>2 DEF IInv, TypeOK
<1>5. \A r \in Requests \ {q} : Same(r)
  BY <1>1, <1>2, AskFields DEF Same, IInv, TypeOK, Answer, Goto
<1>6. AskFits(q)'
  BY <1>2, <1>3 DEF AskFits, Valid
<1>7. PresentFits(q)'
  <2>1. \A s \in Requests : /\ GaveRefresh(s) => GaveRefresh(s)'
                            /\ GaveAccess(s) => GaveAccess(s)'
    BY <1>2, <1>5 DEF Same, GaveRefresh, GaveAccess
  <2> QED BY <1>1, <1>3, <2>1 DEF PresentFits, Sendable
<1>8. StoredFits(q)' /\ OutcomeFits(q)'
  BY <1>2, <1>3 DEF StoredFits, OutcomeFits
<1>9. AfterFits(q)'
  <2>1. \A l \in after'[q] : l \in Requests /\ reply[l] = "loggedOut"
    BY <1>1, <1>2 DEF IInv, TypeOK
  <2>2. \A l \in after'[q] : reply'[l] = "loggedOut"
    BY <1>2, <1>5, <2>1 DEF Same
  <2> QED BY <1>2, <2>2 DEF AfterFits
<1>10. \A s \in Requests : Grows(s) /\ RowFits(s)'
  BY <1>2, <1>5, TokensKept DEF Written, Ended
<1> QED BY <1>2, <1>4, <1>5, <1>6, <1>7, <1>8, <1>9, <1>10 DEF Effect, Fits

LEMMA FindUserEffect ==
  ASSUME IInv, NEW q \in Requests, FindUser(q)
  PROVE  Effect(q)
<1>1. /\ pc[q] = "findUser" /\ UNCHANGED <<tokens, clock, input, stored, after>>
      /\ input[q] \in Asks /\ input[q].op = "login" /\ reply[q] = "none"
  BY DEF FindUser, IInv, Fits, AskFits
<1>2. \/ /\ input[q].user \in Users
         /\ exp' = [exp EXCEPT ![q] = Expiry(clock)]
         /\ now' = [now EXCEPT ![q] = clock] /\ Goto(q, "createToken")
      \/ Answer(q, "unauthorized") /\ UNCHANGED <<exp, now>>
  BY DEF FindUser, PasswordFits
<1>3. TypeOK'
  <2>1. Expiry(clock) \in 0 .. MaxClock + AccessTTL
    BY SessionAssumption DEF IInv, TypeOK, Expiry
  <2>2. exp' \in [Requests -> 0 .. MaxClock + AccessTTL] /\ now' \in [Requests -> 0 .. MaxClock]
    BY <1>2, <2>1 DEF IInv, TypeOK
  <2>3. pc' \in [Requests -> {"idle"} \cup Running \cup Ended] /\ reply' \in [Requests -> Replies]
    BY <1>2 DEF IInv, TypeOK, Answer, Goto, Replies, Running, Statements, Ended
  <2> QED BY <1>1, <2>2, <2>3 DEF IInv, TypeOK
<1>4. \A r \in Requests \ {q} : Same(r)
  BY <1>1, <1>2 DEF Same, IInv, TypeOK, Answer, Goto
<1>5. \/ /\ input[q].user \in Users /\ pc'[q] = "createToken" /\ reply'[q] = "none"
         /\ now'[q] = clock /\ exp'[q] = clock + AccessTTL
      \/ pc'[q] = "done" /\ reply'[q] = "unauthorized" /\ now'[q] = now[q]
  BY <1>1, <1>2 DEF IInv, TypeOK, Answer, Goto, Expiry
<1>6. AskFits(q)'
  BY <1>1, <1>3, <1>5 DEF AskFits, TypeOK, IInv, Fits
<1>7. PresentFits(q)'
  BY <1>1, <1>5 DEF PresentFits
<1>8. StoredFits(q)'
  <2>1. stored[q] = NoToken \/ input[q].token \in Requests
    BY DEF IInv, Fits, StoredFits
  <2>2. stored[q] = NoToken
    BY <1>1, <2>1, AskFields, SessionAssumption DEF Asks
  <2> QED BY <1>1, <2>2 DEF StoredFits
<1>9. OutcomeFits(q)' /\ AfterFits(q)'
  <2>1. \A l \in after[q] : l # q /\ l \in Requests
    BY <1>1 DEF IInv, Fits, AfterFits, TypeOK
  <2> QED BY <1>1, <1>4, <1>5, <2>1 DEF OutcomeFits, AfterFits, Same, IInv, Fits
<1>10. \A s \in Requests : Grows(s) /\ RowFits(s)'
  BY <1>1, <1>4, TokensKept DEF Written, Ended
<1> QED BY <1>1, <1>3, <1>4, <1>6, <1>7, <1>8, <1>9, <1>10 DEF Effect, Fits

\* A token is inserted, acknowledged or not.
LEMMA InsertTokenEffect ==
  ASSUME IInv, NEW q \in Requests, pc[q] = "createToken", InsertToken(q),
         UNCHANGED <<clock, locals>>, Goto(q, "handOut") \/ Answer(q, "internal")
  PROVE  Effect(q)
<1>1. PICK t \in now[q] .. clock : tokens' = [tokens EXCEPT ![q] = NewToken(q, t)]
  BY DEF InsertToken
<1>2. t \in 0 .. MaxClock /\ now[q] <= t
  <2>1. now[q] \in 0 .. MaxClock /\ clock \in 0 .. MaxClock /\ MaxClock \in Nat
    BY SessionAssumption DEF IInv, TypeOK
  <2> QED BY <1>1, <2>1
<1>3. /\ input[q].op = "login" /\ input[q].user \in Users /\ exp[q] = now[q] + AccessTTL
      /\ input[q] \in Asks /\ reply[q] = "none"
  BY DEF IInv, Fits, AskFits
<1>4. /\ input' = input /\ now' = now /\ exp' = exp /\ stored' = stored /\ after' = after
      /\ \/ pc'[q] = "handOut" /\ reply'[q] = "none"
         \/ pc'[q] = "done" /\ reply'[q] = "internal"
  BY <1>3 DEF Goto, Answer, IInv, TypeOK, locals
<1>5. /\ tokens'[q] \in Token /\ tokens'[q] # NoToken
      /\ tokens'[q].user = input[q].user /\ tokens'[q].expiresAt = t + RefreshTTL
      /\ tokens'[q].revokedAt = Never
      /\ \A s \in Requests : s # q => tokens'[s] = tokens[s]
  BY <1>1, <1>2, <1>3, NewTokenFacts DEF IInv, TypeOK
<1>6. TypeOK'
  <2>1. tokens' \in [Requests -> Token]
    BY <1>1, <1>5 DEF IInv, TypeOK
  <2> QED BY <1>4, <2>1 DEF IInv, TypeOK, Goto, Answer, Running, Ended, Replies
<1>7. \A r \in Requests \ {q} : Same(r)
  BY <1>4 DEF Same, IInv, TypeOK, Goto, Answer
<1>8. ~HasToken(q) /\ tokens[q].revokedAt = Never /\ ~Written(q)
  BY DEF IInv, RowFits, Written, Ended
<1>9. \A s \in Requests : Grows(s)
  BY <1>5, <1>8 DEF Grows, HasToken
<1>10. \A s \in Requests : RowFits(s)'
  <2>1. RowFits(q)'
    BY <1>2, <1>3, <1>4, <1>5, SessionAssumption
    DEF RowFits, HasToken, Written, Ended, IInv, TypeOK
  <2>2. Lasting
    BY <1>7, <1>8, RestingLasts DEF Lasting, Rests
  <2> QED BY <1>5, <2>1, <2>2, RowKept DEF IInv
<1>11. stored[q] = NoToken
  <2>1. stored[q] = NoToken \/ input[q].token \in Requests
    BY DEF IInv, Fits, StoredFits
  <2> QED BY <1>3, <2>1, AskFields, SessionAssumption DEF Asks
<1>12. AskFits(q)' /\ PresentFits(q)' /\ StoredFits(q)'
  BY <1>3, <1>4, <1>11 DEF AskFits, PresentFits, StoredFits, IInv, Fits
<1>13. OutcomeFits(q)' /\ AfterFits(q)'
  <2>1. \A l \in after[q] : l # q /\ l \in Requests
    BY <1>3 DEF IInv, Fits, AfterFits, TypeOK
  <2> QED BY <1>4, <1>5, <1>7, <2>1 DEF OutcomeFits, AfterFits, HasToken, Same, IInv, Fits
<1> QED BY <1>6, <1>7, <1>9, <1>10, <1>12, <1>13 DEF Effect, Fits

LEMMA FindTokenEffect ==
  ASSUME IInv, NEW q \in Requests, FindToken(q)
  PROVE  Effect(q)
<1>1. /\ pc[q] = "findToken" /\ UNCHANGED <<tokens, clock, input, exp, after>>
      /\ input[q] \in Asks /\ input[q].op \in {"refresh", "logout"} /\ reply[q] = "none"
      /\ stored[q] = NoToken
  BY DEF FindToken, IInv, Fits, AskFits
<1>2. \/ /\ input[q].token \in Requests /\ HasToken(input[q].token)
         /\ stored' = [stored EXCEPT ![q] = tokens[input[q].token]]
         /\ now' = [now EXCEPT ![q] = clock]
         /\ Goto(q, IF input[q].op = "refresh" THEN "judge" ELSE "revoke")
      \/ /\ ~(input[q].token \in Requests /\ HasToken(input[q].token))
         /\ Answer(q, "invalid") /\ UNCHANGED <<stored, now>>
  BY DEF FindToken
<1>3. TypeOK'
  <2>1. stored' \in [Requests -> Token] /\ now' \in [Requests -> 0 .. MaxClock]
    BY <1>2 DEF IInv, TypeOK
  <2>2. pc' \in [Requests -> {"idle"} \cup Running \cup Ended] /\ reply' \in [Requests -> Replies]
    BY <1>2 DEF IInv, TypeOK, Answer, Goto, Replies, Running, Statements, Ended
  <2> QED BY <1>1, <2>1, <2>2 DEF IInv, TypeOK
<1>4. \A r \in Requests \ {q} : Same(r)
  BY <1>1, <1>2 DEF Same, IInv, TypeOK, Answer, Goto
<1>5. \A s \in Requests : Grows(s) /\ RowFits(s)'
  BY <1>1, <1>4, TokensKept DEF Written, Ended
<1>6. \A l \in after[q] : l # q /\ l \in Requests /\ reply[l] = "loggedOut"
  BY <1>1 DEF IInv, Fits, AfterFits, TypeOK
<1>7. \A l \in after[q] : input[q].token = input[l].token =>
        tokens[input[q].token].revokedAt # Never
  BY <1>6 DEF IInv, Fits, OutcomeFits
<1>8. input[q].token \in Requests => HasToken(input[q].token)
  BY <1>1 DEF IInv, Fits, PresentFits, OutcomeFits, GaveRefresh
<1>9. CASE input[q].token \in Requests
  <2>0. PICK s \in Requests : s = input[q].token
    BY <1>9
  <2>1. /\ stored'[q] = tokens[s] /\ now'[q] = clock /\ reply'[q] = "none" /\ tokens[s] # NoToken
        /\ pc'[q] = IF input[q].op = "refresh" THEN "judge" ELSE "revoke"
    BY <1>1, <1>2, <1>8, <2>0 DEF IInv, TypeOK, Goto, HasToken
  <2>2. AskFits(q)' /\ PresentFits(q)' /\ StoredFits(q)' /\ OutcomeFits(q)'
    <3>1. AskFits(q)'
      BY <1>1, <2>1 DEF AskFits, IInv, TypeOK
    <3>2. \A r \in Requests : GaveRefresh(r) => GaveRefresh(r)'
      BY <1>1, <1>4 DEF GaveRefresh, Same
    <3>3. PresentFits(q)'
      BY <1>1, <2>0, <2>1, <3>2 DEF PresentFits, IInv, Fits
    <3>4. StoredFits(q)'
      BY <1>1, <1>8, <2>0, <2>1 DEF StoredFits, HasToken
    <3> QED BY <1>1, <2>1, <3>1, <3>3, <3>4 DEF OutcomeFits
  <2>3. AfterFits(q)'
    BY <1>1, <1>4, <1>6, <1>7, <2>0, <2>1 DEF AfterFits, Same
  <2> QED BY <1>1, <1>3, <1>4, <1>5, <2>2, <2>3 DEF Effect, Fits
<1>10. CASE input[q].token \notin Requests
  <2>1. /\ stored'[q] = NoToken /\ now'[q] = now[q] /\ reply'[q] = "invalid" /\ pc'[q] = "done"
        /\ input[q].token = Nobody
    BY <1>1, <1>2, <1>10, AskFields DEF IInv, TypeOK, Answer
  <2>2. AskFits(q)' /\ PresentFits(q)' /\ StoredFits(q)' /\ OutcomeFits(q)'
    BY <1>1, <1>10, <2>1 DEF AskFits, PresentFits, StoredFits, OutcomeFits, IInv, Fits
  <2>3. AfterFits(q)'
    BY <1>1, <1>4, <1>6, <2>1 DEF AfterFits, Same
  <2> QED BY <1>1, <1>3, <1>4, <1>5, <2>2, <2>3 DEF Effect, Fits
<1> QED BY <1>9, <1>10

LEMMA JudgeEffect ==
  ASSUME IInv, NEW q \in Requests, Judge(q)
  PROVE  Effect(q)
<1>1. /\ pc[q] = "judge" /\ UNCHANGED <<tokens, clock, locals>>
      /\ input[q] \in Asks /\ input[q].op = "refresh" /\ stored[q] # NoToken
      /\ reply[q] = "none"
  BY DEF Judge, IInv, Fits, AskFits
<1>2. \/ Goto(q, "findOwner") /\ stored[q].revokedAt = Never /\ ~(clock > stored[q].expiresAt)
      \/ Answer(q, "revoked") /\ stored[q].revokedAt # Never
      \/ Answer(q, "expired") /\ clock > stored[q].expiresAt
  BY DEF Judge, Judgement
<1>3. TypeOK'
  <2>1. pc' \in [Requests -> {"idle"} \cup Running \cup Ended] /\ reply' \in [Requests -> Replies]
    BY <1>2 DEF IInv, TypeOK, Answer, Goto, Replies, Running, Statements, Ended
  <2> QED BY <1>1, <2>1 DEF IInv, TypeOK, locals
<1>4. \A r \in Requests \ {q} : Same(r)
  BY <1>1, <1>2 DEF Same, IInv, TypeOK, Answer, Goto, locals
<1>5. \A s \in Requests : Grows(s) /\ RowFits(s)'
  BY <1>1, <1>4, TokensKept DEF Written, Ended
<1>6. input' = input /\ stored' = stored /\ now' = now /\ exp' = exp /\ after' = after
  BY <1>1 DEF locals
<1>7. \/ /\ pc'[q] = "findOwner" /\ reply'[q] = "none"
         /\ stored[q].revokedAt = Never /\ ~(clock > stored[q].expiresAt)
      \/ pc'[q] = "done" /\ reply'[q] = "revoked" /\ stored[q].revokedAt # Never
      \/ pc'[q] = "done" /\ reply'[q] = "expired" /\ clock > stored[q].expiresAt
  BY <1>1, <1>2 DEF IInv, TypeOK, Answer, Goto
<1>8. now[q] <= clock /\ now[q] \in Nat /\ clock \in Nat /\ stored[q].expiresAt \in Nat
  <2>1. stored[q].expiresAt \in 0 .. MaxClock + RefreshTTL
    BY ColumnTypes DEF IInv, TypeOK
  <2> QED BY <2>1, SessionAssumption DEF IInv, TypeOK, Fits, AskFits
<1>9. AskFits(q)'
  BY <1>1, <1>6, <1>7 DEF AskFits, IInv, Fits
<1>10. PresentFits(q)'
  <2>1. input[q].token \in Requests /\ GaveRefresh(input[q].token)
    BY <1>1 DEF IInv, Fits, StoredFits, PresentFits
  <2>2. input[q].token # q
    BY <1>1, <2>1 DEF GaveRefresh
  <2> QED BY <1>4, <1>6, <1>7, <2>1, <2>2 DEF PresentFits, GaveRefresh, Same
<1>11. StoredFits(q)'
  BY <1>1, <1>6 DEF StoredFits, HasToken, IInv, Fits
<1>12. OutcomeFits(q)'
  <2>1. pc'[q] = "findOwner" => SawOpen(q)'
    BY <1>1, <1>6, <1>7, <1>8 DEF SawOpen
  <2> QED BY <1>1, <1>6, <1>7, <2>1 DEF OutcomeFits, IInv, Fits
<1>13. AfterFits(q)'
  <2>1. \A l \in after[q] : l # q /\ l \in Requests
    BY <1>1 DEF IInv, Fits, AfterFits, TypeOK
  <2> QED BY <1>4, <1>6, <2>1 DEF AfterFits, Same, IInv, Fits
<1> QED BY <1>1, <1>3, <1>4, <1>5, <1>9, <1>10, <1>11, <1>12, <1>13 DEF Effect, Fits

LEMMA FindOwnerEffect ==
  ASSUME IInv, NEW q \in Requests, FindOwner(q)
  PROVE  Effect(q)
<1>1. /\ pc[q] = "findOwner" /\ UNCHANGED <<tokens, clock, input, stored, now, after>>
      /\ exp' = [exp EXCEPT ![q] = Expiry(clock)] /\ Answer(q, "refreshed")
      /\ input[q] \in Asks /\ input[q].op = "refresh" /\ stored[q] # NoToken
      /\ reply[q] = "none" /\ SawOpen(q)
  BY DEF FindOwner, IInv, Fits, AskFits, OutcomeFits
<1>2. Expiry(clock) \in 0 .. MaxClock + AccessTTL
  BY SessionAssumption DEF IInv, TypeOK, Expiry
<1>3. TypeOK'
  BY <1>1, <1>2 DEF IInv, TypeOK, Answer, Replies, Ended
<1>4. \A r \in Requests \ {q} : Same(r)
  BY <1>1 DEF Same, IInv, TypeOK, Answer
<1>5. \A s \in Requests : Grows(s) /\ RowFits(s)'
  BY <1>1, <1>4, TokensKept DEF Written, Ended
<1>6. pc'[q] = "done" /\ reply'[q] = "refreshed" /\ exp'[q] = clock + AccessTTL
  BY <1>1 DEF IInv, TypeOK, Answer, Expiry
<1>7. AskFits(q)'
  BY <1>1, <1>6 DEF AskFits, IInv, Fits
<1>8. PresentFits(q)'
  <2>1. input[q].token \in Requests /\ GaveRefresh(input[q].token)
    BY <1>1 DEF IInv, Fits, StoredFits, PresentFits
  <2>2. input[q].token # q
    BY <1>1, <2>1 DEF GaveRefresh
  <2> QED BY <1>1, <1>4, <1>6, <2>1, <2>2 DEF PresentFits, GaveRefresh, Same
<1>9. StoredFits(q)'
  BY <1>1 DEF StoredFits, HasToken, IInv, Fits
<1>10. OutcomeFits(q)'
  BY <1>1, <1>6 DEF OutcomeFits, SawOpen, IInv, Fits
<1>11. AfterFits(q)'
  <2>1. \A l \in after[q] : l # q /\ l \in Requests
    BY <1>1 DEF IInv, Fits, AfterFits, TypeOK
  <2> QED BY <1>1, <1>4, <2>1 DEF AfterFits, Same, IInv, Fits
<1> QED BY <1>1, <1>3, <1>4, <1>5, <1>7, <1>8, <1>9, <1>10, <1>11 DEF Effect, Fits

\* A token is revoked, or was before, acknowledged or not.
LEMMA UpdateTokenEffect ==
  ASSUME IInv, NEW q \in Requests, pc[q] = "revoke", UpdateToken(q),
         UNCHANGED <<clock, locals>>, Goto(q, "confirm") \/ Answer(q, "internal")
  PROVE  Effect(q)
<1>1. /\ input[q] \in Asks /\ input[q].op = "logout" /\ stored[q] # NoToken /\ reply[q] = "none"
      /\ now[q] <= clock
  BY DEF IInv, Fits, AskFits
<1>2. PICK s \in Requests : s = input[q].token
  BY <1>1 DEF IInv, Fits, StoredFits
<1>3. HasToken(s) /\ GaveRefresh(s) /\ s # q
  BY <1>1, <1>2 DEF IInv, Fits, StoredFits, PresentFits, GaveRefresh
<1>4. PICK t \in now[q] .. clock : RevokeOnce(s, t)
  BY <1>2 DEF UpdateToken
<1>5. t \in 0 .. MaxClock /\ (Prompt => t = clock)
  <2>1. now[q] \in 0 .. MaxClock /\ clock \in 0 .. MaxClock /\ MaxClock \in Nat
    BY SessionAssumption DEF IInv, TypeOK
  <2>2. Prompt => now[q] = clock
    BY DEF IInv, Fits, OutcomeFits
  <2> QED BY <1>4, <2>1, <2>2
<1>6. /\ tokens'[s] \in Token /\ tokens'[s] # NoToken
      /\ tokens'[s].user = tokens[s].user /\ tokens'[s].expiresAt = tokens[s].expiresAt
      /\ tokens'[s].revokedAt # Never
      /\ tokens[s].revokedAt # Never => tokens'[s].revokedAt = tokens[s].revokedAt
      /\ tokens[s].revokedAt = Never => tokens'[s].revokedAt = t
      /\ \A i \in Requests : i # s => tokens'[i] = tokens[i]
      /\ tokens' \in [Requests -> Token]
  <2>1. tokens \in [Requests -> Token] /\ tokens[s] \in Token
    BY DEF IInv, TypeOK
  <2>2. CASE tokens[s].revokedAt # Never
    BY <1>3, <1>4, <2>1, <2>2 DEF RevokeOnce, HasToken
  <2>3. CASE tokens[s].revokedAt = Never
    <3>1. tokens' = [tokens EXCEPT ![s] = Revoked(tokens[s], t)]
      BY <1>4, <2>3 DEF RevokeOnce
    <3>2. /\ Revoked(tokens[s], t) \in Token
          /\ Revoked(tokens[s], t) # NoToken
          /\ Revoked(tokens[s], t).user = tokens[s].user
          /\ Revoked(tokens[s], t).expiresAt = tokens[s].expiresAt
          /\ Revoked(tokens[s], t).revokedAt = t /\ t # Never
      BY <1>5, <2>1, RevokedFacts
    <3>3. tokens'[s] = Revoked(tokens[s], t) /\ \A i \in Requests : i # s => tokens'[i] = tokens[i]
      BY <2>1, <3>1
    <3>4. tokens' \in [Requests -> Token]
      BY <2>1, <3>1, <3>2
    <3> QED BY <2>3, <3>2, <3>3, <3>4
  <2> QED BY <2>2, <2>3
<1>7. /\ input' = input /\ now' = now /\ exp' = exp /\ stored' = stored /\ after' = after
      /\ \/ pc'[q] = "confirm" /\ reply'[q] = "none"
         \/ pc'[q] = "done" /\ reply'[q] = "internal"
  BY <1>1 DEF Goto, Answer, IInv, TypeOK, locals
<1>8. TypeOK'
  BY <1>6, <1>7 DEF IInv, TypeOK, Goto, Answer, Running, Ended, Replies
<1>9. \A r \in Requests \ {q} : Same(r)
  BY <1>7 DEF Same, IInv, TypeOK, Goto, Answer
<1>10. \A i \in Requests : Grows(i)
  BY <1>5, <1>6 DEF Grows, HasToken
<1>11. \A i \in Requests : RowFits(i)'
  <2>1. Lasting
    BY <1>9, RestingLasts DEF Lasting, Rests, Written, Ended
  <2>2. now[s] <= clock /\ Same(s)
    BY <1>3, <1>9 DEF IInv, Fits, AskFits
  <2>3. RowFits(s)'
    <3>1. (HasToken(s) =>
             /\ Written(s) /\ input[s].op = "login"
             /\ input[s].user \in Users /\ tokens[s].user = input[s].user
             /\ now[s] + RefreshTTL <= tokens[s].expiresAt)'
      BY <1>3, <1>6, <2>2 DEF IInv, RowFits, Same, Written
    <3>2. RevokerOf(q, s)'
      BY <1>1, <1>2, <1>7 DEF RevokerOf, Written, Ended, MayHaveRevoked
    <3>3. Prompt => now'[s] <= tokens'[s].revokedAt
      BY <1>5, <1>6, <2>2 DEF Same, IInv, RowFits
    <3> QED BY <1>6, <3>1, <3>2, <3>3 DEF RowFits, HasToken
  <2> QED BY <1>6, <2>1, <2>3, RowKept DEF IInv
<1>12. AskFits(q)' /\ PresentFits(q)'
  BY <1>1, <1>2, <1>3, <1>7, <1>9 DEF AskFits, PresentFits, GaveRefresh, Same, IInv, Fits
<1>13. StoredFits(q)'
  <2>1. Prompt /\ tokens'[s].revokedAt # Never /\ stored[q].revokedAt = Never
          => now[q] <= tokens'[s].revokedAt
    BY <1>1, <1>2, <1>5, <1>6 DEF IInv, Fits, StoredFits
  <2>2. stored[q].user = tokens[s].user /\ stored[q].expiresAt = tokens[s].expiresAt
    BY <1>1, <1>2 DEF IInv, Fits, StoredFits
  <2> QED BY <1>2, <1>6, <1>7, <2>1, <2>2 DEF StoredFits, HasToken
<1>14. OutcomeFits(q)'
  BY <1>2, <1>6, <1>7 DEF OutcomeFits
<1>15. AfterFits(q)'
  <2>1. \A l \in after[q] : l # q /\ l \in Requests
    BY <1>1 DEF IInv, Fits, AfterFits, TypeOK
  <2> QED BY <1>7, <1>9, <2>1 DEF AfterFits, Same, IInv, Fits
<1> QED BY <1>8, <1>9, <1>10, <1>11, <1>12, <1>13, <1>14, <1>15 DEF Effect, Fits

LEMMA StatementFailsEffect ==
  ASSUME IInv, NEW q \in Requests, StatementFails(q)
  PROVE  Effect(q)
<1>1. /\ DBFaults /\ pc[q] \in Statements /\ Answer(q, "internal")
      /\ UNCHANGED <<tokens, clock, locals>>
  BY DEF StatementFails
<1>2. input' = input /\ now' = now /\ exp' = exp /\ stored' = stored /\ after' = after
  BY <1>1 DEF locals
<1>3. pc'[q] = "done" /\ reply'[q] = "internal" /\ input[q] \in Asks /\ reply[q] = "none"
  BY <1>1 DEF Answer, IInv, TypeOK, Fits, AskFits, Statements
<1>4. TypeOK'
  BY <1>1, <1>2 DEF IInv, TypeOK, Answer, Ended, Replies
<1>5. \A r \in Requests \ {q} : Same(r)
  BY <1>1, <1>2 DEF Same, IInv, TypeOK, Answer
<1>6. \A s \in Requests : Grows(s) /\ RowFits(s)'
  BY <1>1, <1>3, <1>5, TokensKept DEF Statements, Written, Ended
<1>7. AskFits(q)'
  BY <1>1, <1>2, <1>3 DEF AskFits, IInv, Fits
<1>8. PresentFits(q)'
  <2>1. \A s \in Requests : GaveRefresh(s) => GaveRefresh(s)'
    BY <1>3, <1>5 DEF GaveRefresh, Same
  <2>2. pc[q] # "idle"
    BY <1>1 DEF Statements
  <2> QED BY <1>2, <1>3, <2>1, <2>2 DEF PresentFits, IInv, Fits
<1>9. StoredFits(q)' /\ OutcomeFits(q)'
  BY <1>1, <1>2, <1>3 DEF StoredFits, OutcomeFits, HasToken, IInv, Fits
<1>10. AfterFits(q)'
  <2>1. \A l \in after[q] : l # q /\ l \in Requests
    BY <1>3 DEF IInv, Fits, AfterFits, TypeOK
  <2> QED BY <1>2, <1>5, <2>1 DEF AfterFits, Same, IInv, Fits
<1>11. pc[q] # "done"
  BY <1>1 DEF Statements
<1> QED BY <1>1, <1>4, <1>5, <1>6, <1>7, <1>8, <1>9, <1>10, <1>11 DEF Effect, Fits

\* The answer that follows a write.
LEMMA AnswerEffect ==
  ASSUME IInv, NEW q \in Requests, HandOut(q) \/ Confirm(q)
  PROVE  Effect(q)
<1>1. /\ UNCHANGED <<tokens, clock, locals>> /\ reply[q] = "none" /\ input[q] \in Asks
      /\ \/ pc[q] = "handOut" /\ Answer(q, "loggedIn")
         \/ pc[q] = "confirm" /\ Answer(q, "loggedOut")
  BY DEF HandOut, Confirm, IInv, Fits, AskFits
<1>2. input' = input /\ now' = now /\ exp' = exp /\ stored' = stored /\ after' = after
  BY <1>1 DEF locals
<1>3. /\ pc'[q] = "done"
      /\ \/ pc[q] = "handOut" /\ reply'[q] = "loggedIn"
         \/ pc[q] = "confirm" /\ reply'[q] = "loggedOut"
  BY <1>1 DEF Answer, IInv, TypeOK
<1>4. TypeOK'
  BY <1>1, <1>2 DEF IInv, TypeOK, Answer, Ended, Replies
<1>5. \A r \in Requests \ {q} : Same(r)
  BY <1>1, <1>2 DEF Same, IInv, TypeOK, Answer
<1>6. \A s \in Requests : Grows(s) /\ RowFits(s)'
  <2>1. Lasting
    <3>1. Written(q)' /\ UNCHANGED <<input[q], stored[q], now[q]>>
      BY <1>2, <1>3 DEF Written, Ended
    <3>2. MayHaveRevoked(q) => MayHaveRevoked(q)'
      BY <1>1, <1>3 DEF MayHaveRevoked
    <3> QED BY <1>5, <3>1, <3>2, RestingLasts DEF Lasting, Rests
  <2>2. \A s \in Requests : Grows(s)
    BY <1>1 DEF Grows, HasToken
  <2> QED BY <1>1, <2>1, <2>2, RowKept DEF IInv
<1>7. AskFits(q)'
  BY <1>1, <1>2, <1>3 DEF AskFits, IInv, Fits
<1>8. PresentFits(q)'
  <2>1. \A s \in Requests : GaveRefresh(s) => GaveRefresh(s)'
    BY <1>1, <1>5 DEF GaveRefresh, Same
  <2> QED BY <1>1, <1>2, <1>3, <2>1 DEF PresentFits, IInv, Fits
<1>9. StoredFits(q)' /\ OutcomeFits(q)'
  BY <1>1, <1>2, <1>3 DEF StoredFits, OutcomeFits, HasToken, IInv, Fits
<1>10. AfterFits(q)'
  <2>1. \A l \in after[q] : l # q /\ l \in Requests
    BY <1>1 DEF IInv, Fits, AfterFits, TypeOK
  <2> QED BY <1>2, <1>5, <2>1 DEF AfterFits, Same, IInv, Fits
<1> QED BY <1>1, <1>4, <1>5, <1>6, <1>7, <1>8, <1>9, <1>10 DEF Effect, Fits

LEMMA StepEffect ==
  ASSUME IInv, NEW q \in Requests, Step(q)
  PROVE  Effect(q)
<1>1. CASE CreateToken(q)
  <2>1. pc[q] = "createToken" /\ InsertToken(q) /\ Goto(q, "handOut") /\ UNCHANGED <<clock, locals>>
    BY <1>1 DEF CreateToken
  <2> QED BY <2>1, InsertTokenEffect
<1>2. CASE Revoke(q)
  <2>1. pc[q] = "revoke" /\ UpdateToken(q) /\ Goto(q, "confirm") /\ UNCHANGED <<clock, locals>>
    BY <1>2 DEF Revoke
  <2> QED BY <2>1, UpdateTokenEffect
<1>3. CASE AckLost(q)
  <2>1. Answer(q, "internal") /\ UNCHANGED <<clock, locals>>
    BY <1>3 DEF AckLost
  <2>2. CASE pc[q] = "createToken" /\ InsertToken(q)
    BY <2>1, <2>2, InsertTokenEffect
  <2>3. CASE pc[q] = "revoke" /\ UpdateToken(q)
    BY <2>1, <2>3, UpdateTokenEffect
  <2> QED BY <1>3, <2>2, <2>3 DEF AckLost
<1> QED
  BY <1>1, <1>2, <1>3, ReceiveEffect, FindUserEffect, FindTokenEffect, JudgeEffect,
     FindOwnerEffect, AnswerEffect, StatementFailsEffect DEF Step

-----------------------------------------------------------------------------
(* The invariant holds.                                                    *)

\* Nobody steps: time passes, or the process dies.
LEMMA RestKeepsIInv ==
  ASSUME IInv, TypeOK', tokens' = tokens, Settled,
         \A r \in Requests : Rests(r) /\ TimeFor(r)
  PROVE  IInv'
<1>1. \A s \in Requests : Grows(s)
  BY DEF Grows, HasToken
<1>2. \A s \in Requests : RowFits(s)'
  BY RestingLasts, RowKept DEF IInv, Lasting
<1>3. \A r \in Requests : Fits(r)'
  BY <1>1, RestingKeepsFits DEF IInv
<1> QED BY <1>2, <1>3 DEF IInv

LEMMA CrashKeepsIInv ==
  ASSUME IInv, Crash
  PROVE  IInv'
<1>1. /\ UNCHANGED <<tokens, clock, locals, reply>>
      /\ pc' = [r \in Requests |-> IF pc[r] \in Running THEN "lost" ELSE pc[r]]
  BY DEF Crash
<1>2. TypeOK'
  BY <1>1 DEF IInv, TypeOK, locals, Running, Statements, Ended
<1>3. \A r \in Requests : Rests(r) /\ TimeFor(r)
  BY <1>1 DEF Rests, Same, TimeFor, locals
<1>4. Settled
  BY <1>1 DEF Settled, Same, locals, Running, Statements
<1> QED BY <1>1, <1>2, <1>3, <1>4, RestKeepsIInv

LEMMA TickKeepsIInv ==
  ASSUME IInv, Tick
  PROVE  IInv'
<1>1. /\ UNCHANGED <<tokens, pc, locals, reply>> /\ clock' = clock + 1 /\ clock < MaxClock
      /\ Prompt => \A r \in Requests : pc[r] \notin Running
  BY DEF Tick
<1>2. TypeOK'
  BY <1>1, SessionAssumption DEF IInv, TypeOK, locals
<1>3. \A r \in Requests : Rests(r) /\ TimeFor(r)
  BY <1>1 DEF Rests, Same, TimeFor, locals
<1>4. Settled
  BY <1>1 DEF Settled, Same, locals
<1> QED BY <1>1, <1>2, <1>3, <1>4, RestKeepsIInv

LEMMA StutterKeepsIInv ==
  ASSUME IInv, UNCHANGED vars
  PROVE  IInv'
<1>1. UNCHANGED <<tokens, clock, pc, locals, reply>>
  BY DEF vars
<1>2. TypeOK'
  BY <1>1 DEF IInv, TypeOK, locals
<1>3. \A r \in Requests : Rests(r) /\ TimeFor(r)
  BY <1>1 DEF Rests, Same, TimeFor, locals
<1>4. Settled
  BY <1>1 DEF Settled, Same, locals
<1> QED BY <1>1, <1>2, <1>3, <1>4, RestKeepsIInv

LEMMA InitIInv ==
  ASSUME Init
  PROVE  IInv
<1>1. TypeOK
  BY SessionAssumption, NoTokenFacts DEF Init, TypeOK, Replies
<1>2. ASSUME NEW r \in Requests
      PROVE  Fits(r)
  <2>1. /\ pc[r] = "idle" /\ reply[r] = "none" /\ stored[r] = NoToken /\ after[r] = {}
        /\ now[r] = 0 /\ clock = 0
    BY DEF Init
  <2> QED BY <2>1 DEF Fits, AskFits, PresentFits, StoredFits, OutcomeFits, AfterFits
<1>3. \A s \in Requests : RowFits(s)
  BY NoTokenFacts DEF Init, RowFits, HasToken
<1> QED BY <1>1, <1>2, <1>3 DEF IInv

\* The inductive invariant of login, refresh and logout.
THEOREM Invariance == Spec => []IInv
<1>1. Init => IInv
  BY InitIInv
<1>2. IInv /\ [Next]_vars => IInv'
  <2> SUFFICES ASSUME IInv, [Next]_vars PROVE IInv'
    OBVIOUS
  <2>1. ASSUME NEW r \in Requests, Step(r) PROVE IInv'
    BY <2>1, StepEffect, EffectKeepsIInv
  <2> QED BY <2>1, CrashKeepsIInv, TickKeepsIInv, StutterKeepsIInv DEF Next
<1> QED BY <1>1, <1>2, PTL DEF Spec

-----------------------------------------------------------------------------
(* What follows from it.                                                   *)

\* Login, refresh, logout and the calls keep every variable in its type.
THEOREM TypeCorrect == Spec => []TypeOK
<1>1. IInv => TypeOK
  BY DEF IInv
<1> QED BY <1>1, Invariance, PTL

\* No refresh that comes in after a logout of its token was answered 200 gets
\* an access token.
THEOREM LogoutsAreFinal == Spec => []LogoutIsFinal
<1>1. IInv => LogoutIsFinal
  <2> SUFFICES ASSUME IInv, NEW l \in Requests, NEW r \in Requests, l \in after[r],
                      input[r].token = input[l].token
               PROVE  pc[r] # "findOwner" /\ reply[r] # "refreshed"
    BY DEF LogoutIsFinal
  <2>1. stored[r] = NoToken \/ stored[r].revokedAt # Never
    BY DEF IInv, Fits, AfterFits
  <2> QED BY <2>1 DEF IInv, Fits, OutcomeFits, SawOpen
<1> QED BY <1>1, Invariance, PTL

\* The refresh behind an access token is one of a token that a login gave.
LEMMA GivenAccess ==
  ASSUME IInv, NEW a \in Requests, GaveAccess(a)
  PROVE  /\ Session(a) \in Requests /\ GaveRefresh(Session(a)) /\ HasToken(Session(a))
         /\ reply[a] = "loggedIn" => Session(a) = a /\ Subject(a) = input[a].user
         /\ reply[a] = "refreshed" =>
              /\ Session(a) = input[a].token /\ Subject(a) = tokens[Session(a)].user
              /\ SawOpen(a) /\ StoredFits(a)
<1>1. CASE reply[a] = "loggedIn"
  BY <1>1 DEF Session, Subject, GaveRefresh, IInv, Fits, AskFits, OutcomeFits
<1>2. CASE reply[a] = "refreshed"
  <2>1. pc[a] = "done" /\ input[a].op = "refresh" /\ stored[a] # NoToken /\ SawOpen(a)
    BY <1>2 DEF IInv, Fits, AskFits, OutcomeFits
  <2>2. /\ input[a].token \in Requests /\ HasToken(input[a].token)
        /\ stored[a].user = tokens[input[a].token].user
    BY <2>1 DEF IInv, Fits, StoredFits
  <2>3. GaveRefresh(input[a].token)
    BY <2>1, <2>2 DEF IInv, Fits, PresentFits
  <2> QED BY <1>2, <2>1, <2>2, <2>3 DEF Session, Subject, IInv, Fits
<1> QED BY <1>1, <1>2 DEF GaveAccess

\* Whoever Protect lets through acts for a user who logged in.
THEOREM CallsAreTraceable == Spec => []CallTraceable
<1>1. IInv => CallTraceable
  <2> SUFFICES ASSUME IInv, NEW c \in Requests, reply[c] = "accepted"
               PROVE  /\ input[Session(input[c].token)].op = "login"
                      /\ reply[Session(input[c].token)] = "loggedIn"
                      /\ input[Session(input[c].token)].user \in Users
                      /\ Subject(input[c].token) = input[Session(input[c].token)].user
    BY DEF CallTraceable
  <2>1. PICK a \in Requests : a = input[c].token /\ GaveAccess(a)
    BY DEF IInv, Fits, PresentFits
  <2>2. PICK s \in Requests : s = Session(a) /\ GaveRefresh(s) /\ HasToken(s)
    BY <2>1, GivenAccess
  <2>3. input[s].op = "login" /\ input[s].user \in Users /\ tokens[s].user = input[s].user
    BY <2>2 DEF IInv, RowFits
  <2>4. Subject(a) = input[s].user
    BY <2>1, <2>2, <2>3, GivenAccess DEF GaveAccess
  <2> QED BY <2>1, <2>2, <2>3, <2>4 DEF GaveRefresh
<1> QED BY <1>1, Invariance, PTL

\* Access tokens outlive their session by less than AccessTTL, if requests
\* are prompt.
THEOREM AccessIsBounded == Spec => []AccessEnds
<1>1. IInv => AccessEnds
  <2> SUFFICES ASSUME IInv, NEW c \in Requests, reply[c] = "accepted", Prompt,
                      NEW s, s = Session(input[c].token)
               PROVE  /\ now[c] < tokens[s].expiresAt + AccessTTL
                      /\ tokens[s].revokedAt # Never => now[c] < tokens[s].revokedAt + AccessTTL
    BY DEF AccessEnds
  <2>1. PICK a \in Requests : a = input[c].token /\ GaveAccess(a)
    BY DEF IInv, Fits, PresentFits
  <2>2. s \in Requests /\ HasToken(s)
    BY <2>1, GivenAccess
  <2>3. now[c] < now[a] + AccessTTL
    BY <2>1 DEF IInv, Fits, AskFits, OutcomeFits, GaveAccess
  <2>4. /\ now[a] <= tokens[s].expiresAt
        /\ tokens[s].revokedAt # Never => now[a] <= tokens[s].revokedAt
    <3>1. CASE reply[a] = "loggedIn"
      <4>1. s = a /\ now[a] + RefreshTTL <= tokens[a].expiresAt
            /\ (tokens[a].revokedAt # Never => now[a] <= tokens[a].revokedAt)
        BY <2>1, <2>2, <3>1, GivenAccess DEF IInv, RowFits
      <4>2. now[a] \in Nat /\ tokens[a].expiresAt \in Nat
        BY ColumnTypes, SessionAssumption DEF IInv, TypeOK
      <4> QED BY <4>1, <4>2, SessionAssumption
    <3>2. CASE reply[a] = "refreshed"
      BY <2>1, <3>2, GivenAccess DEF SawOpen, StoredFits
    <3> QED BY <2>1, <3>1, <3>2 DEF GaveAccess
  <2>5. /\ now[c] \in Nat /\ now[a] \in Nat /\ AccessTTL \in Nat /\ tokens[s].expiresAt \in Nat
        /\ tokens[s].revokedAt # Never => tokens[s].revokedAt \in Nat
    BY <2>2, ColumnTypes, SessionAssumption DEF IInv, TypeOK
  <2> QED BY <2>3, <2>4, <2>5
<1> QED BY <1>1, Invariance, PTL

\* A refused refresh was refused for a reason that the table and the requests
\* bear out, wherever logouts and logins were cut short.
THEOREM RefusalsAreTrue == Spec => []RefusalTrue
<1>1. IInv => RefusalTrue
  <2> SUFFICES ASSUME IInv, NEW r \in Requests
               PROVE  /\ reply[r] = "revoked" =>
                           \E l \in Requests :
                             /\ input[l].op = "logout" /\ input[l].token = input[r].token
                             /\ stored[l] # NoToken /\ MayHaveRevoked(l)
                      /\ reply[r] = "expired" => clock > tokens[input[r].token].expiresAt
                      /\ reply[r] = "invalid" => input[r].token = Nobody
    BY DEF RefusalTrue
  <2>1. ASSUME reply[r] = "revoked"
        PROVE  \E l \in Requests : RevokerOf(l, input[r].token)
    <3>1. stored[r] # NoToken /\ stored[r].revokedAt # Never
      BY <2>1 DEF IInv, Fits, AskFits, OutcomeFits
    <3>2. input[r].token \in Requests /\ tokens[input[r].token].revokedAt # Never
      BY <3>1 DEF IInv, Fits, StoredFits
    <3> QED BY <3>2 DEF IInv, RowFits
  <2>2. reply[r] = "expired" => clock > tokens[input[r].token].expiresAt
    BY DEF IInv, Fits, AskFits, StoredFits, OutcomeFits
  <2> QED BY <2>1, <2>2 DEF IInv, Fits, OutcomeFits, RevokerOf
<1> QED BY <1>1, Invariance, PTL

-----------------------------------------------------------------------------
(* The refinement of SessionBook.                                          *)

LEMMA InitImplementsInit ==
  ASSUME Init
  PROVE  Book!Init
<1>1. until = [s \in Requests |-> Never] /\ closed = [s \in Requests |-> Never]
  BY NoTokenFacts DEF Init, until, closed, HasToken
<1>2. seen = {} /\ granted = {}
  BY DEF Init, seen, granted, SawOpen
<1> QED BY <1>1, <1>2 DEF Init, Book!Init

\* What a step does not touch looks the same in the book.
LEMMA SeenKept ==
  ASSUME NEW q \in Requests, \A r \in Requests \ {q} : Same(r), ~SawOpen(q), ~SawOpen(q)'
  PROVE  seen' = seen
<1>1. \A r \in Requests : (SawOpen(r)' <=> SawOpen(r)) /\ (SawOpen(r) => input'[r] = input[r])
  BY DEF Same, SawOpen
<1> QED BY <1>1 DEF seen

LEMMA SeenKeptToo ==
  ASSUME \A r \in Requests : stored'[r] = stored[r] /\ now'[r] = now[r] /\ input'[r] = input[r]
  PROVE  seen' = seen
<1>1. \A r \in Requests : SawOpen(r)' <=> SawOpen(r)
  BY DEF SawOpen
<1> QED BY <1>1 DEF seen

LEMMA GrantedKept ==
  ASSUME NEW q \in Requests, \A r \in Requests \ {q} : Same(r),
         reply[q] # "refreshed", reply'[q] # "refreshed"
  PROVE  granted' = granted
  BY DEF granted, Same

LEMMA TableKept ==
  ASSUME tokens' = tokens
  PROVE  until' = until /\ closed' = closed
  BY DEF until, closed, HasToken

\* The steps that leave the book as it is: all but those below.
LEMMA QuietStep ==
  ASSUME IInv, NEW q \in Requests,
         \/ Receive(q) \/ FindUser(q) \/ Judge(q) \/ HandOut(q) \/ Confirm(q)
         \/ StatementFails(q)
  PROVE  UNCHANGED Book!book
<1>1. Effect(q) /\ tokens' = tokens
  BY ReceiveEffect, FindUserEffect, JudgeEffect, AnswerEffect, StatementFailsEffect
  DEF Receive, FindUser, Judge, HandOut, Confirm, StatementFails
<1>2. reply[q] # "refreshed" /\ reply'[q] # "refreshed"
  <2>1. reply[q] = "none"
    BY <1>1 DEF Effect, IInv, TypeOK, Replies, Fits, AskFits
  <2>2. CASE Receive(q)
    <3>1. stored'[q] = NoToken
      BY <2>2 DEF Receive, IInv, Fits, AskFits
    <3> QED BY <1>1, <2>1, <3>1 DEF Effect, Fits, AskFits
  <2>3. CASE FindUser(q) \/ Judge(q) \/ HandOut(q) \/ Confirm(q) \/ StatementFails(q)
    BY <2>1, <2>3
    DEF FindUser, Judge, Judgement, HandOut, Confirm, StatementFails, Answer, Goto, IInv, TypeOK
  <2> QED BY <2>1, <2>2, <2>3
<1>3. seen' = seen
  <2>1. CASE Receive(q)
    <3>1. stored[q] = NoToken /\ stored' = stored
      BY <2>1 DEF Receive, IInv, Fits, AskFits
    <3> QED BY <1>1, <3>1, SeenKept DEF SawOpen, Effect
  <2>2. CASE FindUser(q)
    <3>1. input[q] \in Asks /\ input[q].op = "login" /\ stored' = stored
      BY <2>2 DEF FindUser, IInv, Fits, AskFits
    <3>2. stored[q] = NoToken \/ input[q].token \in Requests
      BY DEF IInv, Fits, StoredFits
    <3>3. stored[q] = NoToken
      BY <3>1, <3>2, AskFields, SessionAssumption DEF Asks
    <3> QED BY <1>1, <3>1, <3>3, SeenKept DEF SawOpen, Effect
  <2>3. CASE Judge(q) \/ HandOut(q) \/ Confirm(q) \/ StatementFails(q)
    BY <2>3, SeenKeptToo DEF Judge, HandOut, Confirm, StatementFails, locals
  <2> QED BY <2>1, <2>2, <2>3
<1> QED BY <1>1, <1>2, <1>3, GrantedKept, TableKept DEF Effect, Book!book

LEMMA InsertOpens ==
  ASSUME IInv, NEW q \in Requests, pc[q] = "createToken", InsertToken(q),
         UNCHANGED <<clock, locals>>, Goto(q, "handOut") \/ Answer(q, "internal")
  PROVE  Book!Open(q)
<1>1. PICK t \in now[q] .. clock : tokens' = [tokens EXCEPT ![q] = NewToken(q, t)]
  BY DEF InsertToken
<1>2. t \in 0 .. clock /\ t \in 0 .. MaxClock
  <2>1. now[q] \in 0 .. MaxClock /\ clock \in 0 .. MaxClock /\ MaxClock \in Nat
    BY SessionAssumption DEF IInv, TypeOK
  <2> QED BY <1>1, <2>1
<1>3. input[q].user \in Users /\ ~HasToken(q) /\ tokens[q].revokedAt = Never /\ reply[q] = "none"
  BY DEF IInv, Fits, AskFits, RowFits, Written, Ended
<1>4. /\ tokens'[q] # NoToken /\ tokens'[q].expiresAt = t + RefreshTTL
      /\ tokens'[q].revokedAt = Never
      /\ \A s \in Requests : s # q => tokens'[s] = tokens[s]
  BY <1>1, <1>2, <1>3, NewTokenFacts DEF IInv, TypeOK
<1>5. until[q] = Never /\ until' = [until EXCEPT ![q] = t + RefreshTTL]
  BY <1>3, <1>4 DEF until, HasToken
<1>6. closed' = closed
  BY <1>3, <1>4 DEF closed
<1>7. seen' = seen
  BY SeenKeptToo DEF locals
<1>8. granted' = granted
  BY <1>3, GrantedKept, InsertTokenEffect DEF Effect, Goto, Answer, IInv, TypeOK
<1> QED BY <1>2, <1>5, <1>6, <1>7, <1>8 DEF Book!Open

LEMMA FindSees ==
  ASSUME IInv, NEW q \in Requests, FindToken(q)
  PROVE  \/ Book!See(q, input[q].token) /\ input[q].token \in Requests
         \/ UNCHANGED Book!book
<1>1. Effect(q) /\ UNCHANGED <<tokens, clock, input>> /\ stored[q] = NoToken /\ reply[q] = "none"
  BY FindTokenEffect DEF FindToken, IInv, Fits, AskFits
<1>2. granted' = granted
  <2>1. reply'[q] # "refreshed"
    BY <1>1 DEF FindToken, Answer, Goto, IInv, TypeOK
  <2> QED BY <1>1, <2>1, GrantedKept DEF Effect
<1>3. until' = until /\ closed' = closed
  BY <1>1, TableKept
<1>4. ~SawOpen(q)
  BY <1>1 DEF SawOpen
<1>5. CASE ~SawOpen(q)'
  <2>1. seen' = seen
    BY <1>1, <1>4, <1>5, SeenKept DEF Effect
  <2> QED BY <1>1, <1>2, <1>3, <2>1 DEF Book!book
<1>6. CASE SawOpen(q)'
  <2>1. /\ input[q].token \in Requests /\ HasToken(input[q].token)
        /\ stored'[q] = tokens[input[q].token] /\ now'[q] = clock
    BY <1>1, <1>6 DEF FindToken, IInv, TypeOK, SawOpen
  <2>2. PICK s \in Requests : s = input[q].token
    BY <2>1
  <2>3. tokens[s].revokedAt = Never /\ clock <= tokens[s].expiresAt /\ HasToken(s)
    BY <1>6, <2>1, <2>2 DEF SawOpen
  <2>4. tokens[s].expiresAt # Never
    BY ColumnTypes, SessionAssumption DEF IInv, TypeOK
  <2>5. until[s] = tokens[s].expiresAt /\ closed[s] = Never
    BY <2>3 DEF until, closed
  <2>6. seen' = seen \cup {<<q, s>>}
    <3>1. \A r \in Requests \ {q} : (SawOpen(r)' <=> SawOpen(r)) /\ input'[r] = input[r]
      BY <1>1 DEF Effect, Same, SawOpen
    <3> QED BY <1>1, <1>4, <1>6, <2>2, <3>1 DEF seen
  <2> QED BY <1>1, <1>2, <1>3, <2>2, <2>3, <2>4, <2>5, <2>6 DEF Book!See, Book!IsOpen
<1> QED BY <1>5, <1>6

LEMMA FindOwnerGrants ==
  ASSUME IInv, NEW q \in Requests, FindOwner(q)
  PROVE  Book!Grant(q, input[q].token) /\ input[q].token \in Requests
<1>1. /\ Effect(q) /\ UNCHANGED <<tokens, clock, input, stored, now>> /\ Answer(q, "refreshed")
      /\ SawOpen(q) /\ reply[q] = "none"
  BY FindOwnerEffect DEF FindOwner, IInv, Fits, OutcomeFits, AskFits
<1>2. until' = until /\ closed' = closed /\ seen' = seen
  BY <1>1, TableKept, SeenKeptToo
<1>3. <<q, input[q].token>> \in seen /\ input[q].token \in Requests
  BY <1>1 DEF seen, SawOpen, IInv, Fits, StoredFits
<1>4. granted' = granted \cup {<<q, input[q].token>>}
  <2>1. reply'[q] = "refreshed" /\ \A r \in Requests \ {q} : reply'[r] = reply[r]
    BY <1>1 DEF Answer, IInv, TypeOK
  <2> QED BY <1>1, <2>1 DEF granted
<1> QED BY <1>1, <1>2, <1>3, <1>4 DEF Book!Grant

LEMMA UpdateCloses ==
  ASSUME IInv, NEW q \in Requests, pc[q] = "revoke", UpdateToken(q),
         UNCHANGED <<clock, locals>>, Goto(q, "confirm") \/ Answer(q, "internal")
  PROVE  \/ Book!Close(input[q].token) /\ input[q].token \in Requests
         \/ UNCHANGED Book!book
<1>1. stored[q] # NoToken /\ reply[q] = "none"
  BY DEF IInv, Fits, AskFits
<1>2. PICK s \in Requests : s = input[q].token /\ HasToken(s)
  BY <1>1 DEF IInv, Fits, StoredFits
<1>3. PICK t \in now[q] .. clock : RevokeOnce(s, t)
  BY <1>2 DEF UpdateToken
<1>4. t \in 0 .. clock /\ t \in 0 .. MaxClock
  <2>1. now[q] \in 0 .. MaxClock /\ clock \in 0 .. MaxClock /\ MaxClock \in Nat
    BY SessionAssumption DEF IInv, TypeOK
  <2> QED BY <1>3, <2>1
<1>5. seen' = seen
  BY SeenKeptToo DEF locals
<1>6. granted' = granted
  BY <1>1, GrantedKept, UpdateTokenEffect DEF Effect, Goto, Answer, IInv, TypeOK
<1>7. CASE tokens[s].revokedAt # Never
  <2>1. tokens' = tokens
    BY <1>3, <1>7 DEF RevokeOnce
  <2> QED BY <1>5, <1>6, <2>1, TableKept DEF Book!book
<1>8. CASE tokens[s].revokedAt = Never
  <2>1. tokens' = [tokens EXCEPT ![s] = Revoked(tokens[s], t)]
    BY <1>3, <1>8 DEF RevokeOnce
  <2>2. /\ tokens'[s] # NoToken /\ tokens'[s].expiresAt = tokens[s].expiresAt
        /\ tokens'[s].revokedAt = t
        /\ \A i \in Requests : i # s => tokens'[i] = tokens[i]
    <3>1. tokens[s] \in Token /\ tokens \in [Requests -> Token]
      BY DEF IInv, TypeOK
    <3>2. /\ Revoked(tokens[s], t) # NoToken
          /\ Revoked(tokens[s], t).expiresAt = tokens[s].expiresAt
          /\ Revoked(tokens[s], t).revokedAt = t
      BY <1>4, <3>1, RevokedFacts
    <3> QED BY <2>1, <3>1, <3>2
  <2>3. tokens[s].expiresAt # Never
    BY ColumnTypes, SessionAssumption DEF IInv, TypeOK
  <2>4. Book!IsOpen(s)
    BY <1>2, <1>8, <2>3 DEF Book!IsOpen, until, closed
  <2>5. until' = until
    BY <1>2, <2>2 DEF until, HasToken
  <2>6. closed' = [closed EXCEPT ![s] = t]
    BY <2>2 DEF closed
  <2> QED BY <1>2, <1>4, <1>5, <1>6, <2>4, <2>5, <2>6 DEF Book!Close
<1> QED BY <1>7, <1>8

LEMMA NextImplementsNext ==
  ASSUME IInv, [Next]_vars
  PROVE  [Book!Next]_(Book!book)
<1>1. CASE UNCHANGED vars
  <2>1. UNCHANGED <<tokens, clock, input, stored, now, reply>>
    BY <1>1 DEF vars, locals
  <2> QED BY <2>1, TableKept, SeenKeptToo DEF Book!book, granted
<1>2. CASE Crash
  <2>1. UNCHANGED <<tokens, clock, input, stored, now, reply>>
    BY <1>2 DEF Crash, locals
  <2> QED BY <2>1, TableKept, SeenKeptToo DEF Book!book, granted
<1>3. CASE Tick
  <2>1. UNCHANGED <<tokens, input, stored, now, reply>> /\ clock' = clock + 1
    BY <1>3 DEF Tick, locals
  <2>2. Book!Tick
    BY <2>1, TableKept, SeenKeptToo DEF Book!Tick, granted
  <2> QED BY <2>2 DEF Book!Next
<1>4. ASSUME NEW q \in Requests, Step(q)
      PROVE  [Book!Next]_(Book!book)
  <2>1. CASE \/ Receive(q) \/ FindUser(q) \/ Judge(q) \/ HandOut(q) \/ Confirm(q)
             \/ StatementFails(q)
    BY <2>1, QuietStep
  <2>2. CASE CreateToken(q)
    BY <2>2, InsertOpens DEF CreateToken, Book!Next
  <2>3. CASE FindToken(q)
    BY <2>3, FindSees DEF Book!Next
  <2>4. CASE FindOwner(q)
    BY <2>4, FindOwnerGrants DEF Book!Next
  <2>5. CASE Revoke(q)
    BY <2>5, UpdateCloses DEF Revoke, Book!Next
  <2>6. CASE AckLost(q)
    <3>1. Answer(q, "internal") /\ UNCHANGED <<clock, locals>>
      BY <2>6 DEF AckLost
    <3>2. CASE pc[q] = "createToken" /\ InsertToken(q)
      BY <3>1, <3>2, InsertOpens DEF Book!Next
    <3>3. CASE pc[q] = "revoke" /\ UpdateToken(q)
      BY <3>1, <3>3, UpdateCloses DEF Book!Next
    <3> QED BY <2>6, <3>2, <3>3 DEF AckLost
  <2> QED BY <1>4, <2>1, <2>2, <2>3, <2>4, <2>5, <2>6 DEF Step
<1> QED BY <1>1, <1>2, <1>3, <1>4 DEF Next

\* Login, refresh and logout implement SessionBook: a session is opened once
\* and closed once, and access tokens go to those who found it open.
THEOREM ImplementsBook == Spec => SessionSpec
<1>1. Init => Book!Init
  BY InitImplementsInit
<1>2. IInv /\ [Next]_vars => [Book!Next]_(Book!book)
  BY NextImplementsNext
<1> QED BY <1>1, <1>2, Invariance, PTL DEF Spec, SessionSpec, Book!Spec

=============================================================================
