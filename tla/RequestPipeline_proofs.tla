------------------------ MODULE RequestPipeline_proofs ------------------------
(***************************************************************************)
(* The safety of RequestPipeline for every number of requests and users,   *)
(* every traffic and every limit: who reaches a handler, what the log      *)
(* tells, and how many requests the limiters let through.                  *)
(***************************************************************************)
EXTENDS RequestPipeline, FiniteSetTheorems, TLAPS

(* The inductive invariant.  The stages that a request has passed tell who *)
(* its user is, and its lines are those of its outcome, which its status   *)
(* code comes from as well.                                                *)

Inputs == [route: Routes, user: Users \cup {Nobody}, header: Headers \cup {NoHeader}]

Meters == [hits: Nat, exp: 0 .. (MaxClock + Window)]

LogLines == [request: Requests, kind: {"completed", "note", "failed", "panic"},
             severity: {"info", "error"}, code: Nat,
             id: Headers \cup Requests \cup {NoHeader}, user: Users \cup {Nobody}]

Own(r) == {line \in log : line.request = r}

\* The middlewares behind a request let it through.
WayFits(r) ==
  /\ place[r] <= Len(Stages(r))
  /\ place[r] >= 1 => input[r].user # Nobody
  /\ place[r] >= 3 =>
       \A stage \in DOMAIN Required :
         Stages(r)[3] = stage => RoleOf[input[r].user] \in Required[stage]

ScopeFits(r) ==
  /\ scope[r].id = IF input[r].header = NoHeader THEN r ELSE input[r].header
  /\ scope[r].user = IF place[r] = 0 THEN Nobody ELSE input[r].user

\* The scope of the request has its user, if it has one that counts.
Scoped(r) == place[r] = 0 => input[r].route \in Public \/ input[r].user = Nobody

\* Whom the refusals are for.
RefusedFits(r) ==
  /\ outcome[r].code = 401 => input[r].route \in Public \/ input[r].user = Nobody
  /\ outcome[r].code = 403 =>
       input[r].user # Nobody /\ RoleOf[input[r].user] \notin Granted(input[r].route)

Failing(r) == outcome[r].kind # "ok" /\ SentCode(outcome[r]) >= 500

OutcomeFits(r) ==
  /\ pc[r] \in {"idle", "inside"} => outcome[r] = NoOutcome
  /\ pc[r] = "panicked" => outcome[r].kind = "panic" /\ outcome[r] \in Outcome
  /\ pc[r] \in {"returned", "erring", "answering", "done"} =>
       outcome[r].kind # "panic" /\ outcome[r] \in Outcome \cup {Recovered}
  /\ pc[r] = "erring" => Failing(r)
  /\ reply[r] = IF pc[r] = "done" THEN SentCode(outcome[r]) ELSE 0

\* What each line of a request says, and by when it is written.
LineFits(r, line) ==
  /\ line.kind \in {"completed", "note"} =>
       Sent(r) /\ Scoped(r) /\ line.id = scope[r].id /\ line.user = scope[r].user
  /\ line.kind = "completed" =>
       pc[r] \in {"erring", "answering", "done", "lost"} /\ line = Completed(r)
  /\ line.kind = "panic" =>
       /\ pc[r] \in {"returned", "answering", "done", "lost"}
       /\ outcome[r] = Recovered /\ line = Panic(r)
  /\ line.kind = "failed" =>
       pc[r] \in {"answering", "done", "lost"} /\ Failing(r) /\ line = Failed(r)

Tells(r, kinds) == \E line \in Own(r) : line.kind \in kinds

\* What is written by when, if nothing is dropped.
AllTold(r) ==
  /\ pc[r] \in {"erring", "answering", "done"} /\ Sent(r) /\ Emitted("info") =>
       Tells(r, {"completed"})
  /\ pc[r] \in {"returned", "answering", "done"} /\ outcome[r] = Recovered =>
       Tells(r, {"failed", "panic"})
  /\ pc[r] \in {"answering", "done"} /\ Failing(r) => Tells(r, {"failed", "panic"})

LogFits(r) ==
  /\ pc[r] = "inside" /\ Own(r) # {} => place[r] = Len(Stages(r))
  /\ \A line \in Own(r) : LineFits(r, line)
  /\ ~Sampled => AllTold(r)

RequestFits(r) ==
  /\ pc[r] = "idle" => ~Sent(r) /\ Own(r) = {}
  /\ pc[r] \in {"inside", "panicked", "returned"} => Sent(r)
  /\ ~Sent(r) => place[r] = 0
  /\ Sent(r) => input[r] \in Inputs /\ WayFits(r) /\ ScopeFits(r) /\ RefusedFits(r)
  /\ pc[r] \in {"panicked", "returned"} => Scoped(r)
  /\ OutcomeFits(r)
  /\ LogFits(r)

IInv == TypeOK /\ \A r \in Requests : RequestFits(r)

-----------------------------------------------------------------------------
(* Chains, outcomes and lines.                                             *)

\* What Chain gives each route.
LEMMA ChainFacts ==
  ASSUME NEW route \in Routes
  PROVE  /\ Len(Chain(route)) \in {0, 2, 3}
         /\ Len(Chain(route)) = 0 <=> route \in Public
         /\ Len(Chain(route)) >= 1 =>
              Chain(route)[1] = "protect" /\ Chain(route)[2] = "general"
         /\ Len(Chain(route)) = 3 => Chain(route)[3] \in {"create", "admins", "superadmins"}
         /\ route = "decide" => Len(Chain(route)) = 3 /\ Chain(route)[3] = "admins"
         /\ route \in {"remove", "auditLogs"} =>
              Len(Chain(route)) = 3 /\ Chain(route)[3] = "superadmins"
         /\ Len(Chain(route)) = 3 /\ Chain(route)[3] = "admins" => route = "decide"
         /\ Len(Chain(route)) = 3 /\ Chain(route)[3] = "superadmins" =>
              route \in {"remove", "auditLogs"}
         /\ route \in Posts <=> (Len(Chain(route)) = 3 /\ Chain(route)[3] = "create")
<1>1. CASE route \in Public
  <2>1. Chain(route) = << >>
    BY <1>1 DEF Chain, Public, Posts
  <2>2. Len(Chain(route)) = 0
    BY <2>1
  <2> QED BY <1>1, <2>2 DEF Public, Posts
<1>2. CASE route \in {"list", "detail"}
  <2>1. Chain(route) = <<"protect", "general">>
    BY <1>2 DEF Chain, Public, Everyone, Posts
  <2> QED BY <1>2, <2>1 DEF Public, Posts
<1>3. CASE route \in Posts
  <2>1. Chain(route) = <<"protect", "general", "create">>
    BY <1>3 DEF Chain, Public, Creators, Posts
  <2> QED BY <1>3, <2>1 DEF Public, Posts
<1>4. CASE route = "decide"
  <2>1. Chain(route) = <<"protect", "general", "admins">>
    BY <1>4 DEF Chain, Public, Admins, Posts
  <2> QED BY <1>4, <2>1 DEF Public, Posts
<1>5. CASE route \in {"remove", "auditLogs"}
  <2>1. Chain(route) = <<"protect", "general", "superadmins">>
    BY <1>5 DEF Chain, Public, Superadmins, Posts
  <2> QED BY <1>5, <2>1 DEF Public, Posts
<1> QED BY <1>1, <1>2, <1>3, <1>4, <1>5 DEF Routes, Protected

\* Of the outcomes only errors and panics are answered from 500 on.
LEMMA OutcomeFacts ==
  ASSUME NEW o \in Outcome
  PROVE  /\ o.kind \in {"ok", "http", "fiber", "other", "panic"} /\ o.code \in Nat
         /\ o = [kind |-> o.kind, code |-> o.code]
         /\ o.kind = "ok" => o.code < 500
         /\ o.kind \in {"other", "panic"} => o.code = 500
<1>1. \A e \in DOMAIN Errors : Errors[e] \in Nat
  BY DEF Errors
<1>2. \A c \in Successes : c \in Nat /\ c < 500
  BY DEF Successes
<1>3. CASE o \in [kind: {"ok"}, code: Successes]
  BY <1>2, <1>3
<1>4. CASE o \in [kind: {"http"}, code: {Errors[e] : e \in DOMAIN Errors}]
  BY <1>1, <1>4
<1>5. CASE o \in [kind: {"fiber"}, code: 400 .. 599]
  BY <1>5
<1>6. CASE o \in [kind: {"other", "panic"}, code: {500}]
  BY <1>6
<1> QED BY <1>3, <1>4, <1>5, <1>6 DEF Outcome

\* How a request is refused is one of the outcomes.
LEMMA RefusalFacts ==
  /\ Errors["unauthorized"] = 401 /\ Errors["forbidden"] = 403 /\ Errors["tooMany"] = 429
  /\ \A e \in DOMAIN Errors : [kind |-> "http", code |-> Errors[e]] \in Outcome
  /\ {"unauthorized", "forbidden", "tooMany"} \subseteq DOMAIN Errors
<1>1. /\ Errors["unauthorized"] = 401 /\ Errors["forbidden"] = 403 /\ Errors["tooMany"] = 429
      /\ {"unauthorized", "forbidden", "tooMany"} \subseteq DOMAIN Errors
  BY DEF Errors
<1>2. ASSUME NEW e \in DOMAIN Errors
      PROVE  [kind |-> "http", code |-> Errors[e]] \in Outcome
  BY DEF Outcome
<1> QED BY <1>1, <1>2

\* The status of the answer, and the one in the log, which agree.
LEMMA CodeFacts ==
  ASSUME NEW o \in Outcome \cup {Recovered}
  PROVE  /\ SentCode(o) \in Nat /\ LoggedCode(o) = SentCode(o) /\ SentCode(o) = o.code
         /\ o.kind = "ok" /\ o # Recovered => SentCode(o) < 500
         /\ o = Recovered => o.kind = "ok" /\ SentCode(o) = 500
<1>1. CASE o \in Outcome
  <2>1. o # Recovered
    BY <1>1, OutcomeFacts DEF Recovered
  <2> QED BY <1>1, <2>1, OutcomeFacts DEF SentCode, LoggedCode
<1>2. CASE o = Recovered
  BY <1>2 DEF Recovered, SentCode, LoggedCode
<1> QED BY <1>1, <1>2

\* A line is written among its request's, or dropped.
LEMMA WriteFacts ==
  ASSUME NEW q, NEW kind, NEW severity, NEW code, NEW who,
         Write(Line(q, kind, severity, code, who)),
         q \in Requests, kind \in {"completed", "note", "failed", "panic"},
         severity \in {"info", "error"}, code \in Nat,
         who \in [id: Headers \cup Requests \cup {NoHeader}, user: Users \cup {Nobody}],
         log \subseteq LogLines
  PROVE  /\ log' \subseteq LogLines
         /\ \A r : r # q => Own(r)' = Own(r)
         /\ \A line \in Own(q)' : line \in Own(q) \/ line = Line(q, kind, severity, code, who)
         /\ \A line \in Own(q) : line \in Own(q)'
         /\ Emitted(severity) /\ ~Sampled => Line(q, kind, severity, code, who) \in Own(q)'
<1> DEFINE l == Line(q, kind, severity, code, who)
<1>1. l \in LogLines /\ l.request = q /\ l.severity = severity
  BY DEF Line, LogLines
<1>2. log' = log \cup {l} \/ log' = log
  BY DEF Write
<1>3. Emitted(severity) /\ ~Sampled => log' = log \cup {l}
  BY <1>1 DEF Write
<1> HIDE DEF l
<1>4. /\ log' \subseteq LogLines
      /\ \A r : r # q => Own(r)' = Own(r)
      /\ \A line \in Own(q)' : line \in Own(q) \/ line = l
      /\ \A line \in Own(q) : line \in Own(q)'
      /\ Emitted(severity) /\ ~Sampled => l \in Own(q)'
  BY <1>1, <1>2, <1>3 DEF Own
<1> QED BY <1>4 DEF l

-----------------------------------------------------------------------------
(* What a step of q leaves alone.                                          *)

Frame(q) ==
  /\ level' = level /\ appEnv' = appEnv
  /\ \A r \in Requests \ {q} :
       /\ pc'[r] = pc[r] /\ input'[r] = input[r] /\ scope'[r] = scope[r]
       /\ place'[r] = place[r] /\ outcome'[r] = outcome[r] /\ reply'[r] = reply[r]
       /\ Own(r)' = Own(r)

LEMMA RequestStays ==
  ASSUME NEW r \in Requests, RequestFits(r), level' = level, appEnv' = appEnv,
         input'[r] = input[r], scope'[r] = scope[r], place'[r] = place[r],
         outcome'[r] = outcome[r], reply'[r] = reply[r], Own(r)' = Own(r),
         pc'[r] = pc[r] \/ (pc[r] \in Busy /\ pc'[r] = "lost")
  PROVE  RequestFits(r)'
<1>1. /\ WayFits(r)' <=> WayFits(r)
      /\ ScopeFits(r)' <=> ScopeFits(r)
      /\ RefusedFits(r)' <=> RefusedFits(r)
      /\ Scoped(r)' <=> Scoped(r)
      /\ Sent(r)' <=> Sent(r)
      /\ Failing(r)' <=> Failing(r)
      /\ Len(Stages(r))' = Len(Stages(r))
      /\ Sampled' <=> Sampled
  BY DEF WayFits, ScopeFits, RefusedFits, Scoped, Sent, Failing, Stages, SentCode, Sampled
<1>2. OutcomeFits(r)'
  <2>1. SentCode(outcome[r])' = SentCode(outcome[r])
    BY DEF SentCode
  <2>2. OutcomeFits(r) /\ (pc[r] \in Busy => pc[r] # "done")
    BY DEF RequestFits, Busy
  <2> QED BY <1>1, <2>1, <2>2 DEF OutcomeFits
<1>3. LogFits(r)'
  <2>1. \A line : LineFits(r, line) => LineFits(r, line)'
    <3>1. Completed(r)' = Completed(r) /\ Panic(r)' = Panic(r) /\ Failed(r)' = Failed(r)
      BY DEF Completed, Panic, Failed, Line, LoggedCode, SentCode
    <3> QED BY <1>1, <3>1 DEF LineFits
  <2>2. \A kinds : Tells(r, kinds)' <=> Tells(r, kinds)
    BY DEF Tells
  <2>3. Emitted("info")' <=> Emitted("info")
    BY DEF Emitted, LogLevel
  <2>4. AllTold(r) => AllTold(r)'
    BY <1>1, <2>2, <2>3 DEF AllTold
  <2> QED BY <1>1, <2>1, <2>4 DEF LogFits, RequestFits
<1> QED BY <1>1, <1>2, <1>3 DEF RequestFits

LEMMA StepKeepsIInv ==
  ASSUME IInv, NEW q \in Requests, Frame(q), TypeOK', RequestFits(q)'
  PROVE  IInv'
<1>1. ASSUME NEW r \in Requests PROVE RequestFits(r)'
  <2>1. CASE r = q
    BY <2>1
  <2>2. CASE r # q
    BY <2>2, RequestStays DEF Frame, IInv
  <2> QED BY <2>1, <2>2
<1> QED BY <1>1 DEF IInv

\* A request on its way, by what stands in front of it.
LEMMA InsideFacts ==
  ASSUME IInv, NEW q \in Requests, pc[q] = "inside"
  PROVE  /\ input[q] \in Inputs /\ input[q].route \in Routes
         /\ Len(Stages(q)) \in {0, 2, 3} /\ place[q] \in 0 .. 3
         /\ place[q] <= Len(Stages(q))
         /\ place[q] >= 1 => input[q].user \in Users
         /\ reply[q] = 0 /\ outcome[q] = NoOutcome /\ Sent(q)
         /\ Own(q) # {} => place[q] = Len(Stages(q))
         /\ WayFits(q) /\ ScopeFits(q)
<1>1. RequestFits(q) /\ place[q] \in 0 .. 3
  BY DEF IInv, TypeOK
<1>2. /\ input[q] \in Inputs /\ WayFits(q) /\ ScopeFits(q) /\ Sent(q)
      /\ outcome[q] = NoOutcome /\ reply[q] = 0
      /\ Own(q) # {} => place[q] = Len(Stages(q))
  BY <1>1 DEF RequestFits, OutcomeFits, LogFits
<1>3. input[q].route \in Routes /\ input[q].user \in Users \cup {Nobody}
  BY <1>2 DEF Inputs
<1> QED BY <1>1, <1>2, <1>3, ChainFacts DEF WayFits, Stages

\* Any stage but the first is behind the check of the token.
LEMMA StageFacts ==
  ASSUME IInv, NEW q \in Requests, NEW stages, At(q, stages)
  PROVE  /\ Stage(q) \in stages /\ Stage(q) = Stages(q)[place[q] + 1]
         /\ place[q] = 0 <=> Stage(q) = "protect"
         /\ Stage(q) \in DOMAIN Required => place[q] = 2
         /\ place[q] \in 0 .. 2 /\ place[q] < Len(Stages(q))
         /\ input[q].route \notin Public
<1>1. /\ pc[q] = "inside" /\ place[q] < Len(Stages(q)) /\ Stage(q) \in stages
      /\ Stage(q) = Stages(q)[place[q] + 1]
  BY DEF At, Stage
<1>2. /\ input[q].route \in Routes /\ place[q] \in 0 .. 3
      /\ Len(Stages(q)) \in {0, 2, 3}
  BY <1>1, InsideFacts
<1>3. /\ Len(Stages(q)) = 0 <=> input[q].route \in Public
      /\ Stages(q)[1] = "protect" \/ Len(Stages(q)) = 0
      /\ Stages(q)[2] = "general" \/ Len(Stages(q)) = 0
      /\ Len(Stages(q)) = 3 => Stages(q)[3] \in {"create", "admins", "superadmins"}
  BY <1>2, ChainFacts DEF Stages
<1>4. place[q] \in 0 .. 2 /\ Len(Stages(q)) # 0
  BY <1>1, <1>2
<1>5. DOMAIN Required = {"admins", "superadmins"}
  BY DEF Required
<1>6. CASE place[q] = 0
  BY <1>1, <1>3, <1>4, <1>5, <1>6
<1>7. CASE place[q] = 1
  BY <1>1, <1>3, <1>4, <1>5, <1>7
<1>8. CASE place[q] = 2
  <2>1. Len(Stages(q)) = 3 /\ Stage(q) = Stages(q)[3]
    BY <1>1, <1>2, <1>8
  <2> QED BY <1>1, <1>3, <1>4, <1>5, <1>8, <2>1
<1> QED BY <1>4, <1>6, <1>7, <1>8

-----------------------------------------------------------------------------
(* The actions.                                                            *)

\* A request whose chain ends with an outcome.
LEMMA FinishKeepsIInv ==
  ASSUME IInv, NEW q \in Requests, pc[q] = "inside", NEW o \in Outcome, Finish(q, o),
         meter' \in [Limiters -> [Users -> Meters]],
         refused' \in [Requests -> 0 .. MaxClock],
         o.code = 401 => input[q].route \in Public \/ input[q].user = Nobody,
         o.code = 403 => /\ input[q].user # Nobody
                         /\ RoleOf[input[q].user] \notin Granted(input[q].route),
         Scoped(q)
  PROVE  IInv'
<1>1. /\ pc' = [pc EXCEPT ![q] = IF o.kind = "panic" THEN "panicked" ELSE "returned"]
      /\ outcome' = [outcome EXCEPT ![q] = o]
      /\ UNCHANGED <<log, level, appEnv, scope, clock, boots, input, place, times, boot, reply>>
  BY DEF Finish, locals, settings
<1>2. /\ outcome'[q] = o
      /\ pc'[q] = IF o.kind = "panic" THEN "panicked" ELSE "returned"
  BY <1>1 DEF IInv, TypeOK
<1>3. Frame(q)
  BY <1>1 DEF Frame, Own, IInv, TypeOK
<1>4. RequestFits(q)'
  <2>1. /\ input'[q] = input[q] /\ place'[q] = place[q] /\ scope'[q] = scope[q]
        /\ Own(q)' = Own(q) /\ reply'[q] = 0
    BY <1>1, InsideFacts DEF Own
  <2>2. Sent(q)' /\ input'[q] \in Inputs /\ WayFits(q)' /\ ScopeFits(q)' /\ Scoped(q)'
    BY <2>1, InsideFacts DEF WayFits, ScopeFits, Stages, Scoped, Sent
  <2>3. RefusedFits(q)'
    BY <1>2, <2>1 DEF RefusedFits
  <2>4. OutcomeFits(q)'
    BY <1>2, <2>1 DEF OutcomeFits
  <2>5. LogFits(q)'
    <3>1. outcome'[q] # Recovered
      BY <1>2, OutcomeFacts DEF Recovered
    <3>2. \A line \in Own(q)' : LineFits(q, line)'
      <4>1. ASSUME NEW line \in Own(q)
            PROVE  /\ line.kind \notin {"completed", "panic", "failed"}
                   /\ line.kind = "note" => line.id = scope[q].id /\ line.user = scope[q].user
        BY <4>1 DEF IInv, RequestFits, LogFits, LineFits
      <4> QED BY <2>1, <2>2, <4>1 DEF LineFits
    <3>3. AllTold(q)'
      BY <1>2, <3>1 DEF AllTold
    <3> QED BY <1>2, <3>2, <3>3 DEF LogFits
  <2> QED BY <1>2, <2>2, <2>3, <2>4, <2>5 DEF RequestFits
<1>5. TypeOK'
  <2>1. pc' \in [Requests -> {"idle", "done", "lost"} \cup Busy]
    BY <1>1 DEF IInv, TypeOK, Busy
  <2>2. outcome' \in [Requests -> Outcome \cup {NoOutcome, Recovered}]
    BY <1>1 DEF IInv, TypeOK
  <2> QED BY <1>1, <2>1, <2>2 DEF IInv, TypeOK, Meters
<1> QED BY <1>3, <1>4, <1>5, StepKeepsIInv

\* A refusal by a middleware.
LEMMA RefuseKeepsIInv ==
  ASSUME IInv, NEW q \in Requests, pc[q] = "inside",
         NEW e \in {"unauthorized", "forbidden", "tooMany"}, Refuse(q, e),
         meter' \in [Limiters -> [Users -> Meters]],
         e = "unauthorized" => input[q].user = Nobody,
         e = "forbidden" => /\ input[q].user # Nobody
                            /\ RoleOf[input[q].user] \notin Granted(input[q].route),
         e # "unauthorized" => place[q] # 0
  PROVE  IInv'
<1> DEFINE o == [kind |-> "http", code |-> Errors[e]]
<1>1. o \in Outcome /\ o.code = Errors[e]
  BY RefusalFacts
<1>2. /\ o.code = 401 => e = "unauthorized"
      /\ o.code = 403 => e = "forbidden"
  BY <1>1, RefusalFacts
<1>3. Finish(q, o) /\ refused' = [refused EXCEPT ![q] = clock]
  BY DEF Refuse
<1>4. refused' \in [Requests -> 0 .. MaxClock]
  BY <1>3 DEF IInv, TypeOK
<1>5. Scoped(q)
  BY DEF Scoped
<1> HIDE DEF o
<1> QED BY <1>1, <1>2, <1>3, <1>4, <1>5, FinishKeepsIInv

\* A stage that lets the request through.
LEMMA PassKeepsIInv ==
  ASSUME IInv, NEW q \in Requests, pc[q] = "inside", NEW stages, At(q, stages), Pass(q),
         meter' \in [Limiters -> [Users -> Meters]],
         times' \in [Requests -> Seq(0 .. MaxClock)],
         scope' = [scope EXCEPT ![q] = Scope(@.id, input[q].user)],
         input[q].user # Nobody,
         \A stage \in DOMAIN Required :
           Stage(q) = stage => RoleOf[input[q].user] \in Required[stage]
  PROVE  IInv'
<1>1. /\ place' = [place EXCEPT ![q] = @ + 1]
      /\ UNCHANGED <<log, level, appEnv, clock, boots, pc, input, boot, outcome, refused, reply>>
  BY DEF Pass, settings
<1>2. /\ place[q] \in 0 .. 2 /\ place[q] < Len(Stages(q))
      /\ Stage(q) = Stages(q)[place[q] + 1]
  BY StageFacts
<1>3. /\ input[q] \in Inputs /\ WayFits(q) /\ ScopeFits(q) /\ reply[q] = 0
      /\ outcome[q] = NoOutcome /\ Own(q) = {} /\ Len(Stages(q)) \in {0, 2, 3} /\ Sent(q)
  BY <1>2, InsideFacts
<1>4. place'[q] = place[q] + 1
  BY <1>1 DEF IInv, TypeOK
<1>5. /\ scope'[q].id = scope[q].id /\ scope'[q].user = input[q].user
      /\ scope' \in [Requests -> [id: Headers \cup Requests \cup {NoHeader},
                                  user: Users \cup {Nobody}]]
  BY <1>3 DEF IInv, TypeOK, Scope, Inputs
<1>6. TypeOK'
  <2>1. place' \in [Requests -> 0 .. 3]
    BY <1>1, <1>2 DEF IInv, TypeOK
  <2> QED BY <1>1, <1>5, <2>1 DEF IInv, TypeOK, Meters
<1>7. Frame(q)
  BY <1>1 DEF Frame, Own, IInv, TypeOK
<1>8. RequestFits(q)'
  <2>1. WayFits(q)'
    <3>1. Stages(q)' = Stages(q) /\ input'[q] = input[q]
      BY <1>1 DEF Stages
    <3>2. place[q] + 1 <= Len(Stages(q))
      BY <1>2, <1>3
    <3>3. place[q] + 1 >= 3 => Stages(q)[3] = Stage(q)
      BY <1>2
    <3> QED BY <1>4, <3>1, <3>2, <3>3 DEF WayFits
  <2>2. ScopeFits(q)'
    BY <1>1, <1>2, <1>3, <1>4, <1>5 DEF ScopeFits
  <2>3. /\ pc'[q] = "inside" /\ input'[q] \in Inputs /\ reply'[q] = 0 /\ Own(q)' = {}
        /\ outcome'[q] = NoOutcome /\ Sent(q)'
    BY <1>1, <1>3 DEF Own, Sent
  <2>4. RefusedFits(q)' /\ OutcomeFits(q)' /\ LogFits(q)'
    BY <2>3 DEF RefusedFits, OutcomeFits, LogFits, AllTold, NoOutcome
  <2> QED BY <2>1, <2>2, <2>3, <2>4 DEF RequestFits
<1> QED BY <1>6, <1>7, <1>8, StepKeepsIInv

\* Behind the check of the token the scope has its user already.
LEMMA ScopeSet ==
  ASSUME IInv, NEW q \in Requests, pc[q] = "inside", place[q] # 0
  PROVE  [scope EXCEPT ![q] = Scope(@.id, input[q].user)] = scope
<1>1. scope[q].user = input[q].user
  BY InsideFacts DEF ScopeFits
<1>2. scope \in [Requests -> [id: Headers \cup Requests \cup {NoHeader},
                              user: Users \cup {Nobody}]]
  BY DEF IInv, TypeOK
<1>3. Scope(scope[q].id, input[q].user) = scope[q]
  BY <1>1, <1>2 DEF Scope
<1> QED BY <1>2, <1>3

LEMMA ProtectKeepsIInv ==
  ASSUME IInv, NEW q \in Requests, Protect(q)
  PROVE  IInv'
<1>1. At(q, {"protect"}) /\ pc[q] = "inside" /\ meter' = meter
  BY DEF Protect, At
<1>2. Stage(q) = "protect"
  BY <1>1, StageFacts
<1>3. meter' \in [Limiters -> [Users -> Meters]]
  BY <1>1 DEF IInv, TypeOK, Meters
<1>4. CASE input[q].user = Nobody
  <2>1. Refuse(q, "unauthorized")
    BY <1>4 DEF Protect
  <2> QED BY <1>1, <1>3, <1>4, <2>1, RefuseKeepsIInv
<1>5. CASE input[q].user # Nobody
  <2>1. /\ Pass(q) /\ times' = times
        /\ scope' = [scope EXCEPT ![q] = Scope(@.id, input[q].user)]
    BY <1>5 DEF Protect
  <2>2. times' \in [Requests -> Seq(0 .. MaxClock)]
    BY <2>1 DEF IInv, TypeOK
  <2>3. "protect" \notin DOMAIN Required
    BY DEF Required
  <2> QED BY <1>1, <1>2, <1>3, <1>5, <2>1, <2>2, <2>3, PassKeepsIInv
<1> QED BY <1>4, <1>5

LEMMA RateLimitKeepsIInv ==
  ASSUME IInv, NEW q \in Requests, RateLimit(q)
  PROVE  IInv'
<1>1. At(q, Limiters) /\ pc[q] = "inside"
  BY DEF RateLimit, At
<1>2. Stage(q) \in Limiters /\ place[q] # 0 /\ "protect" \notin Limiters
  BY <1>1, StageFacts DEF Limiters
<1>3. input[q].user \in Users /\ input[q].user # Nobody
  BY <1>1, <1>2, InsideFacts, PipelineAssumption
<1>4. PICK w : /\ w = Bump(meter[Stage(q)][Key(q)])
               /\ meter' = [meter EXCEPT ![Stage(q)][Key(q)] = w]
               /\ IF Over(Stage(q), w)
                    THEN Refuse(q, "tooMany")
                    ELSE /\ Pass(q)
                         /\ times' = [times EXCEPT ![q] = Append(@, clock)]
                         /\ UNCHANGED scope
  BY DEF RateLimit
<1>5. w \in Meters
  <2>1. meter[Stage(q)][Key(q)] \in Meters
    BY <1>2, <1>3 DEF IInv, TypeOK, Meters, Key
  <2>2. clock \in 0 .. MaxClock /\ MaxClock \in Nat /\ Window \in Nat
    BY PipelineAssumption DEF IInv, TypeOK
  <2> QED BY <1>4, <2>1, <2>2 DEF Bump, WindowEnd, Meters
<1>6. meter' \in [Limiters -> [Users -> Meters]]
  BY <1>2, <1>3, <1>4, <1>5 DEF IInv, TypeOK, Meters, Key
<1>7. CASE Over(Stage(q), w)
  <2>1. Refuse(q, "tooMany")
    BY <1>4, <1>7
  <2> QED BY <1>1, <1>2, <1>6, <2>1, RefuseKeepsIInv
<1>8. CASE ~Over(Stage(q), w)
  <2>1. Pass(q) /\ times' = [times EXCEPT ![q] = Append(@, clock)] /\ UNCHANGED scope
    BY <1>4, <1>8
  <2>2. times' \in [Requests -> Seq(0 .. MaxClock)]
    <3>1. Append(times[q], clock) \in Seq(0 .. MaxClock)
      BY DEF IInv, TypeOK
    <3> QED BY <2>1, <3>1 DEF IInv, TypeOK
  <2>3. scope' = [scope EXCEPT ![q] = Scope(@.id, input[q].user)]
    BY <1>1, <1>2, <2>1, ScopeSet
  <2>4. Stage(q) \notin DOMAIN Required
    BY <1>2 DEF Limiters, Required
  <2> QED BY <1>1, <1>3, <1>6, <2>1, <2>2, <2>3, <2>4, PassKeepsIInv
<1> QED BY <1>7, <1>8

LEMMA RequireRolesKeepsIInv ==
  ASSUME IInv, NEW q \in Requests, RequireRoles(q)
  PROVE  IInv'
<1>1. At(q, DOMAIN Required) /\ pc[q] = "inside" /\ meter' = meter
  BY DEF RequireRoles, At
<1>2. /\ Stage(q) \in DOMAIN Required /\ place[q] = 2 /\ Stage(q) = Stages(q)[place[q] + 1]
      /\ place[q] < Len(Stages(q))
  BY <1>1, StageFacts
<1>3. input[q].user \in Users /\ input[q].user # Nobody /\ input[q].route \in Routes
  BY <1>1, <1>2, InsideFacts, PipelineAssumption
<1>4. meter' \in [Limiters -> [Users -> Meters]]
  BY <1>1 DEF IInv, TypeOK, Meters
<1>5. CASE RoleOf[input[q].user] \in Required[Stage(q)]
  <2>1. Pass(q) /\ scope' = scope /\ times' = times
    BY <1>5 DEF RequireRoles
  <2>2. scope' = [scope EXCEPT ![q] = Scope(@.id, input[q].user)]
    BY <1>1, <1>2, <2>1, ScopeSet
  <2>3. times' \in [Requests -> Seq(0 .. MaxClock)]
    BY <2>1 DEF IInv, TypeOK
  <2> QED BY <1>1, <1>3, <1>4, <1>5, <2>1, <2>2, <2>3, PassKeepsIInv
<1>6. CASE RoleOf[input[q].user] \notin Required[Stage(q)]
  <2>1. Refuse(q, "forbidden")
    BY <1>6 DEF RequireRoles
  <2>2. Len(Stages(q)) = 3 /\ Stage(q) = Stages(q)[3]
    BY <1>1, <1>2, InsideFacts
  <2>3. Required[Stage(q)] = Granted(input[q].route)
    <3>1. CASE Stage(q) = "admins"
      <4>1. input[q].route = "decide"
        BY <1>3, <2>2, <3>1, ChainFacts DEF Stages
      <4> QED BY <3>1, <4>1 DEF Required, Granted
    <3>2. CASE Stage(q) = "superadmins"
      <4>1. input[q].route \in {"remove", "auditLogs"}
        BY <1>3, <2>2, <3>2, ChainFacts DEF Stages
      <4> QED BY <3>2, <4>1 DEF Required, Granted
    <3> QED BY <1>2, <3>1, <3>2 DEF Required
  <2> QED BY <1>1, <1>2, <1>3, <1>4, <1>6, <2>1, <2>3, RefuseKeepsIInv
<1> QED BY <1>5, <1>6

\* At its handler a request has its user in its scope.
LEMMA HandlerScoped ==
  ASSUME IInv, NEW q \in Requests, AtHandler(q)
  PROVE  pc[q] = "inside" /\ place[q] = Len(Stages(q)) /\ Scoped(q)
<1>1. pc[q] = "inside" /\ place[q] = Len(Stages(q))
  BY DEF AtHandler
<1>2. input[q].route \in Routes
  BY <1>1, InsideFacts
<1>3. Len(Stages(q)) = 0 <=> input[q].route \in Public
  BY <1>2, ChainFacts DEF Stages
<1> QED BY <1>1, <1>3 DEF Scoped

LEMMA HandleKeepsIInv ==
  ASSUME IInv, NEW q \in Requests, Handle(q)
  PROVE  IInv'
<1>1. AtHandler(q) /\ meter' = meter /\ refused' = refused
  BY DEF Handle
<1>2. pc[q] = "inside" /\ Scoped(q) /\ input[q].route \in Routes
  BY <1>1, HandlerScoped, InsideFacts
<1>3. PICK o \in Outcomes[input[q].route] : Finish(q, o)
  BY DEF Handle
<1>4. o \in Outcome /\ o.code # 403 /\ (o.code = 401 => input[q].route \in Public)
  BY <1>2, PipelineAssumption
<1>5. /\ meter' \in [Limiters -> [Users -> Meters]]
      /\ refused' \in [Requests -> 0 .. MaxClock]
  BY <1>1 DEF IInv, TypeOK, Meters
<1> QED BY <1>2, <1>3, <1>4, <1>5, FinishKeepsIInv

\* A step that writes a line of a request, or gives its answer, and changes no
\* more of it than where it is and its outcome.
LEMMA WriterKeepsIInv ==
  ASSUME IInv, NEW q \in Requests, pc[q] \in Busy,
         UNCHANGED <<meter, level, appEnv, scope, clock, boots, input, place, times, boot,
                     refused>>,
         log' \subseteq LogLines, \A r : r # q => Own(r)' = Own(r),
         NEW p \in {"done"} \cup Busy, pc' = [pc EXCEPT ![q] = p],
         NEW o \in Outcome \cup {NoOutcome, Recovered}, outcome' = [outcome EXCEPT ![q] = o],
         NEW c \in Nat, reply' = [reply EXCEPT ![q] = c],
         p \in {"inside", "panicked", "returned"} => pc[q] \in {"inside", "panicked", "returned"},
         p \in {"panicked", "returned"} => Scoped(q),
         Sent(q) => RefusedFits(q)',
         OutcomeFits(q)', LogFits(q)'
  PROVE  IInv'
<1>1. pc'[q] = p
  BY DEF IInv, TypeOK
<1>2. Frame(q)
  BY DEF Frame, IInv, TypeOK
<1>3. RequestFits(q)'
  <2>1. /\ RequestFits(q)
        /\ input'[q] = input[q] /\ place'[q] = place[q] /\ scope'[q] = scope[q]
    BY DEF IInv
  <2>2. /\ Sent(q)' <=> Sent(q)
        /\ Scoped(q)' <=> Scoped(q)
        /\ WayFits(q)' <=> WayFits(q)
        /\ ScopeFits(q)' <=> ScopeFits(q)
    BY <2>1 DEF Sent, Scoped, WayFits, ScopeFits, Stages
  <2>3. p # "idle"
    BY DEF Busy
  <2> QED BY <1>1, <2>1, <2>2, <2>3 DEF RequestFits
<1>4. TypeOK'
  <2>1. pc' \in [Requests -> {"idle", "done", "lost"} \cup Busy]
    BY DEF IInv, TypeOK
  <2>2. outcome' \in [Requests -> Outcome \cup {NoOutcome, Recovered}]
    BY DEF IInv, TypeOK
  <2>3. reply' \in [Requests -> Nat]
    BY DEF IInv, TypeOK
  <2>4. log' \subseteq LogLines
    OBVIOUS
  <2> QED BY <2>1, <2>2, <2>3, <2>4 DEF IInv, TypeOK, LogLines
<1> QED BY <1>2, <1>3, <1>4, StepKeepsIInv

\* What a request may go by that is on its way out.
LEMMA OutFacts ==
  ASSUME IInv, NEW q \in Requests, pc[q] \in {"panicked", "returned", "erring", "answering"}
  PROVE  /\ outcome[q] \in Outcome \cup {Recovered} /\ reply[q] = 0
         /\ log \subseteq LogLines
         /\ scope[q] \in [id: Headers \cup Requests \cup {NoHeader}, user: Users \cup {Nobody}]
         /\ outcome = [outcome EXCEPT ![q] = outcome[q]] /\ reply = [reply EXCEPT ![q] = 0]
         /\ pc[q] \in Busy
         /\ RequestFits(q) /\ OutcomeFits(q) /\ LogFits(q) /\ (Sent(q) => RefusedFits(q))
<1>1. RequestFits(q) /\ TypeOK
  BY DEF IInv
<1>2. OutcomeFits(q) /\ LogFits(q) /\ (Sent(q) => RefusedFits(q))
  BY <1>1 DEF RequestFits
<1>3. outcome[q] \in Outcome \cup {Recovered} /\ reply[q] = 0
  BY <1>2 DEF OutcomeFits
<1> QED BY <1>1, <1>2, <1>3 DEF TypeOK, LogLines, Busy

\* The line of a panic and that of a failure have no scope.
LEMMA UnknownFacts ==
  /\ Unknown \in [id: Headers \cup Requests \cup {NoHeader}, user: Users \cup {Nobody}]
  /\ Unknown.id = NoHeader
BY DEF Unknown, Scope

LEMMA NoteKeepsIInv ==
  ASSUME IInv, NEW q \in Requests, Note(q)
  PROVE  IInv'
<1>1. pc[q] = "inside" /\ place[q] = Len(Stages(q)) /\ Scoped(q)
  BY HandlerScoped DEF Note
<1>2. PICK severity \in Notes[input[q].route] : Write(Noted(q, severity))
  BY DEF Note
<1>3. UNCHANGED <<meter, level, appEnv, scope, clock, boots, pc, input, place, times, boot,
                  outcome, refused, reply>>
  BY DEF Note, locals, settings
<1>4. severity \in {"info", "error"}
  BY <1>1, InsideFacts, PipelineAssumption
<1>5. /\ log \subseteq LogLines
      /\ scope[q] \in [id: Headers \cup Requests \cup {NoHeader}, user: Users \cup {Nobody}]
  BY DEF IInv, TypeOK, LogLines
<1>6. /\ log' \subseteq LogLines
      /\ \A r : r # q => Own(r)' = Own(r)
      /\ \A line \in Own(q)' : line \in Own(q) \/ line = Noted(q, severity)
  BY <1>2, <1>4, <1>5, WriteFacts DEF Noted
<1>7. /\ Noted(q, severity).kind = "note" /\ Noted(q, severity).id = scope[q].id
      /\ Noted(q, severity).user = scope[q].user
  BY DEF Noted, Line
<1>8. /\ outcome[q] = NoOutcome /\ reply[q] = 0 /\ Sent(q) /\ RequestFits(q)
      /\ OutcomeFits(q) /\ LogFits(q) /\ RefusedFits(q)
  BY <1>1, InsideFacts DEF IInv, RequestFits
<1>9. OutcomeFits(q)' /\ RefusedFits(q)'
  BY <1>3, <1>8 DEF OutcomeFits, RefusedFits, Failing, SentCode
<1>10. LogFits(q)'
  <2>1. Scoped(q)' /\ Sent(q)' /\ pc'[q] = "inside" /\ place'[q] = Len(Stages(q))'
    BY <1>1, <1>3, <1>8 DEF Scoped, Sent, Stages
  <2>2. ASSUME NEW line \in Own(q)' PROVE LineFits(q, line)'
    <3>1. line.kind \notin {"completed", "panic", "failed"}
      BY <1>1, <1>6, <1>7, <1>8 DEF LogFits, LineFits
    <3>2. line.kind = "note" => line.id = scope[q].id /\ line.user = scope[q].user
      BY <1>6, <1>7, <1>8 DEF LogFits, LineFits
    <3> QED BY <1>3, <2>1, <3>1, <3>2 DEF LineFits
  <2> QED BY <2>1, <2>2 DEF LogFits, AllTold
<1>11. /\ pc' = [pc EXCEPT ![q] = "inside"] /\ outcome' = [outcome EXCEPT ![q] = NoOutcome]
       /\ reply' = [reply EXCEPT ![q] = 0]
  BY <1>1, <1>3, <1>8 DEF IInv, TypeOK
<1>12. "inside" \in Busy /\ 0 \in Nat
  BY DEF Busy
<1> QED BY <1>1, <1>3, <1>6, <1>9, <1>10, <1>11, <1>12, WriterKeepsIInv

LEMMA RecoverKeepsIInv ==
  ASSUME IInv, NEW q \in Requests, Recover(q)
  PROVE  IInv'
<1>1. /\ pc[q] = "panicked" /\ Write(Panic(q))
      /\ outcome' = [outcome EXCEPT ![q] = Recovered]
      /\ pc' = [pc EXCEPT ![q] = "returned"]
      /\ UNCHANGED <<meter, level, appEnv, scope, clock, boots, input, place, times, boot,
                     refused, reply>>
  BY DEF Recover, locals, settings
<1>2. /\ reply[q] = 0 /\ log \subseteq LogLines /\ reply = [reply EXCEPT ![q] = 0]
      /\ pc[q] \in Busy /\ RequestFits(q) /\ OutcomeFits(q) /\ LogFits(q)
  BY <1>1, OutFacts
<1>3. outcome'[q] = Recovered /\ pc'[q] = "returned"
  BY <1>1 DEF IInv, TypeOK
<1>4. /\ log' \subseteq LogLines
      /\ \A r : r # q => Own(r)' = Own(r)
      /\ \A line \in Own(q)' : line \in Own(q) \/ line = Panic(q)
      /\ ~Sampled => Panic(q) \in Own(q)'
  BY <1>1, <1>2, UnknownFacts, WriteFacts DEF Panic, Emitted
<1>5. Panic(q).kind = "panic"
  BY DEF Panic, Line
<1>6. Scoped(q) /\ Sent(q)
  BY <1>1, <1>2 DEF RequestFits
<1>7. RefusedFits(q)'
  BY <1>3 DEF RefusedFits, Recovered
<1>8. OutcomeFits(q)'
  BY <1>1, <1>2, <1>3 DEF OutcomeFits, Recovered
<1>9. LogFits(q)'
  <2>1. Scoped(q)' /\ Sent(q)' /\ Panic(q)' = Panic(q)
    BY <1>1, <1>6 DEF Scoped, Sent, Panic
  <2>2. ASSUME NEW line \in Own(q)' PROVE LineFits(q, line)'
    <3>1. CASE line \in Own(q)
      <4>1. /\ line.kind \notin {"completed", "panic", "failed"}
            /\ line.kind = "note" => line.id = scope[q].id /\ line.user = scope[q].user
        BY <1>1, <1>2, <3>1 DEF LogFits, LineFits
      <4> QED BY <1>1, <2>1, <4>1 DEF LineFits
    <3>2. CASE line = Panic(q)
      BY <1>3, <1>5, <2>1, <3>2 DEF LineFits
    <3> QED BY <1>4, <3>1, <3>2
  <2>3. ~Sampled' => AllTold(q)'
    <3>1. ~Sampled' => Tells(q, {"failed", "panic"})'
      BY <1>1, <1>4, <1>5 DEF Tells, Sampled
    <3> QED BY <1>3, <3>1 DEF AllTold
  <2> QED BY <1>3, <2>2, <2>3 DEF LogFits
<1>10. "returned" \in Busy /\ 0 \in Nat
  BY DEF Busy
<1> QED BY <1>1, <1>2, <1>4, <1>6, <1>7, <1>8, <1>9, <1>10, WriterKeepsIInv

LEMMA CompleteKeepsIInv ==
  ASSUME IInv, NEW q \in Requests, Complete(q)
  PROVE  IInv'
<1> DEFINE p == IF Failing(q) THEN "erring" ELSE "answering"
<1>1. /\ pc[q] = "returned" /\ Write(Completed(q)) /\ pc' = [pc EXCEPT ![q] = p]
      /\ UNCHANGED <<meter, level, appEnv, scope, clock, boots, input, place, times, boot,
                     outcome, refused, reply>>
  BY DEF Complete, Unwind, Failing, locals, settings
<1>2. /\ outcome[q] \in Outcome \cup {Recovered} /\ reply[q] = 0 /\ log \subseteq LogLines
      /\ scope[q] \in [id: Headers \cup Requests \cup {NoHeader}, user: Users \cup {Nobody}]
      /\ outcome = [outcome EXCEPT ![q] = outcome[q]] /\ reply = [reply EXCEPT ![q] = 0]
      /\ pc[q] \in Busy /\ RequestFits(q) /\ OutcomeFits(q) /\ LogFits(q)
      /\ Sent(q) => RefusedFits(q)
  BY <1>1, OutFacts
<1>3. p \in {"erring", "answering"} /\ pc'[q] = p /\ p \in Busy
  BY <1>1 DEF IInv, TypeOK, Busy
<1>4. LoggedCode(outcome[q]) \in Nat
  BY <1>2, CodeFacts
<1>5. /\ log' \subseteq LogLines
      /\ \A r : r # q => Own(r)' = Own(r)
      /\ \A line \in Own(q)' : line \in Own(q) \/ line = Completed(q)
      /\ \A line \in Own(q) : line \in Own(q)'
      /\ Emitted("info") /\ ~Sampled => Completed(q) \in Own(q)'
  BY <1>1, <1>2, <1>4, WriteFacts DEF Completed
<1>6. /\ Completed(q).kind = "completed" /\ Completed(q).id = scope[q].id
      /\ Completed(q).user = scope[q].user
  BY DEF Completed, Line
<1>7. Scoped(q) /\ Sent(q)
  BY <1>1, <1>2 DEF RequestFits
<1>8. /\ Failing(q)' <=> Failing(q)
      /\ SentCode(outcome[q])' = SentCode(outcome[q])
      /\ Sampled' <=> Sampled
      /\ Emitted("info")' <=> Emitted("info")
  BY <1>1 DEF Failing, SentCode, Sampled, Emitted, LogLevel
<1>9. RefusedFits(q)' /\ OutcomeFits(q)'
  <2>1. outcome[q].kind # "panic"
    BY <1>1, <1>2 DEF OutcomeFits
  <2> QED BY <1>1, <1>2, <1>3, <1>7, <1>8, <2>1 DEF RefusedFits, OutcomeFits
<1>10. LogFits(q)'
  <2>1. /\ Scoped(q)' /\ Sent(q)'
        /\ Completed(q)' = Completed(q) /\ Panic(q)' = Panic(q)
    BY <1>1, <1>7 DEF Scoped, Sent, Completed, Panic, Line, LoggedCode
  <2>2. outcome[q] = Recovered => p = "answering"
    BY DEF Failing, Recovered
  <2>3. ASSUME NEW line \in Own(q)' PROVE LineFits(q, line)'
    <3>1. CASE line \in Own(q)
      <4>1. /\ line.kind \notin {"completed", "failed"}
            /\ line.kind = "note" => line.id = scope[q].id /\ line.user = scope[q].user
            /\ line.kind = "panic" => outcome[q] = Recovered /\ line = Panic(q)
        BY <1>1, <1>2, <3>1 DEF LogFits, LineFits
      <4> HIDE DEF p
      <4> QED BY <1>1, <1>3, <2>1, <2>2, <4>1 DEF LineFits
    <3>2. CASE line = Completed(q)
      <4> HIDE DEF p
      <4> QED BY <1>1, <1>3, <1>6, <2>1, <3>2 DEF LineFits
    <3> QED BY <1>5, <3>1, <3>2
  <2>4. ~Sampled' => AllTold(q)'
    <3>1. ~Sampled /\ Emitted("info") => Tells(q, {"completed"})'
      BY <1>5, <1>6 DEF Tells
    <3>2. ~Sampled /\ outcome[q] = Recovered => Tells(q, {"failed", "panic"})'
      <4>1. ~Sampled /\ outcome[q] = Recovered => Tells(q, {"failed", "panic"})
        BY <1>1, <1>2 DEF LogFits, AllTold
      <4> QED BY <1>5, <4>1 DEF Tells
    <3>3. pc'[q] = "answering" => ~Failing(q)
      BY <1>3
    <3> QED BY <1>1, <1>3, <1>8, <3>1, <3>2, <3>3 DEF AllTold
  <2> QED BY <1>3, <2>3, <2>4 DEF LogFits
<1> HIDE DEF p
<1> QED BY <1>1, <1>2, <1>3, <1>5, <1>9, <1>10, WriterKeepsIInv

LEMMA LogFailureKeepsIInv ==
  ASSUME IInv, NEW q \in Requests, LogFailure(q)
  PROVE  IInv'
<1>1. /\ pc[q] = "erring" /\ Write(Failed(q)) /\ pc' = [pc EXCEPT ![q] = "answering"]
      /\ UNCHANGED <<meter, level, appEnv, scope, clock, boots, input, place, times, boot,
                     outcome, refused, reply>>
  BY DEF LogFailure, locals, settings
<1>2. /\ outcome[q] \in Outcome \cup {Recovered} /\ reply[q] = 0 /\ log \subseteq LogLines
      /\ outcome = [outcome EXCEPT ![q] = outcome[q]] /\ reply = [reply EXCEPT ![q] = 0]
      /\ pc[q] \in Busy /\ RequestFits(q) /\ OutcomeFits(q) /\ LogFits(q)
      /\ Sent(q) => RefusedFits(q)
  BY <1>1, OutFacts
<1>3. pc'[q] = "answering" /\ "answering" \in Busy
  BY <1>1 DEF IInv, TypeOK, Busy
<1>4. SentCode(outcome[q]) \in Nat
  BY <1>2, CodeFacts
<1>5. /\ log' \subseteq LogLines
      /\ \A r : r # q => Own(r)' = Own(r)
      /\ \A line \in Own(q)' : line \in Own(q) \/ line = Failed(q)
      /\ \A line \in Own(q) : line \in Own(q)'
      /\ ~Sampled => Failed(q) \in Own(q)'
  BY <1>1, <1>2, <1>4, UnknownFacts, WriteFacts DEF Failed, Emitted
<1>6. Failed(q).kind = "failed"
  BY DEF Failed, Line
<1>7. Failing(q)
  BY <1>1, <1>2 DEF OutcomeFits
<1>8. /\ Failing(q)' <=> Failing(q)
      /\ SentCode(outcome[q])' = SentCode(outcome[q])
      /\ Sampled' <=> Sampled
      /\ Emitted("info")' <=> Emitted("info")
      /\ Sent(q)' <=> Sent(q)
      /\ Scoped(q)' <=> Scoped(q)
  BY <1>1 DEF Failing, SentCode, Sampled, Emitted, LogLevel, Sent, Scoped
<1>9. OutcomeFits(q)' /\ (Sent(q) => RefusedFits(q)')
  BY <1>1, <1>2, <1>3, <1>8 DEF RefusedFits, OutcomeFits
<1>10. LogFits(q)'
  <2>1. /\ Completed(q)' = Completed(q) /\ Panic(q)' = Panic(q) /\ Failed(q)' = Failed(q)
    BY <1>1 DEF Completed, Panic, Failed, Line, LoggedCode, SentCode
  <2>2. ASSUME NEW line \in Own(q)' PROVE LineFits(q, line)'
    <3>1. CASE line \in Own(q)
      <4>1. LineFits(q, line)
        BY <1>2, <3>1 DEF LogFits
      <4> QED BY <1>1, <1>3, <1>8, <2>1, <4>1 DEF LineFits
    <3>2. CASE line = Failed(q)
      BY <1>3, <1>6, <1>7, <1>8, <2>1, <3>2 DEF LineFits
    <3> QED BY <1>5, <3>1, <3>2
  <2>3. ~Sampled' => AllTold(q)'
    <3>1. ~Sampled /\ Sent(q) /\ Emitted("info") => Tells(q, {"completed"})'
      <4>1. ~Sampled /\ Sent(q) /\ Emitted("info") => Tells(q, {"completed"})
        BY <1>1, <1>2 DEF LogFits, AllTold
      <4> QED BY <1>5, <4>1 DEF Tells
    <3>2. ~Sampled => Tells(q, {"failed", "panic"})'
      BY <1>5, <1>6 DEF Tells
    <3> QED BY <1>8, <3>1, <3>2 DEF AllTold
  <2> QED BY <1>3, <2>2, <2>3 DEF LogFits
<1> QED BY <1>1, <1>2, <1>3, <1>5, <1>9, <1>10, WriterKeepsIInv

LEMMA RespondKeepsIInv ==
  ASSUME IInv, NEW q \in Requests, Respond(q)
  PROVE  IInv'
<1>1. /\ pc[q] = "answering" /\ pc' = [pc EXCEPT ![q] = "done"]
      /\ reply' = [reply EXCEPT ![q] = SentCode(outcome[q])]
      /\ UNCHANGED <<meter, log, level, appEnv, scope, clock, boots, input, place, times, boot,
                     outcome, refused>>
  BY DEF Respond, locals, settings
<1>2. /\ outcome[q] \in Outcome \cup {Recovered} /\ log \subseteq LogLines
      /\ outcome = [outcome EXCEPT ![q] = outcome[q]]
      /\ pc[q] \in Busy /\ RequestFits(q) /\ OutcomeFits(q) /\ LogFits(q)
      /\ Sent(q) => RefusedFits(q)
  BY <1>1, OutFacts
<1>3. pc'[q] = "done" /\ reply'[q] = SentCode(outcome[q]) /\ SentCode(outcome[q]) \in Nat
  BY <1>1, <1>2, CodeFacts DEF IInv, TypeOK
<1>4. \A r : Own(r)' = Own(r)
  BY <1>1 DEF Own
<1>5. /\ Failing(q)' <=> Failing(q)
      /\ SentCode(outcome[q])' = SentCode(outcome[q])
      /\ Sampled' <=> Sampled
      /\ Emitted("info")' <=> Emitted("info")
      /\ Sent(q)' <=> Sent(q)
      /\ Scoped(q)' <=> Scoped(q)
  BY <1>1 DEF Failing, SentCode, Sampled, Emitted, LogLevel, Sent, Scoped
<1>6. OutcomeFits(q)' /\ (Sent(q) => RefusedFits(q)')
  BY <1>1, <1>2, <1>3, <1>5 DEF RefusedFits, OutcomeFits
<1>7. LogFits(q)'
  <2>1. /\ Completed(q)' = Completed(q) /\ Panic(q)' = Panic(q) /\ Failed(q)' = Failed(q)
    BY <1>1 DEF Completed, Panic, Failed, Line, LoggedCode, SentCode
  <2>2. ASSUME NEW line \in Own(q)' PROVE LineFits(q, line)'
    <3>1. LineFits(q, line)
      BY <1>2, <1>4 DEF LogFits
    <3> QED BY <1>1, <1>3, <1>5, <2>1, <3>1 DEF LineFits
  <2>3. ~Sampled' => AllTold(q)'
    <3>1. \A kinds : Tells(q, kinds)' <=> Tells(q, kinds)
      BY <1>4 DEF Tells
    <3>2. ~Sampled => AllTold(q)
      BY <1>2 DEF LogFits
    <3> QED BY <1>1, <1>3, <1>5, <3>1, <3>2 DEF AllTold
  <2> QED BY <1>3, <2>2, <2>3 DEF LogFits
<1> QED BY <1>1, <1>2, <1>3, <1>4, <1>6, <1>7, WriterKeepsIInv

LEMMA TurnAwayKeepsIInv ==
  ASSUME IInv, NEW q \in Requests, TurnAway(q)
  PROVE  IInv'
<1>1. PICK code \in Unreadable :
        /\ Unwind(q, [kind |-> "fiber", code |-> code])
        /\ outcome' = [outcome EXCEPT ![q] = [kind |-> "fiber", code |-> code]]
  BY DEF TurnAway
<1>2. /\ pc[q] = "idle"
      /\ UNCHANGED <<meter, log, level, appEnv, scope, clock, boots, input, place, times, boot,
                     refused, reply>>
  BY DEF TurnAway, locals, settings
<1>3. PICK o : o = [kind |-> "fiber", code |-> code]
  OBVIOUS
<1>4. o \in Outcome /\ o.kind = "fiber"
  BY <1>3, PipelineAssumption DEF Outcome
<1>5. PICK p \in {"erring", "answering"} :
        /\ pc' = [pc EXCEPT ![q] = p]
        /\ p = "erring" <=> SentCode(o) >= 500
  BY <1>1, <1>3, <1>4 DEF Unwind
<1>6. outcome'[q] = o /\ pc'[q] = p
  BY <1>1, <1>3, <1>5 DEF IInv, TypeOK
<1>7. /\ RequestFits(q) /\ ~Sent(q) /\ Own(q) = {} /\ place[q] = 0 /\ reply[q] = 0
  BY <1>2 DEF IInv, RequestFits, OutcomeFits
<1>8. /\ ~Sent(q)' /\ Own(q)' = {} /\ place'[q] = 0 /\ reply'[q] = 0
  BY <1>2, <1>7 DEF Sent, Own
<1>9. Frame(q)
  BY <1>1, <1>2, <1>5 DEF Frame, Own, IInv, TypeOK
<1>10. RequestFits(q)'
  <2>1. o # Recovered /\ (p = "erring" <=> Failing(q)')
    BY <1>4, <1>5, <1>6 DEF Recovered, Failing
  <2>2. OutcomeFits(q)'
    BY <1>4, <1>6, <1>8, <2>1 DEF OutcomeFits
  <2>3. LogFits(q)'
    BY <1>6, <1>8, <2>1 DEF LogFits, AllTold
  <2> QED BY <1>6, <1>8, <2>2, <2>3 DEF RequestFits
<1>11. TypeOK'
  <2>1. pc' \in [Requests -> {"idle", "done", "lost"} \cup Busy]
    BY <1>5 DEF IInv, TypeOK, Busy
  <2>2. outcome' \in [Requests -> Outcome \cup {NoOutcome, Recovered}]
    BY <1>1, <1>3, <1>4 DEF IInv, TypeOK
  <2> QED BY <1>2, <2>1, <2>2 DEF IInv, TypeOK
<1> QED BY <1>9, <1>10, <1>11, StepKeepsIInv

LEMMA ReceiveKeepsIInv ==
  ASSUME IInv, NEW q \in Requests, Receive(q)
  PROVE  IInv'
<1>1. PICK route \in Traffic, user \in Tokens, header \in Headers \cup {NoHeader} :
        /\ input' = [input EXCEPT ![q] = [route |-> route, user |-> user, header |-> header]]
        /\ scope' = [scope EXCEPT ![q] = Scope(IF header = NoHeader THEN q ELSE header, Nobody)]
  BY DEF Receive
<1>2. /\ pc[q] = "idle" /\ pc' = [pc EXCEPT ![q] = "inside"]
      /\ boot' = [boot EXCEPT ![q] = boots]
      /\ UNCHANGED <<meter, log, level, appEnv, clock, boots, place, times, outcome, refused,
                     reply>>
  BY DEF Receive, settings
<1>3. route \in Routes /\ user \in Users \cup {Nobody}
  BY PipelineAssumption
<1>4. /\ input'[q] = [route |-> route, user |-> user, header |-> header]
      /\ input'[q] \in Inputs
      /\ scope'[q] = [id |-> IF header = NoHeader THEN q ELSE header, user |-> Nobody]
      /\ pc'[q] = "inside"
  BY <1>1, <1>2, <1>3 DEF IInv, TypeOK, Inputs, Scope
<1>5. TypeOK'
  <2>1. input' \in [Requests -> Inputs \cup {NoInput}]
    BY <1>1, <1>4 DEF IInv, TypeOK, Inputs
  <2>2. scope' \in [Requests -> [id: Headers \cup Requests \cup {NoHeader},
                                 user: Users \cup {Nobody}]]
    BY <1>1, <1>4 DEF IInv, TypeOK, Scope
  <2>3. pc' \in [Requests -> {"idle", "done", "lost"} \cup Busy]
    BY <1>2 DEF IInv, TypeOK, Busy
  <2>4. boot' \in [Requests -> 0 .. MaxRestarts]
    BY <1>2 DEF IInv, TypeOK
  <2> QED BY <1>2, <2>1, <2>2, <2>3, <2>4 DEF IInv, TypeOK, Inputs
<1>6. Frame(q)
  BY <1>1, <1>2 DEF Frame, Own, IInv, TypeOK
<1>7. RequestFits(q)'
  <2>1. /\ place'[q] = 0 /\ reply'[q] = 0 /\ Own(q)' = {} /\ outcome'[q] = NoOutcome
        /\ Sent(q)'
    <3>1. RequestFits(q)
      BY DEF IInv
    <3>2. place[q] = 0 /\ reply[q] = 0 /\ Own(q) = {} /\ outcome[q] = NoOutcome
      BY <1>2, <3>1 DEF RequestFits, OutcomeFits
    <3>3. input'[q] # NoInput
      BY <1>4, PipelineAssumption DEF Inputs
    <3> QED BY <1>2, <3>2, <3>3 DEF Own, Sent
  <2>2. WayFits(q)'
    <3>1. Len(Stages(q))' >= 0
      BY <1>3, <1>4, ChainFacts DEF Stages
    <3> QED BY <2>1, <3>1 DEF WayFits
  <2>3. ScopeFits(q)'
    BY <1>4, <2>1 DEF ScopeFits
  <2>4. RefusedFits(q)' /\ OutcomeFits(q)' /\ LogFits(q)'
    BY <1>4, <2>1 DEF RefusedFits, OutcomeFits, LogFits, AllTold, NoOutcome
  <2> QED BY <1>4, <2>1, <2>2, <2>3, <2>4 DEF RequestFits
<1> QED BY <1>5, <1>6, <1>7, StepKeepsIInv

\* The steps that concern no request but for losing some.
LEMMA OthersKeepIInv ==
  ASSUME IInv, UNCHANGED <<log, level, appEnv, scope, input, place, times, boot, outcome, refused,
                           reply>>,
         meter' \in [Limiters -> [Users -> Meters]],
         clock' \in 0 .. MaxClock, clock <= clock', boots' \in 0 .. MaxRestarts,
         pc' \in [Requests -> {"idle", "done", "lost"} \cup Busy],
         \A r \in Requests : pc'[r] = pc[r] \/ (pc[r] \in Busy /\ pc'[r] = "lost")
  PROVE  IInv'
<1>1. TypeOK'
  BY DEF IInv, TypeOK, Meters
<1>2. ASSUME NEW r \in Requests PROVE RequestFits(r)'
  <2>1. Own(r)' = Own(r)
    BY DEF Own
  <2> QED BY <2>1, RequestStays DEF IInv
<1> QED BY <1>1, <1>2 DEF IInv

LEMMA InitIInv == Init => IInv
<1> SUFFICES ASSUME Init PROVE IInv
  OBVIOUS
<1>1. TypeOK
  <2>1. /\ 0 \in 0 .. MaxClock /\ 0 \in 0 .. MaxRestarts /\ 0 \in 0 .. (MaxClock + Window)
        /\ << >> \in Seq(0 .. MaxClock) /\ 0 \in 0 .. 3
    BY PipelineAssumption
  <2>2. Unknown \in [id: Headers \cup Requests \cup {NoHeader}, user: Users \cup {Nobody}]
    BY UnknownFacts
  <2>3. meter \in [Limiters -> [Users -> Meters]]
    BY <2>1 DEF Init, Closed, Meters
  <2> QED BY <2>1, <2>2, <2>3 DEF Init, TypeOK, Meters
<1>2. ASSUME NEW r \in Requests PROVE RequestFits(r)
  <2>1. /\ pc[r] = "idle" /\ ~Sent(r) /\ place[r] = 0 /\ Own(r) = {}
        /\ outcome[r] = NoOutcome /\ reply[r] = 0
    BY DEF Init, Sent, Own
  <2> QED BY <2>1 DEF RequestFits, OutcomeFits, LogFits, AllTold
<1> QED BY <1>1, <1>2 DEF IInv

LEMMA NextKeepsIInv == IInv /\ [Next]_vars => IInv'
<1> SUFFICES ASSUME IInv, [Next]_vars PROVE IInv'
  OBVIOUS
<1>1. CASE UNCHANGED vars
  <2>1. UNCHANGED <<meter, log, level, appEnv, scope, clock, boots, pc, input, place, times,
                    boot, outcome, refused, reply>>
    BY <1>1 DEF vars, locals, settings
  <2>2. /\ meter \in [Limiters -> [Users -> Meters]]
        /\ clock \in 0 .. MaxClock /\ boots \in 0 .. MaxRestarts
        /\ pc \in [Requests -> {"idle", "done", "lost"} \cup Busy]
    BY DEF IInv, TypeOK, Meters
  <2>3. clock \in Nat
    BY <2>2, PipelineAssumption
  <2>4. clock <= clock'
    BY <2>1, <2>3
  <2> QED BY <2>1, <2>2, <2>4, OthersKeepIInv
<1>2. ASSUME NEW r \in Requests, Receive(r) \/ TurnAway(r) PROVE IInv'
  BY <1>2, ReceiveKeepsIInv, TurnAwayKeepsIInv
<1>3. ASSUME NEW r \in Requests, In(r) PROVE IInv'
  BY <1>3, ProtectKeepsIInv, RateLimitKeepsIInv, RequireRolesKeepsIInv, NoteKeepsIInv,
     HandleKeepsIInv DEF In
<1>4. ASSUME NEW r \in Requests, Out(r) PROVE IInv'
  BY <1>4, RecoverKeepsIInv, CompleteKeepsIInv, LogFailureKeepsIInv, RespondKeepsIInv DEF Out
<1>5. CASE Restart
  <2>1. /\ UNCHANGED <<log, level, appEnv, scope, clock, input, place, times, boot, outcome,
                       refused, reply>>
        /\ boots < MaxRestarts /\ boots' = boots + 1
        /\ meter' = [l \in Limiters |-> [u \in Users |-> Closed]]
        /\ pc' = [r \in Requests |-> IF pc[r] \in Busy THEN "lost" ELSE pc[r]]
    BY <1>5 DEF Restart, locals, settings
  <2>2. boots' \in 0 .. MaxRestarts /\ clock' \in 0 .. MaxClock /\ clock <= clock'
    BY <2>1, PipelineAssumption DEF IInv, TypeOK
  <2>3. meter' \in [Limiters -> [Users -> Meters]]
    BY <2>1, PipelineAssumption DEF Closed, Meters
  <2>4. /\ pc' \in [Requests -> {"idle", "done", "lost"} \cup Busy]
        /\ \A r \in Requests : pc'[r] = pc[r] \/ (pc[r] \in Busy /\ pc'[r] = "lost")
    BY <2>1 DEF IInv, TypeOK
  <2> QED BY <2>1, <2>2, <2>3, <2>4, OthersKeepIInv
<1>6. CASE Tick
  <2>1. /\ UNCHANGED <<meter, log, level, appEnv, scope, boots, pc, input, place, times, boot,
                       outcome, refused, reply>>
        /\ clock < MaxClock /\ clock' = clock + 1
    BY <1>6 DEF Tick, locals, settings
  <2>2. clock' \in 0 .. MaxClock /\ clock <= clock'
    BY <2>1, PipelineAssumption DEF IInv, TypeOK
  <2>3. /\ meter' \in [Limiters -> [Users -> Meters]] /\ boots' \in 0 .. MaxRestarts
        /\ pc' \in [Requests -> {"idle", "done", "lost"} \cup Busy]
    BY <2>1 DEF IInv, TypeOK, Meters
  <2> QED BY <2>1, <2>2, <2>3, OthersKeepIInv
<1> QED BY <1>1, <1>2, <1>3, <1>4, <1>5, <1>6 DEF Next

THEOREM Invariant == Spec => []IInv
BY InitIInv, NextKeepsIInv, PTL DEF Spec

-----------------------------------------------------------------------------
(* The theorems.                                                           *)

\* Every variable keeps its type: no request gets past the end of its chain,
\* and no window ends later than one Window after the clock's bound.
THEOREM TypeCorrect == Spec => []TypeOK
<1>1. IInv => TypeOK
  BY DEF IInv
<1> QED BY <1>1, Invariant, PTL

\* Whatever the traffic, only who may use a route reaches its handler, and only
\* who may not is answered 401 or 403.
THEOREM GuardedRoutes == Spec => []OnlyGranted
<1>1. ASSUME IInv, NEW r \in Requests, Sent(r)
      PROVE  /\ Admitted(r) /\ input[r].route \notin Public =>
                  input[r].user # Nobody /\ RoleOf[input[r].user] \in Granted(input[r].route)
             /\ reply[r] = 401 => input[r].route \in Public \/ input[r].user = Nobody
             /\ reply[r] = 403 =>
                  /\ input[r].user # Nobody
                  /\ RoleOf[input[r].user] \notin Granted(input[r].route)
  <2>1. /\ input[r] \in Inputs /\ WayFits(r) /\ RefusedFits(r)
        /\ reply[r] = 0 \/ reply[r] = outcome[r].code
        /\ place[r] \in 0 .. 3
    <3>1. RequestFits(r) /\ OutcomeFits(r)
      BY <1>1 DEF IInv, RequestFits
    <3>2. pc[r] = "done" => reply[r] = outcome[r].code
      BY <3>1, CodeFacts DEF OutcomeFits
    <3>3. pc[r] # "done" => reply[r] = 0
      BY <3>1 DEF OutcomeFits
    <3> QED BY <1>1, <3>1, <3>2, <3>3 DEF IInv, TypeOK, RequestFits
  <2>2. input[r].route \in Routes /\ input[r].user \in Users \cup {Nobody}
    BY <2>1 DEF Inputs
  <2>3. /\ reply[r] = 401 => input[r].route \in Public \/ input[r].user = Nobody
        /\ reply[r] = 403 =>
             /\ input[r].user # Nobody
             /\ RoleOf[input[r].user] \notin Granted(input[r].route)
    BY <2>1 DEF RefusedFits
  <2>4. ASSUME Admitted(r), input[r].route \notin Public
        PROVE  input[r].user # Nobody /\ RoleOf[input[r].user] \in Granted(input[r].route)
    <3>1. place[r] = Len(Stages(r)) /\ Len(Stages(r)) \in {2, 3}
      BY <2>2, <2>4, ChainFacts DEF Admitted, Stages
    <3>2. input[r].user # Nobody /\ input[r].user \in Users
      BY <2>1, <2>2, <3>1 DEF WayFits
    <3>3. RoleOf[input[r].user] \in Roles
      BY <3>2, PipelineAssumption
    <3>4. CASE input[r].route = "decide"
      <4>1. Len(Stages(r)) = 3 /\ Stages(r)[3] = "admins"
        BY <2>2, <3>4, ChainFacts DEF Stages
      <4>2. RoleOf[input[r].user] \in {"admin", "superadmin"}
        BY <2>1, <3>1, <4>1 DEF WayFits, Required
      <4> QED BY <3>2, <3>4, <4>2 DEF Granted
    <3>5. CASE input[r].route \in {"remove", "auditLogs"}
      <4>1. Len(Stages(r)) = 3 /\ Stages(r)[3] = "superadmins"
        BY <2>2, <3>5, ChainFacts DEF Stages
      <4>2. RoleOf[input[r].user] \in {"superadmin"}
        BY <2>1, <3>1, <4>1 DEF WayFits, Required
      <4> QED BY <3>2, <3>5, <4>2 DEF Granted
    <3>6. CASE input[r].route \notin {"decide", "remove", "auditLogs"}
      BY <3>2, <3>3, <3>6 DEF Granted
    <3> QED BY <3>4, <3>5, <3>6
  <2> QED BY <2>3, <2>4
<1>2. IInv => OnlyGranted
  BY <1>1 DEF OnlyGranted
<1> QED BY <1>2, Invariant, PTL

\* A set in which any two are equal.
LEMMA OneAtMost ==
  ASSUME NEW S, \A a, b \in S : a = b
  PROVE  Cardinality(S) <= 1
<1>1. CASE S = {}
  BY <1>1, FS_EmptySet
<1>2. CASE S # {}
  <2>1. PICK a \in S : S = {a}
    BY <1>2
  <2> QED BY <2>1, FS_Singleton
<1> QED BY <1>1, <1>2

\* What a request's lines say is what its client hears, whatever the level, the
\* mix of outcomes and panics, and wherever the process is lost; and without
\* sampling they are all there before the answer.
THEOREM LogIsTrue == Spec => []LogTrue
<1>1. ASSUME IInv, NEW r \in Requests
      PROVE  /\ Cardinality(LinesOf(r, {"completed"})) <= 1
             /\ Cardinality(Errings(r)) <= 1
             /\ \A line \in LinesOf(r, {"completed", "note"}) : Sent(r) /\ Named(line, r)
             /\ reply[r] # 0 =>
                  /\ \A line \in LinesOf(r, {"completed"}) : line.code = reply[r]
                  /\ reply[r] < 500 => Errings(r) = {}
                  /\ ~Sampled =>
                       /\ Sent(r) /\ Emitted("info") => LinesOf(r, {"completed"}) # {}
                       /\ reply[r] >= 500 => Errings(r) # {}
  <2>1. RequestFits(r) /\ OutcomeFits(r) /\ LogFits(r)
    BY <1>1 DEF IInv, RequestFits
  <2>2. \A line \in Own(r) : LineFits(r, line)
    BY <2>1 DEF LogFits
  <2>3. \A kinds : LinesOf(r, kinds) = {line \in Own(r) : line.kind \in kinds}
    BY DEF LinesOf, Own
  <2>4. \A line, other \in LinesOf(r, {"completed"}) : line = other
    BY <2>2, <2>3 DEF LineFits
  <2>5. \A line, other \in Errings(r) : line = other
    <3> SUFFICES ASSUME NEW line \in Errings(r), NEW other \in Errings(r) PROVE line = other
      OBVIOUS
    <3>1. /\ line \in Own(r) /\ line.kind \in {"failed", "panic"}
          /\ other \in Own(r) /\ other.kind \in {"failed", "panic"}
      BY <2>3 DEF Errings
    <3>2. LineFits(r, line) /\ LineFits(r, other)
      BY <2>2, <3>1
    <3>3. Failing(r) => outcome[r] # Recovered
      BY DEF Failing, Recovered
    <3> QED BY <3>1, <3>2, <3>3 DEF LineFits
  <2>6. ASSUME NEW line \in LinesOf(r, {"completed", "note"}) PROVE Sent(r) /\ Named(line, r)
    <3>1. LineFits(r, line) /\ line.kind \in {"completed", "note"}
      BY <2>2, <2>3, <2>6
    <3>2. Sent(r) /\ Scoped(r) /\ line.id = scope[r].id /\ line.user = scope[r].user
      BY <3>1 DEF LineFits
    <3>3. /\ scope[r].user = IF place[r] = 0 THEN Nobody ELSE input[r].user
          /\ WayFits(r) /\ input[r] \in Inputs /\ place[r] \in 0 .. 3
      BY <1>1, <2>1, <3>2 DEF IInv, TypeOK, RequestFits, ScopeFits
    <3>4. input[r].route \in Public => place[r] = 0
      BY <3>3, ChainFacts DEF WayFits, Stages, Inputs
    <3> QED BY <3>2, <3>3, <3>4 DEF Named, Scoped
  <2>7. ASSUME reply[r] # 0
        PROVE  /\ \A line \in LinesOf(r, {"completed"}) : line.code = reply[r]
               /\ reply[r] < 500 => Errings(r) = {}
               /\ ~Sampled =>
                    /\ Sent(r) /\ Emitted("info") => LinesOf(r, {"completed"}) # {}
                    /\ reply[r] >= 500 => Errings(r) # {}
    <3>1. /\ pc[r] = "done" /\ reply[r] = SentCode(outcome[r])
          /\ outcome[r] \in Outcome \cup {Recovered}
      BY <2>1, <2>7 DEF OutcomeFits
    <3>2. /\ SentCode(outcome[r]) \in Nat
          /\ LoggedCode(outcome[r]) = SentCode(outcome[r])
          /\ outcome[r].kind = "ok" /\ outcome[r] # Recovered => SentCode(outcome[r]) < 500
          /\ outcome[r] = Recovered => SentCode(outcome[r]) = 500
      BY <3>1, CodeFacts
    <3>3. ASSUME NEW line \in LinesOf(r, {"completed"}) PROVE line.code = reply[r]
      <4>1. line = Completed(r)
        BY <2>2, <2>3, <3>3 DEF LineFits
      <4> QED BY <3>1, <3>2, <4>1 DEF Completed, Line
    <3>4. ASSUME NEW line \in Errings(r) PROVE reply[r] >= 500
      <4>1. LineFits(r, line) /\ line.kind \in {"failed", "panic"}
        BY <2>2, <2>3, <3>4 DEF Errings
      <4>2. Failing(r) \/ outcome[r] = Recovered
        BY <4>1 DEF LineFits
      <4> QED BY <3>1, <3>2, <4>2 DEF Failing
    <3>5. ASSUME ~Sampled, Sent(r), Emitted("info") PROVE LinesOf(r, {"completed"}) # {}
      BY <2>1, <2>3, <3>1, <3>5 DEF LogFits, AllTold, Tells
    <3>6. ASSUME ~Sampled, reply[r] >= 500 PROVE Errings(r) # {}
      <4>1. Failing(r) \/ outcome[r] = Recovered
        BY <3>1, <3>2, <3>6 DEF Failing
      <4>2. Tells(r, {"failed", "panic"})
        BY <2>1, <3>1, <3>6, <4>1 DEF LogFits, AllTold
      <4> QED BY <2>3, <4>2 DEF Tells, Errings
    <3>7. reply[r] < 500 => ~(reply[r] >= 500)
      BY <3>1, <3>2
    <3> QED BY <3>3, <3>4, <3>5, <3>6, <3>7
  <2> QED BY <2>4, <2>5, <2>6, <2>7, OneAtMost
<1>2. ASSUME IInv, NEW line \in log, line.id \notin Headers \cup {NoHeader}
      PROVE  line.id = line.request
  <2>1. line.request \in Requests /\ line \in LogLines
    BY <1>2 DEF IInv, TypeOK, LogLines
  <2>2. PICK r \in Requests : r = line.request
    BY <2>1
  <2>3. RequestFits(r) /\ LineFits(r, line)
    BY <1>2, <2>2 DEF IInv, RequestFits, LogFits, Own
  <2>4. line.kind \in {"completed", "note"}
    <3>1. Panic(r).id = NoHeader /\ Failed(r).id = NoHeader
      BY UnknownFacts DEF Panic, Failed, Line
    <3>2. line.kind \in {"completed", "note", "failed", "panic"}
      BY <2>1 DEF LogLines
    <3> QED BY <1>2, <2>3, <3>1, <3>2 DEF LineFits
  <2>5. Sent(r) /\ line.id = scope[r].id
    BY <2>3, <2>4 DEF LineFits
  <2>6. /\ scope[r].id = IF input[r].header = NoHeader THEN r ELSE input[r].header
        /\ input[r].header \in Headers \cup {NoHeader}
    BY <2>3, <2>5 DEF RequestFits, ScopeFits, Inputs
  <2> QED BY <1>2, <2>2, <2>5, <2>6
<1>3. IInv => LogTrue
  BY <1>1, <1>2 DEF LogTrue
<1> QED BY <1>3, Invariant, PTL

-----------------------------------------------------------------------------
(* The limiters.  What a limiter has let through of one user in one life   *)
(* of the process is a function from those requests to the times they      *)
(* passed it, and these times lie in windows that do not overlap.          *)

LimitedRoutes == [general |-> Protected, create |-> Posts]

\* The limiter is the first or the second one that a request meets.
Turn == [general |-> 1, create |-> 2]

Counted(r, l, u, b) ==
  /\ Sent(r) /\ boot[r] = b
  /\ input[r].user = u /\ input[r].route \in LimitedRoutes[l]
  /\ Len(times[r]) >= Turn[l]

Passes(l, u, b) == [r \in {q \in Requests : Counted(q, l, u, b)} |-> times[r][Turn[l]]]

\* One request more, at time c.
With(f, r, c) == [q \in DOMAIN f \cup {r} |-> IF q = r THEN c ELSE f[q]]

Within(f, s) == {r \in DOMAIN f : s <= f[r] /\ f[r] < s + Window}

\* The last Window before t, t included.
Span(f, t) == {r \in DOMAIN f : f[r] <= t /\ f[r] + Window > t}

Timed(f) == IsFiniteSet(DOMAIN f) /\ \A r \in DOMAIN f : f[r] \in Nat

\* S are the times at which windows were opened: each by a request that passed.
Windows(f, S, max) ==
  /\ Timed(f)
  /\ S \subseteq Nat
  /\ \A s, o \in S : s # o => s + Window <= o \/ o + Window <= s
  /\ \A r \in DOMAIN f : \E s \in S : r \in Within(f, s)
  /\ \A s \in S : /\ \E r \in DOMAIN f : f[r] = s
                  /\ Cardinality(Within(f, s)) <= max

-----------------------------------------------------------------------------
(* Windows.                                                                *)

LEMMA PartFinite ==
  ASSUME NEW f, IsFiniteSet(DOMAIN f)
  PROVE  /\ \A s : IsFiniteSet(Within(f, s)) /\ Cardinality(Within(f, s)) \in Nat
         /\ \A t : IsFiniteSet(Span(f, t)) /\ Cardinality(Span(f, t)) \in Nat
<1>1. ASSUME NEW P \in SUBSET DOMAIN f PROVE IsFiniteSet(P) /\ Cardinality(P) \in Nat
  BY FS_Subset, FS_CardinalityType
<1>2. /\ \A s : Within(f, s) \in SUBSET DOMAIN f
      /\ \A t : Span(f, t) \in SUBSET DOMAIN f
  BY DEF Within, Span
<1> QED BY <1>1, <1>2

\* A span of one Window meets at most two windows, and misses the request that
\* opened the first of them.
LEMMA SpanBound ==
  ASSUME NEW f, NEW S, NEW max \in Nat \ {0}, Windows(f, S, max), NEW t \in Nat
  PROVE  Cardinality(Span(f, t)) <= 2 * max - 1
<1>1. Window \in Nat \ {0}
  BY PipelineAssumption
<1>2. \A s : IsFiniteSet(Within(f, s)) /\ Cardinality(Within(f, s)) \in Nat
  BY PartFinite DEF Windows, Timed
<1>3. Span(f, t) \subseteq DOMAIN f /\ \A r \in DOMAIN f : f[r] \in Nat
  BY DEF Span, Windows, Timed
<1>4. CASE Span(f, t) = {}
  BY <1>4, FS_EmptySet
<1>5. CASE \E s \in S : Span(f, t) \subseteq Within(f, s)
  <2>1. PICK s \in S : Span(f, t) \subseteq Within(f, s)
    BY <1>5
  <2>2. Cardinality(Span(f, t)) <= Cardinality(Within(f, s))
    BY <1>2, <2>1, FS_Subset
  <2>3. Cardinality(Within(f, s)) <= max /\ Cardinality(Span(f, t)) \in Nat
    BY <2>1, PartFinite DEF Windows, Timed
  <2> QED BY <1>2, <2>2, <2>3
<1>6. CASE Span(f, t) # {} /\ \A s \in S : ~(Span(f, t) \subseteq Within(f, s))
  <2>1. PICK p \in Span(f, t) : TRUE
    BY <1>6
  <2>2. PICK s1 \in S : p \in Within(f, s1)
    BY <1>3, <2>1 DEF Windows
  <2>3. PICK q \in Span(f, t) : q \notin Within(f, s1)
    BY <1>6
  <2>4. PICK s2 \in S : q \in Within(f, s2)
    BY <1>3, <2>3 DEF Windows
  <2>5. PICK a \in {s1, s2}, b \in {s1, s2} : a # b /\ a + Window <= b
    <3>1. s1 + Window <= s2 \/ s2 + Window <= s1
      BY <2>3, <2>4 DEF Windows
    <3>2. s1 # s2
      BY <2>3, <2>4
    <3> QED BY <3>1, <3>2
  <2>6. a \in S /\ b \in S /\ a \in Nat /\ b \in Nat
    BY DEF Windows
  <2>7. \A s \in S : \A r \in Span(f, t) :
          r \in Within(f, s) => s <= t /\ s + 2 * Window > t
    BY <1>1, <1>3 DEF Span, Within, Windows
  <2>8. b <= t /\ a + 2 * Window > t
    BY <2>1, <2>2, <2>3, <2>4, <2>7
  <2>9. Span(f, t) \subseteq Within(f, a) \cup Within(f, b)
    <3> SUFFICES ASSUME NEW r \in Span(f, t)
                 PROVE  r \in Within(f, a) \/ r \in Within(f, b)
      OBVIOUS
    <3>1. PICK s \in S : r \in Within(f, s)
      BY <1>3 DEF Windows
    <3>2. s <= t /\ s + 2 * Window > t /\ s \in Nat
      BY <2>7, <3>1 DEF Windows
    <3>3. /\ s # a => s + Window <= a \/ a + Window <= s
          /\ s # b => s + Window <= b \/ b + Window <= s
      BY <2>6 DEF Windows
    <3>4. s = a \/ s = b
      BY <1>1, <2>5, <2>6, <2>8, <3>2, <3>3
    <3> QED BY <3>1, <3>4
  <2>10. PICK o \in DOMAIN f : f[o] = a
    BY <2>6 DEF Windows
  <2>11. o \in Within(f, a) /\ o \notin Span(f, t)
    BY <1>1, <2>5, <2>6, <2>8, <2>10 DEF Within, Span
  <2>12. PICK A : A = Within(f, a) \ {o}
    OBVIOUS
  <2>13. IsFiniteSet(A) /\ Cardinality(A) = Cardinality(Within(f, a)) - 1
    BY <1>2, <2>11, <2>12, FS_RemoveElement
  <2>14. Span(f, t) \subseteq A \cup Within(f, b)
    BY <2>9, <2>11, <2>12
  <2>15. /\ IsFiniteSet(A \cup Within(f, b))
         /\ Cardinality(A \cup Within(f, b)) <= Cardinality(A) + Cardinality(Within(f, b))
    <3>1. Cardinality(A \cup Within(f, b))
            = Cardinality(A) + Cardinality(Within(f, b)) - Cardinality(A \cap Within(f, b))
      BY <1>2, <2>13, FS_Union
    <3>2. IsFiniteSet(A \cup Within(f, b))
      BY <1>2, <2>13, FS_Union
    <3>3. A \cap Within(f, b) \in SUBSET A
      OBVIOUS
    <3>4. Cardinality(A \cap Within(f, b)) \in Nat
      BY <2>13, <3>3, FS_Subset, FS_CardinalityType
    <3>5. Cardinality(A) \in Nat /\ Cardinality(Within(f, b)) \in Nat
      BY <1>2, <2>13, FS_CardinalityType
    <3> QED BY <3>1, <3>2, <3>4, <3>5
  <2>16. Cardinality(Span(f, t)) <= Cardinality(A \cup Within(f, b))
    BY <2>14, <2>15, FS_Subset
  <2>17. /\ Cardinality(Within(f, a)) <= max /\ Cardinality(Within(f, b)) <= max
         /\ Cardinality(Within(f, a)) \in Nat /\ Cardinality(Within(f, b)) \in Nat
    BY <1>2, <2>6 DEF Windows
  <2>18. Cardinality(A \cup Within(f, b)) \in Nat /\ Cardinality(Span(f, t)) \in Nat
    BY <2>15, FS_CardinalityType, PartFinite DEF Windows, Timed
  <2> QED BY <2>13, <2>15, <2>16, <2>17, <2>18
<1> QED BY <1>4, <1>5, <1>6

\* g is f with one request more.
Extends(g, f, r, c) ==
  /\ DOMAIN g = DOMAIN f \cup {r} /\ g[r] = c
  /\ \A q \in DOMAIN f : g[q] = f[q]
  /\ Timed(g)
  /\ \A s : s <= c /\ c < s + Window => Within(g, s) = Within(f, s) \cup {r}
  /\ \A s : ~(s <= c /\ c < s + Window) => Within(g, s) = Within(f, s)

LEMMA WithFacts ==
  ASSUME NEW f, Timed(f), NEW r, r \notin DOMAIN f, NEW c \in Nat
  PROVE  Extends(With(f, r, c), f, r, c)
<1> DEFINE g == With(f, r, c)
<1>1. /\ DOMAIN g = DOMAIN f \cup {r} /\ g[r] = c
      /\ \A q \in DOMAIN f : g[q] = f[q]
  BY DEF With
<1>2. Timed(g)
  <2>1. IsFiniteSet(DOMAIN f \cup {r})
    BY FS_AddElement DEF Timed
  <2> QED BY <1>1, <2>1 DEF Timed
<1>3. ASSUME NEW s, s <= c /\ c < s + Window PROVE Within(g, s) = Within(f, s) \cup {r}
  BY <1>1, <1>3 DEF Within
<1>4. ASSUME NEW s, ~(s <= c /\ c < s + Window) PROVE Within(g, s) = Within(f, s)
  BY <1>1, <1>4 DEF Within
<1> QED BY <1>1, <1>2, <1>3, <1>4 DEF Extends

\* A request after the end of every window opens one of its own.
LEMMA WindowOpens ==
  ASSUME NEW f, NEW S, NEW max \in Nat \ {0}, Windows(f, S, max),
         NEW r, r \notin DOMAIN f, NEW c \in Nat, \A s \in S : s + Window <= c
  PROVE  /\ Windows(With(f, r, c), S \cup {c}, max)
         /\ Cardinality(Within(With(f, r, c), c)) = 1
<1>1. Window \in Nat \ {0}
  BY PipelineAssumption
<1>2. /\ IsFiniteSet(DOMAIN f) /\ \A q \in DOMAIN f : f[q] \in Nat
      /\ Timed(f) /\ S \subseteq Nat
  BY DEF Windows, Timed
<1>3. PICK g : g = With(f, r, c)
  OBVIOUS
<1>4. /\ DOMAIN g = DOMAIN f \cup {r} /\ g[r] = c
      /\ \A q \in DOMAIN f : g[q] = f[q]
      /\ Timed(g)
      /\ \A o : o <= c /\ c < o + Window => Within(g, o) = Within(f, o) \cup {r}
      /\ \A o : ~(o <= c /\ c < o + Window) => Within(g, o) = Within(f, o)
  <2>1. Extends(With(f, r, c), f, r, c)
    BY <1>2, WithFacts
  <2> QED BY <1>3, <2>1 DEF Extends
<1>5. Within(f, c) = {}
  <2> SUFFICES ASSUME NEW q \in Within(f, c) PROVE FALSE
    OBVIOUS
  <2>1. q \in DOMAIN f /\ c <= f[q] /\ f[q] \in Nat
    BY <1>2 DEF Within
  <2>2. PICK s \in S : q \in Within(f, s)
    BY <2>1 DEF Windows
  <2>3. f[q] < s + Window /\ s + Window <= c /\ s \in Nat
    BY <1>2, <2>2 DEF Within
  <2> QED BY <1>1, <2>1, <2>3
<1>6. Within(g, c) = {r} /\ Cardinality(Within(g, c)) = 1
  <2>1. Within(g, c) = Within(f, c) \cup {r}
    BY <1>1, <1>4
  <2> QED BY <1>5, <2>1, FS_Singleton
<1>7. \A s \in S : Within(g, s) = Within(f, s)
  BY <1>1, <1>2, <1>4
<1>8. \A s, o \in S \cup {c} : s # o => s + Window <= o \/ o + Window <= s
  BY DEF Windows
<1>9. \A q \in DOMAIN g : \E s \in S \cup {c} : q \in Within(g, s)
  <2> SUFFICES ASSUME NEW q \in DOMAIN g PROVE \E s \in S \cup {c} : q \in Within(g, s)
    OBVIOUS
  <2>1. CASE q = r
    BY <1>6, <2>1
  <2>2. CASE q \in DOMAIN f
    BY <1>7, <2>2 DEF Windows
  <2> QED BY <1>4, <2>1, <2>2
<1>10. \A s \in S \cup {c} : /\ \E q \in DOMAIN g : g[q] = s
                             /\ Cardinality(Within(g, s)) <= max
  <2> SUFFICES ASSUME NEW s \in S \cup {c}
               PROVE  (\E q \in DOMAIN g : g[q] = s) /\ Cardinality(Within(g, s)) <= max
    OBVIOUS
  <2>1. CASE s = c
    BY <1>4, <1>6, <2>1
  <2>2. CASE s \in S
    <3>1. PICK q \in DOMAIN f : f[q] = s
      BY <2>2 DEF Windows
    <3>2. Cardinality(Within(f, s)) <= max
      BY <2>2 DEF Windows
    <3> QED BY <1>4, <1>7, <2>2, <3>1, <3>2
  <2> QED BY <2>1, <2>2
<1>11. S \cup {c} \subseteq Nat
  BY <1>2
<1> QED BY <1>3, <1>4, <1>6, <1>8, <1>9, <1>10, <1>11 DEF Windows

\* A request in an open window that is not full counts into it.
LEMMA WindowCounts ==
  ASSUME NEW f, NEW S, NEW max \in Nat \ {0}, Windows(f, S, max),
         NEW r, r \notin DOMAIN f, NEW c \in Nat,
         NEW s \in S, s <= c, c < s + Window, Cardinality(Within(f, s)) < max
  PROVE  /\ Windows(With(f, r, c), S, max)
         /\ Cardinality(Within(With(f, r, c), s)) = Cardinality(Within(f, s)) + 1
<1>1. Window \in Nat \ {0}
  BY PipelineAssumption
<1>2. /\ IsFiniteSet(DOMAIN f) /\ \A q \in DOMAIN f : f[q] \in Nat
      /\ Timed(f) /\ S \subseteq Nat
  BY DEF Windows, Timed
<1>3. PICK g : g = With(f, r, c)
  OBVIOUS
<1>4. /\ DOMAIN g = DOMAIN f \cup {r} /\ g[r] = c
      /\ \A q \in DOMAIN f : g[q] = f[q]
      /\ Timed(g)
      /\ \A o : o <= c /\ c < o + Window => Within(g, o) = Within(f, o) \cup {r}
      /\ \A o : ~(o <= c /\ c < o + Window) => Within(g, o) = Within(f, o)
  <2>1. Extends(With(f, r, c), f, r, c)
    BY <1>2, WithFacts
  <2> QED BY <1>3, <2>1 DEF Extends
<1>5. IsFiniteSet(Within(f, s)) /\ Cardinality(Within(f, s)) \in Nat /\ r \notin Within(f, s)
  BY <1>2, PartFinite DEF Within
<1>6. /\ Within(g, s) = Within(f, s) \cup {r}
      /\ Cardinality(Within(g, s)) = Cardinality(Within(f, s)) + 1
  <2>1. Within(g, s) = Within(f, s) \cup {r}
    BY <1>4
  <2> QED BY <1>5, <2>1, FS_AddElement
<1>7. \A o \in S : o # s => Within(g, o) = Within(f, o)
  <2> SUFFICES ASSUME NEW o \in S, o # s PROVE Within(g, o) = Within(f, o)
    OBVIOUS
  <2>1. o + Window <= s \/ s + Window <= o
    BY DEF Windows
  <2>2. ~(o <= c /\ c < o + Window)
    BY <1>1, <1>2, <2>1
  <2> QED BY <1>4, <2>2
<1>8. \A q \in DOMAIN g : \E o \in S : q \in Within(g, o)
  <2> SUFFICES ASSUME NEW q \in DOMAIN g PROVE \E o \in S : q \in Within(g, o)
    OBVIOUS
  <2>1. CASE q = r
    BY <1>6, <2>1
  <2>2. CASE q \in DOMAIN f
    BY <1>6, <1>7, <2>2 DEF Windows
  <2> QED BY <1>4, <2>1, <2>2
<1>9. \A o \in S : /\ \E q \in DOMAIN g : g[q] = o
                   /\ Cardinality(Within(g, o)) <= max
  <2> SUFFICES ASSUME NEW o \in S
               PROVE  (\E q \in DOMAIN g : g[q] = o) /\ Cardinality(Within(g, o)) <= max
    OBVIOUS
  <2>1. PICK q \in DOMAIN f : f[q] = o
    BY DEF Windows
  <2>2. Cardinality(Within(f, o)) <= max
    BY DEF Windows
  <2>3. CASE o = s
    <3>1. Cardinality(Within(g, s)) <= max
      BY <1>5, <1>6
    <3> QED BY <1>4, <2>1, <2>3, <3>1
  <2>4. CASE o # s
    BY <1>4, <1>7, <2>1, <2>2, <2>4
  <2> QED BY <2>3, <2>4
<1> QED BY <1>2, <1>3, <1>4, <1>6, <1>8, <1>9 DEF Windows

\* The window that a meter w counts in is the last one.  It let through what it
\* counted, up to its limit.
Counts(w, f, S, max) ==
  \/ w.hits = 0 /\ w.exp = 0 /\ S = {}
  \/ /\ w.hits >= 1
     /\ \A s \in S : s + Window <= w.exp
     /\ \E s \in S :
          /\ w.exp = s + Window
          /\ Cardinality(Within(f, s)) = IF w.hits <= max THEN w.hits ELSE max

\* A hit that the limiter lets through.
LEMMA MeterPasses ==
  ASSUME NEW f, NEW S, NEW max \in Nat \ {0}, Windows(f, S, max),
         NEW w \in Meters, Counts(w, f, S, max), clock \in Nat,
         NEW r, r \notin DOMAIN f, \A q \in DOMAIN f : f[q] <= clock,
         Bump(w).hits <= max
  PROVE  \E T \in SUBSET Nat : /\ Windows(With(f, r, clock), T, max)
                               /\ Counts(Bump(w), With(f, r, clock), T, max)
<1>1. Window \in Nat \ {0} /\ MaxClock \in Nat
  BY PipelineAssumption
<1>2. w.hits \in Nat /\ w.exp \in Nat /\ S \subseteq Nat
  BY <1>1 DEF Meters, Windows
<1>3. CASE clock >= w.exp
  <2>1. Bump(w).hits = 1 /\ Bump(w).exp = clock + Window
    BY <1>3 DEF Bump, WindowEnd
  <2>2. \A s \in S : s + Window <= clock
    BY <1>1, <1>2, <1>3 DEF Counts
  <2>3. /\ Windows(With(f, r, clock), S \cup {clock}, max)
        /\ Cardinality(Within(With(f, r, clock), clock)) = 1
    BY <2>2, WindowOpens
  <2>4. \A s \in S \cup {clock} : s + Window <= clock + Window
    BY <1>1, <1>2, <2>2
  <2>5. Counts(Bump(w), With(f, r, clock), S \cup {clock}, max)
    BY <2>1, <2>3, <2>4 DEF Counts
  <2>6. S \cup {clock} \in SUBSET Nat
    BY <1>2
  <2> QED BY <2>3, <2>5, <2>6
<1>4. CASE clock < w.exp
  <2>1. Bump(w).hits = w.hits + 1 /\ Bump(w).exp = w.exp /\ w.hits < max
    <3>1. Bump(w).hits = w.hits + 1 /\ Bump(w).exp = w.exp
      BY <1>2, <1>4 DEF Bump
    <3> QED BY <1>2, <3>1
  <2>2. PICK s \in S : w.exp = s + Window /\ Cardinality(Within(f, s)) = w.hits
    BY <1>2, <1>4, <2>1 DEF Counts
  <2>3. PICK o \in DOMAIN f : f[o] = s
    BY DEF Windows
  <2>4. s <= clock /\ clock < s + Window
    BY <1>4, <2>2, <2>3
  <2>5. /\ Windows(With(f, r, clock), S, max)
        /\ Cardinality(Within(With(f, r, clock), s)) = w.hits + 1
    BY <2>1, <2>2, <2>4, WindowCounts
  <2>6. \A o2 \in S : o2 + Window <= w.exp
    BY <1>2, <1>4 DEF Counts
  <2>7. Counts(Bump(w), With(f, r, clock), S, max)
    <3>1. Bump(w).hits >= 1
      BY <1>2, <2>1
    <3> QED BY <2>1, <2>2, <2>5, <2>6, <3>1 DEF Counts
  <2> QED BY <1>2, <2>5, <2>7
<1> QED BY <1>2, <1>3, <1>4

\* A hit that the limiter refuses, for a window that is full.
LEMMA MeterRefuses ==
  ASSUME NEW f, NEW S, NEW max \in Nat \ {0}, Windows(f, S, max),
         NEW w \in Meters, Counts(w, f, S, max), clock \in Nat,
         \A q \in DOMAIN f : f[q] <= clock, Bump(w).hits > max
  PROVE  /\ Counts(Bump(w), f, S, max)
         /\ Cardinality(Span(f, clock)) >= max
<1>1. Window \in Nat \ {0} /\ MaxClock \in Nat
  BY PipelineAssumption
<1>2. w.hits \in Nat /\ w.exp \in Nat /\ S \subseteq Nat
  BY <1>1 DEF Meters, Windows
<1>3. /\ clock < w.exp /\ w.hits >= max /\ w.hits >= 1
      /\ Bump(w).hits = w.hits + 1 /\ Bump(w).exp = w.exp
  <2>1. CASE clock >= w.exp
    <3>1. Bump(w).hits = 1
      BY <2>1 DEF Bump
    <3> QED BY <3>1
  <2>2. CASE clock < w.exp
    <3>1. Bump(w).hits = w.hits + 1 /\ Bump(w).exp = w.exp
      BY <1>2, <2>2 DEF Bump
    <3> QED BY <1>2, <2>2, <3>1
  <2> QED BY <1>2, <2>1, <2>2
<1>4. PICK s \in S : w.exp = s + Window /\ Cardinality(Within(f, s)) = max
  BY <1>2, <1>3 DEF Counts
<1>5. Counts(Bump(w), f, S, max)
  <2>1. \A o \in S : o + Window <= w.exp
    BY <1>2, <1>3 DEF Counts
  <2>2. Bump(w).hits >= 1 /\ ~(Bump(w).hits <= max)
    BY <1>2, <1>3
  <2> QED BY <1>3, <1>4, <2>1, <2>2 DEF Counts
<1>6. Within(f, s) \subseteq Span(f, clock)
  BY <1>1, <1>2, <1>3, <1>4 DEF Within, Span, Windows, Timed
<1>7. Cardinality(Within(f, s)) <= Cardinality(Span(f, clock))
  <2>1. IsFiniteSet(Span(f, clock))
    BY PartFinite DEF Windows, Timed
  <2> QED BY <1>6, <2>1, FS_Subset
<1>8. Cardinality(Span(f, clock)) \in Nat
  BY PartFinite DEF Windows, Timed
<1> QED BY <1>4, <1>5, <1>7, <1>8

-----------------------------------------------------------------------------
(* What the limiters have counted.                                         *)

\* How many limiters are behind a request.
Limited(r) ==
  IF place[r] <= 1 THEN 0
  ELSE IF place[r] = 3 /\ input[r].route \in Posts THEN 2 ELSE 1

TimesFit(r) ==
  /\ ~Sent(r) => times[r] = << >>
  /\ Sent(r) => Len(times[r]) = Limited(r)
  /\ \A i \in 1 .. Len(times[r]) : times[r][i] <= clock
  /\ boot[r] <= boots /\ (pc[r] = "inside" => boot[r] = boots)

LimiterFits(l, u, b) ==
  \E S \in SUBSET Nat : /\ Windows(Passes(l, u, b), S, Limit[l])
                        /\ b = boots => Counts(meter[l][u], Passes(l, u, b), S, Limit[l])

Full(l, u, b, t) == Cardinality(Span(Passes(l, u, b), t)) >= Limit[l]

\* The limiter that refused a request had let through its limit.
RefusalFits(r) ==
  outcome[r].code = 429 =>
    \E l \in Limiters, u \in Users, b \in Nat, t \in Nat :
      /\ input[r].user = u /\ boot[r] = b /\ refused[r] = t
      /\ input[r].route \in LimitedRoutes[l]
      /\ Full(l, u, b, t)

LimitersInv ==
  /\ IInv
  /\ \A r \in Requests : TimesFit(r) /\ RefusalFits(r)
  /\ \A l \in Limiters, u \in Users, b \in 0 .. boots : LimiterFits(l, u, b)

LEMMA LimitFacts ==
  ASSUME NEW l \in Limiters
  PROVE  /\ Limit[l] \in Nat \ {0} /\ Turn[l] \in {1, 2}
         /\ l = "general" => Turn[l] = 1 /\ LimitedRoutes[l] = Protected
         /\ l = "create" => Turn[l] = 2 /\ LimitedRoutes[l] = Posts
BY PipelineAssumption DEF Limiters, Limit, Turn, LimitedRoutes

LEMMA EntryFacts ==
  ASSUME NEW T, NEW s \in Seq(T), NEW i \in 1 .. Len(s)
  PROVE  s[i] \in T
OBVIOUS

\* Times are numbers up to the clock.
LEMMA PassesFacts ==
  ASSUME IInv, \A r \in Requests : TimesFit(r), NEW l \in Limiters, NEW u, NEW b
  PROVE  /\ \A r : r \in DOMAIN Passes(l, u, b) <=> (r \in Requests /\ Counted(r, l, u, b))
         /\ \A r \in DOMAIN Passes(l, u, b) :
              /\ Passes(l, u, b)[r] = times[r][Turn[l]]
              /\ Passes(l, u, b)[r] \in Nat /\ Passes(l, u, b)[r] <= clock
<1>1. \A r : r \in DOMAIN Passes(l, u, b) <=> (r \in Requests /\ Counted(r, l, u, b))
  BY DEF Passes
<1>2. ASSUME NEW r \in DOMAIN Passes(l, u, b)
      PROVE  /\ Passes(l, u, b)[r] = times[r][Turn[l]]
             /\ times[r][Turn[l]] \in Nat /\ times[r][Turn[l]] <= clock
  <2>1. r \in Requests /\ Len(times[r]) >= Turn[l]
    BY <1>1 DEF Counted
  <2>2. Passes(l, u, b)[r] = times[r][Turn[l]]
    BY DEF Passes
  <2>3. times[r] \in Seq(0 .. MaxClock)
    BY <2>1 DEF IInv, TypeOK
  <2>4. Turn[l] \in 1 .. Len(times[r])
    <3>1. Len(times[r]) \in Nat
      BY <2>3
    <3>2. Turn[l] = 1 \/ Turn[l] = 2
      BY LimitFacts
    <3> QED BY <2>1, <3>1, <3>2
  <2>5. times[r][Turn[l]] \in 0 .. MaxClock
    BY <2>3, <2>4, EntryFacts
  <2>6. times[r][Turn[l]] \in Nat
    BY <2>5, PipelineAssumption
  <2>7. times[r][Turn[l]] <= clock
    BY <2>1, <2>4 DEF TimesFit
  <2> QED BY <2>2, <2>6, <2>7
<1> QED BY <1>1, <1>2

LEMMA PassesSame ==
  ASSUME NEW l, NEW u, NEW b,
         \A r \in Requests : Counted(r, l, u, b)' <=> Counted(r, l, u, b),
         \A r \in Requests : Counted(r, l, u, b) => times'[r][Turn[l]] = times[r][Turn[l]]
  PROVE  Passes(l, u, b)' = Passes(l, u, b)
<1>1. {q \in Requests : Counted(q, l, u, b)}' = {q \in Requests : Counted(q, l, u, b)}
  OBVIOUS
<1> QED BY <1>1 DEF Passes

\* Nothing but passing a limiter makes a request count.
LEMMA PassesStay ==
  ASSUME IInv, NEW l \in Limiters, NEW u, NEW b, times' = times,
         \A r \in Requests :
           \/ /\ Sent(r)' <=> Sent(r)
              /\ input'[r] = input[r] /\ boot'[r] = boot[r]
           \/ times[r] = << >>
  PROVE  Passes(l, u, b)' = Passes(l, u, b)
<1>1. ASSUME NEW r \in Requests
      PROVE  Counted(r, l, u, b)' <=> Counted(r, l, u, b)
  <2>1. CASE times[r] = << >>
    <3>1. Len(times[r]) = 0 /\ Len(times'[r]) = 0
      BY <2>1
    <3>2. ~(0 >= Turn[l])
      BY LimitFacts
    <3> QED BY <3>1, <3>2 DEF Counted
  <2>2. CASE times[r] # << >>
    BY <2>2 DEF Counted
  <2> QED BY <2>1, <2>2
<1> QED BY <1>1, PassesSame

LEMMA TimesStay ==
  ASSUME NEW r \in Requests, IInv, TimesFit(r), times' = times, clock \in Nat, clock' \in Nat,
         clock <= clock', input'[r] = input[r], boot'[r] = boot[r],
         boots \in Nat, boots' \in Nat, boots <= boots', Limited(r)' = Limited(r),
         pc'[r] = "inside" => pc[r] = "inside" /\ boots' = boots
  PROVE  TimesFit(r)'
<1>1. \A i \in 1 .. Len(times[r]) : times[r][i] \in Nat
  BY PipelineAssumption DEF IInv, TypeOK
<1>2. boot[r] \in Nat
  BY PipelineAssumption DEF IInv, TypeOK
<1>3. \A i \in 1 .. Len(times'[r]) : times'[r][i] <= clock'
  BY <1>1 DEF TimesFit
<1>4. Sent(r)' <=> Sent(r)
  BY DEF Sent
<1> QED BY <1>2, <1>3, <1>4 DEF TimesFit

\* Who was refused stays refused for the same reason.
LEMMA RefusalStays ==
  ASSUME NEW r \in Requests, RefusalFits(r), outcome'[r] = outcome[r], input'[r] = input[r],
         boot'[r] = boot[r], refused'[r] = refused[r],
         \A l \in Limiters : \A u \in Users, b, t \in Nat : Full(l, u, b, t) => Full(l, u, b, t)'
  PROVE  RefusalFits(r)'
BY DEF RefusalFits

LEMMA LimiterStays ==
  ASSUME NEW l \in Limiters, NEW u \in Users, NEW b \in 0 .. boots, LimiterFits(l, u, b),
         Passes(l, u, b)' = Passes(l, u, b), b = boots' => b = boots,
         b = boots => meter'[l][u] = meter[l][u]
  PROVE  LimiterFits(l, u, b)'
BY DEF LimiterFits

\* A step at which no limiter counts anything.
LEMMA RestKeepsLimiters ==
  ASSUME LimitersInv, IInv', meter' = meter, boots' = boots,
         \A l \in Limiters : \A u, b : Passes(l, u, b)' = Passes(l, u, b),
         \A r \in Requests : TimesFit(r)',
         \A r \in Requests :
           \/ outcome'[r].code # 429
           \/ /\ outcome'[r] = outcome[r] /\ input'[r] = input[r]
              /\ boot'[r] = boot[r] /\ refused'[r] = refused[r]
  PROVE  LimitersInv'
<1>1. ASSUME NEW l \in Limiters, NEW u, NEW b, NEW t, Full(l, u, b, t)
      PROVE  Full(l, u, b, t)'
  BY <1>1 DEF Full
<1>2. ASSUME NEW r \in Requests PROVE RefusalFits(r)'
  <2>1. CASE outcome'[r].code # 429
    BY <2>1 DEF RefusalFits
  <2>2. CASE outcome'[r].code = 429
    BY <1>1, <2>2, RefusalStays DEF LimitersInv
  <2> QED BY <2>1, <2>2
<1>3. ASSUME NEW l \in Limiters, NEW u \in Users, NEW b \in 0 .. boots
      PROVE  LimiterFits(l, u, b)'
  BY LimiterStays DEF LimitersInv
<1> QED BY <1>2, <1>3 DEF LimitersInv
-----------------------------------------------------------------------------
(* The steps, and what the limiters have counted.                          *)

\* The numbers of IInv.
LEMMA NumberFacts ==
  ASSUME IInv
  PROVE  /\ clock \in Nat /\ boots \in Nat
         /\ \A r \in Requests : /\ place[r] \in 0 .. 3 /\ boot[r] \in Nat /\ refused[r] \in Nat
                                /\ times[r] \in Seq(0 .. MaxClock)
                                /\ Len(times[r]) \in Nat
         /\ \A l \in Limiters, u \in Users : meter[l][u] \in Meters
BY PipelineAssumption DEF IInv, TypeOK, Meters

\* A step at which no request moves among the middlewares.
LEMMA QuietKeepsLimiters ==
  ASSUME LimitersInv, IInv', clock <= clock', UNCHANGED <<meter, boots, input, place, times, boot>>,
         \A r \in Requests : pc'[r] = "inside" => pc[r] = "inside",
         \A r \in Requests : \/ outcome'[r].code # 429
                             \/ outcome'[r] = outcome[r] /\ refused'[r] = refused[r]
  PROVE  LimitersInv'
<1>1. IInv /\ clock \in Nat /\ boots \in Nat /\ \A r \in Requests : TimesFit(r)
  BY NumberFacts DEF LimitersInv
<1>2. clock' \in Nat
  BY PipelineAssumption DEF IInv, TypeOK
<1>3. ASSUME NEW r \in Requests PROVE TimesFit(r)'
  <2>1. Limited(r)' = Limited(r)
    BY DEF Limited
  <2> QED BY <1>1, <1>2, <2>1, TimesStay
<1>4. ASSUME NEW l \in Limiters, NEW u, NEW b PROVE Passes(l, u, b)' = Passes(l, u, b)
  <2>1. \A r \in Requests : Sent(r)' <=> Sent(r)
    BY DEF Sent
  <2> QED BY <1>1, <2>1, PassesStay
<1> QED BY <1>3, <1>4, RestKeepsLimiters

\* A request whose chain ends, but not by the hand of a limiter.
LEMMA FinishRests ==
  ASSUME LimitersInv, IInv', NEW q \in Requests, NEW o, Finish(q, o),
         meter' = meter, o.code # 429, \A r \in Requests \ {q} : refused'[r] = refused[r]
  PROVE  LimitersInv'
<1>1. /\ pc' = [pc EXCEPT ![q] = IF o.kind = "panic" THEN "panicked" ELSE "returned"]
      /\ outcome' = [outcome EXCEPT ![q] = o]
      /\ UNCHANGED <<clock, boots, input, place, times, boot>>
  BY DEF Finish, locals
<1>2. IInv /\ clock \in Nat
  BY NumberFacts DEF LimitersInv
<1>3. \A r \in Requests : pc'[r] = "inside" => pc[r] = "inside"
  BY <1>1, <1>2 DEF IInv, TypeOK
<1>4. ASSUME NEW r \in Requests
      PROVE  outcome'[r].code # 429 \/ (outcome'[r] = outcome[r] /\ refused'[r] = refused[r])
  BY <1>1, <1>2 DEF IInv, TypeOK
<1>5. clock <= clock'
  BY <1>1, <1>2
<1> QED BY <1>1, <1>3, <1>4, <1>5, QuietKeepsLimiters

LEMMA RefusalRests ==
  ASSUME LimitersInv, IInv', NEW q \in Requests,
         NEW e \in {"unauthorized", "forbidden"}, Refuse(q, e), meter' = meter
  PROVE  LimitersInv'
<1> DEFINE o == [kind |-> "http", code |-> Errors[e]]
<1>1. o.code # 429
  BY RefusalFacts
<1>2. Finish(q, o) /\ refused' = [refused EXCEPT ![q] = clock]
  BY DEF Refuse
<1>3. \A r \in Requests \ {q} : refused'[r] = refused[r]
  BY <1>2 DEF LimitersInv, IInv, TypeOK
<1> HIDE DEF o
<1> QED BY <1>1, <1>2, <1>3, FinishRests

\* A request that passes another stage.
LEMMA PassRests ==
  ASSUME LimitersInv, IInv', NEW q \in Requests, pc[q] = "inside", Pass(q), times' = times,
         meter' = meter, Limited(q)' = Limited(q)
  PROVE  LimitersInv'
<1>1. /\ place' = [place EXCEPT ![q] = @ + 1]
      /\ UNCHANGED <<clock, boots, pc, input, boot, outcome, refused>>
  BY DEF Pass
<1>2. IInv
  BY DEF LimitersInv
<1>3. ASSUME NEW r \in Requests PROVE TimesFit(r)'
  <2>1. Limited(r)' = Limited(r)
    <3>1. r # q => place'[r] = place[r]
      BY <1>1, <1>2 DEF IInv, TypeOK
    <3> QED BY <1>1, <3>1 DEF Limited
  <2> QED BY <1>1, <1>2, <2>1, NumberFacts, TimesStay DEF LimitersInv
<1>4. ASSUME NEW l \in Limiters, NEW u, NEW b PROVE Passes(l, u, b)' = Passes(l, u, b)
  <2>1. \A r \in Requests : Sent(r)' <=> Sent(r)
    BY <1>1 DEF Sent
  <2> QED BY <1>1, <1>2, <2>1, PassesStay
<1> QED BY <1>1, <1>3, <1>4, RestKeepsLimiters

LEMMA ReceiveKeepsLimiters ==
  ASSUME LimitersInv, IInv', NEW q \in Requests, Receive(q)
  PROVE  LimitersInv'
<1>1. /\ pc[q] = "idle" /\ pc' = [pc EXCEPT ![q] = "inside"]
      /\ boot' = [boot EXCEPT ![q] = boots]
      /\ UNCHANGED <<meter, clock, boots, place, times, outcome, refused>>
      /\ \E i \in Inputs : input' = [input EXCEPT ![q] = i]
  <2>1. \A route \in Traffic, user \in Tokens, header \in Headers \cup {NoHeader} :
          [route |-> route, user |-> user, header |-> header] \in Inputs
    BY PipelineAssumption DEF Inputs
  <2> QED BY <2>1 DEF Receive
<1>2. IInv /\ TimesFit(q) /\ place[q] = 0 /\ times[q] = << >> /\ outcome[q] = NoOutcome
  BY <1>1 DEF LimitersInv, IInv, RequestFits, OutcomeFits, TimesFit
<1>3. \A r \in Requests \ {q} : pc'[r] = pc[r] /\ input'[r] = input[r] /\ boot'[r] = boot[r]
  BY <1>1, <1>2 DEF IInv, TypeOK
<1>4. ASSUME NEW r \in Requests PROVE TimesFit(r)'
  <2>1. CASE r = q
    <3>1. Len(times'[r]) = 0 /\ times'[r] = << >>
      BY <1>1, <1>2, <2>1
    <3>2. Limited(r)' = 0 /\ pc'[r] = "inside" /\ boot'[r] = boots /\ Sent(r)'
      <4>1. NoInput \notin Inputs
        BY PipelineAssumption DEF Inputs
      <4> QED BY <1>1, <1>2, <2>1, <4>1 DEF Limited, Sent, IInv, TypeOK
    <3> QED BY <1>1, <1>2, <3>1, <3>2, NumberFacts DEF TimesFit
  <2>2. CASE r # q
    <3>1. Limited(r)' = Limited(r)
      BY <1>1, <1>3, <2>2 DEF Limited
    <3> QED BY <1>1, <1>2, <1>3, <2>2, <3>1, NumberFacts, TimesStay DEF LimitersInv
  <2> QED BY <2>1, <2>2
<1>5. ASSUME NEW l \in Limiters, NEW u, NEW b PROVE Passes(l, u, b)' = Passes(l, u, b)
  <2>1. \A r \in Requests \ {q} : Sent(r)' <=> Sent(r)
    BY <1>3 DEF Sent
  <2> QED BY <1>1, <1>2, <1>3, <2>1, PassesStay
<1>6. ASSUME NEW r \in Requests
      PROVE  \/ outcome'[r].code # 429
             \/ /\ outcome'[r] = outcome[r] /\ input'[r] = input[r]
                /\ boot'[r] = boot[r] /\ refused'[r] = refused[r]
  BY <1>1, <1>2, <1>3 DEF NoOutcome
<1> QED BY <1>1, <1>4, <1>5, <1>6, RestKeepsLimiters

LEMMA ProtectKeepsLimiters ==
  ASSUME LimitersInv, IInv', NEW q \in Requests, Protect(q)
  PROVE  LimitersInv'
<1>1. At(q, {"protect"}) /\ pc[q] = "inside" /\ meter' = meter /\ IInv
  BY DEF Protect, At, LimitersInv
<1>2. place[q] = 0
  BY <1>1, StageFacts
<1>3. CASE input[q].user = Nobody
  <2>1. Refuse(q, "unauthorized")
    BY <1>3 DEF Protect
  <2> QED BY <1>1, <2>1, RefusalRests, RefusalFacts
<1>4. CASE input[q].user # Nobody
  <2>1. Pass(q) /\ times' = times
    BY <1>4 DEF Protect
  <2>2. Limited(q)' = Limited(q)
    BY <1>1, <1>2, <2>1 DEF Limited, Pass, IInv, TypeOK
  <2> QED BY <1>1, <2>1, <2>2, PassRests
<1> QED BY <1>3, <1>4

LEMMA RequireRolesKeepsLimiters ==
  ASSUME LimitersInv, IInv', NEW q \in Requests, RequireRoles(q)
  PROVE  LimitersInv'
<1>1. At(q, DOMAIN Required) /\ pc[q] = "inside" /\ meter' = meter /\ IInv
  BY DEF RequireRoles, At, LimitersInv
<1>2. /\ Stage(q) \in DOMAIN Required /\ place[q] = 2 /\ Stage(q) = Stages(q)[place[q] + 1]
      /\ place[q] < Len(Stages(q))
  BY <1>1, StageFacts
<1>3. CASE RoleOf[input[q].user] \notin Required[Stage(q)]
  <2>1. Refuse(q, "forbidden")
    BY <1>3 DEF RequireRoles
  <2> QED BY <1>1, <2>1, RefusalRests, RefusalFacts
<1>4. CASE RoleOf[input[q].user] \in Required[Stage(q)]
  <2>1. Pass(q) /\ times' = times
    BY <1>4 DEF RequireRoles
  <2>2. Stages(q)[3] # "create" /\ input[q].route \in Routes
    BY <1>1, <1>2, InsideFacts DEF Required
  <2>3. input[q].route \notin Posts
    BY <2>2, ChainFacts DEF Stages
  <2>4. Limited(q)' = Limited(q)
    BY <1>1, <1>2, <2>1, <2>3 DEF Limited, Pass, IInv, TypeOK
  <2> QED BY <1>1, <2>1, <2>4, PassRests
<1> QED BY <1>3, <1>4

LEMMA HandleKeepsLimiters ==
  ASSUME LimitersInv, IInv', NEW q \in Requests, Handle(q)
  PROVE  LimitersInv'
<1>1. pc[q] = "inside" /\ meter' = meter /\ refused' = refused /\ IInv
  BY DEF Handle, AtHandler, LimitersInv
<1>2. PICK o \in Outcomes[input[q].route] : Finish(q, o)
  BY DEF Handle
<1>3. input[q].route \in Routes
  BY <1>1, InsideFacts
<1>4. o.code # 429
  BY <1>3, PipelineAssumption
<1> QED BY <1>1, <1>2, <1>4, FinishRests

\* The server's own answers, and the way out of what came in.
LEMMA OutKeepsLimiters ==
  ASSUME LimitersInv, IInv', NEW q \in Requests, TurnAway(q) \/ Note(q) \/ Out(q)
  PROVE  LimitersInv'
<1>1. UNCHANGED <<meter, clock, boots, input, place, times, boot, refused>>
  BY DEF TurnAway, Note, Out, Recover, Complete, LogFailure, Respond, locals
<1>2. IInv /\ clock \in Nat
  BY NumberFacts DEF LimitersInv
<1>3. \A r \in Requests : pc'[r] = "inside" => pc[r] = "inside"
  BY <1>2 DEF TurnAway, Note, Out, Recover, Complete, LogFailure, Respond, Unwind, IInv, TypeOK
<1>4. ASSUME NEW r \in Requests
      PROVE  outcome'[r].code # 429 \/ (outcome'[r] = outcome[r] /\ refused'[r] = refused[r])
  <2>1. CASE TurnAway(q)
    <3>1. PICK code \in Unreadable :
            outcome' = [outcome EXCEPT ![q] = [kind |-> "fiber", code |-> code]]
      BY <2>1 DEF TurnAway
    <3>2. code # 429
      BY PipelineAssumption
    <3> QED BY <1>1, <1>2, <3>1, <3>2 DEF IInv, TypeOK
  <2>2. CASE Recover(q)
    BY <1>1, <1>2, <2>2 DEF Recover, Recovered, IInv, TypeOK
  <2>3. CASE Note(q) \/ Complete(q) \/ LogFailure(q) \/ Respond(q)
    BY <1>1, <2>3 DEF Note, Complete, LogFailure, Respond
  <2> QED BY <2>1, <2>2, <2>3 DEF Out
<1>5. clock <= clock'
  BY <1>1, <1>2
<1> QED BY <1>1, <1>3, <1>4, <1>5, QuietKeepsLimiters

\* The limiter a request is about to run, and how many are behind it.
LEMMA LimiterFacts ==
  ASSUME LimitersInv, NEW q \in Requests, At(q, Limiters)
  PROVE  /\ pc[q] = "inside" /\ input[q].user \in Users /\ Stage(q) \in Limiters
         /\ input[q].route \in LimitedRoutes[Stage(q)]
         /\ Len(times[q]) = Turn[Stage(q)] - 1 /\ boot[q] = boots
         /\ Stage(q) = "general" => place[q] = 1
         /\ Stage(q) = "create" => place[q] = 2 /\ input[q].route \in Posts
<1>1. IInv /\ TimesFit(q) /\ pc[q] = "inside"
  BY DEF LimitersInv, At
<1>2. /\ Stage(q) \in Limiters /\ Stage(q) = Stages(q)[place[q] + 1]
      /\ place[q] \in 1 .. 2 /\ place[q] < Len(Stages(q)) /\ input[q].route \notin Public
  <2>1. /\ Stage(q) \in Limiters /\ Stage(q) = Stages(q)[place[q] + 1]
        /\ place[q] = 0 <=> Stage(q) = "protect"
        /\ place[q] \in 0 .. 2 /\ place[q] < Len(Stages(q)) /\ input[q].route \notin Public
    BY <1>1, StageFacts
  <2>2. Stage(q) # "protect"
    BY <2>1 DEF Limiters
  <2> QED BY <2>1, <2>2
<1>3. /\ input[q].route \in Routes /\ Len(Stages(q)) \in {0, 2, 3}
      /\ input[q].user \in Users
  BY <1>1, <1>2, InsideFacts
<1>4. input[q].route \in Protected /\ Sent(q)
  BY <1>1, <1>2, <1>3, InsideFacts DEF Routes
<1>5. CASE place[q] = 1
  <2>1. Stage(q) = "general"
    BY <1>2, <1>3, <1>5, ChainFacts DEF Stages
  <2>2. Len(times[q]) = 0 /\ boot[q] = boots
    BY <1>1, <1>4, <1>5 DEF TimesFit, Limited
  <2> QED BY <1>1, <1>2, <1>3, <1>4, <1>5, <2>1, <2>2, LimitFacts
<1>6. CASE place[q] = 2
  <2>1. Len(Stages(q)) = 3 /\ Stage(q) = Stages(q)[3]
    BY <1>2, <1>3, <1>6
  <2>2. Stage(q) = "create" /\ input[q].route \in Posts
    BY <1>2, <1>3, <2>1, ChainFacts DEF Stages, Limiters
  <2>3. Len(times[q]) = 1 /\ boot[q] = boots
    BY <1>1, <1>4, <1>6 DEF TimesFit, Limited
  <2> QED BY <1>1, <1>2, <1>3, <1>6, <2>2, <2>3, LimitFacts
<1> QED BY <1>2, <1>5, <1>6

\* A request that passes a limiter counts there, and nowhere else.
LEMMA PassesGrow ==
  ASSUME LimitersInv, NEW q \in Requests, At(q, Limiters), Pass(q),
         times' = [times EXCEPT ![q] = Append(@, clock)],
         NEW l \in Limiters, NEW u, NEW b
  PROVE  /\ q \notin DOMAIN Passes(Stage(q), u, b)
         /\ l = Stage(q) /\ u = input[q].user /\ b = boots =>
              Passes(l, u, b)' = With(Passes(l, u, b), q, clock)
         /\ ~(l = Stage(q) /\ u = input[q].user /\ b = boots) =>
              Passes(l, u, b)' = Passes(l, u, b)
<1>1. /\ pc' = pc /\ input' = input /\ boot' = boot /\ boots' = boots
      /\ \A r \in Requests : Sent(r)' <=> Sent(r)
  BY DEF Pass, Sent
<1>2. /\ pc[q] = "inside" /\ Stage(q) \in Limiters
      /\ input[q].route \in LimitedRoutes[Stage(q)]
      /\ Len(times[q]) = Turn[Stage(q)] - 1 /\ boot[q] = boots
  BY LimiterFacts
<1>3. IInv /\ times[q] \in Seq(0 .. MaxClock)
  BY DEF LimitersInv, IInv, TypeOK
<1>4. \A r \in Requests \ {q} : times'[r] = times[r]
  BY <1>3 DEF IInv, TypeOK
<1>5. /\ times'[q] = Append(times[q], clock)
      /\ Len(times'[q]) = Turn[Stage(q)]
      /\ times'[q][Turn[Stage(q)]] = clock
      /\ \A i \in 1 .. Len(times[q]) : times'[q][i] = times[q][i]
  <2>1. times'[q] = Append(times[q], clock)
    BY <1>3 DEF IInv, TypeOK
  <2>2. Turn[Stage(q)] = 1 \/ Turn[Stage(q)] = 2
    BY <1>2, LimitFacts
  <2>3. Len(Append(times[q], clock)) = Len(times[q]) + 1
    BY <1>3
  <2>4. /\ Append(times[q], clock)[Len(times[q]) + 1] = clock
        /\ \A i \in 1 .. Len(times[q]) : Append(times[q], clock)[i] = times[q][i]
    BY <1>3
  <2>5. Len(times[q]) + 1 = Turn[Stage(q)]
    BY <1>2, <2>2
  <2> QED BY <2>1, <2>3, <2>4, <2>5
<1>6. Turn[Stage(q)] \in {1, 2} /\ Turn[l] \in {1, 2}
  BY <1>2, LimitFacts
<1>7. \A v, d : ~Counted(q, Stage(q), v, d)
  BY <1>2, <1>6 DEF Counted
<1>8. q \notin DOMAIN Passes(Stage(q), u, b)
  BY <1>7 DEF Passes
<1>9. ASSUME NEW r \in Requests \ {q} PROVE Counted(r, l, u, b)' <=> Counted(r, l, u, b)
  BY <1>1, <1>4 DEF Counted
<1>10. CASE l = Stage(q) /\ u = input[q].user /\ b = boots
  <2>1. Counted(q, l, u, b)'
    <3>1. Len(times'[q]) >= Turn[l]
      BY <1>5, <1>6, <1>10
    <3>2. Sent(q)'
      BY <1>1, <1>2, <1>3, InsideFacts
    <3> QED BY <1>1, <1>2, <1>10, <3>1, <3>2 DEF Counted
  <2>2. {r \in Requests : Counted(r, l, u, b)}' = {r \in Requests : Counted(r, l, u, b)} \cup {q}
    BY <1>9, <2>1
  <2>3. \A r \in Requests : Counted(r, l, u, b) => r # q
    BY <1>7, <1>10
  <2> QED BY <1>4, <1>5, <1>8, <1>10, <2>2, <2>3 DEF Passes, With
<1>11. CASE ~(l = Stage(q) /\ u = input[q].user /\ b = boots)
  <2>1. /\ Counted(q, l, u, b)' <=> Counted(q, l, u, b)
        /\ Counted(q, l, u, b) => times'[q][Turn[l]] = times[q][Turn[l]]
    <3>1. CASE ~(u = input[q].user /\ b = boots)
      BY <1>1, <1>2, <3>1 DEF Counted
    <3>2. CASE l # Stage(q)
      <4>1. Len(times[q]) >= Turn[l] <=> Len(times'[q]) >= Turn[l]
        BY <1>2, <1>5, <1>6, <3>2, LimitFacts DEF Limiters
      <4>2. Len(times[q]) >= Turn[l] => times'[q][Turn[l]] = times[q][Turn[l]]
        BY <1>3, <1>5, <1>6
      <4> QED BY <1>1, <4>1, <4>2 DEF Counted
    <3> QED BY <1>11, <3>1, <3>2
  <2>2. \A r \in Requests :
          /\ Counted(r, l, u, b)' <=> Counted(r, l, u, b)
          /\ Counted(r, l, u, b) => times'[r][Turn[l]] = times[r][Turn[l]]
    BY <1>4, <1>9, <2>1
  <2>3. Passes(l, u, b)' = Passes(l, u, b)
    BY <2>2, PassesSame
  <2> QED BY <1>8, <1>11, <2>3
<1> QED BY <1>8, <1>10, <1>11

\* What a limiter let through stays let through.
LEMMA FullGrows ==
  ASSUME NEW f, NEW g, NEW r, NEW c \in Nat, Timed(f), r \notin DOMAIN f, g = With(f, r, c),
         NEW t \in Nat
  PROVE  Cardinality(Span(f, t)) <= Cardinality(Span(g, t))
<1>1. Extends(With(f, r, c), f, r, c)
  BY WithFacts
<1>2. Timed(g) /\ Span(f, t) \subseteq Span(g, t)
  BY <1>1 DEF Extends, Span
<1>3. IsFiniteSet(Span(g, t))
  BY <1>2, PartFinite DEF Timed
<1> QED BY <1>2, <1>3, FS_Subset

LEMMA RateLimitKeepsLimiters ==
  ASSUME LimitersInv, IInv', NEW q \in Requests, RateLimit(q)
  PROVE  LimitersInv'
<1>1. IInv /\ At(q, Limiters) /\ \A r \in Requests : TimesFit(r) /\ RefusalFits(r)
  BY DEF RateLimit, LimitersInv
<1>2. PICK l \in Limiters, u \in Users : l = Stage(q) /\ u = input[q].user
  BY <1>1, LimiterFacts
<1>3. /\ meter' = [meter EXCEPT ![l][u] = Bump(meter[l][u])]
      /\ IF Over(l, Bump(meter[l][u]))
           THEN Refuse(q, "tooMany")
           ELSE Pass(q) /\ times' = [times EXCEPT ![q] = Append(@, clock)]
  BY <1>2 DEF RateLimit, Key
<1>4. /\ clock \in Nat /\ boots \in Nat /\ meter[l][u] \in Meters
      /\ meter \in [Limiters -> [Users -> Meters]]
      /\ Limit[l] \in Nat \ {0}
  BY <1>1, NumberFacts, LimitFacts DEF IInv, TypeOK, Meters
<1>5. /\ meter'[l][u] = Bump(meter[l][u])
      /\ \A k \in Limiters, v \in Users : ~(k = l /\ v = u) => meter'[k][v] = meter[k][v]
  BY <1>3, <1>4
<1>6. PICK f : f = Passes(l, u, boots)
  OBVIOUS
<1>7. PICK S \in SUBSET Nat : Windows(f, S, Limit[l]) /\ Counts(meter[l][u], f, S, Limit[l])
  BY <1>2, <1>4, <1>6 DEF LimitersInv, LimiterFits
<1>8. \A r \in DOMAIN f : f[r] <= clock
  BY <1>1, <1>6, PassesFacts
<1>9. /\ input[q].route \in LimitedRoutes[l] /\ pc[q] = "inside" /\ boot[q] = boots
      /\ Len(times[q]) = Turn[l] - 1
      /\ l = "general" => place[q] = 1
      /\ l = "create" => place[q] = 2 /\ input[q].route \in Posts
  BY <1>1, <1>2, LimiterFacts
<1>10. CASE Over(l, Bump(meter[l][u]))
  <2>1. /\ Finish(q, [kind |-> "http", code |-> Errors["tooMany"]])
        /\ refused' = [refused EXCEPT ![q] = clock]
    BY <1>3, <1>10 DEF Refuse
  <2>2. /\ pc' = [pc EXCEPT ![q] = "returned"]
        /\ UNCHANGED <<clock, boots, input, place, times, boot>>
        /\ \A r \in Requests \ {q} : outcome'[r] = outcome[r] /\ refused'[r] = refused[r]
        /\ refused'[q] = clock
    BY <1>1, <2>1 DEF Finish, locals, IInv, TypeOK
  <2>3. \A r \in Requests : pc'[r] = "inside" => pc[r] = "inside"
    BY <1>1, <2>2 DEF IInv, TypeOK
  <2>4. ASSUME NEW r \in Requests PROVE TimesFit(r)'
    <3>1. Limited(r)' = Limited(r)
      BY <2>2 DEF Limited
    <3> QED BY <1>1, <1>4, <2>2, <2>3, <3>1, TimesStay
  <2>5. ASSUME NEW k \in Limiters, NEW v, NEW b PROVE Passes(k, v, b)' = Passes(k, v, b)
    <3>1. \A r \in Requests : Sent(r)' <=> Sent(r)
      BY <2>2 DEF Sent
    <3> QED BY <1>1, <2>2, <3>1, PassesStay
  <2>6. ASSUME NEW k \in Limiters, NEW v, NEW b, NEW t, Full(k, v, b, t) PROVE Full(k, v, b, t)'
    BY <2>5, <2>6 DEF Full
  <2>7. /\ Counts(Bump(meter[l][u]), f, S, Limit[l])
        /\ Cardinality(Span(f, clock)) >= Limit[l]
    <3>1. Bump(meter[l][u]).hits > Limit[l]
      BY <1>10 DEF Over
    <3> QED BY <1>4, <1>7, <1>8, <3>1, MeterRefuses
  <2>8. ASSUME NEW r \in Requests PROVE RefusalFits(r)'
    <3>1. CASE r # q
      BY <1>1, <2>2, <2>6, <3>1, RefusalStays
    <3>2. CASE r = q
      <4>1. Full(l, u, boots, clock)
        BY <1>6, <2>7 DEF Full
      <4>2. Full(l, u, boots, clock)'
        BY <2>2, <2>5, <4>1 DEF Full
      <4>3. PICK b \in Nat, t \in Nat : b = boots /\ t = clock
        BY <1>4
      <4>4. Full(l, u, b, t)'
        BY <2>5, <4>1, <4>3 DEF Full
      <4> QED BY <1>2, <1>9, <2>2, <3>2, <4>3, <4>4 DEF RefusalFits
    <3> QED BY <3>1, <3>2
  <2>9. ASSUME NEW k \in Limiters, NEW v \in Users, NEW b \in 0 .. boots'
        PROVE  LimiterFits(k, v, b)'
    <3>1. LimiterFits(k, v, b)
      BY <2>2 DEF LimitersInv
    <3>2. CASE k = l /\ v = u /\ b = boots
      BY <1>5, <1>6, <1>7, <2>2, <2>5, <2>7, <3>2 DEF LimiterFits
    <3>3. CASE ~(k = l /\ v = u /\ b = boots)
      BY <1>5, <2>2, <2>5, <3>1, <3>3, LimiterStays
    <3> QED BY <3>2, <3>3
  <2> QED BY <2>4, <2>8, <2>9 DEF LimitersInv
<1>11. CASE ~Over(l, Bump(meter[l][u]))
  <2>1. /\ Pass(q) /\ times' = [times EXCEPT ![q] = Append(@, clock)]
        /\ place' = [place EXCEPT ![q] = @ + 1]
        /\ UNCHANGED <<clock, boots, pc, input, boot, outcome, refused>>
    BY <1>3, <1>11 DEF Pass
  <2>2. /\ q \notin DOMAIN f
        /\ Passes(l, u, boots)' = With(f, q, clock)
        /\ \A k \in Limiters : \A v, b :
             ~(k = l /\ v = u /\ b = boots) => Passes(k, v, b)' = Passes(k, v, b)
    <3>1. PICK c : c = boots
      OBVIOUS
    <3>2. ASSUME NEW k \in Limiters, NEW v, NEW b
          PROVE  /\ q \notin DOMAIN Passes(Stage(q), v, b)
                 /\ k = Stage(q) /\ v = input[q].user /\ b = boots =>
                      Passes(k, v, b)' = With(Passes(k, v, b), q, clock)
                 /\ ~(k = Stage(q) /\ v = input[q].user /\ b = boots) =>
                      Passes(k, v, b)' = Passes(k, v, b)
      BY <1>1, <2>1, PassesGrow
    <3>3. q \notin DOMAIN f /\ Passes(l, u, c)' = With(f, q, clock)
      BY <1>2, <1>6, <3>1, <3>2
    <3>4. \A k \in Limiters : \A v, b :
             ~(k = l /\ v = u /\ b = boots) => Passes(k, v, b)' = Passes(k, v, b)
      BY <1>2, <3>2
    <3>5. Passes(l, u, boots)' = Passes(l, u, c)'
      BY <2>1, <3>1
    <3> QED BY <3>3, <3>4, <3>5
  <2>3. ASSUME NEW r \in Requests PROVE TimesFit(r)'
    <3>1. CASE r # q
      <4>1. times'[r] = times[r] /\ place'[r] = place[r]
        BY <1>1, <2>1, <3>1 DEF IInv, TypeOK
      <4> QED BY <1>1, <2>1, <4>1 DEF TimesFit, Limited, Sent
    <3>2. CASE r = q
      <4>1. /\ times'[q] = Append(times[q], clock) /\ place'[q] = place[q] + 1
            /\ times[q] \in Seq(0 .. MaxClock)
        BY <1>1, <2>1 DEF IInv, TypeOK
      <4>2. /\ Len(times'[q]) = Len(times[q]) + 1 /\ Len(times[q]) \in Nat
            /\ \A i \in 1 .. Len(times[q]) : times'[q][i] = times[q][i]
            /\ times'[q][Len(times[q]) + 1] = clock
        BY <4>1
      <4>3. \A i \in 1 .. Len(times'[q]) : times'[q][i] <= clock'
        <5> SUFFICES ASSUME NEW i \in 1 .. Len(times'[q]) PROVE times'[q][i] <= clock'
          OBVIOUS
        <5>1. CASE i \in 1 .. Len(times[q])
          BY <1>1, <2>1, <4>2, <5>1 DEF TimesFit
        <5>2. CASE i = Len(times[q]) + 1
          BY <1>4, <2>1, <4>2, <5>2
        <5> QED BY <4>2, <5>1, <5>2
      <4>4. Len(times'[q]) = Limited(q)'
        <5>1. CASE l = "general"
          BY <1>9, <2>1, <4>1, <4>2, <5>1, LimitFacts DEF Limited
        <5>2. CASE l = "create"
          <6>1. Len(times'[q]) = 2
            BY <1>9, <4>2, <5>2, LimitFacts
          <6>2. place'[q] = 3 /\ input'[q].route \in Posts
            BY <1>9, <2>1, <4>1, <5>2
          <6> QED BY <6>1, <6>2 DEF Limited
        <5> QED BY <5>1, <5>2 DEF Limiters
      <4>5. Sent(q)'
        BY <1>1, <1>9, <2>1, InsideFacts DEF Sent
      <4> QED BY <1>1, <1>9, <2>1, <3>2, <4>3, <4>4, <4>5 DEF TimesFit
    <3> QED BY <3>1, <3>2
  <2>4. ASSUME NEW k \in Limiters, NEW v, NEW b, NEW t \in Nat, Full(k, v, b, t)
        PROVE  Full(k, v, b, t)'
    <3>1. CASE k = l /\ v = u /\ b = boots
      <4>1. Passes(k, v, b)' = With(f, q, clock) /\ Passes(k, v, b) = f
        BY <1>6, <2>1, <2>2, <3>1
      <4>2. Timed(f)
        BY <1>7 DEF Windows
      <4>3. Cardinality(Span(f, t)) <= Cardinality(Span(With(f, q, clock), t))
        BY <1>4, <2>2, <4>2, FullGrows
      <4>4. Cardinality(Span(f, t)) \in Nat /\ Cardinality(Span(With(f, q, clock), t)) \in Nat
        <5>1. Timed(With(f, q, clock))
          BY <1>4, <2>2, <4>2, WithFacts DEF Extends
        <5> QED BY <4>2, <5>1, PartFinite DEF Timed
      <4>5. Limit[k] \in Nat /\ Cardinality(Span(f, t)) >= Limit[k]
        BY <1>4, <2>4, <3>1, <4>1 DEF Full
      <4>6. Cardinality(Span(With(f, q, clock), t)) >= Limit[k]
        BY <4>3, <4>4, <4>5
      <4> QED BY <4>1, <4>6 DEF Full
    <3>2. CASE ~(k = l /\ v = u /\ b = boots)
      BY <2>2, <2>4, <3>2 DEF Full
    <3> QED BY <3>1, <3>2
  <2>5. ASSUME NEW r \in Requests PROVE RefusalFits(r)'
    BY <1>1, <2>1, <2>4, RefusalStays
  <2>6. ASSUME NEW k \in Limiters, NEW v \in Users, NEW b \in 0 .. boots'
        PROVE  LimiterFits(k, v, b)'
    <3>1. LimiterFits(k, v, b)
      BY <2>1 DEF LimitersInv
    <3>2. CASE k = l /\ v = u /\ b = boots
      <4>1. Bump(meter[l][u]).hits <= Limit[l]
        <5>1. Bump(meter[l][u]).hits \in Nat
          BY <1>4 DEF Bump, Meters
        <5> QED BY <1>4, <1>11, <5>1 DEF Over
      <4>2. PICK T \in SUBSET Nat : /\ Windows(With(f, q, clock), T, Limit[l])
                                    /\ Counts(Bump(meter[l][u]), With(f, q, clock), T, Limit[l])
        BY <1>4, <1>7, <1>8, <2>2, <4>1, MeterPasses
      <4>3. Passes(k, v, b)' = With(f, q, clock)
        BY <2>1, <2>2, <3>2
      <4> QED BY <1>5, <3>2, <4>2, <4>3 DEF LimiterFits
    <3>3. CASE ~(k = l /\ v = u /\ b = boots)
      BY <1>5, <2>1, <2>2, <3>1, <3>3, LimiterStays
    <3> QED BY <3>2, <3>3
  <2> QED BY <2>3, <2>5, <2>6 DEF LimitersInv
<1> QED BY <1>10, <1>11

LEMMA RestartKeepsLimiters ==
  ASSUME LimitersInv, IInv', Restart
  PROVE  LimitersInv'
<1>1. /\ UNCHANGED <<clock, input, place, times, boot, outcome, refused>>
      /\ boots' = boots + 1
      /\ meter' = [l \in Limiters |-> [u \in Users |-> Closed]]
      /\ pc' = [r \in Requests |-> IF pc[r] \in Busy THEN "lost" ELSE pc[r]]
  BY DEF Restart, locals
<1>2. IInv /\ clock \in Nat /\ boots \in Nat /\ \A r \in Requests : TimesFit(r) /\ boot[r] \in Nat
  BY NumberFacts DEF LimitersInv
<1>3. \A r \in Requests : pc'[r] # "inside"
  BY <1>1 DEF Busy
<1>4. ASSUME NEW r \in Requests PROVE TimesFit(r)'
  <2>1. Limited(r)' = Limited(r)
    BY <1>1 DEF Limited
  <2> QED BY <1>1, <1>2, <1>3, <2>1, TimesStay
<1>5. ASSUME NEW l \in Limiters, NEW u, NEW b PROVE Passes(l, u, b)' = Passes(l, u, b)
  <2>1. \A r \in Requests : Sent(r)' <=> Sent(r)
    BY <1>1 DEF Sent
  <2> QED BY <1>1, <1>2, <2>1, PassesStay
<1>6. ASSUME NEW r \in Requests PROVE RefusalFits(r)'
  <2>1. \A l \in Limiters : \A u, b, t : Full(l, u, b, t) => Full(l, u, b, t)'
    BY <1>5 DEF Full
  <2> QED BY <1>1, <2>1, RefusalStays DEF LimitersInv
<1>7. ASSUME NEW l \in Limiters, NEW u \in Users, NEW b \in 0 .. boots'
      PROVE  LimiterFits(l, u, b)'
  <2>1. CASE b \in 0 .. boots
    <3>1. LimiterFits(l, u, b) /\ b # boots'
      BY <1>1, <1>2, <2>1 DEF LimitersInv
    <3> QED BY <1>5, <3>1 DEF LimiterFits
  <2>2. CASE b = boots'
    <3>1. ASSUME NEW r \in Requests PROVE ~Counted(r, l, u, b)
      <4>1. boot[r] # b
        BY <1>1, <1>2, <2>2 DEF TimesFit
      <4> QED BY <4>1 DEF Counted
    <3>2. DOMAIN Passes(l, u, b) = {}
      BY <3>1 DEF Passes
    <3>3. Windows(Passes(l, u, b), {}, Limit[l])
      BY <3>2, FS_EmptySet DEF Windows, Timed
    <3>4. Counts(meter'[l][u], Passes(l, u, b), {}, Limit[l])
      BY <1>1 DEF Counts, Closed
    <3> QED BY <1>5, <3>3, <3>4 DEF LimiterFits
  <2> QED BY <1>1, <1>2, <2>1, <2>2
<1> QED BY <1>4, <1>6, <1>7 DEF LimitersInv

LEMMA InitLimiters == Init => LimitersInv
<1> SUFFICES ASSUME Init PROVE LimitersInv
  OBVIOUS
<1>1. IInv /\ boots = 0 /\ clock = 0
  BY InitIInv DEF Init
<1>2. ASSUME NEW r \in Requests PROVE TimesFit(r) /\ RefusalFits(r)
  <2>1. /\ ~Sent(r) /\ pc[r] = "idle" /\ times[r] = << >> /\ boot[r] = 0
        /\ outcome[r] = NoOutcome
    BY DEF Init, Sent
  <2>2. Len(times[r]) = 0
    BY <2>1
  <2> QED BY <1>1, <2>1, <2>2 DEF TimesFit, RefusalFits, NoOutcome
<1>3. ASSUME NEW l \in Limiters, NEW u \in Users, NEW b \in 0 .. boots PROVE LimiterFits(l, u, b)
  <2>1. DOMAIN Passes(l, u, b) = {}
    BY DEF Passes, Counted, Sent, Init
  <2>2. Windows(Passes(l, u, b), {}, Limit[l])
    BY <2>1, FS_EmptySet DEF Windows, Timed
  <2>3. Counts(meter[l][u], Passes(l, u, b), {}, Limit[l])
    BY DEF Counts, Closed, Init
  <2> QED BY <2>2, <2>3 DEF LimiterFits
<1> QED BY <1>1, <1>2, <1>3 DEF LimitersInv

LEMMA NextKeepsLimiters == LimitersInv /\ [Next]_vars => LimitersInv'
<1> SUFFICES ASSUME LimitersInv, [Next]_vars PROVE LimitersInv'
  OBVIOUS
<1>1. IInv /\ IInv' /\ clock \in Nat
  BY NextKeepsIInv, NumberFacts DEF LimitersInv
<1>2. ASSUME NEW r \in Requests, Receive(r) \/ TurnAway(r) \/ In(r) \/ Out(r)
      PROVE  LimitersInv'
  BY <1>1, <1>2, ReceiveKeepsLimiters, ProtectKeepsLimiters, RateLimitKeepsLimiters,
     RequireRolesKeepsLimiters, HandleKeepsLimiters, OutKeepsLimiters DEF In
<1>3. CASE Restart
  BY <1>1, <1>3, RestartKeepsLimiters
<1>4. CASE Tick \/ UNCHANGED vars
  <2>1. /\ UNCHANGED <<meter, boots, pc, input, place, times, boot, outcome, refused>>
        /\ clock' = clock + 1 \/ clock' = clock
    BY <1>4 DEF Tick, vars, locals
  <2>2. clock <= clock'
    BY <1>1, <2>1
  <2> QED BY <1>1, <2>1, <2>2, QuietKeepsLimiters
<1> QED BY <1>2, <1>3, <1>4 DEF Next

\* What the limiters have counted and whom they have refused stays accounted
\* for by the requests that passed, through every window and restart.
THEOREM LimitersInvariance == Spec => []LimitersInv
BY InitLimiters, NextKeepsLimiters, PTL DEF Spec

\* Passed in the terms of the invariant.
LEMMA PassedFacts ==
  ASSUME NEW l \in Limiters, NEW u, NEW t, NEW b
  PROVE  Passed(LimitedRoutes[l], Turn[l], u, t, b) = Span(Passes(l, u, b), t)
<1>1. \A r : r \in DOMAIN Passes(l, u, b) <=> (r \in Requests /\ Counted(r, l, u, b))
  BY DEF Passes
<1>2. \A r \in DOMAIN Passes(l, u, b) : Passes(l, u, b)[r] = times[r][Turn[l]]
  BY DEF Passes
<1> QED BY <1>1, <1>2 DEF Passed, Span, Counted

\* In any span of one window, and in one life of the process, fewer than twice
\* the limit of a user's requests get past a limiter, whatever the limits are:
\* of POSTs to a handler, and of all requests past the general limiter.
THEOREM LimitsHold == Spec => []SlidingBound
<1>1. ASSUME LimitersInv, NEW l \in Limiters, NEW u \in Users, NEW t \in Nat, NEW b \in 0 .. boots
      PROVE  /\ IsFiniteSet(Passed(LimitedRoutes[l], Turn[l], u, t, b))
             /\ Cardinality(Passed(LimitedRoutes[l], Turn[l], u, t, b)) <= 2 * Limit[l] - 1
  <2>1. PICK S \in SUBSET Nat : Windows(Passes(l, u, b), S, Limit[l])
    BY <1>1 DEF LimitersInv, LimiterFits
  <2>2. Cardinality(Span(Passes(l, u, b), t)) <= 2 * Limit[l] - 1
    BY <2>1, SpanBound, LimitFacts
  <2>3. IsFiniteSet(Span(Passes(l, u, b), t))
    BY <2>1, PartFinite DEF Windows, Timed
  <2> QED BY <2>2, <2>3, PassedFacts
<1>2. ASSUME LimitersInv, NEW u \in Users, NEW t \in Nat, NEW b \in 0 .. boots
      PROVE  PostsAdmitted(u, t, b) \subseteq Passed(Posts, 2, u, t, b)
  <2> SUFFICES ASSUME NEW r \in PostsAdmitted(u, t, b) PROVE r \in Passed(Posts, 2, u, t, b)
    OBVIOUS
  <2>1. r \in Requests /\ Admitted(r) /\ r \in Passed(Posts, Len(times[r]), u, t, b)
    BY DEF PostsAdmitted
  <2>2. input[r].route \in Posts /\ Sent(r) /\ place[r] = Len(Stages(r))
    BY <2>1 DEF Passed, Admitted
  <2>3. Len(Stages(r)) = 3
    <3>1. input[r].route \in Routes
      BY <2>2 DEF Posts, Routes, Protected
    <3> QED BY <2>2, <3>1, ChainFacts DEF Stages
  <2>4. Len(times[r]) = 2
    <3>1. TimesFit(r)
      BY <1>2, <2>1 DEF LimitersInv
    <3>2. Limited(r) = 2
      BY <2>2, <2>3 DEF Limited
    <3> QED BY <2>2, <3>1, <3>2 DEF TimesFit
  <2> QED BY <2>1, <2>4
<1>3. LimitersInv => SlidingBound
  <2> SUFFICES ASSUME LimitersInv, NEW u \in Users, NEW t \in 0 .. clock, NEW b \in 0 .. boots
               PROVE  /\ Cardinality(PostsAdmitted(u, t, b)) <= 2 * CreateMax - 1
                      /\ Cardinality(Passed(Protected, 1, u, t, b)) <= 2 * GeneralMax - 1
    BY DEF SlidingBound
  <2>1. /\ LimitedRoutes["general"] = Protected /\ Turn["general"] = 1
        /\ Limit["general"] = GeneralMax
        /\ LimitedRoutes["create"] = Posts /\ Turn["create"] = 2 /\ Limit["create"] = CreateMax
        /\ "general" \in Limiters /\ "create" \in Limiters /\ t \in Nat
    BY DEF LimitedRoutes, Turn, Limit, Limiters
  <2>2. Cardinality(Passed(Protected, 1, u, t, b)) <= 2 * GeneralMax - 1
    BY <1>1, <2>1
  <2>3. /\ Cardinality(Passed(Posts, 2, u, t, b)) <= 2 * CreateMax - 1
        /\ IsFiniteSet(Passed(Posts, 2, u, t, b))
    BY <1>1, <2>1
  <2>4. PostsAdmitted(u, t, b) \subseteq Passed(Posts, 2, u, t, b)
    BY <1>2, <2>1
  <2>5. /\ Cardinality(PostsAdmitted(u, t, b)) <= Cardinality(Passed(Posts, 2, u, t, b))
        /\ Cardinality(PostsAdmitted(u, t, b)) \in Nat
        /\ Cardinality(Passed(Posts, 2, u, t, b)) \in Nat
    BY <2>3, <2>4, FS_Subset, FS_CardinalityType
  <2> QED BY <2>2, <2>3, <2>5, PipelineAssumption
<1> QED BY <1>3, LimitersInvariance, PTL

\* Nobody is refused before one of the limits has been used up by requests of
\* the same user that it let through within the last window.
THEOREM RefusalsAreEarned == Spec => []RefusalEarned
<1>1. ASSUME LimitersInv, NEW r \in Requests, reply[r] = 429
      PROVE  \/ Cardinality(Passed(Protected, 1, input[r].user, refused[r], boot[r])) >= GeneralMax
             \/ /\ input[r].route \in Posts
                /\ Cardinality(Passed(Posts, 2, input[r].user, refused[r], boot[r])) >= CreateMax
  <2>1. PICK l \in Limiters, u \in Users, b \in Nat, t \in Nat :
          /\ input[r].user = u /\ boot[r] = b /\ refused[r] = t
          /\ input[r].route \in LimitedRoutes[l]
          /\ Full(l, u, b, t)
    <3>1. outcome[r].code = 429
      <4>1. IInv /\ OutcomeFits(r)
        BY <1>1 DEF LimitersInv, IInv, RequestFits
      <4>2. outcome[r] \in Outcome \cup {Recovered} /\ SentCode(outcome[r]) = 429
        BY <1>1, <4>1 DEF OutcomeFits
      <4> QED BY <4>2, CodeFacts
    <3> QED BY <1>1, <3>1 DEF LimitersInv, RefusalFits
  <2>2. Cardinality(Passed(LimitedRoutes[l], Turn[l], u, t, b)) >= Limit[l]
    BY <2>1, PassedFacts DEF Full
  <2>3. CASE l = "general"
    BY <2>1, <2>2, <2>3 DEF LimitedRoutes, Turn, Limit
  <2>4. CASE l = "create"
    BY <2>1, <2>2, <2>4 DEF LimitedRoutes, Turn, Limit
  <2> QED BY <2>3, <2>4 DEF Limiters
<1>2. LimitersInv => RefusalEarned
  BY <1>1 DEF RefusalEarned
<1> QED BY <1>2, LimitersInvariance, PTL
=============================================================================
