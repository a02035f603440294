--------------------------- MODULE RequestPipeline ---------------------------
(***************************************************************************)
(* What stands between a client and a handler: the chains of middleware    *)
(* that internal/routes/routes.go hangs on the routes (the token, the two  *)
(* rate limiters, the roles), and on the way back recovery, the request    *)
(* log and the error handler (pkg/middlewares, pkg/common/httpresponse),   *)
(* with what they write to the log (pkg/logger) and the request id and     *)
(* user that travel with a request (pkg/common/reqctx).                    *)
(*                                                                         *)
(* Abstracted: a valid token is its user, and whether it is valid is the   *)
(* matter of AuthSessions; what a handler does is its outcome.  The four   *)
(* routes without any middleware of their own are one, "public".  The uuid *)
(* minted for a request without an X-Request-ID is that request.  The log  *)
(* is a set: equal lines of one request count as one.                      *)
(* Left out: the lines of starting, of stopping and of the health check.   *)
(***************************************************************************)
EXTENDS Naturals, Sequences, FiniteSets

CONSTANTS
  Requests,
  Users,
  RoleOf,        \* the role of each user
  Nobody,        \* a request without a valid token
  NoInput,       \* the request has not arrived
  Traffic,       \* the routes that clients use
  Tokens,        \* the tokens they present: users, or Nobody
  Headers,       \* the X-Request-IDs that clients send
  NoHeader,      \* none, or an empty one
  Outcomes,      \* what the handler of each route may do, see Outcome
  Notes,         \* the levels at which the usecase behind each route may log
  Unreadable,    \* what the server answers to a request that it cannot read
  LogLevels,     \* the values of LOG_LEVEL
  Environments,  \* the values of APP_ENV
  GeneralMax,    \* 120
  CreateMax,     \* 30
  Window,        \* time.Minute
  MaxClock,      \* bound on the clock
  MaxRestarts    \* bound on the restarts of the process

Roles == {"operator", "admin", "superadmin"}

Public == {"public"}
Posts == {"create", "batch"}
Protected == {"list", "detail", "decide", "remove", "auditLogs"} \cup Posts
Routes == Public \cup Protected

\* The codes of the error shortcuts, and of the senders of a response.
Errors == [badRequest |-> 400, unauthorized |-> 401, forbidden |-> 403, notFound |-> 404,
           conflict |-> 409, unprocessableEntity |-> 422, tooMany |-> 429,
           internal |-> 500, serviceUnavailable |-> 503]
Successes == {200, 201, 204, 207, 400}

\* A handler writes a response (ok), returns an error of its own kind with a
\* code (http), one of the framework's (fiber) or any other, or panics.
Outcome == [kind: {"ok"}, code: Successes]
             \cup [kind: {"http"}, code: {Errors[e] : e \in DOMAIN Errors}]
             \cup [kind: {"fiber"}, code: 400 .. 599]
             \cup [kind: {"other", "panic"}, code: {500}]

NoOutcome == [kind |-> "none", code |-> 0]

\* The response that recovery makes of a panic.
Recovered == [kind |-> "ok", code |-> 500]

ASSUME PipelineAssumption ==
  /\ Nobody \notin Users
  /\ RoleOf \in [Users -> Roles]
  /\ NoHeader \notin Headers /\ Headers \cap Requests = {}
  /\ NoInput \notin [route: Routes, user: Users \cup {Nobody}, header: Headers \cup {NoHeader}]
  /\ Traffic \subseteq Routes /\ Tokens \subseteq Users \cup {Nobody}
  /\ Outcomes \in [Routes -> SUBSET Outcome]
  /\ \A route \in Routes : \A o \in Outcomes[route] :
       o.code \notin {403, 429} /\ (o.code = 401 => route \in Public)
  /\ Notes \in [Routes -> SUBSET {"info", "error"}]
  /\ Unreadable \subseteq (400 .. 599) \ {401, 403, 429}
  /\ LogLevels \subseteq STRING /\ Environments \subseteq STRING
  /\ GeneralMax \in Nat \ {0} /\ CreateMax \in Nat \ {0} /\ Window \in Nat \ {0}
  /\ MaxClock \in Nat /\ MaxRestarts \in Nat

VARIABLES
  meter,     \* the window of each limiter and key: its hits and its end
  log,       \* the lines of the log
  level,     \* LOG_LEVEL
  appEnv,    \* APP_ENV
  clock,     \* the time, in the limiter's unit
  boots,     \* restarts of the process so far
  pc,        \* idle, inside, returned, panicked, erring, answering, done or lost
  input,     \* route, token and X-Request-ID of a request
  scope,     \* the request id and user in its Locals and its context
  place,     \* how many stages of its chain the request has passed
  times,     \* when it passed the limiters among them
  boot,      \* the life of the process the request belongs to
  outcome,   \* what has come of it on its way in, NoOutcome before
  refused,   \* when a middleware refused it
  reply      \* the status code sent to the client

settings == <<level, appEnv>>
locals == <<input, place, times, boot>>
vars == <<meter, log, settings, scope, clock, boots, pc, locals, outcome, refused, reply>>

-----------------------------------------------------------------------------
(* The chains.                                                             *)

Everyone == <<"protect", "general">>
Creators == <<"protect", "general", "create">>
Admins == <<"protect", "general", "admins">>
Superadmins == <<"protect", "general", "superadmins">>

\* Bug: the batch route is registered without createLimit.
ChainFreeBatch(route) ==
  CASE route \in Public -> << >>
    [] route \in {"list", "detail", "batch"} -> Everyone
    [] route = "create" -> Creators
    [] route = "decide" -> Admins
    [] OTHER -> Superadmins

\* Bug: DELETE requires the roles of PATCH.
ChainAdminsRemove(route) ==
  CASE route \in Public -> << >>
    [] route \in {"list", "detail"} -> Everyone
    [] route \in Posts -> Creators
    [] route \in {"decide", "remove"} -> Admins
    [] OTHER -> Superadmins

\* Register: the middleware in front of each handler, in order.
Chain(route) ==
  CASE route \in Public -> << >>
    [] route \in {"list", "detail"} -> Everyone
    [] route \in Posts -> Creators
    [] route = "decide" -> Admins
    [] OTHER -> Superadmins

Limiters == {"general", "create"}
Limit == [general |-> GeneralMax, create |-> CreateMax]

Required == [admins |-> {"admin", "superadmin"}, superadmins |-> {"superadmin"}]

-----------------------------------------------------------------------------
(* The limiter.                                                            *)

Closed == [hits |-> 0, exp |-> 0]

\* Expiration: time.Minute.
WindowEnd == clock + Window

\* The window of a key counts from its first hit; refused requests count too.
Bump(w) ==
  IF clock >= w.exp
    THEN [hits |-> 1, exp |-> WindowEnd]
    ELSE [hits |-> w.hits + 1, exp |-> w.exp]

\* Bug: the key is the same for everybody (the address of a proxy).
KeyShared(r) == CHOOSE u \in Users : input[r].user = input[r].user

\* KeyGenerator: the username.  Protect comes first, so there always is one.
Key(r) == input[r].user

-----------------------------------------------------------------------------
(* The way back.                                                           *)

\* Bug: the logger does not know the framework's errors.
LoggedCodeHttpOnly(o) == IF o.kind \in {"ok", "http"} THEN o.code ELSE 500

\* The status the logger reads off the response or off the error.
LoggedCode(o) == IF o.kind \in {"ok", "http", "fiber"} THEN o.code ELSE 500

\* The status the error handler sends.
SentCode(o) == IF o.kind = "other" THEN 500 ELSE o.code

\* LOG_LEVEL, or its default.
LogLevel == IF level = "" THEN "info" ELSE level

\* NewLogger: only "warn" and "error" silence a line of level info, and nothing
\* silences one of level error; a level it does not know is info.
Emitted(severity) == severity = "error" \/ LogLevel \notin {"warn", "error"}

\* zap.NewProductionConfig samples: of lines of one level and message it drops
\* what comes too often within a second, errors too.
Sampled == appEnv = "production"

\* The kinds of lines: "completed" is the request log's, "note" a usecase's,
\* "failed" the error handler's and "panic" recovery's.
Line(r, kind, severity, code, who) ==
  [request |-> r, kind |-> kind, severity |-> severity, code |-> code,
   id |-> who.id, user |-> who.user]

\* What travels with a request; its fields are "" until they are set.
Scope(id, user) == [id |-> id, user |-> user]
Unknown == Scope(NoHeader, Nobody)

\* How often a line comes is not followed, so in production any may be dropped.
Write(line) ==
  \/ Emitted(line.severity) /\ log' = log \cup {line}
  \/ (Emitted(line.severity) => Sampled) /\ UNCHANGED log

\* Neither the line of a failure nor that of a panic goes through logger.WithCtx.
Completed(r) == Line(r, "completed", "info", LoggedCode(outcome[r]), scope[r])
Failed(r) == Line(r, "failed", "error", SentCode(outcome[r]), Unknown)
Panic(r) == Line(r, "panic", "error", 500, Unknown)

\* logger.WithCtx.
Noted(r, severity) == Line(r, "note", severity, 0, scope[r])

\* The chain ends here, with the outcome o.
Finish(r, o) ==
  /\ pc' = [pc EXCEPT ![r] = IF o.kind = "panic" THEN "panicked" ELSE "returned"]
  /\ outcome' = [outcome EXCEPT ![r] = o]
  /\ UNCHANGED <<log, settings, scope, clock, boots, locals, reply>>

Refuse(r, error) ==
  /\ Finish(r, [kind |-> "http", code |-> Errors[error]])
  /\ refused' = [refused EXCEPT ![r] = clock]

\* The error handler logs what it answers from 500 on.
Unwind(r, o) ==
  pc' = [pc EXCEPT ![r] = IF o.kind # "ok" /\ SentCode(o) >= 500 THEN "erring" ELSE "answering"]

-----------------------------------------------------------------------------
(* Actions.                                                                *)

Init ==
  /\ meter = [l \in Limiters |-> [u \in Users |-> Closed]]
  /\ log = {}
  /\ level \in LogLevels
  /\ appEnv \in Environments
  /\ clock = 0
  /\ boots = 0
  /\ pc = [r \in Requests |-> "idle"]
  /\ input = [r \in Requests |-> NoInput]
  /\ scope = [r \in Requests |-> Unknown]
  /\ place = [r \in Requests |-> 0]
  /\ times = [r \in Requests |-> << >>]
  /\ boot = [r \in Requests |-> 0]
  /\ outcome = [r \in Requests |-> NoOutcome]
  /\ refused = [r \in Requests |-> 0]
  /\ reply = [r \in Requests |-> 0]

\* The middleware of every request: it gets an id, and Recovery, the request
\* log and the error handler stand ready.
Receive(r) ==
  /\ pc[r] = "idle"
  /\ \E route \in Traffic, user \in Tokens, header \in Headers \cup {NoHeader} :
       /\ input' = [input EXCEPT ![r] = [route |-> route, user |-> user, header |-> header]]
       /\ scope' = [scope EXCEPT ![r] = Scope(IF header = NoHeader THEN r ELSE header, Nobody)]
  /\ pc' = [pc EXCEPT ![r] = "inside"]
  /\ boot' = [boot EXCEPT ![r] = boots]
  /\ UNCHANGED <<meter, log, settings, clock, boots, place, times, outcome, refused, reply>>

\* The server cannot read the request (it is too large, or its connection
\* fails), and hands the error to the error handler: there is no context yet.
TurnAway(r) ==
  /\ pc[r] = "idle"
  /\ \E code \in Unreadable :
       LET o == [kind |-> "fiber", code |-> code]
       IN Unwind(r, o) /\ outcome' = [outcome EXCEPT ![r] = o]
  /\ UNCHANGED <<meter, log, settings, scope, clock, boots, locals, refused, reply>>

Stages(r) == Chain(input[r].route)

Stage(r) == Stages(r)[place[r] + 1]

\* The request is about to run one of these stages.
At(r, stages) ==
  /\ pc[r] = "inside"
  /\ place[r] < Len(Stages(r))
  /\ Stage(r) \in stages

\* c.Next().
Pass(r) ==
  /\ place' = [place EXCEPT ![r] = @ + 1]
  /\ UNCHANGED <<log, settings, clock, boots, pc, input, boot, outcome, refused, reply>>

Protect(r) ==
  /\ At(r, {"protect"})
  /\ IF input[r].user = Nobody
       THEN Refuse(r, "unauthorized")
       ELSE /\ Pass(r)
            /\ scope' = [scope EXCEPT ![r] = Scope(@.id, input[r].user)]
            /\ UNCHANGED times
  /\ UNCHANGED meter

Over(l, w) == w.hits > Limit[l]

\* The limiter counts and decides under its lock.
RateLimit(r) ==
  /\ At(r, Limiters)
  /\ LET l == Stage(r)  w == Bump(meter[l][Key(r)])
     IN /\ meter' = [meter EXCEPT ![l][Key(r)] = w]
        /\ IF Over(l, w)
             THEN Refuse(r, "tooMany")
             ELSE /\ Pass(r)
                  /\ times' = [times EXCEPT ![r] = Append(@, clock)]
                  /\ UNCHANGED scope

RequireRoles(r) ==
  /\ At(r, DOMAIN Required)
  /\ IF RoleOf[input[r].user] \in Required[Stage(r)]
       THEN Pass(r) /\ UNCHANGED <<scope, times>>
       ELSE Refuse(r, "forbidden")
  /\ UNCHANGED meter

AtHandler(r) == pc[r] = "inside" /\ place[r] = Len(Stages(r))

\* The usecase logs: nothing, once or often, whatever the outcome.
Note(r) ==
  /\ AtHandler(r)
  /\ \E severity \in Notes[input[r].route] : Write(Noted(r, severity))
  /\ UNCHANGED <<meter, settings, scope, clock, boots, pc, locals, outcome, refused, reply>>

Handle(r) ==
  /\ AtHandler(r)
  /\ \E o \in Outcomes[input[r].route] : Finish(r, o)
  /\ UNCHANGED <<meter, refused>>

\* Recovery logs a panic and turns it into a response 500.
Recover(r) ==
  /\ pc[r] = "panicked"
  /\ Write(Panic(r))
  /\ outcome' = [outcome EXCEPT ![r] = Recovered]
  /\ pc' = [pc EXCEPT ![r] = "returned"]
  /\ UNCHANGED <<meter, settings, scope, clock, boots, locals, refused, reply>>

\* The request log, on the way out.
Complete(r) ==
  /\ pc[r] = "returned"
  /\ Write(Completed(r))
  /\ Unwind(r, outcome[r])
  /\ UNCHANGED <<meter, settings, scope, clock, boots, locals, outcome, refused, reply>>

LogFailure(r) ==
  /\ pc[r] = "erring"
  /\ Write(Failed(r))
  /\ pc' = [pc EXCEPT ![r] = "answering"]
  /\ UNCHANGED <<meter, settings, scope, clock, boots, locals, outcome, refused, reply>>

Respond(r) ==
  /\ pc[r] = "answering"
  /\ reply' = [reply EXCEPT ![r] = SentCode(outcome[r])]
  /\ pc' = [pc EXCEPT ![r] = "done"]
  /\ UNCHANGED <<meter, log, settings, scope, clock, boots, locals, outcome, refused>>

\* On the way through the process.
Busy == {"inside", "panicked", "returned", "erring", "answering"}

\* The process stops and starts again; the meters are in its memory, and what
\* it has logged stays.
Restart ==
  /\ boots < MaxRestarts
  /\ boots' = boots + 1
  /\ meter' = [l \in Limiters |-> [u \in Users |-> Closed]]
  /\ pc' = [r \in Requests |-> IF pc[r] \in Busy THEN "lost" ELSE pc[r]]
  /\ UNCHANGED <<log, settings, scope, clock, locals, outcome, refused, reply>>

Tick ==
  /\ clock < MaxClock
  /\ clock' = clock + 1
  /\ UNCHANGED <<meter, log, settings, scope, boots, pc, locals, outcome, refused, reply>>

In(r) == Protect(r) \/ RateLimit(r) \/ RequireRoles(r) \/ Note(r) \/ Handle(r)

Out(r) == Recover(r) \/ Complete(r) \/ LogFailure(r) \/ Respond(r)

Next == (\E r \in Requests : Receive(r) \/ TurnAway(r) \/ In(r) \/ Out(r)) \/ Restart \/ Tick

Spec == Init /\ [][Next]_vars

-----------------------------------------------------------------------------
(* Properties.                                                             *)

TypeOK ==
  /\ meter \in [Limiters -> [Users -> [hits: Nat, exp: 0 .. (MaxClock + Window)]]]
  /\ log \subseteq [request: Requests, kind: {"completed", "note", "failed", "panic"},
                    severity: {"info", "error"}, code: Nat,
                    id: Headers \cup Requests \cup {NoHeader}, user: Users \cup {Nobody}]
  /\ level \in LogLevels /\ appEnv \in Environments
  /\ clock \in 0 .. MaxClock
  /\ boots \in 0 .. MaxRestarts
  /\ pc \in [Requests -> {"idle", "done", "lost"} \cup Busy]
  /\ input \in [Requests -> [route: Routes, user: Users \cup {Nobody},
                             header: Headers \cup {NoHeader}] \cup {NoInput}]
  /\ scope \in [Requests -> [id: Headers \cup Requests \cup {NoHeader}, user: Users \cup {Nobody}]]
  /\ place \in [Requests -> 0 .. 3]
  /\ times \in [Requests -> Seq(0 .. MaxClock)]
  /\ boot \in [Requests -> 0 .. MaxRestarts]
  /\ outcome \in [Requests -> Outcome \cup {NoOutcome, Recovered}]
  /\ refused \in [Requests -> 0 .. MaxClock]
  /\ reply \in [Requests -> Nat]

\* The request got as far as the middleware.
Sent(r) == input[r] # NoInput

\* The request reached its handler.
Admitted(r) == Sent(r) /\ place[r] = Len(Stages(r))

\* Who may use a route (README.md, "Endpoints").
Granted(route) ==
  CASE route = "decide" -> {"admin", "superadmin"}
    [] route \in {"remove", "auditLogs"} -> {"superadmin"}
    [] OTHER -> Roles

\* Only who may use a route reaches its handler, however the chains are put
\* together; 401 and 403 are for those who may not.
OnlyGranted ==
  \A r \in Requests : Sent(r) =>
    LET route == input[r].route  user == input[r].user
    IN /\ Admitted(r) /\ route \notin Public =>
            user # Nobody /\ RoleOf[user] \in Granted(route)
       /\ reply[r] = 401 => route \in Public \/ user = Nobody
       /\ reply[r] = 403 => user # Nobody /\ RoleOf[user] \notin Granted(route)

\* The requests of a user that passed a limiter (their first one or their
\* second one) in the window of time that ends at t, in one life of the process.
Passed(routes, limiter, user, t, b) ==
  {r \in Requests :
     /\ Sent(r) /\ boot[r] = b
     /\ input[r].user = user /\ input[r].route \in routes
     /\ Len(times[r]) >= limiter
     /\ times[r][limiter] <= t /\ times[r][limiter] + Window > t}

\* The POSTs among them that reached a handler, by their last limiter.
PostsAdmitted(user, t, b) ==
  {r \in Requests :
     Admitted(r) /\ r \in Passed(Posts, Len(times[r]), user, t, b)}

\* In any minute of the limiter's clock at most 59 POSTs of a user, single and
\* batch together, reach a handler, and at most 239 of all requests pass on
\* protected routes, the audit log included: a minute can reach into two
\* windows of 30 and 120, but not to the hit that opened the first of them when
\* the second has begun.  The limiter's clock ticks in whole seconds: in real
\* time all 60 and 240 can fall within slightly less than a minute.  After a
\* restart the count starts again.
SlidingBound ==
  \A user \in Users : \A t \in 0 .. clock : \A b \in 0 .. boots :
    /\ Cardinality(PostsAdmitted(user, t, b)) <= 2 * CreateMax - 1
    /\ Cardinality(Passed(Protected, 1, user, t, b)) <= 2 * GeneralMax - 1

\* A user is refused for what this user did in the last minute, and not for
\* what others did, nor for requests refused already: one of the limits had
\* let through as many requests as it allows.
RefusalEarned ==
  \A r \in Requests : reply[r] = 429 =>
    LET earned(routes, limiter, max) ==
          Cardinality(Passed(routes, limiter, input[r].user, refused[r], boot[r])) >= max
    IN \/ earned(Protected, 1, GeneralMax)
       \/ input[r].route \in Posts /\ earned(Posts, 2, CreateMax)

LinesOf(r, kinds) == {line \in log : line.request = r /\ line.kind \in kinds}

\* The id of the response header and the user of a valid token, where the
\* route looks at tokens.
Named(line, r) ==
  /\ line.id = scope[r].id
  /\ line.user = IF input[r].route \in Public THEN Nobody ELSE input[r].user

Errings(r) == LinesOf(r, {"failed", "panic"})

\* The log tells what became of the requests, at any LOG_LEVEL.  Requests have
\* at most one line with a status and at most one error line of the pipeline;
\* lines can be there before the answer and, after a crash, without it, but if
\* there is one it is the one they tell: the status that the client got, also
\* after an error of any kind or a panic, and an error line only from 500 on.
\* That status, and what a usecase logged, is found under the id that the client
\* was told and its user; ids that clients did not choose are not shared.
\* Without sampling no answer goes before its lines: its status if info is
\* logged at all, and its error from 500 on.
LogTrue ==
  /\ \A r \in Requests :
       /\ Cardinality(LinesOf(r, {"completed"})) <= 1 /\ Cardinality(Errings(r)) <= 1
       /\ \A line \in LinesOf(r, {"completed", "note"}) : Sent(r) /\ Named(line, r)
       /\ reply[r] # 0 =>
            /\ \A line \in LinesOf(r, {"completed"}) : line.code = reply[r]
            /\ reply[r] < 500 => Errings(r) = {}
            /\ ~Sampled =>
                 /\ Sent(r) /\ Emitted("info") => LinesOf(r, {"completed"}) # {}
                 /\ reply[r] >= 500 => Errings(r) # {}
  /\ \A line, other \in log :
       line.id = other.id /\ line.id \notin Headers \cup {NoHeader} =>
         line.request = other.request
=============================================================================
