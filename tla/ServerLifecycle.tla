--------------------------- MODULE ServerLifecycle ---------------------------
(***************************************************************************)
(* The life of the server process: fx builds what cmd/api/server.go lists  *)
(* (configuration, logger, database, routes, app), the start hook of       *)
(* pkg/server/fiber.go listens in a goroutine, the stop hook drains the    *)
(* requests in flight, and the container runtime of compose.yml starts a   *)
(* process that ended by itself anew.  Requests arrive at any time, and    *)
(* MySQL goes down, hangs and comes back at any time; GET /health has a    *)
(* timeout of its own, every other statement waits as long as MySQL does.  *)
(*                                                                         *)
(* Abstracted: what a request other than GET /health does is a number of   *)
(* statements; the timeouts of the ping (2 s) and of fx's stop (15 s) are  *)
(* steps that come some time or other while they are waited for.           *)
(***************************************************************************)
EXTENDS Naturals

CONSTANTS
  Requests,
  MaxStatements,  \* bound on the statements of a request
  MaxFaults       \* bound on the faults of the process and its host

ASSUME ServerAssumption == MaxStatements \in Nat /\ MaxFaults \in Nat

VARIABLES
  phase,     \* building, running, stopping, leaving or exited
  built,     \* the constructors that fx has run
  listener,  \* none, starting (Listen not reached yet), open or closed
  status,    \* the exit status of the process
  asked,     \* somebody stopped the container
  database,  \* what MySQL does with a statement: up, down or hung
  faults,    \* faults so far
  pc,        \* what a request does next
  left,      \* the statements it has yet to issue
  seen,      \* what MySQL was like since it came in
  reply,     \* its answer
  late,      \* it was accepted when the stop hook had returned already
  cutBy      \* the exit status of the process that cut it off

process == <<phase, built, listener, status, asked>>
clients == <<pc, left, seen, reply, late, cutBy>>
vars == <<process, database, faults, clients>>

Databases == {"up", "down", "hung"}

InFlight == {"work", "ping", "pinged", "failed"}

\* What GET /health says, and the ends of other requests: 200 and 500.
Replies == {"ok", "degraded", "done", "error"}

-----------------------------------------------------------------------------
(* What fx builds.                                                         *)

Constructors == {"config", "logger", "pool", "database", "services", "routes", "app", "hooks"}

\* The parameters of the constructors; "pool" and "database" are the two
\* halves of NewMySQL, "services" the repositories, usecases and handlers.
Needs == [config |-> {}, logger |-> {},
          pool |-> {"config", "logger"}, database |-> {"pool"},
          services |-> {"config", "logger", "database"},
          routes |-> {"config", "services"},
          app |-> {"config", "logger", "routes"},
          hooks |-> {"app", "config", "logger"}]

Ready(c) == phase = "building" /\ c \notin built /\ Needs[c] \subseteq built

Construct(c) ==
  /\ built' = built \cup {c}
  /\ UNCHANGED <<phase, listener, status, asked, clients>>

\* The process is gone, and with it the requests it was working on.
Exit(code) ==
  /\ phase' = "exited"
  /\ status' = code
  /\ built' = {}
  /\ listener' = "none"
  /\ pc' = [r \in Requests |-> IF pc[r] \in InFlight THEN "cut" ELSE pc[r]]
  /\ cutBy' = [r \in Requests |-> IF pc[r] \in InFlight THEN code ELSE cutBy[r]]
  /\ UNCHANGED <<left, seen, reply, late>>

Fault == faults < MaxFaults /\ faults' = faults + 1

NoFault == UNCHANGED faults

-----------------------------------------------------------------------------
(* Starting.                                                               *)

Init ==
  /\ phase = "building" /\ built = {} /\ listener = "none"
  /\ status = "none" /\ asked = FALSE
  /\ database \in Databases
  /\ faults = 0
  /\ pc = [r \in Requests |-> "idle"]
  /\ left = [r \in Requests |-> 0]
  /\ seen = [r \in Requests |-> {}]
  /\ reply = [r \in Requests |-> "none"]
  /\ late = [r \in Requests |-> FALSE]
  /\ cutBy = [r \in Requests |-> "none"]

\* Bug: a file that is not there is an error like any other.
ReadConfigStrictly ==
  /\ Ready("config")
  /\ \/ Construct("config") /\ NoFault
     \/ Exit("failed") /\ UNCHANGED asked /\ NoFault
  /\ UNCHANGED database

\* NewViper: without the file the environment has to do; a file that cannot be
\* read or parsed is an error, which ends fx.New.
ReadConfig ==
  /\ Ready("config")
  /\ \/ Construct("config") /\ NoFault
     \/ Fault /\ Exit("failed") /\ UNCHANGED asked
  /\ UNCHANGED database

\* The constructors that only put things together.
Assemble(c) ==
  /\ c \in {"logger", "services", "routes", "app", "hooks"}
  /\ Ready(c)
  /\ Construct(c)
  /\ UNCHANGED <<database, faults>>

\* NewMySQL: first gorm.Open, which asks the server for its version, then
\* Ping.  Neither has a timeout, and an error of either ends fx.New.
ReachMySQL(c) ==
  /\ c \in {"pool", "database"}
  /\ Ready(c)
  /\ database # "hung"
  /\ IF database = "up" THEN Construct(c) ELSE Exit("failed") /\ UNCHANGED asked
  /\ UNCHANGED <<database, faults>>

\* OnStart: Listen is left to a goroutine.
Start ==
  /\ phase = "building" /\ built = Constructors
  /\ phase' = "running"
  /\ listener' = "starting"
  /\ UNCHANGED <<built, status, asked, database, faults, clients>>

\* app.Listen opens the port; log.Fatal if it is taken.
Listen ==
  /\ listener = "starting"
  /\ \/ listener' = "open" /\ UNCHANGED <<phase, built, status, clients>> /\ NoFault
     \/ Fault /\ Exit("failed")
  /\ UNCHANGED <<asked, database>>

\* app.Listen returns an error later on, when nothing can be accepted any
\* more: log.Fatal, without the stop hook.
AcceptFails ==
  /\ listener = "open"
  /\ Fault
  /\ Exit("failed")
  /\ UNCHANGED <<asked, database>>

\* restart: unless-stopped.
Restart ==
  /\ phase = "exited" /\ ~asked
  /\ phase' = "building"
  /\ status' = "none"
  /\ UNCHANGED <<built, listener, asked, database, faults, clients>>

-----------------------------------------------------------------------------
(* Stopping.                                                               *)

\* docker stop: SIGTERM.  fx stops the app if it is up; while it is being
\* built nobody handles the signal, and it ends the process.
Stop ==
  /\ ~asked
  /\ asked' = TRUE
  /\ \/ /\ phase = "running"
        /\ phase' = "stopping"
        /\ UNCHANGED <<built, listener, status, clients>>
     \/ phase = "building" /\ Exit("killed")
     \/ phase = "exited" /\ UNCHANGED <<phase, built, listener, status, clients>>
  /\ UNCHANGED <<database, faults>>

Leave(code) ==
  /\ phase' = "leaving"
  /\ status' = code
  /\ UNCHANGED <<built, listener, asked, database, faults, clients>>

\* OnStop: ShutdownWithContext closes the listener first.
CloseListener ==
  /\ phase = "stopping" /\ listener = "open"
  /\ listener' = "closed"
  /\ UNCHANGED <<phase, built, status, asked, database, faults, clients>>

\* Bug: the hook closes the listener and does not wait.
DrainNobody ==
  /\ phase = "stopping"
  /\ listener \in {"starting", "closed"}
  /\ Leave("ok")

\* ... and then waits until no connection has a request.  Where Listen has not
\* been reached there is nothing to close, and it returns at once.
Drain ==
  /\ phase = "stopping"
  /\ \/ listener = "starting"
     \/ listener = "closed" /\ \A r \in Requests : pc[r] \notin InFlight
  /\ Leave("ok")

\* Bug: no timeout for the stop: app.Shutdown(), and a context without a
\* deadline where fx waits for the hook.
StopWaits ==
  /\ phase = "stopping" /\ listener = "closed"
  /\ \A r \in Requests : pc[r] \notin InFlight
  /\ Leave("failed")

\* The context fx gives the hook ends, whatever the requests wait for.
StopTimesOut ==
  /\ phase = "stopping" /\ listener = "closed"
  /\ Leave("failed")

\* main returns.
Return ==
  /\ phase = "leaving"
  /\ Exit(status)
  /\ UNCHANGED <<asked, database, faults>>

\* SIGKILL: by the runtime, which waits 10 s for a process that fx gives 15,
\* or by the kernel for want of memory.
Kill ==
  /\ phase # "exited"
  /\ Fault
  /\ Exit("killed")
  /\ UNCHANGED <<asked, database>>

-----------------------------------------------------------------------------
(* Requests.                                                               *)

\* A request is accepted: GET /health, or another with some statements.
Arrive(r) ==
  /\ pc[r] = "idle"
  /\ listener = "open"
  /\ \/ pc' = [pc EXCEPT ![r] = "ping"] /\ UNCHANGED left
     \/ /\ pc' = [pc EXCEPT ![r] = "work"]
        /\ \E n \in 0 .. MaxStatements : left' = [left EXCEPT ![r] = n]
  /\ seen' = [seen EXCEPT ![r] = {database}]
  /\ late' = [late EXCEPT ![r] = phase = "leaving"]
  /\ UNCHANGED <<process, database, faults, reply, cutBy>>

Answer(r, said) ==
  /\ pc' = [pc EXCEPT ![r] = "answered"]
  /\ reply' = [reply EXCEPT ![r] = said]
  /\ UNCHANGED <<process, database, faults, left, seen, late, cutBy>>

\* A statement of a handler waits while MySQL hangs, and fails while it is
\* down: 500.
Statement(r) ==
  /\ pc[r] = "work" /\ left[r] > 0
  /\ \/ /\ database = "up"
        /\ left' = [left EXCEPT ![r] = @ - 1]
        /\ UNCHANGED <<process, database, faults, pc, seen, reply, late, cutBy>>
     \/ database = "down" /\ Answer(r, "error")

Respond(r) ==
  /\ pc[r] = "work" /\ left[r] = 0
  /\ Answer(r, "done")

\* Bug: the ping has no timeout.
PingUntimed(r) ==
  /\ pc[r] = "ping"
  /\ database # "hung"
  /\ pc' = [pc EXCEPT ![r] = IF database = "up" THEN "pinged" ELSE "failed"]
  /\ UNCHANGED <<process, database, faults, left, seen, reply, late, cutBy>>

\* PingDB: an error at once while MySQL is down, and after the timeout while it
\* hangs.
Ping(r) ==
  /\ pc[r] = "ping"
  /\ pc' = [pc EXCEPT ![r] = IF database = "up" THEN "pinged" ELSE "failed"]
  /\ UNCHANGED <<process, database, faults, left, seen, reply, late, cutBy>>

\* Bug: the error of the ping is only logged.
StatusAlwaysOK(outcome) == IF outcome \in InFlight THEN "ok" ELSE "degraded"

\* Status: an error of the ping is "degraded".
Status(outcome) == IF outcome = "pinged" THEN "ok" ELSE "degraded"

\* Check: 200 with "ok", or 503 with "degraded".
Check(r) ==
  /\ pc[r] \in {"pinged", "failed"}
  /\ Answer(r, Status(pc[r]))

\* MySQL goes down, hangs, or is back, under every request there is.
DatabaseBecomes(state) ==
  /\ state # database
  /\ database' = state
  /\ seen' = [r \in Requests |-> IF pc[r] \in InFlight THEN seen[r] \cup {state} ELSE seen[r]]
  /\ UNCHANGED <<process, faults, pc, left, reply, late, cutBy>>

-----------------------------------------------------------------------------

Build == ReadConfig \/ (\E c \in Constructors : Assemble(c) \/ ReachMySQL(c))

Shutdown == CloseListener \/ Drain \/ StopTimesOut \/ Return

Step(r) == Statement(r) \/ Respond(r) \/ Ping(r) \/ Check(r)

Next ==
  \/ Build \/ Start \/ Listen \/ AcceptFails \/ Restart
  \/ Stop \/ Shutdown \/ Kill
  \/ \E r \in Requests : Arrive(r) \/ Step(r)
  \/ \E state \in Databases : DatabaseBecomes(state)

Spec == Init /\ [][Next]_vars

\* The process goes on with what it has begun, the runtime restarts it, timers
\* run out, and a request issues its next statement.  Nothing is asked of
\* MySQL, nor of arrivals, stops and faults.
FairSpec ==
  /\ Spec
  /\ WF_vars(Build) /\ WF_vars(Start) /\ WF_vars(Listen) /\ WF_vars(Restart)
  /\ WF_vars(CloseListener) /\ WF_vars(Drain) /\ WF_vars(StopTimesOut) /\ WF_vars(Return)
  /\ \A r \in Requests : WF_vars(Step(r))

-----------------------------------------------------------------------------
(* Properties.                                                             *)

TypeOK ==
  /\ phase \in {"building", "running", "stopping", "leaving", "exited"}
  /\ built \subseteq Constructors
  /\ listener \in {"none", "starting", "open", "closed"}
  /\ status \in {"none", "ok", "failed", "killed"}
  /\ asked \in BOOLEAN
  /\ database \in Databases
  /\ faults \in 0 .. MaxFaults
  /\ pc \in [Requests -> {"idle", "answered", "cut"} \cup InFlight]
  /\ left \in [Requests -> 0 .. MaxStatements]
  /\ seen \in [Requests -> SUBSET Databases]
  /\ reply \in [Requests -> Replies \cup {"none"}]
  /\ late \in [Requests -> BOOLEAN]
  /\ cutBy \in [Requests -> {"none", "ok", "failed", "killed"}]

\* A process that ends with status 0 has answered every request it accepted
\* before its stop hook returned, those it accepted while it was stopping
\* included; so a deployment that looks at the status knows whether somebody
\* was cut off.  The exception is a stop that comes before the goroutine of
\* OnStart has reached Listen: the hook then returns at once, and what Listen
\* accepts after that is cut off by a process that ends well.
CleanExit == \A r \in Requests : cutBy[r] = "ok" => late[r]

\* GET /health is right about some moment between its coming in and its
\* answer: "degraded" is not said of a database that was up throughout, nor
\* "ok" of one that was down or hung throughout.
HealthTrue ==
  \A r \in Requests :
    /\ reply[r] = "degraded" => seen[r] \cap {"down", "hung"} # {}
    /\ reply[r] = "ok" => "up" \in seen[r]

\* A shutdown ends, whatever the requests in flight wait for: fx bounds the
\* stop hook by a context, and ShutdownWithContext heeds it.
StopEnds == phase = "stopping" ~> phase = "exited"

\* GET /health is answered, or its process ends, although MySQL hangs.
HealthAnswers ==
  \A r \in Requests : pc[r] = "ping" ~> pc[r] \in {"answered", "cut"}

\* A process that came up at the wrong moment, or fell, comes back by itself:
\* once MySQL stays up, the server listens again and again, or for good, until
\* it is asked to stop.  (Faults are bounded, so they end as well.)
EventuallyServes == <>[](database = "up") => []<>(listener = "open" \/ asked)
=============================================================================
