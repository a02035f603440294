--------------------------- MODULE Operations_proofs ---------------------------
(***************************************************************************)
(* The safety of what operates the service: of ServerLifecycle for every   *)
(* number of requests, statements and faults, and of Migrations for every  *)
(* number of runs, with faults.  The two share no state.                   *)
(***************************************************************************)
EXTENDS ServerLifecycle, Migrations, TLAPS

-----------------------------------------------------------------------------
(* ServerLifecycle: the inductive invariant.  A process that leaves with   *)
(* status 0 has only late requests, because it had none when it began to   *)
(* leave; and what a ping found was so at some time since its request came *)
(* in.                                                                     *)

Idle == \A r \in Requests : pc[r] \notin InFlight

ServerFits ==
  /\ phase \in {"building", "exited"} => listener = "none"
  /\ listener \in {"none", "starting"} => Idle

Unanswered(r) ==
  /\ pc[r] \in {"idle"} \cup InFlight => reply[r] = "none"
  /\ pc[r] # "cut" => cutBy[r] = "none"

SeenFits(r) ==
  /\ pc[r] \in InFlight => database \in seen[r]
  /\ pc[r] = "pinged" => "up" \in seen[r]
  /\ pc[r] = "failed" => seen[r] \cap {"down", "hung"} # {}

\* The process leaves with status 0.
LeavesWell == phase = "leaving" /\ status = "ok"

LateFits(r) ==
  /\ LeavesWell /\ pc[r] \in InFlight => late[r]
  /\ cutBy[r] = "ok" => late[r]

SaidFits(r) ==
  /\ reply[r] = "degraded" => seen[r] \cap {"down", "hung"} # {}
  /\ reply[r] = "ok" => "up" \in seen[r]

RequestFits(r) == Unanswered(r) /\ SeenFits(r) /\ LateFits(r) /\ SaidFits(r)

IInv ==
  /\ TypeOK
  /\ ServerFits
  /\ \A r \in Requests : RequestFits(r)

ProcessOK ==
  /\ phase \in {"building", "running", "stopping", "leaving", "exited"}
  /\ built \subseteq Constructors
  /\ listener \in {"none", "starting", "open", "closed"}
  /\ status \in {"none", "ok", "failed", "killed"}
  /\ asked \in BOOLEAN
  /\ faults \in 0 .. MaxFaults

-----------------------------------------------------------------------------
(* What the steps have in common.                                          *)

\* A step of the process alone.
LEMMA ProcessKeepsIInv ==
  ASSUME IInv, UNCHANGED <<clients, database>>, ProcessOK', ServerFits',
         LeavesWell' => LeavesWell \/ Idle
  PROVE  IInv'
<1>1. TypeOK'
  BY DEF IInv, TypeOK, ProcessOK, clients
<1>2. ASSUME NEW r \in Requests PROVE RequestFits(r)'
  <2>1. RequestFits(r)
    BY DEF IInv
  <2>2. pc' = pc /\ seen' = seen /\ reply' = reply /\ late' = late /\ cutBy' = cutBy
        /\ database' = database
    BY DEF clients
  <2>3. Unanswered(r)' /\ SeenFits(r)' /\ SaidFits(r)'
    BY <2>1, <2>2 DEF RequestFits, Unanswered, SeenFits, SaidFits
  <2>4. LateFits(r)'
    BY <2>1, <2>2 DEF RequestFits, LateFits, Idle
  <2> QED BY <2>3, <2>4 DEF RequestFits
<1> QED BY <1>1, <1>2 DEF IInv

\* The end of the process, with status 0 only if it leaves well.
LEMMA ExitKeepsIInv ==
  ASSUME IInv, NEW code \in {"none", "ok", "failed", "killed"}, Exit(code),
         code = "ok" => LeavesWell,
         asked' \in BOOLEAN, faults' \in 0 .. MaxFaults, database' = database
  PROVE  IInv'
<1>1. ASSUME NEW r \in Requests
      PROVE  /\ pc'[r] = (IF pc[r] \in InFlight THEN "cut" ELSE pc[r])
             /\ cutBy'[r] = IF pc[r] \in InFlight THEN code ELSE cutBy[r]
  BY DEF Exit
<1>2. UNCHANGED <<left, seen, reply, late>>
  BY DEF Exit
<1>3. TypeOK'
  <2>1. pc' \in [Requests -> {"idle", "answered", "cut"} \cup InFlight]
    BY DEF Exit, IInv, TypeOK
  <2>2. cutBy' \in [Requests -> {"none", "ok", "failed", "killed"}]
    BY DEF Exit, IInv, TypeOK
  <2>3. /\ phase' = "exited" /\ status' = code
        /\ built' = {} /\ listener' = "none"
    BY DEF Exit
  <2> QED BY <1>2, <2>1, <2>2, <2>3 DEF IInv, TypeOK
<1>4. ServerFits'
  BY <1>1 DEF Exit, ServerFits, Idle, InFlight
<1>5. ASSUME NEW r \in Requests PROVE RequestFits(r)'
  <2>1. RequestFits(r)
    BY DEF IInv
  <2>2. pc'[r] \notin InFlight
    BY <1>1 DEF InFlight
  <2>3. Unanswered(r)'
    BY <1>1, <1>2, <2>1 DEF RequestFits, Unanswered, InFlight
  <2>4. SeenFits(r)' /\ SaidFits(r)'
    BY <1>2, <2>1, <2>2 DEF RequestFits, SeenFits, SaidFits, InFlight
  <2>5. LateFits(r)'
    BY <1>1, <1>2, <2>1, <2>2 DEF RequestFits, LateFits
  <2> QED BY <2>3, <2>4, <2>5 DEF RequestFits
<1> QED BY <1>3, <1>4, <1>5 DEF IInv

\* A step of one request, which stays in flight or is answered.
LEMMA RequestKeepsIInv ==
  ASSUME IInv, NEW q \in Requests, NEW label \in {"answered"} \cup InFlight,
         pc' = [pc EXCEPT ![q] = label],
         UNCHANGED <<process, database, faults>>,
         left' \in [Requests -> 0 .. MaxStatements],
         seen' \in [Requests -> SUBSET Databases],
         reply' \in [Requests -> Replies \cup {"none"}],
         late' \in [Requests -> BOOLEAN],
         cutBy' = cutBy,
         \A r \in Requests \ {q} :
           seen'[r] = seen[r] /\ reply'[r] = reply[r] /\ late'[r] = late[r],
         label \in InFlight => listener \notin {"none", "starting"},
         RequestFits(q)'
  PROVE  IInv'
<1>1. TypeOK'
  BY DEF IInv, TypeOK, process
<1>2. ServerFits'
  BY DEF IInv, TypeOK, ServerFits, Idle, process, InFlight
<1>3. ASSUME NEW r \in Requests, r # q PROVE RequestFits(r)'
  <2>1. RequestFits(r)
    BY DEF IInv
  <2>2. /\ pc'[r] = pc[r] /\ seen'[r] = seen[r] /\ reply'[r] = reply[r]
        /\ late'[r] = late[r] /\ cutBy'[r] = cutBy[r]
        /\ database' = database /\ phase' = phase /\ status' = status
    BY <1>3 DEF IInv, TypeOK, process
  <2> QED BY <2>1, <2>2 DEF RequestFits, Unanswered, SeenFits, LateFits, LeavesWell, SaidFits
<1> QED BY <1>1, <1>2, <1>3 DEF IInv

-----------------------------------------------------------------------------
(* The actions of the process.                                             *)

LEMMA InitIInv == Init => IInv
<1> SUFFICES ASSUME Init PROVE IInv
  OBVIOUS
<1>1. TypeOK
  <2>1. 0 \in 0 .. MaxFaults /\ 0 \in 0 .. MaxStatements
    BY ServerAssumption
  <2> QED BY <2>1 DEF Init, TypeOK
<1>2. ServerFits
  BY DEF Init, ServerFits, Idle, InFlight
<1>3. ASSUME NEW r \in Requests PROVE RequestFits(r)
  BY DEF Init, RequestFits, Unanswered, SeenFits, LateFits, SaidFits, InFlight
<1> QED BY <1>1, <1>2, <1>3 DEF IInv

LEMMA FaultFits ==
  ASSUME IInv, Fault
  PROVE  faults' \in 0 .. MaxFaults
  BY ServerAssumption DEF IInv, TypeOK, Fault

LEMMA ConstructKeepsIInv ==
  ASSUME IInv, NEW c \in Constructors, Ready(c), Construct(c), UNCHANGED <<database, faults>>
  PROVE  IInv'
<1>1. ProcessOK' /\ ServerFits'
  BY DEF IInv, TypeOK, Construct, Ready, ProcessOK, ServerFits, Idle, clients
<1>2. LeavesWell' => LeavesWell
  BY DEF Construct, LeavesWell
<1> QED BY <1>1, <1>2, ProcessKeepsIInv DEF Construct

LEMMA BuildKeepsIInv ==
  ASSUME IInv, Build
  PROVE  IInv'
<1>1. CASE ReadConfig
  <2>1. CASE Construct("config") /\ NoFault
    BY <1>1, <2>1, ConstructKeepsIInv DEF ReadConfig, NoFault, Constructors
  <2>2. CASE Fault /\ Exit("failed") /\ UNCHANGED asked
    BY <1>1, <2>2, FaultFits, ExitKeepsIInv DEF ReadConfig, IInv, TypeOK
  <2> QED BY <1>1, <2>1, <2>2 DEF ReadConfig
<1>2. ASSUME NEW c \in Constructors, Assemble(c) PROVE IInv'
  BY <1>2, ConstructKeepsIInv DEF Assemble
<1>3. ASSUME NEW c \in Constructors, ReachMySQL(c) PROVE IInv'
  <2>1. CASE database = "up"
    BY <1>3, <2>1, ConstructKeepsIInv DEF ReachMySQL
  <2>2. CASE database # "up"
    BY <1>3, <2>2, ExitKeepsIInv DEF ReachMySQL, IInv, TypeOK
  <2> QED BY <2>1, <2>2
<1> QED BY <1>1, <1>2, <1>3 DEF Build

LEMMA StartKeepsIInv == ASSUME IInv, Start PROVE IInv'
<1>1. ProcessOK' /\ ServerFits'
  BY DEF IInv, TypeOK, Start, ProcessOK, ServerFits, Idle, clients
<1>2. ~LeavesWell'
  BY DEF Start, LeavesWell
<1> QED BY <1>1, <1>2, ProcessKeepsIInv DEF Start

LEMMA ListenKeepsIInv == ASSUME IInv, Listen PROVE IInv'
<1>1. CASE listener' = "open" /\ UNCHANGED <<phase, built, status, clients>> /\ NoFault
  <2>1. ProcessOK' /\ ServerFits'
    BY <1>1 DEF IInv, TypeOK, Listen, NoFault, ProcessOK, ServerFits, Idle, clients
  <2>2. LeavesWell' => LeavesWell
    BY <1>1 DEF LeavesWell
  <2> QED BY <1>1, <2>1, <2>2, ProcessKeepsIInv DEF Listen
<1>2. CASE Fault /\ Exit("failed")
  BY <1>2, FaultFits, ExitKeepsIInv DEF Listen, IInv, TypeOK
<1> QED BY <1>1, <1>2 DEF Listen

LEMMA RestartKeepsIInv == ASSUME IInv, Restart PROVE IInv'
<1>1. ProcessOK' /\ ServerFits'
  BY DEF IInv, TypeOK, Restart, ProcessOK, ServerFits, Idle, clients
<1>2. ~LeavesWell'
  BY DEF Restart, LeavesWell
<1> QED BY <1>1, <1>2, ProcessKeepsIInv DEF Restart

LEMMA StopKeepsIInv == ASSUME IInv, Stop PROVE IInv'
<1>1. CASE /\ phase = "running" /\ phase' = "stopping"
           /\ UNCHANGED <<built, listener, status, clients>>
  <2>1. ProcessOK' /\ ServerFits'
    BY <1>1 DEF IInv, TypeOK, Stop, ProcessOK, ServerFits, Idle, clients
  <2>2. ~LeavesWell'
    BY <1>1 DEF LeavesWell
  <2> QED BY <1>1, <2>1, <2>2, ProcessKeepsIInv DEF Stop
<1>2. CASE phase = "building" /\ Exit("killed")
  BY <1>2, ExitKeepsIInv DEF Stop, IInv, TypeOK
<1>3. CASE phase = "exited" /\ UNCHANGED <<phase, built, listener, status, clients>>
  <2>1. ProcessOK' /\ ServerFits'
    BY <1>3 DEF IInv, TypeOK, Stop, ProcessOK, ServerFits, Idle, clients
  <2>2. ~LeavesWell'
    BY <1>3 DEF LeavesWell
  <2> QED BY <1>3, <2>1, <2>2, ProcessKeepsIInv DEF Stop
<1> QED BY <1>1, <1>2, <1>3 DEF Stop

\* The stop hook returns: nil only if no request is in flight.
LEMMA LeaveKeepsIInv ==
  ASSUME IInv, NEW code \in {"ok", "failed"}, Leave(code), code = "ok" => Idle
  PROVE  IInv'
<1>1. ProcessOK' /\ ServerFits'
  BY DEF IInv, TypeOK, Leave, ProcessOK, ServerFits, Idle, clients
<1>2. LeavesWell' => Idle
  BY DEF Leave, LeavesWell
<1> QED BY <1>1, <1>2, ProcessKeepsIInv DEF Leave

LEMMA ShutdownKeepsIInv == ASSUME IInv, Shutdown PROVE IInv'
<1>1. CASE CloseListener
  <2>1. ProcessOK' /\ ServerFits'
    BY <1>1 DEF IInv, TypeOK, CloseListener, ProcessOK, ServerFits, Idle, clients
  <2>2. ~LeavesWell'
    BY <1>1 DEF CloseListener, LeavesWell
  <2> QED BY <1>1, <2>1, <2>2, ProcessKeepsIInv DEF CloseListener
<1>2. CASE Drain
  <2>1. Idle
    BY <1>2 DEF Drain, IInv, ServerFits, Idle
  <2> QED BY <1>2, <2>1, LeaveKeepsIInv DEF Drain
<1>3. CASE StopTimesOut
  BY <1>3, LeaveKeepsIInv DEF StopTimesOut
<1>4. CASE Return
  BY <1>4, ExitKeepsIInv DEF Return, LeavesWell, IInv, TypeOK
<1> QED BY <1>1, <1>2, <1>3, <1>4 DEF Shutdown

-----------------------------------------------------------------------------
(* The actions of the requests, and of MySQL.                              *)

LEMMA AnswerKeepsIInv ==
  ASSUME IInv, NEW q \in Requests, NEW said \in Replies, Answer(q, said),
         pc[q] \in InFlight,
         said = "degraded" => pc[q] = "failed",
         said = "ok" => pc[q] = "pinged"
  PROVE  IInv'
<1>1. RequestFits(q)
  BY DEF IInv
<1>2. /\ pc'[q] = "answered" /\ reply'[q] = said
      /\ UNCHANGED <<process, database, faults, left, seen, late, cutBy>>
      /\ reply' \in [Requests -> Replies \cup {"none"}]
      /\ \A r \in Requests \ {q} : reply'[r] = reply[r]
  BY DEF Answer, IInv, TypeOK
<1>3. RequestFits(q)'
  BY <1>1, <1>2 DEF RequestFits, Unanswered, SeenFits, LateFits, SaidFits, InFlight
<1>4. /\ left' \in [Requests -> 0 .. MaxStatements]
      /\ seen' \in [Requests -> SUBSET Databases]
      /\ late' \in [Requests -> BOOLEAN]
  BY <1>2 DEF IInv, TypeOK
<1>5. pc' = [pc EXCEPT ![q] = "answered"] /\ "answered" \notin InFlight
  BY DEF Answer, InFlight
<1> QED BY <1>2, <1>3, <1>4, <1>5, RequestKeepsIInv

LEMMA ArriveKeepsIInv ==
  ASSUME IInv, NEW q \in Requests, Arrive(q)
  PROVE  IInv'
<1>1. RequestFits(q) /\ TypeOK
  BY DEF IInv
<1>2. PICK label \in {"ping", "work"} : pc' = [pc EXCEPT ![q] = label]
  BY DEF Arrive
<1>3. left' \in [Requests -> 0 .. MaxStatements]
  BY <1>1 DEF Arrive, TypeOK
<1>4. /\ seen' = [seen EXCEPT ![q] = {database}]
      /\ late' = [late EXCEPT ![q] = phase = "leaving"]
      /\ UNCHANGED <<process, database, faults, reply, cutBy>>
      /\ pc[q] = "idle" /\ listener = "open"
  BY DEF Arrive
<1>5. pc'[q] = label /\ seen'[q] = {database} /\ late'[q] = (phase = "leaving")
  BY <1>1, <1>2, <1>4 DEF TypeOK
<1>6. /\ seen' \in [Requests -> SUBSET Databases] /\ late' \in [Requests -> BOOLEAN]
      /\ \A r \in Requests \ {q} : seen'[r] = seen[r] /\ late'[r] = late[r]
  BY <1>1, <1>4 DEF TypeOK
<1>7. RequestFits(q)'
  <2>1. reply'[q] = "none" /\ cutBy'[q] = "none"
    BY <1>1, <1>4 DEF RequestFits, Unanswered
  <2>2. LeavesWell' => late'[q]
    BY <1>4, <1>5 DEF LeavesWell, process
  <2> QED BY <1>4, <1>5, <2>1, <2>2
      DEF RequestFits, Unanswered, SeenFits, LateFits, SaidFits
<1>8. reply' \in [Requests -> Replies \cup {"none"}]
  BY <1>1, <1>4 DEF TypeOK
<1>9. label \in {"answered"} \cup InFlight
  BY <1>2 DEF InFlight
<1> QED BY <1>2, <1>3, <1>4, <1>6, <1>7, <1>8, <1>9, RequestKeepsIInv

LEMMA StatementKeepsIInv ==
  ASSUME IInv, NEW q \in Requests, Statement(q)
  PROVE  IInv'
<1>1. CASE database = "down" /\ Answer(q, "error")
  BY <1>1, AnswerKeepsIInv DEF Statement, InFlight, Replies
<1>2. CASE /\ database = "up"
           /\ left' = [left EXCEPT ![q] = left[q] - 1]
           /\ UNCHANGED <<process, database, faults, pc, seen, reply, late, cutBy>>
  <2>1. left' \in [Requests -> 0 .. MaxStatements]
    BY <1>2, ServerAssumption DEF Statement, IInv, TypeOK
  <2>2. TypeOK'
    BY <1>2, <2>1 DEF IInv, TypeOK, process
  <2>3. ServerFits'
    BY <1>2 DEF IInv, ServerFits, Idle, process
  <2>4. \A r \in Requests : RequestFits(r)'
    BY <1>2 DEF IInv, RequestFits, Unanswered, SeenFits, LateFits, LeavesWell, SaidFits, process
  <2> QED BY <2>2, <2>3, <2>4 DEF IInv
<1> QED BY <1>1, <1>2 DEF Statement

LEMMA PingKeepsIInv ==
  ASSUME IInv, NEW q \in Requests, Ping(q)
  PROVE  IInv'
<1>1. RequestFits(q) /\ TypeOK
  BY DEF IInv
<1>2. PICK label \in {"pinged", "failed"} :
        /\ label = (IF database = "up" THEN "pinged" ELSE "failed")
        /\ pc' = [pc EXCEPT ![q] = label]
  BY DEF Ping
<1>3. UNCHANGED <<process, database, faults, left, seen, reply, late, cutBy>> /\ pc[q] = "ping"
  BY DEF Ping
<1>4. pc'[q] = label /\ label \in InFlight /\ pc[q] \in InFlight
  BY <1>1, <1>2, <1>3 DEF TypeOK, InFlight
<1>5. database \in {"up", "down", "hung"} /\ database \in seen[q]
  BY <1>1, <1>4 DEF TypeOK, Databases, RequestFits, SeenFits
<1>6. SeenFits(q)'
  BY <1>2, <1>3, <1>4, <1>5 DEF SeenFits
<1>7. RequestFits(q)'
  BY <1>1, <1>3, <1>4, <1>6
  DEF RequestFits, Unanswered, LateFits, LeavesWell, SaidFits, process, InFlight
<1>8. listener \notin {"none", "starting"}
  BY <1>4 DEF IInv, ServerFits, Idle
<1> QED BY <1>1, <1>2, <1>3, <1>4, <1>7, <1>8, RequestKeepsIInv DEF TypeOK

LEMMA StepKeepsIInv ==
  ASSUME IInv, NEW q \in Requests, Step(q)
  PROVE  IInv'
<1>1. CASE Statement(q)
  BY <1>1, StatementKeepsIInv
<1>2. CASE Respond(q)
  BY <1>2, AnswerKeepsIInv DEF Respond, InFlight, Replies
<1>3. CASE Ping(q)
  BY <1>3, PingKeepsIInv
<1>4. CASE Check(q)
  <2>1. Status(pc[q]) = IF pc[q] = "pinged" THEN "ok" ELSE "degraded"
    BY DEF Status
  <2> QED BY <1>4, <2>1, AnswerKeepsIInv DEF Check, InFlight, Replies
<1> QED BY <1>1, <1>2, <1>3, <1>4 DEF Step

LEMMA DatabaseKeepsIInv ==
  ASSUME IInv, NEW state \in Databases, DatabaseBecomes(state)
  PROVE  IInv'
<1>1. ASSUME NEW r \in Requests
      PROVE  seen'[r] = IF pc[r] \in InFlight THEN seen[r] \cup {state} ELSE seen[r]
  BY DEF DatabaseBecomes
<1>2. database' = state /\ UNCHANGED <<process, faults, pc, left, reply, late, cutBy>>
  BY DEF DatabaseBecomes
<1>3. TypeOK'
  <2>1. seen' \in [Requests -> SUBSET Databases]
    BY DEF DatabaseBecomes, IInv, TypeOK
  <2> QED BY <1>2, <2>1 DEF IInv, TypeOK, process
<1>4. ServerFits'
  BY <1>2 DEF IInv, ServerFits, Idle, process
<1>5. ASSUME NEW r \in Requests PROVE RequestFits(r)'
  <2>1. RequestFits(r) /\ seen[r] \subseteq seen'[r]
    BY <1>1 DEF IInv
  <2>2. SeenFits(r)'
    BY <1>1, <1>2, <2>1 DEF RequestFits, SeenFits
  <2>3. SaidFits(r)'
    BY <1>2, <2>1 DEF RequestFits, SaidFits
  <2>4. Unanswered(r)' /\ LateFits(r)'
    BY <1>2, <2>1 DEF RequestFits, Unanswered, LateFits, LeavesWell, process
  <2> QED BY <2>2, <2>3, <2>4 DEF RequestFits
<1> QED BY <1>3, <1>4, <1>5 DEF IInv

LEMMA NextKeepsIInv == IInv /\ [Next]_vars => IInv'
<1> SUFFICES ASSUME IInv, [Next]_vars PROVE IInv'
  OBVIOUS
<1>1. CASE UNCHANGED vars
  <2>1. ProcessOK' /\ ServerFits' /\ (LeavesWell' => LeavesWell)
    BY <1>1 DEF IInv, TypeOK, ProcessOK, ServerFits, Idle, LeavesWell, vars, process, clients
  <2> QED BY <1>1, <2>1, ProcessKeepsIInv DEF vars
<1>2. CASE Build
  BY <1>2, BuildKeepsIInv
<1>3. CASE Start
  BY <1>3, StartKeepsIInv
<1>4. CASE Listen
  BY <1>4, ListenKeepsIInv
<1>5. CASE AcceptFails
  BY <1>5, FaultFits, ExitKeepsIInv DEF AcceptFails, IInv, TypeOK
<1>6. CASE Restart
  BY <1>6, RestartKeepsIInv
<1>7. CASE Stop
  BY <1>7, StopKeepsIInv
<1>8. CASE Shutdown
  BY <1>8, ShutdownKeepsIInv
<1>9. CASE Kill
  BY <1>9, FaultFits, ExitKeepsIInv DEF Kill, IInv, TypeOK
<1>10. ASSUME NEW r \in Requests, Arrive(r) PROVE IInv'
  BY <1>10, ArriveKeepsIInv
<1>11. ASSUME NEW r \in Requests, Step(r) PROVE IInv'
  BY <1>11, StepKeepsIInv
<1>12. ASSUME NEW state \in Databases, DatabaseBecomes(state) PROVE IInv'
  BY <1>12, DatabaseKeepsIInv
<1> QED BY <1>1, <1>2, <1>3, <1>4, <1>5, <1>6, <1>7, <1>8, <1>9, <1>10, <1>11, <1>12 DEF Next

THEOREM Invariant == Spec => []IInv
BY InitIInv, NextKeepsIInv, PTL DEF Spec

-----------------------------------------------------------------------------
(* The theorems.                                                           *)

\* Every variable keeps its type.
THEOREM TypeCorrect == Spec => []TypeOK
<1>1. IInv => TypeOK
  BY DEF IInv
<1> QED BY <1>1, Invariant, PTL

\* However many requests, statements and faults there are, a process that
\* ends with status 0 has answered what it accepted before its stop hook
\* returned.
THEOREM ExitIsClean == Spec => []CleanExit
<1>1. IInv => CleanExit
  BY DEF IInv, RequestFits, LateFits, CleanExit
<1> QED BY <1>1, Invariant, PTL

\* GET /health is right about some moment of its wait, whatever MySQL does in
\* the meantime and however often.
THEOREM HealthIsTrue == Spec => []HealthTrue
<1>1. IInv => HealthTrue
  BY DEF IInv, RequestFits, SaidFits, HealthTrue
<1> QED BY <1>1, Invariant, PTL

-----------------------------------------------------------------------------
(* Migrations: the inductive invariant.  A run that is not crossed has had *)
(* the schema to itself and to runs of its own direction since it started, *)
(* so that what its statements have done is still done.                    *)

\* What statement s does is done.
Holds(s) ==
  /\ s.do = "create" => s.table \in schema
  /\ s.do = "drop" => s.table \notin schema /\ (s.table = "users" => ~seeded)
  /\ s.do = "seed" => seeded

PlaceFits(m) ==
  /\ progress[m] = "idle" => place[m] = 1
  /\ progress[m] \in Active => place[m] <= Len(File(m))
  /\ place[m] <= Len(File(m)) + 1
  /\ progress[m] = "applied" => place[m] = Len(File(m)) + 1

Undisturbed(m) == progress[m] # "idle" /\ ~crossed[m]

RunFits(m) ==
  Undisturbed(m) =>
    /\ \A n \in Runs : progress[n] \in Active => way[n] = way[m]
    /\ \A k \in 1 .. (place[m] - 1) : Holds(File(m)[k])
    /\ progress[m] # "refused"

MIInv ==
  /\ MTypeOK
  /\ \A m \in Runs : PlaceFits(m) /\ RunFits(m)

-----------------------------------------------------------------------------
(* The files.                                                              *)

LEMMA UpFacts ==
  /\ Len(Up) = 6
  /\ Up[1] = Create("users") /\ Up[2] = Create("refresh_tokens")
  /\ Up[3] = Create("disbursements") /\ Up[4] = Create("idempotency_keys")
  /\ Up[5] = Create("audit_logs") /\ Up[6] = [do |-> "seed", table |-> "users"]
  BY DEF Up

LEMMA DownFacts ==
  /\ Len(Down) = 5
  /\ Down[1] = Drop("audit_logs") /\ Down[2] = Drop("idempotency_keys")
  /\ Down[3] = Drop("disbursements") /\ Down[4] = Drop("refresh_tokens")
  /\ Down[5] = Drop("users")
  BY DEF Down

\* The statements of a file are all of its direction.
LEMMA UpStatements ==
  ASSUME NEW k \in 1 .. 6
  PROVE  Up[k] \in SQL /\ Up[k].do \in {"create", "seed"}
<1>1. k = 1 \/ k = 2 \/ k = 3 \/ k = 4 \/ k = 5 \/ k = 6
  OBVIOUS
<1> QED BY <1>1, UpFacts DEF Create, SQL, Tables

LEMMA DownStatements ==
  ASSUME NEW k \in 1 .. 5
  PROVE  Down[k] \in SQL /\ Down[k].do = "drop"
<1>1. k = 1 \/ k = 2 \/ k = 3 \/ k = 4 \/ k = 5
  OBVIOUS
<1> QED BY <1>1, DownFacts DEF Drop, SQL, Tables

LEMMA FileFacts ==
  ASSUME MTypeOK, NEW m \in Runs
  PROVE  /\ way[m] = "up" => File(m) = Up /\ Len(File(m)) = 6
         /\ way[m] = "down" => File(m) = Down /\ Len(File(m)) = 5
         /\ way[m] \in {"up", "down"}
         /\ \A k \in 1 .. Len(File(m)) :
              /\ File(m)[k] \in SQL
              /\ way[m] = "up" => File(m)[k].do \in {"create", "seed"}
              /\ way[m] = "down" => File(m)[k].do = "drop"
<1>1. way[m] \in {"up", "down"}
  BY DEF MTypeOK
<1>2. way[m] = "up" => File(m) = Up /\ Len(File(m)) = 6
  BY UpFacts DEF File
<1>3. way[m] = "down" => File(m) = Down /\ Len(File(m)) = 5
  BY DownFacts DEF File
<1> QED BY <1>1, <1>2, <1>3, UpStatements, DownStatements

-----------------------------------------------------------------------------
(* What a statement does.                                                  *)

\* After a statement, what it does is done.
LEMMA EffectHolds ==
  ASSUME NEW s \in SQL, Effect(s)
  PROVE  Holds(s)'
<1>1. CASE s.do = "create"
  BY <1>1 DEF Effect, Holds, SQL
<1>2. CASE s.do = "drop"
  BY <1>2 DEF Effect, Holds, SQL
<1>3. CASE s.do = "seed"
  BY <1>3 DEF Effect, Holds, SQL
<1> QED BY <1>1, <1>2, <1>3 DEF SQL

LEMMA EffectTypes ==
  ASSUME NEW s \in SQL, Effect(s), schema \subseteq Tables, seeded \in BOOLEAN
  PROVE  schema' \subseteq Tables /\ seeded' \in BOOLEAN
<1>1. CASE s.do = "create"
  BY <1>1 DEF Effect, SQL
<1>2. CASE s.do = "drop"
  BY <1>2 DEF Effect, SQL
<1>3. CASE s.do = "seed"
  BY <1>3 DEF Effect, SQL
<1> QED BY <1>1, <1>2, <1>3 DEF SQL

\* A statement undoes nothing that one of its direction has done.
LEMMA EffectKeeps ==
  ASSUME NEW s \in SQL, NEW t \in SQL, Effect(t), Holds(s),
         s.do = "drop" <=> t.do = "drop"
  PROVE  Holds(s)'
<1>1. CASE t.do = "create"
  BY <1>1 DEF Effect, Holds, SQL
<1>2. CASE t.do = "drop"
  BY <1>2 DEF Effect, Holds, SQL
<1>3. CASE t.do = "seed"
  BY <1>3 DEF Effect, Holds, SQL
<1> QED BY <1>1, <1>2, <1>3 DEF SQL

\* A statement whose predecessors are done is not refused.
LEMMA InOrderNotRefused ==
  ASSUME MTypeOK, NEW m \in Runs, place[m] \in 1 .. Len(File(m)),
         \A k \in 1 .. (place[m] - 1) : Holds(File(m)[k])
  PROVE  ~Refused(File(m)[place[m]])
<1>1. CASE way[m] = "up"
  <2>1. place[m] > 1 => "users" \in schema
    BY <1>1, FileFacts, UpFacts DEF Holds, Create
  <2>2. place[m] \in 1 .. 6 /\ File(m) = Up
    BY <1>1, FileFacts
  <2>3. CASE place[m] = 1
    BY <2>2, <2>3, UpFacts DEF Refused, Create
  <2>4. CASE place[m] # 1
    <3>1. Up[place[m]].do \in {"create", "seed"}
      BY <2>2, UpStatements
    <3>2. "users" \in schema
      BY <2>1, <2>2, <2>4
    <3>3. Up[place[m]].do = "create" => ~Refused(Up[place[m]])
      BY <3>2 DEF Refused
    <3>4. Up[place[m]].do = "seed" => ~Refused(Up[place[m]])
      BY <3>2 DEF Refused
    <3> QED BY <2>2, <3>1, <3>3, <3>4
  <2> QED BY <2>3, <2>4
<1>2. CASE way[m] = "down"
  <2>1. place[m] \in 1 .. 5 /\ File(m) = Down
    BY <1>2, FileFacts
  <2>2. CASE place[m] = 5
    <3>1. Holds(Down[4])
      BY <2>1, <2>2
    <3> QED BY <2>1, <2>2, <3>1, DownFacts DEF Holds, Refused, Drop
  <2>3. CASE place[m] # 5
    <3>1. place[m] = 1 \/ place[m] = 2 \/ place[m] = 3 \/ place[m] = 4
      BY <2>1, <2>3
    <3>2. Down[place[m]].do = "drop" /\ Down[place[m]].table # "users"
      BY <3>1, DownFacts DEF Drop
    <3> QED BY <2>1, <3>2 DEF Refused
  <2> QED BY <2>2, <2>3
<1> QED BY <1>1, <1>2, FileFacts

-----------------------------------------------------------------------------
(* The actions.                                                            *)

LEMMA InitMIInv == MInit => MIInv
<1> SUFFICES ASSUME MInit PROVE MIInv
  OBVIOUS
<1>1. MTypeOK
  <2>1. 1 \in 1 .. (Len(Up) + 1)
    BY UpFacts
  <2> QED BY <2>1 DEF MInit, MTypeOK
<1>2. ASSUME NEW m \in Runs PROVE PlaceFits(m) /\ RunFits(m)
  <2>1. progress[m] = "idle" /\ place[m] = 1
    BY DEF MInit
  <2>2. 1 <= Len(File(m)) + 1
    BY UpFacts, DownFacts DEF File
  <2> QED BY <2>1, <2>2 DEF PlaceFits, RunFits, Undisturbed, Active
<1> QED BY <1>1, <1>2 DEF MIInv

\* A run that only ends, or only loses its client.
LEMMA EndKeepsMIInv ==
  ASSUME MIInv, NEW q \in Runs, NEW state \in {"failed", "orphan"},
         progress[q] \in Active, progress' = [progress EXCEPT ![q] = state],
         UNCHANGED <<schema, seeded, way, place, crossed>>
  PROVE  MIInv'
<1>1. MTypeOK'
  BY DEF MIInv, MTypeOK, Active
<1>2. ASSUME NEW m \in Runs PROVE PlaceFits(m)' /\ RunFits(m)'
  <2>1. progress'[m] = IF m = q THEN state ELSE progress[m]
    BY DEF MIInv, MTypeOK
  <2>2. File(m)' = File(m)
    BY DEF File
  <2>3. PlaceFits(m)'
    BY <2>1, <2>2 DEF MIInv, PlaceFits, Active
  <2>4. \A n \in Runs : progress'[n] \in Active => progress[n] \in Active
    BY DEF MIInv, MTypeOK, Active
  <2>5. Undisturbed(m)' => Undisturbed(m)
    BY <2>1 DEF Undisturbed, Active
  <2>6. \A k \in 1 .. (place[m] - 1) : Holds(File(m)[k])' <=> Holds(File(m)[k])
    BY <2>2 DEF Holds
  <2>7. RunFits(m)'
    BY <2>1, <2>2, <2>4, <2>5, <2>6 DEF MIInv, RunFits, Active
  <2> QED BY <2>3, <2>7
<1> QED BY <1>1, <1>2 DEF MIInv

LEMMA LaunchKeepsMIInv ==
  ASSUME MIInv, NEW q \in Runs, NEW w \in {"up", "down"}, Launch(q, w)
  PROVE  MIInv'
<1>1. MTypeOK'
  BY DEF MIInv, MTypeOK, Launch, Active
<1>2. ASSUME NEW m \in Runs PROVE PlaceFits(m)' /\ RunFits(m)'
  <2>1. progress[q] = "idle" /\ place[q] = 1
    BY DEF MIInv, PlaceFits, Launch
  <2>2. /\ progress'[m] = IF m = q THEN "running" ELSE progress[m]
        /\ way'[m] = IF m = q THEN w ELSE way[m]
    BY DEF Launch, MIInv, MTypeOK
  <2>3. place'[m] = place[m] /\ schema' = schema /\ seeded' = seeded
    BY DEF Launch
  <2>4. CASE m = q
    <3>1. place'[m] = 1 /\ progress'[m] = "running"
      BY <2>1, <2>2, <2>3, <2>4
    <3>3. PlaceFits(m)'
      BY <3>1, UpFacts, DownFacts DEF PlaceFits, File
    <3>4. ~crossed'[m] =>
            \A n \in Runs \ {m} : progress[n] \in Active => way[n] = w
      BY <2>4 DEF Launch, Active
    <3>5. ~crossed'[m] => \A n \in Runs : progress'[n] \in Active => way'[n] = way'[m]
      BY <2>2, <2>4, <3>4 DEF Launch, MIInv, MTypeOK
    <3> QED BY <3>1, <3>3, <3>5 DEF RunFits, Undisturbed
  <2>5. CASE m # q
    <3>1. File(m)' = File(m)
      BY <2>2, <2>5 DEF File
    <3>2. PlaceFits(m)'
      BY <2>2, <2>3, <2>5, <3>1 DEF MIInv, PlaceFits
    <3>3. Undisturbed(m)' => Undisturbed(m) /\ way[m] = w
      BY <2>2, <2>5 DEF Launch, Undisturbed, MIInv, MTypeOK
    <3>4. \A n \in Runs : progress'[n] \in Active /\ n # q =>
            progress[n] \in Active /\ way'[n] = way[n]
      BY DEF Launch, MIInv, MTypeOK
    <3>5. way'[q] = w
      BY DEF Launch, MIInv, MTypeOK
    <3>6. Undisturbed(m)' => \A n \in Runs : progress'[n] \in Active => way'[n] = way'[m]
      BY <2>2, <2>5, <3>3, <3>4, <3>5 DEF MIInv, RunFits
    <3>7. \A k \in 1 .. (place[m] - 1) : Holds(File(m)[k])' <=> Holds(File(m)[k])
      BY <2>3, <3>1 DEF Holds
    <3> QED BY <2>2, <2>3, <2>5, <3>1, <3>2, <3>3, <3>6, <3>7 DEF MIInv, RunFits
  <2> QED BY <2>4, <2>5
<1> QED BY <1>1, <1>2 DEF MIInv

LEMMA ExecuteKeepsMIInv ==
  ASSUME MIInv, NEW q \in Runs, Execute(q)
  PROVE  MIInv'
<1>1. progress[q] \in Active /\ way' = way /\ crossed' = crossed
  BY DEF Execute
<1>2. place[q] \in 1 .. Len(File(q)) /\ MTypeOK
  BY <1>1, FileFacts DEF MIInv, PlaceFits, MTypeOK
<1>3. File(q)[place[q]] \in SQL
  BY <1>2, FileFacts
<1>4. \A m \in Runs : File(m)' = File(m)
  BY <1>1 DEF File
<1>5. CASE Refused(File(q)[place[q]])
  <2>1. /\ progress' = [progress EXCEPT ![q] = "refused"]
        /\ schema' = schema /\ seeded' = seeded /\ place' = place
    BY <1>5 DEF Execute, MoveOn
  <2>2. crossed[q]
    BY <1>1, <1>2, <1>5, InOrderNotRefused DEF MIInv, RunFits, Undisturbed, Active, MTypeOK
  <2>3. MTypeOK'
    BY <1>1, <1>2, <2>1 DEF MTypeOK, Active
  <2>4. ASSUME NEW m \in Runs PROVE PlaceFits(m)' /\ RunFits(m)'
    <3>1. progress'[m] = IF m = q THEN "refused" ELSE progress[m]
      BY <1>2, <2>1 DEF MTypeOK
    <3>2. PlaceFits(m)'
      BY <1>4, <2>1, <3>1 DEF MIInv, PlaceFits, Active
    <3>3. Undisturbed(m)' => Undisturbed(m) /\ m # q
      BY <1>1, <2>2, <3>1 DEF Undisturbed
    <3>4. \A n \in Runs : progress'[n] \in Active => progress[n] \in Active
      BY <1>2, <2>1 DEF MTypeOK, Active
    <3>5. \A k \in 1 .. (place[m] - 1) : Holds(File(m)[k])' <=> Holds(File(m)[k])
      BY <1>4, <2>1 DEF Holds
    <3>6. RunFits(m)'
      BY <1>1, <1>4, <2>1, <3>1, <3>3, <3>4, <3>5 DEF MIInv, RunFits
    <3> QED BY <3>2, <3>6
  <2> QED BY <2>3, <2>4 DEF MIInv
<1>6. CASE ~Refused(File(q)[place[q]])
  <2>1. /\ Effect(File(q)[place[q]])
        /\ place' = [place EXCEPT ![q] = place[q] + 1]
        /\ progress' = [progress EXCEPT ![q] = IF place[q] < Len(File(q)) THEN progress[q]
                                   ELSE IF progress[q] = "running" THEN "applied" ELSE "failed"]
    BY <1>6 DEF Execute, MoveOn
  <2>2. Len(File(q)) \in {5, 6} /\ Len(Up) = 6
    BY <1>2, FileFacts, UpFacts
  <2>3. schema' \subseteq Tables /\ seeded' \in BOOLEAN
    BY <1>2, <1>3, <2>1, EffectTypes DEF MTypeOK
  <2>4. place[q] + 1 \in 1 .. (Len(Up) + 1)
    <3>1. CASE Len(File(q)) = 5
      BY <1>2, <2>2, <3>1
    <3>2. CASE Len(File(q)) = 6
      BY <1>2, <2>2, <3>2
    <3> QED BY <2>2, <3>1, <3>2
  <2>5. MTypeOK'
    BY <1>1, <1>2, <2>1, <2>3, <2>4 DEF MTypeOK, Active
  <2>6. ASSUME NEW m \in Runs PROVE PlaceFits(m)' /\ RunFits(m)'
    <3>1. CASE m = q
      <4>1. /\ place'[m] = place[m] + 1
            /\ progress'[m] = IF place[m] < Len(File(m)) THEN progress[m]
                        ELSE IF progress[m] = "running" THEN "applied" ELSE "failed"
        BY <1>2, <2>1, <3>1 DEF MTypeOK
      <4>2. place[m] \in Nat /\ Len(File(m)) \in Nat /\ place[m] <= Len(File(m))
        BY <1>2, <2>2, <3>1
      <4>3. PlaceFits(m)'
        BY <1>1, <1>4, <3>1, <4>1, <4>2 DEF PlaceFits, Active
      <4>4. CASE Undisturbed(m)'
        <5>1. Undisturbed(m)
          BY <1>1, <3>1, <4>4 DEF Undisturbed, Active
        <5>2. \A n \in Runs : progress'[n] \in Active => progress[n] \in Active
          BY <1>1, <1>2, <2>1 DEF MTypeOK, Active
        <5>3. ASSUME NEW k \in 1 .. place[m] PROVE Holds(File(m)[k])'
          <6>1. File(m)[k] \in SQL
            BY <1>2, <4>2, FileFacts
          <6>2. CASE k = place[m]
            BY <1>4, <1>3, <2>1, <3>1, <6>2, EffectHolds DEF Holds
          <6>3. CASE k # place[m]
            <7>1. Holds(File(m)[k])
              BY <4>2, <5>1, <6>3 DEF MIInv, RunFits
            <7>2. File(m)[k].do = "drop" <=> File(m)[place[m]].do = "drop"
              BY <1>2, <4>2, <3>1, FileFacts
            <7> QED BY <1>3, <1>4, <2>1, <3>1, <6>1, <7>1, <7>2, EffectKeeps DEF Holds
          <6> QED BY <6>2, <6>3
        <5>4. progress'[m] # "refused"
          BY <1>1, <3>1, <4>1 DEF Active
        <5>5. \A n \in Runs : progress'[n] \in Active => way'[n] = way'[m]
          BY <1>1, <5>1, <5>2 DEF MIInv, RunFits
        <5>6. \A k \in 1 .. (place'[m] - 1) : Holds(File(m)[k])'
          BY <4>1, <4>2, <5>3
        <5> QED BY <4>3, <5>4, <5>5, <5>6 DEF RunFits
      <4> QED BY <4>3, <4>4 DEF RunFits
    <3>2. CASE m # q
      <4>1. place'[m] = place[m] /\ progress'[m] = progress[m]
        BY <2>1, <3>2, <1>2 DEF MTypeOK
      <4>2. PlaceFits(m)'
        BY <1>4, <4>1 DEF MIInv, PlaceFits
      <4>3. CASE Undisturbed(m)'
        <5>1. Undisturbed(m)
          BY <1>1, <4>1, <4>3 DEF Undisturbed
        <5>2. \A n \in Runs : progress'[n] \in Active => progress[n] \in Active
          BY <1>1, <1>2, <2>1 DEF MTypeOK, Active
        <5>3. way[q] = way[m]
          BY <1>1, <5>1 DEF MIInv, RunFits
        <5>4. ASSUME NEW k \in 1 .. (place[m] - 1) PROVE Holds(File(m)[k])'
          <6>1. place[m] <= Len(File(m)) + 1 /\ place[m] \in Nat /\ Len(File(m)) \in Nat
            BY <1>2, FileFacts DEF MIInv, PlaceFits, MTypeOK
          <6>2. k \in 1 .. Len(File(m))
            BY <6>1
          <6>3. File(m)[k] \in SQL /\ Holds(File(m)[k])
            BY <1>2, <5>1, <6>2, FileFacts DEF MIInv, RunFits
          <6>4. File(m)[k].do = "drop" <=> File(q)[place[q]].do = "drop"
            <7>1. CASE way[m] = "up"
              BY <1>2, <5>3, <6>2, <7>1, FileFacts
            <7>2. CASE way[m] = "down"
              BY <1>2, <5>3, <6>2, <7>2, FileFacts
            <7> QED BY <1>2, <7>1, <7>2, FileFacts
          <6> QED BY <1>3, <1>4, <2>1, <6>3, <6>4, EffectKeeps DEF Holds
        <5>5. progress'[m] # "refused"
          BY <4>1, <5>1 DEF MIInv, RunFits
        <5>6. \A n \in Runs : progress'[n] \in Active => way'[n] = way'[m]
          BY <1>1, <5>1, <5>2 DEF MIInv, RunFits
        <5> QED BY <4>1, <4>2, <5>4, <5>5, <5>6 DEF RunFits
      <4> QED BY <4>2, <4>3 DEF RunFits
    <3> QED BY <3>1, <3>2
  <2> QED BY <2>5, <2>6 DEF MIInv
<1> QED BY <1>5, <1>6

LEMMA NextKeepsMIInv == MIInv /\ [MNext]_migration => MIInv'
<1> SUFFICES ASSUME MIInv, [MNext]_migration PROVE MIInv'
  OBVIOUS
<1>1. CASE UNCHANGED migration
  <2>1. \A m \in Runs : File(m)' = File(m)
    BY <1>1 DEF migration, File
  <2> QED BY <1>1, <2>1
      DEF MIInv, MTypeOK, PlaceFits, RunFits, Undisturbed, Holds, migration
<1>2. ASSUME NEW m \in Runs, NEW w \in {"up", "down"}, Launch(m, w) PROVE MIInv'
  BY <1>2, LaunchKeepsMIInv
<1>3. ASSUME NEW m \in Runs, Execute(m) PROVE MIInv'
  BY <1>3, ExecuteKeepsMIInv
<1>4. ASSUME NEW m \in Runs, StatementFails(m) PROVE MIInv'
  BY <1>4, EndKeepsMIInv DEF StatementFails, Active
<1>5. ASSUME NEW m \in Runs, LoseClient(m) PROVE MIInv'
  BY <1>5, EndKeepsMIInv DEF LoseClient, Active
<1>6. ASSUME NEW m \in Runs, EndOrphan(m) PROVE MIInv'
  BY <1>6, EndKeepsMIInv DEF EndOrphan, Active
<1> QED BY <1>1, <1>2, <1>3, <1>4, <1>5, <1>6 DEF MNext

THEOREM MigrationInvariant == MSpec => []MIInv
BY InitMIInv, NextKeepsMIInv, PTL DEF MSpec

-----------------------------------------------------------------------------
(* The theorems.                                                           *)

\* Every variable keeps its type, whatever runs there are.
THEOREM MigrationTypes == MSpec => []MTypeOK
<1>1. MIInv => MTypeOK
  BY DEF MIInv
<1> QED BY <1>1, MigrationInvariant, PTL

\* However many runs went before it or go on beside it, and wherever they
\* ended, a run is not refused by MySQL unless one went the other way.
THEOREM RunsAreRerunnable == MSpec => []Rerunnable
<1>1. MIInv => Rerunnable
  BY DEF MIInv, Rerunnable, RunFits, Undisturbed, MTypeOK
<1> QED BY <1>1, MigrationInvariant, PTL

\* "applied" means the whole file, also for a run that resumed what others
\* had left half done.
THEOREM AppliedIsWhole == MSpec => []AppliedMeansAll
<1>1. MIInv => AppliedMeansAll
  <2> SUFFICES ASSUME MIInv, NEW m \in Runs, progress[m] = "applied", ~crossed[m]
               PROVE  IF way[m] = "up" THEN schema = Tables /\ seeded
                                       ELSE schema = {} /\ ~seeded
    BY DEF AppliedMeansAll
  <2>1. place[m] = Len(File(m)) + 1 /\ MTypeOK
    BY DEF MIInv, PlaceFits
  <2>2. \A k \in 1 .. (place[m] - 1) : Holds(File(m)[k])
    BY DEF MIInv, RunFits, Undisturbed
  <2>3. CASE way[m] = "up"
    <3>1. \A k \in 1 .. 6 : Holds(Up[k])
      BY <2>1, <2>2, <2>3, FileFacts
    <3>2. Holds(Up[1]) /\ Holds(Up[2]) /\ Holds(Up[3])
      BY <3>1
    <3>3. Holds(Up[4]) /\ Holds(Up[5]) /\ Holds(Up[6])
      BY <3>1
    <3>4. Tables \subseteq schema /\ seeded
      BY <3>2, <3>3, UpFacts DEF Holds, Create, Tables
    <3>5. schema \subseteq Tables
      BY <2>1 DEF MTypeOK
    <3> QED BY <2>3, <3>4, <3>5
  <2>4. CASE way[m] = "down"
    <3>1. \A k \in 1 .. 5 : Holds(Down[k])
      BY <2>1, <2>2, <2>4, FileFacts
    <3>2. Holds(Down[1]) /\ Holds(Down[2]) /\ Holds(Down[3]) /\ Holds(Down[4]) /\ Holds(Down[5])
      BY <3>1
    <3>3. schema \cap Tables = {} /\ ~seeded
      BY <3>2, DownFacts DEF Holds, Drop, Tables
    <3>4. schema \subseteq Tables
      BY <2>1 DEF MTypeOK
    <3> QED BY <2>4, <3>3, <3>4
  <2> QED BY <2>1, <2>3, <2>4, FileFacts
<1> QED BY <1>1, MigrationInvariant, PTL
=============================================================================
