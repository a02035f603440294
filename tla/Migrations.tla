----------------------------- MODULE Migrations -----------------------------
(***************************************************************************)
(* The migration runner (cmd/migrate/main.go) and the one migration there  *)
(* is (migrations/0001_init.up.sql and .down.sql).  A file is sent to      *)
(* MySQL as one multi-statement query: MySQL carries its statements out    *)
(* one by one, each with a commit of its own, and stops at the first that  *)
(* fails.  A run whose client is gone may go on for a while in the server. *)
(*                                                                         *)
(* Abstracted: the columns of a table, and of its rows all but whether the *)
(* seed users are there.  A name that ServerLifecycle has too begins with  *)
(* M here, so that one module can be about both.                           *)
(***************************************************************************)
EXTENDS Naturals, Sequences

CONSTANTS
  Runs,     \* runs of the migration runner
  DBFaults  \* TRUE when statements may fail, connections break and runners die

ASSUME MigrationAssumption == DBFaults \in BOOLEAN

VARIABLES
  schema,   \* the tables there are
  seeded,   \* the seed users are in users
  progress, \* idle, running, orphan (client gone), applied, refused or failed
  way,      \* up or down, as the run was started
  place,    \* the statement of its file a run issues next
  crossed   \* the run went beside or before one that goes the other way

migration == <<schema, seeded, progress, way, place, crossed>>

Tables == {"users", "refresh_tokens", "disbursements", "idempotency_keys", "audit_logs"}

SQL == [do: {"create", "drop", "seed"}, table: Tables]

Create(t) == [do |-> "create", table |-> t]
Drop(t) == [do |-> "drop", table |-> t]

Up == <<Create("users"), Create("refresh_tokens"), Create("disbursements"),
        Create("idempotency_keys"), Create("audit_logs"),
        [do |-> "seed", table |-> "users"]>>

\* Bug: the parent is dropped before the child.
DownParentFirst ==
  <<Drop("audit_logs"), Drop("idempotency_keys"), Drop("disbursements"),
    Drop("users"), Drop("refresh_tokens")>>

Down == <<Drop("audit_logs"), Drop("idempotency_keys"), Drop("disbursements"),
          Drop("refresh_tokens"), Drop("users")>>

File(m) == IF way[m] = "up" THEN Up ELSE Down

\* What MySQL refuses: a foreign key to a table that is not there, to drop the
\* table of a foreign key, to insert where there is no table.  IF [NOT] EXISTS
\* and ON DUPLICATE KEY UPDATE make everything else succeed.
Refused(s) ==
  CASE s.do = "create" -> s.table = "refresh_tokens" /\ "users" \notin schema
    [] s.do = "drop" -> s.table = "users" /\ "refresh_tokens" \in schema
    [] s.do = "seed" -> "users" \notin schema

\* What a statement does that is not refused.
Effect(s) ==
  /\ schema' = CASE s.do = "create" -> schema \cup {s.table}
                 [] s.do = "drop" -> schema \ {s.table}
                 [] s.do = "seed" -> schema
  /\ seeded' = CASE s.do = "create" -> seeded
                 [] s.do = "drop" -> seeded /\ s.table # "users"
                 [] s.do = "seed" -> TRUE

Active == {"running", "orphan"}

MInit ==
  /\ schema = {}
  /\ seeded = FALSE
  /\ progress = [m \in Runs |-> "idle"]
  /\ way = [m \in Runs |-> "up"]
  /\ place = [m \in Runs |-> 1]
  /\ crossed = [m \in Runs |-> FALSE]

-----------------------------------------------------------------------------

Launch(m, w) ==
  LET others == {n \in Runs \ {m} : progress[n] # "idle" /\ way[n] # w}
  IN /\ progress[m] = "idle"
     /\ progress' = [progress EXCEPT ![m] = "running"]
     /\ way' = [way EXCEPT ![m] = w]
     /\ crossed' = [n \in Runs |-> \/ crossed[n]
                                   \/ n \in others
                                   \/ n = m /\ \E o \in others : progress[o] \in Active]
     /\ UNCHANGED <<schema, seeded, place>>

\* The next statement; the client says "applied" after the last one.
MoveOn(m) ==
  IF Refused(File(m)[place[m]])
    THEN /\ progress' = [progress EXCEPT ![m] = "refused"]
         /\ UNCHANGED <<schema, seeded, place>>
    ELSE /\ Effect(File(m)[place[m]])
         /\ place' = [place EXCEPT ![m] = @ + 1]
         /\ progress' = [progress EXCEPT ![m] =
                        IF place[m] < Len(File(m)) THEN @
                        ELSE IF @ = "running" THEN "applied" ELSE "failed"]

Execute(m) ==
  /\ progress[m] \in Active
  /\ MoveOn(m)
  /\ UNCHANGED <<way, crossed>>

\* Bug: the runner looks at the first result only.
StatementSkipped(m) ==
  /\ DBFaults
  /\ progress[m] = "running"
  /\ place' = [place EXCEPT ![m] = @ + 1]
  /\ progress' = [progress EXCEPT ![m] =
                     IF place[m] < Len(File(m)) THEN @ ELSE "applied"]
  /\ UNCHANGED <<schema, seeded, way, crossed>>

\* A statement fails (a full disk, a lock wait timeout): log.Fatalf.
StatementFails(m) ==
  /\ DBFaults
  /\ progress[m] = "running"
  /\ progress' = [progress EXCEPT ![m] = "failed"]
  /\ UNCHANGED <<schema, seeded, way, place, crossed>>

\* The connection breaks or the runner dies: the run failed for whoever
\* started it, and goes on in the server until that notices.
LoseClient(m) ==
  /\ DBFaults
  /\ progress[m] = "running"
  /\ progress' = [progress EXCEPT ![m] = "orphan"]
  /\ UNCHANGED <<schema, seeded, way, place, crossed>>

EndOrphan(m) ==
  /\ progress[m] = "orphan"
  /\ progress' = [progress EXCEPT ![m] = "failed"]
  /\ UNCHANGED <<schema, seeded, way, place, crossed>>

MNext ==
  \E m \in Runs :
    \/ \E w \in {"up", "down"} : Launch(m, w)
    \/ Execute(m) \/ StatementFails(m) \/ LoseClient(m) \/ EndOrphan(m)

MSpec == MInit /\ [][MNext]_migration

-----------------------------------------------------------------------------
(* Properties.                                                             *)

MTypeOK ==
  /\ schema \subseteq Tables
  /\ seeded \in BOOLEAN
  /\ progress \in [Runs -> {"idle", "applied", "refused", "failed"} \cup Active]
  /\ way \in [Runs -> {"up", "down"}]
  /\ place \in [Runs -> 1 .. (Len(Up) + 1)]
  /\ crossed \in [Runs -> BOOLEAN]

\* Whatever runs ended half way, in either direction, and whatever runs of the
\* same direction go on beside it, a run is not stopped by what it finds: the
\* migration is "safe to re-run" (0001_init.up.sql, make migrate in README.md),
\* and so is its rollback.
Rerunnable == \A m \in Runs : progress[m] = "refused" => crossed[m]

\* "applied" means the whole schema with its seed users, or nothing at all,
\* as long as no run goes the other way.
AppliedMeansAll ==
  \A m \in Runs : progress[m] = "applied" /\ ~crossed[m] =>
    IF way[m] = "up" THEN schema = Tables /\ seeded ELSE schema = {} /\ ~seeded
=============================================================================
