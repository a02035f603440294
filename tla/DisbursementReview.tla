------------------------- MODULE DisbursementReview -------------------------
(***************************************************************************)
(* PATCH /disbursements/:id/status, DELETE /disbursements/:id and          *)
(* GET /disbursements/:id (internal/usecase/disbursements.go: UpdateStatus,*)
(* Delete, Detail).  Every request runs in a goroutine of its own and      *)
(* issues one SQL statement after another, each write in a transaction of  *)
(* its own (GORM's default), so the statements of different requests       *)
(* interleave freely.  The row is read twice and written once in between,  *)
(* and the audit entry is written last.  Nothing in the code bounds the    *)
(* length of a note, so the UPDATE of a note longer than its column is     *)
(* refused by MySQL: an ask says whether its note fits.                    *)
(*                                                                         *)
(* A statement may fail without effect, a write may also take effect while *)
(* the driver reports an error, and the process may die between any two    *)
(* statements.  The clients' side of a lost connection is not visible      *)
(* here: the handlers run on a context nobody cancels, so they go on.      *)
(***************************************************************************)
EXTENDS DisbursementTable

CONSTANTS
  DBFaults,   \* TRUE when statements may fail
  Crashes,    \* TRUE when the process may die
  NoInput     \* the request has not arrived

ASSUME ReviewAssumption == DBFaults \in BOOLEAN /\ Crashes \in BOOLEAN

VARIABLES
  pc,        \* the statement a request issues next
  input,     \* what the client asked for
  current,   \* the row as FindByID returned it first
  updated,   \* the row as FindByID returned it after the update
  reply      \* the answer sent to the client

locals == <<input, current, updated>>
vars == <<tables, pc, locals, reply>>

\* "PENDING" stands for every status other than the two decisions.
\* A note that does not fit is not told apart from another such note.
Asks ==
  [op: {"update"}, id: Ids, status: Statuses, note: Notes, fits: {TRUE}, actor: Users]
    \cup [op: {"update"}, id: Ids, status: Statuses, note: {""}, fits: {FALSE}, actor: Users]
    \cup [op: {"delete", "detail"}, id: Ids, status: {"PENDING"}, note: {""},
          fits: {TRUE}, actor: Users]

\* The last three are 500s: a statement failed, MySQL refused the note, or
\* the second FindByID did not find the row.
Replies == {"none", "ok", "badRequest", "notFound", "alreadyProcessed",
            "justProcessed", "failed", "unfit", "missing"}

Running == {"find", "update", "reread", "softDelete", "audit"}
Ended == {"done", "lost"}

Init ==
  /\ rows \in [Ids -> {NoRow} \cup {PendingRow(note) : note \in Notes}]
  /\ audit = {}
  /\ pc = [r \in Requests |-> "idle"]
  /\ input = [r \in Requests |-> NoInput]
  /\ current = [r \in Requests |-> NoRow]
  /\ updated = [r \in Requests |-> NoRow]
  /\ reply = [r \in Requests |-> "none"]

Goto(r, label) == pc' = [pc EXCEPT ![r] = label] /\ UNCHANGED reply

Answer(r, what) ==
  /\ pc' = [pc EXCEPT ![r] = "done"]
  /\ reply' = [reply EXCEPT ![r] = what]

-----------------------------------------------------------------------------
(* One action per statement of a request.                                  *)

\* The handler parses and validates; the usecase checks the status again.
Receive(r) ==
  /\ pc[r] = "idle"
  /\ \E ask \in Asks :
       /\ input' = [input EXCEPT ![r] = ask]
       /\ IF ask.op = "update" /\ ask.status \notin Decisions
            THEN Answer(r, "badRequest")
            ELSE Goto(r, "find")
  /\ UNCHANGED <<tables, current, updated>>

\* Bug: the status test is the wrong way round.
RefusedInverted(row) == row.status = "PENDING"

\* existing.Status != entity.StatusPending
RefusedAtOnce(row) == row.status # "PENDING"

Find(r) ==
  LET id == input[r].id
      op == input[r].op
  IN /\ pc[r] = "find"
     /\ \/ ~Visible(id) /\ Answer(r, "notFound")
        \/ Visible(id) /\ op = "detail" /\ Answer(r, "ok")
        \/ /\ Visible(id) /\ op # "detail" /\ RefusedAtOnce(rows[id])
           /\ Answer(r, "alreadyProcessed")
        \/ /\ Visible(id) /\ op # "detail" /\ ~RefusedAtOnce(rows[id])
           /\ Goto(r, IF op = "update" THEN "update" ELSE "softDelete")
     /\ current' = [current EXCEPT ![r] = IF Visible(id) THEN rows[id] ELSE NoRow]
     /\ UNCHANGED <<tables, input, updated>>

\* Bug: RowsAffected is not looked at.
UpdateUnchecked(r) ==
  LET ask == input[r]
  IN /\ pc[r] = "update"
     /\ \/ /\ Claimable(ask.id) /\ ask.fits
           /\ SetStatus(ask.id, ask.status, ask.note, ask.actor) /\ Goto(r, "reread")
        \/ Claimable(ask.id) /\ ~ask.fits /\ UNCHANGED rows /\ Answer(r, "unfit")
        \/ ~Claimable(ask.id) /\ UNCHANGED rows /\ Goto(r, "reread")
     /\ UNCHANGED <<audit, locals>>

\* A note that does not fit is an error only when there is a row to put it in.
Update(r) ==
  LET ask == input[r]
  IN /\ pc[r] = "update"
     /\ \/ /\ Claimable(ask.id) /\ ask.fits
           /\ SetStatus(ask.id, ask.status, ask.note, ask.actor) /\ Goto(r, "reread")
        \/ Claimable(ask.id) /\ ~ask.fits /\ UNCHANGED rows /\ Answer(r, "unfit")
        \/ ~Claimable(ask.id) /\ UNCHANGED rows /\ Answer(r, "justProcessed")
     /\ UNCHANGED <<audit, locals>>

\* Bug: the answer goes out before writeAudit and in its place.
RereadUnaudited(r) ==
  /\ pc[r] = "reread"
  /\ updated' = [updated EXCEPT ![r] = rows[input[r].id]]
  /\ Answer(r, "ok")
  /\ UNCHANGED <<tables, input, current>>

Reread(r) ==
  LET id == input[r].id
  IN /\ pc[r] = "reread"
     /\ IF Visible(id)
          THEN updated' = [updated EXCEPT ![r] = rows[id]] /\ Goto(r, "audit")
          ELSE UNCHANGED updated /\ Answer(r, "missing")
     /\ UNCHANGED <<tables, input, current>>

SoftDelete(r) ==
  LET id == input[r].id
  IN /\ pc[r] = "softDelete"
     /\ IF Claimable(id)
          THEN SetDeleted(id) /\ Goto(r, "audit")
          ELSE UNCHANGED rows /\ Answer(r, "justProcessed")
     /\ UNCHANGED <<audit, locals>>

\* The entry writeAudit builds out of the rows the request holds and its
\* actor, not out of the table.  The JSON columns have only the fields the
\* action touches; the model keeps the others as well.
ReviewEntry(r) ==
  [request |-> r, entity |-> input[r].id, actor |-> input[r].actor,
   action |-> IF input[r].op = "update" THEN "status_changed" ELSE "deleted",
   before |-> current[r],
   after |-> IF input[r].op = "update"
               THEN [status |-> updated[r].status, note |-> updated[r].note,
                     approvedBy |-> input[r].actor, deleted |-> FALSE]
               ELSE Removed(current[r])]

\* A failed audit INSERT is logged and otherwise ignored.
WriteAudit(r) ==
  /\ pc[r] = "audit"
  /\ \/ InsertAudit(ReviewEntry(r))
     \/ DBFaults /\ UNCHANGED audit
  /\ Answer(r, "ok")
  /\ UNCHANGED <<rows, locals>>

-----------------------------------------------------------------------------
(* Faults.                                                                 *)

\* A statement fails and changes nothing: 500.
StatementFails(r) ==
  /\ DBFaults
  /\ pc[r] \in {"find", "update", "reread", "softDelete"}
  /\ Answer(r, "failed")
  /\ UNCHANGED <<tables, locals>>

\* The write is committed but its acknowledgement is lost: the driver
\* returns an error, the request is answered 500 and nothing is audited.
AckLost(r) ==
  LET ask == input[r]
  IN /\ DBFaults
     /\ pc[r] \in {"update", "softDelete"}
     /\ Claimable(ask.id) /\ ask.fits
     /\ IF pc[r] = "update"
          THEN SetStatus(ask.id, ask.status, ask.note, ask.actor)
          ELSE SetDeleted(ask.id)
     /\ Answer(r, "failed")
     /\ UNCHANGED <<audit, locals>>

\* The process dies: every running request is gone, the tables stay.
Crash ==
  /\ Crashes
  /\ \E r \in Requests : pc[r] \in Running
  /\ pc' = [r \in Requests |-> IF pc[r] \in Running THEN "lost" ELSE pc[r]]
  /\ UNCHANGED <<tables, locals, reply>>

Step(r) ==
  \/ Find(r) \/ Update(r) \/ Reread(r) \/ SoftDelete(r) \/ WriteAudit(r)
  \/ StatementFails(r) \/ AckLost(r)

Next == (\E r \in Requests : Receive(r) \/ Step(r)) \/ Crash

Spec == Init /\ [][Next]_vars

-----------------------------------------------------------------------------
(* Properties.                                                             *)

TypeOK ==
  /\ rows \in [Ids -> Row]
  /\ audit \subseteq AuditEntry
  /\ pc \in [Requests -> {"idle"} \cup Running \cup Ended]
  /\ input \in [Requests -> Asks \cup {NoInput}]
  /\ current \in [Requests -> Row]
  /\ updated \in [Requests -> Row]
  /\ reply \in [Requests -> Replies]

\* The requests that know their conditional write hit the row: RowsAffected
\* was 1 and they have gone on from there.
Won(r) ==
  /\ pc[r] # "idle"
  /\ input[r].op # "detail"
  /\ pc[r] \in {"reread", "audit"} \/ reply[r] = "ok"

\* Two requests never both succeed in deciding or deleting one disbursement,
\* however their reads and writes interleave (the compare-and-swap on
\* status = 'PENDING' in repository UpdateStatus and SoftDelete).
OneWinner ==
  \A q, r \in Requests :
    Won(q) /\ Won(r) /\ input[q].id = input[r].id => q = r

\* The row is what request r made of it.
OwnsRow(r) ==
  LET row == rows[input[r].id]
  IN IF input[r].op = "update"
       THEN /\ row = Decided(current[r], input[r].status, input[r].note, input[r].actor)
            /\ ~row.deleted
            /\ pc[r] # "reread" => updated[r] = row
       ELSE row = Removed(current[r]) /\ row.status = "PENDING"

\* What a winner wrote stays: the row carries its decision and its name (or
\* its deletion, still PENDING) from the write on, so the second FindByID of
\* UpdateStatus returns that decision, and an answer 200 never becomes wrong.
WinnerOwnsRow == \A r \in Requests : Won(r) => OwnsRow(r)

\* The audit trail never tells a story the table contradicts: an entry was
\* written by the request that changed the row, names its actor, starts from
\* the PENDING version and ends in the version the table holds; and a
\* disbursement has at most one closing entry.
AuditTrue ==
  /\ \A e \in audit :
       /\ e.before.status = "PENDING" /\ ~e.before.deleted
       /\ e.after = rows[e.entity]
       /\ e.action = "status_changed" =>
            e.after.status \in Decisions /\ e.after.approvedBy = e.actor
       /\ e.action = "deleted" => e.after.deleted
  /\ \A e, f \in audit : e.entity = f.entity => e = f

\* A client that was refused because somebody else processed the disbursement
\* was told the truth, and it stays the truth: the row is decided or deleted,
\* and not by the refused request.
RefusalTrue ==
  \A r \in Requests : reply[r] \in {"alreadyProcessed", "justProcessed"} =>
    /\ rows[input[r].id].status \in Decisions \/ rows[input[r].id].deleted
    /\ ~ \E e \in audit : e.request = r

\* The second FindByID of UpdateStatus never misses the row, so a decision
\* that was written is not answered with a 500 for that reason: no DELETE,
\* not even one that found the row PENDING before, removes what is decided.
RereadHits == \A r \in Requests : reply[r] # "missing"

-----------------------------------------------------------------------------
(* Refinement: the promise seen through the tables.                        *)

Stage(row) ==
  CASE row.status = "NONE" -> "absent"
    [] row.status # "NONE" /\ row.deleted -> "removed"
    [] OTHER -> row.status

life == [id \in Ids |-> [stage |-> Stage(rows[id]),
                         approvedBy |-> rows[id].approvedBy,
                         note |-> rows[id].note]]

Lifecycle == INSTANCE DisbursementLifecycle

\* Every run of the endpoints, with all its interleavings, faults and
\* crashes, shows each disbursement the one-way life of DisbursementLifecycle.
LifecycleSpec == Lifecycle!Spec
=============================================================================
