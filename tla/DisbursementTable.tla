-------------------------- MODULE DisbursementTable --------------------------
(***************************************************************************)
(* The tables disbursements and audit_logs, and the statements that the    *)
(* repositories run against them (internal/repository/disbursements.go,    *)
(* internal/repository/audit.go).  Each operator below that primes a table *)
(* is one SQL statement; InnoDB makes a single statement atomic.           *)
(*                                                                         *)
(* Abstracted: recipient, account, bank, amount and fee are fixed when a   *)
(* row is inserted and no statement ever writes them again, so a row keeps *)
(* only the columns that change later.                                     *)
(***************************************************************************)
CONSTANTS
  Ids,       \* primary keys of disbursements (uuids)
  Requests,  \* HTTP requests, each handled by a goroutine of its own
  Users,     \* usernames taken from the access token
  Notes,     \* values of the note column, "" included
  Nobody     \* NULL in approved_by

ASSUME TableAssumption == Nobody \notin Users /\ "" \in Notes

VARIABLES
  rows,   \* the table disbursements: a row per id, NoRow before the INSERT
  audit   \* the table audit_logs: a set of entries

tables == <<rows, audit>>

Decisions == {"APPROVED", "REJECTED"}
Statuses == {"PENDING"} \cup Decisions

\* deleted stands for deleted_at IS NOT NULL.
Row == [status: Statuses \cup {"NONE"}, note: Notes,
        approvedBy: Users \cup {Nobody}, deleted: BOOLEAN]

NoRow == [status |-> "NONE", note |-> "", approvedBy |-> Nobody, deleted |-> FALSE]

\* The row both Create paths insert.
PendingRow(note) ==
  [status |-> "PENDING", note |-> note, approvedBy |-> Nobody, deleted |-> FALSE]

\* An audit_logs row; before and after are the versions of the disbursement
\* that the JSON columns are taken from.
AuditEntry == [request: Requests, entity: Ids,
               action: {"created", "status_changed", "deleted"},
               actor: Users, before: Row, after: Row]

-----------------------------------------------------------------------------
(* Statements.                                                             *)

Exists(id) == rows[id].status # "NONE"

\* Bug: the statement runs Unscoped and sees deleted rows.
VisibleUnscoped(id) == Exists(id)

\* GORM adds "deleted_at IS NULL" to every statement on Disbursement.
Visible(id) == Exists(id) /\ ~rows[id].deleted

\* Bug: WHERE id = ?, without the status.
ClaimableAnyStatus(id) == Visible(id)

\* WHERE id = ? AND status = 'PENDING' (AND deleted_at IS NULL).
Claimable(id) == Visible(id) /\ rows[id].status = "PENDING"

\* The SET list of UpdateStatus: an empty note leaves the column alone.
Decided(row, status, note, actor) ==
  [status |-> status, note |-> IF note = "" THEN row.note ELSE note,
   approvedBy |-> actor, deleted |-> row.deleted]

\* The SET list of GORM's soft delete.
Removed(row) ==
  [status |-> row.status, note |-> row.note,
   approvedBy |-> row.approvedBy, deleted |-> TRUE]

InsertDisbursement(id, row) == rows' = [rows EXCEPT ![id] = row]

SetStatus(id, status, note, actor) ==
  rows' = [rows EXCEPT ![id] = Decided(rows[id], status, note, actor)]

SetDeleted(id) == rows' = [rows EXCEPT ![id] = Removed(rows[id])]

InsertAudit(entry) == audit' = audit \cup {entry}
=============================================================================
