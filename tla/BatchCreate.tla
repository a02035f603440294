---------------------------- MODULE BatchCreate ----------------------------
(***************************************************************************)
(* POST /disbursements/batch (internal/usecase/disbursements.go:           *)
(* CreateBatch, and the handler that turns its results into a status       *)
(* code).  The items are taken one after the other; each is validated,     *)
(* inserted and audited by itself, each write in a transaction of its own  *)
(* (GORM's default), and leaves one result.  No Idempotency-Key is read,   *)
(* so nothing undoes or recognises a batch that ended half way.            *)
(*                                                                         *)
(* Abstracted: an item is its note and whether it can be created, and its  *)
(* uuid is the request with the item's place in the batch.  Places count   *)
(* from 1 where the code's index counts from 0.                            *)
(***************************************************************************)
EXTENDS DisbursementTable, Naturals, Sequences

CONSTANTS
  MaxItems,   \* the limit on the items of a batch (100)
  Batches,    \* the bodies clients send: sequences of items
  DBFaults,   \* TRUE when statements may fail
  Crashes,    \* TRUE when the process may die
  NoInput     \* the request has not arrived

Forms == {"good",       \* passes the validator and fits its columns
          "invalid",    \* refused by the validator
          "oversized"}  \* passes the validator but not the INSERT

Item == [form: Forms, note: Notes]

ASSUME BatchAssumption ==
  /\ MaxItems \in Nat \ {0}
  /\ Batches \subseteq Seq(Item)
  /\ NoInput \notin Seq(Item)
  /\ Requests \X (1 .. MaxItems) \subseteq Ids
  /\ DBFaults \in BOOLEAN /\ Crashes \in BOOLEAN

VARIABLES
  pc,       \* what a request does next
  batch,    \* the items of a request
  actor,    \* the user who sent it
  i,        \* the place of the item it works on
  results,  \* the results so far
  hit,      \* the items one of whose statements failed on a good payload
  reply     \* the answer sent to the client

locals == <<batch, actor, i, results>>
vars == <<tables, pc, locals, hit, reply>>

Outcomes == {"created", "invalid", "failed"}
Result == [index: Nat, outcome: Outcomes]

Codes == {"201", "207", "400"}

Running == {"item", "audit"}

Init ==
  /\ rows = [id \in Ids |-> NoRow]
  /\ audit = {}
  /\ pc = [r \in Requests |-> "idle"]
  /\ batch = [r \in Requests |-> NoInput]
  /\ actor = [r \in Requests |-> Nobody]
  /\ i = [r \in Requests |-> 1]
  /\ results = [r \in Requests |-> << >>]
  /\ hit = {}
  /\ reply = [r \in Requests |-> "none"]

Current(r) == batch[r][i[r]]

\* The uuid minted for the item at place j.
Id(r, j) == <<r, j>>

Goto(r, label) == pc' = [pc EXCEPT ![r] = label] /\ UNCHANGED reply

Answer(r, code) ==
  /\ pc' = [pc EXCEPT ![r] = "done"]
  /\ reply' = [reply EXCEPT ![r] = code]

\* Bug: a batch with a success is 201.
AnswerCodeAny(res) ==
  IF \E j \in DOMAIN res : res[j].outcome = "created" THEN "201" ELSE "400"

\* 400 when nothing succeeded, 207 when not everything did.
AnswerCode(res) ==
  IF \A j \in DOMAIN res : res[j].outcome # "created"
    THEN "400"
    ELSE IF \E j \in DOMAIN res : res[j].outcome # "created" THEN "207" ELSE "201"

\* Bug: a bad item ends the loop.
ConcludeBreaks(r, outcome) ==
  LET all == Append(results[r], [index |-> i[r], outcome |-> outcome])
  IN /\ results' = [results EXCEPT ![r] = all]
     /\ IF i[r] = Len(batch[r]) \/ outcome # "created"
          THEN UNCHANGED i /\ Answer(r, AnswerCode(all))
          ELSE i' = [i EXCEPT ![r] = @ + 1] /\ Goto(r, "item")

\* The item has its result: on to the next one, or to the answer.
Conclude(r, outcome) ==
  LET all == Append(results[r], [index |-> i[r], outcome |-> outcome])
  IN /\ results' = [results EXCEPT ![r] = all]
     /\ IF i[r] = Len(batch[r])
          THEN UNCHANGED i /\ Answer(r, AnswerCode(all))
          ELSE i' = [i EXCEPT ![r] = @ + 1] /\ Goto(r, "item")

-----------------------------------------------------------------------------
(* Actions.                                                                *)

\* The tag validate:"required,min=1,max=100".
LegalSize(items) == Len(items) \in 1 .. MaxItems

Receive(r) ==
  /\ pc[r] = "idle"
  /\ \E items \in Batches, user \in Users :
       /\ batch' = [batch EXCEPT ![r] = items]
       /\ actor' = [actor EXCEPT ![r] = user]
       /\ IF LegalSize(items)
            THEN Goto(r, "item")
            ELSE Answer(r, "400")
  /\ UNCHANGED <<tables, i, results, hit>>

\* Bug: the items of a batch are not validated.
PassesAlways(item) == item.form \in Forms

\* utils.ValidateStruct on one item.
Passes(item) == item.form # "invalid"

\* What the INSERT can store.
Fits(item) == item.form # "oversized"

RejectItem(r) ==
  /\ pc[r] = "item"
  /\ ~Passes(Current(r))
  /\ Conclude(r, "invalid")
  /\ UNCHANGED <<tables, batch, actor, hit>>

InsertItem(r) ==
  /\ pc[r] = "item"
  /\ Passes(Current(r)) /\ Fits(Current(r))
  /\ InsertDisbursement(Id(r, i[r]), PendingRow(Current(r).note))
  /\ Goto(r, "audit")
  /\ UNCHANGED <<audit, locals, hit>>

\* The INSERT cannot succeed, and only this item fails with it.
InsertRefused(r) ==
  /\ pc[r] = "item"
  /\ Passes(Current(r)) /\ ~Fits(Current(r))
  /\ Conclude(r, "failed")
  /\ UNCHANGED <<tables, batch, actor, hit>>

\* The INSERT fails, or it is done but its acknowledgement is lost.
InsertFails(r) ==
  /\ DBFaults
  /\ pc[r] = "item"
  /\ Passes(Current(r)) /\ Fits(Current(r))
  /\ \/ UNCHANGED rows
     \/ InsertDisbursement(Id(r, i[r]), PendingRow(Current(r).note))
  /\ hit' = hit \cup {Id(r, i[r])}
  /\ Conclude(r, "failed")
  /\ UNCHANGED <<audit, batch, actor>>

CreatedEntry(r) ==
  [request |-> r, entity |-> Id(r, i[r]), actor |-> actor[r], action |-> "created",
   before |-> NoRow, after |-> PendingRow(Current(r).note)]

\* A failed audit INSERT is logged and otherwise ignored.
WriteAudit(r) ==
  /\ pc[r] = "audit"
  /\ \/ InsertAudit(CreatedEntry(r)) /\ UNCHANGED hit
     \/ DBFaults /\ UNCHANGED audit /\ hit' = hit \cup {Id(r, i[r])}
  /\ Conclude(r, "created")
  /\ UNCHANGED <<rows, batch, actor>>

\* The process dies with every request it runs.
Crash ==
  /\ Crashes
  /\ \E r \in Requests : pc[r] \in Running
  /\ pc' = [r \in Requests |-> IF pc[r] \in Running THEN "lost" ELSE pc[r]]
  /\ UNCHANGED <<tables, locals, hit, reply>>

Step(r) ==
  RejectItem(r) \/ InsertItem(r) \/ InsertRefused(r) \/ InsertFails(r) \/ WriteAudit(r)

Next == (\E r \in Requests : Receive(r) \/ Step(r)) \/ Crash

Spec == Init /\ [][Next]_vars

-----------------------------------------------------------------------------
(* Properties.                                                             *)

TypeOK ==
  /\ rows \in [Ids -> Row]
  /\ audit \subseteq AuditEntry
  /\ pc \in [Requests -> {"idle", "done", "lost"} \cup Running]
  /\ batch \in [Requests -> Batches \cup {NoInput}]
  /\ actor \in [Requests -> Users \cup {Nobody}]
  /\ i \in [Requests -> 1 .. MaxItems]
  /\ results \in [Requests -> Seq(Result)]
  /\ hit \subseteq Ids
  /\ reply \in [Requests -> Codes \cup {"none"}]

Made(r, j) == Id(r, j) \in Ids /\ Exists(Id(r, j))

Entries(r, j) == {e \in audit : e.entity = Id(r, j)}

\* What is in the audit log about an item that was created.
ItsEntry(r, j) ==
  [request |-> r, entity |-> Id(r, j), actor |-> actor[r], action |-> "created",
   before |-> NoRow, after |-> rows[Id(r, j)]]

\* The result at a place is about the item at that place, and tells whether
\* its disbursement is there: "created" names a row with the item's payload,
\* an invalid item left neither a row nor an audit entry, and a failed one
\* left no audit entry, and no row unless an acknowledgement was lost.
ResultsTell ==
  \A r \in Requests : \A j \in DOMAIN results[r] :
    LET item == batch[r][j]  outcome == results[r][j].outcome
    IN /\ results[r][j].index = j
       /\ outcome = "created" => /\ item.form = "good"
                                 /\ Made(r, j) /\ rows[Id(r, j)] = PendingRow(item.note)
       /\ outcome = "invalid" => item.form = "invalid" /\ ~Made(r, j)
       /\ outcome = "failed" => /\ item.form # "invalid"
                                /\ Made(r, j) => Id(r, j) \in hit
       /\ outcome # "created" => Entries(r, j) = {}

\* 201 means that every item is there; 207 that some are, and that some are
\* not or are not known to be; and 400 that none is known to be, so that the
\* whole batch may be sent again.  A batch of legal size is answered with a
\* result for each item.
CodeTells ==
  \A r \in Requests : pc[r] = "done" =>
    LET places == 1 .. Len(batch[r])
    IN /\ reply[r] = "201" => \A j \in places : Made(r, j)
       /\ reply[r] = "207" => /\ \E j \in places : Made(r, j)
                              /\ \E j \in places : ~Made(r, j) \/ Id(r, j) \in hit
       /\ reply[r] = "400" => \A j \in places : Made(r, j) => Id(r, j) \in hit
       /\ Len(results[r]) = IF Len(batch[r]) <= MaxItems THEN Len(batch[r]) ELSE 0

\* The items that the loop has left behind; all of a batch of legal size once
\* it is answered.
Past(r) ==
  IF pc[r] = "done" /\ Len(batch[r]) <= MaxItems THEN 1 .. Len(batch[r]) ELSE 1 .. (i[r] - 1)

\* Each item is as if it stood alone, wherever its batch was cut short and
\* whatever its neighbours are: one that was passed is a disbursement if it is
\* good and has exactly its own audit entry then, unless a statement of its
\* own failed; and those not reached are not there.  Whoever sends the rest
\* again need only find where the batch stopped.
EachAlone ==
  \A r \in Requests : pc[r] # "idle" =>
    /\ \A j \in Past(r) :
         /\ Made(r, j) => batch[r][j].form = "good"
         /\ Entries(r, j) \subseteq {ItsEntry(r, j)}
         /\ Id(r, j) \notin hit =>
              /\ batch[r][j].form = "good" => Made(r, j)
              /\ Made(r, j) => Entries(r, j) # {}
    /\ \A j \in (i[r] + 1) .. MaxItems : j \notin Past(r) => ~Made(r, j)
=============================================================================
