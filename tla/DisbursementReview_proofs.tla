---------------------- MODULE DisbursementReview_proofs ----------------------
(***************************************************************************)
(* The safety of DisbursementReview for every number of requests,          *)
(* disbursements, users and notes, with faults and crashes.                *)
(***************************************************************************)
EXTENDS DisbursementReview, TLAPS

(* The inductive invariant.  Beside the properties it says what a request  *)
(* in flight knows: its input fits the statement it is about to issue, and *)
(* the PENDING version it read is the version in the table for as long as  *)
(* the row can still be claimed.                                           *)

AskFits(r) ==
  /\ pc[r] # "idle" => input[r] \in Asks
  /\ pc[r] = "idle" => reply[r] = "none"
  /\ pc[r] \in {"update", "reread"} => input[r].op = "update"
  /\ pc[r] = "softDelete" => input[r].op = "delete"
  /\ pc[r] = "audit" => input[r].op # "detail"
  /\ (pc[r] \in Running \/ reply[r] = "ok") /\ input[r].op = "update"
       => input[r].status \in Decisions
  /\ reply[r] # "none" => pc[r] = "done"

\* The requests that passed the first FindByID and were not refused since.
Holds(r) == pc[r] \in {"update", "softDelete"} \/ Won(r)

ReadFits(r) ==
  Holds(r) =>
    /\ current[r].status = "PENDING" /\ ~current[r].deleted
    /\ Exists(input[r].id)
    /\ Claimable(input[r].id) => rows[input[r].id] = current[r]

RefusalFits(r) ==
  reply[r] \in {"alreadyProcessed", "justProcessed"} =>
    Exists(input[r].id) /\ ~Claimable(input[r].id)

Fits(r) ==
  /\ AskFits(r)
  /\ ReadFits(r)
  /\ RefusalFits(r)
  /\ Won(r) => OwnsRow(r)

EntryFits ==
  \A e \in audit :
    /\ pc[e.request] = "done" /\ Won(e.request)
    /\ e = ReviewEntry(e.request)

IInv ==
  /\ TypeOK
  /\ \A r \in Requests : Fits(r)
  /\ EntryFits
  /\ OneWinner

-----------------------------------------------------------------------------
(* The rows the statements write.                                          *)

LEMMA AskFields ==
  ASSUME NEW ask \in Asks
  PROVE  /\ ask.op \in {"update", "delete", "detail"}
         /\ ask.id \in Ids
         /\ ask.status \in Statuses
         /\ ask.note \in Notes
         /\ ask.actor \in Users
<1>1. CASE ask \in [op: {"update"}, id: Ids, status: Statuses, note: Notes, fits: {TRUE}, actor: Users]
  BY <1>1
<1>2. CASE ask \in [op: {"update"}, id: Ids, status: Statuses, note: {""}, fits: {FALSE}, actor: Users]
  BY <1>2, TableAssumption
<1>3. CASE ask \in [op: {"delete", "detail"}, id: Ids, status: {"PENDING"}, note: {""},
                    fits: {TRUE}, actor: Users]
  BY <1>3, TableAssumption DEF Statuses
<1> QED BY <1>1, <1>2, <1>3 DEF Asks

LEMMA NoRowFacts == NoRow \in Row /\ NoRow.status = "NONE"
  BY TableAssumption DEF NoRow, Row

LEMMA PendingRowFacts ==
  ASSUME NEW note \in Notes
  PROVE  /\ PendingRow(note) \in Row
         /\ PendingRow(note).status = "PENDING"
         /\ PendingRow(note).deleted = FALSE
  BY DEF PendingRow, Row, Statuses

LEMMA DecidedFacts ==
  ASSUME NEW row \in Row, NEW status \in Decisions, NEW note \in Notes, NEW actor \in Users
  PROVE  /\ Decided(row, status, note, actor) \in Row
         /\ Decided(row, status, note, actor).status = status
         /\ Decided(row, status, note, actor).approvedBy = actor
         /\ Decided(row, status, note, actor).deleted = row.deleted
  BY DEF Decided, Row, Statuses, Decisions

LEMMA RemovedFacts ==
  ASSUME NEW row \in Row
  PROVE  /\ Removed(row) \in Row
         /\ Removed(row).status = row.status
         /\ Removed(row).deleted = TRUE
  BY DEF Removed, Row

\* The conditional UPDATE of UpdateStatus: it changes the claimed row only,
\* and leaves it decided.
LEMMA SetStatusFacts ==
  ASSUME rows \in [Ids -> Row], NEW id \in Ids, NEW status \in Decisions,
         NEW note \in Notes, NEW actor \in Users,
         Claimable(id), SetStatus(id, status, note, actor)
  PROVE  /\ rows' \in [Ids -> Row]
         /\ rows'[id] = Decided(rows[id], status, note, actor)
         /\ \A i \in Ids : i # id => rows'[i] = rows[i]
         /\ Exists(id)' /\ ~Claimable(id)'
         /\ rows'[id].deleted = FALSE
<1>1. Decided(rows[id], status, note, actor) \in Row
  BY DecidedFacts
<1>2. rows'[id] = Decided(rows[id], status, note, actor) /\ rows' \in [Ids -> Row]
  BY <1>1 DEF SetStatus
<1>3. rows'[id].status \in Decisions /\ rows'[id].deleted = rows[id].deleted
  BY <1>2, DecidedFacts
<1>4. rows[id].deleted = FALSE
  BY DEF Claimable, Visible, Row
<1> QED
  BY <1>2, <1>3, <1>4 DEF SetStatus, Exists, Claimable, Decisions

\* The conditional UPDATE of SoftDelete.
LEMMA SetDeletedFacts ==
  ASSUME rows \in [Ids -> Row], NEW id \in Ids, Claimable(id), SetDeleted(id)
  PROVE  /\ rows' \in [Ids -> Row]
         /\ rows'[id] = Removed(rows[id])
         /\ \A i \in Ids : i # id => rows'[i] = rows[i]
         /\ Exists(id)' /\ ~Claimable(id)'
         /\ rows'[id].status = "PENDING"
<1>1. Removed(rows[id]) \in Row
  BY RemovedFacts
<1>2. rows'[id] = Removed(rows[id]) /\ rows' \in [Ids -> Row]
  BY <1>1 DEF SetDeleted
<1>3. rows'[id].status = "PENDING" /\ rows'[id].deleted = TRUE
  BY <1>2, RemovedFacts DEF Claimable
<1> QED
  BY <1>2, <1>3 DEF SetDeleted, Exists, Claimable, Visible

-----------------------------------------------------------------------------
(* What one request's step leaves to the others.                           *)

\* The locals of every request but q stay.
Frame(q) ==
  \A r \in Requests \ {q} :
    /\ pc'[r] = pc[r] /\ input'[r] = input[r] /\ reply'[r] = reply[r]
    /\ current'[r] = current[r] /\ updated'[r] = updated[r]

\* A row that exists changes only by being claimed.
RowsStep ==
  \A i \in Ids : \/ rows'[i] = rows[i]
                 \/ ~Exists(i)
                 \/ Claimable(i) /\ Exists(i)' /\ ~Claimable(i)'

\* The row of a winner cannot be claimed again.
LEMMA WonNotClaimable ==
  ASSUME TypeOK, NEW r \in Requests, Fits(r), Won(r)
  PROVE  input[r].id \in Ids /\ ~Claimable(input[r].id)
<1>1. input[r] \in Asks
  BY DEF Fits, AskFits, Won
<1>2. CASE input[r].op = "update"
  <2>1. input[r].status \in Decisions
    BY <1>2 DEF Fits, AskFits, Won, Running
  <2>2. rows[input[r].id].status = input[r].status
    BY <1>1, <1>2, <2>1, AskFields, DecidedFacts DEF Fits, OwnsRow, TypeOK
  <2> QED BY <1>1, <2>1, <2>2, AskFields DEF Claimable, Decisions
<1>3. CASE input[r].op # "update"
  BY <1>1, <1>3, AskFields, RemovedFacts DEF Fits, OwnsRow, TypeOK, Claimable, Visible
<1> QED BY <1>2, <1>3

\* A request that is not stepping keeps what it knows: a row it reads from,
\* won or was refused is either unchanged or was claimed by somebody else.
LEMMA OthersKeepFits ==
  ASSUME TypeOK, NEW r \in Requests, Fits(r), RowsStep,
         pc'[r] = pc[r], input'[r] = input[r], reply'[r] = reply[r],
         current'[r] = current[r], updated'[r] = updated[r]
  PROVE  Fits(r)'
<1>1. AskFits(r)'
  BY DEF Fits, AskFits
<1>2. CASE pc[r] = "idle"
  BY <1>1, <1>2 DEF Fits, AskFits, ReadFits, RefusalFits, Holds, Won
<1>3. CASE pc[r] # "idle"
  <2>1. input[r].id \in Ids
    BY <1>3, AskFields DEF Fits, AskFits
  <2> DEFINE id == input[r].id
  <2>2. Won(r) => ~Claimable(id)
    BY WonNotClaimable
  <2>3. Won(r)' <=> Won(r)
    BY DEF Won
  <2>4. ReadFits(r)'
    BY <2>1, <2>3 DEF Fits, ReadFits, Holds, RowsStep, Exists, Claimable, Visible
  <2>5. RefusalFits(r)'
    BY <2>1 DEF Fits, RefusalFits, RowsStep, Exists, Claimable, Visible
  <2>6. Won(r) => rows'[id] = rows[id]
    BY <2>1, <2>2 DEF RowsStep, Fits, ReadFits, Holds
  <2>7. (Won(r) => OwnsRow(r))'
    BY <2>3, <2>6 DEF Fits, OwnsRow
  <2> QED BY <1>1, <2>4, <2>5, <2>7 DEF Fits
<1> QED BY <1>2, <1>3

-----------------------------------------------------------------------------
(* One lemma per statement: what it does to the request that issues it and *)
(* to the rows.                                                            *)

\* Only a request that finds the row claimable becomes a winner.
Effect(q) ==
  /\ TypeOK'
  /\ Fits(q)'
  /\ Frame(q)
  /\ RowsStep
  /\ Won(q)' => input'[q] = input[q] /\ (Won(q) \/ Claimable(input[q].id))

LEMMA ReceiveEffect ==
  ASSUME IInv, NEW q \in Requests, Receive(q)
  PROVE  Effect(q) /\ pc[q] # "done" /\ audit' = audit
<1>1. PICK ask \in Asks :
        /\ input' = [input EXCEPT ![q] = ask]
        /\ IF ask.op = "update" /\ ask.status \notin Decisions
             THEN Answer(q, "badRequest")
             ELSE Goto(q, "find")
  BY DEF Receive
<1>2. pc[q] = "idle" /\ UNCHANGED <<tables, current, updated>> /\ reply[q] = "none"
  BY DEF Receive, IInv, Fits, AskFits
<1>3. pc'[q] \in {"done", "find"} /\ reply'[q] \in {"none", "badRequest"} /\ input'[q] = ask
      /\ (pc'[q] = "find" => reply'[q] = "none" /\ (ask.op = "update" => ask.status \in Decisions))
  BY <1>1, <1>2 DEF IInv, TypeOK, Answer, Goto
<1>4. TypeOK'
  BY <1>1, <1>2 DEF IInv, TypeOK, Answer, Goto, Replies, Running, Ended, tables
<1>5. ~Won(q)' /\ ~Holds(q)'
  BY <1>3 DEF Won, Holds
<1>6. Fits(q)'
  BY <1>3, <1>5 DEF Fits, AskFits, ReadFits, RefusalFits, Running
<1>7. Frame(q)
  BY <1>1, <1>2 DEF Frame, IInv, TypeOK, Answer, Goto
<1>8. RowsStep
  BY <1>2 DEF RowsStep, tables
<1> QED BY <1>2, <1>4, <1>5, <1>6, <1>7, <1>8 DEF Effect, tables

LEMMA FindEffect ==
  ASSUME IInv, NEW q \in Requests, Find(q)
  PROVE  Effect(q) /\ pc[q] # "done" /\ audit' = audit
<1> DEFINE id == input[q].id
<1>1. /\ pc[q] = "find" /\ UNCHANGED <<tables, input, updated>>
      /\ current' = [current EXCEPT ![q] = IF Visible(id) THEN rows[id] ELSE NoRow]
  BY DEF Find
<1>2. input[q] \in Asks /\ id \in Ids /\ rows[id] \in Row
  BY <1>1, AskFields DEF IInv, Fits, AskFits, TypeOK
<1>3. TypeOK'
  <2>1. pc' \in [Requests -> {"idle"} \cup Running \cup Ended] /\ reply' \in [Requests -> Replies]
    BY DEF Find, IInv, TypeOK, Answer, Goto, Replies, Running, Ended
  <2>2. current' \in [Requests -> Row]
    BY <1>1, <1>2, NoRowFacts DEF IInv, TypeOK
  <2> QED BY <1>1, <2>1, <2>2 DEF IInv, TypeOK, tables
<1>4. Frame(q)
  BY <1>1 DEF Find, Frame, IInv, TypeOK, Answer, Goto
<1>5. RowsStep
  BY <1>1 DEF RowsStep, tables
<1>6. \/ pc'[q] = "done" /\ reply'[q] = "notFound"
      \/ pc'[q] = "done" /\ reply'[q] = "ok" /\ input[q].op = "detail"
      \/ pc'[q] = "done" /\ reply'[q] = "alreadyProcessed" /\ Exists(id) /\ ~Claimable(id)
      \/ /\ pc'[q] \in {"update", "softDelete"} /\ reply'[q] = "none" /\ Claimable(id)
         /\ input[q].op \in {"update", "delete"}
         /\ pc'[q] = "update" <=> input[q].op = "update"
  BY <1>1, <1>2, AskFields DEF Find, IInv, Fits, AskFits, TypeOK, Answer, Goto, RefusedAtOnce,
                               Claimable, Visible
<1>7. ~Won(q)'
  BY <1>1, <1>6 DEF Won, tables
<1>8. ReadFits(q)'
  BY <1>1, <1>2, <1>6, <1>7 DEF ReadFits, Holds, Claimable, Visible, Exists, tables, IInv,
                                TypeOK
<1>9. AskFits(q)' /\ RefusalFits(q)'
  BY <1>1, <1>2, <1>6 DEF IInv, Fits, AskFits, RefusalFits, Running, Claimable, Visible,
                          Exists, tables
<1> QED BY <1>1, <1>3, <1>4, <1>5, <1>7, <1>8, <1>9 DEF Effect, Fits, tables

LEMMA UpdateEffect ==
  ASSUME IInv, NEW q \in Requests, Update(q)
  PROVE  Effect(q) /\ pc[q] # "done" /\ audit' = audit
<1> DEFINE ask == input[q]
<1>1. pc[q] = "update" /\ audit' = audit /\ UNCHANGED locals /\ input' = input
      /\ current' = current /\ updated' = updated
  BY DEF Update, locals
<1>2. /\ ask \in Asks /\ ask.op = "update" /\ ask.status \in Decisions
      /\ reply[q] = "none" /\ current[q].status = "PENDING" /\ ~current[q].deleted /\ Exists(ask.id)
      /\ Claimable(ask.id) => rows[ask.id] = current[q]
  BY <1>1 DEF IInv, Fits, AskFits, ReadFits, Holds, Running, Ended, TypeOK
<1>3. ask.id \in Ids /\ ask.note \in Notes /\ ask.actor \in Users /\ rows \in [Ids -> Row]
  BY <1>2, AskFields DEF IInv, TypeOK
<1>4. Frame(q)
  BY <1>1 DEF Update, Frame, IInv, TypeOK, Answer, Goto
<1>5. CASE Claimable(ask.id) /\ ask.fits
  <2>1. SetStatus(ask.id, ask.status, ask.note, ask.actor) /\ Goto(q, "reread")
    BY <1>5 DEF Update
  <2>2. pc'[q] = "reread" /\ reply'[q] = "none" /\ reply' = reply
    BY <1>2, <2>1 DEF Goto, IInv, TypeOK
  <2>3. /\ rows' \in [Ids -> Row]
        /\ rows'[ask.id] = Decided(rows[ask.id], ask.status, ask.note, ask.actor)
        /\ \A i \in Ids : i # ask.id => rows'[i] = rows[i]
        /\ Exists(ask.id)' /\ ~Claimable(ask.id)'
        /\ rows'[ask.id].deleted = FALSE
    BY <1>1, <1>2, <1>3, <1>5, <2>1, SetStatusFacts DEF Exists, Claimable, Visible
  <2>4. TypeOK'
    BY <1>1, <2>1, <2>3 DEF IInv, TypeOK, Goto, Running
  <2>5. RowsStep
    BY <1>1, <1>5, <2>3 DEF RowsStep, Exists, Claimable, Visible
  <2>6. (OwnsRow(q))'
    BY <1>1, <1>2, <1>5, <2>2, <2>3 DEF OwnsRow
  <2>7. AskFits(q)' /\ RefusalFits(q)' /\ ReadFits(q)'
    BY <1>1, <1>2, <2>2, <2>3 DEF AskFits, RefusalFits, ReadFits, Running, Exists, Claimable,
                                  Visible
  <2> QED BY <1>1, <1>4, <1>5, <2>4, <2>5, <2>6, <2>7 DEF Effect, Fits
<1>7. CASE Claimable(ask.id) /\ ~ask.fits
  <2>1. rows' = rows /\ Answer(q, "unfit")
    BY <1>7 DEF Update
  <2>2. pc'[q] = "done" /\ reply'[q] = "unfit"
    BY <2>1 DEF Answer, IInv, TypeOK
  <2>3. TypeOK'
    BY <1>1, <2>1 DEF IInv, TypeOK, Answer, Ended, Replies
  <2>4. ~Won(q)' /\ ~Holds(q)'
    BY <2>2 DEF Won, Holds
  <2>5. Fits(q)'
    BY <1>1, <1>2, <2>2, <2>4 DEF Fits, AskFits, ReadFits, RefusalFits, Running
  <2> QED BY <1>1, <1>4, <2>1, <2>3, <2>4, <2>5 DEF Effect, RowsStep
<1>6. CASE ~Claimable(ask.id)
  <2>1. rows' = rows /\ Answer(q, "justProcessed")
    BY <1>6 DEF Update
  <2>2. pc'[q] = "done" /\ reply'[q] = "justProcessed"
    BY <2>1 DEF Answer, IInv, TypeOK
  <2>3. TypeOK'
    BY <1>1, <2>1 DEF IInv, TypeOK, Answer, Ended, Replies
  <2>4. ~Won(q)' /\ ~Holds(q)'
    BY <2>2 DEF Won, Holds
  <2>5. Fits(q)'
    BY <1>1, <1>2, <1>6, <2>1, <2>2, <2>4
    DEF Fits, AskFits, ReadFits, RefusalFits, Running, Exists, Claimable, Visible
  <2> QED BY <1>1, <1>4, <2>1, <2>3, <2>4, <2>5 DEF Effect, RowsStep
<1> QED BY <1>5, <1>6, <1>7

LEMMA RereadEffect ==
  ASSUME IInv, NEW q \in Requests, Reread(q)
  PROVE  Effect(q) /\ pc[q] # "done" /\ audit' = audit
<1> DEFINE id == input[q].id
<1>1. pc[q] = "reread" /\ UNCHANGED <<tables, input, current>>
  BY DEF Reread
<1>2. input[q] \in Asks /\ id \in Ids /\ input[q].op = "update" /\ reply[q] = "none"
      /\ input[q].status \in Decisions /\ rows[id] \in Row
  BY <1>1, AskFields DEF IInv, Fits, AskFits, Running, Ended, TypeOK
<1>3. Won(q) /\ OwnsRow(q) /\ ReadFits(q)
  BY <1>1, <1>2 DEF IInv, Fits, Won
<1>4. Frame(q) /\ RowsStep
  BY <1>1 DEF Reread, Frame, RowsStep, IInv, TypeOK, Answer, Goto, tables
<1>5. CASE Visible(id)
  <2>1. updated' = [updated EXCEPT ![q] = rows[id]] /\ Goto(q, "audit")
    BY <1>5 DEF Reread
  <2>2. updated'[q] = rows[id] /\ pc'[q] = "audit" /\ reply' = reply
    BY <2>1 DEF IInv, TypeOK, Goto
  <2>3. TypeOK'
    BY <1>1, <1>2, <2>1 DEF IInv, TypeOK, Goto, Running, tables
  <2>4. (OwnsRow(q))'
    BY <1>1, <1>2, <1>3, <2>2 DEF OwnsRow, tables
  <2>5. AskFits(q)' /\ RefusalFits(q)' /\ ReadFits(q)'
    BY <1>1, <1>2, <1>3, <2>2
    DEF AskFits, RefusalFits, ReadFits, Holds, Running, Exists, Claimable, Visible, tables
  <2> QED BY <1>1, <1>3, <1>4, <2>3, <2>4, <2>5 DEF Effect, Fits, tables
<1>6. CASE ~Visible(id)
  <2>1. UNCHANGED updated /\ Answer(q, "missing")
    BY <1>6 DEF Reread
  <2>2. pc'[q] = "done" /\ reply'[q] = "missing"
    BY <2>1 DEF IInv, TypeOK, Answer
  <2>3. TypeOK'
    BY <1>1, <2>1 DEF IInv, TypeOK, Answer, Ended, Replies, tables
  <2>4. ~Won(q)' /\ ~Holds(q)'
    BY <2>2 DEF Won, Holds
  <2>5. Fits(q)'
    BY <1>1, <1>2, <2>2, <2>4 DEF Fits, AskFits, ReadFits, RefusalFits, Running
  <2> QED BY <1>1, <1>4, <2>3, <2>4, <2>5 DEF Effect, tables
<1> QED BY <1>5, <1>6

LEMMA SoftDeleteEffect ==
  ASSUME IInv, NEW q \in Requests, SoftDelete(q)
  PROVE  Effect(q) /\ pc[q] # "done" /\ audit' = audit
<1> DEFINE id == input[q].id
<1>1. pc[q] = "softDelete" /\ audit' = audit /\ input' = input
      /\ current' = current /\ updated' = updated
  BY DEF SoftDelete, locals
<1>2. /\ input[q] \in Asks /\ input[q].op = "delete" /\ reply[q] = "none"
      /\ current[q].status = "PENDING" /\ ~current[q].deleted /\ Exists(id)
      /\ Claimable(id) => rows[id] = current[q]
  BY <1>1 DEF IInv, Fits, AskFits, ReadFits, Holds, TypeOK
<1>3. id \in Ids /\ rows \in [Ids -> Row]
  BY <1>2, AskFields DEF IInv, TypeOK
<1>4. Frame(q)
  BY <1>1 DEF SoftDelete, Frame, IInv, TypeOK, Answer, Goto
<1>5. CASE Claimable(id)
  <2>1. SetDeleted(id) /\ Goto(q, "audit")
    BY <1>5 DEF SoftDelete
  <2>2. pc'[q] = "audit" /\ reply'[q] = "none" /\ reply' = reply
    BY <1>2, <2>1 DEF Goto, IInv, TypeOK
  <2>3. /\ rows' \in [Ids -> Row]
        /\ rows'[id] = Removed(rows[id])
        /\ \A i \in Ids : i # id => rows'[i] = rows[i]
        /\ Exists(id)' /\ ~Claimable(id)'
        /\ rows'[id].status = "PENDING"
    BY <1>1, <1>3, <1>5, <2>1, SetDeletedFacts DEF Exists, Claimable, Visible
  <2>4. TypeOK'
    BY <1>1, <2>1, <2>3 DEF IInv, TypeOK, Goto, Running
  <2>5. RowsStep
    BY <1>1, <1>5, <2>3 DEF RowsStep, Exists, Claimable, Visible
  <2>6. (OwnsRow(q))'
    BY <1>1, <1>2, <1>5, <2>2, <2>3 DEF OwnsRow
  <2>7. AskFits(q)' /\ RefusalFits(q)' /\ ReadFits(q)'
    BY <1>1, <1>2, <2>2, <2>3 DEF AskFits, RefusalFits, ReadFits, Running, Exists, Claimable,
                                  Visible
  <2> QED BY <1>1, <1>4, <1>5, <2>4, <2>5, <2>6, <2>7 DEF Effect, Fits
<1>6. CASE ~Claimable(id)
  <2>1. rows' = rows /\ Answer(q, "justProcessed")
    BY <1>6 DEF SoftDelete
  <2>2. pc'[q] = "done" /\ reply'[q] = "justProcessed"
    BY <2>1 DEF Answer, IInv, TypeOK
  <2>3. TypeOK'
    BY <1>1, <2>1 DEF IInv, TypeOK, Answer, Ended, Replies
  <2>4. ~Won(q)' /\ ~Holds(q)'
    BY <2>2 DEF Won, Holds
  <2>5. Fits(q)'
    BY <1>1, <1>2, <1>6, <2>1, <2>2, <2>4
    DEF Fits, AskFits, ReadFits, RefusalFits, Running, Exists, Claimable, Visible
  <2> QED BY <1>1, <1>4, <2>1, <2>3, <2>4, <2>5 DEF Effect, RowsStep
<1> QED BY <1>5, <1>6

LEMMA WriteAuditEffect ==
  ASSUME IInv, NEW q \in Requests, WriteAudit(q)
  PROVE  Effect(q) /\ pc[q] # "done" /\ Won(q)'
<1>1. pc[q] = "audit" /\ rows' = rows /\ input' = input /\ current' = current
      /\ updated' = updated /\ Answer(q, "ok")
  BY DEF WriteAudit, locals
<1>2. input[q] \in Asks /\ input[q].op # "detail" /\ reply[q] = "none"
      /\ (input[q].op = "update" => input[q].status \in Decisions)
  BY <1>1 DEF IInv, Fits, AskFits, Running, TypeOK
<1>3. Won(q) /\ OwnsRow(q) /\ ReadFits(q)
  BY <1>1, <1>2 DEF IInv, Fits, Won
<1>4. pc'[q] = "done" /\ reply'[q] = "ok"
  BY <1>1 DEF Answer, IInv, TypeOK
<1>5. ReviewEntry(q) \in AuditEntry
  <2>1. Removed(current[q]) \in Row /\ current[q] \in Row /\ updated[q] \in Row
    BY RemovedFacts DEF IInv, TypeOK
  <2>2. input[q].id \in Ids /\ input[q].actor \in Users
    BY <1>2, AskFields
  <2>3. [status |-> updated[q].status, note |-> updated[q].note,
         approvedBy |-> input[q].actor, deleted |-> FALSE] \in Row
    BY <2>1, <2>2 DEF Row
  <2> QED BY <2>1, <2>2, <2>3 DEF ReviewEntry, AuditEntry
<1>6. audit' \subseteq AuditEntry
  BY <1>5 DEF WriteAudit, InsertAudit, IInv, TypeOK
<1>7. TypeOK'
  BY <1>1, <1>6 DEF IInv, TypeOK, Answer, Ended, Replies
<1>8. Frame(q) /\ RowsStep
  BY <1>1 DEF Frame, RowsStep, IInv, TypeOK, Answer
<1>9. Won(q)' /\ (OwnsRow(q))'
  BY <1>1, <1>2, <1>3, <1>4 DEF Won, OwnsRow
<1>10. AskFits(q)' /\ RefusalFits(q)' /\ ReadFits(q)'
  BY <1>1, <1>2, <1>3, <1>4, <1>9
  DEF AskFits, RefusalFits, ReadFits, Holds, Exists, Claimable, Visible
<1> QED BY <1>1, <1>3, <1>7, <1>8, <1>9, <1>10 DEF Effect, Fits

LEMMA StatementFailsEffect ==
  ASSUME IInv, NEW q \in Requests, StatementFails(q)
  PROVE  Effect(q) /\ pc[q] # "done" /\ audit' = audit
<1>1. pc[q] \in {"find", "update", "reread", "softDelete"} /\ UNCHANGED <<tables, input, current, updated>>
      /\ Answer(q, "failed")
  BY DEF StatementFails, locals
<1>2. input[q] \in Asks
  BY <1>1 DEF IInv, Fits, AskFits
<1>3. pc'[q] = "done" /\ reply'[q] = "failed"
  BY <1>1 DEF Answer, IInv, TypeOK
<1>4. TypeOK'
  BY <1>1 DEF IInv, TypeOK, Answer, Ended, Replies, tables
<1>5. ~Won(q)' /\ ~Holds(q)'
  BY <1>3 DEF Won, Holds
<1>6. Fits(q)'
  BY <1>1, <1>2, <1>3, <1>5 DEF Fits, AskFits, ReadFits, RefusalFits, Running
<1>7. Frame(q) /\ RowsStep
  BY <1>1 DEF Frame, RowsStep, IInv, TypeOK, Answer, tables
<1> QED BY <1>1, <1>4, <1>5, <1>6, <1>7 DEF Effect, tables

LEMMA AckLostEffect ==
  ASSUME IInv, NEW q \in Requests, AckLost(q)
  PROVE  Effect(q) /\ pc[q] # "done" /\ audit' = audit
<1> DEFINE ask == input[q]
<1>1. /\ pc[q] \in {"update", "softDelete"} /\ audit' = audit /\ input' = input
      /\ current' = current /\ updated' = updated
      /\ Claimable(ask.id) /\ Answer(q, "failed")
  BY DEF AckLost, locals
<1>2. ask \in Asks /\ (pc[q] = "update" => ask.status \in Decisions)
  BY <1>1 DEF IInv, Fits, AskFits, Running
<1>3. ask.id \in Ids /\ ask.note \in Notes /\ ask.actor \in Users /\ rows \in [Ids -> Row]
  BY <1>2, AskFields DEF IInv, TypeOK
<1>4. pc'[q] = "done" /\ reply'[q] = "failed"
  BY <1>1 DEF Answer, IInv, TypeOK
<1>5. ~Won(q)' /\ ~Holds(q)'
  BY <1>4 DEF Won, Holds
<1>6. Fits(q)'
  BY <1>1, <1>2, <1>4, <1>5 DEF Fits, AskFits, ReadFits, RefusalFits, Running
<1>7. /\ rows' \in [Ids -> Row]
      /\ \A i \in Ids : i # ask.id => rows'[i] = rows[i]
      /\ Exists(ask.id)' /\ ~Claimable(ask.id)'
  <2>1. CASE pc[q] = "update"
    <3>1. SetStatus(ask.id, ask.status, ask.note, ask.actor)
      BY <2>1 DEF AckLost
    <3> QED BY <1>1, <1>2, <1>3, <2>1, <3>1, SetStatusFacts DEF Exists, Claimable, Visible
  <2>2. CASE pc[q] = "softDelete"
    <3>1. SetDeleted(ask.id)
      BY <2>2 DEF AckLost
    <3> QED BY <1>1, <1>3, <3>1, SetDeletedFacts DEF Exists, Claimable, Visible
  <2> QED BY <1>1, <2>1, <2>2
<1>8. TypeOK'
  BY <1>1, <1>7 DEF IInv, TypeOK, Answer, Ended, Replies
<1>9. RowsStep
  BY <1>1, <1>7 DEF RowsStep, Exists, Claimable, Visible
<1>10. Frame(q)
  BY <1>1 DEF Frame, IInv, TypeOK, Answer
<1> QED BY <1>1, <1>5, <1>6, <1>8, <1>9, <1>10 DEF Effect

-----------------------------------------------------------------------------
(* The invariant.                                                          *)

\* A step with the common effect keeps the whole invariant, provided the
\* audit log it leaves fits.
LEMMA EffectKeepsIInv ==
  ASSUME IInv, NEW q \in Requests, Effect(q), pc[q] # "done",
         audit' = audit \/ (audit' = audit \cup {ReviewEntry(q)'} /\ Won(q)' /\ pc'[q] = "done")
  PROVE  IInv'
<1>1. \A r \in Requests \ {q} : Fits(r)' /\ (Won(r)' <=> Won(r)) /\ input'[r] = input[r]
  <2>1. SUFFICES ASSUME NEW r \in Requests \ {q}
                 PROVE  Fits(r)' /\ (Won(r)' <=> Won(r)) /\ input'[r] = input[r]
    OBVIOUS
  <2>2. /\ pc'[r] = pc[r] /\ input'[r] = input[r] /\ reply'[r] = reply[r]
        /\ current'[r] = current[r] /\ updated'[r] = updated[r]
    BY DEF Effect, Frame
  <2>3. TypeOK /\ Fits(r) /\ RowsStep
    BY DEF IInv, Effect
  <2>4. Fits(r)'
    BY <2>2, <2>3, OthersKeepFits
  <2> QED BY <2>2, <2>4 DEF Won
<1>2. \A r \in Requests : Fits(r)'
  BY <1>1 DEF Effect
<1>3. EntryFits'
  <2>1. \A e \in audit : e.request \in Requests \ {q} /\ pc'[e.request] = "done"
                         /\ Won(e.request)' /\ e = ReviewEntry(e.request)'
    <3>1. SUFFICES ASSUME NEW e \in audit
                   PROVE  e.request \in Requests \ {q} /\ pc'[e.request] = "done"
                          /\ Won(e.request)' /\ e = ReviewEntry(e.request)'
      OBVIOUS
    <3>2. e.request \in Requests
      BY DEF IInv, TypeOK, AuditEntry
    <3>3. pc[e.request] = "done" /\ Won(e.request) /\ e = ReviewEntry(e.request)
      BY DEF IInv, EntryFits
    <3>4. e.request # q
      BY <3>3
    <3>5. /\ pc'[e.request] = pc[e.request] /\ input'[e.request] = input[e.request]
          /\ current'[e.request] = current[e.request] /\ updated'[e.request] = updated[e.request]
      BY <3>2, <3>4 DEF Effect, Frame
    <3>6. ReviewEntry(e.request)' = ReviewEntry(e.request)
      BY <3>5 DEF ReviewEntry
    <3> QED BY <1>1, <3>2, <3>3, <3>4, <3>5, <3>6
  <2>2. ReviewEntry(q)'.request = q
    BY DEF ReviewEntry
  <2> QED BY <2>1, <2>2 DEF EntryFits
<1>4. OneWinner'
  <2>1. SUFFICES ASSUME NEW r \in Requests \ {q}, Won(q)', Won(r)', input'[q].id = input'[r].id
                 PROVE  FALSE
    BY <1>1 DEF OneWinner, IInv
  <2>2. Won(r) /\ input[q].id = input[r].id /\ (Won(q) \/ Claimable(input[q].id))
    BY <1>1, <2>1 DEF Effect
  <2>3. ~Claimable(input[r].id)
    BY <2>2, WonNotClaimable DEF IInv
  <2> QED BY <2>2, <2>3 DEF IInv, OneWinner
<1> QED BY <1>2, <1>3, <1>4 DEF IInv, Effect

LEMMA InitIInv == Init => IInv
<1>1. SUFFICES ASSUME Init PROVE IInv
  OBVIOUS
<1>2. rows \in [Ids -> Row]
  <2>1. {NoRow} \cup {PendingRow(note) : note \in Notes} \subseteq Row
    BY NoRowFacts, PendingRowFacts
  <2>2. rows \in [Ids -> {NoRow} \cup {PendingRow(note) : note \in Notes}]
    BY <1>1 DEF Init
  <2> QED BY <2>1, <2>2
<1>3. TypeOK
  BY <1>1, <1>2, NoRowFacts DEF Init, TypeOK, Replies
<1>4. \A r \in Requests : ~Won(r) /\ ~Holds(r) /\ Fits(r)
  BY <1>1 DEF Init, Won, Holds, Fits, AskFits, ReadFits, RefusalFits, Running
<1> QED BY <1>1, <1>3, <1>4 DEF IInv, EntryFits, OneWinner, Init

LEMMA CrashKeepsIInv ==
  ASSUME IInv, Crash
  PROVE  IInv'
<1>1. /\ pc' = [r \in Requests |-> IF pc[r] \in Running THEN "lost" ELSE pc[r]]
      /\ rows' = rows /\ audit' = audit /\ input' = input /\ current' = current
      /\ updated' = updated /\ reply' = reply
  BY DEF Crash, tables, locals
<1>2. TypeOK'
  BY <1>1 DEF IInv, TypeOK, Ended
<1>3. ASSUME NEW r \in Requests
      PROVE  Fits(r)' /\ (Won(r)' => Won(r))
  <2>1. Won(r)' => Won(r)
    BY <1>1 DEF Won, IInv, TypeOK, Running
  <2>2. AskFits(r)'
    BY <1>1 DEF IInv, Fits, AskFits, Running, TypeOK
  <2>3. ReadFits(r)' /\ RefusalFits(r)'
    BY <1>1, <2>1 DEF IInv, Fits, ReadFits, RefusalFits, Holds, Exists, Claimable, Visible,
                      Running, TypeOK
  <2>4. Won(r)' => (OwnsRow(r))'
    <3>1. SUFFICES ASSUME Won(r)' PROVE (OwnsRow(r))'
      BY <2>1
    <3>2. pc'[r] = pc[r] /\ OwnsRow(r)
      BY <1>1, <2>1, <3>1 DEF IInv, Fits, AskFits, Won, Running, TypeOK
    <3> QED BY <1>1, <3>2 DEF OwnsRow
  <2> QED BY <2>1, <2>2, <2>3, <2>4 DEF Fits
<1>4. EntryFits'
  <2>1. SUFFICES ASSUME NEW e \in audit
                 PROVE  pc'[e.request] = "done" /\ Won(e.request)' /\ e = ReviewEntry(e.request)'
    BY <1>1 DEF EntryFits
  <2>2. e.request \in Requests /\ pc[e.request] = "done" /\ Won(e.request) /\ e = ReviewEntry(e.request)
    BY DEF IInv, EntryFits, TypeOK, AuditEntry
  <2> QED BY <1>1, <2>2 DEF Won, ReviewEntry, Running
<1>5. OneWinner'
  BY <1>1, <1>3 DEF IInv, OneWinner
<1> QED BY <1>2, <1>3, <1>4, <1>5 DEF IInv

LEMMA NextKeepsIInv == IInv /\ [Next]_vars => IInv'
<1>1. SUFFICES ASSUME IInv, [Next]_vars PROVE IInv'
  OBVIOUS
<1>2. ASSUME NEW q \in Requests, Receive(q) PROVE IInv'
  BY <1>1, <1>2, ReceiveEffect, EffectKeepsIInv
<1>3. ASSUME NEW q \in Requests, Find(q) PROVE IInv'
  BY <1>1, <1>3, FindEffect, EffectKeepsIInv
<1>4. ASSUME NEW q \in Requests, Update(q) PROVE IInv'
  BY <1>1, <1>4, UpdateEffect, EffectKeepsIInv
<1>5. ASSUME NEW q \in Requests, Reread(q) PROVE IInv'
  BY <1>1, <1>5, RereadEffect, EffectKeepsIInv
<1>6. ASSUME NEW q \in Requests, SoftDelete(q) PROVE IInv'
  BY <1>1, <1>6, SoftDeleteEffect, EffectKeepsIInv
<1>7. ASSUME NEW q \in Requests, WriteAudit(q) PROVE IInv'
  <2>1. Effect(q) /\ pc[q] # "done" /\ Won(q)'
    BY <1>1, <1>7, WriteAuditEffect
  <2>2. ReviewEntry(q)' = ReviewEntry(q)
    BY <1>7 DEF WriteAudit, ReviewEntry, locals
  <2>3. pc'[q] = "done"
    BY <1>1, <1>7 DEF WriteAudit, Answer, IInv, TypeOK
  <2>4. audit' = audit \/ audit' = audit \cup {ReviewEntry(q)'}
    BY <1>7, <2>2 DEF WriteAudit, InsertAudit
  <2> QED BY <1>1, <2>1, <2>3, <2>4, EffectKeepsIInv
<1>8. ASSUME NEW q \in Requests, StatementFails(q) PROVE IInv'
  BY <1>1, <1>8, StatementFailsEffect, EffectKeepsIInv
<1>9. ASSUME NEW q \in Requests, AckLost(q) PROVE IInv'
  BY <1>1, <1>9, AckLostEffect, EffectKeepsIInv
<1>10. CASE Crash
  BY <1>1, <1>10, CrashKeepsIInv
<1>11. CASE UNCHANGED vars
  <2>1. rows' = rows /\ audit' = audit /\ pc' = pc /\ input' = input /\ current' = current
        /\ updated' = updated /\ reply' = reply
    BY <1>11 DEF vars, tables, locals
  <2>2. TypeOK'
    BY <1>1, <2>1 DEF IInv, TypeOK
  <2>3. \A r \in Requests : Fits(r)'
    BY <1>1, <2>1 DEF IInv, Fits, AskFits, ReadFits, RefusalFits, Holds, Won, OwnsRow,
                      Exists, Claimable, Visible
  <2>4. EntryFits' /\ OneWinner'
    BY <1>1, <2>1 DEF IInv, EntryFits, OneWinner, Won, ReviewEntry
  <2> QED BY <2>2, <2>3, <2>4 DEF IInv
<1> QED
  BY <1>1, <1>2, <1>3, <1>4, <1>5, <1>6, <1>7, <1>8, <1>9, <1>10, <1>11 DEF Next, Step

\* IInv is an invariant of the endpoints.
THEOREM Invariance == Spec => []IInv
  BY InitIInv, NextKeepsIInv, PTL DEF Spec

\* Every request, row and audit entry keeps its type.
THEOREM TypeCorrect == Spec => []TypeOK
<1>1. IInv => TypeOK
  BY DEF IInv
<1> QED BY <1>1, Invariance, PTL

\* Of the requests that decide or delete one disbursement at most one
\* succeeds, for any number of them and under faults and crashes.
THEOREM AtMostOneWinner == Spec => []OneWinner
<1>1. IInv => OneWinner
  BY DEF IInv
<1> QED BY <1>1, Invariance, PTL

\* The row stays what the winner made of it.
THEOREM WinnerKeepsRow == Spec => []WinnerOwnsRow
<1>1. IInv => WinnerOwnsRow
  BY DEF IInv, Fits, WinnerOwnsRow
<1> QED BY <1>1, Invariance, PTL

\* What the invariant knows about entries and winners makes the audit log true.
LEMMA EntriesAreTrue ==
  ASSUME IInv
  PROVE  AuditTrue
<1>1. ASSUME NEW e \in audit
      PROVE  /\ e.request \in Requests /\ Won(e.request) /\ e = ReviewEntry(e.request)
             /\ Fits(e.request) /\ OwnsRow(e.request) /\ pc[e.request] = "done"
  BY <1>1 DEF IInv, EntryFits, TypeOK, AuditEntry, Fits
<1>2. ASSUME NEW e \in audit, NEW f \in audit, e.entity = f.entity
      PROVE  e = f
  <2>1. e.entity = input[e.request].id /\ f.entity = input[f.request].id
    BY <1>1 DEF ReviewEntry
  <2>2. e.request = f.request
    BY <1>1, <1>2, <2>1 DEF IInv, OneWinner
  <2> QED BY <1>1, <2>2
<1>3. ASSUME NEW e \in audit
      PROVE  /\ e.before.status = "PENDING" /\ ~e.before.deleted
             /\ e.after = rows[e.entity]
             /\ e.action = "status_changed" =>
                  e.after.status \in Decisions /\ e.after.approvedBy = e.actor
             /\ e.action = "deleted" => e.after.deleted
  <2> DEFINE r == e.request
  <2>1. r \in Requests /\ Won(r) /\ e = ReviewEntry(r) /\ Fits(r) /\ OwnsRow(r) /\ pc[r] = "done"
    BY <1>1
  <2>2. input[r] \in Asks /\ reply[r] = "ok" /\ current[r] \in Row
    BY <2>1 DEF Fits, AskFits, Won, IInv, TypeOK
  <2>3. /\ e.before = current[r] /\ e.entity = input[r].id /\ e.actor = input[r].actor
        /\ e.action = IF input[r].op = "update" THEN "status_changed" ELSE "deleted"
        /\ e.after = IF input[r].op = "update"
                       THEN [status |-> updated[r].status, note |-> updated[r].note,
                             approvedBy |-> input[r].actor, deleted |-> FALSE]
                       ELSE Removed(current[r])
    BY <2>1 DEF ReviewEntry
  <2>4. current[r].status = "PENDING" /\ ~current[r].deleted
    BY <2>1 DEF Fits, ReadFits, Holds
  <2>5. CASE input[r].op = "update"
    <3>1. input[r].status \in Decisions
      BY <2>1, <2>2, <2>5 DEF Fits, AskFits
    <3>2. e.after = rows[e.entity]
          /\ e.after = Decided(current[r], input[r].status, input[r].note, input[r].actor)
      <4> DEFINE row == rows[input[r].id]
      <4>1. updated[r] = row /\ ~row.deleted
            /\ row = Decided(current[r], input[r].status, input[r].note, input[r].actor)
        BY <2>1, <2>5 DEF OwnsRow
      <4>2. row = [status |-> row.status, note |-> row.note,
                   approvedBy |-> input[r].actor, deleted |-> FALSE]
        <5> DEFINE n == IF input[r].note = "" THEN current[r].note ELSE input[r].note
        <5>1. current[r].deleted = FALSE
          BY <2>2, <2>4 DEF Row
        <5>2. row = [status |-> input[r].status, note |-> n,
                     approvedBy |-> input[r].actor, deleted |-> FALSE]
          BY <4>1, <5>1 DEF Decided
        <5> HIDE DEF row, n
        <5>3. row.status = input[r].status /\ row.note = n
          BY <5>2
        <5> QED BY <5>2, <5>3
      <4> QED BY <2>3, <2>5, <4>1, <4>2
    <3>3. e.after.status \in Decisions /\ e.after.approvedBy = e.actor
      BY <2>2, <2>3, <3>1, <3>2, AskFields, DecidedFacts
    <3> QED BY <2>3, <2>4, <2>5, <3>2, <3>3
  <2>6. CASE input[r].op # "update"
    <3>1. e.after = rows[e.entity] /\ e.after = Removed(current[r])
      BY <2>1, <2>3, <2>6 DEF OwnsRow
    <3>2. e.after.deleted = TRUE
      BY <2>2, <3>1, RemovedFacts
    <3> QED BY <2>3, <2>4, <2>6, <3>1, <3>2
  <2> QED BY <2>5, <2>6
<1> QED BY <1>2, <1>3 DEF AuditTrue

\* The audit log agrees with the table about every closed disbursement.
THEOREM AuditIsTrue == Spec => []AuditTrue
<1>1. IInv => AuditTrue
  BY EntriesAreTrue
<1> QED BY <1>1, Invariance, PTL

\* A request refused with 409 was refused rightly and left no trace.
THEOREM RefusalIsTrue == Spec => []RefusalTrue
<1>1. ASSUME IInv, NEW r \in Requests, reply[r] \in {"alreadyProcessed", "justProcessed"}
      PROVE  /\ rows[input[r].id].status \in Decisions \/ rows[input[r].id].deleted
             /\ ~ \E e \in audit : e.request = r
  <2>1. Exists(input[r].id) /\ ~Claimable(input[r].id) /\ pc[r] = "done" /\ input[r] \in Asks
    BY <1>1 DEF IInv, Fits, AskFits, RefusalFits
  <2>2. rows[input[r].id] \in Row
    BY <1>1, <2>1, AskFields DEF IInv, TypeOK
  <2>3. ~Won(r)
    BY <1>1, <2>1 DEF Won
  <2> QED BY <1>1, <2>1, <2>2, <2>3
          DEF IInv, EntryFits, Exists, Claimable, Visible, Row, Statuses, Decisions
<1>2. IInv => RefusalTrue
  BY <1>1 DEF RefusalTrue
<1> QED BY <1>2, Invariance, PTL

\* A request that is about to read its row again finds it: it owns the row.
LEMMA RereadFinds ==
  ASSUME IInv, RereadHits, [Next]_vars
  PROVE  RereadHits'
<1>1. \A r \in Requests : reply[r] # "missing"
  BY DEF RereadHits
<1>2. ASSUME NEW q \in Requests,
             \/ Receive(q) \/ Find(q) \/ Update(q) \/ SoftDelete(q)
             \/ WriteAudit(q) \/ StatementFails(q) \/ AckLost(q)
      PROVE  \A r \in Requests : reply'[r] # "missing"
  BY <1>1, <1>2
  DEF Receive, Find, Update, SoftDelete, WriteAudit, StatementFails, AckLost, Answer, Goto,
      IInv, TypeOK
<1>3. ASSUME NEW q \in Requests, Reread(q)
      PROVE  \A r \in Requests : reply'[r] # "missing"
  <2>1. Won(q) /\ OwnsRow(q) /\ ReadFits(q) /\ input[q].op = "update"
    BY <1>3 DEF Reread, IInv, Fits, AskFits, Won
  <2>2. Visible(input[q].id)
    BY <2>1 DEF OwnsRow, ReadFits, Holds, Visible
  <2> QED BY <1>1, <1>3, <2>2 DEF Reread, Goto
<1>4. CASE Crash \/ UNCHANGED vars
  BY <1>1, <1>4 DEF Crash, vars, RereadHits
<1> QED BY <1>2, <1>3, <1>4 DEF Next, Step, RereadHits

\* The second read of a decision always finds its row, which nobody can
\* delete any more: under faults and crashes, for any number of requests.
THEOREM RereadsHit == Spec => []RereadHits
<1>1. Init => RereadHits
  BY DEF Init, RereadHits
<1>2. IInv /\ RereadHits /\ [Next]_vars => RereadHits'
  BY RereadFinds
<1> QED BY <1>1, <1>2, Invariance, PTL DEF Spec

-----------------------------------------------------------------------------
(* The refinement: every step of the endpoints is a step of the lifecycle, *)
(* or leaves every disbursement's life alone.                              *)

LEMMA SetStatusDecides ==
  ASSUME rows \in [Ids -> Row], NEW id \in Ids, NEW status \in Decisions,
         NEW note \in Notes, NEW actor \in Users,
         Claimable(id), SetStatus(id, status, note, actor)
  PROVE  Lifecycle!Decide(id)
<1> DEFINE row == Decided(rows[id], status, note, actor)
           l == [stage |-> status, approvedBy |-> actor, note |-> row.note]
<1>0. rows[id] \in Row /\ rows[id].deleted = FALSE
  BY DEF Claimable, Visible, Row
<1>1. /\ rows'[id] = row /\ row \in Row
      /\ row.status = status /\ row.approvedBy = actor /\ row.deleted = FALSE
      /\ \A i \in Ids : i # id => rows'[i] = rows[i]
  <2>1. row \in Row /\ row.status = status /\ row.approvedBy = actor /\ row.deleted = FALSE
    BY <1>0, DecidedFacts
  <2>2. rows'[id] = row /\ \A i \in Ids : i # id => rows'[i] = rows[i]
    BY <2>1 DEF SetStatus
  <2> QED BY <2>1, <2>2
<1>2. Stage(rows[id]) = "PENDING"
  BY DEF Stage, Claimable, Visible, Exists
<1>3. Stage(rows'[id]) = status
  BY <1>1 DEF Stage, Decisions
<1>4. life' = [life EXCEPT ![id] = l]
  BY <1>1, <1>3 DEF life
<1>5. life[id].stage = "PENDING"
  BY <1>2 DEF life
<1>6. row.note \in Notes
  BY <1>1 DEF Row
<1> QED BY <1>4, <1>5, <1>6 DEF Lifecycle!Decide, Lifecycle!Become, Decisions

LEMMA SetDeletedRemoves ==
  ASSUME rows \in [Ids -> Row], NEW id \in Ids, Claimable(id), SetDeleted(id)
  PROVE  Lifecycle!Remove(id)
<1>1. /\ rows'[id] = Removed(rows[id]) /\ rows'[id].deleted = TRUE
      /\ rows'[id].status = "PENDING"
      /\ \A i \in Ids : i # id => rows'[i] = rows[i]
  BY SetDeletedFacts, RemovedFacts DEF Exists, Claimable, Visible
<1>2. rows'[id].approvedBy = rows[id].approvedBy /\ rows'[id].note = rows[id].note
  BY <1>1 DEF Removed
<1>3. Stage(rows[id]) = "PENDING"
  BY DEF Stage, Claimable, Visible, Exists
<1>4. Stage(rows'[id]) = "removed"
  BY <1>1 DEF Stage
<1>5. life' = [life EXCEPT ![id] = [life[id] EXCEPT !.stage = "removed"]]
  BY <1>1, <1>2, <1>4 DEF life
<1>6. life[id].stage = "PENDING"
  BY <1>3 DEF life
<1> QED BY <1>5, <1>6 DEF Lifecycle!Remove, Lifecycle!Become

LEMMA InitImplementsInit == Init => Lifecycle!Init
<1>1. SUFFICES ASSUME Init, NEW id \in Ids
               PROVE  life[id] \in Lifecycle!Undecided
  BY DEF Lifecycle!Init, life
<1>2. rows[id] = NoRow \/ \E note \in Notes : rows[id] = PendingRow(note)
  BY <1>1 DEF Init
<1>3. CASE rows[id] = NoRow
  <2>1. Stage(NoRow) = "absent" /\ NoRow.approvedBy = Nobody /\ NoRow.note \in Notes
    BY TableAssumption DEF Stage, NoRow
  <2>2. life[id] = [stage |-> "absent", approvedBy |-> Nobody, note |-> NoRow.note]
    BY <1>3, <2>1 DEF life
  <2> QED BY <2>1, <2>2 DEF Lifecycle!Undecided, Lifecycle!Life, Lifecycle!Stages
<1>4. ASSUME NEW note \in Notes, rows[id] = PendingRow(note) PROVE life[id] \in Lifecycle!Undecided
  BY <1>4 DEF life, Stage, PendingRow, Lifecycle!Undecided, Lifecycle!Life, Lifecycle!Stages
<1> QED BY <1>2, <1>3, <1>4

LEMMA NextImplementsNext == IInv /\ [Next]_vars => [Lifecycle!Next]_life
<1>1. SUFFICES ASSUME IInv, [Next]_vars PROVE [Lifecycle!Next]_life
  OBVIOUS
<1>2. CASE UNCHANGED rows
  BY <1>2 DEF life
<1>3. ASSUME NEW q \in Requests, Update(q) \/ SoftDelete(q) \/ AckLost(q), rows' # rows
      PROVE  Lifecycle!Next
  <2> DEFINE ask == input[q]
  <2>1. ask \in Asks /\ pc[q] \in {"update", "softDelete"} /\ rows \in [Ids -> Row]
        /\ (pc[q] = "update" => ask.status \in Decisions)
    BY <1>1, <1>3 DEF Update, SoftDelete, AckLost, IInv, Fits, AskFits, TypeOK, Running
  <2>2. ask.id \in Ids /\ ask.note \in Notes /\ ask.actor \in Users
    BY <2>1, AskFields
  <2>3. Claimable(ask.id) /\ IF pc[q] = "update"
                               THEN SetStatus(ask.id, ask.status, ask.note, ask.actor)
                               ELSE SetDeleted(ask.id)
    BY <1>3 DEF Update, SoftDelete, AckLost
  <2>4. Lifecycle!Decide(ask.id) \/ Lifecycle!Remove(ask.id)
    BY <2>1, <2>2, <2>3, SetStatusDecides, SetDeletedRemoves
  <2> QED BY <2>2, <2>4 DEF Lifecycle!Next
<1>4. rows' # rows => \E q \in Requests : Update(q) \/ SoftDelete(q) \/ AckLost(q)
  BY <1>1 DEF Next, Step, Receive, Find, Reread, WriteAudit, StatementFails, Crash, vars, tables
<1> QED BY <1>2, <1>3, <1>4

\* The endpoints implement DisbursementLifecycle: a disbursement is decided
\* once or removed once, and neither is ever undone.
THEOREM ImplementsLifecycle == Spec => LifecycleSpec
<1>1. Init => Lifecycle!Init
  BY InitImplementsInit
<1>2. IInv /\ [Next]_vars => [Lifecycle!Next]_life
  BY NextImplementsNext
<1> QED BY <1>1, <1>2, Invariance, PTL DEF Spec, LifecycleSpec, Lifecycle!Spec
=============================================================================
