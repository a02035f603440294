------------------------------ MODULE ListQuery ------------------------------
(***************************************************************************)
(* GET /disbursements and GET /audit-logs (internal/usecase: List of       *)
(* disbursements.go and audit.go; internal/repository: FindAll of both;    *)
(* NewPagination).  A page of either is two statements, a count and a      *)
(* page, a client walks a list page by page, and rows are inserted,        *)
(* decided and deleted between the two statements and between the pages.   *)
(*                                                                         *)
(* Abstracted: time is counted in days; an amount is its rank; the search  *)
(* for a recipient is left out, being a filter like that of the status.    *)
(* The writers run one statement each; what surrounds it is in their own   *)
(* modules.  No query reads both tables, so a behaviour is about the list  *)
(* of one of them, and the writers write only that one.                    *)
(***************************************************************************)
EXTENDS DisbursementTable, Integers, SequencesExt

CONSTANTS
  Queries,       \* the query strings clients send
  DefaultLimit,  \* 20
  MaxLimit,      \* 100
  IntMax,        \* the largest int
  MaxDay,        \* bound on the days
  Amounts,       \* the amounts that rows have
  Entities,      \* the entity_ids that audit entries have
  NoDate,        \* no date_from or date_to
  MaxWrites,     \* bound on the statements of the writers
  DBFaults,      \* TRUE when statements may fail
  NoInput        \* the request has not arrived

\* A table has no more rows than an int can count.
ASSUME ListAssumption ==
  /\ DefaultLimit \in Nat \ {0} /\ MaxLimit \in Nat \ {0}
  /\ DefaultLimit <= MaxLimit /\ MaxLimit <= IntMax
  /\ IntMax \in Nat
  /\ MaxDay \in Nat /\ MaxWrites \in Nat
  /\ Amounts \subseteq Nat
  /\ NoDate \notin Int
  /\ DBFaults \in BOOLEAN
  /\ IsFiniteSet(Ids) /\ Cardinality(Ids) <= IntMax
  /\ \A q \in Queries :
       /\ q.page \in -IntMax - 1 .. IntMax /\ q.limit \in -IntMax - 1 .. IntMax
       /\ q.from \in Int \cup {NoDate} /\ q.to \in Int \cup {NoDate}

VARIABLES
  list,     \* the table that is listed, "disbursements" or "audit_logs"
  entry,    \* the table audit_logs: an entry per primary key, or NoEntry
  day,      \* the day of created_at of each row
  amount,   \* the amount of each row
  today,    \* the day
  writes,   \* statements of the writers so far
  pc,       \* the statement a request issues next
  query,    \* the query of a request, normalised
  total,    \* what Count found
  page,     \* what Find returned
  basis,    \* the rows that matched when the page was read, in page order
  walk,     \* what the client has seen on its way from page 1
  drift,    \* when the table was written first, seen from the two statements
  reply     \* the answer sent to the client

written == <<list, rows, audit, entry, day, amount, today, writes>>
locals == <<query, total, page, basis, walk>>
vars == <<written, pc, locals, drift, reply>>

Lists == {"disbursements", "audit_logs"}

AuditActions == {"created", "status_changed", "deleted"}

\* What the filters look at of an audit_logs row.
Entry == [entity: Entities, action: AuditActions]
NoEntry == [entity |-> "", action |-> ""]

\* first: the rows that matched on page 1; shown: those shown since; repeated:
\* one of them was shown twice; since: the kinds of writes since page 1.
Walk == [on: BOOLEAN, first: SUBSET Ids, shown: SUBSET Ids,
         repeated: BOOLEAN, since: SUBSET {"insert", "change"}]
NoWalk == [on |-> FALSE, first |-> {}, shown |-> {}, repeated |-> FALSE, since |-> {}]

-----------------------------------------------------------------------------
(* Normalize of both filters, the status test and validateDateRange.       *)

\* Bug: the upper bound is forgotten.
LimitUnbounded(limit) == IF limit < 1 THEN DefaultLimit ELSE limit

NormalLimit(limit) ==
  CASE limit < 1 -> DefaultLimit
    [] limit > MaxLimit -> MaxLimit
    [] OTHER -> limit

\* strings.ToUpper.
Upper(status) ==
  CASE status = "pending" -> "PENDING"
    [] status = "approved" -> "APPROVED"
    [] status = "rejected" -> "REJECTED"
    [] OTHER -> status

NormalPage(n) == IF n < 1 THEN 1 ELSE n

\* DisbursementFilter.Normalize.
NormalizeRows(q) ==
  [page |-> NormalPage(q.page), limit |-> NormalLimit(q.limit),
   status |-> Upper(q.status), entity |-> "", action |-> "",
   from |-> q.from, to |-> q.to,
   sortBy |-> IF q.sortBy = "amount" THEN "amount" ELSE "created_at",
   asc |-> q.sortOrder = "asc"]

\* AuditLogFilter.Normalize; the audit log is listed newest first only.
NormalizeEntries(q) ==
  [page |-> NormalPage(q.page), limit |-> NormalLimit(q.limit),
   status |-> "", entity |-> q.entity, action |-> q.action,
   from |-> q.from, to |-> q.to, sortBy |-> "created_at", asc |-> FALSE]

Normalize(q) == IF list = "disbursements" THEN NormalizeRows(q) ELSE NormalizeEntries(q)

\* The queries that Normalize makes.
Asks ==
  [page: 1 .. IntMax, limit: 1 .. MaxLimit,
   status: {Upper(q.status) : q \in Queries} \cup {""},
   entity: {q.entity : q \in Queries} \cup {""},
   action: {q.action : q \in Queries} \cup {""},
   from: Int \cup {NoDate}, to: Int \cup {NoDate},
   sortBy: {"amount", "created_at"}, asc: BOOLEAN]

LegalDates(q) == q.from # NoDate /\ q.to # NoDate => q.from <= q.to

\* The tests of both usecases; entries have no status.
Legal(q) == q.status \in Statuses \cup {""} /\ LegalDates(q)

-----------------------------------------------------------------------------
(* The two statements.                                                     *)

\* Bug: created_at <= date_to, which is the first instant of that day.
InDatesToMidnight(id, q) ==
  /\ q.from # NoDate => day[id] >= q.from
  /\ q.to # NoDate => day[id] < q.to

\* created_at >= date_from and created_at < date_to + 1 day.
InDates(id, q) ==
  /\ q.from # NoDate => day[id] >= q.from
  /\ q.to # NoDate => day[id] <= q.to

\* The WHERE clauses of FindAll of the disbursements, ...
RowMatches(id, q) ==
  /\ Visible(id)
  /\ q.status # "" => rows[id].status = q.status
  /\ InDates(id, q)

\* ... and those of FindAll of the audit log.
EntryMatches(id, q) ==
  /\ entry[id] # NoEntry
  /\ q.entity # "" => entry[id].entity = q.entity
  /\ q.action # "" => entry[id].action = q.action
  /\ InDates(id, q)

Matches(id, q) ==
  IF list = "disbursements" THEN RowMatches(id, q) ELSE EntryMatches(id, q)

\* The query that both statements run.
Matching(q) == {id \in Ids : Matches(id, q)}

SortKey(id, q) == IF q.sortBy = "amount" THEN amount[id] ELSE day[id]

\* ORDER BY sort_by sort_order puts a before b.
Before(a, b, q) ==
  IF q.asc THEN SortKey(a, q) < SortKey(b, q) ELSE SortKey(a, q) > SortKey(b, q)

\* Bug: no ORDER BY.
OrdersUnsorted(q) == SetToSeqs(Matching(q))

\* The orders MySQL may produce: rows with one key come in any order.
Orders(q) ==
  {s \in SetToSeqs(Matching(q)) :
     \A m, n \in DOMAIN s : m < n => ~Before(s[n], s[m], q)}

\* Go's int wraps round.
Wrapped(n) == ((n + IntMax + 1) % (2 * IntMax + 2)) - IntMax - 1

\* Bug: pages count from 0.
OffsetFromZero(q) == Wrapped(q.page * q.limit)

\* (f.Page - 1) * f.Limit.
Offset(q) == Wrapped((q.page - 1) * q.limit)

\* LIMIT and OFFSET; GORM writes no OFFSET unless it is positive.
Slice(s, q) ==
  LET skip == IF Offset(q) > 0 THEN Offset(q) ELSE 0
  IN SubSeq(s, skip + 1, IF skip + q.limit < Len(s) THEN skip + q.limit ELSE Len(s))

\* Bug: the division rounds down.
TotalPagesFloor(n, limit) == IF n \div limit < 1 THEN 1 ELSE n \div limit

\* NewPagination.
TotalPages(n, limit) ==
  LET pages == (n + limit - 1) \div limit IN IF pages < 1 THEN 1 ELSE pages

-----------------------------------------------------------------------------
(* Actions.                                                                *)

Init ==
  /\ list \in Lists
  /\ entry = [id \in Ids |-> NoEntry]
  /\ rows = [id \in Ids |-> NoRow]
  /\ audit = {}
  /\ day = [id \in Ids |-> 0]
  /\ amount = [id \in Ids |-> 0]
  /\ today = 0
  /\ writes = 0
  /\ pc = [r \in Requests |-> "idle"]
  /\ query = [r \in Requests |-> NoInput]
  /\ total = [r \in Requests |-> 0]
  /\ page = [r \in Requests |-> << >>]
  /\ basis = [r \in Requests |-> << >>]
  /\ walk = [r \in Requests |-> NoWalk]
  /\ drift = [r \in Requests |-> "none"]
  /\ reply = [r \in Requests |-> "none"]

Answer(r, what) ==
  /\ pc' = [pc EXCEPT ![r] = "done"]
  /\ reply' = [reply EXCEPT ![r] = what]

Goto(r, label) == pc' = [pc EXCEPT ![r] = label] /\ UNCHANGED reply

Receive(r) ==
  /\ pc[r] = "idle"
  /\ \E q \in Queries :
       /\ query' = [query EXCEPT ![r] = Normalize(q)]
       /\ IF Legal(Normalize(q)) THEN Goto(r, "count") ELSE Answer(r, "badRequest")
  /\ UNCHANGED <<written, total, page, basis, walk, drift>>

Count(r) ==
  /\ pc[r] = "count"
  /\ total' = [total EXCEPT ![r] = Cardinality(Matching(query[r]))]
  /\ drift' = [drift EXCEPT ![r] = "none"]
  /\ Goto(r, "find")
  /\ UNCHANGED <<written, query, page, basis, walk>>

\* A walk begins with page 1, and goes on with what the next page shows.
WalkOn(r, ids, shown) ==
  LET w == walk[r]
  IN IF query[r].page = 1
       THEN [on |-> TRUE, first |-> ids, shown |-> shown, repeated |-> FALSE, since |-> {}]
       ELSE [on |-> w.on, first |-> w.first, shown |-> w.shown \cup shown,
             repeated |-> w.repeated \/ w.shown \cap shown # {}, since |-> w.since]

Find(r) ==
  /\ pc[r] = "find"
  /\ \E s \in Orders(query[r]) :
       /\ page' = [page EXCEPT ![r] = Slice(s, query[r])]
       /\ basis' = [basis EXCEPT ![r] = s]
       /\ walk' = [walk EXCEPT ![r] = WalkOn(r, Range(s), Range(Slice(s, query[r])))]
  /\ Answer(r, "ok")
  /\ UNCHANGED <<written, query, total, drift>>

StatementFails(r) ==
  /\ DBFaults
  /\ pc[r] \in {"count", "find"}
  /\ Answer(r, "internal")
  /\ UNCHANGED <<written, locals, drift>>

\* The client asks for the page after the one it got, having begun with page 1.
TurnPage(r) ==
  /\ reply[r] = "ok" /\ walk[r].on
  /\ query[r].page < TotalPages(total[r], query[r].limit)
  /\ query' = [query EXCEPT ![r].page = @ + 1]
  /\ pc' = [pc EXCEPT ![r] = "count"]
  /\ reply' = [reply EXCEPT ![r] = "none"]
  /\ UNCHANGED <<written, total, page, basis, walk, drift>>

\* A statement of a writer, which comes between the two statements of some
\* requests and after those of others.
Write(kind) ==
  /\ writes < MaxWrites
  /\ writes' = writes + 1
  /\ drift' = [r \in Requests |->
                 CASE drift[r] = "none" /\ pc[r] = "find" -> "between"
                   [] drift[r] = "none" /\ pc[r] = "done" -> "after"
                   [] OTHER -> drift[r]]
  /\ walk' = [r \in Requests |->
                IF walk[r].on THEN [walk[r] EXCEPT !.since = @ \cup {kind}] ELSE walk[r]]
  /\ UNCHANGED <<list, audit, today, pc, query, total, page, basis, reply>>

\* created_at is taken from the clock before the INSERT, which may come on the
\* next day.
Stamp(id) == \E d \in {today, today - 1} \cap Nat : day' = [day EXCEPT ![id] = d]

InsertRow(id) ==
  /\ list = "disbursements"
  /\ Write("insert")
  /\ ~Exists(id)
  /\ InsertDisbursement(id, PendingRow(""))
  /\ Stamp(id)
  /\ \E n \in Amounts : amount' = [amount EXCEPT ![id] = n]
  /\ UNCHANGED entry

\* writeAudit, of whatever request.
InsertEntry(id) ==
  /\ list = "audit_logs"
  /\ Write("insert")
  /\ entry[id] = NoEntry
  /\ \E e \in Entry : entry' = [entry EXCEPT ![id] = e]
  /\ Stamp(id)
  /\ UNCHANGED <<rows, amount>>

DecideRow(id) ==
  /\ Write("change")
  /\ Claimable(id)
  /\ \E status \in Decisions, user \in Users : SetStatus(id, status, "", user)
  /\ UNCHANGED <<entry, day, amount>>

DeleteRow(id) ==
  /\ Write("change")
  /\ Claimable(id)
  /\ SetDeleted(id)
  /\ UNCHANGED <<entry, day, amount>>

Midnight ==
  /\ today < MaxDay
  /\ today' = today + 1
  /\ UNCHANGED <<list, rows, audit, entry, day, amount, writes, pc, locals, drift, reply>>

Next ==
  \/ \E r \in Requests : Receive(r) \/ Count(r) \/ Find(r) \/ StatementFails(r) \/ TurnPage(r)
  \/ \E id \in Ids : InsertRow(id) \/ InsertEntry(id) \/ DecideRow(id) \/ DeleteRow(id)
  \/ Midnight

Spec == Init /\ [][Next]_vars

-----------------------------------------------------------------------------
(* Properties.                                                             *)

TypeOK ==
  /\ rows \in [Ids -> Row]
  /\ list \in Lists
  /\ audit = {}
  /\ entry \in [Ids -> Entry \cup {NoEntry}]
  /\ day \in [Ids -> 0 .. MaxDay]
  /\ amount \in [Ids -> Amounts \cup {0}]
  /\ today \in 0 .. MaxDay
  /\ writes \in 0 .. MaxWrites
  /\ pc \in [Requests -> {"idle", "count", "find", "done"}]
  /\ query \in [Requests -> Asks \cup {NoInput}]
  /\ total \in [Requests -> 0 .. Cardinality(Ids)]
  /\ page \in [Requests -> Seq(Ids)] /\ basis \in [Requests -> Seq(Ids)]
  /\ walk \in [Requests -> Walk]
  /\ drift \in [Requests -> {"none", "between", "after"}]
  /\ reply \in [Requests -> {"none", "ok", "badRequest", "internal"}]

Listed(r) == reply[r] = "ok"

\* The offset can be computed without wrapping round.
InRange(q) == (q.page - 1) * q.limit <= IntMax

\* No two rows that matched the query of r have the same sort key.
Distinct(r) ==
  \A a, b \in Range(basis[r]) : a # b => SortKey(a, query[r]) # SortKey(b, query[r])

\* How many of the rows that matched come before this one in a list.
Rank(id, r) == Cardinality({other \in Range(basis[r]) : Before(other, id, query[r])})

\* Where keys are distinct, page p of a list of pages of n rows consists of
\* the rows that have from (p-1)*n to p*n - 1 rows before them, up to the
\* largest page whose offset is an int.
PageExact ==
  \A r \in Requests : Listed(r) /\ Distinct(r) /\ InRange(query[r]) =>
    LET q == query[r]
    IN Range(page[r]) = {id \in Range(basis[r]) : Rank(id, r) \div q.limit = q.page - 1}

\* The total, the pages and the rows of an answer agree unless a writer came
\* between the two statements: the page has rows exactly if it is one of the
\* total_pages of a list that is not empty, and it is full unless it is the
\* last of them.
TotalsAgree ==
  \A r \in Requests : Listed(r) /\ drift[r] # "between" /\ InRange(query[r]) =>
    LET q == query[r]  pages == TotalPages(total[r], q.limit)
    IN /\ page[r] # << >> <=> total[r] > 0 /\ q.page <= pages
       /\ q.page < pages => Len(page[r]) = q.limit
       /\ q.page = pages => Len(page[r]) = total[r] - (pages - 1) * q.limit

\* What a query asks for: every day from date_from to date_to, both included.
Asked(id, q) ==
  /\ IF list = "disbursements"
       THEN /\ rows[id].status \in (IF q.status = "" THEN Statuses ELSE {q.status})
            /\ ~rows[id].deleted
       ELSE /\ entry[id].entity \in (IF q.entity = "" THEN Entities ELSE {q.entity})
            /\ entry[id].action \in (IF q.action = "" THEN AuditActions ELSE {q.action})
  /\ q.from # NoDate => day[id] \in q.from .. MaxDay
  /\ q.to # NoDate => day[id] \in 0 .. q.to

\* A page is taken from all the rows that the query asks for and from no
\* others; and what it shows of decided rows and of the audit log stays true
\* whatever is written later.
RowsAsked ==
  \A r \in Requests : Listed(r) =>
    /\ drift[r] = "none" => Range(basis[r]) = {id \in Ids : Asked(id, query[r])}
    /\ query[r].status \in Decisions \/ list = "audit_logs" =>
         \A id \in Range(page[r]) : Asked(id, query[r])

\* The client has come to the end: a page that is not full, or one that is
\* said to be the last and whose total was still true when it was read.
AtTheEnd(r) ==
  LET q == query[r]
  IN \/ Len(page[r]) < q.limit
     \/ drift[r] # "between" /\ q.page = TotalPages(total[r], q.limit)

\* A client that walks a list to its end has been shown every row that matched
\* when it began, unless rows were decided or deleted on the way (never so in
\* the audit log) or two of them have one sort key; new rows make it see a row
\* twice at worst, and none does if nothing is written.
WalkWhole ==
  \A r \in Requests : Listed(r) /\ walk[r].on /\ AtTheEnd(r) /\ Distinct(r) =>
    LET w == walk[r]
    IN /\ w.since \subseteq {"insert"} => w.first \subseteq w.shown
       /\ w.since = {} => ~w.repeated
       /\ list = "audit_logs" => "change" \notin w.since
=============================================================================
