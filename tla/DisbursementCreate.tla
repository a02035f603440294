------------------------- MODULE DisbursementCreate -------------------------
(***************************************************************************)
(* POST /disbursements (internal/usecase/disbursements.go: Create, with    *)
(* internal/repository/disbursements.go: Create, CreateWithIdempotency,    *)
(* FindIdempotencyKey, DeleteIdempotencyKey).  Without an Idempotency-Key  *)
(* the row is simply inserted.  With one, a transaction inserts the key    *)
(* and the row; if the key is taken its record is looked up and replayed,  *)
(* refused, or, when expired, deleted before a second and last attempt.    *)
(*                                                                         *)
(* Abstracted: a payload is its note (any field would do) and whether it   *)
(* fits its columns, which the validator does not ask; request_hash is     *)
(* injective, the minted uuid is the request that mints it, and a record   *)
(* of idempotency_keys is the request that inserted it, since all of its   *)
(* columns are functions of that request's input and now.  The INSERT of   *)
(* the disbursement and the COMMIT are one step: nobody sees in between.   *)
(* A write outside CreateWithIdempotency is one step with the transaction  *)
(* that GORM wraps around it.                                              *)
(***************************************************************************)
EXTENDS DisbursementTable, Naturals

CONSTANTS
  Keys,       \* Idempotency-Keys that parse and fit CHAR(36)
  NoKey,      \* no Idempotency-Key header
  BadKey,     \* one that is no UUID
  LongKey,    \* a UUID in the urn form: it parses but does not fit the column
  TTL,        \* IDEMPOTENCY_TTL
  MaxClock,   \* bound on the clock
  Serial,     \* TRUE when no request arrives while another one runs
  Prompt,     \* TRUE when no request runs on from one unit of time to the next
  DBFaults,   \* TRUE when statements may fail
  Crashes,    \* TRUE when the process may die
  NoInput     \* the request has not arrived

ASSUME CreateAssumption ==
  /\ Requests \subseteq Ids
  /\ Nobody \notin Requests
  /\ TTL \in Nat \ {0}
  /\ MaxClock \in Nat
  /\ Serial \in BOOLEAN /\ Prompt \in BOOLEAN
  /\ DBFaults \in BOOLEAN /\ Crashes \in BOOLEAN
  /\ NoKey \notin Keys /\ BadKey \notin Keys /\ LongKey \notin Keys
  /\ NoKey # BadKey /\ NoKey # LongKey /\ BadKey # LongKey

VARIABLES
  idem,    \* the table idempotency_keys: the committed record of each key
  lock,    \* the transaction that holds an uncommitted INSERT of the key
  sharing, \* the waiting INSERTs of keys that were granted a shared lock
  clock,   \* the time
  pc,      \* the statement a request issues next
  input,   \* what the client sent
  now,     \* time.Now() when Create began; expires_at is now + TTL
  round,   \* the pass of the loop, 1 or 2
  found,   \* the record FindIdempotencyKey returned last
  reply    \* the answer sent to the client

keys == <<idem, lock, sharing>>
locals == <<input, now, round, found>>
vars == <<tables, keys, clock, pc, locals, reply>>

\* A payload that does not fit is never stored, so its note does not matter.
Asks ==
  LET given == Keys \cup {NoKey, BadKey, LongKey}
  IN [key: given, user: Users, note: Notes, fits: {TRUE}]
       \cup [key: given, user: Users, note: {""}, fits: {FALSE}]

\* The client sees 500 in four cases, which the logged error tells apart: a
\* fault, a value too long for its column (1406), a deadlock (1213), and a
\* record that is gone when it is looked up.
Replies == {"none", "created", "replayed", "badRequest", "mismatch", "retry",
            "failed", "unfit", "deadlock", "missing"}

Running == {"insert", "insertKey", "commit", "lookup", "deleteKey", "audit"}
Ended == {"done", "lost"}

Init ==
  /\ rows = [id \in Ids |-> NoRow]
  /\ audit = {}
  /\ idem = [k \in Keys |-> Nobody]
  /\ lock = [k \in Keys |-> Nobody]
  /\ sharing = {}
  /\ clock = 0
  /\ pc = [r \in Requests |-> "idle"]
  /\ input = [r \in Requests |-> NoInput]
  /\ now = [r \in Requests |-> 0]
  /\ round = [r \in Requests |-> 1]
  /\ found = [r \in Requests |-> Nobody]
  /\ reply = [r \in Requests |-> "none"]

Goto(r, label) == pc' = [pc EXCEPT ![r] = label] /\ UNCHANGED reply

Answer(r, what) ==
  /\ pc' = [pc EXCEPT ![r] = "done"]
  /\ reply' = [reply EXCEPT ![r] = what]

Key(r) == input[r].key

\* now.After(existing.ExpiresAt), on the now of request r.
SeesExpired(r, q) == now[r] > now[q] + TTL

\* Bug: the request_hash is not compared.
SameUser(r, q) == input[r].user = input[q].user

\* The same user_id and the same request_hash.
SameRequest(r, q) ==
  /\ input[r].user = input[q].user
  /\ input[r].note = input[q].note /\ input[r].fits = input[q].fits

Fits(r) == input[r].fits

-----------------------------------------------------------------------------
(* The locks of InnoDB on idempotency_keys.                                *)

Free(k) == lock[k] = Nobody

\* The INSERT of a key waits for a shared lock on it while another transaction
\* holds the key.  When that one rolls back, or a DELETE takes the record away,
\* any of those that wait may be granted it and go on to ask for the exclusive
\* lock, which none of them gets while another one shares.
Admit(waiters, r) == \E W \in SUBSET waiters : sharing' = (sharing \ {r}) \cup W

Sharers(k) == {q \in sharing : Key(q) = k}

\* r and another transaction wait for each other: two that share (keys next to
\* each other share a gap), or one that shares and a DELETE queued before it.
InDeadlock(r) ==
  \E q \in Requests \ {r} :
    \/ r \in sharing /\ q \in sharing
    \/ r \in sharing /\ pc[q] = "deleteKey" /\ Key(q) = Key(r)
    \/ q \in sharing /\ pc[r] = "deleteKey" /\ Key(q) = Key(r)

-----------------------------------------------------------------------------
(* One action per statement of a request.                                  *)

Receive(r) ==
  /\ pc[r] = "idle"
  /\ Serial => \A q \in Requests : pc[q] \notin Running
  /\ \E ask \in Asks :
       /\ input' = [input EXCEPT ![r] = ask]
       /\ CASE ask.key = BadKey -> Answer(r, "badRequest")
            [] ask.key = NoKey -> Goto(r, "insert")
            [] OTHER -> Goto(r, "insertKey")
  /\ now' = [now EXCEPT ![r] = clock]
  /\ UNCHANGED <<tables, keys, clock, round, found>>

\* repository Create: one INSERT.
Insert(r) ==
  /\ pc[r] = "insert" /\ Fits(r)
  /\ InsertDisbursement(r, PendingRow(input[r].note))
  /\ Goto(r, "audit")
  /\ UNCHANGED <<audit, keys, clock, locals>>

\* Bug: the key is inserted outside the transaction.
InsertKeyAutocommit(r) ==
  LET k == Key(r)
  IN /\ pc[r] = "insertKey"
     /\ k \in Keys /\ Free(k)
     /\ IF idem[k] = Nobody
          THEN idem' = [idem EXCEPT ![k] = r] /\ Goto(r, "commit")
          ELSE UNCHANGED idem /\ Goto(r, "lookup")
     /\ UNCHANGED <<tables, lock, sharing, clock, locals>>

\* Bug: a key that another transaction is inserting counts as taken.
InsertKeyUnwaiting(r) ==
  LET k == Key(r)
  IN /\ pc[r] = "insertKey"
     /\ k \in Keys
     /\ IF idem[k] = Nobody /\ Free(k)
          THEN lock' = [lock EXCEPT ![k] = r] /\ Goto(r, "commit")
          ELSE UNCHANGED lock /\ Goto(r, "lookup")
     /\ UNCHANGED <<tables, idem, sharing, clock, locals>>

\* The first INSERT of CreateWithIdempotency.  It waits while another
\* transaction holds the key or shares it, then either gets it or fails as a
\* duplicate, which rolls the transaction back.
InsertKey(r) ==
  LET k == Key(r)
  IN /\ pc[r] = "insertKey"
     /\ k \in Keys /\ Free(k) /\ Sharers(k) \subseteq {r}
     /\ IF idem[k] = Nobody
          THEN lock' = [lock EXCEPT ![k] = r] /\ Goto(r, "commit")
          ELSE UNCHANGED lock /\ Goto(r, "lookup")
     /\ sharing' = sharing \ {r}
     /\ UNCHANGED <<tables, idem, clock, locals>>

\* Bug: the INSERT of the key is lost from the transaction.
CommitRowOnly(r) ==
  /\ InsertDisbursement(r, PendingRow(input[r].note))
  /\ lock' = [lock EXCEPT ![Key(r)] = Nobody]
  /\ UNCHANGED <<idem, sharing>>

\* The key and the disbursement become visible together; whoever waits for the
\* key finds a duplicate.
CommitBoth(r) ==
  /\ Fits(r)
  /\ InsertDisbursement(r, PendingRow(input[r].note))
  /\ idem' = [idem EXCEPT ![Key(r)] = r]
  /\ lock' = [lock EXCEPT ![Key(r)] = Nobody]
  /\ UNCHANGED sharing

Commit(r) ==
  /\ pc[r] = "commit"
  /\ CommitBoth(r)
  /\ Goto(r, "audit")
  /\ UNCHANGED <<audit, clock, locals>>

\* Bug: ExpiresAt.After(now) instead of now.After(ExpiresAt).
VerdictInverted(r, q) ==
  CASE q = Nobody -> "missing"
    [] q # Nobody /\ ~SeesExpired(r, q) -> "expired"
    [] q # Nobody /\ SeesExpired(r, q) /\ SameRequest(r, q) -> "replayed"
    [] OTHER -> "mismatch"

\* Bug: the request is compared before the expiry.
VerdictMismatchFirst(r, q) ==
  CASE q = Nobody -> "missing"
    [] q # Nobody /\ ~SameRequest(r, q) -> "mismatch"
    [] q # Nobody /\ SameRequest(r, q) /\ SeesExpired(r, q) -> "expired"
    [] OTHER -> "replayed"

\* What Create makes of the record it looked up.  A record that somebody
\* deleted in the meantime is ErrNotFound, hence 500.
Verdict(r, q) ==
  CASE q = Nobody -> "missing"
    [] q # Nobody /\ SeesExpired(r, q) -> "expired"
    [] q # Nobody /\ ~SeesExpired(r, q) /\ SameRequest(r, q) -> "replayed"
    [] OTHER -> "mismatch"

\* FindIdempotencyKey.
Lookup(r) ==
  LET q == idem[Key(r)]
  IN /\ pc[r] = "lookup"
     /\ found' = [found EXCEPT ![r] = q]
     /\ IF Verdict(r, q) = "expired"
          THEN Goto(r, "deleteKey")
          ELSE Answer(r, Verdict(r, q))
     /\ UNCHANGED <<tables, keys, clock, input, now, round>>

\* for range 2: the loop goes round once more or gives up.
NextRound(r) ==
  IF round[r] = 1
    THEN round' = [round EXCEPT ![r] = 2] /\ Goto(r, "insertKey")
    ELSE UNCHANGED round /\ Answer(r, "retry")

\* DeleteIdempotencyKey deletes whatever record the key has by now.
DeleteRecord(r) ==
  /\ Free(Key(r))
  /\ idem' = [idem EXCEPT ![Key(r)] = Nobody]
  /\ Admit({q \in Requests : pc[q] = "insertKey" /\ Key(q) = Key(r)}, r)
  /\ UNCHANGED lock

DeleteKey(r) ==
  /\ pc[r] = "deleteKey"
  /\ DeleteRecord(r)
  /\ NextRound(r)
  /\ UNCHANGED <<tables, clock, input, now, found>>

CreatedEntry(r) ==
  [request |-> r, entity |-> r, actor |-> input[r].user, action |-> "created",
   before |-> NoRow, after |-> PendingRow(input[r].note)]

\* A failed audit INSERT is logged and otherwise ignored.
WriteAudit(r) ==
  /\ pc[r] = "audit"
  /\ \/ InsertAudit(CreatedEntry(r))
     \/ DBFaults /\ UNCHANGED audit
  /\ Answer(r, "created")
  /\ UNCHANGED <<rows, keys, clock, locals>>

-----------------------------------------------------------------------------
(* What goes wrong while the database works.                               *)

\* Bug: the transaction is left open.
ReleaseNothing(r) == UNCHANGED <<lock, sharing>>

\* The rollback of r's transaction, if it has one.
Release(r) ==
  /\ lock' = [k \in Keys |-> IF lock[k] = r THEN Nobody ELSE lock[k]]
  /\ Admit({q \in Requests : pc[q] = "insertKey" /\ Key(q) \in Keys /\ lock[Key(q)] = r}, r)

\* A statement of r fails without effect, and with it its transaction: 500.
Fails(r, why) ==
  /\ Release(r)
  /\ Answer(r, why)
  /\ UNCHANGED <<tables, idem, clock, locals>>

\* Strict MySQL refuses a value that is longer than its column.
ValueRefused(r) ==
  /\ \/ pc[r] = "insertKey" /\ Key(r) = LongKey
     \/ pc[r] \in {"insert", "commit"} /\ ~Fits(r)
  /\ Fails(r, "unfit")

\* InnoDB rolls one of those back who wait for each other.
Deadlock(r) == InDeadlock(r) /\ Fails(r, "deadlock")

-----------------------------------------------------------------------------
(* Faults.                                                                 *)

\* A lost connection, a lock wait timeout, a full disk.
StatementFails(r) ==
  /\ DBFaults
  /\ pc[r] \in Running \ {"audit"}
  /\ Fails(r, "failed")

\* The write is committed but its acknowledgement is lost: 500.
AckLost(r) ==
  /\ DBFaults
  /\ \/ /\ pc[r] = "insert" /\ Fits(r)
        /\ InsertDisbursement(r, PendingRow(input[r].note))
        /\ UNCHANGED keys
     \/ /\ pc[r] = "commit"
        /\ CommitBoth(r)
     \/ /\ pc[r] = "deleteKey"
        /\ DeleteRecord(r)
        /\ UNCHANGED rows
  /\ Answer(r, "failed")
  /\ UNCHANGED <<audit, clock, locals>>

\* The process dies.  MySQL still holds the transactions it had open, while a
\* statement that waits for a lock is taken to end with its client.
Crash ==
  /\ Crashes
  /\ \E r \in Requests : pc[r] \in Running
  /\ pc' = [r \in Requests |-> CASE pc[r] = "commit" -> "orphan"
                                 [] pc[r] \in Running \ {"commit"} -> "lost"
                                 [] OTHER -> pc[r]]
  /\ sharing' = {}
  /\ UNCHANGED <<tables, idem, lock, clock, locals, reply>>

\* MySQL ends an orphaned transaction: it carries out the COMMIT it had
\* received, or rolls back when it notices that the client is gone.
EndOrphan(r) ==
  /\ pc[r] = "orphan"
  /\ \/ CommitBoth(r)
     \/ Release(r) /\ UNCHANGED <<rows, idem>>
  /\ Goto(r, "lost")
  /\ UNCHANGED <<audit, clock, locals>>

Tick ==
  /\ clock < MaxClock
  /\ Prompt => \A r \in Requests : pc[r] \notin Running
  /\ clock' = clock + 1
  /\ UNCHANGED <<tables, keys, pc, locals, reply>>

Step(r) ==
  \/ Insert(r) \/ InsertKey(r) \/ Commit(r) \/ Lookup(r) \/ DeleteKey(r) \/ WriteAudit(r)
  \/ ValueRefused(r) \/ Deadlock(r) \/ StatementFails(r) \/ AckLost(r) \/ EndOrphan(r)

Next == (\E r \in Requests : Receive(r) \/ Step(r)) \/ Crash \/ Tick

Spec == Init /\ [][Next]_vars

-----------------------------------------------------------------------------
(* Properties.                                                             *)

TypeOK ==
  /\ rows \in [Ids -> Row]
  /\ audit \subseteq AuditEntry
  /\ idem \in [Keys -> Requests \cup {Nobody}]
  /\ lock \in [Keys -> Requests \cup {Nobody}]
  /\ sharing \subseteq Requests
  /\ clock \in 0 .. MaxClock
  /\ pc \in [Requests -> {"idle", "orphan"} \cup Running \cup Ended]
  /\ input \in [Requests -> Asks \cup {NoInput}]
  /\ now \in [Requests -> 0 .. MaxClock]
  /\ round \in [Requests -> 1 .. 2]
  /\ found \in [Requests -> Requests \cup {Nobody}]
  /\ reply \in [Requests -> Replies]

Sent(r, k) == pc[r] # "idle" /\ Key(r) = k

\* A record of an Idempotency-Key never stands alone: the disbursement its
\* request made is there, with that request's payload, whatever failed or
\* died in between (CreateWithIdempotency commits both or none); and while a
\* transaction holds the key there is no record of it.
KeyBacked ==
  \A k \in Keys :
    /\ idem[k] # Nobody =>
         LET q == idem[k] IN Sent(q, k) /\ rows[q] = PendingRow(input[q].note)
    /\ lock[k] # Nobody =>
         LET q == lock[k]
         IN idem[k] = Nobody /\ Sent(q, k) /\ pc[q] \in {"commit", "orphan"} /\ ~Exists(q)

\* A replayed answer shows what the same user's same request with the same
\* key created, no longer than TTL before this request came in.
ReplayFaithful ==
  \A r \in Requests : reply[r] = "replayed" =>
    LET q == found[r]
    IN /\ q \in Requests \ {r}
       /\ input[q] = input[r]
       /\ rows[q] = PendingRow(input[r].note)
       /\ now[r] <= now[q] + TTL
       /\ ~Exists(r)

\* A request of key k came in after a record of k had expired.
Late(k) ==
  \E p, s \in Requests : Sent(p, k) /\ Sent(s, k) /\ Exists(p) /\ SeesExpired(s, p)

\* A client whose retries of a key all come within TTL gets one disbursement,
\* in whatever order they run and whatever fails: a 500 or a lost connection
\* after the COMMIT included.
OnceWithinTTL ==
  \A k \in Keys : ~Late(k) =>
    \A q, r \in Requests :
      Sent(q, k) /\ Sent(r, k) /\ Exists(q) /\ Exists(r) => q = r

\* A request answered 400 or 409, or with a replay, made no disbursement and
\* no audit entry; and "used with a different request" is said only when
\* such a request did create something.
RefusedCreatesNothing ==
  \A r \in Requests :
    /\ reply[r] \in {"badRequest", "mismatch", "retry", "replayed"} =>
         ~Exists(r) /\ ~ \E e \in audit : e.entity = r
    /\ reply[r] = "mismatch" =>
         LET q == found[r]
         IN Exists(q) /\ Sent(q, Key(r)) /\ ~SameRequest(r, q) /\ ~SeesExpired(r, q)

\* A request of key k was rolled back or lost, or came in after a record of k
\* had expired.
Trouble(q, k) ==
  /\ Sent(q, k)
  /\ \/ reply[q] \in {"failed", "unfit"} \/ pc[q] = "lost"
     \/ \E p \in Requests : Sent(p, k) /\ Exists(p) /\ SeesExpired(q, p)

\* However requests contend for a key, only an expiry or a failure makes them
\* trip over each other: "please retry" takes two records that had expired
\* before the request came in, a record that is gone when it is looked up takes
\* another request that found one expired, and a deadlock takes a request of
\* the key that was rolled back, lost or found one expired.
NoSpuriousRefusal ==
  \A r \in Requests :
    /\ reply[r] = "retry" =>
         \E p, q \in Requests :
           /\ p # q /\ Sent(p, Key(r)) /\ Sent(q, Key(r)) /\ Exists(p) /\ Exists(q)
           /\ SeesExpired(r, p) /\ SeesExpired(r, q)
    /\ reply[r] = "missing" =>
         \E q \in Requests \ {r}, p \in Requests :
           Sent(q, Key(r)) /\ Sent(p, Key(r)) /\ Exists(p) /\ SeesExpired(q, p)
    /\ reply[r] = "deadlock" => \E q \in Requests : Trouble(q, Key(r))

\* Two disbursements made under one key came in more than TTL apart: the
\* second request with a key within 24 hours is answered with the first one's
\* response and not processed again (README.md, "Perilaku idempotency"), so a
\* disbursement cannot be created twice (ARCHITECTURE.md, 1.1).
ExactlyOnce ==
  \A q, r \in Requests :
    /\ Exists(q) /\ Exists(r) /\ q # r
    /\ Key(q) \in Keys /\ Key(q) = Key(r)
    => SeesExpired(q, r) \/ SeesExpired(r, q)

-----------------------------------------------------------------------------
(* Refinement.                                                             *)

made == [id \in Ids |->
           IF Exists(id)
             THEN [key |-> IF Key(id) \in Keys THEN Key(id) ELSE NoKey,
                   at |-> now[id], exists |-> TRUE]
             ELSE [key |-> NoKey, at |-> 0, exists |-> FALSE]]

Ledger == INSTANCE IdempotencyLedger WITH record <- idem

\* All interleavings, faults and crashes keep the promise of
\* IdempotencyLedger about keys and disbursements.
LedgerSpec == Ledger!Spec
=============================================================================
