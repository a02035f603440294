---------------------- MODULE DisbursementCreate_proofs ----------------------
(***************************************************************************)
(* The safety of DisbursementCreate for every number of requests, keys and *)
(* payloads, every TTL, with faults, crashes and overlapping requests; and *)
(* what it promises beyond that of requests that come one at a time, or    *)
(* that are answered before the clock moves on.                            *)
(***************************************************************************)
EXTENDS DisbursementCreate, TLAPS

(* The inductive invariant: what a request knows, what a key stands for.   *)

InTransaction == {"commit", "orphan"}

\* The record request r looked up last was backed by a disbursement.
Based(r) ==
  LET q == found[r]
  IN q \in Requests /\ Sent(q, Key(r)) /\ Exists(q)

RequestInv(r) ==
  /\ pc[r] # "idle" => input[r] \in Asks /\ now[r] <= clock
  /\ pc[r] = "insert" => Key(r) = NoKey
  /\ pc[r] \in {"lookup", "deleteKey"} \cup InTransaction => Key(r) \in Keys
  /\ reply[r] # "none" => pc[r] = "done"
  /\ pc[r] \in {"idle", "insert", "insertKey", "lookup", "deleteKey"} \cup InTransaction => ~Exists(r)
  /\ pc[r] = "audit" => Exists(r)
  /\ reply[r] \in {"badRequest", "mismatch", "retry", "replayed"} => ~Exists(r)
  /\ Exists(r) => rows[r] = PendingRow(input[r].note)
  /\ pc[r] = "deleteKey" => Based(r) /\ SeesExpired(r, found[r])
  /\ reply[r] = "replayed" => Based(r) /\ SameRequest(r, found[r]) /\ ~SeesExpired(r, found[r])
  /\ reply[r] = "mismatch" => Based(r) /\ ~SameRequest(r, found[r]) /\ ~SeesExpired(r, found[r])

\* Until some request of key k finds a record of it expired, the record of k
\* is the only disbursement ever made under k.
KeyInv(k) ==
  /\ idem[k] # Nobody => Sent(idem[k], k) /\ Exists(idem[k])
  /\ lock[k] # Nobody => idem[k] = Nobody /\ Sent(lock[k], k) /\ pc[lock[k]] \in InTransaction
  /\ \A r \in Requests : pc[r] \in InTransaction /\ Key(r) = k => lock[k] = r
  /\ ~Late(k) => \A q \in Requests : Sent(q, k) /\ Exists(q) => idem[k] = q

\* Whoever shares a key waits for it, and it is neither held nor recorded.
SharingInv ==
  \A q \in sharing : /\ pc[q] = "insertKey" /\ Key(q) \in Keys
                     /\ lock[Key(q)] = Nobody /\ idem[Key(q)] = Nobody

EntriesInv == \A e \in audit : e.entity \in Requests /\ Exists(e.entity)

IInv ==
  /\ TypeOK
  /\ \A r \in Requests : RequestInv(r)
  /\ \A k \in Keys : KeyInv(k)
  /\ SharingInv
  /\ EntriesInv
  /\ \A id \in Ids \ Requests : ~Exists(id)

-----------------------------------------------------------------------------
(* What every step leaves alone.                                           *)

\* What a request that has arrived sent, when it came in and the disbursement
\* it made never change.
Grow ==
  \A r \in Requests :
    /\ pc[r] # "idle" => pc'[r] # "idle" /\ input'[r] = input[r] /\ now'[r] = now[r]
    /\ Exists(r) => rows'[r] = rows[r]

\* Only request q moves.
Frame(q) ==
  \A r \in Requests \ {q} :
    /\ pc'[r] = pc[r] /\ input'[r] = input[r] /\ now'[r] = now[r]
    /\ found'[r] = found[r] /\ reply'[r] = reply[r] /\ rows'[r] = rows[r]

LEMMA PendingRowFacts ==
  ASSUME NEW note \in Notes
  PROVE  /\ PendingRow(note) \in Row
         /\ PendingRow(note).status = "PENDING"
  BY DEF PendingRow, Row, Statuses

LEMMA NoRowFacts == NoRow \in Row /\ NoRow.status = "NONE"
  BY TableAssumption DEF NoRow, Row

LEMMA AskFields ==
  ASSUME NEW ask \in Asks
  PROVE  /\ ask.key \in Keys \cup {NoKey, BadKey, LongKey}
         /\ ask.user \in Users /\ ask.note \in Notes /\ ask.fits \in BOOLEAN
  BY TableAssumption DEF Asks

\* A key that was late once is late for ever.
LEMMA LateStays ==
  ASSUME NEW k, Grow, Late(k)
  PROVE  Late(k)'
<1>1. PICK p \in Requests, s \in Requests :
        Sent(p, k) /\ Sent(s, k) /\ Exists(p) /\ SeesExpired(s, p)
  BY DEF Late
<1>2. Sent(p, k)' /\ Sent(s, k)' /\ Exists(p)' /\ SeesExpired(s, p)'
  BY <1>1 DEF Grow, Sent, Key, Exists, SeesExpired
<1> QED BY <1>2 DEF Late

\* A record that was backed stays so for the request that looked it up.
LEMMA BasedStays ==
  ASSUME NEW r \in Requests, Based(r), Grow, found'[r] = found[r], pc[r] # "idle"
  PROVE  /\ Based(r)'
         /\ SeesExpired(r, found[r])' <=> SeesExpired(r, found[r])
         /\ SameRequest(r, found[r])' <=> SameRequest(r, found[r])
  BY DEF Based, Grow, Sent, Key, Exists, SeesExpired, SameRequest

\* The requests that do not move keep their part of the invariant.
LEMMA OthersKeepInv ==
  ASSUME IInv, NEW q \in Requests, Grow, Frame(q), clock' \in Nat, clock' >= clock
  PROVE  \A r \in Requests \ {q} : RequestInv(r)'
<1>1. SUFFICES ASSUME NEW r \in Requests \ {q}
               PROVE  RequestInv(r)'
  OBVIOUS
<1>2. RequestInv(r) /\ now[r] \in Nat /\ clock \in Nat
  BY CreateAssumption DEF IInv, TypeOK
<1>3. /\ pc'[r] = pc[r] /\ input'[r] = input[r] /\ now'[r] = now[r]
      /\ found'[r] = found[r] /\ reply'[r] = reply[r] /\ rows'[r] = rows[r]
  BY DEF Frame
<1>4. pc[r] = "deleteKey" \/ reply[r] \in {"replayed", "mismatch"} => pc[r] # "idle" /\ Based(r)
  BY <1>2 DEF RequestInv
<1>5. pc[r] = "deleteKey" \/ reply[r] \in {"replayed", "mismatch"} =>
        /\ Based(r)'
        /\ SeesExpired(r, found[r])' <=> SeesExpired(r, found[r])
        /\ SameRequest(r, found[r])' <=> SameRequest(r, found[r])
  BY <1>3, <1>4, BasedStays
<1>6. (pc[r] # "idle" => input[r] \in Asks /\ now[r] <= clock)'
  BY <1>2, <1>3 DEF RequestInv
<1> QED BY <1>2, <1>3, <1>5, <1>6 DEF RequestInv, Key, Exists

\* A key keeps its part of the invariant when its record and its lock stay,
\* nothing is made under it and no transaction on it begins or ends.
LEMMA KeyKeepsInv ==
  ASSUME IInv, NEW k \in Keys, Grow, idem'[k] = idem[k], lock'[k] = lock[k],
         \A r \in Requests : Sent(r, k)' /\ Exists(r)' => Exists(r),
         \A r \in Requests : Sent(r, k)' =>
           (pc'[r] \in InTransaction <=> pc[r] \in InTransaction)
  PROVE  KeyInv(k)'
<1>1. KeyInv(k) /\ idem[k] \in Requests \cup {Nobody} /\ lock[k] \in Requests \cup {Nobody}
  BY DEF IInv, TypeOK
<1>2. \A r \in Requests : Sent(r, k) => Sent(r, k)'
  BY DEF Grow, Sent, Key
<1>3. \A r \in Requests : Exists(r) => Exists(r)'
  BY DEF Grow, Exists
<1>4. \A r \in Requests : Exists(r) \/ pc[r] \in InTransaction => pc[r] # "idle"
  BY DEF IInv, RequestInv, InTransaction
<1>5. \A r \in Requests : pc[r] # "idle" /\ Sent(r, k)' => Sent(r, k)
  BY DEF Grow, Sent, Key
<1>6. (idem[k] # Nobody => Sent(idem[k], k) /\ Exists(idem[k]))'
  BY <1>1, <1>2, <1>3 DEF KeyInv, Sent, Key, Exists
<1>7. (lock[k] # Nobody => idem[k] = Nobody /\ Sent(lock[k], k) /\ pc[lock[k]] \in InTransaction)'
  BY <1>1, <1>2 DEF KeyInv, Sent, Key
<1>8. ASSUME NEW r \in Requests, (pc[r] \in InTransaction /\ Key(r) = k)'
      PROVE  lock'[k] = r
  <2>1. Sent(r, k)'
    BY <1>8 DEF Sent, InTransaction
  <2>2. pc[r] \in InTransaction /\ Sent(r, k)
    BY <1>4, <1>5, <1>8, <2>1
  <2> QED BY <1>1, <2>2 DEF KeyInv, Sent
<1>9. ASSUME ~Late(k)', NEW r \in Requests, Sent(r, k)', Exists(r)'
      PROVE  idem'[k] = r
  <2>1. ~Late(k)
    BY <1>9, LateStays
  <2>2. Sent(r, k) /\ Exists(r)
    BY <1>4, <1>5, <1>9
  <2> QED BY <1>1, <2>1, <2>2 DEF KeyInv
<1> QED BY <1>6, <1>7, <1>8, <1>9 DEF KeyInv

-----------------------------------------------------------------------------
(* One lemma per statement.                                                *)

Effect(q) ==
  /\ TypeOK'
  /\ Grow /\ Frame(q)
  /\ RequestInv(q)'
  /\ \A k \in Keys : KeyInv(k)'
  /\ SharingInv'
  /\ \A id \in Ids \ Requests : ~Exists(id)'

\* Whoever takes a step shares nothing after it.
LEMMA SharingKept ==
  ASSUME IInv, NEW q \in Requests, Frame(q),
         \A s \in sharing' : /\ s \in Requests \ {q} /\ pc[s] = "insertKey" /\ Key(s) \in Keys
                             /\ lock'[Key(s)] = Nobody /\ idem'[Key(s)] = Nobody
  PROVE  SharingInv'
  BY DEF SharingInv, Frame, Key

LEMMA QuietKeepsSharing ==
  ASSUME IInv, NEW q \in Requests, Frame(q), idem' = idem, lock' = lock, sharing' = sharing,
         pc[q] # "insertKey"
  PROVE  SharingInv'
  BY SharingKept DEF IInv, SharingInv, TypeOK

\* Who is admitted waits for a key of the step, or shared one before.
LEMMA Admitted ==
  ASSUME IInv, NEW q \in Requests, NEW waiters \in SUBSET Requests, Admit(waiters, q)
  PROVE  /\ sharing' \subseteq Requests \ {q} \/ q \in waiters
         /\ sharing' \subseteq Requests
         /\ \A s \in sharing' : s \in waiters \/ (s \in sharing /\ s # q)
  BY DEF Admit, IInv, TypeOK

\* A step outside the transactions that touches neither table nor key.
LEMMA QuietKeepsKeys ==
  ASSUME IInv, NEW q \in Requests, Grow, Frame(q), rows' = rows, idem' = idem, lock' = lock,
         pc[q] \notin InTransaction, pc'[q] \notin InTransaction
  PROVE  \A k \in Keys : KeyInv(k)'
<1>1. SUFFICES ASSUME NEW k \in Keys PROVE KeyInv(k)'
  OBVIOUS
<1>2. \A r \in Requests : Exists(r)' => Exists(r)
  BY DEF Exists
<1>3. \A r \in Requests : pc'[r] \in InTransaction <=> pc[r] \in InTransaction
  BY DEF Frame
<1> QED BY <1>2, <1>3, KeyKeepsInv

LEMMA ReceiveEffect ==
  ASSUME IInv, NEW q \in Requests, Receive(q)
  PROVE  Effect(q)
<1>1. PICK ask \in Asks :
        /\ input' = [input EXCEPT ![q] = ask]
        /\ CASE ask.key = BadKey -> Answer(q, "badRequest")
             [] ask.key = NoKey -> Goto(q, "insert")
             [] OTHER -> Goto(q, "insertKey")
  BY DEF Receive
<1>2. /\ pc[q] = "idle" /\ rows' = rows /\ audit' = audit /\ idem' = idem /\ lock' = lock
      /\ sharing' = sharing /\ clock' = clock /\ round' = round /\ found' = found
      /\ now' = [now EXCEPT ![q] = clock]
  BY DEF Receive, tables, keys
<1>3. ~Exists(q) /\ reply[q] = "none" /\ clock \in Nat
  BY <1>2, CreateAssumption DEF IInv, RequestInv, TypeOK
<1>4. \/ pc'[q] = "done" /\ reply'[q] = "badRequest"
      \/ pc'[q] = "insert" /\ reply'[q] = "none" /\ ask.key = NoKey
      \/ pc'[q] = "insertKey" /\ reply'[q] = "none"
  BY <1>1, <1>3 DEF IInv, TypeOK, Answer, Goto
<1>5. TypeOK'
  BY <1>1, <1>2 DEF IInv, TypeOK, Answer, Goto, Replies, Running, Ended
<1>6. Frame(q)
  BY <1>1, <1>2 DEF Frame, IInv, TypeOK, Answer, Goto
<1>7. Grow
  BY <1>2, <1>6 DEF Frame, Grow
<1>8. input'[q] = ask /\ now'[q] = clock
  BY <1>1, <1>2 DEF IInv, TypeOK
<1>9. RequestInv(q)'
  BY <1>2, <1>3, <1>4, <1>8 DEF RequestInv, InTransaction, Exists, Key
<1>10. \A k \in Keys : KeyInv(k)'
  BY <1>2, <1>4, <1>6, <1>7, QuietKeepsKeys DEF InTransaction
<1>11. SharingInv'
  BY <1>2, <1>6, QuietKeepsSharing
<1> QED BY <1>2, <1>5, <1>6, <1>7, <1>9, <1>10, <1>11 DEF Effect, IInv, Exists

LEMMA LookupEffect ==
  ASSUME IInv, NEW q \in Requests, Lookup(q)
  PROVE  Effect(q)
<1> DEFINE p == idem[Key(q)]
<1>1. /\ pc[q] = "lookup" /\ rows' = rows /\ audit' = audit /\ idem' = idem /\ lock' = lock
      /\ sharing' = sharing /\ clock' = clock /\ round' = round /\ input' = input /\ now' = now
      /\ found' = [found EXCEPT ![q] = p]
  BY DEF Lookup, tables, keys
<1>2. /\ ~Exists(q) /\ reply[q] = "none" /\ Key(q) \in Keys /\ input[q] \in Asks
      /\ now[q] <= clock /\ p \in Requests \cup {Nobody}
  BY <1>1 DEF IInv, RequestInv, TypeOK
<1>3. found'[q] = p
  BY <1>1 DEF IInv, TypeOK
<1>4. \/ pc'[q] = "done" /\ reply'[q] = "missing"
      \/ pc'[q] = "deleteKey" /\ reply'[q] = "none" /\ p # Nobody /\ SeesExpired(q, p)
      \/ pc'[q] = "done" /\ reply'[q] = "replayed" /\ p # Nobody /\ ~SeesExpired(q, p) /\ SameRequest(q, p)
      \/ pc'[q] = "done" /\ reply'[q] = "mismatch" /\ p # Nobody /\ ~SeesExpired(q, p) /\ ~SameRequest(q, p)
  BY <1>1, <1>2, CreateAssumption DEF Lookup, Verdict, IInv, TypeOK, Answer, Goto
<1>5. TypeOK'
  <2>1. pc' \in [Requests -> {"idle", "orphan"} \cup Running \cup Ended] /\ reply' \in [Requests -> Replies]
    BY DEF Lookup, Verdict, IInv, TypeOK, Answer, Goto, Replies, Running, Ended
  <2>2. found' \in [Requests -> Requests \cup {Nobody}]
    BY <1>1, <1>2 DEF IInv, TypeOK
  <2> QED BY <1>1, <2>1, <2>2 DEF IInv, TypeOK
<1>6. Frame(q)
  BY <1>1 DEF Lookup, Frame, IInv, TypeOK, Answer, Goto
<1>7. Grow
  BY <1>1, <1>4, <1>6 DEF Frame, Grow
<1>8. p # Nobody => p \in Requests /\ Sent(p, Key(q)) /\ Exists(p)
  BY <1>2 DEF IInv, KeyInv
<1>9. p # Nobody => Based(q)'
  BY <1>1, <1>3, <1>7, <1>8 DEF Based, Grow, Sent, Key, Exists
<1>10. RequestInv(q)'
  BY <1>1, <1>2, <1>3, <1>4, <1>9
    DEF RequestInv, InTransaction, Exists, Key, SeesExpired, SameRequest
<1>11. \A k \in Keys : KeyInv(k)'
  BY <1>1, <1>4, <1>6, <1>7, QuietKeepsKeys DEF InTransaction
<1>12. SharingInv'
  BY <1>1, <1>6, QuietKeepsSharing
<1> QED BY <1>1, <1>5, <1>6, <1>7, <1>10, <1>11, <1>12 DEF Effect, IInv, Exists

LEMMA WriteAuditEffect ==
  ASSUME IInv, NEW q \in Requests, WriteAudit(q)
  PROVE  Effect(q)
<1>1. /\ pc[q] = "audit" /\ rows' = rows /\ idem' = idem /\ lock' = lock
      /\ sharing' = sharing /\ clock' = clock
      /\ round' = round /\ input' = input /\ now' = now /\ found' = found /\ Answer(q, "created")
  BY DEF WriteAudit, keys, locals
<1>2. Exists(q) /\ reply[q] = "none" /\ input[q] \in Asks /\ now[q] <= clock
      /\ rows[q] = PendingRow(input[q].note)
  BY <1>1 DEF IInv, RequestInv, TypeOK
<1>3. pc'[q] = "done" /\ reply'[q] = "created"
  BY <1>1 DEF IInv, TypeOK, Answer
<1>4. CreatedEntry(q) \in AuditEntry
  <2>1. q \in Ids /\ input[q].user \in Users /\ NoRow \in Row /\ PendingRow(input[q].note) \in Row
    BY <1>2, AskFields, NoRowFacts, PendingRowFacts, CreateAssumption
  <2> QED BY <2>1 DEF CreatedEntry, AuditEntry
<1>5. TypeOK'
  <2>1. audit' \subseteq AuditEntry
    BY <1>4 DEF WriteAudit, InsertAudit, IInv, TypeOK
  <2> QED BY <1>1, <2>1 DEF IInv, TypeOK, Answer, Replies, Ended
<1>6. Frame(q)
  BY <1>1 DEF Frame, IInv, TypeOK, Answer
<1>7. Grow
  BY <1>1, <1>3, <1>6 DEF Frame, Grow
<1>8. RequestInv(q)'
  BY <1>1, <1>2, <1>3 DEF RequestInv, InTransaction, Exists
<1>9. \A k \in Keys : KeyInv(k)'
  BY <1>1, <1>3, <1>6, <1>7, QuietKeepsKeys DEF InTransaction
<1>10. SharingInv'
  BY <1>1, <1>6, QuietKeepsSharing
<1> QED BY <1>1, <1>5, <1>6, <1>7, <1>8, <1>9, <1>10 DEF Effect, IInv, Exists

\* INSERT INTO disbursements, seen by everybody.
LEMMA InsertFacts ==
  ASSUME IInv, NEW q \in Requests, pc[q] # "idle", ~Exists(q),
         InsertDisbursement(q, PendingRow(input[q].note)), input' = input
  PROVE  /\ rows' \in [Ids -> Row]
         /\ rows'[q] = PendingRow(input[q].note) /\ Exists(q)'
         /\ \A i \in Ids : i # q => rows'[i] = rows[i]
         /\ \A id \in Ids \ Requests : ~Exists(id)'
<1>1. q \in Ids /\ PendingRow(input[q].note) \in Row /\ PendingRow(input[q].note).status = "PENDING"
  BY AskFields, PendingRowFacts, CreateAssumption DEF IInv, RequestInv
<1>2. /\ rows' \in [Ids -> Row] /\ rows'[q] = PendingRow(input[q].note)
      /\ \A i \in Ids : i # q => rows'[i] = rows[i]
  BY <1>1 DEF InsertDisbursement, IInv, TypeOK
<1> QED BY <1>1, <1>2 DEF Exists, IInv

\* The insert without a key, whether its acknowledgement arrives or not.
LEMMA PlainInsertKeepsKeys ==
  ASSUME IInv, NEW q \in Requests, Grow, Frame(q), pc[q] = "insert",
         pc'[q] \notin InTransaction, idem' = idem, lock' = lock, input' = input
  PROVE  \A k \in Keys : KeyInv(k)'
<1>1. SUFFICES ASSUME NEW k \in Keys PROVE KeyInv(k)'
  OBVIOUS
<1>2. Key(q) = NoKey /\ Key(q)' = NoKey
  BY DEF IInv, RequestInv, Key
<1>3. \A r \in Requests : Sent(r, k)' /\ Exists(r)' => Exists(r)
  BY <1>2, CreateAssumption DEF Frame, Sent, Key, Exists
<1>4. \A r \in Requests : Sent(r, k)' => (pc'[r] \in InTransaction <=> pc[r] \in InTransaction)
  BY DEF Frame, InTransaction
<1> QED BY <1>3, <1>4, KeyKeepsInv

LEMMA InsertEffect ==
  ASSUME IInv, NEW q \in Requests, Insert(q)
  PROVE  Effect(q)
<1>1. /\ pc[q] = "insert" /\ idem' = idem /\ lock' = lock /\ sharing' = sharing
      /\ clock' = clock /\ audit' = audit
      /\ round' = round /\ input' = input /\ now' = now /\ found' = found /\ Goto(q, "audit")
      /\ InsertDisbursement(q, PendingRow(input[q].note))
  BY DEF Insert, keys, locals
<1>2. ~Exists(q) /\ reply[q] = "none" /\ input[q] \in Asks /\ now[q] <= clock
  BY <1>1 DEF IInv, RequestInv, TypeOK
<1>3. /\ rows' \in [Ids -> Row] /\ rows'[q] = PendingRow(input[q].note) /\ Exists(q)'
      /\ \A i \in Ids : i # q => rows'[i] = rows[i]
      /\ \A id \in Ids \ Requests : ~Exists(id)'
  BY <1>1, <1>2, InsertFacts
<1>4. pc'[q] = "audit" /\ reply' = reply
  BY <1>1 DEF IInv, TypeOK, Goto
<1>5. TypeOK'
  BY <1>1, <1>3 DEF IInv, TypeOK, Goto, Running
<1>6. Frame(q)
  BY <1>1, <1>3, CreateAssumption DEF Frame, IInv, TypeOK, Goto
<1>7. Grow
  BY <1>1, <1>2, <1>4, <1>6 DEF Frame, Grow
<1>8. RequestInv(q)'
  BY <1>1, <1>2, <1>3, <1>4 DEF RequestInv, InTransaction
<1>9. \A k \in Keys : KeyInv(k)'
  BY <1>1, <1>4, <1>6, <1>7, PlainInsertKeepsKeys DEF InTransaction
<1>10. SharingInv'
  BY <1>1, <1>6, QuietKeepsSharing
<1> QED BY <1>3, <1>5, <1>6, <1>7, <1>8, <1>9, <1>10 DEF Effect

LEMMA InsertKeyEffect ==
  ASSUME IInv, NEW q \in Requests, InsertKey(q)
  PROVE  Effect(q) /\ audit' = audit
<1>0. PICK key \in Keys : key = Key(q)
  BY DEF InsertKey
<1>1. /\ pc[q] = "insertKey" /\ key \in Keys /\ lock[key] = Nobody
      /\ rows' = rows /\ audit' = audit /\ idem' = idem /\ clock' = clock
      /\ round' = round /\ input' = input /\ now' = now /\ found' = found
  BY <1>0 DEF InsertKey, tables, locals, Free
<1>2. ~Exists(q) /\ reply[q] = "none" /\ input[q] \in Asks /\ now[q] <= clock
  BY <1>1 DEF IInv, RequestInv, TypeOK
<1>3. \/ idem[key] = Nobody /\ lock' = [lock EXCEPT ![key] = q] /\ pc'[q] = "commit" /\ reply' = reply
      \/ lock' = lock /\ pc'[q] = "lookup" /\ reply' = reply
  BY <1>0 DEF InsertKey, Goto, IInv, TypeOK
<1>4. TypeOK'
  <2>1. sharing' \subseteq Requests
    BY DEF InsertKey, IInv, TypeOK
  <2> QED BY <1>1, <1>3, <2>1 DEF InsertKey, Goto, IInv, TypeOK, Running
<1>5. Frame(q)
  BY <1>1 DEF InsertKey, Frame, IInv, TypeOK, Goto
<1>6. Grow
  BY <1>1, <1>3, <1>5 DEF Frame, Grow
<1>7. RequestInv(q)'
  BY <1>0, <1>1, <1>2, <1>3 DEF RequestInv, InTransaction, Exists, Key
<1>10. SharingInv'
  <2>1. sharing' = sharing \ {q} /\ \A s \in sharing : Key(s) = key => s = q
    BY <1>0 DEF InsertKey, Sharers
  <2>2. ASSUME NEW s \in sharing'
        PROVE  /\ s \in Requests \ {q} /\ pc[s] = "insertKey" /\ Key(s) \in Keys
               /\ lock'[Key(s)] = Nobody /\ idem'[Key(s)] = Nobody
    <3>1. s \in sharing /\ s # q /\ Key(s) # key
      BY <2>1
    <3>2. /\ s \in Requests /\ pc[s] = "insertKey" /\ Key(s) \in Keys
          /\ lock[Key(s)] = Nobody /\ idem[Key(s)] = Nobody
      BY <3>1 DEF IInv, TypeOK, SharingInv
    <3>3. lock'[Key(s)] = lock[Key(s)]
      BY <1>1, <1>3, <3>1, <3>2 DEF IInv, TypeOK
    <3> QED BY <1>1, <3>1, <3>2, <3>3
  <2> QED BY <1>5, <2>2, SharingKept
<1>8. CASE lock' = lock /\ pc'[q] = "lookup"
  BY <1>1, <1>4, <1>5, <1>6, <1>7, <1>8, <1>10, QuietKeepsKeys
    DEF Effect, IInv, Exists, InTransaction
<1>9. CASE idem[key] = Nobody /\ lock' = [lock EXCEPT ![key] = q] /\ pc'[q] = "commit"
  <2>1. ASSUME NEW k \in Keys, k # key PROVE KeyInv(k)'
    <3>1. \A r \in Requests : Exists(r)' => Exists(r)
      BY <1>1 DEF Exists
    <3>2. \A r \in Requests : Sent(r, k)' => (pc'[r] \in InTransaction <=> pc[r] \in InTransaction)
      BY <1>0, <1>1, <1>5, <2>1 DEF Frame, Sent, Key
    <3>3. lock'[k] = lock[k]
      BY <1>1, <1>9, <2>1 DEF IInv, TypeOK
    <3> QED BY <1>1, <1>6, <3>1, <3>2, <3>3, KeyKeepsInv
  <2>2. KeyInv(key)'
    <3>1. KeyInv(key) /\ lock'[key] = q /\ q # Nobody
      BY <1>1, <1>9, CreateAssumption DEF IInv, TypeOK
    <3>2. Sent(q, key)'
      BY <1>0, <1>1, <1>9 DEF Sent, Key
    <3>3. \A r \in Requests : pc'[r] \in InTransaction /\ Key(r)' = key => r = q
      <4>1. \A r \in Requests \ {q} : ~ (pc[r] \in InTransaction /\ Key(r) = key)
        BY <1>1, <3>1, CreateAssumption DEF KeyInv
      <4> QED BY <1>1, <1>5, <4>1 DEF Frame, Key
    <3>4. ~Late(key)' => \A r \in Requests : ~ (Sent(r, key)' /\ Exists(r)')
      <4>1. SUFFICES ASSUME ~Late(key)', NEW r \in Requests, Sent(r, key)', Exists(r)'
                     PROVE  FALSE
        OBVIOUS
      <4>2. ~Late(key)
        BY <1>1, <1>6, <4>1, LateStays
      <4>3. Exists(r) /\ r # q
        BY <1>1, <1>2, <4>1 DEF Exists
      <4>4. Sent(r, key)
        BY <1>1, <1>5, <4>1, <4>3 DEF Frame, Sent, Key
      <4> QED BY <1>9, <3>1, <4>2, <4>3, <4>4, CreateAssumption DEF KeyInv
    <3>5. idem'[key] = Nobody
      BY <1>1, <1>9
    <3> QED BY <1>9, <3>1, <3>2, <3>3, <3>4, <3>5, <1>1
              DEF KeyInv, InTransaction, Key, Sent, Exists
  <2>3. \A k \in Keys : KeyInv(k)'
    BY <2>1, <2>2
  <2> QED BY <1>1, <1>4, <1>5, <1>6, <1>7, <1>10, <2>3 DEF Effect, IInv, Exists
<1> QED BY <1>3, <1>8, <1>9

\* The COMMIT, whoever learns of it: the record and the disbursement appear.
LEMMA CommitBothFacts ==
  ASSUME IInv, NEW q \in Requests, pc[q] \in InTransaction, CommitBoth(q),
         pc'[q] \notin InTransaction \cup {"idle"}, input' = input, now' = now, found' = found,
         \A r \in Requests \ {q} : pc'[r] = pc[r] /\ reply'[r] = reply[r]
  PROVE  /\ rows' \in [Ids -> Row]
         /\ rows'[q] = PendingRow(input[q].note) /\ Exists(q)'
         /\ \A id \in Ids \ Requests : ~Exists(id)'
         /\ idem' \in [Keys -> Requests \cup {Nobody}]
         /\ lock' \in [Keys -> Requests \cup {Nobody}]
         /\ Grow /\ Frame(q)
         /\ \A k \in Keys : KeyInv(k)'
         /\ sharing' = sharing /\ SharingInv'
<1>0. PICK key \in Keys : key = Key(q)
  BY DEF IInv, RequestInv, InTransaction
<1>1. /\ key \in Keys /\ ~Exists(q) /\ pc[q] # "idle" /\ q \in Ids /\ q # Nobody
      /\ lock[key] = q /\ idem[key] = Nobody
  <2>1. key \in Keys /\ ~Exists(q) /\ pc[q] # "idle"
    BY DEF IInv, RequestInv, InTransaction
  <2>2. KeyInv(key)
    BY <2>1 DEF IInv
  <2> QED BY <1>0, <2>1, <2>2, CreateAssumption DEF KeyInv
<1>2. /\ InsertDisbursement(q, PendingRow(input[q].note))
      /\ idem' = [idem EXCEPT ![key] = q]
      /\ lock' = [lock EXCEPT ![key] = Nobody]
      /\ sharing' = sharing
  BY <1>0 DEF CommitBoth
<1>3. /\ rows' \in [Ids -> Row] /\ rows'[q] = PendingRow(input[q].note) /\ Exists(q)'
      /\ \A i \in Ids : i # q => rows'[i] = rows[i]
      /\ \A id \in Ids \ Requests : ~Exists(id)'
  BY <1>1, <1>2, InsertFacts
<1>4. idem' \in [Keys -> Requests \cup {Nobody}] /\ lock' \in [Keys -> Requests \cup {Nobody}]
  BY <1>2 DEF IInv, TypeOK
<1>5. Frame(q)
  BY <1>3, CreateAssumption DEF Frame
<1>6. Grow
  BY <1>1, <1>5 DEF Frame, Grow
<1>7. ASSUME NEW k \in Keys, k # key PROVE KeyInv(k)'
  <2>1. \A r \in Requests : Sent(r, k)' => r # q
    BY <1>0, <1>7 DEF Sent, Key
  <2>2. \A r \in Requests : Sent(r, k)' /\ Exists(r)' => Exists(r)
    BY <1>3, <2>1, CreateAssumption DEF Exists
  <2>3. \A r \in Requests : Sent(r, k)' => (pc'[r] \in InTransaction <=> pc[r] \in InTransaction)
    BY <1>5, <2>1 DEF Frame
  <2>4. idem'[k] = idem[k] /\ lock'[k] = lock[k]
    BY <1>2, <1>7 DEF IInv, TypeOK
  <2> QED BY <1>6, <2>2, <2>3, <2>4, KeyKeepsInv
<1>8. KeyInv(key)'
  <2>1. KeyInv(key) /\ idem'[key] = q /\ lock'[key] = Nobody
    BY <1>1, <1>2 DEF IInv, TypeOK
  <2>2. Sent(q, key)'
    BY <1>0, <1>1 DEF Sent, Key
  <2>3. \A r \in Requests : ~ (pc'[r] \in InTransaction /\ Key(r)' = key)
    <3>1. \A r \in Requests \ {q} : ~ (pc[r] \in InTransaction /\ Key(r) = key)
      BY <1>1, <2>1 DEF KeyInv
    <3> QED BY <1>5, <3>1 DEF Frame, Key
  <2>4. ~Late(key)' => \A r \in Requests : Sent(r, key)' /\ Exists(r)' => r = q
    <3>1. SUFFICES ASSUME ~Late(key)', NEW r \in Requests \ {q}, Sent(r, key)', Exists(r)'
                   PROVE  FALSE
      OBVIOUS
    <3>2. ~Late(key)
      BY <1>6, <3>1, LateStays
    <3>3. Exists(r) /\ Sent(r, key)
      BY <1>5, <3>1 DEF Frame, Sent, Key, Exists
    <3> QED BY <1>1, <2>1, <3>2, <3>3, CreateAssumption DEF KeyInv
  <2> QED BY <1>1, <1>3, <2>1, <2>2, <2>3, <2>4 DEF KeyInv, Key, Sent, Exists
<1>9. \A k \in Keys : KeyInv(k)'
  BY <1>7, <1>8
<1>10. SharingInv'
  <2>1. ASSUME NEW s \in sharing'
        PROVE  /\ s \in Requests \ {q} /\ pc[s] = "insertKey" /\ Key(s) \in Keys
               /\ lock'[Key(s)] = Nobody /\ idem'[Key(s)] = Nobody
    <3>1. /\ s \in Requests /\ pc[s] = "insertKey" /\ Key(s) \in Keys
          /\ lock[Key(s)] = Nobody /\ idem[Key(s)] = Nobody
      BY <1>2, <2>1 DEF IInv, TypeOK, SharingInv
    <3>2. Key(s) # key /\ s # q
      BY <1>1, <3>1 DEF InTransaction
    <3> QED BY <1>2, <3>1, <3>2 DEF IInv, TypeOK
  <2> QED BY <1>5, <2>1, SharingKept
<1> QED BY <1>2, <1>3, <1>4, <1>5, <1>6, <1>9, <1>10

LEMMA CommitEffect ==
  ASSUME IInv, NEW q \in Requests,
         Commit(q) \/ (AckLost(q) /\ pc[q] = "commit") \/ (EndOrphan(q) /\ CommitBoth(q))
  PROVE  Effect(q) /\ audit' = audit
<1>1. /\ pc[q] \in InTransaction /\ CommitBoth(q) /\ audit' = audit /\ clock' = clock
      /\ round' = round /\ input' = input /\ now' = now /\ found' = found
      /\ \/ Goto(q, "audit") /\ pc[q] = "commit"
         \/ Answer(q, "failed") /\ pc[q] = "commit"
         \/ Goto(q, "lost") /\ pc[q] = "orphan"
  BY DEF Commit, AckLost, EndOrphan, locals, InTransaction
<1>2. reply[q] = "none" /\ input[q] \in Asks /\ now[q] <= clock
  BY <1>1 DEF IInv, RequestInv, TypeOK, InTransaction
<1>3. /\ pc'[q] \in {"audit", "done", "lost"}
      /\ reply'[q] \in {"none", "failed"} /\ (reply'[q] = "failed" => pc'[q] = "done")
      /\ \A r \in Requests \ {q} : pc'[r] = pc[r] /\ reply'[r] = reply[r]
  BY <1>1, <1>2 DEF IInv, TypeOK, Goto, Answer
<1>4. /\ rows' \in [Ids -> Row]
      /\ rows'[q] = PendingRow(input[q].note) /\ Exists(q)'
      /\ \A id \in Ids \ Requests : ~Exists(id)'
      /\ idem' \in [Keys -> Requests \cup {Nobody}]
      /\ lock' \in [Keys -> Requests \cup {Nobody}]
      /\ Grow /\ Frame(q)
      /\ \A k \in Keys : KeyInv(k)'
      /\ sharing' = sharing /\ SharingInv'
  BY <1>1, <1>3, CommitBothFacts DEF InTransaction
<1>5. TypeOK'
  BY <1>1, <1>4 DEF IInv, TypeOK, Goto, Answer, Running, Ended, Replies
<1>6. RequestInv(q)'
  BY <1>1, <1>2, <1>3, <1>4 DEF RequestInv, InTransaction
<1> QED BY <1>1, <1>4, <1>5, <1>6 DEF Effect

\* The DELETE hits a key that a request has found expired, so the key is late
\* and promises nothing any more.
LEMMA DeleteKeyEffect ==
  ASSUME IInv, NEW q \in Requests, DeleteKey(q) \/ (AckLost(q) /\ pc[q] = "deleteKey")
  PROVE  Effect(q) /\ audit' = audit
<1>0. PICK key \in Keys : key = Key(q)
  BY DEF IInv, RequestInv, DeleteKey
<1>1. /\ pc[q] = "deleteKey" /\ lock[key] = Nobody /\ rows' = rows /\ audit' = audit
      /\ idem' = [idem EXCEPT ![key] = Nobody] /\ lock' = lock /\ clock' = clock
      /\ input' = input /\ now' = now /\ found' = found
      /\ round' \in [Requests -> 1 .. 2]
      /\ Goto(q, "insertKey") \/ Answer(q, "retry") \/ Answer(q, "failed")
      /\ Admit({r \in Requests : pc[r] = "insertKey" /\ Key(r) = key}, q)
  BY <1>0 DEF DeleteKey, DeleteRecord, NextRound, AckLost, Free, tables, locals, IInv, TypeOK
<1>2. /\ ~Exists(q) /\ reply[q] = "none" /\ input[q] \in Asks /\ now[q] <= clock
      /\ Based(q) /\ SeesExpired(q, found[q])
  BY <1>1 DEF IInv, RequestInv, TypeOK
<1>3. \/ pc'[q] = "insertKey" /\ reply'[q] = "none"
      \/ pc'[q] = "done" /\ reply'[q] \in {"retry", "failed"}
  BY <1>1, <1>2 DEF IInv, TypeOK, Goto, Answer
<1>13. /\ sharing' \subseteq Requests
       /\ \A s \in sharing' : \/ pc[s] = "insertKey" /\ Key(s) = key
                              \/ s \in sharing /\ s # q
  BY <1>1, Admitted
<1>4. TypeOK'
  BY <1>1, <1>13 DEF IInv, TypeOK, Goto, Answer, Running, Ended, Replies
<1>5. Frame(q)
  BY <1>1 DEF Frame, IInv, TypeOK, Goto, Answer
<1>6. Grow
  BY <1>1, <1>3, <1>5 DEF Frame, Grow
<1>7. RequestInv(q)'
  BY <1>1, <1>2, <1>3 DEF RequestInv, InTransaction, Exists
<1>8. \A r \in Requests : Exists(r)' => Exists(r)
  BY <1>1 DEF Exists
<1>9. \A r \in Requests : pc'[r] \in InTransaction <=> pc[r] \in InTransaction
  BY <1>1, <1>3, <1>5 DEF Frame, InTransaction
<1>10. ASSUME NEW k \in Keys, k # key PROVE KeyInv(k)'
  <2>1. idem'[k] = idem[k] /\ lock'[k] = lock[k]
    BY <1>1, <1>10 DEF IInv, TypeOK
  <2> QED BY <1>6, <1>8, <1>9, <2>1, KeyKeepsInv
<1>11. KeyInv(key)'
  <2>1. Late(key)
    BY <1>0, <1>1, <1>2 DEF Late, Based, Sent
  <2>2. Late(key)'
    BY <1>6, <2>1, LateStays
  <2>3. \A r \in Requests : ~ (pc'[r] \in InTransaction /\ Key(r)' = key)
    <3>1. \A r \in Requests : ~ (pc[r] \in InTransaction /\ Key(r) = key)
      BY <1>1, CreateAssumption DEF IInv, KeyInv
    <3> QED BY <1>1, <1>9, <3>1 DEF Key
  <2>4. idem'[key] = Nobody /\ lock'[key] = Nobody
    BY <1>1 DEF IInv, TypeOK
  <2> QED BY <2>2, <2>3, <2>4 DEF KeyInv
<1>12. \A k \in Keys : KeyInv(k)'
  BY <1>10, <1>11
<1>14. SharingInv'
  <2>1. ASSUME NEW s \in sharing'
        PROVE  /\ s \in Requests \ {q} /\ pc[s] = "insertKey" /\ Key(s) \in Keys
               /\ lock'[Key(s)] = Nobody /\ idem'[Key(s)] = Nobody
    <3>1. CASE pc[s] = "insertKey" /\ Key(s) = key
      BY <1>1, <1>13, <2>1, <3>1 DEF IInv, TypeOK
    <3>2. CASE s \in sharing
      BY <1>1, <1>13, <3>2 DEF IInv, TypeOK, SharingInv
    <3> QED BY <1>13, <2>1, <3>1, <3>2
  <2> QED BY <1>5, <2>1, SharingKept
<1> QED BY <1>1, <1>4, <1>5, <1>6, <1>7, <1>12, <1>14 DEF Effect, IInv, Exists

\* A rollback takes the uncommitted key away and leaves nothing.
LEMMA ReleaseEffect ==
  ASSUME IInv, NEW q \in Requests,
         \/ StatementFails(q) \/ ValueRefused(q) \/ Deadlock(q)
         \/ EndOrphan(q) /\ Release(q) /\ rows' = rows /\ idem' = idem
  PROVE  Effect(q) /\ audit' = audit
<1> DEFINE waiters ==
      {r \in Requests : pc[r] = "insertKey" /\ Key(r) \in Keys /\ lock[Key(r)] = q}
<1>0. /\ pc[q] \in (Running \ {"audit"}) \cup {"orphan"}
      /\ Release(q)
      /\ rows' = rows /\ audit' = audit /\ idem' = idem /\ clock' = clock
      /\ round' = round /\ input' = input /\ now' = now /\ found' = found
      /\ Answer(q, "failed") \/ Answer(q, "unfit") \/ Answer(q, "deadlock") \/ Goto(q, "lost")
  <2>1. Deadlock(q) => pc[q] \in {"insertKey", "deleteKey"}
    BY DEF Deadlock, InDeadlock, IInv, SharingInv
  <2> QED BY <2>1 DEF StatementFails, ValueRefused, Deadlock, Fails, EndOrphan, tables, locals,
                      Running
<1>1. /\ pc[q] \in (Running \ {"audit"}) \cup {"orphan"}
      /\ lock' = [k \in Keys |-> IF lock[k] = q THEN Nobody ELSE lock[k]]
      /\ Admit(waiters, q)
      /\ rows' = rows /\ audit' = audit /\ idem' = idem /\ clock' = clock
      /\ round' = round /\ input' = input /\ now' = now /\ found' = found
      /\ Answer(q, "failed") \/ Answer(q, "unfit") \/ Answer(q, "deadlock") \/ Goto(q, "lost")
  BY <1>0 DEF Release
<1>2. ~Exists(q) /\ reply[q] = "none" /\ input[q] \in Asks /\ now[q] <= clock
  BY <1>1 DEF IInv, RequestInv, TypeOK, Running, InTransaction
<1>3. pc'[q] \in {"done", "lost"} /\ reply'[q] \in {"none", "failed", "unfit", "deadlock"}
      /\ (reply'[q] # "none" => pc'[q] = "done")
  BY <1>1, <1>2 DEF IInv, TypeOK, Goto, Answer
<1>9. sharing' \subseteq Requests /\ \A s \in sharing' : s \in waiters \/ (s \in sharing /\ s # q)
  BY <1>1, Admitted
<1>4. TypeOK'
  BY <1>1, <1>9 DEF IInv, TypeOK, Goto, Answer, Ended, Replies
<1>5. Frame(q)
  BY <1>1 DEF Frame, IInv, TypeOK, Goto, Answer
<1>6. Grow
  BY <1>1, <1>3, <1>5 DEF Frame, Grow
<1>7. RequestInv(q)'
  BY <1>1, <1>2, <1>3 DEF RequestInv, InTransaction, Exists
<1>8. ASSUME NEW k \in Keys PROVE KeyInv(k)'
  <2>1. KeyInv(k) /\ idem[k] \in Requests \cup {Nobody} /\ lock[k] \in Requests \cup {Nobody}
    BY DEF IInv, TypeOK
  <2>2. \A r \in Requests \ {q} : pc'[r] = pc[r]
    BY <1>5 DEF Frame
  <2>3. \A r \in Requests : Sent(r, k)' <=> Sent(r, k)
    BY <1>1, <1>3, <2>2, CreateAssumption DEF Sent, Key, Running
  <2>4. (idem[k] # Nobody => Sent(idem[k], k) /\ Exists(idem[k]))'
    BY <1>1, <2>1, <2>3 DEF KeyInv, Exists, Sent, Key
  <2>5. (lock[k] # Nobody => idem[k] = Nobody /\ Sent(lock[k], k) /\ pc[lock[k]] \in InTransaction)'
    BY <1>1, <2>1, <2>2, <2>3 DEF KeyInv, Sent, Key
  <2>6. \A r \in Requests : pc'[r] \in InTransaction /\ Key(r)' = k => lock'[k] = r
    BY <1>1, <1>3, <2>1, <2>2 DEF KeyInv, Key, InTransaction
  <2>7. ~Late(k)' => \A r \in Requests : Sent(r, k)' /\ Exists(r)' => idem'[k] = r
    BY <1>1, <1>6, <2>1, <2>3, LateStays DEF KeyInv, Exists
  <2> QED BY <2>4, <2>5, <2>6, <2>7 DEF KeyInv
<1>10. SharingInv'
  <2>1. ASSUME NEW s \in sharing'
        PROVE  /\ s \in Requests \ {q} /\ pc[s] = "insertKey" /\ Key(s) \in Keys
               /\ lock'[Key(s)] = Nobody /\ idem'[Key(s)] = Nobody
    <3>1. CASE s \in waiters
      <4>1. s \in Requests /\ pc[s] = "insertKey" /\ Key(s) \in Keys /\ lock[Key(s)] = q
        BY <3>1
      <4>2. q # Nobody /\ KeyInv(Key(s))
        BY <4>1, CreateAssumption DEF IInv
      <4>3. idem[Key(s)] = Nobody /\ pc[q] \in InTransaction
        BY <4>1, <4>2 DEF KeyInv
      <4> QED BY <1>1, <4>1, <4>3 DEF InTransaction
    <3>2. CASE s \in sharing /\ s # q
      BY <1>1, <1>9, <2>1, <3>2 DEF IInv, TypeOK, SharingInv
    <3> QED BY <1>9, <2>1, <3>1, <3>2
  <2> QED BY <1>5, <2>1, SharingKept
<1> QED BY <1>1, <1>4, <1>5, <1>6, <1>7, <1>8, <1>10 DEF Effect, IInv, Exists

LEMMA InsertAckLostEffect ==
  ASSUME IInv, NEW q \in Requests, AckLost(q), pc[q] = "insert"
  PROVE  Effect(q) /\ audit' = audit
<1>1. /\ idem' = idem /\ lock' = lock /\ sharing' = sharing /\ clock' = clock /\ audit' = audit
      /\ round' = round /\ input' = input /\ now' = now /\ found' = found /\ Answer(q, "failed")
      /\ InsertDisbursement(q, PendingRow(input[q].note))
  BY DEF AckLost, keys, locals
<1>2. ~Exists(q) /\ reply[q] = "none" /\ input[q] \in Asks /\ now[q] <= clock
  BY DEF IInv, RequestInv, TypeOK
<1>3. /\ rows' \in [Ids -> Row] /\ rows'[q] = PendingRow(input[q].note) /\ Exists(q)'
      /\ \A i \in Ids : i # q => rows'[i] = rows[i]
      /\ \A id \in Ids \ Requests : ~Exists(id)'
  BY <1>1, <1>2, InsertFacts
<1>4. pc'[q] = "done" /\ reply'[q] = "failed"
  BY <1>1 DEF IInv, TypeOK, Answer
<1>5. TypeOK'
  BY <1>1, <1>3 DEF IInv, TypeOK, Answer, Ended, Replies
<1>6. Frame(q)
  BY <1>1, <1>3, CreateAssumption DEF Frame, IInv, TypeOK, Answer
<1>7. Grow
  BY <1>1, <1>2, <1>4, <1>6 DEF Frame, Grow
<1>8. RequestInv(q)'
  BY <1>1, <1>2, <1>3, <1>4 DEF RequestInv, InTransaction
<1>9. \A k \in Keys : KeyInv(k)'
  BY <1>1, <1>4, <1>6, <1>7, PlainInsertKeepsKeys DEF InTransaction
<1>10. SharingInv'
  BY <1>1, <1>6, QuietKeepsSharing
<1> QED BY <1>1, <1>3, <1>5, <1>6, <1>7, <1>8, <1>9, <1>10 DEF Effect

-----------------------------------------------------------------------------
(* The invariant.                                                          *)

\* A step with the common effect keeps the whole invariant, provided what it
\* adds to the audit log is about a disbursement that was made.
LEMMA EffectKeepsIInv ==
  ASSUME IInv, NEW q \in Requests, Effect(q), clock' = clock,
         \A e \in audit' \ audit : e.entity = q /\ Exists(q)
  PROVE  IInv'
<1>1. \A r \in Requests : RequestInv(r)'
  BY OthersKeepInv, CreateAssumption DEF Effect, IInv, TypeOK
<1>2. EntriesInv'
  BY DEF Effect, IInv, EntriesInv, Grow, Exists
<1> QED BY <1>1, <1>2 DEF Effect, IInv

LEMMA InitIInv == Init => IInv
<1>1. SUFFICES ASSUME Init PROVE IInv
  OBVIOUS
<1>2. \A id \in Ids : ~Exists(id)
  BY <1>1, NoRowFacts DEF Init, Exists
<1>3. TypeOK
  BY <1>1, NoRowFacts, CreateAssumption DEF Init, TypeOK, Replies
<1>4. \A r \in Requests : RequestInv(r)
  BY <1>1, <1>2, CreateAssumption DEF Init, RequestInv, InTransaction
<1>5. \A k \in Keys : KeyInv(k)
  BY <1>1, <1>2, CreateAssumption DEF Init, KeyInv, InTransaction
<1> QED BY <1>1, <1>2, <1>3, <1>4, <1>5 DEF IInv, EntriesInv, SharingInv, Init

LEMMA CrashKeepsIInv ==
  ASSUME IInv, Crash
  PROVE  IInv'
<1>1. /\ pc' = [r \in Requests |-> CASE pc[r] = "commit" -> "orphan"
                                     [] pc[r] \in Running \ {"commit"} -> "lost"
                                     [] OTHER -> pc[r]]
      /\ rows' = rows /\ audit' = audit /\ idem' = idem /\ lock' = lock /\ clock' = clock
      /\ round' = round /\ input' = input /\ now' = now /\ found' = found /\ reply' = reply
      /\ sharing' = {}
  BY DEF Crash, tables, locals
<1>2. \A r \in Requests :
        /\ pc[r] = "commit" => pc'[r] = "orphan"
        /\ pc[r] \in Running \ {"commit"} => pc'[r] = "lost"
        /\ pc[r] \notin Running => pc'[r] = pc[r]
  BY <1>1 DEF Running
<1>3. TypeOK'
  <2>1. pc' \in [Requests -> {"idle", "orphan"} \cup Running \cup Ended]
    BY <1>1, <1>2 DEF IInv, TypeOK, Ended
  <2> QED BY <1>1, <2>1 DEF IInv, TypeOK
<1>4. Grow
  BY <1>1, <1>2 DEF Grow, Running
<1>5. ASSUME NEW r \in Requests PROVE RequestInv(r)'
  <2>1. RequestInv(r)
    BY DEF IInv
  <2>2. Based(r) /\ pc[r] # "idle" =>
          /\ Based(r)'
          /\ SeesExpired(r, found[r])' <=> SeesExpired(r, found[r])
          /\ SameRequest(r, found[r])' <=> SameRequest(r, found[r])
    BY <1>1, <1>4, BasedStays
  <2> QED BY <1>1, <1>2, <2>1, <2>2 DEF RequestInv, InTransaction, Running, Exists, Key
<1>6. \A r \in Requests : pc'[r] \in InTransaction <=> pc[r] \in InTransaction
  BY <1>2 DEF InTransaction, Running
<1>7. \A k \in Keys : KeyInv(k)'
  BY <1>1, <1>4, <1>6, KeyKeepsInv DEF Exists
<1> QED BY <1>1, <1>3, <1>5, <1>7 DEF IInv, EntriesInv, SharingInv, Exists

LEMMA TickKeepsIInv ==
  ASSUME IInv, Tick
  PROVE  IInv'
<1>1. /\ clock < MaxClock /\ clock' = clock + 1 /\ clock \in Nat
      /\ rows' = rows /\ audit' = audit /\ idem' = idem /\ lock' = lock /\ pc' = pc
      /\ round' = round /\ input' = input /\ now' = now /\ found' = found /\ reply' = reply
      /\ sharing' = sharing
  BY CreateAssumption DEF Tick, tables, keys, locals, IInv, TypeOK
<1>2. TypeOK'
  <2>1. clock' \in 0 .. MaxClock
    BY <1>1, CreateAssumption
  <2> QED BY <1>1, <2>1 DEF IInv, TypeOK
<1>3. ASSUME NEW r \in Requests PROVE RequestInv(r)'
  <2>1. RequestInv(r) /\ now[r] \in Nat
    BY CreateAssumption DEF IInv, TypeOK
  <2>2. now[r] <= clock => now'[r] <= clock'
    BY <1>1, <2>1
  <2>3. Based(r)' = Based(r) /\ SeesExpired(r, found[r])' = SeesExpired(r, found[r])
        /\ SameRequest(r, found[r])' = SameRequest(r, found[r])
    BY <1>1 DEF Based, SeesExpired, SameRequest, Sent, Key, Exists
  <2> QED BY <1>1, <2>1, <2>2, <2>3 DEF RequestInv, Exists, Key
<1>4. \A k \in Keys : KeyInv(k)'
  BY <1>1, KeyKeepsInv DEF IInv, Grow, Exists
<1> QED BY <1>1, <1>2, <1>3, <1>4 DEF IInv, EntriesInv, SharingInv, Exists, Key

LEMMA NextKeepsIInv == IInv /\ [Next]_vars => IInv'
<1>1. SUFFICES ASSUME IInv, [Next]_vars PROVE IInv'
  OBVIOUS
<1>2. ASSUME NEW q \in Requests, Receive(q) \/ Insert(q) \/ Lookup(q) PROVE IInv'
  <2>1. clock' = clock /\ audit' = audit
    BY <1>2 DEF Receive, Insert, Lookup, tables
  <2> QED BY <1>1, <1>2, <2>1, ReceiveEffect, InsertEffect, LookupEffect, EffectKeepsIInv
<1>3. ASSUME NEW q \in Requests, WriteAudit(q) PROVE IInv'
  <2>1. clock' = clock /\ \A e \in audit' \ audit : e.entity = q
    BY <1>3 DEF WriteAudit, InsertAudit, CreatedEntry
  <2>2. Exists(q)
    BY <1>1, <1>3 DEF WriteAudit, IInv, RequestInv
  <2> QED BY <1>1, <1>3, <2>1, <2>2, WriteAuditEffect, EffectKeepsIInv
<1>4. ASSUME NEW q \in Requests,
             \/ InsertKey(q) \/ Commit(q) \/ DeleteKey(q) \/ ValueRefused(q) \/ Deadlock(q)
             \/ StatementFails(q) \/ AckLost(q) \/ EndOrphan(q)
      PROVE  IInv'
  <2>1. clock' = clock
    BY <1>4 DEF InsertKey, Commit, DeleteKey, ValueRefused, Deadlock, StatementFails, Fails,
                AckLost, EndOrphan
  <2>2. AckLost(q) => pc[q] \in {"insert", "commit", "deleteKey"}
    BY DEF AckLost
  <2>3. EndOrphan(q) => CommitBoth(q) \/ (Release(q) /\ rows' = rows /\ idem' = idem)
    BY DEF EndOrphan
  <2>4. Effect(q) /\ audit' = audit
    BY <1>1, <1>4, <2>2, <2>3, InsertKeyEffect, CommitEffect, DeleteKeyEffect, ReleaseEffect,
       InsertAckLostEffect
  <2> QED BY <1>1, <2>1, <2>4, EffectKeepsIInv
<1>5. CASE UNCHANGED vars
  <2>1. /\ rows' = rows /\ audit' = audit /\ idem' = idem /\ lock' = lock /\ clock' = clock
        /\ pc' = pc /\ round' = round /\ input' = input /\ now' = now /\ found' = found
        /\ reply' = reply /\ sharing' = sharing
    BY <1>5 DEF vars, tables, keys, locals
  <2>2. TypeOK' /\ \A r \in Requests : RequestInv(r)'
    BY <1>1, <2>1 DEF IInv, TypeOK, RequestInv, Based, SeesExpired, SameRequest, Sent, Key,
                      Exists
  <2>3. \A k \in Keys : KeyInv(k)'
    BY <1>1, <2>1, KeyKeepsInv DEF Grow, Exists
  <2> QED BY <1>1, <2>1, <2>2, <2>3 DEF IInv, EntriesInv, SharingInv, Exists, Key
<1> QED
  BY <1>1, <1>2, <1>3, <1>4, <1>5, CrashKeepsIInv, TickKeepsIInv DEF Next, Step

\* IInv is an invariant of POST /disbursements.
THEOREM Invariance == Spec => []IInv
  BY InitIInv, NextKeepsIInv, PTL DEF Spec

\* Every request, row, record and lock keeps its type.
THEOREM TypeCorrect == Spec => []TypeOK
<1>1. IInv => TypeOK
  BY DEF IInv
<1> QED BY <1>1, Invariance, PTL

\* A record and its disbursement are committed together or not at all.
THEOREM RecordsAreBacked == Spec => []KeyBacked
<1>1. ASSUME IInv, NEW k \in Keys, idem[k] # Nobody
      PROVE  Sent(idem[k], k) /\ rows[idem[k]] = PendingRow(input[idem[k]].note)
  BY <1>1 DEF IInv, TypeOK, KeyInv, RequestInv
<1>2. ASSUME IInv, NEW k \in Keys, lock[k] # Nobody
      PROVE  idem[k] = Nobody /\ Sent(lock[k], k) /\ pc[lock[k]] \in {"commit", "orphan"} /\ ~Exists(lock[k])
  BY <1>2 DEF IInv, TypeOK, KeyInv, RequestInv, InTransaction
<1>3. IInv => KeyBacked
  BY <1>1, <1>2 DEF KeyBacked
<1> QED BY <1>3, Invariance, PTL

\* A replay shows what the same request of the same user created within TTL.
THEOREM ReplaysAreFaithful == Spec => []ReplayFaithful
<1>1. ASSUME IInv, NEW r \in Requests, reply[r] = "replayed"
      PROVE  LET q == found[r]
             IN /\ q \in Requests \ {r}
                /\ input[q] = input[r]
                /\ rows[q] = PendingRow(input[r].note)
                /\ now[r] <= now[q] + TTL
                /\ ~Exists(r)
  <2>1. Based(r) /\ SameRequest(r, found[r]) /\ ~SeesExpired(r, found[r]) /\ ~Exists(r)
    BY <1>1 DEF IInv, RequestInv
  <2>2. found[r] \in Requests \ {r} /\ Sent(found[r], Key(r)) /\ Exists(found[r])
    BY <2>1 DEF Based
  <2>3. rows[found[r]] = PendingRow(input[r].note)
    BY <1>1, <2>1, <2>2 DEF IInv, RequestInv, SameRequest
  <2>4. now[r] <= now[found[r]] + TTL
    BY <1>1, <2>1, <2>2, CreateAssumption DEF SeesExpired, IInv, TypeOK
  <2>5. input[found[r]] = input[r]
    <3>1. input[r] \in Asks /\ input[found[r]] \in Asks
      BY <1>1, <2>2 DEF IInv, RequestInv, Sent
    <3>2. ASSUME NEW ask \in Asks
          PROVE  ask = [key |-> ask.key, user |-> ask.user, note |-> ask.note, fits |-> ask.fits]
      <4> DEFINE given == Keys \cup {NoKey, BadKey, LongKey}
      <4>1. CASE ask \in [key: given, user: Users, note: Notes, fits: {TRUE}]
        BY <4>1
      <4>2. CASE ask \in [key: given, user: Users, note: {""}, fits: {FALSE}]
        BY <4>2
      <4> QED BY <4>1, <4>2 DEF Asks
    <3> QED BY <2>1, <2>2, <3>1, <3>2 DEF SameRequest, Sent, Key
  <2> QED BY <2>1, <2>2, <2>3, <2>4, <2>5
<1>2. IInv => ReplayFaithful
  BY <1>1 DEF ReplayFaithful
<1> QED BY <1>2, Invariance, PTL

\* Retries within TTL create one disbursement, whatever order the requests
\* run in and whatever fails between them.
THEOREM RetriesCreateOnce == Spec => []OnceWithinTTL
<1>1. IInv => OnceWithinTTL
  BY DEF IInv, KeyInv, OnceWithinTTL
<1> QED BY <1>1, Invariance, PTL

\* An answer that refuses or replays has created nothing.
THEOREM RefusalsCreateNothing == Spec => []RefusedCreatesNothing
<1>1. ASSUME IInv PROVE RefusedCreatesNothing
  BY <1>1 DEF IInv, RequestInv, EntriesInv, Based, RefusedCreatesNothing
<1>2. IInv => RefusedCreatesNothing
  BY <1>1
<1> QED BY <1>2, Invariance, PTL

-----------------------------------------------------------------------------
(* Why a request is refused or fails though it did nothing wrong.  Each    *)
(* such answer has a cause in what other requests of its key have done,    *)
(* and what they have done they never undo.                                *)

\* p made a record of r's key that had expired when r came in.
Outlived(r, p) == p \in Requests /\ Sent(p, Key(r)) /\ Exists(p) /\ SeesExpired(r, p)

\* r finds its key without a record because another request deleted it.
GoneBecause(r) ==
  \E q \in Requests \ {r}, p \in Requests :
    Sent(q, Key(r)) /\ Sent(p, Key(r)) /\ Exists(p) /\ SeesExpired(q, p)

\* In its second round r has deleted an expired record, which never returns.
RoundInv(r) ==
  /\ pc[r] = "idle" => round[r] = 1
  /\ pc[r] \in {"insertKey", "lookup"} /\ round[r] = 2 =>
       Key(r) \in Keys /\ Outlived(r, found[r]) /\ idem[Key(r)] # found[r]
  /\ pc[r] = "deleteKey" /\ round[r] = 2 => \E p \in Requests \ {found[r]} : Outlived(r, p)
  /\ reply[r] = "retry" =>
       \E p, q \in Requests : p # q /\ Outlived(r, p) /\ Outlived(r, q)

EvidenceInv(r) ==
  /\ RoundInv(r)
  /\ pc[r] = "lookup" /\ idem[Key(r)] = Nobody => GoneBecause(r)
  /\ reply[r] = "missing" => GoneBecause(r)
  /\ r \in sharing \/ reply[r] = "deadlock" => \E q \in Requests : Trouble(q, Key(r))

\* Causes stay.
LEMMA EvidenceStays ==
  ASSUME IInv, Grow, NEW r \in Requests, pc[r] # "idle"
  PROVE  /\ \A p : Outlived(r, p) => Outlived(r, p)'
         /\ GoneBecause(r) => GoneBecause(r)'
<1>1. /\ \A p \in Requests : Sent(p, Key(r)) => Sent(p, Key(r))'
      /\ \A p \in Requests : Exists(p) => Exists(p)'
  BY DEF Grow, Sent, Key, Exists
<1>2. \A p, q \in Requests : pc[p] # "idle" /\ pc[q] # "idle" /\ SeesExpired(q, p) => SeesExpired(q, p)'
  BY DEF Grow, SeesExpired
<1>3. \A p \in Requests : Outlived(r, p) => Outlived(r, p)'
  BY <1>1, <1>2 DEF Outlived, Sent
<1>4. ASSUME GoneBecause(r) PROVE GoneBecause(r)'
  <2>1. PICK q \in Requests \ {r}, p \in Requests :
          Sent(q, Key(r)) /\ Sent(p, Key(r)) /\ Exists(p) /\ SeesExpired(q, p)
    BY <1>4 DEF GoneBecause
  <2>2. (Sent(q, Key(r)) /\ Sent(p, Key(r)) /\ Exists(p) /\ SeesExpired(q, p))'
    BY <1>1, <1>2, <2>1 DEF Sent
  <2> QED BY <2>2 DEF GoneBecause
<1>5. \A p : Outlived(r, p) => p \in Requests
  BY DEF Outlived
<1> QED BY <1>3, <1>4, <1>5

LEMMA TroubleStays ==
  ASSUME IInv, Grow, NEW t \in Requests, NEW k, Trouble(t, k),
         (pc'[t] = pc[t] /\ reply'[t] = reply[t]) \/ pc[t] \notin Ended
  PROVE  Trouble(t, k)'
<1>1. Sent(t, k)'
  BY DEF Trouble, Grow, Sent, Key
<1>2. CASE reply[t] \in {"failed", "unfit"} \/ pc[t] = "lost"
  <2>1. pc[t] \in Ended
    BY <1>2 DEF IInv, RequestInv, Ended
  <2> QED BY <1>1, <1>2, <2>1 DEF Trouble
<1>3. CASE \E p \in Requests : Sent(p, k) /\ Exists(p) /\ SeesExpired(t, p)
  <2>1. PICK p \in Requests : Sent(p, k) /\ Exists(p) /\ SeesExpired(t, p)
    BY <1>3
  <2>2. pc[t] # "idle"
    BY DEF Trouble, Sent
  <2>3. (Sent(p, k) /\ Exists(p) /\ SeesExpired(t, p))'
    BY <2>1, <2>2 DEF Grow, Sent, Key, Exists, SeesExpired
  <2> QED BY <1>1, <2>3 DEF Trouble
<1> QED BY <1>2, <1>3 DEF Trouble

\* When q takes a step, the others keep their causes: the record of a key is
\* replaced by one that was never there, or deleted by a request that found it
\* expired, and whoever comes to share a key does so because of q.
LEMMA EvidenceKept ==
  ASSUME IInv, IInv', \A r \in Requests : EvidenceInv(r), NEW q \in Requests,
         pc[q] \notin Ended, Grow, Frame(q), \A r \in Requests \ {q} : round'[r] = round[r],
         \A k \in Keys : \/ idem'[k] = idem[k]
                         \/ idem'[k] = q /\ ~Exists(q)
                         \/ idem'[k] = Nobody /\ pc[q] = "deleteKey" /\ Key(q) = k,
         \A s \in sharing' \ sharing, k \in Keys : Key(s) = k => Trouble(q, k)',
         q \notin sharing',
         RoundInv(q)',
         pc'[q] = "lookup" => idem'[Key(q)'] # Nobody,
         reply'[q] = "missing" => pc[q] # "idle" /\ GoneBecause(q),
         reply'[q] = "deadlock" => pc[q] # "idle" /\ \E t \in Requests : Trouble(t, Key(q))
  PROVE  \A r \in Requests : EvidenceInv(r)'
<1>1. ASSUME NEW k, \E t \in Requests : Trouble(t, k)
      PROVE  \E t \in Requests : Trouble(t, k)'
  <2>1. PICK t \in Requests : Trouble(t, k)
    BY <1>1
  <2>2. (pc'[t] = pc[t] /\ reply'[t] = reply[t]) \/ pc[t] \notin Ended
    BY DEF Frame
  <2>3. Trouble(t, k)'
    BY <2>1, <2>2, TroubleStays
  <2> QED BY <2>3
<1>2. ASSUME NEW r \in Requests, r \in sharing'
      PROVE  (\E t \in Requests : Trouble(t, Key(r)))'
  <2>1. r # q /\ pc'[r] = "insertKey" /\ Key(r)' \in Keys
    BY <1>2 DEF IInv, SharingInv
  <2>2. Key(r)' = Key(r)
    BY <2>1 DEF Frame, Key
  <2>3. PICK k \in Keys : k = Key(r) /\ k = Key(r)'
    BY <2>1, <2>2
  <2>4. \E t \in Requests : Trouble(t, k)'
    <3>1. CASE r \in sharing
      <4>1. \E t \in Requests : Trouble(t, k)
        BY <2>3, <3>1 DEF EvidenceInv
      <4> QED BY <1>1, <4>1
    <3>2. CASE r \notin sharing
      BY <1>2, <2>3, <3>2
    <3> QED BY <3>1, <3>2
  <2> QED BY <2>3, <2>4 DEF Trouble, Sent
<1>3. ASSUME NEW r \in Requests, reply'[r] = "deadlock"
      PROVE  (\E t \in Requests : Trouble(t, Key(r)))'
  <2>1. (\E t \in Requests : Trouble(t, Key(r))) /\ pc[r] # "idle"
    BY <1>3 DEF EvidenceInv, Frame, IInv, RequestInv
  <2>2. PICK k : k = Key(r) /\ k = Key(r)'
    BY <2>1 DEF Grow, Key
  <2>3. \E t \in Requests : Trouble(t, k)'
    BY <1>1, <2>1, <2>2
  <2> QED BY <2>2, <2>3 DEF Trouble, Sent
<1>4. ASSUME NEW r \in Requests, GoneBecause(r), pc[r] # "idle"
      PROVE  GoneBecause(r)'
  BY <1>4, EvidenceStays
<1>5. ASSUME NEW r \in Requests \ {q} PROVE EvidenceInv(r)'
  <2>1. /\ pc'[r] = pc[r] /\ reply'[r] = reply[r] /\ found'[r] = found[r] /\ round'[r] = round[r]
        /\ Key(r)' = Key(r)
    BY DEF Frame, Key
  <2>2. EvidenceInv(r) /\ RoundInv(r) /\ RequestInv(r)
    BY DEF EvidenceInv, IInv
  <2>3. (pc[r] = "idle" => round[r] = 1)'
    BY <2>1, <2>2 DEF RoundInv
  <2>4. ASSUME NEW p, Outlived(r, p), pc[r] # "idle" PROVE Outlived(r, p)'
    BY <2>4, EvidenceStays
  <2>5. ASSUME pc[r] \in {"insertKey", "lookup"}, round[r] = 2
        PROVE  (Key(r) \in Keys /\ Outlived(r, found[r]) /\ idem[Key(r)] # found[r])'
    <3>1. PICK p \in Requests : p = found[r] /\ p = found'[r] /\ Outlived(r, p) /\ Exists(p)
      BY <2>1, <2>2, <2>5 DEF RoundInv, Outlived
    <3>2. PICK k \in Keys : k = Key(r) /\ k = Key(r)' /\ idem[k] # p
      BY <2>1, <2>2, <2>5, <3>1 DEF RoundInv
    <3>3. Outlived(r, p)'
      BY <2>4, <2>5, <3>1
    <3>4. idem'[k] # p
      BY <3>1, <3>2, CreateAssumption
    <3> QED BY <3>1, <3>2, <3>3, <3>4 DEF Outlived, Sent, Exists, SeesExpired
  <2>6. ASSUME pc[r] = "deleteKey", round[r] = 2
        PROVE  (\E p \in Requests \ {found[r]} : Outlived(r, p))'
    <3>1. PICK p \in Requests \ {found[r]} : Outlived(r, p)
      BY <2>2, <2>6 DEF RoundInv
    <3> QED BY <2>1, <2>4, <2>6, <3>1
  <2>7. ASSUME reply[r] = "retry"
        PROVE  (\E p, t \in Requests : p # t /\ Outlived(r, p) /\ Outlived(r, t))'
    <3>1. PICK p \in Requests, t \in Requests : p # t /\ Outlived(r, p) /\ Outlived(r, t)
      BY <2>2, <2>7 DEF RoundInv
    <3>2. pc[r] # "idle"
      BY <2>2, <2>7 DEF RequestInv
    <3> QED BY <2>4, <3>1, <3>2
  <2>8. RoundInv(r)'
    BY <2>1, <2>3, <2>5, <2>6, <2>7 DEF RoundInv
  <2>9. ASSUME pc'[r] = "lookup", idem'[Key(r)'] = Nobody PROVE GoneBecause(r)'
    <3>1. PICK k \in Keys : k = Key(r) /\ k = Key(r)'
      BY <2>1, <2>2, <2>9 DEF RequestInv
    <3>2. CASE idem[k] = Nobody
      BY <1>4, <2>1, <2>2, <2>9, <3>1, <3>2 DEF EvidenceInv
    <3>3. CASE pc[q] = "deleteKey" /\ Key(q) = k
      <4>1. Based(q) /\ SeesExpired(q, found[q])
        BY <3>3 DEF IInv, RequestInv
      <4>2. GoneBecause(r)
        BY <3>1, <3>3, <4>1 DEF GoneBecause, Based, Sent
      <4> QED BY <1>4, <2>1, <2>9, <4>2
    <3> QED BY <2>9, <3>1, <3>2, <3>3, CreateAssumption
  <2>10. (reply[r] = "missing" => GoneBecause(r))'
    BY <1>4, <2>1, <2>2 DEF EvidenceInv, RequestInv
  <2> QED BY <1>2, <1>3, <2>8, <2>9, <2>10 DEF EvidenceInv
<1>6. EvidenceInv(q)'
  <2>1. (pc[q] = "lookup" /\ idem[Key(q)] = Nobody => GoneBecause(q))'
    <3>1. pc'[q] = "lookup" => idem'[Key(q)'] # Nobody
      OBVIOUS
    <3> QED BY <3>1
  <2>2. (reply[q] = "missing" => GoneBecause(q))'
    <3>1. GoneBecause(q) /\ pc[q] # "idle" => GoneBecause(q)'
      BY <1>4
    <3> QED BY <3>1
  <2> QED BY <1>2, <1>3, <2>1, <2>2 DEF EvidenceInv
<1> QED BY <1>5, <1>6

\* A step that leaves the keys alone, and brings q to no statement about one.
LEMMA EvidenceQuiet ==
  ASSUME IInv, IInv', \A r \in Requests : EvidenceInv(r), NEW q \in Requests,
         \/ Receive(q) \/ Insert(q) \/ WriteAudit(q)
         \/ AckLost(q) /\ pc[q] = "insert"
  PROVE  \A r \in Requests : EvidenceInv(r)'
<1>1. Grow /\ Frame(q)
  BY ReceiveEffect, InsertEffect, WriteAuditEffect, InsertAckLostEffect DEF Effect
<1>2. /\ idem' = idem /\ sharing' = sharing /\ round' = round
      /\ pc[q] \in {"idle", "insert", "audit"}
  BY DEF Receive, Insert, WriteAudit, AckLost, keys, locals
<1>3. reply[q] = "none" /\ round[q] \in 1 .. 2 /\ (pc[q] = "idle" => round[q] = 1) /\ q \notin sharing
  BY <1>2 DEF IInv, RequestInv, TypeOK, SharingInv, EvidenceInv, RoundInv
<1>4. /\ pc'[q] \in {"done", "insert", "insertKey", "audit"}
      /\ pc'[q] = "insertKey" => pc[q] = "idle"
      /\ reply'[q] \in {"none", "badRequest", "created", "failed"}
  BY <1>2, <1>3 DEF Receive, Insert, WriteAudit, AckLost, Goto, Answer, IInv, TypeOK
<1>5. RoundInv(q)'
  BY <1>2, <1>3, <1>4 DEF RoundInv
<1> QED BY <1>1, <1>2, <1>3, <1>4, <1>5, EvidenceKept DEF Ended

LEMMA EvidenceInsertKey ==
  ASSUME IInv, IInv', \A r \in Requests : EvidenceInv(r), NEW q \in Requests, InsertKey(q)
  PROVE  \A r \in Requests : EvidenceInv(r)'
<1>1. Grow /\ Frame(q)
  BY InsertKeyEffect DEF Effect
<1>2. /\ idem' = idem /\ sharing' = sharing \ {q} /\ round' = round /\ found' = found
      /\ pc[q] = "insertKey" /\ input' = input /\ rows' = rows /\ now' = now
  BY DEF InsertKey, tables, locals
<1>3. reply[q] = "none" /\ RoundInv(q)
  BY <1>2 DEF IInv, RequestInv, EvidenceInv
<1>4. /\ reply'[q] = "none"
      /\ pc'[q] = "commit" \/ (pc'[q] = "lookup" /\ idem[Key(q)] # Nobody)
  BY <1>2, <1>3 DEF InsertKey, Goto, IInv, TypeOK
<1>5. Outlived(q, found[q]) => Outlived(q, found[q])'
  BY <1>1, <1>2 DEF Outlived, Grow, Sent, Key, Exists, SeesExpired
<1>6. RoundInv(q)'
  BY <1>2, <1>3, <1>4, <1>5 DEF RoundInv, Key
<1> QED BY <1>1, <1>2, <1>4, <1>6, EvidenceKept DEF Ended, Key

LEMMA EvidenceLookup ==
  ASSUME IInv, IInv', \A r \in Requests : EvidenceInv(r), NEW q \in Requests, Lookup(q)
  PROVE  \A r \in Requests : EvidenceInv(r)'
<1> DEFINE p == idem[Key(q)]
<1>1. Grow /\ Frame(q)
  BY LookupEffect DEF Effect
<1>2. /\ pc[q] = "lookup" /\ rows' = rows /\ idem' = idem /\ sharing' = sharing
      /\ round' = round /\ input' = input /\ now' = now
      /\ found' = [found EXCEPT ![q] = p]
  BY DEF Lookup, tables, keys
<1>3. /\ reply[q] = "none" /\ EvidenceInv(q) /\ RoundInv(q) /\ Key(q) \in Keys /\ q \notin sharing
      /\ found'[q] = p
  BY <1>2 DEF IInv, RequestInv, EvidenceInv, TypeOK, SharingInv
<1>4. \/ pc'[q] = "done" /\ reply'[q] = "missing" /\ p = Nobody
      \/ pc'[q] = "done" /\ reply'[q] \in {"replayed", "mismatch"}
      \/ pc'[q] = "deleteKey" /\ reply'[q] = "none"
  BY <1>2, <1>3 DEF Lookup, Verdict, Goto, Answer, IInv, TypeOK
<1>5. ASSUME pc'[q] = "deleteKey", round'[q] = 2
      PROVE  (\E o \in Requests \ {found[q]} : Outlived(q, o))'
  <2>1. PICK o \in Requests : Outlived(q, o) /\ o # p
    BY <1>2, <1>3, <1>5 DEF RoundInv, Outlived
  <2>2. Outlived(q, o)'
    BY <1>2, <2>1, <1>1, EvidenceStays
  <2> QED BY <1>3, <2>1, <2>2
<1>6. RoundInv(q)'
  BY <1>2, <1>4, <1>5 DEF RoundInv
<1>7. reply'[q] = "missing" => GoneBecause(q)
  BY <1>2, <1>3, <1>4 DEF EvidenceInv
<1> QED BY <1>1, <1>2, <1>3, <1>4, <1>6, <1>7, EvidenceKept DEF Ended

LEMMA EvidenceDelete ==
  ASSUME IInv, IInv', \A r \in Requests : EvidenceInv(r), NEW q \in Requests,
         DeleteKey(q) \/ (AckLost(q) /\ pc[q] = "deleteKey")
  PROVE  \A r \in Requests : EvidenceInv(r)'
<1> DEFINE waiters == {r \in Requests : pc[r] = "insertKey" /\ Key(r) = Key(q)}
<1>1. Grow /\ Frame(q)
  BY DeleteKeyEffect DEF Effect
<1>2. /\ pc[q] = "deleteKey" /\ idem' = [idem EXCEPT ![Key(q)] = Nobody] /\ rows' = rows
      /\ input' = input /\ now' = now /\ found' = found
      /\ Admit(waiters, q)
      /\ NextRound(q) \/ (Answer(q, "failed") /\ round' = round)
  BY DEF DeleteKey, DeleteRecord, AckLost, tables, locals
<1>3. /\ reply[q] = "none" /\ RoundInv(q) /\ Key(q) \in Keys /\ round[q] \in 1 .. 2
      /\ Based(q) /\ SeesExpired(q, found[q])
  BY <1>2 DEF IInv, RequestInv, EvidenceInv, TypeOK
<1>4. Outlived(q, found[q])
  BY <1>3 DEF Based, Outlived
<1>5. \/ /\ pc'[q] = "insertKey" /\ reply'[q] = "none" /\ round'[q] = 2
      \/ pc'[q] = "done" /\ reply'[q] = "retry" /\ round[q] = 2
      \/ pc'[q] = "done" /\ reply'[q] = "failed"
  BY <1>2, <1>3 DEF NextRound, Goto, Answer, IInv, TypeOK
<1>6. \A r \in Requests \ {q} : round'[r] = round[r]
  BY <1>2 DEF NextRound, IInv, TypeOK
<1>7. \A s \in sharing' : s # q /\ (s \in sharing \/ s \in waiters)
  BY <1>2 DEF Admit
<1>8. ASSUME NEW s \in sharing' \ sharing, NEW k \in Keys, Key(s) = k
      PROVE  Trouble(q, k)'
  <2>1. k = Key(q)
    BY <1>7, <1>8
  <2>2. Trouble(q, k)
    BY <1>2, <1>4, <2>1 DEF Trouble, Outlived, Sent
  <2> QED BY <1>1, <1>2, <2>2, TroubleStays DEF Ended
<1>9. \A p : Outlived(q, p) => Outlived(q, p)'
  BY <1>1, <1>2, EvidenceStays
<1>10. RoundInv(q)'
  <2>1. CASE pc'[q] = "insertKey"
    <3>1. Outlived(q, found[q])'
      BY <1>1, <1>2, <1>4 DEF Outlived, Grow, Sent, Key, Exists, SeesExpired
    <3>2. idem'[Key(q)'] = Nobody /\ found'[q] # Nobody /\ Key(q)' \in Keys
      BY <1>2, <1>3, <1>4, CreateAssumption DEF Outlived, Key, IInv, TypeOK
    <3> QED BY <1>5, <2>1, <3>1, <3>2 DEF RoundInv
  <2>2. CASE reply'[q] = "retry"
    <3>1. PICK o \in Requests : o # found[q] /\ Outlived(q, o)
      BY <1>2, <1>3, <1>5, <2>2 DEF RoundInv
    <3>2. PICK p \in Requests : p = found[q] /\ Outlived(q, p)
      BY <1>4 DEF Outlived
    <3>3. (\E a, b \in Requests : a # b /\ Outlived(q, a) /\ Outlived(q, b))'
      BY <1>9, <3>1, <3>2
    <3> QED BY <1>5, <2>2, <3>3 DEF RoundInv
  <2>3. CASE reply'[q] = "failed"
    BY <1>5, <2>3 DEF RoundInv
  <2> QED BY <1>5, <2>1, <2>2, <2>3
<1>11. \A k \in Keys : idem'[k] = idem[k] \/ (idem'[k] = Nobody /\ Key(q) = k)
  BY <1>2 DEF IInv, TypeOK
<1> QED BY <1>1, <1>2, <1>5, <1>6, <1>7, <1>8, <1>10, <1>11, EvidenceKept DEF Ended

\* The end of a transaction, and whatever fails.
LEMMA EvidenceEnd ==
  ASSUME IInv, IInv', \A r \in Requests : EvidenceInv(r), NEW q \in Requests,
         \/ Commit(q) \/ ValueRefused(q) \/ Deadlock(q) \/ StatementFails(q) \/ EndOrphan(q)
         \/ AckLost(q) /\ pc[q] = "commit"
  PROVE  \A r \in Requests : EvidenceInv(r)'
<1> DEFINE waiters ==
      {r \in Requests : pc[r] = "insertKey" /\ Key(r) \in Keys /\ lock[Key(r)] = q}
<1>1. Grow /\ Frame(q)
  BY CommitEffect, ReleaseEffect DEF Effect, EndOrphan
<1>2. /\ round' = round /\ pc[q] \in Running \cup {"orphan"}
      /\ \/ /\ CommitBoth(q) /\ pc[q] \in InTransaction
            /\ Goto(q, "audit") \/ Goto(q, "lost") \/ Answer(q, "failed")
         \/ /\ Admit(waiters, q) /\ idem' = idem
            /\ \/ Goto(q, "lost") \/ Answer(q, "failed") \/ Answer(q, "unfit")
               \/ Answer(q, "deadlock") /\ Deadlock(q)
  <2>1. Deadlock(q) => pc[q] \in {"insertKey", "deleteKey"}
    BY DEF Deadlock, InDeadlock, IInv, SharingInv
  <2>2. Deadlock(q) => /\ Admit(waiters, q) /\ idem' = idem /\ round' = round
                       /\ Answer(q, "deadlock")
    BY DEF Deadlock, Fails, Release, locals
  <2>3. ValueRefused(q) \/ StatementFails(q) =>
          /\ pc[q] \in Running /\ Admit(waiters, q) /\ idem' = idem /\ round' = round
          /\ Answer(q, "failed") \/ Answer(q, "unfit")
    BY DEF ValueRefused, StatementFails, Fails, Release, locals, Running
  <2>4. CASE Commit(q) \/ EndOrphan(q) \/ (AckLost(q) /\ pc[q] = "commit")
    BY <2>4 DEF Commit, EndOrphan, AckLost, Release, locals, Running, InTransaction
  <2> QED BY <2>1, <2>2, <2>3, <2>4 DEF Running
<1>3. reply[q] = "none" /\ round[q] \in 1 .. 2
  BY <1>2 DEF IInv, RequestInv, TypeOK, Running
<1>4. /\ pc'[q] \in {"audit", "lost", "done"}
      /\ reply'[q] \in {"none", "failed", "unfit", "deadlock"}
      /\ reply'[q] = "deadlock" => Deadlock(q)
  BY <1>2, <1>3 DEF Goto, Answer, IInv, TypeOK
<1>5. q \notin sharing'
  BY <1>4 DEF IInv, SharingInv
<1>6. RoundInv(q)'
  BY <1>4 DEF RoundInv
<1>7. \A k \in Keys : idem'[k] = idem[k] \/ (idem'[k] = q /\ ~Exists(q))
  BY <1>2 DEF CommitBoth, IInv, RequestInv, TypeOK
<1>8. ASSUME NEW s \in sharing' \ sharing, NEW k \in Keys, Key(s) = k
      PROVE  Trouble(q, k)'
  <2>1. s \in waiters /\ lock[k] = q
    BY <1>2, <1>8 DEF CommitBoth, Admit
  <2>2. Sent(q, k) /\ pc[q] \in InTransaction
    BY <2>1, CreateAssumption DEF IInv, KeyInv
  <2>3. Sent(q, k)'
    BY <1>1, <2>2 DEF Grow, Sent, Key
  <2>4. ~Deadlock(q) /\ ~CommitBoth(q)
    BY <1>8, <2>2 DEF Deadlock, InDeadlock, IInv, SharingInv, InTransaction, CommitBoth
  <2>5. pc'[q] = "lost" \/ reply'[q] \in {"failed", "unfit"}
    BY <1>2, <1>3, <2>4 DEF Goto, Answer, IInv, TypeOK
  <2> QED BY <2>3, <2>5 DEF Trouble
<1>9. ASSUME Deadlock(q) PROVE pc[q] # "idle" /\ \E t \in Requests : Trouble(t, Key(q))
  <2>1. PICK s \in sharing : Key(s) = Key(q) \/ s = q
    BY <1>9 DEF Deadlock, InDeadlock
  <2>2. \E t \in Requests : Trouble(t, Key(s))
    BY <2>1 DEF EvidenceInv, IInv, TypeOK
  <2>3. pc[q] # "idle"
    BY <1>2 DEF Running
  <2> QED BY <2>1, <2>2, <2>3
<1> QED BY <1>1, <1>2, <1>4, <1>5, <1>6, <1>7, <1>8, <1>9, EvidenceKept DEF Ended, Running

\* The crash, the clock, and a step that changes nothing.
LEMMA EvidenceRest ==
  ASSUME IInv, \A r \in Requests : EvidenceInv(r),
         UNCHANGED <<rows, idem, input, now, round, found, reply>>,
         sharing' \subseteq sharing,
         \A r \in Requests :
           pc'[r] = pc[r] \/ (pc[r] \in Running /\ pc'[r] \in {"orphan", "lost"})
  PROVE  \A r \in Requests : EvidenceInv(r)'
<1>1. Grow
  BY DEF Grow, Running
<1>2. ASSUME NEW r \in Requests PROVE EvidenceInv(r)'
  <2>1. EvidenceInv(r) /\ RequestInv(r) /\ Key(r)' = Key(r)
    BY DEF IInv, Key
  <2>2. RoundInv(r)'
    <3>1. \A p : pc[r] # "idle" /\ Outlived(r, p) => Outlived(r, p)'
      BY <1>1, EvidenceStays
    <3>2. pc[r] # "idle" /\ Outlived(r, found[r]) => Outlived(r, found[r])'
      BY <1>1 DEF Outlived, Grow, Sent, Key, Exists, SeesExpired
    <3>3. RoundInv(r) /\ (reply[r] = "retry" => pc[r] # "idle")
      BY <2>1 DEF EvidenceInv, RequestInv
    <3> QED BY <2>1, <3>1, <3>2, <3>3 DEF RoundInv, Running
  <2>3. pc[r] # "idle" /\ GoneBecause(r) => GoneBecause(r)'
    BY <1>1, EvidenceStays
  <2>4. ASSUME r \in sharing' \/ reply'[r] = "deadlock"
        PROVE  (\E t \in Requests : Trouble(t, Key(r)))'
    <3>1. PICK t \in Requests : Trouble(t, Key(r))
      BY <2>1, <2>4 DEF EvidenceInv
    <3>2. PICK k : k = Key(r) /\ k = Key(r)'
      BY <2>1
    <3>3. Trouble(t, k)'
      BY <1>1, <3>1, <3>2, TroubleStays DEF Running, Ended
    <3> QED BY <3>2, <3>3 DEF Trouble, Sent
  <2> QED BY <2>1, <2>2, <2>3, <2>4 DEF EvidenceInv, RequestInv, Running
<1> QED BY <1>2

LEMMA EvidenceNext ==
  IInv /\ IInv' /\ (\A r \in Requests : EvidenceInv(r)) /\ [Next]_vars
    => (\A r \in Requests : EvidenceInv(r))'
<1> SUFFICES ASSUME IInv, IInv', \A r \in Requests : EvidenceInv(r), [Next]_vars
             PROVE  \A r \in Requests : EvidenceInv(r)'
  OBVIOUS
<1>1. CASE UNCHANGED vars \/ Tick
  BY <1>1, EvidenceRest DEF vars, Tick, tables, keys, locals
<1>2. CASE Crash
  <2>1. \A r \in Requests :
          pc'[r] = pc[r] \/ (pc[r] \in Running /\ pc'[r] \in {"orphan", "lost"})
    BY <1>2 DEF Crash, Running
  <2>2. UNCHANGED <<rows, idem, input, now, round, found, reply>> /\ sharing' \subseteq sharing
    BY <1>2 DEF Crash, tables, locals
  <2> QED BY <2>1, <2>2, EvidenceRest
<1>3. ASSUME NEW q \in Requests, Receive(q) \/ Step(q)
      PROVE  \A r \in Requests : EvidenceInv(r)'
  <2>1. AckLost(q) => pc[q] \in {"insert", "commit", "deleteKey"}
    BY DEF AckLost
  <2> QED BY <1>3, <2>1, EvidenceQuiet, EvidenceInsertKey, EvidenceLookup, EvidenceDelete,
             EvidenceEnd DEF Step
<1> QED BY <1>1, <1>2, <1>3 DEF Next

\* However requests contend for a key, and whatever fails or dies: "please
\* retry" takes two records that had expired, a record gone at its look-up takes
\* another request that found one expired, and a deadlock takes a request of the
\* key that was rolled back, lost or found a record expired.
THEOREM RefusalsAreEarned == Spec => []NoSpuriousRefusal
<1>1. Init => \A r \in Requests : EvidenceInv(r)
  BY DEF Init, EvidenceInv, RoundInv
<1>2. (\A r \in Requests : EvidenceInv(r)) => NoSpuriousRefusal
  BY DEF EvidenceInv, RoundInv, GoneBecause, Outlived, NoSpuriousRefusal
<1> QED BY <1>1, <1>2, Invariance, EvidenceNext, PTL DEF Spec

-----------------------------------------------------------------------------
(* The refinement of IdempotencyLedger.                                    *)

\* What was made stays as it was made; rows that stay make nothing new.
LEMMA MadeStays ==
  ASSUME IInv, Grow, \A id \in Ids \ Requests : ~Exists(id) /\ ~Exists(id)',
         NEW S \in SUBSET Ids, \A id \in S : rows'[id] = rows[id]
  PROVE  \A id \in S : made'[id] = made[id]
<1>1. SUFFICES ASSUME NEW id \in S PROVE made'[id] = made[id]
  OBVIOUS
<1>2. Exists(id)' <=> Exists(id)
  BY DEF Exists
<1>3. CASE Exists(id)
  <2>1. id \in Requests /\ pc[id] # "idle"
    BY <1>3 DEF IInv, RequestInv
  <2>2. input'[id] = input[id] /\ now'[id] = now[id]
    BY <2>1 DEF Grow
  <2> QED BY <1>2, <1>3, <2>2 DEF made, Key
<1>4. CASE ~Exists(id)
  BY <1>2, <1>4 DEF made
<1> QED BY <1>3, <1>4

\* A row that appears makes its disbursement, at the time its request came in.
LEMMA InsertMakes ==
  ASSUME IInv, NEW q \in Requests, pc[q] # "idle", ~Exists(q), Grow, input' = input, now' = now,
         InsertDisbursement(q, PendingRow(input[q].note)),
         NEW key \in Keys \cup {NoKey}, Key(q) = key
  PROVE  Ledger!Make(q, key)
<1>1. /\ rows'[q] = PendingRow(input[q].note) /\ Exists(q)'
      /\ \A i \in Ids : i # q => rows'[i] = rows[i]
      /\ \A id \in Ids \ Requests : ~Exists(id)'
  BY InsertFacts
<1>2. q \in Ids /\ now[q] \in 0 .. clock /\ Key(q)' = Key(q)
  BY CreateAssumption DEF IInv, RequestInv, TypeOK, Key
<1>3. \A id \in Ids \ {q} : made'[id] = made[id]
  <2>1. \A id \in Ids \ Requests : ~Exists(id)
    BY DEF IInv
  <2> QED BY <1>1, <2>1, MadeStays
<1>4. made'[q] = [key |-> key, at |-> now[q], exists |-> TRUE]
  BY <1>1, <1>2 DEF made
<1>5. made' = [made EXCEPT ![q] = [key |-> key, at |-> now[q], exists |-> TRUE]]
  BY <1>2, <1>3, <1>4 DEF made
<1>6. ~made[q].exists
  BY <1>2 DEF made
<1> QED BY <1>2, <1>5, <1>6 DEF Ledger!Make

LEMMA InitImplementsInit == Init => Ledger!Init
<1>1. SUFFICES ASSUME Init PROVE Ledger!Init
  OBVIOUS
<1>2. \A id \in Ids : ~Exists(id)
  BY <1>1, NoRowFacts DEF Init, Exists
<1>3. made = [id \in Ids |-> [key |-> NoKey, at |-> 0, exists |-> FALSE]]
  BY <1>2 DEF made
<1> QED BY <1>1, <1>3 DEF Init, Ledger!Init, Ledger!Unmade

LEMMA NextImplementsNext == IInv /\ [Next]_vars => [Ledger!Next]_(Ledger!ledger)
<1>1. SUFFICES ASSUME IInv, [Next]_vars PROVE [Ledger!Next]_(Ledger!ledger)
  OBVIOUS
<1>2. ASSUME NEW q \in Requests,
             \/ Receive(q) \/ Lookup(q) \/ WriteAudit(q) \/ InsertKey(q)
             \/ ValueRefused(q) \/ Deadlock(q) \/ StatementFails(q)
      PROVE  UNCHANGED Ledger!ledger
  <2>1. rows' = rows /\ idem' = idem /\ clock' = clock
    BY <1>2 DEF Receive, Lookup, WriteAudit, InsertKey, ValueRefused, Deadlock, StatementFails,
                Fails, tables, keys
  <2>2. Grow /\ \A id \in Ids \ Requests : ~Exists(id) /\ ~Exists(id)'
    BY <1>1, <1>2, ReceiveEffect, LookupEffect, WriteAuditEffect, InsertKeyEffect, ReleaseEffect
    DEF Effect, IInv
  <2>3. \A id \in Ids : made'[id] = made[id]
    BY <1>1, <2>1, <2>2, MadeStays
  <2> QED BY <2>1, <2>3 DEF Ledger!ledger, made
<1>3. ASSUME NEW q \in Requests, Insert(q) \/ (AckLost(q) /\ pc[q] = "insert")
      PROVE  Ledger!Next
  <2>1. /\ pc[q] = "insert" /\ InsertDisbursement(q, PendingRow(input[q].note))
        /\ idem' = idem /\ clock' = clock /\ input' = input /\ now' = now
    BY <1>3 DEF Insert, AckLost, keys, locals
  <2>2. Key(q) = NoKey /\ ~Exists(q) /\ q \in Ids
    BY <1>1, <2>1, CreateAssumption DEF IInv, RequestInv
  <2>3. Grow
    BY <1>1, <1>3, InsertEffect, InsertAckLostEffect DEF Effect
  <2>4. Ledger!Make(q, NoKey)
    BY <1>1, <2>1, <2>2, <2>3, InsertMakes
  <2> QED BY <2>1, <2>2, <2>4 DEF Ledger!Next, Ledger!Plain
<1>4. ASSUME NEW q \in Requests,
             Commit(q) \/ (AckLost(q) /\ pc[q] = "commit") \/ (EndOrphan(q) /\ CommitBoth(q))
      PROVE  Ledger!Next
  <2>1. /\ pc[q] \in InTransaction /\ InsertDisbursement(q, PendingRow(input[q].note))
        /\ idem' = [idem EXCEPT ![Key(q)] = q]
        /\ clock' = clock /\ input' = input /\ now' = now
    BY <1>4 DEF Commit, AckLost, EndOrphan, CommitBoth, locals, InTransaction
  <2>2. PICK key \in Keys : key = Key(q)
    BY <1>1, <2>1 DEF IInv, RequestInv
  <2>3. pc[q] # "idle" /\ ~Exists(q) /\ q \in Ids /\ idem[key] = Nobody
    BY <1>1, <2>1, <2>2, CreateAssumption DEF IInv, RequestInv, KeyInv, InTransaction
  <2>4. Grow
    BY <1>1, <1>4, CommitEffect DEF Effect
  <2>5. Ledger!Make(q, key)
    BY <1>1, <2>1, <2>2, <2>3, <2>4, InsertMakes
  <2> QED BY <2>1, <2>2, <2>3, <2>5 DEF Ledger!Next, Ledger!Accept
<1>5. ASSUME NEW q \in Requests, DeleteKey(q) \/ (AckLost(q) /\ pc[q] = "deleteKey")
      PROVE  [Ledger!Next]_(Ledger!ledger)
  <2>1. /\ pc[q] = "deleteKey" /\ rows' = rows /\ clock' = clock
        /\ idem' = [idem EXCEPT ![Key(q)] = Nobody]
    BY <1>5 DEF DeleteKey, DeleteRecord, AckLost, tables
  <2>2. PICK key \in Keys : key = Key(q)
    BY <1>1, <2>1 DEF IInv, RequestInv
  <2>3. Based(q) /\ SeesExpired(q, found[q]) /\ now[q] <= clock /\ pc[q] # "idle"
    BY <1>1, <2>1 DEF IInv, RequestInv
  <2>4. Grow /\ \A id \in Ids \ Requests : ~Exists(id) /\ ~Exists(id)'
    BY <1>1, <1>5, DeleteKeyEffect DEF Effect, IInv
  <2>5. \A id \in Ids : made'[id] = made[id]
    BY <1>1, <2>1, <2>4, MadeStays
  <2>6. made' = made
    BY <2>5 DEF made
  <2>7. found[q] \in Ids /\ made[found[q]].exists /\ made[found[q]].key = key
        /\ made[found[q]].at = now[found[q]]
    BY <2>2, <2>3, CreateAssumption DEF Based, made, Sent
  <2>8. clock > made[found[q]].at + TTL
    BY <1>1, <2>3, <2>7, CreateAssumption DEF SeesExpired, Based, IInv, TypeOK
  <2>9. CASE idem[key] = Nobody
    <3>1. idem' = idem
      BY <1>1, <2>1, <2>2, <2>9 DEF IInv, TypeOK
    <3> QED BY <2>1, <2>6, <3>1 DEF Ledger!ledger
  <2>10. CASE idem[key] # Nobody
    <3>1. Ledger!Forget(key)
      BY <2>1, <2>2, <2>6, <2>7, <2>8, <2>10 DEF Ledger!Forget, Ledger!Expired
    <3> QED BY <3>1 DEF Ledger!Next
  <2> QED BY <2>9, <2>10
<1>6. ASSUME NEW q \in Requests, EndOrphan(q), Release(q), rows' = rows, idem' = idem
      PROVE  UNCHANGED Ledger!ledger
  <2>1. clock' = clock
    BY <1>6 DEF EndOrphan
  <2>2. Grow /\ \A id \in Ids \ Requests : ~Exists(id) /\ ~Exists(id)'
    BY <1>1, <1>6, ReleaseEffect DEF Effect, IInv
  <2>3. \A id \in Ids : made'[id] = made[id]
    BY <1>1, <1>6, <2>2, MadeStays
  <2> QED BY <1>6, <2>1, <2>3 DEF Ledger!ledger, made
<1>7. CASE Crash \/ UNCHANGED vars
  <2>1. rows' = rows /\ idem' = idem /\ clock' = clock /\ input' = input /\ now' = now
    BY <1>7 DEF Crash, vars, tables, keys, locals
  <2> QED BY <2>1 DEF Ledger!ledger, made, Exists, Key
<1>8. CASE Tick
  <2>1. rows' = rows /\ idem' = idem /\ clock' = clock + 1 /\ input' = input /\ now' = now
    BY <1>8 DEF Tick, tables, keys, locals
  <2>2. Ledger!Tick
    BY <2>1 DEF Ledger!Tick, made, Exists, Key
  <2> QED BY <2>2 DEF Ledger!Next
<1>9. ASSUME NEW q \in Requests, AckLost(q) \/ EndOrphan(q)
      PROVE  [Ledger!Next]_(Ledger!ledger)
  <2>1. AckLost(q) => pc[q] \in {"insert", "commit", "deleteKey"}
    BY DEF AckLost
  <2>2. EndOrphan(q) => CommitBoth(q) \/ (Release(q) /\ rows' = rows /\ idem' = idem)
    BY DEF EndOrphan
  <2> QED BY <1>3, <1>4, <1>5, <1>6, <1>9, <2>1, <2>2
<1> QED BY <1>1, <1>2, <1>3, <1>4, <1>5, <1>7, <1>8, <1>9 DEF Next, Step

\* POST /disbursements implements IdempotencyLedger: keys and disbursements
\* are recorded together, and a record is forgotten only after an expiry.
THEOREM ImplementsLedger == Spec => LedgerSpec
<1>1. Init => Ledger!Init
  BY InitImplementsInit
<1>2. IInv /\ [Next]_vars => [Ledger!Next]_(Ledger!ledger)
  BY NextImplementsNext
<1> QED BY <1>1, <1>2, Invariance, PTL DEF Spec, LedgerSpec, Ledger!Spec

-----------------------------------------------------------------------------
(* Why requests end: nobody goes round for ever, and whoever waits, waits  *)
(* for somebody who does not.                                              *)

\* How many steps a request may still take at a label of round n, the most
\* there are: look-up, DELETE, second INSERT, look-up, DELETE.
StepsFrom(label, n) ==
  CASE label = "idle" -> 7
    [] label = "insertKey" -> 3 + 3 * (2 - n)
    [] label = "lookup" -> 2 + 3 * (2 - n)
    [] label = "deleteKey" -> 1 + 3 * (2 - n)
    [] label \in {"insert", "commit"} -> 2
    [] label \in {"audit", "orphan"} -> 1
    [] label \in Ended -> 0

StepsLeft(r) == StepsFrom(pc[r], round[r])

WindDown ==
  \A r \in Requests :
    /\ StepsLeft(r)' <= StepsLeft(r)
    /\ Step(r) => StepsLeft(r)' < StepsLeft(r)

Waits(r) ==
  \/ /\ pc[r] = "insertKey" /\ Key(r) \in Keys
     /\ ~Free(Key(r)) \/ ~(Sharers(Key(r)) \subseteq {r})
  \/ pc[r] = "deleteKey" /\ ~Free(Key(r))

\* k is held by a request that waits for nobody.
Held(k) ==
  LET q == lock[k]
  IN q \in Requests /\ ~Waits(q) /\ pc[q] \in {"commit", "orphan"} /\ ~Exists(q)

WaitsAreShort ==
  \A r \in Requests : Waits(r) =>
    \/ Held(Key(r)) /\ lock[Key(r)] # r
    \/ \E q \in Sharers(Key(r)) : ~Waits(q) \/ InDeadlock(q)

\* StepsFrom at every label.
LEMMA StepsValues ==
  ASSUME NEW n \in 1 .. 2
  PROVE  /\ StepsFrom("idle", n) = 7
         /\ StepsFrom("insertKey", n) = 3 + 3 * (2 - n)
         /\ StepsFrom("lookup", n) = 2 + 3 * (2 - n)
         /\ StepsFrom("deleteKey", n) = 1 + 3 * (2 - n)
         /\ StepsFrom("insert", n) = 2 /\ StepsFrom("commit", n) = 2
         /\ StepsFrom("audit", n) = 1 /\ StepsFrom("orphan", n) = 1
         /\ StepsFrom("done", n) = 0 /\ StepsFrom("lost", n) = 0
  BY DEF StepsFrom, Ended

Labels == {"idle", "orphan"} \cup Running \cup Ended

LEMMA StepsNat ==
  ASSUME NEW label \in Labels, NEW n \in 1 .. 2
  PROVE  StepsFrom(label, n) \in Nat
<1>1. n = 1 \/ n = 2
  OBVIOUS
<1> QED BY <1>1, StepsValues DEF Labels, Running, Ended

\* A request that moves gets nearer to its end.
LEMMA StepWindsDown ==
  ASSUME IInv, NEW q \in Requests, Receive(q) \/ Step(q)
  PROVE  StepsLeft(q)' < StepsLeft(q)
<1>1. round[q] \in 1 .. 2 /\ (round[q] = 1 \/ round[q] = 2)
  BY DEF IInv, TypeOK
<1>2. pc \in [Requests -> Labels] /\ round \in [Requests -> 1 .. 2]
  BY DEF IInv, TypeOK, Labels
<1>3. CASE Receive(q)
  <2>1. pc[q] = "idle" /\ pc'[q] \in {"done", "insert", "insertKey"} /\ round' = round
    BY <1>2, <1>3 DEF Receive, Answer, Goto
  <2> QED BY <1>1, <2>1, StepsValues DEF StepsLeft
<1>4. CASE Insert(q) \/ Commit(q)
  <2>1. pc[q] \in {"insert", "commit"} /\ pc'[q] = "audit" /\ round' = round
    BY <1>2, <1>4 DEF Insert, Commit, Goto, locals
  <2> QED BY <1>1, <2>1, StepsValues DEF StepsLeft
<1>5. CASE InsertKey(q)
  <2>1. pc[q] = "insertKey" /\ pc'[q] \in {"commit", "lookup"} /\ round' = round
    BY <1>2, <1>5 DEF InsertKey, Goto, locals
  <2> QED BY <1>1, <2>1, StepsValues DEF StepsLeft
<1>6. CASE Lookup(q)
  <2>1. pc[q] = "lookup" /\ pc'[q] \in {"deleteKey", "done"} /\ round' = round
    BY <1>2, <1>6 DEF Lookup, Goto, Answer
  <2> QED BY <1>1, <2>1, StepsValues DEF StepsLeft
<1>7. CASE DeleteKey(q)
  <2>1. CASE round[q] = 1
    <3>1. pc[q] = "deleteKey" /\ pc'[q] = "insertKey" /\ round'[q] = 2
      BY <1>2, <1>7, <2>1 DEF DeleteKey, NextRound, Goto
    <3> QED BY <2>1, <3>1, StepsValues DEF StepsLeft
  <2>2. CASE round[q] # 1
    <3>1. pc[q] = "deleteKey" /\ pc'[q] = "done" /\ round' = round
      BY <1>2, <1>7, <2>2 DEF DeleteKey, NextRound, Answer
    <3> QED BY <1>1, <3>1, StepsValues DEF StepsLeft
  <2> QED BY <2>1, <2>2
<1>8. CASE WriteAudit(q) \/ ValueRefused(q) \/ Deadlock(q) \/ StatementFails(q) \/ AckLost(q)
  <2>1. Deadlock(q) => pc[q] \in {"insertKey", "deleteKey"}
    BY DEF Deadlock, InDeadlock, IInv, SharingInv
  <2>2. pc[q] \in Running
    BY <1>8, <2>1 DEF WriteAudit, ValueRefused, StatementFails, AckLost, Running
  <2>3. pc'[q] = "done" /\ round' = round
    BY <1>2, <1>8 DEF WriteAudit, ValueRefused, Deadlock, StatementFails, Fails, AckLost,
                      Answer,
                      locals
  <2> QED BY <1>1, <2>2, <2>3, StepsValues DEF StepsLeft, Running
<1>9. CASE EndOrphan(q)
  <2>1. pc[q] = "orphan" /\ pc'[q] = "lost" /\ round' = round
    BY <1>2, <1>9 DEF EndOrphan, Goto, locals
  <2> QED BY <1>1, <2>1, StepsValues DEF StepsLeft
<1> QED BY <1>3, <1>4, <1>5, <1>6, <1>7, <1>8, <1>9 DEF Step

\* It is nobody else's step.
LEMMA OthersStand ==
  ASSUME TypeOK, NEW q \in Requests, Receive(q) \/ Step(q)
  PROVE  \A r \in Requests \ {q} : pc'[r] = pc[r] /\ round'[r] = round[r]
<1>1. \A label : Goto(q, label) => \A r \in Requests \ {q} : pc'[r] = pc[r]
  BY DEF Goto, TypeOK
<1>2. \A what : Answer(q, what) => \A r \in Requests \ {q} : pc'[r] = pc[r]
  BY DEF Answer, TypeOK
<1>3. CASE Receive(q)
  BY <1>1, <1>2, <1>3 DEF Receive
<1>4. CASE DeleteKey(q)
  BY <1>1, <1>2, <1>4 DEF DeleteKey, NextRound, TypeOK
<1>5. CASE Insert(q) \/ InsertKey(q) \/ Commit(q) \/ Lookup(q) \/ WriteAudit(q)
  BY <1>1, <1>2, <1>5 DEF Insert, InsertKey, Commit, Lookup, WriteAudit, locals
<1>6. CASE ValueRefused(q) \/ Deadlock(q) \/ StatementFails(q) \/ AckLost(q) \/ EndOrphan(q)
  BY <1>1, <1>2, <1>6 DEF ValueRefused, Deadlock, StatementFails, Fails, AckLost, EndOrphan,
                          locals
<1> QED BY <1>3, <1>4, <1>5, <1>6 DEF Step

LEMMA NextWindsDown == IInv /\ IInv' /\ [Next]_vars => [WindDown]_vars
<1> SUFFICES ASSUME IInv, IInv', TypeOK, TypeOK', [Next]_vars, NEW r \in Requests, ~UNCHANGED vars
             PROVE  /\ StepsLeft(r)' <= StepsLeft(r)
                    /\ Step(r) => StepsLeft(r)' < StepsLeft(r)
  BY DEF WindDown, IInv
<1>1. StepsLeft(r) \in Nat
  BY StepsNat DEF StepsLeft, TypeOK, Labels
<1>2. Step(r) => StepsLeft(r)' < StepsLeft(r)
  BY StepWindsDown
<1>3. ASSUME NEW q \in Requests, Receive(q) \/ Step(q) PROVE StepsLeft(r)' <= StepsLeft(r)
  <2>1. CASE q = r
    <3>1. StepsLeft(r)' \in Nat
      BY StepsNat DEF StepsLeft, TypeOK, Labels
    <3> QED BY <1>1, <1>3, <2>1, <3>1, StepWindsDown
  <2>2. CASE q # r
    <3>1. StepsLeft(r)' = StepsLeft(r)
      BY <1>3, <2>2, OthersStand DEF StepsLeft
    <3> QED BY <1>1, <3>1
  <2> QED BY <2>1, <2>2
<1>4. CASE Crash
  <2>1. /\ pc'[r] = CASE pc[r] = "commit" -> "orphan"
                      [] pc[r] \in Running \ {"commit"} -> "lost"
                      [] OTHER -> pc[r]
        /\ round'[r] = round[r] /\ round[r] \in 1 .. 2
    BY <1>4 DEF Crash, locals, TypeOK
  <2>2. CASE pc[r] = "commit"
    <3>1. pc'[r] = "orphan"
      BY <2>1, <2>2
    <3> QED BY <1>2, <2>1, <2>2, <3>1, StepsValues DEF StepsLeft
  <2>3. CASE pc[r] \in Running \ {"commit"}
    <3>1. pc'[r] = "lost"
      BY <2>1, <2>3
    <3>2. StepsLeft(r)' = 0
      BY <2>1, <3>1, StepsValues DEF StepsLeft
    <3> QED BY <1>1, <1>2, <3>2
  <2>4. CASE pc[r] \notin Running
    <3>1. pc'[r] = pc[r]
      BY <2>1, <2>4 DEF Running
    <3>2. StepsLeft(r)' = StepsLeft(r)
      BY <2>1, <3>1 DEF StepsLeft
    <3> QED BY <1>1, <1>2, <3>2
  <2> QED BY <2>2, <2>3, <2>4
<1>5. CASE Tick
  <2>1. StepsLeft(r)' = StepsLeft(r)
    BY <1>5 DEF Tick, locals, StepsLeft
  <2> QED BY <1>1, <1>2, <2>1
<1> QED BY <1>2, <1>3, <1>4, <1>5 DEF Next

\* However requests contend for a key, and whatever fails, each comes nearer
\* to its end with every statement of its own, and nobody else's statement, no
\* crash and no tick of the clock puts it back: seven steps are the most that
\* a POST takes ("for range 2" and not "for").
THEOREM RequestsWindDown == Spec => [][WindDown]_vars
  BY NextWindsDown, Invariance, PTL DEF Spec

\* Whoever waits for a key waits for the transaction that holds it, which is at
\* its COMMIT, waits for nobody and finds its id free; or for those that share
\* it, one of which can go on: it is the only one, or InnoDB rolls it back.
THEOREM WaitsEnd == Spec => []WaitsAreShort
<1>1. ASSUME IInv, NEW r \in Requests, Waits(r)
      PROVE  \/ Held(Key(r)) /\ lock[Key(r)] # r
             \/ \E q \in Sharers(Key(r)) : ~Waits(q) \/ InDeadlock(q)
  <2>1. Key(r) \in Keys /\ lock[Key(r)] \in Requests \cup {Nobody}
    BY <1>1 DEF Waits, IInv, RequestInv, TypeOK
  <2>2. CASE ~Free(Key(r))
    <3> DEFINE q == lock[Key(r)]
    <3>1. q \in Requests /\ pc[q] \in InTransaction
      BY <1>1, <2>1, <2>2 DEF Free, IInv, KeyInv
    <3>2. ~Exists(q) /\ ~Waits(q) /\ q # r
      BY <1>1, <3>1 DEF IInv, RequestInv, Waits, InTransaction
    <3> QED BY <3>1, <3>2 DEF Held, InTransaction
  <2>3. CASE Free(Key(r))
    <3>1. PICK q \in Sharers(Key(r)) : q # r
      BY <1>1, <2>3 DEF Waits
    <3>2. q \in sharing /\ q \in Requests /\ Key(q) = Key(r) /\ pc[q] = "insertKey"
      BY <1>1, <3>1 DEF Sharers, IInv, TypeOK, SharingInv
    <3>3. CASE Sharers(Key(r)) \subseteq {q}
      BY <2>3, <3>1, <3>2, <3>3 DEF Waits
    <3>4. CASE ~(Sharers(Key(r)) \subseteq {q})
      <4>1. PICK p \in sharing : p # q /\ p \in Requests
        BY <1>1, <3>4 DEF Sharers, IInv, TypeOK
      <4> QED BY <3>1, <3>2, <4>1 DEF InDeadlock
    <3> QED BY <3>3, <3>4
  <2> QED BY <2>2, <2>3
<1>2. IInv => WaitsAreShort
  BY <1>1 DEF WaitsAreShort
<1> QED BY <1>2, Invariance, PTL

-----------------------------------------------------------------------------
(* Requests one at a time.  A disbursement that the record of its key does *)
(* not stand for has expired, and for whoever is about to make another one *)
(* under the key it had expired when that request came in.                 *)

\* A request with one of these labels may still create something.
OnTheWay == {"insertKey", "lookup", "deleteKey"} \cup InTransaction

Superseded(q, k) == Sent(q, k) /\ Exists(q) /\ idem[k] # q

Apart(q, r) == SeesExpired(q, r) \/ SeesExpired(r, q)

Alone == \A q, r \in Requests : pc[q] \in Running /\ pc[r] \in Running => q = r

KeyFits(k) ==
  /\ \A q \in Requests : Superseded(q, k) =>
       /\ clock > now[q] + TTL
       /\ \A r \in Requests : pc[r] \in OnTheWay /\ Key(r) = k => SeesExpired(r, q)
  /\ \A q, r \in Requests :
       Sent(q, k) /\ Sent(r, k) /\ Exists(q) /\ Exists(r) /\ q # r => Apart(q, r)

\* Whoever looks a record up finds one, and after its DELETE the key is free.
AskFits(r) ==
  /\ pc[r] = "idle" => round[r] = 1
  /\ pc[r] = "lookup" => idem[Key(r)] # Nobody /\ round[r] = 1
  /\ pc[r] = "deleteKey" => idem[Key(r)] = found[r] /\ round[r] = 1
  /\ pc[r] = "insertKey" /\ round[r] = 2 =>
       Key(r) \in Keys /\ idem[Key(r)] = Nobody /\ lock[Key(r)] = Nobody
  /\ reply[r] \notin {"retry", "missing", "deadlock"}

SerialInv ==
  /\ Alone
  /\ \A k \in Keys : KeyFits(k)
  /\ \A r \in Requests : AskFits(r)

-----------------------------------------------------------------------------
(* What steps leave alone.                                                 *)

\* A key keeps its part when its record stays, nothing is made under it, and
\* who sets out for it does so now.
LEMMA KeyFitsStays ==
  ASSUME IInv, NEW k \in Keys, KeyFits(k), Grow, clock' \in Nat, clock' >= clock,
         idem'[k] = idem[k],
         \A r \in Requests : Sent(r, k)' /\ Exists(r)' => Sent(r, k) /\ Exists(r),
         \A r \in Requests : pc'[r] \in OnTheWay /\ Key(r)' = k =>
           \/ pc[r] \in OnTheWay /\ Key(r) = k /\ now'[r] = now[r]
           \/ now'[r] = clock
  PROVE  KeyFits(k)'
<1>1. clock \in Nat /\ TTL \in Nat /\ now \in [Requests -> Nat]
  BY CreateAssumption DEF IInv, TypeOK
<1>2. ASSUME NEW q \in Requests, Sent(q, k), Exists(q)
      PROVE  now'[q] = now[q]
  BY <1>2 DEF Grow, Sent
<1>3. ASSUME NEW q \in Requests, Superseded(q, k)'
      PROVE  /\ clock' > now'[q] + TTL
             /\ \A r \in Requests : pc'[r] \in OnTheWay /\ Key(r)' = k => SeesExpired(r, q)'
  <2>1. Superseded(q, k)
    BY <1>3 DEF Superseded
  <2>2. now'[q] = now[q]
    BY <1>2, <2>1 DEF Superseded
  <2>3. clock > now[q] + TTL
    BY <2>1 DEF KeyFits
  <2>4. clock' > now'[q] + TTL
    BY <1>1, <2>2, <2>3
  <2>5. ASSUME NEW r \in Requests, pc'[r] \in OnTheWay /\ Key(r)' = k
        PROVE  SeesExpired(r, q)'
    <3>1. CASE pc[r] \in OnTheWay /\ Key(r) = k /\ now'[r] = now[r]
      <4>1. SeesExpired(r, q)
        BY <2>1, <3>1 DEF KeyFits
      <4> QED BY <2>2, <3>1, <4>1 DEF SeesExpired
    <3>2. CASE now'[r] = clock
      BY <2>2, <2>3, <3>2 DEF SeesExpired
    <3> QED BY <2>5, <3>1, <3>2
  <2> QED BY <2>4, <2>5
<1>4. ASSUME NEW q \in Requests, NEW r \in Requests, q # r,
             Sent(q, k)', Sent(r, k)', Exists(q)', Exists(r)'
      PROVE  Apart(q, r)'
  <2>1. Sent(q, k) /\ Exists(q) /\ Sent(r, k) /\ Exists(r)
    BY <1>4
  <2>2. Apart(q, r) /\ now'[q] = now[q] /\ now'[r] = now[r]
    BY <1>2, <1>4, <2>1 DEF KeyFits
  <2> QED BY <2>2 DEF Apart, SeesExpired
<1> QED BY <1>3, <1>4 DEF KeyFits

\* No second request runs beside one that takes a step.
LEMMA AloneStays ==
  ASSUME SerialInv, NEW q \in Requests, Frame(q),
         pc[q] \in Running \/ \A r \in Requests : pc[r] \notin Running,
         \A r \in Requests \ {q} : round'[r] = round[r],
         AskFits(q)'
  PROVE  Alone' /\ \A r \in Requests : AskFits(r)'
<1>1. \A r \in Requests \ {q} : pc[r] \notin Running /\ pc'[r] = pc[r]
  BY DEF SerialInv, Alone, Frame
<1>2. Alone'
  BY <1>1 DEF Alone
<1>3. ASSUME NEW r \in Requests \ {q} PROVE AskFits(r)'
  <2>1. AskFits(r) /\ pc[r] \notin {"lookup", "deleteKey", "insertKey"}
    BY <1>1 DEF SerialInv, Running
  <2>2. /\ pc'[r] = pc[r] /\ reply'[r] = reply[r] /\ round'[r] = round[r]
        /\ Key(r)' = Key(r)
    BY DEF Frame, Key
  <2> QED BY <2>1, <2>2 DEF AskFits
<1> QED BY <1>2, <1>3

\* A step that touches no record and makes nothing under a key.
LEMMA QuietStepFits ==
  ASSUME IInv, SerialInv, NEW q \in Requests, Grow, Frame(q), clock' = clock, idem' = idem,
         pc[q] = "idle" => now'[q] = clock,
         pc'[q] \in OnTheWay => pc[q] \in OnTheWay \cup {"idle"},
         Exists(q)' => (Exists(q) \/ Key(q)' \notin Keys)
  PROVE  \A k \in Keys : KeyFits(k)'
<1>1. SUFFICES ASSUME NEW k \in Keys PROVE KeyFits(k)'
  OBVIOUS
<1>2. KeyFits(k) /\ clock \in Nat
  BY CreateAssumption DEF SerialInv, IInv, TypeOK
<1>3. \A r \in Requests : Exists(r) => pc[r] # "idle"
  BY DEF IInv, RequestInv
<1>4. ASSUME NEW r \in Requests, Sent(r, k)', Exists(r)'
      PROVE  Sent(r, k) /\ Exists(r)
  <2>1. CASE r = q
    <3>1. Exists(q) /\ pc[q] # "idle"
      BY <1>3, <1>4, <2>1 DEF Sent
    <3> QED BY <1>4, <2>1, <3>1 DEF Grow, Sent, Key
  <2>2. CASE r # q
    BY <1>4, <2>2 DEF Frame, Sent, Key, Exists
  <2> QED BY <2>1, <2>2
<1>5. ASSUME NEW r \in Requests, pc'[r] \in OnTheWay /\ Key(r)' = k
      PROVE  \/ pc[r] \in OnTheWay /\ Key(r) = k /\ now'[r] = now[r]
             \/ now'[r] = clock
  <2>1. CASE r = q
    <3>1. CASE pc[q] = "idle"
      BY <2>1, <3>1
    <3>2. CASE pc[q] # "idle"
      BY <1>5, <2>1, <3>2 DEF Grow, Key
    <3> QED BY <3>1, <3>2
  <2>2. CASE r # q
    BY <1>5, <2>2 DEF Frame, Key
  <2> QED BY <2>1, <2>2
<1> QED BY <1>2, <1>4, <1>5, KeyFitsStays

-----------------------------------------------------------------------------
(* The steps.                                                              *)

LEMMA SerialInit == Init => SerialInv
<1> SUFFICES ASSUME Init PROVE SerialInv
  OBVIOUS
<1>1. \A r \in Requests : pc[r] = "idle" /\ round[r] = 1 /\ reply[r] = "none"
  BY DEF Init
<1>2. Alone /\ \A r \in Requests : AskFits(r)
  BY <1>1 DEF Alone, AskFits, Running
<1>3. \A k \in Keys : KeyFits(k)
  BY <1>1 DEF KeyFits, Superseded, Sent
<1> QED BY <1>2, <1>3 DEF SerialInv

LEMMA SerialReceive ==
  ASSUME Serial, IInv, SerialInv, NEW q \in Requests, Receive(q)
  PROVE  SerialInv'
<1>1. Grow /\ Frame(q)
  BY ReceiveEffect DEF Effect
<1>2. /\ pc[q] = "idle" /\ \A r \in Requests : pc[r] \notin Running
      /\ rows' = rows /\ idem' = idem /\ clock' = clock /\ round' = round
      /\ now' = [now EXCEPT ![q] = clock]
  BY DEF Receive, tables, keys
<1>3. /\ now'[q] = clock /\ ~Exists(q) /\ round[q] = 1 /\ reply[q] = "none"
  BY <1>2 DEF IInv, TypeOK, RequestInv, SerialInv, AskFits
<1>4. /\ pc'[q] \in {"done", "insert", "insertKey"}
      /\ reply'[q] \in {"none", "badRequest"}
  BY <1>3 DEF Receive, Goto, Answer, IInv, TypeOK
<1>5. AskFits(q)'
  BY <1>2, <1>3, <1>4 DEF AskFits
<1>6. Alone' /\ \A r \in Requests : AskFits(r)'
  BY <1>1, <1>2, <1>5, AloneStays
<1>7. \A k \in Keys : KeyFits(k)'
  <2>1. (Exists(q)' => Exists(q)) /\ pc[q] \in OnTheWay \cup {"idle"}
    BY <1>2 DEF Exists
  <2> QED BY <1>1, <1>2, <1>3, <2>1, QuietStepFits
<1> QED BY <1>6, <1>7 DEF SerialInv

LEMMA SerialInsert ==
  ASSUME IInv, SerialInv, NEW q \in Requests, Insert(q) \/ (AckLost(q) /\ pc[q] = "insert")
  PROVE  SerialInv'
<1>1. Grow /\ Frame(q)
  BY InsertEffect, InsertAckLostEffect DEF Effect
<1>2. /\ pc[q] = "insert" /\ idem' = idem /\ clock' = clock /\ round' = round
      /\ input' = input /\ now' = now
      /\ (Goto(q, "audit") \/ Answer(q, "failed"))
  BY DEF Insert, AckLost, keys, locals
<1>3. Key(q) = NoKey /\ reply[q] = "none"
  BY <1>2 DEF IInv, TypeOK, RequestInv
<1>4. \/ pc'[q] = "audit" /\ reply'[q] = "none"
      \/ pc'[q] = "done" /\ reply'[q] = "failed"
  BY <1>2, <1>3 DEF Goto, Answer, IInv, TypeOK
<1>5. AskFits(q)'
  BY <1>4 DEF AskFits
<1>6. Alone' /\ \A r \in Requests : AskFits(r)'
  BY <1>1, <1>2, <1>5, AloneStays DEF Running
<1>7. \A k \in Keys : KeyFits(k)'
  <2>1. Key(q)' \notin Keys
    BY <1>2, <1>3, CreateAssumption DEF Key
  <2>2. pc'[q] \notin OnTheWay /\ pc[q] # "idle"
    BY <1>2, <1>4 DEF OnTheWay, InTransaction
  <2> QED BY <1>1, <1>2, <2>1, <2>2, QuietStepFits
<1> QED BY <1>6, <1>7 DEF SerialInv

LEMMA SerialInsertKey ==
  ASSUME IInv, SerialInv, NEW q \in Requests, InsertKey(q)
  PROVE  SerialInv'
<1>1. Grow /\ Frame(q)
  BY InsertKeyEffect DEF Effect
<1>2. /\ pc[q] = "insertKey" /\ rows' = rows /\ idem' = idem /\ clock' = clock
      /\ round' = round /\ input' = input /\ now' = now /\ Key(q) \in Keys
  BY DEF InsertKey, tables, locals
<1>3. reply[q] = "none" /\ round[q] \in 1 .. 2
  BY <1>2 DEF IInv, TypeOK, RequestInv
<1>4. \/ pc'[q] = "commit" /\ reply'[q] = "none"
      \/ pc'[q] = "lookup" /\ reply'[q] = "none" /\ idem[Key(q)] # Nobody
  BY <1>3 DEF InsertKey, Goto, IInv, TypeOK
<1>5. idem[Key(q)] # Nobody => round[q] = 1
  BY <1>2, <1>3 DEF SerialInv, AskFits
<1>6. AskFits(q)'
  BY <1>2, <1>4, <1>5 DEF AskFits, Key
<1>7. Alone' /\ \A r \in Requests : AskFits(r)'
  BY <1>1, <1>2, <1>6, AloneStays DEF Running
<1>8. \A k \in Keys : KeyFits(k)'
  <2>1. (Exists(q)' => Exists(q)) /\ pc[q] \in OnTheWay /\ pc[q] # "idle"
    BY <1>2 DEF Exists, OnTheWay
  <2> QED BY <1>1, <1>2, <2>1, QuietStepFits
<1> QED BY <1>7, <1>8 DEF SerialInv

LEMMA SerialLookup ==
  ASSUME IInv, SerialInv, NEW q \in Requests, Lookup(q)
  PROVE  SerialInv'
<1>1. Grow /\ Frame(q)
  BY LookupEffect DEF Effect
<1>2. /\ pc[q] = "lookup" /\ rows' = rows /\ idem' = idem /\ clock' = clock
      /\ round' = round /\ input' = input /\ now' = now
      /\ found' = [found EXCEPT ![q] = idem[Key(q)]]
  BY DEF Lookup, tables, keys
<1>3. /\ reply[q] = "none" /\ idem[Key(q)] # Nobody /\ round[q] = 1
      /\ found'[q] = idem[Key(q)]
  BY <1>2 DEF IInv, TypeOK, RequestInv, SerialInv, AskFits
<1>4. Verdict(q, idem[Key(q)]) \in {"expired", "replayed", "mismatch"}
  BY <1>3 DEF Verdict
<1>5. \/ pc'[q] = "deleteKey" /\ reply'[q] = "none"
      \/ pc'[q] = "done" /\ reply'[q] \in {"replayed", "mismatch"}
  BY <1>3, <1>4 DEF Lookup, Goto, Answer, IInv, TypeOK
<1>6. AskFits(q)'
  BY <1>2, <1>3, <1>5 DEF AskFits, Key
<1>7. Alone' /\ \A r \in Requests : AskFits(r)'
  BY <1>1, <1>2, <1>6, AloneStays DEF Running
<1>8. \A k \in Keys : KeyFits(k)'
  <2>1. (Exists(q)' => Exists(q)) /\ pc[q] \in OnTheWay /\ pc[q] # "idle"
    BY <1>2 DEF Exists, OnTheWay
  <2> QED BY <1>1, <1>2, <2>1, QuietStepFits
<1> QED BY <1>7, <1>8 DEF SerialInv

LEMMA SerialWriteAudit ==
  ASSUME IInv, SerialInv, NEW q \in Requests, WriteAudit(q)
  PROVE  SerialInv'
<1>1. Grow /\ Frame(q)
  BY WriteAuditEffect DEF Effect
<1>2. /\ pc[q] = "audit" /\ rows' = rows /\ idem' = idem /\ clock' = clock
      /\ round' = round /\ input' = input /\ now' = now /\ Answer(q, "created")
  BY DEF WriteAudit, keys, locals
<1>3. pc'[q] = "done" /\ reply'[q] = "created"
  BY <1>2 DEF Answer, IInv, TypeOK
<1>4. AskFits(q)'
  BY <1>3 DEF AskFits
<1>5. Alone' /\ \A r \in Requests : AskFits(r)'
  BY <1>1, <1>2, <1>4, AloneStays DEF Running
<1>6. \A k \in Keys : KeyFits(k)'
  <2>1. (Exists(q)' => Exists(q)) /\ pc'[q] \notin OnTheWay /\ pc[q] # "idle"
    BY <1>2, <1>3 DEF Exists, OnTheWay, InTransaction, Running
  <2> QED BY <1>1, <1>2, <2>1, QuietStepFits
<1> QED BY <1>5, <1>6 DEF SerialInv

LEMMA SerialFails ==
  ASSUME IInv, SerialInv, NEW q \in Requests,
         ValueRefused(q) \/ Deadlock(q) \/ StatementFails(q)
  PROVE  SerialInv'
<1>0. ~Deadlock(q)
  <2>1. \A r \in sharing : r \in Requests /\ pc[r] = "insertKey"
    BY DEF IInv, TypeOK, SharingInv
  <2>2. ASSUME InDeadlock(q) PROVE FALSE
    <3>1. PICK r \in Requests \ {q} : pc[q] \in Running /\ pc[r] \in Running
      BY <2>1, <2>2 DEF InDeadlock, Running
    <3> QED BY <3>1 DEF SerialInv, Alone
  <2> QED BY <2>2 DEF Deadlock
<1>1. Grow /\ Frame(q)
  BY ReleaseEffect DEF Effect
<1>2. /\ pc[q] \in Running /\ rows' = rows /\ idem' = idem /\ clock' = clock
      /\ round' = round /\ input' = input /\ now' = now
      /\ Answer(q, "failed") \/ Answer(q, "unfit")
  BY <1>0 DEF ValueRefused, StatementFails, Fails, tables, locals, Running
<1>3. pc'[q] = "done" /\ reply'[q] \in {"failed", "unfit"}
  BY <1>2 DEF Answer, IInv, TypeOK
<1>4. AskFits(q)'
  BY <1>2, <1>3 DEF AskFits, Key
<1>5. Alone' /\ \A r \in Requests : AskFits(r)'
  BY <1>1, <1>2, <1>4, AloneStays
<1>6. \A k \in Keys : KeyFits(k)'
  <2>1. (Exists(q)' => Exists(q)) /\ pc'[q] \notin OnTheWay /\ pc[q] # "idle"
    BY <1>2, <1>3 DEF Exists, OnTheWay, InTransaction, Running
  <2> QED BY <1>1, <1>2, <2>1, QuietStepFits
<1> QED BY <1>5, <1>6 DEF SerialInv

\* The COMMIT: everything made under the key before had expired for q.
LEMMA CommitFits ==
  ASSUME IInv, IInv', SerialInv, NEW q \in Requests, pc[q] \in InTransaction, CommitBoth(q),
         Grow, Frame(q), clock' = clock, input' = input, now' = now,
         pc'[q] \notin OnTheWay \cup {"idle"}
  PROVE  \A k \in Keys : KeyFits(k)'
<1>1. PICK key \in Keys : key = Key(q)
  BY DEF IInv, RequestInv, InTransaction
<1>2. /\ lock[key] = q /\ idem[key] = Nobody /\ q # Nobody /\ ~Exists(q)
  BY <1>1, CreateAssumption DEF IInv, KeyInv, RequestInv
<1>3. /\ idem'[key] = q
      /\ \A k \in Keys \ {key} : idem'[k] = idem[k]
  BY <1>1 DEF CommitBoth, IInv, TypeOK
<1>4. ASSUME NEW r \in Requests \ {q}
      PROVE  /\ Exists(r)' <=> Exists(r)
             /\ \A k : Sent(r, k)' <=> Sent(r, k)
             /\ pc'[r] = pc[r] /\ Key(r)' = Key(r)
  BY DEF Frame, Exists, Sent, Key
<1>5. ASSUME NEW k \in Keys, k # key PROVE KeyFits(k)'
  <2>1. ~Sent(q, k)' /\ KeyFits(k) /\ clock \in Nat
    BY <1>1, <1>5, CreateAssumption DEF Sent, Key, SerialInv, IInv, TypeOK
  <2>2. \A r \in Requests : Sent(r, k)' /\ Exists(r)' => Sent(r, k) /\ Exists(r)
    BY <1>4, <2>1
  <2>3. \A r \in Requests : pc'[r] \in OnTheWay /\ Key(r)' = k =>
          pc[r] \in OnTheWay /\ Key(r) = k /\ now'[r] = now[r]
    BY <1>4
  <2> QED BY <1>3, <1>5, <2>1, <2>2, <2>3, KeyFitsStays
<1>6. KeyFits(key)'
  <2>1. KeyFits(key) /\ pc[q] \in OnTheWay
    BY DEF SerialInv, OnTheWay
  <2>2. ASSUME NEW r \in Requests \ {q}, Sent(r, key)', Exists(r)'
        PROVE  Superseded(r, key) /\ SeesExpired(q, r)
    <3>1. Superseded(r, key)
      BY <1>2, <1>4, <2>2, CreateAssumption DEF Superseded
    <3> QED BY <1>1, <2>1, <3>1 DEF KeyFits
  <2>3. ASSUME NEW s \in Requests, Superseded(s, key)'
        PROVE  /\ clock' > now'[s] + TTL
               /\ \A r \in Requests : pc'[r] \in OnTheWay /\ Key(r)' = key => SeesExpired(r, s)'
    <3>1. s # q /\ Sent(s, key)' /\ Exists(s)'
      BY <1>3, <2>3 DEF Superseded
    <3>2. Superseded(s, key)
      BY <2>2, <3>1
    <3> QED BY <1>4, <2>1, <3>2 DEF KeyFits, SeesExpired
  <2>4. ASSUME NEW s \in Requests, NEW r \in Requests, s # r,
               Sent(s, key)', Sent(r, key)', Exists(s)', Exists(r)'
        PROVE  Apart(s, r)'
    <3>1. CASE s = q
      BY <2>2, <2>4, <3>1 DEF Apart, SeesExpired
    <3>2. CASE r = q
      BY <2>2, <2>4, <3>2 DEF Apart, SeesExpired
    <3>3. CASE s # q /\ r # q
      <4>1. Apart(s, r)
        BY <1>4, <2>1, <2>4, <3>3 DEF KeyFits
      <4> QED BY <4>1 DEF Apart, SeesExpired
    <3> QED BY <3>1, <3>2, <3>3
  <2> QED BY <2>3, <2>4 DEF KeyFits
<1> QED BY <1>5, <1>6

LEMMA SerialCommit ==
  ASSUME IInv, IInv', SerialInv, NEW q \in Requests,
         Commit(q) \/ (AckLost(q) /\ pc[q] = "commit")
  PROVE  SerialInv'
<1>1. Grow /\ Frame(q)
  BY CommitEffect DEF Effect
<1>2. /\ pc[q] = "commit" /\ CommitBoth(q) /\ clock' = clock
      /\ round' = round /\ input' = input /\ now' = now
      /\ (Goto(q, "audit") \/ Answer(q, "failed"))
  BY DEF Commit, AckLost, locals
<1>3. reply[q] = "none"
  BY <1>2 DEF IInv, TypeOK, RequestInv
<1>4. \/ pc'[q] = "audit" /\ reply'[q] = "none"
      \/ pc'[q] = "done" /\ reply'[q] = "failed"
  BY <1>2, <1>3 DEF Goto, Answer, IInv, TypeOK
<1>5. AskFits(q)'
  BY <1>4 DEF AskFits
<1>6. Alone' /\ \A r \in Requests : AskFits(r)'
  BY <1>1, <1>2, <1>5, AloneStays DEF Running
<1>7. \A k \in Keys : KeyFits(k)'
  BY <1>1, <1>2, <1>4, CommitFits DEF OnTheWay, InTransaction
<1> QED BY <1>6, <1>7 DEF SerialInv

\* The DELETE: alone as it is, it hits the record that it found expired.
LEMMA SerialDelete ==
  ASSUME IInv, SerialInv, NEW q \in Requests,
         DeleteKey(q) \/ (AckLost(q) /\ pc[q] = "deleteKey")
  PROVE  SerialInv'
<1>1. Grow /\ Frame(q)
  BY DeleteKeyEffect DEF Effect
<1>2. PICK key \in Keys : key = Key(q)
  BY DEF IInv, RequestInv, DeleteKey
<1>3. /\ pc[q] = "deleteKey" /\ lock[key] = Nobody /\ rows' = rows /\ lock' = lock
      /\ idem' = [idem EXCEPT ![key] = Nobody] /\ clock' = clock
      /\ input' = input /\ now' = now
  BY <1>2 DEF DeleteKey, DeleteRecord, AckLost, Free, tables, locals
<1>4. /\ reply[q] = "none" /\ SeesExpired(q, found[q]) /\ now[q] <= clock
      /\ found[q] \in Requests /\ idem[key] = found[q] /\ round[q] = 1
  BY <1>2, <1>3 DEF IInv, TypeOK, RequestInv, Based, SerialInv, AskFits
<1>5. \/ pc'[q] = "insertKey" /\ reply'[q] = "none"
      \/ pc'[q] = "done" /\ reply'[q] = "failed"
  BY <1>3, <1>4 DEF DeleteKey, AckLost, NextRound, Goto, Answer, IInv, TypeOK
<1>6. /\ \A r \in Requests \ {q} : round'[r] = round[r]
      /\ idem'[key] = Nobody /\ \A k \in Keys \ {key} : idem'[k] = idem[k]
  BY <1>3 DEF DeleteKey, AckLost, NextRound, locals, IInv, TypeOK
<1>7. AskFits(q)'
  BY <1>2, <1>3, <1>5, <1>6 DEF AskFits, Key
<1>8. Alone' /\ \A r \in Requests : AskFits(r)'
  BY <1>1, <1>3, <1>6, <1>7, AloneStays DEF Running
<1>9. ASSUME NEW r \in Requests
      PROVE  /\ Exists(r)' <=> Exists(r)
             /\ \A k : Sent(r, k)' <=> Sent(r, k)
             /\ Key(r)' = Key(r)
             /\ pc'[r] \in OnTheWay => pc[r] \in OnTheWay
  <2>1. CASE r = q
    BY <1>3, <1>5, <2>1 DEF Exists, Sent, Key, OnTheWay
  <2>2. CASE r # q
    BY <1>1, <1>3, <2>2 DEF Frame, Exists, Sent, Key
  <2> QED BY <2>1, <2>2
<1>10. ASSUME NEW k \in Keys, k # key PROVE KeyFits(k)'
  <2>1. KeyFits(k) /\ clock \in Nat /\ idem'[k] = idem[k]
    BY <1>6, <1>10, CreateAssumption DEF SerialInv, IInv, TypeOK
  <2> QED BY <1>1, <1>3, <1>9, <2>1, KeyFitsStays
<1>11. KeyFits(key)'
  <2>1. KeyFits(key) /\ KeyInv(key)
    BY DEF SerialInv, IInv
  <2>2. now[q] \in Nat /\ clock \in Nat /\ TTL \in Nat /\ now[found[q]] \in Nat
    BY <1>4, CreateAssumption DEF IInv, TypeOK
  <2>3. ASSUME NEW r \in Requests, pc[r] \in OnTheWay, Key(r) = key PROVE r = q
    <3>1. pc[r] \notin InTransaction
      BY <1>3, <2>1, <2>3, CreateAssumption DEF KeyInv
    <3>2. pc[r] \in Running /\ pc[q] \in Running
      BY <1>3, <2>3, <3>1 DEF OnTheWay, Running
    <3> QED BY <3>2 DEF SerialInv, Alone
  <2>4. ASSUME NEW s \in Requests, Superseded(s, key)'
        PROVE  /\ clock' > now'[s] + TTL
               /\ \A r \in Requests : pc'[r] \in OnTheWay /\ Key(r)' = key => SeesExpired(r, s)'
    <3>1. Sent(s, key) /\ Exists(s)
      BY <1>9, <2>4 DEF Superseded
    <3>2. CASE s = found[q]
      <4>1. clock > now[s] + TTL
        BY <1>4, <2>2, <3>2 DEF SeesExpired
      <4> QED BY <1>3, <1>4, <1>9, <2>3, <3>2, <4>1 DEF SeesExpired
    <3>3. CASE s # found[q]
      <4>1. Superseded(s, key)
        BY <1>4, <3>1, <3>3 DEF Superseded
      <4> QED BY <1>3, <1>9, <2>1, <4>1 DEF KeyFits, SeesExpired
    <3> QED BY <3>2, <3>3
  <2>5. ASSUME NEW s \in Requests, NEW r \in Requests, s # r,
               Sent(s, key)', Sent(r, key)', Exists(s)', Exists(r)'
        PROVE  Apart(s, r)'
    <3>1. Apart(s, r)
      BY <1>9, <2>1, <2>5 DEF KeyFits
    <3> QED BY <1>3, <3>1 DEF Apart, SeesExpired
  <2> QED BY <2>4, <2>5 DEF KeyFits
<1> QED BY <1>8, <1>10, <1>11 DEF SerialInv

\* An orphan ends beside a request that runs, but holds another key than one
\* that is looked up, deleted or free.
LEMMA SerialEndOrphan ==
  ASSUME IInv, IInv', SerialInv, NEW q \in Requests, EndOrphan(q)
  PROVE  SerialInv'
<1>1. Grow /\ Frame(q)
  BY CommitEffect, ReleaseEffect DEF Effect, EndOrphan
<1>2. /\ pc[q] = "orphan" /\ clock' = clock
      /\ round' = round /\ input' = input /\ now' = now /\ found' = found /\ Goto(q, "lost")
  BY DEF EndOrphan, locals
<1>3. pc'[q] = "lost" /\ reply' = reply
  BY <1>2 DEF Goto, IInv, TypeOK
<1>4. PICK key \in Keys : key = Key(q) /\ lock[key] = q /\ idem[key] = Nobody
  BY <1>2, CreateAssumption DEF IInv, RequestInv, KeyInv, InTransaction
<1>5. \A k \in Keys \ {key} : idem'[k] = idem[k] /\ (lock[k] = Nobody => lock'[k] = Nobody)
  <2>1. CASE CommitBoth(q)
    BY <1>4, <2>1 DEF CommitBoth, IInv, TypeOK
  <2>2. CASE Release(q) /\ UNCHANGED <<rows, idem>>
    BY <2>2 DEF Release
  <2> QED BY <2>1, <2>2 DEF EndOrphan
<1>6. Alone'
  BY <1>1, <1>2, <1>3 DEF SerialInv, Alone, Frame, Running
<1>7. ASSUME NEW r \in Requests PROVE AskFits(r)'
  <2>1. AskFits(r) /\ RequestInv(r)
    BY DEF SerialInv, IInv
  <2>2. CASE r = q
    BY <1>2, <1>3, <2>1, <2>2 DEF AskFits, Key
  <2>3. CASE r # q
    <3>1. /\ pc'[r] = pc[r] /\ Key(r)' = Key(r) /\ reply'[r] = reply[r]
          /\ round'[r] = round[r] /\ found'[r] = found[r]
      BY <1>1, <1>2, <2>3 DEF Frame, Key
    <3>2. pc[r] \in {"lookup", "deleteKey"} => idem'[Key(r)] = idem[Key(r)]
      <4>1. pc[r] \in {"lookup", "deleteKey"} => Key(r) \in Keys /\ idem[Key(r)] # Nobody
        BY <2>1, CreateAssumption DEF AskFits, RequestInv, Based
      <4> QED BY <1>4, <1>5, <4>1
    <3>3. pc[r] = "insertKey" /\ round[r] = 2 =>
            idem'[Key(r)] = Nobody /\ lock'[Key(r)] = Nobody
      BY <1>4, <1>5, <2>1, CreateAssumption DEF AskFits
    <3> QED BY <2>1, <3>1, <3>2, <3>3 DEF AskFits
  <2> QED BY <2>2, <2>3
<1>8. \A k \in Keys : KeyFits(k)'
  <2>1. CASE CommitBoth(q)
    BY <1>1, <1>2, <1>3, <2>1, CommitFits DEF OnTheWay, InTransaction
  <2>2. CASE Release(q) /\ UNCHANGED <<rows, idem>>
    <3>1. (Exists(q)' => Exists(q)) /\ pc'[q] \notin OnTheWay /\ pc[q] # "idle" /\ idem' = idem
      BY <1>2, <1>3, <2>2 DEF Exists, OnTheWay, InTransaction
    <3> QED BY <1>1, <1>2, <3>1, QuietStepFits
  <2> QED BY <2>1, <2>2 DEF EndOrphan
<1> QED BY <1>6, <1>7, <1>8 DEF SerialInv

\* The crash, the clock, and a step that changes nothing.
LEMMA SerialRest ==
  ASSUME IInv, SerialInv, UNCHANGED <<rows, idem, lock, input, now, round, found, reply>>,
         clock' \in Nat, clock' >= clock,
         \A r \in Requests :
           \/ pc'[r] = pc[r]
           \/ pc[r] = "commit" /\ pc'[r] = "orphan"
           \/ pc[r] \in Running /\ pc'[r] = "lost"
  PROVE  SerialInv'
<1>1. Grow
  BY DEF Grow, Running
<1>2. Alone'
  BY DEF SerialInv, Alone, Running
<1>3. ASSUME NEW r \in Requests PROVE AskFits(r)'
  <2>1. AskFits(r)
    BY DEF SerialInv
  <2> QED BY <2>1 DEF AskFits, Key, Running
<1>4. ASSUME NEW k \in Keys PROVE KeyFits(k)'
  <2>1. \A r \in Requests : Sent(r, k)' /\ Exists(r)' => Sent(r, k) /\ Exists(r)
    BY DEF Sent, Key, Exists, Running
  <2>2. \A r \in Requests : pc'[r] \in OnTheWay /\ Key(r)' = k =>
          pc[r] \in OnTheWay /\ Key(r) = k /\ now'[r] = now[r]
    BY DEF OnTheWay, InTransaction, Key
  <2>3. KeyFits(k)
    BY DEF SerialInv
  <2> QED BY <1>1, <2>1, <2>2, <2>3, KeyFitsStays
<1> QED BY <1>2, <1>3, <1>4 DEF SerialInv

LEMMA SerialNext == Serial /\ IInv /\ IInv' /\ SerialInv /\ [Next]_vars => SerialInv'
<1> SUFFICES ASSUME Serial, IInv, IInv', SerialInv, [Next]_vars PROVE SerialInv'
  OBVIOUS
<1>1. clock \in Nat
  BY CreateAssumption DEF IInv, TypeOK
<1>2. CASE UNCHANGED vars
  BY <1>1, <1>2, SerialRest DEF vars, tables, keys, locals
<1>3. CASE Tick
  BY <1>1, <1>3, SerialRest DEF Tick, tables, keys, locals
<1>4. CASE Crash
  <2>1. UNCHANGED <<rows, idem, lock, input, now, round, found, reply, clock>>
    BY <1>4 DEF Crash, tables, keys, locals
  <2>2. pc' = [r \in Requests |-> CASE pc[r] = "commit" -> "orphan"
                                    [] pc[r] \in Running \ {"commit"} -> "lost"
                                    [] OTHER -> pc[r]]
    BY <1>4 DEF Crash
  <2>3. \A r \in Requests :
          \/ pc'[r] = pc[r]
          \/ pc[r] = "commit" /\ pc'[r] = "orphan"
          \/ pc[r] \in Running /\ pc'[r] = "lost"
    BY <2>2 DEF Running
  <2> QED BY <1>1, <2>1, <2>3, SerialRest
<1>5. ASSUME NEW q \in Requests, Receive(q) \/ Step(q) PROVE SerialInv'
  <2>1. AckLost(q) => pc[q] \in {"insert", "commit", "deleteKey"}
    BY DEF AckLost
  <2> QED BY <1>5, <2>1, SerialReceive, SerialInsert, SerialInsertKey, SerialLookup,
             SerialWriteAudit, SerialFails, SerialCommit, SerialDelete,
             SerialEndOrphan DEF Step
<1> QED BY <1>2, <1>3, <1>4, <1>5 DEF Next

LEMMA SerialInvariance == Spec => [](Serial => SerialInv)
<1>1. Init => (Serial => SerialInv)
  BY SerialInit
<1>2. IInv /\ IInv' /\ (Serial => SerialInv) /\ [Next]_vars => (Serial => SerialInv)'
  BY SerialNext
<1> QED BY <1>1, <1>2, Invariance, PTL DEF Spec

\* Requests that come one at a time: two disbursements under one key came in
\* more than TTL apart, whatever statement of usecase Create failed and
\* wherever the process died.
THEOREM SerialCreatesOnce == Spec => [](Serial => ExactlyOnce)
<1>1. IInv /\ (Serial => SerialInv) => (Serial => ExactlyOnce)
  <2> SUFFICES ASSUME IInv, SerialInv, NEW q \in Requests, NEW r \in Requests,
                      Exists(q), Exists(r), q # r, Key(q) \in Keys, Key(q) = Key(r)
               PROVE  SeesExpired(q, r) \/ SeesExpired(r, q)
    BY DEF ExactlyOnce
  <2>1. pc[q] # "idle" /\ pc[r] # "idle"
    BY DEF IInv, RequestInv
  <2>2. KeyFits(Key(q)) /\ Sent(q, Key(q)) /\ Sent(r, Key(q))
    BY <2>1 DEF SerialInv, Sent
  <2> QED BY <2>2 DEF KeyFits, Apart
<1> QED BY <1>1, Invariance, SerialInvariance, PTL

-----------------------------------------------------------------------------
(* Requests that are answered before the clock moves on.  Whoever comes    *)
(* round for the second time finds only what others made under its key     *)
(* since its DELETE, and none of that has expired.                         *)

Fresh(k) ==
  /\ idem[k] # Nobody => now[idem[k]] = clock
  /\ lock[k] # Nobody => now[lock[k]] = clock

PromptFits(r) ==
  /\ pc[r] \in Running => now[r] = clock
  /\ pc[r] \in Running /\ round[r] = 2 /\ Key(r) \in Keys => Fresh(Key(r))
  /\ pc[r] \in {"idle", "deleteKey"} => round[r] = 1
  /\ reply[r] # "retry"

PromptInv == \A r \in Requests : PromptFits(r)

LEMMA FreshStays ==
  ASSUME IInv, NEW k \in Keys, Fresh(k), Grow, clock' = clock,
         idem'[k] \in {Nobody, idem[k], lock[k]},
         lock'[k] \in {Nobody, lock[k]} \/ now'[lock'[k]] = clock
  PROVE  Fresh(k)'
<1>1. /\ idem[k] # Nobody => idem[k] \in Requests /\ pc[idem[k]] # "idle"
      /\ lock[k] # Nobody => lock[k] \in Requests /\ pc[lock[k]] # "idle"
  BY DEF IInv, TypeOK, KeyInv, Sent
<1>2. /\ idem[k] # Nobody => now'[idem[k]] = now[idem[k]]
      /\ lock[k] # Nobody => now'[lock[k]] = now[lock[k]]
  BY <1>1 DEF Grow
<1> QED BY <1>2 DEF Fresh

LEMMA PromptStays ==
  ASSUME IInv, PromptInv, NEW q \in Requests, Grow, Frame(q), clock' = clock,
         \A k \in Keys : idem'[k] \in {Nobody, idem[k], lock[k]},
         \A k \in Keys : lock'[k] \in {Nobody, lock[k]} \/ now'[lock'[k]] = clock,
         \A r \in Requests \ {q} : round'[r] = round[r],
         round'[q] = round[q] \/ (idem'[Key(q)] = Nobody /\ lock'[Key(q)] = Nobody),
         pc[q] \in Running \/ (pc[q] = "idle" /\ now'[q] = clock /\ round'[q] = 1)
           \/ pc'[q] \notin Running,
         pc'[q] # "idle", pc'[q] = "deleteKey" => round'[q] = 1, reply'[q] # "retry"
  PROVE  PromptInv'
<1>1. \A k \in Keys : Fresh(k) => Fresh(k)'
  BY FreshStays
<1>2. ASSUME NEW r \in Requests \ {q} PROVE PromptFits(r)'
  <2>1. /\ PromptFits(r) /\ pc'[r] = pc[r] /\ now'[r] = now[r] /\ reply'[r] = reply[r]
        /\ Key(r)' = Key(r) /\ round'[r] = round[r]
    BY DEF PromptInv, Frame, Key
  <2> QED BY <1>1, <2>1 DEF PromptFits
<1>3. PromptFits(q)'
  <2>1. PromptFits(q)
    BY DEF PromptInv
  <2>2. CASE pc'[q] \notin Running
    BY <2>2 DEF PromptFits, Running
  <2>3. CASE pc[q] = "idle" /\ now'[q] = clock /\ round'[q] = 1
    BY <2>3 DEF PromptFits
  <2>4. CASE pc[q] \in Running /\ pc'[q] \in Running
    <3>1. now'[q] = now[q] /\ Key(q)' = Key(q)
      BY <2>4 DEF Grow, Running, Key
    <3>2. (Key(q) \in Keys /\ round'[q] = 2) => Fresh(Key(q))'
      <4>1. CASE round'[q] = round[q]
        BY <1>1, <2>1, <2>4, <3>1, <4>1 DEF PromptFits, Fresh
      <4>2. CASE idem'[Key(q)] = Nobody /\ lock'[Key(q)] = Nobody
        BY <3>1, <4>2 DEF Fresh
      <4> QED BY <4>1, <4>2
    <3> QED BY <2>1, <2>4, <3>1, <3>2 DEF PromptFits
  <2> QED BY <2>2, <2>3, <2>4
<1> QED BY <1>2, <1>3 DEF PromptInv

LEMMA PromptReceive ==
  ASSUME IInv, PromptInv, NEW q \in Requests, Receive(q)
  PROVE  PromptInv'
<1>1. Grow /\ Frame(q)
  BY ReceiveEffect DEF Effect
<1>2. /\ pc[q] = "idle" /\ idem' = idem /\ lock' = lock /\ clock' = clock /\ round' = round
      /\ now' = [now EXCEPT ![q] = clock]
  BY DEF Receive, keys
<1>3. now'[q] = clock /\ round[q] = 1 /\ reply[q] = "none"
  BY <1>2 DEF IInv, TypeOK, RequestInv, PromptInv, PromptFits
<1>4. /\ pc'[q] \in {"done", "insert", "insertKey"}
      /\ reply'[q] \in {"none", "badRequest"}
  BY <1>3 DEF Receive, Goto, Answer, IInv, TypeOK
<1> QED BY <1>1, <1>2, <1>3, <1>4, PromptStays

LEMMA PromptInsert ==
  ASSUME IInv, PromptInv, NEW q \in Requests,
         Insert(q) \/ WriteAudit(q) \/ (AckLost(q) /\ pc[q] = "insert")
  PROVE  PromptInv'
<1>1. Grow /\ Frame(q)
  BY InsertEffect, WriteAuditEffect, InsertAckLostEffect DEF Effect
<1>2. /\ pc[q] \in {"insert", "audit"} /\ idem' = idem /\ lock' = lock /\ clock' = clock
      /\ round' = round
      /\ (Goto(q, "audit") \/ Answer(q, "failed") \/ Answer(q, "created"))
  BY DEF Insert, WriteAudit, AckLost, keys, locals
<1>3. reply[q] = "none"
  BY <1>2 DEF IInv, TypeOK, RequestInv
<1>4. pc'[q] \in {"audit", "done"} /\ reply'[q] \in {"none", "failed", "created"}
  BY <1>2, <1>3 DEF Goto, Answer, IInv, TypeOK
<1> QED BY <1>1, <1>2, <1>4, PromptStays DEF Running

LEMMA PromptInsertKey ==
  ASSUME IInv, PromptInv, NEW q \in Requests, InsertKey(q)
  PROVE  PromptInv'
<1>1. Grow /\ Frame(q)
  BY InsertKeyEffect DEF Effect
<1>2. /\ pc[q] = "insertKey" /\ idem' = idem /\ clock' = clock /\ round' = round /\ now' = now
      /\ (lock' = lock \/ lock' = [lock EXCEPT ![Key(q)] = q])
  BY DEF InsertKey, tables, locals
<1>3. reply[q] = "none" /\ now[q] = clock
  BY <1>2 DEF IInv, RequestInv, PromptInv, PromptFits, Running
<1>4. pc'[q] \in {"commit", "lookup"} /\ reply'[q] = "none"
  BY <1>3 DEF InsertKey, Goto, IInv, TypeOK
<1>5. \A k \in Keys : lock'[k] \in {Nobody, lock[k]} \/ now'[lock'[k]] = clock
  BY <1>2, <1>3 DEF IInv, TypeOK
<1> QED BY <1>1, <1>2, <1>4, <1>5, PromptStays DEF Running

\* Looked up in the second round, a record has not expired.
LEMMA PromptLookup ==
  ASSUME IInv, PromptInv, NEW q \in Requests, Lookup(q)
  PROVE  PromptInv'
<1>1. Grow /\ Frame(q)
  BY LookupEffect DEF Effect
<1>2. /\ pc[q] = "lookup" /\ idem' = idem /\ lock' = lock /\ clock' = clock /\ round' = round
  BY DEF Lookup, tables, keys
<1>3. /\ reply[q] = "none" /\ now[q] = clock /\ clock \in Nat /\ TTL \in Nat \ {0}
      /\ Key(q) \in Keys /\ round[q] \in 1 .. 2
  BY <1>2, CreateAssumption DEF IInv, TypeOK, RequestInv, PromptInv, PromptFits, Running
<1>4. Verdict(q, idem[Key(q)]) = "expired" => round[q] = 1
  <2>1. SUFFICES ASSUME round[q] = 2 PROVE Verdict(q, idem[Key(q)]) # "expired"
    BY <1>3
  <2>2. idem[Key(q)] # Nobody => now[idem[Key(q)]] = clock
    BY <1>2, <1>3, <2>1 DEF PromptInv, PromptFits, Fresh, Running
  <2>3. idem[Key(q)] # Nobody => ~SeesExpired(q, idem[Key(q)])
    BY <1>3, <2>2 DEF SeesExpired
  <2> QED BY <2>3 DEF Verdict
<1>5. Verdict(q, idem[Key(q)]) \in {"missing", "expired", "replayed", "mismatch"}
  BY DEF Verdict
<1>6. \/ pc'[q] = "deleteKey" /\ reply'[q] = "none" /\ round[q] = 1
      \/ pc'[q] = "done" /\ reply'[q] \in {"missing", "replayed", "mismatch"}
  BY <1>3, <1>4, <1>5 DEF Lookup, Goto, Answer, IInv, TypeOK
<1> QED BY <1>1, <1>2, <1>6, PromptStays DEF Running

LEMMA PromptDelete ==
  ASSUME IInv, PromptInv, NEW q \in Requests,
         DeleteKey(q) \/ (AckLost(q) /\ pc[q] = "deleteKey")
  PROVE  PromptInv'
<1>1. Grow /\ Frame(q)
  BY DeleteKeyEffect DEF Effect
<1>2. PICK key \in Keys : key = Key(q)
  BY DEF IInv, RequestInv, DeleteKey
<1>3. /\ pc[q] = "deleteKey" /\ lock[key] = Nobody /\ lock' = lock
      /\ idem' = [idem EXCEPT ![key] = Nobody] /\ clock' = clock
  BY <1>2 DEF DeleteKey, DeleteRecord, AckLost, Free, tables, locals
<1>4. reply[q] = "none" /\ round[q] = 1
  BY <1>3 DEF IInv, RequestInv, PromptInv, PromptFits
<1>5. /\ pc'[q] \in {"insertKey", "done"} /\ reply'[q] \in {"none", "failed"}
      /\ \A r \in Requests \ {q} : round'[r] = round[r]
  BY <1>4 DEF DeleteKey, AckLost, NextRound, Goto, Answer, locals, IInv, TypeOK
<1>6. /\ idem'[key] = Nobody /\ lock'[key] = Nobody
      /\ \A k \in Keys : idem'[k] \in {Nobody, idem[k], lock[k]}
  BY <1>3 DEF IInv, TypeOK
<1> QED BY <1>1, <1>2, <1>3, <1>5, <1>6, PromptStays DEF Running

LEMMA PromptEnd ==
  ASSUME IInv, PromptInv, NEW q \in Requests,
         \/ Commit(q)
         \/ AckLost(q) /\ pc[q] = "commit"
         \/ EndOrphan(q)
         \/ ValueRefused(q) \/ Deadlock(q) \/ StatementFails(q)
  PROVE  PromptInv'
<1>1. Grow /\ Frame(q)
  BY CommitEffect, ReleaseEffect DEF Effect, EndOrphan
<1>2. /\ clock' = clock /\ round' = round
      /\ pc[q] \in Running \cup {"orphan"}
      /\ \/ /\ pc[q] \in Running
            /\ \/ Goto(q, "audit") \/ Answer(q, "failed")
               \/ Answer(q, "unfit") \/ Answer(q, "deadlock")
         \/ Goto(q, "lost")
  <2>1. Deadlock(q) => pc[q] \in {"insertKey", "deleteKey"}
    BY DEF Deadlock, InDeadlock, IInv, SharingInv
  <2> QED BY <2>1 DEF Commit, AckLost, EndOrphan, ValueRefused, Deadlock, StatementFails, Fails,
                      locals, Running
<1>3. reply[q] = "none"
  BY <1>2 DEF IInv, RequestInv, Running
<1>4. /\ pc'[q] \in {"audit", "done", "lost"}
      /\ reply'[q] \in {"none", "failed", "unfit", "deadlock"}
      /\ pc'[q] = "audit" => pc[q] \in Running
  BY <1>2, <1>3 DEF Goto, Answer, IInv, TypeOK
<1>5. /\ \A k \in Keys : idem'[k] \in {Nobody, idem[k], lock[k]}
      /\ \A k \in Keys : lock'[k] \in {Nobody, lock[k]}
  <2>1. CASE pc[q] \in InTransaction /\ CommitBoth(q)
    <3>1. PICK key \in Keys : key = Key(q) /\ lock[key] = q
      BY <2>1 DEF IInv, RequestInv, KeyInv
    <3> QED BY <2>1, <3>1 DEF CommitBoth, IInv, TypeOK
  <2>2. CASE Release(q) /\ idem' = idem
    BY <2>2 DEF Release
  <2> QED BY <2>1, <2>2 DEF Commit, AckLost, EndOrphan, ValueRefused, Deadlock, StatementFails,
                            Fails, InTransaction
<1> QED BY <1>1, <1>2, <1>4, <1>5, PromptStays DEF Running

LEMMA PromptRest ==
  ASSUME PromptInv, UNCHANGED <<idem, lock, input, now, round, reply>>,
         \A r \in Requests : pc'[r] \in Running \cup {"idle"} => pc'[r] = pc[r],
         clock' = clock \/ \A r \in Requests : pc[r] \notin Running
  PROVE  PromptInv'
<1>1. SUFFICES ASSUME NEW r \in Requests PROVE PromptFits(r)'
  BY DEF PromptInv
<1>2. PromptFits(r)
  BY DEF PromptInv
<1>3. CASE pc'[r] \in Running
  <2>1. pc'[r] = pc[r] /\ clock' = clock
    BY <1>3
  <2> QED BY <1>2, <2>1 DEF PromptFits, Fresh, Key
<1>4. CASE pc'[r] \notin Running
  BY <1>2, <1>4 DEF PromptFits, Running
<1> QED BY <1>3, <1>4

LEMMA PromptInvariance == Spec => [](Prompt => PromptInv)
<1>1. Init => (Prompt => PromptInv)
  BY DEF Init, PromptInv, PromptFits, Running
<1>2. IInv /\ (Prompt => PromptInv) /\ [Next]_vars => (Prompt => PromptInv)'
  <2> SUFFICES ASSUME Prompt, IInv, PromptInv, [Next]_vars PROVE PromptInv'
    OBVIOUS
  <2>1. CASE UNCHANGED vars
    BY <2>1, PromptRest DEF vars, tables, keys, locals
  <2>2. CASE Tick
    BY <2>2, PromptRest DEF Tick, tables, keys, locals
  <2>3. CASE Crash
    <3>1. UNCHANGED <<idem, lock, input, now, round, reply, clock>>
      BY <2>3 DEF Crash, tables, keys, locals
    <3>2. \A r \in Requests : pc'[r] \in Running \cup {"idle"} => pc'[r] = pc[r]
      BY <2>3 DEF Crash, Running
    <3> QED BY <3>1, <3>2, PromptRest
  <2>4. ASSUME NEW q \in Requests, Receive(q) \/ Step(q) PROVE PromptInv'
    <3>1. AckLost(q) => pc[q] \in {"insert", "commit", "deleteKey"}
      BY DEF AckLost
    <3> QED BY <2>4, <3>1, PromptReceive, PromptInsert, PromptInsertKey, PromptLookup,
               PromptDelete, PromptEnd DEF Step
  <2> QED BY <2>1, <2>2, <2>3, <2>4 DEF Next
<1> QED BY <1>1, <1>2, Invariance, PTL DEF Spec

\* A request that runs alone is never told to retry, finds the record that it
\* looks up and is in no deadlock, whatever failed or died before it; and
\* nobody is told to retry while requests end within one unit of time.
THEOREM NobodyTripsAlone ==
  Spec => [](/\ Serial => \A r \in Requests : reply[r] \notin {"retry", "missing", "deadlock"}
             /\ Prompt => \A r \in Requests : reply[r] # "retry")
<1>1. (Serial => SerialInv) /\ (Prompt => PromptInv) =>
        /\ Serial => \A r \in Requests : reply[r] \notin {"retry", "missing", "deadlock"}
        /\ Prompt => \A r \in Requests : reply[r] # "retry"
  BY DEF SerialInv, AskFits, PromptInv, PromptFits
<1> QED BY <1>1, SerialInvariance, PromptInvariance, PTL
=============================================================================
