-------------------------- MODULE BatchCreate_proofs --------------------------
(***************************************************************************)
(* The safety of BatchCreate for every number of requests and items, every *)
(* body, with faults and crashes.                                          *)
(***************************************************************************)
EXTENDS BatchCreate, TLAPS

(* The inductive invariant.  The results of a batch are those of the items *)
(* before the current one, each result is sound, and an item without a     *)
(* result has no row, the current one excepted once it is inserted.        *)

Legal(r) == LegalSize(batch[r])

LocalsFit(r) ==
  /\ pc[r] = "idle" => i[r] = 1 /\ results[r] = << >>
  /\ pc[r] # "idle" => batch[r] \in Seq(Item)
  /\ pc[r] # "done" => reply[r] = "none"
  /\ pc[r] \in Running \cup {"lost"} =>
       /\ Legal(r) /\ actor[r] \in Users
       /\ i[r] <= Len(batch[r])
       /\ Len(results[r]) = i[r] - 1
  /\ pc[r] = "done" /\ Legal(r) =>
       /\ i[r] = Len(batch[r]) /\ Len(results[r]) = Len(batch[r])
       /\ reply[r] = AnswerCode(results[r])
  /\ pc[r] = "done" /\ ~Legal(r) =>
       i[r] = 1 /\ results[r] = << >> /\ reply[r] = "400"

\* The row of an item is there, with the item's payload.
Stored(r, j) ==
  /\ batch[r][j].form = "good"
  /\ Made(r, j)
  /\ rows[Id(r, j)] = PendingRow(batch[r][j].note)

\* What an outcome says of the item at place j.
Sound(r, j, outcome) ==
  /\ outcome = "created" =>
       /\ Stored(r, j)
       /\ Entries(r, j) \subseteq {ItsEntry(r, j)}
       /\ Id(r, j) \notin hit => Entries(r, j) # {}
  /\ outcome = "invalid" =>
       batch[r][j].form = "invalid" /\ ~Made(r, j) /\ Entries(r, j) = {}
  /\ outcome = "failed" =>
       /\ batch[r][j].form # "invalid" /\ Entries(r, j) = {}
       /\ Made(r, j) => Stored(r, j) /\ Id(r, j) \in hit
       /\ batch[r][j].form = "good" => Id(r, j) \in hit

Concluded(r, j) ==
  /\ results[r][j].index = j
  /\ results[r][j].outcome \in Outcomes
  /\ Sound(r, j, results[r][j].outcome)

PlaceFits(r, j) ==
  /\ j \in 1 .. Len(results[r]) => Concluded(r, j)
  /\ j \notin 1 .. Len(results[r]) =>
       /\ Entries(r, j) = {}
       /\ Made(r, j) => j = i[r] /\ pc[r] \in {"audit", "lost"} /\ Stored(r, j)
  /\ pc[r] = "audit" /\ j = i[r] => Stored(r, j)

IInv ==
  /\ TypeOK
  /\ \A r \in Requests : LocalsFit(r)
  /\ \A r \in Requests : \A j \in Nat : PlaceFits(r, j)

-----------------------------------------------------------------------------
(* Rows, entries and codes.                                                *)

LEMMA RowFacts ==
  /\ NoRow \in Row /\ NoRow.status = "NONE"
  /\ \A note \in Notes : PendingRow(note) \in Row /\ PendingRow(note).status = "PENDING"
  BY TableAssumption DEF NoRow, PendingRow, Row, Statuses

LEMMA IdFacts ==
  ASSUME NEW r \in Requests
  PROVE  /\ \A j \in 1 .. MaxItems : Id(r, j) \in Ids
         /\ \A q \in Requests : \A j, k \in Nat : Id(r, j) = Id(q, k) => r = q /\ j = k
  BY BatchAssumption DEF Id

LEMMA AnswerCodeFacts == \A res : AnswerCode(res) \in Codes
  BY DEF AnswerCode, Codes

\* The current item of a request that works on it.
LEMMA CurrentFacts ==
  ASSUME IInv, NEW q \in Requests, pc[q] \in Running
  PROVE  /\ i[q] \in 1 .. MaxItems /\ i[q] \in 1 .. Len(batch[q])
         /\ Len(batch[q]) \in 1 .. MaxItems
         /\ Current(q) = batch[q][i[q]] /\ Current(q) \in Item
         /\ Current(q).note \in Notes /\ Current(q).form \in Forms
         /\ Id(q, i[q]) \in Ids
         /\ Len(results[q]) = i[q] - 1
         /\ actor[q] \in Users
<1>1. /\ Legal(q) /\ i[q] <= Len(batch[q]) /\ Len(results[q]) = i[q] - 1
      /\ actor[q] \in Users /\ batch[q] \in Seq(Item)
  BY DEF IInv, LocalsFit, Running
<1>2. i[q] \in 1 .. MaxItems /\ Len(batch[q]) \in 1 .. MaxItems
  BY <1>1 DEF IInv, TypeOK, Legal, LegalSize
<1>3. i[q] \in 1 .. Len(batch[q])
  BY <1>1, <1>2, BatchAssumption
<1>4. batch[q][i[q]] \in Item
  BY <1>1, <1>3
<1> QED BY <1>1, <1>2, <1>3, <1>4, IdFacts DEF Current, Item

\* There is at most one result for each item of a batch of legal size.
LEMMA ResultsBound ==
  ASSUME IInv, NEW r \in Requests
  PROVE  Len(results[r]) \in 0 .. MaxItems
<1>1. LocalsFit(r) /\ pc[r] \in {"idle", "done", "lost", "item", "audit"}
  BY DEF IInv, TypeOK, Running
<1>2. i[r] \in 1 .. MaxItems /\ MaxItems \in Nat
  BY BatchAssumption DEF IInv, TypeOK
<1>3. CASE pc[r] = "idle"
  BY <1>1, <1>2, <1>3 DEF LocalsFit
<1>4. CASE pc[r] \in {"lost", "item", "audit"}
  BY <1>1, <1>2, <1>4 DEF LocalsFit, Running
<1>5. CASE pc[r] = "done" /\ Legal(r)
  BY <1>1, <1>2, <1>5 DEF LocalsFit, Legal, LegalSize
<1>6. CASE pc[r] = "done" /\ ~Legal(r)
  BY <1>1, <1>2, <1>6 DEF LocalsFit
<1> QED BY <1>1, <1>3, <1>4, <1>5, <1>6

-----------------------------------------------------------------------------
(* What a step of q leaves alone.                                          *)

Frame(q) ==
  \A r \in Requests \ {q} :
    /\ pc'[r] = pc[r] /\ batch'[r] = batch[r] /\ actor'[r] = actor[r]
    /\ i'[r] = i[r] /\ results'[r] = results[r] /\ reply'[r] = reply[r]

\* Only the current item of q gets a row, an entry or a fault.
Touch(q) ==
  /\ \A id \in Ids : id # Id(q, i[q]) => rows'[id] = rows[id] /\ (id \in hit' <=> id \in hit)
  /\ audit \subseteq audit'
  /\ \A e \in audit' : e \in audit \/ e.entity = Id(q, i[q])

\* An item that is not the current one of q stays as it was.
LEMMA ElsewhereSame ==
  ASSUME IInv, NEW q \in Requests, Touch(q), i[q] \in Nat,
         NEW r \in Requests, NEW j \in Nat, ~(r = q /\ j = i[q])
  PROVE  /\ Entries(r, j)' = Entries(r, j)
         /\ Made(r, j)' = Made(r, j)
         /\ Id(r, j) \in Ids => rows'[Id(r, j)] = rows[Id(r, j)]
         /\ Id(r, j) \in Ids => (Id(r, j) \in hit' <=> Id(r, j) \in hit)
<1>1. Id(r, j) # Id(q, i[q])
  BY IdFacts
<1>2. Entries(r, j)' = Entries(r, j)
  BY <1>1 DEF Entries, Touch, Id
<1>3. Id(r, j) \in Ids =>
        /\ rows'[Id(r, j)] = rows[Id(r, j)]
        /\ Id(r, j) \in hit' <=> Id(r, j) \in hit
  BY <1>1 DEF Touch
<1>4. Made(r, j)' = Made(r, j)
  BY <1>3 DEF Made, Exists, Id
<1> QED BY <1>2, <1>3, <1>4

LEMMA ElsewhereFits ==
  ASSUME IInv, NEW q \in Requests, Touch(q), i[q] \in Nat,
         NEW r \in Requests, NEW j \in Nat, ~(r = q /\ j = i[q]),
         batch'[r] = batch[r], actor'[r] = actor[r],
         j \in 1 .. Len(results'[r]) <=> j \in 1 .. Len(results[r]),
         j \in 1 .. Len(results[r]) => results'[r][j] = results[r][j],
         r # q => pc'[r] = pc[r] /\ i'[r] = i[r],
         r = q /\ pc'[r] = "audit" => i'[r] = i[r]
  PROVE  PlaceFits(r, j)'
<1>1. PlaceFits(r, j)
  BY DEF IInv
<1>2. /\ Entries(r, j)' = Entries(r, j) /\ Made(r, j)' = Made(r, j)
      /\ Id(r, j) \in Ids => rows'[Id(r, j)] = rows[Id(r, j)]
      /\ Id(r, j) \in Ids => (Id(r, j) \in hit' <=> Id(r, j) \in hit)
  BY ElsewhereSame
<1>3. Stored(r, j)' <=> Stored(r, j)
  BY <1>2 DEF Stored, Made, Id
<1>4. Made(r, j) => Id(r, j) \in Ids
  BY DEF Made
<1>5. Id(r, j) \in Ids => ItsEntry(r, j)' = ItsEntry(r, j)
  BY <1>2 DEF ItsEntry, Id
<1>6. CASE j \in 1 .. Len(results[r])
  <2>1. Concluded(r, j)
    BY <1>1, <1>6 DEF PlaceFits
  <2>2. Id(r, j) \in Ids
    <3>1. Len(results[r]) <= MaxItems
      BY ResultsBound
    <3> QED BY <1>6, <3>1, IdFacts, BatchAssumption
  <2>3. \A outcome \in Outcomes : Sound(r, j, outcome) => Sound(r, j, outcome)'
    BY <1>2, <1>3, <1>5, <2>2 DEF Sound, Id
  <2>4. Concluded(r, j)'
    BY <1>6, <2>1, <2>3 DEF Concluded
  <2>5. (pc[r] = "audit" /\ j = i[r] => Stored(r, j))'
    BY <1>1, <1>3 DEF PlaceFits
  <2> QED BY <1>6, <2>4, <2>5 DEF PlaceFits
<1>7. CASE j \notin 1 .. Len(results[r])
  BY <1>1, <1>2, <1>3, <1>7 DEF PlaceFits
<1> QED BY <1>6, <1>7

\* A step that keeps the types, the locals of q and its current item keeps
\* everything.
LEMMA StepKeepsIInv ==
  ASSUME IInv, NEW q \in Requests, NEW place \in Nat, place = i[q],
         Frame(q), Touch(q), TypeOK', LocalsFit(q)', PlaceFits(q, place)',
         batch'[q] = batch[q], actor'[q] = actor[q],
         \A j \in Nat \ {place} :
           /\ j \in 1 .. Len(results'[q]) <=> j \in 1 .. Len(results[q])
           /\ j \in 1 .. Len(results[q]) => results'[q][j] = results[q][j],
         pc'[q] = "audit" => i'[q] = i[q]
  PROVE  IInv'
<1>1. ASSUME NEW r \in Requests PROVE LocalsFit(r)'
  BY DEF IInv, Frame, LocalsFit, Legal
<1>2. ASSUME NEW r \in Requests, NEW j \in Nat PROVE PlaceFits(r, j)'
  <2>1. CASE r = q /\ j = place
    BY <2>1
  <2>2. CASE r = q /\ j # place
    BY <2>2, ElsewhereFits
  <2>3. CASE r # q
    BY <2>3, ElsewhereFits DEF Frame
  <2> QED BY <2>1, <2>2, <2>3
<1> QED BY <1>1, <1>2 DEF IInv

\* The item of q has its result, which is sound.
LEMMA ConcludeKeepsIInv ==
  ASSUME IInv, NEW q \in Requests, NEW place \in Nat, place = i[q],
         pc[q] \in Running, NEW outcome \in Outcomes, Conclude(q, outcome),
         UNCHANGED <<batch, actor>>, Touch(q),
         rows' \in [Ids -> Row], audit' \subseteq AuditEntry, hit' \subseteq Ids,
         Sound(q, place, outcome)'
  PROVE  IInv'
<1> DEFINE last == [index |-> place, outcome |-> outcome]
           all == Append(results[q], last)
<1>1. /\ place \in 1 .. MaxItems /\ place \in 1 .. Len(batch[q])
      /\ Len(batch[q]) \in 1 .. MaxItems /\ Len(results[q]) = place - 1
  BY CurrentFacts
<1>2. results[q] \in Seq(Result) /\ last \in Result
  BY DEF IInv, TypeOK, Result
<1>3. /\ all \in Seq(Result) /\ Len(all) = place /\ all[place] = last
      /\ \A j \in 1 .. (place - 1) : all[j] = results[q][j]
  BY <1>1, <1>2
<1>4. /\ results' = [results EXCEPT ![q] = all]
      /\ place = Len(batch[q]) =>
           /\ i' = i /\ pc' = [pc EXCEPT ![q] = "done"]
           /\ reply' = [reply EXCEPT ![q] = AnswerCode(all)]
      /\ place # Len(batch[q]) =>
           /\ i' = [i EXCEPT ![q] = place + 1]
           /\ pc' = [pc EXCEPT ![q] = "item"] /\ reply' = reply
  BY DEF Conclude, Answer, Goto
<1> HIDE DEF all, last
<1>5. i' \in [Requests -> 1 .. MaxItems]
  <2>1. place # Len(batch[q]) => place + 1 \in 1 .. MaxItems
    BY <1>1, BatchAssumption
  <2> QED BY <1>4, <2>1 DEF IInv, TypeOK
<1>6. TypeOK'
  <2>1. reply' \in [Requests -> Codes \cup {"none"}]
    <3>1. AnswerCode(all) \in Codes
      BY AnswerCodeFacts
    <3>2. CASE place = Len(batch[q])
      BY <1>4, <3>1, <3>2 DEF IInv, TypeOK
    <3>3. CASE place # Len(batch[q])
      BY <1>4, <3>3 DEF IInv, TypeOK
    <3> QED BY <3>2, <3>3
  <2>2. pc' \in [Requests -> {"idle", "done", "lost"} \cup Running]
    BY <1>4 DEF IInv, TypeOK, Running
  <2>3. results' \in [Requests -> Seq(Result)]
    BY <1>3, <1>4 DEF IInv, TypeOK
  <2> QED BY <1>5, <2>1, <2>2, <2>3 DEF IInv, TypeOK
<1>7. Frame(q)
  BY <1>4 DEF Frame, IInv, TypeOK
<1>8. /\ results'[q] = all
      /\ place = Len(batch[q]) =>
           pc'[q] = "done" /\ i'[q] = place /\ reply'[q] = AnswerCode(all)
      /\ place # Len(batch[q]) =>
           pc'[q] = "item" /\ i'[q] = place + 1 /\ reply'[q] = reply[q]
  BY <1>4 DEF IInv, TypeOK
<1>9. LocalsFit(q)'
  <2>1. LocalsFit(q) /\ Legal(q)
    BY DEF IInv, LocalsFit, Running
  <2>2. Legal(q)' /\ batch'[q] = batch[q] /\ actor'[q] = actor[q]
    BY <2>1 DEF Legal
  <2>3. batch[q] \in Seq(Item) /\ reply[q] = "none" /\ actor[q] \in Users
    BY <2>1 DEF LocalsFit, Running
  <2>4. CASE place = Len(batch[q])
    BY <1>3, <1>8, <2>2, <2>3, <2>4 DEF LocalsFit, Running
  <2>5. CASE place # Len(batch[q])
    <3>1. place + 1 <= Len(batch[q]) /\ Len(all) = (place + 1) - 1
      BY <1>1, <1>3, <2>5, BatchAssumption
    <3> QED BY <1>8, <2>2, <2>3, <2>5, <3>1 DEF LocalsFit, Running
  <2> QED BY <2>4, <2>5
<1>10. PlaceFits(q, place)'
  <2>1. Concluded(q, place)'
    BY <1>3, <1>8 DEF Concluded, last
  <2>2. place \in 1 .. Len(results'[q])
    BY <1>1, <1>3, <1>8
  <2>3. pc'[q] # "audit"
    BY <1>8
  <2> QED BY <2>1, <2>2, <2>3 DEF PlaceFits
<1>11. ASSUME NEW j \in Nat \ {place}
       PROVE  /\ j \in 1 .. Len(results'[q]) <=> j \in 1 .. Len(results[q])
              /\ j \in 1 .. Len(results[q]) => results'[q][j] = results[q][j]
  BY <1>1, <1>3, <1>8
<1>12. pc'[q] # "audit"
  BY <1>8
<1> QED BY <1>6, <1>7, <1>9, <1>10, <1>11, <1>12, StepKeepsIInv

-----------------------------------------------------------------------------
(* The actions.                                                            *)

LEMMA InitIInv == Init => IInv
<1> SUFFICES ASSUME Init PROVE IInv
  OBVIOUS
<1>1. TypeOK
  <2>1. 1 \in 1 .. MaxItems /\ << >> \in Seq(Result)
    BY BatchAssumption
  <2> QED BY <2>1, RowFacts DEF Init, TypeOK
<1>2. ASSUME NEW r \in Requests PROVE LocalsFit(r)
  BY DEF Init, LocalsFit, Running
<1>3. ASSUME NEW r \in Requests, NEW j \in Nat PROVE PlaceFits(r, j)
  <2>1. results[r] = << >> /\ pc[r] = "idle"
    BY DEF Init
  <2>2. j \notin 1 .. Len(results[r])
    BY <2>1
  <2>3. Entries(r, j) = {} /\ ~Made(r, j)
    BY RowFacts DEF Init, Entries, Made, Exists
  <2> QED BY <2>1, <2>2, <2>3 DEF PlaceFits
<1> QED BY <1>1, <1>2, <1>3 DEF IInv

LEMMA ReceiveKeepsIInv ==
  ASSUME IInv, NEW q \in Requests, Receive(q)
  PROVE  IInv'
<1>1. PICK items \in Batches, user \in Users :
        /\ batch' = [batch EXCEPT ![q] = items]
        /\ actor' = [actor EXCEPT ![q] = user]
        /\ IF LegalSize(items) THEN Goto(q, "item") ELSE Answer(q, "400")
  BY DEF Receive
<1>2. /\ LegalSize(items) => pc' = [pc EXCEPT ![q] = "item"] /\ reply' = reply
      /\ ~LegalSize(items) => /\ pc' = [pc EXCEPT ![q] = "done"]
                              /\ reply' = [reply EXCEPT ![q] = "400"]
  BY <1>1 DEF Goto, Answer
<1>3. pc[q] = "idle" /\ UNCHANGED <<rows, audit, i, results, hit>>
  BY DEF Receive, tables
<1>4. TypeOK'
  <2>1. pc' \in [Requests -> {"idle", "done", "lost"} \cup Running]
    BY <1>2 DEF IInv, TypeOK, Running
  <2>2. reply' \in [Requests -> Codes \cup {"none"}]
    BY <1>2 DEF IInv, TypeOK, Codes
  <2> QED BY <1>1, <1>3, <2>1, <2>2 DEF IInv, TypeOK
<1>5. items \in Seq(Item) /\ batch'[q] = items /\ actor'[q] = user
  BY <1>1, BatchAssumption DEF IInv, TypeOK
<1>6. i[q] = 1 /\ results[q] = << >> /\ reply[q] = "none"
  BY <1>3 DEF IInv, LocalsFit
<1>7. ASSUME NEW r \in Requests, r # q
      PROVE  /\ pc'[r] = pc[r] /\ batch'[r] = batch[r] /\ actor'[r] = actor[r]
             /\ reply'[r] = reply[r]
  BY <1>1, <1>2, <1>7 DEF IInv, TypeOK
<1>8. ASSUME NEW r \in Requests PROVE LocalsFit(r)'
  <2>1. CASE r = q /\ LegalSize(items)
    <3>1. pc'[q] = "item" /\ reply'[q] = "none" /\ Legal(q)'
      BY <1>2, <1>5, <1>6, <2>1 DEF IInv, TypeOK, Legal
    <3>2. 1 <= Len(items) /\ Len(<< >>) = 1 - 1
      BY <2>1, BatchAssumption DEF LegalSize
    <3> QED BY <1>3, <1>5, <1>6, <2>1, <3>1, <3>2 DEF LocalsFit, Running
  <2>2. CASE r = q /\ ~LegalSize(items)
    <3>1. pc'[q] = "done" /\ reply'[q] = "400" /\ ~Legal(q)'
      BY <1>2, <1>5, <2>2 DEF IInv, TypeOK, Legal
    <3> QED BY <1>3, <1>5, <1>6, <2>2, <3>1 DEF LocalsFit, Running
  <2>3. CASE r # q
    BY <1>3, <1>7, <2>3 DEF IInv, LocalsFit, Legal
  <2> QED BY <2>1, <2>2, <2>3
<1>9. ASSUME NEW r \in Requests, NEW j \in Nat PROVE PlaceFits(r, j)'
  <2>1. PlaceFits(r, j)
    BY DEF IInv
  <2>2. Entries(r, j)' = Entries(r, j) /\ (Made(r, j)' <=> Made(r, j))
    BY <1>3 DEF Entries, Made, Exists, Id
  <2>3. CASE r = q
    <3>1. j \notin 1 .. Len(results[r]) /\ results'[r] = results[r]
      BY <1>3, <1>6, <2>3
    <3>2. Entries(r, j) = {} /\ ~Made(r, j)
      BY <1>3, <2>1, <2>3, <3>1 DEF PlaceFits
    <3>3. pc'[r] # "audit"
      BY <1>2, <2>3 DEF IInv, TypeOK
    <3> QED BY <2>2, <3>1, <3>2, <3>3 DEF PlaceFits
  <2>4. CASE r # q
    <3>1. /\ pc'[r] = pc[r] /\ batch'[r] = batch[r] /\ actor'[r] = actor[r]
          /\ i'[r] = i[r] /\ results'[r] = results[r] /\ rows' = rows /\ hit' = hit
      BY <1>3, <1>7, <2>4
    <3>2. (Stored(r, j)' <=> Stored(r, j)) /\ ItsEntry(r, j)' = ItsEntry(r, j)
      BY <2>2, <3>1 DEF Stored, ItsEntry, Id
    <3>3. Concluded(r, j) => Concluded(r, j)'
      BY <2>2, <3>1, <3>2 DEF Concluded, Sound, Id
    <3> QED BY <2>1, <2>2, <3>1, <3>2, <3>3 DEF PlaceFits
  <2> QED BY <2>3, <2>4
<1> QED BY <1>4, <1>8, <1>9 DEF IInv

\* A request at an item has neither a row nor an entry for it.
LEMMA FreshItem ==
  ASSUME IInv, NEW q \in Requests, pc[q] = "item"
  PROVE  ~Made(q, i[q]) /\ Entries(q, i[q]) = {}
<1>1. i[q] \in Nat /\ i[q] \notin 1 .. Len(results[q])
  BY CurrentFacts DEF Running
<1> QED BY <1>1 DEF IInv, PlaceFits

LEMMA RejectKeepsIInv ==
  ASSUME IInv, NEW q \in Requests, RejectItem(q) \/ InsertRefused(q)
  PROVE  IInv'
<1>1. /\ pc[q] = "item"
      /\ UNCHANGED <<rows, audit, batch, actor, hit>>
  BY DEF RejectItem, InsertRefused, tables
<1>2. PICK place \in Nat : place = i[q]
  BY <1>1, CurrentFacts DEF Running
<1>3. Current(q) = batch[q][place] /\ Current(q).form \in Forms
  BY <1>1, <1>2, CurrentFacts DEF Running
<1>4. Touch(q)
  BY <1>1 DEF Touch
<1>5. ~Made(q, place)' /\ Entries(q, place)' = {}
  BY <1>1, <1>2, FreshItem DEF Made, Exists, Entries, Id
<1>6. rows' \in [Ids -> Row] /\ audit' \subseteq AuditEntry /\ hit' \subseteq Ids
  BY <1>1 DEF IInv, TypeOK
<1>7. CASE RejectItem(q)
  <2>1. Conclude(q, "invalid") /\ batch[q][place].form = "invalid"
    BY <1>3, <1>7 DEF RejectItem, Passes
  <2>2. Sound(q, place, "invalid")'
    BY <1>1, <1>5, <2>1 DEF Sound
  <2> QED BY <1>1, <1>2, <1>4, <1>6, <2>1, <2>2, ConcludeKeepsIInv DEF Running, Outcomes
<1>8. CASE InsertRefused(q)
  <2>1. Conclude(q, "failed") /\ batch[q][place].form = "oversized"
    BY <1>3, <1>8 DEF InsertRefused, Passes, Fits, Forms
  <2>2. Sound(q, place, "failed")'
    BY <1>1, <1>5, <2>1 DEF Sound
  <2> QED BY <1>1, <1>2, <1>4, <1>6, <2>1, <2>2, ConcludeKeepsIInv DEF Running, Outcomes
<1> QED BY <1>7, <1>8

\* The row that InsertItem and InsertFails store.
LEMMA InsertStores ==
  ASSUME IInv, NEW q \in Requests, pc[q] = "item", NEW place \in Nat, place = i[q],
         Passes(Current(q)), Fits(Current(q)),
         InsertDisbursement(Id(q, i[q]), PendingRow(Current(q).note)), batch' = batch
  PROVE  /\ rows' \in [Ids -> Row]
         /\ Stored(q, place)'
         /\ \A id \in Ids : id # Id(q, i[q]) => rows'[id] = rows[id]
<1>1. /\ Id(q, place) \in Ids /\ Current(q) = batch[q][place]
      /\ Current(q).note \in Notes /\ Current(q).form \in Forms
  BY CurrentFacts DEF Running
<1>2. rows' = [rows EXCEPT ![Id(q, place)] = PendingRow(batch[q][place].note)]
  BY <1>1 DEF InsertDisbursement
<1>3. rows'[Id(q, place)] = PendingRow(batch[q][place].note) /\ rows' \in [Ids -> Row]
  BY <1>1, <1>2, RowFacts DEF IInv, TypeOK
<1>4. rows'[Id(q, place)].status # "NONE"
  BY <1>1, <1>3, RowFacts
<1>5. batch[q][place].form = "good"
  BY <1>1 DEF Passes, Fits, Forms
<1>6. Stored(q, place)'
  BY <1>1, <1>3, <1>4, <1>5 DEF Stored, Made, Exists, Id
<1>7. \A id \in Ids : id # Id(q, place) => rows'[id] = rows[id]
  BY <1>2 DEF IInv, TypeOK
<1> QED BY <1>3, <1>6, <1>7

LEMMA InsertKeepsIInv ==
  ASSUME IInv, NEW q \in Requests, InsertItem(q)
  PROVE  IInv'
<1>1. /\ pc[q] = "item" /\ pc' = [pc EXCEPT ![q] = "audit"]
      /\ UNCHANGED <<audit, batch, actor, i, results, hit, reply>>
  BY DEF InsertItem, Goto, locals
<1>2. PICK place \in Nat : place = i[q]
  BY <1>1, CurrentFacts DEF Running
<1>3. /\ rows' \in [Ids -> Row] /\ Stored(q, place)'
      /\ \A id \in Ids : id # Id(q, i[q]) => rows'[id] = rows[id]
  BY <1>1, <1>2, InsertStores DEF InsertItem
<1>4. Touch(q) /\ Frame(q)
  BY <1>1, <1>3 DEF Touch, Frame, IInv, TypeOK
<1>5. TypeOK'
  BY <1>1, <1>3 DEF IInv, TypeOK, Running
<1>6. pc'[q] = "audit" /\ i'[q] = i[q]
  BY <1>1 DEF IInv, TypeOK
<1>7. LocalsFit(q)'
  BY <1>1, <1>6 DEF IInv, LocalsFit, Legal, Running
<1>8. PlaceFits(q, place)'
  <2>1. place \notin 1 .. Len(results[q])
    BY <1>1, <1>2, CurrentFacts DEF Running
  <2>2. Entries(q, place)' = {}
    BY <1>1, <1>2, FreshItem DEF Entries, Id
  <2> QED BY <1>1, <1>2, <1>3, <1>6, <2>1, <2>2 DEF PlaceFits
<1> QED BY <1>1, <1>2, <1>4, <1>5, <1>6, <1>7, <1>8, StepKeepsIInv

LEMMA InsertFailsKeepsIInv ==
  ASSUME IInv, NEW q \in Requests, InsertFails(q)
  PROVE  IInv'
<1>1. /\ pc[q] = "item" /\ Conclude(q, "failed")
      /\ hit' = hit \cup {Id(q, i[q])}
      /\ UNCHANGED <<audit, batch, actor>>
  BY DEF InsertFails
<1>2. PICK place \in Nat : place = i[q]
  BY <1>1, CurrentFacts DEF Running
<1>3. /\ Id(q, place) \in Ids /\ Current(q) = batch[q][place]
      /\ Current(q).form \in Forms
  BY <1>1, <1>2, CurrentFacts DEF Running
<1>4. /\ rows' \in [Ids -> Row] /\ (Made(q, place)' => Stored(q, place)')
      /\ \A id \in Ids : id # Id(q, i[q]) => rows'[id] = rows[id]
  <2>1. CASE UNCHANGED rows
    <3>1. ~Made(q, place)'
      BY <1>1, <1>2, <2>1, FreshItem DEF Made, Exists, Id
    <3> QED BY <2>1, <3>1 DEF IInv, TypeOK
  <2>2. CASE InsertDisbursement(Id(q, i[q]), PendingRow(Current(q).note))
    BY <1>1, <1>2, <2>2, InsertStores DEF InsertFails
  <2> QED BY <2>1, <2>2 DEF InsertFails
<1>5. Touch(q)
  BY <1>1, <1>4 DEF Touch
<1>6. Entries(q, place)' = {}
  BY <1>1, <1>2, FreshItem DEF Entries, Id
<1>7. batch'[q][place].form # "invalid"
  BY <1>1, <1>3 DEF InsertFails, Passes
<1>8. Sound(q, place, "failed")'
  BY <1>1, <1>2, <1>4, <1>6, <1>7 DEF Sound, Id
<1>9. hit' \subseteq Ids /\ audit' \subseteq AuditEntry
  BY <1>1, <1>2, <1>3 DEF IInv, TypeOK
<1> QED BY <1>1, <1>2, <1>4, <1>5, <1>8, <1>9, ConcludeKeepsIInv DEF Running, Outcomes

LEMMA AuditKeepsIInv ==
  ASSUME IInv, NEW q \in Requests, WriteAudit(q)
  PROVE  IInv'
<1>1. pc[q] = "audit" /\ Conclude(q, "created") /\ UNCHANGED <<rows, batch, actor>>
  BY DEF WriteAudit
<1>2. PICK place \in Nat : place = i[q]
  BY <1>1, CurrentFacts DEF Running
<1>3. /\ Id(q, place) \in Ids /\ Current(q) = batch[q][place]
      /\ Current(q).note \in Notes /\ actor[q] \in Users
      /\ place \notin 1 .. Len(results[q])
  BY <1>1, <1>2, CurrentFacts DEF Running
<1>4. Stored(q, place) /\ Entries(q, place) = {}
  BY <1>1, <1>2, <1>3 DEF IInv, PlaceFits
<1>5. Stored(q, place)'
  BY <1>1, <1>4 DEF Stored, Made, Exists, Id
<1>6. CreatedEntry(q) = ItsEntry(q, place)'
  BY <1>1, <1>2, <1>3, <1>4 DEF CreatedEntry, ItsEntry, Stored, Id
<1>7. CreatedEntry(q) \in AuditEntry /\ CreatedEntry(q).entity = Id(q, place)
  BY <1>2, <1>3, RowFacts DEF CreatedEntry, AuditEntry
<1>8. /\ Touch(q) /\ audit' \subseteq AuditEntry /\ hit' \subseteq Ids
      /\ Sound(q, place, "created")'
  <2>1. CASE InsertAudit(CreatedEntry(q)) /\ UNCHANGED hit
    <3>1. audit' = audit \cup {CreatedEntry(q)}
      BY <2>1 DEF InsertAudit
    <3>2. Entries(q, place)' = {CreatedEntry(q)}
      BY <1>4, <1>7, <3>1 DEF Entries, Id
    <3>3. Touch(q)
      BY <1>1, <1>2, <1>7, <2>1, <3>1 DEF Touch
    <3> QED BY <1>5, <1>6, <1>7, <2>1, <3>1, <3>2, <3>3 DEF Sound, IInv, TypeOK
  <2>2. CASE UNCHANGED audit /\ hit' = hit \cup {Id(q, i[q])}
    <3>1. Entries(q, place)' = {}
      BY <1>4, <2>2 DEF Entries, Id
    <3>2. Touch(q)
      BY <1>1, <2>2 DEF Touch
    <3>3. Id(q, place)' \in hit'
      BY <1>2, <2>2 DEF Id
    <3> QED BY <1>2, <1>3, <1>5, <2>2, <3>1, <3>2, <3>3 DEF Sound, IInv, TypeOK
  <2> QED BY <2>1, <2>2 DEF WriteAudit
<1>9. rows' \in [Ids -> Row]
  BY <1>1 DEF IInv, TypeOK
<1> QED BY <1>1, <1>2, <1>8, <1>9, ConcludeKeepsIInv DEF Running, Outcomes

\* The crash, and a step that changes nothing.
LEMMA CrashKeepsIInv ==
  ASSUME IInv, UNCHANGED <<tables, locals, hit, reply>>,
         pc' \in [Requests -> {"idle", "done", "lost"} \cup Running],
         \A r \in Requests : pc'[r] = pc[r] \/ (pc[r] \in Running /\ pc'[r] = "lost")
  PROVE  IInv'
<1>1. UNCHANGED <<rows, audit, batch, actor, i, results, hit, reply>>
  BY DEF tables, locals
<1>2. TypeOK'
  BY <1>1 DEF IInv, TypeOK
<1>3. ASSUME NEW r \in Requests PROVE LocalsFit(r)'
  BY <1>1 DEF IInv, LocalsFit, Legal, Running
<1>4. ASSUME NEW r \in Requests, NEW j \in Nat PROVE PlaceFits(r, j)'
  <2>1. PlaceFits(r, j) /\ (pc'[r] = pc[r] \/ (pc[r] \in Running /\ pc'[r] = "lost"))
    BY DEF IInv
  <2>2. /\ Entries(r, j)' = Entries(r, j) /\ (Made(r, j)' <=> Made(r, j))
        /\ ItsEntry(r, j)' = ItsEntry(r, j) /\ (Stored(r, j)' <=> Stored(r, j))
    BY <1>1 DEF Entries, Made, Exists, Id, ItsEntry, Stored
  <2>3. Concluded(r, j) => Concluded(r, j)'
    BY <1>1, <2>2 DEF Concluded, Sound, Id
  <2> QED BY <1>1, <2>1, <2>2, <2>3 DEF PlaceFits, Running
<1> QED BY <1>2, <1>3, <1>4 DEF IInv

LEMMA NextKeepsIInv == IInv /\ [Next]_vars => IInv'
<1> SUFFICES ASSUME IInv, [Next]_vars PROVE IInv'
  OBVIOUS
<1>1. CASE UNCHANGED vars
  BY <1>1, CrashKeepsIInv DEF vars, IInv, TypeOK
<1>2. ASSUME NEW r \in Requests, Receive(r) PROVE IInv'
  BY <1>2, ReceiveKeepsIInv
<1>3. ASSUME NEW r \in Requests, Step(r) PROVE IInv'
  BY <1>3, RejectKeepsIInv, InsertKeepsIInv, InsertFailsKeepsIInv, AuditKeepsIInv DEF Step
<1>4. CASE Crash
  BY <1>4, CrashKeepsIInv DEF Crash, IInv, TypeOK
<1> QED BY <1>1, <1>2, <1>3, <1>4 DEF Next

THEOREM Invariant == Spec => []IInv
BY InitIInv, NextKeepsIInv, PTL DEF Spec

-----------------------------------------------------------------------------
(* The theorems.                                                           *)

\* Every variable keeps its type; in particular no batch gets past its limit.
THEOREM TypeCorrect == Spec => []TypeOK
<1>1. IInv => TypeOK
  BY DEF IInv
<1> QED BY <1>1, Invariant, PTL

\* The result of each item is about that item and tells whether its row is
\* there, in batches of any size and however many run.
THEOREM ResultsAreTrue == Spec => []ResultsTell
<1>1. ASSUME IInv, NEW r \in Requests, NEW j \in DOMAIN results[r]
      PROVE  /\ results[r][j].index = j
             /\ Sound(r, j, results[r][j].outcome)
             /\ results[r][j].outcome \in Outcomes
  <2>1. results[r] \in Seq(Result) /\ j \in 1 .. Len(results[r])
    BY <1>1 DEF IInv, TypeOK
  <2>2. PlaceFits(r, j)
    BY <1>1, <2>1 DEF IInv
  <2> QED BY <2>1, <2>2 DEF PlaceFits, Concluded
<1>2. IInv => ResultsTell
  BY <1>1 DEF ResultsTell, Sound, Stored, Outcomes
<1> QED BY <1>2, Invariant, PTL

\* 201, 207 and 400 say what became of the items.
THEOREM CodesAreTrue == Spec => []CodeTells
<1>1. IInv => CodeTells
  <2> SUFFICES ASSUME IInv, NEW r \in Requests, pc[r] = "done"
               PROVE  /\ reply[r] = "201" => \A j \in 1 .. Len(batch[r]) : Made(r, j)
                      /\ reply[r] = "207" =>
                           /\ \E j \in 1 .. Len(batch[r]) : Made(r, j)
                           /\ \E j \in 1 .. Len(batch[r]) : ~Made(r, j) \/ Id(r, j) \in hit
                      /\ reply[r] = "400" =>
                           \A j \in 1 .. Len(batch[r]) : Made(r, j) => Id(r, j) \in hit
                      /\ Len(results[r]) =
                           IF Len(batch[r]) <= MaxItems THEN Len(batch[r]) ELSE 0
    BY DEF CodeTells
  <2>1. batch[r] \in Seq(Item) /\ results[r] \in Seq(Result) /\ LocalsFit(r)
    BY DEF IInv, TypeOK, LocalsFit
  <2>2. Len(batch[r]) \in Nat /\ MaxItems \in Nat
    BY <2>1, BatchAssumption
  <2>3. CASE Legal(r)
    <3>1. Len(results[r]) = Len(batch[r]) /\ reply[r] = AnswerCode(results[r])
      BY <2>1, <2>3 DEF LocalsFit
    <3>2. DOMAIN results[r] = 1 .. Len(batch[r]) /\ Len(batch[r]) <= MaxItems
      BY <2>1, <2>2, <2>3, <3>1 DEF Legal, LegalSize
    <3>3. ASSUME NEW j \in 1 .. Len(batch[r])
          PROVE  /\ results[r][j].outcome \in {"created", "invalid", "failed"}
                 /\ results[r][j].outcome = "created" => Made(r, j)
                 /\ results[r][j].outcome # "created" => ~Made(r, j) \/ Id(r, j) \in hit
      BY <2>2, <3>1 DEF IInv, PlaceFits, Concluded, Sound, Stored, Outcomes
    <3>4. reply[r] = "201" => \A j \in 1 .. Len(batch[r]) : results[r][j].outcome = "created"
      BY <3>1, <3>2 DEF AnswerCode
    <3>5. reply[r] = "207" =>
            /\ \E j \in 1 .. Len(batch[r]) : results[r][j].outcome = "created"
            /\ \E j \in 1 .. Len(batch[r]) : results[r][j].outcome # "created"
      BY <3>1, <3>2 DEF AnswerCode
    <3>6. reply[r] = "400" => \A j \in 1 .. Len(batch[r]) : results[r][j].outcome # "created"
      BY <3>1, <3>2 DEF AnswerCode
    <3> QED BY <3>1, <3>2, <3>3, <3>4, <3>5, <3>6
  <2>4. CASE ~Legal(r)
    <3>1. results[r] = << >> /\ reply[r] = "400"
      BY <2>1, <2>4 DEF LocalsFit
    <3>2. Len(results[r]) = 0
      BY <3>1
    <3>3. Len(batch[r]) <= MaxItems => Len(batch[r]) = 0
      BY <2>2, <2>4 DEF Legal, LegalSize
    <3>4. ASSUME NEW j \in 1 .. Len(batch[r]) PROVE ~Made(r, j)
      BY <2>2, <3>2 DEF IInv, PlaceFits
    <3> QED BY <3>1, <3>2, <3>3, <3>4
  <2> QED BY <2>3, <2>4
<1> QED BY <1>1, Invariant, PTL

\* No item suffers from another one or from where its batch was cut short.
THEOREM ItemsStandAlone == Spec => []EachAlone
<1>1. IInv => EachAlone
  <2> SUFFICES ASSUME IInv, NEW r \in Requests, pc[r] # "idle"
               PROVE  /\ \A j \in Past(r) :
                           /\ Made(r, j) => batch[r][j].form = "good"
                           /\ Entries(r, j) \subseteq {ItsEntry(r, j)}
                           /\ Id(r, j) \notin hit =>
                                /\ batch[r][j].form = "good" => Made(r, j)
                                /\ Made(r, j) => Entries(r, j) # {}
                      /\ \A j \in (i[r] + 1) .. MaxItems : j \notin Past(r) => ~Made(r, j)
    BY DEF EachAlone
  <2>1. /\ batch[r] \in Seq(Item) /\ results[r] \in Seq(Result) /\ LocalsFit(r)
        /\ i[r] \in 1 .. MaxItems /\ pc[r] \in {"done", "lost"} \cup Running
    BY DEF IInv, TypeOK, LocalsFit
  <2>2. Len(batch[r]) \in Nat /\ MaxItems \in Nat /\ Len(results[r]) \in Nat
    BY <2>1, BatchAssumption
  <2>3. Past(r) = 1 .. Len(results[r])
    <3>1. CASE pc[r] # "done"
      BY <2>1, <3>1 DEF Past, LocalsFit
    <3>2. CASE pc[r] = "done" /\ Legal(r)
      BY <2>1, <2>2, <3>2 DEF Past, LocalsFit, Legal, LegalSize
    <3>3. CASE pc[r] = "done" /\ ~Legal(r)
      <4>1. Len(results[r]) = 0 /\ i[r] = 1
        BY <2>1, <3>3 DEF LocalsFit
      <4>2. Len(batch[r]) <= MaxItems => Len(batch[r]) = 0
        BY <2>2, <3>3 DEF Legal, LegalSize
      <4> QED BY <3>3, <4>1, <4>2 DEF Past
    <3> QED BY <3>1, <3>2, <3>3
  <2>4. ASSUME NEW j \in 1 .. Len(results[r])
        PROVE  /\ Made(r, j) => batch[r][j].form = "good"
               /\ Entries(r, j) \subseteq {ItsEntry(r, j)}
               /\ Id(r, j) \notin hit =>
                    /\ batch[r][j].form = "good" => Made(r, j)
                    /\ Made(r, j) => Entries(r, j) # {}
    <3>1. Concluded(r, j)
      BY <2>2 DEF IInv, PlaceFits
    <3> QED BY <3>1 DEF Concluded, Sound, Stored, Outcomes
  <2>5. ASSUME NEW j \in (i[r] + 1) .. MaxItems, j \notin 1 .. Len(results[r])
        PROVE  ~Made(r, j)
    <3>1. j \in Nat /\ j # i[r]
      BY <2>1, <2>2
    <3> QED BY <2>5, <3>1 DEF IInv, PlaceFits
  <2> QED BY <2>3, <2>4, <2>5
<1> QED BY <1>1, Invariant, PTL
=============================================================================
