---------------------- MODULE DisbursementService_proofs ----------------------
(***************************************************************************)
(* The safety of creations and reviews beside each other, for every number *)
(* of both, with faults and crashes.                                       *)
(*                                                                         *)
(* Neither part is alone on the tables any more, but each of them sees a   *)
(* version of the tables on which it might be: to a creation a row is as   *)
(* it was inserted, whatever became of it, and of the audit log it knows   *)
(* the creations; to a review the log holds the reviews, and an INSERT     *)
(* only touches a row it has not seen.  The proofs of the parts are used   *)
(* on these views, by instantiation; what is added is what one side knows  *)
(* of the other.                                                           *)
(***************************************************************************)
EXTENDS DisbursementService, TLAPS

\* The table disbursements as if nothing were ever decided or deleted.
asMade == [id \in Ids |-> IF Exists(id) THEN PendingRow(asked[id].note) ELSE NoRow]

EntriesOf(requests) == {e \in audit : e.request \in requests}
makings == EntriesOf(Creates)
closings == EntriesOf(Reviews)

CV == INSTANCE DisbursementCreate_proofs
        WITH Requests <- Creates, Serial <- FALSE, Prompt <- FALSE,
             rows <- asMade, audit <- makings,
             pc <- creating, input <- asked, reply <- created

RV == INSTANCE DisbursementReview_proofs
        WITH Requests <- Reviews, audit <- closings,
             pc <- reviewing, input <- wanted, reply <- reviewed

-----------------------------------------------------------------------------
(* The views of the tables.                                                *)

LEMMA SameTables ==
  /\ CV!Row = Row /\ RV!Row = Row /\ CV!NoRow = NoRow /\ RV!NoRow = NoRow
  /\ Creation!NoRow = NoRow /\ Review!NoRow = NoRow
  BY DEF CV!Row, RV!Row, Row, CV!NoRow, RV!NoRow, NoRow, Creation!NoRow, Review!NoRow,
         CV!Statuses, RV!Statuses, Statuses, CV!Decisions, RV!Decisions, Decisions

\* A disbursement exists in the creations' view when it exists.
LEMMA ViewExists == \A id \in Ids : CV!Exists(id) <=> Exists(id)
  BY DEF CV!Exists, Exists, asMade, PendingRow, NoRow

\* What is decided or deleted is as it was made.
LEMMA AsMadeStays ==
  ASSUME \A id \in Ids : Exists(id)' <=> Exists(id),
         \A id \in Ids : Exists(id) => asked'[id] = asked[id]
  PROVE  asMade' = asMade
  BY DEF asMade

LEMMA AsMadeGrows ==
  ASSUME rows \in [Ids -> Row], NEW q \in Ids, asked' = asked,
         InsertDisbursement(q, PendingRow(asked[q].note))
  PROVE  /\ asMade' = [asMade EXCEPT ![q] = PendingRow(asked[q].note)]
         /\ Exists(q)'
         /\ \A id \in Ids \ {q} : rows'[id] = rows[id] 
<1>1. rows' = [rows EXCEPT ![q] = PendingRow(asked[q].note)]
  BY DEF InsertDisbursement
<1>2. \A id \in Ids \ {q} : rows'[id] = rows[id]
  BY <1>1
<1>3. rows'[q] = PendingRow(asked[q].note) /\ Exists(q)'
  BY <1>1 DEF Exists, PendingRow
<1>4. \A id \in Ids \ {q} : asMade'[id] = asMade[id]
  BY <1>2 DEF asMade, Exists
<1>5. asMade'[q] = PendingRow(asked[q].note)
  BY <1>3 DEF asMade
<1>6. asMade' = [asMade EXCEPT ![q] = PendingRow(asked[q].note)]
  BY <1>4, <1>5 DEF asMade
<1> QED BY <1>2, <1>3, <1>6

\* An entry counts in the view its request belongs to.
LEMMA EntriesStay ==
  ASSUME audit' = audit
  PROVE  makings' = makings /\ closings' = closings
  BY DEF makings, closings, EntriesOf

LEMMA EntriesGrow ==
  ASSUME NEW e, audit' = audit \cup {e}
  PROVE  /\ e.request \in Creates => makings' = makings \cup {e} /\ closings' = closings
         /\ e.request \in Reviews => closings' = closings \cup {e} /\ makings' = makings
  BY ServiceAssumption DEF makings, closings, EntriesOf

-----------------------------------------------------------------------------
(* The steps of a creation are the steps of a creation in its own view.    *)

LEMMA CreationKeeps ==
  ASSUME CV!IInv, [CV!Next]_(CV!vars)
  PROVE  CV!IInv'
  BY CV!NextKeepsIInv, TableAssumption, ServiceAssumption

\* The statements that write neither table.
LEMMA QuietMaking ==
  ASSUME NEW q \in Creates, asMade' = asMade, makings' = makings,
         \/ Creation!Receive(q) \/ Creation!InsertKey(q) \/ Creation!Lookup(q)
         \/ Creation!DeleteKey(q) \/ Creation!ValueRefused(q) \/ Creation!Deadlock(q)
         \/ Creation!StatementFails(q)
         \/ Creation!AckLost(q) /\ creating[q] = "deleteKey"
         \/ Creation!EndOrphan(q) /\ rows' = rows /\ ~Creation!CommitBoth(q)
  PROVE  CV!Receive(q) \/ CV!Step(q)
<1>0. /\ \A k \in Keys : Creation!Sharers(k) = CV!Sharers(k)
      /\ Creation!Release(q) => CV!Release(q)
      /\ Creation!DeleteRecord(q) => CV!DeleteRecord(q)
      /\ Creation!Fits(q) <=> CV!Fits(q)
  BY DEF Creation!Sharers, CV!Sharers, Creation!Release, CV!Release, Creation!DeleteRecord,
     CV!DeleteRecord, Creation!Admit, CV!Admit, Creation!Free, CV!Free, Creation!Key, CV!Key,
     Creation!Fits, CV!Fits
<1>00. \A why : Creation!Fails(q, why) => CV!Fails(q, why)
  BY <1>0 DEF Creation!Fails, CV!Fails, Creation!Answer, CV!Answer, Creation!tables, CV!tables,
     Creation!locals, CV!locals
<1>1. CASE Creation!Receive(q)
  BY <1>1 DEF Creation!Receive, CV!Receive, Creation!Asks, CV!Asks, Creation!Answer, CV!Answer,
     Creation!Goto, CV!Goto, Creation!tables, CV!tables, Creation!keys, CV!keys,
     Creation!Running, CV!Running
<1>2. CASE Creation!InsertKey(q)
  <2>1. CV!InsertKey(q)
    BY <1>0, <1>2 DEF Creation!InsertKey, CV!InsertKey, Creation!Goto, CV!Goto, Creation!tables,
       CV!tables, Creation!Key, CV!Key, Creation!Free, CV!Free, Creation!locals, CV!locals
  <2> QED BY <2>1 DEF CV!Step
<1>3. CASE Creation!Lookup(q)
  <2>1. CV!Lookup(q)
    BY <1>3 DEF Creation!Lookup, CV!Lookup, Creation!Goto, CV!Goto, Creation!Answer, CV!Answer,
       Creation!tables, CV!tables, Creation!Key, CV!Key, Creation!keys, CV!keys,
       Creation!Verdict, CV!Verdict, Creation!SeesExpired, CV!SeesExpired,
       Creation!SameRequest, CV!SameRequest
  <2> QED BY <2>1 DEF CV!Step
<1>4. CASE Creation!DeleteKey(q)
  <2>1. CV!DeleteKey(q)
    BY <1>0, <1>4 DEF Creation!DeleteKey, CV!DeleteKey, Creation!NextRound, CV!NextRound,
                      Creation!Goto, CV!Goto, Creation!Answer, CV!Answer,
       Creation!tables, CV!tables
  <2> QED BY <2>1 DEF CV!Step
<1>5. CASE Creation!StatementFails(q)
  <2>1. CV!StatementFails(q)
    BY <1>00, <1>5 DEF Creation!StatementFails, CV!StatementFails, Creation!Running, CV!Running
  <2> QED BY <2>1 DEF CV!Step
<1>6. CASE Creation!AckLost(q) /\ creating[q] = "deleteKey"
  <2>1. CV!AckLost(q)
    BY <1>0, <1>6 DEF Creation!AckLost, CV!AckLost, Creation!Answer, CV!Answer,
                      Creation!locals, CV!locals
  <2> QED BY <2>1 DEF CV!Step
<1>7. CASE Creation!EndOrphan(q) /\ rows' = rows /\ ~Creation!CommitBoth(q)
  <2>1. CV!EndOrphan(q)
    BY <1>0, <1>7 DEF Creation!EndOrphan, CV!EndOrphan, Creation!Goto, CV!Goto,
                      Creation!locals, CV!locals
  <2> QED BY <2>1 DEF CV!Step
<1>8. CASE Creation!ValueRefused(q) \/ Creation!Deadlock(q)
  <2>1. Creation!ValueRefused(q) => CV!ValueRefused(q)
    BY <1>0, <1>00 DEF Creation!ValueRefused, CV!ValueRefused, Creation!Key, CV!Key
  <2>2. Creation!Deadlock(q) => CV!Deadlock(q)
    BY <1>00 DEF Creation!Deadlock, CV!Deadlock, Creation!InDeadlock, CV!InDeadlock,
       Creation!Key, CV!Key
  <2> QED BY <1>8, <2>1, <2>2 DEF CV!Step
<1> QED BY <1>1, <1>2, <1>3, <1>4, <1>5, <1>6, <1>7, <1>8

\* The statements that insert a row.
LEMMA InsertMaking ==
  ASSUME NEW q \in Creates, makings' = makings,
         asMade' = [asMade EXCEPT ![q] = PendingRow(asked[q].note)],
         \/ Creation!Insert(q) \/ Creation!Commit(q)
         \/ Creation!AckLost(q) /\ creating[q] \in {"insert", "commit"}
         \/ Creation!EndOrphan(q) /\ Creation!CommitBoth(q)
  PROVE  CV!Step(q)
<1>0. CV!InsertDisbursement(q, CV!PendingRow(asked[q].note))
  BY DEF CV!InsertDisbursement, CV!PendingRow, PendingRow
<1>1. Creation!CommitBoth(q) => CV!CommitBoth(q)
  BY <1>0 DEF Creation!CommitBoth, CV!CommitBoth, Creation!Key, CV!Key, Creation!Fits, CV!Fits
<1>2. CASE Creation!Insert(q)
  <2>1. CV!Insert(q)
    BY <1>0, <1>2 DEF Creation!Insert, CV!Insert, Creation!Goto, CV!Goto, Creation!keys,
       CV!keys, Creation!locals, CV!locals, Creation!Fits, CV!Fits
  <2> QED BY <2>1 DEF CV!Step
<1>3. CASE Creation!Commit(q)
  <2>1. CV!Commit(q)
    BY <1>1, <1>3 DEF Creation!Commit, CV!Commit, Creation!Goto, CV!Goto, Creation!locals,
                      CV!locals
  <2> QED BY <2>1 DEF CV!Step
<1>4. CASE Creation!AckLost(q) /\ creating[q] \in {"insert", "commit"}
  <2>1. CV!AckLost(q)
    BY <1>0, <1>1, <1>4 DEF Creation!AckLost, CV!AckLost, Creation!Answer, CV!Answer,
       Creation!keys, CV!keys, Creation!locals, CV!locals, Creation!Fits, CV!Fits
  <2> QED BY <2>1 DEF CV!Step
<1>5. CASE Creation!EndOrphan(q) /\ Creation!CommitBoth(q)
  <2>1. CV!EndOrphan(q)
    BY <1>1, <1>5 DEF Creation!EndOrphan, CV!EndOrphan, Creation!Goto, CV!Goto,
       Creation!locals, CV!locals
  <2> QED BY <2>1 DEF CV!Step
<1> QED BY <1>2, <1>3, <1>4, <1>5

LEMMA AuditMaking ==
  ASSUME NEW q \in Creates, asMade' = asMade, Creation!WriteAudit(q)
  PROVE  /\ CV!WriteAudit(q)
         /\ closings' = closings
         /\ audit' = audit \/ audit' = audit \cup {Creation!CreatedEntry(q)}
<1> DEFINE e == Creation!CreatedEntry(q)
<1>1. e = CV!CreatedEntry(q) /\ e.request \in Creates
  BY DEF Creation!CreatedEntry, CV!CreatedEntry, Creation!NoRow, CV!NoRow,
         Creation!PendingRow, CV!PendingRow
<1>2. audit' = audit \cup {e} \/ (DBFaults /\ audit' = audit)
  BY DEF Creation!WriteAudit, Creation!InsertAudit
<1> HIDE DEF e
<1>3. makings' = makings \cup {e} \/ (DBFaults /\ makings' = makings)
  BY <1>1, <1>2, EntriesGrow, EntriesStay
<1>4. closings' = closings
  BY <1>1, <1>2, EntriesGrow, EntriesStay
<1>5. CV!WriteAudit(q)
  BY <1>1, <1>3 DEF Creation!WriteAudit, CV!WriteAudit, CV!InsertAudit, Creation!Answer,
                    CV!Answer,
     Creation!keys, CV!keys, Creation!locals, CV!locals
<1> QED BY <1>2, <1>4, <1>5 DEF e

\* What one step of creation q is to everybody else.
MakeStep(q) ==
  /\ CV!Receive(q) \/ CV!Step(q)
  /\ closings' = closings /\ clock' = clock
  /\ \A r \in Creates \ {q} : creating'[r] = creating[r] /\ asked'[r] = asked[r]
  /\ creating[q] # "idle" => creating'[q] # "idle" /\ asked'[q] = asked[q]
  /\ \/ rows' = rows
     \/ /\ ~Exists(q) /\ creating[q] # "idle" /\ rows'[q] = PendingRow(asked[q].note)
        /\ rows' \in [Ids -> Row] /\ \A id \in Ids \ {q} : rows'[id] = rows[id]
  /\ \/ audit' = audit
     \/ creating'[q] = "done" /\ Exists(q) /\ audit' = audit \cup {Creation!CreatedEntry(q)}
  /\ creating'[q] = "done" /\ Exists(q)' /\ ~DBFaults => 
       creating[q] # "idle" /\ Creation!CreatedEntry(q) \in audit'

LEMMA MakingFacts ==
  ASSUME CV!IInv, RV!IInv, NEW q \in Creates
  PROVE  /\ rows \in [Ids -> Row] /\ q \in Ids
         /\ creating \in [Creates -> {"idle", "orphan"} \cup CV!Running \cup CV!Ended]
         /\ asked \in [Creates -> CV!Asks \cup {NoInput}]
         /\ creating[q] \in {"idle", "insert", "insertKey", "lookup", "deleteKey", "commit", "orphan"} =>
                 ~Exists(q)
         /\ creating[q] = "audit" => Exists(q)
         /\ \A id \in Ids : Exists(id) => id \in Creates /\ creating[id] # "idle"
         /\ creating[q] # "idle" => PendingRow(asked[q].note) \in Row
<1>1. rows \in [Ids -> Row] /\ q \in Ids
  BY SameTables, ServiceAssumption DEF RV!IInv, RV!TypeOK
<1>2. creating \in [Creates -> {"idle", "orphan"} \cup CV!Running \cup CV!Ended]
      /\ asked \in [Creates -> CV!Asks \cup {NoInput}]
  BY DEF CV!IInv, CV!TypeOK
<1>3. \A r \in Creates : 
         /\ creating[r] \in {"idle", "insert", "insertKey", "lookup", "deleteKey", "commit", "orphan"} =>
                 ~Exists(r)
         /\ creating[r] = "audit" => Exists(r)
  BY ViewExists, ServiceAssumption DEF CV!IInv, CV!RequestInv, CV!InTransaction
<1>4. \A id \in Ids : Exists(id) => id \in Creates 
  BY ViewExists DEF CV!IInv
<1>5. creating[q] # "idle" => asked[q] \in CV!Asks
  BY DEF CV!IInv, CV!RequestInv
<1>6. creating[q] # "idle" => PendingRow(asked[q].note) \in Row
  BY <1>5, CV!AskFields, TableAssumption, ServiceAssumption DEF PendingRow, Row, Statuses
<1> QED BY <1>1, <1>2, <1>3, <1>4, <1>6

\* Only an INSERT or a DELETE of a key is part of a deadlock.
LEMMA DeadlockedWait ==
  ASSUME CV!IInv, NEW q \in Creates, Creation!Deadlock(q)
  PROVE  creating[q] \in {"insertKey", "deleteKey"}
  BY DEF Creation!Deadlock, Creation!InDeadlock, CV!IInv, CV!SharingInv

LEMMA MakeEffect ==
  ASSUME CV!IInv, RV!IInv, NEW q \in Creates, Creation!Receive(q) \/ Creation!Step(q)
  PROVE  MakeStep(q)
<1>1. /\ rows \in [Ids -> Row] /\ q \in Ids
      /\ creating \in [Creates -> {"idle", "orphan"} \cup CV!Running \cup CV!Ended]
      /\ asked \in [Creates -> CV!Asks \cup {NoInput}]
      /\ creating[q] \in {"idle", "insert", "insertKey", "lookup", "deleteKey", "commit", "orphan"} =>
              ~Exists(q)
      /\ creating[q] = "audit" => Exists(q)
      /\ \A id \in Ids : Exists(id) => id \in Creates /\ creating[id] # "idle"
      /\ creating[q] # "idle" => PendingRow(asked[q].note) \in Row
  BY MakingFacts
<1>2. CASE Creation!Receive(q)
  <2>1. /\ rows' = rows /\ audit' = audit /\ clock' = clock /\ creating[q] = "idle"
        /\ \E ask : asked' = [asked EXCEPT ![q] = ask]
        /\ \E l : creating' = [creating EXCEPT ![q] = l]
    BY <1>2 DEF Creation!Receive, Creation!tables, Creation!keys, Creation!Goto, Creation!Answer
  <2>2. \A r \in Creates \ {q} : creating'[r] = creating[r] /\ asked'[r] = asked[r]
    BY <1>1, <2>1
  <2>3. asMade' = asMade
    BY <1>1, <2>1, <2>2, AsMadeStays DEF Exists
  <2>4. makings' = makings /\ closings' = closings
    BY <2>1, EntriesStay
  <2>5. CV!Receive(q) \/ CV!Step(q)
    BY <1>2, <2>3, <2>4, QuietMaking
  <2>6. ~Exists(q)'
    BY <1>1, <2>1 DEF Exists
  <2> QED BY <2>1, <2>2, <2>4, <2>5, <2>6 DEF MakeStep
<1>3. CASE \/ Creation!InsertKey(q) \/ Creation!Lookup(q)
           \/ Creation!DeleteKey(q) \/ Creation!ValueRefused(q) \/ Creation!Deadlock(q)
           \/ Creation!StatementFails(q)
           \/ Creation!AckLost(q) /\ creating[q] = "deleteKey"
           \/ Creation!EndOrphan(q) /\ rows' = rows /\ ~Creation!CommitBoth(q)
  <2>1. /\ rows' = rows /\ audit' = audit /\ clock' = clock /\ asked' = asked
        /\ \E l : l # "idle" /\ creating' = [creating EXCEPT ![q] = l]
        /\ creating[q] \in {"insert", "insertKey", "lookup", "deleteKey", "commit", "orphan"}
    <3>1. CASE Creation!InsertKey(q) \/ Creation!Lookup(q) \/ Creation!DeleteKey(q)
      BY <3>1 DEF Creation!InsertKey, Creation!Lookup, Creation!DeleteKey, Creation!NextRound,
         Creation!DeleteRecord, Creation!tables, Creation!keys, Creation!locals,
         Creation!Goto, Creation!Answer
    <3>2. CASE Creation!ValueRefused(q) \/ Creation!Deadlock(q) \/ Creation!StatementFails(q)
      <4>1. creating[q] \in {"insert", "insertKey", "lookup", "deleteKey", "commit", "orphan"}
        BY <1>1, <3>2, DeadlockedWait
        DEF Creation!ValueRefused, Creation!Deadlock, Creation!StatementFails, Creation!Running
      <4>2. \E why : Creation!Fails(q, why)
        BY <3>2 DEF Creation!ValueRefused, Creation!Deadlock, Creation!StatementFails
      <4> QED BY <4>1, <4>2 DEF Creation!Fails, Creation!tables, Creation!locals,
                                Creation!Answer
    <3>3. CASE Creation!AckLost(q) /\ creating[q] = "deleteKey"
      BY <3>3 DEF Creation!AckLost, Creation!locals, Creation!Answer
    <3>4. CASE Creation!EndOrphan(q) /\ rows' = rows /\ ~Creation!CommitBoth(q)
      BY <3>4 DEF Creation!EndOrphan, Creation!locals, Creation!Goto
    <3> QED BY <1>3, <3>1, <3>2, <3>3, <3>4
  <2>2. \A r \in Creates \ {q} : creating'[r] = creating[r] /\ asked'[r] = asked[r]
    BY <1>1, <2>1
  <2>3. asMade' = asMade
    BY <2>1, AsMadeStays DEF Exists
  <2>4. makings' = makings /\ closings' = closings
    BY <2>1, EntriesStay
  <2>5. CV!Receive(q) \/ CV!Step(q)
    BY <1>3, <2>3, <2>4, QuietMaking
  <2>6. ~Exists(q)' /\ creating'[q] # "idle"
    BY <1>1, <2>1 DEF Exists
  <2> QED BY <2>1, <2>2, <2>4, <2>5, <2>6 DEF MakeStep
<1>4. CASE \/ Creation!Insert(q) \/ Creation!Commit(q)
           \/ Creation!AckLost(q) /\ creating[q] \in {"insert", "commit"}
           \/ Creation!EndOrphan(q) /\ Creation!CommitBoth(q)
  <2>1. /\ InsertDisbursement(q, PendingRow(asked[q].note))
        /\ audit' = audit /\ clock' = clock /\ asked' = asked
        /\ creating[q] \in {"insert", "commit", "orphan"}
    BY <1>4 DEF Creation!Insert, Creation!Commit, Creation!AckLost, Creation!EndOrphan,
                Creation!CommitBoth,
       Creation!InsertDisbursement, InsertDisbursement, Creation!PendingRow, PendingRow,
       Creation!locals
  <2>2. \E l : l # "idle" /\ creating' = [creating EXCEPT ![q] = l] /\ (l = "done" => DBFaults)
    BY <1>4 DEF Creation!Insert, Creation!Commit, Creation!AckLost, Creation!EndOrphan,
                Creation!Goto, Creation!Answer
  <2>3. \A r \in Creates \ {q} : creating'[r] = creating[r] /\ asked'[r] = asked[r]
    BY <1>1, <2>1, <2>2
  <2>4. /\ asMade' = [asMade EXCEPT ![q] = PendingRow(asked[q].note)] /\ Exists(q)'
        /\ \A id \in Ids \ {q} : rows'[id] = rows[id]
        /\ rows'[q] = PendingRow(asked[q].note) /\ rows' \in [Ids -> Row]
    BY <1>1, <2>1, AsMadeGrows DEF InsertDisbursement
  <2>5. makings' = makings /\ closings' = closings
    BY <2>1, EntriesStay
  <2>6. CV!Step(q)
    BY <1>4, <2>4, <2>5, InsertMaking
  <2>7. creating'[q] # "idle" /\ (creating'[q] = "done" => DBFaults)
    BY <1>1, <2>2
  <2> QED BY <1>1, <2>1, <2>3, <2>4, <2>5, <2>6, <2>7 DEF MakeStep
<1>5. CASE Creation!WriteAudit(q)
  <2>1. /\ rows' = rows /\ clock' = clock /\ asked' = asked /\ creating[q] = "audit"
        /\ creating' = [creating EXCEPT ![q] = "done"]
        /\ ~DBFaults => audit' = audit \cup {Creation!CreatedEntry(q)}
    BY <1>5 DEF Creation!WriteAudit, Creation!keys, Creation!locals, Creation!Answer,
                Creation!InsertAudit
  <2>2. asMade' = asMade
    BY <2>1, AsMadeStays DEF Exists
  <2>3. /\ CV!WriteAudit(q) /\ closings' = closings
        /\ audit' = audit \/ audit' = audit \cup {Creation!CreatedEntry(q)}
    BY <1>5, <2>2, AuditMaking
  <2>4. creating'[q] = "done"
    BY <1>1, <2>1
  <2>5. ~DBFaults => Creation!CreatedEntry(q) \in audit'
    BY <2>1
  <2>6. CV!Step(q)
    BY <2>3 DEF CV!Step
  <2> QED BY <1>1, <2>1, <2>3, <2>4, <2>5, <2>6 DEF MakeStep
<1>6. Creation!AckLost(q) => MakeStep(q)
  <2>1. Creation!AckLost(q) => creating[q] \in {"insert", "commit", "deleteKey"}
    BY DEF Creation!AckLost
  <2> QED BY <1>3, <1>4, <2>1
<1>7. Creation!EndOrphan(q) => MakeStep(q)
  <2>1. Creation!EndOrphan(q) => Creation!CommitBoth(q) \/ rows' = rows
    BY DEF Creation!EndOrphan
  <2> QED BY <1>3, <1>4, <2>1
<1>8. \/ Creation!Receive(q) \/ Creation!Insert(q) \/ Creation!Commit(q)
      \/ Creation!AckLost(q) \/ Creation!EndOrphan(q) \/ Creation!WriteAudit(q)
      \/ Creation!InsertKey(q) \/ Creation!Lookup(q) \/ Creation!DeleteKey(q)
      \/ Creation!ValueRefused(q) \/ Creation!Deadlock(q) \/ Creation!StatementFails(q)
  BY DEF Creation!Step
<1> QED BY <1>2, <1>3, <1>4, <1>5, <1>6, <1>7, <1>8

-----------------------------------------------------------------------------
(* The steps of a review are the steps of a review in its own view.        *)

LEMMA ReviewKeeps ==
  ASSUME RV!IInv, [RV!Next]_(RV!vars)
  PROVE  RV!IInv'
  BY RV!NextKeepsIInv, TableAssumption, ServiceAssumption

LEMMA SameRows ==
  /\ \A id \in Ids : RV!Exists(id) <=> Exists(id)
  /\ \A id \in Ids : RV!Claimable(id) <=> Claimable(id)
  /\ \A id \in Ids : RV!Visible(id) <=> Visible(id)
  /\ \A id \in Ids : RV!Exists(id)' <=> Exists(id)'
  /\ \A id \in Ids : RV!Claimable(id)' <=> Claimable(id)'
  BY DEF RV!Exists, Exists, RV!Claimable, Claimable, RV!Visible, Visible

\* The statements that do not write the audit log.
LEMMA QuietReview ==
  ASSUME NEW q \in Reviews, closings' = closings,
         \/ Review!Receive(q) \/ Review!Find(q) \/ Review!Update(q) \/ Review!Reread(q)
         \/ Review!SoftDelete(q) \/ Review!StatementFails(q) \/ Review!AckLost(q)
  PROVE  RV!Receive(q) \/ RV!Step(q)
<1>1. CASE Review!Receive(q)
  BY <1>1 DEF Review!Receive, RV!Receive, Review!Asks, RV!Asks, Review!Statuses, RV!Statuses,
     Review!Decisions, RV!Decisions, Review!Answer, RV!Answer, Review!Goto, RV!Goto,
     Review!tables, RV!tables
<1>2. CASE Review!Find(q)
  <2>1. RV!Find(q)
    BY <1>2 DEF Review!Find, RV!Find, Review!Visible, RV!Visible, Review!Exists, RV!Exists,
       Review!RefusedAtOnce, RV!RefusedAtOnce, Review!NoRow, RV!NoRow,
       Review!Answer, RV!Answer, Review!Goto, RV!Goto, Review!tables, RV!tables
  <2> QED BY <2>1 DEF RV!Step
<1>3. CASE Review!Update(q)
  <2>1. RV!Update(q)
    BY <1>3 DEF Review!Update, RV!Update, Review!Claimable, RV!Claimable, Review!Visible,
                RV!Visible,
       Review!Exists, RV!Exists, Review!SetStatus, RV!SetStatus, Review!Decided, RV!Decided,
       Review!Answer, RV!Answer, Review!Goto, RV!Goto, Review!locals, RV!locals
  <2> QED BY <2>1 DEF RV!Step
<1>4. CASE Review!Reread(q)
  <2>1. RV!Reread(q)
    BY <1>4 DEF Review!Reread, RV!Reread, Review!Visible, RV!Visible, Review!Exists, RV!Exists,
       Review!Answer, RV!Answer, Review!Goto, RV!Goto, Review!tables, RV!tables
  <2> QED BY <2>1 DEF RV!Step
<1>5. CASE Review!SoftDelete(q)
  <2>1. RV!SoftDelete(q)
    BY <1>5 DEF Review!SoftDelete, RV!SoftDelete, Review!Claimable, RV!Claimable,
       Review!Visible, RV!Visible, Review!Exists, RV!Exists, Review!SetDeleted, RV!SetDeleted,
       Review!Removed, RV!Removed, Review!Answer, RV!Answer, Review!Goto, RV!Goto,
       Review!locals, RV!locals
  <2> QED BY <2>1 DEF RV!Step
<1>6. CASE Review!StatementFails(q)
  <2>1. RV!StatementFails(q)
    BY <1>6 DEF Review!StatementFails, RV!StatementFails, Review!Answer, RV!Answer,
       Review!tables, RV!tables, Review!locals, RV!locals
  <2> QED BY <2>1 DEF RV!Step
<1>7. CASE Review!AckLost(q)
  <2>1. RV!AckLost(q)
    BY <1>7 DEF Review!AckLost, RV!AckLost, Review!Claimable, RV!Claimable,
       Review!Visible, RV!Visible, Review!Exists, RV!Exists, Review!SetDeleted, RV!SetDeleted,
       Review!SetStatus, RV!SetStatus, Review!Decided, RV!Decided,
       Review!Removed, RV!Removed, Review!Answer, RV!Answer, Review!locals, RV!locals
  <2> QED BY <2>1 DEF RV!Step
<1> QED BY <1>1, <1>2, <1>3, <1>4, <1>5, <1>6, <1>7

LEMMA AuditReview ==
  ASSUME NEW q \in Reviews, Review!WriteAudit(q)
  PROVE  /\ RV!WriteAudit(q)
         /\ makings' = makings
         /\ audit' = audit \/ audit' = audit \cup {Review!ReviewEntry(q)}
<1> DEFINE e == Review!ReviewEntry(q)
<1>1. e = RV!ReviewEntry(q) /\ e.request \in Reviews
  BY DEF Review!ReviewEntry, RV!ReviewEntry, Review!Removed, RV!Removed
<1>2. audit' = audit \cup {e} \/ (DBFaults /\ audit' = audit)
  BY DEF Review!WriteAudit, Review!InsertAudit
<1> HIDE DEF e
<1>3. closings' = closings \cup {e} \/ (DBFaults /\ closings' = closings)
  BY <1>1, <1>2, EntriesGrow, EntriesStay
<1>4. makings' = makings
  BY <1>1, <1>2, EntriesGrow, EntriesStay
<1>5. RV!WriteAudit(q)
  BY <1>1, <1>3 DEF Review!WriteAudit, RV!WriteAudit, RV!InsertAudit, Review!Answer, RV!Answer,
     Review!locals, RV!locals
<1> QED BY <1>2, <1>4, <1>5 DEF e

\* Review r decided or deleted the disbursement, and the entry is written
\* unless it is still at it or died at it.
Closes(r, id) ==
  /\ reviewing[r] # "idle" /\ wanted[r].id = id
  /\ \/ reviewing[r] \in {"reread", "audit", "lost"}
     \/ reviewing[r] = "done" /\ Review!ReviewEntry(r) \in audit

LEMMA ReviewFacts ==
  ASSUME RV!IInv, NEW q \in Reviews
  PROVE  /\ rows \in [Ids -> RV!Row]
         /\ reviewing \in [Reviews -> {"idle"} \cup RV!Running \cup RV!Ended]
         /\ wanted \in [Reviews -> RV!Asks \cup {NoInput}]
         /\ current \in [Reviews -> RV!Row] /\ updated \in [Reviews -> RV!Row]
         /\ reviewed \in [Reviews -> RV!Replies]
         /\ RV!Fits(q)
         /\ reviewing[q] # "done" => reviewed[q] = "none"
         /\ reviewing[q] # "idle" =>
              /\ wanted[q].id \in Ids /\ wanted[q].note \in Notes /\ wanted[q].actor \in Users
              /\ wanted[q].op \in {"update", "delete", "detail"}
<1>1. RV!TypeOK /\ RV!Fits(q)
  BY DEF RV!IInv
<1>2. reviewing[q] # "idle" => wanted[q] \in RV!Asks
  BY <1>1 DEF RV!Fits, RV!AskFits
<1>3. reviewing[q] # "idle" =>
              /\ wanted[q].id \in Ids /\ wanted[q].note \in Notes /\ wanted[q].actor \in Users
              /\ wanted[q].op \in {"update", "delete", "detail"}
  BY <1>2, RV!AskFields, TableAssumption, ServiceAssumption
<1>4. reviewing[q] # "done" => reviewed[q] = "none"
  BY <1>1 DEF RV!Fits, RV!AskFits
<1> QED BY <1>1, <1>3, <1>4 DEF RV!TypeOK

\* The conditional write, whether its acknowledgement arrives or not.
LEMMA WriteClaims ==
  ASSUME RV!IInv, NEW q \in Reviews, reviewing[q] \in {"update", "softDelete"},
         NEW id \in Ids, id = wanted[q].id, Claimable(id),
         IF reviewing[q] = "update"
           THEN RV!SetStatus(id, wanted[q].status, wanted[q].note, wanted[q].actor)
           ELSE RV!SetDeleted(id)
  PROVE  /\ Exists(id)' /\ ~Claimable(id)'
         /\ \A i \in Ids \ {id} : rows'[i] = rows[i]
<1>1. rows \in [Ids -> RV!Row] /\ wanted[q].note \in Notes /\ wanted[q].actor \in Users
      /\ RV!Claimable(id)
  BY ReviewFacts, SameRows
<1>2. CASE reviewing[q] = "update"
  <2>1. wanted[q].status \in RV!Decisions /\ wanted[q].op = "update"
    BY <1>2, ReviewFacts DEF RV!Fits, RV!AskFits, RV!Running
  <2>2. RV!SetStatus(id, wanted[q].status, wanted[q].note, wanted[q].actor)
    BY <1>2
  <2>3. RV!Exists(id)' /\ ~RV!Claimable(id)' /\ \A i \in Ids : i # id => rows'[i] = rows[i]
    BY <1>1, <2>1, <2>2, RV!SetStatusFacts, TableAssumption, ServiceAssumption
  <2>4. Exists(id)' /\ ~Claimable(id)'
    BY <2>3, SameRows
  <2> QED BY <2>3, <2>4
<1>3. CASE reviewing[q] = "softDelete"
  <2>2. RV!SetDeleted(id)
    BY <1>3
  <2>3. RV!Exists(id)' /\ ~RV!Claimable(id)' /\ \A i \in Ids : i # id => rows'[i] = rows[i]
    BY <1>1, <2>2, RV!SetDeletedFacts, TableAssumption, ServiceAssumption
  <2>4. Exists(id)' /\ ~Claimable(id)'
    BY <2>3, SameRows
  <2> QED BY <2>3, <2>4
<1> QED BY <1>2, <1>3

\* The locals of the requests that do not move.
OthersWait(q) ==
  \A r \in Reviews \ {q} :
    /\ reviewing'[r] = reviewing[r] /\ wanted'[r] = wanted[r] /\ reviewed'[r] = reviewed[r]
    /\ current'[r] = current[r] /\ updated'[r] = updated[r]

LEMMA ReviewFrame ==
  ASSUME RV!IInv, NEW q \in Reviews, Review!Receive(q) \/ Review!Step(q)
  PROVE  OthersWait(q)
<1>1. /\ \E l : reviewing' = [reviewing EXCEPT ![q] = l]
      /\ wanted' = wanted \/ \E w : wanted' = [wanted EXCEPT ![q] = w]
      /\ current' = current \/ \E c : current' = [current EXCEPT ![q] = c]
      /\ updated' = updated \/ \E u : updated' = [updated EXCEPT ![q] = u]
      /\ reviewed' = reviewed \/ \E p : reviewed' = [reviewed EXCEPT ![q] = p]
  <2>1. CASE Review!Receive(q)
    BY <2>1 DEF Review!Receive, Review!Goto, Review!Answer
  <2>2. CASE Review!Find(q)
    BY <2>2 DEF Review!Find, Review!Goto, Review!Answer
  <2>3. CASE Review!Update(q) \/ Review!SoftDelete(q)
    BY <2>3 DEF Review!Update, Review!SoftDelete, Review!Goto, Review!Answer, Review!locals
  <2>4. CASE Review!Reread(q)
    BY <2>4 DEF Review!Reread, Review!Goto, Review!Answer
  <2>5. CASE Review!WriteAudit(q) \/ Review!StatementFails(q) \/ Review!AckLost(q)
    BY <2>5 DEF Review!WriteAudit, Review!StatementFails, Review!AckLost, Review!Answer,
                Review!locals
  <2> QED BY <2>1, <2>2, <2>3, <2>4, <2>5 DEF Review!Step
<1> QED BY <1>1, ReviewFacts DEF OthersWait

\* What one step of review q is to everybody else.
DecideStep(q) ==
  /\ RV!Receive(q) \/ RV!Step(q)
  /\ makings' = makings
  /\ audit' = audit \/ audit' = audit \cup {Review!ReviewEntry(q)}
  /\ OthersWait(q)
  /\ \A id \in Ids : \/ rows'[id] = rows[id]
                     \/ /\ Claimable(id) /\ Exists(id)' /\ ~Claimable(id)'
                        /\ ~DBFaults => Closes(q, id)'
  /\ RV!Holds(q)' =>
       /\ wanted'[q] = wanted[q] /\ wanted[q].id \in Ids
       /\ \/ RV!Holds(q) /\ current'[q] = current[q]
          \/ Claimable(wanted[q].id) /\ current'[q] = rows[wanted[q].id]
  /\ ~DBFaults => \A id \in Ids : Closes(q, id) => Closes(q, id)'

LEMMA QuietReviewEffect ==
  ASSUME RV!IInv, NEW q \in Reviews,
         Review!Receive(q) \/ Review!Find(q) \/ Review!StatementFails(q)
  PROVE  DecideStep(q)
<1>1. rows' = rows /\ audit' = audit
  BY DEF Review!Receive, Review!Find, Review!StatementFails, Review!tables
<1>2. makings' = makings /\ closings' = closings
  BY <1>1, EntriesStay
<1>3. RV!Receive(q) \/ RV!Step(q)
  BY <1>2, QuietReview
<1>4. OthersWait(q)
  BY ReviewFrame DEF Review!Step
<1>5. ~DBFaults => \A id \in Ids : ~Closes(q, id)
  BY DEF Review!Receive, Review!Find, Review!StatementFails, Closes
<1>6. ASSUME RV!Holds(q)'
      PROVE  /\ wanted'[q] = wanted[q] /\ wanted[q].id \in Ids
             /\ Claimable(wanted[q].id) /\ current'[q] = rows[wanted[q].id]
  <2>1. CASE Review!Receive(q)
    BY <1>6, <2>1, ReviewFacts DEF RV!Holds, RV!Won, Review!Receive, Review!Goto, Review!Answer
  <2>2. CASE Review!StatementFails(q)
    BY <1>6, <2>2, ReviewFacts DEF RV!Holds, RV!Won, Review!StatementFails, Review!Answer
  <2>3. CASE Review!Find(q)
    BY <1>6, <2>3, ReviewFacts, SameRows
      DEF RV!Holds, RV!Won, Review!Find, Review!Goto, Review!Answer,
       Review!RefusedAtOnce, Review!Visible, Review!Exists, Claimable, Visible, Exists
  <2> QED BY <2>1, <2>2, <2>3
<1> QED BY <1>1, <1>2, <1>3, <1>4, <1>5, <1>6 DEF DecideStep

\* The two conditional writes: the review goes on to its audit entry exactly
\* if the row was still there to be claimed.
LEMMA WriteEffect ==
  ASSUME RV!IInv, NEW q \in Reviews,
         Review!Update(q) \/ Review!SoftDelete(q) \/ Review!AckLost(q)
  PROVE  DecideStep(q)
<1>0. /\ reviewing[q] \in {"update", "softDelete"} /\ reviewing[q] # "idle"
      /\ Review!Update(q) => reviewing[q] = "update"
      /\ Review!SoftDelete(q) => reviewing[q] = "softDelete"
  BY DEF Review!Update, Review!SoftDelete, Review!AckLost
<1>1. PICK id \in Ids : id = wanted[q].id
  BY <1>0, ReviewFacts
<1>2. audit' = audit /\ wanted' = wanted /\ current' = current
  BY DEF Review!Update, Review!SoftDelete, Review!AckLost, Review!locals
<1>3. makings' = makings /\ closings' = closings
  BY <1>2, EntriesStay
<1>4. RV!Receive(q) \/ RV!Step(q)
  BY <1>3, QuietReview
<1>5. OthersWait(q)
  BY ReviewFrame DEF Review!Step
<1>6. \A i \in Ids : ~Closes(q, i)
  BY <1>0 DEF Closes
<1>7. \/ rows' = rows
      \/ /\ Claimable(id)
         /\ IF reviewing[q] = "update"
              THEN RV!SetStatus(id, wanted[q].status, wanted[q].note, wanted[q].actor)
              ELSE RV!SetDeleted(id)
         /\ ~DBFaults => reviewing' =
              [reviewing EXCEPT ![q] = IF reviewing[q] = "update" THEN "reread" ELSE "audit"]
  BY <1>0, <1>1 DEF Review!Update, Review!SoftDelete, Review!AckLost, Review!Claimable,
                    Claimable,
     Review!Visible, Visible, Review!Exists, Exists, Review!SetStatus, RV!SetStatus,
     Review!Decided, RV!Decided,
     Review!SetDeleted, RV!SetDeleted, Review!Removed, RV!Removed, Review!Goto, Review!Answer
<1>8. ASSUME rows' # rows
      PROVE  /\ Claimable(id) /\ Exists(id)' /\ ~Claimable(id)'
             /\ ~DBFaults => Closes(q, id)'
             /\ \A i \in Ids \ {id} : rows'[i] = rows[i]
  <2>1. Claimable(id) /\ Exists(id)' /\ ~Claimable(id)' /\ \A i \in Ids \ {id} : rows'[i] = rows[i]
    BY <1>0, <1>1, <1>7, <1>8, WriteClaims
  <2>2. ~DBFaults => Closes(q, id)'
    BY <1>0, <1>1, <1>2, <1>7, <1>8, ReviewFacts DEF Closes
  <2> QED BY <2>1, <2>2
<1>9. RV!Holds(q)
  BY <1>0 DEF RV!Holds
<1>10. rows' = rows \/ rows' # rows
  OBVIOUS
<1>11. \A i \in Ids : \/ rows'[i] = rows[i]
                      \/ /\ Claimable(i) /\ Exists(i)' /\ ~Claimable(i)'
                         /\ ~DBFaults => Closes(q, i)'
  <2>1. CASE rows' = rows
    BY <2>1
  <2>2. CASE rows' # rows
    <3>1. SUFFICES ASSUME NEW i \in Ids
                   PROVE \/ rows'[i] = rows[i]
                         \/ /\ Claimable(i) /\ Exists(i)' /\ ~Claimable(i)'
                            /\ ~DBFaults => Closes(q, i)'
      OBVIOUS
    <3>2. CASE i = id
      BY <1>8, <2>2, <3>2
    <3>3. CASE i # id
      BY <1>8, <2>2, <3>3
    <3> QED BY <3>2, <3>3
  <2> QED BY <2>1, <2>2
<1> QED BY <1>1, <1>2, <1>3, <1>4, <1>5, <1>6, <1>9, <1>11 DEF DecideStep

\* Nobody deletes a row that is decided: the second FindByID returns it.
LEMMA RereadFinds ==
  ASSUME RV!IInv, NEW q \in Reviews, reviewing[q] = "reread"
  PROVE  Visible(wanted[q].id) /\ RV!Holds(q)
<1>1. RV!Fits(q) /\ wanted[q].op = "update" /\ RV!Won(q) /\ wanted[q].id \in Ids
  BY ReviewFacts DEF RV!Fits, RV!AskFits, RV!Won
<1>2. RV!OwnsRow(q) /\ RV!ReadFits(q)
  BY <1>1 DEF RV!Fits
<1> QED BY <1>1, <1>2, SameRows DEF RV!OwnsRow, RV!ReadFits, RV!Holds, Visible

LEMMA RereadEffect ==
  ASSUME RV!IInv, NEW q \in Reviews, Review!Reread(q)
  PROVE  DecideStep(q)
<1>1. /\ reviewing[q] = "reread" /\ rows' = rows /\ audit' = audit
      /\ wanted' = wanted /\ current' = current
  BY DEF Review!Reread, Review!tables
<1>2. makings' = makings /\ closings' = closings
  BY <1>1, EntriesStay
<1>3. RV!Receive(q) \/ RV!Step(q)
  BY <1>2, QuietReview
<1>4. OthersWait(q)
  BY ReviewFrame DEF Review!Step
<1>5. Visible(wanted[q].id) /\ RV!Holds(q) /\ wanted[q].id \in Ids
  BY <1>1, RereadFinds, ReviewFacts
<1>6. reviewing'[q] = "audit"
  BY <1>5, ReviewFacts DEF Review!Reread, Review!Visible, Visible, Review!Exists, Exists,
                           Review!Goto
<1>7. \A id \in Ids : Closes(q, id) => Closes(q, id)'
  BY <1>1, <1>6 DEF Closes
<1> QED BY <1>1, <1>2, <1>3, <1>4, <1>5, <1>7 DEF DecideStep

LEMMA WriteAuditEffect ==
  ASSUME RV!IInv, NEW q \in Reviews, Review!WriteAudit(q)
  PROVE  DecideStep(q)
<1>1. /\ reviewing[q] = "audit" /\ rows' = rows /\ wanted' = wanted /\ current' = current
      /\ updated' = updated /\ reviewing' = [reviewing EXCEPT ![q] = "done"]
      /\ ~DBFaults => audit' = audit \cup {Review!ReviewEntry(q)}
  BY DEF Review!WriteAudit, Review!Answer, Review!locals, Review!InsertAudit
<1>2. /\ RV!WriteAudit(q) /\ makings' = makings
      /\ audit' = audit \/ audit' = audit \cup {Review!ReviewEntry(q)}
  BY AuditReview
<1>3. RV!Receive(q) \/ RV!Step(q)
  BY <1>2 DEF RV!Step
<1>4. OthersWait(q)
  BY ReviewFrame DEF Review!Step
<1>5. RV!Holds(q) /\ wanted[q].id \in Ids
  BY <1>1, ReviewFacts DEF RV!Holds, RV!Won, RV!Fits, RV!AskFits
<1>6. reviewing'[q] = "done" /\ Review!ReviewEntry(q)' = Review!ReviewEntry(q)
  BY <1>1, ReviewFacts DEF Review!ReviewEntry
<1>7. ~DBFaults => \A id \in Ids : Closes(q, id) => Closes(q, id)'
  BY <1>1, <1>6 DEF Closes
<1> QED BY <1>1, <1>2, <1>3, <1>4, <1>5, <1>7 DEF DecideStep

LEMMA DecideEffect ==
  ASSUME RV!IInv, NEW q \in Reviews, Review!Receive(q) \/ Review!Step(q)
  PROVE  DecideStep(q)
  BY QuietReviewEffect, WriteEffect, RereadEffect, WriteAuditEffect DEF Review!Step

-----------------------------------------------------------------------------
(* The inductive invariant: both parts' on their views, and what they know *)
(* of each other.                                                          *)

AuditSplits == \A e \in audit : e.request \in Creates \cup Reviews

\* What nobody has decided or deleted is as it was made, and that is the
\* version a review starts from.
UndecidedFits == \A id \in Ids : Claimable(id) => rows[id] = PendingRow(asked[id].note)
StartFits ==
  \A r \in Reviews : RV!Holds(r) => current[r] = PendingRow(asked[wanted[r].id].note)

MakingFits ==
  \A e \in makings :
    /\ e = Creation!CreatedEntry(e.request)
    /\ Exists(e.request) /\ creating[e.request] # "idle"

\* Without database faults only who is still at it, or died at it, has not
\* written its entry.
MakingWritten ==
  ~DBFaults => \A r \in Creates :
    Exists(r) /\ creating[r] = "done" => Creation!CreatedEntry(r) \in audit
ClosingWritten ==
  ~DBFaults => \A id \in Ids :
    Exists(id) /\ ~Claimable(id) => \E r \in Reviews : Closes(r, id)

IInv ==
  /\ CV!IInv /\ RV!IInv
  /\ AuditSplits
  /\ UndecidedFits /\ StartFits
  /\ MakingFits
  /\ MakingWritten /\ ClosingWritten

LEMMA InitInViews == Init => CV!Init /\ RV!Init
<1>1. SUFFICES ASSUME Init PROVE CV!Init /\ RV!Init
  OBVIOUS
<1>2. rows = [id \in Ids |-> NoRow] /\ audit = {} /\ \A id \in Ids : ~Exists(id)
  BY <1>1 DEF Init, Creation!Init, Creation!NoRow, NoRow, Exists
<1>3. asMade = [id \in Ids |-> NoRow] /\ makings = {} /\ closings = {}
  BY <1>2 DEF asMade, makings, closings, EntriesOf
<1>4. CV!Init
  BY <1>1, <1>3, SameTables DEF Init, Creation!Init, CV!Init
<1>5. RV!Init
  BY <1>1, <1>2, <1>3, SameTables
  DEF Init, Review!Init, RV!Init, Review!PendingRow, RV!PendingRow
<1> QED BY <1>4, <1>5

LEMMA InitIInv == Init => IInv
<1>1. SUFFICES ASSUME Init PROVE IInv
  OBVIOUS
<1>2. audit = {} /\ makings = {} /\ \A id \in Ids : ~Exists(id)
  BY <1>1 DEF Init, Creation!Init, Creation!NoRow, NoRow, Exists, makings, EntriesOf
<1>3. CV!IInv
  BY <1>1, InitInViews, CV!InitIInv, TableAssumption, ServiceAssumption
<1>4. RV!IInv
  BY <1>1, InitInViews, RV!InitIInv, TableAssumption, ServiceAssumption
<1>5. AuditSplits /\ MakingFits
  BY <1>2 DEF AuditSplits, MakingFits
<1>6. UndecidedFits
  BY <1>2 DEF UndecidedFits, Claimable, Visible
<1>7. StartFits
  <2>1. \A r \in Reviews : ~RV!Holds(r)
    BY <1>1, InitInViews DEF RV!Init, RV!Holds, RV!Won
  <2> QED BY <2>1 DEF StartFits
<1>8. MakingWritten /\ ClosingWritten
  BY <1>2, ServiceAssumption DEF MakingWritten, ClosingWritten
<1> QED BY <1>3, <1>4, <1>5, <1>6, <1>7, <1>8 DEF IInv

-----------------------------------------------------------------------------
(* The steps of a creation keep the invariant.                             *)

LEMMA AskedStays ==
  ASSUME CV!IInv, RV!IInv, NEW q \in Creates, MakeStep(q)
  PROVE  /\ \A id \in Ids : Exists(id) =>
              id \in Creates /\ creating[id] # "idle" /\ asked'[id] = asked[id]
         /\ \A id \in Ids : Exists(id) => Exists(id)' /\ rows'[id] = rows[id]
         /\ \A r \in Creates : creating[r] # "idle" =>
              creating'[r] # "idle" /\ Creation!CreatedEntry(r)' = Creation!CreatedEntry(r)
         /\ RV!RowsStep /\ rows' \in [Ids -> Row]
<1>1. \A id \in Ids : Exists(id) => id \in Creates /\ creating[id] # "idle" /\ asked'[id] = asked[id]
  BY MakingFacts DEF MakeStep
<1>2. \A id \in Ids : Exists(id) => rows'[id] = rows[id]
  BY DEF MakeStep
<1>3. \A r \in Creates : creating[r] # "idle" => creating'[r] # "idle" /\ asked'[r] = asked[r]
  BY DEF MakeStep
<1>4. \A r \in Creates : creating[r] # "idle" => Creation!CreatedEntry(r)' = Creation!CreatedEntry(r)
  BY <1>3 DEF Creation!CreatedEntry
<1>5. RV!RowsStep
  BY SameRows DEF MakeStep, RV!RowsStep
<1>6. rows' \in [Ids -> Row]
  BY MakingFacts DEF MakeStep
<1> QED BY <1>1, <1>2, <1>3, <1>4, <1>5, <1>6 DEF Exists

\* Its review part: a row that appears is none that a review has read.
LEMMA MakeKeepsReviews ==
  ASSUME CV!IInv, RV!IInv, NEW q \in Creates, MakeStep(q), UNCHANGED review
  PROVE  RV!IInv'
<1>1. /\ reviewing' = reviewing /\ wanted' = wanted /\ current' = current
      /\ updated' = updated /\ reviewed' = reviewed /\ closings' = closings
  BY DEF review, MakeStep
<1>2. RV!TypeOK'
  BY <1>1, AskedStays, SameTables DEF RV!IInv, RV!TypeOK
<1>3. \A r \in Reviews : RV!Fits(r)'
  <2>1. SUFFICES ASSUME NEW r \in Reviews PROVE RV!Fits(r)'
    OBVIOUS
  <2>2. RV!TypeOK /\ RV!Fits(r) /\ RV!RowsStep
    BY AskedStays DEF RV!IInv
  <2> QED BY <1>1, <2>2, RV!OthersKeepFits, TableAssumption, ServiceAssumption
<1>4. RV!EntryFits' /\ RV!OneWinner'
  BY <1>1 DEF RV!IInv, RV!EntryFits, RV!OneWinner, RV!Won, RV!ReviewEntry, RV!Removed
<1> QED BY <1>2, <1>3, <1>4 DEF RV!IInv

LEMMA MakeKeepsEntries ==
  ASSUME IInv, NEW q \in Creates, MakeStep(q)
  PROVE  AuditSplits' /\ MakingFits' /\ MakingWritten'
<1>0. CV!IInv /\ RV!IInv
  BY DEF IInv
<1> DEFINE e == Creation!CreatedEntry(q)
<1>1. e.request = q
  BY DEF Creation!CreatedEntry
<1>2. audit' = audit \/ (creating'[q] = "done" /\ Exists(q) /\ audit' = audit \cup {e})
  BY DEF MakeStep
<1>3. /\ \A r \in Creates : Exists(r) => r \in Ids /\ creating[r] # "idle" /\ Exists(r)'
      /\ \A r \in Creates : creating[r] # "idle" =>
           creating'[r] # "idle" /\ Creation!CreatedEntry(r)' = Creation!CreatedEntry(r)
  BY <1>0, AskedStays, ServiceAssumption
<1> HIDE DEF e
<1>4. AuditSplits'
  BY <1>1, <1>2 DEF IInv, AuditSplits
<1>5. MakingFits'
  <2>1. ASSUME NEW f \in makings
        PROVE  /\ f = Creation!CreatedEntry(f.request)'
               /\ Exists(f.request)' /\ creating'[f.request] # "idle"
    BY <1>3, <2>1 DEF IInv, MakingFits, makings, EntriesOf
  <2>2. makings' \subseteq makings \cup {e}
    BY <1>1, <1>2, EntriesGrow, EntriesStay
  <2>3. CASE e \in makings' /\ e \notin makings
    <3>1. Exists(q)
      BY <1>2, <2>3, EntriesStay
    <3>2. e = Creation!CreatedEntry(q)' /\ Exists(q)' /\ creating'[q] # "idle"
      BY <1>3, <3>1 DEF e
    <3> QED BY <1>1, <2>1, <2>2, <3>2 DEF MakingFits
  <2>4. CASE ~(e \in makings' /\ e \notin makings)
    BY <2>1, <2>2, <2>4 DEF MakingFits
  <2> QED BY <2>3, <2>4
<1>6. MakingWritten'
  <2>1. SUFFICES ASSUME ~DBFaults, NEW r \in Creates, Exists(r)', creating'[r] = "done"
                 PROVE  Creation!CreatedEntry(r)' \in audit'
    BY DEF MakingWritten
  <2>2. CASE r = q
    BY <1>3, <2>1, <2>2 DEF MakeStep
  <2>3. CASE r # q
    <3>1. creating[r] = "done" /\ Exists(r) /\ r \in Ids
      BY <2>1, <2>3, ServiceAssumption DEF MakeStep, Exists
    <3>2. Creation!CreatedEntry(r) \in audit
      BY <2>1, <3>1 DEF IInv, MakingWritten
    <3> QED BY <1>2, <1>3, <3>1, <3>2
  <2> QED BY <2>2, <2>3
<1> QED BY <1>4, <1>5, <1>6

LEMMA MakeKeepsRows ==
  ASSUME IInv, NEW q \in Creates, MakeStep(q), UNCHANGED review
  PROVE  UndecidedFits' /\ StartFits' /\ ClosingWritten'
<1>0. CV!IInv /\ RV!IInv
  BY DEF IInv
<1>1. /\ reviewing' = reviewing /\ wanted' = wanted /\ current' = current
      /\ updated' = updated /\ reviewed' = reviewed
  BY DEF review
<1>2. \A id \in Ids : Exists(id) => asked'[id] = asked[id] /\ Exists(id)' /\ rows'[id] = rows[id]
  BY <1>0, AskedStays
<1>3. \A id \in Ids : ~Exists(id) /\ Exists(id)' =>
          rows'[id] = PendingRow(asked'[id].note) /\ Claimable(id)'
  <2>1. \A id \in Ids : ~Exists(id) /\ Exists(id)' => 
          id = q /\ creating[q] # "idle" /\ rows'[id] = PendingRow(asked[q].note)
    BY DEF MakeStep, Exists
  <2>2. creating[q] # "idle" => asked'[q] = asked[q]
    BY DEF MakeStep
  <2>3. ASSUME NEW id \in Ids, NEW note, rows'[id] = PendingRow(note) PROVE Claimable(id)'
    BY <2>3 DEF Claimable, Visible, Exists, PendingRow
  <2> QED BY <2>1, <2>2, <2>3
<1>4. UndecidedFits'
  <2>1. SUFFICES ASSUME NEW id \in Ids, Claimable(id)' PROVE rows'[id] = PendingRow(asked'[id].note)
    BY DEF UndecidedFits
  <2>2. CASE Exists(id)
    <3>1. Claimable(id) /\ rows'[id] = rows[id]
      BY <1>2, <2>1, <2>2 DEF Claimable, Visible, Exists
    <3> QED BY <1>2, <2>2, <3>1 DEF IInv, UndecidedFits
  <2>3. CASE ~Exists(id)
    BY <1>3, <2>1, <2>3 DEF Claimable, Visible
  <2> QED BY <2>2, <2>3
<1>5. StartFits'
  <2>1. SUFFICES ASSUME NEW r \in Reviews, RV!Holds(r)'
                 PROVE  current'[r] = PendingRow(asked'[wanted'[r].id].note)
    BY DEF StartFits
  <2>2. RV!Holds(r)
    BY <1>1, <2>1 DEF RV!Holds, RV!Won
  <2>3. wanted[r].id \in Ids /\ Exists(wanted[r].id)
    BY <1>0, <2>2, ReviewFacts, SameRows DEF RV!Fits, RV!ReadFits, RV!Holds, RV!Won
  <2> QED BY <1>1, <1>2, <2>2, <2>3 DEF IInv, StartFits
<1>6. ClosingWritten'
  <2>1. SUFFICES ASSUME ~DBFaults, NEW id \in Ids, Exists(id)', ~Claimable(id)'
                 PROVE  \E r \in Reviews : Closes(r, id)'
    BY DEF ClosingWritten
  <2>2. Exists(id) /\ ~Claimable(id)
    BY <1>2, <1>3, <2>1 DEF Claimable, Visible, Exists
  <2>3. PICK r \in Reviews : Closes(r, id)
    BY <2>1, <2>2 DEF IInv, ClosingWritten
  <2>4. audit \subseteq audit' /\ Review!ReviewEntry(r)' = Review!ReviewEntry(r)
    BY <1>1 DEF MakeStep, Review!ReviewEntry, Review!Removed
  <2> QED BY <1>1, <2>3, <2>4 DEF Closes
<1> QED BY <1>4, <1>5, <1>6

LEMMA CreateKeepsIInv ==
  ASSUME IInv, NEW q \in Creates, Create(q)
  PROVE  IInv'
<1>1. CV!IInv /\ RV!IInv
  BY DEF IInv
<1>2. MakeStep(q) /\ UNCHANGED review
  BY <1>1, MakeEffect DEF Create
<1>3. CV!IInv'
  BY <1>1, <1>2, CreationKeeps DEF MakeStep, CV!Next
<1> QED BY <1>1, <1>2, <1>3, MakeKeepsReviews, MakeKeepsEntries, MakeKeepsRows DEF IInv

-----------------------------------------------------------------------------
(* The steps of a review keep the invariant.                               *)

LEMMA DecideKeepsEntries ==
  ASSUME IInv, NEW q \in Reviews, DecideStep(q), UNCHANGED creation
  PROVE  AuditSplits' /\ MakingFits' /\ MakingWritten'
<1>1. creating' = creating /\ asked' = asked /\ makings' = makings /\ audit \subseteq audit'
  BY DEF creation, DecideStep
<1>2. \A id \in Ids : Exists(id)' <=> Exists(id)
  BY DEF DecideStep, Exists, Claimable, Visible
<1>3. \A r \in Creates : Creation!CreatedEntry(r)' = Creation!CreatedEntry(r)
  BY <1>1 DEF Creation!CreatedEntry
<1>4. AuditSplits'
  BY DEF IInv, AuditSplits, DecideStep, Review!ReviewEntry
<1>5. MakingFits'
  <2>1. SUFFICES ASSUME NEW e \in makings
                 PROVE  /\ e = Creation!CreatedEntry(e.request)'
                        /\ Exists(e.request)' /\ creating'[e.request] # "idle"
    BY <1>1 DEF MakingFits
  <2>2. e.request \in Creates /\ e.request \in Ids
    BY ServiceAssumption DEF makings, EntriesOf
  <2> QED BY <1>1, <1>2, <1>3, <2>2 DEF IInv, MakingFits
<1>6. MakingWritten'
  BY <1>1, <1>2, <1>3, ServiceAssumption DEF IInv, MakingWritten
<1> QED BY <1>4, <1>5, <1>6

LEMMA DecideKeepsRows ==
  ASSUME IInv, NEW q \in Reviews, DecideStep(q), UNCHANGED creation
  PROVE  UndecidedFits' /\ StartFits' /\ ClosingWritten'
<1>1. asked' = asked /\ audit \subseteq audit'
  BY DEF creation, DecideStep
<1>2. \A id \in Ids : Claimable(id)' => Claimable(id) /\ rows'[id] = rows[id]
  BY DEF DecideStep, Exists, Claimable, Visible
<1>3. UndecidedFits'
  BY <1>1, <1>2 DEF IInv, UndecidedFits
<1>4. StartFits'
  <2>1. SUFFICES ASSUME NEW r \in Reviews, RV!Holds(r)'
                 PROVE  current'[r] = PendingRow(asked[wanted'[r].id].note)
    BY <1>1 DEF StartFits
  <2>2. CASE r = q
    BY <2>1, <2>2 DEF DecideStep, IInv, StartFits, UndecidedFits
  <2>3. CASE r # q
    <3>1. RV!Holds(r) /\ wanted'[r] = wanted[r] /\ current'[r] = current[r]
      BY <2>1, <2>3 DEF DecideStep, OthersWait, RV!Holds, RV!Won
    <3> QED BY <3>1 DEF IInv, StartFits
  <2> QED BY <2>2, <2>3
<1>5. ClosingWritten'
  <2>1. SUFFICES ASSUME ~DBFaults, NEW id \in Ids, Exists(id)', ~Claimable(id)'
                 PROVE  \E r \in Reviews : Closes(r, id)'
    BY DEF ClosingWritten
  <2>2. ASSUME NEW r \in Reviews, Closes(r, id) PROVE Closes(r, id)'
    <3>1. CASE r = q
      BY <2>1, <2>2, <3>1 DEF DecideStep
    <3>2. CASE r # q
      <4>1. Review!ReviewEntry(r)' = Review!ReviewEntry(r)
        BY <3>2 DEF DecideStep, OthersWait, Review!ReviewEntry, Review!Removed
      <4> QED BY <1>1, <2>2, <3>2, <4>1 DEF DecideStep, OthersWait, Closes
    <3> QED BY <3>1, <3>2
  <2>3. CASE rows'[id] = rows[id]
    <3>1. Exists(id) /\ ~Claimable(id)
      BY <2>1, <2>3 DEF Exists, Claimable, Visible
    <3> QED BY <2>1, <2>2, <3>1 DEF IInv, ClosingWritten
  <2>4. CASE rows'[id] # rows[id]
    BY <2>1, <2>4 DEF DecideStep
  <2> QED BY <2>3, <2>4
<1> QED BY <1>3, <1>4, <1>5

\* A decided or deleted row is none to a creation.
LEMMA DecideLeavesCreations ==
  ASSUME NEW q \in Reviews, DecideStep(q), UNCHANGED creation
  PROVE  UNCHANGED CV!vars
<1>1. \A id \in Ids : Exists(id)' <=> Exists(id)
  BY DEF DecideStep, Exists, Claimable, Visible
<1>2. asMade' = asMade
  BY <1>1, AsMadeStays DEF creation
<1> QED BY <1>2 DEF CV!vars, CV!tables, CV!keys, CV!locals, creation, DecideStep

LEMMA DecideKeepsIInv ==
  ASSUME IInv, NEW q \in Reviews, Decide(q)
  PROVE  IInv'
<1>1. CV!IInv /\ RV!IInv
  BY DEF IInv
<1>2. DecideStep(q) /\ UNCHANGED creation
  BY <1>1, DecideEffect DEF Decide
<1>3. RV!IInv'
  BY <1>1, <1>2, ReviewKeeps DEF DecideStep, RV!Next
<1>4. CV!IInv'
  BY <1>1, <1>2, DecideLeavesCreations, CreationKeeps
<1> QED BY <1>2, <1>3, <1>4, DecideKeepsEntries, DecideKeepsRows DEF IInv

-----------------------------------------------------------------------------
(* Neither do a crash and the clock break it.                              *)

\* Steps that leave the tables and what was sent alone.
LEMMA RestKeepsIInv ==
  ASSUME IInv, CV!IInv', RV!IInv', rows' = rows, audit' = audit, asked' = asked,
         wanted' = wanted, current' = current, updated' = updated,
         \A r \in Creates : /\ creating[r] = "idle" <=> creating'[r] = "idle"
                            /\ creating'[r] = "done" => creating[r] = "done",
         \A r \in Reviews : /\ RV!Holds(r)' => RV!Holds(r)
                            /\ \A id \in Ids : Closes(r, id) => Closes(r, id)'
  PROVE  IInv'
<1>1. /\ makings' = makings
      /\ \A id \in Ids : Exists(id)' <=> Exists(id)
      /\ \A id \in Ids : Claimable(id)' <=> Claimable(id)
  BY EntriesStay DEF Exists, Claimable, Visible
<1>2. \A r \in Creates : Creation!CreatedEntry(r)' = Creation!CreatedEntry(r)
  BY DEF Creation!CreatedEntry
<1>3. \A e \in makings : e.request \in Creates /\ e.request \in Ids
  BY ServiceAssumption DEF makings, EntriesOf
<1>4. AuditSplits' /\ UndecidedFits' /\ StartFits'
  BY <1>1 DEF IInv, AuditSplits, UndecidedFits, StartFits
<1>5. MakingFits'
  BY <1>1, <1>2, <1>3 DEF IInv, MakingFits
<1>6. MakingWritten'
  BY <1>1, <1>2, ServiceAssumption DEF IInv, MakingWritten
<1>7. ClosingWritten'
  BY <1>1 DEF IInv, ClosingWritten
<1> QED BY <1>4, <1>5, <1>6, <1>7 DEF IInv

LEMMA RestLeaves ==
  ASSUME IInv, Crash \/ Tick \/ UNCHANGED vars
  PROVE  /\ rows' = rows /\ audit' = audit /\ asked' = asked
         /\ wanted' = wanted /\ current' = current /\ updated' = updated
         /\ asMade' = asMade /\ makings' = makings /\ closings' = closings
         /\ Creation!Crash \/ UNCHANGED creation \/ Creation!Tick
         /\ Review!Crash \/ UNCHANGED review
<1>1. /\ rows' = rows /\ audit' = audit /\ asked' = asked
      /\ wanted' = wanted /\ current' = current /\ updated' = updated
      /\ Creation!Crash \/ UNCHANGED creation \/ Creation!Tick
      /\ Review!Crash \/ UNCHANGED review
  BY DEF Crash, Tick, vars, Creation!Crash, Review!Crash, Creation!Tick, Creation!tables,
         Review!tables, tables,
     Creation!locals, Review!locals, creation, review
<1>2. asMade' = asMade
  BY <1>1, AsMadeStays DEF Exists
<1> QED BY <1>1, <1>2, EntriesStay

LEMMA RestKeepsCreations ==
  ASSUME IInv, Crash \/ Tick \/ UNCHANGED vars
  PROVE  /\ [CV!Next]_(CV!vars)
         /\ CV!IInv'
         /\ \A r \in Creates : /\ creating[r] = "idle" <=> creating'[r] = "idle"
                               /\ creating'[r] = "done" => creating[r] = "done"
<1>0. CV!IInv
  BY DEF IInv
<1>1. CASE Creation!Crash
  <2>1. CV!Crash
    BY <1>1, RestLeaves DEF Creation!Crash, CV!Crash, Creation!Running, CV!Running,
                            Creation!tables, CV!tables,
       Creation!keys, CV!keys, Creation!locals, CV!locals
  <2>2. \A r \in Creates :
          creating'[r] = creating[r] \/ (creating[r] \in CV!Running /\ creating'[r] \in {"orphan", "lost"})
    BY <2>1 DEF CV!Crash, CV!Running
  <2> QED BY <1>0, <2>1, <2>2, CreationKeeps DEF CV!Next, CV!Running
<1>2. CASE Creation!Tick
  <2>1. CV!Tick
    BY <1>2, RestLeaves DEF Creation!Tick, CV!Tick, Creation!tables, CV!tables,
       Creation!keys, CV!keys, Creation!locals, CV!locals
  <2> QED BY <1>0, <2>1, CreationKeeps DEF CV!Next, CV!Tick
<1>3. CASE UNCHANGED creation
  <2>1. UNCHANGED CV!vars
    BY <1>3, RestLeaves DEF creation, CV!vars, CV!tables, CV!keys, CV!locals
  <2> QED BY <1>0, <1>3, <2>1, CreationKeeps DEF creation
<1> QED BY <1>1, <1>2, <1>3, RestLeaves

LEMMA RestKeepsReviews ==
  ASSUME IInv, Crash \/ Tick \/ UNCHANGED vars
  PROVE  /\ [RV!Next]_(RV!vars)
         /\ RV!IInv'
         /\ \A r \in Reviews : /\ RV!Holds(r)' => RV!Holds(r)
                               /\ \A id \in Ids : Closes(r, id) => Closes(r, id)'
<1>0. RV!IInv
  BY DEF IInv
<1>1. \A r \in Reviews : Review!ReviewEntry(r)' = Review!ReviewEntry(r)
  BY RestLeaves DEF Review!ReviewEntry, Review!Removed
<1>2. CASE Review!Crash
  <2>1. RV!Crash
    BY <1>2, RestLeaves DEF Review!Crash, RV!Crash, Review!Running, RV!Running, Review!tables,
                            RV!tables,
       Review!locals, RV!locals
  <2>2. reviewed' = reviewed /\ \A r \in Reviews :
          reviewing'[r] = reviewing[r] \/ (reviewing[r] \in RV!Running /\ reviewing'[r] = "lost")
    BY <2>1 DEF RV!Crash, RV!Running
  <2>3. \A r \in Reviews : reviewing[r] \in RV!Running => reviewed[r] = "none"
    BY ReviewFacts, <1>0 DEF RV!Running
  <2>4. \A r \in Reviews : RV!Holds(r)' => RV!Holds(r)
    BY <2>2, <2>3, RestLeaves DEF RV!Holds, RV!Won
  <2>5. \A r \in Reviews, id \in Ids : Closes(r, id) => Closes(r, id)'
    BY <1>1, <2>2, RestLeaves DEF Closes, RV!Running
  <2> QED BY <1>0, <2>1, <2>4, <2>5, ReviewKeeps DEF RV!Next
<1>3. CASE UNCHANGED review
  <2>1. UNCHANGED RV!vars
    BY <1>3, RestLeaves DEF review, RV!vars, RV!tables, RV!locals
  <2>2. \A r \in Reviews : RV!Holds(r)' => RV!Holds(r)
    BY <1>3 DEF review, RV!Holds, RV!Won
  <2>3. \A r \in Reviews, id \in Ids : Closes(r, id) => Closes(r, id)'
    BY <1>1, <1>3, RestLeaves DEF review, Closes
  <2> QED BY <1>0, <2>1, <2>2, <2>3, ReviewKeeps
<1> QED BY <1>2, <1>3, RestLeaves

LEMMA NextKeepsIInv == IInv /\ [Next]_vars => IInv'
<1>1. SUFFICES ASSUME IInv, [Next]_vars PROVE IInv'
  OBVIOUS
<1>2. CASE Crash \/ Tick \/ UNCHANGED vars
  BY <1>1, <1>2, RestLeaves, RestKeepsCreations, RestKeepsReviews, RestKeepsIInv
<1>3. ASSUME NEW q \in Creates, Create(q) PROVE IInv'
  BY <1>1, <1>3, CreateKeepsIInv
<1>4. ASSUME NEW q \in Reviews, Decide(q) PROVE IInv'
  BY <1>1, <1>4, DecideKeepsIInv
<1> QED BY <1>1, <1>2, <1>3, <1>4 DEF Next

\* IInv is an invariant of the disbursement endpoints together.
THEOREM Invariance == Spec => []IInv
  BY InitIInv, NextKeepsIInv, PTL DEF Spec

-----------------------------------------------------------------------------
(* What the audit log tells.                                               *)

LEMMA MakingEntries ==
  ASSUME IInv, NEW e \in makings
  PROVE  /\ e \in audit /\ e.action = "created"
         /\ e.request \in Creates /\ e.entity = e.request /\ Exists(e.entity)
         /\ e.after = PendingRow(asked[e.entity].note)
<1>1. e = Creation!CreatedEntry(e.request) /\ Exists(e.request) /\ e \in audit /\ e.request \in Creates
  BY DEF IInv, MakingFits, makings, EntriesOf
<1> QED BY <1>1 DEF Creation!CreatedEntry, Creation!PendingRow, PendingRow

LEMMA ClosingEntries ==
  ASSUME IInv, NEW f \in closings
  PROVE  /\ f \in audit /\ f.action \in {"status_changed", "deleted"}
         /\ f.entity \in Ids /\ Exists(f.entity)
         /\ f.before = PendingRow(asked[f.entity].note)
         /\ f.after = rows[f.entity]
<1>1. f \in audit /\ f.request \in Reviews
  BY DEF closings, EntriesOf
<1>2. RV!IInv /\ RV!Won(f.request) /\ f = RV!ReviewEntry(f.request)
  BY DEF IInv, RV!IInv, RV!EntryFits
<1>3. RV!Holds(f.request) /\ reviewing[f.request] # "idle"
  BY <1>2 DEF RV!Holds, RV!Won
<1>4. RV!AuditTrue
  BY <1>2, RV!EntriesAreTrue, TableAssumption, ServiceAssumption
<1>5. /\ f.entity = wanted[f.request].id /\ f.before = current[f.request]
      /\ f.action \in {"status_changed", "deleted"}
  BY <1>2 DEF RV!ReviewEntry
<1>6. f.entity \in Ids /\ Exists(f.entity)
  BY <1>1, <1>2, <1>3, <1>5, ReviewFacts, SameRows DEF RV!Fits, RV!ReadFits
<1>7. f.before = PendingRow(asked[f.entity].note)
  BY <1>1, <1>3, <1>5 DEF IInv, StartFits
<1>8. f.after = rows[f.entity]
  BY <1>4 DEF RV!AuditTrue
<1> QED BY <1>1, <1>5, <1>6, <1>7, <1>8

LEMMA EntriesByAction ==
  ASSUME IInv, NEW id
  PROVE  /\ \A e \in Entries(id, {"created"}) : e \in makings /\ e.entity = id
         /\ \A f \in Entries(id, {"status_changed", "deleted"}) : f \in closings /\ f.entity = id
<1>1. \A e \in audit : e \in makings \/ e \in closings
  BY DEF IInv, AuditSplits, makings, closings, EntriesOf
<1> QED BY <1>1, MakingEntries, ClosingEntries DEF Entries

\* The audit entries of a disbursement tell its whole life: what a decision
\* or a deletion starts from is what the creation left, however long the
\* creation still took to write its own entry, and none is missing unless
\* somebody is still at it, died at it, or the database failed.
THEOREM TrailIsWhole == Spec => []TrailReplays
<1>1. ASSUME IInv, NEW id \in Ids,
             NEW e \in Entries(id, {"created"}), NEW f \in Entries(id, {"status_changed", "deleted"})
      PROVE  f.before = e.after
  BY <1>1, EntriesByAction, MakingEntries, ClosingEntries
<1>2. ASSUME IInv, NEW id \in Ids, NEW f \in Entries(id, {"status_changed", "deleted"})
      PROVE  f.after = rows[id]
  BY <1>2, EntriesByAction, ClosingEntries
<1>3. ASSUME IInv, NEW id \in Ids, ~Exists(id)
      PROVE  Entries(id, {"created"}) \cup Entries(id, {"status_changed", "deleted"}) = {}
  BY <1>3, EntriesByAction, MakingEntries, ClosingEntries
<1>4. ASSUME IInv, NEW id \in Ids, ~Busy(id), Exists(id), ~DBFaults
      PROVE  \E e \in Entries(id, {"created"}) :
               rows[id] # e.after => Entries(id, {"status_changed", "deleted"}) # {}
  <2>1. id \in Creates /\ creating[id] = "done"
    <3>1. id \in Creates /\ creating[id] # "idle"
      BY <1>4, ViewExists DEF IInv, CV!IInv, CV!RequestInv
    <3>2. creating[id] \in {"idle", "orphan"} \cup CV!Running \cup CV!Ended
      BY <1>4, <3>1, MakingFacts DEF IInv
    <3>3. creating[id] \notin Creation!Running \cup {"orphan", "lost"}
      BY <1>4, <3>1 DEF Busy
    <3> QED BY <3>1, <3>2, <3>3 DEF Creation!Running, CV!Running, CV!Ended
  <2> DEFINE e == Creation!CreatedEntry(id)
  <2>2. e \in audit
    BY <1>4, <2>1 DEF IInv, MakingWritten
  <2>3. e.action = "created" /\ e.entity = id /\ e.after = PendingRow(asked[id].note)
    BY DEF Creation!CreatedEntry, Creation!PendingRow, PendingRow
  <2> HIDE DEF e
  <2>4. e \in Entries(id, {"created"})
    BY <2>2, <2>3 DEF Entries
  <2>5. ASSUME rows[id] # e.after PROVE Entries(id, {"status_changed", "deleted"}) # {}
    <3>1. ~Claimable(id)
      BY <1>4, <2>3, <2>5 DEF IInv, UndecidedFits
    <3>2. PICK r \in Reviews : Closes(r, id)
      BY <1>4, <3>1 DEF IInv, ClosingWritten
    <3>3. reviewing[r] = "done" /\ Review!ReviewEntry(r) \in audit /\ wanted[r].id = id
      BY <1>4, <3>2 DEF Closes, Busy, Review!Running
    <3>4. /\ Review!ReviewEntry(r).entity = id
          /\ Review!ReviewEntry(r).action \in {"status_changed", "deleted"}
      BY <3>3 DEF Review!ReviewEntry
    <3> QED BY <3>3, <3>4 DEF Entries
  <2> QED BY <2>4, <2>5
<1>5. IInv => TrailReplays
  BY <1>1, <1>2, <1>3, <1>4 DEF TrailReplays
<1> QED BY <1>5, Invariance, PTL

-----------------------------------------------------------------------------
(* Errors.                                                                 *)

\* Seen by a creation, every step is a creation's or none at all.
LEMMA NextIsCreations == IInv /\ [Next]_vars => [CV!Next]_(CV!vars)
<1>1. SUFFICES ASSUME IInv, [Next]_vars PROVE [CV!Next]_(CV!vars)
  OBVIOUS
<1>2. CV!IInv /\ RV!IInv
  BY <1>1 DEF IInv
<1>3. CASE Crash \/ Tick \/ UNCHANGED vars
  BY <1>1, <1>3, RestKeepsCreations
<1>4. ASSUME NEW q \in Creates, Create(q) PROVE [CV!Next]_(CV!vars)
  BY <1>2, <1>4, MakeEffect DEF Create, MakeStep, CV!Next
<1>5. ASSUME NEW q \in Reviews, Decide(q) PROVE [CV!Next]_(CV!vars)
  BY <1>2, <1>5, DecideEffect, DecideLeavesCreations DEF Decide
<1> QED BY <1>1, <1>3, <1>4, <1>5 DEF Next

\* Seen by a review, every step is a review's, none, or an insert.
LEMMA NextIsReviews ==
  ASSUME IInv, [Next]_vars
  PROVE  [RV!Next]_(RV!vars) \/ \E q \in Creates : MakeStep(q) /\ UNCHANGED review
<1>1. CV!IInv /\ RV!IInv
  BY DEF IInv
<1>2. CASE Crash \/ Tick \/ UNCHANGED vars
  BY <1>2, RestKeepsReviews
<1>3. ASSUME NEW q \in Creates, Create(q) PROVE MakeStep(q) /\ UNCHANGED review
  BY <1>1, <1>3, MakeEffect DEF Create
<1>4. ASSUME NEW q \in Reviews, Decide(q) PROVE [RV!Next]_(RV!vars)
  BY <1>1, <1>4, DecideEffect DEF Decide, DecideStep, RV!Next
<1> QED BY <1>2, <1>3, <1>4 DEF Next

\* What either side says about its refusals alone holds of both together: no
\* creation, decision or deletion trips over one of the other side.
THEOREM NobodyTrips == Spec => [](Creation!NoSpuriousRefusal /\ Review!RereadHits)
<1> DEFINE EInv == (\A r \in Creates : CV!EvidenceInv(r)) /\ RV!RereadHits
<1>1. Init => EInv
  <2>1. SUFFICES ASSUME Init PROVE EInv
    OBVIOUS
  <2>2. /\ \A r \in Creates : creating[r] = "idle" /\ created[r] = "none" /\ round[r] = 1
        /\ \A r \in Reviews : reviewed[r] = "none"
        /\ sharing = {}
    BY <2>1 DEF Init, Creation!Init, Review!Init
  <2> QED BY <2>2 DEF CV!EvidenceInv, CV!RoundInv, RV!RereadHits
<1>2. IInv /\ IInv' /\ EInv /\ [Next]_vars => EInv'
  <2>1. SUFFICES ASSUME IInv, IInv', EInv, [Next]_vars PROVE EInv'
    OBVIOUS
  <2>2. CV!IInv /\ CV!IInv' /\ RV!IInv /\ [CV!Next]_(CV!vars)
    BY <2>1, NextIsCreations DEF IInv
  <2>3. (\A r \in Creates : CV!EvidenceInv(r))'
    BY <2>1, <2>2, CV!EvidenceNext, TableAssumption, ServiceAssumption
  <2>4. CASE [RV!Next]_(RV!vars)
    <3>1. RV!RereadHits'
      BY <2>1, <2>2, <2>4, RV!RereadFinds, TableAssumption, ServiceAssumption
    <3> QED BY <2>3, <3>1
  <2>5. CASE \E q \in Creates : MakeStep(q) /\ UNCHANGED review
    BY <2>1, <2>3, <2>5 DEF review, RV!RereadHits
  <2> QED BY <2>1, <2>4, <2>5, NextIsReviews
<1>3. IInv /\ EInv => Creation!NoSpuriousRefusal /\ Review!RereadHits
  <2>1. SUFFICES ASSUME IInv, EInv PROVE Creation!NoSpuriousRefusal /\ Review!RereadHits
    OBVIOUS
  <2>2. \A r \in Creates : CV!Exists(r) => Creation!Exists(r)
    BY ViewExists, ServiceAssumption DEF Creation!Exists, Exists
  <2>3. CV!NoSpuriousRefusal
    BY <2>1 DEF CV!EvidenceInv, CV!RoundInv, CV!GoneBecause, CV!Outlived, CV!NoSpuriousRefusal
  <2>4. Creation!NoSpuriousRefusal
    BY <2>2, <2>3 DEF CV!NoSpuriousRefusal, Creation!NoSpuriousRefusal, CV!Sent, Creation!Sent,
       CV!Key, Creation!Key, CV!SeesExpired, Creation!SeesExpired, CV!Trouble, Creation!Trouble
  <2>5. Review!RereadHits
    BY <2>1 DEF RV!RereadHits, Review!RereadHits
  <2> QED BY <2>4, <2>5
<1> QED BY <1>1, <1>2, <1>3, Invariance, PTL DEF Spec

-----------------------------------------------------------------------------
(* The refinements.                                                        *)

LEMMA SameMade == \A id \in Ids : /\ CV!made[id] = Creation!made[id]
                                  /\ CV!made'[id] = Creation!made'[id]
<1>1. \A id \in Ids : /\ CV!Exists(id) <=> Creation!Exists(id)
                      /\ CV!Exists(id)' <=> Creation!Exists(id)'
  BY DEF CV!Exists, Creation!Exists, Exists, asMade, PendingRow, NoRow
<1> QED BY <1>1 DEF CV!made, Creation!made, CV!Key, Creation!Key

LEMMA SameLedger == CV!made = Creation!made /\ CV!made' = Creation!made'
  BY SameMade DEF CV!made, Creation!made

LEMMA LedgerStep ==
  ASSUME [CV!Ledger!Next]_(CV!Ledger!ledger)
  PROVE  [Creation!Ledger!Next]_(Creation!Ledger!ledger)
  BY SameLedger DEF CV!Ledger!Next, Creation!Ledger!Next, CV!Ledger!ledger,
                    Creation!Ledger!ledger,
     CV!Ledger!Plain, Creation!Ledger!Plain, CV!Ledger!Accept, Creation!Ledger!Accept,
     CV!Ledger!Make, Creation!Ledger!Make, CV!Ledger!Forget, Creation!Ledger!Forget,
     CV!Ledger!Tick, Creation!Ledger!Tick, CV!Ledger!Expired, Creation!Ledger!Expired

LEMMA LifeStep ==
  ASSUME [RV!Lifecycle!Next]_(RV!life)
  PROVE  [Review!Lifecycle!Next]_(Review!life)
<1>1. RV!life = Review!life /\ RV!life' = Review!life'
  BY DEF RV!life, Review!life, RV!Stage, Review!Stage
<1> QED BY <1>1 DEF RV!Lifecycle!Next, Review!Lifecycle!Next, 
     RV!Lifecycle!Create, Review!Lifecycle!Create, RV!Lifecycle!Decide, Review!Lifecycle!Decide,
     RV!Lifecycle!Remove, Review!Lifecycle!Remove, RV!Lifecycle!Become, Review!Lifecycle!Become

\* An insert is a Create of the lifecycle.
LEMMA InsertCreates ==
  ASSUME IInv, NEW q \in Creates, MakeStep(q)
  PROVE  [Review!Lifecycle!Next]_(Review!life)
<1>1. q \in Ids /\ (creating[q] # "idle" => asked[q].note \in Notes)
  <2>1. creating[q] # "idle" => asked[q] \in CV!Asks
    BY DEF IInv, CV!IInv, CV!RequestInv
  <2> QED BY <2>1, CV!AskFields, TableAssumption, ServiceAssumption
<1>2. CASE rows' = rows
  BY <1>2 DEF Review!life
<1>3. CASE rows' # rows
  <2> DEFINE l == [stage |-> "PENDING", approvedBy |-> Nobody, note |-> asked[q].note]
  <2>1. /\ ~Exists(q) /\ asked[q].note \in Notes /\ rows'[q] = PendingRow(asked[q].note)
        /\ \A id \in Ids \ {q} : rows'[id] = rows[id]
    BY <1>1, <1>3 DEF MakeStep
  <2>2. Review!life[q].stage = "absent"
    BY <1>1, <2>1 DEF Review!life, Review!Stage, Exists
  <2>3. /\ Review!life'[q] = l
        /\ \A id \in Ids \ {q} : Review!life'[id] = Review!life[id]
    BY <1>1, <2>1 DEF Review!life, Review!Stage, PendingRow
  <2>4. Review!life' = [Review!life EXCEPT ![q] = l]
    BY <2>3 DEF Review!life
  <2>5. Review!Lifecycle!Create(q)
    BY <2>1, <2>2, <2>4 DEF Review!Lifecycle!Create, Review!Lifecycle!Become
  <2> QED BY <1>1, <2>5 DEF Review!Lifecycle!Next
<1> QED BY <1>2, <1>3

LEMMA InitImplements == Init => Review!Lifecycle!Init /\ Creation!Ledger!Init
<1>1. SUFFICES ASSUME Init PROVE Review!Lifecycle!Init /\ Creation!Ledger!Init
  OBVIOUS
<1>2. RV!Lifecycle!Init /\ CV!Ledger!Init
  BY <1>1, InitInViews, RV!InitImplementsInit, CV!InitImplementsInit, TableAssumption,
     ServiceAssumption
<1>3. Review!Lifecycle!Init
  BY <1>2 DEF RV!Lifecycle!Init, Review!Lifecycle!Init, RV!Lifecycle!Undecided,
              Review!Lifecycle!Undecided,
     RV!Lifecycle!Life, Review!Lifecycle!Life, RV!Lifecycle!Stages, Review!Lifecycle!Stages,
     RV!life, Review!life, RV!Stage, Review!Stage
<1>4. Creation!Ledger!Init
  BY <1>2, SameLedger DEF CV!Ledger!Init, Creation!Ledger!Init, CV!Ledger!Unmade,
                          Creation!Ledger!Unmade
<1> QED BY <1>3, <1>4

LEMMA NextImplements ==
  ASSUME IInv, [Next]_vars
  PROVE  /\ [Review!Lifecycle!Next]_(Review!life)
         /\ [Creation!Ledger!Next]_(Creation!Ledger!ledger)
<1>1. CV!IInv /\ RV!IInv
  BY DEF IInv
<1>2. [CV!Ledger!Next]_(CV!Ledger!ledger)
  BY <1>1, NextIsCreations, CV!NextImplementsNext, TableAssumption, ServiceAssumption
<1>3. [RV!Next]_(RV!vars) => [RV!Lifecycle!Next]_(RV!life)
  BY <1>1, RV!NextImplementsNext, TableAssumption, ServiceAssumption
<1> QED BY <1>2, <1>3, LedgerStep, LifeStep, InsertCreates, NextIsReviews

\* Beside each other the two sides implement what each promises alone:
\* DisbursementLifecycle for the rows and IdempotencyLedger for the keys.
THEOREM KeepsPromises == Spec => Promises
<1>1. IInv /\ [Next]_vars => /\ [Review!Lifecycle!Next]_(Review!life)
                             /\ [Creation!Ledger!Next]_(Creation!Ledger!ledger)
  BY NextImplements
<1>2. Init => Review!Lifecycle!Init /\ Creation!Ledger!Init
  BY InitImplements
<1>3. Spec => Review!Lifecycle!Spec
  BY <1>1, <1>2, Invariance, PTL DEF Spec, Review!Lifecycle!Spec
<1>4. Spec => Creation!Ledger!Spec
  BY <1>1, <1>2, Invariance, PTL DEF Spec, Creation!Ledger!Spec
<1> QED BY <1>3, <1>4, PTL DEF Promises, Review!LifecycleSpec, Creation!LedgerSpec
=============================================================================
