------------------------- MODULE DisbursementService -------------------------
(***************************************************************************)
(* The disbursement endpoints of one process together, as                  *)
(* internal/routes/module.go wires them: DisbursementCreate and            *)
(* DisbursementReview on one table disbursements, one table audit_logs and *)
(* one usecase.  A disbursement can be found, decided and deleted from the *)
(* COMMIT of its creation on, while the request that created it has yet to *)
(* write its audit entry and to answer; and a crash takes both sides down  *)
(* at once.  Batches are not part of it: seen from here, an item is a      *)
(* creation without a key.                                                 *)
(***************************************************************************)
EXTENDS DisbursementTable, Naturals

CONSTANTS
  Creates,   \* the requests POST /disbursements
  Reviews,   \* the requests PATCH, DELETE and GET /disbursements/:id
  Keys, NoKey, BadKey, LongKey, TTL, MaxClock,   \* see DisbursementCreate
  DBFaults, Crashes, NoInput

\* Beside what DisbursementCreate and DisbursementReview assume of theirs.
ASSUME ServiceAssumption ==
  /\ Requests = Creates \cup Reviews
  /\ Creates \cap Reviews = {}
  /\ Creates \subseteq Ids
  /\ Nobody \notin Creates
  /\ TTL \in Nat \ {0}
  /\ MaxClock \in Nat
  /\ DBFaults \in BOOLEAN /\ Crashes \in BOOLEAN
  /\ NoKey \notin Keys /\ BadKey \notin Keys /\ LongKey \notin Keys
  /\ NoKey # BadKey /\ NoKey # LongKey /\ BadKey # LongKey

VARIABLES
  idem, lock, sharing, clock, creating, asked, now, round, found, created,
  reviewing, wanted, current, updated, reviewed

creation == <<idem, lock, sharing, clock, creating, asked, now, round, found, created>>
review == <<reviewing, wanted, current, updated, reviewed>>
vars == <<tables, creation, review>>

Creation ==
  INSTANCE DisbursementCreate
    WITH Requests <- Creates, Serial <- FALSE, Prompt <- FALSE,
         pc <- creating, input <- asked, reply <- created

Review ==
  INSTANCE DisbursementReview
    WITH Requests <- Reviews, pc <- reviewing, input <- wanted, reply <- reviewed

-----------------------------------------------------------------------------
(* Actions.                                                                *)

Init == Creation!Init /\ Review!Init

Create(r) == (Creation!Receive(r) \/ Creation!Step(r)) /\ UNCHANGED review

Decide(r) == (Review!Receive(r) \/ Review!Step(r)) /\ UNCHANGED creation

\* One process serves both.
Crash ==
  \/ Creation!Crash /\ Review!Crash
  \/ Creation!Crash /\ UNCHANGED review /\ \A r \in Reviews : reviewing[r] \notin Review!Running
  \/ Review!Crash /\ UNCHANGED creation /\ \A r \in Creates : creating[r] \notin Creation!Running

Tick == Creation!Tick /\ UNCHANGED review

Next ==
  \/ \E r \in Creates : Create(r)
  \/ \E r \in Reviews : Decide(r)
  \/ Crash
  \/ Tick

Spec == Init /\ [][Next]_vars

\* As in the parts: who has a statement to issue issues it.
FairSpec ==
  /\ Spec
  /\ \A r \in Creates : WF_vars(Creation!Step(r) /\ UNCHANGED review)
  /\ \A r \in Reviews : WF_vars(Review!Step(r) /\ UNCHANGED creation)

-----------------------------------------------------------------------------
(* Properties.                                                             *)

\* Someone is working on the disbursement, or died while working on it.
Busy(id) ==
  \/ id \in Creates /\ creating[id] \in Creation!Running \cup {"orphan", "lost"}
  \/ \E r \in Reviews : /\ reviewing[r] \in Review!Running \cup {"lost"}
                        /\ wanted[r].id = id

Entries(id, actions) == {e \in audit : e.entity = id /\ e.action \in actions}

\* The audit entries of a disbursement tell its whole life, in whatever order
\* they were written: the creation ends in the version that the decision or
\* the deletion starts from, and that one ends in the version the table holds.
\* Unless someone is still at it, or died at it, none is missing.
TrailReplays ==
  \A id \in Ids :
    LET made == Entries(id, {"created"})
        closed == Entries(id, {"status_changed", "deleted"})
    IN /\ \A e \in made, f \in closed : f.before = e.after
       /\ \A f \in closed : f.after = rows[id]
       /\ ~Busy(id) /\ Exists(id) /\ ~DBFaults =>
            \E e \in made : rows[id] # e.after => closed # {}
       /\ ~Exists(id) => made \cup closed = {}

\* Every request that reached the database is answered or lost, whatever the
\* others do and whenever the process dies: waiting for a key ends.
EveryRequestEnds ==
  /\ \A r \in Creates :
       creating[r] \in Creation!Running \cup {"orphan"} ~> creating[r] \in Creation!Ended
  /\ \A r \in Reviews : reviewing[r] \in Review!Running ~> reviewing[r] \in Review!Ended

\* Beside each other, both sides keep what each promises alone: the one-way
\* life of a disbursement and the ledger of keys.
Promises == Review!LifecycleSpec /\ Creation!LedgerSpec
=============================================================================
