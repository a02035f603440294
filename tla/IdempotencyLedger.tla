-------------------------- MODULE IdempotencyLedger --------------------------
(***************************************************************************)
(* What POST /disbursements promises about Idempotency-Keys, without       *)
(* transactions, rounds, faults or crashes: a key is recorded together     *)
(* with the disbursement it created, a recorded key creates nothing, and a *)
(* record is forgotten only when some record of that key has expired.      *)
(*                                                                         *)
(* The last clause is as strong as the code makes it.  The stronger one,   *)
(* that a record is kept until it has expired itself, is what the          *)
(* documentation says; DisbursementCreate breaks it (see its ExactlyOnce). *)
(***************************************************************************)
EXTENDS Naturals

CONSTANTS Ids, Keys, NoKey, Nobody, TTL

VARIABLES
  made,     \* made[id]: the key and the time a disbursement was made with
  record,   \* record[k]: the disbursement key k stands for, or Nobody
  clock

ledger == <<made, record, clock>>

Unmade == [key |-> NoKey, at |-> 0, exists |-> FALSE]

Expired(id) == clock > made[id].at + TTL

Init ==
  /\ made = [id \in Ids |-> Unmade]
  /\ record = [k \in Keys |-> Nobody]
  /\ clock = 0

Make(id, key) ==
  /\ ~made[id].exists
  /\ \E at \in 0 .. clock :
       made' = [made EXCEPT ![id] = [key |-> key, at |-> at, exists |-> TRUE]]

\* Creation without a key.
Plain(id) ==
  /\ Make(id, NoKey)
  /\ UNCHANGED <<record, clock>>

\* Creation under a key: the disbursement and the record appear together.
Accept(id, k) ==
  /\ record[k] = Nobody
  /\ Make(id, k)
  /\ record' = [record EXCEPT ![k] = id]
  /\ UNCHANGED clock

Forget(k) ==
  /\ record[k] # Nobody
  /\ \E id \in Ids : made[id].exists /\ made[id].key = k /\ Expired(id)
  /\ record' = [record EXCEPT ![k] = Nobody]
  /\ UNCHANGED <<made, clock>>

Tick == clock' = clock + 1 /\ UNCHANGED <<made, record>>

Next ==
  \/ \E id \in Ids : Plain(id) \/ \E k \in Keys : Accept(id, k)
  \/ \E k \in Keys : Forget(k)
  \/ Tick

Spec == Init /\ [][Next]_ledger
=============================================================================
