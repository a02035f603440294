------------------------ MODULE DisbursementLifecycle ------------------------
(***************************************************************************)
(* What the disbursement endpoints promise about one disbursement, without *)
(* requests, statements, faults or crashes: it is created PENDING, then at *)
(* most once decided by one reviewer or removed, and from then on nothing  *)
(* about it changes.  DisbursementReview is shown to implement this.       *)
(***************************************************************************)
CONSTANTS Ids, Users, Notes, Nobody

VARIABLE life   \* life[id]: what became of disbursement id

Stages == {"absent", "PENDING", "APPROVED", "REJECTED", "removed"}
Life == [stage: Stages, approvedBy: Users \cup {Nobody}, note: Notes]

Undecided == {l \in Life : l.stage \in {"absent", "PENDING"} /\ l.approvedBy = Nobody}

Init == life \in [Ids -> Undecided]

Become(id, l) == life' = [life EXCEPT ![id] = l]

Create(id) ==
  /\ life[id].stage = "absent"
  /\ \E note \in Notes :
       Become(id, [stage |-> "PENDING", approvedBy |-> Nobody, note |-> note])

Decide(id) ==
  /\ life[id].stage = "PENDING"
  /\ \E stage \in {"APPROVED", "REJECTED"}, user \in Users, note \in Notes :
       Become(id, [stage |-> stage, approvedBy |-> user, note |-> note])

Remove(id) ==
  /\ life[id].stage = "PENDING"
  /\ Become(id, [life[id] EXCEPT !.stage = "removed"])

Next == \E id \in Ids : Create(id) \/ Decide(id) \/ Remove(id)

Spec == Init /\ [][Next]_life
=============================================================================
