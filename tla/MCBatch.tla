------------------------------ MODULE MCBatch ------------------------------
(* Instances of BatchCreate for TLC. *)
EXTENDS BatchCreate, TLC

Sym == Permutations(Requests)

\* Every mixture of forms up to one item more than the limit, with one note.
MCItems == [form: Forms, note: {"n"}]
MCBatches == UNION {[1 .. n -> MCItems] : n \in 0 .. MaxItems} \cup
             {[j \in 1 .. (MaxItems + 1) |-> [form |-> "good", note |-> ""]]}

MCIds == Requests \X (1 .. MaxItems)
=============================================================================
