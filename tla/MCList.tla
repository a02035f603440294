------------------------------- MODULE MCList --------------------------------
(* Instances of ListQuery for TLC.  An int has 4 bits. *)
EXTENDS ListQuery

Perms == Permutations(Ids)

Plain == [page |-> 1, limit |-> 0, status |-> "", entity |-> "", action |-> "", from |-> NoDate, to |-> NoDate,
          sortBy |-> "", sortOrder |-> ""]

\* Every filter, with the default page.
MCFilters ==
  {[Plain EXCEPT !.status = s, !.from = f, !.to = t, !.sortOrder = "asc"] :
     s \in {"", "pending", "APPROVED", "open"}, f, t \in {NoDate, 0, 1}}

\* The filters of the audit log.
MCEntries ==
  {[Plain EXCEPT !.entity = e, !.action = a, !.to = t] :
     e \in {"", "d"}, a \in {"", "deleted", "gone"}, t \in {NoDate, 1}}

\* Pages and limits up to and over their bounds, by amount and by day.
MCPages ==
  {[Plain EXCEPT !.page = p, !.limit = n, !.sortBy = b, !.sortOrder = o] :
     p \in {-1, 1, 2, 3, 7}, n \in {-1, 0, 1, 2, 7}, b \in {"amount", "id"}, o \in {"asc", ""}}

MCQueries == MCFilters \cup MCEntries \cup MCPages
=============================================================================
