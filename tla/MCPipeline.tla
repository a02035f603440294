---------------------------- MODULE MCPipeline ------------------------------
(* Instances of RequestPipeline for TLC. *)
EXTENDS RequestPipeline, TLC

CONSTANTS ann, ada, sue, sam

Perms == Permutations(Requests)

\* Users of one role can be exchanged as well.
PermsOfBoth == Perms \cup Permutations(Users)

MCRoleOf == [u \in Users |-> CASE u = ann -> "operator"
                               [] u = ada -> "admin"
                               [] OTHER -> "superadmin"]

\* Every kind of outcome, spread over the routes.
MCAllOutcomes ==
  [route \in Routes |->
     CASE route = "create" -> {[kind |-> "ok", code |-> 201], [kind |-> "http", code |-> 503],
                               [kind |-> "panic", code |-> 500]}
       [] route = "list" -> {[kind |-> "other", code |-> 500]}
       [] route = "public" -> {[kind |-> "http", code |-> 401], [kind |-> "fiber", code |-> 404]}
       [] OTHER -> {[kind |-> "ok", code |-> 200]}]

\* Logins and logouts, decisions and deletions are logged, and audit entries that
\* cannot be written (those of creations stand for all); or nothing is.
MCNotes == [route \in Routes |-> CASE route \in {"public", "decide", "remove"} -> {"info"}
                                   [] route \in Posts -> {"error"}
                                   [] OTHER -> {}]
MCNoNotes == [route \in Routes |-> {}]

\* Handlers that do not come back in the time of the run.
MCStalled == [route \in Routes |-> {}]
=============================================================================
