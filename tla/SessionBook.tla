---------------------------- MODULE SessionBook ------------------------------
(***************************************************************************)
(* What login, refresh and logout promise about a session, without         *)
(* statements, faults or crashes: it is opened once, closed at most once,  *)
(* and a request is granted an access token only if, after it came in, it  *)
(* found the session open and not yet expired.  It need not be open any    *)
(* more when the token is made.                                            *)
(***************************************************************************)
EXTENDS Naturals

CONSTANTS Requests, RefreshTTL, Never

VARIABLES
  until,    \* until[s]: when session s expires, or Never before it is opened
  closed,   \* closed[s]: when session s was closed, or Never
  seen,     \* the pairs <<q, s>> where q found s open and not expired
  granted,  \* those of them that got an access token
  clock

book == <<until, closed, seen, granted, clock>>

Init ==
  /\ until = [s \in Requests |-> Never]
  /\ closed = [s \in Requests |-> Never]
  /\ seen = {}
  /\ granted = {}
  /\ clock = 0

IsOpen(s) == until[s] # Never /\ closed[s] = Never

Open(s) ==
  /\ until[s] = Never
  /\ \E t \in 0 .. clock : until' = [until EXCEPT ![s] = t + RefreshTTL]
  /\ UNCHANGED <<closed, seen, granted, clock>>

Close(s) ==
  /\ IsOpen(s)
  /\ \E t \in 0 .. clock : closed' = [closed EXCEPT ![s] = t]
  /\ UNCHANGED <<until, seen, granted, clock>>

See(q, s) ==
  /\ IsOpen(s)
  /\ clock <= until[s]
  /\ seen' = seen \cup {<<q, s>>}
  /\ UNCHANGED <<until, closed, granted, clock>>

Grant(q, s) ==
  /\ <<q, s>> \in seen
  /\ granted' = granted \cup {<<q, s>>}
  /\ UNCHANGED <<until, closed, seen, clock>>

Tick == clock' = clock + 1 /\ UNCHANGED <<until, closed, seen, granted>>

Next ==
  \/ \E s \in Requests : Open(s) \/ Close(s)
  \/ \E q, s \in Requests : See(q, s) \/ Grant(q, s)
  \/ Tick

Spec == Init /\ [][Next]_book
=============================================================================
