--------------------------- MODULE AdmissionControl ---------------------------
(***************************************************************************)
(* What AsyncDispatcher promises, without threads, locks, queues or        *)
(* futures: a request is served once, at most MaxConcurrency are admitted  *)
(* at a time, a caller that times out abandons the answer but not the      *)
(* request, and nothing is dropped before the dispatcher is closed.  A     *)
(* dropped request keeps its place: its slot is never given back.          *)
(***************************************************************************)
EXTENDS Naturals, FiniteSets

CONSTANTS Requests, MaxConcurrency

VARIABLES
  status,    \* how far the dispatcher is with each request
  open       \* close() has not been called

Statuses == {"new", "queued", "admitted", "served", "answered", "dropped"}

Init == status = [r \in Requests |-> "new"] /\ open = TRUE

Holding == {r \in Requests : status[r] \in {"admitted", "dropped"}}

Move(r, from, to) == status[r] = from /\ status' = [status EXCEPT ![r] = to]

Accept(r) == Move(r, "new", "queued") /\ UNCHANGED open

Admit(r) ==
  /\ Cardinality(Holding) < MaxConcurrency
  /\ Move(r, "queued", "admitted")
  /\ UNCHANGED open

Serve(r) == Move(r, "admitted", "served") /\ UNCHANGED open

Answer(r) == Move(r, "served", "answered") /\ UNCHANGED open

Close == open' = FALSE /\ UNCHANGED status

\* One refused request, or all those an executor had not started.
Drop(S) ==
  /\ ~ open
  /\ \A r \in S : status[r] = "admitted"
  /\ status' = [r \in Requests |-> IF r \in S THEN "dropped" ELSE status[r]]
  /\ UNCHANGED open

Next ==
  \/ \E r \in Requests : Accept(r) \/ Admit(r) \/ Serve(r) \/ Answer(r)
  \/ Close
  \/ \E S \in SUBSET Requests : Drop(S)

vars == <<status, open>>

Spec == Init /\ [][Next]_vars
=============================================================================
