--------------------------- MODULE AdmissionPolicy ---------------------------
(***************************************************************************)
(* What the three admission policies of gateway/dispatcher promise the     *)
(* AsyncDispatcher that wraps one of them: a request handed to enqueue()   *)
(* waits in its tenant's line, and select_next() takes the request at the  *)
(* front of some tenant's line, or raises when every line is empty.        *)
(* Which tenant is next is left open: that is where fifo, wrr and drr      *)
(* differ.  Every policy module is shown to implement this one.            *)
(***************************************************************************)
EXTENDS Naturals, Sequences, Functions

CONSTANTS
  Requests,   \* the InferenceRequests that may ever be dispatched
  Tenants,    \* the tenant names requests carry
  TenantOf    \* request.tenant, a function from Requests to Tenants

VARIABLES
  pending,    \* the requests waiting, one line per tenant
  selected    \* history: what select_next has returned, in order

policyVars == <<pending, selected>>

PolicyTypeOK ==
  /\ pending \in [Tenants -> Seq(Requests)]
  /\ selected \in Seq(Requests)

Init ==
  /\ pending = [t \in Tenants |-> <<>>]
  /\ selected = <<>>

Backlogged == {t \in Tenants : pending[t] # <<>>}

Queued(r) == r \in Range(pending[TenantOf[r]])

\* A request has one life: request_id is a fresh uuid4, so it arrives once.
Fresh(r) == ~ Queued(r) /\ r \notin Range(selected)

Enqueue(r) ==
  /\ pending' = [pending EXCEPT ![TenantOf[r]] = Append(@, r)]
  /\ UNCHANGED selected

Select(r) ==
  /\ TenantOf[r] \in Backlogged
  /\ r = Head(pending[TenantOf[r]])
  /\ pending' = [pending EXCEPT ![TenantOf[r]] = Tail(@)]
  /\ selected' = Append(selected, r)

\* select_next raises RuntimeError: the only case in which it returns nothing.
NothingQueued == Backlogged = {}

Next == \E r \in Requests : (Fresh(r) /\ Enqueue(r)) \/ Select(r)

Spec == Init /\ [][Next]_policyVars
=============================================================================
