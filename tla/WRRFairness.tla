----------------------------- MODULE WRRFairness -----------------------------
(***************************************************************************)
(* How fair the schedule of WRRDispatcher is: the same steps, with two     *)
(* history variables that the fairness properties speak of.                *)
(***************************************************************************)
EXTENDS WRRDispatcher

VARIABLES
  since,    \* since[t][u]: requests of u selected while t's head has waited
  steady    \* the tenants that had a request queued at every selection so far

fairVars == <<vars, since, steady>>

FairTypeOK ==
  /\ TypeOK
  /\ since \in [Tenants -> [Tenants -> Nat]]
  /\ steady \subseteq Tenants

NoneSince == [u \in Tenants |-> 0]

FairInit ==
  /\ Init
  /\ since = [t \in Tenants |-> NoneSince]
  /\ steady = Tenants

\* t was selected: its next head starts to wait, and every other head of a
\* queue has waited for one more request of t.
Observe(t) ==
  /\ since' = [u \in Tenants |->
                 IF u = t \/ queues[u] = <<>> THEN NoneSince
                 ELSE [since[u] EXCEPT ![t] = @ + 1]]
  /\ steady' = steady \cap Policy!Backlogged

FairEnqueue(r) == Policy!Fresh(r) /\ Enqueue(r) /\ UNCHANGED <<since, steady>>

FairSelect(i) == IsBest(i) /\ Serve(order[i]) /\ Observe(order[i])

FairNext ==
  \/ \E r \in Requests : FairEnqueue(r)
  \/ \E i \in 1..Len(order) : FairSelect(i)

FairSpec == FairInit /\ [][FairNext]_fairVars
-----------------------------------------------------------------------------
(* "the tenant with the lowest served / weight ratio is picked"            *)
(* (dispatcher_wrr.py:11): while a request of t waits at the head of its   *)
(* queue, u is served only until its ratio has passed t's.  No tenant can  *)
(* starve another, however long the other's lifetime counter says it       *)
(* owes.                                                                   *)
CatchUpBound ==
  \A t, u \in Tenants :
    since[t][u] > 0 => (served[u] - 1) * Weight(t) <= served[t] * Weight(u)

(* The weighted share: a tenant that always had a request queued is never  *)
(* behind any other tenant by more than that tenant's last request.        *)
SteadyShare ==
  \A t \in steady, u \in Tenants :
    served[u] > 0 => (served[u] - 1) * Weight(t) <= served[t] * Weight(u)
=============================================================================
