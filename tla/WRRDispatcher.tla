---------------------------- MODULE WRRDispatcher ----------------------------
(***************************************************************************)
(* gateway/dispatcher/dispatcher_wrr.py: weighted round-robin.  The tenant *)
(* with the lowest served / weight ratio among those with a request queued *)
(* is next; ties go to the tenant declared first.                          *)
(*                                                                         *)
(* served / weight is a float in the code; the model compares the exact    *)
(* rationals by cross-multiplication, which IEEE division preserves for    *)
(* the counts a gateway reaches (two different ratios of integers below    *)
(* 2^26 never round to the same double).                                   *)
(***************************************************************************)
EXTENDS Integers, Sequences, Functions

CONSTANTS
  Requests, Tenants, TenantOf,
  Declared,        \* list(tenant_weights): the configured tenants, in order
  DeclaredWeight   \* their weights, as parse_weight_map lets them through

ASSUME WRRAssumption ==
  /\ TenantOf \in [Requests -> Tenants]
  /\ Declared \in Seq(Tenants)
  /\ \A i, j \in 1..Len(Declared) : Declared[i] = Declared[j] => i = j
  /\ DeclaredWeight \in [Range(Declared) -> Nat \ {0}]

VARIABLES
  order,      \* self._order
  queues,     \* self.queues (a tenant not in order has none yet: <<>>)
  served,     \* self.served (0 for a tenant not in order)
  selected    \* history: what select_next has returned, in order

vars == <<order, queues, served, selected>>

\* self.tenant_weights.get(tenant, 1): a tenant nobody configured weighs 1.
Weight(t) == IF t \in Range(Declared) THEN DeclaredWeight[t] ELSE 1

Known(t) == \E i \in 1..Len(order) : order[i] = t

TypeOK ==
  /\ order \in Seq(Tenants)
  /\ queues \in [Tenants -> Seq(Requests)]
  /\ served \in [Tenants -> Nat]
  /\ selected \in Seq(Requests)

Init ==
  /\ order = Declared
  /\ queues = [t \in Tenants |-> <<>>]
  /\ served = [t \in Tenants |-> 0]
  /\ selected = <<>>

EnsureTenant(t) == order' = IF Known(t) THEN order ELSE Append(order, t)

\* A newcomer's queue created but never entered into the visiting order.
EnqueueWithoutOrder(r) ==
  /\ UNCHANGED order
  /\ queues' = [queues EXCEPT ![TenantOf[r]] = Append(@, r)]
  /\ UNCHANGED <<served, selected>>

Enqueue(r) ==
  /\ EnsureTenant(TenantOf[r])
  /\ queues' = [queues EXCEPT ![TenantOf[r]] = Append(@, r)]
  /\ UNCHANGED <<served, selected>>

\* The ratio of t is at most (below) that of u.
RatioAtMost(t, u) == served[t] * Weight(u) <= served[u] * Weight(t)
RatioBelow(t, u)  == served[t] * Weight(u) <  served[u] * Weight(t)

\* Weights forgotten: the tenant served least often, whatever its weight.
IsBestUnweighted(i) ==
  /\ queues[order[i]] # <<>>
  /\ \A j \in 1..Len(order) : queues[order[j]] # <<>> =>
       \/ served[order[i]] < served[order[j]]
       \/ served[order[i]] = served[order[j]] /\ i <= j

\* The scan's winner: least ratio, the earliest of equals (ratio < best_ratio).
IsBest(i) ==
  /\ queues[order[i]] # <<>>
  /\ \A j \in 1..Len(order) : queues[order[j]] # <<>> =>
       \/ RatioBelow(order[i], order[j])
       \/ RatioAtMost(order[i], order[j]) /\ i <= j

\* A pop() where popleft() is meant.
ServeNewest(t) ==
  /\ served' = [served EXCEPT ![t] = @ + 1]
  /\ queues' = [queues EXCEPT ![t] = SubSeq(@, 1, Len(@) - 1)]
  /\ selected' = Append(selected, queues[t][Len(queues[t])])
  /\ UNCHANGED order

\* The counter run down instead of up.
ServeRefund(t) ==
  /\ served' = [served EXCEPT ![t] = @ - 1]
  /\ queues' = [queues EXCEPT ![t] = Tail(@)]
  /\ selected' = Append(selected, Head(queues[t]))
  /\ UNCHANGED order

Serve(t) ==
  /\ served' = [served EXCEPT ![t] = @ + 1]
  /\ queues' = [queues EXCEPT ![t] = Tail(@)]
  /\ selected' = Append(selected, Head(queues[t]))
  /\ UNCHANGED order

\* best is None: select_next() raises RuntimeError.
NoBest == \A i \in 1..Len(order) : queues[order[i]] = <<>>

SelectNext == \E i \in 1..Len(order) : IsBest(i) /\ Serve(order[i])

Policy == INSTANCE AdmissionPolicy WITH pending <- queues

Next ==
  \/ \E r \in Requests : Policy!Fresh(r) /\ Enqueue(r)
  \/ SelectNext

Spec == Init /\ [][Next]_vars
-----------------------------------------------------------------------------
(* select_next raises only when nothing is queued: whenever a request      *)
(* waits, of a configured tenant or of one first seen at enqueue, the scan *)
(* over _order finds a winner, and one only.                               *)
ScanFindsOne ==
  Policy!Backlogged # {} =>
    \E i \in 1..Len(order) : IsBest(i) /\ \A j \in 1..Len(order) : IsBest(j) => j = i
=============================================================================
