---------------------------- MODULE DRRDispatcher ----------------------------
(***************************************************************************)
(* gateway/dispatcher/dispatcher_drr.py: deficit round-robin over token    *)
(* costs.  select_next() loops over the tenants until one head is paid     *)
(* for; each turn of the loop is a step here, so that the loop's own       *)
(* termination can be checked.  The caller holds the condition's lock for  *)
(* the whole loop: nothing is enqueued while it scans.                     *)
(***************************************************************************)
EXTENDS Integers, Sequences, Functions

CONSTANTS
  Requests, Tenants, TenantOf,
  PromptTokens,      \* request.prompt_tokens
  NoCount,           \* None: the request was never tokenized
  Declared,          \* list(tenant_quanta): the configured tenants, in order
  DeclaredQuantum,   \* their quanta, as parse_weight_map lets them through
  DefaultQuantum     \* the quantum of a tenant nobody configured (16)

ASSUME DRRAssumption ==
  /\ TenantOf \in [Requests -> Tenants]
  /\ PromptTokens \in [Requests -> Nat \cup {NoCount}]
  /\ NoCount \notin Nat
  /\ Declared \in Seq(Tenants) \ {<<>>}
  /\ \A i, j \in 1..Len(Declared) : Declared[i] = Declared[j] => i = j
  /\ DeclaredQuantum \in [Range(Declared) -> Nat \ {0}]
  /\ DefaultQuantum \in Nat \ {0}

VARIABLES
  rrOrder,    \* self._rr_order
  rrIndex,    \* self._rr_index
  queue,      \* state.queue of each tenant
  deficit,    \* state.deficit of each tenant
  scanning,   \* select_next() is in its loop
  selected    \* history: what select_next has returned, in order

vars == <<rrOrder, rrIndex, queue, deficit, scanning, selected>>

Quantum(t) == IF t \in Range(Declared) THEN DeclaredQuantum[t] ELSE DefaultQuantum

\* _request_cost: at least one token, also for an empty or uncounted prompt.
Cost(r) == IF PromptTokens[r] \in Nat \ {0} THEN PromptTokens[r] ELSE 1

Known(t) == \E i \in 1..Len(rrOrder) : rrOrder[i] = t

Visited == rrOrder[rrIndex + 1]

TypeOK ==
  /\ rrOrder \in Seq(Tenants) \ {<<>>}
  /\ rrIndex \in 0..(Len(rrOrder) - 1)
  /\ queue \in [Tenants -> Seq(Requests)]
  /\ deficit \in [Tenants -> Nat]
  /\ scanning \in BOOLEAN
  /\ selected \in Seq(Requests)

Init ==
  /\ rrOrder = Declared
  /\ rrIndex = 0
  /\ queue = [t \in Tenants |-> <<>>]
  /\ deficit = [t \in Tenants |-> 0]
  /\ scanning = FALSE
  /\ selected = <<>>

EnsureTenant(t) == rrOrder' = IF Known(t) THEN rrOrder ELSE Append(rrOrder, t)

\* A newcomer's queue created but never entered into the order.
EnqueueUnordered(r) ==
  /\ ~ scanning
  /\ UNCHANGED rrOrder
  /\ queue' = [queue EXCEPT ![TenantOf[r]] = Append(@, r)]
  /\ UNCHANGED <<rrIndex, deficit, scanning, selected>>

Enqueue(r) ==
  /\ ~ scanning
  /\ EnsureTenant(TenantOf[r])
  /\ queue' = [queue EXCEPT ![TenantOf[r]] = Append(@, r)]
  /\ UNCHANGED <<rrIndex, deficit, scanning, selected>>

\* The index left where it is: the same tenant would be visited again.
StayOnTenant == UNCHANGED <<rrOrder, rrIndex>>

Advance == rrIndex' = (rrIndex + 1) % Len(rrOrder) /\ UNCHANGED rrOrder

Policy == INSTANCE AdmissionPolicy WITH pending <- queue

\* select_next() found a tenant with a request; otherwise it raises.
BeginSelect ==
  /\ ~ scanning
  /\ ~ Policy!NothingQueued
  /\ scanning' = TRUE
  /\ UNCHANGED <<rrOrder, rrIndex, queue, deficit, selected>>

VisitEmpty ==
  /\ scanning
  /\ queue[Visited] = <<>>
  /\ Advance
  /\ UNCHANGED <<queue, deficit, scanning, selected>>

Credit(t) == deficit[t] + Quantum(t)

VisitSkip ==
  LET t == Visited
  IN  /\ scanning /\ queue[t] # <<>>
      /\ Credit(t) < Cost(Head(queue[t]))
      /\ deficit' = [deficit EXCEPT ![t] = Credit(t)]
      /\ Advance
      /\ UNCHANGED <<queue, scanning, selected>>

\* The request served without its cost being deducted.
ServeUnpaid ==
  LET t == Visited
  IN  /\ scanning /\ queue[t] # <<>>
      /\ Credit(t) >= Cost(Head(queue[t]))
      /\ deficit' = [deficit EXCEPT ![t] = Credit(t)]
      /\ queue' = [queue EXCEPT ![t] = Tail(@)]
      /\ selected' = Append(selected, Head(queue[t]))
      /\ scanning' = FALSE
      /\ Advance

\* The cost paid before the quantum is credited.
ServeOnCredit ==
  LET t == Visited
  IN  /\ scanning /\ queue[t] # <<>>
      /\ Credit(t) >= Cost(Head(queue[t]))
      /\ deficit' = [deficit EXCEPT ![t] = @ - Cost(Head(queue[t]))]
      /\ queue' = [queue EXCEPT ![t] = Tail(@)]
      /\ selected' = Append(selected, Head(queue[t]))
      /\ scanning' = FALSE
      /\ Advance

\* Requests returned without being taken off their queue.
ServeWithoutPop ==
  LET t == Visited
  IN  /\ scanning /\ queue[t] # <<>>
      /\ Credit(t) >= Cost(Head(queue[t]))
      /\ deficit' = [deficit EXCEPT ![t] = Credit(t) - Cost(Head(queue[t]))]
      /\ selected' = Append(selected, Head(queue[t]))
      /\ scanning' = FALSE
      /\ Advance
      /\ UNCHANGED queue

VisitServe ==
  LET t == Visited
  IN  /\ scanning /\ queue[t] # <<>>
      /\ Credit(t) >= Cost(Head(queue[t]))
      /\ deficit' = [deficit EXCEPT ![t] = Credit(t) - Cost(Head(queue[t]))]
      /\ queue' = [queue EXCEPT ![t] = Tail(@)]
      /\ selected' = Append(selected, Head(queue[t]))
      /\ scanning' = FALSE
      /\ Advance

Visit == VisitEmpty \/ VisitSkip \/ VisitServe

Next ==
  \/ \E r \in Requests : Policy!Fresh(r) /\ Enqueue(r)
  \/ BeginSelect
  \/ Visit

\* The loop runs on; nothing obliges anyone to enqueue or to select.
Spec == Init /\ [][Next]_vars /\ WF_vars(Visit)
-----------------------------------------------------------------------------
(* select_next() runs under the lock that dispatch() and every worker      *)
(* need: its loop ends, also when the head's cost is many quanta.          *)
SelectTerminates == scanning ~> ~ scanning

(* "its head request is served once the deficit covers that request's      *)
(* estimated token cost" (dispatcher_drr.py:22): the loop does not leave a *)
(* tenant whose remaining deficit covers the head of its queue for another *)
(* tenant's request.                                                       *)
ServedOnceCovered ==
  [][ Visit =>
        LET t == Visited
        IN  \/ queue'[t] = <<>>
            \/ deficit'[t] < Cost(Head(queue'[t]))
            \/ \A u \in Tenants \ {t} : queue'[u] = <<>> ]_vars
=============================================================================
