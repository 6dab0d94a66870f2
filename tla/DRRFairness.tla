----------------------------- MODULE DRRFairness -----------------------------
(***************************************************************************)
(* How fair DRRDispatcher is, in turns and in tokens: the same steps, with *)
(* history variables for what each tenant was given and what its head      *)
(* waited for.                                                             *)
(***************************************************************************)
EXTENDS DRRDispatcher

VARIABLES
  turns,     \* visits that found a request of the tenant and credited it
  spent,     \* the cost of the tenant's requests that were served
  passed,    \* visits that passed over the tenant's present head
  since,     \* since[t][u]: requests of u served while t's head has waited
  steady     \* the configured tenants never found idle by a visit

fairVars == <<vars, turns, spent, passed, since, steady>>

NoneSince == [u \in Tenants |-> 0]

FairTypeOK ==
  /\ TypeOK
  /\ turns \in [Tenants -> Nat]
  /\ spent \in [Tenants -> Nat]
  /\ passed \in [Tenants -> Nat]
  /\ since \in [Tenants -> [Tenants -> Nat]]
  /\ steady \subseteq Range(Declared)

FairInit ==
  /\ Init
  /\ turns = [t \in Tenants |-> 0]
  /\ spent = [t \in Tenants |-> 0]
  /\ passed = [t \in Tenants |-> 0]
  /\ since = [t \in Tenants |-> NoneSince]
  /\ steady = Range(Declared)

Unobserved == UNCHANGED <<turns, spent, passed, since, steady>>

FairEnqueue(r) == Policy!Fresh(r) /\ Enqueue(r) /\ Unobserved

FairBegin == BeginSelect /\ Unobserved

FairEmpty ==
  /\ VisitEmpty
  /\ steady' = steady \ {Visited}
  /\ UNCHANGED <<turns, spent, passed, since>>

FairSkip ==
  /\ VisitSkip
  /\ turns' = [turns EXCEPT ![Visited] = @ + 1]
  /\ passed' = [passed EXCEPT ![Visited] = @ + 1]
  /\ UNCHANGED <<spent, since, steady>>

FairServe ==
  LET t == Visited
  IN  /\ VisitServe
      /\ turns' = [turns EXCEPT ![t] = @ + 1]
      /\ spent' = [spent EXCEPT ![t] = @ + Cost(Head(queue[t]))]
      /\ passed' = [passed EXCEPT ![t] = 0]
      /\ since' = [u \in Tenants |->
                     IF u = t \/ queue[u] = <<>> THEN NoneSince
                     ELSE [since[u] EXCEPT ![t] = @ + 1]]
      /\ UNCHANGED steady

\* The loop runs on; nothing obliges anyone to enqueue or to select.
FairVisit == FairEmpty \/ FairSkip \/ FairServe

FairNext ==
  \/ \E r \in Requests : FairEnqueue(r)
  \/ FairBegin
  \/ FairVisit

FairSpec == FairInit /\ [][FairNext]_fairVars /\ WF_fairVars(FairVisit)
-----------------------------------------------------------------------------
(* Tokens are neither made nor lost: what a tenant was credited is what    *)
(* its requests cost and what it carries forward.                          *)
TokenBudget == \A t \in Tenants : spent[t] + deficit[t] = turns[t] * Quantum(t)

(* The token share: against a configured tenant t that always had a        *)
(* request queued, any u gets at most one turn more, and spends at most    *)
(* the quanta of those turns.                                              *)
TokenShare ==
  \A t \in steady, u \in Tenants :
    turns[u] <= turns[t] + 1 /\ spent[u] <= (turns[t] + 1) * Quantum(u)

(* "bounds the head-of-line delay a large request can impose on smaller    *)
(* ones" (dispatcher_drr.py:24), and the reverse: while the head of t      *)
(* waits, each other tenant is served at most once per quantum the head's  *)
(* cost takes to cover, so nobody starves.                                 *)
HeadWaitBound ==
  \A t, u \in Tenants :
    queue[t] # <<>> =>
      since[t][u] * Quantum(t) < Cost(Head(queue[t])) + Quantum(t)
=============================================================================
