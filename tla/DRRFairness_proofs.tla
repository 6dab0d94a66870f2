-------------------------- MODULE DRRFairness_proofs --------------------------
(***************************************************************************)
(* The fairness of DRRDispatcher for every set of tenants, every quanta    *)
(* and costs and every sequence of arrivals.  What a tenant may get ahead  *)
(* of another depends on which of the two the index reaches first: the     *)
(* inductive invariant says by how much for each pair of places in the     *)
(* visiting order.                                                         *)
(***************************************************************************)
EXTENDS DRRFairness, TLAPS

Places == 1..Len(rrOrder)

\* The index reaches place i before place j: what is behind it comes last.
Sooner(i, j) == IF (i <= rrIndex) <=> (j <= rrIndex) THEN i < j ELSE j <= rrIndex

\* The tenant at j comes next: the one at i may have had its visit already.
Lead(i, j) == IF Sooner(j, i) THEN 1 ELSE 0

NoRepeat == \A i, j \in Places : rrOrder[i] = rrOrder[j] => i = j

DeclaredKnown == \A t \in Range(Declared) : Known(t)

\* A tenant not in the order has neither waited nor been served.
Unseen ==
  \A t \in Tenants : ~ Known(t) =>
    queue[t] = <<>> /\ turns[t] = 0 /\ \A u \in Tenants : since[u][t] = 0

\* Without a head there is nothing to have waited.
Idle == \A t \in Tenants : queue[t] = <<>> => passed[t] = 0 /\ since[t] = NoneSince

TurnLead ==
  \A i, j \in Places :
    rrOrder[j] \in steady => turns[rrOrder[i]] <= turns[rrOrder[j]] + Lead(i, j)

WaitLead ==
  \A i, j \in Places :
    since[rrOrder[j]][rrOrder[i]] <= passed[rrOrder[j]] + Lead(i, j)

\* A head passed over has saved a quantum per visit, and cannot be paid yet.
Saving ==
  \A t \in Tenants :
    /\ passed[t] * Quantum(t) <= deficit[t]
    /\ passed[t] > 0 => deficit[t] < Cost(Head(queue[t]))

Order == NoRepeat /\ DeclaredKnown /\ Unseen /\ Idle

FairInv == FairTypeOK /\ Order /\ TokenBudget /\ TurnLead /\ WaitLead /\ Saving
-----------------------------------------------------------------------------
\* A quantum is positive, configured or not.
LEMMA QuantumPositive == ASSUME NEW t \in Tenants PROVE Quantum(t) \in Nat \ {0}
  BY DRRAssumption DEF Quantum

\* Every request costs a token at least.
LEMMA CostPositive == ASSUME NEW r \in Requests PROVE Cost(r) \in Nat \ {0}
  BY DRRAssumption DEF Cost

\* One more visit is one more quantum.
LEMMA OneMore == ASSUME NEW a \in Nat, NEW q \in Nat PROVE (a + 1) * q = a * q + q
  BY SMT

\* More visits are more tokens.
LEMMA MoreVisits ==
  ASSUME NEW a \in Nat, NEW b \in Nat, NEW q \in Nat, a <= b
  PROVE  a * q <= b * q
  BY SMT

\* What a visit counts is a number.
LEMMA ProductIsNat == ASSUME NEW a \in Nat, NEW q \in Nat PROVE a * q \in Nat
  BY SMT

\* Who is visited is a tenant, at the place the index says.
LEMMA VisitedPlace ==
  ASSUME TypeOK PROVE rrIndex + 1 \in Places /\ Visited \in Tenants
  BY DEF TypeOK, Places, Visited

\* The index goes to the next place, and from the last to the first.
LEMMA NextIndex ==
  ASSUME TypeOK, Advance
  PROVE  /\ rrOrder' = rrOrder
         /\ rrIndex' = IF rrIndex + 1 = Len(rrOrder) THEN 0 ELSE rrIndex + 1
         /\ rrIndex' \in 0..(Len(rrOrder) - 1)
  <1> DEFINE n == Len(rrOrder)
  <1>1. n \in Nat \ {0} /\ rrIndex \in 0..(n - 1)
    BY DEF TypeOK
  <1>2. rrIndex' = (rrIndex + 1) % n /\ rrOrder' = rrOrder
    BY DEF Advance
  <1> HIDE DEF n
  <1>3. CASE rrIndex + 1 = n
    <2>1. n % n = 0
      BY <1>1, SMT
    <2> QED BY <1>1, <1>2, <1>3, <2>1 DEF n
  <1>4. CASE rrIndex + 1 # n
    <2>1. (rrIndex + 1) % n = rrIndex + 1
      BY <1>1, <1>4, SMT
    <2> QED BY <1>1, <1>2, <1>4, <2>1 DEF n
  <1> QED BY <1>3, <1>4

\* After its visit a tenant comes last; the others keep their order.
LEMMA VisitedComesLast ==
  ASSUME TypeOK, Advance, NEW i \in Places, NEW j \in Places
  PROVE  /\ Places' = Places
         /\ i # rrIndex + 1 /\ j # rrIndex + 1 => (Lead(i, j))' = Lead(i, j)
         /\ i = rrIndex + 1 /\ j # rrIndex + 1 => Lead(i, j) = 0 /\ (Lead(i, j))' = 1
         /\ i # rrIndex + 1 /\ j = rrIndex + 1 => Lead(i, j) = 1 /\ (Lead(i, j))' = 0
         /\ i = j => Lead(i, j) = 0 /\ (Lead(i, j))' = 0
  <1>1. Len(rrOrder) \in Nat /\ rrIndex \in 0..(Len(rrOrder) - 1)
    BY DEF TypeOK
  <1>2. Places' = Places
    BY NextIndex DEF Places
  <1>3. i \in 1..Len(rrOrder) /\ j \in 1..Len(rrOrder)
    BY DEF Places
  <1>4. CASE rrIndex + 1 = Len(rrOrder)
    <2>1. rrIndex' = 0
      BY <1>4, NextIndex
    <2> QED BY <1>1, <1>2, <1>3, <1>4, <2>1 DEF Lead, Sooner
  <1>5. CASE rrIndex + 1 # Len(rrOrder)
    <2>1. rrIndex' = rrIndex + 1
      BY <1>5, NextIndex
    <2> QED BY <1>1, <1>2, <1>3, <1>5, <2>1 DEF Lead, Sooner
  <1> QED BY <1>4, <1>5

\* A lead is nothing or one.
LEMMA LeadIsSmall ==
  ASSUME NEW i \in Places, NEW j \in Places PROVE Lead(i, j) \in {0, 1}
  BY DEF Lead

\* The invariant holds initially.
LEMMA FairInvInit == FairInit => FairInv
  <1> SUFFICES ASSUME FairInit PROVE FairInv
    OBVIOUS
  <1> USE DEF FairInit, Init
  <1>1. FairTypeOK
    <2>1. Declared \in Seq(Tenants) /\ Len(Declared) \in Nat \ {0}
      BY DRRAssumption
    <2>2. rrOrder \in Seq(Tenants) \ {<<>>} /\ rrIndex \in 0..(Len(rrOrder) - 1)
      BY <2>1, DRRAssumption
    <2>4. queue \in [Tenants -> Seq(Requests)] /\ selected \in Seq(Requests)
      OBVIOUS
    <2>5. TypeOK
      BY <2>2, <2>4 DEF TypeOK
    <2>3. since \in [Tenants -> [Tenants -> Nat]]
      BY DEF NoneSince
    <2> QED BY <2>5, <2>3 DEF FairTypeOK
  <1>2. NoRepeat
    BY DRRAssumption DEF NoRepeat, Places
  <1>3. DeclaredKnown
    <2> SUFFICES ASSUME NEW t \in Range(Declared) PROVE Known(t)
      BY DEF DeclaredKnown
    <2>1. PICK i \in DOMAIN Declared : Declared[i] = t
      BY DEF Range
    <2>2. DOMAIN Declared = 1..Len(Declared)
      BY DRRAssumption
    <2> QED BY <2>1, <2>2 DEF Known
  <1>4. Unseen /\ Idle
    BY DEF Unseen, Idle, NoneSince
  <1>5. \A t \in Tenants : Quantum(t) \in Nat /\ 0 * Quantum(t) = 0
    BY QuantumPositive
  <1>6. TokenBudget
    BY <1>5 DEF TokenBudget
  <1>7. \A i \in Places : rrOrder[i] \in Tenants
    BY DRRAssumption DEF Places
  <1>8. TurnLead /\ WaitLead
    BY <1>7, LeadIsSmall DEF TurnLead, WaitLead, NoneSince
  <1>9. Saving
    BY <1>5 DEF Saving
  <1> QED BY <1>1, <1>2, <1>3, <1>4, <1>6, <1>8, <1>9 DEF FairInv, Order
-----------------------------------------------------------------------------
\* An arrival puts its tenant last in the order, if it is not there yet.
LEMMA EnqueuePlaces ==
  ASSUME FairInv, NEW r \in Requests, FairEnqueue(r)
  PROVE  /\ rrOrder' \in Seq(Tenants) \ {<<>>}
         /\ rrIndex' = rrIndex /\ rrIndex \in 0..(Len(rrOrder') - 1)
         /\ \A i \in Places : i \in Places' /\ rrOrder'[i] = rrOrder[i]
         /\ \A i \in Places' : i \notin Places =>
              /\ i = Len(rrOrder') /\ rrOrder'[i] = TenantOf[r]
              /\ ~ Known(TenantOf[r])
         /\ (Known(TenantOf[r]))'
  <1> DEFINE t0 == TenantOf[r]
  <1>1. t0 \in Tenants
    BY DRRAssumption
  <1>2. rrOrder' = IF Known(t0) THEN rrOrder ELSE Append(rrOrder, t0)
    BY DEF FairEnqueue, Enqueue, EnsureTenant
  <1>3. /\ rrOrder \in Seq(Tenants) \ {<<>>} /\ rrIndex' = rrIndex
        /\ rrIndex \in 0..(Len(rrOrder) - 1)
    BY DEF FairEnqueue, Enqueue, FairInv, FairTypeOK, TypeOK
  <1>4. CASE Known(t0)
    BY <1>2, <1>3, <1>4 DEF Places, Known
  <1>5. CASE ~ Known(t0)
    <2>1. rrOrder' = Append(rrOrder, t0)
      BY <1>2, <1>5
    <2>2. /\ rrOrder' \in Seq(Tenants) /\ Len(rrOrder') = Len(rrOrder) + 1
          /\ rrOrder'[Len(rrOrder')] = t0
          /\ \A i \in 1..Len(rrOrder) : rrOrder'[i] = rrOrder[i]
      BY <1>1, <1>3, <2>1
    <2>3. Len(rrOrder) \in Nat \ {0}
      BY <1>3
    <2>4. Len(rrOrder') \in 1..Len(rrOrder')
      BY <2>2, <2>3
    <2>5. (Known(t0))'
      BY <2>2, <2>4 DEF Known
    <2>6. \A i \in Places' : i \notin Places => i = Len(rrOrder')
      BY <2>2, <2>3 DEF Places
    <2>7. \A i \in Places : i \in Places'
      BY <2>2, <2>3 DEF Places
    <2> QED BY <1>3, <1>5, <2>2, <2>3, <2>5, <2>6, <2>7 DEF Places
  <1> QED BY <1>4, <1>5

\* An arrival serves nobody, credits nobody and moves nobody's visit.
LEMMA EnqueueKeepsInv ==
  ASSUME FairInv, NEW r \in Requests, FairEnqueue(r) PROVE FairInv'
  <1> USE DEF FairInv, Order
  <1> DEFINE t0 == TenantOf[r]
  <1>1. t0 \in Tenants
    BY DRRAssumption
  <1>2. /\ queue' = [queue EXCEPT ![t0] = Append(@, r)]
        /\ UNCHANGED <<rrIndex, deficit, scanning, selected, turns, spent, passed, since, steady>>
    BY DEF FairEnqueue, Enqueue, Unobserved
  <1>3. FairTypeOK'
    <2>1. queue[t0] \in Seq(Requests)
      BY <1>1 DEF FairTypeOK, TypeOK
    <2>2. Append(queue[t0], r) \in Seq(Requests)
      BY <2>1
    <2>3. queue' \in [Tenants -> Seq(Requests)]
      BY <1>1, <1>2, <2>2 DEF FairTypeOK, TypeOK
    <2> QED BY <1>2, <2>3, EnqueuePlaces DEF FairTypeOK, TypeOK
  <1>4. \A t \in Tenants : Known(t) => (Known(t))'
    BY EnqueuePlaces DEF Known, Places
  <1>5. /\ \A t \in Tenants : queue'[t] = <<>> => t # t0 /\ queue[t] = <<>>
        /\ \A t \in Tenants : queue[t] # <<>> => Head(queue'[t]) = Head(queue[t])
        /\ \A t \in Tenants \ {t0} : queue'[t] = queue[t]
    <2>1. queue[t0] \in Seq(Requests)
      BY <1>1 DEF FairTypeOK, TypeOK
    <2>2. /\ queue'[t0] = Append(queue[t0], r)
          /\ \A t \in Tenants \ {t0} : queue'[t] = queue[t]
      BY <1>1, <1>2 DEF FairTypeOK, TypeOK
    <2>3. queue'[t0] # <<>>
      BY <2>1, <2>2
    <2>4. queue[t0] # <<>> => Head(queue'[t0]) = Head(queue[t0])
      BY <2>1, <2>2
    <2> QED BY <2>2, <2>3, <2>4
  <1>6. NoRepeat'
    <2> SUFFICES ASSUME NEW i \in Places', NEW j \in Places', rrOrder'[i] = rrOrder'[j]
                 PROVE  i = j
      BY DEF NoRepeat
    <2>1. CASE i \in Places /\ j \in Places
      BY <2>1, EnqueuePlaces DEF NoRepeat
    <2>2. CASE i \notin Places /\ j \notin Places
      BY <2>2, EnqueuePlaces
    <2>3. CASE i \in Places /\ j \notin Places
      BY <2>3, EnqueuePlaces DEF Known, Places
    <2>4. CASE i \notin Places /\ j \in Places
      BY <2>4, EnqueuePlaces DEF Known, Places
    <2> QED BY <2>1, <2>2, <2>3, <2>4
  <1>7. Range(Declared) \subseteq Tenants
    BY DRRAssumption DEF Range
  <1>8. DeclaredKnown'
    BY <1>4, <1>7 DEF DeclaredKnown
  <1>9. Unseen'
    BY <1>2, <1>4, <1>5, EnqueuePlaces DEF Unseen
  <1>10. Idle'
    BY <1>2, <1>5 DEF Idle, NoneSince
  <1>11. TokenBudget'
    BY <1>2 DEF TokenBudget, Quantum
  <1>12. \A i, j \in Places' : (Lead(i, j))' = Lead(i, j)
    BY <1>2 DEF Lead, Sooner
  <1>13. \A i \in Places' : i \notin Places => rrOrder'[i] = t0 /\ ~ Known(t0)
    BY EnqueuePlaces
  <1>14. \A i \in Places' : rrOrder'[i] \in Tenants
    BY EnqueuePlaces DEF Places
  <1>15. \A i, j \in Places' : Lead(i, j) \in {0, 1}
    BY DEF Lead
  <1>16. TurnLead'
    <2> SUFFICES ASSUME NEW i \in Places', NEW j \in Places', rrOrder'[j] \in steady
                 PROVE  turns[rrOrder'[i]] <= turns[rrOrder'[j]] + Lead(i, j)
      BY <1>2, <1>12 DEF TurnLead
    <2>1. j \in Places
      BY <1>13 DEF DeclaredKnown, FairTypeOK
    <2>2. CASE i \in Places
      BY <2>1, <2>2, EnqueuePlaces DEF TurnLead
    <2>3. CASE i \notin Places
      <3>1. turns[rrOrder'[i]] = 0
        BY <1>1, <1>13, <2>3 DEF Unseen
      <3>2. turns[rrOrder'[j]] \in Nat
        BY <1>14 DEF FairTypeOK
      <3> QED BY <1>15, <3>1, <3>2
    <2> QED BY <2>2, <2>3
  <1>17. WaitLead'
    <2> SUFFICES ASSUME NEW i \in Places', NEW j \in Places'
                 PROVE  since[rrOrder'[j]][rrOrder'[i]] <= passed[rrOrder'[j]] + Lead(i, j)
      BY <1>2, <1>12 DEF WaitLead
    <2>1. passed[rrOrder'[j]] \in Nat
      BY <1>14 DEF FairTypeOK
    <2>2. CASE i \in Places /\ j \in Places
      BY <2>2, EnqueuePlaces DEF WaitLead
    <2>3. CASE i \notin Places \/ j \notin Places
      <3>1. since[rrOrder'[j]][rrOrder'[i]] = 0
        BY <1>1, <1>13, <1>14, <2>3 DEF Unseen, Idle, NoneSince
      <3> QED BY <1>15, <2>1, <3>1
    <2> QED BY <2>2, <2>3
  <1>18. Saving'
    <2> SUFFICES ASSUME NEW t \in Tenants
                 PROVE  /\ passed[t] * Quantum(t) <= deficit[t]
                        /\ passed[t] > 0 => deficit[t] < Cost(Head(queue'[t]))
      BY <1>2 DEF Saving, Quantum, Cost
    <2>1. passed[t] > 0 => queue[t] # <<>>
      BY DEF Idle
    <2> QED BY <1>5, <2>1 DEF Saving
  <1> QED BY <1>3, <1>6, <1>8, <1>9, <1>10, <1>11, <1>16, <1>17, <1>18
-----------------------------------------------------------------------------
\* The order itself is not touched by a visit.
LEMMA VisitKeepsOrder ==
  ASSUME FairInv, Advance, steady' \subseteq steady
  PROVE  /\ rrOrder' \in Seq(Tenants) \ {<<>>}
         /\ rrIndex' \in 0..(Len(rrOrder') - 1)
         /\ steady' \subseteq Range(Declared)
         /\ NoRepeat' /\ DeclaredKnown'
         /\ \A t : (Known(t))' <=> Known(t)
         /\ Visited \in Tenants /\ Known(Visited)
         /\ \A i \in Places : rrOrder[i] \in Tenants /\ (rrOrder[i] = Visited <=> i = rrIndex + 1)
  <1> USE DEF FairInv, FairTypeOK
  <1>1. rrOrder' = rrOrder
    BY NextIndex
  <1>2. rrIndex + 1 \in Places /\ Visited \in Tenants /\ Visited = rrOrder[rrIndex + 1]
    BY VisitedPlace DEF Visited
  <1>3. \A i \in Places : rrOrder[i] \in Tenants
    BY DEF TypeOK, Places
  <1>4. NoRepeat' /\ DeclaredKnown' /\ \A t : (Known(t))' <=> Known(t)
    BY <1>1 DEF Order, NoRepeat, DeclaredKnown, Known, Places
  <1>5. Known(Visited)
    BY <1>2 DEF Known, Places
  <1>6. \A i \in Places : rrOrder[i] = Visited <=> i = rrIndex + 1
    BY <1>2 DEF Order, NoRepeat
  <1> QED BY <1>1, <1>2, <1>3, <1>4, <1>5, <1>6, NextIndex DEF TypeOK

\* A turn is taken by the tenant that had the fewest left to take.
LEMMA TurnKeepsLead ==
  ASSUME FairInv, Advance, turns' = [turns EXCEPT ![Visited] = @ + 1], steady' = steady
  PROVE  TurnLead'
  <1> USE DEF FairInv, FairTypeOK
  <1> SUFFICES ASSUME NEW i \in Places, NEW j \in Places, rrOrder[j] \in steady
               PROVE  turns'[rrOrder[i]] <= turns'[rrOrder[j]] + (Lead(i, j))'
    BY NextIndex DEF TurnLead, Places
  <1>1. /\ turns[rrOrder[i]] <= turns[rrOrder[j]] + Lead(i, j)
        /\ turns[rrOrder[i]] \in Nat /\ turns[rrOrder[j]] \in Nat
    BY VisitKeepsOrder DEF TurnLead
  <1>2. /\ i = rrIndex + 1 => turns'[rrOrder[i]] = turns[rrOrder[i]] + 1
        /\ i # rrIndex + 1 => turns'[rrOrder[i]] = turns[rrOrder[i]]
        /\ j = rrIndex + 1 => turns'[rrOrder[j]] = turns[rrOrder[j]] + 1
        /\ j # rrIndex + 1 => turns'[rrOrder[j]] = turns[rrOrder[j]]
    BY VisitKeepsOrder
  <1>3. Lead(i, j) \in {0, 1}
    BY LeadIsSmall
  <1>4. CASE i = j
    BY <1>1, <1>2, <1>3, <1>4, VisitedComesLast
  <1>5. CASE i = rrIndex + 1 /\ j # rrIndex + 1
    BY <1>1, <1>2, <1>5, VisitedComesLast
  <1>6. CASE i # rrIndex + 1 /\ j = rrIndex + 1
    BY <1>1, <1>2, <1>6, VisitedComesLast
  <1>7. CASE i # rrIndex + 1 /\ j # rrIndex + 1
    BY <1>1, <1>2, <1>3, <1>7, VisitedComesLast
  <1> QED BY <1>4, <1>5, <1>6, <1>7

\* A visit that finds nothing: the tenant loses its claim to a steady share.
LEMMA EmptyKeepsInv == ASSUME FairInv, FairEmpty PROVE FairInv'
  <1> USE DEF FairInv, Order
  <1>1. /\ Advance /\ queue[Visited] = <<>> /\ steady' = steady \ {Visited}
        /\ UNCHANGED <<queue, deficit, scanning, selected, turns, spent, passed, since>>
    BY DEF FairEmpty, VisitEmpty
  <1>2. FairTypeOK'
    BY <1>1, VisitKeepsOrder DEF FairTypeOK, TypeOK
  <1>3. NoRepeat' /\ DeclaredKnown'
    BY <1>1, VisitKeepsOrder
  <1>4. Unseen' /\ Idle'
    BY <1>1, VisitKeepsOrder DEF Unseen, Idle, NoneSince
  <1>5. TokenBudget' /\ Saving'
    BY <1>1 DEF TokenBudget, Saving, Quantum, Cost
  <1>6. TurnLead'
    <2> SUFFICES ASSUME NEW i \in Places, NEW j \in Places, rrOrder[j] \in steady'
                 PROVE  turns[rrOrder[i]] <= turns[rrOrder[j]] + (Lead(i, j))'
      BY <1>1, NextIndex DEF TurnLead, Places, FairTypeOK
    <2>1. rrOrder[j] \in steady /\ j # rrIndex + 1
      BY <1>1, VisitKeepsOrder
    <2>2. turns[rrOrder[i]] <= turns[rrOrder[j]] + Lead(i, j)
      BY <2>1 DEF TurnLead
    <2>3. turns[rrOrder[i]] \in Nat /\ turns[rrOrder[j]] \in Nat
      BY <1>1, VisitKeepsOrder DEF FairTypeOK
    <2>4. CASE i = rrIndex + 1
      BY <1>1, <2>1, <2>2, <2>3, <2>4, VisitedComesLast DEF FairTypeOK
    <2>5. CASE i # rrIndex + 1
      BY <1>1, <2>1, <2>2, <2>5, VisitedComesLast DEF FairTypeOK
    <2> QED BY <2>4, <2>5
  <1>7. WaitLead'
    <2> SUFFICES ASSUME NEW i \in Places, NEW j \in Places
                 PROVE  since[rrOrder[j]][rrOrder[i]] <= passed[rrOrder[j]] + (Lead(i, j))'
      BY <1>1, NextIndex DEF WaitLead, Places, FairTypeOK
    <2>1. since[rrOrder[j]][rrOrder[i]] <= passed[rrOrder[j]] + Lead(i, j)
      BY DEF WaitLead
    <2>2. since[rrOrder[j]][rrOrder[i]] \in Nat /\ passed[rrOrder[j]] \in Nat
      BY <1>1, VisitKeepsOrder DEF FairTypeOK
    <2>3. CASE j = rrIndex + 1
      <3>1. since[rrOrder[j]][rrOrder[i]] = 0
        BY <1>1, <2>3, VisitKeepsOrder DEF Idle, NoneSince
      <3>2. (Lead(i, j))' \in {0, 1}
        BY DEF Lead
      <3> QED BY <2>2, <3>1, <3>2
    <2>4. CASE i = rrIndex + 1 /\ j # rrIndex + 1
      BY <1>1, <2>1, <2>2, <2>4, VisitedComesLast DEF FairTypeOK
    <2>5. CASE i # rrIndex + 1 /\ j # rrIndex + 1
      BY <1>1, <2>1, <2>5, VisitedComesLast DEF FairTypeOK
    <2> QED BY <2>3, <2>4, <2>5
  <1> QED BY <1>2, <1>3, <1>4, <1>5, <1>6, <1>7

\* A visit that cannot pay: a quantum more is saved for the head.
LEMMA SkipKeepsInv == ASSUME FairInv, FairSkip PROVE FairInv'
  <1> USE DEF FairInv, Order
  <1> DEFINE t0 == Visited
  <1>1. /\ Advance /\ queue[t0] # <<>> /\ Credit(t0) < Cost(Head(queue[t0]))
        /\ deficit' = [deficit EXCEPT ![t0] = deficit[t0] + Quantum(t0)]
        /\ turns' = [turns EXCEPT ![t0] = @ + 1]
        /\ passed' = [passed EXCEPT ![t0] = @ + 1]
        /\ UNCHANGED <<queue, scanning, selected, spent, since, steady>>
    BY DEF FairSkip, VisitSkip, Credit
  <1>2. t0 \in Tenants /\ Known(t0)
    BY <1>1, VisitKeepsOrder
  <1>3. \A t \in Tenants :
          /\ Quantum(t) \in Nat \ {0} /\ deficit[t] \in Nat /\ turns[t] \in Nat
          /\ spent[t] \in Nat /\ passed[t] \in Nat
    BY QuantumPositive DEF FairTypeOK, TypeOK
  <1>4. /\ deficit'[t0] = deficit[t0] + Quantum(t0)
        /\ turns'[t0] = turns[t0] + 1 /\ passed'[t0] = passed[t0] + 1
        /\ \A t \in Tenants \ {t0} :
             deficit'[t] = deficit[t] /\ turns'[t] = turns[t] /\ passed'[t] = passed[t]
    BY <1>1, <1>2 DEF FairTypeOK, TypeOK
  <1>5. FairTypeOK'
    <2>1. deficit[t0] + Quantum(t0) \in Nat /\ turns[t0] + 1 \in Nat /\ passed[t0] + 1 \in Nat
      BY <1>2, <1>3
    <2>2. /\ deficit' \in [Tenants -> Nat] /\ turns' \in [Tenants -> Nat]
          /\ passed' \in [Tenants -> Nat]
      BY <1>1, <2>1 DEF FairTypeOK, TypeOK
    <2> QED BY <1>1, <2>2, VisitKeepsOrder DEF FairTypeOK, TypeOK
  <1>6. NoRepeat' /\ DeclaredKnown'
    BY <1>1, VisitKeepsOrder
  <1>7. Unseen' /\ Idle'
    <2>1. Unseen'
      BY <1>1, <1>2, <1>4, VisitKeepsOrder DEF Unseen
    <2>2. Idle'
      BY <1>1, <1>2, <1>4 DEF Idle, NoneSince
    <2> QED BY <2>1, <2>2
  <1>8. /\ (turns[t0] + 1) * Quantum(t0) = turns[t0] * Quantum(t0) + Quantum(t0)
        /\ (passed[t0] + 1) * Quantum(t0) = passed[t0] * Quantum(t0) + Quantum(t0)
        /\ turns[t0] * Quantum(t0) \in Nat /\ passed[t0] * Quantum(t0) \in Nat
    BY <1>2, <1>3, OneMore, ProductIsNat
  <1>9. TokenBudget'
    <2> SUFFICES ASSUME NEW t \in Tenants
                 PROVE  spent[t] + deficit'[t] = turns'[t] * Quantum(t)
      BY <1>1 DEF TokenBudget, Quantum
    <2>1. spent[t] + deficit[t] = turns[t] * Quantum(t)
      BY DEF TokenBudget
    <2>2. CASE t = t0
      BY <1>2, <1>3, <1>4, <1>8, <2>1, <2>2
    <2>3. CASE t # t0
      BY <1>4, <2>1, <2>3
    <2> QED BY <2>2, <2>3
  <1>10. TurnLead'
    BY <1>1, TurnKeepsLead
  <1>11. WaitLead'
    <2> SUFFICES ASSUME NEW i \in Places, NEW j \in Places
                 PROVE  since[rrOrder[j]][rrOrder[i]] <= passed'[rrOrder[j]] + (Lead(i, j))'
      BY <1>1, NextIndex DEF WaitLead, Places, FairTypeOK
    <2>1. since[rrOrder[j]][rrOrder[i]] <= passed[rrOrder[j]] + Lead(i, j)
      BY DEF WaitLead
    <2>2. /\ since[rrOrder[j]][rrOrder[i]] \in Nat /\ passed[rrOrder[j]] \in Nat
          /\ Lead(i, j) \in {0, 1} /\ (Lead(i, j))' \in {0, 1}
      BY <1>1, VisitKeepsOrder DEF FairTypeOK, Lead
    <2>3. CASE j = rrIndex + 1
      <3>1. passed'[rrOrder[j]] = passed[rrOrder[j]] + 1
        BY <1>1, <1>4, <2>3, VisitKeepsOrder
      <3> QED BY <2>1, <2>2, <3>1
    <2>4. CASE j # rrIndex + 1
      <3>1. passed'[rrOrder[j]] = passed[rrOrder[j]]
        BY <1>1, <1>4, <2>4, VisitKeepsOrder
      <3>2. Lead(i, j) <= (Lead(i, j))'
        BY <1>1, <2>2, <2>4, VisitedComesLast DEF FairTypeOK
      <3> QED BY <2>1, <2>2, <3>1, <3>2
    <2> QED BY <2>3, <2>4
  <1>12. Saving'
    <2> SUFFICES ASSUME NEW t \in Tenants
                 PROVE  /\ passed'[t] * Quantum(t) <= deficit'[t]
                        /\ passed'[t] > 0 => deficit'[t] < Cost(Head(queue[t]))
      BY <1>1 DEF Saving, Quantum, Cost
    <2>1. CASE t = t0
      <3>1. passed[t0] * Quantum(t0) <= deficit[t0]
        BY <1>2 DEF Saving
      <3>2. passed'[t0] * Quantum(t0) <= deficit'[t0]
        BY <1>2, <1>3, <1>4, <1>8, <3>1
      <3>3. deficit'[t0] < Cost(Head(queue[t0]))
        BY <1>1, <1>4 DEF Credit
      <3> QED BY <2>1, <3>2, <3>3
    <2>2. CASE t # t0
      BY <1>4, <2>2 DEF Saving
    <2> QED BY <2>1, <2>2
  <1> QED BY <1>5, <1>6, <1>7, <1>9, <1>10, <1>11, <1>12

\* A visit that pays: the head is gone, and with it what it waited for.
LEMMA ServeKeepsInv == ASSUME FairInv, FairServe PROVE FairInv'
  <1> USE DEF FairInv, Order
  <1> DEFINE t0 == Visited
             c == Cost(Head(queue[t0]))
  <1>1. /\ Advance /\ queue[t0] # <<>> /\ Credit(t0) >= c
        /\ Credit(t0) = deficit[t0] + Quantum(t0)
        /\ deficit' = [deficit EXCEPT ![t0] = Credit(t0) - c]
        /\ queue' = [queue EXCEPT ![t0] = Tail(@)]
        /\ selected' = Append(selected, Head(queue[t0]))
        /\ scanning' = FALSE
        /\ turns' = [turns EXCEPT ![t0] = @ + 1]
        /\ spent' = [spent EXCEPT ![t0] = @ + c]
        /\ passed' = [passed EXCEPT ![t0] = 0]
        /\ since' = [u \in Tenants |->
                       IF u = t0 \/ queue[u] = <<>> THEN NoneSince
                       ELSE [since[u] EXCEPT ![t0] = @ + 1]]
        /\ steady' = steady
    <2>1. /\ VisitServe
          /\ turns' = [turns EXCEPT ![t0] = @ + 1]
          /\ spent' = [spent EXCEPT ![t0] = @ + c]
          /\ passed' = [passed EXCEPT ![t0] = 0]
          /\ since' = [u \in Tenants |->
                         IF u = t0 \/ queue[u] = <<>> THEN NoneSince
                         ELSE [since[u] EXCEPT ![t0] = @ + 1]]
          /\ steady' = steady
      BY DEF FairServe
    <2>2. /\ Advance /\ queue[t0] # <<>>
          /\ queue' = [queue EXCEPT ![t0] = Tail(@)]
          /\ selected' = Append(selected, Head(queue[t0]))
          /\ scanning' = FALSE
      BY <2>1 DEF VisitServe
    <2>3. Credit(t0) >= c /\ deficit' = [deficit EXCEPT ![t0] = Credit(t0) - c]
      BY <2>1 DEF VisitServe
    <2>4. Credit(t0) = deficit[t0] + Quantum(t0)
      BY DEF Credit
    <2> QED BY <2>1, <2>2, <2>3, <2>4
  <1>2. t0 \in Tenants /\ Known(t0)
    BY <1>1, VisitKeepsOrder
  <1>3. \A t \in Tenants :
          /\ Quantum(t) \in Nat \ {0} /\ deficit[t] \in Nat /\ turns[t] \in Nat
          /\ spent[t] \in Nat /\ passed[t] \in Nat
    BY QuantumPositive DEF FairTypeOK, TypeOK
  <1>4. queue[t0] \in Seq(Requests) /\ selected \in Seq(Requests)
    BY <1>2 DEF FairTypeOK, TypeOK
  <1>5. Head(queue[t0]) \in Requests /\ Tail(queue[t0]) \in Seq(Requests)
    BY <1>1, <1>4
  <1>6. c \in Nat \ {0}
    BY <1>5, CostPositive
  <1> HIDE DEF c
  <1>7. /\ deficit'[t0] = deficit[t0] + Quantum(t0) - c
        /\ turns'[t0] = turns[t0] + 1 /\ spent'[t0] = spent[t0] + c /\ passed'[t0] = 0
        /\ \A t \in Tenants \ {t0} :
             /\ deficit'[t] = deficit[t] /\ turns'[t] = turns[t] /\ spent'[t] = spent[t]
             /\ passed'[t] = passed[t] /\ queue'[t] = queue[t]
    <2>1. /\ deficit'[t0] = Credit(t0) - c
          /\ \A t \in Tenants \ {t0} : deficit'[t] = deficit[t] /\ queue'[t] = queue[t]
      BY <1>1, <1>2 DEF FairTypeOK, TypeOK
    <2>2. /\ turns'[t0] = turns[t0] + 1 /\ spent'[t0] = spent[t0] + c /\ passed'[t0] = 0
          /\ \A t \in Tenants \ {t0} :
               turns'[t] = turns[t] /\ spent'[t] = spent[t] /\ passed'[t] = passed[t]
      BY <1>1, <1>2 DEF FairTypeOK
    <2>3. deficit'[t0] = deficit[t0] + Quantum(t0) - c
      BY <1>1, <1>2, <1>3, <1>6, <2>1
    <2> QED BY <2>1, <2>2, <2>3
  <1>8. /\ since' \in [Tenants -> [Tenants -> Nat]]
        /\ since'[t0] = NoneSince
        /\ \A u \in Tenants : queue[u] = <<>> => since'[u] = NoneSince
        /\ \A u, w \in Tenants : since'[u][w] <= since[u][w] + (IF w = t0 THEN 1 ELSE 0)
    <2>1. NoneSince \in [Tenants -> Nat] /\ \A w \in Tenants : NoneSince[w] = 0
      BY DEF NoneSince
    <2>2. \A u \in Tenants : since[u] \in [Tenants -> Nat]
      BY DEF FairTypeOK
    <2>3. ASSUME NEW u \in Tenants
          PROVE  /\ since'[u] \in [Tenants -> Nat]
                 /\ queue[u] = <<>> \/ u = t0 => since'[u] = NoneSince
                 /\ \A w \in Tenants : since'[u][w] <= since[u][w] + (IF w = t0 THEN 1 ELSE 0)
      <3>1. CASE u = t0 \/ queue[u] = <<>>
        <4>1. since'[u] = NoneSince
          BY <1>1, <3>1
        <4> QED BY <2>1, <2>2, <4>1
      <3>2. CASE ~ (u = t0 \/ queue[u] = <<>>)
        <4>1. since'[u] = [since[u] EXCEPT ![t0] = @ + 1]
          BY <1>1, <3>2
        <4>2. since[u] \in [Tenants -> Nat]
          BY <2>2
        <4> QED BY <1>2, <3>2, <4>1, <4>2
      <3> QED BY <3>1, <3>2
    <2>4. since' = [u \in Tenants |-> since'[u]]
      BY <1>1
    <2> QED BY <1>2, <2>3, <2>4
  <1>9. FairTypeOK'
    <2>1. Credit(t0) - c \in Nat /\ spent[t0] + c \in Nat /\ turns[t0] + 1 \in Nat
      <3>1. Credit(t0) \in Nat /\ c <= Credit(t0) /\ c \in Nat
        BY <1>1, <1>2, <1>3, <1>6
      <3>2. spent[t0] \in Nat /\ turns[t0] \in Nat
        BY <1>2 DEF FairTypeOK
      <3> QED BY ONLY <3>1, <3>2
    <2>2. /\ deficit' \in [Tenants -> Nat] /\ turns' \in [Tenants -> Nat]
          /\ spent' \in [Tenants -> Nat] /\ passed' \in [Tenants -> Nat]
      BY <1>1, <2>1 DEF FairTypeOK, TypeOK
    <2>3. queue' \in [Tenants -> Seq(Requests)]
      BY <1>1, <1>5 DEF FairTypeOK, TypeOK
    <2>4. selected' \in Seq(Requests)
      BY <1>1, <1>4, <1>5
    <2> QED BY <1>1, <1>8, <2>2, <2>3, <2>4, VisitKeepsOrder DEF FairTypeOK, TypeOK
  <1>10. NoRepeat' /\ DeclaredKnown'
    BY <1>1, VisitKeepsOrder
  <1>11. Unseen'
    <2> SUFFICES ASSUME NEW t \in Tenants, ~ Known(t)
                 PROVE  /\ queue'[t] = <<>> /\ turns'[t] = 0
                        /\ \A u \in Tenants : since'[u][t] = 0
      BY <1>1, VisitKeepsOrder DEF Unseen
    <2>1. t # t0
      BY <1>2
    <2>2. queue'[t] = <<>> /\ turns'[t] = 0
      BY <1>7, <2>1 DEF Unseen
    <2>3. ASSUME NEW u \in Tenants PROVE since'[u][t] = 0
      <3>1. since[u][t] = 0
        BY DEF Unseen
      <3>2. since'[u][t] <= since[u][t] + 0 /\ since'[u][t] \in Nat
        BY <1>8, <2>1
      <3> QED BY <3>1, <3>2
    <2> QED BY <2>2, <2>3
  <1>12. Idle'
    BY <1>2, <1>7, <1>8 DEF Idle, NoneSince
  <1>13. (turns[t0] + 1) * Quantum(t0) = turns[t0] * Quantum(t0) + Quantum(t0)
    BY <1>2, <1>3, OneMore
  <1>14. TokenBudget'
    <2> SUFFICES ASSUME NEW t \in Tenants
                 PROVE  spent'[t] + deficit'[t] = turns'[t] * Quantum(t)
      BY DEF TokenBudget, Quantum
    <2>1. spent[t] + deficit[t] = turns[t] * Quantum(t)
      BY DEF TokenBudget
    <2>2. CASE t = t0
      <3>1. turns[t0] * Quantum(t0) \in Nat
        BY <1>2, <1>3, ProductIsNat
      <3> QED BY <1>2, <1>3, <1>6, <1>7, <1>13, <2>1, <2>2, <3>1
    <2>3. CASE t # t0
      BY <1>7, <2>1, <2>3
    <2> QED BY <2>2, <2>3
  <1>15. TurnLead'
    BY <1>1, TurnKeepsLead
  <1>16. WaitLead'
    <2> SUFFICES ASSUME NEW i \in Places, NEW j \in Places
                 PROVE  since'[rrOrder[j]][rrOrder[i]] <= passed'[rrOrder[j]] + (Lead(i, j))'
      BY <1>1, NextIndex DEF WaitLead, Places, FairTypeOK
    <2>1. since[rrOrder[j]][rrOrder[i]] <= passed[rrOrder[j]] + Lead(i, j)
      BY DEF WaitLead
    <2>2. /\ rrOrder[i] \in Tenants /\ rrOrder[j] \in Tenants
          /\ i = rrIndex + 1 <=> rrOrder[i] = t0
          /\ j = rrIndex + 1 <=> rrOrder[j] = t0
      BY <1>1, VisitKeepsOrder
    <2>3. /\ since[rrOrder[j]][rrOrder[i]] \in Nat /\ since'[rrOrder[j]][rrOrder[i]] \in Nat
          /\ passed[rrOrder[j]] \in Nat /\ (Lead(i, j))' \in {0, 1}
      BY <1>8, <2>2 DEF FairTypeOK, Lead
    <2>4. CASE j = rrIndex + 1
      BY <1>7, <1>8, <2>2, <2>3, <2>4 DEF NoneSince
    <2>5. CASE i = rrIndex + 1 /\ j # rrIndex + 1
      <3>1. Lead(i, j) = 0 /\ (Lead(i, j))' = 1
        BY <1>1, <2>5, VisitedComesLast DEF FairTypeOK
      <3>2. since'[rrOrder[j]][rrOrder[i]] <= since[rrOrder[j]][rrOrder[i]] + 1
        BY <1>8, <2>2, <2>5
      <3> QED BY <1>7, <2>1, <2>2, <2>3, <2>5, <3>1, <3>2
    <2>6. CASE i # rrIndex + 1 /\ j # rrIndex + 1
      <3>1. (Lead(i, j))' = Lead(i, j)
        BY <1>1, <2>6, VisitedComesLast DEF FairTypeOK
      <3>2. since'[rrOrder[j]][rrOrder[i]] <= since[rrOrder[j]][rrOrder[i]]
        BY <1>8, <2>2, <2>3, <2>6
      <3> QED BY <1>7, <2>1, <2>2, <2>3, <2>6, <3>1, <3>2
    <2> QED BY <2>4, <2>5, <2>6
  <1>17. Saving'
    <2> SUFFICES ASSUME NEW t \in Tenants
                 PROVE  /\ passed'[t] * Quantum(t) <= deficit'[t]
                        /\ passed'[t] > 0 => deficit'[t] < Cost(Head(queue'[t]))
      BY DEF Saving, Quantum, Cost
    <2>1. CASE t = t0
      <3>1. 0 * Quantum(t0) = 0 /\ deficit'[t0] \in Nat
        BY <1>2, <1>3, <1>9 DEF FairTypeOK, TypeOK
      <3> QED BY <1>7, <2>1, <3>1
    <2>2. CASE t # t0
      BY <1>7, <2>2 DEF Saving
    <2> QED BY <2>1, <2>2
  <1> QED BY <1>9, <1>10, <1>11, <1>12, <1>14, <1>15, <1>16, <1>17

\* Neither the beginning of a selection nor a stutter moves anything.
LEMMA NothingMoves ==
  ASSUME FairInv, UNCHANGED <<rrOrder, rrIndex, queue, deficit, selected>>,
         Unobserved, scanning' \in BOOLEAN
  PROVE  FairInv'
  <1>1. UNCHANGED <<rrOrder, rrIndex, queue, deficit, selected, turns, spent, passed, since, steady>>
    BY DEF Unobserved
  <1>2. FairTypeOK'
    BY <1>1 DEF FairInv, FairTypeOK, TypeOK
  <1>3. Order'
    BY <1>1 DEF FairInv, Order, NoRepeat, DeclaredKnown, Unseen, Idle, Known, Places
  <1>4. TokenBudget' /\ Saving'
    BY <1>1 DEF FairInv, TokenBudget, Saving, Quantum, Cost
  <1>5. TurnLead' /\ WaitLead'
    BY <1>1 DEF FairInv, TurnLead, WaitLead, Lead, Sooner, Places
  <1> QED BY <1>2, <1>3, <1>4, <1>5 DEF FairInv

\* Every reachable state satisfies the inductive invariant.
THEOREM FairInvariant == FairSpec => []FairInv
  <1>1. FairInv /\ [FairNext]_fairVars => FairInv'
    <2> SUFFICES ASSUME FairInv, [FairNext]_fairVars PROVE FairInv'
      OBVIOUS
    <2>1. CASE \E r \in Requests : FairEnqueue(r)
      BY <2>1, EnqueueKeepsInv
    <2>2. CASE FairBegin
      BY <2>2, NothingMoves DEF FairBegin, BeginSelect
    <2>3. CASE FairEmpty
      BY <2>3, EmptyKeepsInv
    <2>4. CASE FairSkip
      BY <2>4, SkipKeepsInv
    <2>5. CASE FairServe
      BY <2>5, ServeKeepsInv
    <2>6. CASE UNCHANGED fairVars
      <3>1. scanning' \in BOOLEAN
        BY <2>6 DEF fairVars, vars, FairInv, FairTypeOK, TypeOK
      <3> QED BY <2>6, <3>1, NothingMoves DEF fairVars, vars, Unobserved
    <2> QED BY <2>1, <2>2, <2>3, <2>4, <2>5, <2>6 DEF FairNext, FairVisit
  <1> QED BY <1>1, FairInvInit, PTL DEF FairSpec

\* The state of the policy and of its history is well typed: in particular the
\* index never leaves the order, though the order grows while it turns, and no
\* deficit is ever negative.
THEOREM FairTypeCorrect == FairSpec => []FairTypeOK
  <1>1. FairInv => FairTypeOK
    BY DEF FairInv
  <1> QED BY <1>1, FairInvariant, PTL

\* Tokens are neither made nor lost (dispatcher_drr.py:65-72).
THEOREM TokensAccounted == FairSpec => []TokenBudget
  <1>1. FairInv => TokenBudget
    BY DEF FairInv
  <1> QED BY <1>1, FairInvariant, PTL

\* Against a configured tenant that always had a request queued no tenant is
\* more than one turn, and the tokens of that turn, ahead.
THEOREM TokensShared == FairSpec => []TokenShare
  <1>1. FairInv => TokenShare
    <2> SUFFICES ASSUME FairInv, NEW t \in steady, NEW u \in Tenants
                 PROVE  turns[u] <= turns[t] + 1 /\ spent[u] <= (turns[t] + 1) * Quantum(u)
      BY DEF TokenShare
    <2> USE DEF FairInv, Order
    <2>1. t \in Range(Declared) /\ t \in Tenants
      BY DRRAssumption DEF FairTypeOK, Range
    <2>2. /\ turns[u] \in Nat /\ turns[t] \in Nat /\ spent[u] \in Nat /\ deficit[u] \in Nat
          /\ Quantum(u) \in Nat
      BY <2>1, QuantumPositive DEF FairTypeOK, TypeOK
    <2>3. turns[u] <= turns[t] + 1
      <3>1. CASE Known(u)
        <4>1. PICK i \in Places, j \in Places : rrOrder[i] = u /\ rrOrder[j] = t
          BY <2>1, <3>1 DEF DeclaredKnown, Known, Places
        <4>2. turns[u] <= turns[t] + Lead(i, j) /\ Lead(i, j) \in {0, 1}
          BY <4>1, LeadIsSmall DEF TurnLead
        <4> QED BY <2>2, <4>2
      <3>2. CASE ~ Known(u)
        <4>1. turns[u] = 0
          BY <3>2 DEF Unseen
        <4> QED BY <2>2, <4>1
      <3> QED BY <3>1, <3>2
    <2>4. turns[u] * Quantum(u) <= (turns[t] + 1) * Quantum(u)
      <3>1. turns[t] + 1 \in Nat
        BY <2>2
      <3> QED BY <2>2, <2>3, <3>1, MoreVisits
    <2>5. spent[u] + deficit[u] = turns[u] * Quantum(u)
      BY DEF TokenBudget
    <2>6. turns[u] * Quantum(u) \in Nat /\ (turns[t] + 1) * Quantum(u) \in Nat
      BY <2>2, ProductIsNat
    <2> QED BY <2>2, <2>3, <2>4, <2>5, <2>6
  <1> QED BY <1>1, FairInvariant, PTL

\* While a head waits, each other tenant is served at most once per quantum
\* its cost takes to cover (dispatcher_drr.py:22-25): nobody starves.
THEOREM HeadWaitBounded == FairSpec => []HeadWaitBound
  <1>1. FairInv => HeadWaitBound
    <2> SUFFICES ASSUME FairInv, NEW t \in Tenants, NEW u \in Tenants, queue[t] # <<>>
                 PROVE  since[t][u] * Quantum(t) < Cost(Head(queue[t])) + Quantum(t)
      BY DEF HeadWaitBound
    <2> USE DEF FairInv, Order
    <2>1. /\ since[t][u] \in Nat /\ passed[t] \in Nat /\ deficit[t] \in Nat
          /\ Quantum(t) \in Nat \ {0}
      BY QuantumPositive DEF FairTypeOK, TypeOK
    <2>2. Cost(Head(queue[t])) \in Nat \ {0}
      <3>1. queue[t] \in Seq(Requests)
        BY DEF FairTypeOK, TypeOK
      <3>2. Head(queue[t]) \in Requests
        BY <3>1
      <3> QED BY <3>2, CostPositive
    <2>3. since[t][u] <= passed[t] + 1
      <3>1. CASE Known(u)
        <4>1. Known(t)
          BY DEF Unseen
        <4>2. PICK i \in Places, j \in Places : rrOrder[i] = u /\ rrOrder[j] = t
          BY <3>1, <4>1 DEF Known, Places
        <4>3. since[t][u] <= passed[t] + Lead(i, j) /\ Lead(i, j) \in {0, 1}
          BY <4>2, LeadIsSmall DEF WaitLead
        <4> QED BY <2>1, <4>3
      <3>2. CASE ~ Known(u)
        <4>1. since[t][u] = 0
          BY <3>2 DEF Unseen
        <4> QED BY <2>1, <4>1
      <3> QED BY <3>1, <3>2
    <2>4. since[t][u] * Quantum(t) <= passed[t] * Quantum(t) + Quantum(t)
      <3>1. passed[t] + 1 \in Nat
        BY <2>1
      <3>2. since[t][u] * Quantum(t) <= (passed[t] + 1) * Quantum(t)
        BY <2>1, <2>3, <3>1, MoreVisits
      <3> QED BY <2>1, <3>2, OneMore
    <2>5. passed[t] * Quantum(t) < Cost(Head(queue[t]))
      <3>1. CASE passed[t] = 0
        <4>1. 0 * Quantum(t) = 0
          BY <2>1
        <4> QED BY <2>2, <3>1, <4>1
      <3>2. CASE passed[t] > 0
        <4>1. passed[t] * Quantum(t) <= deficit[t] /\ deficit[t] < Cost(Head(queue[t]))
          BY <3>2 DEF Saving
        <4>2. passed[t] * Quantum(t) \in Nat
          BY <2>1, ProductIsNat
        <4> QED BY <2>1, <2>2, <4>1, <4>2
      <3> QED BY <2>1, <3>1, <3>2
    <2>6. since[t][u] * Quantum(t) \in Nat /\ passed[t] * Quantum(t) \in Nat
      BY <2>1, ProductIsNat
    <2>7. \A x, p, q, k \in Nat : x <= p + q /\ p < k => x < k + q
      OBVIOUS
    <2> HIDE DEF FairInv, Order
    <2> QED BY <2>1, <2>2, <2>4, <2>5, <2>6, <2>7
  <1> QED BY <1>1, FairInvariant, PTL
-----------------------------------------------------------------------------
\* A line holds only requests of its tenant.
OwnLines == \A t \in Tenants : \A i \in 1..Len(queue[t]) : TenantOf[queue[t][i]] = t

\* Arrivals join their tenant's line, and a head leaves it.
LEMMA OwnLinesInvariant == FairSpec => []OwnLines
  <1>1. FairInit => OwnLines
    BY DEF FairInit, Init, OwnLines
  <1>2. FairInv /\ OwnLines /\ [FairNext]_fairVars => OwnLines'
    <2> SUFFICES ASSUME FairInv, OwnLines, [FairNext]_fairVars PROVE OwnLines'
      OBVIOUS
    <2>1. queue \in [Tenants -> Seq(Requests)]
      BY DEF FairInv, FairTypeOK, TypeOK
    <2>2. CASE \E r \in Requests : FairEnqueue(r)
      <3>1. PICK r \in Requests : queue' = [queue EXCEPT ![TenantOf[r]] = Append(@, r)]
        BY <2>2 DEF FairEnqueue, Enqueue
      <3> SUFFICES ASSUME NEW t \in Tenants, NEW i \in 1..Len(queue'[t])
                   PROVE  TenantOf[queue'[t][i]] = t
        BY DEF OwnLines
      <3>2. queue[t] \in Seq(Requests)
        BY <2>1
      <3>3. CASE t = TenantOf[r]
        <4>1. queue'[t] = Append(queue[t], r)
          BY <2>1, <3>1, <3>3
        <4>2. i \in 1..Len(queue[t]) \/ queue'[t][i] = r
          BY <3>2, <4>1
        <4>3. i \in 1..Len(queue[t]) => queue'[t][i] = queue[t][i]
          BY <3>2, <4>1
        <4> QED BY <3>3, <4>2, <4>3 DEF OwnLines
      <3>4. CASE t # TenantOf[r]
        <4>1. queue'[t] = queue[t]
          BY <2>1, <3>1, <3>4
        <4> QED BY <4>1 DEF OwnLines
      <3> QED BY <3>3, <3>4
    <2>3. CASE FairServe
      <3>1. queue' = [queue EXCEPT ![Visited] = Tail(@)] /\ queue[Visited] # <<>>
        BY <2>3 DEF FairServe, VisitServe
      <3> SUFFICES ASSUME NEW t \in Tenants, NEW i \in 1..Len(queue'[t])
                   PROVE  TenantOf[queue'[t][i]] = t
        BY DEF OwnLines
      <3>2. queue[t] \in Seq(Requests)
        BY <2>1
      <3>3. CASE t = Visited
        <4>1. queue'[t] = Tail(queue[t]) /\ queue[t] # <<>>
          BY <2>1, <3>1, <3>3
        <4>2. i + 1 \in 1..Len(queue[t]) /\ queue'[t][i] = queue[t][i + 1]
          BY <3>2, <4>1
        <4> QED BY <4>2 DEF OwnLines
      <3>4. CASE t # Visited
        <4>1. queue'[t] = queue[t]
          BY <2>1, <3>1, <3>4
        <4> QED BY <4>1 DEF OwnLines
      <3> QED BY <3>3, <3>4
    <2>4. CASE UNCHANGED queue
      BY <2>4 DEF OwnLines
    <2> QED BY <2>2, <2>3, <2>4
      DEF FairNext, FairBegin, BeginSelect, FairVisit, FairEmpty, VisitEmpty, FairSkip,
          VisitSkip, fairVars, vars
  <1> QED BY <1>1, <1>2, FairInvariant, PTL DEF FairSpec

\* DRR is a policy: its loop, however many turns it takes, comes out as one
\* request taken from the front of its own tenant's line, and enqueue() as one
\* put at the end of it.
THEOREM ImplementsPolicy == FairSpec => Policy!Spec
  <1>1. FairInit => Policy!Init
    BY DEF FairInit, Init, Policy!Init
  <1>2. FairInv /\ OwnLines /\ [FairNext]_fairVars => [Policy!Next]_(Policy!policyVars)
    <2> SUFFICES ASSUME FairInv, OwnLines, [FairNext]_fairVars
                 PROVE  Policy!Next \/ UNCHANGED <<queue, selected>>
      BY DEF Policy!policyVars
    <2>1. CASE \E r \in Requests : FairEnqueue(r)
      BY <2>1 DEF FairEnqueue, Enqueue, Policy!Next, Policy!Enqueue
    <2>2. CASE FairServe
      <3> DEFINE r == Head(queue[Visited])
      <3>1. /\ queue[Visited] # <<>> /\ queue' = [queue EXCEPT ![Visited] = Tail(@)]
            /\ selected' = Append(selected, r)
        BY <2>2 DEF FairServe, VisitServe
      <3>2. Visited \in Tenants
        BY VisitedPlace DEF FairInv, FairTypeOK
      <3>3. queue[Visited] \in Seq(Requests)
        BY <3>2 DEF FairInv, FairTypeOK, TypeOK
      <3>4. r \in Requests /\ r = queue[Visited][1] /\ 1 \in 1..Len(queue[Visited])
        BY <3>1, <3>3
      <3>5. TenantOf[r] = Visited
        BY <3>2, <3>4 DEF OwnLines
      <3> HIDE DEF r
      <3>6. Policy!Select(r)
        BY <3>1, <3>2, <3>5 DEF Policy!Select, Policy!Backlogged, r
      <3> QED BY <3>4, <3>6 DEF Policy!Next
    <2>3. CASE UNCHANGED <<queue, selected>>
      BY <2>3
    <2> QED BY <2>1, <2>2, <2>3
      DEF FairNext, FairBegin, BeginSelect, FairVisit, FairEmpty, VisitEmpty, FairSkip,
          VisitSkip, fairVars, vars
  <1> QED BY <1>1, <1>2, FairInvariant, OwnLinesInvariant, PTL DEF FairSpec, Policy!Spec
=============================================================================
