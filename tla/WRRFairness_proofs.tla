-------------------------- MODULE WRRFairness_proofs --------------------------
(***************************************************************************)
(* The fairness of WRRDispatcher for every set of tenants, every weights   *)
(* and every sequence of arrivals.  The inductive invariant adds to the    *)
(* two bounds that a tenant with a queue is in the visiting order, so that *)
(* the scan compared the winner with it.                                   *)
(***************************************************************************)
EXTENDS WRRFairness, FiniteSetTheorems, WellFoundedInduction, TLAPS

\* Whoever waits can be visited.
Ordered == \A t \in Tenants : queues[t] # <<>> => Known(t)

FairInv == FairTypeOK /\ Ordered /\ CatchUpBound /\ SteadyShare

\* A weight is positive, configured or not.
LEMMA WeightPositive == ASSUME NEW t \in Tenants PROVE Weight(t) \in Nat \ {0}
  BY WRRAssumption DEF Weight

\* One more request served leaves a share that held.
LEMMA ShareGrows ==
  ASSUME NEW a \in Nat, NEW w \in Nat PROVE a * w <= (a + 1) * w
  <1>1. (a + 1) * w = a * w + w
    BY SMT
  <1> QED BY <1>1, SMT

\* The invariant holds initially.
LEMMA FairInvInit == FairInit => FairInv
  <1> SUFFICES ASSUME FairInit PROVE FairInv
    OBVIOUS
  <1>1. FairTypeOK
    BY WRRAssumption DEF FairInit, Init, FairTypeOK, TypeOK, NoneSince
  <1>2. Ordered /\ CatchUpBound /\ SteadyShare
    BY DEF FairInit, Init, Ordered, CatchUpBound, SteadyShare, NoneSince
  <1> QED BY <1>1, <1>2 DEF FairInv

\* An arrival puts its tenant in the order and charges nobody.
LEMMA EnqueueKeepsInv ==
  ASSUME FairInv, NEW r \in Requests, FairEnqueue(r) PROVE FairInv'
  <1> USE DEF FairInv
  <1> DEFINE t0 == TenantOf[r]
  <1>1. t0 \in Tenants
    BY WRRAssumption
  <1>2. order' \in Seq(Tenants) /\ queues' \in [Tenants -> Seq(Requests)]
    BY <1>1 DEF FairEnqueue, Enqueue, EnsureTenant, FairTypeOK, TypeOK
  <1>3. UNCHANGED <<served, selected, since, steady>>
    <2>1. UNCHANGED <<served, selected>>
      BY DEF FairEnqueue, Enqueue
    <2> QED BY <2>1 DEF FairEnqueue
  <1>4. FairTypeOK'
    BY <1>2, <1>3 DEF FairTypeOK, TypeOK
  <1>5. Ordered'
    <2> SUFFICES ASSUME NEW t \in Tenants, queues'[t] # <<>> PROVE Known(t)'
      BY DEF Ordered
    <2>1. CASE Known(t)
      <3>1. PICK i \in 1..Len(order) : order[i] = t
        BY <2>1 DEF Known
      <3>2. i \in 1..Len(order') /\ order'[i] = t
        BY <3>1, <1>1 DEF FairEnqueue, Enqueue, EnsureTenant, FairTypeOK, TypeOK
      <3> QED BY <3>2 DEF Known
    <2>2. CASE ~ Known(t)
      <3>1. t = t0
        BY <2>2, <1>1 DEF FairEnqueue, Enqueue, Ordered, FairTypeOK, TypeOK
      <3>2. order' = Append(order, t)
        BY <2>2, <3>1 DEF FairEnqueue, Enqueue, EnsureTenant
      <3>3. Len(order') \in 1..Len(order') /\ order'[Len(order')] = t
        BY <3>2 DEF FairTypeOK, TypeOK
      <3> QED BY <3>3 DEF Known
    <2> QED BY <2>1, <2>2
  <1>6. CatchUpBound' /\ SteadyShare'
    BY <1>3 DEF CatchUpBound, SteadyShare, Weight
  <1> QED BY <1>4, <1>5, <1>6

\* The winner's ratio was at most that of every tenant that waits.
LEMMA WinnerIsLeast ==
  ASSUME FairInv, NEW i \in 1..Len(order), IsBest(i),
         NEW t \in Tenants, queues[t] # <<>>
  PROVE  served[order[i]] * Weight(t) <= served[t] * Weight(order[i])
  <1>1. PICK j \in 1..Len(order) : order[j] = t
    BY DEF FairInv, Ordered, Known
  <1>2. RatioBelow(order[i], order[j]) \/ RatioAtMost(order[i], order[j])
    BY <1>1 DEF IsBest
  <1>3. order[i] \in Tenants
    BY DEF FairInv, FairTypeOK, TypeOK
  <1>4. /\ served[order[i]] * Weight(t) \in Int
        /\ served[t] * Weight(order[i]) \in Int
    <2>1. Weight(t) \in Nat /\ Weight(order[i]) \in Nat
      BY <1>3, WeightPositive
    <2>2. served[t] \in Nat /\ served[order[i]] \in Nat
      BY <1>3 DEF FairInv, FairTypeOK, TypeOK
    <2> QED BY <2>1, <2>2, SMT
  <1> QED BY <1>1, <1>2, <1>4 DEF RatioBelow, RatioAtMost

\* A selection raises the winner's count, and only that.
LEMMA SelectKeepsInv ==
  ASSUME FairInv, NEW i \in 1..Len(order), FairSelect(i) PROVE FairInv'
  <1> USE DEF FairInv
  <1> DEFINE w == order[i]
  <1>1. w \in Tenants /\ queues[w] # <<>>
    BY DEF FairTypeOK, TypeOK, FairSelect, IsBest
  <1>2. /\ served' = [served EXCEPT ![w] = @ + 1]
        /\ queues' = [queues EXCEPT ![w] = Tail(@)]
        /\ selected' = Append(selected, Head(queues[w]))
        /\ order' = order
    BY DEF FairSelect, Serve
  <1>3. /\ since' = [u \in Tenants |->
                       IF u = w \/ queues[u] = <<>> THEN NoneSince
                       ELSE [since[u] EXCEPT ![w] = @ + 1]]
        /\ steady' = steady \cap Policy!Backlogged
    BY DEF FairSelect, Observe
  <1>4. TypeOK'
    <2>1. queues[w] \in Seq(Requests) /\ selected \in Seq(Requests)
      BY <1>1 DEF FairTypeOK, TypeOK
    <2>2. Head(queues[w]) \in Requests /\ Tail(queues[w]) \in Seq(Requests)
      BY <1>1, <2>1
    <2>3. queues' \in [Tenants -> Seq(Requests)] /\ selected' \in Seq(Requests)
      BY <1>1, <1>2, <2>1, <2>2 DEF FairTypeOK, TypeOK
    <2>4. served \in [Tenants -> Nat]
      BY DEF FairTypeOK, TypeOK
    <2>5. served' \in [Tenants -> Nat]
      BY <1>1, <1>2, <2>4
    <2>6. order' \in Seq(Tenants)
      BY <1>2 DEF FairTypeOK, TypeOK
    <2> QED BY <2>3, <2>5, <2>6 DEF TypeOK
  <1>5. FairTypeOK'
    <2>1. since' \in [Tenants -> [Tenants -> Nat]]
      BY <1>1, <1>3 DEF FairTypeOK, NoneSince
    <2>2. steady' \subseteq Tenants
      BY <1>3 DEF FairTypeOK
    <2> QED BY <1>4, <2>1, <2>2 DEF FairTypeOK
  <1>6. Ordered'
    BY <1>1, <1>2 DEF Ordered, Known, FairTypeOK, TypeOK
  <1>7. \A t \in Tenants : served[t] \in Nat /\ Weight(t) \in Nat /\ Weight(t)' = Weight(t)
    BY WeightPositive DEF FairTypeOK, TypeOK, Weight
  <1>10. served'[w] - 1 = served[w]
    <2>1. served'[w] = served[w] + 1
      BY <1>1, <1>2 DEF FairTypeOK, TypeOK
    <2> QED BY <1>1, <1>7, <2>1
  <1>8. CatchUpBound'
    <2> SUFFICES ASSUME NEW t \in Tenants, NEW u \in Tenants, since'[t][u] > 0
                 PROVE  (served'[u] - 1) * Weight(t) <= served'[t] * Weight(u)
      BY <1>7 DEF CatchUpBound
    <2>1. t # w /\ queues[t] # <<>>
      BY <1>3 DEF NoneSince
    <2>2. served'[t] = served[t]
      BY <1>2, <2>1 DEF FairTypeOK, TypeOK
    <2>3. CASE u = w
      <3>1. served'[u] - 1 = served[u]
        BY <1>10, <2>3
      <3> QED BY <2>1, <2>2, <2>3, <3>1, WinnerIsLeast DEF FairSelect
    <2>4. CASE u # w
      <3>1. served'[u] = served[u]
        BY <1>2, <2>4 DEF FairTypeOK, TypeOK
      <3>2. since[t][u] > 0
        BY <1>3, <2>1, <2>4 DEF FairTypeOK
      <3> QED BY <2>2, <3>1, <3>2 DEF CatchUpBound
    <2> QED BY <2>3, <2>4
  <1>9. SteadyShare'
    <2> SUFFICES ASSUME NEW t \in steady', NEW u \in Tenants, served'[u] > 0
                 PROVE  (served'[u] - 1) * Weight(t) <= served'[t] * Weight(u)
      BY <1>5, <1>7 DEF SteadyShare, FairTypeOK
    <2>1. t \in steady /\ t \in Tenants /\ queues[t] # <<>>
      BY <1>3 DEF Policy!Backlogged
    <2>2. /\ served[t] * Weight(u) <= (served[t] + 1) * Weight(u)
          /\ served[t] * Weight(u) \in Int /\ (served[t] + 1) * Weight(u) \in Int
      BY <1>7, <2>1, ShareGrows, SMT
    <2>3. served[t] * Weight(u) <= served'[t] * Weight(u) /\ served'[t] * Weight(u) \in Int
      <3>1. served'[t] = served[t] \/ served'[t] = served[t] + 1
        BY <1>2, <2>1 DEF FairTypeOK, TypeOK
      <3>2. served[t] * Weight(u) <= served[t] * Weight(u)
        BY <2>2
      <3> QED BY <2>2, <3>1, <3>2
    <2>4. (served'[u] - 1) * Weight(t) <= served[t] * Weight(u)
      <3>1. CASE u = w
        <4>1. served'[u] - 1 = served[u]
          BY <1>10, <3>1
        <4> QED BY <2>1, <3>1, <4>1, WinnerIsLeast DEF FairSelect
      <3>2. CASE u # w
        <4>1. served'[u] = served[u]
          BY <1>2, <3>2 DEF FairTypeOK, TypeOK
        <4> QED BY <2>1, <4>1 DEF SteadyShare
      <3> QED BY <3>1, <3>2
    <2>5. (served'[u] - 1) * Weight(t) \in Int
      <3>1. served'[u] - 1 \in Int
        BY <1>4 DEF TypeOK
      <3> QED BY <1>7, <2>1, <3>1, SMT
    <2> QED BY <2>2, <2>3, <2>4, <2>5, SMT
  <1> QED BY <1>5, <1>6, <1>8, <1>9

\* A step that changes nothing.
LEMMA StutterKeepsInv == ASSUME FairInv, UNCHANGED fairVars PROVE FairInv'
  <1>1. UNCHANGED <<order, queues, served, selected, since, steady>>
    BY DEF fairVars, vars
  <1> QED BY <1>1 DEF FairInv, FairTypeOK, TypeOK, Ordered, Known, CatchUpBound,
                      SteadyShare, Weight

\* Every reachable state satisfies the inductive invariant.
THEOREM FairInvariant == FairSpec => []FairInv
  <1>1. FairInv /\ [FairNext]_fairVars => FairInv'
    <2> SUFFICES ASSUME FairInv, [FairNext]_fairVars PROVE FairInv'
      OBVIOUS
    <2>1. CASE \E r \in Requests : FairEnqueue(r)
      BY <2>1, EnqueueKeepsInv
    <2>2. CASE \E i \in 1..Len(order) : FairSelect(i)
      BY <2>2, SelectKeepsInv
    <2>3. CASE UNCHANGED fairVars
      BY <2>3, StutterKeepsInv
    <2> QED BY <2>1, <2>2, <2>3 DEF FairNext
  <1> QED BY <1>1, FairInvInit, PTL DEF FairSpec

\* The state of the policy and of its history is well typed: in particular
\* enqueue() and select_next() keep every tenant's queue a sequence of requests.
THEOREM FairTypeCorrect == FairSpec => []FairTypeOK
  <1>1. FairInv => FairTypeOK
    BY DEF FairInv
  <1> QED BY <1>1, FairInvariant, PTL

\* No tenant starves another: while a head of t waits, u is served only until
\* its served / weight has passed t's (dispatcher_wrr.py:45-51).
THEOREM CatchUpBounded == FairSpec => []CatchUpBound
  <1>1. FairInv => CatchUpBound
    BY DEF FairInv
  <1> QED BY <1>1, FairInvariant, PTL

\* A tenant that always waits gets its weighted share, to within one request
\* of each other tenant (dispatcher_wrr.py:11-13).
THEOREM SteadyTenantsShare == FairSpec => []SteadyShare
  <1>1. FairInv => SteadyShare
    BY DEF FairInv
  <1> QED BY <1>1, FairInvariant, PTL
-----------------------------------------------------------------------------
\* The places the scan looks at: their tenants have a request queued.
Candidates == {i \in 1..Len(order) : queues[order[i]] # <<>>}

\* The scan would take j before i.
Better(j, i) ==
  \/ RatioBelow(order[j], order[i])
  \/ RatioAtMost(order[j], order[i]) /\ j < i

Ahead(i) == {j \in Candidates : Better(j, i)}

\* A product of two naturals, and its order when both are multiplied.
LEMMA Multiplied ==
  ASSUME NEW a \in Nat, NEW b \in Nat, NEW q \in Nat
  PROVE  a * q \in Nat /\ (a <= b => a * q <= b * q)
  BY SMT

\* A positive factor can be cancelled.
LEMMA Cancelled ==
  ASSUME NEW a \in Nat, NEW b \in Nat, NEW q \in Nat \ {0}, a * q <= b * q
  PROVE  a <= b
  <1> SUFFICES ASSUME b + 1 <= a PROVE FALSE
    OBVIOUS
  <1>1. (b + 1) * q <= a * q
    BY Multiplied
  <1>2. (b + 1) * q = b * q + q
    BY SMT
  <1> QED BY <1>1, <1>2, Multiplied

\* Three factors in another order.
LEMMA Reordered ==
  ASSUME NEW a \in Nat, NEW b \in Nat, NEW c \in Nat PROVE (a * b) * c = (a * c) * b
  BY SMT

\* Comparing a/x, b/y and c/z by cross-multiplication is transitive.
LEMMA CrossTransitive ==
  ASSUME NEW a \in Nat, NEW b \in Nat, NEW c \in Nat,
         NEW x \in Nat \ {0}, NEW y \in Nat \ {0}, NEW z \in Nat \ {0},
         a * y <= b * x, b * z <= c * y
  PROVE  a * z <= c * x
  <1>1. /\ a * y \in Nat /\ b * x \in Nat /\ b * z \in Nat /\ c * y \in Nat
        /\ a * z \in Nat /\ c * x \in Nat
    BY Multiplied
  <1>2. (a * y) * z <= (b * x) * z
    BY <1>1, Multiplied
  <1>3. (b * z) * x <= (c * y) * x
    BY <1>1, Multiplied
  <1>4. /\ (a * y) * z = (a * z) * y
        /\ (b * x) * z = (b * z) * x
        /\ (c * y) * x = (c * x) * y
    BY Reordered
  <1>5. /\ (a * y) * z \in Nat /\ (b * x) * z \in Nat /\ (c * y) * x \in Nat
    BY <1>1, Multiplied
  <1>6. (a * z) * y <= (c * x) * y
    BY <1>2, <1>3, <1>4, <1>5
  <1> QED BY <1>1, <1>6, Cancelled

\* The same when one of the two comparisons is strict.
LEMMA CrossStrict ==
  ASSUME NEW a \in Nat, NEW b \in Nat, NEW c \in Nat,
         NEW x \in Nat \ {0}, NEW y \in Nat \ {0}, NEW z \in Nat \ {0},
         a * y <= b * x, b * z <= c * y, a * y < b * x \/ b * z < c * y
  PROVE  a * z < c * x
  <1>1. /\ a * y \in Nat /\ b * x \in Nat /\ b * z \in Nat /\ c * y \in Nat
        /\ a * z \in Nat /\ c * x \in Nat
    BY Multiplied
  <1> SUFFICES ASSUME c * x <= a * z PROVE FALSE
    BY <1>1
  <1>2. b * x <= a * y
    <2>1. c * x <= a * z /\ b * z <= c * y
      OBVIOUS
    <2> QED BY <2>1, CrossTransitive
  <1>3. c * y <= b * z
    <2>1. c * x <= a * z /\ a * y <= b * x
      OBVIOUS
    <2> QED BY <2>1, CrossTransitive
  <1> QED BY <1>1, <1>2, <1>3

\* The scan's preference is a strict order in which any two places compare.
LEMMA BetterOrders ==
  ASSUME FairInv, NEW i \in 1..Len(order), NEW j \in 1..Len(order), NEW k \in 1..Len(order)
  PROVE  /\ ~ Better(i, i)
         /\ Better(i, j) /\ Better(j, k) => Better(i, k)
         /\ Better(i, j) => ~ Better(j, i)
         /\ i # j => Better(i, j) \/ Better(j, i)
  <1> DEFINE s(m) == served[order[m]]
             w(m) == Weight(order[m])
  <1>1. \A m \in 1..Len(order) : s(m) \in Nat /\ w(m) \in Nat \ {0}
    <2>1. \A m \in 1..Len(order) : order[m] \in Tenants
      BY DEF FairInv, FairTypeOK, TypeOK
    <2>2. \A t \in Tenants : served[t] \in Nat
      BY DEF FairInv, FairTypeOK, TypeOK
    <2> QED BY <2>1, <2>2, WeightPositive
  <1>2. \A m, n \in 1..Len(order) :
          Better(m, n) <=> s(m) * w(n) < s(n) * w(m) \/ (s(m) * w(n) <= s(n) * w(m) /\ m < n)
    <2> SUFFICES ASSUME NEW m \in 1..Len(order), NEW n \in 1..Len(order)
                 PROVE  Better(m, n) <=>
                          \/ s(m) * w(n) < s(n) * w(m)
                          \/ s(m) * w(n) <= s(n) * w(m) /\ m < n
      OBVIOUS
    <2>1. RatioBelow(order[m], order[n]) <=> s(m) * w(n) < s(n) * w(m)
      BY DEF RatioBelow
    <2>2. RatioAtMost(order[m], order[n]) <=> s(m) * w(n) <= s(n) * w(m)
      BY DEF RatioAtMost
    <2> QED BY <2>1, <2>2 DEF Better
  <1> HIDE DEF s, w
  <1>3. \A m, n \in 1..Len(order) : s(m) * w(n) \in Nat
    BY <1>1, Multiplied
  <1>4. ASSUME Better(i, j), Better(j, k) PROVE Better(i, k)
    <2>1. s(i) * w(j) <= s(j) * w(i) /\ s(j) * w(k) <= s(k) * w(j)
      BY <1>2, <1>3, <1>4
    <2>2. CASE s(i) * w(j) < s(j) * w(i) \/ s(j) * w(k) < s(k) * w(j)
      <3>1. s(i) * w(k) < s(k) * w(i)
        BY <1>1, <2>1, <2>2, CrossStrict
      <3> QED BY <1>2, <3>1
    <2>3. CASE i < j /\ j < k
      <3>1. s(i) * w(k) <= s(k) * w(i)
        BY <1>1, <2>1, CrossTransitive
      <3> QED BY <1>2, <2>3, <3>1
    <2> QED BY <1>2, <1>4, <2>2, <2>3
  <1> QED BY <1>2, <1>3, <1>4

\* Of the candidates one is preferred to all others.
LEMMA ScanEnds ==
  ASSUME FairInv, Candidates # {}
  PROVE  \E i \in Candidates : \A j \in Candidates : ~ Better(j, i)
  <1>1. IsFiniteSet(Candidates) /\ Candidates \subseteq 1..Len(order)
    <2>1. Len(order) \in Nat
      BY DEF FairInv, FairTypeOK, TypeOK
    <2>2. IsFiniteSet(1..Len(order))
      BY <2>1, FS_Interval
    <2> QED BY <2>2, FS_Subset DEF Candidates
  <1> DEFINE R == StrictSubsetOrdering(Candidates)
             T == {Ahead(i) : i \in Candidates}
  <1>2. IsWellFoundedOn(R, SUBSET Candidates)
    BY <1>1, FS_StrictSubsetOrderingWellFounded, FS_FiniteSubsetsOfFinite
  <1>3. T \subseteq SUBSET Candidates /\ T # {}
    BY DEF Ahead
  <1>4. \E X \in T : \A Y \in T : <<Y, X>> \notin R
    <2> HIDE DEF T, R
    <2> QED BY <1>2, <1>3, WFMin
  <1>5. PICK i \in Candidates : \A j \in Candidates : <<Ahead(j), Ahead(i)>> \notin R
    BY <1>4
  <1>6. ASSUME NEW j \in Candidates, Better(j, i) PROVE FALSE
    <2>1. Ahead(j) \subseteq Ahead(i)
      BY <1>1, <1>6, BetterOrders DEF Ahead
    <2>2. j \in Ahead(i) /\ j \notin Ahead(j)
      BY <1>1, <1>6, BetterOrders DEF Ahead
    <2>3. <<Ahead(j), Ahead(i)>> \in R
      BY <1>3, <2>1, <2>2 DEF StrictSubsetOrdering
    <2> QED BY <1>5, <2>3
  <1> QED BY <1>6

\* select_next() raises only when nothing is queued: whenever a request waits,
\* the scan over _order (dispatcher_wrr.py) finds a winner, and one only.
THEOREM ScanFinds == FairSpec => []ScanFindsOne
  <1>1. FairInv => ScanFindsOne
    <2> SUFFICES ASSUME FairInv, Policy!Backlogged # {}
                 PROVE  \E i \in 1..Len(order) :
                          IsBest(i) /\ \A j \in 1..Len(order) : IsBest(j) => j = i
      BY DEF ScanFindsOne
    <2>1. Candidates # {}
      <3>1. PICK t \in Tenants : queues[t] # <<>>
        BY DEF Policy!Backlogged
      <3> QED BY <3>1 DEF FairInv, Ordered, Known, Candidates
    <2>2. PICK i \in Candidates : \A j \in Candidates : ~ Better(j, i)
      BY <2>1, ScanEnds
    <2>3. \A m \in 1..Len(order) :
            IsBest(m) <=> m \in Candidates /\ \A j \in Candidates : Better(m, j) \/ m = j
      <3> SUFFICES ASSUME NEW m \in 1..Len(order)
                   PROVE  IsBest(m) <=>
                            m \in Candidates /\ \A j \in Candidates : Better(m, j) \/ m = j
        OBVIOUS
      <3>1. \A j \in 1..Len(order) :
              (RatioBelow(order[m], order[j]) \/ (RatioAtMost(order[m], order[j]) /\ m <= j))
                <=> (Better(m, j) \/ m = j)
        <4>1. RatioAtMost(order[m], order[m])
          <5>1. served[order[m]] \in Nat /\ Weight(order[m]) \in Nat
            BY WeightPositive DEF FairInv, FairTypeOK, TypeOK
          <5> QED BY <5>1, Multiplied DEF RatioAtMost
        <4> QED BY <4>1 DEF Better
      <3> QED BY <3>1 DEF IsBest, Candidates
    <2>4. \A j \in Candidates : Better(i, j) \/ i = j
      BY <2>2, BetterOrders DEF Candidates
    <2>5. IsBest(i) /\ i \in 1..Len(order)
      BY <2>3, <2>4 DEF Candidates
    <2>6. \A j \in 1..Len(order) : IsBest(j) => j = i
      BY <2>2, <2>3
    <2> QED BY <2>5, <2>6
  <1> QED BY <1>1, FairInvariant, PTL
-----------------------------------------------------------------------------
\* A line holds only requests of its tenant.
OwnLines == \A t \in Tenants : \A i \in 1..Len(queues[t]) : TenantOf[queues[t][i]] = t

\* Arrivals join their tenant's line, and a head leaves it.
LEMMA OwnLinesInvariant == FairSpec => []OwnLines
  <1>1. FairInit => OwnLines
    BY DEF FairInit, Init, OwnLines
  <1>2. FairInv /\ OwnLines /\ [FairNext]_fairVars => OwnLines'
    <2> SUFFICES ASSUME FairInv, OwnLines, [FairNext]_fairVars PROVE OwnLines'
      OBVIOUS
    <2>1. queues \in [Tenants -> Seq(Requests)]
      BY DEF FairInv, FairTypeOK, TypeOK
    <2>2. ASSUME NEW r \in Requests, FairEnqueue(r) PROVE OwnLines'
      <3>1. queues' = [queues EXCEPT ![TenantOf[r]] = Append(@, r)]
        BY <2>2 DEF FairEnqueue, Enqueue
      <3> SUFFICES ASSUME NEW t \in Tenants, NEW i \in 1..Len(queues'[t])
                   PROVE  TenantOf[queues'[t][i]] = t
        BY DEF OwnLines
      <3>2. queues[t] \in Seq(Requests)
        BY <2>1
      <3>3. CASE t = TenantOf[r]
        <4>1. queues'[t] = Append(queues[t], r)
          BY <2>1, <3>1, <3>3
        <4>2. \/ i \in 1..Len(queues[t]) /\ queues'[t][i] = queues[t][i]
              \/ queues'[t][i] = r
          BY <3>2, <4>1
        <4> QED BY <3>3, <4>2 DEF OwnLines
      <3>4. CASE t # TenantOf[r]
        BY <2>1, <3>1, <3>4 DEF OwnLines
      <3> QED BY <3>3, <3>4
    <2>3. ASSUME NEW j \in 1..Len(order), FairSelect(j) PROVE OwnLines'
      <3>1. queues' = [queues EXCEPT ![order[j]] = Tail(@)] /\ queues[order[j]] # <<>>
        BY <2>3 DEF FairSelect, Serve, IsBest
      <3> SUFFICES ASSUME NEW t \in Tenants, NEW i \in 1..Len(queues'[t])
                   PROVE  TenantOf[queues'[t][i]] = t
        BY DEF OwnLines
      <3>2. queues[t] \in Seq(Requests)
        BY <2>1
      <3>3. CASE t = order[j]
        <4>1. queues'[t] = Tail(queues[t]) /\ queues[t] # <<>>
          BY <2>1, <3>1, <3>3
        <4>2. i + 1 \in 1..Len(queues[t]) /\ queues'[t][i] = queues[t][i + 1]
          BY <3>2, <4>1
        <4> QED BY <4>2 DEF OwnLines
      <3>4. CASE t # order[j]
        BY <2>1, <3>1, <3>4 DEF OwnLines
      <3> QED BY <3>3, <3>4
    <2>4. CASE UNCHANGED fairVars
      BY <2>4 DEF fairVars, vars, OwnLines
    <2> QED BY <2>2, <2>3, <2>4 DEF FairNext
  <1> QED BY <1>1, <1>2, FairInvariant, PTL DEF FairSpec

\* WRR is a policy: select_next() takes one request from the front of its own
\* tenant's line, and enqueue() puts one at the end of it.
THEOREM ImplementsPolicy == FairSpec => Policy!Spec
  <1>1. FairInit => Policy!Init
    BY DEF FairInit, Init, Policy!Init
  <1>2. FairInv /\ OwnLines /\ [FairNext]_fairVars => [Policy!Next]_(Policy!policyVars)
    <2> SUFFICES ASSUME FairInv, OwnLines, [FairNext]_fairVars
                 PROVE  Policy!Next \/ UNCHANGED <<queues, selected>>
      BY DEF Policy!policyVars
    <2>1. ASSUME NEW r \in Requests, FairEnqueue(r) PROVE Policy!Next
      BY <2>1 DEF FairEnqueue, Enqueue, Policy!Next, Policy!Enqueue
    <2>2. ASSUME NEW j \in 1..Len(order), FairSelect(j) PROVE Policy!Next
      <3> DEFINE t == order[j]
                 r == Head(queues[t])
      <3>1. /\ queues[t] # <<>> /\ queues' = [queues EXCEPT ![t] = Tail(@)]
            /\ selected' = Append(selected, r)
        BY <2>2 DEF FairSelect, IsBest, Serve
      <3>2. t \in Tenants
        BY DEF FairInv, FairTypeOK, TypeOK
      <3>3. queues[t] \in Seq(Requests)
        BY <3>2 DEF FairInv, FairTypeOK, TypeOK
      <3>4. r \in Requests /\ r = queues[t][1] /\ 1 \in 1..Len(queues[t])
        BY <3>1, <3>3
      <3>5. TenantOf[r] = t
        BY <3>2, <3>4 DEF OwnLines
      <3> HIDE DEF r
      <3>6. Policy!Select(r)
        BY <3>1, <3>2, <3>5 DEF Policy!Select, Policy!Backlogged, r
      <3> QED BY <3>4, <3>6 DEF Policy!Next
    <2>3. CASE UNCHANGED fairVars
      BY <2>3 DEF fairVars, vars
    <2> QED BY <2>1, <2>2, <2>3 DEF FairNext
  <1> QED BY <1>1, <1>2, FairInvariant, OwnLinesInvariant, PTL DEF FairSpec, Policy!Spec
=============================================================================
