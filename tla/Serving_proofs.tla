---------------------------- MODULE Serving_proofs ----------------------------
(***************************************************************************)
(* Proofs about the gateway's scheduler over the policies it can be built  *)
(* with: whichever it is, the threads above it are the AsyncDispatcher,    *)
(* and what is proved of that one holds.                                   *)
(*                                                                         *)
(* Under wrr and drr the lines of AdmissionPolicy are the tenants' queues; *)
(* under fifo they are the tenants' parts of the one line, and what these  *)
(* are when a request comes or leaves is proved first.  The invariant of   *)
(* AsyncDispatcher is the induction hypothesis: it says that a queue holds *)
(* its own tenant's requests.                                              *)
(***************************************************************************)
EXTENDS Serving, SequenceTheorems, WellFoundedInduction, TLAPS

ByTenant == INSTANCE AsyncDispatcher_proofs WITH pending <- Pending

\* What _rr_order and _order hold: tenants, every one with a queue of WRR's.
VisitingOrders ==
  /\ order \in Seq(Tenants)
  /\ \A t \in Tenants : queues[t] # <<>> => \E i \in 1..Len(order) : order[i] = t
  /\ rrOrder \in Seq(Tenants) \ {<<>>}
  /\ rrIndex \in 0..(Len(rrOrder) - 1)

\* FIFO: what has arrived is what was selected, and then what waits.
Arrivals ==
  /\ line \in Seq(Requests) /\ arrived \in Seq(Requests)
  /\ Len(arrived) = Len(selected) + Len(line)
  /\ \A i \in 1..Len(selected) : arrived[i] = selected[i]
  /\ \A i \in 1..Len(line) : arrived[Len(selected) + i] = line[i]

PolicyInv ==
  /\ cfg \in Configs
  /\ VisitingOrders
  /\ Uses("fifo") => Arrivals
  /\ ByTenant!IInv
-----------------------------------------------------------------------------
\* What AsyncDispatcher assumes of its constants.

LEMMA DispatcherAssumed ==
  /\ TenantOf \in [Requests -> Tenants]
  /\ ModelOf \in [Requests -> Models]
  /\ ByTenant!IsFiniteSet(Requests)
  /\ NoModel \notin Models
  /\ NoRequest \notin Requests
  /\ MaxConcurrency \in Nat \ {0}
  /\ Impatient \subseteq Requests
  /\ WaitOnClose \in BOOLEAN
  <1>1. ByTenant!IsFiniteSet(Requests)
    BY ServingAssumption DEF ByTenant!IsFiniteSet, IsFiniteSet
  <1> QED BY <1>1, ServingAssumption

\* SCHEDULER_MODE was one of the three, or nothing was built.
LEMMA ModeKnown == ASSUME cfg \in Configs PROVE Uses("fifo") \/ Uses("wrr") \/ Uses("drr")
  BY DEF Configs, Builds, from_env, Uses

\* Where the lines are, by policy; and in the next state.
LEMMA PendingIs ==
  /\ Uses("fifo") => Pending = [t \in Tenants |-> PartOf(line, t)]
  /\ Uses("wrr") => Pending = queues
  /\ Uses("drr") => Pending = queue
  BY DEF Uses, Pending

LEMMA PendingNext ==
  ASSUME UNCHANGED cfg
  PROVE  /\ Uses("fifo") => Pending' = [t \in Tenants |-> PartOf(line', t)]
         /\ Uses("wrr") => Pending' = queues'
         /\ Uses("drr") => Pending' = queue'
  BY DEF Uses, Pending
-----------------------------------------------------------------------------
\* A tenant's part of FIFO's line.

\* A set of naturals has a least element.
LEMMA LeastNat == ASSUME NEW S \in SUBSET Nat, S # {} PROVE \E m \in S : \A n \in S : m <= n
  <1> DEFINE R == OpToRel(<, Nat)
  <1>1. IsWellFoundedOn(R, Nat)
    BY NatLessThanWellFounded
  <1>2. \E m \in S : \A n \in S : <<n, m>> \notin R
    <2> HIDE DEF R
    <2> QED BY <1>1, WFMin
  <1>3. \A m, n \in Nat : <<n, m>> \notin R => m <= n
    BY DEF OpToRel
  <1> QED BY <1>2, <1>3

\* Induction: a set that has 0 and the successor of what it has is Nat.
LEMMA InductiveSet ==
  ASSUME NEW P \in SUBSET Nat, 0 \in P, \A n \in P : n + 1 \in P
  PROVE  P = Nat
  <1> SUFFICES ASSUME Nat \ P # {} PROVE FALSE
    OBVIOUS
  <1>1. PICK m \in Nat \ P : \A n \in Nat \ P : m <= n
    BY LeastNat
  <1>2. m - 1 \in Nat
    BY <1>1
  <1>3. m - 1 \in P
    BY <1>1, <1>2
  <1> QED BY <1>1, <1>2, <1>3

\* One request more: what a tenant's part becomes.
PartWith(part, r, t) == IF TenantOf[r] = t THEN Append(part, r) ELSE part

\* What PartOf() has put together after each request of s.
PartsOf(s, t, part) ==
  part = [i \in 0..Len(s) |-> IF i = 0 THEN <<>> ELSE PartWith(part[i - 1], s[i], t)]

\* The recursion of PartOf() has a solution.
LEMMA PartsDefined ==
  ASSUME NEW s, NEW t, Len(s) \in Nat PROVE \E part : PartsOf(s, t, part)
  <1> DEFINE At(g, i) == IF i = 0 THEN <<>> ELSE PartWith(g[i - 1], s[i], t)
             P == {n \in Nat : \E g : g = [i \in 0..n |-> At(g, i)]}
  <1>1. 0 \in P
    <2> DEFINE g == [i \in 0..0 |-> <<>>]
    <2>1. g = [i \in 0..0 |-> At(g, i)]
      OBVIOUS
    <2> HIDE DEF g
    <2> QED BY <2>1
  <1>2. ASSUME NEW n \in P PROVE n + 1 \in P
    <2>1. PICK g : g = [i \in 0..n |-> At(g, i)]
      OBVIOUS
    <2> DEFINE h == [i \in 0..(n + 1) |-> At(g, i)]
    <2>0. n \in Nat
      OBVIOUS
    <2>2. \A i \in 0..n : h[i] = g[i]
      <3> HIDE DEF At, P
      <3>1. \A i \in 0..n : g[i] = At(g, i)
        BY <2>1
      <3> QED BY <3>1, <2>0
    <2>3. ASSUME NEW i \in 0..(n + 1) PROVE h[i] = At(h, i)
      <3>1. n \in Nat /\ h[i] = At(g, i)
        OBVIOUS
      <3>2. i # 0 => h[i - 1] = g[i - 1]
        <4> HIDE DEF h, P
        <4> QED BY <2>0, <2>2
      <3> HIDE DEF h
      <3> QED BY <3>1, <3>2
    <2>4. h = [i \in 0..(n + 1) |-> At(h, i)]
      <3>1. h = [i \in 0..(n + 1) |-> h[i]]
        OBVIOUS
      <3> HIDE DEF h, At
      <3> QED BY <2>3, <3>1
    <2>5. \E w : w = [i \in 0..(n + 1) |-> At(w, i)]
      <3> HIDE DEF h, At
      <3> QED BY <2>4
    <2> HIDE DEF h, At
    <2> QED BY <2>5
  <1>3. P = Nat
    <2> HIDE DEF P
    <2>1. P \in SUBSET Nat
      BY DEF P
    <2> QED BY <1>1, <1>2, <2>1, InductiveSet
  <1> QED BY <1>3 DEF PartsOf

\* A tenant's part is what has been put together in the end.
LEMMA PartIs ==
  ASSUME NEW s, NEW t, Len(s) \in Nat
  PROVE  \E part : PartsOf(s, t, part) /\ PartOf(s, t) = part[Len(s)]
  <1> DEFINE part == CHOOSE f : PartsOf(s, t, f)
  <1>1. PartsOf(s, t, part)
    BY PartsDefined
  <1>2. PartOf(s, t) = part[Len(s)]
    BY DEF PartOf, PartsOf, PartWith
  <1> HIDE DEF part
  <1> QED BY <1>1, <1>2

\* Step by step: nothing at first, then one request more.
LEMMA PartSteps ==
  ASSUME NEW s, NEW t, NEW part, Len(s) \in Nat, PartsOf(s, t, part)
  PROVE  /\ part[0] = <<>>
         /\ \A i \in 0..(Len(s) - 1) : part[i + 1] = PartWith(part[i], s[i + 1], t)
  <1>1. \A i \in 0..Len(s) : part[i] = IF i = 0 THEN <<>> ELSE PartWith(part[i - 1], s[i], t)
    <2> HIDE DEF PartWith
    <2> QED BY DEF PartsOf
  <1>2. ASSUME NEW i \in 0..(Len(s) - 1) PROVE part[i + 1] = PartWith(part[i], s[i + 1], t)
    <2>1. i + 1 \in 0..Len(s) /\ i + 1 # 0 /\ (i + 1) - 1 = i
      OBVIOUS
    <2> QED BY <1>1, <2>1
  <1> QED BY <1>1, <1>2

\* Nobody in the line, nobody in a part.
LEMMA PartEmpty == ASSUME NEW t PROVE PartOf(<<>>, t) = <<>>
  <1> DEFINE s == <<>>
  <1>1. Len(s) = 0
    OBVIOUS
  <1> HIDE DEF s
  <1>2. Len(s) \in Nat
    BY <1>1
  <1>3. PICK part : PartsOf(s, t, part) /\ PartOf(s, t) = part[Len(s)]
    BY <1>2, PartIs
  <1>4. part[0] = <<>>
    BY <1>2, <1>3, PartSteps
  <1>5. PartOf(s, t) = <<>>
    BY <1>1, <1>3, <1>4
  <1> QED BY <1>5 DEF s

\* A part has requests only, and each of its tenant's.
LEMMA PartHas ==
  ASSUME NEW s \in Seq(Requests), NEW t
  PROVE  /\ PartOf(s, t) \in Seq(Requests)
         /\ \A i \in 1..Len(s) : TenantOf[s[i]] = t =>
              \E k \in 1..Len(PartOf(s, t)) : PartOf(s, t)[k] = s[i]
  <1>1. PICK part : PartsOf(s, t, part) /\ PartOf(s, t) = part[Len(s)]
    BY PartIs
  <1>2. /\ part[0] = <<>>
        /\ \A i \in 0..(Len(s) - 1) : part[i + 1] = PartWith(part[i], s[i + 1], t)
    BY <1>1, PartSteps
  <1> DEFINE Has(n) == /\ part[n] \in Seq(Requests)
                       /\ \A i \in 1..n : TenantOf[s[i]] = t =>
                            \E k \in 1..Len(part[n]) : part[n][k] = s[i]
             P == {n \in Nat : n <= Len(s) => Has(n)}
  <1>3. 0 \in P
    <2>1. <<>> \in Seq(Requests) /\ 1..0 = {}
      OBVIOUS
    <2>2. Has(0)
      BY <1>2, <2>1
    <2> HIDE DEF Has
    <2> QED BY <2>2
  <1>4. ASSUME NEW n \in P PROVE n + 1 \in P
    <2> SUFFICES ASSUME n + 1 <= Len(s) PROVE Has(n + 1)
      OBVIOUS
    <2>1. n \in Nat /\ Has(n) /\ s[n + 1] \in Requests /\ n \in 0..(Len(s) - 1)
      OBVIOUS
    <2>2. part[n + 1] = PartWith(part[n], s[n + 1], t)
      BY <1>2, <2>1
    <2> DEFINE new == part[n + 1]
    <2>3. new \in Seq(Requests)
      BY <2>1, <2>2 DEF PartWith
    <2>4. \A k \in 1..Len(part[n]) : k \in 1..Len(new) /\ new[k] = part[n][k]
      BY <2>1, <2>2 DEF PartWith
    <2>5. TenantOf[s[n + 1]] = t => Len(new) \in 1..Len(new) /\ new[Len(new)] = s[n + 1]
      BY <2>1, <2>2 DEF PartWith
    <2>6. ASSUME NEW i \in 1..(n + 1), TenantOf[s[i]] = t
          PROVE  \E k \in 1..Len(new) : new[k] = s[i]
      <3>1. CASE i = n + 1
        BY <2>5, <2>6, <3>1
      <3>2. CASE i # n + 1
        <4>1. i \in 1..n
          BY <2>1, <3>2
        <4>2. PICK k \in 1..Len(part[n]) : part[n][k] = s[i]
          BY <2>1, <2>6, <4>1
        <4> HIDE DEF new
        <4> QED BY <2>4, <4>2
      <3> QED BY <3>1, <3>2
    <2> QED BY <2>3, <2>6
  <1>5. P = Nat
    <2>1. P \in SUBSET Nat
      OBVIOUS
    <2> HIDE DEF P
    <2> QED BY <1>3, <1>4, <2>1, InductiveSet
  <1>6. Has(Len(s))
    <2>1. Len(s) \in Nat /\ Len(s) <= Len(s)
      OBVIOUS
    <2> HIDE DEF Has
    <2> QED BY <1>5, <2>1
  <1> QED BY <1>1, <1>6

\* One request more at the end of the line.
LEMMA PartAppend ==
  ASSUME NEW s \in Seq(Requests), NEW r \in Requests, NEW t
  PROVE  PartOf(Append(s, r), t) = PartWith(PartOf(s, t), r, t)
  <1> DEFINE u == Append(s, r)
  <1>0. /\ Len(s) \in Nat /\ Len(u) = Len(s) + 1 /\ u[Len(s) + 1] = r
        /\ \A i \in 1..Len(s) : u[i] = s[i]
    OBVIOUS
  <1> HIDE DEF u
  <1>1. PICK old : PartsOf(s, t, old) /\ PartOf(s, t) = old[Len(s)]
    BY <1>0, PartIs
  <1>2. PICK new : PartsOf(u, t, new) /\ PartOf(u, t) = new[Len(u)]
    BY <1>0, PartIs
  <1>3. /\ old[0] = <<>> /\ new[0] = <<>>
        /\ \A i \in 0..(Len(s) - 1) : old[i + 1] = PartWith(old[i], s[i + 1], t)
        /\ \A i \in 0..(Len(u) - 1) : new[i + 1] = PartWith(new[i], u[i + 1], t)
    BY <1>0, <1>1, <1>2, PartSteps
  <1> DEFINE P == {n \in Nat : n <= Len(s) => new[n] = old[n]}
  <1>4. 0 \in P
    BY <1>3
  <1>5. ASSUME NEW n \in P PROVE n + 1 \in P
    <2> SUFFICES ASSUME n + 1 <= Len(s) PROVE new[n + 1] = old[n + 1]
      OBVIOUS
    <2>1. /\ n \in 0..(Len(s) - 1) /\ n \in 0..(Len(u) - 1) /\ n + 1 \in 1..Len(s)
          /\ new[n] = old[n]
      BY <1>0
    <2> QED BY <1>0, <1>3, <2>1
  <1>6. P = Nat
    <2>1. P \in SUBSET Nat
      OBVIOUS
    <2> HIDE DEF P
    <2> QED BY <1>4, <1>5, <2>1, InductiveSet
  <1>7. new[Len(s)] = old[Len(s)]
    BY <1>0, <1>6
  <1>8. new[Len(s) + 1] = PartWith(new[Len(s)], u[Len(s) + 1], t)
    BY <1>0, <1>3
  <1>9. PartOf(u, t) = PartWith(PartOf(s, t), r, t)
    BY <1>0, <1>1, <1>2, <1>7, <1>8
  <1> QED BY <1>9 DEF u

\* The front of the line is the front of its tenant's part.
LEMMA PartTail ==
  ASSUME NEW s \in Seq(Requests), s # <<>>, NEW t
  PROVE  IF TenantOf[Head(s)] = t
         THEN PartOf(s, t) # <<>> /\ Head(PartOf(s, t)) = Head(s)
              /\ Tail(PartOf(s, t)) = PartOf(Tail(s), t)
         ELSE PartOf(s, t) = PartOf(Tail(s), t)
  <1> DEFINE rest == Tail(s)
  <1>0. /\ Len(s) \in Nat \ {0} /\ Len(rest) = Len(s) - 1 /\ rest \in Seq(Requests)
        /\ \A i \in 1..Len(rest) : rest[i] = s[i + 1]
        /\ Head(s) = s[1] /\ s[1] \in Requests
    OBVIOUS
  <1> HIDE DEF rest
  <1>1. PICK all : PartsOf(s, t, all) /\ PartOf(s, t) = all[Len(s)]
    BY <1>0, PartIs
  <1>2. PICK most : PartsOf(rest, t, most) /\ PartOf(rest, t) = most[Len(rest)]
    BY <1>0, PartIs
  <1>3. /\ all[0] = <<>> /\ most[0] = <<>>
        /\ \A i \in 0..(Len(s) - 1) : all[i + 1] = PartWith(all[i], s[i + 1], t)
        /\ \A i \in 0..(Len(rest) - 1) : most[i + 1] = PartWith(most[i], rest[i + 1], t)
    BY <1>0, <1>1, <1>2, PartSteps
  <1> DEFINE Behind(more, less) ==
               /\ more \in Seq(Requests)
               /\ IF TenantOf[Head(s)] = t
                  THEN more # <<>> /\ Head(more) = Head(s) /\ Tail(more) = less
                  ELSE more = less
             P == {n \in Nat : n <= Len(rest) => Behind(all[n + 1], most[n])}
  <1>4. 0 \in P
    <2>0. 0 \in 0..(Len(s) - 1)
      BY <1>0
    <2>1. all[0 + 1] = PartWith(all[0], s[0 + 1], t)
      BY <1>3, <2>0
    <2>2. all[1] = PartWith(<<>>, Head(s), t)
      BY <1>0, <1>3, <2>1
    <2>3. Behind(all[1], most[0])
      <3>1. CASE TenantOf[Head(s)] = t
        <4>1. all[1] = <<Head(s)>>
          BY <2>2, <3>1 DEF PartWith
        <4> QED BY <1>0, <1>3, <3>1, <4>1
      <3>2. CASE TenantOf[Head(s)] # t
        BY <1>3, <2>2, <3>2 DEF PartWith
      <3> QED BY <3>1, <3>2
    <2> HIDE DEF Behind
    <2> QED BY <2>3
  <1>5. ASSUME NEW n \in P PROVE n + 1 \in P
    <2> SUFFICES ASSUME n + 1 <= Len(rest) PROVE Behind(all[(n + 1) + 1], most[n + 1])
      OBVIOUS
    <2>1. /\ n \in 0..(Len(rest) - 1) /\ n + 1 \in 0..(Len(s) - 1) /\ n + 1 \in 1..Len(rest)
          /\ Behind(all[n + 1], most[n])
      <3> HIDE DEF Behind
      <3> QED BY <1>0
    <2> DEFINE r == rest[n + 1]
    <2>2. r = s[(n + 1) + 1] /\ r \in Requests
      BY <1>0, <2>1
    <2>3. /\ most[n + 1] = PartWith(most[n], r, t)
          /\ all[(n + 1) + 1] = PartWith(all[n + 1], r, t)
      BY <1>3, <2>1, <2>2
    <2> HIDE DEF r
    <2> DEFINE x == all[n + 1]
               y == most[n]
    <2> HIDE DEF x, y
    <2>4. Behind(x, y)
      BY <2>1 DEF x, y
    <2>5. x # <<>> => /\ Head(Append(x, r)) = Head(x)
                      /\ Tail(Append(x, r)) = Append(Tail(x), r)
      BY <2>2, <2>4, HeadTailAppend
    <2>6. Append(x, r) \in Seq(Requests) /\ Append(x, r) # <<>>
      BY <2>2, <2>4, AppendProperties
    <2>7. Behind(PartWith(x, r, t), PartWith(y, r, t))
      BY <2>4, <2>5, <2>6 DEF PartWith
    <2> HIDE DEF Behind
    <2> QED BY <2>3, <2>7 DEF x, y
  <1>6. P = Nat
    <2>1. P \in SUBSET Nat
      OBVIOUS
    <2> HIDE DEF P
    <2> QED BY <1>4, <1>5, <2>1, InductiveSet
  <1>7. Behind(all[Len(rest) + 1], most[Len(rest)])
    <2>1. Len(rest) \in Nat /\ Len(rest) <= Len(rest)
      BY <1>0
    <2> HIDE DEF Behind
    <2> QED BY <1>6, <2>1
  <1>8. Len(rest) + 1 = Len(s)
    BY <1>0
  <1>9. Behind(PartOf(s, t), PartOf(rest, t))
    <2> HIDE DEF Behind
    <2> QED BY <1>1, <1>2, <1>7, <1>8
  <1> QED BY <1>9 DEF rest
-----------------------------------------------------------------------------
\* `Dispatcher' and `ByTenant' are one module under two names, the second with
\* its theorems: a step of the first is a step of the second.

LEMMA SameVars == UNCHANGED Dispatcher!vars => UNCHANGED ByTenant!vars
  BY DEF Dispatcher!vars, ByTenant!vars, Dispatcher!policyVars, ByTenant!policyVars,
         Dispatcher!residencyVars, ByTenant!residencyVars, Dispatcher!callerVars,
         ByTenant!callerVars, Dispatcher!schedVars, ByTenant!schedVars,
         Dispatcher!serveVars, ByTenant!serveVars

\* At the start.
LEMMA SameInit == Dispatcher!Init => ByTenant!Init
  BY DEF Dispatcher!Init, ByTenant!Init, Dispatcher!Policy!Init, ByTenant!Policy!Init,
         Dispatcher!Tracker!ResidencyInit, ByTenant!Tracker!ResidencyInit,
         Dispatcher!Untagged, ByTenant!Untagged

\* The scheduler thread.
LEMMA SameScheduler ==
  ASSUME Dispatcher!SchedulerStep PROVE ByTenant!SchedulerStep
  <1> USE DEF Dispatcher!Goto, ByTenant!Goto, Dispatcher!UnchangedBySched,
              ByTenant!UnchangedBySched, Dispatcher!policyVars, ByTenant!policyVars,
              Dispatcher!residencyVars, ByTenant!residencyVars, Dispatcher!callerVars,
              ByTenant!callerVars, Dispatcher!serveVars, ByTenant!serveVars,
              Dispatcher!Policy!Backlogged, ByTenant!Policy!Backlogged
  <1>1. Dispatcher!CheckStopped => ByTenant!CheckStopped
    BY DEF Dispatcher!CheckStopped, ByTenant!CheckStopped, Dispatcher!Stopped, ByTenant!Stopped
  <1>2. /\ Dispatcher!AcquireSlot => ByTenant!AcquireSlot
        /\ Dispatcher!ReleaseEmptySlot => ByTenant!ReleaseEmptySlot
    BY DEF Dispatcher!AcquireSlot, ByTenant!AcquireSlot, Dispatcher!ReleaseEmptySlot,
           ByTenant!ReleaseEmptySlot
  <1>3. ASSUME NEW r \in Requests PROVE Dispatcher!SelectRequest(r) => ByTenant!SelectRequest(r)
    BY DEF Dispatcher!SelectRequest, ByTenant!SelectRequest, Dispatcher!Policy!Select,
           ByTenant!Policy!Select
  <1>4. Dispatcher!SelectNothing => ByTenant!SelectNothing
    BY DEF Dispatcher!SelectNothing, ByTenant!SelectNothing, Dispatcher!Policy!NothingQueued,
           ByTenant!Policy!NothingQueued
  <1>5. /\ Dispatcher!BeginWait => ByTenant!BeginWait
        /\ Dispatcher!WaitTimesOut => ByTenant!WaitTimesOut
    BY DEF Dispatcher!BeginWait, ByTenant!BeginWait, Dispatcher!WaitTimesOut,
           ByTenant!WaitTimesOut
  <1>6. /\ Dispatcher!Submit => ByTenant!Submit
        /\ Dispatcher!SubmitRefused => ByTenant!SubmitRefused
    BY DEF Dispatcher!Submit, ByTenant!Submit, Dispatcher!SubmitRefused,
           ByTenant!SubmitRefused, Dispatcher!ExecutorDown, ByTenant!ExecutorDown
  <1> QED BY <1>1, <1>2, <1>3, <1>4, <1>5, <1>6
          DEF Dispatcher!SchedulerStep, ByTenant!SchedulerStep

\* dispatch() and its callers.
LEMMA SameCallers ==
  ASSUME NEW r \in Requests
  PROVE  /\ Dispatcher!Dispatch(r) => ByTenant!Dispatch(r)
         /\ Dispatcher!CallerReturns(r) => ByTenant!CallerReturns(r)
         /\ Dispatcher!CallerTimesOut(r) => ByTenant!CallerTimesOut(r)
  <1> USE DEF Dispatcher!policyVars, ByTenant!policyVars, Dispatcher!residencyVars,
              ByTenant!residencyVars, Dispatcher!schedVars, ByTenant!schedVars,
              Dispatcher!serveVars, ByTenant!serveVars
  <1>1. Dispatcher!Dispatch(r) => ByTenant!Dispatch(r)
    BY DEF Dispatcher!Dispatch, ByTenant!Dispatch, Dispatcher!Policy!Enqueue,
           ByTenant!Policy!Enqueue, Dispatcher!Notify, ByTenant!Notify
  <1>2. Dispatcher!CallerReturns(r) => ByTenant!CallerReturns(r)
    BY DEF Dispatcher!CallerReturns, ByTenant!CallerReturns
  <1>3. Dispatcher!CallerTimesOut(r) => ByTenant!CallerTimesOut(r)
    BY DEF Dispatcher!CallerTimesOut, ByTenant!CallerTimesOut
  <1> QED BY <1>1, <1>2, <1>3

\* The tasks in the pool.
LEMMA SameRunning ==
  /\ Dispatcher!InTask(Dispatcher!Running) = ByTenant!InTask(ByTenant!Running)
  /\ Dispatcher!Cardinality(Dispatcher!InTask(Dispatcher!Running))
       = ByTenant!Cardinality(ByTenant!InTask(ByTenant!Running))
  BY DEF Dispatcher!Cardinality, ByTenant!Cardinality, Dispatcher!InTask, ByTenant!InTask,
         Dispatcher!Running, ByTenant!Running

\* A thread of the pool takes a request, and serves it.
LEMMA SameStart == ASSUME Dispatcher!StartTask PROVE ByTenant!StartTask
  BY SameRunning
     DEF Dispatcher!StartTask, ByTenant!StartTask, Dispatcher!UnchangedByServe,
         ByTenant!UnchangedByServe, Dispatcher!policyVars, ByTenant!policyVars,
         Dispatcher!residencyVars, ByTenant!residencyVars, Dispatcher!schedVars,
         ByTenant!schedVars

LEMMA SameServe == ASSUME NEW r \in Requests, Dispatcher!Serve(r) PROVE ByTenant!Serve(r)
  <1> USE DEF Dispatcher!ServeStep, ByTenant!ServeStep, Dispatcher!UnchangedByServe,
              ByTenant!UnchangedByServe, Dispatcher!policyVars, ByTenant!policyVars,
              Dispatcher!residencyVars, ByTenant!residencyVars, Dispatcher!schedVars,
              ByTenant!schedVars, ByTenant!Serve
  <1>1. CASE Dispatcher!MarkResidency(r)
    BY <1>1 DEF Dispatcher!MarkResidency, ByTenant!MarkResidency, Dispatcher!Tracker!Classify,
                ByTenant!Tracker!Classify, Dispatcher!Tracker!Mark, ByTenant!Tracker!Mark
  <1>2. CASE Dispatcher!BackendReturns(r) \/ Dispatcher!BackendRaises(r)
    BY <1>2 DEF Dispatcher!BackendReturns, ByTenant!BackendReturns, Dispatcher!BackendRaises
  <1>3. CASE Dispatcher!ReleaseSlot(r)
    BY <1>3 DEF Dispatcher!ReleaseSlot, ByTenant!ReleaseSlot
  <1>4. CASE Dispatcher!PopFuture(r)
    BY <1>4 DEF Dispatcher!PopFuture, ByTenant!PopFuture
  <1>5. CASE Dispatcher!ResolveFuture(r)
    BY <1>5 DEF Dispatcher!ResolveFuture, ByTenant!ResolveFuture
  <1> QED BY <1>1, <1>2, <1>3, <1>4, <1>5 DEF Dispatcher!Serve

\* close().
LEMMA SameClose ==
  /\ Dispatcher!CloseStop => ByTenant!CloseStop
  /\ Dispatcher!CloseStep => ByTenant!CloseStep
  <1> USE DEF Dispatcher!CloseAt, ByTenant!CloseAt, Dispatcher!UnchangedByClose,
              ByTenant!UnchangedByClose, Dispatcher!policyVars, ByTenant!policyVars,
              Dispatcher!residencyVars, ByTenant!residencyVars, Dispatcher!callerVars,
              ByTenant!callerVars
  <1>1. Dispatcher!CloseStop => ByTenant!CloseStop
    BY DEF Dispatcher!CloseStop, ByTenant!CloseStop
  <1>2. Dispatcher!CloseNotify => ByTenant!CloseNotify
    BY DEF Dispatcher!CloseNotify, ByTenant!CloseNotify, Dispatcher!Notify, ByTenant!Notify
  <1>3. Dispatcher!CloseShutdown => ByTenant!CloseShutdown
    <2>1. Dispatcher!Range(work) = ByTenant!Range(work)
      BY DEF Dispatcher!Range, ByTenant!Range
    <2> QED BY <2>1 DEF Dispatcher!CloseShutdown, ByTenant!CloseShutdown
  <1>4. Dispatcher!CloseReturn => ByTenant!CloseReturn
    BY SameRunning DEF Dispatcher!CloseReturn, ByTenant!CloseReturn
  <1> QED BY <1>1, <1>2, <1>3, <1>4 DEF Dispatcher!CloseStep, ByTenant!CloseStep

\* All together.
LEMMA SameStep ==
  ASSUME Dispatcher!Next \/ UNCHANGED Dispatcher!vars
  PROVE  ByTenant!Next \/ UNCHANGED ByTenant!vars
  BY SameVars, SameScheduler, SameCallers, SameStart, SameServe, SameClose
     DEF Dispatcher!Next, ByTenant!Next
-----------------------------------------------------------------------------
\* A step of the policy, whichever it is, on the tenants' lines.

\* The request that select_next() returned is in hand.
LEMMA TakeIs ==
  ASSUME selected \in Seq(Requests), NEW r \in Requests, selected' = Append(selected, r), Take
  PROVE  /\ hand' = r
         /\ Dispatcher!Goto("select", "submit") /\ Dispatcher!UnchangedBySched
         /\ UNCHANGED <<cfg, slots, work>>
  <1>1. selected'[Len(selected')] = r
    OBVIOUS
  <1> QED BY <1>1 DEF Take

\* Enqueued at the end of its tenant's line.
LEMMA DispatchByTenant ==
  ASSUME NEW r \in Requests, Dispatch(r), UNCHANGED selected,
         Pending' = [Pending EXCEPT ![TenantOf[r]] = Append(@, r)]
  PROVE  Dispatcher!Dispatch(r)
  BY DEF Dispatch, Dispatcher!Dispatch, Dispatcher!Policy!Enqueue, Dispatcher!residencyVars,
         Dispatcher!schedVars, Dispatcher!serveVars

\* Whoever is at the front of a tenant's line is a request of that tenant.
LEMMA SelectByTenant ==
  ASSUME ByTenant!IInv, NEW t \in Tenants, Pending[t] # <<>>, Take,
         Pending' = [Pending EXCEPT ![t] = Tail(@)],
         selected' = Append(selected, Head(Pending[t]))
  PROVE  \E r \in Requests : Dispatcher!SelectRequest(r)
  <1> DEFINE r == Head(Pending[t])
  <1>1. Pending[t] \in Seq(Requests) /\ selected \in Seq(Requests)
    BY DEF ByTenant!IInv, ByTenant!TypeOK, ByTenant!Policy!PolicyTypeOK
  <1>2. r \in Requests /\ r = Pending[t][1] /\ 1 \in DOMAIN Pending[t]
    BY <1>1
  <1>3. r \in ByTenant!Range(Pending[t])
    BY <1>2 DEF ByTenant!Range
  <1>4. TenantOf[r] = t
    BY <1>3 DEF ByTenant!IInv, ByTenant!Placement, ByTenant!Lines
  <1>5. hand' = r /\ Dispatcher!Goto("select", "submit") /\ Dispatcher!UnchangedBySched
        /\ UNCHANGED <<slots, work>>
    BY <1>1, <1>2, TakeIs
  <1>6. Dispatcher!Policy!Select(r)
    BY <1>4 DEF Dispatcher!Policy!Select, Dispatcher!Policy!Backlogged
  <1> QED BY <1>2, <1>5, <1>6 DEF Dispatcher!SelectRequest

\* What does not touch a tenant's line or a thread is a step of nobody's.
LEMMA UnseenStep ==
  ASSUME UNCHANGED <<Pending, selected, threadVars>> PROVE UNCHANGED Dispatcher!vars
  BY DEF threadVars, Dispatcher!vars, Dispatcher!policyVars, Dispatcher!residencyVars,
         Dispatcher!callerVars, Dispatcher!schedVars, Dispatcher!serveVars

-----------------------------------------------------------------------------
\* FIFO: the steps of the policy, on the tenants' parts of its line.

\* The line holds requests.
LEMMA LineKept == ASSUME PolicyInv, Uses("fifo") PROVE line \in Seq(Requests)
  BY DEF PolicyInv, Arrivals

\* append() puts a request at the end of its tenant's part.
LEMMA DispatchFIFO ==
  ASSUME PolicyInv, Uses("fifo"), NEW r \in Requests, Dispatch(r)
  PROVE  Dispatcher!Dispatch(r) /\ VisitingOrders' /\ UNCHANGED cfg
  <1>1. line' = Append(line, r) /\ UNCHANGED <<selected, cfg, wrrVars, drrVars>>
    BY DEF Dispatch, Enqueue, Uses, FIFO!Enqueue
  <1>2. /\ Pending = [t \in Tenants |-> PartOf(line, t)]
        /\ Pending' = [t \in Tenants |-> PartOf(line', t)]
    BY <1>1, PendingIs, PendingNext
  <1>3. \A t \in Tenants : PartOf(line', t) = PartWith(PartOf(line, t), r, t)
    BY <1>1, LineKept, PartAppend
  <1>4. Pending' = [Pending EXCEPT ![TenantOf[r]] = Append(@, r)]
    BY <1>2, <1>3, DispatcherAssumed DEF PartWith
  <1>5. VisitingOrders'
    BY <1>1 DEF PolicyInv, VisitingOrders, wrrVars, drrVars
  <1> QED BY <1>1, <1>4, <1>5, DispatchByTenant

\* popleft() takes the front of the part of whoever is at the front.
LEMMA SelectFIFOIs ==
  ASSUME PolicyInv, SelectFIFO
  PROVE  /\ \E r \in Requests : Dispatcher!SelectRequest(r)
         /\ VisitingOrders' /\ UNCHANGED cfg
  <1>1. /\ line # <<>> /\ line' = Tail(line) /\ selected' = Append(selected, Head(line))
        /\ Uses("fifo") /\ Take /\ UNCHANGED <<cfg, wrrVars, drrVars>>
    BY DEF SelectFIFO, FIFO!SelectNext, Take
  <1>2. line \in Seq(Requests) /\ Head(line) \in Requests
    BY <1>1, LineKept
  <1> DEFINE h == Head(line)
             u == TenantOf[h]
  <1>3. u \in Tenants
    BY <1>2, DispatcherAssumed
  <1>4. /\ Pending = [t \in Tenants |-> PartOf(line, t)]
        /\ Pending' = [t \in Tenants |-> PartOf(line', t)]
    BY <1>1, PendingIs, PendingNext
  <1>5. /\ PartOf(line, u) # <<>> /\ Head(PartOf(line, u)) = h
        /\ PartOf(line', u) = Tail(PartOf(line, u))
        /\ \A t \in Tenants \ {u} : PartOf(line', t) = PartOf(line, t)
    BY <1>1, <1>2, PartTail
  <1> HIDE DEF h, u
  <1>6. Pending' = [Pending EXCEPT ![u] = Tail(@)] /\ Pending[u] # <<>> /\ Head(Pending[u]) = h
    BY <1>3, <1>4, <1>5
  <1>7. \E r \in Requests : Dispatcher!SelectRequest(r)
    BY <1>1, <1>3, <1>6, SelectByTenant DEF PolicyInv, h
  <1>8. VisitingOrders'
    BY <1>1 DEF PolicyInv, VisitingOrders, wrrVars, drrVars
  <1> QED BY <1>1, <1>7, <1>8

\* FIFO's history, when the policy is left alone.
LEMMA ArrivalsKept ==
  ASSUME Arrivals, UNCHANGED <<line, arrived, selected>> PROVE Arrivals'
  BY DEF Arrivals

\* popleft() takes what has waited longest.
LEMMA ArrivalsStep == ASSUME PolicyInv, Uses("fifo"), [Next]_vars PROVE Arrivals'
  <1>1. line \in Seq(Requests) /\ selected \in Seq(Requests)
    BY DEF PolicyInv, Arrivals, ByTenant!IInv, ByTenant!TypeOK, ByTenant!Policy!PolicyTypeOK
  <1>2. Arrivals
    BY DEF PolicyInv
  <1>3. ASSUME NEW r \in Requests, Dispatch(r) PROVE Arrivals'
    <2>1. line' = Append(line, r) /\ arrived' = Append(arrived, r) /\ UNCHANGED selected
      BY <1>3 DEF Dispatch, Enqueue, Uses, FIFO!Enqueue
    <2>2. /\ arrived' \in Seq(Requests) /\ Len(arrived') = Len(arrived) + 1
          /\ Len(line') = Len(line) + 1 /\ Len(line) \in Nat /\ Len(selected) \in Nat
          /\ arrived'[Len(arrived) + 1] = r /\ line'[Len(line) + 1] = r
          /\ \A i \in 1..Len(arrived) : arrived'[i] = arrived[i]
          /\ \A i \in 1..Len(line) : line'[i] = line[i]
      BY <1>1, <1>2, <2>1 DEF Arrivals
    <2>3. \A i \in 1..Len(selected) : arrived'[i] = selected[i]
      BY <1>2, <2>2 DEF Arrivals
    <2>4. \A i \in 1..Len(line') : arrived'[Len(selected) + i] = line'[i]
      <3> TAKE i \in 1..Len(line')
      <3>1. Len(arrived) = Len(selected) + Len(line)
        BY <1>2 DEF Arrivals
      <3>2. CASE i \in 1..Len(line)
        <4>1. Len(selected) + i \in 1..Len(arrived)
          BY <2>2, <3>1, <3>2
        <4>2. arrived[Len(selected) + i] = line[i]
          BY <1>2, <3>2 DEF Arrivals
        <4> QED BY <2>2, <3>2, <4>1, <4>2
      <3>3. CASE i \notin 1..Len(line)
        <4>1. i = Len(line) + 1 /\ Len(selected) + i = Len(arrived) + 1
          BY <2>2, <3>1, <3>3
        <4> QED BY <2>2, <4>1
      <3> QED BY <3>2, <3>3
    <2>5. Len(arrived') = Len(selected) + Len(line')
      <3>1. Len(arrived) = Len(selected) + Len(line)
        BY <1>2 DEF Arrivals
      <3>2. /\ Len(arrived') = Len(arrived) + 1 /\ Len(line') = Len(line) + 1
            /\ Len(line) \in Nat /\ Len(selected) \in Nat
        BY <2>2
      <3> QED BY <3>1, <3>2
    <2>6. arrived' \in Seq(Requests) /\ line' \in Seq(Requests)
      BY <1>1, <2>1, <2>2
    <2>7. selected' = selected
      BY <2>1
    <2> QED BY ONLY <2>3, <2>4, <2>5, <2>6, <2>7 DEF Arrivals
  <1>4. CASE SelectFIFO
    <2>1. /\ line # <<>> /\ line' = Tail(line) /\ selected' = Append(selected, Head(line))
          /\ UNCHANGED arrived
      BY <1>4 DEF SelectFIFO, FIFO!SelectNext
    <2>2. /\ Len(line') = Len(line) - 1 /\ Len(line) \in Nat \ {0} /\ Head(line) = line[1]
          /\ \A i \in 1..Len(line') : line'[i] = line[i + 1]
          /\ Len(selected') = Len(selected) + 1 /\ Len(selected) \in Nat
          /\ selected'[Len(selected) + 1] = line[1]
          /\ \A i \in 1..Len(selected) : selected'[i] = selected[i]
      BY <1>1, <2>1
    <2>3. arrived[Len(selected) + 1] = line[1]
      <3>1. 1 \in 1..Len(line)
        BY <2>2
      <3> QED BY <1>2, <3>1 DEF Arrivals
    <2>4. \A i \in 1..Len(selected') : arrived[i] = selected'[i]
      <3> TAKE i \in 1..Len(selected')
      <3>1. CASE i \in 1..Len(selected)
        BY <1>2, <2>2, <3>1 DEF Arrivals
      <3>2. CASE i \notin 1..Len(selected)
        <4>1. i = Len(selected) + 1
          BY <2>2, <3>2
        <4> QED BY <2>2, <2>3, <4>1
      <3> QED BY <3>1, <3>2
    <2>5. \A i \in 1..Len(line') : arrived[Len(selected') + i] = line'[i]
      <3> TAKE i \in 1..Len(line')
      <3>1. i + 1 \in 1..Len(line) /\ Len(selected') + i = Len(selected) + (i + 1)
        <4>1. \A a, b \in Nat : b \in 1..(a - 1) => b + 1 \in 1..a
          OBVIOUS
        <4>2. i \in 1..(Len(line) - 1) /\ Len(line) \in Nat /\ i \in Nat
          BY <2>2
        <4>3. \A a, b \in Nat : (a + 1) + b = a + (b + 1)
          OBVIOUS
        <4>4. i + 1 \in 1..Len(line)
          BY <4>1, <4>2
        <4>5. Len(selected') = Len(selected) + 1 /\ Len(selected) \in Nat
          BY <2>2
        <4> QED BY <4>2, <4>3, <4>4, <4>5
      <3>2. arrived[Len(selected) + (i + 1)] = line[i + 1]
        BY <1>2, <3>1 DEF Arrivals
      <3>3. line'[i] = line[i + 1]
        BY <2>2
      <3> QED BY <3>1, <3>2, <3>3
    <2>6. arrived \in Seq(Requests) /\ Len(arrived) = Len(selected') + Len(line')
      BY <1>2, <2>2 DEF Arrivals
    <2>8. line' \in Seq(Requests)
      BY <1>1, <2>1
    <2>7. arrived' = arrived
      BY <2>1
    <2> QED BY ONLY <2>4, <2>5, <2>6, <2>7, <2>8 DEF Arrivals
  <1>5. CASE UNCHANGED policyVars
    BY <1>2, <1>5, ArrivalsKept DEF policyVars, fifoVars
  <1>6. CASE SelectWRR \/ ScanDRR \/ SelectDRR
    BY <1>6 DEF Uses, SelectWRR, ScanDRR, SelectDRR
  <1> QED BY <1>3, <1>4, <1>5, <1>6
          DEF Next, SchedulerStep, SelectNothing, Serve, CallerReturns, CallerTimesOut,
              StartTask, CloseStop, CloseStep, vars
-----------------------------------------------------------------------------
\* WRR and DRR: the steps of the policy, on the tenants' queues.

\* _ensure_tenant(): a newcomer goes to the end of the order.
LEMMA OrderGrows ==
  ASSUME NEW T, NEW s \in Seq(T), NEW t \in T, NEW e,
         e = IF \E i \in 1..Len(s) : s[i] = t THEN s ELSE Append(s, t)
  PROVE  /\ e \in Seq(T) /\ Len(e) >= Len(s)
         /\ \A i \in 1..Len(s) : i \in 1..Len(e) /\ e[i] = s[i]
         /\ \E i \in 1..Len(e) : e[i] = t
  <1>1. CASE \E i \in 1..Len(s) : s[i] = t
    BY <1>1
  <1>2. CASE ~ \E i \in 1..Len(s) : s[i] = t
    <2>1. e = Append(s, t) /\ Len(e) = Len(s) + 1 /\ e[Len(s) + 1] = t
      BY <1>2
    <2> QED BY <2>1
  <1> QED BY <1>1, <1>2

\* enqueue() of WRR.
LEMMA DispatchWRR ==
  ASSUME PolicyInv, Uses("wrr"), NEW r \in Requests, Dispatch(r)
  PROVE  Dispatcher!Dispatch(r) /\ VisitingOrders' /\ UNCHANGED cfg
  <1> DEFINE t == TenantOf[r]
  <1>1. PICK c \in Configs : WRR(c)!Enqueue(r)
    BY DEF Dispatch, Enqueue, Uses
  <1>2. UNCHANGED <<cfg, fifoVars, drrVars>>
    BY DEF Dispatch, Enqueue, Uses
  <1>3. /\ order' = IF \E i \in 1..Len(order) : order[i] = t THEN order ELSE Append(order, t)
        /\ queues' = [queues EXCEPT ![t] = Append(@, r)]
        /\ UNCHANGED <<served, selected>>
    BY <1>1 DEF WRR!Enqueue, WRR!EnsureTenant, WRR!Known
  <1>4. Pending = queues /\ Pending' = queues'
    BY <1>2, PendingIs, PendingNext
  <1>5. t \in Tenants
    BY DispatcherAssumed
  <1>6. queues \in [Tenants -> Seq(Requests)]
    BY <1>4 DEF PolicyInv, Uses, ByTenant!IInv, ByTenant!TypeOK, ByTenant!Policy!PolicyTypeOK
  <1>7. VisitingOrders'
    <2>1. /\ order' \in Seq(Tenants)
          /\ \A i \in 1..Len(order) : i \in 1..Len(order') /\ order'[i] = order[i]
          /\ \E i \in 1..Len(order') : order'[i] = t
      <3>1. order \in Seq(Tenants)
        BY DEF PolicyInv, VisitingOrders
      <3>2. order' = IF \E i \in 1..Len(order) : order[i] = t THEN order ELSE Append(order, t)
        BY <1>3
      <3> HIDE DEF t
      <3> QED BY ONLY <1>5, <3>1, <3>2, OrderGrows
    <2>2. ASSUME NEW u \in Tenants, queues'[u] # <<>> PROVE \E i \in 1..Len(order') : order'[i] = u
      <3>1. CASE u = t
        BY <2>1, <3>1
      <3>2. CASE u # t
        <4>1. queues[u] # <<>>
          BY <1>3, <1>6, <2>2, <3>2
        <4> QED BY <2>1, <4>1 DEF PolicyInv, VisitingOrders
      <3> QED BY <3>1, <3>2
    <2> QED BY <1>2, <2>1, <2>2 DEF PolicyInv, VisitingOrders, drrVars
  <1>8. Dispatcher!Dispatch(r)
    BY <1>3, <1>4, DispatchByTenant
  <1> QED BY <1>2, <1>7, <1>8

\* The tenant WRR serves is one with a queue.
LEMMA SelectWRRIs ==
  ASSUME PolicyInv, SelectWRR
  PROVE  /\ \E r \in Requests : Dispatcher!SelectRequest(r)
         /\ VisitingOrders' /\ UNCHANGED cfg
  <1>1. PICK c \in Configs : WRR(c)!SelectNext
    BY DEF SelectWRR
  <1>2. PICK i \in 1..Len(order) : WRR(c)!IsBest(i) /\ WRR(c)!Serve(order[i])
    BY <1>1 DEF WRR!SelectNext
  <1> DEFINE t == order[i]
  <1>3. /\ queues[t] # <<>> /\ queues' = [queues EXCEPT ![t] = Tail(@)]
        /\ selected' = Append(selected, Head(queues[t])) /\ UNCHANGED order
    BY <1>2 DEF WRR!IsBest, WRR!Serve
  <1>4. Uses("wrr") /\ Take /\ UNCHANGED <<cfg, fifoVars, drrVars>>
    BY DEF SelectWRR, Take
  <1>5. t \in Tenants
    BY DEF PolicyInv, VisitingOrders
  <1>6. Pending = queues /\ Pending' = queues'
    BY <1>4, PendingIs, PendingNext
  <1>7. ByTenant!IInv
    BY <1>4 DEF PolicyInv, Uses
  <1>8. queues \in [Tenants -> Seq(Requests)]
    BY <1>6, <1>7 DEF ByTenant!IInv, ByTenant!TypeOK, ByTenant!Policy!PolicyTypeOK
  <1>9. \A u \in Tenants : queues'[u] # <<>> => queues[u] # <<>>
    BY <1>3, <1>8
  <1>10. VisitingOrders'
    BY <1>3, <1>4, <1>9 DEF PolicyInv, VisitingOrders, drrVars
  <1> QED BY <1>3, <1>4, <1>5, <1>6, <1>7, <1>10, SelectByTenant

\* enqueue() of DRR.
LEMMA DispatchDRR ==
  ASSUME PolicyInv, Uses("drr"), NEW r \in Requests, Dispatch(r)
  PROVE  Dispatcher!Dispatch(r) /\ VisitingOrders' /\ UNCHANGED cfg
  <1> DEFINE t == TenantOf[r]
  <1>1. PICK c \in Configs : DRR(c)!Enqueue(r)
    BY DEF Dispatch, Enqueue, Uses
  <1>2. UNCHANGED <<cfg, fifoVars, wrrVars>>
    BY DEF Dispatch, Enqueue, Uses
  <1>3. /\ rrOrder' = IF \E i \in 1..Len(rrOrder) : rrOrder[i] = t THEN rrOrder
                      ELSE Append(rrOrder, t)
        /\ queue' = [queue EXCEPT ![t] = Append(@, r)]
        /\ UNCHANGED <<rrIndex, selected>>
    BY <1>1 DEF DRR!Enqueue, DRR!EnsureTenant, DRR!Known
  <1>4. Pending = queue /\ Pending' = queue'
    BY <1>2, PendingIs, PendingNext
  <1>5. t \in Tenants
    BY DispatcherAssumed
  <1>6. rrOrder' \in Seq(Tenants) /\ Len(rrOrder') >= Len(rrOrder)
    BY <1>3, <1>5, OrderGrows DEF PolicyInv, VisitingOrders
  <1>7. rrOrder' # <<>> /\ rrIndex' \in 0..(Len(rrOrder') - 1)
    BY <1>3, <1>6 DEF PolicyInv, VisitingOrders
  <1>8. VisitingOrders'
    BY <1>2, <1>6, <1>7 DEF PolicyInv, VisitingOrders, wrrVars
  <1>9. Dispatcher!Dispatch(r)
    BY <1>3, <1>4, DispatchByTenant
  <1> QED BY <1>2, <1>8, <1>9

\* One step of DRR's round moves the index to a tenant that is in the order.
LEMMA AdvanceKeepsOrders ==
  ASSUME VisitingOrders, rrIndex' = (rrIndex + 1) % Len(rrOrder) \/ UNCHANGED rrIndex,
         UNCHANGED <<rrOrder, wrrVars>>
  PROVE  VisitingOrders'
  <1>1. Len(rrOrder) \in Nat \ {0} /\ rrIndex \in 0..(Len(rrOrder) - 1)
    BY DEF VisitingOrders
  <1>2. rrIndex' \in 0..(Len(rrOrder) - 1)
    BY <1>1
  <1> QED BY <1>2 DEF VisitingOrders, wrrVars

\* The visit of DRR that serves.
LEMMA SelectDRRIs ==
  ASSUME PolicyInv, SelectDRR
  PROVE  /\ \E r \in Requests : Dispatcher!SelectRequest(r)
         /\ VisitingOrders' /\ UNCHANGED cfg
  <1>1. PICK c \in Configs : DRR(c)!VisitServe
    BY DEF SelectDRR
  <1> DEFINE t == rrOrder[rrIndex + 1]
  <1>2. /\ queue[t] # <<>> /\ queue' = [queue EXCEPT ![t] = Tail(@)]
        /\ selected' = Append(selected, Head(queue[t]))
        /\ rrIndex' = (rrIndex + 1) % Len(rrOrder) /\ UNCHANGED rrOrder
    BY <1>1 DEF DRR!VisitServe, DRR!Visited, DRR!Advance
  <1>3. Uses("drr") /\ Take /\ UNCHANGED <<cfg, wrrVars>>
    BY DEF SelectDRR, Take
  <1>4. t \in Tenants
    BY DEF PolicyInv, VisitingOrders
  <1>5. Pending = queue /\ Pending' = queue'
    BY <1>3, PendingIs, PendingNext
  <1>6. ByTenant!IInv
    BY <1>3 DEF PolicyInv, Uses
  <1>7. VisitingOrders'
    BY <1>2, <1>3, AdvanceKeepsOrders DEF PolicyInv
  <1> QED BY <1>2, <1>3, <1>4, <1>5, <1>6, <1>7, SelectByTenant

\* The steps of DRR's loop that return nothing are steps of nobody's.
LEMMA ScanDRRUnseen ==
  ASSUME PolicyInv, ScanDRR
  PROVE  UNCHANGED Dispatcher!vars /\ VisitingOrders' /\ UNCHANGED cfg
  <1>1. PICK c \in Configs : DRR(c)!BeginSelect \/ DRR(c)!VisitEmpty \/ DRR(c)!VisitSkip
    BY DEF ScanDRR
  <1>2. /\ UNCHANGED <<queue, selected, rrOrder>>
        /\ rrIndex' = (rrIndex + 1) % Len(rrOrder) \/ UNCHANGED rrIndex
    BY <1>1 DEF DRR!BeginSelect, DRR!VisitEmpty, DRR!VisitSkip, DRR!Advance
  <1>3. Uses("drr") /\ UNCHANGED <<cfg, wrrVars, threadVars>>
    BY DEF ScanDRR
  <1>4. UNCHANGED Pending
    BY <1>2, <1>3, PendingIs, PendingNext
  <1>5. VisitingOrders'
    BY <1>2, <1>3, AdvanceKeepsOrders DEF PolicyInv
  <1> QED BY <1>2, <1>3, <1>4, <1>5, UnseenStep
-----------------------------------------------------------------------------
\* The steps.

LEMMA PolicyKept ==
  ASSUME PolicyInv, UNCHANGED policyVars
  PROVE  UNCHANGED <<Pending, selected, cfg>> /\ VisitingOrders'
  <1>1. UNCHANGED <<cfg, line, selected, order, queues, rrOrder, rrIndex, queue>>
    BY DEF policyVars, fifoVars, wrrVars, drrVars
  <1>2. UNCHANGED Pending
    BY <1>1, PendingIs, PendingNext, ModeKnown DEF PolicyInv
  <1> QED BY <1>1, <1>2 DEF PolicyInv, VisitingOrders

\* When select_next() raises, nobody waits in any tenant's line.
LEMMA SelectNothingIs ==
  ASSUME PolicyInv, SelectNothing PROVE Dispatcher!SelectNothing
  <1>1. UNCHANGED <<Pending, selected>>
    BY PolicyKept DEF SelectNothing
  <1>2. \A t \in Tenants : Pending[t] = <<>>
    <2>1. CASE Uses("fifo")
      <3>1. line = <<>> /\ Pending = [t \in Tenants |-> PartOf(line, t)]
        BY <2>1, PendingIs DEF SelectNothing, FIFO!NothingQueued, Uses
      <3> QED BY <3>1, PartEmpty
    <2>2. CASE Uses("wrr")
      <3>1. \A i \in 1..Len(order) : queues[order[i]] = <<>>
        BY <2>2 DEF SelectNothing, WRR!NoBest, Uses
      <3> QED BY <2>2, <3>1, PendingIs DEF PolicyInv, VisitingOrders
    <2>3. CASE Uses("drr")
      BY <2>3, PendingIs DEF SelectNothing, Uses
    <2> QED BY <2>1, <2>2, <2>3, ModeKnown DEF PolicyInv
  <1>3. Dispatcher!Policy!NothingQueued
    BY <1>2 DEF Dispatcher!Policy!NothingQueued, Dispatcher!Policy!Backlogged
  <1> QED BY <1>1, <1>3 DEF SelectNothing, Dispatcher!SelectNothing, Dispatcher!policyVars

\* A step of the gateway's scheduler is one of the AsyncDispatcher, or none.
LEMMA PolicyStep ==
  ASSUME PolicyInv, [Next]_vars
  PROVE  /\ Dispatcher!Next \/ UNCHANGED Dispatcher!vars
         /\ VisitingOrders' /\ UNCHANGED cfg
  <1> DEFINE Refines == Dispatcher!Next /\ VisitingOrders' /\ UNCHANGED cfg
  <1>1. ASSUME NEW r \in Requests, Dispatch(r) PROVE Refines
    BY <1>1, ModeKnown, DispatchFIFO, DispatchWRR, DispatchDRR DEF PolicyInv, Dispatcher!Next
  <1>2. CASE SelectFIFO \/ SelectWRR \/ SelectDRR
    BY <1>2, SelectFIFOIs, SelectWRRIs, SelectDRRIs DEF Dispatcher!Next, Dispatcher!SchedulerStep
  <1>3. CASE ScanDRR
    BY <1>3, ScanDRRUnseen
  <1>4. CASE SelectNothing
    BY <1>4, PolicyKept, SelectNothingIs
       DEF SelectNothing, Dispatcher!Next, Dispatcher!SchedulerStep
  <1>5. ASSUME UNCHANGED policyVars, Dispatcher!Next PROVE Refines
    BY <1>5, PolicyKept
  <1>6. CASE SchedulerStep
    <2>1. CASE UNCHANGED policyVars /\ Dispatcher!SchedulerStep
      BY <1>5, <2>1 DEF Dispatcher!Next
    <2> QED BY <1>2, <1>3, <1>4, <1>6, <2>1 DEF SchedulerStep, Dispatcher!SchedulerStep
  <1>7. ASSUME NEW r \in Requests, Serve(r) \/ CallerReturns(r) \/ CallerTimesOut(r)
        PROVE  Refines
    BY <1>5, <1>7
       DEF Serve, CallerReturns, CallerTimesOut, Dispatcher!Serve, Dispatcher!Next
  <1>8. CASE StartTask \/ CloseStop \/ CloseStep
    BY <1>5, <1>8 DEF StartTask, CloseStop, CloseStep, Dispatcher!CloseStep, Dispatcher!Next
  <1>9. CASE UNCHANGED vars
    BY <1>9, PolicyKept, UnseenStep DEF vars
  <1> QED BY <1>1, <1>6, <1>7, <1>8, <1>9 DEF Next
-----------------------------------------------------------------------------
\* The invariant.

LEMMA InitPolicy ==
  ASSUME Init
  PROVE  Dispatcher!Init /\ cfg \in Configs /\ VisitingOrders /\ Arrivals
  <1>1. PICK c \in Configs : cfg = c /\ FIFO!Init /\ WRR(c)!Init /\ DRR(c)!Init
    BY DEF Init
  <1>2. /\ line = <<>> /\ arrived = <<>> /\ selected = <<>>
        /\ order = c.weights.order /\ queues = [t \in Tenants |-> <<>>]
        /\ rrOrder = c.quanta.order /\ rrIndex = 0
    BY <1>1 DEF FIFO!Init, WRR!Init, DRR!Init
  <1>3. VisitingOrders
    <2>1. c.weights.order \in Seq(Tenants) \ {<<>>} /\ c.quanta.order \in Seq(Tenants) \ {<<>>}
      BY ConfigAssumption
    <2>2. Len(rrOrder) \in Nat \ {0}
      BY <1>2, <2>1
    <2>3. rrIndex \in 0..(Len(rrOrder) - 1)
      BY <1>2, <2>2
    <2> QED BY <1>2, <2>1, <2>3 DEF VisitingOrders
  <1>4. Arrivals
    BY <1>2 DEF Arrivals
  <1> QED BY <1>1, <1>3, <1>4 DEF Init

(* Whichever the policy, its lines are those of an AsyncDispatcher in its  *)
(* own invariant, the orders WRR and DRR go by hold every tenant with a    *)
(* queue, and what FIFO was given is what it selected and what waits.      *)
THEOREM PolicyInvariant == Spec => []PolicyInv
  <1>1. Init => PolicyInv
    BY InitPolicy, SameInit, DispatcherAssumed, ByTenant!InitIInv DEF PolicyInv
  <1>2. PolicyInv /\ [Next]_vars => PolicyInv'
    <2> SUFFICES ASSUME PolicyInv, [Next]_vars PROVE PolicyInv'
      OBVIOUS
    <2>1. ByTenant!IInv /\ (ByTenant!Next \/ UNCHANGED ByTenant!vars) => ByTenant!IInv'
      BY DispatcherAssumed, ByTenant!StepIInv
    <2>2. ByTenant!IInv' /\ VisitingOrders' /\ UNCHANGED cfg
      BY <2>1, PolicyStep, SameStep DEF PolicyInv
    <2>3. Uses("fifo")' => Arrivals'
      BY <2>2, ArrivalsStep DEF Uses
    <2> QED BY <2>2, <2>3 DEF PolicyInv
  <1> QED BY <1>1, <1>2, PTL DEF Spec
-----------------------------------------------------------------------------
\* The refinement.

(* Every behaviour of the gateway's scheduler, under whichever policy the  *)
(* environment chooses, DRR's many-step loop under the lock included, is   *)
(* one of the AsyncDispatcher over some policy: its lines are the tenants' *)
(* own queues, or under fifo their parts of the one line.                  *)
THEOREM ImplementsAsyncDispatcher == Spec => ImplementsDispatcher
  <1>1. Init => Dispatcher!Init
    BY InitPolicy
  <1>2. PolicyInv /\ [Next]_vars => [Dispatcher!Next]_(Dispatcher!vars)
    BY PolicyStep
  <1> QED BY <1>1, <1>2, PolicyInvariant, PTL
          DEF Spec, ImplementsDispatcher, Dispatcher!Spec

\* The same refinement, to the instance that has the theorems.
LEMMA ImplementsTheSame == Spec => ByTenant!Spec
  <1>1. Init => ByTenant!Init
    BY InitPolicy, SameInit
  <1>2. PolicyInv /\ [Next]_vars => [ByTenant!Next]_(ByTenant!vars)
    BY PolicyStep, SameStep
  <1> QED BY <1>1, <1>2, PolicyInvariant, PTL DEF Spec, ByTenant!Spec

(* Under each policy at most max_concurrency requests are admitted, each   *)
(* served and answered once, none dropped before close().                  *)
THEOREM EveryPolicyAdmits == Spec => ByTenant!ImplementsAdmission
  <1>1. ByTenant!Spec => ByTenant!ImplementsAdmission
    BY DispatcherAssumed, ByTenant!ImplementsAdmissionControl
  <1> QED BY <1>1, ImplementsTheSame, PTL
-----------------------------------------------------------------------------
\* What the AsyncDispatcher keeps, whatever the lines are.

LEMMA SameTasks ==
  /\ Dispatcher!Started = ByTenant!Started
  /\ Dispatcher!Marked = ByTenant!Marked
  /\ Dispatcher!Occupied = ByTenant!Occupied
  BY DEF Dispatcher!Started, ByTenant!Started, Dispatcher!Marked, ByTenant!Marked,
         Dispatcher!Occupied, ByTenant!Occupied, Dispatcher!InTask, ByTenant!InTask,
         Dispatcher!Running, ByTenant!Running

LEMMA SameCardinality == \A S : Dispatcher!Cardinality(S) = ByTenant!Cardinality(S)
  BY DEF Dispatcher!Cardinality, ByTenant!Cardinality

\* What the second instance keeps, the first keeps.
LEMMA SameProperties ==
  /\ ByTenant!SlotConservation => Dispatcher!SlotConservation
  /\ ByTenant!RegistryExact => Dispatcher!RegistryExact
  /\ ByTenant!StartOrder => Dispatcher!StartOrder
  /\ ByTenant!OneColdPerModel => Dispatcher!OneColdPerModel
  /\ ByTenant!TagsFollowSelection => TagsFollowSelection
  <1>1. ByTenant!SlotConservation => Dispatcher!SlotConservation
    BY SameTasks, SameCardinality
       DEF ByTenant!SlotConservation, Dispatcher!SlotConservation,
           ByTenant!SchedulerHolds, Dispatcher!SchedulerHolds
  <1>2. ByTenant!RegistryExact => Dispatcher!RegistryExact
    BY DEF ByTenant!RegistryExact, Dispatcher!RegistryExact
  <1>3. ByTenant!StartOrder => Dispatcher!StartOrder
    BY SameTasks DEF ByTenant!StartOrder, Dispatcher!StartOrder
  <1>4. ByTenant!OneColdPerModel => Dispatcher!OneColdPerModel
    BY SameTasks, SameCardinality DEF ByTenant!OneColdPerModel, Dispatcher!OneColdPerModel
  <1>5. ByTenant!TagsFollowSelection => TagsFollowSelection
    BY SameTasks DEF ByTenant!TagsFollowSelection, TagsFollowSelection,
                     Dispatcher!TagsFollowSelection
  <1> QED BY <1>1, <1>2, <1>3, <1>4, <1>5

(* Under each policy no slot is lost or made, the registry of futures is   *)
(* exact, requests start in the order of selection, and every model served *)
(* has exactly one cold request.                                           *)
THEOREM EveryPolicyKeeps ==
  Spec => [](/\ Dispatcher!SlotConservation /\ Dispatcher!RegistryExact
             /\ Dispatcher!StartOrder /\ Dispatcher!OneColdPerModel)
  <1>1. /\ ByTenant!Spec => []ByTenant!SlotConservation
        /\ ByTenant!Spec => []ByTenant!RegistryExact
    BY DispatcherAssumed, ByTenant!SlotsConserved, ByTenant!RegistryIsExact
  <1>2. /\ ByTenant!Spec => []ByTenant!StartOrder
        /\ ByTenant!Spec => []ByTenant!OneColdPerModel
    BY DispatcherAssumed, ByTenant!StartsInOrder, ByTenant!OneColdRequest
  <1> QED BY <1>1, <1>2, SameProperties, ImplementsTheSame, PTL

(* With max_concurrency 1 the tags say what the order of selection says,   *)
(* whichever policy selects.                                               *)
THEOREM SerialTags == ASSUME MaxConcurrency = 1 PROVE Spec => []TagsFollowSelection
  <1>1. ByTenant!Spec => []ByTenant!TagsFollowSelection
    BY DispatcherAssumed, ByTenant!SerialTagsFollowSelection
  <1> QED BY <1>1, SameProperties, ImplementsTheSame, PTL

\* Who stands in FIFO's line has not been started.
LEMMA WaitingNotStarted ==
  ASSUME PolicyInv, Uses("fifo"), NEW k \in 1..Len(line)
  PROVE  line[k] \notin Dispatcher!Started
  <1> DEFINE r == line[k]
             t == TenantOf[r]
  <1>1. line \in Seq(Requests) /\ r \in Requests
    BY LineKept
  <1>2. t \in Tenants
    BY <1>1, DispatcherAssumed
  <1>3. Pending[t] = PartOf(line, t)
    BY <1>2, PendingIs
  <1>4. PICK i \in 1..Len(Pending[t]) : Pending[t][i] = r
    BY <1>1, <1>3, PartHas
  <1>5. Pending[t] \in Seq(Requests)
    BY <1>1, <1>3, PartHas
  <1>6. ByTenant!Policy!Queued(r)
    BY <1>4, <1>5 DEF ByTenant!Policy!Queued, ByTenant!Policy!Range
  <1>7. task[r] = "none"
    BY <1>1, <1>6 DEF PolicyInv, ByTenant!IInv, ByTenant!Placement, ByTenant!OnePlace,
                      ByTenant!InServe
  <1> QED BY <1>7 DEF Dispatcher!Started, Dispatcher!InTask, Dispatcher!Running

(* "FIFO admission policy: requests are served in arrival order"           *)
(* (dispatcher.py:9): under fifo no request starts before one that was     *)
(* enqueued earlier, through the scheduler, the pool and close().          *)
THEOREM ServedInArrivalOrder == Spec => []FirstComeFirstStarted
  <1>1. PolicyInv /\ ByTenant!StartOrder => FirstComeFirstStarted
    <2> SUFFICES ASSUME PolicyInv, Uses("fifo"), ByTenant!StartOrder,
                        NEW i \in 1..Len(arrived), NEW j \in 1..Len(arrived),
                        i < j, arrived[j] \in Dispatcher!Started
                 PROVE  arrived[i] \in Dispatcher!Started
      BY DEF FirstComeFirstStarted
    <2>1. Arrivals
      BY DEF PolicyInv
    <2>2. line \in Seq(Requests) /\ selected \in Seq(Requests)
      BY DEF PolicyInv, Arrivals, ByTenant!IInv, ByTenant!TypeOK, ByTenant!Policy!PolicyTypeOK
    <2>3. Len(selected) \in Nat /\ Len(line) \in Nat /\ Len(arrived) = Len(selected) + Len(line)
      BY <2>1, <2>2 DEF Arrivals
    <2>4. j \in 1..Len(selected)
      <3> SUFFICES ASSUME j \notin 1..Len(selected) PROVE FALSE
        OBVIOUS
      <3>1. PICK k \in 1..Len(line) : j = Len(selected) + k
        <4>1. j - Len(selected) \in 1..Len(line) /\ j = Len(selected) + (j - Len(selected))
          BY <2>3
        <4> QED BY <4>1
      <3>2. arrived[j] = line[k]
        BY <2>1, <3>1 DEF Arrivals
      <3> QED BY <3>2, WaitingNotStarted
    <2>5. i \in 1..Len(selected)
      BY <2>3, <2>4
    <2>6. arrived[i] = selected[i] /\ arrived[j] = selected[j]
      BY <2>1, <2>4, <2>5 DEF Arrivals
    <2> QED BY <2>4, <2>5, <2>6, SameTasks DEF ByTenant!StartOrder
  <1>2. ByTenant!Spec => []ByTenant!StartOrder
    BY DispatcherAssumed, ByTenant!StartsInOrder
  <1> QED BY <1>1, <1>2, ImplementsTheSame, PolicyInvariant, PTL
=============================================================================
