------------------------ MODULE AsyncDispatcher_proofs ------------------------
(***************************************************************************)
(* What holds of AsyncDispatcher for any requests, tenants, models and     *)
(* concurrency: no slot is lost or made, no request is lost or doubled,    *)
(* and the registry of futures is exact.                                   *)
(*                                                                         *)
(* The inductive invariant IInv adds to the properties that no queue holds *)
(* a request twice, that a line of the policy holds its own tenant's       *)
(* requests, and that the scheduler has a request in hand exactly between  *)
(* select_next() and submit().                                             *)
(***************************************************************************)
EXTENDS AsyncDispatcher, FiniteSetTheorems, FunctionTheorems, TLAPS

NoRepeat(s) == \A i, j \in 1..Len(s) : s[i] = s[j] => i = j

Lines ==
  /\ \A t \in Tenants : /\ NoRepeat(pending[t])
                        /\ \A r \in Range(pending[t]) : TenantOf[r] = t
  /\ NoRepeat(work)

HandAgrees == hand # NoRequest <=> sched \in {"submit", "crashed"}

Placement == Lines /\ HandAgrees /\ OnePlace

IInv == TypeOK /\ Placement /\ RegistryExact /\ SlotConservation
-----------------------------------------------------------------------------
\* Sequences without repetition, as queues.

LEMMA RangeOfAppend ==
  ASSUME NEW S, NEW s \in Seq(S), NEW x \in S
  PROVE  Range(Append(s, x)) = Range(s) \cup {x}
  <1>1. /\ Append(s, x) \in Seq(S)
        /\ Len(Append(s, x)) = Len(s) + 1
        /\ \A i \in 1..Len(s) : Append(s, x)[i] = s[i]
        /\ Append(s, x)[Len(s) + 1] = x
    OBVIOUS
  <1>2. DOMAIN s = 1..Len(s) /\ DOMAIN Append(s, x) = 1..(Len(s) + 1)
    BY <1>1
  <1>3. Len(s) \in Nat
    OBVIOUS
  <1>4. 1..(Len(s) + 1) = 1..Len(s) \cup {Len(s) + 1}
    BY <1>3
  <1> QED BY <1>1, <1>2, <1>4 DEF Range

LEMMA AppendKeepsNoRepeat ==
  ASSUME NEW S, NEW s \in Seq(S), NEW x \in S, NoRepeat(s), x \notin Range(s)
  PROVE  NoRepeat(Append(s, x))
  <1>1. \A i \in 1..Len(s) : s[i] # x
    BY DEF Range
  <1> QED BY <1>1 DEF NoRepeat

LEMMA TailOfNoRepeat ==
  ASSUME NEW S, NEW s \in Seq(S), s # <<>>, NoRepeat(s)
  PROVE  /\ Head(s) \in S /\ Tail(s) \in Seq(S) /\ Len(Tail(s)) = Len(s) - 1
         /\ Head(s) \in Range(s)
         /\ Range(Tail(s)) = Range(s) \ {Head(s)}
         /\ NoRepeat(Tail(s))
  <1>1. /\ Head(s) \in S /\ Tail(s) \in Seq(S) /\ Len(Tail(s)) = Len(s) - 1
        /\ Len(s) \in Nat \ {0} /\ Head(s) = s[1]
        /\ \A i \in 1..(Len(s) - 1) : Tail(s)[i] = s[i + 1]
    OBVIOUS
  <1>2. DOMAIN s = 1..Len(s) /\ DOMAIN Tail(s) = 1..(Len(s) - 1)
    BY <1>1
  <1>3. Head(s) \in Range(s)
    BY <1>1, <1>2 DEF Range
  <1>4. Range(Tail(s)) \subseteq Range(s) \ {Head(s)}
    <2> SUFFICES ASSUME NEW i \in 1..(Len(s) - 1)
                 PROVE  Tail(s)[i] \in Range(s) \ {Head(s)}
      BY <1>2 DEF Range
    <2>1. i + 1 \in 1..Len(s) /\ i + 1 # 1 /\ 1 \in 1..Len(s)
      BY <1>1
    <2>2. s[i + 1] # s[1]
      BY <2>1 DEF NoRepeat
    <2> QED BY <1>1, <1>2, <2>1, <2>2 DEF Range
  <1>5. Range(s) \ {Head(s)} \subseteq Range(Tail(s))
    <2> SUFFICES ASSUME NEW i \in 1..Len(s), s[i] # Head(s)
                 PROVE  s[i] \in Range(Tail(s))
      BY <1>2 DEF Range
    <2>1. i - 1 \in 1..(Len(s) - 1) /\ (i - 1) + 1 = i
      BY <1>1
    <2>2. Tail(s)[i - 1] = s[i]
      BY <1>1, <2>1
    <2> QED BY <1>2, <2>1, <2>2 DEF Range
  <1>6. NoRepeat(Tail(s))
    <2> SUFFICES ASSUME NEW i \in 1..(Len(s) - 1), NEW j \in 1..(Len(s) - 1),
                        Tail(s)[i] = Tail(s)[j]
                 PROVE  i = j
      BY <1>1 DEF NoRepeat
    <2>1. i + 1 \in 1..Len(s) /\ j + 1 \in 1..Len(s) /\ s[i + 1] = s[j + 1]
      BY <1>1
    <2>2. i + 1 = j + 1
      BY <2>1 DEF NoRepeat
    <2> QED BY <2>2
  <1> QED BY <1>1, <1>3, <1>4, <1>5, <1>6

\* A queue without repetition holds as many requests as it is long.
LEMMA CountOfQueue ==
  ASSUME NEW S, NEW s \in Seq(S), NoRepeat(s)
  PROVE  IsFiniteSet(Range(s)) /\ Cardinality(Range(s)) = Len(s)
  <1>1. s \in Bijection(1..Len(s), Range(s))
    <2>1. DOMAIN s = 1..Len(s) /\ s \in [1..Len(s) -> Range(s)]
      BY DEF Range
    <2>2. \A a, b \in 1..Len(s) : s[a] = s[b] => a = b
      BY DEF NoRepeat
    <2>3. \A x \in Range(s) : \E a \in 1..Len(s) : s[a] = x
      BY <2>1 DEF Range
    <2> QED BY <2>1, <2>2, <2>3, Fun_IsBij
  <1>2. ExistsBijection(1..Len(s), Range(s))
    BY <1>1 DEF ExistsBijection
  <1>3. IsFiniteSet(1..Len(s)) /\ Cardinality(1..Len(s)) = Len(s)
    <2>1. Len(s) \in Nat /\ Len(s) \in Int /\ 1 \in Int
      OBVIOUS
    <2>2. Cardinality(1..Len(s)) = IF 1 > Len(s) THEN 0 ELSE Len(s) - 1 + 1
      BY <2>1, FS_Interval
    <2>3. IsFiniteSet(1..Len(s))
      BY <2>1, FS_Interval
    <2>4. \A n \in Nat : n = IF 1 > n THEN 0 ELSE n - 1 + 1
      OBVIOUS
    <2> QED BY ONLY <2>1, <2>2, <2>3, <2>4
  <1> QED BY <1>2, <1>3, FS_Bijection
-----------------------------------------------------------------------------
\* Types.  The bound of slots comes from SlotConservation, not from the steps.

TypeRest ==
  /\ Policy!PolicyTypeOK
  /\ Tracker!ResidencyTypeOK
  /\ caller \in [Requests -> {"idle", "waiting", "returned", "timedout"}]
  /\ futures \subseteq Requests
  /\ resolved \subseteq Requests
  /\ sched \in SchedStates
  /\ hand \in Requests \cup {NoRequest}
  /\ slots \in Nat
  /\ work \in Seq(Requests)
  /\ task \in [Requests -> TaskStates]
  /\ tag \in [Requests -> Tracker!Tags]
  /\ closer \in {"open", "stopped", "notified", "joining", "closed"}

LEMMA TypeWeakens == TypeOK => TypeRest
  BY DispatcherAssumption DEF TypeOK, TypeRest

LEMMA TypeCallers ==
  ASSUME TypeRest, NEW r \in Requests, Dispatch(r) \/ CallerReturns(r) \/ CallerTimesOut(r)
  PROVE  TypeRest'
  <1> USE DEF TypeRest, Policy!PolicyTypeOK, Tracker!ResidencyTypeOK, SchedStates,
              policyVars, residencyVars, schedVars, serveVars
  <1>1. CASE Dispatch(r)
    <2>1. TenantOf[r] \in Tenants
      BY DispatcherAssumption
    <2>2. Append(pending[TenantOf[r]], r) \in Seq(Requests)
      BY <2>1
    <2>3. pending' \in [Tenants -> Seq(Requests)] /\ selected' \in Seq(Requests)
      BY <1>1, <2>1, <2>2 DEF Dispatch, Policy!Enqueue
    <2>4. sched' \in SchedStates
      BY <1>1 DEF Dispatch, Notify
    <2> QED BY <1>1, <2>3, <2>4 DEF Dispatch
  <1>2. CASE CallerReturns(r)
    BY <1>2 DEF CallerReturns
  <1>3. CASE CallerTimesOut(r)
    BY <1>3 DEF CallerTimesOut
  <1> QED BY <1>1, <1>2, <1>3

LEMMA TypeScheduler == ASSUME TypeRest, HandAgrees, SchedulerStep PROVE TypeRest'
  <1> USE DEF TypeRest, Policy!PolicyTypeOK, Tracker!ResidencyTypeOK, SchedStates,
              policyVars, residencyVars, callerVars, serveVars, UnchangedBySched, Goto
  <1>1. CASE CheckStopped
    BY <1>1 DEF CheckStopped
  <1>2. CASE AcquireSlot
    BY <1>2 DEF AcquireSlot
  <1>3. CASE \E r \in Requests : SelectRequest(r)
    <2>1. PICK r \in Requests : SelectRequest(r)
      BY <1>3
    <2>2. TenantOf[r] \in Tenants /\ pending[TenantOf[r]] # <<>>
      BY <2>1, DispatcherAssumption DEF SelectRequest, Policy!Select, Policy!Backlogged
    <2>3. Tail(pending[TenantOf[r]]) \in Seq(Requests)
      BY <2>2
    <2>4. pending' = [pending EXCEPT ![TenantOf[r]] = Tail(pending[TenantOf[r]])]
      BY <2>1 DEF SelectRequest, Policy!Select
    <2>5. pending' \in [Tenants -> Seq(Requests)]
      BY <2>3, <2>4
    <2>6. selected' = Append(selected, r)
      BY <2>1 DEF SelectRequest, Policy!Select
    <2>7. selected' \in Seq(Requests)
      BY <2>6
    <2> QED BY <2>1, <2>5, <2>7 DEF SelectRequest
  <1>4. CASE SelectNothing
    BY <1>4 DEF SelectNothing
  <1>5. CASE ReleaseEmptySlot
    BY <1>5 DEF ReleaseEmptySlot
  <1>6. CASE BeginWait
    BY <1>6 DEF BeginWait
  <1>7. CASE WaitTimesOut
    BY <1>7 DEF WaitTimesOut
  <1>8. CASE Submit
    <2>1. hand \in Requests
      BY <1>8 DEF Submit, HandAgrees
    <2>2. work' \in Seq(Requests)
      BY <1>8, <2>1 DEF Submit
    <2> QED BY <1>8, <2>2 DEF Submit
  <1>9. CASE SubmitRefused
    BY <1>9 DEF SubmitRefused
  <1> QED BY <1>1, <1>2, <1>3, <1>4, <1>5, <1>6, <1>7, <1>8, <1>9 DEF SchedulerStep

LEMMA TypeStart == ASSUME TypeRest, StartTask PROVE TypeRest'
  <1>1. Head(work) \in Requests /\ Tail(work) \in Seq(Requests)
    BY DEF StartTask, TypeRest
  <1>2. task' \in [Requests -> TaskStates] /\ work' \in Seq(Requests)
    BY <1>1 DEF StartTask, TypeRest, TaskStates
  <1> QED BY <1>2 DEF StartTask, TypeRest, Policy!PolicyTypeOK, Tracker!ResidencyTypeOK,
                      policyVars, residencyVars, schedVars, UnchangedByServe

LEMMA TypeServe == ASSUME TypeRest, NEW r \in Requests, Serve(r) PROVE TypeRest'
  <1> USE DEF TypeRest, Policy!PolicyTypeOK, Tracker!ResidencyTypeOK, TaskStates,
              policyVars, residencyVars, schedVars, UnchangedByServe, ServeStep
  <1>1. CASE MarkResidency(r)
    <2>1. ModelOf[r] \in Models
      BY DispatcherAssumption
    <2>2. seen' \subseteq Models /\ last' \in Models \cup {NoModel}
      BY <1>1, <2>1 DEF MarkResidency, Tracker!Mark
    <2>3. Tracker!Classify(ModelOf[r]) \in Tracker!Tags
      <3>1. (ModelOf[r] \notin seen) \in BOOLEAN
        OBVIOUS
      <3>2. (last # NoModel /\ last # ModelOf[r]) \in BOOLEAN
        OBVIOUS
      <3> QED BY <3>1, <3>2 DEF Tracker!Classify, Tracker!Tags
    <2>4. tag' \in [Requests -> Tracker!Tags]
      BY <1>1, <2>3 DEF MarkResidency
    <2> QED BY <1>1, <2>2, <2>4 DEF MarkResidency
  <1>2. CASE BackendReturns(r)
    BY <1>2 DEF BackendReturns
  <1>3. CASE BackendRaises(r)
    BY <1>3 DEF BackendRaises
  <1>4. CASE ReleaseSlot(r)
    BY <1>4 DEF ReleaseSlot
  <1>5. CASE PopFuture(r)
    BY <1>5 DEF PopFuture
  <1>6. CASE ResolveFuture(r)
    BY <1>6 DEF ResolveFuture
  <1> QED BY <1>1, <1>2, <1>3, <1>4, <1>5, <1>6 DEF Serve

LEMMA TypeClose == ASSUME TypeRest, CloseStop \/ CloseStep PROVE TypeRest'
  <1> USE DEF TypeRest, Policy!PolicyTypeOK, Tracker!ResidencyTypeOK, SchedStates, TaskStates,
              policyVars, residencyVars, callerVars, UnchangedByClose, CloseAt
  <1>1. CASE CloseStop
    BY <1>1 DEF CloseStop
  <1>2. CASE CloseNotify
    BY <1>2 DEF CloseNotify, Notify
  <1>3. CASE CloseShutdown
    <2>1. task' \in [Requests -> TaskStates] /\ work' \in Seq(Requests)
      BY <1>3 DEF CloseShutdown
    <2> QED BY <1>3, <2>1 DEF CloseShutdown
  <1>4. CASE CloseReturn
    BY <1>4 DEF CloseReturn
  <1> QED BY <1>1, <1>2, <1>3, <1>4 DEF CloseStep

\* Whatever step is taken, the types hold next.
LEMMA TypeStep == ASSUME TypeRest, HandAgrees, Next PROVE TypeRest'
  <1>1. CASE \E r \in Requests : Dispatch(r) \/ CallerReturns(r) \/ CallerTimesOut(r)
    BY <1>1, TypeCallers
  <1>2. CASE SchedulerStep
    BY <1>2, TypeScheduler
  <1>3. CASE StartTask
    BY <1>3, TypeStart
  <1>4. CASE \E r \in Requests : Serve(r)
    BY <1>4, TypeServe
  <1>5. CASE CloseStop \/ CloseStep
    BY <1>5, TypeClose
  <1> QED BY <1>1, <1>2, <1>3, <1>4, <1>5 DEF Next
-----------------------------------------------------------------------------
\* Places.  Most steps move no request from one place to another.

Unmoved ==
  /\ UNCHANGED <<pending, hand, work>>
  /\ \A r \in Requests : caller'[r] = "idle" <=> caller[r] = "idle"
  /\ \A r \in Requests : task'[r] = "none" <=> task[r] = "none"
  /\ sched' \in {"submit", "crashed"} <=> sched \in {"submit", "crashed"}

LEMMA UnmovedKeepsPlaces == ASSUME Placement, Unmoved PROVE Placement'
  <1>1. Lines' /\ HandAgrees'
    BY DEF Placement, Lines, HandAgrees, Unmoved
  <1>2. OnePlace'
    BY DEF Placement, OnePlace, Unmoved, Policy!Queued, InHand, InPool, InServe
  <1> QED BY <1>1, <1>2 DEF Placement

LEMMA CallersUnmoved ==
  ASSUME TypeRest, NEW r \in Requests, CallerReturns(r) \/ CallerTimesOut(r)
  PROVE  Unmoved
  BY DEF TypeRest, CallerReturns, CallerTimesOut, Unmoved, policyVars, schedVars, serveVars

LEMMA SchedulerUnmoved ==
  ASSUME TypeRest,
         \/ CheckStopped \/ AcquireSlot \/ SelectNothing \/ ReleaseEmptySlot
         \/ BeginWait \/ WaitTimesOut \/ SubmitRefused
  PROVE  Unmoved
  <1> USE DEF Unmoved, UnchangedBySched, Goto, policyVars, callerVars, serveVars
  <1>1. CASE CheckStopped
    BY <1>1 DEF CheckStopped
  <1>2. CASE AcquireSlot
    BY <1>2 DEF AcquireSlot
  <1>3. CASE SelectNothing
    BY <1>3 DEF SelectNothing
  <1>4. CASE ReleaseEmptySlot
    BY <1>4 DEF ReleaseEmptySlot
  <1>5. CASE BeginWait
    BY <1>5 DEF BeginWait
  <1>6. CASE WaitTimesOut
    BY <1>6 DEF WaitTimesOut
  <1>7. CASE SubmitRefused
    BY <1>7 DEF SubmitRefused
  <1> QED BY <1>1, <1>2, <1>3, <1>4, <1>5, <1>6, <1>7

LEMMA ServeUnmoved == ASSUME TypeRest, NEW r \in Requests, Serve(r) PROVE Unmoved
  <1> USE DEF TypeRest, Unmoved, UnchangedByServe, ServeStep, policyVars, schedVars
  <1>1. CASE MarkResidency(r)
    BY <1>1 DEF MarkResidency
  <1>2. CASE BackendReturns(r)
    BY <1>2 DEF BackendReturns
  <1>3. CASE BackendRaises(r)
    BY <1>3 DEF BackendRaises
  <1>4. CASE ReleaseSlot(r)
    BY <1>4 DEF ReleaseSlot
  <1>5. CASE PopFuture(r)
    BY <1>5 DEF PopFuture
  <1>6. CASE ResolveFuture(r)
    BY <1>6 DEF ResolveFuture
  <1> QED BY <1>1, <1>2, <1>3, <1>4, <1>5, <1>6 DEF Serve

LEMMA CloseUnmoved ==
  ASSUME TypeRest, CloseStop \/ CloseNotify \/ CloseReturn PROVE Unmoved
  BY DEF CloseStop, CloseNotify, CloseReturn, Notify, Unmoved, UnchangedByClose,
         policyVars, callerVars

\* dispatch(): from nowhere to the end of the tenant's line.
LEMMA DispatchPlaces ==
  ASSUME TypeRest, Placement, NEW r \in Requests, Dispatch(r)
  PROVE  /\ Placement'
         /\ \A q \in Requests : Policy!Queued(q)' <=> Policy!Queued(q) \/ q = r
  <1> DEFINE t == TenantOf[r]
  <1>1. t \in Tenants /\ pending[t] \in Seq(Requests)
    BY DispatcherAssumption DEF TypeRest, Policy!PolicyTypeOK
  <1>2. pending' = [pending EXCEPT ![t] = Append(pending[t], r)]
    BY DEF Dispatch, Policy!Enqueue
  <1>3. ~ Policy!Queued(r) /\ ~ InHand(r) /\ ~ InPool(r) /\ ~ InServe(r)
    BY DEF Dispatch, Placement, OnePlace
  <1>4. r \notin Range(pending[t])
    BY <1>3 DEF Policy!Queued, Policy!Range, Range
  <1>5. pending'[t] = Append(pending[t], r) /\ \A u \in Tenants \ {t} : pending'[u] = pending[u]
    BY <1>1, <1>2 DEF TypeRest, Policy!PolicyTypeOK
  <1>6. Range(pending'[t]) = Range(pending[t]) \cup {r} /\ NoRepeat(pending'[t])
    BY <1>1, <1>4, <1>5, RangeOfAppend, AppendKeepsNoRepeat DEF Placement, Lines
  <1>7. /\ UNCHANGED <<hand, work, task>>
        /\ caller' = [caller EXCEPT ![r] = "waiting"]
        /\ sched' \in {"submit", "crashed"} <=> sched \in {"submit", "crashed"}
    BY DEF Dispatch, Notify, serveVars
  <1>8. Lines'
    BY <1>5, <1>6, <1>7 DEF Placement, Lines
  <1>9. HandAgrees'
    BY <1>7 DEF Placement, HandAgrees
  <1>10. \A q \in Requests : Policy!Queued(q)' <=> Policy!Queued(q) \/ q = r
    <2> TAKE q \in Requests
    <2>1. TenantOf[q] \in Tenants
      BY DispatcherAssumption
    <2>2. CASE TenantOf[q] = t
      BY <1>6, <2>2 DEF Policy!Queued, Policy!Range, Range
    <2>3. CASE TenantOf[q] # t
      BY <1>5, <2>1, <2>3 DEF Policy!Queued, Policy!Range, Range
    <2> QED BY <2>2, <2>3
  <1>11. \A q \in Requests : caller'[q] = "idle" <=> caller[q] = "idle" /\ q # r
    BY <1>7 DEF TypeRest
  <1>12. OnePlace'
    BY <1>3, <1>7, <1>10, <1>11 DEF Placement, OnePlace, InHand, InPool, InServe
  <1> QED BY <1>8, <1>9, <1>10, <1>12 DEF Placement

\* select_next(): from the front of a line to the scheduler's hand.
LEMMA SelectPlaces ==
  ASSUME TypeRest, Placement, NEW r \in Requests, SelectRequest(r)
  PROVE  /\ Placement' /\ Policy!Queued(r) /\ hand = NoRequest
         /\ \A q \in Requests : Policy!Queued(q)' <=> Policy!Queued(q) /\ q # r
  <1> DEFINE t == TenantOf[r]
  <1>1. t \in Tenants /\ pending[t] \in Seq(Requests) /\ pending[t] # <<>>
    BY DispatcherAssumption DEF TypeRest, Policy!PolicyTypeOK, SelectRequest, Policy!Select,
                                Policy!Backlogged
  <1>2. r = Head(pending[t]) /\ pending' = [pending EXCEPT ![t] = Tail(pending[t])]
    BY DEF SelectRequest, Policy!Select
  <1>3. pending'[t] = Tail(pending[t]) /\ \A u \in Tenants \ {t} : pending'[u] = pending[u]
    BY <1>1, <1>2 DEF TypeRest, Policy!PolicyTypeOK
  <1>4. /\ r \in Range(pending[t])
        /\ Range(pending'[t]) = Range(pending[t]) \ {r}
        /\ NoRepeat(pending'[t])
    BY <1>1, <1>2, <1>3, TailOfNoRepeat DEF Placement, Lines
  <1>5. /\ UNCHANGED <<caller, work, task>>
        /\ hand' = r /\ sched' = "submit" /\ sched = "select"
    BY DEF SelectRequest, Goto, UnchangedBySched, callerVars, serveVars
  <1>6. hand = NoRequest
    BY <1>5 DEF Placement, HandAgrees
  <1>7. Lines'
    BY <1>3, <1>4, <1>5 DEF Placement, Lines
  <1>8. HandAgrees'
    BY <1>5, DispatcherAssumption DEF HandAgrees
  <1>9. Policy!Queued(r)
    BY <1>4 DEF Policy!Queued, Policy!Range, Range
  <1>10. \A q \in Requests : Policy!Queued(q)' <=> Policy!Queued(q) /\ q # r
    <2> TAKE q \in Requests
    <2>1. TenantOf[q] \in Tenants
      BY DispatcherAssumption
    <2>2. CASE TenantOf[q] = t
      BY <1>4, <2>2 DEF Policy!Queued, Policy!Range, Range
    <2>3. CASE TenantOf[q] # t
      BY <1>3, <2>1, <2>3 DEF Policy!Queued, Policy!Range, Range
    <2> QED BY <2>2, <2>3
  <1>11. \A q \in Requests : ~ InHand(q) /\ (InHand(q)' <=> q = r)
    BY <1>5, <1>6, DispatcherAssumption DEF InHand
  <1>12. OnePlace'
    BY <1>5, <1>9, <1>10, <1>11 DEF Placement, OnePlace, InPool, InServe
  <1> QED BY <1>6, <1>7, <1>8, <1>9, <1>10, <1>12 DEF Placement

\* submit(): from the hand to the end of the pool's queue.
LEMMA SubmitPlaces ==
  ASSUME TypeRest, Placement, Submit
  PROVE  Placement' /\ hand \in Requests /\ Range(work') = Range(work) \cup {hand}
  <1>1. sched = "submit" /\ sched' = "loop" /\ hand \in Requests
    BY DEF Submit, Goto, Placement, HandAgrees, TypeRest
  <1>2. /\ work' = Append(work, hand) /\ hand' = NoRequest
        /\ UNCHANGED <<pending, caller, task>>
    BY DEF Submit, UnchangedBySched, policyVars, callerVars, serveVars
  <1>3. hand \notin Range(work)
    BY <1>1 DEF Placement, OnePlace, InHand, InPool
  <1>4. Range(work') = Range(work) \cup {hand} /\ NoRepeat(work')
    BY <1>1, <1>2, <1>3, RangeOfAppend, AppendKeepsNoRepeat DEF TypeRest, Placement, Lines
  <1>5. Lines' /\ HandAgrees'
    BY <1>1, <1>2, <1>4 DEF Placement, Lines, HandAgrees
  <1>6. OnePlace'
    BY <1>2, <1>4, DispatcherAssumption
       DEF Placement, OnePlace, Policy!Queued, InHand, InPool, InServe
  <1> QED BY <1>1, <1>4, <1>5, <1>6 DEF Placement

\* A pool thread: from the front of the pool's queue to _serve().
LEMMA StartPlaces ==
  ASSUME TypeRest, Placement, StartTask
  PROVE  /\ Placement' /\ Head(work) \in Requests /\ Head(work) \in Range(work)
         /\ Range(work') = Range(work) \ {Head(work)}
  <1> DEFINE h == Head(work)
  <1>1. work \in Seq(Requests) /\ work # <<>> /\ NoRepeat(work)
    BY DEF TypeRest, StartTask, Placement, Lines
  <1>2. /\ h \in Requests /\ h \in Range(work)
        /\ Range(Tail(work)) = Range(work) \ {h} /\ NoRepeat(Tail(work))
    BY <1>1, TailOfNoRepeat
  <1>3. /\ work' = Tail(work) /\ task' = [task EXCEPT ![h] = "mark"]
        /\ UNCHANGED <<pending, caller, hand, sched>>
    BY DEF StartTask, UnchangedByServe, policyVars, schedVars
  <1>4. Lines' /\ HandAgrees'
    BY <1>2, <1>3 DEF Placement, Lines, HandAgrees
  <1>5. \A q \in Requests : InServe(q)' <=> InServe(q) \/ q = h
    BY <1>2, <1>3 DEF TypeRest, InServe
  <1>6. \A q \in Requests : InPool(q)' <=> InPool(q) /\ q # h
    BY <1>2, <1>3 DEF InPool
  <1>7. InPool(h)
    BY <1>2 DEF InPool
  <1>8. OnePlace'
    BY <1>2, <1>3, <1>5, <1>6, <1>7 DEF Placement, OnePlace, Policy!Queued, InHand
  <1> QED BY <1>2, <1>3, <1>4, <1>8 DEF Placement

\* shutdown(): everything in the pool's queue is cancelled.
LEMMA ShutdownPlaces == ASSUME TypeRest, Placement, CloseShutdown PROVE Placement'
  <1>1. /\ work' = <<>>
        /\ task' = [r \in Requests |-> IF r \in Range(work) THEN "cancelled" ELSE task[r]]
        /\ UNCHANGED <<pending, caller, hand, sched>>
    BY DEF CloseShutdown, UnchangedByClose, policyVars, callerVars
  <1>2. Range(work') = {} /\ NoRepeat(work')
    BY <1>1 DEF Range, NoRepeat
  <1>3. Lines' /\ HandAgrees'
    BY <1>1, <1>2 DEF Placement, Lines, HandAgrees
  <1>4. \A q \in Requests : InServe(q)' <=> InServe(q) \/ InPool(q)
    BY <1>1 DEF InServe, InPool
  <1>5. \A q \in Requests : ~ InPool(q)'
    BY <1>2 DEF InPool
  <1>6. OnePlace'
    BY <1>1, <1>4, <1>5 DEF Placement, OnePlace, Policy!Queued, InHand
  <1> QED BY <1>3, <1>6 DEF Placement

LEMMA PlacementStep == ASSUME TypeRest, Placement, Next PROVE Placement'
  <1>1. CASE \E r \in Requests : Dispatch(r)
    BY <1>1, DispatchPlaces
  <1>2. CASE \E r \in Requests : CallerReturns(r) \/ CallerTimesOut(r)
    BY <1>2, CallersUnmoved, UnmovedKeepsPlaces
  <1>3. CASE SchedulerStep
    BY <1>3, SchedulerUnmoved, UnmovedKeepsPlaces, SelectPlaces, SubmitPlaces DEF SchedulerStep
  <1>4. CASE StartTask
    BY <1>4, StartPlaces
  <1>5. CASE \E r \in Requests : Serve(r)
    BY <1>5, ServeUnmoved, UnmovedKeepsPlaces
  <1>6. CASE CloseStop \/ CloseStep
    BY <1>6, CloseUnmoved, UnmovedKeepsPlaces, ShutdownPlaces DEF CloseStep
  <1> QED BY <1>1, <1>2, <1>3, <1>4, <1>5, <1>6 DEF Next
-----------------------------------------------------------------------------
\* The registry.  A request's future is there from dispatch() to pop().

Popped == {"resolve", "done"}

Registered ==
  /\ UNCHANGED futures
  /\ \A r \in Requests : caller'[r] = "idle" <=> caller[r] = "idle"
  /\ \A r \in Requests : task'[r] \in Popped <=> task[r] \in Popped

LEMMA RegisteredKeepsRegistry == ASSUME RegistryExact, Registered PROVE RegistryExact'
  BY DEF RegistryExact, Registered, Popped

\* What waits in the pool's queue has not been served.
LEMMA PoolUnserved ==
  ASSUME TypeRest, Placement, NEW r \in Range(work) PROVE r \in Requests /\ task[r] = "none"
  <1>1. r \in Requests
    BY DEF TypeRest, Range
  <1> QED BY <1>1 DEF Placement, OnePlace, InPool, InServe

LEMMA CallersRegistered ==
  ASSUME TypeRest, NEW r \in Requests, CallerReturns(r) \/ CallerTimesOut(r)
  PROVE  Registered
  BY DEF TypeRest, CallerReturns, CallerTimesOut, Registered, serveVars

LEMMA SchedulerRegistered == ASSUME SchedulerStep PROVE Registered
  <1> SUFFICES UnchangedBySched
    BY DEF UnchangedBySched, Registered, callerVars, serveVars
  <1> QED BY DEF SchedulerStep, CheckStopped, AcquireSlot, SelectRequest, SelectNothing,
                 ReleaseEmptySlot, BeginWait, WaitTimesOut, Submit, SubmitRefused

LEMMA StartRegistered == ASSUME TypeRest, Placement, StartTask PROVE Registered
  <1>1. Head(work) \in Range(work)
    BY TailOfNoRepeat DEF TypeRest, StartTask, Placement, Lines
  <1>2. Head(work) \in Requests /\ task[Head(work)] = "none"
    BY <1>1, PoolUnserved
  <1>3. task' = [task EXCEPT ![Head(work)] = "mark"] /\ UNCHANGED <<futures, caller>>
    BY DEF StartTask, UnchangedByServe
  <1> QED BY <1>2, <1>3 DEF TypeRest, Registered, Popped

LEMMA CloseRegistered ==
  ASSUME TypeRest, Placement, CloseStop \/ CloseStep PROVE Registered
  <1>1. UNCHANGED <<futures, caller>>
    BY DEF CloseStop, CloseStep, CloseNotify, CloseShutdown, CloseReturn, UnchangedByClose,
           callerVars
  <1>2. CASE CloseShutdown
    <2>1. task' = [r \in Requests |-> IF r \in Range(work) THEN "cancelled" ELSE task[r]]
      BY <1>2 DEF CloseShutdown
    <2>2. \A r \in Requests : task'[r] \in Popped <=> task[r] \in Popped
      BY <2>1, PoolUnserved DEF Popped
    <2> QED BY <1>1, <2>2 DEF Registered
  <1>3. CASE CloseStop \/ CloseNotify \/ CloseReturn
    BY <1>1, <1>3 DEF CloseStop, CloseNotify, CloseReturn, Registered
  <1> QED BY <1>2, <1>3 DEF CloseStep

LEMMA RegistryStep == ASSUME TypeRest, Placement, RegistryExact, Next PROVE RegistryExact'
  <1>1. ASSUME NEW r \in Requests, Dispatch(r) PROVE RegistryExact'
    <2>1. task[r] = "none"
      BY <1>1 DEF Dispatch, Placement, OnePlace, InServe
    <2>2. /\ futures' = futures \cup {r} /\ caller' = [caller EXCEPT ![r] = "waiting"]
          /\ UNCHANGED task
      BY <1>1 DEF Dispatch, serveVars
    <2> QED BY <2>1, <2>2 DEF TypeRest, RegistryExact
  <1>2. ASSUME NEW r \in Requests, PopFuture(r) PROVE RegistryExact'
    <2>1. /\ futures' = futures \ {r} /\ task' = [task EXCEPT ![r] = "resolve"]
          /\ UNCHANGED caller
      BY <1>2 DEF PopFuture, ServeStep, UnchangedByServe
    <2> QED BY <2>1 DEF TypeRest, RegistryExact
  <1>3. ASSUME NEW r \in Requests, Serve(r), ~ PopFuture(r) PROVE Registered
    <2>1. UNCHANGED <<futures, caller>>
      BY <1>3 DEF Serve, MarkResidency, BackendReturns, BackendRaises, ReleaseSlot,
                  ResolveFuture, UnchangedByServe
    <2>2. \/ ServeStep(r, "mark", "call") \/ ServeStep(r, "call", "release")
          \/ ServeStep(r, "release", "pop") \/ ServeStep(r, "resolve", "done")
      BY <1>3 DEF Serve, MarkResidency, BackendReturns, BackendRaises, ReleaseSlot,
                  ResolveFuture
    <2>3. \A q \in Requests : task'[q] \in Popped <=> task[q] \in Popped
      BY <2>2 DEF ServeStep, TypeRest, Popped
    <2> QED BY <2>1, <2>3 DEF Registered
  <1>4. CASE \E r \in Requests : Dispatch(r) \/ CallerReturns(r) \/ CallerTimesOut(r)
    BY <1>1, <1>4, CallersRegistered, RegisteredKeepsRegistry
  <1>5. CASE SchedulerStep \/ StartTask \/ CloseStop \/ CloseStep
    BY <1>5, SchedulerRegistered, StartRegistered, CloseRegistered, RegisteredKeepsRegistry
  <1>6. CASE \E r \in Requests : Serve(r)
    BY <1>2, <1>3, <1>6, RegisteredKeepsRegistry
  <1> QED BY <1>4, <1>5, <1>6 DEF Next
-----------------------------------------------------------------------------
\* Slots.  Most steps move none; the rest move one, or a whole queue of them.

Occupying == {"mark", "call", "release", "cancelled"}
Holding == {"select", "release", "submit", "crashed"}

SlotsUnmoved ==
  /\ UNCHANGED <<slots, work>>
  /\ sched' \in Holding <=> sched \in Holding
  /\ \A r \in Requests : task'[r] \in Occupying <=> task[r] \in Occupying

LEMMA OccupiedIsFinite ==
  /\ Occupied = {r \in Requests : task[r] \in Occupying}
  /\ IsFiniteSet(Occupied) /\ Cardinality(Occupied) \in Nat
  <1>1. Occupied = {r \in Requests : task[r] \in Occupying}
    BY DEF Occupied, InTask, Occupying
  <1>2. Occupied \subseteq Requests
    BY <1>1
  <1> QED BY <1>1, <1>2, DispatcherAssumption, FS_Subset, FS_CardinalityType

LEMMA UnmovedKeepsSlots == ASSUME SlotConservation, SlotsUnmoved PROVE SlotConservation'
  <1>1. Occupied' = Occupied
    BY DEF Occupied, InTask, SlotsUnmoved, Occupying
  <1>2. SchedulerHolds' = SchedulerHolds
    BY DEF SchedulerHolds, SlotsUnmoved, Holding
  <1> QED BY <1>1, <1>2 DEF SlotConservation, SlotsUnmoved

LEMMA CallersKeepSlots ==
  ASSUME NEW r \in Requests, Dispatch(r) \/ CallerReturns(r) \/ CallerTimesOut(r)
  PROVE  SlotsUnmoved
  BY DEF Dispatch, Notify, CallerReturns, CallerTimesOut, SlotsUnmoved, Holding, schedVars,
         serveVars

LEMMA SchedulerSlots == ASSUME TypeRest, HandAgrees, SlotConservation, SchedulerStep
                        PROVE  SlotConservation'
  <1>1. UNCHANGED task
    BY DEF SchedulerStep, CheckStopped, AcquireSlot, SelectRequest, SelectNothing,
           ReleaseEmptySlot, BeginWait, WaitTimesOut, Submit, SubmitRefused, UnchangedBySched,
           serveVars
  <1>2. Cardinality(Occupied)' = Cardinality(Occupied) /\ Cardinality(Occupied) \in Nat
    BY <1>1, OccupiedIsFinite DEF Occupied, InTask
  <1>3. slots \in Nat /\ Len(work) \in Nat
    BY DEF TypeRest
  <1> USE DEF SlotConservation, SchedulerHolds, Goto
  <1>4. CASE AcquireSlot
    BY <1>2, <1>3, <1>4 DEF AcquireSlot
  <1>5. CASE ReleaseEmptySlot
    BY <1>2, <1>3, <1>5 DEF ReleaseEmptySlot
  <1>6. CASE Submit
    <2>1. hand \in Requests
      BY <1>6 DEF Submit, HandAgrees, TypeRest
    <2>2. Len(work') = Len(work) + 1
      BY <1>6, <2>1 DEF Submit, TypeRest
    <2> QED BY <1>2, <1>3, <1>6, <2>2 DEF Submit
  <1>7. CASE \/ CheckStopped \/ \E r \in Requests : SelectRequest(r)
             \/ SelectNothing \/ BeginWait \/ WaitTimesOut \/ SubmitRefused
    <2>1. UNCHANGED <<slots, work>>
      BY <1>7 DEF CheckStopped, SelectRequest, SelectNothing, BeginWait, WaitTimesOut,
                  SubmitRefused
    <2>2. sched' \in Holding <=> sched \in Holding
      BY <1>7 DEF CheckStopped, SelectRequest, SelectNothing, BeginWait, WaitTimesOut,
                  SubmitRefused, Holding
    <2> QED BY <1>1, <2>1, <2>2, UnmovedKeepsSlots DEF SlotsUnmoved
  <1> QED BY <1>4, <1>5, <1>6, <1>7 DEF SchedulerStep

LEMMA StartSlots == ASSUME TypeRest, Placement, SlotConservation, StartTask
                    PROVE  SlotConservation'
  <1> DEFINE h == Head(work)
  <1>1. h \in Range(work) /\ Len(Tail(work)) = Len(work) - 1
    BY TailOfNoRepeat DEF TypeRest, StartTask, Placement, Lines
  <1>2. h \in Requests /\ task[h] = "none"
    BY <1>1, PoolUnserved
  <1>3. /\ work' = Tail(work) /\ task' = [task EXCEPT ![h] = "mark"]
        /\ UNCHANGED <<sched, slots>>
    BY DEF StartTask, UnchangedByServe, schedVars
  <1>4. Occupied' = Occupied \cup {h} /\ h \notin Occupied
    BY <1>2, <1>3 DEF TypeRest, Occupied, InTask
  <1>5. Cardinality(Occupied') = Cardinality(Occupied) + 1
    BY <1>4, OccupiedIsFinite, FS_AddElement
  <1>6. slots \in Nat /\ Len(work) \in Nat /\ Cardinality(Occupied) \in Nat
    BY OccupiedIsFinite DEF TypeRest
  <1>7. Len(work') = Len(work) - 1
    BY <1>1, <1>3
  <1>8. SchedulerHolds' = SchedulerHolds /\ SchedulerHolds \in Nat
    BY <1>3 DEF SchedulerHolds
  <1>9. slots' = slots
    BY <1>3
  <1>10. slots + SchedulerHolds + Len(work) + Cardinality(Occupied) = MaxConcurrency
    BY DEF SlotConservation
  <1>11. slots' + SchedulerHolds' + Len(work') + Cardinality(Occupied') = MaxConcurrency
    BY <1>5, <1>6, <1>7, <1>8, <1>9, <1>10
  <1> QED BY <1>11 DEF SlotConservation

LEMMA ServeSlots == ASSUME TypeRest, SlotConservation, NEW r \in Requests, Serve(r)
                    PROVE  SlotConservation'
  <1>1. UNCHANGED <<sched, work>>
    BY DEF Serve, MarkResidency, BackendReturns, BackendRaises, ReleaseSlot, PopFuture,
           ResolveFuture, UnchangedByServe, schedVars
  <1>2. CASE ReleaseSlot(r)
    <2>1. task[r] = "release" /\ task' = [task EXCEPT ![r] = "pop"] /\ slots' = slots + 1
      BY <1>2 DEF ReleaseSlot, ServeStep
    <2>2. Occupied' = Occupied \ {r} /\ r \in Occupied
      BY <2>1 DEF TypeRest, Occupied, InTask
    <2>3. Cardinality(Occupied') = Cardinality(Occupied) - 1
      BY <2>2, OccupiedIsFinite, FS_RemoveElement
    <2>4. slots \in Nat /\ Len(work) \in Nat /\ Cardinality(Occupied) \in Nat
      BY OccupiedIsFinite DEF TypeRest
    <2> QED BY <1>1, <2>1, <2>3, <2>4 DEF SlotConservation, SchedulerHolds
  <1>3. CASE ~ ReleaseSlot(r)
    <2>1. UNCHANGED slots
      BY <1>3 DEF Serve, MarkResidency, BackendReturns, BackendRaises, PopFuture, ResolveFuture
    <2>2. \/ ServeStep(r, "mark", "call") \/ ServeStep(r, "call", "release")
          \/ ServeStep(r, "pop", "resolve") \/ ServeStep(r, "resolve", "done")
      BY <1>3 DEF Serve, MarkResidency, BackendReturns, BackendRaises, PopFuture, ResolveFuture
    <2>3. \A q \in Requests : task'[q] \in Occupying <=> task[q] \in Occupying
      BY <2>2 DEF ServeStep, TypeRest, Occupying
    <2> QED BY <1>1, <2>1, <2>3, UnmovedKeepsSlots DEF SlotsUnmoved
  <1> QED BY <1>2, <1>3

LEMMA CloseSlots == ASSUME TypeRest, Placement, SlotConservation, CloseStop \/ CloseStep
                    PROVE  SlotConservation'
  <1>1. CASE CloseShutdown
    <2>1. /\ work' = <<>> /\ UNCHANGED <<sched, slots>>
          /\ task' = [r \in Requests |-> IF r \in Range(work) THEN "cancelled" ELSE task[r]]
      BY <1>1 DEF CloseShutdown, UnchangedByClose
    <2>2. Occupied' = Occupied \cup Range(work)
      BY <2>1, PoolUnserved DEF Occupied, InTask
    <2>3. Occupied \cap Range(work) = {}
      BY PoolUnserved DEF Occupied, InTask
    <2>4. IsFiniteSet(Range(work)) /\ Cardinality(Range(work)) = Len(work)
      BY CountOfQueue DEF TypeRest, Placement, Lines
    <2>5. Cardinality(Occupied') =
            Cardinality(Occupied) + Cardinality(Range(work)) - Cardinality({})
      BY <2>2, <2>3, <2>4, OccupiedIsFinite, FS_Union
    <2>6. Len(work') = 0 /\ Cardinality({}) = 0
      BY <2>1, FS_EmptySet
    <2>7. slots \in Nat /\ Len(work) \in Nat /\ Cardinality(Occupied) \in Nat
      BY OccupiedIsFinite DEF TypeRest
    <2> QED BY <2>1, <2>4, <2>5, <2>6, <2>7 DEF SlotConservation, SchedulerHolds
  <1>2. CASE CloseStop \/ CloseNotify \/ CloseReturn
    BY <1>2, UnmovedKeepsSlots DEF CloseStop, CloseNotify, CloseReturn, Notify, SlotsUnmoved,
                                   Holding, UnchangedByClose
  <1> QED BY <1>1, <1>2 DEF CloseStep

LEMMA SlotStep == ASSUME TypeRest, Placement, SlotConservation, Next PROVE SlotConservation'
  <1>1. HandAgrees
    BY DEF Placement
  <1>2. CASE \E r \in Requests : Dispatch(r) \/ CallerReturns(r) \/ CallerTimesOut(r)
    BY <1>2, CallersKeepSlots, UnmovedKeepsSlots
  <1>3. CASE SchedulerStep
    BY <1>1, <1>3, SchedulerSlots
  <1>4. CASE StartTask
    BY <1>4, StartSlots
  <1>5. CASE \E r \in Requests : Serve(r)
    BY <1>5, ServeSlots
  <1>6. CASE CloseStop \/ CloseStep
    BY <1>6, CloseSlots
  <1> QED BY <1>2, <1>3, <1>4, <1>5, <1>6 DEF Next
-----------------------------------------------------------------------------
LEMMA InitIInv == Init => IInv
  <1> SUFFICES ASSUME Init PROVE IInv
    OBVIOUS
  <1> USE DEF Init, Policy!Init, Tracker!ResidencyInit
  <1>1. TypeOK
    <2>1. Untagged \in Tracker!Tags
      BY DEF Untagged, Tracker!Tags
    <2> QED BY <2>1, DispatcherAssumption
            DEF TypeOK, Policy!PolicyTypeOK, Tracker!ResidencyTypeOK, SchedStates, TaskStates
  <1>2. \A t \in Tenants : Range(pending[t]) = {} /\ NoRepeat(pending[t])
    BY DEF Range, NoRepeat
  <1>3. Range(work) = {} /\ NoRepeat(work)
    BY DEF Range, NoRepeat
  <1>4. Lines /\ HandAgrees
    BY <1>2, <1>3 DEF Lines, HandAgrees
  <1>5. \A r \in Requests : ~ Policy!Queued(r) /\ ~ InHand(r) /\ ~ InPool(r) /\ ~ InServe(r)
    BY <1>2, <1>3, DispatcherAssumption
       DEF Policy!Queued, Policy!Range, Range, InHand, InPool, InServe
  <1>6. OnePlace
    BY <1>5 DEF OnePlace
  <1>7. RegistryExact
    BY DEF RegistryExact
  <1>8. SlotConservation
    <2>1. Occupied = {}
      BY DEF Occupied, InTask
    <2> QED BY <2>1, FS_EmptySet, DispatcherAssumption DEF SlotConservation, SchedulerHolds
  <1> QED BY <1>1, <1>4, <1>6, <1>7, <1>8 DEF IInv, Placement

\* The types of the steps, with the bound that conservation gives the count.
LEMMA TypeFromSlots == ASSUME TypeRest, SlotConservation PROVE TypeOK
  <1>1. /\ slots \in Nat /\ Len(work) \in Nat /\ Cardinality(Occupied) \in Nat
        /\ SchedulerHolds \in Nat
    BY OccupiedIsFinite DEF TypeRest, SchedulerHolds
  <1>2. slots \in 0..MaxConcurrency
    BY <1>1, DispatcherAssumption DEF SlotConservation
  <1> QED BY <1>2 DEF TypeRest, TypeOK

LEMMA StepIInv == IInv /\ [Next]_vars => IInv'
  <1> SUFFICES ASSUME IInv, [Next]_vars PROVE IInv'
    OBVIOUS
  <1>1. TypeRest /\ Placement /\ RegistryExact /\ SlotConservation /\ HandAgrees
    BY TypeWeakens DEF IInv, Placement
  <1>2. CASE Next
    <2>1. TypeRest' /\ Placement' /\ RegistryExact' /\ SlotConservation'
      BY <1>1, <1>2, TypeStep, PlacementStep, RegistryStep, SlotStep
    <2>2. (TypeRest /\ SlotConservation => TypeOK)'
      BY TypeFromSlots, PTL
    <2> QED BY <2>1, <2>2 DEF IInv
  <1>3. CASE UNCHANGED vars
    <2> USE <1>3 DEF vars, policyVars, residencyVars, callerVars, schedVars, serveVars
    <2>1. TypeOK'
      BY <1>1 DEF IInv, TypeOK, Policy!PolicyTypeOK, Tracker!ResidencyTypeOK
    <2>2. Unmoved /\ Registered /\ SlotsUnmoved
      BY DEF Unmoved, Registered, SlotsUnmoved
    <2> QED BY <1>1, <2>1, <2>2, UnmovedKeepsPlaces, RegisteredKeepsRegistry,
               UnmovedKeepsSlots DEF IInv
  <1> QED BY <1>2, <1>3

(* Every state the dispatcher can reach satisfies the inductive invariant. *)
THEOREM Invariant == Spec => []IInv
  BY InitIInv, StepIInv, PTL DEF Spec

(* The semaphore's count stays between 0 and max_concurrency, and every    *)
(* variable keeps its type, whatever the workload and the interleaving.    *)
THEOREM TypeCorrect == Spec => []TypeOK
  <1>1. IInv => TypeOK
    BY DEF IInv
  <1> QED BY <1>1, Invariant, PTL

(* No path through _run(), _serve() or close() loses a slot or returns one *)
(* twice.                                                                  *)
THEOREM SlotsConserved == Spec => []SlotConservation
  <1>1. IInv => SlotConservation
    BY DEF IInv
  <1> QED BY <1>1, Invariant, PTL

(* From dispatch() to the end of _serve() a request is in one place only:  *)
(* it is neither lost nor served twice.                                    *)
THEOREM RequestInOnePlace == Spec => []OnePlace
  <1>1. IInv => OnePlace
    BY DEF IInv, Placement
  <1> QED BY <1>1, Invariant, PTL

(* self._futures holds the unserved requests and nothing else: it neither  *)
(* leaks an entry of a caller that timed out nor drops one that is needed. *)
THEOREM RegistryIsExact == Spec => []RegistryExact
  <1>1. IInv => RegistryExact
    BY DEF IInv
  <1> QED BY <1>1, Invariant, PTL
-----------------------------------------------------------------------------
\* The order of starts.  What has been selected is, from the front: in
\* _serve(), in the pool's queue in the same order, in the scheduler's hand.

Selection ==
  /\ NoRepeat(selected)
  /\ \A r \in Requests : r \in Range(selected) <=> InHand(r) \/ InPool(r) \/ InServe(r)

HandIsNewest == \A i \in 1..Len(selected) : InHand(selected[i]) => i = Len(selected)

PoolInOrder ==
  \A i, j \in 1..Len(selected), p, q \in 1..Len(work) :
    i < j /\ work[p] = selected[i] /\ work[q] = selected[j] => p < q

\* Only shutdown() cancels, and nothing is submitted after it.
CancelledAtEnd ==
  /\ ExecutorDown => work = <<>>
  /\ InTask({"cancelled"}) # {} => ExecutorDown

OrderInv == Selection /\ HandIsNewest /\ PoolInOrder /\ CancelledAtEnd /\ StartOrder

Steady ==
  /\ UNCHANGED <<selected, hand, work>>
  /\ \A r \in Requests : /\ task'[r] = "none" <=> task[r] = "none"
                         /\ task'[r] = "cancelled" <=> task[r] = "cancelled"
  /\ ExecutorDown' <=> ExecutorDown

\* A request in _serve() has started or was cancelled.
LEMMA StartedTasks ==
  TypeRest => Started = {r \in Requests : task[r] \notin {"none", "cancelled"}}
  BY DEF TypeRest, Started, InTask, Running, TaskStates

LEMMA SteadyKeepsOrder == ASSUME TypeRest, TypeRest', OrderInv, Steady PROVE OrderInv'
  <1>1. Started' = Started
    <2>1. (TypeRest => Started = {r \in Requests : task[r] \notin {"none", "cancelled"}})'
      BY StartedTasks, PTL
    <2> QED BY <2>1, StartedTasks DEF Steady
  <1>2. Selection' /\ HandIsNewest' /\ PoolInOrder'
    BY DEF OrderInv, Selection, HandIsNewest, PoolInOrder, Steady, InHand, InPool, InServe
  <1>3. CancelledAtEnd'
    BY DEF OrderInv, CancelledAtEnd, Steady, InTask
  <1>4. StartOrder'
    BY <1>1 DEF OrderInv, StartOrder, Steady
  <1> QED BY <1>2, <1>3, <1>4 DEF OrderInv

LEMMA CallersSteady ==
  ASSUME NEW r \in Requests, Dispatch(r) \/ CallerReturns(r) \/ CallerTimesOut(r)
  PROVE  Steady
  BY DEF Dispatch, CallerReturns, CallerTimesOut, Policy!Enqueue, Steady, ExecutorDown,
         policyVars, schedVars, serveVars

LEMMA SchedulerSteady ==
  ASSUME \/ CheckStopped \/ AcquireSlot \/ SelectNothing \/ ReleaseEmptySlot
         \/ BeginWait \/ WaitTimesOut \/ SubmitRefused
  PROVE  Steady
  BY DEF CheckStopped, AcquireSlot, SelectNothing, ReleaseEmptySlot, BeginWait, WaitTimesOut,
         SubmitRefused, UnchangedBySched, Steady, ExecutorDown, policyVars, serveVars

LEMMA ServeSteady == ASSUME TypeRest, NEW r \in Requests, Serve(r) PROVE Steady
  <1>1. UNCHANGED <<selected, hand, work, closer>>
    BY DEF Serve, MarkResidency, BackendReturns, BackendRaises, ReleaseSlot, PopFuture,
           ResolveFuture, UnchangedByServe, policyVars, schedVars
  <1>2. \/ ServeStep(r, "mark", "call") \/ ServeStep(r, "call", "release")
        \/ ServeStep(r, "release", "pop") \/ ServeStep(r, "pop", "resolve")
        \/ ServeStep(r, "resolve", "done")
    BY DEF Serve, MarkResidency, BackendReturns, BackendRaises, ReleaseSlot, PopFuture,
           ResolveFuture
  <1>3. \A q \in Requests : /\ task'[q] = "none" <=> task[q] = "none"
                            /\ task'[q] = "cancelled" <=> task[q] = "cancelled"
    BY <1>2 DEF ServeStep, TypeRest
  <1> QED BY <1>1, <1>3 DEF Steady, ExecutorDown

LEMMA CloseSteady == ASSUME CloseStop \/ CloseNotify \/ CloseReturn PROVE Steady
  BY DEF CloseStop, CloseNotify, CloseReturn, CloseAt, UnchangedByClose, Steady, ExecutorDown,
         policyVars, callerVars

\* select_next(): the newest of the selected, and not started.
LEMMA SelectOrder ==
  ASSUME TypeRest, Placement, OrderInv, NEW r \in Requests, SelectRequest(r)
  PROVE  OrderInv'
  <1> USE DEF OrderInv
  <1>1. /\ selected' = Append(selected, r) /\ hand' = r
        /\ UNCHANGED <<work, task, closer>>
    BY DEF SelectRequest, Policy!Select, UnchangedBySched, serveVars
  <1>2. selected \in Seq(Requests)
    BY DEF TypeRest, Policy!PolicyTypeOK
  <1>3. ~ InHand(r) /\ ~ InPool(r) /\ ~ InServe(r) /\ hand = NoRequest
    BY SelectPlaces DEF Placement, OnePlace
  <1>4. r \notin Range(selected)
    BY <1>3 DEF Selection
  <1>5. /\ Len(selected') = Len(selected) + 1 /\ Len(selected) \in Nat
        /\ selected'[Len(selected) + 1] = r
        /\ \A i \in 1..Len(selected) : selected'[i] = selected[i]
    BY <1>1, <1>2
  <1>6. \A i \in 1..Len(selected) : selected[i] \in Range(selected) /\ selected[i] # r
    BY <1>2, <1>4 DEF Range
  <1>7. Selection'
    <2>1. NoRepeat(selected') /\ Range(selected') = Range(selected) \cup {r}
      BY <1>1, <1>2, <1>4, AppendKeepsNoRepeat, RangeOfAppend DEF Selection
    <2>2. \A q \in Requests : ~ InHand(q)
      BY <1>3, DispatcherAssumption DEF InHand
    <2> QED BY <1>1, <2>1, <2>2 DEF Selection, InHand, InPool, InServe
  <1>8. HandIsNewest'
    BY <1>1, <1>5, <1>6 DEF HandIsNewest, InHand
  <1>9. PoolInOrder'
    <2> SUFFICES ASSUME NEW i \in 1..Len(selected'), NEW j \in 1..Len(selected'),
                        NEW p \in 1..Len(work), NEW q \in 1..Len(work),
                        i < j, work[p] = selected'[i], work[q] = selected'[j]
                 PROVE  p < q
      BY <1>1 DEF PoolInOrder
    <2>1. selected'[j] # r
      <3>1. work[q] \in Range(work)
        BY DEF TypeRest, Range
      <3> QED BY <1>3, <3>1 DEF InPool
    <2>2. i \in 1..Len(selected) /\ j \in 1..Len(selected)
      BY <1>5, <2>1
    <2> QED BY <1>5, <2>2 DEF PoolInOrder
  <1>10. CancelledAtEnd'
    BY <1>1 DEF CancelledAtEnd, ExecutorDown, InTask
  <1>11. StartOrder'
    <2>1. Started' = Started
      BY <1>1 DEF Started, InTask
    <2>2. r \notin Started
      BY <1>3, StartedTasks DEF InServe
    <2> QED BY <1>5, <2>1, <2>2 DEF StartOrder
  <1> QED BY <1>7, <1>8, <1>9, <1>10, <1>11

\* submit(): the newest of the selected goes behind the rest of the pool's queue.
LEMMA SubmitOrder == ASSUME TypeRest, Placement, OrderInv, Submit PROVE OrderInv'
  <1> USE DEF OrderInv
  <1>1. /\ work' = Append(work, hand) /\ hand' = NoRequest /\ ~ ExecutorDown
        /\ UNCHANGED <<selected, task, closer>>
    BY DEF Submit, UnchangedBySched, policyVars, serveVars
  <1>2. hand \in Requests /\ Range(work') = Range(work) \cup {hand}
    BY SubmitPlaces
  <1>3. /\ Len(work') = Len(work) + 1 /\ Len(work) \in Nat
        /\ work'[Len(work) + 1] = hand
        /\ \A p \in 1..Len(work) : work'[p] = work[p]
    BY <1>1, <1>2 DEF TypeRest
  <1>4. Selection'
    <2>1. \A q \in Requests : InHand(q)' \/ InPool(q)' <=> InHand(q) \/ InPool(q)
      BY <1>1, <1>2, DispatcherAssumption DEF InHand, InPool
    <2> QED BY <1>1, <2>1 DEF Selection, InServe
  <1>5. HandIsNewest'
    <2>1. \A i \in 1..Len(selected) : selected[i] \in Requests
      BY DEF TypeRest, Policy!PolicyTypeOK
    <2> QED BY <1>1, <2>1, DispatcherAssumption DEF HandIsNewest, InHand
  <1>6. PoolInOrder'
    <2> SUFFICES ASSUME NEW i \in 1..Len(selected), NEW j \in 1..Len(selected),
                        NEW p \in 1..Len(work'), NEW q \in 1..Len(work'),
                        i < j, work'[p] = selected[i], work'[q] = selected[j]
                 PROVE  p < q
      BY <1>1 DEF PoolInOrder
    <2>1. Len(selected) \in Nat
      BY DEF TypeRest, Policy!PolicyTypeOK
    <2>2. p # Len(work) + 1
      BY <1>3, <2>1 DEF HandIsNewest, InHand
    <2>3. CASE q = Len(work) + 1
      BY <1>3, <2>2, <2>3
    <2>4. CASE q # Len(work) + 1
      BY <1>3, <2>2, <2>4 DEF PoolInOrder
    <2> QED BY <2>3, <2>4
  <1>7. CancelledAtEnd'
    BY <1>1 DEF CancelledAtEnd, ExecutorDown, InTask
  <1>8. StartOrder'
    BY <1>1 DEF StartOrder, Started, InTask
  <1> QED BY <1>4, <1>5, <1>6, <1>7, <1>8

\* A pool thread: whatever was selected before the front of the pool's queue
\* has started, as none of it is cancelled while that queue is not empty.
LEMMA StartOrdered == ASSUME TypeRest, Placement, OrderInv, StartTask PROVE OrderInv'
  <1> USE DEF OrderInv
  <1> DEFINE h == Head(work)
  <1>1. /\ work' = Tail(work) /\ work # <<>> /\ task' = [task EXCEPT ![h] = "mark"]
        /\ UNCHANGED <<selected, hand, closer>>
    BY DEF StartTask, UnchangedByServe, policyVars, schedVars
  <1>2. h \in Requests /\ h \in Range(work) /\ Range(work') = Range(work) \ {h}
    BY StartPlaces
  <1>3. /\ Len(work') = Len(work) - 1 /\ Len(work) \in Nat \ {0} /\ h = work[1]
        /\ \A p \in 1..Len(work') : work'[p] = work[p + 1]
    BY <1>1 DEF TypeRest
  <1>4. InPool(h) /\ ~ InServe(h) /\ task[h] = "none"
    BY <1>2 DEF InPool, InServe, Placement, OnePlace
  <1>5. Started' = Started \cup {h}
    BY <1>1, <1>2 DEF TypeRest, Started, InTask, Running
  <1>6. Selection'
    <2>1. \A q \in Requests : InPool(q)' \/ InServe(q)' <=> InPool(q) \/ InServe(q)
      BY <1>1, <1>2, <1>4 DEF TypeRest, InPool, InServe
    <2> QED BY <1>1, <2>1 DEF Selection, InHand
  <1>7. HandIsNewest'
    BY <1>1 DEF HandIsNewest, InHand
  <1>8. PoolInOrder'
    <2> SUFFICES ASSUME NEW i \in 1..Len(selected), NEW j \in 1..Len(selected),
                        NEW p \in 1..Len(work'), NEW q \in 1..Len(work'),
                        i < j, work'[p] = selected[i], work'[q] = selected[j]
                 PROVE  p < q
      BY <1>1 DEF PoolInOrder
    <2>1. p + 1 \in 1..Len(work) /\ q + 1 \in 1..Len(work)
      BY <1>3
    <2>2. p + 1 < q + 1
      BY <1>3, <2>1 DEF PoolInOrder
    <2> QED BY <2>2
  <1>9. ~ ExecutorDown
    BY <1>1 DEF CancelledAtEnd
  <1>10. CancelledAtEnd'
    BY <1>1, <1>9 DEF CancelledAtEnd, ExecutorDown, InTask, TypeRest
  <1>11. StartOrder'
    <2> SUFFICES ASSUME NEW i \in 1..Len(selected), NEW j \in 1..Len(selected),
                        i < j, selected[j] \in Started \cup {h}
                 PROVE  selected[i] \in Started \cup {h}
      BY <1>1, <1>5 DEF StartOrder
    <2>1. CASE selected[j] \in Started
      BY <2>1 DEF StartOrder
    <2>2. CASE selected[j] = h
      <3>1. Len(selected) \in Nat /\ selected \in Seq(Requests)
        BY DEF TypeRest, Policy!PolicyTypeOK
      <3>2. selected[i] \in Requests /\ selected[i] \in Range(selected)
        BY <3>1 DEF Range
      <3>3. ~ InHand(selected[i])
        BY <3>1 DEF HandIsNewest
      <3>4. ~ InPool(selected[i])
        <4> SUFFICES ASSUME InPool(selected[i]) PROVE FALSE
          OBVIOUS
        <4>1. PICK p \in 1..Len(work) : work[p] = selected[i]
          BY DEF TypeRest, InPool, Range
        <4>2. p < 1
          BY <1>3, <2>2, <4>1 DEF PoolInOrder
        <4> QED BY <4>2
      <3>5. task[selected[i]] # "none"
        BY <3>2, <3>3, <3>4 DEF Selection, InServe
      <3>6. task[selected[i]] # "cancelled"
        BY <1>9, <3>2 DEF CancelledAtEnd, InTask
      <3> QED BY <3>2, <3>5, <3>6, StartedTasks
    <2> QED BY <2>1, <2>2
  <1> QED BY <1>6, <1>7, <1>8, <1>10, <1>11

\* shutdown(): what has not started is cancelled; nothing else changes.
LEMMA ShutdownOrder == ASSUME TypeRest, Placement, OrderInv, CloseShutdown PROVE OrderInv'
  <1> USE DEF OrderInv
  <1>1. /\ work' = <<>> /\ UNCHANGED <<selected, hand>> /\ closer' = "joining"
        /\ task' = [r \in Requests |-> IF r \in Range(work) THEN "cancelled" ELSE task[r]]
    BY DEF CloseShutdown, CloseAt, UnchangedByClose, policyVars
  <1>2. Range(work') = {} /\ Len(work') = 0
    BY <1>1 DEF Range
  <1>3. Started' = Started
    <2>1. \A r \in Requests : r \in Range(work) => task[r] = "none"
      BY PoolUnserved
    <2> QED BY <1>1, <2>1 DEF Started, InTask, Running
  <1>4. Selection'
    <2>1. \A q \in Requests : InPool(q)' \/ InServe(q)' <=> InPool(q) \/ InServe(q)
      BY <1>1, <1>2 DEF InPool, InServe
    <2> QED BY <1>1, <2>1 DEF Selection, InHand
  <1>5. HandIsNewest' /\ PoolInOrder'
    BY <1>1, <1>2 DEF HandIsNewest, InHand, PoolInOrder
  <1>6. CancelledAtEnd' /\ StartOrder'
    BY <1>1, <1>3 DEF CancelledAtEnd, ExecutorDown, StartOrder
  <1> QED BY <1>4, <1>5, <1>6

LEMMA InitOrder == Init => OrderInv
  <1> SUFFICES ASSUME Init PROVE OrderInv
    OBVIOUS
  <1> USE DEF Init, Policy!Init
  <1>1. Len(selected) = 0 /\ Range(selected) = {} /\ Len(work) = 0 /\ Range(work) = {}
    BY DEF Range
  <1>2. Selection
    BY <1>1, DispatcherAssumption DEF Selection, NoRepeat, InHand, InPool, InServe
  <1> QED BY <1>1, <1>2 DEF OrderInv, HandIsNewest, PoolInOrder, CancelledAtEnd, ExecutorDown,
                            InTask, StartOrder

LEMMA StepOrder == IInv /\ IInv' /\ OrderInv /\ [Next]_vars => OrderInv'
  <1> SUFFICES ASSUME IInv, IInv', OrderInv, [Next]_vars PROVE OrderInv'
    OBVIOUS
  <1>1. TypeRest /\ Placement
    BY TypeWeakens DEF IInv
  <1>2. TypeRest'
    BY TypeWeakens, PTL DEF IInv
  <1>3. CASE \E r \in Requests : Dispatch(r) \/ CallerReturns(r) \/ CallerTimesOut(r)
    BY <1>1, <1>2, <1>3, CallersSteady, SteadyKeepsOrder
  <1>4. CASE SchedulerStep
    BY <1>1, <1>2, <1>4, SchedulerSteady, SelectOrder, SubmitOrder, SteadyKeepsOrder
       DEF SchedulerStep
  <1>5. CASE StartTask
    BY <1>1, <1>5, StartOrdered
  <1>6. CASE \E r \in Requests : Serve(r)
    BY <1>1, <1>2, <1>6, ServeSteady, SteadyKeepsOrder
  <1>7. CASE CloseStop \/ CloseStep
    BY <1>1, <1>2, <1>7, CloseSteady, ShutdownOrder, SteadyKeepsOrder DEF CloseStep
  <1>8. CASE UNCHANGED vars
    <2>1. Steady
      BY <1>8 DEF Steady, ExecutorDown, vars, policyVars, schedVars, serveVars
    <2> QED BY <1>1, <1>2, <2>1, SteadyKeepsOrder
  <1> QED BY <1>3, <1>4, <1>5, <1>6, <1>7, <1>8 DEF Next

LEMMA OrderInvariant == Spec => []OrderInv
  BY StepOrder, InitOrder, Invariant, PTL DEF Spec

(* Pool threads start requests in the order the policy selected them, also *)
(* when close() cancels some of them (async_dispatcher.py:21).             *)
THEOREM StartsInOrder == Spec => []StartOrder
  <1>1. OrderInv => StartOrder
    BY DEF OrderInv
  <1> QED BY <1>1, OrderInvariant, PTL
-----------------------------------------------------------------------------
\* Tags.  The tracker has seen the models of the marked requests, and the
\* first request to be marked is the cold one, in whatever order they come.

SeenIsMarked == seen = {ModelOf[r] : r \in Marked}

FirstIsCold ==
  /\ \A m \in seen : \E r \in Marked : ModelOf[r] = m /\ tag[r].cold
  /\ \A r, q \in Marked : ModelOf[r] = ModelOf[q] /\ tag[r].cold /\ tag[q].cold => r = q

ColdInv == SeenIsMarked /\ FirstIsCold

LEMMA UnmarkedKeepsCold ==
  ASSUME ColdInv, UNCHANGED <<seen, tag>>, Marked' = Marked PROVE ColdInv'
  BY DEF ColdInv, SeenIsMarked, FirstIsCold

\* mark(): cold if and only if no request of the model was marked before.
LEMMA MarkKeepsCold ==
  ASSUME TypeRest, ColdInv, NEW r \in Requests, MarkResidency(r) PROVE ColdInv'
  <1> USE DEF ColdInv
  <1> DEFINE m == ModelOf[r]
  <1>1. /\ task[r] = "mark" /\ task' = [task EXCEPT ![r] = "call"]
        /\ tag' = [tag EXCEPT ![r] = Tracker!Classify(m)]
        /\ seen' = seen \cup {m}
    BY DEF MarkResidency, ServeStep, Tracker!Mark
  <1>2. Marked' = Marked \cup {r} /\ r \notin Marked /\ Marked \subseteq Requests
    BY <1>1 DEF TypeRest, Marked, InTask
  <1>3. tag'[r].cold <=> m \notin seen
    BY <1>1 DEF TypeRest, Tracker!Classify
  <1>4. \A q \in Marked : tag'[q] = tag[q]
    BY <1>1, <1>2 DEF TypeRest
  <1>5. SeenIsMarked'
    BY <1>1, <1>2 DEF SeenIsMarked
  <1>6. ASSUME NEW n \in seen' PROVE \E q \in Marked' : ModelOf[q] = n /\ tag'[q].cold
    <2>1. CASE n \in seen
      BY <1>2, <1>4, <2>1 DEF FirstIsCold
    <2>2. CASE n \notin seen
      BY <1>1, <1>2, <1>3, <2>2
    <2> QED BY <2>1, <2>2
  <1>7. ASSUME NEW a \in Marked', NEW b \in Marked', ModelOf[a] = ModelOf[b],
               tag'[a].cold, tag'[b].cold
        PROVE  a = b
    <2>1. CASE a # r /\ b # r
      BY <1>2, <1>4, <1>7, <2>1 DEF FirstIsCold
    <2>2. CASE a = r \/ b = r
      BY <1>2, <1>3, <1>7, <2>2 DEF SeenIsMarked
    <2> QED BY <2>1, <2>2
  <1> QED BY <1>5, <1>6, <1>7 DEF FirstIsCold

LEMMA StepCold == IInv /\ ColdInv /\ [Next]_vars => ColdInv'
  <1> SUFFICES ASSUME IInv, ColdInv, [Next]_vars PROVE ColdInv'
    OBVIOUS
  <1>1. TypeRest /\ Placement
    BY TypeWeakens DEF IInv
  <1>2. CASE \E r \in Requests : Dispatch(r) \/ CallerReturns(r) \/ CallerTimesOut(r)
    BY <1>2, UnmarkedKeepsCold
       DEF Dispatch, CallerReturns, CallerTimesOut, residencyVars, serveVars, Marked, InTask
  <1>3. CASE SchedulerStep
    <2>1. UnchangedBySched
      BY <1>3 DEF SchedulerStep, CheckStopped, AcquireSlot, SelectRequest, SelectNothing,
                  ReleaseEmptySlot, BeginWait, WaitTimesOut, Submit, SubmitRefused
    <2> QED BY <2>1, UnmarkedKeepsCold
            DEF UnchangedBySched, residencyVars, serveVars, Marked, InTask
  <1>4. CASE StartTask
    <2>1. Head(work) \in Requests /\ task[Head(work)] = "none"
      BY <1>1, <1>4, StartPlaces, PoolUnserved
    <2>2. /\ task' = [task EXCEPT ![Head(work)] = "mark"] /\ UNCHANGED <<seen, tag>>
      BY <1>4 DEF StartTask, residencyVars
    <2>3. Marked' = Marked
      BY <1>1, <2>1, <2>2 DEF TypeRest, Marked, InTask
    <2> QED BY <2>2, <2>3, UnmarkedKeepsCold
  <1>5. ASSUME NEW r \in Requests, Serve(r) PROVE ColdInv'
    <2>1. CASE MarkResidency(r)
      BY <1>1, <2>1, MarkKeepsCold
    <2>2. CASE ~ MarkResidency(r)
      <3>1. UNCHANGED <<seen, tag>>
        BY <1>5, <2>2 DEF Serve, BackendReturns, BackendRaises, ReleaseSlot, PopFuture,
                          ResolveFuture, residencyVars
      <3>2. \/ ServeStep(r, "call", "release") \/ ServeStep(r, "release", "pop")
            \/ ServeStep(r, "pop", "resolve") \/ ServeStep(r, "resolve", "done")
        BY <1>5, <2>2 DEF Serve, BackendReturns, BackendRaises, ReleaseSlot, PopFuture,
                          ResolveFuture
      <3>3. Marked' = Marked
        BY <1>1, <3>2 DEF ServeStep, TypeRest, Marked, InTask
      <3> QED BY <3>1, <3>3, UnmarkedKeepsCold
    <2> QED BY <2>1, <2>2
  <1>6. CASE CloseStop \/ CloseNotify \/ CloseReturn
    BY <1>6, UnmarkedKeepsCold
       DEF CloseStop, CloseNotify, CloseReturn, UnchangedByClose, residencyVars, Marked, InTask
  <1>7. CASE CloseShutdown
    <2>1. /\ task' = [r \in Requests |-> IF r \in Range(work) THEN "cancelled" ELSE task[r]]
          /\ UNCHANGED <<seen, tag>>
      BY <1>7 DEF CloseShutdown, UnchangedByClose, residencyVars
    <2>2. \A r \in Requests : r \in Range(work) => task[r] = "none"
      BY <1>1, PoolUnserved
    <2>3. Marked' = Marked
      BY <2>1, <2>2 DEF Marked, InTask
    <2> QED BY <2>1, <2>3, UnmarkedKeepsCold
  <1>8. CASE UNCHANGED vars
    BY <1>8, UnmarkedKeepsCold DEF vars, residencyVars, serveVars, Marked, InTask
  <1> QED BY <1>2, <1>3, <1>4, <1>5, <1>6, <1>7, <1>8 DEF Next, CloseStep

LEMMA ColdInvariant == Spec => []ColdInv
  <1>1. Init => ColdInv
    BY DEF Init, Tracker!ResidencyInit, ColdInv, SeenIsMarked, FirstIsCold, Marked, InTask
  <1> QED BY <1>1, StepCold, Invariant, PTL DEF Spec

(* Every model that was served has exactly one request tagged cold, in     *)
(* whatever order the pool threads call mark() (residency.py).             *)
THEOREM OneColdRequest == Spec => []OneColdPerModel
  <1>1. ColdInv => OneColdPerModel
    <2> SUFFICES ASSUME ColdInv, NEW m \in Models
                 PROVE  Cardinality({r \in Marked : ModelOf[r] = m /\ tag[r].cold})
                          = IF \E r \in Marked : ModelOf[r] = m THEN 1 ELSE 0
      BY DEF OneColdPerModel
    <2> DEFINE C == {r \in Marked : ModelOf[r] = m /\ tag[r].cold}
    <2>1. CASE \E r \in Marked : ModelOf[r] = m
      <3>1. PICK r \in Marked : ModelOf[r] = m /\ tag[r].cold
        BY <2>1 DEF ColdInv, SeenIsMarked, FirstIsCold
      <3>2. C = {r}
        BY <3>1 DEF ColdInv, FirstIsCold
      <3>3. Cardinality(C) = 1
        BY <3>2, FS_Singleton
      <3> QED BY <2>1, <3>3
    <2>2. CASE ~ \E r \in Marked : ModelOf[r] = m
      <3>1. C = {}
        BY <2>2
      <3> QED BY <2>2, <3>1, FS_EmptySet
    <2> QED BY <2>1, <2>2
  <1> QED BY <1>1, ColdInvariant, PTL
-----------------------------------------------------------------------------
\* One slot.  select_next() is asked only when every request selected before
\* has given the slot back, so they are marked in the order of selection.

GaveSlotBack == {"pop", "resolve", "done"}

OneAtATime == \A i \in 1..(Len(selected) - 1) : task[selected[i]] \in GaveSlotBack

LastIsNewest ==
  LET n == Len(selected)
      m(k) == IF k = 0 THEN NoModel ELSE ModelOf[selected[k]]
  IN  last = IF n = 0 \/ selected[n] \in Marked THEN m(n) ELSE m(n - 1)

SerialInv == OneAtATime /\ LastIsNewest /\ TagsFollowSelection

LEMMA UnmarkedKeepsSerial ==
  ASSUME SerialInv, UNCHANGED <<selected, last, tag>>, Marked' = Marked,
         \A r \in Requests : task[r] \in GaveSlotBack => task'[r] \in GaveSlotBack,
         selected \in Seq(Requests)
  PROVE  SerialInv'
  <1>1. OneAtATime'
    <2>1. Len(selected) \in Nat /\ \A i \in 1..Len(selected) : selected[i] \in Requests
      OBVIOUS
    <2> QED BY <2>1 DEF SerialInv, OneAtATime
  <1>2. LastIsNewest'
    BY DEF SerialInv, LastIsNewest
  <1>3. TagsFollowSelection'
    BY DEF SerialInv, TagsFollowSelection
  <1> QED BY <1>1, <1>2, <1>3 DEF SerialInv

\* select_next() with the only slot in hand: nothing else holds it.
LEMMA SelectSerial ==
  ASSUME MaxConcurrency = 1, IInv, OrderInv, SerialInv, NEW r \in Requests, SelectRequest(r)
  PROVE  SerialInv'
  <1>0. TypeRest /\ Placement
    BY TypeWeakens DEF IInv
  <1>1. /\ selected' = Append(selected, r) /\ sched = "select"
        /\ UNCHANGED <<task, last, tag>>
    BY DEF SelectRequest, Goto, Policy!Select, UnchangedBySched, residencyVars, serveVars
  <1>2. selected \in Seq(Requests) /\ Len(selected) \in Nat
    BY <1>0 DEF TypeRest, Policy!PolicyTypeOK
  <1>3. Len(work) = 0 /\ Cardinality(Occupied) = 0
    <2>1. slots \in Nat /\ Len(work) \in Nat /\ Cardinality(Occupied) \in Nat
      BY <1>0, OccupiedIsFinite DEF TypeRest
    <2>2. slots + 1 + Len(work) + Cardinality(Occupied) = 1
      BY <1>1 DEF IInv, SlotConservation, SchedulerHolds
    <2> QED BY <2>1, <2>2
  <1>4. Occupied = {} /\ Range(work) = {}
    <2>1. Occupied = {}
      BY <1>3, OccupiedIsFinite, FS_EmptySet
    <2>2. Range(work) = {}
      BY <1>0, <1>3 DEF TypeRest, Range
    <2> QED BY <2>1, <2>2
  <1>5. \A i \in 1..Len(selected) : selected[i] \in Requests /\ task[selected[i]] \in GaveSlotBack
    <2> TAKE i \in 1..Len(selected)
    <2>1. selected[i] \in Requests /\ selected[i] \in Range(selected)
      BY <1>2 DEF Range
    <2>2. hand = NoRequest
      BY <1>0, <1>1 DEF Placement, HandAgrees
    <2>3. task[selected[i]] # "none"
      BY <1>4, <2>1, <2>2, DispatcherAssumption
         DEF OrderInv, Selection, InHand, InPool, InServe
    <2>4. task[selected[i]] \notin {"mark", "call", "release", "cancelled"}
      BY <1>4, <2>1 DEF Occupied, InTask
    <2> QED BY <1>0, <2>1, <2>3, <2>4 DEF TypeRest, TaskStates, GaveSlotBack
  <1>6. \A i \in 1..Len(selected) : selected[i] \in Marked
    BY <1>5 DEF Marked, InTask, GaveSlotBack
  <1>7. /\ Len(selected') = Len(selected) + 1 /\ selected'[Len(selected) + 1] = r
        /\ \A i \in 1..Len(selected) : selected'[i] = selected[i]
    BY <1>1, <1>2
  <1>8. Marked' = Marked /\ r \notin Marked
    <2>1. ~ InServe(r)
      BY <1>0, SelectPlaces DEF Placement, OnePlace
    <2> QED BY <1>1, <2>1 DEF Marked, InTask, InServe
  <1>9. OneAtATime'
    BY <1>1, <1>2, <1>5, <1>7 DEF OneAtATime
  <1>10. LastIsNewest'
    <2>1. CASE Len(selected) = 0
      BY <1>1, <1>2, <1>7, <1>8, <2>1 DEF SerialInv, LastIsNewest
    <2>2. CASE Len(selected) # 0
      <3>1. Len(selected) \in 1..Len(selected)
        BY <1>2, <2>2
      <3>2. last = ModelOf[selected[Len(selected)]]
        BY <1>6, <2>2, <3>1 DEF SerialInv, LastIsNewest
      <3> QED BY <1>1, <1>2, <1>7, <1>8, <2>2, <3>1, <3>2 DEF LastIsNewest
    <2> QED BY <2>1, <2>2
  <1>11. TagsFollowSelection'
    <2> SUFFICES ASSUME NEW i \in 1..Len(selected'), selected'[i] \in Marked
                 PROVE  tag[selected'[i]]
                          = [cold   |-> \A k \in 1..(i - 1) :
                                          ModelOf[selected'[k]] # ModelOf[selected'[i]],
                             switch |-> i > 1 /\ ModelOf[selected'[i - 1]] # ModelOf[selected'[i]]]
      BY <1>1, <1>8 DEF TagsFollowSelection
    <2>1. i \in 1..Len(selected)
      BY <1>2, <1>7, <1>8
    <2>2. \A k \in 1..(i - 1) : selected'[k] = selected[k]
      BY <1>2, <1>7, <2>1
    <2>3. i > 1 => selected'[i - 1] = selected[i - 1]
      BY <1>2, <2>1, <2>2
    <2> QED BY <1>7, <2>1, <2>2, <2>3 DEF SerialInv, TagsFollowSelection
  <1> QED BY <1>9, <1>10, <1>11 DEF SerialInv

\* mark(): the newest of the selected, after all the others.
LEMMA MarkSerial ==
  ASSUME IInv, OrderInv, ColdInv, SerialInv, NEW r \in Requests, MarkResidency(r)
  PROVE  SerialInv'
  <1> DEFINE n == Len(selected)
  <1>0. TypeRest
    BY TypeWeakens DEF IInv
  <1>1. /\ task[r] = "mark" /\ task' = [task EXCEPT ![r] = "call"]
        /\ tag' = [tag EXCEPT ![r] = Tracker!Classify(ModelOf[r])]
        /\ last' = ModelOf[r] /\ UNCHANGED selected
    BY DEF MarkResidency, ServeStep, Tracker!Mark, UnchangedByServe, policyVars
  <1>2. selected \in Seq(Requests) /\ n \in Nat
    BY <1>0 DEF TypeRest, Policy!PolicyTypeOK
  <1>3. PICK i \in 1..n : selected[i] = r
    BY <1>1, <1>2 DEF OrderInv, Selection, InServe, Range
  <1>4. i = n
    BY <1>1, <1>2, <1>3 DEF SerialInv, OneAtATime, GaveSlotBack
  <1>5. n \in Nat \ {0} /\ selected[n] = r
    BY <1>3, <1>4
  <1>6. Marked' = Marked \cup {r} /\ r \notin Marked
    BY <1>0, <1>1 DEF TypeRest, Marked, InTask
  <1>7. \A k \in 1..(n - 1) : selected[k] \in Requests /\ selected[k] \in Marked /\ selected[k] # r
    <2> TAKE k \in 1..(n - 1)
    <2>1. selected[k] \in Requests
      BY <1>2
    <2>2. task[selected[k]] \in GaveSlotBack
      BY DEF SerialInv, OneAtATime
    <2> QED BY <1>1, <2>1, <2>2 DEF Marked, InTask, GaveSlotBack
  <1>8. Marked = {selected[k] : k \in 1..(n - 1)}
    <2> SUFFICES ASSUME NEW q \in Marked PROVE \E k \in 1..(n - 1) : q = selected[k]
      BY <1>7
    <2>1. q \in Requests /\ q \in Range(selected)
      BY DEF Marked, InTask, OrderInv, Selection, InServe
    <2>2. PICK k \in 1..n : selected[k] = q
      BY <1>2, <2>1 DEF Range
    <2>3. k # n
      BY <1>5, <1>6, <2>2
    <2> QED BY <1>2, <2>2, <2>3
  <1>9. seen = {ModelOf[selected[k]] : k \in 1..(n - 1)}
    BY <1>8 DEF ColdInv, SeenIsMarked
  <1>10. last = IF n = 1 THEN NoModel ELSE ModelOf[selected[n - 1]]
    BY <1>5, <1>6 DEF SerialInv, LastIsNewest
  <1>11. OneAtATime'
    BY <1>0, <1>1, <1>7 DEF SerialInv, OneAtATime, TypeRest
  <1>12. LastIsNewest'
    BY <1>1, <1>5, <1>6 DEF LastIsNewest
  <1>13. tag'[r] = [cold   |-> \A k \in 1..(n - 1) : ModelOf[selected[k]] # ModelOf[r],
                    switch |-> n > 1 /\ ModelOf[selected[n - 1]] # ModelOf[r]]
    <2>1. tag'[r] = [cold |-> ModelOf[r] \notin seen,
                     switch |-> last # NoModel /\ last # ModelOf[r]]
      BY <1>0, <1>1 DEF TypeRest, Tracker!Classify
    <2>2. (ModelOf[r] \notin seen) = \A k \in 1..(n - 1) : ModelOf[selected[k]] # ModelOf[r]
      BY <1>9
    <2>3. (last # NoModel /\ last # ModelOf[r])
            = (n > 1 /\ ModelOf[selected[n - 1]] # ModelOf[r])
      <3>1. CASE n = 1
        BY <1>10, <3>1
      <3>2. CASE n # 1
        <4>0. \A x \in Nat \ {0} : x # 1 => x > 1 /\ x - 1 \in 1..(x - 1)
          OBVIOUS
        <4>1. n > 1 /\ n - 1 \in 1..(n - 1)
          BY <1>5, <3>2, <4>0
        <4>2. ModelOf[selected[n - 1]] \in Models
          BY <1>7, <4>1, DispatcherAssumption
        <4>3. last = ModelOf[selected[n - 1]] /\ last # NoModel
          BY <1>10, <3>2, <4>2, DispatcherAssumption
        <4> QED BY <4>1, <4>3
      <3> QED BY <3>1, <3>2
    <2> QED BY <2>1, <2>2, <2>3
  <1>14. TagsFollowSelection'
    <2> SUFFICES ASSUME NEW k \in 1..n, selected[k] \in Marked'
                 PROVE  tag'[selected[k]]
                          = [cold   |-> \A j \in 1..(k - 1) :
                                          ModelOf[selected[j]] # ModelOf[selected[k]],
                             switch |-> k > 1 /\ ModelOf[selected[k - 1]] # ModelOf[selected[k]]]
      BY <1>1 DEF TagsFollowSelection
    <2>1. CASE k = n
      BY <1>5, <1>13, <2>1
    <2>2. CASE k # n
      <3>1. k \in 1..(n - 1)
        BY <1>5, <2>2
      <3>2. selected[k] \in Marked /\ tag'[selected[k]] = tag[selected[k]]
        BY <1>0, <1>1, <1>7, <3>1 DEF TypeRest
      <3> QED BY <3>2 DEF SerialInv, TagsFollowSelection
    <2> QED BY <2>1, <2>2
  <1> QED BY <1>11, <1>12, <1>14 DEF SerialInv

LEMMA StepSerial ==
  ASSUME MaxConcurrency = 1, IInv, OrderInv, ColdInv, SerialInv, [Next]_vars
  PROVE  SerialInv'
  <1>1. TypeRest /\ Placement
    BY TypeWeakens DEF IInv
  <1>2. selected \in Seq(Requests)
    BY <1>1 DEF TypeRest, Policy!PolicyTypeOK
  <1>3. CASE \E r \in Requests : Dispatch(r) \/ CallerReturns(r) \/ CallerTimesOut(r)
    <2>1. UNCHANGED <<selected, last, tag, task>>
      BY <1>3 DEF Dispatch, CallerReturns, CallerTimesOut, Policy!Enqueue, policyVars,
                  residencyVars, serveVars
    <2> QED BY <1>2, <2>1, UnmarkedKeepsSerial DEF Marked, InTask
  <1>4. CASE SchedulerStep
    <2>1. CASE \E r \in Requests : SelectRequest(r)
      BY <2>1, SelectSerial
    <2>2. CASE ~ \E r \in Requests : SelectRequest(r)
      <3>1. UNCHANGED <<selected, last, tag, task>>
        BY <1>4, <2>2
           DEF SchedulerStep, CheckStopped, AcquireSlot, SelectNothing, ReleaseEmptySlot,
               BeginWait, WaitTimesOut, Submit, SubmitRefused, UnchangedBySched, policyVars,
               residencyVars, serveVars
      <3> QED BY <1>2, <3>1, UnmarkedKeepsSerial DEF Marked, InTask
    <2> QED BY <2>1, <2>2
  <1>5. CASE StartTask
    <2>1. Head(work) \in Requests /\ task[Head(work)] = "none"
      BY <1>1, <1>5, StartPlaces, PoolUnserved
    <2>2. /\ task' = [task EXCEPT ![Head(work)] = "mark"]
          /\ UNCHANGED <<selected, last, tag>>
      BY <1>5 DEF StartTask, UnchangedByServe, policyVars, residencyVars
    <2>3. Marked' = Marked
      BY <1>1, <2>1, <2>2 DEF TypeRest, Marked, InTask
    <2>4. \A r \in Requests : task[r] \in GaveSlotBack => task'[r] \in GaveSlotBack
      BY <1>1, <2>1, <2>2 DEF TypeRest, GaveSlotBack
    <2> QED BY <1>2, <2>2, <2>3, <2>4, UnmarkedKeepsSerial
  <1>6. ASSUME NEW r \in Requests, Serve(r) PROVE SerialInv'
    <2>1. CASE MarkResidency(r)
      BY <2>1, MarkSerial
    <2>2. CASE ~ MarkResidency(r)
      <3>1. UNCHANGED <<selected, last, tag>>
        BY <1>6, <2>2 DEF Serve, BackendReturns, BackendRaises, ReleaseSlot, PopFuture,
                          ResolveFuture, UnchangedByServe, policyVars, residencyVars
      <3>2. \/ ServeStep(r, "call", "release") \/ ServeStep(r, "release", "pop")
            \/ ServeStep(r, "pop", "resolve") \/ ServeStep(r, "resolve", "done")
        BY <1>6, <2>2 DEF Serve, BackendReturns, BackendRaises, ReleaseSlot, PopFuture,
                          ResolveFuture
      <3>3. Marked' = Marked
        BY <1>1, <3>2 DEF ServeStep, TypeRest, Marked, InTask
      <3>4. \A q \in Requests : task[q] \in GaveSlotBack => task'[q] \in GaveSlotBack
        BY <1>1, <3>2 DEF ServeStep, TypeRest, GaveSlotBack
      <3> QED BY <1>2, <3>1, <3>3, <3>4, UnmarkedKeepsSerial
    <2> QED BY <2>1, <2>2
  <1>7. CASE CloseStop \/ CloseNotify \/ CloseReturn
    <2>1. UNCHANGED <<selected, last, tag, task>>
      BY <1>7 DEF CloseStop, CloseNotify, CloseReturn, UnchangedByClose, policyVars,
                  residencyVars
    <2> QED BY <1>2, <2>1, UnmarkedKeepsSerial DEF Marked, InTask
  <1>8. CASE CloseShutdown
    <2>1. /\ task' = [r \in Requests |-> IF r \in Range(work) THEN "cancelled" ELSE task[r]]
          /\ UNCHANGED <<selected, last, tag>>
      BY <1>8 DEF CloseShutdown, UnchangedByClose, policyVars, residencyVars
    <2>2. \A r \in Requests : r \in Range(work) => task[r] = "none"
      BY <1>1, PoolUnserved
    <2>3. Marked' = Marked
      BY <2>1, <2>2 DEF Marked, InTask
    <2>4. \A r \in Requests : task[r] \in GaveSlotBack => task'[r] \in GaveSlotBack
      BY <2>1, <2>2 DEF GaveSlotBack
    <2> QED BY <1>2, <2>1, <2>3, <2>4, UnmarkedKeepsSerial
  <1>9. CASE UNCHANGED vars
    <2>1. UNCHANGED <<selected, last, tag, task>>
      BY <1>9 DEF vars, policyVars, residencyVars, serveVars
    <2> QED BY <1>2, <2>1, UnmarkedKeepsSerial DEF Marked, InTask
  <1> QED BY <1>3, <1>4, <1>5, <1>6, <1>7, <1>8, <1>9 DEF Next, CloseStep

LEMMA InitSerial == Init => SerialInv
  <1> SUFFICES ASSUME Init PROVE SerialInv
    OBVIOUS
  <1>1. Len(selected) = 0 /\ last = NoModel
    BY DEF Init, Policy!Init, Tracker!ResidencyInit
  <1> QED BY <1>1 DEF SerialInv, OneAtATime, LastIsNewest, TagsFollowSelection

(* "called from the dispatcher worker threads in serve order, so the       *)
(* classification reflects the actual dispatch sequence"                   *)
(* (residency.py:11): with max_concurrency 1 it does.  With more the run   *)
(* ConcurrentTags shows that it need not.                                  *)
THEOREM SerialTagsFollowSelection ==
  ASSUME MaxConcurrency = 1 PROVE Spec => []TagsFollowSelection
  <1>1. IInv /\ OrderInv /\ ColdInv /\ SerialInv /\ [Next]_vars => SerialInv'
    BY StepSerial
  <1>2. SerialInv => TagsFollowSelection
    BY DEF SerialInv
  <1> QED BY <1>1, <1>2, InitSerial, Invariant, OrderInvariant, ColdInvariant, PTL DEF Spec
-----------------------------------------------------------------------------
\* The refinement.  A request is in one place, so its progress is that place's.

Status == [r \in Requests |-> Progress(r)]

InService == {"mark", "call", "release"}
Answering == {"pop", "resolve"}

ProgressIs(r, place, value) == place => Progress(r) = value

ProgressByPlace ==
  \A r \in Requests :
    /\ ProgressIs(r, caller[r] = "idle", "new")
    /\ ProgressIs(r, Policy!Queued(r), "queued")
    /\ ProgressIs(r, InHand(r) /\ sched # "crashed", "admitted")
    /\ ProgressIs(r, InHand(r) /\ sched = "crashed", "dropped")
    /\ ProgressIs(r, InPool(r) \/ task[r] \in InService, "admitted")
    /\ ProgressIs(r, task[r] = "cancelled", "dropped")
    /\ ProgressIs(r, task[r] \in Answering, "served")
    /\ ProgressIs(r, task[r] = "done", "answered")

LEMMA ProgressKnown == TypeRest /\ OnePlace => ProgressByPlace
  <1> SUFFICES ASSUME TypeRest, OnePlace, NEW r \in Requests
               PROVE  /\ caller[r] = "idle" => Progress(r) = "new"
                      /\ Policy!Queued(r) => Progress(r) = "queued"
                      /\ InHand(r) /\ sched # "crashed" => Progress(r) = "admitted"
                      /\ InHand(r) /\ sched = "crashed" => Progress(r) = "dropped"
                      /\ InPool(r) \/ task[r] \in InService => Progress(r) = "admitted"
                      /\ task[r] = "cancelled" => Progress(r) = "dropped"
                      /\ task[r] \in Answering => Progress(r) = "served"
                      /\ task[r] = "done" => Progress(r) = "answered"
    BY DEF ProgressByPlace, ProgressIs
  <1>1. /\ caller[r] = "idle" => ~ Policy!Queued(r) /\ ~ InHand(r) /\ ~ InPool(r) /\ ~ InServe(r)
        /\ Policy!Queued(r) => ~ InHand(r) /\ ~ InPool(r) /\ ~ InServe(r)
        /\ InHand(r) => ~ InPool(r) /\ ~ InServe(r)
        /\ InPool(r) => ~ InServe(r)
        /\ InServe(r) <=> task[r] # "none"
    BY DEF OnePlace, InServe
  <1> QED BY <1>1 DEF Progress, InService, Answering

\* A request that does not move and whose stage in _serve() has the same name
\* for the abstract dispatcher has the same progress.
Stays(q) ==
  /\ caller'[q] = "idle" <=> caller[q] = "idle"
  /\ Policy!Queued(q)' <=> Policy!Queued(q)
  /\ InHand(q)' <=> InHand(q)
  /\ InHand(q) => (sched' = "crashed" <=> sched = "crashed")
  /\ InPool(q)' <=> InPool(q)
  /\ \/ task'[q] = task[q]
     \/ task'[q] \in InService /\ task[q] \in InService
     \/ task'[q] \in Answering /\ task[q] \in Answering

LEMMA StaysSame ==
  ASSUME TypeRest, OnePlace, ProgressByPlace, ProgressByPlace', NEW q \in Requests, Stays(q)
  PROVE  Progress(q)' = Progress(q)
  <1>1. \/ caller[q] = "idle" \/ Policy!Queued(q) \/ InHand(q) \/ InPool(q)
        \/ task[q] \in InService \/ task[q] = "cancelled"
        \/ task[q] \in Answering \/ task[q] = "done"
    BY DEF OnePlace, InServe, TypeRest, TaskStates, InService, Answering
  <1> USE DEF Stays, ProgressByPlace, ProgressIs
  <1>2. CASE caller[q] = "idle" \/ Policy!Queued(q) \/ InPool(q)
    BY <1>2
  <1>3. CASE InHand(q)
    BY <1>3
  <1>4. CASE \/ task[q] \in InService \/ task[q] = "cancelled"
             \/ task[q] \in Answering \/ task[q] = "done"
    BY <1>4 DEF InService, Answering
  <1> QED BY <1>1, <1>2, <1>3, <1>4

\* One request moves on, the others stay.
LEMMA OneMoves ==
  ASSUME NEW r \in Requests, NEW v, Progress(r)' = v,
         \A q \in Requests \ {r} : Progress(q)' = Progress(q)
  PROVE  Status' = [Status EXCEPT ![r] = v]
  BY DEF Status

LEMMA NoneMoves ==
  ASSUME \A q \in Requests : Progress(q)' = Progress(q) PROVE Status' = Status
  BY DEF Status

\* What each of the following lemmas knows of the two states of a step.
Settled == TypeRest /\ Placement /\ ProgressByPlace

\* dispatch() is accepted: new, then queued.
LEMMA DispatchAccepts ==
  ASSUME Settled, ProgressByPlace', NEW r \in Requests, Dispatch(r) PROVE Admission!Accept(r)
  <1> USE DEF Settled, Placement
  <1>1. /\ caller[r] = "idle" /\ caller' = [caller EXCEPT ![r] = "waiting"]
        /\ UNCHANGED <<hand, work, task, closer>>
        /\ sched' = "crashed" <=> sched = "crashed"
    BY DEF Dispatch, Notify, serveVars
  <1>2. \A q \in Requests : Policy!Queued(q)' <=> Policy!Queued(q) \/ q = r
    BY DispatchPlaces
  <1>3. Progress(r) = "new" /\ Progress(r)' = "queued"
    BY <1>1, <1>2 DEF ProgressByPlace, ProgressIs
  <1>4. \A q \in Requests \ {r} : Stays(q)
    BY <1>1, <1>2 DEF TypeRest, Stays, InHand, InPool
  <1>5. Status' = [Status EXCEPT ![r] = "queued"]
    BY <1>3, <1>4, StaysSame, OneMoves
  <1> QED BY <1>1, <1>3, <1>5 DEF Status, Stopped, Admission!Accept, Admission!Move

\* The requests that hold a slot for the abstract dispatcher: what is in the
\* pool's queue, what is in _serve() and has its slot, what was cancelled.
LEMMA HoldingCount ==
  ASSUME Settled, SlotConservation, sched = "select"
  PROVE  Admission!Cardinality(Admission!Holding) < MaxConcurrency
  <1> USE DEF Settled, Placement
  <1>1. Admission!Holding = Range(work) \cup Occupied
    <2> SUFFICES ASSUME NEW q \in Requests
                 PROVE  Progress(q) \in {"admitted", "dropped"} <=> InPool(q) \/ q \in Occupied
      <3>1. Range(work) \subseteq Requests
        BY DEF TypeRest, Range
      <3> QED BY <3>1 DEF Admission!Holding, Occupied, InTask, InPool
    <2>1. ~ InHand(q)
      BY DispatcherAssumption DEF HandAgrees, InHand
    <2>2. \/ caller[q] = "idle" \/ Policy!Queued(q) \/ InPool(q)
          \/ task[q] \in InService \/ task[q] = "cancelled"
          \/ task[q] \in Answering \/ task[q] = "done"
      BY <2>1 DEF OnePlace, InServe, TypeRest, TaskStates, InService, Answering
    <2>3. q \in Occupied <=> task[q] \in InService \cup {"cancelled"}
      BY DEF Occupied, InTask, InService
    <2>4. InPool(q) => task[q] = "none"
      BY DEF OnePlace, InServe
    <2>5. caller[q] = "idle" \/ Policy!Queued(q) => task[q] = "none" /\ ~ InPool(q)
      BY DEF OnePlace, InServe
    <2>6. CASE caller[q] = "idle" \/ Policy!Queued(q)
      BY <2>3, <2>5, <2>6 DEF ProgressByPlace, ProgressIs, InService
    <2>7. CASE InPool(q) \/ task[q] \in InService \cup {"cancelled"}
      BY <2>3, <2>7 DEF ProgressByPlace, ProgressIs
    <2>8. CASE task[q] \in Answering \cup {"done"}
      BY <2>3, <2>4, <2>8 DEF ProgressByPlace, ProgressIs, InService, Answering
    <2> QED BY <2>2, <2>6, <2>7, <2>8
  <1>2. Range(work) \cap Occupied = {}
    BY PoolUnserved DEF Occupied, InTask
  <1>3. IsFiniteSet(Range(work)) /\ Cardinality(Range(work)) = Len(work)
    BY CountOfQueue DEF TypeRest, Lines
  <1>4. Admission!Cardinality(Admission!Holding) = Cardinality(Admission!Holding)
    BY DEF Admission!Cardinality, Cardinality
  <1>5. Cardinality(Admission!Holding) = Len(work) + Cardinality(Occupied)
    <2>1. Cardinality(Range(work) \cup Occupied)
            = Cardinality(Range(work)) + Cardinality(Occupied) - Cardinality({})
      BY <1>2, <1>3, OccupiedIsFinite, FS_Union
    <2>2. Cardinality({}) = 0 /\ Len(work) \in Nat /\ Cardinality(Occupied) \in Nat
      BY FS_EmptySet, OccupiedIsFinite DEF TypeRest
    <2> QED BY <1>1, <1>3, <2>1, <2>2
  <1>6. slots \in Nat /\ Len(work) \in Nat /\ Cardinality(Occupied) \in Nat /\ SchedulerHolds = 1
    BY OccupiedIsFinite DEF TypeRest, SchedulerHolds
  <1> QED BY <1>5, <1>6, <1>4, DispatcherAssumption DEF SlotConservation

\* select_next() admits: it is asked only with a slot in hand.
LEMMA SelectAdmits ==
  ASSUME Settled, ProgressByPlace', SlotConservation, NEW r \in Requests, SelectRequest(r)
  PROVE  Admission!Admit(r)
  <1> USE DEF Settled, Placement
  <1>1. /\ sched = "select" /\ sched' = "submit" /\ hand' = r
        /\ UNCHANGED <<caller, work, task, closer>>
    BY DEF SelectRequest, Goto, UnchangedBySched, callerVars, serveVars
  <1>2. /\ Policy!Queued(r) /\ hand = NoRequest
        /\ \A q \in Requests : Policy!Queued(q)' <=> Policy!Queued(q) /\ q # r
    BY SelectPlaces
  <1>3. Progress(r) = "queued" /\ Progress(r)' = "admitted"
    BY <1>1, <1>2 DEF ProgressByPlace, ProgressIs, InHand
  <1>4. \A q \in Requests \ {r} : Stays(q)
    BY <1>1, <1>2, DispatcherAssumption DEF Stays, InHand, InPool
  <1>5. Status' = [Status EXCEPT ![r] = "admitted"]
    BY <1>3, <1>4, StaysSame, OneMoves
  <1> QED BY <1>1, <1>3, <1>5, HoldingCount
          DEF Status, Stopped, Admission!Admit, Admission!Move

\* submit(): the admitted request changes hands, which nobody outside can see.
LEMMA SubmitUnseen == ASSUME Settled, ProgressByPlace', Submit PROVE Status' = Status
  <1> USE DEF Settled, Placement
  <1>1. /\ sched = "submit" /\ sched' = "loop" /\ hand' = NoRequest
        /\ UNCHANGED <<pending, caller, task>>
    BY DEF Submit, Goto, UnchangedBySched, policyVars, callerVars, serveVars
  <1>2. PICK h \in Requests : h = hand /\ Range(work') = Range(work) \cup {h}
    BY SubmitPlaces
  <1>3. Progress(h) = "admitted" /\ Progress(h)' = "admitted"
    BY <1>1, <1>2 DEF ProgressByPlace, ProgressIs, InHand, InPool
  <1>4. \A q \in Requests \ {h} : Stays(q)
    BY <1>1, <1>2, DispatcherAssumption DEF Stays, InHand, InPool, Policy!Queued
  <1> QED BY <1>3, <1>4, StaysSame, NoneMoves

LEMMA DropOf ==
  ASSUME NEW S, Stopped, Stopped', \A q \in S : Status[q] = "admitted",
         Status' = [q \in Requests |-> IF q \in S THEN "dropped" ELSE Status[q]]
  PROVE  Admission!Drop(S)
  BY Zenon DEF Status, Admission!Drop

\* submit() refused: the request in hand is dropped with the dispatcher closed.
LEMMA RefusalDrops ==
  ASSUME Settled, ProgressByPlace', SubmitRefused
  PROVE  \E S \in SUBSET Requests : Admission!Drop(S)
  <1> USE DEF Settled, Placement
  <1>1. /\ sched = "submit" /\ sched' = "crashed" /\ ExecutorDown
        /\ UNCHANGED <<pending, hand, work, caller, task, closer>>
    BY DEF SubmitRefused, Goto, UnchangedBySched, policyVars, callerVars, serveVars
  <1>2. PICK h \in Requests : h = hand
    BY <1>1 DEF HandAgrees, TypeRest
  <1>3. Progress(h) = "admitted" /\ Progress(h)' = "dropped"
    BY <1>1, <1>2 DEF ProgressByPlace, ProgressIs, InHand
  <1>4. \A q \in Requests \ {h} : Stays(q)
    BY <1>1, <1>2 DEF Stays, InHand, InPool, Policy!Queued
  <1>5. \A q \in Requests \ {h} : Progress(q)' = Progress(q)
    BY <1>4, StaysSame
  <1>6. Status' = [q \in Requests |-> IF q \in {h} THEN "dropped" ELSE Status[q]]
    BY <1>3, <1>5 DEF Status
  <1>7. Stopped /\ Stopped'
    BY <1>1 DEF Stopped, ExecutorDown
  <1>8. \A q \in {h} : Status[q] = "admitted"
    BY <1>2, <1>3 DEF Status
  <1>9. Admission!Drop({h})
    BY <1>6, <1>7, <1>8, DropOf
  <1> QED BY <1>9

\* shutdown(): all that an executor had not started is dropped at once.
LEMMA ShutdownDrops ==
  ASSUME Settled, ProgressByPlace', CloseShutdown
  PROVE  \E S \in SUBSET Requests : Admission!Drop(S)
  <1> USE DEF Settled, Placement
  <1>1. /\ work' = <<>> /\ closer = "notified" /\ closer' = "joining"
        /\ task' = [r \in Requests |-> IF r \in Range(work) THEN "cancelled" ELSE task[r]]
        /\ UNCHANGED <<pending, caller, hand, sched>>
    BY DEF CloseShutdown, CloseAt, UnchangedByClose, policyVars, callerVars
  <1>2. Range(work) \subseteq Requests /\ Range(work') = {}
    BY <1>1 DEF TypeRest, Range
  <1>3. \A q \in Range(work) : Progress(q) = "admitted" /\ Progress(q)' = "dropped"
    BY <1>1, <1>2 DEF ProgressByPlace, ProgressIs, InPool
  <1>4. \A q \in Requests \ Range(work) : Stays(q)
    BY <1>1, <1>2 DEF Stays, InHand, InPool, Policy!Queued
  <1>5. \A q \in Requests \ Range(work) : Progress(q)' = Progress(q)
    BY <1>4, StaysSame
  <1>6. Status' = [q \in Requests |-> IF q \in Range(work) THEN "dropped" ELSE Status[q]]
    BY <1>3, <1>5 DEF Status
  <1>7. Stopped /\ Stopped'
    BY <1>1 DEF Stopped
  <1>8. \A q \in Range(work) : Status[q] = "admitted"
    BY <1>2, <1>3 DEF Status
  <1> QED BY <1>2, <1>6, <1>7, <1>8, DropOf

\* A pool thread takes an admitted request, which nobody outside can see.
LEMMA StartUnseen == ASSUME Settled, ProgressByPlace', StartTask PROVE Status' = Status
  <1> USE DEF Settled, Placement
  <1>0. PICK h \in Requests : h = Head(work)
    BY StartPlaces
  <1>1. /\ task' = [task EXCEPT ![h] = "mark"]
        /\ UNCHANGED <<pending, caller, hand, sched>>
    BY <1>0 DEF StartTask, UnchangedByServe, policyVars, schedVars
  <1>2. h \in Range(work) /\ Range(work') = Range(work) \ {h}
    BY <1>0, StartPlaces
  <1>3. Progress(h) = "admitted" /\ Progress(h)' = "admitted"
    BY <1>1, <1>2 DEF ProgressByPlace, ProgressIs, InPool, InService, TypeRest
  <1>4. \A q \in Requests \ {h} : Stays(q)
    BY <1>1, <1>2 DEF Stays, InHand, InPool, Policy!Queued, TypeRest
  <1> QED BY <1>3, <1>4, StaysSame, NoneMoves

\* _serve(): giving the slot back is the service, resolving the answer.
LEMMA ServeRefines ==
  ASSUME Settled, ProgressByPlace', NEW r \in Requests, Serve(r)
  PROVE  \/ Admission!Serve(r) \/ Admission!Answer(r)
         \/ Status' = Status /\ (Stopped' <=> Stopped)
  <1> USE DEF Settled, Placement
  <1>1. UNCHANGED <<pending, caller, hand, sched, work, closer>>
    BY DEF Serve, MarkResidency, BackendReturns, BackendRaises, ReleaseSlot, PopFuture,
           ResolveFuture, UnchangedByServe, policyVars, schedVars
  <1>2. Stopped' <=> Stopped
    BY <1>1 DEF Stopped
  <1>3. ASSUME NEW from, NEW to, ServeStep(r, from, to)
        PROVE  \A q \in Requests \ {r} : Stays(q)
    BY <1>1, <1>3 DEF ServeStep, Stays, InHand, InPool, Policy!Queued, TypeRest
  <1>4. CASE ServeStep(r, "mark", "call") \/ ServeStep(r, "call", "release")
             \/ ServeStep(r, "pop", "resolve")
    <2>1. \/ task[r] \in InService /\ task'[r] \in InService
          \/ task[r] \in Answering /\ task'[r] \in Answering
      BY <1>4 DEF ServeStep, InService, Answering, TypeRest
    <2>2. Stays(r)
      BY <1>1, <2>1 DEF Stays, InHand, InPool, Policy!Queued
    <2>3. Status' = Status
      BY <1>3, <1>4, <2>2, StaysSame, NoneMoves
    <2> QED BY <1>2, <2>3
  <1>5. CASE ServeStep(r, "release", "pop")
    <2>1. Progress(r) = "admitted" /\ Progress(r)' = "served"
      BY <1>5 DEF ServeStep, ProgressByPlace, ProgressIs, InService, Answering, TypeRest
    <2>2. Status' = [Status EXCEPT ![r] = "served"]
      BY <1>3, <1>5, <2>1, StaysSame, OneMoves
    <2> QED BY <1>2, <2>1, <2>2 DEF Status, Stopped, Admission!Serve, Admission!Move
  <1>6. CASE ServeStep(r, "resolve", "done")
    <2>1. Progress(r) = "served" /\ Progress(r)' = "answered"
      BY <1>6 DEF ServeStep, ProgressByPlace, ProgressIs, Answering, TypeRest
    <2>2. Status' = [Status EXCEPT ![r] = "answered"]
      BY <1>3, <1>6, <2>1, StaysSame, OneMoves
    <2> QED BY <1>2, <2>1, <2>2 DEF Status, Stopped, Admission!Answer, Admission!Move
  <1> QED BY <1>4, <1>5, <1>6 DEF Serve, MarkResidency, BackendReturns, BackendRaises,
                                  ReleaseSlot, PopFuture, ResolveFuture

\* The scheduler's other steps and the callers' move no request.
LEMMA IdleStepUnseen ==
  ASSUME Settled, ProgressByPlace',
         \/ CheckStopped \/ AcquireSlot \/ SelectNothing \/ ReleaseEmptySlot
         \/ BeginWait \/ WaitTimesOut
         \/ \E r \in Requests : CallerReturns(r) \/ CallerTimesOut(r)
  PROVE  Status' = Status
  <1> USE DEF Settled, Placement
  <1>1. UNCHANGED <<pending, hand, work, task>>
    BY DEF CheckStopped, AcquireSlot, SelectNothing, ReleaseEmptySlot, BeginWait, WaitTimesOut,
           CallerReturns, CallerTimesOut, UnchangedBySched, policyVars, schedVars, serveVars
  <1>2. \A q \in Requests : caller'[q] = "idle" <=> caller[q] = "idle"
    BY DEF CheckStopped, AcquireSlot, SelectNothing, ReleaseEmptySlot, BeginWait, WaitTimesOut,
           CallerReturns, CallerTimesOut, UnchangedBySched, callerVars, TypeRest
  <1>3. sched' = "crashed" <=> sched = "crashed"
    BY DEF CheckStopped, AcquireSlot, SelectNothing, ReleaseEmptySlot, BeginWait, WaitTimesOut,
           CallerReturns, CallerTimesOut, Goto, schedVars
  <1>4. \A q \in Requests : Stays(q)
    BY <1>1, <1>2, <1>3 DEF Stays, InHand, InPool, Policy!Queued
  <1> QED BY <1>4, StaysSame, NoneMoves

\* close() moves no request but in its shutdown().
LEMMA CloseUnseen ==
  ASSUME Settled, ProgressByPlace', CloseStop \/ CloseNotify \/ CloseReturn
  PROVE  Status' = Status
  <1> USE DEF Settled, Placement
  <1>1. UNCHANGED <<pending, caller, hand, work, task>>
    BY DEF CloseStop, CloseNotify, CloseReturn, UnchangedByClose, policyVars, callerVars
  <1>2. sched' = "crashed" <=> sched = "crashed"
    BY DEF CloseStop, CloseNotify, CloseReturn, Notify
  <1>3. \A q \in Requests : Stays(q)
    BY <1>1, <1>2 DEF Stays, InHand, InPool, Policy!Queued
  <1> QED BY <1>3, StaysSame, NoneMoves

\* A step of the dispatcher is a step of AdmissionControl or a stutter.
LEMMA StepRefines ==
  ASSUME IInv, ProgressByPlace, ProgressByPlace', [Next]_vars
  PROVE  [Admission!Next]_(Admission!vars)
  <1> DEFINE Unseen == Status' = Status /\ (Stopped' <=> Stopped)
  <1>1. Settled /\ SlotConservation
    BY TypeWeakens DEF IInv, Settled
  <1>2. Unseen => UNCHANGED Admission!vars
    BY DEF Status, Admission!vars
  <1>3. ASSUME NEW r \in Requests, Dispatch(r) PROVE Admission!Next
    BY <1>1, <1>3, DispatchAccepts DEF Admission!Next
  <1>4. ASSUME NEW r \in Requests, SelectRequest(r) PROVE Admission!Next
    BY <1>1, <1>4, SelectAdmits DEF Admission!Next
  <1>5. CASE SubmitRefused
    BY <1>1, <1>5, RefusalDrops DEF Admission!Next
  <1>6. CASE CloseShutdown
    BY <1>1, <1>6, ShutdownDrops DEF Admission!Next
  <1>7. CASE Submit \/ StartTask
    <2>1. Status' = Status
      BY <1>1, <1>7, SubmitUnseen, StartUnseen
    <2>2. Stopped' <=> Stopped
      BY <1>7 DEF Submit, StartTask, UnchangedBySched, UnchangedByServe, Stopped
    <2> QED BY <1>2, <2>1, <2>2
  <1>8. ASSUME NEW r \in Requests, Serve(r) PROVE Admission!Next \/ Unseen
    BY <1>1, <1>8, ServeRefines DEF Admission!Next
  <1>9. CASE \/ CheckStopped \/ AcquireSlot \/ SelectNothing \/ ReleaseEmptySlot
             \/ BeginWait \/ WaitTimesOut
             \/ \E r \in Requests : CallerReturns(r) \/ CallerTimesOut(r)
    <2>1. Status' = Status
      BY <1>1, <1>9, IdleStepUnseen
    <2>2. Stopped' <=> Stopped
      BY <1>9 DEF CheckStopped, AcquireSlot, SelectNothing, ReleaseEmptySlot, BeginWait,
                  WaitTimesOut, CallerReturns, CallerTimesOut, UnchangedBySched, Stopped
    <2> QED BY <1>2, <2>1, <2>2
  <1>10. CASE CloseStop \/ CloseNotify \/ CloseReturn
    <2>1. Status' = Status /\ Stopped'
      BY <1>1, <1>10, CloseUnseen DEF CloseStop, CloseNotify, CloseReturn, CloseAt, Stopped
    <2> QED BY <2>1 DEF Status, Admission!Next, Admission!Close
  <1>11. CASE UNCHANGED vars
    <2>1. Unseen
      BY <1>11 DEF vars, policyVars, residencyVars, callerVars, schedVars, serveVars, Status,
                   Progress, Policy!Queued, InHand, InPool, Stopped
    <2> QED BY <1>2, <2>1
  <1> QED BY <1>2, <1>3, <1>4, <1>5, <1>6, <1>7, <1>8, <1>9, <1>10, <1>11
          DEF Next, SchedulerStep, CloseStep

(* The threads, queues and futures of async_dispatcher.py implement        *)
(* AdmissionControl: at most max_concurrency requests admitted, each       *)
(* served and answered once, none dropped before close().                  *)
THEOREM ImplementsAdmissionControl == Spec => ImplementsAdmission
  <1>1. IInv => ProgressByPlace
    BY TypeWeakens, ProgressKnown DEF IInv, Placement
  <1>2. Init => Admission!Init
    <2> SUFFICES ASSUME Init PROVE Admission!Init
      OBVIOUS
    <2>1. \A r \in Requests : Progress(r) = "new"
      BY <1>1, InitIInv DEF Init, ProgressByPlace, ProgressIs
    <2>2. (~ Stopped) = TRUE
      BY DEF Init, Stopped
    <2> QED BY <2>1, <2>2 DEF Admission!Init
  <1>3. IInv /\ ProgressByPlace /\ ProgressByPlace' /\ [Next]_vars
          => [Admission!Next]_(Admission!vars)
    BY StepRefines
  <1> QED BY <1>1, <1>2, <1>3, Invariant, PTL DEF Spec, ImplementsAdmission, Admission!Spec
=============================================================================
