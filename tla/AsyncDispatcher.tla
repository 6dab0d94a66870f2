--------------------------- MODULE AsyncDispatcher ---------------------------
(***************************************************************************)
(* gateway/dispatcher/async_dispatcher.py.  Callers enqueue under the      *)
(* condition's lock and block on a future; one scheduler thread takes a    *)
(* slot, asks the policy for a request and submits it to a thread pool;    *)
(* a pool thread marks residency, calls the backend, gives the slot back   *)
(* and resolves the future; close() stops all of it.                       *)
(*                                                                         *)
(* The condition's lock, the tracker's lock, the semaphore, the executor's *)
(* queue and each future make single steps atomic; between two such steps  *)
(* any other thread may run, and every action below is one of them.        *)
(* The policy is any implementation of AdmissionPolicy.                    *)
(***************************************************************************)
EXTENDS Integers, Sequences, FiniteSets, Functions

CONSTANTS
  Requests, Tenants, TenantOf,
  Models, NoModel,
  ModelOf,          \* request.model or "unknown"
  NoRequest,        \* the scheduler's local `request` when it is None
  MaxConcurrency,   \* the semaphore's count and the pool's size
  Impatient,        \* the requests dispatched with a timeout
  WaitOnClose       \* close(wait=...)

ASSUME DispatcherAssumption ==
  /\ TenantOf \in [Requests -> Tenants]
  /\ ModelOf \in [Requests -> Models]
  /\ IsFiniteSet(Requests)
  /\ NoModel \notin Models
  /\ NoRequest \notin Requests
  /\ MaxConcurrency \in Nat \ {0}
  /\ Impatient \subseteq Requests
  /\ WaitOnClose \in BOOLEAN

VARIABLES
  pending, selected,   \* the policy (AdmissionPolicy)
  seen, last,          \* self.tracker (ResidencyTracker)
  caller,              \* where each dispatch() call is
  futures,             \* the keys of self._futures
  resolved,            \* the requests whose future has a result
  sched,               \* where the scheduler thread is in _run
  hand,                \* its local `request`
  slots,               \* the count of self._slots
  work,                \* the executor's queue of submitted requests
  task,                \* where each request is in _serve
  tag,                 \* the cold/switch tag mark() returned for it
  closer               \* where close() is

policyVars == <<pending, selected>>
residencyVars == <<seen, last>>
callerVars == <<caller, futures, resolved>>
schedVars == <<sched, hand>>
serveVars == <<task, tag>>
vars == <<policyVars, residencyVars, callerVars, schedVars, slots, work,
          serveVars, closer>>

Policy == INSTANCE AdmissionPolicy
Tracker == INSTANCE ResidencyTracker

Untagged == [cold |-> FALSE, switch |-> FALSE]

TaskStates == {"none", "mark", "call", "release", "pop", "resolve", "done", "cancelled"}
Running == {"mark", "call", "release", "pop", "resolve"}
SchedStates == {"loop", "acquire", "select", "release", "wait", "waiting",
                "submit", "exited", "crashed"}

InTask(S) == {r \in Requests : task[r] \in S}

\* shutdown() has been entered: submit() raises from now on.
ExecutorDown == closer \in {"joining", "closed"}

Stopped == closer # "open"      \* self._stopped

TypeOK ==
  /\ Policy!PolicyTypeOK
  /\ Tracker!ResidencyTypeOK
  /\ caller \in [Requests -> {"idle", "waiting", "returned", "timedout"}]
  /\ futures \subseteq Requests
  /\ resolved \subseteq Requests
  /\ sched \in SchedStates
  /\ hand \in Requests \cup {NoRequest}
  /\ slots \in 0..MaxConcurrency
  /\ work \in Seq(Requests)
  /\ task \in [Requests -> TaskStates]
  /\ tag \in [Requests -> Tracker!Tags]
  /\ closer \in {"open", "stopped", "notified", "joining", "closed"}

Init ==
  /\ Policy!Init
  /\ Tracker!ResidencyInit
  /\ caller = [r \in Requests |-> "idle"]
  /\ futures = {} /\ resolved = {}
  /\ sched = "loop" /\ hand = NoRequest
  /\ slots = MaxConcurrency
  /\ work = <<>>
  /\ task = [r \in Requests |-> "none"]
  /\ tag = [r \in Requests |-> Untagged]
  /\ closer = "open"
-----------------------------------------------------------------------------
\* dispatch(): its callers.

\* A notify wakes the scheduler only if it is already in wait().
Notify == sched' = IF sched = "waiting" THEN "loop" ELSE sched

Dispatch(r) ==
  /\ caller[r] = "idle"
  /\ Policy!Enqueue(r)
  /\ futures' = futures \cup {r}
  /\ caller' = [caller EXCEPT ![r] = "waiting"]
  /\ Notify
  /\ UNCHANGED <<residencyVars, resolved, hand, slots, work, serveVars, closer>>

CallerReturns(r) ==
  /\ caller[r] = "waiting" /\ r \in resolved
  /\ caller' = [caller EXCEPT ![r] = "returned"]
  /\ UNCHANGED <<policyVars, residencyVars, futures, resolved, schedVars, slots,
                 work, serveVars, closer>>

\* future.result(timeout) raises; the request stays wherever it is.
CallerTimesOut(r) ==
  /\ caller[r] = "waiting" /\ r \in Impatient \ resolved
  /\ caller' = [caller EXCEPT ![r] = "timedout"]
  /\ UNCHANGED <<policyVars, residencyVars, futures, resolved, schedVars, slots,
                 work, serveVars, closer>>
-----------------------------------------------------------------------------
\* _run(): the scheduler thread.

Goto(from, to) == sched = from /\ sched' = to

UnchangedBySched == UNCHANGED <<residencyVars, callerVars, serveVars, closer>>

\* The stop flag never looked at.
CheckNothing ==
  /\ Goto("loop", "acquire")
  /\ UnchangedBySched /\ UNCHANGED <<policyVars, hand, slots, work>>

CheckStopped ==
  /\ Goto("loop", IF Stopped THEN "exited" ELSE "acquire")
  /\ UnchangedBySched /\ UNCHANGED <<policyVars, hand, slots, work>>

\* acquire(blocking=False), its answer ignored.
AcquireUnchecked ==
  /\ Goto("acquire", "select")
  /\ slots' = slots - 1
  /\ UnchangedBySched /\ UNCHANGED <<policyVars, hand, work>>

AcquireSlot ==
  /\ slots > 0
  /\ Goto("acquire", "select")
  /\ slots' = slots - 1
  /\ UnchangedBySched /\ UNCHANGED <<policyVars, hand, work>>

SelectRequest(r) ==
  /\ Goto("select", "submit")
  /\ Policy!Select(r)
  /\ hand' = r
  /\ UnchangedBySched /\ UNCHANGED <<slots, work>>

SelectNothing ==
  /\ Goto("select", "release")
  /\ Policy!NothingQueued
  /\ UnchangedBySched /\ UNCHANGED <<policyVars, hand, slots, work>>

ReleaseEmptySlot ==
  /\ Goto("release", "wait")
  /\ slots' = slots + 1
  /\ UnchangedBySched /\ UNCHANGED <<policyVars, hand, work>>

BeginWait ==
  /\ Goto("wait", "waiting")
  /\ UnchangedBySched /\ UNCHANGED <<policyVars, hand, slots, work>>

\* A wait() without a timeout.
WaitForever == FALSE

\* The 0.5 s of wait(timeout=0.5) have passed.
WaitTimesOut ==
  /\ Goto("waiting", "loop")
  /\ UnchangedBySched /\ UNCHANGED <<policyVars, hand, slots, work>>

\* The selected request forgotten on the way to the pool.
SubmitNothing ==
  /\ ~ ExecutorDown
  /\ Goto("submit", "loop")
  /\ hand' = NoRequest
  /\ UnchangedBySched /\ UNCHANGED <<policyVars, slots, work>>

Submit ==
  /\ ~ ExecutorDown
  /\ Goto("submit", "loop")
  /\ work' = Append(work, hand)
  /\ hand' = NoRequest
  /\ UnchangedBySched /\ UNCHANGED <<policyVars, slots>>

\* submit() raises after shutdown(); nothing in _run catches it.
SubmitRefused ==
  /\ ExecutorDown
  /\ Goto("submit", "crashed")
  /\ UnchangedBySched /\ UNCHANGED <<policyVars, hand, slots, work>>

SchedulerStep ==
  \/ CheckStopped \/ AcquireSlot
  \/ \E r \in Requests : SelectRequest(r)
  \/ SelectNothing \/ ReleaseEmptySlot \/ BeginWait \/ WaitTimesOut
  \/ Submit \/ SubmitRefused
-----------------------------------------------------------------------------
\* _serve(): the pool's threads.

ServeStep(r, from, to) == task[r] = from /\ task' = [task EXCEPT ![r] = to]

UnchangedByServe == UNCHANGED <<policyVars, caller, schedVars, closer>>

\* A stack where the executor has a queue: the newest submission starts first.
StartNewest ==
  /\ work # <<>> /\ Cardinality(InTask(Running)) < MaxConcurrency
  /\ task' = [task EXCEPT ![work[Len(work)]] = "mark"]
  /\ work' = SubSeq(work, 1, Len(work) - 1)
  /\ UnchangedByServe
  /\ UNCHANGED <<residencyVars, futures, resolved, slots, tag>>

\* An idle thread of the pool takes the oldest submitted request.
StartTask ==
  /\ work # <<>> /\ Cardinality(InTask(Running)) < MaxConcurrency
  /\ task' = [task EXCEPT ![Head(work)] = "mark"]
  /\ work' = Tail(work)
  /\ UnchangedByServe
  /\ UNCHANGED <<residencyVars, futures, resolved, slots, tag>>

MarkResidency(r) ==
  /\ ServeStep(r, "mark", "call")
  /\ tag' = [tag EXCEPT ![r] = Tracker!Classify(ModelOf[r])]
  /\ Tracker!Mark(ModelOf[r])
  /\ UnchangedByServe
  /\ UNCHANGED <<futures, resolved, slots, work>>

\* complete() returns a RequestResult.
BackendReturns(r) ==
  /\ ServeStep(r, "call", "release")
  /\ UnchangedByServe
  /\ UNCHANGED <<residencyVars, futures, resolved, slots, work, tag>>

\* The failure path without the finally clause.
RaiseKeepsSlot(r) ==
  /\ ServeStep(r, "call", "pop")
  /\ UnchangedByServe
  /\ UNCHANGED <<residencyVars, futures, resolved, slots, work, tag>>

\* complete() raises: _failure() makes the result, and finally still runs.
BackendRaises(r) ==
  /\ ServeStep(r, "call", "release")
  /\ UnchangedByServe
  /\ UNCHANGED <<residencyVars, futures, resolved, slots, work, tag>>

ReleaseSlot(r) ==
  /\ ServeStep(r, "release", "pop")
  /\ slots' = slots + 1
  /\ UnchangedByServe
  /\ UNCHANGED <<residencyVars, futures, resolved, work, tag>>

\* The future looked up and left in the registry.
PopKeepsFuture(r) ==
  /\ ServeStep(r, "pop", "resolve")
  /\ UnchangedByServe
  /\ UNCHANGED <<residencyVars, futures, resolved, slots, work, tag>>

PopFuture(r) ==
  /\ ServeStep(r, "pop", "resolve")
  /\ futures' = futures \ {r}
  /\ UnchangedByServe
  /\ UNCHANGED <<residencyVars, resolved, slots, work, tag>>

ResolveFuture(r) ==
  /\ ServeStep(r, "resolve", "done")
  /\ resolved' = resolved \cup {r}
  /\ UnchangedByServe
  /\ UNCHANGED <<residencyVars, futures, slots, work, tag>>

Serve(r) ==
  \/ MarkResidency(r) \/ BackendReturns(r) \/ BackendRaises(r)
  \/ ReleaseSlot(r) \/ PopFuture(r) \/ ResolveFuture(r)
-----------------------------------------------------------------------------
\* close(): one call of it.

CloseAt(from, to) == closer = from /\ closer' = to

UnchangedByClose ==
  UNCHANGED <<policyVars, residencyVars, callerVars, hand, slots, tag>>

CloseStop ==
  /\ CloseAt("open", "stopped")
  /\ UnchangedByClose /\ UNCHANGED <<sched, work, task>>

CloseNotify ==
  /\ CloseAt("stopped", "notified")
  /\ Notify
  /\ UnchangedByClose /\ UNCHANGED <<work, task>>

\* shutdown(cancel_futures=True): what has not started never will.
CloseShutdown ==
  /\ CloseAt("notified", "joining")
  /\ task' = [r \in Requests |-> IF r \in Range(work) THEN "cancelled" ELSE task[r]]
  /\ work' = <<>>
  /\ UnchangedByClose /\ UNCHANGED sched

\* shutdown(wait=True) joins the pool's threads.
CloseReturn ==
  /\ CloseAt("joining", "closed")
  /\ WaitOnClose => InTask(Running) = {}
  /\ UnchangedByClose /\ UNCHANGED <<sched, work, task>>

CloseStep == CloseNotify \/ CloseShutdown \/ CloseReturn
-----------------------------------------------------------------------------
Next ==
  \/ \E r \in Requests : Dispatch(r) \/ CallerReturns(r) \/ CallerTimesOut(r)
  \/ SchedulerStep
  \/ StartTask
  \/ \E r \in Requests : Serve(r)
  \/ CloseStop
  \/ CloseStep

Spec == Init /\ [][Next]_vars
-----------------------------------------------------------------------------
\* Where a request is, between dispatch() and the end of _serve().

InHand(r) == hand = r
InPool(r) == r \in Range(work)
InServe(r) == task[r] # "none"
Marked == InTask({"call", "release", "pop", "resolve", "done"})
Started == InTask(Running \cup {"done"})

\* The slots held by the scheduler and by requests in the pool; a cancelled
\* request never runs the finally clause that would give its slot back.
SchedulerHolds == IF sched \in {"select", "release", "submit", "crashed"} THEN 1 ELSE 0
Occupied == InTask({"mark", "call", "release", "cancelled"})

(* Every slot is free or held by exactly one of: the scheduler, a request  *)
(* submitted but not started, a request not yet past the finally clause of *)
(* _serve(), a request cancelled by shutdown().  No path, the empty select *)
(* and the raising backend included, loses a slot or returns one twice.    *)
SlotConservation ==
  slots + SchedulerHolds + Len(work) + Cardinality(Occupied) = MaxConcurrency

(* From dispatch() on, a request is in exactly one place: the policy, the  *)
(* scheduler's hand, the pool's queue, or _serve(): never lost, never      *)
(* served twice, whatever the scheduler, the pool and close() interleave.  *)
OnePlace ==
  \A r \in Requests :
    /\ caller[r] # "idle" <=> Policy!Queued(r) \/ InHand(r) \/ InPool(r) \/ InServe(r)
    /\ Policy!Queued(r) => ~ (InHand(r) \/ InPool(r) \/ InServe(r))
    /\ InHand(r) => ~ (InPool(r) \/ InServe(r))
    /\ InPool(r) => ~ InServe(r)

(* self._futures holds exactly the requests dispatched and not yet popped, *)
(* so an abandoned call's entry goes when its request has been served, and *)
(* what stays for ever was stranded by close().                            *)
RegistryExact ==
  futures = {r \in Requests : caller[r] # "idle" /\ task[r] \notin {"resolve", "done"}}

(* "lets a background scheduler pick requests in the order the wrapped     *)
(* policy dictates" (async_dispatcher.py:21): pool threads start requests  *)
(* in the order the policy selected them, close() and its cancellations    *)
(* included.                                                               *)
StartOrder ==
  \A i, j \in 1..Len(selected) :
    i < j /\ selected[j] \in Started => selected[i] \in Started

(* Concurrent mark() calls: whatever the order threads reach it in, every  *)
(* model that was served has exactly one request tagged cold.              *)
OneColdPerModel ==
  \A m \in Models :
    Cardinality({r \in Marked : ModelOf[r] = m /\ tag[r].cold})
      = IF \E r \in Marked : ModelOf[r] = m THEN 1 ELSE 0

(* "called from the dispatcher worker threads in serve order, so the       *)
(* classification reflects the actual dispatch sequence"                   *)
(* (residency.py:11): a tag says what the order of selection says.         *)
TagsFollowSelection ==
  \A i \in 1..Len(selected) : selected[i] \in Marked =>
    LET m(k) == ModelOf[selected[k]]
    IN  tag[selected[i]] = [cold   |-> \A k \in 1..(i - 1) : m(k) # m(i),
                            switch |-> i > 1 /\ m(i - 1) # m(i)]

(* "blocks the caller only until its own request completes": every         *)
(* dispatched request is answered unless the dispatcher is closed, also    *)
(* when the notify() of its dispatch() came before the scheduler's wait(). *)
EveryRequestAnswered ==
  \A r \in Requests : r \in futures ~> (r \in resolved \/ Stopped)

\* Every slot went with a request that shutdown() cancelled.
AllSlotsCancelled == sched = "acquire" /\ InTask({"cancelled"}) = Occupied
                       /\ Cardinality(Occupied) = MaxConcurrency

(* After close() the scheduler thread ends: at its next look at _stopped,  *)
(* or at a submit() that raises, or else it waits for a slot no request    *)
(* will ever return.                                                       *)
CloseEndsScheduler == Stopped ~> (sched \in {"exited", "crashed"} \/ AllSlotsCancelled)

Progress(r) ==
  CASE caller[r] = "idle"                                    -> "new"
    [] Policy!Queued(r)                                      -> "queued"
    [] InHand(r) /\ sched # "crashed"                        -> "admitted"
    [] InPool(r) \/ task[r] \in {"mark", "call", "release"} -> "admitted"
    [] InHand(r) /\ sched = "crashed"                        -> "dropped"
    [] task[r] = "cancelled"                                 -> "dropped"
    [] task[r] \in {"pop", "resolve"}                        -> "served"
    [] task[r] = "done"                                      -> "answered"

Admission == INSTANCE AdmissionControl WITH
  status <- [r \in Requests |-> Progress(r)], open <- ~ Stopped

(* The threads, queues and futures implement AdmissionControl: at most     *)
(* max_concurrency requests admitted, each served once, none dropped       *)
(* before close().                                                         *)
ImplementsAdmission == Admission!Spec
=============================================================================
