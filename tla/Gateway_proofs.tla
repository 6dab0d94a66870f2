---------------------------- MODULE Gateway_proofs ----------------------------
(***************************************************************************)
(* Proofs about proxy.py and the dispatcher it calls: whatever its         *)
(* handlers do, the dispatcher under them is the AsyncDispatcher, so that  *)
(* all that is proved of that one holds in the gateway; and what a client  *)
(* is told is what the log says.                                           *)
(***************************************************************************)
EXTENDS Gateway, TLAPS

\* The dispatcher with its theorems.
Proved == INSTANCE AsyncDispatcher_proofs WITH
  Tenants <- Names, TenantOf <- TenantName,
  Models <- Names, NoModel <- None, ModelOf <- ModelName, NoRequest <- None,
  Impatient <- Requests, WaitOnClose <- TRUE

\* What the dispatcher assumes of its constants, of the gateway's.
LEMMA DispatcherAssumed ==
  /\ TenantName \in [Requests -> Names]
  /\ ModelName \in [Requests -> Names]
  /\ Proved!IsFiniteSet(Requests)
  /\ None \notin Names
  /\ None \notin Requests
  /\ MaxConcurrency \in Nat \ {0}
  <1>1. TenantName \in [Requests -> Names]
    BY GatewayAssumption DEF TenantName, Or
  <1>2. ModelName \in [Requests -> Names]
    BY <1>1, GatewayAssumption DEF ModelName, Or, Adapter
  <1>3. Proved!IsFiniteSet(Requests)
    BY GatewayAssumption DEF Proved!IsFiniteSet, IsFiniteSet
  <1> QED BY <1>1, <1>2, <1>3, GatewayAssumption
-----------------------------------------------------------------------------
\* `Dispatcher' and `Proved' are one module under two names.

LEMMA SameInit == Dispatcher!Init <=> Proved!Init
  BY DEF Dispatcher!Init, Proved!Init, Dispatcher!Policy!Init, Proved!Policy!Init,
         Dispatcher!Tracker!ResidencyInit, Proved!Tracker!ResidencyInit,
         Dispatcher!Untagged, Proved!Untagged

LEMMA SameType == Dispatcher!TypeOK <=> Proved!TypeOK
  BY DEF Dispatcher!TypeOK, Proved!TypeOK, Dispatcher!Policy!PolicyTypeOK,
         Proved!Policy!PolicyTypeOK, Dispatcher!Tracker!ResidencyTypeOK,
         Proved!Tracker!ResidencyTypeOK, Dispatcher!Tracker!Tags, Proved!Tracker!Tags,
         Dispatcher!SchedStates, Proved!SchedStates, Dispatcher!TaskStates, Proved!TaskStates

LEMMA SameVars == dispatcherVars' = dispatcherVars => Proved!vars' = Proved!vars
  BY DEF dispatcherVars, Proved!vars, Proved!policyVars, Proved!residencyVars,
         Proved!callerVars, Proved!schedVars, Proved!serveVars

LEMMA SameCallers ==
  ASSUME NEW r \in Requests
  PROVE  /\ Dispatcher!Dispatch(r) => Proved!Dispatch(r)
         /\ Dispatcher!CallerReturns(r) => Proved!CallerReturns(r)
         /\ Dispatcher!CallerTimesOut(r) => Proved!CallerTimesOut(r)
  <1> USE DEF Dispatcher!policyVars, Proved!policyVars, Dispatcher!residencyVars,
              Proved!residencyVars, Dispatcher!schedVars, Proved!schedVars,
              Dispatcher!serveVars, Proved!serveVars
  <1>1. Dispatcher!Policy!Enqueue(r) <=> Proved!Policy!Enqueue(r)
    BY DEF Dispatcher!Policy!Enqueue, Proved!Policy!Enqueue
  <1>2. Dispatcher!Dispatch(r) => Proved!Dispatch(r)
    BY <1>1 DEF Dispatcher!Dispatch, Proved!Dispatch, Dispatcher!Notify, Proved!Notify
  <1>3. Dispatcher!CallerReturns(r) => Proved!CallerReturns(r)
    BY DEF Dispatcher!CallerReturns, Proved!CallerReturns
  <1>4. Dispatcher!CallerTimesOut(r) => Proved!CallerTimesOut(r)
    BY DEF Dispatcher!CallerTimesOut, Proved!CallerTimesOut
  <1> QED BY <1>2, <1>3, <1>4

LEMMA SameScheduler == Dispatcher!SchedulerStep => Proved!SchedulerStep
  <1> SUFFICES ASSUME Dispatcher!SchedulerStep PROVE Proved!SchedulerStep
    OBVIOUS
  <1> USE DEF Dispatcher!Goto, Proved!Goto, Dispatcher!UnchangedBySched,
              Proved!UnchangedBySched, Dispatcher!policyVars, Proved!policyVars,
              Dispatcher!residencyVars, Proved!residencyVars, Dispatcher!callerVars,
              Proved!callerVars, Dispatcher!serveVars, Proved!serveVars
  <1>1. Dispatcher!CheckStopped => Proved!CheckStopped
    BY DEF Dispatcher!CheckStopped, Proved!CheckStopped, Dispatcher!Stopped, Proved!Stopped
  <1>2. Dispatcher!AcquireSlot => Proved!AcquireSlot
    BY DEF Dispatcher!AcquireSlot, Proved!AcquireSlot
  <1>3. ASSUME NEW r \in Requests PROVE Dispatcher!SelectRequest(r) => Proved!SelectRequest(r)
    BY DEF Dispatcher!SelectRequest, Proved!SelectRequest, Dispatcher!Policy!Select,
           Proved!Policy!Select, Dispatcher!Policy!Backlogged, Proved!Policy!Backlogged
  <1>4. Dispatcher!SelectNothing => Proved!SelectNothing
    BY DEF Dispatcher!SelectNothing, Proved!SelectNothing, Dispatcher!Policy!NothingQueued,
           Proved!Policy!NothingQueued, Dispatcher!Policy!Backlogged, Proved!Policy!Backlogged
  <1>5. Dispatcher!ReleaseEmptySlot => Proved!ReleaseEmptySlot
    BY DEF Dispatcher!ReleaseEmptySlot, Proved!ReleaseEmptySlot
  <1>6. Dispatcher!BeginWait \/ Dispatcher!WaitTimesOut => Proved!BeginWait \/ Proved!WaitTimesOut
    BY DEF Dispatcher!BeginWait, Proved!BeginWait, Dispatcher!WaitTimesOut, Proved!WaitTimesOut
  <1>7. Dispatcher!Submit => Proved!Submit
    BY DEF Dispatcher!Submit, Proved!Submit, Dispatcher!ExecutorDown, Proved!ExecutorDown
  <1>8. Dispatcher!SubmitRefused => Proved!SubmitRefused
    BY DEF Dispatcher!SubmitRefused, Proved!SubmitRefused, Dispatcher!ExecutorDown,
           Proved!ExecutorDown
  <1> QED BY <1>1, <1>2, <1>3, <1>4, <1>5, <1>6, <1>7, <1>8
          DEF Dispatcher!SchedulerStep, Proved!SchedulerStep

LEMMA SamePool ==
  /\ Dispatcher!StartTask => Proved!StartTask
  /\ \A r \in Requests :
       /\ Dispatcher!MarkResidency(r) => Proved!MarkResidency(r)
       /\ Dispatcher!BackendReturns(r) => Proved!BackendReturns(r)
       /\ Dispatcher!BackendRaises(r) => Proved!BackendRaises(r)
       /\ Dispatcher!ReleaseSlot(r) => Proved!ReleaseSlot(r)
       /\ Dispatcher!PopFuture(r) => Proved!PopFuture(r)
       /\ Dispatcher!ResolveFuture(r) => Proved!ResolveFuture(r)
  <1> USE DEF Dispatcher!ServeStep, Proved!ServeStep, Dispatcher!UnchangedByServe,
              Proved!UnchangedByServe, Dispatcher!policyVars, Proved!policyVars,
              Dispatcher!residencyVars, Proved!residencyVars, Dispatcher!schedVars,
              Proved!schedVars
  <1>1. Dispatcher!StartTask => Proved!StartTask
    <2>1. Dispatcher!Cardinality(Dispatcher!InTask(Dispatcher!Running))
            = Proved!Cardinality(Proved!InTask(Proved!Running))
      BY DEF Dispatcher!Cardinality, Proved!Cardinality, Dispatcher!InTask, Proved!InTask,
             Dispatcher!Running, Proved!Running
    <2> QED BY <2>1 DEF Dispatcher!StartTask, Proved!StartTask
  <1>2. ASSUME NEW r \in Requests PROVE Dispatcher!MarkResidency(r) => Proved!MarkResidency(r)
    BY DEF Dispatcher!MarkResidency, Proved!MarkResidency, Dispatcher!Tracker!Classify,
           Proved!Tracker!Classify, Dispatcher!Tracker!Mark, Proved!Tracker!Mark
  <1>3. ASSUME NEW r \in Requests
        PROVE  /\ Dispatcher!BackendReturns(r) => Proved!BackendReturns(r)
               /\ Dispatcher!BackendRaises(r) => Proved!BackendRaises(r)
    BY DEF Dispatcher!BackendReturns, Proved!BackendReturns, Dispatcher!BackendRaises,
           Proved!BackendRaises
  <1>4. ASSUME NEW r \in Requests PROVE Dispatcher!ReleaseSlot(r) => Proved!ReleaseSlot(r)
    BY DEF Dispatcher!ReleaseSlot, Proved!ReleaseSlot
  <1>5. ASSUME NEW r \in Requests PROVE Dispatcher!PopFuture(r) => Proved!PopFuture(r)
    BY DEF Dispatcher!PopFuture, Proved!PopFuture
  <1>6. ASSUME NEW r \in Requests PROVE Dispatcher!ResolveFuture(r) => Proved!ResolveFuture(r)
    BY DEF Dispatcher!ResolveFuture, Proved!ResolveFuture
  <1> QED BY <1>1, <1>2, <1>3, <1>4, <1>5, <1>6
-----------------------------------------------------------------------------
\* The refinement.

\* A thread given to a call, or a step of a probe.
ServerStep ==
  (\E c \in Calls : Arrive(c)) \/ TakeThread \/ (\E p \in Probes : CallBackend(p) \/ ProbeReturns(p))

LEMMA StepIsDispatchers == [Next]_vars => [Proved!Next]_(Proved!vars)
  <1> SUFFICES ASSUME [Next]_vars PROVE Proved!Next \/ UNCHANGED Proved!vars
    OBVIOUS
  <1>1. CASE ServerStep
    BY <1>1, SameVars DEF ServerStep, Arrive, TakeThread, CallBackend, ProbeReturns
  <1>2. ASSUME NEW r \in Requests, Handle(r) PROVE Proved!Next \/ UNCHANGED Proved!vars
    <2>1. CASE Dispatch(r) \/ Return(r) \/ TimeOut(r)
      <3>1. Proved!Dispatch(r) \/ Proved!CallerReturns(r) \/ Proved!CallerTimesOut(r)
        BY <2>1, SameCallers DEF Dispatch, Return, TimeOut
      <3> QED BY <3>1 DEF Proved!Next
    <2>2. CASE \/ LogReceived(r) \/ LogReceivedRaises(r) \/ LogCompleted(r)
               \/ LogCompletedRaises(r) \/ Respond(r)
      BY <2>2, SameVars
         DEF LogReceived, LogReceivedRaises, LogCompleted, LogCompletedRaises, Respond
    <2> QED BY <1>2, <2>1, <2>2 DEF Handle
  <1>3. ASSUME NEW r \in Requests, BackendEnds(r) PROVE Proved!Next
    <2>1. Proved!BackendReturns(r) \/ Proved!BackendRaises(r)
      BY <1>3, SamePool DEF BackendEnds
    <2> QED BY <2>1 DEF Proved!Next, Proved!Serve
  <1>4. CASE DispatcherStep
    <2>1. \/ Proved!SchedulerStep \/ Proved!StartTask
          \/ \E r \in Requests : \/ Proved!MarkResidency(r) \/ Proved!ReleaseSlot(r)
                                 \/ Proved!PopFuture(r) \/ Proved!ResolveFuture(r)
      BY <1>4, SameScheduler, SamePool DEF DispatcherStep
    <2> QED BY <2>1 DEF Proved!Next, Proved!Serve
  <1>5. CASE UNCHANGED vars
    BY <1>5, SameVars DEF vars
  <1> QED BY <1>1, <1>2, <1>3, <1>4, <1>5 DEF Next, ServerStep

(* Under the handlers of proxy.py, with their timeouts, their own failures *)
(* and the thread pool they share, the dispatcher is an AsyncDispatcher.   *)
THEOREM ImplementsDispatcher == Spec => Proved!Spec
  <1>1. Init => Proved!Init
    BY SameInit DEF Init
  <1> QED BY <1>1, StepIsDispatchers, PTL DEF Spec, Proved!Spec

\* So the dispatcher's inductive invariant holds in the gateway.
LEMMA DispatcherHolds == Spec => []Proved!IInv
  <1>1. Proved!Spec => []Proved!IInv
    BY DispatcherAssumed, Proved!Invariant
  <1> QED BY <1>1, ImplementsDispatcher, PTL

(* What holds of the dispatcher holds of the gateway's: its slots are      *)
(* conserved, a request is in one place, the registry is exact, requests   *)
(* start in the order selected and each model has one cold request.        *)
THEOREM DispatcherKept ==
  Spec => [](/\ Proved!SlotConservation /\ Proved!OnePlace /\ Proved!RegistryExact
             /\ Proved!StartOrder /\ Proved!OneColdPerModel)
  <1>1. /\ Proved!Spec => []Proved!SlotConservation
        /\ Proved!Spec => []Proved!OnePlace
        /\ Proved!Spec => []Proved!RegistryExact
    BY DispatcherAssumed, Proved!SlotsConserved, Proved!RequestInOnePlace, Proved!RegistryIsExact
  <1>2. Proved!Spec => []Proved!StartOrder
    BY DispatcherAssumed, Proved!StartsInOrder
  <1>3. Proved!Spec => []Proved!OneColdPerModel
    BY DispatcherAssumed, Proved!OneColdRequest
  <1> QED BY <1>1, <1>2, <1>3, ImplementsDispatcher, PTL
-----------------------------------------------------------------------------
\* The answers and the log.

GatewayType ==
  /\ limiter \in Seq(Calls)
  /\ handler \in [Calls -> {"idle", "arrived", "started", "probing", "received",
                            "dispatched", "returned", "logged", "answered"}]
  /\ response \in [Calls -> {0, 200, 500, 502}]
  /\ status \in [Requests -> {"none", "completed", "failed"}]
  /\ completed \subseteq received /\ received \subseteq Requests

\* The calls that wait for a thread wait once, and for nothing else.
Limited ==
  /\ \A i \in 1..Len(limiter) : handler[limiter[i]] = "arrived"
  /\ \A i, j \in 1..Len(limiter) : i # j => limiter[i] # limiter[j]

\* How far a handler is, its dispatch() call is, and its log is.
HandlerAgrees ==
  \A r \in Requests :
    /\ handler[r] \in {"idle", "arrived", "started"} => r \notin received
    /\ handler[r] \in {"received", "dispatched", "returned", "logged"} => r \in received
    /\ handler[r] \in {"returned", "logged"} => caller[r] = "returned"
    /\ handler[r] = "logged" => r \in completed
    /\ r \in completed => handler[r] \in {"logged", "answered"} /\ caller[r] = "returned"

\* A result that was returned will not change: its request has been served.
ReturnedIsDone ==
  \A r \in Requests :
    /\ caller[r] = "returned" => r \in resolved
    /\ r \in resolved => task[r] = "done"

AnswerInv == GatewayType /\ Limited /\ HandlerAgrees /\ ReturnedIsDone /\ AnswerAgreesWithLog

\* The dispatcher's own steps answer nobody and undo no service.
DispatcherOnly ==
  /\ UNCHANGED <<handlerVars, logVars, caller>>
  /\ \A r \in Requests : task[r] = "done" => task'[r] = "done" /\ status'[r] = status[r]
  /\ \A r \in resolved' : r \in resolved \/ task'[r] = "done"
  /\ resolved \subseteq resolved'
  /\ status' \in [Requests -> {"none", "completed", "failed"}]

LEMMA DispatcherOnlyKeeps == AnswerInv /\ DispatcherOnly => AnswerInv'
  <1> SUFFICES ASSUME AnswerInv, DispatcherOnly PROVE AnswerInv'
    OBVIOUS
  <1> USE DEF AnswerInv, DispatcherOnly, handlerVars, logVars
  <1>1. GatewayType'
    BY DEF GatewayType
  <1>2. Limited'
    BY DEF Limited
  <1>3. HandlerAgrees'
    BY DEF HandlerAgrees
  <1>4. ReturnedIsDone'
    BY DEF ReturnedIsDone
  <1>5. AnswerAgreesWithLog'
    <2> SUFFICES ASSUME NEW r \in Requests, handler[r] = "answered"
                 PROVE  /\ response[r] = 200 <=> r \in completed /\ status'[r] = "completed"
                        /\ r \in received \ completed => caller[r] = "timedout" \/ r \in Unwritable
      BY DEF AnswerAgreesWithLog
    <2>1. r \in completed => status'[r] = status[r]
      BY DEF HandlerAgrees, ReturnedIsDone
    <2> QED BY <2>1 DEF AnswerAgreesWithLog
  <1> QED BY <1>1, <1>2, <1>3, <1>4, <1>5

LEMMA BackendIsDispatcherOnly ==
  ASSUME AnswerInv, Proved!IInv, NEW r \in Requests, BackendEnds(r) PROVE DispatcherOnly
  <1>1. /\ task[r] = "call" /\ task' = [task EXCEPT ![r] = "release"]
        /\ UNCHANGED <<handlerVars, logVars, caller, resolved>>
        /\ \E s \in {"completed", "failed"} : status' = [status EXCEPT ![r] = s]
    BY DEF BackendEnds, Dispatcher!BackendReturns, Dispatcher!BackendRaises,
           Dispatcher!ServeStep, Dispatcher!UnchangedByServe
  <1>2. task \in [Requests -> Proved!TaskStates]
    BY DEF Proved!IInv, Proved!TypeOK
  <1> QED BY <1>1, <1>2 DEF AnswerInv, GatewayType, DispatcherOnly

LEMMA StepIsDispatcherOnly ==
  ASSUME AnswerInv, Proved!IInv, DispatcherStep PROVE DispatcherOnly
  <1>0. /\ UNCHANGED <<handlerVars, status, logVars>>
        /\ status \in [Requests -> {"none", "completed", "failed"}]
        /\ task \in [Requests -> Proved!TaskStates] /\ resolved \subseteq Requests
    BY DEF DispatcherStep, AnswerInv, GatewayType, Proved!IInv, Proved!TypeOK
  <1>1. CASE Dispatcher!SchedulerStep
    <2>1. UNCHANGED <<caller, resolved, task>>
      BY <1>1 DEF Dispatcher!SchedulerStep, Dispatcher!CheckStopped, Dispatcher!AcquireSlot,
         Dispatcher!SelectRequest, Dispatcher!SelectNothing, Dispatcher!ReleaseEmptySlot,
         Dispatcher!BeginWait, Dispatcher!WaitTimesOut, Dispatcher!Submit,
         Dispatcher!SubmitRefused, Dispatcher!UnchangedBySched, Dispatcher!callerVars,
         Dispatcher!serveVars
    <2> QED BY <1>0, <2>1 DEF DispatcherOnly
  <1>2. CASE Dispatcher!StartTask
    <2>1. /\ task' = [task EXCEPT ![Head(work)] = "mark"] /\ UNCHANGED <<caller, resolved>>
          /\ work # <<>>
      BY <1>2 DEF Dispatcher!StartTask, Dispatcher!UnchangedByServe
    <2>2. Head(work) \in Requests /\ task[Head(work)] = "none"
      <3>1. work \in Seq(Requests)
        BY DEF Proved!IInv, Proved!TypeOK
      <3>2. Head(work) \in Requests /\ Head(work) \in Proved!Range(work)
        BY <2>1, <3>1 DEF Proved!Range
      <3> QED BY <3>2 DEF Proved!IInv, Proved!Placement, Proved!OnePlace, Proved!InPool,
                 Proved!InServe
    <2> QED BY <1>0, <2>1, <2>2 DEF DispatcherOnly
  <1>3. ASSUME NEW r \in Requests,
               Dispatcher!MarkResidency(r) \/ Dispatcher!ReleaseSlot(r) \/ Dispatcher!PopFuture(r)
        PROVE  DispatcherOnly
    <2>1. /\ task[r] # "done" /\ UNCHANGED <<caller, resolved>>
          /\ \E s : task' = [task EXCEPT ![r] = s]
      BY <1>3 DEF Dispatcher!MarkResidency, Dispatcher!ReleaseSlot, Dispatcher!PopFuture,
         Dispatcher!ServeStep, Dispatcher!UnchangedByServe
    <2> QED BY <1>0, <2>1 DEF DispatcherOnly
  <1>4. ASSUME NEW r \in Requests, Dispatcher!ResolveFuture(r) PROVE DispatcherOnly
    <2>1. /\ task' = [task EXCEPT ![r] = "done"] /\ resolved' = resolved \cup {r}
          /\ UNCHANGED caller
      BY <1>4 DEF Dispatcher!ResolveFuture, Dispatcher!ServeStep, Dispatcher!UnchangedByServe
    <2> QED BY <1>0, <2>1 DEF DispatcherOnly
  <1> QED BY <1>1, <1>2, <1>3, <1>4 DEF DispatcherStep

\* A step of request r's own handler, which goes to `to': what it may do to the
\* log, to the answer and to the caller.
OwnStep(r, to) ==
  /\ UNCHANGED <<limiter, status, resolved, task>>
  /\ handler[r] \notin {"idle", "arrived"}
  /\ to \in {"received", "dispatched", "returned", "logged", "answered"}
  /\ handler' = [handler EXCEPT ![r] = to]
  /\ response' \in [Calls -> {0, 200, 500, 502}]
  /\ received' \in {received, received \cup {r}}
  /\ completed' \in {completed, completed \cup {r}}
  /\ completed' \subseteq received'
  /\ \A q \in Requests \ {r} : response'[q] = response[q] /\ caller'[q] = caller[q]
  /\ caller'[r] = "returned" => r \in resolved
  /\ to # "answered" => r \in received'
  /\ to \in {"returned", "logged"} => caller'[r] = "returned"
  /\ to = "logged" => r \in completed'
  /\ r \in completed' => to \in {"logged", "answered"} /\ caller'[r] = "returned"
  /\ to = "answered" =>
       /\ response'[r] = 200 <=> r \in completed' /\ status[r] = "completed"
       /\ r \in received' \ completed' => caller'[r] = "timedout" \/ r \in Unwritable

LEMMA OneHandler ==
  ASSUME AnswerInv, NEW r \in Requests, NEW to, OwnStep(r, to) PROVE AnswerInv'
  <1> USE DEF AnswerInv, OwnStep
  <1>1. r \in Calls
    BY DEF Calls
  <1>2. \A c \in Calls : handler'[c] = IF c = r THEN to ELSE handler[c]
    BY <1>1 DEF GatewayType
  <1>3. GatewayType'
    BY <1>1 DEF GatewayType
  <1>4. Limited'
    <2>1. \A i \in 1..Len(limiter) : limiter[i] \in Calls /\ limiter[i] # r
      BY DEF GatewayType, Limited
    <2> QED BY <1>2, <2>1 DEF Limited
  <1>5. \A q \in Requests \ {r} :
          /\ q \in Calls /\ caller'[q] = caller[q] /\ response'[q] = response[q]
          /\ q \in received' <=> q \in received
          /\ q \in completed' <=> q \in completed
    BY DEF Calls
  <1>6. HandlerAgrees'
    BY <1>1, <1>2, <1>5 DEF HandlerAgrees
  <1>7. ReturnedIsDone'
    BY <1>5 DEF ReturnedIsDone
  <1>8. AnswerAgreesWithLog'
    BY <1>1, <1>2, <1>5 DEF AnswerAgreesWithLog
  <1> QED BY <1>3, <1>4, <1>6, <1>7, <1>8

LEMMA HandleKeeps ==
  ASSUME AnswerInv, Proved!IInv, NEW r \in Requests, Handle(r) PROVE AnswerInv'
  <1>0. /\ r \in Calls /\ \A q \in Requests \ {r} : q \in Calls /\ q # r
        /\ response \in [Calls -> {0, 200, 500, 502}]
        /\ completed \subseteq received
    BY DEF AnswerInv, GatewayType, Calls
  <1>1. caller \in [Requests -> {"idle", "waiting", "returned", "timedout"}]
    BY DEF Proved!IInv, Proved!TypeOK
  <1>2. /\ handler[r] \in {"idle", "arrived", "started"} => r \notin received
        /\ handler[r] \in {"received", "dispatched", "returned", "logged"} => r \in received
        /\ handler[r] \in {"returned", "logged"} => caller[r] = "returned"
        /\ handler[r] = "logged" => r \in completed
        /\ r \in completed => handler[r] \in {"logged", "answered"} /\ caller[r] = "returned"
        /\ caller[r] = "returned" => r \in resolved
    BY DEF AnswerInv, HandlerAgrees, ReturnedIsDone
  <1>3. CASE LogReceived(r)
    <2>1. /\ handler[r] = "started" /\ handler' = [handler EXCEPT ![r] = "received"]
          /\ response' = response /\ caller' = caller
          /\ received' = received \cup {r} /\ completed' = completed
          /\ UNCHANGED <<limiter, status, resolved, task>>
      BY <1>3 DEF LogReceived,
                  HandlerStep, dispatcherVars, logVars
    <2>2. OwnStep(r, "received")
      BY <1>0, <1>1, <1>2, <2>1 DEF OwnStep
    <2> QED BY <2>2, OneHandler
  <1>4. CASE LogReceivedRaises(r)
    <2>1. /\ handler[r] = "started" /\ handler' = [handler EXCEPT ![r] = "answered"]
          /\ response' = [response EXCEPT ![r] = 500] /\ caller' = caller
          /\ received' = received /\ completed' = completed /\ r \in Unwritable
          /\ UNCHANGED <<limiter, status, resolved, task>>
      BY <1>4 DEF LogReceivedRaises,
                  Answer, dispatcherVars, logVars
    <2>2. OwnStep(r, "answered")
      BY <1>0, <1>1, <1>2, <2>1 DEF OwnStep
    <2> QED BY <2>2, OneHandler
  <1>5. CASE Dispatch(r)
    <2>1. /\ handler[r] = "received" /\ handler' = [handler EXCEPT ![r] = "dispatched"]
          /\ response' = response /\ caller' = [caller EXCEPT ![r] = "waiting"]
          /\ received' = received /\ completed' = completed
          /\ UNCHANGED <<limiter, status, resolved, task>>
      BY <1>5 DEF Dispatch, Dispatcher!Dispatch, Dispatcher!serveVars,
                  HandlerStep, dispatcherVars, logVars
    <2>2. OwnStep(r, "dispatched")
      BY <1>0, <1>1, <1>2, <2>1 DEF OwnStep
    <2> QED BY <2>2, OneHandler
  <1>6. CASE Return(r)
    <2>1. /\ handler[r] = "dispatched" /\ handler' = [handler EXCEPT ![r] = "returned"]
          /\ response' = response /\ caller' = [caller EXCEPT ![r] = "returned"]
          /\ received' = received /\ completed' = completed /\ r \in resolved
          /\ UNCHANGED <<limiter, status, resolved, task>>
      BY <1>6 DEF Return, Dispatcher!CallerReturns, Dispatcher!serveVars,
                  HandlerStep, dispatcherVars, logVars
    <2>2. OwnStep(r, "returned")
      BY <1>0, <1>1, <1>2, <2>1 DEF OwnStep
    <2> QED BY <2>2, OneHandler
  <1>7. CASE TimeOut(r)
    <2>1. /\ handler[r] = "dispatched" /\ handler' = [handler EXCEPT ![r] = "answered"]
          /\ response' = [response EXCEPT ![r] = 502] /\ caller' = [caller EXCEPT ![r] = "timedout"]
          /\ received' = received /\ completed' = completed
          /\ UNCHANGED <<limiter, status, resolved, task>>
      BY <1>7 DEF TimeOut, Dispatcher!CallerTimesOut, Dispatcher!serveVars,
                  Answer, dispatcherVars, logVars
    <2>2. OwnStep(r, "answered")
      BY <1>0, <1>1, <1>2, <2>1 DEF OwnStep
    <2> QED BY <2>2, OneHandler
  <1>8. CASE LogCompleted(r)
    <2>1. /\ handler[r] = "returned" /\ handler' = [handler EXCEPT ![r] = "logged"]
          /\ response' = response /\ caller' = caller
          /\ received' = received /\ completed' = completed \cup {r}
          /\ UNCHANGED <<limiter, status, resolved, task>>
      BY <1>8 DEF LogCompleted,
                  HandlerStep, dispatcherVars, logVars
    <2>2. OwnStep(r, "logged")
      BY <1>0, <1>1, <1>2, <2>1 DEF OwnStep
    <2> QED BY <2>2, OneHandler
  <1>9. CASE LogCompletedRaises(r)
    <2>1. /\ handler[r] = "returned" /\ handler' = [handler EXCEPT ![r] = "answered"]
          /\ response' = [response EXCEPT ![r] = 502] /\ caller' = caller
          /\ received' = received /\ completed' = completed /\ r \in Unwritable
          /\ UNCHANGED <<limiter, status, resolved, task>>
      BY <1>9 DEF LogCompletedRaises,
                  Answer, dispatcherVars, logVars
    <2>2. OwnStep(r, "answered")
      BY <1>0, <1>1, <1>2, <2>1 DEF OwnStep
    <2> QED BY <2>2, OneHandler
  <1>10. CASE Respond(r)
    <2>1. /\ handler[r] = "logged" /\ handler' = [handler EXCEPT ![r] = "answered"]
          /\ response' = [response EXCEPT ![r] = (IF status[r] = "completed" THEN 200 ELSE 502)] /\ caller' = caller
          /\ received' = received /\ completed' = completed
          /\ UNCHANGED <<limiter, status, resolved, task>>
      BY <1>10 DEF Respond,
                  Answer, dispatcherVars, logVars
    <2>2. OwnStep(r, "answered")
      BY <1>0, <1>1, <1>2, <2>1 DEF OwnStep
    <2> QED BY <2>2, OneHandler
  <1> QED BY <1>3, <1>4, <1>5, <1>6, <1>7, <1>8, <1>9, <1>10 DEF Handle

\* The server's own steps: threads given to calls, and the probes' answers.
LEMMA ServerKeeps ==
  ASSUME AnswerInv, ServerStep
  PROVE  AnswerInv'
  <1> USE DEF AnswerInv
  <1>1. UNCHANGED <<status, received, completed, caller, resolved, task>>
    BY DEF ServerStep, Arrive, TakeThread, CallBackend, ProbeReturns, dispatcherVars, logVars
  <1>2. ReturnedIsDone'
    BY <1>1 DEF ReturnedIsDone
  <1>3. CASE \E c \in Calls : Arrive(c)
    <2>1. PICK c \in Calls : /\ handler[c] = "idle" /\ limiter' = Append(limiter, c)
                             /\ handler' = [handler EXCEPT ![c] = "arrived"]
                             /\ response' = response
      BY <1>3 DEF Arrive
    <2>2. GatewayType'
      BY <1>1, <2>1 DEF GatewayType
    <2>3. \A d \in Calls : handler'[d] = IF d = c THEN "arrived" ELSE handler[d]
      BY <2>1 DEF GatewayType
    <2>4. Limited'
      <3>1. /\ Len(limiter) \in Nat /\ Len(limiter') = Len(limiter) + 1
            /\ \A i \in 1..Len(limiter) : limiter'[i] = limiter[i] /\ limiter[i] \in Calls
            /\ limiter'[Len(limiter) + 1] = c
        BY <2>1 DEF GatewayType
      <3>2. \A i \in 1..Len(limiter) : limiter[i] # c
        BY <2>1 DEF Limited
      <3> QED BY <2>3, <3>1, <3>2 DEF Limited
    <2>5. HandlerAgrees' /\ AnswerAgreesWithLog'
      BY <1>1, <2>1, <2>3 DEF HandlerAgrees, AnswerAgreesWithLog, Calls
    <2> QED BY <1>2, <2>2, <2>4, <2>5
  <1>4. CASE TakeThread
    <2> DEFINE h == Head(limiter)
    <2>1. /\ limiter # <<>> /\ limiter' = Tail(limiter) /\ response' = response
          /\ handler' = [handler EXCEPT ![h] = "started"]
      BY <1>4 DEF TakeThread
    <2>2. /\ Len(limiter) \in Nat \ {0} /\ Len(limiter') = Len(limiter) - 1
          /\ \A i \in 1..Len(limiter') : limiter'[i] = limiter[i + 1]
          /\ \A i \in 1..Len(limiter) : limiter[i] \in Calls
          /\ h = limiter[1]
      BY <2>1 DEF GatewayType
    <2>3. h \in Calls /\ handler[h] = "arrived"
      BY <2>2 DEF Limited
    <2>4. GatewayType'
      BY <1>1, <2>1, <2>3 DEF GatewayType
    <2>5. \A d \in Calls : handler'[d] = IF d = h THEN "started" ELSE handler[d]
      BY <2>1 DEF GatewayType
    <2>6. Limited'
      <3>1. \A i \in 1..Len(limiter') : i + 1 \in 1..Len(limiter) /\ i + 1 # 1
        BY <2>2
      <3>2. \A i \in 1..Len(limiter') : /\ limiter'[i] \in Calls /\ limiter'[i] # h
                                       /\ handler[limiter'[i]] = "arrived"
        BY <2>2, <3>1 DEF Limited
      <3>3. \A i \in 1..Len(limiter') : handler'[limiter'[i]] = "arrived"
        BY <2>5, <3>2
      <3>4. \A i, j \in 1..Len(limiter') : i # j => limiter'[i] # limiter'[j]
        <4>1. \A i, j \in 1..Len(limiter') : i # j => i + 1 # j + 1
          BY <2>2
        <4> QED BY <2>2, <3>1, <4>1 DEF Limited
      <3> QED BY ONLY <3>3, <3>4 DEF Limited
    <2>7. HandlerAgrees' /\ AnswerAgreesWithLog'
      BY <1>1, <2>1, <2>3, <2>5 DEF HandlerAgrees, AnswerAgreesWithLog, Calls
    <2> QED BY <1>2, <2>4, <2>6, <2>7
  <1>5. CASE \E p \in Probes : CallBackend(p) \/ ProbeReturns(p)
    <2>0. PICK p \in Probes : CallBackend(p) \/ ProbeReturns(p)
      BY <1>5
    <2>1. PICK to \in {"probing", "answered"}, code \in {200, 502} :
            /\ handler[p] \in {"started", "probing"} /\ limiter' = limiter
            /\ handler' = [handler EXCEPT ![p] = to]
            /\ response' = response \/ response' = [response EXCEPT ![p] = code]
      BY <2>0 DEF CallBackend, ProbeReturns, HandlerStep, Answer
    <2>2. p \in Calls /\ p \notin Requests
      BY GatewayAssumption DEF Calls
    <2>3. GatewayType'
      BY <1>1, <2>1, <2>2 DEF GatewayType
    <2>4. Limited'
      BY <2>1, <2>2 DEF Limited, GatewayType
    <2>5. \A r \in Requests : handler'[r] = handler[r] /\ response'[r] = response[r]
      BY <2>1, <2>2 DEF GatewayType, Calls
    <2>6. HandlerAgrees' /\ AnswerAgreesWithLog'
      BY <1>1, <2>5 DEF HandlerAgrees, AnswerAgreesWithLog
    <2> QED BY <1>2, <2>3, <2>4, <2>6
  <1> QED BY <1>3, <1>4, <1>5 DEF ServerStep

LEMMA AnswersHold == Spec => []AnswerInv
  <1>1. Init => AnswerInv
    BY DEF Init, AnswerInv, GatewayType, Limited, HandlerAgrees, ReturnedIsDone,
           AnswerAgreesWithLog, Calls, Dispatcher!Init
  <1>2. AnswerInv /\ Proved!IInv /\ [Next]_vars => AnswerInv'
    <2> SUFFICES ASSUME AnswerInv, Proved!IInv, [Next]_vars PROVE AnswerInv'
      OBVIOUS
    <2>1. CASE UNCHANGED vars
      BY <2>1 DEF vars, dispatcherVars, handlerVars, logVars, AnswerInv, GatewayType, Limited,
                  HandlerAgrees, ReturnedIsDone, AnswerAgreesWithLog
    <2> QED BY <2>1, ServerKeeps, HandleKeeps, BackendIsDispatcherOnly, StepIsDispatcherOnly,
               DispatcherOnlyKeeps DEF Next, ServerStep
  <1> QED BY <1>1, <1>2, DispatcherHolds, PTL DEF Spec

(* The gateway and the dispatcher under it keep their types: the slots     *)
(* within max_concurrency, and no request_completed record without a       *)
(* request_received one.                                                   *)
THEOREM GatewayTypeCorrect == Spec => []TypeOK
  <1>1. Proved!IInv /\ AnswerInv => TypeOK
    BY SameType DEF Proved!IInv, AnswerInv, GatewayType, TypeOK
  <1> QED BY <1>1, DispatcherHolds, AnswersHold, PTL

(* A client is told 200 exactly when the log says that its request         *)
(* completed with success, and a request answered without a record is one  *)
(* whose dispatch timed out or whose record could not be written           *)
(* (chat_completions in proxy.py).                                         *)
THEOREM AnswersAgree == Spec => []AnswerAgreesWithLog
  <1>1. AnswerInv => AnswerAgreesWithLog
    BY DEF AnswerInv
  <1> QED BY <1>1, AnswersHold, PTL
=============================================================================
